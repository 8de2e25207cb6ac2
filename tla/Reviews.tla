------------------------------ MODULE Reviews ------------------------------
(***************************************************************************)
(* Customers review the details of completed orders; each review updates    *)
(* the rating of the technician it names.  ReviewsService.customerCreate    *)
(* checks before its transaction, reads the rating inside it, and writes    *)
(* the new rating as an absolute value.  Requests overlap, and one may die  *)
(* before it commits.                                                       *)
(*                                                                         *)
(* Ratings are counted in hundredths of a star, the scale of the column     *)
(* average_rating, Decimal(3,2).                                            *)
(***************************************************************************)
EXTENDS Integers, FiniteSets

CONSTANTS
  Workers,      \* slots for requests under way
  Details,      \* details of completed orders; each has one customer, its order's
  Technicians,  \* ids in the technicians table
  Stars         \* the ratings customers give

ASSUME ReviewsAssumption == Stars \subseteq 1..5

VARIABLES
  rows,      \* number of Review rows of each detail
  given,     \* of the Review rows naming each technician: how many, and the stars added up
  rating,    \* Technicians.total_review and average_rating, in hundredths
  req,       \* the request of each slot
  overlapped \* two requests have been under way at once

vars == <<rows, given, rating, req, overlapped>>

Idle == [at |-> "idle"]

(* The columns total_review and average_rating, Decimal(3,2). *)
Ratings == [total : Nat, average : 0..999]

Requests ==
  {Idle}
  \cup [at : {"insert"}, detail : Details, technician : Technicians, stars : Stars]
  \cup [at : {"update"}, detail : Details, technician : Technicians, stars : Stars,
        seen : Ratings]

TypeOK ==
  /\ rows \in [Details -> Nat]
  /\ given \in [Technicians -> [count : Nat, stars : Nat]]
  /\ rating \in [Technicians -> Ratings]
  /\ req \in [Workers -> Requests]
  /\ overlapped \in BOOLEAN

-----------------------------------------------------------------------------
(* Faulty variants: the unweighted sum, the missing check, the review       *)
(* counted twice.                                                           *)

Near(m, x, n) == 2 * (m * n - x) \in (-n)..n

ForgetsWeight(r, stars) == {m \in 0..999 : Near(m, r.average + 100 * stars, r.total + 1)}
AlwaysUnreviewed(d) == TRUE
CountsTwice(r) == r.total + 2

-----------------------------------------------------------------------------
(* The values of a Decimal(3,2) column nearest to the weighted mean of the  *)
(* old average and the new stars; a tie may go either way, as the division  *)
(* is done in binary floating point before the column rounds.               *)
NewAverages(r, stars) ==
  {m \in 0..999 : Near(m, r.total * r.average + 100 * stars, r.total + 1)}

NewTotal(r) == r.total + 1

Unreviewed(d) == rows[d] = 0

Init ==
  /\ rows = [d \in Details |-> 0]
  /\ given = [t \in Technicians |-> [count |-> 0, stars |-> 0]]
  /\ rating = [t \in Technicians |-> [total |-> 0, average |-> 0]]
  /\ req = [w \in Workers |-> Idle]
  /\ overlapped = FALSE

(* The checks of customerCreate; any technician may be named. *)
Check(w, d, t, stars) ==
  /\ req[w] = Idle
  /\ Unreviewed(d)
  /\ req' = [req EXCEPT ![w] = [at |-> "insert", detail |-> d, technician |-> t, stars |-> stars]]
  /\ overlapped' = (overlapped \/ \E v \in Workers \ {w} : req[v] # Idle)
  /\ UNCHANGED <<rows, given, rating>>

(* In the transaction: the review is inserted, the technician read. *)
ReadRating(w) ==
  /\ req[w].at = "insert"
  /\ req' = [req EXCEPT ![w] =
               [at |-> "update", detail |-> req[w].detail, technician |-> req[w].technician,
                stars |-> req[w].stars, seen |-> rating[req[w].technician]]]
  /\ UNCHANGED <<rows, given, rating, overlapped>>

(* The rating is written and the transaction commits. *)
Commit(w) ==
  LET r == req[w] IN
  /\ r.at = "update"
  /\ \E average \in NewAverages(r.seen, r.stars) :
       rating' = [rating EXCEPT ![r.technician] =
                    [total |-> NewTotal(r.seen), average |-> average]]
  /\ rows' = [rows EXCEPT ![r.detail] = @ + 1]
  /\ given' = [given EXCEPT ![r.technician] =
                 [count |-> @.count + 1, stars |-> @.stars + r.stars]]
  /\ req' = [req EXCEPT ![w] = Idle]
  /\ UNCHANGED overlapped

(* The request dies; what it wrote in its transaction is rolled back. *)
Fail(w) ==
  /\ req[w] # Idle
  /\ req' = [req EXCEPT ![w] = Idle]
  /\ UNCHANGED <<rows, given, rating, overlapped>>

Next ==
  \E w \in Workers :
    \/ \E d \in Details, t \in Technicians, stars \in Stars : Check(w, d, t, stars)
    \/ ReadRating(w) \/ Commit(w) \/ Fail(w)

Spec == Init /\ [][Next]_vars

-----------------------------------------------------------------------------
(* Properties *)

(* Whatever overlaps or dies, a technician with a review has a rating of    *)
(* one to five stars: a lost review skews the average but rounding and      *)
(* stale weights never carry it out of range, where the column would        *)
(* overflow.                                                                *)
RatingInRange ==
  \A t \in Technicians : rating[t].total > 0 => rating[t].average \in 100..500

(* Overlap can lose reviews from the count, never invent one, and a         *)
(* technician with a review never shows as unrated.                         *)
CountNeverExceeds ==
  \A t \in Technicians :
    /\ rating[t].total <= given[t].count
    /\ given[t].count > 0 => rating[t].total > 0

(* The distance of the average from the true mean, times the count: each of *)
(* n reviews adds a rounding error of half a hundredth, and all earlier     *)
(* ones are carried along, so the bound is n(n+1)/4 hundredths.             *)
DriftBounded(t) ==
  LET n == rating[t].total
      drift == n * rating[t].average - 100 * given[t].stars
  IN 4 * drift \in (-n * (n + 1))..(n * (n + 1))

(* As long as no two requests overlap, a detail is reviewed at most once,   *)
(* every review counts, and the average drifts from the mean of the reviews *)
(* by no more than its rounding.                                            *)
ExactWithoutOverlap ==
  ~overlapped =>
    /\ \A d \in Details : rows[d] <= 1
    /\ \A t \in Technicians : rating[t].total = given[t].count /\ DriftBounded(t)
=============================================================================
