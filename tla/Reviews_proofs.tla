--------------------------- MODULE Reviews_proofs ---------------------------
(***************************************************************************)
(* Proofs of the properties of Reviews, for any number of workers, details  *)
(* and technicians and any history of overlaps and failures.                *)
(***************************************************************************)
EXTENDS Reviews, TLAPS

(* A weighted mean of two values between 100 and 500, rounded to the        *)
(* nearest integer, is between 100 and 500.                                 *)
LEMMA MeanInRange ==
  ASSUME NEW n \in Nat, NEW a \in Nat, NEW s \in 1..5, NEW m \in Nat,
         n > 0 => a \in 100..500,
         Near(m, n * a + 100 * s, n + 1)
  PROVE  m \in 100..500
<1> DEFINE k == n + 1
           x == n * a
           y == m * k
<1>1. k \in Nat /\ k > 0 /\ x \in Int /\ y \in Int
  OBVIOUS
<1>2. x >= 100 * n /\ x <= 500 * n
  <2>1. CASE n = 0
    BY <2>1
  <2>2. CASE n > 0
    <3>1. a >= 100 /\ a <= 500
      BY <2>2
    <3>2. n * (a - 100) >= 0 /\ n * (500 - a) >= 0
      BY <3>1, <2>2
    <3> QED
      BY <3>2
  <2> QED
    BY <2>1, <2>2
<1>3. 2 * (y - (x + 100 * s)) >= -k /\ 2 * (y - (x + 100 * s)) <= k
  BY <1>1 DEF Near
<1>4. 100 * k <= x + 100 * s /\ x + 100 * s <= 500 * k
  BY <1>2
<1> HIDE DEF k, x, y
<1>5. 2 * y >= 199 * k /\ 2 * y <= 1001 * k
  BY <1>1, <1>3, <1>4
<1>6. ASSUME m <= 99 PROVE FALSE
  <2>1. k * (99 - m) >= 0
    BY <1>1, <1>6
  <2>2. y <= 99 * k
    BY <2>1, <1>1 DEF y
  <2> QED
    BY <2>2, <1>5, <1>1
<1>7. ASSUME m >= 501 PROVE FALSE
  <2>1. k * (m - 501) >= 0
    BY <1>1, <1>7
  <2>2. y >= 501 * k
    BY <2>1, <1>1 DEF y
  <2> QED
    BY <2>2, <1>5, <1>1
<1> QED
  BY <1>6, <1>7

(* One more review adds at most half a hundredth, times the new count, to   *)
(* the drift.                                                               *)
LEMMA DriftStep ==
  ASSUME NEW n \in Nat, NEW a \in Nat, NEW sum \in Nat, NEW s \in 1..5, NEW m \in Nat,
         4 * (n * a - 100 * sum) \in (-n * (n + 1))..(n * (n + 1)),
         Near(m, n * a + 100 * s, n + 1)
  PROVE  4 * ((n + 1) * m - 100 * (sum + s)) \in (-(n + 1) * (n + 2))..((n + 1) * (n + 2))
<1> DEFINE x == n * a
           y == m * (n + 1)
           b == n * (n + 1)
<1>1. x \in Int /\ y \in Int /\ b \in Int
  OBVIOUS
<1>2. 4 * (x - 100 * sum) >= -b /\ 4 * (x - 100 * sum) <= b
  BY <1>1
<1>3. 2 * (y - (x + 100 * s)) >= -(n + 1) /\ 2 * (y - (x + 100 * s)) <= n + 1
  BY <1>1 DEF Near
<1>4. (n + 1) * m = y /\ (n + 1) * (n + 2) = b + 2 * (n + 1) /\ -(n + 1) * (n + 2) = -(b + 2 * (n + 1))
  OBVIOUS
<1> HIDE DEF x, y, b
<1>5. /\ 4 * (y - 100 * (sum + s)) >= -(b + 2 * (n + 1))
      /\ 4 * (y - 100 * (sum + s)) <= b + 2 * (n + 1)
  BY <1>1, <1>2, <1>3
<1> QED
  BY <1>4, <1>5, <1>1

-----------------------------------------------------------------------------
(* What a request under way relies on: the rating it has seen is one the    *)
(* technician has had, and without overlap it is the current one.           *)

(* A rating that the reviews of t so far may have led to. *)
Reached(r, t) ==
  /\ r.total <= given[t].count
  /\ r.total > 0 => r.average \in 100..500

RatingsReached == \A t \in Technicians : Reached(rating[t], t)
SeenReached ==
  \A w \in Workers : req[w].at = "update" => Reached(req[w].seen, req[w].technician)
RatedIfReviewed == \A t \in Technicians : given[t].count > 0 => rating[t].total > 0

Inv == TypeOK /\ RatingsReached /\ SeenReached /\ RatedIfReviewed

LEMMA RatingColumns == \A r \in Ratings : r.total \in Nat /\ r.average \in Nat
  BY DEF Ratings

LEMMA RequestKinds ==
  ASSUME NEW r \in Requests
  PROVE  /\ r.at \in {"idle", "insert", "update"}
         /\ r = Idle <=> r.at = "idle"
         /\ r.at # "idle" => r.detail \in Details /\ r.technician \in Technicians /\ r.stars \in Stars
         /\ r.at = "update" => r.seen \in Ratings
  BY DEF Requests, Ratings, Idle

LEMMA InvInit == Init => Inv
<1> SUFFICES ASSUME Init
             PROVE  Inv
  OBVIOUS
<1>1. TypeOK
  <2>1. [total |-> 0, average |-> 0] \in Ratings
    BY DEF Ratings
  <2> QED
    BY <2>1 DEF Init, TypeOK, Requests
<1>2. RatingsReached /\ RatedIfReviewed
  BY DEF Init, RatingsReached, RatedIfReviewed, Reached
<1>3. SeenReached
  BY DEF Init, SeenReached, Idle
<1> QED
  BY <1>1, <1>2, <1>3 DEF Inv

LEMMA InvNext == Inv /\ [Next]_vars => Inv'
<1> SUFFICES ASSUME Inv, [Next]_vars
             PROVE  Inv'
  OBVIOUS
<1> USE DEF Inv
<1>1. CASE UNCHANGED vars
  BY <1>1 DEF vars, TypeOK, RatingsReached, SeenReached, RatedIfReviewed, Reached
<1>2. ASSUME NEW w \in Workers, NEW d \in Details, NEW t \in Technicians, NEW stars \in Stars,
             Check(w, d, t, stars)
      PROVE  Inv'
  <2>1. TypeOK'
    BY <1>2 DEF Check, TypeOK, Requests
  <2>2. RatingsReached' /\ RatedIfReviewed'
    BY <1>2 DEF Check, RatingsReached, RatedIfReviewed, Reached
  <2>3. SeenReached'
    BY <1>2 DEF Check, SeenReached, Reached, TypeOK
  <2> QED
    BY <2>1, <2>2, <2>3
<1>3. ASSUME NEW w \in Workers, ReadRating(w)
      PROVE  Inv'
  <2>0. req[w] \in Requests /\ req[w].at = "insert"
    BY <1>3 DEF ReadRating, TypeOK
  <2>1. req[w].detail \in Details /\ req[w].technician \in Technicians /\ req[w].stars \in Stars
    BY <2>0, RequestKinds
  <2>2. TypeOK'
    BY <1>3, <2>1 DEF ReadRating, TypeOK, Requests
  <2>3. RatingsReached' /\ RatedIfReviewed'
    BY <1>3 DEF ReadRating, RatingsReached, RatedIfReviewed, Reached
  <2>4. SeenReached'
    BY <1>3, <2>1 DEF ReadRating, SeenReached, RatingsReached, Reached, TypeOK
  <2> QED
    BY <2>2, <2>3, <2>4
<1>4. ASSUME NEW w \in Workers, Commit(w)
      PROVE  Inv'
  <2> DEFINE r == req[w]
             t == req[w].technician
  <2>1. r \in Requests /\ r.at = "update"
    BY <1>4 DEF Commit, TypeOK
  <2>2. /\ r.detail \in Details /\ t \in Technicians /\ r.stars \in 1..5
        /\ r.seen.total \in Nat /\ r.seen.average \in Nat
    BY <2>1, RequestKinds, RatingColumns, ReviewsAssumption
  <2>3. PICK m \in NewAverages(r.seen, r.stars) :
          rating' = [rating EXCEPT ![t] = [total |-> r.seen.total + 1, average |-> m]]
    BY <1>4 DEF Commit, NewTotal
  <2>4. Reached(r.seen, t)
    BY <2>1 DEF SeenReached
  <2>5. m \in 100..500
    <3>1. m \in Nat /\ Near(m, r.seen.total * r.seen.average + 100 * r.stars, r.seen.total + 1)
      BY <2>3 DEF NewAverages
    <3> QED
      BY <3>1, <2>2, <2>4, MeanInRange DEF Reached
  <2>6. /\ given' = [given EXCEPT ![t] = [count |-> given[t].count + 1, stars |-> given[t].stars + r.stars]]
        /\ rows' = [rows EXCEPT ![r.detail] = rows[r.detail] + 1]
        /\ req' = [req EXCEPT ![w] = Idle]
        /\ overlapped' = overlapped
    BY <1>4 DEF Commit
  <2>7. TypeOK'
    <3>1. [total |-> r.seen.total + 1, average |-> m] \in Ratings
      BY <2>2, <2>5 DEF Ratings
    <3> QED
      BY <2>2, <2>3, <2>6, <3>1 DEF TypeOK, Requests
  <2>8. \A u \in Technicians : given'[u].count >= given[u].count
    BY <2>2, <2>6 DEF TypeOK
  <2>9. RatingsReached'
    BY <2>2, <2>3, <2>4, <2>5, <2>6 DEF RatingsReached, Reached, TypeOK
  <2>10. RatedIfReviewed'
    BY <2>2, <2>3, <2>6 DEF RatedIfReviewed, TypeOK
  <2>11. SeenReached'
    <3> SUFFICES ASSUME NEW v \in Workers, req'[v].at = "update"
                 PROVE  Reached(req[v].seen, req[v].technician)' 
      BY DEF SeenReached
    <3>1. v # w /\ req'[v] = req[v]
      BY <2>6 DEF TypeOK, Idle
    <3>2. Reached(req[v].seen, req[v].technician) /\ req[v].technician \in Technicians
          /\ req[v].seen.total \in Nat
      BY <3>1, RequestKinds, RatingColumns DEF SeenReached, TypeOK
    <3>3. given[req[v].technician].count \in Nat /\ given'[req[v].technician].count \in Nat
      BY <3>2, <2>7 DEF TypeOK
    <3> QED
      BY <3>1, <3>2, <3>3, <2>8 DEF Reached
  <2> QED
    BY <2>7, <2>9, <2>10, <2>11
<1>5. ASSUME NEW w \in Workers, Fail(w)
      PROVE  Inv'
  <2>1. TypeOK'
    BY <1>5 DEF Fail, TypeOK, Requests
  <2>2. RatingsReached' /\ RatedIfReviewed'
    BY <1>5 DEF Fail, RatingsReached, RatedIfReviewed, Reached
  <2>3. SeenReached'
    BY <1>5 DEF Fail, SeenReached, Reached, TypeOK, Idle
  <2> QED
    BY <2>1, <2>2, <2>3
<1> QED
  BY <1>1, <1>2, <1>3, <1>4, <1>5 DEF Next

LEMMA Invariance == Spec => []Inv
  BY InvInit, InvNext, PTL DEF Spec

(* Rows, ratings and requests keep their types.                             *)
THEOREM TypesKept == Spec => []TypeOK
<1>1. Inv => TypeOK
  BY DEF Inv
<1> QED
  BY <1>1, Invariance, PTL

(* The average stays between one and five stars under any overlap.          *)
THEOREM RatingStaysInRange == Spec => []RatingInRange
<1>1. Inv => RatingInRange
  BY DEF Inv, RatingsReached, Reached, RatingInRange
<1> QED
  BY <1>1, Invariance, PTL

(* The count shown never exceeds the reviews written, and is zero only      *)
(* without reviews.                                                         *)
THEOREM CountIsBounded == Spec => []CountNeverExceeds
<1>1. Inv => CountNeverExceeds
  BY DEF Inv, RatingsReached, RatedIfReviewed, Reached, CountNeverExceeds
<1> QED
  BY <1>1, Invariance, PTL

-----------------------------------------------------------------------------
(* Without overlap at most one request is under way; its detail is not      *)
(* reviewed yet and the rating it has seen is still the current one.        *)

Alone == \A v, w \in Workers : req[v] # Idle /\ req[w] # Idle => v = w
StillUnreviewed == \A w \in Workers : req[w] # Idle => rows[req[w].detail] = 0
SeenCurrent == \A w \in Workers : req[w].at = "update" => req[w].seen = rating[req[w].technician]
ReviewedOnce == \A d \in Details : rows[d] <= 1
Exact(t) == rating[t].total = given[t].count /\ DriftBounded(t)

SerialInv ==
  /\ TypeOK
  /\ ~overlapped => /\ Alone /\ StillUnreviewed /\ SeenCurrent /\ ReviewedOnce
                    /\ \A t \in Technicians : Exact(t)

LEMMA SerialInit == Init => SerialInv
<1> SUFFICES ASSUME Init
             PROVE  SerialInv
  OBVIOUS
<1>1. TypeOK
  BY InvInit DEF Inv
<1>2. Alone /\ StillUnreviewed /\ SeenCurrent /\ ReviewedOnce
  BY DEF Init, Alone, StillUnreviewed, SeenCurrent, ReviewedOnce, Idle
<1>3. ASSUME NEW t \in Technicians
      PROVE  Exact(t)
  BY DEF Init, Exact, DriftBounded
<1> QED
  BY <1>1, <1>2, <1>3 DEF SerialInv

LEMMA SerialNext == Inv /\ SerialInv /\ [Next]_vars => SerialInv'
<1> SUFFICES ASSUME Inv, SerialInv, [Next]_vars, ~overlapped'
             PROVE  /\ (Alone /\ StillUnreviewed /\ SeenCurrent /\ ReviewedOnce)'
                    /\ \A t \in Technicians : Exact(t)'
  BY InvNext DEF SerialInv, Inv
<1>0. /\ ~overlapped /\ TypeOK /\ Alone /\ StillUnreviewed /\ SeenCurrent /\ ReviewedOnce
      /\ \A t \in Technicians : Exact(t)
  <2>1. CASE UNCHANGED vars
    BY <2>1 DEF SerialInv, vars
  <2>2. ASSUME NEW w \in Workers, NEW d \in Details, NEW t \in Technicians, NEW stars \in Stars,
               Check(w, d, t, stars)
        PROVE  ~overlapped
    BY <2>2, Zenon DEF Check
  <2>3. ASSUME NEW w \in Workers, ReadRating(w) \/ Commit(w) \/ Fail(w)
        PROVE  ~overlapped
    BY <2>3, Zenon DEF ReadRating, Commit, Fail
  <2> QED
    BY <2>1, <2>2, <2>3, Zenon DEF SerialInv, Next
<1> USE <1>0
<1>1. CASE UNCHANGED vars
  BY <1>1 DEF vars, Alone, StillUnreviewed, SeenCurrent, ReviewedOnce, Exact, DriftBounded
<1>2. ASSUME NEW w \in Workers, NEW d \in Details, NEW t \in Technicians, NEW stars \in Stars,
             Check(w, d, t, stars)
      PROVE  /\ (Alone /\ StillUnreviewed /\ SeenCurrent /\ ReviewedOnce)'
             /\ \A u \in Technicians : Exact(u)'
  <2>1. \A v \in Workers \ {w} : req[v] = Idle /\ req'[v] = Idle
    BY <1>2 DEF Check, TypeOK
  <2>2. req'[w] = [at |-> "insert", detail |-> d, technician |-> t, stars |-> stars] /\ rows[d] = 0
    BY <1>2 DEF Check, TypeOK, Unreviewed
  <2>3. UNCHANGED <<rows, given, rating>>
    BY <1>2 DEF Check
  <2>4. Alone' /\ StillUnreviewed' /\ SeenCurrent'
    BY <2>1, <2>2, <2>3 DEF Alone, StillUnreviewed, SeenCurrent, Idle
  <2>5. ReviewedOnce' /\ \A u \in Technicians : Exact(u)'
    BY <2>3 DEF ReviewedOnce, Exact, DriftBounded
  <2> QED
    BY <2>4, <2>5
<1>3. ASSUME NEW w \in Workers, ReadRating(w)
      PROVE  /\ (Alone /\ StillUnreviewed /\ SeenCurrent /\ ReviewedOnce)'
             /\ \A u \in Technicians : Exact(u)'
  <2>1. req[w] # Idle
    BY <1>3 DEF ReadRating, Idle
  <2>2. /\ req'[w] = [at |-> "update", detail |-> req[w].detail, technician |-> req[w].technician,
                      stars |-> req[w].stars, seen |-> rating[req[w].technician]]
        /\ \A v \in Workers \ {w} : req'[v] = req[v]
        /\ UNCHANGED <<rows, given, rating>>
    BY <1>3 DEF ReadRating, TypeOK
  <2>3. Alone' /\ StillUnreviewed' /\ SeenCurrent'
    BY <2>1, <2>2 DEF Alone, StillUnreviewed, SeenCurrent
  <2>4. ReviewedOnce' /\ \A u \in Technicians : Exact(u)'
    BY <2>2 DEF ReviewedOnce, Exact, DriftBounded
  <2> QED
    BY <2>3, <2>4
<1>4. ASSUME NEW w \in Workers, Commit(w)
      PROVE  /\ (Alone /\ StillUnreviewed /\ SeenCurrent /\ ReviewedOnce)'
             /\ \A u \in Technicians : Exact(u)'
  <2> DEFINE r == req[w]
             t == req[w].technician
  <2>1. r \in Requests /\ r.at = "update" /\ r # Idle
    BY <1>4 DEF Commit, TypeOK, Idle
  <2>2. /\ r.detail \in Details /\ t \in Technicians /\ r.stars \in 1..5
        /\ r.seen = rating[t]
    BY <2>1, RequestKinds, ReviewsAssumption DEF SeenCurrent
  <2>3. PICK m \in NewAverages(rating[t], r.stars) :
          rating' = [rating EXCEPT ![t] = [total |-> rating[t].total + 1, average |-> m]]
    BY <1>4, <2>2 DEF Commit, NewTotal
  <2>4. /\ given' = [given EXCEPT ![t] = [count |-> given[t].count + 1, stars |-> given[t].stars + r.stars]]
        /\ rows' = [rows EXCEPT ![r.detail] = rows[r.detail] + 1]
        /\ req' = [req EXCEPT ![w] = Idle]
    BY <1>4 DEF Commit
  <2>5. \A v \in Workers : req'[v] = Idle
    BY <2>1, <2>4 DEF Alone, TypeOK
  <2>6. Alone' /\ StillUnreviewed' /\ SeenCurrent'
    BY <2>5 DEF Alone, StillUnreviewed, SeenCurrent, Idle
  <2>7. ReviewedOnce'
    <3>1. rows[r.detail] = 0
      BY <2>1 DEF StillUnreviewed
    <3> QED
      BY <2>2, <2>4, <3>1 DEF ReviewedOnce, TypeOK
  <2>8. ASSUME NEW u \in Technicians
        PROVE  Exact(u)'
    <3>1. CASE u # t
      <4>1. rating'[u] = rating[u] /\ given'[u] = given[u]
        BY <3>1, <2>3, <2>4 DEF TypeOK
      <4> QED
        BY <4>1 DEF Exact, DriftBounded
    <3>2. CASE u = t
      <4> DEFINE n == rating[t].total
                 a == rating[t].average
                 sum == given[t].stars
      <4>1. n \in Nat /\ a \in Nat /\ sum \in Nat /\ given[t].count = n
        BY <2>2, RatingColumns DEF Exact, TypeOK
      <4>2. 4 * (n * a - 100 * sum) \in (-n * (n + 1))..(n * (n + 1))
        BY <2>2 DEF Exact, DriftBounded
      <4>3. PICK k \in Nat : k = m /\ Near(k, n * a + 100 * r.stars, n + 1)
        BY <2>3 DEF NewAverages
      <4>4. 4 * ((n + 1) * k - 100 * (sum + r.stars)) \in (-(n + 1) * (n + 2))..((n + 1) * (n + 2))
        BY <4>1, <4>2, <4>3, <2>2, DriftStep
      <4>5. /\ rating'[t].total = n + 1 /\ rating'[t].average = k
            /\ given'[t].count = n + 1 /\ given'[t].stars = sum + r.stars
        BY <2>2, <2>3, <2>4, <4>1, <4>3 DEF TypeOK
      <4>6. n + 1 + 1 = n + 2
        BY <4>1
      <4> HIDE DEF n, a, sum
      <4> QED
        BY <3>2, <4>4, <4>5, <4>6 DEF Exact, DriftBounded
    <3> QED
      BY <3>1, <3>2
  <2> QED
    BY <2>6, <2>7, <2>8
<1>5. ASSUME NEW w \in Workers, Fail(w)
      PROVE  /\ (Alone /\ StillUnreviewed /\ SeenCurrent /\ ReviewedOnce)'
             /\ \A u \in Technicians : Exact(u)'
  <2>1. /\ req'[w] = Idle /\ \A v \in Workers \ {w} : req'[v] = req[v]
        /\ UNCHANGED <<rows, given, rating>>
    BY <1>5 DEF Fail, TypeOK
  <2>2. Alone' /\ StillUnreviewed' /\ SeenCurrent'
    BY <2>1 DEF Alone, StillUnreviewed, SeenCurrent, Idle
  <2>3. ReviewedOnce' /\ \A u \in Technicians : Exact(u)'
    BY <2>1 DEF ReviewedOnce, Exact, DriftBounded
  <2> QED
    BY <2>2, <2>3
<1> QED
  BY <1>1, <1>2, <1>3, <1>4, <1>5 DEF Next

(* Without overlap: one review per detail, every review counted, and the    *)
(* rounding drift of n reviews at most n(n+1)/4 hundredths.                 *)
THEOREM SerialReviewsAreExact == Spec => []ExactWithoutOverlap
<1>1. SerialInv => ExactWithoutOverlap
  BY DEF SerialInv, ReviewedOnce, Exact, ExactWithoutOverlap
<1> QED
  BY <1>1, SerialInit, SerialNext, Invariance, PTL DEF Spec
=============================================================================
