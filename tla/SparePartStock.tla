--------------------------- MODULE SparePartStock ---------------------------
(***************************************************************************)
(* addSpareParts over several spare parts: the stock of a list is checked   *)
(* on a read outside the transaction, then its rows are decremented one     *)
(* after the other in the order of the list.                                *)
(***************************************************************************)
EXTENDS ConnectionPool, Sequences, FiniteSetsExt

CONSTANTS
  Parts,        \* rows of SparePart
  PartId,       \* the id of each, an INTEGER
  InitialStock

MaxInteger == 2147483647

ASSUME StockAssumption ==
  /\ "appointment" \notin Parts /\ Rows = Parts \cup {"appointment"}
  /\ InitialStock \in [Parts -> Nat]
  /\ PartId \in [Parts -> 1..MaxInteger]
  /\ \A p, q \in Parts : PartId[p] = PartId[q] => p = q
  /\ \A i \in Instances : \A c \in i.calls :
       c.kind = "parts" => c.list \in Seq([part : Parts, quantity : Nat])

VARIABLES
  stock,     \* SparePart.quantityInStock, committed
  contended  \* parts that two requests under way at once had on their lists

stockVars == <<stock, contended>>

StockInit == stock = InitialStock /\ contended = {}

Named(c) == IF c.kind = "parts" THEN {c.list[i].part : i \in DOMAIN c.list} ELSE {}

(* What a list takes of a part. *)
Quantity(c, p) ==
  MapThenSumSet(LAMBDA i : c.list[i].quantity, {i \in DOMAIN c.list : c.list[i].part = p})

-----------------------------------------------------------------------------
(* Faulty variants: the items of the list all at once, the stock computed   *)
(* from what was read, the check one too low.                               *)

AnyOf(c, done) == DOMAIN c.list \ done
FromSnapshot(w, p) == job[w].seen[p] - Quantity(job[w].call, p)
OneTooMany(c, seen) == \A i \in DOMAIN c.list : seen[c.list[i].part] + 1 >= c.list[i].quantity

(* for (const item of dto.spareParts): the items that may come next.        *)
NextItems(c, done) == {i \in DOMAIN c.list : \A k \in DOMAIN c.list \ done : i <= k} \ done

(* decrement: computed by the database from the row. *)
StockAfter(w, p) == stock[p] - Quantity(job[w].call, p)

(* insufficientParts is empty: each item is compared on its own. *)
Suffices(c, seen) == \A i \in DOMAIN c.list : seen[c.list[i].part] >= c.list[i].quantity

-----------------------------------------------------------------------------
(* The transaction opens and reads the appointment. *)
OpenParts(w) ==
  /\ Runs(w, "parts")
  /\ LET c == job[w].call
     IN /\ Open(w, [at |-> "stock", call |-> c, open |-> TRUE])
        /\ contended' = contended \cup (Named(c) \cap
             UNION {Named(job[u].call) : u \in {v \in Workers \ {w} : Busy(v)}})
  /\ UNCHANGED stock

ReadStock(w) ==
  /\ Runs(w, "parts")
  /\ LET c == job[w].call
     IN IF Suffices(c, stock)
          THEN ReadsOutside(w, "stock", [at |-> "part", call |-> c, open |-> job[w].open,
                                         seen |-> stock, done |-> {}, items |-> NextItems(c, {})])
          ELSE job[w].at = "stock" /\ FreeConnection /\ Throw(w)
  /\ UNCHANGED stockVars

(* usedSparePart.create and sparePart.update of one item. *)
TakePart(w) ==
  /\ Runs(w, "parts") /\ job[w].at = "part"
  /\ LET c == job[w].call
     IN \E i \in job[w].items :
          LET done == job[w].done \cup {i}
          IN Writes(w, "part", c.list[i].part,
                    [job[w] EXCEPT !.done = done, !.items = NextItems(c, done),
                                   !.at = IF done = DOMAIN c.list THEN "commit" ELSE "part"])
  /\ UNCHANGED stockVars

(* The prices of detail and order, then the commit.  Their two rows are     *)
(* left out: whoever writes both writes the detail first, and nothing but   *)
(* the commit comes after, so they close no circle of waiting transactions. *)
CommitParts(w) ==
  /\ Runs(w, "parts")
  /\ \/ /\ Commit(w)
        /\ stock' = [p \in Parts |-> IF p \in Named(job[w].call) THEN StockAfter(w, p) ELSE stock[p]]
     \/ ThrowsAt(w, "commit") /\ UNCHANGED stock
  /\ UNCHANGED contended

StockStep(w) == OpenParts(w) \/ ReadStock(w) \/ TakePart(w) \/ CommitParts(w)

-----------------------------------------------------------------------------
(* Properties. *)

(* Stock and the parts used balance part by part: a list whose transaction  *)
(* committed has taken exactly its quantities, one that threw, expired or   *)
(* was aborted in the middle has taken nothing.                             *)
StockLedger ==
  \A p \in Parts :
    stock[p] + MapThenSumSet(LAMBDA c : Quantity(c, p), {c \in committed : p \in Named(c)})
      = InitialStock[p]

(* More is taken of a part than there was only if two requests that name it *)
(* were under way at once, or one list names it twice                       *)
(* (appointments.service.ts:648 compares each item alone, with a read that  *)
(* nothing holds on to).                                                    *)
ShortOnlyByOverlap ==
  \A p \in Parts : stock[p] < 0 =>
    \/ p \in contended
    \/ \E c \in committed : Cardinality({i \in DOMAIN c.list : c.list[i].part = p}) > 1

(* The parts of a list in a fixed order of the ids. *)
Ascending(c) == \A i, k \in DOMAIN c.list : i < k => PartId[c.list[i].part] <= PartId[c.list[k].part]

(* Transactions lock each other out only if one of them takes its parts in  *)
(* another order than the ids': clients that sort their lists never meet a  *)
(* deadlock (appointments.service.ts:676).                                  *)
OrderedListsNeverDeadlock ==
  \A S \in SUBSET Workers : Deadlocked(S) => \E w \in S : ~Ascending(job[w].call)
=============================================================================
