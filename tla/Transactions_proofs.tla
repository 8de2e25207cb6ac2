------------------------- MODULE Transactions_proofs -------------------------
(***************************************************************************)
(* Stock, deadlocks, connections and pushes for every pool, every number of *)
(* slots and every set of calls.  In this order: sums; what a single step   *)
(* may do to a slot (Shape), and the slots, connections and locks that      *)
(* result; stock; sorted lists, which cannot deadlock: in a set of          *)
(* transactions that wait for each other, the one that waits for the part   *)
(* with the greatest id waits for one that has locked this part and waits   *)
(* for a later one; what stands still; the queue of pushes and what the     *)
(* sockets receive of it.                                                   *)
(***************************************************************************)
EXTENDS Transactions, FiniteSetTheorems, WellFoundedInduction, TLAPS

Calls == UNION {i.calls : i \in Instances}
Pushes == [to : {TechnicianUser, TechnicianId}, status : {c.new : c \in Calls}]

(* How far a request is with its items: those before items are done.        *)
InOrder(j) ==
  /\ {"done", "items"} \subseteq DOMAIN j
  /\ j.done \subseteq DOMAIN j.call.list
  /\ j.items = NextItems(j.call, j.done)
  /\ \A d \in j.done, k \in DOMAIN j.call.list \ j.done : d < k

JobOK(j) ==
  /\ {"at", "open"} \subseteq DOMAIN j
  /\ j.at # "idle" => "call" \in DOMAIN j /\ j.call \in Calls
  /\ j.at = "part" => j.call.kind = "parts" /\ InOrder(j)
  /\ j.at \in {"stock", "part"} => j.call.kind = "parts"
  /\ j.at \in {"check", "update"} => j.call.kind = "status"
  /\ j.at = "update" => \E s \in recorded : <<s, j.call.new>> \in StatusSteps
  /\ j.at = "outside" => j.call.kind = "customerUpdate" /\ "left" \in DOMAIN j

(* What has a row locked is about to commit, or to take the next item of a  *)
(* list from which it has taken the row.                                    *)
LockOK(r) == \A w \in Workers : locked[r] = w =>
  /\ job[w].at \in {"part", "commit"}
  /\ job[w].at = "part" => \E d \in job[w].done : job[w].call.list[d].part = r

Inv ==
  /\ todo \subseteq Calls
  /\ DOMAIN job = Workers /\ job = [w \in Workers |-> job[w]]
  /\ locked \in [Rows -> Workers \cup {None}]
  /\ \A w \in Workers : JobOK(job[w])
  /\ \A r \in Rows : LockOK(r)
  /\ status \in recorded
  /\ pushed \in Seq(Pushes)
  /\ PushedIsEarned

-----------------------------------------------------------------------------
(* A set of numbers with a bound has a greatest one.                        *)
LEMMA Greatest ==
  ASSUME NEW b \in Nat, NEW T \in SUBSET (0..b), T # {}
  PROVE  \E m \in T : \A n \in T : n <= m
<1> DEFINE R == {p \in Nat \X Nat : p[1] < p[2]}
           B == {n \in Nat : \A t \in T : t <= n}
<1>1. IsWellFoundedOn(R, Nat)
  BY NatLessThanWellFounded DEF OpToRel
<1>2. B \subseteq Nat /\ b \in B
  OBVIOUS
<1>3. PICK m \in B : \A n \in B : <<n, m>> \notin R
  <2> HIDE DEF R, B
  <2> QED BY <1>1, <1>2, WFMin
<1>4. \A n \in B : ~(n < m)
  BY <1>3
<1>5. m \in T
  <2> SUFFICES ASSUME m \notin T PROVE FALSE
    OBVIOUS
  <2>1. \A t \in T : t <= m /\ t # m /\ t \in Nat /\ m \in Nat
    BY <1>3
  <2>2. PICK t \in T : TRUE
    OBVIOUS
  <2>3. m # 0 /\ m \in Nat
    BY <2>1, <2>2
  <2>4. m - 1 \in B
    BY <2>1, <2>3
  <2> QED BY <1>4, <2>3, <2>4
<1> QED BY <1>3, <1>5

LEMMA MaxIsNat == MaxInteger \in Nat
BY SMT DEF MaxInteger

LEMMA Elements ==
  ASSUME NEW A, NEW s \in Seq(A)
  PROVE  (\E n \in Nat : DOMAIN s = 1..n) /\ \A i \in DOMAIN s : s[i] \in A
OBVIOUS

(* What a list is, without its quantities.                                 *)
LEMMA Lists ==
  ASSUME NEW c \in Calls, c.kind = "parts"
  PROVE  /\ \E n \in Nat : DOMAIN c.list = 1..n
         /\ \A i \in DOMAIN c.list : c.list[i].part \in Parts /\ PartId[c.list[i].part] \in 0..MaxInteger
<1>1. c.list \in Seq([part : Parts, quantity : Nat])
  BY StockAssumption DEF Calls
<1>2. \E n \in Nat : DOMAIN c.list = 1..n
  BY <1>1, Elements
<1>3. \A i \in DOMAIN c.list : c.list[i] \in [part : Parts, quantity : Nat]
  BY <1>1, Elements, Zenon
<1>4. \A p \in Parts : PartId[p] \in 0..MaxInteger
  BY StockAssumption, MaxIsNat
<1> QED BY <1>2, <1>3, <1>4

-----------------------------------------------------------------------------
(* Sums.  MapThenSumSet is recursive over the subsets of a set; the lemmas  *)
(* below establish that the recursion has a solution and that the order of  *)
(* the elements does not matter.                                            *)

(* The sum of the values of f at the elements of S. *)
SumOf(f, S) == MapThenSumSet(LAMBDA x : f[x], S)

(* The element a sum begins with. *)
Pick(S) == CHOOSE x \in S : TRUE

(* g is the table of the sums over the subsets of S that the recursion in   *)
(* the definition of MapThenSumSet describes.                               *)
Tabulates(g, f, S) ==
  g = [s \in SUBSET S |-> IF s = {} THEN 0 ELSE f[Pick(s)] + g[s \ {Pick(s)}]]

(* The definition of MapThenSumSet, in these words. *)
LEMMA SumTable ==
  ASSUME NEW f, NEW S
  PROVE  SumOf(f, S) = (CHOOSE g : Tabulates(g, f, S))[S]
BY DEF SumOf, MapThenSumSet, MapThenFoldSet, Tabulates, Pick

(* Induction over the subsets of a finite set: H is the set of those the    *)
(* claim holds of; a smallest one outside it would be a contradiction.      *)
LEMMA SetInduction ==
  ASSUME NEW S, IsFiniteSet(S), NEW H,
         \A s \in SUBSET S : (\A x \in s : s \ {x} \in H) => s \in H
  PROVE  \A s \in SUBSET S : s \in H
<1> SUFFICES ASSUME \E s \in SUBSET S : s \notin H
             PROVE  FALSE
  OBVIOUS
<1> DEFINE Sizes == {n \in Nat : \E s \in SUBSET S : s \notin H /\ Cardinality(s) = n}
<1>1. \A s \in SUBSET S : IsFiniteSet(s) /\ Cardinality(s) \in Nat
  BY FS_Subset, FS_CardinalityType
<1>2. Sizes # {}
  BY <1>1
<1>3. \E n \in Sizes : \A m \in Sizes : ~(<<m, n>> \in OpToRel(<, Nat))
  <2> HIDE DEF Sizes
  <2>1. Sizes \subseteq Nat
    BY DEF Sizes
  <2> QED BY <1>2, <2>1, NatLessThanWellFounded, WFMin
<1>4. PICK n \in Sizes : \A m \in Sizes : ~(m < n)
  BY <1>3 DEF OpToRel
<1>5. PICK s \in SUBSET S : s \notin H /\ Cardinality(s) = n
  BY <1>4
<1>6. ASSUME NEW x \in s PROVE s \ {x} \in H
  <2>1. s \ {x} \in SUBSET S
    OBVIOUS
  <2>2. Cardinality(s \ {x}) = Cardinality(s) - 1 /\ Cardinality(s \ {x}) \in Nat
    BY <1>1, <2>1, FS_RemoveElement
  <2>3. Cardinality(s \ {x}) < n
    BY <1>5, <2>2
  <2> QED BY <1>4, <2>1, <2>2, <2>3
<1> QED BY <1>5, <1>6

(* A table of a set is one of its subsets. *)
LEMMA TableOfSubset ==
  ASSUME NEW f, NEW S, NEW s \in SUBSET S, NEW g, Tabulates(g, f, S)
  PROVE  Tabulates([t \in SUBSET s |-> g[t]], f, s)
<1>1. ASSUME NEW t \in SUBSET s
      PROVE  g[t] = IF t = {} THEN 0 ELSE f[Pick(t)] + g[t \ {Pick(t)}]
  BY DEF Tabulates
<1> DEFINE h == [t \in SUBSET s |-> g[t]]
<1>2. ASSUME NEW t \in SUBSET s
      PROVE  h[t] = IF t = {} THEN 0 ELSE f[Pick(t)] + h[t \ {Pick(t)}]
  <2>1. t \ {Pick(t)} \in SUBSET s
    OBVIOUS
  <2> QED BY <1>1, <2>1
<1>3. h = [t \in SUBSET s |-> IF t = {} THEN 0 ELSE f[Pick(t)] + h[t \ {Pick(t)}]]
  <2> DEFINE k == [t \in SUBSET s |-> IF t = {} THEN 0 ELSE f[Pick(t)] + h[t \ {Pick(t)}]]
  <2>1. \A t \in SUBSET s : h[t] = k[t]
    BY <1>2
  <2> QED BY <2>1
<1> QED BY <1>3 DEF Tabulates

(* There is no second table. *)
LEMMA TablesAgree ==
  ASSUME NEW f, NEW S, IsFiniteSet(S), NEW g, NEW h, Tabulates(g, f, S), Tabulates(h, f, S)
  PROVE  g = h
<1> DEFINE H == {s \in SUBSET S : g[s] = h[s]}
<1>1. ASSUME NEW s \in SUBSET S, \A x \in s : s \ {x} \in H
      PROVE  s \in H
  <2>1. CASE s = {}
    BY <2>1 DEF Tabulates
  <2>2. CASE s # {}
    <3>1. Pick(s) \in s
      BY <2>2 DEF Pick
    <3>2. g[s \ {Pick(s)}] = h[s \ {Pick(s)}]
      BY <1>1, <3>1
    <3>3. g[s] = f[Pick(s)] + g[s \ {Pick(s)}] /\ h[s] = f[Pick(s)] + h[s \ {Pick(s)}]
      BY <2>2 DEF Tabulates
    <3> QED BY <3>2, <3>3
  <2> QED BY <2>1, <2>2
<1>2. \A s \in SUBSET S : s \in H
  <2> HIDE DEF H
  <2> QED BY <1>1, SetInduction
<1> QED BY <1>2 DEF Tabulates
(* SumOf of the subsets of a finite set is such a table. *)
LEMMA SumTabulates ==
  ASSUME NEW f, NEW S, IsFiniteSet(S)
  PROVE  Tabulates([s \in SUBSET S |-> SumOf(f, s)], f, S)
<1> DEFINE H == {s \in SUBSET S : \E g : Tabulates(g, f, s)}
           Value(s) == IF s = {} THEN 0 ELSE f[Pick(s)] + SumOf(f, s \ {Pick(s)})
<1>1. ASSUME NEW s, IsFiniteSet(s), NEW g, Tabulates(g, f, s)
      PROVE  \A t \in SUBSET s : SumOf(f, t) = g[t]
  <2> SUFFICES ASSUME NEW t \in SUBSET s PROVE SumOf(f, t) = g[t]
    OBVIOUS
  <2>1. IsFiniteSet(t)
    BY <1>1, FS_Subset
  <2> DEFINE h == [u \in SUBSET t |-> g[u]]
             k == CHOOSE k : Tabulates(k, f, t)
  <2>2. Tabulates(h, f, t)
    BY <1>1, TableOfSubset
  <2>3. Tabulates(k, f, t)
    BY <2>2
  <2>4. h = k
    <3> HIDE DEF h, k
    <3> QED BY <2>1, <2>2, <2>3, TablesAgree
  <2>5. h[t] = g[t]
    OBVIOUS
  <2>6. SumOf(f, t) = k[t]
    BY SumTable
  <2> QED BY <2>4, <2>5, <2>6
<1>2. ASSUME NEW s \in SUBSET S, s \in H
      PROVE  SumOf(f, s) = Value(s)
  <2>1. PICK g : Tabulates(g, f, s)
    BY <1>2
  <2>2. IsFiniteSet(s)
    BY FS_Subset
  <2>3. \A t \in SUBSET s : SumOf(f, t) = g[t]
    BY <1>1, <2>1, <2>2
  <2>4. g[s] = IF s = {} THEN 0 ELSE f[Pick(s)] + g[s \ {Pick(s)}]
    BY <2>1 DEF Tabulates
  <2>5. s \in SUBSET s /\ s \ {Pick(s)} \in SUBSET s
    OBVIOUS
  <2> QED BY <2>3, <2>4, <2>5
<1>3. ASSUME NEW s \in SUBSET S, \A x \in s : s \ {x} \in H
      PROVE  s \in H
  <2> DEFINE g == [t \in SUBSET s |-> Value(t)]
  <2>1. ASSUME NEW t \in SUBSET s, t # s
        PROVE  t \in H
    <3>1. PICK x \in s : x \notin t
      BY <2>1
    <3>2. PICK h : Tabulates(h, f, s \ {x})
      BY <1>3, <3>1
    <3>3. t \in SUBSET (s \ {x})
      BY <3>1
    <3>4. Tabulates([u \in SUBSET t |-> h[u]], f, t)
      <4> DEFINE r == s \ {x}
      <4>1. t \in SUBSET r /\ Tabulates(h, f, r)
        BY <3>2, <3>3
      <4> HIDE DEF r
      <4> QED BY <4>1, TableOfSubset
    <3> QED BY <3>4
  <2>2. ASSUME NEW t \in SUBSET s, t # {}
        PROVE  g[t \ {Pick(t)}] = SumOf(f, t \ {Pick(t)})
    <3>1. t \ {Pick(t)} \in SUBSET s /\ t \ {Pick(t)} # s /\ t \ {Pick(t)} \in SUBSET S
      BY <2>2 DEF Pick
    <3>2. t \ {Pick(t)} \in H
      BY <2>1, <3>1
    <3> HIDE DEF Value
    <3>3. SumOf(f, t \ {Pick(t)}) = Value(t \ {Pick(t)})
      BY <1>2, <3>1, <3>2
    <3> QED BY <3>1, <3>3
  <2>3. \A t \in SUBSET s : g[t] = IF t = {} THEN 0 ELSE f[Pick(t)] + g[t \ {Pick(t)}]
    BY <2>2
  <2>4. Tabulates(g, f, s)
    <3> DEFINE h == [t \in SUBSET s |-> IF t = {} THEN 0 ELSE f[Pick(t)] + g[t \ {Pick(t)}]]
    <3>1. \A t \in SUBSET s : g[t] = h[t]
      BY <2>3
    <3>2. g = h
      <4> HIDE DEF Value
      <4> QED BY <3>1
    <3> QED BY <3>2 DEF Tabulates
  <2> QED BY <2>4
<1>4. \A s \in SUBSET S : s \in H
  <2> HIDE DEF H
  <2> QED BY <1>3, SetInduction
<1>5. PICK g : Tabulates(g, f, S)
  BY <1>4
<1>6. \A s \in SUBSET S : SumOf(f, s) = g[s]
  BY <1>1, <1>5
<1>7. g = [s \in SUBSET S |-> SumOf(f, s)]
  <2>1. g = [s \in SUBSET S |-> g[s]]
    BY <1>5 DEF Tabulates
  <2> QED BY <1>6, <2>1
<1> QED BY <1>5, <1>7

(* A sum is added up in some order. *)
LEMMA SumPick ==
  ASSUME NEW f, NEW S, IsFiniteSet(S)
  PROVE  SumOf(f, S) = IF S = {} THEN 0 ELSE f[Pick(S)] + SumOf(f, S \ {Pick(S)})
<1> DEFINE g == [s \in SUBSET S |-> SumOf(f, s)]
<1>1. Tabulates(g, f, S)
  BY SumTabulates
<1>2. S \in SUBSET S /\ S \ {Pick(S)} \in SUBSET S
  OBVIOUS
<1>3. g[S] = SumOf(f, S) /\ g[S \ {Pick(S)}] = SumOf(f, S \ {Pick(S)})
  BY <1>2
<1>4. g[S] = IF S = {} THEN 0 ELSE f[Pick(S)] + g[S \ {Pick(S)}]
  <2> HIDE DEF g
  <2> QED BY <1>1, <1>2 DEF Tabulates
<1> QED BY <1>3, <1>4

(* The sum of nothing. *)
LEMMA SumEmpty == \A f : SumOf(f, {}) = 0
BY SumPick, FS_EmptySet

(* Sums of integers are integers, and sums of natural numbers natural. *)
LEMMA SumType ==
  ASSUME NEW S, IsFiniteSet(S), NEW f, NEW T \in {Nat, Int}, \A x \in S : f[x] \in T
  PROVE  \A s \in SUBSET S : SumOf(f, s) \in T
<1> DEFINE H == {s \in SUBSET S : SumOf(f, s) \in T}
<1>1. ASSUME NEW s \in SUBSET S, \A x \in s : s \ {x} \in H
      PROVE  s \in H
  <2>1. IsFiniteSet(s)
    BY FS_Subset
  <2>2. CASE s = {}
    BY <2>2, SumEmpty
  <2>3. CASE s # {}
    <3>1. Pick(s) \in s
      BY <2>3 DEF Pick
    <3>2. SumOf(f, s \ {Pick(s)}) \in T /\ f[Pick(s)] \in T
      BY <1>1, <3>1
    <3>3. SumOf(f, s) = f[Pick(s)] + SumOf(f, s \ {Pick(s)})
      BY <2>1, <2>3, SumPick
    <3> QED BY <3>2, <3>3
  <2> QED BY <2>2, <2>3
<1>2. \A s \in SUBSET S : s \in H
  <2> HIDE DEF H
  <2> QED BY <1>1, SetInduction
<1> QED BY <1>2

(* The order does not matter: any element may come first. *)
LEMMA SumRemove ==
  ASSUME NEW S, IsFiniteSet(S), NEW f, \A x \in S : f[x] \in Int
  PROVE  \A x \in S : SumOf(f, S) = f[x] + SumOf(f, S \ {x})
<1> DEFINE H == {s \in SUBSET S : \A x \in s : SumOf(f, s) = f[x] + SumOf(f, s \ {x})}
<1>0. \A s \in SUBSET S : SumOf(f, s) \in Int /\ IsFiniteSet(s)
  BY SumType, FS_Subset
<1>1. ASSUME NEW s \in SUBSET S, \A x \in s : s \ {x} \in H
      PROVE  s \in H
  <2> SUFFICES ASSUME NEW x \in s PROVE SumOf(f, s) = f[x] + SumOf(f, s \ {x})
    OBVIOUS
  <2> DEFINE y == Pick(s)
  <2>1. y \in s
    BY DEF Pick
  <2>2. SumOf(f, s) = f[y] + SumOf(f, s \ {y})
    BY <1>0, SumPick
  <2>3. CASE x = y
    BY <2>2, <2>3
  <2>4. CASE x # y
    <3> HIDE DEF y
    <3>1. SumOf(f, s \ {y}) = f[x] + SumOf(f, (s \ {y}) \ {x})
      BY <1>1, <2>1, <2>4
    <3>2. SumOf(f, s \ {x}) = f[y] + SumOf(f, (s \ {x}) \ {y})
      BY <1>1, <2>1, <2>4
    <3> DEFINE rest == SumOf(f, s \ {x, y})
    <3>3. (s \ {x}) \ {y} = s \ {x, y} /\ (s \ {y}) \ {x} = s \ {x, y}
      OBVIOUS
    <3>4. SumOf(f, s \ {y}) = f[x] + rest /\ SumOf(f, s \ {x}) = f[y] + rest
      BY <3>1, <3>2, <3>3
    <3>5. f[x] \in Int /\ f[y] \in Int /\ rest \in Int
      BY <1>0, <2>1
    <3> HIDE DEF rest
    <3> QED BY <2>2, <3>4, <3>5
  <2> QED BY <2>3, <2>4
<1>2. \A s \in SUBSET S : s \in H
  <2> HIDE DEF H
  <2> QED BY <1>1, SetInduction
<1> QED BY <1>2

(* What a list takes of a part is such a sum, and a natural number; if the  *)
(* list names the part once, it is the quantity there.                      *)
LEMMA QuantityIsSum ==
  ASSUME NEW c \in Calls, c.kind = "parts", NEW p
  PROVE  /\ Quantity(c, p) \in Nat
         /\ \A i : {k \in DOMAIN c.list : c.list[k].part = p} = {i} => Quantity(c, p) = c.list[i].quantity
<1> DEFINE f == [i \in DOMAIN c.list |-> c.list[i].quantity]
           T == {i \in DOMAIN c.list : c.list[i].part = p}
           Equation(g) ==
             g = [s \in SUBSET T |-> IF s = {} THEN 0 ELSE c.list[Pick(s)].quantity + g[s \ {Pick(s)}]]
<1>1. IsFiniteSet(DOMAIN c.list)
  BY Lists, FS_Interval
<1>2. IsFiniteSet(T)
  BY <1>1, FS_Subset
<1>3. Quantity(c, p) = (CHOOSE g : Equation(g))[T]
  BY DEF Quantity, MapThenSumSet, MapThenFoldSet, Pick
<1>4. ASSUME NEW g PROVE Equation(g) <=> Tabulates(g, f, T)
  <2> DEFINE h == [s \in SUBSET T |-> IF s = {} THEN 0 ELSE c.list[Pick(s)].quantity + g[s \ {Pick(s)}]]
             k == [s \in SUBSET T |-> IF s = {} THEN 0 ELSE f[Pick(s)] + g[s \ {Pick(s)}]]
  <2>1. ASSUME NEW s \in SUBSET T PROVE h[s] = k[s]
    <3>1. CASE s = {}
      BY <3>1
    <3>2. CASE s # {}
      <4>1. Pick(s) \in DOMAIN c.list
        BY <3>2 DEF Pick
      <4>2. f[Pick(s)] = c.list[Pick(s)].quantity
        BY <4>1
      <4> HIDE DEF f
      <4> QED BY <3>2, <4>2
    <3> QED BY <3>1, <3>2
  <2>2. h = k
    <3> HIDE DEF f
    <3> QED BY <2>1
  <2> QED BY <2>2 DEF Tabulates
<1>5. PICK h : Tabulates(h, f, T) /\ h[T] = SumOf(f, T)
  <2> DEFINE h == [s \in SUBSET T |-> SumOf(f, s)]
  <2> HIDE DEF f, T
  <2>1. Tabulates(h, f, T)
    BY <1>2, SumTabulates
  <2>2. h[T] = SumOf(f, T)
    OBVIOUS
  <2> QED BY <2>1, <2>2
<1> HIDE DEF f, T, Equation
<1>6. Equation(CHOOSE g : Equation(g))
  BY <1>4, <1>5
<1>7. (CHOOSE g : Equation(g)) = h
  BY <1>2, <1>4, <1>5, <1>6, TablesAgree
<1>8. Quantity(c, p) = SumOf(f, T)
  BY <1>3, <1>5, <1>7
<1>9. \A i \in DOMAIN c.list : f[i] = c.list[i].quantity /\ c.list[i].quantity \in Nat
  <2>1. c.list \in Seq([part : Parts, quantity : Nat])
    BY StockAssumption DEF Calls
  <2>2. \A i \in DOMAIN c.list : c.list[i] \in [part : Parts, quantity : Nat]
    BY <2>1, Elements, Zenon
  <2> QED BY <2>2 DEF f
<1>10. T \subseteq DOMAIN c.list
  BY DEF T
<1>11. SumOf(f, T) \in Nat
  <2>1. \A x \in T : f[x] \in Nat
    BY <1>9, <1>10
  <2> QED BY <1>2, <2>1, SumType
<1>12. ASSUME NEW i, T = {i} PROVE Quantity(c, p) = c.list[i].quantity
  <2>1. i \in T /\ f[i] \in Nat /\ f[i] = c.list[i].quantity /\ T \ {i} = {}
    BY <1>9, <1>10, <1>12
  <2>2. SumOf(f, T) = f[i] + SumOf(f, T \ {i})
    <3>1. \A x \in T : f[x] \in Int
      BY <1>9, <1>10
    <3> QED BY <1>2, <2>1, <3>1, SumRemove
  <2>3. SumOf(f, T) = f[i] + 0
    BY <2>1, <2>2, SumEmpty
  <2> QED BY <1>8, <2>1, <2>3
<1> QED BY <1>8, <1>11, <1>12 DEF T

(* What committed lists have taken of a part. *)
TakenOf(p, C) == MapThenSumSet(LAMBDA c : Quantity(c, p), {c \in C : p \in Named(c)})

LEMMA TakenIsSum ==
  ASSUME NEW p, NEW C \in SUBSET Calls, IsFiniteSet(C)
  PROVE  TakenOf(p, C) = SumOf([c \in Calls |-> Quantity(c, p)], {c \in C : p \in Named(c)})
<1> DEFINE f == [c \in Calls |-> Quantity(c, p)]
           T == {c \in C : p \in Named(c)}
           Equation(g) ==
             g = [s \in SUBSET T |-> IF s = {} THEN 0 ELSE Quantity(Pick(s), p) + g[s \ {Pick(s)}]]
<1>2. IsFiniteSet(T)
  BY FS_Subset
<1>3. TakenOf(p, C) = (CHOOSE g : Equation(g))[T]
  BY DEF TakenOf, MapThenSumSet, MapThenFoldSet, Pick
<1>4. ASSUME NEW g PROVE Equation(g) <=> Tabulates(g, f, T)
  <2> DEFINE h == [s \in SUBSET T |-> IF s = {} THEN 0 ELSE Quantity(Pick(s), p) + g[s \ {Pick(s)}]]
             k == [s \in SUBSET T |-> IF s = {} THEN 0 ELSE f[Pick(s)] + g[s \ {Pick(s)}]]
  <2>1. ASSUME NEW s \in SUBSET T PROVE h[s] = k[s]
    <3>1. CASE s = {}
      BY <3>1
    <3>2. CASE s # {}
      <4>1. Pick(s) \in Calls
        BY <3>2 DEF Pick
      <4>2. f[Pick(s)] = Quantity(Pick(s), p)
        BY <4>1
      <4> HIDE DEF f
      <4> QED BY <3>2, <4>2
    <3> QED BY <3>1, <3>2
  <2>2. h = k
    <3> HIDE DEF f
    <3> QED BY <2>1
  <2> QED BY <2>2 DEF Tabulates
<1>5. PICK h : Tabulates(h, f, T) /\ h[T] = SumOf(f, T)
  <2> DEFINE h == [s \in SUBSET T |-> SumOf(f, s)]
  <2> HIDE DEF f, T
  <2>1. Tabulates(h, f, T)
    BY <1>2, SumTabulates
  <2>2. h[T] = SumOf(f, T)
    OBVIOUS
  <2> QED BY <2>1, <2>2
<1> HIDE DEF f, T, Equation
<1>6. Equation(CHOOSE g : Equation(g))
  BY <1>4, <1>5
<1>7. (CHOOSE g : Equation(g)) = h
  BY <1>2, <1>4, <1>5, <1>6, TablesAgree
<1> QED BY <1>3, <1>5, <1>7 DEF f, T

(* One more list is committed. *)
LEMMA TakenGrows ==
  ASSUME NEW p, NEW C \in SUBSET Calls, IsFiniteSet(C), NEW c \in Calls, c \notin C
  PROVE  /\ TakenOf(p, C) \in Nat
         /\ TakenOf(p, C \cup {c}) = TakenOf(p, C) + (IF p \in Named(c) THEN Quantity(c, p) ELSE 0)
<1> DEFINE f == [d \in Calls |-> Quantity(d, p)]
           T(D) == {d \in D : p \in Named(d)}
           E == C \cup {c}
<1>1. E \in SUBSET Calls /\ IsFiniteSet(E)
  BY FS_AddElement
<1>2. TakenOf(p, C) = SumOf(f, T(C)) /\ TakenOf(p, E) = SumOf(f, T(E))
  <2> HIDE DEF E
  <2> QED BY <1>1, TakenIsSum
<1>3. \A d \in T(E) : f[d] = Quantity(d, p) /\ f[d] \in Nat
  BY QuantityIsSum DEF Named
<1>4. IsFiniteSet(T(C)) /\ IsFiniteSet(T(E))
  <2>1. T(C) \in SUBSET C /\ T(E) \in SUBSET E
    OBVIOUS
  <2> HIDE DEF E, T
  <2> QED BY <1>1, <2>1, FS_Subset
<1>5. T(C) \subseteq T(E)
  OBVIOUS
<1>6. CASE p \notin Named(c)
  <2>1. T(E) = T(C)
    BY <1>6
  <2> HIDE DEF f, T, E
  <2>2. SumOf(f, T(C)) \in Nat
    BY <1>3, <1>4, <2>1, SumType
  <2> QED BY <1>2, <1>6, <2>1, <2>2 DEF E
<1>7. CASE p \in Named(c)
  <2>1. c \in T(E) /\ T(E) \ {c} = T(C)
    BY <1>7
  <2>2. f[c] = Quantity(c, p) /\ f[c] \in Nat
    BY <1>3, <2>1
  <2> HIDE DEF f, T, E
  <2>3. SumOf(f, T(C)) \in Nat
    BY <1>3, <1>4, <1>5, SumType
  <2>4. \A d \in T(E) : f[d] \in Int
    BY <1>3
  <2>5. SumOf(f, T(E)) = f[c] + SumOf(f, T(C))
    BY <1>4, <2>1, <2>4, SumRemove
  <2> QED BY <1>2, <1>7, <2>2, <2>3, <2>5 DEF E
<1> QED BY <1>6, <1>7

-----------------------------------------------------------------------------
(* Transactions whose lists are sorted never wait for each other in a       *)
(* cycle.                                                                   *)
LEMMA SortedListsGoOn ==
  ASSUME Inv, NEW S \in SUBSET Workers, Deadlocked(S)
  PROVE  \E w \in S : ~Ascending(job[w].call)
<1> SUFFICES ASSUME \A w \in S : Ascending(job[w].call) PROVE FALSE
  OBVIOUS
<1>1. ASSUME NEW w \in S
      PROVE  \E u \in S \ {w}, i \in job[w].items :
               /\ job[w].at = "part" /\ job[u].at = "part"
               /\ i \in DOMAIN job[w].call.list
               /\ locked[job[w].call.list[i].part] = u
               /\ \E d \in job[u].done : job[u].call.list[d].part = job[w].call.list[i].part
  <2>1. PICK u \in S : WaitsFor(w, u)
    BY DEF Deadlocked
  <2>2. PICK r \in Wanted(w) : locked[r] = u /\ u # w
    BY <2>1 DEF WaitsFor
  <2>3. Wanted(u) # {}
    BY DEF Deadlocked, WaitsFor
  <2>4. job[w].at = "part" \/ r = "appointment"
    BY <2>2 DEF Wanted
  <2>5. CASE r = "appointment"
    <3>1. r \in Rows /\ r \notin Parts
      BY <2>5, StockAssumption
    <3>2. job[u].at = "part"
      BY <2>2, <2>3, <3>1 DEF Inv, LockOK, Wanted
    <3>3. PICK d \in job[u].done : job[u].call.list[d].part = r
      BY <2>2, <3>1, <3>2 DEF Inv, LockOK
    <3>4. job[u].call \in Calls /\ job[u].call.kind = "parts" /\ d \in DOMAIN job[u].call.list
      BY <3>2, <3>3 DEF Inv, JobOK, InOrder
    <3>5. job[u].call.list[d].part \in Parts
      BY <3>4, Lists
    <3> QED BY <3>1, <3>3, <3>5
  <2>6. CASE job[w].at = "part"
    <3>1. PICK i \in job[w].items : r = job[w].call.list[i].part
      BY <2>2, <2>6 DEF Wanted
    <3>2. i \in DOMAIN job[w].call.list /\ job[w].call \in Calls /\ job[w].call.kind = "parts"
      BY <2>6, <3>1 DEF Inv, JobOK, InOrder, NextItems
    <3>3. r \in Parts /\ r \in Rows
      BY <3>1, <3>2, Lists, StockAssumption
    <3>4. job[u].at = "part"
      BY <2>2, <2>3, <3>3 DEF Inv, LockOK, Wanted
    <3>5. \E d \in job[u].done : job[u].call.list[d].part = r
      BY <2>2, <3>3, <3>4 DEF Inv, LockOK
    <3> QED BY <2>2, <2>6, <3>1, <3>2, <3>4, <3>5
  <2> QED BY <2>4, <2>5, <2>6
<1> DEFINE id(w, i) == PartId[job[w].call.list[i].part]
           T == {n \in 0..MaxInteger : \E w \in S : \E i \in job[w].items : n = id(w, i)}
<1>2. ASSUME NEW w \in S
      PROVE  /\ \E n \in Nat : DOMAIN job[w].call.list = 1..n
             /\ InOrder(job[w])
             /\ \A i \in DOMAIN job[w].call.list :
                  job[w].call.list[i].part \in Parts /\ id(w, i) \in 0..MaxInteger
  <2>1. job[w].call \in Calls /\ job[w].call.kind = "parts" /\ InOrder(job[w])
    BY <1>1 DEF Inv, JobOK
  <2> QED BY <2>1, Lists
<1>3. T # {}
  <2>1. PICK w \in S : TRUE
    BY DEF Deadlocked
  <2>2. PICK i \in job[w].items : i \in DOMAIN job[w].call.list
    BY <1>1
  <2>3. id(w, i) \in T
    BY <1>2, <2>2
  <2> QED BY <2>3
<1>4. PICK m \in T : \A n \in T : n <= m
  <2>1. T \in SUBSET (0..MaxInteger) /\ MaxInteger \in Nat
    BY MaxIsNat
  <2> HIDE DEF T
  <2> QED BY <1>3, <2>1, Greatest
<1>a. PICK w \in S : \E i \in job[w].items : m = id(w, i)
  OBVIOUS
<1>5. PICK i \in job[w].items : m = id(w, i)
  BY <1>a
<1>6. PICK u \in S \ {w}, k \in job[w].items :
        /\ locked[job[w].call.list[k].part] = u
        /\ \E d \in job[u].done : job[u].call.list[d].part = job[w].call.list[k].part
  BY <1>1
<1>7. PICK v \in S \ {u}, j \in job[u].items : locked[job[u].call.list[j].part] = v /\ j \in DOMAIN job[u].call.list
  BY <1>1
<1>8. k = i
  <2>1. PICK n \in Nat : DOMAIN job[w].call.list = 1..n
    BY <1>2
  <2>2. job[w].done \in SUBSET (1..n) /\ job[w].items = NextItems(job[w].call, job[w].done)
    BY <1>2, <2>1 DEF InOrder
  <2>3. \A x, y \in NextItems(job[w].call, job[w].done) : x = y
    BY <2>1 DEF NextItems
  <2> QED BY <2>2, <2>3
<1>9. PICK d \in job[u].done : job[u].call.list[d].part = job[w].call.list[i].part
  BY <1>6, <1>8
<1>b. /\ d \in DOMAIN job[u].call.list /\ i \in DOMAIN job[w].call.list
      /\ job[u].call.list[j].part \in Parts /\ job[w].call.list[i].part \in Parts
      /\ id(u, d) \in Int /\ id(u, j) \in Int /\ m \in Int
  <2>1. d \in DOMAIN job[u].call.list /\ i \in DOMAIN job[w].call.list
    BY <1>2, <1>9 DEF InOrder, NextItems
  <2> QED BY <1>2, <1>7, <2>1
<1>10. d < j
  BY <1>2, <1>7, <1>9 DEF InOrder, NextItems
<1>11. id(u, d) <= id(u, j)
  BY <1>2, <1>7, <1>9, <1>10 DEF InOrder, Ascending
<1>12. id(u, j) \in T /\ id(u, j) <= m
  BY <1>2, <1>4, <1>7
<1>13. id(u, j) = m
  <2>1. id(u, d) = m
    BY <1>5, <1>9
  <2> HIDE DEF id, T
  <2> QED BY <2>1, <1>11, <1>12, <1>b
<1>14. job[u].call.list[j].part = job[w].call.list[i].part
  BY <1>5, <1>13, <1>b, StockAssumption
<1> QED BY <1>6, <1>7, <1>8, <1>14

-----------------------------------------------------------------------------
(* A request that is about neither to take nor to commit has locked nothing. *)
LEMMA NoLocks ==
  ASSUME Inv, NEW w \in Workers, job[w].at \notin {"part", "commit"}
  PROVE  \A r \in Rows : locked[r] # w
BY DEF Inv, LockOK

(* What was pushed stays earned when statuses are added. *)
LEMMA StaysEarned ==
  ASSUME PushedIsEarned, pushed' = pushed, recorded \subseteq recorded'
  PROVE  PushedIsEarned'
BY DEF PushedIsEarned

(* A step of one request. *)
LEMMA JobStep ==
  ASSUME Inv, NEW w \in Workers, NEW j, job' = [job EXCEPT ![w] = j], JobOK(j)',
         todo' \subseteq Calls, recorded \subseteq recorded', status' \in recorded',
         locked' \in [Rows -> Workers \cup {None}],
         \A r \in Rows : locked'[r] # w => locked'[r] \in {locked[r], None},
         \A r \in Rows : locked'[r] = w =>
           j.at \in {"part", "commit"} /\ (j.at = "part" => \E d \in j.done : j.call.list[d].part = r),
         pushed' \in Seq(Pushes), PushedIsEarned'
  PROVE  Inv'
<1>1. \A v \in Workers : job'[v] = IF v = w THEN j ELSE job[v]
  BY DEF Inv
<1>2. DOMAIN job' = Workers /\ job' = [v \in Workers |-> job'[v]]
  BY DEF Inv
<1>3. ASSUME NEW v \in Workers PROVE JobOK(job[v])'
  <2>1. CASE v = w
    BY <1>1, <2>1 DEF JobOK, InOrder
  <2>2. CASE v # w
    <3>1. JobOK(job[v]) /\ job'[v] = job[v]
      BY <1>1, <2>2 DEF Inv
    <3> QED BY <3>1 DEF JobOK, InOrder
  <2> QED BY <2>1, <2>2
<1>4. ASSUME NEW r \in Rows PROVE LockOK(r)'
  <2> SUFFICES ASSUME NEW v \in Workers, locked'[r] = v
               PROVE  /\ job'[v].at \in {"part", "commit"}
                      /\ job'[v].at = "part" => \E d \in job'[v].done : job'[v].call.list[d].part = r
    BY DEF LockOK
  <2>1. CASE v = w
    BY <1>1, <2>1
  <2>2. CASE v # w
    <3>1. locked[r] = v /\ job'[v] = job[v]
      BY <1>1, <2>2, PoolAssumption
    <3>2. LockOK(r)
      BY DEF Inv
    <3> QED BY <3>1, <3>2, Zenon DEF LockOK
  <2> QED BY <2>1, <2>2
<1> QED BY <1>2, <1>3, <1>4 DEF Inv

(* A step of a request that pushes nothing and commits no status. *)
LEMMA QuietStep ==
  ASSUME Inv, NEW w \in Workers, NEW j, job' = [job EXCEPT ![w] = j], JobOK(j),
         todo' \subseteq todo, UNCHANGED <<status, recorded, pushed>>,
         \/ locked' = locked /\ job[w].at \notin {"part", "commit"}
         \/ locked' = Released(w)
  PROVE  Inv'
<1>1. JobOK(j)'
  BY DEF JobOK, InOrder
<1>2. locked' \in [Rows -> Workers \cup {None}]
  BY DEF Released, Inv
<1>3. \A r \in Rows : locked'[r] # w /\ locked'[r] \in {locked[r], None}
  BY NoLocks, PoolAssumption DEF Released
<1> QED BY <1>1, <1>2, <1>3, StaysEarned, JobStep DEF Inv

(* A request that ends, with a commit or an exception. *)
LEMMA EndStep ==
  ASSUME Inv, NEW w \in Workers, job' = [job EXCEPT ![w] = Idle], locked' = Released(w),
         todo' = todo, UNCHANGED <<status, recorded, pushed>>
  PROVE  Inv'
<1>1. JobOK(Idle)
  BY DEF JobOK, Idle
<1> QED BY <1>1, QuietStep

LEMMA InitInv == Init => Inv
<1> SUFFICES ASSUME Init PROVE Inv
  OBVIOUS
<1>1. /\ todo \subseteq Calls /\ job = [w \in Workers |-> Idle]
      /\ locked = [r \in Rows |-> None]
      /\ status = FirstStatus /\ recorded = {FirstStatus} /\ pushed = <<>>
  BY DEF Init, PoolInit, PushInit, Calls
<1>2. JobOK(Idle)
  BY DEF JobOK, Idle
<1>3. \A r \in Rows : LockOK(r)
  BY <1>1, PoolAssumption DEF LockOK
<1>4. PushedIsEarned /\ pushed \in Seq(Pushes)
  BY <1>1 DEF PushedIsEarned
<1> QED BY <1>1, <1>2, <1>3, <1>4 DEF Inv

(* Requests on parts. *)
LEMMA StockStepKeeps ==
  ASSUME Inv, NEW w \in Workers, StockStep(w), UNCHANGED pushVars
  PROVE  Inv'
<1>0. UNCHANGED <<status, recorded, pushed>> /\ JobOK(job[w])
  BY DEF pushVars, Inv
<1>1. CASE OpenParts(w)
  <2>1. PICK j : j = [at |-> "stock", call |-> job[w].call, open |-> TRUE]
    OBVIOUS
  <2>2. job[w].at = "begin" /\ job' = [job EXCEPT ![w] = j] /\ locked' = locked /\ todo' = todo
        /\ job[w].call.kind = "parts"
    BY <1>1, <2>1 DEF OpenParts, Open, Runs
  <2>3. JobOK(j)
    BY <1>0, <2>1, <2>2 DEF JobOK
  <2> QED BY <1>0, <2>2, <2>3, QuietStep
<1>2. CASE ReadStock(w)
  <2>1. job[w].at = "stock" /\ todo' = todo /\ job[w].call.kind = "parts" /\ job[w].call \in Calls
    BY <1>0, <1>2 DEF ReadStock, ReadsOutside, Runs, Throw, JobOK
  <2>2. PICK j : j = [at |-> "part", call |-> job[w].call, open |-> job[w].open,
                      seen |-> stock, done |-> {}, items |-> NextItems(job[w].call, {})]
    OBVIOUS
  <2>3. JobOK(j)
    BY <2>1, <2>2 DEF JobOK, InOrder
  <2>4. CASE Suffices(job[w].call, stock)
    <3>1. job' = [job EXCEPT ![w] = j] /\ locked' = locked
      BY <1>2, <2>2, <2>4 DEF ReadStock, ReadsOutside
    <3> QED BY <1>0, <2>1, <2>3, <3>1, QuietStep
  <2>5. CASE ~Suffices(job[w].call, stock)
    BY <1>0, <1>2, <2>1, <2>5, EndStep DEF ReadStock, Throw
  <2> QED BY <2>4, <2>5
<1>3. CASE TakePart(w)
  <2>1. /\ job[w].at = "part" /\ job[w].call.kind = "parts" /\ job[w].call \in Calls
        /\ InOrder(job[w])
    BY <1>0, <1>3 DEF TakePart, JobOK
  <2>2. PICK i \in job[w].items :
          Writes(w, "part", job[w].call.list[i].part,
                 [job[w] EXCEPT !.done = job[w].done \cup {i},
                                !.items = NextItems(job[w].call, job[w].done \cup {i}),
                                !.at = IF job[w].done \cup {i} = DOMAIN job[w].call.list
                                         THEN "commit" ELSE "part"])
    BY <1>3 DEF TakePart
  <2>3. PICK done : done = job[w].done \cup {i}
    OBVIOUS
  <2>4. PICK j : j = [job[w] EXCEPT !.done = done, !.items = NextItems(job[w].call, done),
                                    !.at = IF done = DOMAIN job[w].call.list THEN "commit" ELSE "part"]
    OBVIOUS
  <2>5. PICK row : row = job[w].call.list[i].part
    OBVIOUS
  <2>6. /\ locked' = [locked EXCEPT ![row] = w] /\ job' = [job EXCEPT ![w] = j] /\ todo' = todo
    BY <2>2, <2>3, <2>4, <2>5 DEF Writes
  <2>7. PICK n \in Nat : DOMAIN job[w].call.list = 1..n
    BY <2>1, Lists
  <2>8. i \in 1..n /\ i \notin job[w].done /\ \A k \in (1..n) \ job[w].done : i <= k
    BY <2>1, <2>7 DEF InOrder, NextItems
  <2>9. done \subseteq 1..n /\ \A d \in done, k \in (1..n) \ done : d < k
    BY <2>1, <2>3, <2>7, <2>8 DEF InOrder
  <2>10. /\ j.at \in {"part", "commit"} /\ j.call = job[w].call /\ j.done = done
         /\ j.items = NextItems(job[w].call, done) /\ DOMAIN j = DOMAIN job[w]
    BY <1>0, <2>1, <2>4 DEF JobOK, InOrder
  <2>11. InOrder(j)
    BY <2>1, <2>7, <2>9, <2>10 DEF InOrder
  <2>12. JobOK(j)'
    BY <1>0, <2>1, <2>10, <2>11 DEF JobOK, InOrder
  <2>13. row \in Rows
    BY <2>1, <2>5, <2>7, <2>8, Lists, StockAssumption
  <2>14. locked' \in [Rows -> Workers \cup {None}]
    BY <2>6, <2>13 DEF Inv
  <2>15. \A r \in Rows : locked'[r] = IF r = row THEN w ELSE locked[r]
    BY <2>6 DEF Inv
  <2>16. \A r \in Rows : locked'[r] = w => \E d \in done : job[w].call.list[d].part = r
    <3> SUFFICES ASSUME NEW r \in Rows, locked'[r] = w
                 PROVE  \E d \in done : job[w].call.list[d].part = r
      OBVIOUS
    <3>1. CASE r = row
      BY <2>3, <2>5, <3>1
    <3>2. CASE r # row
      BY <2>1, <2>3, <2>15, <3>2 DEF Inv, LockOK
    <3> QED BY <3>1, <3>2
  <2> QED BY <1>0, <2>6, <2>10, <2>12, <2>14, <2>15, <2>16, StaysEarned, JobStep DEF Inv
<1>4. CASE CommitParts(w)
  BY <1>0, <1>4, EndStep DEF CommitParts, Commit, ThrowsAt, Throw
<1> QED BY <1>1, <1>2, <1>3, <1>4 DEF StockStep

(* Requests that change the status. *)
LEMMA PushStepKeeps ==
  ASSUME Inv, NEW w \in Workers, PushStep(w)
  PROVE  Inv'
<1>0. JobOK(job[w]) /\ status \in recorded /\ pushed \in Seq(Pushes) /\ PushedIsEarned
  BY DEF Inv
<1>1. CASE OpenStatus(w)
  <2>1. PICK j : j = [at |-> "check", call |-> job[w].call, open |-> TRUE]
    OBVIOUS
  <2>2. job[w].at = "begin" /\ job' = [job EXCEPT ![w] = j] /\ locked' = locked /\ todo' = todo
        /\ job[w].call.kind = "status" /\ UNCHANGED <<status, recorded, pushed>>
    BY <1>1, <2>1 DEF OpenStatus, Open, Runs, pushVars
  <2>3. JobOK(j)
    BY <1>0, <2>1, <2>2 DEF JobOK
  <2> QED BY <2>2, <2>3, QuietStep
<1>2. CASE CheckStatus(w)
  <2>1. job[w].at = "check" /\ todo' = todo /\ job[w].call.kind = "status" /\ job[w].call \in Calls
        /\ UNCHANGED <<status, recorded, pushed>>
    BY <1>0, <1>2 DEF CheckStatus, Reads, Runs, ThrowsAt, Throw, JobOK, pushVars
  <2>2. CASE Follows(status, job[w].call.new)
    <3>1. PICK j : j = [job[w] EXCEPT !.at = "update"]
      OBVIOUS
    <3>2. j.at = "update" /\ j.call = job[w].call /\ DOMAIN j = DOMAIN job[w]
      BY <1>0, <2>1, <3>1 DEF JobOK
    <3>3. JobOK(j)
      BY <1>0, <2>1, <2>2, <3>2 DEF JobOK, Follows
    <3>4. job' = [job EXCEPT ![w] = j] /\ locked' = locked
      BY <1>2, <2>2, <3>1 DEF CheckStatus, Reads
    <3> QED BY <2>1, <3>3, <3>4, QuietStep
  <2>3. CASE ~Follows(status, job[w].call.new)
    BY <1>2, <2>1, <2>3, EndStep DEF CheckStatus, ThrowsAt, Throw
  <2> QED BY <2>2, <2>3
<1>3. CASE UpdateStatus(w)
  <2>1. /\ job[w].at = "update" /\ job[w].call \in Calls /\ todo' = todo
        /\ locked' = [locked EXCEPT !["appointment"] = w] /\ UNCHANGED <<status, recorded>>
    BY <1>0, <1>3 DEF UpdateStatus, Writes, JobOK
  <2>2. PICK j : j = [job[w] EXCEPT !.at = "commit"]
    OBVIOUS
  <2>3. j.at = "commit" /\ j.call = job[w].call /\ DOMAIN j = DOMAIN job[w]
    BY <1>0, <2>1, <2>2 DEF JobOK
  <2>4. JobOK(j)'
    BY <1>0, <2>1, <2>3 DEF JobOK
  <2>5. job' = [job EXCEPT ![w] = j]
    BY <1>3, <2>2 DEF UpdateStatus, Writes
  <2>6. PICK push \in Pushes : /\ push.status = job[w].call.new
                               /\ pushed' = Append(pushed, push)
    <3>1. [to |-> Addressee(job[w].call.new), status |-> job[w].call.new] \in Pushes
      BY <2>1 DEF Pushes, Addressee
    <3> QED BY <1>3, <3>1 DEF UpdateStatus
  <2>7. pushed' \in Seq(Pushes)
    BY <1>0, <2>6
  <2>8. PushedIsEarned'
    <3>1. \E s \in recorded : <<s, push.status>> \in StatusSteps
      BY <1>0, <2>1, <2>6 DEF JobOK
    <3>2. \A i \in DOMAIN pushed' : pushed'[i] = push \/ (i \in DOMAIN pushed /\ pushed'[i] = pushed[i])
      BY <1>0, <2>6
    <3> QED BY <1>0, <2>1, <3>1, <3>2 DEF PushedIsEarned
  <2>9. locked' \in [Rows -> Workers \cup {None}] /\ \A r \in Rows : locked'[r] \in {locked[r], w}
    BY <2>1 DEF Inv
  <2> QED BY <1>0, <2>1, <2>3, <2>4, <2>5, <2>7, <2>8, <2>9, JobStep DEF Inv
<1>4. CASE CommitStatus(w)
  <2>1. /\ job' = [job EXCEPT ![w] = Idle] /\ locked' = Released(w) /\ todo' = todo
        /\ status' \in recorded' /\ recorded \subseteq recorded' /\ pushed' = pushed
    BY <1>0, <1>4 DEF CommitStatus, Commit, ThrowsAt, Throw
  <2>2. JobOK(Idle)'
    BY DEF JobOK, Idle
  <2>3. locked' \in [Rows -> Workers \cup {None}]
        /\ \A r \in Rows : locked'[r] # w /\ locked'[r] \in {locked[r], None}
    BY <2>1, PoolAssumption DEF Released, Inv
  <2> QED BY <1>0, <2>1, <2>2, <2>3, StaysEarned, JobStep DEF Inv
<1>5. CASE OpenUpdate(w)
  <2>1. PICK j : j = [at |-> "outside", call |-> job[w].call, open |-> TRUE, left |-> 2]
    OBVIOUS
  <2>2. job[w].at = "begin" /\ job' = [job EXCEPT ![w] = j] /\ locked' = locked /\ todo' = todo
        /\ job[w].call.kind = "customerUpdate" /\ UNCHANGED <<status, recorded, pushed>>
    BY <1>5, <2>1 DEF OpenUpdate, Open, Runs, pushVars
  <2>3. JobOK(j)
    BY <1>0, <2>1, <2>2 DEF JobOK
  <2> QED BY <2>2, <2>3, QuietStep
<1>6. CASE FindAppointment(w)
  <2>1. job[w].at = "outside" /\ todo' = todo /\ UNCHANGED <<status, recorded, pushed>>
    BY <1>6 DEF FindAppointment, ReadsOutside, Throw, pushVars
  <2>2. PICK j : j = [job[w] EXCEPT !.left = 1]
    OBVIOUS
  <2>3. j.at = "outside" /\ j.call = job[w].call /\ DOMAIN j = DOMAIN job[w]
    BY <1>0, <2>1, <2>2 DEF JobOK
  <2>4. JobOK(j)
    BY <1>0, <2>1, <2>3 DEF JobOK
  <2>5. CASE ReadsOutside(w, "outside", [job[w] EXCEPT !.left = 1])
    BY <2>1, <2>2, <2>4, <2>5, QuietStep DEF ReadsOutside
  <2>6. CASE Throw(w)
    BY <2>1, <2>6, EndStep DEF Throw
  <2> QED BY <1>6, <2>5, <2>6 DEF FindAppointment
<1>7. CASE UpdatePartial(w)
  <2>1. PICK j : j = [job[w] EXCEPT !.left = 0, !.at = "commit"]
    OBVIOUS
  <2>2. /\ job[w].at = "outside" /\ job' = [job EXCEPT ![w] = j] /\ locked' = locked /\ todo' = todo
        /\ status' \in recorded' /\ recorded \subseteq recorded' /\ pushed' = pushed
    BY <1>7, <2>1 DEF UpdatePartial, ReadsOutside
  <2>3. j.at = "commit" /\ j.call = job[w].call /\ DOMAIN j = DOMAIN job[w]
    BY <1>0, <2>1, <2>2 DEF JobOK
  <2>4. JobOK(j)'
    BY <1>0, <2>2, <2>3 DEF JobOK
  <2>5. locked' \in [Rows -> Workers \cup {None}] /\ \A r \in Rows : locked'[r] # w /\ locked'[r] = locked[r]
    BY <2>2, NoLocks DEF Inv
  <2> QED BY <1>0, <2>2, <2>4, <2>5, StaysEarned, JobStep DEF Inv
<1>8. CASE CommitUpdate(w)
  <2>1. UNCHANGED <<status, recorded, pushed>>
    BY <1>8 DEF CommitUpdate, pushVars
  <2> QED BY <1>8, <2>1, EndStep DEF CommitUpdate, Commit, ThrowsAt, Throw
<1> QED BY <1>1, <1>2, <1>3, <1>4, <1>5, <1>6, <1>7, <1>8 DEF PushStep

(* Steps of the environment of the requests. *)
LEMMA EnvironmentKeeps ==
  ASSUME Inv, UNCHANGED <<job, locked>>, todo' \subseteq todo,
         recorded \subseteq recorded', status' \in recorded', pushed' = pushed
  PROVE  Inv'
<1>1. \A w \in Workers : JobOK(job[w])'
  BY DEF Inv, JobOK, InOrder
<1>2. \A r \in Rows : LockOK(r)'
  BY DEF Inv, LockOK
<1> QED BY <1>1, <1>2, StaysEarned DEF Inv

LEMMA NextKeeps == Inv /\ [Next]_vars => Inv'
<1> SUFFICES ASSUME Inv, [Next]_vars PROVE Inv'
  OBVIOUS
<1>0. status \in recorded
  BY DEF Inv
<1>1. ASSUME NEW w \in Workers, NEW c \in todo, Arrive(w, c), UNCHANGED pushVars
      PROVE  Inv'
  <2>1. PICK j : j = [at |-> "begin", call |-> c, open |-> FALSE]
    OBVIOUS
  <2>2. JobOK(j) /\ job[w].at \notin {"part", "commit"}
    BY <1>1, <2>1 DEF JobOK, Inv, Arrive, Idle
  <2>3. job' = [job EXCEPT ![w] = j] /\ locked' = locked /\ todo' \subseteq todo
    BY <1>1, <2>1 DEF Arrive
  <2> QED BY <1>1, <2>2, <2>3, QuietStep DEF pushVars
<1>2. ASSUME NEW w \in Workers, Proceed(w)
      PROVE  Inv'
  <2>1. CASE (WaitedTooLong(w) \/ IsClosed(w) \/ BreakDeadlock(w)) /\ UNCHANGED <<stockVars, pushVars>>
    BY <2>1, EndStep DEF WaitedTooLong, IsClosed, BreakDeadlock, Throw, pushVars
  <2> QED BY <1>2, <2>1, StockStepKeeps, PushStepKeeps DEF Proceed
<1>3. ASSUME NEW w \in Workers, TimeOut(w)
      PROVE  Inv'
  <2>1. PICK j : j = [job[w] EXCEPT !.open = FALSE]
    OBVIOUS
  <2>2. job' = [job EXCEPT ![w] = j] /\ locked' = Released(w) /\ todo' = todo
        /\ UNCHANGED <<status, recorded, pushed>>
    BY <1>3, <2>1 DEF TimeOut, Expire, pushVars
  <2>3. JobOK(job[w])
    BY DEF Inv
  <2>4. /\ j.at = job[w].at /\ DOMAIN j = DOMAIN job[w]
        /\ "call" \in DOMAIN j => j.call = job[w].call
        /\ "done" \in DOMAIN j => j.done = job[w].done
        /\ "items" \in DOMAIN j => j.items = job[w].items
    BY <2>1, <2>3 DEF JobOK
  <2>5. JobOK(j)
    BY <2>3, <2>4 DEF JobOK, InOrder
  <2> QED BY <2>2, <2>5, QuietStep
<1>4. CASE PushEnvironment /\ UNCHANGED stockVars
  BY <1>0, <1>4, EnvironmentKeeps
     DEF PushEnvironment, QuoteAndConfirm, AdminConfirm, Deliver, SentOnce, HandleConnection, Disconnect, poolVars
<1>5. CASE UNCHANGED vars
  BY <1>0, <1>5, EnvironmentKeeps DEF vars, poolVars, pushVars
<1> QED BY <1>1, <1>2, <1>3, <1>4, <1>5 DEF Next

LEMMA Invariance == Spec => []Inv
BY InitInv, NextKeeps, PTL DEF Spec

-----------------------------------------------------------------------------
(* Clients that send the parts of every list in the order of their ids      *)
(* never meet a deadlock, for any number of requests, lists and parts       *)
(* (addSpareParts).                                                         *)
THEOREM SortedListsNeverDeadlock == Spec => []OrderedListsNeverDeadlock
<1>1. Inv => OrderedListsNeverDeadlock
  BY SortedListsGoOn DEF OrderedListsNeverDeadlock
<1> QED BY <1>1, Invariance, PTL

(* A push says what the appointment has been or one step ahead of it, for   *)
(* any number of requests, whether their transactions commit, throw or      *)
(* expire after the push (updateAppointmentStatus, completeRepair).         *)
THEOREM PushesAreEarned == Spec => []PushedIsEarned
<1>1. Inv => PushedIsEarned
  BY DEF Inv
<1> QED BY <1>1, Invariance, PTL

-----------------------------------------------------------------------------
(* Slots, connections and the stock.  For them a step is one of five.      *)

Opened == {w \in Workers : job[w].open}

(* Nothing happens to requests and stock. *)
Stands == UNCHANGED <<poolSize, job, locked, committed, stock, contended>> /\ todo' \subseteq todo

Arrives(w, c) ==
  /\ job[w] = Idle /\ c \in todo /\ todo' = todo \ {c}
  /\ job' = [job EXCEPT ![w] = [at |-> "begin", call |-> c, open |-> FALSE]]
  /\ UNCHANGED <<poolSize, locked, committed, stock, contended>>

(* A request goes on as j says; with its first step its connection opens    *)
(* and the parts it shares with others are noted.                           *)
Continues(w, j) ==
  /\ Busy(w) /\ job' = [job EXCEPT ![w] = j]
  /\ j.at \in Steps \ {"idle", "begin"} /\ j.open \in BOOLEAN /\ j.call = job[w].call
  /\ \A r \in Rows : locked'[r] = locked[r] \/ (locked'[r] = w /\ j.open)
  /\ \/ job[w].at = "begin" /\ FreeConnection /\ j.open
     \/ job[w].at # "begin" /\ j.open = job[w].open
  /\ j.at \in {"part", "commit"} /\ j.call.kind = "parts" =>
       /\ "seen" \in DOMAIN j
       /\ \/ job[w].at = "stock" /\ j.seen = stock /\ Suffices(j.call, stock)
          \/ job[w].at = "part" /\ j.seen = job[w].seen
  /\ contended \subseteq contended' /\ contended' \subseteq contended \cup Named(j.call)
  /\ job[w].at = "begin" =>
       \A u \in Workers \ {w} : Busy(u) => Named(j.call) \cap Named(job[u].call) \subseteq contended'
  /\ UNCHANGED <<poolSize, todo, committed, stock>>

Expires(w) ==
  /\ job[w].open /\ job' = [job EXCEPT ![w] = [job[w] EXCEPT !.open = FALSE]]
  /\ locked' = Released(w)
  /\ UNCHANGED <<poolSize, todo, committed, stock, contended>>

(* A request ends with an exception, or with a commit. *)
Ends(w) ==
  /\ job' = [job EXCEPT ![w] = Idle] /\ locked' = Released(w)
  /\ UNCHANGED <<poolSize, todo, contended>>
  /\ \/ UNCHANGED <<committed, stock>>
     \/ /\ job[w].at = "commit" /\ job[w].open
        /\ committed' = committed \cup {job[w].call}
        /\ \/ job[w].call.kind # "parts" /\ stock' = stock
           \/ stock' = [p \in Parts |-> IF p \in Named(job[w].call) THEN StockAfter(w, p) ELSE stock[p]]

(* A request of each slot; what it has read sufficed for its list.         *)
SlotOK(w) ==
  /\ job[w].at \in Steps /\ job[w].open \in BOOLEAN
  /\ job[w].at = "idle" => job[w] = Idle
  /\ job[w].at = "begin" => ~job[w].open
  /\ job[w].at \in {"part", "commit"} /\ job[w].call.kind = "parts" =>
       /\ "seen" \in DOMAIN job[w]
       /\ Suffices(job[w].call, job[w].seen)

(* Every call is waiting to be sent, under way in one slot, or through.    *)
OnceOnly ==
  /\ todo \cap committed = {}
  /\ \A w \in Workers : Busy(w) => job[w].call \notin todo \cup committed
  /\ \A w, u \in Workers : Busy(w) /\ Busy(u) /\ job[w].call = job[u].call => w = u

OfInstance(i) ==
  /\ poolSize = i.connections /\ todo \cup committed \subseteq i.calls
  /\ \A w \in Workers : Busy(w) => job[w].call \in i.calls

(* No more connections are taken than the pool has, and locks are held by   *)
(* open transactions only.                                                  *)
Connections ==
  /\ IsFiniteSet(Opened) /\ Cardinality(Opened) <= poolSize
  /\ \A r \in Rows, w \in Workers : locked[r] = w => job[w].open

Slots ==
  /\ \A w \in Workers : SlotOK(w)
  /\ OnceOnly /\ Connections
  /\ \E i \in Instances : OfInstance(i)
  /\ stock \in [Parts -> Int] /\ contended \subseteq Parts /\ IsFiniteSet(committed)

Shape ==
  \/ Stands
  \/ \E w \in Workers, c \in todo : Arrives(w, c)
  \/ \E w \in Workers : (\E j : Continues(w, j)) \/ Expires(w) \/ Ends(w)

(* Requests on parts. *)
LEMMA StockShape ==
  ASSUME Inv, Slots, NEW w \in Workers, StockStep(w)
  PROVE  (\E j : Continues(w, j)) \/ Ends(w)
<1>0. JobOK(job[w]) /\ SlotOK(w) /\ contended \subseteq contended
  BY DEF Inv, Slots
<1>1. CASE OpenParts(w)
  <2>1. PICK j : j = [at |-> "stock", call |-> job[w].call, open |-> TRUE]
    OBVIOUS
  <2>2. j.at = "stock" /\ j.open = TRUE /\ j.call = job[w].call
    BY <2>1
  <2>3. /\ job[w].at = "begin" /\ FreeConnection /\ job' = [job EXCEPT ![w] = j]
        /\ UNCHANGED <<poolSize, todo, locked, committed, stock>>
        /\ contended' = contended \cup (Named(job[w].call) \cap
             UNION {Named(job[u].call) : u \in {v \in Workers \ {w} : Busy(v)}})
        /\ Busy(w)
    BY <1>1, <2>1 DEF OpenParts, Open, Runs
  <2>4. \A u \in Workers \ {w} : Busy(u) => Named(j.call) \cap Named(job[u].call) \subseteq contended'
    BY <2>2, <2>3
  <2>5. contended \subseteq contended' /\ contended' \subseteq contended \cup Named(j.call)
    BY <2>2, <2>3
  <2>6. Continues(w, j)
    BY <2>2, <2>3, <2>4, <2>5 DEF Continues, Steps
  <2> QED BY <2>6
<1>2. CASE ReadStock(w)
  <2>1. PICK j : j = [at |-> "part", call |-> job[w].call, open |-> job[w].open,
                      seen |-> stock, done |-> {}, items |-> NextItems(job[w].call, {})]
    OBVIOUS
  <2>2. /\ j.at = "part" /\ j.open = job[w].open /\ j.call = job[w].call /\ j.seen = stock
        /\ "seen" \in DOMAIN j
    BY <2>1
  <2>3. Busy(w) /\ job[w].at = "stock" /\ UNCHANGED <<poolSize, todo, committed, stock, contended>>
    BY <1>2 DEF ReadStock, ReadsOutside, Throw, Runs, stockVars
  <2>4. CASE Suffices(job[w].call, stock)
    <3>1. job' = [job EXCEPT ![w] = j] /\ locked' = locked
      BY <1>2, <2>1, <2>4 DEF ReadStock, ReadsOutside
    <3>2. Continues(w, j)
      BY <1>0, <2>2, <2>3, <2>4, <3>1 DEF Continues, Steps, SlotOK
    <3> QED BY <3>2
  <2>5. CASE ~Suffices(job[w].call, stock)
    BY <1>2, <2>3, <2>5 DEF ReadStock, Throw, Ends
  <2> QED BY <2>4, <2>5
<1>3. CASE TakePart(w)
  <2>1. /\ job[w].at = "part" /\ Busy(w) /\ job[w].call.kind = "parts" /\ InOrder(job[w])
        /\ job[w].call \in Calls /\ "seen" \in DOMAIN job[w]
        /\ UNCHANGED <<stock, contended>>
    BY <1>0, <1>3 DEF TakePart, Runs, JobOK, SlotOK, stockVars
  <2>2. PICK i \in job[w].items :
          Writes(w, "part", job[w].call.list[i].part,
                 [job[w] EXCEPT !.done = job[w].done \cup {i},
                                !.items = NextItems(job[w].call, job[w].done \cup {i}),
                                !.at = IF job[w].done \cup {i} = DOMAIN job[w].call.list
                                         THEN "commit" ELSE "part"])
    BY <1>3 DEF TakePart
  <2>3. PICK j : j = [job[w] EXCEPT !.done = job[w].done \cup {i},
                                !.items = NextItems(job[w].call, job[w].done \cup {i}),
                                !.at = IF job[w].done \cup {i} = DOMAIN job[w].call.list
                                         THEN "commit" ELSE "part"]
    OBVIOUS
  <2>4. PICK row : row = job[w].call.list[i].part
    OBVIOUS
  <2>5. /\ job' = [job EXCEPT ![w] = j] /\ locked' = [locked EXCEPT ![row] = w]
        /\ job[w].open /\ UNCHANGED <<poolSize, todo, committed>>
    BY <2>2, <2>3, <2>4 DEF Writes
  <2>6. /\ j.at \in {"part", "commit"} /\ j.call = job[w].call /\ j.open = job[w].open
        /\ j.seen = job[w].seen /\ "seen" \in DOMAIN j
    BY <1>0, <2>1, <2>3 DEF JobOK
  <2>7. \A r \in Rows : locked'[r] = locked[r] \/ locked'[r] = w
    BY <2>5 DEF Inv
  <2>8. Continues(w, j)
    BY <1>0, <2>1, <2>5, <2>6, <2>7 DEF Continues, Steps, SlotOK
  <2> QED BY <2>8
<1>4. CASE CommitParts(w)
  BY <1>4 DEF CommitParts, Commit, ThrowsAt, Throw, Ends
<1> QED BY <1>1, <1>2, <1>3, <1>4 DEF StockStep

(* Requests that change the status. *)
LEMMA PushShape ==
  ASSUME Inv, Slots, NEW w \in Workers, PushStep(w), UNCHANGED stockVars
  PROVE  (\E j : Continues(w, j)) \/ Ends(w)
<1>0. JobOK(job[w]) /\ SlotOK(w) /\ UNCHANGED <<stock, contended>>
  BY DEF Inv, Slots, stockVars
<1>1. CASE OpenStatus(w)
  <2>1. PICK j : j = [at |-> "check", call |-> job[w].call, open |-> TRUE]
    OBVIOUS
  <2>2. j.at = "check" /\ j.open = TRUE /\ j.call = job[w].call
    BY <2>1
  <2>3. /\ job[w].at = "begin" /\ FreeConnection /\ job' = [job EXCEPT ![w] = j]
        /\ UNCHANGED <<poolSize, todo, locked, committed>>
        /\ Busy(w) /\ j.call.kind # "parts"
    BY <1>1, <2>1 DEF OpenStatus, Open, Runs
  <2>4. Continues(w, j)
    BY <1>0, <2>2, <2>3 DEF Continues, Steps, Named
  <2> QED BY <2>4
<1>2. CASE CheckStatus(w)
  <2>1. CASE Follows(status, job[w].call.new)
    <3>1. PICK j : j = [job[w] EXCEPT !.at = "update"]
      OBVIOUS
    <3>2. /\ job[w].at = "check" /\ job' = [job EXCEPT ![w] = j] /\ Busy(w)
          /\ UNCHANGED <<poolSize, todo, locked, committed>>
      BY <1>2, <2>1, <3>1 DEF CheckStatus, Reads, Runs
    <3>3. j.at = "update" /\ j.call = job[w].call /\ j.open = job[w].open
      BY <1>0, <3>1, <3>2 DEF JobOK
    <3>4. Continues(w, j)
      BY <1>0, <3>2, <3>3 DEF Continues, Steps, SlotOK
    <3> QED BY <3>4
  <2>2. CASE ~Follows(status, job[w].call.new)
    BY <1>0, <1>2, <2>2 DEF CheckStatus, ThrowsAt, Throw, Ends
  <2> QED BY <2>1, <2>2
<1>3. CASE UpdateStatus(w)
  <2>1. PICK j : j = [job[w] EXCEPT !.at = "commit"]
    OBVIOUS
  <2>2. /\ job[w].at = "update" /\ job' = [job EXCEPT ![w] = j] /\ Busy(w) /\ job[w].open
        /\ locked' = [locked EXCEPT !["appointment"] = w]
        /\ UNCHANGED <<poolSize, todo, committed>>
    BY <1>3, <2>1 DEF UpdateStatus, Writes, Runs
  <2>3. j.at = "commit" /\ j.call = job[w].call /\ j.open = job[w].open /\ j.call.kind # "parts"
    BY <1>0, <2>1, <2>2 DEF JobOK
  <2>4. \A r \in Rows : locked'[r] = locked[r] \/ locked'[r] = w
    BY <2>2 DEF Inv
  <2>5. Continues(w, j)
    BY <1>0, <2>2, <2>3, <2>4 DEF Continues, Steps, SlotOK
  <2> QED BY <2>5
<1>4. CASE CommitStatus(w)
  BY <1>0, <1>4 DEF CommitStatus, Commit, ThrowsAt, Throw, Ends, Runs
<1>5. CASE OpenUpdate(w)
  <2>1. PICK j : j = [at |-> "outside", call |-> job[w].call, open |-> TRUE, left |-> 2]
    OBVIOUS
  <2>2. j.at = "outside" /\ j.open = TRUE /\ j.call = job[w].call
    BY <2>1
  <2>3. /\ job[w].at = "begin" /\ FreeConnection /\ job' = [job EXCEPT ![w] = j]
        /\ UNCHANGED <<poolSize, todo, locked, committed>>
        /\ Busy(w) /\ j.call.kind # "parts"
    BY <1>5, <2>1 DEF OpenUpdate, Open, Runs
  <2>4. Continues(w, j)
    BY <1>0, <2>2, <2>3 DEF Continues, Steps, Named
  <2> QED BY <2>4
<1>6. ASSUME NEW left \in {0, 1}, NEW at \in {"outside", "commit"}, job[w].at = "outside",
             \E j : j = [job[w] EXCEPT !.left = left, !.at = at] /\ ReadsOutside(w, "outside", j)
      PROVE  \E j : Continues(w, j)
  <2>1. PICK j : j = [job[w] EXCEPT !.left = left, !.at = at] /\ ReadsOutside(w, "outside", j)
    BY <1>6
  <2>2. /\ job' = [job EXCEPT ![w] = j] /\ Busy(w)
        /\ UNCHANGED <<poolSize, todo, locked, committed>>
    BY <1>6, <2>1 DEF ReadsOutside, Busy
  <2>3. /\ j.at \in {"commit", "outside"} /\ j.call = job[w].call /\ j.open = job[w].open
        /\ j.call.kind # "parts"
    BY <1>0, <1>6, <2>1 DEF JobOK
  <2>4. Continues(w, j)
    BY <1>0, <1>6, <2>2, <2>3 DEF Continues, Steps, SlotOK
  <2> QED BY <2>4
<1>7. CASE FindAppointment(w)
  <2>1. CASE ReadsOutside(w, "outside", [job[w] EXCEPT !.left = 1])
    <3>1. job[w].at = "outside" /\ [job[w] EXCEPT !.left = 1] = [job[w] EXCEPT !.left = 1, !.at = "outside"]
      BY <1>0, <2>1 DEF ReadsOutside, JobOK
    <3> QED BY <1>6, <2>1, <3>1
  <2>2. CASE Throw(w)
    BY <1>0, <2>2 DEF Throw, Ends
  <2> QED BY <1>7, <2>1, <2>2 DEF FindAppointment
<1>8. CASE UpdatePartial(w)
  BY <1>6, <1>8 DEF UpdatePartial
<1>9. CASE CommitUpdate(w)
  BY <1>0, <1>9 DEF CommitUpdate, Commit, ThrowsAt, Throw, Ends, Runs
<1> QED BY <1>1, <1>2, <1>3, <1>4, <1>5, <1>7, <1>8, <1>9 DEF PushStep

LEMMA Shapes ==
  ASSUME Inv, Slots, [Next]_vars
  PROVE  Shape
<1>1. ASSUME NEW w \in Workers, NEW c \in todo, Arrive(w, c), UNCHANGED <<stockVars, pushVars>>
      PROVE  Arrives(w, c)
  BY <1>1 DEF Arrive, Arrives, stockVars
<1>2. ASSUME NEW w \in Workers, Proceed(w)
      PROVE  (\E j : Continues(w, j)) \/ Ends(w)
  <2>1. CASE (WaitedTooLong(w) \/ IsClosed(w) \/ BreakDeadlock(w)) /\ UNCHANGED <<stockVars, pushVars>>
    BY <2>1 DEF WaitedTooLong, IsClosed, BreakDeadlock, Throw, Ends, stockVars
  <2> QED BY <1>2, <2>1, StockShape, PushShape DEF Proceed
<1>3. ASSUME NEW w \in Workers, TimeOut(w)
      PROVE  Expires(w)
  BY <1>3 DEF TimeOut, Expire, Expires, stockVars
<1>4. CASE PushEnvironment /\ UNCHANGED stockVars
  <2>1. UNCHANGED <<poolSize, job, locked, committed, stock, contended>>
    BY <1>4 DEF PushEnvironment, QuoteAndConfirm, AdminConfirm, Deliver, SentOnce, HandleConnection, Disconnect, poolVars, stockVars
  <2>2. todo' \subseteq todo
    BY <1>4 DEF PushEnvironment, QuoteAndConfirm, AdminConfirm, Deliver, SentOnce, HandleConnection, Disconnect, poolVars
  <2> QED BY <2>1, <2>2 DEF Stands, Shape
<1>5. CASE UNCHANGED vars
  BY <1>5 DEF vars, poolVars, stockVars, pushVars, Stands, Shape
<1> QED BY <1>1, <1>2, <1>3, <1>4, <1>5 DEF Next, Shape

-----------------------------------------------------------------------------
(* Slots stay as they should be.                                            *)

LEMMA NamedParts ==
  ASSUME NEW c \in Calls
  PROVE  Named(c) \subseteq Parts
BY Lists DEF Named

(* The request of the slot after a step of another one, or of this one.     *)
LEMMA JobAfter ==
  ASSUME Inv, NEW w \in Workers, NEW j, job' = [job EXCEPT ![w] = j]
  PROVE  job'[w] = j /\ \A u \in Workers : job'[u] = IF u = w THEN j ELSE job[u]
BY DEF Inv

LEMMA SlotsInit == Init => Slots
<1> SUFFICES ASSUME Init PROVE Slots
  OBVIOUS
<1>1. PICK i \in Instances : todo = i.calls /\ poolSize = i.connections
  BY DEF Init, PoolInit
<1>2. /\ job = [w \in Workers |-> Idle] /\ locked = [r \in Rows |-> None] /\ committed = {}
      /\ stock = InitialStock /\ contended = {}
  BY DEF Init, PoolInit, StockInit
<1>3. \A w \in Workers : job[w] = Idle /\ job[w].at = "idle" /\ job[w].open = FALSE /\ ~Busy(w)
  BY <1>2 DEF Idle, Busy
<1>4. \A w \in Workers : SlotOK(w)
  BY <1>3 DEF SlotOK, Steps
<1>5. OnceOnly
  BY <1>2, <1>3 DEF OnceOnly
<1>6. Opened = {}
  BY <1>3 DEF Opened
<1>7. Connections
  BY <1>1, <1>2, <1>6, FS_EmptySet, PoolAssumption DEF Connections
<1>8. OfInstance(i)
  BY <1>1, <1>2, <1>3 DEF OfInstance
<1>9. stock \in [Parts -> Int] /\ contended \subseteq Parts /\ IsFiniteSet(committed)
  BY <1>2, StockAssumption, FS_EmptySet
<1> QED BY <1>4, <1>5, <1>7, <1>8, <1>9 DEF Slots

LEMMA SlotAfter ==
  ASSUME Inv, Slots, Shape, NEW u \in Workers
  PROVE  SlotOK(u)'
<1>0. SlotOK(u)
  BY DEF Slots
<1>1. ASSUME job'[u] = job[u] PROVE SlotOK(u)'
  BY <1>0, <1>1 DEF SlotOK, Suffices
<1>2. ASSUME job'[u] = Idle PROVE SlotOK(u)'
  BY <1>2 DEF SlotOK, Idle, Steps
<1>3. ASSUME NEW w \in Workers, NEW c \in todo, Arrives(w, c) PROVE SlotOK(u)'
  <2>1. job' = [job EXCEPT ![w] = [at |-> "begin", call |-> c, open |-> FALSE]]
    BY <1>3 DEF Arrives
  <2>2. CASE u = w
    <3>1. job'[u] = [at |-> "begin", call |-> c, open |-> FALSE]
      BY <2>1, <2>2, JobAfter
    <3> QED BY <3>1 DEF SlotOK, Steps
  <2>3. CASE u # w
    BY <1>1, <2>1, <2>3, JobAfter
  <2> QED BY <2>2, <2>3
<1>4. ASSUME NEW w \in Workers, NEW j, Continues(w, j) PROVE SlotOK(u)'
  <2>1. job' = [job EXCEPT ![w] = j]
    BY <1>4 DEF Continues
  <2>2. CASE u = w
    <3>1. job'[u] = j
      BY <2>1, <2>2, JobAfter
    <3>2. j.at \in Steps \ {"idle", "begin"} /\ j.open \in BOOLEAN /\ j.call = job[w].call
      BY <1>4 DEF Continues
    <3>3. ASSUME j.at \in {"part", "commit"}, j.call.kind = "parts"
          PROVE  "seen" \in DOMAIN j /\ Suffices(j.call, j.seen)
      <4>1. CASE job[w].at = "stock"
        BY <1>4, <3>3, <4>1 DEF Continues
      <4>2. CASE job[w].at # "stock"
        <5>1. "seen" \in DOMAIN j /\ job[w].at = "part" /\ j.seen = job[w].seen
          BY <1>4, <3>3, <4>2 DEF Continues
        <5> QED BY <1>0, <2>2, <3>2, <3>3, <5>1 DEF SlotOK
      <4> QED BY <4>1, <4>2
    <3>4. /\ j.at \in Steps /\ j.open \in BOOLEAN /\ j.at # "idle" /\ j.at # "begin"
          /\ j.at \in {"part", "commit"} /\ j.call.kind = "parts" =>
               "seen" \in DOMAIN j /\ Suffices(j.call, j.seen)
      BY <3>2, <3>3
    <3> QED BY <3>1, <3>4 DEF SlotOK, Suffices
  <2>3. CASE u # w
    BY <1>1, <2>1, <2>3, JobAfter
  <2> QED BY <2>2, <2>3
<1>5. ASSUME NEW w \in Workers, Expires(w) PROVE SlotOK(u)'
  <2>1. PICK j : j = [job[w] EXCEPT !.open = FALSE]
    OBVIOUS
  <2>2. job' = [job EXCEPT ![w] = j] /\ job[w].open
    BY <1>5, <2>1 DEF Expires
  <2>3. CASE u = w
    <3>1. job'[u] = j
      BY <2>2, <2>3, JobAfter
    <3>2. JobOK(job[u])
      BY DEF Inv
    <3>3. /\ j.at = job[u].at /\ j.open = FALSE /\ job[u].at # "idle"
          /\ j.at # "idle" => j.call = job[u].call
          /\ "seen" \in DOMAIN job[u] => "seen" \in DOMAIN j /\ j.seen = job[u].seen
      BY <1>0, <2>1, <2>2, <2>3, <3>2 DEF SlotOK, JobOK, Idle
    <3> QED BY <1>0, <3>1, <3>3 DEF SlotOK, Suffices
  <2>4. CASE u # w
    BY <1>1, <2>2, <2>4, JobAfter
  <2> QED BY <2>3, <2>4
<1>6. ASSUME NEW w \in Workers, Ends(w) PROVE SlotOK(u)'
  <2>1. job' = [job EXCEPT ![w] = Idle]
    BY <1>6 DEF Ends
  <2>2. job'[u] = Idle \/ job'[u] = job[u]
    BY <2>1, JobAfter
  <2> QED BY <1>1, <1>2, <2>2
<1>7. CASE Stands
  BY <1>1, <1>7 DEF Stands
<1> QED BY <1>3, <1>4, <1>5, <1>6, <1>7 DEF Shape

LEMMA OnceOnlyAfter ==
  ASSUME Inv, Slots, Shape
  PROVE  OnceOnly'
<1>0. OnceOnly
  BY DEF Slots
<1>1. ASSUME NEW w \in Workers, NEW c \in todo, Arrives(w, c) PROVE OnceOnly'
  <2>1. PICK j : j = [at |-> "begin", call |-> c, open |-> FALSE]
    OBVIOUS
  <2>2. /\ job' = [job EXCEPT ![w] = j] /\ j.at = "begin" /\ j.call = c
        /\ todo' = todo \ {c} /\ committed' = committed
    BY <1>1, <2>1 DEF Arrives
  <2>3. \A u \in Workers : job'[u] = IF u = w THEN j ELSE job[u]
    BY <2>2, JobAfter
  <2>4. \A u \in Workers : (Busy(u)' /\ job'[u].call = c /\ u = w) \/ (u # w /\ job'[u] = job[u])
    BY <2>2, <2>3 DEF Busy
  <2> QED BY <1>0, <2>2, <2>4 DEF OnceOnly, Busy
<1>2. ASSUME NEW w \in Workers, NEW j, Continues(w, j) PROVE OnceOnly'
  <2>1. /\ job' = [job EXCEPT ![w] = j] /\ j.call = job[w].call /\ Busy(w)
        /\ todo' = todo /\ committed' = committed
    BY <1>2 DEF Continues
  <2>2. \A u \in Workers : job'[u] = IF u = w THEN j ELSE job[u]
    BY <2>1, JobAfter
  <2>3. \A u \in Workers : Busy(u)' => Busy(u) /\ job'[u].call = job[u].call
    BY <2>1, <2>2 DEF Busy
  <2> QED BY <1>0, <2>1, <2>3 DEF OnceOnly
<1>3. ASSUME NEW w \in Workers, Expires(w) PROVE OnceOnly'
  <2>1. PICK j : j = [job[w] EXCEPT !.open = FALSE]
    OBVIOUS
  <2>2. /\ job' = [job EXCEPT ![w] = j] /\ JobOK(job[w])
        /\ todo' = todo /\ committed' = committed
    BY <1>3, <2>1 DEF Expires, Inv
  <2>3. j.at = job[w].at /\ (j.at # "idle" => j.call = job[w].call)
    BY <2>1, <2>2 DEF JobOK
  <2>4. \A u \in Workers : job'[u] = IF u = w THEN j ELSE job[u]
    BY <2>2, JobAfter
  <2>5. \A u \in Workers : Busy(u)' => Busy(u) /\ job'[u].call = job[u].call
    BY <2>3, <2>4 DEF Busy
  <2> QED BY <1>0, <2>2, <2>5 DEF OnceOnly
<1>4. ASSUME NEW w \in Workers, Ends(w) PROVE OnceOnly'
  <2>1. job' = [job EXCEPT ![w] = Idle] /\ todo' = todo
    BY <1>4 DEF Ends
  <2>2. \A u \in Workers : job'[u] = IF u = w THEN Idle ELSE job[u]
    BY <2>1, JobAfter
  <2>3. \A u \in Workers : Busy(u)' => u # w /\ Busy(u) /\ job'[u].call = job[u].call
    BY <2>2 DEF Busy, Idle
  <2>4. committed' = committed \/ (Busy(w) /\ committed' = committed \cup {job[w].call})
    BY <1>4 DEF Ends, Busy
  <2> QED BY <1>0, <2>1, <2>3, <2>4 DEF OnceOnly
<1>5. CASE Stands
  BY <1>0, <1>5 DEF Stands, OnceOnly, Busy
<1> QED BY <1>1, <1>2, <1>3, <1>4, <1>5 DEF Shape
LEMMA ConnectionsAfter ==
  ASSUME Inv, Slots, Shape
  PROVE  Connections'
<1>0. /\ IsFiniteSet(Opened) /\ Cardinality(Opened) <= poolSize /\ Cardinality(Opened) \in Nat
      /\ poolSize \in Nat /\ poolSize' = poolSize
      /\ \A r \in Rows, u \in Workers : locked[r] = u => job[u].open
  <2>1. poolSize' = poolSize
    BY DEF Shape, Stands, Arrives, Continues, Expires, Ends
  <2>2. Connections /\ poolSize \in Nat
    BY PoolAssumption DEF Slots, OfInstance
  <2> QED BY <2>1, <2>2, FS_CardinalityType DEF Connections
<1>1. ASSUME Opened' \subseteq Opened
      PROVE  IsFiniteSet(Opened)' /\ (Cardinality(Opened) <= poolSize)'
  <2>1. IsFiniteSet(Opened') /\ Cardinality(Opened') <= Cardinality(Opened) /\ Cardinality(Opened') \in Nat
    BY <1>0, <1>1, FS_Subset, FS_CardinalityType
  <2> QED BY <1>0, <2>1
<1>2. ASSUME NEW w \in Workers, NEW j, job' = [job EXCEPT ![w] = j]
      PROVE  /\ \A u \in Workers : job'[u] = IF u = w THEN j ELSE job[u]
             /\ ~j.open => Opened' \subseteq Opened
             /\ Opened' \subseteq Opened \cup {w}
             /\ job[w].open => Opened' \subseteq Opened
  <2>1. \A u \in Workers : job'[u] = IF u = w THEN j ELSE job[u]
    BY <1>2, JobAfter
  <2>2. \A u \in Opened' : u \in Workers /\ job'[u].open
    BY DEF Opened
  <2>3. \A u \in Opened' : u = w \/ u \in Opened
    BY <2>1, <2>2 DEF Opened
  <2>4. ~j.open => w \notin Opened'
    BY <2>1, <2>2
  <2>5. job[w].open => w \in Opened
    BY DEF Opened
  <2> QED BY <2>1, <2>3, <2>4, <2>5
<1>3. ASSUME NEW w \in Workers, locked' = Released(w),
             \A u \in Workers \ {w} : job'[u] = job[u]
      PROVE  \A r \in Rows, u \in Workers : locked'[r] = u => job'[u].open
  BY <1>0, <1>3, PoolAssumption DEF Released
<1>4. ASSUME NEW w \in Workers, NEW c \in todo, Arrives(w, c) PROVE Connections'
  <2>1. PICK j : j = [at |-> "begin", call |-> c, open |-> FALSE]
    OBVIOUS
  <2>2. job' = [job EXCEPT ![w] = j] /\ ~j.open /\ locked' = locked /\ job[w] = Idle
    BY <1>4, <2>1 DEF Arrives
  <2>3. ~job[w].open
    BY <2>2 DEF Idle
  <2>4. \A r \in Rows, u \in Workers : locked'[r] = u => job'[u].open
    BY <1>0, <1>2, <2>2, <2>3
  <2> QED BY <1>1, <1>2, <2>2, <2>4 DEF Connections
<1>5. ASSUME NEW w \in Workers, NEW j, Continues(w, j) PROVE Connections'
  <2>1. /\ job' = [job EXCEPT ![w] = j]
        /\ \A r \in Rows : locked'[r] = locked[r] \/ (locked'[r] = w /\ j.open)
        /\ \/ job[w].at = "begin" /\ FreeConnection /\ j.open
           \/ job[w].at # "begin" /\ j.open = job[w].open
    BY <1>5 DEF Continues
  <2>2. ~job[w].open \/ j.open
    <3>1. SlotOK(w) /\ j.open \in BOOLEAN
      BY <1>5 DEF Continues, Slots
    <3>2. CASE job[w].at = "begin"
      BY <2>1, <3>2
    <3>3. CASE job[w].at # "begin"
      <4>1. j.open = job[w].open
        BY <2>1, <3>3
      <4> QED BY <4>1, Zenon
    <3> QED BY <3>2, <3>3
  <2>3. ASSUME NEW r \in Rows, NEW u \in Workers, locked'[r] = u
        PROVE  job'[u].open
    <3>1. job'[u] = IF u = w THEN j ELSE job[u]
      <4>1. job' = [job EXCEPT ![w] = j]
        BY <2>1
      <4>2. \A v \in Workers : job'[v] = IF v = w THEN j ELSE job[v]
        BY <4>1, JobAfter
      <4> QED BY <4>2
    <3>2. CASE u = w
      <4>1. j.open
        BY <1>0, <2>1, <2>2, <2>3, <3>2
      <4> QED BY <3>1, <3>2, <4>1
    <3>3. CASE u # w
      <4>1. locked[r] = u
        BY <2>1, <2>3, <3>3
      <4> QED BY <1>0, <3>1, <3>3, <4>1
    <3> QED BY <3>2, <3>3
  <2>4. CASE job[w].at = "begin"
    <3>1. Cardinality(Opened) < poolSize
      BY <2>1, <2>4 DEF FreeConnection, Opened
    <3>2. IsFiniteSet(Opened \cup {w}) /\ Cardinality(Opened \cup {w}) <= Cardinality(Opened) + 1
          /\ Cardinality(Opened \cup {w}) \in Nat
      BY <1>0, FS_AddElement, FS_CardinalityType
    <3>3. IsFiniteSet(Opened') /\ Cardinality(Opened') <= Cardinality(Opened \cup {w}) /\ Cardinality(Opened') \in Nat
      BY <1>2, <2>1, <3>2, FS_Subset, FS_CardinalityType
    <3>4. Cardinality(Opened') <= poolSize'
      BY <1>0, <3>1, <3>2, <3>3
    <3> QED BY <2>3, <3>3, <3>4 DEF Connections
  <2>5. CASE job[w].at # "begin"
    <3>1. Opened' \subseteq Opened
      BY <1>2, <2>1, <2>5
    <3> QED BY <1>1, <2>3, <3>1 DEF Connections
  <2> QED BY <2>4, <2>5
<1>6. ASSUME NEW w \in Workers, Expires(w) PROVE Connections'
  <2>1. PICK j : j = [job[w] EXCEPT !.open = FALSE]
    OBVIOUS
  <2>2. job' = [job EXCEPT ![w] = j] /\ locked' = Released(w) /\ job[w].open
    BY <1>6, <2>1 DEF Expires
  <2> QED BY <1>1, <1>2, <1>3, <2>2 DEF Connections
<1>7. ASSUME NEW w \in Workers, Ends(w) PROVE Connections'
  <2>1. job' = [job EXCEPT ![w] = Idle] /\ locked' = Released(w)
    BY <1>7 DEF Ends
  <2>2. ~Idle.open
    BY DEF Idle
  <2> QED BY <1>1, <1>2, <1>3, <2>1, <2>2 DEF Connections
<1>8. CASE Stands
  BY <1>0, <1>8 DEF Stands, Connections, Opened
<1> QED BY <1>4, <1>5, <1>6, <1>7, <1>8 DEF Shape

LEMMA InstanceAfter ==
  ASSUME Inv, Slots, Shape
  PROVE  \E i \in Instances : OfInstance(i)'
<1>0. PICK i \in Instances : OfInstance(i)
  BY DEF Slots
<1>1. ASSUME NEW w \in Workers, NEW c \in todo, Arrives(w, c) PROVE OfInstance(i)'
  <2>1. PICK j : j = [at |-> "begin", call |-> c, open |-> FALSE]
    OBVIOUS
  <2>2. /\ job' = [job EXCEPT ![w] = j] /\ j.call = c
        /\ todo' = todo \ {c} /\ committed' = committed /\ poolSize' = poolSize
    BY <1>1, <2>1 DEF Arrives
  <2>3. \A u \in Workers : job'[u] = IF u = w THEN j ELSE job[u]
    BY <2>2, JobAfter
  <2>4. c \in i.calls
    BY <1>0 DEF OfInstance
  <2> QED BY <1>0, <2>2, <2>3, <2>4 DEF OfInstance, Busy
<1>2. ASSUME NEW w \in Workers, NEW j, Continues(w, j) PROVE OfInstance(i)'
  <2>1. /\ job' = [job EXCEPT ![w] = j] /\ j.call = job[w].call /\ Busy(w)
        /\ todo' = todo /\ committed' = committed /\ poolSize' = poolSize
    BY <1>2 DEF Continues
  <2>2. \A u \in Workers : job'[u] = IF u = w THEN j ELSE job[u]
    BY <2>1, JobAfter
  <2> QED BY <1>0, <2>1, <2>2 DEF OfInstance, Busy
<1>3. ASSUME NEW w \in Workers, Expires(w) PROVE OfInstance(i)'
  <2>1. PICK j : j = [job[w] EXCEPT !.open = FALSE]
    OBVIOUS
  <2>2. /\ job' = [job EXCEPT ![w] = j] /\ JobOK(job[w])
        /\ todo' = todo /\ committed' = committed /\ poolSize' = poolSize
    BY <1>3, <2>1 DEF Expires, Inv
  <2>3. j.at = job[w].at /\ (j.at # "idle" => j.call = job[w].call)
    BY <2>1, <2>2 DEF JobOK
  <2>4. \A u \in Workers : job'[u] = IF u = w THEN j ELSE job[u]
    BY <2>2, JobAfter
  <2> QED BY <1>0, <2>2, <2>3, <2>4 DEF OfInstance, Busy
<1>4. ASSUME NEW w \in Workers, Ends(w) PROVE OfInstance(i)'
  <2>1. job' = [job EXCEPT ![w] = Idle] /\ todo' = todo /\ poolSize' = poolSize
    BY <1>4 DEF Ends
  <2>2. \A u \in Workers : job'[u] = IF u = w THEN Idle ELSE job[u]
    BY <2>1, JobAfter
  <2>3. committed' = committed \/ (Busy(w) /\ committed' = committed \cup {job[w].call})
    BY <1>4 DEF Ends, Busy
  <2>4. todo' \cup committed' \subseteq i.calls
    BY <1>0, <2>1, <2>3 DEF OfInstance
  <2>5. \A u \in Workers : Busy(u)' => Busy(u) /\ job'[u].call = job[u].call
    BY <2>2 DEF Busy, Idle
  <2> QED BY <1>0, <2>1, <2>4, <2>5 DEF OfInstance
<1>5. CASE Stands
  BY <1>0, <1>5 DEF Stands, OfInstance, Busy
<1> QED BY <1>1, <1>2, <1>3, <1>4, <1>5 DEF Shape

(* The calls of requests under way and of those committed are calls of the  *)
(* model.                                                                   *)
LEMMA UnderWay ==
  ASSUME Slots
  PROVE  /\ committed \in SUBSET Calls /\ IsFiniteSet(committed)
         /\ \A w \in Workers : Busy(w) => job[w].call \in Calls /\ job[w].call \notin committed
BY DEF Slots, OfInstance, Calls, OnceOnly

(* A commit takes natural numbers of its parts. *)
LEMMA StockAfterCommit ==
  ASSUME Slots, NEW w \in Workers, Busy(w)
  PROVE  \A p \in Named(job[w].call) : p \in Parts /\ Quantity(job[w].call, p) \in Nat
BY UnderWay, NamedParts, QuantityIsSum DEF Named

LEMMA SlotsAfter ==
  ASSUME Inv, Slots, Shape
  PROVE  Slots'
<1>0. stock \in [Parts -> Int] /\ contended \subseteq Parts /\ IsFiniteSet(committed)
  BY DEF Slots
<1>1. \A w \in Workers : SlotOK(w)'
  BY SlotAfter
<1>2. stock' \in [Parts -> Int] /\ contended' \subseteq Parts /\ IsFiniteSet(committed')
  <2>1. ASSUME NEW w \in Workers, NEW j, Continues(w, j)
        PROVE  stock' \in [Parts -> Int] /\ contended' \subseteq Parts /\ IsFiniteSet(committed')
    <3>1. Named(job[w].call) \subseteq Parts
      BY <2>1, UnderWay, NamedParts DEF Continues
    <3> QED BY <1>0, <2>1, <3>1 DEF Continues
  <2>2. ASSUME NEW w \in Workers, Ends(w)
        PROVE  stock' \in [Parts -> Int] /\ contended' \subseteq Parts /\ IsFiniteSet(committed')
    <3>1. contended' = contended
      BY <2>2 DEF Ends
    <3>2. CASE UNCHANGED <<committed, stock>>
      BY <1>0, <3>1, <3>2
    <3>3. CASE ~UNCHANGED <<committed, stock>>
      <4>1. /\ Busy(w) /\ committed' = committed \cup {job[w].call}
            /\ \/ stock' = stock
               \/ stock' = [p \in Parts |-> IF p \in Named(job[w].call) THEN StockAfter(w, p) ELSE stock[p]]
        BY <2>2, <3>3 DEF Ends, Busy
      <4>2. IsFiniteSet(committed')
        BY <1>0, <4>1, FS_AddElement
      <4>3. \A p \in Parts : stock[p] \in Int /\ (p \in Named(job[w].call) => StockAfter(w, p) \in Int)
        BY <1>0, <4>1, StockAfterCommit DEF StockAfter
      <4>4. stock' \in [Parts -> Int]
        BY <1>0, <4>1, <4>3
      <4> QED BY <1>0, <3>1, <4>2, <4>4
    <3> QED BY <3>2, <3>3
  <2> QED BY <1>0, <2>1, <2>2 DEF Shape, Stands, Arrives, Expires
<1> QED BY <1>1, <1>2, OnceOnlyAfter, ConnectionsAfter, InstanceAfter DEF Slots

LEMMA SlotsInvariance == Spec => [](Inv /\ Slots)
<1>1. Inv /\ Slots /\ [Next]_vars => (Inv /\ Slots)'
  BY NextKeeps, Shapes, SlotsAfter
<1> QED BY <1>1, InitInv, SlotsInit, PTL DEF Spec
-----------------------------------------------------------------------------
(* The push channel.  A push is handed over in its turn, to the connection  *)
(* its user made last.                                                      *)

Statuses == {c.new : c \in Calls}

(* How many pushes have left the queue. *)
Delivered == Len(pushed) - Len(queue)

(* Where what a user has received comes from.                               *)
ComesFrom(u, origin) ==
  /\ origin \in [ReceivedBy(u) -> {i \in 1..Delivered : pushed[i].to = u}]
  /\ \A x \in ReceivedBy(u) : received[connected[x[1]]][x[2]] = pushed[origin[x]].status
  /\ \A x, y \in ReceivedBy(u) : Before(x, y) => origin[x] < origin[y]

(* The gateway knows the connection that was made last. *)
LastConnection(u) ==
  clients[u] # None =>
    \E k \in DOMAIN connected :
      /\ connected[k] = clients[u] /\ UserOf[connected[k]] = u
      /\ \A h \in DOMAIN connected : UserOf[connected[h]] = u => h <= k

ConnectOnce ==
  /\ \A k \in DOMAIN connected : Connection(connected[k]) \notin todo
  /\ \A h, k \in DOMAIN connected : connected[h] = connected[k] => h = k
  /\ \A s \in Sockets : s \notin ToSet(connected) => received[s] = <<>>

QueueIsRest ==
  /\ queue \in Seq(Pushes) /\ pushed \in Seq(Pushes) /\ Len(queue) <= Len(pushed)
  /\ \A i \in 1..Len(queue) : queue[i] = pushed[Delivered + i]

Channel ==
  /\ clients \in [UserIds -> Sockets \cup {None}]
  /\ connected \in Seq(Sockets) /\ live \subseteq ToSet(connected)
  /\ received \in [Sockets -> Seq(Statuses)]
  /\ QueueIsRest /\ ConnectOnce
  /\ \A u \in UserIds : LastConnection(u) /\ \E origin : ComesFrom(u, origin)

LEMMA Receipts ==
  ASSUME NEW u, NEW x
  PROVE  x \in ReceivedBy(u) <=>
           \E k \in DOMAIN connected : \E n \in DOMAIN received[connected[k]] :
             UserOf[connected[k]] = u /\ x = <<k, n>>
BY DEF ReceivedBy

LEMMA ReceiptsAfter ==
  ASSUME NEW u, NEW x
  PROVE  x \in ReceivedBy(u)' <=>
           \E k \in DOMAIN connected' : \E n \in DOMAIN received'[connected'[k]] :
             UserOf[connected'[k]] = u /\ x = <<k, n>>
BY DEF ReceivedBy

LEMMA ChannelInit == Init => Channel
<1> SUFFICES ASSUME Init PROVE Channel
  OBVIOUS
<1>1. /\ queue = <<>> /\ pushed = <<>> /\ clients = [u \in UserIds |-> None]
      /\ live = {} /\ connected = <<>> /\ received = [s \in Sockets |-> <<>>]
  BY DEF Init, PushInit
<1>2. QueueIsRest
  BY <1>1 DEF QueueIsRest
<1>3. ConnectOnce
  BY <1>1 DEF ConnectOnce
<1>4. \A u \in UserIds : LastConnection(u)
  BY <1>1 DEF LastConnection
<1>5. ASSUME NEW u \in UserIds PROVE \E origin : ComesFrom(u, origin)
  <2>1. ReceivedBy(u) = {}
    BY <1>1 DEF ReceivedBy
  <2>2. PICK origin : origin \in [ReceivedBy(u) -> {i \in 1..Delivered : pushed[i].to = u}]
    <3>1. [x \in ReceivedBy(u) |-> 1] \in [ReceivedBy(u) -> {i \in 1..Delivered : pushed[i].to = u}]
      BY <2>1
    <3> QED BY <3>1
  <2>3. ComesFrom(u, origin)
    BY <2>1, <2>2 DEF ComesFrom
  <2> QED BY <2>3
<1>6. connected \in Seq(Sockets) /\ live \subseteq ToSet(connected) /\ received \in [Sockets -> Seq(Statuses)]
      /\ clients \in [UserIds -> Sockets \cup {None}]
  BY <1>1
<1> QED BY <1>2, <1>3, <1>4, <1>5, <1>6 DEF Channel

(* Nothing is handed over and nobody connects; pushes may be queued.        *)
LEMMA ChannelWaits ==
  ASSUME Channel, UNCHANGED <<clients, connected, received>>, live' \subseteq live, todo' \subseteq todo,
         \/ UNCHANGED <<queue, pushed>>
         \/ \E push \in Pushes : queue' = Append(queue, push) /\ pushed' = Append(pushed, push)
  PROVE  Channel'
<1>0. QueueIsRest /\ ConnectOnce /\ queue \in Seq(Pushes) /\ pushed \in Seq(Pushes)
  BY DEF Channel, QueueIsRest
<1>1. /\ QueueIsRest' /\ Delivered' = Delivered /\ Delivered \in Nat
      /\ \A i \in 1..Delivered : pushed'[i] = pushed[i]
  <2>1. CASE UNCHANGED <<queue, pushed>>
    BY <1>0, <2>1 DEF QueueIsRest, Delivered
  <2>2. ASSUME NEW push \in Pushes, queue' = Append(queue, push), pushed' = Append(pushed, push)
        PROVE  /\ QueueIsRest' /\ Delivered' = Delivered /\ Delivered \in Nat
               /\ \A i \in 1..Delivered : pushed'[i] = pushed[i]
    <3>1. /\ Len(queue') = Len(queue) + 1 /\ Len(pushed') = Len(pushed) + 1
          /\ Len(queue) \in Nat /\ Len(pushed) \in Nat /\ Len(queue) <= Len(pushed)
          /\ queue' \in Seq(Pushes) /\ pushed' \in Seq(Pushes)
      BY <1>0, <2>2 DEF QueueIsRest
    <3>2. Delivered' = Delivered /\ Delivered \in Nat /\ Delivered + Len(queue) = Len(pushed)
      BY <3>1 DEF Delivered
    <3>3. \A i \in 1..Len(pushed) : pushed'[i] = pushed[i]
      BY <1>0, <2>2
    <3>4. \A i \in 1..Len(queue') : queue'[i] = pushed'[Delivered + i]
      <4> SUFFICES ASSUME NEW i \in 1..Len(queue') PROVE queue'[i] = pushed'[Delivered + i]
        OBVIOUS
      <4>1. CASE i = Len(queue) + 1
        <5>1. Delivered + i = Len(pushed) + 1
          BY <3>1, <3>2, <4>1
        <5>2. queue'[Len(queue) + 1] = push /\ pushed'[Len(pushed) + 1] = push
          BY <1>0, <2>2
        <5> QED BY <4>1, <5>1, <5>2
      <4>2. CASE i # Len(queue) + 1
        <5>1. i \in 1..Len(queue) /\ Delivered + i \in 1..Len(pushed)
          BY <3>1, <3>2, <4>2
        <5>2. queue'[i] = queue[i] /\ queue[i] = pushed[Delivered + i]
          BY <1>0, <2>2, <5>1 DEF QueueIsRest
        <5> QED BY <3>3, <5>1, <5>2
      <4> QED BY <4>1, <4>2
    <3> QED BY <3>1, <3>2, <3>3, <3>4 DEF QueueIsRest
  <2> QED BY <2>1, <2>2
<1>2. ConnectOnce'
  BY <1>0 DEF ConnectOnce
<1>3. ASSUME NEW u \in UserIds PROVE (LastConnection(u) /\ \E origin : ComesFrom(u, origin))'
  <2>1. LastConnection(u) /\ \E origin : ComesFrom(u, origin)
    BY DEF Channel
  <2>2. PICK origin : ComesFrom(u, origin)
    BY <2>1
  <2>3. ReceivedBy(u)' = ReceivedBy(u)
    BY DEF ReceivedBy
  <2>4. ComesFrom(u, origin)'
    BY <1>1, <2>2, <2>3 DEF ComesFrom
  <2> QED BY <2>1, <2>4 DEF LastConnection
<1> QED BY <1>1, <1>2, <1>3 DEF Channel
(* A new connection has received nothing yet. *)
LEMMA ChannelConnects ==
  ASSUME Channel, NEW s \in Sockets, HandleConnection(s)
  PROVE  Channel'
<1>0. /\ QueueIsRest /\ ConnectOnce /\ connected \in Seq(Sockets) /\ Len(connected) \in Nat
      /\ received \in [Sockets -> Seq(Statuses)]
      /\ clients \in [UserIds -> Sockets \cup {None}]
      /\ live \subseteq ToSet(connected)
  BY DEF Channel
<1>1. /\ connected' = Append(connected, s) /\ clients' = [clients EXCEPT ![UserOf[s]] = s]
      /\ live' = live \cup {s} /\ todo' = todo \ {Connection(s)} /\ Connection(s) \in todo
      /\ UNCHANGED <<queue, pushed, received>>
  BY DEF HandleConnection
<1> DEFINE last == Len(connected) + 1
<1>2. /\ connected' \in Seq(Sockets) /\ DOMAIN connected = 1..Len(connected) /\ DOMAIN connected' = 1..last
      /\ last \in Nat /\ last \in DOMAIN connected' /\ connected'[last] = s
      /\ \A k \in DOMAIN connected : k \in DOMAIN connected' /\ connected'[k] = connected[k] /\ k < last
      /\ \A k \in DOMAIN connected' : k = last \/ k \in DOMAIN connected
  BY <1>0, <1>1
<1> HIDE DEF last
<1>3. \A k \in DOMAIN connected : connected[k] \in Sockets /\ connected[k] # s
  BY <1>0, <1>1, Elements DEF ConnectOnce
<1>4. received[s] = <<>>
  BY <1>0, <1>3 DEF ConnectOnce, ToSet
<1>5. QueueIsRest' /\ Delivered' = Delivered
  BY <1>0, <1>1 DEF QueueIsRest, Delivered
<1>6. ConnectOnce'
  <2>1. \A k \in DOMAIN connected' : Connection(connected'[k]) \notin todo'
    <3>1. \A k \in DOMAIN connected : Connection(connected[k]) \notin todo
      BY <1>0 DEF ConnectOnce
    <3> QED BY <1>1, <1>2, <3>1
  <2>2. \A h, k \in DOMAIN connected' : connected'[h] = connected'[k] => h = k
    <3>1. \A h, k \in DOMAIN connected : connected[h] = connected[k] => h = k
      BY <1>0 DEF ConnectOnce
    <3> QED BY <1>2, <1>3, <3>1
  <2>3. \A z \in Sockets : z \notin ToSet(connected') => received'[z] = <<>>
    <3>1. ToSet(connected) \subseteq ToSet(connected')
      BY <1>2 DEF ToSet
    <3> QED BY <1>0, <1>1, <3>1 DEF ConnectOnce
  <2>4. ToSet(connected)' = ToSet(connected')
    BY DEF ToSet
  <2> QED BY <2>1, <2>2, <2>3, <2>4 DEF ConnectOnce, Connection
<1>7. UserOf[s] \in UserIds /\ clients' \in [UserIds -> Sockets \cup {None}]
      /\ \A u \in UserIds : clients'[u] = IF u = UserOf[s] THEN s ELSE clients[u]
  BY <1>0, <1>1 DEF UserIds
<1>8. live' \subseteq ToSet(connected)'
  <2>1. s \in ToSet(connected')
    BY <1>2 DEF ToSet
  <2>2. ToSet(connected) \subseteq ToSet(connected')
    BY <1>2 DEF ToSet
  <2>3. ToSet(connected)' = ToSet(connected')
    BY DEF ToSet
  <2> QED BY <1>0, <1>1, <2>1, <2>2, <2>3
<1>9. ASSUME NEW u \in UserIds PROVE LastConnection(u)'
  <2>1. CASE u = UserOf[s]
    <3>1. /\ last \in DOMAIN connected' /\ connected'[last] = clients'[u] /\ UserOf[connected'[last]] = u
          /\ \A h \in DOMAIN connected' : h <= last
      BY <1>2, <1>7, <2>1
    <3> QED BY <3>1 DEF LastConnection
  <2>2. CASE u # UserOf[s]
    <3>1. clients'[u] = clients[u] /\ LastConnection(u)
      BY <1>7, <2>2 DEF Channel
    <3>2. ASSUME clients'[u] # None
          PROVE  \E k \in DOMAIN connected' :
                   /\ connected'[k] = clients'[u] /\ UserOf[connected'[k]] = u
                   /\ \A h \in DOMAIN connected' : UserOf[connected'[h]] = u => h <= k
      <4>1. PICK k \in DOMAIN connected :
              /\ connected[k] = clients[u] /\ UserOf[connected[k]] = u
              /\ \A h \in DOMAIN connected : UserOf[connected[h]] = u => h <= k
        BY <3>1, <3>2 DEF LastConnection
      <4>2. k \in DOMAIN connected' /\ connected'[k] = clients'[u] /\ UserOf[connected'[k]] = u
        BY <1>2, <3>1, <4>1
      <4>3. \A h \in DOMAIN connected' : UserOf[connected'[h]] = u => h <= k
        BY <1>2, <2>2, <4>1
      <4> QED BY <4>2, <4>3
    <3> QED BY <3>2 DEF LastConnection
  <2> QED BY <2>1, <2>2
<1>10. ASSUME NEW u \in UserIds PROVE (\E origin : ComesFrom(u, origin))'
  <2>1. PICK origin : ComesFrom(u, origin)
    BY DEF Channel
  <2>2. ASSUME NEW x PROVE x \in ReceivedBy(u)' <=> x \in ReceivedBy(u)
    <3>1. DOMAIN received[s] = {} /\ received' = received
      BY <1>1, <1>4
    <3>2. x \in ReceivedBy(u)' <=> \E k \in DOMAIN connected' : \E n \in DOMAIN received[connected'[k]] :
                                     UserOf[connected'[k]] = u /\ x = <<k, n>>
      BY <3>1, ReceiptsAfter
    <3>3. x \in ReceivedBy(u) <=> \E k \in DOMAIN connected : \E n \in DOMAIN received[connected[k]] :
                                     UserOf[connected[k]] = u /\ x = <<k, n>>
      BY Receipts
    <3>4. \A k \in DOMAIN connected' : k \notin DOMAIN connected => DOMAIN received[connected'[k]] = {}
      BY <1>2, <3>1
    <3> QED BY <1>2, <3>2, <3>3, <3>4
  <2>3. ReceivedBy(u)' = ReceivedBy(u)
    BY <2>2
  <2>4. \A x \in ReceivedBy(u) : connected'[x[1]] = connected[x[1]]
    BY <1>2, Receipts
  <2>5. ComesFrom(u, origin)'
    BY <1>1, <1>5, <2>1, <2>3, <2>4 DEF ComesFrom
  <2> QED BY <2>5
<1> QED BY <1>0, <1>1, <1>2, <1>5, <1>6, <1>7, <1>8, <1>9, <1>10 DEF Channel

(* The next push is handed over: it is lost, or it is the last its user has *)
(* received.                                                                *)
LEMMA ChannelDelivers ==
  ASSUME Channel, Deliver
  PROVE  Channel'
<1>0. /\ QueueIsRest /\ ConnectOnce /\ connected \in Seq(Sockets)
      /\ received \in [Sockets -> Seq(Statuses)]
      /\ live \subseteq ToSet(connected) /\ clients \in [UserIds -> Sockets \cup {None}]
  BY DEF Channel
<1>1. /\ queue # <<>> /\ queue' = Tail(queue)
      /\ UNCHANGED <<todo, pushed, clients, live, connected>>
      /\ received' = IF clients[Head(queue).to] \in live
                       THEN [received EXCEPT ![clients[Head(queue).to]] = Append(@, Head(queue).status)]
                       ELSE received
  BY DEF Deliver, SentOnce, poolVars
<1>2. /\ QueueIsRest' /\ Delivered' = Delivered + 1 /\ Delivered \in Nat
      /\ Delivered + 1 \in DOMAIN pushed /\ Head(queue) = pushed[Delivered + 1]
      /\ Head(queue) \in Pushes
  <2>1. queue \in Seq(Pushes) /\ pushed \in Seq(Pushes) /\ Len(queue) \in Nat /\ Len(pushed) \in Nat
        /\ Len(queue) <= Len(pushed)
        /\ \A n \in 1..Len(queue) : queue[n] = pushed[Delivered + n]
    BY <1>0 DEF QueueIsRest
  <2>2. Len(queue) # 0 /\ queue' \in Seq(Pushes) /\ Len(queue') = Len(queue) - 1
        /\ \A n \in 1..(Len(queue) - 1) : queue'[n] = queue[n + 1]
    BY <1>1, <2>1
  <2>3. Delivered + Len(queue) = Len(pushed) /\ Delivered \in Nat /\ Delivered' = Delivered + 1
    BY <1>1, <2>1, <2>2 DEF Delivered
  <2>4. Head(queue) = queue[1] /\ 1 \in 1..Len(queue)
    BY <2>1, <2>2
  <2>5. Delivered + 1 \in DOMAIN pushed /\ Head(queue) = pushed[Delivered + 1] /\ Head(queue) \in Pushes
    <3>1. Delivered + 1 \in 1..Len(pushed)
      BY <2>1, <2>2, <2>3
    <3> QED BY <2>1, <2>4, <3>1
  <2>6. \A n \in 1..Len(queue') : queue'[n] = pushed'[Delivered' + n]
    <3> SUFFICES ASSUME NEW n \in 1..Len(queue') PROVE queue'[n] = pushed'[Delivered' + n]
      OBVIOUS
    <3>1. n \in 1..(Len(queue) - 1) /\ n + 1 \in 1..Len(queue) /\ Delivered' + n = Delivered + (n + 1)
      BY <2>1, <2>2, <2>3
    <3> QED BY <1>1, <2>1, <2>2, <3>1
  <2>7. Len(queue') <= Len(pushed')
    BY <1>1, <2>1, <2>2
  <2> QED BY <1>1, <2>1, <2>2, <2>3, <2>5, <2>6, <2>7 DEF QueueIsRest
<1>3. PICK push \in Pushes : push = Head(queue) /\ push = pushed[Delivered + 1]
  BY <1>2
<1>4. push.status \in Statuses /\ push.to \in UserIds
  BY DEF Pushes, UserIds, Statuses
<1>5. \A u \in UserIds : LastConnection(u)'
  BY <1>1 DEF Channel, LastConnection
<1>6. CASE clients[push.to] \notin live
  <2>1. received' = received
    BY <1>1, <1>3, <1>6
  <2>2. ConnectOnce'
    BY <1>0, <1>1, <2>1 DEF ConnectOnce, Connection
  <2>3. ASSUME NEW u \in UserIds PROVE (\E origin : ComesFrom(u, origin))'
    <3>1. PICK origin : ComesFrom(u, origin)
      BY DEF Channel
    <3>2. ReceivedBy(u)' = ReceivedBy(u)
      BY <1>1, <2>1 DEF ReceivedBy
    <3>3. {n \in 1..Delivered : pushed[n].to = u} \subseteq {n \in 1..Delivered' : pushed'[n].to = u}
      BY <1>1, <1>2
    <3>4. ComesFrom(u, origin)'
      BY <1>1, <2>1, <3>1, <3>2, <3>3 DEF ComesFrom
    <3> QED BY <3>4
  <2> QED BY <1>0, <1>1, <1>2, <1>5, <2>1, <2>2, <2>3 DEF Channel
<1>7. CASE clients[push.to] \in live
  <2>1. PICK k \in DOMAIN connected :
          /\ connected[k] = clients[push.to] /\ UserOf[connected[k]] = push.to
          /\ \A h \in DOMAIN connected : UserOf[connected[h]] = push.to => h <= k
    <3>1. clients[push.to] # None
      BY <1>0, <1>7, Elements, PushAssumption DEF ToSet
    <3> QED BY <1>4, <3>1 DEF Channel, LastConnection
  <2>2. PICK s \in Sockets : s = clients[push.to] /\ s = connected[k]
    BY <1>0, <2>1, Elements
  <2>3. /\ received' = [received EXCEPT ![s] = Append(received[s], push.status)]
        /\ received[s] \in Seq(Statuses)
    BY <1>0, <1>1, <1>3, <1>7, <2>2
  <2>4. PICK m \in Nat : DOMAIN received[s] = 1..m /\ m = Len(received[s])
    BY <2>3
  <2>5. /\ received' \in [Sockets -> Seq(Statuses)]
        /\ \A z \in Sockets : z # s => received'[z] = received[z]
        /\ DOMAIN received'[s] = 1..(m + 1) /\ received'[s][m + 1] = push.status
        /\ \A n \in 1..m : received'[s][n] = received[s][n]
    BY <1>0, <1>4, <2>3, <2>4
  <2>6. \A h \in DOMAIN connected : connected[h] \in Sockets /\ (connected[h] = s => h = k)
    BY <1>0, <2>2, Elements DEF ConnectOnce
  <2>7. ConnectOnce'
    <3>1. s \in ToSet(connected)
      BY <2>2 DEF ToSet
    <3> QED BY <1>0, <1>1, <2>5, <3>1 DEF ConnectOnce, Connection
  <2>8. ASSUME NEW u, NEW x
        PROVE  x \in ReceivedBy(u)' <=> x \in ReceivedBy(u) \/ (u = push.to /\ x = <<k, m + 1>>)
    <3>1. x \in ReceivedBy(u)' <=> \E h \in DOMAIN connected : \E n \in DOMAIN received'[connected[h]] :
                                     UserOf[connected[h]] = u /\ x = <<h, n>>
      BY <1>1, ReceiptsAfter
    <3>2. x \in ReceivedBy(u) <=> \E h \in DOMAIN connected : \E n \in DOMAIN received[connected[h]] :
                                     UserOf[connected[h]] = u /\ x = <<h, n>>
      BY Receipts
    <3>3. \A h \in DOMAIN connected : h # k => received'[connected[h]] = received[connected[h]]
      BY <2>5, <2>6
    <3>4. \A n : n \in DOMAIN received'[s] <=> n \in DOMAIN received[s] \/ n = m + 1
      BY <2>4, <2>5
    <3> QED BY <2>1, <2>2, <3>1, <3>2, <3>3, <3>4
  <2>9. ASSUME NEW u \in UserIds PROVE (\E origin : ComesFrom(u, origin))'
    <3>1. PICK origin : ComesFrom(u, origin)
      BY DEF Channel
    <3>2. ASSUME NEW x \in ReceivedBy(u)
          PROVE  received'[connected'[x[1]]][x[2]] = received[connected[x[1]]][x[2]]
      <4>1. PICK h \in DOMAIN connected : \E n \in DOMAIN received[connected[h]] : x = <<h, n>>
        BY <3>2, Receipts
      <4>a. PICK n \in DOMAIN received[connected[h]] : x = <<h, n>>
        BY <4>1
      <4>2. received'[connected[h]][n] = received[connected[h]][n]
        BY <2>2, <2>4, <2>5, <2>6, <4>a
      <4> QED BY <1>1, <4>a, <4>2
    <3>3. \A n \in 1..Delivered : n \in 1..Delivered' /\ n < Delivered' /\ pushed'[n] = pushed[n]
      BY <1>1, <1>2
    <3>4. /\ \A x \in ReceivedBy(u) : origin[x] \in 1..Delivered /\ pushed[origin[x]].to = u
          /\ \A x \in ReceivedBy(u) : received[connected[x[1]]][x[2]] = pushed[origin[x]].status
          /\ \A x, y \in ReceivedBy(u) : Before(x, y) => origin[x] < origin[y]
          /\ origin \in [ReceivedBy(u) -> {n \in 1..Delivered : pushed[n].to = u}]
      BY <3>1 DEF ComesFrom
    <3>5. CASE u # push.to
      <4>a. \A x : x \in ReceivedBy(u)' <=> x \in ReceivedBy(u)
        BY <2>8, <3>5
      <4>1. ReceivedBy(u)' = ReceivedBy(u)
        BY <4>a
      <4>2. {n \in 1..Delivered : pushed[n].to = u} \subseteq {n \in 1..Delivered' : pushed'[n].to = u}
        BY <3>3
      <4>3. \A x \in ReceivedBy(u) : received'[connected'[x[1]]][x[2]] = pushed'[origin[x]].status
        BY <3>2, <3>3, <3>4
      <4>4. ComesFrom(u, origin)'
        BY <3>4, <4>1, <4>2, <4>3 DEF ComesFrom, Before
      <4> QED BY <4>4
    <3>6. CASE u = push.to
      <4> DEFINE new == <<k, m + 1>>
                 o == [x \in ReceivedBy(u)' |-> IF x = new THEN Delivered' ELSE origin[x]]
      <4>1. /\ \A x \in ReceivedBy(u) : x # new
            /\ \A x \in ReceivedBy(u) : ~Before(new, x)
        <5>1. ASSUME NEW x \in ReceivedBy(u) PROVE x # new /\ ~Before(new, x)
          <6>a. PICK h \in DOMAIN connected : \E n \in DOMAIN received[connected[h]] :
                  UserOf[connected[h]] = u /\ x = <<h, n>>
            BY <5>1, Receipts
          <6>1. PICK n \in DOMAIN received[connected[h]] : x = <<h, n>> /\ UserOf[connected[h]] = u
            BY <6>a
          <6>2. h <= k /\ h \in Nat /\ k \in Nat
            BY <1>0, <2>1, <3>6, <6>1
          <6>3. h = k => n \in 1..m
            BY <2>2, <2>4, <6>1
          <6> QED BY <6>1, <6>2, <6>3 DEF Before
        <5> QED BY <5>1
      <4>2. \A x : x \in ReceivedBy(u)' <=> x \in ReceivedBy(u) \/ x = new
        BY <2>8, <3>6
      <4>3. pushed'[Delivered'] = push /\ Delivered' \in 1..Delivered' /\ Delivered' \in Nat
        BY <1>1, <1>2, <1>3
      <4>4. o[new] = Delivered' /\ \A x \in ReceivedBy(u) : o[x] = origin[x]
        BY <4>1, <4>2
      <4>5. o \in [ReceivedBy(u)' -> {n \in 1..Delivered' : pushed'[n].to = u}]
        <5>1. \A x \in ReceivedBy(u)' : o[x] \in {n \in 1..Delivered' : pushed'[n].to = u}
          <6> HIDE DEF o
          <6> QED BY <3>3, <3>4, <3>6, <4>2, <4>3, <4>4
        <5> QED BY <5>1
      <4>6. \A x \in ReceivedBy(u)' : received'[connected'[x[1]]][x[2]] = pushed'[o[x]].status
        <5>1. received'[connected'[new[1]]][new[2]] = push.status
          BY <1>1, <2>2, <2>5
        <5> HIDE DEF o, new
        <5> QED BY <3>2, <3>3, <3>4, <4>2, <4>3, <4>4, <5>1
      <4>7. \A x, y \in ReceivedBy(u)' : Before(x, y) => o[x] < o[y]
        <5>1. ~Before(new, new)
          BY <2>4 DEF Before
        <5>2. \A x \in ReceivedBy(u) : o[x] < Delivered'
          BY <3>3, <3>4, <4>4
        <5> HIDE DEF o, new
        <5> QED BY <3>4, <4>1, <4>2, <4>4, <5>1, <5>2
      <4> HIDE DEF o, new
      <4>9. PICK g : g = o
        OBVIOUS
      <4>8. ComesFrom(u, g)'
        BY <4>5, <4>6, <4>7, <4>9 DEF ComesFrom, Before
      <4> QED BY <4>8
    <3> QED BY <3>5, <3>6
  <2> QED BY <1>0, <1>1, <1>2, <1>5, <2>5, <2>7, <2>9 DEF Channel
<1> QED BY <1>6, <1>7

LEMMA ChannelKept ==
  ASSUME Inv, Channel, [Next]_vars
  PROVE  Channel'
<1>1. ASSUME NEW w \in Workers, PushStep(w) PROVE Channel'
  <2>1. UNCHANGED <<todo, clients, live, connected, received>>
    BY <1>1 DEF PushStep, OpenStatus, CheckStatus, UpdateStatus, CommitStatus,
                OpenUpdate, FindAppointment, UpdatePartial, CommitUpdate,
                Open, Reads, ReadsOutside, Writes, ThrowsAt, Throw, Commit, pushVars
  <2>2. CASE UpdateStatus(w)
    <3>1. PICK push : /\ push = [to |-> Addressee(job[w].call.new), status |-> job[w].call.new]
                      /\ queue' = Append(queue, push) /\ pushed' = Append(pushed, push)
      BY <2>2 DEF UpdateStatus, Enqueue
    <3>2. job[w].call \in Calls
      BY <2>2 DEF UpdateStatus, Runs, Busy, Inv, JobOK
    <3>3. push \in Pushes
      BY <3>1, <3>2 DEF Pushes, Addressee
    <3> QED BY <2>1, <3>1, <3>3, ChannelWaits
  <2>3. CASE ~UpdateStatus(w)
    <3>1. UNCHANGED <<queue, pushed>>
      BY <1>1, <2>3 DEF PushStep, OpenStatus, CheckStatus, CommitStatus, OpenUpdate, FindAppointment,
                        UpdatePartial, CommitUpdate, pushVars
    <3> QED BY <2>1, <3>1, ChannelWaits
  <2> QED BY <2>2, <2>3
<1>2. ASSUME UNCHANGED pushVars, todo' \subseteq todo PROVE Channel'
  BY <1>2, ChannelWaits DEF pushVars
<1>3. ASSUME NEW w \in Workers, Proceed(w) PROVE Channel'
  <2>1. CASE StockStep(w) /\ UNCHANGED pushVars
    <3>1. todo' = todo
      BY <2>1 DEF StockStep, OpenParts, ReadStock, TakePart, CommitParts,
                  Open, ReadsOutside, Writes, ThrowsAt, Throw, Commit
    <3> QED BY <1>2, <2>1, <3>1
  <2>2. CASE (WaitedTooLong(w) \/ IsClosed(w) \/ BreakDeadlock(w)) /\ UNCHANGED <<stockVars, pushVars>>
    BY <1>2, <2>2 DEF WaitedTooLong, IsClosed, BreakDeadlock, Throw
  <2> QED BY <1>1, <1>3, <2>1, <2>2 DEF Proceed
<1>4. ASSUME NEW w \in Workers, NEW c \in todo, Arrive(w, c), UNCHANGED pushVars PROVE Channel'
  BY <1>2, <1>4 DEF Arrive
<1>5. ASSUME NEW w \in Workers, TimeOut(w) PROVE Channel'
  BY <1>2, <1>5 DEF TimeOut, Expire
<1>6. CASE QuoteAndConfirm \/ AdminConfirm
  BY <1>6, ChannelWaits DEF QuoteAndConfirm, AdminConfirm, poolVars
<1>7. ASSUME NEW s \in Sockets, Disconnect(s) PROVE Channel'
  BY <1>7, ChannelWaits DEF Disconnect, poolVars
<1>8. CASE UNCHANGED vars
  BY <1>2, <1>8 DEF vars, poolVars
<1> QED BY <1>1, <1>3, <1>4, <1>5, <1>6, <1>7, <1>8, ChannelConnects, ChannelDelivers DEF Next, PushEnvironment

LEMMA ChannelInvariance == Spec => []Channel
<1>1. Inv /\ Channel /\ [Next]_vars => Channel'
  BY ChannelKept
<1> QED BY <1>1, ChannelInit, Invariance, PTL DEF Spec

-----------------------------------------------------------------------------
(* Standstill.  A request that waits for its first connection holds none,   *)
(* so when no connection is left, those that hold one are outside their     *)
(* transaction, or they wait for locks; the latter wait for each other.     *)
LEMMA StandstillExplained ==
  ASSUME Inv, Slots
  PROVE  StandstillIsExplained
<1> DEFINE busy == {w \in Workers : Busy(w)}
           stuck == {w \in busy : job[w].open /\ ~Outside(w)}
<1> SUFFICES ASSUME busy # {}, \A w \in busy : Blocked(w),
                    ~ \E S \in SUBSET busy : Deadlocked(S)
             PROVE  Cardinality({w \in busy : job[w].open /\ Outside(w)}) = poolSize
  BY DEF StandstillIsExplained
<1>1. ASSUME NEW w \in Workers, NEW u \in Workers, WaitsFor(w, u)
      PROVE  u \in busy /\ job[u].open /\ ~Outside(u)
  <2>1. PICK r \in Wanted(w) : locked[r] = u
    BY <1>1 DEF WaitsFor
  <2>2. r \in Rows
    <3>1. CASE job[w].at = "part"
      <4>1. JobOK(job[w])
        BY DEF Inv
      <4>2. /\ job[w].call \in Calls /\ job[w].call.kind = "parts"
            /\ job[w].items \subseteq DOMAIN job[w].call.list
        BY <3>1, <4>1 DEF JobOK, InOrder, NextItems
      <4>3. \E n \in job[w].items : r = job[w].call.list[n].part
        BY <2>1, <3>1 DEF Wanted
      <4> QED BY <4>2, <4>3, Lists, StockAssumption
    <3>2. CASE job[w].at # "part"
      BY <2>1, <3>2, StockAssumption DEF Wanted
    <3> QED BY <3>1, <3>2
  <2>3. job[u].at \in {"part", "commit"} /\ job[u].open
    BY <2>1, <2>2 DEF Inv, LockOK, Slots, Connections
  <2> QED BY <2>3 DEF Outside, Busy
<1>2. stuck = {}
  <2> SUFFICES ASSUME stuck # {} PROVE FALSE
    OBVIOUS
  <2>1. ASSUME NEW w \in stuck PROVE \E u \in stuck : WaitsFor(w, u)
    <3>1. w \in busy /\ job[w].open /\ ~Outside(w) /\ Blocked(w) /\ SlotOK(w)
      BY DEF Slots
    <3>2. job[w].at # "begin"
      BY <3>1 DEF SlotOK
    <3>3. PICK u \in Workers : WaitsFor(w, u)
      BY <3>1, <3>2 DEF Blocked
    <3> QED BY <1>1, <3>1, <3>3
  <2>2. stuck \in SUBSET busy /\ Deadlocked(stuck)
    BY <2>1 DEF Deadlocked
  <2> QED BY <2>2
<1>3. ~FreeConnection
  <2>1. ~Deadlocked(busy) /\ busy \in SUBSET busy
    OBVIOUS
  <2>2. PICK w \in busy : ~ \E u \in busy : WaitsFor(w, u)
    BY <2>1 DEF Deadlocked
  <2>3. \A u \in Workers : ~WaitsFor(w, u)
    BY <1>1, <2>2
  <2> QED BY <2>2, <2>3 DEF Blocked
<1>4. Opened = {w \in busy : job[w].open /\ Outside(w)}
  <2>1. \A w \in Workers : job[w].open => Busy(w)
    BY DEF Slots, SlotOK, Busy, Idle
  <2>2. \A w \in Opened : w \in busy /\ job[w].open /\ Outside(w)
    BY <1>2, <2>1 DEF Opened
  <2> QED BY <2>2 DEF Opened
<1>5. Cardinality(Opened) <= poolSize /\ ~(Cardinality(Opened) < poolSize)
  BY <1>3 DEF Slots, Connections, FreeConnection, Opened
<1>6. Cardinality(Opened) \in Nat /\ poolSize \in Nat
  BY FS_CardinalityType, PoolAssumption DEF Slots, Connections, OfInstance
<1> QED BY <1>4, <1>5, <1>6

(* The slots, the pool, the stock and the sockets keep their types, for any *)
(* number of them (addSpareParts, customerUpdate, updateAppointmentStatus,  *)
(* SocketGateway).                                                          *)
THEOREM TransactionsTypeCorrect == Spec => []TypeOK
<1>1. Inv /\ Slots /\ Channel => TypeOK
  <2> SUFFICES ASSUME Inv, Slots, Channel PROVE TypeOK
    OBVIOUS
  <2>1. \E i \in Instances : poolSize = i.connections /\ todo \cup committed \subseteq i.calls
    BY DEF Slots, OfInstance
  <2>2. \A w \in Workers : job[w].at \in Steps /\ job[w].open \in BOOLEAN
    BY DEF Slots, SlotOK
  <2>3. \A n \in DOMAIN queue : queue[n].to \in UserIds
    <3>1. \A n \in DOMAIN queue : queue[n] \in Pushes
      BY Elements DEF Channel, QueueIsRest
    <3> QED BY <3>1 DEF Pushes, UserIds
  <2>4. DOMAIN received = Sockets /\ live \subseteq ToSet(connected)
        /\ clients \in [UserIds -> Sockets \cup {None}]
    BY DEF Channel
  <2> QED BY <2>1, <2>2, <2>3, <2>4 DEF TypeOK, Inv, Slots
<1> QED BY <1>1, SlotsInvariance, ChannelInvariance, PTL

(* Requests stand still for the two known reasons only: transactions that   *)
(* need a second connection hold all of them, or transactions wait for each *)
(* other's rows; for every pool and any number of requests, finite or not   *)
(* (appointments.service.ts:630, :676, :849, :866).                         *)
THEOREM StandstillHasACause == Spec => []StandstillIsExplained
<1>1. Inv /\ Slots => StandstillIsExplained
  BY StandstillExplained
<1> QED BY <1>1, SlotsInvariance, PTL

(* What a user receives over all his connections is part of what was pushed *)
(* to him, in that order, nothing twice, for any number of users, sockets   *)
(* and pushes (SocketGateway.handleConnection, sendToUser).                 *)
THEOREM PushesArriveInOrder == Spec => []ReceivedInOrder
<1>1. Channel => ReceivedInOrder
  <2> SUFFICES ASSUME Channel, NEW u \in UserIds
               PROVE  \E origin \in [ReceivedBy(u) -> {n \in DOMAIN pushed : pushed[n].to = u}] :
                        /\ \A x \in ReceivedBy(u) : received[connected[x[1]]][x[2]] = pushed[origin[x]].status
                        /\ \A x, y \in ReceivedBy(u) : Before(x, y) => origin[x] < origin[y]
    BY DEF ReceivedInOrder
  <2>1. PICK origin : ComesFrom(u, origin)
    BY DEF Channel
  <2>2. {n \in 1..Delivered : pushed[n].to = u} \subseteq {n \in DOMAIN pushed : pushed[n].to = u}
    <3>1. Len(queue) \in Nat /\ Len(pushed) \in Nat /\ DOMAIN pushed = 1..Len(pushed) /\ Len(queue) <= Len(pushed)
      BY DEF Channel, QueueIsRest
    <3>2. Delivered <= Len(pushed) /\ Delivered \in Int
      BY <3>1 DEF Delivered
    <3> QED BY <3>1, <3>2
  <2> QED BY <2>1, <2>2 DEF ComesFrom
<1> QED BY <1>1, ChannelInvariance, PTL

-----------------------------------------------------------------------------
(* The stock.  A commit takes of every part what its list asks for, and a   *)
(* call is committed once.                                                  *)

Balance == \A p \in Parts : stock[p] + TakenOf(p, committed) = InitialStock[p]

(* A request that has its connection shares a part with another such        *)
(* request only if the part is noted.                                       *)
Apart ==
  \A w, u \in Workers :
    w # u /\ job[w].at \notin {"idle", "begin"} /\ job[u].at \notin {"idle", "begin"} =>
      Named(job[w].call) \cap Named(job[u].call) \subseteq contended

(* The stock of a part that is not noted is what the request has read.      *)
StillSeen(w) ==
  job[w].at \in {"part", "commit"} /\ job[w].call.kind = "parts" =>
    \A p \in Named(job[w].call) : p \in contended \/ job[w].seen[p] = stock[p]

SeenStands == \A w \in Workers : StillSeen(w)

(* What a commit of a list does to the stock of a part. *)
LEMMA CommitTakes ==
  ASSUME Slots, NEW w \in Workers, Ends(w), committed' # committed
  PROVE  /\ Busy(w) /\ job[w].at = "commit" /\ committed' = committed \cup {job[w].call}
         /\ \A p \in Parts :
              stock'[p] = IF p \in Named(job[w].call) THEN stock[p] - Quantity(job[w].call, p) ELSE stock[p]
<1>1. /\ Busy(w) /\ job[w].at = "commit" /\ committed' = committed \cup {job[w].call}
      /\ \/ job[w].call.kind # "parts" /\ stock' = stock
         \/ stock' = [p \in Parts |-> IF p \in Named(job[w].call) THEN StockAfter(w, p) ELSE stock[p]]
  BY DEF Ends, Busy
<1>2. CASE job[w].call.kind # "parts" /\ stock' = stock
  BY <1>1, <1>2 DEF Named
<1>3. CASE stock' = [p \in Parts |-> IF p \in Named(job[w].call) THEN StockAfter(w, p) ELSE stock[p]]
  BY <1>1, <1>3 DEF StockAfter
<1> QED BY <1>1, <1>2, <1>3

(* Every other step leaves the stock alone. *)
LEMMA StockStays ==
  ASSUME Slots, Shape, ~ \E w \in Workers : Ends(w) /\ committed' # committed
  PROVE  stock' = stock /\ committed' = committed
<1>1. ASSUME NEW w \in Workers, Ends(w) PROVE stock' = stock /\ committed' = committed
  <2>1. committed' = committed
    BY <1>1
  <2>2. CASE UNCHANGED <<committed, stock>>
    BY <2>2
  <2>3. CASE ~UNCHANGED <<committed, stock>>
    <3>1. Busy(w) /\ committed' = committed \cup {job[w].call}
      BY <1>1, <2>3 DEF Ends, Busy
    <3> QED BY <2>1, <3>1, UnderWay
  <2> QED BY <2>2, <2>3
<1> QED BY <1>1 DEF Shape, Stands, Arrives, Continues, Expires

LEMMA BalanceInit == Init => Balance
<1> SUFFICES ASSUME Init, NEW p \in Parts PROVE stock[p] + TakenOf(p, committed) = InitialStock[p]
  BY DEF Balance
<1>1. stock = InitialStock /\ committed = {} /\ InitialStock[p] \in Nat
  BY StockAssumption DEF Init, PoolInit, StockInit
<1>2. TakenOf(p, {}) = SumOf([c \in Calls |-> Quantity(c, p)], {})
  <2>1. {} \in SUBSET Calls /\ IsFiniteSet({}) /\ {c \in {} : p \in Named(c)} = {}
    BY FS_EmptySet
  <2> QED BY <2>1, TakenIsSum
<1>3. TakenOf(p, {}) = 0
  BY <1>2, SumEmpty
<1> QED BY <1>1, <1>3

LEMMA BalanceAfter ==
  ASSUME Inv, Slots, Shape, Balance
  PROVE  Balance'
<1> SUFFICES ASSUME NEW p \in Parts PROVE stock'[p] + TakenOf(p, committed') = InitialStock[p]
  BY DEF Balance
<1>1. stock[p] + TakenOf(p, committed) = InitialStock[p] /\ stock[p] \in Int
  BY DEF Balance, Slots
<1>2. CASE ~ \E w \in Workers : Ends(w) /\ committed' # committed
  BY <1>1, <1>2, StockStays
<1>3. ASSUME NEW w \in Workers, Ends(w), committed' # committed
      PROVE  stock'[p] + TakenOf(p, committed') = InitialStock[p]
  <2>1. PICK c : c = job[w].call
    OBVIOUS
  <2>2. /\ Busy(w) /\ committed' = committed \cup {c}
        /\ stock'[p] = IF p \in Named(c) THEN stock[p] - Quantity(c, p) ELSE stock[p]
    BY <1>3, <2>1, CommitTakes
  <2>3. committed \in SUBSET Calls /\ IsFiniteSet(committed) /\ c \in Calls /\ c \notin committed
    BY <2>1, <2>2, UnderWay
  <2>4. /\ TakenOf(p, committed) \in Nat
        /\ TakenOf(p, committed') = TakenOf(p, committed) + (IF p \in Named(c) THEN Quantity(c, p) ELSE 0)
    BY <2>2, <2>3, TakenGrows
  <2>5. p \in Named(c) => Quantity(c, p) \in Nat
    BY <2>1, <2>2, StockAfterCommit
  <2>6. \A a \in Int, b, q \in Nat : (a - q) + (b + q) = a + b /\ a + (b + 0) = a + b
    OBVIOUS
  <2>7. CASE p \in Named(c)
    BY <1>1, <2>2, <2>4, <2>5, <2>6, <2>7
  <2>8. CASE p \notin Named(c)
    BY <1>1, <2>2, <2>4, <2>6, <2>8
  <2> QED BY <2>7, <2>8
<1> QED BY <1>2, <1>3

LEMMA ContendedGrows ==
  ASSUME Shape
  PROVE  contended \subseteq contended'
BY DEF Shape, Stands, Arrives, Continues, Expires, Ends

LEMMA ApartAfter ==
  ASSUME Inv, Slots, Shape, Apart
  PROVE  Apart'
<1>0. contended \subseteq contended'
  BY ContendedGrows
<1> DEFINE Past(w) == job[w].at \notin {"idle", "begin"}
<1>1. ASSUME \A w \in Workers : Past(w)' => Past(w) /\ job'[w].call = job[w].call
      PROVE  Apart'
  BY <1>0, <1>1 DEF Apart
<1>2. ASSUME NEW w \in Workers, NEW c \in todo, Arrives(w, c) PROVE Apart'
  <2>1. PICK j : j = [at |-> "begin", call |-> c, open |-> FALSE]
    OBVIOUS
  <2>2. job' = [job EXCEPT ![w] = j] /\ j.at = "begin"
    BY <1>2, <2>1 DEF Arrives
  <2>3. \A u \in Workers : job'[u] = IF u = w THEN j ELSE job[u]
    BY <2>2, JobAfter
  <2> QED BY <1>1, <2>2, <2>3
<1>3. ASSUME NEW w \in Workers, NEW j, Continues(w, j) PROVE Apart'
  <2>1. /\ job' = [job EXCEPT ![w] = j] /\ j.call = job[w].call /\ Busy(w)
        /\ job[w].at = "begin" =>
             \A u \in Workers \ {w} : Busy(u) => Named(j.call) \cap Named(job[u].call) \subseteq contended'
    BY <1>3 DEF Continues
  <2>2. \A u \in Workers : job'[u] = IF u = w THEN j ELSE job[u]
    BY <2>1, JobAfter
  <2>3. CASE job[w].at # "begin"
    <3>1. \A u \in Workers : Past(u)' => Past(u) /\ job'[u].call = job[u].call
      BY <2>1, <2>2, <2>3 DEF Busy
    <3> QED BY <1>1, <3>1
  <2>4. CASE job[w].at = "begin"
    <3>1. ASSUME NEW u \in Workers \ {w}, Past(u)
          PROVE  Named(job[w].call) \cap Named(job[u].call) \subseteq contended'
      BY <2>1, <2>4, <3>1 DEF Busy
    <3>2. \A u \in Workers : Past(u)' => (u = w \/ Past(u)) /\ job'[u].call = job[u].call
      BY <2>1, <2>2
    <3>3. ASSUME NEW v \in Workers, NEW u \in Workers, v # u, Past(v)', Past(u)'
          PROVE  Named(job[v].call) \cap Named(job[u].call) \subseteq contended'
      BY <1>0, <3>1, <3>2, <3>3 DEF Apart
    <3>4. \A v, u \in Workers : v # u /\ Past(v)' /\ Past(u)' =>
            Named(job'[v].call) \cap Named(job'[u].call) \subseteq contended'
      BY <3>2, <3>3
    <3> QED BY <3>4 DEF Apart
  <2> QED BY <2>3, <2>4
<1>4. ASSUME NEW w \in Workers, Expires(w) PROVE Apart'
  <2>1. PICK j : j = [job[w] EXCEPT !.open = FALSE]
    OBVIOUS
  <2>2. job' = [job EXCEPT ![w] = j] /\ JobOK(job[w])
    BY <1>4, <2>1 DEF Expires, Inv
  <2>3. j.at = job[w].at /\ (j.at # "idle" => j.call = job[w].call)
    BY <2>1, <2>2 DEF JobOK
  <2>4. \A u \in Workers : job'[u] = IF u = w THEN j ELSE job[u]
    BY <2>2, JobAfter
  <2> QED BY <1>1, <2>3, <2>4
<1>5. ASSUME NEW w \in Workers, Ends(w) PROVE Apart'
  <2>1. \A u \in Workers : job'[u] = IF u = w THEN Idle ELSE job[u]
    BY <1>5, JobAfter DEF Ends
  <2> QED BY <1>1, <2>1 DEF Idle
<1>6. CASE Stands
  BY <1>1, <1>6 DEF Stands
<1> QED BY <1>2, <1>3, <1>4, <1>5, <1>6 DEF Shape
LEMMA SeenStandsAfter ==
  ASSUME Inv, Slots, Shape, Apart, SeenStands
  PROVE  SeenStands'
<1> SUFFICES ASSUME NEW u \in Workers PROVE StillSeen(u)'
  BY DEF SeenStands
<1>0. contended \subseteq contended' /\ StillSeen(u) /\ SlotOK(u) /\ JobOK(job[u])
  BY ContendedGrows DEF SeenStands, Slots, Inv
<1>1. ASSUME job'[u] = job[u], stock' = stock PROVE StillSeen(u)'
  BY <1>0, <1>1 DEF StillSeen
<1>2. ASSUME job'[u] = Idle PROVE StillSeen(u)'
  BY <1>2 DEF StillSeen, Idle
<1>3. ASSUME NEW w \in Workers, Ends(w) PROVE StillSeen(u)'
  <2>1. job'[u] = IF u = w THEN Idle ELSE job[u]
    BY <1>3, JobAfter DEF Ends
  <2>2. CASE u = w
    BY <1>2, <2>1, <2>2
  <2>3. CASE u # w /\ committed' = committed
    <3>1. CASE stock' = stock
      BY <1>1, <2>1, <2>3, <3>1
    <3>2. CASE stock' # stock
      <4>1. Busy(w) /\ committed' = committed \cup {job[w].call}
        BY <1>3, <3>2 DEF Ends, Busy
      <4> QED BY <2>3, <4>1, UnderWay
    <3> QED BY <3>1, <3>2
  <2>4. CASE u # w /\ committed' # committed
    <3>1. /\ Busy(w) /\ job[w].at = "commit"
          /\ \A p \in Parts : p \notin Named(job[w].call) => stock'[p] = stock[p]
      BY <1>3, <2>4, CommitTakes
    <3>2. ASSUME job[u].at \in {"part", "commit"}, job[u].call.kind = "parts",
                 NEW p \in Named(job[u].call)
          PROVE  p \in contended' \/ job[u].seen[p] = stock'[p]
      <4>1. CASE p \in Named(job[w].call)
        BY <1>0, <2>4, <3>1, <3>2, <4>1 DEF Apart
      <4>2. CASE p \notin Named(job[w].call)
        <5>1. job[u].call \in Calls
          BY <3>2, UnderWay DEF Busy
        <5>2. p \in Parts
          BY <5>1, NamedParts
        <5> QED BY <1>0, <3>1, <3>2, <4>2, <5>2 DEF StillSeen
      <4> QED BY <4>1, <4>2
    <3> QED BY <2>1, <2>4, <3>2 DEF StillSeen
  <2> QED BY <2>2, <2>3, <2>4
<1>4. ASSUME NEW w \in Workers, NEW c \in todo, Arrives(w, c) PROVE StillSeen(u)'
  <2>1. PICK j : j = [at |-> "begin", call |-> c, open |-> FALSE]
    OBVIOUS
  <2>2. job' = [job EXCEPT ![w] = j] /\ j.at = "begin" /\ stock' = stock
    BY <1>4, <2>1 DEF Arrives
  <2>3. job'[u] = IF u = w THEN j ELSE job[u]
    BY <2>2, JobAfter
  <2> QED BY <1>1, <2>2, <2>3 DEF StillSeen
<1>5. ASSUME NEW w \in Workers, NEW j, Continues(w, j) PROVE StillSeen(u)'
  <2>1. /\ job' = [job EXCEPT ![w] = j] /\ j.call = job[w].call /\ stock' = stock
        /\ j.at \in {"part", "commit"} /\ j.call.kind = "parts" =>
             \/ job[w].at = "stock" /\ j.seen = stock
             \/ job[w].at = "part" /\ j.seen = job[w].seen
    BY <1>5 DEF Continues
  <2>2. job'[u] = IF u = w THEN j ELSE job[u]
    <3>1. job' = [job EXCEPT ![w] = j]
      BY <2>1
    <3> QED BY <3>1, JobAfter
  <2>3. CASE u = w
    <3>1. j.at \in {"part", "commit"} /\ j.call.kind = "parts" =>
            \A p \in Named(j.call) : p \in contended' \/ j.seen[p] = stock[p]
      BY <1>0, <2>1, <2>3 DEF StillSeen
    <3> QED BY <2>1, <2>2, <2>3, <3>1 DEF StillSeen
  <2>4. CASE u # w
    BY <1>1, <2>1, <2>2, <2>4
  <2> QED BY <2>3, <2>4
<1>6. ASSUME NEW w \in Workers, Expires(w) PROVE StillSeen(u)'
  <2>1. PICK j : j = [job[w] EXCEPT !.open = FALSE]
    OBVIOUS
  <2>2. job' = [job EXCEPT ![w] = j] /\ stock' = stock
    BY <1>6, <2>1 DEF Expires
  <2>3. job'[u] = IF u = w THEN j ELSE job[u]
    BY <2>2, JobAfter
  <2>4. CASE u = w
    <3>1. /\ j.at = job[u].at
          /\ j.at # "idle" => j.call = job[u].call
          /\ "seen" \in DOMAIN job[u] => j.seen = job[u].seen
      BY <1>0, <2>1, <2>4 DEF JobOK
    <3> QED BY <1>0, <2>2, <2>3, <2>4, <3>1 DEF StillSeen, SlotOK
  <2>5. CASE u # w
    BY <1>1, <2>2, <2>3, <2>5
  <2> QED BY <2>4, <2>5
<1>7. CASE Stands
  BY <1>1, <1>7 DEF Stands
<1> QED BY <1>3, <1>4, <1>5, <1>6, <1>7 DEF Shape

LEMMA ShortAfter ==
  ASSUME Inv, Slots, Shape, SeenStands, ShortOnlyByOverlap
  PROVE  ShortOnlyByOverlap'
<1> DEFINE Places(c, p) == {n \in DOMAIN c.list : c.list[n].part = p}
<1> SUFFICES ASSUME NEW p \in Parts, stock'[p] < 0, p \notin contended'
             PROVE  \E c \in committed' : Cardinality(Places(c, p)) > 1
  BY DEF ShortOnlyByOverlap
<1>1. p \notin contended /\ stock[p] \in Int
  BY ContendedGrows DEF Slots
<1>2. ASSUME stock[p] < 0, committed \subseteq committed'
      PROVE  \E c \in committed' : Cardinality(Places(c, p)) > 1
  BY <1>1, <1>2 DEF ShortOnlyByOverlap
<1>3. CASE ~ \E w \in Workers : Ends(w) /\ committed' # committed
  BY <1>2, <1>3, StockStays
<1>4. ASSUME NEW w \in Workers, Ends(w), committed' # committed
      PROVE  \E c \in committed' : Cardinality(Places(c, p)) > 1
  <2>1. PICK c : c = job[w].call
    OBVIOUS
  <2>2. /\ Busy(w) /\ job[w].at = "commit" /\ committed' = committed \cup {c}
        /\ stock'[p] = IF p \in Named(c) THEN stock[p] - Quantity(c, p) ELSE stock[p]
    BY <1>4, <2>1, CommitTakes
  <2>3. c \in Calls
    BY <2>1, <2>2, UnderWay
  <2>4. CASE p \notin Named(c)
    BY <1>2, <2>2, <2>4
  <2>5. CASE p \in Named(c)
    <3>1. c.kind = "parts"
      BY <2>5 DEF Named
    <3>2. PICK n \in DOMAIN c.list : c.list[n].part = p
      BY <2>5, <3>1 DEF Named
    <3>3. Suffices(c, job[w].seen) /\ job[w].seen[p] = stock[p]
      BY <1>1, <2>1, <2>2, <2>5, <3>1 DEF SeenStands, StillSeen, Slots, SlotOK
    <3>4. stock[p] >= c.list[n].quantity
      BY <3>2, <3>3 DEF Suffices
    <3>5. Quantity(c, p) \in Nat
      BY <2>3, <3>1, QuantityIsSum
    <3>6. Places(c, p) # {n}
      <4> SUFFICES ASSUME Places(c, p) = {n} PROVE FALSE
        OBVIOUS
      <4>1. Quantity(c, p) = c.list[n].quantity
        BY <2>3, <3>1, QuantityIsSum
      <4>2. stock'[p] >= 0
        BY <1>1, <2>2, <2>5, <3>4, <3>5, <4>1
      <4> QED BY <1>1, <2>2, <2>5, <3>5, <4>2
    <3>7. IsFiniteSet(Places(c, p)) /\ n \in Places(c, p) /\ Cardinality(Places(c, p)) \in Nat
      <4>1. IsFiniteSet(DOMAIN c.list)
        BY <2>3, <3>1, Lists, FS_Interval
      <4> QED BY <3>2, <4>1, FS_Subset, FS_CardinalityType
    <3> HIDE DEF Places
    <3>8. Cardinality(Places(c, p)) # 0 /\ Cardinality(Places(c, p)) # 1
      <4>1. Cardinality(Places(c, p)) # 0
        BY <3>7, FS_EmptySet
      <4>2. ASSUME Cardinality(Places(c, p)) = 1 PROVE FALSE
        <5>1. \E x : Places(c, p) = {x}
          BY <3>7, <4>2, FS_Singleton
        <5> QED BY <3>6, <3>7, <5>1
      <4> QED BY <4>1, <4>2
    <3> QED BY <2>2, <3>7, <3>8
  <2> QED BY <2>4, <2>5
<1> QED BY <1>3, <1>4

(* What the theorems on the stock rest on. *)
StockInv == Balance /\ Apart /\ SeenStands /\ ShortOnlyByOverlap

LEMMA StockInvariance == Spec => []StockInv
<1>1. Init => StockInv
  <2> SUFFICES ASSUME Init PROVE StockInv
    OBVIOUS
  <2>1. \A w \in Workers : job[w].at = "idle"
    BY DEF Init, PoolInit, Idle
  <2>2. Apart /\ SeenStands
    BY <2>1 DEF Apart, SeenStands, StillSeen
  <2>3. \A p \in Parts : stock[p] \in Nat
    BY StockAssumption DEF Init, StockInit
  <2>4. ShortOnlyByOverlap
    BY <2>3 DEF ShortOnlyByOverlap
  <2> QED BY <2>2, <2>4, BalanceInit DEF StockInv
<1>2. Inv /\ Slots /\ StockInv /\ [Next]_vars => StockInv'
  BY Shapes, BalanceAfter, ApartAfter, SeenStandsAfter, ShortAfter DEF StockInv
<1> QED BY <1>1, <1>2, SlotsInvariance, PTL DEF Spec

(* Stock and parts used balance, for any lists, parts and slots: a list     *)
(* that committed has taken what it asks for and every other one nothing,   *)
(* whether it threw, expired or was aborted (addSpareParts).                *)
THEOREM StockBalances == Spec => []StockLedger
<1>1. StockInv => StockLedger
  BY DEF StockInv, Balance, StockLedger, TakenOf
<1> QED BY <1>1, StockInvariance, PTL

(* Without two requests on a part under way at once and without a list that *)
(* names it twice no more is taken of it than there is, for any stock and   *)
(* any lists (appointments.service.ts:648).                                 *)
THEOREM OnlyOverlapIsShort == Spec => []ShortOnlyByOverlap
<1>1. StockInv => ShortOnlyByOverlap
  BY DEF StockInv
<1> QED BY <1>1, StockInvariance, PTL
=============================================================================
