----------------------- MODULE OrderWorkflow_proofs ------------------------
(***************************************************************************)
(* Theorems of OrderWorkflow, of OrderRequests and of the refinement        *)
(* between them, for every set of details, technicians, quotes and          *)
(* spare-part requests.  In this order: sums; the handlers as single steps, *)
(* their invariant and what money and parts add up to; the requests         *)
(* statement by statement, what each remembers and what survives any        *)
(* overlap; and the requests one at a time, which are the handlers again.   *)
(***************************************************************************)
EXTENDS OrderRequestsRefinement, FiniteSetTheorems, WellFoundedInduction, TLAPS

-----------------------------------------------------------------------------
(* Sums.  MapThenSumSet is recursive over the subsets of a set; the lemmas  *)
(* below establish that the recursion has a solution and what prices and    *)
(* parts need to know of it.                                                *)

(* The sum of the values of f at the elements of S. *)
SumOf(f, S) == MapThenSumSet(LAMBDA x : f[x], S)

(* The element a sum begins with. *)
Pick(S) == CHOOSE x \in S : TRUE

(* g is the table of the sums over the subsets of S that the recursion in   *)
(* the definition of MapThenSumSet describes.                               *)
Tabulates(g, f, S) ==
  g = [s \in SUBSET S |-> IF s = {} THEN 0 ELSE f[Pick(s)] + g[s \ {Pick(s)}]]

(* The definition of MapThenSumSet, in these words. *)
LEMMA SumTable ==
  ASSUME NEW f, NEW S
  PROVE  SumOf(f, S) = (CHOOSE g : Tabulates(g, f, S))[S]
BY DEF SumOf, MapThenSumSet, MapThenFoldSet, Tabulates, Pick

(* Induction over the subsets of a finite set: H is the set of those the    *)
(* claim holds of; a smallest one outside it would be a contradiction.      *)
LEMMA SetInduction ==
  ASSUME NEW S, IsFiniteSet(S), NEW H,
         \A s \in SUBSET S : (\A x \in s : s \ {x} \in H) => s \in H
  PROVE  \A s \in SUBSET S : s \in H
<1> SUFFICES ASSUME \E s \in SUBSET S : s \notin H
             PROVE  FALSE
  OBVIOUS
<1> DEFINE Sizes == {n \in Nat : \E s \in SUBSET S : s \notin H /\ Cardinality(s) = n}
<1>1. \A s \in SUBSET S : IsFiniteSet(s) /\ Cardinality(s) \in Nat
  BY FS_Subset, FS_CardinalityType
<1>2. Sizes # {}
  BY <1>1
<1>3. \E n \in Sizes : \A m \in Sizes : ~(<<m, n>> \in OpToRel(<, Nat))
  <2> HIDE DEF Sizes
  <2>1. Sizes \subseteq Nat
    BY DEF Sizes
  <2> QED BY <1>2, <2>1, NatLessThanWellFounded, WFMin
<1>4. PICK n \in Sizes : \A m \in Sizes : ~(m < n)
  BY <1>3 DEF OpToRel
<1>5. PICK s \in SUBSET S : s \notin H /\ Cardinality(s) = n
  BY <1>4
<1>6. ASSUME NEW x \in s PROVE s \ {x} \in H
  <2>1. s \ {x} \in SUBSET S
    OBVIOUS
  <2>2. Cardinality(s \ {x}) = Cardinality(s) - 1 /\ Cardinality(s \ {x}) \in Nat
    BY <1>1, <2>1, FS_RemoveElement
  <2>3. Cardinality(s \ {x}) < n
    BY <1>5, <2>2
  <2> QED BY <1>4, <2>1, <2>2, <2>3
<1> QED BY <1>5, <1>6

(* A table of a set is one of its subsets. *)
LEMMA TableOfSubset ==
  ASSUME NEW f, NEW S, NEW s \in SUBSET S, NEW g, Tabulates(g, f, S)
  PROVE  Tabulates([t \in SUBSET s |-> g[t]], f, s)
<1>1. ASSUME NEW t \in SUBSET s
      PROVE  g[t] = IF t = {} THEN 0 ELSE f[Pick(t)] + g[t \ {Pick(t)}]
  BY DEF Tabulates
<1> DEFINE h == [t \in SUBSET s |-> g[t]]
<1>2. ASSUME NEW t \in SUBSET s
      PROVE  h[t] = IF t = {} THEN 0 ELSE f[Pick(t)] + h[t \ {Pick(t)}]
  <2>1. t \ {Pick(t)} \in SUBSET s
    OBVIOUS
  <2> QED BY <1>1, <2>1
<1>3. h = [t \in SUBSET s |-> IF t = {} THEN 0 ELSE f[Pick(t)] + h[t \ {Pick(t)}]]
  <2> DEFINE k == [t \in SUBSET s |-> IF t = {} THEN 0 ELSE f[Pick(t)] + h[t \ {Pick(t)}]]
  <2>1. \A t \in SUBSET s : h[t] = k[t]
    BY <1>2
  <2> QED BY <2>1
<1> QED BY <1>3 DEF Tabulates

(* There is no second table. *)
LEMMA TablesAgree ==
  ASSUME NEW f, NEW S, IsFiniteSet(S), NEW g, NEW h, Tabulates(g, f, S), Tabulates(h, f, S)
  PROVE  g = h
<1> DEFINE H == {s \in SUBSET S : g[s] = h[s]}
<1>1. ASSUME NEW s \in SUBSET S, \A x \in s : s \ {x} \in H
      PROVE  s \in H
  <2>1. CASE s = {}
    BY <2>1 DEF Tabulates
  <2>2. CASE s # {}
    <3>1. Pick(s) \in s
      BY <2>2 DEF Pick
    <3>2. g[s \ {Pick(s)}] = h[s \ {Pick(s)}]
      BY <1>1, <3>1
    <3>3. g[s] = f[Pick(s)] + g[s \ {Pick(s)}] /\ h[s] = f[Pick(s)] + h[s \ {Pick(s)}]
      BY <2>2 DEF Tabulates
    <3> QED BY <3>2, <3>3
  <2> QED BY <2>1, <2>2
<1>2. \A s \in SUBSET S : s \in H
  <2> HIDE DEF H
  <2> QED BY <1>1, SetInduction
<1> QED BY <1>2 DEF Tabulates
(* SumOf of the subsets of a finite set is such a table. *)
LEMMA SumTabulates ==
  ASSUME NEW f, NEW S, IsFiniteSet(S)
  PROVE  Tabulates([s \in SUBSET S |-> SumOf(f, s)], f, S)
<1> DEFINE H == {s \in SUBSET S : \E g : Tabulates(g, f, s)}
           Value(s) == IF s = {} THEN 0 ELSE f[Pick(s)] + SumOf(f, s \ {Pick(s)})
<1>1. ASSUME NEW s, IsFiniteSet(s), NEW g, Tabulates(g, f, s)
      PROVE  \A t \in SUBSET s : SumOf(f, t) = g[t]
  <2> SUFFICES ASSUME NEW t \in SUBSET s PROVE SumOf(f, t) = g[t]
    OBVIOUS
  <2>1. IsFiniteSet(t)
    BY <1>1, FS_Subset
  <2> DEFINE h == [u \in SUBSET t |-> g[u]]
             k == CHOOSE k : Tabulates(k, f, t)
  <2>2. Tabulates(h, f, t)
    BY <1>1, TableOfSubset
  <2>3. Tabulates(k, f, t)
    BY <2>2
  <2>4. h = k
    <3> HIDE DEF h, k
    <3> QED BY <2>1, <2>2, <2>3, TablesAgree
  <2>5. h[t] = g[t]
    OBVIOUS
  <2>6. SumOf(f, t) = k[t]
    BY SumTable
  <2> QED BY <2>4, <2>5, <2>6
<1>2. ASSUME NEW s \in SUBSET S, s \in H
      PROVE  SumOf(f, s) = Value(s)
  <2>1. PICK g : Tabulates(g, f, s)
    BY <1>2
  <2>2. IsFiniteSet(s)
    BY FS_Subset
  <2>3. \A t \in SUBSET s : SumOf(f, t) = g[t]
    BY <1>1, <2>1, <2>2
  <2>4. g[s] = IF s = {} THEN 0 ELSE f[Pick(s)] + g[s \ {Pick(s)}]
    BY <2>1 DEF Tabulates
  <2>5. s \in SUBSET s /\ s \ {Pick(s)} \in SUBSET s
    OBVIOUS
  <2> QED BY <2>3, <2>4, <2>5
<1>3. ASSUME NEW s \in SUBSET S, \A x \in s : s \ {x} \in H
      PROVE  s \in H
  <2> DEFINE g == [t \in SUBSET s |-> Value(t)]
  <2>1. ASSUME NEW t \in SUBSET s, t # s
        PROVE  t \in H
    <3>1. PICK x \in s : x \notin t
      BY <2>1
    <3>2. PICK h : Tabulates(h, f, s \ {x})
      BY <1>3, <3>1
    <3>3. t \in SUBSET (s \ {x})
      BY <3>1
    <3>4. Tabulates([u \in SUBSET t |-> h[u]], f, t)
      <4> DEFINE r == s \ {x}
      <4>1. t \in SUBSET r /\ Tabulates(h, f, r)
        BY <3>2, <3>3
      <4> HIDE DEF r
      <4> QED BY <4>1, TableOfSubset
    <3> QED BY <3>4
  <2>2. ASSUME NEW t \in SUBSET s, t # {}
        PROVE  g[t \ {Pick(t)}] = SumOf(f, t \ {Pick(t)})
    <3>1. t \ {Pick(t)} \in SUBSET s /\ t \ {Pick(t)} # s /\ t \ {Pick(t)} \in SUBSET S
      BY <2>2 DEF Pick
    <3>2. t \ {Pick(t)} \in H
      BY <2>1, <3>1
    <3> HIDE DEF Value
    <3>3. SumOf(f, t \ {Pick(t)}) = Value(t \ {Pick(t)})
      BY <1>2, <3>1, <3>2
    <3> QED BY <3>1, <3>3
  <2>3. \A t \in SUBSET s : g[t] = IF t = {} THEN 0 ELSE f[Pick(t)] + g[t \ {Pick(t)}]
    BY <2>2
  <2>4. Tabulates(g, f, s)
    <3> DEFINE h == [t \in SUBSET s |-> IF t = {} THEN 0 ELSE f[Pick(t)] + g[t \ {Pick(t)}]]
    <3>1. \A t \in SUBSET s : g[t] = h[t]
      BY <2>3
    <3>2. g = h
      <4> HIDE DEF Value
      <4> QED BY <3>1
    <3> QED BY <3>2 DEF Tabulates
  <2> QED BY <2>4
<1>4. \A s \in SUBSET S : s \in H
  <2> HIDE DEF H
  <2> QED BY <1>3, SetInduction
<1>5. PICK g : Tabulates(g, f, S)
  BY <1>4
<1>6. \A s \in SUBSET S : SumOf(f, s) = g[s]
  BY <1>1, <1>5
<1>7. g = [s \in SUBSET S |-> SumOf(f, s)]
  <2>1. g = [s \in SUBSET S |-> g[s]]
    BY <1>5 DEF Tabulates
  <2> QED BY <1>6, <2>1
<1> QED BY <1>5, <1>7

(* A sum is added up in some order. *)
LEMMA SumPick ==
  ASSUME NEW f, NEW S, IsFiniteSet(S)
  PROVE  SumOf(f, S) = IF S = {} THEN 0 ELSE f[Pick(S)] + SumOf(f, S \ {Pick(S)})
<1> DEFINE g == [s \in SUBSET S |-> SumOf(f, s)]
<1>1. Tabulates(g, f, S)
  BY SumTabulates
<1>2. S \in SUBSET S /\ S \ {Pick(S)} \in SUBSET S
  OBVIOUS
<1>3. g[S] = SumOf(f, S) /\ g[S \ {Pick(S)}] = SumOf(f, S \ {Pick(S)})
  BY <1>2
<1>4. g[S] = IF S = {} THEN 0 ELSE f[Pick(S)] + g[S \ {Pick(S)}]
  <2> HIDE DEF g
  <2> QED BY <1>1, <1>2 DEF Tabulates
<1> QED BY <1>3, <1>4

(* The sum of nothing. *)
LEMMA SumEmpty == \A f : SumOf(f, {}) = 0
BY SumPick, FS_EmptySet

(* Sums of integers are integers, and sums of natural numbers natural. *)
LEMMA SumType ==
  ASSUME NEW S, IsFiniteSet(S), NEW f, NEW T \in {Nat, Int}, \A x \in S : f[x] \in T
  PROVE  \A s \in SUBSET S : SumOf(f, s) \in T
<1> DEFINE H == {s \in SUBSET S : SumOf(f, s) \in T}
<1>1. ASSUME NEW s \in SUBSET S, \A x \in s : s \ {x} \in H
      PROVE  s \in H
  <2>1. IsFiniteSet(s)
    BY FS_Subset
  <2>2. CASE s = {}
    BY <2>2, SumEmpty
  <2>3. CASE s # {}
    <3>1. Pick(s) \in s
      BY <2>3 DEF Pick
    <3>2. SumOf(f, s \ {Pick(s)}) \in T /\ f[Pick(s)] \in T
      BY <1>1, <3>1
    <3>3. SumOf(f, s) = f[Pick(s)] + SumOf(f, s \ {Pick(s)})
      BY <2>1, <2>3, SumPick
    <3> QED BY <3>2, <3>3
  <2> QED BY <2>2, <2>3
<1>2. \A s \in SUBSET S : s \in H
  <2> HIDE DEF H
  <2> QED BY <1>1, SetInduction
<1> QED BY <1>2

(* The order does not matter: any element may come first. *)
LEMMA SumRemove ==
  ASSUME NEW S, IsFiniteSet(S), NEW f, \A x \in S : f[x] \in Int
  PROVE  \A x \in S : SumOf(f, S) = f[x] + SumOf(f, S \ {x})
<1> DEFINE H == {s \in SUBSET S : \A x \in s : SumOf(f, s) = f[x] + SumOf(f, s \ {x})}
<1>0. \A s \in SUBSET S : SumOf(f, s) \in Int /\ IsFiniteSet(s)
  BY SumType, FS_Subset
<1>1. ASSUME NEW s \in SUBSET S, \A x \in s : s \ {x} \in H
      PROVE  s \in H
  <2> SUFFICES ASSUME NEW x \in s PROVE SumOf(f, s) = f[x] + SumOf(f, s \ {x})
    OBVIOUS
  <2> DEFINE y == Pick(s)
  <2>1. y \in s
    BY DEF Pick
  <2>2. SumOf(f, s) = f[y] + SumOf(f, s \ {y})
    BY <1>0, SumPick
  <2>3. CASE x = y
    BY <2>2, <2>3
  <2>4. CASE x # y
    <3> HIDE DEF y
    <3>1. SumOf(f, s \ {y}) = f[x] + SumOf(f, (s \ {y}) \ {x})
      BY <1>1, <2>1, <2>4
    <3>2. SumOf(f, s \ {x}) = f[y] + SumOf(f, (s \ {x}) \ {y})
      BY <1>1, <2>1, <2>4
    <3> DEFINE rest == SumOf(f, s \ {x, y})
    <3>3. (s \ {x}) \ {y} = s \ {x, y} /\ (s \ {y}) \ {x} = s \ {x, y}
      OBVIOUS
    <3>4. SumOf(f, s \ {y}) = f[x] + rest /\ SumOf(f, s \ {x}) = f[y] + rest
      BY <3>1, <3>2, <3>3
    <3>5. f[x] \in Int /\ f[y] \in Int /\ rest \in Int
      BY <1>0, <2>1
    <3> HIDE DEF rest
    <3> QED BY <2>2, <3>4, <3>5
  <2> QED BY <2>3, <2>4
<1>2. \A s \in SUBSET S : s \in H
  <2> HIDE DEF H
  <2> QED BY <1>1, SetInduction
<1> QED BY <1>2

(* Functions that agree on a set have the same sum there. *)
LEMMA SumSame ==
  ASSUME NEW S, IsFiniteSet(S), NEW f, NEW g, \A x \in S : f[x] = g[x]
  PROVE  SumOf(f, S) = SumOf(g, S)
<1> DEFINE H == {s \in SUBSET S : SumOf(f, s) = SumOf(g, s)}
<1>1. ASSUME NEW s \in SUBSET S, \A x \in s : s \ {x} \in H
      PROVE  s \in H
  <2>1. IsFiniteSet(s)
    BY FS_Subset
  <2>2. CASE s = {}
    BY <2>2, SumEmpty
  <2>3. CASE s # {}
    <3>1. Pick(s) \in s
      BY <2>3 DEF Pick
    <3>2. SumOf(f, s \ {Pick(s)}) = SumOf(g, s \ {Pick(s)}) /\ f[Pick(s)] = g[Pick(s)]
      BY <1>1, <3>1
    <3> QED BY <2>1, <2>3, <3>2, SumPick
  <2> QED BY <2>2, <2>3
<1>2. \A s \in SUBSET S : s \in H
  <2> HIDE DEF H
  <2> QED BY <1>1, SetInduction
<1> QED BY <1>2

(* One value changes. *)
LEMMA SumUpdate ==
  ASSUME NEW S, IsFiniteSet(S), NEW f \in [S -> Int], NEW g \in [S -> Int], NEW x \in S,
         \A y \in S \ {x} : g[y] = f[y]
  PROVE  SumOf(g, S) = SumOf(f, S) - f[x] + g[x]
<1>1. SumOf(f, S) = f[x] + SumOf(f, S \ {x})
  BY SumRemove
<1>2. SumOf(g, S) = g[x] + SumOf(g, S \ {x})
  BY SumRemove
<1>3. IsFiniteSet(S \ {x}) /\ SumOf(f, S \ {x}) \in Int
  BY FS_Subset, SumType
<1>4. SumOf(f, S \ {x}) = SumOf(g, S \ {x})
  BY <1>3, SumSame
<1>5. f[x] \in Int /\ g[x] \in Int
  OBVIOUS
<1> QED BY <1>1, <1>2, <1>3, <1>4, <1>5

(* Nothing adds up to nothing. *)
LEMMA SumZero ==
  ASSUME NEW S, IsFiniteSet(S)
  PROVE  SumOf([x \in S |-> 0], S) = 0
<1> DEFINE f == [x \in S |-> 0]
           H == {s \in SUBSET S : SumOf(f, s) = 0}
<1>1. ASSUME NEW s \in SUBSET S, \A x \in s : s \ {x} \in H
      PROVE  s \in H
  <2>1. IsFiniteSet(s) /\ \A x \in s : f[x] = 0
    BY FS_Subset
  <2> HIDE DEF f
  <2>2. CASE s = {}
    BY <2>2, SumEmpty
  <2>3. CASE s # {}
    <3>1. Pick(s) \in s
      BY <2>3 DEF Pick
    <3>2. SumOf(f, s \ {Pick(s)}) = 0 /\ f[Pick(s)] = 0
      BY <1>1, <2>1, <3>1
    <3> QED BY <2>1, <2>3, <3>2, SumPick
  <2> QED BY <2>2, <2>3
<1>2. \A s \in SUBSET S : s \in H
  <2> HIDE DEF H
  <2> QED BY <1>1, SetInduction
<1> QED BY <1>2

(* A part of a sum of natural numbers is no greater. *)
LEMMA SumPart ==
  ASSUME NEW S, IsFiniteSet(S), NEW f, \A x \in S : f[x] \in Nat, NEW P \in SUBSET S
  PROVE  SumOf(f, P) <= SumOf(f, S)
<1> DEFINE H == {s \in SUBSET S : P \subseteq s => SumOf(f, P) <= SumOf(f, s)}
<1>0. \A s \in SUBSET S : IsFiniteSet(s) /\ SumOf(f, s) \in Nat
  BY SumType, FS_Subset
<1>1. ASSUME NEW s \in SUBSET S, \A x \in s : s \ {x} \in H
      PROVE  s \in H
  <2> SUFFICES ASSUME P \subseteq s, P # s PROVE SumOf(f, P) <= SumOf(f, s)
    BY <1>0
  <2>1. PICK x \in s : x \notin P
    OBVIOUS
  <2>2. SumOf(f, P) <= SumOf(f, s \ {x})
    BY <1>1, <2>1
  <2>3. SumOf(f, s) = f[x] + SumOf(f, s \ {x})
    BY <1>0, <2>1, SumRemove
  <2>4. f[x] \in Nat /\ SumOf(f, s \ {x}) \in Nat /\ SumOf(f, P) \in Nat
    BY <1>0, <2>1
  <2> QED BY <2>2, <2>3, <2>4
<1>2. \A s \in SUBSET S : s \in H
  <2> HIDE DEF H
  <2> QED BY <1>1, SetInduction
<1> QED BY <1>2
-----------------------------------------------------------------------------
(* Types. *)


(* The cost of a spare-part list is a natural number. *)
LEMMA CostType ==
  ASSUME NEW r \in PartRequests
  PROVE  /\ r.largest \in Nat /\ r.total \in Nat
         /\ UnitPrice * r.total \in Nat
<1>1. r.largest \in Nat /\ r.total \in Nat
  BY ConstantsAssumption DEF PartRequestsAssumption
<1>2. \A m, n \in Nat : m * n \in Nat
  OBVIOUS
<1>. QED
  BY <1>1, <1>2, ConstantsAssumption

(* Adding to one amount of a column that stays in range. *)
LEMMA AddToColumn ==
  ASSUME NEW S, NEW n \in Nat, NEW f \in [S -> 0..n], NEW x, NEW c \in Nat, f[x] + c <= n
  PROVE  [f EXCEPT ![x] = @ + c] \in [S -> 0..n]
<1> DEFINE g == [f EXCEPT ![x] = @ + c]
<1>1. ASSUME NEW y \in S
      PROVE  g[y] \in 0..n
  <2>1. f[y] \in 0..n
    OBVIOUS
  <2>2. CASE y = x
    BY <2>1, <2>2
  <2>3. CASE y # x
    BY <2>1, <2>3
  <2>. QED
    BY <2>2, <2>3
<1>2. g = [y \in S |-> g[y]]
  OBVIOUS
<1>. QED
  BY <1>1, <1>2

(* A step is one handler, called by one of the three kinds of users. *)
LEMMA NextCases ==
  ASSUME [Next]_vars
  PROVE  \/ \E D \in SUBSET Details : \E a \in D \cup {None} : CreateServiceOrder(D, a)
         \/ CustomerUpdate \/ CustomerQuoteConfirm \/ CustomerCancel
         \/ AdminConfirm \/ AdminComplete
         \/ \E t \in Technicians : TechnicianStep(t)
         \/ \E t \in Technicians \cup {None} : TechnicianUpdatePaymentStatus(t)
         \/ UNCHANGED vars
<1>1. ASSUME NEW form \in OrderForms, CreateServiceOrder(form[1], form[2])
      PROVE  \E D \in SUBSET Details : \E a \in D \cup {None} : CreateServiceOrder(D, a)
  <2>1. form[1] \in SUBSET Details /\ form[2] \in form[1] \cup {None}
    BY <1>1 DEF OrderForms
  <2>. QED
    BY <1>1, <2>1
<1>. QED
  BY <1>1 DEF Next, CustomerStep, AdminStep, PaymentCallers

(* The columns keep their types: the counters and amounts stay in range     *)
(* because the handlers' own checks and the INTEGER columns bound them.     *)
THEOREM TypeCorrect == Spec => []TypeOK
<1> USE DEF ServiceOrderStatusEnum, ServiceOrderDetailStatusEnum, AppointmentStatusEnum
<1>1. Init => TypeOK
  BY ConstantsAssumption DEF Init, TypeOK
<1>2. TypeOK /\ [Next]_vars => TypeOK'
  <2> SUFFICES ASSUME TypeOK, [Next]_vars
               PROVE  TypeOK'
    OBVIOUS
  <2> USE DEF TypeOK, orderVars, detailVars, apptVars, logVars, stockVars
  <2>1. ASSUME NEW D \in SUBSET Details, NEW a \in D \cup {None}, CreateServiceOrder(D, a)
        PROVE  TypeOK'
    BY <2>1, ConstantsAssumption DEF CreateServiceOrder
  <2>2. CASE CustomerUpdate
    BY <2>2, ConstantsAssumption DEF CustomerUpdate
  <2>3. CASE CustomerQuoteConfirm
    BY <2>3 DEF CustomerQuoteConfirm
  <2>4. CASE CustomerCancel
    BY <2>4 DEF CustomerCancel
  <2>5. CASE AdminConfirm
    BY <2>5 DEF AdminConfirm
  <2>6. CASE AdminComplete
    BY <2>6 DEF AdminComplete
  <2>7. ASSUME NEW t \in Technicians, TechnicianStep(t)
        PROVE  TypeOK'
    <3>1. CASE AssignTechnician(t)
      BY <3>1 DEF AssignTechnician
    <3>2. ASSUME NEW s \in AppointmentStatusEnum, UpdateAppointmentStatus(t, s)
          PROVE  TypeOK'
      BY <3>2 DEF UpdateAppointmentStatus, LogStatus, ValidStatusTransitions
    <3>3. ASSUME NEW d \in Details, NEW q \in Quotes, Quote(t, d, q)
          PROVE  TypeOK'
      BY <3>3, ConstantsAssumption DEF Quote, FitsInt, TotalWithQuote
    <3>4. ASSUME NEW r \in PartRequests, AddSpareParts(t, r)
          PROVE  TypeOK'
      <4> DEFINE cost == UnitPrice * r.total
      <4>1. cost \in Nat /\ r.total \in Nat
        BY CostType
      <4> HIDE DEF cost
      <4>2. /\ finalPrice[apptDetail] + cost <= MaxInt
            /\ sparePartPrice[apptDetail] + cost <= MaxInt
            /\ totalAmount + cost <= MaxInt
            /\ finalPrice' = [finalPrice EXCEPT ![apptDetail] = @ + cost]
            /\ sparePartPrice' = [sparePartPrice EXCEPT ![apptDetail] = @ + cost]
            /\ totalAmount' = totalAmount + cost
            /\ used' = used + r.total
            /\ stock' = stock - r.total
            /\ UNCHANGED <<orderStatus, detailStatus, apptVars, logVars>>
        BY <3>4 DEF AddSpareParts, FitsInt, TotalWithParts, StockAfter, cost
      <4>3. finalPrice' \in [Details -> 0..MaxInt]
        BY <4>1, <4>2, ConstantsAssumption, AddToColumn
      <4>4. sparePartPrice' \in [Details -> 0..MaxInt]
        BY <4>1, <4>2, ConstantsAssumption, AddToColumn
      <4>5. totalAmount' \in 0..MaxInt /\ used' \in Nat /\ stock' \in Int
        BY <4>1, <4>2, ConstantsAssumption
      <4>. QED
        BY <4>2, <4>3, <4>4, <4>5
    <3>5. ASSUME NEW withImages \in BOOLEAN, CompleteRepair(t, withImages)
          PROVE  TypeOK'
      BY <3>5 DEF CompleteRepair, LogStatus
    <3>. QED
      BY <2>7, <3>1, <3>2, <3>3, <3>4, <3>5 DEF TechnicianStep
  <2>8. ASSUME NEW t \in Technicians \cup {None}, TechnicianUpdatePaymentStatus(t)
        PROVE  TypeOK'
    BY <2>8 DEF TechnicianUpdatePaymentStatus
  <2>9. CASE UNCHANGED vars
    BY <2>9 DEF vars
  <2>. QED
    BY <2>1, <2>2, <2>3, <2>4, <2>5, <2>6, <2>7, <2>8, <2>9, NextCases
<1>. QED
  BY <1>1, <1>2, PTL DEF Spec

-----------------------------------------------------------------------------
(* The inductive invariant.  StatusesAgree alone is inductive for the three *)
(* status columns; the trail of the repair needs it (a reschedule or a      *)
(* confirmation may only be followed by what the trail allows), and so does *)
(* the finality of a cancellation.                                          *)
IInv == TypeOK /\ StatusesAgree /\ RepairTrail /\ MirrorIsCurrent

LEMMA InitInv == Init => StatusesAgree /\ RepairTrail /\ MirrorIsCurrent
BY DEF Init, StatusesAgree, CancelledTogether, OthersStayConfirmed, OrderFollowsAppointment,
       OrderDetails, BeforePayment, RepairTrail, Trail, MirrorIsCurrent

LEMMA CreateInv ==
  ASSUME IInv, NEW D \in SUBSET Details, NEW a \in D \cup {None}, CreateServiceOrder(D, a)
  PROVE  StatusesAgree' /\ RepairTrail' /\ MirrorIsCurrent'
<1> USE ConstantsAssumption DEF IInv, TypeOK, CreateServiceOrder, logVars, stockVars
<1>1. CancelledTogether'
  BY DEF CancelledTogether
<1>2. OthersStayConfirmed'
  BY DEF OthersStayConfirmed, OrderDetails
<1>3. OrderFollowsAppointment'
  BY DEF OrderFollowsAppointment, BeforePayment, OrderDetails
<1>4. RepairTrail'
  BY DEF RepairTrail, Trail
<1>5. MirrorIsCurrent'
  BY DEF MirrorIsCurrent
<1>. QED
  BY <1>1, <1>2, <1>3, <1>4, <1>5 DEF StatusesAgree

LEMMA CustomerUpdateInv ==
  ASSUME IInv, CustomerUpdate
  PROVE  StatusesAgree' /\ RepairTrail' /\ MirrorIsCurrent'
<1> USE ConstantsAssumption DEF IInv, TypeOK, logVars, stockVars
<1>1. apptDetail \in Details
  BY DEF CustomerUpdate, StatusesAgree, OthersStayConfirmed, OrderDetails
<1>2. /\ apptStatus' = "booked" /\ orderStatus' = "booked"
      /\ detailStatus' = [detailStatus EXCEPT ![apptDetail] = "booked"]
      /\ UNCHANGED <<apptDetail, mirror, history>>
  BY DEF CustomerUpdate, StatusesAgree, OrderFollowsAppointment, BeforePayment
<1>3. CancelledTogether' /\ OrderFollowsAppointment'
  BY <1>1, <1>2 DEF CancelledTogether, OrderFollowsAppointment, BeforePayment
<1>4. OthersStayConfirmed'
  BY <1>1, <1>2 DEF OthersStayConfirmed, OrderDetails, StatusesAgree
<1>5. RepairTrail' /\ MirrorIsCurrent'
  BY <1>2 DEF RepairTrail, Trail, MirrorIsCurrent
<1>. QED
  BY <1>3, <1>4, <1>5 DEF StatusesAgree

LEMMA QuoteConfirmInv ==
  ASSUME IInv, CustomerQuoteConfirm
  PROVE  StatusesAgree' /\ RepairTrail' /\ MirrorIsCurrent'
<1> USE ConstantsAssumption DEF IInv, TypeOK, orderVars, logVars, stockVars
<1>1. /\ apptStatus = "quoted" /\ apptStatus' = "quote_confirmed"
      /\ detailStatus' = detailStatus
      /\ UNCHANGED <<orderStatus, apptDetail, mirror, history>>
  BY DEF CustomerQuoteConfirm, StatusesAgree, OrderFollowsAppointment, BeforePayment
<1>2. CancelledTogether' /\ OthersStayConfirmed' /\ OrderFollowsAppointment'
  BY <1>1 DEF StatusesAgree, CancelledTogether, OthersStayConfirmed, OrderFollowsAppointment,
              OrderDetails, BeforePayment
<1>3. RepairTrail' /\ MirrorIsCurrent'
  BY <1>1 DEF RepairTrail, Trail, MirrorIsCurrent
<1>. QED
  BY <1>2, <1>3 DEF StatusesAgree

LEMMA CancelInv ==
  ASSUME IInv, CustomerCancel
  PROVE  StatusesAgree' /\ RepairTrail' /\ MirrorIsCurrent'
<1> USE ConstantsAssumption DEF IInv, TypeOK, logVars, stockVars, CustomerCancel
<1>1. apptDetail \in Details /\ apptDetail \in OrderDetails
  BY DEF StatusesAgree, OthersStayConfirmed, OrderDetails
<1>2. detailStatus' = [detailStatus EXCEPT ![apptDetail] = "cancelled"] /\ apptDetail' = apptDetail
  OBVIOUS
<1>3. OrderDetails' = OrderDetails
  BY <1>1, <1>2 DEF OrderDetails
<1>4. CancelledTogether'
  BY <1>1, <1>2 DEF CancelledTogether
<1>5. OthersStayConfirmed'
  BY <1>1, <1>2, <1>3 DEF OthersStayConfirmed, OrderDetails, StatusesAgree
<1>6. AllCancelled(detailStatus') <=> OrderDetails = {apptDetail}
  <2>1. \A d \in OrderDetails \ {apptDetail} : detailStatus'[d] = "confirmed"
    BY <1>2, <1>3, <1>5 DEF OthersStayConfirmed
  <2>2. \A d \in Details \ OrderDetails : detailStatus'[d] = "none"
    BY <1>1, <1>2 DEF OrderDetails
  <2>. QED
    BY <1>1, <1>2, <2>1, <2>2 DEF AllCancelled, OrderDetails
<1>7. OrderFollowsAppointment'
  <2>1. orderStatus = "cancelled" => OrderDetails = {apptDetail}
    BY DEF StatusesAgree, OrderFollowsAppointment
  <2>. QED
    BY <1>2, <1>3, <1>6, <2>1 DEF OrderFollowsAppointment, BeforePayment
<1>8. RepairTrail'
  BY DEF RepairTrail, Trail
<1>9. MirrorIsCurrent'
  BY DEF MirrorIsCurrent
<1>. QED
  BY <1>4, <1>5, <1>7, <1>8, <1>9 DEF StatusesAgree

LEMMA ConfirmInv ==
  ASSUME IInv, AdminConfirm
  PROVE  StatusesAgree' /\ RepairTrail' /\ MirrorIsCurrent'
<1> USE ConstantsAssumption DEF IInv, TypeOK, logVars, stockVars, AdminConfirm, Confirmable
<1>1. apptDetail \in Details
  OBVIOUS
<1>2. CancelledTogether' /\ OrderFollowsAppointment'
  BY <1>1 DEF CancelledTogether, OrderFollowsAppointment, BeforePayment
<1>3. OthersStayConfirmed'
  BY <1>1 DEF OthersStayConfirmed, OrderDetails, StatusesAgree
<1>4. RepairTrail' /\ MirrorIsCurrent'
  BY DEF RepairTrail, Trail, MirrorIsCurrent
<1>. QED
  BY <1>2, <1>3, <1>4 DEF StatusesAgree

LEMMA CompleteInv ==
  ASSUME IInv, AdminComplete
  PROVE  StatusesAgree' /\ RepairTrail' /\ MirrorIsCurrent'
<1>1. /\ orderStatus = "paid" /\ orderStatus' = "completed"
      /\ UNCHANGED <<detailStatus, apptDetail, apptStatus, mirror, history>>
  BY DEF AdminComplete, detailVars, apptVars, logVars
<1>2. StatusesAgree'
  BY <1>1 DEF IInv, StatusesAgree, CancelledTogether, OthersStayConfirmed, OrderFollowsAppointment,
              OrderDetails, BeforePayment
<1>3. RepairTrail' /\ MirrorIsCurrent'
  BY <1>1 DEF IInv, RepairTrail, Trail, MirrorIsCurrent
<1>. QED
  BY <1>2, <1>3

LEMMA UpdateStatusInv ==
  ASSUME IInv, NEW t \in Technicians, NEW s \in AppointmentStatusEnum,
         UpdateAppointmentStatus(t, s)
  PROVE  StatusesAgree' /\ RepairTrail' /\ MirrorIsCurrent'
<1>1. /\ <<apptStatus, s>> \in ValidStatusTransitions
      /\ apptStatus' = s /\ mirror' = s
      /\ history' = history \cup {<<apptStatus, s>>}
      /\ UNCHANGED <<orderStatus, detailStatus, apptDetail>>
  BY DEF UpdateAppointmentStatus, LogStatus, orderVars, detailVars
<1>2. StatusesAgree'
  BY <1>1 DEF IInv, StatusesAgree, CancelledTogether, OthersStayConfirmed, OrderFollowsAppointment,
              OrderDetails, BeforePayment, ValidStatusTransitions
<1>3. RepairTrail'
  BY <1>1 DEF IInv, RepairTrail, Trail, ValidStatusTransitions
<1>4. MirrorIsCurrent'
  BY <1>1 DEF MirrorIsCurrent
<1>. QED
  BY <1>2, <1>3, <1>4

LEMMA QuoteInv ==
  ASSUME IInv, NEW t \in Technicians, NEW d \in Details, NEW q \in Quotes, Quote(t, d, q)
  PROVE  StatusesAgree' /\ RepairTrail' /\ MirrorIsCurrent'
<1>1. /\ apptStatus \in {"arrived", "in_progress"} /\ apptStatus' = "quoted"
      /\ UNCHANGED <<orderStatus, detailStatus, apptDetail, mirror, history>>
  BY DEF Quote, logVars
<1>2. StatusesAgree'
  BY <1>1 DEF IInv, StatusesAgree, CancelledTogether, OthersStayConfirmed, OrderFollowsAppointment,
              OrderDetails, BeforePayment
<1>3. RepairTrail'
  BY <1>1 DEF IInv, RepairTrail, Trail
<1>4. MirrorIsCurrent'
  BY <1>1 DEF MirrorIsCurrent
<1>. QED
  BY <1>2, <1>3, <1>4

LEMMA RepairInv ==
  ASSUME IInv, NEW t \in Technicians, NEW withImages \in BOOLEAN, CompleteRepair(t, withImages)
  PROVE  StatusesAgree' /\ RepairTrail' /\ MirrorIsCurrent'
<1>1. /\ apptStatus = "in_progress"
      /\ UNCHANGED <<orderStatus, detailStatus, apptDetail>>
      /\ \/ UNCHANGED <<apptStatus, mirror, history>>
         \/ /\ apptStatus' = "technician_done" /\ mirror' = "technician_done"
            /\ history' = history \cup {<<"in_progress", "technician_done">>}
  BY DEF CompleteRepair, LogStatus, orderVars, detailVars
<1>2. StatusesAgree'
  BY <1>1 DEF IInv, StatusesAgree, CancelledTogether, OthersStayConfirmed, OrderFollowsAppointment,
              OrderDetails, BeforePayment
<1>3. RepairTrail'
  BY <1>1 DEF IInv, RepairTrail, Trail
<1>4. MirrorIsCurrent'
  BY <1>1 DEF IInv, MirrorIsCurrent
<1>. QED
  BY <1>2, <1>3, <1>4

LEMMA PaymentInv ==
  ASSUME IInv, NEW t \in Technicians \cup {None}, TechnicianUpdatePaymentStatus(t)
  PROVE  StatusesAgree' /\ RepairTrail' /\ MirrorIsCurrent'
<1>1. /\ apptStatus = "technician_done" /\ orderStatus' = "paid"
      /\ UNCHANGED <<detailStatus, apptDetail, apptStatus, mirror, history>>
  BY DEF TechnicianUpdatePaymentStatus, RepairDone, detailVars, apptVars, logVars
<1>2. StatusesAgree'
  BY <1>1 DEF IInv, StatusesAgree, CancelledTogether, OthersStayConfirmed, OrderFollowsAppointment,
              OrderDetails, BeforePayment
<1>3. RepairTrail' /\ MirrorIsCurrent'
  BY <1>1 DEF IInv, RepairTrail, Trail, MirrorIsCurrent
<1>. QED
  BY <1>2, <1>3

(* Assigning a technician, adding parts and stuttering touch no status. *)
LEMMA StatusStutter ==
  ASSUME IInv, UNCHANGED <<orderStatus, detailStatus, apptDetail, apptStatus, mirror, history>>
  PROVE  StatusesAgree' /\ RepairTrail' /\ MirrorIsCurrent'
BY DEF IInv, StatusesAgree, CancelledTogether, OthersStayConfirmed, OrderFollowsAppointment,
       OrderDetails, BeforePayment, RepairTrail, Trail, MirrorIsCurrent

LEMMA NextInv ==
  ASSUME IInv, [Next]_vars
  PROVE  StatusesAgree' /\ RepairTrail' /\ MirrorIsCurrent'
<1>1. ASSUME NEW D \in SUBSET Details, NEW a \in D \cup {None}, CreateServiceOrder(D, a)
      PROVE  StatusesAgree' /\ RepairTrail' /\ MirrorIsCurrent'
  BY <1>1, CreateInv
<1>2. CASE CustomerUpdate
  BY <1>2, CustomerUpdateInv
<1>3. CASE CustomerQuoteConfirm
  BY <1>3, QuoteConfirmInv
<1>4. CASE CustomerCancel
  BY <1>4, CancelInv
<1>5. CASE AdminConfirm
  BY <1>5, ConfirmInv
<1>6. CASE AdminComplete
  BY <1>6, CompleteInv
<1>7. ASSUME NEW t \in Technicians, TechnicianStep(t)
      PROVE  StatusesAgree' /\ RepairTrail' /\ MirrorIsCurrent'
  <2>1. CASE AssignTechnician(t)
    BY <2>1, StatusStutter DEF AssignTechnician, orderVars, detailVars, logVars
  <2>2. ASSUME NEW s \in AppointmentStatusEnum, UpdateAppointmentStatus(t, s)
        PROVE  StatusesAgree' /\ RepairTrail' /\ MirrorIsCurrent'
    BY <2>2, UpdateStatusInv
  <2>3. ASSUME NEW d \in Details, NEW q \in Quotes, Quote(t, d, q)
        PROVE  StatusesAgree' /\ RepairTrail' /\ MirrorIsCurrent'
    BY <2>3, QuoteInv
  <2>4. ASSUME NEW r \in PartRequests, AddSpareParts(t, r)
        PROVE  StatusesAgree' /\ RepairTrail' /\ MirrorIsCurrent'
    BY <2>4, StatusStutter DEF AddSpareParts, apptVars, logVars
  <2>5. ASSUME NEW withImages \in BOOLEAN, CompleteRepair(t, withImages)
        PROVE  StatusesAgree' /\ RepairTrail' /\ MirrorIsCurrent'
    BY <2>5, RepairInv
  <2>. QED
    BY <1>7, <2>1, <2>2, <2>3, <2>4, <2>5 DEF TechnicianStep
<1>8. ASSUME NEW t \in Technicians \cup {None}, TechnicianUpdatePaymentStatus(t)
      PROVE  StatusesAgree' /\ RepairTrail' /\ MirrorIsCurrent'
  BY <1>8, PaymentInv
<1>9. CASE UNCHANGED vars
  BY <1>9, StatusStutter DEF vars, orderVars, detailVars, apptVars, logVars
<1>. QED
  BY <1>1, <1>2, <1>3, <1>4, <1>5, <1>6, <1>7, <1>8, <1>9, NextCases

THEOREM Invariance == Spec => []IInv
<1>1. Init => StatusesAgree /\ RepairTrail /\ MirrorIsCurrent
  BY InitInv
<1>2. TypeOK /\ (StatusesAgree /\ RepairTrail /\ MirrorIsCurrent) /\ [Next]_vars
        => (StatusesAgree /\ RepairTrail /\ MirrorIsCurrent)'
  BY NextInv DEF IInv
<1>. QED
  BY <1>1, <1>2, TypeCorrect, PTL DEF Spec, IInv

(* The order, detail and appointment statuses agree after every request.   *)
THEOREM StatusAgreement == Spec => []StatusesAgree
BY Invariance, PTL DEF IInv

(* No appointment reaches a repair step without the recorded rows of all    *)
(* the earlier ones, and no order is paid or completed without all of them. *)
THEOREM RepairIsTracked == Spec => []RepairTrail
BY Invariance, PTL DEF IInv

(* The AppointmentStatus row is right whenever a technician moved last. *)
THEOREM MirrorCorrect == Spec => []MirrorIsCurrent
BY Invariance, PTL DEF IInv

(* A cancelled appointment, and an order cancelled with it, never come back. *)
THEOREM CancellationIsFinal == Spec => CancelledIsFinal
<1> DEFINE Stays == apptStatus = "cancelled" =>
                      /\ apptStatus' = "cancelled"
                      /\ orderStatus = "cancelled" => orderStatus' = "cancelled"
<1>1. IInv /\ [Next]_vars => [Stays]_vars
  <2> SUFFICES ASSUME IInv, [Next]_vars, apptStatus = "cancelled"
               PROVE  /\ apptStatus' = "cancelled"
                      /\ orderStatus = "cancelled" => orderStatus' = "cancelled"
    OBVIOUS
  <2>1. /\ apptDetail # None /\ orderStatus # "none"
        /\ detailStatus[apptDetail] = "cancelled"
    BY DEF IInv, StatusesAgree, CancelledTogether, OthersStayConfirmed
  <2>2. ~AdminConfirm /\ ~CustomerUpdate /\ ~CustomerQuoteConfirm
    BY <2>1 DEF AdminConfirm, Confirmable, CustomerUpdate, CustomerQuoteConfirm
  <2>3. \A D \in SUBSET Details : \A a \in D \cup {None} : ~CreateServiceOrder(D, a)
    BY <2>1 DEF CreateServiceOrder
  <2>4. CASE CustomerCancel
    BY <2>4 DEF CustomerCancel
  <2>5. CASE AdminComplete
    BY <2>5 DEF AdminComplete, apptVars
  <2>6. ASSUME NEW t \in Technicians, TechnicianStep(t)
        PROVE  UNCHANGED <<apptStatus, orderStatus>>
    <3>1. \A s \in AppointmentStatusEnum : ~UpdateAppointmentStatus(t, s)
      BY DEF UpdateAppointmentStatus, ValidStatusTransitions
    <3>2. \A d \in Details, q \in Quotes : ~Quote(t, d, q)
      BY DEF Quote
    <3>3. \A withImages \in BOOLEAN : ~CompleteRepair(t, withImages)
      BY DEF CompleteRepair
    <3>4. CASE AssignTechnician(t)
      BY <3>4 DEF AssignTechnician, orderVars
    <3>5. CASE \E r \in PartRequests : AddSpareParts(t, r)
      BY <3>5 DEF AddSpareParts, apptVars
    <3>. QED
      BY <2>6, <3>1, <3>2, <3>3, <3>4, <3>5 DEF TechnicianStep
  <2>7. \A t \in Technicians \cup {None} : ~TechnicianUpdatePaymentStatus(t)
    BY DEF TechnicianUpdatePaymentStatus, RepairDone
  <2>8. CASE UNCHANGED vars
    BY <2>8 DEF vars, orderVars, apptVars
  <2>. QED
    BY <2>2, <2>3, <2>4, <2>5, <2>6, <2>7, <2>8, NextCases
<1>. QED
  BY <1>1, Invariance, PTL DEF Spec, CancelledIsFinal
-----------------------------------------------------------------------------
(* Prices and parts.  The total covers the prices: it grows with every      *)
(* quote and every part by what is charged, and never falls.  So the prices *)
(* of some details can only be equal to it when they are all there are.     *)

Covers == totalAmount >= SumFinal(Details)

NothingToPay == orderStatus = "none" => totalAmount = 0

MoneyInv == Covers /\ NothingToPay /\ CompletedIsBalanced /\ PartsLedger

(* What a step does to the amounts. *)
Quoted(d, q) ==
  /\ orderStatus = "confirmed" /\ orderStatus' = "confirmed"
  /\ finalPrice' = [finalPrice EXCEPT ![d] = q]
  /\ totalAmount' = totalAmount + q
  /\ UNCHANGED <<sparePartPrice, stock, used>>

Charged(d, n) ==
  LET cost == UnitPrice * n
  IN /\ orderStatus # "none" /\ orderStatus' = orderStatus
     /\ used' = used + n /\ stock' = stock - n
     /\ finalPrice' = [finalPrice EXCEPT ![d] = @ + cost]
     /\ sparePartPrice' = [sparePartPrice EXCEPT ![d] = @ + cost]
     /\ totalAmount' = totalAmount + cost

MoneyStays == UNCHANGED <<totalAmount, finalPrice, sparePartPrice, stock, used>>

(* The columns of PartsLedger. *)
PartsStay == UNCHANGED <<sparePartPrice, stock, used>>

PartsTaken(d, n) ==
  LET cost == UnitPrice * n
  IN /\ used' = used + n /\ stock' = stock - n
     /\ sparePartPrice' = [sparePartPrice EXCEPT ![d] = @ + cost]

PartsMoved ==
  PartsStay \/ \E d \in Details, n \in Nat : UnitPrice * n \in Nat /\ PartsTaken(d, n)

LEMMA SumsOfDetails ==
  /\ \A D : SumFinal(D) = SumOf(finalPrice, D)
  /\ SumFinal(Details)' = SumOf(finalPrice', Details)
  /\ MapThenSumSet(LAMBDA d : sparePartPrice[d], Details) = SumOf(sparePartPrice, Details)
  /\ MapThenSumSet(LAMBDA d : sparePartPrice[d], Details)' = SumOf(sparePartPrice', Details)
<1>1. \A D : SumFinal(D) = SumOf(finalPrice, D)
  BY DEF SumFinal, SumOf
<1>2. SumFinal(Details)' = SumOf(finalPrice', Details)
  BY Zenon DEF SumFinal, SumOf, MapThenSumSet, MapThenFoldSet
<1>3. MapThenSumSet(LAMBDA d : sparePartPrice[d], Details) = SumOf(sparePartPrice, Details)
  BY DEF SumOf
<1>4. MapThenSumSet(LAMBDA d : sparePartPrice[d], Details)' = SumOf(sparePartPrice', Details)
  BY Zenon DEF SumOf, MapThenSumSet, MapThenFoldSet
<1> QED BY <1>1, <1>2, <1>3, <1>4

(* A column of amounts has a sum, and one amount can be replaced in it. *)
LEMMA SumOfColumn ==
  ASSUME NEW f \in [Details -> 0..MaxInt]
  PROVE  /\ SumOf(f, Details) \in Nat
         /\ \A d \in Details : f[d] \in Nat
         /\ \A d \in Details : \A v \in Int :
              SumOf([f EXCEPT ![d] = v], Details) = SumOf(f, Details) - f[d] + v
<1>1. f \in [Details -> Int] /\ \A d \in Details : f[d] \in Nat
  BY ConstantsAssumption
<1>2. SumOf(f, Details) \in Nat
  BY <1>1, SumType, ConstantsAssumption
<1>3. \A d \in Details : \A v \in Int :
        SumOf([f EXCEPT ![d] = v], Details) = SumOf(f, Details) - f[d] + v
  <2> TAKE d \in Details
  <2> TAKE v \in Int
  <2> DEFINE g == [f EXCEPT ![d] = v]
  <2>1. g \in [Details -> Int] /\ g[d] = v /\ \A y \in Details \ {d} : g[y] = f[y]
    BY <1>1
  <2>2. f \in [Details -> Int] /\ IsFiniteSet(Details)
    BY <1>1, ConstantsAssumption
  <2> HIDE DEF g
  <2>3. SumOf(g, Details) = SumOf(f, Details) - f[d] + g[d]
    BY <2>1, <2>2, SumUpdate
  <2> QED BY <2>1, <2>3 DEF g
<1> QED BY <1>1, <1>2, <1>3

LEMMA MoneyCases ==
  ASSUME IInv, NothingToPay, [Next]_vars
  PROVE  \/ \E d \in Details, q \in Nat : Quoted(d, q)
         \/ \E d \in Details, n \in Nat : UnitPrice * n \in Nat /\ Charged(d, n)
         \/ /\ MoneyStays
            /\ orderStatus' = "none" => orderStatus = "none"
            /\ orderStatus' = "completed" =>
                 orderStatus = "completed" \/ SumFinal(CompletableDetails) = totalAmount
<1> DEFINE Stays == /\ MoneyStays
                    /\ orderStatus' = "none" => orderStatus = "none"
                    /\ orderStatus' = "completed" => orderStatus = "completed"
<1> USE DEF MoneyStays, orderVars, detailVars, apptVars, stockVars
<1>1. ASSUME NEW D \in SUBSET Details, NEW a \in D \cup {None}, CreateServiceOrder(D, a)
      PROVE  Stays
  BY <1>1 DEF CreateServiceOrder, NothingToPay
<1>2. CustomerUpdate \/ CustomerQuoteConfirm \/ CustomerCancel \/ AdminConfirm => Stays
  BY DEF CustomerUpdate, CustomerQuoteConfirm, CustomerCancel, AdminConfirm
<1>3. AdminComplete => MoneyStays /\ orderStatus' # "none" /\ SumFinal(CompletableDetails) = totalAmount
  BY DEF AdminComplete, TotalMatches
<1>4. ASSUME NEW t \in Technicians, TechnicianStep(t)
      PROVE  \/ \E d \in Details, q \in Nat : Quoted(d, q)
             \/ \E d \in Details, n \in Nat : UnitPrice * n \in Nat /\ Charged(d, n)
             \/ Stays
  <2>1. AssignTechnician(t) => Stays
    BY DEF AssignTechnician
  <2>2. ASSUME NEW new \in AppointmentStatusEnum, UpdateAppointmentStatus(t, new)
        PROVE  Stays
    BY <2>2 DEF UpdateAppointmentStatus
  <2>3. ASSUME NEW d \in Details, NEW q \in Quotes, Quote(t, d, q)
        PROVE  Quoted(d, q) /\ q \in Nat
    <3>1. orderStatus = "confirmed"
      BY <2>3 DEF Quote, IInv, StatusesAgree, OrderFollowsAppointment, BeforePayment
    <3>2. q \in Nat
      BY ConstantsAssumption
    <3> QED BY <2>3, <3>1, <3>2 DEF Quote, Quoted, TotalWithQuote
  <2>4. ASSUME NEW r \in PartRequests, AddSpareParts(t, r)
        PROVE  apptDetail \in Details /\ UnitPrice * r.total \in Nat /\ r.total \in Nat
               /\ Charged(apptDetail, r.total)
    <3>1. apptDetail # None /\ orderStatus # "none"
      BY <2>4 DEF AddSpareParts, IInv, StatusesAgree, OthersStayConfirmed
    <3>2. apptDetail \in Details
      BY <3>1 DEF IInv, TypeOK
    <3> QED BY <2>4, <3>1, <3>2, CostType DEF AddSpareParts, Charged, TotalWithParts, StockAfter
  <2>5. ASSUME NEW withImages \in BOOLEAN, CompleteRepair(t, withImages)
        PROVE  Stays
    BY <2>5 DEF CompleteRepair
  <2> HIDE DEF Stays
  <2> QED BY <1>4, <2>1, <2>2, <2>3, <2>4, <2>5 DEF TechnicianStep
<1>5. ASSUME NEW t \in Technicians \cup {None}, TechnicianUpdatePaymentStatus(t)
      PROVE  Stays
  BY <1>5 DEF TechnicianUpdatePaymentStatus
<1>6. UNCHANGED vars => Stays
  BY DEF vars
<1>7. Stays => /\ MoneyStays
               /\ orderStatus' = "none" => orderStatus = "none"
               /\ orderStatus' = "completed" =>
                    orderStatus = "completed" \/ SumFinal(CompletableDetails) = totalAmount
  OBVIOUS
<1> HIDE DEF Stays, MoneyStays
<1> QED BY <1>1, <1>2, <1>3, <1>4, <1>5, <1>6, <1>7, NextCases

(* What the steps do to the sums. *)
LEMMA QuoteMoves ==
  ASSUME TypeOK, NEW d \in Details, NEW q \in Nat, Quoted(d, q)
  PROVE  /\ finalPrice[d] \in Nat
         /\ SumOf(finalPrice', Details) = SumOf(finalPrice, Details) - finalPrice[d] + q
<1>1. finalPrice \in [Details -> 0..MaxInt] /\ q \in Int
  BY DEF TypeOK
<1>2. finalPrice' = [finalPrice EXCEPT ![d] = q]
  BY DEF Quoted
<1>3. /\ finalPrice[d] \in Nat
      /\ SumOf([finalPrice EXCEPT ![d] = q], Details) = SumOf(finalPrice, Details) - finalPrice[d] + q
  BY <1>1, SumOfColumn
<1> QED BY <1>2, <1>3

LEMMA AmountAdded ==
  ASSUME NEW f \in [Details -> 0..MaxInt], NEW d \in Details, NEW cost \in Nat
  PROVE  SumOf([f EXCEPT ![d] = @ + cost], Details) = SumOf(f, Details) + cost
<1>1. SumOf(f, Details) \in Nat /\ f[d] \in Nat /\ f[d] + cost \in Int
  BY SumOfColumn
<1>2. SumOf([f EXCEPT ![d] = f[d] + cost], Details) = SumOf(f, Details) - f[d] + (f[d] + cost)
  BY <1>1, SumOfColumn
<1> QED BY <1>1, <1>2

LEMMA PartsMove ==
  ASSUME TypeOK, NEW d \in Details, NEW n \in Nat, UnitPrice * n \in Nat, Charged(d, n)
  PROVE  SumOf(finalPrice', Details) = SumOf(finalPrice, Details) + UnitPrice * n
<1> DEFINE cost == UnitPrice * n
<1>1. finalPrice' = [finalPrice EXCEPT ![d] = @ + cost]
  BY DEF Charged
<1>2. cost \in Nat
  OBVIOUS
<1> HIDE DEF cost
<1>3. SumOf([finalPrice EXCEPT ![d] = @ + cost], Details) = SumOf(finalPrice, Details) + cost
  BY <1>2, AmountAdded DEF TypeOK
<1> QED BY <1>1, <1>3 DEF cost

(* Whatever is taken is counted and charged. *)
LEMMA LedgerMoves ==
  ASSUME TypeOK, PartsLedger, PartsMoved
  PROVE  PartsLedger'
<1> DEFINE charged == SumOf(sparePartPrice, Details)
           charges == SumOf(sparePartPrice', Details)
<1>1. /\ stock + used = InitialStock /\ charged = UnitPrice * used
      /\ PartsLedger' <=> stock' + used' = InitialStock /\ charges = UnitPrice * used'
  BY SumsOfDetails DEF PartsLedger
<1>2. charged \in Nat /\ stock \in Int /\ used \in Nat /\ UnitPrice \in Nat /\ InitialStock \in Nat
  BY SumOfColumn, ConstantsAssumption DEF TypeOK
<1>3. ASSUME NEW d \in Details, NEW n \in Nat, UnitPrice * n \in Nat, PartsTaken(d, n)
      PROVE  PartsLedger'
  <2> DEFINE cost == UnitPrice * n
  <2>1. /\ cost \in Nat /\ stock' = stock - n /\ used' = used + n
        /\ sparePartPrice' = [sparePartPrice EXCEPT ![d] = @ + cost]
    BY <1>3 DEF PartsTaken
  <2> HIDE DEF cost
  <2>2. SumOf([sparePartPrice EXCEPT ![d] = @ + cost], Details) = charged + cost
    BY <2>1, AmountAdded DEF TypeOK
  <2>3. charges = charged + cost
    BY <2>1, <2>2
  <2> HIDE DEF charged, charges
  <2>4. UnitPrice * (used + n) = UnitPrice * used + cost
    BY <1>2 DEF cost
  <2>5. (stock - n) + (used + n) = stock + used
    BY <1>2
  <2> QED BY <1>1, <2>1, <2>3, <2>4, <2>5
<1>4. CASE PartsStay
  BY <1>1, <1>4 DEF PartsStay
<1> HIDE DEF charged, charges
<1> QED BY <1>3, <1>4 DEF PartsMoved

(* The gap between total and prices, step by step. *)
LEMMA GapGrows ==
  ASSUME IInv, IInv', NothingToPay, [Next]_vars
  PROVE  /\ totalAmount \in Nat /\ SumFinal(Details) \in Nat
         /\ totalAmount' \in Nat /\ SumFinal(Details)' \in Nat
         /\ totalAmount' - SumFinal(Details)' >= totalAmount - SumFinal(Details)
<1> DEFINE sum == SumOf(finalPrice, Details)
           next == SumOf(finalPrice', Details)
<1>1. SumFinal(Details) = sum /\ SumFinal(Details)' = next
  BY SumsOfDetails
<1>2. /\ totalAmount \in Nat /\ totalAmount' \in Nat
      /\ finalPrice \in [Details -> 0..MaxInt] /\ finalPrice' \in [Details -> 0..MaxInt]
  BY ConstantsAssumption DEF IInv, TypeOK
<1>3. sum \in Nat /\ next \in Nat
  BY <1>2, SumOfColumn
<1>4. ASSUME NEW d \in Details, NEW q \in Nat, Quoted(d, q)
      PROVE  totalAmount' - next >= totalAmount - sum
  <2>1. finalPrice[d] \in Nat /\ next = sum - finalPrice[d] + q /\ totalAmount' = totalAmount + q
    BY <1>4, QuoteMoves DEF IInv, Quoted
  <2> HIDE DEF sum, next
  <2> QED BY <1>2, <1>3, <2>1
<1>5. ASSUME NEW d \in Details, NEW n \in Nat, UnitPrice * n \in Nat, Charged(d, n)
      PROVE  totalAmount' - next >= totalAmount - sum
  <2> DEFINE cost == UnitPrice * n
  <2>1. next = sum + cost /\ totalAmount' = totalAmount + cost /\ cost \in Nat
    BY <1>5, PartsMove DEF IInv, Charged
  <2> HIDE DEF sum, next, cost
  <2> QED BY <1>2, <1>3, <2>1
<1>6. MoneyStays => totalAmount' - next >= totalAmount - sum
  <2>1. MoneyStays => next = sum /\ totalAmount' = totalAmount
    BY DEF MoneyStays
  <2> HIDE DEF sum, next
  <2> QED BY <1>2, <1>3, <2>1
<1> HIDE DEF sum, next
<1>7. totalAmount' - next >= totalAmount - sum
  BY <1>4, <1>5, <1>6, MoneyCases
<1> QED BY <1>1, <1>2, <1>3, <1>7

LEMMA MoneyInit == Init => MoneyInv
<1> SUFFICES ASSUME Init PROVE MoneyInv
  OBVIOUS
<1> DEFINE zero == [d \in Details |-> 0]
<1>1. SumOf(zero, Details) = 0
  BY SumZero, ConstantsAssumption
<1>2. SumFinal(Details) = 0 /\ MapThenSumSet(LAMBDA d : sparePartPrice[d], Details) = 0
  BY <1>1, SumsOfDetails DEF Init
<1>3. UnitPrice * 0 = 0 /\ InitialStock + 0 = InitialStock
  BY ConstantsAssumption
<1> QED BY <1>2, <1>3 DEF Init, MoneyInv, Covers, NothingToPay, CompletedIsBalanced, PartsLedger

LEMMA MoneyNext ==
  ASSUME IInv, IInv', MoneyInv, [Next]_vars
  PROVE  MoneyInv'
<1> USE DEF MoneyInv
<1> DEFINE sum == SumOf(finalPrice, Details)
           next == SumOf(finalPrice', Details)
<1>1. SumFinal(Details) = sum /\ SumFinal(Details)' = next
  BY SumsOfDetails
<1>2. /\ totalAmount \in Nat /\ totalAmount' \in Nat /\ sum \in Nat /\ next \in Nat
      /\ totalAmount' - next >= totalAmount - sum
  BY <1>1, GapGrows
<1>3. Covers'
  <2>1. totalAmount >= sum
    BY <1>1 DEF Covers
  <2>2. totalAmount' >= next
    <3>1. \A m, n, x, y \in Nat : y - n >= x - m /\ x >= m => y >= n
      OBVIOUS
    <3> HIDE DEF sum, next
    <3> QED BY <1>2, <2>1, <3>1
  <2> QED BY <1>1, <2>2 DEF Covers
<1>4. NothingToPay'
  BY MoneyCases DEF NothingToPay, Quoted, Charged, MoneyStays
<1>5. CompletedIsBalanced'
  <2> SUFFICES ASSUME orderStatus' = "completed" PROVE totalAmount' = next
    BY <1>1 DEF CompletedIsBalanced
  <2>1. ASSUME NEW d \in Details, NEW n \in Nat, UnitPrice * n \in Nat, Charged(d, n)
        PROVE  totalAmount' = next
    <3>1. orderStatus = "completed" /\ totalAmount' = totalAmount + UnitPrice * n
      BY <2>1 DEF Charged
    <3>2. totalAmount = sum
      BY <1>1, <3>1 DEF CompletedIsBalanced
    <3> QED BY <2>1, <3>1, <3>2, PartsMove DEF IInv
  <2>2. MoneyStays => totalAmount' = totalAmount /\ next = sum
    BY DEF MoneyStays
  <2>3. CASE SumFinal(CompletableDetails) = totalAmount /\ MoneyStays
    <3>1. CompletableDetails \in SUBSET Details
      BY DEF CompletableDetails
    <3>2. \A d \in Details : finalPrice[d] \in Nat
      BY SumOfColumn DEF IInv, TypeOK
    <3>3. SumOf(finalPrice, CompletableDetails) <= sum
      BY <3>1, <3>2, SumPart, ConstantsAssumption
    <3>4. totalAmount <= sum /\ totalAmount >= sum
      BY <1>1, <2>3, <3>3, SumsOfDetails DEF Covers
    <3> HIDE DEF sum, next
    <3> QED BY <1>2, <2>2, <2>3, <3>4
  <2>4. CASE orderStatus = "completed" /\ MoneyStays
    BY <1>1, <2>2, <2>4 DEF CompletedIsBalanced
  <2>5. \A d \in Details, q \in Nat : ~Quoted(d, q)
    BY DEF Quoted
  <2> HIDE DEF sum, next
  <2> QED BY <2>1, <2>3, <2>4, <2>5, MoneyCases
<1>6. PartsLedger'
  <2>1. \A d \in Details, q \in Nat : Quoted(d, q) => PartsStay
    BY DEF Quoted, PartsStay
  <2>2. \A d \in Details, n \in Nat : Charged(d, n) => PartsTaken(d, n)
    BY DEF Charged, PartsTaken
  <2>3. MoneyStays => PartsStay
    BY DEF MoneyStays, PartsStay
  <2>4. PartsMoved
    BY <2>1, <2>2, <2>3, MoneyCases DEF PartsMoved
  <2> QED BY <2>4, LedgerMoves DEF IInv
<1> QED BY <1>3, <1>4, <1>5, <1>6

LEMMA MoneyInvariance == Spec => []MoneyInv
BY MoneyInit, MoneyNext, Invariance, PTL DEF Spec

(* adminComplete compares the total with the prices of the details it finds *)
(* valid only; still a completed order is paid for exactly, all of it.      *)
THEOREM CompletedOrdersBalance == Spec => []CompletedIsBalanced
BY MoneyInvariance, PTL DEF MoneyInv

(* No part is lost, and the details are charged for the parts used.         *)
THEOREM PartsAreAccountedFor == Spec => []PartsLedger
BY MoneyInvariance, PTL DEF MoneyInv

(* An order whose total has left its prices behind never gets even again.   *)
THEOREM GapsStayOpen == Spec => GapNeverShrinks
<1>1. IInv /\ IInv' /\ MoneyInv /\ [Next]_vars
        => [totalAmount' - SumFinal(Details)' >= totalAmount - SumFinal(Details)]_vars
  BY GapGrows DEF MoneyInv
<1> QED BY <1>1, Invariance, MoneyInvariance, PTL DEF Spec, GapNeverShrinks
-----------------------------------------------------------------------------
(* Requests under way together.  A request acts on what it read when it     *)
(* began, while others move on or die.  What it remembers stays good        *)
(* because the history only grows and a row that exists stays: so no order  *)
(* of their statements, and no crash between two of them, breaks the trail  *)
(* of the repair or the ledger of the parts.                                *)

Good(op, at, arg, saw) ==
  /\ op \in Handlers \cup {"idle"}
  /\ op # "idle" => orderStatus # "none"
  /\ op \notin {"idle", "adminComplete", "updatePaymentStatus"} => apptDetail # None
  /\ op = "customerUpdate" => saw \in Nat /\ saw < MaxReschedules
  /\ op \in {"customerQuoteConfirm", "quote"} => Trail("quoted") \subseteq history
  /\ op = "adminComplete" => Trail("technician_done") \subseteq history
  /\ op = "updateAppointmentStatus" =>
       <<saw, arg>> \in ValidStatusTransitions /\ Trail(saw) \subseteq history
  /\ op = "completeRepair" => arg \in BOOLEAN /\ Trail("in_progress") \subseteq history
  /\ op = "quote" =>
       /\ arg \in [detail : Details, quote : Quotes]
       /\ at = "commit" => saw \in 0..MaxInt
  /\ op = "addSpareParts" => arg \in PartRequests
  /\ op = "updatePaymentStatus" =>
       /\ at \in {"readDetails", "order"} => Trail(saw) \subseteq history
       /\ at = "order" => saw = "technician_done"

Remembers(w) ==
  LET r == req[w]
  IN  r = [op |-> r.op, at |-> r.at, arg |-> r.arg, saw |-> r.saw]
        /\ Good(r.op, r.at, r.arg, r.saw)

(* An order that does not exist has no appointment; every appointment has a *)
(* status, and only an appointment has one or a technician.                 *)
RowsExist ==
  /\ orderStatus = "none" => apptDetail = None
  /\ apptDetail = None => technician = None
  /\ apptDetail = None <=> apptStatus = "none"

Slots ==
  /\ req = [w \in Workers |-> req[w]]
  /\ locked \in [{"appointment", "detail"} -> Workers \cup {None}]

RInv == TypeOK /\ Slots /\ RowsExist /\ RepairTrail /\ \A w \in Workers : Remembers(w)

(* What a request relies on and every step leaves it. *)
Grows ==
  /\ history \subseteq history'
  /\ orderStatus # "none" => orderStatus' # "none" /\ apptDetail' = apptDetail

(* What every step does to the rows, and every step of a request besides. *)
RowsMove == TypeOK' /\ RowsExist' /\ RepairTrail' /\ Grows /\ PartsMoved

Sound(w) ==
  /\ RowsMove /\ Slots' /\ Remembers(w)'
  /\ \A v \in Workers \ {w} : req'[v] = req[v]

LEMMA GoodLasts ==
  ASSUME NEW op, NEW at, NEW arg, NEW saw, Good(op, at, arg, saw), Grows
  PROVE  Good(op, at, arg, saw)'
BY DEF Good, Grows

LEMMA MemoryLasts ==
  ASSUME NEW w \in Workers, Remembers(w), req'[w] = req[w], Grows
  PROVE  Remembers(w)'
BY GoodLasts DEF Remembers

LEMMA RowsStay ==
  ASSUME TypeOK, RowsExist, RepairTrail, UNCHANGED rowVars
  PROVE  RowsMove
<1> USE DEF rowVars, orderVars, detailVars, apptVars, logVars, stockVars
<1>1. TypeOK'
  BY DEF TypeOK
<1>2. RowsExist' /\ RepairTrail' /\ Grows /\ PartsMoved
  BY DEF RowsExist, RepairTrail, Grows, PartsMoved, PartsStay
<1> QED BY <1>1, <1>2 DEF RowsMove

LEMMA LockKept ==
  ASSUME Slots, NEW w \in Workers, NEW row,
         Lock(w, row) \/ Unlock(row) \/ UNCHANGED locked
  PROVE  locked' \in [{"appointment", "detail"} -> Workers \cup {None}]
BY DEF Slots, Lock, Unlock

(* A request begins with something good to remember. *)
LEMMA BeginSound ==
  ASSUME RInv, NEW w \in Workers, NEW op, NEW at, NEW arg, NEW saw, Begin(w, op, at, arg, saw),
         op \in Handlers => Good(op, at, arg, saw)
  PROVE  Sound(w)
<1>1. /\ req'[w] = [op |-> op, at |-> at, arg |-> arg, saw |-> saw]
      /\ \A v \in Workers \ {w} : req'[v] = req[v]
      /\ Slots' /\ op \in Handlers /\ UNCHANGED rowVars
  BY RequestsAssumption DEF RInv, Slots, Begin, IdleWorker
<1>2. RowsMove
  BY <1>1, RowsStay DEF RInv
<1>3. Good(op, at, arg, saw)'
  BY <1>1, <1>2, GoodLasts DEF RowsMove
<1>4. Remembers(w)'
  BY <1>1, <1>3 DEF Remembers
<1> QED BY <1>1, <1>2, <1>4 DEF Sound

(* A request goes on to its next statement. *)
LEMMA ProceedSound ==
  ASSUME RInv, NEW w \in Workers, NEW op, NEW from, NEW to, Proceed(w, op, from, to), RowsMove,
         locked' \in [{"appointment", "detail"} -> Workers \cup {None}],
         Good(op, from, req[w].arg, req[w].saw) => Good(op, to, req[w].arg, req[w].saw)
  PROVE  Sound(w)
<1>1. /\ Good(op, from, req[w].arg, req[w].saw)
      /\ req'[w] = [op |-> op, at |-> to, arg |-> req[w].arg, saw |-> req[w].saw]
      /\ \A v \in Workers \ {w} : req'[v] = req[v]
      /\ Slots'
  BY DEF RInv, Slots, Proceed, At, Remembers
<1>2. Good(op, to, req[w].arg, req[w].saw)'
  BY <1>1, GoodLasts DEF RowsMove, Good, Grows
<1>3. Remembers(w)'
  BY <1>1, <1>2 DEF Remembers
<1> QED BY <1>1, <1>3 DEF Sound

(* A request ends. *)
LEMMA ReturnSound ==
  ASSUME RInv, NEW w \in Workers, req' = [req EXCEPT ![w] = Idle], RowsMove,
         locked' \in [{"appointment", "detail"} -> Workers \cup {None}]
  PROVE  Sound(w)
<1>1. req'[w] = Idle /\ Slots' /\ \A v \in Workers \ {w} : req'[v] = req[v]
  BY DEF RInv, Slots
<1>2. Remembers(w)'
  BY <1>1 DEF Remembers, Good, Idle, Handlers
<1> QED BY <1>1, <1>2 DEF Sound

(* An appointment has its order. *)
LEMMA OrderExists ==
  ASSUME RInv, apptStatus # "none" \/ apptDetail # None \/ technician # None
  PROVE  apptDetail # None /\ orderStatus # "none" /\ apptDetail \in Details
BY DEF RInv, RowsExist, TypeOK

(* A request reads one more value, to remember instead. *)
Reads(w, to, saw) == req' = [req EXCEPT ![w].at = to, ![w].saw = saw]

LEMMA ReadSlot ==
  ASSUME Slots, NEW w \in Workers, Remembers(w), NEW to, NEW saw, Reads(w, to, saw)
  PROVE  /\ req'[w] = [op |-> req[w].op, at |-> to, arg |-> req[w].arg, saw |-> saw]
         /\ \A v \in Workers \ {w} : req'[v] = req[v]
         /\ req' = [v \in Workers |-> req'[v]]
<1> DEFINE moved == [req EXCEPT ![w].at = to]
<1>1. /\ moved[w] = [op |-> req[w].op, at |-> to, arg |-> req[w].arg, saw |-> req[w].saw]
      /\ \A v \in Workers \ {w} : moved[v] = req[v]
      /\ moved = [v \in Workers |-> moved[v]]
  BY DEF Slots, Remembers
<1>2. req' = [moved EXCEPT ![w].saw = saw]
  BY DEF Reads
<1> HIDE DEF moved
<1>3. req'[w] = [moved[w] EXCEPT !.saw = saw]
  BY <1>1, <1>2
<1>4. /\ \A v \in Workers \ {w} : req'[v] = req[v]
      /\ req' = [v \in Workers |-> req'[v]]
  BY <1>1, <1>2
<1>5. req'[w] = [op |-> req[w].op, at |-> to, arg |-> req[w].arg, saw |-> saw]
  BY <1>1, <1>3
<1> QED BY <1>4, <1>5

(* Statements that change no row. *)
LEMMA QuietSound ==
  ASSUME RInv, NEW w \in Workers, NEW op, NEW from, NEW to,
         \/ /\ Proceed(w, op, from, to)
            /\ Good(op, from, req[w].arg, req[w].saw) => Good(op, to, req[w].arg, req[w].saw)
         \/ Return(w, op, from),
         NEW row, Lock(w, row) \/ Unlock(row) \/ UNCHANGED locked, UNCHANGED rowVars
  PROVE  Sound(w)
<1>1. RowsMove
  BY RowsStay DEF RInv
<1>2. locked' \in [{"appointment", "detail"} -> Workers \cup {None}]
  BY LockKept DEF RInv
<1>3. CASE /\ Proceed(w, op, from, to)
           /\ Good(op, from, req[w].arg, req[w].saw) => Good(op, to, req[w].arg, req[w].saw)
  BY <1>1, <1>2, <1>3, ProceedSound
<1>4. CASE Return(w, op, from)
  BY <1>1, <1>2, <1>4, ReturnSound DEF Return
<1> QED BY <1>3, <1>4

(* Where it stands matters to two handlers only. *)
LEMMA AnyStatement ==
  \A op, from, to, arg, saw :
    op \notin {"quote", "updatePaymentStatus"} /\ Good(op, from, arg, saw) => Good(op, to, arg, saw)
BY DEF Good

LEMMA StatusTypes ==
  /\ TechnicianUpdateStatuses \subseteq AppointmentStatusEnum
  /\ {"booked", "confirmed", "cancelled", "quoted", "quote_confirmed", "technician_done"}
       \subseteq AppointmentStatusEnum
  /\ {"booked", "confirmed", "cancelled"} \subseteq ServiceOrderDetailStatusEnum
  /\ {"booked", "confirmed", "paid", "completed", "cancelled"} \subseteq ServiceOrderStatusEnum
BY DEF TechnicianUpdateStatuses, AppointmentStatusEnum, ServiceOrderDetailStatusEnum,
       ServiceOrderStatusEnum

(* The statements that write one status column each. *)
LEMMA AppointmentSet ==
  ASSUME RInv, apptDetail # None, NEW w \in Workers, NEW status, SetAppointment(w, status),
         status \in {"booked", "confirmed", "cancelled", "quote_confirmed"},
         status = "quote_confirmed" => Trail("quoted") \subseteq history,
         rescheduleCount' \in 0..MaxReschedules,
         UNCHANGED <<orderVars, detailVars, apptDetail, technician, logVars, stockVars>>
  PROVE  RowsMove
<1> USE DEF RInv, SetAppointment, orderVars, detailVars, logVars, stockVars
<1>1. TypeOK'
  BY StatusTypes DEF TypeOK
<1>2. RowsExist' /\ RepairTrail' /\ Grows /\ PartsMoved
  BY DEF RowsExist, RepairTrail, Trail, Grows, PartsMoved, PartsStay
<1> QED BY <1>1, <1>2 DEF RowsMove

LEMMA DetailAndOrderSet ==
  ASSUME RInv,
         \/ detailStatus' = detailStatus
         \/ \E st \in ServiceOrderDetailStatusEnum : detailStatus' = [detailStatus EXCEPT ![apptDetail] = st],
         orderStatus' \in ServiceOrderStatusEnum \cup {orderStatus},
         orderStatus' \in {"paid", "completed"} => Trail("technician_done") \subseteq history,
         UNCHANGED <<totalAmount, finalPrice, sparePartPrice, apptVars, logVars, stockVars>>
  PROVE  RowsMove
<1> USE DEF RInv, apptVars, logVars, stockVars
<1>1. TypeOK'
  BY StatusTypes DEF TypeOK
<1>2. orderStatus # "none" => orderStatus' # "none"
  BY DEF ServiceOrderStatusEnum
<1>3. RowsExist' /\ RepairTrail' /\ Grows /\ PartsMoved
  BY <1>2 DEF RowsExist, RepairTrail, Grows, PartsMoved, PartsStay
<1> QED BY <1>1, <1>3 DEF RowsMove

(* The steps of each handler. *)
LEMMA CustomerUpdateSound ==
  ASSUME RInv, NEW w \in Workers, CustomerUpdateStep(w)
  PROVE  Sound(w)
<1> DEFINE op == "customerUpdate"
<1>1. CASE /\ apptStatus \in {"booked", "confirmed"}
           /\ rescheduleCount < MaxReschedules
           /\ Begin(w, op, "appointment", None, rescheduleCount)
  <2>1. Good(op, "appointment", None, rescheduleCount)
    BY <1>1, OrderExists DEF Good, Handlers, RInv, TypeOK
  <2> QED BY <1>1, <2>1, BeginSound
<1>2. CASE /\ Proceed(w, op, "appointment", "readDetail")
           /\ SetAppointment(w, "booked")
           /\ rescheduleCount' = req[w].saw + 1
           /\ UNCHANGED <<orderVars, detailVars, apptDetail, technician, logVars, stockVars, locked>>
  <2>1. Remembers(w) /\ req[w].op = op
    BY <1>2 DEF RInv, Proceed, At
  <2>2. apptDetail # None /\ rescheduleCount' \in 0..MaxReschedules
    BY <1>2, <2>1, ConstantsAssumption DEF Remembers, Good
  <2>3. RowsMove
    BY <1>2, <2>2, AppointmentSet
  <2> QED BY <1>2, <2>3, AnyStatement, ProceedSound DEF RInv, Slots
<1>3. CASE /\ \/ Proceed(w, op, "readDetail", "detail")
              \/ Proceed(w, op, "detail", "readOrder")
              \/ Proceed(w, op, "readOrder", "commit")
              \/ Return(w, op, "readDetail") \/ Return(w, op, "readOrder")
           /\ Lock(w, "detail") \/ Unlock("detail") \/ UNCHANGED locked
           /\ UNCHANGED rowVars
  BY <1>3, AnyStatement, QuietSound
<1>4. CASE /\ Return(w, op, "commit")
           /\ SetDetail(w, "booked")
           /\ orderStatus' = "booked"
           /\ Unlock("detail")
           /\ UNCHANGED <<totalAmount, finalPrice, sparePartPrice, apptVars, logVars, stockVars>>
  <2>1. RowsMove
    BY <1>4, StatusTypes, DetailAndOrderSet DEF SetDetail
  <2>2. locked' \in [{"appointment", "detail"} -> Workers \cup {None}]
    BY <1>4, LockKept DEF RInv
  <2> QED BY <1>4, <2>1, <2>2, ReturnSound DEF Return
<1> QED BY <1>1, <1>2, <1>3, <1>4 DEF CustomerUpdateStep

LEMMA QuoteConfirmSound ==
  ASSUME RInv, NEW w \in Workers, QuoteConfirmStep(w)
  PROVE  Sound(w)
<1> DEFINE op == "customerQuoteConfirm"
<1>1. CASE apptStatus = "quoted" /\ Begin(w, op, "appointment", None, None)
  <2>1. Good(op, "appointment", None, None)
    BY <1>1, OrderExists DEF Good, Handlers, RInv, RepairTrail
  <2> QED BY <1>1, <2>1, BeginSound
<1>2. CASE /\ Proceed(w, op, "appointment", "readDetail")
           /\ SetAppointment(w, "quote_confirmed")
           /\ UNCHANGED <<orderVars, detailVars, apptDetail, technician, rescheduleCount, logVars,
                          stockVars, locked>>
  <2>1. Remembers(w) /\ req[w].op = op
    BY <1>2 DEF RInv, Proceed, At
  <2>2. apptDetail # None /\ Trail("quoted") \subseteq history /\ rescheduleCount' \in 0..MaxReschedules
    BY <1>2, <2>1 DEF Remembers, Good, RInv, TypeOK
  <2>3. RowsMove
    BY <1>2, <2>2, AppointmentSet
  <2> QED BY <1>2, <2>3, AnyStatement, ProceedSound DEF RInv, Slots
<1>3. CASE /\ Proceed(w, op, "readDetail", "detail") \/ Return(w, op, "readDetail")
           /\ UNCHANGED <<rowVars, locked>>
  BY <1>3, AnyStatement, QuietSound
<1>4. CASE /\ Return(w, op, "detail")
           /\ SetDetail(w, "confirmed")
           /\ UNCHANGED <<orderVars, finalPrice, sparePartPrice, apptVars, logVars, stockVars, locked>>
  <2>1. RowsMove
    BY <1>4, StatusTypes, DetailAndOrderSet DEF SetDetail, orderVars, RInv, RepairTrail
  <2> QED BY <1>4, <2>1, ReturnSound DEF Return, RInv, Slots
<1> QED BY <1>1, <1>2, <1>3, <1>4 DEF QuoteConfirmStep

LEMMA CancelSound ==
  ASSUME RInv, NEW w \in Workers, CancelStep(w)
  PROVE  Sound(w)
<1> DEFINE op == "customerCancel"
<1>1. CASE apptStatus # "none" /\ Begin(w, op, "appointment", None, None)
  <2>1. Good(op, "appointment", None, None)
    BY <1>1, OrderExists DEF Good, Handlers
  <2> QED BY <1>1, <2>1, BeginSound
<1>2. CASE /\ Proceed(w, op, "appointment", "detail")
           /\ SetAppointment(w, "cancelled")
           /\ UNCHANGED <<orderVars, detailVars, apptDetail, technician, rescheduleCount, logVars,
                          stockVars, locked>>
  <2>1. Remembers(w) /\ req[w].op = op
    BY <1>2 DEF RInv, Proceed, At
  <2>2. apptDetail # None /\ rescheduleCount' \in 0..MaxReschedules
    BY <1>2, <2>1 DEF Remembers, Good, RInv, TypeOK
  <2>3. RowsMove
    BY <1>2, <2>2, AppointmentSet
  <2> QED BY <1>2, <2>3, AnyStatement, ProceedSound DEF RInv, Slots
<1>3. CASE /\ Proceed(w, op, "detail", "readDetails")
           /\ SetDetail(w, "cancelled")
           /\ UNCHANGED <<orderVars, finalPrice, sparePartPrice, apptVars, logVars, stockVars, locked>>
  <2>1. RowsMove
    BY <1>3, StatusTypes, DetailAndOrderSet DEF SetDetail, orderVars, RInv, RepairTrail
  <2> QED BY <1>3, <2>1, AnyStatement, ProceedSound DEF RInv, Slots
<1>4. CASE /\ Proceed(w, op, "readDetails", "order") \/ Return(w, op, "readDetails")
           /\ UNCHANGED <<rowVars, locked>>
  BY <1>4, AnyStatement, QuietSound
<1>5. CASE /\ Return(w, op, "order")
           /\ orderStatus' = "cancelled"
           /\ UNCHANGED <<totalAmount, detailVars, apptVars, logVars, stockVars, locked>>
  <2>1. RowsMove
    BY <1>5, StatusTypes, DetailAndOrderSet DEF detailVars
  <2> QED BY <1>5, <2>1, ReturnSound DEF Return, RInv, Slots
<1> QED BY <1>1, <1>2, <1>3, <1>4, <1>5 DEF CancelStep

LEMMA ConfirmSound ==
  ASSUME RInv, NEW w \in Workers, ConfirmStep(w)
  PROVE  Sound(w)
<1> DEFINE op == "adminConfirm"
<1>1. CASE /\ apptDetail # None /\ Confirmable(apptDetail)
           /\ Begin(w, op, "appointment", None, None)
  <2>1. Good(op, "appointment", None, None)
    BY <1>1, OrderExists DEF Good, Handlers
  <2> QED BY <1>1, <2>1, BeginSound
<1>2. CASE /\ Proceed(w, op, "appointment", "detail")
           /\ SetAppointment(w, "confirmed")
           /\ UNCHANGED <<orderVars, detailVars, apptDetail, technician, rescheduleCount, logVars,
                          stockVars, locked>>
  <2>1. Remembers(w) /\ req[w].op = op
    BY <1>2 DEF RInv, Proceed, At
  <2>2. apptDetail # None /\ rescheduleCount' \in 0..MaxReschedules
    BY <1>2, <2>1 DEF Remembers, Good, RInv, TypeOK
  <2>3. RowsMove
    BY <1>2, <2>2, AppointmentSet
  <2> QED BY <1>2, <2>3, AnyStatement, ProceedSound DEF RInv, Slots
<1>3. CASE /\ Proceed(w, op, "detail", "order")
           /\ SetDetail(w, "confirmed")
           /\ UNCHANGED <<orderVars, finalPrice, sparePartPrice, apptVars, logVars, stockVars, locked>>
  <2>1. RowsMove
    BY <1>3, StatusTypes, DetailAndOrderSet DEF SetDetail, orderVars, RInv, RepairTrail
  <2> QED BY <1>3, <2>1, AnyStatement, ProceedSound DEF RInv, Slots
<1>4. CASE /\ Return(w, op, "order")
           /\ orderStatus' = "confirmed"
           /\ UNCHANGED <<totalAmount, detailVars, apptVars, logVars, stockVars, locked>>
  <2>1. RowsMove
    BY <1>4, StatusTypes, DetailAndOrderSet DEF detailVars
  <2> QED BY <1>4, <2>1, ReturnSound DEF Return, RInv, Slots
<1> QED BY <1>1, <1>2, <1>3, <1>4 DEF ConfirmStep

LEMMA CompleteSound ==
  ASSUME RInv, NEW w \in Workers, CompleteStep(w)
  PROVE  Sound(w)
<1> DEFINE op == "adminComplete"
<1>1. CASE orderStatus = "paid" /\ Begin(w, op, "readDetails", None, totalAmount)
  <2>1. Good(op, "readDetails", None, totalAmount)
    BY <1>1 DEF Good, Handlers, RInv, RepairTrail
  <2> QED BY <1>1, <2>1, BeginSound
<1>2. CASE /\ Proceed(w, op, "readDetails", "order") \/ Return(w, op, "readDetails")
           /\ UNCHANGED <<rowVars, locked>>
  BY <1>2, AnyStatement, QuietSound
<1>3. CASE /\ Return(w, op, "order")
           /\ orderStatus' = "completed"
           /\ UNCHANGED <<totalAmount, detailVars, apptVars, logVars, stockVars, locked>>
  <2>1. Trail("technician_done") \subseteq history
    BY <1>3 DEF RInv, Return, At, Remembers, Good
  <2>2. RowsMove
    BY <1>3, <2>1, StatusTypes, DetailAndOrderSet DEF detailVars
  <2> QED BY <1>3, <2>2, ReturnSound DEF Return, RInv, Slots
<1> QED BY <1>1, <1>2, <1>3 DEF CompleteStep

LEMMA UpdateStatusSound ==
  ASSUME RInv, NEW w \in Workers, UpdateStatusStep(w)
  PROVE  Sound(w)
<1> DEFINE op == "updateAppointmentStatus"
<1>1. ASSUME NEW new \in TechnicianUpdateStatuses, technician # None,
             <<apptStatus, new>> \in ValidStatusTransitions, Begin(w, op, "push", new, apptStatus)
      PROVE  Sound(w)
  <2>1. Good(op, "push", new, apptStatus)
    BY <1>1, OrderExists DEF Good, Handlers, RInv, RepairTrail
  <2> QED BY <1>1, <2>1, BeginSound
<1>2. CASE /\ Proceed(w, op, "push", "commit")
           /\ Lock(w, "appointment")
           /\ announced' = announced \cup {req[w].arg}
           /\ UNCHANGED <<orderVars, detailVars, apptVars, mirror, history, warranty, stockVars>>
  <2> USE DEF orderVars, detailVars, apptVars, stockVars
  <2>1. req[w].arg \in AppointmentStatusEnum
    BY <1>2 DEF RInv, Proceed, At, Remembers, Good, ValidStatusTransitions, AppointmentStatusEnum
  <2>2. TypeOK'
    BY <1>2, <2>1 DEF RInv, TypeOK
  <2>3. RowsMove
    BY <1>2, <2>2 DEF RowsMove, RInv, RowsExist, RepairTrail, Grows, PartsMoved, PartsStay
  <2>4. locked' \in [{"appointment", "detail"} -> Workers \cup {None}]
    BY <1>2, LockKept DEF RInv
  <2> QED BY <1>2, <2>3, <2>4, AnyStatement, ProceedSound
<1>3. CASE /\ Return(w, op, "commit")
           /\ SetAppointment(w, req[w].arg)
           /\ mirror' = req[w].arg
           /\ history' = history \cup {<<req[w].saw, req[w].arg>>}
           /\ Unlock("appointment")
           /\ UNCHANGED <<orderVars, detailVars, apptDetail, technician, rescheduleCount, announced,
                          warranty, stockVars>>
  <2> USE DEF orderVars, detailVars, stockVars
  <2>1. /\ <<req[w].saw, req[w].arg>> \in ValidStatusTransitions
        /\ Trail(req[w].saw) \subseteq history /\ apptDetail # None
    BY <1>3 DEF RInv, Return, At, Remembers, Good
  <2>2. /\ req[w].saw \in AppointmentStatusEnum /\ req[w].arg \in AppointmentStatusEnum
        /\ apptStatus' = req[w].arg
    BY <1>3, <2>1 DEF ValidStatusTransitions, AppointmentStatusEnum, SetAppointment
  <2>3. TypeOK'
    BY <1>3, <2>2 DEF RInv, TypeOK
  <2>4. Trail(req[w].arg) \subseteq Trail(req[w].saw) \cup {<<req[w].saw, req[w].arg>>}
    BY <2>1 DEF ValidStatusTransitions, Trail
  <2>5. RepairTrail'
    BY <1>3, <2>1, <2>2, <2>4 DEF RepairTrail, RInv
  <2>6. RowsMove
    BY <1>3, <2>1, <2>2, <2>3, <2>5
       DEF RowsMove, RInv, RowsExist, Grows, PartsMoved, PartsStay, AppointmentStatusEnum
  <2>7. locked' \in [{"appointment", "detail"} -> Workers \cup {None}]
    BY <1>3, LockKept DEF RInv
  <2> QED BY <1>3, <2>6, <2>7, ReturnSound DEF Return
<1> QED BY <1>1, <1>2, <1>3 DEF UpdateStatusStep

LEMMA CompleteRepairSound ==
  ASSUME RInv, NEW w \in Workers, CompleteRepairStep(w)
  PROVE  Sound(w)
<1> DEFINE op == "completeRepair"
           accepted == req[w].arg => warranty[apptDetail] = None /\ OrderId \in Services
<1>1. ASSUME NEW withImages \in BOOLEAN, technician # None, apptStatus = "in_progress",
             Begin(w, op, "push", withImages, None)
      PROVE  Sound(w)
  <2>1. Good(op, "push", withImages, None)
    BY <1>1, OrderExists DEF Good, Handlers, RInv, RepairTrail
  <2> QED BY <1>1, <2>1, BeginSound
<1>2. CASE /\ Proceed(w, op, "push", "commit")
           /\ Lock(w, "appointment")
           /\ announced' = announced \cup {"technician_done"}
           /\ UNCHANGED <<orderVars, detailVars, apptVars, mirror, history, warranty, stockVars>>
  <2> USE DEF orderVars, detailVars, apptVars, stockVars
  <2>1. TypeOK'
    BY <1>2, StatusTypes DEF RInv, TypeOK
  <2>2. RowsMove
    BY <1>2, <2>1 DEF RowsMove, RInv, RowsExist, RepairTrail, Grows, PartsMoved, PartsStay
  <2>3. locked' \in [{"appointment", "detail"} -> Workers \cup {None}]
    BY <1>2, LockKept DEF RInv
  <2> QED BY <1>2, <2>2, <2>3, AnyStatement, ProceedSound
<1>3. CASE /\ Return(w, op, "commit")
           /\ accepted
           /\ SetAppointment(w, "technician_done")
           /\ mirror' = "technician_done"
           /\ history' = history \cup {<<"in_progress", "technician_done">>}
           /\ warranty' = IF req[w].arg THEN [warranty EXCEPT ![apptDetail] = OrderId] ELSE warranty
           /\ Unlock("appointment")
           /\ UNCHANGED <<orderVars, detailVars, apptDetail, technician, rescheduleCount, announced, stockVars>>
  <2> USE DEF orderVars, detailVars, stockVars
  <2>1. Trail("in_progress") \subseteq history /\ apptDetail # None /\ req[w].arg \in BOOLEAN
    BY <1>3 DEF RInv, Return, At, Remembers, Good
  <2>2. <<"in_progress", "technician_done">> \in AppointmentStatusEnum \X AppointmentStatusEnum
    BY DEF AppointmentStatusEnum
  <2>3. warranty' \in [Details -> Services \cup {None}]
    <3>1. CASE req[w].arg
      BY <1>3, <3>1 DEF RInv, TypeOK
    <3>2. CASE ~req[w].arg
      BY <1>3, <3>2 DEF RInv, TypeOK
    <3> QED BY <3>1, <3>2
  <2>4. TypeOK'
    BY <1>3, <2>2, <2>3, StatusTypes DEF RInv, TypeOK, SetAppointment
  <2>5. RepairTrail'
    BY <1>3, <2>1 DEF RepairTrail, RInv, Trail, SetAppointment
  <2>6. RowsMove
    BY <1>3, <2>1, <2>4, <2>5
       DEF RowsMove, RInv, RowsExist, Grows, PartsMoved, PartsStay, SetAppointment
  <2>7. locked' \in [{"appointment", "detail"} -> Workers \cup {None}]
    BY <1>3, LockKept DEF RInv
  <2> QED BY <1>3, <2>6, <2>7, ReturnSound DEF Return
<1>4. CASE Return(w, op, "commit") /\ ~accepted /\ Unlock("appointment") /\ UNCHANGED rowVars
  BY <1>4, QuietSound
<1> QED BY <1>1, <1>2, <1>3, <1>4 DEF CompleteRepairStep

LEMMA QuoteSound ==
  ASSUME RInv, NEW w \in Workers, QuoteStep(w)
  PROVE  Sound(w)
<1> DEFINE op == "quote"
           total == req[w].saw + req[w].arg.quote
<1>1. ASSUME NEW d \in OrderDetails, NEW q \in Quotes, technician # None,
             apptStatus \in {"arrived", "in_progress"},
             Begin(w, op, "readOrder", [detail |-> d, quote |-> q], None)
      PROVE  Sound(w)
  <2>1. Good(op, "readOrder", [detail |-> d, quote |-> q], None)
    BY <1>1, OrderExists DEF Good, Handlers, RInv, RepairTrail, Trail, OrderDetails
  <2> QED BY <1>1, <2>1, BeginSound
<1>2. CASE /\ At(w, op, "readOrder")
           /\ req' = [req EXCEPT ![w].at = "commit", ![w].saw = totalAmount]
           /\ UNCHANGED <<rowVars, locked>>
  <2>1. Good(op, "readOrder", req[w].arg, req[w].saw)
    BY <1>2 DEF RInv, Remembers, At
  <2>2. Good(op, "commit", req[w].arg, totalAmount)
    BY <2>1 DEF Good, RInv, TypeOK
  <2>3. /\ req'[w] = [op |-> op, at |-> "commit", arg |-> req[w].arg, saw |-> totalAmount]
        /\ \A v \in Workers \ {w} : req'[v] = req[v]
        /\ Slots'
    <3>1. Slots /\ Remembers(w)
      BY DEF RInv
    <3>2. Reads(w, "commit", totalAmount)
      BY <1>2 DEF Reads
    <3>3. /\ req'[w] = [op |-> req[w].op, at |-> "commit", arg |-> req[w].arg, saw |-> totalAmount]
          /\ \A v \in Workers \ {w} : req'[v] = req[v]
          /\ req' = [v \in Workers |-> req'[v]]
      BY <3>1, <3>2, ReadSlot
    <3> QED BY <1>2, <3>1, <3>3 DEF Slots, At
  <2>4. RowsMove
    BY <1>2, RowsStay DEF RInv
  <2>5. Remembers(w)'
    BY <2>2, <2>3, <2>4, GoodLasts DEF Remembers, RowsMove
  <2> QED BY <2>3, <2>4, <2>5 DEF Sound
<1>3. CASE /\ Return(w, op, "commit")
           /\ FitsInt(total)
           /\ finalPrice' = [finalPrice EXCEPT ![req[w].arg.detail] = req[w].arg.quote]
           /\ SetAppointment(w, "quoted")
           /\ totalAmount' = total
           /\ UNCHANGED <<orderStatus, detailStatus, sparePartPrice, apptDetail, technician,
                          rescheduleCount, logVars, stockVars, locked>>
  <2> USE DEF logVars, stockVars
  <2>1. /\ Trail("quoted") \subseteq history /\ apptDetail # None
        /\ req[w].saw \in 0..MaxInt /\ req[w].arg.quote \in Quotes /\ req[w].arg.detail \in Details
    BY <1>3 DEF RInv, Return, At, Remembers, Good
  <2>2. total \in 0..MaxInt /\ req[w].arg.quote \in 0..MaxInt
    BY <1>3, <2>1, ConstantsAssumption DEF FitsInt
  <2>3. TypeOK'
    BY <1>3, <2>1, <2>2, StatusTypes DEF RInv, TypeOK, SetAppointment
  <2>4. RepairTrail'
    BY <1>3, <2>1 DEF RepairTrail, RInv, SetAppointment
  <2>5. RowsMove
    BY <1>3, <2>1, <2>3, <2>4
       DEF RowsMove, RInv, RowsExist, Grows, PartsMoved, PartsStay, SetAppointment
  <2> QED BY <1>3, <2>5, ReturnSound DEF Return, RInv, Slots
<1>4. CASE Return(w, op, "commit") /\ ~FitsInt(total) /\ UNCHANGED <<rowVars, locked>>
  BY <1>4, QuietSound
<1> QED BY <1>1, <1>2, <1>3, <1>4 DEF QuoteStep

LEMMA SparePartsSound ==
  ASSUME RInv, NEW w \in Workers, SparePartsStep(w)
  PROVE  Sound(w)
<1> DEFINE op == "addSpareParts"
           cost == UnitPrice * req[w].arg.total
           fits == /\ FitsInt(finalPrice[apptDetail] + cost)
                   /\ FitsInt(sparePartPrice[apptDetail] + cost)
                   /\ FitsInt(totalAmount + cost)
<1>1. ASSUME NEW r \in PartRequests, technician # None, r.largest <= stock,
             Begin(w, op, "commit", r, stock)
      PROVE  Sound(w)
  <2>1. Good(op, "commit", r, stock)
    BY <1>1, OrderExists DEF Good, Handlers
  <2> QED BY <1>1, <2>1, BeginSound
<1>2. CASE /\ Return(w, op, "commit")
           /\ fits
           /\ used' = used + req[w].arg.total
           /\ stock' = StockLeft(w)
           /\ sparePartPrice' = [sparePartPrice EXCEPT ![apptDetail] = @ + cost]
           /\ finalPrice' = [finalPrice EXCEPT ![apptDetail] = @ + cost]
           /\ totalAmount' = TotalWithParts(cost)
           /\ UNCHANGED <<orderStatus, detailStatus, apptVars, logVars, locked>>
  <2> USE DEF apptVars, logVars
  <2>1. req[w].arg \in PartRequests /\ apptDetail # None
    BY <1>2 DEF RInv, Return, At, Remembers, Good
  <2>2. req[w].arg.total \in Nat /\ cost \in Nat
    BY <2>1, CostType
  <2>3. apptDetail \in Details
    BY <2>1 DEF RInv, TypeOK
  <2>4. /\ finalPrice' \in [Details -> 0..MaxInt] /\ sparePartPrice' \in [Details -> 0..MaxInt]
        /\ totalAmount' \in 0..MaxInt
    <3> HIDE DEF cost
    <3> QED BY <1>2, <2>2, <2>3, ConstantsAssumption DEF RInv, TypeOK, FitsInt, TotalWithParts
  <2>5. /\ used' = used + req[w].arg.total /\ stock' = stock - req[w].arg.total
        /\ used' \in Nat /\ stock' \in Int
    BY <1>2, <2>2 DEF RInv, TypeOK, StockLeft, StockAfter
  <2>6. TypeOK'
    BY <1>2, <2>4, <2>5 DEF RInv, TypeOK
  <2>7. PartsTaken(apptDetail, req[w].arg.total)
    BY <1>2, <2>5 DEF PartsTaken
  <2>8. RowsMove
    BY <1>2, <2>2, <2>3, <2>6, <2>7 DEF RowsMove, RInv, RowsExist, RepairTrail, Grows, PartsMoved
  <2> QED BY <1>2, <2>8, ReturnSound DEF Return, RInv, Slots
<1>3. CASE Return(w, op, "commit") /\ ~fits /\ UNCHANGED <<rowVars, locked>>
  BY <1>3, QuietSound
<1> QED BY <1>1, <1>2, <1>3 DEF SparePartsStep

LEMMA PaymentSound ==
  ASSUME RInv, NEW w \in Workers, PaymentStep(w)
  PROVE  Sound(w)
<1> DEFINE op == "updatePaymentStatus"
           accepted == (\E d \in Details : detailStatus[d] = "confirmed") /\ req[w].saw = "technician_done"
<1>1. CASE orderStatus = "confirmed" /\ Begin(w, op, "readAppointment", None, None)
  <2>1. Good(op, "readAppointment", None, None)
    BY <1>1 DEF Good, Handlers
  <2> QED BY <1>1, <2>1, BeginSound
<1>2. CASE /\ At(w, op, "readAppointment")
           /\ req' = [req EXCEPT ![w].at = "readDetails", ![w].saw = apptStatus]
           /\ UNCHANGED <<rowVars, locked>>
  <2>1. Good(op, "readAppointment", req[w].arg, req[w].saw)
    BY <1>2 DEF RInv, Remembers, At
  <2>2. Good(op, "readDetails", req[w].arg, apptStatus)
    BY <2>1 DEF Good, RInv, RepairTrail
  <2>3. /\ req'[w] = [op |-> op, at |-> "readDetails", arg |-> req[w].arg, saw |-> apptStatus]
        /\ \A v \in Workers \ {w} : req'[v] = req[v]
        /\ Slots'
    <3>1. Slots /\ Remembers(w)
      BY DEF RInv
    <3>2. Reads(w, "readDetails", apptStatus)
      BY <1>2 DEF Reads
    <3>3. /\ req'[w] = [op |-> req[w].op, at |-> "readDetails", arg |-> req[w].arg, saw |-> apptStatus]
          /\ \A v \in Workers \ {w} : req'[v] = req[v]
          /\ req' = [v \in Workers |-> req'[v]]
      BY <3>1, <3>2, ReadSlot
    <3> QED BY <1>2, <3>1, <3>3 DEF Slots, At
  <2>4. RowsMove
    BY <1>2, RowsStay DEF RInv
  <2>5. Remembers(w)'
    BY <2>2, <2>3, <2>4, GoodLasts DEF Remembers, RowsMove
  <2> QED BY <2>3, <2>4, <2>5 DEF Sound
<1>3. CASE /\ At(w, op, "readAppointment")
           /\ req' = [req EXCEPT ![w] = Idle]
           /\ UNCHANGED <<rowVars, locked>>
  BY <1>3, QuietSound DEF Return
<1>4. CASE /\ Proceed(w, op, "readDetails", "order") /\ accepted
           /\ UNCHANGED <<rowVars, locked>>
  <2>1. Good(op, "readDetails", req[w].arg, req[w].saw) => Good(op, "order", req[w].arg, req[w].saw)
    BY <1>4 DEF Good
  <2> QED BY <1>4, <2>1, QuietSound
<1>5. CASE Return(w, op, "readDetails") /\ UNCHANGED <<rowVars, locked>>
  BY <1>5, QuietSound
<1>6. CASE /\ Return(w, op, "order")
           /\ orderStatus' = "paid"
           /\ UNCHANGED <<totalAmount, detailVars, apptVars, logVars, stockVars, locked>>
  <2>1. Trail("technician_done") \subseteq history
    BY <1>6 DEF RInv, Return, At, Remembers, Good
  <2>2. RowsMove
    BY <1>6, <2>1, StatusTypes, DetailAndOrderSet DEF detailVars
  <2> QED BY <1>6, <2>2, ReturnSound DEF Return, RInv, Slots
<1> QED BY <1>1, <1>2, <1>3, <1>4, <1>5, <1>6 DEF PaymentStep

LEMMA RequestSound ==
  ASSUME RInv, NEW w \in Workers, RequestStep(w) \/ Fail(w)
  PROVE  Sound(w)
<1>1. CASE Fail(w)
  <2>1. RowsMove
    BY <1>1, RowsStay DEF RInv, Fail
  <2>2. locked' \in [{"appointment", "detail"} -> Workers \cup {None}]
    BY <1>1 DEF RInv, Slots, Fail
  <2> QED BY <1>1, <2>1, <2>2, ReturnSound DEF Fail
<1> QED BY <1>1, CustomerUpdateSound, QuoteConfirmSound, CancelSound, ConfirmSound, CompleteSound,
           UpdateStatusSound, CompleteRepairSound, QuoteSound, SparePartsSound, PaymentSound
        DEF RequestStep

(* The two steps that are no request of a slot. *)
LEMMA CreateMoves ==
  ASSUME RInv, NEW D \in SUBSET Details, NEW a \in D \cup {None}, CreateServiceOrder(D, a)
  PROVE  RowsMove
<1> USE DEF CreateServiceOrder, logVars, stockVars
<1>1. TypeOK'
  BY ConstantsAssumption DEF RInv, TypeOK, ServiceOrderStatusEnum, ServiceOrderDetailStatusEnum,
                             AppointmentStatusEnum
<1>2. RowsExist' /\ RepairTrail' /\ Grows /\ PartsMoved
  BY DEF RInv, RowsExist, RepairTrail, Trail, Grows, PartsMoved, PartsStay
<1> QED BY <1>1, <1>2 DEF RowsMove

LEMMA AssignMoves ==
  ASSUME RInv, NEW t \in Technicians, AssignTechnician(t)
  PROVE  RowsMove
<1> USE DEF AssignTechnician, orderVars, detailVars, logVars, stockVars
<1>1. TypeOK'
  BY DEF RInv, TypeOK
<1>2. RowsExist' /\ RepairTrail' /\ Grows /\ PartsMoved
  BY DEF RInv, RowsExist, RepairTrail, Grows, PartsMoved, PartsStay
<1> QED BY <1>1, <1>2 DEF RowsMove

LEMMA RNextMoves ==
  ASSUME RInv, [RNext]_allVars
  PROVE  RInv' /\ PartsMoved
<1> USE DEF RInv
<1>1. ASSUME NEW w \in Workers, RequestStep(w) \/ Fail(w)
      PROVE  RInv' /\ PartsMoved
  <2>1. Sound(w)
    BY <1>1, RequestSound
  <2>2. \A v \in Workers : Remembers(v)'
    BY <2>1, MemoryLasts DEF Sound, RowsMove
  <2> QED BY <2>1, <2>2 DEF Sound, RowsMove
<1>2. ASSUME RowsMove, UNCHANGED reqVars
      PROVE  RInv' /\ PartsMoved
  <2>1. Slots'
    BY <1>2 DEF Slots, reqVars
  <2>2. \A v \in Workers : Remembers(v)'
    BY <1>2, MemoryLasts DEF reqVars, RowsMove
  <2> QED BY <1>2, <2>1, <2>2 DEF RowsMove
<1>3. ASSUME NEW form \in OrderForms, CreateServiceOrder(form[1], form[2])
      PROVE  RowsMove
  <2>1. form[1] \in SUBSET Details /\ form[2] \in form[1] \cup {None}
    BY DEF OrderForms
  <2> QED BY <1>3, <2>1, CreateMoves
<1>4. CASE UNCHANGED allVars
  BY <1>2, <1>4, RowsStay DEF allVars, vars, rowVars, reqVars
<1> QED BY <1>1, <1>2, <1>3, <1>4, AssignMoves DEF RNext

LEMMA RInvInit == RInit => RInv /\ PartsLedger
<1> SUFFICES ASSUME RInit PROVE RInv /\ PartsLedger
  OBVIOUS
<1>1. TypeOK /\ RowsExist
  BY ConstantsAssumption DEF RInit, Init, TypeOK, RowsExist, ServiceOrderStatusEnum,
                             ServiceOrderDetailStatusEnum, AppointmentStatusEnum
<1>2. RepairTrail /\ PartsLedger
  BY InitInv, MoneyInit DEF RInit, MoneyInv
<1>3. Slots
  BY DEF RInit, Slots
<1>4. \A w \in Workers : Remembers(w)
  BY DEF RInit, Remembers, Good, Idle, Handlers
<1> QED BY <1>1, <1>2, <1>3, <1>4 DEF RInv

THEOREM RequestsInvariance == RSpec => [](RInv /\ PartsLedger)
<1>1. RInv /\ PartsLedger /\ [RNext]_allVars => (RInv /\ PartsLedger)'
  BY RNextMoves, LedgerMoves DEF RInv
<1> QED BY <1>1, RInvInit, PTL DEF RSpec

(* Whatever requests overlap and whichever of them stop half-way: the rows  *)
(* keep their types.                                                        *)
THEOREM RequestsTypeCorrect == RSpec => []TypeOK
BY RequestsInvariance, PTL DEF RInv

(* No overlap and no crash makes an appointment skip a step of the repair,  *)
(* or pays or completes an order whose repair is not on record.             *)
THEOREM OverlapKeepsTrail == RSpec => []RepairTrail
BY RequestsInvariance, PTL DEF RInv

(* No overlap and no crash loses a part or charges for one twice.           *)
THEOREM OverlapKeepsParts == RSpec => []PartsLedger
BY RequestsInvariance, PTL
-----------------------------------------------------------------------------
(* Cancellations that stop half-way, sent again.  What a cancellation has   *)
(* written is still so at its next statement when it has no company.        *)

CancelKnows(w) ==
  req[w].op = "customerCancel" =>
    /\ req[w].at # "appointment" => apptStatus = "cancelled"
    /\ req[w].at \in {"readDetails", "order"} => detailStatus[apptDetail] = "cancelled"
    /\ req[w].at = "order" => AllCancelled(detailStatus)

CancelEnds(w) ==
  CancelReturns(w) =>
    /\ apptStatus' = "cancelled" /\ detailStatus'[apptDetail] = "cancelled"
    /\ AllCancelled(detailStatus)' => orderStatus' = "cancelled"

OtherStep(w) ==
  \/ CustomerUpdateStep(w) \/ QuoteConfirmStep(w) \/ ConfirmStep(w) \/ CompleteStep(w)
  \/ UpdateStatusStep(w) \/ CompleteRepairStep(w) \/ QuoteStep(w) \/ SparePartsStep(w)
  \/ PaymentStep(w)

(* The other handlers neither begin nor move a cancellation. *)
LEMMA OthersDoNotCancel ==
  ASSUME RInv, NEW w \in Workers, OtherStep(w)
  PROVE  req[w].op # "customerCancel" /\ req'[w].op # "customerCancel"
<1>1. req = [v \in Workers |-> req[v]]
      /\ req[w] = [op |-> req[w].op, at |-> req[w].at, arg |-> req[w].arg, saw |-> req[w].saw]
  BY DEF RInv, Slots, Remembers
<1>2. ASSUME NEW op, op # "customerCancel",
             \/ \E at, arg, saw : Begin(w, op, at, arg, saw)
             \/ \E from, to : Proceed(w, op, from, to)
             \/ \E from : Return(w, op, from)
             \/ \E from, to, saw : At(w, op, from) /\ Reads(w, to, saw)
      PROVE  req[w].op # "customerCancel" /\ req'[w].op # "customerCancel"
  <2>1. CASE \E at, arg, saw : Begin(w, op, at, arg, saw)
    BY <1>1, <1>2, <2>1 DEF Begin, IdleWorker
  <2>2. CASE \E from, to : Proceed(w, op, from, to)
    BY <1>1, <1>2, <2>2 DEF Proceed, At
  <2>3. CASE \E from : Return(w, op, from)
    BY <1>1, <1>2, <2>3 DEF Return, At, Idle
  <2>4. ASSUME NEW from, NEW to, NEW saw, At(w, op, from), Reads(w, to, saw)
        PROVE  req[w].op # "customerCancel" /\ req'[w].op # "customerCancel"
    <3>1. req'[w] = [op |-> req[w].op, at |-> to, arg |-> req[w].arg, saw |-> saw]
      BY <2>4, ReadSlot DEF RInv
    <3> QED BY <1>2, <2>4, <3>1 DEF At
  <2> QED BY <1>2, <2>1, <2>2, <2>3, <2>4
<1>3. CASE CustomerUpdateStep(w)
  BY <1>2, <1>3 DEF CustomerUpdateStep
<1>4. CASE QuoteConfirmStep(w)
  BY <1>2, <1>4 DEF QuoteConfirmStep
<1>5. CASE ConfirmStep(w)
  BY <1>2, <1>5 DEF ConfirmStep
<1>6. CASE CompleteStep(w)
  BY <1>2, <1>6 DEF CompleteStep
<1>7. CASE UpdateStatusStep(w)
  BY <1>2, <1>7 DEF UpdateStatusStep
<1>8. CASE CompleteRepairStep(w)
  BY <1>2, <1>8 DEF CompleteRepairStep
<1>9. CASE QuoteStep(w)
  <2>1. \/ \E at, arg, saw : Begin(w, "quote", at, arg, saw)
        \/ \E from : Return(w, "quote", from)
        \/ \E from, to, saw : At(w, "quote", from) /\ Reads(w, to, saw)
    BY <1>9 DEF QuoteStep, Reads
  <2> QED BY <1>2, <2>1
<1>10. CASE SparePartsStep(w)
  BY <1>2, <1>10 DEF SparePartsStep
<1>11. CASE PaymentStep(w)
  <2>1. \/ \E at, arg, saw : Begin(w, "updatePaymentStatus", at, arg, saw)
        \/ \E from, to : Proceed(w, "updatePaymentStatus", from, to)
        \/ \E from : Return(w, "updatePaymentStatus", from)
        \/ \E from, to, saw : At(w, "updatePaymentStatus", from) /\ Reads(w, to, saw)
    BY <1>11 DEF PaymentStep, Reads, Return
  <2> QED BY <1>2, <2>1
<1> QED BY <1>3, <1>4, <1>5, <1>6, <1>7, <1>8, <1>9, <1>10, <1>11 DEF OtherStep

LEMMA CancelStepKnows ==
  ASSUME RInv, NEW w \in Workers, CancelKnows(w), CancelStep(w)
  PROVE  CancelKnows(w)' /\ CancelEnds(w)
<1> DEFINE op == "customerCancel"
<1>0. /\ req = [v \in Workers |-> req[v]]
      /\ req[w] = [op |-> req[w].op, at |-> req[w].at, arg |-> req[w].arg, saw |-> req[w].saw]
      /\ req[w].op = op => apptDetail \in Details /\ detailStatus = [d \in Details |-> detailStatus[d]]
  BY DEF RInv, Slots, Remembers, Good, TypeOK
<1>1. CASE Begin(w, op, "appointment", None, None)
  <2>1. req[w].op = "idle" /\ req'[w].at = "appointment"
    BY <1>0, <1>1 DEF Begin, IdleWorker
  <2> QED BY <2>1 DEF CancelKnows, CancelEnds, CancelReturns, At
<1>2. CASE /\ Proceed(w, op, "appointment", "detail")
           /\ SetAppointment(w, "cancelled")
  <2>1. At(w, op, "appointment") /\ req'[w].op = op /\ req'[w].at = "detail" /\ apptStatus' = "cancelled"
    BY <1>0, <1>2 DEF Proceed, At, SetAppointment
  <2> QED BY <2>1 DEF CancelKnows, CancelEnds, CancelReturns, At
<1>3. CASE /\ Proceed(w, op, "detail", "readDetails")
           /\ SetDetail(w, "cancelled")
           /\ UNCHANGED apptVars
  <2>1. /\ At(w, op, "detail") /\ req'[w].op = op /\ req'[w].at = "readDetails"
        /\ apptStatus' = apptStatus /\ apptDetail' = apptDetail
        /\ detailStatus'[apptDetail] = "cancelled"
    BY <1>0, <1>3 DEF Proceed, At, SetDetail, apptVars
  <2> QED BY <2>1 DEF CancelKnows, CancelEnds, CancelReturns, At
<1>4. CASE /\ Proceed(w, op, "readDetails", "order")
           /\ CancelEndsOrder /\ UNCHANGED rowVars
  <2>1. /\ At(w, op, "readDetails") /\ req'[w].op = op /\ req'[w].at = "order"
        /\ apptStatus' = apptStatus /\ apptDetail' = apptDetail /\ detailStatus' = detailStatus
        /\ AllCancelled(detailStatus)
    BY <1>0, <1>4 DEF Proceed, At, CancelEndsOrder, rowVars, apptVars, detailVars
  <2> QED BY <2>1 DEF CancelKnows, CancelEnds, CancelReturns, At, AllCancelled
<1>5. CASE /\ Return(w, op, "readDetails")
           /\ ~CancelEndsOrder /\ UNCHANGED rowVars
  <2>1. /\ At(w, op, "readDetails") /\ req'[w].op = "idle"
        /\ apptStatus' = apptStatus /\ apptDetail' = apptDetail /\ detailStatus' = detailStatus
        /\ ~AllCancelled(detailStatus)
    BY <1>0, <1>5 DEF Return, At, Idle, CancelEndsOrder, rowVars, apptVars, detailVars
  <2> QED BY <2>1 DEF CancelKnows, CancelEnds, CancelReturns, At, AllCancelled
<1>6. CASE /\ Return(w, op, "order") /\ orderStatus' = "cancelled"
           /\ UNCHANGED <<detailVars, apptVars>>
  <2>1. /\ At(w, op, "order") /\ req'[w].op = "idle" /\ orderStatus' = "cancelled"
        /\ apptStatus' = apptStatus /\ apptDetail' = apptDetail /\ detailStatus' = detailStatus
    BY <1>0, <1>6 DEF Return, At, Idle, apptVars, detailVars
  <2> QED BY <2>1 DEF CancelKnows, CancelEnds, CancelReturns, At
<1> QED BY <1>1, <1>2, <1>3, <1>4, <1>5, <1>6 DEF CancelStep

LEMMA CancelNext ==
  ASSUME NEW w, Workers = {w}, RInv, CancelKnows(w), [RNext]_allVars
  PROVE  CancelKnows(w)' /\ CancelEnds(w)
<1>1. CASE CancelStep(w)
  BY <1>1, CancelStepKnows
<1>2. CASE OtherStep(w)
  <2>1. req[w].op # "customerCancel" /\ req'[w].op # "customerCancel"
    BY <1>2, OthersDoNotCancel
  <2> QED BY <2>1 DEF CancelKnows, CancelEnds, CancelReturns, At
<1>3. CASE Fail(w)
  <2>1. /\ req'[w].op = "idle" /\ apptStatus' = apptStatus /\ detailStatus' = detailStatus
        /\ apptDetail' = apptDetail
    BY <1>3 DEF Fail, RInv, Slots, Idle, rowVars, apptVars, detailVars
  <2> QED BY <2>1 DEF CancelKnows, CancelEnds, CancelReturns, At, AllCancelled
<1>4. ASSUME UNCHANGED <<apptStatus, apptDetail, detailStatus, req>>
      PROVE  CancelKnows(w)' /\ CancelEnds(w)
  <2>1. CancelKnows(w)'
    BY <1>4 DEF CancelKnows, AllCancelled
  <2>2. CancelEnds(w)
    <3>1. req[w].at = "readDetails" /\ req[w].op = "customerCancel" => req'[w].op # "idle"
      BY <1>4
    <3> QED BY <1>4, <3>1 DEF CancelKnows, CancelEnds, CancelReturns, At, IdleWorker
  <2> QED BY <2>1, <2>2
<1>5. ASSUME NEW form \in OrderForms, CreateServiceOrder(form[1], form[2]), UNCHANGED reqVars
      PROVE  CancelKnows(w)' /\ CancelEnds(w)
  <2>1. req[w].op = "idle" /\ req' = req
    BY <1>5 DEF CreateServiceOrder, RInv, Remembers, Good, reqVars
  <2> QED BY <2>1 DEF CancelKnows, CancelEnds, CancelReturns, At
<1>6. ASSUME NEW t \in Technicians, AssignTechnician(t), UNCHANGED reqVars
      PROVE  UNCHANGED <<apptStatus, apptDetail, detailStatus, req>>
  BY <1>6 DEF AssignTechnician, detailVars, reqVars
<1>7. CASE UNCHANGED allVars
  BY <1>4, <1>7 DEF allVars, vars, apptVars, detailVars, reqVars
<1> QED BY <1>1, <1>2, <1>3, <1>4, <1>5, <1>6, <1>7 DEF RNext, RequestStep, OtherStep

(* A cancellation may stop after any of its statements.  As long as         *)
(* requests do not overlap, the first one that reaches its end leaves       *)
(* appointment and detail cancelled, and the order too when no detail is    *)
(* left, whatever earlier ones left half done.                              *)
THEOREM CancellationRepairsItself ==
  ASSUME NEW slot, Workers = {slot}
  PROVE  RSpec => CancelRepairs
<1> DEFINE Repairs == \A w \in Workers : CancelReturns(w) =>
                        /\ apptStatus' = "cancelled" /\ detailStatus'[apptDetail] = "cancelled"
                        /\ AllCancelled(detailStatus)' => orderStatus' = "cancelled"
<1>1. RInit => CancelKnows(slot)
  BY DEF RInit, CancelKnows, Idle
<1>2. RInv /\ CancelKnows(slot) /\ [RNext]_allVars => CancelKnows(slot)' /\ [Repairs]_allVars
  BY CancelNext DEF CancelEnds
<1> QED BY <1>1, <1>2, RequestsInvariance, PTL DEF RSpec, CancelRepairs

-----------------------------------------------------------------------------
(* One request at a time is one action of OrderWorkflow.  Alone says how    *)
(* far the rows are ahead of what they were when the request began, and     *)
(* what its checks have found, for each statement it may stand at.  Four    *)
(* columns can be ahead, the others are written by the last statement only. *)

Settled ==
  /\ before.orderStatus = orderStatus /\ before.totalAmount = totalAmount
  /\ before.finalPrice = finalPrice /\ before.sparePartPrice = sparePartPrice
  /\ before.apptDetail = apptDetail /\ before.mirror = mirror /\ before.history = history
  /\ before.warranty = warranty /\ before.stock = stock /\ before.used = used

StatusHeld == before.apptStatus = apptStatus
CountHeld == before.rescheduleCount = rescheduleCount
DetailHeld == before.detailStatus = detailStatus
PushHeld == before.announced = announced
Level == StatusHeld /\ CountHeld /\ DetailHeld /\ PushHeld

Underway(op, at, arg, saw) ==
  /\ op = "idle" => Level
  /\ op = "customerUpdate" =>
       /\ DetailHeld /\ PushHeld
       /\ before.apptStatus \in {"booked", "confirmed"}
       /\ before.rescheduleCount = saw
       /\ at # "appointment" => apptStatus = "booked" /\ rescheduleCount = saw + 1
       /\ at \in {"detail", "readOrder", "commit"} => detailStatus[apptDetail] \in {"booked", "confirmed"}
       /\ at = "commit" => orderStatus \in {"booked", "confirmed"}
  /\ op = "customerQuoteConfirm" =>
       /\ CountHeld /\ DetailHeld /\ PushHeld
       /\ before.apptStatus = "quoted"
       /\ at # "appointment" => apptStatus = "quote_confirmed"
       /\ at = "detail" => detailStatus[apptDetail] = "booked"
  /\ op = "customerCancel" =>
       /\ CountHeld /\ PushHeld
       /\ before.apptStatus # "none"
       /\ at # "appointment" => apptStatus = "cancelled"
       /\ at \in {"appointment", "detail"} => DetailHeld
       /\ at \in {"readDetails", "order"} =>
            detailStatus = [before.detailStatus EXCEPT ![apptDetail] = "cancelled"]
       /\ at = "order" => AllCancelled(detailStatus)
  /\ op = "adminConfirm" =>
       /\ CountHeld /\ PushHeld
       /\ before.detailStatus[apptDetail] \notin {"none", "cancelled"}
       /\ at # "appointment" => apptStatus = "confirmed"
       /\ at # "order" => DetailHeld
       /\ at = "order" => detailStatus = [before.detailStatus EXCEPT ![apptDetail] = "confirmed"]
  /\ op = "adminComplete" =>
       /\ Level /\ orderStatus = "paid" /\ saw = totalAmount
       /\ at = "order" =>
            CompletableDetails # {} /\ SumOf(finalPrice, CompletableDetails) = totalAmount
  /\ op = "updateAppointmentStatus" =>
       /\ StatusHeld /\ CountHeld /\ DetailHeld
       /\ technician # None /\ saw = apptStatus /\ arg \in TechnicianUpdateStatuses
       /\ at = "push" => PushHeld
       /\ at = "commit" => announced = before.announced \cup {arg}
  /\ op = "completeRepair" =>
       /\ StatusHeld /\ CountHeld /\ DetailHeld
       /\ technician # None /\ apptStatus = "in_progress"
       /\ at = "push" => PushHeld
       /\ at = "commit" => announced = before.announced \cup {"technician_done"}
  /\ op = "quote" =>
       /\ Level /\ technician # None
       /\ apptStatus \in {"arrived", "in_progress"} /\ arg.detail \in OrderDetails
       /\ at = "commit" => saw = totalAmount
  /\ op = "addSpareParts" =>
       Level /\ technician # None /\ arg.largest <= stock
  /\ op = "updatePaymentStatus" =>
       /\ Level /\ orderStatus = "confirmed"
       /\ at # "readAppointment" => saw = apptStatus /\ apptStatus # "none"
       /\ at = "order" => \E d \in Details : detailStatus[d] = "confirmed"

Alone(w) ==
  /\ Settled
  /\ before.apptStatus = "none" <=> apptStatus = "none"
  /\ LET r == req[w] IN Underway(r.op, r.at, r.arg, r.saw)

Remembering == before' = IF AllIdle' THEN Rows' ELSE before

WorkflowStep == [Workflow!Next]_(Workflow!vars)

(* When a request ends, the rows are no longer ahead. *)
LEMMA RowsCatchUp ==
  ASSUME before' = Rows'
  PROVE  /\ Settled' /\ Level'
         /\ before'.orderStatus = orderStatus' /\ before'.totalAmount = totalAmount'
         /\ before'.detailStatus = detailStatus' /\ before'.finalPrice = finalPrice'
         /\ before'.sparePartPrice = sparePartPrice' /\ before'.apptDetail = apptDetail'
         /\ before'.apptStatus = apptStatus' /\ before'.rescheduleCount = rescheduleCount'
         /\ before'.mirror = mirror' /\ before'.history = history' /\ before'.announced = announced'
         /\ before'.warranty = warranty' /\ before'.stock = stock' /\ before'.used = used'
BY DEF Rows, Settled, Level, StatusHeld, CountHeld, DetailHeld, PushHeld

LEMMA Finished ==
  ASSUME NEW w, Workers = {w}, req'[w] = Idle, Remembering
  PROVE  before' = Rows' /\ Alone(w)'
<1>1. AllIdle'
  BY DEF AllIdle, IdleWorker, Idle
<1>2. before' = Rows'
  BY <1>1 DEF Remembering
<1>3. Settled' /\ Level' /\ before'.apptStatus = apptStatus'
  BY <1>2, RowsCatchUp
<1>4. \A at, arg, saw : Underway("idle", at, arg, saw)'
  BY <1>3 DEF Underway
<1> QED BY <1>2, <1>3, <1>4 DEF Alone, Idle

(* A step within a request is none of OrderWorkflow. *)
LEMMA Onward ==
  ASSUME NEW w, Workers = {w}, NEW op \in Handlers, NEW at, NEW arg, NEW saw,
         req'[w] = [op |-> op, at |-> at, arg |-> arg, saw |-> saw], Remembering,
         technician' = technician
  PROVE  before' = before /\ WorkflowStep
<1>1. ~AllIdle'
  BY DEF AllIdle, IdleWorker, Handlers
<1>2. before' = before
  BY <1>1 DEF Remembering
<1> QED BY <1>2 DEF WorkflowStep, Workflow!vars, Workflow!orderVars, Workflow!detailVars,
                    Workflow!apptVars, Workflow!logVars, Workflow!stockVars

LEMMA CustomerUpdateAlone ==
  ASSUME NEW w, Workers = {w}, RInv, Alone(w), CustomerUpdateStep(w), Sound(w), Remembering
  PROVE  Alone(w)' /\ WorkflowStep
<1> DEFINE op == "customerUpdate"
<1> USE DEF rowVars, orderVars, detailVars, apptVars, logVars, stockVars
<1>1. CASE /\ apptStatus \in {"booked", "confirmed"}
           /\ rescheduleCount < MaxReschedules
           /\ Begin(w, op, "appointment", None, rescheduleCount)
  <2>1. /\ req'[w] = [op |-> op, at |-> "appointment", arg |-> None, saw |-> rescheduleCount]
        /\ req[w].op = "idle" /\ UNCHANGED rowVars
    BY <1>1 DEF RInv, Slots, Begin, IdleWorker
  <2>2. before' = before /\ WorkflowStep
    BY <2>1, Onward DEF Handlers
  <2>3. Settled /\ Level
    BY <2>1 DEF Alone, Underway
  <2> QED BY <1>1, <2>1, <2>2, <2>3
          DEF Alone, Underway, Settled, Level, StatusHeld, CountHeld, DetailHeld, PushHeld
<1>2. CASE /\ Proceed(w, op, "appointment", "readDetail")
           /\ SetAppointment(w, "booked")
           /\ rescheduleCount' = req[w].saw + 1
           /\ UNCHANGED <<orderVars, detailVars, apptDetail, technician, logVars, stockVars, locked>>
  <2>1. /\ req'[w] = [op |-> op, at |-> "readDetail", arg |-> req[w].arg, saw |-> req[w].saw]
        /\ req[w].op = op /\ req[w].at = "appointment" /\ apptDetail # None
    BY <1>2 DEF RInv, Slots, Proceed, At, Remembers, Good
  <2>2. before' = before /\ WorkflowStep
    BY <1>2, <2>1, Onward DEF Handlers
  <2> QED BY <1>2, <2>1, <2>2
          DEF Alone, Underway, Settled, DetailHeld, PushHeld, SetAppointment
<1>3. CASE /\ UNCHANGED <<rowVars>>
           /\ \/ /\ Proceed(w, op, "readDetail", "detail")
                 /\ detailStatus[apptDetail] \in {"booked", "confirmed"}
              \/ Proceed(w, op, "detail", "readOrder")
              \/ /\ Proceed(w, op, "readOrder", "commit")
                 /\ orderStatus \in {"booked", "confirmed"}
  <2>1. PICK from, to \in {"readDetail", "detail", "readOrder", "commit"} :
          /\ Proceed(w, op, from, to)
          /\ from = "readDetail" => detailStatus[apptDetail] \in {"booked", "confirmed"}
          /\ from # "readDetail" => from \in {"detail", "readOrder"}
          /\ to = "commit" => orderStatus \in {"booked", "confirmed"}
    BY <1>3
  <2>2. /\ req'[w] = [op |-> op, at |-> to, arg |-> req[w].arg, saw |-> req[w].saw]
        /\ req[w].op = op /\ req[w].at = from
    BY <2>1 DEF RInv, Slots, Proceed, At, Remembers
  <2>3. before' = before /\ WorkflowStep
    BY <1>3, <2>2, Onward DEF Handlers
  <2> QED BY <1>3, <2>1, <2>2, <2>3 DEF Alone, Underway, Settled, DetailHeld, PushHeld
<1>4. CASE /\ UNCHANGED rowVars
           /\ \/ Return(w, op, "readDetail") /\ detailStatus[apptDetail] \notin {"booked", "confirmed"}
              \/ Return(w, op, "readOrder") /\ orderStatus \notin {"booked", "confirmed"}
  <2>1. req'[w] = Idle /\ req[w].op = op /\ req[w].at # "appointment"
    BY <1>4 DEF RInv, Slots, Return, At
  <2>2. before' = Rows' /\ Alone(w)'
    BY <2>1, Finished
  <2>3. Workflow!CustomerUpdate
    BY <1>4, <2>1, <2>2, RowsCatchUp
       DEF Alone, Underway, Settled, DetailHeld, PushHeld, RInv, Remembers, Good,
           Workflow!CustomerUpdate, Workflow!logVars, Workflow!stockVars
  <2> QED BY <2>2, <2>3 DEF WorkflowStep, Workflow!Next, Workflow!CustomerStep
<1>5. CASE /\ Return(w, op, "commit")
           /\ SetDetail(w, "booked")
           /\ orderStatus' = "booked"
           /\ UNCHANGED <<totalAmount, finalPrice, sparePartPrice, apptVars, logVars, stockVars>>
  <2>1. req'[w] = Idle /\ req[w].op = op /\ req[w].at = "commit"
    BY <1>5 DEF RInv, Slots, Return, At
  <2>2. before' = Rows' /\ Alone(w)'
    BY <2>1, Finished
  <2>3. /\ before.apptStatus \in {"booked", "confirmed"} /\ before.rescheduleCount < MaxReschedules
        /\ apptStatus = "booked" /\ rescheduleCount = before.rescheduleCount + 1
        /\ before.detailStatus = detailStatus /\ before.announced = announced /\ Settled
        /\ detailStatus[apptDetail] \in {"booked", "confirmed"} /\ orderStatus \in {"booked", "confirmed"}
    BY <2>1 DEF Alone, Underway, DetailHeld, PushHeld, RInv, Remembers, Good
  <2>4. Workflow!CustomerUpdate
    BY <1>5, <2>2, <2>3, RowsCatchUp
       DEF Settled, SetDetail, Workflow!CustomerUpdate, Workflow!logVars, Workflow!stockVars
  <2> QED BY <2>2, <2>4 DEF WorkflowStep, Workflow!Next, Workflow!CustomerStep
<1> QED BY <1>1, <1>2, <1>3, <1>4, <1>5 DEF CustomerUpdateStep

LEMMA QuoteConfirmAlone ==
  ASSUME NEW w, Workers = {w}, RInv, Alone(w), QuoteConfirmStep(w), Sound(w), Remembering
  PROVE  Alone(w)' /\ WorkflowStep
<1> DEFINE op == "customerQuoteConfirm"
<1> USE DEF rowVars, orderVars, detailVars, apptVars, logVars, stockVars
<1>1. CASE apptStatus = "quoted" /\ Begin(w, op, "appointment", None, None)
  <2>1. /\ req'[w] = [op |-> op, at |-> "appointment", arg |-> None, saw |-> None]
        /\ req[w].op = "idle" /\ UNCHANGED rowVars
    BY <1>1 DEF RInv, Slots, Begin, IdleWorker
  <2>2. before' = before /\ WorkflowStep
    BY <2>1, Onward DEF Handlers
  <2> QED BY <1>1, <2>1, <2>2
          DEF Alone, Underway, Settled, Level, StatusHeld, CountHeld, DetailHeld, PushHeld
<1>2. CASE /\ Proceed(w, op, "appointment", "readDetail")
           /\ SetAppointment(w, "quote_confirmed")
           /\ UNCHANGED <<orderVars, detailVars, apptDetail, technician, rescheduleCount, logVars,
                          stockVars, locked>>
  <2>1. /\ req'[w] = [op |-> op, at |-> "readDetail", arg |-> req[w].arg, saw |-> req[w].saw]
        /\ req[w].op = op /\ req[w].at = "appointment" /\ apptDetail # None
    BY <1>2 DEF RInv, Slots, Proceed, At, Remembers, Good
  <2>2. before' = before /\ WorkflowStep
    BY <1>2, <2>1, Onward DEF Handlers
  <2> QED BY <1>2, <2>1, <2>2
          DEF Alone, Underway, Settled, CountHeld, DetailHeld, PushHeld, SetAppointment
<1>3. CASE /\ Proceed(w, op, "readDetail", "detail")
           /\ detailStatus[apptDetail] = "booked"
           /\ UNCHANGED rowVars
  <2>1. /\ req'[w] = [op |-> op, at |-> "detail", arg |-> req[w].arg, saw |-> req[w].saw]
        /\ req[w].op = op /\ req[w].at = "readDetail"
    BY <1>3 DEF RInv, Slots, Proceed, At, Remembers
  <2>2. before' = before /\ WorkflowStep
    BY <1>3, <2>1, Onward DEF Handlers
  <2> QED BY <1>3, <2>1, <2>2 DEF Alone, Underway, Settled, CountHeld, DetailHeld, PushHeld
<1>4. CASE \/ /\ Return(w, op, "readDetail") /\ detailStatus[apptDetail] # "booked"
              /\ UNCHANGED rowVars
           \/ /\ Return(w, op, "detail") /\ SetDetail(w, "confirmed")
              /\ UNCHANGED <<orderVars, finalPrice, sparePartPrice, apptVars, logVars, stockVars>>
  <2>1. /\ req'[w] = Idle /\ req[w].op = op /\ req[w].at # "appointment"
        /\ Return(w, op, "detail") => req[w].at = "detail"
    BY <1>4 DEF RInv, Slots, Return, At
  <2>2. before' = Rows' /\ Alone(w)'
    BY <2>1, Finished
  <2>3. /\ before.apptStatus = "quoted" /\ apptStatus = "quote_confirmed" /\ Settled
        /\ before.rescheduleCount = rescheduleCount /\ before.detailStatus = detailStatus
        /\ before.announced = announced
        /\ Return(w, op, "detail") => detailStatus[apptDetail] = "booked"
    BY <2>1 DEF Alone, Underway, CountHeld, DetailHeld, PushHeld
  <2>4. Workflow!CustomerQuoteConfirm
    BY <1>4, <2>2, <2>3, RowsCatchUp
       DEF Settled, SetDetail, Workflow!CustomerQuoteConfirm, Workflow!orderVars, Workflow!logVars,
           Workflow!stockVars
  <2> QED BY <2>2, <2>4 DEF WorkflowStep, Workflow!Next, Workflow!CustomerStep
<1> QED BY <1>1, <1>2, <1>3, <1>4 DEF QuoteConfirmStep

LEMMA CancelAlone ==
  ASSUME NEW w, Workers = {w}, RInv, Alone(w), CancelStep(w), Sound(w), Remembering
  PROVE  Alone(w)' /\ WorkflowStep
<1> DEFINE op == "customerCancel"
<1> USE DEF rowVars, orderVars, detailVars, apptVars, logVars, stockVars
<1>1. CASE apptStatus # "none" /\ Begin(w, op, "appointment", None, None)
  <2>1. /\ req'[w] = [op |-> op, at |-> "appointment", arg |-> None, saw |-> None]
        /\ req[w].op = "idle" /\ UNCHANGED rowVars
    BY <1>1 DEF RInv, Slots, Begin, IdleWorker
  <2>2. before' = before /\ WorkflowStep
    BY <2>1, Onward DEF Handlers
  <2> QED BY <1>1, <2>1, <2>2
          DEF Alone, Underway, Settled, Level, StatusHeld, CountHeld, DetailHeld, PushHeld
<1>2. CASE /\ Proceed(w, op, "appointment", "detail")
           /\ SetAppointment(w, "cancelled")
           /\ UNCHANGED <<orderVars, detailVars, apptDetail, technician, rescheduleCount, logVars,
                          stockVars, locked>>
  <2>1. /\ req'[w] = [op |-> op, at |-> "detail", arg |-> req[w].arg, saw |-> req[w].saw]
        /\ req[w].op = op /\ req[w].at = "appointment" /\ apptDetail # None
    BY <1>2 DEF RInv, Slots, Proceed, At, Remembers, Good
  <2>2. before' = before /\ WorkflowStep
    BY <1>2, <2>1, Onward DEF Handlers
  <2> QED BY <1>2, <2>1, <2>2
          DEF Alone, Underway, Settled, CountHeld, DetailHeld, PushHeld, SetAppointment
<1>3. CASE /\ Proceed(w, op, "detail", "readDetails")
           /\ SetDetail(w, "cancelled")
           /\ UNCHANGED <<orderVars, finalPrice, sparePartPrice, apptVars, logVars, stockVars, locked>>
  <2>1. /\ req'[w] = [op |-> op, at |-> "readDetails", arg |-> req[w].arg, saw |-> req[w].saw]
        /\ req[w].op = op /\ req[w].at = "detail"
    BY <1>3 DEF RInv, Slots, Proceed, At, Remembers
  <2>2. before' = before /\ WorkflowStep
    BY <1>3, <2>1, Onward DEF Handlers
  <2>3. detailStatus' = [before.detailStatus EXCEPT ![apptDetail] = "cancelled"]
    BY <1>3, <2>1 DEF Alone, Underway, DetailHeld, SetDetail
  <2> HIDE DEF op
  <2>4. Underway(op, "readDetails", req[w].arg, req[w].saw)'
    BY <1>3, <2>1, <2>2, <2>3 DEF op, Alone, Underway, CountHeld, PushHeld
  <2> QED BY <1>3, <2>1, <2>2, <2>4 DEF Alone, Settled
<1>4. CASE /\ Proceed(w, op, "readDetails", "order") /\ CancelEndsOrder
           /\ UNCHANGED rowVars
  <2>1. /\ req'[w] = [op |-> op, at |-> "order", arg |-> req[w].arg, saw |-> req[w].saw]
        /\ req[w].op = op /\ req[w].at = "readDetails"
    BY <1>4 DEF RInv, Slots, Proceed, At, Remembers
  <2>2. before' = before /\ WorkflowStep
    BY <1>4, <2>1, Onward DEF Handlers
  <2> QED BY <1>4, <2>1, <2>2
          DEF Alone, Underway, Settled, CountHeld, PushHeld, CancelEndsOrder, AllCancelled
<1>5. CASE \/ Return(w, op, "readDetails") /\ ~CancelEndsOrder /\ UNCHANGED rowVars
           \/ /\ Return(w, op, "order") /\ orderStatus' = "cancelled"
              /\ UNCHANGED <<totalAmount, detailVars, apptVars, logVars, stockVars>>
  <2>1. /\ req'[w] = Idle /\ req[w].op = op /\ req[w].at \in {"readDetails", "order"}
        /\ Return(w, op, "order") => req[w].at = "order"
    BY <1>5 DEF RInv, Slots, Return, At
  <2>2. before' = Rows' /\ Alone(w)'
    BY <2>1, Finished
  <2>3. /\ before.apptStatus # "none" /\ apptStatus = "cancelled" /\ Settled
        /\ before.rescheduleCount = rescheduleCount /\ before.announced = announced
        /\ detailStatus = [before.detailStatus EXCEPT ![apptDetail] = "cancelled"]
        /\ Return(w, op, "order") => AllCancelled(detailStatus)
    BY <2>1 DEF Alone, Underway, CountHeld, PushHeld
  <2>4. Workflow!AllCancelled(before'.detailStatus) <=> AllCancelled(detailStatus)
    BY <1>5, <2>2, RowsCatchUp DEF Workflow!AllCancelled, AllCancelled
  <2>5. orderStatus' = IF AllCancelled(detailStatus) THEN "cancelled" ELSE orderStatus
    BY <1>5, <2>3 DEF CancelEndsOrder
  <2>6. Workflow!CustomerCancel
    BY <1>5, <2>2, <2>3, <2>4, <2>5, RowsCatchUp
       DEF Settled, Workflow!CustomerCancel, Workflow!logVars, Workflow!stockVars
  <2> QED BY <2>2, <2>6 DEF WorkflowStep, Workflow!Next, Workflow!CustomerStep
<1> QED BY <1>1, <1>2, <1>3, <1>4, <1>5 DEF CancelStep

LEMMA ConfirmAlone ==
  ASSUME NEW w, Workers = {w}, RInv, Alone(w), ConfirmStep(w), Sound(w), Remembering
  PROVE  Alone(w)' /\ WorkflowStep
<1> DEFINE op == "adminConfirm"
<1> USE DEF rowVars, orderVars, detailVars, apptVars, logVars, stockVars
<1>1. CASE /\ apptDetail # None /\ Confirmable(apptDetail)
           /\ Begin(w, op, "appointment", None, None)
  <2>1. /\ req'[w] = [op |-> op, at |-> "appointment", arg |-> None, saw |-> None]
        /\ req[w].op = "idle" /\ UNCHANGED rowVars
    BY <1>1 DEF RInv, Slots, Begin, IdleWorker
  <2>2. before' = before /\ WorkflowStep
    BY <2>1, Onward DEF Handlers
  <2> QED BY <1>1, <2>1, <2>2
          DEF Alone, Underway, Settled, Level, StatusHeld, CountHeld, DetailHeld, PushHeld, Confirmable
<1>2. CASE /\ Proceed(w, op, "appointment", "detail")
           /\ SetAppointment(w, "confirmed")
           /\ UNCHANGED <<orderVars, detailVars, apptDetail, technician, rescheduleCount, logVars,
                          stockVars, locked>>
  <2>1. /\ req'[w] = [op |-> op, at |-> "detail", arg |-> req[w].arg, saw |-> req[w].saw]
        /\ req[w].op = op /\ req[w].at = "appointment" /\ apptDetail # None
    BY <1>2 DEF RInv, Slots, Proceed, At, Remembers, Good
  <2>2. before' = before /\ WorkflowStep
    BY <1>2, <2>1, Onward DEF Handlers
  <2> QED BY <1>2, <2>1, <2>2
          DEF Alone, Underway, Settled, CountHeld, DetailHeld, PushHeld, SetAppointment, RInv, RowsExist
<1>3. CASE /\ Proceed(w, op, "detail", "order")
           /\ SetDetail(w, "confirmed")
           /\ UNCHANGED <<orderVars, finalPrice, sparePartPrice, apptVars, logVars, stockVars, locked>>
  <2>1. /\ req'[w] = [op |-> op, at |-> "order", arg |-> req[w].arg, saw |-> req[w].saw]
        /\ req[w].op = op /\ req[w].at = "detail"
    BY <1>3 DEF RInv, Slots, Proceed, At, Remembers
  <2>2. before' = before /\ WorkflowStep
    BY <1>3, <2>1, Onward DEF Handlers
  <2>3. detailStatus' = [before.detailStatus EXCEPT ![apptDetail] = "confirmed"]
    BY <1>3, <2>1 DEF Alone, Underway, DetailHeld, SetDetail
  <2> HIDE DEF op
  <2>4. Underway(op, "order", req[w].arg, req[w].saw)'
    BY <1>3, <2>1, <2>2, <2>3 DEF op, Alone, Underway, CountHeld, PushHeld
  <2> QED BY <1>3, <2>1, <2>2, <2>4 DEF Alone, Settled
<1>4. CASE /\ Return(w, op, "order") /\ orderStatus' = "confirmed"
           /\ UNCHANGED <<totalAmount, detailVars, apptVars, logVars, stockVars>>
  <2>1. req'[w] = Idle /\ req[w].op = op /\ req[w].at = "order"
    BY <1>4 DEF RInv, Slots, Return, At
  <2>2. before' = Rows' /\ Alone(w)'
    BY <2>1, Finished
  <2>3. /\ apptDetail # None /\ apptStatus = "confirmed" /\ Settled
        /\ before.detailStatus[apptDetail] \notin {"none", "cancelled"}
        /\ before.rescheduleCount = rescheduleCount /\ before.announced = announced
        /\ detailStatus = [before.detailStatus EXCEPT ![apptDetail] = "confirmed"]
    BY <2>1 DEF Alone, Underway, CountHeld, PushHeld, RInv, Remembers, Good
  <2>4. Workflow!AdminConfirm
    BY <1>4, <2>2, <2>3, RowsCatchUp
       DEF Settled, Workflow!AdminConfirm, Workflow!Confirmable, Workflow!logVars, Workflow!stockVars
  <2> QED BY <2>2, <2>4 DEF WorkflowStep, Workflow!Next, Workflow!AdminStep
<1> QED BY <1>1, <1>2, <1>3, <1>4 DEF ConfirmStep

(* A request that ends without a write changes nothing for OrderWorkflow. *)
LEMMA FinishedInVain ==
  ASSUME NEW w, Workers = {w}, req'[w] = Idle, Remembering, Settled, Level, UNCHANGED rowVars
  PROVE  Alone(w)' /\ WorkflowStep
<1>1. before' = Rows' /\ Alone(w)'
  BY Finished
<1>2. UNCHANGED Workflow!vars
  BY <1>1, RowsCatchUp
     DEF Settled, Level, StatusHeld, CountHeld, DetailHeld, PushHeld, rowVars, orderVars, detailVars,
         apptVars, logVars, stockVars, Workflow!vars, Workflow!orderVars, Workflow!detailVars,
         Workflow!apptVars, Workflow!logVars, Workflow!stockVars
<1> QED BY <1>1, <1>2 DEF WorkflowStep

LEMMA CompleteAlone ==
  ASSUME NEW w, Workers = {w}, RInv, Alone(w), CompleteStep(w), Sound(w), Remembering
  PROVE  Alone(w)' /\ WorkflowStep
<1> DEFINE op == "adminComplete"
           accepted == CompletableDetails # {} /\ SumFinal(CompletableDetails) = req[w].saw
<1> USE DEF rowVars, orderVars, detailVars, apptVars, logVars, stockVars
<1>1. CASE orderStatus = "paid" /\ Begin(w, op, "readDetails", None, totalAmount)
  <2>1. /\ req'[w] = [op |-> op, at |-> "readDetails", arg |-> None, saw |-> totalAmount]
        /\ req[w].op = "idle" /\ UNCHANGED rowVars
    BY <1>1 DEF RInv, Slots, Begin, IdleWorker
  <2>2. before' = before /\ WorkflowStep
    BY <2>1, Onward DEF Handlers
  <2> QED BY <1>1, <2>1, <2>2
          DEF Alone, Underway, Settled, Level, StatusHeld, CountHeld, DetailHeld, PushHeld
<1>2. CASE Proceed(w, op, "readDetails", "order") /\ accepted /\ UNCHANGED <<rowVars, locked>>
  <2>1. /\ req'[w] = [op |-> op, at |-> "order", arg |-> req[w].arg, saw |-> req[w].saw]
        /\ req[w].op = op /\ req[w].at = "readDetails"
    BY <1>2 DEF RInv, Slots, Proceed, At, Remembers
  <2>2. before' = before /\ WorkflowStep
    BY <1>2, <2>1, Onward DEF Handlers
  <2>3. CompletableDetails # {} /\ SumOf(finalPrice, CompletableDetails) = totalAmount
    BY <1>2, <2>1, SumsOfDetails DEF Alone, Underway
  <2>4. CompletableDetails' = CompletableDetails
    BY <1>2 DEF CompletableDetails, RepairDone
  <2> QED BY <1>2, <2>1, <2>2, <2>3, <2>4
          DEF Alone, Underway, Settled, Level, StatusHeld, CountHeld, DetailHeld, PushHeld
<1>3. CASE Return(w, op, "readDetails") /\ UNCHANGED <<rowVars, locked>>
  <2>1. req'[w] = Idle /\ Settled /\ Level
    BY <1>3 DEF RInv, Slots, Return, At, Alone, Underway
  <2> QED BY <1>3, <2>1, FinishedInVain
<1>4. CASE /\ Return(w, op, "order") /\ orderStatus' = "completed"
           /\ UNCHANGED <<totalAmount, detailVars, apptVars, logVars, stockVars, locked>>
  <2>1. req'[w] = Idle /\ req[w].op = op /\ req[w].at = "order"
    BY <1>4 DEF RInv, Slots, Return, At
  <2>2. before' = Rows' /\ Alone(w)'
    BY <2>1, Finished
  <2>3. /\ Settled /\ Level /\ orderStatus = "paid"
        /\ CompletableDetails # {} /\ SumOf(finalPrice, CompletableDetails) = totalAmount
    BY <2>1 DEF Alone, Underway
  <2>4. Workflow!CompletableDetails = CompletableDetails
    BY <2>3 DEF Settled, Level, StatusHeld, DetailHeld, Workflow!CompletableDetails, CompletableDetails,
                Workflow!RepairDone, RepairDone
  <2>5. \A D : Workflow!SumFinal(D) = SumOf(before.finalPrice, D)
    BY Zenon DEF Workflow!SumFinal, Workflow!MapThenSumSet, Workflow!MapThenFoldSet, SumOf,
                 MapThenSumSet, MapThenFoldSet
  <2>6. Workflow!TotalMatches(Workflow!CompletableDetails)
    BY <2>3, <2>4, <2>5 DEF Settled, Workflow!TotalMatches
  <2>7. Workflow!AdminComplete
    BY <1>4, <2>2, <2>3, <2>4, <2>6, RowsCatchUp
       DEF Settled, Level, StatusHeld, CountHeld, DetailHeld, PushHeld, Workflow!AdminComplete,
           Workflow!detailVars, Workflow!apptVars, Workflow!logVars, Workflow!stockVars
  <2> QED BY <2>2, <2>7 DEF WorkflowStep, Workflow!Next, Workflow!AdminStep
<1> QED BY <1>1, <1>2, <1>3, <1>4 DEF CompleteStep

LEMMA UpdateStatusAlone ==
  ASSUME NEW w, Workers = {w}, RInv, Alone(w), UpdateStatusStep(w), Sound(w), Remembering
  PROVE  Alone(w)' /\ WorkflowStep
<1> DEFINE op == "updateAppointmentStatus"
<1> USE DEF rowVars, orderVars, detailVars, apptVars, logVars, stockVars
<1>1. ASSUME NEW new \in TechnicianUpdateStatuses, technician # None,
             <<apptStatus, new>> \in ValidStatusTransitions, Begin(w, op, "push", new, apptStatus)
      PROVE  Alone(w)' /\ WorkflowStep
  <2>1. /\ req'[w] = [op |-> op, at |-> "push", arg |-> new, saw |-> apptStatus]
        /\ req[w].op = "idle" /\ UNCHANGED rowVars
    BY <1>1 DEF RInv, Slots, Begin, IdleWorker
  <2>2. before' = before /\ WorkflowStep
    BY <2>1, Onward DEF Handlers
  <2> QED BY <1>1, <2>1, <2>2
          DEF Alone, Underway, Settled, Level, StatusHeld, CountHeld, DetailHeld, PushHeld
<1>2. CASE /\ Proceed(w, op, "push", "commit")
           /\ announced' = announced \cup {req[w].arg}
           /\ UNCHANGED <<orderVars, detailVars, apptVars, mirror, history, warranty, stockVars>>
  <2>1. /\ req'[w] = [op |-> op, at |-> "commit", arg |-> req[w].arg, saw |-> req[w].saw]
        /\ req[w].op = op /\ req[w].at = "push"
    BY <1>2 DEF RInv, Slots, Proceed, At, Remembers
  <2>2. before' = before /\ WorkflowStep
    BY <1>2, <2>1, Onward DEF Handlers
  <2> QED BY <1>2, <2>1, <2>2 DEF Alone, Underway, Settled, StatusHeld, CountHeld, DetailHeld, PushHeld
<1>3. CASE /\ Return(w, op, "commit")
           /\ SetAppointment(w, req[w].arg)
           /\ mirror' = req[w].arg
           /\ history' = history \cup {<<req[w].saw, req[w].arg>>}
           /\ UNCHANGED <<orderVars, detailVars, apptDetail, technician, rescheduleCount, announced,
                          warranty, stockVars>>
  <2>1. req'[w] = Idle /\ req[w].op = op /\ req[w].at = "commit"
    BY <1>3 DEF RInv, Slots, Return, At
  <2>2. before' = Rows' /\ Alone(w)'
    BY <2>1, Finished
  <2>3. /\ before.apptStatus = apptStatus /\ before.rescheduleCount = rescheduleCount
        /\ before.detailStatus = detailStatus /\ Settled
        /\ technician \in Technicians /\ req[w].saw = apptStatus
        /\ req[w].arg \in TechnicianUpdateStatuses /\ announced = before.announced \cup {req[w].arg}
        /\ <<apptStatus, req[w].arg>> \in ValidStatusTransitions
    BY <2>1 DEF Alone, Underway, StatusHeld, CountHeld, DetailHeld, RInv, TypeOK, Remembers, Good
  <2>4. /\ req[w].arg \in Workflow!TechnicianUpdateStatuses
        /\ req[w].arg \in Workflow!AppointmentStatusEnum
        /\ <<before.apptStatus, req[w].arg>> \in Workflow!ValidStatusTransitions
    BY <2>3 DEF Workflow!TechnicianUpdateStatuses, TechnicianUpdateStatuses,
                Workflow!AppointmentStatusEnum, Workflow!ValidStatusTransitions, ValidStatusTransitions
  <2>5. Workflow!LogStatus(req[w].arg)
    BY <1>3, <2>2, <2>3, RowsCatchUp DEF Settled, Workflow!LogStatus
  <2>6. Workflow!UpdateAppointmentStatus(technician, req[w].arg)
    BY <1>3, <2>2, <2>3, <2>4, <2>5, RowsCatchUp
       DEF Settled, SetAppointment, Workflow!UpdateAppointmentStatus, Workflow!orderVars,
           Workflow!detailVars, Workflow!stockVars
  <2> QED BY <2>2, <2>3, <2>4, <2>6 DEF WorkflowStep, Workflow!Next, Workflow!TechnicianStep
<1> QED BY <1>1, <1>2, <1>3 DEF UpdateStatusStep

LEMMA CompleteRepairAlone ==
  ASSUME NEW w, Workers = {w}, RInv, Alone(w), CompleteRepairStep(w), Sound(w), Remembering
  PROVE  Alone(w)' /\ WorkflowStep
<1> DEFINE op == "completeRepair"
           accepted == req[w].arg => warranty[apptDetail] = None /\ OrderId \in Services
<1> USE DEF rowVars, orderVars, detailVars, apptVars, logVars, stockVars
<1>1. ASSUME NEW withImages \in BOOLEAN, technician # None, apptStatus = "in_progress",
             Begin(w, op, "push", withImages, None)
      PROVE  Alone(w)' /\ WorkflowStep
  <2>1. /\ req'[w] = [op |-> op, at |-> "push", arg |-> withImages, saw |-> None]
        /\ req[w].op = "idle" /\ UNCHANGED rowVars
    BY <1>1 DEF RInv, Slots, Begin, IdleWorker
  <2>2. before' = before /\ WorkflowStep
    BY <2>1, Onward DEF Handlers
  <2> QED BY <1>1, <2>1, <2>2
          DEF Alone, Underway, Settled, Level, StatusHeld, CountHeld, DetailHeld, PushHeld
<1>2. CASE /\ Proceed(w, op, "push", "commit")
           /\ announced' = announced \cup {"technician_done"}
           /\ UNCHANGED <<orderVars, detailVars, apptVars, mirror, history, warranty, stockVars>>
  <2>1. /\ req'[w] = [op |-> op, at |-> "commit", arg |-> req[w].arg, saw |-> req[w].saw]
        /\ req[w].op = op /\ req[w].at = "push"
    BY <1>2 DEF RInv, Slots, Proceed, At, Remembers
  <2>2. before' = before /\ WorkflowStep
    BY <1>2, <2>1, Onward DEF Handlers
  <2> QED BY <1>2, <2>1, <2>2 DEF Alone, Underway, Settled, StatusHeld, CountHeld, DetailHeld, PushHeld
<1>3. CASE \/ /\ Return(w, op, "commit") /\ accepted
              /\ SetAppointment(w, "technician_done")
              /\ mirror' = "technician_done"
              /\ history' = history \cup {<<"in_progress", "technician_done">>}
              /\ warranty' = IF req[w].arg THEN [warranty EXCEPT ![apptDetail] = OrderId] ELSE warranty
              /\ UNCHANGED <<orderVars, detailVars, apptDetail, technician, rescheduleCount, announced,
                             stockVars>>
           \/ Return(w, op, "commit") /\ ~accepted /\ UNCHANGED rowVars
  <2>1. req'[w] = Idle /\ req[w].op = op /\ req[w].at = "commit"
    BY <1>3 DEF RInv, Slots, Return, At
  <2>2. before' = Rows' /\ Alone(w)'
    BY <2>1, Finished
  <2>3. /\ before.apptStatus = apptStatus /\ before.rescheduleCount = rescheduleCount
        /\ before.detailStatus = detailStatus /\ Settled
        /\ technician \in Technicians /\ apptStatus = "in_progress" /\ req[w].arg \in BOOLEAN
        /\ announced = before.announced \cup {"technician_done"}
    BY <2>1 DEF Alone, Underway, StatusHeld, CountHeld, DetailHeld, RInv, TypeOK, Remembers, Good
  <2>4. CASE ~accepted
    <3>1. Workflow!CompleteRepair(technician, req[w].arg)
      BY <1>3, <2>2, <2>3, <2>4, RowsCatchUp
         DEF Settled, Workflow!CompleteRepair, Workflow!orderVars, Workflow!detailVars, Workflow!stockVars
    <3> QED BY <2>2, <2>3, <3>1 DEF WorkflowStep, Workflow!Next, Workflow!TechnicianStep
  <2>5. CASE accepted
    <3>1. Workflow!LogStatus("technician_done")
      BY <1>3, <2>2, <2>3, <2>5, RowsCatchUp DEF Settled, Workflow!LogStatus
    <3>2. Workflow!CompleteRepair(technician, req[w].arg)
      BY <1>3, <2>2, <2>3, <2>5, <3>1, RowsCatchUp
         DEF Settled, SetAppointment, Workflow!CompleteRepair, Workflow!orderVars, Workflow!detailVars,
             Workflow!stockVars
    <3> QED BY <2>2, <2>3, <3>2 DEF WorkflowStep, Workflow!Next, Workflow!TechnicianStep
  <2> QED BY <2>4, <2>5
<1> QED BY <1>1, <1>2, <1>3 DEF CompleteRepairStep

LEMMA QuoteAlone ==
  ASSUME NEW w, Workers = {w}, RInv, Alone(w), QuoteStep(w), Sound(w), Remembering
  PROVE  Alone(w)' /\ WorkflowStep
<1> DEFINE op == "quote"
           total == req[w].saw + req[w].arg.quote
<1> USE DEF rowVars, orderVars, detailVars, apptVars, logVars, stockVars
<1>1. ASSUME NEW d \in OrderDetails, NEW q \in Quotes, technician # None,
             apptStatus \in {"arrived", "in_progress"},
             Begin(w, op, "readOrder", [detail |-> d, quote |-> q], None)
      PROVE  Alone(w)' /\ WorkflowStep
  <2>1. /\ req'[w] = [op |-> op, at |-> "readOrder", arg |-> [detail |-> d, quote |-> q], saw |-> None]
        /\ req[w].op = "idle" /\ UNCHANGED rowVars
    BY <1>1 DEF RInv, Slots, Begin, IdleWorker
  <2>2. before' = before /\ WorkflowStep
    BY <2>1, Onward DEF Handlers
  <2> QED BY <1>1, <2>1, <2>2
          DEF Alone, Underway, Settled, Level, StatusHeld, CountHeld, DetailHeld, PushHeld, OrderDetails
<1>2. CASE /\ At(w, op, "readOrder")
           /\ req' = [req EXCEPT ![w].at = "commit", ![w].saw = totalAmount]
           /\ UNCHANGED <<rowVars, locked>>
  <2>1. Slots /\ Remembers(w) /\ Reads(w, "commit", totalAmount) /\ req[w].op = op
    BY <1>2 DEF RInv, Reads, At
  <2>2. req'[w] = [op |-> op, at |-> "commit", arg |-> req[w].arg, saw |-> totalAmount]
    BY <2>1, ReadSlot
  <2>3. before' = before /\ WorkflowStep
    BY <1>2, <2>2, Onward DEF Handlers
  <2> QED BY <1>2, <2>1, <2>2, <2>3
          DEF Alone, Underway, Settled, Level, StatusHeld, CountHeld, DetailHeld, PushHeld, OrderDetails
<1>3. CASE /\ Return(w, op, "commit") /\ FitsInt(total)
           /\ finalPrice' = [finalPrice EXCEPT ![req[w].arg.detail] = req[w].arg.quote]
           /\ SetAppointment(w, "quoted")
           /\ totalAmount' = total
           /\ UNCHANGED <<orderStatus, detailStatus, sparePartPrice, apptDetail, technician,
                          rescheduleCount, logVars, stockVars, locked>>
  <2>1. req'[w] = Idle /\ req[w].op = op /\ req[w].at = "commit"
    BY <1>3 DEF RInv, Slots, Return, At
  <2>2. before' = Rows' /\ Alone(w)'
    BY <2>1, Finished
  <2>3. /\ Settled /\ Level /\ technician \in Technicians /\ apptStatus \in {"arrived", "in_progress"}
        /\ req[w].arg.detail \in OrderDetails /\ req[w].saw = totalAmount
        /\ req[w].arg.detail \in Details /\ req[w].arg.quote \in Quotes
    BY <2>1 DEF Alone, Underway, RInv, TypeOK, Remembers, Good
  <2>4. req[w].arg.detail \in Workflow!OrderDetails
    BY <2>3 DEF OrderDetails, Workflow!OrderDetails, Level, DetailHeld
  <2>5. Workflow!TotalWithQuote(req[w].arg.quote) = total /\ Workflow!FitsInt(total)
    BY <1>3, <2>3 DEF Settled, Workflow!TotalWithQuote, Workflow!FitsInt, FitsInt
  <2>6. Workflow!Quote(technician, req[w].arg.detail, req[w].arg.quote)
    <3> HIDE DEF total
    <3> QED BY <1>3, <2>2, <2>3, <2>4, <2>5, RowsCatchUp
            DEF Settled, Level, StatusHeld, CountHeld, DetailHeld, PushHeld, SetAppointment,
                Workflow!Quote, Workflow!logVars, Workflow!stockVars
  <2> QED BY <2>2, <2>3, <2>6 DEF WorkflowStep, Workflow!Next, Workflow!TechnicianStep
<1>4. CASE Return(w, op, "commit") /\ ~FitsInt(total) /\ UNCHANGED <<rowVars, locked>>
  <2>1. req'[w] = Idle /\ Settled /\ Level
    BY <1>4 DEF RInv, Slots, Return, At, Alone, Underway
  <2> QED BY <1>4, <2>1, FinishedInVain
<1> QED BY <1>1, <1>2, <1>3, <1>4 DEF QuoteStep

LEMMA SparePartsAlone ==
  ASSUME NEW w, Workers = {w}, RInv, Alone(w), SparePartsStep(w), Sound(w), Remembering
  PROVE  Alone(w)' /\ WorkflowStep
<1> DEFINE op == "addSpareParts"
           cost == UnitPrice * req[w].arg.total
           fits == /\ FitsInt(finalPrice[apptDetail] + cost)
                   /\ FitsInt(sparePartPrice[apptDetail] + cost)
                   /\ FitsInt(totalAmount + cost)
<1> USE DEF rowVars, orderVars, detailVars, apptVars, logVars, stockVars
<1>1. ASSUME NEW r \in PartRequests, technician # None, r.largest <= stock,
             Begin(w, op, "commit", r, stock)
      PROVE  Alone(w)' /\ WorkflowStep
  <2>1. /\ req'[w] = [op |-> op, at |-> "commit", arg |-> r, saw |-> stock]
        /\ req[w].op = "idle" /\ UNCHANGED rowVars
    BY <1>1 DEF RInv, Slots, Begin, IdleWorker
  <2>2. before' = before /\ WorkflowStep
    BY <2>1, Onward DEF Handlers
  <2> QED BY <1>1, <2>1, <2>2
          DEF Alone, Underway, Settled, Level, StatusHeld, CountHeld, DetailHeld, PushHeld
<1>2. CASE /\ Return(w, op, "commit") /\ fits
           /\ used' = used + req[w].arg.total
           /\ stock' = StockLeft(w)
           /\ sparePartPrice' = [sparePartPrice EXCEPT ![apptDetail] = @ + cost]
           /\ finalPrice' = [finalPrice EXCEPT ![apptDetail] = @ + cost]
           /\ totalAmount' = TotalWithParts(cost)
           /\ UNCHANGED <<orderStatus, detailStatus, apptVars, logVars, locked>>
  <2>1. req'[w] = Idle /\ req[w].op = op /\ req[w].at = "commit"
    BY <1>2 DEF RInv, Slots, Return, At
  <2>2. before' = Rows' /\ Alone(w)'
    BY <2>1, Finished
  <2>3. /\ Settled /\ Level /\ technician \in Technicians /\ apptDetail # None
        /\ req[w].arg \in PartRequests /\ req[w].arg.largest <= stock
    BY <2>1 DEF Alone, Underway, RInv, TypeOK, Remembers, Good
  <2>4. apptStatus # "none"
    BY <2>3 DEF RInv, RowsExist
  <2>5. /\ Workflow!FitsInt(before.finalPrice[before.apptDetail] + cost)
        /\ Workflow!FitsInt(before.sparePartPrice[before.apptDetail] + cost)
        /\ Workflow!FitsInt(Workflow!TotalWithParts(cost))
        /\ Workflow!TotalWithParts(cost) = TotalWithParts(cost)
        /\ Workflow!StockAfter(req[w].arg) = StockLeft(w)
    <3> HIDE DEF cost
    <3> QED BY <1>2, <2>3 DEF Settled, Workflow!FitsInt, FitsInt, Workflow!TotalWithParts,
                              TotalWithParts, Workflow!StockAfter, StockAfter, StockLeft
  <2>6. Workflow!AddSpareParts(technician, req[w].arg)
    BY <1>2, <2>2, <2>3, <2>4, <2>5, RowsCatchUp
       DEF Settled, Level, StatusHeld, CountHeld, DetailHeld, PushHeld, Workflow!AddSpareParts,
           Workflow!apptVars, Workflow!logVars
  <2> QED BY <2>2, <2>3, <2>6 DEF WorkflowStep, Workflow!Next, Workflow!TechnicianStep
<1>3. CASE Return(w, op, "commit") /\ ~fits /\ UNCHANGED <<rowVars, locked>>
  <2>1. req'[w] = Idle /\ Settled /\ Level
    BY <1>3 DEF RInv, Slots, Return, At, Alone, Underway
  <2> QED BY <1>3, <2>1, FinishedInVain
<1> QED BY <1>1, <1>2, <1>3 DEF SparePartsStep

LEMMA PaymentAlone ==
  ASSUME NEW w, Workers = {w}, RInv, Alone(w), PaymentStep(w), Sound(w), Remembering
  PROVE  Alone(w)' /\ WorkflowStep
<1> DEFINE op == "updatePaymentStatus"
           accepted == (\E d \in Details : detailStatus[d] = "confirmed") /\ req[w].saw = "technician_done"
<1> USE DEF rowVars, orderVars, detailVars, apptVars, logVars, stockVars
<1>1. CASE orderStatus = "confirmed" /\ Begin(w, op, "readAppointment", None, None)
  <2>1. /\ req'[w] = [op |-> op, at |-> "readAppointment", arg |-> None, saw |-> None]
        /\ req[w].op = "idle" /\ UNCHANGED rowVars
    BY <1>1 DEF RInv, Slots, Begin, IdleWorker
  <2>2. before' = before /\ WorkflowStep
    BY <2>1, Onward DEF Handlers
  <2> QED BY <1>1, <2>1, <2>2
          DEF Alone, Underway, Settled, Level, StatusHeld, CountHeld, DetailHeld, PushHeld
<1>2. CASE /\ At(w, op, "readAppointment") /\ apptStatus # "none"
           /\ req' = [req EXCEPT ![w].at = "readDetails", ![w].saw = apptStatus]
           /\ UNCHANGED <<rowVars, locked>>
  <2>1. Slots /\ Remembers(w) /\ Reads(w, "readDetails", apptStatus) /\ req[w].op = op
    BY <1>2 DEF RInv, Reads, At
  <2>2. req'[w] = [op |-> op, at |-> "readDetails", arg |-> req[w].arg, saw |-> apptStatus]
    BY <2>1, ReadSlot
  <2>3. before' = before /\ WorkflowStep
    BY <1>2, <2>2, Onward DEF Handlers
  <2> QED BY <1>2, <2>1, <2>2, <2>3
          DEF Alone, Underway, Settled, Level, StatusHeld, CountHeld, DetailHeld, PushHeld
<1>3. CASE /\ \/ At(w, op, "readAppointment") /\ req' = [req EXCEPT ![w] = Idle]
              \/ Return(w, op, "readDetails")
           /\ UNCHANGED <<rowVars, locked>>
  <2>1. req'[w] = Idle /\ Settled /\ Level
    BY <1>3 DEF RInv, Slots, Return, At, Alone, Underway
  <2> QED BY <1>3, <2>1, FinishedInVain
<1>4. CASE Proceed(w, op, "readDetails", "order") /\ accepted /\ UNCHANGED <<rowVars, locked>>
  <2>1. /\ req'[w] = [op |-> op, at |-> "order", arg |-> req[w].arg, saw |-> req[w].saw]
        /\ req[w].op = op /\ req[w].at = "readDetails"
    BY <1>4 DEF RInv, Slots, Proceed, At, Remembers
  <2>2. before' = before /\ WorkflowStep
    BY <1>4, <2>1, Onward DEF Handlers
  <2> QED BY <1>4, <2>1, <2>2
          DEF Alone, Underway, Settled, Level, StatusHeld, CountHeld, DetailHeld, PushHeld
<1>5. CASE /\ Return(w, op, "order") /\ orderStatus' = "paid"
           /\ UNCHANGED <<totalAmount, detailVars, apptVars, logVars, stockVars, locked>>
  <2>1. req'[w] = Idle /\ req[w].op = op /\ req[w].at = "order"
    BY <1>5 DEF RInv, Slots, Return, At
  <2>2. before' = Rows' /\ Alone(w)'
    BY <2>1, Finished
  <2>3. /\ Settled /\ Level /\ orderStatus = "confirmed" /\ apptStatus = "technician_done"
        /\ \E d \in Details : detailStatus[d] = "confirmed"
    BY <2>1 DEF Alone, Underway, RInv, Remembers, Good
  <2>4. Workflow!TechnicianUpdatePaymentStatus(technician)
    BY <1>5, <2>2, <2>3, RowsCatchUp
       DEF Settled, Level, StatusHeld, CountHeld, DetailHeld, PushHeld, Workflow!RepairDone,
           Workflow!TechnicianUpdatePaymentStatus, Workflow!detailVars, Workflow!apptVars,
           Workflow!logVars, Workflow!stockVars
  <2>5. technician \in Workflow!PaymentCallers
    BY DEF RInv, TypeOK, Workflow!PaymentCallers
  <2> QED BY <2>2, <2>4, <2>5 DEF WorkflowStep, Workflow!Next
<1> QED BY <1>1, <1>2, <1>3, <1>4, <1>5 DEF PaymentStep

(* The step that begins an order and the one that is no request. *)
LEMMA CreateAlone ==
  ASSUME NEW w, Workers = {w}, RInv, Alone(w), Remembering, UNCHANGED reqVars,
         NEW form \in OrderForms, CreateServiceOrder(form[1], form[2])
  PROVE  Alone(w)' /\ WorkflowStep
<1> USE DEF logVars, stockVars
<1>1. Slots /\ req[w].op = "idle" /\ req' = req
  BY DEF RInv, CreateServiceOrder, Remembers, Good, reqVars
<1>2. AllIdle'
  BY <1>1 DEF AllIdle, IdleWorker
<1>3. before' = Rows'
  BY <1>2 DEF Remembering
<1>4. Settled /\ Level
  BY <1>1 DEF Alone, Underway
<1>5. Workflow!CreateServiceOrder(form[1], form[2])
  BY <1>3, <1>4, RowsCatchUp
     DEF Settled, Level, StatusHeld, CountHeld, DetailHeld, PushHeld, CreateServiceOrder,
         Workflow!CreateServiceOrder, Workflow!logVars, Workflow!stockVars
<1>6. form \in Workflow!OrderForms
  BY DEF OrderForms, Workflow!OrderForms
<1>7. Settled' /\ Level' /\ before'.apptStatus = apptStatus'
  BY <1>3, RowsCatchUp
<1>8. \A at, arg, saw : Underway("idle", at, arg, saw)'
  BY <1>7 DEF Underway
<1> QED BY <1>1, <1>5, <1>6, <1>7, <1>8
        DEF Alone, WorkflowStep, Workflow!Next, Workflow!CustomerStep

LEMMA AssignAlone ==
  ASSUME NEW w, Workers = {w}, RInv, Alone(w), Remembering, UNCHANGED reqVars,
         NEW t \in Technicians, AssignTechnician(t)
  PROVE  Alone(w)' /\ WorkflowStep
<1> USE DEF orderVars, detailVars, logVars, stockVars
<1>1. req' = req /\ (AllIdle' <=> req[w].op = "idle") /\ t # None
  BY ConstantsAssumption DEF AllIdle, IdleWorker, reqVars
<1>2. CASE req[w].op = "idle"
  <2>1. before' = Rows' /\ Settled /\ Level
    BY <1>1, <1>2 DEF Remembering, Alone, Underway
  <2>2. Workflow!AssignTechnician(t)
    BY <2>1, RowsCatchUp
       DEF Settled, Level, StatusHeld, CountHeld, DetailHeld, PushHeld, AssignTechnician,
           Workflow!AssignTechnician, Workflow!orderVars, Workflow!detailVars, Workflow!logVars,
           Workflow!stockVars
  <2>3. Settled' /\ Level' /\ before'.apptStatus = apptStatus'
    BY <2>1, RowsCatchUp
  <2>4. \A at, arg, saw : Underway("idle", at, arg, saw)'
    BY <2>3 DEF Underway
  <2> QED BY <1>1, <1>2, <2>2, <2>3, <2>4 DEF Alone, WorkflowStep, Workflow!Next, Workflow!TechnicianStep
<1>3. CASE req[w].op # "idle"
  <2>1. before' = before
    BY <1>1, <1>3 DEF Remembering
  <2>2. before.apptStatus # "none"
    BY DEF AssignTechnician, Alone
  <2>3. Workflow!AssignTechnician(t)
    BY <2>1, <2>2
       DEF AssignTechnician, Workflow!AssignTechnician, Workflow!orderVars, Workflow!detailVars,
           Workflow!logVars, Workflow!stockVars
  <2>4. Settled' /\ (before'.apptStatus = "none" <=> apptStatus' = "none")
    BY <2>1 DEF Alone, Settled, AssignTechnician
  <2>5. CompletableDetails' = CompletableDetails /\ OrderDetails' = OrderDetails
    BY DEF CompletableDetails, RepairDone, OrderDetails, AssignTechnician
  <2>6. \A op, at, arg, saw : Underway(op, at, arg, saw) => Underway(op, at, arg, saw)'
    BY <1>1, <2>1, <2>5
       DEF AssignTechnician, Underway, Level, StatusHeld, CountHeld, DetailHeld, PushHeld, AllCancelled
  <2> QED BY <1>1, <2>3, <2>4, <2>6 DEF Alone, WorkflowStep, Workflow!Next, Workflow!TechnicianStep
<1> QED BY <1>2, <1>3

LEMMA AloneInit ==
  ASSUME NEW w, Workers = {w}, HInit
  PROVE  Alone(w) /\ Workflow!Init
<1>1. req[w] = Idle /\ Settled /\ Level /\ before.apptStatus = apptStatus
      /\ before.detailStatus = detailStatus /\ before.rescheduleCount = rescheduleCount
      /\ before.announced = announced
  BY DEF HInit, RInit, Rows, Settled, Level, StatusHeld, CountHeld, DetailHeld, PushHeld
<1>2. Alone(w)
  BY <1>1 DEF Alone, Underway, Idle
<1>3. Workflow!Init
  BY <1>1 DEF HInit, RInit, Init, Settled, Workflow!Init
<1> QED BY <1>2, <1>3

LEMMA AloneNext ==
  ASSUME NEW w, Workers = {w}, ~MayFail, RInv, Alone(w), [HNext]_<<allVars, before>>
  PROVE  Alone(w)' /\ WorkflowStep
<1>1. CASE UNCHANGED <<allVars, before>>
  <2> USE <1>1 DEF allVars, vars, orderVars, detailVars, apptVars, logVars, stockVars, reqVars
  <2>1. Alone(w)'
    <3>1. CompletableDetails' = CompletableDetails /\ OrderDetails' = OrderDetails
      BY DEF CompletableDetails, RepairDone, OrderDetails
    <3>2. \A op, at, arg, saw : Underway(op, at, arg, saw) => Underway(op, at, arg, saw)'
      BY <3>1 DEF Underway, Level, StatusHeld, CountHeld, DetailHeld, PushHeld, AllCancelled
    <3> QED BY <3>2 DEF Alone, Settled
  <2>2. UNCHANGED Workflow!vars
    BY DEF Workflow!vars, Workflow!orderVars, Workflow!detailVars, Workflow!apptVars,
           Workflow!logVars, Workflow!stockVars
  <2> QED BY <2>1, <2>2 DEF WorkflowStep
<1>2. CASE HNext
  <2>1. Remembering /\ RNext
    BY <1>2 DEF HNext, Remembering
  <2>2. CASE RequestStep(w)
    <3>1. Sound(w)
      BY <2>2, RequestSound
    <3> QED BY <2>1, <2>2, <3>1, CustomerUpdateAlone, QuoteConfirmAlone, CancelAlone, ConfirmAlone,
               CompleteAlone, UpdateStatusAlone, CompleteRepairAlone, QuoteAlone, SparePartsAlone,
               PaymentAlone
            DEF RequestStep
  <2>3. ASSUME NEW form \in OrderForms, CreateServiceOrder(form[1], form[2]), UNCHANGED reqVars
        PROVE  Alone(w)' /\ WorkflowStep
    BY <2>1, <2>3, CreateAlone
  <2>4. ASSUME NEW t \in Technicians, AssignTechnician(t), UNCHANGED reqVars
        PROVE  Alone(w)' /\ WorkflowStep
    BY <2>1, <2>4, AssignAlone
  <2> QED BY <2>1, <2>2, <2>3, <2>4 DEF RNext, Fail
<1> QED BY <1>1, <1>2

(* One request at a time, each from its first read to its last write: what  *)
(* the statements of the handlers do together is what OrderWorkflow says    *)
(* they do, or nothing, for orders, prices and stocks of any size.          *)
THEOREM RequestsImplementWorkflow ==
  ASSUME NEW w, Workers = {w}, ~MayFail
  PROVE  HSpec => ImplementsWorkflow
<1>1. HInit => RInv /\ Alone(w) /\ Workflow!Init
  BY RInvInit, AloneInit DEF HInit
<1>2. RInv /\ [HNext]_<<allVars, before>> => RInv'
  <2>1. [HNext]_<<allVars, before>> => [RNext]_allVars
    BY DEF HNext
  <2> QED BY <2>1, RNextMoves
<1>3. RInv /\ Alone(w) /\ [HNext]_<<allVars, before>> => Alone(w)' /\ [Workflow!Next]_(Workflow!vars)
  BY AloneNext DEF WorkflowStep
<1> QED BY <1>1, <1>2, <1>3, PTL DEF HSpec, ImplementsWorkflow, Workflow!Spec
=============================================================================
