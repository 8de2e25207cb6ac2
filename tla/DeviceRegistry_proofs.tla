------------------------ MODULE DeviceRegistry_proofs ------------------------
(***************************************************************************)
(* Devices for every number of users, tokens, orders and slots.            *)
(*  The bound on devices: count as held by a      *)
(* user his devices and those a login of his is about to delete, whoever    *)
(* has them by now.  A login that inserts found room when it began or has   *)
(* deleted a device he held, so devices held and inserts under way together *)
(* never exceed MaxDevices - 1 and the slots there are.                     *)
(***************************************************************************)
EXTENDS DeviceRegistry, FiniteSetTheorems, FunctionTheorems, TLAPS

(* The logins of a user that are about to delete a device, the devices he   *)
(* holds, and the logins that are about to insert one.                      *)
Deleters(u) == {w \in Workers : At(w, "delete") /\ req[w].user = u /\ req[w].victim # Gone}
Held(u) == DevicesOf(u) \cup {t \in Tokens : \E w \in Deleters(u) : req[w].victim = t}
Upserts(u) == {w \in Workers : At(w, "upsert") /\ req[w].user = u}

Load == \A u \in Users :
  Cardinality(Held(u)) + Cardinality(Upserts(u)) <= MaxDevices - 1 + Cardinality(Workers)

(* A row some login is about to delete is there. *)
VictimsAreThere == \A w \in Workers :
  At(w, "delete") /\ req[w].victim # Gone => owner[req[w].victim] # None

(* Without overlap what a login found out is still true when it writes.     *)
Alone == \A v, w \in Workers : req[v] # Idle /\ req[w] # Idle => v = w

SerialInv ==
  ~overlapped =>
    /\ Alone
    /\ \A u \in Users : Cardinality(DevicesOf(u)) <= MaxDevices
    /\ \A w \in Workers : At(w, "upsert") => Cardinality(DevicesOf(req[w].user)) <= MaxDevices - 1
    /\ \A w \in Workers : At(w, "delete") => req[w].victim \in OldestOf(req[w].user)

Devices == Load /\ VictimsAreThere /\ SerialInv

Inv == TypeOK /\ Devices

-----------------------------------------------------------------------------
LEMMA Finite ==
  /\ \A u : IsFiniteSet(DevicesOf(u)) /\ Cardinality(DevicesOf(u)) \in Nat
  /\ \A u : IsFiniteSet(Held(u)) /\ Cardinality(Held(u)) \in Nat
  /\ \A u : IsFiniteSet(Upserts(u)) /\ Cardinality(Upserts(u)) \in Nat
  /\ Cardinality(Workers) \in Nat
<1>1. \A u : DevicesOf(u) \in SUBSET Tokens /\ Held(u) \in SUBSET Tokens /\ Upserts(u) \in SUBSET Workers
  BY DEF DevicesOf, Held, Upserts
<1>2. \A u : IsFiniteSet(DevicesOf(u)) /\ IsFiniteSet(Held(u)) /\ IsFiniteSet(Upserts(u))
  BY <1>1, DevicesAssumption, FS_Subset
<1> QED BY <1>2, DevicesAssumption, FS_CardinalityType

LEMMA FiniteNext ==
  /\ \A u : IsFiniteSet(DevicesOf(u)') /\ Cardinality(DevicesOf(u)') \in Nat
  /\ \A u : IsFiniteSet(Held(u)') /\ Cardinality(Held(u)') \in Nat
  /\ \A u : IsFiniteSet(Upserts(u)') /\ Cardinality(Upserts(u)') \in Nat
<1>1. \A u : DevicesOf(u)' \in SUBSET Tokens /\ Held(u)' \in SUBSET Tokens /\ Upserts(u)' \in SUBSET Workers
  BY DEF DevicesOf, Held, Upserts
<1>2. \A u : IsFiniteSet(DevicesOf(u)') /\ IsFiniteSet(Held(u)') /\ IsFiniteSet(Upserts(u)')
  BY <1>1, DevicesAssumption, FS_Subset
<1> QED BY <1>2, DevicesAssumption, FS_CardinalityType

(* A set with one more element has at most one element more. *)
LEMMA OneMore ==
  ASSUME NEW S, IsFiniteSet(S), NEW x
  PROVE  IsFiniteSet(S \cup {x}) /\ Cardinality(S \cup {x}) <= Cardinality(S) + 1
<1>1. Cardinality(S) \in Nat
  BY FS_CardinalityType
<1>2. /\ IsFiniteSet(S \cup {x})
      /\ Cardinality(S \cup {x}) = Cardinality(S) \/ Cardinality(S \cup {x}) = Cardinality(S) + 1
  BY FS_AddElement, Zenon
<1> QED BY <1>1, <1>2

(* What a request at a step carries. *)
LEMMA Carried ==
  ASSUME TypeOK, NEW w \in Workers
  PROVE  /\ req[w] \in Requests
         /\ At(w, "oldest") \/ At(w, "upsert") =>
              req[w] \in [at : {"oldest", "upsert"}, user : Users, token : Tokens]
         /\ At(w, "delete") =>
              req[w] \in [at : {"delete"}, user : Users, token : Tokens, victim : Tokens \cup {Gone}]
         /\ Placing(w) =>
              req[w] \in [at : {"create", "send", "mark"}, user : Users, order : Orders]
BY DEF TypeOK, Requests, At, Placing, Idle

(* The devices a user holds, together with slots that are not about to      *)
(* delete one, are at most his devices and all slots.                       *)
LEMMA Room ==
  ASSUME TypeOK, NEW u \in Users, NEW U \in SUBSET Workers, U \cap Deleters(u) = {}
  PROVE  Cardinality(Held(u)) + Cardinality(U) <= Cardinality(DevicesOf(u)) + Cardinality(Workers)
<1> DEFINE D == Deleters(u)
           V == {t \in Tokens : \E w \in D : req[w].victim = t}
           f == [w \in D |-> req[w].victim]
<1>1. IsFiniteSet(D) /\ IsFiniteSet(U) /\ D \subseteq Workers
  <2>1. D \in SUBSET Workers
    BY DEF Deleters
  <2> QED BY <2>1, DevicesAssumption, FS_Subset
<1>2. f \in Surjection(D, V)
  <2>1. \A w \in D : req[w].victim \in V
    BY Carried DEF Deleters
  <2>2. f \in [D -> V] /\ \A t \in V : \E w \in D : f[w] = t
    BY <2>1
  <2> QED BY <2>2, Fun_IsSurj
<1>3. IsFiniteSet(V) /\ Cardinality(V) <= Cardinality(D)
  <2> HIDE DEF D, V, f
  <2> QED BY <1>1, <1>2, FS_Surjection
<1>4. Cardinality(Held(u)) <= Cardinality(DevicesOf(u)) + Cardinality(V)
  <2>1. Held(u) = DevicesOf(u) \cup V
    BY DEF Held
  <2> HIDE DEF V
  <2>2. IsFiniteSet(DevicesOf(u)) /\ IsFiniteSet(DevicesOf(u) \cap V)
    BY <1>3, Finite, FS_Subset
  <2>3. Cardinality(Held(u)) = Cardinality(DevicesOf(u)) + Cardinality(V) - Cardinality(DevicesOf(u) \cap V)
    BY <1>3, <2>1, <2>2, FS_Union
  <2>4. Cardinality(DevicesOf(u)) \in Nat /\ Cardinality(V) \in Nat /\ Cardinality(DevicesOf(u) \cap V) \in Nat
    BY <1>3, <2>2, FS_CardinalityType
  <2> QED BY <2>3, <2>4
<1>5. Cardinality(D) + Cardinality(U) <= Cardinality(Workers)
  <2> HIDE DEF D
  <2>1. Cardinality(D \cup U) = Cardinality(D) + Cardinality(U) - Cardinality(D \cap U)
    BY <1>1, FS_Union
  <2>2. D \cap U = {} /\ D \cup U \in SUBSET Workers
    BY <1>1 DEF D
  <2>3. Cardinality(D \cap U) = 0
    BY <2>2, FS_EmptySet
  <2>4. Cardinality(D \cup U) <= Cardinality(Workers)
    BY <2>2, DevicesAssumption, FS_Subset
  <2>5. Cardinality(D) \in Nat /\ Cardinality(U) \in Nat
    BY <1>1, FS_CardinalityType
  <2> QED BY <2>1, <2>3, <2>4, <2>5
<1>6. /\ Cardinality(V) \in Nat /\ Cardinality(D) \in Nat /\ Cardinality(U) \in Nat
  BY <1>1, <1>3, FS_CardinalityType
<1> HIDE DEF D, V
<1> QED BY <1>3, <1>4, <1>5, <1>6, Finite

-----------------------------------------------------------------------------
(* Who is under way after a request began, went on or ended.                *)
LEMMA BeginAlone ==
  ASSUME TypeOK, NEW w \in Workers, NEW r, Begin(w, r)
  PROVE  /\ \A v \in Workers : req'[v] = IF v = w THEN r ELSE req[v]
         /\ overlapped => overlapped'
         /\ ~overlapped' => \A v \in Workers \ {w} : req'[v] = Idle
<1>1. req' = [req EXCEPT ![w] = r]
  BY DEF Begin
<1>2. overlapped' = (overlapped \/ \E v \in Workers \ {w} : req[v] # Idle)
  BY DEF Begin
<1>3. \A v \in Workers : req'[v] = IF v = w THEN r ELSE req[v]
  BY <1>1 DEF TypeOK
<1> QED BY <1>2, <1>3

LEMMA ContinueAlone ==
  ASSUME TypeOK, SerialInv, NEW w \in Workers, req[w] # Idle, NEW r, Continue(w, r)
  PROVE  /\ \A v \in Workers : req'[v] = IF v = w THEN r ELSE req[v]
         /\ overlapped' = overlapped
         /\ ~overlapped' => \A v \in Workers \ {w} : req'[v] = Idle
<1>1. \A v \in Workers : req'[v] = IF v = w THEN r ELSE req[v]
  BY DEF Continue, TypeOK
<1>2. overlapped' = overlapped
  BY DEF Continue
<1> QED BY <1>1, <1>2 DEF SerialInv, Alone

(* A step that writes no device and begins neither an insert nor a delete.  *)
LEMMA QuietKeeps ==
  ASSUME Devices, UNCHANGED <<owner, older>>, NEW w \in Workers,
         \A v \in Workers \ {w} : req'[v] = req[v],
         req'[w] = req[w] \/ ~(At(w, "delete") \/ At(w, "upsert"))',
         overlapped => overlapped',
         ~overlapped' => \A v \in Workers \ {w} : req'[v] = Idle
  PROVE  Devices'
<1>1. \A v \in Workers : (At(v, "delete") \/ At(v, "upsert"))' => req'[v] = req[v]
  BY DEF At
<1>2. \A u : DevicesOf(u)' = DevicesOf(u) /\ OldestOf(u)' = OldestOf(u)
  BY DEF DevicesOf, OldestOf
<1>3. \A u : Held(u)' \subseteq Held(u) /\ Upserts(u)' \subseteq Upserts(u)
  BY <1>1, <1>2 DEF Held, Upserts, Deleters, At
<1>4. \A u : Cardinality(Held(u)') <= Cardinality(Held(u)) /\ Cardinality(Upserts(u)') <= Cardinality(Upserts(u))
  BY <1>3, Finite, FS_Subset
<1>5. Load'
  BY <1>4, Finite, FiniteNext, DevicesAssumption DEF Devices, Load
<1>6. VictimsAreThere'
  BY <1>1 DEF Devices, VictimsAreThere, At
<1>7. SerialInv'
  <2> SUFFICES ASSUME ~overlapped'
               PROVE  /\ Alone'
                      /\ \A u \in Users : Cardinality(DevicesOf(u)') <= MaxDevices
                      /\ \A v \in Workers : At(v, "upsert")' => Cardinality(DevicesOf(req[v].user)') <= MaxDevices - 1
                      /\ \A v \in Workers : At(v, "delete")' => (req[v].victim \in OldestOf(req[v].user))'
    BY DEF SerialInv
  <2>1. Alone'
    BY DEF Alone
  <2>2. \A v \in Workers : At(v, "upsert")' => Cardinality(DevicesOf(req[v].user)') <= MaxDevices - 1
    <3> SUFFICES ASSUME NEW v \in Workers, At(v, "upsert")'
                 PROVE  Cardinality(DevicesOf(req[v].user)') <= MaxDevices - 1
      OBVIOUS
    <3>1. req'[v] = req[v] /\ At(v, "upsert")
      BY <1>1 DEF At
    <3> QED BY <1>2, <3>1 DEF Devices, SerialInv
  <2>3. \A v \in Workers : At(v, "delete")' => (req[v].victim \in OldestOf(req[v].user))'
    <3> SUFFICES ASSUME NEW v \in Workers, At(v, "delete")'
                 PROVE  (req[v].victim \in OldestOf(req[v].user))'
      OBVIOUS
    <3>1. req'[v] = req[v] /\ At(v, "delete")
      BY <1>1 DEF At
    <3> QED BY <1>2, <3>1 DEF Devices, SerialInv
  <2> QED BY <1>2, <2>1, <2>2, <2>3 DEF Devices, SerialInv
<1> QED BY <1>5, <1>6, <1>7 DEF Devices

(* A login that found room will insert its device.                          *)
LEMMA UpsertBegins ==
  ASSUME TypeOK, Devices, UNCHANGED <<owner, older>>, NEW w \in Workers, NEW u \in Users,
         ~At(w, "delete"), Cardinality(DevicesOf(u)) <= MaxDevices - 1,
         At(w, "upsert")', req'[w].user = u,
         \A v \in Workers \ {w} : req'[v] = req[v],
         overlapped => overlapped',
         ~overlapped' => \A v \in Workers \ {w} : req'[v] = Idle
  PROVE  Devices'
<1>1. \A v : DevicesOf(v)' = DevicesOf(v)
  BY DEF DevicesOf
<1>2. \A v : Held(v)' = Held(v)
  <2>1. \A v : Deleters(v)' = Deleters(v) /\ w \notin Deleters(v)
    BY DEF Deleters, At
  <2>2. \A v : \A x \in Deleters(v) : req'[x] = req[x]
    BY <2>1 DEF Deleters
  <2> QED BY <1>1, <2>1, <2>2 DEF Held
<1>3. Load'
  <2> SUFFICES ASSUME NEW v \in Users
               PROVE  Cardinality(Held(v)') + Cardinality(Upserts(v)') <= MaxDevices - 1 + Cardinality(Workers)
    BY DEF Load
  <2>1. CASE v = u
    <3> DEFINE U == Upserts(u)'
    <3>1. U \in SUBSET Workers /\ U \cap Deleters(u) = {}
      BY DEF Upserts, Deleters, At
    <3> HIDE DEF U
    <3>2. Cardinality(Held(u)) + Cardinality(U) <= Cardinality(DevicesOf(u)) + Cardinality(Workers)
      BY <3>1, Room
    <3>3. Cardinality(Held(u)') + Cardinality(Upserts(u)') <= Cardinality(DevicesOf(u)) + Cardinality(Workers)
      BY <1>2, <3>2 DEF U
    <3> QED BY <2>1, <3>3, Finite, FiniteNext, DevicesAssumption
  <2>2. CASE v # u
    <3>1. Upserts(v)' \subseteq Upserts(v)
      BY <2>2 DEF Upserts, At
    <3>2. Cardinality(Upserts(v)') <= Cardinality(Upserts(v))
      BY <3>1, Finite, FS_Subset
    <3> QED BY <1>2, <3>2, Finite, FiniteNext, DevicesAssumption DEF Devices, Load
  <2> QED BY <2>1, <2>2
<1>4. VictimsAreThere'
  BY DEF Devices, VictimsAreThere, At
<1>5. SerialInv'
  <2> SUFFICES ASSUME ~overlapped'
               PROVE  /\ Alone'
                      /\ \A v \in Users : Cardinality(DevicesOf(v)') <= MaxDevices
                      /\ \A v \in Workers : At(v, "upsert")' => Cardinality(DevicesOf(req[v].user)') <= MaxDevices - 1
                      /\ \A v \in Workers : ~At(v, "delete")'
    BY DEF SerialInv
  <2>1. \A v \in Workers \ {w} : ~At(v, "upsert")' /\ ~At(v, "delete")'
    BY DEF At, Idle
  <2>2. Alone'
    BY DEF Alone
  <2> QED BY <1>1, <2>1, <2>2 DEF Devices, SerialInv, At
<1> QED BY <1>3, <1>4, <1>5 DEF Devices

(* A login that is at the limit picks the device it will delete.            *)
LEMMA FindOldestKeeps ==
  ASSUME TypeOK, Devices, NEW w \in Workers, FindOldest(w)
  PROVE  TypeOK' /\ Devices'
<1>1. /\ At(w, "oldest") /\ req[w] # Idle /\ ~At(w, "delete")
      /\ req[w].user \in Users /\ req[w].token \in Tokens
  BY Carried DEF FindOldest, At, Idle
<1>2. CASE DevicesOf(req[w].user) # {}
  <2>1. PICK t \in OldestOf(req[w].user) :
          Continue(w, [at |-> "delete", user |-> req[w].user, token |-> req[w].token, victim |-> t])
    BY <1>2 DEF FindOldest
  <2> DEFINE r == [at |-> "delete", user |-> req[w].user, token |-> req[w].token, victim |-> t]
  <2>2. t \in DevicesOf(req[w].user) /\ t \in Tokens /\ t # Gone /\ owner[t] = req[w].user /\ owner[t] # None
    BY <1>1, DevicesAssumption DEF OldestOf, DevicesOf
  <2>3. r \in Requests /\ r.at = "delete" /\ r.user = req[w].user /\ r.victim = t
    BY <1>1, <2>2 DEF Requests
  <2>4. Continue(w, r) /\ UNCHANGED <<owner, older, notice, delivered, answer>>
    BY <2>1 DEF FindOldest
  <2> HIDE DEF r
  <2>5. /\ \A v \in Workers : req'[v] = IF v = w THEN r ELSE req[v]
        /\ overlapped' = overlapped
        /\ ~overlapped' => \A v \in Workers \ {w} : req'[v] = Idle
    BY <1>1, <2>4, ContinueAlone DEF Devices
  <2>6. TypeOK'
    BY <2>3, <2>4 DEF Continue, TypeOK
  <2>7. \A v : DevicesOf(v)' = DevicesOf(v) /\ OldestOf(v)' = OldestOf(v)
    BY <2>4 DEF DevicesOf, OldestOf
  <2>8. ASSUME NEW u \in Users
        PROVE  Held(u)' \subseteq Held(u) /\ Upserts(u)' \subseteq Upserts(u)
    <3>1. Upserts(u)' \subseteq Upserts(u)
      BY <2>3, <2>5 DEF Upserts, At
    <3>2. Deleters(u)' \subseteq Deleters(u) \cup {w}
      BY <2>5 DEF Deleters, At
    <3>3. w \in Deleters(u)' => u = req[w].user /\ req'[w].victim = t
      BY <2>3, <2>5 DEF Deleters
    <3>4. \A v \in Deleters(u)' \ {w} : v \in Deleters(u) /\ req'[v] = req[v]
      BY <2>5 DEF Deleters, At
    <3>5. Held(u)' \subseteq Held(u)
      <4> SUFFICES ASSUME NEW x \in Held(u)' PROVE x \in Held(u)
        OBVIOUS
      <4>1. CASE x \in DevicesOf(u)'
        BY <2>7, <4>1 DEF Held
      <4>2. CASE x \in Tokens /\ \E v \in Deleters(u)' : req'[v].victim = x
        BY <2>2, <3>3, <3>4, <4>2 DEF Held
      <4> QED BY <4>1, <4>2 DEF Held
    <3> QED BY <3>1, <3>5
  <2>9. \A u \in Users : Cardinality(Held(u)') <= Cardinality(Held(u))
                         /\ Cardinality(Upserts(u)') <= Cardinality(Upserts(u))
    BY <2>8, Finite, FS_Subset
  <2>10. Load'
    BY <2>9, Finite, FiniteNext, DevicesAssumption DEF Devices, Load
  <2>11. VictimsAreThere'
    BY <2>2, <2>3, <2>4, <2>5 DEF Devices, VictimsAreThere, At
  <2>12. SerialInv'
    <3> SUFFICES ASSUME ~overlapped'
                 PROVE  /\ Alone'
                        /\ \A u \in Users : Cardinality(DevicesOf(u)') <= MaxDevices
                        /\ \A v \in Workers : ~At(v, "upsert")'
                        /\ \A v \in Workers : At(v, "delete")' => (req[v].victim \in OldestOf(req[v].user))'
      BY DEF SerialInv
    <3>1. Alone'
      BY <2>5 DEF Alone
    <3>2. \A v \in Workers \ {w} : ~At(v, "upsert")' /\ ~At(v, "delete")'
      BY <2>5 DEF At, Idle
    <3>3. ~At(w, "upsert")' /\ req'[w].victim \in OldestOf(req[w].user) /\ req'[w].user = req[w].user
      BY <2>3, <2>5 DEF At
    <3> QED BY <2>5, <2>7, <3>1, <3>2, <3>3 DEF Devices, SerialInv
  <2> QED BY <2>6, <2>10, <2>11, <2>12 DEF Devices
<1>3. CASE DevicesOf(req[w].user) = {}
  <2> DEFINE r == [at |-> "upsert", user |-> req[w].user, token |-> req[w].token]
  <2>1. Continue(w, r) /\ UNCHANGED <<owner, older, notice, delivered, answer>>
    BY <1>3 DEF FindOldest
  <2>2. r \in Requests /\ r.at = "upsert" /\ r.user = req[w].user
    BY <1>1 DEF Requests
  <2> HIDE DEF r
  <2>3. /\ \A v \in Workers : req'[v] = IF v = w THEN r ELSE req[v]
        /\ overlapped' = overlapped
        /\ ~overlapped' => \A v \in Workers \ {w} : req'[v] = Idle
    BY <1>1, <2>1, ContinueAlone DEF Devices
  <2>4. TypeOK'
    BY <2>1, <2>2 DEF Continue, TypeOK
  <2>5. Cardinality(DevicesOf(req[w].user)) <= MaxDevices - 1
    BY <1>3, FS_EmptySet, DevicesAssumption
  <2>6. At(w, "upsert")' /\ req'[w].user = req[w].user
    BY <2>2, <2>3 DEF At
  <2>7. Devices'
    BY <1>1, <2>1, <2>3, <2>5, <2>6, UpsertBegins
  <2> QED BY <2>4, <2>7
<1> QED BY <1>2, <1>3

(* A deletion makes room for one insert.                                    *)
LEMMA DeleteOldestKeeps ==
  ASSUME TypeOK, Devices, NEW w \in Workers, DeleteOldest(w)
  PROVE  TypeOK' /\ Devices'
<1>1. /\ At(w, "delete") /\ req[w] # Idle
      /\ req[w].user \in Users /\ req[w].token \in Tokens /\ req[w].victim \in Tokens \cup {Gone}
  BY Carried DEF DeleteOldest, At, Idle
<1>2. CASE req[w].victim = Gone
  <2>1. Continue(w, Idle) /\ UNCHANGED <<owner, older, notice, delivered, answer>>
    BY <1>2 DEF DeleteOldest, Return
  <2>2. /\ \A v \in Workers : req'[v] = IF v = w THEN Idle ELSE req[v]
        /\ overlapped' = overlapped
        /\ ~overlapped' => \A v \in Workers \ {w} : req'[v] = Idle
    BY <1>1, <2>1, ContinueAlone DEF Devices
  <2>3. TypeOK'
    BY <2>1 DEF Continue, TypeOK, Requests
  <2>4. ~(At(w, "delete") \/ At(w, "upsert"))'
    BY <2>2 DEF At, Idle
  <2>5. Devices'
    BY <2>1, <2>2, <2>4, QuietKeeps
  <2> QED BY <2>3, <2>5
<1>3. CASE req[w].victim # Gone
  <2>a. PICK t \in Tokens : t = req[w].victim
    BY <1>1, <1>3
  <2>b. PICK u \in Users : u = req[w].user
    BY <1>1
  <2>c. PICK r \in Requests : r = [at |-> "upsert", user |-> u, token |-> req[w].token]
    BY <1>1 DEF Requests
  <2>1. t \in Tokens /\ t # Gone /\ w \in Deleters(u) /\ t \in Held(u)
    BY <1>1, <1>3, <2>a, <2>b DEF Deleters, Held
  <2>2. /\ owner' = [owner EXCEPT ![t] = None]
        /\ older' = {p \in older : t \notin {p[1], p[2]}}
        /\ req' = [v \in Workers |->
                     IF v = w THEN r
                     ELSE IF At(v, "delete") /\ req[v].victim = t
                          THEN [req[v] EXCEPT !.victim = Gone]
                          ELSE req[v]]
        /\ UNCHANGED <<overlapped, notice, delivered, answer>>
    BY <1>3, <2>a, <2>b, <2>c DEF DeleteOldest
  <2>3. r \in Requests /\ r.at = "upsert" /\ r.user = u
    BY <2>c
  <2>4. req'[w] = r
    BY <2>2
  <2>5. ASSUME NEW v \in Workers \ {w}
        PROVE  /\ req'[v] = req[v]
                  \/ /\ At(v, "delete") /\ req[v].victim = t
                     /\ req'[v] = [req[v] EXCEPT !.victim = Gone]
                     /\ req'[v] \in Requests /\ At(v, "delete")' /\ req'[v].victim = Gone
               /\ At(v, "delete") /\ req[v].victim = t => req'[v].victim = Gone
    <3>1. CASE At(v, "delete") /\ req[v].victim = t
      <4>1. req'[v] = [req[v] EXCEPT !.victim = Gone]
        BY <2>2, <3>1
      <4>2. req[v] \in [at : {"delete"}, user : Users, token : Tokens, victim : Tokens \cup {Gone}]
        BY <3>1, Carried
      <4>3. req'[v] \in [at : {"delete"}, user : Users, token : Tokens, victim : Tokens \cup {Gone}]
            /\ req'[v].victim = Gone
        BY <4>1, <4>2
      <4> QED BY <3>1, <4>1, <4>3 DEF Requests, At
    <3>2. CASE ~(At(v, "delete") /\ req[v].victim = t)
      BY <2>2, <3>2
    <3> QED BY <3>1, <3>2
  <2>6. req' \in [Workers -> Requests]
    <3>1. \A v \in Workers : req'[v] \in Requests
      BY <2>3, <2>4, <2>5 DEF TypeOK
    <3> QED BY <2>2, <3>1
  <2>7. TypeOK'
    <3>1. owner' \in [Tokens -> Users \cup {None}] /\ older' \subseteq Tokens \X Tokens
      BY <2>2 DEF TypeOK
    <3> QED BY <2>2, <2>6, <3>1 DEF TypeOK
  <2>8. \A x \in Tokens : owner'[x] = IF x = t THEN None ELSE owner[x]
    BY <2>2 DEF TypeOK
  <2>9. \A v \in Users : DevicesOf(v)' = DevicesOf(v) \ {t}
    BY <2>8, DevicesAssumption DEF DevicesOf
  <2>10. \A v \in Users : \A x \in Deleters(v)' : x # w /\ x \in Deleters(v) /\ req'[x] = req[x] /\ req[x].victim # t
    BY <2>3, <2>4, <2>5 DEF Deleters, At
  <2>11. \A v \in Users : Held(v)' \subseteq Held(v) \ {t}
    <3> SUFFICES ASSUME NEW v \in Users, NEW x \in Held(v)' PROVE x \in Held(v) \ {t}
      OBVIOUS
    <3>1. CASE x \in DevicesOf(v)'
      BY <2>9, <3>1 DEF Held
    <3>2. CASE x \in Tokens /\ \E y \in Deleters(v)' : req'[y].victim = x
      BY <2>10, <3>2 DEF Held
    <3> QED BY <3>1, <3>2 DEF Held
  <2>12. Upserts(u)' = Upserts(u) \cup {w} /\ \A v \in Users \ {u} : Upserts(v)' = Upserts(v)
    <3>1. \A v \in Workers \ {w} : (At(v, "upsert")' <=> At(v, "upsert")) /\ (At(v, "upsert") => req'[v] = req[v])
      BY <2>5 DEF At
    <3>2. At(w, "upsert")' /\ req'[w].user = u /\ ~At(w, "upsert")
      BY <1>1, <2>3, <2>4 DEF At
    <3> QED BY <3>1, <3>2 DEF Upserts
  <2>13. Load'
    <3> SUFFICES ASSUME NEW v \in Users
                 PROVE  Cardinality(Held(v)') + Cardinality(Upserts(v)') <= MaxDevices - 1 + Cardinality(Workers)
      BY DEF Load
    <3>1. Cardinality(Held(v)) + Cardinality(Upserts(v)) <= MaxDevices - 1 + Cardinality(Workers)
      BY DEF Devices, Load
    <3>2. CASE v = u
      <4>1. Cardinality(Held(v)') <= Cardinality(Held(v) \ {t}) /\ IsFiniteSet(Held(v) \ {t})
        BY <2>11, Finite, FS_RemoveElement, FS_Subset
      <4>2. Cardinality(Held(v) \ {t}) = Cardinality(Held(v)) - 1
        BY <2>1, <3>2, Finite, FS_RemoveElement
      <4>3. Cardinality(Upserts(v)') <= Cardinality(Upserts(v)) + 1
        <5>1. Upserts(v)' = Upserts(v) \cup {w}
          BY <2>12, <3>2
        <5> QED BY <5>1, Finite, OneMore
      <4> QED BY <3>1, <4>1, <4>2, <4>3, Finite, FiniteNext, DevicesAssumption
    <3>3. CASE v # u
      <4>1. Held(v)' \subseteq Held(v) /\ Upserts(v)' = Upserts(v)
        BY <2>11, <2>12, <3>3
      <4>2. Cardinality(Held(v)') <= Cardinality(Held(v))
        BY <4>1, Finite, FS_Subset
      <4> QED BY <3>1, <4>1, <4>2, Finite, FiniteNext, DevicesAssumption
    <3> QED BY <3>2, <3>3
  <2>14. VictimsAreThere'
    <3> SUFFICES ASSUME NEW v \in Workers, At(v, "delete")', req'[v].victim # Gone
                 PROVE  owner'[req'[v].victim] # None
      BY DEF VictimsAreThere
    <3>1. v # w /\ req'[v] = req[v] /\ At(v, "delete") /\ req[v].victim # t
      BY <2>3, <2>4, <2>5 DEF At
    <3>2. req[v].victim \in Tokens
      BY <3>1, Carried
    <3> QED BY <2>8, <3>1, <3>2 DEF Devices, VictimsAreThere
  <2>15. SerialInv'
    <3> SUFFICES ASSUME ~overlapped'
                 PROVE  /\ Alone'
                        /\ \A v \in Users : Cardinality(DevicesOf(v)') <= MaxDevices
                        /\ \A v \in Workers : At(v, "upsert")' => Cardinality(DevicesOf(req[v].user)') <= MaxDevices - 1
                        /\ \A v \in Workers : ~At(v, "delete")'
      BY DEF SerialInv
    <3>1. ~overlapped /\ t \in OldestOf(u) /\ \A v \in Workers \ {w} : req[v] = Idle
      BY <1>1, <2>2, <2>a, <2>b DEF Devices, SerialInv, Alone
    <3>2. t \in DevicesOf(u) /\ Cardinality(DevicesOf(u)) <= MaxDevices /\ u \in Users
      BY <1>1, <3>1 DEF OldestOf, Devices, SerialInv
    <3>3. Cardinality(DevicesOf(u)') <= MaxDevices - 1
      <4>1. Cardinality(DevicesOf(u) \ {t}) = Cardinality(DevicesOf(u)) - 1
        BY <3>2, Finite, FS_RemoveElement
      <4> QED BY <2>9, <3>2, <4>1, Finite, DevicesAssumption
    <3>4. \A v \in Users : Cardinality(DevicesOf(v)') <= MaxDevices
      <4> SUFFICES ASSUME NEW v \in Users PROVE Cardinality(DevicesOf(v)') <= MaxDevices
        OBVIOUS
      <4>1. Cardinality(DevicesOf(v)') <= Cardinality(DevicesOf(v))
        BY <2>9, Finite, FS_Subset
      <4> QED BY <3>1, <4>1, Finite, FiniteNext, DevicesAssumption DEF Devices, SerialInv
    <3>5. \A v \in Workers \ {w} : req'[v] = Idle
      BY <2>5, <3>1 DEF At, Idle
    <3>6. \A v \in Workers \ {w} : ~At(v, "upsert")' /\ ~At(v, "delete")'
      BY <3>5 DEF At, Idle
    <3>7. Alone'
      BY <3>5 DEF Alone
    <3>8. req'[w].user = u /\ ~At(w, "delete")'
      BY <2>3, <2>4 DEF At
    <3> QED BY <3>3, <3>4, <3>6, <3>7, <3>8
  <2> QED BY <2>7, <2>13, <2>14, <2>15 DEF Devices
<1> QED BY <1>2, <1>3

(* An insert takes the room its login had.                                  *)
LEMMA UpsertKeeps ==
  ASSUME TypeOK, Devices, NEW w \in Workers, Upsert(w)
  PROVE  TypeOK' /\ Devices'
<1>1. At(w, "upsert") /\ req[w] # Idle
  BY DEF Upsert, At, Idle
<1>2. PICK u \in Users : u = req[w].user
  BY <1>1, Carried
<1>3. PICK t \in Tokens : t = req[w].token
  BY <1>1, Carried
<1>4. /\ owner' = [owner EXCEPT ![t] = u]
      /\ older' = older \cup {<<s, t>> : s \in IF owner[t] = None THEN Registered ELSE {}}
      /\ Continue(w, Idle) /\ UNCHANGED <<notice, delivered, answer>>
  BY <1>2, <1>3 DEF Upsert, Return
<1>5. /\ \A v \in Workers : req'[v] = IF v = w THEN Idle ELSE req[v]
      /\ overlapped' = overlapped
      /\ ~overlapped' => \A v \in Workers \ {w} : req'[v] = Idle
  BY <1>1, <1>4, ContinueAlone DEF Devices
<1>6. TypeOK'
  <2>1. owner' \in [Tokens -> Users \cup {None}] /\ older' \subseteq Tokens \X Tokens
    BY <1>4 DEF TypeOK, Registered
  <2>2. req' \in [Workers -> Requests]
    BY <1>4 DEF Continue, TypeOK, Requests
  <2> QED BY <1>4, <1>5, <2>1, <2>2 DEF TypeOK
<1>7. \A x \in Tokens : owner'[x] = IF x = t THEN u ELSE owner[x]
  BY <1>4 DEF TypeOK
<1>8. /\ DevicesOf(u)' \subseteq DevicesOf(u) \cup {t}
      /\ \A v \in Users \ {u} : DevicesOf(v)' \subseteq DevicesOf(v)
  BY <1>7 DEF DevicesOf
<1>9. \A v \in Users : Deleters(v)' = Deleters(v) /\ \A x \in Deleters(v) : req'[x] = req[x]
  BY <1>1, <1>5 DEF Deleters, At, Idle
<1>10. /\ Held(u)' \subseteq Held(u) \cup {t}
       /\ \A v \in Users \ {u} : Held(v)' \subseteq Held(v)
  BY <1>8, <1>9 DEF Held
<1>11. w \in Upserts(u) /\ \A v \in Users : Upserts(v)' = Upserts(v) \ {w}
  BY <1>1, <1>2, <1>5 DEF Upserts, At, Idle
<1>12. Load'
  <2> SUFFICES ASSUME NEW v \in Users
               PROVE  Cardinality(Held(v)') + Cardinality(Upserts(v)') <= MaxDevices - 1 + Cardinality(Workers)
    BY DEF Load
  <2>1. Cardinality(Held(v)) + Cardinality(Upserts(v)) <= MaxDevices - 1 + Cardinality(Workers)
    BY DEF Devices, Load
  <2>2. CASE v = u
    <3>1. IsFiniteSet(Held(u) \cup {t}) /\ Cardinality(Held(u) \cup {t}) <= Cardinality(Held(u)) + 1
      BY Finite, OneMore
    <3>2. Cardinality(Held(u)') <= Cardinality(Held(u) \cup {t}) /\ Cardinality(Held(u) \cup {t}) \in Nat
      BY <1>10, <3>1, FS_Subset, FS_CardinalityType
    <3>3. Cardinality(Upserts(u)') = Cardinality(Upserts(u)) - 1
      BY <1>11, Finite, FS_RemoveElement
    <3> QED BY <2>1, <2>2, <3>1, <3>2, <3>3, Finite, FiniteNext, DevicesAssumption
  <2>3. CASE v # u
    <3>1. Held(v)' \subseteq Held(v) /\ Upserts(v)' \subseteq Upserts(v)
      BY <1>10, <1>11, <2>3
    <3>2. Cardinality(Held(v)') <= Cardinality(Held(v)) /\ Cardinality(Upserts(v)') <= Cardinality(Upserts(v))
      BY <3>1, Finite, FS_Subset
    <3> QED BY <2>1, <3>2, Finite, FiniteNext, DevicesAssumption
  <2> QED BY <2>2, <2>3
<1>13. VictimsAreThere'
  <2> SUFFICES ASSUME NEW v \in Workers, At(v, "delete")', req'[v].victim # Gone
               PROVE  owner'[req'[v].victim] # None
    BY DEF VictimsAreThere
  <2>1. req'[v] = req[v] /\ At(v, "delete")
    BY <1>5 DEF At, Idle
  <2>2. req[v].victim \in Tokens /\ owner[req[v].victim] # None
    BY <2>1, Carried DEF Devices, VictimsAreThere
  <2> QED BY <1>7, <2>1, <2>2, DevicesAssumption
<1>14. SerialInv'
  <2> SUFFICES ASSUME ~overlapped'
               PROVE  /\ \A v \in Workers : req'[v] = Idle
                      /\ \A v \in Users : Cardinality(DevicesOf(v)') <= MaxDevices
    BY DEF SerialInv, Alone, At, Idle
  <2>1. \A v \in Workers : req'[v] = Idle
    BY <1>5
  <2>2. Cardinality(DevicesOf(u)') <= MaxDevices
    <3>1. Cardinality(DevicesOf(u)) <= MaxDevices - 1
      BY <1>1, <1>2, <1>5 DEF Devices, SerialInv
    <3>2. IsFiniteSet(DevicesOf(u) \cup {t}) /\ Cardinality(DevicesOf(u) \cup {t}) <= Cardinality(DevicesOf(u)) + 1
      BY Finite, OneMore
    <3>3. Cardinality(DevicesOf(u)') <= Cardinality(DevicesOf(u) \cup {t}) /\ Cardinality(DevicesOf(u) \cup {t}) \in Nat
      BY <1>8, <3>2, FS_Subset, FS_CardinalityType
    <3> QED BY <3>1, <3>2, <3>3, Finite, FiniteNext, DevicesAssumption
  <2>3. ASSUME NEW v \in Users \ {u} PROVE Cardinality(DevicesOf(v)') <= MaxDevices
    <3>1. Cardinality(DevicesOf(v)') <= Cardinality(DevicesOf(v))
      BY <1>8, Finite, FS_Subset
    <3>2. Cardinality(DevicesOf(v)) <= MaxDevices
      BY <1>5 DEF Devices, SerialInv
    <3> QED BY <3>1, <3>2, Finite, FiniteNext, DevicesAssumption
  <2> QED BY <2>1, <2>2, <2>3
<1> QED BY <1>6, <1>12, <1>13, <1>14 DEF Devices

-----------------------------------------------------------------------------
LEMMA InitInv == Init => Inv
<1> SUFFICES ASSUME Init PROVE Inv
  OBVIOUS
<1>1. \A w \in Workers : req[w] = Idle
  BY DEF Init
<1>2. TypeOK
  BY DEF Init, TypeOK, NotificationStatus, Answers, Requests
<1>3. \A u \in Users : Held(u) = {} /\ Upserts(u) = {} /\ DevicesOf(u) = {}
  BY <1>1, DevicesAssumption DEF Init, Held, Upserts, Deleters, DevicesOf, At, Idle
<1>4. Cardinality({}) = 0
  BY FS_EmptySet
<1>5. Load
  <2>1. \A u \in Users : Cardinality(Held(u)) = 0 /\ Cardinality(Upserts(u)) = 0
    BY <1>3, <1>4
  <2>2. Cardinality(Workers) \in Nat
    BY Finite
  <2> QED BY <2>1, <2>2, DevicesAssumption DEF Load
<1>6. VictimsAreThere /\ SerialInv
  BY <1>1, <1>3, <1>4, DevicesAssumption DEF VictimsAreThere, SerialInv, Alone, At, Idle
<1> QED BY <1>2, <1>5, <1>6 DEF Inv, Devices

(* POST auth/login. *)
LEMMA LoginKeeps ==
  ASSUME Inv, NEW w \in Workers, NEW u \in Users, NEW t \in Tokens, Login(w, u, t)
  PROVE  Inv'
<1>1. PICK r \in Requests :
        r = [at |-> IF AtLimit(u) THEN "oldest" ELSE "upsert", user |-> u, token |-> t]
  BY DEF Requests
<1>2. Begin(w, r) /\ req[w] = Idle /\ UNCHANGED <<owner, older, notice, delivered, answer>>
  BY <1>1 DEF Login, Begin
<1>3. /\ \A v \in Workers : req'[v] = IF v = w THEN r ELSE req[v]
      /\ overlapped => overlapped'
      /\ ~overlapped' => \A v \in Workers \ {w} : req'[v] = Idle
  BY <1>2, BeginAlone DEF Inv
<1>4. TypeOK'
  <2>1. req' \in [Workers -> Requests] /\ overlapped' \in BOOLEAN
    BY <1>2 DEF Begin, Inv, TypeOK
  <2> QED BY <1>2, <2>1 DEF Inv, TypeOK
<1>5. Devices'
  <2>1. CASE AtLimit(u)
    <3>1. ~(At(w, "delete") \/ At(w, "upsert"))'
      BY <1>1, <1>3, <2>1 DEF At
    <3> QED BY <1>2, <1>3, <3>1, QuietKeeps DEF Inv
  <2>2. CASE ~AtLimit(u)
    <3>1. Cardinality(DevicesOf(u)) <= MaxDevices - 1
      BY <2>2, Finite, DevicesAssumption DEF AtLimit
    <3>2. At(w, "upsert")' /\ req'[w].user = u /\ ~At(w, "delete")
      BY <1>1, <1>2, <1>3, <2>2 DEF At, Idle
    <3> QED BY <1>2, <1>3, <3>1, <3>2, UpsertBegins DEF Inv
  <2> QED BY <2>1, <2>2
<1> QED BY <1>4, <1>5 DEF Inv

(* The later steps of a login. *)
LEMMA LoginStepKeeps ==
  ASSUME Inv, NEW w \in Workers, FindOldest(w) \/ DeleteOldest(w) \/ Upsert(w)
  PROVE  Inv'
BY FindOldestKeeps, DeleteOldestKeeps, UpsertKeeps DEF Inv

(* createServiceOrder begins to place an order, or warns at once.           *)
LEMMA PlaceOrderKeeps ==
  ASSUME Inv, NEW w \in Workers, NEW u \in Users, NEW o \in Orders, NEW b \in BOOLEAN,
         PlaceOrder(w, u, o, b)
  PROVE  Inv'
<1>2. CASE b
  <2>1. PICK r \in Requests : r = [at |-> "create", user |-> u, order |-> o]
    BY DEF Requests
  <2>2. Begin(w, r) /\ req[w] = Idle /\ UNCHANGED <<owner, older, notice, delivered, answer>>
    BY <1>2, <2>1 DEF PlaceOrder, Begin
  <2>3. /\ \A v \in Workers : req'[v] = IF v = w THEN r ELSE req[v]
        /\ overlapped => overlapped'
        /\ ~overlapped' => \A v \in Workers \ {w} : req'[v] = Idle
    BY <2>2, BeginAlone DEF Inv
  <2>4. TypeOK'
    <3>1. req' \in [Workers -> Requests] /\ overlapped' \in BOOLEAN
      BY <2>2 DEF Begin, Inv, TypeOK
    <3> QED BY <2>2, <3>1 DEF Inv, TypeOK
  <2>5. Devices'
    <3>1. ~(At(w, "delete") \/ At(w, "upsert"))'
      BY <2>1, <2>3 DEF At
    <3> QED BY <2>2, <2>3, <3>1, QuietKeeps DEF Inv
  <2> QED BY <2>4, <2>5 DEF Inv
<1>3. CASE ~b
  <2>1. answer' = [answer EXCEPT ![o] = "warned"] /\ UNCHANGED <<owner, older, notice, delivered, req, overlapped>>
    BY <1>3 DEF PlaceOrder
  <2>3. TypeOK'
    BY <2>1 DEF Inv, TypeOK, Answers
  <2>4. Devices'
    BY <2>1 DEF Inv, Devices, Load, VictimsAreThere, SerialInv, Alone, Held, Deleters, Upserts, DevicesOf, OldestOf, At
  <2> QED BY <2>3, <2>4 DEF Inv
<1> QED BY <1>2, <1>3

(* A slot that places an order: types and devices. *)
LEMMA PlacingKeeps ==
  ASSUME Inv, NEW w \in Workers, Placing(w), NEW r \in Requests, Continue(w, r),
         r.at \notin {"delete", "upsert"}, UNCHANGED <<owner, older>>,
         notice' \in [Orders -> NotificationStatus \cup {"none"}],
         delivered' \in [Orders -> SUBSET Tokens], answer' \in [Orders -> Answers]
  PROVE  TypeOK' /\ Devices'
<1>1. req[w] # Idle
  BY DEF Placing, At, Idle
<1>2. /\ \A v \in Workers : req'[v] = IF v = w THEN r ELSE req[v]
      /\ overlapped' = overlapped
      /\ ~overlapped' => \A v \in Workers \ {w} : req'[v] = Idle
  BY <1>1, ContinueAlone DEF Inv, Devices
<1>3. TypeOK'
  BY <1>2 DEF Continue, Inv, TypeOK
<1>4. ~(At(w, "delete") \/ At(w, "upsert"))'
  BY <1>2 DEF At
<1> QED BY <1>2, <1>3, <1>4, QuietKeeps DEF Inv

(* The steps of placing an order after its commit. *)
LEMMA PlacingStepKeeps ==
  ASSUME Inv, NEW w \in Workers, CreateNotification(w) \/ Send(w) \/ MarkSent(w)
  PROVE  Inv'
<1>1. Placing(w)
  BY DEF CreateNotification, Send, MarkSent, Placing
<1>2. /\ req[w] \in [at : {"create", "send", "mark"}, user : Users, order : Orders]
      /\ UNCHANGED <<owner, older>>
  BY <1>1, Carried DEF Inv, CreateNotification, Send, MarkSent
<1>3. PICK r \in Requests : Continue(w, r) /\ r.at \notin {"delete", "upsert"}
  <2>1. CASE Continue(w, Idle)
    BY <2>1 DEF Requests, Idle
  <2>2. ASSUME NEW at \in {"send", "mark"}, Continue(w, [req[w] EXCEPT !.at = at])
        PROVE  \E r \in Requests : Continue(w, r) /\ r.at \notin {"delete", "upsert"}
    <3>1. [req[w] EXCEPT !.at = at] \in [at : {"create", "send", "mark"}, user : Users, order : Orders]
      BY <1>2
    <3> QED BY <2>2, <3>1 DEF Requests
  <2> QED BY <2>1, <2>2 DEF CreateNotification, Send, MarkSent, Return
<1>4. /\ notice' \in [Orders -> NotificationStatus \cup {"none"}]
      /\ delivered' \in [Orders -> SUBSET Tokens] /\ answer' \in [Orders -> Answers]
  <2>1. CASE CreateNotification(w)
    BY <1>2, <2>1 DEF CreateNotification, NotificationStatus, Inv, TypeOK
  <2>2. CASE Send(w)
    <3>1. \A received \in SUBSET ActiveDevicesOf(req[w].user) :
            received \in SUBSET Tokens /\ SendResult(received) \in NotificationStatus
      BY DEF ActiveDevicesOf, DevicesOf, SendResult, NotificationStatus
    <3> QED BY <1>2, <2>2, <3>1 DEF Send, Answers, Inv, TypeOK
  <2>3. CASE MarkSent(w)
    BY <1>2, <2>3 DEF MarkSent, NotificationStatus, Answers, Inv, TypeOK
  <2> QED BY <2>1, <2>2, <2>3
<1> QED BY <1>1, <1>2, <1>3, <1>4, PlacingKeeps DEF Inv

(* A request that dies or throws. *)
LEMMA FailKeeps ==
  ASSUME Inv, NEW w \in Workers, Fail(w)
  PROVE  Inv'
<1>1. /\ req[w] # Idle /\ Continue(w, Idle) /\ UNCHANGED <<owner, older, notice, delivered>>
      /\ Idle \in Requests /\ Idle.at = "idle"
  BY DEF Fail, Return, Requests, Idle
<1>2. /\ \A v \in Workers : req'[v] = IF v = w THEN Idle ELSE req[v]
      /\ overlapped' = overlapped
      /\ ~overlapped' => \A v \in Workers \ {w} : req'[v] = Idle
  BY <1>1, ContinueAlone DEF Inv, Devices
<1>3. Devices'
  <2>1. ~(At(w, "delete") \/ At(w, "upsert"))'
    BY <1>1, <1>2 DEF At
  <2> QED BY <1>1, <1>2, <2>1, QuietKeeps DEF Inv
<1>4. answer' \in [Orders -> Answers]
  <2>1. CASE Placing(w)
    <3>1. req[w].order \in Orders
      BY <2>1, Carried DEF Inv
    <3> QED BY <2>1, <3>1 DEF Fail, Answers, Inv, TypeOK
  <2>2. CASE ~Placing(w)
    BY <2>2 DEF Fail, Inv, TypeOK
  <2> QED BY <2>1, <2>2
<1>5. TypeOK'
  BY <1>1, <1>2, <1>4 DEF Continue, Inv, TypeOK
<1> QED BY <1>3, <1>5 DEF Inv

LEMMA NextKeeps == Inv /\ [Next]_vars => Inv'
<1> SUFFICES ASSUME Inv, [Next]_vars PROVE Inv'
  OBVIOUS
<1>1. CASE UNCHANGED vars
  <2>1. TypeOK'
    BY <1>1 DEF vars, Inv, TypeOK
  <2>2. Devices'
    BY <1>1 DEF vars, Inv, Devices, Load, VictimsAreThere, SerialInv, Alone, Held, Deleters,
                Upserts, DevicesOf, OldestOf, At
  <2> QED BY <2>1, <2>2 DEF Inv
<1> QED BY <1>1, LoginKeeps, LoginStepKeeps, PlaceOrderKeeps, PlacingStepKeeps, FailKeeps
        DEF Next, RequestStep

LEMMA Invariance == Spec => []Inv
BY InitInv, NextKeeps, PTL DEF Spec

-----------------------------------------------------------------------------
(* Rows, notifications, answers and requests keep their types. *)
THEOREM TypesKept == Spec => []TypeOK
<1>1. Inv => TypeOK
  BY DEF Inv
<1> QED BY <1>1, Invariance, PTL

(* MAX_DEVICES is passed by less than the requests that can be under way,   *)
(* for any number of users, tokens and slots, whichever devices change      *)
(* hands meanwhile; without overlap it holds (upsertDevice).                *)
THEOREM DevicesStayBounded == Spec => []DevicesBounded
<1>1. Inv => DevicesBounded
  <2> SUFFICES ASSUME Inv, NEW u \in Users
               PROVE  /\ Cardinality(DevicesOf(u)) <= MaxDevices + Cardinality(Workers) - 1
                      /\ ~overlapped => Cardinality(DevicesOf(u)) <= MaxDevices
    BY DEF DevicesBounded
  <2>1. DevicesOf(u) \subseteq Held(u)
    BY DEF Held
  <2>2. Cardinality(DevicesOf(u)) <= Cardinality(Held(u))
    BY <2>1, Finite, FS_Subset
  <2>3. Cardinality(Held(u)) + Cardinality(Upserts(u)) <= MaxDevices - 1 + Cardinality(Workers)
    BY DEF Inv, Devices, Load
  <2>4. Cardinality(DevicesOf(u)) <= MaxDevices + Cardinality(Workers) - 1
    BY <2>2, <2>3, Finite, DevicesAssumption
  <2> QED BY <2>4 DEF Inv, Devices, SerialInv
<1> QED BY <1>1, Invariance, PTL

(* A login that overlaps no other request removes only a device of its own  *)
(* user, and the oldest of his (upsertDevice).                              *)
THEOREM RemovalsAreOwn == Spec => RemovesOwnOldest
<1> DEFINE Own ==
      ~overlapped' => \A t \in Tokens : owner[t] # None /\ owner'[t] = None =>
        \E w \in Workers : At(w, "delete") /\ req[w].user = owner[t] /\ t \in OldestOf(owner[t])
<1>1. Inv /\ [Next]_vars => [Own]_vars
  <2> SUFFICES ASSUME Inv, Next, ~overlapped', NEW t \in Tokens, owner[t] # None, owner'[t] = None
               PROVE  \E w \in Workers : At(w, "delete") /\ req[w].user = owner[t] /\ t \in OldestOf(owner[t])
    OBVIOUS
  <2>1. \A w \in Workers : ~Upsert(w)
    <3> SUFFICES ASSUME NEW w \in Workers, Upsert(w) PROVE FALSE
      OBVIOUS
    <3>1. req[w].user \in Users /\ req[w].token \in Tokens
      BY Carried DEF Upsert, Inv
    <3> QED BY <3>1, DevicesAssumption DEF Upsert, Inv, TypeOK
  <2>2. PICK w \in Workers : DeleteOldest(w)
    BY <2>1 DEF Next, RequestStep, Login, PlaceOrder, FindOldest, CreateNotification, Send, MarkSent, Fail
  <2>3. At(w, "delete") /\ overlapped' = overlapped /\ owner' = [owner EXCEPT ![req[w].victim] = None]
    BY <2>2 DEF DeleteOldest, Return, Continue
  <2>4. t = req[w].victim
    BY <2>3 DEF Inv, TypeOK
  <2>5. t \in OldestOf(req[w].user)
    BY <2>3, <2>4 DEF Inv, Devices, SerialInv
  <2> QED BY <2>3, <2>5 DEF OldestOf, DevicesOf
<1> QED BY <1>1, Invariance, PTL DEF Spec, RemovesOwnOldest
=============================================================================
