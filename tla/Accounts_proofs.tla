--------------------------- MODULE Accounts_proofs ---------------------------
(***************************************************************************)
(* How many addresses a user can get and whose password a reset changes,    *)
(* for every number of slots, users and addresses.  The argument: an insert *)
(* under way was allowed when its user had fewer than MaxAddresses; so the  *)
(* addresses of a user together with the inserts under way for him never    *)
(* exceed MaxAddresses - 1 and the slots there are.  An account keeps its   *)
(* id, so a reset under way still means the account it has looked up.       *)
(***************************************************************************)
EXTENDS Accounts, FiniteSetTheorems, TLAPS

(* The requests that are about to insert an address of the user. *)
Inserts(u) == {w \in Workers : Doing(w, "addAddress") /\ req[w].row.userId = u}

Load == \A u \in Users :
  Cardinality(AddressesOf(u)) + Cardinality(Inserts(u)) <= MaxAddresses - 1 + Cardinality(Workers)

(* Without overlap what an insert found out is still true when it runs. *)
Alone == \A v, w \in Workers : req[v] # Idle /\ req[w] # Idle => v = w

Unlike(u) == \A a, b \in AddressesOf(u) : address[a].place = address[b].place => a = b

SerialInv ==
  ~overlapped =>
    /\ Alone
    /\ \A u \in Users : Cardinality(AddressesOf(u)) <= MaxAddresses /\ Unlike(u)
    /\ \A w \in Workers : Doing(w, "addAddress") =>
         /\ Cardinality(AddressesOf(req[w].row.userId)) <= MaxAddresses - 1
         /\ \A a \in AddressesOf(req[w].row.userId) : address[a].place # req[w].row.place

(* Every account got its id from the sequence.                              *)
Numbered == \A u \in Users : user[u] # None => u < nextUser

(* What a reset under way has found: the account had the phone, and without *)
(* overlap it still has it.                                                 *)
Holding == \A u \in Users : user[u] # None => <<u, user[u].phone>> \in held
Recalled ==
  \A w \in Workers : Doing(w, "reset") =>
    /\ <<req[w].id, req[w].phone>> \in held
    /\ ~overlapped => user[req[w].id] # None /\ user[req[w].id].phone = req[w].phone

Inv == TypeOK /\ Load /\ SerialInv /\ Numbered /\ Holding /\ Recalled

-----------------------------------------------------------------------------
LEMMA Finite ==
  /\ \A u : IsFiniteSet(AddressesOf(u)) /\ Cardinality(AddressesOf(u)) \in Nat
  /\ \A u : IsFiniteSet(Inserts(u)) /\ Cardinality(Inserts(u)) \in Nat
            /\ Cardinality(Inserts(u)) <= Cardinality(Workers)
  /\ Cardinality(Workers) \in Nat
<1>1. IsFiniteSet(AddressIds)
  BY AccountsAssumption, FS_Interval DEF AddressIds
<1>2. \A u : AddressesOf(u) \in SUBSET AddressIds /\ Inserts(u) \in SUBSET Workers
  BY DEF AddressesOf, Inserts
<1>3. IsFiniteSet(Workers)
  BY AccountsAssumption
<1>4. \A u : IsFiniteSet(AddressesOf(u))
  BY <1>1, <1>2, FS_Subset
<1>5. \A u : IsFiniteSet(Inserts(u)) /\ Cardinality(Inserts(u)) <= Cardinality(Workers)
  BY <1>2, <1>3, FS_Subset
<1> QED BY <1>3, <1>4, <1>5, FS_CardinalityType

LEMMA FiniteNext ==
  /\ \A u : IsFiniteSet(AddressesOf(u)') /\ Cardinality(AddressesOf(u)') \in Nat
  /\ \A u : IsFiniteSet(Inserts(u)') /\ Cardinality(Inserts(u)') \in Nat
            /\ Cardinality(Inserts(u)') <= Cardinality(Workers)
<1>1. IsFiniteSet(AddressIds)
  BY AccountsAssumption, FS_Interval DEF AddressIds
<1>2. \A u : AddressesOf(u)' \in SUBSET AddressIds /\ Inserts(u)' \in SUBSET Workers
  BY DEF AddressesOf, Inserts
<1>3. IsFiniteSet(Workers)
  BY AccountsAssumption
<1>4. \A u : IsFiniteSet(AddressesOf(u)')
  BY <1>1, <1>2, FS_Subset
<1>5. \A u : IsFiniteSet(Inserts(u)') /\ Cardinality(Inserts(u)') <= Cardinality(Workers)
  BY <1>2, <1>3, FS_Subset
<1> QED BY <1>4, <1>5, FS_CardinalityType

(* A step that writes no address and starts no insert keeps all that is     *)
(* known of them.                                                           *)
LEMMA Untouched ==
  ASSUME Load, SerialInv, UNCHANGED address,
         \A w \in Workers : Doing(w, "addAddress")' => req'[w] = req[w],
         \A w \in Workers : req'[w] # Idle => req'[w] = req[w] \/ overlapped' \/ \A v \in Workers \ {w} : req'[v] = Idle,
         overlapped => overlapped'
  PROVE  Load' /\ SerialInv'
<1>1. \A u : AddressesOf(u)' = AddressesOf(u)
  BY DEF AddressesOf
<1>2. \A u : Inserts(u)' \subseteq Inserts(u)
  BY DEF Inserts, Doing
<1>3. \A u : Cardinality(Inserts(u)') <= Cardinality(Inserts(u))
  BY <1>2, Finite, FS_Subset
<1>4. Load'
  BY <1>1, <1>3, Finite, FiniteNext, AccountsAssumption DEF Load
<1>5. SerialInv'
  <2> SUFFICES ASSUME ~overlapped'
               PROVE  /\ Alone'
                      /\ \A u \in Users : (Cardinality(AddressesOf(u)) <= MaxAddresses /\ Unlike(u))'
                      /\ \A w \in Workers : Doing(w, "addAddress")' =>
                           (/\ Cardinality(AddressesOf(req[w].row.userId)) <= MaxAddresses - 1
                            /\ \A a \in AddressesOf(req[w].row.userId) : address[a].place # req[w].row.place)'
    BY DEF SerialInv
  <2>1. Alone'
    BY DEF SerialInv, Alone
  <2>2. \A u \in Users : (Cardinality(AddressesOf(u)) <= MaxAddresses /\ Unlike(u))'
    BY <1>1 DEF SerialInv, Unlike
  <2>3. ASSUME NEW w \in Workers, Doing(w, "addAddress")'
        PROVE  (/\ Cardinality(AddressesOf(req[w].row.userId)) <= MaxAddresses - 1
                /\ \A a \in AddressesOf(req[w].row.userId) : address[a].place # req[w].row.place)'
    <3>1. req'[w] = req[w] /\ Doing(w, "addAddress") BY <2>3 DEF Doing
    <3> QED BY <1>1, <3>1 DEF SerialInv
  <2> QED BY <2>1, <2>2, <2>3
<1> QED BY <1>4, <1>5

(* The requests under way after one of them has begun or ended.             *)
LEMMA BeginKeeps ==
  ASSUME TypeOK, Load, SerialInv, UNCHANGED address, NEW w \in Workers, NEW r \in Requests,
         r.op # "addAddress", Begin(w, r)
  PROVE  Load' /\ SerialInv'
<1>1. req' = [v \in Workers |-> IF v = w THEN r ELSE req[v]]
  BY DEF Begin, TypeOK
<1>2. overlapped' = (overlapped \/ \E v \in Workers \ {w} : req[v] # Idle)
  BY DEF Begin
<1>3. \A v \in Workers : Doing(v, "addAddress")' => req'[v] = req[v]
  BY <1>1 DEF Doing
<1>4. ~overlapped' => \A v \in Workers \ {w} : req'[v] = Idle
  BY <1>1, <1>2
<1>5. \A v \in Workers : req'[v] # Idle =>
        req'[v] = req[v] \/ overlapped' \/ \A u \in Workers \ {v} : req'[u] = Idle
  BY <1>1, <1>4
<1>6. overlapped => overlapped'
  BY <1>2
<1> QED BY <1>3, <1>5, <1>6, Untouched

LEMMA DoneKeeps ==
  ASSUME TypeOK, Load, SerialInv, UNCHANGED address, NEW w \in Workers, Done(w)
  PROVE  Load' /\ SerialInv'
<1>1. req' = [v \in Workers |-> IF v = w THEN Idle ELSE req[v]] /\ overlapped' = overlapped
  BY DEF Done, TypeOK
<1>2. \A v \in Workers : Doing(v, "addAddress")' => req'[v] = req[v]
  BY <1>1 DEF Doing, Idle
<1>3. \A v \in Workers : req'[v] # Idle => req'[v] = req[v]
  BY <1>1
<1> QED BY <1>1, <1>2, <1>3, Untouched

(* POST users/address: the insert is allowed on what has been read.         *)
LEMMA AddAddressKeeps ==
  ASSUME TypeOK, Load, SerialInv, NEW w \in Workers, NEW u \in Users, NEW place \in Places,
         AddAddress(w, u, place)
  PROVE  Load' /\ SerialInv'
<1> DEFINE r == [op |-> "addAddress", row |-> [userId |-> u, place |-> place]]
<1>1. /\ req' = [v \in Workers |-> IF v = w THEN r ELSE req[v]]
      /\ overlapped' = (overlapped \/ \E v \in Workers \ {w} : req[v] # Idle)
      /\ req[w] = Idle /\ address' = address
  BY DEF AddAddress, Begin, TypeOK
<1>2. /\ Cardinality(AddressesOf(u)) \in 1..(MaxAddresses - 1)
      /\ \A a \in AddressesOf(u) : address[a].place # place
  BY DEF AddAddress, MayAdd
<1>3. \A v : AddressesOf(v)' = AddressesOf(v)
  BY <1>1 DEF AddressesOf
<1>4. Load'
  <2> SUFFICES ASSUME NEW v \in Users
               PROVE  Cardinality(AddressesOf(v)') + Cardinality(Inserts(v)')
                        <= MaxAddresses - 1 + Cardinality(Workers)
    BY DEF Load
  <2>1. CASE v = u
    BY <1>2, <1>3, <2>1, Finite, FiniteNext, AccountsAssumption
  <2>2. CASE v # u
    <3>1. Inserts(v)' \subseteq Inserts(v)
      BY <1>1, <2>2 DEF Inserts, Doing
    <3>2. Cardinality(Inserts(v)') <= Cardinality(Inserts(v))
      BY <3>1, Finite, FS_Subset
    <3> QED BY <1>3, <3>2, Finite, FiniteNext, AccountsAssumption DEF Load
  <2> QED BY <2>1, <2>2
<1>5. SerialInv'
  <2> SUFFICES ASSUME ~overlapped'
               PROVE  /\ Alone'
                      /\ \A v \in Users : (Cardinality(AddressesOf(v)) <= MaxAddresses /\ Unlike(v))'
                      /\ \A v \in Workers : Doing(v, "addAddress")' =>
                           (/\ Cardinality(AddressesOf(req[v].row.userId)) <= MaxAddresses - 1
                            /\ \A a \in AddressesOf(req[v].row.userId) : address[a].place # req[v].row.place)'
    BY DEF SerialInv
  <2>1. \A v \in Workers \ {w} : req'[v] = Idle
    BY <1>1
  <2>2. Alone'
    BY <2>1 DEF Alone
  <2>3. \A v \in Users : (Cardinality(AddressesOf(v)) <= MaxAddresses /\ Unlike(v))'
    BY <1>1, <1>3 DEF SerialInv, Unlike
  <2>4. ASSUME NEW v \in Workers, Doing(v, "addAddress")'
        PROVE  (/\ Cardinality(AddressesOf(req[v].row.userId)) <= MaxAddresses - 1
                /\ \A a \in AddressesOf(req[v].row.userId) : address[a].place # req[v].row.place)'
    <3>1. v = w BY <2>1, <2>4 DEF Doing, Idle
    <3>2. req'[v] = r BY <1>1, <3>1
    <3> QED BY <1>1, <1>2, <1>3, <3>2, Finite, AccountsAssumption
  <2> QED BY <2>2, <2>3, <2>4
<1> QED BY <1>4, <1>5

(* The insert takes the place its request held, and no more.                *)
LEMMA InsertAddressKeeps ==
  ASSUME TypeOK, Load, SerialInv, NEW w \in Workers, InsertAddress(w)
  PROVE  Load' /\ SerialInv'
<1>1. /\ Doing(w, "addAddress") /\ Done(w) /\ nextAddress \in AddressIds
      /\ req' = [v \in Workers |-> IF v = w THEN Idle ELSE req[v]]
      /\ overlapped' = overlapped
  <2>1. nextAddress \in AddressIds
    BY AccountsAssumption DEF InsertAddress, TypeOK, AddressIds
  <2> QED BY <2>1 DEF InsertAddress, Done, TypeOK
<1>2. CASE UNCHANGED address
  BY <1>1, <1>2, DoneKeeps
<1>3. CASE address' = [address EXCEPT ![nextAddress] = req[w].row]
  <2>1. PICK r \in AddressRows : r = req[w].row
    BY <1>1 DEF TypeOK, Requests, Doing, Idle
  <2>2. PICK u \in Users : u = r.userId
    BY DEF AddressRows
  <2>3. \A a \in AddressIds : address'[a] = IF a = nextAddress THEN r ELSE address[a]
    BY <1>3, <2>1 DEF TypeOK
  <2>4. AddressesOf(u)' \subseteq AddressesOf(u) \cup {nextAddress}
    BY <2>2, <2>3 DEF AddressesOf
  <2>5. Cardinality(AddressesOf(u)') <= Cardinality(AddressesOf(u)) + 1
    <3>1. /\ IsFiniteSet(AddressesOf(u) \cup {nextAddress})
          /\ Cardinality(AddressesOf(u) \cup {nextAddress}) <= Cardinality(AddressesOf(u)) + 1
      <4>1. IsFiniteSet(AddressesOf(u)) /\ Cardinality(AddressesOf(u)) \in Nat
        BY Finite
      <4>2. /\ IsFiniteSet(AddressesOf(u) \cup {nextAddress})
            /\ \/ Cardinality(AddressesOf(u) \cup {nextAddress}) = Cardinality(AddressesOf(u))
               \/ Cardinality(AddressesOf(u) \cup {nextAddress}) = Cardinality(AddressesOf(u)) + 1
        BY <4>1, FS_AddElement, Zenon
      <4> QED BY <4>1, <4>2
    <3>2. /\ Cardinality(AddressesOf(u)') <= Cardinality(AddressesOf(u) \cup {nextAddress})
          /\ Cardinality(AddressesOf(u) \cup {nextAddress}) \in Nat
      BY <2>4, <3>1, FS_Subset, FS_CardinalityType
    <3> QED BY <3>1, <3>2, Finite, FiniteNext
  <2>6. Cardinality(Inserts(u)') = Cardinality(Inserts(u)) - 1
    <3>1. w \in Inserts(u) /\ Inserts(u)' = Inserts(u) \ {w}
      BY <1>1, <2>1, <2>2 DEF Inserts, Doing, Idle
    <3> QED BY <3>1, Finite, FS_RemoveElement
  <2>7. ASSUME NEW v \in Users, v # u
        PROVE  AddressesOf(v)' \subseteq AddressesOf(v) /\ Inserts(v)' \subseteq Inserts(v)
    BY <1>1, <2>2, <2>3, <2>7 DEF AddressesOf, Inserts, Doing, Idle
  <2>8. ASSUME NEW v \in Users, v # u
        PROVE  /\ Cardinality(AddressesOf(v)') <= Cardinality(AddressesOf(v))
               /\ Cardinality(Inserts(v)') <= Cardinality(Inserts(v))
    BY <2>7, <2>8, Finite, FS_Subset
  <2>9. Load'
    <3> SUFFICES ASSUME NEW v \in Users
                 PROVE  Cardinality(AddressesOf(v)') + Cardinality(Inserts(v)')
                          <= MaxAddresses - 1 + Cardinality(Workers)
      BY DEF Load
    <3>1. Cardinality(AddressesOf(v)) + Cardinality(Inserts(v)) <= MaxAddresses - 1 + Cardinality(Workers)
      BY DEF Load
    <3>2. CASE v = u
      BY <2>5, <2>6, <3>1, <3>2, Finite, FiniteNext, AccountsAssumption
    <3>3. CASE v # u
      BY <2>8, <3>1, <3>3, Finite, FiniteNext, AccountsAssumption
    <3> QED BY <3>2, <3>3
  <2>10. ASSUME ~overlapped'
         PROVE  /\ Alone'
                /\ \A v \in Users : (Cardinality(AddressesOf(v)) <= MaxAddresses /\ Unlike(v))'
                /\ \A v \in Workers : ~Doing(v, "addAddress")'
    <3>1. ~overlapped /\ Alone
      BY <1>1, <2>10 DEF SerialInv
    <3>2. \A v \in Workers : req'[v] = Idle
      BY <1>1, <3>1 DEF Alone, Doing, Idle
    <3>3. /\ Cardinality(AddressesOf(u)) <= MaxAddresses - 1
          /\ \A a \in AddressesOf(u) : address[a].place # r.place
      BY <1>1, <2>1, <2>2, <3>1 DEF SerialInv
    <3>4. \A v \in Users : Cardinality(AddressesOf(v)') <= MaxAddresses
      BY <2>5, <2>8, <3>1, <3>3, Finite, FiniteNext, AccountsAssumption DEF SerialInv
    <3>5. ASSUME NEW v \in Users, NEW a \in AddressesOf(v)', NEW b \in AddressesOf(v)',
                 address'[a].place = address'[b].place
          PROVE  a = b
      <4>1. a \in AddressIds /\ b \in AddressIds
        BY DEF AddressesOf
      <4>2. \A c \in AddressIds : c # nextAddress => address'[c] = address[c] /\
              (c \in AddressesOf(v)' => c \in AddressesOf(v))
        BY <2>3 DEF AddressesOf
      <4>3. nextAddress \in AddressesOf(v)' => v = u
        BY <2>2, <2>3, <1>1 DEF AddressesOf
      <4>4. address'[nextAddress] = r
        BY <1>1, <2>3
      <4>5. Unlike(v)
        BY <3>1 DEF SerialInv
      <4>6. CASE a # nextAddress /\ b # nextAddress
        BY <3>5, <4>1, <4>2, <4>5, <4>6 DEF Unlike
      <4>7. CASE a = nextAddress /\ b # nextAddress
        BY <3>3, <3>5, <4>1, <4>2, <4>3, <4>4, <4>7
      <4>8. CASE a # nextAddress /\ b = nextAddress
        BY <3>3, <3>5, <4>1, <4>2, <4>3, <4>4, <4>8
      <4> QED BY <4>6, <4>7, <4>8
    <3>6. \A v \in Users : Unlike(v)'
      BY <3>5 DEF Unlike
    <3> QED BY <3>2, <3>4, <3>6 DEF Alone, Doing, Idle
  <2> QED BY <2>9, <2>10 DEF SerialInv
<1> QED BY <1>2, <1>3 DEF InsertAddress

LEMMA DeleteAddressRowKeeps ==
  ASSUME TypeOK, Load, SerialInv, NEW w \in Workers, DeleteAddressRow(w)
  PROVE  Load' /\ SerialInv'
<1>1. /\ Doing(w, "deleteAddress") /\ Done(w)
      /\ req' = [v \in Workers |-> IF v = w THEN Idle ELSE req[v]]
      /\ overlapped' = overlapped
  BY DEF DeleteAddressRow, Done, TypeOK
<1>2. CASE UNCHANGED address
  BY <1>1, <1>2, DoneKeeps
<1>3. CASE address[req[w].id] # None /\ address' = [address EXCEPT ![req[w].id] = None]
  <2>1. \A a \in AddressIds : address'[a] = IF a = req[w].id THEN None ELSE address[a]
    BY <1>3 DEF TypeOK
  <2>2. \A v : /\ AddressesOf(v)' \subseteq AddressesOf(v)
               /\ \A a \in AddressesOf(v)' : address'[a] = address[a]
    BY <2>1 DEF AddressesOf
  <2>3. \A v : Inserts(v)' \subseteq Inserts(v)
    BY <1>1 DEF Inserts, Doing, Idle
  <2>4. \A v : /\ Cardinality(AddressesOf(v)') <= Cardinality(AddressesOf(v))
               /\ Cardinality(Inserts(v)') <= Cardinality(Inserts(v))
    BY <2>2, <2>3, Finite, FS_Subset
  <2>5. Load'
    BY <2>4, Finite, FiniteNext, AccountsAssumption DEF Load
  <2>6. ASSUME ~overlapped'
        PROVE  /\ Alone'
               /\ \A v \in Users : (Cardinality(AddressesOf(v)) <= MaxAddresses /\ Unlike(v))'
               /\ \A v \in Workers : ~Doing(v, "addAddress")'
    <3>1. ~overlapped /\ Alone
      BY <1>1, <2>6 DEF SerialInv
    <3>2. \A v \in Workers : req'[v] = Idle
      BY <1>1, <3>1 DEF Alone, Doing, Idle
    <3>3. \A v \in Users : Cardinality(AddressesOf(v)') <= MaxAddresses
      BY <2>4, <3>1, Finite, FiniteNext, AccountsAssumption DEF SerialInv
    <3>4. \A v \in Users : Unlike(v)'
      BY <2>2, <3>1 DEF SerialInv, Unlike
    <3> QED BY <3>2, <3>3, <3>4 DEF Alone, Doing, Idle
  <2> QED BY <2>5, <2>6 DEF SerialInv
<1> QED BY <1>2, <1>3 DEF DeleteAddressRow

-----------------------------------------------------------------------------
(* Types *)

LEMMA BeginTypes ==
  ASSUME TypeOK, NEW w \in Workers, NEW r \in Requests, Begin(w, r)
  PROVE  req' \in [Workers -> Requests] /\ overlapped' \in BOOLEAN
BY DEF Begin, TypeOK

LEMMA DoneTypes ==
  ASSUME TypeOK, NEW w \in Workers, Done(w)
  PROVE  req' \in [Workers -> Requests] /\ overlapped' \in BOOLEAN
BY DEF Done, TypeOK, Requests

LEMMA StepTypes ==
  ASSUME TypeOK, NEW w \in Workers, RequestStep(w)
  PROVE  TypeOK'
<1>1. ASSUME Done(w), user' \in [Users -> UserRows \cup {None}],
             address' \in [AddressIds -> AddressRows \cup {None}],
             nextUser' \in 1..(MaxUser + 1), nextAddress' \in 1..(MaxAddress + 1),
             tokens' = tokens, held' \subseteq Users \X Phones
      PROVE  TypeOK'
  BY <1>1, DoneTypes DEF TypeOK
<1>2. CASE CreateUser(w)
  <2>1. req[w].phone \in Phones /\ req[w].password \in Passwords
    BY <1>2 DEF CreateUser, Doing, TypeOK, Requests, Idle
  <2>2. NewUser(req[w].phone, req[w].password) \in UserRows
    BY <2>1 DEF NewUser, UserRows
  <2>3. user' \in [Users -> UserRows \cup {None}]
    BY <1>2, <2>2 DEF CreateUser, TypeOK
  <2>4. nextUser' \in 1..(MaxUser + 1)
    BY <1>2, AccountsAssumption DEF CreateUser, TypeOK
  <2>5. held' \subseteq Users \X Phones
    BY <1>2, <2>1, AccountsAssumption DEF CreateUser, TypeOK, Users
  <2> QED BY <1>1, <1>2, <2>3, <2>4, <2>5 DEF CreateUser, TypeOK
<1>3. CASE SetPassword(w)
  <2>1. req[w].password \in Passwords /\ req[w].id \in Users
    BY <1>3 DEF SetPassword, Doing, TypeOK, Requests, Idle
  <2>2. user' \in [Users -> UserRows \cup {None}]
    <3>1. CASE user' = user BY <3>1 DEF TypeOK
    <3>2. CASE user[req[w].id] # None /\ user' = [user EXCEPT ![req[w].id].password = req[w].password]
      <4>1. user[req[w].id] \in UserRows BY <2>1, <3>2 DEF TypeOK
      <4>2. [user[req[w].id] EXCEPT !.password = req[w].password] \in UserRows
        BY <2>1, <4>1 DEF UserRows
      <4> QED BY <2>1, <3>2, <4>2 DEF TypeOK
    <3> QED BY <1>3, <3>1, <3>2 DEF SetPassword
  <2> QED BY <1>1, <1>3, <2>2 DEF SetPassword, TypeOK
<1>4. CASE DeleteUserRow(w)
  <2>1. user' \in [Users -> UserRows \cup {None}]
    BY <1>4 DEF DeleteUserRow, TypeOK
  <2> QED BY <1>1, <1>4, <2>1 DEF DeleteUserRow, TypeOK
<1>5. CASE InsertAddress(w)
  <2>1. req[w].row \in AddressRows
    BY <1>5 DEF InsertAddress, Doing, TypeOK, Requests, Idle
  <2>2. address' \in [AddressIds -> AddressRows \cup {None}]
    BY <1>5, <2>1 DEF InsertAddress, TypeOK
  <2>3. nextAddress' \in 1..(MaxAddress + 1)
    BY <1>5, AccountsAssumption DEF InsertAddress, TypeOK
  <2> QED BY <1>1, <1>5, <2>2, <2>3 DEF InsertAddress, TypeOK
<1>6. CASE DeleteAddressRow(w)
  <2>1. address' \in [AddressIds -> AddressRows \cup {None}]
    BY <1>6 DEF DeleteAddressRow, TypeOK
  <2> QED BY <1>1, <1>6, <2>1 DEF DeleteAddressRow, TypeOK
<1> QED BY <1>2, <1>3, <1>4, <1>5, <1>6 DEF RequestStep

LEMMA InitInv == Init => Inv
<1> SUFFICES ASSUME Init PROVE Inv
  OBVIOUS
<1>0. PICK n \in Users, p \in [Users -> Phones], password \in Passwords :
        /\ \A u, v \in 1..n : p[u] = p[v] => u = v
        /\ user = [u \in Users |->
                     IF u <= n THEN [phone |-> p[u], password |-> password, isActive |-> TRUE] ELSE None]
        /\ nextUser = n + 1 /\ held = {<<u, p[u]>> : u \in 1..n}
        /\ \E place \in Places :
             address = [a \in AddressIds |->
                          IF a = 1 THEN [userId |-> n, place |-> place] ELSE None]
  BY Zenon DEF Init
<1>1. PICK place \in Places :
        address = [a \in AddressIds |->
                     IF a = 1 THEN [userId |-> n, place |-> place] ELSE None]
  BY <1>0
<1>2. /\ nextAddress = 2 /\ tokens = {} /\ req = [w \in Workers |-> Idle] /\ overlapped = FALSE
  BY Zenon DEF Init
<1>3. TypeOK
  <2>1. user \in [Users -> UserRows \cup {None}]
    BY <1>0 DEF UserRows
  <2>2. address \in [AddressIds -> AddressRows \cup {None}]
    BY <1>1 DEF AddressRows
  <2>3. nextUser \in 1..(MaxUser + 1) /\ nextAddress \in 1..(MaxAddress + 1)
    BY <1>0, <1>2, AccountsAssumption DEF Users
  <2>4. req \in [Workers -> Requests]
    BY <1>2 DEF Requests
  <2>5. held \subseteq Users \X Phones
    BY <1>0, AccountsAssumption DEF Users
  <2> QED BY <1>2, <2>1, <2>2, <2>3, <2>4, <2>5 DEF TypeOK
<1>4. \A u : Inserts(u) = {}
  BY <1>2 DEF Inserts, Doing, Idle
<1>5. \A u : AddressesOf(u) \subseteq {1}
  BY <1>1 DEF AddressesOf
<1>6. \A u : Cardinality(AddressesOf(u)) <= 1 /\ Cardinality(Inserts(u)) = 0
  <2>1. IsFiniteSet({1}) /\ Cardinality({1}) = 1 /\ Cardinality({}) = 0
    BY FS_Singleton, FS_EmptySet
  <2>2. \A u : Cardinality(AddressesOf(u)) <= 1
    BY <1>5, <2>1, FS_Subset
  <2> QED BY <1>4, <2>1, <2>2
<1>7. Cardinality(Workers) >= 1
  BY Finite, FS_EmptySet, AccountsAssumption
<1>8. Load
  BY <1>6, <1>7, Finite, AccountsAssumption DEF Load
<1>9. SerialInv
  <2>1. \A u \in Users : Cardinality(AddressesOf(u)) <= MaxAddresses
    BY <1>6, Finite, AccountsAssumption
  <2>2. \A w \in Workers : req[w] = Idle /\ ~Doing(w, "addAddress")
    BY <1>2 DEF Doing, Idle
  <2>3. \A u \in Users : Unlike(u)
    BY <1>5 DEF Unlike
  <2> QED BY <2>1, <2>2, <2>3 DEF SerialInv, Alone
<1>10. Numbered /\ Holding
  BY <1>0 DEF Numbered, Holding, Users
<1>11. Recalled
  BY <1>2 DEF Recalled, Doing, Idle
<1> QED BY <1>3, <1>8, <1>9, <1>10, <1>11 DEF Inv

(* Accounts: what is there stays numbered. *)
LEMMA NumbersKeep ==
  ASSUME TypeOK, Numbered, nextUser' \in Int, nextUser' >= nextUser,
         \A u \in Users : user'[u] # None => user[u] # None \/ u < nextUser'
  PROVE  Numbered'
<1>1. nextUser \in Int /\ Users \subseteq Int
  BY AccountsAssumption DEF TypeOK, Users
<1> SUFFICES ASSUME NEW u \in Users, user'[u] # None
             PROVE  u < nextUser'
  BY DEF Numbered
<1>2. CASE user[u] # None
  <2>1. u < nextUser /\ u \in Int
    BY <1>1, <1>2 DEF Numbered
  <2> QED BY <1>1, <2>1
<1> QED BY <1>2

(* A step records the phones it gives; beside a reset under way it changes  *)
(* no account, or it overlaps.                                              *)
LEMMA HeldKeep ==
  ASSUME Holding, Recalled, held \subseteq held', overlapped => overlapped',
         \A u \in Users : user'[u] # None =>
           \/ user[u] # None /\ user'[u].phone = user[u].phone
           \/ <<u, user'[u].phone>> \in held',
         \A w \in Workers : Doing(w, "reset")' =>
           req'[w] = req[w] /\ (~overlapped' => user' = user)
  PROVE  Holding' /\ Recalled'
<1>1. Holding'
  BY DEF Holding
<1>2. Recalled'
  BY DEF Recalled, Doing
<1> QED BY <1>1, <1>2

(* The statement that ends a request.                                       *)
LEMMA RequestKeeps ==
  ASSUME Inv, NEW w \in Workers, RequestStep(w)
  PROVE  Inv'
<1>1. TypeOK'
  BY StepTypes DEF Inv
<1>2. Done(w)
  BY DEF RequestStep, CreateUser, SetPassword, DeleteUserRow, InsertAddress, DeleteAddressRow
<1>3. Load' /\ SerialInv'
  BY <1>2, DoneKeeps, InsertAddressKeeps, DeleteAddressRowKeeps
  DEF Inv, RequestStep, CreateUser, SetPassword, DeleteUserRow
<1>4. Numbered'
  <2>3. nextUser' >= nextUser /\ \A u \in Users : user'[u] # None => user[u] # None \/ u < nextUser'
    <3>1. CASE CreateUser(w)
      <4>1. \A u \in Users : u # nextUser => user'[u] = user[u]
        BY <3>1 DEF CreateUser, Inv, TypeOK
      <4>2. nextUser' = nextUser + 1 /\ nextUser \in Int
        BY <3>1 DEF CreateUser, Inv, TypeOK
      <4> QED BY <4>1, <4>2 DEF Users
    <3>2. CASE SetPassword(w)
      <4>1. nextUser' = nextUser /\ nextUser \in Int /\ \A u \in Users : u # req[w].id => user'[u] = user[u]
        BY <3>2 DEF SetPassword, Inv, TypeOK
      <4>2. user[req[w].id] # None \/ user' = user
        BY <3>2 DEF SetPassword
      <4> QED BY <4>1, <4>2
    <3>3. CASE DeleteUserRow(w)
      BY <3>3 DEF DeleteUserRow, Inv, TypeOK
    <3>4. CASE InsertAddress(w) \/ DeleteAddressRow(w)
      BY <3>4 DEF InsertAddress, DeleteAddressRow, Inv, TypeOK
    <3> QED BY <3>1, <3>2, <3>3, <3>4 DEF RequestStep
  <2>4. nextUser' \in Int
    BY <1>1, AccountsAssumption DEF TypeOK
  <2> QED BY <2>3, <2>4, NumbersKeep DEF Inv
<1>5. Holding' /\ Recalled'
  <2>1. \A v \in Workers : v # w => req'[v] = req[v]
    BY <1>2 DEF Done, Inv, TypeOK
  <2>2. req'[w] = Idle /\ overlapped' = overlapped /\ req[w] # Idle
    BY <1>2 DEF Done, Inv, TypeOK, RequestStep, CreateUser, SetPassword, DeleteUserRow, InsertAddress,
                DeleteAddressRow, Doing, Idle
  <2>3. \A v \in Workers : Doing(v, "reset")' => req'[v] = req[v] /\ overlapped'
    BY <2>1, <2>2 DEF Doing, Idle, Inv, SerialInv, Alone
  <2>4. /\ held \subseteq held'
        /\ \A u \in Users : user'[u] # None =>
             \/ user[u] # None /\ user'[u].phone = user[u].phone
             \/ <<u, user'[u].phone>> \in held'
    <3>1. CASE CreateUser(w)
      <4>1. CASE user' = user /\ held' = held
        BY <4>1
      <4>2. CASE /\ user' = [user EXCEPT ![nextUser] = NewUser(req[w].phone, req[w].password)]
                 /\ held' = held \cup {<<nextUser, req[w].phone>>}
        <5>1. NewUser(req[w].phone, req[w].password).phone = req[w].phone
          BY DEF NewUser
        <5>2. \A u \in Users : u # nextUser => user'[u] = user[u]
          BY <4>2 DEF Inv, TypeOK
        <5>3. nextUser \in Users => user'[nextUser].phone = req[w].phone
          BY <4>2, <5>1 DEF Inv, TypeOK
        <5> QED BY <4>2, <5>2, <5>3
      <4> QED BY <3>1, <4>1, <4>2 DEF CreateUser
    <3>2. CASE SetPassword(w)
      <4>1. req[w].id \in Users
        BY <3>2 DEF SetPassword, Doing, Inv, TypeOK, Requests, Idle
      <4>2. CASE user' = user
        BY <3>2, <4>2 DEF SetPassword
      <4>3. CASE user[req[w].id] # None /\ user' = [user EXCEPT ![req[w].id].password = req[w].password]
        <5>1. user[req[w].id] \in UserRows
          BY <4>1, <4>3 DEF Inv, TypeOK
        <5>2. [user[req[w].id] EXCEPT !.password = req[w].password].phone = user[req[w].id].phone
          BY <5>1 DEF UserRows
        <5>3. \A u \in Users : user'[u] = IF u = req[w].id
                THEN [user[req[w].id] EXCEPT !.password = req[w].password] ELSE user[u]
          BY <4>1, <4>3 DEF Inv, TypeOK
        <5> QED BY <3>2, <4>3, <5>2, <5>3 DEF SetPassword
      <4> QED BY <3>2, <4>2, <4>3 DEF SetPassword
    <3>3. CASE DeleteUserRow(w)
      BY <3>3 DEF DeleteUserRow, Inv, TypeOK
    <3>4. CASE InsertAddress(w) \/ DeleteAddressRow(w)
      BY <3>4 DEF InsertAddress, DeleteAddressRow
    <3> QED BY <3>1, <3>2, <3>3, <3>4 DEF RequestStep
  <2> QED BY <2>2, <2>3, <2>4, HeldKeep DEF Inv
<1> QED BY <1>1, <1>3, <1>4, <1>5 DEF Inv

(* The checks that begin a request. *)
LEMMA BeginningKeeps ==
  ASSUME Inv, NEW w \in Workers, NEW r \in Requests, Begin(w, r),
         UNCHANGED <<user, address, nextUser, nextAddress, tokens, held>>,
         Load', SerialInv',
         r.op = "reset" => /\ <<r.id, r.phone>> \in held
                           /\ user[r.id] # None /\ user[r.id].phone = r.phone
  PROVE  Inv'
<1>1. TypeOK'
  BY BeginTypes DEF Inv, TypeOK
<1>2. Numbered' /\ Holding'
  BY DEF Inv, Numbered, Holding
<1>3. \A v \in Workers : req'[v] = IF v = w THEN r ELSE req[v]
  BY DEF Begin, Inv, TypeOK
<1>4. overlapped => overlapped'
  BY DEF Begin
<1>5. Recalled'
  BY <1>3, <1>4 DEF Inv, Recalled, Doing
<1> QED BY <1>1, <1>2, <1>5 DEF Inv

LEMMA NextKeeps == Inv /\ [Next]_vars => Inv'
<1> SUFFICES ASSUME Inv, [Next]_vars PROVE Inv'
  OBVIOUS
<1>1. ASSUME UNCHANGED <<address, req>>, overlapped => overlapped'
      PROVE  Load' /\ SerialInv'
  BY <1>1, Untouched DEF Inv, Doing
<1>2. ASSUME UNCHANGED <<user, address, nextUser, nextAddress, req, held, overlapped>>,
             NEW t \in Tokens, tokens' = tokens \cup {t}
      PROVE  Inv'
  <2>1. TypeOK'
    BY <1>2 DEF Inv, TypeOK
  <2>2. Numbered' /\ Holding' /\ Recalled'
    BY <1>2 DEF Inv, Numbered, Holding, Recalled, Doing
  <2> QED BY <1>1, <1>2, <2>1, <2>2 DEF Inv
<1>3. ASSUME NEW p \in Phones \cup {None}, tokens' = tokens \cup {PhoneToken(p)},
             UNCHANGED <<user, address, nextUser, nextAddress, req, held, overlapped>>
      PROVE  Inv'
  <2>1. PhoneToken(p) \in Tokens
    BY DEF PhoneToken, Tokens
  <2> QED BY <1>2, <1>3, <2>1
<1>4. ASSUME NEW u \in Users, Login(u)
      PROVE  Inv'
  <2>1. user[u] \in UserRows
    BY <1>4 DEF Login, CanLogin, Inv, TypeOK
  <2>2. SubjectToken(u) \in Tokens
    BY <2>1 DEF SubjectToken, Tokens, UserRows
  <2> QED BY <1>2, <1>4, <2>1, <2>2 DEF Login
<1>5. ASSUME NEW u \in Users, NEW p \in Phones, NEW isActive \in BOOLEAN, UpdateUser(u, p, isActive)
      PROVE  Inv'
  <2>1. user[u] \in UserRows
    BY <1>5 DEF UpdateUser, Inv, TypeOK
  <2>2. /\ user' = [user EXCEPT ![u] = [user[u] EXCEPT !.phone = p, !.isActive = isActive]]
        /\ held' = held \cup {<<u, p>>}
        /\ UNCHANGED <<address, nextUser, nextAddress, tokens, req>>
        /\ overlapped' = (overlapped \/ \E w \in Workers : req[w] # Idle)
    BY <1>5 DEF UpdateUser
  <2>3. [user[u] EXCEPT !.phone = p, !.isActive = isActive] \in UserRows
    BY <2>1 DEF UserRows
  <2>4. TypeOK'
    BY <2>2, <2>3, <1>5 DEF Inv, TypeOK
  <2>5. \A v \in Users : user'[v] # None => user[v] # None
    BY <1>5, <2>2 DEF UpdateUser, Inv, TypeOK
  <2>6. Numbered'
    BY <2>2, <2>5 DEF Inv, Numbered
  <2>7. \A v \in Users : user'[v] # None =>
          \/ user[v] # None /\ user'[v].phone = user[v].phone
          \/ <<v, user'[v].phone>> \in held'
    <3>1. [user[u] EXCEPT !.phone = p, !.isActive = isActive].phone = p
      BY <2>1 DEF UserRows
    <3>2. \A v \in Users : user'[v] = IF v = u THEN [user[u] EXCEPT !.phone = p, !.isActive = isActive]
                                      ELSE user[v]
      BY <2>2 DEF Inv, TypeOK
    <3> QED BY <2>2, <3>1, <3>2
  <2>8. ASSUME NEW v \in Workers, Doing(v, "reset")'
        PROVE  req'[v] = req[v] /\ overlapped'
    <3>1. req' = req
      BY <2>2
    <3>2. req[v] # Idle
      BY <2>8, <3>1 DEF Doing, Idle
    <3> QED BY <2>2, <3>1, <3>2
  <2>9. Holding' /\ Recalled'
    BY <2>2, <2>7, <2>8, HeldKeep DEF Inv
  <2> QED BY <1>1, <2>2, <2>4, <2>6, <2>9 DEF Inv
<1>6. ASSUME NEW w \in Workers, NEW t \in tokens, NEW p \in Phones, NEW password \in Passwords,
             Register(w, t, p, password)
      PROVE  Inv'
  <2> DEFINE r == [op |-> "register", phone |-> p, password |-> password]
  <2>1. r \in Requests /\ r.op = "register"
    BY DEF Requests
  <2>2. Begin(w, r) /\ UNCHANGED <<user, address, nextUser, nextAddress, tokens, held>>
    BY <1>6 DEF Register
  <2> HIDE DEF r
  <2>3. Load' /\ SerialInv'
    BY <2>1, <2>2, BeginKeeps DEF Inv
  <2> QED BY <2>1, <2>2, <2>3, BeginningKeeps
<1>7. ASSUME NEW w \in Workers, NEW r \in Requests, Begin(w, r),
             r.op \in {"reset", "deleteUser", "deleteAddress"},
             r.op = "reset" => /\ <<r.id, r.phone>> \in held
                               /\ user[r.id] # None /\ user[r.id].phone = r.phone,
             UNCHANGED <<user, address, nextUser, nextAddress, tokens, held>>
      PROVE  Inv'
  BY <1>7, BeginKeeps, BeginningKeeps DEF Inv
<1>8. ASSUME NEW w \in Workers, NEW t \in tokens, NEW p \in Phones, NEW password \in Passwords,
             ResetPassword(w, t, p, password)
      PROVE  Inv'
  <2>1. PICK u \in Users : /\ user[u] # None /\ user[u].phone = p
                           /\ Begin(w, [op |-> "reset", phone |-> p, password |-> password, id |-> u])
    BY <1>8 DEF ResetPassword, AccountOf, Holders
  <2> DEFINE r == [op |-> "reset", phone |-> p, password |-> password, id |-> u]
  <2>2. r \in Requests /\ r.op = "reset" /\ r.id = u /\ r.phone = p
    BY DEF Requests
  <2>3. <<u, p>> \in held
    BY <2>1 DEF Inv, Holding
  <2>4. Begin(w, r) /\ UNCHANGED <<user, address, nextUser, nextAddress, tokens, held>>
    BY <1>8, <2>1 DEF ResetPassword
  <2> HIDE DEF r
  <2> QED BY <1>7, <2>1, <2>2, <2>3, <2>4
<1>9. ASSUME NEW w \in Workers, NEW u \in Users, DeleteUser(w, u)
      PROVE  Inv'
  <2>1. [op |-> "deleteUser", id |-> u] \in Requests
    BY DEF Requests
  <2> QED BY <1>7, <1>9, <2>1 DEF DeleteUser
<1>10. ASSUME NEW w \in Workers, NEW a \in AddressIds, NEW userId \in Users, DeleteAddress(w, a, userId)
       PROVE  Inv'
  <2>1. [op |-> "deleteAddress", id |-> a] \in Requests
    BY DEF Requests
  <2> QED BY <1>7, <1>10, <2>1 DEF DeleteAddress
<1>11. ASSUME NEW w \in Workers, NEW u \in Users, NEW place \in Places, AddAddress(w, u, place)
       PROVE  Inv'
  <2>1. [op |-> "addAddress", row |-> [userId |-> u, place |-> place]] \in Requests
    BY DEF Requests, AddressRows
  <2>2. Load' /\ SerialInv'
    BY <1>11, AddAddressKeeps DEF Inv
  <2> QED BY <1>11, <2>1, <2>2, BeginningKeeps DEF AddAddress
<1>12. ASSUME NEW w \in Workers, Fail(w)
       PROVE  Inv'
  <2>1. TypeOK'
    BY <1>12, DoneTypes DEF Fail, Inv, TypeOK
  <2>2. Load' /\ SerialInv'
    BY <1>12, DoneKeeps DEF Fail, Inv
  <2>3. Numbered' /\ Holding'
    BY <1>12 DEF Fail, Inv, Numbered, Holding
  <2>4. \A v \in Workers : req'[v] = IF v = w THEN Idle ELSE req[v]
    BY <1>12 DEF Fail, Done, Inv, TypeOK
  <2>5. Recalled'
    BY <1>12, <2>4 DEF Fail, Done, Doing, Idle, Inv, Recalled
  <2> QED BY <2>1, <2>2, <2>3, <2>5 DEF Inv
<1>13. CASE UNCHANGED vars
  <2>1. TypeOK' /\ Numbered' /\ Holding' /\ Recalled'
    BY <1>13 DEF vars, Inv, TypeOK, Numbered, Holding, Recalled, Doing
  <2> QED BY <1>1, <1>13, <2>1 DEF vars, Inv
<1>14. CASE VerifyGoogleToken
  BY <1>3, <1>14 DEF VerifyGoogleToken, GoogleToken
<1>15. ASSUME NEW p \in Phones, VerifyPhone(p)
       PROVE  Inv'
  BY <1>3, <1>15 DEF VerifyPhone
<1> QED BY <1>4, <1>5, <1>6, <1>8, <1>9, <1>10, <1>11, <1>12, <1>13, <1>14, <1>15, RequestKeeps
        DEF Next

LEMMA Invariance == Spec => []Inv
BY InitInv, NextKeeps, PTL DEF Spec

-----------------------------------------------------------------------------
(* Every row, token and request keeps its type. *)
THEOREM TypesKept == Spec => []TypeOK
<1>1. Inv => TypeOK
  BY DEF Inv
<1> QED BY <1>1, Invariance, PTL

(* The limit of three addresses is passed by less than the requests that    *)
(* can be under way, for any number of users, slots and addresses; without  *)
(* overlap it holds, and no address is there twice (createUserAddress).     *)
THEOREM AddressesAreLimited == Spec => []AddressLimit
<1>1. Inv => AddressLimit
  <2> SUFFICES ASSUME Inv, NEW u \in Users
               PROVE  /\ Cardinality(AddressesOf(u)) <= MaxAddresses + Cardinality(Workers) - 1
                      /\ ~overlapped => Cardinality(AddressesOf(u)) <= MaxAddresses /\ Unlike(u)
    BY DEF AddressLimit, Unlike
  <2>1. Cardinality(AddressesOf(u)) <= MaxAddresses + Cardinality(Workers) - 1
    BY Finite, AccountsAssumption DEF Inv, Load
  <2> QED BY <2>1 DEF Inv, SerialInv
<1> QED BY <1>1, Invariance, PTL

(* A reset reaches the account that had its phone, without overlap the one  *)
(* that has it, and nothing else changes a password (resetPassword).        *)
THEOREM ResetsReachTheirPhone == Spec => ResetReachesPhone
<1> DEFINE Reaches ==
      \A u \in Users :
        user[u] # None /\ user'[u] # None /\ user'[u].password # user[u].password =>
          \E w \in Workers :
            /\ Doing(w, "reset") /\ user'[u].password = req[w].password
            /\ <<u, req[w].phone>> \in held
            /\ ~overlapped => user[u].phone = req[w].phone
<1>1. Inv /\ [Next]_vars => [Reaches]_vars
  <2> SUFFICES ASSUME Inv, Next, NEW u \in Users, user[u] # None, user'[u] # None,
                      user'[u].password # user[u].password
               PROVE  \E w \in Workers :
                        /\ Doing(w, "reset") /\ user'[u].password = req[w].password
                        /\ <<u, req[w].phone>> \in held
                        /\ ~overlapped => user[u].phone = req[w].phone
    OBVIOUS
  <2>0. user[u] \in UserRows /\ user' # user
    BY DEF Inv, TypeOK
  <2>1. ASSUME NEW v \in Users, NEW p \in Phones, NEW isActive \in BOOLEAN, UpdateUser(v, p, isActive)
        PROVE  FALSE
    <3>1. user'[u] = IF u = v THEN [user[u] EXCEPT !.phone = p, !.isActive = isActive] ELSE user[u]
      BY <2>1 DEF UpdateUser, Inv, TypeOK
    <3>2. [user[u] EXCEPT !.phone = p, !.isActive = isActive].password = user[u].password
      BY <2>0 DEF UserRows
    <3> QED BY <3>1, <3>2
  <2>2. ASSUME NEW w \in Workers, CreateUser(w)
        PROVE  FALSE
    <3>1. u < nextUser
      BY DEF Inv, Numbered
    <3>2. u # nextUser
      BY <3>1 DEF Inv, TypeOK
    <3> QED BY <2>2, <3>2 DEF CreateUser, Inv, TypeOK
  <2>3. ASSUME NEW w \in Workers, DeleteUserRow(w)
        PROVE  FALSE
    BY <2>3 DEF DeleteUserRow, Inv, TypeOK
  <2>4. PICK w \in Workers : SetPassword(w)
    BY <2>0, <2>1, <2>2, <2>3
    DEF Next, VerifyGoogleToken, VerifyPhone, Login, Register, ResetPassword, DeleteUser,
        AddAddress, DeleteAddress, RequestStep, Fail, InsertAddress, DeleteAddressRow
  <2>5. Doing(w, "reset") /\ req[w].id \in Users
    BY <2>4 DEF SetPassword, Doing, Inv, TypeOK, Requests, Idle
  <2>6. u = req[w].id /\ user' = [user EXCEPT ![u] = [user[u] EXCEPT !.password = req[w].password]]
    BY <2>0, <2>4, <2>5 DEF SetPassword, Inv, TypeOK
  <2>7. user'[u].password = req[w].password
    <3>1. [user[u] EXCEPT !.password = req[w].password].password = req[w].password
      BY <2>0 DEF UserRows
    <3> QED BY <2>6, <3>1 DEF Inv, TypeOK
  <2> QED BY <2>5, <2>6, <2>7 DEF Inv, Recalled
<1> QED BY <1>1, Invariance, PTL DEF Spec, ResetReachesPhone
=============================================================================
