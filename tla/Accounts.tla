------------------------------ MODULE Accounts ------------------------------
(***************************************************************************)
(* User accounts, the tokens that speak for them, and their addresses       *)
(* (AuthService, UsersService).  The handlers use no transaction: each      *)
(* reads, decides, and writes in a statement of its own, and other requests *)
(* may commit in between.                                                   *)
(***************************************************************************)
EXTENDS Integers, FiniteSets

CONSTANTS
  Workers,       \* slots for requests under way
  Phones,        \* phone numbers
  Passwords,     \* passwords, as stored
  Places,        \* an address with its phone number
  MaxAddresses,  \* addresses a user may have (3)
  MaxUser,       \* bound: User rows of this instance
  MaxAddress,    \* bound: UserAddress rows of this instance
  None           \* no row

ASSUME AccountsAssumption ==
  /\ IsFiniteSet(Workers) /\ Workers # {} /\ None \notin Phones
  /\ MaxAddresses \in Nat \ {0} /\ MaxUser \in Nat /\ MaxAddress \in Nat \ {0}

VARIABLES
  user,         \* the User row of each id, None without one
  address,      \* the UserAddress row of each id, None without one
  nextUser,     \* the sequence behind User.id
  nextAddress,  \* the sequence behind UserAddress.id
  tokens,       \* the JWTs issued
  req,          \* the request of each slot
  held,         \* the phones each account has ever had
  overlapped    \* two requests have been under way at once

vars == <<user, address, nextUser, nextAddress, tokens, req, held, overlapped>>

Users == 1..MaxUser
AddressIds == 1..MaxAddress

UserRows == [phone : Phones, password : Passwords, isActive : BOOLEAN]
AddressRows == [userId : Users, place : Places]

(* login signs {username, sub}; verifyPhone and verifyForgotPassword sign   *)
(* {phoneNumber}; verifyGoogleToken signs neither.                          *)
Tokens ==
  [username : Phones, sub : Users, phoneNumber : {None}]
  \cup [username : {None}, sub : {None}, phoneNumber : Phones \cup {None}]

Idle == [op |-> "idle"]

Requests ==
  {Idle}
  \cup [op : {"register"}, phone : Phones, password : Passwords]
  \cup [op : {"reset"}, phone : Phones, password : Passwords, id : Users]
  \cup [op : {"deleteUser"}, id : Users]
  \cup [op : {"addAddress"}, row : AddressRows]
  \cup [op : {"deleteAddress"}, id : AddressIds]

TypeOK ==
  /\ user \in [Users -> UserRows \cup {None}]
  /\ address \in [AddressIds -> AddressRows \cup {None}]
  /\ nextUser \in 1..(MaxUser + 1) /\ nextAddress \in 1..(MaxAddress + 1)
  /\ tokens \subseteq Tokens
  /\ req \in [Workers -> Requests]
  /\ held \subseteq Users \X Phones
  /\ overlapped \in BOOLEAN

Holders(p) == {u \in Users : user[u] # None /\ user[u].phone = p}
AddressesOf(u) == {a \in AddressIds : address[a] # None /\ address[a].userId = u}

-----------------------------------------------------------------------------
(* Faulty variants *)

AccountOfSubject(t, p) == {t.sub} \cap {u \in Users : user[u] # None}
LimitAlone(u, place) == Cardinality(AddressesOf(u)) \in 1..(MaxAddresses - 1)
InactiveUser(p, password) == [phone |-> p, password |-> password, isActive |-> None]

-----------------------------------------------------------------------------
NewUser(p, password) == [phone |-> p, password |-> password, isActive |-> TRUE]

(* The payload login and loginAdmin sign, the one of verifyPhone and        *)
(* verifyForgotPassword, and the one of verifyGoogleToken.                  *)
SubjectToken(u) == [username |-> user[u].phone, sub |-> u, phoneNumber |-> None]
PhoneToken(p) == [username |-> None, sub |-> None, phoneNumber |-> p]
GoogleToken == PhoneToken(None)

(* LocalStrategy and AdminLocalStrategy let active users in, whatever their *)
(* role.                                                                    *)
CanLogin(u) == user[u] # None /\ user[u].isActive

(* handleRegister and resetPassword compare the username with the phone.    *)
SpeaksFor(t, p) == t.username = p

(* The account whose password resetPassword sets. *)
AccountOf(t, p) == Holders(p)

(* createUserAddress: getUserAddresses throws when the user has none.       *)
MayAdd(u, place) ==
  /\ Cardinality(AddressesOf(u)) \in 1..(MaxAddresses - 1)
  /\ \A a \in AddressesOf(u) : address[a].place # place

(* deleteUserAddress compares the id of the address with the id of the user *)
Deletable(a, userId) == address[a] # None /\ a = userId

Begin(w, request) ==
  /\ req[w] = Idle
  /\ req' = [req EXCEPT ![w] = request]
  /\ overlapped' = (overlapped \/ \E v \in Workers \ {w} : req[v] # Idle)

Doing(w, op) == req[w].op = op

(* The request has its answer, good or bad. *)
Done(w) == req' = [req EXCEPT ![w] = Idle] /\ UNCHANGED overlapped

-----------------------------------------------------------------------------
(* Users and addresses are there when the service starts: no handler makes  *)
(* a first one.                                                             *)
Init ==
  /\ \E n \in Users, p \in [Users -> Phones], password \in Passwords :
       /\ \A u, v \in 1..n : p[u] = p[v] => u = v
       /\ user = [u \in Users |-> 
                 IF u <= n THEN [phone |-> p[u], password |-> password, isActive |-> TRUE]
                 ELSE None]
       /\ nextUser = n + 1 /\ held = {<<u, p[u]>> : u \in 1..n}
       /\ \E place \in Places :
            address = [a \in AddressIds |->
                         IF a = 1 THEN [userId |-> n, place |-> place] ELSE None]
  /\ nextAddress = 2
  /\ tokens = {}
  /\ req = [w \in Workers |-> Idle] /\ overlapped = FALSE

(* POST auth/verify-phone and verify-forgot-password: Firebase has verified *)
(* the phone.                                                               *)
VerifyPhone(p) ==
  /\ tokens' = tokens \cup {PhoneToken(p)}
  /\ UNCHANGED <<user, address, nextUser, nextAddress, req, held, overlapped>>

(* POST auth/google: an account is neither looked for nor made. *)
VerifyGoogleToken ==
  /\ tokens' = tokens \cup {GoogleToken}
  /\ UNCHANGED <<user, address, nextUser, nextAddress, req, held, overlapped>>

(* POST auth/login and login-admin, with the right password. *)
Login(u) ==
  /\ CanLogin(u)
  /\ tokens' = tokens \cup {SubjectToken(u)}
  /\ UNCHANGED <<user, address, nextUser, nextAddress, req, held, overlapped>>

(* POST auth/register *)
Register(w, t, p, password) ==
  /\ Holders(p) = {} /\ SpeaksFor(t, p)
  /\ Begin(w, [op |-> "register", phone |-> p, password |-> password])
  /\ UNCHANGED <<user, address, nextUser, nextAddress, tokens, held>>

(* A rejected insert has drawn its id. *)
CreateUser(w) ==
  LET r == req[w] IN
  /\ Doing(w, "register")
  /\ nextUser <= MaxUser
  /\ nextUser' = nextUser + 1
  /\ IF Holders(r.phone) = {}
     THEN /\ user' = [user EXCEPT ![nextUser] = NewUser(r.phone, r.password)]
          /\ held' = held \cup {<<nextUser, r.phone>>}
     ELSE UNCHANGED <<user, held>>
  /\ Done(w)
  /\ UNCHANGED <<address, nextAddress, tokens>>

(* POST auth/reset-password, of the account that has the phone. *)
ResetPassword(w, t, p, password) ==
  /\ SpeaksFor(t, p)
  /\ \E u \in AccountOf(t, p) :
       Begin(w, [op |-> "reset", phone |-> p, password |-> password, id |-> u])
  /\ UNCHANGED <<user, address, nextUser, nextAddress, tokens, held>>

SetPassword(w) ==
  LET r == req[w] IN
  /\ Doing(w, "reset")
  /\ IF user[r.id] # None
     THEN user' = [user EXCEPT ![r.id].password = r.password]
     ELSE UNCHANGED user
  /\ Done(w)
  /\ UNCHANGED <<address, nextUser, nextAddress, tokens, held>>

(* PATCH users/:id, one statement: a phone another user has is refused.     *)
UpdateUser(u, p, isActive) ==
  /\ user[u] # None /\ Holders(p) \subseteq {u}
  /\ user' = [user EXCEPT ![u].phone = p, ![u].isActive = isActive]
  /\ held' = held \cup {<<u, p>>}
  /\ overlapped' = (overlapped \/ \E w \in Workers : req[w] # Idle)
  /\ UNCHANGED <<address, nextUser, nextAddress, tokens, req>>

(* DELETE users/:id; the addresses refer to the row and keep it.            *)
DeleteUser(w, u) ==
  /\ user[u] # None
  /\ Begin(w, [op |-> "deleteUser", id |-> u])
  /\ UNCHANGED <<user, address, nextUser, nextAddress, tokens, held>>

DeleteUserRow(w) ==
  LET r == req[w] IN
  /\ Doing(w, "deleteUser")
  /\ IF user[r.id] # None /\ AddressesOf(r.id) = {}
     THEN user' = [user EXCEPT ![r.id] = None]
     ELSE UNCHANGED user
  /\ Done(w)
  /\ UNCHANGED <<address, nextUser, nextAddress, tokens, held>>

(* POST users/address *)
AddAddress(w, u, place) ==
  /\ MayAdd(u, place)
  /\ Begin(w, [op |-> "addAddress", row |-> [userId |-> u, place |-> place]])
  /\ UNCHANGED <<user, address, nextUser, nextAddress, tokens, held>>

InsertAddress(w) ==
  LET r == req[w] IN
  /\ Doing(w, "addAddress")
  /\ nextAddress <= MaxAddress
  /\ nextAddress' = nextAddress + 1
  /\ IF user[r.row.userId] # None
     THEN address' = [address EXCEPT ![nextAddress] = r.row]
     ELSE UNCHANGED address
  /\ Done(w)
  /\ UNCHANGED <<user, nextUser, tokens, held>>

(* DELETE users/address *)
DeleteAddress(w, a, userId) ==
  /\ Deletable(a, userId)
  /\ Begin(w, [op |-> "deleteAddress", id |-> a])
  /\ UNCHANGED <<user, address, nextUser, nextAddress, tokens, held>>

DeleteAddressRow(w) ==
  LET r == req[w] IN
  /\ Doing(w, "deleteAddress")
  /\ IF address[r.id] # None
     THEN address' = [address EXCEPT ![r.id] = None]
     ELSE UNCHANGED address
  /\ Done(w)
  /\ UNCHANGED <<user, nextUser, nextAddress, tokens, held>>

(* The process dies or a statement fails. *)
Fail(w) ==
  /\ req[w] # Idle
  /\ Done(w)
  /\ UNCHANGED <<user, address, nextUser, nextAddress, tokens, held>>

-----------------------------------------------------------------------------
RequestStep(w) ==
  \/ CreateUser(w) \/ SetPassword(w) \/ DeleteUserRow(w)
  \/ InsertAddress(w) \/ DeleteAddressRow(w)

Next ==
  \/ VerifyGoogleToken \/ \E p \in Phones : VerifyPhone(p)
  \/ \E u \in Users : Login(u)
  \/ \E u \in Users, p \in Phones, isActive \in BOOLEAN : UpdateUser(u, p, isActive)
  \/ \E w \in Workers :
       \/ \E t \in tokens, p \in Phones, password \in Passwords :
            Register(w, t, p, password) \/ ResetPassword(w, t, p, password)
       \/ \E u \in Users : DeleteUser(w, u) \/ \E place \in Places : AddAddress(w, u, place)
       \/ \E a \in AddressIds, userId \in Users : DeleteAddress(w, a, userId)
       \/ RequestStep(w) \/ Fail(w)

Spec == Init /\ [][Next]_vars

-----------------------------------------------------------------------------
(* Properties *)

(* Requests that count before others insert can pass the limit, by no more  *)
(* than the requests that can overlap; without overlap a user has at most   *)
(* MaxAddresses addresses, no two alike.                                    *)
AddressLimit ==
  \A u \in Users :
    /\ Cardinality(AddressesOf(u)) <= MaxAddresses + Cardinality(Workers) - 1
    /\ ~overlapped =>
         /\ Cardinality(AddressesOf(u)) <= MaxAddresses
         /\ \A a, b \in AddressesOf(u) : address[a].place = address[b].place => a = b

(* A reset changes the password of an account that had the phone of the     *)
(* request when it looked, and without overlap of the one that has it: of   *)
(* no other account, whoever the token was issued to, whatever phones move, *)
(* and whichever accounts are deleted and opened in between                 *)
(* (auth.service.ts:326-341).  Nothing else changes a password.             *)
ResetReachesPhone ==
  [][\A u \in Users :
       user[u] # None /\ user'[u] # None /\ user'[u].password # user[u].password =>
         \E w \in Workers :
           /\ Doing(w, "reset") /\ user'[u].password = req[w].password
           /\ <<u, req[w].phone>> \in held
           /\ ~overlapped => user[u].phone = req[w].phone]_vars

(* What auth.controller.ts:65 and auth.service.ts:145 say: a phone that was *)
(* verified can be registered.  The code wants the username, which a login  *)
(* signs and verifyPhone does not, so this is violated.                     *)
VerifiedPhoneRegisters ==
  \A t \in tokens, p \in Phones : t.phoneNumber = p => SpeaksFor(t, p)
=============================================================================
