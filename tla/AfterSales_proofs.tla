-------------------------- MODULE AfterSales_proofs --------------------------
(***************************************************************************)
(* What the guard and the owner checks promise, for every set of users,     *)
(* roles, calls and repairs.  The argument: the tables of roles,            *)
(* permissions and grants only grow, so what a request found out about      *)
(* them stays true until it is answered (Grows), and it is enough to look   *)
(* at the request that moves.  Then the calendar: the recursion of FirstOf  *)
(* has a solution, every day has its month; and with it the warranties,     *)
(* for any terms and any moments.                                           *)
(***************************************************************************)
EXTENDS AfterSales, FiniteSetTheorems, FunctionTheorems, WellFoundedInduction, TLAPS

(* What is known of one request under way. *)
Slot(v) ==
  LET c == req[v].call
  IN /\ req[v].at \in {"idle", "guard", "denied"} \cup Admitted
     /\ req[v].at # "idle" => c \in Calls
     /\ req[v].at \in Admitted => Required(c.route) \subseteq PermissionsOf(c.user)
     /\ req[v].at \in {"found", "checked", "written"} => c.route = "addPermissions" /\ c.role \in roles
     /\ req[v].at = "owned" => c.route = "createSupportRequest" /\ IsOwner(c.user, c.repair)
     /\ req[v].at \in {"checked", "written"} =>
          /\ \A i \in DOMAIN c.list : c.list[i] \in permissions
          /\ \A i, j \in DOMAIN c.list : c.list[i] = c.list[j] => i = j
     /\ req[v].at = "written" => \A i \in DOMAIN c.list : c.list[i] \in GrantedTo(c.role)

(* What is known of an answer. *)
Answer(v) ==
  LET c == req[v].call
  IN req[v].at = "answered" =>
     /\ c.route = "addPermissions" /\ req[v].status = "ok" =>
          \A i \in DOMAIN c.list : c.list[i] \in req[v].body
     /\ req[v].status = "ok" /\ c.route \in {"addPermissions", "getRolePermissions"} =>
          req[v].body \subseteq GrantedTo(c.role)
     /\ c.route \in {"findAllServiceWarranty", "getAppointmentStatus", "getAppointmentHistory",
                     "createSupportRequest", "getSupportRequestsByUser"} =>
          \A b \in req[v].body : CustomerOf[b.repair] = c.user

Tables ==
  /\ AccessTypeOK
  /\ granted \subseteq roles \X permissions

Supported ==
  /\ DOMAIN support = Repairs
  /\ \A r \in Repairs :
       /\ support[r] \in Seq(Users)
       /\ \A i \in DOMAIN support[r] :
            /\ support[r][i] = CustomerOf[r]
            /\ Required("createSupportRequest") \subseteq PermissionsOf(support[r][i])

Inv ==
  /\ Tables
  /\ DOMAIN req = Workers /\ req = [w \in Workers |-> req[w]]
  /\ \A w \in Workers : Slot(w) /\ Answer(w)
  /\ GrantsHaveAnAuthor
  /\ DOMAIN warranty = Repairs
  /\ warranty = [r \in Repairs |-> warranty[r]]
  /\ support = [r \in Repairs |-> support[r]]
  /\ Supported

-----------------------------------------------------------------------------
(* A list whose length is the number of rows found for it names rows only,  *)
(* and none twice: the comparison of addPermissions (roles.service.ts:72).  *)
LEMMA CountFindsAll ==
  ASSUME NEW S, NEW list \in Seq(S), FindsAll(list)
  PROVE  /\ \A i \in DOMAIN list : list[i] \in permissions
         /\ \A i, j \in DOMAIN list : list[i] = list[j] => i = j
<1> DEFINE Found == {p \in permissions : \E i \in DOMAIN list : list[i] = p}
           n == Len(list)
<1>1. n \in Nat /\ DOMAIN list = 1..n
  OBVIOUS
<1>2. ASSUME NEW I \in SUBSET (1..n), \A p \in Found : \E i \in I : list[i] = p
      PROVE  Cardinality(Found) <= Cardinality(I)
  <2> DEFINE J == {i \in I : list[i] \in Found}
             f == [i \in J |-> list[i]]
  <2>1. IsFiniteSet(I) /\ IsFiniteSet(J) /\ Cardinality(J) <= Cardinality(I)
    <3>1. IsFiniteSet(1..n) BY <1>1, FS_Interval
    <3>2. IsFiniteSet(I) BY <3>1, FS_Subset
    <3> QED BY <3>2, FS_Subset
  <2>2. f \in Surjection(J, Found)
    BY <1>2 DEF Surjection
  <2>3. Cardinality(Found) <= Cardinality(J)
    BY <2>1, <2>2, FS_Surjection
  <2>4. Cardinality(Found) \in Nat /\ Cardinality(J) \in Nat /\ Cardinality(I) \in Nat
    BY <2>1, <2>2, FS_Surjection, FS_CardinalityType
  <2> QED BY <2>1, <2>3, <2>4
<1>3. Cardinality(Found) = n
  BY DEF FindsAll
<1>4. ASSUME NEW k \in 1..n, \A p \in Found : \E i \in (1..n) \ {k} : list[i] = p
      PROVE  FALSE
  <2>1. IsFiniteSet(1..n) /\ Cardinality(1..n) = n
    BY <1>1, FS_Interval
  <2>2. Cardinality((1..n) \ {k}) = n - 1
    BY <2>1, FS_RemoveElement
  <2>3. Cardinality(Found) <= Cardinality((1..n) \ {k})
    BY <1>2, <1>4
  <2>4. n <= n - 1
    BY <1>3, <2>2, <2>3, Zenon
  <2> HIDE DEF n
  <2> QED BY <1>1, <2>4
<1>5. ASSUME NEW k \in DOMAIN list
      PROVE  list[k] \in permissions
  <2>1. CASE list[k] \notin permissions
    <3>1. \A p \in Found : \E i \in (1..n) \ {k} : list[i] = p
      BY <1>1, <2>1
    <3> QED BY <1>1, <1>4, <1>5, <3>1
  <2> QED BY <2>1
<1>6. ASSUME NEW j \in DOMAIN list, NEW k \in DOMAIN list, list[j] = list[k], j # k
      PROVE  FALSE
  <2>1. \A p \in Found : \E i \in (1..n) \ {k} : list[i] = p
    BY <1>1, <1>6
  <2> QED BY <1>1, <1>4, <1>6, <2>1
<1> QED BY <1>5, <1>6

-----------------------------------------------------------------------------
(* A request that does not move keeps what it knows: the tables grow.       *)
LEMMA Grows ==
  ASSUME Inv, NEW v \in Workers, req'[v] = req[v],
         roles \subseteq roles', permissions \subseteq permissions', granted \subseteq granted'
  PROVE  Slot(v)' /\ Answer(v)'
<1>1. \A u : PermissionsOf(u) \subseteq PermissionsOf(u)'
  BY DEF PermissionsOf
<1>2. \A r : GrantedTo(r) \subseteq GrantedTo(r)'
  BY DEF GrantedTo
<1>3. Slot(v) /\ Answer(v)
  BY DEF Inv
<1>4. Slot(v)'
  BY <1>1, <1>2, <1>3 DEF Slot, IsOwner
<1>5. Answer(v)'
  BY <1>2, <1>3 DEF Answer
<1> QED BY <1>4, <1>5

(* So a step that moves one request has to be examined for that request.    *)
LEMMA OneMoves ==
  ASSUME Inv, NEW w \in Workers, NEW r, Moves(w, r),
         roles \subseteq roles', permissions \subseteq permissions', granted \subseteq granted',
         Slot(w)', Answer(w)'
  PROVE  /\ DOMAIN req' = Workers /\ req' = [v \in Workers |-> req'[v]]
         /\ \A v \in Workers : Slot(v)' /\ Answer(v)'
<1>1. DOMAIN req = Workers /\ req = [v \in Workers |-> req[v]]
  BY DEF Inv
<1>2. req' = [v \in Workers |-> IF v = w THEN r ELSE req[v]]
  BY <1>1 DEF Moves
<1>3. ASSUME NEW v \in Workers PROVE Slot(v)' /\ Answer(v)'
  <2>1. CASE v = w BY <2>1
  <2>2. CASE v # w
    <3>1. req'[v] = req[v] BY <1>2, <2>2
    <3> QED BY <3>1, Grows
  <2> QED BY <2>1, <2>2
<1> QED BY <1>2, <1>3

(* What the tables say of a support request stays true as well.             *)
LEMMA SupportStays ==
  ASSUME Inv, UNCHANGED support, granted \subseteq granted'
  PROVE  Supported' /\ support' = [r \in Repairs |-> support'[r]]
<1>1. \A u : PermissionsOf(u) \subseteq PermissionsOf(u)'
  BY DEF PermissionsOf
<1> QED
  BY <1>1 DEF Inv, Supported

LEMMA InitInv == AfterInit => Inv
<1> SUFFICES ASSUME AfterInit PROVE Inv
  OBVIOUS
<1>1. Tables
  BY AccessAssumption DEF AfterInit, AccessInit, Tables, AccessTypeOK
<1>2. \A w \in Workers : Slot(w) /\ Answer(w)
  BY DEF AfterInit, AccessInit, Slot, Answer, Idle, Admitted
<1>3. GrantsHaveAnAuthor
  BY DEF AfterInit, AccessInit, GrantsHaveAnAuthor
<1>4. Supported
  BY DEF AfterInit, Supported
<1> QED
  BY <1>1, <1>2, <1>3, <1>4 DEF AfterInit, AccessInit, Inv

(* A user who is changing roles had been given the right to in the          *)
(* beginning, as long as nothing was granted since.                         *)
LEMMA Authorised ==
  ASSUME Inv, NEW w \in Workers, req[w].at \in Admitted, granted = first,
         NEW p, <<req[w].call.route, p>> \in Routes
  PROVE  UsersWith(p) # {}
<1> DEFINE c == req[w].call
<1>1. c \in Calls /\ Required(c.route) \subseteq PermissionsOf(c.user)
  BY DEF Inv, Slot, Admitted
<1>2. p \in Required(c.route)
  <2>1. <<c.route, p>>[1] = c.route /\ <<c.route, p>>[2] = p
    OBVIOUS
  <2> QED BY <2>1 DEF Required
<1>3. PICK g \in granted : g[1] \in RolesOf[c.user] /\ g[2] = p
  BY <1>1, <1>2 DEF PermissionsOf
<1>4. g = <<g[1], p>>
  BY <1>3 DEF Inv, Tables
<1>5. c.user \in Users
  BY <1>1, AccessAssumption
<1> QED
  BY <1>3, <1>4, <1>5 DEF UsersWith

(* A step that changes no table and moves one request: it is enough to look *)
(* at the request.                                                          *)
LEMMA Quiet ==
  ASSUME Inv, NEW w \in Workers, NEW r, Moves(w, r), UNCHANGED accessVars,
         UNCHANGED <<warranty, support>>, Slot(w)', Answer(w)'
  PROVE  Inv'
<1>1. Tables' /\ GrantsHaveAnAuthor'
  BY DEF Inv, Tables, AccessTypeOK, GrantsHaveAnAuthor, UsersWith, accessVars
<1>2. Supported' /\ support' = [q \in Repairs |-> support'[q]]
  BY SupportStays DEF accessVars
<1>3. /\ DOMAIN req' = Workers /\ req' = [v \in Workers |-> req'[v]]
      /\ \A v \in Workers : Slot(v)' /\ Answer(v)'
  BY OneMoves DEF accessVars
<1> QED
  BY <1>1, <1>2, <1>3 DEF Inv

(* What the moving request is like afterwards. *)
LEMMA Moved ==
  ASSUME Inv, NEW w \in Workers, NEW r, Moves(w, r)
  PROVE  req'[w] = r
BY DEF Inv, Moves

LEMMA AccessStep ==
  ASSUME Inv, NEW w \in Workers,
         \/ \E c \in Calls : Arrive(w, c)
         \/ AccessGuard(w) \/ GetRolePermissions(w) \/ FindRole(w) \/ FindPermissions(w)
         \/ ReadBack(w) \/ Leave(w),
         UNCHANGED <<warranty, support>>
  PROVE  Inv'
<1>0. Slot(w) /\ Answer(w)
  BY DEF Inv
<1>1. ASSUME NEW c \in Calls, Arrive(w, c) PROVE Inv'
  <2>1. Moves(w, At("guard", c)) /\ UNCHANGED accessVars
    BY <1>1 DEF Arrive
  <2>2. req'[w] = At("guard", c)
    BY <2>1, Moved
  <2>3. Slot(w)' /\ Answer(w)'
    BY <2>2 DEF Slot, Answer, At, Admitted
  <2> QED BY <2>1, <2>3, Quiet
<1>2. CASE AccessGuard(w)
  <2> DEFINE c == req[w].call
             ok == HasAll(Required(c.route), PermissionsOf(c.user))
  <2>1. Moves(w, At(IF ok THEN "handler" ELSE "denied", c)) /\ UNCHANGED accessVars
    BY <1>2 DEF AccessGuard
  <2>2. req'[w] = At(IF ok THEN "handler" ELSE "denied", c)
    BY <2>1, Moved
  <2>3. c \in Calls
    BY <1>0, <1>2 DEF Slot, AccessGuard
  <2>4. PermissionsOf(c.user)' = PermissionsOf(c.user)
    BY <2>1, <2>2 DEF PermissionsOf, accessVars, At
  <2>5. CASE ok
    <3>1. req'[w].at = "handler" /\ req'[w].call = c
      BY <2>2, <2>5 DEF At
    <3>2. Required(c.route) \subseteq PermissionsOf(c.user)
      BY <2>5 DEF HasAll
    <3>3. PermissionsOf(req[w].call.user)' = PermissionsOf(c.user)
      BY <2>1, <3>1 DEF PermissionsOf, accessVars
    <3>4. Slot(w)' /\ Answer(w)'
      BY <2>3, <3>1, <3>2, <3>3 DEF Slot, Answer, Admitted
    <3> QED BY <2>1, <3>4, Quiet
  <2>6. CASE ~ok
    <3>1. req'[w].at = "denied" /\ req'[w].call = c
      BY <2>2, <2>6 DEF At
    <3>2. Slot(w)' /\ Answer(w)'
      BY <2>3, <3>1 DEF Slot, Answer, Admitted
    <3> QED BY <2>1, <3>2, Quiet
  <2> QED BY <2>5, <2>6
<1>3. CASE GetRolePermissions(w)
  <2> DEFINE c == req[w].call
             r == IF c.role \in roles THEN Answered(c, "ok", GrantedTo(c.role))
                                      ELSE Answered(c, "missing", {})
  <2>1. Moves(w, r) /\ UNCHANGED accessVars /\ req[w].at = "handler" /\ c.route = "getRolePermissions"
    BY <1>3 DEF GetRolePermissions, Answers, Handles
  <2>2. req'[w] = r
    BY <2>1, Moved
  <2>3. /\ req'[w].at = "answered" /\ req'[w].call = c
        /\ req'[w].status = "ok" => req'[w].body = GrantedTo(c.role)
    BY <2>2 DEF Answered
  <2>4. Slot(w)'
    BY <1>0, <2>1, <2>3 DEF Slot, Admitted, PermissionsOf, accessVars
  <2>5. Answer(w)'
    BY <2>1, <2>3 DEF Answer, GrantedTo, accessVars
  <2> QED BY <2>1, <2>4, <2>5, Quiet
<1>4. CASE FindRole(w)
  <2> DEFINE c == req[w].call
  <2>1. req[w].at = "handler" /\ c.route = "addPermissions" /\ UNCHANGED accessVars
    BY <1>4 DEF FindRole, Handles
  <2>2. CASE c.role \in roles
    <3>1. Moves(w, At("found", c)) BY <1>4, <2>2 DEF FindRole
    <3>2. req'[w].at = "found" /\ req'[w].call = c BY <3>1, Moved DEF At
    <3>3. Slot(w)' /\ Answer(w)'
      BY <1>0, <2>1, <2>2, <3>2 DEF Slot, Answer, Admitted, PermissionsOf, accessVars
    <3> QED BY <2>1, <3>1, <3>3, Quiet
  <2>3. CASE c.role \notin roles
    <3>1. Moves(w, Answered(c, "missing", {})) BY <1>4, <2>3 DEF FindRole, Answers
    <3>2. req'[w] = Answered(c, "missing", {}) BY <3>1, Moved
    <3>3. req'[w].at = "answered" /\ req'[w].call = c /\ req'[w].status = "missing"
      BY <3>2 DEF Answered
    <3>4. Slot(w)' /\ Answer(w)'
      BY <1>0, <2>1, <3>3 DEF Slot, Answer, Admitted, PermissionsOf, accessVars
    <3> QED BY <2>1, <3>1, <3>4, Quiet
  <2> QED BY <2>2, <2>3
<1>5. CASE FindPermissions(w)
  <2> DEFINE c == req[w].call
  <2>1. req[w].at = "found" /\ UNCHANGED accessVars
    BY <1>5 DEF FindPermissions
  <2>2. c \in Calls /\ c.route = "addPermissions" /\ c.role \in roles
    BY <1>0, <2>1 DEF Slot
  <2>3. CASE FindsAll(c.list)
    <3>1. Moves(w, At("checked", c)) BY <1>5, <2>3 DEF FindPermissions
    <3>2. req'[w].at = "checked" /\ req'[w].call = c BY <3>1, Moved DEF At
    <3>3. c.list \in Seq(PermissionNames)
      BY <2>2, AccessAssumption
    <3>4. /\ \A i \in DOMAIN c.list : c.list[i] \in permissions
          /\ \A i, j \in DOMAIN c.list : c.list[i] = c.list[j] => i = j
      BY <2>3, <3>3, CountFindsAll
    <3>5. Slot(w)' /\ Answer(w)'
      BY <1>0, <2>1, <2>2, <3>2, <3>4 DEF Slot, Answer, Admitted, PermissionsOf, accessVars
    <3> QED BY <2>1, <3>1, <3>5, Quiet
  <2>4. CASE ~FindsAll(c.list)
    <3>1. Moves(w, Answered(c, "missing", {})) BY <1>5, <2>4 DEF FindPermissions, Answers
    <3>2. req'[w] = Answered(c, "missing", {}) BY <3>1, Moved
    <3>3. req'[w].at = "answered" /\ req'[w].call = c /\ req'[w].status = "missing"
      BY <3>2 DEF Answered
    <3>4. Slot(w)' /\ Answer(w)'
      BY <1>0, <2>1, <2>2, <3>3 DEF Slot, Answer, Admitted, PermissionsOf, accessVars
    <3> QED BY <2>1, <3>1, <3>4, Quiet
  <2> QED BY <2>3, <2>4
<1>6. CASE ReadBack(w)
  <2> DEFINE c == req[w].call
             r == Answered(c, "ok", GrantedTo(c.role))
  <2>1. Moves(w, r) /\ UNCHANGED accessVars /\ req[w].at = "written"
    BY <1>6 DEF ReadBack, Answers
  <2>2. req'[w] = r
    BY <2>1, Moved
  <2>3. req'[w].at = "answered" /\ req'[w].call = c /\ req'[w].body = GrantedTo(c.role)
    BY <2>2 DEF Answered
  <2>4. c.route = "addPermissions" /\ \A i \in DOMAIN c.list : c.list[i] \in GrantedTo(c.role)
    BY <1>0, <2>1 DEF Slot
  <2>5. Slot(w)' /\ Answer(w)'
    BY <1>0, <2>1, <2>3, <2>4 DEF Slot, Answer, Admitted, PermissionsOf, GrantedTo, accessVars
  <2> QED BY <2>1, <2>5, Quiet
<1>7. CASE Leave(w)
  <2>1. Moves(w, Idle) /\ UNCHANGED accessVars BY <1>7 DEF Leave
  <2>2. req'[w].at = "idle" BY <2>1, Moved DEF Idle
  <2>3. Slot(w)' /\ Answer(w)' BY <2>2 DEF Slot, Answer, Admitted
  <2> QED BY <2>1, <2>3, Quiet
<1> QED BY <1>1, <1>2, <1>3, <1>4, <1>5, <1>6, <1>7

(* The three steps that add rows to the tables. *)
LEMMA TableStep ==
  ASSUME Inv, NEW w \in Workers,
         CreateRole(w) \/ CreatePermission(w) \/ CreateGrants(w),
         UNCHANGED <<warranty, support>>
  PROVE  Inv'
<1> DEFINE c == req[w].call
<1>0. Slot(w)
  BY DEF Inv
<1>1. CASE CreateRole(w)
  <2> DEFINE r == Answered(c, IF c.name \in roles THEN "failed" ELSE "ok", {})
  <2>1. /\ Moves(w, r) /\ req[w].at = "handler" /\ c.route = "createRole"
        /\ roles' = roles \cup {c.name} /\ UNCHANGED <<permissions, granted, first>>
    BY <1>1 DEF CreateRole, Answers, Handles
  <2>2. c \in Calls /\ c.name \in RoleNames
    BY <1>0, <2>1, AccessAssumption DEF Slot
  <2>3. req'[w] = r
    BY <2>1, Moved
  <2>4. req'[w].at = "answered" /\ req'[w].call = c
    BY <2>3 DEF Answered
  <2>5. Slot(w)' /\ Answer(w)'
    BY <1>0, <2>1, <2>4 DEF Slot, Answer, Admitted, PermissionsOf
  <2>6. Tables'
    BY <2>1, <2>2 DEF Inv, Tables, AccessTypeOK
  <2>7. GrantsHaveAnAuthor'
    <3>1. \A q : UsersWith(q)' = UsersWith(q)
      BY <2>1 DEF UsersWith
    <3>2. UsersWith(<<"Update", "Role">>) = {} => granted = first
      BY DEF Inv, GrantsHaveAnAuthor
    <3>3. granted = first => UsersWith(<<"Create", "Role">>) # {}
      <4>1. <<"createRole", <<"Create", "Role">>>> \in Routes
        BY DEF Routes, RolesRoutes
      <4>2. req[w].at \in Admitted /\ <<req[w].call.route, <<"Create", "Role">>>> \in Routes
        BY <2>1, <4>1 DEF Admitted
      <4> QED BY <4>2, Authorised
    <3> QED BY <2>1, <3>1, <3>2, <3>3 DEF GrantsHaveAnAuthor
  <2>8. Supported' /\ support' = [q \in Repairs |-> support'[q]]
    BY <2>1, SupportStays
  <2>9. /\ DOMAIN req' = Workers /\ req' = [v \in Workers |-> req'[v]]
        /\ \A v \in Workers : Slot(v)' /\ Answer(v)'
    BY <2>1, <2>5, OneMoves
  <2> QED BY <2>6, <2>7, <2>8, <2>9 DEF Inv
<1>2. CASE CreatePermission(w)
  <2> DEFINE r == Answered(c, IF c.name \in permissions THEN "failed" ELSE "ok", {})
  <2>1. /\ Moves(w, r) /\ req[w].at = "handler" /\ c.route = "createPermission"
        /\ permissions' = permissions \cup {c.name} /\ UNCHANGED <<roles, granted, first>>
    BY <1>2 DEF CreatePermission, Answers, Handles
  <2>2. c \in Calls /\ c.name \in PermissionNames
    BY <1>0, <2>1, AccessAssumption DEF Slot
  <2>3. req'[w] = r
    BY <2>1, Moved
  <2>4. req'[w].at = "answered" /\ req'[w].call = c
    BY <2>3 DEF Answered
  <2>5. Slot(w)' /\ Answer(w)'
    BY <1>0, <2>1, <2>4 DEF Slot, Answer, Admitted, PermissionsOf
  <2>6. Tables' /\ GrantsHaveAnAuthor'
    BY <2>1, <2>2 DEF Inv, Tables, AccessTypeOK, GrantsHaveAnAuthor, UsersWith
  <2>7. Supported' /\ support' = [q \in Repairs |-> support'[q]]
    BY <2>1, SupportStays
  <2>8. /\ DOMAIN req' = Workers /\ req' = [v \in Workers |-> req'[v]]
        /\ \A v \in Workers : Slot(v)' /\ Answer(v)'
    BY <2>1, <2>5, OneMoves
  <2> QED BY <2>6, <2>7, <2>8 DEF Inv
<1>3. CASE CreateGrants(w)
  <2>1. /\ Moves(w, At("written", c)) /\ req[w].at = "checked"
        /\ granted' = granted \cup {<<c.role, c.list[i]>> : i \in DOMAIN c.list}
        /\ UNCHANGED <<roles, permissions, first>>
    BY <1>3 DEF CreateGrants, WithGrants
  <2>2. /\ c \in Calls /\ c.route = "addPermissions" /\ c.role \in roles
        /\ \A i \in DOMAIN c.list : c.list[i] \in permissions
    BY <1>0, <2>1 DEF Slot
  <2>3. req'[w] = At("written", c)
    BY <2>1, Moved
  <2>4. req'[w].at = "written" /\ req'[w].call = c
    BY <2>3 DEF At
  <2>5. \A i \in DOMAIN c.list : c.list[i] \in GrantedTo(c.role)'
    <3> SUFFICES ASSUME NEW i \in DOMAIN c.list PROVE c.list[i] \in GrantedTo(c.role)'
      OBVIOUS
    <3>1. <<c.role, c.list[i]>> \in granted' BY <2>1
    <3>2. <<c.role, c.list[i]>>[1] = c.role /\ <<c.role, c.list[i]>>[2] = c.list[i] OBVIOUS
    <3>3. c.role' = c.role /\ c.list'[i] = c.list[i] BY <2>4
    <3> HIDE DEF c
    <3> QED BY <3>1, <3>2, <3>3 DEF GrantedTo
  <2>6. Slot(w)' /\ Answer(w)'
    BY <1>0, <2>1, <2>2, <2>4, <2>5 DEF Slot, Answer, Admitted, PermissionsOf, GrantedTo
  <2>7. Tables'
    BY <2>1, <2>2 DEF Inv, Tables, AccessTypeOK
  <2>8. GrantsHaveAnAuthor'
    <3>1. \A q : UsersWith(q)' = UsersWith(q)
      BY <2>1 DEF UsersWith
    <3>2. UsersWith(<<"Update", "Role">>) # {}
      <4>1. <<"addPermissions", <<"Update", "Role">>>> \in Routes
        BY DEF Routes, RolesRoutes
      <4>2. req[w].at \in Admitted /\ <<req[w].call.route, <<"Update", "Role">>>> \in Routes
        BY <2>1, <2>2, <4>1 DEF Admitted
      <4>3. granted = first => UsersWith(<<"Update", "Role">>) # {}
        BY <4>2, Authorised
      <4> QED BY <4>3 DEF Inv, GrantsHaveAnAuthor
    <3> QED BY <3>1, <3>2 DEF GrantsHaveAnAuthor
  <2>9. Supported' /\ support' = [q \in Repairs |-> support'[q]]
    BY <2>1, SupportStays
  <2>10. /\ DOMAIN req' = Workers /\ req' = [v \in Workers |-> req'[v]]
         /\ \A v \in Workers : Slot(v)' /\ Answer(v)'
    BY <2>1, <2>6, OneMoves
  <2> QED BY <2>7, <2>8, <2>9, <2>10 DEF Inv
<1> QED BY <1>1, <1>2, <1>3

-----------------------------------------------------------------------------
(* The handlers behind the guard. *)

(* The answer of a handler that changes no table. *)
LEMMA HandlerAnswers ==
  ASSUME Inv, NEW w \in Workers, req[w].at \in Admitted \ {"answered"}, NEW status, NEW body,
         Answers(w, status, body), UNCHANGED accessVars,
         req[w].call.route \notin {"addPermissions", "getRolePermissions"},
         \A b \in body : CustomerOf[b.repair] = req[w].call.user
  PROVE  Slot(w)' /\ Answer(w)'
<1> DEFINE c == req[w].call
<1>1. Moves(w, Answered(c, status, body))
  BY DEF Answers
<1>2. req'[w] = Answered(c, status, body)
  BY <1>1, Moved
<1>3. req'[w].at = "answered" /\ req'[w].call = c /\ req'[w].body = body
  BY <1>2 DEF Answered
<1>4. Slot(w)
  BY DEF Inv
<1> QED
  BY <1>3, <1>4 DEF Slot, Answer, Admitted, PermissionsOf, accessVars

LEMMA HandlerStep ==
  ASSUME Inv, NEW w \in Workers,
         FindAllServiceWarranty(w) \/ GetAppointment(w) \/ CheckSupportRequest(w)
         \/ GetSupportRequestsByUser(w) \/ OrderHandler(w)
  PROVE  Inv'
<1> DEFINE c == req[w].call
<1>0. Slot(w) /\ UNCHANGED accessVars /\ UNCHANGED <<warranty, support>>
      /\ req[w].at = "handler" /\ req[w].at \in Admitted \ {"answered"}
  BY DEF Inv, FindAllServiceWarranty, GetAppointment, CheckSupportRequest,
         GetSupportRequestsByUser, OrderHandler, Handles, accessVars, Admitted
<1>1. ASSUME NEW status, NEW body, Answers(w, status, body),
             c.route \notin {"addPermissions", "getRolePermissions"},
             \A b \in body : CustomerOf[b.repair] = c.user
      PROVE  Inv'
  <2>1. Slot(w)' /\ Answer(w)'
    BY <1>0, <1>1, HandlerAnswers
  <2>2. Moves(w, Answered(c, status, body))
    BY <1>1 DEF Answers
  <2> QED BY <1>0, <2>1, <2>2, Quiet
<1>2. CASE FindAllServiceWarranty(w)
  <2> DEFINE mine == {r \in Repairs : CustomerOf[r] = c.user /\ HasWarranty(r)}
             body == {[repair |-> r, days |-> RemainingDays(warranty[r].end, now)] : r \in mine}
  <2>1. Answers(w, "ok", body) /\ c.route = "findAllServiceWarranty"
    BY <1>2 DEF FindAllServiceWarranty, Handles
  <2>2. \A b \in body : CustomerOf[b.repair] = c.user
    OBVIOUS
  <2> QED BY <1>1, <2>1, <2>2
<1>3. CASE GetAppointment(w)
  <2>1. c.route \in {"getAppointmentStatus", "getAppointmentHistory"}
    BY <1>3 DEF GetAppointment, Handles
  <2>2. \/ Answers(w, "missing", {})
        \/ Answers(w, "forbidden", {})
        \/ IsOwner(c.user, c.repair) /\ Answers(w, "ok", {[repair |-> c.repair]})
    BY <1>3 DEF GetAppointment
  <2>3. IsOwner(c.user, c.repair) => \A b \in {[repair |-> c.repair]} : CustomerOf[b.repair] = c.user
    BY DEF IsOwner
  <2> QED BY <1>1, <2>1, <2>2, <2>3
<1>4. CASE CheckSupportRequest(w)
  <2>1. c.route = "createSupportRequest"
    BY <1>4 DEF CheckSupportRequest, Handles
  <2>2. CASE IsOwner(c.user, c.repair)
    <3>1. Moves(w, At("owned", c)) BY <1>4, <2>2 DEF CheckSupportRequest
    <3>2. req'[w].at = "owned" /\ req'[w].call = c BY <3>1, Moved DEF At
    <3>3. Slot(w)' /\ Answer(w)'
      BY <1>0, <2>1, <2>2, <3>2 DEF Slot, Answer, Admitted, PermissionsOf, accessVars, IsOwner
    <3> QED BY <1>0, <3>1, <3>3, Quiet
  <2>3. CASE ~IsOwner(c.user, c.repair)
    <3>1. Answers(w, "invalid", {}) BY <1>4, <2>3 DEF CheckSupportRequest
    <3> QED BY <1>1, <2>1, <3>1
  <2> QED BY <2>2, <2>3
<1>5. CASE GetSupportRequestsByUser(w)
  <2> DEFINE body == {[repair |-> r] : r \in {q \in Repairs : \E i \in DOMAIN support[q] : support[q][i] = c.of}}
  <2>1. c.route = "getSupportRequestsByUser"
    BY <1>5 DEF GetSupportRequestsByUser, Handles
  <2>2. \/ Answers(w, "forbidden", {})
        \/ c.user = c.of /\ Answers(w, "ok", body)
    BY <1>5 DEF GetSupportRequestsByUser
  <2>3. c.user = c.of => \A b \in body : CustomerOf[b.repair] = c.user
    BY DEF Inv, Supported
  <2>4. c.route \notin {"addPermissions", "getRolePermissions"}
    BY <2>1
  <2>5. CASE Answers(w, "forbidden", {})
    BY <1>1, <2>4, <2>5
  <2>6. CASE c.user = c.of /\ Answers(w, "ok", body)
    BY <1>1, <2>3, <2>4, <2>6
  <2> QED BY <2>2, <2>5, <2>6
<1>6. CASE OrderHandler(w)
  <2>1. c.route \notin {"addPermissions", "getRolePermissions"} /\ Answers(w, "ok", {})
    BY <1>6 DEF OrderHandler, Handles
  <2> QED BY <1>1, <2>1
<1> QED BY <1>2, <1>3, <1>4, <1>5, <1>6

(* The warranty of a completed repair, and the row of a support request.    *)
LEMMA RecordStep ==
  ASSUME Inv, NEW w \in Workers, CompleteRepair(w) \/ InsertSupportRequest(w)
  PROVE  Inv'
<1> DEFINE c == req[w].call
<1>0. Slot(w) /\ UNCHANGED accessVars
  BY DEF Inv, CompleteRepair, InsertSupportRequest, accessVars
<1>1. Tables' /\ GrantsHaveAnAuthor'
  BY <1>0 DEF Inv, Tables, AccessTypeOK, GrantsHaveAnAuthor, UsersWith, accessVars
<1>2. CASE CompleteRepair(w)
  <2>1. /\ req[w].at = "handler" /\ c.route = "completeRepair" /\ UNCHANGED support
        /\ DOMAIN warranty' = Repairs /\ warranty' = [r \in Repairs |-> warranty'[r]]
        /\ \E status : Answers(w, status, {})
    BY <1>2 DEF CompleteRepair, Handles, Inv
  <2>2. PICK status : Answers(w, status, {})
    BY <2>1
  <2>3. Slot(w)' /\ Answer(w)'
    BY <1>0, <2>1, <2>2, HandlerAnswers DEF Admitted
  <2>4. Moves(w, Answered(c, status, {}))
    BY <2>2 DEF Answers
  <2>5. /\ DOMAIN req' = Workers /\ req' = [v \in Workers |-> req'[v]]
        /\ \A v \in Workers : Slot(v)' /\ Answer(v)'
    BY <1>0, <2>3, <2>4, OneMoves DEF accessVars
  <2>6. Supported' /\ support' = [q \in Repairs |-> support'[q]]
    BY <1>0, <2>1, SupportStays DEF accessVars
  <2> QED BY <1>1, <2>1, <2>5, <2>6 DEF Inv
<1>3. CASE InsertSupportRequest(w)
  <2> DEFINE body == {[repair |-> c.repair]}
  <2>1. /\ req[w].at = "owned" /\ UNCHANGED warranty /\ Answers(w, "ok", body)
        /\ support' = [support EXCEPT ![c.repair] = Append(@, c.user)]
    BY <1>3 DEF InsertSupportRequest
  <2>2. /\ c.route = "createSupportRequest" /\ c.repair \in Repairs /\ CustomerOf[c.repair] = c.user
        /\ c \in Calls /\ c.user \in Users
        /\ Required("createSupportRequest") \subseteq PermissionsOf(c.user)
    BY <1>0, <2>1, AccessAssumption DEF Slot, IsOwner, Admitted
  <2>3. Slot(w)' /\ Answer(w)'
    <3>1. \A b \in body : CustomerOf[b.repair] = c.user BY <2>2
    <3> QED BY <1>0, <2>1, <2>2, <3>1, HandlerAnswers DEF Admitted
  <2>4. Moves(w, Answered(c, "ok", body))
    BY <2>1 DEF Answers
  <2>5. /\ DOMAIN req' = Workers /\ req' = [v \in Workers |-> req'[v]]
        /\ \A v \in Workers : Slot(v)' /\ Answer(v)'
    BY <1>0, <2>3, <2>4, OneMoves DEF accessVars
  <2>6. Supported'
    <3>1. \A u : PermissionsOf(u)' = PermissionsOf(u)
      BY <1>0 DEF PermissionsOf, accessVars
    <3>2. DOMAIN support' = Repairs
      BY <2>1 DEF Inv, Supported
    <3>3. ASSUME NEW r \in Repairs
          PROVE  /\ support'[r] \in Seq(Users)
                 /\ \A i \in DOMAIN support'[r] :
                      /\ support'[r][i] = CustomerOf[r]
                      /\ Required("createSupportRequest") \subseteq PermissionsOf(support'[r][i])
      <4>1. /\ support[r] \in Seq(Users)
            /\ \A i \in DOMAIN support[r] :
                 /\ support[r][i] = CustomerOf[r]
                 /\ Required("createSupportRequest") \subseteq PermissionsOf(support[r][i])
        BY DEF Inv, Supported
      <4>2. CASE r # c.repair
        <5>1. support'[r] = support[r] BY <2>1, <4>2 DEF Inv, Supported
        <5> QED BY <4>1, <5>1
      <4>3. CASE r = c.repair
        <5>1. support'[r] = Append(support[r], c.user) BY <2>1, <4>3 DEF Inv, Supported
        <5>2. support'[r] \in Seq(Users) BY <2>2, <4>1, <5>1
        <5>3. ASSUME NEW i \in DOMAIN support'[r]
              PROVE  support'[r][i] = c.user \/ (i \in DOMAIN support[r] /\ support'[r][i] = support[r][i])
          BY <4>1, <5>1, <5>3, <2>2
        <5> QED BY <2>2, <4>1, <4>3, <5>2, <5>3
      <4> QED BY <4>2, <4>3
    <3> QED BY <3>1, <3>2, <3>3 DEF Supported
  <2>7. support' = [q \in Repairs |-> support'[q]]
    BY <2>1 DEF Inv, Supported
  <2> QED BY <1>1, <2>1, <2>5, <2>6, <2>7 DEF Inv
<1> QED BY <1>2, <1>3

LEMMA Step == Inv /\ [AfterNext]_vars => Inv'
<1> SUFFICES ASSUME Inv, [AfterNext]_vars PROVE Inv'
  OBVIOUS
<1>1. ASSUME accessVars' = accessVars, req' = req, warranty' = warranty, support' = support
      PROVE  Inv'
  <2>1. Tables' /\ GrantsHaveAnAuthor'
    BY <1>1 DEF Inv, Tables, AccessTypeOK, GrantsHaveAnAuthor, UsersWith, accessVars
  <2>2. \A w \in Workers : Slot(w)' /\ Answer(w)'
    BY <1>1, Grows DEF accessVars
  <2>3. Supported' /\ support' = [q \in Repairs |-> support'[q]]
    BY <1>1, SupportStays DEF accessVars
  <2> QED BY <1>1, <2>1, <2>2, <2>3 DEF Inv
<1>2. CASE Tick
  BY <1>1, <1>2 DEF Tick, accessVars
<1>3. CASE UNCHANGED vars
  BY <1>1, <1>3 DEF vars, accessVars
<1>4. CASE AccessNext /\ UNCHANGED afterVars
  BY <1>4, AccessStep, TableStep DEF AccessNext, afterVars
<1>5. CASE \E w \in Workers :
             \/ CompleteRepair(w) \/ FindAllServiceWarranty(w) \/ GetAppointment(w)
             \/ CheckSupportRequest(w) \/ InsertSupportRequest(w)
             \/ GetSupportRequestsByUser(w) \/ OrderHandler(w)
  BY <1>5, HandlerStep, RecordStep
<1> QED
  BY <1>2, <1>3, <1>4, <1>5 DEF AfterNext

LEMMA Invariance == Spec => []Inv
BY InitInv, Step, PTL DEF Spec

-----------------------------------------------------------------------------
(* Induction over a set. *)
LEMMA Induct ==
  ASSUME NEW S \in SUBSET Nat, 0 \in S, \A n \in S : n + 1 \in S
  PROVE  S = Nat
<1> DEFINE R == {p \in Nat \X Nat : p[1] < p[2]}
           B == Nat \ S
<1> SUFFICES ASSUME B # {} PROVE FALSE
  OBVIOUS
<1>1. IsWellFoundedOn(R, Nat)
  BY NatLessThanWellFounded DEF OpToRel
<1>2. B \subseteq Nat /\ \E b : b \in B
  OBVIOUS
<1>3. PICK m \in B : \A n \in B : <<n, m>> \notin R
  <2> HIDE DEF R, B
  <2> QED BY <1>1, <1>2, WFMin
<1>4. m \in Nat /\ m # 0 /\ m - 1 \in Nat /\ m - 1 < m
  BY <1>3
<1>5. m - 1 \in S
  BY <1>3, <1>4
<1>6. (m - 1) + 1 \in S
  BY <1>5
<1>7. (m - 1) + 1 = m
  BY <1>4
<1> QED BY <1>3, <1>6, <1>7

(* The calendar.  FirstOf is recursive: the equation has a solution, put    *)
(* together from its beginnings.                                            *)
LEMMA DaysOfMonth == \A m \in Nat : DaysIn(m) \in 28..31
BY DEF DaysIn

Begins(f, n) ==
  \A m \in 0..n : f[m] = IF m = 0 THEN 0 ELSE f[m - 1] + DaysIn(m - 1)

LEMMA BeginningsAgree ==
  ASSUME NEW f, NEW g, NEW n \in Nat, NEW k \in Nat, Begins(f, n), Begins(g, k)
  PROVE  \A m \in Nat : m <= n /\ m <= k => f[m] = g[m]
<1> DEFINE S == {m \in Nat : m <= n /\ m <= k => f[m] = g[m]}
<1>1. 0 \in S
  BY DEF Begins
<1>2. ASSUME NEW m \in S PROVE m + 1 \in S
  <2> SUFFICES ASSUME m + 1 <= n, m + 1 <= k PROVE f[m + 1] = g[m + 1]
    OBVIOUS
  <2>1. f[m] = g[m]
    OBVIOUS
  <2>2. m + 1 \in 0..n /\ m + 1 \in 0..k /\ m + 1 # 0 /\ (m + 1) - 1 = m
    OBVIOUS
  <2>3. f[m + 1] = f[m] + DaysIn(m) /\ g[m + 1] = g[m] + DaysIn(m)
    BY <2>2 DEF Begins
  <2> QED BY <2>1, <2>3
<1>3. S \in SUBSET Nat
  OBVIOUS
<1>4. S = Nat
  <2> HIDE DEF S
  <2> QED BY <1>1, <1>2, <1>3, Induct
<1> QED BY <1>4

LEMMA BeginningExists == \A n \in Nat : \E f : Begins(f, n)
<1> DEFINE S == {n \in Nat : \E f : Begins(f, n)}
<1>1. 0 \in S
  <2> DEFINE f == [m \in {0} |-> 0]
  <2>1. Begins(f, 0) BY DEF Begins
  <2> QED BY <2>1
<1>2. ASSUME NEW n \in S PROVE n + 1 \in S
  <2>1. PICK f : Begins(f, n)
    OBVIOUS
  <2> DEFINE g == [m \in 0..(n + 1) |-> IF m <= n THEN f[m] ELSE f[n] + DaysIn(n)]
  <2>2. ASSUME NEW m \in 0..(n + 1)
        PROVE  g[m] = IF m = 0 THEN 0 ELSE g[m - 1] + DaysIn(m - 1)
    <3>1. n \in Nat OBVIOUS
    <3>2. CASE m <= n
      <4>1. g[m] = f[m] /\ m \in 0..n BY <3>1, <3>2
      <4>2. m # 0 => g[m - 1] = f[m - 1] BY <3>1, <3>2
      <4> QED BY <2>1, <4>1, <4>2 DEF Begins
    <3>3. CASE m = n + 1
      <4>1. m # 0 /\ m - 1 = n /\ g[m] = f[n] + DaysIn(n) /\ g[n] = f[n] BY <3>1, <3>3
      <4> QED BY <4>1
    <3> QED BY <3>1, <3>2, <3>3
  <2>3. Begins(g, n + 1)
    BY <2>2 DEF Begins
  <2> QED BY <2>3
<1>3. S \in SUBSET Nat
  OBVIOUS
<1>4. S = Nat
  <2> HIDE DEF S
  <2> QED BY <1>1, <1>2, <1>3, Induct
<1> QED BY <1>4

LEMMA CalendarEquation ==
  FirstOf = [month \in Nat |-> IF month = 0 THEN 0 ELSE FirstOf[month - 1] + DaysIn(month - 1)]
<1> DEFINE Equation(f) == f = [month \in Nat |-> IF month = 0 THEN 0 ELSE f[month - 1] + DaysIn(month - 1)]
           h(n) == CHOOSE f : Begins(f, n)
           F == [n \in Nat |-> h(n)[n]]
<1>1. \A n \in Nat : Begins(h(n), n)
  BY BeginningExists
<1>2. ASSUME NEW n \in Nat
      PROVE  F[n] = IF n = 0 THEN 0 ELSE F[n - 1] + DaysIn(n - 1)
  <2>1. F[n] = h(n)[n] /\ Begins(h(n), n)
    BY <1>1
  <2>2. h(n)[n] = IF n = 0 THEN 0 ELSE h(n)[n - 1] + DaysIn(n - 1)
    <3>1. n \in 0..n OBVIOUS
    <3> HIDE DEF h
    <3> QED BY <2>1, <3>1 DEF Begins
  <2>3. n # 0 => h(n)[n - 1] = F[n - 1]
    <3> SUFFICES ASSUME n # 0 PROVE h(n)[n - 1] = F[n - 1]
      OBVIOUS
    <3>1. n - 1 \in Nat /\ n - 1 <= n
      OBVIOUS
    <3>2. Begins(h(n - 1), n - 1) /\ F[n - 1] = h(n - 1)[n - 1]
      BY <1>1, <3>1
    <3> HIDE DEF h
    <3>3. h(n)[n - 1] = h(n - 1)[n - 1]
      BY <2>1, <3>1, <3>2, BeginningsAgree
    <3> QED BY <3>2, <3>3
  <2> HIDE DEF h, F
  <2> QED BY <2>1, <2>2, <2>3
<1>3. F = [n \in Nat |-> IF n = 0 THEN 0 ELSE F[n - 1] + DaysIn(n - 1)]
  <2>1. F = [n \in Nat |-> F[n]]
    <3> HIDE DEF h
    <3> QED OBVIOUS
  <2> HIDE DEF F
  <2> QED BY <1>2, <2>1
<1>4. Equation(F)
  BY <1>3
<1>5. FirstOf = CHOOSE f : Equation(f)
  BY DEF FirstOf
<1>6. \E f : Equation(f)
  BY <1>4
<1>7. Equation(FirstOf)
  <2> HIDE DEF Equation
  <2> QED BY <1>5, <1>6
<1> QED BY <1>7

LEMMA Calendar ==
  /\ FirstOf[0] = 0
  /\ \A m \in Nat : FirstOf[m + 1] = FirstOf[m] + DaysIn(m)
<1>1. FirstOf[0] = 0
  BY CalendarEquation
<1>2. ASSUME NEW m \in Nat PROVE FirstOf[m + 1] = FirstOf[m] + DaysIn(m)
  <2>1. m + 1 \in Nat /\ m + 1 # 0 /\ (m + 1) - 1 = m
    OBVIOUS
  <2> QED BY <2>1, CalendarEquation
<1> QED BY <1>1, <1>2

(* Months have 28 to 31 days, one after the other. *)
LEMMA MonthsFollow ==
  \A m \in Nat : FirstOf[m] \in Nat /\ 28 * m <= FirstOf[m] /\ FirstOf[m] <= 31 * m
<1> DEFINE S == {m \in Nat : FirstOf[m] \in Nat /\ 28 * m <= FirstOf[m] /\ FirstOf[m] <= 31 * m}
<1>1. 0 \in S
  BY Calendar
<1>2. ASSUME NEW m \in S PROVE m + 1 \in S
  <2>1. FirstOf[m + 1] = FirstOf[m] + DaysIn(m) /\ DaysIn(m) \in 28..31
    BY Calendar, DaysOfMonth
  <2> QED BY <2>1
<1>3. S \in SUBSET Nat
  OBVIOUS
<1>4. S = Nat
  <2> HIDE DEF S
  <2> QED BY <1>1, <1>2, <1>3, Induct
<1> QED BY <1>4

LEMMA LaterMonth == \A m, k \in Nat : FirstOf[m] <= FirstOf[m + k]
<1> SUFFICES ASSUME NEW m \in Nat PROVE \A k \in Nat : FirstOf[m] <= FirstOf[m + k]
  OBVIOUS
<1> DEFINE S == {k \in Nat : FirstOf[m] <= FirstOf[m + k]}
<1>1. 0 \in S
  <2>1. m + 0 = m /\ FirstOf[m] \in Nat BY MonthsFollow
  <2> QED BY <2>1
<1>2. ASSUME NEW k \in S PROVE k + 1 \in S
  <2>1. m + k \in Nat /\ m + (k + 1) = (m + k) + 1
    OBVIOUS
  <2>2. FirstOf[(m + k) + 1] = FirstOf[m + k] + DaysIn(m + k) /\ DaysIn(m + k) \in 28..31
    BY <2>1, Calendar, DaysOfMonth
  <2>3. FirstOf[m] \in Nat /\ FirstOf[m + k] \in Nat
    BY <2>1, MonthsFollow
  <2>4. FirstOf[m] <= FirstOf[m + (k + 1)]
    <3>1. FirstOf[m] <= FirstOf[m + k] OBVIOUS
    <3> QED BY <2>1, <2>2, <2>3, <3>1
  <2> QED BY <2>4
<1>3. S \in SUBSET Nat
  OBVIOUS
<1>4. S = Nat
  <2> HIDE DEF S
  <2> QED BY <1>1, <1>2, <1>3, Induct
<1> QED BY <1>4

(* The month of a day is found, among the few MonthOf looks at. *)
LEMMA MonthFound ==
  ASSUME NEW day \in Nat
  PROVE  /\ MonthOf(day) \in Nat
         /\ FirstOf[MonthOf(day)] <= day
         /\ day < FirstOf[MonthOf(day)] + DaysIn(MonthOf(day))
<1> DEFINE S == {m \in Nat : FirstOf[m] <= day}
<1>1. \E m \in Nat : FirstOf[m] <= day /\ ~(FirstOf[m + 1] <= day)
  <2> SUFFICES ASSUME \A m \in Nat : FirstOf[m] <= day => FirstOf[m + 1] <= day PROVE FALSE
    OBVIOUS
  <2>1. 0 \in S BY Calendar
  <2>2. \A m \in S : m + 1 \in S OBVIOUS
  <2>3. S \in SUBSET Nat OBVIOUS
  <2>4. S = Nat
    <3> HIDE DEF S
    <3> QED BY <2>1, <2>2, <2>3, Induct
  <2>5. day + 1 \in Nat /\ FirstOf[day + 1] <= day BY <2>4
  <2>6. 28 * (day + 1) <= FirstOf[day + 1] /\ FirstOf[day + 1] \in Nat BY <2>5, MonthsFollow
  <2> QED BY <2>5, <2>6
<1>2. PICK m \in Nat : FirstOf[m] <= day /\ ~(FirstOf[m + 1] <= day)
  BY <1>1
<1>3. /\ FirstOf[m] \in Nat /\ 28 * m <= FirstOf[m]
      /\ FirstOf[m + 1] \in Nat /\ FirstOf[m + 1] <= 31 * (m + 1)
  <2>1. m + 1 \in Nat OBVIOUS
  <2> QED BY <2>1, MonthsFollow
<1>4. m \in (day \div 31)..(day \div 28) /\ day < FirstOf[m + 1]
  BY <1>2, <1>3
<1>5. \E n \in (day \div 31)..(day \div 28) : FirstOf[n] <= day /\ day < FirstOf[n + 1]
  BY <1>2, <1>4
<1>6. /\ MonthOf(day) \in (day \div 31)..(day \div 28)
      /\ FirstOf[MonthOf(day)] <= day /\ day < FirstOf[MonthOf(day) + 1]
  BY <1>5, Zenon DEF MonthOf
<1>7. MonthOf(day) \in Nat
  BY <1>6
<1> QED BY <1>6, <1>7, Calendar

-----------------------------------------------------------------------------
(* Warranties.  None is rewritten, so what CompleteRepair wrote is still    *)
(* there when it is shown, and the clock only went on in between.           *)

Row(f, t) == [from |-> f, end |-> 2 * CalculateEndDate(f \div 2, t) + (f % 2), terms |-> t]

Dated ==
  /\ now \in Instants
  /\ \A r \in Repairs : HasWarranty(r) =>
       \E f \in Instants, t \in Terms : f <= now /\ warranty[r] = Row(f, t)

(* The days in an answer are those of a moment since the repair.            *)
Shown(v) ==
  req[v].at = "answered" /\ req[v].call.route = "findAllServiceWarranty" =>
    \A b \in req[v].body :
      /\ b.repair \in Repairs /\ HasWarranty(b.repair)
      /\ \E at \in Instants :
           /\ warranty[b.repair].from <= at /\ at <= now
           /\ b.days = RemainingDays(warranty[b.repair].end, at)

(* A warranty does not end before it begins. *)
LEMMA EndOfWarranty ==
  ASSUME NEW f \in Nat, NEW t \in Terms
  PROVE  /\ Row(f, t).from = f /\ Row(f, t).terms = t
         /\ CalculateEndDate(f \div 2, t) \in Nat
         /\ Row(f, t).end \in Nat
         /\ Row(f, t).end \div 2 = CalculateEndDate(f \div 2, t)
         /\ f <= Row(f, t).end
<1> DEFINE d == f \div 2
           M == MonthOf(d)
           e == CalculateEndDate(d, t)
<1>1. d \in Nat /\ f % 2 \in 0..1 /\ f = 2 * d + (f % 2)
  OBVIOUS
<1>2. t.period \in Nat /\ t.unit \in {"days", "months", "years"}
  BY AfterSalesAssumption
<1>3. e \in Nat /\ d <= e
  <2>1. CASE t.unit = "days"
    <3>1. e = d + t.period BY <2>1 DEF CalculateEndDate
    <3> QED BY <1>1, <1>2, <3>1
  <2>2. ASSUME NEW k \in Nat, e = FirstOf[M + k] + (d - FirstOf[M])
        PROVE  e \in Nat /\ d <= e
    <3>1. M \in Nat /\ FirstOf[M] <= d BY <1>1, MonthFound
    <3>2. M + k \in Nat /\ FirstOf[M] <= FirstOf[M + k] BY <3>1, LaterMonth
    <3>3. FirstOf[M] \in Nat /\ FirstOf[M + k] \in Nat BY <3>1, <3>2, MonthsFollow
    <3> HIDE DEF d, M, e
    <3> QED BY <1>1, <2>2, <3>1, <3>2, <3>3
  <2>3. CASE t.unit = "months"
    <3>1. e = FirstOf[M + 1 * t.period] + (d - FirstOf[M])
      BY <2>3 DEF CalculateEndDate
    <3>2. 1 * t.period \in Nat BY <1>2
    <3> QED BY <2>2, <3>1, <3>2
  <2>4. CASE t.unit = "years"
    <3>1. e = FirstOf[M + 12 * t.period] + (d - FirstOf[M])
      BY <2>4 DEF CalculateEndDate
    <3>2. 12 * t.period \in Nat BY <1>2
    <3> QED BY <2>2, <3>1, <3>2
  <2> QED BY <1>2, <2>1, <2>3, <2>4
<1>4. Row(f, t).from = f /\ Row(f, t).terms = t /\ Row(f, t).end = 2 * e + (f % 2)
  BY DEF Row
<1> HIDE DEF e
<1>5. 2 * e + (f % 2) \in Nat /\ (2 * e + (f % 2)) \div 2 = e /\ f <= 2 * e + (f % 2)
  BY <1>1, <1>3
<1> QED BY <1>3, <1>4, <1>5 DEF e

LEMMA NowGrows ==
  ASSUME now \in Instants, [AfterNext]_vars
  PROVE  now' \in Instants /\ now <= now' /\ now \in Nat /\ now' \in Nat
<1>1. CASE Tick
  BY <1>1, AfterSalesAssumption DEF Tick
<1>2. CASE now' = now
  BY <1>2, AfterSalesAssumption
<1> QED
  BY <1>1, <1>2 DEF AfterNext, AccessNext, afterVars, vars, CompleteRepair, FindAllServiceWarranty,
         GetAppointment, CheckSupportRequest, InsertSupportRequest, GetSupportRequestsByUser,
         OrderHandler

(* Only a repair without a warranty gets one. *)
LEMMA WarrantiesStay ==
  ASSUME Inv, [AfterNext]_vars
  PROVE  /\ \A r \in Repairs : HasWarranty(r) => warranty'[r] = warranty[r] /\ HasWarranty(r)'
         /\ \A r \in Repairs : warranty'[r] = warranty[r]
                               \/ \E t \in Terms : warranty'[r] = Row(now, t) /\ now' = now
<1>1. CASE UNCHANGED warranty
  BY <1>1 DEF HasWarranty
<1>2. ASSUME NEW w \in Workers, CompleteRepair(w), warranty' # warranty
      PROVE  /\ \A r \in Repairs : HasWarranty(r) => warranty'[r] = warranty[r]
             /\ \A r \in Repairs : warranty'[r] = warranty[r]
                                   \/ \E t \in Terms : warranty'[r] = Row(now, t) /\ now' = now
  <2>1. /\ now' = now /\ ~HasWarranty(req[w].call.repair)
        /\ \E t \in Terms : warranty' = [warranty EXCEPT ![req[w].call.repair] = Row(now, t)]
    BY <1>2 DEF CompleteRepair, IsTaken, Row
  <2>2. PICK t \in Terms : warranty' = [warranty EXCEPT ![req[w].call.repair] = Row(now, t)]
    BY <2>1
  <2>3. \A r \in Repairs : warranty'[r] = IF r = req[w].call.repair THEN Row(now, t) ELSE warranty[r]
    BY <2>2 DEF Inv
  <2> QED BY <2>1, <2>3
<1>3. UNCHANGED warranty \/ \E w \in Workers : CompleteRepair(w) /\ warranty' # warranty
  BY DEF AfterNext, Tick, AccessNext, afterVars, vars, FindAllServiceWarranty,
         GetAppointment, CheckSupportRequest, InsertSupportRequest, GetSupportRequestsByUser,
         OrderHandler
<1>4. /\ \A r \in Repairs : HasWarranty(r) => warranty'[r] = warranty[r]
      /\ \A r \in Repairs : warranty'[r] = warranty[r]
                            \/ \E t \in Terms : warranty'[r] = Row(now, t) /\ now' = now
  BY <1>1, <1>2, <1>3
<1> QED BY <1>4 DEF HasWarranty

LEMMA DatedStep == Inv /\ Dated /\ [AfterNext]_vars => Dated'
<1> SUFFICES ASSUME Inv, Dated, [AfterNext]_vars PROVE Dated'
  OBVIOUS
<1>1. now' \in Instants /\ now <= now' /\ now \in Nat /\ now' \in Nat
  BY NowGrows DEF Dated
<1>2. ASSUME NEW r \in Repairs, HasWarranty(r)'
      PROVE  \E f \in Instants, t \in Terms : f <= now' /\ warranty'[r] = Row(f, t)
  <2>1. CASE warranty'[r] = warranty[r]
    <3>1. HasWarranty(r) BY <1>2, <2>1 DEF HasWarranty
    <3>2. PICK f \in Instants, t \in Terms : f <= now /\ warranty[r] = Row(f, t)
      BY <3>1 DEF Dated
    <3>3. f <= now' BY <1>1, <3>2, AfterSalesAssumption
    <3> QED BY <2>1, <3>2, <3>3
  <2>2. ASSUME NEW t \in Terms, warranty'[r] = Row(now, t), now' = now
        PROVE  \E f \in Instants, u \in Terms : f <= now' /\ warranty'[r] = Row(f, u)
    BY <1>1, <2>2
  <2> QED BY <2>1, <2>2, WarrantiesStay
<1>3. ASSUME NEW r \in Repairs, HasWarranty(r)'
      PROVE  (\E f \in Instants, t \in Terms : f <= now /\ warranty[r] = Row(f, t))'
  BY <1>2, <1>3 DEF Row, CalculateEndDate
<1> QED BY <1>1, <1>3 DEF Dated

LEMMA ShownStep ==
  ASSUME Inv, Dated, \A v \in Workers : Shown(v), [AfterNext]_vars
  PROVE  \A v \in Workers : Shown(v)'
<1>1. now' \in Instants /\ now <= now' /\ now \in Nat /\ now' \in Nat
  BY NowGrows DEF Dated
<1>2. ASSUME NEW v \in Workers, req'[v] = req[v]
      PROVE  Shown(v)'
  <2> SUFFICES ASSUME req[v].at = "answered", req[v].call.route = "findAllServiceWarranty",
                      NEW b \in req[v].body
               PROVE  /\ b.repair \in Repairs /\ HasWarranty(b.repair)'
                      /\ \E at \in Instants :
                           /\ warranty'[b.repair].from <= at /\ at <= now'
                           /\ b.days = RemainingDays(warranty'[b.repair].end, at)
    BY <1>2 DEF Shown, RemainingDays
  <2>1. b.repair \in Repairs /\ HasWarranty(b.repair)
    BY DEF Shown
  <2>2. PICK at \in Instants : /\ warranty[b.repair].from <= at /\ at <= now
                               /\ b.days = RemainingDays(warranty[b.repair].end, at)
    BY DEF Shown
  <2>3. warranty'[b.repair] = warranty[b.repair] /\ HasWarranty(b.repair)'
    BY <2>1, WarrantiesStay
  <2>4. at <= now'
    BY <1>1, <2>2, AfterSalesAssumption
  <2> QED BY <2>1, <2>2, <2>3, <2>4
<1>3. ASSUME NEW w \in Workers, NEW r, Moves(w, r),
             r.at = "answered" => r.call.route # "findAllServiceWarranty"
      PROVE  \A v \in Workers : Shown(v)'
  <2>1. Shown(w)'
    <3>1. req'[w] = r BY <1>3, Moved
    <3> QED BY <1>3, <3>1 DEF Shown
  <2>2. \A v \in Workers : v # w => req'[v] = req[v]
    BY <1>3 DEF Moves, Inv
  <2> QED BY <1>2, <2>1, <2>2
<1>4. ASSUME NEW w \in Workers, FindAllServiceWarranty(w)
      PROVE  \A v \in Workers : Shown(v)'
  <2> DEFINE c == req[w].call
             mine == {r \in Repairs : CustomerOf[r] = c.user /\ HasWarranty(r)}
             body == {[repair |-> r, days |-> RemainingDays(warranty[r].end, now)] : r \in mine}
  <2>1. Moves(w, Answered(c, "ok", body)) /\ UNCHANGED <<now, warranty>>
    BY <1>4 DEF FindAllServiceWarranty, Answers
  <2>2. req'[w].body = body
    BY <2>1, Moved DEF Answered
  <2>3. ASSUME NEW b \in body
        PROVE  /\ b.repair \in Repairs /\ HasWarranty(b.repair)
               /\ warranty[b.repair].from <= now
               /\ b.days = RemainingDays(warranty[b.repair].end, now)
    <3>1. PICK r \in mine : b = [repair |-> r, days |-> RemainingDays(warranty[r].end, now)]
      OBVIOUS
    <3>2. b.repair = r /\ b.days = RemainingDays(warranty[r].end, now) /\ r \in Repairs /\ HasWarranty(r)
      BY <3>1
    <3>3. PICK f \in Instants, t \in Terms : f <= now /\ warranty[r] = Row(f, t)
      BY <3>2 DEF Dated
    <3>4. warranty[r].from = f
      BY <3>3 DEF Row
    <3> QED BY <3>2, <3>3, <3>4
  <2> HIDE DEF body
  <2>4. Shown(w)'
    <3>1. \A b \in body : /\ b.repair \in Repairs /\ HasWarranty(b.repair)'
                          /\ warranty'[b.repair].from <= now'
                          /\ b.days = RemainingDays(warranty'[b.repair].end, now')
      BY <2>1, <2>3 DEF HasWarranty
    <3>2. now' <= now' BY <1>1
    <3> QED BY <1>1, <2>2, <3>1, <3>2 DEF Shown, RemainingDays
  <2>5. \A v \in Workers : v # w => req'[v] = req[v]
    BY <2>1 DEF Moves, Inv
  <2> QED BY <1>2, <2>4, <2>5
<1>5. ASSUME NEW w \in Workers,
             \/ CompleteRepair(w) \/ GetAppointment(w) \/ CheckSupportRequest(w)
             \/ InsertSupportRequest(w) \/ GetSupportRequestsByUser(w) \/ OrderHandler(w)
             \/ CreateRole(w) \/ CreatePermission(w) \/ GetRolePermissions(w) \/ FindRole(w)
             \/ FindPermissions(w) \/ ReadBack(w)
      PROVE  \E r : Moves(w, r) /\ (r.at = "answered" => r.call.route # "findAllServiceWarranty")
  <2>1. req[w].call.route # "findAllServiceWarranty"
    <3>1. Slot(w) BY DEF Inv
    <3> QED BY <1>5, <3>1 DEF Slot, CompleteRepair, GetAppointment, CheckSupportRequest, InsertSupportRequest,
           GetSupportRequestsByUser, OrderHandler, CreateRole, CreatePermission,
           GetRolePermissions, FindRole, FindPermissions, ReadBack, Handles
  <2>2. \/ \E status, body : Answers(w, status, body)
        \/ \E step : Moves(w, At(step, req[w].call))
    BY <1>5 DEF CompleteRepair, GetAppointment, CheckSupportRequest, InsertSupportRequest,
           GetSupportRequestsByUser, OrderHandler, CreateRole, CreatePermission,
           GetRolePermissions, FindRole, FindPermissions, ReadBack
  <2>3. ASSUME NEW status, NEW body, Answers(w, status, body)
        PROVE  \E r : Moves(w, r) /\ r.call = req[w].call
    BY <2>3 DEF Answers, Answered
  <2>4. ASSUME NEW step, Moves(w, At(step, req[w].call))
        PROVE  \E r : Moves(w, r) /\ r.call = req[w].call
    BY <2>4 DEF At
  <2> QED BY <2>1, <2>2, <2>3, <2>4
<1>6. ASSUME NEW w \in Workers,
             (\E c \in Calls : Arrive(w, c)) \/ AccessGuard(w) \/ CreateGrants(w) \/ Leave(w)
      PROVE  \E r : Moves(w, r) /\ (r.at = "answered" => r.call.route # "findAllServiceWarranty")
  <2>1. \/ \E c : Moves(w, At("guard", c))
        \/ \E c : Moves(w, At("handler", c))
        \/ \E c : Moves(w, At("denied", c))
        \/ \E c : Moves(w, At("written", c))
        \/ Moves(w, Idle)
    BY <1>6 DEF Arrive, AccessGuard, CreateGrants, Leave
  <2>2. ASSUME NEW r, Moves(w, r), r.at # "answered"
        PROVE  \E q : Moves(w, q) /\ (q.at = "answered" => q.call.route # "findAllServiceWarranty")
    BY <2>2
  <2>3. /\ \A c : /\ At("guard", c).at # "answered" /\ At("handler", c).at # "answered"
               /\ At("denied", c).at # "answered" /\ At("written", c).at # "answered"
        /\ Idle.at # "answered"
    BY DEF At, Idle
  <2> QED BY <2>1, <2>2, <2>3
<1>7. CASE UNCHANGED req
  BY <1>2, <1>7
<1>8. \/ UNCHANGED req
      \/ \E w \in Workers :
           \/ FindAllServiceWarranty(w) \/ CompleteRepair(w) \/ GetAppointment(w)
           \/ CheckSupportRequest(w) \/ InsertSupportRequest(w) \/ GetSupportRequestsByUser(w)
           \/ OrderHandler(w) \/ CreateRole(w) \/ CreatePermission(w) \/ GetRolePermissions(w)
           \/ FindRole(w) \/ FindPermissions(w) \/ ReadBack(w)
           \/ (\E c \in Calls : Arrive(w, c)) \/ AccessGuard(w) \/ CreateGrants(w) \/ Leave(w)
  BY DEF AfterNext, AccessNext, Tick, vars
<1> QED BY <1>3, <1>4, <1>5, <1>6, <1>7, <1>8

LEMMA WarrantyInvariance == Spec => [](Inv /\ Dated /\ \A v \in Workers : Shown(v))
<1>1. AfterInit => Dated
  BY DEF AfterInit, Dated, HasWarranty, NoWarranty
<1>2. AfterInit => \A v \in Workers : Shown(v)
  BY DEF AfterInit, AccessInit, Shown, Idle
<1>3. Inv /\ Dated /\ (\A v \in Workers : Shown(v)) /\ [AfterNext]_vars
        => (\A v \in Workers : Shown(v))'
  BY ShownStep
<1> QED BY <1>1, <1>2, <1>3, InitInv, Step, DatedStep, PTL DEF Spec

-----------------------------------------------------------------------------
(* Every table, clock and request keeps its type.                           *)
THEOREM TypesKept == Spec => []TypeOK
<1>1. Inv /\ Dated => TypeOK
  <2> SUFFICES ASSUME Inv, Dated PROVE TypeOK
    OBVIOUS
  <2>1. support \in [Repairs -> Seq(Users)]
    BY DEF Inv, Supported
  <2>2. ASSUME NEW r \in Repairs, HasWarranty(r)
        PROVE  warranty[r].from \in Instants /\ warranty[r].terms \in Terms
    <3>1. PICK f \in Instants, t \in Terms : f <= now /\ warranty[r] = Row(f, t)
      BY <2>2 DEF Dated
    <3>2. Row(f, t).from = f /\ Row(f, t).terms = t
      BY DEF Row
    <3> QED BY <3>1, <3>2
  <2> QED BY <2>1, <2>2 DEF Inv, Dated, Tables, Slot, TypeOK
<1> QED BY <1>1, WarrantyInvariance, PTL

(* Whatever the month and the terms: a warranty of months or years ends on  *)
(* the promised day or, when the month is too short, at most three days     *)
(* after its last.                                                          *)
THEOREM WarrantiesLast == Spec => []LastsAsPromised
<1>1. Dated => LastsAsPromised
  <2> SUFFICES ASSUME Dated, NEW r \in Repairs, HasWarranty(r), warranty[r].terms.unit # "days"
               PROVE  LET t == warranty[r].terms
                          start == warranty[r].from \div 2
                          month == MonthOf(start) + (IF t.unit = "years" THEN 12 * t.period ELSE t.period)
                          day == start - FirstOf[MonthOf(start)]
                          last == DaysIn(month) - 1
                          nominal == FirstOf[month] + (IF day > last THEN last ELSE day)
                      IN (warranty[r].end \div 2) - nominal \in 0..3
    BY DEF LastsAsPromised
  <2>1. PICK f \in Instants, t \in Terms : f <= now /\ warranty[r] = Row(f, t)
    BY DEF Dated
  <2>2. f \in Nat BY AfterSalesAssumption
  <2> DEFINE start == f \div 2
             M == MonthOf(start)
             k == IF t.unit = "years" THEN 12 * t.period ELSE t.period
             day == start - FirstOf[M]
             last == DaysIn(M + k) - 1
             nominal == FirstOf[M + k] + (IF day > last THEN last ELSE day)
  <2>3. warranty[r].from = f /\ warranty[r].terms = t
        /\ warranty[r].end \div 2 = CalculateEndDate(start, t)
    BY <2>1, <2>2, EndOfWarranty
  <2>4. t.period \in Nat /\ t.unit \in {"months", "years"}
    BY <2>3, AfterSalesAssumption
  <2>5. k \in Nat
    BY <2>4
  <2>6. CalculateEndDate(start, t) = FirstOf[M + k] + day
    <3>1. CASE t.unit = "years"
      BY <3>1 DEF CalculateEndDate
    <3>2. CASE t.unit = "months"
      <4>1. 1 * t.period = t.period BY <2>4
      <4> QED BY <3>2, <4>1 DEF CalculateEndDate
    <3> QED BY <2>4, <3>1, <3>2
  <2>7. start \in Nat
    BY <2>2
  <2>8. M \in Nat /\ FirstOf[M] <= start /\ start < FirstOf[M] + DaysIn(M)
    BY <2>7, MonthFound
  <2>9. M + k \in Nat
    BY <2>5, <2>8
  <2>10. FirstOf[M] \in Nat /\ FirstOf[M + k] \in Nat /\ DaysIn(M) \in 28..31 /\ DaysIn(M + k) \in 28..31
    BY <2>8, <2>9, MonthsFollow, DaysOfMonth
  <2>11. (FirstOf[M + k] + day) - nominal \in 0..3
    <3> HIDE DEF start, M, k
    <3> QED BY <2>7, <2>8, <2>10
  <2>12. CalculateEndDate(start, t) - nominal \in 0..3
    <3> HIDE DEF start, M, k, day, nominal
    <3> QED BY <2>6, <2>11
  <2>13. (warranty[r].end \div 2) - nominal \in 0..3
    <3> HIDE DEF start, M, k, day, nominal
    <3> QED BY <2>3, <2>12
  <2> QED BY <2>3, <2>13, Zenon
<1> QED BY <1>1, WarrantyInvariance, PTL

(* The days a customer was shown stay between what is left and what there   *)
(* was, however long ago he asked.                                          *)
THEOREM ShownDaysHold == Spec => []DaysShownHold
<1>1. Dated /\ (\A v \in Workers : Shown(v)) => DaysShownHold
  <2> SUFFICES ASSUME Dated, NEW w \in Workers, Shown(w), req[w].at = "answered",
                      req[w].call.route = "findAllServiceWarranty", NEW b \in req[w].body
               PROVE  /\ RemainingDays(warranty[b.repair].end, now) <= b.days
                      /\ 2 * b.days <= warranty[b.repair].end - warranty[b.repair].from
                      /\ b.days = 0 => warranty[b.repair].end - now < 2
    BY DEF DaysShownHold
  <2>1. b.repair \in Repairs /\ HasWarranty(b.repair)
    BY DEF Shown
  <2>2. PICK at \in Instants : /\ warranty[b.repair].from <= at /\ at <= now
                               /\ b.days = RemainingDays(warranty[b.repair].end, at)
    BY DEF Shown
  <2>3. PICK f \in Instants, t \in Terms : f <= now /\ warranty[b.repair] = Row(f, t)
    BY <2>1 DEF Dated
  <2>4. f \in Nat /\ at \in Nat /\ now \in Nat
    BY AfterSalesAssumption DEF Dated
  <2>5. /\ warranty[b.repair].from = f
        /\ warranty[b.repair].end \in Nat /\ f <= warranty[b.repair].end
    BY <2>3, <2>4, EndOfWarranty
  <2>6. ASSUME NEW e \in Nat, f <= e, b.days = RemainingDays(e, at), f <= at
        PROVE  /\ RemainingDays(e, now) <= b.days
               /\ 2 * b.days <= e - f
               /\ b.days = 0 => e - now < 2
    BY <2>2, <2>4, <2>6 DEF RemainingDays
  <2> QED BY <2>2, <2>5, <2>6
<1> QED BY <1>1, WarrantyInvariance, PTL

(* The guard looks once and stays right until the client has its answer,    *)
(* for every set of routes, users and overlapping changes of the roles.     *)
THEOREM GuardStaysSound == Spec => []GuardIsSound
<1>1. Inv => GuardIsSound
  BY DEF Inv, Slot, GuardIsSound, Admitted
<1> QED BY <1>1, Invariance, PTL

(* Without somebody who may change roles in the beginning nothing is ever   *)
(* granted.                                                                 *)
THEOREM NobodyGrantsHimself == Spec => []GrantsHaveAnAuthor
<1>1. Inv => GrantsHaveAnAuthor
  BY DEF Inv
<1> QED BY <1>1, Invariance, PTL

(* Grants link existing rows, and a list is granted whole or not at all.    *)
THEOREM GrantsStayWhole == Spec => []GrantsAreWhole
<1>1. Inv => GrantsAreWhole
  BY DEF Inv, Slot, Answer, Tables, GrantsAreWhole
<1> QED BY <1>1, Invariance, PTL

(* The permissions a role was shown to have it keeps.                       *)
THEOREM ShownIsKept == Spec => []ShownStaysGranted
<1>1. Inv => ShownStaysGranted
  BY DEF Inv, Answer, ShownStaysGranted
<1> QED BY <1>1, Invariance, PTL

(* Requests for support, and what is shown of a repair, are its customer's. *)
THEOREM RecordsStayOwn == Spec => []RecordsAreOwn
<1>1. Inv => RecordsAreOwn
  BY DEF Inv, Answer, Supported, RecordsAreOwn
<1> QED BY <1>1, Invariance, PTL

(* No step rewrites a warranty or loses a request for support.              *)
THEOREM RecordsAreKept == Spec => RecordsStay
<1> DEFINE Kept == \A r \in Repairs :
                     /\ HasWarranty(r) => warranty'[r] = warranty[r]
                     /\ Len(support'[r]) >= Len(support[r])
<1>1. Inv /\ [AfterNext]_vars => [Kept]_vars
  <2> SUFFICES ASSUME Inv, AfterNext, NEW r \in Repairs
               PROVE  /\ HasWarranty(r) => warranty'[r] = warranty[r]
                      /\ Len(support'[r]) >= Len(support[r])
    OBVIOUS
  <2>1. support[r] \in Seq(Users) /\ Len(support[r]) \in Nat
    BY DEF Inv, Supported
  <2>2. CASE UNCHANGED <<warranty, support>>
    BY <2>1, <2>2
  <2>3. ASSUME NEW w \in Workers, CompleteRepair(w)
        PROVE  support' = support /\ (HasWarranty(r) => warranty'[r] = warranty[r])
    BY <2>3, WarrantiesStay DEF CompleteRepair
  <2>4. ASSUME NEW w \in Workers, InsertSupportRequest(w)
        PROVE  warranty' = warranty /\ Len(support'[r]) >= Len(support[r])
    <3>1. /\ warranty' = warranty
          /\ support' = [support EXCEPT ![req[w].call.repair] = Append(@, req[w].call.user)]
      BY <2>4 DEF InsertSupportRequest
    <3>2. support'[r] = support[r] \/ support'[r] = Append(support[r], req[w].call.user)
      BY <3>1 DEF Inv, Supported
    <3>3. Len(Append(support[r], req[w].call.user)) = Len(support[r]) + 1
      BY <2>1
    <3> QED BY <2>1, <3>1, <3>2, <3>3
  <2>5. \/ UNCHANGED <<warranty, support>>
        \/ \E w \in Workers : CompleteRepair(w) \/ InsertSupportRequest(w)
    BY DEF AfterNext, Tick, AccessNext, afterVars, FindAllServiceWarranty, GetAppointment,
           CheckSupportRequest, GetSupportRequestsByUser, OrderHandler
  <2>6. CASE \E w \in Workers : CompleteRepair(w)
    BY <2>1, <2>3, <2>6
  <2>7. CASE \E w \in Workers : InsertSupportRequest(w)
    BY <2>4, <2>7
  <2> QED BY <2>2, <2>5, <2>6, <2>7
<1> QED BY <1>1, Invariance, PTL DEF Spec, RecordsStay
=============================================================================
