------------------------------- MODULE Access -------------------------------
(***************************************************************************)
(* Who may call what: the tables of roles and permissions, AccessGuard,     *)
(* which reads them once before a handler starts, and the handlers that     *)
(* extend them while other requests are under way.                          *)
(*                                                                         *)
(* Names are unique, and no handler renames or removes a role or a          *)
(* permission: a row stands for its name.  No handler writes UserRole, so   *)
(* who has which role is a constant.  JwtAuthGuard answers a request        *)
(* without a token before anything is read; the requests here have one.     *)
(***************************************************************************)
EXTENDS Naturals, Sequences, FiniteSets

CONSTANTS
  Workers,             \* slots for requests under way
  Users,
  RoleNames,           \* every name a role may get
  PermissionNames,     \* every name a permission may get
  RolesOf,             \* UserRole: the roles of each user
  InitialRoles,        \* the tables as the administrator filled them
  InitialPermissions,
  InitialGrants,       \* ways he may have filled RolePermission
  Calls                \* what clients send: a user, a route, its arguments

VARIABLES
  roles,        \* Role: the names in the table
  permissions,  \* Permission: the names in the table
  granted,      \* RolePermission: <<role, permission>>
  first,        \* RolePermission as it was in the beginning
  req           \* the request of each slot

accessVars == <<roles, permissions, granted, first>>

(* The names the decorators use, as <<verb, subject>>. *)
Permission ==
  {"Create", "Update", "Delete", "View"}
  \X {"Role", "Permission", "User", "Notification", "Technicians", "UserAddress",
      "ServiceOrder", "ServiceOrderDetail", "Appointment", "RepairImage",
      "SupportRequests", "Branch", "ServiceCategory", "Services",
      "SparePartCategory", "SparePart", "Task", "Review", "Devices",
      "UserNotification", "ServiceWarranty"}

(* The decorators of the routes, one pair for each permission a route names. *)
RolesRoutes ==
  {<<"createRole", <<"Create", "Role">>>>, <<"findAllRoles", <<"View", "Role">>>>,
   <<"addPermissions", <<"Update", "Role">>>>, <<"getRolePermissions", <<"View", "Role">>>>}

PermissionsRoutes ==
  {<<"createPermission", <<"Create", "Permission">>>>,
   <<"findAllPermissions", <<"View", "Permission">>>>}

CustomerAppointmentsRoutes ==
  {<<"getAppointmentStatus", <<"View", "Appointment">>>>,
   <<"getAppointmentHistory", <<"View", "Appointment">>>>,
   <<"createSupportRequest", <<"Create", "SupportRequests">>>>,
   <<"getSupportRequestsByUser", <<"View", "SupportRequests">>>>}
  \cup {"customerConfirm", "customerCancel", "customerUpdate"}
       \X {<<"Update", "Appointment">>, <<"Update", "ServiceOrderDetail">>}
  \cup {<<"customerUpdate", <<"Update", "ServiceOrder">>>>}

TechnicianAppointmentsRoutes ==
  {<<"updateAppointmentStatus", <<"Update", "Appointment">>>>,
   <<"completeRepair", <<"Update", "Appointment">>>>,
   <<"addSpareParts", <<"Update", "Appointment">>>>,
   <<"addSpareParts", <<"Update", "ServiceOrderDetail">>>>}

WarrantyRoutes == {<<"findAllServiceWarranty", <<"View", "ServiceWarranty">>>>}

Routes == RolesRoutes \cup PermissionsRoutes \cup CustomerAppointmentsRoutes
          \cup TechnicianAppointmentsRoutes \cup WarrantyRoutes

RouteNames == {r[1] : r \in Routes}

Required(route) == {r[2] : r \in {s \in Routes : s[1] = route}}

ASSUME AccessAssumption ==
  /\ RolesOf \in [Users -> SUBSET RoleNames]
  /\ InitialRoles \subseteq RoleNames
  /\ InitialPermissions \subseteq PermissionNames
  /\ InitialGrants \subseteq SUBSET (InitialRoles \X InitialPermissions)
  /\ \A c \in Calls :
       /\ c.user \in Users /\ c.route \in RouteNames
       /\ c.route = "createRole" => c.name \in RoleNames
       /\ c.route = "createPermission" => c.name \in PermissionNames
       /\ c.route = "addPermissions" => c.list \in Seq(PermissionNames)

-----------------------------------------------------------------------------
(* Requests.  "guard": before AccessGuard; "denied": refused by it;         *)
(* "answered": the handler is done, with a status and what it shows.        *)

Idle == [at |-> "idle"]
At(step, c) == [at |-> step, call |-> c]
Answered(c, status, body) == [at |-> "answered", call |-> c, status |-> status, body |-> body]

Admitted == {"handler", "found", "checked", "written", "owned", "answered"}

Handles(w, route) == req[w].at = "handler" /\ req[w].call.route = route
Moves(w, r) == req' = [req EXCEPT ![w] = r]
Answers(w, status, body) == Moves(w, Answered(req[w].call, status, body))

AccessInit ==
  /\ roles = InitialRoles
  /\ permissions = InitialPermissions
  /\ granted \in InitialGrants
  /\ first = granted
  /\ req = [w \in Workers |-> Idle]

-----------------------------------------------------------------------------
(* Faulty variants of the guard and of addPermissions: one permission is    *)
(* enough, nobody asks for the permission, the count is taken without the   *)
(* names found.                                                             *)

HasAny(required, held) == required \cap held # {}
HasNoneMissing(required, held) == TRUE
FindsAny(list) == Len(list) > 0

(* getUserRoles, getPermissionsForRoles: what the roles of a user are       *)
(* granted now.                                                             *)
PermissionsOf(u) == {g[2] : g \in {h \in granted : h[1] \in RolesOf[u]}}

(* requiredPermissions.every(...) *)
HasAll(required, held) == required \subseteq held

Arrive(w, c) ==
  /\ req[w] = Idle
  /\ Moves(w, At("guard", c))
  /\ UNCHANGED accessVars

AccessGuard(w) ==
  /\ req[w].at = "guard"
  /\ LET c == req[w].call
     IN Moves(w, At(IF HasAll(Required(c.route), PermissionsOf(c.user)) THEN "handler"
                                                                        ELSE "denied", c))
  /\ UNCHANGED accessVars

-----------------------------------------------------------------------------
(* RolesService and PermissionsService. *)

(* create: the unique index refuses a name that is taken. *)
CreateRole(w) ==
  /\ Handles(w, "createRole")
  /\ LET name == req[w].call.name
     IN /\ roles' = roles \cup {name}
        /\ Answers(w, IF name \in roles THEN "failed" ELSE "ok", {})
  /\ UNCHANGED <<permissions, granted, first>>

CreatePermission(w) ==
  /\ Handles(w, "createPermission")
  /\ LET name == req[w].call.name
     IN /\ permissions' = permissions \cup {name}
        /\ Answers(w, IF name \in permissions THEN "failed" ELSE "ok", {})
  /\ UNCHANGED <<roles, granted, first>>

GrantedTo(role) == {g[2] : g \in {h \in granted : h[1] = role}}

GetRolePermissions(w) ==
  /\ Handles(w, "getRolePermissions")
  /\ LET role == req[w].call.role
     IN IF role \in roles THEN Answers(w, "ok", GrantedTo(role)) ELSE Answers(w, "missing", {})
  /\ UNCHANGED accessVars

(* addPermissions, statement by statement. *)
FindRole(w) ==
  /\ Handles(w, "addPermissions")
  /\ LET c == req[w].call
     IN IF c.role \in roles THEN Moves(w, At("found", c)) ELSE Answers(w, "missing", {})
  /\ UNCHANGED accessVars

(* existingPermissions.length = permissionIds.length *)
FindsAll(list) ==
  Cardinality({p \in permissions : \E i \in DOMAIN list : list[i] = p}) = Len(list)

FindPermissions(w) ==
  /\ req[w].at = "found"
  /\ LET c == req[w].call
     IN IF FindsAll(c.list) THEN Moves(w, At("checked", c)) ELSE Answers(w, "missing", {})
  /\ UNCHANGED accessVars

(* createMany with skipDuplicates *)
WithGrants(role, list) == granted \cup {<<role, list[i]>> : i \in DOMAIN list}

CreateGrants(w) ==
  /\ req[w].at = "checked"
  /\ LET c == req[w].call
     IN /\ granted' = WithGrants(c.role, c.list)
        /\ Moves(w, At("written", c))
  /\ UNCHANGED <<roles, permissions, first>>

ReadBack(w) ==
  /\ req[w].at = "written"
  /\ Answers(w, "ok", GrantedTo(req[w].call.role))
  /\ UNCHANGED accessVars

(* The client has its answer, or the process or its connection died. *)
Leave(w) ==
  /\ req[w].at # "idle"
  /\ Moves(w, Idle)
  /\ UNCHANGED accessVars

AccessNext ==
  \E w \in Workers :
    \/ \E c \in Calls : Arrive(w, c)
    \/ AccessGuard(w)
    \/ CreateRole(w)
    \/ CreatePermission(w)
    \/ GetRolePermissions(w)
    \/ FindRole(w)
    \/ FindPermissions(w)
    \/ CreateGrants(w)
    \/ ReadBack(w)
    \/ Leave(w)

-----------------------------------------------------------------------------
(* Properties. *)

AccessTypeOK ==
  /\ roles \in SUBSET RoleNames
  /\ permissions \in SUBSET PermissionNames
  /\ granted \in SUBSET (RoleNames \X PermissionNames)
  /\ first \in InitialGrants

(* While a handler runs, and until its client has the answer, its user      *)
(* holds every permission its route names: the guard (access.guard.ts:36)   *)
(* looked once, and nothing that happens since takes a permission away.     *)
GuardIsSound ==
  \A w \in Workers :
    req[w].at \in Admitted => Required(req[w].call.route) \subseteq PermissionsOf(req[w].call.user)

(* The grants are those of the administrator as long as nobody was given    *)
(* the right to change roles in the beginning: no sequence of calls of      *)
(* createRole, createPermission and addPermissions, however they overlap,   *)
(* lets a first user grant something.                                       *)
UsersWith(permission) ==
  {u \in Users : \E r \in RolesOf[u] : <<r, permission>> \in first}

GrantsHaveAnAuthor ==
  /\ UsersWith(<<"Update", "Role">>) = {} => granted = first
  /\ UsersWith(<<"Create", "Role">>) = {} /\ UsersWith(<<"Update", "Role">>) = {}
       => roles = InitialRoles

(* Only rows of the tables are linked, and a list that names a permission   *)
(* which does not exist, or one twice, is refused as a whole: what a        *)
(* request that passed the check is about to insert breaks no foreign key   *)
(* and comes back complete (roles.service.ts:72, :79, :87).                 *)
GrantsAreWhole ==
  /\ granted \subseteq roles \X permissions
  /\ \A w \in Workers :
       /\ req[w].at = "checked" =>
            /\ req[w].call.role \in roles
            /\ \A i \in DOMAIN req[w].call.list : req[w].call.list[i] \in permissions
            /\ \A i, j \in DOMAIN req[w].call.list :
                 req[w].call.list[i] = req[w].call.list[j] => i = j
       /\ req[w].at = "answered" /\ req[w].call.route = "addPermissions" /\ req[w].status = "ok" =>
            \A i \in DOMAIN req[w].call.list : req[w].call.list[i] \in req[w].body

(* What the permissions of a role were shown to be stays true while the     *)
(* client looks at it, whatever others add to the role meanwhile.           *)
ShownStaysGranted ==
  \A w \in Workers :
    /\ req[w].at = "answered"
    /\ req[w].status = "ok"
    /\ req[w].call.route \in {"addPermissions", "getRolePermissions"}
    => req[w].body \subseteq GrantedTo(req[w].call.role)
=============================================================================
