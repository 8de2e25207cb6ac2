---------------------------- MODULE MCAfterSales ----------------------------
(* An administrator, a technician and two customers around one repair, with  *)
(* the end of two months in between.                                         *)
EXTENDS AfterSales, TLC

CONSTANTS admin, technician, customer, other, w1, w2, repair

MCUsers == {admin, technician, customer, other}
MCRoleNames == {"admin", "technician", "customer", "helper"}
Extra == <<"Export", "ServiceOrder">>
MCPermissionNames == Permission \cup {Extra}

MCRolesOf == [u \in MCUsers |->
  CASE u = admin -> {"admin"}
    [] u = technician -> {"technician"}
    [] OTHER -> {"customer"}]

Given == {"customer"} \X {<<"View", "ServiceWarranty">>, <<"View", "Appointment">>, <<"Update", "Appointment">>}
         \cup {<<"technician", <<"Update", "Appointment">>>>}

MCInitialGrants ==
  {Given, Given \cup {"admin"} \X {<<"Create", "Permission">>, <<"Create", "Role">>, <<"Update", "Role">>,
                                   <<"View", "Role">>}}

Support == {<<"Create", "SupportRequests">>, <<"View", "SupportRequests">>}

MCInitialPermissions ==
  Support \cup {<<"View", "ServiceWarranty">>, <<"View", "Appointment">>, <<"Update", "Appointment">>,
                <<"Create", "Permission">>, <<"Create", "Role">>, <<"Update", "Role">>, <<"View", "Role">>}

MCCalls ==
  {[user |-> admin, route |-> "createPermission", name |-> Extra],
   [user |-> admin, route |-> "createRole", name |-> "helper"],
   [user |-> admin, route |-> "addPermissions", role |-> "customer",
    list |-> <<<<"Create", "SupportRequests">>, <<"View", "SupportRequests">>>>],
   [user |-> admin, route |-> "addPermissions", role |-> "helper", list |-> <<Extra, Extra>>],
   [user |-> admin, route |-> "addPermissions", role |-> "helper", list |-> <<Extra>>],
   [user |-> admin, route |-> "getRolePermissions", role |-> "customer"],
   [user |-> technician, route |-> "completeRepair", repair |-> repair, images |-> 1],
   [user |-> technician, route |-> "updateAppointmentStatus"],
   [user |-> customer, route |-> "customerConfirm"],
   [user |-> customer, route |-> "findAllServiceWarranty"],
   [user |-> customer, route |-> "createSupportRequest", repair |-> repair],
   [user |-> other, route |-> "createSupportRequest", repair |-> repair],
   [user |-> other, route |-> "getSupportRequestsByUser", of |-> customer],
   [user |-> customer, route |-> "getSupportRequestsByUser", of |-> customer],
   [user |-> other, route |-> "getAppointmentStatus", repair |-> repair]}

MCCustomerOf == [r \in {repair} |-> customer]

MCTerms == {[period |-> 1, unit |-> "months"], [period |-> 1, unit |-> "years"],
            [period |-> 2, unit |-> "days"]}

(* Noon of 31 January, 29 February, 1 March, and 2025. *)
MCInstants == {61, 118, 120, 1000}

WorkersAlike == Permutations({w1, w2})
=============================================================================
