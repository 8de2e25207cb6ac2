----------------------------- MODULE AfterSales -----------------------------
(***************************************************************************)
(* What a customer is left with when a repair is done: the warranty that    *)
(* completeRepair writes, the days that findAllServiceWarranty still gives  *)
(* it, requests for support, and the status and history of his own          *)
(* appointments - every one of these behind AccessGuard.                    *)
(*                                                                         *)
(* A repair is one detail with its appointment and its order.  Time is      *)
(* counted in half days from 1 January 2024; a Date of the program is a     *)
(* half day, the two of one warranty the same one.                          *)
(***************************************************************************)
EXTENDS Access, Integers

CONSTANTS
  Repairs,     \* details under repair or repaired
  CustomerOf,  \* the customer of each: of its order, so of its appointment
  Terms,       \* warranty_period and warranty_unit that services may have
  Instants,    \* the half days at which something happens
  MaxSupport   \* bound on the support requests of a repair

VARIABLES
  now,       \* the half day it is
  warranty,  \* ServiceWarranty of each repair, with the terms of its service
  support    \* SupportRequests of each repair: the users who sent them

vars == <<roles, permissions, granted, first, req, now, warranty, support>>
afterVars == <<now, warranty, support>>

NoWarranty == [from |-> "none"]

ASSUME AfterSalesAssumption ==
  /\ CustomerOf \in [Repairs -> Users]
  /\ Terms \subseteq [period : Nat, unit : {"days", "months", "years"}]
  /\ Instants \subseteq Nat /\ Instants # {}
  /\ MaxSupport \in Nat

-----------------------------------------------------------------------------
(* The calendar.  Months are counted from January 2024.                     *)

Leap(year) == year % 4 = 0 /\ (year % 100 = 0 => year % 400 = 0)

DaysIn(month) ==
  LET m == month % 12
  IN CASE m = 1 -> IF Leap(2024 + month \div 12) THEN 29 ELSE 28
       [] m \in {3, 5, 8, 10} -> 30
       [] OTHER -> 31

(* The number of the first day of a month. *)
FirstOf[month \in Nat] == IF month = 0 THEN 0 ELSE FirstOf[month - 1] + DaysIn(month - 1)

MonthOf(day) == CHOOSE m \in (day \div 31)..(day \div 28) : FirstOf[m] <= day /\ day < FirstOf[m + 1]

(* Faulty variants: months of thirty days, the day that began counted too,  *)
(* anybody an owner.                                                        *)

ThirtyDays(day, t) ==
  day + t.period * (CASE t.unit = "days" -> 1 [] t.unit = "months" -> 30 [] t.unit = "years" -> 365)
CountsToday(end, at) == IF end <= at THEN 0 ELSE (end - at) \div 2 + 1
AnyoneOwns(user, r) == r \in Repairs

(* setDate, setMonth, setFullYear: a day the month does not have runs over  *)
(* into the next one.                                                       *)
CalculateEndDate(day, t) ==
  IF t.unit = "days"
    THEN day + t.period
    ELSE LET month == MonthOf(day) + (IF t.unit = "years" THEN 12 ELSE 1) * t.period
         IN FirstOf[month] + (day - FirstOf[MonthOf(day)])

(* Math.max(0, Math.floor(...)) over half days. *)
RemainingDays(end, at) == IF end <= at THEN 0 ELSE (end - at) \div 2

-----------------------------------------------------------------------------
AfterInit ==
  /\ AccessInit
  /\ now \in Instants /\ \A s \in Instants : now <= s
  /\ warranty = [r \in Repairs |-> NoWarranty]
  /\ support = [r \in Repairs |-> <<>>]

(* Time goes on. *)
Tick ==
  /\ \E t \in Instants :
       /\ t > now
       /\ \A s \in Instants : s > now => t <= s
       /\ now' = t
  /\ UNCHANGED <<roles, permissions, granted, first, req, warranty, support>>

HasWarranty(r) == warranty[r] # NoWarranty

(* orderDetailId is unique. *)
IsTaken(r) == HasWarranty(r)

(* completeRepair, the part after the status: with images there is a        *)
(* warranty, by the terms its service has now.  The rest fails the request  *)
(* when it likes: the appointment is another technician's or not in         *)
(* progress, which OrderWorkflow keeps, or no service has the id of the     *)
(* order, which the row gets as its serviceId.                              *)
CompleteRepair(w) ==
  /\ Handles(w, "completeRepair")
  /\ LET r == req[w].call.repair
     IN \/ Answers(w, "failed", {}) /\ UNCHANGED warranty
        \/ req[w].call.images = 0 /\ Answers(w, "ok", {}) /\ UNCHANGED warranty
        \/ /\ req[w].call.images # 0 /\ ~IsTaken(r)
           /\ Answers(w, "ok", {})
           /\ \E t \in Terms :
                warranty' = [warranty EXCEPT ![r] =
                  [from |-> now,
                   end |-> 2 * CalculateEndDate(now \div 2, t) + (now % 2),
                   terms |-> t]]
  /\ UNCHANGED <<roles, permissions, granted, first, now, support>>

(* findAllServiceWarranty: the details of the caller's orders that have a   *)
(* warranty.                                                                *)
FindAllServiceWarranty(w) ==
  /\ Handles(w, "findAllServiceWarranty")
  /\ LET mine == {r \in Repairs : CustomerOf[r] = req[w].call.user /\ HasWarranty(r)}
     IN Answers(w, "ok", {[repair |-> r, days |-> RemainingDays(warranty[r].end, now)] : r \in mine})
  /\ UNCHANGED <<roles, permissions, granted, first, now, warranty, support>>

(* Whether an appointment exists and is the caller's. *)
IsOwner(user, r) == r \in Repairs /\ CustomerOf[r] = user

(* getAppointmentStatus and getAppointmentHistory read one row. *)
GetAppointment(w) ==
  /\ \E route \in {"getAppointmentStatus", "getAppointmentHistory"} : Handles(w, route)
  /\ LET c == req[w].call
     IN IF c.repair \notin Repairs THEN Answers(w, "missing", {})
        ELSE IF ~IsOwner(c.user, c.repair) THEN Answers(w, "forbidden", {})
        ELSE Answers(w, "ok", {[repair |-> c.repair]})
  /\ UNCHANGED <<roles, permissions, granted, first, now, warranty, support>>

(* createSupportRequest: find the appointment, then insert.  The controller *)
(* answers every error with 400.                                            *)
CheckSupportRequest(w) ==
  /\ Handles(w, "createSupportRequest")
  /\ LET c == req[w].call
     IN IF IsOwner(c.user, c.repair) THEN Moves(w, At("owned", c)) ELSE Answers(w, "invalid", {})
  /\ UNCHANGED <<roles, permissions, granted, first, now, warranty, support>>

InsertSupportRequest(w) ==
  /\ req[w].at = "owned"
  /\ LET c == req[w].call
     IN /\ Len(support[c.repair]) < MaxSupport
        /\ support' = [support EXCEPT ![c.repair] = Append(@, c.user)]
        /\ Answers(w, "ok", {[repair |-> c.repair]})
  /\ UNCHANGED <<roles, permissions, granted, first, now, warranty>>

(* getSupportRequestsByUser: the controller compares user_id with the       *)
(* caller.                                                                  *)
GetSupportRequestsByUser(w) ==
  /\ Handles(w, "getSupportRequestsByUser")
  /\ LET c == req[w].call
     IN IF c.user # c.of THEN Answers(w, "forbidden", {})
        ELSE Answers(w, "ok", {[repair |-> r] : r \in {q \in Repairs : \E i \in DOMAIN support[q] : support[q][i] = c.of}})
  /\ UNCHANGED <<roles, permissions, granted, first, now, warranty, support>>

(* The other guarded routes: their handlers are in OrderWorkflow.           *)
OrderHandler(w) ==
  /\ \E route \in {"customerConfirm", "customerCancel", "customerUpdate",
                   "updateAppointmentStatus", "addSpareParts"} : Handles(w, route)
  /\ Answers(w, "ok", {})
  /\ UNCHANGED <<roles, permissions, granted, first, now, warranty, support>>

AfterNext ==
  \/ Tick
  \/ AccessNext /\ UNCHANGED afterVars
  \/ \E w \in Workers :
       \/ CompleteRepair(w)
       \/ FindAllServiceWarranty(w)
       \/ GetAppointment(w)
       \/ CheckSupportRequest(w)
       \/ InsertSupportRequest(w)
       \/ GetSupportRequestsByUser(w)
       \/ OrderHandler(w)

Spec == AfterInit /\ [][AfterNext]_vars

-----------------------------------------------------------------------------
(* Properties. *)

TypeOK ==
  /\ AccessTypeOK
  /\ \A w \in Workers :
       /\ req[w].at \in {"idle", "guard", "denied"} \cup Admitted
       /\ req[w].at # "idle" => req[w].call \in Calls
  /\ now \in Instants
  /\ \A r \in Repairs :
       HasWarranty(r) => warranty[r].from \in Instants /\ warranty[r].terms \in Terms
  /\ support \in [Repairs -> Seq(Users)]

(* A warranty counted in months or years ends on the promised day of the    *)
(* month it leads to, or, when that month is too short, as many days into   *)
(* the next one as it lacks: never before, never more than three days after *)
(* its nominal end (appointments.service.ts:589, setMonth on a Date).       *)
LastsAsPromised ==
  \A r \in Repairs : HasWarranty(r) /\ warranty[r].terms.unit # "days" =>
    LET t == warranty[r].terms
        start == warranty[r].from \div 2
        month == MonthOf(start) + (IF t.unit = "years" THEN 12 * t.period ELSE t.period)
        day == start - FirstOf[MonthOf(start)]
        last == DaysIn(month) - 1
        nominal == FirstOf[month] + (IF day > last THEN last ELSE day)
    IN (warranty[r].end \div 2) - nominal \in 0..3

(* The days a customer was shown, however long he looks at them, are never  *)
(* fewer than there still are, never more than the warranty had, and none   *)
(* means that less than a day is left                                       *)
(* (service-order-details.service.ts:208).                                  *)
DaysShownHold ==
  \A w \in Workers :
    req[w].at = "answered" /\ req[w].call.route = "findAllServiceWarranty" =>
      \A b \in req[w].body :
        LET s == warranty[b.repair]
        IN /\ RemainingDays(s.end, now) <= b.days
           /\ 2 * b.days <= s.end - s.from
           /\ b.days = 0 => s.end - now < 2

(* A warranty stays what it was when the repair was completed, whatever is  *)
(* completed again, and a request for support stays on record.              *)
RecordsStay ==
  [][\A r \in Repairs :
       /\ HasWarranty(r) => warranty'[r] = warranty[r]
       /\ Len(support'[r]) >= Len(support[r])]_vars

(* Whatever is on record for a repair or was shown of it belongs to its     *)
(* customer, and he had been given the permission                           *)
(* (appointments.service.ts:92, :136, :304, the controller at :128).        *)
RecordsAreOwn ==
  /\ \A r \in Repairs : \A i \in DOMAIN support[r] :
       /\ support[r][i] = CustomerOf[r]
       /\ Required("createSupportRequest") \subseteq PermissionsOf(support[r][i])
  /\ \A w \in Workers :
       /\ req[w].at = "answered"
       /\ req[w].call.route \in {"findAllServiceWarranty", "getAppointmentStatus",
             "getAppointmentHistory", "createSupportRequest", "getSupportRequestsByUser"}
       => \A b \in req[w].body : CustomerOf[b.repair] = req[w].call.user
=============================================================================
