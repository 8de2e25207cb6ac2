--------------------------- MODULE DeviceRegistry ---------------------------
(***************************************************************************)
(* The devices users receive push notifications on, and the notification of *)
(* a new order that reads them.  A login registers the device it comes from *)
(* (UsersService.upsertDevice): it counts the user's devices, removes the   *)
(* oldest when there are too many, and upserts its own, without a           *)
(* transaction.  createServiceOrder, once the order is committed, writes a  *)
(* Notifications row, sends it to the customer's devices and marks it.      *)
(* Each statement is a step; requests overlap and may die between two.      *)
(***************************************************************************)
EXTENDS Integers, FiniteSets

CONSTANTS
  Workers,     \* slots for requests under way
  Users,       \* customers and technicians
  Tokens,      \* device tokens; a phone keeps its token whoever logs in on it
  Orders,      \* orders placed in this instance
  MaxDevices,  \* MAX_DEVICES (5)
  None         \* no row

Gone == "gone"  \* the row a login meant to delete was deleted by another

ASSUME DevicesAssumption ==
  /\ MaxDevices \in Nat \ {0}
  /\ IsFiniteSet(Workers) /\ IsFiniteSet(Tokens)
  /\ None \notin Users /\ Gone \notin Tokens

VARIABLES
  owner,      \* Devices.userId of the row with each token, None without a row
  older,      \* Devices.created_at: <<t, s>> when the row of t is the older one
  notice,     \* Notifications.status of each order, "none" without a row
  delivered,  \* the devices with a UserNotification row in delivered, per order
  answer,     \* what the customer of each order has got: see Answers
  req,        \* the request of each slot
  overlapped  \* two requests have been under way at once

vars == <<owner, older, notice, delivered, answer, req, overlapped>>

(* "ok": placed and notified; "warned": placed, a warning about the         *)
(* notification in the response; "died": no response.                       *)
Answers == {"none", "ok", "warned", "died"}
NotificationStatus == {"pending", "sent", "failed"}

Idle == [at |-> "idle"]

Requests ==
  {Idle}
  \cup [at : {"oldest", "upsert"}, user : Users, token : Tokens]
  \cup [at : {"delete"}, user : Users, token : Tokens, victim : Tokens \cup {Gone}]
  \cup [at : {"create", "send", "mark"}, user : Users, order : Orders]

TypeOK ==
  /\ owner \in [Tokens -> Users \cup {None}]
  /\ older \subseteq Tokens \X Tokens
  /\ notice \in [Orders -> NotificationStatus \cup {"none"}]
  /\ delivered \in [Orders -> SUBSET Tokens]
  /\ answer \in [Orders -> Answers]
  /\ req \in [Workers -> Requests]
  /\ overlapped \in BOOLEAN

Registered == {t \in Tokens : owner[t] # None}
DevicesOf(u) == {t \in Tokens : owner[t] = u}

-----------------------------------------------------------------------------
(* Faulty variants *)

OnceOverLimit(u) == Cardinality(DevicesOf(u)) > MaxDevices
OldestOfAll(u) == {t \in Registered : \A s \in Registered \ {t} : <<t, s>> \in older}
MarksDelivered(received) == IF received # {} THEN "sent" ELSE "undelivered"

-----------------------------------------------------------------------------
(* upsertDevice makes room when the user has MAX_DEVICES or more.  *)
AtLimit(u) == Cardinality(DevicesOf(u)) >= MaxDevices

(* The user's device with the smallest created_at. *)
OldestOf(u) == {t \in DevicesOf(u) : \A s \in DevicesOf(u) \ {t} : <<t, s>> \in older}

(* sendNotificationToUsers keeps the devices whose status is 'active';      *)
(* upsertDevice, the only writer of devices, stores 'ACTIVE'.               *)
StoredStatus == "ACTIVE"
ActiveDevicesOf(u) == {t \in DevicesOf(u) : StoredStatus = "active"}

(* What sendNotificationToUsers records: received are the devices Firebase  *)
(* accepted the message for.                                                *)
SendResult(received) == IF received # {} THEN "sent" ELSE "failed"

Begin(w, request) ==
  /\ req[w] = Idle
  /\ req' = [req EXCEPT ![w] = request]
  /\ overlapped' = (overlapped \/ \E v \in Workers \ {w} : req[v] # Idle)

At(w, at) == req[w].at = at

Placing(w) == At(w, "create") \/ At(w, "send") \/ At(w, "mark")

Continue(w, request) == req' = [req EXCEPT ![w] = request] /\ UNCHANGED overlapped
Return(w) == Continue(w, Idle)

-----------------------------------------------------------------------------
Init ==
  /\ owner = [t \in Tokens |-> None] /\ older = {}
  /\ notice = [o \in Orders |-> "none"]
  /\ delivered = [o \in Orders |-> {}]
  /\ answer = [o \in Orders |-> "none"]
  /\ req = [w \in Workers |-> Idle]
  /\ overlapped = FALSE

(* POST auth/login: the device count. *)
Login(w, u, t) ==
  /\ Begin(w, [at |-> IF AtLimit(u) THEN "oldest" ELSE "upsert", user |-> u, token |-> t])
  /\ UNCHANGED <<owner, older, notice, delivered, answer>>

FindOldest(w) ==
  LET r == req[w] IN
  /\ At(w, "oldest")
  /\ IF DevicesOf(r.user) # {}
     THEN \E victim \in OldestOf(r.user) :
            Continue(w, [at |-> "delete", user |-> r.user, token |-> r.token, victim |-> victim])
     ELSE Continue(w, [at |-> "upsert", user |-> r.user, token |-> r.token])
  /\ UNCHANGED <<owner, older, notice, delivered, answer>>

(* The row is deleted by its device_id, whosever it is by now; a request    *)
(* that finds it deleted throws, and the login with it.  A row registered   *)
(* later under the same token is another row.                               *)
DeleteOldest(w) ==
  LET r == req[w] IN
  /\ At(w, "delete")
  /\ IF r.victim = Gone
     THEN Return(w) /\ UNCHANGED <<owner, older>>
     ELSE /\ owner' = [owner EXCEPT ![r.victim] = None]
          /\ older' = {p \in older : r.victim \notin {p[1], p[2]}}
          /\ req' = [v \in Workers |->
                       IF v = w THEN [at |-> "upsert", user |-> r.user, token |-> r.token]
                       ELSE IF At(v, "delete") /\ req[v].victim = r.victim
                            THEN [req[v] EXCEPT !.victim = Gone]
                            ELSE req[v]]
          /\ UNCHANGED overlapped
  /\ UNCHANGED <<notice, delivered, answer>>

(* A token that has a row changes hands and keeps its age. *)
Upsert(w) ==
  LET r == req[w] IN
  /\ At(w, "upsert")
  /\ owner' = [owner EXCEPT ![r.token] = r.user]
  /\ older' = older \cup {<<t, r.token>> : t \in IF owner[r.token] = None THEN Registered ELSE {}}
  /\ Return(w)
  /\ UNCHANGED <<notice, delivered, answer>>

-----------------------------------------------------------------------------
(* createServiceOrder after its transaction: an order without appointment   *)
(* is only warned about.                                                    *)
PlaceOrder(w, u, o, hasAppointment) ==
  /\ answer[o] = "none" /\ ~\E v \in Workers : Placing(v) /\ req[v].order = o
  /\ IF hasAppointment
     THEN Begin(w, [at |-> "create", user |-> u, order |-> o]) /\ UNCHANGED answer
     ELSE /\ req[w] = Idle
          /\ answer' = [answer EXCEPT ![o] = "warned"]
          /\ UNCHANGED <<req, overlapped>>
  /\ UNCHANGED <<owner, older, notice, delivered>>

CreateNotification(w) ==
  LET r == req[w] IN
  /\ At(w, "create")
  /\ notice' = [notice EXCEPT ![r.order] = "pending"]
  /\ Continue(w, [r EXCEPT !.at = "send"])
  /\ UNCHANGED <<owner, older, delivered, answer>>

(* sendNotificationToUsers, whose writes are one transaction; it throws     *)
(* when the user has no device.                                             *)
Send(w) ==
  LET r == req[w] IN
  /\ At(w, "send")
  /\ IF DevicesOf(r.user) = {}
     THEN /\ answer' = [answer EXCEPT ![r.order] = "warned"]
          /\ Return(w)
          /\ UNCHANGED <<notice, delivered>>
     ELSE \E received \in SUBSET ActiveDevicesOf(r.user) :
            /\ notice' = [notice EXCEPT ![r.order] = SendResult(received)]
            /\ delivered' = [delivered EXCEPT ![r.order] = received]
            /\ Continue(w, [r EXCEPT !.at = "mark"])
            /\ UNCHANGED answer
  /\ UNCHANGED <<owner, older>>

(* createServiceOrder marks the notification sent when nothing was thrown,  *)
(* and responds, if it gets to it.                                          *)
MarkSent(w) ==
  LET r == req[w] IN
  /\ At(w, "mark")
  /\ notice' = [notice EXCEPT ![r.order] = "sent"]
  /\ \E a \in {"ok", "died"} : answer' = [answer EXCEPT ![r.order] = a]
  /\ Return(w)
  /\ UNCHANGED <<owner, older, delivered>>

(* The process dies, or a statement fails, which createServiceOrder turns   *)
(* into a warning.                                                          *)
Fail(w) ==
  /\ req[w] # Idle
  /\ IF Placing(w)
     THEN \E a \in {"died", "warned"} : answer' = [answer EXCEPT ![req[w].order] = a]
     ELSE UNCHANGED answer
  /\ Return(w)
  /\ UNCHANGED <<owner, older, notice, delivered>>

-----------------------------------------------------------------------------
RequestStep(w) ==
  \/ FindOldest(w) \/ DeleteOldest(w) \/ Upsert(w)
  \/ CreateNotification(w) \/ Send(w) \/ MarkSent(w)

Next ==
  \E w \in Workers :
    \/ \E u \in Users, t \in Tokens : Login(w, u, t)
    \/ \E u \in Users, o \in Orders, b \in BOOLEAN : PlaceOrder(w, u, o, b)
    \/ RequestStep(w) \/ Fail(w)

Spec == Init /\ [][Next]_vars

-----------------------------------------------------------------------------
(* Properties *)

(* Logins that count before others insert can pass the limit, but by no     *)
(* more than the requests that can overlap, however many logins follow; a   *)
(* login on its own keeps to it.                                            *)
DevicesBounded ==
  \A u \in Users :
    /\ Cardinality(DevicesOf(u)) <= MaxDevices + Cardinality(Workers) - 1
    /\ ~overlapped => Cardinality(DevicesOf(u)) <= MaxDevices

(* Without overlap a login removes only a device of its own user, the one   *)
(* registered first.                                                        *)
RemovesOwnOldest ==
  [][~overlapped' => \A t \in Tokens : owner[t] # None /\ owner'[t] = None =>
       \E w \in Workers : At(w, "delete") /\ req[w].user = owner[t] /\ t \in OldestOf(owner[t])]_vars

(* The code breaks this one: a device that accepted nothing leaves the row   *)
(* marked sent, and the customer without a warning.  The comments of the    *)
(* code promise it: a notification no device has got is marked failed, and  *)
(* the response warns of it (service-orders.service.ts:55-56 and 204,       *)
(* notifications.service.ts:67-68).                                         *)
FailedSendIsTold ==
  \A o \in Orders :
    /\ answer[o] = "ok" => delivered[o] # {}
    /\ answer[o] = "warned" /\ notice[o] # "none" => notice[o] = "failed"
=============================================================================
