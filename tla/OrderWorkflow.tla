--------------------------- MODULE OrderWorkflow ---------------------------
(***************************************************************************)
(* The life of one service order: its details (the requested services), the *)
(* at most one appointment, the price columns, the spare parts and the logs *)
(* the handlers write.  Every action is one HTTP handler of                 *)
(* AppointmentsService, ServiceOrdersService or ServiceOrderDetailsService  *)
(* run alone, from its first read to its last write, partial effects of a   *)
(* handler that throws half-way included.  A request whose checks fail      *)
(* before any write changes nothing and is no step.                         *)
(* OrderRequests takes the handlers apart into their statements.            *)
(***************************************************************************)
EXTENDS Integers, FiniteSetsExt

CONSTANTS
  Details,       \* the service_order_detail rows an order may be created with
  Technicians,   \* technician ids
  None,          \* SQL NULL, or a row that does not exist
  Quotes,        \* quotes a technician may enter: basePrice + additionalPrice
  PartRequests,  \* spare-part lists a technician may send, see below
  UnitPrice,     \* price of the one kind of spare part modelled here
  InitialStock,  \* its quantityInStock at first
  MaxInt,        \* largest value of an INTEGER column (2^31 - 1)
  MaxReschedules,  \* times a customer may reschedule (3)
  OrderId,       \* primary key of the order
  Services,      \* primary keys of the services table
  ServiceOf      \* the service each detail asks for

(* A spare-part list is known by its largest item and by the sum of its     *)
(* items: the stock check reads the items one by one, the writes add them   *)
(* up.  Any pair with 1 <= largest <= total is some list of items.          *)
PartRequestsAssumption ==
  PartRequests \subseteq {r \in [largest : Nat \ {0}, total : Nat] : r.largest <= r.total}

ASSUME ConstantsAssumption ==
  /\ None \notin Details /\ None \notin Technicians /\ None \notin Services
  /\ IsFiniteSet(Details)
  /\ MaxInt \in Nat /\ MaxReschedules \in Nat /\ UnitPrice \in Nat /\ InitialStock \in Nat
  /\ Quotes \subseteq 0..MaxInt
  /\ PartRequestsAssumption
  /\ ServiceOf \in [Details -> Services]

VARIABLES
  orderStatus,      \* ServiceOrder.status, "none" before the order exists
  totalAmount,      \* ServiceOrder.totalAmount
  detailStatus,     \* ServiceOrderDetail.status, "none" when not part of the order
  finalPrice,       \* ServiceOrderDetail.finalPrice
  sparePartPrice,   \* ServiceOrderDetail.totalSparePartPrice
  apptDetail,       \* Appointment.serviceOrderDetailId, None when there is no appointment
  apptStatus,       \* Appointment.currentStatus
  technician,       \* Appointment.technicianId
  rescheduleCount,  \* Appointment.rescheduleCount
  mirror,           \* AppointmentStatus.status, "none" when there is no row
  history,          \* the <<old_status, new_status>> pairs StatusHistory holds
  announced,        \* statuses pushed through the socket and FCM
  warranty,         \* ServiceWarranty.serviceId of each detail, None when no row
  stock,            \* SparePart.quantityInStock
  used              \* sum of UsedSparePart.quantityUsed

orderVars  == <<orderStatus, totalAmount>>
detailVars == <<detailStatus, finalPrice, sparePartPrice>>
apptVars   == <<apptDetail, apptStatus, technician, rescheduleCount>>
logVars    == <<mirror, history, announced, warranty>>
stockVars  == <<stock, used>>
vars == <<orderVars, detailVars, apptVars, logVars, stockVars>>

-----------------------------------------------------------------------------
(* Types: the enums of the schema.                                         *)

ServiceOrderStatusEnum == {"booked", "confirmed", "paid", "completed", "cancelled"}
ServiceOrderDetailStatusEnum == {"booked", "confirmed", "completed", "cancelled"}
AppointmentStatusEnum ==
  {"booked", "confirmed", "en_route", "arrived", "quoted", "quote_confirmed",
   "in_progress", "technician_done", "completed", "cancelled"}

TypeOK ==
  /\ orderStatus \in ServiceOrderStatusEnum \cup {"none"}
  /\ totalAmount \in 0..MaxInt
  /\ detailStatus \in [Details -> ServiceOrderDetailStatusEnum \cup {"none"}]
  /\ finalPrice \in [Details -> 0..MaxInt]
  /\ sparePartPrice \in [Details -> 0..MaxInt]
  /\ apptDetail \in Details \cup {None}
  /\ apptStatus \in AppointmentStatusEnum \cup {"none"}
  /\ technician \in Technicians \cup {None}
  /\ rescheduleCount \in 0..MaxReschedules
  /\ mirror \in AppointmentStatusEnum \cup {"none"}
  /\ history \subseteq AppointmentStatusEnum \X AppointmentStatusEnum
  /\ announced \subseteq AppointmentStatusEnum
  /\ warranty \in [Details -> Services \cup {None}]
  /\ stock \in Int
  /\ used \in Nat

-----------------------------------------------------------------------------
(* Faulty variants of the operators of the next section, each the slip a    *)
(* maintainer could make there; every property fails with one of them.      *)

FitsAnyInt(n) == TRUE
ConfirmsAnyDetail(d) == detailStatus[d] # "none"
SkipsTheQuote ==
  {<<"confirmed", "en_route">>, <<"en_route", "arrived">>,
   <<"arrived", "in_progress">>, <<"quote_confirmed", "in_progress">>}
CancelsWhenAnyIs(st) == \E d \in Details : st[d] = "cancelled"
LogsHistoryOnly(new) ==
  /\ history' = history \cup {<<apptStatus, new>>}
  /\ mirror' = mirror
QuoteReplacesTotal(q) == q
AnyTotal(V) == TRUE

-----------------------------------------------------------------------------
(* What the handlers compute.                                              *)

(* PostgreSQL and Prisma refuse a value that does not fit in an INTEGER     *)
(* column; the statement fails and its transaction rolls back.              *)
FitsInt(n) == n <= MaxInt

OrderDetails == {d \in Details : detailStatus[d] # "none"}

(* adminConfirm keeps the details that are not cancelled. *)
Confirmable(d) == detailStatus[d] \notin {"none", "cancelled"}

(* VALID_STATUS_TRANSITIONS *)
ValidStatusTransitions ==
  {<<"confirmed", "en_route">>, <<"en_route", "arrived">>, <<"quote_confirmed", "in_progress">>}

(* The values TechnicianUpdateStatusDto admits. *)
TechnicianUpdateStatuses == {"en_route", "arrived", "quoted", "in_progress", "technician_done"}

RepairDone == apptStatus = "technician_done"

(* customerCancel: every detail of the order is cancelled in the statuses st. *)
AllCancelled(st) == \A d \in Details : st[d] \in {"none", "cancelled"}

(* The AppointmentStatus upsert and the StatusHistory row of one change. *)
LogStatus(new) ==
  /\ history' = history \cup {<<apptStatus, new>>}
  /\ mirror' = new

(* totalAmount after the increment of addSpareParts, and as quote computes it. *)
TotalWithParts(cost) == totalAmount + cost
TotalWithQuote(q) == totalAmount + q

(* adminComplete: the details that count, and their prices against the total. *)
CompletableDetails ==
  {d \in Details : detailStatus[d] = "confirmed" /\ (d = apptDetail => RepairDone)}

SumFinal(D) == MapThenSumSet(LAMBDA d : finalPrice[d], D)

TotalMatches(V) == SumFinal(V) = totalAmount

StockAfter(r) == stock - r.total

-----------------------------------------------------------------------------
(* Customer                                                                *)

Init ==
  /\ orderStatus = "none" /\ totalAmount = 0
  /\ detailStatus = [d \in Details |-> "none"]
  /\ finalPrice = [d \in Details |-> 0]
  /\ sparePartPrice = [d \in Details |-> 0]
  /\ apptDetail = None /\ apptStatus = "none"
  /\ technician = None /\ rescheduleCount = 0
  /\ mirror = "none" /\ history = {} /\ announced = {}
  /\ warranty = [d \in Details |-> None]
  /\ stock = InitialStock /\ used = 0

(* POST service-orders: the details D, one of them (a) possibly with an     *)
(* appointment.  Appointment.serviceOrderId is unique, so a request with    *)
(* two appointments rolls back.  A detail without one starts confirmed.     *)
CreateServiceOrder(D, a) ==
  /\ orderStatus = "none"
  /\ orderStatus' = "booked"
  /\ totalAmount' = 0
  /\ detailStatus' = [d \in Details |->
                        IF d \notin D THEN "none" ELSE IF d = a THEN "booked" ELSE "confirmed"]
  /\ apptDetail' = a
  /\ apptStatus' = IF a = None THEN "none" ELSE "booked"
  /\ UNCHANGED <<finalPrice, sparePartPrice, technician, rescheduleCount, logVars, stockVars>>

(* PATCH appointments/:id/customer-update.  The appointment is written      *)
(* outside the transaction, so it stays rescheduled when the checks on the  *)
(* detail and the order then fail and the transaction rolls back.           *)
CustomerUpdate ==
  /\ apptStatus \in {"booked", "confirmed"}
  /\ rescheduleCount < MaxReschedules
  /\ apptStatus' = "booked"
  /\ rescheduleCount' = rescheduleCount + 1
  /\ IF detailStatus[apptDetail] \in {"booked", "confirmed"} /\ orderStatus \in {"booked", "confirmed"}
     THEN /\ detailStatus' = [detailStatus EXCEPT ![apptDetail] = "booked"]
          /\ orderStatus' = "booked"
     ELSE UNCHANGED <<detailStatus, orderStatus>>
  /\ UNCHANGED <<totalAmount, finalPrice, sparePartPrice, apptDetail, technician, logVars, stockVars>>

(* PATCH appointments/:id/quote-confirm.  The appointment is written before *)
(* the detail is looked at; a detail that is not booked makes the handler   *)
(* throw and the write stays.                                               *)
CustomerQuoteConfirm ==
  /\ apptStatus = "quoted"
  /\ apptStatus' = "quote_confirmed"
  /\ detailStatus' = IF detailStatus[apptDetail] = "booked"
                     THEN [detailStatus EXCEPT ![apptDetail] = "confirmed"]
                     ELSE detailStatus
  /\ UNCHANGED <<orderVars, finalPrice, sparePartPrice, apptDetail, technician, rescheduleCount,
                 logVars, stockVars>>

(* PATCH appointments/:id/cancel, at any status of the appointment. *)
CustomerCancel ==
  /\ apptStatus # "none"
  /\ apptStatus' = "cancelled"
  /\ detailStatus' = [detailStatus EXCEPT ![apptDetail] = "cancelled"]
  /\ orderStatus' = IF AllCancelled(detailStatus') THEN "cancelled" ELSE orderStatus
  /\ UNCHANGED <<totalAmount, finalPrice, sparePartPrice, apptDetail, technician, rescheduleCount,
                 logVars, stockVars>>

-----------------------------------------------------------------------------
(* Administrator                                                           *)

(* Nothing in the services writes Appointment.technicianId; they only       *)
(* compare it with the caller.  Somebody sets it in the database.           *)
AssignTechnician(t) ==
  /\ apptStatus # "none"
  /\ technician' = t
  /\ UNCHANGED <<orderVars, detailVars, apptDetail, apptStatus, rescheduleCount, logVars, stockVars>>

(* PATCH service-orders/:id/comfirm, at any status of the order.  Without   *)
(* an appointment on a detail that is not cancelled, the first write (to    *)
(* appointment -1) throws.                                                  *)
AdminConfirm ==
  /\ apptDetail # None /\ Confirmable(apptDetail)
  /\ apptStatus' = "confirmed"
  /\ detailStatus' = [detailStatus EXCEPT ![apptDetail] = "confirmed"]
  /\ orderStatus' = "confirmed"
  /\ UNCHANGED <<totalAmount, finalPrice, sparePartPrice, apptDetail, technician, rescheduleCount,
                 logVars, stockVars>>

(* PATCH service-orders/:id/complete *)
AdminComplete ==
  /\ orderStatus = "paid"
  /\ CompletableDetails # {}
  /\ TotalMatches(CompletableDetails)
  /\ orderStatus' = "completed"
  /\ UNCHANGED <<totalAmount, detailVars, apptVars, logVars, stockVars>>

-----------------------------------------------------------------------------
(* Technician                                                              *)

(* PATCH appointments/:id/status *)
UpdateAppointmentStatus(t, newStatus) ==
  /\ technician = t
  /\ newStatus \in TechnicianUpdateStatuses
  /\ <<apptStatus, newStatus>> \in ValidStatusTransitions
  /\ apptStatus' = newStatus
  /\ LogStatus(newStatus)
  /\ announced' = announced \cup {newStatus}
  /\ UNCHANGED <<orderVars, detailVars, apptDetail, technician, rescheduleCount, warranty, stockVars>>

(* PATCH service-order-details/:id/quote: the detail in the URL is any      *)
(* detail of the appointment's order.                                       *)
Quote(t, d, q) ==
  /\ technician = t
  /\ d \in OrderDetails
  /\ apptStatus \in {"arrived", "in_progress"}
  /\ FitsInt(TotalWithQuote(q))
  /\ finalPrice' = [finalPrice EXCEPT ![d] = q]
  /\ apptStatus' = "quoted"
  /\ totalAmount' = TotalWithQuote(q)
  /\ UNCHANGED <<orderStatus, detailStatus, sparePartPrice, apptDetail, technician, rescheduleCount,
                 logVars, stockVars>>

(* PATCH appointments/:id/add-spare-parts, at any status.  Each item of the *)
(* list is compared with the stock on its own.                              *)
AddSpareParts(t, r) ==
  LET cost == UnitPrice * r.total IN
  /\ apptStatus # "none" /\ technician = t
  /\ r.largest <= stock
  /\ FitsInt(finalPrice[apptDetail] + cost)
  /\ FitsInt(sparePartPrice[apptDetail] + cost)
  /\ FitsInt(TotalWithParts(cost))
  /\ used' = used + r.total
  /\ stock' = StockAfter(r)
  /\ sparePartPrice' = [sparePartPrice EXCEPT ![apptDetail] = @ + cost]
  /\ finalPrice' = [finalPrice EXCEPT ![apptDetail] = @ + cost]
  /\ totalAmount' = TotalWithParts(cost)
  /\ UNCHANGED <<orderStatus, detailStatus, apptVars, logVars>>

(* PATCH appointments/:id/complete-repair.  The warranty is created only    *)
(* with images, under the order's id as its serviceId; a second warranty of *)
(* the detail or an id that is no service fails the transaction, after the  *)
(* new status has been pushed.                                              *)
CompleteRepair(t, withImages) ==
  LET accepted == withImages => warranty[apptDetail] = None /\ OrderId \in Services IN
  /\ apptStatus = "in_progress" /\ technician = t
  /\ announced' = announced \cup {"technician_done"}
  /\ IF accepted
     THEN /\ apptStatus' = "technician_done"
          /\ LogStatus("technician_done")
          /\ warranty' = IF withImages THEN [warranty EXCEPT ![apptDetail] = OrderId] ELSE warranty
     ELSE UNCHANGED <<apptStatus, mirror, history, warranty>>
  /\ UNCHANGED <<orderVars, detailVars, apptDetail, technician, rescheduleCount, stockVars>>

(* PATCH service-orders/:id/confirm-paid.  The token of a caller who is no  *)
(* technician carries no technicianId (t = None), and Prisma ignores a      *)
(* filter that is undefined.                                                *)
TechnicianUpdatePaymentStatus(t) ==
  /\ orderStatus = "confirmed"
  /\ apptStatus # "none"
  /\ t \in {None, technician}
  /\ \E d \in Details : detailStatus[d] = "confirmed"
  /\ RepairDone
  /\ orderStatus' = "paid"
  /\ UNCHANGED <<totalAmount, detailVars, apptVars, logVars, stockVars>>

-----------------------------------------------------------------------------

(* The body of POST service-orders: the details and the one with an         *)
(* appointment, if any.                                                     *)
OrderForms == {form \in (SUBSET Details) \X (Details \cup {None}) : form[2] \in form[1] \cup {None}}

CustomerStep ==
  \/ \E form \in OrderForms : CreateServiceOrder(form[1], form[2])
  \/ CustomerUpdate \/ CustomerQuoteConfirm \/ CustomerCancel

AdminStep == AdminConfirm \/ AdminComplete

TechnicianStep(t) ==
  \/ AssignTechnician(t)
  \/ \E s \in AppointmentStatusEnum : UpdateAppointmentStatus(t, s)
  \/ \E d \in Details, q \in Quotes : Quote(t, d, q)
  \/ \E r \in PartRequests : AddSpareParts(t, r)
  \/ \E withImages \in BOOLEAN : CompleteRepair(t, withImages)

(* The technicianId the token of a caller carries. *)
PaymentCallers == Technicians \cup {None}

Next ==
  \/ CustomerStep \/ AdminStep
  \/ \E t \in Technicians : TechnicianStep(t)
  \/ \E t \in PaymentCallers : TechnicianUpdatePaymentStatus(t)

Spec == Init /\ [][Next]_vars
-----------------------------------------------------------------------------
(* Safety                                                                  *)

BeforePayment == {"confirmed", "en_route", "arrived", "quoted", "quote_confirmed", "in_progress"}

(* A cancelled appointment and its cancelled detail go together: the two    *)
(* writes of customerCancel, the filter of adminConfirm and the checks of   *)
(* customerUpdate never part them.                                          *)
CancelledTogether ==
  apptDetail # None => (apptStatus = "cancelled" <=> detailStatus[apptDetail] = "cancelled")

(* Only the detail with the appointment moves; the others stay confirmed    *)
(* from the creation on, and without an appointment the order stays booked. *)
OthersStayConfirmed ==
  /\ \A d \in OrderDetails \ {apptDetail} : detailStatus[d] = "confirmed"
  /\ apptDetail = None => apptStatus = "none" /\ orderStatus \in {"none", "booked"}
  /\ apptDetail # None => orderStatus # "none" /\ apptStatus # "none" /\ apptDetail \in OrderDetails

(* The order and the detail say the same as the appointment: booked, then   *)
(* confirmed until the repair is done, paid or completed only after it; the *)
(* order is cancelled exactly when the appointment's detail was all it had. *)
OrderFollowsAppointment ==
  /\ apptStatus = "booked" => orderStatus = "booked" /\ detailStatus[apptDetail] = "booked"
  /\ apptStatus \in BeforePayment => orderStatus = "confirmed" /\ detailStatus[apptDetail] = "confirmed"
  /\ apptStatus = "technician_done" =>
       orderStatus \in {"confirmed", "paid", "completed"} /\ detailStatus[apptDetail] = "confirmed"
  /\ apptStatus = "cancelled" => (orderStatus = "cancelled" <=> OrderDetails = {apptDetail})
  /\ apptStatus \notin {"completed"} /\ (orderStatus = "cancelled" => apptStatus = "cancelled")

(* The three status columns, each written by five or more handlers that     *)
(* check at most one of them, agree after every request: no sequence of     *)
(* complete requests brings the tables into disagreement.                   *)
StatusesAgree == CancelledTogether /\ OthersStayConfirmed /\ OrderFollowsAppointment

(* Rows of StatusHistory an appointment must have behind it. *)
Trail(status) ==
  CASE status = "en_route"  -> {<<"confirmed", "en_route">>}
    [] status \in {"arrived", "quoted", "quote_confirmed"} ->
         {<<"confirmed", "en_route">>, <<"en_route", "arrived">>}
    [] status = "in_progress" ->
         {<<"confirmed", "en_route">>, <<"en_route", "arrived">>, <<"quote_confirmed", "in_progress">>}
    [] status = "technician_done" ->
         {<<"confirmed", "en_route">>, <<"en_route", "arrived">>,
          <<"quote_confirmed", "in_progress">>, <<"in_progress", "technician_done">>}
    [] OTHER -> {}

(* The repair can skip nothing: whatever the administrator and the customer *)
(* do in between, an appointment under repair has the StatusHistory row of  *)
(* every earlier step, and an order that is paid or completed has them all. *)
RepairTrail ==
  /\ Trail(apptStatus) \subseteq history
  /\ orderStatus \in {"paid", "completed"} => Trail("technician_done") \subseteq history

(* AppointmentStatus, written by two handlers of the ten, is still right    *)
(* whenever the technician is the one who moved the appointment last.       *)
MirrorIsCurrent ==
  apptStatus \in {"en_route", "arrived", "in_progress", "technician_done"} => mirror = apptStatus

(* adminComplete lets only an order through whose total is exactly the sum  *)
(* of all its details, and nothing unbalances it afterwards.                *)
CompletedIsBalanced == orderStatus = "completed" => totalAmount = SumFinal(Details)

(* Parts leave the stock only into UsedSparePart rows, and the details are  *)
(* charged for exactly the parts used.                                      *)
PartsLedger ==
  /\ stock + used = InitialStock
  /\ MapThenSumSet(LAMBDA d : sparePartPrice[d], Details) = UnitPrice * used

(* Once cancelled, an appointment, its detail and an order of that detail   *)
(* alone never come back, though neither adminConfirm nor the reschedule    *)
(* looks at the order, and the cancellation itself is always allowed.       *)
CancelledIsFinal ==
  [][apptStatus = "cancelled" =>
       /\ apptStatus' = "cancelled"
       /\ orderStatus = "cancelled" => orderStatus' = "cancelled"]_vars

(* The gap between the total and the prices only grows: an order a second   *)
(* quote has unbalanced can never be completed any more.                    *)
GapNeverShrinks ==
  [][totalAmount' - SumFinal(Details)' >= totalAmount - SumFinal(Details)]_vars

-----------------------------------------------------------------------------
(* What documentation, comments and assertions of the code say, and the     *)
(* handlers do not keep.                                                    *)

(* customerQuoteConfirm expects the detail of a quoted appointment to be    *)
(* booked and answers 500 "doesn't have valid status" otherwise.            *)
QuoteConfirmAccepted == apptStatus = "quoted" => detailStatus[apptDetail] = "booked"

(* adminComplete throws "TotalFinnalPrice inconsistence to TotalAmount!"    *)
(* when the total of a paid order is not the sum of its details.            *)
PaidTotalConsistent ==
  orderStatus = "paid" /\ CompletableDetails = OrderDetails => TotalMatches(OrderDetails)

(* "Call the notification functions after the transaction": a status that   *)
(* is pushed has been committed.                                            *)
AnnouncedIsRecorded == \A s \in announced : \E row \in history : row[2] = s

(* ServiceWarranty.serviceId is a copy of the detail's service "for quick   *)
(* queries" (schema).                                                       *)
WarrantyNamesService == \A d \in Details : warranty[d] \in {None, ServiceOf[d]}

(* adminComplete is documented to reject an order with invalid details.     *)
CompletesOnlyValidDetails ==
  [][orderStatus = "paid" /\ orderStatus' = "completed" => CompletableDetails = OrderDetails]_vars

(* adminComplete is documented to require an order that is confirmed.       *)
CompletesConfirmedOrder ==
  [][orderStatus # "completed" /\ orderStatus' = "completed" => orderStatus = "confirmed"]_vars

(* "Update appoitment status also" (adminComplete): the appointment of a    *)
(* completed order is completed, unless it was cancelled.                   *)
CompletionReachesAppointment ==
  orderStatus = "completed" /\ apptDetail # None => apptStatus \in {"completed", "cancelled"}

(* The stock check rejects a request the stock does not cover.              *)
StockNeverNegative == stock >= 0
=============================================================================
