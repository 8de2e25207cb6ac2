--------------------------- MODULE OrderRequests ---------------------------
(***************************************************************************)
(* OrderWorkflow with the handlers taken apart: several requests are under  *)
(* way at once and each await of a handler is a step.  A statement outside  *)
(* a transaction is visible at once.  The writes of a transaction appear    *)
(* together when it commits (PostgreSQL, READ COMMITTED); a row it has      *)
(* written is locked until then, and a second writer of the row waits.      *)
(* A request may also stop between two statements: the process dies, the    *)
(* connection is lost or the transaction times out.  What it wrote outside  *)
(* a transaction stays, its open transaction is rolled back.                *)
(***************************************************************************)
EXTENDS OrderWorkflow

CONSTANTS
  Workers,   \* slots for requests under way
  Calls,     \* the handlers called in this instance
  MayFail    \* whether a request may stop half-way

Handlers ==
  {"customerUpdate", "customerQuoteConfirm", "customerCancel", "adminConfirm", "adminComplete",
   "updateAppointmentStatus", "quote", "addSpareParts", "completeRepair", "updatePaymentStatus"}

ASSUME RequestsAssumption ==
  /\ None \notin Workers
  /\ Calls \subseteq Handlers
  /\ MayFail \in BOOLEAN

VARIABLES
  req,     \* the request of each slot: handler, next statement, argument, value read before
  locked   \* the worker whose transaction has written the appointment's row or its detail's

reqVars == <<req, locked>>
rowVars == <<orderVars, detailVars, apptVars, logVars, stockVars>>
allVars == <<vars, reqVars>>

Idle == [op |-> "idle", at |-> "idle", arg |-> None, saw |-> None]

IdleWorker(w) == req[w].op = "idle"

(* The handler op starts: its first reads have passed their checks.         *)
Begin(w, op, at, arg, saw) ==
  /\ IdleWorker(w) /\ op \in Calls
  /\ req' = [req EXCEPT ![w] = [op |-> op, at |-> at, arg |-> arg, saw |-> saw]]
  /\ UNCHANGED <<rowVars, locked>>

At(w, op, at) == req[w].op = op /\ req[w].at = at

(* Statement from done, statement to comes next. *)
Proceed(w, op, from, to) == At(w, op, from) /\ req' = [req EXCEPT ![w].at = to]

(* The handler returns or throws after the statement from. *)
Return(w, op, from) == At(w, op, from) /\ req' = [req EXCEPT ![w] = Idle]

Free(w, row) == locked[row] \in {None, w}

Lock(w, row) == Free(w, row) /\ locked' = [locked EXCEPT ![row] = w]

(* One UPDATE of a row by primary key, outside a transaction or at commit.  *)
SetAppointment(w, status) == Free(w, "appointment") /\ apptStatus' = status
SetDetail(w, status) ==
  /\ Free(w, "detail")
  /\ detailStatus' = [detailStatus EXCEPT ![apptDetail] = status]

-----------------------------------------------------------------------------
(* Faulty variants, each the slip a maintainer could make in the operator   *)
(* of that name in the next section.                                        *)

CancelsBookedOrder == AllCancelled(detailStatus) /\ orderStatus = "booked"
StockFromSnapshot(w) == req[w].saw - req[w].arg.total
KeepsLock(row) == UNCHANGED locked

-----------------------------------------------------------------------------

Unlock(row) == locked' = [locked EXCEPT ![row] = None]

(* customerCancel gives the order up when no detail of it is left. *)
CancelEndsOrder == AllCancelled(detailStatus)

(* The decrement of quantityInStock is computed by the database from the    *)
(* row as it is, not from the stock the request has read.                   *)
StockLeft(w) == StockAfter(req[w].arg)

-----------------------------------------------------------------------------
(* customerUpdate: the appointment is read and written through              *)
(* this.prisma, outside the transaction that holds the other two writes.    *)

CustomerUpdateStep(w) ==
  LET op == "customerUpdate" IN
  \/ /\ apptStatus \in {"booked", "confirmed"}
     /\ rescheduleCount < MaxReschedules
     /\ Begin(w, op, "appointment", None, rescheduleCount)
  \/ /\ Proceed(w, op, "appointment", "readDetail")
     /\ SetAppointment(w, "booked")
     /\ rescheduleCount' = req[w].saw + 1
     /\ UNCHANGED <<orderVars, detailVars, apptDetail, technician, logVars, stockVars, locked>>
  \/ /\ Proceed(w, op, "readDetail", "detail")
     /\ detailStatus[apptDetail] \in {"booked", "confirmed"}
     /\ UNCHANGED <<rowVars, locked>>
  \/ /\ Return(w, op, "readDetail")
     /\ detailStatus[apptDetail] \notin {"booked", "confirmed"}
     /\ UNCHANGED <<rowVars, locked>>
  \/ /\ Proceed(w, op, "detail", "readOrder")
     /\ Lock(w, "detail")
     /\ UNCHANGED rowVars
  \/ /\ Proceed(w, op, "readOrder", "commit")
     /\ orderStatus \in {"booked", "confirmed"}
     /\ UNCHANGED <<rowVars, locked>>
  \/ /\ Return(w, op, "readOrder")
     /\ orderStatus \notin {"booked", "confirmed"}
     /\ Unlock("detail")
     /\ UNCHANGED rowVars
  \/ /\ Return(w, op, "commit")
     /\ SetDetail(w, "booked")
     /\ orderStatus' = "booked"
     /\ Unlock("detail")
     /\ UNCHANGED <<totalAmount, finalPrice, sparePartPrice, apptVars, logVars, stockVars>>

(* customerQuoteConfirm, no transaction. *)
QuoteConfirmStep(w) ==
  LET op == "customerQuoteConfirm" IN
  \/ /\ apptStatus = "quoted"
     /\ Begin(w, op, "appointment", None, None)
  \/ /\ Proceed(w, op, "appointment", "readDetail")
     /\ SetAppointment(w, "quote_confirmed")
     /\ UNCHANGED <<orderVars, detailVars, apptDetail, technician, rescheduleCount, logVars,
                    stockVars, locked>>
  \/ /\ Proceed(w, op, "readDetail", "detail")
     /\ detailStatus[apptDetail] = "booked"
     /\ UNCHANGED <<rowVars, locked>>
  \/ /\ Return(w, op, "readDetail")
     /\ detailStatus[apptDetail] # "booked"
     /\ UNCHANGED <<rowVars, locked>>
  \/ /\ Return(w, op, "detail")
     /\ SetDetail(w, "confirmed")
     /\ UNCHANGED <<orderVars, finalPrice, sparePartPrice, apptVars, logVars, stockVars, locked>>

(* customerCancel, no transaction. *)
CancelStep(w) ==
  LET op == "customerCancel" IN
  \/ /\ apptStatus # "none"
     /\ Begin(w, op, "appointment", None, None)
  \/ /\ Proceed(w, op, "appointment", "detail")
     /\ SetAppointment(w, "cancelled")
     /\ UNCHANGED <<orderVars, detailVars, apptDetail, technician, rescheduleCount, logVars,
                    stockVars, locked>>
  \/ /\ Proceed(w, op, "detail", "readDetails")
     /\ SetDetail(w, "cancelled")
     /\ UNCHANGED <<orderVars, finalPrice, sparePartPrice, apptVars, logVars, stockVars, locked>>
  \/ /\ Proceed(w, op, "readDetails", "order")
     /\ CancelEndsOrder
     /\ UNCHANGED <<rowVars, locked>>
  \/ /\ Return(w, op, "readDetails")
     /\ ~CancelEndsOrder
     /\ UNCHANGED <<rowVars, locked>>
  \/ /\ Return(w, op, "order")
     /\ orderStatus' = "cancelled"
     /\ UNCHANGED <<totalAmount, detailVars, apptVars, logVars, stockVars, locked>>

-----------------------------------------------------------------------------
(* adminConfirm, no transaction. *)
ConfirmStep(w) ==
  LET op == "adminConfirm" IN
  \/ /\ apptDetail # None /\ Confirmable(apptDetail)
     /\ Begin(w, op, "appointment", None, None)
  \/ /\ Proceed(w, op, "appointment", "detail")
     /\ SetAppointment(w, "confirmed")
     /\ UNCHANGED <<orderVars, detailVars, apptDetail, technician, rescheduleCount, logVars,
                    stockVars, locked>>
  \/ /\ Proceed(w, op, "detail", "order")
     /\ SetDetail(w, "confirmed")
     /\ UNCHANGED <<orderVars, finalPrice, sparePartPrice, apptVars, logVars, stockVars, locked>>
  \/ /\ Return(w, op, "order")
     /\ orderStatus' = "confirmed"
     /\ UNCHANGED <<totalAmount, detailVars, apptVars, logVars, stockVars, locked>>

(* adminComplete, no transaction: the total compared is the one read with   *)
(* the order, before the details.                                           *)
CompleteStep(w) ==
  LET op == "adminComplete"
      accepted == CompletableDetails # {} /\ SumFinal(CompletableDetails) = req[w].saw
  IN
  \/ /\ orderStatus = "paid"
     /\ Begin(w, op, "readDetails", None, totalAmount)
  \/ /\ Proceed(w, op, "readDetails", "order")
     /\ accepted
     /\ UNCHANGED <<rowVars, locked>>
  \/ /\ Return(w, op, "readDetails")
     /\ ~accepted
     /\ UNCHANGED <<rowVars, locked>>
  \/ /\ Return(w, op, "order")
     /\ orderStatus' = "completed"
     /\ UNCHANGED <<totalAmount, detailVars, apptVars, logVars, stockVars, locked>>

-----------------------------------------------------------------------------
(* updateAppointmentStatus, one transaction: the push through socket and    *)
(* FCM is queued after the appointment's UPDATE and runs before the commit. *)
UpdateStatusStep(w) ==
  LET op == "updateAppointmentStatus" IN
  \/ \E new \in TechnicianUpdateStatuses :
       /\ technician # None
       /\ <<apptStatus, new>> \in ValidStatusTransitions
       /\ Begin(w, op, "push", new, apptStatus)
  \/ /\ Proceed(w, op, "push", "commit")
     /\ Lock(w, "appointment")
     /\ announced' = announced \cup {req[w].arg}
     /\ UNCHANGED <<orderVars, detailVars, apptVars, mirror, history, warranty, stockVars>>
  \/ /\ Return(w, op, "commit")
     /\ SetAppointment(w, req[w].arg)
     /\ mirror' = req[w].arg
     /\ history' = history \cup {<<req[w].saw, req[w].arg>>}
     /\ Unlock("appointment")
     /\ UNCHANGED <<orderVars, detailVars, apptDetail, technician, rescheduleCount, announced,
                    warranty, stockVars>>

(* completeRepair, one transaction, pushing likewise; the warranty insert   *)
(* comes last and may fail the whole.                                       *)
CompleteRepairStep(w) ==
  LET op == "completeRepair"
      accepted == req[w].arg => warranty[apptDetail] = None /\ OrderId \in Services
  IN
  \/ \E withImages \in BOOLEAN :
       /\ technician # None
       /\ apptStatus = "in_progress"
       /\ Begin(w, op, "push", withImages, None)
  \/ /\ Proceed(w, op, "push", "commit")
     /\ Lock(w, "appointment")
     /\ announced' = announced \cup {"technician_done"}
     /\ UNCHANGED <<orderVars, detailVars, apptVars, mirror, history, warranty, stockVars>>
  \/ /\ Return(w, op, "commit")
     /\ accepted
     /\ SetAppointment(w, "technician_done")
     /\ mirror' = "technician_done"
     /\ history' = history \cup {<<"in_progress", "technician_done">>}
     /\ warranty' = IF req[w].arg THEN [warranty EXCEPT ![apptDetail] = OrderId] ELSE warranty
     /\ Unlock("appointment")
     /\ UNCHANGED <<orderVars, detailVars, apptDetail, technician, rescheduleCount, announced, stockVars>>
  \/ /\ Return(w, op, "commit")
     /\ ~accepted
     /\ Unlock("appointment")
     /\ UNCHANGED rowVars

(* quote, one transaction: the total is read before and written as an       *)
(* absolute value.                                                          *)
QuoteStep(w) ==
  LET op == "quote"
      total == req[w].saw + req[w].arg.quote
  IN
  \/ \E d \in OrderDetails, q \in Quotes :
       /\ technician # None
       /\ apptStatus \in {"arrived", "in_progress"}
       /\ Begin(w, op, "readOrder", [detail |-> d, quote |-> q], None)
  \/ /\ At(w, op, "readOrder")
     /\ req' = [req EXCEPT ![w].at = "commit", ![w].saw = totalAmount]
     /\ UNCHANGED <<rowVars, locked>>
  \/ /\ Return(w, op, "commit")
     /\ FitsInt(total)
     /\ req[w].arg.detail = apptDetail => Free(w, "detail")
     /\ finalPrice' = [finalPrice EXCEPT ![req[w].arg.detail] = req[w].arg.quote]
     /\ SetAppointment(w, "quoted")
     /\ totalAmount' = total
     /\ UNCHANGED <<orderStatus, detailStatus, sparePartPrice, apptDetail, technician,
                    rescheduleCount, logVars, stockVars, locked>>
  \/ /\ Return(w, op, "commit")
     /\ ~FitsInt(total)
     /\ UNCHANGED <<rowVars, locked>>

(* addSpareParts, one transaction; the stock is read through this.prisma,   *)
(* the amounts are increments.                                              *)
SparePartsStep(w) ==
  LET op == "addSpareParts"
      cost == UnitPrice * req[w].arg.total
      fits == /\ FitsInt(finalPrice[apptDetail] + cost)
              /\ FitsInt(sparePartPrice[apptDetail] + cost)
              /\ FitsInt(totalAmount + cost)
  IN
  \/ \E r \in PartRequests :
       /\ technician # None
       /\ r.largest <= stock
       /\ Begin(w, op, "commit", r, stock)
  \/ /\ Return(w, op, "commit")
     /\ fits
     /\ Free(w, "detail")
     /\ used' = used + req[w].arg.total
     /\ stock' = StockLeft(w)
     /\ sparePartPrice' = [sparePartPrice EXCEPT ![apptDetail] = @ + cost]
     /\ finalPrice' = [finalPrice EXCEPT ![apptDetail] = @ + cost]
     /\ totalAmount' = TotalWithParts(cost)
     /\ UNCHANGED <<orderStatus, detailStatus, apptVars, logVars, locked>>
  \/ /\ Return(w, op, "commit")
     /\ ~fits
     /\ UNCHANGED <<rowVars, locked>>

(* technicianUpdatePaymentStatus, no transaction. *)
PaymentStep(w) ==
  LET op == "updatePaymentStatus"
      accepted == (\E d \in Details : detailStatus[d] = "confirmed") /\ req[w].saw = "technician_done"
  IN
  \/ /\ orderStatus = "confirmed"
     /\ Begin(w, op, "readAppointment", None, None)
  \/ /\ At(w, op, "readAppointment")
     /\ IF apptStatus # "none"
        THEN req' = [req EXCEPT ![w].at = "readDetails", ![w].saw = apptStatus]
        ELSE req' = [req EXCEPT ![w] = Idle]
     /\ UNCHANGED <<rowVars, locked>>
  \/ /\ Proceed(w, op, "readDetails", "order")
     /\ accepted
     /\ UNCHANGED <<rowVars, locked>>
  \/ /\ Return(w, op, "readDetails")
     /\ ~accepted
     /\ UNCHANGED <<rowVars, locked>>
  \/ /\ Return(w, op, "order")
     /\ orderStatus' = "paid"
     /\ UNCHANGED <<totalAmount, detailVars, apptVars, logVars, stockVars, locked>>

-----------------------------------------------------------------------------

RequestStep(w) ==
  \/ CustomerUpdateStep(w) \/ QuoteConfirmStep(w) \/ CancelStep(w)
  \/ ConfirmStep(w) \/ CompleteStep(w)
  \/ UpdateStatusStep(w) \/ CompleteRepairStep(w) \/ QuoteStep(w) \/ SparePartsStep(w)
  \/ PaymentStep(w)

(* The request stops; the database rolls its open transaction back. *)
Fail(w) ==
  /\ MayFail /\ ~IdleWorker(w)
  /\ req' = [req EXCEPT ![w] = Idle]
  /\ locked' = [row \in DOMAIN locked |-> IF locked[row] = w THEN None ELSE locked[row]]
  /\ UNCHANGED rowVars

(* createServiceOrder writes rows no other request can see before it        *)
(* commits, so it stays one step; so does the external assignment.          *)
RInit ==
  /\ Init
  /\ req = [w \in Workers |-> Idle]
  /\ locked = [row \in {"appointment", "detail"} |-> None]

RNext ==
  \/ /\ \/ \E form \in OrderForms : CreateServiceOrder(form[1], form[2])
        \/ \E t \in Technicians : AssignTechnician(t)
     /\ UNCHANGED reqVars
  \/ \E w \in Workers : RequestStep(w) \/ Fail(w)

RSpec == RInit /\ [][RNext]_allVars

(* A statement under way is answered by the database sooner or later, and   *)
(* PostgreSQL grants a row lock in the order of the waiters.                *)
Moving(w) == ~IdleWorker(w) /\ RequestStep(w)
FairRSpec == RSpec /\ \A w \in Workers : SF_allVars(Moving(w))
-----------------------------------------------------------------------------
(* Properties.  RepairTrail and PartsLedger of OrderWorkflow hold           *)
(* here too, at every statement: no overlap and no crash can pay an order   *)
(* whose repair is not on record, or lose a part.                           *)

(* Row locks are taken by several handlers in several orders, and a waiting *)
(* request holds a connection; still every request ends, whatever other     *)
(* requests keep arriving.                                                  *)
EveryRequestEnds == \A w \in Workers : ~IdleWorker(w) ~> IdleWorker(w)

CancelReturns(w) ==
  \/ At(w, "customerCancel", "readDetails") /\ ~AllCancelled(detailStatus) /\ IdleWorker(w)'
  \/ At(w, "customerCancel", "order") /\ orderStatus' = "cancelled"

(* customerCancel has no transaction and can stop after its first UPDATE.   *)
(* As long as requests do not overlap, sending it again repairs that: a     *)
(* cancellation that reaches its end, whatever earlier ones left half done, *)
(* leaves appointment and detail cancelled, and the order too when no       *)
(* detail is left.                                                          *)
CancelRepairs ==
  [][\A w \in Workers : CancelReturns(w) =>
       /\ apptStatus' = "cancelled" /\ detailStatus'[apptDetail] = "cancelled"
       /\ AllCancelled(detailStatus)' => orderStatus' = "cancelled"]_allVars

-----------------------------------------------------------------------------
(* What comments and checks of the code say and overlapping or interrupted  *)
(* requests do not keep.                                                    *)

(* customerUpdate throws 'Exceeded reschedule time!' at the third change of *)
(* date, so each change must count.                                         *)
EveryRescheduleCounts ==
  [][\A w \in Workers : At(w, "customerUpdate", "appointment") /\ At(w, "customerUpdate", "readDetail")'
       => rescheduleCount' = rescheduleCount + 1]_allVars

(* "if all details have cancel status => go to update the status of         *)
(* serviceOrder to cancel" (customerCancel).                                *)
NoDetailLeftNoOrder ==
  /\ \A w \in Workers : IdleWorker(w)
  /\ OrderDetails # {} /\ AllCancelled(detailStatus)
  => orderStatus = "cancelled"

(* VALID_STATUS_TRANSITIONS leads nowhere from cancelled, and every handler *)
(* that moves an appointment checks its status first.                       *)
CancelledStays == [][apptStatus = "cancelled" => apptStatus' = "cancelled"]_allVars
=============================================================================
