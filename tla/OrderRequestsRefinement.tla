----------------------- MODULE OrderRequestsRefinement -----------------------
(***************************************************************************)
(* Requests that do not overlap and are not interrupted do what the actions *)
(* of OrderWorkflow say: OrderRequests with one worker implements it.  The  *)
(* abstract rows change when a request ends; until then they are what they  *)
(* were when it began, which the history variable before remembers.  The    *)
(* technician, whom no request sets, changes as it does.                    *)
(***************************************************************************)
EXTENDS OrderRequests

VARIABLE before  \* the rows when the request under way began

AllIdle == \A w \in Workers : IdleWorker(w)

Rows ==
  [orderStatus |-> orderStatus, totalAmount |-> totalAmount, detailStatus |-> detailStatus,
   finalPrice |-> finalPrice, sparePartPrice |-> sparePartPrice, apptDetail |-> apptDetail,
   apptStatus |-> apptStatus, rescheduleCount |-> rescheduleCount,
   mirror |-> mirror, history |-> history, announced |-> announced, warranty |-> warranty,
   stock |-> stock, used |-> used]

HInit == RInit /\ before = Rows
HNext == RNext /\ before' = IF AllIdle' THEN Rows' ELSE before
HSpec == HInit /\ [][HNext]_<<allVars, before>>

Workflow == INSTANCE OrderWorkflow WITH
  orderStatus <- before.orderStatus, totalAmount <- before.totalAmount,
  detailStatus <- before.detailStatus, finalPrice <- before.finalPrice,
  sparePartPrice <- before.sparePartPrice, apptDetail <- before.apptDetail,
  apptStatus <- before.apptStatus, rescheduleCount <- before.rescheduleCount, mirror <- before.mirror,
  history <- before.history, announced <- before.announced, warranty <- before.warranty,
  stock <- before.stock, used <- before.used

(* One request at a time, from its first read to its last write, is one     *)
(* step of OrderWorkflow or changes nothing, throwing half-way included.    *)
ImplementsWorkflow == Workflow!Spec
=============================================================================
