-------------------------- MODULE MCOrderRequests --------------------------
(***************************************************************************)
(* OrderRequests on small instances: two slots for requests, an order of    *)
(* one detail, parts and quotes of price 1.  In the run of all handlers the *)
(* order's id is no service's, so that a repair completed with images fails *)
(* on the foreign key and one without images does not.                      *)
(***************************************************************************)
EXTENDS OrderRequests, TLC

CONSTANTS d1, d2, w1, w2

MCServiceOf == [d \in Details |-> 1]
OnePart == {[largest |-> 1, total |-> 1]}
AllHandlers == Handlers
FreeQuote == {0}
OneQuote == {1}

LockingHandlers ==
  {"adminConfirm", "customerUpdate", "updateAppointmentStatus", "quote",
   "customerQuoteConfirm", "customerCancel", "completeRepair"}
CancelHandlers == {"customerUpdate", "customerCancel"}

(* The slots are alike; the cfg of a liveness run does not use it. *)
AlikeWorkers == Permutations(Workers)

(* What is pushed and the AppointmentStatus row are written and never read  *)
(* by a handler: states that differ in them alone have the same future.     *)
Observed == <<orderVars, detailVars, apptVars, history, warranty, stockVars, reqVars>>
=============================================================================
