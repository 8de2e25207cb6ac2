-------------------- MODULE MCOrderRequestsRefinement --------------------
(* One slot for requests, an order of up to two details. *)
EXTENDS OrderRequestsRefinement

CONSTANTS d1, d2

MCServiceOf == [d \in Details |-> 1]
MCPartRequests == {[largest |-> 1, total |-> 1], [largest |-> 1, total |-> 2]}
OneQuote == {1}
=============================================================================
