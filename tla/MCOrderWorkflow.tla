-------------------------- MODULE MCOrderWorkflow --------------------------
(***************************************************************************)
(* OrderWorkflow on a small instance: an order of up to two details, two    *)
(* technicians, quotes of 0 and 2, parts of price 1, amounts up to MaxInt.  *)
(***************************************************************************)
EXTENDS OrderWorkflow

CONSTANTS d1, d2

MCQuotes == {0, 2}
MCPartRequests == {[largest |-> 1, total |-> 1], [largest |-> 1, total |-> 2]}
MCServiceOf == [d \in Details |-> IF d = d1 THEN 1 ELSE 2]
=============================================================================
