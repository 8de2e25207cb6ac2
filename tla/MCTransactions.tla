--------------------------- MODULE MCTransactions ---------------------------
(* Two requests at a time over one to three connections: lists of two parts  *)
(* in either order and with repetitions, status changes, and a mixture.      *)
EXTENDS Transactions

CONSTANTS p1, p2, w1, w2, s1, s2, s3

Item(part, n) == [part |-> part, quantity |-> n]
List(items) == [kind |-> "parts", list |-> items]
Change(to, nr) == [kind |-> "status", new |-> to, nr |-> nr]

MCInstances ==
  {[connections |-> 3,
    calls |-> {List(<<Item(p1, 1), Item(p2, 1)>>), List(<<Item(p2, 1), Item(p1, 1)>>), List(<<Item(p1, 2), Item(p1, 2)>>)}],
   [connections |-> 3,
    calls |-> {List(<<Item(p1, 1), Item(p2, 2)>>), List(<<Item(p1, 2), Item(p2, 1)>>)}],
   [connections |-> 1,
    calls |-> {List(<<Item(p1, 2), Item(p1, 2)>>), List(<<Item(p2, 3)>>)}],
   [connections |-> 2,
    calls |-> {[kind |-> "customerUpdate"], List(<<Item(p1, 1)>>), Change("en_route", 1), Connection(s1)}],
   [connections |-> 2,
    calls |-> {Change("en_route", 1), Change("en_route", 2), Change("arrived", 1),
               Connection(s1), Connection(s2)}],
   [connections |-> 2,
    calls |-> {Change("en_route", 1), Change("arrived", 1), Change("in_progress", 1),
               Change("technician_done", 1), Connection(s3)}]}

MCPartId == (p1 :> 1) @@ (p2 :> 2)
MCInitialStock == [p \in {p1, p2} |-> 2]

(* The technician's user is 1, his id in Technicians 2; user 2 is another.  *)
MCUserOf == [s \in {s1, s2, s3} |-> IF s = s3 THEN 2 ELSE 1]
=============================================================================
