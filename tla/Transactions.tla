---------------------------- MODULE Transactions ----------------------------
(* The handlers of SparePartStock and StatusPush on one pool of connections. *)
EXTENDS SparePartStock, StatusPush

vars == <<poolVars, stockVars, pushVars>>

Init == PoolInit /\ StockInit /\ PushInit

(* What a request does, or what is done about it while it waits. *)
Proceed(w) ==
  \/ StockStep(w) /\ UNCHANGED pushVars
  \/ PushStep(w) /\ UNCHANGED stockVars
  \/ (WaitedTooLong(w) \/ IsClosed(w) \/ BreakDeadlock(w)) /\ UNCHANGED <<stockVars, pushVars>>

TimeOut(w) == Expire(w) /\ UNCHANGED <<stockVars, pushVars>>

Next ==
  \/ \E w \in Workers :
       \/ \E c \in todo : Arrive(w, c) /\ UNCHANGED <<stockVars, pushVars>>
       \/ Proceed(w)
       \/ TimeOut(w)
  \/ PushEnvironment /\ UNCHANGED stockVars

(* Statements get their answer, the time limits and the deadlock detector   *)
(* do their work.  Nothing is assumed about clients.                        *)
Fairness == \A w \in Workers : WF_vars(Proceed(w)) /\ WF_vars(TimeOut(w))

Spec == Init /\ [][Next]_vars /\ Fairness

-----------------------------------------------------------------------------
(* Properties. *)

Steps == {"idle", "begin", "stock", "part", "outside", "check", "update", "commit"}

TypeOK ==
  /\ \E i \in Instances : poolSize = i.connections /\ todo \cup committed \subseteq i.calls
  /\ \A w \in Workers : job[w].at \in Steps /\ job[w].open \in BOOLEAN
  /\ locked \in [Rows -> Workers \cup {None}]
  /\ stock \in [Parts -> Int] /\ contended \subseteq Parts
  /\ status \in recorded
  /\ clients \in [UserIds -> Sockets \cup {None}]
  /\ live \subseteq ToSet(connected)
  /\ \A i \in DOMAIN queue : queue[i].to \in UserIds
  /\ DOMAIN received = Sockets

(* Requests come to a standstill, every one of them waiting, in two ways    *)
(* only: transactions that need a second connection hold all there are      *)
(* (appointments.service.ts:630, :849, :866), or lock each other out        *)
(* (appointments.service.ts:676).  Neither a request that is waiting for    *)
(* its first connection nor one that has ended keeps the others from        *)
(* moving.                                                                  *)
StandstillIsExplained ==
  LET busy == {w \in Workers : Busy(w)}
  IN busy # {} /\ (\A w \in busy : Blocked(w)) =>
       \/ Cardinality({w \in busy : job[w].open /\ Outside(w)}) = poolSize
       \/ \E S \in SUBSET busy : Deadlocked(S)

(* Every request is answered in the end, whatever pool and locks it needs.  *)
EveryRequestEnds == \A w \in Workers : Busy(w) ~> ~Busy(w)
=============================================================================
