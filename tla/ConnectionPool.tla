--------------------------- MODULE ConnectionPool ---------------------------
(***************************************************************************)
(* Requests that run in an interactive transaction of the Prisma client: a  *)
(* connection of the pool that is kept until the end, row locks, a time     *)
(* limit.  A statement through this.prisma, inside the callback but outside *)
(* the transaction, needs a connection of its own.                          *)
(*                                                                         *)
(* Every call of an instance is sent once, and every socket connects once.  *)
(***************************************************************************)
EXTENDS Integers, FiniteSets

CONSTANTS
  Workers,   \* slots for requests under way
  Instances, \* what is run: calls clients may send, connections of the pool
  Rows,      \* rows that transactions write
  None       \* no worker

ASSUME PoolAssumption ==
  /\ \A i \in Instances : i.connections \in Nat \ {0}
  /\ None \notin Workers

VARIABLES
  poolSize,  \* connections of the pool
  todo,      \* calls not sent yet
  job,       \* the request of each slot
  locked,    \* the worker whose transaction has written a row
  committed  \* calls whose transaction has committed

poolVars == <<poolSize, todo, job, locked, committed>>

Idle == [at |-> "idle", open |-> FALSE]

Busy(w) == job[w].at # "idle"
Runs(w, kind) == Busy(w) /\ job[w].call.kind = kind

PoolInit ==
  /\ \E i \in Instances : todo = i.calls /\ poolSize = i.connections
  /\ job = [w \in Workers |-> Idle]
  /\ locked = [r \in Rows |-> None]
  /\ committed = {}

-----------------------------------------------------------------------------
(* Faulty variants: an expired transaction leaves its locks, only the       *)
(* commit finds out that a transaction has expired.                         *)

KeepsLocks(w) == locked
OnlyAtCommit(w) == job[w].at = "commit" /\ ~job[w].open

Released(w) == [r \in Rows |-> IF locked[r] = w THEN None ELSE locked[r]]

(* The next statement of the request is one of a transaction that has gone. *)
FindsClosed(w) ==
  /\ job[w].at \notin {"idle", "begin", "stock", "outside"}
  /\ ~job[w].open

FreeConnection == Cardinality({w \in Workers : job[w].open}) < poolSize

(* A request arrives and waits for a connection. *)
Arrive(w, c) ==
  /\ job[w] = Idle
  /\ c \in todo /\ c.kind # "connect"
  /\ todo' = todo \ {c}
  /\ job' = [job EXCEPT ![w] = [at |-> "begin", call |-> c, open |-> FALSE]]
  /\ UNCHANGED <<poolSize, locked, committed>>

(* $transaction: the callback starts on its connection with job j. *)
Open(w, j) ==
  /\ job[w].at = "begin"
  /\ FreeConnection
  /\ job' = [job EXCEPT ![w] = j]
  /\ UNCHANGED <<poolSize, todo, locked, committed>>

(* A statement of the transaction that writes no row; then job j. *)
Reads(w, step, j) ==
  /\ job[w].at = step /\ job[w].open
  /\ job' = [job EXCEPT ![w] = j]
  /\ UNCHANGED <<poolSize, todo, locked, committed>>

(* A statement through this.prisma; whether the transaction is still open   *)
(* does not matter to it.                                                   *)
ReadsOutside(w, step, j) ==
  /\ job[w].at = step
  /\ FreeConnection
  /\ job' = [job EXCEPT ![w] = j]
  /\ UNCHANGED <<poolSize, todo, locked, committed>>

(* A statement of the transaction that writes a row: it waits for the row,  *)
(* and locks it until the end.                                              *)
Writes(w, step, row, j) ==
  /\ job[w].at = step /\ job[w].open
  /\ locked[row] \in {None, w}
  /\ locked' = [locked EXCEPT ![row] = w]
  /\ job' = [job EXCEPT ![w] = j]
  /\ UNCHANGED <<poolSize, todo, committed>>

Commit(w) ==
  /\ job[w].at = "commit" /\ job[w].open
  /\ committed' = committed \cup {job[w].call}
  /\ locked' = Released(w)
  /\ job' = [job EXCEPT ![w] = Idle]
  /\ UNCHANGED <<poolSize, todo>>

(* The handler throws: the transaction is rolled back. *)
Throw(w) ==
  /\ locked' = Released(w)
  /\ job' = [job EXCEPT ![w] = Idle]
  /\ UNCHANGED <<poolSize, todo, committed>>

(* A statement of the transaction fails, or a check after it does. *)
ThrowsAt(w, step) == job[w].at = step /\ job[w].open /\ Throw(w)

-----------------------------------------------------------------------------
(* What a request waits for. *)

Outside(w) == job[w].at \in {"stock", "outside"}

(* The row the next statement writes. *)
Wanted(w) ==
  IF job[w].at = "part" THEN {job[w].call.list[i].part : i \in job[w].items}
  ELSE IF job[w].at = "update" \/ (job[w].at = "outside" /\ job[w].left = 1)
         THEN {"appointment"} ELSE {}

WaitsFor(w, u) ==
  u # w /\ (job[w].open \/ Outside(w)) /\ \E r \in Wanted(w) : locked[r] = u

(* Every request of the set waits for another one of it. *)
Deadlocked(S) == S # {} /\ \A w \in S : \E u \in S : WaitsFor(w, u)

(* No statement of the request can run as things are.                       *)
Blocked(w) ==
  \/ job[w].at = "begin" /\ ~FreeConnection
  \/ Outside(w) /\ ~FreeConnection
  \/ \E u \in Workers : WaitsFor(w, u)

(* The time limits: of the wait for a connection (maxWait, pool_timeout),   *)
(* and of the transaction, whose connection and locks are given back while  *)
(* its callback goes on; the next statement of the transaction throws.      *)
WaitedTooLong(w) ==
  /\ job[w].at = "begin" \/ Outside(w)
  /\ ~FreeConnection
  /\ Throw(w)

Expire(w) ==
  /\ job[w].open
  /\ locked' = Released(w)
  /\ job' = [job EXCEPT ![w].open = FALSE]
  /\ UNCHANGED <<poolSize, todo, committed>>

IsClosed(w) == FindsClosed(w) /\ Throw(w)

(* PostgreSQL finds a cycle of waiting transactions and aborts one of them. *)
BreakDeadlock(w) ==
  /\ \E S \in SUBSET Workers : w \in S /\ Deadlocked(S)
  /\ Throw(w)
=============================================================================
