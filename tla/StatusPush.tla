----------------------------- MODULE StatusPush -----------------------------
(***************************************************************************)
(* The push channel: updateAppointmentStatus and completeRepair queue the   *)
(* new status with setImmediate from inside their transaction; the event    *)
(* loop hands it to the socket the gateway has for a user id.  The status   *)
(* is moved by others too, who push nothing: customerUpdate, a transaction  *)
(* that reads and writes the appointment outside of it, quotes and their    *)
(* confirmation, and adminConfirm.  There is one appointment and one        *)
(* technician.                                                              *)
(***************************************************************************)
EXTENDS ConnectionPool, Sequences, SequencesExt

CONSTANTS
  Sockets,       \* connections of users, each made once
  UserOf,        \* the user id each socket says it is
  TechnicianUser,  \* user id of the technician
  TechnicianId,    \* his id in Technicians
  FirstStatus    \* currentStatus in the beginning

ASSUME PushAssumption == None \notin Sockets

VARIABLES
  status,     \* Appointment.currentStatus
  recorded,   \* the statuses it has had
  queue,      \* pushes the event loop has not run yet
  pushed,     \* all pushes ever queued
  clients,    \* SocketGateway.clients: the socket of a user id
  live,       \* sockets whose other end is there
  connected,  \* sockets in the order they connected
  received    \* what each socket was sent

pushVars == <<status, recorded, queue, pushed, clients, live, connected, received>>

UserIds == {UserOf[s] : s \in Sockets} \cup {TechnicianUser, TechnicianId}

PushInit ==
  /\ status = FirstStatus
  /\ recorded = {FirstStatus}
  /\ queue = <<>> /\ pushed = <<>>
  /\ clients = [u \in UserIds |-> None]
  /\ live = {} /\ connected = <<>>
  /\ received = [s \in Sockets |-> <<>>]

StatusSteps ==
  {<<"confirmed", "en_route">>, <<"en_route", "arrived">>,
   <<"quote_confirmed", "in_progress">>, <<"in_progress", "technician_done">>}

(* customerUpdate: validateStatus. *)
Reschedulable == {"booked", "confirmed"}

-----------------------------------------------------------------------------
(* Faulty variants: the id handed over is missing, any status may follow    *)
(* any, what a dead socket did not get is tried again later.                *)

NoAddressee(new) == None
AnyTransition(from, to) == TRUE
TriedAgain(q) == IF clients[Head(q).to] \in live THEN Tail(q) ELSE Append(Tail(q), Head(q))

(* updateAppointmentStatus and completeRepair: which status may follow.     *)
Follows(from, to) == <<from, to>> \in StatusSteps

(* setImmediate: callbacks run in the order they were queued. *)
Enqueue(q, push) == Append(q, push)

(* sendToUser sends once: what a socket that is gone is sent is lost. *)
SentOnce(q) == Tail(q)

(* The user id a handler hands to the socket service: that of the           *)
(* technician's user, and for completeRepair his id in Technicians.         *)
Addressee(new) == IF new = "technician_done" THEN TechnicianId ELSE TechnicianUser

-----------------------------------------------------------------------------
(* The two handlers have the same statements. *)

OpenStatus(w) ==
  /\ Runs(w, "status")
  /\ Open(w, [at |-> "check", call |-> job[w].call, open |-> TRUE])
  /\ UNCHANGED pushVars

(* The appointment is read and the transition checked. *)
CheckStatus(w) ==
  /\ Runs(w, "status")
  /\ LET c == job[w].call
     IN IF Follows(status, c.new)
          THEN Reads(w, "check", [job[w] EXCEPT !.at = "update"])
          ELSE ThrowsAt(w, "check")
  /\ UNCHANGED pushVars

(* appointment.update and the upsert of its mirror; setImmediate. *)
UpdateStatus(w) ==
  /\ Runs(w, "status")
  /\ Writes(w, "update", "appointment", [job[w] EXCEPT !.at = "commit"])
  /\ LET push == [to |-> Addressee(job[w].call.new), status |-> job[w].call.new]
     IN /\ queue' = Enqueue(queue, push)
        /\ pushed' = Append(pushed, push)
  /\ UNCHANGED <<status, recorded, clients, live, connected, received>>

(* statusHistory.create, or what completeRepair inserts, then the commit.   *)
CommitStatus(w) ==
  /\ Runs(w, "status")
  /\ \/ Commit(w) /\ status' = job[w].call.new /\ recorded' = recorded \cup {status'}
     \/ ThrowsAt(w, "commit") /\ UNCHANGED <<status, recorded>>
  /\ UNCHANGED <<queue, pushed, clients, live, connected, received>>

(* customerUpdate: findById and updatePartial go through this.prisma; the   *)
(* second writes the appointment, at once and for good.                     *)
OpenUpdate(w) ==
  /\ Runs(w, "customerUpdate")
  /\ Open(w, [at |-> "outside", call |-> job[w].call, open |-> TRUE, left |-> 2])
  /\ UNCHANGED pushVars

(* The appointment may be another customer's, or rescheduled too often.     *)
FindAppointment(w) ==
  /\ Runs(w, "customerUpdate")
  /\ job[w].at = "outside" /\ job[w].left = 2
  /\ \/ /\ status \in Reschedulable
        /\ ReadsOutside(w, "outside", [job[w] EXCEPT !.left = 1])
     \/ FreeConnection /\ Throw(w)
  /\ UNCHANGED pushVars

UpdatePartial(w) ==
  /\ Runs(w, "customerUpdate")
  /\ job[w].at = "outside" /\ job[w].left = 1
  /\ locked["appointment"] = None
  /\ ReadsOutside(w, "outside", [job[w] EXCEPT !.left = 0, !.at = "commit"])
  /\ status' = "booked" /\ recorded' = recorded \cup {status'}
  /\ UNCHANGED <<queue, pushed, clients, live, connected, received>>

(* The statuses of detail and order are checked and written, the detail     *)
(* first as everywhere; their rows are left out as in CommitParts.          *)
CommitUpdate(w) ==
  /\ Runs(w, "customerUpdate")
  /\ Commit(w) \/ ThrowsAt(w, "commit")
  /\ UNCHANGED pushVars

(* quote and customerQuoteConfirm, which push nothing. *)
QuoteAndConfirm ==
  /\ status = "arrived"
  /\ locked["appointment"] = None
  /\ status' = "quote_confirmed"
  /\ recorded' = recorded \cup {status'}
  /\ UNCHANGED <<poolVars, queue, pushed, clients, live, connected, received>>

(* adminConfirm, which looks at no status and pushes nothing. *)
AdminConfirm ==
  /\ locked["appointment"] = None
  /\ status' = "confirmed"
  /\ recorded' = recorded \cup {status'}
  /\ UNCHANGED <<poolVars, queue, pushed, clients, live, connected, received>>

(* SocketGateway.sendToUser. *)
Deliver ==
  /\ queue # <<>>
  /\ queue' = SentOnce(queue)
  /\ LET s == clients[Head(queue).to]
     IN received' = IF s \in live THEN [received EXCEPT ![s] = Append(@, Head(queue).status)]
                                  ELSE received
  /\ UNCHANGED <<poolVars, status, recorded, pushed, clients, live, connected>>

Connection(s) == [kind |-> "connect", socket |-> s]

(* SocketGateway.handleConnection. *)
HandleConnection(s) ==
  /\ Connection(s) \in todo
  /\ todo' = todo \ {Connection(s)}
  /\ clients' = [clients EXCEPT ![UserOf[s]] = s]
  /\ live' = live \cup {s}
  /\ connected' = Append(connected, s)
  /\ UNCHANGED <<poolSize, job, locked, committed, status, recorded, queue, pushed, received>>

(* The other end leaves; the gateway has no handler for it. *)
Disconnect(s) ==
  /\ s \in live
  /\ live' = live \ {s}
  /\ UNCHANGED <<poolVars, status, recorded, queue, pushed, clients, connected, received>>

PushStep(w) ==
  \/ OpenStatus(w) \/ CheckStatus(w) \/ UpdateStatus(w) \/ CommitStatus(w)
  \/ OpenUpdate(w) \/ FindAppointment(w) \/ UpdatePartial(w) \/ CommitUpdate(w)

PushEnvironment ==
  \/ QuoteAndConfirm \/ AdminConfirm
  \/ Deliver
  \/ \E s \in Sockets : HandleConnection(s) \/ Disconnect(s)

-----------------------------------------------------------------------------
(* Properties. *)

(* A status that was pushed is one the appointment has had, or one step     *)
(* ahead of one it has had, when the transaction is not through yet or came *)
(* to nothing (appointments.service.ts:259, :526).                          *)
PushedIsEarned ==
  \A i \in DOMAIN pushed :
    \/ pushed[i].status \in recorded
    \/ \E s \in recorded : <<s, pushed[i].status>> \in StatusSteps

(* What reached the connections of a user: which connection, which message  *)
(* on it.                                                                   *)
ReceivedBy(u) ==
  UNION {{k} \X DOMAIN received[connected[k]] :
           k \in {k \in DOMAIN connected : UserOf[connected[k]] = u}}

Before(x, y) == x[1] < y[1] \/ (x[1] = y[1] /\ x[2] < y[2])

(* What the connections of a user have received one after the other is part *)
(* of what was pushed to him, in that order and nothing twice, however      *)
(* often he reconnects (socket.gateway.ts:13, :29).                         *)
ReceivedInOrder ==
  \A u \in UserIds :
    \E origin \in [ReceivedBy(u) -> {i \in DOMAIN pushed : pushed[i].to = u}] :
      /\ \A x \in ReceivedBy(u) : received[connected[x[1]]][x[2]] = pushed[origin[x]].status
      /\ \A x, y \in ReceivedBy(u) : Before(x, y) => origin[x] < origin[y]
=============================================================================
