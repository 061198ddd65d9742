--------------------------- MODULE EventConsumers ---------------------------
(***************************************************************************)
(* One event on its way from the outbox worker to notification-service and *)
(* from there to audit-service.  The worker calls through the internal     *)
(* client (InternalHttpClient, with its timeout and second request); what  *)
(* that module leaves open, the service, is here the code of the handlers: *)
(* notifications are written, an e-mail is tried three times with pauses,  *)
(* an audit record is appended.  A handler goes on when its caller has     *)
(* given up, and the worker sends the event again.                         *)
(***************************************************************************)
EXTENDS InternalHttpClient, Sequences

CONSTANTS
  Admins, Subject,  \* the admins, and the user an event is about
  Readers,          \* users who look at their notifications
  Types,            \* the event types looked at
  Pauses,           \* delays of dispatchEmail, in ticks
  MAX_ATTEMPTS,     \* deliveries of one event
  MaxFaults,        \* bound: rejected calls of a handler, pod deaths
  MaxReads          \* bound: uses of markRead and markAllRead

ASSUME ConsumerAssumption ==
  /\ Pauses \in Seq(Nat) /\ MAX_ATTEMPTS \in Nat \ {0}
  /\ MaxFaults \in Nat /\ MaxReads \in Nat /\ Readers \subseteq Admins \cup {Subject}

VARIABLES
  event,     \* its type, status and failed deliveries
  to,        \* the service the worker is calling: 1 notify, 2 audit, 0 none
  run,       \* the handler of each request
  notes,     \* notifications, named by the request that wrote them and the user
  read,      \* those marked read
  reader,    \* the unread notifications somebody has been shown
  audited,   \* audit records, named by their request
  mailed,    \* requests whose e-mail was accepted
  faults, reads,
  prompt     \* history: time has passed only while nothing could move but timers

client == <<pc, attempt, elapsed, total, wire, applied>>
stores == <<notes, read, reader, audited, mailed, reads>>
all == <<client, event, to, run, stores, faults, prompt>>

Users == Admins \cup {Subject}

\* A request: the delivery it belongs to, the service, first or second attempt.
Requests == (1 .. MAX_ATTEMPTS) \X {1, 2} \X Attempts

Request(i) == <<event.attempts + 1, to, i>>

Handler == [pc : {"none", "sent", "create", "mail", "complete", "failed", "done"},
            todo : SUBSET Users, try : 1 .. Len(Pauses) + 1, wait : Nat]

Starting(at, todo) == [pc |-> at, todo |-> todo, try |-> 1, wait |-> 0]

NoHandler == Starting("none", {})

(* What each handler does: whom it writes a notification, whether it asks  *)
(* user-service for the admins, whether it sends an e-mail.                *)
Plan(users, admins, mail) == [users |-> users, admins |-> admins, mail |-> mail]

RegistrationApproved == Plan({Subject}, FALSE, TRUE)
RegistrationRejected == Plan({Subject}, FALSE, TRUE)
EnrollmentPending    == Plan({}, TRUE, FALSE)
\* The payloads of enrollment-service carry neither email nor fcmToken.
EnrollmentApproved   == Plan({Subject}, FALSE, FALSE)
EnrollmentRejected   == Plan({Subject}, FALSE, FALSE)
UserRegistered       == Plan({}, TRUE, TRUE)
AdminSuspended       == Plan({Subject}, FALSE, TRUE)
AdminCreated         == Plan({}, FALSE, TRUE)
Unhandled            == Plan({}, FALSE, FALSE)

plan ==
  CASE event.type = "registration.approved" -> RegistrationApproved
    [] event.type = "registration.rejected" -> RegistrationRejected
    [] event.type = "enrollment.pending"    -> EnrollmentPending
    [] event.type = "enrollment.approved"   -> EnrollmentApproved
    [] event.type = "enrollment.rejected"   -> EnrollmentRejected
    [] event.type = "user.registered"       -> UserRegistered
    [] event.type = "admin.suspended"       -> AdminSuspended
    [] event.type = "admin.created"         -> AdminCreated
    [] OTHER                                -> Unhandled

ConsumersInit ==
  /\ pc = "resolved" /\ attempt = 1 /\ elapsed = 0 /\ total = 0
  /\ wire = [i \in Attempts |-> "unsent"] /\ applied = {}
  /\ event \in [type : Types, status : {"pending"}, attempts : {0}]
  /\ to = 0
  /\ run = [r \in Requests |-> NoHandler]
  /\ notes = {} /\ read = {} /\ reader = {} /\ audited = {} /\ mailed = {}
  /\ faults = 0 /\ reads = 0 /\ prompt = TRUE
----------------------------------------------------------------------------
(* The worker: processEvent calls the two services one after the other.    *)

NewCall ==
  /\ pc' = "waiting" /\ attempt' = 1 /\ elapsed' = 0 /\ total' = 0
  /\ wire' = [i \in Attempts |-> IF i = 1 THEN "sent" ELSE "unsent"]
  /\ applied' = {}

Call(service) ==
  /\ to' = service /\ NewCall
  /\ run' = [run EXCEPT ![<<event.attempts + 1, service, 1>>].pc = "sent"]
  /\ UNCHANGED <<event, stores, faults, prompt>>

Dispatch ==
  \/ to = 0 /\ event.status = "pending" /\ Call(1)
  \/ to = 1 /\ pc = "resolved" /\ Call(2)

Close(status, attempts) ==
  /\ to' = 0
  /\ event' = [event EXCEPT !.status = status, !.attempts = attempts]
  /\ UNCHANGED <<client, run, stores, faults, prompt>>

Succeed == to = 2 /\ pc = "resolved" /\ Close("delivered", event.attempts)

GiveUp ==
  LET attempts == event.attempts + 1 IN
  /\ to # 0 /\ pc = "rejected"
  /\ Close(IF attempts >= MAX_ATTEMPTS THEN "failed" ELSE "pending", attempts)

\* The client's own steps; a second request is a request to the same service.
ClientStep ==
  /\ to # 0
  /\ \/ (Resolve \/ Retry \/ Reject) /\ UNCHANGED run
     \/ Resend /\ run' = [run EXCEPT ![Request(2)].pc = "sent"]
  /\ UNCHANGED <<event, to, stores, faults, prompt>>
----------------------------------------------------------------------------
(* The consumers.  What happens to the request of a call still waited for  *)
(* is seen by the client; other handlers work for nobody.                  *)

Move(r, h) == run' = [run EXCEPT ![r] = h] /\ UNCHANGED <<event, to, prompt>>

Fault == faults < MaxFaults /\ faults' = faults + 1

Awaited(r) == to # 0 /\ r \in {Request(i) : i \in Attempts}

\* The request arrives; a failed look-up of the admins is an empty list.
Receive(r) ==
  /\ run[r].pc = "sent" /\ r[2] = 1
  /\ \/ /\ Move(r, Starting("create", plan.users \cup (IF plan.admins THEN Admins ELSE {})))
        /\ UNCHANGED faults
     \/ plan.admins /\ Fault /\ Move(r, Starting("create", {}))
  /\ UNCHANGED <<client, stores>>

\* One of the writes of Promise.all; a rejected sibling does not stop it.
Create(r, u) ==
  /\ run[r].pc \in {"create", "failed", "done"} /\ u \in run[r].todo
  /\ notes' = notes \cup {<<r, u>>}
  /\ Move(r, [run[r] EXCEPT !.todo = @ \ {u}])
  /\ UNCHANGED <<client, read, reader, audited, mailed, faults, reads>>

CreateFails(r, u) ==
  /\ run[r].pc = "create" /\ u \in run[r].todo
  /\ Fault /\ Move(r, [run[r] EXCEPT !.todo = @ \ {u}, !.pc = "failed"])
  /\ UNCHANGED <<client, stores>>

\* The handler returns: its effect is complete.
Finish(r, pcs) ==
  /\ run[r].pc \in pcs
  /\ Move(r, [run[r] EXCEPT !.pc = "complete"])
  /\ IF Awaited(r) THEN Apply(r[3]) ELSE UNCHANGED client
  /\ UNCHANGED faults

\* Mutant: the notifications are not awaited.
NotifiedUnawaited(r) ==
  /\ run[r].pc = "create"
  /\ IF plan.mail THEN Move(r, [run[r] EXCEPT !.pc = "mail"]) /\ UNCHANGED <<client, faults>>
                  ELSE Finish(r, {"create"})
  /\ UNCHANGED stores

\* All notifications are written: the e-mail is next, if there is one.
Notified(r) ==
  /\ run[r].pc = "create" /\ run[r].todo = {}
  /\ IF plan.mail THEN Move(r, [run[r] EXCEPT !.pc = "mail"]) /\ UNCHANGED <<client, faults>>
                  ELSE Finish(r, {"create"})
  /\ UNCHANGED stores

MayMail(r) == run[r].pc = "mail" /\ run[r].wait = 0

Mail(r) ==
  /\ MayMail(r) /\ run[r].try <= Len(Pauses)
  /\ mailed' = mailed \cup {r} /\ Finish(r, {"mail"})
  /\ UNCHANGED <<notes, read, reader, audited, reads>>

\* A failed attempt is followed by its pause, the last one too.
MailFails(r) ==
  /\ MayMail(r) /\ run[r].try <= Len(Pauses)
  /\ Move(r, [run[r] EXCEPT !.wait = Pauses[run[r].try], !.try = @ + 1])
  /\ UNCHANGED <<client, stores, faults>>

\* After the last pause the handler returns all the same.
NoMail(r) == MayMail(r) /\ run[r].try > Len(Pauses) /\ Finish(r, {"mail"}) /\ UNCHANGED stores

AppendRecord(r) ==
  /\ r[2] = 2 /\ run[r].pc = "sent"
  /\ audited' = audited \cup {r}
  /\ Finish(r, {"sent"})
  /\ UNCHANGED <<notes, read, reader, mailed, reads>>

AppendFails(r) ==
  /\ r[2] = 2 /\ run[r].pc = "sent"
  /\ Fault /\ Move(r, [run[r] EXCEPT !.pc = "failed"])
  /\ UNCHANGED <<client, stores>>

\* Mutant: the controller answers without waiting for the handler.
RespondAtOnce(r) ==
  /\ run[r].pc \in {"create", "complete", "failed"}
  /\ Move(r, [run[r] EXCEPT !.pc = "done"])
  /\ IF Awaited(r) /\ wire[r[3]] = "sent"
     THEN wire' = [wire EXCEPT ![r[3]] = "2xx"] /\ UNCHANGED <<pc, attempt, elapsed, total, applied>>
     ELSE UNCHANGED client
  /\ UNCHANGED <<stores, faults>>

\* 204, or the error handler's 500.
Respond(r) ==
  /\ run[r].pc \in {"complete", "failed"}
  /\ Move(r, [run[r] EXCEPT !.pc = "done"])
  /\ IF Awaited(r) THEN Answer(r[3], IF run[r].pc = "complete" THEN "2xx" ELSE "5xx")
                   ELSE UNCHANGED client
  /\ UNCHANGED <<stores, faults>>

\* The pod dies, or never gets the request.
Dies(r) ==
  /\ run[r].pc \notin {"none", "done"} /\ Fault
  /\ Move(r, [run[r] EXCEPT !.pc = "done", !.todo = {}])
  /\ IF Awaited(r) THEN Break(r[3]) ELSE UNCHANGED client
  /\ UNCHANGED stores

Consume(r) ==
  \/ Receive(r) \/ Notified(r) \/ Mail(r) \/ MailFails(r) \/ NoMail(r)
  \/ AppendRecord(r) \/ AppendFails(r) \/ Respond(r) \/ Dies(r)
  \/ \E u \in Users : Create(r, u) \/ CreateFails(r, u)
----------------------------------------------------------------------------
(* Somebody reads notifications: one of those listed is marked, or all of  *)
(* them, which is a query and then a batch.                                *)

Unread(u) == {n \in notes : n[2] = u /\ n \notin read}

\* A query that finds nothing ends in an empty batch.
QueryUnread(u) ==
  /\ Unread(u) # {} /\ reads < MaxReads /\ reads' = reads + 1
  /\ reader = {} /\ reader' = Unread(u)
  /\ UNCHANGED <<client, event, to, run, notes, read, audited, mailed, faults, prompt>>

\* Mutant: the batch marks whatever the user has by then.
MarkAllLate ==
  /\ reader # {} /\ reader' = {}
  /\ read' = read \cup {n \in notes : \E m \in reader : m[2] = n[2]}
  /\ UNCHANGED <<client, event, to, run, notes, audited, mailed, faults, reads, prompt>>

MarkAll ==
  /\ reader # {} /\ reader' = {}
  /\ read' = read \cup reader
  /\ UNCHANGED <<client, event, to, run, notes, audited, mailed, faults, reads, prompt>>

MarkRead ==
  /\ reader # {} /\ reader' = {}
  /\ \E n \in reader : read' = read \cup {n}
  /\ UNCHANGED <<client, event, to, run, notes, audited, mailed, faults, reads, prompt>>

(* Time: the client's timers and the pauses between e-mails.               *)
Idle(r) == run[r].pc \in {"none", "done"} \/ run[r].wait > 0

Clock ==
  /\ \/ to # 0 /\ Tick
     \/ to = 0 /\ UNCHANGED client /\ \E r \in Requests : run[r].wait > 0
  /\ run' = [r \in Requests |-> [run[r] EXCEPT !.wait = IF @ > 0 THEN @ - 1 ELSE 0]]
  /\ prompt' = (prompt /\ (\A r \in Requests : Idle(r)) /\ wire[attempt] \in {"sent", "5xx"})
  /\ UNCHANGED <<event, to, stores, faults>>

Worker == Dispatch \/ Succeed \/ GiveUp \/ ClientStep

ConsumersNext ==
  \/ Worker \/ Clock \/ MarkAll \/ MarkRead
  \/ \E r \in Requests : Consume(r)
  \/ \E u \in Readers : QueryUnread(u)

ConsumersSpec == ConsumersInit /\ [][ConsumersNext]_all

\* Timers run and the worker polls; nothing is assumed of the services.
FairConsumersSpec == ConsumersSpec /\ WF_all(Worker) /\ WF_all(Clock)
----------------------------------------------------------------------------
ConsumersTypeOK ==
  /\ TypeOK
  /\ event \in [type : Types, status : {"pending", "delivered", "failed"}, attempts : 0 .. MAX_ATTEMPTS]
  /\ to \in 0 .. 2 /\ run \in [Requests -> Handler]
  /\ notes \subseteq Requests \X Users /\ read \subseteq notes /\ reader \subseteq notes
  /\ audited \subseteq Requests /\ mailed \subseteq Requests
  /\ faults \in 0 .. MaxFaults /\ reads \in 0 .. MaxReads /\ prompt \in BOOLEAN

(* The call between worker and consumer is one of InternalHttpClient, with *)
(* the handlers as its service: each step is a step of that module, or the *)
(* start of a new call.  So what is proved of every call holds here.       *)
CallsAsSpecified == [][Next \/ NewCall]_client

(* A delivered event reached everybody: some one request of notification-  *)
(* service told all its users (all admins, unless user-service could not   *)
(* name them) and dealt with the e-mail, and a record of audit-service was *)
(* appended, not before (processEvent.ts 28-29, the handlers).             *)
Told(r) ==
  /\ \A u \in plan.users : <<r, u>> \in notes
  /\ plan.admins /\ faults = 0 => \A u \in Admins : <<r, u>> \in notes
  /\ plan.mail => r \in mailed \/ run[r].try > Len(Pauses)

NotifiedThenAudited ==
  /\ event.status = "delivered" => audited # {}
  /\ audited # {} => \E r \in Requests : r[2] = 1 /\ run[r].pc = "done" /\ Told(r)

(* What makes it inductive: a request was made by a delivery; whoever is   *)
(* not told yet is still to be told; and an answer of 2xx is believed only *)
(* of a handler that has done its work.                                    *)
SomeTold == \E r \in Requests : r[2] = 1 /\ run[r].pc = "done" /\ Told(r)

Begun(r) ==
  \/ r[1] <= event.attempts
  \/ /\ r[1] = event.attempts + 1
     /\ event.status = "delivered" \/ r[2] < to \/ (r[2] = to /\ wire[r[3]] # "unsent")

Informed(r) ==
  /\ \A u \in plan.users : <<r, u>> \in notes \/ (run[r].pc = "create" /\ u \in run[r].todo)
  /\ plan.admins /\ faults = 0 =>
       \A u \in Admins : <<r, u>> \in notes \/ (run[r].pc = "create" /\ u \in run[r].todo)

RunInv(r) ==
  /\ run[r].pc # "none" => Begun(r)
  /\ r[2] = 1 /\ run[r].pc \in {"create", "mail", "complete"} => Informed(r)
  /\ r[2] = 1 /\ run[r].pc = "complete" => Told(r)
  /\ r[2] = 2 => run[r].pc \notin {"create", "mail"} /\ (run[r].pc # "none" => SomeTold)
  /\ r[2] = 2 /\ run[r].pc = "complete" => r \in audited
  /\ to # 0 /\ r[1] = event.attempts + 1 /\ r[2] = to /\ wire[r[3]] = "2xx" =>
       /\ run[r].pc = "done"
       /\ to = 1 => Told(r)
       /\ to = 2 => r \in audited

EventInv ==
  /\ event.status = "pending" => event.attempts < MAX_ATTEMPTS
  /\ to # 0 => event.status = "pending" /\ CallInv /\ (pc = "resolved" => wire[attempt] = "2xx")
  /\ event.status = "delivered" => audited # {}
  /\ to = 2 \/ audited # {} => SomeTold
  /\ NeverTwoAtOnce

(* markRead and markAllRead never mark a notification that came after the  *)
(* query: it stays unread (FirestoreNotificationRepository.ts 31-40).      *)
SparesNewNotes ==
  [][\A n \in read' \ read : n \in reader]_all

(* Whatever the services do, the worker brings the event to an end.        *)
EventSettles == <>[](event.status \in {"delivered", "failed"} /\ to = 0)

(* The audit log receives every event the worker is done with: no call to  *)
(* a store fails and nothing is slow, only e-mails are refused.            *)
AuditReceivesAll ==
  prompt /\ faults = 0 /\ event.status \in {"delivered", "failed"} => audited # {}
============================================================================
