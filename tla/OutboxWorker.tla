---------------------------- MODULE OutboxWorker ----------------------------
(***************************************************************************)
(* The transactional outbox and its worker (packages/outbox-worker and     *)
(* packages/shared/events).  Services add documents to the collection      *)
(* "outbox"; every tick of a worker reads the oldest pending documents and *)
(* runs one processEvent per document, all of them concurrently.  Ticks do *)
(* not wait for the previous batch, and two worker pods run side by side   *)
(* while the deployment rolls over, so several batches may be in flight.   *)
(*                                                                         *)
(* A batch in flight is a slot <<worker, number>>; a running processEvent  *)
(* is the task of a slot and an event, suspended at one of its awaits.     *)
(***************************************************************************)
EXTENDS Integers, Sequences, FiniteSets

CONSTANTS
  Events,         \* identities of the outbox documents
  TypeOf,         \* the eventType of each document
  Times,          \* values of createdAt; several clocks stamp it: any order, ties
  Workers,        \* worker pods
  MaxOverlap,     \* bound: batches one worker has in flight
  BatchSize,      \* config.batchSize
  MAX_ATTEMPTS,
  MaxCrashes,     \* bound: pod deaths
  MaxStoreFaults  \* bound: rejected Firestore updates

ASSUME WorkerAssumption ==
  /\ Times \subseteq Nat
  /\ MaxOverlap \in Nat /\ BatchSize \in Nat \ {0}
  /\ MAX_ATTEMPTS \in Nat \ {0}
  /\ MaxCrashes \in Nat /\ MaxStoreFaults \in Nat

VARIABLES
  outbox,         \* the documents: status and attempts
  createdAt,      \* their time stamp, which orders the query
  task,           \* the processEvent of each slot and event
  late,           \* route positions whose POST timed out and may still arrive
  received,       \* history: route positions whose service has got the event
  tries,          \* history: deliveries begun, per event
  crashes, faults

vars == <<outbox, createdAt, task, late, received, tries, crashes, faults>>

Slots == Workers \X (1 .. MaxOverlap)

(* The route table: which services an event goes to, in which order.       *)
AuditOnly == {"enrollment.withdrawn", "progress.subjectCompleted", "audit.action"}
NotifyThenAudit ==
  {"user.registered", "registration.rejected", "enrollment.pending",
   "enrollment.approved", "enrollment.rejected", "course.published",
   "admin.created", "admin.suspended"}

ROUTES ==
  [t \in AuditOnly \cup NotifyThenAudit \cup {"registration.approved"} |->
     IF t \in AuditOnly THEN <<"audit">>
     ELSE IF t \in NotifyThenAudit THEN <<"notify", "audit">>
     ELSE <<"user", "notify", "audit">>]

\* An unknown type has no handler: dispatch warns and returns.
Handlers(e) == IF TypeOf[e] \in DOMAIN ROUTES THEN ROUTES[TypeOf[e]] ELSE <<>>

(* Documents, tasks and store outcomes.                                    *)
Doc == [status : {"absent", "pending", "processing", "delivered", "failed"},
        attempts : Nat]

\* data is the snapshot the query returned: only its attempts are used later.
Task == [pc : {"none", "claim", "dispatch", "catch"}, next : Nat \ {0}, data : Nat]

NoTask == [pc |-> "none", next |-> 1, data |-> 0]

\* An update succeeds, is rejected without effect, or is rejected although applied.
Outcomes == {"ok", "lost", "ambiguous"}

Init ==
  /\ outbox = [e \in Events |-> [status |-> "absent", attempts |-> 0]]
  /\ createdAt = [e \in Events |-> 0]
  /\ task = [s \in Slots |-> [e \in Events |-> NoTask]]
  /\ late = [e \in Events |-> {}]
  /\ received = [e \in Events |-> {}]
  /\ tries = [e \in Events |-> 0]
  /\ crashes = 0 /\ faults = 0

\* A service writes the event (publishWithBatch).
Publish(e, t) ==
  /\ outbox[e].status = "absent"
  /\ outbox' = [outbox EXCEPT ![e] = [status |-> "pending", attempts |-> 0]]
  /\ createdAt' = [createdAt EXCEPT ![e] = t]
  /\ UNCHANGED <<task, late, received, tries, crashes, faults>>

Pending == {e \in Events : outbox[e].status = "pending"}

\* What the query may return: the BatchSize oldest pending documents.
IsBatch(B) ==
  /\ Cardinality(B) = IF Cardinality(Pending) < BatchSize THEN Cardinality(Pending) ELSE BatchSize
  /\ \A e \in B, f \in Pending \ B : createdAt[e] <= createdAt[f]

\* Mutant: the query returns only documents never tried before.
PollUntried(s) ==
  /\ \A e \in Events : task[s][e].pc = "none"
  /\ \E B \in SUBSET {e \in Pending : outbox[e].attempts = 0} :
       /\ B # {}
       /\ task' = [task EXCEPT ![s] = [e \in Events |->
                     IF e \in B THEN [pc |-> "claim", next |-> 1, data |-> 0] ELSE NoTask]]
  /\ UNCHANGED <<outbox, createdAt, late, received, tries, crashes, faults>>

\* A tick: the query, then one task per document of the snapshot.
Poll(s) ==
  /\ \A e \in Events : task[s][e].pc = "none"
  /\ Pending # {}
  /\ \E B \in SUBSET Pending :
       /\ IsBatch(B)
       /\ task' = [task EXCEPT ![s] = [e \in Events |->
                     IF e \in B THEN [pc |-> "claim", next |-> 1, data |-> outbox[e].attempts]
                     ELSE NoTask]]
  /\ UNCHANGED <<outbox, createdAt, late, received, tries, crashes, faults>>

\* ref.update({status, attempts}) on e with outcome o.
Write(e, status, attempts, o) ==
  /\ outbox' = IF o = "lost" THEN outbox
               ELSE [outbox EXCEPT ![e] = [status |-> status, attempts |-> attempts]]
  /\ IF o = "ok" THEN UNCHANGED faults
                 ELSE faults < MaxStoreFaults /\ faults' = faults + 1

\* status := 'processing', outside the try: a rejection ends the task.
Claim(s, e, o) ==
  /\ task[s][e].pc = "claim"
  /\ Write(e, "processing", outbox[e].attempts, o)
  /\ task' = [task EXCEPT ![s][e] = 
              IF o = "ok" THEN [pc |-> "dispatch", next |-> 1, data |-> @.data] ELSE NoTask]
  /\ tries' = IF o = "ok" THEN [tries EXCEPT ![e] = @ + 1] ELSE tries
  /\ UNCHANGED <<createdAt, late, received, crashes>>

\* The next handler's POST is answered with success.
SendOk(s, e) ==
  LET t == task[s][e] IN
  /\ t.pc = "dispatch" /\ t.next <= Len(Handlers(e))
  /\ received' = [received EXCEPT ![e] = @ \cup {t.next}]
  /\ task' = [task EXCEPT ![s][e] = [pc |-> "dispatch", next |-> t.next + 1, data |-> t.data]]
  /\ UNCHANGED <<outbox, createdAt, late, tries, crashes, faults>>

\* Mutant: a failed POST is swallowed and the dispatch goes on.
SendFailSwallowed(s, e) ==
  LET t == task[s][e] IN
  /\ t.pc = "dispatch" /\ t.next <= Len(Handlers(e))
  /\ task' = [task EXCEPT ![s][e] = [pc |-> "dispatch", next |-> t.next + 1, data |-> t.data]]
  /\ UNCHANGED <<outbox, createdAt, late, received, tries, crashes, faults>>

\* The POST fails; after a timeout the service may still get to it, now or later.
SendFail(s, e) ==
  LET t == task[s][e] IN
  /\ t.pc = "dispatch" /\ t.next <= Len(Handlers(e))
  /\ \E underWay \in {{}, {t.next}} : late' = [late EXCEPT ![e] = @ \cup underWay]
  /\ task' = [task EXCEPT ![s][e] = [pc |-> "catch", next |-> 1, data |-> t.data]]
  /\ UNCHANGED <<outbox, createdAt, received, tries, crashes, faults>>

\* A service gets to a POST whose caller has given up on it.
Arrive(e, i) ==
  /\ i \in late[e]
  /\ late' = [late EXCEPT ![e] = @ \ {i}]
  /\ received' = [received EXCEPT ![e] = @ \cup {i}]
  /\ UNCHANGED <<outbox, createdAt, task, tries, crashes, faults>>

\* Mutant: the dispatch is not awaited.
MarkDeliveredAtOnce(s, e, o) ==
  /\ task[s][e].pc = "dispatch"
  /\ Write(e, "delivered", outbox[e].attempts, o)
  /\ task' = [task EXCEPT ![s][e] =
              IF o = "ok" THEN NoTask ELSE [pc |-> "catch", next |-> 1, data |-> @.data]]
  /\ UNCHANGED <<createdAt, late, received, tries, crashes>>

\* status := 'delivered', inside the try: a rejection is handled like a failed send.
MarkDelivered(s, e, o) ==
  /\ task[s][e].pc = "dispatch" /\ task[s][e].next > Len(Handlers(e))
  /\ Write(e, "delivered", outbox[e].attempts, o)
  /\ task' = [task EXCEPT ![s][e] = 
              IF o = "ok" THEN NoTask ELSE [pc |-> "catch", next |-> 1, data |-> @.data]]
  /\ UNCHANGED <<createdAt, late, received, tries, crashes>>

\* Mutants of the catch block: giving up one try early, one late, and keeping the status.
HandleFailureEarly(s, e, o) ==
  LET attempts == task[s][e].data + 1 IN
  /\ task[s][e].pc = "catch"
  /\ Write(e, IF attempts + 1 >= MAX_ATTEMPTS THEN "failed" ELSE "pending", attempts, o)
  /\ task' = [task EXCEPT ![s][e] = NoTask]
  /\ UNCHANGED <<createdAt, late, received, tries, crashes>>

HandleFailureLate(s, e, o) ==
  LET attempts == task[s][e].data + 1 IN
  /\ task[s][e].pc = "catch"
  /\ Write(e, IF attempts > MAX_ATTEMPTS THEN "failed" ELSE "pending", attempts, o)
  /\ task' = [task EXCEPT ![s][e] = NoTask]
  /\ UNCHANGED <<createdAt, late, received, tries, crashes>>

HandleFailureInPlace(s, e, o) ==
  LET attempts == task[s][e].data + 1 IN
  /\ task[s][e].pc = "catch"
  /\ Write(e, IF attempts >= MAX_ATTEMPTS THEN "failed" ELSE outbox[e].status, attempts, o)
  /\ task' = [task EXCEPT ![s][e] = NoTask]
  /\ UNCHANGED <<createdAt, late, received, tries, crashes>>

\* The catch block: attempts are counted from the snapshot; a rejection ends the task.
HandleFailure(s, e, o) ==
  LET attempts == task[s][e].data + 1 IN
  /\ task[s][e].pc = "catch"
  /\ Write(e, IF attempts >= MAX_ATTEMPTS THEN "failed" ELSE "pending", attempts, o)
  /\ task' = [task EXCEPT ![s][e] = NoTask]
  /\ UNCHANGED <<createdAt, late, received, tries, crashes>>

\* A pod dies with its batches.
Crash(w) ==
  /\ crashes < MaxCrashes
  /\ crashes' = crashes + 1
  /\ task' = [s \in Slots |-> IF s[1] = w THEN [e \in Events |-> NoTask] ELSE task[s]]
  /\ UNCHANGED <<outbox, createdAt, late, received, tries, faults>>

\* One await of a processEvent resolves or rejects.
Step(s, e) ==
  \/ \E o \in Outcomes : Claim(s, e, o) \/ MarkDelivered(s, e, o) \/ HandleFailure(s, e, o)
  \/ SendOk(s, e)
  \/ SendFail(s, e)

Next ==
  \/ \E e \in Events, t \in Times : Publish(e, t)
  \/ \E s \in Slots : Poll(s)
  \/ \E s \in Slots, e \in Events : Step(s, e)
  \/ \E e \in Events : \E i \in late[e] : Arrive(e, i)
  \/ \E w \in Workers : Crash(w)

Spec == Init /\ [][Next]_vars

\* The timer goes on ticking and every await ends: requests time out after 5 s.
Fairness ==
  /\ \A s \in Slots : WF_vars(Poll(s))
  /\ \A s \in Slots, e \in Events : WF_vars(Step(s, e))

FairSpec == Spec /\ Fairness
----------------------------------------------------------------------------
TypeOK ==
  /\ outbox \in [Events -> Doc]
  /\ createdAt \in [Events -> Times \cup {0}]
  /\ task \in [Slots -> [Events -> Task]]
  /\ late \in [Events -> SUBSET Nat]
  /\ received \in [Events -> SUBSET Nat]
  /\ tries \in [Events -> Nat]
  /\ crashes \in 0 .. MaxCrashes
  /\ faults \in 0 .. MaxStoreFaults

(* At-least-once: a document says 'delivered' only when every service of   *)
(* its route has received the event, however many batches, crashes and     *)
(* rejected updates there were (processEvent.ts 27-29).                    *)
DeliveredToAll ==
  \A e \in Events : outbox[e].status = "delivered" => received[e] = 1 .. Len(Handlers(e))

(* The sequential dispatch: whoever has received the event, all services   *)
(* before it on the route have; so an event never notified about is never  *)
(* audited either (EventDispatcher.ts 63-65).                              *)
InRouteOrder ==
  \A e \in Events : \A i \in received[e] : 1 .. i \subseteq received[e]

(* The retry budget is really spent: no event is 'failed' before it was    *)
(* tried MAX_ATTEMPTS times, and the recorded attempts never exceed the    *)
(* deliveries begun (processEvent.ts 32-40).                               *)
FailedOnlyAfterMaxTries ==
  \A e \in Events :
    /\ outbox[e].attempts <= tries[e]
    /\ outbox[e].status = "failed" => tries[e] >= MAX_ATTEMPTS

(* What makes the three facts above inductive: a dispatching task has      *)
(* served the services before its position, and the snapshot a task holds  *)
(* is never ahead of the tries, strictly behind once it has claimed.  A    *)
(* POST under way was preceded by those to the earlier services.           *)
TaskFits(t, e) ==
  /\ t.pc = "dispatch" => t.next - 1 <= Len(Handlers(e)) /\ 1 .. t.next - 1 \subseteq received[e]
  /\ t.pc = "claim" => t.data <= tries[e]
  /\ t.pc \in {"dispatch", "catch"} => t.data < tries[e]

TaskInv == \A s \in Slots, e \in Events : TaskFits(task[s][e], e)

LateInv ==
  \A e \in Events :
    /\ received[e] \cup late[e] \subseteq 1 .. Len(Handlers(e))
    /\ \A i \in late[e] : 1 .. i - 1 \subseteq received[e]

DeliveryInv ==
  /\ LateInv /\ TaskInv /\ InRouteOrder /\ DeliveredToAll /\ FailedOnlyAfterMaxTries

\* Processing, but no task is left to finish it; the query never returns it again.
Stranded(e) ==
  /\ outbox[e].status = "processing"
  /\ \A s \in Slots : task[s][e].pc \in {"none", "claim"}

(* Only a pod death or a rejected update strands an event: overlapping     *)
(* batches alone leave no document in 'processing' (processEvent.ts 25-41).*)
NoStrandingWithoutFault ==
  crashes = 0 /\ faults = 0 => \A e \in Events : ~ Stranded(e)

(* The retry budget is not exceeded.  Holds while batches do not overlap.  *)
AtMostMaxAttempts == \A e \in Events : tries[e] <= MAX_ATTEMPTS

Settled(e) == outbox[e].status \in {"delivered", "failed"}

(* Every published event comes to rest: settled for good, or stranded.     *)
ComesToRest ==
  \A e \in Events : (outbox[e].status # "absent") ~> [](Settled(e) \/ Stranded(e))

(* No event is lost: a published event ends as delivered or failed.        *)
NoEventLost ==
  \A e \in Events : (outbox[e].status = "pending") ~> Settled(e)
----------------------------------------------------------------------------
(* Without overlapping batches each event is delivered as EventDelivery    *)
(* says.  A document whose task is in the catch block still waits: its     *)
(* 'delivered', applied by a rejected update, may be overwritten.          *)
Rewriting(e) == \E s \in Slots : task[s][e].pc = "catch"

AbstractStatus(e) ==
  IF outbox[e].status \in {"pending", "processing"} \/ Rewriting(e) THEN "waiting"
  ELSE outbox[e].status

Delivery(e) == INSTANCE EventDelivery WITH
  N <- Len(Handlers(e)), status <- AbstractStatus(e), received <- received[e]

DeliversEachEvent ==
  /\ \A e \in Events : Delivery(e)!Init
  /\ [][\A e \in Events : [Delivery(e)!Next]_(Delivery(e)!vars)]_vars

(* And without a pod death or a rejected update each is settled, though    *)
(* more events wait than a batch takes, some of unknown types.             *)
SettlesEachEvent ==
  \A e \in Events : (outbox[e].status = "pending") ~> (Settled(e) \/ crashes + faults > 0)
============================================================================
