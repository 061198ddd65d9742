----------------------------- MODULE Enrollment -----------------------------
(***************************************************************************)
(* The enrollment of one student in one course (packages/enrollment-       *)
(* service).  Every use case reads the document, decides on the copy,      *)
(* writes the whole copy back and then publishes an event, with no         *)
(* transaction: requests of the student and of admins, served by any       *)
(* replica, interleave at every await, and may die at one.                 *)
(***************************************************************************)
EXTENDS Integers, FiniteSets

CONSTANTS
  Requests,      \* requests in flight
  Cooloff,       \* config.cooloffHours, in clock ticks
  MaxTime,       \* bound: the clock
  MaxRequests,   \* bound: requests that get as far as writing
  MaxAborts      \* bound: requests that die at an await

ASSUME EnrollmentAssumption ==
  /\ IsFiniteSet(Requests)
  /\ Cooloff \in Nat /\ MaxTime \in Nat \ {0}
  /\ MaxRequests \in Nat /\ MaxAborts \in Nat

VARIABLES
  enrollment,    \* the document: state, and rejectedAt (0 is null)
  published,     \* course-service's answer to isCoursePublished
  req,           \* the requests: where they are, and the copy they hold
  now,
  writes,        \* history: how often each state was written
  events,        \* history: how often the event of each state was published
  lastEvent,     \* history: the event published last
  alone,         \* history: no two requests have been in flight together
  seen,          \* history: the document as long as they have not
  aborts

overlap == <<alone, seen>>
vars == <<enrollment, published, req, now, writes, events, lastEvent, overlap, aborts>>

States == {"pending", "approved", "rejected", "withdrawn"}

Doc == [state : States \cup {"none"}, rejectedAt : 0 .. MaxTime]

Ops == {"create", "approve", "reject", "withdraw"}

Request == [pc : {"idle", "course", "read", "write", "publish"}, op : Ops, doc : Doc]

NoDoc == [state |-> "none", rejectedAt |-> 0]

Idle == [pc |-> "idle", op |-> "create", doc |-> NoDoc]

Init ==
  /\ enrollment = NoDoc
  /\ published \in BOOLEAN
  /\ req = [r \in Requests |-> Idle]
  /\ now = 1
  /\ writes = [s \in States |-> 0] /\ events = [s \in States |-> 0]
  /\ lastEvent = "none"
  /\ alone = TRUE /\ seen = NoDoc
  /\ aborts = 0

Goto(r, pc, op, doc) == req' = [req EXCEPT ![r] = [pc |-> pc, op |-> op, doc |-> doc]]

AllIdle == \A r \in Requests : req[r].pc = "idle"

\* A request arrives; only enrolling asks course-service first.
Start(r, op) ==
  /\ req[r].pc = "idle"
  /\ Goto(r, IF op = "create" THEN "course" ELSE "read", op, NoDoc)
  /\ alone' = (alone /\ AllIdle)
  /\ UNCHANGED <<enrollment, published, now, writes, events, lastEvent, seen, aborts>>

\* The answer to isCoursePublished; a failed call counts as "not published".
CheckCourse(r) ==
  /\ req[r].pc = "course"
  /\ \E answered \in BOOLEAN :
       Goto(r, IF answered /\ published THEN "read" ELSE "idle", req[r].op, NoDoc)
  /\ UNCHANGED <<enrollment, published, now, writes, events, lastEvent, overlap, aborts>>

\* Mutant: the rejection date is not looked at.
MayCreateAtOnce(d) == d.state \notin {"pending", "approved"}

\* Whether enrolling may go on over the existing document d.
MayCreate(d) ==
  /\ d.state \notin {"pending", "approved"}
  /\ ~ (d.state = "rejected" /\ d.rejectedAt # 0 /\ now - d.rejectedAt < Cooloff)

\* The entity methods' guards, and what they make of the copy.
Allowed(op, d) ==
  \/ op = "create" /\ MayCreate(d)
  \/ op \in {"approve", "reject"} /\ d.state = "pending"
  \/ op = "withdraw" /\ d.state \in {"pending", "approved"}

Result == [create |-> "pending", approve |-> "approved", reject |-> "rejected",
           withdraw |-> "withdrawn"]

\* Mutant: enrolling again keeps the old date.
AppliedKeepingDate(op, d) ==
  [state |-> Result[op], rejectedAt |-> IF op = "reject" THEN now ELSE d.rejectedAt]

Applied(op, d) ==
  [state |-> Result[op], rejectedAt |-> IF op = "reject" THEN now
                                        ELSE IF op = "create" THEN 0 ELSE d.rejectedAt]

\* The document is read and decided on; a refusal (404, 409, 422) ends the request.
Read(r) ==
  /\ req[r].pc = "read"
  /\ IF Allowed(req[r].op, enrollment)
       THEN Goto(r, "write", req[r].op, Applied(req[r].op, enrollment))
       ELSE Goto(r, "idle", req[r].op, NoDoc)
  /\ UNCHANGED <<enrollment, published, now, writes, events, lastEvent, overlap, aborts>>

Count(f) == f["pending"] + f["approved"] + f["rejected"] + f["withdrawn"]

\* Mutants: no event after a withdrawal; a rejected write is not noticed.
WriteQuietly(r) ==
  /\ req[r].pc = "write"
  /\ Count(writes) < MaxRequests
  /\ enrollment' = req[r].doc /\ seen' = IF alone THEN req[r].doc ELSE seen
  /\ writes' = [writes EXCEPT ![req[r].doc.state] = @ + 1]
  /\ Goto(r, IF req[r].op = "withdraw" THEN "idle" ELSE "publish", req[r].op, req[r].doc)
  /\ UNCHANGED <<published, now, events, lastEvent, alone, aborts>>

WriteUnawaited(r) ==
  /\ req[r].pc = "write"
  /\ Count(writes) < MaxRequests
  /\ \/ /\ enrollment' = req[r].doc /\ seen' = IF alone THEN req[r].doc ELSE seen
        /\ writes' = [writes EXCEPT ![req[r].doc.state] = @ + 1]
     \/ UNCHANGED <<enrollment, seen, writes>>
  /\ Goto(r, "publish", req[r].op, req[r].doc)
  /\ UNCHANGED <<published, now, events, lastEvent, alone, aborts>>

\* create() sets and update() replaces the whole document.
Write(r) ==
  /\ req[r].pc = "write"
  /\ Count(writes) < MaxRequests
  /\ enrollment' = req[r].doc /\ seen' = IF alone THEN req[r].doc ELSE seen
  /\ writes' = [writes EXCEPT ![req[r].doc.state] = @ + 1]
  /\ Goto(r, "publish", req[r].op, req[r].doc)
  /\ UNCHANGED <<published, now, events, lastEvent, alone, aborts>>

\* The event goes to the outbox and the request is answered.
Publish(r) ==
  /\ req[r].pc = "publish"
  /\ events' = [events EXCEPT ![req[r].doc.state] = @ + 1]
  /\ lastEvent' = req[r].doc.state
  /\ Goto(r, "idle", req[r].op, NoDoc)
  /\ UNCHANGED <<enrollment, published, now, writes, overlap, aborts>>

\* The replica dies, or Firestore rejects the call the request is waiting for.
Abort(r) ==
  /\ req[r].pc # "idle"
  /\ aborts < MaxAborts
  /\ aborts' = aborts + 1
  /\ Goto(r, "idle", req[r].op, NoDoc)
  /\ UNCHANGED <<enrollment, published, now, writes, events, lastEvent, overlap>>

\* The course is published or taken back by course-service.
CourseChanges ==
  /\ published' = ~ published
  /\ UNCHANGED <<enrollment, req, now, writes, events, lastEvent, overlap, aborts>>

Tick ==
  /\ now < MaxTime
  /\ now' = now + 1
  /\ UNCHANGED <<enrollment, published, req, writes, events, lastEvent, overlap, aborts>>

Next ==
  \/ \E r \in Requests : \/ \E op \in Ops : Start(r, op)
                         \/ CheckCourse(r) \/ Read(r) \/ Write(r) \/ Publish(r) \/ Abort(r)
  \/ CourseChanges
  \/ Tick

Spec == Init /\ [][Next]_vars
----------------------------------------------------------------------------
TypeOK ==
  /\ enrollment \in Doc /\ published \in BOOLEAN
  /\ req \in [Requests -> Request]
  /\ now \in 1 .. MaxTime
  /\ writes \in [States -> Nat] /\ events \in [States -> Nat]
  /\ lastEvent \in States \cup {"none"}
  /\ alone \in BOOLEAN /\ seen \in Doc
  /\ aborts \in 0 .. MaxAborts

\* Requests that have stored state s and not yet published it.
Publishing(s) == {r \in Requests : req[r].pc = "publish" /\ req[r].doc.state = s}

(* No phantom events: whatever the interleaving and the deaths, an event   *)
(* about a state is published only for a write of that state, once per     *)
(* write, counting the requests that still have to publish.                *)
NoPhantomEvents ==
  \A s \in States : events[s] + Cardinality(Publishing(s)) <= writes[s]

(* The cooloff can be judged: the document carries a rejection date exactly*)
(* when it is rejected, and no date lies in the future, although four use  *)
(* cases write whole copies of it over each other (Enrollment.ts 43-65).   *)
Dated(d) == (d.state = "rejected" <=> d.rejectedAt # 0) /\ d.rejectedAt <= now

RejectedIffDated == Dated(enrollment)

\* What makes it inductive: the copies about to be written are as good.
CopyInv ==
  \A r \in Requests :
    req[r].pc \in {"write", "publish"} => req[r].doc.state \in States /\ Dated(req[r].doc)

DateInv == RejectedIffDated /\ CopyInv

(* What consumers were told last is what is stored: as long as requests do *)
(* not overlap and none dies, a document at rest has announced its state.  *)
LastEventIsState == alone /\ AllIdle /\ aborts = 0 => lastEvent = enrollment.state

Alone == INSTANCE EnrollmentLifecycle WITH
  state <- seen.state, rejectedAt <- seen.rejectedAt

(* It does, cooloff included, as long as requests do not overlap           *)
(* (CreateEnrollmentUseCase.ts 19-32, Enrollment.ts 43-65).                *)
AloneFollowsLifecycle == Alone!Spec

\* d is what op makes of the stored document, a rejection being dated a little earlier.
Lawful(op, d) ==
  /\ Allowed(op, enrollment)
  /\ d.state = Result[op]
  /\ op = "create" => d.rejectedAt = 0
  /\ op \in {"approve", "withdraw"} => d.rejectedAt = enrollment.rejectedAt
  /\ op = "reject" => d.rejectedAt \in 1 .. now

(* The decision taken on the copy still holds for the document when the    *)
(* copy is written: what makes AloneFollowsLifecycle inductive for requests*)
(* that do not overlap, and what two overlapping requests break.           *)
DecisionStands ==
  alone => \A r \in Requests : req[r].pc = "write" => Lawful(req[r].op, req[r].doc)
============================================================================
