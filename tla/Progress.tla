------------------------------ MODULE Progress ------------------------------
(***************************************************************************)
(* The progress of one student in one course (packages/progress-service):  *)
(* a document per subject, written by complete and access requests that    *)
(* read it, change the copy, read it again in upsert and set it whole;     *)
(* removed by a reset; and summed up, together with the number of subjects *)
(* course-service counts, in a report.  No step is a transaction.          *)
(***************************************************************************)
EXTENDS Naturals, FiniteSets

CONSTANTS
  Subjects,
  Requests,      \* requests in flight
  MaxTime,       \* bound: the clock
  MaxRequests,   \* bound: requests begun
  MaxAborts      \* bound: requests that die at an await

ASSUME ProgressAssumption ==
  /\ IsFiniteSet(Subjects) /\ Subjects # {} /\ IsFiniteSet(Requests)
  /\ MaxTime \in Nat \ {0} /\ MaxRequests \in Nat /\ MaxAborts \in Nat

VARIABLES
  progress,      \* the documents; dates are clock values, 0 is null
  course,        \* the subjects course-service counts
  req,           \* the requests: await, operation, subject, copy; what was found first
  report,        \* the last answer of ComputeCourseProgress
  now,
  writes,        \* history: how often a completion of each subject was stored
  events,        \* history: how often it was announced
  alone,         \* history: no two requests have been in flight together
  steady,        \* history: the course has not changed
  begun, aborts

history == <<writes, events, steady>>
vars == <<progress, course, req, report, now, history, alone, begun, aborts>>

Doc == [state : {"none", "in_progress", "completed"},
        completedAt : 0 .. MaxTime, accessedAt : 0 .. MaxTime]

NoDoc == [state |-> "none", completedAt |-> 0, accessedAt |-> 0]

Ops == {"complete", "access", "reset", "compute"}

Request == [pc : {"idle", "read", "upsert", "write", "publish", "query", "delete", "records",
                  "total"},
            op : Ops, subject : Subjects, doc : Doc, found : SUBSET Subjects]

Idle == [pc |-> "idle", op |-> "reset", subject |-> CHOOSE s \in Subjects : TRUE,
         doc |-> NoDoc, found |-> {}]

Init ==
  /\ progress = [s \in Subjects |-> NoDoc]
  /\ course \in SUBSET Subjects
  /\ req = [r \in Requests |-> Idle]
  /\ report = [completed |-> {}, total |-> 0]
  /\ now = 1
  /\ writes = [s \in Subjects |-> 0] /\ events = [s \in Subjects |-> 0]
  /\ alone = TRUE /\ steady = TRUE
  /\ begun = 0 /\ aborts = 0

Become(r, pc, op, s, doc, found) ==
  req' = [req EXCEPT ![r] = [pc |-> pc, op |-> op, subject |-> s, doc |-> doc, found |-> found]]

Move(r, pc, doc, found) == Become(r, pc, req[r].op, req[r].subject, doc, found)

End(r) == req' = [req EXCEPT ![r] = Idle]

AllIdle == \A r \in Requests : req[r].pc = "idle"

\* A request arrives; clients name the subjects course-service shows them.
Start(r, op, s) ==
  /\ req[r].pc = "idle" /\ begun < MaxRequests
  /\ op \in {"complete", "access"} => s \in course
  /\ begun' = begun + 1 /\ alone' = (alone /\ AllIdle)
  /\ Become(r, IF op \in {"complete", "access"} THEN "read" ELSE "query", op, s, NoDoc, {})
  /\ UNCHANGED <<progress, course, report, now, history, aborts>>

\* Mutant: no date at all.
ChangedUndated(op, d) ==
  [state |-> IF op = "complete" THEN "completed" ELSE IF d.state = "none" THEN "in_progress"
             ELSE d.state,
   completedAt |-> d.completedAt, accessedAt |-> IF op = "access" THEN now ELSE d.accessedAt]

\* markComplete and updateLastAccessed, on a document or on a new one.
Changed(op, d) ==
  IF op = "complete"
    THEN [state |-> "completed", completedAt |-> now, accessedAt |-> d.accessedAt]
    ELSE [state |-> IF d.state = "none" THEN "in_progress" ELSE d.state,
          completedAt |-> d.completedAt, accessedAt |-> now]

\* Mutant: completing what is complete is not a case of its own.
ReadAnyway(r) ==
  /\ req[r].pc = "read"
  /\ Move(r, "upsert", Changed(req[r].op, progress[req[r].subject]), {})
  /\ UNCHANGED <<progress, course, report, now, history, alone, begun, aborts>>

Read(r) ==
  LET d == progress[req[r].subject] IN
  /\ req[r].pc = "read"
  /\ IF req[r].op = "complete" /\ d.state = "completed"
       THEN End(r)
       ELSE Move(r, "upsert", Changed(req[r].op, d), {})
  /\ UNCHANGED <<progress, course, report, now, history, alone, begun, aborts>>

\* upsert reads the document again: a completedAt that is set goes into the copy.
Upsert(r) ==
  LET doc == req[r].doc
      existing == progress[req[r].subject] IN
  /\ req[r].pc = "upsert"
  /\ Move(r, "write",
          [state |-> doc.state, accessedAt |-> doc.accessedAt,
           completedAt |-> IF existing.completedAt # 0 THEN existing.completedAt
                           ELSE doc.completedAt], {})
  /\ UNCHANGED <<progress, course, report, now, history, alone, begun, aborts>>

\* Mutant: a set that is not awaited may be lost.
WriteUnawaited(r) ==
  LET s == req[r].subject IN
  /\ req[r].pc = "write"
  /\ \/ progress' = [progress EXCEPT ![s] = req[r].doc] /\ writes' = [writes EXCEPT ![s] = @ + 1]
     \/ UNCHANGED <<progress, writes>>
  /\ IF req[r].op = "complete" THEN Move(r, "publish", req[r].doc, {}) ELSE End(r)
  /\ UNCHANGED <<course, report, now, events, steady, alone, begun, aborts>>

\* ... and sets the document to the whole copy.
Write(r) ==
  LET s == req[r].subject IN
  /\ req[r].pc = "write"
  /\ progress' = [progress EXCEPT ![s] = req[r].doc]
  /\ IF req[r].op = "complete"
       THEN writes' = [writes EXCEPT ![s] = @ + 1] /\ Move(r, "publish", req[r].doc, {})
       ELSE UNCHANGED writes /\ End(r)
  /\ UNCHANGED <<course, report, now, events, steady, alone, begun, aborts>>

\* progress.subjectCompleted, or the audit action of a reset.
Publish(r) ==
  /\ req[r].pc = "publish"
  /\ events' = IF req[r].op = "complete" THEN [events EXCEPT ![req[r].subject] = @ + 1]
               ELSE events
  /\ End(r)
  /\ UNCHANGED <<progress, course, report, now, writes, steady, alone, begun, aborts>>

Recorded == {s \in Subjects : progress[s].state # "none"}

\* Mutant: records in any state are counted.
CompletedAny == Recorded

Completed == {s \in Subjects : progress[s].state = "completed"}

\* A reset finds the documents to delete; a report makes its two reads at once.
Query(r) ==
  /\ req[r].pc = "query"
  /\ \/ req[r].op = "reset" /\ Move(r, "delete", NoDoc, Recorded)
     \/ req[r].op = "compute" /\ Move(r, "total", NoDoc, Completed)
     \/ req[r].op = "compute" /\ Move(r, "records", NoDoc, course)
  /\ UNCHANGED <<progress, course, report, now, history, alone, begun, aborts>>

\* One batch deletes what was found.
Delete(r) ==
  /\ req[r].pc = "delete"
  /\ progress' = [s \in Subjects |-> IF s \in req[r].found THEN NoDoc ELSE progress[s]]
  /\ Move(r, "publish", NoDoc, {})
  /\ UNCHANGED <<course, report, now, history, alone, begun, aborts>>

\* The later of the two reads: the report is computed.
Compute(r) ==
  /\ \/ /\ req[r].pc = "total"
        /\ report' = [completed |-> req[r].found, total |-> Cardinality(course)]
     \/ /\ req[r].pc = "records"
        /\ report' = [completed |-> Completed, total |-> Cardinality(req[r].found)]
  /\ End(r)
  /\ UNCHANGED <<progress, course, now, history, alone, begun, aborts>>

\* Rounded tenths of a percent.
Percent(completed, total) ==
  IF total = 0 THEN 0 ELSE (2000 * completed + total) \div (2 * total)

\* A replica dies, or a store or course-service fails the request.
Abort(r) ==
  /\ req[r].pc # "idle" /\ aborts < MaxAborts
  /\ aborts' = aborts + 1
  /\ End(r)
  /\ UNCHANGED <<progress, course, report, now, history, alone, begun>>

\* course-service adds or deletes a subject.
CourseChanges(s) ==
  /\ course' = IF s \in course THEN course \ {s} ELSE course \cup {s}
  /\ steady' = FALSE
  /\ UNCHANGED <<progress, req, report, now, writes, events, alone, begun, aborts>>

Tick ==
  /\ now < MaxTime
  /\ now' = now + 1
  /\ UNCHANGED <<progress, course, req, report, history, alone, begun, aborts>>

Next ==
  \/ \E r \in Requests : \/ \E op \in Ops, s \in Subjects : Start(r, op, s)
                         \/ Read(r) \/ Upsert(r) \/ Write(r) \/ Publish(r) \/ Query(r)
                         \/ Delete(r) \/ Compute(r) \/ Abort(r)
  \/ \E s \in Subjects : CourseChanges(s)
  \/ Tick

Spec == Init /\ [][Next]_vars
----------------------------------------------------------------------------
TypeOK ==
  /\ progress \in [Subjects -> Doc] /\ course \subseteq Subjects
  /\ req \in [Requests -> Request]
  /\ report.completed \subseteq Subjects /\ report.total \in Nat
  /\ now \in 1 .. MaxTime
  /\ writes \in [Subjects -> Nat] /\ events \in [Subjects -> Nat]
  /\ alone \in BOOLEAN /\ steady \in BOOLEAN
  /\ begun \in 0 .. MaxRequests /\ aborts \in 0 .. MaxAborts

(* A document that says "completed" says when, no date lies in the future, *)
(* and a completion was stored for it, whatever wrote over what            *)
(* (SubjectProgress.ts 46-55, FirestoreProgressRepository.ts 29-42).       *)
Sound(d, stored, time) ==
  /\ d.state = "completed" => d.completedAt # 0 /\ stored > 0
  /\ d.completedAt <= time /\ d.accessedAt <= time

CompletedDated == \A s \in Subjects : Sound(progress[s], writes[s], now)

\* What makes it inductive: copies are as good, but for the completion about to be stored.
CopySound(k, stored, time) ==
  k.pc \in {"upsert", "write"} => Sound(k.doc, IF k.op = "complete" THEN 1 ELSE stored, time)

ProgressInv ==
  CompletedDated /\ \A r \in Requests : CopySound(req[r], writes[req[r].subject], now)

Publishing(s) ==
  {r \in Requests : req[r].pc = "publish" /\ req[r].op = "complete" /\ req[r].subject = s}

(* progress.subjectCompleted is published only for a completion that was   *)
(* stored, once for each, however requests interleave and die.             *)
EventsBacked == \A s \in Subjects : events[s] + Cardinality(Publishing(s)) <= writes[s]

(* While requests do not overlap, completedAt is set once and stays, with  *)
(* the state, until a reset removes the document; a completed subject is   *)
(* not completed, nor announced, again; and accesses move forward.         *)
ProgressHolds ==
  alone => \A s \in Subjects :
    /\ progress[s].completedAt # 0 /\ progress'[s] # NoDoc =>
         progress'[s].completedAt = progress[s].completedAt /\ progress'[s].state = "completed"
    /\ progress[s].state = "completed" => writes'[s] = writes[s]
    /\ progress'[s] # NoDoc => progress'[s].accessedAt >= progress[s].accessedAt

CompletionStands == [][ProgressHolds]_vars

(* A report of a course that has not changed is at most 100.0 percent, and *)
(* exactly that only when a completion of every subject was stored, though *)
(* its two reads may be of different instants.                             *)
ReportSound ==
  LET percent == Percent(Cardinality(report.completed), report.total) IN
  steady => percent <= 1000 /\ (percent = 1000 => \A s \in course : writes[s] > 0)
============================================================================
