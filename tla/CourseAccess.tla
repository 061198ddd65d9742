---------------------------- MODULE CourseAccess ----------------------------
(***************************************************************************)
(* How one student gets at a course, across three services: enrollment-    *)
(* service asks course-service whether the course is published before it   *)
(* takes an enrollment, storage-service asks course-service for the subject*)
(* of an upload and enrollment-service for the enrollment of a download.   *)
(* A client that gets no answer takes it for no.  An attachment is a blob  *)
(* in Cloud Storage and a document in Firestore, written one after the     *)
(* other.  Deciding on enrollments is the part of module Enrollment.       *)
(***************************************************************************)
EXTENDS Catalogue

CONSTANTS
  Attachments,
  Tasks,          \* requests of the student and of the authors in flight
  MaxTasks,       \* bound: requests begun
  MaxFaults       \* bound: failed calls and deaths

ASSUME AccessAssumption == MaxTasks \in Nat /\ MaxFaults \in Nat /\ Attachments # {}

VARIABLES
  enrollment,     \* of each course: the state of the student's enrollment
  blob,           \* the attachments whose file is in the bucket
  doc,            \* of each attachment: the course its document names
  task,           \* of each request: operation, await, course, attachment
  approved,       \* history: courses the student has been approved for
  links,          \* history: attachments the student was given a link to
  broken,         \* history: attachments an upload or a deletion stopped half-way with
  tasks, faults

access == <<enrollment, blob, doc, task, approved, links, broken, tasks, faults>>
vars == <<catalogue, access>>

States == {"none", "pending", "approved", "rejected", "withdrawn"}

TaskOps == {"enroll", "upload", "download", "remove"}
Task == [op : TaskOps, course : Courses \cup {None}, attachment : Attachments,
         pc : {"idle", "ask", "read", "find", "enroll", "save", "document", "unsave", "undocument", "sign"}]
NoTask == [op |-> "enroll", course |-> None, attachment |-> CHOOSE a \in Attachments : TRUE, pc |-> "idle"]

AccessInit ==
  /\ Init
  /\ enrollment = [c \in Courses |-> "none"]
  /\ blob = {} /\ doc = [a \in Attachments |-> None]
  /\ task = [t \in Tasks |-> NoTask]
  /\ approved = {} /\ links = {} /\ broken = {}
  /\ tasks = 0 /\ faults = 0

Advance(t, pc) == task' = [task EXCEPT ![t] = IF pc = "idle" THEN NoTask ELSE [@ EXCEPT !.pc = pc]]

Same(t) == UNCHANGED <<catalogue, approved, broken, tasks, faults>>

\* An upload has an id of its own, which nobody knows.
BeginTask(t, op, c, a) ==
  /\ task[t].pc = "idle" /\ tasks < MaxTasks /\ tasks' = tasks + 1
  /\ IF op \in {"enroll", "upload"} THEN c # None /\ course[c].state # "none" ELSE c = None
  /\ op = "enroll" => a = NoTask.attachment
  /\ op = "upload" => /\ doc[a] = None /\ a \notin blob \cup broken \cup links
                      /\ \A s \in Tasks : task[s].op # "enroll" => task[s].attachment # a
  /\ task' = [task EXCEPT ![t] = [op |-> op, course |-> c, attachment |-> a,
                                  pc |-> IF op \in {"enroll", "upload"} THEN "ask" ELSE "find"]]
  /\ UNCHANGED <<catalogue, enrollment, blob, doc, approved, links, broken, faults>>

\* Mutant: the state of the course is not looked at.
AskAny(t) ==
  /\ task[t].pc = "ask"
  /\ Advance(t, IF task[t].op = "upload" THEN "save" ELSE "read")
  /\ UNCHANGED <<enrollment, blob, doc, links>> /\ Same(t)

\* isCoursePublished, where courseState tells the state of a deleted course as well;
\* getSubject, which knows the deleted subjects of a course too.
Ask(t) ==
  /\ task[t].pc = "ask"
  /\ Advance(t, IF task[t].op = "upload" THEN "save"
                ELSE IF course[task[t].course].state = "published" THEN "read" ELSE "idle")
  /\ UNCHANGED <<enrollment, blob, doc, links>> /\ Same(t)

\* The call fails: no, not published, no such subject, not enrolled.
Unanswered(t) ==
  /\ task[t].pc \in {"ask", "read"} /\ (task[t].pc = "read" => task[t].op = "download")
  /\ faults < MaxFaults /\ faults' = faults + 1
  /\ Advance(t, "idle")
  /\ UNCHANGED <<catalogue, enrollment, blob, doc, approved, links, broken, tasks>>

\* checkEnrollment.
Opens(state) == state = "approved"

\* The student's enrollment: a new one needs that none is open; a download an approved one.
ReadEnrollment(t) ==
  LET state == enrollment[task[t].course] IN
  /\ task[t].pc = "read"
  /\ Advance(t, IF task[t].op = "download" THEN IF Opens(state) THEN "sign" ELSE "idle"
                ELSE IF state \in {"pending", "approved"} THEN "idle" ELSE "enroll")
  /\ UNCHANGED <<enrollment, blob, doc, links>> /\ Same(t)

\* create replaces what there is.
Enroll(t) ==
  /\ task[t].pc = "enroll"
  /\ enrollment' = [enrollment EXCEPT ![task[t].course] = "pending"]
  /\ Advance(t, "idle")
  /\ UNCHANGED <<blob, doc, links>> /\ Same(t)

SaveBlob(t) ==
  /\ task[t].pc = "save"
  /\ blob' = blob \cup {task[t].attachment}
  /\ Advance(t, "document")
  /\ UNCHANGED <<enrollment, doc, links>> /\ Same(t)

CreateDoc(t) ==
  /\ task[t].pc = "document"
  /\ doc' = [doc EXCEPT ![task[t].attachment] = task[t].course]
  /\ Advance(t, "idle")
  /\ UNCHANGED <<enrollment, blob, links>> /\ Same(t)

\* findById of the attachment; an admin's download asks for no enrollment.
Find(t) ==
  LET a == task[t].attachment IN
  /\ task[t].pc = "find"
  /\ IF doc[a] = None THEN Advance(t, "idle")
     ELSE task' = [task EXCEPT ![t].course = doc[a],
                               ![t].pc = IF task[t].op = "remove" THEN "unsave" ELSE "read"]
  /\ UNCHANGED <<enrollment, blob, doc, links>> /\ Same(t)

\* Mutant: the document of a deleted file is left.
DeleteBlobAlone(t) ==
  /\ task[t].pc = "unsave"
  /\ blob' = blob \ {task[t].attachment}
  /\ Advance(t, "idle")
  /\ UNCHANGED <<enrollment, doc, links>> /\ Same(t)

\* A file that is gone already is deleted again without complaint.
DeleteBlob(t) ==
  /\ task[t].pc = "unsave"
  /\ blob' = blob \ {task[t].attachment}
  /\ Advance(t, "undocument")
  /\ UNCHANGED <<enrollment, doc, links>> /\ Same(t)

DeleteDoc(t) ==
  /\ task[t].pc = "undocument"
  /\ doc' = [doc EXCEPT ![task[t].attachment] = None]
  /\ Advance(t, "idle")
  /\ UNCHANGED <<enrollment, blob, links>> /\ Same(t)

\* getSignedUrl signs the path, whether or not there is a file.
Sign(t) ==
  /\ task[t].pc = "sign"
  /\ links' = links \cup {task[t].attachment}
  /\ Advance(t, "idle")
  /\ UNCHANGED <<enrollment, blob, doc>> /\ Same(t)

\* The process dies, or a store rejects a call.
Break(t) ==
  /\ task[t].pc # "idle" /\ faults < MaxFaults /\ faults' = faults + 1
  /\ broken' = IF task[t].pc \in {"document", "undocument"} THEN broken \cup {task[t].attachment} ELSE broken
  /\ Advance(t, "idle")
  /\ UNCHANGED <<catalogue, enrollment, blob, doc, approved, links, tasks>>

\* An admin decides, or the student withdraws: see module Enrollment.
Decide(c) ==
  /\ \/ enrollment[c] = "pending" /\ enrollment' \in {[enrollment EXCEPT ![c] = s] : s \in {"approved", "rejected"}}
     \/ enrollment[c] \in {"pending", "approved"} /\ enrollment' = [enrollment EXCEPT ![c] = "withdrawn"]
  /\ approved' = approved \cup {d \in Courses : enrollment'[d] = "approved"}
  /\ UNCHANGED <<catalogue, blob, doc, task, links, broken, tasks, faults>>

AccessNext ==
  \/ CatalogueNext /\ UNCHANGED access
  \/ \E c \in Courses : Decide(c)
  \/ \E t \in Tasks :
       \/ \E op \in TaskOps, c \in Courses \cup {None}, a \in Attachments : BeginTask(t, op, c, a)
       \/ Ask(t) \/ Unanswered(t) \/ ReadEnrollment(t) \/ Enroll(t) \/ SaveBlob(t) \/ CreateDoc(t)
       \/ Find(t) \/ DeleteBlob(t) \/ DeleteDoc(t) \/ Sign(t) \/ Break(t)

AccessSpec == AccessInit /\ [][AccessNext]_vars
----------------------------------------------------------------------------
AccessTypeOK ==
  /\ enrollment \in [Courses -> States]
  /\ blob \subseteq Attachments /\ doc \in [Attachments -> Courses \cup {None}]
  /\ task \in [Tasks -> Task]
  /\ approved \subseteq Courses /\ links \subseteq Attachments /\ broken \subseteq Attachments
  /\ tasks \in 0 .. MaxTasks /\ faults \in 0 .. MaxFaults

(* What makes the next two inductive: each request works at its own        *)
(* operation's awaits, with a course it has been told about, and nobody    *)
(* else has found the attachment that is being uploaded.                   *)
TaskInv(t) ==
  /\ task[t].pc = "idle" => task[t].op = "enroll"
  /\ task[t].op = "enroll" => task[t].pc \in {"idle", "ask", "read", "enroll"}
  /\ task[t].op = "upload" => task[t].pc \in {"ask", "save", "document"}
  /\ task[t].op = "download" => task[t].pc \in {"find", "read", "sign"}
  /\ task[t].op = "remove" => task[t].pc \in {"find", "unsave", "undocument"}
  /\ task[t].pc \notin {"idle", "find"} => task[t].course # None
  /\ task[t].op = "enroll" /\ task[t].pc \in {"read", "enroll"} => task[t].course \in published
  /\ task[t].pc = "sign" => task[t].course \in approved

FileInv(t) ==
  /\ task[t].op = "upload" =>
       /\ doc[task[t].attachment] = None /\ task[t].attachment \notin links
       /\ task[t].attachment \in blob <=> task[t].pc = "document"
       /\ \A s \in Tasks \ {t} :
            task[s].op # "enroll" /\ task[s].attachment = task[t].attachment =>
              task[s].op # "upload" /\ task[s].pc = "find"
  /\ task[t].op = "download" /\ task[t].pc # "find" => doc[task[t].attachment] \in {None, task[t].course}
  /\ task[t].pc = "undocument" => task[t].attachment \notin blob

PublishedInv ==
  /\ \A c \in Courses : course[c].state = "published" => c \in published
  /\ \A c \in Courses : enrollment[c] = "approved" => c \in approved

(* What the student was let into rests on each service's check, though each*)
(* was true only when it was made: an enrollment is for a course that was  *)
(* published once, and a link to a file of a course for which the student  *)
(* was approved once, even if the course, the enrollment or the file is    *)
(* gone by then, and whatever call remained unanswered                     *)
(* (CreateEnrollmentUseCase.ts 16-49, GetDownloadUrlUseCase.ts 21-31).     *)
AccessBacked ==
  /\ \A c \in Courses : enrollment[c] # "none" => c \in published
  /\ \A t \in Tasks : task[t].pc = "sign" => task[t].course \in approved
  /\ \A a \in links : doc[a] # None => doc[a] \in approved

(* Every attachment on record has its file and every file its record, but  *)
(* for an upload or a deletion that is under way, or that stopped half-way:*)
(* also when two deletions of one attachment overlap                       *)
(* (UploadAttachmentUseCase.ts 31-44, DeleteAttachmentUseCase.ts 15-16).   *)
AttachmentsBacked ==
  \A a \in Attachments \ broken :
    (doc[a] # None) # (a \in blob) =>
      \E t \in Tasks : task[t].attachment = a /\ task[t].pc \in {"document", "undocument"}
============================================================================
