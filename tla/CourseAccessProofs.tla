------------------------- MODULE CourseAccessProofs -------------------------
(***************************************************************************)
(* Theorems about what a student is let into, the titles of the courses    *)
(* and the walks through their lists, for any number of courses,           *)
(* attachments, requests and failures.                                     *)
(***************************************************************************)
EXTENDS CourseAccess, FiniteSetTheorems, SequenceTheorems, TLAPS

(* A course that is written for another is one.                            *)
LEMMA CourseTyped ==
  ASSUME NEW k \in Course, NEW title \in Titles \cup {None}, NEW now \in Nat
  PROVE  /\ [k EXCEPT !.deleted = TRUE] \in Course /\ [k EXCEPT !.deleted = TRUE].state = k.state
         /\ [k EXCEPT !.title = title] \in Course
         /\ [k EXCEPT !.state = "archived"] \in Course
         /\ [k EXCEPT !.state = "published", !.publishedAt = now] \in Course
         /\ [k EXCEPT !.state = "draft", !.publishedAt = None] \in Course
         /\ [NoCourse EXCEPT !.title = title, !.state = "draft", !.createdAt = now] \in Course
<1>1. NoCourse \in Course
  BY DEF NoCourse, Course, None
<1>2. [k EXCEPT !.deleted = TRUE] \in Course /\ [k EXCEPT !.deleted = TRUE].state = k.state
  BY DEF Course
<1>3. [k EXCEPT !.title = title] \in Course
  BY DEF Course
<1>4. [k EXCEPT !.state = "archived"] \in Course
  BY DEF Course
<1>5. [k EXCEPT !.state = "published", !.publishedAt = now] \in Course
  BY DEF Course
<1>6. [k EXCEPT !.state = "draft", !.publishedAt = None] \in Course
  BY DEF Course, None
<1>7. [NoCourse EXCEPT !.title = title, !.state = "draft", !.createdAt = now] \in Course
  BY <1>1 DEF Course
<1> QED BY <1>2, <1>3, <1>4, <1>5, <1>6, <1>7

(* A request that moves on is one, with or without another copy.           *)
LEMMA RequestTyped ==
  ASSUME NEW q \in Request, NEW pc \in {"idle", "read", "titles", "store"}, NEW k \in Course
  PROVE  [q EXCEPT !.pc = pc] \in Request /\ [q EXCEPT !.pc = pc, !.copy = k] \in Request
<1>1. [q EXCEPT !.pc = pc] \in Request
  BY DEF Request
<1>2. [q EXCEPT !.pc = pc, !.copy = k] \in Request
  BY DEF Request
<1> QED BY <1>1, <1>2
(* Every step of the catalogue keeps the types, forgets no course that was *)
(* published, and takes down each one that is.                             *)
LEMMA CoursesStep ==
  ASSUME CoursesTypeOK, [CatalogueNext]_catalogue,
         \A c \in Courses : course[c].state = "published" => c \in published
  PROVE  /\ CoursesTypeOK' /\ published \subseteq published'
         /\ \A c \in Courses : course'[c].state = "published" => c \in published'
<1> USE CatalogueAssumption
<1>a. course \in [Courses -> Course] /\ req \in [Requests -> Request]
  BY DEF CoursesTypeOK
<1>b. ASSUME req' \in [Requests -> Request], UNCHANGED <<course, published>>, clock' \in Nat,
             alone' \in BOOLEAN, begun' \in 0 .. MaxRequests
      PROVE  /\ CoursesTypeOK' /\ published \subseteq published'
             /\ \A c \in Courses : course'[c].state = "published" => c \in published'
  BY <1>b DEF CoursesTypeOK
<1>c. clock \in Nat /\ alone \in BOOLEAN /\ begun \in 0 .. MaxRequests /\ clock + 1 \in Nat
  BY DEF CoursesTypeOK
<1>d. NoCourse \in Course
  BY DEF NoCourse, Course, None
<1>1. CASE (\E list \in Lists : StartWalk(list)) \/ ReadCursor \/ ReadPage
  BY <1>1, <1>a, <1>b, <1>c DEF StartWalk, ReadCursor, ReadPage
<1>2. ASSUME NEW r \in Requests, NEW op \in Ops, NEW c \in Courses, NEW title \in Titles \cup {None},
             Begin(r, op, c, title)
      PROVE  /\ CoursesTypeOK' /\ published \subseteq published'
             /\ \A d \in Courses : course'[d].state = "published" => d \in published'
  <2> DEFINE new == [op |-> op, pc |-> IF op = "create" THEN "titles" ELSE "read",
                     course |-> c, title |-> title, copy |-> NoCourse]
  <2>1. new \in Request
    BY <1>d DEF Request
  <2>2. /\ req' = [req EXCEPT ![r] = new] /\ begun < MaxRequests /\ begun' = begun + 1
        /\ UNCHANGED <<course, published, clock>>
    BY <1>2 DEF Begin
  <2>3. alone' = (alone /\ AllIdle)
    BY <1>2 DEF Begin
  <2>4. alone' \in BOOLEAN
    BY <2>3, Zenon
  <2>5. begun' \in 0 .. MaxRequests
    BY <1>c, <2>2
  <2> HIDE DEF new
  <2>6. req' \in [Requests -> Request]
    BY <1>a, <2>1, <2>2
  <2> QED BY <1>b, <1>c, <2>2, <2>4, <2>5, <2>6
<1>3. ASSUME NEW r \in Requests, Read(r)
      PROVE  req' \in [Requests -> Request] /\ clock' \in Nat
             /\ UNCHANGED <<course, published, alone, begun>>
  <2> DEFINE k == course[req[r].course]
             op == req[r].op
  <2>1. req[r] \in Request /\ k \in Course /\ op \in Ops /\ req[r].title \in Titles \cup {None}
    BY <1>a DEF Request
  <2>2. Idle \in Request
    BY <1>d, <1>3, <2>1 DEF Idle, Request, Ops, Moves, Courses, None
  <2>3. ASSUME op \in Moves PROVE Moved(op, k) \in Course
    <3>1. CASE op = "publish"
      BY <1>c, <2>1, <3>1, CourseTyped DEF Moved
    <3>2. CASE op = "unpublish"
      BY <1>c, <2>1, <3>2, CourseTyped DEF Moved
    <3>3. CASE op = "archive"
      BY <1>c, <2>1, <3>3, CourseTyped DEF Moved
    <3> QED BY <2>3, <3>1, <3>2, <3>3 DEF Moves
  <2>4. PICK to : to \in Request /\ req' = [req EXCEPT ![r] = to]
    <3>1. CASE op \in Moves
      BY <1>3, <2>1, <2>2, <2>3, <3>1, RequestTyped DEF Read
    <3>2. CASE op = "delete"
      BY <1>3, <2>1, <2>2, <3>2, RequestTyped DEF Read, Moves
    <3>3. CASE op \notin Moves \cup {"delete"}
      BY <1>3, <1>c, <2>1, <2>2, <3>3, RequestTyped, CourseTyped DEF Read
    <3> QED BY <3>1, <3>2, <3>3
  <2> QED BY <1>3, <1>a, <1>c, <2>4 DEF Read
<1>4. ASSUME NEW r \in Requests, LookUp(r)
      PROVE  req' \in [Requests -> Request] /\ clock' \in Nat
             /\ UNCHANGED <<course, published, alone, begun>>
  <2>1. req[r] \in Request /\ req[r].title \in Titles \cup {None} /\ req[r].course \in Courses
    BY <1>a DEF Request
  <2>2. Idle \in Request
    BY <1>d, <2>1 DEF Idle, Request, Ops, Courses, None
  <2>3. PICK to : to \in Request /\ req' = [req EXCEPT ![r] = to]
    BY <1>4, <1>c, <1>d, <2>1, <2>2, RequestTyped, CourseTyped DEF LookUp
  <2> QED BY <1>4, <1>a, <1>c, <2>3 DEF LookUp
<1>5. ASSUME NEW r \in Requests, Store(r)
      PROVE  /\ CoursesTypeOK' /\ published \subseteq published'
             /\ \A c \in Courses : course'[c].state = "published" => c \in published'
  <2> DEFINE c == req[r].course
             k == IF req[r].op = "delete" THEN [course[c] EXCEPT !.deleted = TRUE] ELSE req[r].copy
  <2>1. req[r] \in Request /\ c \in Courses /\ req[r].copy \in Course /\ course[c] \in Course
    BY <1>a DEF Request
  <2>2. k \in Course
    BY <2>1, CourseTyped
  <2>3. Idle \in Request
    BY <1>d, <2>1 DEF Idle, Request, Ops, Courses, None
  <2>4. /\ course' = [course EXCEPT ![c] = k]
        /\ published' = IF k.state = "published" THEN published \cup {c} ELSE published
        /\ req' = [req EXCEPT ![r] = Idle] /\ UNCHANGED <<clock, alone, begun>>
    BY <1>5 DEF Store, Put
  <2> HIDE DEF k
  <2>5. course' \in [Courses -> Course] /\ req' \in [Requests -> Request]
    BY <1>a, <2>1, <2>2, <2>3, <2>4
  <2>6. published' \subseteq Courses /\ published \subseteq published'
    BY <2>1, <2>4 DEF CoursesTypeOK
  <2>7. \A d \in Courses : course'[d].state = "published" => d \in published'
    BY <1>a, <2>1, <2>4
  <2> QED BY <1>c, <2>4, <2>5, <2>6, <2>7 DEF CoursesTypeOK
<1>6. CASE UNCHANGED catalogue
  BY <1>6 DEF catalogue, CoursesTypeOK
<1>7. ASSUME NEW r \in Requests, Read(r) \/ LookUp(r)
      PROVE  /\ CoursesTypeOK' /\ published \subseteq published'
             /\ \A c \in Courses : course'[c].state = "published" => c \in published'
  <2>1. req' \in [Requests -> Request] /\ clock' \in Nat /\ UNCHANGED <<course, published, alone, begun>>
    BY <1>3, <1>4, <1>7
  <2> QED BY <1>b, <1>c, <2>1
<1> QED BY <1>1, <1>2, <1>5, <1>6, <1>7, Zenon DEF CatalogueNext
(* What the files, the links and the enrollments rest on.                  *)
Backed ==
  /\ \A c \in Courses : enrollment[c] # "none" => c \in published
  /\ \A a \in links : doc[a] # None => doc[a] \in approved

(* The inductive invariant.                                                *)
AccessInv ==
  /\ CoursesTypeOK /\ AccessTypeOK /\ PublishedInv
  /\ \A t \in Tasks : TaskInv(t) /\ FileInv(t)
  /\ Backed /\ AttachmentsBacked

Awaits == {"idle", "ask", "read", "find", "enroll", "save", "document", "unsave", "undocument", "sign"}

(* The request that is none is one.                                        *)
LEMMA NoTaskTyped ==
  /\ NoTask \in Task /\ NoTask.op = "enroll" /\ NoTask.pc = "idle" /\ NoTask.attachment \in Attachments
<1> DEFINE a == CHOOSE b \in Attachments : TRUE
<1>1. a \in Attachments
  BY AccessAssumption
<1>2. NoTask = [op |-> "enroll", course |-> None, attachment |-> a, pc |-> "idle"]
  BY DEF NoTask
<1> HIDE DEF a
<1> QED BY <1>1, <1>2 DEF Task, TaskOps

(* A request that moves to another await keeps everything else; one that   *)
(* ends is none.                                                           *)
LEMMA AdvanceFields ==
  ASSUME AccessTypeOK, NEW t \in Tasks, NEW pc \in Awaits, Advance(t, pc)
  PROVE  /\ task' \in [Tasks -> Task] /\ \A s \in Tasks \ {t} : task'[s] = task[s]
         /\ task'[t].pc = pc
         /\ pc = "idle" => task'[t].op = "enroll"
         /\ pc # "idle" => task'[t].op = task[t].op /\ task'[t].course = task[t].course
                           /\ task'[t].attachment = task[t].attachment
<1> DEFINE to == IF pc = "idle" THEN NoTask ELSE [task[t] EXCEPT !.pc = pc]
<1>1. task \in [Tasks -> Task] /\ task[t] \in Task
  BY DEF AccessTypeOK
<1>2. task' = [task EXCEPT ![t] = to]
  BY DEF Advance
<1>3. pc # "idle" => /\ to \in Task /\ to.pc = pc /\ to.op = task[t].op /\ to.course = task[t].course
                     /\ to.attachment = task[t].attachment
  BY <1>1 DEF Task, Awaits
<1>4. pc = "idle" => to = NoTask
  OBVIOUS
<1> HIDE DEF to
<1>5. task'[t] = to /\ \A s \in Tasks \ {t} : task'[s] = task[s]
  BY <1>1, <1>2
<1>6. to \in Task /\ to.pc = pc /\ (pc = "idle" => to.op = "enroll")
  BY <1>3, <1>4, NoTaskTyped
<1>7. task' \in [Tasks -> Task]
  BY <1>1, <1>2, <1>6
<1> QED BY <1>3, <1>5, <1>6, <1>7

(* A request that has found its attachment has the course of its document. *)
LEMMA FindFields ==
  ASSUME AccessTypeOK, NEW t \in Tasks, Find(t), doc[task[t].attachment] # None
  PROVE  /\ task' \in [Tasks -> Task] /\ \A s \in Tasks \ {t} : task'[s] = task[s]
         /\ task'[t].pc = IF task[t].op = "remove" THEN "unsave" ELSE "read"
         /\ task'[t].op = task[t].op /\ task'[t].attachment = task[t].attachment
         /\ task'[t].course = doc[task[t].attachment]
<1> DEFINE c == doc[task[t].attachment]
           pc == IF task[t].op = "remove" THEN "unsave" ELSE "read"
           to == [[task[t] EXCEPT !.course = c] EXCEPT !.pc = pc]
<1>1. task \in [Tasks -> Task] /\ task[t] \in Task /\ task[t].attachment \in Attachments
  BY DEF AccessTypeOK, Task
<1>2. c \in Courses \cup {None}
  BY <1>1 DEF AccessTypeOK
<1>3. pc \in {"unsave", "read"}
  OBVIOUS
<1>4. task' = [task EXCEPT ![t].course = c, ![t].pc = pc]
  BY DEF Find
<1> HIDE DEF c
<1> HIDE DEF pc
<1>5. /\ to \in Task /\ to.op = task[t].op /\ to.attachment = task[t].attachment
      /\ to.course = c /\ to.pc = pc
  BY <1>1, <1>2, <1>3 DEF Task
<1>6. task' = [task EXCEPT ![t] = to]
  BY <1>1, <1>4
<1> HIDE DEF to
<1>7. task'[t] = to /\ task' \in [Tasks -> Task] /\ \A s \in Tasks \ {t} : task'[s] = task[s]
  BY <1>1, <1>5, <1>6
<1> QED BY <1>5, <1>7 DEF c, pc

(* A request that begins is what the client asks for.                      *)
LEMMA BeginTaskFields ==
  ASSUME AccessTypeOK, NEW t \in Tasks, NEW op \in TaskOps, NEW c \in Courses \cup {None},
         NEW a \in Attachments, BeginTask(t, op, c, a)
  PROVE  /\ task' \in [Tasks -> Task] /\ \A s \in Tasks \ {t} : task'[s] = task[s]
         /\ task'[t].pc = IF op \in {"enroll", "upload"} THEN "ask" ELSE "find"
         /\ task'[t].op = op /\ task'[t].attachment = a /\ task'[t].course = c
<1> DEFINE pc == IF op \in {"enroll", "upload"} THEN "ask" ELSE "find"
           new == [op |-> op, course |-> c, attachment |-> a, pc |-> pc]
<1>1. task' = [task EXCEPT ![t] = new] /\ task \in [Tasks -> Task]
  BY DEF BeginTask, AccessTypeOK
<1>2. new \in Task
  BY DEF Task
<1>3. new.op = op /\ new.course = c /\ new.attachment = a /\ new.pc = pc
  OBVIOUS
<1> HIDE DEF new
<1>4. task'[t] = new /\ task' \in [Tasks -> Task] /\ \A s \in Tasks \ {t} : task'[s] = task[s]
  BY <1>1, <1>2
<1> QED BY <1>3, <1>4
(* A step of one request that writes nothing keeps the invariant, if it    *)
(* keeps it for the request and finds no attachment that is uploaded.      *)
LEMMA MoveKeeps ==
  ASSUME AccessInv, NEW t \in Tasks,
         UNCHANGED <<catalogue, enrollment, blob, doc, approved, links>>,
         task' \in [Tasks -> Task], \A s \in Tasks \ {t} : task'[s] = task[s],
         tasks' \in 0 .. MaxTasks, faults' \in 0 .. MaxFaults,
         broken \subseteq broken', broken' \subseteq Attachments,
         task[t].pc \in {"document", "undocument"} => task[t].attachment \in broken',
         TaskInv(t)', FileInv(t)',
         \A s \in Tasks \ {t} :
           task[s].op = "upload" /\ task'[t].op # "enroll" /\ task'[t].attachment = task[s].attachment =>
             task'[t].op # "upload" /\ task'[t].pc = "find"
  PROVE  AccessInv'
<1> USE DEF catalogue
<1>1. CoursesTypeOK' /\ AccessTypeOK'
  BY DEF AccessInv, CoursesTypeOK, AccessTypeOK
<1>2. PublishedInv' /\ Backed'
  BY DEF AccessInv, PublishedInv, Backed
<1>3. ASSUME NEW s \in Tasks PROVE TaskInv(s)' /\ FileInv(s)'
  <2>1. CASE s = t
    BY <2>1
  <2>2. CASE s # t
    <3>1. task'[s] = task[s] /\ TaskInv(s) /\ FileInv(s)
      BY <2>2 DEF AccessInv
    <3>2. TaskInv(s)'
      BY <3>1 DEF TaskInv
    <3>3. FileInv(s)'
      BY <2>2, <3>1 DEF FileInv
    <3> QED BY <3>2, <3>3
  <2> QED BY <2>1, <2>2
<1>4. AttachmentsBacked'
  BY DEF AccessInv, AttachmentsBacked
<1> QED BY <1>1, <1>2, <1>3, <1>4 DEF AccessInv

(* The steps of a request that write nothing.                              *)
LEMMA MoveStep ==
  ASSUME AccessInv, NEW t \in Tasks,
         \/ \E op \in TaskOps, c \in Courses \cup {None}, a \in Attachments : BeginTask(t, op, c, a)
         \/ Ask(t) \/ Unanswered(t) \/ ReadEnrollment(t) \/ Find(t) \/ Break(t)
  PROVE  AccessInv'
<1> USE AccessAssumption
<1>0. /\ AccessTypeOK /\ TaskInv(t) /\ FileInv(t) /\ PublishedInv
      /\ tasks \in 0 .. MaxTasks /\ faults \in 0 .. MaxFaults /\ broken \subseteq Attachments
      /\ task[t] \in Task /\ task[t].attachment \in Attachments /\ task[t].course \in Courses \cup {None}
  BY DEF AccessInv, AccessTypeOK, Task
<1>1. ASSUME NEW op \in TaskOps, NEW c \in Courses \cup {None}, NEW a \in Attachments,
             BeginTask(t, op, c, a)
      PROVE  AccessInv'
  <2>1. /\ tasks' \in 0 .. MaxTasks /\ task[t].pc = "idle"
        /\ UNCHANGED <<catalogue, enrollment, blob, doc, approved, links, broken, faults>>
        /\ op \in {"enroll", "upload"} => c # None
        /\ op = "upload" => /\ doc[a] = None /\ a \notin blob /\ a \notin links
                            /\ \A s \in Tasks : task[s].op # "enroll" => task[s].attachment # a
    BY <1>0, <1>1 DEF BeginTask
  <2>2. TaskInv(t)'
    BY <1>1, <1>0, <2>1, BeginTaskFields DEF TaskInv, TaskOps
  <2>3. FileInv(t)'
    BY <1>1, <1>0, <2>1, BeginTaskFields DEF FileInv, TaskOps
  <2>4. \A s \in Tasks \ {t} :
           task[s].op = "upload" /\ task'[t].op # "enroll" /\ task'[t].attachment = task[s].attachment =>
             task'[t].op # "upload" /\ task'[t].pc = "find"
    BY <1>1, <1>0, <2>1, BeginTaskFields DEF TaskOps
  <2> QED BY <1>1, <1>0, <2>1, <2>2, <2>3, <2>4, BeginTaskFields, MoveKeeps
<1>2. ASSUME NEW pc \in Awaits, Advance(t, pc), task[t].pc # "find" \/ pc = "idle", task[t].pc # "idle",
             UNCHANGED <<catalogue, enrollment, blob, doc, approved, links, tasks>>,
             faults' \in 0 .. MaxFaults, broken \subseteq broken', broken' \subseteq Attachments,
             task[t].pc \in {"document", "undocument"} => task[t].attachment \in broken',
             \/ pc = "idle"
             \/ task[t].pc = "ask" /\ task[t].op = "upload" /\ pc = "save"
             \/ /\ task[t].pc = "ask" /\ task[t].op # "upload" /\ pc = "read"
                /\ course[task[t].course].state = "published"
             \/ task[t].pc = "read" /\ task[t].op # "download" /\ pc = "enroll"
             \/ /\ task[t].pc = "read" /\ task[t].op = "download" /\ pc = "sign"
                /\ enrollment[task[t].course] = "approved"
      PROVE  AccessInv'
  <2>1. task' \in [Tasks -> Task] /\ \A s \in Tasks \ {t} : task'[s] = task[s]
    BY <1>2, <1>0, AdvanceFields
  <2>2. /\ task'[t].pc = pc
        /\ pc = "idle" => task'[t].op = "enroll"
        /\ pc # "idle" => task'[t].op = task[t].op /\ task'[t].course = task[t].course
                          /\ task'[t].attachment = task[t].attachment
    BY <1>2, <1>0, AdvanceFields
  <2>3. TaskInv(t)'
    BY <1>2, <1>0, <2>2 DEF TaskInv, PublishedInv, catalogue
  <2>4. FileInv(t)'
    BY <1>2, <1>0, <2>1, <2>2 DEF FileInv, TaskInv
  <2>5. \A s \in Tasks \ {t} :
           task[s].op = "upload" /\ task'[t].op # "enroll" /\ task'[t].attachment = task[s].attachment =>
             task'[t].op # "upload" /\ task'[t].pc = "find"
    BY <1>2, <1>0, <2>2 DEF AccessInv, FileInv
  <2> QED BY <1>2, <1>0, <2>1, <2>3, <2>4, <2>5, MoveKeeps
<1>3. CASE Ask(t)
  <2>1. task[t].pc = "ask" /\ UNCHANGED <<catalogue, enrollment, blob, doc, approved, links, tasks>>
    BY <1>3 DEF Ask, Same
  <2>5. /\ faults' \in 0 .. MaxFaults /\ broken \subseteq broken' /\ broken' \subseteq Attachments
        /\ task[t].pc \notin {"find", "idle", "document", "undocument"}
    BY <1>0, <1>3, <2>1 DEF Ask, Same
  <2>2. CASE task[t].op = "upload"
    <3>1. Advance(t, "save")
      BY <1>3, <2>2 DEF Ask
    <3> QED BY <1>2, <2>1, <2>2, <2>5, <3>1, Zenon DEF Awaits
  <2>3. CASE task[t].op # "upload" /\ course[task[t].course].state = "published"
    <3>1. Advance(t, "read")
      BY <1>3, <2>3 DEF Ask
    <3> QED BY <1>2, <2>1, <2>3, <2>5, <3>1, Zenon DEF Awaits
  <2>4. CASE task[t].op # "upload" /\ course[task[t].course].state # "published"
    <3>1. Advance(t, "idle")
      BY <1>3, <2>4 DEF Ask
    <3> QED BY <1>2, <2>1, <2>5, <3>1 DEF Awaits
  <2> QED BY <2>2, <2>3, <2>4
<1>4. CASE Unanswered(t)
  BY <1>0, <1>2, <1>4 DEF Unanswered, Awaits
<1>5. CASE ReadEnrollment(t)
  BY <1>0, <1>2, <1>5 DEF ReadEnrollment, Same, Awaits, Opens
<1>6. CASE Find(t) /\ doc[task[t].attachment] = None
  BY <1>0, <1>2, <1>6 DEF Find, Same, Awaits
<1>7. CASE Break(t)
  BY <1>0, <1>2, <1>7 DEF Break, Awaits
<1>8. CASE Find(t) /\ doc[task[t].attachment] # None
  <2>1. /\ task[t].pc = "find" /\ UNCHANGED <<enrollment, blob, doc, links>>
        /\ UNCHANGED <<catalogue, approved, broken, tasks, faults>>
    BY <1>8 DEF Find, Same
  <2>2. task' \in [Tasks -> Task] /\ \A s \in Tasks \ {t} : task'[s] = task[s]
    BY <1>8, <1>0, FindFields
  <2>3. /\ task'[t].pc = IF task[t].op = "remove" THEN "unsave" ELSE "read"
        /\ task'[t].op = task[t].op /\ task'[t].attachment = task[t].attachment
        /\ task'[t].course = doc[task[t].attachment]
    BY <1>8, <1>0, FindFields
  <2>4. TaskInv(t)'
    BY <1>0, <1>8, <2>1, <2>3 DEF TaskInv
  <2>5. FileInv(t)'
    BY <1>0, <1>8, <2>1, <2>2, <2>3 DEF FileInv, TaskInv
  <2>6. \A s \in Tasks \ {t} : task[s].op = "upload" => task[s].attachment # task[t].attachment
    BY <1>8 DEF AccessInv, FileInv
  <2> QED BY <1>0, <2>1, <2>2, <2>3, <2>4, <2>5, <2>6, MoveKeeps
<1> QED BY <1>1, <1>3, <1>4, <1>5, <1>6, <1>7, <1>8
(* The steps of a request that write: the enrollment, the file, the        *)
(* document and the link.                                                  *)
LEMMA WriteStep ==
  ASSUME AccessInv, NEW t \in Tasks,
         Enroll(t) \/ SaveBlob(t) \/ CreateDoc(t) \/ DeleteBlob(t) \/ DeleteDoc(t) \/ Sign(t)
  PROVE  AccessInv'
<1> USE DEF catalogue
<1> DEFINE a == task[t].attachment
<1>0. /\ AccessTypeOK /\ TaskInv(t) /\ FileInv(t) /\ PublishedInv /\ CoursesTypeOK /\ AttachmentsBacked
      /\ a \in Attachments /\ task[t].course \in Courses \cup {None}
      /\ Backed /\ \A s \in Tasks : TaskInv(s) /\ FileInv(s)
  BY DEF AccessInv, AccessTypeOK, Task
<1>1. PICK pc \in {"idle", "document", "undocument"} :
        /\ Advance(t, pc)
        /\ pc = "document" <=> task[t].pc = "save"
        /\ pc = "undocument" <=> task[t].pc = "unsave"
  BY Zenon DEF Enroll, SaveBlob, CreateDoc, DeleteBlob, DeleteDoc, Sign
<1>2. /\ task' \in [Tasks -> Task] /\ task'[t].pc = pc
      /\ pc = "idle" => task'[t].op = "enroll"
      /\ pc # "idle" => task'[t].op = task[t].op /\ task'[t].course = task[t].course
                        /\ task'[t].attachment = a
  BY <1>0, <1>1, AdvanceFields DEF Awaits
<1>3. \A s \in Tasks \ {t} : task'[s] = task[s]
  BY <1>0, <1>1, AdvanceFields DEF Awaits
<1>4. UNCHANGED <<catalogue, approved, broken, tasks, faults>>
  BY Zenon DEF Enroll, SaveBlob, CreateDoc, DeleteBlob, DeleteDoc, Sign, Same
<1>5. \A s \in Tasks : TaskInv(s)'
  <2>1. TaskInv(t)'
    BY <1>0, <1>1, <1>2, <1>4 DEF TaskInv
  <2>2. ASSUME NEW s \in Tasks \ {t} PROVE TaskInv(s)'
    BY <1>0, <1>3, <1>4 DEF TaskInv
  <2> QED BY <2>1, <2>2
<1>6. CoursesTypeOK'
  BY <1>0, <1>4 DEF CoursesTypeOK
<1>7. ASSUME UNCHANGED <<enrollment, links>>, blob' \subseteq Attachments,
             doc' \in [Attachments -> Courses \cup {None}],
             \A b \in Attachments \ {a} : doc'[b] = doc[b] /\ (b \in blob' <=> b \in blob),
             task[t].pc \in {"save", "document", "unsave", "undocument"},
             \A s \in Tasks : FileInv(s)',
             a \in links /\ doc'[a] # None => doc[a] = doc'[a],
             (doc'[a] # None) # (a \in blob') => pc \in {"document", "undocument"}
      PROVE  AccessInv'
  <2>1. AccessTypeOK'
    BY <1>0, <1>2, <1>4, <1>7 DEF AccessTypeOK
  <2>2. PublishedInv'
    BY <1>0, <1>4, <1>7 DEF PublishedInv
  <2>3. Backed'
    BY <1>0, <1>4, <1>7 DEF Backed, AccessTypeOK
  <2>4. ASSUME NEW b \in Attachments \ broken, (doc'[b] # None) # (b \in blob')
        PROVE  \E s \in Tasks : task'[s].attachment = b /\ task'[s].pc \in {"document", "undocument"}
    <3>1. CASE b = a
      BY <1>2, <1>7, <2>4, <3>1
    <3>2. CASE b # a
      <4>1. PICK s \in Tasks : task[s].attachment = b /\ task[s].pc \in {"document", "undocument"}
        BY <1>0, <1>7, <2>4, <3>2 DEF AttachmentsBacked
      <4> QED BY <1>3, <3>2, <4>1
    <3> QED BY <3>1, <3>2
  <2>5. AttachmentsBacked'
    BY <1>4, <2>4 DEF AttachmentsBacked
  <2> QED BY <1>5, <1>6, <1>7, <2>1, <2>2, <2>3, <2>5 DEF AccessInv
<1>8. CASE SaveBlob(t)
  <2>1. /\ task[t].pc = "save" /\ blob' = blob \cup {a} /\ UNCHANGED <<enrollment, doc, links>>
        /\ pc = "document" /\ task[t].op = "upload"
    BY <1>0, <1>1, <1>8 DEF SaveBlob, TaskInv, AccessTypeOK, Task, TaskOps
  <2>2. ASSUME NEW s \in Tasks PROVE FileInv(s)'
    BY <1>0, <1>2, <1>3, <2>1 DEF FileInv, TaskInv
  <2> QED BY <1>0, <1>7, <2>1, <2>2 DEF AccessTypeOK
<1>9. CASE CreateDoc(t)
  <2>1. /\ task[t].pc = "document" /\ UNCHANGED <<enrollment, blob, links>>
        /\ doc' = [doc EXCEPT ![a] = task[t].course]
        /\ pc = "idle" /\ task[t].op = "upload" /\ task[t].course # None
    BY <1>0, <1>1, <1>9 DEF CreateDoc, TaskInv, AccessTypeOK, Task, TaskOps
  <2>2. /\ doc' \in [Attachments -> Courses \cup {None}] /\ doc'[a] = task[t].course
        /\ \A b \in Attachments \ {a} : doc'[b] = doc[b]
    BY <1>0, <2>1 DEF AccessTypeOK
  <2>3. a \in blob /\ a \notin links
    BY <1>0, <2>1 DEF FileInv
  <2>4. \A s \in Tasks : task[s].attachment \in Attachments
    BY <1>0 DEF AccessTypeOK, Task
  <2>5. ASSUME NEW s \in Tasks PROVE FileInv(s)'
    BY <1>0, <1>2, <1>3, <2>1, <2>2, <2>4 DEF FileInv, TaskInv
  <2> QED BY <1>0, <1>7, <2>1, <2>2, <2>3, <2>5 DEF AccessTypeOK
<1>10. CASE DeleteBlob(t)
  <2>1. /\ task[t].pc = "unsave" /\ blob' = blob \ {a} /\ UNCHANGED <<enrollment, doc, links>>
        /\ pc = "undocument" /\ task[t].op = "remove"
    BY <1>0, <1>1, <1>10 DEF DeleteBlob, TaskInv, AccessTypeOK, Task, TaskOps
  <2>2. ASSUME NEW s \in Tasks PROVE FileInv(s)'
    BY <1>0, <1>2, <1>3, <2>1 DEF FileInv, TaskInv
  <2> QED BY <1>0, <1>7, <2>1, <2>2 DEF AccessTypeOK
<1>11. CASE DeleteDoc(t)
  <2>1. /\ task[t].pc = "undocument" /\ UNCHANGED <<enrollment, blob, links>>
        /\ doc' = [doc EXCEPT ![a] = None] /\ pc = "idle" /\ task[t].op = "remove"
    BY <1>0, <1>1, <1>11 DEF DeleteDoc, TaskInv, AccessTypeOK, Task, TaskOps
  <2>2. /\ doc' \in [Attachments -> Courses \cup {None}] /\ doc'[a] = None
        /\ \A b \in Attachments \ {a} : doc'[b] = doc[b]
    BY <1>0, <2>1 DEF AccessTypeOK
  <2>3. a \notin blob
    BY <1>0, <2>1 DEF FileInv
  <2>4. \A s \in Tasks : task[s].attachment \in Attachments
    BY <1>0 DEF AccessTypeOK, Task
  <2>5. ASSUME NEW s \in Tasks PROVE FileInv(s)'
    BY <1>0, <1>2, <1>3, <2>1, <2>2, <2>4 DEF FileInv, TaskInv
  <2> QED BY <1>0, <1>7, <2>1, <2>2, <2>3, <2>5 DEF AccessTypeOK
<1>12. CASE Enroll(t)
  <2>1. /\ task[t].pc = "enroll" /\ UNCHANGED <<blob, doc, links>> /\ pc = "idle"
        /\ enrollment' = [enrollment EXCEPT ![task[t].course] = "pending"]
        /\ task[t].course \in published
    BY <1>0, <1>1, <1>12 DEF Enroll, TaskInv, AccessTypeOK, Task, TaskOps
  <2>2. /\ enrollment' \in [Courses -> States]
        /\ \A c \in Courses : enrollment'[c] = "pending" \/ enrollment'[c] = enrollment[c]
        /\ \A c \in Courses : enrollment'[c] # "none" => enrollment[c] # "none" \/ c = task[t].course
    BY <1>0, <2>1 DEF AccessTypeOK, States
  <2>3. ASSUME NEW s \in Tasks PROVE FileInv(s)'
    BY <1>0, <1>2, <1>3, <2>1 DEF FileInv, TaskInv
  <2>4. AccessTypeOK' /\ PublishedInv' /\ Backed'
    BY <1>0, <1>2, <1>4, <2>1, <2>2 DEF AccessTypeOK, PublishedInv, Backed
  <2>5. AttachmentsBacked'
    BY <1>0, <1>3, <1>4, <2>1 DEF AttachmentsBacked
  <2> QED BY <1>5, <1>6, <2>3, <2>4, <2>5 DEF AccessInv
<1>13. CASE Sign(t)
  <2>1. /\ task[t].pc = "sign" /\ UNCHANGED <<blob, doc, enrollment>> /\ pc = "idle"
        /\ links' = links \cup {a} /\ task[t].op = "download" /\ task[t].course \in approved
    BY <1>0, <1>1, <1>13 DEF Sign, TaskInv, AccessTypeOK, Task, TaskOps
  <2>2. doc[a] # None => doc[a] \in approved
    BY <1>0, <2>1 DEF FileInv
  <2>3. ASSUME NEW s \in Tasks PROVE FileInv(s)'
    BY <1>0, <1>2, <1>3, <2>1 DEF FileInv, TaskInv
  <2>4. AccessTypeOK' /\ PublishedInv' /\ Backed'
    BY <1>0, <1>2, <1>4, <2>1, <2>2 DEF AccessTypeOK, PublishedInv, Backed
  <2>5. AttachmentsBacked'
    BY <1>0, <1>3, <1>4, <2>1 DEF AttachmentsBacked
  <2> QED BY <1>5, <1>6, <2>3, <2>4, <2>5 DEF AccessInv
<1> QED BY <1>8, <1>9, <1>10, <1>11, <1>12, <1>13
(* Deciding, withdrawing and what the authors do keep the invariant.       *)
LEMMA OthersStep ==
  ASSUME AccessInv,
         (CatalogueNext /\ UNCHANGED access) \/ (\E c \in Courses : Decide(c)) \/ UNCHANGED vars
  PROVE  AccessInv'
<1>0. /\ AccessTypeOK /\ PublishedInv /\ CoursesTypeOK /\ AttachmentsBacked
      /\ Backed /\ \A t \in Tasks : TaskInv(t) /\ FileInv(t)
  BY DEF AccessInv
<1>1. ASSUME CoursesTypeOK', published \subseteq published', UNCHANGED access,
             \A c \in Courses : course'[c].state = "published" => c \in published'
      PROVE  AccessInv'
  <2> USE DEF access
  <2>1. AccessTypeOK' /\ PublishedInv' /\ Backed' /\ AttachmentsBacked'
    BY <1>0, <1>1 DEF AccessTypeOK, PublishedInv, Backed, AttachmentsBacked
  <2>2. ASSUME NEW t \in Tasks PROVE TaskInv(t)' /\ FileInv(t)'
    BY <1>0, <1>1 DEF TaskInv, FileInv
  <2> QED BY <1>1, <2>1, <2>2 DEF AccessInv
<1>2. CASE CatalogueNext /\ UNCHANGED access
  BY <1>0, <1>1, <1>2, CoursesStep DEF PublishedInv
<1>3. ASSUME NEW c \in Courses, Decide(c) PROVE AccessInv'
  <2> USE DEF catalogue
  <2>1. /\ approved' = approved \cup {d \in Courses : enrollment'[d] = "approved"}
        /\ UNCHANGED <<catalogue, blob, doc, task, links, broken, tasks, faults>>
    BY <1>3 DEF Decide
  <2>2. /\ enrollment[c] # "none"
        /\ \E s \in {"approved", "rejected", "withdrawn"} : enrollment' = [enrollment EXCEPT ![c] = s]
    BY <1>3 DEF Decide
  <2>3. /\ enrollment' \in [Courses -> States]
        /\ \A d \in Courses : enrollment'[d] # "none" => enrollment[d] # "none"
    BY <1>0, <2>2 DEF AccessTypeOK, States
  <2>4. CoursesTypeOK' /\ AccessTypeOK' /\ PublishedInv' /\ Backed' /\ AttachmentsBacked'
    BY <1>0, <2>1, <2>3 DEF CoursesTypeOK, AccessTypeOK, PublishedInv, Backed, AttachmentsBacked
  <2>5. ASSUME NEW t \in Tasks PROVE TaskInv(t)' /\ FileInv(t)'
    BY <1>0, <2>1 DEF TaskInv, FileInv
  <2> QED BY <2>4, <2>5 DEF AccessInv
<1>4. CASE UNCHANGED vars
  <2>1. UNCHANGED <<catalogue, access>>
    BY <1>4 DEF vars
  <2>2. CoursesTypeOK' /\ published' = published /\ course' = course
    BY <1>0, <2>1 DEF catalogue, CoursesTypeOK
  <2> QED BY <1>0, <1>1, <2>1, <2>2 DEF PublishedInv
<1> QED BY <1>2, <1>3, <1>4

(* What there is at first is as it should be.                              *)
LEMMA AccessStarts == AccessInit => AccessInv
<1> SUFFICES ASSUME AccessInit PROVE AccessInv
  OBVIOUS
<1> USE CatalogueAssumption, AccessAssumption
<1>1. Init /\ task = [t \in Tasks |-> NoTask]
  BY DEF AccessInit
<1>2. /\ enrollment = [c \in Courses |-> "none"] /\ blob = {} /\ doc = [a \in Attachments |-> None]
      /\ approved = {} /\ links = {} /\ broken = {} /\ tasks = 0 /\ faults = 0
  BY DEF AccessInit
<1>3. /\ course \in [Courses -> Course]
      /\ published \subseteq Courses
      /\ \A c \in Courses : course[c].state = "published" => c \in published
  <2>1. PICK made \in SUBSET Courses, title \in [Courses -> Titles] :
          \E open \in SUBSET made :
            /\ published = open
            /\ course = [c \in Courses |->
                 IF c \notin made THEN NoCourse
                 ELSE [title |-> title[c], state |-> IF c \in open THEN "published" ELSE "draft",
                       publishedAt |-> IF c \in open THEN c ELSE None, createdAt |-> c, deleted |-> FALSE]]
    BY <1>1, Zenon DEF Init
  <2>2. PICK open \in SUBSET made :
          /\ published = open
          /\ course = [c \in Courses |->
               IF c \notin made THEN NoCourse
               ELSE [title |-> title[c], state |-> IF c \in open THEN "published" ELSE "draft",
                     publishedAt |-> IF c \in open THEN c ELSE None, createdAt |-> c, deleted |-> FALSE]]
    BY <2>1
  <2>3. \A c \in Courses : course[c] \in Course /\ (course[c].state = "published" => c \in published)
    BY <2>2 DEF NoCourse, Course, Courses, None
  <2> QED BY <2>1, <2>2, <2>3
<1>6. req = [r \in Requests |-> Idle] /\ clock = NumCourses /\ alone = TRUE /\ begun = 0
  BY <1>1 DEF Init
<1>7. Idle \in Request
  BY DEF Idle, Request, NoCourse, Course, Ops, Courses, None
<1>8. CoursesTypeOK
  BY <1>3, <1>6, <1>7 DEF CoursesTypeOK
<1>9. AccessTypeOK
  BY <1>1, <1>2, NoTaskTyped DEF AccessTypeOK, States
<1>10. PublishedInv /\ Backed /\ AttachmentsBacked
  BY <1>2, <1>3 DEF PublishedInv, Backed, AttachmentsBacked
<1>11. ASSUME NEW t \in Tasks PROVE TaskInv(t) /\ FileInv(t)
  BY <1>1, NoTaskTyped DEF TaskInv, FileInv
<1> QED BY <1>8, <1>9, <1>10, <1>11 DEF AccessInv

(* The invariant holds of every reachable state.                           *)
LEMMA AccessInvariant == AccessSpec => []AccessInv
<1>1. AccessInv /\ [AccessNext]_vars => AccessInv'
  <2> SUFFICES ASSUME AccessInv, [AccessNext]_vars PROVE AccessInv'
    OBVIOUS
  <2> QED BY MoveStep, WriteStep, OthersStep, Zenon DEF AccessNext
<1> QED BY <1>1, AccessStarts, PTL DEF AccessSpec

(* The documents, the requests and the histories keep their types, and     *)
(* every file and record is written by a request at the await it waits at  *)
(* (UploadAttachmentUseCase.ts 23-46, GetDownloadUrlUseCase.ts 20-32).     *)
THEOREM RequestsTyped ==
  AccessSpec => [](CoursesTypeOK /\ AccessTypeOK /\ \A t \in Tasks : TaskInv(t) /\ FileInv(t))
<1>1. AccessInv => CoursesTypeOK /\ AccessTypeOK /\ \A t \in Tasks : TaskInv(t) /\ FileInv(t)
  BY DEF AccessInv
<1> QED BY <1>1, AccessInvariant, PTL

(* An enrollment is for a course that was published once, and a link to a  *)
(* file of a course the student was approved for once, for any number of   *)
(* courses, files, requests and unanswered calls                           *)
(* (CreateEnrollmentUseCase.ts 16-49, GetDownloadUrlUseCase.ts 21-31).     *)
THEOREM AccessAllowed == AccessSpec => []AccessBacked
<1>1. AccessInv => AccessBacked
  BY DEF AccessInv, AccessBacked, Backed, TaskInv
<1> QED BY <1>1, AccessInvariant, PTL

(* No file is without its record and no record without its file, but for   *)
(* an upload or a deletion that is under way or stopped half-way           *)
(* (UploadAttachmentUseCase.ts 31-44, DeleteAttachmentUseCase.ts 15-16).   *)
THEOREM FilesBacked == AccessSpec => []AttachmentsBacked
<1>1. AccessInv => AttachmentsBacked
  BY DEF AccessInv
<1> QED BY <1>1, AccessInvariant, PTL
----------------------------------------------------------------------------
\* While requests do not overlap, the title a request is about to write, looked up or
\* kept, is still nobody else's.
TitleHeld(q) ==
  /\ q.pc = "read" => course[q.course].state # "none"
  /\ q.pc = "titles" /\ q.op # "create" => q.copy.title = q.title
  /\ q.pc = "store" /\ q.op # "delete" =>
       \A d \in Courses \ {q.course} : course[d].state # "none" => course[d].title # q.copy.title

OneRequest == \A q, r \in Requests : req[q].pc # "idle" /\ req[r].pc # "idle" => q = r

TitlesInv ==
  alone => OneRequest /\ TitlesUnique /\ \A r \in Requests : TitleHeld(req[r])

(* The step of a request in flight that writes no course keeps this when   *)
(* the request itself does: no other is in flight.                         *)
LEMMA TitlesMove ==
  ASSUME CoursesTypeOK, TitlesInv, NEW r \in Requests, req[r].pc # "idle",
         NEW to, req' = [req EXCEPT ![r] = to], alone => TitleHeld(to),
         UNCHANGED <<course, alone>>
  PROVE  TitlesInv'
<1> SUFFICES ASSUME alone
             PROVE  OneRequest' /\ TitlesUnique' /\ \A q \in Requests : TitleHeld(req[q])'
  BY DEF TitlesInv
<1>1. \A q \in Requests : req'[q] = IF q = r THEN to ELSE req[q]
  BY DEF CoursesTypeOK
<1>2. \A q \in Requests \ {r} : req'[q].pc = "idle"
  BY <1>1 DEF TitlesInv, OneRequest
<1>3. OneRequest'
  BY <1>2 DEF OneRequest
<1>4. ASSUME NEW q \in Requests PROVE TitleHeld(req[q])'
  BY <1>1, <1>2, <1>4 DEF TitleHeld
<1> QED BY <1>3, <1>4 DEF TitlesInv, TitlesUnique

(* A title that was looked up, or that a course keeps, is nobody else's.   *)
LEMMA ReadHeld ==
  ASSUME CoursesTypeOK, TitlesInv, NEW r \in Requests, Read(r)
  PROVE  TitlesInv'
<1> DEFINE k == course[req[r].course]
           op == req[r].op
<1>1. /\ req[r] \in Request /\ k \in Course /\ op \in Ops /\ req[r].course \in Courses
      /\ req[r].pc = "read" /\ UNCHANGED <<course, alone>>
  BY DEF Read, CoursesTypeOK, Request
<1>2. alone => \A d \in Courses \ {req[r].course} : course[d].state # "none" => course[d].title # k.title
  BY <1>1 DEF TitlesInv, TitleHeld, TitlesUnique
<1>3. ASSUME op \in Moves PROVE Moved(op, k).title = k.title
  <2>1. CASE op = "publish"
    BY <1>1, <2>1 DEF Moved, Course
  <2>2. CASE op = "unpublish"
    BY <1>1, <2>2 DEF Moved, Course
  <2>3. CASE op = "archive"
    BY <1>1, <2>3 DEF Moved, Course
  <2> QED BY <1>3, <2>1, <2>2, <2>3 DEF Moves
<1>4. Idle.pc = "idle"
  BY DEF Idle
<1>5. PICK to : req' = [req EXCEPT ![r] = to] /\ (alone => TitleHeld(to))
  <2>1. CASE op \in Moves /\ Admits(op, k)
    <3> DEFINE copy == Moved(op, k)
               to == [req[r] EXCEPT !.pc = "store", !.copy = copy]
    <3>1. req' = [req EXCEPT ![r] = to]
      BY <2>1 DEF Read
    <3>2. copy.title = k.title
      BY <1>3, <2>1
    <3> HIDE DEF copy
    <3>3. to.pc = "store" /\ to.copy = copy /\ to.course = req[r].course
      BY <1>1 DEF Request
    <3> HIDE DEF to
    <3>4. alone => TitleHeld(to)
      BY <1>2, <3>2, <3>3 DEF TitleHeld
    <3> QED BY <3>1, <3>4
  <2>2. CASE op \in Moves /\ ~ Admits(op, k)
    BY <1>4, <2>2 DEF Read, TitleHeld
  <2>3. CASE op \notin Moves /\ op = "delete"
    <3> DEFINE to == [req[r] EXCEPT !.pc = "store"]
    <3>1. req' = [req EXCEPT ![r] = to]
      BY <2>3 DEF Read
    <3>2. to.pc = "store" /\ to.op = "delete"
      BY <1>1, <2>3 DEF Request
    <3> HIDE DEF to
    <3> QED BY <3>1, <3>2 DEF TitleHeld
  <2>4. CASE op \notin Moves /\ op # "delete"
    <3> DEFINE copy == [k EXCEPT !.title = req[r].title]
               pc == IF req[r].title = k.title THEN "store" ELSE "titles"
               to == [req[r] EXCEPT !.pc = pc, !.copy = copy]
    <3>1. req' = [req EXCEPT ![r] = to]
      BY <2>4 DEF Read
    <3>2. copy.title = req[r].title
      BY <1>1 DEF Course
    <3>3. pc \in {"store", "titles"} /\ (pc = "store" => req[r].title = k.title)
      OBVIOUS
    <3> HIDE DEF copy, pc
    <3>4. /\ to.pc = pc /\ to.copy = copy /\ to.course = req[r].course /\ to.title = req[r].title
      BY <1>1 DEF Request
    <3> HIDE DEF to
    <3>5. alone => TitleHeld(to)
      BY <1>2, <3>2, <3>3, <3>4 DEF TitleHeld
    <3> QED BY <3>1, <3>5
  <2> QED BY <2>1, <2>2, <2>3, <2>4
<1> QED BY <1>1, <1>5, TitlesMove

LEMMA LookUpHeld ==
  ASSUME CoursesTypeOK, TitlesInv, NEW r \in Requests, LookUp(r)
  PROVE  TitlesInv'
<1>1. /\ req[r] \in Request /\ req[r].course \in Courses /\ clock \in Nat
      /\ req[r].title \in Titles \cup {None}
      /\ req[r].pc = "titles" /\ UNCHANGED <<course, alone>>
      /\ alone => TitleHeld(req[r])
  BY DEF LookUp, CoursesTypeOK, Request, TitlesInv
<1>2. CASE Taken(req[r].title)
  <2>1. req' = [req EXCEPT ![r] = Idle]
    BY <1>2 DEF LookUp
  <2>2. TitleHeld(Idle)
    BY DEF TitleHeld, Idle
  <2> QED BY <1>1, <2>1, <2>2, TitlesMove
<1>3. CASE ~ Taken(req[r].title) /\ req[r].op = "create"
  <2> DEFINE copy == [NoCourse EXCEPT !.title = req[r].title, !.state = "draft", !.createdAt = clock + 1]
             to == [req[r] EXCEPT !.pc = "store", !.copy = copy]
  <2>1. req' = [req EXCEPT ![r] = to]
    BY <1>3 DEF LookUp
  <2>2. copy.title = req[r].title
    BY DEF NoCourse
  <2> HIDE DEF copy
  <2>3. to.pc = "store" /\ to.copy = copy /\ to.course = req[r].course
    BY <1>1 DEF Request
  <2> HIDE DEF to
  <2>4. TitleHeld(to)
    BY <1>3, <2>2, <2>3 DEF TitleHeld, Taken
  <2> QED BY <1>1, <2>1, <2>4, TitlesMove
<1>4. CASE ~ Taken(req[r].title) /\ req[r].op # "create"
  <2> DEFINE to == [req[r] EXCEPT !.pc = "store"]
  <2>1. req' = [req EXCEPT ![r] = to]
    BY <1>4 DEF LookUp
  <2>2. to.pc = "store" /\ to.copy = req[r].copy /\ to.course = req[r].course
    BY <1>1 DEF Request
  <2> HIDE DEF to
  <2>3. alone => TitleHeld(to)
    BY <1>1, <1>4, <2>2 DEF TitleHeld, Taken
  <2> QED BY <1>1, <2>1, <2>3, TitlesMove
<1> QED BY <1>2, <1>3, <1>4

(* Storing a title that is nobody else's leaves the titles different.      *)
LEMMA StoreHeld ==
  ASSUME CoursesTypeOK, TitlesInv, NEW r \in Requests, Store(r)
  PROVE  TitlesInv'
<1> DEFINE c == req[r].course
           k == IF req[r].op = "delete" THEN [course[c] EXCEPT !.deleted = TRUE] ELSE req[r].copy
<1>1. /\ req[r] \in Request /\ c \in Courses /\ course[c] \in Course /\ course \in [Courses -> Course]
      /\ req[r].pc = "store" /\ alone' = alone
  BY DEF Store, CoursesTypeOK, Request
<1>2. course' = [course EXCEPT ![c] = k] /\ req' = [req EXCEPT ![r] = Idle]
  BY DEF Store, Put
<1>3. req[r].op = "delete" => k.title = course[c].title /\ k.state = course[c].state
  BY <1>1 DEF Course
<1>4. req[r].op # "delete" => k = req[r].copy
  OBVIOUS
<1> HIDE DEF k
<1> SUFFICES ASSUME alone
             PROVE  OneRequest' /\ TitlesUnique' /\ \A q \in Requests : TitleHeld(req[q])'
  BY <1>1 DEF TitlesInv
<1>5. \A q \in Requests : req'[q].pc = "idle"
  BY <1>1, <1>2 DEF CoursesTypeOK, TitlesInv, OneRequest, Idle
<1>6. \A d \in Courses : course'[d] = IF d = c THEN k ELSE course[d]
  BY <1>1, <1>2
<1>7. k.state # "none" => \A d \in Courses \ {c} : course[d].state # "none" => course[d].title # k.title
  BY <1>1, <1>3, <1>4 DEF TitlesInv, TitleHeld, TitlesUnique
<1>8. TitlesUnique'
  BY <1>6, <1>7 DEF TitlesInv, TitlesUnique
<1> QED BY <1>5, <1>8 DEF OneRequest, TitleHeld

(* Every step keeps it: a request begins alone, or requests overlap.       *)
LEMMA TitlesStep == CoursesTypeOK /\ TitlesInv /\ [CatalogueNext]_catalogue => TitlesInv'
<1> SUFFICES ASSUME CoursesTypeOK, TitlesInv, [CatalogueNext]_catalogue PROVE TitlesInv'
  OBVIOUS
<1>1. CASE UNCHANGED <<course, req, alone>>
  BY <1>1 DEF TitlesInv, OneRequest, TitlesUnique, TitleHeld
<1>2. ASSUME NEW r \in Requests, NEW op \in Ops, NEW c \in Courses, NEW title \in Titles \cup {None},
             Begin(r, op, c, title)
      PROVE  TitlesInv'
  <2> DEFINE new == [op |-> op, pc |-> IF op = "create" THEN "titles" ELSE "read",
                     course |-> c, title |-> title, copy |-> NoCourse]
  <2>1. req' = [req EXCEPT ![r] = new] /\ course' = course /\ (op # "create" => course[c].state # "none")
    BY <1>2 DEF Begin
  <2>2. alone' => alone /\ AllIdle
    <3>1. alone' = (alone /\ AllIdle)
      BY <1>2 DEF Begin
    <3> QED BY <3>1, Zenon
  <2>3. new.op = op /\ new.course = c /\ new.pc = IF op = "create" THEN "titles" ELSE "read"
    OBVIOUS
  <2> HIDE DEF new
  <2> SUFFICES ASSUME alone'
               PROVE  OneRequest' /\ TitlesUnique' /\ \A q \in Requests : TitleHeld(req[q])'
    BY DEF TitlesInv
  <2>4. \A q \in Requests : req'[q] = IF q = r THEN new ELSE req[q]
    BY <2>1 DEF CoursesTypeOK
  <2>5. \A q \in Requests \ {r} : req'[q].pc = "idle"
    BY <2>2, <2>4 DEF AllIdle
  <2>6. ASSUME NEW q \in Requests PROVE TitleHeld(req[q])'
    BY <2>1, <2>3, <2>4, <2>5, <2>6 DEF TitleHeld
  <2>7. TitlesUnique'
    BY <2>1, <2>2 DEF TitlesInv, TitlesUnique
  <2> QED BY <2>5, <2>6, <2>7 DEF OneRequest
<1>3. CASE (\E list \in Lists : StartWalk(list)) \/ ReadCursor \/ ReadPage \/ UNCHANGED catalogue
  BY <1>1, <1>3 DEF StartWalk, ReadCursor, ReadPage, catalogue
<1> QED BY <1>2, <1>3, ReadHeld, LookUpHeld, StoreHeld, Zenon DEF CatalogueNext

(* The courses there are at first have titles of their own.                *)
LEMMA TitlesStart == Init => TitlesInv
<1> SUFFICES ASSUME Init PROVE TitlesInv
  OBVIOUS
<1>1. PICK made \in SUBSET Courses, title \in [Courses -> Titles] :
        /\ \A c, d \in Courses : title[c] = title[d] => c = d
        /\ \E open \in SUBSET made :
             /\ published = open
             /\ course = [c \in Courses |->
                  IF c \notin made THEN NoCourse
                  ELSE [title |-> title[c], state |-> IF c \in open THEN "published" ELSE "draft",
                        publishedAt |-> IF c \in open THEN c ELSE None, createdAt |-> c, deleted |-> FALSE]]
  BY Zenon DEF Init
<1>2. \A c \in Courses : course[c].state # "none" => course[c].title = title[c]
  BY <1>1 DEF NoCourse
<1>3. TitlesUnique
  BY <1>1, <1>2 DEF TitlesUnique
<1>4. \A r \in Requests : req[r].pc = "idle"
  BY DEF Init, Idle
<1> QED BY <1>3, <1>4 DEF TitlesInv, OneRequest, TitleHeld

(* A step is one of the catalogue, or leaves the catalogue alone.           *)
LEMMA CatalogueMoves == [AccessNext]_vars => [CatalogueNext]_catalogue
<1>1. ASSUME NEW c \in Courses, Decide(c) PROVE UNCHANGED catalogue
  BY <1>1, Zenon DEF Decide
<1>2. ASSUME NEW t \in Tasks, NEW op \in TaskOps, NEW c \in Courses \cup {None}, NEW a \in Attachments,
             BeginTask(t, op, c, a)
      PROVE  UNCHANGED catalogue
  BY <1>2, Zenon DEF BeginTask
<1>3. ASSUME NEW t \in Tasks,
             \/ Ask(t) \/ Unanswered(t) \/ ReadEnrollment(t) \/ Enroll(t) \/ SaveBlob(t)
             \/ CreateDoc(t) \/ Find(t) \/ DeleteBlob(t) \/ DeleteDoc(t) \/ Sign(t) \/ Break(t)
      PROVE  UNCHANGED catalogue
  BY <1>3, Zenon DEF Ask, Unanswered, ReadEnrollment, Enroll, SaveBlob, CreateDoc, Find, DeleteBlob,
                     DeleteDoc, Sign, Break, Same
<1>4. CASE UNCHANGED vars
  BY <1>4, Zenon DEF vars
<1> QED BY <1>1, <1>2, <1>3, <1>4, Zenon DEF AccessNext

(* No two courses ever have one title, a deleted one included, as long as  *)
(* requests do not overlap, for any number of courses, titles and requests *)
(* (CreateCourseUseCase.ts 17-34, UpdateCourseUseCase.ts 19-25).           *)
THEOREM TitlesStayUnique == AccessSpec => []TitlesUnique
<1>1. AccessInit => TitlesInv
  BY TitlesStart DEF AccessInit
<1>2. AccessInv => CoursesTypeOK
  BY DEF AccessInv
<1>3. TitlesInv => TitlesUnique
  BY DEF TitlesInv, TitlesUnique
<1> QED BY <1>1, <1>2, <1>3, AccessInvariant, CatalogueMoves, TitlesStep, PTL DEF AccessSpec
----------------------------------------------------------------------------
(* A walk, as a record.                                                    *)
Walk == [pc : {"idle", "query", "cursor", "done"}, list : Lists, cursor : Courses \cup {None},
         after : Nat, seen : Seq(Courses), steady : SUBSET Courses, moved : BOOLEAN]

\* Every copy of a course there is, with the course it is of.
Records == {<<c, course[c]>> : c \in Courses} \cup {<<req[r].course, req[r].copy>> : r \in Requests}

Dated(k) ==
  /\ k.state = "published" => k.publishedAt # None
  /\ k.state # "none" => k.createdAt # None

\* No two courses are published, or created, at one time.
StampsInv ==
  /\ \A x \in Records : Dated(x[2]) /\ x[2].publishedAt <= clock /\ x[2].createdAt <= clock
  /\ \A x, y \in Records :
       /\ x[2].publishedAt # None /\ x[2].publishedAt = y[2].publishedAt => x[1] = y[1]
       /\ x[2].createdAt # None /\ x[2].createdAt = y[2].createdAt => x[1] = y[1]

\* In sequence s there is no c; there is one.
Never(s, c) == \A i \in DOMAIN s : s[i] # c
Once(s, c) == \E i \in DOMAIN s : s[i] = c /\ \A j \in DOMAIN s : s[j] = c => j = i

KeyOf(c) == Key(walk.list, course[c])

\* The courses that stayed are shown down to a place in the list.
Shown(bound) ==
  \A c \in walk.steady : IF KeyOf(c) >= bound THEN Once(walk.seen, c) ELSE Never(walk.seen, c)

WalkInv ==
  /\ walk \in Walk
  /\ \A c \in walk.steady : Listed(walk.list, course[c])
  /\ walk.pc = "cursor" => walk.cursor # None
  /\ walk.pc = "query" /\ walk.cursor = None => walk.seen = <<>>
  /\ ~ walk.moved =>
       /\ walk.pc = "query" /\ walk.cursor # None => Shown(walk.after)
       /\ walk.pc = "cursor" => Shown(KeyOf(walk.cursor))
       /\ walk.pc = "done" => \A c \in walk.steady : Once(walk.seen, c)

(* Of a finite set whose members have different keys, each member has as   *)
(* many with a greater key as it has places before it, down to the last.   *)
LEMMA Ranks ==
  ASSUME NEW B, IsFiniteSet(B), NEW f \in [B -> Nat], \A c, d \in B : f[c] = f[d] => c = d,
         NEW rank, rank = [c \in B |-> Cardinality({d \in B : f[d] > f[c]})]
  PROVE  /\ Cardinality(B) \in Nat
         /\ rank \in [B -> 0 .. Cardinality(B) - 1]
         /\ \A c, d \in B : f[c] > f[d] <=> rank[c] < rank[d]
         /\ \A i \in 0 .. Cardinality(B) - 1 : \E c \in B : rank[c] = i
<1> DEFINE Newer(c) == {d \in B : f[d] > f[c]}
           n == Cardinality(B)
<1>1. n \in Nat
  BY FS_CardinalityType
<1>2. ASSUME NEW c \in B
      PROVE  /\ IsFiniteSet(Newer(c)) /\ rank[c] = Cardinality(Newer(c))
             /\ rank[c] \in 0 .. n - 1 /\ rank[c] \in Int
  <2>1. Newer(c) \in SUBSET B /\ Newer(c) # B
    OBVIOUS
  <2>2. rank[c] = Cardinality(Newer(c))
    OBVIOUS
  <2> HIDE DEF Newer
  <2>3. IsFiniteSet(Newer(c)) /\ Cardinality(Newer(c)) <= n /\ Cardinality(Newer(c)) # n
    BY <2>1, FS_Subset
  <2>4. Cardinality(Newer(c)) \in Nat
    BY <2>3, FS_CardinalityType
  <2> QED BY <1>1, <2>2, <2>3, <2>4
<1>3. ASSUME NEW c \in B, NEW d \in B, f[c] > f[d] PROVE rank[c] < rank[d]
  <2>1. Newer(c) \in SUBSET Newer(d) /\ Newer(c) # Newer(d)
    <3>1. \A e \in B : f[e] > f[c] => f[e] > f[d]
      BY <1>3
    <3>2. c \in Newer(d) /\ c \notin Newer(c)
      BY <1>3
    <3> QED BY <3>1, <3>2
  <2> HIDE DEF Newer
  <2>2. Cardinality(Newer(c)) <= Cardinality(Newer(d)) /\ Cardinality(Newer(c)) # Cardinality(Newer(d))
    BY <1>2, <2>1, FS_Subset
  <2> QED BY <1>1, <1>2, <2>2
<1>4. \A c, d \in B : f[c] > f[d] <=> rank[c] < rank[d]
  <2> SUFFICES ASSUME NEW c \in B, NEW d \in B PROVE f[c] > f[d] <=> rank[c] < rank[d]
    OBVIOUS
  <2>1. f[c] > f[d] \/ f[d] > f[c] \/ c = d
    OBVIOUS
  <2>2. rank[c] \in Int /\ rank[d] \in Int
    BY <1>2
  <2> HIDE DEF Newer, n
  <2> QED BY <1>3, <2>1, <2>2
<1>5. rank \in [B -> 0 .. n - 1]
  BY <1>2
<1>6. rank \in Injection(B, 0 .. n - 1)
  <2>1. \A c, d \in B : rank[c] = rank[d] => c = d
    <3> SUFFICES ASSUME NEW c \in B, NEW d \in B, rank[c] = rank[d] PROVE c = d
      OBVIOUS
    <3>1. rank[c] \in Int /\ rank[d] \in Int
      BY <1>2
    <3>2. ~ (f[c] > f[d]) /\ ~ (f[d] > f[c])
      BY <1>4, <3>1
    <3> QED BY <3>2
  <2> QED BY <1>5, <2>1 DEF Injection, IsInjective
<1>7. IsFiniteSet(0 .. n - 1) /\ Cardinality(0 .. n - 1) = n
  <2>1. 0 \in Int /\ n - 1 \in Int
    BY <1>1
  <2>2. IsFiniteSet(0 .. n - 1) /\ Cardinality(0 .. n - 1) = IF 0 > n - 1 THEN 0 ELSE n - 1 - 0 + 1
    BY <2>1, FS_Interval
  <2> QED BY <1>1, <2>2
<1>8. rank \in Surjection(B, 0 .. n - 1)
  <2> HIDE DEF n
  <2> QED BY <1>6, <1>7, FS_Injection DEF n
<1> QED BY <1>1, <1>4, <1>5, <1>8 DEF Surjection

(* The dates tell apart the courses that are listed.                       *)
LEMMA KeysDiffer ==
  ASSUME CoursesTypeOK, StampsInv, NEW list \in Lists
  PROVE  /\ \A c \in Courses : Key(list, course[c]) \in Nat
         /\ \A c, d \in Courses :
              Listed(list, course[c]) /\ Listed(list, course[d]) /\ Key(list, course[c]) = Key(list, course[d])
                => c = d
<1>1. \A c \in Courses : <<c, course[c]>> \in Records /\ course[c] \in Course
  BY DEF Records, CoursesTypeOK
<1>2. \A c \in Courses : Key(list, course[c]) \in Nat
  BY <1>1 DEF Key, Course
<1>3. ASSUME NEW c \in Courses, NEW d \in Courses, Listed(list, course[c]), Listed(list, course[d]),
             Key(list, course[c]) = Key(list, course[d])
      PROVE  c = d
  <2>1. Dated(course[c])
    BY <1>1 DEF StampsInv
  <2>2. CASE list = "published"
    <3>1. course[c].publishedAt # None /\ course[c].publishedAt = course[d].publishedAt
      BY <1>3, <2>1, <2>2 DEF Key, Listed, Dated
    <3> DEFINE x == <<c, course[c]>>
               y == <<d, course[d]>>
    <3>2. x \in Records /\ y \in Records /\ x[1] = c /\ y[1] = d /\ x[2] = course[c] /\ y[2] = course[d]
      BY <1>1
    <3> HIDE DEF x, y
    <3> QED BY <3>1, <3>2 DEF StampsInv
  <2>3. CASE list # "published"
    <3>1. course[c].createdAt # None /\ course[c].createdAt = course[d].createdAt
      BY <1>3, <2>1, <2>3 DEF Key, Listed, Dated
    <3> DEFINE x == <<c, course[c]>>
               y == <<d, course[d]>>
    <3>2. x \in Records /\ y \in Records /\ x[1] = c /\ y[1] = d /\ x[2] = course[c] /\ y[2] = course[d]
      BY <1>1
    <3> HIDE DEF x, y
    <3> QED BY <3>1, <3>2 DEF StampsInv
  <2> QED BY <2>2, <2>3
<1> QED BY <1>2, <1>3

(* A page shows the first of what is left, in order and without a gap.     *)
LEMMA PageShows ==
  ASSUME CoursesTypeOK, StampsInv, walk \in Walk
  PROVE  /\ Page \in Seq(Courses) /\ Len(Page) <= Limit
         /\ \A i \in DOMAIN Page : Page[i] \in Behind
         /\ \A i, j \in DOMAIN Page : i < j => KeyOf(Page[i]) > KeyOf(Page[j])
         /\ \A c \in Behind : (\A i \in DOMAIN Page : Page[i] # c) =>
              Len(Page) = Limit /\ KeyOf(c) < KeyOf(Page[Limit])
<1>1. Limit \in Nat \ {0} /\ NumCourses \in Nat /\ walk.list \in Lists
  BY CatalogueAssumption DEF Walk
<1>2. Behind \in SUBSET Courses /\ \A c \in Behind : Listed(walk.list, course[c])
  BY DEF Behind
<1>3. IsFiniteSet(Behind)
  <2>1. IsFiniteSet(Courses)
    BY <1>1, FS_Interval DEF Courses
  <2> QED BY <1>2, <2>1, FS_Subset
<1>a. PICK B : B = Behind
  OBVIOUS
<1>b. PICK f : f = [c \in B |-> KeyOf(c)]
  OBVIOUS
<1>c. PICK rank : rank = [c \in B |-> Cardinality({d \in B : f[d] > f[c]})]
  OBVIOUS
<1> DEFINE n == Cardinality(B)
           size == IF n < Limit THEN n ELSE Limit
           Place(c) == Cardinality({d \in Behind : Key(walk.list, course[d]) > Key(walk.list, course[c])})
<1>4. f \in [B -> Nat] /\ \A c, d \in B : f[c] = f[d] => c = d
  BY <1>a, <1>b, <1>1, <1>2, KeysDiffer DEF KeyOf
<1>5. ASSUME NEW c \in B PROVE rank[c] = Place(c)
  <2>1. {d \in B : f[d] > f[c]} = {d \in Behind : Key(walk.list, course[d]) > Key(walk.list, course[c])}
    BY <1>a, <1>b DEF KeyOf
  <2> QED BY <1>c, <2>1
<1>7. /\ n \in Nat /\ rank \in [B -> 0 .. n - 1]
      /\ \A c, d \in B : f[c] > f[d] <=> rank[c] < rank[d]
      /\ \A i \in 0 .. n - 1 : \E c \in B : rank[c] = i
  <2>1. IsFiniteSet(B)
    BY <1>a, <1>3
  <2> QED BY <1>c, <1>4, <2>1, Ranks
<1>8. \A c \in B : f[c] = KeyOf(c)
  BY <1>b
<1>9. size \in Nat /\ size <= n /\ size <= Limit /\ (size # Limit => size = n)
  BY <1>1, <1>7
<1>6. \A i \in 1 .. size : Page[i] = CHOOSE c \in Behind : Place(c) = i - 1
  BY <1>a DEF Page
<1>11. DOMAIN Page = 1 .. size
  BY <1>a DEF Page
<1>6a. Page = [i \in 1 .. size |-> CHOOSE c \in Behind : Place(c) = i - 1]
  BY <1>a DEF Page
<1> HIDE DEF n, size, Place
<1>10. ASSUME NEW i \in 1 .. size PROVE Page[i] \in B /\ rank[Page[i]] = i - 1
  <2>1. \E c \in B : rank[c] = i - 1
    BY <1>7, <1>9
  <2>2. \E c \in Behind : Place(c) = i - 1
    BY <1>a, <1>5, <2>1
  <2>3. Page[i] \in Behind /\ Place(Page[i]) = i - 1
    BY <1>6, <2>2
  <2> QED BY <1>a, <1>5, <2>3
<1>12. Page \in Seq(Courses) /\ Len(Page) = size
  <2>1. Page \in [1 .. size -> Courses]
    BY <1>a, <1>2, <1>6a, <1>10
  <2> QED BY <1>9, <2>1
<1>13. ASSUME NEW i \in 1 .. size, NEW j \in 1 .. size, i < j PROVE KeyOf(Page[i]) > KeyOf(Page[j])
  <2>1. rank[Page[i]] < rank[Page[j]] /\ Page[i] \in B /\ Page[j] \in B
    BY <1>10, <1>13
  <2> QED BY <1>7, <1>8, <2>1
<1>14. ASSUME NEW c \in B, \A i \in 1 .. size : Page[i] # c
       PROVE  size = Limit /\ KeyOf(c) < KeyOf(Page[Limit])
  <2>1. rank[c] \in 0 .. n - 1
    BY <1>7
  <2>2. ASSUME NEW d \in B, rank[d] = rank[c] PROVE d = c
    BY <1>4, <1>7, <2>1, <2>2
  <2>3. rank[c] + 1 \notin 1 .. size
    <3>1. SUFFICES ASSUME rank[c] + 1 \in 1 .. size PROVE FALSE
      OBVIOUS
    <3>2. Page[rank[c] + 1] \in B /\ rank[Page[rank[c] + 1]] = rank[c]
      BY <1>10, <2>1, <3>1
    <3> QED BY <1>14, <2>2, <3>1, <3>2
  <2>4. rank[c] >= size /\ size = Limit
    BY <1>9, <2>1, <2>3, <1>1
  <2>5. Page[Limit] \in B /\ rank[Page[Limit]] = Limit - 1
    BY <1>1, <1>10, <2>4
  <2> QED BY <1>1, <1>7, <1>8, <2>1, <2>4, <2>5
<1> QED BY <1>a, <1>9, <1>10, <1>11, <1>12, <1>13, <1>14

(* What two sequences show, one after the other.                           *)
LEMMA Together ==
  ASSUME NEW s \in Seq(Courses), NEW p \in Seq(Courses), NEW c
  PROVE  /\ Never(s, c) /\ Never(p, c) => Never(s \o p, c)
         /\ Once(s, c) /\ Never(p, c) => Once(s \o p, c)
         /\ Never(s, c) /\ Once(p, c) => Once(s \o p, c)
<1> DEFINE q == s \o p
           m == Len(s)
           n == Len(p)
<1>1. q \in Seq(Courses) /\ Len(q) = m + n /\ m \in Nat /\ n \in Nat
  BY ConcatProperties
<1>2. \A i \in 1 .. m + n : q[i] = IF i <= m THEN s[i] ELSE p[i - m]
  BY ConcatProperties
<1>3. DOMAIN q = 1 .. m + n /\ DOMAIN s = 1 .. m /\ DOMAIN p = 1 .. n
  BY <1>1
<1> HIDE DEF q, m, n
<1>4. \A i \in 1 .. m : i \in 1 .. m + n /\ q[i] = s[i]
  BY <1>1, <1>2
<1>5. \A i \in 1 .. n : i + m \in 1 .. m + n /\ q[i + m] = p[i]
  BY <1>1, <1>2
<1>6. \A i \in 1 .. m + n : i \in 1 .. m \/ (i - m \in 1 .. n /\ q[i] = p[i - m])
  BY <1>1, <1>2
<1>7. Never(s, c) /\ Never(p, c) => Never(q, c)
  BY <1>3, <1>4, <1>6 DEF Never
<1>8. ASSUME Once(s, c), Never(p, c) PROVE Once(q, c)
  <2>1. PICK i \in 1 .. m : s[i] = c /\ \A j \in 1 .. m : s[j] = c => j = i
    BY <1>3, <1>8 DEF Once
  <2>2. \A j \in 1 .. m + n : q[j] = c => j = i
    BY <1>3, <1>4, <1>6, <1>8, <2>1 DEF Never
  <2>3. i \in 1 .. m + n /\ q[i] = c
    BY <1>4, <2>1
  <2> QED BY <1>3, <2>2, <2>3 DEF Once
<1>9. ASSUME Never(s, c), Once(p, c) PROVE Once(q, c)
  <2>1. PICK i \in 1 .. n : p[i] = c /\ \A j \in 1 .. n : p[j] = c => j = i
    BY <1>3, <1>9 DEF Once
  <2>2. ASSUME NEW j \in 1 .. m + n, q[j] = c PROVE j = i + m
    <3>1. j \notin 1 .. m
      BY <1>3, <1>4, <1>9, <2>2 DEF Never
    <3>2. j - m \in 1 .. n /\ p[j - m] = c
      BY <1>6, <2>2, <3>1
    <3>3. j - m = i
      BY <2>1, <3>2
    <3> QED BY <1>1, <3>3
  <2>3. i + m \in 1 .. m + n /\ q[i + m] = c
    BY <1>5, <2>1
  <2> QED BY <1>3, <2>2, <2>3 DEF Once
<1> QED BY <1>7, <1>8, <1>9 DEF q

(* A walk begins with nothing shown.                                       *)
LEMMA WalkStarts ==
  ASSUME NEW list \in Lists, StartWalk(list)
  PROVE  WalkInv'
<1> DEFINE steady == {c \in Courses : Listed(list, course[c])}
           w == [pc |-> "query", list |-> list, cursor |-> None, after |-> None, seen |-> <<>>,
                 steady |-> steady, moved |-> FALSE]
<1>1. walk' = w /\ course' = course
  BY DEF StartWalk
<1>2. w \in Walk
  BY DEF Walk, None
<1>3. /\ w.pc = "query" /\ w.list = list /\ w.cursor = None /\ w.seen = <<>>
      /\ \A c \in w.steady : Listed(list, course[c])
  OBVIOUS
<1> HIDE DEF w
<1> QED BY <1>1, <1>2, <1>3 DEF WalkInv

(* The place to start after is where the cursor is: what was shown down to *)
(* the cursor is shown down to that place.                                 *)
LEMMA CursorRead ==
  ASSUME CoursesTypeOK, WalkInv, ReadCursor
  PROVE  WalkInv'
<1> DEFINE after == Key(walk.list, course[walk.cursor])
           w == [walk EXCEPT !.after = after, !.pc = "query"]
<1>1. walk \in Walk /\ walk.pc = "cursor" /\ walk.cursor \in Courses /\ walk.cursor # None
  BY DEF ReadCursor, WalkInv, Walk
<1>2. after \in Nat
  BY <1>1 DEF CoursesTypeOK, Key, Course
<1>3. walk' = w /\ course' = course
  BY DEF ReadCursor
<1> HIDE DEF after
<1>4. /\ w \in Walk /\ w.pc = "query" /\ w.list = walk.list /\ w.cursor = walk.cursor
      /\ w.seen = walk.seen /\ w.steady = walk.steady /\ w.moved = walk.moved /\ w.after = after
  BY <1>1, <1>2 DEF Walk
<1> HIDE DEF w
<1>5. \A c \in walk.steady : Listed(walk.list, course[c])
  BY DEF WalkInv
<1>6. ~ walk.moved => Shown(after)
  BY <1>1 DEF WalkInv, KeyOf, after
<1>7. ~ walk'.moved => Shown(walk.after)'
  BY <1>3, <1>4, <1>6 DEF Shown, KeyOf
<1> QED BY <1>1, <1>3, <1>4, <1>5, <1>7 DEF WalkInv

(* A page carries the walk on to its last course, or to the end: a course  *)
(* that stayed is shown by it if it comes after the place and before that. *)
LEMMA PageRead ==
  ASSUME CoursesTypeOK, StampsInv, WalkInv, ReadPage
  PROVE  WalkInv'
<1>1. walk \in Walk /\ walk.pc = "query" /\ walk.seen \in Seq(Courses) /\ walk.steady \subseteq Courses
  BY DEF WalkInv, Walk, ReadPage
<1>2. /\ Page \in Seq(Courses) /\ Len(Page) <= Limit
      /\ \A i \in DOMAIN Page : Page[i] \in Behind
      /\ \A i, j \in DOMAIN Page : i < j => KeyOf(Page[i]) > KeyOf(Page[j])
      /\ \A c \in Behind : (\A i \in DOMAIN Page : Page[i] # c) =>
           Len(Page) = Limit /\ KeyOf(c) < KeyOf(Page[Limit])
  BY <1>1, PageShows
<1> PICK page : page = Page
  OBVIOUS
<1> DEFINE full == Len(page) = Limit
           last == IF full THEN page[Limit] ELSE walk.cursor
           pc == IF full THEN "cursor" ELSE "done"
           seen == walk.seen \o page
           w == [walk EXCEPT !.seen = seen, !.cursor = last, !.pc = pc]
<1>3. walk' = w /\ course' = course
  BY DEF ReadPage
<1>4. DOMAIN page = 1 .. Len(page) /\ Len(page) \in Nat /\ Limit \in Nat /\ Limit # 0
  BY <1>2, CatalogueAssumption
<1>5. full => Limit \in DOMAIN page /\ page[Limit] \in Courses /\ page[Limit] # None
  <2>1. full => Limit \in DOMAIN page
    BY <1>4
  <2> HIDE DEF full
  <2>2. full => page[Limit] \in Courses
    BY <1>2, <2>1 DEF Behind
  <2>3. \A c \in Courses : c # None
    BY DEF Courses, None
  <2> QED BY <2>1, <2>2, <2>3
<1>6. seen \in Seq(Courses)
  BY <1>1, <1>2, ConcatProperties
<1>7. last \in Courses \cup {None} /\ (full => last = page[Limit] /\ last # None) /\ pc \in {"cursor", "done"}
  BY <1>1, <1>5 DEF Walk
<1>8. ~ full => pc = "done"
  OBVIOUS
<1>9. full => pc = "cursor"
  OBVIOUS
<1> HIDE DEF last, pc
<1>10. ASSUME NEW c \in Courses
       PROVE  Never(walk.seen, c) /\ Never(page, c) => Never(seen, c)
  BY <1>1, <1>2, Together
<1>11. ASSUME NEW c \in Courses
       PROVE  /\ Once(walk.seen, c) /\ Never(page, c) => Once(seen, c)
              /\ Never(walk.seen, c) /\ Once(page, c) => Once(seen, c)
  BY <1>1, <1>2, Together
<1> HIDE DEF seen
<1>12. /\ w \in Walk /\ w.pc = pc /\ w.list = walk.list /\ w.cursor = last
       /\ w.seen = seen /\ w.steady = walk.steady /\ w.moved = walk.moved
  BY <1>1, <1>6, <1>7 DEF Walk
<1> HIDE DEF w
<1>13. \A c \in walk.steady : Listed(walk.list, course[c])
  BY DEF WalkInv
<1>14. \A c \in Courses : KeyOf(c) \in Nat
  BY <1>1, KeysDiffer DEF Walk, KeyOf
<1>15. ASSUME NEW i \in DOMAIN page, NEW j \in DOMAIN page, page[i] = page[j] PROVE i = j
  <2>1. ~ (i < j) /\ ~ (j < i)
    BY <1>2, <1>14, <1>15
  <2> QED BY <1>4, <2>1
<1>16. \A c : Never(page, c) \/ Once(page, c)
  BY <1>15 DEF Never, Once
<1>17. ASSUME ~ walk.moved, NEW c \in walk.steady
       PROVE  IF full /\ KeyOf(c) < KeyOf(page[Limit]) THEN Never(seen, c) ELSE Once(seen, c)
  <2>1. c \in Courses
    BY <1>1
  <2>2. CASE c \in Behind
    <3>1. Never(walk.seen, c)
      <4>1. CASE walk.cursor = None
        BY <1>1, <4>1 DEF WalkInv, Never
      <4>2. CASE walk.cursor # None
        <5>1. Shown(walk.after)
          BY <1>1, <1>17, <4>2 DEF WalkInv
        <5>2. KeyOf(c) < walk.after /\ walk.after \in Nat /\ KeyOf(c) \in Nat
          BY <1>1, <1>14, <2>1, <2>2, <4>2 DEF Behind, KeyOf, Walk
        <5>3. ~ (KeyOf(c) >= walk.after)
          BY <5>2
        <5> QED BY <1>17, <5>1, <5>3 DEF Shown
      <4> QED BY <4>1, <4>2
    <3>2. CASE Never(page, c)
      <4>1. full /\ KeyOf(c) < KeyOf(page[Limit])
        BY <1>2, <2>2, <3>2 DEF Never
      <4> QED BY <1>10, <2>1, <3>1, <3>2, <4>1
    <3>3. CASE Once(page, c)
      <4>1. PICK i \in DOMAIN page : page[i] = c
        BY <3>3 DEF Once
      <4>2. full => ~ (KeyOf(c) < KeyOf(page[Limit]))
        BY <1>2, <1>4, <1>5, <1>14, <2>1, <4>1
      <4> QED BY <1>11, <2>1, <3>1, <3>3, <4>2
    <3> QED BY <1>16, <3>2, <3>3
  <2>3. CASE c \notin Behind
    <3>1. Never(page, c)
      BY <1>2, <2>3 DEF Never
    <3>2. walk.cursor # None /\ ~ (KeyOf(c) < walk.after)
      BY <1>13, <1>17, <2>1, <2>3 DEF Behind, KeyOf
    <3>3. KeyOf(c) >= walk.after /\ walk.after \in Nat /\ KeyOf(c) \in Nat
      BY <1>1, <1>14, <2>1, <3>2 DEF Walk
    <3>4. Once(walk.seen, c)
      BY <1>1, <1>17, <3>2, <3>3 DEF WalkInv, Shown
    <3>5. full => ~ (KeyOf(c) < KeyOf(page[Limit]))
      <4> SUFFICES ASSUME full PROVE ~ (KeyOf(c) < KeyOf(page[Limit]))
        OBVIOUS
      <4>1. page[Limit] \in Behind /\ page[Limit] \in Courses
        BY <1>2, <1>5
      <4>2. KeyOf(page[Limit]) < walk.after /\ KeyOf(page[Limit]) \in Nat
        BY <1>14, <3>2, <4>1 DEF Behind, KeyOf
      <4> QED BY <3>3, <4>2
    <3> QED BY <1>11, <2>1, <3>1, <3>4, <3>5
  <2> QED BY <2>2, <2>3
<1>18. ASSUME ~ walk.moved, full PROVE Shown(KeyOf(walk.cursor))'
  <2>1. \A c \in walk.steady : KeyOf(c) \in Nat /\ KeyOf(page[Limit]) \in Nat
    BY <1>1, <1>5, <1>14, <1>18
  <2>2. \A c \in walk.steady : IF KeyOf(c) >= KeyOf(page[Limit]) THEN Once(seen, c) ELSE Never(seen, c)
    BY <1>17, <1>18, <2>1
  <2> QED BY <1>3, <1>7, <1>12, <1>18, <2>2 DEF Shown, KeyOf
<1>19. ASSUME ~ walk.moved, ~ full PROVE \A c \in walk'.steady : Once(walk'.seen, c)
  BY <1>3, <1>12, <1>17, <1>19
<1> HIDE DEF full
<1> QED BY <1>3, <1>7, <1>8, <1>9, <1>12, <1>13, <1>18, <1>19 DEF WalkInv

(* What is written meanwhile.                                              *)
LEMMA WalkWatches ==
  ASSUME CoursesTypeOK, WalkInv, walk' = Watched(walk, course')
  PROVE  WalkInv'
<1> DEFINE steady == {c \in walk.steady : /\ Listed(walk.list, course'[c])
                                          /\ Key(walk.list, course'[c]) = Key(walk.list, course[c])}
           moved == walk.moved \/ (walk.pc = "cursor" /\ Key(walk.list, course'[walk.cursor])
                                                           # Key(walk.list, course[walk.cursor]))
           w == [walk EXCEPT !.steady = steady, !.moved = moved]
<1>1. walk \in Walk /\ steady \subseteq walk.steady
  BY DEF WalkInv
<1>2. walk' = w
  BY DEF Watched
<1>3. moved \in BOOLEAN
  BY Zenon
<1>4. /\ \A c \in steady : Listed(walk.list, course'[c]) /\ Key(walk.list, course'[c]) = KeyOf(c)
      /\ ~ moved /\ walk.pc = "cursor" => Key(walk.list, course'[walk.cursor]) = KeyOf(walk.cursor)
  BY DEF KeyOf
<1>5. ~ moved => ~ walk.moved
  OBVIOUS
<1> HIDE DEF steady, moved
<1>6. /\ w \in Walk /\ w.pc = walk.pc /\ w.list = walk.list /\ w.cursor = walk.cursor
      /\ w.seen = walk.seen /\ w.steady = steady /\ w.moved = moved /\ w.after = walk.after
  BY <1>1, <1>3 DEF Walk
<1> HIDE DEF w
<1>7. \A c \in walk'.steady : KeyOf(c)' = KeyOf(c) /\ c \in walk.steady /\ Listed(walk'.list, course'[c])
  BY <1>1, <1>2, <1>4, <1>6 DEF KeyOf
<1>8. ASSUME ~ walk'.moved, walk'.pc = "query", walk'.cursor # None PROVE Shown(walk.after)'
  BY <1>2, <1>5, <1>6, <1>7, <1>8 DEF WalkInv, Shown
<1>9. ASSUME ~ walk'.moved, walk'.pc = "cursor" PROVE Shown(KeyOf(walk.cursor))'
  <2>1. Shown(KeyOf(walk.cursor)) /\ KeyOf(walk.cursor)' = KeyOf(walk.cursor)
    BY <1>2, <1>4, <1>5, <1>6, <1>9 DEF WalkInv, KeyOf
  <2> QED BY <1>2, <1>6, <1>7, <2>1 DEF Shown
<1>10. ASSUME ~ walk'.moved, walk'.pc = "done" PROVE \A c \in walk'.steady : Once(walk'.seen, c)
  BY <1>2, <1>5, <1>6, <1>7, <1>10 DEF WalkInv
<1>11. /\ walk'.pc = "cursor" => walk'.cursor # None
       /\ walk'.pc = "query" /\ walk'.cursor = None => walk'.seen = <<>>
  BY <1>2, <1>6 DEF WalkInv
<1> QED BY <1>2, <1>6, <1>7, <1>8, <1>9, <1>10, <1>11 DEF WalkInv

(* Stamps stay different if each new copy has its course's dates or now's. *)
LEMMA StampsKept ==
  ASSUME CoursesTypeOK, StampsInv, NEW o, NEW k \in Course, clock' \in {clock, clock + 1},
         \A x \in Records' : x \in Records \/ x[2] = NoCourse \/ x = <<o, k>>,
         Dated(k),
         \/ k.publishedAt = None
         \/ clock' = clock + 1 /\ k.publishedAt = clock + 1
         \/ \E x \in Records : x[1] = o /\ x[2].publishedAt = k.publishedAt,
         \/ k.createdAt = None
         \/ clock' = clock + 1 /\ k.createdAt = clock + 1
         \/ \E x \in Records : x[1] = o /\ x[2].createdAt = k.createdAt
  PROVE  StampsInv'
<1>1. clock \in Nat /\ clock' \in Nat /\ clock <= clock'
  BY DEF CoursesTypeOK
<1>2. \A x \in Records : x[2] \in Course
  BY DEF Records, CoursesTypeOK, Request
<1>3. \A x \in Records : /\ x[2].publishedAt \in Nat /\ x[2].createdAt \in Nat
                         /\ x[2].publishedAt <= clock /\ x[2].createdAt <= clock /\ Dated(x[2])
  BY <1>2 DEF StampsInv, Course
<1>4. NoCourse.publishedAt = None /\ NoCourse.createdAt = None /\ Dated(NoCourse)
  BY DEF NoCourse, Dated
<1>5. k.publishedAt \in Nat /\ k.createdAt \in Nat /\ k.publishedAt <= clock' /\ k.createdAt <= clock'
  <2>1. k.publishedAt \in Nat /\ k.createdAt \in Nat
    BY DEF Course
  <2>2. k.publishedAt <= clock'
    BY <1>1, <1>3 DEF None
  <2>3. k.createdAt <= clock'
    BY <1>1, <1>3 DEF None
  <2> QED BY <2>1, <2>2, <2>3
<1> DEFINE pair == <<o, k>>
<1>6. pair[1] = o /\ pair[2] = k
  OBVIOUS
<1>7. \A x \in Records' : x \in Records \/ x[2] = NoCourse \/ x = pair
  OBVIOUS
<1> HIDE DEF pair
<1>8. ASSUME NEW x \in Records'
      PROVE  Dated(x[2]) /\ x[2].publishedAt <= clock' /\ x[2].createdAt <= clock'
  <2>1. CASE x \in Records
    BY <1>1, <1>3, <2>1
  <2>2. CASE x[2] = NoCourse
    BY <1>1, <1>4, <2>2 DEF None
  <2>3. CASE x = pair
    BY <1>5, <1>6, <2>3
  <2> QED BY <1>7, <2>1, <2>2, <2>3
<1>9. ASSUME NEW x \in Records', NEW y \in Records',
             x[2].publishedAt # None, x[2].publishedAt = y[2].publishedAt
      PROVE  x[1] = y[1]
  <2>1. (x \in Records \/ x = pair) /\ (y \in Records \/ y = pair)
    BY <1>4, <1>7, <1>9
  <2>2. ASSUME NEW z \in Records, z[2].publishedAt # None, z[2].publishedAt = k.publishedAt PROVE z[1] = o
    <3>1. k.publishedAt # clock + 1
      BY <1>1, <1>3, <2>2
    <3> QED BY <2>2, <3>1 DEF StampsInv
  <2> QED BY <1>6, <1>9, <2>1, <2>2 DEF StampsInv
<1>10. ASSUME NEW x \in Records', NEW y \in Records',
              x[2].createdAt # None, x[2].createdAt = y[2].createdAt
       PROVE  x[1] = y[1]
  <2>1. (x \in Records \/ x = pair) /\ (y \in Records \/ y = pair)
    BY <1>4, <1>7, <1>10
  <2>2. ASSUME NEW z \in Records, z[2].createdAt # None, z[2].createdAt = k.createdAt PROVE z[1] = o
    <3>1. k.createdAt # clock + 1
      BY <1>1, <1>3, <2>2
    <3> QED BY <2>2, <3>1 DEF StampsInv
  <2> QED BY <1>6, <1>10, <2>1, <2>2 DEF StampsInv
<1>11. \A x, y \in Records' :
         /\ x[2].publishedAt # None /\ x[2].publishedAt = y[2].publishedAt => x[1] = y[1]
         /\ x[2].createdAt # None /\ x[2].createdAt = y[2].createdAt => x[1] = y[1]
  BY <1>9, <1>10
<1>12. \A x \in Records' : Dated(x[2]) /\ x[2].publishedAt <= clock' /\ x[2].createdAt <= clock'
  BY <1>8
<1> QED BY <1>11, <1>12 DEF StampsInv, Dated

(* The copies there are after one request has been put down again, or has  *)
(* taken a copy.                                                           *)
LEMMA RecordsMove ==
  ASSUME CoursesTypeOK, NEW r \in Requests, NEW q \in Request, req' = [req EXCEPT ![r] = q],
         UNCHANGED course
  PROVE  \A x \in Records' : x \in Records \/ x = <<q.course, q.copy>>
<1>1. \A p \in Requests : req'[p] = IF p = r THEN q ELSE req[p]
  BY DEF CoursesTypeOK
<1> QED BY <1>1 DEF Records

\* A copy is of a course of its dates, or of a time that is now.
Copied(o, k) ==
  /\ Dated(k)
  /\ \/ k.publishedAt = None
     \/ clock' = clock + 1 /\ k.publishedAt = clock + 1
     \/ \E x \in Records : x[1] = o /\ x[2].publishedAt = k.publishedAt
  /\ \/ k.createdAt = None
     \/ clock' = clock + 1 /\ k.createdAt = clock + 1
     \/ \E x \in Records : x[1] = o /\ x[2].createdAt = k.createdAt

(* A request that moves with such a copy keeps the stamps different.       *)
LEMMA StampsMove ==
  ASSUME CoursesTypeOK, StampsInv, NEW r \in Requests, NEW q \in Request, req' = [req EXCEPT ![r] = q],
         UNCHANGED course, clock' \in {clock, clock + 1}, Copied(q.course, q.copy)
  PROVE  StampsInv'
<1>1. q.copy \in Course
  BY DEF Request
<1>2. \A x \in Records' : x \in Records \/ x = <<q.course, q.copy>>
  BY RecordsMove
<1> QED BY <1>1, <1>2, StampsKept DEF Copied

(* So does one that ends.                                                  *)
LEMMA IdleIsOne ==
  ASSUME NEW r \in Requests, CoursesTypeOK
  PROVE  Idle \in Request /\ Copied(Idle.course, Idle.copy) /\ Idle.copy = NoCourse
<1>1. 1 \in Courses
  BY CatalogueAssumption DEF Courses
<1>2. Idle \in Request /\ Idle.copy = NoCourse
  BY <1>1 DEF Idle, Request, Ops, NoCourse, Course, None
<1> QED BY <1>2 DEF Copied, Dated, NoCourse

(* The steps of a request, one by one: what begins has no copy, publish is *)
(* given a time of its own, and the other moves keep or clear what was.    *)
LEMMA StampsBegin ==
  ASSUME CoursesTypeOK, StampsInv, NEW r \in Requests, NEW op \in Ops, NEW c \in Courses,
         NEW title \in Titles \cup {None}, Begin(r, op, c, title)
  PROVE  StampsInv'
<1> DEFINE new == [op |-> op, pc |-> IF op = "create" THEN "titles" ELSE "read",
                   course |-> c, title |-> title, copy |-> NoCourse]
<1>1. req' = [req EXCEPT ![r] = new] /\ UNCHANGED <<course, clock>>
  BY DEF Begin
<1>2. NoCourse \in Course
  BY DEF NoCourse, Course, None
<1>3. new \in Request /\ new.copy = NoCourse
  BY <1>2 DEF Request
<1> HIDE DEF new
<1>4. Copied(new.course, new.copy)
  BY <1>3 DEF Copied, Dated, NoCourse
<1> QED BY <1>1, <1>3, <1>4, StampsMove

LEMMA StampsRead ==
  ASSUME CoursesTypeOK, StampsInv, NEW r \in Requests, Read(r)
  PROVE  StampsInv'
<1> DEFINE c == req[r].course
           k == course[c]
           op == req[r].op
<1>1. /\ req[r] \in Request /\ c \in Courses /\ k \in Course /\ op \in Ops /\ req[r].copy \in Course
      /\ req[r].title \in Titles \cup {None} /\ clock \in Nat
      /\ course' = course /\ clock' = IF op = "publish" THEN clock + 1 ELSE clock
  BY DEF Read, CoursesTypeOK, Request
<1>2. clock' \in {clock, clock + 1} /\ clock + 1 \in Nat /\ clock + 1 # None
  BY <1>1 DEF None
<1>3. ASSUME NEW copy \in Course, Copied(c, copy), NEW pc \in {"idle", "read", "titles", "store"},
             req' = [req EXCEPT ![r] = [@ EXCEPT !.pc = pc, !.copy = copy]]
      PROVE  StampsInv'
  <2> DEFINE q == [req[r] EXCEPT !.pc = pc, !.copy = copy]
  <2>1. q \in Request /\ q.course = c /\ q.copy = copy
    BY <1>1, <1>3 DEF Request
  <2>2. req' = [req EXCEPT ![r] = q]
    BY <1>3
  <2> HIDE DEF q
  <2> QED BY <1>1, <1>2, <1>3, <2>1, <2>2, StampsMove
<1> DEFINE x == <<c, k>>
           y == <<c, req[r].copy>>
<1>4. x \in Records /\ y \in Records /\ x[1] = c /\ y[1] = c /\ x[2] = k /\ y[2] = req[r].copy
  BY <1>1 DEF Records
<1> HIDE DEF x, y
<1>5. Dated(k) /\ Dated(req[r].copy)
  BY <1>4 DEF StampsInv
<1>6. CASE op \in Moves /\ Admits(op, k)
  <2> DEFINE copy == Moved(op, k)
  <2>1. copy \in Course /\ Copied(c, copy)
    <3>1. CASE op = "publish"
      <4>1. /\ copy \in Course /\ copy.publishedAt = clock + 1 /\ copy.createdAt = k.createdAt
            /\ copy.state = "published" /\ k.state = "draft"
        BY <1>1, <1>2, <1>6, <3>1 DEF Moved, Admits, Course
      <4>2. clock' = clock + 1
        BY <1>1, <3>1
      <4> HIDE DEF copy
      <4> QED BY <1>2, <1>4, <1>5, <4>1, <4>2 DEF Copied, Dated
    <3>2. CASE op = "unpublish"
      <4>1. /\ copy \in Course /\ copy.publishedAt = None /\ copy.createdAt = k.createdAt
            /\ copy.state = "draft" /\ k.state = "published"
        BY <1>1, <1>2, <1>6, <3>2 DEF Moved, Admits, Course, None
      <4> HIDE DEF copy
      <4> QED BY <1>4, <1>5, <4>1 DEF Copied, Dated
    <3>3. CASE op = "archive"
      <4>1. /\ copy \in Course /\ copy.publishedAt = k.publishedAt /\ copy.createdAt = k.createdAt
            /\ copy.state = "archived" /\ k.state = "published"
        BY <1>1, <1>2, <1>6, <3>3 DEF Moved, Admits, Course
      <4> HIDE DEF copy
      <4> QED BY <1>4, <1>5, <4>1 DEF Copied, Dated
    <3> QED BY <1>6, <3>1, <3>2, <3>3 DEF Moves
  <2>2. req' = [req EXCEPT ![r] = [@ EXCEPT !.pc = "store", !.copy = copy]]
    BY <1>6 DEF Read
  <2> HIDE DEF copy
  <2> QED BY <1>3, <2>1, <2>2
<1>7. CASE op \in Moves /\ ~ Admits(op, k)
  <2>1. req' = [req EXCEPT ![r] = Idle]
    BY <1>7 DEF Read
  <2> QED BY <1>1, <1>2, <2>1, IdleIsOne, StampsMove
<1>8. CASE op \notin Moves /\ op = "delete"
  <2> DEFINE q == [req[r] EXCEPT !.pc = "store"]
  <2>1. req' = [req EXCEPT ![r] = q]
    BY <1>8 DEF Read
  <2>2. q \in Request /\ q.course = c /\ q.copy = req[r].copy
    BY <1>1 DEF Request
  <2> HIDE DEF q
  <2>3. Copied(q.course, q.copy)
    BY <1>4, <1>5, <2>2 DEF Copied
  <2> QED BY <1>1, <1>2, <2>1, <2>2, <2>3, StampsMove
<1>9. CASE op \notin Moves /\ op # "delete"
  <2> DEFINE copy == [k EXCEPT !.title = req[r].title]
             pc == IF req[r].title = k.title THEN "store" ELSE "titles"
  <2>1. req' = [req EXCEPT ![r] = [@ EXCEPT !.pc = pc, !.copy = copy]]
    BY <1>9 DEF Read
  <2>2. /\ copy \in Course /\ copy.publishedAt = k.publishedAt /\ copy.createdAt = k.createdAt
        /\ copy.state = k.state
    BY <1>1 DEF Course
  <2>3. pc \in {"store", "titles"}
    OBVIOUS
  <2> HIDE DEF copy, pc
  <2>4. Copied(c, copy)
    BY <1>4, <1>5, <2>2 DEF Copied, Dated
  <2> QED BY <1>3, <2>1, <2>2, <2>3, <2>4
<1> QED BY <1>6, <1>7, <1>8, <1>9

(* A new course is given a time of its own.                                *)
LEMMA StampsLookUp ==
  ASSUME CoursesTypeOK, StampsInv, NEW r \in Requests, LookUp(r)
  PROVE  StampsInv'
<1> DEFINE c == req[r].course
<1>1. /\ req[r] \in Request /\ c \in Courses /\ req[r].copy \in Course
      /\ req[r].title \in Titles \cup {None} /\ clock \in Nat /\ course' = course
  BY DEF LookUp, CoursesTypeOK, Request
<1>2. /\ clock' \in {clock, clock + 1} /\ clock + 1 \in Nat /\ clock + 1 # None
      /\ req[r].op = "create" /\ ~ Taken(req[r].title) => clock' = clock + 1
  BY <1>1 DEF LookUp, None
<1>3. CASE Taken(req[r].title)
  <2>1. req' = [req EXCEPT ![r] = Idle]
    BY <1>3 DEF LookUp
  <2> QED BY <1>1, <1>2, <2>1, IdleIsOne, StampsMove
<1>4. CASE ~ Taken(req[r].title) /\ req[r].op = "create"
  <2> DEFINE copy == [NoCourse EXCEPT !.title = req[r].title, !.state = "draft", !.createdAt = clock + 1]
             q == [req[r] EXCEPT !.pc = "store", !.copy = copy]
  <2>1. req' = [req EXCEPT ![r] = q]
    BY <1>4 DEF LookUp
  <2>2. copy \in Course /\ copy.state = "draft" /\ copy.createdAt = clock + 1 /\ copy.publishedAt = None
    BY <1>1, <1>2 DEF NoCourse, Course, None
  <2> HIDE DEF copy
  <2>3. q \in Request /\ q.course = c /\ q.copy = copy
    BY <1>1, <2>2 DEF Request
  <2> HIDE DEF q
  <2>4. Copied(q.course, q.copy)
    BY <1>2, <1>4, <2>2, <2>3 DEF Copied, Dated
  <2> QED BY <1>1, <1>2, <2>1, <2>3, <2>4, StampsMove
<1>5. CASE ~ Taken(req[r].title) /\ req[r].op # "create"
  <2> DEFINE q == [req[r] EXCEPT !.pc = "store"]
             y == <<c, req[r].copy>>
  <2>1. req' = [req EXCEPT ![r] = q]
    BY <1>5 DEF LookUp
  <2>2. q \in Request /\ q.course = c /\ q.copy = req[r].copy
    BY <1>1 DEF Request
  <2>3. y \in Records /\ y[1] = c /\ y[2] = req[r].copy
    BY DEF Records
  <2> HIDE DEF q, y
  <2>4. Copied(q.course, q.copy)
    BY <2>2, <2>3 DEF Copied, StampsInv
  <2> QED BY <1>1, <1>2, <2>1, <2>2, <2>4, StampsMove
<1> QED BY <1>3, <1>4, <1>5

(* What is stored is a copy of the course.                                 *)
LEMMA StampsStore ==
  ASSUME CoursesTypeOK, StampsInv, NEW r \in Requests, Store(r)
  PROVE  StampsInv'
<1> DEFINE c == req[r].course
           k == IF req[r].op = "delete" THEN [course[c] EXCEPT !.deleted = TRUE] ELSE req[r].copy
           x == <<c, course[c]>>
           y == <<c, req[r].copy>>
<1>1. /\ req[r] \in Request /\ c \in Courses /\ course[c] \in Course /\ req[r].copy \in Course
      /\ clock' = clock
  BY DEF Store, CoursesTypeOK, Request
<1>2. course' = [course EXCEPT ![c] = k] /\ req' = [req EXCEPT ![r] = Idle]
  BY DEF Store, Put
<1>3. x \in Records /\ y \in Records /\ x[1] = c /\ y[1] = c /\ x[2] = course[c] /\ y[2] = req[r].copy
  BY <1>1 DEF Records
<1>4. /\ k \in Course /\ Dated(k)
      /\ \E z \in Records : z[1] = c /\ z[2].publishedAt = k.publishedAt /\ z[2].createdAt = k.createdAt
  <2>1. Dated(course[c]) /\ Dated(req[r].copy)
    BY <1>3 DEF StampsInv
  <2>2. CASE req[r].op = "delete"
    <3>1. /\ k \in Course /\ k.publishedAt = course[c].publishedAt /\ k.createdAt = course[c].createdAt
          /\ k.state = course[c].state
      BY <1>1, <2>2 DEF Course
    <3> HIDE DEF k, x, y
    <3> QED BY <1>3, <2>1, <3>1 DEF Dated
  <2>3. CASE req[r].op # "delete"
    <3>1. k = req[r].copy
      BY <2>3
    <3> HIDE DEF k, x, y
    <3> QED BY <1>1, <1>3, <2>1, <3>1
  <2> QED BY <2>2, <2>3
<1> HIDE DEF k
<1>5. /\ \A d \in Courses : course'[d] = IF d = c THEN k ELSE course[d]
      /\ \A p \in Requests : req'[p] = IF p = r THEN Idle ELSE req[p]
  BY <1>2 DEF CoursesTypeOK
<1>6. Idle.copy = NoCourse
  BY IdleIsOne
<1>7. \A z \in Records' : z \in Records \/ z[2] = NoCourse \/ z = <<c, k>>
  <2> SUFFICES ASSUME NEW z \in Records' PROVE z \in Records \/ z[2] = NoCourse \/ z = <<c, k>>
    OBVIOUS
  <2>1. CASE \E d \in Courses : z = <<d, course'[d]>>
    BY <1>5, <2>1 DEF Records
  <2>2. CASE \E p \in Requests : z = <<req'[p].course, req'[p].copy>>
    BY <1>5, <1>6, <2>2 DEF Records
  <2> QED BY <2>1, <2>2 DEF Records
<1> QED BY <1>1, <1>4, <1>7, StampsKept

(* Every step of the catalogue keeps both.                                 *)
LEMMA WalkStep ==
  ASSUME CoursesTypeOK, StampsInv, WalkInv, [CatalogueNext]_catalogue
  PROVE  StampsInv' /\ WalkInv'
<1>1. ASSUME UNCHANGED <<course, req, clock>> PROVE StampsInv'
  BY <1>1 DEF StampsInv, Records
<1>2. ASSUME UNCHANGED <<course, walk>> PROVE WalkInv'
  BY <1>2 DEF WalkInv, Shown, KeyOf
<1>3. ASSUME NEW list \in Lists, StartWalk(list) PROVE StampsInv' /\ WalkInv'
  <2>1. UNCHANGED <<course, req, clock>>
    BY <1>3 DEF StartWalk
  <2> QED BY <1>1, <1>3, <2>1, WalkStarts
<1>4. CASE ReadCursor
  <2>1. UNCHANGED <<course, req, clock>>
    BY <1>4 DEF ReadCursor
  <2> QED BY <1>1, <1>4, <2>1, CursorRead
<1>5. CASE ReadPage
  <2>1. UNCHANGED <<course, req, clock>>
    BY <1>5 DEF ReadPage
  <2> QED BY <1>1, <1>5, <2>1, PageRead
<1>6. ASSUME NEW r \in Requests, NEW op \in Ops, NEW c \in Courses, NEW title \in Titles \cup {None},
             Begin(r, op, c, title)
      PROVE  StampsInv' /\ WalkInv'
  <2>1. UNCHANGED <<course, walk>>
    BY <1>6 DEF Begin
  <2> QED BY <1>2, <1>6, <2>1, StampsBegin
<1>7. ASSUME NEW r \in Requests, Read(r) PROVE StampsInv' /\ WalkInv'
  <2>1. UNCHANGED <<course, walk>>
    BY <1>7 DEF Read
  <2> QED BY <1>2, <1>7, <2>1, StampsRead
<1>8. ASSUME NEW r \in Requests, LookUp(r) PROVE StampsInv' /\ WalkInv'
  <2>1. UNCHANGED <<course, walk>>
    BY <1>8 DEF LookUp
  <2> QED BY <1>2, <1>8, <2>1, StampsLookUp
<1>9. ASSUME NEW r \in Requests, Store(r) PROVE StampsInv' /\ WalkInv'
  <2>1. walk' = Watched(walk, course')
    BY <1>9 DEF Store, Put
  <2> QED BY <1>9, <2>1, StampsStore, WalkWatches
<1>10. CASE UNCHANGED catalogue
  BY <1>1, <1>2, <1>10 DEF catalogue
<1> QED BY <1>3, <1>4, <1>5, <1>6, <1>7, <1>8, <1>9, <1>10, Zenon DEF CatalogueNext

(* At first each course was made at a time of its own, and nobody walks.   *)
LEMMA WalkBegins == Init => StampsInv /\ WalkInv
<1> SUFFICES ASSUME Init PROVE StampsInv /\ WalkInv
  OBVIOUS
<1>1. PICK made \in SUBSET Courses, title \in [Courses -> Titles] :
        \E open \in SUBSET made :
          course = [c \in Courses |->
                 IF c \notin made THEN NoCourse
                 ELSE [title |-> title[c], state |-> IF c \in open THEN "published" ELSE "draft",
                       publishedAt |-> IF c \in open THEN c ELSE None, createdAt |-> c, deleted |-> FALSE]]
  BY Zenon DEF Init
<1>2. PICK open \in SUBSET made :
        course = [c \in Courses |->
                 IF c \notin made THEN NoCourse
                 ELSE [title |-> title[c], state |-> IF c \in open THEN "published" ELSE "draft",
                       publishedAt |-> IF c \in open THEN c ELSE None, createdAt |-> c, deleted |-> FALSE]]
  BY <1>1
<1>3. ASSUME NEW c \in Courses
      PROVE  Dated(course[c]) /\ course[c].publishedAt \in {None, c} /\ course[c].createdAt \in {None, c}
  BY <1>2 DEF Dated, NoCourse, Courses, None
<1>4. \A r \in Requests : req[r].copy = NoCourse
  BY DEF Init, Idle
<1>5. \A x \in Records : Dated(x[2]) /\ (x[2] = NoCourse \/ x[1] \in Courses)
                         /\ x[2].publishedAt \in {None, x[1]} /\ x[2].createdAt \in {None, x[1]}
  <2> SUFFICES ASSUME NEW x \in Records
               PROVE  /\ Dated(x[2]) /\ (x[2] = NoCourse \/ x[1] \in Courses)
                      /\ x[2].publishedAt \in {None, x[1]} /\ x[2].createdAt \in {None, x[1]}
    OBVIOUS
  <2>1. CASE \E c \in Courses : x = <<c, course[c]>>
    BY <1>3, <2>1
  <2>2. CASE x[2] = NoCourse
    BY <2>2 DEF NoCourse, Dated
  <2> QED BY <1>4, <2>1, <2>2 DEF Records
<1>6. clock = NumCourses /\ NumCourses \in Nat
  BY CatalogueAssumption DEF Init
<1>7. \A x \in Records : x[2].publishedAt <= clock /\ x[2].createdAt <= clock
  BY <1>5, <1>6 DEF NoCourse, None, Courses
<1>8. StampsInv
  BY <1>5, <1>7 DEF StampsInv
<1>9. walk = [pc |-> "idle", list |-> "published", cursor |-> None, after |-> None,
              seen |-> <<>>, steady |-> {}, moved |-> FALSE]
  BY DEF Init
<1>10. WalkInv
  BY <1>9 DEF WalkInv, Walk, Lists, None
<1> QED BY <1>8, <1>10

(* A walk to the last page.                                                *)
LEMMA WalkShows == WalkInv => WalkTypeOK /\ WalkComplete
<1> SUFFICES ASSUME WalkInv PROVE WalkTypeOK /\ WalkComplete
  OBVIOUS
<1>1. WalkTypeOK
  BY DEF WalkInv, Walk, WalkTypeOK
<1>2. ASSUME walk.pc = "done", ~ walk.moved, NEW c \in walk.steady PROVE Times(c) = 1
  <2>1. PICK i \in DOMAIN walk.seen : walk.seen[i] = c /\ \A j \in DOMAIN walk.seen : walk.seen[j] = c => j = i
    BY <1>2 DEF WalkInv, Once
  <2>2. {j \in DOMAIN walk.seen : walk.seen[j] = c} = {i}
    BY <2>1
  <2> QED BY <2>2, FS_Singleton DEF Times
<1> QED BY <1>1, <1>2 DEF WalkComplete

(* A walk to the last page shows every course that stayed in the list, in  *)
(* its place, and shows it once, whatever is created, renamed, published,  *)
(* unpublished or deleted meanwhile, unless a cursor moved, for any number *)
(* of courses and requests and any size of a page                          *)
(* (FirestoreCourseRepository.ts 54-89).                                   *)
THEOREM WalksShowAll == AccessSpec => [](WalkTypeOK /\ WalkComplete)
<1>1. AccessInit => StampsInv /\ WalkInv
  BY WalkBegins DEF AccessInit
<1>2. AccessInv => CoursesTypeOK
  BY DEF AccessInv
<1>3. CoursesTypeOK /\ StampsInv /\ WalkInv /\ [CatalogueNext]_catalogue => StampsInv' /\ WalkInv'
  BY WalkStep
<1> QED BY <1>1, <1>2, <1>3, AccessInvariant, CatalogueMoves, WalkShows, PTL DEF AccessSpec
============================================================================
