--------------------------- MODULE CourseContent ---------------------------
(***************************************************************************)
(* One course with its semesters, subjects and lessons (packages/course-   *)
(* service).  A course counts its semesters and a semester its subjects,   *)
(* in fields that are changed on a copy read earlier; whole copies, with   *)
(* their deletedAt, are written back, except for lessons, whose update     *)
(* names its fields.  No step is a transaction.                            *)
(***************************************************************************)
EXTENDS Integers, FiniteSetsExt

CONSTANTS
  Semesters, Subjects, Lessons,   \* the ids there are for each
  Requests,                       \* requests in flight
  MaxRequests,                    \* bound: requests begun
  MaxAborts                       \* bound: requests that die at an await

ASSUME ContentAssumption ==
  /\ IsFiniteSet(Semesters) /\ IsFiniteSet(Subjects)
  /\ Semesters # {} /\ Subjects # {} /\ Lessons # {}
  /\ MaxRequests \in Nat /\ MaxAborts \in Nat

VARIABLES
  course,      \* its state, semesterCount, and whether it is deleted
  semester,    \* per id: none, live or deleted; subjectCount
  subject,     \* per id: none, live or deleted; its semester
  lesson,      \* per id: none, live or deleted; its subject
  req,         \* the requests: await, operation, targets, copies
  alone,       \* history: no two requests have been in flight together
  begun, aborts

docs == <<course, semester, subject, lesson>>
vars == <<docs, req, alone, begun, aborts>>

Status == {"none", "live", "deleted"}

Course == [state : {"draft", "published", "archived"}, count : Nat, deleted : BOOLEAN]
Semester == [status : Status, count : Nat]
Subject == [status : Status, semester : Semesters]
Lesson == [status : Status, subject : Subjects]

CourseOps == {"publish", "unpublish", "archive", "update", "delete", "createSemester"}
SemesterOps == {"deleteSemester", "updateSemester", "createSubject"}
SubjectOps == {"deleteSubject", "updateSubject", "createLesson"}
LessonOps == {"deleteLesson", "updateLesson"}
Ops == CourseOps \cup SemesterOps \cup SubjectOps \cup LessonOps

Awaits == {"idle", "course", "check", "semester", "subject", "lesson", "store", "retire",
           "writeCourse", "writeSemester", "writeSubject", "writeLesson", "publish"}

Request == [pc : Awaits, op : Ops, semester : Semesters, subject : Subjects, lesson : Lessons,
            course : Course, count : Nat]

NoCourse == [state |-> "draft", count |-> 0, deleted |-> FALSE]

Idle == [pc |-> "idle", op |-> "publish", semester |-> CHOOSE m \in Semesters : TRUE,
         subject |-> CHOOSE s \in Subjects : TRUE, lesson |-> CHOOSE l \in Lessons : TRUE,
         course |-> NoCourse, count |-> 0]

Live == {m \in Semesters : semester[m].status = "live"}
LiveIn(m) == {s \in Subjects : subject[s].status = "live" /\ subject[s].semester = m}

\* Every semester and every subject of a semester there has ever been.
Made == {m \in Semesters : semester[m].status # "none"}
MadeIn(m) == {s \in Subjects : subject[s].status # "none" /\ subject[s].semester = m}

\* A draft, with the content its authors have given it one after the other.
Init ==
  /\ subject \in [Subjects -> [status : {"none", "live"}, semester : Semesters]]
  /\ \E made \in SUBSET Semesters :
       /\ \A s \in Subjects : subject[s].status = "live" => subject[s].semester \in made
       /\ semester = [m \in Semesters |->
                        [status |-> IF m \in made THEN "live" ELSE "none",
                         count |-> Cardinality(LiveIn(m))]]
       /\ course = [state |-> "draft", count |-> Cardinality(made), deleted |-> FALSE]
  /\ lesson = [l \in Lessons |-> [status |-> "none", subject |-> CHOOSE s \in Subjects : TRUE]]
  /\ req = [r \in Requests |-> Idle]
  /\ alone = TRUE /\ begun = 0 /\ aborts = 0

\* Where the request goes on, and with which copies.
Goto(r, pc, copy, count) ==
  req' = [req EXCEPT ![r] = [pc |-> pc, op |-> req[r].op, semester |-> req[r].semester,
                             subject |-> req[r].subject, lesson |-> req[r].lesson,
                             course |-> copy, count |-> count]]

Await(r, pc) == Goto(r, pc, NoCourse, 0)

End(r) == req' = [req EXCEPT ![r] = Idle]

AllIdle == \A r \in Requests : req[r].pc = "idle"

Begin(r, pc, op, m, s, l) ==
  /\ req[r].pc = "idle" /\ begun < MaxRequests
  /\ begun' = begun + 1 /\ alone' = (alone /\ AllIdle)
  /\ req' = [req EXCEPT ![r] = [pc |-> pc, op |-> op, semester |-> m, subject |-> s,
                                lesson |-> l, course |-> NoCourse, count |-> 0]]
  /\ UNCHANGED <<docs, aborts>>

\* An admin's request names something that exists, or existed.
Start(r) ==
  \/ \E op \in CourseOps : Begin(r, "course", op, Idle.semester, Idle.subject, Idle.lesson)
  \/ \E op \in SemesterOps, m \in Made : Begin(r, "semester", op, m, Idle.subject, Idle.lesson)
  \/ \E op \in SubjectOps, s \in Subjects :
       subject[s].status # "none" /\ Begin(r, "subject", op, subject[s].semester, s, Idle.lesson)
  \/ \E op \in LessonOps, l \in Lessons :
       lesson[l].status # "none" /\ Begin(r, "lesson", op, Idle.semester, Idle.subject, l)

\* The entity's methods, on the copy.
Moved(op, c) ==
  [state |-> IF op = "publish" THEN "published" ELSE IF op = "archive" THEN "archived"
             ELSE "draft",
   count |-> c.count, deleted |-> c.deleted]

Counting(c, n) == [state |-> c.state, count |-> n, deleted |-> c.deleted]

\* Mutant: only an archived course may not be archived.
MayMoveLoosely(op, c) == IF op = "publish" THEN c.state = "draft" ELSE c.state # "draft"

MayMove(op, c) == IF op = "publish" THEN c.state = "draft" ELSE c.state = "published"

Positive(n) == n > 0

\* findById, whose answer may be a deleted course; updates may fail on a title that is taken.
ReadCourse(r) ==
  /\ req[r].pc = "course"
  /\ \/ req[r].op = "publish" /\ Goto(r, "check", course, 0)
     \/ req[r].op = "createSemester" /\ Goto(r, "store", course, 0)
     \/ req[r].op = "delete" /\ Await(r, "retire")
     \/ req[r].op = "update" /\ (Goto(r, "writeCourse", course, 0) \/ End(r))
     \/ /\ req[r].op \in {"unpublish", "archive"}
        /\ IF MayMove(req[r].op, course) THEN Goto(r, "writeCourse", Moved(req[r].op, course), 0)
           ELSE End(r)
     \/ /\ req[r].op = "deleteSemester"
        /\ IF Positive(course.count)
             THEN Goto(r, "writeCourse", Counting(course, course.count - 1), 0)
             ELSE End(r)
  /\ UNCHANGED <<docs, alone, begun, aborts>>

\* Mutant: one semester with subjects is enough.
HasSomeContent == \E m \in Live : semester[m].count # 0

HasContent == Live # {} /\ \A m \in Live : semester[m].count # 0

\* Publishing reads the semesters; then the state of the copy decides.
CheckContent(r) ==
  /\ req[r].pc = "check"
  /\ IF HasContent /\ MayMove("publish", req[r].course)
       THEN Goto(r, "writeCourse", Moved("publish", req[r].course), 0)
       ELSE End(r)
  /\ UNCHANGED <<docs, alone, begun, aborts>>

\* findById answers null for a deleted semester.
ReadSemester(r) ==
  LET d == semester[req[r].semester] IN
  /\ req[r].pc = "semester"
  /\ \/ d.status # "live" /\ End(r)
     \/ /\ d.status = "live"
        /\ \/ req[r].op = "deleteSemester" /\ Await(r, "retire")
           \/ req[r].op = "updateSemester" /\ Goto(r, "writeSemester", NoCourse, d.count)
           \/ req[r].op = "createSubject" /\ Goto(r, "store", NoCourse, d.count)
           \/ /\ req[r].op = "deleteSubject"
              /\ IF Positive(d.count) THEN Goto(r, "writeSemester", NoCourse, d.count - 1)
                 ELSE End(r)
  /\ UNCHANGED <<docs, alone, begun, aborts>>

ReadSubject(r) ==
  /\ req[r].pc = "subject"
  /\ \/ subject[req[r].subject].status # "live" /\ End(r)
     \/ /\ subject[req[r].subject].status = "live"
        /\ \/ req[r].op = "deleteSubject" /\ Await(r, "retire")
           \/ req[r].op = "updateSubject" /\ Await(r, "writeSubject")
           \/ req[r].op = "createLesson" /\ Await(r, "store")
  /\ UNCHANGED <<docs, alone, begun, aborts>>

ReadLesson(r) ==
  /\ req[r].pc = "lesson"
  /\ \/ lesson[req[r].lesson].status # "live" /\ End(r)
     \/ /\ lesson[req[r].lesson].status = "live"
        /\ Await(r, IF req[r].op = "deleteLesson" THEN "retire" ELSE "writeLesson")
  /\ UNCHANGED <<docs, alone, begun, aborts>>

\* A new semester, of no subjects, a subject or a lesson is stored under an id of its own.
StoreSemester(r) ==
  /\ req[r].op = "createSemester"
  /\ \E m \in Semesters : /\ semester[m].status = "none"
                         /\ semester' = [semester EXCEPT ![m] = [status |-> "live", count |-> 0]]
  /\ Goto(r, "writeCourse", Counting(req[r].course, req[r].course.count + 1), 0)
  /\ UNCHANGED <<subject, lesson>>

StoreSubject(r) ==
  /\ req[r].op = "createSubject"
  /\ \E s \in Subjects :
       /\ subject[s].status = "none"
       /\ subject' = [subject EXCEPT ![s] = [status |-> "live", semester |-> req[r].semester]]
  /\ Goto(r, "writeSemester", NoCourse, req[r].count + 1)
  /\ UNCHANGED <<semester, lesson>>

StoreLesson(r) ==
  /\ req[r].op = "createLesson"
  /\ \E l \in Lessons :
       /\ lesson[l].status = "none"
       /\ lesson' = [lesson EXCEPT ![l] = [status |-> "live", subject |-> req[r].subject]]
  /\ End(r)
  /\ UNCHANGED <<semester, subject>>

\* Mutant: the subject is counted, and its own write not awaited, so that it may fail.
StoreUnawaited(r) ==
  /\ req[r].pc = "store"
  /\ \/ StoreSemester(r) \/ StoreSubject(r) \/ StoreLesson(r)
     \/ /\ req[r].op = "createSubject"
        /\ Goto(r, "writeSemester", NoCourse, req[r].count + 1)
        /\ UNCHANGED <<semester, subject, lesson>>
  /\ UNCHANGED <<course, alone, begun, aborts>>

Store(r) ==
  /\ req[r].pc = "store"
  /\ StoreSemester(r) \/ StoreSubject(r) \/ StoreLesson(r)
  /\ UNCHANGED <<course, alone, begun, aborts>>

\* Mutant: the parent's counter is left alone.
RetireOnly(r) ==
  /\ req[r].pc = "retire"
  /\ \/ /\ req[r].op = "delete"
        /\ course' = [state |-> course.state, count |-> course.count, deleted |-> TRUE]
        /\ End(r) /\ UNCHANGED <<semester, subject, lesson>>
     \/ /\ req[r].op = "deleteSemester"
        /\ semester' = [semester EXCEPT ![req[r].semester].status = "deleted"]
        /\ End(r) /\ UNCHANGED <<course, subject, lesson>>
     \/ /\ req[r].op = "deleteSubject"
        /\ subject' = [subject EXCEPT ![req[r].subject].status = "deleted"]
        /\ End(r) /\ UNCHANGED <<course, semester, lesson>>
     \/ /\ req[r].op = "deleteLesson"
        /\ lesson' = [lesson EXCEPT ![req[r].lesson].status = "deleted"]
        /\ End(r) /\ UNCHANGED <<course, semester, subject>>
  /\ UNCHANGED <<alone, begun, aborts>>

\* softDelete dates the document; the counter of a parent comes next.
Retire(r) ==
  /\ req[r].pc = "retire"
  /\ \/ /\ req[r].op = "delete"
        /\ course' = [state |-> course.state, count |-> course.count, deleted |-> TRUE]
        /\ End(r) /\ UNCHANGED <<semester, subject, lesson>>
     \/ /\ req[r].op = "deleteSemester"
        /\ semester' = [semester EXCEPT ![req[r].semester].status = "deleted"]
        /\ Await(r, "course") /\ UNCHANGED <<course, subject, lesson>>
     \/ /\ req[r].op = "deleteSubject"
        /\ subject' = [subject EXCEPT ![req[r].subject].status = "deleted"]
        /\ Await(r, "semester") /\ UNCHANGED <<course, semester, lesson>>
     \/ /\ req[r].op = "deleteLesson"
        /\ lesson' = [lesson EXCEPT ![req[r].lesson].status = "deleted"]
        /\ End(r) /\ UNCHANGED <<course, semester, subject>>
  /\ UNCHANGED <<alone, begun, aborts>>

\* update() writes the whole copy, with the deletedAt it was read with: null, but for a course ...
WriteCourse(r) ==
  /\ req[r].pc = "writeCourse"
  /\ course' = req[r].course
  /\ IF req[r].op = "publish" THEN Await(r, "publish") ELSE End(r)
  /\ UNCHANGED <<semester, subject, lesson, alone, begun, aborts>>

WriteSemester(r) ==
  /\ req[r].pc = "writeSemester"
  /\ semester' = [semester EXCEPT ![req[r].semester] =
                     [status |-> "live", count |-> req[r].count]]
  /\ End(r)
  /\ UNCHANGED <<course, subject, lesson, alone, begun, aborts>>

WriteSubject(r) ==
  /\ req[r].pc = "writeSubject"
  /\ subject' = [subject EXCEPT ![req[r].subject].status = "live"]
  /\ End(r)
  /\ UNCHANGED <<course, semester, lesson, alone, begun, aborts>>

\* ... but of a lesson only the fields an update may change.
WriteLesson(r) ==
  /\ req[r].pc = "writeLesson"
  /\ End(r)
  /\ UNCHANGED <<docs, alone, begun, aborts>>

\* course.published goes to the outbox.
Publish(r) ==
  /\ req[r].pc = "publish"
  /\ End(r)
  /\ UNCHANGED <<docs, alone, begun, aborts>>

\* A replica dies, or Firestore rejects the call the request is waiting for.
Abort(r) ==
  /\ req[r].pc # "idle" /\ aborts < MaxAborts
  /\ aborts' = aborts + 1
  /\ End(r)
  /\ UNCHANGED <<docs, alone, begun>>

Next ==
  \E r \in Requests :
    \/ Start(r) \/ ReadCourse(r) \/ CheckContent(r) \/ ReadSemester(r) \/ ReadSubject(r)
    \/ ReadLesson(r) \/ Store(r) \/ Retire(r) \/ WriteCourse(r) \/ WriteSemester(r)
    \/ WriteSubject(r) \/ WriteLesson(r) \/ Publish(r) \/ Abort(r)

Spec == Init /\ [][Next]_vars
----------------------------------------------------------------------------
TypeOK ==
  /\ course \in Course
  /\ semester \in [Semesters -> Semester] /\ subject \in [Subjects -> Subject]
  /\ lesson \in [Lessons -> Lesson]
  /\ req \in [Requests -> Request]
  /\ alone \in BOOLEAN
  /\ begun \in 0 .. MaxRequests /\ aborts \in 0 .. MaxAborts

\* What progress-service is told.
SubjectCount == MapThenSumSet(LAMBDA m : semester[m].count, Live)

(* The counters are exact between requests, as long as none overlap and    *)
(* none dies, although deleting a semester leaves its subjects behind      *)
(* (CreateSubjectUseCase.ts 36-40, DeleteSubjectUseCase.ts 15-22, and the  *)
(* same for semesters); so is the number of subjects of the course.        *)
CountsExact ==
  alone /\ AllIdle /\ aborts = 0 =>
    /\ course.count = Cardinality(Live)
    /\ \A m \in Live : semester[m].count = Cardinality(LiveIn(m))
    /\ SubjectCount = Cardinality({s \in Subjects : subject[s].status = "live"
                                                  /\ subject[s].semester \in Live})

(* Whatever overlaps and dies, lost updates never make a counter exceed    *)
(* what was ever created.                                                  *)
NeverOverCounted ==
  /\ course.count <= Cardinality(Made)
  /\ \A m \in Semesters : semester[m].count <= Cardinality(MadeIn(m))

(* publish() requires at least one semester, and every semester to have a  *)
(* subject (PublishCourseUseCase.ts 18-26): it holds of the content itself *)
(* and not only of the counters, as long as no requests overlap or die.    *)
PublishesWithContent ==
  alone /\ aborts = 0 /\ course.state = "draft" /\ course'.state = "published" =>
    Live # {} /\ \A m \in Live : LiveIn(m) # {}

PublishedHasContent == [][PublishesWithContent]_vars

Moves == {<<"draft", "published">>, <<"published", "draft">>, <<"published", "archived">>}

(* As long as requests do not overlap, the states follow the course state  *)
(* machine, an archived course stays archived, and nothing deleted comes   *)
(* back (Course.ts 46-70, the softDelete of the repositories).             *)
StandsStill ==
  alone =>
    /\ course'.state # course.state => <<course.state, course'.state>> \in Moves
    /\ course.deleted => course'.deleted
    /\ \A m \in Semesters : semester[m].status = "deleted" => semester'[m].status = "deleted"
    /\ \A s \in Subjects : subject[s].status = "deleted" => subject'[s].status = "deleted"

ContentStands == [][StandsStill]_vars

(* A deleted lesson stays deleted, and no lesson moves to another subject, *)
(* whatever overlaps: its update names its fields                          *)
(* (FirestoreLessonRepository.ts 47-55).                                   *)
LessonsStand ==
  \A l \in Lessons :
    /\ lesson[l].status = "deleted" => lesson'[l].status = "deleted"
    /\ lesson[l].status # "none" => lesson'[l].subject = lesson[l].subject

LessonsStayDeleted == [][LessonsStand]_vars
============================================================================
