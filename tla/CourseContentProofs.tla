------------------------ MODULE CourseContentProofs ------------------------
(***************************************************************************)
(* CourseContent, and a visit of the course (CourseView), for any number of*)
(* semesters, subjects, lessons, requests and deaths.                      *)
(***************************************************************************)
EXTENDS CourseView, FiniteSetTheorems, TLAPS

Others(r) == \A q \in Requests \ {r} : req'[q] = req[q]

LEMMA Fields ==
  ASSUME TypeOK, NEW r \in Requests
  PROVE  /\ req[r].pc \in Awaits /\ req[r].op \in Ops
         /\ req[r].semester \in Semesters /\ req[r].subject \in Subjects
         /\ req[r].lesson \in Lessons
         /\ req[r].course \in Course /\ req[r].count \in Nat
  BY DEF TypeOK, Request

LEMMA NoCourseTyped == NoCourse \in Course /\ NoCourse.count = 0
  BY DEF NoCourse, Course

LEMMA IdleTyped == Idle \in Request /\ Idle.pc = "idle" /\ Idle.course = NoCourse /\ Idle.count = 0
<1>1. /\ (CHOOSE m \in Semesters : TRUE) \in Semesters
      /\ (CHOOSE s \in Subjects : TRUE) \in Subjects
      /\ (CHOOSE l \in Lessons : TRUE) \in Lessons
  BY ContentAssumption
<1> QED BY <1>1, NoCourseTyped DEF Idle, Request, Awaits, Ops, CourseOps

\* What Goto does to the requests ...
LEMMA GotoMoves ==
  ASSUME TypeOK, NEW r \in Requests, NEW pc, NEW copy, NEW count, Goto(r, pc, copy, count)
  PROVE  /\ req'[r].pc = pc /\ req'[r].op = req[r].op
         /\ req'[r].semester = req[r].semester /\ req'[r].subject = req[r].subject
         /\ req'[r].lesson = req[r].lesson
         /\ req'[r].course = copy /\ req'[r].count = count
         /\ Others(r)
  BY DEF TypeOK, Goto, Others

LEMMA GotoTyped ==
  ASSUME TypeOK, NEW r \in Requests, NEW pc \in Awaits, NEW copy \in Course, NEW count \in Nat,
         Goto(r, pc, copy, count)
  PROVE  req' \in [Requests -> Request]
<1> DEFINE to == [pc |-> pc, op |-> req[r].op, semester |-> req[r].semester,
                  subject |-> req[r].subject, lesson |-> req[r].lesson,
                  course |-> copy, count |-> count]
<1>1. to \in Request
  BY Fields DEF Request
<1>2. req' = [req EXCEPT ![r] = to]
  BY DEF Goto
<1> HIDE DEF to
<1> QED BY <1>1, <1>2 DEF TypeOK

\* ... and End, which leaves a request idle.
LEMMA EndMoves ==
  ASSUME TypeOK, NEW r \in Requests, End(r)
  PROVE  /\ req' \in [Requests -> Request]
         /\ req'[r] = Idle
         /\ Others(r)
  BY IdleTyped DEF TypeOK, End, Others

LEMMA BeginMoves ==
  ASSUME TypeOK, NEW r \in Requests, NEW pc \in Awaits, NEW op \in Ops,
         NEW m \in Semesters, NEW s \in Subjects, NEW l \in Lessons, Begin(r, pc, op, m, s, l)
  PROVE  /\ req' \in [Requests -> Request]
         /\ req'[r].pc = pc /\ req'[r].op = op /\ req'[r].semester = m /\ req'[r].subject = s
         /\ req'[r].course = NoCourse /\ req'[r].count = 0
         /\ Others(r)
<1> DEFINE to == [pc |-> pc, op |-> op, semester |-> m, subject |-> s, lesson |-> l,
                  course |-> NoCourse, count |-> 0]
<1>1. to \in Request
  BY NoCourseTyped DEF Request
<1>2. req' = [req EXCEPT ![r] = to]
  BY DEF Begin
<1>3. /\ to.pc = pc /\ to.op = op /\ to.semester = m /\ to.subject = s
      /\ to.course = NoCourse /\ to.count = 0
  OBVIOUS
<1> HIDE DEF to
<1> QED BY <1>1, <1>2, <1>3 DEF TypeOK, Others

\* A request begins with a copy of nothing.
LEMMA StartBegins ==
  ASSUME TypeOK, NEW r \in Requests, Start(r)
  PROVE  \E pc \in {"course", "semester", "subject", "lesson"}, op \in Ops, m \in Semesters,
            s \in Subjects, l \in Lessons : Begin(r, pc, op, m, s, l)
<1>1. Idle.semester \in Semesters /\ Idle.subject \in Subjects /\ Idle.lesson \in Lessons
  BY IdleTyped DEF Request
<1>2. ASSUME NEW s \in Subjects PROVE subject[s].semester \in Semesters
  BY <1>2 DEF TypeOK, Subject
<1> QED BY <1>1, <1>2 DEF Start, Ops, Made

\* The ways a request in flight goes on.
Goes(r) == \E pc \in Awaits, copy \in Course, count \in Nat : Goto(r, pc, copy, count)

LEMMA AwaitGoes ==
  ASSUME NEW r \in Requests, NEW pc \in Awaits, Await(r, pc)
  PROVE  Goes(r)
  BY NoCourseTyped DEF Await, Goes

LEMMA GoesTyped ==
  ASSUME TypeOK, NEW r \in Requests, Goes(r) \/ End(r)
  PROVE  req' \in [Requests -> Request]
  BY GotoTyped, EndMoves DEF Goes
LEMMA MovedTyped ==
  ASSUME NEW op \in Ops, NEW c \in Course
  PROVE  /\ Moved(op, c) \in Course
         /\ Moved(op, c).count = c.count /\ Moved(op, c).deleted = c.deleted
         /\ Moved(op, c).state = IF op = "publish" THEN "published"
                                 ELSE IF op = "archive" THEN "archived" ELSE "draft"
  BY DEF Moved, Course

LEMMA CountingTyped ==
  ASSUME NEW c \in Course, NEW n \in Nat
  PROVE  /\ Counting(c, n) \in Course
         /\ Counting(c, n).count = n /\ Counting(c, n).deleted = c.deleted
         /\ Counting(c, n).state = c.state
  BY DEF Counting, Course

\* Counting up and down.
LEMMA Counted ==
  ASSUME NEW n \in Nat
  PROVE  /\ n + 1 \in Nat
         /\ Positive(n) => n - 1 \in Nat
  BY DEF Positive

(* The steps of a request that only read: whatever they go on with is      *)
(* typed.                                                                  *)
Reads(r) == ReadCourse(r) \/ CheckContent(r) \/ ReadSemester(r) \/ ReadSubject(r) \/ ReadLesson(r)

LEMMA ReadsTyped ==
  ASSUME TypeOK, NEW r \in Requests, Reads(r)
  PROVE  Goes(r) \/ End(r)
<1>0. /\ course \in Course /\ course.count \in Nat /\ req[r].op \in Ops
      /\ req[r].semester \in Semesters /\ req[r].course \in Course
  BY Fields DEF TypeOK, Course
<1>1. CASE ReadCourse(r)
  <2>1. ASSUME NEW pc \in {"check", "store", "writeCourse"}, NEW copy \in Course,
               Goto(r, pc, copy, 0)
        PROVE  Goes(r)
    BY <2>1 DEF Goes, Awaits
  <2>2. Moved(req[r].op, course) \in Course
    BY <1>0, MovedTyped
  <2>3. Positive(course.count) => Counting(course, course.count - 1) \in Course
    BY <1>0, CountingTyped, Counted
  <2>4. Await(r, "retire") => Goes(r)
    BY AwaitGoes DEF Awaits
  <2> QED BY <1>0, <1>1, <2>1, <2>2, <2>3, <2>4 DEF ReadCourse
<1>2. CASE CheckContent(r)
  <2>1. Moved("publish", req[r].course) \in Course
    BY <1>0, MovedTyped DEF Ops, CourseOps
  <2>2. ASSUME NEW copy \in Course, Goto(r, "writeCourse", copy, 0) PROVE Goes(r)
    BY <2>2 DEF Goes, Awaits
  <2> QED BY <1>2, <2>1, <2>2 DEF CheckContent
<1>3. CASE ReadSemester(r)
  <2>1. semester[req[r].semester].count \in Nat
    BY <1>0 DEF TypeOK, Semester
  <2>2. ASSUME NEW pc \in {"store", "writeSemester"}, NEW n \in Nat, Goto(r, pc, NoCourse, n)
        PROVE  Goes(r)
    BY <2>2, NoCourseTyped DEF Goes, Awaits
  <2>3. Await(r, "retire") => Goes(r)
    BY AwaitGoes DEF Awaits
  <2> QED BY <1>3, <2>1, <2>2, <2>3, Counted DEF ReadSemester
<1>4. CASE ReadSubject(r)
  <2>1. ASSUME NEW pc \in {"retire", "writeSubject", "store"}, Await(r, pc) PROVE Goes(r)
    BY <2>1, AwaitGoes DEF Awaits
  <2> QED BY <1>4, <2>1 DEF ReadSubject
<1>5. CASE ReadLesson(r)
  <2>1. ASSUME NEW pc \in {"retire", "writeLesson"}, Await(r, pc) PROVE Goes(r)
    BY <2>1, AwaitGoes DEF Awaits
  <2> QED BY <1>5, <2>1 DEF ReadLesson
<1> QED BY <1>1, <1>2, <1>3, <1>4, <1>5 DEF Reads

Typed(r) == /\ course' \in Course
            /\ semester' \in [Semesters -> Semester] /\ subject' \in [Subjects -> Subject]
            /\ lesson' \in [Lessons -> Lesson]
            /\ Goes(r) \/ End(r)

LEMMA StoreTyped == ASSUME TypeOK, NEW r \in Requests, Store(r) PROVE Typed(r)
<1>0. /\ req[r].semester \in Semesters /\ req[r].subject \in Subjects
      /\ req[r].course \in Course /\ req[r].course.count \in Nat /\ req[r].count \in Nat
  BY Fields DEF Course
<1>1. course' = course
  BY DEF Store
<1>2. CASE StoreSemester(r)
  <2>1. PICK m \in Semesters :
          semester' = [semester EXCEPT ![m] = [status |-> "live", count |-> 0]]
    BY <1>2 DEF StoreSemester
  <2>2. [status |-> "live", count |-> 0] \in Semester
    BY DEF Semester, Status
  <2>3. Goes(r)
    <3>1. Counting(req[r].course, req[r].course.count + 1) \in Course
      BY <1>0, CountingTyped
    <3> QED BY <1>2, <3>1 DEF StoreSemester, Goes, Awaits
  <2> QED BY <1>1, <1>2, <2>1, <2>2, <2>3 DEF Typed, TypeOK, StoreSemester
<1>3. CASE StoreSubject(r)
  <2>1. PICK s \in Subjects :
          subject' = [subject EXCEPT ![s] = [status |-> "live", semester |-> req[r].semester]]
    BY <1>3 DEF StoreSubject
  <2>2. [status |-> "live", semester |-> req[r].semester] \in Subject
    BY <1>0 DEF Subject, Status
  <2>3. Goes(r)
    BY <1>0, <1>3, NoCourseTyped, Counted DEF StoreSubject, Goes, Awaits
  <2> QED BY <1>1, <1>3, <2>1, <2>2, <2>3 DEF Typed, TypeOK, StoreSubject
<1>4. CASE StoreLesson(r)
  <2>1. PICK l \in Lessons :
          lesson' = [lesson EXCEPT ![l] = [status |-> "live", subject |-> req[r].subject]]
    BY <1>4 DEF StoreLesson
  <2>2. [status |-> "live", subject |-> req[r].subject] \in Lesson
    BY <1>0 DEF Lesson, Status
  <2> QED BY <1>1, <1>4, <2>1, <2>2 DEF Typed, TypeOK, StoreLesson
<1> QED BY <1>2, <1>3, <1>4 DEF Store

LEMMA RetireTyped == ASSUME TypeOK, NEW r \in Requests, Retire(r) PROVE Typed(r)
<1>1. CASE req[r].op = "delete" /\ End(r)
           /\ course' = [state |-> course.state, count |-> course.count, deleted |-> TRUE]
           /\ UNCHANGED <<semester, subject, lesson>>
  <2>1. [state |-> course.state, count |-> course.count, deleted |-> TRUE] \in Course
    BY DEF TypeOK, Course
  <2> QED BY <1>1, <2>1 DEF Typed, TypeOK
<1>2. CASE Await(r, "course") /\ UNCHANGED <<course, subject, lesson>>
           /\ semester' = [semester EXCEPT ![req[r].semester].status = "deleted"]
  BY <1>2, AwaitGoes DEF Typed, TypeOK, Semester, Status, Awaits
<1>3. CASE Await(r, "semester") /\ UNCHANGED <<course, semester, lesson>>
           /\ subject' = [subject EXCEPT ![req[r].subject].status = "deleted"]
  BY <1>3, AwaitGoes DEF Typed, TypeOK, Subject, Status, Awaits
<1>4. CASE End(r) /\ UNCHANGED <<course, semester, subject>>
           /\ lesson' = [lesson EXCEPT ![req[r].lesson].status = "deleted"]
  BY <1>4 DEF Typed, TypeOK, Lesson, Status
<1> QED BY <1>1, <1>2, <1>3, <1>4 DEF Retire

LEMMA WritesTyped ==
  ASSUME TypeOK, NEW r \in Requests,
         WriteCourse(r) \/ WriteSemester(r) \/ WriteSubject(r) \/ WriteLesson(r)
  PROVE  Typed(r)
<1>0. req[r].course \in Course /\ req[r].count \in Nat
  BY Fields
<1>1. CASE WriteCourse(r)
  BY <1>0, <1>1, AwaitGoes DEF WriteCourse, Typed, TypeOK, Awaits
<1>2. CASE WriteSemester(r)
  <2>1. [status |-> "live", count |-> req[r].count] \in Semester
    BY <1>0 DEF Semester, Status
  <2> QED BY <1>2, <2>1 DEF WriteSemester, Typed, TypeOK
<1>3. CASE WriteSubject(r)
  BY <1>3 DEF WriteSubject, Typed, TypeOK, Subject, Status
<1>4. CASE WriteLesson(r)
  BY <1>4 DEF WriteLesson, docs, Typed, TypeOK
<1> QED BY <1>1, <1>2, <1>3, <1>4

LEMMA InitTyped == Init => TypeOK
<1> SUFFICES ASSUME Init PROVE TypeOK
  OBVIOUS
<1>1. subject \in [Subjects -> Subject]
  BY DEF Init, Subject, Status
<1>2. PICK made \in SUBSET Semesters :
        /\ semester = [m \in Semesters |->
                         [status |-> IF m \in made THEN "live" ELSE "none",
                          count |-> Cardinality(LiveIn(m))]]
        /\ course = [state |-> "draft", count |-> Cardinality(made), deleted |-> FALSE]
  BY DEF Init
<1>3. \A m \in Semesters : Cardinality(LiveIn(m)) \in Nat
  BY ContentAssumption, FS_Subset, FS_CardinalityType DEF LiveIn
<1>4. semester \in [Semesters -> Semester]
  BY <1>2, <1>3 DEF Semester, Status
<1>5. Cardinality(made) \in Nat
  BY ContentAssumption, FS_Subset, FS_CardinalityType
<1>6. course \in Course
  BY <1>2, <1>5 DEF Course
<1>7. lesson \in [Lessons -> Lesson]
  BY ContentAssumption DEF Init, Lesson, Status
<1>8. req \in [Requests -> Request] /\ alone \in BOOLEAN
  BY IdleTyped DEF Init
<1>9. begun \in 0 .. MaxRequests /\ aborts \in 0 .. MaxAborts
  BY ContentAssumption DEF Init
<1> QED BY <1>1, <1>4, <1>6, <1>7, <1>8, <1>9 DEF TypeOK

LEMMA StepTyped == TypeOK /\ [Next]_vars => TypeOK'
<1> SUFFICES ASSUME TypeOK, [Next]_vars PROVE TypeOK'
  OBVIOUS
<1> USE DEF docs
<1>1. CASE UNCHANGED vars
  BY <1>1 DEF vars, TypeOK
<1>2. ASSUME NEW r \in Requests, Start(r) PROVE TypeOK'
  <2>1. PICK pc \in {"course", "semester", "subject", "lesson"}, op \in Ops, m \in Semesters,
             s \in Subjects, l \in Lessons : Begin(r, pc, op, m, s, l)
    BY <1>2, StartBegins
  <2>2. req' \in [Requests -> Request]
    BY <2>1, BeginMoves DEF Awaits
  <2>3. alone' \in BOOLEAN
    <3>1. alone' = (alone /\ AllIdle)
      BY <2>1 DEF Begin
    <3> QED BY <3>1, Zenon
  <2>4. begun' \in 0 .. MaxRequests
    BY <2>1, ContentAssumption, SMT DEF Begin, TypeOK
  <2> QED BY <2>1, <2>2, <2>3, <2>4 DEF Begin, TypeOK
<1>3. ASSUME NEW r \in Requests, Reads(r) PROVE TypeOK'
  <2>1. req' \in [Requests -> Request]
    BY <1>3, ReadsTyped, GoesTyped
  <2> QED BY <1>3, <2>1
          DEF Reads, ReadCourse, CheckContent, ReadSemester, ReadSubject, ReadLesson, TypeOK
<1>4. ASSUME NEW r \in Requests, Typed(r), UNCHANGED <<alone, begun, aborts>> PROVE TypeOK'
  BY <1>4, GoesTyped DEF Typed, TypeOK
<1>5. ASSUME NEW r \in Requests, Publish(r) PROVE TypeOK'
  BY <1>5, EndMoves DEF Publish, TypeOK
<1>6. ASSUME NEW r \in Requests, Abort(r) PROVE TypeOK'
  <2>1. req' \in [Requests -> Request]
    BY <1>6, EndMoves DEF Abort
  <2>2. aborts' \in 0 .. MaxAborts
    BY <1>6, ContentAssumption, SMT DEF Abort, TypeOK
  <2> QED BY <1>6, <2>1, <2>2 DEF Abort, TypeOK
<1>7. ASSUME NEW r \in Requests, Store(r) PROVE TypeOK'
  BY <1>4, <1>7, StoreTyped DEF Store
<1>8. ASSUME NEW r \in Requests, Retire(r) PROVE TypeOK'
  BY <1>4, <1>8, RetireTyped DEF Retire
<1>9. ASSUME NEW r \in Requests,
             WriteCourse(r) \/ WriteSemester(r) \/ WriteSubject(r) \/ WriteLesson(r)
      PROVE  TypeOK'
  BY <1>4, <1>9, WritesTyped DEF WriteCourse, WriteSemester, WriteSubject, WriteLesson
<1> QED BY <1>1, <1>2, <1>3, <1>5, <1>6, <1>7, <1>8, <1>9 DEF Next, Reads

(* The documents, the copies and the counters keep their types.            *)
THEOREM TypeCorrect == Spec => []TypeOK
  BY InitTyped, StepTyped, PTL DEF Spec
----------------------------------------------------------------------------
(* What was made stays made, and stays where it was made.                  *)
Grows == /\ Made \subseteq Made'
         /\ \A m \in Semesters : MadeIn(m) \subseteq MadeIn(m)'

\* The steps that leave the documents alone.
Quiet(r) == Start(r) \/ Reads(r) \/ WriteLesson(r) \/ Publish(r) \/ Abort(r)

LEMMA QuietLeaves == ASSUME NEW r \in Requests, Quiet(r) PROVE UNCHANGED docs
  BY DEF Quiet, Start, Begin, Reads, ReadCourse, CheckContent, ReadSemester, ReadSubject,
         ReadLesson, WriteLesson, Publish, Abort

LEMMA OnlyGrows == TypeOK /\ [Next]_vars => Grows
<1> SUFFICES ASSUME TypeOK, [Next]_vars PROVE Grows
  OBVIOUS
<1> USE DEF Made, MadeIn
<1>1. ASSUME UNCHANGED <<semester, subject>> PROVE Grows
  BY <1>1 DEF Grows
<1>2. ASSUME NEW r \in Requests, Store(r) PROVE Grows
  <2>1. CASE StoreSemester(r)
    BY <2>1 DEF StoreSemester, Grows, TypeOK
  <2>2. CASE StoreSubject(r)
    <3>1. PICK s \in Subjects :
            /\ subject[s].status = "none"
            /\ subject' = [subject EXCEPT ![s] = [status |-> "live", semester |-> req[r].semester]]
      BY <2>2 DEF StoreSubject
    <3> QED BY <2>2, <3>1 DEF StoreSubject, Grows, TypeOK
  <2>3. CASE StoreLesson(r)
    BY <1>1, <2>3 DEF StoreLesson
  <2> QED BY <1>2, <2>1, <2>2, <2>3 DEF Store
<1>3. ASSUME NEW r \in Requests, Retire(r) PROVE Grows
  <2>1. CASE semester' = [semester EXCEPT ![req[r].semester].status = "deleted"]
             /\ subject' = subject
    BY <2>1 DEF Grows, TypeOK, Semester
  <2>2. CASE subject' = [subject EXCEPT ![req[r].subject].status = "deleted"]
             /\ semester' = semester
    BY <2>2 DEF Grows, TypeOK, Subject
  <2> QED BY <1>1, <1>3, <2>1, <2>2 DEF Retire
<1>4. ASSUME NEW r \in Requests, WriteSemester(r) PROVE Grows
  BY <1>4 DEF WriteSemester, Grows, TypeOK
<1>5. ASSUME NEW r \in Requests, WriteSubject(r) PROVE Grows
  BY <1>5 DEF WriteSubject, Grows, TypeOK, Subject
<1>6. ASSUME NEW r \in Requests, WriteCourse(r) PROVE Grows
  BY <1>1, <1>6 DEF WriteCourse
<1>7. ASSUME NEW r \in Requests, Quiet(r) PROVE Grows
  BY <1>1, <1>7, QuietLeaves DEF docs
<1> QED BY <1>1, <1>2, <1>3, <1>4, <1>5, <1>6, <1>7 DEF Next, vars, docs, Quiet, Reads

LEMMA CountsSmaller ==
  ASSUME NEW T, IsFiniteSet(T), NEW S \in SUBSET T
  PROVE  /\ Cardinality(S) \in Nat /\ Cardinality(T) \in Nat
         /\ Cardinality(S) <= Cardinality(T)
  BY FS_Subset, FS_CardinalityType

LEMMA CardinalitiesGrow ==
  ASSUME Grows
  PROVE  /\ Cardinality(Made) \in Nat /\ Cardinality(Made') \in Nat
         /\ Cardinality(Made) <= Cardinality(Made')
         /\ \A m \in Semesters : /\ Cardinality(MadeIn(m)) \in Nat
                                 /\ Cardinality(MadeIn(m)') \in Nat
                                 /\ Cardinality(MadeIn(m)) <= Cardinality(MadeIn(m)')
<1>1. IsFiniteSet(Made') /\ Made \subseteq Made'
  <2>1. Made' \subseteq Semesters
    BY DEF Made
  <2> QED BY <2>1, ContentAssumption, FS_Subset DEF Grows
<1>2. ASSUME NEW m \in Semesters
      PROVE  IsFiniteSet(MadeIn(m)') /\ MadeIn(m) \subseteq MadeIn(m)'
  <2>1. MadeIn(m)' \subseteq Subjects
    BY DEF MadeIn
  <2> QED BY <2>1, ContentAssumption, FS_Subset DEF Grows
<1> QED BY <1>1, <1>2, CountsSmaller

(* Copies are as modest as the documents they will replace.                *)
CopyModest(k) ==
  /\ k.course.count <= Cardinality(Made)
  /\ \A m \in Semesters : k.semester = m => k.count <= Cardinality(MadeIn(m))

CountInv ==
  /\ NeverOverCounted
  /\ \A r \in Requests : CopyModest(req[r])

DocsModest == NeverOverCounted'

NewCopyModest(r) ==
  /\ req'[r].course.count <= Cardinality(Made')
  /\ \A m \in Semesters : req'[r].semester = m => req'[r].count <= Cardinality(MadeIn(m)')

LEMMA CountMove ==
  ASSUME TypeOK, CountInv, Grows, NEW r \in Requests, Others(r), DocsModest, NewCopyModest(r)
  PROVE  CountInv'
<1> SUFFICES ASSUME NEW q \in Requests
             PROVE  /\ req'[q].course.count <= Cardinality(Made')
                    /\ \A m \in Semesters :
                         req'[q].semester = m => req'[q].count <= Cardinality(MadeIn(m)')
  BY DEF CountInv, DocsModest, CopyModest
<1>1. CASE q = r
  BY <1>1 DEF NewCopyModest
<1>2. CASE q # r
  <2>1. req'[q] = req[q]
    BY <1>2 DEF Others
  <2>2. req[q].course.count \in Nat /\ req[q].count \in Nat
    BY Fields DEF Course
  <2>3. req[q].course.count <= Cardinality(Made)
    BY DEF CountInv, CopyModest
  <2>4. req'[q].course.count <= Cardinality(Made')
    BY <2>1, <2>2, <2>3, CardinalitiesGrow
  <2>5. ASSUME NEW m \in Semesters, req'[q].semester = m
        PROVE  req'[q].count <= Cardinality(MadeIn(m)')
    <3>1. req[q].count <= Cardinality(MadeIn(m))
      BY <2>1, <2>5 DEF CountInv, CopyModest
    <3> QED BY <2>1, <2>2, <3>1, CardinalitiesGrow
  <2> QED BY <2>4, <2>5
<1> QED BY <1>1, <1>2

\* Documents whose counters do not change stay modest, and empty copies are.
LEMMA SameDocsModest ==
  ASSUME TypeOK, CountInv, Grows, course'.count = course.count,
         \A m \in Semesters : semester'[m].count = semester[m].count
  PROVE  DocsModest
<1>1. course.count \in Nat /\ \A m \in Semesters : semester[m].count \in Nat
  BY DEF TypeOK, Course, Semester
<1>2. /\ course.count <= Cardinality(Made)
      /\ \A m \in Semesters : semester[m].count <= Cardinality(MadeIn(m))
  BY DEF CountInv, NeverOverCounted
<1>3. course'.count <= Cardinality(Made')
  BY <1>1, <1>2, CardinalitiesGrow
<1>4. ASSUME NEW m \in Semesters PROVE semester'[m].count <= Cardinality(MadeIn(m)')
  BY <1>1, <1>2, CardinalitiesGrow
<1> QED BY <1>3, <1>4 DEF DocsModest, NeverOverCounted

LEMMA GotoModest ==
  ASSUME TypeOK, Grows, NEW r \in Requests, NEW pc, NEW copy \in Course, NEW n \in Nat,
         Goto(r, pc, copy, n),
         copy.count <= Cardinality(Made) \/ copy.count <= Cardinality(Made'),
         n <= Cardinality(MadeIn(req[r].semester))
           \/ \A m \in Semesters : req[r].semester = m => n <= Cardinality(MadeIn(m)')
  PROVE  NewCopyModest(r) /\ Others(r)
<1>1. /\ req'[r].course = copy /\ req'[r].count = n /\ req'[r].semester = req[r].semester
      /\ Others(r)
  BY GotoMoves
<1>2. copy.count \in Nat
  BY DEF Course
<1>3. copy.count <= Cardinality(Made')
  BY <1>2, CardinalitiesGrow
<1>4. ASSUME NEW m \in Semesters, req[r].semester = m
      PROVE  n <= Cardinality(MadeIn(m)')
  BY <1>4, CardinalitiesGrow
<1> QED BY <1>1, <1>3, <1>4 DEF NewCopyModest

LEMMA EmptyModest ==
  ASSUME TypeOK, Grows, NEW r \in Requests,
         \/ End(r)
         \/ \E pc \in Awaits : Await(r, pc)
         \/ Start(r)
  PROVE  NewCopyModest(r) /\ Others(r)
<1>0. /\ NoCourse.count = 0 /\ Cardinality(Made') \in Nat
      /\ \A m \in Semesters : Cardinality(MadeIn(m)') \in Nat
  BY NoCourseTyped, CardinalitiesGrow
<1>1. req'[r].course = NoCourse /\ req'[r].count = 0 /\ Others(r)
  <2>1. CASE End(r)
    BY <2>1, EndMoves, IdleTyped
  <2>2. CASE \E pc \in Awaits : Await(r, pc)
    BY <2>2, GotoMoves DEF Await
  <2>3. CASE Start(r)
    <3>1. PICK pc \in {"course", "semester", "subject", "lesson"}, op \in Ops, m \in Semesters,
               s \in Subjects, l \in Lessons : Begin(r, pc, op, m, s, l)
      BY <2>3, StartBegins
    <3> QED BY <3>1, BeginMoves DEF Awaits
  <2> QED BY <2>1, <2>2, <2>3
<1> QED BY <1>0, <1>1, SMT DEF NewCopyModest

\* Reads copy what is stored, or less by one.
LEMMA ReadsModest ==
  ASSUME TypeOK, CountInv, Grows, NEW r \in Requests, Reads(r)
  PROVE  NewCopyModest(r) /\ Others(r)
<1>0. /\ course \in Course /\ course.count \in Nat /\ req[r].op \in Ops
      /\ req[r].semester \in Semesters /\ req[r].course \in Course
      /\ semester[req[r].semester].count \in Nat
  BY Fields DEF TypeOK, Course, Semester
<1>1. /\ course.count <= Cardinality(Made)
      /\ req[r].course.count <= Cardinality(Made)
      /\ semester[req[r].semester].count <= Cardinality(MadeIn(req[r].semester))
  BY <1>0 DEF CountInv, NeverOverCounted, CopyModest
<1>2. /\ Cardinality(Made) \in Nat /\ Cardinality(MadeIn(req[r].semester)) \in Nat
      /\ 0 <= Cardinality(Made) /\ 0 <= Cardinality(MadeIn(req[r].semester))
  BY <1>0, CardinalitiesGrow
<1>3. ASSUME NEW pc, NEW copy \in Course, copy.count <= Cardinality(Made), Goto(r, pc, copy, 0)
      PROVE  NewCopyModest(r) /\ Others(r)
  BY <1>2, <1>3, GotoModest
<1>4. ASSUME NEW pc, NEW n \in Nat, n <= Cardinality(MadeIn(req[r].semester)),
             Goto(r, pc, NoCourse, n)
      PROVE  NewCopyModest(r) /\ Others(r)
  BY <1>2, <1>4, NoCourseTyped, GotoModest
<1>5. ASSUME NEW pc \in Awaits, Await(r, pc)
      PROVE  NewCopyModest(r) /\ Others(r)
  BY <1>5, EmptyModest
<1>6. End(r) => NewCopyModest(r) /\ Others(r)
  BY EmptyModest
<1>7. CASE ReadCourse(r)
  <2>1. /\ Moved(req[r].op, course) \in Course
        /\ Moved(req[r].op, course).count = course.count
    BY <1>0, MovedTyped
  <2>2. Positive(course.count) =>
          /\ Counting(course, course.count - 1) \in Course
          /\ Counting(course, course.count - 1).count <= Cardinality(Made)
    <3> SUFFICES ASSUME Positive(course.count)
                 PROVE  /\ Counting(course, course.count - 1) \in Course
                        /\ Counting(course, course.count - 1).count <= Cardinality(Made)
      OBVIOUS
    <3>1. course.count - 1 \in Nat
      BY <1>0, Counted
    <3>2. /\ Counting(course, course.count - 1) \in Course
          /\ Counting(course, course.count - 1).count = course.count - 1
      BY <1>0, <3>1, CountingTyped
    <3> QED BY <1>0, <1>1, <1>2, <3>2, SMT
  <2>3. Await(r, "retire") => NewCopyModest(r) /\ Others(r)
    BY <1>5 DEF Awaits
  <2> QED BY <1>0, <1>1, <1>3, <1>6, <1>7, <2>1, <2>2, <2>3 DEF ReadCourse
<1>8. CASE CheckContent(r)
  <2>1. /\ Moved("publish", req[r].course) \in Course
        /\ Moved("publish", req[r].course).count = req[r].course.count
    BY <1>0, MovedTyped DEF Ops, CourseOps
  <2> QED BY <1>1, <1>3, <1>6, <1>8, <2>1 DEF CheckContent
<1>9. CASE ReadSemester(r)
  <2> DEFINE n == semester[req[r].semester].count
  <2>1. Positive(n) => n - 1 \in Nat /\ n - 1 <= Cardinality(MadeIn(req[r].semester))
    <3>1. Positive(n) => n - 1 \in Nat
      BY <1>0, Counted
    <3>2. n \in Nat /\ n <= Cardinality(MadeIn(req[r].semester))
      BY <1>0, <1>1
    <3> HIDE DEF n
    <3> QED BY <1>2, <3>1, <3>2
  <2>2. Await(r, "retire") => NewCopyModest(r) /\ Others(r)
    BY <1>5 DEF Awaits
  <2> QED BY <1>0, <1>1, <1>4, <1>6, <1>9, <2>1, <2>2 DEF ReadSemester
<1>10. CASE ReadSubject(r) \/ ReadLesson(r)
  <2>1. \/ End(r) \/ \E pc \in {"retire", "store", "writeSubject", "writeLesson"} : Await(r, pc)
    BY <1>10 DEF ReadSubject, ReadLesson
  <2> QED BY <1>5, <1>6, <2>1 DEF Awaits
<1> QED BY <1>7, <1>8, <1>9, <1>10, <1>3 DEF Reads

\* A child is counted by a copy only after it was made.
LEMMA StoreModest ==
  ASSUME TypeOK, CountInv, Grows, NEW r \in Requests, Store(r)
  PROVE  DocsModest /\ NewCopyModest(r) /\ Others(r)
<1>0. /\ req[r].semester \in Semesters /\ req[r].course \in Course
      /\ req[r].course.count \in Nat /\ req[r].count \in Nat
      /\ req[r].course.count <= Cardinality(Made)
      /\ req[r].count <= Cardinality(MadeIn(req[r].semester))
  <2>1. /\ req[r].semester \in Semesters /\ req[r].course \in Course /\ req[r].count \in Nat
    BY Fields
  <2> QED BY <2>1 DEF CountInv, CopyModest, Course
<1>1. course' = course
  BY DEF Store
<1>2. CASE StoreSemester(r)
  <2>1. PICK m \in Semesters :
          /\ semester[m].status = "none"
          /\ semester' = [semester EXCEPT ![m] = [status |-> "live", count |-> 0]]
    BY <1>2 DEF StoreSemester
  <2>2. Made' = Made \cup {m} /\ m \notin Made
    BY <2>1 DEF Made, TypeOK, Semester
  <2>3. IsFiniteSet(Made)
    BY ContentAssumption, FS_Subset DEF Made
  <2>4. Cardinality(Made') = Cardinality(Made) + 1
    BY <2>2, <2>3, FS_AddElement
  <2>5. NewCopyModest(r) /\ Others(r)
    <3> DEFINE copy == Counting(req[r].course, req[r].course.count + 1)
    <3>0. req[r].course.count + 1 \in Nat
      BY <1>0
    <3>1. /\ copy \in Course /\ copy.count = req[r].course.count + 1
      BY <1>0, <3>0, CountingTyped
    <3>2. copy.count <= Cardinality(Made')
      BY <1>0, <2>4, <3>1, CardinalitiesGrow, SMT
    <3>3. 0 <= Cardinality(MadeIn(req[r].semester))
      BY <1>0, CardinalitiesGrow
    <3>4. Goto(r, "writeCourse", copy, 0)
      BY <1>2 DEF StoreSemester
    <3> HIDE DEF copy
    <3> QED BY <3>1, <3>2, <3>3, <3>4, GotoModest
  <2>6. DocsModest
    <3>1. course.count \in Nat /\ course.count <= Cardinality(Made)
      BY DEF TypeOK, Course, CountInv, NeverOverCounted
    <3>2. course'.count <= Cardinality(Made')
      BY <1>1, <3>1, CardinalitiesGrow
    <3>3. ASSUME NEW k \in Semesters PROVE semester'[k].count <= Cardinality(MadeIn(k)')
      <4>1. CASE k = m
        <5>1. semester'[k].count = 0
          BY <2>1, <4>1 DEF TypeOK
        <5> QED BY <5>1, CardinalitiesGrow
      <4>2. CASE k # m
        <5>1. /\ semester'[k].count = semester[k].count /\ semester[k].count \in Nat
              /\ semester[k].count <= Cardinality(MadeIn(k))
          BY <2>1, <4>2 DEF TypeOK, Semester, CountInv, NeverOverCounted
        <5> QED BY <5>1, CardinalitiesGrow
      <4> QED BY <4>1, <4>2
    <3> QED BY <3>2, <3>3 DEF DocsModest, NeverOverCounted
  <2> QED BY <2>5, <2>6
<1>3. CASE StoreSubject(r)
  <2>0. PICK m \in Semesters : m = req[r].semester
    BY <1>0
  <2>1. PICK s \in Subjects :
          /\ subject[s].status = "none"
          /\ subject' = [subject EXCEPT ![s] = [status |-> "live", semester |-> m]]
    BY <1>3, <2>0 DEF StoreSubject
  <2>2. MadeIn(m)' = MadeIn(m) \cup {s} /\ s \notin MadeIn(m)
    BY <2>1 DEF MadeIn, TypeOK, Subject
  <2>3. IsFiniteSet(MadeIn(m))
    BY ContentAssumption, FS_Subset DEF MadeIn
  <2>4. Cardinality(MadeIn(m)') = Cardinality(MadeIn(m)) + 1
    BY <2>2, <2>3, FS_AddElement
  <2>5. /\ req[r].count + 1 \in Nat
        /\ \A k \in Semesters :
             req[r].semester = k => req[r].count + 1 <= Cardinality(MadeIn(k)')
    BY <1>0, <2>0, <2>4, CardinalitiesGrow
  <2>6. Goto(r, "writeSemester", NoCourse, req[r].count + 1)
    BY <1>3 DEF StoreSubject
  <2>7. NoCourse \in Course /\ NoCourse.count <= Cardinality(Made)
    BY NoCourseTyped, CardinalitiesGrow
  <2>8. NewCopyModest(r) /\ Others(r)
    BY <2>5, <2>6, <2>7, GotoModest
  <2> QED BY <1>1, <1>3, <2>8, SameDocsModest DEF StoreSubject
<1>4. CASE StoreLesson(r)
  BY <1>1, <1>4, SameDocsModest, EmptyModest DEF StoreLesson
<1> QED BY <1>2, <1>3, <1>4 DEF Store

LEMMA RetireModest ==
  ASSUME TypeOK, CountInv, Grows, NEW r \in Requests, Retire(r)
  PROVE  DocsModest /\ NewCopyModest(r) /\ Others(r)
<1>1. End(r) \/ \E pc \in Awaits : Await(r, pc)
  BY DEF Retire, Awaits
<1>2. course'.count = course.count
  BY DEF Retire
<1>3. \A m \in Semesters : semester'[m].count = semester[m].count
  BY DEF Retire, TypeOK, Semester
<1> QED BY <1>1, <1>2, <1>3, SameDocsModest, EmptyModest

LEMMA WritesModest ==
  ASSUME TypeOK, CountInv, Grows, NEW r \in Requests,
         WriteCourse(r) \/ WriteSemester(r) \/ WriteSubject(r)
  PROVE  DocsModest /\ NewCopyModest(r) /\ Others(r)
<1>1. End(r) \/ \E pc \in Awaits : Await(r, pc)
  BY DEF WriteCourse, WriteSemester, WriteSubject, Awaits
<1>2. NewCopyModest(r) /\ Others(r)
  BY <1>1, EmptyModest
<1>3. ASSUME NEW m \in Semesters
      PROVE  /\ semester[m].count \in Nat
             /\ semester[m].count <= Cardinality(MadeIn(m)')
  <2>1. semester[m].count \in Nat /\ semester[m].count <= Cardinality(MadeIn(m))
    BY DEF TypeOK, Semester, CountInv, NeverOverCounted
  <2> QED BY <2>1, CardinalitiesGrow
<1>4. course.count <= Cardinality(Made')
  <2>1. course.count \in Nat /\ course.count <= Cardinality(Made)
    BY DEF TypeOK, Course, CountInv, NeverOverCounted
  <2> QED BY <2>1, CardinalitiesGrow
<1>5. CASE WriteCourse(r)
  <2>1. req[r].course.count \in Nat /\ req[r].course.count <= Cardinality(Made)
    BY Fields DEF Course, CountInv, CopyModest
  <2>2. req[r].course.count <= Cardinality(Made')
    BY <2>1, CardinalitiesGrow
  <2> QED BY <1>2, <1>3, <1>5, <2>2 DEF WriteCourse, DocsModest, NeverOverCounted
<1>6. CASE WriteSemester(r)
  <2>1. /\ req[r].semester \in Semesters /\ req[r].count \in Nat
        /\ req[r].count <= Cardinality(MadeIn(req[r].semester))
    BY Fields DEF CountInv, CopyModest
  <2>2. \A m \in Semesters : m = req[r].semester => req[r].count <= Cardinality(MadeIn(m)')
    BY <2>1, CardinalitiesGrow
  <2>3. ASSUME NEW m \in Semesters PROVE semester'[m].count <= Cardinality(MadeIn(m)')
    <3>1. semester' = [semester EXCEPT ![req[r].semester] =
                         [status |-> "live", count |-> req[r].count]]
      BY <1>6 DEF WriteSemester
    <3>2. CASE m = req[r].semester
      BY <2>2, <3>1, <3>2 DEF TypeOK
    <3>3. CASE m # req[r].semester
      BY <1>3, <3>1, <3>3 DEF TypeOK
    <3> QED BY <3>2, <3>3
  <2> QED BY <1>2, <1>4, <1>6, <2>3 DEF WriteSemester, DocsModest, NeverOverCounted
<1>7. CASE WriteSubject(r)
  BY <1>2, <1>7, SameDocsModest DEF WriteSubject
<1> QED BY <1>5, <1>6, <1>7

LEMMA CountStep == TypeOK /\ CountInv /\ [Next]_vars => CountInv'
<1> SUFFICES ASSUME TypeOK, CountInv, [Next]_vars PROVE CountInv'
  OBVIOUS
<1>1. Grows
  BY OnlyGrows
<1>2. CASE UNCHANGED vars
  <2>1. DocsModest
    BY <1>1, <1>2, SameDocsModest DEF vars, docs
  <2> QED BY <1>2, <2>1
          DEF vars, docs, CountInv, DocsModest, CopyModest, Made, MadeIn
<1>3. ASSUME NEW r \in Requests, Quiet(r) PROVE CountInv'
  <2>1. DocsModest
    BY <1>1, <1>3, QuietLeaves, SameDocsModest DEF docs
  <2>2. NewCopyModest(r) /\ Others(r)
    BY <1>1, <1>3, ReadsModest, EmptyModest DEF Quiet, WriteLesson, Publish, Abort
  <2> QED BY <1>1, <2>1, <2>2, CountMove
<1>4. ASSUME NEW r \in Requests,
             Store(r) \/ Retire(r) \/ WriteCourse(r) \/ WriteSemester(r) \/ WriteSubject(r)
      PROVE  CountInv'
  BY <1>1, <1>4, StoreModest, RetireModest, WritesModest, CountMove
<1> QED BY <1>2, <1>3, <1>4 DEF Next, Quiet, Reads

LEMMA CountInit == Init => CountInv
<1> SUFFICES ASSUME Init PROVE CountInv
  OBVIOUS
<1>1. PICK made \in SUBSET Semesters :
        /\ semester = [m \in Semesters |->
                         [status |-> IF m \in made THEN "live" ELSE "none",
                          count |-> Cardinality(LiveIn(m))]]
        /\ course = [state |-> "draft", count |-> Cardinality(made), deleted |-> FALSE]
  BY DEF Init
<1>2. Made = made
  BY <1>1 DEF Made
<1>3. Cardinality(Made) \in Nat
  BY ContentAssumption, FS_Subset, FS_CardinalityType DEF Made
<1>4. ASSUME NEW m \in Semesters
      PROVE  /\ Cardinality(MadeIn(m)) \in Nat
             /\ semester[m].count <= Cardinality(MadeIn(m))
  <2>1. LiveIn(m) \subseteq MadeIn(m) /\ IsFiniteSet(MadeIn(m))
    BY ContentAssumption, FS_Subset DEF LiveIn, MadeIn
  <2> QED BY <1>1, <2>1, CountsSmaller
<1>5. course.count = Cardinality(Made)
  BY <1>1, <1>2
<1>6. NeverOverCounted
  BY <1>3, <1>4, <1>5 DEF NeverOverCounted
<1>7. ASSUME NEW r \in Requests PROVE CopyModest(req[r])
  <2>1. req[r].course.count = 0 /\ req[r].count = 0
    BY IdleTyped, NoCourseTyped DEF Init
  <2> QED BY <1>3, <1>4, <2>1 DEF CopyModest
<1> QED BY <1>6, <1>7 DEF CountInv

(* However requests overlap and die, no counter exceeds what was created:  *)
(* a child is stored before any copy that counts it                        *)
(* (CreateSemesterUseCase.ts 35-39, CreateSubjectUseCase.ts 36-40).        *)
THEOREM CountersBounded == Spec => []NeverOverCounted
<1>1. CountInv => NeverOverCounted
  BY DEF CountInv
<1> QED BY <1>1, InitTyped, StepTyped, CountInit, CountStep, PTL DEF Spec
----------------------------------------------------------------------------
LEMMA LessonsStep == TypeOK /\ [Next]_vars => [LessonsStand]_vars
<1> SUFFICES ASSUME TypeOK, Next PROVE LessonsStand
  OBVIOUS
<1>1. CASE lesson' = lesson
  BY <1>1 DEF LessonsStand
<1>2. ASSUME NEW r \in Requests, StoreLesson(r) PROVE LessonsStand
  <2>1. PICK l \in Lessons :
          /\ lesson[l].status = "none"
          /\ lesson' = [lesson EXCEPT ![l] = [status |-> "live", subject |-> req[r].subject]]
    BY <1>2 DEF StoreLesson
  <2> QED BY <2>1 DEF LessonsStand, TypeOK
<1>3. ASSUME NEW r \in Requests,
             lesson' = [lesson EXCEPT ![req[r].lesson].status = "deleted"]
      PROVE  LessonsStand
  BY <1>3 DEF LessonsStand, TypeOK, Lesson
<1>4. ASSUME NEW r \in Requests, Quiet(r) PROVE LessonsStand
  BY <1>1, <1>4, QuietLeaves DEF docs
<1>5. ASSUME NEW r \in Requests, Store(r) PROVE LessonsStand
  BY <1>1, <1>2, <1>5 DEF Store, StoreSemester, StoreSubject
<1>6. ASSUME NEW r \in Requests, Retire(r) PROVE LessonsStand
  BY <1>1, <1>3, <1>6 DEF Retire
<1>7. ASSUME NEW r \in Requests, WriteCourse(r) \/ WriteSemester(r) \/ WriteSubject(r)
      PROVE  LessonsStand
  BY <1>1, <1>7 DEF WriteCourse, WriteSemester, WriteSubject
<1> QED BY <1>4, <1>5, <1>6, <1>7 DEF Next, Quiet, Reads

(* A deleted lesson stays deleted and no lesson changes its subject,       *)
(* whatever overlaps and dies: an update of a lesson names the fields it   *)
(* writes (FirestoreLessonRepository.ts 47-55).                            *)
THEOREM LessonsKept == Spec => LessonsStayDeleted
  BY InitTyped, StepTyped, LessonsStep, PTL DEF Spec, LessonsStayDeleted
----------------------------------------------------------------------------
(* While requests do not overlap, what a request read is still so when it  *)
(* writes.                                                                 *)
CopyFresh(k, c, m, s) ==
  /\ k.pc \in {"check", "store"} /\ k.op \in CourseOps =>
       /\ k.course.state = c.state
       /\ c.deleted => k.course.deleted
  /\ k.pc = "check" => k.op \in CourseOps
  /\ k.pc = "writeCourse" =>
       /\ k.course.state # c.state => <<c.state, k.course.state>> \in Moves
       /\ c.deleted => k.course.deleted
  /\ (k.pc = "writeSemester" \/ (k.pc = "store" /\ k.op = "createSubject")) =>
       m.status # "deleted"
  /\ k.pc = "writeSubject" => s.status # "deleted"

OneAtATime == \A q, r \in Requests : req[q].pc # "idle" /\ req[r].pc # "idle" => q = r

FreshInv ==
  alone =>
    /\ OneAtATime
    /\ \A r \in Requests :
         CopyFresh(req[r], course, semester[req[r].semester], subject[req[r].subject])

LEMMA FreshMove ==
  ASSUME TypeOK, FreshInv, alone' = alone, NEW r \in Requests, req[r].pc # "idle", Others(r),
         alone => CopyFresh(req'[r], course', semester'[req'[r].semester],
                            subject'[req'[r].subject])
  PROVE  FreshInv'
<1> SUFFICES ASSUME alone
             PROVE  /\ OneAtATime'
                    /\ \A q \in Requests :
                         CopyFresh(req'[q], course', semester'[req'[q].semester],
                                   subject'[req'[q].subject])
  BY DEF FreshInv
<1>1. \A q \in Requests \ {r} : req'[q].pc = "idle"
  BY DEF FreshInv, OneAtATime, Others
<1>2. \A q \in Requests : CopyFresh(req'[q], course', semester'[req'[q].semester],
                                    subject'[req'[q].subject])
  BY <1>1 DEF CopyFresh
<1>3. OneAtATime'
  BY <1>1 DEF OneAtATime
<1> QED BY <1>2, <1>3

\* A request that waits for a read or a deletion, or is done, holds nothing that could be stale.
LEMMA FreshWithout ==
  ASSUME TypeOK, FreshInv, alone' = alone, NEW r \in Requests, req[r].pc # "idle",
         \/ End(r)
         \/ \E pc \in {"course", "semester", "retire", "writeLesson", "publish"} : Await(r, pc)
  PROVE  FreshInv'
<1>1. Others(r) /\ req'[r].pc \in {"idle", "course", "semester", "retire", "writeLesson", "publish"}
  BY EndMoves, IdleTyped, GotoMoves DEF Await
<1>2. CopyFresh(req'[r], course', semester'[req'[r].semester], subject'[req'[r].subject])
  BY <1>1 DEF CopyFresh
<1> QED BY <1>1, <1>2, FreshMove

LEMMA FreshBegin == ASSUME TypeOK, FreshInv, NEW r \in Requests, Start(r) PROVE FreshInv'
<1>1. PICK pc \in {"course", "semester", "subject", "lesson"}, op \in Ops, m \in Semesters,
           s \in Subjects, l \in Lessons : Begin(r, pc, op, m, s, l)
  BY StartBegins
<1>2. req'[r].pc = pc /\ Others(r)
  BY <1>1, BeginMoves DEF Awaits
<1>3. alone' => AllIdle
  <2>1. alone' = (alone /\ AllIdle)
    BY <1>1 DEF Begin
  <2> QED BY <2>1, Zenon
<1> SUFFICES ASSUME AllIdle
             PROVE  /\ OneAtATime'
                    /\ \A q \in Requests :
                         CopyFresh(req'[q], course', semester'[req'[q].semester],
                                   subject'[req'[q].subject])
  BY <1>3 DEF FreshInv
<1>4. \A q \in Requests \ {r} : req'[q].pc = "idle"
  BY <1>2 DEF AllIdle, Others
<1>5. OneAtATime'
  BY <1>4 DEF OneAtATime
<1>6. \A q \in Requests : CopyFresh(req'[q], course', semester'[req'[q].semester],
                                    subject'[req'[q].subject])
  BY <1>2, <1>4 DEF CopyFresh
<1> QED BY <1>5, <1>6

\* Mutators of the course make only the moves of its state machine.
LEMMA MovesAllowed ==
  ASSUME NEW op \in {"publish", "unpublish", "archive"}, NEW c \in Course, MayMove(op, c)
  PROVE  <<c.state, Moved(op, c).state>> \in Moves /\ Moved(op, c).deleted = c.deleted
<1>1. /\ Moved(op, c).deleted = c.deleted
      /\ Moved(op, c).state = IF op = "publish" THEN "published"
                              ELSE IF op = "archive" THEN "archived" ELSE "draft"
  BY MovedTyped DEF Ops, CourseOps
<1> QED BY <1>1 DEF MayMove, Moves

LEMMA FreshRead == ASSUME TypeOK, FreshInv, NEW r \in Requests, Reads(r) PROVE FreshInv'
<1>0. /\ course \in Course /\ course.count \in Nat /\ req[r].op \in Ops
      /\ req[r].semester \in Semesters /\ req[r].course \in Course /\ req[r].subject \in Subjects
  BY Fields DEF TypeOK, Course
<1>1. UNCHANGED <<course, semester, subject, alone>> /\ req[r].pc # "idle"
  BY DEF Reads, ReadCourse, CheckContent, ReadSemester, ReadSubject, ReadLesson, docs
<1>2. ASSUME End(r) \/ \E pc \in {"course", "semester", "retire", "writeLesson"} : Await(r, pc)
      PROVE  FreshInv'
  BY <1>1, <1>2, FreshWithout
<1>3. CASE ReadCourse(r)
  <2>1. ASSUME NEW pc \in {"check", "store"}, req[r].op \in {"publish", "createSemester"},
               Goto(r, pc, course, 0)
        PROVE  FreshInv'
    <3>1. /\ req'[r].pc = pc /\ req'[r].op = req[r].op /\ req'[r].course = course /\ Others(r)
      BY <2>1, GotoMoves
    <3>2. CopyFresh(req'[r], course', semester'[req'[r].semester], subject'[req'[r].subject])
      BY <1>1, <2>1, <3>1 DEF CopyFresh, CourseOps
    <3> QED BY <1>1, <3>1, <3>2, FreshMove
  <2>2. ASSUME NEW copy, copy.deleted = course.deleted,
               copy.state = course.state \/ <<course.state, copy.state>> \in Moves,
               Goto(r, "writeCourse", copy, 0)
        PROVE  FreshInv'
    <3>1. /\ req'[r].pc = "writeCourse" /\ req'[r].course = copy /\ Others(r)
      BY <2>2, GotoMoves
    <3>2. CopyFresh(req'[r], course', semester'[req'[r].semester], subject'[req'[r].subject])
      BY <1>1, <2>2, <3>1 DEF CopyFresh
    <3> QED BY <1>1, <3>1, <3>2, FreshMove
  <2>3. ASSUME req[r].op \in {"unpublish", "archive"}, MayMove(req[r].op, course),
               Goto(r, "writeCourse", Moved(req[r].op, course), 0)
        PROVE  FreshInv'
    BY <1>0, <2>2, <2>3, MovesAllowed
  <2>4. ASSUME Positive(course.count),
               Goto(r, "writeCourse", Counting(course, course.count - 1), 0)
        PROVE  FreshInv'
    BY <1>0, <2>2, <2>4, Counted, CountingTyped
  <2>5. Goto(r, "writeCourse", course, 0) => FreshInv'
    BY <2>2
  <2> QED BY <1>2, <1>3, <2>1, <2>3, <2>4, <2>5 DEF ReadCourse
<1>4. CASE CheckContent(r)
  <2>1. CASE End(r)
    BY <1>2, <2>1
  <2>2. CASE MayMove("publish", req[r].course)
             /\ Goto(r, "writeCourse", Moved("publish", req[r].course), 0)
    <3> DEFINE copy == Moved("publish", req[r].course)
    <3>1. <<req[r].course.state, copy.state>> \in Moves /\ copy.deleted = req[r].course.deleted
      BY <1>0, <2>2, MovesAllowed
    <3> HIDE DEF copy
    <3>2. /\ req'[r].pc = "writeCourse" /\ req'[r].course = copy /\ Others(r)
      BY <2>2, GotoMoves DEF copy
    <3>3. alone => /\ req[r].course.state = course.state
                   /\ course.deleted => req[r].course.deleted
      BY <1>4 DEF FreshInv, CopyFresh, CheckContent
    <3>4. alone => CopyFresh(req'[r], course', semester'[req'[r].semester],
                             subject'[req'[r].subject])
      BY <1>1, <3>1, <3>2, <3>3 DEF CopyFresh
    <3> QED BY <1>1, <3>2, <3>4, FreshMove
  <2> QED BY <1>4, <2>1, <2>2 DEF CheckContent
<1>5. CASE ReadSemester(r)
  <2>1. ASSUME NEW pc \in {"store", "writeSemester"}, NEW n, req[r].op \notin CourseOps,
               semester[req[r].semester].status = "live", Goto(r, pc, NoCourse, n)
        PROVE  FreshInv'
    <3>1. /\ req'[r].pc = pc /\ req'[r].op = req[r].op
          /\ req'[r].semester = req[r].semester /\ Others(r)
      BY <2>1, GotoMoves
    <3>2. CopyFresh(req'[r], course', semester'[req'[r].semester], subject'[req'[r].subject])
      BY <1>1, <2>1, <3>1 DEF CopyFresh
    <3> QED BY <1>1, <3>1, <3>2, FreshMove
  <2> QED BY <1>2, <1>5, <2>1 DEF ReadSemester, CourseOps
<1>6. CASE ReadSubject(r)
  <2>1. ASSUME NEW pc \in {"writeSubject", "store"}, req[r].op \in {"updateSubject", "createLesson"},
               subject[req[r].subject].status = "live", Await(r, pc)
        PROVE  FreshInv'
    <3>1. /\ req'[r].pc = pc /\ req'[r].op = req[r].op
          /\ req'[r].subject = req[r].subject /\ Others(r)
      BY <2>1, GotoMoves DEF Await
    <3>2. CopyFresh(req'[r], course', semester'[req'[r].semester], subject'[req'[r].subject])
      BY <1>1, <2>1, <3>1 DEF CopyFresh, CourseOps
    <3> QED BY <1>1, <3>1, <3>2, FreshMove
  <2> QED BY <1>2, <1>6, <2>1 DEF ReadSubject
<1>7. CASE ReadLesson(r)
  BY <1>2, <1>7 DEF ReadLesson
<1> QED BY <1>3, <1>4, <1>5, <1>6, <1>7 DEF Reads

LEMMA FreshStore == ASSUME TypeOK, FreshInv, NEW r \in Requests, Store(r) PROVE FreshInv'
<1>0. /\ req[r].semester \in Semesters /\ req[r].subject \in Subjects
      /\ req[r].course \in Course /\ req[r].course.count \in Nat
      /\ req[r].course.count + 1 \in Nat
  <2>1. req[r].course.count \in Nat
    BY Fields DEF Course
  <2> QED BY <2>1, Fields
<1>1. course' = course /\ alone' = alone /\ req[r].pc = "store"
  BY DEF Store
<1>2. CASE StoreSemester(r)
  <2> DEFINE copy == Counting(req[r].course, req[r].course.count + 1)
  <2>1. copy.state = req[r].course.state /\ copy.deleted = req[r].course.deleted
    BY <1>0, CountingTyped
  <2> HIDE DEF copy
  <2>2. /\ req'[r].pc = "writeCourse" /\ req'[r].course = copy /\ Others(r)
    BY <1>2, GotoMoves DEF StoreSemester, copy
  <2>3. alone => /\ req[r].course.state = course.state
                 /\ course.deleted => req[r].course.deleted
    BY <1>1, <1>2 DEF FreshInv, CopyFresh, StoreSemester, CourseOps
  <2>4. alone => CopyFresh(req'[r], course', semester'[req'[r].semester],
                           subject'[req'[r].subject])
    BY <1>1, <2>1, <2>2, <2>3 DEF CopyFresh
  <2> QED BY <1>1, <2>2, <2>4, FreshMove
<1>3. CASE StoreSubject(r)
  <2>1. /\ req'[r].pc = "writeSemester" /\ req'[r].semester = req[r].semester /\ Others(r)
        /\ semester' = semester
    BY <1>3, GotoMoves DEF StoreSubject
  <2>2. alone => semester[req[r].semester].status # "deleted"
    BY <1>1, <1>3 DEF FreshInv, CopyFresh, StoreSubject
  <2>3. alone => CopyFresh(req'[r], course', semester'[req'[r].semester],
                           subject'[req'[r].subject])
    BY <2>1, <2>2 DEF CopyFresh
  <2> QED BY <1>1, <2>1, <2>3, FreshMove
<1>4. CASE StoreLesson(r)
  BY <1>1, <1>4, FreshWithout DEF StoreLesson
<1> QED BY <1>2, <1>3, <1>4 DEF Store

LEMMA FreshStep == TypeOK /\ FreshInv /\ [Next]_vars => FreshInv'
<1> SUFFICES ASSUME TypeOK, FreshInv, [Next]_vars PROVE FreshInv'
  OBVIOUS
<1>1. CASE UNCHANGED vars
  BY <1>1 DEF vars, docs, FreshInv, OneAtATime, CopyFresh
<1>2. ASSUME NEW r \in Requests,
             \/ Retire(r) \/ WriteCourse(r) \/ WriteSemester(r) \/ WriteSubject(r)
             \/ WriteLesson(r) \/ Publish(r) \/ Abort(r)
      PROVE  FreshInv'
  <2>1. /\ req[r].pc # "idle" /\ alone' = alone
        /\ \/ End(r)
           \/ \E pc \in {"course", "semester", "publish"} : Await(r, pc)
    BY <1>2 DEF Retire, WriteCourse, WriteSemester, WriteSubject, WriteLesson, Publish, Abort
  <2> QED BY <2>1, FreshWithout
<1> QED BY <1>1, <1>2, FreshBegin, FreshRead, FreshStore DEF Next, Reads

LEMMA StandsStep == TypeOK /\ FreshInv /\ [Next]_vars => [StandsStill]_vars
<1> SUFFICES ASSUME TypeOK, FreshInv, Next, alone PROVE StandsStill
  BY DEF StandsStill
<1> DEFINE CourseStands == /\ course'.state # course.state =>
                                <<course.state, course'.state>> \in Moves
                           /\ course.deleted => course'.deleted
           SemestersStand == \A m \in Semesters : semester[m].status = "deleted" =>
                                                  semester'[m].status = "deleted"
           SubjectsStand == \A s \in Subjects : subject[s].status = "deleted" =>
                                                subject'[s].status = "deleted"
<1>0. \A r \in Requests :
        CopyFresh(req[r], course, semester[req[r].semester], subject[req[r].subject])
  BY DEF FreshInv
<1>1. ASSUME NEW r \in Requests, Store(r)
      PROVE  CourseStands /\ SemestersStand /\ SubjectsStand
  <2>1. SemestersStand
    BY <1>1 DEF Store, StoreSemester, StoreSubject, StoreLesson, TypeOK
  <2>2. SubjectsStand
    <3>1. CASE subject' = subject
      BY <3>1
    <3>2. CASE StoreSubject(r)
      <4>1. PICK s \in Subjects :
              /\ subject[s].status = "none"
              /\ subject' = [subject EXCEPT ![s] = [status |-> "live",
                                                    semester |-> req[r].semester]]
        BY <3>2 DEF StoreSubject
      <4> QED BY <4>1 DEF TypeOK
    <3> QED BY <1>1, <3>1, <3>2 DEF Store, StoreSemester, StoreLesson
  <2> QED BY <1>1, <2>1, <2>2 DEF Store
<1>2. ASSUME NEW r \in Requests, Retire(r)
      PROVE  CourseStands /\ SemestersStand /\ SubjectsStand
  <2>1. CourseStands
    BY <1>2 DEF Retire
  <2>2. SemestersStand
    BY <1>2 DEF Retire, TypeOK, Semester
  <2>3. SubjectsStand
    BY <1>2 DEF Retire, TypeOK, Subject
  <2> QED BY <2>1, <2>2, <2>3
<1>3. ASSUME NEW r \in Requests, WriteCourse(r)
      PROVE  CourseStands /\ SemestersStand /\ SubjectsStand
  BY <1>0, <1>3 DEF WriteCourse, CopyFresh
<1>4. ASSUME NEW r \in Requests, WriteSemester(r)
      PROVE  CourseStands /\ SemestersStand /\ SubjectsStand
  <2>1. semester[req[r].semester].status # "deleted"
    BY <1>0, <1>4 DEF WriteSemester, CopyFresh
  <2> QED BY <1>4, <2>1 DEF WriteSemester, TypeOK
<1>5. ASSUME NEW r \in Requests, WriteSubject(r)
      PROVE  CourseStands /\ SemestersStand /\ SubjectsStand
  <2>1. subject[req[r].subject].status # "deleted"
    BY <1>0, <1>5 DEF WriteSubject, CopyFresh
  <2> QED BY <1>5, <2>1 DEF WriteSubject, TypeOK, Subject
<1>6. ASSUME NEW r \in Requests, Quiet(r)
      PROVE  CourseStands /\ SemestersStand /\ SubjectsStand
  BY <1>6, QuietLeaves DEF docs
<1>7. CourseStands /\ SemestersStand /\ SubjectsStand
  BY <1>1, <1>2, <1>3, <1>4, <1>5, <1>6 DEF Next, Quiet, Reads
<1> QED BY <1>7 DEF StandsStill

(* As long as requests do not overlap, whatever dies, the course moves as  *)
(* its state machine allows and nothing deleted comes back (Course.ts      *)
(* 46-70, softDelete of the repositories).                                 *)
THEOREM StandsWhileAlone == Spec => ContentStands
<1>1. Init => FreshInv
  BY IdleTyped DEF Init, FreshInv, OneAtATime, CopyFresh
<1> QED BY <1>1, InitTyped, StepTyped, FreshStep, StandsStep, PTL DEF Spec, ContentStands
----------------------------------------------------------------------------
(* While requests do not overlap and none dies, a semester counts its      *)
(* living subjects, but for the one that the request at work has yet to    *)
(* count; what it is about to write is exact.                              *)
Size(m) == Cardinality(LiveIn(m))

Full == Live # {} /\ \A m \in Live : LiveIn(m) # {}

Owing(k, m) ==
  /\ k.semester = m
  /\ \/ k.op = "deleteSubject" /\ k.pc \in {"semester", "writeSemester"}
     \/ k.op = "createSubject" /\ k.pc = "writeSemester"

SemesterExact(k, m) ==
  /\ k.pc = "semester" /\ k.op = "deleteSubject" /\ semester[m].status = "live" =>
       semester[m].count = Size(m) + 1
  /\ k.pc = "writeSemester" \/ (k.pc = "store" /\ k.op = "createSubject") =>
       semester[m].status = "live" /\ k.count = Size(m)

SubjectExact(k) ==
  /\ k.pc = "subject" => subject[k.subject].semester = k.semester
  /\ k.pc = "retire" /\ k.op = "deleteSubject" =>
       subject[k.subject].status = "live" /\ subject[k.subject].semester = k.semester
  /\ k.pc = "writeSubject" => subject[k.subject].status = "live"

CourseExact(k) ==
  k.pc = "writeCourse" /\ k.course.state = "published" => course.state = "published" \/ Full

RequestExact(k) ==
  /\ \A m \in Semesters : k.semester = m => SemesterExact(k, m)
  /\ SubjectExact(k)
  /\ CourseExact(k)

Placed ==
  \A s \in Subjects : subject[s].status # "none" => semester[subject[s].semester].status # "none"

Exact ==
  /\ Placed
  /\ \A m \in Semesters : semester[m].status = "live" =>
       semester[m].count = Size(m) \/ \E r \in Requests : Owing(req[r], m)
  /\ \A r \in Requests : RequestExact(req[r])

ExactInv == alone /\ aborts = 0 => Exact

(* The size of a semester is a number, and so is its counter.              *)
LEMMA Sizes ==
  ASSUME TypeOK, NEW m \in Semesters
  PROVE  IsFiniteSet(LiveIn(m)) /\ Size(m) \in Nat /\ semester[m].count \in Nat
<1>1. LiveIn(m) \subseteq Subjects
  BY DEF LiveIn
<1>2. IsFiniteSet(LiveIn(m)) /\ Cardinality(LiveIn(m)) \in Nat
  BY <1>1, ContentAssumption, FS_Subset, FS_CardinalityType
<1> QED BY <1>2 DEF Size, TypeOK, Semester

(* A semester at which the request at work owes nothing counts exactly.    *)
LEMMA OthersExact ==
  ASSUME TypeOK, FreshInv, ExactInv, alone, aborts = 0, NEW r \in Requests, req[r].pc # "idle",
         NEW m \in Semesters, semester[m].status = "live", ~ Owing(req[r], m)
  PROVE  semester[m].count = Size(m)
  BY DEF ExactInv, Exact, FreshInv, OneAtATime, Owing

(* A request that owes nothing finds every semester exact.                 *)
Free(k) == k.pc \notin {"semester", "writeSemester"}

LEMMA FreeExact ==
  ASSUME TypeOK, FreshInv, ExactInv, alone, aborts = 0, NEW r \in Requests, req[r].pc # "idle",
         Free(req[r])
  PROVE  \A m \in Semesters : semester[m].status = "live" => semester[m].count = Size(m)
  BY OthersExact DEF Free, Owing

(* What is left to show of the step of a request that works alone.         *)
LEMMA ExactMove ==
  ASSUME TypeOK, FreshInv, alone, NEW r \in Requests, req[r].pc # "idle", Others(r),
         Placed', RequestExact(req[r])',
         \A m \in Semesters : semester'[m].status = "live" =>
           semester'[m].count = Size(m)' \/ Owing(req'[r], m)
  PROVE  Exact'
<1>1. ASSUME NEW q \in Requests PROVE RequestExact(req[q])'
  <2>1. CASE q = r
    BY <2>1
  <2>2. CASE q # r
    <3>1. req'[q].pc = "idle"
      BY <2>2 DEF Others, FreshInv, OneAtATime
    <3> QED BY <3>1 DEF RequestExact, SemesterExact, SubjectExact, CourseExact
  <2> QED BY <2>1, <2>2
<1> QED BY <1>1 DEF Exact

(* The same of a step that leaves semesters and subjects alone.            *)
LEMMA ExactQuiet ==
  ASSUME TypeOK, FreshInv, ExactInv, alone, aborts = 0, NEW r \in Requests, req[r].pc # "idle",
         Free(req[r]), Others(r), semester' = semester, subject' = subject,
         RequestExact(req[r])'
  PROVE  Exact'
<1>1. Placed'
  BY DEF ExactInv, Exact, Placed
<1>2. \A m \in Semesters : semester'[m].status = "live" => semester'[m].count = Size(m)'
  BY FreeExact DEF Size, LiveIn
<1> QED BY <1>1, <1>2, ExactMove

(* An await that holds no copies is exact, unless it retires a subject, is *)
(* to count one down, or stores one.                                       *)
LEMMA AwaitExact ==
  ASSUME TypeOK, NEW r \in Requests,
         \/ End(r)
         \/ \E pc \in {"course", "writeLesson", "publish"} : Await(r, pc)
         \/ Await(r, "retire") /\ req[r].op # "deleteSubject"
         \/ Await(r, "store") /\ req[r].op # "createSubject"
  PROVE  RequestExact(req[r])' /\ Others(r)
<1>1. /\ Others(r)
      /\ \/ req'[r].pc \in {"idle", "course", "writeLesson", "publish"}
         \/ req'[r].pc = "retire" /\ req'[r].op # "deleteSubject"
         \/ req'[r].pc = "store" /\ req'[r].op # "createSubject"
  BY EndMoves, GotoMoves, IdleTyped DEF Await
<1> QED BY <1>1 DEF RequestExact, SemesterExact, SubjectExact, CourseExact

(* A request that begins with nobody else at work.                         *)
LEMMA ExactBegin ==
  ASSUME TypeOK, ExactInv, NEW r \in Requests, Start(r)
  PROVE  ExactInv'
<1>1. UNCHANGED docs /\ alone' = (alone /\ AllIdle) /\ aborts' = aborts
  BY DEF Start, Begin
<1> SUFFICES ASSUME alone, AllIdle, aborts = 0 PROVE Exact'
  BY <1>1 DEF ExactInv
<1>2. /\ Others(r)
      /\ req'[r].pc \in {"course", "semester", "subject", "lesson"}
      /\ req'[r].pc = "semester" => req'[r].op # "deleteSubject"
      /\ req'[r].pc = "subject" => subject[req'[r].subject].semester = req'[r].semester
  <2>1. ASSUME NEW pc \in Awaits, NEW op \in Ops, NEW m \in Semesters, NEW s \in Subjects,
               NEW l \in Lessons, Begin(r, pc, op, m, s, l),
               pc \in {"course", "semester", "subject", "lesson"},
               pc = "semester" => op # "deleteSubject",
               pc = "subject" => subject[s].semester = m
        PROVE  /\ Others(r)
               /\ req'[r].pc \in {"course", "semester", "subject", "lesson"}
               /\ req'[r].pc = "semester" => req'[r].op # "deleteSubject"
               /\ req'[r].pc = "subject" => subject[req'[r].subject].semester = req'[r].semester
    <3>1. /\ req'[r].pc = pc /\ req'[r].op = op /\ req'[r].semester = m /\ req'[r].subject = s
          /\ Others(r)
      BY <2>1, BeginMoves
    <3> QED BY <2>1, <3>1
  <2>2. Idle.semester \in Semesters /\ Idle.subject \in Subjects /\ Idle.lesson \in Lessons
    BY IdleTyped DEF Request
  <2>3. \A s \in Subjects : subject[s].semester \in Semesters
    BY DEF TypeOK, Subject
  <2>4. PICK pc \in Awaits, op \in Ops, m \in Semesters, s \in Subjects, l \in Lessons :
          /\ Begin(r, pc, op, m, s, l)
          /\ pc \in {"course", "semester", "subject", "lesson"}
          /\ pc = "semester" => op # "deleteSubject"
          /\ pc = "subject" => subject[s].semester = m
    BY <2>2, <2>3 DEF Start, Made, Awaits, Ops, SemesterOps
  <2> QED BY <2>1, <2>4
<1>3. RequestExact(req[r])'
  BY <1>1, <1>2 DEF docs, RequestExact, SemesterExact, SubjectExact, CourseExact
<1>4. \A q \in Requests : RequestExact(req[q])'
  <2> SUFFICES ASSUME NEW q \in Requests, q # r PROVE RequestExact(req[q])'
    BY <1>3
  <2>1. req'[q].pc = "idle"
    BY <1>2 DEF Others, AllIdle
  <2> QED BY <2>1 DEF RequestExact, SemesterExact, SubjectExact, CourseExact
<1>5. \A m \in Semesters : semester'[m].status = "live" => semester'[m].count = Size(m)'
  <2>1. \A m \in Semesters : semester[m].status = "live" => semester[m].count = Size(m)
    BY DEF ExactInv, Exact, AllIdle, Owing
  <2> QED BY <1>1, <2>1 DEF docs, Size, LiveIn
<1>6. Placed'
  BY <1>1 DEF docs, ExactInv, Exact, Placed
<1> QED BY <1>4, <1>5, <1>6 DEF Exact

(* A request that goes on to write the course is exact when the copy is not*)
(* more published than the course, or the content is there.                *)
LEMMA CopyExact ==
  ASSUME TypeOK, NEW r \in Requests, NEW copy, Goto(r, "writeCourse", copy, 0),
         course' = course, semester' = semester, subject' = subject,
         copy.state = "published" => course.state = "published" \/ Full
  PROVE  RequestExact(req[r])' /\ Others(r)
<1>1. req'[r].pc = "writeCourse" /\ req'[r].course = copy /\ Others(r)
  BY GotoMoves
<1>2. Full' = Full
  BY DEF Full, Live, LiveIn
<1> QED BY <1>1, <1>2 DEF RequestExact, SemesterExact, SubjectExact, CourseExact

(* Reading the course, the content of a draft and a lesson.                *)
LEMMA ExactReadCourse ==
  ASSUME TypeOK, FreshInv, ExactInv, alone, aborts = 0, NEW r \in Requests,
         ReadCourse(r) \/ CheckContent(r) \/ ReadLesson(r)
  PROVE  Exact'
<1>0. /\ semester' = semester /\ subject' = subject /\ course' = course
      /\ req[r].pc \in {"course", "check", "lesson"}
      /\ course \in Course /\ course.count \in Nat /\ req[r].op \in Ops /\ req[r].course \in Course
  BY Fields DEF ReadCourse, CheckContent, ReadLesson, docs, TypeOK, Course
<1>1. SUFFICES RequestExact(req[r])' /\ Others(r)
  BY <1>0, ExactQuiet DEF Free
<1>2. CASE ReadCourse(r)
  <2>1. ASSUME NEW pc \in {"check", "store"}, req[r].op \in {"publish", "createSemester"},
               Goto(r, pc, course, 0)
        PROVE  RequestExact(req[r])' /\ Others(r)
    <3>1. req'[r].pc = pc /\ req'[r].op = req[r].op /\ Others(r)
      BY <2>1, GotoMoves
    <3> QED BY <2>1, <3>1 DEF RequestExact, SemesterExact, SubjectExact, CourseExact
  <2>2. Goto(r, "writeCourse", course, 0) => RequestExact(req[r])' /\ Others(r)
    BY <1>0, CopyExact
  <2>3. ASSUME req[r].op \in {"unpublish", "archive"},
               Goto(r, "writeCourse", Moved(req[r].op, course), 0)
        PROVE  RequestExact(req[r])' /\ Others(r)
    <3>1. Moved(req[r].op, course).state # "published"
      BY <1>0, <2>3, MovedTyped
    <3> QED BY <1>0, <2>3, <3>1, CopyExact
  <2>4. ASSUME Positive(course.count),
               Goto(r, "writeCourse", Counting(course, course.count - 1), 0)
        PROVE  RequestExact(req[r])' /\ Others(r)
    <3>1. Counting(course, course.count - 1).state = course.state
      BY <1>0, <2>4, Counted, CountingTyped
    <3> QED BY <1>0, <2>4, <3>1, CopyExact
  <2>5. End(r) \/ (Await(r, "retire") /\ req[r].op = "delete") => RequestExact(req[r])' /\ Others(r)
    BY AwaitExact
  <2> QED BY <1>2, <2>1, <2>2, <2>3, <2>4, <2>5 DEF ReadCourse
<1>3. CASE CheckContent(r)
  <2>1. HasContent => Full
    <3>1. \A m \in Semesters : semester[m].status = "live" => semester[m].count = Size(m)
      BY <1>0, FreeExact DEF Free
    <3>2. \A m \in Semesters : LiveIn(m) = {} => Size(m) = 0
      BY FS_EmptySet DEF Size
    <3> QED BY <3>1, <3>2 DEF HasContent, Full, Live
  <2> QED BY <1>0, <1>3, <2>1, CopyExact, AwaitExact DEF CheckContent
<1>4. CASE ReadLesson(r)
  <2>1. /\ \/ End(r) \/ Await(r, "writeLesson")
           \/ Await(r, "retire") /\ req[r].op = "deleteLesson"
    BY <1>4 DEF ReadLesson
  <2> QED BY <2>1, AwaitExact
<1> QED BY <1>0, <1>2, <1>3, <1>4

(* Reading a semester, and counting a subject of it down or up.            *)
LEMMA ExactReadSemester ==
  ASSUME TypeOK, FreshInv, ExactInv, alone, aborts = 0, NEW r \in Requests, ReadSemester(r)
  PROVE  Exact'
<1>0. /\ semester' = semester /\ subject' = subject /\ req[r].pc = "semester"
      /\ req[r].semester \in Semesters
  BY Fields DEF ReadSemester, docs
<1>1. PICK m \in Semesters : m = req[r].semester
  BY <1>0
<1>2. Placed'
  BY <1>0 DEF ExactInv, Exact, Placed
<1>3. \A k \in Semesters : semester[k].status = "live" =>
        semester[k].count = Size(k) \/ (k = m /\ req[r].op = "deleteSubject")
  BY <1>0, <1>1, OthersExact DEF Owing
<1>4. \A k \in Semesters : Size(k)' = Size(k)
  BY <1>0 DEF Size, LiveIn
<1>5. SemesterExact(req[r], m)
  BY <1>1 DEF ExactInv, Exact, RequestExact
<1>6. CASE semester[m].status # "live" \/ req[r].op # "deleteSubject"
  <2>1. \A k \in Semesters : semester'[k].status = "live" => semester'[k].count = Size(k)'
    BY <1>0, <1>3, <1>4, <1>6
  <2>2. RequestExact(req[r])' /\ Others(r)
    <3>1. CASE End(r) \/ (Await(r, "retire") /\ req[r].op = "deleteSemester")
      BY <3>1, AwaitExact
    <3>2. ASSUME NEW pc \in {"writeSemester", "store"}, semester[m].status = "live",
                 Goto(r, pc, NoCourse, semester[m].count)
          PROVE  RequestExact(req[r])' /\ Others(r)
      <4>1. /\ req'[r].pc = pc /\ req'[r].semester = m /\ req'[r].count = semester[m].count
            /\ Others(r)
        BY <1>1, <3>2, GotoMoves
      <4>2. semester'[m].status = "live" /\ req'[r].count = Size(m)'
        BY <1>0, <1>3, <1>4, <1>6, <3>2, <4>1
      <4> QED BY <4>1, <4>2 DEF RequestExact, SemesterExact, SubjectExact, CourseExact
    <3> QED BY <1>0, <1>1, <1>6, <3>1, <3>2 DEF ReadSemester
  <2> QED BY <1>0, <1>2, <2>1, <2>2, ExactMove
<1>7. CASE semester[m].status = "live" /\ req[r].op = "deleteSubject"
  <2>1. semester[m].count = Size(m) + 1 /\ Size(m) \in Nat
    BY <1>0, <1>5, <1>7, Sizes DEF SemesterExact
  <2>2. Positive(semester[m].count)
    BY <2>1, SMT DEF Positive
  <2>3. Goto(r, "writeSemester", NoCourse, semester[m].count - 1)
    BY <1>1, <1>7, <2>2 DEF ReadSemester
  <2>4. /\ req'[r].pc = "writeSemester" /\ req'[r].semester = m /\ req'[r].op = "deleteSubject"
        /\ req'[r].count = semester[m].count - 1 /\ Others(r)
    BY <1>1, <1>7, <2>3, GotoMoves
  <2>5. req'[r].count = Size(m)'
    BY <1>4, <2>1, <2>4, SMT
  <2>6. RequestExact(req[r])'
    BY <1>0, <1>7, <2>4, <2>5 DEF RequestExact, SemesterExact, SubjectExact, CourseExact
  <2>7. Owing(req'[r], m)
    BY <2>4 DEF Owing
  <2>8. \A k \in Semesters : semester'[k].status = "live" =>
          semester'[k].count = Size(k)' \/ Owing(req'[r], k)
    BY <1>0, <1>3, <1>4, <2>7
  <2> QED BY <1>0, <1>2, <2>4, <2>6, <2>8, ExactMove
<1> QED BY <1>6, <1>7

(* Reading a subject.                                                      *)
LEMMA ExactReadSubject ==
  ASSUME TypeOK, FreshInv, ExactInv, alone, aborts = 0, NEW r \in Requests, ReadSubject(r)
  PROVE  Exact'
<1>0. semester' = semester /\ subject' = subject /\ req[r].pc = "subject"
  BY DEF ReadSubject, docs
<1>1. subject[req[r].subject].semester = req[r].semester
  BY <1>0 DEF ExactInv, Exact, RequestExact, SubjectExact
<1>2. ASSUME NEW pc \in {"retire", "writeSubject"}, subject[req[r].subject].status = "live",
             Await(r, pc)
      PROVE  RequestExact(req[r])' /\ Others(r)
  <2>1. /\ req'[r].pc = pc /\ req'[r].subject = req[r].subject
        /\ req'[r].semester = req[r].semester /\ Others(r)
    BY <1>2, GotoMoves DEF Await
  <2> QED BY <1>0, <1>1, <1>2, <2>1 DEF RequestExact, SemesterExact, SubjectExact, CourseExact
<1>3. RequestExact(req[r])' /\ Others(r)
  BY <1>2, AwaitExact DEF ReadSubject
<1> QED BY <1>0, <1>3, ExactQuiet DEF Free

(* Storing a semester, which has no subjects yet, a subject or a lesson.   *)
LEMMA ExactStore ==
  ASSUME TypeOK, FreshInv, ExactInv, alone, aborts = 0, NEW r \in Requests, Store(r)
  PROVE  Exact'
<1>0. /\ req[r].pc = "store" /\ course' = course /\ Placed
      /\ req[r].semester \in Semesters /\ req[r].course \in Course
      /\ req[r].course.count \in Nat /\ req[r].count \in Nat
  <2>1. req[r].course.count \in Nat
    BY Fields DEF Course
  <2> QED BY <2>1, Fields DEF Store, ExactInv, Exact
<1>1. \A k \in Semesters : semester[k].status = "live" => semester[k].count = Size(k)
  BY <1>0, FreeExact DEF Free
<1>2. CASE StoreSemester(r)
  <2>1. PICK m \in Semesters :
          /\ semester[m].status = "none"
          /\ semester' = [semester EXCEPT ![m] = [status |-> "live", count |-> 0]]
    BY <1>2 DEF StoreSemester
  <2>2. subject' = subject
    BY <1>2 DEF StoreSemester
  <2>3. Placed'
    BY <1>0, <2>1, <2>2 DEF Placed, TypeOK
  <2>4. LiveIn(m) = {} /\ Size(m) = 0
    <3>1. LiveIn(m) = {}
      BY <1>0, <2>1 DEF Placed, LiveIn
    <3> QED BY <3>1, FS_EmptySet DEF Size
  <2>5. \A k \in Semesters : Size(k)' = Size(k)
    BY <2>2 DEF Size, LiveIn
  <2>6. \A k \in Semesters : semester'[k].status = "live" => semester'[k].count = Size(k)'
    <3> SUFFICES ASSUME NEW k \in Semesters, semester'[k].status = "live"
                 PROVE  semester'[k].count = Size(k)'
      OBVIOUS
    <3>1. CASE k = m
      <4>1. semester'[k].count = 0
        BY <2>1, <3>1 DEF TypeOK
      <4> QED BY <2>4, <2>5, <3>1, <4>1
    <3>2. CASE k # m
      <4>1. semester'[k] = semester[k]
        BY <2>1, <3>2 DEF TypeOK
      <4> QED BY <1>1, <2>5, <4>1
    <3> QED BY <3>1, <3>2
  <2>7. RequestExact(req[r])' /\ Others(r)
    <3> DEFINE copy == Counting(req[r].course, req[r].course.count + 1)
    <3>1. req[r].course.count + 1 \in Nat
      BY <1>0
    <3>2. copy.state = req[r].course.state
      BY <1>0, <3>1, CountingTyped
    <3>3. req[r].course.state = course.state
      BY <1>0, <1>2 DEF FreshInv, CopyFresh, StoreSemester, CourseOps
    <3> HIDE DEF copy
    <3>4. req'[r].pc = "writeCourse" /\ req'[r].course = copy /\ Others(r)
      BY <1>2, GotoMoves DEF StoreSemester, copy
    <3> QED BY <1>0, <3>2, <3>3, <3>4
            DEF RequestExact, SemesterExact, SubjectExact, CourseExact
  <2> QED BY <1>0, <2>3, <2>6, <2>7, ExactMove
<1>3. CASE StoreSubject(r)
  <2>0. PICK m \in Semesters : m = req[r].semester
    BY <1>0
  <2>1. PICK s \in Subjects :
          /\ subject[s].status = "none"
          /\ subject' = [subject EXCEPT ![s] = [status |-> "live", semester |-> m]]
    BY <1>3, <2>0 DEF StoreSubject
  <2>2. /\ semester' = semester /\ req[r].op = "createSubject"
        /\ Goto(r, "writeSemester", NoCourse, req[r].count + 1)
    BY <1>3 DEF StoreSubject
  <2>3. semester[m].status = "live" /\ req[r].count = Size(m)
    BY <1>0, <2>0, <2>2 DEF ExactInv, Exact, RequestExact, SemesterExact
  <2>4. Placed'
    BY <1>0, <2>1, <2>2, <2>3 DEF Placed, TypeOK
  <2>5. \A k \in Semesters : k # m => Size(k)' = Size(k)
    <3>1. ASSUME NEW k \in Semesters, k # m PROVE LiveIn(k)' = LiveIn(k)
      BY <2>1, <3>1 DEF LiveIn, TypeOK, Subject
    <3> QED BY <3>1 DEF Size
  <2>6. Size(m)' = Size(m) + 1
    <3>1. LiveIn(m)' = LiveIn(m) \cup {s} /\ s \notin LiveIn(m)
      BY <2>1 DEF LiveIn, TypeOK, Subject
    <3>2. IsFiniteSet(LiveIn(m))
      BY Sizes
    <3> QED BY <3>1, <3>2, FS_AddElement DEF Size
  <2>7. /\ req'[r].pc = "writeSemester" /\ req'[r].op = "createSubject"
        /\ req'[r].semester = m /\ req'[r].count = req[r].count + 1 /\ Others(r)
    BY <2>0, <2>2, GotoMoves
  <2>8. req'[r].count = Size(m)'
    BY <2>3, <2>6, <2>7
  <2>9. RequestExact(req[r])'
    BY <2>2, <2>3, <2>7, <2>8 DEF RequestExact, SemesterExact, SubjectExact, CourseExact
  <2>10. Owing(req'[r], m)
    BY <2>7 DEF Owing
  <2>11. \A k \in Semesters : semester'[k].status = "live" =>
           semester'[k].count = Size(k)' \/ Owing(req'[r], k)
    BY <1>1, <2>2, <2>5, <2>10
  <2> QED BY <1>0, <2>4, <2>7, <2>9, <2>11, ExactMove
<1>4. CASE StoreLesson(r)
  BY <1>0, <1>4, ExactQuiet, AwaitExact DEF StoreLesson, Free
<1> QED BY <1>2, <1>3, <1>4 DEF Store

(* Retiring a document; of a subject, its semester is yet to be counted    *)
(* down.                                                                   *)
LEMMA ExactRetire ==
  ASSUME TypeOK, FreshInv, ExactInv, alone, aborts = 0, NEW r \in Requests, Retire(r)
  PROVE  Exact'
<1>0. /\ req[r].pc = "retire" /\ Placed /\ req[r].semester \in Semesters
      /\ req[r].subject \in Subjects
  BY Fields DEF Retire, ExactInv, Exact
<1>1. \A k \in Semesters : semester[k].status = "live" => semester[k].count = Size(k)
  BY <1>0, FreeExact DEF Free
<1>2. CASE semester' = semester /\ subject' = subject /\ End(r)
  BY <1>0, <1>2, ExactQuiet, AwaitExact DEF Free
<1>3. CASE /\ semester' = [semester EXCEPT ![req[r].semester].status = "deleted"]
           /\ Await(r, "course") /\ subject' = subject
  <2>1. \A k \in Semesters : /\ semester'[k].status = "live" => semester'[k] = semester[k]
                             /\ semester[k].status # "none" => semester'[k].status # "none"
    BY <1>0, <1>3 DEF TypeOK, Semester
  <2>2. \A k \in Semesters : Size(k)' = Size(k)
    BY <1>3 DEF Size, LiveIn
  <2>3. Placed'
    <3>1. \A s \in Subjects : subject[s].semester \in Semesters
      BY DEF TypeOK, Subject
    <3> QED BY <1>0, <1>3, <2>1, <3>1 DEF Placed
  <2>4. RequestExact(req[r])' /\ Others(r)
    BY <1>3, AwaitExact
  <2>5. \A k \in Semesters : semester'[k].status = "live" => semester'[k].count = Size(k)'
    BY <1>1, <2>1, <2>2
  <2> QED BY <1>0, <2>3, <2>4, <2>5, ExactMove
<1>4. CASE /\ req[r].op = "deleteSubject"
           /\ subject' = [subject EXCEPT ![req[r].subject].status = "deleted"]
           /\ Await(r, "semester") /\ semester' = semester
  <2>0. PICK m \in Semesters, s \in Subjects : m = req[r].semester /\ s = req[r].subject
    BY <1>0
  <2>1. subject[s].status = "live" /\ subject[s].semester = m
    BY <1>0, <1>4, <2>0 DEF ExactInv, Exact, RequestExact, SubjectExact
  <2>2. /\ subject'[s].status = "deleted" /\ subject'[s].semester = m
        /\ \A q \in Subjects : q # s => subject'[q] = subject[q]
    BY <1>4, <2>0, <2>1 DEF TypeOK, Subject
  <2>3. Placed'
    BY <1>0, <1>4, <2>1, <2>2 DEF Placed
  <2>4. \A k \in Semesters : k # m => Size(k)' = Size(k)
    <3>1. ASSUME NEW k \in Semesters, k # m PROVE LiveIn(k)' = LiveIn(k)
      BY <2>1, <2>2, <3>1 DEF LiveIn
    <3> QED BY <3>1 DEF Size
  <2>5. Size(m) = Size(m)' + 1
    <3>1. LiveIn(m)' = LiveIn(m) \ {s} /\ s \in LiveIn(m)
      BY <2>1, <2>2 DEF LiveIn
    <3>2. IsFiniteSet(LiveIn(m)) /\ Size(m) \in Nat
      BY Sizes
    <3>3. Size(m)' = Size(m) - 1
      BY <3>1, <3>2, FS_RemoveElement DEF Size
    <3> QED BY <3>2, <3>3, SMT
  <2>6. /\ req'[r].pc = "semester" /\ req'[r].op = "deleteSubject" /\ req'[r].semester = m
        /\ Others(r)
    BY <1>4, <2>0, GotoMoves DEF Await
  <2>7. semester[m].status = "live" => semester'[m].count = Size(m)' + 1
    BY <1>1, <1>4, <2>5
  <2>8. RequestExact(req[r])'
    BY <1>4, <2>6, <2>7 DEF RequestExact, SemesterExact, SubjectExact, CourseExact
  <2>9. Owing(req'[r], m)
    BY <2>6 DEF Owing
  <2>10. \A k \in Semesters : semester'[k].status = "live" =>
           semester'[k].count = Size(k)' \/ Owing(req'[r], k)
    BY <1>1, <1>4, <2>4, <2>9
  <2> QED BY <1>0, <2>3, <2>6, <2>8, <2>10, ExactMove
<1> QED BY <1>2, <1>3, <1>4 DEF Retire

(* Writing copies back.                                                    *)
LEMMA ExactWrite ==
  ASSUME TypeOK, FreshInv, ExactInv, alone, aborts = 0, NEW r \in Requests,
         \/ WriteCourse(r) \/ WriteSemester(r) \/ WriteSubject(r) \/ WriteLesson(r)
         \/ Publish(r)
  PROVE  Exact'
<1>0. req[r].semester \in Semesters /\ req[r].subject \in Subjects /\ Placed
  BY Fields DEF ExactInv, Exact
<1>1. CASE WriteCourse(r) \/ WriteLesson(r) \/ Publish(r)
  <2>1. /\ semester' = semester /\ subject' = subject
        /\ req[r].pc \in {"writeCourse", "writeLesson", "publish"}
        /\ End(r) \/ Await(r, "publish")
    BY <1>1 DEF WriteCourse, WriteLesson, Publish, docs
  <2> QED BY <2>1, ExactQuiet, AwaitExact DEF Free
<1>2. CASE WriteSubject(r)
  <2>1. /\ req[r].pc = "writeSubject" /\ semester' = semester /\ End(r)
        /\ subject' = [subject EXCEPT ![req[r].subject].status = "live"]
    BY <1>2 DEF WriteSubject
  <2>2. subject[req[r].subject].status = "live"
    BY <2>1 DEF ExactInv, Exact, RequestExact, SubjectExact
  <2>3. subject' = subject
    BY <1>0, <2>1, <2>2 DEF TypeOK, Subject
  <2> QED BY <2>1, <2>3, ExactQuiet, AwaitExact DEF Free
<1>3. CASE WriteSemester(r)
  <2>0. PICK m \in Semesters : m = req[r].semester
    BY <1>0
  <2>1. /\ req[r].pc = "writeSemester" /\ subject' = subject /\ End(r)
        /\ semester' = [semester EXCEPT ![m] = [status |-> "live", count |-> req[r].count]]
    BY <1>3, <2>0 DEF WriteSemester
  <2>2. req[r].count = Size(m)
    BY <2>0, <2>1 DEF ExactInv, Exact, RequestExact, SemesterExact
  <2>3. /\ semester'[m].count = Size(m) /\ semester'[m].status = "live"
        /\ \A k \in Semesters : k # m => semester'[k] = semester[k]
    BY <2>1, <2>2 DEF TypeOK
  <2>4. \A k \in Semesters : Size(k)' = Size(k)
    BY <2>1 DEF Size, LiveIn
  <2>5. \A k \in Semesters : k # m /\ semester[k].status = "live" => semester[k].count = Size(k)
    BY <2>0, <2>1, OthersExact DEF Owing
  <2>6. Placed'
    <3>1. \A s \in Subjects : subject[s].semester \in Semesters
      BY DEF TypeOK, Subject
    <3> QED BY <1>0, <2>1, <2>3, <3>1 DEF Placed
  <2>7. RequestExact(req[r])' /\ Others(r)
    BY <2>1, AwaitExact
  <2>8. \A k \in Semesters : semester'[k].status = "live" => semester'[k].count = Size(k)'
    BY <2>3, <2>4, <2>5
  <2> QED BY <2>1, <2>6, <2>7, <2>8, ExactMove
<1> QED BY <1>1, <1>2, <1>3

LEMMA ExactStep == TypeOK /\ FreshInv /\ ExactInv /\ [Next]_vars => ExactInv'
<1> SUFFICES ASSUME TypeOK, FreshInv, ExactInv, [Next]_vars PROVE ExactInv'
  OBVIOUS
<1>1. CASE UNCHANGED vars
  BY <1>1 DEF vars, docs, ExactInv, Exact, Placed, Size, LiveIn, Owing, RequestExact,
              SemesterExact, SubjectExact, CourseExact, Full, Live
<1>2. ASSUME NEW r \in Requests, Start(r) PROVE ExactInv'
  BY <1>2, ExactBegin
<1>3. ASSUME NEW r \in Requests, Abort(r) PROVE ExactInv'
  <2>1. aborts' # 0
    BY <1>3, SMT DEF Abort, TypeOK
  <2> QED BY <2>1 DEF ExactInv
<1>4. ASSUME NEW r \in Requests, Reads(r) PROVE ExactInv'
  <2>1. alone' = alone /\ aborts' = aborts
    BY <1>4 DEF Reads, ReadCourse, CheckContent, ReadSemester, ReadSubject, ReadLesson
  <2> QED BY <1>4, <2>1, ExactReadCourse, ExactReadSemester, ExactReadSubject DEF Reads, ExactInv
<1>5. ASSUME NEW r \in Requests,
             \/ Store(r) \/ Retire(r) \/ WriteCourse(r) \/ WriteSemester(r) \/ WriteSubject(r)
             \/ WriteLesson(r) \/ Publish(r)
      PROVE  ExactInv'
  <2>1. alone' = alone /\ aborts' = aborts
    BY <1>5 DEF Store, Retire, WriteCourse, WriteSemester, WriteSubject, WriteLesson, Publish
  <2> QED BY <1>5, <2>1, ExactStore, ExactRetire, ExactWrite DEF ExactInv
<1> QED BY <1>1, <1>2, <1>3, <1>4, <1>5 DEF Next, Reads

LEMMA ExactInit == Init => ExactInv
<1> SUFFICES ASSUME Init PROVE Exact
  BY DEF ExactInv
<1>1. PICK made \in SUBSET Semesters :
        /\ \A s \in Subjects : subject[s].status = "live" => subject[s].semester \in made
        /\ semester = [m \in Semesters |->
                         [status |-> IF m \in made THEN "live" ELSE "none",
                          count |-> Cardinality(LiveIn(m))]]
  BY DEF Init
<1>2. subject \in [Subjects -> [status : {"none", "live"}, semester : Semesters]]
  BY DEF Init
<1>3. Placed
  BY <1>1, <1>2 DEF Placed
<1>4. \A m \in Semesters : semester[m].count = Size(m)
  BY <1>1 DEF Size
<1>5. \A r \in Requests : RequestExact(req[r])
  BY IdleTyped DEF Init, RequestExact, SemesterExact, SubjectExact, CourseExact
<1> QED BY <1>3, <1>4, <1>5 DEF Exact

(* As long as no requests overlap or die, a course is published only with a*)
(* semester, and with a subject in each, though the check looks at counters*)
(* that every change writes after the content (PublishCourseUseCase.ts     *)
(* 18-26).                                                                 *)
THEOREM PublishedWithContent == Spec => PublishedHasContent
<1>1. TypeOK /\ FreshInv /\ ExactInv /\ [Next]_vars => [PublishesWithContent]_vars
  <2> SUFFICES ASSUME TypeOK, FreshInv, ExactInv, Next, alone, aborts = 0,
                      course.state = "draft", course'.state = "published"
               PROVE  Full
    BY DEF PublishesWithContent, Full
  <2>1. PICK r \in Requests : WriteCourse(r)
    <3>1. PICK r \in Requests :
            \/ Start(r) \/ Abort(r) \/ Reads(r)
            \/ Store(r) \/ Retire(r) \/ WriteCourse(r) \/ WriteSemester(r) \/ WriteSubject(r)
            \/ WriteLesson(r) \/ Publish(r)
      BY DEF Next, Reads
    <3>2. course' # course
      OBVIOUS
    <3>3. ~Start(r)
      <4>1. \A pc, op, m, s, l : Begin(r, pc, op, m, s, l) => course' = course
        BY DEF Begin, docs
      <4> QED BY <3>2, <4>1 DEF Start
    <3>4. ~Reads(r) /\ ~Abort(r)
      BY <3>2 DEF Reads, ReadCourse, CheckContent, ReadSemester, ReadSubject, ReadLesson,
                  Abort, docs
    <3>5. ~Store(r) /\ ~WriteSemester(r) /\ ~WriteSubject(r) /\ ~WriteLesson(r) /\ ~Publish(r)
      BY <3>2 DEF Store, WriteSemester, WriteSubject, WriteLesson, Publish, docs
    <3>6. ~Retire(r)
      <4>1. Retire(r) => course'.state = course.state
        BY DEF Retire
      <4> QED BY <4>1
    <3> QED BY <3>1, <3>3, <3>4, <3>5, <3>6
  <2>2. req[r].pc = "writeCourse" /\ req[r].course.state = "published"
    BY <2>1 DEF WriteCourse
  <2> QED BY <2>2 DEF ExactInv, Exact, RequestExact, CourseExact
<1>2. Init => FreshInv
  BY IdleTyped DEF Init, FreshInv, OneAtATime, CopyFresh
<1> QED BY <1>1, <1>2, InitTyped, StepTyped, FreshStep, ExactInit, ExactStep, PTL
        DEF Spec, PublishedHasContent
----------------------------------------------------------------------------
(* While requests do not overlap and none dies, the course counts its      *)
(* living semesters, but for the one that the request at work has yet to   *)
(* count; the copy about to be written counts that one too.                *)
Uncounted(k) ==
  \/ k.op = "createSemester" /\ k.pc = "writeCourse"
  \/ k.op = "deleteSemester" /\ k.pc \in {"course", "writeCourse"}

Tallied(k) ==
  /\ k.pc \in {"check", "writeCourse"} \/ (k.pc = "store" /\ k.op = "createSemester") =>
       k.course.count = Cardinality(Live)
  /\ k.pc = "retire" /\ k.op = "deleteSemester" => semester[k.semester].status = "live"
  /\ k.pc = "course" /\ k.op = "deleteSemester" => course.count = Cardinality(Live) + 1

Tally ==
  /\ course.count = Cardinality(Live) \/ \E r \in Requests : Uncounted(req[r])
  /\ \A r \in Requests : Tallied(req[r])

TallyInv == alone /\ aborts = 0 => Tally

(* The number of living semesters is one.                                  *)
LEMMA LiveCounted ==
  ASSUME TypeOK
  PROVE  /\ IsFiniteSet(Live) /\ Cardinality(Live) \in Nat
         /\ course.count \in Nat /\ course \in Course
<1>1. Live \subseteq Semesters
  BY DEF Live
<1> QED BY <1>1, ContentAssumption, FS_Subset, FS_CardinalityType DEF TypeOK, Course

(* What is left to show of the step of a request that works alone.         *)
LEMMA TallyMove ==
  ASSUME TypeOK, FreshInv, alone, NEW r \in Requests, req[r].pc # "idle", Others(r),
         Tallied(req[r])', course'.count = Cardinality(Live') \/ Uncounted(req'[r])
  PROVE  Tally'
<1>1. ASSUME NEW q \in Requests PROVE Tallied(req[q])'
  <2>1. CASE q = r
    BY <2>1
  <2>2. CASE q # r
    <3>1. req'[q].pc = "idle"
      BY <2>2 DEF Others, FreshInv, OneAtATime
    <3> QED BY <3>1 DEF Tallied
  <2> QED BY <2>1, <2>2
<1> QED BY <1>1 DEF Tally

(* With the request at work at this await, nothing is left to count.       *)
LEMMA AllCounted ==
  ASSUME TypeOK, FreshInv, TallyInv, alone, aborts = 0, NEW r \in Requests, req[r].pc # "idle",
         ~ Uncounted(req[r])
  PROVE  course.count = Cardinality(Live)
  BY DEF TallyInv, Tally, FreshInv, OneAtATime, Uncounted

\* Awaits of a request that has nothing to do with the counter of the course.
Unrelated(k) ==
  \/ k.pc \in {"idle", "semester", "subject", "lesson", "writeSemester", "writeSubject",
               "writeLesson", "publish"}
  \/ k.pc = "retire" /\ k.op # "deleteSemester"
  \/ k.pc = "store" /\ k.op # "createSemester"
  \/ k.pc = "course" /\ k.op # "deleteSemester"

LEMMA TallyQuiet ==
  ASSUME TypeOK, FreshInv, TallyInv, alone, aborts = 0, NEW r \in Requests, req[r].pc # "idle",
         Unrelated(req[r]), Unrelated(req'[r]), Others(r), Live' = Live, course'.count = course.count
  PROVE  Tally'
<1>1. ~ Uncounted(req[r])
  BY DEF Unrelated, Uncounted
<1>2. Tallied(req[r])'
  BY DEF Unrelated, Tallied
<1> QED BY <1>1, <1>2, AllCounted, TallyMove

LEMMA TallyBegin ==
  ASSUME TypeOK, TallyInv, NEW r \in Requests, Start(r)
  PROVE  TallyInv'
<1>1. UNCHANGED docs /\ alone' = (alone /\ AllIdle) /\ aborts' = aborts
  BY DEF Start, Begin
<1> SUFFICES ASSUME alone, AllIdle, aborts = 0 PROVE Tally'
  BY <1>1 DEF TallyInv
<1>2. Others(r) /\ Unrelated(req'[r])
  <2>1. ASSUME NEW pc \in Awaits, NEW op \in Ops, NEW m \in Semesters, NEW s \in Subjects,
               NEW l \in Lessons, Begin(r, pc, op, m, s, l),
               pc \in {"course", "semester", "subject", "lesson"},
               pc = "course" => op # "deleteSemester"
        PROVE  Others(r) /\ Unrelated(req'[r])
    <3>1. req'[r].pc = pc /\ req'[r].op = op /\ Others(r)
      BY <2>1, BeginMoves
    <3> QED BY <2>1, <3>1 DEF Unrelated
  <2>2. Idle.semester \in Semesters /\ Idle.subject \in Subjects /\ Idle.lesson \in Lessons
    BY IdleTyped DEF Request
  <2>3. \A s \in Subjects : subject[s].semester \in Semesters
    BY DEF TypeOK, Subject
  <2>4. PICK pc \in Awaits, op \in Ops, m \in Semesters, s \in Subjects, l \in Lessons :
          /\ Begin(r, pc, op, m, s, l)
          /\ pc \in {"course", "semester", "subject", "lesson"}
          /\ pc = "course" => op # "deleteSemester"
    BY <2>2, <2>3 DEF Start, Made, Awaits, Ops, CourseOps
  <2> QED BY <2>1, <2>4
<1>3. \A q \in Requests : Tallied(req[q])'
  <2> SUFFICES ASSUME NEW q \in Requests PROVE Tallied(req[q])'
    OBVIOUS
  <2>1. req'[q].pc = "idle" \/ q = r
    BY <1>2 DEF Others, AllIdle
  <2>2. Unrelated(req'[q])
    BY <1>2, <2>1 DEF Unrelated
  <2> QED BY <2>2 DEF Tallied, Unrelated
<1>4. course.count = Cardinality(Live)
  BY DEF TallyInv, Tally, AllIdle, Uncounted
<1>5. course' = course /\ Live' = Live
  BY <1>1 DEF docs, Live
<1> QED BY <1>3, <1>4, <1>5 DEF Tally

(* Reading: a copy of the course is taken with a counter that is exact, or *)
(* is counted down by the semester that has been deleted.                  *)
LEMMA TallyReadCourse ==
  ASSUME TypeOK, FreshInv, TallyInv, alone, aborts = 0, NEW r \in Requests,
         ReadCourse(r) \/ CheckContent(r)
  PROVE  Tally'
<1>0. /\ course' = course /\ Live' = Live /\ req[r].pc \in {"course", "check"}
      /\ course \in Course /\ course.count \in Nat /\ Cardinality(Live) \in Nat
      /\ req[r].op \in Ops /\ req[r].course \in Course
  BY Fields, LiveCounted DEF ReadCourse, CheckContent, docs, Live
<1>1. ASSUME NEW pc, NEW copy, Goto(r, pc, copy, 0),
             copy.count = Cardinality(Live), pc \in {"check", "store", "writeCourse"},
             req[r].op = "deleteSemester" => pc = "writeCourse",
             req[r].op = "deleteSemester" \/ course.count = Cardinality(Live)
      PROVE  Tally'
  <2>1. req'[r].pc = pc /\ req'[r].op = req[r].op /\ req'[r].course = copy /\ Others(r)
    BY <1>1, GotoMoves
  <2>2. Tallied(req[r])'
    BY <1>0, <1>1, <2>1 DEF Tallied
  <2>3. course'.count = Cardinality(Live') \/ Uncounted(req'[r])
    BY <1>0, <1>1, <2>1 DEF Uncounted
  <2> QED BY <1>0, <2>1, <2>2, <2>3, TallyMove
<1>2. req[r].op # "deleteSemester" => course.count = Cardinality(Live)
  BY <1>0, AllCounted DEF Uncounted
<1>3. ASSUME End(r), Unrelated(req[r]) PROVE Tally'
  <2>1. Others(r) /\ Unrelated(req'[r])
    BY <1>3, EndMoves, IdleTyped DEF Unrelated
  <2> QED BY <1>0, <1>3, <2>1, TallyQuiet
<1>4. CASE ReadCourse(r) /\ req[r].op # "deleteSemester"
  <2>0. Unrelated(req[r])
    BY <1>4 DEF Unrelated, ReadCourse
  <2>1. Goto(r, "check", course, 0) \/ Goto(r, "store", course, 0) => Tally'
    BY <1>1, <1>2, <1>4
  <2>2. Goto(r, "writeCourse", course, 0) => Tally'
    BY <1>1, <1>2, <1>4
  <2>3. Goto(r, "writeCourse", Moved(req[r].op, course), 0) => Tally'
    BY <1>0, <1>1, <1>2, <1>4, MovedTyped
  <2>4. Await(r, "retire") /\ req[r].op = "delete" => Tally'
    <3> SUFFICES ASSUME Await(r, "retire"), req[r].op = "delete" PROVE Tally'
      OBVIOUS
    <3>1. Unrelated(req'[r]) /\ Others(r)
      BY GotoMoves DEF Await, Unrelated
    <3> QED BY <1>0, <2>0, <3>1, TallyQuiet
  <2> QED BY <1>3, <1>4, <2>0, <2>1, <2>2, <2>3, <2>4 DEF ReadCourse
<1>5. CASE ReadCourse(r) /\ req[r].op = "deleteSemester"
  <2>1. course.count = Cardinality(Live) + 1
    BY <1>5 DEF ReadCourse, TallyInv, Tally, Tallied
  <2>2. Positive(course.count) /\ course.count - 1 = Cardinality(Live)
    BY <1>0, <2>1 DEF Positive
  <2>3. Goto(r, "writeCourse", Counting(course, course.count - 1), 0)
    BY <1>5, <2>2 DEF ReadCourse
  <2>4. Counting(course, course.count - 1).count = Cardinality(Live)
    BY <1>0, <2>2, CountingTyped
  <2> QED BY <1>1, <1>5, <2>3, <2>4
<1>6. CASE CheckContent(r)
  <2>0. req[r].pc = "check" /\ req[r].op # "deleteSemester"
    BY <1>6 DEF CheckContent, FreshInv, CopyFresh, CourseOps
  <2>1. req[r].course.count = Cardinality(Live)
    BY <2>0 DEF TallyInv, Tally, Tallied
  <2>2. Moved("publish", req[r].course).count = Cardinality(Live)
    BY <1>0, <2>1, MovedTyped DEF Ops, CourseOps
  <2>3. CASE Goto(r, "writeCourse", Moved("publish", req[r].course), 0)
    BY <1>1, <1>2, <2>0, <2>2, <2>3
  <2>4. CASE End(r)
    <3>1. Others(r) /\ req'[r].pc = "idle"
      BY <2>4, EndMoves, IdleTyped
    <3>2. Tallied(req[r])'
      BY <3>1 DEF Tallied
    <3> QED BY <1>0, <1>2, <2>0, <3>1, <3>2, TallyMove
  <2> QED BY <1>6, <2>3, <2>4 DEF CheckContent
<1> QED BY <1>4, <1>5, <1>6

LEMMA TallyReadOthers ==
  ASSUME TypeOK, FreshInv, TallyInv, alone, aborts = 0, NEW r \in Requests,
         ReadSemester(r) \/ ReadSubject(r) \/ ReadLesson(r)
  PROVE  Tally'
<1>0. /\ course' = course /\ semester' = semester /\ Live' = Live
      /\ Unrelated(req[r]) /\ req[r].pc # "idle"
  BY DEF ReadSemester, ReadSubject, ReadLesson, docs, Live, Unrelated
<1>1. ASSUME NEW pc, NEW n, Goto(r, pc, NoCourse, n),
             \/ pc \in {"writeSemester", "writeSubject", "writeLesson"}
             \/ pc = "retire" /\ req[r].op # "deleteSemester"
             \/ pc = "store" /\ req[r].op # "createSemester"
      PROVE  Tally'
  <2>1. Others(r) /\ Unrelated(req'[r])
    BY <1>1, GotoMoves DEF Unrelated
  <2> QED BY <1>0, <2>1, TallyQuiet
<1>2. ASSUME End(r) PROVE Tally'
  <2>1. Others(r) /\ Unrelated(req'[r])
    BY <1>2, EndMoves, IdleTyped DEF Unrelated
  <2> QED BY <1>0, <2>1, TallyQuiet
<1>3. ASSUME Await(r, "retire"), semester[req[r].semester].status = "live" PROVE Tally'
  <2>1. req'[r].pc = "retire" /\ req'[r].semester = req[r].semester /\ Others(r)
    BY <1>3, GotoMoves DEF Await
  <2>2. Tallied(req[r])'
    BY <1>0, <1>3, <2>1 DEF Tallied
  <2>3. course.count = Cardinality(Live)
    BY <1>0, AllCounted DEF Unrelated, Uncounted
  <2> QED BY <1>0, <2>1, <2>2, <2>3, TallyMove
<1>4. CASE ReadSemester(r)
  BY <1>1, <1>2, <1>3, <1>4 DEF ReadSemester
<1>5. CASE ReadSubject(r)
  BY <1>1, <1>2, <1>5 DEF ReadSubject, Await
<1>6. CASE ReadLesson(r)
  <2>0. Lessons # {} /\ req[r].op \in Ops
    BY ContentAssumption, Fields
  <2>1. CASE Await(r, "writeLesson")
    BY <1>1, <2>1 DEF Await
  <2>2. CASE Await(r, "retire") /\ req[r].op = "deleteLesson"
    BY <1>1, <2>2 DEF Await
  <2> QED BY <1>2, <1>6, <2>1, <2>2 DEF ReadLesson
<1> QED BY <1>4, <1>5, <1>6

(* Storing or retiring a semester leaves it to be counted.                 *)
LEMMA TallyStore ==
  ASSUME TypeOK, FreshInv, TallyInv, alone, aborts = 0, NEW r \in Requests, Store(r)
  PROVE  Tally'
<1>0. /\ req[r].pc = "store" /\ course' = course /\ IsFiniteSet(Live) /\ Cardinality(Live) \in Nat
      /\ req[r].course \in Course /\ req[r].course.count \in Nat
  <2>1. req[r].course.count \in Nat
    BY Fields DEF Course
  <2> QED BY <2>1, Fields, LiveCounted DEF Store
<1>1. CASE StoreSemester(r)
  <2>1. PICK m \in Semesters :
          /\ semester[m].status = "none"
          /\ semester' = [semester EXCEPT ![m] = [status |-> "live", count |-> 0]]
    BY <1>1 DEF StoreSemester
  <2>2. Live' = Live \cup {m} /\ m \notin Live
    BY <2>1 DEF Live, TypeOK
  <2>3. Cardinality(Live') = Cardinality(Live) + 1
    BY <1>0, <2>2, FS_AddElement
  <2>4. req[r].course.count = Cardinality(Live)
    BY <1>0, <1>1 DEF StoreSemester, TallyInv, Tally, Tallied
  <2> DEFINE copy == Counting(req[r].course, req[r].course.count + 1)
  <2>5. copy.count = Cardinality(Live')
    BY <1>0, <2>3, <2>4, CountingTyped
  <2> HIDE DEF copy
  <2>6. /\ req'[r].pc = "writeCourse" /\ req'[r].op = "createSemester"
        /\ req'[r].course = copy /\ Others(r)
    BY <1>1, GotoMoves DEF StoreSemester, copy
  <2>7. Tallied(req[r])' /\ Uncounted(req'[r])
    BY <2>5, <2>6 DEF Tallied, Uncounted
  <2> QED BY <1>0, <2>6, <2>7, TallyMove
<1>2. CASE StoreSubject(r) \/ StoreLesson(r)
  <2>1. /\ semester' = semester /\ req[r].op \in {"createSubject", "createLesson"}
        /\ Goto(r, "writeSemester", NoCourse, req[r].count + 1) \/ End(r)
    BY <1>2 DEF StoreSubject, StoreLesson
  <2>2. Others(r) /\ Unrelated(req'[r]) /\ Unrelated(req[r])
    BY <1>0, <2>1, GotoMoves, EndMoves, IdleTyped DEF Unrelated
  <2>3. Live' = Live
    BY <2>1 DEF Live
  <2> QED BY <1>0, <2>2, <2>3, TallyQuiet
<1> QED BY <1>1, <1>2 DEF Store

LEMMA TallyRetire ==
  ASSUME TypeOK, FreshInv, TallyInv, alone, aborts = 0, NEW r \in Requests, Retire(r)
  PROVE  Tally'
<1>0. /\ req[r].pc = "retire" /\ req[r].semester \in Semesters
      /\ IsFiniteSet(Live) /\ Cardinality(Live) \in Nat
  BY Fields, LiveCounted DEF Retire
<1>1. CASE /\ req[r].op # "deleteSemester" /\ semester' = semester
           /\ course'.count = course.count
           /\ End(r) \/ Await(r, "semester")
  <2>1. Others(r) /\ Unrelated(req'[r]) /\ Unrelated(req[r])
    BY <1>0, <1>1, GotoMoves, EndMoves, IdleTyped DEF Unrelated, Await
  <2>2. Live' = Live
    BY <1>1 DEF Live
  <2> QED BY <1>0, <1>1, <2>1, <2>2, TallyQuiet
<1>2. CASE /\ req[r].op = "deleteSemester"
           /\ semester' = [semester EXCEPT ![req[r].semester].status = "deleted"]
           /\ Await(r, "course") /\ course' = course
  <2>1. PICK m \in Semesters : m = req[r].semester
    BY <1>0
  <2>2. semester[m].status = "live"
    BY <1>0, <1>2, <2>1 DEF TallyInv, Tally, Tallied
  <2>3. Live' = Live \ {m} /\ m \in Live
    BY <1>2, <2>1, <2>2 DEF Live, TypeOK, Semester
  <2>4. Cardinality(Live') = Cardinality(Live) - 1
    BY <1>0, <2>3, FS_RemoveElement
  <2>5. course.count = Cardinality(Live)
    BY <1>0, AllCounted DEF Uncounted
  <2>6. req'[r].pc = "course" /\ req'[r].op = "deleteSemester" /\ Others(r)
    BY <1>2, GotoMoves DEF Await
  <2>7. course'.count = Cardinality(Live') + 1
    BY <1>0, <1>2, <2>4, <2>5
  <2>8. Tallied(req[r])' /\ Uncounted(req'[r])
    BY <2>6, <2>7 DEF Tallied, Uncounted
  <2> QED BY <1>0, <2>6, <2>8, TallyMove
<1> QED BY <1>1, <1>2 DEF Retire

(* Writing a semester back does not bring it back: it is alive.            *)
LEMMA TallyWrite ==
  ASSUME TypeOK, FreshInv, ExactInv, TallyInv, alone, aborts = 0, NEW r \in Requests,
         \/ WriteCourse(r) \/ WriteSemester(r) \/ WriteSubject(r) \/ WriteLesson(r)
         \/ Publish(r)
  PROVE  Tally'
<1>1. CASE WriteCourse(r)
  <2>1. /\ req[r].pc = "writeCourse" /\ course' = req[r].course /\ semester' = semester
        /\ End(r) \/ Await(r, "publish")
    BY <1>1 DEF WriteCourse
  <2>2. course'.count = Cardinality(Live')
    BY <2>1 DEF TallyInv, Tally, Tallied, Live
  <2>3. Others(r) /\ req'[r].pc \in {"idle", "publish"}
    BY <2>1, GotoMoves, EndMoves, IdleTyped DEF Await
  <2>4. Tallied(req[r])'
    BY <2>3 DEF Tallied
  <2> QED BY <2>1, <2>2, <2>3, <2>4, TallyMove
<1>2. CASE \/ WriteSemester(r) \/ WriteSubject(r) \/ WriteLesson(r) \/ Publish(r)
  <2>1. /\ req[r].pc \in {"writeSemester", "writeSubject", "writeLesson", "publish"}
        /\ course' = course /\ End(r)
    BY <1>2 DEF WriteSemester, WriteSubject, WriteLesson, Publish, docs
  <2>2. Others(r) /\ Unrelated(req'[r]) /\ Unrelated(req[r])
    BY <2>1, EndMoves, IdleTyped DEF Unrelated
  <2>3. Live' = Live
    <3>1. CASE WriteSemester(r)
      <4>1. PICK m \in Semesters : m = req[r].semester
        BY Fields
      <4>2. semester[m].status = "live"
        BY <3>1, <4>1 DEF WriteSemester, ExactInv, Exact, RequestExact, SemesterExact
      <4>3. \A k \in Semesters : semester'[k].status = semester[k].status
        BY <3>1, <4>1, <4>2 DEF WriteSemester, TypeOK
      <4> QED BY <4>3 DEF Live
    <3>2. CASE semester' = semester
      BY <3>2 DEF Live
    <3> QED BY <1>2, <3>1, <3>2 DEF WriteSubject, WriteLesson, Publish, docs
  <2> QED BY <2>1, <2>2, <2>3, TallyQuiet
<1> QED BY <1>1, <1>2

LEMMA TallyStep == TypeOK /\ FreshInv /\ ExactInv /\ TallyInv /\ [Next]_vars => TallyInv'
<1> SUFFICES ASSUME TypeOK, FreshInv, ExactInv, TallyInv, [Next]_vars PROVE TallyInv'
  OBVIOUS
<1>1. CASE UNCHANGED vars
  BY <1>1 DEF vars, docs, TallyInv, Tally, Tallied, Uncounted, Live
<1>2. ASSUME NEW r \in Requests, Start(r) PROVE TallyInv'
  BY <1>2, TallyBegin
<1>3. ASSUME NEW r \in Requests, Abort(r) PROVE TallyInv'
  <2>1. aborts' # 0
    BY <1>3, SMT DEF Abort, TypeOK
  <2> QED BY <2>1 DEF TallyInv
<1>4. ASSUME NEW r \in Requests, Reads(r) PROVE TallyInv'
  <2>1. alone' = alone /\ aborts' = aborts
    BY <1>4 DEF Reads, ReadCourse, CheckContent, ReadSemester, ReadSubject, ReadLesson
  <2> QED BY <1>4, <2>1, TallyReadCourse, TallyReadOthers DEF Reads, TallyInv
<1>5. ASSUME NEW r \in Requests,
             \/ Store(r) \/ Retire(r) \/ WriteCourse(r) \/ WriteSemester(r) \/ WriteSubject(r)
             \/ WriteLesson(r) \/ Publish(r)
      PROVE  TallyInv'
  <2>1. alone' = alone /\ aborts' = aborts
    BY <1>5 DEF Store, Retire, WriteCourse, WriteSemester, WriteSubject, WriteLesson, Publish
  <2> QED BY <1>5, <2>1, TallyStore, TallyRetire, TallyWrite DEF TallyInv
<1> QED BY <1>1, <1>2, <1>3, <1>4, <1>5 DEF Next, Reads

LEMMA TallyInit == Init => TallyInv
<1> SUFFICES ASSUME Init PROVE Tally
  BY DEF TallyInv
<1>1. PICK made \in SUBSET Semesters :
        /\ semester = [m \in Semesters |->
                         [status |-> IF m \in made THEN "live" ELSE "none",
                          count |-> Cardinality(LiveIn(m))]]
        /\ course = [state |-> "draft", count |-> Cardinality(made), deleted |-> FALSE]
  BY DEF Init
<1>2. Live = made
  BY <1>1 DEF Live
<1>3. \A r \in Requests : Tallied(req[r])
  BY IdleTyped DEF Init, Tallied
<1> QED BY <1>1, <1>2, <1>3 DEF Tally
----------------------------------------------------------------------------
(* Among subsets of a finite set, there is one with no other below it.     *)
LEMMA LeastSet ==
  ASSUME NEW S, IsFiniteSet(S), NEW W \in SUBSET (SUBSET S), W # {}
  PROVE  \E T \in W : \A U \in W : U \subseteq T => U = T
<1>1. IsWellFoundedOn(StrictSubsetOrdering(S), FiniteSubsetsOf(S)) /\ FiniteSubsetsOf(S) = SUBSET S
  BY FS_StrictSubsetOrderingWellFounded, FS_FiniteSubsetsOfFinite
<1>2. PICK T \in W : \A U \in W : ~ (<<U, T>> \in StrictSubsetOrdering(S))
  BY <1>1, WFMin
<1> QED BY <1>2 DEF StrictSubsetOrdering

\* The subjects alive in some of the semesters, ...
Under(T) == {s \in Subjects : subject[s].status = "live" /\ subject[s].semester \in T}

\* ... and one round of adding up the counters of semesters, one after the other.
Round(g) ==
  [T \in SUBSET Live |->
     IF T = {} THEN 0
     ELSE semester[CHOOSE m \in T : TRUE].count + g[T \ {CHOOSE m \in T : TRUE}]]

(* The sizes of semesters add up: no subject is in two.                    *)
LEMMA UnderAdds ==
  ASSUME TypeOK, NEW T \in SUBSET Live, NEW m \in T
  PROVE  Cardinality(Under(T)) = Size(m) + Cardinality(Under(T \ {m}))
<1>1. m \in Semesters
  BY DEF Live
<1>2. /\ Under(T) = LiveIn(m) \cup Under(T \ {m})
      /\ LiveIn(m) \cap Under(T \ {m}) = {}
  BY DEF Under, LiveIn
<1>3. IsFiniteSet(LiveIn(m)) /\ Size(m) \in Nat
  BY <1>1, Sizes
<1>4. IsFiniteSet(Under(T \ {m})) /\ Cardinality(Under(T \ {m})) \in Nat
  <2>1. Under(T \ {m}) \subseteq Subjects
    BY DEF Under
  <2> QED BY <2>1, ContentAssumption, FS_Subset, FS_CardinalityType
<1>5. Cardinality(LiveIn(m) \cup Under(T \ {m})) =
        Cardinality(LiveIn(m)) + Cardinality(Under(T \ {m})) - Cardinality({})
  BY <1>2, <1>3, <1>4, FS_Union
<1> QED BY <1>2, <1>3, <1>4, <1>5, FS_EmptySet DEF Size

(* Adding up has one result.                                               *)
LEMMA RoundsAgree ==
  ASSUME TypeOK, NEW f, NEW g, f = Round(f), g = Round(g), NEW S \in SUBSET Live
  PROVE  f[S] = g[S]
<1> DEFINE W == {T \in SUBSET Live : f[T] # g[T]}
<1> SUFFICES ASSUME W # {} PROVE FALSE
  OBVIOUS
<1>1. PICK T \in W : \A U \in W : U \subseteq T => U = T
  <2>1. IsFiniteSet(Live) /\ W \in SUBSET (SUBSET Live)
    BY LiveCounted
  <2> HIDE DEF W
  <2> QED BY <2>1, LeastSet
<1>2. ASSUME NEW h, h = Round(h)
      PROVE  h[T] = IF T = {} THEN 0 ELSE semester[CHOOSE m \in T : TRUE].count
                                            + h[T \ {CHOOSE m \in T : TRUE}]
  <2>1. Round(h)[T] = IF T = {} THEN 0 ELSE semester[CHOOSE m \in T : TRUE].count
                                              + h[T \ {CHOOSE m \in T : TRUE}]
    BY DEF Round
  <2>2. h[T] = Round(h)[T]
    BY <1>2, Zenon
  <2> QED BY <2>1, <2>2, Zenon
<1>3. /\ f[T] = IF T = {} THEN 0 ELSE semester[CHOOSE m \in T : TRUE].count
                                        + f[T \ {CHOOSE m \in T : TRUE}]
      /\ g[T] = IF T = {} THEN 0 ELSE semester[CHOOSE m \in T : TRUE].count
                                        + g[T \ {CHOOSE m \in T : TRUE}]
  BY <1>2
<1>4. T # {}
  BY <1>3
<1>5. PICK m \in T : m = (CHOOSE k \in T : TRUE)
  BY <1>4
<1>6. f[T \ {m}] = g[T \ {m}]
  BY <1>1, <1>5
<1>7. f[T] = g[T]
  BY <1>3, <1>4, <1>5, <1>6, Zenon
<1> QED BY <1>7

(* If semesters count their subjects, the sum of the counters is the number*)
(* of subjects (SubjectCount is what progress-service is told).            *)
LEMMA SumOfCounts ==
  ASSUME TypeOK, \A m \in Live : semester[m].count = Size(m)
  PROVE  SubjectCount = Cardinality(Under(Live))
<1> DEFINE G == [T \in SUBSET Live |-> Cardinality(Under(T))]
<1>1. G = Round(G)
  <2>1. ASSUME NEW T \in SUBSET Live
        PROVE  Cardinality(Under(T)) =
                 IF T = {} THEN 0
                 ELSE semester[CHOOSE m \in T : TRUE].count
                        + Cardinality(Under(T \ {CHOOSE m \in T : TRUE}))
    <3>1. CASE T = {}
      BY <3>1, FS_EmptySet DEF Under
    <3>2. CASE T # {}
      <4>1. PICK m \in T : m = (CHOOSE k \in T : TRUE)
        BY <3>2
      <4> QED BY <3>2, <4>1, UnderAdds
    <3> QED BY <3>1, <3>2
  <2> QED BY <2>1 DEF Round
<1> DEFINE F == CHOOSE g : g = Round(g)
<1>2. F = Round(F)
  BY <1>1
<1>3. SubjectCount = F[Live]
  BY DEF SubjectCount, MapThenSumSet, MapThenFoldSet, Round
<1> HIDE DEF F
<1>4. F[Live] = G[Live]
  BY <1>1, <1>2, RoundsAgree
<1> QED BY <1>3, <1>4

(* As long as no requests overlap or die, the counters are exact between   *)
(* requests, and so is the number of subjects they add up to, which        *)
(* progress-service is told (CountsExact, GetSubjectCountUseCase.ts).      *)
THEOREM CountersExact == Spec => []CountsExact
<1>1. TypeOK /\ ExactInv /\ TallyInv => CountsExact
  <2> SUFFICES ASSUME TypeOK, Exact, Tally, AllIdle PROVE
                 /\ course.count = Cardinality(Live)
                 /\ \A m \in Live : semester[m].count = Cardinality(LiveIn(m))
                 /\ SubjectCount = Cardinality({s \in Subjects : subject[s].status = "live"
                                                  /\ subject[s].semester \in Live})
    BY DEF ExactInv, TallyInv, CountsExact
  <2>1. course.count = Cardinality(Live)
    BY DEF Tally, AllIdle, Uncounted
  <2>2. \A m \in Live : semester[m].count = Size(m)
    BY DEF Live, Exact, AllIdle, Owing
  <2> QED BY <2>1, <2>2, SumOfCounts DEF Size, Under
<1>2. Init => FreshInv
  BY IdleTyped DEF Init, FreshInv, OneAtATime, CopyFresh
<1> QED BY <1>1, <1>2, InitTyped, StepTyped, FreshStep, ExactInit, ExactStep, TallyInit, TallyStep,
           PTL DEF Spec
----------------------------------------------------------------------------
(* The visit.  What stayed is there and what is there was seen at some     *)
(* time, until everything is read; ...                                     *)
Content0 == [semesters : SUBSET Semesters, subjects : SUBSET Subjects]

ViewTyped ==
  view \in [pc : {"closed", "semesters", "subjects"}, listed : SUBSET Semesters,
            counts : [Semesters -> Nat], subjects : [Semesters -> SUBSET Subjects],
            read : SUBSET Semesters, ever : Content0, steady : Content0, exact : BOOLEAN]

LiveSubjects == {s \in Subjects : subject[s].status = "live"}

Between ==
  Open => /\ view.steady.semesters \subseteq Live /\ Live \subseteq view.ever.semesters
          /\ view.steady.subjects \subseteq LiveSubjects
          /\ LiveSubjects \subseteq view.ever.subjects

\* ... what was seen exists and stays in its semester; ...
Known ==
  /\ view.steady.subjects \subseteq view.ever.subjects
  /\ \A s \in view.ever.subjects : subject[s].status # "none"

\* ... what was read is right, ...
SeenRight(m) ==
  /\ \A s \in view.steady.subjects : subject[s].semester = m => s \in view.subjects[m]
  /\ \A s \in view.subjects[m] : s \in view.ever.subjects /\ subject[s].semester = m
  /\ view.exact => view.counts[m] = Cardinality(view.subjects[m])

ListedRight ==
  /\ view.pc = "semesters" => view.read = {}
  /\ view.pc = "subjects" =>
       /\ view.steady.semesters \subseteq view.listed /\ view.listed \subseteq view.ever.semesters
       /\ view.read \subseteq view.listed
       /\ \A m \in view.read : SeenRight(m)

\* ... and so is what is yet to be read, as long as nothing changes.
CountedRight ==
  Open /\ view.exact =>
    /\ view.pc = "semesters" => \A m \in Live : semester[m].count = Size(m)
    /\ view.pc = "subjects" => \A m \in view.listed : view.counts[m] = Size(m)

ViewInv == ViewTyped /\ Between /\ Known /\ ListedRight /\ CountedRight

LEMMA ContentTyped ==
  /\ Content \in Content0 /\ Content.semesters = Live /\ Content.subjects = LiveSubjects
  BY DEF Content, Content0, Live, LiveSubjects

LEMMA ClosedTyped ==
  /\ Closed \in [pc : {"closed"}, listed : SUBSET Semesters,
            counts : [Semesters -> Nat], subjects : [Semesters -> SUBSET Subjects],
            read : SUBSET Semesters, ever : Content0, steady : Content0, exact : BOOLEAN]
  /\ Closed.pc = "closed" /\ Closed.ever.subjects = {} /\ Closed.steady.subjects = {}
  /\ Closed.read = {}
  BY DEF Closed, Content0

LEMMA ViewStart == ViewInit => ViewInv
<1> SUFFICES ASSUME ViewInit PROVE ViewInv
  OBVIOUS
<1>1. /\ ViewTyped /\ view.pc = "closed" /\ view.ever.subjects = {} /\ view.steady.subjects = {}
  BY ClosedTyped DEF ViewInit, ViewTyped
<1> QED BY <1>1 DEF ViewInv, Between, Known, ListedRight, CountedRight, Open

(* Between requests that have not overlapped or died, semesters count      *)
(* exactly.                                                                *)
LEMMA ExactBetween ==
  ASSUME TypeOK, ExactInv, alone, AllIdle, aborts = 0
  PROVE  \A m \in Live : semester[m].count = Size(m)
  BY DEF ExactInv, Exact, AllIdle, Owing, Live

(* The visitor's own steps.                                                *)
LEMMA ViewOpens ==
  ASSUME TypeOK, ExactInv, ViewInv, NEW isAdmin, OpenCourse(isAdmin)
  PROVE  ViewInv'
<1>1. /\ view' = [Closed EXCEPT !.pc = "semesters", !.ever = Content, !.steady = Content,
                                !.exact = alone /\ AllIdle /\ aborts = 0]
      /\ UNCHANGED <<semester, subject>>
  BY DEF OpenCourse, vars, docs
<1>2. (alone /\ AllIdle /\ aborts = 0) \in BOOLEAN
  OBVIOUS
<1>3. /\ ViewTyped' /\ view'.pc = "semesters" /\ view'.ever = Content /\ view'.steady = Content
      /\ view'.exact = (alone /\ AllIdle /\ aborts = 0) /\ view'.read = {}
  BY <1>1, <1>2, ClosedTyped, ContentTyped DEF ViewTyped
<1>4. Live' = Live /\ LiveSubjects' = LiveSubjects /\ \A m \in Live : Size(m)' = Size(m)
  BY <1>1 DEF Live, LiveSubjects, Size, LiveIn
<1>5. Between'
  BY <1>3, <1>4, ContentTyped DEF Between
<1>6. Known'
  BY <1>1, <1>3, ContentTyped DEF Known, LiveSubjects
<1>7. CountedRight'
  BY <1>1, <1>3, <1>4, ExactBetween DEF CountedRight
<1>8. ListedRight'
  BY <1>3 DEF ListedRight
<1> QED BY <1>3, <1>5, <1>6, <1>7, <1>8 DEF ViewInv

LEMMA ViewLists ==
  ASSUME TypeOK, ViewInv, ListSemesters
  PROVE  ViewInv'
<1>1. /\ view.pc = "semesters" /\ ViewTyped
      /\ view' = [view EXCEPT !.pc = "subjects", !.listed = Live,
                              !.counts = [m \in Semesters |-> semester[m].count]]
      /\ UNCHANGED <<semester, subject>>
  BY DEF ListSemesters, vars, docs, ViewInv
<1>2. Live \in SUBSET Semesters /\ [m \in Semesters |-> semester[m].count] \in [Semesters -> Nat]
  BY DEF Live, TypeOK, Semester
<1>3. /\ ViewTyped' /\ view'.pc = "subjects" /\ view'.listed = Live
      /\ view'.counts = [m \in Semesters |-> semester[m].count] /\ view'.read = view.read
      /\ view'.ever = view.ever /\ view'.steady = view.steady /\ view'.exact = view.exact
  <2> DEFINE counts == [m \in Semesters |-> semester[m].count]
  <2>1. counts \in [Semesters -> Nat]
    BY <1>2
  <2>2. view' = [view EXCEPT !.pc = "subjects", !.listed = Live, !.counts = counts]
    BY <1>1
  <2> HIDE DEF counts
  <2>3. ViewTyped
    BY <1>1
  <2>4. /\ ViewTyped' /\ view'.pc = "subjects" /\ view'.listed = Live
        /\ view'.counts = counts /\ view'.read = view.read
        /\ view'.ever = view.ever /\ view'.steady = view.steady /\ view'.exact = view.exact
    BY <1>2, <2>1, <2>2, <2>3 DEF ViewTyped
  <2> QED BY <2>4 DEF counts
<1>4. Live' = Live /\ LiveSubjects' = LiveSubjects /\ \A m \in Semesters : Size(m)' = Size(m)
  BY <1>1 DEF Live, LiveSubjects, Size, LiveIn
<1>5. Open
  BY <1>1 DEF Open, Shown
<1>6. Between' /\ Known'
  BY <1>1, <1>3, <1>4, <1>5 DEF ViewInv, Between, Known
<1>7. CountedRight'
  <2>1. view.exact => \A m \in Live : semester[m].count = Size(m)
    BY <1>1, <1>5 DEF ViewInv, CountedRight
  <2>2. \A m \in Live : view'.counts[m] = semester[m].count /\ Size(m)' = Size(m)
    BY <1>2, <1>3, <1>4
  <2> QED BY <1>3, <2>1, <2>2 DEF CountedRight
<1>8. ListedRight'
  BY <1>1, <1>3, <1>5 DEF ViewInv, Between, ListedRight
<1> QED BY <1>3, <1>6, <1>7, <1>8 DEF ViewInv

LEMMA ViewReads ==
  ASSUME TypeOK, ViewInv, NEW m \in Semesters, ListSubjects(m)
  PROVE  ViewInv'
<1>1. /\ view.pc = "subjects" /\ m \in view.listed /\ m \notin view.read /\ ViewTyped
      /\ view' = [view EXCEPT !.read = @ \cup {m}, !.subjects[m] = LiveIn(m)]
      /\ UNCHANGED <<semester, subject>>
  BY DEF ListSubjects, vars, docs, ViewInv
<1>2. LiveIn(m) \in SUBSET Subjects
  BY DEF LiveIn
<1>3. /\ ViewTyped' /\ view'.pc = "subjects" /\ view'.listed = view.listed
      /\ view'.counts = view.counts /\ view'.read = view.read \cup {m}
      /\ view'.subjects = [view.subjects EXCEPT ![m] = LiveIn(m)]
      /\ view'.ever = view.ever /\ view'.steady = view.steady /\ view'.exact = view.exact
  BY <1>1, <1>2 DEF ViewTyped
<1>4. Live' = Live /\ LiveSubjects' = LiveSubjects /\ \A k \in Semesters : Size(k)' = Size(k)
  BY <1>1 DEF Live, LiveSubjects, Size, LiveIn
<1>5. Open
  BY <1>1 DEF Open, Shown
<1>6. Between' /\ Known' /\ CountedRight'
  BY <1>1, <1>3, <1>4, <1>5 DEF ViewInv, ViewTyped, Between, Known, CountedRight
<1>7. view'.subjects[m] = LiveIn(m)
  BY <1>1, <1>3 DEF ViewTyped
<1>8. SeenRight(m)'
  <2>1. \A s \in view.steady.subjects : subject[s].semester = m => s \in LiveIn(m)
    BY <1>5 DEF ViewInv, Between, LiveSubjects, LiveIn
  <2>2. \A s \in LiveIn(m) : s \in view.ever.subjects /\ subject[s].semester = m
    BY <1>5 DEF ViewInv, Between, LiveSubjects, LiveIn
  <2>3. view.exact => view.counts[m] = Cardinality(LiveIn(m))
    BY <1>1, <1>5 DEF ViewInv, CountedRight, Size
  <2> QED BY <1>1, <1>3, <1>7, <2>1, <2>2, <2>3 DEF SeenRight
<1>9. ASSUME NEW k \in view.read PROVE SeenRight(k)'
  <2>1. SeenRight(k) /\ k # m
    BY <1>1 DEF ViewInv, ListedRight
  <2>2. view'.subjects[k] = view.subjects[k]
    BY <1>3, <2>1 DEF ViewInv, ViewTyped
  <2> QED BY <1>1, <1>3, <2>1, <2>2 DEF SeenRight
<1>10. ListedRight'
  BY <1>1, <1>3, <1>8, <1>9 DEF ViewInv, ListedRight
<1> QED BY <1>3, <1>6, <1>10 DEF ViewInv

(* A subject that exists goes on to exist, in its semester.                *)
LEMMA SubjectsStay ==
  ASSUME TypeOK, [Next]_vars, NEW s \in Subjects, subject[s].status # "none"
  PROVE  subject'[s].status # "none" /\ subject'[s].semester = subject[s].semester
<1>1. CASE UNCHANGED subject
  BY <1>1
<1>2. ASSUME NEW r \in Requests, Store(r) PROVE subject'[s] = subject[s]
  <2>1. ASSUME NEW q \in Subjects, subject[q].status = "none",
               subject' = [subject EXCEPT ![q] = [status |-> "live", semester |-> req[r].semester]]
        PROVE  subject'[s] = subject[s]
    BY <2>1 DEF TypeOK
  <2> QED BY <1>2, <2>1 DEF Store, StoreSemester, StoreSubject, StoreLesson
<1>3. ASSUME NEW q, NEW status \in {"live", "deleted"},
             subject' = [subject EXCEPT ![q].status = status]
      PROVE  subject'[s].status # "none" /\ subject'[s].semester = subject[s].semester
  BY <1>3 DEF TypeOK, Subject
<1>4. ASSUME NEW r \in Requests, Retire(r) PROVE UNCHANGED subject \/
               subject' = [subject EXCEPT ![req[r].subject].status = "deleted"]
  BY <1>4 DEF Retire
<1>5. ASSUME NEW r \in Requests, WriteSubject(r)
      PROVE  subject' = [subject EXCEPT ![req[r].subject].status = "live"]
  BY <1>5 DEF WriteSubject
<1>6. ASSUME NEW r \in Requests,
             \/ WriteCourse(r) \/ WriteSemester(r)
             \/ Start(r) \/ Reads(r) \/ WriteLesson(r) \/ Publish(r) \/ Abort(r)
      PROVE  UNCHANGED subject
  BY <1>6, QuietLeaves DEF Quiet, WriteCourse, WriteSemester, docs
<1>7. [\E r \in Requests : Quiet(r) \/ Store(r) \/ Retire(r) \/ WriteCourse(r) \/ WriteSemester(r)
                           \/ WriteSubject(r)]_vars
  BY DEF Next, Quiet, Reads
<1> QED BY <1>1, <1>2, <1>3, <1>4, <1>5, <1>6, <1>7 DEF Quiet, vars, docs

(* The authors' steps: what stays and what was there are kept, ...         *)
LEMMA EditMoves ==
  ASSUME ViewTyped, Open, Edit
  PROVE  /\ ViewTyped'
         /\ view'.pc = view.pc /\ view'.listed = view.listed /\ view'.counts = view.counts
         /\ view'.subjects = view.subjects /\ view'.read = view.read
         /\ view'.ever.semesters = view.ever.semesters \cup Live'
         /\ view'.ever.subjects = view.ever.subjects \cup LiveSubjects'
         /\ view'.steady.semesters = view.steady.semesters \cap Live'
         /\ view'.steady.subjects = view.steady.subjects \cap LiveSubjects'
         /\ view'.exact = (view.exact /\ UNCHANGED docs)
<1> DEFINE ever == [semesters |-> view.ever.semesters \cup Content'.semesters,
                    subjects |-> view.ever.subjects \cup Content'.subjects]
           steady == [semesters |-> view.steady.semesters \cap Content'.semesters,
                      subjects |-> view.steady.subjects \cap Content'.subjects]
           exact == view.exact /\ UNCHANGED docs
<1>1. view' = [view EXCEPT !.ever = ever, !.steady = steady, !.exact = exact]
  BY DEF Edit
<1>2. /\ Content'.semesters = Live' /\ Content'.subjects = LiveSubjects'
      /\ Live' \subseteq Semesters /\ LiveSubjects' \subseteq Subjects
  BY DEF Content, Live, LiveSubjects
<1>3. /\ ever \in Content0 /\ steady \in Content0 /\ exact \in BOOLEAN
      /\ ever.semesters = view.ever.semesters \cup Live'
      /\ ever.subjects = view.ever.subjects \cup LiveSubjects'
      /\ steady.semesters = view.steady.semesters \cap Live'
      /\ steady.subjects = view.steady.subjects \cap LiveSubjects'
  BY <1>2 DEF ViewTyped, Content0
<1>4. exact = (view.exact /\ UNCHANGED docs)
  OBVIOUS
<1> HIDE DEF ever, steady, exact
<1> QED BY <1>1, <1>3, <1>4 DEF ViewTyped

LEMMA ViewEdits ==
  ASSUME TypeOK, ViewInv, Edit
  PROVE  ViewInv'
<1>0. Next /\ ViewTyped
  BY DEF Edit, ViewInv
<1>1. \A s \in view.ever.subjects :
        subject'[s].status # "none" /\ subject'[s].semester = subject[s].semester
  <2>1. view.ever.subjects \subseteq Subjects
    BY <1>0 DEF ViewTyped, Content0
  <2> QED BY <1>0, <2>1, SubjectsStay DEF ViewInv, Known
<1>2. CASE ~ Open
  <2>1. view' = view
    BY <1>2 DEF Edit
  <2>2. ~ Open'
    BY <1>2, <2>1 DEF Open, Shown
  <2>3. Known'
    BY <1>1, <2>1 DEF ViewInv, Known
  <2>4. ListedRight'
    <3>1. \A m \in view.read : SeenRight(m) => SeenRight(m)'
      BY <1>1, <2>1 DEF SeenRight, ViewInv, Known
    <3> QED BY <2>1, <3>1 DEF ViewInv, ListedRight
  <2>5. ViewTyped'
    BY <1>0, <2>1 DEF ViewTyped, Content0
  <2> QED BY <2>2, <2>3, <2>4, <2>5 DEF ViewInv, Between, CountedRight
<1>3. CASE Open
  <2>1. /\ ViewTyped'
        /\ view'.pc = view.pc /\ view'.listed = view.listed /\ view'.counts = view.counts
        /\ view'.subjects = view.subjects /\ view'.read = view.read
        /\ view'.ever.semesters = view.ever.semesters \cup Live'
        /\ view'.ever.subjects = view.ever.subjects \cup LiveSubjects'
        /\ view'.steady.semesters = view.steady.semesters \cap Live'
        /\ view'.steady.subjects = view.steady.subjects \cap LiveSubjects'
        /\ view'.exact = (view.exact /\ UNCHANGED docs)
    BY <1>0, <1>3, EditMoves
  <2>2. Between'
    BY <2>1 DEF Between
  <2>3. Known'
    BY <1>1, <2>1 DEF ViewInv, Known, LiveSubjects
  <2>4. ListedRight'
    <3>1. ASSUME NEW m \in view.read, SeenRight(m) PROVE SeenRight(m)'
      <4>1. \A s \in view'.steady.subjects : subject'[s].semester = m => s \in view'.subjects[m]
        BY <1>1, <2>1, <3>1 DEF SeenRight, ViewInv, Known
      <4>2. \A s \in view'.subjects[m] : s \in view'.ever.subjects /\ subject'[s].semester = m
        BY <1>1, <2>1, <3>1 DEF SeenRight
      <4>3. view'.exact => view'.counts[m] = Cardinality(view'.subjects[m])
        BY <2>1, <3>1 DEF SeenRight
      <4> QED BY <4>1, <4>2, <4>3 DEF SeenRight
    <3> QED BY <2>1, <3>1 DEF ViewInv, ListedRight
  <2>5. CountedRight'
    <3> SUFFICES ASSUME view'.exact PROVE CountedRight'
      BY DEF CountedRight
    <3>1. view.exact /\ UNCHANGED docs
      BY <2>1
    <3>2. Live' = Live /\ \A m : Size(m)' = Size(m)
      BY <3>1 DEF docs, Live, Size, LiveIn
    <3> QED BY <1>3, <2>1, <3>1, <3>2 DEF ViewInv, CountedRight, docs
  <2> QED BY <2>1, <2>2, <2>3, <2>4, <2>5 DEF ViewInv
<1> QED BY <1>2, <1>3

(* However the authors' requests overlap and die, a visitor is shown       *)
(* nothing that was not there during the visit, misses nothing that stayed,*)
(* and sees every subject under its own semester (ViewSound).              *)
THEOREM ShownIsSound == ViewSpec => []ViewSound
<1>1. [ViewNext]_all => [Next]_vars
  <2>1. View \/ UNCHANGED all => UNCHANGED vars
    <3>1. ListSemesters => UNCHANGED vars
      BY DEF ListSemesters
    <3>2. ASSUME NEW m, ListSubjects(m) PROVE UNCHANGED vars
      BY <3>2 DEF ListSubjects
    <3>3. ASSUME NEW isAdmin, OpenCourse(isAdmin) PROVE UNCHANGED vars
      BY <3>3 DEF OpenCourse
    <3>4. UNCHANGED all => UNCHANGED vars
      BY DEF all
    <3> QED BY <3>1, <3>2, <3>3, <3>4 DEF View
  <2>2. Edit => Next
    BY DEF Edit
  <2> QED BY <2>1, <2>2 DEF ViewNext
<1>2. TypeOK /\ ExactInv /\ ViewInv /\ [ViewNext]_all => ViewInv'
  <2> SUFFICES ASSUME TypeOK, ExactInv, ViewInv, [ViewNext]_all PROVE ViewInv'
    OBVIOUS
  <2>1. CASE UNCHANGED all
    <3>1. UNCHANGED <<semester, subject, view>>
      BY <2>1 DEF all, vars, docs
    <3> QED BY <3>1 DEF ViewInv, ViewTyped, Content0, Between, Known, ListedRight, CountedRight,
                        SeenRight, Open, Shown, Live, LiveSubjects, Size, LiveIn
  <2> QED BY <2>1, ViewOpens, ViewLists, ViewReads, ViewEdits DEF ViewNext, View
<1>3. ViewInv => ViewSound
  BY DEF ViewInv, ViewSound, ListedRight, SeenRight, Shown
<1>4. Init => FreshInv
  BY IdleTyped DEF Init, FreshInv, OneAtATime, CopyFresh
<1>5. ViewInit => Init
  BY DEF ViewInit
<1> QED BY <1>1, <1>2, <1>3, <1>4, <1>5, ViewStart, InitTyped, StepTyped, FreshStep, ExactInit,
           ExactStep, PTL DEF ViewSpec
============================================================================
