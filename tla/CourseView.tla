----------------------------- MODULE CourseView -----------------------------
(***************************************************************************)
(* Somebody opens a course while its authors change it: the course, its    *)
(* semesters and the subjects of each are read one after the other, those  *)
(* of the semesters in no particular order, and put together for display.  *)
(***************************************************************************)
EXTENDS CourseContent

VARIABLE view     \* the visit: its await, what it has read, and a history

all == <<vars, view>>

\* What there is at one instant.
Content == [semesters |-> Live, subjects |-> {s \in Subjects : subject[s].status = "live"}]

Closed == [pc |-> "closed", listed |-> {}, counts |-> [m \in Semesters |-> 0],
           subjects |-> [m \in Semesters |-> {}], read |-> {},
           ever |-> [semesters |-> {}, subjects |-> {}], steady |-> [semesters |-> {}, subjects |-> {}],
           exact |-> FALSE]

ViewInit == Init /\ view = Closed

Shown == view.pc = "subjects" /\ view.read = view.listed
Open == view.pc # "closed" /\ ~ Shown

\* findById and the two refusals; a visitor who is no admin sees published courses only.
OpenCourse(isAdmin) ==
  /\ view.pc = "closed"
  /\ ~ course.deleted /\ (isAdmin \/ course.state = "published")
  /\ view' = [Closed EXCEPT !.pc = "semesters", !.ever = Content, !.steady = Content,
                            !.exact = alone /\ AllIdle /\ aborts = 0]
  /\ UNCHANGED vars

\* findByCourseId; each semester with the subjectCount it has now.
ListSemesters ==
  /\ view.pc = "semesters"
  /\ view' = [view EXCEPT !.pc = "subjects", !.listed = Live,
                          !.counts = [m \in Semesters |-> semester[m].count]]
  /\ UNCHANGED vars

\* Mutant: the subjects are not filtered.
ListSubjectsAll(m) ==
  /\ view.pc = "subjects" /\ m \in view.listed \ view.read
  /\ view' = [view EXCEPT !.read = @ \cup {m}, !.subjects[m] = MadeIn(m)]
  /\ UNCHANGED vars

\* findBySemesterId, all at once in Promise.all.
ListSubjects(m) ==
  /\ view.pc = "subjects" /\ m \in view.listed \ view.read
  /\ view' = [view EXCEPT !.read = @ \cup {m}, !.subjects[m] = LiveIn(m)]
  /\ UNCHANGED vars

View == ListSemesters \/ (\E m \in Semesters : ListSubjects(m)) \/ (\E isAdmin \in BOOLEAN : OpenCourse(isAdmin))

\* The authors go on; the history keeps what there was at any time, and at all times.
Edit ==
  /\ Next
  /\ view' = IF ~ Open THEN view
             ELSE [view EXCEPT
                     !.ever = [semesters |-> @.semesters \cup Content'.semesters, subjects |-> @.subjects \cup Content'.subjects],
                     !.steady = [semesters |-> @.semesters \cap Content'.semesters, subjects |-> @.subjects \cap Content'.subjects],
                     !.exact = @ /\ UNCHANGED docs]

ViewNext == View \/ Edit

ViewSpec == ViewInit /\ [][ViewNext]_all
----------------------------------------------------------------------------
(* What is shown is the content of the time between opening the course and *)
(* the answer, though no two reads are of one instant: nothing that stayed *)
(* is missing, nothing is shown that was gone before, each subject is under*)
(* its semester, and if no request was open at first, none has overlapped  *)
(* or died before, and nothing changed meanwhile, the counts shown are     *)
(* those of the subjects shown (GetCourseUseCase.ts 46-87).                *)
ViewSound ==
  Shown =>
    /\ view.steady.semesters \subseteq view.listed /\ view.listed \subseteq view.ever.semesters
    /\ \A m \in view.listed :
         /\ \A s \in view.steady.subjects : subject[s].semester = m => s \in view.subjects[m]
         /\ \A s \in view.subjects[m] : s \in view.ever.subjects /\ subject[s].semester = m
         /\ view.exact => view.counts[m] = Cardinality(view.subjects[m])
============================================================================
