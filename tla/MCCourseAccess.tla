--------------------------- MODULE MCCourseAccess ---------------------------
(* Small instances of CourseAccess. *)
EXTENDS CourseAccess, TLC

Symmetry == Permutations(Titles) \cup Permutations(Requests) \cup Permutations(Tasks)

\* The walk and the student's requests share nothing but the courses, which neither
\* writes: a behaviour has the one, with all the courses and two requests of admins, or
\* the other, with one request and one course fewer.
OneInterest ==
  tasks = 0 \/ (walk.pc = "idle" /\ begun <= 1 /\ course[NumCourses].state = "none")
============================================================================
