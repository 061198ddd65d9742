-------------------------- MODULE MCCourseContent --------------------------
(* Small instances of CourseContent with a visit, CourseView. *)
EXTENDS CourseView, TLC

Symmetry == Permutations(Requests)

\* A visit overlaps with the first two requests; the authors go on alone.
EarlyVisit == begun <= 2 \/ view = Closed
============================================================================
