SPECIFICATION ViewSpec
CONSTANTS
  Semesters = {m1, m2}
  Subjects = {s1, s2}
  Lessons = {l1}
  Requests = {r1, r2}
  MaxRequests = 4
  MaxAborts = 1
INVARIANTS CountsExact NeverOverCounted ViewSound
PROPERTIES PublishedHasContent ContentStands
SYMMETRY Symmetry
CONSTRAINT EarlyVisit
CHECK_DEADLOCK FALSE
