SPECIFICATION Spec
CONSTANTS
  Subjects = {s1, s2}
  Requests = {r1, r2}
  MaxTime = 2
  MaxRequests = 3
  MaxAborts = 1
INVARIANTS CompletedDated EventsBacked 
PROPERTIES CompletionStands
SYMMETRY Symmetry
CHECK_DEADLOCK FALSE
