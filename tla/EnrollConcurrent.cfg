SPECIFICATION Spec
CONSTANTS
  Requests = {r1, r2}
  Cooloff = 2
  MaxTime = 4
  MaxRequests = 4
  MaxAborts = 1
INVARIANTS NoPhantomEvents RejectedIffDated LastEventIsState
PROPERTIES AloneFollowsLifecycle
SYMMETRY Symmetry
CHECK_DEADLOCK FALSE
