SPECIFICATION FairSpec
CONSTANTS
  approved = approved
  withdrawn = withdrawn
  unknown = unknown
  Events = {approved, withdrawn, unknown}
  TypeOf <- MCTypeOf
  Times = {1, 2}
  Workers = {"w1"}
  MaxOverlap = 1
  BatchSize = 2
  MAX_ATTEMPTS = 2
  MaxCrashes = 1
  MaxStoreFaults = 1
INVARIANTS AtMostMaxAttempts
PROPERTIES DeliversEachEvent SettlesEachEvent
CHECK_DEADLOCK FALSE
