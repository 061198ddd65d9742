SPECIFICATION FairSpec
CONSTANTS
  approved = approved
  withdrawn = withdrawn
  unknown = unknown
  Events = {approved}
  TypeOf <- MCTypeOf
  Times = {1}
  Workers = {"w1"}
  MaxOverlap = 1
  BatchSize = 20
  MAX_ATTEMPTS = 5
  MaxCrashes = 1
  MaxStoreFaults = 0
PROPERTIES NoEventLost
CHECK_DEADLOCK FALSE
