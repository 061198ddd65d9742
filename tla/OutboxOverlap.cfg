SPECIFICATION FairSpec
CONSTANTS
  approved = approved
  withdrawn = withdrawn
  unknown = unknown
  Events = {approved}
  TypeOf <- MCTypeOf
  Times = {1}
  Workers = {"w1", "w2"}
  MaxOverlap = 1
  BatchSize = 2
  MAX_ATTEMPTS = 3
  MaxCrashes = 1
  MaxStoreFaults = 1
INVARIANTS DeliveredToAll InRouteOrder FailedOnlyAfterMaxTries NoStrandingWithoutFault
PROPERTIES ComesToRest
CHECK_DEADLOCK FALSE
