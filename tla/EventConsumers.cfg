SPECIFICATION FairConsumersSpec
CONSTANTS
  Timeout = 5
  Backoff = 1
  Admins <- MCAdmins
  a = a
  b = b
  s = s
  Subject = s
  Readers <- MCReaders
  Types <- MCTypes
  Pauses <- MCPauses
  MAX_ATTEMPTS = 2
  MaxFaults = 1
  MaxReads = 1
INVARIANTS NeverTwoAtOnce 
PROPERTIES CallsAsSpecified  EventSettles
CHECK_DEADLOCK FALSE
