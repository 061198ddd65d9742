SPECIFICATION FairConsumersSpec
CONSTANTS
  Timeout = 5
  Backoff = 1
  Admins <- MCAdmins
  a = a
  b = b
  s = s
  Subject = s
  Readers <- MCReaders
  Types <- MCTypes
  Pauses <- MCPauses
  MAX_ATTEMPTS = 2
  MaxFaults = 0
  MaxReads = 0
INVARIANTS AuditReceivesAll
CHECK_DEADLOCK FALSE
