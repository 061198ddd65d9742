SPECIFICATION CountersSpec
CONSTANTS
  Calls = {r1, r2, r3, r4}
  LOCKOUT_THRESHOLD = 2
  WINDOW = 2
  MAX_ATTEMPTS = 2
  OTP_TTL = 1
  MaxNow = 3
  MaxBreaks = 1
INVARIANTS NeverOvercounted AloneCounted CodesStand
SYMMETRY Symmetry
CHECK_DEADLOCK FALSE
