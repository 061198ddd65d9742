SPECIFICATION Spec
CONSTANTS
  Requests = {r1, r2, r3}
  Legacy = old
  MaxFaults = 1
INVARIANTS WinnerKept NoBareAccount RolesAgree
PROPERTIES MigrationKeeps
SYMMETRY Symmetry
CHECK_DEADLOCK FALSE
