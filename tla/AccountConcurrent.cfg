SPECIFICATION Spec
CONSTANTS
  Tasks = {t1, t2}
  MaxTasks = 3
  MaxDeliveries = 1
  MaxFaults = 1
INVARIANTS RegistrationBacked StoresAgree
PROPERTIES DecisionsStand
SYMMETRY Symmetry
CHECK_DEADLOCK FALSE
