SPECIFICATION Spec
CONSTANTS
  Apdus = 1
  Total = 4
  Window = 3
  WindowMax = 2
  Modes <- StreamingLossy
  Capacities = {3, 4}
  EagerAcks = TRUE
  Resets = TRUE
  LinkMax = 3
INVARIANTS TypeOK TakenIntact DoneIsDelivered
PROPERTIES AckedNeverFalls
CHECK_DEADLOCK FALSE
