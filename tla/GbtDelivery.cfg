SPECIFICATION FairSpec
CONSTANTS
  Apdus = 4
  Total = 6
  Window = 4
  WindowMax = 3
  Modes <- SafeModes
  Capacities = {6}
  EagerAcks = FALSE
  Resets = FALSE
  LinkMax = 3
PROPERTIES ImplementsDelivery FirstDelivered AllDelivered
CHECK_DEADLOCK FALSE
