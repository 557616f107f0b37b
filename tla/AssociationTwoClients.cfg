SPECIFICATION Spec
CHECK_DEADLOCK FALSE
CONSTANTS
  Slots = 4
  CounterMax = 3
  Clients <- TwoClients
  Width = 0
  Settings <- TakingTurns
INVARIANT AtMostOnce
