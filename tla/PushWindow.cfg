SPECIFICATION Spec
CONSTANTS
  Slots = 3
  CounterMax = 5
  Meters = {m1}
  Width = 5
  Reserve = 2
  LongIds = 2
INVARIANTS TypeOK NonceUsedOnce UsedAtMostOnce NoFalseReplay
