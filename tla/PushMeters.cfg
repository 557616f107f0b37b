SPECIFICATION Spec
CONSTANTS
  Slots = 2
  CounterMax = 2
  Meters = {m1, m2}
  Width = 1
  Reserve = 1
  LongIds = 1
INVARIANTS Authentic NoLockOut
