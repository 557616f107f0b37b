SPECIFICATION FairSpec
CHECK_DEADLOCK FALSE
CONSTANTS
  Slots = 4
  CounterMax = 6
  Clients <- TwoClients
  Width = 1
  Settings <- UsualSettings
INVARIANTS TypeOK NonceUsedOnce AtMostOnce ProvenBeforeUse MutualAuthentication
PROPERTIES Opens Served
