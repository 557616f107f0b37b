SPECIFICATION Spec
CONSTANTS
  Units <- SerialUnits
  Noise <- SerialNoise
  MaxApdu = 3
  Samples <- Messages
  Damage = {0, 2, 129}
  DamageWithin = 20
  Alphabet = {0, 1, 2, 3, 4, 9, 17, 19, 129}
  MaxFree <- Growth
  MaxPieces = 3
  MaxDepth = 4
  MaxNodes = 8
INVARIANTS NothingLost BufferBounded RoundTrips WalksAgree
PROPERTIES Settled
CHECK_DEADLOCK FALSE
