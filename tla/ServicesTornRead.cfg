SPECIFICATION Spec
CHECK_DEADLOCK FALSE
CONSTANTS
  a = a  b = b  m = m
  Objects <- TwoObjects
  Methods <- NoMethod
  Lists <- NoList
  Writable = {}
  Sizes = {2}
  Buffer = 2
  BlocksAgreed = {TRUE}
  IdMod = 16
  Requests = 2
  Updates = 0
  Duplicating = FALSE
  Callers <- Interrupting
INVARIANT ReadIntact
