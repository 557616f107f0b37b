SPECIFICATION FairSpec
CHECK_DEADLOCK FALSE
CONSTANTS
  a = a  d = d  m = m  u = u
  Batches <- AllBatches
  Denied = {d}
  Unknown = {u}
  Sizes = {1, 4}
  Buffer = 8
  Pdu = 4
  Fragment = 3
  MaxItems = 2
  Agreements = {TRUE, FALSE}
  IdMod = 2
  Requests = 2
  Callers <- SafeCallers
INVARIANTS TypeOK EachItsOwn RefusedUntouched
PROPERTIES Answered
