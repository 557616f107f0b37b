SPECIFICATION FairSpec
CHECK_DEADLOCK FALSE
CONSTANTS
  a = a  b = b  m = m
  Objects <- TwoObjects
  Methods <- OneMethod
  Lists <- OneList
  Writable = {a}
  Sizes = {1, 2}
  Buffer = 3
  BlocksAgreed = {TRUE, FALSE}
  IdMod = 2
  Requests = 2
  Updates = 1
  Duplicating = FALSE
  Callers <- BothCallers
INVARIANTS TypeOK PerformedAsAsked ReadIntact AnswersMatch
PROPERTY Answered
