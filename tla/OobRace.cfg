SPECIFICATION FairSpec
CONSTANTS
  None = None
  Oob = oob
  Masters = {pmc}
  Clients = {peci}
  QueueMax = 2
  Sizes = {1, 2}
  EarlyRx = FALSE
  MaxCalls = 3
  MaxInits = 1
INVARIANTS NoStrayCopy AnswerArrived
PROPERTY AsyncAnswered
CHECK_DEADLOCK FALSE
