SPECIFICATION FairSpec
CONSTANTS
  BufSize = 3
  QueueSize = 1
  GetLen = 2
  Cmds = {"read", "get", "burst", "enable", "disable"}
  MaxTxn = 2
  MaxEvents = 2
  MaxFaults = 1
  MaxOutside = 2
INVARIANTS AnswersMatch OwnParameters EventsKept
PROPERTIES EventsServed OrderlyAnswered
CHECK_DEADLOCK FALSE
