SPECIFICATION FairSpec
CONSTANTS
  BufSize = 3
  QueueSize = 1
  GetLen = 2
  Cmds = {"get"}
  MaxTxn = 2
  MaxEvents = 0
  MaxFaults = 0
  MaxOutside = 2
PROPERTY RequestsAnswered
CHECK_DEADLOCK FALSE
