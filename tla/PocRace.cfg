SPECIFICATION FairSpec
CONSTANTS
  BufSize = 4
  Tries = 2
  Cmds = {"read", "write", "query"}
  Data = {"write"}
  Sent = {"sus", "host_rst"}
  MaxEvents = 4
  MaxReqs = 2
  MaxStray = 2
  MaxWork = 4
INVARIANTS WarningsAnswered OwnParameters
PROPERTIES FollowsSignals RequestsAnswered
CHECK_DEADLOCK FALSE
