SPECIFICATION FairSpec
CONSTANTS
  Clients = {"other"}
  Callers = {"therm", "other"}
  ClientCmds = {"WrPkg"}
  Tries = 2
  TjMax = 100
  MaxFaults = 1
  Temps = {33, 36, 39, 95}
  StackBytes = {0, 250}
  StackWords = {60000}
  Limits = {0, 90}
  Duties = {0, 60}
  FanOverride = FALSE
  QuietInCs = TRUE
  Gpu = TRUE
  PchPeriod = 1
  MaxHost = 2
  MaxOutside = 2
  MaxCalls = 1
INVARIANTS FanSettles ToldCurrent
PROPERTIES ShutdownJustified HotShutsDown
CHECK_DEADLOCK FALSE
