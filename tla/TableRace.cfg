SPECIFICATION FairSpec
CONSTANTS
  Duties = {0, 50}
  PlnTimes = {1, 3}
  MaxCmds = 2
  MaxWrites = 3
  MaxEvents = 4
INVARIANTS CommandsRunOnce NoFalseNotice
PROPERTIES NoticeGiven BacklightFollows
CHECK_DEADLOCK FALSE
