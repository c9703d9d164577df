SPECIFICATION FairSpec
CONSTANTS
  Modes = {0, 1, 4}
  Polls = 2
  MaxSleeps = 2
  MaxUpdates = 2
  MaxFaults = 1
INVARIANTS NoResetWhileUp ModeKept
PROPERTY Resumes
CHECK_DEADLOCK FALSE
