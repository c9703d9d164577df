SPECIFICATION PostFairSpec
CONSTANTS
  Codes = {0, 1}
  Errors = {1}
  Tries = 2
  MaxCodes = 3
  MaxErrors = 2
  MaxFails = 3
INVARIANT NothingStranded
CHECK_DEADLOCK FALSE
