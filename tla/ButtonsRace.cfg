SPECIFICATION FairSpec
CONSTANTS
  N = 2
  Pwr = 2
  DebounceCnt = 3
  Faults = TRUE
  Wake = TRUE
  MaxEdges = 3
INVARIANTS QuietMeansReported NoStuckPress
PROPERTY Settles
