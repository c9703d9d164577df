SPECIFICATION Spec
CONSTANTS
  Hosts = {"any"}
  Faults = TRUE
  Thermal = TRUE
  Pg3Settings = {TRUE, FALSE}
  TimeoutStraps = {TRUE, FALSE}
INVARIANTS FailedIsDark Pg3OnlyInDeep
PROPERTY FailureStops
