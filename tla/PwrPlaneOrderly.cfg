SPECIFICATION FairSpec
CONSTANTS
  Hosts = {"any", "patient"}
  Faults = FALSE
  Thermal = FALSE
  Pg3Settings = {TRUE, FALSE}
  TimeoutStraps = {FALSE}
PROPERTIES KeepsContract FollowsHost PwrokNeedsRsmrst
 
