CONSTANTS
  Services = {mysql, redis}
  Apps = {a1}
  None = None
  Callers = {stdio}
  InstallIfMissing = {TRUE}
  EnsureNetwork = {TRUE}
  MaxFaults = 2
  MaxStops = 1
SPECIFICATION FairSpec
PROPERTIES RetryCompletes
