CONSTANTS
  Services = {mysql, redis}
  Apps = {a1, a2}
  None = None
  Callers = {stdio, http}
  InstallIfMissing = {TRUE, FALSE}
  EnsureNetwork = {TRUE, FALSE}
  MaxFaults = 1
  MaxStops = 1
SYMMETRY Symmetry
SPECIFICATION Spec
INVARIANTS TypeOK PreparedMeansRunning BridgedMeansJoined
