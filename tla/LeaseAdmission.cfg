CONSTANTS
  Instances = {i1, i2, i3}
  NoInst = NoInst
  Callers = {stdio, http}
  MaxInstances = 1
  MaxTTL = 1
  Tools = {"create", "extend", "list"}
  Faults = {}
  Availability = {TRUE}
  Horizon = 1
  MaxRestarts = 1
SYMMETRY Symmetry
SPECIFICATION Spec
CHECK_DEADLOCK FALSE
INVARIANTS TypeOK NoUntrackedVM OvershootBound AdmissionBound
PROPERTIES AdmissionSpec StatusMovesForward
