CONSTANTS
  Instances = {i1, i2}
  NoInst = NoInst
  Callers = {stdio}
  MaxInstances = 1
  MaxTTL = 1
  Tools = {"create", "extend"}
  Faults = {}
  Availability = {TRUE}
  Horizon = 1
  MaxRestarts = 0
SYMMETRY Symmetry
SPECIFICATION Spec
CHECK_DEADLOCK FALSE
PROPERTIES SweepSparesLiveLeases
