CONSTANTS
  Instances = {i1}
  NoInst = NoInst
  Callers = {stdio}
  MaxInstances = 1
  MaxTTL = 1
  Tools = {"create", "list"}
  Faults = {}
  Availability = {TRUE}
  Horizon = 1
  MaxRestarts = 0
SPECIFICATION FairCallSpec
CHECK_DEADLOCK FALSE
PROPERTIES ExpiredVmIsDeleted
