CONSTANTS
  Instances = {i1, i2}
  NoInst = NoInst
  Callers = {stdio}
  MaxInstances = 1
  MaxTTL = 2
  Tools <- AllTools
  Faults <- AllFaults
  Availability = {TRUE, FALSE}
  Horizon = 2
  MaxRestarts = 1
SPECIFICATION FairSpec
CHECK_DEADLOCK FALSE
INVARIANTS OvershootBound DestroyedLeaseHasNoVM
PROPERTIES ExpiryNeverShrinks OverdueLeaseIsSwept
