CONSTANTS
  Transports = {stdio}
  Sweeper = sweeper
  MaxFaults = 1
  MaxCrashes = 1
SPECIFICATION FairSpec
CHECK_DEADLOCK FALSE
INVARIANTS TypeOK StartedIsConfigured DestroyedCannotRun
PROPERTIES BackendSpec DestroyCompletes
