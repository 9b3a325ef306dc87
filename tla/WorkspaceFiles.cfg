CONSTANTS
  Callers = {stdio, http}
  Stdio = stdio
  Configs <- Layered
  Overrides <- Requested
  Order <- Archived_order
  Absent = Absent
  Workspaces <- Start
  Drafts <- Written
  Excludes <- Patterns
  Requests <- Collected
  Instance = "new"
  MaxCalls = 2
  MaxEdits = 1
  MaxFaults = 1
SPECIFICATION Spec
INVARIANTS TypeOK LastWordCounts PreparedMeansInjected SyncedIsCurrent ExcludedStayHome ArtifactsAreTheirOwn
PROPERTIES UpsertMerges
CHECK_DEADLOCK FALSE
