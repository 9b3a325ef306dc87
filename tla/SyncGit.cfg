CONSTANTS
  Callers = {stdio}
  Stdio = stdio
  Configs <- Layered
  Overrides <- Requested
  Order <- Archived_order
  Absent = Absent
  Workspaces <- Start
  Drafts <- Written
  Excludes <- Patterns
  Requests <- Collected
  Instance = "new"
  MaxCalls = 1
  MaxEdits = 0
  MaxFaults = 0
SPECIFICATION Spec
INVARIANTS GitStaysHome
CHECK_DEADLOCK FALSE
