CONSTANTS
  Tasks = {t1}
  NoTask = NoTask
  Callers = {stdio, http}
  Stdio = stdio
  Deaths = TRUE
  PidReuse = TRUE
  MaxRestarts = 2
SPECIFICATION FairSpec
CHECK_DEADLOCK FALSE
INVARIANTS TypeOK RunnerMatchesRow OutcomeAfterCommand NonzeroCodeIsTrue RowConsistent
PROPERTIES FinishedStaysFinished TaskIsResolved
