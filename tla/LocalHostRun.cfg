\* Two callers, one detachable worker, two executions, two host calls in all.
CONSTANTS
  Callers = {c1, c2}
  Workers = {w1}
  Nobody = Nobody
  Detached = TRUE
  MaxRuns = 2
  MaxCalls = 2
SPECIFICATION FairSpec
INVARIANTS
  TypeOK
  NothingInstalledBetweenRuns
  MainCallsAnsweredByOwnRun
  NoCallReachesEarlierRun
  MainOutputsCaptured
PROPERTY
  EveryRunReturns
\* the callers stop when MaxRuns executions have been built
CHECK_DEADLOCK FALSE
