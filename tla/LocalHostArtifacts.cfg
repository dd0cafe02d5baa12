\* Two callers, one worker that its run function waits for, two executions.
CONSTANTS
  Callers = {c1, c2}
  Workers = {w1}
  Nobody = Nobody
  Detached = FALSE
  MaxRuns = 2
  MaxCalls = 5
  Executions <- MCExecutions
  Keys <- MCKeys
  Chunks <- MCChunks
  Torn = Torn
  NoStream = NoStream
  NoFile = NoFile
  NoSHA = NoSHA
  MaxOpenStreams = 2
  ShortWrites = FALSE
  MaxOpens = 2
  MaxBody = 1
SPECIFICATION CSpec
INVARIANTS
  NothingLeftBehind
  NothingCrossesRuns
\* the callers stop when MaxRuns executions have been built
CHECK_DEADLOCK FALSE
