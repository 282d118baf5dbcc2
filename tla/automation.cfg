SPECIFICATION FairSpec
CONSTANTS
  r1 = r1
  r2 = r2
  d1 = d1
  d2 = d2
  Run <- TwoRuns
  Dev <- TwoPhones
  TargetLists <- OneList
  Widths = {1}
  Threads = 2
  MaxKept = 1
  CommandBound = 3
INVARIANTS
  WorkersKeepTheirRun
  WorkersAreCounted
PROPERTIES
  RunsArePools
  StopReachesWorkers
  RunsEnd
\* After Shutdown, or with the commands used up and the runs over, nothing more happens.
CHECK_DEADLOCK FALSE
