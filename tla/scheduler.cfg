SPECIFICATION SchedulerSpec
CONSTANTS
  r1 = r1
  r2 = r2
  d1 = d1
  Run <- TwoRuns
  Dev <- OnePhone
  TargetLists <- OneList
  Widths = {1}
  Threads = 1
  MaxKept = 1
  CommandBound = 1
  Schedules <- Mixed
  Plan <- MixedPlan
  Late = 1
  Cooldown = 2
  Horizon = 4
  Restarts = 1
PROPERTIES
  OccurrencesAreServedOnce
  IntervalsAreKept
  OverlapsAreStopping
\* The clock stops at the horizon.
CHECK_DEADLOCK FALSE
