SPECIFICATION FairBatchSpec
CONSTANTS
  j1 = j1
  j2 = j2
  d1 = d1
  d2 = d2
  Job <- TwoJobs
  Dev <- TwoPhones
  Orders <- Mix
  MaxJobs = 1
  JobCommands = 2
INVARIANTS
  ItemsAreOut
  RecordingIsExclusive
PROPERTIES
  JobsArePools
  JobsEnd
\* Once the jobs have ended and the commands are used up, nothing more happens.
CHECK_DEADLOCK FALSE
