SPECIFICATION FairSpec
CONSTANTS
  c1 = c1
  c2 = c2
  c3 = c3
  w1 = w1
  w2 = w2
  NoCmd = NoCmd
  Cmd = {c1, c2, c3}
  Follow <- Chain
  Tokened = {c3}
  Worker = {w1}
  CapRange = {1, 2}
  ChangeBound = 2
  CallBound = 1
INVARIANTS
  TypeOK
  PermitsConserved
  NoLostWakeup
  Accounted
PROPERTIES
  CommandsAreAnswered
  SyncCallsReturn
\* After stop() the executor is done.
CHECK_DEADLOCK FALSE
