SPECIFICATION FairSpec
CONSTANTS
  Dev = {d1, d2, d3}
  Tcp = {}
  AutoMirrored = {d1, d2, d3}
  Rows = {"device"}
  Commands = {"stop", "restart", "limit"}
  Normalize = FALSE
  AutoReconnect = FALSE
  MaxAttempts = 0
  LimitRange = {1, 2}
  PortsRunOut = TRUE
  CommandBound = 2
  FlightBound = 2
PROPERTIES
  SlotsSpec
  StartsEnd
  QueueDrains
\* After Shutdown the program is over.
CHECK_DEADLOCK FALSE
