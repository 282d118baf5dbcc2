SPECIFICATION Spec
CONSTANTS
  Dev = {d1}
  Tcp = {}
  AutoMirrored = {d1}
  Rows = {"device"}
  Commands = {"stop", "restart"}
  Normalize = TRUE
  AutoReconnect = TRUE
  MaxAttempts = 1
  LimitRange = {1}
  PortsRunOut = FALSE
  CommandBound = 2
  FlightBound = 2
INVARIANT
  StopAlwaysKept
\* After Shutdown the program is over.
CHECK_DEADLOCK FALSE
