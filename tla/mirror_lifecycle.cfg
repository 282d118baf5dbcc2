SPECIFICATION Spec
CONSTANTS
  Dev = {d1}
  Tcp = {d1}
  AutoMirrored = {d1}
  Rows = {"device", "unauthorized", "other", "gone"}
  Commands = {"mirror", "stop", "restart", "reconnect", "disconnect", "connect ip", "reboot"}
  Normalize = TRUE
  AutoReconnect = TRUE
  MaxAttempts = 1
  LimitRange = {1}
  PortsRunOut = FALSE
  CommandBound = 2
  FlightBound = 2
INVARIANTS
  TypeOK
  StartsAreWatched
  SessionsAgree
  StopIsKept
PROPERTIES
  CoreSpec
  LeasesAreKept
\* After Shutdown the program is over.
CHECK_DEADLOCK FALSE
