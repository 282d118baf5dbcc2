SPECIFICATION FairSpec
CONSTANTS
  MaxConnects = 1
  MaxRestarts = 1
  MaxStarts = 1
  MaxPackets = 4
  EarlyScreenshot = FALSE
  Recorded = TRUE
INVARIANTS
  TunnelsAreTaken
  FramesReachTheScreen
  RecordingIsComplete
PROPERTIES
  EntrySpec
  CoreSettles
\* Once the starts are used up, or after a null pointer, nothing more happens.
CHECK_DEADLOCK FALSE
