SPECIFICATION FairSpec
CONSTANTS
  MaxConnects = 0
  MaxRestarts = 1
  MaxStarts = 1
  MaxPackets = 2
  EarlyScreenshot = TRUE
  Recorded = FALSE
PROPERTY
  OffersReturn
\* Once the starts are used up, or after a null pointer, nothing more happens.
CHECK_DEADLOCK FALSE
