SPECIFICATION PageFairSpec
CONSTANTS
  MaxLinks = 2
INVARIANTS StillPolling
PROPERTIES PageSettles PollingEnds
CHECK_DEADLOCK FALSE
