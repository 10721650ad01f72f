SPECIFICATION SlimeSpec
CONSTANTS
  Seeds = 2
  MaxPoolSize = 3
  Threshold = 2
  Want = 2
  Batch = 2
  MaxQueue = 1
  MaxInbox = 1
  IndexLimit = 3
  MaxIds = 8
  MaxFiles = 1
INVARIANT Filed
PROPERTY NeverDry
CHECK_DEADLOCK FALSE
