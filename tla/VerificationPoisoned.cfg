SPECIFICATION Spec
CONSTANTS
  EarlyAsk = FALSE
  MaxMain = 3
  MaxPosts = 1
  MaxTries = 3
PROPERTIES MarkedReadable
CHECK_DEADLOCK FALSE
