SPECIFICATION Spec
CONSTANTS
  MaxMessages = 2
  MaxFaults = 0
PROPERTY
  NewsReachAsker
CHECK_DEADLOCK FALSE
