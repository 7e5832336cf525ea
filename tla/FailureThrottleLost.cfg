SPECIFICATION FairSpec
CONSTANTS
  Attempts = {p1, p2, p3}
  Limit = 2
  MaxFaults = 2
PROPERTIES
  BlockEnds
CHECK_DEADLOCK FALSE
