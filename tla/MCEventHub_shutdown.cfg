SPECIFICATION HubSpec
CONSTANTS
  Posts = {q1, q2}
  Streams = {s1}
  Capacity = 1
  WireSize = 1
SYMMETRY Symmetry
PROPERTIES
  OnlyStalledDelayShutdown
CHECK_DEADLOCK FALSE
