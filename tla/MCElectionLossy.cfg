SPECIFICATION Spec
CONSTANTS
  Node = {1, 2, 3}
  Bootstrap = 1
  Lossy <- OneWay
  Queueing <- AllPairs
  MaxCrashes = 0
INVARIANT AtMostOneLeader
CHECK_DEADLOCK FALSE
