SPECIFICATION FairSpec
CONSTANTS
  Node = {1, 2, 3}
  Bootstrap = 1
  Lossy = {}
  Queueing <- AllPairs
  MaxCrashes = 1
PROPERTY Succession
CHECK_DEADLOCK FALSE
