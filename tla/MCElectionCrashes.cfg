SPECIFICATION Spec
CONSTANTS
  Node = {1, 2, 3, 4}
  Bootstrap = 1
  Lossy = {}
  Queueing <- AllPairs
  MaxCrashes = 2
INVARIANTS TypeOK AtMostOneLeader FollowersFollow
PROPERTY ImplementsMembership
CHECK_DEADLOCK FALSE
