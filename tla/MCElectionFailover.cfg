SPECIFICATION FairSpec
CONSTANTS
  Node = {1, 2, 3}
  Bootstrap = 1
  Lossy <- OneWay
  Queueing <- AllPairs
  MaxCrashes = 2
PROPERTIES Failover VotesReturn DeadNodesLeave
CHECK_DEADLOCK FALSE
