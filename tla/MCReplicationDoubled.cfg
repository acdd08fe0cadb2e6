SPECIFICATION Spec
CONSTANTS
  k1 = k1  k2 = k2  w1 = w1  c1 = c1  c2 = c2
  Absent = Absent  Empty = Empty  Wide = Wide
  Keys = {k1}
  Words = {w1}
  Half = 4
  Half32 = 2
  Long = {}
  Node = {1, 2, 3}
  Bootstrap = 1
  Started = {1, 2, 3}
  Conns = {c1}
  Origin <- OneClient
  Requests <- OnePush
  MaxWrites = 1
  MaxFaults = 1
INVARIANT LeaderRunsOnce
CHECK_DEADLOCK FALSE
