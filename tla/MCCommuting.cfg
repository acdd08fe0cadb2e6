SPECIFICATION Spec
CONSTANTS
  k1 = k1  k2 = k2  w1 = w1  w2 = w2  c1 = c1  c2 = c2
  Absent = Absent  Empty = Empty  Wide = Wide  Torn = Torn
  Requests <- Commuting
  Conns = {c1, c2}
  Keys = {k1}
  Words = {w1, w2}
  Half = 4
  MaxFile = 4
  DiskMayFail = TRUE
  ReadMayFail = FALSE
  TornWrites = FALSE
  Seed <- CounterSeed
INVARIANT NothingLostOrDoubled
SYMMETRY ConnSymmetry
