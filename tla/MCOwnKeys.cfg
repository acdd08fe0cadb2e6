SPECIFICATION FairSpec
CONSTANTS
  k1 = k1  k2 = k2  w1 = w1  w2 = w2  c1 = c1  c2 = c2
  Absent = Absent  Empty = Empty  Wide = Wide  Torn = Torn
  Requests <- OwnKeys
  Conns = {c1, c2}
  Keys = {k1, k2}
  Words = {w1, w2}
  Half = 2
  MaxFile = 4
  DiskMayFail = FALSE
  ReadMayFail = FALSE
  TornWrites = FALSE
  Seed <- NoSeed
INVARIANT QuietKeysAreRecovered
PROPERTY ExpiredKeysGo
