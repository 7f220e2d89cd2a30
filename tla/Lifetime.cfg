SPECIFICATION FairSpec
CONSTANTS
  Keys = {k1}
  Links = {l1}
  Main = main
  Segments = {s1, s2}
  Slots = {i1, i2}
  Contents = {c1, c2, c3}
  Plain = plain
  None = none
  Threshold = 2
  MaxUpdates = 2
  MaxPins = 1
INVARIANTS TypeOK NoForeignBytes PoolPartition NoLostWait RelocationsAreBounded
PROPERTIES WorkersFollow RetiredIsFreed
CHECK_DEADLOCK FALSE
