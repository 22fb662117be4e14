SPECIFICATION ReadersSpec
CONSTANTS
  NThreads = 3
  Syncs = {s1, s2}
  kDirtyTids = 2
  JavaTids = {0}
  MaxEpoch = 2
  MaxEpochs = 4
  MaxReuse = 1
SYMMETRY SyncSymmetry
CHECK_DEADLOCK FALSE
PROPERTY ImplementsSimpleClock
