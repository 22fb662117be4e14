SPECIFICATION Spec
CONSTANTS
  NThreads = 2
  Syncs = {s1, s2}
  kDirtyTids = 1
  JavaTids = {0}
  MaxEpoch = 2
  MaxEpochs = 4
  MaxReuse = 2
SYMMETRY SyncSymmetry
CHECK_DEADLOCK FALSE
INVARIANTS TypeOK ReferencesCounted AcquireMissesNothing
PROPERTY ImplementsSimpleClock
