SPECIFICATION Spec
CONSTANTS
  NThreads = 4
  Threads <- MCThreads
  MaxThreads = 3
  QuarantineSize = 1
  MaxReuse = 2
  Handles = {1, 2}
CHECK_DEADLOCK FALSE
INVARIANTS NeverDies NumbersAreUnique HandleFindsItsThread StartHearsCreator JoinHearsThread RegistryIsConsistent
PROPERTIES CreateEnds JoinEnds
