SPECIFICATION Spec
CONSTANTS
  Threads = {t1, t2}
  Pages = {p1, p2}
  Fds = {d1, d2}
  MaxMaps = 2
  MaxAccesses = 2
SYMMETRY Symmetry
CHECK_DEADLOCK FALSE
INVARIANTS TypeOK PoolIsTraced TracedIsPool LeftOutIsLogged PersistedIsDurable DurableIsPersisted
