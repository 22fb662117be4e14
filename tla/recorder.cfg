SPECIFICATION Spec
CONSTANTS
  NThreads = 3
  Addresses = {a}
  Mutexes = {m}
  Signals = {sg}
  MaxEpoch = 3
  MaxEpochs = 7
CHECK_DEADLOCK FALSE
INVARIANTS EdgeEndsAreNodes UnmixedIsAcyclic GraphIsComplete GraphIsSound TraceIsAsAssumed
PROPERTY EdgesEndNow
