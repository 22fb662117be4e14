SPECIFICATION Spec
CONSTANTS
  NThreads = 2
  Addresses = {a}
  Mutexes = {m}
  Signals = {sg}
  MaxEpoch = 4
  MaxEpochs = 6
CHECK_DEADLOCK FALSE
INVARIANT GraphIsAcyclic
