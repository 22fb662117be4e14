SPECIFICATION Spec
CONSTANTS
  Threads <- MCThreads3
  Lines <- MCLines
  Words <- MCWords
  LineOf <- MCLineOf
  Inputs <- MCInputs
  Suite = "fast"
INVARIANTS
  TypeOK
  ChainsCanBeEntered
  EpochsAdvance
  PersistedIsWitnessed
  HappensAfterIsWitnessed
  NoMissedRace
  PersistedIsRelayed
PROPERTY ImplementsRaceSpec
