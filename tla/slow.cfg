SPECIFICATION Spec
CONSTANTS
  Threads <- MCThreads3
  Lines <- MCLines
  Words <- MCWords
  LineOf <- MCLineOf
  Inputs <- MCInputs
  Suite = "slow"
INVARIANTS
  NoMissedRace
PROPERTY ImplementsRaceSpec
