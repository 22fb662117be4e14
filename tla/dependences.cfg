SPECIFICATION Spec
CONSTANTS
  Threads = {t1, t2}
  Cells = {"x", "y"}
  LineOf <- MCLineOf
  Life = 2
  Capacity = 2
  MaxEvents = 5
  MaxLabels = 6
SYMMETRY ThreadSymmetry
CHECK_DEADLOCK FALSE
INVARIANTS NewestReadIsPending LivesDiffer NoLabelIsLost PdgAssertionsHold
PROPERTY AddressesAreReported
