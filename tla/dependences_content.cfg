SPECIFICATION Spec
CONSTANTS
  Threads = {t1}
  Cells = {"x", "y"}
  LineOf <- MCLineOf
  Life = 2
  Capacity = 2
  MaxEvents = 4
  MaxLabels = 5
CHECK_DEADLOCK FALSE
PROPERTY ContentsAreReported
