CONSTANTS
  N = 2
  MaxFaults = 1
  LapsesAt = {"publish"}
SPECIFICATION Spec
INVARIANTS SucceededMeansProcessed
CHECK_DEADLOCK FALSE
