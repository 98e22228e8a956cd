CONSTANTS
  N = 2
  MaxFaults = 1
  LapsesAt = {"report", "idle"}
SPECIFICATION FairSpec
INVARIANTS TypeOK SucceededMeansProcessed ReadableWhileNeeded NoSelfInflictedLoss
PROPERTIES EventuallyFinished
CHECK_DEADLOCK FALSE
