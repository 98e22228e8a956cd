CONSTANTS
  Inputs = {i1}
  MaxFaults = 2
SPECIFICATION FairSpec
INVARIANTS TypeOK AckedIsKept
PROPERTIES Implements EventuallyComplete
CHECK_DEADLOCK FALSE
