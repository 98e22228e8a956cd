SPECIFICATION FairSpec
CONSTANTS
  Partitions = {0, 1}
  AppendIDs = {a, b}
  Readers = {0, 1}
  MaxAppends = 2
  MaxReplays = 1
  MaxFaults = 1
INVARIANTS
  TypeOK
  OffsetsAreStable
  NothingPassedOver
PROPERTY EventuallyRead
CHECK_DEADLOCK FALSE
