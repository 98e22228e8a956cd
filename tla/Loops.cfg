SPECIFICATION FairSpec
CONSTANTS
  Topologies <- OneLoopEach
  Partitions = {0}
  MaxFaults = 1
INVARIANTS
  TypeOK
  EpochEndIsLast
  OneEpochAtATime
PROPERTIES
  SealedLoopIsFinished
  LoopEnds
