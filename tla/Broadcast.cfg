SPECIFICATION FairSpec
CONSTANTS
  Consumers = {1, 2, 3}
  Original = {1, 2}
  Segments = {1, 2}
  Replicas = 2
  MaxSegments = 1
  MaxProcess = 2
  MaxFaults = 1
  HolderMayFail = TRUE
  Overlap = FALSE
INVARIANTS TypeOK EverySlotReads CompleteMeansRead
PROPERTIES EventuallyReleased
