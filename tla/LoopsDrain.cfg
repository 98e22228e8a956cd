SPECIFICATION Spec
CONSTANTS
  Topologies <- Followed
  Partitions = {0}
  MaxFaults = 0
INVARIANT DrainIsLast
