SPECIFICATION Spec
CONSTANTS
  Producers = {11}
  Consumers = {1, 2}
  Segments = {"a", "c"}
  PartOf <- MCPartOf
  ProducerOf <- MCProducerOf
  N = 2
  Durable = {}
  MaxIncarnation = 2
  MaxSegments = 2
  MaxFaults = 2
  Hash = TRUE
  Materialized = FALSE
  Retained = FALSE
  DelayedHeartbeat = TRUE
  LostAnswers = TRUE
INVARIANTS TypeOK Conserved Fenced Affinity DeletedUnneeded LossIsReal DrainedIsFinal OneReaderPerPartition SharesAreEven
PROPERTIES PinnedStays SettledStays
