SPECIFICATION FairSpec
CONSTANTS
  Producers = {11}
  Consumers = {1, 2}
  Segments = {"a", "b"}
  PartOf <- MCPartOf
  ProducerOf <- MCProducerOf
  N = 2
  Durable = {"b"}
  MaxIncarnation = 2
  MaxSegments = 2
  MaxFaults = 2
  Hash = FALSE
  Materialized = TRUE
  Retained = FALSE
  DelayedHeartbeat = FALSE
  LostAnswers = FALSE
INVARIANTS OneReaderPerPartition
PROPERTIES EventuallySettled
