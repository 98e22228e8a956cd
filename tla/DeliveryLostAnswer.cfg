SPECIFICATION FairSpec
CONSTANTS
  Producers = {11}
  Consumers = {1, 2}
  Segments = {"a", "b"}
  PartOf <- MCPartOf
  ProducerOf <- MCProducerOf
  N = 2
  Durable = {}
  MaxIncarnation = 2
  MaxSegments = 1
  MaxFaults = 1
  Hash = TRUE
  Materialized = FALSE
  Retained = FALSE
  DelayedHeartbeat = FALSE
  LostAnswers = TRUE
PROPERTIES EventuallySettled
