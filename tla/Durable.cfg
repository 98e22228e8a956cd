SPECIFICATION Spec
CONSTANTS
  Procs = {1, 2}
  WriterOf <- MCWriterOf
  Batches = {"b1"}
  GroupsOf <- MCGroupsOf
  WorkerSegments = {"w"}
  MaxGeneration = 4
  MaxId = 3
  MaxErrors = 2
  Readers = TRUE
INVARIANTS AnsweredDurable BytesBehindMetadata
PROPERTIES HistoryGrows HealthyReadsDurable FencedStays
CHECK_DEADLOCK FALSE
