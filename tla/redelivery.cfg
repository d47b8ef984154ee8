CONSTANTS
  n1 = n1
  n2 = n2
  n3 = n3
  Nil = Nil
  None = None
  Node = {n1, n2}
  Replicas = 2
  EventChunk <- ChunkTen
  Topic <- OwnTopics
  Partition = {0}
  Records <- OneEach
  Window = 1
  Fallible = {n1}
  MaxFailures = 1
  PartitioningSafety = FALSE
  SpareId = {}
  Rejected <- NothingRejected
  Oversized = {}
  OffsetsAtStart = {0}
  Unlimited = 100
SPECIFICATION FairFailuresSpec
ACTION_CONSTRAINT NoCommit
PROPERTIES
  EventuallyEverywhere
