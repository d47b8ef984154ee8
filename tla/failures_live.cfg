CONSTANTS
  n1 = n1
  n2 = n2
  n3 = n3
  Nil = Nil
  None = None
  Node = {n1, n2}
  Replicas = 2
  EventChunk <- ChunkOneAndTwo
  Topic <- OwnTopics
  Partition = {0}
  Records <- TwoByFirst
  Window = 1
  Fallible = {n2}
  MaxFailures = 1
  PartitioningSafety = FALSE
  SpareId = {}
  Rejected <- NothingRejected
  Oversized = {}
  OffsetsAtStart = {0, None}
  Unlimited = 100
SPECIFICATION FairFailuresSpec
INVARIANTS
  FailuresInvariant
PROPERTIES
  KeepsTheFairWeakPromise
  ListsDrain
