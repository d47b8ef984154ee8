CONSTANTS
  n1 = n1
  n2 = n2
  n3 = n3
  Nil = Nil
  Node = {n1, n2}
  Replicas = 2
  EventChunk <- ChunkOneAndTwo
  Topic <- OwnTopics
  Partition = {0}
  Records <- OneEach
  Window = 2
SPECIFICATION FairSpec
INVARIANTS
  SafetyInvariant
PROPERTIES
  EventuallyEverywhere
  ListsDrain
  KeepsTheFairPromise
