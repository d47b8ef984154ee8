CONSTANTS
  n1 = n1
  n2 = n2
  n3 = n3
  Nil = Nil
  None = None
  Node = {n1, n2}
  Replicas = 2
  EventChunk <- ChunkTen
  Topic <- OwnTopics
  Partition = {0}
  Records <- OneByFirst
  Window = 1
  Fallible = {n2}
  MaxFailures = 0
  PartitioningSafety = FALSE
  SpareId = {}
  Rejected <- SecondRejectsFirst
  Oversized = {}
  OffsetsAtStart = {0, None}
  Unlimited = 100
SPECIFICATION FailuresSpec
VIEW PendingView
INVARIANTS
  MarkedOnlyWhenCopied
