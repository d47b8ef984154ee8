CONSTANTS
  n1 = n1
  n2 = n2
  n3 = n3
  Nil = Nil
  None = None
  Node = {n1, n2, n3}
  Replicas = 3
  EventChunk <- ChunkZeroLast
  Topic <- OwnTopics
  Partition = {0}
  Records <- TwoByFirst
  Window = 2
  Fallible = {n1, n2, n3}
  MaxFailures = 1
  PartitioningSafety = TRUE
  SpareId = {s1}
  Rejected <- SecondRejectsLast
  Oversized <- FirstRecord
  OffsetsAtStart = {0, None}
  Unlimited = 100
SPECIFICATION FailuresSpec
ACTION_CONSTRAINT NoCommit
VIEW PendingView
INVARIANTS
  ReplicasAgree
  EmptyMeansNothingNew
