CONSTANTS
  n1 = n1
  n2 = n2
  n3 = n3
  Nil = Nil
  None = None
  Node = {n1, n2}
  Replicas = 2
  EventChunk <- ChunkOneAndTwo
  Topic <- OwnTopics
  Partition = {0}
  Records <- TwoByFirst
  Window = 2
  Fallible = {n2}
  MaxFailures = 2
  PartitioningSafety = FALSE
  SpareId = {}
  Rejected <- NothingRejected
  Oversized = {}
  OffsetsAtStart = {0, None}
  Unlimited = 100
SPECIFICATION FailuresSpec
VIEW PendingView
INVARIANTS
  FailuresTypeOK
  ForgottenOnlyWhenCopied
  MarkedOnlyWhenCopied
  MarkFindsEvent
  ReplicasAgree
  ListsEndTheLog
  RepeatsOnlyAfterFailure
PROPERTIES
  CopiesOnlyUnmarked
  ErasedWhenMarkedByAll
  KeepsTheWeakPromise
