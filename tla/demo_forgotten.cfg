CONSTANTS
  n1 = n1
  n2 = n2
  n3 = n3
  Nil = Nil
  Node = {n1, n2}
  Replicas = 2
  EventChunk <- ChunkTen
  Topic <- SameTopic
  Partition = {0}
  Records <- TwoAndOne
  Window = 1
SPECIFICATION Spec
VIEW PendingView
ACTION_CONSTRAINT PublishedFirst
INVARIANTS
  ForgottenOnlyWhenReplicated
