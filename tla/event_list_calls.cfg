CONSTANTS
  Instance = {n1, n2, n3, n4}
  NReplicas = 3
  EventChunk = 2
  EventId = {e1, e2, e3}
  MaxEvents = 5
SPECIFICATION Spec
SYMMETRY Symmetric
INVARIANTS
  TypeOK
  MarksNested
  NoneCompleted
  GetEventsExact
PROPERTIES
  OnlyCompletedErased
