CONSTANTS
  Instance = {n1, n2, n3}
  NReplicas = 2
  EventId = {e1, e2}
  MaxEvents = 4
SPECIFICATION Spec
INVARIANTS
  TypeOK
PROPERTIES
  LoopMarksTheList
