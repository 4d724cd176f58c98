CONSTANTS
  MaxU64 = 9
  PlanId = {"p1"}
  SemanticCapacity = 2
  MaxEvents = 5
  MaxKeys = 1
SPECIFICATION Spec
INVARIANTS
  QueueIsBounded
  NothingIsLost
  NobodyIsStranded
PROPERTIES
  EverythingArrives
