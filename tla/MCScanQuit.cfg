CONSTANTS
  MaxU64 = 30
  PlanId = {"p1"}
  FixturePlan = "p1"
  Keys = {"q", "space", "p", "r"}
  SemanticCapacity = 4
  MaxRequests = 3
  Faults = {}
SPECIFICATION Spec
INVARIANTS
  QuitWaitsForTerminal
