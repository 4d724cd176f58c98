CONSTANTS
  MaxU64 = 5
  PlanId = {"p1"}
  Keys = {"?", "/", "q", "space", "p", "r"}
  MaxRequests = 5
SPECIFICATION MCSpec
INVARIANTS
  RequestsDistinct
CHECK_DEADLOCK FALSE
