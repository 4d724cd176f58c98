CONSTANTS
  MaxU64 = 15
  PlanId = {"p1", "p2"}
  Keys = {"q", "space", "p", "r"}
  MaxRequests = 4
SPECIFICATION MCSpec
INVARIANTS
  CancelFlagIsExact
  PlanMatchesPosition
  OutcomeIsJustified
PROPERTIES
  ShowsALifecycle
CHECK_DEADLOCK FALSE
