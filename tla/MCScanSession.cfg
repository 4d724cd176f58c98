CONSTANTS
  MaxU64 = 12
  PlanId = {"phase0-provisional-0001"}
  FixturePlan = "phase0-provisional-0001"
SPECIFICATION Spec
PROPERTIES
  ReplayReachesSession
  RepliesFollowLifecycle
  RequestsAreServedOnce
CHECK_DEADLOCK FALSE
