CONSTANTS
  MaxU64 = 15
  PlanId = {"p1"}
  FixturePlan = "p1"
  Keys = {"q", "space", "p", "r"}
  SemanticCapacity = 4
  MaxRequests = 5
  Faults = {"connect", "crash", "hang", "io"}
SPECIFICATION Spec
INVARIANTS
  StreamConverges
  NoFalseAlarm
  RequestsAreAccountedFor
  EndIsClean
  TerminalIsGivenBack
PROPERTIES
  CancelEnds
  TeardownEnds
