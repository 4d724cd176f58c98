CONSTANTS
  CleanupFaults = {"io", "reaper", "thread"}
SPECIFICATION CleanupSpec
INVARIANTS
  ChildIsAccountedFor
  ReportIsHonest
PROPERTIES
  CleanupEnds
  EngineIsReaped
