SPECIFICATION Spec
CONSTANTS
  cloudDir = cloudDir
  plainDir = plainDir
  cloudFile = cloudFile
  Nothing = Nothing
  Objects <- MCObjects
  Directories <- MCDirectories
  Owned <- MCOwned
  SyncRoots <- MCSyncRoots
  MaxChanges = 2
  MaxCalls = 2
INVARIANTS
  DescentIsJustified
  OneAccessPerLoss
  FirstAnswerInTime
PROPERTIES
  ProbeEnds
CHECK_DEADLOCK FALSE
