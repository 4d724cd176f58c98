CONSTANTS
  None = None
  Base = 3
  Magic <- MCMagic
  Version = 1
  VersionBytes = 1
  CountBytes = 1
  LogicalBytes = 1
  SecondsBytes = 1
  NanosBytes = 1
  NanosLimit = 2
  LastActivity = 1
  LastCoverage = 1
  Stray <- MCStray
  Mark = 1
  Bindings <- MCBindings
  MaxBytes = 13
SPECIFICATION CanonicalSpec
INVARIANTS
  WritersAreRead
  VerifiersAgree
CHECK_DEADLOCK FALSE
