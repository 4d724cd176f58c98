CONSTANTS
  N = 3
  MaxForeign = 2
  Faults = {"io", "edit", "replace"}
SPECIFICATION Spec
INVARIANTS
  ReadersSeeWholeFiles
  BackupsOutlivePublication
  OthersWorkIsKept
  ReportIsTrue
PROPERTIES
  PublishesAsAWhole
