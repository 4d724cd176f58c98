CONSTANTS
  PrefixBytes = 2
  MaxLength = 1
  PipeBytes = 3
  RequestRoom = 2
  Window = 2
  MaxEvents = 4
  Faults = {"crash", "corrupt", "helper"}
SPECIFICATION Spec
INVARIANTS
  FramesArriveWhole
PROPERTIES
  NobodyHangs
