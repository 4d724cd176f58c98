CONSTANTS
  Major = {1, 2}
  Minor = {1, 2}
  Capability = {"framing-v1", "scan-control-v1"}
  ScanControl = "scan-control-v1"
  Faults = {"crash", "foreign", "timeout"}
SPECIFICATION Spec
INVARIANTS
  AnswersAreAcceptable
  SidesAgree
  FailsClosed
PROPERTIES
  HandshakeEnds
