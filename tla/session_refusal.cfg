CONSTANTS
  Initiator = "connect"
  Views <- MCViews
  None = None
  MaxStreams = 1
  Scenarios <- NoFaults
SPECIFICATION Spec
INVARIANTS NoHonestRefusal
