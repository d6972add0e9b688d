CONSTANTS
  Initiator = "connect"
  Views <- MCViews
  None = None
  MaxStreams = 1
  Scenarios <- HandshakeOrFaults
SPECIFICATION Spec
INVARIANTS TypeOK MutualAuth CandidatesKept HonestNeverFails StateMatchesResult
