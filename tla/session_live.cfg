CONSTANTS
  Initiator = "connect"
  Views <- MCViews
  None = None
  MaxStreams = 0
  Scenarios <- LiveOrInterrupted
SPECIFICATION FairSpec
PROPERTIES HandshakeCompletes DisagreementEnds FailureSpreads
