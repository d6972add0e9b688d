CONSTANT MaxChunks = 1
SPECIFICATION FairSpec
PROPERTY BridgeClosesTogether
CHECK_DEADLOCK FALSE
