CONSTANT MaxChunks = 1
SPECIFICATION Spec
PROPERTY FailureIsReplied
CHECK_DEADLOCK FALSE
