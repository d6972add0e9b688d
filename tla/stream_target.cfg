CONSTANT MaxChunks = 1
SPECIFICATION Spec
INVARIANT SuccessMeansAsked
CHECK_DEADLOCK FALSE
