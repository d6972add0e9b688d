CONSTANT MaxChunks = 1
SPECIFICATION Spec
INVARIANT NothingDropped
CHECK_DEADLOCK FALSE
