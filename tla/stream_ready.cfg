CONSTANT MaxChunks = 1
SPECIFICATION Spec
INVARIANT ReadyProtectsStart
CHECK_DEADLOCK FALSE
