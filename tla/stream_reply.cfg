CONSTANT MaxChunks = 1
SPECIFICATION Spec
INVARIANT ReplyComesFirst
CHECK_DEADLOCK FALSE
