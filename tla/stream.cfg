CONSTANT MaxChunks = 2
SPECIFICATION FairSpec
INVARIANTS TypeOK SuccessMeansDialled OnlyTheStartIsLost ReplyThenAnswer
PROPERTIES Answered EndsTogether
CHECK_DEADLOCK FALSE
