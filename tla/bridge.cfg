CONSTANTS
  Low = 1
  High = 2
  Window = 2
  MaxChunks = 4
  Senders = {"connect"}
SPECIFICATION FairSpec
INVARIANTS TypeOK Backpressure NoLostWakeup NothingLost
PROPERTIES ReaderResumes ClosedTogether
