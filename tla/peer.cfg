CONSTANTS
  Tickers = {"appPingLoop"}
  QueueSize = 1
  MaxSignals = 1
  MaxPings = 1
SPECIFICATION FairSpec
INVARIANTS TypeOK EventsInOrder NothingLeftBehind
PROPERTIES LossNoticed ReturnEnds PartnerGoneEnds
CHECK_DEADLOCK FALSE
