CONSTANTS
  Tickers = {}
  QueueSize = 1
  MaxSignals = 1
  MaxPings = 0
SPECIFICATION Spec
PROPERTY TunnelOutlivesBroker
CHECK_DEADLOCK FALSE
