CONSTANTS
  Conns = {c1, c2}
  Keys = {k1}
  Sids = {s1}
  None = None
  MaxMsgs = 1
  MaxTalkers = 1
  EagerClients = FALSE
  Events = {"expiry"}
SPECIFICATION Spec
INVARIANTS PairedBeforeSignal
