CONSTANTS
  Conns = {c1, c2, c3}
  Keys = {k1, k2}
  Sids = {s1}
  None = None
  MaxMsgs = 1
  MaxTalkers = 1
  EagerClients = FALSE
  Events = {"chatter", "badread"}
SPECIFICATION Spec
SYMMETRY Symmetry
INVARIANTS NoCrossTalk
PROPERTIES ImplementsRendezvous
