CONSTANTS
  Conns = {c1, c2}
  Keys = {k1}
  Sids = {s1}
  None = None
  MaxMsgs = 2
  MaxTalkers = 1
  EagerClients = FALSE
  Events = {"stall", "expiry", "shutdown"}
SPECIFICATION FairSpec
INVARIANTS TypeOK MapsAgree NoOrphanedEntry SignalsInOrder OneFarewell PairedOnce
PROPERTIES LostPeerFreesSlot PartnerIsTold
