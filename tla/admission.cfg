CONSTANTS
  Clients = {a, b}
  Proxies = {p, q}
  tunnel = p
  Junk = {empty, unknown}
  Handlers = {h1, h2}
  Period = 2
  Burst = 2
  MaxSkew = 1
  IdleTTL = 5
  MaxTime = 7
  MaxClaimed = 2
  Configs <- MCConfigs
SYMMETRY Symmetry
SPECIFICATION Spec
INVARIANTS TypeOK KeyIsClient RateBound
PROPERTIES RefusedOnlyOverRate
CHECK_DEADLOCK FALSE
