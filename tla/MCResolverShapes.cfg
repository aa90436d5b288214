SPECIFICATION LiveResolverSpec
CONSTANTS
  kA = kA
  kC = kC
  kT = kT
  kZ = kZ
  kB = kB
  v1 = v1
  v2 = v2
  Procs = {p1, p2}
  Keys = {kA, kC, kT, kZ, kB}
  Questions = {kA, kZ, kB}
  Blocked = {kB, kZ}
  Data <- MCData
  Expiries <- MCExpiries
  Never = Never
  Offers <- MCOffersShapes
  Zones <- MCZones
  CacheModes = {TRUE, FALSE}
  Told <- MCToldShapes
  Rcodes <- MCRcodes
  ZoneTtl = 300
  Second = 1
  Capacity = 1
  MaxTime = 0
  MaxTtl = 1
  NoCall = NoCall
  NoReply = NoReply
INVARIANTS AskedOnlyIfNeeded
PROPERTIES ImplementsDnsService EveryQueryAnswered
