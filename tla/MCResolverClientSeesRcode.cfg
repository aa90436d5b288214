SPECIFICATION ResolverSpec
CONSTANTS
  kA = kA
  kC = kC
  kT = kT
  kZ = kZ
  kB = kB
  v1 = v1
  v2 = v2
  Procs = {p1}
  Keys = {kA, kC, kT, kZ, kB}
  Questions = {kA, kZ, kB}
  Blocked = {kB}
  Data <- MCData
  Expiries <- MCExpiries
  Never = Never
  Offers <- MCOffersShapes
  Zones <- MCZones
  CacheModes = {TRUE}
  Told <- MCToldShapes
  Rcodes <- MCRcodes
  ZoneTtl = 300
  Second = 1
  Capacity = 1
  MaxTime = 1
  MaxTtl = 1
  NoCall = NoCall
  NoReply = NoReply
INVARIANTS ClientSeesRcode
