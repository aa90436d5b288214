SPECIFICATION ResolverSpec
CONSTANTS
  kA = kA
  kC = kC
  kT = kT
  kZ = kZ
  kB = kB
  v1 = v1
  v2 = v2
  Procs = {p1, p2}
  Keys = {kA}
  Questions = {kA}
  Blocked = {}
  Data <- MCData
  Expiries <- MCExpiries
  Never = Never
  Offers <- MCOffersVersions
  Zones <- MCZonesEmpty
  CacheModes = {TRUE}
  Told <- MCToldVersions
  Rcodes <- MCRcodes
  ZoneTtl = 300
  Second = 2
  Capacity = 1
  MaxTime = 2
  MaxTtl = 1
  NoCall = NoCall
  NoReply = NoReply
SYMMETRY ProcSymmetry
INVARIANTS ResolverTypeOK
PROPERTIES TtlNeverExtended ImplementsDnsService
