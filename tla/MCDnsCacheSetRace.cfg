SPECIFICATION CacheSpec
CONSTANTS
  k1 = k1
  k2 = k2
  k3 = k3
  d1 = d1
  d2 = d2
  Procs = {p1}
  Keys = {k1}
  Data = {d1, d2}
  Expiries = {0, 2}
  Never = Never
  Offers <- MCOffersRace
  Capacity = 1
  MaxTime = 2
  NoCall = NoCall
  NoReply = NoReply
INVARIANTS SetReplaces
