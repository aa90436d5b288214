SPECIFICATION CacheSpec
CONSTANTS
  k1 = k1
  k2 = k2
  k3 = k3
  d1 = d1
  d2 = d2
  Procs = {p1, p2}
  Keys = {k1, k2, k3}
  Data = {d1, d2}
  Expiries = {0, 1}
  Never = Never
  Offers <- MCOffers
  Capacity = 2
  MaxTime = 1
  NoCall = NoCall
  NoReply = NoReply
SYMMETRY Symmetry
INVARIANTS CacheTypeOK SizeBounded OneSetPerEntry StaleOnlyByOverlap
PROPERTIES LiveEntryLeaves ImplementsLossyCache
