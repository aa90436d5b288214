SPECIFICATION LiveAliasSpec
CONSTANTS
  a = a
  b = b
  c = c
  d = d
  addr = addr
  addr2 = addr2
  Names = {a, b, c, d}
  Apex <- MCApex
  Records <- MCRecords
  Directories <- MCDirectories
  Reloads <- MCReloads
  MaxReloads = 2
  Finders = {"exact", "alias"}
  MaxDepths = {0, 2}
  Types = {"A", "CNAME"}
  Classes = {"IN", "CH"}
  Upstream <- MCUpstream
  Nowhere = Nowhere
CHECK_DEADLOCK FALSE
INVARIANTS AliasTypeOK FindsWhatWasPut AnswerIsTheChain ChainHoldsTogether
PROPERTY EveryChaseEnds
