SPECIFICATION AliasSpec
CONSTANTS
  a = a
  b = b
  c = c
  d = d
  addr = addr
  addr2 = addr2
  Names = {a, b, c, d}
  Apex <- MCApex
  Records <- MCRecords
  Directories <- MCDirectories
  Reloads = {}
  MaxReloads = 0
  Finders = {"exact"}
  MaxDepths = {2}
  Types = {"A"}
  Classes = {"IN", "CH"}
  Upstream <- MCUpstream
  Nowhere = Nowhere
CHECK_DEADLOCK FALSE
INVARIANT AliasesAreFollowed
