SPECIFICATION Spec
CONSTANTS
  N = 2
  Modes = {FALSE}
  Rcodes = {"NOERROR"}
INVARIANTS EveryServerTried
