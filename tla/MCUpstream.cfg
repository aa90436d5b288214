SPECIFICATION LiveSpec
CONSTANTS
  N = 3
  Modes = {TRUE, FALSE}
  Rcodes = {"NOERROR"}
INVARIANTS TypeOK GivesUpClean
PROPERTIES ImplementsUpstreamClient NothingLeaks
