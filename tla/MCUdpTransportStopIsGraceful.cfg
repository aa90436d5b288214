SPECIFICATION Spec
CONSTANTS
  Queries = {q1}
  MaxStarts = 2
INVARIANTS StopIsGraceful
CHECK_DEADLOCK FALSE
