SPECIFICATION LiveSpec
CONSTANTS
  Queries = {q1, q2}
  MaxStarts = 2
INVARIANTS TypeOK OneOpenSocket OneReader
PROPERTIES LoopsEnd EveryPacketRead
CHECK_DEADLOCK FALSE
