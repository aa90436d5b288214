SPECIFICATION DaemonSpec
CONSTANTS
  q1 = q1
  q2 = q2
  Queries = {q1, q2}
  MaxStarts = 1
  BufferSize = 144
  DefaultTtl = 300
  Names <- MCNames
  Apex <- MCApex
  Records <- MCRecords
  Settings <- MCSettings
  Ids <- MCIds
  Questions <- MCQuestions
  WithEdns = {q2}
  Messages <- MCMessages
INVARIANTS DaemonTypeOK StartedListens ReplyFitsQuery AuthoritativeAnswers AnswersAreTrue ReadsOrRefuses PanicNeedsOddRecord QuietOnlyAtShutdown
PROPERTIES SignalEndsRun EveryQueryReplied
CHECK_DEADLOCK FALSE
