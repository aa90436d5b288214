------------------------------ MODULE Upstream ------------------------------
(***************************************************************************)
(* gateways/upstream/resolver.go: one call of Resolve.  Calls share no     *)
(* state, so one is enough.                                                *)
(*                                                                         *)
(* The processes are the caller, in serial or parallel mode; one worker    *)
(* per server, which runs queryServerWithContext (a goroutine of its own   *)
(* in parallel mode, the caller itself in serial mode); and one exchange   *)
(* goroutine per connection, which writes the query and reads the answer.  *)
(* They meet in buffered channels, two nested contexts and a WaitGroup.    *)
(*                                                                         *)
(* The network is the environment.  A server may answer, the exchange may  *)
(* fail (write or read error, wrong ID, malformed message), or nothing may *)
(* come.  All failures look alike to the caller.  What a server answers is *)
(* abstracted to which server it is, and to the rcode of its message.      *)
(***************************************************************************)
EXTENDS Integers, FiniteSets

CONSTANTS
  N,         \* len(r.servers)
  Modes,     \* the values r.parallel may have
  Rcodes     \* the response codes servers may answer with

Nothing == "nothing"
Error == "error"

ASSUME UpstreamAssumption ==
  /\ N \in Nat \ {0}
  /\ Modes \subseteq BOOLEAN
  /\ {Nothing, Error} \cap Rcodes = {}

Servers == 1..N

VARIABLES
  parallel,      \* r.parallel: ask all at once, or one after the other
  main,          \* where Resolve is
  turn,          \* serial mode: the server whose turn it is
  done,          \* ctx is done: its deadline has passed, or the parent cancelled
  cancelled,     \* pcancel, or the deferred cancel, has been called
  worker,        \* worker[i]: where queryServerWithContext is for server i
  open,          \* the servers to which a connection is open
  io,            \* io[i]: where the exchange goroutine of server i is
  resultChan,    \* resultChan[i]: the result in the channel between the two
  got,           \* got[i]: what queryServerWithContext returned for server i
  responseChan,  \* the servers whose response is in the channel (at most one)
  errorChan,     \* the servers whose error is in the channel
  errors,        \* the servers whose error the caller has received
  result,        \* what Resolve returned
  tried,         \* history: the servers dialled while the context was live
  silent         \* history: the servers asked and silent when the deadline passed

exchange == <<open, io, resultChan, tried, silent>>
channels == <<responseChan, errorChan>>
vars == <<parallel, main, turn, done, cancelled, worker, exchange, got, channels,
          errors, result>>

Answer(i) == [kind |-> "answer", from |-> i]
Pending == [kind |-> "pending", from |-> 0]
Failed == [kind |-> "failed", from |-> 0]
Timeout == [kind |-> "timeout", from |-> 0]

\* A result of a query: an answer with one of the Rcodes, or an error.
Results == {Nothing, Error} \cup Rcodes
IsAnswer(a) == a \in Rcodes

\* The context queryServerWithContext runs under is done.
WorkerDone == done \/ cancelled

Init ==
  /\ parallel \in Modes
  /\ main = "called"
  /\ turn = 1
  /\ done \in BOOLEAN
  /\ cancelled = FALSE
  /\ worker = [i \in Servers |-> "none"]
  /\ open = {}
  /\ io = [i \in Servers |-> "none"]
  /\ resultChan = [i \in Servers |-> Nothing]
  /\ got = [i \in Servers |-> Nothing]
  /\ responseChan = {}
  /\ errorChan = {}
  /\ errors = {}
  /\ result = Pending
  /\ tried = {}
  /\ silent = {}

\* The deadline of the context passes: the caller's own, or the one that
\* ensureContextDeadline set. There is one for the whole call.
DeadlinePasses ==
  /\ ~ done
  /\ done' = TRUE
  /\ silent' = {i \in open : io[i] = "exchange"}
  /\ UNCHANGED <<parallel, main, turn, cancelled, worker, open, io, resultChan, tried, got,
                 channels, errors, result>>

\* The caller cancels the context it passed; the call's own is derived from it.
CallerCancels ==
  /\ ~ done
  /\ done' = TRUE
  /\ UNCHANGED <<parallel, main, turn, cancelled, worker, exchange, got, channels, errors,
                 result>>

-----------------------------------------------------------------------------
(* queryServerWithContext and its exchange goroutine.                      *)

WorkerTo(i, s) == worker' = [worker EXCEPT ![i] = s]

\* queryServerWithContext returns r and closes its connection.
QueryReturns(i, r) ==
  /\ got' = [got EXCEPT ![i] = r]
  /\ WorkerTo(i, "report")
  /\ open' = open \ {i}

\* Connected, deadline set, query encoded: the exchange goroutine starts.
Dial(i) ==
  /\ worker[i] = "dial" /\ ~ WorkerDone
  /\ open' = open \cup {i}
  /\ io' = [io EXCEPT ![i] = "exchange"]
  /\ tried' = tried \cup {i}
  /\ WorkerTo(i, "wait")
  /\ UNCHANGED <<parallel, main, turn, done, cancelled, resultChan, got, channels, errors,
                 result, silent>>

\* The dialler refuses a context that is done; it, SetDeadline or EncodeQuery
\* may also fail on their own.
DialFails(i) ==
  /\ worker[i] = "dial"
  /\ tried' = IF WorkerDone THEN tried ELSE tried \cup {i}
  /\ QueryReturns(i, Error)
  /\ UNCHANGED <<parallel, main, turn, done, cancelled, io, resultChan, channels, errors,
                 result, silent>>

\* The exchange ends with result r, which the channel has room for.
ExchangeEnds(i, r) ==
  /\ io[i] = "exchange"
  /\ io' = [io EXCEPT ![i] = "ended"]
  /\ resultChan' = [resultChan EXCEPT ![i] = r]
  /\ UNCHANGED <<parallel, main, turn, done, cancelled, worker, open, got, channels, errors,
                 result, tried, silent>>

ServerAnswers(i) == i \in open /\ \E r \in Rcodes : ExchangeEnds(i, r)

NetworkFails(i) == i \in open /\ ~ done /\ ExchangeEnds(i, Error)

\* Read returns an error once its deadline has passed or the connection closes.
ReadAborted(i) == (done \/ i \notin open) /\ ExchangeEnds(i, Error)

\* The select: a result has come, or the context is done.
TakeResult(i) ==
  /\ worker[i] = "wait"
  /\ resultChan[i] # Nothing
  /\ QueryReturns(i, resultChan[i])
  /\ resultChan' = [resultChan EXCEPT ![i] = Nothing]
  /\ UNCHANGED <<parallel, main, turn, done, cancelled, io, channels, errors, result, tried,
                 silent>>

SeeCancelled(i) ==
  /\ worker[i] = "wait"
  /\ WorkerDone
  /\ QueryReturns(i, Error)
  /\ UNCHANGED <<parallel, main, turn, done, cancelled, io, resultChan, channels, errors,
                 result, tried, silent>>

Query(i) == Dial(i) \/ DialFails(i) \/ TakeResult(i) \/ SeeCancelled(i)
Exchange(i) == ServerAnswers(i) \/ NetworkFails(i) \/ ReadAborted(i)

-----------------------------------------------------------------------------
(* Serial mode.                                                            *)

\* Resolve returns a; its deferred cancels run.
ResolveReturns(a) ==
  /\ main' = "returned"
  /\ result' = a
  /\ cancelled' = TRUE

StartSerial ==
  /\ main = "called" /\ ~ parallel
  /\ main' = "serial"
  /\ WorkerTo(turn, "dial")
  /\ UNCHANGED <<parallel, turn, done, cancelled, exchange, got, channels, errors, result>>

SerialAnswer ==
  /\ main = "serial" /\ worker[turn] = "report" /\ IsAnswer(got[turn])
  /\ ResolveReturns(Answer(turn))
  /\ WorkerTo(turn, "ended")
  /\ UNCHANGED <<parallel, turn, done, exchange, got, channels, errors>>

\* The query to this server has failed: go on to the next.
SerialNext ==
  /\ main = "serial" /\ worker[turn] = "report" /\ got[turn] = Error
  /\ turn < N
  /\ turn' = turn + 1
  /\ worker' = [worker EXCEPT ![turn] = "ended", ![turn + 1] = "dial"]
  /\ UNCHANGED <<parallel, main, done, cancelled, exchange, got, channels, errors, result>>

\* Seeded bug: the loop stops one server early.
SerialFailsEarlyBug ==
  /\ main = "serial" /\ worker[turn] = "report" /\ got[turn] = Error
  /\ turn >= N - 1
  /\ ResolveReturns(Failed)
  /\ WorkerTo(turn, "ended")
  /\ UNCHANGED <<parallel, turn, done, exchange, got, channels, errors>>

SerialFails ==
  /\ main = "serial" /\ worker[turn] = "report" /\ got[turn] = Error
  /\ turn = N
  /\ ResolveReturns(Failed)
  /\ WorkerTo(turn, "ended")
  /\ UNCHANGED <<parallel, turn, done, exchange, got, channels, errors>>

Serial == StartSerial \/ SerialAnswer \/ SerialNext \/ SerialFails

-----------------------------------------------------------------------------
(* Parallel mode.                                                          *)

\* One goroutine per server; wg counts them.
StartParallel ==
  /\ main = "called" /\ parallel
  /\ main' = "collect"
  /\ worker' = [i \in Servers |-> "dial"]
  /\ UNCHANGED <<parallel, turn, done, cancelled, exchange, got, channels, errors, result>>

\* A worker's end: wg.Done runs whichever way it reports.
Reports(i) ==
  /\ parallel /\ worker[i] = "report"
  /\ WorkerTo(i, "ended")
  /\ UNCHANGED <<parallel, main, turn, done, cancelled, exchange, got, errors, result>>

\* Seeded bug: the error of a server that answers nonsense is ignored.
ReportAnyBug(i) ==
  /\ Reports(i)
  /\ responseChan' = IF responseChan = {} THEN {i} ELSE responseChan
  /\ UNCHANGED errorChan

\* Seeded bug: the send blocks while another response is in the channel.
ReportBlockingBug(i) ==
  /\ Reports(i)
  /\ IsAnswer(got[i])
  /\ responseChan = {} /\ responseChan' = {i}
  /\ UNCHANGED errorChan

\* Non-blocking: if another response is in the channel, this one is dropped.
ReportAnswer(i) ==
  /\ Reports(i)
  /\ IsAnswer(got[i])
  /\ responseChan' = IF responseChan = {} THEN {i} ELSE responseChan
  /\ UNCHANGED errorChan

\* errorChan has room for an error of every worker, so the send is always
\* ready; if the context is done as well, select may drop the error instead.
ReportError(i) ==
  /\ Reports(i)
  /\ got[i] = Error
  /\ errorChan' \in {errorChan \cup {i}} \cup (IF WorkerDone THEN {errorChan} ELSE {})
  /\ UNCHANGED responseChan

\* The loop runs at most N times; each turn but the last receives an error.
Collecting == main = "collect" /\ Cardinality(errors) < N

CollectAnswer ==
  /\ Collecting
  /\ \E i \in responseChan : ResolveReturns(Answer(i))
  /\ responseChan' = {}
  /\ UNCHANGED <<parallel, turn, done, worker, exchange, got, errorChan, errors>>

CollectError ==
  /\ Collecting
  /\ \E i \in errorChan :
       errorChan' = errorChan \ {i} /\ errors' = errors \cup {i}
  /\ UNCHANGED <<parallel, main, turn, done, cancelled, worker, exchange, got, responseChan,
                 result>>

\* Cancel the workers and wait for them (wg.Wait), from the loop or after it.
GiveUp ==
  /\ main = "collect"
  /\ done
  /\ main' = "drain"
  /\ cancelled' = TRUE
  /\ UNCHANGED <<parallel, turn, done, worker, exchange, got, channels, errors, result>>

\* Seeded bug: wg.Wait is forgotten.
NoWaitBug ==
  /\ main = "drain"
  /\ ResolveReturns(Timeout)
  /\ UNCHANGED <<parallel, turn, done, worker, exchange, got, channels, errors>>

AllWorkersEnded ==
  /\ main = "drain"
  /\ \A i \in Servers : worker[i] = "ended"
  /\ ResolveReturns(Timeout)
  /\ UNCHANGED <<parallel, turn, done, worker, exchange, got, channels, errors>>

\* N errors received and the context still live.
ParallelFails ==
  /\ main = "collect" /\ Cardinality(errors) = N /\ ~ done
  /\ ResolveReturns(Failed)
  /\ UNCHANGED <<parallel, turn, done, worker, exchange, got, channels, errors>>

Collect ==
  \/ StartParallel \/ CollectAnswer \/ CollectError
  \/ GiveUp \/ AllWorkersEnded \/ ParallelFails

-----------------------------------------------------------------------------

\* The call is over and nothing of it is left running.
AllOver ==
  /\ main = "returned"
  /\ \A i \in Servers : worker[i] \in {"none", "ended"} /\ io[i] # "exchange"

Over == AllOver /\ UNCHANGED vars

Next ==
  \/ DeadlinePasses \/ CallerCancels
  \/ Serial \/ Collect
  \/ \E i \in Servers : Query(i) \/ Exchange(i) \/ ReportAnswer(i) \/ ReportError(i)
  \/ Over

\* Goroutines are scheduled and the deadline passes; no server need answer.
Fairness ==
  /\ WF_vars(DeadlinePasses)
  /\ WF_vars(Serial \/ Collect)
  /\ \A i \in Servers :
       /\ WF_vars(Query(i))
       /\ WF_vars(ReadAborted(i))
       /\ WF_vars(ReportAnswer(i) \/ ReportError(i))

Spec == Init /\ [][Next]_vars
LiveSpec == Spec /\ Fairness

-----------------------------------------------------------------------------
(* Properties.                                                             *)

\* Type correctness; a response is in its channel only from a worker that got
\* one, an error only from one that failed.
TypeOK ==
  /\ main \in {"called", "serial", "collect", "drain", "returned"}
  /\ parallel \in Modes
  /\ turn \in Servers
  /\ done \in BOOLEAN /\ cancelled \in BOOLEAN
  /\ worker \in [Servers -> {"none", "dial", "wait", "report", "ended"}]
  /\ open \subseteq Servers /\ tried \subseteq Servers /\ silent \subseteq Servers
  /\ io \in [Servers -> {"none", "exchange", "ended"}]
  /\ resultChan \in [Servers -> Results] /\ got \in [Servers -> Results]
  /\ responseChan \subseteq {i \in Servers : IsAnswer(got[i])}
  /\ errorChan \subseteq {i \in Servers : got[i] = Error}
  /\ errors \subseteq {i \in Servers : got[i] = Error}
  /\ result \in {Answer(i) : i \in Servers} \cup {Pending, Failed, Timeout}

Client == INSTANCE UpstreamClient WITH
  answered <- {i \in Servers : IsAnswer(got[i])},
  failed <- {i \in Servers : got[i] = Error},
  late <- done,
  outcome <- result

\* Refinement: however the goroutines are scheduled, Resolve returns once, loses
\* no answer to a race of the channels before the deadline (it reports "failed"
\* only when every server has), and keeps the order of the servers in serial mode.
ImplementsUpstreamClient == Client!ClientSpec

\* A worker holds its connection just while it waits for the exchange, and a
\* call that gave up leaves nothing behind: wg.Wait has seen every worker out,
\* and so every connection closed, before "timeout" is returned.
GivesUpClean ==
  /\ \A i \in Servers : i \in open <=> worker[i] = "wait"
  /\ result = Timeout => \A i \in Servers : worker[i] = "ended"

\* Resolve returns, and every goroutine it started ends, even if no server ever
\* answers: no send or wait blocks for good.
NothingLeaks == <>[]AllOver

-----------------------------------------------------------------------------
(* What the documents say, and the code does not do.                       *)

\* gateways/upstream/README.md: serial mode "Queries servers sequentially until
\* one succeeds". So a call that fails after a server stayed silent until the
\* deadline has asked the others too. A call that its caller cancelled is no
\* matter of this property: nobody was silent for long enough.
EveryServerTried == result = Failed /\ silent # {} => tried = Servers
=============================================================================
