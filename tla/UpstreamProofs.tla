--------------------------- MODULE UpstreamProofs ---------------------------
(***************************************************************************)
(* Proofs about Upstream for any number of servers: type correctness, that *)
(* a call which gives up leaves nothing behind, and that Resolve keeps the *)
(* promise of UpstreamClient however its goroutines are scheduled.         *)
(***************************************************************************)
EXTENDS Upstream, FiniteSetTheorems, TLAPS

\* Where the caller is, and what that says of the workers and the result.
CallerInv ==
  /\ main = "called" => turn = 1 /\ worker = [i \in Servers |-> "none"]
  /\ main = "serial" => /\ \A i \in Servers : i < turn => got[i] = Error
                        /\ \A i \in Servers : i > turn => worker[i] = "none"
  /\ main \in {"collect", "drain"} => parallel
  /\ main = "drain" => done
  /\ main # "returned" => result = Pending

\* A worker has a result once it has come to report it, and not before.
WorkerInv ==
  \A i \in Servers : worker[i] \in {"none", "dial", "wait"} => got[i] = Nothing

CallInv == TypeOK /\ CallerInv /\ WorkerInv

-----------------------------------------------------------------------------
(* The induction.                                                          *)

\* The outcomes of a call can be told apart.
LEMMA KindsDiffer ==
  /\ Nothing \in Results /\ Error \in Results /\ Nothing # Error
  /\ ~ IsAnswer(Nothing) /\ ~ IsAnswer(Error)
  /\ \A a \in Results : a \in {Nothing, Error} \/ IsAnswer(a)
BY UpstreamAssumption DEF Nothing, Error, Results, IsAnswer

\* Before the call nothing has been asked or got.
LEMMA CallInit == Init => CallInv
<1>. SUFFICES ASSUME Init PROVE CallInv  OBVIOUS
<1>1. 1 \in Servers  BY UpstreamAssumption DEF Servers
<1>2. TypeOK  BY <1>1, KindsDiffer DEF Init, TypeOK
<1>. QED  BY <1>2 DEF Init, CallInv, CallerInv, WorkerInv

\* What the end of a query leaves alone: it makes the result of one worker known.
LEMMA QueryReturnsInv ==
  ASSUME CallInv, NEW i \in Servers, worker[i] \in {"dial", "wait"},
         NEW r \in Results \ {Nothing}, QueryReturns(i, r),
         io' \in [Servers -> {"none", "exchange", "ended"}],
         resultChan' \in [Servers -> Results], tried' \subseteq Servers,
         silent' \subseteq Servers,
         UNCHANGED <<parallel, main, turn, done, cancelled, channels, errors, result>>
  PROVE  CallInv'
<1>. USE DEF CallInv
<1>1. /\ got' = [got EXCEPT ![i] = r] /\ worker' = [worker EXCEPT ![i] = "report"]
      /\ open' = open \ {i}
  BY DEF QueryReturns, WorkerTo
<1>2. got[i] = Nothing  BY DEF WorkerInv
<1>3. \A j \in Servers : got[j] # Nothing => got'[j] = got[j]
  BY <1>1, <1>2 DEF TypeOK
<1>4. main # "called" /\ \A j \in Servers : main = "serial" /\ j > turn => j # i
  BY DEF CallerInv
<1>5. TypeOK'
  <2>1. \A j \in Servers : (IsAnswer(got[j]) => IsAnswer(got'[j]))
                            /\ (got[j] = Error => got'[j] = Error)
    BY <1>3, KindsDiffer
  <2>2. got' \in [Servers -> Results]  BY <1>1 DEF TypeOK
  <2>3. worker' \in [Servers -> {"none", "dial", "wait", "report", "ended"}]
    BY <1>1 DEF TypeOK
  <2>4. /\ responseChan' \subseteq {j \in Servers : IsAnswer(got'[j])}
        /\ errorChan' \subseteq {j \in Servers : got'[j] = Error}
        /\ errors' \subseteq {j \in Servers : got'[j] = Error}
    BY <2>1 DEF TypeOK, channels
  <2>5. open' \subseteq Servers  BY <1>1 DEF TypeOK
  <2>. QED  BY <2>2, <2>3, <2>4, <2>5 DEF TypeOK
<1>6. CallerInv'
  BY <1>1, <1>3, <1>4, KindsDiffer DEF CallerInv, TypeOK
<1>7. WorkerInv'  BY <1>1 DEF WorkerInv, TypeOK
<1>. QED  BY <1>5, <1>6, <1>7

\* Every step keeps the invariant.
LEMMA CallNext == CallInv /\ [Next]_vars => CallInv'
<1>. SUFFICES ASSUME CallInv, [Next]_vars PROVE CallInv'  OBVIOUS
<1>. USE DEF CallInv
<1>1. CASE DeadlinePasses \/ CallerCancels
  <2>1. /\ done' = TRUE /\ silent' \subseteq Servers
        /\ UNCHANGED <<parallel, main, turn, cancelled, worker, open, io, resultChan, tried,
                       got, responseChan, errorChan, errors, result>>
    BY <1>1 DEF DeadlinePasses, CallerCancels, exchange, channels, TypeOK
  <2>2. TypeOK'  BY <2>1 DEF TypeOK
  <2>. QED  BY <2>1, <2>2 DEF CallerInv, WorkerInv
<1>2. CASE StartSerial
  <2>1. \A i \in Servers : ~ (i < turn)
    BY <1>2 DEF StartSerial, CallerInv, Servers
  <2>2. TypeOK'
    BY <1>2 DEF StartSerial, WorkerTo, exchange, channels, TypeOK
  <2>. QED
    BY <1>2, <2>1, <2>2
    DEF StartSerial, WorkerTo, TypeOK, CallerInv, WorkerInv
<1>3. CASE SerialNext
  <2>1. /\ worker' = [worker EXCEPT ![turn] = "ended", ![turn + 1] = "dial"]
        /\ turn' = turn + 1 /\ turn + 1 \in Servers
        /\ main = "serial" /\ got[turn] = Error
        /\ UNCHANGED <<parallel, main, done, cancelled, open, io, resultChan, tried, silent,
                       got, responseChan, errorChan, errors, result>>
    BY <1>3, UpstreamAssumption DEF SerialNext, exchange, channels, TypeOK, Servers
  <2>2. TypeOK'  BY <2>1 DEF TypeOK
  <2>3. \A i \in Servers : /\ i < turn + 1 => i < turn \/ i = turn
                           /\ i > turn + 1 => i > turn /\ i # turn
    BY DEF Servers, TypeOK
  <2>4. CallerInv'  BY <2>1, <2>3 DEF CallerInv, TypeOK
  <2>5. worker[turn + 1] = "none"  BY <2>1 DEF CallerInv, Servers, TypeOK
  <2>6. WorkerInv'  BY <2>1, <2>5 DEF WorkerInv, TypeOK
  <2>. QED  BY <2>2, <2>4, <2>6
<1>4. CASE SerialAnswer \/ SerialFails
  <2>1. /\ main' = "returned" /\ worker' = [worker EXCEPT ![turn] = "ended"]
        /\ result' \in {Answer(turn), Failed} /\ cancelled' = TRUE
        /\ UNCHANGED <<parallel, turn, done, open, io, resultChan, tried, silent,
                       got, responseChan, errorChan, errors>>
    BY <1>4
    DEF SerialAnswer, SerialFails, ResolveReturns, WorkerTo, exchange, channels
  <2>2. TypeOK'  BY <2>1 DEF TypeOK
  <2>. QED  BY <2>1, <2>2 DEF CallerInv, WorkerInv, TypeOK
<1>5. CASE StartParallel
  <2>1. TypeOK'  BY <1>5 DEF StartParallel, exchange, channels, TypeOK
  <2>. QED  BY <1>5, <2>1 DEF StartParallel, TypeOK, CallerInv, WorkerInv
<1>6. CASE CollectAnswer
  <2>1. PICK i \in responseChan : ResolveReturns(Answer(i))  BY <1>6 DEF CollectAnswer
  <2>2. TypeOK'
    BY <1>6, <2>1 DEF CollectAnswer, ResolveReturns, exchange, TypeOK
  <2>. QED
    BY <1>6, <2>1, <2>2 DEF CollectAnswer, ResolveReturns, CallerInv, WorkerInv
<1>7. CASE CollectError
  <2>1. TypeOK'  BY <1>7 DEF CollectError, exchange, TypeOK
  <2>. QED  BY <1>7, <2>1 DEF CollectError, CallerInv, WorkerInv
<1>8. CASE GiveUp
  <2>1. TypeOK'  BY <1>8 DEF GiveUp, exchange, channels, TypeOK
  <2>. QED  BY <1>8, <2>1 DEF GiveUp, CallerInv, WorkerInv
<1>9. CASE AllWorkersEnded \/ ParallelFails
  <2>1. /\ main' = "returned" /\ result' \in {Timeout, Failed} /\ cancelled' = TRUE
        /\ UNCHANGED <<parallel, turn, done, worker, open, io, resultChan, tried, silent,
                       got, responseChan, errorChan, errors>>
    BY <1>9 DEF AllWorkersEnded, ParallelFails, ResolveReturns, exchange, channels
  <2>2. TypeOK'  BY <2>1 DEF TypeOK
  <2>. QED  BY <2>1, <2>2 DEF CallerInv, WorkerInv
<1>10. ASSUME NEW i \in Servers, Dial(i) PROVE CallInv'
  <2>1. /\ worker[i] = "dial" /\ worker' = [worker EXCEPT ![i] = "wait"]
        /\ open' = open \cup {i} /\ io' = [io EXCEPT ![i] = "exchange"]
        /\ tried' = tried \cup {i}
        /\ UNCHANGED <<parallel, main, turn, done, cancelled, silent, resultChan, got,
                       responseChan, errorChan, errors, result>>
    BY <1>10 DEF Dial, WorkerTo, channels
  <2>2. TypeOK'  BY <2>1 DEF TypeOK
  <2>. QED  BY <2>1, <2>2 DEF CallerInv, WorkerInv, TypeOK
<1>11. ASSUME NEW i \in Servers, DialFails(i) PROVE CallInv'
  <2>1. tried' \subseteq Servers  BY <1>11 DEF DialFails, TypeOK
  <2>. QED
    BY <1>11, <2>1, KindsDiffer, QueryReturnsInv DEF DialFails, TypeOK
<1>12. ASSUME NEW i \in Servers, TakeResult(i) PROVE CallInv'
  <2>1. resultChan[i] \in Results \ {Nothing}
    BY <1>12 DEF TakeResult, TypeOK
  <2>2. resultChan' \in [Servers -> Results]
    BY <1>12, KindsDiffer DEF TakeResult, TypeOK
  <2>. QED
    BY <1>12, <2>1, <2>2, QueryReturnsInv DEF TakeResult, TypeOK
<1>13. ASSUME NEW i \in Servers, SeeCancelled(i) PROVE CallInv'
  BY <1>13, KindsDiffer, QueryReturnsInv DEF SeeCancelled, TypeOK
<1>14. ASSUME NEW i \in Servers, Exchange(i) PROVE CallInv'
  <2>1. PICK r \in Results : ExchangeEnds(i, r)
    BY <1>14 DEF Exchange, ServerAnswers, NetworkFails, ReadAborted, Results
  <2>2. TypeOK'  BY <2>1 DEF ExchangeEnds, channels, TypeOK
  <2>. QED  BY <2>1, <2>2 DEF ExchangeEnds, CallerInv, WorkerInv
<1>15. ASSUME NEW i \in Servers, ReportAnswer(i) \/ ReportError(i) PROVE CallInv'
  <2>1. /\ parallel /\ worker[i] = "report" /\ worker' = [worker EXCEPT ![i] = "ended"]
        /\ UNCHANGED <<parallel, main, turn, done, cancelled, open, io, resultChan, tried,
                       silent, got, errors, result>>
    BY <1>15 DEF ReportAnswer, ReportError, Reports, WorkerTo, exchange
  <2>2. /\ responseChan' \subseteq {j \in Servers : IsAnswer(got[j])}
        /\ errorChan' \subseteq {j \in Servers : got[j] = Error}
    BY <1>15 DEF ReportAnswer, ReportError, TypeOK
  <2>3. TypeOK'  BY <2>1, <2>2 DEF TypeOK
  <2>4. CallerInv'  BY <2>1 DEF CallerInv
  <2>5. WorkerInv'  BY <2>1 DEF WorkerInv, TypeOK
  <2>. QED  BY <2>3, <2>4, <2>5
<1>16. CASE UNCHANGED vars
  BY <1>16 DEF vars, exchange, channels, TypeOK, CallerInv, WorkerInv
<1>. QED
  BY <1>1, <1>2, <1>3, <1>4, <1>5, <1>6, <1>7, <1>8, <1>9, <1>10, <1>11, <1>12, <1>13,
     <1>14, <1>15, <1>16
  DEF Next, Serial, Collect, Query, Over

\* Type correctness: a response or an error is in a channel, or received, only
\* from a worker that has it.
THEOREM TypeCorrect == Spec => []TypeOK
BY CallInit, CallNext, PTL DEF Spec, CallInv

-----------------------------------------------------------------------------
(* Giving up.                                                              *)

\* "timeout" is returned only when every worker has ended and every connection
\* is closed: a worker holds one just while it waits for the exchange.
THEOREM GivesUpCleanCorrect == Spec => []GivesUpClean
<1>1. Init => GivesUpClean
  BY DEF Init, GivesUpClean, Pending, Timeout
<1>2. CallInv /\ GivesUpClean /\ [Next]_vars => GivesUpClean'
  <2>. SUFFICES ASSUME CallInv, GivesUpClean, [Next]_vars PROVE GivesUpClean'
    OBVIOUS
  <2>t. TypeOK /\ (main # "returned" => result # Timeout)
    BY DEF CallInv, CallerInv, Pending, Timeout
  <2>w. ASSUME NEW i \in Servers, worker[i] # "ended" PROVE result # Timeout
    BY <2>w DEF GivesUpClean
  <2>1. ASSUME UNCHANGED <<worker, open>>, result' = Timeout => result = Timeout
        PROVE  GivesUpClean'
    BY <2>1 DEF GivesUpClean
  <2>2. ASSUME NEW i \in Servers, worker[i] \in {"none", "dial", "report"},
               NEW s \in {"dial", "report", "ended"},
               worker' = [worker EXCEPT ![i] = s], UNCHANGED <<open, result>>
        PROVE  GivesUpClean'
    BY <2>t, <2>w, <2>2 DEF GivesUpClean, TypeOK
  <2>3. ASSUME NEW i \in Servers, worker[i] \in {"dial", "wait"}, UNCHANGED result,
               NEW r, QueryReturns(i, r)
        PROVE  GivesUpClean'
    BY <2>t, <2>w, <2>3 DEF GivesUpClean, QueryReturns, WorkerTo, TypeOK
  <2>4. CASE StartSerial
    <3>1. turn \in Servers /\ worker[turn] = "none"
      BY <2>4 DEF StartSerial, CallInv, CallerInv, TypeOK
    <3>. QED  BY <2>2, <2>4, <3>1 DEF StartSerial, WorkerTo, exchange
  <2>5. CASE StartParallel
    <3>1. /\ open = {} /\ UNCHANGED <<open, result>>
          /\ worker' = [i \in Servers |-> "dial"]
      BY <2>t, <2>5
      DEF StartParallel, exchange, CallInv, CallerInv, GivesUpClean, TypeOK
    <3>. QED  BY <2>t, <2>5, <3>1 DEF StartParallel, GivesUpClean
  <2>6. CASE SerialNext
    <3>1. /\ worker' = [worker EXCEPT ![turn] = "ended", ![turn + 1] = "dial"]
          /\ worker[turn] = "report" /\ main = "serial"
          /\ UNCHANGED <<open, result>>
      BY <2>6 DEF SerialNext, exchange
    <3>2. worker[turn + 1] = "none" /\ turn + 1 \in Servers /\ turn \in Servers
      BY <2>t, <2>6, UpstreamAssumption
      DEF SerialNext, CallInv, CallerInv, TypeOK, Servers
    <3>. QED  BY <2>t, <3>1, <3>2 DEF GivesUpClean, TypeOK
  <2>7. CASE SerialAnswer \/ SerialFails
    <3>1. /\ worker' = [worker EXCEPT ![turn] = "ended"] /\ worker[turn] = "report"
          /\ result' # Timeout /\ UNCHANGED open
      BY <2>7
      DEF SerialAnswer, SerialFails, ResolveReturns, WorkerTo, exchange, Answer, Failed,
          Timeout
    <3>. QED  BY <2>t, <3>1 DEF GivesUpClean, TypeOK
  <2>8. CASE CollectAnswer \/ ParallelFails
    BY <2>1, <2>8
    DEF CollectAnswer, ParallelFails, ResolveReturns, exchange, Answer, Failed, Timeout
  <2>9. CASE AllWorkersEnded
    BY <2>9 DEF AllWorkersEnded, ResolveReturns, exchange, GivesUpClean
  <2>10. CASE DeadlinePasses \/ CallerCancels \/ CollectError \/ GiveUp
              \/ UNCHANGED vars
    BY <2>1, <2>10
    DEF DeadlinePasses, CallerCancels, CollectError, GiveUp, vars, exchange
  <2>11. ASSUME NEW i \in Servers, Dial(i) PROVE GivesUpClean'
    BY <2>t, <2>w, <2>11 DEF Dial, WorkerTo, GivesUpClean, TypeOK
  <2>12. ASSUME NEW i \in Servers, DialFails(i) \/ TakeResult(i) \/ SeeCancelled(i)
         PROVE  GivesUpClean'
    <3>1. /\ worker[i] \in {"dial", "wait"} /\ UNCHANGED result
          /\ QueryReturns(i, Error) \/ QueryReturns(i, resultChan[i])
      BY <2>12 DEF DialFails, TakeResult, SeeCancelled
    <3>. QED  BY <2>3, <3>1
  <2>13. ASSUME NEW i \in Servers, Exchange(i) PROVE GivesUpClean'
    BY <2>1, <2>13 DEF Exchange, ServerAnswers, NetworkFails, ReadAborted, ExchangeEnds
  <2>14. ASSUME NEW i \in Servers, ReportAnswer(i) \/ ReportError(i)
         PROVE  GivesUpClean'
    BY <2>2, <2>14 DEF ReportAnswer, ReportError, Reports, WorkerTo, exchange
  <2>. QED
    BY <2>4, <2>5, <2>6, <2>7, <2>8, <2>9, <2>10, <2>11, <2>12, <2>13, <2>14
    DEF Next, Serial, Collect, Query, Over
<1>. QED  BY <1>1, <1>2, CallInit, CallNext, PTL DEF Spec

-----------------------------------------------------------------------------
(* The refinement.                                                         *)

Answered == {i \in Servers : IsAnswer(got[i])}
FailedServers == {i \in Servers : got[i] = Error}

\* The end of a query is the answer or the failure of its server.
LEMMA QueryReturnsMaps ==
  ASSUME CallInv, NEW i \in Servers, worker[i] \in {"dial", "wait"},
         NEW r \in Results \ {Nothing}, QueryReturns(i, r),
         UNCHANGED <<parallel, done, result>>
  PROVE  Client!ServerAnswered(i) \/ Client!ServerFailed(i)
<1>1. got[i] = Nothing /\ got' = [got EXCEPT ![i] = r] /\ got \in [Servers -> Results]
  BY DEF CallInv, WorkerInv, TypeOK, QueryReturns
<1>2. i \notin Answered \cup FailedServers
  BY <1>1, KindsDiffer DEF Answered, FailedServers
<1>3. CASE IsAnswer(r)
  <2>1. Answered' = Answered \cup {i} /\ FailedServers' = FailedServers
    BY <1>1, <1>3, KindsDiffer DEF Answered, FailedServers
  <2>. QED
    BY <1>2, <2>1 DEF Client!ServerAnswered, Answered, FailedServers
<1>4. CASE r = Error
  <2>1. FailedServers' = FailedServers \cup {i} /\ Answered' = Answered
    BY <1>1, <1>4, KindsDiffer DEF Answered, FailedServers
  <2>. QED
    BY <1>2, <2>1 DEF Client!ServerFailed, Answered, FailedServers
<1>. QED  BY <1>3, <1>4, KindsDiffer

\* What the client of one call sees in each step is a step of UpstreamClient, or
\* nothing.
LEMMA StepMaps ==
  ASSUME CallInv, [Next]_vars
  PROVE  [Client!ClientNext]_(Client!clientVars)
<1>. USE DEF CallInv
<1>1. ASSUME UNCHANGED <<parallel, got, done, result>>
      PROVE  UNCHANGED Client!clientVars
  BY <1>1 DEF Client!clientVars
<1>2. ASSUME NEW i \in Servers, worker[i] \in {"dial", "wait"},
             NEW r \in Results \ {Nothing}, QueryReturns(i, r),
             UNCHANGED <<parallel, done, result>>
      PROVE  Client!ClientNext
  BY <1>2, QueryReturnsMaps DEF Client!ClientNext, Servers
<1>3. ASSUME NEW a, main # "returned", Client!MayReturn(a), ResolveReturns(a),
             a \in {Answer(i) : i \in Servers} \cup {Failed, Timeout},
             UNCHANGED <<parallel, got, done>>
      PROVE  Client!ClientNext
  BY <1>3
  DEF CallerInv, ResolveReturns, Client!ClientNext, Client!ReturnOutcome, Servers, Answer,
      Client!Answer, Failed, Client!Failed, Timeout, Client!Timeout, Pending,
      Client!Pending
<1>4. CASE DeadlinePasses \/ CallerCancels
  BY <1>4 DEF DeadlinePasses, CallerCancels, Client!ClientNext, Client!Expire
<1>5. CASE StartSerial \/ SerialNext \/ StartParallel \/ CollectError \/ GiveUp
             \/ UNCHANGED vars
  BY <1>1, <1>5 DEF StartSerial, SerialNext, StartParallel, CollectError, GiveUp, vars
<1>6. CASE SerialAnswer
  <2>1. turn \in Answered /\ 1..(turn - 1) \subseteq FailedServers
    <3>1. turn \in Servers /\ turn \in Answered
      BY <1>6 DEF SerialAnswer, TypeOK, Answered
    <3>2. \A i \in 1..(turn - 1) : i \in Servers /\ i < turn
      BY <3>1, UpstreamAssumption DEF Servers
    <3>3. \A i \in Servers : i < turn => got[i] = Error
      BY <1>6 DEF SerialAnswer, CallerInv
    <3>. QED  BY <3>1, <3>2, <3>3 DEF FailedServers
  <2>2. Client!MayReturn(Answer(turn))
    BY <2>1 DEF Client!MayReturn, Answered, FailedServers, Answer, Client!Answer
  <2>3. turn \in Servers  BY DEF TypeOK
  <2>. QED  BY <1>3, <1>6, <2>2, <2>3 DEF SerialAnswer
<1>7. CASE SerialFails
  <2>1. FailedServers = 1..N
    <3>1. \A i \in Servers : i < turn \/ i = turn
      BY <1>7, UpstreamAssumption DEF SerialFails, Servers
    <3>2. \A i \in Servers : got[i] = Error
      BY <1>7, <3>1 DEF SerialFails, CallerInv
    <3>. QED  BY <3>2 DEF FailedServers, Servers
  <2>2. Client!MayReturn(Failed)
    BY <2>1 DEF Client!MayReturn, FailedServers, Failed, Client!Failed
  <2>. QED  BY <1>3, <1>7, <2>2 DEF SerialFails
<1>8. CASE CollectAnswer
  <2>1. PICK i \in responseChan : ResolveReturns(Answer(i))  BY <1>8 DEF CollectAnswer
  <2>2. i \in Answered /\ i \in Servers /\ parallel /\ main # "returned"
    BY <1>8, <2>1 DEF CollectAnswer, Collecting, CallerInv, TypeOK, Answered
  <2>3. Client!MayReturn(Answer(i))
    BY <2>2 DEF Client!MayReturn, Answered, Answer, Client!Answer
  <2>. QED  BY <1>3, <1>8, <2>1, <2>2, <2>3 DEF CollectAnswer
<1>9. CASE ParallelFails
  <2>1. errors = 1..N
    <3>1. errors \subseteq 1..N /\ Cardinality(errors) = N
      BY <1>9 DEF ParallelFails, TypeOK, Servers
    <3>2. IsFiniteSet(1..N) /\ Cardinality(1..N) = N
      BY UpstreamAssumption, FS_Interval
    <3>. QED  BY <3>1, <3>2, FS_Subset
  <2>2. FailedServers = 1..N
    BY <2>1 DEF TypeOK, FailedServers, Servers
  <2>3. Client!MayReturn(Failed)
    BY <2>2 DEF Client!MayReturn, FailedServers, Failed, Client!Failed
  <2>. QED  BY <1>3, <1>9, <2>3 DEF ParallelFails
<1>10. CASE AllWorkersEnded
  <2>1. Client!MayReturn(Timeout)
    BY <1>10 DEF AllWorkersEnded, CallerInv, Client!MayReturn, Timeout, Client!Timeout
  <2>. QED  BY <1>3, <1>10, <2>1 DEF AllWorkersEnded
<1>11. ASSUME NEW i \in Servers, Query(i)
       PROVE  Client!ClientNext \/ UNCHANGED Client!clientVars
  <2>1. CASE Dial(i)  BY <1>1, <2>1 DEF Dial
  <2>2. CASE DialFails(i) \/ SeeCancelled(i)
    BY <1>2, <2>2, KindsDiffer DEF DialFails, SeeCancelled
  <2>3. CASE TakeResult(i)
    <3>1. resultChan[i] \in Results \ {Nothing}  BY <2>3 DEF TakeResult, TypeOK
    <3>. QED  BY <1>2, <2>3, <3>1 DEF TakeResult
  <2>. QED  BY <1>11, <2>1, <2>2, <2>3 DEF Query
<1>12. ASSUME NEW i \in Servers, Exchange(i) \/ ReportAnswer(i) \/ ReportError(i)
       PROVE  UNCHANGED Client!clientVars
  BY <1>1, <1>12
  DEF Exchange, ServerAnswers, NetworkFails, ReadAborted, ExchangeEnds, ReportAnswer,
      ReportError, Reports
<1>. QED
  BY <1>4, <1>5, <1>6, <1>7, <1>8, <1>9, <1>10, <1>11, <1>12
  DEF Next, Serial, Collect, Over

\* Resolve loses no answer that is in time to a race of its channels, and tells
\* the three outcomes apart, for any number of servers.
THEOREM Refinement == Spec => ImplementsUpstreamClient
<1>1. Init => Client!ClientInit
  <2>. SUFFICES ASSUME Init PROVE Client!ClientInit  OBVIOUS
  <2>1. Answered = {} /\ FailedServers = {}
    BY KindsDiffer DEF Init, Answered, FailedServers
  <2>. QED
    BY <2>1, UpstreamAssumption
    DEF Init, Client!ClientInit, Answered, FailedServers, Pending, Client!Pending
<1>2. CallInv /\ [Next]_vars => [Client!ClientNext]_(Client!clientVars)
  BY StepMaps
<1>. QED
  BY <1>1, <1>2, CallInit, CallNext, PTL
  DEF Spec, ImplementsUpstreamClient, Client!ClientSpec
=============================================================================
