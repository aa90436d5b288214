--------------------------- MODULE UpstreamClient ---------------------------
(***************************************************************************)
(* What the resolver may rely on when it forwards a question upstream: one *)
(* call of Resolve returns once, with                                      *)
(*   - the answer of a server that did answer, and in serial mode of the   *)
(*     first one in configured order that did;                             *)
(*   - "failed", only if the query to every server has failed;             *)
(*   - "timeout", only if the deadline of the call has passed or the call  *)
(*     was cancelled.                                                      *)
(*                                                                         *)
(* Source of the promise: the UpstreamClient interface of the resolver     *)
(* (services/resolver/interfaces.go) and the two strategies described in   *)
(* the comments of gateways/upstream/resolver.go.                          *)
(***************************************************************************)
EXTENDS Integers

CONSTANT N  \* the number of servers

VARIABLES
  parallel,  \* the servers are asked all at once, or one after the other
  answered,  \* the servers that have answered
  failed,    \* the servers the query to which has failed
  late,      \* the deadline has passed, or the call was cancelled
  outcome    \* what the call returned

clientVars == <<parallel, answered, failed, late, outcome>>

Answer(i) == [kind |-> "answer", from |-> i]
Pending == [kind |-> "pending", from |-> 0]
Failed == [kind |-> "failed", from |-> 0]
Timeout == [kind |-> "timeout", from |-> 0]

ClientInit ==
  /\ parallel \in BOOLEAN
  /\ answered = {} /\ failed = {} /\ late \in BOOLEAN /\ outcome = Pending

ServerAnswered(i) ==
  /\ i \notin answered \cup failed
  /\ answered' = answered \cup {i}
  /\ UNCHANGED <<parallel, failed, late, outcome>>

ServerFailed(i) ==
  /\ i \notin answered \cup failed
  /\ failed' = failed \cup {i}
  /\ UNCHANGED <<parallel, answered, late, outcome>>

Expire ==
  /\ late' = TRUE
  /\ UNCHANGED <<parallel, answered, failed, outcome>>

MayReturn(a) ==
  \/ \E i \in answered : a = Answer(i) /\ (parallel \/ 1..(i - 1) \subseteq failed)
  \/ a = Failed /\ failed = 1..N
  \/ a = Timeout /\ late

ReturnOutcome(a) ==
  /\ outcome = Pending
  /\ MayReturn(a)
  /\ outcome' = a
  /\ UNCHANGED <<parallel, answered, failed, late>>

ClientNext ==
  \/ \E i \in 1..N : ServerAnswered(i) \/ ServerFailed(i)
  \/ Expire
  \/ \E a \in {Answer(i) : i \in 1..N} \cup {Failed, Timeout} : ReturnOutcome(a)

ClientSpec == ClientInit /\ [][ClientNext]_clientVars
=============================================================================
