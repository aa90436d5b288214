----------------------------- MODULE DnsService -----------------------------
(***************************************************************************)
(* What a client of the resolver may rely on, whatever happens inside:     *)
(* every query gets at most one response, and the response is one of       *)
(*   - the records the zone holds for the question, if it holds any;       *)
(*   - NXDOMAIN, if the zone holds none and the question is blocked;       *)
(*   - otherwise SERVFAIL, or records the upstream servers have told:      *)
(*     either a whole answer to this very question, or what is left of an  *)
(*     earlier answer, and never a record that had expired when the query  *)
(*     was received.                                                       *)
(*                                                                         *)
(* Source of the promise: the resolution order of HandleQuery in           *)
(* services/resolver/resolver.go.                                          *)
(***************************************************************************)
EXTENDS Naturals

CONSTANTS
  Procs,    \* goroutines that handle queries
  Keys,     \* questions: name, type and class
  Blocked,  \* the questions the blocklist blocks
  Never,    \* the expiry of an authoritative record
  NoCall,   \* the goroutine handles no query
  NoReply   \* the goroutine has not responded to its query yet

VARIABLES
  now,     \* the clock
  zone,    \* zone[k]: the authoritative records for the question k
  told,    \* told[k]: the answers upstream servers have given to question k
  query,   \* query[p]: question and time of arrival of the query p handles
  answer   \* answer[p]: the response to the last query p handled

serviceVars == <<now, zone, told, query, answer>>

ExpiredAt(r, t) == r.exp # Never /\ r.exp < t

ServiceInit ==
  /\ now = 0
  /\ told = [k \in Keys |-> {}]
  /\ query = [p \in Procs |-> NoCall]
  /\ answer = [p \in Procs |-> NoReply]

TimePasses ==
  /\ now' = now + 1
  /\ UNCHANGED <<zone, told, query, answer>>

ServersTell(k) ==
  /\ told[k] \subseteq told'[k]
  /\ \A j \in Keys \ {k} : told'[j] = told[j]
  /\ UNCHANGED <<now, zone, query, answer>>

Received(p, k) ==
  /\ query[p] = NoCall
  /\ query' = [query EXCEPT ![p] = [key |-> k, at |-> now]]
  /\ answer' = [answer EXCEPT ![p] = NoReply]
  /\ UNCHANGED <<now, zone, told>>

FromZone(q, a) ==
  zone[q.key] # {} /\ a = [rcode |-> "NOERROR", rrs |-> zone[q.key]]

Refused(q, a) ==
  /\ zone[q.key] = {} /\ q.key \in Blocked
  /\ a = [rcode |-> "NXDOMAIN", rrs |-> {}]

Failed(q, a) ==
  /\ zone[q.key] = {} /\ q.key \notin Blocked
  /\ a = [rcode |-> "SERVFAIL", rrs |-> {}]

\* A whole answer to this question that was still valid when it was asked.
FromUpstream(q, a) ==
  /\ zone[q.key] = {} /\ q.key \notin Blocked
  /\ a.rcode = "NOERROR"
  /\ a.rrs \in told[q.key]
  /\ \A r \in a.rrs : ~ ExpiredAt(r, q.at)

\* What is left of an answer whose records all have the key of the question.
FromMemory(q, a) ==
  /\ zone[q.key] = {} /\ q.key \notin Blocked
  /\ a.rcode = "NOERROR"
  /\ a.rrs # {}
  /\ \A r \in a.rrs : r.key = q.key /\ ~ ExpiredAt(r, q.at)
  /\ \E j \in Keys : \E rs \in told[j] :
       a.rrs \subseteq rs /\ \A r \in rs \ a.rrs : ExpiredAt(r, now)

Responds(p) ==
  /\ query[p] # NoCall
  /\ answer'[p] # NoReply
  /\ \/ FromZone(query[p], answer'[p])
     \/ Refused(query[p], answer'[p])
     \/ Failed(query[p], answer'[p])
     \/ FromUpstream(query[p], answer'[p])
     \/ FromMemory(query[p], answer'[p])
  /\ answer' = [answer EXCEPT ![p] = answer'[p]]
  /\ query' = [query EXCEPT ![p] = NoCall]
  /\ UNCHANGED <<now, zone, told>>

ServiceNext ==
  \/ TimePasses
  \/ \E k \in Keys : ServersTell(k)
  \/ \E p \in Procs : (\E k \in Keys : Received(p, k)) \/ Responds(p)

ServiceSpec == ServiceInit /\ [][ServiceNext]_serviceVars
=============================================================================
