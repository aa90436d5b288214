------------------------------ MODULE Resolver ------------------------------
(***************************************************************************)
(* services/resolver/resolver.go HandleQuery, composed with the record     *)
(* cache of DnsCache, as the transport runs it: one goroutine per query,   *)
(* and EncodeResponse at its end.                                          *)
(*                                                                         *)
(* The order of resolution is: zone cache, blocklist, upstream cache,      *)
(* upstream servers (whose answer is then cached).  The zone cache and the *)
(* blocklist do not change while queries are served (the zones are loaded  *)
(* before Run), so looking at them is part of the step that acts on what   *)
(* they say.  The upstream servers are the environment: they answer or     *)
(* they fail, and upstream/resolver.go never waits beyond its timeout.     *)
(*                                                                         *)
(* The clock is finer than a second: records expire at any tick, while the *)
(* message carries whole seconds.                                          *)
(*                                                                         *)
(* main.go builds the resolver without an AliasResolver, as is done here.  *)
(* The answer set of one query is a set of records: their order in the     *)
(* message is not modelled.                                                *)
(***************************************************************************)
EXTENDS DnsCache

CONSTANTS
  Questions,   \* the cache keys of the questions clients ask
  Zones,       \* zone contents the server may start with: [Keys -> records]
  Blocked,     \* the questions IsBlocked is true of
  CacheModes,  \* may there be a cache, or none (DNS_DISABLE_CACHE)?
  Second,      \* the ticks of the clock in a second
  Told(_, _),  \* Told(k, t): answers upstream may give at time t to question
               \* k: sets of [key, ttl, data], data.till being the tick
               \* until which the origin vouches for the record
  Rcodes(_),   \* Rcodes(rrs): the response codes such an answer may carry
  ZoneTtl      \* the TTL of the zone's records

\* NewCachedResourceRecord: the record expires its TTL after the time asked.
Cacheable(rrs, t) ==
  {[key |-> r.key, data |-> r.data, exp |-> t + Second * r.ttl] : r \in rrs}

Answers == [rcode : {"NOERROR", "NXDOMAIN", "SERVFAIL"}, rrs : SUBSET Records]

\* A TTL is the number of seconds an origin vouches for its record, and a record
\* of a zone never expires.
ASSUME ResolverAssumption ==
  /\ Second \in Nat \ {0}
  /\ Questions \subseteq Keys
  /\ CacheModes \subseteq BOOLEAN
  /\ Zones \subseteq [Keys -> SUBSET Records]
  /\ \A z \in Zones : \A k \in Keys : \A r \in z[k] : r.exp = Never
  /\ \A k \in Questions, t \in 0..MaxTime : \A rrs \in Told(k, t) :
       /\ \A r \in rrs : r.ttl \in Nat /\ r.data.till = t + Second * r.ttl
       /\ \A u \in 0..t : Cacheable(rrs, u) \in Offers
  /\ NoReply \notin Answers

VARIABLES
  hasCache,  \* r.upstreamCache is not nil
  zone,      \* zone[k]: the authoritative records FindRecords returns for k
  stage,     \* stage[p]: where HandleQuery is on goroutine p
  query,     \* query[p]: question and time of arrival
  asked,     \* asked[p]: the clock.Now() passed to the upstream client, while
             \* it works on p's question (0 otherwise)
  upstream,  \* upstream[p]: the upstream answer in hand, and its rcode
  response,  \* response[p]: the DNSResponse HandleQuery returned
  sent,      \* sent[p]: the message EncodeResponse made of it
  told       \* history: told[k]: the answers upstream has given to k

handler == <<hasCache, zone, stage, query, asked, upstream, response, sent, told>>
vars == <<cacheVars, handler>>

Stages == {"idle", "received", "cache", "upstream", "answered", "respond"}

ResolverInit ==
  /\ CacheInit
  /\ hasCache \in CacheModes
  /\ zone \in Zones
  /\ stage = [p \in Procs |-> "idle"]
  /\ query = [p \in Procs |-> NoCall]
  /\ asked = [p \in Procs |-> 0]
  /\ upstream = [p \in Procs |-> NoReply]
  /\ response = [p \in Procs |-> NoReply]
  /\ sent = [p \in Procs |-> NoReply]
  /\ told = [k \in Keys |-> {}]

Goto(p, s) == stage' = [stage EXCEPT ![p] = s]

\* buildResponse, and the end of HandleQuery.
Respond(p, rcode, rrs) ==
  /\ response' = [response EXCEPT ![p] = [rcode |-> rcode, rrs |-> rrs]]
  /\ Goto(p, "respond")

\* handlePacket has decoded a query and calls HandleQuery.
Receive(p, k) ==
  /\ stage[p] = "idle"
  /\ Goto(p, "received")
  /\ query' = [query EXCEPT ![p] = [key |-> k, at |-> now]]
  /\ response' = [response EXCEPT ![p] = NoReply]
  /\ sent' = [sent EXCEPT ![p] = NoReply]
  /\ UNCHANGED <<cacheVars, hasCache, zone, asked, upstream, told>>

\* 1. The zone cache has records for the question.
AnswerFromZone(p) ==
  /\ stage[p] = "received"
  /\ zone[query[p].key] # {}
  /\ Respond(p, "NOERROR", zone[query[p].key])
  /\ UNCHANGED <<cacheVars, hasCache, zone, query, asked, upstream, sent, told>>

\* Seeded bug: the blocklist is looked at before the zone.
RefuseFirstBug(p) ==
  /\ stage[p] = "received"
  /\ query[p].key \in Blocked
  /\ Respond(p, "NXDOMAIN", {})
  /\ UNCHANGED <<cacheVars, hasCache, zone, query, asked, upstream, sent, told>>

\* 2. The blocklist blocks the question.
RefuseBlocked(p) ==
  /\ stage[p] = "received"
  /\ zone[query[p].key] = {} /\ query[p].key \in Blocked
  /\ Respond(p, "NXDOMAIN", {})
  /\ UNCHANGED <<cacheVars, hasCache, zone, query, asked, upstream, sent, told>>

\* Seeded bug: the upstream is asked without waiting for the cache's answer.
LookAsideBug(p) ==
  /\ stage[p] = "received"
  /\ zone[query[p].key] = {} /\ query[p].key \notin Blocked
  /\ hasCache
  /\ GetCall(p, query[p].key)
  /\ asked' = [asked EXCEPT ![p] = now]
  /\ Goto(p, "upstream")
  /\ UNCHANGED <<hasCache, zone, query, upstream, response, sent, told>>

\* 3. Look in the upstream cache, if there is one.
LookInCache(p) ==
  /\ stage[p] = "received"
  /\ zone[query[p].key] = {} /\ query[p].key \notin Blocked
  /\ hasCache
  /\ GetCall(p, query[p].key)
  /\ Goto(p, "cache")
  /\ UNCHANGED <<hasCache, zone, query, asked, upstream, response, sent, told>>

CacheStep(p) == GetStep(p) /\ UNCHANGED handler

AnswerFromCache(p) ==
  /\ stage[p] = "cache" /\ pc[p] = "idle" /\ reply[p].found
  /\ Respond(p, "NOERROR", reply[p].rrs)
  /\ UNCHANGED <<cacheVars, hasCache, zone, query, asked, upstream, sent, told>>

\* 4. Ask the upstream servers; the clock is read before they are asked.
AskUpstream(p) ==
  /\ \/ stage[p] = "cache" /\ pc[p] = "idle" /\ ~ reply[p].found
     \/ /\ stage[p] = "received" /\ ~ hasCache
        /\ zone[query[p].key] = {} /\ query[p].key \notin Blocked
  /\ asked' = [asked EXCEPT ![p] = now]
  /\ Goto(p, "upstream")
  /\ UNCHANGED <<cacheVars, hasCache, zone, query, upstream, response, sent, told>>

\* A server's answer: queryServerWithContext takes the answer section of the
\* decoded message.
UpstreamAnswers(p, rrs, rcode) ==
  /\ stage[p] = "upstream"
  /\ upstream' = [upstream EXCEPT ![p] =
       [rcode |-> rcode, rrs |-> Cacheable(rrs, asked[p])]]
  /\ told' = [told EXCEPT ![query[p].key] = @ \cup {Cacheable(rrs, asked[p])}]
  /\ asked' = [asked EXCEPT ![p] = 0]
  /\ Goto(p, "answered")
  /\ UNCHANGED <<cacheVars, hasCache, zone, query, response, sent>>

\* Seeded bug: the failure is returned as an error, and no reply is sent.
FailureIsSilentBug(p) ==
  /\ stage[p] = "upstream"
  /\ Goto(p, "idle")
  /\ query' = [query EXCEPT ![p] = NoCall]
  /\ asked' = [asked EXCEPT ![p] = 0]
  /\ UNCHANGED <<cacheVars, hasCache, zone, upstream, response, sent, told>>

\* No server has answered within the timeout, or all have failed.
UpstreamFails(p) ==
  /\ stage[p] = "upstream"
  /\ Respond(p, "SERVFAIL", {})
  /\ asked' = [asked EXCEPT ![p] = 0]
  /\ UNCHANGED <<cacheVars, hasCache, zone, query, upstream, sent, told>>

\* Seeded bug: the answer is stored whether or not the cache is disabled.
StoreAlwaysBug(p) ==
  /\ stage[p] = "answered"
  /\ Set(upstream[p].rrs)
  /\ Respond(p, "NOERROR", upstream[p].rrs)
  /\ UNCHANGED <<hasCache, zone, query, asked, upstream, sent, told>>

\* 5 and 6. Cache the answer, if there is a cache, and respond with it. An error
\* of Set is only logged, and the rcode of the answer is not looked at.
StoreAnswer(p) ==
  /\ stage[p] = "answered"
  /\ IF hasCache THEN Set(upstream[p].rrs) ELSE UNCHANGED cacheVars
  /\ Respond(p, "NOERROR", upstream[p].rrs)
  /\ UNCHANGED <<hasCache, zone, query, asked, upstream, sent, told>>

\* The time a record has left, in ticks.
TTLRemaining(r) ==
  CASE r.exp = Never -> Second * ZoneTtl
    [] r.exp # Never /\ r.exp < now -> 0
    [] OTHER -> r.exp - now

\* Seeded bug: what is left is rounded up to seconds.
WireTTLRoundedUpBug(r) == (TTLRemaining(r) + Second - 1) \div Second

\* The TTL written for a record: uint32(TTLRemaining().Seconds()), the whole
\* seconds it has left.
WireTTL(r) == TTLRemaining(r) \div Second

\* EncodeResponse writes constant flags: their rcode bits are always zero.
WireRcode == "NOERROR"

\* handlePacket encodes the response, and the goroutine ends.
Encode(p) ==
  /\ stage[p] = "respond"
  /\ sent' = [sent EXCEPT ![p] =
       [rcode |-> WireRcode,
        rrs |-> {[rr |-> r, ttl |-> WireTTL(r)] : r \in response[p].rrs}]]
  /\ query' = [query EXCEPT ![p] = NoCall]
  /\ upstream' = [upstream EXCEPT ![p] = NoReply]
  /\ Goto(p, "idle")
  /\ UNCHANGED <<cacheVars, hasCache, zone, asked, response, told>>

UpstreamStep(p) ==
  \/ /\ stage[p] = "upstream"
     /\ \E rrs \in Told(query[p].key, now) :
          \E rcode \in Rcodes(rrs) : UpstreamAnswers(p, rrs, rcode)
  \/ UpstreamFails(p)

HandlerStep(p) ==
  \/ AnswerFromZone(p) \/ RefuseBlocked(p)
  \/ LookInCache(p) \/ CacheStep(p) \/ AnswerFromCache(p)
  \/ AskUpstream(p) \/ StoreAnswer(p) \/ Encode(p)

ResolverNext ==
  \/ Tick /\ UNCHANGED handler
  \/ \E p \in Procs :
       \/ \E k \in Questions : Receive(p, k)
       \/ HandlerStep(p)
       \/ UpstreamStep(p)

\* Goroutines are scheduled, and upstream/resolver.go answers or times out.
Fairness ==
  \A p \in Procs : WF_vars(HandlerStep(p)) /\ WF_vars(UpstreamStep(p))

ResolverSpec == ResolverInit /\ [][ResolverNext]_vars
LiveResolverSpec == ResolverSpec /\ Fairness

-----------------------------------------------------------------------------
(* Properties.                                                             *)

\* Type correctness of the handler. A goroutine has a query exactly while it
\* handles one, and is inside the cache only at its lookup there.
ResolverTypeOK ==
  /\ stage \in [Procs -> Stages]
  /\ query \in [Procs -> {NoCall} \cup [key : Keys, at : 0..MaxTime]]
  /\ \A p \in Procs : stage[p] = "idle" <=> query[p] = NoCall
  /\ \A p \in Procs : call[p] # NoCall =>
       stage[p] = "cache" /\ call[p].key = query[p].key
  /\ asked \in [Procs -> 0..MaxTime]
  /\ response \in [Procs -> {NoReply} \cup Answers]
  /\ zone \in [Keys -> SUBSET Records]

\* A client is never told to keep a record past the moment the origin's answer
\* runs out, however long the answer stayed on its way, in the cache or in the
\* handler, and whatever part of a second is cut from its TTL: counted from now,
\* the seconds sent end no later than those the origin gave.
TtlNeverExtended ==
  [][\A p \in Procs : sent'[p] # sent[p] /\ sent'[p] # NoReply =>
       \A w \in sent'[p].rrs :
         w.rr.exp # Never /\ w.ttl > 0 => now + Second * w.ttl <= w.rr.data.till]_vars

\* The upstream servers never see a question the zone answers or the blocklist
\* blocks, and without a cache nothing is ever stored.
AskedOnlyIfNeeded ==
  /\ \A k \in Keys : told[k] # {} => zone[k] = {} /\ k \notin Blocked
  /\ \A p \in Procs : stage[p] = "upstream" =>
       zone[query[p].key] = {} /\ query[p].key \notin Blocked
  /\ ~ hasCache => cached = {}

\* Refinement: to its clients the resolver is a DnsService.
Service == INSTANCE DnsService WITH
  query <- [p \in Procs |->
              IF stage[p] \in {"idle", "respond"} THEN NoCall ELSE query[p]],
  answer <- response

ImplementsDnsService == Service!ServiceSpec

\* Every query is answered, if only with SERVFAIL.
EveryQueryAnswered ==
  \A p \in Procs : stage[p] = "received" ~> sent[p] # NoReply

-----------------------------------------------------------------------------
(* What the documents say, and the code does not do.                       *)

\* docs/arc42.md: "DNS errors are mapped to appropriate RCodes": the client
\* sees the rcode of the response it is sent.
ClientSeesRcode ==
  \A p \in Procs : sent[p] # NoReply => sent[p].rcode = response[p].rcode
=============================================================================
