--------------------------- MODULE ResolverProofs ---------------------------
(***************************************************************************)
(* Proofs about Resolver for any goroutines, questions, zones, blocklist,  *)
(* upstream answers and cache capacity: that the handlers use the cache as *)
(* DnsCache expects, so that what is proved of it holds here, the order of *)
(* the sources, that no TTL is extended, and that a client of the server   *)
(* gets what DnsService promises.                                          *)
(***************************************************************************)
EXTENDS Resolver, DnsCacheProofs

-----------------------------------------------------------------------------
(* The inductive invariant.                                                *)

HandlerTypeOK ==
  /\ ResolverTypeOK
  /\ hasCache \in BOOLEAN
  /\ upstream = [p \in Procs |-> upstream[p]]
  /\ sent = [p \in Procs |-> sent[p]]
  /\ told \in [Keys -> SUBSET Offers]
  /\ \A p \in Procs : query[p] # NoCall => query[p].key \in Questions
  /\ \A p \in Procs : stage[p] = "respond" => response[p] # NoReply

\* A query arrives before the cache is called for it, and before the clock is
\* read for the upstream servers.
ClockInv ==
  \A p \in Procs :
    /\ query[p] # NoCall => query[p].at <= now
    /\ call[p] # NoCall => query[p].at <= call[p].at
    /\ stage[p] = "upstream" => query[p].at <= asked[p] /\ asked[p] <= now

\* The sources are asked in their order, each only if those before it had nothing.
SourceInv ==
  /\ AskedOnlyIfNeeded
  /\ \A p \in Procs :
       /\ stage[p] \in {"cache", "upstream", "answered"} =>
            zone[query[p].key] = {} /\ query[p].key \notin Blocked
       /\ stage[p] = "cache" => hasCache

\* What a Get may have returned to query q: nothing, or the rest of one set that
\* was stored under its key.
Remembered(q, a) ==
  \/ a = Miss
  \/ /\ a.rrs \in SUBSET Records
     /\ \A r \in a.rrs : r.key = q.key
     /\ \E g \in given[q.key] : Abstract!Servable(a.rrs, g, q.at)

\* Where the records in hand come from, and that they were alive on arrival.
Fetched(p) ==
  stage[p] = "answered" =>
    /\ upstream[p].rrs \in told[query[p].key]
    /\ \A r \in upstream[p].rrs : ~ Abstract!ExpiredAt(r, query[p].at)

LookedUp(p) ==
  stage[p] = "cache" /\ pc[p] = "idle" => Remembered(query[p], reply[p])

AnswerInv ==
  /\ \A p \in Procs : Fetched(p) /\ LookedUp(p)
  /\ \A k \in Keys : given[k] \subseteq UNION {told[j] : j \in Keys}

\* A record expires no later than the origin said, or it is of a zone.
Timely(r) == r.exp = Never \/ (r.data.till \in Nat /\ r.exp <= r.data.till)

TimelyInv ==
  /\ \A k \in Keys : \A r \in zone[k] : r.exp = Never
  /\ \A k \in Keys : \A g \in told[k] : \A r \in g : Timely(r)
  /\ \A p \in Procs : response[p] # NoReply => \A r \in response[p].rrs : Timely(r)

ResolverInv ==
  CacheInv /\ HandlerTypeOK /\ ClockInv /\ SourceInv /\ AnswerInv /\ TimelyInv

-----------------------------------------------------------------------------
(* Frames.                                                                 *)

\* A goroutine calls the cache only from its lookup there.
LEMMA CallsFromLookup ==
  ASSUME ResolverInv, NEW p \in Procs, stage[p] # "cache"
  PROVE  call[p] = NoCall /\ pc[p] = "idle"
BY DEF ResolverInv, HandlerTypeOK, ResolverTypeOK, CacheInv, ContentInv, TypeInv,
       CacheTypeOK

\* The query a goroutine handles.
LEMMA QueryInHand ==
  ASSUME ResolverInv, NEW p \in Procs, stage[p] # "idle"
  PROVE  /\ query[p] \in [key : Keys, at : 0..MaxTime]
         /\ query[p] # NoCall /\ query[p].key \in Questions
         /\ query[p].at \in Nat /\ query[p].at <= now
<1>1. query[p] \in [key : Keys, at : 0..MaxTime] /\ query[p] # NoCall
  BY DEF ResolverInv, HandlerTypeOK, ResolverTypeOK
<1>2. query[p].key \in Questions /\ query[p].at <= now
  BY <1>1 DEF ResolverInv, HandlerTypeOK, ClockInv
<1>. QED  BY <1>1, <1>2, CacheAssumption

\* A step of a Get concerns nobody else, and nothing but that Get and the LRU.
LEMMA GetStepFrame ==
  ASSUME CacheTypeOK, NEW p \in Procs, GetStep(p)
  PROVE  /\ UNCHANGED <<now, given>>
         /\ pc[p] # "idle" /\ call[p] # NoCall
         /\ call'[p] \in {NoCall, call[p]}
         /\ \A q \in Procs \ {p} :
              call'[q] = call[q] /\ pc'[q] = pc[q] /\ reply'[q] = reply[q]
<1>. USE DEF CacheTypeOK
<1>1. pc[p] # "idle" /\ call[p] # NoCall
  BY DEF GetStep, GetFound, GetMissing, GetCheck, GetKeep, GetDrop
<1>2. CASE GetFound(p)  BY <1>1, <1>2 DEF GetFound, history
<1>3. CASE GetMissing(p) \/ GetDrop(p)
  BY <1>1, <1>3 DEF GetMissing, GetDrop, Return, history
<1>4. CASE GetCheck(p)  BY <1>1, <1>4 DEF GetCheck, history
<1>5. CASE GetKeep(p)  BY <1>1, <1>5 DEF GetKeep, Return, history
<1>. QED  BY <1>2, <1>3, <1>4, <1>5 DEF GetStep

\* A handler calls the cache from its lookup or its store, or leaves it alone.
LEMMA HandlerUsesCache ==
  ASSUME ResolverInv, [ResolverNext]_vars
  PROVE  [CacheNext]_cacheVars
<1>1. CASE UNCHANGED vars  BY <1>1 DEF vars
<1>2. CASE Tick  BY <1>2 DEF CacheNext
<1>3. ASSUME NEW p \in Procs, NEW k \in Questions, Receive(p, k)
      PROVE  UNCHANGED cacheVars
  BY <1>3 DEF Receive
<1>4. ASSUME NEW p \in Procs, HandlerStep(p) PROVE [CacheNext]_cacheVars
  <2>1. CASE \/ AnswerFromZone(p) \/ RefuseBlocked(p) \/ AnswerFromCache(p)
             \/ AskUpstream(p) \/ Encode(p)
    BY <2>1
    DEF AnswerFromZone, RefuseBlocked, AnswerFromCache, AskUpstream, Encode
  <2>2. CASE LookInCache(p)
    <3>1. query[p].key \in Keys  BY <2>2, QueryInHand DEF LookInCache
    <3>. QED  BY <2>2, <3>1 DEF LookInCache, CacheNext
  <2>3. CASE CacheStep(p)  BY <2>3 DEF CacheStep, CacheNext
  <2>4. CASE StoreAnswer(p)
    <3>1. query[p].key \in Keys  BY <2>4, QueryInHand DEF StoreAnswer
    <3>2. upstream[p].rrs \in Offers
      BY <2>4, <3>1 DEF StoreAnswer, ResolverInv, AnswerInv, Fetched, HandlerTypeOK
    <3>. QED  BY <2>4, <3>2 DEF StoreAnswer, CacheNext
  <2>. QED  BY <1>4, <2>1, <2>2, <2>3, <2>4 DEF HandlerStep
<1>5. ASSUME NEW p \in Procs, UpstreamStep(p) PROVE UNCHANGED cacheVars
  BY <1>5 DEF UpstreamStep, UpstreamAnswers, UpstreamFails
<1>. QED  BY <1>1, <1>2, <1>3, <1>4, <1>5 DEF ResolverNext

-----------------------------------------------------------------------------
(* The induction.                                                          *)

\* Nothing has been asked, and the cache is empty.
LEMMA ResolverInitInv == ResolverInit => ResolverInv
<1>. SUFFICES ASSUME ResolverInit PROVE ResolverInv  OBVIOUS
<1>1. CacheInv  BY CacheInvInit DEF ResolverInit
<1>2. now \in 0..MaxTime /\ now = 0 /\ call = [p \in Procs |-> NoCall]
      /\ given = [k \in Keys |-> {}] /\ cached = {} /\ 0 \in 0..MaxTime
  BY CacheAssumption DEF ResolverInit, CacheInit
<1>3. HandlerTypeOK
  BY <1>2, ResolverAssumption
  DEF ResolverInit, HandlerTypeOK, ResolverTypeOK, Stages
<1>4. ClockInv  BY <1>2 DEF ResolverInit, ClockInv
<1>5. SourceInv  BY <1>2 DEF ResolverInit, SourceInv, AskedOnlyIfNeeded
<1>6. AnswerInv  BY <1>2 DEF ResolverInit, AnswerInv, Fetched, LookedUp
<1>7. TimelyInv  BY ResolverAssumption DEF ResolverInit, TimelyInv
<1>. QED  BY <1>1, <1>3, <1>4, <1>5, <1>6, <1>7 DEF ResolverInv

\* A handler's step concerns one goroutine; the clock and the zone are not its own.
LEMMA ZoneIsFixed ==
  ASSUME [ResolverNext]_vars
  PROVE  UNCHANGED <<zone, hasCache>>
BY DEF ResolverNext, vars, handler, HandlerStep, UpstreamStep, Receive, AnswerFromZone,
       RefuseBlocked, LookInCache, CacheStep, AnswerFromCache, AskUpstream, StoreAnswer,
       Encode, UpstreamAnswers, UpstreamFails

\* The records that Cacheable makes of an answer may be stored, and expire neither
\* before the time the servers were asked nor after what the origin said.
LEMMA CacheableAnswer ==
  ASSUME NEW k \in Questions, NEW t \in 0..MaxTime, NEW rrs \in Told(k, t),
         NEW u \in 0..t
  PROVE  /\ Cacheable(rrs, u) \in Offers
         /\ \A r \in Cacheable(rrs, u) :
              r.exp \in Nat /\ u <= r.exp /\ Timely(r)
<1>1. Cacheable(rrs, u) \in Offers  BY ResolverAssumption
<1>2. ASSUME NEW r \in Cacheable(rrs, u)
      PROVE  r.exp \in Nat /\ u <= r.exp /\ Timely(r)
  <2>1. PICK s \in rrs :
          r = [key |-> s.key, data |-> s.data, exp |-> u + Second * s.ttl]
    BY <1>2 DEF Cacheable
  <2>2. s.ttl \in Nat /\ s.data.till = t + Second * s.ttl  BY ResolverAssumption
  <2>3. t \in Nat /\ u \in Nat /\ u <= t  BY CacheAssumption
  <2>4. Second * s.ttl \in Nat  BY <2>2, ResolverAssumption
  <2>5. r.exp = u + Second * s.ttl /\ r.data = s.data  BY <2>1
  <2>. QED  BY <2>2, <2>3, <2>4, <2>5 DEF Timely
<1>. QED  BY <1>1, <1>2

\* Types: where a handler is says whether it has a query and is inside the cache.
LEMMA TypesNext ==
  ASSUME ResolverInv, [ResolverNext]_vars, CacheInv'
  PROVE  HandlerTypeOK'
<1>. USE DEF HandlerTypeOK, ResolverTypeOK
<1>t. /\ HandlerTypeOK /\ CacheTypeOK /\ CacheTypeOK'
      /\ now \in 0..MaxTime /\ now' \in 0..MaxTime
      /\ call \in [Procs -> {NoCall} \cup [key : Keys, at : 0..MaxTime]]
  BY DEF ResolverInv, CacheInv, ContentInv, TypeInv, CacheTypeOK
<1>z. zone' = zone /\ hasCache' = hasCache  BY ZoneIsFixed
<1>s. Stages = {"idle", "received", "cache", "upstream", "answered", "respond"}
  BY DEF Stages
<1>c. ASSUME NEW p \in Procs, call[p] # NoCall PROVE stage[p] = "cache"
  BY <1>t, <1>c
<1>1. ASSUME NEW p \in Procs, NEW k \in Questions, Receive(p, k)
      PROVE  HandlerTypeOK'
  <2>1. [key |-> k, at |-> now] \in [key : Keys, at : 0..MaxTime]
        /\ [key |-> k, at |-> now] # NoCall
    BY <1>t, ResolverAssumption, CacheAssumption
  <2>2. call' = call  BY <1>1 DEF Receive, cacheVars, gets
  <2>. QED  BY <1>t, <1>z, <1>s, <1>c, <1>1, <2>1, <2>2 DEF Receive, Goto
<1>2. ASSUME NEW p \in Procs, NEW c \in {"NOERROR", "NXDOMAIN", "SERVFAIL"},
             NEW rrs \in SUBSET Records, Respond(p, c, rrs), call[p] = NoCall,
             stage[p] # "idle", UNCHANGED <<call, query, sent, told, upstream>>,
             asked' \in [Procs -> 0..MaxTime]
      PROVE  HandlerTypeOK'
  <2>1. [rcode |-> c, rrs |-> rrs] \in Answers  BY DEF Answers
  <2>2. [rcode |-> c, rrs |-> rrs] # NoReply  BY <2>1, ResolverAssumption
  <2>. QED  BY <1>t, <1>z, <1>s, <1>c, <1>2, <2>1, <2>2 DEF Respond, Goto
<1>3. ASSUME NEW p \in Procs, HandlerStep(p) PROVE HandlerTypeOK'
  <2>1. CASE AnswerFromZone(p) \/ RefuseBlocked(p) \/ AnswerFromCache(p) \/ StoreAnswer(p)
    <3>1. stage[p] # "idle" /\ call[p] = NoCall /\ call' = call
      BY <2>1, <1>t, CallsFromLookup
      DEF AnswerFromZone, RefuseBlocked, AnswerFromCache, StoreAnswer, cacheVars, gets,
          Set, CacheTypeOK
    <3>2. query[p].key \in Keys  BY <3>1, QueryInHand
    <3>3. CASE AnswerFromZone(p)
      BY <1>t, <1>2, <3>1, <3>2, <3>3 DEF AnswerFromZone
    <3>4. CASE RefuseBlocked(p)
      BY <1>t, <1>2, <3>1, <3>4 DEF RefuseBlocked
    <3>5. CASE AnswerFromCache(p)
      <4>1. reply[p].rrs \in SUBSET Records
        BY <3>5 DEF AnswerFromCache, ResolverInv, AnswerInv, LookedUp, Remembered, Miss
      <4>. QED  BY <1>t, <1>2, <3>1, <3>5, <4>1 DEF AnswerFromCache
    <3>6. CASE StoreAnswer(p)
      <4>1. upstream[p].rrs \in SUBSET Records
        BY <1>t, <3>2, <3>6, CacheAssumption DEF StoreAnswer, ResolverInv, AnswerInv,
        Fetched
      <4>. QED  BY <1>t, <1>2, <3>1, <3>6, <4>1 DEF StoreAnswer
    <3>. QED  BY <2>1, <3>3, <3>4, <3>5, <3>6
  <2>2. CASE LookInCache(p)
    <3>1. /\ stage[p] = "received" /\ stage' = [stage EXCEPT ![p] = "cache"]
          /\ call' = [call EXCEPT ![p] = [key |-> query[p].key, at |-> now]]
          /\ UNCHANGED <<query, asked, upstream, response, sent, told>>
      BY <2>2 DEF LookInCache, GetCall, Goto
    <3>. QED  BY <1>t, <1>z, <1>s, <1>c, <3>1
  <2>3. CASE CacheStep(p)
    <3>1. UNCHANGED handler /\ call[p] # NoCall /\ call'[p] \in {NoCall, call[p]}
          /\ \A q \in Procs \ {p} : call'[q] = call[q]
      BY <1>t, <2>3, GetStepFrame DEF CacheStep
    <3>2. \A q \in Procs : call'[q] # NoCall =>
            stage[q] = "cache" /\ call'[q].key = query[q].key
      BY <1>t, <3>1
    <3>. QED  BY <1>t, <3>1, <3>2 DEF handler
  <2>4. CASE AskUpstream(p)
    <3>1. /\ stage[p] # "idle" /\ stage' = [stage EXCEPT ![p] = "upstream"]
          /\ asked' = [asked EXCEPT ![p] = now] /\ call' = call
          /\ UNCHANGED <<query, upstream, response, sent, told>>
      BY <2>4 DEF AskUpstream, Goto, cacheVars, gets
    <3>2. call[p] = NoCall
      BY <1>t, <1>c, <2>4 DEF AskUpstream, CacheTypeOK
    <3>. QED  BY <1>t, <1>z, <1>s, <1>c, <3>1, <3>2
  <2>5. CASE Encode(p)
    <3>1. /\ stage[p] = "respond" /\ stage' = [stage EXCEPT ![p] = "idle"]
          /\ query' = [query EXCEPT ![p] = NoCall]
          /\ upstream' = [upstream EXCEPT ![p] = NoReply]
          /\ call' = call /\ UNCHANGED <<asked, response, told>>
          /\ \E m : sent' = [sent EXCEPT ![p] = m]
      BY <2>5 DEF Encode, Goto, cacheVars, gets
    <3>2. upstream' = [q \in Procs |-> upstream'[q]] /\ sent' = [q \in Procs |-> sent'[q]]
      BY <1>t, <3>1
    <3>. QED  BY <1>t, <1>z, <1>s, <1>c, <3>1, <3>2
  <2>. QED  BY <1>3, <2>1, <2>2, <2>3, <2>4, <2>5 DEF HandlerStep
<1>4. ASSUME NEW p \in Procs, NEW rrs \in Told(query[p].key, now), NEW c,
             UpstreamAnswers(p, rrs, c)
      PROVE  HandlerTypeOK'
  <2>1. query[p].key \in Questions /\ query[p].key \in Keys /\ asked[p] \in 0..now
    BY <1>4, <1>t, QueryInHand, CacheAssumption
    DEF UpstreamAnswers, ResolverInv, ClockInv
  <2>2. Cacheable(rrs, asked[p]) \in Offers  BY <1>t, <2>1, CacheableAnswer
  <2>3. told' \in [Keys -> SUBSET Offers]
    BY <1>4, <1>t, <2>1, <2>2 DEF UpstreamAnswers
  <2>4. 0 \in 0..MaxTime  BY CacheAssumption
  <2>5. upstream' = [q \in Procs |-> upstream'[q]]  BY <1>4, <1>t DEF UpstreamAnswers
  <2>6. /\ stage[p] = "upstream" /\ stage' = [stage EXCEPT ![p] = "answered"]
        /\ asked' = [asked EXCEPT ![p] = 0] /\ call' = call
        /\ UNCHANGED <<query, response, sent>>
    BY <1>4 DEF UpstreamAnswers, Goto, cacheVars, gets
  <2>. QED  BY <1>t, <1>z, <1>s, <1>c, <2>3, <2>4, <2>5, <2>6
<1>5. ASSUME NEW p \in Procs, UpstreamFails(p) PROVE HandlerTypeOK'
  <2>1. 0 \in 0..MaxTime  BY CacheAssumption
  <2>2. asked' \in [Procs -> 0..MaxTime]  BY <1>5, <1>t, <2>1 DEF UpstreamFails
  <2>. QED
    BY <1>2, <1>5, <2>2, CallsFromLookup DEF UpstreamFails, cacheVars, gets
<1>6. CASE (Tick /\ UNCHANGED handler) \/ UNCHANGED vars
  BY <1>t, <1>6 DEF Tick, vars, cacheVars, gets, handler
<1>. QED  BY <1>1, <1>3, <1>4, <1>5, <1>6 DEF ResolverNext, UpstreamStep

\* Times: those a handler remembers have been.
LEMMA ClocksNext ==
  ASSUME ResolverInv, [ResolverNext]_vars
  PROVE  ClockInv'
<1>. USE DEF ClockInv
<1>t. /\ CacheTypeOK /\ ResolverTypeOK /\ ClockInv
      /\ stage = [p \in Procs |-> stage[p]] /\ query = [p \in Procs |-> query[p]]
      /\ asked \in [Procs -> 0..MaxTime] /\ call = [p \in Procs |-> call[p]]
  BY DEF ResolverInv, HandlerTypeOK, ResolverTypeOK, CacheInv, ContentInv, TypeInv,
         CacheTypeOK
<1>n. now \in Nat /\ now' \in Nat /\ now <= now'
  BY HandlerUsesCache, ClockMonotone DEF ResolverInv, CacheInv, ContentInv
<1>0. ASSUME NEW q \in Procs, stage'[q] = stage[q], query'[q] = query[q],
             asked'[q] = asked[q], call'[q] \in {call[q], NoCall}
      PROVE  /\ query'[q] # NoCall => query'[q].at <= now'
             /\ call'[q] # NoCall => query'[q].at <= call'[q].at
             /\ stage'[q] = "upstream" => query'[q].at <= asked'[q] /\ asked'[q] <= now'
  <2>1. CASE stage[q] = "idle"
    BY <1>t, <1>0, <2>1, CallsFromLookup DEF ResolverTypeOK
  <2>2. CASE stage[q] # "idle"
    <3>1. query[q].at \in Nat /\ query[q].at <= now  BY <2>2, QueryInHand
    <3>2. asked[q] \in Nat  BY <1>t, CacheAssumption
    <3>. QED  BY <1>t, <1>n, <1>0, <3>1, <3>2
  <2>. QED  BY <2>1, <2>2
<1>1. ASSUME NEW p \in Procs, NEW k \in Questions, Receive(p, k) PROVE ClockInv'
  <2>1. /\ stage'[p] = "received" /\ query'[p].at = now /\ now' = now
        /\ call'[p] = NoCall /\ call' = call /\ asked' = asked
        /\ \A q \in Procs \ {p} : stage'[q] = stage[q] /\ query'[q] = query[q]
    BY <1>1, <1>t, CallsFromLookup DEF Receive, Goto, cacheVars, gets
  <2>. QED  BY <1>n, <1>0, <2>1
<1>2. ASSUME NEW p \in Procs, HandlerStep(p) \/ UpstreamStep(p) PROVE ClockInv'
  <2>1. \A q \in Procs \ {p} : /\ stage'[q] = stage[q] /\ query'[q] = query[q]
                               /\ asked'[q] = asked[q] /\ call'[q] = call[q]
    <3>1. CASE CacheStep(p)
      BY <1>t, <3>1, GetStepFrame DEF CacheStep, handler
    <3>2. CASE LookInCache(p)
      BY <1>t, <3>2 DEF LookInCache, GetCall, Goto
    <3>. QED
      BY <1>2, <1>t, <3>1, <3>2
      DEF HandlerStep, UpstreamStep, AnswerFromZone, RefuseBlocked, AnswerFromCache,
          AskUpstream, StoreAnswer, Encode, UpstreamAnswers, UpstreamFails, Respond, Goto,
          cacheVars, gets, Set
  <2>2. /\ query'[p] # NoCall => query'[p].at <= now'
        /\ call'[p] # NoCall => query'[p].at <= call'[p].at
        /\ stage'[p] = "upstream" => query'[p].at <= asked'[p] /\ asked'[p] <= now'
    <3>1. CASE CacheStep(p)
      BY <1>0, <3>1, <1>t, GetStepFrame DEF CacheStep, handler
    <3>2. CASE LookInCache(p)
      <4>1. query[p].at \in Nat /\ query[p].at <= now
        BY <3>2, QueryInHand DEF LookInCache
      <4>. QED  BY <1>t, <1>n, <3>2, <4>1 DEF LookInCache, GetCall, Goto
    <3>3. CASE AskUpstream(p)
      <4>1. query[p].at \in Nat /\ query[p].at <= now
        BY <3>3, QueryInHand DEF AskUpstream
      <4>2. call'[p] = call[p] /\ now' = now /\ query' = query /\ asked'[p] = now
        BY <1>t, <3>3 DEF AskUpstream, cacheVars, gets
      <4>. QED  BY <1>t, <1>n, <4>1, <4>2
    <3>4. CASE \/ AnswerFromZone(p) \/ RefuseBlocked(p) \/ AnswerFromCache(p)
               \/ StoreAnswer(p) \/ UpstreamStep(p)
      <4>1. /\ query'[p] = query[p] /\ call'[p] = call[p] /\ now' = now
            /\ stage'[p] \in {"respond", "answered"} /\ stage[p] # "idle"
        BY <1>t, <3>4
        DEF AnswerFromZone, RefuseBlocked, AnswerFromCache, StoreAnswer, UpstreamStep,
            UpstreamAnswers, UpstreamFails, Respond, Goto, cacheVars, gets, Set
      <4>. QED  BY <1>t, <4>1
    <3>5. CASE Encode(p)
      <4>1. query'[p] = NoCall /\ call'[p] = NoCall /\ stage'[p] = "idle"
        BY <1>t, <3>5, CallsFromLookup DEF Encode, Goto, cacheVars, gets
      <4>. QED  BY <4>1
    <3>. QED  BY <1>2, <3>1, <3>2, <3>3, <3>4, <3>5 DEF HandlerStep
  <2>. QED  BY <1>0, <2>1, <2>2
<1>3. CASE (Tick /\ UNCHANGED handler) \/ UNCHANGED vars
  BY <1>0, <1>3 DEF Tick, vars, cacheVars, gets, handler
<1>. QED  BY <1>1, <1>2, <1>3 DEF ResolverNext

\* What a handler leaves of the state of the others.
LEMMA OthersKept ==
  ASSUME ResolverInv, NEW p \in Procs, NEW q \in Procs \ {p},
         \/ HandlerStep(p) \/ UpstreamStep(p)
         \/ \E k \in Questions : Receive(p, k)
  PROVE  /\ stage'[q] = stage[q] /\ query'[q] = query[q]
         /\ upstream'[q] = upstream[q] /\ response'[q] = response[q]
         /\ sent'[q] = sent[q]
         /\ pc'[q] = pc[q] /\ reply'[q] = reply[q]
<1>t. CacheTypeOK /\ HandlerTypeOK /\ ResolverTypeOK
  BY DEF ResolverInv, HandlerTypeOK, CacheInv, ContentInv, TypeInv
<1>1. CASE CacheStep(p)
  BY <1>t, <1>1, GetStepFrame DEF CacheStep, handler
<1>2. CASE LookInCache(p)
  BY <1>t, <1>2 DEF LookInCache, GetCall, Goto, ResolverTypeOK, CacheTypeOK
<1>3. CASE StoreAnswer(p)
  BY <1>t, <1>3
  DEF StoreAnswer, Set, Respond, Goto, ResolverTypeOK, cacheVars, gets
<1>4. CASE \/ AnswerFromZone(p) \/ RefuseBlocked(p) \/ AnswerFromCache(p)
           \/ AskUpstream(p) \/ UpstreamFails(p)
  BY <1>t, <1>4
  DEF AnswerFromZone, RefuseBlocked, AnswerFromCache, AskUpstream, UpstreamFails, Respond,
      Goto, ResolverTypeOK, cacheVars, gets
<1>5. CASE Encode(p) \/ \E k \in Questions : Receive(p, k)
  BY <1>t, <1>5
  DEF Encode, Receive, Goto, HandlerTypeOK, ResolverTypeOK, cacheVars, gets
<1>6. ASSUME NEW rrs, NEW c, UpstreamAnswers(p, rrs, c)
      PROVE  /\ stage'[q] = stage[q] /\ query'[q] = query[q]
             /\ upstream'[q] = upstream[q] /\ response'[q] = response[q]
             /\ sent'[q] = sent[q]
             /\ pc'[q] = pc[q] /\ reply'[q] = reply[q]
  BY <1>t, <1>6
  DEF UpstreamAnswers, Goto, HandlerTypeOK, ResolverTypeOK, cacheVars, gets
<1>. QED  BY <1>1, <1>2, <1>3, <1>4, <1>5, <1>6 DEF HandlerStep, UpstreamStep

\* Sources: a handler comes to the next source only if those before had nothing.
LEMMA SourcesNext ==
  ASSUME ResolverInv, [ResolverNext]_vars
  PROVE  SourceInv'
<1>. USE DEF SourceInv
<1>t. /\ CacheTypeOK /\ HandlerTypeOK /\ ResolverTypeOK /\ SourceInv
      /\ \A k \in Keys : told[k] # {} => zone[k] = {} /\ k \notin Blocked
      /\ ~ hasCache => cached = {}
  BY DEF ResolverInv, HandlerTypeOK, CacheInv, ContentInv, TypeInv, AskedOnlyIfNeeded
<1>z. zone' = zone /\ hasCache' = hasCache  BY ZoneIsFixed
<1>0. ASSUME \A p \in Procs :
               /\ stage'[p] \in {"cache", "upstream", "answered"} =>
                    zone[query'[p].key] = {} /\ query'[p].key \notin Blocked
               /\ stage'[p] = "cache" => hasCache,
             \A k \in Keys : told'[k] # {} => zone[k] = {} /\ k \notin Blocked,
             ~ hasCache => cached' = {}
      PROVE  SourceInv'
  BY <1>0, <1>z DEF AskedOnlyIfNeeded
<1>1. ASSUME NEW p \in Procs, told' = told, ~ hasCache => cached' = {},
             \/ HandlerStep(p) \/ UpstreamStep(p)
             \/ \E k \in Questions : Receive(p, k),
             /\ stage'[p] \in {"cache", "upstream", "answered"} =>
                  zone[query'[p].key] = {} /\ query'[p].key \notin Blocked
             /\ stage'[p] = "cache" => hasCache
      PROVE  SourceInv'
  BY <1>0, <1>1, <1>t, OthersKept
<1>2. ASSUME NEW p \in Procs, NEW k \in Questions, Receive(p, k) PROVE SourceInv'
  <2>1. stage'[p] = "received" /\ told' = told /\ cached' = cached
    BY <1>2, <1>t DEF Receive, Goto, ResolverTypeOK, cacheVars, lru
  <2>. QED  BY <1>1, <1>2, <1>t, <2>1
<1>3. ASSUME NEW p \in Procs, HandlerStep(p) PROVE SourceInv'
  <2>0. told' = told /\ (stage'[p] # "idle" => query'[p] = query[p])
    BY <1>3, <1>t
    DEF HandlerStep, AnswerFromZone, RefuseBlocked, LookInCache, CacheStep,
        AnswerFromCache, AskUpstream, StoreAnswer, Encode, handler, Goto, ResolverTypeOK
  <2>1. CASE \/ AnswerFromZone(p) \/ RefuseBlocked(p) \/ AnswerFromCache(p) \/ Encode(p)
    <3>1. stage'[p] \in {"respond", "idle"} /\ cached' = cached
      BY <2>1, <1>t
      DEF AnswerFromZone, RefuseBlocked, AnswerFromCache, Encode, Respond, Goto,
          ResolverTypeOK, cacheVars, lru
    <3>. QED  BY <1>1, <1>3, <1>t, <2>0, <3>1
  <2>2. CASE StoreAnswer(p)
    <3>1. stage'[p] = "respond"
      BY <2>2, <1>t DEF StoreAnswer, Respond, Goto, ResolverTypeOK
    <3>2. ~ hasCache => cached' = {}
      BY <2>2, <1>t DEF StoreAnswer, cacheVars, lru
    <3>. QED  BY <1>1, <1>3, <2>0, <3>1, <3>2
  <2>3. CASE LookInCache(p)
    <3>1. /\ hasCache /\ zone[query[p].key] = {} /\ query[p].key \notin Blocked
          /\ stage'[p] = "cache" /\ UNCHANGED cached
      BY <2>3, <1>t DEF LookInCache, Goto, GetCall, ResolverTypeOK, lru
    <3>. QED  BY <1>1, <1>3, <1>t, <2>0, <3>1
  <2>4. CASE CacheStep(p)
    <3>1. stage' = stage /\ query' = query  BY <2>4 DEF CacheStep, handler
    <3>2. stage[p] = "cache"
      BY <2>4, <1>t, GetStepFrame DEF CacheStep, ResolverTypeOK
    <3>. QED  BY <1>1, <1>3, <1>t, <2>0, <3>1, <3>2
  <2>5. CASE AskUpstream(p)
    <3>1. zone[query[p].key] = {} /\ query[p].key \notin Blocked
      BY <2>5, <1>t DEF AskUpstream
    <3>2. stage'[p] = "upstream" /\ UNCHANGED cached
      BY <2>5, <1>t DEF AskUpstream, Goto, ResolverTypeOK, cacheVars, lru
    <3>. QED  BY <1>1, <1>3, <1>t, <2>0, <3>1, <3>2
  <2>. QED  BY <1>3, <2>1, <2>2, <2>3, <2>4, <2>5 DEF HandlerStep
<1>4. ASSUME NEW p \in Procs, UpstreamStep(p) PROVE SourceInv'
  <2>0. /\ stage[p] = "upstream" /\ query' = query /\ cached' = cached
        /\ stage'[p] \in {"answered", "respond"}
    BY <1>4, <1>t
    DEF UpstreamStep, UpstreamAnswers, UpstreamFails, Respond, Goto, ResolverTypeOK,
        cacheVars, lru
  <2>1. zone[query[p].key] = {} /\ query[p].key \notin Blocked  BY <1>t, <2>0
  <2>2. CASE UpstreamFails(p)
    BY <1>1, <1>4, <1>t, <2>0, <2>1, <2>2 DEF UpstreamFails
  <2>3. ASSUME NEW rrs, NEW c, UpstreamAnswers(p, rrs, c) PROVE SourceInv'
    <3>1. \A k \in Keys : told'[k] # {} => told[k] # {} \/ k = query[p].key
      BY <1>t, <2>3 DEF UpstreamAnswers, HandlerTypeOK
    <3>2. \A k \in Keys : told'[k] # {} => zone[k] = {} /\ k \notin Blocked
      BY <1>t, <2>1, <3>1
    <3>3. \A q \in Procs : stage'[q] = stage[q] \/ q = p
      BY <1>4, OthersKept
    <3>. QED  BY <1>0, <1>t, <2>0, <2>1, <3>2, <3>3
  <2>. QED  BY <1>4, <2>2, <2>3 DEF UpstreamStep
<1>5. CASE (Tick /\ UNCHANGED handler) \/ UNCHANGED vars
  BY <1>t, <1>5 DEF Tick, vars, cacheVars, lru, handler, AskedOnlyIfNeeded
<1>. QED  BY <1>2, <1>3, <1>4, <1>5 DEF ResolverNext

\* What may be served to a lookup of time t may be served later, and to an earlier
\* lookup.
LEMMA ServableLater ==
  ASSUME now \in Nat, now' \in Nat, now <= now', NEW g \in SUBSET Records,
         NEW part, NEW t, Abstract!Servable(part, g, t)
  PROVE  Abstract!Servable(part, g, t)'
<1>1. \A r \in g : r.exp = Never \/ r.exp \in Nat
  BY CacheAssumption DEF Records
<1>2. \A r \in g \ part : Abstract!ExpiredAt(r, now)'
  BY <1>1 DEF Abstract!Servable, Abstract!ExpiredAt
<1>. QED  BY <1>2 DEF Abstract!Servable, Abstract!ExpiredAt

\* What may be served later may be served now.
LEMMA ServableEarlier ==
  ASSUME NEW g \in SUBSET Records, NEW part, NEW t \in Nat, NEW u \in Nat, u <= t,
         Abstract!Servable(part, g, t)
  PROVE  Abstract!Servable(part, g, u)
<1>1. \A r \in g : r.exp = Never \/ r.exp \in Nat
  BY CacheAssumption DEF Records
<1>2. \A r \in part : ~ Abstract!ExpiredAt(r, u)
  BY <1>1 DEF Abstract!Servable, Abstract!ExpiredAt
<1>. QED  BY <1>2 DEF Abstract!Servable

\* Only Set gives the cache anything, and it takes nothing back.
LEMMA GivenGrows ==
  ASSUME CacheInv, [CacheNext]_cacheVars, NEW k \in Keys
  PROVE  given[k] \subseteq given'[k]
<1>t. CacheTypeOK  BY DEF CacheInv, ContentInv, TypeInv
<1>1. ASSUME NEW rs, Set(rs) PROVE given[k] \subseteq given'[k]
  BY <1>t, <1>1 DEF Set, CacheTypeOK, history
<1>2. ASSUME NEW p \in Procs, GetStep(p) PROVE given' = given
  BY <1>t, <1>2, GetStepFrame
<1>. QED  BY <1>1, <1>2 DEF CacheNext, cacheVars, history, Tick, Delete, GetCall

\* What the cache had for a lookup stays remembered as time goes on and more is stored.
LEMMA RememberedLater ==
  ASSUME CacheInv, [CacheNext]_cacheVars,
         NEW q \in [key : Keys, at : 0..MaxTime], NEW a, Remembered(q, a)
  PROVE  Remembered(q, a)'
<1>n. now \in Nat /\ now' \in Nat /\ now <= now'
  BY ClockMonotone DEF CacheInv, ContentInv
<1>1. CASE a = Miss  BY <1>1 DEF Remembered, Miss
<1>2. CASE a # Miss
  <2>1. PICK g \in given[q.key] : Abstract!Servable(a.rrs, g, q.at)
    BY <1>2 DEF Remembered
  <2>2. g \in SUBSET Records /\ g \in given'[q.key]
    BY <2>1, GivenGrows DEF CacheInv, ContentInv, TypeInv, CacheTypeOK
  <2>3. Abstract!Servable(a.rrs, g, q.at)'  BY <1>n, <2>1, <2>2, ServableLater
  <2>. QED  BY <1>2, <2>2, <2>3 DEF Remembered
<1>. QED  BY <1>1, <1>2

\* The answers upstream has given stay on record.
LEMMA ToldGrows ==
  ASSUME ResolverInv, [ResolverNext]_vars, NEW k \in Keys
  PROVE  told[k] \subseteq told'[k]
<1>1. ASSUME NEW p \in Procs, NEW rrs, NEW c, UpstreamAnswers(p, rrs, c)
      PROVE  told[k] \subseteq told'[k]
  BY <1>1 DEF UpstreamAnswers, ResolverInv, HandlerTypeOK
<1>2. ASSUME NEW p \in Procs, UpstreamFails(p) \/ HandlerStep(p) PROVE told' = told
  BY <1>2
  DEF HandlerStep, AnswerFromZone, RefuseBlocked, LookInCache, CacheStep, AnswerFromCache,
      AskUpstream, StoreAnswer, Encode, UpstreamFails, handler
<1>. QED  BY <1>1, <1>2 DEF ResolverNext, UpstreamStep, Receive, vars, handler

\* How the answer of a Get comes to be what DnsCache promises.
LEMMA GetReturnsRemembered ==
  ASSUME ResolverInv, NEW p \in Procs, CacheStep(p), pc'[p] = "idle"
  PROVE  Remembered(query[p], reply[p])'
<1>t. CacheTypeOK /\ ResolverTypeOK /\ ClockInv /\ CacheInv
  BY DEF ResolverInv, HandlerTypeOK, CacheInv, ContentInv, TypeInv
<1>0. /\ UNCHANGED <<now, given, query>> /\ call[p] # NoCall /\ GetStep(p)
      /\ stage[p] = "cache" /\ call[p].key = query[p].key
  BY <1>t, GetStepFrame DEF CacheStep, handler, ResolverTypeOK
<1>1. CASE GetFound(p) \/ GetCheck(p)
  BY <1>t, <1>1 DEF GetFound, GetCheck, CacheTypeOK
<1>2. CASE GetMissing(p) \/ GetDrop(p)
  BY <1>t, <1>2 DEF GetMissing, GetDrop, Return, CacheTypeOK, Remembered, Miss
<1>3. CASE GetKeep(p)
  <2>1. /\ call[p] \in [key : Keys, at : 0..MaxTime]
        /\ valid[p] \in SUBSET Records /\ \A r \in valid[p] : r.key = call[p].key
    BY <1>t, <1>3, KeepServes
  <2>2. PICK g \in given[call[p].key] : Abstract!Servable(valid[p], g, call[p].at)
    BY <1>t, <1>3, KeepServes
  <2>3. g \in SUBSET Records  BY <1>t, <2>1, <2>2 DEF CacheTypeOK
  <2>4. /\ query[p].at \in Nat /\ call[p].at \in Nat /\ query[p].at <= call[p].at
    BY <1>t, <1>0, <2>1, QueryInHand, CacheAssumption DEF ClockInv
  <2>5. Abstract!Servable(valid[p], g, query[p].at)
    BY <2>2, <2>3, <2>4, ServableEarlier
  <2>6. reply'[p].rrs = valid[p]
    BY <1>t, <1>3 DEF GetKeep, Return, Hit, CacheTypeOK
  <2>. QED
    BY <1>0, <2>1, <2>2, <2>5, <2>6
    DEF Remembered, Abstract!Servable, Abstract!ExpiredAt
<1>. QED  BY <1>0, <1>1, <1>2, <1>3 DEF GetStep

\* Answers: what a handler has in hand came from the source its state names.
LEMMA AnswersNext ==
  ASSUME ResolverInv, [ResolverNext]_vars, HandlerTypeOK'
  PROVE  AnswerInv'
<1>t. /\ CacheTypeOK /\ HandlerTypeOK /\ ResolverTypeOK /\ CacheInv
      /\ [CacheNext]_cacheVars
  BY HandlerUsesCache DEF ResolverInv, HandlerTypeOK, CacheInv, ContentInv, TypeInv
<1>0. ASSUME NEW q \in Procs, stage'[q] = stage[q], query'[q] = query[q],
             upstream'[q] = upstream[q], pc'[q] = pc[q], reply'[q] = reply[q]
      PROVE  Fetched(q)' /\ LookedUp(q)'
  <2>1. CASE stage[q] = "idle"  BY <1>0, <2>1 DEF Fetched, LookedUp
  <2>2. CASE stage[q] # "idle"
    <3>1. query[q] \in [key : Keys, at : 0..MaxTime]  BY <2>2, QueryInHand
    <3>2. told[query[q].key] \subseteq told'[query[q].key]  BY <3>1, ToldGrows
    <3>3. Fetched(q) /\ LookedUp(q)  BY DEF ResolverInv, AnswerInv
    <3>4. Fetched(q)'  BY <1>0, <3>2, <3>3 DEF Fetched, Abstract!ExpiredAt
    <3>5. LookedUp(q)'
      <4>1. CASE ~ (stage[q] = "cache" /\ pc[q] = "idle")
        BY <1>0, <4>1 DEF LookedUp
      <4>2. CASE stage[q] = "cache" /\ pc[q] = "idle"
        <5>1. PICK c, a : c = query[q] /\ a = reply[q]  OBVIOUS
        <5>2. Remembered(c, a)  BY <3>3, <4>2, <5>1 DEF LookedUp
        <5>3. Remembered(c, a)'  BY <1>t, <3>1, <5>1, <5>2, RememberedLater
        <5>. QED
          BY <1>0, <5>1, <5>3
          DEF LookedUp, Remembered, Miss, Abstract!Servable, Abstract!ExpiredAt
      <4>. QED  BY <4>1, <4>2
    <3>. QED  BY <3>4, <3>5
  <2>. QED  BY <2>1, <2>2
<1>1. ASSUME NEW p \in Procs,
             \/ HandlerStep(p) \/ UpstreamStep(p)
             \/ \E k \in Questions : Receive(p, k)
      PROVE  \A q \in Procs : Fetched(q)' /\ LookedUp(q)'
  <2>1. ASSUME NEW q \in Procs \ {p} PROVE Fetched(q)' /\ LookedUp(q)'
    BY <1>0, <1>1, OthersKept
  <2>2. Fetched(p)' /\ LookedUp(p)'
    <3>1. CASE stage'[p] \in {"idle", "received", "upstream", "respond"}
      BY <3>1 DEF Fetched, LookedUp
    <3>2. CASE LookInCache(p)
      <4>1. stage'[p] = "cache" /\ pc'[p] = "lookup"
        BY <1>t, <3>2 DEF LookInCache, GetCall, Goto, CacheTypeOK, ResolverTypeOK
      <4>. QED  BY <4>1 DEF Fetched, LookedUp
    <3>3. CASE CacheStep(p)
      <4>1. stage'[p] = "cache"
        BY <1>t, <3>3, GetStepFrame DEF CacheStep, handler, ResolverTypeOK
      <4>2. pc'[p] = "idle" => Remembered(query[p], reply[p])'
        BY <3>3, GetReturnsRemembered
      <4>. QED  BY <4>1, <4>2 DEF Fetched, LookedUp
    <3>4. ASSUME NEW rrs \in Told(query[p].key, now), NEW c, UpstreamAnswers(p, rrs, c)
          PROVE  Fetched(p)' /\ LookedUp(p)'
      <4>1. /\ stage[p] = "upstream" /\ stage'[p] = "answered" /\ query' = query
            /\ told' = [told EXCEPT ![query[p].key] = @ \cup {Cacheable(rrs, asked[p])}]
            /\ upstream'[p].rrs = Cacheable(rrs, asked[p])
        BY <1>t, <3>4 DEF UpstreamAnswers, Goto, HandlerTypeOK, ResolverTypeOK
      <4>2. query[p].key \in Questions /\ query[p].key \in Keys /\ query[p].at \in Nat
        BY <4>1, QueryInHand
      <4>3. asked[p] \in 0..now /\ query[p].at <= asked[p] /\ now \in 0..MaxTime
        BY <1>t, <4>1, CacheAssumption
        DEF ResolverInv, ClockInv, ResolverTypeOK, CacheTypeOK
      <4>4. \A r \in Cacheable(rrs, asked[p]) : r.exp \in Nat /\ asked[p] <= r.exp
        BY <4>2, <4>3, CacheableAnswer
      <4>5. now \in Nat /\ asked[p] \in Nat  BY <4>3, CacheAssumption
      <4>6. \A r \in upstream'[p].rrs : ~ Abstract!ExpiredAt(r, query[p].at)
        BY <4>1, <4>2, <4>3, <4>4, <4>5 DEF Abstract!ExpiredAt
      <4>7. upstream'[p].rrs \in told'[query[p].key]
        BY <1>t, <4>1, <4>2 DEF HandlerTypeOK
      <4>. QED
        BY <4>1, <4>6, <4>7 DEF Fetched, LookedUp, Abstract!ExpiredAt
    <3>5. CASE \/ AnswerFromZone(p) \/ RefuseBlocked(p) \/ AnswerFromCache(p)
               \/ AskUpstream(p) \/ StoreAnswer(p) \/ Encode(p) \/ UpstreamFails(p)
               \/ \E k \in Questions : Receive(p, k)
      <4>1. stage'[p] \in {"idle", "received", "upstream", "respond"}
        BY <1>t, <3>5
        DEF AnswerFromZone, RefuseBlocked, AnswerFromCache, AskUpstream, StoreAnswer,
            Encode, UpstreamFails, Receive, Respond, Goto, ResolverTypeOK
      <4>. QED  BY <3>1, <4>1
    <3>. QED  BY <1>1, <3>2, <3>3, <3>4, <3>5 DEF HandlerStep, UpstreamStep
  <2>. QED  BY <2>1, <2>2
<1>2. ASSUME (Tick /\ UNCHANGED handler) \/ UNCHANGED vars
      PROVE  \A q \in Procs : Fetched(q)' /\ LookedUp(q)'
  BY <1>0, <1>2 DEF Tick, vars, cacheVars, gets, handler
<1>3. \A q \in Procs : Fetched(q)' /\ LookedUp(q)'
  BY <1>1, <1>2 DEF ResolverNext
<1>4. ASSUME NEW k \in Keys PROVE given'[k] \subseteq UNION {told'[j] : j \in Keys}
  <2>1. given[k] \subseteq UNION {told'[j] : j \in Keys}
    BY ToldGrows DEF ResolverInv, AnswerInv
  <2>2. ASSUME NEW p \in Procs, StoreAnswer(p)
        PROVE  given'[k] \subseteq given[k] \cup {upstream[p].rrs}
    BY <1>t, <2>2 DEF StoreAnswer, Set, cacheVars, history, CacheTypeOK
  <2>3. ASSUME NEW p \in Procs, StoreAnswer(p)
        PROVE  upstream[p].rrs \in UNION {told'[j] : j \in Keys}
    <3>1. query[p].key \in Keys  BY <2>3, QueryInHand DEF StoreAnswer
    <3>2. upstream[p].rrs \in told'[query[p].key]
      BY <2>3, <3>1, ToldGrows DEF StoreAnswer, ResolverInv, AnswerInv, Fetched
    <3>. QED  BY <3>1, <3>2
  <2>4. CASE UNCHANGED given  BY <2>1, <2>4
  <2>5. UNCHANGED given \/ \E p \in Procs : StoreAnswer(p)
    <3>1. ASSUME NEW p \in Procs, HandlerStep(p)
          PROVE  UNCHANGED given \/ StoreAnswer(p)
      BY <1>t, <3>1, GetStepFrame
      DEF HandlerStep, AnswerFromZone, RefuseBlocked, LookInCache, CacheStep,
          AnswerFromCache, AskUpstream, Encode, GetCall, cacheVars, history
    <3>. QED
      BY <3>1
      DEF ResolverNext, UpstreamStep, UpstreamAnswers, UpstreamFails, Receive, Tick, vars,
          cacheVars, history
  <2>. QED  BY <2>1, <2>2, <2>3, <2>4, <2>5
<1>. QED  BY <1>3, <1>4 DEF AnswerInv

\* Expiries: no record in the cache or in hand lives longer than the origin said.
LEMMA TimelyNext ==
  ASSUME ResolverInv, [ResolverNext]_vars
  PROVE  TimelyInv'
<1>t. /\ CacheTypeOK /\ HandlerTypeOK /\ ResolverTypeOK /\ CacheInv /\ TimelyInv
  BY DEF ResolverInv, HandlerTypeOK, CacheInv, ContentInv, TypeInv
<1>z. zone' = zone  BY ZoneIsFixed
<1>g. \A k \in Keys : \A g \in given[k] : \A r \in g : Timely(r)
  BY <1>t DEF ResolverInv, AnswerInv, TimelyInv
<1>0. ASSUME \A k \in Keys : \A g \in told'[k] : \A r \in g : Timely(r),
             \A q \in Procs : response'[q] # NoReply =>
               \A r \in response'[q].rrs : Timely(r)
      PROVE  TimelyInv'
  BY <1>0, <1>t, <1>z DEF TimelyInv, Timely
<1>1. ASSUME NEW p \in Procs, told' = told,
             \/ HandlerStep(p) \/ UpstreamStep(p)
             \/ \E k \in Questions : Receive(p, k),
             response'[p] # NoReply => \A r \in response'[p].rrs : Timely(r)
      PROVE  TimelyInv'
  <2>1. \A q \in Procs : response'[q] # NoReply =>
          \A r \in response'[q].rrs : Timely(r)
    BY <1>1, <1>t, OthersKept DEF TimelyInv
  <2>. QED  BY <1>0, <1>1, <1>t, <2>1 DEF TimelyInv
<1>2. ASSUME NEW p \in Procs, NEW k \in Questions, Receive(p, k) PROVE TimelyInv'
  BY <1>1, <1>2, <1>t DEF Receive, ResolverTypeOK
<1>3. ASSUME NEW p \in Procs, HandlerStep(p) PROVE TimelyInv'
  <2>0. told' = told
    BY <1>3
    DEF HandlerStep, AnswerFromZone, RefuseBlocked, LookInCache, CacheStep,
        AnswerFromCache, AskUpstream, StoreAnswer, Encode, handler
  <2>1. ASSUME NEW c, NEW rrs, Respond(p, c, rrs), \A r \in rrs : Timely(r)
        PROVE  TimelyInv'
    <3>1. response'[p].rrs = rrs  BY <1>t, <2>1 DEF Respond, ResolverTypeOK
    <3>. QED  BY <1>1, <1>3, <2>0, <2>1, <3>1
  <2>2. CASE AnswerFromZone(p)
    <3>1. query[p].key \in Keys  BY <2>2, QueryInHand DEF AnswerFromZone
    <3>2. \A r \in zone[query[p].key] : Timely(r)  BY <1>t, <3>1 DEF TimelyInv, Timely
    <3>. QED  BY <2>1, <2>2, <3>2 DEF AnswerFromZone
  <2>3. CASE RefuseBlocked(p)  BY <2>1, <2>3 DEF RefuseBlocked
  <2>4. CASE AnswerFromCache(p)
    <3>1. Remembered(query[p], reply[p]) /\ query[p].key \in Keys
      BY <2>4, QueryInHand DEF AnswerFromCache, ResolverInv, AnswerInv, LookedUp
    <3>2. \A r \in reply[p].rrs : Timely(r)
      BY <1>g, <3>1 DEF Remembered, Miss, Abstract!Servable
    <3>. QED  BY <2>1, <2>4, <3>2 DEF AnswerFromCache
  <2>5. CASE StoreAnswer(p)
    <3>1. upstream[p].rrs \in told[query[p].key] /\ query[p].key \in Keys
      BY <2>5, QueryInHand DEF StoreAnswer, ResolverInv, AnswerInv, Fetched
    <3>2. \A r \in upstream[p].rrs : Timely(r)  BY <1>t, <3>1 DEF TimelyInv
    <3>. QED  BY <2>1, <2>5, <3>2 DEF StoreAnswer
  <2>6. CASE LookInCache(p) \/ CacheStep(p) \/ AskUpstream(p) \/ Encode(p)
    <3>1. response' = response
      BY <2>6 DEF LookInCache, CacheStep, AskUpstream, Encode, handler
    <3>. QED  BY <1>1, <1>3, <1>t, <2>0, <3>1 DEF TimelyInv
  <2>. QED  BY <1>3, <2>2, <2>3, <2>4, <2>5, <2>6 DEF HandlerStep
<1>4. ASSUME NEW p \in Procs, stage[p] = "upstream", NEW rrs \in Told(query[p].key, now),
             NEW c, UpstreamAnswers(p, rrs, c)
      PROVE  TimelyInv'
  <2>1. query[p].key \in Questions /\ query[p].key \in Keys  BY <1>4, QueryInHand
  <2>2. asked[p] \in 0..now /\ now \in 0..MaxTime
    BY <1>t, <1>4, CacheAssumption DEF ResolverInv, ClockInv, ResolverTypeOK, CacheTypeOK
  <2>3. \A r \in Cacheable(rrs, asked[p]) : Timely(r)  BY <2>1, <2>2, CacheableAnswer
  <2>4. \A k \in Keys : \A g \in told'[k] : \A r \in g : Timely(r)
    BY <1>t, <1>4, <2>1, <2>3 DEF UpstreamAnswers, HandlerTypeOK, TimelyInv
  <2>5. response' = response  BY <1>4 DEF UpstreamAnswers
  <2>. QED  BY <1>0, <1>t, <2>4, <2>5 DEF TimelyInv
<1>5. ASSUME NEW p \in Procs, UpstreamFails(p) PROVE TimelyInv'
  <2>1. told' = told /\ response'[p].rrs = {}
    BY <1>t, <1>5 DEF UpstreamFails, Respond, ResolverTypeOK
  <2>. QED  BY <1>1, <1>5, <2>1 DEF UpstreamStep
<1>6. CASE (Tick /\ UNCHANGED handler) \/ UNCHANGED vars
  BY <1>0, <1>6, <1>t DEF TimelyInv, vars, handler
<1>. QED  BY <1>2, <1>3, <1>4, <1>5, <1>6 DEF ResolverNext, UpstreamStep

\* The invariant, of which each part needs those before it.
LEMMA ResolverInvNext == ResolverInv /\ [ResolverNext]_vars => ResolverInv'
<1>. SUFFICES ASSUME ResolverInv, [ResolverNext]_vars PROVE ResolverInv'  OBVIOUS
<1>1. CacheInv'  BY HandlerUsesCache, CacheInvNext DEF ResolverInv
<1>2. HandlerTypeOK'  BY <1>1, TypesNext
<1>3. ClockInv' /\ SourceInv' /\ AnswerInv' /\ TimelyInv'
  BY <1>2, ClocksNext, SourcesNext, AnswersNext, TimelyNext
<1>. QED  BY <1>1, <1>2, <1>3 DEF ResolverInv

\* So the invariant of the server always holds.
LEMMA ResolverInvariant == ResolverSpec => []ResolverInv
BY ResolverInitInv, ResolverInvNext, PTL DEF ResolverSpec

-----------------------------------------------------------------------------
(* The theorems.                                                           *)

\* The goroutines HandleQuery runs on call the record cache in no other way than
\* DnsCache allows, and what the servers answer is fit to be stored.
LEMMA CacheIsUsedWell == ResolverSpec => CacheSpec
<1>1. ResolverInit => CacheInit  BY DEF ResolverInit
<1>2. ResolverInv /\ [ResolverNext]_vars => [CacheNext]_cacheVars
  BY HandlerUsesCache
<1>. QED
  BY <1>1, <1>2, ResolverInvariant, PTL DEF ResolverSpec, CacheSpec

\* So what is proved of the cache holds while the server runs: the size bound,
\* entries that are never mixed, staleness only by overlap, and the promise of
\* LossyCache.
COROLLARY CacheInServer ==
  ResolverSpec => /\ []SizeBounded /\ []OneSetPerEntry /\ []StaleOnlyByOverlap
                  /\ LiveEntryLeaves /\ ImplementsLossyCache
BY CacheIsUsedWell, SizeCorrect, OneSetCorrect, StaleOnlyByOverlapCorrect,
   LiveEntryLeavesCorrect, CacheRefinement

\* Type correctness of the handlers: a goroutine has a query exactly while it
\* handles one, and is inside the cache only at its lookup there.
THEOREM ResolverTypeCorrect == ResolverSpec => []ResolverTypeOK
<1>1. ResolverInv => ResolverTypeOK  BY DEF ResolverInv, HandlerTypeOK
<1>. QED  BY <1>1, ResolverInvariant, PTL

\* The upstream servers never see a question the zone answers or the blocklist
\* blocks, and nothing is stored when the cache is disabled.
THEOREM SourcesInOrder == ResolverSpec => []AskedOnlyIfNeeded
<1>1. ResolverInv => AskedOnlyIfNeeded  BY DEF ResolverInv, SourceInv
<1>. QED  BY <1>1, ResolverInvariant, PTL

\* The whole seconds in a number of ticks are no more than the ticks.
LEMMA WholeSeconds ==
  ASSUME NEW x \in Nat
  PROVE  x \div Second \in Nat /\ Second * (x \div Second) <= x
BY ResolverAssumption

\* A message is sent by Encode only, and none of its TTLs reaches beyond what the
\* origin said.
LEMMA SentIsTimely ==
  ASSUME ResolverInv, ResolverNext, NEW p \in Procs,
         sent'[p] # sent[p], sent'[p] # NoReply,
         NEW w \in sent'[p].rrs, w.rr.exp # Never, w.ttl > 0
  PROVE  now + Second * w.ttl <= w.rr.data.till
<1>t. CacheTypeOK /\ HandlerTypeOK /\ ResolverTypeOK
  BY DEF ResolverInv, HandlerTypeOK, CacheInv, ContentInv, TypeInv
<1>1. ASSUME NEW q \in Procs, HandlerStep(q) \/ UpstreamStep(q)
      PROVE  q = p /\ Encode(p)
  <2>1. q = p  BY <1>1, OthersKept
  <2>. QED
    BY <1>1, <2>1
    DEF HandlerStep, UpstreamStep, AnswerFromZone, RefuseBlocked, LookInCache, CacheStep,
        AnswerFromCache, AskUpstream, StoreAnswer, UpstreamAnswers, UpstreamFails, handler
<1>2. ASSUME NEW q \in Procs, NEW k \in Questions, Receive(q, k) PROVE FALSE
  BY <1>2, <1>t DEF Receive, HandlerTypeOK
<1>3. Encode(p)  BY <1>1, <1>2 DEF ResolverNext, handler
<1>4. stage[p] = "respond" /\ response[p] # NoReply /\ response[p].rrs \in SUBSET Records
  BY <1>t, <1>3 DEF Encode, HandlerTypeOK, ResolverTypeOK, Answers
<1>5. PICK r \in response[p].rrs : w = [rr |-> r, ttl |-> WireTTL(r)]
  BY <1>t, <1>3 DEF Encode, HandlerTypeOK
<1>6. w.rr = r /\ r.exp \in Nat /\ now \in Nat
  <2>1. w.rr = r /\ r.exp # Never /\ r \in Records  BY <1>4, <1>5
  <2>2. r.exp \in Expiries  BY <2>1 DEF Records
  <2>3. now \in Nat  BY <1>t, CacheAssumption DEF CacheTypeOK
  <2>. QED  BY <2>1, <2>2, <2>3, CacheAssumption
<1>7. r.data.till \in Nat /\ r.exp <= r.data.till
  BY <1>4, <1>5 DEF ResolverInv, TimelyInv, Timely
<1>8. r.exp < now => TTLRemaining(r) = 0  BY <1>5, <1>6 DEF TTLRemaining
<1>9. ~ (r.exp < now) => TTLRemaining(r) = r.exp - now
  BY <1>5, <1>6 DEF TTLRemaining
<1>10. TTLRemaining(r) \in Nat  BY <1>6, <1>8, <1>9
<1>11. w.ttl \in Nat /\ Second * w.ttl <= TTLRemaining(r)
  BY <1>5, <1>10, WholeSeconds DEF WireTTL
<1>12. w.ttl # 0 => Second * w.ttl # 0
  BY <1>11, ResolverAssumption
<1>13. Second * w.ttl \in Nat  BY <1>11, ResolverAssumption
<1>14. TTLRemaining(r) = r.exp - now
  BY <1>6, <1>8, <1>9, <1>11, <1>12, <1>13
<1>15. now + Second * w.ttl <= r.exp  BY <1>6, <1>11, <1>13, <1>14
<1>. QED  BY <1>5, <1>6, <1>7, <1>13, <1>15

\* A client is never told to keep a record past the moment the origin's answer
\* runs out, however long the answer was on its way, in the cache or in a handler.
THEOREM TtlNeverExtendedCorrect == ResolverSpec => TtlNeverExtended
<1>1. ResolverInv /\ [ResolverNext]_vars =>
        [\A p \in Procs : sent'[p] # sent[p] /\ sent'[p] # NoReply =>
           \A w \in sent'[p].rrs :
             w.rr.exp # Never /\ w.ttl > 0 =>
               now + Second * w.ttl <= w.rr.data.till]_vars
  BY SentIsTimely
<1>. QED  BY <1>1, ResolverInvariant, PTL DEF ResolverSpec, TtlNeverExtended

-----------------------------------------------------------------------------
(* The refinement of DnsService.                                           *)

\* A step in which a handler decides on its response is Responds.
LEMMA RespondMaps ==
  ASSUME ResolverInv, NEW p \in Procs, stage[p] \notin {"idle", "respond"},
         NEW c \in {"NOERROR", "NXDOMAIN", "SERVFAIL"}, NEW rrs \in SUBSET Records,
         Respond(p, c, rrs), UNCHANGED <<now, zone, told, query>>,
         LET a == [rcode |-> c, rrs |-> rrs]
         IN  \/ Service!FromZone(query[p], a) \/ Service!Refused(query[p], a)
             \/ Service!Failed(query[p], a) \/ Service!FromUpstream(query[p], a)
             \/ Service!FromMemory(query[p], a)
  PROVE  Service!ServiceNext
<1>t. ResolverTypeOK  BY DEF ResolverInv, HandlerTypeOK
<1>. DEFINE a == [rcode |-> c, rrs |-> rrs]
            busy == [q \in Procs |->
                       IF stage[q] \in {"idle", "respond"} THEN NoCall ELSE query[q]]
<1>1. a \in Answers /\ a # NoReply  BY ResolverAssumption DEF Answers
<1>2. response' = [response EXCEPT ![p] = a] /\ response'[p] = a
  BY <1>t DEF Respond, ResolverTypeOK
<1>3. busy[p] = query[p] /\ query[p] # NoCall  BY QueryInHand
<1>4. \A q \in Procs : stage'[q] = IF q = p THEN "respond" ELSE stage[q]
  BY <1>t DEF Respond, Goto, ResolverTypeOK
<1>5. busy' = [busy EXCEPT ![p] = NoCall]  BY <1>4
<1>6. Service!Responds(p)
  BY <1>1, <1>2, <1>3, <1>5 DEF Service!Responds
<1>. QED  BY <1>6 DEF Service!ServiceNext

\* Every step of the server is one of DnsService, or unseen by its clients.
LEMMA ServiceStepMaps ==
  ASSUME ResolverInv, [ResolverNext]_vars
  PROVE  [Service!ServiceNext]_(Service!serviceVars)
<1>t. /\ CacheTypeOK /\ HandlerTypeOK /\ ResolverTypeOK /\ CacheInv
  BY DEF ResolverInv, HandlerTypeOK, CacheInv, ContentInv, TypeInv
<1>. DEFINE busy == [q \in Procs |->
                       IF stage[q] \in {"idle", "respond"} THEN NoCall ELSE query[q]]
<1>0. ASSUME UNCHANGED <<now, zone, told, busy, response>>
      PROVE  UNCHANGED Service!serviceVars
  BY <1>0 DEF Service!serviceVars
<1>1. ASSUME NEW p \in Procs, NEW k \in Questions, Receive(p, k)
      PROVE  Service!ServiceNext
  <2>1. \A q \in Procs :
          /\ stage'[q] = IF q = p THEN "received" ELSE stage[q]
          /\ query'[q] = IF q = p THEN [key |-> k, at |-> now] ELSE query[q]
    BY <1>t, <1>1 DEF Receive, Goto, ResolverTypeOK
  <2>2. busy' = [busy EXCEPT ![p] = [key |-> k, at |-> now]]  BY <2>1
  <2>3. busy[p] = NoCall  BY <1>1 DEF Receive
  <2>4. Service!Received(p, k)
    BY <1>1, <2>2, <2>3 DEF Receive, Service!Received, cacheVars
  <2>. QED  BY <2>4, ResolverAssumption DEF Service!ServiceNext
<1>2. ASSUME NEW p \in Procs, HandlerStep(p)
      PROVE  Service!ServiceNext \/ UNCHANGED Service!serviceVars
  <2>1. CASE AnswerFromZone(p)
    <3>1. query[p].key \in Keys  BY <2>1, QueryInHand DEF AnswerFromZone
    <3>2. zone[query[p].key] \in SUBSET Records  BY <1>t, <3>1 DEF ResolverTypeOK
    <3>3. Service!FromZone(query[p], [rcode |-> "NOERROR", rrs |-> zone[query[p].key]])
      BY <2>1 DEF AnswerFromZone, Service!FromZone
    <3>. QED
      BY <2>1, <3>2, <3>3, RespondMaps DEF AnswerFromZone, cacheVars
  <2>2. CASE RefuseBlocked(p)
    <3>1. Service!Refused(query[p], [rcode |-> "NXDOMAIN", rrs |-> {}])
      BY <2>2 DEF RefuseBlocked, Service!Refused
    <3>. QED  BY <2>2, <3>1, RespondMaps DEF RefuseBlocked, cacheVars
  <2>3. CASE AnswerFromCache(p)
    <3>1. query[p].key \in Keys /\ zone[query[p].key] = {} /\ query[p].key \notin Blocked
      BY <2>3, QueryInHand DEF AnswerFromCache, ResolverInv, SourceInv
    <3>2. PICK g \in given[query[p].key] :
            /\ reply[p].rrs \in SUBSET Records
            /\ \A r \in reply[p].rrs : r.key = query[p].key
            /\ Abstract!Servable(reply[p].rrs, g, query[p].at)
      BY <2>3 DEF AnswerFromCache, ResolverInv, AnswerInv, LookedUp, Remembered, Miss
    <3>3. PICK j \in Keys : g \in told[j]  BY <3>1, <3>2 DEF ResolverInv, AnswerInv
    <3>4. Service!FromMemory(query[p], [rcode |-> "NOERROR", rrs |-> reply[p].rrs])
      BY <3>1, <3>2, <3>3
      DEF Service!FromMemory, Service!ExpiredAt, Abstract!Servable, Abstract!ExpiredAt
    <3>. QED  BY <2>3, <3>2, <3>4, RespondMaps DEF AnswerFromCache, cacheVars
  <2>4. CASE StoreAnswer(p)
    <3>1. query[p].key \in Keys /\ zone[query[p].key] = {} /\ query[p].key \notin Blocked
      BY <2>4, QueryInHand DEF StoreAnswer, ResolverInv, SourceInv
    <3>2. /\ upstream[p].rrs \in told[query[p].key]
          /\ \A r \in upstream[p].rrs : ~ Abstract!ExpiredAt(r, query[p].at)
      BY <2>4 DEF StoreAnswer, ResolverInv, AnswerInv, Fetched
    <3>3. upstream[p].rrs \in SUBSET Records
      BY <1>t, <3>1, <3>2, CacheAssumption DEF HandlerTypeOK
    <3>4. Service!FromUpstream(query[p], [rcode |-> "NOERROR", rrs |-> upstream[p].rrs])
      BY <3>1, <3>2 DEF Service!FromUpstream, Service!ExpiredAt, Abstract!ExpiredAt
    <3>5. UNCHANGED now  BY <2>4 DEF StoreAnswer, Set, cacheVars
    <3>. QED  BY <2>4, <3>3, <3>4, <3>5, RespondMaps DEF StoreAnswer
  <2>5. CASE LookInCache(p) \/ AskUpstream(p)
    <3>1. UNCHANGED <<now, zone, told, response, query>>
      BY <2>5 DEF LookInCache, AskUpstream, GetCall, cacheVars
    <3>2. \A q \in Procs :
            \/ stage'[q] = stage[q]
            \/ {stage[q], stage'[q]} \cap {"idle", "respond"} = {}
      BY <1>t, <2>5 DEF LookInCache, AskUpstream, Goto, ResolverTypeOK
    <3>. QED  BY <1>0, <3>1, <3>2
  <2>6. CASE CacheStep(p)
    <3>1. UNCHANGED handler /\ UNCHANGED now  BY <1>t, <2>6, GetStepFrame DEF CacheStep
    <3>. QED  BY <1>0, <3>1 DEF handler
  <2>7. CASE Encode(p)
    <3>1. UNCHANGED <<now, zone, told, response>> /\ stage[p] = "respond"
      BY <2>7 DEF Encode, cacheVars
    <3>2. \A q \in Procs :
            /\ stage'[q] = IF q = p THEN "idle" ELSE stage[q]
            /\ query'[q] = IF q = p THEN NoCall ELSE query[q]
      BY <1>t, <2>7 DEF Encode, Goto, ResolverTypeOK
    <3>3. UNCHANGED busy  BY <3>1, <3>2
    <3>. QED  BY <1>0, <3>1, <3>3
  <2>. QED  BY <1>2, <2>1, <2>2, <2>3, <2>4, <2>5, <2>6, <2>7 DEF HandlerStep
<1>3. ASSUME NEW p \in Procs, stage[p] = "upstream", NEW rrs, NEW c,
             UpstreamAnswers(p, rrs, c)
      PROVE  Service!ServiceNext
  <2>1. query[p].key \in Keys  BY <1>3, QueryInHand
  <2>2. UNCHANGED <<now, zone, query, response>>  BY <1>3 DEF UpstreamAnswers, cacheVars
  <2>3. \A q \in Procs : stage'[q] = IF q = p THEN "answered" ELSE stage[q]
    BY <1>t, <1>3 DEF UpstreamAnswers, Goto, ResolverTypeOK
  <2>4. UNCHANGED busy  BY <1>3, <2>2, <2>3
  <2>5. Service!ServersTell(query[p].key)
    BY <1>t, <1>3, <2>1, <2>2, <2>4 DEF UpstreamAnswers, HandlerTypeOK, Service!ServersTell
  <2>. QED  BY <2>1, <2>5 DEF Service!ServiceNext
<1>4. ASSUME NEW p \in Procs, UpstreamFails(p) PROVE Service!ServiceNext
  <2>1. zone[query[p].key] = {} /\ query[p].key \notin Blocked
    BY <1>4 DEF UpstreamFails, ResolverInv, SourceInv
  <2>2. Service!Failed(query[p], [rcode |-> "SERVFAIL", rrs |-> {}])
    BY <2>1 DEF Service!Failed
  <2>. QED  BY <1>4, <2>2, RespondMaps DEF UpstreamFails, cacheVars
<1>5. CASE Tick /\ UNCHANGED handler
  <2>1. Service!TimePasses  BY <1>5 DEF Tick, handler, Service!TimePasses
  <2>. QED  BY <2>1 DEF Service!ServiceNext
<1>6. CASE UNCHANGED vars
  BY <1>0, <1>6 DEF vars, cacheVars, handler
<1>. QED  BY <1>1, <1>2, <1>3, <1>4, <1>5, <1>6 DEF ResolverNext, UpstreamStep

\* To its clients the server is a DnsService: one response to a query, from the
\* zone, the blocklist, the cache or the upstream servers in this order, without a
\* record that had expired on arrival.
THEOREM ServiceRefinement == ResolverSpec => ImplementsDnsService
<1>1. ResolverInit => Service!ServiceInit
  BY DEF ResolverInit, CacheInit, Service!ServiceInit
<1>2. ResolverInv /\ [ResolverNext]_vars =>
        [Service!ServiceNext]_(Service!serviceVars)
  BY ServiceStepMaps
<1>. QED
  BY <1>1, <1>2, ResolverInvariant, PTL
  DEF ResolverSpec, ImplementsDnsService, Service!ServiceSpec
=============================================================================
