---------------------------- MODULE DaemonProofs ----------------------------
(***************************************************************************)
(* Proofs about Daemon for any environment, zones, queries and messages:   *)
(* what becomes of the transport and its packets in the hands of main,     *)
(* where HandleQuery has each response from, and what a client finds in    *)
(* the octets it gets.                                                     *)
(*                                                                         *)
(* DaemonInv is the invariant of the transport with what Run adds to it,   *)
(* HandlerInv that of the handlers; neither looks into an octet. WireInv   *)
(* follows the octets of each query from the client and back, TruthInv the *)
(* records of each answer from upstream to the client.                     *)
(***************************************************************************)
EXTENDS Daemon, UdpTransportProofs, CodecProofs, FiniteSetTheorems

-----------------------------------------------------------------------------
(* What main may do to the transport.                                      *)

\* A step of the daemon as the transport sees it.
TransportStep ==
  \/ Run \/ Signal \/ HandleSignal
  \/ /\ \/ \E l \in Starts : LoopStep(l) \/ ReadError(l)
        \/ \E q \in Queries : Arrive(q) \/ PacketStep(q)
     /\ UNCHANGED <<run, signal>>

\* Whatever the daemon does leaves its transport alone, or is a step of it or of Run.
LEMMA DaemonStepMaps ==
  ASSUME [DaemonNext]_daemonVars
  PROVE  UNCHANGED serverVars \/ (boot = "run" /\ boot' = boot /\ Alive /\ TransportStep)
<1>1. CASE UNCHANGED daemonVars  BY <1>1 DEF daemonVars
<1>2. CASE Boot \/ EarlySignal \/ \E q \in Queries : ClientReads(q)
  BY <1>2 DEF Boot, Configure, BuildApplication, EarlySignal, ClientReads
<1>3. ASSUME Up, NEW q \in Queries, HandlerStep(q)
      PROVE  UNCHANGED serverVars \/ (boot' = boot /\ TransportStep)
  <2>1. CASE Decode(q)
    BY <2>1 DEF Decode, main, TransportStep, PacketStep
  <2>2. CASE AnswerFromZone(q) \/ AnswerFromCache(q) \/ AskUpstream(q)
             \/ UpstreamFails(q) \/ TakeAnswer(q)
    BY <2>2 DEF AnswerFromZone, AnswerFromCache, AskUpstream, UpstreamFails, TakeAnswer
  <2>3. CASE Encode(q)
    BY <2>3 DEF Encode, main, TransportStep, PacketStep
  <2>4. CASE SendReply(q)
    BY <2>4 DEF SendReply, main, TransportStep, PacketStep
  <2>. QED  BY <1>3, <2>1, <2>2, <2>3, <2>4 DEF HandlerStep
<1>4. CASE Up /\ Serve
  BY <1>3, <1>4
  DEF Up, Serve, Loop, ClientAsks, DecodingPanics, UpstreamSends, main, TransportStep
<1>. QED  BY <1>1, <1>2, <1>4 DEF DaemonNext, Up

-----------------------------------------------------------------------------
(* The inductive invariant.                                                *)

\* Where Run is tells the state of its transport: it is started once, and stopped
\* only when the signal has been handled.
OwnerInv ==
  /\ run \in {"start", "serving", "waiting", "completed", "timeout", "failed"}
  /\ started = IF run \in {"start", "failed"} THEN 0 ELSE 1
  /\ running <=> run = "serving"
  /\ stopped <=> run \in {"waiting", "completed", "timeout"}
  /\ stopped => signal = "handled"
  /\ cancelled = IF signal = "handled" THEN {1} ELSE {}
  /\ ~ panicked

\* A loop ends only after the signal, and a packet is lost only by it.
ServingInv ==
  /\ \A l \in Starts : loop[l] = "ended" => signal = "handled"
  /\ \A q \in Queries :
       /\ started = 0 => packet[q] = "unsent"
       /\ packet[q] \in {"lost", "unreplied"} => signal = "handled"

BootInv ==
  /\ crashed \in BOOLEAN
  /\ boot # "run" => run = "start" /\ signal = "none" /\ zones = Nothing /\ ~ crashed

DaemonInv == TransportInv /\ OwnerInv /\ ServingInv /\ BootInv

\* Before main has done anything.
LEMMA DaemonInitInv == DaemonInit => DaemonInv
<1>. SUFFICES ASSUME DaemonInit PROVE DaemonInv  OBVIOUS
<1>1. TransportInv  BY TransportInit DEF DaemonInit, ServerInit
<1>. QED
  BY <1>1 DEF DaemonInit, ServerInit, Init, DaemonInv, OwnerInv, ServingInv, BootInv

\* Main steps of the server are steps of the transport, but for the signal.
LEMMA TransportKept ==
  ASSUME TransportInv, OwnerInv, TransportStep \/ UNCHANGED serverVars
  PROVE  TransportInv'
<1>1. CASE HandleSignal
  <2>1. 1..1 \subseteq Starts  BY TransportAssumption DEF Starts
  <2>. QED
    BY <1>1, <2>1
    DEF HandleSignal, TransportInv, TypeOK, RestartInv, OneOpenSocket, loops, packets
<1>2. CASE ~ HandleSignal
  <2>1. [Next]_vars
    BY <1>2
    DEF OwnerInv, TransportStep, Run, RunStarts, RunFails, RunStops, RunReturns, Signal, Next,
        serverVars
  <2>. QED  BY <2>1, TransportNext
<1>. QED  BY <1>1, <1>2

\* Only Run and the signal change what OwnerInv is about.
LEMMA OwnerKept ==
  ASSUME TransportInv, OwnerInv, Alive, TransportStep
  PROVE  OwnerInv'
<1>. USE DEF OwnerInv
<1>s. MaxStarts \in Nat /\ 1 <= MaxStarts  BY TransportAssumption
<1>1. CASE RunStarts
  <2>1. /\ run' = "serving" /\ started' = 1 /\ running'
        /\ UNCHANGED <<stopped, cancelled, panicked, signal>>
    BY <1>1 DEF RunStarts, Start
  <2>. QED  BY <1>1, <2>1 DEF RunStarts
<1>2. CASE RunStops
  BY <1>2 DEF RunStops, Stop
<1>3. CASE RunFails \/ RunReturns \/ Signal
  BY <1>3 DEF RunFails, RunReturns, Signal, vars
<1>4. CASE HandleSignal
  BY <1>4 DEF HandleSignal
<1>5. ASSUME UNCHANGED <<run, signal>>, UNCHANGED Unlooped
      PROVE  OwnerInv'
  BY <1>5 DEF Unlooped
<1>6. ASSUME NEW l \in Starts, LoopStep(l) \/ ReadError(l) PROVE UNCHANGED Unlooped
  BY <1>6
  DEF LoopStep, LoopEnds, LoopGoesOn, ReadBegins, ReadPacket, ReadFails, CheckRunning,
      ReadError
<1>7. ASSUME NEW q \in Queries, Arrive(q) \/ PacketStep(q) PROVE UNCHANGED Unlooped
  BY <1>7 DEF Arrive, PacketStep, Reject, Answer, Reply
<1>. QED
  BY <1>1, <1>2, <1>3, <1>4, <1>5, <1>6, <1>7 DEF TransportStep, Run

\* A loop ends, and a packet is lost, for no other reason than the signal: the socket
\* is there and running is set until then.
LEMMA ServingKept ==
  ASSUME TransportInv, OwnerInv, ServingInv, Alive, TransportStep
  PROVE  ServingInv'
<1>. USE DEF ServingInv
<1>t. TypeOK /\ OneOpenSocket  BY DEF TransportInv
<1>1. CASE RunStarts
  <2>1. started' = 1 /\ signal' = signal /\ packet' = packet
        /\ \E l \in Starts : loop' = [loop EXCEPT ![l] = "select"]
    <3>1. started = 0 /\ started' = 1 /\ loop' = [loop EXCEPT ![started'] = "select"]
          /\ UNCHANGED <<signal, packet>>
      BY <1>1 DEF RunStarts, Start, packets, OwnerInv
    <3>2. 1 \in Starts  BY TransportAssumption DEF Starts
    <3>. QED  BY <3>1, <3>2
  <2>. QED  BY <1>t, <2>1 DEF TypeOK
<1>2. CASE RunStops
  <2>1. signal' = "handled" /\ started' = started /\ started = 1
    BY <1>2 DEF RunStops, Stop, OwnerInv
  <2>. QED  BY <2>1
<1>3. CASE RunFails \/ RunReturns \/ Signal
  BY <1>3 DEF RunFails, RunReturns, Signal, vars, loops, packets
<1>4. CASE HandleSignal
  BY <1>4 DEF HandleSignal, loops, packets
<1>5. ASSUME NEW l \in Starts, LoopStep(l) \/ ReadError(l), UNCHANGED <<run, signal>>
      PROVE  ServingInv'
  <2>1. loop[l] # "none" /\ started # 0
    BY <1>5, <1>t
    DEF LoopStep, LoopEnds, LoopGoesOn, ReadBegins, ReadPacket, ReadFails, CheckRunning,
        ReadError, TypeOK, Starts
  <2>2. CASE LoopEnds(l)
    <3>1. signal = "handled"  BY <2>2 DEF LoopEnds, OwnerInv
    <3>. QED  BY <1>5, <2>2, <3>1 DEF LoopEnds, Unlooped, packets
  <2>3. CASE CheckRunning(l)
    <3>1. ~ running => signal = "handled"  BY <2>1 DEF OwnerInv
    <3>2. loop' = [loop EXCEPT ![l] = IF running THEN "select" ELSE "ended"]
          /\ UNCHANGED <<started, packet>>
      BY <2>3 DEF CheckRunning, LoopTo, Unlooped, packets
    <3>. QED  BY <1>5, <1>t, <3>1, <3>2 DEF TypeOK
  <2>4. CASE LoopGoesOn(l) \/ ReadBegins(l) \/ ReadFails(l) \/ ReadError(l)
    <3>1. (\E s \in {"next", "read", "failed"} : loop' = [loop EXCEPT ![l] = s])
          /\ UNCHANGED <<started, packet>>
      BY <2>4
      DEF LoopGoesOn, ReadBegins, ReadFails, ReadError, LoopTo, Unlooped, packets
    <3>. QED  BY <1>5, <1>t, <3>1 DEF TypeOK
  <2>5. ASSUME NEW q \in Queries, ReadPacket(l, q) PROVE ServingInv'
    <3>1. loop' = [loop EXCEPT ![l] = "select"] /\ started' = started
          /\ packet' = [packet EXCEPT ![q] = "received"]
      BY <2>5 DEF ReadPacket, LoopTo, Unlooped
    <3>. QED  BY <1>5, <1>t, <2>1, <3>1 DEF TypeOK
  <2>. QED  BY <1>5, <2>2, <2>3, <2>4, <2>5 DEF LoopStep
<1>6. ASSUME NEW q \in Queries, Arrive(q) \/ PacketStep(q), UNCHANGED <<run, signal>>
      PROVE  ServingInv'
  <2>1. UNCHANGED <<started, loop>>
    BY <1>6 DEF Arrive, PacketStep, Reject, Answer, Reply, Unlooped, loops
  <2>2. started # 0
    <3>1. CASE Arrive(q)
      BY <1>t, <3>1 DEF Arrive, OneOpenSocket, OwnerInv
    <3>2. CASE PacketStep(q)
      BY <3>2 DEF PacketStep, Reject, Answer, Reply
    <3>. QED  BY <1>6, <3>1, <3>2
  <2>3. /\ packet'[q] \in {"lost", "unreplied"} => signal = "handled"
        /\ \A r \in Queries \ {q} : packet'[r] = packet[r]
    <3>1. CASE Arrive(q) \/ Reject(q) \/ Answer(q)
      BY <1>t, <3>1 DEF Arrive, Reject, Answer, PacketTo, TypeOK
    <3>2. CASE Reply(q)
      <4>1. conn \notin sockets => signal = "handled"
        BY <1>t, <2>2 DEF OneOpenSocket, OwnerInv
      <4>. QED  BY <1>t, <3>2, <4>1 DEF Reply, PacketTo, TypeOK
    <3>. QED  BY <1>6, <3>1, <3>2 DEF PacketStep
  <2>. QED  BY <1>6, <1>t, <2>1, <2>2, <2>3 DEF TypeOK
<1>. QED
  BY <1>1, <1>2, <1>3, <1>4, <1>5, <1>6 DEF TransportStep, Run

\* The invariant, of which the parts of the transport and of Run go together.
LEMMA DaemonInvNext == DaemonInv /\ [DaemonNext]_daemonVars => DaemonInv'
<1>. SUFFICES ASSUME DaemonInv, [DaemonNext]_daemonVars PROVE DaemonInv'  OBVIOUS
<1>i. TransportInv /\ OwnerInv /\ ServingInv /\ BootInv  BY DEF DaemonInv
<1>1. TransportInv'
  BY <1>i, DaemonStepMaps, TransportKept
<1>2. OwnerInv' /\ ServingInv'
  <2>1. CASE UNCHANGED serverVars
    BY <1>i, <2>1 DEF serverVars, vars, loops, packets, OwnerInv, ServingInv
  <2>2. CASE Alive /\ TransportStep
    BY <1>i, <2>2, OwnerKept, ServingKept
  <2>. QED  BY <2>1, <2>2, DaemonStepMaps
<1>3. BootInv'
  <2>1. Boot \/ EarlySignal \/ UNCHANGED main \/ (boot = "run" /\ boot' = boot /\ crashed' = TRUE)
    <3>1. CASE UNCHANGED daemonVars  BY <3>1 DEF daemonVars
    <3>2. ASSUME NEW q \in Queries, HandlerStep(q) \/ ClientAsks(q) \/ ClientReads(q)
          PROVE  UNCHANGED main
      BY <3>2
      DEF HandlerStep, Decode, AnswerFromZone, AnswerFromCache, AskUpstream, UpstreamFails,
          TakeAnswer, Encode, SendReply, ClientAsks, ClientReads
    <3>3. ASSUME NEW q \in Queries, NEW m, UpstreamSends(q, m) PROVE UNCHANGED main
      BY <3>3 DEF UpstreamSends
    <3>4. ASSUME NEW q \in Queries, DecodingPanics(q) PROVE boot' = boot /\ crashed' = TRUE
      BY <3>4 DEF DecodingPanics
    <3>. QED  BY <3>1, <3>2, <3>3, <3>4 DEF DaemonNext, Up, Serve, Loop
  <2>2. crashed' \in BOOLEAN
    BY <1>i, <2>1 DEF Boot, Configure, BuildApplication, EarlySignal, BootInv, main
  <2>3. CASE boot = "run" /\ boot' = boot  BY <2>2, <2>3 DEF BootInv
  <2>4. CASE UNCHANGED serverVars
    <3>1. CASE Boot \/ EarlySignal
      BY <1>i, <2>2, <2>4, <3>1
      DEF Boot, Configure, BuildApplication, EarlySignal, BootInv, serverVars
    <3>2. CASE UNCHANGED main
      BY <1>i, <2>4, <3>2 DEF BootInv, serverVars, main
    <3>. QED  BY <2>1, <2>3, <3>1, <3>2
  <2>. QED  BY <2>3, <2>4, DaemonStepMaps
<1>. QED  BY <1>1, <1>2, <1>3 DEF DaemonInv

\* So it always holds.
LEMMA DaemonInvariant == DaemonSpec => []DaemonInv
BY DaemonInitInv, DaemonInvNext, PTL DEF DaemonSpec

-----------------------------------------------------------------------------
(* The theorems.                                                           *)

\* While the transport runs and no signal has been handled, its listenLoop is at
\* work: no error of a read, and nothing the handlers do, ends it.
THEOREM ServerListens == DaemonSpec => []StartedListens
<1>1. DaemonInv => StartedListens
  BY DEF DaemonInv, TransportInv, TypeOK, OwnerInv, ServingInv, StartedListens, Starts
<1>. QED  BY <1>1, DaemonInvariant, PTL

\* What restarting could spoil cannot happen to main, which starts its transport
\* once and stops it once: Stop closes the channel a single time, and the socket
\* is open just while the transport runs and is read by one loop.
THEOREM ShutdownIsGraceful ==
  DaemonSpec => []StopIsGraceful /\ []OneOpenSocket /\ []OneReader
<1>1. DaemonInv => StopIsGraceful /\ OneOpenSocket /\ OneReader
  BY DEF DaemonInv, OwnerInv, TransportInv, RestartInv, StopIsGraceful, OneReader
<1>. QED  BY <1>1, DaemonInvariant, PTL

\* No packet is lost in the socket and no reply kept from being sent before the
\* signal is handled.
LostOnlyAtShutdown ==
  \A q \in Queries : packet[q] \in {"lost", "unreplied"} => signal = "handled"

\* So up to then every packet that arrives is read, and every answer sent.
THEOREM NothingLostBefore == DaemonSpec => []LostOnlyAtShutdown
<1>1. DaemonInv => LostOnlyAtShutdown
  BY DEF DaemonInv, ServingInv, LostOnlyAtShutdown
<1>. QED  BY <1>1, DaemonInvariant, PTL

-----------------------------------------------------------------------------
(* What HandleQuery makes of a query.                                      *)

\* The response to q is to the very question that was decoded, and nothing but the
\* zones answers what they hold: the other records are those of one list stored for
\* the key that was asked for, or of the one datagram that came for q.
ResponseHasSource(q) ==
  /\ response[q].id = query[q].id /\ response[q].question = query[q]
  /\ IF OfZone(q) # <<>>
     THEN response[q].answers = OfZone(q) /\ sent[q] = Nothing
     ELSE \/ response[q].answers = <<>> /\ response[q].rcode = "SERVFAIL"
          \/ /\ HasCache /\ response[q].answers \in cached
             /\ KeyOf(Head(response[q].answers)) = Key(q)
             /\ sent[q] = Nothing
          \/ /\ told[q] # Nothing /\ told[q].message.answers \in said
             /\ response[q].answers = DecodeResponse(Read(datagram[q]), query[q].id).answers

EveryResponseHasSource ==
  \A q \in Queries : stage[q] \in {"respond", "done"} => ResponseHasSource(q)

\* No query that the zones answer is ever sent upstream.
ZonesAreNotForwarded ==
  \A q \in Queries : stage[q] # "none" /\ OfZone(q) # <<>> => sent[q] = Nothing

\* Before HandleQuery asks upstream nothing has been sent, and it asks only if the
\* zones have no answer; the zones are loaded before the first query is decoded.
HandlerInv ==
  /\ DOMAIN stage = Queries /\ DOMAIN query = Queries /\ DOMAIN sent = Queries
  /\ DOMAIN told = Queries /\ DOMAIN datagram = Queries /\ DOMAIN response = Queries
  /\ boot # "run" => \A q \in Queries : stage[q] = "none"
  /\ \A q \in Queries :
       /\ stage[q] \in {"none", "handle", "upstream", "respond", "done"}
       /\ stage[q] \in {"none", "handle"} => sent[q] = Nothing
       /\ stage[q] = "upstream" => OfZone(q) = <<>>
  /\ EveryResponseHasSource

\* Before main has done anything.
LEMMA HandlerInit == DaemonInit => HandlerInv
BY DEF DaemonInit, HandlerInv, EveryResponseHasSource

\* What is not about q leaves it alone; the lists in the cache and the messages sent
\* are never taken back.
LEMMA SourceKept ==
  ASSUME NEW q \in Queries, ResponseHasSource(q), UNCHANGED <<zones, setting>>,
         cached \subseteq cached', said \subseteq said',
         query'[q] = query[q], sent'[q] = sent[q], told'[q] = told[q],
         datagram'[q] = datagram[q], response'[q] = response[q]
  PROVE  ResponseHasSource(q)'
<1>1. /\ OfZone(q)' = OfZone(q) /\ Key(q)' = Key(q) /\ HasCache' = HasCache
  BY DEF OfZone, Key, HasCache, Loaded, FindRecords
<1>. QED  BY <1>1 DEF ResponseHasSource

\* A step of HandleQuery for q.
LEMMA HandlerKept ==
  ASSUME HandlerInv, boot = "run", NEW q \in Queries, HandlerStep(q)
  PROVE  HandlerInv'
<1>. USE DEF HandlerInv, EveryResponseHasSource
<1>1. ASSUME UNCHANGED <<main>>, cached \subseteq cached', said \subseteq said',
             DOMAIN stage' = Queries, DOMAIN query' = Queries, DOMAIN sent' = Queries,
             DOMAIN told' = Queries, DOMAIN datagram' = Queries, DOMAIN response' = Queries,
             \A r \in Queries \ {q} :
               /\ stage'[r] = stage[r] /\ query'[r] = query[r] /\ sent'[r] = sent[r]
               /\ told'[r] = told[r] /\ datagram'[r] = datagram[r] /\ response'[r] = response[r],
             stage'[q] \in {"none", "handle", "upstream", "respond", "done"},
             stage'[q] \in {"none", "handle"} => sent'[q] = Nothing,
             stage'[q] = "upstream" => OfZone(q)' = <<>>,
             stage'[q] \in {"respond", "done"} => ResponseHasSource(q)'
      PROVE  HandlerInv'
  <2>1. UNCHANGED <<boot, zones, setting>>  BY <1>1 DEF main
  <2>2. ASSUME NEW r \in Queries \ {q}, stage[r] \in {"respond", "done"}
        PROVE  ResponseHasSource(r)'
    BY <1>1, <2>1, <2>2, SourceKept
  <2>3. ASSUME NEW r \in Queries \ {q} PROVE OfZone(r)' = OfZone(r)
    BY <1>1, <2>1, <2>3 DEF OfZone, FindRecords
  <2>. QED  BY <1>1, <2>1, <2>2, <2>3
<1>z. ASSUME UNCHANGED zones, query'[q] = query[q] PROVE OfZone(q)' = OfZone(q)
  BY <1>z DEF OfZone, FindRecords
<1>k. ASSUME query'[q] = query[q] PROVE Key(q)' = Key(q)
  BY <1>k DEF Key
<1>c. ASSUME UNCHANGED setting PROVE HasCache' = HasCache
  BY <1>c DEF HasCache, Loaded
<1>2. CASE Decode(q)
  BY <1>1, <1>2 DEF Decode, Goto
<1>3. CASE AnswerFromZone(q)
  <2>1. response'[q].answers = OfZone(q) /\ response'[q].id = query[q].id
        /\ response'[q].question = query[q]
    BY <1>3 DEF AnswerFromZone, Respond, BuildResponse
  <2>2. ResponseHasSource(q)'
    BY <1>3, <1>z, <2>1 DEF AnswerFromZone, ResponseHasSource, main
  <2>. QED  BY <1>1, <1>3, <2>2 DEF AnswerFromZone, Respond, Goto
<1>4. CASE AnswerFromCache(q)
  <2>1. PICK rrs \in cached : KeyOf(Head(rrs)) = Key(q) /\ Respond(q, "NOERROR", rrs)
    BY <1>4 DEF AnswerFromCache
  <2>2. response'[q].answers = rrs /\ response'[q].id = query[q].id
        /\ response'[q].question = query[q]
    BY <2>1 DEF Respond, BuildResponse
  <2>3. ResponseHasSource(q)'
    BY <1>4, <1>z, <1>k, <1>c, <2>1, <2>2 DEF AnswerFromCache, ResponseHasSource, main
  <2>. QED  BY <1>1, <1>4, <2>1, <2>3 DEF AnswerFromCache, Respond, Goto
<1>5. CASE AskUpstream(q)
  <2>1. CASE Goto(q, "upstream")
    BY <1>1, <1>5, <1>z, <2>1 DEF AskUpstream, Goto, Respond, main
  <2>2. CASE Respond(q, "SERVFAIL", <<>>) /\ UNCHANGED sent
    <3>1. response'[q].answers = <<>> /\ response'[q].id = query[q].id
          /\ response'[q].question = query[q] /\ response'[q].rcode = "SERVFAIL"
      BY <2>2 DEF Respond, BuildResponse
    <3>2. ResponseHasSource(q)'
      BY <1>5, <1>z, <3>1 DEF AskUpstream, ResponseHasSource, main
    <3>. QED  BY <1>1, <1>5, <2>2, <3>2 DEF AskUpstream, Respond, Goto
  <2>. QED  BY <1>5, <2>1, <2>2 DEF AskUpstream
<1>6. CASE UpstreamFails(q)
  <2>1. response'[q].answers = <<>> /\ response'[q].id = query[q].id
        /\ response'[q].question = query[q] /\ response'[q].rcode = "SERVFAIL"
    BY <1>6 DEF UpstreamFails, Respond, BuildResponse
  <2>2. ResponseHasSource(q)'
    BY <1>6, <1>z, <2>1 DEF UpstreamFails, ResponseHasSource, main
  <2>. QED  BY <1>1, <1>6, <2>2 DEF UpstreamFails, Respond, Goto
<1>7. CASE TakeAnswer(q)
  <2>1. PICK decoded \in {DecodeResponse(Read(datagram[q]), query[q].id)} :
          \/ Respond(q, "NOERROR", decoded.answers)
          \/ Respond(q, "SERVFAIL", <<>>)
    BY <1>7 DEF TakeAnswer
  <2>2. /\ response'[q].id = query[q].id /\ response'[q].question = query[q]
        /\ \/ response'[q].answers = DecodeResponse(Read(datagram[q]), query[q].id).answers
           \/ response'[q].answers = <<>> /\ response'[q].rcode = "SERVFAIL"
    BY <2>1 DEF Respond, BuildResponse
  <2>3. /\ told'[q].message.answers \in said' /\ told'[q] # Nothing /\ OfZone(q) = <<>>
        /\ UNCHANGED <<main, query, datagram, sent>>
    BY <1>7 DEF TakeAnswer
  <2>4. ResponseHasSource(q)'
    BY <1>z, <2>2, <2>3 DEF ResponseHasSource, main
  <2>5. /\ cached \subseteq cached' /\ said \subseteq said'
        /\ UNCHANGED <<main, query, sent, told, datagram>>
    BY <1>7 DEF TakeAnswer
  <2>. QED  BY <1>1, <2>1, <2>4, <2>5 DEF Respond, Goto
<1>8. CASE Encode(q)
  <2>1. ResponseHasSource(q)'
    BY <1>8, SourceKept DEF Encode, main
  <2>. QED  BY <1>1, <1>8, <2>1 DEF Encode, Goto
<1>9. CASE SendReply(q)
  <2>1. ResponseHasSource(q) => ResponseHasSource(q)'
    BY <1>9, SourceKept DEF SendReply, main, handler
  <2>. QED  BY <1>1, <1>9, <1>z, <2>1 DEF SendReply, handler, main
<1>. QED
  BY <1>2, <1>3, <1>4, <1>5, <1>6, <1>7, <1>8, <1>9 DEF HandlerStep

\* A step of main, of the transport, of a client or of a server outside.
LEMMA OthersKeep ==
  ASSUME HandlerInv, UNCHANGED <<query, sent, cached, response, said, stage>>,
         UNCHANGED <<told, datagram>>, UNCHANGED <<boot, setting, zones>>
  PROVE  HandlerInv'
<1>1. ASSUME NEW q \in Queries
      PROVE  /\ OfZone(q)' = OfZone(q)
             /\ ResponseHasSource(q) => ResponseHasSource(q)'
  BY SourceKept DEF OfZone, FindRecords
<1>. QED  BY <1>1 DEF HandlerInv, EveryResponseHasSource

\* Every step keeps the invariant of the handlers.
LEMMA HandlerInvNext == HandlerInv /\ [DaemonNext]_daemonVars => HandlerInv'
<1>. SUFFICES ASSUME HandlerInv, [DaemonNext]_daemonVars PROVE HandlerInv'  OBVIOUS
<1>1. CASE UNCHANGED daemonVars
  BY <1>1, OthersKeep DEF daemonVars, main, handler
<1>2. CASE Boot \/ EarlySignal
  <2>1. boot # "run" /\ UNCHANGED handler
    BY <1>2 DEF Boot, EarlySignal, Configure, BuildApplication
  <2>2. \A q \in Queries : stage[q] = "none"  BY <2>1 DEF HandlerInv
  <2>. QED  BY <2>1, <2>2 DEF HandlerInv, EveryResponseHasSource, handler
<1>3. ASSUME NEW q \in Queries, ClientReads(q) \/ ClientAsks(q) PROVE HandlerInv'
  BY <1>3, OthersKeep DEF ClientReads, ClientAsks, main
<1>4. CASE Serve /\ Up
  <2>1. CASE (Run \/ Signal \/ HandleSignal) /\ UNCHANGED <<main, handler>>
    BY <2>1, OthersKeep DEF main, handler
  <2>2. ASSUME NEW l \in Starts, Loop(l) PROVE HandlerInv'
    BY <2>2, OthersKeep DEF Loop, main, handler
  <2>3. ASSUME NEW q \in Queries, HandlerStep(q) PROVE HandlerInv'
    BY <1>4, <2>3, HandlerKept DEF Up
  <2>4. ASSUME NEW q \in Queries, NEW m \in Messages[q], UpstreamSends(q, m) PROVE HandlerInv'
    <3>1. /\ stage[q] = "upstream" /\ UNCHANGED <<query, sent, cached, response, said, stage>>
          /\ \A r \in Queries \ {q} : told'[r] = told[r] /\ datagram'[r] = datagram[r]
          /\ DOMAIN told' = Queries /\ DOMAIN datagram' = Queries
          /\ UNCHANGED <<boot, setting, zones>>
      BY <2>4 DEF UpstreamSends, HandlerInv, main
    <3>2. ASSUME NEW r \in Queries PROVE OfZone(r)' = OfZone(r)
      BY <3>1 DEF OfZone, FindRecords
    <3>3. ASSUME NEW r \in Queries \ {q}, stage[r] \in {"respond", "done"}
          PROVE  ResponseHasSource(r)'
      BY <3>1, <3>3, SourceKept DEF HandlerInv, EveryResponseHasSource
    <3>. QED  BY <3>1, <3>2, <3>3 DEF HandlerInv, EveryResponseHasSource
  <2>5. ASSUME NEW q \in Queries, DecodingPanics(q) PROVE HandlerInv'
    BY <2>5, OthersKeep DEF DecodingPanics, handler
  <2>. QED  BY <1>3, <1>4, <2>1, <2>2, <2>3, <2>4, <2>5 DEF Serve
<1>. QED  BY <1>1, <1>2, <1>3, <1>4 DEF DaemonNext

\* So it always holds.
LEMMA HandlerInvariant == DaemonSpec => []HandlerInv
BY HandlerInit, HandlerInvNext, PTL DEF DaemonSpec

\* Every response that handlePacket encodes answers the question it has decoded, and
\* each of its records comes from the zones, from a list stored for its key or from
\* the datagram that came for it.
THEOREM ResponsesHaveSources == DaemonSpec => []EveryResponseHasSource
<1>1. HandlerInv => EveryResponseHasSource  BY DEF HandlerInv
<1>. QED  BY <1>1, HandlerInvariant, PTL

\* What the zones answer is answered here, in any interleaving of the handlers, and
\* with any cache.
THEOREM ZonesStayHome == DaemonSpec => []ZonesAreNotForwarded
<1>1. HandlerInv => ZonesAreNotForwarded
  BY DEF HandlerInv, EveryResponseHasSource, ResponseHasSource, ZonesAreNotForwarded
<1>. QED  BY <1>1, HandlerInvariant, PTL

-----------------------------------------------------------------------------
(* The zones main starts with.                                             *)

\* The records of an entry, of a file, and of all files that give a zone: what their
\* names, types and class come from.
OfEntry(entry, root) ==
  {rr \in AnswerRecords :
     /\ rr.name = Canonical(ExpandName(entry.label, root)) /\ rr.type = entry.type
     /\ rr.class = ClassIN
     /\ Range(entry.values) # {}}
OfFile(file) ==
  {rr \in AnswerRecords :
     \E entry \in Range(file.entries) : rr \in OfEntry(entry, Canonical(file.root))}
OfFiles(files, root) ==
  {rr \in AnswerRecords :
     \E f \in Range(files) : f.supported /\ Canonical(f.root) = root /\ rr \in OfFile(f)}

\* The records of a set that have one key.
Keyed(S, k) == {rr \in S : KeyOf(rr) = k}

\* A label as it is written, under a root.
LEMMA ExpandNameType ==
  ASSUME NEW label \in AnyName, NEW root \in AnyName
  PROVE  /\ Canonical(ExpandName(label, root)) \in AnyName
         /\ Canonical(ExpandName(label, Canonical(root))) = Canonical(ExpandName(label, root))
<1>1. label \o root \in AnyName  BY DEF AnyName
<1>2. ExpandName(label, root) \in AnyName  BY <1>1 DEF ExpandName
<1>3. Canonical(label \o Canonical(root)) = Canonical(label \o root)  BY CanonicalBelow
<1>4. Canonical(Canonical(root)) = Canonical(root)  BY CanonicalTwice
<1>5. Canonical(ExpandName(label, root)) \in AnyName  BY <1>2, CanonicalType
<1>6. Canonical(ExpandName(label, Canonical(root))) = Canonical(ExpandName(label, root))
  BY <1>3, <1>4 DEF ExpandName
<1>. QED  BY <1>5, <1>6

\* The records of an entry can be answers.
LEMMA EntryRecordsType ==
  ASSUME NEW entry, IsEntry(entry), NEW root \in AnyName, DefaultTtl \in Nat
  PROVE  EntryRecords(entry, root) \in Seq(OfEntry(entry, root))
<1>n. PICK n \in Nat : n = Len(entry.values) /\ DOMAIN entry.values = 1..n
  BY DEF IsEntry
<1>. DEFINE Rr(i) == [name |-> Canonical(ExpandName(entry.label, root)), type |-> entry.type,
                      class |-> ClassIN, ttl |-> DefaultTtl,
                      data |-> EncodeData(entry.type, entry.values[i])]
<1>1. ASSUME NEW i \in 1..n PROVE Rr(i) \in OfEntry(entry, root)
  <2>1. IsText(entry.type, entry.values[i]) /\ Range(entry.values) # {}
    BY <1>n DEF IsEntry, Range
  <2>2. EncodeData(entry.type, entry.values[i]) \in Octets  BY <2>1, EncodeDataType
  <2>3. entry.label \in AnyName /\ entry.type \in Nat  BY DEF IsEntry
  <2>4. Canonical(ExpandName(entry.label, root)) \in AnyName  BY <2>3, ExpandNameType
  <2>5. Rr(i) \in AnswerRecords  BY <2>2, <2>3, <2>4 DEF AnswerRecords, ClassIN
  <2>6. /\ Rr(i).name = Canonical(ExpandName(entry.label, root)) /\ Rr(i).type = entry.type
        /\ Rr(i).class = ClassIN
    OBVIOUS
  <2>. HIDE DEF Rr
  <2>. QED  BY <2>1, <2>5, <2>6 DEF OfEntry
<1>2. EntryRecords(entry, root) = [i \in 1..n |-> Rr(i)]  BY <1>n DEF EntryRecords
<1>. HIDE DEF Rr
<1>. QED  BY <1>1, <1>2

\* The records of a file can be answers.
LEMMA FileRecordsType ==
  ASSUME NEW file, IsFile(file), DefaultTtl \in Nat
  PROVE  FileRecords(file) \in Seq(OfFile(file)) /\ Canonical(file.root) \in AnyName
<1>n. PICK n \in Nat : n = Len(file.entries) /\ DOMAIN file.entries = 1..n
  BY DEF IsFile
<1>r. Canonical(file.root) \in AnyName  BY CanonicalType DEF IsFile
<1>. DEFINE A(i) == EntryRecords(file.entries[i], Canonical(file.root))
<1>1. ASSUME NEW i \in 1..n PROVE A(i) \in Seq(OfFile(file))
  <2>1. file.entries[i] \in Range(file.entries)  BY <1>n DEF Range
  <2>2. IsEntry(file.entries[i])  BY <2>1 DEF IsFile
  <2>3. A(i) \in Seq(OfEntry(file.entries[i], Canonical(file.root)))
    BY <1>r, <2>2, EntryRecordsType
  <2>4. OfEntry(file.entries[i], Canonical(file.root)) \subseteq OfFile(file)
    BY <2>1 DEF OfFile, OfEntry
  <2>. HIDE DEF A
  <2>. QED  BY <2>3, <2>4
<1>2. FileRecords(file) = FlattenSeq([i \in 1..n |-> A(i)])  BY <1>n DEF FileRecords
<1>. HIDE DEF A
<1>3. [i \in 1..n |-> A(i)] \in Seq(Seq(OfFile(file)))  BY <1>1
<1>. QED  BY <1>r, <1>2, <1>3, FlattenType

\* The records with one key.
LEMMA OfKeyType ==
  ASSUME NEW S, NEW rs \in Seq(S), NEW k
  PROVE  OfKey(rs, k) \in Seq(Keyed(S, k))
<1>n. PICK n \in Nat : n = Len(rs) /\ DOMAIN rs = 1..n  OBVIOUS
<1>. DEFINE A(i) == IF KeyOf(rs[i]) = k THEN <<rs[i]>> ELSE <<>>
<1>1. ASSUME NEW i \in 1..n PROVE A(i) \in Seq(Keyed(S, k))
  <2>1. rs[i] \in S  BY <1>n
  <2>2. CASE KeyOf(rs[i]) = k
    <3>1. rs[i] \in Keyed(S, k)  BY <2>1, <2>2 DEF Keyed
    <3>. QED  BY <2>2, <3>1
  <2>3. CASE KeyOf(rs[i]) # k  BY <2>3
  <2>. QED  BY <2>2, <2>3
<1>2. OfKey(rs, k) = FlattenSeq([i \in 1..n |-> A(i)])  BY <1>n DEF OfKey
<1>. HIDE DEF A
<1>3. [i \in 1..n |-> A(i)] \in Seq(Seq(Keyed(S, k)))  BY <1>1
<1>. QED  BY <1>2, <1>3, FlattenType

\* What the walk makes of the files is lists of their records that can be answers.
LEMMA ZonesType ==
  ASSUME NEW files, files \in Seq(Range(files)), \A f \in Range(files) : IsFile(f),
         DefaultTtl \in Nat, NEW root \in DOMAIN ZonesOf(files)
  PROVE  ZonesOf(files)[root] \in Seq(OfFiles(files, root))
<1>n. PICK n \in Nat : n = Len(files) /\ DOMAIN files = 1..n  OBVIOUS
<1>. DEFINE F(i) == IF files[i].supported /\ Canonical(files[i].root) # <<>>
                    THEN [root |-> Canonical(files[i].root), records |-> FileRecords(files[i])]
                    ELSE [root |-> <<>>, records |-> <<>>]
            loaded == [i \in 1..n |-> F(i)]
            A(i) == IF loaded[i].root = root THEN loaded[i].records ELSE <<>>
<1>1. ASSUME NEW i \in 1..n PROVE A(i) \in Seq(OfFiles(files, root))
  <2>1. files[i] \in Range(files) /\ IsFile(files[i])  BY <1>n DEF Range
  <2>2. FileRecords(files[i]) \in Seq(OfFile(files[i]))  BY <2>1, FileRecordsType
  <2>3. CASE files[i].supported /\ Canonical(files[i].root) = root /\ root # <<>>
    <3>1. OfFile(files[i]) \subseteq OfFiles(files, root)
      BY <2>1, <2>3 DEF OfFiles, OfFile
    <3>2. A(i) = FileRecords(files[i])  BY <2>3
    <3>. HIDE DEF A
    <3>. QED  BY <2>2, <3>1, <3>2
  <2>4. CASE ~ (files[i].supported /\ Canonical(files[i].root) = root /\ root # <<>>)
    <3>1. A(i) = <<>>  BY <2>4
    <3>. HIDE DEF A
    <3>. QED  BY <3>1
  <2>. QED  BY <2>3, <2>4
<1>2. ZonesOf(files) = LoadZoneDirectory(loaded)  BY <1>n DEF ZonesOf
<1>. HIDE DEF F
<1>3. DOMAIN loaded = 1..n  OBVIOUS
<1>. HIDE DEF loaded
<1>4. ZonesOf(files)[root] = FlattenSeq([i \in 1..n |-> A(i)])
  BY <1>2, <1>3 DEF LoadZoneDirectory
<1>. HIDE DEF A
<1>5. [i \in 1..n |-> A(i)] \in Seq(Seq(OfFiles(files, root)))  BY <1>1
<1>. QED  BY <1>4, <1>5, FlattenType

\* What the zones hold under a key is a list of records of the files with that key,
\* which can be answers.
LEMMA FoundType ==
  ASSUME NEW files, files \in Seq(Range(files)), \A f \in Range(files) : IsFile(f),
         DefaultTtl \in Nat, zones = CacheOf(ZonesOf(files)), NEW name, NEW type, NEW class
  PROVE  FindRecords(name, type, class) \in
           Seq(Keyed(OfFiles(files, Apex[name]), CacheKey(name, type, class)))
<1>. DEFINE zone == Apex[name]
            key == CacheKey(name, type, class)
<1>1. CASE zone \in DOMAIN zones /\ key \in DOMAIN zones[zone]
  <2>1. zone \in DOMAIN ZonesOf(files) /\ zones[zone] = ByKey(ZonesOf(files)[zone])
    BY <1>1 DEF CacheOf
  <2>2. ZonesOf(files)[zone] \in Seq(OfFiles(files, zone))  BY <2>1, ZonesType
  <2>3. zones[zone][key] = OfKey(ZonesOf(files)[zone], key)
    BY <1>1, <2>1 DEF ByKey
  <2>4. FindRecords(name, type, class) = zones[zone][key]  BY <1>1 DEF FindRecords
  <2>. QED  BY <2>2, <2>3, <2>4, OfKeyType
<1>2. CASE ~ (zone \in DOMAIN zones /\ key \in DOMAIN zones[zone])
  <2>1. FindRecords(name, type, class) = <<>>  BY <1>2 DEF FindRecords
  <2>. QED  BY <2>1
<1>. QED  BY <1>1, <1>2

-----------------------------------------------------------------------------
(* What is on the wire.                                                    *)

\* The question of q as it is decoded.
Decoded(q) ==
  [id |-> Ids[q], name |-> asks[q].name, type |-> asks[q].type, class |-> asks[q].class]

\* A list of answers that can be encoded.
CanEncode(rrs) == rrs \in Seq(AnswerRecords) /\ ResponseFits(rrs)

\* Where handlePacket is with a packet, by what has become of it.
StageFits(s, p) ==
  /\ s \in {"none", "handle", "upstream", "respond", "done"}
  /\ s = "none" => p \in {"unsent", "arrived", "lost", "received"}
  /\ s = "done" => p \in {"answered", "replied", "unreplied"}
  /\ s \in {"handle", "upstream", "respond"} => p = "received"

\* The octets of q on its way: what the client has sent is decoded to its question,
\* and the same question goes upstream, comes back, and is in the reply.
WireOf(q) ==
  /\ asks[q] \in Questions[q]
  /\ StageFits(stage[q], packet[q])
  /\ packet[q] # "unsent" => request[q] = WriteQuery(Ids[q], asks[q], q \in WithEdns)
  /\ stage[q] # "none" => query[q] = Decoded(q)
  /\ stage[q] \in {"none", "handle"} => told[q] = Nothing
  /\ stage[q] = "upstream" => sent[q] = EncodeQuery(Decoded(q))
  /\ stage[q] = "upstream" /\ told[q] # Nothing =>
       /\ told[q] \in Messages[q]
       /\ datagram[q] = WriteResponse(told[q].id, asks[q], told[q].message)
  /\ stage[q] \in {"respond", "done"} =>
       response[q].id = Ids[q] /\ response[q].question = Decoded(q)
         /\ CanEncode(response[q].answers)
  /\ stage[q] = "done" =>
       reply[q] = EncodeResponse(response[q]) /\ reply[q] # NoMessage
  /\ got[q] # Nothing => got[q].id = Ids[q] /\ got[q].question = asks[q]

\* The lists in the answer cache have been decoded, and have one key each.
CacheInv ==
  /\ \A rrs \in cached : CanStore(rrs) /\ CanEncode(rrs)
  /\ cached # {} => HasCache

\* The zones are those of the directory that main has found.
ZonesInv ==
  /\ setting \in Settings
  /\ boot \in {"configure", "build", "run", "exited"}
  /\ boot = "run" =>
       DirectoryLoads(setting.files) /\ zones = CacheOf(ZonesOf(setting.files))

WireInv ==
  /\ DOMAIN asks = Queries /\ DOMAIN request = Queries /\ DOMAIN reply = Queries
  /\ DOMAIN got = Queries
  /\ \A q \in Queries : WireOf(q)
  /\ CacheInv /\ ZonesInv

\* No answers, a failure of upstream, can be encoded.
LEMMA NoAnswers == CanEncode(<<>>)
<1>1. Len(<<>>) = 0 /\ DOMAIN <<>> = {}  OBVIOUS
<1>. QED  BY <1>1 DEF CanEncode, ResponseFits

\* What the constants are for a query.
LEMMA AskedQuestion ==
  ASSUME NEW q \in Queries, asks[q] \in Questions[q]
  PROVE  /\ IsQuestion(asks[q]) /\ Ids[q] \in Nat
         /\ asks[q] = [name |-> asks[q].name, type |-> asks[q].type, class |-> asks[q].class]
         /\ QuestionEnd(asks[q]) + 4 <= BufferSize
         /\ asks[q].name \in AnyName
<1>1. IsAsked(asks[q]) /\ IsU16(Ids[q])  BY DaemonAssumption
<1>2. asks[q] \in [name : AnyName, type : Nat, class : Nat] /\ IsQuestion(asks[q])
  BY <1>1 DEF IsAsked
<1>3. asks[q].name \in AnyName  BY <1>2
<1>4. Len(Labels(asks[q].name)) \in Nat  BY <1>3, LabelsType, OctetsAt
<1>5. HeaderSize + Len(Labels(asks[q].name)) + 5 <= BufferSize  BY <1>1 DEF IsAsked
<1>6. QuestionEnd(asks[q]) + 4 <= BufferSize
  <2>1. HeaderSize \in Nat  BY DEF HeaderSize
  <2>2. BufferSize \in Nat  BY CodecAssumption
  <2>. QED  BY <1>4, <1>5, <2>1, <2>2 DEF QuestionEnd
<1>7. asks[q] = [name |-> asks[q].name, type |-> asks[q].type, class |-> asks[q].class]
  BY <1>2
<1>. QED  BY <1>1, <1>2, <1>3, <1>6, <1>7 DEF IsU16

\* The query of a client is decoded to its question.
LEMMA QuestionDecoded ==
  ASSUME NEW q \in Queries, asks[q] \in Questions[q]
  PROVE  DecodeQuery(Read(WriteQuery(Ids[q], asks[q], q \in WithEdns))) =
           [ok |-> TRUE, question |-> Decoded(q)]
<1>1. (q \in WithEdns) \in BOOLEAN  OBVIOUS
<1>. QED  BY <1>1, AskedQuestion, QueryDecoded DEF Decoded

\* A question that has been decoded is one that can be encoded.
LEMMA DecodedQuestion ==
  ASSUME NEW q \in Queries, asks[q] \in Questions[q]
  PROVE  IsQuestion(Decoded(q)) /\ Decoded(q).id \in Nat
<1>1. /\ Decoded(q).name = asks[q].name /\ Decoded(q).type = asks[q].type
      /\ Decoded(q).class = asks[q].class /\ Decoded(q).id = Ids[q]
  BY DEF Decoded
<1>. QED  BY <1>1, AskedQuestion DEF IsQuestion

\* The question that goes upstream is that of the client.
LEMMA QuestionForwarded ==
  ASSUME NEW q \in Queries, asks[q] \in Questions[q]
  PROVE  /\ EncodeQuery(Decoded(q)) # NoMessage
         /\ ReadMessage(EncodeQuery(Decoded(q))).question = asks[q]
<1>1. ReadMessage(EncodeQuery(Decoded(q))).question =
        [name |-> Decoded(q).name, type |-> Decoded(q).type, class |-> Decoded(q).class]
      /\ EncodeQuery(Decoded(q)) # NoMessage
  BY DecodedQuestion, QueryForwarded
<1>2. /\ Decoded(q).name = asks[q].name /\ Decoded(q).type = asks[q].type
      /\ Decoded(q).class = asks[q].class
  BY DEF Decoded
<1>. QED  BY <1>1, <1>2, AskedQuestion

\* The answers that are decoded from a message of upstream are those it has written.
LEMMA AnswersTold ==
  ASSUME NEW q \in Queries, asks[q] \in Questions[q], NEW m \in Messages[q], NEW expected,
         DecodeResponse(Read(WriteResponse(m.id, asks[q], m.message)), expected).ok
  PROVE  AreAnswersOf(
           DecodeResponse(Read(WriteResponse(m.id, asks[q], m.message)), expected).answers,
           m.message.answers)
<1>1. m.id \in Nat /\ IsMessage(m.message) /\ Len(m.message.answers) < 65536
  BY DaemonAssumption
<1>2. PICK id, asked, message : id = m.id /\ asked = asks[q] /\ message = m.message
  OBVIOUS
<1>3. IsQuestion(asked) /\ QuestionEnd(asked) + 4 <= BufferSize  BY <1>2, AskedQuestion
<1>4. id \in Nat /\ IsMessage(message)  BY <1>1, <1>2
<1>5. DecodeResponse(Read(WriteResponse(id, asked, message)), expected).ok  BY <1>2
<1>6. AreAnswersOf(DecodeResponse(Read(WriteResponse(id, asked, message)), expected).answers,
                   message.answers)
  BY <1>3, <1>4, <1>5, ResponseDecoded
<1>. QED  BY <1>2, <1>6

\* The answers that are decoded from a message of upstream can be encoded again.
LEMMA AnswersTaken ==
  ASSUME NEW q \in Queries, asks[q] \in Questions[q], NEW m \in Messages[q], NEW expected,
         DecodeResponse(Read(WriteResponse(m.id, asks[q], m.message)), expected).ok
  PROVE  CanEncode(
           DecodeResponse(Read(WriteResponse(m.id, asks[q], m.message)), expected).answers)
<1>1. m.id \in Nat /\ IsMessage(m.message) /\ Len(m.message.answers) < 65536
  BY DaemonAssumption
<1>2. AreAnswersOf(
        DecodeResponse(Read(WriteResponse(m.id, asks[q], m.message)), expected).answers,
        m.message.answers)
  BY AnswersTold
<1>3. IsSection(m.message.answers) /\ BufferSize < 65536
  BY <1>1, DaemonAssumption DEF IsMessage
<1>. QED  BY <1>1, <1>2, <1>3, DecodedFits DEF CanEncode

\* Every response with the question that was decoded is encoded, and the client reads
\* its own question in it.
LEMMA ReplyIsRead ==
  ASSUME NEW q \in Queries, asks[q] \in Questions[q], NEW resp,
         resp.id = Ids[q], resp.question = Decoded(q), CanEncode(resp.answers)
  PROVE  /\ EncodeResponse(resp) # NoMessage
         /\ ReadMessage(EncodeResponse(resp)).id = Ids[q]
         /\ ReadMessage(EncodeResponse(resp)).question = asks[q]
<1>1. IsQuestion(resp.question) /\ resp.id \in Nat  BY DecodedQuestion, AskedQuestion
<1>2. resp.answers \in Seq(AnswerRecords) /\ ResponseFits(resp.answers)  BY DEF CanEncode
<1>3. EncodeResponse(resp) # NoMessage  BY <1>1, <1>2, ResponseEncoded
<1>4. /\ ReadMessage(EncodeResponse(resp)).id = resp.id
      /\ ReadMessage(EncodeResponse(resp)).question =
           [name |-> resp.question.name, type |-> resp.question.type,
            class |-> resp.question.class]
  BY <1>1, <1>2, <1>3, ResponseRead
<1>5. /\ resp.question.name = asks[q].name /\ resp.question.type = asks[q].type
      /\ resp.question.class = asks[q].class
  BY DEF Decoded
<1>. QED  BY <1>3, <1>4, <1>5, AskedQuestion

\* The answers of the zones can be encoded.
LEMMA ZoneAnswersFit ==
  ASSUME ZonesInv, boot = "run", NEW q \in Queries, asks[q] \in Questions[q],
         query[q] = Decoded(q)
  PROVE  CanEncode(OfZone(q))
<1>. DEFINE name == Canonical(query[q].name)
            type == query[q].type
            class == query[q].class
            key == CacheKey(name, type, class)
            zone == Apex[name]
            given == OfFiles(setting.files, zone)
<1>1. IsDirectory(setting.files) /\ DirectoryLoads(setting.files) /\ DefaultTtl \in Nat
      /\ zones = CacheOf(ZonesOf(setting.files))
  BY DaemonAssumption DEF ZonesInv
<1>2. OfZone(q) = FindRecords(name, type, class)  BY DEF OfZone
<1>3. OfZone(q) \in Seq(Keyed(given, key))  BY <1>1, <1>2, FoundType DEF IsDirectory
<1>4. LabelsFit(name)
  <2>1. IsQuestion(asks[q])  BY AskedQuestion
  <2>2. IsName(asks[q].name)  BY <2>1 DEF IsQuestion
  <2>3. query[q].name = asks[q].name  BY DEF Decoded
  <2>. QED  BY <2>2, <2>3, CanonicalFits
<1>5. \A rr \in Keyed(given, key) : rr \in AnswerRecords /\ rr.name = name
  BY DEF Keyed, KeyOf, CacheKey, OfFiles
<1>6. Len(OfZone(q)) < 65536 /\ \A rr \in Range(OfZone(q)) : Len(rr.data) < 65536
  <2>1. CASE zone \in DOMAIN zones /\ key \in DOMAIN zones[zone]
    <3>1. OfZone(q) = zones[zone][key]  BY <1>2, <2>1 DEF FindRecords
    <3>2. zones[zone] \in Range(zones) /\ zones[zone][key] \in Range(zones[zone])
      BY <2>1 DEF Range
    <3>. QED  BY <1>1, <3>1, <3>2 DEF IsDirectory
  <2>2. CASE ~ (zone \in DOMAIN zones /\ key \in DOMAIN zones[zone])
    <3>1. OfZone(q) = <<>>  BY <1>2, <2>2 DEF FindRecords
    <3>. QED  BY <3>1 DEF Range
  <2>. QED  BY <2>1, <2>2
<1>. HIDE DEF key, name, type, class, zone, given
<1>7. OfZone(q) \in Seq(AnswerRecords)  BY <1>3, <1>5
<1>8. ResponseFits(OfZone(q))
  <2>1. Len(OfZone(q)) \in Nat /\ DOMAIN OfZone(q) = 1..Len(OfZone(q))  BY <1>3
  <2>2. Len(OfZone(q)) <= 65535  BY <1>6, <2>1
  <2>3. ASSUME NEW i \in DOMAIN OfZone(q)
        PROVE  LabelsFit(OfZone(q)[i].name) /\ Len(OfZone(q)[i].data) <= 65535
    <3>1. OfZone(q)[i] \in Keyed(given, key) /\ OfZone(q)[i] \in Range(OfZone(q))
      BY <1>3, <2>1 DEF Range
    <3>2. Len(OfZone(q)[i].data) \in Nat
      <4>1. OfZone(q)[i].data \in Octets  BY <1>5, <3>1 DEF AnswerRecords
      <4>. QED  BY <4>1, OctetsAt
    <3>. QED  BY <1>4, <1>5, <1>6, <3>1, <3>2
  <2>. QED  BY <2>2, <2>3 DEF ResponseFits
<1>. QED  BY <1>7, <1>8 DEF CanEncode

\* The handlers leave r alone.
Untouched(r) ==
  /\ asks'[r] = asks[r] /\ request'[r] = request[r] /\ stage'[r] = stage[r]
  /\ query'[r] = query[r] /\ sent'[r] = sent[r] /\ told'[r] = told[r]
  /\ datagram'[r] = datagram[r] /\ response'[r] = response[r] /\ reply'[r] = reply[r]
  /\ got'[r] = got[r]

\* What the transport may make of a packet by itself.
Moves(p, next) ==
  \/ next = p
  \/ p = "arrived" /\ next \in {"lost", "received"}
  \/ p = "answered" /\ next \in {"replied", "unreplied"}

\* A query that no handler touches stays as it is, wherever its packet goes.
LEMMA WireOfKept ==
  ASSUME NEW q \in Queries, WireOf(q), Untouched(q), Moves(packet[q], packet'[q])
  PROVE  WireOf(q)'
<1>1. StageFits(stage[q], packet[q]) => StageFits(stage[q], packet'[q])
  BY DEF StageFits, Moves
<1>2. packet'[q] # "unsent" => packet[q] # "unsent"  BY DEF Moves
<1>3. Decoded(q)' = Decoded(q)  BY DEF Decoded, Untouched
<1>. QED  BY <1>1, <1>2, <1>3 DEF WireOf, Untouched

\* The cache and the zones are as they were.
LEMMA StoresKept ==
  ASSUME CacheInv, ZonesInv, UNCHANGED <<boot, setting, zones>>
  PROVE  (UNCHANGED cached => CacheInv') /\ ZonesInv'
<1>1. HasCache' = HasCache  BY DEF HasCache, Loaded
<1>. QED  BY <1>1 DEF CacheInv, ZonesInv

\* A step that is about q.
LEMMA WireKeptAt ==
  ASSUME WireInv, NEW q \in Queries, UNCHANGED main, CacheInv', WireOf(q)',
         DOMAIN asks' = Queries, DOMAIN request' = Queries, DOMAIN reply' = Queries,
         DOMAIN got' = Queries,
         \A r \in Queries \ {q} : Untouched(r) /\ packet'[r] = packet[r]
  PROVE  WireInv'
<1>1. ASSUME NEW r \in Queries \ {q} PROVE WireOf(r)'
  BY <1>1, WireOfKept DEF WireInv, Moves
<1>2. UNCHANGED <<boot, setting, zones>>  BY DEF main
<1>3. ZonesInv'  BY <1>2, StoresKept DEF WireInv
<1>. QED  BY <1>1, <1>3 DEF WireInv

\* A step of the transport or of Run, for which no handler does anything.
LEMMA TransportMoves ==
  ASSUME TypeOK, UNCHANGED serverVars \/ Run \/ Signal \/ HandleSignal
                   \/ \E l \in Starts : LoopStep(l) \/ ReadError(l)
  PROVE  \A q \in Queries : Moves(packet[q], packet'[q])
<1>. USE DEF Moves
<1>p. DOMAIN packet = Queries  BY DEF TypeOK
<1>1. CASE UNCHANGED serverVars \/ Signal \/ HandleSignal \/ RunFails \/ RunReturns \/ RunStarts
  <2>1. packet' = packet
    BY <1>1
    DEF serverVars, vars, packets, Signal, HandleSignal, RunFails, RunReturns, RunStarts, Start
  <2>. QED  BY <2>1
<1>2. CASE RunStops
  BY <1>2 DEF RunStops, Stop, LostWith
<1>3. ASSUME NEW l \in Starts, LoopStep(l) \/ ReadError(l)
      PROVE  \A q \in Queries : Moves(packet[q], packet'[q])
  <2>1. CASE LoopEnds(l) \/ LoopGoesOn(l) \/ ReadBegins(l) \/ ReadFails(l) \/ CheckRunning(l)
             \/ ReadError(l)
    <3>1. packet' = packet
      BY <2>1 DEF LoopEnds, LoopGoesOn, ReadBegins, ReadFails, CheckRunning, ReadError, packets
    <3>. QED  BY <3>1
  <2>2. ASSUME NEW r \in Queries, ReadPacket(l, r)
        PROVE  \A q \in Queries : Moves(packet[q], packet'[q])
    <3>1. packet[r] = "arrived" /\ packet' = [packet EXCEPT ![r] = "received"]
      BY <2>2 DEF ReadPacket
    <3>. QED  BY <1>p, <3>1
  <2>. QED  BY <1>3, <2>1, <2>2 DEF LoopStep
<1>. QED  BY <1>1, <1>2, <1>3 DEF Run

\* Before main has done anything.
LEMMA WireInit == DaemonInit => WireInv
<1>. SUFFICES ASSUME DaemonInit PROVE WireInv  OBVIOUS
<1>1. /\ DOMAIN asks = Queries /\ \A q \in Queries : asks[q] \in Questions[q]
  BY DEF DaemonInit
<1>2. /\ stage = [q \in Queries |-> "none"] /\ packet = [q \in Queries |-> "unsent"]
      /\ query = [q \in Queries |-> Nothing] /\ request = query /\ reply = query /\ got = query
      /\ told = query /\ cached = {} /\ boot = "configure" /\ setting \in Settings
  BY DEF DaemonInit, ServerInit, Init
<1>3. ASSUME NEW q \in Queries PROVE WireOf(q)
  BY <1>1, <1>2 DEF WireOf, StageFits
<1>. QED  BY <1>1, <1>2, <1>3 DEF WireInv, CacheInv, ZonesInv

\* A list that goes into the response to q.
LEMMA Responds ==
  ASSUME WireInv, HandlerInv, NEW q \in Queries, NEW rcode, NEW rrs, CanEncode(rrs),
         Respond(q, rcode, rrs), stage[q] \in {"handle", "upstream", "respond"},
         UNCHANGED <<asks, request, query, reply, got, packet>>
  PROVE  /\ WireOf(q)'
         /\ \A r \in Queries \ {q} : stage'[r] = stage[r] /\ response'[r] = response[r]
<1>w. WireOf(q)  BY DEF WireInv
<1>1. /\ stage'[q] = "respond" /\ response'[q] = BuildResponse(query[q], rcode, rrs)
      /\ \A r \in Queries \ {q} : stage'[r] = stage[r] /\ response'[r] = response[r]
  BY DEF Respond, Goto, HandlerInv
<1>2. query[q] = Decoded(q) /\ packet[q] = "received"
  BY <1>w DEF WireOf, StageFits
<1>3. /\ response'[q].id = Ids[q] /\ response'[q].question = Decoded(q)
      /\ response'[q].answers = rrs
  BY <1>1, <1>2 DEF BuildResponse, Decoded
<1>4. Decoded(q)' = Decoded(q)  BY DEF Decoded
<1>5. StageFits("respond", "received")  BY DEF StageFits
<1>. QED  BY <1>w, <1>1, <1>2, <1>3, <1>4, <1>5 DEF WireOf

\* A step of handlePacket for q.
LEMMA WireHandled ==
  ASSUME WireInv, HandlerInv, TypeOK, boot = "run", NEW q \in Queries, HandlerStep(q)
  PROVE  WireInv'
<1>w. WireOf(q) /\ CacheInv /\ ZonesInv /\ asks[q] \in Questions[q]
      /\ DOMAIN asks = Queries /\ DOMAIN request = Queries /\ DOMAIN reply = Queries
      /\ DOMAIN got = Queries
  BY DEF WireInv, WireOf
<1>p. DOMAIN packet = Queries  BY DEF TypeOK
<1>d. /\ DOMAIN stage = Queries /\ DOMAIN query = Queries /\ DOMAIN sent = Queries
      /\ DOMAIN told = Queries /\ DOMAIN datagram = Queries /\ DOMAIN response = Queries
  BY DEF HandlerInv
<1>q. UNCHANGED main /\ UNCHANGED cached => CacheInv'  BY <1>w, StoresKept DEF main
<1>1. CASE Decode(q)
  <2>1. PICK decoded \in {DecodeQuery(Read(request[q]))} :
          IF decoded.ok
          THEN /\ query' = [query EXCEPT ![q] = decoded.question]
               /\ Goto(q, "handle")
               /\ UNCHANGED serverVars
          ELSE Reject(q) /\ UNCHANGED <<run, signal, stage, query>>
    BY <1>1 DEF Decode
  <2>2. packet[q] = "received" /\ stage[q] = "none"
        /\ UNCHANGED <<main, asks, request, sent, told, datagram, cached, response, reply, got>>
    BY <1>1 DEF Decode
  <2>3. request[q] = WriteQuery(Ids[q], asks[q], q \in WithEdns)
    BY <1>w, <2>2 DEF WireOf
  <2>4. decoded = [ok |-> TRUE, question |-> Decoded(q)]
    BY <1>w, <2>1, <2>3, QuestionDecoded
  <2>5. query' = [query EXCEPT ![q] = Decoded(q)] /\ stage' = [stage EXCEPT ![q] = "handle"]
        /\ packet' = packet
    BY <2>1, <2>4 DEF Goto, serverVars, vars, packets
  <2>6. Decoded(q)' = Decoded(q)  BY <2>2 DEF Decoded
  <2>7. WireOf(q)'
    <3>1. StageFits("handle", "received")  BY DEF StageFits
    <3>2. query'[q] = Decoded(q) /\ stage'[q] = "handle" /\ packet'[q] = "received"
      BY <1>d, <2>2, <2>5
    <3>. QED  BY <1>w, <2>2, <2>3, <2>6, <3>1, <3>2 DEF WireOf
  <2>8. \A r \in Queries \ {q} : Untouched(r) /\ packet'[r] = packet[r]
    BY <1>d, <2>2, <2>5 DEF Untouched
  <2>. QED  BY <1>q, <1>w, <2>2, <2>7, <2>8, WireKeptAt
<1>2. ASSUME NEW rcode, NEW rrs, CanEncode(rrs), Respond(q, rcode, rrs),
             stage[q] \in {"handle", "upstream", "respond"}, CacheInv',
             UNCHANGED <<asks, request, query, sent, reply, got, packet, main>>,
             \A r \in Queries \ {q} : told'[r] = told[r] /\ datagram'[r] = datagram[r]
      PROVE  WireInv'
  <2>1. /\ WireOf(q)'
        /\ \A r \in Queries \ {q} : stage'[r] = stage[r] /\ response'[r] = response[r]
    BY <1>2, Responds
  <2>2. \A r \in Queries \ {q} : Untouched(r) /\ packet'[r] = packet[r]
    BY <1>2, <2>1 DEF Untouched
  <2>. QED  BY <1>w, <1>2, <2>1, <2>2, WireKeptAt
<1>s. UNCHANGED serverVars => UNCHANGED packet  BY DEF serverVars, vars, packets
<1>h. stage[q] = "handle" => query[q] = Decoded(q)  BY <1>w DEF WireOf
<1>3. CASE AnswerFromZone(q)
  <2>1. stage[q] = "handle" /\ Respond(q, "NOERROR", OfZone(q))
        /\ UNCHANGED <<serverVars, main, asks, request, query, sent, told, datagram, cached,
                       reply, got>>
    BY <1>3 DEF AnswerFromZone
  <2>2. CanEncode(OfZone(q))  BY <1>w, <1>h, <2>1, ZoneAnswersFit
  <2>. QED  BY <1>2, <1>q, <1>s, <2>1, <2>2
<1>4. CASE AnswerFromCache(q)
  <2>1. PICK rrs \in cached : Respond(q, "NOERROR", rrs)
    BY <1>4 DEF AnswerFromCache
  <2>2. stage[q] = "handle"
        /\ UNCHANGED <<serverVars, main, asks, request, query, sent, told, datagram, cached,
                       reply, got>>
    BY <1>4 DEF AnswerFromCache
  <2>3. CanEncode(rrs)  BY <1>w DEF CacheInv
  <2>. QED  BY <1>2, <1>q, <1>s, <2>1, <2>2, <2>3
<1>5. CASE AskUpstream(q)
  <2>1. stage[q] = "handle"
        /\ UNCHANGED <<serverVars, main, asks, request, query, told, datagram, cached, reply, got>>
        /\ IF cancelled = {} /\ EncodeQuery(query[q]) # NoMessage
           THEN /\ sent' = [sent EXCEPT ![q] = EncodeQuery(query[q])]
                /\ Goto(q, "upstream")
                /\ UNCHANGED response
           ELSE Respond(q, "SERVFAIL", <<>>) /\ UNCHANGED sent
    BY <1>5 DEF AskUpstream
  <2>2. CASE Respond(q, "SERVFAIL", <<>>) /\ UNCHANGED sent
    BY <1>2, <1>q, <1>s, <2>1, <2>2, NoAnswers
  <2>3. CASE sent' = [sent EXCEPT ![q] = EncodeQuery(query[q])] /\ Goto(q, "upstream")
             /\ UNCHANGED response
    <3>1. stage'[q] = "upstream" /\ sent'[q] = EncodeQuery(Decoded(q))
      BY <1>d, <1>h, <2>1, <2>3 DEF Goto
    <3>2. told[q] = Nothing  BY <1>w, <2>1 DEF WireOf
    <3>3. packet[q] = "received" /\ packet' = packet /\ StageFits("upstream", "received")
      BY <1>s, <1>w, <2>1 DEF WireOf, StageFits
    <3>4. Decoded(q)' = Decoded(q)  BY <2>1 DEF Decoded
    <3>5. WireOf(q)'
      BY <1>h, <1>w, <2>1, <2>3, <3>1, <3>2, <3>3, <3>4 DEF WireOf
    <3>6. \A r \in Queries \ {q} : Untouched(r) /\ packet'[r] = packet[r]
      BY <1>d, <2>1, <2>3, <3>3 DEF Untouched, Goto
    <3>. QED  BY <1>q, <1>w, <2>1, <3>5, <3>6, WireKeptAt
  <2>. QED  BY <2>1, <2>2, <2>3
<1>6. CASE UpstreamFails(q)
  <2>1. stage[q] = "upstream" /\ Respond(q, "SERVFAIL", <<>>)
        /\ told' = [told EXCEPT ![q] = Nothing] /\ datagram' = [datagram EXCEPT ![q] = Nothing]
        /\ UNCHANGED <<serverVars, main, asks, request, query, sent, cached, reply, got>>
    BY <1>6 DEF UpstreamFails
  <2>2. \A r \in Queries \ {q} : told'[r] = told[r] /\ datagram'[r] = datagram[r]
    BY <1>d, <2>1
  <2>. QED  BY <1>2, <1>q, <1>s, <2>1, <2>2, NoAnswers
<1>7. CASE TakeAnswer(q)
  <2>1. stage[q] = "upstream" /\ told[q] # Nothing
        /\ UNCHANGED <<serverVars, main, asks, request, query, told, datagram, sent, reply, got>>
    BY <1>7 DEF TakeAnswer
  <2>2. PICK decoded \in {DecodeResponse(Read(datagram[q]), query[q].id)} :
          IF decoded.ok
          THEN /\ Respond(q, "NOERROR", decoded.answers)
               /\ cached' = IF HasCache /\ CanStore(decoded.answers)
                            THEN cached \cup {decoded.answers} ELSE cached
          ELSE Respond(q, "SERVFAIL", <<>>) /\ UNCHANGED cached
    BY <1>7 DEF TakeAnswer
  <2>3. CASE ~ decoded.ok
    BY <1>2, <1>q, <1>s, <2>1, <2>2, <2>3, NoAnswers
  <2>4. CASE decoded.ok
    <3>1. told[q] \in Messages[q]
          /\ datagram[q] = WriteResponse(told[q].id, asks[q], told[q].message)
      BY <1>w, <2>1 DEF WireOf
    <3>2. CanEncode(decoded.answers)
      BY <1>w, <2>2, <2>4, <3>1, AnswersTaken
    <3>3. CacheInv'
      <4>1. HasCache' = HasCache  BY <2>1 DEF HasCache, Loaded, main
      <4>2. \A rrs \in cached' : CanStore(rrs) /\ CanEncode(rrs)
        BY <1>w, <2>2, <2>4, <3>2 DEF CacheInv
      <4>3. cached' # {} => HasCache
        BY <1>w, <2>2, <2>4 DEF CacheInv
      <4>. QED  BY <4>1, <4>2, <4>3 DEF CacheInv
    <3>. QED  BY <1>2, <1>s, <2>1, <2>2, <2>4, <3>2, <3>3
  <2>. QED  BY <2>3, <2>4
<1>8. CASE Encode(q)
  <2>1. stage[q] = "respond" /\ packet[q] = "received" /\ stage' = [stage EXCEPT ![q] = "done"]
        /\ UNCHANGED <<main, asks, request, query, sent, told, datagram, cached, response, got>>
    BY <1>8 DEF Encode, Goto
  <2>2. PICK octets \in {EncodeResponse(response[q])} :
          IF octets # NoMessage
          THEN Answer(q) /\ reply' = [reply EXCEPT ![q] = octets]
          ELSE Reject(q) /\ UNCHANGED reply
    BY <1>8 DEF Encode
  <2>3. response[q].id = Ids[q] /\ response[q].question = Decoded(q)
        /\ CanEncode(response[q].answers)
    BY <1>w, <2>1 DEF WireOf
  <2>4. EncodeResponse(response[q]) # NoMessage  BY <1>w, <2>3, ReplyIsRead
  <2>5. reply' = [reply EXCEPT ![q] = EncodeResponse(response[q])]
        /\ packet' = [packet EXCEPT ![q] = "answered"]
    BY <2>2, <2>4 DEF Answer, PacketTo
  <2>6. Decoded(q)' = Decoded(q)  BY <2>1 DEF Decoded
  <2>7. WireOf(q)'
    <3>1. StageFits("done", "answered")  BY DEF StageFits
    <3>2. stage'[q] = "done" /\ packet'[q] = "answered"
          /\ reply'[q] = EncodeResponse(response[q])
      BY <1>d, <1>p, <1>w, <2>1, <2>5
    <3>. QED  BY <1>w, <2>1, <2>3, <2>4, <2>6, <3>1, <3>2 DEF WireOf
  <2>8. \A r \in Queries \ {q} : Untouched(r) /\ packet'[r] = packet[r]
    BY <1>d, <1>p, <1>w, <2>1, <2>5 DEF Untouched
  <2>9. DOMAIN reply' = Queries  BY <1>w, <2>5
  <2>. QED  BY <1>q, <1>w, <2>1, <2>7, <2>8, <2>9, WireKeptAt
<1>9. CASE SendReply(q)
  <2>1. packet[q] = "answered" /\ UNCHANGED <<main, handler>>
        /\ \E s \in {"replied", "unreplied"} : packet' = [packet EXCEPT ![q] = s]
    BY <1>9 DEF SendReply, Reply, PacketTo
  <2>2. \A r \in Queries : Untouched(r)  BY <2>1 DEF handler, Untouched
  <2>3. Moves(packet[q], packet'[q]) /\ \A r \in Queries \ {q} : packet'[r] = packet[r]
    BY <1>p, <2>1 DEF Moves
  <2>4. WireOf(q)'  BY <1>w, <2>2, <2>3, WireOfKept
  <2>. QED  BY <1>q, <1>w, <2>1, <2>2, <2>3, <2>4, WireKeptAt DEF handler
<1>. QED
  BY <1>1, <1>3, <1>4, <1>5, <1>6, <1>7, <1>8, <1>9 DEF HandlerStep

\* Every step of the daemon keeps what is on the wire.
LEMMA WireNext ==
  ASSUME WireInv, HandlerInv, DaemonInv, [DaemonNext]_daemonVars
  PROVE  WireInv'
<1>t. TypeOK /\ BootInv /\ ServingInv  BY DEF DaemonInv, TransportInv
<1>p. DOMAIN packet = Queries  BY <1>t DEF TypeOK
<1>w. CacheInv /\ ZonesInv /\ (\A q \in Queries : WireOf(q))
      /\ DOMAIN asks = Queries /\ DOMAIN request = Queries /\ DOMAIN reply = Queries
      /\ DOMAIN got = Queries
  BY DEF WireInv
<1>1. ASSUME UNCHANGED handler, UNCHANGED cached => CacheInv', ZonesInv',
             \A q \in Queries : Moves(packet[q], packet'[q])
      PROVE  WireInv'
  <2>1. \A q \in Queries : Untouched(q)  BY <1>1 DEF handler, Untouched
  <2>2. \A q \in Queries : WireOf(q)'  BY <1>1, <1>w, <2>1, WireOfKept
  <2>. QED  BY <1>1, <1>w, <2>2 DEF WireInv, handler
<1>2. ASSUME UNCHANGED <<boot, setting, zones, handler>>,
             \A q \in Queries : Moves(packet[q], packet'[q])
      PROVE  WireInv'
  BY <1>1, <1>2, <1>w, StoresKept
<1>s. UNCHANGED serverVars => \A q \in Queries : Moves(packet[q], packet'[q])
  BY DEF serverVars, vars, packets, Moves
<1>3. CASE UNCHANGED daemonVars
  BY <1>2, <1>3, <1>s DEF daemonVars, main
<1>4. CASE Boot \/ EarlySignal
  <2>1. UNCHANGED <<serverVars, setting, handler>>
    BY <1>4 DEF Boot, Configure, BuildApplication, EarlySignal
  <2>2. HasCache' = HasCache  BY <2>1 DEF HasCache, Loaded
  <2>3. UNCHANGED cached => CacheInv'  BY <1>w, <2>2 DEF CacheInv
  <2>4. ZonesInv'
    <3>1. CASE Configure \/ EarlySignal
      BY <1>w, <2>1, <3>1 DEF Configure, EarlySignal, ZonesInv
    <3>2. CASE BuildApplication
      BY <1>w, <2>1, <3>2 DEF BuildApplication, Builds, ZonesInv
    <3>. QED  BY <1>4, <3>1, <3>2 DEF Boot
  <2>. QED  BY <1>1, <1>s, <2>1, <2>3, <2>4
<1>5. ASSUME NEW q \in Queries, ClientReads(q) PROVE WireInv'
  <2>1. packet[q] = "replied" /\ got' = [got EXCEPT ![q] = ReadMessage(reply[q])]
        /\ UNCHANGED <<serverVars, main, asks, request, stage, query, sent, told, datagram,
                       cached, response, reply>>
    BY <1>5 DEF ClientReads
  <2>2. packet' = packet  BY <2>1 DEF serverVars, vars, packets
  <2>3. stage[q] = "done" /\ asks[q] \in Questions[q]
    BY <1>w, <2>1 DEF WireOf, StageFits
  <2>4. reply[q] = EncodeResponse(response[q]) /\ response[q].id = Ids[q]
        /\ response[q].question = Decoded(q) /\ CanEncode(response[q].answers)
    BY <1>w, <2>3 DEF WireOf
  <2>5. ReadMessage(reply[q]).id = Ids[q] /\ ReadMessage(reply[q]).question = asks[q]
    BY <2>3, <2>4, ReplyIsRead
  <2>6. got'[q] = ReadMessage(reply[q])  BY <1>w, <2>1
  <2>7. Decoded(q)' = Decoded(q)  BY <2>1 DEF Decoded
  <2>8. WireOf(q)'  BY <1>w, <2>1, <2>2, <2>5, <2>6, <2>7 DEF WireOf
  <2>9. \A r \in Queries \ {q} : Untouched(r) /\ packet'[r] = packet[r]
    BY <1>w, <2>1, <2>2 DEF Untouched
  <2>10. CacheInv'  BY <1>w, <2>1, StoresKept DEF main
  <2>11. DOMAIN got' = Queries  BY <1>w, <2>1
  <2>. QED  BY <1>w, <2>1, <2>8, <2>9, <2>10, <2>11, WireKeptAt
<1>6. CASE Up /\ Serve
  <2>b. boot = "run"  BY <1>6 DEF Up
  <2>1. CASE (Run \/ Signal \/ HandleSignal) /\ UNCHANGED <<main, handler>>
    BY <1>2, <1>t, <2>1, TransportMoves DEF main
  <2>2. ASSUME NEW l \in Starts, Loop(l) PROVE WireInv'
    BY <1>2, <1>t, <2>2, TransportMoves DEF Loop, main
  <2>3. ASSUME NEW q \in Queries, ClientAsks(q) PROVE WireInv'
    <3>1. packet[q] = "unsent" /\ packet' = [packet EXCEPT ![q] = "arrived"]
          /\ request' = [request EXCEPT ![q] = WriteQuery(Ids[q], asks[q], q \in WithEdns)]
          /\ UNCHANGED <<main, asks, stage, query, sent, told, datagram, cached, response, reply,
                         got>>
      BY <2>3 DEF ClientAsks, Arrive, PacketTo
    <3>2. StageFits(stage[q], "arrived")
      BY <1>w, <3>1 DEF WireOf, StageFits
    <3>3. packet'[q] = "arrived"
          /\ request'[q] = WriteQuery(Ids[q], asks[q], q \in WithEdns)
      BY <1>p, <1>w, <3>1
    <3>4. Decoded(q)' = Decoded(q)  BY <3>1 DEF Decoded
    <3>5. WireOf(q)'  BY <1>w, <3>1, <3>2, <3>3, <3>4 DEF WireOf
    <3>6. \A r \in Queries \ {q} : Untouched(r) /\ packet'[r] = packet[r]
      BY <1>p, <1>w, <3>1 DEF Untouched
    <3>7. CacheInv'  BY <1>w, <3>1, StoresKept DEF main
    <3>8. DOMAIN request' = Queries  BY <1>w, <3>1
    <3>. QED  BY <1>w, <3>1, <3>5, <3>6, <3>7, <3>8, WireKeptAt
  <2>4. ASSUME NEW q \in Queries, HandlerStep(q) PROVE WireInv'
    BY <1>t, <2>b, <2>4, WireHandled
  <2>5. ASSUME NEW q \in Queries, NEW m \in Messages[q], UpstreamSends(q, m) PROVE WireInv'
    <3>1. stage[q] = "upstream" /\ told' = [told EXCEPT ![q] = m]
          /\ datagram' = [datagram EXCEPT ![q] =
               WriteResponse(m.id, ReadMessage(sent[q]).question, m.message)]
          /\ UNCHANGED <<serverVars, main, asks, request, stage, query, sent, cached, response,
                         reply, got>>
      BY <2>5 DEF UpstreamSends
    <3>2. packet' = packet  BY <3>1 DEF serverVars, vars, packets
    <3>3. sent[q] = EncodeQuery(Decoded(q)) /\ asks[q] \in Questions[q]
      BY <1>w, <3>1 DEF WireOf
    <3>4. told'[q] = m /\ datagram'[q] = WriteResponse(m.id, asks[q], m.message)
      <4>1. ReadMessage(sent[q]).question = asks[q]  BY <3>3, QuestionForwarded
      <4>2. DOMAIN told = Queries /\ DOMAIN datagram = Queries  BY DEF HandlerInv
      <4>. QED  BY <3>1, <4>1, <4>2
    <3>5. Decoded(q)' = Decoded(q)  BY <3>1 DEF Decoded
    <3>6. WireOf(q)'  BY <1>w, <3>1, <3>2, <3>4, <3>5 DEF WireOf
    <3>7. \A r \in Queries \ {q} : Untouched(r) /\ packet'[r] = packet[r]
      <4>1. DOMAIN told = Queries /\ DOMAIN datagram = Queries  BY DEF HandlerInv
      <4>. QED  BY <3>1, <3>2, <4>1 DEF Untouched
    <3>8. CacheInv'  BY <1>w, <3>1, StoresKept DEF main
    <3>. QED  BY <1>w, <3>1, <3>6, <3>7, <3>8, WireKeptAt
  <2>6. ASSUME NEW q \in Queries, DecodingPanics(q) PROVE WireInv'
    BY <1>2, <1>s, <2>6 DEF DecodingPanics
  <2>. QED  BY <1>6, <2>1, <2>2, <2>3, <2>4, <2>5, <2>6 DEF Serve
<1>. QED  BY <1>3, <1>4, <1>5, <1>6 DEF DaemonNext

\* So it always holds.
LEMMA WireInvariant == DaemonSpec => []WireInv
BY WireInit, WireNext, DaemonInvariant, HandlerInvariant, PTL DEF DaemonSpec

\* A client that gets a reply finds its own ID and its own question in it, in its own
\* letter case: whatever the zones, the cache and upstream have said, and whatever the
\* names, the octets survive the way through decoder, handler and encoder.
THEOREM RepliesFitQueries == DaemonSpec => []ReplyFitsQuery
<1>1. WireInv => ReplyFitsQuery  BY DEF WireInv, WireOf, ReplyFitsQuery
<1>. QED  BY <1>1, WireInvariant, PTL

\* No query of a client is ever rejected, as every query decodes and every response
\* can be encoded; one is lost, or its reply not sent, only by the shutdown.
THEOREM QuietOnlyAtEnd == DaemonSpec => []QuietOnlyAtShutdown
<1>1. WireInv /\ DaemonInv => QuietOnlyAtShutdown
  BY DEF WireInv, WireOf, StageFits, DaemonInv, ServingInv, QuietOnlyAtShutdown
<1>. QED  BY <1>1, WireInvariant, DaemonInvariant, PTL

\* A list of the cache has one key.
LEMMA OneKey ==
  ASSUME NEW rrs, CanStore(rrs), CanEncode(rrs)
  PROVE  Cardinality({KeyOf(rr) : rr \in Range(rrs)}) = 1
<1>1. rrs # <<>> /\ \A i \in DOMAIN rrs : KeyOf(rrs[i]) = KeyOf(Head(rrs))  BY DEF CanStore
<1>2. rrs \in Seq(AnswerRecords)  BY DEF CanEncode
<1>3. 1 \in DOMAIN rrs  BY <1>1, <1>2
<1>4. {KeyOf(rr) : rr \in Range(rrs)} = {KeyOf(Head(rrs))}
  BY <1>1, <1>3 DEF Range
<1>. QED  BY <1>4, FS_Singleton

\* The daemon is type correct: handlePacket is with each query where its packet shows,
\* and the cache holds lists with one key only, or nothing if it is disabled.
THEOREM DaemonTypeCorrect == DaemonSpec => []DaemonTypeOK
<1>1. WireInv /\ DaemonInv => DaemonTypeOK
  <2>. SUFFICES ASSUME WireInv, DaemonInv PROVE DaemonTypeOK  OBVIOUS
  <2>1. TypeOK /\ BootInv /\ OwnerInv  BY DEF DaemonInv, TransportInv
  <2>2. boot \in {"configure", "build", "run", "exited"}
        /\ \A rrs \in cached : CanStore(rrs) /\ CanEncode(rrs)
        /\ (cached # {} => HasCache)
    BY DEF WireInv, CacheInv, ZonesInv
  <2>3. \A rrs \in cached : Cardinality({KeyOf(rr) : rr \in Range(rrs)}) = 1
    BY <2>2, OneKey
  <2>4. /\ crashed \in BOOLEAN
        /\ boot # "run" => started = 0 /\ signal = "none" /\ zones = Nothing /\ ~ crashed
    BY <2>1 DEF BootInv, OwnerInv
  <2>5. ASSUME NEW q \in Queries
        PROVE  CASE stage[q] = "none" -> packet[q] \in {"unsent", "arrived", "lost", "received"}
                 [] stage[q] = "done" -> packet[q] \in {"answered", "replied", "unreplied"}
                 [] OTHER -> stage[q] \in {"handle", "upstream", "respond"}
                             /\ packet[q] = "received"
    BY DEF WireInv, WireOf, StageFits
  <2>. QED  BY <2>1, <2>2, <2>3, <2>4, <2>5 DEF DaemonTypeOK
<1>. QED  BY <1>1, WireInvariant, DaemonInvariant, PTL

-----------------------------------------------------------------------------
(* The truth of answers.                                                   *)

\* What the zones give for a query is in their files: where those have no answer, there
\* is none.
LEMMA FilesAnswer ==
  ASSUME ZonesInv, boot = "run", NEW q \in Queries, query[q] = Decoded(q), ZoneAnswers(q) = {}
  PROVE  OfZone(q) = <<>>
<1>. DEFINE name == Canonical(asks[q].name)
            type == asks[q].type
            class == asks[q].class
            key == CacheKey(name, type, class)
            given == OfFiles(setting.files, Apex[name])
<1>1. IsDirectory(setting.files) /\ DefaultTtl \in Nat /\ zones = CacheOf(ZonesOf(setting.files))
  BY DaemonAssumption DEF ZonesInv
<1>2. /\ query[q].name = asks[q].name /\ query[q].type = asks[q].type
      /\ query[q].class = asks[q].class
  BY DEF Decoded
<1>3. OfZone(q) = FindRecords(name, type, class)  BY <1>2 DEF OfZone
<1>4. OfZone(q) \in Seq(Keyed(given, key))  BY <1>1, <1>3, FoundType DEF IsDirectory
<1>5. ASSUME NEW rr \in Keyed(given, key) PROVE FALSE
  <2>1. rr \in given /\ rr.name = name /\ rr.type = type /\ rr.class = class
    BY <1>5 DEF Keyed, KeyOf, CacheKey
  <2>2. PICK f \in Range(setting.files) :
          f.supported /\ Canonical(f.root) = Apex[name] /\ rr \in OfFile(f)
    BY <2>1 DEF OfFiles
  <2>3. PICK entry \in Range(f.entries) : rr \in OfEntry(entry, Canonical(f.root))
    BY <2>2 DEF OfFile
  <2>4. f.root \in AnyName /\ entry.label \in AnyName
    BY <1>1, <2>2, <2>3 DEF IsDirectory, IsFile, IsEntry
  <2>5. entry.type = type /\ Canonical(ExpandName(entry.label, f.root)) = name
    BY <2>1, <2>3, <2>4, ExpandNameType DEF OfEntry
  <2>c. asks[q].class = ClassIN
    <3>1. rr.class = ClassIN  BY <2>3 DEF OfEntry
    <3>. QED  BY <2>1, <3>1
  <2>6. PICK v \in Range(entry.values) : TRUE  BY <2>3 DEF OfEntry
  <2>7. [name |-> name, type |-> type, class |-> ClassIN, ttl |-> DefaultTtl,
         data |-> Meaning(type, v)] \in ZoneAnswers(q)
    BY <2>2, <2>3, <2>5, <2>6, <2>c DEF ZoneAnswers
  <2>. QED  BY <2>7
<1>. HIDE DEF given, key
<1>6. OfZone(q) # <<>> => OfZone(q)[1] \in Keyed(given, key)  BY <1>4
<1>. QED  BY <1>5, <1>6

\* Lists of records that upstream may write, none of which a decoder mistakes.
Ordinary(rrs) == IsSection(rrs) /\ \A rr \in Range(rrs) : IsOrdinary(rr)

\* The answers of a response that were decoded from a list are read as it says, if its
\* first record is about the name asked for.
LEMMA ReadAsWritten ==
  ASSUME NEW resp, IsQuestion(resp.question), resp.id \in Nat, EncodeResponse(resp) # NoMessage,
         NEW rrs, Ordinary(rrs), AreAnswersOf(resp.answers, rrs),
         rrs # <<>> => Canonical(Head(rrs).name) = Canonical(resp.question.name)
  PROVE  ReadMessage(EncodeResponse(resp)).answers = AsRead(rrs)
<1>1. PICK n \in Nat : n = Len(rrs) /\ DOMAIN rrs = 1..n  BY DEF Ordinary, IsSection
<1>2. PICK answers \in Seq(AnswerRecords) :
        answers = resp.answers /\ Len(answers) = n /\ DOMAIN answers = 1..n
  BY <1>1 DEF AreAnswersOf
<1>3. PICK values : values = [i \in 1..n |-> rrs[i].data]  OBVIOUS
<1>4. PICK qname : qname = resp.question.name  OBVIOUS
<1>5. ASSUME NEW i \in 1..n
      PROVE  /\ IsOf(answers[i], rrs[i], BufferSize) /\ IsRecord(rrs[i]) /\ IsOrdinary(rrs[i])
             /\ answers[i].name = Canonical(rrs[i].name) /\ answers[i].type = rrs[i].type
             /\ answers[i].class = rrs[i].class /\ answers[i].ttl = rrs[i].ttl
             /\ answers[i].data = PlainOctets(rrs[i].type, rrs[i].data)
             /\ values[i] = rrs[i].data
             /\ IsName(rrs[i].name) /\ IsName(answers[i].name)
  <2>1. rrs[i] \in Range(rrs)  BY <1>1 DEF Range
  <2>2. IsRecord(rrs[i]) /\ IsOrdinary(rrs[i])  BY <2>1 DEF Ordinary, IsSection
  <2>3. IsOf(answers[i], rrs[i], BufferSize)  BY <1>1, <1>2 DEF AreAnswersOf
  <2>4. IsName(rrs[i].name)  BY <2>2 DEF IsRecord
  <2>5. answers[i].name = Canonical(rrs[i].name)  BY <2>3 DEF IsOf
  <2>6. IsName(answers[i].name)  BY <2>4, <2>5, CanonicalIsName
  <2>. QED  BY <1>3, <2>2, <2>3, <2>4, <2>6 DEF IsOf
<1>6. Carry(answers, values)
  <2>1. \A i \in 1..n : IsValue(answers[i].type, values[i])  BY <1>5 DEF IsRecord
  <2>. QED  BY <1>2, <1>5, <2>1 DEF Carry
<1>7. ReadMessage(EncodeResponse(resp)).answers =
        [i \in 1..n |-> AnswerRead(answers[i], answers, qname, values[i])]
  <2>1. resp.answers \in Seq(AnswerRecords) /\ Carry(resp.answers, values)  BY <1>2, <1>6
  <2>2. ReadMessage(EncodeResponse(resp)).answers =
          [i \in 1..Len(resp.answers) |->
             AnswerRead(resp.answers[i], resp.answers, resp.question.name, values[i])]
    BY <2>1, AnswersRead, Z3
  <2>3. Len(resp.answers) = n /\ answers = resp.answers /\ qname = resp.question.name
    BY <1>2, <1>4
  <2>. QED  BY <2>2, <2>3, Zenon
<1>8. ASSUME NEW i \in 1..n
      PROVE  AnswerRead(answers[i], answers, qname, values[i]) =
               [name |-> Canonical(rrs[i].name), type |-> rrs[i].type, class |-> rrs[i].class,
                ttl |-> rrs[i].ttl, data |-> Meaning(rrs[i].type, rrs[i].data)]
  <2>1. Canonical(OwnerRead(answers[i], answers, qname)) = Canonical(rrs[i].name)
    <3>1. CASE answers[i].name = Head(answers).name
      <4>1. 1 \in 1..n /\ Head(answers) = answers[1] /\ Head(rrs) = rrs[1] /\ rrs # <<>>
        BY <1>1, <1>2
      <4>2. Canonical(qname) = Canonical(rrs[i].name)  BY <1>4, <1>5, <3>1, <4>1
      <4>. QED  BY <3>1, <4>2 DEF OwnerRead
    <3>2. CASE answers[i].name # Head(answers).name
      <4>1. rrs[i].name \in AnyName  BY <1>5 DEF IsName
      <4>2. Canonical(answers[i].name) = Canonical(rrs[i].name)  BY <1>5, <4>1, CanonicalTwice
      <4>. QED  BY <3>2, <4>2 DEF OwnerRead
    <3>. QED  BY <3>1, <3>2
  <2>. QED  BY <1>5, <2>1 DEF AnswerRead
<1>. QED  BY <1>1, <1>7, <1>8 DEF AsRead

\* Where the answers of a response are from that the zones do not give: there are none,
\* or upstream has written them, for this query or for another one with the same key.
AnswersTraced(q) ==
  \/ OfZone(q) # <<>>
  \/ response[q].answers = <<>>
  \/ /\ told[q] # Nothing /\ told[q] \in Messages[q]
     /\ AreAnswersOf(response[q].answers, told[q].message.answers)
  \/ /\ told[q] = Nothing
     /\ CanStore(response[q].answers) /\ KeyOf(Head(response[q].answers)) = Key(q)
     /\ \E rrs \in said : AreAnswersOf(response[q].answers, rrs)

\* What a client has got is in its reply.
TruthOf(q) ==
  /\ stage[q] \in {"respond", "done"} => AnswersTraced(q)
  /\ got[q] # Nothing => stage[q] = "done" /\ got[q] = ReadMessage(reply[q])

\* Upstream says what it may say, and the cache holds nothing else.
SaidInv ==
  /\ \A rrs \in said : \E q \in Queries : \E m \in Messages[q] : rrs = m.message.answers
  /\ \A rrs \in cached : \E written \in said : AreAnswersOf(rrs, written)

TruthInv == SaidInv /\ \A q \in Queries : TruthOf(q)

\* Before main has done anything.
LEMMA TruthInit == DaemonInit => TruthInv
BY DEF DaemonInit, TruthInv, SaidInv, TruthOf

\* A query that no handler touches stays as it is, whatever else upstream says.
LEMMA TruthKept ==
  ASSUME NEW q \in Queries, TruthOf(q), Untouched(q), UNCHANGED zones, said \subseteq said'
  PROVE  TruthOf(q)'
<1>1. OfZone(q)' = OfZone(q) /\ Key(q)' = Key(q)
  BY DEF Untouched, OfZone, Key, FindRecords
<1>2. AnswersTraced(q) => AnswersTraced(q)'  BY <1>1 DEF AnswersTraced, Untouched
<1>. QED  BY <1>2 DEF TruthOf, Untouched

\* A step that is about q.
LEMMA TruthKeptAt ==
  ASSUME TruthInv, NEW q \in Queries, UNCHANGED zones, said \subseteq said', SaidInv', TruthOf(q)',
         \A r \in Queries \ {q} : Untouched(r)
  PROVE  TruthInv'
BY TruthKept DEF TruthInv

\* A list that goes into the response to q.
LEMMA TruthResponds ==
  ASSUME TruthInv, HandlerInv, NEW q \in Queries, NEW rcode, NEW rrs, Respond(q, rcode, rrs),
         stage[q] \in {"handle", "upstream"}, UNCHANGED <<main, asks, request, query, reply, got>>,
         said \subseteq said', SaidInv',
         \A r \in Queries \ {q} :
           sent'[r] = sent[r] /\ told'[r] = told[r] /\ datagram'[r] = datagram[r],
         response'[q].answers = rrs => AnswersTraced(q)'
  PROVE  TruthInv'
<1>1. /\ stage'[q] = "respond" /\ response'[q] = BuildResponse(query[q], rcode, rrs)
      /\ \A r \in Queries \ {q} : stage'[r] = stage[r] /\ response'[r] = response[r]
  BY DEF Respond, Goto, HandlerInv
<1>2. response'[q].answers = rrs  BY <1>1 DEF BuildResponse
<1>3. got[q] = Nothing  BY DEF TruthInv, TruthOf
<1>4. TruthOf(q)'  BY <1>1, <1>2, <1>3 DEF TruthOf
<1>5. \A r \in Queries \ {q} : Untouched(r)  BY <1>1 DEF Untouched
<1>. QED  BY <1>4, <1>5, TruthKeptAt DEF main

\* A step of handlePacket for q.
LEMMA TruthHandled ==
  ASSUME TruthInv, WireInv, HandlerInv, TypeOK, NEW q \in Queries, HandlerStep(q)
  PROVE  TruthInv'
<1>w. WireOf(q) /\ asks[q] \in Questions[q] /\ TruthOf(q) /\ SaidInv
      /\ DOMAIN reply = Queries
  BY DEF WireInv, WireOf, TruthInv
<1>p. DOMAIN packet = Queries  BY DEF TypeOK
<1>d. /\ DOMAIN stage = Queries /\ DOMAIN query = Queries /\ DOMAIN sent = Queries
      /\ DOMAIN told = Queries /\ DOMAIN datagram = Queries /\ DOMAIN response = Queries
  BY DEF HandlerInv
<1>s. UNCHANGED <<said, cached>> => SaidInv'  BY <1>w DEF SaidInv
<1>1. CASE Decode(q)
  <2>1. /\ UNCHANGED <<main, asks, request, sent, told, datagram, cached, response, reply, got,
                       said>>
        /\ stage[q] = "none" /\ stage'[q] \in {"none", "handle"}
        /\ \A r \in Queries \ {q} : stage'[r] = stage[r] /\ query'[r] = query[r]
    BY <1>1, <1>d DEF Decode, Goto
  <2>2. TruthOf(q)'  BY <1>w, <2>1 DEF TruthOf
  <2>3. \A r \in Queries \ {q} : Untouched(r)  BY <2>1 DEF Untouched
  <2>. QED  BY <1>s, <2>1, <2>2, <2>3, TruthKeptAt DEF main
<1>z. UNCHANGED <<main, query>> => OfZone(q)' = OfZone(q) /\ Key(q)' = Key(q)
  BY DEF OfZone, Key, FindRecords, main
<1>3. CASE AnswerFromZone(q)
  <2>1. /\ stage[q] = "handle" /\ OfZone(q) # <<>> /\ Respond(q, "NOERROR", OfZone(q))
        /\ UNCHANGED <<serverVars, main, asks, request, query, sent, told, datagram, cached,
                       reply, got, said>>
    BY <1>3 DEF AnswerFromZone
  <2>2. AnswersTraced(q)'  BY <1>z, <2>1 DEF AnswersTraced
  <2>. QED  BY <1>s, <2>1, <2>2, TruthResponds
<1>4. CASE AnswerFromCache(q)
  <2>1. PICK rrs \in cached : KeyOf(Head(rrs)) = Key(q) /\ Respond(q, "NOERROR", rrs)
    BY <1>4 DEF AnswerFromCache
  <2>2. stage[q] = "handle"
        /\ UNCHANGED <<serverVars, main, asks, request, query, sent, told, datagram, cached,
                       reply, got, said>>
    BY <1>4 DEF AnswerFromCache
  <2>3. told'[q] = Nothing /\ CanStore(rrs) /\ \E written \in said' : AreAnswersOf(rrs, written)
    BY <1>w, <2>2 DEF WireOf, WireInv, CacheInv, SaidInv
  <2>4. response'[q].answers = rrs => AnswersTraced(q)'
    BY <1>z, <2>1, <2>2, <2>3 DEF AnswersTraced
  <2>. QED  BY <1>s, <2>1, <2>2, <2>4, TruthResponds
<1>5. CASE AskUpstream(q)
  <2>1. /\ stage[q] = "handle"
        /\ UNCHANGED <<main, asks, request, query, told, datagram, cached, reply, got, said>>
    BY <1>5 DEF AskUpstream
  <2>2. CASE Respond(q, "SERVFAIL", <<>>) /\ UNCHANGED sent
    <3>1. response'[q].answers = <<>> => AnswersTraced(q)'  BY DEF AnswersTraced
    <3>. QED  BY <1>s, <2>1, <2>2, <3>1, TruthResponds
  <2>3. CASE sent' = [sent EXCEPT ![q] = EncodeQuery(query[q])] /\ Goto(q, "upstream")
             /\ UNCHANGED response
    <3>1. TruthOf(q)'  BY <1>d, <1>w, <2>1, <2>3 DEF Goto, TruthOf
    <3>2. \A r \in Queries \ {q} : Untouched(r)  BY <1>d, <2>1, <2>3 DEF Untouched, Goto
    <3>. QED  BY <1>s, <2>1, <3>1, <3>2, TruthKeptAt DEF main
  <2>. QED  BY <1>5, <2>2, <2>3 DEF AskUpstream
<1>6. CASE UpstreamFails(q)
  <2>1. /\ stage[q] = "upstream" /\ Respond(q, "SERVFAIL", <<>>)
        /\ told' = [told EXCEPT ![q] = Nothing] /\ datagram' = [datagram EXCEPT ![q] = Nothing]
        /\ UNCHANGED <<serverVars, main, asks, request, query, sent, cached, reply, got, said>>
    BY <1>6 DEF UpstreamFails
  <2>2. \A r \in Queries \ {q} : told'[r] = told[r] /\ datagram'[r] = datagram[r]
    BY <1>d, <2>1
  <2>3. response'[q].answers = <<>> => AnswersTraced(q)'  BY DEF AnswersTraced
  <2>. QED  BY <1>s, <2>1, <2>2, <2>3, TruthResponds
<1>7. CASE TakeAnswer(q)
  <2>1. /\ stage[q] = "upstream" /\ told[q] # Nothing
        /\ said' = said \cup {told[q].message.answers}
        /\ UNCHANGED <<serverVars, main, asks, request, query, told, datagram, sent, reply, got>>
    BY <1>7 DEF TakeAnswer
  <2>2. PICK decoded \in {DecodeResponse(Read(datagram[q]), query[q].id)} :
          IF decoded.ok
          THEN /\ Respond(q, "NOERROR", decoded.answers)
               /\ cached' = IF HasCache /\ CanStore(decoded.answers)
                            THEN cached \cup {decoded.answers} ELSE cached
          ELSE Respond(q, "SERVFAIL", <<>>) /\ UNCHANGED cached
    BY <1>7 DEF TakeAnswer
  <2>3. told[q] \in Messages[q]
        /\ datagram[q] = WriteResponse(told[q].id, asks[q], told[q].message)
    BY <1>w, <2>1 DEF WireOf
  <2>4. \A rrs \in said' : \E r \in Queries : \E m \in Messages[r] : rrs = m.message.answers
    BY <1>w, <2>1, <2>3 DEF SaidInv
  <2>5. CASE ~ decoded.ok
    <3>1. response'[q].answers = <<>> => AnswersTraced(q)'  BY DEF AnswersTraced
    <3>2. SaidInv'  BY <1>w, <2>1, <2>2, <2>4, <2>5 DEF SaidInv
    <3>. QED  BY <2>1, <2>2, <2>5, <3>1, <3>2, TruthResponds
  <2>6. CASE decoded.ok
    <3>1. PICK rrs : rrs = decoded.answers  OBVIOUS
    <3>2. AreAnswersOf(rrs, told[q].message.answers)
      BY <1>w, <2>2, <2>3, <2>6, <3>1, AnswersTold
    <3>3. response'[q].answers = rrs => AnswersTraced(q)'
      BY <2>1, <2>3, <3>2 DEF AnswersTraced
    <3>4. \A stored \in cached' : \E written \in said' : AreAnswersOf(stored, written)
      BY <1>w, <2>1, <2>2, <2>6, <3>1, <3>2 DEF SaidInv
    <3>5. SaidInv'  BY <2>4, <3>4 DEF SaidInv
    <3>6. Respond(q, "NOERROR", rrs)  BY <2>2, <2>6, <3>1
    <3>. QED  BY <2>1, <3>3, <3>5, <3>6, TruthResponds
  <2>. QED  BY <2>5, <2>6
<1>8. CASE Encode(q)
  <2>1. /\ stage[q] = "respond" /\ stage' = [stage EXCEPT ![q] = "done"]
        /\ UNCHANGED <<main, asks, request, query, sent, told, datagram, cached, response, got,
                       said>>
        /\ \A r \in Queries \ {q} : reply'[r] = reply[r]
    BY <1>8, <1>w DEF Encode, Goto
  <2>2. AnswersTraced(q)'  BY <1>w, <1>z, <2>1 DEF TruthOf, AnswersTraced
  <2>3. TruthOf(q)'  BY <1>d, <1>w, <2>1, <2>2 DEF TruthOf
  <2>4. \A r \in Queries \ {q} : Untouched(r)  BY <1>d, <2>1 DEF Untouched
  <2>. QED  BY <1>s, <2>1, <2>3, <2>4, TruthKeptAt DEF main
<1>9. CASE SendReply(q)
  <2>1. UNCHANGED <<main, handler>>  BY <1>9 DEF SendReply
  <2>2. \A r \in Queries : Untouched(r)  BY <2>1 DEF handler, Untouched
  <2>3. UNCHANGED <<zones, said, cached>>  BY <2>1 DEF handler, main
  <2>4. TruthOf(q)'  BY <1>w, <2>2, <2>3, TruthKept
  <2>. QED  BY <1>s, <2>2, <2>3, <2>4, TruthKeptAt
<1>. QED
  BY <1>1, <1>3, <1>4, <1>5, <1>6, <1>7, <1>8, <1>9 DEF HandlerStep

\* Every step of the daemon keeps it.
LEMMA TruthNext ==
  ASSUME TruthInv, WireInv, HandlerInv, DaemonInv, [DaemonNext]_daemonVars
  PROVE  TruthInv'
<1>t. TypeOK  BY DEF DaemonInv, TransportInv
<1>w. SaidInv /\ (\A q \in Queries : TruthOf(q)) /\ DOMAIN got = Queries
  BY DEF TruthInv, WireInv
<1>s. UNCHANGED <<said, cached>> => SaidInv'  BY <1>w DEF SaidInv
<1>1. ASSUME UNCHANGED <<zones, handler>> PROVE TruthInv'
  <2>1. \A q \in Queries : Untouched(q)  BY <1>1 DEF handler, Untouched
  <2>2. UNCHANGED <<zones, said, cached>>  BY <1>1 DEF handler
  <2>. QED  BY <1>s, <1>w, <2>1, <2>2, TruthKept DEF TruthInv
<1>2. CASE UNCHANGED daemonVars  BY <1>1, <1>2 DEF daemonVars, main
<1>3. CASE Boot \/ EarlySignal
  <2>1. boot # "run" /\ UNCHANGED handler
    BY <1>3 DEF Boot, EarlySignal, Configure, BuildApplication
  <2>2. \A q \in Queries : stage[q] = "none"  BY <2>1 DEF HandlerInv
  <2>3. \A q \in Queries : TruthOf(q)'  BY <1>w, <2>1, <2>2 DEF TruthOf, handler
  <2>. QED  BY <1>s, <2>1, <2>3 DEF TruthInv, handler
<1>4. ASSUME NEW q \in Queries, ClientReads(q) PROVE TruthInv'
  <2>1. packet[q] = "replied" /\ got' = [got EXCEPT ![q] = ReadMessage(reply[q])]
        /\ UNCHANGED <<main, asks, request, stage, query, sent, told, datagram, cached,
                       response, reply, said>>
    BY <1>4 DEF ClientReads
  <2>2. stage[q] = "done"  BY <2>1 DEF WireInv, WireOf, StageFits
  <2>3. OfZone(q)' = OfZone(q) /\ Key(q)' = Key(q)  BY <2>1 DEF OfZone, Key, FindRecords, main
  <2>4. AnswersTraced(q)'  BY <1>w, <2>1, <2>2, <2>3 DEF TruthOf, AnswersTraced
  <2>5. got'[q] = ReadMessage(reply[q])  BY <1>w, <2>1
  <2>6. TruthOf(q)'  BY <2>1, <2>2, <2>4, <2>5 DEF TruthOf
  <2>7. \A r \in Queries \ {q} : Untouched(r)  BY <1>w, <2>1 DEF Untouched
  <2>. QED  BY <1>s, <2>1, <2>6, <2>7, TruthKeptAt DEF main
<1>5. CASE Up /\ Serve
  <2>1. CASE (Run \/ Signal \/ HandleSignal) /\ UNCHANGED <<main, handler>>
    BY <1>1, <2>1 DEF main
  <2>2. ASSUME NEW l \in Starts, Loop(l) PROVE TruthInv'
    BY <1>1, <2>2 DEF Loop, main
  <2>3. ASSUME NEW q \in Queries, ClientAsks(q) PROVE TruthInv'
    <3>1. UNCHANGED <<main, asks, stage, query, sent, told, datagram, cached, response, reply,
                      got, said>>
          /\ request' = [request EXCEPT ![q] = WriteQuery(Ids[q], asks[q], q \in WithEdns)]
      BY <2>3 DEF ClientAsks
    <3>2. DOMAIN request = Queries  BY DEF WireInv
    <3>3. \A r \in Queries \ {q} : Untouched(r)  BY <3>1, <3>2 DEF Untouched
    <3>4. OfZone(q)' = OfZone(q) /\ Key(q)' = Key(q)  BY <3>1 DEF OfZone, Key, FindRecords, main
    <3>5. TruthOf(q)'  BY <1>w, <3>1, <3>4 DEF TruthOf, AnswersTraced
    <3>. QED  BY <1>s, <3>1, <3>3, <3>5, TruthKeptAt DEF main
  <2>4. ASSUME NEW q \in Queries, HandlerStep(q) PROVE TruthInv'
    BY <1>t, <2>4, TruthHandled
  <2>5. ASSUME NEW q \in Queries, NEW m \in Messages[q], UpstreamSends(q, m) PROVE TruthInv'
    <3>1. stage[q] = "upstream"
          /\ UNCHANGED <<main, asks, request, stage, query, sent, cached, response, reply, got,
                         said>>
          /\ \A r \in Queries \ {q} : told'[r] = told[r] /\ datagram'[r] = datagram[r]
      BY <2>5 DEF UpstreamSends, HandlerInv
    <3>2. TruthOf(q)'  BY <1>w, <3>1 DEF TruthOf
    <3>3. \A r \in Queries \ {q} : Untouched(r)  BY <3>1 DEF Untouched
    <3>. QED  BY <1>s, <3>1, <3>2, <3>3, TruthKeptAt DEF main
  <2>6. ASSUME NEW q \in Queries, DecodingPanics(q) PROVE TruthInv'
    BY <1>1, <2>6 DEF DecodingPanics
  <2>. QED  BY <1>5, <2>1, <2>2, <2>3, <2>4, <2>5, <2>6 DEF Serve
<1>. QED  BY <1>2, <1>3, <1>4, <1>5 DEF DaemonNext

\* So it always holds.
LEMMA TruthInvariant == DaemonSpec => []TruthInv
BY TruthInit, TruthNext, WireInvariant, DaemonInvariant, HandlerInvariant, PTL DEF DaemonSpec

\* In a reply to q that the zones do not answer is what upstream has written.
LEMMA TruthTold ==
  ASSUME OrdinaryAnswers, TruthInv, WireInv, HandlerInv, NEW q \in Queries,
         got[q] # Nothing, got[q].answers # <<>>, ZoneAnswers(q) = {}
  PROVE  IF told[q] # Nothing
         THEN Canonical(Head(told[q].message.answers).name) = Canonical(asks[q].name) =>
                got[q].answers = AsRead(told[q].message.answers)
         ELSE /\ \A rr \in Range(got[q].answers) : KeyOf(rr) = AskedKey(q)
              /\ \E rrs \in said : got[q].answers = AsRead(rrs)
<1>w. WireOf(q) /\ ZonesInv /\ TruthOf(q) /\ SaidInv  BY DEF WireInv, TruthInv
<1>1. stage[q] = "done" /\ got[q] = ReadMessage(reply[q]) /\ AnswersTraced(q)
  BY <1>w DEF TruthOf
<1>2. boot = "run"  BY <1>1 DEF HandlerInv
<1>3. query[q] = Decoded(q) /\ asks[q] \in Questions[q]  BY <1>w, <1>1 DEF WireOf
<1>4. OfZone(q) = <<>>  BY <1>w, <1>2, <1>3, FilesAnswer
<1>5. PICK resp : resp = response[q]  OBVIOUS
<1>6. /\ IsQuestion(resp.question) /\ resp.id \in Nat /\ EncodeResponse(resp) # NoMessage
      /\ resp.question.name = asks[q].name /\ reply[q] = EncodeResponse(resp)
  <2>1. resp.id = Ids[q] /\ resp.question = Decoded(q) /\ reply[q] = EncodeResponse(resp)
        /\ EncodeResponse(resp) # NoMessage
    BY <1>w, <1>1, <1>5 DEF WireOf
  <2>2. Decoded(q).name = asks[q].name  BY DEF Decoded
  <2>. QED  BY <1>3, <2>1, <2>2, DecodedQuestion, AskedQuestion
<1>7. ASSUME NEW rrs, Ordinary(rrs), AreAnswersOf(resp.answers, rrs),
             rrs # <<>> => Canonical(Head(rrs).name) = Canonical(asks[q].name)
      PROVE  got[q].answers = AsRead(rrs)
  <2>1. ReadMessage(EncodeResponse(resp)).answers = AsRead(rrs)
    BY <1>6, <1>7, ReadAsWritten
  <2>. QED  BY <1>1, <1>6, <2>1
<1>8. ASSUME NEW r \in Queries, NEW m \in Messages[r] PROVE Ordinary(m.message.answers)
  <2>1. IsMessage(m.message)  BY DaemonAssumption
  <2>. QED  BY <2>1 DEF IsMessage, Ordinary, OrdinaryAnswers
<1>9. resp.answers # <<>>
  <2>1. SUFFICES ASSUME resp.answers = <<>> PROVE FALSE  OBVIOUS
  <2>2. Ordinary(<<>>)
    <3>1. Range(<<>>) = {} /\ <<>> \in Seq({})  BY DEF Range
    <3>. QED  BY <3>1 DEF Ordinary, IsSection
  <2>3. AreAnswersOf(resp.answers, <<>>)  BY <2>1 DEF AreAnswersOf
  <2>4. got[q].answers = AsRead(<<>>)  BY <1>7, <2>2, <2>3
  <2>5. AsRead(<<>>) = <<>>  BY DEF AsRead
  <2>. QED  BY <2>4, <2>5
<1>10. CASE told[q] # Nothing
  <2>1. told[q] \in Messages[q] /\ AreAnswersOf(resp.answers, told[q].message.answers)
    BY <1>1, <1>4, <1>5, <1>9, <1>10 DEF AnswersTraced
  <2>. QED  BY <1>7, <1>8, <1>10, <2>1
<1>11. CASE told[q] = Nothing
  <2>1. PICK rrs \in said :
          /\ AreAnswersOf(resp.answers, rrs)
          /\ CanStore(resp.answers) /\ KeyOf(Head(resp.answers)) = Key(q)
    BY <1>1, <1>4, <1>5, <1>9, <1>11 DEF AnswersTraced
  <2>2. Key(q) = AskedKey(q)  BY <1>3 DEF Key, AskedKey, Decoded
  <2>3. Ordinary(rrs)  BY <1>w, <1>8 DEF SaidInv
  <2>4. PICK n \in Nat : n = Len(rrs) /\ DOMAIN rrs = 1..n
    BY <2>3 DEF Ordinary, IsSection
  <2>5. PICK answers \in Seq(AnswerRecords) :
          /\ answers = resp.answers /\ Len(answers) = n /\ DOMAIN answers = 1..n
          /\ \A i \in 1..n : IsOf(answers[i], rrs[i], BufferSize)
    BY <2>1, <2>4 DEF AreAnswersOf
  <2>6. ASSUME NEW i \in 1..n
        PROVE  CacheKey(Canonical(rrs[i].name), rrs[i].type, rrs[i].class) = AskedKey(q)
    <3>1. KeyOf(answers[i]) = AskedKey(q)  BY <2>1, <2>2, <2>5 DEF CanStore
    <3>2. /\ answers[i].name = Canonical(rrs[i].name) /\ answers[i].type = rrs[i].type
          /\ answers[i].class = rrs[i].class
      BY <2>5 DEF IsOf
    <3>. QED  BY <3>1, <3>2 DEF KeyOf
  <2>7. rrs # <<>> => Canonical(Head(rrs).name) = Canonical(asks[q].name)
    <3>1. rrs # <<>> => 1 \in 1..n /\ Head(rrs) = rrs[1]  BY <2>3, <2>4 DEF Ordinary, IsSection
    <3>. QED  BY <2>6, <3>1 DEF CacheKey, AskedKey
  <2>8. got[q].answers = AsRead(rrs)  BY <1>7, <2>1, <2>3, <2>7
  <2>9. ASSUME NEW rr \in Range(AsRead(rrs)) PROVE KeyOf(rr) = AskedKey(q)
    <3>1. PICK i \in 1..n : rr = AsRead(rrs)[i]  BY <2>4 DEF Range, AsRead
    <3>2. /\ rr.name = Canonical(rrs[i].name) /\ rr.type = rrs[i].type
          /\ rr.class = rrs[i].class
      BY <2>4, <3>1 DEF AsRead
    <3>. QED  BY <2>6, <3>2 DEF KeyOf
  <2>. QED  BY <1>11, <2>8, <2>9
<1>. QED  BY <1>10, <1>11

\* Every record a client reads that is not from the zone files is one that upstream has
\* sent, for its query or, by way of the cache, for one with the same key, and says the
\* same: whatever the names and the data, and however they were compressed, decoder,
\* cache and encoder keep owner, type, class, TTL and meaning. The one thing needed is
\* that no SOA or CAA record among the answers is such as its decoder may mistake.
THEOREM AnswersTrue ==
  ASSUME OrdinaryAnswers
  PROVE  DaemonSpec => []AnswersAreTrue
<1>1. TruthInv /\ WireInv /\ HandlerInv => AnswersAreTrue
  BY TruthTold DEF AnswersAreTrue
<1>. QED  BY <1>1, TruthInvariant, WireInvariant, HandlerInvariant, PTL
=============================================================================
