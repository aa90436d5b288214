------------------------------- MODULE Daemon -------------------------------
(***************************************************************************)
(* cmd/rr-dnsd/main.go from the environment and the zone directory to the  *)
(* end of the process, and in between a query on its whole way: from the   *)
(* octets a client sends, through handlePacket, DecodeQuery, HandleQuery,  *)
(* EncodeQuery, one upstream server, DecodeResponse and EncodeResponse, to *)
(* what the client reads.                                                  *)
(*                                                                         *)
(* The parts with modules of their own come in as what they promise: the   *)
(* answer cache may return a list that was stored for the key or nothing   *)
(* (LossyCache), and a call of Resolve answers or fails (UpstreamClient).  *)
(* main passes a NoopBlocklist and no AliasResolver.  There is no clock    *)
(* here, so a TTL does not change.                                         *)
(***************************************************************************)
EXTENDS Server, ZoneLoader, Rfc1035, Config

CONSTANTS
  Settings,    \* environments and zone directories: [environ, files]
  Ids,         \* Ids[q]: the ID of query q
  Questions,   \* Questions[q]: what q may ask, [name, type, class]
  WithEdns,    \* the queries that carry an OPT record
  Messages     \* Messages[q]: what a server may answer to query q, [id, message]

\* The question of a query, with which it fits the buffer: names by RFC 1035 have at
\* most 255 octets, and the buffer 512.
IsAsked(a) ==
  /\ a \in [name : AnyName, type : Nat, class : Nat] /\ IsQuestion(a)
  /\ HeaderSize + Len(Labels(a.name)) + 5 <= BufferSize
  /\ Canonical(a.name) \in Names

\* A zone directory without a list of answers, or a record, too long for a response.
IsDirectory(files) ==
  /\ files \in Seq(Range(files)) /\ \A file \in Range(files) : IsFile(file)
  /\ DirectoryLoads(files) =>
       \A zone \in Range(CacheOf(ZonesOf(files))) : \A rrs \in Range(zone) :
         Len(rrs) < 65536 /\ \A rr \in Range(rrs) : Len(rr.data) < 65536

ASSUME DaemonAssumption ==
  /\ BufferSize < 65536 /\ DefaultTtl \in Nat
  /\ \A s \in Settings : IsDirectory(s.files)
  /\ \A q \in Queries :
       /\ IsU16(Ids[q])
       /\ \A a \in Questions[q] : IsAsked(a)
       /\ \A m \in Messages[q] :
            m.id \in Nat /\ IsMessage(m.message) /\ Len(m.message.answers) < 65536

VARIABLES
  boot,     \* main: "configure", "build", "run", or "exited"
  setting,  \* what main finds
  crashed,  \* a goroutine has panicked, and the process is gone
  asks,     \* asks[q]: the question of query q
  request,  \* request[q]: the octets the client has sent
  stage,    \* stage[q]: where handlePacket is with q
  query,    \* query[q]: the Question that was decoded
  sent,     \* sent[q]: the octets sent upstream
  told,     \* told[q]: the message upstream has sent back, until Resolve gives up
  datagram, \* datagram[q]: the octets of that message
  cached,   \* the record lists the answer cache has stored
  response, \* response[q]: the DNSResponse of HandleQuery
  reply,    \* reply[q]: the octets EncodeResponse made of it
  got,      \* got[q]: what the client reads in the reply
  said      \* history: the answer sections upstream has sent

main == <<boot, setting, zones, crashed>>
handler == <<asks, request, stage, query, sent, told, datagram, cached, response, reply,
             got, said>>
daemonVars == <<serverVars, main, handler>>

Nothing == <<>>

DaemonInit ==
  /\ ServerInit
  /\ boot = "configure"
  /\ setting \in Settings
  /\ zones = Nothing /\ crashed = FALSE
  /\ cached = {} /\ said = {}
  /\ asks \in {f \in [Queries -> UNION Range(Questions)] :
                 \A q \in Queries : f[q] \in Questions[q]}
  /\ stage = [q \in Queries |-> "none"]
  /\ query = [q \in Queries |-> Nothing] /\ request = query /\ sent = query /\ told = query
  /\ datagram = query /\ response = query /\ reply = query /\ got = query

Up == boot = "run" /\ Alive /\ ~ crashed

Loaded == Load(setting.environ)

-----------------------------------------------------------------------------
(* main up to Run.                                                         *)

\* config.Load; log.Configure takes every level it lets through.
Configure ==
  /\ boot = "configure"
  /\ boot' = IF Loaded.ok THEN "build" ELSE "exited"
  /\ UNCHANGED <<serverVars, setting, zones, crashed, handler>>

\* buildApplication: the cache, the zones, the upstream client.
Builds == Loaded.cfg.servers # <<>> /\ DirectoryLoads(setting.files)

BuildApplication ==
  /\ boot = "build"
  /\ IF Builds
     THEN boot' = "run" /\ zones' = CacheOf(ZonesOf(setting.files))
     ELSE boot' = "exited" /\ UNCHANGED zones
  /\ UNCHANGED <<serverVars, setting, crashed, handler>>

\* Before signal.Notify a signal ends the process at once.
EarlySignal ==
  /\ boot \in {"configure", "build"}
  /\ boot' = "exited"
  /\ UNCHANGED <<serverVars, setting, zones, crashed, handler>>

-----------------------------------------------------------------------------
(* handlePacket: decoding the query, and HandleQuery.                      *)

Goto(q, s) == stage' = [stage EXCEPT ![q] = s]

Key(q) == CacheKey(Canonical(query[q].name), query[q].type, query[q].class)
OfZone(q) == FindRecords(Canonical(query[q].name), query[q].type, query[q].class)

HasCache == Loaded.cfg.disable_cache = "false"

Decode(q) ==
  /\ packet[q] = "received" /\ stage[q] = "none"
  /\ UNCHANGED <<main, asks, request, sent, told, datagram, cached, response, reply, got, said>>
  /\ \E decoded \in {DecodeQuery(Read(request[q]))} :
       IF decoded.ok
       THEN /\ query' = [query EXCEPT ![q] = decoded.question]
            /\ Goto(q, "handle")
            /\ UNCHANGED serverVars
       ELSE Reject(q) /\ UNCHANGED <<run, signal, stage, query>>

\* Seeded bug: the question is put in canonical form for the lookups, and stays so.
BuildResponseBug(question, rcode, rrs) ==
  [id |-> question.id, rcode |-> rcode, answers |-> rrs,
   question |-> [question EXCEPT !.name = Canonical(question.name)]]

BuildResponse(question, rcode, rrs) ==
  [id |-> question.id, rcode |-> rcode, answers |-> rrs, question |-> question]

\* The end of HandleQuery.
Respond(q, rcode, rrs) ==
  /\ Goto(q, "respond")
  /\ response' = [response EXCEPT ![q] = BuildResponse(query[q], rcode, rrs)]

AnswerFromZone(q) ==
  /\ stage[q] = "handle" /\ OfZone(q) # <<>>
  /\ Respond(q, "NOERROR", OfZone(q))
  /\ UNCHANGED <<serverVars, main, asks, request, query, sent, told, datagram, cached, reply,
                 got, said>>

AnswerFromCache(q) ==
  /\ stage[q] = "handle" /\ OfZone(q) = <<>> /\ HasCache
  /\ \E rrs \in cached : KeyOf(Head(rrs)) = Key(q) /\ Respond(q, "NOERROR", rrs)
  /\ UNCHANGED <<serverVars, main, asks, request, query, sent, told, datagram, cached, reply,
                 got, said>>

\* The cache, if there is one, has no answer. Once the signal has been handled, the
\* context is cancelled and the dial fails.
AskUpstream(q) ==
  LET octets == EncodeQuery(query[q])
  IN /\ stage[q] = "handle" /\ OfZone(q) = <<>>
     /\ IF cancelled = {} /\ octets # NoMessage
        THEN /\ sent' = [sent EXCEPT ![q] = octets]
             /\ Goto(q, "upstream")
             /\ UNCHANGED response
        ELSE Respond(q, "SERVFAIL", <<>>) /\ UNCHANGED sent
     /\ UNCHANGED <<serverVars, main, asks, request, query, told, datagram, cached, reply, got, said>>

\* A datagram comes from the server: an answer to the question it was sent, or one
\* with another ID.
UpstreamSends(q, m) ==
  /\ stage[q] = "upstream" /\ told[q] = Nothing
  /\ told' = [told EXCEPT ![q] = m]
  /\ datagram' = [datagram EXCEPT ![q] =
       WriteResponse(m.id, ReadMessage(sent[q]).question, m.message)]
  /\ UNCHANGED <<serverVars, main, asks, request, stage, query, sent, cached, response,
                 reply, got, said>>

\* Seeded bug: a list is stored whatever the keys of its records.
CanStoreBug(rrs) == rrs # <<>>

\* Set stores a list with one key, and nothing of any other list.
CanStore(rrs) == rrs # <<>> /\ \A i \in DOMAIN rrs : KeyOf(rrs[i]) = KeyOf(Head(rrs))

\* The datagram is read and decoded, and HandleQuery ends with what was in it.
TakeAnswer(q) ==
  /\ stage[q] = "upstream" /\ told[q] # Nothing
  /\ said' = said \cup {told[q].message.answers}
  /\ UNCHANGED <<serverVars, main, asks, request, query, sent, told, datagram, reply, got>>
  /\ \E decoded \in {DecodeResponse(Read(datagram[q]), query[q].id)} :
       IF decoded.ok
       THEN /\ Respond(q, "NOERROR", decoded.answers)
            /\ cached' = IF HasCache /\ CanStore(decoded.answers)
                         THEN cached \cup {decoded.answers} ELSE cached
       ELSE /\ ~ DecodePanics(Read(datagram[q]), query[q].id)
            /\ Respond(q, "SERVFAIL", <<>>)
            /\ UNCHANGED cached

\* The datagram is read, and its decoder panics. Nothing recovers in the goroutine of
\* the exchange, so the process ends with it. The goroutine may come to this after
\* Resolve has given up, too: that is taken for a crash just before.
DecodingPanics(q) ==
  /\ stage[q] = "upstream" /\ told[q] # Nothing
  /\ DecodePanics(Read(datagram[q]), query[q].id)
  /\ crashed' = TRUE
  /\ UNCHANGED <<serverVars, boot, setting, zones, handler>>

\* Seeded bug: the failure is returned as an error, and handlePacket sends no reply.
UpstreamFailsBug(q) ==
  /\ stage[q] = "upstream"
  /\ Reject(q) /\ Goto(q, "done")
  /\ UNCHANGED <<run, signal, main, asks, request, query, sent, told, datagram, cached,
                 response, reply, got, said>>

\* The deadline passes or the signal cancels the context, though a datagram may
\* have come: the socket is closed with it.
UpstreamFails(q) ==
  /\ stage[q] = "upstream"
  /\ Respond(q, "SERVFAIL", <<>>)
  /\ told' = [told EXCEPT ![q] = Nothing] /\ datagram' = [datagram EXCEPT ![q] = Nothing]
  /\ UNCHANGED <<serverVars, main, asks, request, query, sent, cached, reply, got, said>>

-----------------------------------------------------------------------------
(* handlePacket: encoding the response, and the reply.                     *)

Encode(q) ==
  /\ stage[q] = "respond" /\ packet[q] = "received"
  /\ Goto(q, "done")
  /\ UNCHANGED <<run, signal, main, asks, request, query, sent, told, datagram, cached, response,
                 got, said>>
  /\ \E octets \in {EncodeResponse(response[q])} :
       IF octets # NoMessage
       THEN Answer(q) /\ reply' = [reply EXCEPT ![q] = octets]
       ELSE Reject(q) /\ UNCHANGED reply

SendReply(q) == Reply(q) /\ UNCHANGED <<run, signal, main, handler>>

HandlerStep(q) ==
  \/ Decode(q)
  \/ AnswerFromZone(q) \/ AnswerFromCache(q) \/ AskUpstream(q)
  \/ UpstreamFails(q) \/ TakeAnswer(q)
  \/ Encode(q) \/ SendReply(q)

\* A client sends its query, and reads the reply.
ClientAsks(q) ==
  /\ Arrive(q)
  /\ request' = [request EXCEPT ![q] = WriteQuery(Ids[q], asks[q], q \in WithEdns)]
  /\ UNCHANGED <<run, signal, main, asks, stage, query, sent, told, datagram, cached,
                 response, reply, got, said>>

ClientReads(q) ==
  /\ packet[q] = "replied" /\ got[q] = Nothing
  /\ got' = [got EXCEPT ![q] = ReadMessage(reply[q])]
  /\ UNCHANGED <<serverVars, main, asks, request, stage, query, sent, told, datagram, cached,
                 response, reply, said>>

Loop(l) == (LoopStep(l) \/ ReadError(l)) /\ UNCHANGED <<run, signal, main, handler>>

Boot == Configure \/ BuildApplication

Serve ==
  \/ (Run \/ Signal \/ HandleSignal) /\ UNCHANGED <<main, handler>>
  \/ \E l \in Starts : Loop(l)
  \/ \E q \in Queries :
       \/ ClientAsks(q) \/ HandlerStep(q) \/ DecodingPanics(q)
       \/ \E m \in Messages[q] : UpstreamSends(q, m)

DaemonNext ==
  Boot \/ EarlySignal \/ (Up /\ Serve) \/ \E q \in Queries : ClientReads(q)

\* The goroutines are scheduled, a call of Resolve ends by its deadline, and the
\* reads of a socket that holds a packet do not fail for ever.
DaemonFairness ==
  /\ WF_daemonVars(Up /\ Run /\ UNCHANGED <<main, handler>>)
  /\ WF_daemonVars(Up /\ HandleSignal /\ UNCHANGED <<main, handler>>)
  /\ \A l \in Starts :
       /\ WF_daemonVars(Up /\ LoopStep(l) /\ UNCHANGED <<run, signal, main, handler>>)
       /\ SF_daemonVars(Up /\ (\E q \in Queries : ReadPacket(l, q))
                           /\ UNCHANGED <<run, signal, main, handler>>)
  /\ \A q \in Queries : WF_daemonVars(Up /\ HandlerStep(q))

DaemonSpec == DaemonInit /\ [][DaemonNext]_daemonVars /\ DaemonFairness

-----------------------------------------------------------------------------
(* Properties.                                                             *)

\* Type correctness, and where handlePacket is with each query. The cache holds
\* lists with records of one key only, and none if it is disabled.
DaemonTypeOK ==
  /\ TypeOK
  /\ boot \in {"configure", "build", "run", "exited"}
  /\ crashed \in BOOLEAN
  /\ boot # "run" => started = 0 /\ signal = "none" /\ zones = Nothing /\ ~ crashed
  /\ \A q \in Queries :
       CASE stage[q] = "none" -> packet[q] \in {"unsent", "arrived", "lost", "received"}
         [] stage[q] = "done" -> packet[q] \in {"answered", "replied", "unreplied"}
         [] OTHER -> stage[q] \in {"handle", "upstream", "respond"} /\ packet[q] = "received"
  /\ \A rrs \in cached : Cardinality({KeyOf(rr) : rr \in Range(rrs)}) = 1
  /\ cached # {} => HasCache

AskedKey(q) == CacheKey(Canonical(asks[q].name), asks[q].type, asks[q].class)

\* What the zone files say to the question of q: a relative label is under the
\* root, and the value of a type with a name is a name. Their records are all of
\* class IN, and they say nothing of any other class.
ZoneAnswers(q) ==
  LET name == Canonical(asks[q].name)
      type == asks[q].type
      files == {f \in Range(setting.files) : f.supported /\ Canonical(f.root) = Apex[name]}
      entries == UNION {{e \in Range(f.entries) : e.type = type /\
                           Canonical(ExpandName(e.label, f.root)) = name} : f \in files}
      values == UNION {Range(e.values) : e \in entries}
  IN {[name |-> name, type |-> type, class |-> ClassIN, ttl |-> DefaultTtl,
       data |-> Meaning(type, v)] : v \in IF asks[q].class = ClassIN THEN values ELSE {}}

\* A client gets a reply to its own query: the ID and the question it sent, in its
\* own letter case, though the answer may have been stored for another query.
ReplyFitsQuery ==
  \A q \in Queries : got[q] # Nothing =>
    got[q].id = Ids[q] /\ got[q].question = asks[q]

\* To a question the zone files answer, in any letter case, a client gets just the
\* records of all the files, and no server outside is ever asked.
AuthoritativeAnswers ==
  \A q \in Queries : boot = "run" /\ ZoneAnswers(q) # {} =>
    /\ sent[q] = Nothing
    /\ got[q] # Nothing =>
         /\ Range(got[q].answers) = ZoneAnswers(q)
         /\ Len(got[q].answers) = Cardinality(ZoneAnswers(q))

\* Records of a message as a client reads them when nothing has changed them: the
\* names in canonical form, and the data by what it means.
AsRead(rrs) ==
  [i \in DOMAIN rrs |->
     [name |-> Canonical(rrs[i].name), type |-> rrs[i].type, class |-> rrs[i].class,
      ttl |-> rrs[i].ttl, data |-> Meaning(rrs[i].type, rrs[i].data)]]

\* No SOA record in an answer is one that its decoder may mistake.
OrdinaryAnswers ==
  \A q \in Queries : \A m \in Messages[q] : \A rr \in Range(m.message.answers) : IsOrdinary(rr)

\* Every other record a client reads is one that upstream sent, with its owner and
\* data unchanged by decoding, storing and encoding: in the answer to this query,
\* or in one whose records all have the key that was asked for. Only if the first
\* answer is not about the name asked for are owners mistaken.
AnswersAreTrue ==
  \A q \in Queries :
    got[q] # Nothing /\ got[q].answers # <<>> /\ ZoneAnswers(q) = {} =>
      IF told[q] # Nothing
      THEN Canonical(Head(told[q].message.answers).name) = Canonical(asks[q].name) =>
             got[q].answers = AsRead(told[q].message.answers)
      ELSE /\ \A rr \in Range(got[q].answers) : KeyOf(rr) = AskedKey(q)
           /\ \E rrs \in said : got[q].answers = AsRead(rrs)

\* Which messages of upstream are understood: those with the ID of the query that
\* fit the buffer and have, in any section, no data with a compressed name and no
\* record without a decoder.
Understood(q) ==
  LET m == told[q].message
      rrs == Range(m.answers \o m.authority \o m.additional)
      IsCompressed(rr) == /\ m.compress = "all names"
                          /\ rr.type \in NamedTypes \ {TypeSRV}
                          /\ \E n \in Range(rr.data.names) : Last(n) = Last(rr.name)
  IN /\ told[q].id = Ids[q]
     /\ Len(datagram[q]) <= BufferSize
     /\ \A rr \in rrs : rr.type \in Types \ NotImplemented /\ ~ IsCompressed(rr)

\* A client gets all answers of a message that is understood, and none of any
\* other: no part of one, and nothing that was sent for another query.
ReadsOrRefuses ==
  \A q \in Queries : got[q] # Nothing /\ told[q] # Nothing =>
    Len(got[q].answers) = IF Understood(q) THEN Len(told[q].message.answers) ELSE 0

\* A query of a client is never rejected; only the shutdown, which waits for no
\* handlePacket, may lose it in the socket or keep its reply from being sent.
QuietOnlyAtShutdown ==
  \A q \in Queries :
    /\ packet[q] # "rejected"
    /\ packet[q] \in {"lost", "unreplied"} => signal = "handled"

\* The process panics only on an SOA record with the root for its first name or a long
\* second one, or a CAA record with a very long tag: names that are compressed, which
\* the decoders misread, or a message that is cut off, are errors and nothing worse.
PanicNeedsOddRecord ==
  crashed => \E q \in Queries :
    /\ told[q] # Nothing
    /\ LET m == told[q].message
       IN \E rr \in Range(m.answers \o m.authority \o m.additional) : ~ IsOrdinary(rr)

\* A signal ends the process, whatever the clients, the listenLoop and upstream are
\* doing, and even if it comes before the transport is started.
SignalEndsRun == signal = "pending" ~> ~ Up

\* Until a signal, every query is replied to, though upstream may be silent, or send a
\* message that belongs to another query or cannot be read. The one exception is a
\* message at which the decoder panics: it ends the process.
EveryQueryReplied ==
  \A q \in Queries :
    packet[q] = "arrived" ~> packet[q] = "replied" \/ signal # "none" \/ crashed
=============================================================================
