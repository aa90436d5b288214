# rr-dns in TLA+

rr-dns is a DNS server in Go: it answers from zone files it is authoritative
for, refuses blocked names, and forwards everything else to upstream servers,
caching what they answer. This directory holds TLA+ models of its core, the TLC
configurations that check them on small instances, and proofs that TLAPS checks
for instances of any size. `PROJECT.json` lists components, runs, findings,
hazards, theorems and, for each definition, the lines of source it stands for.

## The system

Paths are under `src/internal/dns/` unless they start with `cmd/`.

| Component | Source | State | Operations | Talks to |
|---|---|---|---|---|
| UDP transport | `gateways/transport` | `running`, `stopCh`, `conn`, one `listenLoop` per `Start`, one goroutine per packet | `Start`, `Stop`, `listenLoop`, `handlePacket` | codec, query resolution |
| Query resolution | `services/resolver/resolver.go` | none beyond its collaborators | `HandleQuery` | zone cache, blocklist, answer cache, upstream client |
| Alias chasing | `services/resolver/alias.go` | one `chaseState` per call | `Chase` | zone cache, upstream client |
| Answer cache | `repos/dnscache` | an LRU from cache key to record list | `Get`, `Set`, `Delete` | clock |
| Upstream client | `gateways/upstream` | per call: contexts, channels, a WaitGroup, 2 goroutines per server | `Resolve`, serial or parallel | codec, network |
| Zone cache | `repos/zonecache` | map from zone root to cache key to records, under a RWMutex | `FindRecords`, `PutZone`, `RemoveZone`, `Zones`, `Count` | filled by the zone loader at startup |
| Zone loader | `repos/zone` | none | `LoadZoneDirectory` | files, record data |
| Blocklist | `repos/blocklist` | none (`NoopBlocklist`) | `IsBlocked` | |
| Wire codec | `gateways/wire` | none | encode and decode queries and responses | |
| Records, questions | `domain` | values; a cached record has `expiresAt` | `IsExpired`, `TTLRemaining`, `CacheKey`, constructors | clock |
| Record data | `common/rrdata` | none | `Encode`, `Decode`, by type | zone loader, codec |
| Configuration | `config` | read once | `Load` | environment |
| Process | `cmd/rr-dnsd/main.go` | context, `sigChan` | `main`, `buildApplication`, `Run` | all of the above |
| Log, clock, name utilities | `common` | none that changes | | |

A packet's way: `listenLoop` reads it and starts a goroutine; that decodes the
query, calls `HandleQuery`, encodes the response and writes it to the socket.
Nothing limits or serialises these goroutines, and the only mutable state they
share is the LRU of the answer cache, the socket and the lifecycle fields of the
transport.

What is hard in it, and what makes each part correct:

* **Answer cache.** The library locks each of its operations, but `Get` makes
  several (look up, filter, then write back or remove), so another goroutine's
  `Set`, `Delete` or eviction falls in between. Correct means: one stored record
  set per entry, never mixed or lengthened; no record returned that had expired
  when it was asked for; the size bound; and a known reason for any live entry
  that disappears or is not the newest.
* **Query resolution.** Order of the four sources; the clock read before the
  servers are asked fixes an expiry that is used much later; an error of `Set` is
  swallowed. Correct means: local names never go upstream, a TTL is never
  extended, every query gets a response.
* **Upstream client.** Answers, errors, the deadline and cancellation race for
  two channels and a select, and a WaitGroup waits for goroutines that may be in
  a blocking read. Correct means: no answer lost before the deadline, the order of
  the servers kept in serial mode, no deadlock, no goroutine left behind.
* **Transport and process.** A blocking read that only closing the socket ends;
  `t.conn` read without the lock; a stop channel made once; a signal at any time.
* **Alias chasing.** Loops, depth, broken chains with part of the answer gathered.
* **Zone cache.** Zones are stored under their root but looked up under the apex
  domain of the name, so the two must agree.
* **Wire codec and record data.** Compression points at the question's name while
  the test compares with the first answer's name; pointers within record data; one
  unreadable record among many; lengths and offsets at their limits. Correct means:
  a client reads the records upstream wrote, or none.
* **Zone loader and configuration.** Names in any letter case, with or without a dot
  at the end, in several files; a start that must not go on after a failure.
* **The whole.** The pieces above meet on one query: what is stored under one
  spelling answers another, what upstream sends in one form leaves in another, and
  the process may end between any two steps.

## Modules

| Module | What it is |
|---|---|
| `LossyCache` | abstract: what callers of the answer cache may rely on |
| `DnsCache` | `repos/dnscache`, with `Get` in steps, the LRU library and the clock |
| `DnsCacheProofs` | theorems about `DnsCache` |
| `DnsService` | abstract: what a client of the server may rely on |
| `Resolver` | `HandleQuery` on many goroutines, composed with `DnsCache`, plus what `EncodeResponse` does to rcode and TTL |
| `ResolverProofs` | theorems about `Resolver`, on top of those about `DnsCache` |
| `UpstreamClient` | abstract: what one call of `Resolve` may return |
| `Upstream` | `gateways/upstream/resolver.go`, both modes, one call |
| `UpstreamProofs` | theorems about `Upstream` |
| `UdpTransport` | `gateways/transport/udp_transport.go`, its whole life |
| `UdpTransportProofs` | theorems about `UdpTransport` |
| `ZoneCache` | `repos/zonecache`, and how `repos/zone` and `main` fill it |
| `AliasChaser` | `services/resolver/alias.go` and the zone part of `HandleQuery`, on top of `ZoneCache` |
| `AliasProofs` | theorems about `ZoneCache` and `AliasChaser` |
| `Server` | `Application.Run` and the signal handling of `main`, owning a `UdpTransport` |
| `RecordData` | `common/rrdata`, with record types, classes, validation and `CanonicalDNSName` |
| `WireCodec` | `gateways/wire`: messages as octets, encoded and decoded |
| `ZoneLoader` | `repos/zone`: the files of the zone directory become records |
| `Config` | `config`: defaults, environment, validation |
| `Rfc1035` | the other ends of the wire: how name servers and clients write and read messages |
| `Daemon` | `main` from start to end, and a query's whole way in octets; composes all of these with `UdpTransport` and `ZoneCache` |
| `DaemonProofs` | theorems about `Daemon`, on top of those about `UdpTransport` and the codec |
| `CodecProofs` | theorems about `WireCodec` and `Rfc1035`: what is read in the octets that were written |
| `SequenceLemmas` | recursive functions, and the lists they compute: existence, types, induction |
| `MC...` | the instances TLC checks |

### DnsCache

`Get` is five actions: `GetCall` (entry), `GetFound` or `GetMissing`
(`lru.Get`), `GetCheck` (one turn of the loop, one reading of the clock),
`GetKeep` (`lru.Add` of the valid records) or `GetDrop` (`lru.Remove`). `Set` and
`Delete` make one library call each and are single actions. The recency list of
the library is `since`: for every key the keys used since it was, which orders
the cached keys as the list does and needs no sequence. A record list is the set
of its records: neither the cache nor the properties depend on its order.
`given`, `latest` and `tainted` are history variables that no guard reads.

* `OneSetPerEntry`: an entry is one stored set less expired records.
* `StaleOnlyByOverlap`: an entry that is not what the last `Set` stored is there
  because that `Set` (or `Delete`) overlapped a `Get` of the same key.
* `LiveEntryLeaves`: why an entry with an unexpired record may go.
* `SizeBounded`: although `Get` re-adds keys that were evicted meanwhile.
* `ImplementsLossyCache`: refinement of `LossyCache`.

### Resolver

Each goroutine is at a `stage` of `HandleQuery`; at stage "cache" it runs the
steps of `DnsCache!Get` for its question. The zone, the blocklist and whether
there is a cache are fixed when the server starts and are chosen in the initial
state (`zone`, `hasCache`) or by a constant (`Blocked`), so looking at them is
part of the step that acts on the result. The servers' answers come from
`Told(k, t)`; each record carries in `data.till` the moment until which its origin
vouches for it, which the code never looks at and `TtlNeverExtended` does.
`StoreAnswer` is the call of `Set` together with the response: nothing in between
touches shared state. The clock is finer than a second: `Second` is the number of its
ticks in one. A record expires at a tick, while `EncodeResponse` writes the whole
seconds it has left (`WireTTL`).

* `TtlNeverExtended`: now plus the TTL sent is never past `till`, whatever the time in
  the cache and the truncation to seconds do to it.
* `AskedOnlyIfNeeded`: no local or blocked name is asked upstream.
* `ImplementsDnsService`: refinement of `DnsService`.
* `EveryQueryAnswered`: liveness.

### Upstream

One call of `Resolve`; calls share nothing. `worker[i]` is
`queryServerWithContext` for server `i` (on its own goroutine in parallel mode, on
the caller's in serial mode), `io[i]` the goroutine that writes and reads,
`resultChan[i]` the channel between them. `responseChan` and `errorChan` hold the
servers whose answer or error is in them. `done` is the context of the call,
`cancelled` the child context or the deferred cancel. `DeadlinePasses` and
`CallerCancels` end the context of the call, the former noting in the history variable
`silent` which servers had been asked and had not answered. A select with several ready
cases is a nondeterministic choice.

* `ImplementsUpstreamClient`: refinement of `UpstreamClient`.
* `GivesUpClean`: "timeout" is returned only when all workers and connections are
  gone.
* `NothingLeaks`: `Resolve` returns and every goroutine ends. TLC's deadlock check
  is on; the only state where all may rest is `AllOver`.
* `EveryServerTried` (violated): a call that fails after a server was silent until the
  deadline has asked the others too. A call that its caller cancels is not meant.

### UdpTransport and Server

`Start` and `Stop` hold the write lock and block on nothing: one action each.
`listenLoop` is `LoopEnds`/`LoopGoesOn` (the select), `ReadBegins` (where `t.conn`
is read, without the lock), `ReadPacket`/`ReadFails`/`ReadError`, and
`CheckRunning` (the read lock). A packet moves through `handlePacket` in
`packet[q]`. `Server` adds `Run` and the signal goroutine; when `Run` returns, the
process is gone and nothing steps any more.

* `OneOpenSocket`, `OneReader`: however the owner starts, stops and cancels, one
  socket is open while the transport runs, and one loop reads it.
* `LoopsEnd`: after the last `Stop` no loop stays.
* `EveryPacketRead`: until the first `Stop` no packet is left unread.
* `StartedListens` (the loop is alive until the signal) is checked with `Daemon`, which
  gives `Server` its goroutines.

### ZoneCache and AliasChaser

`ZoneCache` is the map from zone root to cache key (name, type and class) to records;
each operation holds the lock throughout and is one step. A zone file is a root and records;
reading it is abstracted, putting the files of a directory together is not. The
apex of a name is a constant function, as the public suffix list is for the code.

`AliasChaser` is one query: the first lookup of `HandleQuery` (`NotFound`,
`FoundRecords`, `FoundAlias`), the guards and the append of `step` (`StepFails`,
`BadTarget`, `FollowAlias`), the three lookups of `resolveNext` (`AskZone`,
`AskAlias`, `UpstreamAnswers` or `UpstreamMisses`). `Reload` may come between any
two lookups, since each takes the lock anew: the README of `zonecache` reloads
zones at run time, and the lock is there for it. Because `FindRecords` gives only
the type asked for, the first lookup never gives an alias; the tests of the
resolver put a CNAME under the key of the type asked for, and `finder = "alias"`
stands for a zone cache that answers so.

* `FindsWhatWasPut`: a lookup gives the records last put for the apex of the name,
  from all its files, and no others.
* `AnswerIsTheChain`: undisturbed, the answer is the chain defined from the files,
  with SERVFAIL for one without end or too long.
* `ChainHoldsTogether`: disturbed by reloads or not, the answer names no alias
  twice, every alias leads to the next record, and the depth limit holds.
* `EveryChaseEnds`: liveness, also without a limit.

### RecordData, WireCodec, ZoneLoader, Config, Rfc1035

These keep no state: they are the functions of the code as operators on octets. A name is
the sequence of its labels, which is what `strings.Split` makes of it, so that a dot at
the end is an empty last label. `DecodeName` and the like are recursive functions over the
offsets of a message. `RecordData` has an encoder and a decoder for each type; of a
decoder only which data it takes (`IsReadable`) and at which it panics (`DataPanics`),
since nobody reads the text it makes. A value in a zone file is what its text says (an
address, numbers and names, segments); syntax is left to the libraries that parse it.

`Rfc1035` is not a translation: it is the independent side. Its writers make messages
with or without compression, in owners only or in record data as well, and with EDNS;
its readers follow the RFC rather than the code. What a client has in hand is always
what `Rfc1035` reads, never what the encoder was given.

A decoder panics where it slices beyond the data: that of SOA at a name that goes on to
the end of the data without its zero (`SOAPanics`), that of CAA at a tag of 254 octets or
more, whose end overflows eight bits (`CAAPanics`). `DecodePanics` says which messages
come to such a record. What `DecodeResponse` says of those has no meaning: `Daemon` does
not use it.

`MCServer` also assumes `AnswersOrdinary`, that its messages of upstream meet the
assumption of the theorem `AnswersTrue`, and `DataKept`, which TLC evaluates when it
starts: over values of each type at the edges of their fields, what `rrdata.Encode` makes
can be read by `rrdata.Decode` and means the same to `Rfc1035`, and values that do not fit
are errors.

### Daemon

`boot` is where `main` is before `Run`; `setting` holds the environment and the zone
directory it finds. A query goes through `stage`, together with `packet` of the
transport: `Decode`, then `AnswerFromZone`, `AnswerFromCache` or `AskUpstream`
(`HandleQuery`), `TakeAnswer` or `UpstreamFails`, `Encode`, `SendReply`. In place of
`TakeAnswer` may come `DecodingPanics`: the goroutine of the exchange recovers from
nothing, so the process is gone (`crashed`). The parts
with modules of their own come in as what they promise, and as what the runs and
proofs show of them: the answer cache returns a list once stored for the key, or
nothing (`LossyCache`); a call of `Resolve` answers or fails (`UpstreamClient`). There
is no clock, so a TTL does not change; `Resolver` has that side.

* `ReplyFitsQuery`: a client gets its own ID and question back, in its own letter
  case, though the answer was stored for another query.
* `AuthoritativeAnswers`: what the zone files say is said, all of it and nothing else,
  and nobody outside is asked. What they say is defined from the files as written,
  not from what was loaded.
* `AnswersAreTrue`: any other answer section that a client reads is just one that
  upstream wrote (`AsRead`): as many records in the same order, with owner, type, class,
  TTL and the meaning of the data unchanged. It excepts the case described below under
  divergences.
* `ReadsOrRefuses`: which messages of upstream are understood (`Understood`), and that
  the client gets all of one or nothing.
* `PanicNeedsOddRecord`: the process panics only if upstream has written a record that
  is not ordinary (`IsOrdinary`): an SOA with the root for its first name or a long second
  name, or a CAA with a tag of 254 octets. Names that are compressed, which the decoders
  misread, and messages that are cut off are errors and nothing worse.
* `QuietOnlyAtShutdown`: a query is dropped only after the signal.
* `SignalEndsRun`: a signal ends the process, whenever it comes.
* `EveryQueryReplied`: until the signal every query gets its reply, though upstream be
  silent, or send what belongs to another query or cannot be read. Only a message at which
  the decoder panics is excepted.

When `Run` returns, `main` does too: it waits for no packet goroutine, and the replies of
those at work are lost. `QuietOnlyAtShutdown` and `EveryQueryReplied` except just these.

## Runs

Every property of a passing run is also run against a seeded bug (the operators
named `...Bug` beside the code they spoil; nothing uses them), which must break
it.

| Run | Checks | Instance |
|---|---|---|
| `MCDnsCache` | all properties of the cache | 2 goroutines, 3 keys, room for 2, lists that expire in part, are replaced, are empty or mix keys, clock 0..1 |
| `MCResolver` | types, TTL, both refinements | 2 queries for one name, two versions of its records with TTL 0 and 1 second, clock 0..2 in half seconds |
| `MCResolverShapes` | order of sources, `DnsService`, liveness | 2 queries, 5 keys, zone empty or not, a key both blocked and in the zone, every shape of upstream answer, with and without cache, clock stopped |
| `MCUpstream` | all properties of the upstream client | 3 servers, both modes |
| `MCUdpTransport` | all properties of the transport | 2 starts, 2 packets |
| `MCServer` | all properties of the process and of a query's way | 6 pairs of environment and zone directory (good, cache off, bad port, empty server list, a broken file, a file without a root), 2 files for one zone, 2 queries (one asks any of 5 questions, among them one of class CH for a name of the zone, the other the one for an outside name in another letter case and with EDNS), 11 messages of upstream with the ID of the query, one at which the decoder panics among them, and one of another, a signal at any moment |
| `MCAliasChaser` | all properties of zones and aliases | 4 names in 2 zones and outside, every way of giving each local name an address, an alias or nothing, two files for one zone, a record in the wrong zone, queries of a class with records and one without, 2 reloads, depth limit 2 or none |
| `MCDnsCacheSetRace` | violated: `SetReplaces` | 1 `Get`, 1 key |
| `MCResolverClientSeesRcode` | violated: `ClientSeesRcode` | 1 query |
| `MCUpstreamEveryServerTried` | violated: `EveryServerTried` | 2 servers, serial |
| `MCUdpTransportStopIsGraceful` | violated: `StopIsGraceful` | 2 starts |
| `MCAliasChaserAliasesAreFollowed` | violated: `AliasesAreFollowed` | no reload, the zone cache as it is |

Why these bounds are enough. Cache: the races are between one `Get` and another
goroutine, and a second `Get` adds the write-back of one snapshot over another's;
three keys and two places are the least that has an order to evict by and an
eviction of a key in use. The clock needs one tick for a record to run out within
a `Get`; `MCResolver` has two, so that a record of one second can run out on its way as well
as in the cache. Upstream: with three servers, one answer can be taken, one be in the
channel and one find it full; serial mode has a first, a middle and a last server.
Transport: everything that a restart can go wrong with takes two starts. Aliases:
three local names make every chain of up to three hops and every loop of up to
three names, one more than the limit of two; one reload can close a loop behind a
chase, a second can open it again.

Daemon: two queries for one key are the least that a stored answer can pass between;
the names have one letter per label, since no operator looks further into a label than
its length and the case of its letters; one label of 28 digits is there for the SOA at
which the decoder panics. `BufferSize` is 144 octets in place of 512: the
longest message that should fit has 143, the one that should not 151, and no operator
but `Read` looks at it.

`MCResolver` has two ticks to the second, so that a record may have half a second left
when it is sent, and what was cut from its TTL can be told from what was not.

`MaxTime`, `MaxStarts` and `MaxReloads` are the only bounds in guards: `Tick` stops
at `MaxTime`, `Start` is refused after `MaxStarts`, `Reload` after `MaxReloads`.
`CHECK_DEADLOCK FALSE` is said of the transport, the server and the chase, which
really stop.

Fairness. Goroutines are scheduled: weak fairness of each goroutine's steps. In `Resolver`
the upstream client answers or fails, which `Upstream` shows (`NothingLeaks`) from the
passing of its deadline alone (`DeadlinePasses`, which a timer brings about): no server
need answer, and no caller need cancel. In `AliasChaser` the steps of the query are
scheduled, the one that waits for `Resolve` among them, for the same reason. In
`UdpTransport`, strong fairness of `ReadPacket` says that the reads of a socket that holds
a packet do not fail for ever. In `Daemon`: `Run`, the signal goroutine and each
`handlePacket` are scheduled, among their steps the failure of `Resolve` at its deadline.
No fairness is assumed of clients, of servers, of the owner of a transport, of signals, or
of `main` before `Run` (whose work may fail or be killed).

## Proofs

What TLC shows for a small instance these show for every value of the constants that
meets the assumptions. The inductive invariants were first checked by TLC on the
instances of the runs.

### The cache

`DnsCacheProofs`: for every set of goroutines, keys, records, offers and every
capacity, under `CacheAssumption` (finitely many keys, a positive capacity, expiries
that are times or `Never`):

* `TypeCorrect`, `SizeCorrect`, `OneSetCorrect`, `StaleOnlyByOverlapCorrect`,
  `LiveEntryLeavesCorrect` and `CacheRefinement` (`CacheSpec` implements `LossyCache`).

`SizeBounded` needs, beside the types, that the cached keys are a finite set
(`CachedFinite`): an `LruAdd` of a new key evicts one if the cache is full. The
content invariants need more than they say. A `Get` writes its snapshot back later,
so the induction carries the snapshots: `OneSetInv` and `LatestInv` state that
what a goroutine holds (`todo` and `valid`), less what has expired, is part of a
stored set, and, unless the key is tainted, of the latest one. The steps rest on
two facts about time: what has expired stays expired (`ExpiryIsFinal`), and a
pruned set pruned again is a pruned set (`PrunedTransitive`).

`LiveEntryLeaves` is about a step, so its proof looks at each action that takes a key
out: an eviction needs a full cache and as many keys used since, a `GetDrop` found
nothing valid in an entry that has changed since it was read. The refinement adds
`FreshInv`: what a `Get` has kept had not expired when it was called, and that is what
`LossyCache` lets it return.

### The server with its cache

`ResolverProofs`: for any goroutines, questions, zones, blocklist and answers of
upstream, under `CacheAssumption` and `ResolverAssumption`:

* `CacheInServer`: the invariants of the cache and its refinement of `LossyCache` hold of
  the cache in the server. It comes from the lemma `CacheIsUsedWell`: as each step of the
  server is one of the cache or leaves it alone, its run is a run of `CacheSpec`.
* `ResolverTypeCorrect`, `SourcesInOrder` (`AskedOnlyIfNeeded`), and
  `TtlNeverExtendedCorrect`.
* `ServiceRefinement`: `ResolverSpec` implements `DnsService`.

`ResolverAssumption` says that zone records do not expire (they are made without an
expiry), that what upstream vouches for lasts from the moment it says so for the TTL it
gives (which is what a TTL is), that a second is one tick or more, and that `Offers` holds
every list the server may store. `ResolverInv` has six parts, as none of the theorems is
inductive alone. Beside the cache's own invariant: where a goroutine is in `HandleQuery`
fixes what it holds (`HandlerTypeOK`); the query came before the lookup, and that before
the reading of the clock that fixes the expiry (`ClockInv`); a source is asked only if
those before it had nothing (`SourceInv`); what the lookup gives is nothing or the rest of
one set that upstream once gave for that key (`AnswerInv`, through `OneSetInv` of the
cache); and no record lives longer than its origin said (`TimelyInv`). The last is what
makes the TTL right although the clock moves between the answer, the store, the lookup and
the reply.

### The upstream client

`UpstreamProofs`: for any number of servers, both modes and any response
codes, under `UpstreamAssumption`: `TypeCorrect`, `GivesUpCleanCorrect` and
`Refinement` (`Spec => ImplementsUpstreamClient`). The invariant is `CallInv`: the
types, which bind what is in a channel to what its worker got; `WorkerInv`, that a
worker has a result just from the moment it comes to report it, so that a result
is never overwritten; and `CallerInv`, where the caller is: in serial mode every
earlier server has failed and no later one has been asked, which is what makes
"the first that answered" and "all failed" true. In parallel mode "all failed"
follows from N different servers in `errors` (`FS_Subset`), and "timeout" from
`done` at the point where the caller gives up. `StepMaps` then maps each action to
a step of `UpstreamClient` or to none.

### The transport, alone and in the process

`UdpTransportProofs`: for any packets and number of starts: `TypeCorrect`,
`OneOpenSocketCorrect` and `OneReaderCorrect`. The point is `RestartInv`: a second
`Start` needs a `Stop` before, and after it the closed `stopCh` ends every later
loop in its first select; only the first loop ever reads.

`DaemonProofs`: for any environment, zone directory, queries and messages of upstream:

* `ServerListens` (`StartedListens`): until the signal is handled the loop is alive.
* `ShutdownIsGraceful`: in the hands of `main` the transport shows neither of the
  faults that a restart has, however many starts the model would allow:
  `StopIsGraceful`, `OneOpenSocket` and `OneReader` hold.
* `NothingLostBefore`: until the signal is handled no packet is lost in the socket and
  no reply kept from being sent.
* `ResponsesHaveSources`: every response is to the question that was decoded for that
  query, and its records are all those of the zones if there are any; else one list
  stored for the key asked for, or what decoding makes of the one datagram that came
  for it, or none with SERVFAIL.
* `ZonesStayHome`: what the zones answer is never sent upstream.
* `RepliesFitQueries` (`ReplyFitsQuery`): every reply a client gets has its ID and its
  question, in its letter case.
* `QuietOnlyAtEnd` (`QuietOnlyAtShutdown`): no query is rejected, and none is
  dropped before the signal.
* `DaemonTypeCorrect` (`DaemonTypeOK`).
* `AnswersTrue` (`AnswersAreTrue`): what a client reads and the zone files do not say,
  upstream has said. It assumes `OrdinaryAnswers`: no SOA record in an answer is such as
  its decoder may mistake (see the codec below), and no CAA record has a tag at which its
  decoder panics.

`DaemonStepMaps` shows which steps of the daemon are steps of its transport. The
daemon is not a refinement of `UdpTransport!Spec`, as the signal may cancel the context
before `Start` is called; so `TransportInv` is shown again for that step
(`TransportKept`), strengthened by `OwnerInv`: where `Run` is tells how often the
transport was started and whether it is stopped, and it is stopped only after the
signal. `HandlerInv` is what the handlers add: nothing is sent before upstream is asked,
and the zones do not change after `BuildApplication`, so that what a lookup found is what
another would find. `ResponsesHaveSources` and `ZonesStayHome` look at no octet: their
proofs use nothing of what encoding and decoding do.

The next three theorems do, through `WireInv`: from the arrival of a packet on
`request` is what the client wrote, which decodes to the question it asked
(`QueryDecoded`); `sent` and the datagram that answers it are about the same question
(`QueryForwarded`); whatever `DecodeResponse` takes of the datagram can be encoded again
(`ResponseDecoded` with `CanEncode`), and so can what the cache and the zones hold;
and `reply` is an encoding of the response, in which the client reads its own question
(`ResponseRead`). None of the three is inductive alone, since a list from the answer of
one query is stored for another.

`AnswersTrue` follows the records as `WireInv` follows the questions. `TruthInv` says of
each response whether the zones gave it, or it is empty, or its answers are what decoding
made of a list that upstream wrote (`AreAnswersOf`), in the datagram for this query or in
one whose records have its key (`AnswersTraced`); of the cache, that it holds nothing but
such lists; and of `got`, that it is the reply as the client reads it. Lists come into it by
`ResponseDecoded`. `ReadAsWritten` shows that such a list leaves as it came: by
`AnswersRead` a client reads each answer's type, class, TTL and meaning, and its owner
unless the encoder has put a pointer at the question there; since that is done for the
owner of the first answer, the records are right if that is the name asked for. Decoding
puts names in canonical form and encoding may do it again, so that `CanonicalTwice` (a
canonical name stays as it is) and `CanonicalIsName` (and can be written) are needed, from
what a canonical name is (`CanonicalForm`). And the property is about what the files say,
while the daemon looks at what it has loaded: `FilesAnswer` shows that a query for which
the files have no answer finds nothing in the zones.

`DaemonAssumption` asks for what the constants stand for: IDs, types and classes are
numbers of 16 bits; a question is a name that can be written and fits the buffer (a name
of RFC 1035 has at most 255 octets, the buffer 512); a server writes lists of records of
their type; and neither a list nor a record of the zone files is too long for the 16 bits
of its length. `EncodeResponse` refuses one that is, so that with such zone files a query
would in fact be rejected.

### The codec

`CodecProofs`: for names, questions, records and messages of any length, and any buffer,
under `CodecAssumption`:

* `QueryDecoded`: what a client writes, with or without EDNS, `DecodeQuery` decodes to the
  question that was asked.
* `QueryForwarded`: in what `EncodeQuery` makes, a server reads that question.
* `ResponseDecoded`: what a server writes, in any form of compression and cut off or not,
  `DecodeResponse` refuses, or it takes all the answers: as many, in the same order, with
  their names in canonical form, their types, classes and TTLs, and their data with every
  name in full, but for the SOA records below.
* `ResponseRead`: in what `EncodeResponse` makes of any answers, a client reads the ID and
  the question of the response.
* `AnswersRead`: there it also reads every answer: its type, class and TTL, its owner
  (that of the question, where the encoder has put a pointer), and the value its data
  carry, whatever their type, if their names are written in full (`PlainOctets`).

They rest on where names are in a message, apart from who put them there. A name without
pointers is somewhere (`NameIsAt`) if its labels are, and then a zero; there both readers
find it (`PlacedNameRead`). A name with pointers is somewhere if `decodeName` finds it
there whatever follows (`FoundAt`). A text of parts is read part by part, each where the
one before it ends (`PartsPlaced`): records, numbers and character strings are found so
(`RecordRead`, `PlacedNumbers`, `StringsRead`). The model of `decodeName` has two levels,
as the code calls itself within a loop: the outer counts the pointers that may still come,
the inner goes over the labels (`Levels`), and `FoundAt` asks for no more pointers than
there are octets before the name. A message in the making is sound (`IsSound`) if each
name in its table can be found where the table has it, in any message that begins so;
`NamePut` shows that `PutName` keeps it sound, also where it puts a pointer, and
`IsAfter`, that whatever is written comes after what was there, carries this through
records and sections. `PutRecord` writes the data twice, the first time to know its size;
`PutDataLike` shows that the size does not depend on what is in the field for it. Where a
writer has put a pointer into record data, a decoder that knows none takes it for the
length of a label: at least 192, which leads out of the data (`LabelsEndForm`), so that
the record is refused (`ReadableTrue`). Only in an SOA may enough come behind the pointer,
if its second name has 170 octets or more; and `AfterName`, as the code, looks for that
name one octet too far if the first is the root. `IsOrdinary` leaves these two out, and
CAA records with a tag of 254 octets or more, at which the decoder panics. What the buffer
cuts off is the end of a message, and what can be decoded of its beginning can be decoded
of the whole, to the same (`DecodeNamePrefix`).

`DecodeName` and `NameAt` are recursive functions whose very existence has to be shown:
a function may only be unfolded once it is known that one exists that satisfies its
definition. `SequenceLemmas` shows it for those that go down (`FlattenExists`,
`RecursionExists`) and those that go to other arguments of less weight
(`FollowsExists`, with the octets that are left as the weight).

### Zones and aliases

`AliasProofs`: for any zone files, reloads, names, limit and servers, under
`ZoneAssumption` and `AliasAssumption`:

* `AliasTypeCorrect`, `FindsWhatWasPutCorrect`, `ChainHoldsTogetherCorrect` and
  `AnswerIsTheChainCorrect`.
* `ChaseIsBoundedCorrect`: a chase follows no more aliases than there are names, also
  without a limit.

`AliasAssumption` asks of a server that the first record of its answer is of the name
that was asked for: `resolveNext` does not compare them, so without it the chain may go
on at any name, as `AnswersAreTrue` of `Daemon` excepts. `AliasInv` is `ZoneInv` (the map
of the cache is what the files of each root make of it), `ChaseInv` (`IsChain`: what has
been gathered is a chain of aliases for different names, as many as `depth` counts,
ending in `target`) and `WayInv`: unless a reload or an answer from outside has
disturbed the chase, its chain is the beginning of the way (`Way`) that the files
define. That a chain names no name twice bounds it by the number of names; that a way
that comes back to a name never ends (`WayReturns`) makes SERVFAIL right.

Some of this is about recursive functions: `FlattenSeq`, and `NameAfter`, the way itself.
The induction theorems of the library cannot be used here, since they take an operator
for an argument. In their place stands the least number for which a claim fails
(`LeastNumber`, from `WFMin`), or a set of numbers closed under successors
(`SetInduction`), both in `SequenceLemmas`: `FlattenExists`, `WayExists`, `WayEnds` and
`WayReturns` show with them that it cannot be.

### Model-checked only

* All liveness (`EveryQueryAnswered`, `NothingLeaks`, `LoopsEnd`, `EveryPacketRead`,
  `SignalEndsRun`, `EveryQueryReplied`, `EveryChaseEnds`): fairness and `ENABLED` are out
  of the prover's reach.
* `AuthoritativeAnswers` is not true of all zone files: one that gives a value twice
  makes two records where the property counts one; an empty segment of a text, or an empty label
  inside a name, is left out by the encoders, so that the client reads something else
  than the file says. `ResponsesHaveSources` and `ZonesStayHome` are its parts that hold.
* `ReadsOrRefuses` is not true of all messages: `Understood` says which are in terms of
  last labels, which is what tells apart the messages of the run; and an SOA record that
  is not ordinary (see above) may by accident be read.
* `PanicNeedsOddRecord`: what it needs of the decoders (that an ordinary record, complete,
  compressed or cut off, never leads one out of its data) was not proved.
* The tables of `RecordData` (`DataKept`).

## Where code and documents differ

The violated runs show five. Others met on the way that no run is spent on:

* A name in record data that is compressed, as name servers usually do with CNAME, NS,
  SOA and MX, makes the whole answer unreadable: `parseResourceRecord` copies the data
  out of the message (`udp_codec.go:334`) and `decodeDomainName` of `rrdata` knows no
  pointers (`000common.go:32`), while `README.md:157` and `gateways/wire/README.md:17`
  speak of name compression as supported. The client gets an answer without records.
  `Understood` in `Daemon` says just when.
* The same happens for one record without a decoder (OPT, DNSSEC types) in a section
  nobody uses (`udp_codec.go:282`, `292`), and for an answer of more than 512 octets
  (`upstream/resolver.go:240`), which is cut off; TC is neither looked at nor set.
* A datagram with another ID ends the exchange with that server (`udp_codec.go:236`)
  in place of being ignored.
* `EncodeResponse` replaces an owner by a pointer to the question's name if it equals
  the owner of the first answer (`udp_codec.go:185`); the comment above says "when the
  answer name matches the original QNAME". An answer section that begins with another
  name (a chain of aliases in some other order) reaches the client under the name it
  asked for, and `AnswersAreTrue` excepts it.
* The signal cancels the calls of upstream under way, and their clients are told
  NOERROR without records (`resolver.go:85`, `udp_codec.go:144`).
* A server list such as `DNS_SERVERS=","` passes the `required` of the configuration
  (`config.go:36`), as it is not nil, and the start fails only in `NewResolver`.
* `decodeSOAData` slices at the end of each name without looking whether that is within
  the data (`006soa.go:65`, `72`), and `decodeCAAData` adds to the length of the tag in
  eight bits (`257caa.go:55`, `58`). At an SOA name that lacks its zero, or a tag of 254
  octets, they panic, in a goroutine where nothing recovers, and the process ends. The
  messages of `MCServer` include such an SOA, and `EveryQueryReplied` excepts the case.
  Any other data that cannot be read are an error that `parseResourceRecord` returns
  (`udp_codec.go:345`).
* `docs/arc42.md:908` says "Zone file parsing errors → Log error, continue with other
  files", but `LoadZoneDirectory` returns the first error (`zone.go:36-43`), so that one
  bad file fails the load, and with it the start. `BuildApplication` does what
  the code does.
* A signal before `signal.Notify` (`main.go:78`) ends the process at once, while it may
  be loading zones.
* The SOA decoder takes the name of the root for two octets (`006soa.go:62`), so an SOA
  record whose first name is the root is misread or refused.
* A `Get` that saw only expired records removes the key even if a `Set` has
  refreshed it since (`dnscache.go:67`); `LiveEntryLeaves` allows this case by name.
* An upstream NXDOMAIN or SERVFAIL is a success with an empty answer section
  (`upstream/resolver.go:249`, `resolver.go:108`), while `docs/arc42.md:903` wants
  NXDOMAIN passed on.
* An answer that mixes names or types, such as any CNAME with its address, is
  refused by `Set` as a whole and never cached, while the README of the resolver
  (line 241) says successful responses are.
* After `Stop`, a second `Start` reports success but its loop ends at once
  (`StartedListens` fails with `MaxStarts = 2`); the panic of the second `Stop` has
  the same cause.
* `Run` reports "Graceful shutdown completed" without waiting for the queries in
  flight (`cmd/rr-dnsd/main.go:252-257`).
* `main.go` passes no `AliasResolver`; with one it would not be of use, as
  `MCAliasChaserAliasesAreFollowed` shows.
* A record whose apex is not the root of its zone is never found: that of a label
  with a trailing dot outside the zone, or every one of a zone whose root lies below
  an apex (`zonecache.go:33`). `FindsWhatWasPut` says which records are found.
* `ZoneCache.Count` counts cache keys, not records as its comment says.

## Plan

The order was from the inside out: the answer cache and its abstraction; `HandleQuery`
around it; the upstream client; the transport; zones and aliases; then the codec, record
data, zone files, configuration and the process, composed in `Daemon`. The proofs followed
in the same order, those about octets last. All of it is done. Whoever goes on would begin
with what is model-checked only, and with zone files restricted to those for which
`AuthoritativeAnswers` can be true.

## Not modelled

* Logging (`common/log`): output only. The clock is the variable `now` of `Resolver` and
  `DnsCache`.
* The parsers of YAML, JSON and TOML, of numbers and of addresses, and the public suffix
  list: libraries. What they refuse is an input (`wellFormed`, `-1`, `isIP`), and the
  apex of a name a constant.
* Blanks at the ends of names, and names of record types in text.
* Messages no RFC 1035 writer makes: pointers that lead forward or to themselves, labels
  with dots in them, counts that do not fit. `DecodeName` is defined for the others.
* `NewDNSResponse` with its validation, `ZoneCache.Zones` and `Count`, `dnscache.Len` and
  `Keys`, factories: called by nothing that changes state, or only by tests.
