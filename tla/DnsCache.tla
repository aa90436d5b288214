------------------------------ MODULE DnsCache ------------------------------
(***************************************************************************)
(* repos/dnscache/dnscache.go: the TTL-aware LRU cache of upstream answers. *)
(*                                                                         *)
(* Every query is handled on its own goroutine, so Get, Set and Delete of   *)
(* different goroutines interleave.  The LRU library locks each of its own  *)
(* operations, but Get makes several of them: lru.Get, then one IsExpired   *)
(* per record (each reads the clock), then lru.Add or lru.Remove.  Between  *)
(* any two of these steps another goroutine may run.  Set and Delete touch  *)
(* the shared state in a single library call and are single actions.        *)
(***************************************************************************)
EXTENDS Naturals, FiniteSets

CONSTANTS
  Procs,     \* goroutines that may call Get
  Keys,      \* cache keys (domain.GenerateCacheKey: name, type and class)
  Data,      \* record contents
  Expiries,  \* the values of expiresAt the records offered to Set may have
  Never,     \* expiresAt = nil: an authoritative record
  Offers,    \* the arguments Set may be called with: sets of records
  Capacity,  \* the size New was given
  MaxTime,   \* bound: the clock stops here
  NoCall,    \* a goroutine with no Get in progress
  NoReply    \* a goroutine no Get has answered since it last called

Records == [key : Keys, data : Data, exp : Expiries]

ASSUME CacheAssumption ==
  /\ IsFiniteSet(Keys)
  /\ Capacity \in Nat \ {0}
  /\ MaxTime \in Nat
  /\ Never \notin Nat
  /\ Expiries \subseteq Nat \cup {Never}
  /\ Offers \subseteq SUBSET Records
  /\ \A c \in [key : Keys, at : 0..MaxTime] : c # NoCall

VARIABLES
  now,     \* the clock, in seconds
  cached,  \* the keys in the LRU
  entry,   \* entry[k]: the records the LRU holds under k, {} if k is not in it
  since,   \* since[k]: the keys used since k was last used (the LRU order)
  call,    \* call[p]: key and time of the Get that p has in progress
  pc,      \* pc[p]: where that Get is
  todo,    \* todo[p]: records of its snapshot it has not yet looked at
  valid,   \* valid[p]: records it found unexpired
  reply,   \* reply[p]: what p's last Get returned
  \* history variables: read by the properties, never by the code's steps
  given,   \* given[k]: every record set that Set has stored under k
  latest,  \* latest[k]: the record set of the last Set of k, {} after Delete
  tainted  \* keys whose last Set or Delete came in the middle of a Get of them

lru == <<cached, entry, since>>
gets == <<call, pc, todo, valid, reply>>
history == <<given, latest, tainted>>
cacheVars == <<now, lru, gets, history>>

Hit(rs) == [found |-> TRUE, rrs |-> rs]
Miss == [found |-> FALSE, rrs |-> {}]

-----------------------------------------------------------------------------
(* The LRU library, as dnscache.go uses it.                                *)

\* The recency order after a use of k.
Used(k) == [j \in Keys |-> IF j = k THEN {} ELSE since[j] \cup {k}]

\* Seeded bug: the victim is taken from the wrong end of the recency list.
NewestBug(k) == k \in cached /\ since[k] \cap cached = {}

Oldest(k) == k \in cached /\ cached \ {k} \subseteq since[k]

\* Seeded bug: the size is compared with <= instead of <.
LruAddOneMoreBug(k, rs) ==
  /\ since' = Used(k)
  /\ Cardinality(cached) <= Capacity
  /\ cached' = cached \cup {k}
  /\ entry' = [entry EXCEPT ![k] = rs]

LruAdd(k, rs) ==
  /\ since' = Used(k)
  /\ \/ /\ k \in cached \/ Cardinality(cached) < Capacity
        /\ cached' = cached \cup {k}
        /\ entry' = [entry EXCEPT ![k] = rs]
     \/ /\ k \notin cached /\ Cardinality(cached) >= Capacity
        /\ \E v \in cached :
             /\ Oldest(v)
             /\ cached' = (cached \ {v}) \cup {k}
             /\ entry' = [entry EXCEPT ![k] = rs, ![v] = {}]

LruRemove(k) ==
  /\ cached' = cached \ {k}
  /\ entry' = [entry EXCEPT ![k] = {}]
  /\ UNCHANGED since

-----------------------------------------------------------------------------
(* Records.                                                                *)

\* IsExpired: time.Now().After(expiresAt), so a record is still alive at its expiry.
IsExpired(r) == r.exp # Never /\ now > r.exp

\* What Set accepts: a list whose records all have the key of the first.
Storable(rs) == rs # {} /\ \A r, s \in rs : r.key = s.key

KeyOf(rs) == (CHOOSE r \in rs : TRUE).key

-----------------------------------------------------------------------------
(* Actions.                                                                *)

CacheInit ==
  /\ now = 0
  /\ cached = {}
  /\ entry = [k \in Keys |-> {}]
  /\ since = [k \in Keys |-> {}]
  /\ call = [p \in Procs |-> NoCall]
  /\ pc = [p \in Procs |-> "idle"]
  /\ todo = [p \in Procs |-> {}]
  /\ valid = [p \in Procs |-> {}]
  /\ reply = [p \in Procs |-> NoReply]
  /\ given = [k \in Keys |-> {}]
  /\ latest = [k \in Keys |-> {}]
  /\ tainted = {}

Tick ==
  /\ now < MaxTime
  /\ now' = now + 1
  /\ UNCHANGED <<lru, gets, history>>

GetsOf(k) == {p \in Procs : call[p] # NoCall /\ call[p].key = k}

\* Bookkeeping: the content of k is now rs, and whether some Get of k that
\* began before may still write an older content back.
Record(k, rs) ==
  /\ latest' = [latest EXCEPT ![k] = rs]
  /\ tainted' = IF GetsOf(k) = {} THEN tainted \ {k} ELSE tainted \cup {k}

\* Seeded bug: new records are appended to the ones already there.
SetAppendBug(rs) ==
  /\ IF Storable(rs)
     THEN /\ LruAdd(KeyOf(rs), entry[KeyOf(rs)] \cup rs)
          /\ given' = [given EXCEPT ![KeyOf(rs)] = @ \cup {rs}]
          /\ Record(KeyOf(rs), rs)
     ELSE UNCHANGED <<lru, history>>
  /\ UNCHANGED <<now, gets>>

\* Seeded bug: a key that is already cached is left as it is (ContainsOrAdd).
SetIfAbsentBug(rs) ==
  /\ IF Storable(rs)
     THEN /\ IF KeyOf(rs) \in cached THEN UNCHANGED lru ELSE LruAdd(KeyOf(rs), rs)
          /\ given' = [given EXCEPT ![KeyOf(rs)] = @ \cup {rs}]
          /\ Record(KeyOf(rs), rs)
     ELSE UNCHANGED <<lru, history>>
  /\ UNCHANGED <<now, gets>>

\* Set: mixed keys are refused (ErrMultipleKeys) and an empty list is ignored,
\* both before the library is touched.
Set(rs) ==
  /\ IF Storable(rs)
     THEN /\ LruAdd(KeyOf(rs), rs)
          /\ given' = [given EXCEPT ![KeyOf(rs)] = @ \cup {rs}]
          /\ Record(KeyOf(rs), rs)
     ELSE UNCHANGED <<lru, history>>
  /\ UNCHANGED <<now, gets>>

Delete(k) ==
  /\ LruRemove(k)
  /\ Record(k, {})
  /\ UNCHANGED <<now, gets, given>>

\* A goroutine enters Get.
GetCall(p, k) ==
  /\ pc[p] = "idle"
  /\ call' = [call EXCEPT ![p] = [key |-> k, at |-> now]]
  /\ pc' = [pc EXCEPT ![p] = "lookup"]
  /\ reply' = [reply EXCEPT ![p] = NoReply]
  /\ UNCHANGED <<now, lru, todo, valid, history>>

\* p's Get returns a.
Return(p, a) ==
  /\ call' = [call EXCEPT ![p] = NoCall]
  /\ pc' = [pc EXCEPT ![p] = "idle"]
  /\ todo' = [todo EXCEPT ![p] = {}]
  /\ valid' = [valid EXCEPT ![p] = {}]
  /\ reply' = [reply EXCEPT ![p] = a]

\* lru.Get finds the key, which makes it the most recently used.
GetFound(p) ==
  /\ pc[p] = "lookup"
  /\ call[p].key \in cached
  /\ since' = Used(call[p].key)
  /\ todo' = [todo EXCEPT ![p] = entry[call[p].key]]
  /\ valid' = [valid EXCEPT ![p] = {}]
  /\ pc' = [pc EXCEPT ![p] = "filter"]
  /\ UNCHANGED <<now, cached, entry, call, reply, history>>

GetMissing(p) ==
  /\ pc[p] = "lookup"
  /\ call[p].key \notin cached
  /\ Return(p, Miss)
  /\ UNCHANGED <<now, lru, history>>

\* Seeded bug: expired records are not filtered out.
GetCheckBug(p) ==
  /\ pc[p] = "filter"
  /\ \E r \in todo[p] :
       /\ todo' = [todo EXCEPT ![p] = @ \ {r}]
       /\ valid' = [valid EXCEPT ![p] = @ \cup {r}]
  /\ UNCHANGED <<now, lru, call, pc, reply, history>>

\* One turn of the loop over the snapshot; the clock is read for each record.
GetCheck(p) ==
  /\ pc[p] = "filter"
  /\ \E r \in todo[p] :
       /\ todo' = [todo EXCEPT ![p] = @ \ {r}]
       /\ valid' = [valid EXCEPT ![p] = IF IsExpired(r) THEN @ ELSE @ \cup {r}]
  /\ UNCHANGED <<now, lru, call, pc, reply, history>>

\* Seeded bug: the entry is written back even if no record is left.
GetKeepEmptyBug(p) ==
  /\ pc[p] = "filter" /\ todo[p] = {}
  /\ LruAdd(call[p].key, valid[p])
  /\ Return(p, Hit(valid[p]))
  /\ UNCHANGED <<now, history>>

\* Some record is left: write the rest back and answer with it.
GetKeep(p) ==
  /\ pc[p] = "filter" /\ todo[p] = {} /\ valid[p] # {}
  /\ LruAdd(call[p].key, valid[p])
  /\ Return(p, Hit(valid[p]))
  /\ UNCHANGED <<now, history>>

\* No record is left: remove the key.
GetDrop(p) ==
  /\ pc[p] = "filter" /\ todo[p] = {} /\ valid[p] = {}
  /\ LruRemove(call[p].key)
  /\ Return(p, Miss)
  /\ UNCHANGED <<now, history>>

GetStep(p) ==
  GetFound(p) \/ GetMissing(p) \/ GetCheck(p) \/ GetKeep(p) \/ GetDrop(p)

CacheNext ==
  \/ Tick
  \/ \E rs \in Offers : Set(rs)
  \/ \E k \in Keys : Delete(k)
  \/ \E p \in Procs : (\E k \in Keys : GetCall(p, k)) \/ GetStep(p)

CacheSpec == CacheInit /\ [][CacheNext]_cacheVars

-----------------------------------------------------------------------------
(* Properties.                                                             *)

\* The LRU holds, under each of its keys, at least one record, and only records
\* of that key.
LruTypeOK ==
  /\ cached \subseteq Keys
  /\ entry \in [Keys -> SUBSET Records]
  /\ \A k \in Keys : k \in cached <=> entry[k] # {}
  /\ \A k \in Keys : \A r \in entry[k] : r.key = k
  /\ since \in [Keys -> SUBSET Keys]

\* Type correctness, LruTypeOK included, which is what Set's checks and Get's
\* removal of emptied entries are for.
CacheTypeOK ==
  /\ now \in 0..MaxTime
  /\ LruTypeOK
  /\ call \in [Procs -> {NoCall} \cup [key : Keys, at : 0..MaxTime]]
  /\ pc \in [Procs -> {"idle", "lookup", "filter"}]
  /\ \A p \in Procs : pc[p] = "idle" <=> call[p] = NoCall
  /\ todo \in [Procs -> SUBSET Records]
  /\ valid \in [Procs -> SUBSET Records]
  /\ reply \in [Procs -> {NoReply} \cup [found : BOOLEAN, rrs : SUBSET Records]]
  /\ given \in [Keys -> SUBSET SUBSET Records]
  /\ latest \in [Keys -> SUBSET Records]
  /\ tainted \subseteq Keys

\* The cache never holds more keys than it was sized for, however many Gets
\* write back keys that were evicted or deleted while they ran (GetKeep adds).
SizeBounded == Cardinality(cached) <= Capacity

\* rs is what is left of the stored set g once expired records are dropped.
PrunedFrom(rs, g) == rs \subseteq g /\ \A r \in g \ rs : IsExpired(r)

\* An entry is always one stored record set less some expired records: Gets
\* and Sets that race never mix two sets, never lose a record that is still
\* valid out of a set that is kept, and never move records to another key.
OneSetPerEntry ==
  \A k \in cached : \E g \in given[k] : PrunedFrom(entry[k], g)

\* The one thing concurrency can spoil, and how far: what is cached under a key
\* is what the last Set stored there (and nothing after a Delete), unless that
\* last Set or Delete happened while a Get of the same key was in progress.
StaleOnlyByOverlap ==
  \A k \in cached \ tainted : PrunedFrom(entry[k], latest[k]) /\ latest[k] # {}

Alive(k) == k \in cached /\ \E r \in entry[k] : ~ IsExpired(r)

\* An entry with an unexpired record disappears only because Delete was called,
\* or to make room in a full cache once Capacity other keys have been used since,
\* or by a Get that overlapped a Set of the key.
LiveEntryLeaves ==
  [][\A k \in Keys :
       Alive(k) /\ k \notin cached' =>
         \/ latest'[k] = {}
         \/ k \in tainted
         \/ Cardinality(cached) = Capacity /\ Cardinality(since'[k]) >= Capacity]_cacheVars

Abstract == INSTANCE LossyCache

\* Refinement: with all its races the cache is a LossyCache. In particular no
\* Get returns a record that had expired when it was called.
ImplementsLossyCache == Abstract!LossySpec

-----------------------------------------------------------------------------
(* What the comments say, and concurrency breaks.                          *)

\* dnscache.go, Set: it "replaces the existing records for the given key".
\* So nothing but (part of) the last stored set is ever cached under a key
\* that has not been deleted since.
SetReplaces ==
  \A k \in cached : latest[k] # {} => entry[k] \subseteq latest[k]
=============================================================================
