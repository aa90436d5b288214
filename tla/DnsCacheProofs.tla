--------------------------- MODULE DnsCacheProofs ---------------------------
(***************************************************************************)
(* Proofs about DnsCache for any goroutines, keys, records and capacity:   *)
(* type correctness, the size bound, and how far concurrent Gets can spoil *)
(* what Set has stored.                                                    *)
(***************************************************************************)
EXTENDS DnsCache, FiniteSetTheorems, TLAPS

\* The records a Get in progress still holds are of the key it looked up.
SnapshotKeyed ==
  \A p \in Procs : pc[p] = "filter" =>
    \A r \in todo[p] \cup valid[p] : r.key = call[p].key

TypeInv == CacheTypeOK /\ SnapshotKeyed

-----------------------------------------------------------------------------
(* What the helpers do.                                                    *)

\* The key of a storable list is a key, and that of each of its records.
LEMMA KeyOfStorable ==
  ASSUME NEW rs \in SUBSET Records, Storable(rs)
  PROVE  KeyOf(rs) \in Keys /\ \A r \in rs : r.key = KeyOf(rs)
<1>1. PICK x : x \in rs  BY DEF Storable
<1>2. (CHOOSE r \in rs : TRUE) \in rs  BY <1>1
<1>. QED  BY <1>2 DEF Storable, KeyOf, Records

\* Adding under k stores the list there and leaves every other key that stays
\* as it was.
LEMMA LruAddEntry ==
  ASSUME LruTypeOK, NEW k \in Keys, NEW rs \in SUBSET Records, LruAdd(k, rs)
  PROVE  /\ cached' \subseteq Keys
         /\ entry' \in [Keys -> SUBSET Records]
         /\ k \in cached' /\ entry'[k] = rs
         /\ \A j \in cached' \ {k} : j \in cached /\ entry'[j] = entry[j]
         /\ \A j \in Keys \ cached' : entry'[j] = {}
<1>1. CASE /\ cached' = cached \cup {k}
           /\ entry' = [entry EXCEPT ![k] = rs]
  BY <1>1 DEF LruTypeOK
<1>2. CASE /\ k \notin cached
           /\ \E v \in cached : /\ cached' = (cached \ {v}) \cup {k}
                                /\ entry' = [entry EXCEPT ![k] = rs, ![v] = {}]
  <2>1. PICK v \in cached : /\ cached' = (cached \ {v}) \cup {k}
                            /\ entry' = [entry EXCEPT ![k] = rs, ![v] = {}]
    BY <1>2
  <2>2. v \in Keys /\ v # k  BY <1>2 DEF LruTypeOK
  <2>. QED  BY <2>1, <2>2 DEF LruTypeOK
<1>. QED  BY <1>1, <1>2 DEF LruAdd

\* The typing of the LRU is kept by an Add of a well-formed list ...
LEMMA LruAddType ==
  ASSUME LruTypeOK, NEW k \in Keys, NEW rs \in SUBSET Records, rs # {},
         \A r \in rs : r.key = k, LruAdd(k, rs)
  PROVE  LruTypeOK'
<1>1. /\ cached' \subseteq Keys
      /\ entry' \in [Keys -> SUBSET Records]
      /\ k \in cached' /\ entry'[k] = rs
      /\ \A j \in cached' \ {k} : j \in cached /\ entry'[j] = entry[j]
      /\ \A j \in Keys \ cached' : entry'[j] = {}
  BY LruAddEntry
<1>2. \A j \in Keys : j \in cached' <=> entry'[j] # {}
  BY <1>1 DEF LruTypeOK
<1>3. \A j \in Keys : \A r \in entry'[j] : r.key = j
  BY <1>1 DEF LruTypeOK
<1>4. since' \in [Keys -> SUBSET Keys]
  BY DEF LruAdd, Used, LruTypeOK
<1>. QED  BY <1>1, <1>2, <1>3, <1>4 DEF LruTypeOK

\* ... and by a Remove.
LEMMA LruRemoveType ==
  ASSUME LruTypeOK, NEW k \in Keys, LruRemove(k)
  PROVE  LruTypeOK'
BY DEF LruRemove, LruTypeOK

-----------------------------------------------------------------------------
(* Type correctness.                                                       *)

\* The empty cache is well-typed.
LEMMA TypeInit == CacheInit => TypeInv
<1>. SUFFICES ASSUME CacheInit PROVE TypeInv  OBVIOUS
<1>1. CacheTypeOK
  BY CacheAssumption DEF CacheInit, CacheTypeOK, LruTypeOK
<1>2. SnapshotKeyed  BY DEF CacheInit, SnapshotKeyed
<1>. QED  BY <1>1, <1>2 DEF TypeInv

\* Every step keeps the types.
LEMMA TypeNext == TypeInv /\ [CacheNext]_cacheVars => TypeInv'
<1>. SUFFICES ASSUME TypeInv, [CacheNext]_cacheVars PROVE TypeInv'
  OBVIOUS
<1>. USE CacheAssumption
<1>t. CacheTypeOK /\ LruTypeOK /\ SnapshotKeyed  BY DEF TypeInv, CacheTypeOK
<1>1. CASE Tick
  BY <1>t, <1>1 DEF Tick, TypeInv, CacheTypeOK, LruTypeOK, SnapshotKeyed, lru, gets, history
<1>2. ASSUME NEW rs \in Offers, Set(rs) PROVE TypeInv'
  <2>1. CASE ~ Storable(rs)
    BY <1>t, <1>2, <2>1
    DEF Set, TypeInv, CacheTypeOK, LruTypeOK, SnapshotKeyed, lru, gets, history
  <2>2. CASE Storable(rs)
    <3>. DEFINE k == KeyOf(rs)
    <3>1. rs \in SUBSET Records /\ rs # {}  BY <2>2 DEF Storable
    <3>2. k \in Keys /\ \A r \in rs : r.key = k
      BY <2>2, <3>1, KeyOfStorable
    <3>3. /\ LruAdd(k, rs)
          /\ given' = [given EXCEPT ![k] = @ \cup {rs}]
          /\ Record(k, rs)
          /\ UNCHANGED <<now, gets>>
      BY <1>2, <2>2 DEF Set
    <3>. HIDE DEF k
    <3>4. LruTypeOK'
      BY <1>t, <3>1, <3>2, <3>3, LruAddType
    <3>5. /\ given' \in [Keys -> SUBSET SUBSET Records]
          /\ latest' \in [Keys -> SUBSET Records]
          /\ tainted' \subseteq Keys
      BY <1>t, <3>1, <3>2, <3>3 DEF Record, CacheTypeOK, LruTypeOK
    <3>. QED
      BY <1>t, <3>3, <3>4, <3>5 DEF TypeInv, CacheTypeOK, LruTypeOK, SnapshotKeyed, gets
  <2>. QED  BY <2>1, <2>2
<1>3. ASSUME NEW k \in Keys, Delete(k) PROVE TypeInv'
  <2>1. LruTypeOK'
    BY <1>t, <1>3, LruRemoveType DEF Delete
  <2>. QED
    BY <1>t, <1>3, <2>1
    DEF Delete, Record, TypeInv, CacheTypeOK, LruTypeOK, SnapshotKeyed, gets
<1>4. ASSUME NEW p \in Procs, NEW k \in Keys, GetCall(p, k) PROVE TypeInv'
  BY <1>t, <1>4
  DEF GetCall, TypeInv, CacheTypeOK, LruTypeOK, SnapshotKeyed, lru, history
<1>5. ASSUME NEW p \in Procs, GetFound(p) PROVE TypeInv'
  <2>1. call[p] \in [key : Keys, at : 0..MaxTime]
    BY <1>t, <1>5 DEF GetFound, CacheTypeOK, LruTypeOK
  <2>2. entry[call[p].key] \in SUBSET Records
    BY <1>t, <1>5, <2>1 DEF GetFound, CacheTypeOK, LruTypeOK
  <2>3. CacheTypeOK'
    BY <1>t, <1>5, <2>1, <2>2
    DEF GetFound, CacheTypeOK, LruTypeOK, Used, history
  <2>4. SnapshotKeyed'
    BY <1>t, <1>5, <2>1 DEF GetFound, SnapshotKeyed, CacheTypeOK, LruTypeOK
  <2>. QED  BY <2>3, <2>4 DEF TypeInv
<1>6. ASSUME NEW p \in Procs, GetMissing(p) PROVE TypeInv'
  BY <1>t, <1>6
  DEF GetMissing, Return, Miss, TypeInv, CacheTypeOK, LruTypeOK, SnapshotKeyed, lru, history
<1>7. ASSUME NEW p \in Procs, GetCheck(p) PROVE TypeInv'
  <2>1. PICK r \in todo[p] :
          /\ todo' = [todo EXCEPT ![p] = @ \ {r}]
          /\ valid' = [valid EXCEPT ![p] = IF IsExpired(r) THEN @ ELSE @ \cup {r}]
    BY <1>7 DEF GetCheck
  <2>2. r \in Records  BY <1>t, <2>1 DEF CacheTypeOK, LruTypeOK
  <2>3. /\ todo' \in [Procs -> SUBSET Records]
        /\ valid' \in [Procs -> SUBSET Records]
    BY <1>t, <2>1, <2>2 DEF CacheTypeOK, LruTypeOK
  <2>4. CacheTypeOK'
    BY <1>t, <1>7, <2>3 DEF GetCheck, CacheTypeOK, LruTypeOK, lru, history
  <2>5. \A q \in Procs : todo'[q] \cup valid'[q] \subseteq todo[q] \cup valid[q]
    BY <1>t, <2>1 DEF CacheTypeOK, LruTypeOK
  <2>6. SnapshotKeyed'
    BY <1>t, <1>7, <2>5 DEF GetCheck, SnapshotKeyed
  <2>. QED  BY <2>4, <2>6 DEF TypeInv
<1>8. ASSUME NEW p \in Procs, GetKeep(p) PROVE TypeInv'
  <2>. DEFINE k == call[p].key
  <2>1. k \in Keys  BY <1>t, <1>8 DEF GetKeep, CacheTypeOK, LruTypeOK
  <2>2. valid[p] \in SUBSET Records /\ valid[p] # {}
    BY <1>t, <1>8 DEF GetKeep, CacheTypeOK, LruTypeOK
  <2>3. \A r \in valid[p] : r.key = k
    BY <1>t, <1>8 DEF GetKeep, SnapshotKeyed
  <2>4. LruAdd(k, valid[p])  BY <1>8 DEF GetKeep
  <2>. HIDE DEF k
  <2>5. LruTypeOK'
    BY <1>t, <2>1, <2>2, <2>3, <2>4, LruAddType
  <2>. QED
    BY <1>t, <1>8, <2>2, <2>5
    DEF GetKeep, Return, Hit, TypeInv, CacheTypeOK, LruTypeOK, SnapshotKeyed, history
<1>9. ASSUME NEW p \in Procs, GetDrop(p) PROVE TypeInv'
  <2>1. call[p].key \in Keys  BY <1>t, <1>9 DEF GetDrop, CacheTypeOK, LruTypeOK
  <2>2. LruTypeOK'
    BY <1>t, <1>9, <2>1, LruRemoveType DEF GetDrop
  <2>. QED
    BY <1>t, <1>9, <2>2
    DEF GetDrop, Return, Miss, TypeInv, CacheTypeOK, LruTypeOK, SnapshotKeyed, history
<1>10. CASE UNCHANGED cacheVars
  BY <1>t, <1>10
  DEF cacheVars, TypeInv, CacheTypeOK, LruTypeOK, SnapshotKeyed, lru, gets, history
<1>. QED
  BY <1>1, <1>2, <1>3, <1>4, <1>5, <1>6, <1>7, <1>8, <1>9, <1>10
  DEF CacheNext, GetStep

\* Every entry always holds at least one record, and only records of its key.
THEOREM TypeCorrect == CacheSpec => []CacheTypeOK
<1>1. TypeInv => CacheTypeOK  BY DEF TypeInv
<1>. QED  BY TypeInit, TypeNext, <1>1, PTL DEF CacheSpec

-----------------------------------------------------------------------------
(* The size bound.                                                         *)

\* The cached keys are finitely many.
LEMMA CachedFinite == LruTypeOK => IsFiniteSet(cached)
BY CacheAssumption, FS_Subset DEF LruTypeOK

\* An Add into a full cache evicts one key for the one it adds.
LEMMA LruAddSize ==
  ASSUME LruTypeOK, SizeBounded, NEW k \in Keys, NEW rs, LruAdd(k, rs)
  PROVE  SizeBounded'
<1>. USE CacheAssumption
<1>0. IsFiniteSet(cached) /\ Cardinality(cached) \in Nat
  BY CachedFinite, FS_CardinalityType
<1>1. CASE k \in cached \/ Cardinality(cached) < Capacity
  <2>1. cached' = cached \cup {k}  BY <1>0, <1>1 DEF LruAdd
  <2>2. Cardinality(cached \cup {k}) =
          IF k \in cached THEN Cardinality(cached) ELSE Cardinality(cached) + 1
    BY <1>0, FS_AddElement
  <2>. QED  BY <1>0, <1>1, <2>1, <2>2 DEF SizeBounded
<1>2. CASE k \notin cached /\ Cardinality(cached) >= Capacity
  <2>0. ~ (Cardinality(cached) < Capacity)  BY <1>0, <1>2
  <2>1. PICK v \in cached : cached' = (cached \ {v}) \cup {k}
    BY <1>2, <2>0 DEF LruAdd
  <2>2. /\ IsFiniteSet(cached \ {v})
        /\ Cardinality(cached \ {v}) = Cardinality(cached) - 1
    BY <1>0, FS_RemoveElement
  <2>3. Cardinality((cached \ {v}) \cup {k}) = Cardinality(cached \ {v}) + 1
    BY <1>2, <2>2, FS_AddElement
  <2>. QED  BY <1>0, <2>1, <2>2, <2>3 DEF SizeBounded
<1>. QED  BY <1>0, <1>1, <1>2

\* What adds no key keeps the size.
LEMMA ShrinkKeepsSize ==
  ASSUME LruTypeOK, SizeBounded, cached' \subseteq cached
  PROVE  SizeBounded'
<1>1. Cardinality(cached') <= Cardinality(cached)
  BY CachedFinite, FS_Subset
<1>2. Cardinality(cached') \in Nat /\ Cardinality(cached) \in Nat
  BY CachedFinite, FS_Subset, FS_CardinalityType
<1>. QED  BY <1>1, <1>2, CacheAssumption DEF SizeBounded

\* The cache never holds more keys than its capacity, whatever Gets write back.
THEOREM SizeCorrect == CacheSpec => []SizeBounded
<1>1. CacheInit => SizeBounded
  <2>. SUFFICES ASSUME CacheInit PROVE SizeBounded  OBVIOUS
  <2>1. cached = {}  BY DEF CacheInit
  <2>. QED  BY <2>1, FS_EmptySet, CacheAssumption DEF SizeBounded
<1>2. TypeInv /\ SizeBounded /\ [CacheNext]_cacheVars => SizeBounded'
  <2>. SUFFICES ASSUME TypeInv, SizeBounded, [CacheNext]_cacheVars
                PROVE  SizeBounded'
    OBVIOUS
  <2>t. CacheTypeOK /\ LruTypeOK  BY DEF TypeInv, CacheTypeOK, LruTypeOK
  <2>1. ASSUME UNCHANGED cached PROVE SizeBounded'
    BY <2>1 DEF SizeBounded
  <2>2. ASSUME NEW k \in Keys, LruRemove(k) PROVE SizeBounded'
    <3>1. cached' \subseteq cached  BY <2>2 DEF LruRemove
    <3>. QED  BY <2>t, <3>1, ShrinkKeepsSize
  <2>3. CASE Tick  BY <2>1, <2>3 DEF Tick, lru
  <2>4. ASSUME NEW rs \in Offers, Set(rs) PROVE SizeBounded'
    <3>1. CASE Storable(rs)
      <4>1. KeyOf(rs) \in Keys /\ LruAdd(KeyOf(rs), rs)
        BY <2>4, <3>1, CacheAssumption, KeyOfStorable DEF Set
      <4>. QED  BY <2>t, <4>1, LruAddSize
    <3>2. CASE ~ Storable(rs)  BY <2>1, <2>4, <3>2 DEF Set, lru
    <3>. QED  BY <3>1, <3>2
  <2>5. ASSUME NEW k \in Keys, Delete(k) PROVE SizeBounded'
    BY <2>2, <2>5 DEF Delete
  <2>6. ASSUME NEW p \in Procs, NEW k \in Keys, GetCall(p, k) PROVE SizeBounded'
    BY <2>1, <2>6 DEF GetCall, lru
  <2>7. ASSUME NEW p \in Procs, GetFound(p) PROVE SizeBounded'
    BY <2>1, <2>7 DEF GetFound
  <2>8. ASSUME NEW p \in Procs, GetMissing(p) \/ GetCheck(p) PROVE SizeBounded'
    BY <2>1, <2>8 DEF GetMissing, GetCheck, lru
  <2>9. ASSUME NEW p \in Procs, GetKeep(p) PROVE SizeBounded'
    <3>1. call[p].key \in Keys  BY <2>t, <2>9 DEF GetKeep, CacheTypeOK, LruTypeOK
    <3>. QED  BY <2>t, <2>9, <3>1, LruAddSize DEF GetKeep
  <2>10. ASSUME NEW p \in Procs, GetDrop(p) PROVE SizeBounded'
    <3>1. call[p].key \in Keys  BY <2>t, <2>10 DEF GetDrop, CacheTypeOK, LruTypeOK
    <3>. QED  BY <2>2, <2>10, <3>1 DEF GetDrop
  <2>11. CASE UNCHANGED cacheVars  BY <2>1, <2>11 DEF cacheVars, lru
  <2>. QED
    BY <2>3, <2>4, <2>5, <2>6, <2>7, <2>8, <2>9, <2>10, <2>11
    DEF CacheNext, GetStep
<1>. QED  BY <1>1, <1>2, TypeInit, TypeNext, PTL DEF CacheSpec

-----------------------------------------------------------------------------
(* What concurrency can spoil.                                             *)

\* The record set h is in circulation under k: cached, or held by a Get of k
\* that may still write it back.
Held(k, h) ==
  \/ k \in cached /\ h = entry[k]
  \/ \E p \in Procs :
       pc[p] = "filter" /\ call[p].key = k /\ h = todo[p] \cup valid[p]

\* Everything in circulation is one stored set less some expired records ...
OneSetInv ==
  \A k \in Keys : \A h \in SUBSET Records :
    Held(k, h) => \E g \in given[k] : PrunedFrom(h, g)

\* ... and, unless a Get overlapped it, that set is the last one stored.
LatestInv ==
  \A k \in Keys \ tainted : \A h \in SUBSET Records :
    Held(k, h) => PrunedFrom(h, latest[k]) /\ latest[k] # {}

\* An expired record stays expired.
LEMMA ExpiryIsFinal ==
  ASSUME now \in Nat, now' \in Nat, now <= now', NEW r \in Records, IsExpired(r)
  PROVE  IsExpired(r)'
<1>1. r.exp \in Nat  BY CacheAssumption DEF IsExpired, Records
<1>. QED  BY <1>1 DEF IsExpired

\* Pruning a pruned set, then or later, prunes the original one.
LEMMA PrunedTransitive ==
  ASSUME now \in Nat, now' \in Nat, now <= now',
         NEW g \in SUBSET Records, NEW h0 \in SUBSET Records, NEW h,
         PrunedFrom(h0, g), h \subseteq h0, \A r \in h0 \ h : IsExpired(r)
  PROVE  PrunedFrom(h, g)'
<1>1. \A r \in g \ h : IsExpired(r)  BY DEF PrunedFrom
<1>2. \A r \in g \ h : IsExpired(r)'  BY <1>1, ExpiryIsFinal
<1>. QED  BY <1>2 DEF PrunedFrom

\* The clock never goes back.
LEMMA ClockMonotone ==
  ASSUME TypeInv, [CacheNext]_cacheVars
  PROVE  now \in Nat /\ now' \in Nat /\ now <= now'
<1>1. TypeInv'  BY TypeNext
<1>2. now \in Nat /\ now' \in Nat
  BY <1>1, CacheAssumption DEF TypeInv, CacheTypeOK, LruTypeOK
<1>3. now' = now \/ now' = now + 1
  BY DEF CacheNext, cacheVars, Tick, Set, Delete, GetStep, GetCall, GetFound,
         GetMissing, GetCheck, GetKeep, GetDrop
<1>. QED  BY <1>2, <1>3

\* No step of a Get, and no tick, puts anything in circulation under a key but
\* what was there already, less records that have expired.
LEMMA GetsOnlyPrune ==
  ASSUME TypeInv,
         \/ Tick \/ UNCHANGED cacheVars
         \/ \E p \in Procs : (\E k \in Keys : GetCall(p, k)) \/ GetStep(p),
         NEW k \in Keys, NEW h, Held(k, h)'
  PROVE  \E h0 \in SUBSET Records :
           Held(k, h0) /\ h \subseteq h0 /\ \A r \in h0 \ h : IsExpired(r)
<1>t. CacheTypeOK /\ LruTypeOK  BY DEF TypeInv, CacheTypeOK
<1>h. ASSUME NEW g, Held(k, g) PROVE g \in SUBSET Records
  BY <1>t, <1>h DEF Held, CacheTypeOK, LruTypeOK
<1>s. ASSUME Held(k, h)
      PROVE  \E h0 \in SUBSET Records :
               Held(k, h0) /\ h \subseteq h0 /\ \A r \in h0 \ h : IsExpired(r)
  BY <1>s, <1>h
<1>1. CASE Tick \/ UNCHANGED cacheVars
  BY <1>1, <1>s DEF Tick, cacheVars, lru, gets, Held
<1>2. ASSUME NEW p \in Procs, NEW j \in Keys, GetCall(p, j) PROVE Held(k, h)
  BY <1>t, <1>2 DEF GetCall, Held, lru, CacheTypeOK, LruTypeOK
<1>3. ASSUME NEW p \in Procs, GetFound(p) PROVE Held(k, h)
  <2>1. CASE k \in cached' /\ h = entry'[k]
    BY <1>3, <2>1 DEF GetFound, Held
  <2>2. ASSUME NEW q \in Procs, pc'[q] = "filter", call'[q].key = k,
               h = todo'[q] \cup valid'[q]
        PROVE  Held(k, h)
    <3>1. CASE q = p
      <4>1. k \in cached /\ h = entry[k]
        BY <1>t, <1>3, <2>2, <3>1 DEF GetFound, CacheTypeOK, LruTypeOK
      <4>. QED  BY <4>1 DEF Held
    <3>2. CASE q # p
      BY <1>t, <1>3, <2>2, <3>2 DEF GetFound, CacheTypeOK, LruTypeOK, Held
    <3>. QED  BY <3>1, <3>2
  <2>. QED  BY <2>1, <2>2 DEF Held
<1>4. ASSUME NEW p \in Procs, GetMissing(p) PROVE Held(k, h)
  BY <1>t, <1>4 DEF GetMissing, Return, Held, lru, CacheTypeOK, LruTypeOK
<1>5. ASSUME NEW p \in Procs, GetCheck(p)
      PROVE  \E h0 \in SUBSET Records :
               Held(k, h0) /\ h \subseteq h0 /\ \A r \in h0 \ h : IsExpired(r)
  <2>1. CASE k \in cached' /\ h = entry'[k]
    BY <1>s, <1>5, <2>1 DEF GetCheck, lru, Held
  <2>2. ASSUME NEW q \in Procs, pc'[q] = "filter", call'[q].key = k,
               h = todo'[q] \cup valid'[q]
        PROVE  \E h0 \in SUBSET Records :
                 Held(k, h0) /\ h \subseteq h0 /\ \A r \in h0 \ h : IsExpired(r)
    <3>. DEFINE h0 == todo[q] \cup valid[q]
    <3>1. Held(k, h0) /\ h0 \in SUBSET Records
      BY <1>t, <1>5, <2>2 DEF GetCheck, Held, CacheTypeOK, LruTypeOK
    <3>2. PICK r \in todo[p] :
            /\ todo' = [todo EXCEPT ![p] = @ \ {r}]
            /\ valid' = [valid EXCEPT ![p] = IF IsExpired(r) THEN @ ELSE @ \cup {r}]
      BY <1>5 DEF GetCheck
    <3>3. h \subseteq h0 /\ \A s \in h0 \ h : IsExpired(s)
      <4>1. CASE q = p
        <5>1. todo'[q] = todo[q] \ {r}
          BY <1>t, <3>2, <4>1 DEF CacheTypeOK, LruTypeOK
        <5>2. valid'[q] = IF IsExpired(r) THEN valid[q] ELSE valid[q] \cup {r}
          BY <1>t, <3>2, <4>1 DEF CacheTypeOK, LruTypeOK
        <5>. QED  BY <2>2, <3>2, <4>1, <5>1, <5>2
      <4>2. CASE q # p
        BY <1>t, <2>2, <3>2, <4>2 DEF CacheTypeOK, LruTypeOK
      <4>. QED  BY <4>1, <4>2
    <3>. QED  BY <3>1, <3>3
  <2>. QED  BY <1>5, <2>1, <2>2 DEF Held
<1>6. ASSUME NEW p \in Procs, GetKeep(p) PROVE Held(k, h)
  <2>1. call[p].key \in Keys  BY <1>t, <1>6 DEF GetKeep, CacheTypeOK, LruTypeOK
  <2>2. /\ entry'[call[p].key] = valid[p]
        /\ \A j \in cached' \ {call[p].key} : j \in cached /\ entry'[j] = entry[j]
    BY <1>t, <1>6, <2>1, LruAddEntry DEF GetKeep, CacheTypeOK, LruTypeOK
  <2>4. CASE k \in cached' /\ h = entry'[k]
    <3>1. CASE k = call[p].key
      <4>1. h = todo[p] \cup valid[p]  BY <1>6, <2>2, <2>4, <3>1 DEF GetKeep
      <4>. QED  BY <1>6, <3>1, <4>1 DEF GetKeep, Held
    <3>2. CASE k # call[p].key
      BY <2>2, <2>4, <3>2 DEF Held
    <3>. QED  BY <3>1, <3>2
  <2>5. CASE \E q \in Procs : pc'[q] = "filter" /\ call'[q].key = k
                               /\ h = todo'[q] \cup valid'[q]
    BY <1>t, <1>6, <2>5 DEF GetKeep, Return, Held, CacheTypeOK, LruTypeOK
  <2>. QED  BY <2>4, <2>5 DEF Held
<1>7. ASSUME NEW p \in Procs, GetDrop(p) PROVE Held(k, h)
  <2>1. call[p].key \in Keys  BY <1>t, <1>7 DEF GetDrop, CacheTypeOK, LruTypeOK
  <2>2. /\ cached' = cached \ {call[p].key}
        /\ entry' = [entry EXCEPT ![call[p].key] = {}]
    BY <1>7 DEF GetDrop, LruRemove
  <2>3. CASE k \in cached' /\ h = entry'[k]
    BY <1>t, <2>1, <2>2, <2>3 DEF Held, CacheTypeOK, LruTypeOK
  <2>4. CASE \E q \in Procs : pc'[q] = "filter" /\ call'[q].key = k
                               /\ h = todo'[q] \cup valid'[q]
    BY <1>t, <1>7, <2>4 DEF GetDrop, Return, Held, CacheTypeOK, LruTypeOK
  <2>. QED  BY <2>3, <2>4 DEF Held
<1>. QED  BY <1>s, <1>1, <1>2, <1>3, <1>4, <1>5, <1>6, <1>7 DEF GetStep

\* A Set puts its list in circulation under its key, and nothing else; a
\* refused Set and a Delete put nothing.
LEMMA SetsOnlyAdd ==
  ASSUME TypeInv, NEW rs \in Offers, Set(rs), Storable(rs),
         NEW k \in Keys, NEW h, Held(k, h)'
  PROVE  \/ k = KeyOf(rs) /\ h = rs
         \/ Held(k, h) /\ (k = KeyOf(rs) => GetsOf(k) # {})
<1>t. CacheTypeOK /\ LruTypeOK  BY DEF TypeInv, CacheTypeOK
<1>1. KeyOf(rs) \in Keys /\ rs \in SUBSET Records
  BY CacheAssumption, KeyOfStorable
<1>2. /\ entry'[KeyOf(rs)] = rs
      /\ \A j \in cached' \ {KeyOf(rs)} : j \in cached /\ entry'[j] = entry[j]
  BY <1>t, <1>1, LruAddEntry DEF Set, CacheTypeOK, LruTypeOK
<1>3. CASE k \in cached' /\ h = entry'[k]
  <2>1. CASE k = KeyOf(rs)  BY <1>2, <1>3, <2>1
  <2>2. CASE k # KeyOf(rs)  BY <1>2, <1>3, <2>2 DEF Held
  <2>. QED  BY <2>1, <2>2
<1>4. ASSUME NEW p \in Procs, pc'[p] = "filter", call'[p].key = k,
             h = todo'[p] \cup valid'[p]
      PROVE  Held(k, h) /\ GetsOf(k) # {}
  <2>1. UNCHANGED gets  BY DEF Set
  <2>2. Held(k, h)  BY <1>4, <2>1 DEF gets, Held
  <2>3. p \in GetsOf(k)
    BY <1>t, <1>4, <2>1 DEF gets, GetsOf, CacheTypeOK, LruTypeOK
  <2>. QED  BY <2>2, <2>3
<1>. QED  BY <1>3, <1>4 DEF Held

\* Delete only takes away.
LEMMA DeleteAddsNothing ==
  ASSUME TypeInv, NEW d \in Keys, Delete(d), NEW k \in Keys, NEW h, Held(k, h)'
  PROVE  Held(k, h) /\ (k = d => GetsOf(k) # {})
<1>t. CacheTypeOK /\ LruTypeOK  BY DEF TypeInv, CacheTypeOK
<1>1. cached' = cached \ {d} /\ entry' = [entry EXCEPT ![d] = {}]
  BY DEF Delete, LruRemove
<1>2. CASE k \in cached' /\ h = entry'[k]
  BY <1>t, <1>1, <1>2 DEF Held, CacheTypeOK, LruTypeOK
<1>3. ASSUME NEW p \in Procs, pc'[p] = "filter", call'[p].key = k,
             h = todo'[p] \cup valid'[p]
      PROVE  Held(k, h) /\ GetsOf(k) # {}
  <2>1. UNCHANGED gets  BY DEF Delete
  <2>2. Held(k, h)  BY <1>3, <2>1 DEF gets, Held
  <2>3. p \in GetsOf(k)
    BY <1>t, <1>3, <2>1 DEF gets, GetsOf, CacheTypeOK, LruTypeOK
  <2>. QED  BY <2>2, <2>3
<1>. QED  BY <1>2, <1>3 DEF Held

\* The inductive invariant behind both content properties.
ContentInv == TypeInv /\ OneSetInv /\ LatestInv

\* The empty cache has no content to be wrong.
LEMMA ContentInit == CacheInit => ContentInv
<1>. SUFFICES ASSUME CacheInit PROVE ContentInv  OBVIOUS
<1>1. \A k \in Keys : \A h \in SUBSET Records : ~ Held(k, h)  BY DEF CacheInit, Held
<1>. QED  BY <1>1, TypeInit DEF ContentInv, OneSetInv, LatestInv

\* A step that leaves the history alone and only prunes keeps the invariant.
LEMMA PruningKeepsContent ==
  ASSUME ContentInv, [CacheNext]_cacheVars, UNCHANGED history,
         \A k \in Keys, h \in SUBSET Records : Held(k, h)' =>
           \E h0 \in SUBSET Records :
             Held(k, h0) /\ h \subseteq h0 /\ \A r \in h0 \ h : IsExpired(r)
  PROVE  OneSetInv' /\ LatestInv'
<1>n. now \in Nat /\ now' \in Nat /\ now <= now'
  BY ClockMonotone DEF ContentInv
<1>t. CacheTypeOK /\ LruTypeOK  BY DEF ContentInv, TypeInv, CacheTypeOK
<1>1. ASSUME NEW k \in Keys, NEW h \in SUBSET Records, Held(k, h)'
      PROVE  \E g \in given'[k] : PrunedFrom(h, g)'
  <2>1. PICK h0 \in SUBSET Records :
          Held(k, h0) /\ h \subseteq h0 /\ \A r \in h0 \ h : IsExpired(r)
    BY <1>1
  <2>2. PICK g \in given[k] : PrunedFrom(h0, g)
    BY <2>1 DEF ContentInv, OneSetInv
  <2>3. g \in SUBSET Records  BY <1>t, <2>2 DEF CacheTypeOK, LruTypeOK
  <2>4. PrunedFrom(h, g)'
    BY <1>n, <2>1, <2>2, <2>3, PrunedTransitive
  <2>. QED  BY <2>2, <2>4 DEF history
<1>2. ASSUME NEW k \in Keys \ tainted', NEW h \in SUBSET Records, Held(k, h)'
      PROVE  (PrunedFrom(h, latest[k]) /\ latest[k] # {})'
  <2>1. PICK h0 \in SUBSET Records :
          Held(k, h0) /\ h \subseteq h0 /\ \A r \in h0 \ h : IsExpired(r)
    BY <1>2
  <2>2. PrunedFrom(h0, latest[k]) /\ latest[k] # {}
    BY <1>2, <2>1 DEF ContentInv, LatestInv, history
  <2>3. PICK g \in SUBSET Records : g = latest[k] /\ g = latest'[k]
    BY <1>t DEF CacheTypeOK, LruTypeOK, history
  <2>4. PrunedFrom(h0, g)  BY <2>2, <2>3
  <2>5. PrunedFrom(h, g)'
    BY <1>n, <2>1, <2>4, PrunedTransitive
  <2>6. PrunedFrom(h, latest[k])'  BY <2>3, <2>5 DEF PrunedFrom
  <2>. QED  BY <2>2, <2>6 DEF history
<1>. QED  BY <1>1, <1>2 DEF OneSetInv, LatestInv

\* A Set or Delete of key c leaves the clock and every other key as they were,
\* marks c unless no Get of it is in progress, and makes new its latest set.
LEMMA RecordFrame ==
  ASSUME CacheTypeOK, NEW c \in Keys, NEW new, Record(c, new), NEW k \in Keys
  PROVE  /\ k = c => latest'[k] = new
         /\ k # c => latest'[k] = latest[k] /\ (k \in tainted' <=> k \in tainted)
         /\ k = c /\ k \notin tainted' => GetsOf(k) = {}
BY DEF Record, CacheTypeOK, LruTypeOK

\* Every step keeps what is known of the content.
LEMMA ContentNext == ContentInv /\ [CacheNext]_cacheVars => ContentInv'
<1>. SUFFICES ASSUME ContentInv, [CacheNext]_cacheVars PROVE ContentInv'
  OBVIOUS
<1>i. TypeInv /\ OneSetInv /\ LatestInv /\ CacheTypeOK
  BY DEF ContentInv, TypeInv
<1>t. TypeInv'  BY <1>i, TypeNext
<1>1. CASE \/ Tick \/ UNCHANGED cacheVars
           \/ \E p \in Procs : (\E k \in Keys : GetCall(p, k)) \/ GetStep(p)
  <2>1. UNCHANGED history
    BY <1>1 DEF Tick, cacheVars, GetCall, GetStep, GetFound, GetMissing,
                GetCheck, GetKeep, GetDrop
  <2>2. OneSetInv' /\ LatestInv'
    BY <1>i, <1>1, <2>1, GetsOnlyPrune, PruningKeepsContent
  <2>. QED  BY <1>t, <2>2 DEF ContentInv
<1>2. ASSUME NEW rs \in Offers, Set(rs), ~ Storable(rs) PROVE ContentInv'
  <2>1. UNCHANGED cacheVars  BY <1>2 DEF Set, cacheVars
  <2>. QED  BY <1>1, <2>1
<1>3. ASSUME NEW rs \in Offers, Set(rs), Storable(rs) PROVE ContentInv'
  <2>0. rs \in SUBSET Records /\ rs # {}
    BY <1>3, CacheAssumption DEF Storable
  <2>. DEFINE c == KeyOf(rs)
  <2>1. c \in Keys  BY <1>3, <2>0, KeyOfStorable
  <2>2. /\ now' = now
        /\ given' = [given EXCEPT ![c] = @ \cup {rs}]
        /\ Record(c, rs)
    BY <1>3 DEF Set
  <2>3. ASSUME NEW k \in Keys, NEW h \in SUBSET Records, Held(k, h)'
        PROVE  (k = c /\ h = rs) \/ (Held(k, h) /\ (k = c => GetsOf(k) # {}))
    BY <1>i, <1>3, <2>3, SetsOnlyAdd
  <2>. HIDE DEF c
  <2>4. \A k \in Keys : given[k] \subseteq given'[k]
    BY <1>i, <2>1, <2>2 DEF CacheTypeOK, LruTypeOK
  <2>5. rs \in given'[c]
    BY <1>i, <2>1, <2>2 DEF CacheTypeOK, LruTypeOK
  <2>6. ASSUME NEW h, NEW g, PrunedFrom(h, g) PROVE PrunedFrom(h, g)'
    BY <2>2, <2>6 DEF PrunedFrom, IsExpired
  <2>7. PrunedFrom(rs, rs)'  BY DEF PrunedFrom
  <2>8. OneSetInv'
    <3>. SUFFICES ASSUME NEW k \in Keys, NEW h \in SUBSET Records, Held(k, h)'
                  PROVE  \E g \in given'[k] : PrunedFrom(h, g)'
      BY DEF OneSetInv
    <3>1. CASE k = c /\ h = rs  BY <2>5, <2>7, <3>1
    <3>2. CASE Held(k, h)
      <4>1. PICK g \in given[k] : PrunedFrom(h, g)
        BY <1>i, <3>2 DEF OneSetInv
      <4>. QED  BY <2>4, <2>6, <4>1
    <3>. QED  BY <2>3, <3>1, <3>2
  <2>9. LatestInv'
    <3>. SUFFICES ASSUME NEW k \in Keys, k \notin tainted',
                         NEW h \in SUBSET Records, Held(k, h)'
                  PROVE  PrunedFrom(h, latest[k])' /\ latest'[k] # {}
      BY DEF LatestInv
    <3>1. CASE k = c
      <4>1. GetsOf(k) = {} /\ latest'[k] = rs
        BY <1>i, <2>1, <2>2, <3>1, RecordFrame
      <4>2. h = rs  BY <2>3, <3>1, <4>1
      <4>. QED  BY <2>0, <2>7, <4>1, <4>2
    <3>2. CASE k # c
      <4>1. latest'[k] = latest[k] /\ k \notin tainted
        BY <1>i, <2>1, <2>2, <3>2, RecordFrame
      <4>2. Held(k, h)  BY <2>3, <3>2
      <4>3. PrunedFrom(h, latest[k]) /\ latest[k] # {}
        BY <1>i, <4>1, <4>2 DEF LatestInv
      <4>. QED  BY <2>2, <4>1, <4>3 DEF PrunedFrom, IsExpired
    <3>. QED  BY <3>1, <3>2
  <2>. QED  BY <1>t, <2>8, <2>9 DEF ContentInv
<1>4. ASSUME NEW c \in Keys, Delete(c) PROVE ContentInv'
  <2>1. now' = now /\ given' = given /\ Record(c, {})
    BY <1>4 DEF Delete
  <2>2. ASSUME NEW k \in Keys, NEW h \in SUBSET Records, Held(k, h)'
        PROVE  Held(k, h) /\ (k = c => GetsOf(k) # {})
    BY <1>i, <1>4, <2>2, DeleteAddsNothing
  <2>3. OneSetInv'
    BY <1>i, <2>1, <2>2 DEF OneSetInv, PrunedFrom, IsExpired
  <2>4. LatestInv'
    <3>. SUFFICES ASSUME NEW k \in Keys, k \notin tainted',
                         NEW h \in SUBSET Records, Held(k, h)'
                  PROVE  PrunedFrom(h, latest[k])' /\ latest'[k] # {}
      BY DEF LatestInv
    <3>1. k # c  BY <1>i, <2>1, <2>2, RecordFrame
    <3>2. latest'[k] = latest[k] /\ k \notin tainted
      BY <1>i, <2>1, <3>1, RecordFrame
    <3>3. PrunedFrom(h, latest[k]) /\ latest[k] # {}
      BY <1>i, <2>2, <3>2 DEF LatestInv
    <3>. QED  BY <2>1, <3>2, <3>3 DEF PrunedFrom, IsExpired
  <2>. QED  BY <1>t, <2>3, <2>4 DEF ContentInv
<1>. QED  BY <1>1, <1>2, <1>3, <1>4 DEF CacheNext

\* What is cached is in circulation.
LEMMA CachedIsHeld ==
  ASSUME CacheTypeOK, NEW k \in cached
  PROVE  k \in Keys /\ entry[k] \in SUBSET Records /\ Held(k, entry[k])
BY DEF CacheTypeOK, LruTypeOK, Held

\* Get and Set never mix two stored sets and never drop an unexpired record
\* from an entry they keep.
THEOREM OneSetCorrect == CacheSpec => []OneSetPerEntry
<1>1. ContentInv => OneSetPerEntry
  BY CachedIsHeld DEF ContentInv, TypeInv, OneSetInv, OneSetPerEntry
<1>. QED  BY <1>1, ContentInit, ContentNext, PTL DEF CacheSpec

\* A key no Get overlapped at its last Set or Delete holds exactly what that
\* Set stored, less expired records, and nothing if it was a Delete.
THEOREM StaleOnlyByOverlapCorrect == CacheSpec => []StaleOnlyByOverlap
<1>1. ContentInv => StaleOnlyByOverlap
  <2>. SUFFICES ASSUME ContentInv, NEW k \in cached \ tainted
                PROVE  PrunedFrom(entry[k], latest[k]) /\ latest[k] # {}
    BY DEF StaleOnlyByOverlap
  <2>1. k \in Keys /\ entry[k] \in SUBSET Records /\ Held(k, entry[k])
    BY CachedIsHeld DEF ContentInv, TypeInv
  <2>. QED  BY <2>1 DEF ContentInv, LatestInv
<1>. QED  BY <1>1, ContentInit, ContentNext, PTL DEF CacheSpec

-----------------------------------------------------------------------------
(* Why a live entry leaves.                                                *)

\* Evicting k takes a full cache, all of whose other keys were used since k was.
LEMMA EvictionIsLru ==
  ASSUME LruTypeOK, SizeBounded, NEW a \in Keys, NEW rs, LruAdd(a, rs),
         NEW k \in cached, k \notin cached'
  PROVE  Cardinality(cached) = Capacity /\ Cardinality(since'[k]) >= Capacity
<1>. USE CacheAssumption
<1>0. IsFiniteSet(cached) /\ Cardinality(cached) \in Nat
  BY CachedFinite, FS_CardinalityType
<1>1. /\ a \notin cached /\ Cardinality(cached) >= Capacity
      /\ \E v \in cached : Oldest(v) /\ cached' = (cached \ {v}) \cup {a}
  BY DEF LruAdd
<1>2. Oldest(k) /\ k # a /\ k \in Keys  BY <1>1 DEF LruTypeOK
<1>3. Cardinality(cached) = Capacity  BY <1>0, <1>1 DEF SizeBounded
<1>4. since'[k] = since[k] \cup {a} /\ since'[k] \subseteq Keys
  BY <1>2 DEF LruAdd, Used, LruTypeOK
<1>5. (cached \ {k}) \cup {a} \subseteq since'[k]
  BY <1>2, <1>4 DEF Oldest
<1>6. Cardinality((cached \ {k}) \cup {a}) = Capacity
  <2>1. IsFiniteSet(cached \ {k}) /\ Cardinality(cached \ {k}) = Capacity - 1
    BY <1>0, <1>3, FS_RemoveElement
  <2>2. a \notin cached \ {k}  BY <1>1
  <2>3. Cardinality((cached \ {k}) \cup {a}) = (Capacity - 1) + 1
    BY <2>1, <2>2, FS_AddElement
  <2>. QED  BY <2>3
<1>7. IsFiniteSet(since'[k])  BY <1>4, FS_Subset
<1>8. Capacity <= Cardinality(since'[k])  BY <1>5, <1>6, <1>7, FS_Subset
<1>9. Cardinality(since'[k]) \in Nat  BY <1>7, FS_CardinalityType
<1>. QED  BY <1>3, <1>8, <1>9

\* A Get that drops a key with a live record overlapped a Set of that key: its
\* snapshot was a part of the last stored set only if all of that has expired.
LEMMA LiveDropIsTainted ==
  ASSUME ContentInv, NEW p \in Procs, GetDrop(p), Alive(call[p].key)
  PROVE  call[p].key \in tainted
<1>. DEFINE k == call[p].key
<1>t. CacheTypeOK /\ LruTypeOK  BY DEF ContentInv, TypeInv, CacheTypeOK
<1>1. k \in Keys  BY <1>t DEF GetDrop, CacheTypeOK, LruTypeOK
<1>2. Held(k, {})  BY DEF GetDrop, Held
<1>3. Held(k, entry[k]) /\ entry[k] \in SUBSET Records
  BY <1>t, <1>1 DEF Alive, Held, LruTypeOK
<1>. SUFFICES ASSUME k \notin tainted PROVE FALSE  OBVIOUS
<1>4. PrunedFrom({}, latest[k]) /\ PrunedFrom(entry[k], latest[k])
  BY <1>1, <1>2, <1>3 DEF ContentInv, LatestInv
<1>. QED  BY <1>4 DEF PrunedFrom, Alive

\* A step after which a live entry is gone is one of those that may take it.
LEMMA LeavingStep ==
  ASSUME ContentInv, SizeBounded, CacheNext,
         NEW k \in Keys, Alive(k), k \notin cached'
  PROVE  \/ latest'[k] = {}
         \/ k \in tainted
         \/ Cardinality(cached) = Capacity /\ Cardinality(since'[k]) >= Capacity
<1>t. CacheTypeOK /\ LruTypeOK /\ k \in cached
  BY DEF ContentInv, TypeInv, CacheTypeOK, Alive
<1>1. ASSUME UNCHANGED cached PROVE FALSE  BY <1>t, <1>1
<1>2. CASE \/ Tick
           \/ \E p \in Procs : \/ \E j \in Keys : GetCall(p, j)
                               \/ GetFound(p) \/ GetMissing(p) \/ GetCheck(p)
  BY <1>1, <1>2 DEF Tick, GetCall, GetFound, GetMissing, GetCheck, lru
<1>3. ASSUME NEW rs \in Offers, Set(rs)
      PROVE  Cardinality(cached) = Capacity /\ Cardinality(since'[k]) >= Capacity
  <2>1. Storable(rs) /\ LruAdd(KeyOf(rs), rs)  BY <1>1, <1>3 DEF Set, lru
  <2>2. KeyOf(rs) \in Keys  BY <1>3, <2>1, CacheAssumption, KeyOfStorable
  <2>. QED  BY <1>t, <2>1, <2>2, EvictionIsLru
<1>4. ASSUME NEW d \in Keys, Delete(d) PROVE latest'[k] = {}
  <2>1. d = k  BY <1>t, <1>4 DEF Delete, LruRemove
  <2>. QED  BY <1>t, <1>4, <2>1 DEF Delete, Record, CacheTypeOK
<1>5. ASSUME NEW p \in Procs, GetKeep(p)
      PROVE  Cardinality(cached) = Capacity /\ Cardinality(since'[k]) >= Capacity
  <2>1. call[p].key \in Keys /\ LruAdd(call[p].key, valid[p])
    BY <1>t, <1>5 DEF GetKeep, CacheTypeOK
  <2>. QED  BY <1>t, <2>1, EvictionIsLru
<1>6. ASSUME NEW p \in Procs, GetDrop(p) PROVE k \in tainted
  <2>1. k = call[p].key  BY <1>t, <1>6 DEF GetDrop, LruRemove
  <2>. QED  BY <1>6, <2>1, LiveDropIsTainted
<1>. QED  BY <1>2, <1>3, <1>4, <1>5, <1>6 DEF CacheNext, GetStep

\* A live entry leaves only for a Delete, for want of room, or by a race that is
\* known of: no expired neighbour and no other key's Get takes it away.
THEOREM LiveEntryLeavesCorrect == CacheSpec => LiveEntryLeaves
<1>1. ContentInv /\ SizeBounded /\ [CacheNext]_cacheVars =>
        [\A k \in Keys :
           Alive(k) /\ k \notin cached' =>
             \/ latest'[k] = {}
             \/ k \in tainted
             \/ Cardinality(cached) = Capacity /\ Cardinality(since'[k]) >= Capacity]_cacheVars
  BY LeavingStep
<1>. QED
  BY <1>1, ContentInit, ContentNext, SizeCorrect, PTL DEF CacheSpec, LiveEntryLeaves

-----------------------------------------------------------------------------
(* The refinement of LossyCache.                                           *)

\* A lookup keeps only records that had not expired when it was called.
FreshInv ==
  \A p \in Procs :
    IF call[p] = NoCall THEN valid[p] = {}
    ELSE /\ call[p].at <= now
         /\ \A r \in valid[p] : ~ Abstract!ExpiredAt(r, call[p].at)

CacheInv == ContentInv /\ FreshInv

\* The empty cache is all that it should be ...
LEMMA CacheInvInit == CacheInit => CacheInv
<1>. SUFFICES ASSUME CacheInit PROVE CacheInv  OBVIOUS
<1>. QED  BY ContentInit DEF CacheInv, CacheInit, FreshInv

\* ... and every step keeps it so.
LEMMA CacheInvNext == CacheInv /\ [CacheNext]_cacheVars => CacheInv'
<1>. SUFFICES ASSUME CacheInv, [CacheNext]_cacheVars PROVE FreshInv'
  BY ContentNext DEF CacheInv
<1>t. CacheTypeOK /\ CacheTypeOK'
  BY ContentNext DEF CacheInv, ContentInv, TypeInv
<1>n. now \in Nat /\ now' \in Nat /\ now <= now'
  BY ClockMonotone DEF CacheInv, ContentInv
<1>c. ASSUME NEW p \in Procs, call[p] # NoCall
      PROVE  call[p] \in [key : Keys, at : 0..MaxTime]
  BY <1>t, <1>c DEF CacheTypeOK
<1>f. ASSUME NEW p \in Procs, call'[p] = call[p], valid'[p] = valid[p]
      PROVE  IF call'[p] = NoCall THEN valid'[p] = {}
             ELSE /\ call'[p].at <= now'
                  /\ \A r \in valid'[p] : ~ Abstract!ExpiredAt(r, call'[p].at)
  <2>1. CASE call[p] = NoCall  BY <1>f, <2>1 DEF CacheInv, FreshInv
  <2>2. CASE call[p] # NoCall
    <3>1. call[p].at \in Nat  BY <1>c, <2>2
    <3>. QED  BY <1>f, <1>n, <2>2, <3>1 DEF CacheInv, FreshInv
  <2>. QED  BY <2>1, <2>2
<1>1. CASE Tick \/ UNCHANGED cacheVars
  BY <1>f, <1>1 DEF Tick, cacheVars, gets, FreshInv
<1>2. CASE (\E rs \in Offers : Set(rs)) \/ \E k \in Keys : Delete(k)
  BY <1>f, <1>2 DEF Set, Delete, gets, FreshInv
<1>3. ASSUME NEW p \in Procs, NEW k \in Keys, GetCall(p, k) PROVE FreshInv'
  <2>1. call'[p] = [key |-> k, at |-> now] /\ now' = now
    BY <1>t, <1>3 DEF GetCall, CacheTypeOK
  <2>2. \A q \in Procs \ {p} : call'[q] = call[q] /\ valid'[q] = valid[q]
    BY <1>t, <1>3 DEF GetCall, CacheTypeOK
  <2>3. call[p] = NoCall  BY <1>t, <1>3 DEF GetCall, CacheTypeOK
  <2>4. valid'[p] = {}  BY <1>3, <2>3 DEF GetCall, CacheInv, FreshInv
  <2>. QED  BY <1>f, <1>n, <2>1, <2>2, <2>3, <2>4 DEF FreshInv
<1>4. ASSUME NEW p \in Procs, GetFound(p) PROVE FreshInv'
  <2>1. UNCHANGED <<now, call>> /\ valid' = [valid EXCEPT ![p] = {}]
    BY <1>4 DEF GetFound
  <2>. QED  BY <1>t, <2>1 DEF CacheInv, FreshInv, CacheTypeOK
<1>5. ASSUME NEW p \in Procs, GetMissing(p) \/ GetKeep(p) \/ GetDrop(p)
      PROVE  FreshInv'
  <2>1. /\ call' = [call EXCEPT ![p] = NoCall] /\ valid' = [valid EXCEPT ![p] = {}]
        /\ now' = now
    BY <1>5 DEF GetMissing, GetKeep, GetDrop, Return
  <2>. QED  BY <1>t, <2>1 DEF CacheInv, FreshInv, CacheTypeOK
<1>6. ASSUME NEW p \in Procs, GetCheck(p) PROVE FreshInv'
  <2>1. PICK r \in todo[p] :
          valid' = [valid EXCEPT ![p] = IF IsExpired(r) THEN @ ELSE @ \cup {r}]
    BY <1>6 DEF GetCheck
  <2>2. UNCHANGED <<now, call>> /\ call[p] # NoCall
    BY <1>t, <1>6 DEF GetCheck, CacheTypeOK
  <2>3. call[p].at \in Nat /\ call[p].at <= now
    BY <1>c, <2>2 DEF CacheInv, FreshInv
  <2>4. r.exp = Never \/ r.exp \in Nat
    <3>1. r \in Records  BY <1>t, <2>1 DEF CacheTypeOK
    <3>. QED  BY <3>1, CacheAssumption DEF Records
  <2>5. ~ IsExpired(r) => ~ Abstract!ExpiredAt(r, call[p].at)
    BY <1>n, <2>3, <2>4 DEF IsExpired, Abstract!ExpiredAt
  <2>. QED  BY <1>t, <2>1, <2>2, <2>5 DEF CacheInv, FreshInv, CacheTypeOK
<1>. QED  BY <1>1, <1>2, <1>3, <1>4, <1>5, <1>6 DEF CacheNext, GetStep

\* What a Get that finds records answers with may be served: the rest of one set
\* stored under the key.
LEMMA KeepServes ==
  ASSUME CacheInv, NEW p \in Procs, GetKeep(p)
  PROVE  /\ call[p] \in [key : Keys, at : 0..MaxTime]
         /\ valid[p] \in SUBSET Records /\ \A r \in valid[p] : r.key = call[p].key
         /\ \E g \in given[call[p].key] : Abstract!Servable(valid[p], g, call[p].at)
<1>t. CacheTypeOK /\ SnapshotKeyed /\ OneSetInv /\ FreshInv
  BY DEF CacheInv, ContentInv, TypeInv
<1>1. call[p] \in [key : Keys, at : 0..MaxTime] /\ call[p] # NoCall
      /\ valid[p] \in SUBSET Records
  BY <1>t DEF GetKeep, CacheTypeOK
<1>2. \A r \in valid[p] : r.key = call[p].key
  BY <1>t DEF GetKeep, SnapshotKeyed
<1>3. Held(call[p].key, valid[p])  BY DEF GetKeep, Held
<1>4. PICK g \in given[call[p].key] : PrunedFrom(valid[p], g)
  BY <1>t, <1>1, <1>3 DEF OneSetInv
<1>5. g \in SUBSET Records  BY <1>t, <1>1, <1>4 DEF CacheTypeOK
<1>6. \A r \in g \ valid[p] : Abstract!ExpiredAt(r, now)
  <2>. SUFFICES ASSUME NEW r \in g \ valid[p] PROVE Abstract!ExpiredAt(r, now)
    OBVIOUS
  <2>1. IsExpired(r)  BY <1>4 DEF PrunedFrom
  <2>. QED  BY <1>t, <2>1, <1>5, CacheAssumption
            DEF IsExpired, Abstract!ExpiredAt, Records, CacheTypeOK
<1>7. Abstract!Servable(valid[p], g, call[p].at)
  BY <1>t, <1>1, <1>4, <1>6 DEF Abstract!Servable, FreshInv, PrunedFrom, GetKeep
<1>. QED  BY <1>1, <1>2, <1>4, <1>7

\* Every step looks to the callers like one of LossyCache, or like nothing.
LEMMA CacheStepMaps ==
  ASSUME CacheInv, [CacheNext]_cacheVars
  PROVE  [Abstract!LossyNext]_(Abstract!lossyVars)
<1>t. CacheTypeOK /\ LruTypeOK
  BY DEF CacheInv, ContentInv, TypeInv, CacheTypeOK
<1>0. ASSUME UNCHANGED <<now, given, call, reply>>
      PROVE  UNCHANGED Abstract!lossyVars
  BY <1>0 DEF Abstract!lossyVars
<1>1. CASE Tick
  BY <1>1
  DEF Tick, gets, history, Abstract!LossyNext, Abstract!TimePasses
<1>2. ASSUME NEW rs \in Offers, Set(rs)
      PROVE  Abstract!LossyNext \/ UNCHANGED Abstract!lossyVars
  <2>1. CASE ~ Storable(rs)
    BY <1>0, <1>2, <2>1 DEF Set, gets, history
  <2>2. CASE Storable(rs)
    <3>. DEFINE k == KeyOf(rs)
    <3>1. rs \in SUBSET Records /\ rs # {}  BY <2>2, CacheAssumption DEF Storable
    <3>2. k \in Keys /\ \A r \in rs : r.key = k  BY <2>2, <3>1, KeyOfStorable
    <3>3. /\ given' = [given EXCEPT ![k] = @ \cup {rs}]
          /\ UNCHANGED <<now, call, reply>>
      BY <1>2, <2>2 DEF Set, gets
    <3>. HIDE DEF k
    <3>4. rs \in Abstract!RRsetsOf(k)
      BY <3>1, <3>2 DEF Records, Abstract!RRsetsOf, Abstract!RecordsOf
    <3>. QED  BY <3>2, <3>3, <3>4 DEF Abstract!LossyNext, Abstract!Publish
  <2>. QED  BY <2>1, <2>2
<1>3. ASSUME NEW k \in Keys, Delete(k) PROVE UNCHANGED Abstract!lossyVars
  BY <1>0, <1>3 DEF Delete, gets
<1>4. ASSUME NEW p \in Procs, NEW k \in Keys, GetCall(p, k)
      PROVE  Abstract!LossyNext
  <2>1. Abstract!Ask(p, k)
    BY <1>t, <1>4 DEF GetCall, history, CacheTypeOK, Abstract!Ask
  <2>. QED  BY <2>1 DEF Abstract!LossyNext
<1>5. ASSUME NEW p \in Procs, GetFound(p) \/ GetCheck(p)
      PROVE  UNCHANGED Abstract!lossyVars
  BY <1>0, <1>5 DEF GetFound, GetCheck, history
<1>6. ASSUME NEW p \in Procs, GetMissing(p) \/ GetDrop(p) PROVE Abstract!LossyNext
  <2>1. Abstract!Forgotten(p)
    BY <1>t, <1>6
    DEF GetMissing, GetDrop, Return, history, Miss, CacheTypeOK, Abstract!Forgotten,
        Abstract!Miss
  <2>. QED  BY <2>1 DEF Abstract!LossyNext
<1>7. ASSUME NEW p \in Procs, GetKeep(p) PROVE Abstract!LossyNext
  <2>1. PICK g \in given[call[p].key] : Abstract!Servable(valid[p], g, call[p].at)
    BY <1>7, KeepServes
  <2>2. call[p].key \in Keys /\ call[p] # NoCall
    BY <1>t, <1>7 DEF GetKeep, CacheTypeOK
  <2>3. Abstract!Answered(p, valid[p])
    BY <1>7, <2>1, <2>2 DEF GetKeep, Return, history, Hit, Abstract!Answered, Abstract!Hit
  <2>4. g \in UNION {given[k] : k \in Keys} /\ valid[p] \in SUBSET g
    BY <2>1, <2>2 DEF Abstract!Servable
  <2>. QED  BY <2>3, <2>4 DEF Abstract!LossyNext
<1>8. CASE UNCHANGED cacheVars
  BY <1>0, <1>8 DEF cacheVars, gets, history
<1>. QED  BY <1>1, <1>2, <1>3, <1>4, <1>5, <1>6, <1>7, <1>8 DEF CacheNext, GetStep

\* However its Gets, Sets and Deletes interleave, the cache only forgets: a Get
\* returns the rest of one stored set, and nothing that had expired at its call.
THEOREM CacheRefinement == CacheSpec => ImplementsLossyCache
<1>1. CacheInit => Abstract!LossyInit
  BY DEF CacheInit, Abstract!LossyInit
<1>2. CacheInv /\ [CacheNext]_cacheVars => [Abstract!LossyNext]_(Abstract!lossyVars)
  BY CacheStepMaps
<1>. QED
  BY <1>1, <1>2, CacheInvInit, CacheInvNext, PTL
  DEF CacheSpec, ImplementsLossyCache, Abstract!LossySpec
=============================================================================
