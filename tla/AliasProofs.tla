----------------------------- MODULE AliasProofs -----------------------------
(***************************************************************************)
(* Proofs about ZoneCache and AliasChaser for any zone files, reloads,     *)
(* names, limit on the depth and honest servers outside.                   *)
(*                                                                         *)
(* AliasInv carries three things along a chase: the zone cache is what the *)
(* files put there (ZoneInv), what has been gathered is a chain (ChaseInv, *)
(* IsChain), and undisturbed it is as far as it goes the way that the      *)
(* files define (WayInv).                                                  *)
(***************************************************************************)
EXTENDS AliasChaser, SequenceLemmas, FiniteSetTheorems

-----------------------------------------------------------------------------
(* The zones.                                                              *)

\* The records a lookup for key k may give.
WithKey(k) == {r \in Records : KeyOf(r) = k}

\* The records of key k among some: all have the key, and if none has there are none.
LEMMA OfKeyType ==
  ASSUME NEW rs \in Seq(Records), NEW k
  PROVE  /\ OfKey(rs, k) \in Seq(WithKey(k))
         /\ (\A i \in DOMAIN rs : KeyOf(rs[i]) # k) => OfKey(rs, k) = <<>>
<1>. DEFINE lists == [i \in DOMAIN rs |-> IF KeyOf(rs[i]) = k THEN <<rs[i]>> ELSE <<>>]
<1>1. lists \in Seq(Seq(WithKey(k)))
  <2>1. ASSUME NEW i \in DOMAIN rs PROVE lists[i] \in Seq(WithKey(k))
    <3>1. CASE KeyOf(rs[i]) = k
      <4>1. rs[i] \in WithKey(k)  BY <3>1 DEF WithKey
      <4>2. lists[i] = <<rs[i]>>  BY <3>1
      <4>. QED  BY <4>1, <4>2
    <3>2. CASE KeyOf(rs[i]) # k
      <4>1. lists[i] = <<>>  BY <3>2
      <4>. QED  BY <4>1
    <3>. QED  BY <3>1, <3>2
  <2>2. DOMAIN rs = 1..Len(rs) /\ Len(rs) \in Nat  OBVIOUS
  <2>3. lists \in [1..Len(rs) -> Seq(WithKey(k))]
    <3>. HIDE DEF KeyOf, WithKey
    <3>. QED  BY <2>1, <2>2
  <2>. HIDE DEF lists
  <2>. QED  BY <2>2, <2>3
<1>2. OfKey(rs, k) \in Seq(WithKey(k))  BY <1>1, FlattenType DEF OfKey
<1>3. ASSUME \A i \in DOMAIN rs : KeyOf(rs[i]) # k PROVE OfKey(rs, k) = <<>>
  <2>1. lists \in Seq(Seq({}))
    <3>1. \A i \in DOMAIN rs : lists[i] = <<>>  BY <1>3
    <3>2. <<>> \in Seq({})  OBVIOUS
    <3>3. DOMAIN rs = 1..Len(rs) /\ Len(rs) \in Nat  OBVIOUS
    <3>4. lists \in [1..Len(rs) -> Seq({})]  BY <3>1, <3>2, <3>3
    <3>. HIDE DEF lists
    <3>. QED  BY <3>3, <3>4
  <2>2. FlattenSeq(lists) \in Seq({})  BY <2>1, FlattenType
  <2>3. \A s \in Seq({}) : s = <<>>  OBVIOUS
  <2>. QED  BY <2>2, <2>3 DEF OfKey
<1>. QED  BY <1>2, <1>3

-----------------------------------------------------------------------------
(* The inductive invariant.                                                *)

\* The cache holds what was loaded.
ZoneInv ==
  /\ DOMAIN loaded \subseteq Names
  /\ \A z \in DOMAIN loaded : loaded[z] \in Seq(Records)
  /\ zones = CacheOf(loaded)

\* c is a chain of aliases of the names v, at most m unless m is 0: each leads to the
\* next and the last to x.
IsChain(c, v, m, x) ==
  /\ c \in Seq(Records)
  /\ v = {c[i].name : i \in 1..Len(c)} /\ Cardinality(v) = Len(c)
  /\ \A i \in 1..Len(c) :
       /\ c[i].type = CNAME
       /\ i < Len(c) => c[i + 1].name = c[i].text
       /\ i = Len(c) => c[i].text = x
  /\ \A i, j \in 1..Len(c) : c[i].name = c[j].name => i = j
  /\ m > 0 => Len(c) <= m

\* While Chase is under way it has such a chain, and records that continue it.
ChaseInv ==
  at # "done" =>
    /\ outcome = NoOutcome
    /\ IsChain(chain, visited, maxDepth, target) /\ Len(chain) = depth
    /\ IF at = "called" THEN depth = 0 ELSE query.type # CNAME
    /\ at = "step" => IsHeadCNAME(current) /\ (depth > 0 => Head(current).name = target)
    /\ at \in {"ask zone", "ask alias", "ask upstream"} => depth > 0 /\ target \in Names

\* The names on the way from that in the query.
Way == NameAfter(query.name, query.type)

\* Undisturbed, Chase is on the way that the zone files define.
WayInv ==
  quiet /\ finder = "alias" /\ query.type # CNAME /\ at \notin {"called", "done"} =>
    /\ \A i \in 1..depth : HasAlias(Way[i - 1], query.type) /\ chain[i] = Alias(Way[i - 1])
    /\ at = "step" =>
         HasAlias(Way[depth], query.type) /\ current = ZoneRecords(Way[depth], CNAME)
    /\ at # "step" => target = Way[depth]
    /\ at \in {"ask alias", "ask upstream"} => ZoneRecords(target, query.type) = <<>>
    /\ at = "ask upstream" => ZoneRecords(target, CNAME) = <<>>

-----------------------------------------------------------------------------
(* The zone cache.                                                         *)

\* What start-up loads is of the types the cache expects.
LEMMA LoadedType ==
  ASSUME NEW files \in Seq(ZoneFiles)
  PROVE  LET l == LoadZoneDirectory(files)
         IN DOMAIN l \subseteq Names /\ \A z \in DOMAIN l : l[z] \in Seq(Records)
<1>. DEFINE l == LoadZoneDirectory(files)
<1>1. \A i \in DOMAIN files : files[i].root \in Names /\ files[i].records \in Seq(Records)
  <2>1. \A i \in DOMAIN files : files[i] \in ZoneFiles  OBVIOUS
  <2>. QED  BY <2>1 DEF ZoneFiles
<1>2. ASSUME NEW z \in DOMAIN l PROVE z \in Names
  <2>1. PICK f \in Range(files) : f.root = z  BY <1>2 DEF LoadZoneDirectory
  <2>. QED  BY <1>1, <2>1 DEF Range
<1>3. ASSUME NEW z \in DOMAIN l PROVE l[z] \in Seq(Records)
  <2>. DEFINE lists == [i \in DOMAIN files |->
                          IF files[i].root = z THEN files[i].records ELSE <<>>]
  <2>1. DOMAIN files = 1..Len(files) /\ Len(files) \in Nat  OBVIOUS
  <2>2. lists \in [1..Len(files) -> Seq(Records)]  BY <1>1, <2>1
  <2>3. lists \in Seq(Seq(Records))
    <3>. HIDE DEF lists
    <3>. QED  BY <2>1, <2>2
  <2>4. l[z] = FlattenSeq(lists)  BY <1>3 DEF LoadZoneDirectory
  <2>. QED  BY <2>3, <2>4, FlattenType
<1>. QED  BY <1>2, <1>3

\* Start-up puts into the cache what it loads.
LEMMA ZoneInit == AliasInit => ZoneInv
<1>. SUFFICES ASSUME AliasInit PROVE ZoneInv  OBVIOUS
<1>1. PICK files \in Directories : loaded = LoadZoneDirectory(files)  BY DEF AliasInit
<1>2. files \in Seq(ZoneFiles)  BY AliasAssumption
<1>. QED  BY <1>1, <1>2, LoadedType DEF AliasInit, ZoneInv

\* A reload replaces what is cached of one root, as it does what was loaded for it.
LEMMA ZoneNext == ZoneInv /\ [AliasNext]_aliasVars => ZoneInv'
<1>. SUFFICES ASSUME ZoneInv, [AliasNext]_aliasVars PROVE ZoneInv'  OBVIOUS
<1>1. ASSUME NEW f \in Reloads, Reload(f) PROVE ZoneInv'
  <2>1. f.root \in Names /\ f.records \in Seq(Records)
    BY AliasAssumption DEF ZoneFiles
  <2>2. CASE f.records = <<>>
    BY <1>1, <2>2 DEF Reload, RemoveZone, ZoneInv, CacheOf
  <2>3. CASE f.records # <<>>
    <3>1. loaded' = [z \in DOMAIN loaded \cup {f.root} |->
                       IF z = f.root THEN f.records ELSE loaded[z]]
      BY <1>1, <2>3 DEF Reload
    <3>2. zones' = [z \in DOMAIN zones \cup {f.root} |->
                      IF z = f.root THEN ByKey(f.records) ELSE zones[z]]
      BY <1>1, <2>3 DEF Reload, PutZone
    <3>3. zones' = CacheOf(loaded')
      BY <3>1, <3>2 DEF ZoneInv, CacheOf
    <3>. QED  BY <2>1, <3>1, <3>3 DEF ZoneInv
  <2>. QED  BY <2>2, <2>3
<1>2. CASE Call \/ UNCHANGED aliasVars
  <2>1. UNCHANGED <<zones, loaded>>
    BY <1>2
    DEF Call, Chase, NotFound, FoundRecords, FoundAlias, StepFails, BadTarget, FollowAlias,
        AskZone, AskAlias, UpstreamAnswers, UpstreamMisses, Take, GoTo, Return, history,
        aliasVars
  <2>. QED  BY <2>1 DEF ZoneInv, CacheOf
<1>. QED  BY <1>1, <1>2 DEF AliasNext

\* A lookup finds what the zone files say, and only records with its key.
LEMMA Lookup ==
  ASSUME ZoneInv, NEW n \in Names, NEW t, NEW c
  PROVE  /\ FindRecords(n, t, c) = LastPut(n, t, c)
         /\ LastPut(n, t, c) \in Seq(WithKey(CacheKey(n, t, c)))
<1>. DEFINE z == Apex[n]
            k == CacheKey(n, t, c)
<1>1. CASE z \in DOMAIN loaded
  <2>1. loaded[z] \in Seq(Records)  BY <1>1 DEF ZoneInv
  <2>2. z \in DOMAIN zones /\ zones[z] = ByKey(loaded[z])  BY <1>1 DEF ZoneInv, CacheOf
  <2>3. CASE k \in DOMAIN zones[z]
    <3>1. zones[z][k] = OfKey(loaded[z], k)  BY <2>2, <2>3 DEF ByKey
    <3>. QED  BY <1>1, <2>1, <2>2, <2>3, <3>1, OfKeyType DEF FindRecords, LastPut
  <2>4. CASE k \notin DOMAIN zones[z]
    <3>1. \A i \in DOMAIN loaded[z] : KeyOf(loaded[z][i]) # k
      BY <2>2, <2>4 DEF ByKey
    <3>. QED  BY <1>1, <2>1, <2>4, <3>1, OfKeyType DEF FindRecords, LastPut
  <2>. QED  BY <2>3, <2>4
<1>2. CASE z \notin DOMAIN loaded
  <2>1. z \notin DOMAIN zones  BY <1>2 DEF ZoneInv, CacheOf
  <2>. QED  BY <1>2, <2>1 DEF FindRecords, LastPut
<1>. QED  BY <1>1, <1>2

\* So a lookup for the query gives records of the name and type looked for.
LEMMA LookupType ==
  ASSUME ZoneInv, NEW n \in Names, NEW t
  PROVE  LET rs == Find(n, t)
         IN rs \in Seq(Records) /\ \A i \in DOMAIN rs : rs[i].name = n /\ rs[i].type = t
<1>. DEFINE rs == Find(n, t)
            key == CacheKey(n, t, query.class)
<1>1. rs \in Seq(WithKey(key))  BY Lookup DEF Find
<1>2. \A r \in WithKey(key) : r \in Records /\ r.name = n /\ r.type = t
  BY DEF WithKey, KeyOf, CacheKey
<1>3. ASSUME NEW S, S \subseteq Records, NEW s \in Seq(S)
      PROVE  s \in Seq(Records) /\ \A i \in DOMAIN s : s[i] \in S
  <2>1. DOMAIN s = 1..Len(s) /\ Len(s) \in Nat /\ \A i \in DOMAIN s : s[i] \in S  OBVIOUS
  <2>2. s \in [1..Len(s) -> Records]  BY <1>3, <2>1
  <2>. QED  BY <2>1, <2>2
<1>4. rs \in Seq(Records) /\ \A i \in DOMAIN rs : rs[i] \in WithKey(key)
  <2>. HIDE DEF rs, key
  <2>1. WithKey(key) \subseteq Records  BY DEF WithKey
  <2>. QED  BY <1>1, <1>3, <2>1
<1>. QED  BY <1>2, <1>4

-----------------------------------------------------------------------------
(* Chains.                                                                 *)

\* A chain has no name twice, so it is no longer than there are names.
LEMMA ChainIsFinite ==
  ASSUME NEW c, NEW v, NEW m, NEW x, IsChain(c, v, m, x)
  PROVE  v \subseteq Names /\ IsFiniteSet(v) /\ Len(c) <= Cardinality(Names)
<1>1. v = {c[i].name : i \in 1..Len(c)} /\ Cardinality(v) = Len(c) /\ c \in Seq(Records)
  BY DEF IsChain
<1>2. \A i \in 1..Len(c) : c[i] \in Records
  <2>1. c \in Seq(Records)  BY <1>1
  <2>. QED  BY <2>1
<1>3. v \subseteq Names  BY <1>1, <1>2, ZoneAssumption
<1>4. IsFiniteSet(v) /\ Cardinality(v) <= Cardinality(Names)
  BY <1>3, ZoneAssumption, FS_Subset
<1>. QED  BY <1>1, <1>3, <1>4

\* One more alias, of a name that is not yet in the chain.
LEMMA ChainGrows ==
  ASSUME NEW c, NEW v, NEW m \in Nat, NEW x, IsChain(c, v, m, x),
         NEW r \in Records, r.type = CNAME, r.name \notin v,
         c # <<>> => r.name = x,
         m > 0 => Len(c) + 1 <= m
  PROVE  IsChain(Append(c, r), v \cup {r.name}, m, r.text)
<1>. DEFINE d == Append(c, r)
            n == Len(c)
<1>c. /\ c \in Seq(Records) /\ n \in Nat
      /\ v = {c[i].name : i \in 1..n} /\ Cardinality(v) = n
      /\ \A i \in 1..n : c[i].type = CNAME /\ (i < n => c[i + 1].name = c[i].text)
                         /\ (i = n => c[i].text = x)
      /\ \A i, j \in 1..n : c[i].name = c[j].name => i = j
      /\ n > 0 => c # <<>>
  <2>1. c \in Seq(Records)  BY DEF IsChain
  <2>2. Len(c) \in Nat /\ (Len(c) > 0 => c # <<>>)  BY <2>1
  <2>. QED  BY <2>1, <2>2 DEF IsChain
<1>1. /\ d \in Seq(Records) /\ Len(d) = n + 1
      /\ d[n + 1] = r /\ \A i \in 1..n : d[i] = c[i]
  <2>1. c \in Seq(Records)  BY <1>c
  <2>. QED  BY <2>1
<1>. HIDE DEF d, n
<1>2. Cardinality(v \cup {r.name}) = Len(d)
  <2>1. IsFiniteSet(v)  BY ChainIsFinite
  <2>2. Cardinality(v \cup {r.name}) = Cardinality(v) + 1  BY <2>1, FS_AddElement
  <2>. QED  BY <1>c, <1>1, <2>2
<1>3. 1..Len(d) = (1..n) \cup {n + 1}  BY <1>c, <1>1
<1>4. v \cup {r.name} = {d[i].name : i \in 1..Len(d)}
  <2>1. {d[i].name : i \in 1..Len(d)} = {d[i].name : i \in 1..n} \cup {d[n + 1].name}
    BY <1>3
  <2>2. {d[i].name : i \in 1..n} = v  BY <1>c, <1>1
  <2>. QED  BY <1>1, <2>1, <2>2
<1>5. ASSUME NEW i \in 1..n
      PROVE  d[i].type = CNAME /\ d[i + 1].name = d[i].text
  <2>1. CASE i = n  BY <1>c, <1>1, <2>1
  <2>2. CASE i # n
    <3>1. i < n /\ i + 1 \in 1..n  BY <1>c, <2>2
    <3>. QED  BY <1>c, <1>1, <3>1
  <2>. QED  BY <2>1, <2>2
<1>6. ASSUME NEW i \in 1..n PROVE d[i].name # r.name
  BY <1>c, <1>1
<1>7. ASSUME NEW i \in 1..Len(d)
      PROVE  /\ d[i].type = CNAME
             /\ i < Len(d) => d[i + 1].name = d[i].text
             /\ i = Len(d) => d[i].text = r.text
  <2>1. CASE i = n + 1  BY <1>c, <1>1, <2>1
  <2>2. CASE i \in 1..n  BY <1>c, <1>1, <1>5, <2>2
  <2>. QED  BY <1>3, <2>1, <2>2
<1>8. ASSUME NEW i \in 1..Len(d), NEW j \in 1..Len(d), d[i].name = d[j].name PROVE i = j
  <2>1. CASE i \in 1..n /\ j \in 1..n  BY <1>c, <1>1, <1>8, <2>1
  <2>2. CASE i = n + 1 \/ j = n + 1  BY <1>1, <1>3, <1>6, <1>8, <2>2
  <2>. QED  BY <1>3, <2>1, <2>2
<1>9. m > 0 => Len(d) <= m  BY <1>1 DEF n
<1>. QED  BY <1>1, <1>2, <1>4, <1>7, <1>8, <1>9 DEF IsChain, d

\* What ChainHoldsTogether says of an answer.
HoldsTogether(answers, hops, m) ==
  /\ hops <= Len(answers)
  /\ \A i \in DOMAIN answers :
       /\ i <= hops => answers[i].type = CNAME
       /\ i = hops + 1 => answers[i].type # CNAME
  /\ m > 0 => hops <= m
  /\ \A i \in 1..hops : i < Len(answers) => answers[i + 1].name = answers[i].text
  /\ \A i, j \in 1..hops : answers[i].name = answers[j].name => i = j

\* A chain and the records at its end.
LEMMA ChainEnds ==
  ASSUME NEW c, NEW v, NEW m \in Nat, NEW x, IsChain(c, v, m, x),
         NEW rs \in Seq(Records),
         rs # <<>> => Head(rs).type # CNAME /\ (c # <<>> => Head(rs).name = x)
  PROVE  c \o rs \in Seq(Records) /\ HoldsTogether(c \o rs, Cardinality(v), m)
<1>. DEFINE all == c \o rs
            n == Len(c)
<1>c. /\ c \in Seq(Records) /\ n \in Nat /\ Cardinality(v) = n
      /\ \A i \in 1..n : c[i].type = CNAME /\ (i < n => c[i + 1].name = c[i].text)
                         /\ (i = n => c[i].text = x)
      /\ \A i, j \in 1..n : c[i].name = c[j].name => i = j
      /\ n > 0 => c # <<>>
      /\ m > 0 => n <= m
  <2>1. c \in Seq(Records)  BY DEF IsChain
  <2>2. Len(c) \in Nat /\ (Len(c) > 0 => c # <<>>)  BY <2>1
  <2>. QED  BY <2>1, <2>2 DEF IsChain
<1>1. /\ all \in Seq(Records) /\ Len(all) \in Nat /\ Len(all) = n + Len(rs)
      /\ Len(rs) \in Nat /\ DOMAIN all = 1..Len(all)
      /\ \A i \in 1..n : all[i] = c[i]
      /\ rs # <<>> => all[n + 1] = Head(rs)
      /\ Len(rs) > 0 => rs # <<>>
  BY <1>c
<1>. HIDE DEF all, n
<1>2. n < Len(all) => all[n + 1].type # CNAME /\ (n > 0 => all[n + 1].name = x)
  BY <1>c, <1>1
<1>3. ASSUME NEW i \in 1..n, i < Len(all) PROVE all[i + 1].name = all[i].text
  <2>1. CASE i < n
    <3>1. i + 1 \in 1..n  BY <1>c, <2>1
    <3>. QED  BY <1>c, <1>1, <2>1, <3>1
  <2>2. CASE i = n  BY <1>c, <1>1, <1>2, <1>3, <2>2
  <2>. QED  BY <1>c, <2>1, <2>2
<1>4. \A i, j \in 1..n : all[i].name = all[j].name => i = j
  BY <1>c, <1>1
<1>5. ASSUME NEW i \in DOMAIN all
      PROVE  (i <= n => all[i].type = CNAME) /\ (i = n + 1 => all[i].type # CNAME)
  <2>1. CASE i \in 1..n
    <3>1. all[i].type = CNAME  BY <1>c, <1>1, <2>1
    <3>. QED  BY <1>c, <2>1, <3>1
  <2>2. CASE i > n  BY <1>c, <1>1, <1>2, <2>2
  <2>. QED  BY <1>c, <1>1, <2>1, <2>2
<1>6. n <= Len(all)  BY <1>c, <1>1
<1>7. HoldsTogether(all, n, m)
  BY <1>c, <1>3, <1>4, <1>5, <1>6 DEF HoldsTogether
<1>. QED  BY <1>c, <1>1, <1>7 DEF all

-----------------------------------------------------------------------------
(* A step of the query.                                                    *)

\* The head of a list of records, and where it leads if it is an alias.
LEMMA FirstRecord ==
  ASSUME NEW rs \in Seq(Records), rs # <<>>
  PROVE  /\ Head(rs) \in Records /\ 1 \in DOMAIN rs /\ Head(rs) = rs[1]
         /\ Head(rs).name \in Names
         /\ Head(rs).type = CNAME => Head(rs).text \in Names \cup {Nowhere}
<1>1. Head(rs) \in Records /\ 1 \in DOMAIN rs /\ Head(rs) = rs[1]  OBVIOUS
<1>. QED  BY <1>1, ZoneAssumption, AliasAssumption

\* Following an alias: the chain grows, since it is neither too long nor a loop.
LEMMA HopGrows ==
  ASSUME AliasTypeOK, ChaseInv, at = "step", Hop, maxDepth' = maxDepth
  PROVE  /\ IsChain(chain', visited', maxDepth', target') /\ Len(chain') = depth'
         /\ chain' \in Seq(Records) /\ depth' \in Nat /\ depth' > 0
         /\ visited' \subseteq Names /\ target' \in Names \cup {Nowhere}
<1>. DEFINE r == Head(current)
<1>1. /\ IsChain(chain, visited, maxDepth, target) /\ Len(chain) = depth
      /\ current # <<>> /\ r.type = CNAME /\ (depth > 0 => r.name = target)
      /\ chain \in Seq(Records) /\ depth \in Nat /\ maxDepth \in Nat
      /\ current \in Seq(Records)
  BY AliasAssumption DEF ChaseInv, AliasTypeOK, IsHeadCNAME
<1>2. r \in Records /\ r.text \in Names \cup {Nowhere}  BY <1>1, FirstRecord
<1>3. /\ chain' = Append(chain, r) /\ visited' = visited \cup {r.name}
      /\ depth' = depth + 1 /\ target' = r.text
      /\ r.name \notin visited /\ ~ (maxDepth > 0 /\ depth + 1 > maxDepth)
  BY DEF Hop, TooDeep, InLoop
<1>. HIDE DEF r
<1>4. chain # <<>> => r.name = target  BY <1>1
<1>5. IsChain(chain', visited', maxDepth, target')
  <2>1. maxDepth > 0 => Len(chain) + 1 <= maxDepth  BY <1>1, <1>3
  <2>2. IsChain(Append(chain, r), visited \cup {r.name}, maxDepth, r.text)
    BY <1>1, <1>2, <1>3, <1>4, <2>1, ChainGrows
  <2>. QED  BY <1>3, <2>2
<1>6. visited' \subseteq Names  BY <1>5, ChainIsFinite
<1>. QED  BY <1>1, <1>2, <1>3, <1>5, <1>6

\* Records for the target of the last alias: they end the chase or go on with it.
LEMMA TakeKeeps ==
  ASSUME AliasTypeOK, ChaseInv, at \in {"ask zone", "ask alias"},
         NEW rs \in Seq(Records), rs # <<>>, Head(rs).name = target,
         Take(rs), UNCHANGED <<quiet, reloads>>, DOMAIN zones' \subseteq Names
  PROVE  (AliasTypeOK /\ ChaseInv /\ ChainHoldsTogether)'
<1>1. /\ IsChain(chain, visited, maxDepth, target) /\ Len(chain) = depth
      /\ outcome = NoOutcome /\ query.type # CNAME /\ maxDepth \in Nat
  BY AliasAssumption DEF ChaseInv, AliasTypeOK
<1>2. UNCHANGED <<setup, visited, depth, target>> /\ current' = rs
  BY DEF Take, GoTo, Return
<1>3. CASE IsHeadCNAME(rs)
  <2>1. at' = "step" /\ chain' = chain /\ outcome' = outcome
    BY <1>3 DEF Take, GoTo
  <2>2. AliasTypeOK'  BY <1>2, <2>1 DEF AliasTypeOK, setup
  <2>3. ChaseInv'  BY <1>1, <1>2, <1>3, <2>1 DEF ChaseInv, setup, IsHeadCNAME
  <2>4. ChainHoldsTogether'  BY <1>1, <2>1 DEF ChainHoldsTogether, NoOutcome
  <2>. QED  BY <2>2, <2>3, <2>4
<1>4. CASE ~ IsHeadCNAME(rs)
  <2>1. at' = "done" /\ chain' = chain \o rs /\ outcome' = NoError(chain \o rs)
    BY <1>4 DEF Take, Return
  <2>2. chain \o rs \in Seq(Records)
        /\ HoldsTogether(chain \o rs, Cardinality(visited), maxDepth)
    BY <1>1, <1>4, ChainEnds DEF IsHeadCNAME
  <2>3. AliasTypeOK'  BY <1>2, <2>1, <2>2 DEF AliasTypeOK, setup, NoError
  <2>4. ChaseInv'  BY <2>1 DEF ChaseInv
  <2>5. ChainHoldsTogether'
    BY <1>2, <2>1, <2>2 DEF ChainHoldsTogether, HoldsTogether, NoError, setup
  <2>. QED  BY <2>3, <2>4, <2>5
<1>. QED  BY <1>3, <1>4

\* Every step keeps the chain a chain, and an answer is one.
LEMMA ChaseNext ==
  ASSUME ZoneInv, ZoneInv', AliasTypeOK, ChaseInv, ChainHoldsTogether,
         [AliasNext]_aliasVars
  PROVE  (AliasTypeOK /\ ChaseInv /\ ChainHoldsTogether)'
<1>z. DOMAIN zones \subseteq Names /\ DOMAIN zones' \subseteq Names
  BY DEF ZoneInv, CacheOf
<1>q. query.name \in Names /\ query.type \in Types /\ query = query /\ maxDepth \in Nat
  BY AliasAssumption DEF AliasTypeOK
<1>0. ASSUME IsChain(chain, visited, maxDepth, target), NEW rs \in Seq(Records),
             rs # <<>> => Head(rs).type # CNAME /\ (chain # <<>> => Head(rs).name = target)
      PROVE  chain \o rs \in Seq(Records)
             /\ HoldsTogether(chain \o rs, Cardinality(visited), maxDepth)
  BY <1>0, <1>q, ChainEnds
<1>e. <<>> \in Seq(Records)  OBVIOUS
<1>1. CASE NotFound
  <2>1. at' = "done" /\ outcome' = NotLocal /\ UNCHANGED <<zones, setup, chase, history>>
    BY <1>1 DEF NotFound, Return
  <2>2. AliasTypeOK'
    BY <1>e, <1>z, <2>1 DEF AliasTypeOK, setup, chase, history, NotLocal
  <2>. QED  BY <2>1, <2>2 DEF ChaseInv, ChainHoldsTogether, NotLocal
<1>i. Initial \in Seq(Records)
      /\ (Initial # <<>> => Head(Initial).name = query.name)
  <2>1. \A t : /\ Find(query.name, t) \in Seq(Records)
               /\ Find(query.name, t) # <<>> => Head(Find(query.name, t)).name = query.name
    BY <1>q, LookupType, FirstRecord
  <2>. QED  BY <2>1 DEF Initial
<1>2. CASE FoundRecords
  <2>1. /\ at = "called" /\ at' = "done" /\ outcome' = NoError(Initial)
        /\ ~ IsHeadCNAME(Initial) \/ query.type = CNAME
        /\ Initial # <<>> /\ UNCHANGED <<zones, setup, chase, history>>
    BY <1>2 DEF FoundRecords, Return
  <2>2. AliasTypeOK'
    BY <1>z, <1>i, <2>1 DEF AliasTypeOK, setup, chase, history, NoError
  <2>3. IsChain(chain, visited, maxDepth, target) /\ chain = <<>> /\ chain \in Seq(Records)
    <3>1. IsChain(chain, visited, maxDepth, target) /\ Len(chain) = 0
      BY <2>1 DEF ChaseInv
    <3>2. chain \in Seq(Records)  BY DEF AliasTypeOK
    <3>3. chain = <<>>  BY <3>1, <3>2
    <3>. QED  BY <3>1, <3>2, <3>3
  <2>4. ASSUME query.type # CNAME PROVE ChainHoldsTogether'
    <3>1. chain \o Initial = Initial  BY <1>i, <2>3
    <3>2. HoldsTogether(Initial, Cardinality(visited), maxDepth)
      BY <1>i, <1>0, <2>1, <2>3, <2>4, <3>1 DEF IsHeadCNAME
    <3>. QED
      BY <2>1, <3>2 DEF ChainHoldsTogether, HoldsTogether, NoError, setup, chase
  <2>5. query.type = CNAME => ChainHoldsTogether'
    BY <2>1 DEF ChainHoldsTogether, setup
  <2>. QED  BY <2>1, <2>2, <2>4, <2>5 DEF ChaseInv
<1>3. CASE FoundAlias
  <2>1. /\ at = "called" /\ at' = "step" /\ query.type # CNAME /\ IsHeadCNAME(Initial)
        /\ current' = Initial
        /\ UNCHANGED <<zones, setup, outcome, history, chain, visited, depth, target>>
    BY <1>3 DEF FoundAlias, GoTo
  <2>2. AliasTypeOK'
    BY <1>z, <1>i, <2>1 DEF AliasTypeOK, setup, history
  <2>3. ChaseInv'  BY <2>1 DEF ChaseInv, setup, IsHeadCNAME
  <2>4. ChainHoldsTogether'  BY <2>1 DEF ChaseInv, ChainHoldsTogether, NoOutcome
  <2>. QED  BY <2>2, <2>3, <2>4
<1>4. CASE StepFails
  <2>1. /\ at = "step" /\ at' = "done" /\ outcome' = ServFail /\ depth' = depth + 1
        /\ chain' = Append(chain, Head(current))
        /\ UNCHANGED <<zones, setup, history, visited, current, target>>
    BY <1>4 DEF StepFails, Return
  <2>2. Head(current) \in Records
    BY <2>1, FirstRecord DEF ChaseInv, AliasTypeOK, IsHeadCNAME
  <2>3. AliasTypeOK'
    <3>1. chain' \in Seq(Records) /\ depth' \in Nat
      <4>1. chain \in Seq(Records) /\ depth \in Nat  BY DEF AliasTypeOK
      <4>. QED  BY <2>1, <2>2, <4>1
    <3>. QED  BY <1>e, <1>z, <2>1, <3>1 DEF AliasTypeOK, setup, history, ServFail
  <2>. QED  BY <2>1, <2>3 DEF ChaseInv, ChainHoldsTogether, ServFail
<1>5. CASE BadTarget
  <2>1. /\ at = "step" /\ at' = "done" /\ outcome' = NoError(chain') /\ Hop
        /\ UNCHANGED <<zones, setup, history, current>>
    BY <1>5 DEF BadTarget, Return, Hop
  <2>2. /\ IsChain(chain', visited', maxDepth', target') /\ maxDepth' = maxDepth
        /\ chain' \in Seq(Records) /\ depth' \in Nat /\ visited' \subseteq Names
        /\ target' \in Names \cup {Nowhere}
    BY <2>1, HopGrows DEF setup
  <2>3. AliasTypeOK'
    BY <1>z, <2>1, <2>2 DEF AliasTypeOK, setup, history, NoError
  <2>4. HoldsTogether(chain', Cardinality(visited'), maxDepth')
    <3>1. chain' \o <<>> = chain' /\ <<>> \in Seq(Records)  BY <2>2
    <3>2. HoldsTogether(chain' \o <<>>, Cardinality(visited'), maxDepth')
      BY <1>q, <2>2, <3>1, ChainEnds
    <3>. QED  BY <3>1, <3>2
  <2>5. ChainHoldsTogether'
    BY <2>1, <2>4 DEF ChainHoldsTogether, HoldsTogether, NoError
  <2>. QED  BY <2>1, <2>3, <2>5 DEF ChaseInv
<1>6. CASE FollowAlias
  <2>1. /\ at = "step" /\ at' = "ask zone" /\ target' # Nowhere /\ Hop
        /\ UNCHANGED <<zones, setup, history, current, outcome>>
    BY <1>6 DEF FollowAlias, GoTo, Hop
  <2>2. /\ IsChain(chain', visited', maxDepth', target') /\ maxDepth' = maxDepth
        /\ chain' \in Seq(Records) /\ depth' \in Nat /\ visited' \subseteq Names
        /\ target' \in Names \cup {Nowhere} /\ depth' > 0 /\ Len(chain') = depth'
    BY <2>1, HopGrows DEF setup
  <2>3. AliasTypeOK'
    BY <1>z, <2>1, <2>2 DEF AliasTypeOK, setup, history
  <2>4. ChaseInv'
    BY <2>1, <2>2 DEF ChaseInv, setup
  <2>5. ChainHoldsTogether'
    <3>1. outcome' = NoOutcome  BY <2>1 DEF ChaseInv
    <3>. QED  BY <3>1 DEF ChainHoldsTogether, NoOutcome
  <2>. QED  BY <2>3, <2>4, <2>5
<1>7. CASE AskZone \/ AskAlias
  <2>. DEFINE type == IF at = "ask zone" THEN query.type ELSE CNAME
              rs == Find(target, type)
  <2>1. /\ at \in {"ask zone", "ask alias"}
        /\ IF rs = <<>>
           THEN (GoTo("ask alias") \/ GoTo("ask upstream")) /\ UNCHANGED chase
           ELSE Take(rs)
    <3>1. CASE AskZone  BY <3>1 DEF AskZone
    <3>2. CASE AskAlias  BY <3>2 DEF AskAlias
    <3>. QED  BY <1>7, <3>1, <3>2
  <2>2. target \in Names /\ depth > 0  BY <2>1 DEF ChaseInv
  <2>3. rs \in Seq(Records) /\ (rs # <<>> => Head(rs).name = target)
    <3>1. \A t : /\ Find(target, t) \in Seq(Records)
                 /\ Find(target, t) # <<>> => Head(Find(target, t)).name = target
      BY <2>2, LookupType, FirstRecord
    <3>. HIDE DEF type
    <3>. QED  BY <3>1
  <2>. HIDE DEF rs
  <2>4. CASE rs # <<>>
    <3>1. Take(rs)  BY <2>1, <2>4 DEF rs
    <3>2. UNCHANGED <<quiet, reloads>>  BY <3>1 DEF Take, GoTo, Return, history
    <3>. QED  BY <1>z, <2>1, <2>3, <2>4, <3>1, <3>2, TakeKeeps
  <2>5. CASE rs = <<>>
    <3>1. /\ at' \in {"ask alias", "ask upstream"}
          /\ UNCHANGED <<zones, setup, outcome, history, chase>>
      BY <2>1, <2>5 DEF GoTo, rs
    <3>2. AliasTypeOK'  BY <1>z, <3>1 DEF AliasTypeOK, setup, history, chase
    <3>3. ChaseInv'  BY <2>1, <2>2, <3>1 DEF ChaseInv, setup, chase
    <3>4. ChainHoldsTogether'
      <4>1. outcome' = NoOutcome  BY <2>1, <3>1 DEF ChaseInv
      <4>. QED  BY <4>1 DEF ChainHoldsTogether, NoOutcome
    <3>. QED  BY <3>2, <3>3, <3>4
  <2>. QED  BY <2>4, <2>5
<1>8. CASE UpstreamAnswers
  <2>1. PICK rs \in Upstream(target, query.type) \ {<<>>} :
          /\ current' = rs
          /\ IF IsHeadCNAME(rs)
             THEN at' = "step" /\ UNCHANGED <<chain, outcome>>
             ELSE chain' = chain \o rs /\ at' = "done" /\ outcome' = NoError(chain')
    BY <1>8 DEF UpstreamAnswers
  <2>2. /\ at = "ask upstream" /\ quiet' = FALSE
        /\ UNCHANGED <<zones, setup, visited, depth, target, loaded, reloads>>
    BY <1>8 DEF UpstreamAnswers
  <2>3. target \in Names /\ IsChain(chain, visited, maxDepth, target) /\ outcome = NoOutcome
        /\ Len(chain) = depth /\ query.type # CNAME
    BY <2>2 DEF ChaseInv
  <2>4. rs \in Seq(Records) /\ rs # <<>> /\ Head(rs).name = target
    BY <1>q, <2>1, <2>3, AliasAssumption
  <2>5. CASE IsHeadCNAME(rs)
    <3>1. at' = "step" /\ UNCHANGED <<chain, outcome>> /\ current' = rs  BY <2>1, <2>5
    <3>2. AliasTypeOK'  BY <1>z, <2>2, <2>4, <3>1 DEF AliasTypeOK, setup
    <3>3. ChaseInv'
      BY <2>2, <2>3, <2>4, <2>5, <3>1 DEF ChaseInv, setup, IsHeadCNAME
    <3>4. ChainHoldsTogether'  BY <2>3, <3>1 DEF ChainHoldsTogether, NoOutcome
    <3>. QED  BY <3>2, <3>3, <3>4
  <2>6. CASE ~ IsHeadCNAME(rs)
    <3>1. chain' = chain \o rs /\ at' = "done" /\ outcome' = NoError(chain \o rs)
          /\ current' = rs
      BY <2>1, <2>6
    <3>2. chain \o rs \in Seq(Records)
          /\ HoldsTogether(chain \o rs, Cardinality(visited), maxDepth)
      BY <1>0, <2>3, <2>4, <2>6 DEF IsHeadCNAME
    <3>3. AliasTypeOK'
      BY <1>z, <2>2, <2>4, <3>1, <3>2 DEF AliasTypeOK, setup, NoError
    <3>4. ChainHoldsTogether'
      BY <2>2, <3>1, <3>2 DEF ChainHoldsTogether, HoldsTogether, NoError, setup
    <3>. QED  BY <3>1, <3>3, <3>4 DEF ChaseInv
  <2>. QED  BY <2>5, <2>6
<1>9. CASE UpstreamMisses
  <2>1. /\ at = "ask upstream" /\ at' = "done" /\ outcome' = NoError(chain)
        /\ UNCHANGED <<zones, setup, history, chase>>
    BY <1>9 DEF UpstreamMisses, Return
  <2>2. AliasTypeOK'
    BY <1>z, <2>1 DEF AliasTypeOK, setup, history, chase, NoError
  <2>3. HoldsTogether(chain, Cardinality(visited), maxDepth)
    <3>0. chain \in Seq(Records)  BY DEF AliasTypeOK
    <3>1. chain \o <<>> = chain /\ <<>> \in Seq(Records)  BY <3>0
    <3>2. IsChain(chain, visited, maxDepth, target)  BY <2>1 DEF ChaseInv
    <3>3. HoldsTogether(chain \o <<>>, Cardinality(visited), maxDepth)  BY <1>0, <3>1, <3>2
    <3>. QED  BY <3>1, <3>3
  <2>4. ChainHoldsTogether'
    BY <2>1, <2>3 DEF ChainHoldsTogether, HoldsTogether, NoError, setup, chase
  <2>. QED  BY <2>1, <2>2, <2>4 DEF ChaseInv
<1>10. ASSUME NEW f \in Reloads, Reload(f)
       PROVE (AliasTypeOK /\ ChaseInv /\ ChainHoldsTogether)'
  <2>1. /\ reloads' \in 0..MaxReloads /\ quiet' \in BOOLEAN
        /\ UNCHANGED <<setup, at, chase, outcome>>
    <3>1. reloads' \in 0..MaxReloads
      <4>1. reloads < MaxReloads /\ reloads' = reloads + 1 /\ reloads \in 0..MaxReloads
        BY <1>10 DEF Reload, AliasTypeOK
      <4>. QED  BY <4>1, AliasAssumption
    <3>2. quiet' \in BOOLEAN  BY <1>10 DEF Reload
    <3>3. UNCHANGED <<setup, at, chase, outcome>>  BY <1>10 DEF Reload
    <3>. QED  BY <3>1, <3>2, <3>3
  <2>2. AliasTypeOK'  BY <1>z, <2>1 DEF AliasTypeOK, setup, chase
  <2>3. ChaseInv'  BY <2>1 DEF ChaseInv, setup, chase
  <2>4. ChainHoldsTogether'  BY <2>1 DEF ChainHoldsTogether, setup, chase
  <2>. QED  BY <2>2, <2>3, <2>4
<1>11. CASE UNCHANGED aliasVars
  <2>1. UNCHANGED <<setup, at, chase, outcome, history>>  BY <1>11 DEF aliasVars
  <2>2. AliasTypeOK'  BY <1>z, <2>1 DEF AliasTypeOK, setup, chase, history
  <2>3. ChaseInv'  BY <2>1 DEF ChaseInv, setup, chase
  <2>4. ChainHoldsTogether'  BY <2>1 DEF ChainHoldsTogether, setup, chase
  <2>. QED  BY <2>2, <2>3, <2>4
<1>. QED
  BY <1>1, <1>2, <1>3, <1>4, <1>5, <1>6, <1>7, <1>8, <1>9, <1>10, <1>11
  DEF AliasNext, Call, Chase

\* Before the query there is no chain, and no answer.
LEMMA ChaseInit ==
  ASSUME AliasInit, ZoneInv PROVE AliasTypeOK /\ ChaseInv /\ ChainHoldsTogether
<1>e. <<>> \in Seq(Records)  OBVIOUS
<1>1. DOMAIN zones \subseteq Names  BY DEF ZoneInv, CacheOf
<1>2. 0 \in 0..MaxReloads  BY AliasAssumption
<1>3. AliasTypeOK
  BY <1>e, <1>1, <1>2 DEF AliasInit, AliasTypeOK, NoOutcome
<1>4. IsChain(<<>>, {}, maxDepth, target)
  <2>1. Len(<<>>) = 0 /\ 1..0 = {} /\ Cardinality({}) = 0  BY FS_EmptySet
  <2>2. maxDepth \in Nat  BY AliasAssumption DEF AliasInit
  <2>. QED  BY <1>e, <2>1, <2>2 DEF IsChain
<1>5. ChaseInv
  <2>1. Len(<<>>) = 0  OBVIOUS
  <2>. QED  BY <1>4, <2>1 DEF AliasInit, ChaseInv
<1>6. ChainHoldsTogether  BY DEF AliasInit, ChainHoldsTogether, NoOutcome
<1>. QED  BY <1>3, <1>5, <1>6

-----------------------------------------------------------------------------
(* The way that the zone files define.                                     *)

Steps == Cardinality(Names)

\* A way has no more names than there are.
LEMMA StepsType == Steps \in Nat
BY ZoneAssumption, FS_CardinalityType DEF Steps

\* The next name after n, if n has an alias.
After(n, t) == IF HasAlias(n, t) THEN Alias(n).text ELSE Nowhere

\* NameAfter(n, t) is the function it is meant to be.
IsWay(w, n, t, last) ==
  w = [k \in 0..last |-> IF k = 0 THEN n ELSE After(w[k - 1], t)]

\* There is a way from every name: one of m - 1 steps can be gone on with.
LEMMA WayExists ==
  ASSUME NEW n, NEW t
  PROVE  \E w : IsWay(w, n, t, Steps)
<1>. DEFINE bad == {m \in Nat : ~ \E w : IsWay(w, n, t, m)}
<1>1. ASSUME bad # {} PROVE FALSE
  <2>b. bad \in SUBSET Nat  OBVIOUS
  <2>1. PICK m \in bad : \A k \in bad : m <= k
    <3>. HIDE DEF bad
    <3>. QED  BY <1>1, <2>b, LeastNumber
  <2>2. IsWay([k \in 0..0 |-> n], n, t, 0)  BY DEF IsWay
  <2>3. m \in Nat /\ m # 0  BY <2>2
  <2>4. m - 1 \in Nat /\ m - 1 \notin bad
    <3>. HIDE DEF bad
    <3>. QED  BY <2>1, <2>3
  <2>5. PICK w : IsWay(w, n, t, m - 1)  BY <2>4
  <2>. DEFINE x == [k \in 0..m |-> IF k = m THEN After(w[m - 1], t) ELSE w[k]]
  <2>6. IsWay(x, n, t, m)
    <3>1. ASSUME NEW k \in 0..m PROVE x[k] = IF k = 0 THEN n ELSE After(x[k - 1], t)
      <4>1. CASE k = m
        <5>1. x[m - 1] = w[m - 1]  BY <2>3
        <5>. QED  BY <2>3, <4>1, <5>1
      <4>2. CASE k # m
        <5>1. k \in 0..(m - 1)  BY <2>3, <4>2
        <5>2. w[k] = IF k = 0 THEN n ELSE After(w[k - 1], t)  BY <2>5, <5>1 DEF IsWay
        <5>3. k # 0 => x[k - 1] = w[k - 1]  BY <2>3, <4>2
        <5>4. x[k] = w[k]  BY <4>2
        <5>. QED  BY <5>2, <5>3, <5>4
      <4>. QED  BY <4>1, <4>2
    <3>. QED  BY <3>1 DEF IsWay
  <2>. QED  BY <2>3, <2>6
<1>. QED  BY <1>1, StepsType

\* So the definition of NameAfter may be unfolded, step by step.
LEMMA WayUnfold ==
  ASSUME NEW n, NEW t
  PROVE  LET w == NameAfter(n, t)
         IN /\ DOMAIN w = 0..Steps
            /\ w[0] = n
            /\ \A k \in 1..Steps : w[k] = After(w[k - 1], t)
<1>. DEFINE w == CHOOSE x : IsWay(x, n, t, Steps)
<1>1. IsWay(w, n, t, Steps)  BY WayExists
<1>2. NameAfter(n, t) = w
  BY DEF NameAfter, IsWay, After, Steps
<1>. HIDE DEF w
<1>3. DOMAIN w = 0..Steps /\ \A k \in 0..Steps : w[k] = IF k = 0 THEN n ELSE After(w[k - 1], t)
  BY <1>1 DEF IsWay
<1>4. w[0] = n /\ \A k \in 1..Steps : w[k] = After(w[k - 1], t)
  BY <1>3, StepsType
<1>. QED  BY <1>2, <1>3, <1>4

\* The places on the way w where an alias is followed.
AliasesOn(w, t) == {k \in DOMAIN w : HasAlias(w[k], t)}

\* The zones say nothing of what is no name.
LEMMA NowhereHasNoAlias == \A t : ~ HasAlias(Nowhere, t) /\ ZoneRecords(Nowhere, t) = <<>>
BY AliasAssumption DEF HasAlias, ZoneRecords, LastPut

\* A way that comes to a name without alias ends there.
LEMMA WayEnds ==
  ASSUME NEW n, NEW t, NEW h \in 0..Steps,
         \A k \in 0..(h - 1) : HasAlias(NameAfter(n, t)[k], t),
         ~ HasAlias(NameAfter(n, t)[h], t)
  PROVE  Cardinality(AliasesOn(NameAfter(n, t), t)) = h
<1>. DEFINE w == NameAfter(n, t)
            bad == {k \in (h + 1)..Steps : w[k] # Nowhere}
<1>1. DOMAIN w = 0..Steps /\ \A k \in 1..Steps : w[k] = After(w[k - 1], t)
  BY WayUnfold
<1>2. ~ HasAlias(w[h], t) /\ \A k \in 0..(h - 1) : HasAlias(w[k], t)  OBVIOUS
<1>. HIDE DEF w
<1>3. ASSUME bad # {} PROVE FALSE
  <2>b. bad \in SUBSET Nat  OBVIOUS
  <2>1. PICK m \in bad : \A k \in bad : m <= k
    <3>. HIDE DEF bad
    <3>. QED  BY <1>3, <2>b, LeastNumber
  <2>2. m \in (h + 1)..Steps /\ w[m] # Nowhere  OBVIOUS
  <2>3. m - 1 \notin bad
    <3>. HIDE DEF bad
    <3>. QED  BY <2>b, <2>1
  <2>4. m - 1 = h \/ w[m - 1] = Nowhere
    <3>1. m - 1 = h \/ m - 1 \in (h + 1)..Steps  BY <2>2, StepsType
    <3>. QED  BY <2>3, <3>1
  <2>5. ~ HasAlias(w[m - 1], t)  BY <1>2, <2>4, NowhereHasNoAlias
  <2>6. w[m] = After(w[m - 1], t)  BY <1>1, <2>2, StepsType
  <2>7. w[m] = Nowhere  BY <2>5, <2>6 DEF After
  <2>. QED  BY <2>2, <2>7
<1>4. AliasesOn(w, t) = 0..(h - 1)
  <2>1. \A k \in (h + 1)..Steps : ~ HasAlias(w[k], t)  BY <1>3, NowhereHasNoAlias
  <2>2. ASSUME NEW k \in 0..Steps PROVE HasAlias(w[k], t) <=> k \in 0..(h - 1)
    <3>1. k \in 0..(h - 1) \/ k = h \/ k \in (h + 1)..Steps  BY StepsType
    <3>2. k = h => k \notin 0..(h - 1)  OBVIOUS
    <3>3. k \in (h + 1)..Steps => k \notin 0..(h - 1)  OBVIOUS
    <3>. QED  BY <1>2, <2>1, <3>1, <3>2, <3>3
  <2>3. 0..(h - 1) \subseteq 0..Steps  BY StepsType
  <2>. QED  BY <1>1, <2>2, <2>3 DEF AliasesOn
<1>5. Cardinality(0..(h - 1)) = h  BY FS_Interval
<1>. QED  BY <1>4, <1>5 DEF w

\* What is expected if the way ends.
LEMMA ExpectedEnd ==
  ASSUME NEW q, NEW h \in 0..Steps, maxDepth \in Nat,
         \A k \in 0..(h - 1) : HasAlias(NameAfter(q.name, q.type)[k], q.type),
         ~ HasAlias(NameAfter(q.name, q.type)[h], q.type)
  PROVE  LET w == NameAfter(q.name, q.type)
         IN /\ h = 0 =>
                 Expected(q) = IF ZoneRecords(q.name, q.type) = <<>> THEN NotLocal
                               ELSE NoError(ZoneRecords(q.name, q.type))
            /\ h > 0 /\ (maxDepth > 0 => h <= maxDepth) =>
                 Expected(q) = NoError([k \in 1..h |-> Alias(w[k - 1])]
                                         \o ZoneRecords(w[h], q.type))
<1>. DEFINE w == NameAfter(q.name, q.type)
<1>1. Cardinality({k \in DOMAIN w : HasAlias(w[k], q.type)}) = h
  BY WayEnds DEF AliasesOn
<1>2. ~ h > Cardinality(Names)  BY StepsType DEF Steps
<1>. DEFINE path == NoError([k \in 1..h |-> Alias(w[k - 1])] \o ZoneRecords(w[h], q.type))
            here == IF ZoneRecords(q.name, q.type) = <<>> THEN NotLocal
                    ELSE NoError(ZoneRecords(q.name, q.type))
<1>3. Expected(q) = CASE h = 0 -> here
                      [] h > Cardinality(Names) \/ (maxDepth > 0 /\ h > maxDepth) -> ServFail
                      [] OTHER -> path
  BY <1>1 DEF Expected
<1>4. h = 0 => Expected(q) = here
  <2>. HIDE DEF here, path
  <2>1. h = 0 => ~ (maxDepth > 0 /\ h > maxDepth)  OBVIOUS
  <2>. QED  BY <1>2, <1>3, <2>1
<1>5. h > 0 /\ (maxDepth > 0 => h <= maxDepth) => Expected(q) = path
  <2>. HIDE DEF here, path
  <2>1. h > 0 /\ (maxDepth > 0 => h <= maxDepth) => h # 0 /\ ~ (maxDepth > 0 /\ h > maxDepth)
    OBVIOUS
  <2>. QED  BY <1>2, <1>3, <2>1
<1>. QED  BY <1>4, <1>5

\* What is expected of a way that is too long or comes back.
LEMMA ExpectedFailure ==
  ASSUME NEW q, NEW h \in 0..Steps, maxDepth \in Nat,
         \A k \in 0..h : HasAlias(NameAfter(q.name, q.type)[k], q.type),
         h = Steps \/ (maxDepth > 0 /\ h + 1 > maxDepth)
  PROVE  Expected(q) = ServFail
<1>. DEFINE w == NameAfter(q.name, q.type)
            aliases == {k \in DOMAIN w : HasAlias(w[k], q.type)}
            hops == Cardinality(aliases)
<1>1. DOMAIN w = 0..Steps  BY WayUnfold
<1>h. \A k \in 0..h : HasAlias(w[k], q.type)  OBVIOUS
<1>2. aliases \subseteq 0..Steps /\ 0..h \subseteq aliases
  <2>. HIDE DEF w
  <2>1. 0..h \subseteq 0..Steps  BY StepsType
  <2>. QED  BY <1>1, <1>h, <2>1
<1>. HIDE DEF aliases
<1>3. IsFiniteSet(aliases)
  <2>1. IsFiniteSet(0..Steps)  BY StepsType, FS_Interval
  <2>. QED  BY <1>2, <2>1, FS_Subset
<1>4. hops \in Nat /\ hops >= h + 1
  <2>1. hops \in Nat  BY <1>3, FS_CardinalityType
  <2>2. Cardinality(0..h) = h + 1
    <3>1. h \in Int /\ ~ 0 > h  OBVIOUS
    <3>. QED  BY <3>1, FS_Interval
  <2>3. Cardinality(0..h) <= hops  BY <1>2, <1>3, FS_Subset
  <2>. QED  BY <2>1, <2>2, <2>3
<1>5. hops > Cardinality(Names) \/ (maxDepth > 0 /\ hops > maxDepth)
  BY <1>4, StepsType DEF Steps
<1>. QED  BY <1>4, <1>5 DEF Expected, aliases

\* A way that comes back to a name goes on for ever.
LEMMA WayReturns ==
  ASSUME NEW n, NEW t, NEW h \in 0..Steps, NEW i \in 0..(h - 1),
         \A k \in 0..h : HasAlias(NameAfter(n, t)[k], t),
         NameAfter(n, t)[h] = NameAfter(n, t)[i]
  PROVE  \A k \in 0..Steps : HasAlias(NameAfter(n, t)[k], t)
<1>. DEFINE w == NameAfter(n, t)
            bad == {k \in 0..Steps : \A j \in 0..h : w[k] # w[j]}
<1>1. \A k \in 1..Steps : w[k] = After(w[k - 1], t)  BY WayUnfold
<1>2. w[h] = w[i] /\ \A k \in 0..h : HasAlias(w[k], t)  OBVIOUS
<1>. HIDE DEF w
<1>3. ASSUME bad # {} PROVE FALSE
  <2>b. bad \in SUBSET Nat  OBVIOUS
  <2>1. PICK m \in bad : \A k \in bad : m <= k
    <3>. HIDE DEF bad
    <3>. QED  BY <1>3, <2>b, LeastNumber
  <2>2. m \in 0..Steps /\ \A j \in 0..h : w[m] # w[j]  OBVIOUS
  <2>3. m # 0  BY <2>2
  <2>4. m - 1 \notin bad
    <3>. HIDE DEF bad
    <3>. QED  BY <2>b, <2>1
  <2>5. PICK j \in 0..h : w[m - 1] = w[j]
    <3>1. m - 1 \in 0..Steps  BY <2>2, <2>3, StepsType
    <3>. QED  BY <2>4, <3>1
  <2>6. w[m] = After(w[j], t)  BY <1>1, <2>2, <2>3, <2>5, StepsType
  <2>7. CASE j < h
    <3>1. j + 1 \in 0..h /\ j + 1 \in 1..Steps  BY <2>7, StepsType
    <3>2. w[j + 1] = After(w[j], t)  BY <1>1, <3>1
    <3>. QED  BY <2>2, <2>6, <3>1, <3>2
  <2>8. CASE j = h
    <3>1. i + 1 \in 0..h /\ i + 1 \in 1..Steps  BY StepsType
    <3>2. w[i + 1] = After(w[i], t)  BY <1>1, <3>1
    <3>. QED  BY <1>2, <2>2, <2>6, <2>8, <3>1, <3>2
  <2>. QED  BY <2>7, <2>8
<1>4. ASSUME NEW k \in 0..Steps PROVE HasAlias(w[k], t)
  <2>1. PICK j \in 0..h : w[k] = w[j]  BY <1>3
  <2>. QED  BY <1>2, <2>1
<1>. QED  BY <1>4 DEF w

\* The way of the query depends on the zones and the query alone.
LEMMA WayFixed ==
  ASSUME UNCHANGED <<loaded, query, maxDepth>>
  PROVE  /\ Way' = Way /\ Expected(query)' = Expected(query)
         /\ \A n, t : ZoneRecords(n, t)' = ZoneRecords(n, t)
         /\ \A n, t : HasAlias(n, t)' = HasAlias(n, t)
         /\ \A n : Alias(n)' = Alias(n)
<1>1. \A n, t : ZoneRecords(n, t)' = ZoneRecords(n, t)  BY DEF ZoneRecords, LastPut
<1>2. \A n, t : HasAlias(n, t)' = HasAlias(n, t)
  BY DEF HasAlias, ZoneRecords, LastPut
<1>3. \A n : Alias(n)' = Alias(n)  BY DEF Alias, ZoneRecords, LastPut
<1>4. Way' = Way  BY DEF Way, NameAfter, HasAlias, Alias, ZoneRecords, LastPut
<1>5. Expected(query)' = Expected(query)
  BY DEF Expected, NameAfter, HasAlias, Alias, ZoneRecords, LastPut
<1>. QED  BY <1>1, <1>2, <1>3, <1>4, <1>5

\* A chain that goes all the way is what is expected, with the records at the end.
LEMMA AnswerOfWay ==
  ASSUME NEW c \in Seq(Records), Len(c) \in 1..Steps, maxDepth \in Nat,
         maxDepth > 0 => Len(c) <= maxDepth,
         \A i \in 1..Len(c) : HasAlias(Way[i - 1], query.type) /\ c[i] = Alias(Way[i - 1]),
         ~ HasAlias(Way[Len(c)], query.type)
  PROVE  Expected(query) = NoError(c \o ZoneRecords(Way[Len(c)], query.type))
<1>. DEFINE h == Len(c)
<1>1. h \in 0..Steps /\ h > 0  BY StepsType
<1>2. \A k \in 0..(h - 1) : HasAlias(Way[k], query.type)
  <2>. TAKE k \in 0..(h - 1)
  <2>1. k + 1 \in 1..h /\ (k + 1) - 1 = k  BY <1>1
  <2>. QED  BY <2>1
<1>3. c = [k \in 1..h |-> Alias(Way[k - 1])]
  <2>. DEFINE d == [k \in 1..h |-> Alias(Way[k - 1])]
  <2>1. c = [k \in 1..h |-> c[k]]  OBVIOUS
  <2>2. \A k \in 1..h : c[k] = d[k]  OBVIOUS
  <2>. QED  BY <2>1, <2>2
<1>4. Expected(query) = NoError([k \in 1..h |-> Alias(Way[k - 1])]
                                  \o ZoneRecords(Way[h], query.type))
  <2>. HIDE DEF h
  <2>1. ~ HasAlias(Way[h], query.type)  BY DEF h
  <2>2. maxDepth > 0 => h <= maxDepth  BY DEF h
  <2>. QED  BY <1>1, <1>2, <2>1, <2>2, ExpectedEnd DEF Way
<1>. QED  BY <1>3, <1>4

\* Every step that is not disturbed by a reload goes on along the way, and an answer
\* is what the way says.
LEMMA WayNext ==
  ASSUME ZoneInv, AliasTypeOK, ChaseInv, WayInv, AnswerIsTheChain,
         [AliasNext]_aliasVars, ChaseInv'
  PROVE  (WayInv /\ AnswerIsTheChain)'
<1>1. CASE UNCHANGED aliasVars
  <2>1. UNCHANGED <<at, chain, visited, depth, current, target, outcome, loaded, quiet,
                    finder, query, maxDepth>>
    BY <1>1 DEF aliasVars, setup, chase, history
  <2>2. WayInv'  BY <2>1, WayFixed DEF WayInv
  <2>3. AnswerIsTheChain'  BY <2>1, WayFixed DEF AnswerIsTheChain
  <2>. QED  BY <2>2, <2>3
<1>2. ASSUME NEW f \in Reloads, Reload(f) PROVE (WayInv /\ AnswerIsTheChain)'
  <2>1. at' = at /\ (quiet' => at = "called")  BY <1>2 DEF Reload
  <2>. QED  BY <2>1 DEF WayInv, AnswerIsTheChain
<1>3. ASSUME Call, quiet', finder' = "alias", query'.type # CNAME
      PROVE  (WayInv /\ AnswerIsTheChain)'
  <2>. DEFINE t == query.type
              h == depth
  <2>1. /\ UNCHANGED <<loaded, quiet, finder, query, maxDepth>>
        /\ at # "done" /\ ~ UpstreamAnswers
    BY <1>3
    DEF Call, Chase, NotFound, FoundRecords, FoundAlias, StepFails, BadTarget, FollowAlias,
        AskZone, AskAlias, UpstreamAnswers, UpstreamMisses, Take, GoTo, Return, setup,
        history
  <2>2. quiet /\ finder = "alias" /\ t # CNAME  BY <1>3, <2>1
  <2>3. /\ query.name \in Names /\ maxDepth \in Nat /\ h \in 0..Steps
        /\ chain \in Seq(Records) /\ Len(chain) = h
        /\ IsChain(chain, visited, maxDepth, target)
    <3>1. IsChain(chain, visited, maxDepth, target) /\ Len(chain) = h
      BY <2>1 DEF ChaseInv
    <3>2. h <= Steps  BY <3>1, ChainIsFinite DEF Steps
    <3>3. query.name \in Names /\ maxDepth \in Nat /\ h \in Nat /\ chain \in Seq(Records)
      BY AliasAssumption DEF AliasTypeOK
    <3>. QED  BY <3>1, <3>2, <3>3, StepsType
  <2>4. Way[0] = query.name /\ \A k \in 1..Steps : Way[k] = After(Way[k - 1], t)
    BY WayUnfold DEF Way
  <2>5. \A i \in 1..h : HasAlias(Way[i - 1], t) /\ chain[i] = Alias(Way[i - 1])
    <3>1. CASE at = "called"
      <4>1. h = 0  BY <3>1 DEF ChaseInv
      <4>. QED  BY <4>1
    <3>2. CASE at # "called"  BY <2>1, <2>2, <3>2 DEF WayInv
    <3>. QED  BY <3>1, <3>2
  <2>6. /\ Way' = Way /\ Expected(query)' = Expected(query)
        /\ \A n, u : ZoneRecords(n, u)' = ZoneRecords(n, u)
        /\ \A n, u : HasAlias(n, u)' = HasAlias(n, u)
        /\ \A n : Alias(n)' = Alias(n)
    BY <2>1, WayFixed
  <2>7. \A n \in Names : \A u : Find(n, u) = ZoneRecords(n, u)
    BY Lookup DEF Find, ZoneRecords
  <2>8. \A n \in Names : \A u :
          Find(n, u) # <<>> => Head(Find(n, u)).type = u
    BY LookupType, FirstRecord
  <2>9. \A n, u : HasAlias(n, u) =>
                    /\ n \in Names /\ Alias(n).name = n /\ After(n, u) = Alias(n).text
                    /\ Alias(n) = Head(ZoneRecords(n, CNAME))
    <3>1. \A n \in Names : ZoneRecords(n, CNAME) # <<>> =>
                             Head(ZoneRecords(n, CNAME)).name = n
      BY <2>7, LookupType, FirstRecord
    <3>. QED  BY <3>1 DEF HasAlias, Alias, After, ZoneRecords, LastPut
  <2>10. Initial = IF ZoneRecords(query.name, t) = <<>> THEN ZoneRecords(query.name, CNAME)
                   ELSE ZoneRecords(query.name, t)
    BY <2>2, <2>3, <2>7 DEF Initial
  <2>11. CASE at = "called" /\ ~ HasAlias(Way[0], t) /\ at' = "done"
              /\ outcome' = IF Initial = <<>> THEN NotLocal ELSE NoError(Initial)
    <3>1. ZoneRecords(query.name, t) = <<>> => ZoneRecords(query.name, CNAME) = <<>>
      BY <2>4, <2>11 DEF HasAlias
    <3>2. Expected(query) = IF ZoneRecords(query.name, t) = <<>> THEN NotLocal
                            ELSE NoError(ZoneRecords(query.name, t))
      <4>1. 0 \in 0..Steps /\ \A k \in 0..(0 - 1) : HasAlias(Way[k], t)  BY StepsType
      <4>. QED  BY <2>3, <2>11, <4>1, ExpectedEnd DEF Way
    <3>3. outcome' = Expected(query)'  BY <2>6, <2>10, <2>11, <3>1, <3>2
    <3>. QED  BY <2>11, <3>3 DEF WayInv, AnswerIsTheChain
  <2>12. CASE NotFound
    <3>1. ~ HasAlias(Way[0], t)
      BY <2>4, <2>10, <2>12 DEF NotFound, HasAlias
    <3>. QED  BY <2>11, <2>12, <3>1 DEF NotFound, Return
  <2>13. CASE FoundRecords
    <3>1. ~ IsHeadCNAME(Initial) /\ Initial # <<>>  BY <2>2, <2>13 DEF FoundRecords
    <3>2. ~ HasAlias(Way[0], t)
      <4>1. ZoneRecords(query.name, CNAME) # <<>> =>
              IsHeadCNAME(ZoneRecords(query.name, CNAME))
        BY <2>3, <2>7, <2>8 DEF IsHeadCNAME
      <4>. QED  BY <2>4, <2>10, <3>1, <4>1 DEF HasAlias
    <3>. QED  BY <2>11, <2>13, <3>1, <3>2 DEF FoundRecords, Return
  <2>14. CASE FoundAlias
    <3>1. /\ at = "called" /\ at' = "step" /\ IsHeadCNAME(Initial) /\ current' = Initial
          /\ UNCHANGED <<chain, depth>>
      BY <2>14 DEF FoundAlias, GoTo
    <3>2. ZoneRecords(query.name, t) = <<>>
      <4>1. ZoneRecords(query.name, t) # <<>> => ~ IsHeadCNAME(ZoneRecords(query.name, t))
        BY <2>2, <2>3, <2>7, <2>8 DEF IsHeadCNAME
      <4>. QED  BY <2>10, <3>1, <4>1
    <3>3. h = 0 /\ HasAlias(Way[0], t) /\ current' = ZoneRecords(Way[0], CNAME)
      BY <2>4, <2>10, <3>1, <3>2 DEF ChaseInv, HasAlias, IsHeadCNAME
    <3>4. WayInv'  BY <2>1, <2>5, <2>6, <3>1, <3>3 DEF WayInv
    <3>. QED  BY <3>1, <3>4 DEF AnswerIsTheChain
  <2>15. at = "step" => HasAlias(Way[h], t) /\ current = ZoneRecords(Way[h], CNAME)
    BY <2>2 DEF WayInv
  <2>16. at = "step" => \A k \in 0..h : HasAlias(Way[k], t)
    <3>. SUFFICES ASSUME at = "step", NEW k \in 0..h PROVE HasAlias(Way[k], t)  OBVIOUS
    <3>1. CASE k = h  BY <2>15, <3>1
    <3>2. CASE k # h
      <4>1. k + 1 \in 1..h /\ (k + 1) - 1 = k  BY <2>3, <3>2
      <4>. QED  BY <2>5, <4>1
    <3>. QED  BY <3>1, <3>2
  <2>17. CASE StepFails
    <3>1. at = "step" /\ at' = "done" /\ outcome' = ServFail /\ (TooDeep \/ InLoop)
      BY <2>17 DEF StepFails, Return
    <3>2. ASSUME TooDeep PROVE Expected(query) = ServFail
      <4>1. maxDepth > 0 /\ h + 1 > maxDepth  BY <3>2 DEF TooDeep
      <4>. QED  BY <2>3, <2>16, <3>1, <4>1, ExpectedFailure DEF Way
    <3>3. ASSUME InLoop PROVE Expected(query) = ServFail
      <4>1. Head(current).name = Way[h]  BY <2>9, <2>15, <3>1
      <4>2. PICK i \in 1..h : chain[i].name = Way[h]
        BY <2>3, <3>3, <4>1 DEF InLoop, IsChain
      <4>3. Way[i - 1] = Way[h]  BY <2>5, <2>9, <4>2
      <4>4. i - 1 \in 0..(h - 1)  BY <2>3
      <4>5. \A k \in 0..Steps : HasAlias(Way[k], t)
        BY <2>3, <2>16, <3>1, <4>3, <4>4, WayReturns DEF Way
      <4>6. Steps \in 0..Steps  BY StepsType
      <4>. QED  BY <2>3, <4>5, <4>6, ExpectedFailure DEF Way
    <3>4. outcome' = Expected(query)'
      <4>1. Expected(query) = ServFail  BY <3>1, <3>2, <3>3
      <4>. QED  BY <2>6, <3>1, <4>1
    <3>. QED  BY <3>1, <3>4 DEF WayInv, AnswerIsTheChain
  <2>18. ASSUME at = "step", Hop
         PROVE  /\ chain' \in Seq(Records) /\ Len(chain') = h + 1 /\ depth' = h + 1
                /\ h + 1 \in 1..Steps /\ (maxDepth > 0 => h + 1 <= maxDepth)
                /\ \A i \in 1..(h + 1) :
                     HasAlias(Way[i - 1], t) /\ chain'[i] = Alias(Way[i - 1])
                /\ target' = Way[h + 1]
    <3>1. /\ IsChain(chain', visited', maxDepth, target') /\ chain' \in Seq(Records)
          /\ Len(chain') = depth'
      BY <2>1, <2>18, HopGrows
    <3>2. /\ depth' = h + 1 /\ chain' = Append(chain, Head(current))
          /\ target' = Head(current).text
      BY <2>18 DEF Hop
    <3>3. h + 1 \in 1..Steps
      <4>1. h + 1 <= Steps  BY <3>1, <3>2, ChainIsFinite DEF Steps
      <4>. QED  BY <2>3, <4>1, StepsType
    <3>4. maxDepth > 0 => h + 1 <= maxDepth  BY <3>1, <3>2 DEF IsChain
    <3>5. Head(current) = Alias(Way[h]) /\ HasAlias(Way[h], t)  BY <2>9, <2>15, <2>18
    <3>6. ASSUME NEW i \in 1..(h + 1)
          PROVE  HasAlias(Way[i - 1], t) /\ chain'[i] = Alias(Way[i - 1])
      <4>1. chain'[h + 1] = Head(current) /\ \A k \in 1..h : chain'[k] = chain[k]
        BY <2>3, <3>2
      <4>2. CASE i = h + 1
        <5>1. i - 1 = h  BY <2>3, <4>2
        <5>. QED  BY <3>5, <4>1, <4>2, <5>1
      <4>3. CASE i \in 1..h  BY <2>5, <4>1, <4>3
      <4>. QED  BY <2>3, <4>2, <4>3
    <3>7. target' = Way[h + 1]
      <4>1. Way[h + 1] = After(Way[h], t)
        <5>1. (h + 1) - 1 = h  BY <2>3
        <5>. QED  BY <2>4, <3>3, <5>1
      <4>. QED  BY <2>9, <3>2, <3>5, <4>1
    <3>. QED  BY <3>1, <3>2, <3>3, <3>4, <3>6, <3>7
  <2>19. CASE BadTarget
    <3>1. at = "step" /\ Hop /\ target' = Nowhere /\ at' = "done" /\ outcome' = NoError(chain')
      BY <2>19 DEF BadTarget, Return, Hop
    <3>2. ~ HasAlias(Way[h + 1], t) /\ ZoneRecords(Way[h + 1], t) = <<>>
      BY <2>18, <3>1, NowhereHasNoAlias
    <3>3. Expected(query) = NoError(chain' \o <<>>)
      BY <2>3, <2>18, <3>1, <3>2, AnswerOfWay
    <3>4. chain' \o <<>> = chain'  BY <2>18, <3>1
    <3>. QED  BY <2>6, <3>1, <3>3, <3>4 DEF WayInv, AnswerIsTheChain
  <2>20. CASE FollowAlias
    <3>1. at = "step" /\ Hop /\ at' = "ask zone"
      BY <2>20 DEF FollowAlias, GoTo, Hop
    <3>2. WayInv'  BY <2>1, <2>6, <2>18, <3>1 DEF WayInv
    <3>. QED  BY <3>1, <3>2 DEF AnswerIsTheChain
  <2>21. ASSUME at \in {"ask zone", "ask alias", "ask upstream"}
         PROVE  /\ target \in Names /\ target = Way[h] /\ h \in 1..Steps
                /\ maxDepth > 0 => h <= maxDepth
                /\ at # "ask zone" => ZoneRecords(target, t) = <<>>
                /\ at = "ask upstream" => ZoneRecords(target, CNAME) = <<>>
                /\ ~ HasAlias(Way[h], t) =>
                     Expected(query) = NoError(chain \o ZoneRecords(target, t))
    <3>1. target \in Names /\ h > 0  BY <2>21 DEF ChaseInv
    <3>2. h \in 1..Steps  BY <2>3, <3>1, StepsType
    <3>3. target = Way[h]  BY <2>2, <2>21 DEF WayInv
    <3>4. maxDepth > 0 => h <= maxDepth  BY <2>3 DEF IsChain
    <3>5. ~ HasAlias(Way[h], t) => Expected(query) = NoError(chain \o ZoneRecords(Way[h], t))
      BY <2>3, <2>5, <3>2, <3>4, AnswerOfWay
    <3>6. /\ at # "ask zone" => ZoneRecords(target, t) = <<>>
          /\ at = "ask upstream" => ZoneRecords(target, CNAME) = <<>>
      BY <2>2, <2>21 DEF WayInv
    <3>. QED  BY <3>1, <3>2, <3>3, <3>4, <3>5, <3>6
  <2>22. CASE AskZone
    <3>. DEFINE rs == ZoneRecords(target, t)
    <3>1. /\ at = "ask zone" /\ target \in Names /\ target = Way[h]
          /\ IF rs = <<>> THEN GoTo("ask alias") /\ UNCHANGED chase ELSE Take(rs)
      BY <2>7, <2>21, <2>22 DEF AskZone
    <3>2. CASE rs = <<>>
      <4>1. at' = "ask alias" /\ UNCHANGED <<chain, depth, target>>
        BY <3>1, <3>2 DEF GoTo, chase
      <4>2. WayInv'  BY <2>1, <2>5, <2>6, <3>1, <3>2, <4>1 DEF WayInv
      <4>. QED  BY <4>1, <4>2 DEF AnswerIsTheChain
    <3>3. CASE rs # <<>>
      <4>1. ~ IsHeadCNAME(rs) /\ Take(rs)
        BY <2>2, <2>7, <2>8, <3>1, <3>3 DEF IsHeadCNAME
      <4>2. at' = "done" /\ outcome' = NoError(chain \o rs)  BY <4>1 DEF Take, Return
      <4>3. ~ HasAlias(Way[h], t)  BY <3>1, <3>3 DEF HasAlias
      <4>4. outcome' = Expected(query)'  BY <2>6, <2>21, <3>1, <4>2, <4>3
      <4>. QED  BY <4>2, <4>4 DEF WayInv, AnswerIsTheChain
    <3>. QED  BY <3>2, <3>3
  <2>23. CASE AskAlias
    <3>. DEFINE rs == ZoneRecords(target, CNAME)
    <3>1. /\ at = "ask alias" /\ target \in Names /\ target = Way[h]
          /\ ZoneRecords(target, t) = <<>>
          /\ IF rs = <<>> THEN GoTo("ask upstream") /\ UNCHANGED chase ELSE Take(rs)
      BY <2>7, <2>21, <2>23 DEF AskAlias
    <3>2. CASE rs = <<>>
      <4>1. at' = "ask upstream" /\ UNCHANGED <<chain, depth, target>>
        BY <3>1, <3>2 DEF GoTo, chase
      <4>2. WayInv'  BY <2>1, <2>5, <2>6, <3>1, <3>2, <4>1 DEF WayInv
      <4>. QED  BY <4>1, <4>2 DEF AnswerIsTheChain
    <3>3. CASE rs # <<>>
      <4>1. IsHeadCNAME(rs) /\ Take(rs)
        BY <2>7, <2>8, <3>1, <3>3 DEF IsHeadCNAME
      <4>2. at' = "step" /\ current' = rs /\ UNCHANGED <<chain, depth, target>>
        BY <4>1 DEF Take, GoTo
      <4>3. HasAlias(Way[h], t)  BY <3>1, <3>3 DEF HasAlias
      <4>4. WayInv'  BY <2>1, <2>5, <2>6, <3>1, <4>2, <4>3 DEF WayInv
      <4>. QED  BY <4>2, <4>4 DEF AnswerIsTheChain
    <3>. QED  BY <3>2, <3>3
  <2>24. CASE UpstreamMisses
    <3>1. at = "ask upstream" /\ at' = "done" /\ outcome' = NoError(chain)
      BY <2>24 DEF UpstreamMisses, Return
    <3>2. ~ HasAlias(Way[h], t)  BY <2>21, <3>1 DEF HasAlias
    <3>3. Expected(query) = NoError(chain \o <<>>)  BY <2>21, <3>1, <3>2
    <3>4. chain \o <<>> = chain  BY <2>3
    <3>5. outcome' = Expected(query)'  BY <2>6, <3>1, <3>3, <3>4
    <3>. QED  BY <3>1, <3>5 DEF WayInv, AnswerIsTheChain
  <2>. QED
    BY <1>3, <2>1, <2>12, <2>13, <2>14, <2>17, <2>19, <2>20, <2>22, <2>23, <2>24
    DEF Call, Chase
<1>4. ASSUME ~ (quiet' /\ finder' = "alias" /\ query'.type # CNAME)
      PROVE  (WayInv /\ AnswerIsTheChain)'
  BY <1>4 DEF WayInv, AnswerIsTheChain
<1>. QED  BY <1>1, <1>2, <1>3, <1>4 DEF AliasNext

-----------------------------------------------------------------------------
(* The theorems.                                                           *)

AliasInv ==
  /\ ZoneInv
  /\ AliasTypeOK /\ ChaseInv /\ ChainHoldsTogether
  /\ WayInv /\ AnswerIsTheChain

\* The zones first, then the chain, then the way it is on.
LEMMA AliasInvariant == AliasSpec => []AliasInv
<1>1. AliasInit => AliasInv
  <2>. SUFFICES ASSUME AliasInit PROVE AliasInv  OBVIOUS
  <2>1. at = "called"  BY DEF AliasInit
  <2>. QED
    BY <2>1, ZoneInit, ChaseInit DEF AliasInv, WayInv, AnswerIsTheChain
<1>2. AliasInv /\ [AliasNext]_aliasVars => AliasInv'
  <2>. SUFFICES ASSUME AliasInv, [AliasNext]_aliasVars PROVE AliasInv'  OBVIOUS
  <2>i. /\ ZoneInv /\ AliasTypeOK /\ ChaseInv /\ ChainHoldsTogether
        /\ WayInv /\ AnswerIsTheChain
    BY DEF AliasInv
  <2>1. ZoneInv'  BY <2>i, ZoneNext
  <2>2. (AliasTypeOK /\ ChaseInv /\ ChainHoldsTogether)'  BY <2>i, <2>1, ChaseNext
  <2>3. (WayInv /\ AnswerIsTheChain)'  BY <2>i, <2>2, WayNext
  <2>. QED  BY <2>1, <2>2, <2>3 DEF AliasInv
<1>. QED  BY <1>1, <1>2, PTL DEF AliasSpec

\* Type correctness: chains, names and answers are made of the records of the zones
\* and of the servers.
THEOREM AliasTypeCorrect == AliasSpec => []AliasTypeOK
<1>1. AliasInv => AliasTypeOK  BY DEF AliasInv
<1>. QED  BY <1>1, AliasInvariant, PTL

\* Whatever was loaded or reloaded, a lookup finds what was put last for the apex of
\* the name, all of it and no more.
THEOREM FindsWhatWasPutCorrect == AliasSpec => []FindsWhatWasPut
<1>1. ASSUME AliasInv PROVE FindsWhatWasPut
  <2>1. ZoneInv  BY <1>1 DEF AliasInv
  <2>. QED  BY <2>1, Lookup DEF FindsWhatWasPut
<1>. QED  BY <1>1, AliasInvariant, PTL

\* However the zones change during a chase and whatever honest servers answer, an
\* answer is a chain without loop, within the limit, each alias leading to the next
\* record.
THEOREM ChainHoldsTogetherCorrect == AliasSpec => []ChainHoldsTogether
<1>1. AliasInv => ChainHoldsTogether  BY DEF AliasInv
<1>. QED  BY <1>1, AliasInvariant, PTL

\* Undisturbed, HandleQuery answers with the chain that the zone files define, and
\* with SERVFAIL exactly if that is too long or has no end.
THEOREM AnswerIsTheChainCorrect == AliasSpec => []AnswerIsTheChain
<1>1. AliasInv => AnswerIsTheChain  BY DEF AliasInv
<1>. QED  BY <1>1, AliasInvariant, PTL

\* With or without a limit on the depth, a chase follows no more aliases than there
\* are names: a loop ends it even if the limit is disabled.
ChaseIsBounded ==
  at # "done" => depth <= Cardinality(Names) /\ (maxDepth > 0 => depth <= maxDepth)

\* So no zone file and no server can keep a chase going.
THEOREM ChaseIsBoundedCorrect == AliasSpec => []ChaseIsBounded
<1>1. ASSUME AliasInv PROVE ChaseIsBounded
  <2>1. at # "done" =>
          IsChain(chain, visited, maxDepth, target) /\ Len(chain) = depth
    BY <1>1 DEF AliasInv, ChaseInv
  <2>2. at # "done" => Len(chain) <= Cardinality(Names)  BY <2>1, ChainIsFinite
  <2>. QED  BY <2>1, <2>2 DEF ChaseIsBounded, IsChain
<1>. QED  BY <1>1, AliasInvariant, PTL
=============================================================================
