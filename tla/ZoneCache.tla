------------------------------ MODULE ZoneCache ------------------------------
(***************************************************************************)
(* repos/zonecache/zonecache.go, and how repos/zone and main fill it: the  *)
(* records the server is authoritative for.                                *)
(*                                                                         *)
(* Zones are stored under their root and looked up under the apex domain   *)
(* of the name asked for, which comes from the public suffix list and not  *)
(* from the zones.  Every operation holds the lock throughout, so each is  *)
(* one step.  Names are canonical, as the loader and CacheKey make them.   *)
(* Parsing is left out: a file that cannot be parsed keeps the server from *)
(* starting.                                                               *)
(***************************************************************************)
EXTENDS Integers, SequencesExt

CONSTANTS
  Names,    \* domain names
  Apex,     \* Apex[n]: GetApexDomain(n)
  Records   \* resource records: name, type, class, and text (a CNAME's target)

ASSUME ZoneAssumption ==
  /\ IsFiniteSet(Names)
  /\ Apex \in [Names -> Names]
  /\ \A r \in Records : r.name \in Names

VARIABLE zones  \* zones[root][key]: the records of a zone, by cache key

\* CacheKey: its zone part is a function of the name. The code writes all classes
\* it does not know alike, but no record has one of those.
CacheKey(name, type, class) == <<name, type, class>>
KeyOf(r) == CacheKey(r.name, r.type, r.class)

\* The records with key k, in their order.
OfKey(rs, k) ==
  FlattenSeq([i \in DOMAIN rs |-> IF KeyOf(rs[i]) = k THEN <<rs[i]>> ELSE <<>>])

\* The records of a zone by cache key; each list keeps their order.
ByKey(rs) == [k \in {KeyOf(rs[i]) : i \in DOMAIN rs} |-> OfKey(rs, k)]

\* Seeded bug: the records of the zone are not replaced but added to.
PutZoneMergeBug(root, rs) ==
  zones' = [z \in DOMAIN zones \cup {root} |->
              IF z # root THEN zones[z]
              ELSE IF root \in DOMAIN zones THEN ByKey(rs) @@ zones[root] ELSE ByKey(rs)]

PutZone(root, rs) ==
  zones' = [z \in DOMAIN zones \cup {root} |-> IF z = root THEN ByKey(rs) ELSE zones[z]]

RemoveZone(root) == zones' = [z \in DOMAIN zones \ {root} |-> zones[z]]

\* The records found, <<>> if there are none.
FindRecords(name, type, class) ==
  LET zone == Apex[name]
      key == CacheKey(name, type, class)
  IN IF zone \in DOMAIN zones /\ key \in DOMAIN zones[zone] THEN zones[zone][key] ELSE <<>>

-----------------------------------------------------------------------------
(* Start-up.                                                               *)

\* What a zone file is read as: a root, and records whose owners need not lie under
\* it, since a label that ends in a dot is taken as it stands.
ZoneFiles == [root : Names, records : Seq(Records)]

\* Seeded bug: a file replaces what earlier files gave its root.
LoadZoneDirectoryBug(files) ==
  [root \in {f.root : f \in {g \in Range(files) : g.records # <<>>}} |->
     files[Max({i \in DOMAIN files : files[i].root = root})].records]

\* LoadZoneDirectory: the files that give a root the same zone are put together,
\* in the order of the walk; a file without records makes no zone.
LoadZoneDirectory(files) ==
  [root \in {f.root : f \in {g \in Range(files) : g.records # <<>>}} |->
     FlattenSeq([i \in DOMAIN files |->
                   IF files[i].root = root THEN files[i].records ELSE <<>>])]

\* buildRepositories puts each zone into the new cache.
CacheOf(loaded) == [root \in DOMAIN loaded |-> ByKey(loaded[root])]
=============================================================================
