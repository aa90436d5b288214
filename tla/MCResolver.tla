----------------------------- MODULE MCResolver -----------------------------
(* Small instances of Resolver for TLC. *)
EXTENDS Resolver, TLC

CONSTANTS kA, kC, kT, kZ, kB, v1, v2, MaxTtl

\* www A, www CNAME, target A; a question of the zone; a blocked question.

Datum(v, till) == [v |-> v, till |-> till]
Rr(k, v, ttl, t) == [key |-> k, ttl |-> ttl, data |-> Datum(v, t + Second * ttl)]

MCData == [v : {v1, v2}, till : 0..(MaxTime + Second * MaxTtl)] \cup {Datum(v1, Never)}
MCExpiries == 0..(MaxTime + Second * MaxTtl) \cup {Never}

\* Two generations of one record set, the second with a longer and a shorter
\* lived record.
MCToldVersions(k, t) ==
  {{Rr(k, v1, 0, t)}, {Rr(k, v1, 1, t), Rr(k, v2, 0, t)}}

\* The shapes of an answer: no records, a record set, a CNAME with the record
\* it leads to, and a CNAME alone.
MCToldShapes(k, t) ==
  IF k = kA THEN {{}, {Rr(kA, v1, 1, t)},
                  {Rr(kC, v1, 1, t), Rr(kT, v1, 1, t)}, {Rr(kC, v1, 1, t)}}
            ELSE {{}, {Rr(k, v1, 1, t)}}

\* Only an empty answer section comes with an error.
MCRcodes(rrs) == IF rrs = {} THEN {"NOERROR", "NXDOMAIN"} ELSE {"NOERROR"}

MCOffers(Tell(_, _)) ==
  UNION {UNION {{Cacheable(rrs, t) : rrs \in Tell(k, u)} :
                  k \in Questions, u \in t..MaxTime} : t \in 0..MaxTime}
MCOffersVersions == MCOffers(MCToldVersions)
MCOffersShapes == MCOffers(MCToldShapes)

\* The zone: empty, or with the records of kZ.
ZoneOf(rs) == [k \in Keys |-> IF k = kZ THEN rs ELSE {}]
ZoneRecord == [key |-> kZ, data |-> Datum(v1, Never), exp |-> Never]
MCZonesEmpty == {ZoneOf({})}
MCZones == {ZoneOf({}), ZoneOf({ZoneRecord})}

ProcSymmetry == Permutations(Procs)
=============================================================================
