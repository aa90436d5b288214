----------------------------- MODULE MCDnsCache -----------------------------
(* Small instances of DnsCache for TLC. *)
EXTENDS DnsCache, TLC

CONSTANTS k1, k2, k3, d1, d2

Rec(k, d, e) == [key |-> k, data |-> d, exp |-> e]

\* For k1 one short-lived and one longer-lived list, so that a list can be
\* replaced and can expire in part; a list for each of the other keys, which
\* compete for the places; the empty list, and lists of mixed keys.
MCOffers ==
  { {Rec(k1, d1, 0), Rec(k1, d2, 1)},
    {Rec(k1, d2, 0)},
    {Rec(k2, d1, 1)},
    {Rec(k3, d1, 1)},
    {},
    {Rec(k1, d1, 0), Rec(k2, d1, 1)}, {Rec(k1, d1, 0), Rec(k3, d1, 1)} }

\* Two versions of one key, for the runs on what concurrency can spoil.
MCOffersRace == {{Rec(k1, d, e)} : d \in {d1, d2}, e \in {0, 2}}

Symmetry == {p @@ k : p \in Permutations(Procs), k \in Permutations({k2, k3})}
=============================================================================
