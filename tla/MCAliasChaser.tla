---------------------------- MODULE MCAliasChaser ----------------------------
(* Small instances of AliasChaser for TLC. *)
EXTENDS AliasChaser

CONSTANTS a, b, c, d, addr, addr2

\* Names a and b are in zone a, c is a zone of its own, d is not local.
MCApex == [n \in {a, b, c, d} |-> IF n = b THEN a ELSE n]

Addr(n, x) == [name |-> n, type |-> "A", class |-> "IN", text |-> x]
Cname(n, x) == [name |-> n, type |-> "CNAME", class |-> "IN", text |-> x]

MCRecords == {Addr(n, x) : n \in Names, x \in {addr, addr2}}
               \cup {Cname(n, x) : n \in Names, x \in Names \cup {Nowhere}}

\* What a zone says of one name: nothing, an address, or one alias.
Entries(n) == {<<>>, <<Addr(n, addr)>>} \cup {<<Cname(n, x)>> : x \in Names}

\* Zone a comes from two files, the second with two addresses, an alias beside an
\* address, a useless alias, or a record of another zone.
MCDirectories ==
  {<<[root |-> a, records |-> x], [root |-> c, records |-> z],
     [root |-> a, records |-> y]>> :
     x \in Entries(a),
     y \in Entries(b) \cup {<<Addr(b, addr), Addr(b, addr2)>>, <<Addr(b, addr), Cname(b, c)>>,
                           <<Cname(b, Nowhere)>>, <<Addr(c, addr2), Addr(b, addr)>>},
     z \in Entries(c)}

MCReloads ==
  { [root |-> a, records |-> <<>>],
    [root |-> a, records |-> <<Cname(a, b), Cname(b, a)>>],
    [root |-> c, records |-> <<Addr(c, addr2)>>] }

\* A server has nothing, an address, or the rest of a chain.
MCUpstream(n, t) == {<<>>, <<Addr(n, addr)>>, <<Cname(n, a), Addr(a, addr2)>>}
=============================================================================
