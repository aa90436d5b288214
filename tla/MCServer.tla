------------------------------ MODULE MCServer ------------------------------
(* A small instance of Daemon for TLC: the zone z.t, and the names outside *)
(* w.x.t and h.x.t; every label is one letter.                             *)
EXTENDS Daemon

CONSTANTS q1, q2

Lbl(octet) == <<octet>>
\* Letters: capitals W and Z; h, n, t, w, x, z.
nW == Lbl(87)
nZ == Lbl(90)
nh == Lbl(104)
nn == Lbl(110)
nt == Lbl(116)
nw == Lbl(119)
nx == Lbl(120)
nz == Lbl(122)
NoLabel == <<>>

ZoneRoot == <<nz, nt>>
InZone == {ZoneRoot, <<nw, nz, nt>>, <<nn, nz, nt>>}
Outside == {<<nx, nt>>, <<nw, nx, nt>>, <<nh, nx, nt>>}
MCNames == InZone \cup Outside
MCApex == [n \in MCNames |-> IF n \in InZone THEN ZoneRoot ELSE <<nx, nt>>]

\* Data of a record with names in it.
Data(numbers, names) == [numbers |-> numbers, names |-> names]
Soa(server, mailbox) == Data([i \in 1..5 |-> 65537 * i], <<server, mailbox>>)
Address(i) == <<10, 0, 0, i>>
Address6 == [i \in 1..16 |-> i]
Entry(label, type, values) == [label |-> label, type |-> type, values |-> values]
File(root, entries) ==
  [supported |-> TRUE, wellFormed |-> TRUE, root |-> root, entries |-> entries]

\* Two files for one zone, its root written in two ways; a label that ends in a dot
\* and is not under the root; and files that are skipped, broken, or without a root.
FirstFile ==
  File(<<nZ, nt, NoLabel>>,
       <<Entry(AtRoot, TypeNS, <<Data(<<>>, <<<<nn, nZ, nt, NoLabel>>>>)>>),
         Entry(AtRoot, TypeSOA, <<Soa(<<nn, nZ, nt, NoLabel>>, <<nh, nz, nt>>)>>),
         Entry(<<nW>>, TypeA, <<Address(1)>>)>>)
SecondFile ==
  File(ZoneRoot, <<Entry(<<nh, nx, nt, NoLabel>>, TypeA, <<Address(9)>>),
                   Entry(<<nw>>, TypeA, <<Address(2), Address(3)>>)>>)
Skipped == [SecondFile EXCEPT !.supported = FALSE, !.wellFormed = FALSE]
Broken == [SecondFile EXCEPT !.wellFormed = FALSE]
Rootless == [SecondFile EXCEPT !.root = <<>>]

Whole == <<FirstFile, Skipped, SecondFile>>
Setting(environ, files) == [environ |-> environ, files |-> files]
MCSettings ==
  {Setting(<<>>, Whole), Setting([disable_cache |-> "true"], Whole),
   Setting([port |-> 0], Whole), Setting([servers |-> <<>>], Whole),
   Setting(<<>>, <<FirstFile, Broken>>), Setting(<<>>, <<Rootless>>)}

MCRecords == UNION {Range(FileRecords(f)) : f \in {FirstFile, SecondFile}}

ClassCH == 3
Asking(name, type) == [name |-> name, type |-> type, class |-> ClassIN]
MCIds == [q \in Queries |-> IF q = q1 THEN 258 ELSE 513]
MCQuestions ==
  [q \in Queries |->
     IF q = q1 THEN {Asking(<<nZ, nt>>, TypeNS), Asking(<<nZ, nt>>, TypeSOA),
                     Asking(<<nw, nZ, nt>>, TypeA), Asking(<<nw, nx, nt>>, TypeA),
                     [Asking(<<nw, nZ, nt>>, TypeA) EXCEPT !.class = ClassCH]}
               ELSE {Asking(<<nW, nx, nt>>, TypeA)}]

Rr(name, type, data) ==
  [name |-> name, type |-> type, class |-> ClassIN, ttl |-> 65537, data |-> data]
www == <<nw, nx, nt>>
host == <<nh, nx, nt>>
Direct == Rr(www, TypeA, Address(4))
Alias == Rr(www, TypeCNAME, Data(<<>>, <<host>>))
Target == Rr(host, TypeA, Address(5))

Message(rcode, answers, authority, additional, compress) ==
  [rcode |-> rcode, answers |-> answers, authority |-> authority,
   additional |-> additional, compress |-> compress]
Plain(answers) == Message(0, answers, <<>>, <<>>, "owners")

\* An address; an alias and its target, in either order, with the name in its data
\* compressed or not; no such name, with and without compression; EDNS; records of
\* every other type beside the answer; an answer that does not fit the buffer; an SOA
\* whose mailbox begins with the number of octets that come behind that digit; and a
\* datagram that belongs to some other query. q2 gets the first one only.
MCMessages ==
  LET Authority == Rr(<<nx, nt>>, TypeSOA, Soa(host, www))
      mailbox == <<[i \in 1..28 |-> 48]>>
      Odd == Rr(<<nx, nt>>, TypeSOA, Soa(<<>>, mailbox))
      Opt == Rr(www, TypeOPT, <<>>)
      Others == <<Rr(host, TypeMX, Data(<<10>>, <<host>>)),
                  Rr(host, TypeSRV, Data(<<1, 2, 53>>, <<host>>)),
                  Rr(host, TypeTXT, <<nt, nw>>),
                  Rr(host, TypeCAA, [flag |-> 0, tag |-> nt, value |-> nw]),
                  Rr(host, TypeAAAA, Address6)>>
      simple == {Plain(<<Direct>>)}
      others == {Plain(<<Alias, Target>>), Plain(<<Target, Alias>>),
                 Message(0, <<Alias, Target>>, <<>>, <<>>, "all names"),
                 Message(3, <<>>, <<Authority>>, <<>>, "nothing"),
                 Message(0, <<Direct>>, <<Authority>>, <<>>, "all names"),
                 Message(0, <<Direct>>, <<>>, <<Opt>>, "owners"),
                 Message(3, <<>>, <<Odd>>, <<>>, "owners"),
                 Message(0, <<Direct>>, <<>>, Others, "owners"),
                 Plain([i \in 1..8 |-> Rr(www, TypeA, Address(i))])}
  IN [q \in Queries |->
        IF q = q1
        THEN {[id |-> MCIds[q], message |-> m] : m \in simple \cup others}
               \cup {[id |-> 7, message |-> Plain(<<Direct>>)]}
        ELSE {[id |-> MCIds[q], message |-> m] : m \in simple}]

-----------------------------------------------------------------------------
(* The data of records, encoded and read again, over a few values of each  *)
(* type, at the edges of their fields.                                     *)

Value(type, value) == [type |-> type, value |-> value]
Names2 == {<<nW, nx, nt>>, <<nx, nt, NoLabel>>, <<[i \in 1..63 |-> 97]>>}
Numbers16 == {0, 255, 256, 65535}
Values ==
  {Value(TypeA, Address(i)) : i \in {0, 255}} \cup {Value(TypeAAAA, Address6)}
    \cup {Value(t, Data(<<>>, <<n>>)) : t \in NameTypes, n \in Names2}
    \cup {Value(TypeMX, Data(<<i>>, <<n>>)) : i \in Numbers16, n \in Names2}
    \cup {Value(TypeSRV, Data(<<i, 1, j>>, <<n>>)) : i, j \in Numbers16, n \in Names2}
    \cup {Value(TypeSOA, Soa(n, o)) : n, o \in Names2}
    \cup {Value(TypeTXT, <<s>>) : s \in {nt, [i \in 1..255 |-> 97]}}
    \cup {Value(TypeTXT, <<nt, nw>>)}
    \cup {Value(TypeCAA, [flag |-> i, tag |-> nt, value |-> s]) : i \in {0, 128}, s \in {<<>>, nw}}
    \cup {Value(TypeANY, nt)}

TooLong ==
  {Value(TypeA, Address6), Value(TypeAAAA, Address(1)), Value(TypeMX, Data(<<65536>>, <<ZoneRoot>>)),
   Value(TypeMX, Data(<<-1>>, <<ZoneRoot>>)), Value(TypeSRV, Data(<<1, 2>>, <<ZoneRoot>>)),
   Value(TypeNS, Data(<<>>, <<<<[i \in 1..64 |-> 97]>>>>)), Value(TypeTXT, <<>>),
   Value(TypeTXT, <<[i \in 1..256 |-> 97]>>),
   Value(TypeCAA, [flag |-> 256, tag |-> nt, value |-> nw]), Value(TypeOPT, nt)}

\* What is encoded can be read again, by rrdata itself and by RFC 1035, which finds
\* the same meaning in it; and a value that does not fit is an error.
ASSUME DataKept ==
  /\ \A v \in Values :
       LET octets == EncodeData(v.type, v.value)
       IN /\ IsReadable(v.type, octets)
          /\ Meaning(v.type, ReadData(octets, 0, v.type, Len(octets))) = Meaning(v.type, v.value)
  /\ \A v \in TooLong : EncodeData(v.type, v.value) = <<>>

\* The records of the instance are such as no decoder mistakes.
ASSUME AnswersOrdinary == OrdinaryAnswers
=============================================================================
