------------------------------- MODULE Rfc1035 -------------------------------
(***************************************************************************)
(* The other ends of the wire, which are not part of the repository: how a *)
(* name server writes a message and a client reads one, by RFC 1035.       *)
(*                                                                         *)
(* Here the data of a record is what it means, as in RecordData, wherever  *)
(* in the message the labels of its names are.  A writer may replace the   *)
(* end of a name it has written before by a pointer (4.1.4), in the owners *)
(* of records and in the names within their data (3.3).                    *)
(***************************************************************************)
EXTENDS WireCodec

\* The data of some types is numbers of 16 bits and then names; that of SOA is
\* names and then numbers of 32 bits.
NumbersOf ==
  [t \in NameTypes \cup {TypeMX, TypeSRV, TypeSOA} |->
     CASE t = TypeMX -> 1 [] t = TypeSRV -> 3 [] t = TypeSOA -> 5 [] OTHER -> 0]
NamedTypes == DOMAIN NumbersOf

-----------------------------------------------------------------------------
(* What there is to write.                                                 *)

\* A number of 16 bits.
IsU16(n) == n \in Nat /\ n < 65536

\* What may be asked.
IsQuestion(q) == IsName(q.name) /\ IsU16(q.type) /\ IsU16(q.class)

\* The data of a record by its type: names that can be written, and octets.
DnsNames == {name \in AnyName : IsName(name)}
NamesData == [numbers : Seq(Nat), names : Seq(DnsNames)]
CAAData == [flag : Nat, tag : Octets, value : Octets]

IsValue(type, data) ==
  /\ type \in NamedTypes =>
       /\ data \in NamesData /\ Len(data.numbers) = NumbersOf[type]
       /\ Len(data.names) = IF type = TypeSOA THEN 2 ELSE 1
  /\ type = TypeTXT => data \in AnyName
  /\ type = TypeCAA => data \in CAAData
  /\ type \notin NamedTypes \cup {TypeTXT, TypeCAA} => data \in Octets

\* What a writer may put in a record.
IsRecord(rr) ==
  /\ IsName(rr.name) /\ rr.type \in Nat /\ rr.class \in Nat /\ rr.ttl \in Nat
  /\ IsValue(rr.type, rr.data)

\* Data whose names a decoder finds in full or not at all, one that knows no pointers:
\* the first octet of a pointer, taken for the length of a label, leads out of the data,
\* unless 191 octets come behind the pointer.  Of an SOA the first name is not the root,
\* and of a CAA the tag is not of 254 octets or more.
IsOrdinary(rr) ==
  /\ rr.type = TypeSOA => rr.data.names[1] # <<>> /\ Len(Labels(rr.data.names[2])) < 170
  /\ rr.type = TypeCAA => Len(rr.data.tag) < 254

\* A list of records.
IsSection(rrs) == rrs \in Seq(Range(rrs)) /\ \A rr \in Range(rrs) : IsRecord(rr)

\* A message, as a name server makes it.
IsMessage(m) ==
  /\ m.rcode \in Nat
  /\ IsSection(m.answers) /\ IsSection(m.authority) /\ IsSection(m.additional)

-----------------------------------------------------------------------------
(* Writing.                                                                *)

\* A message in the making: its octets, and where the names are that were written.
Put(w, octets) == [w EXCEPT !.octets = @ \o octets]

PutName(w, name, compress) ==
  LET Suffix(i) == SubSeq(name, i, Len(name))
      \* A pointer has 14 bits.
      known == {i \in DOMAIN name : Suffix(i) \in DOMAIN w.at /\ w.at[Suffix(i)] < 16384}
      cut == IF compress /\ known # {} THEN Min(known) ELSE Len(name) + 1
      end == IF cut > Len(name) THEN <<0>> ELSE Pointer(w.at[Suffix(cut)])
      Offset(s) == Len(w.octets) + Len(Labels(SubSeq(name, 1, Len(name) - Len(s))))
      written == {Suffix(i) : i \in 1..cut - 1}
  IN [octets |-> w.octets \o Labels(SubSeq(name, 1, cut - 1)) \o end,
      at |-> [s \in DOMAIN w.at \cup written |-> IF s \in DOMAIN w.at THEN w.at[s] ELSE Offset(s)]]

PutData(w, type, data, compress) ==
  LET \* RFC 2782 forbids it in an SRV record.
      short == compress = "all names" /\ type # TypeSRV
      Numbers(U(_)) == FlattenSeq([i \in DOMAIN data.numbers |-> U(data.numbers[i])])
      WithNames(v) ==
        LET put[i \in 0..Len(data.names)] ==
              IF i = 0 THEN v ELSE PutName(put[i - 1], data.names[i], short)
        IN put[Len(data.names)]
  IN CASE type = TypeSOA -> Put(WithNames(w), Numbers(U32))
       [] type \in NamedTypes \ {TypeSOA} -> WithNames(Put(w, Numbers(U16)))
       [] type = TypeTXT -> Put(w, Labels(data))
       [] type = TypeCAA -> Put(w, <<data.flag, Len(data.tag)>> \o data.tag \o data.value)
       [] OTHER -> Put(w, data)

\* The size of the data is known once it has been written.
PutRecord(w, rr, compress) ==
  LET owner == PutName(w, rr.name, compress # "nothing")
      WithSize(size) ==
        PutData(Put(owner, U16(rr.type) \o U16(rr.class) \o U32(rr.ttl) \o U16(size)),
                rr.type, rr.data, compress)
      start == Len(owner.octets) + 10
  IN WithSize(Len(WithSize(0).octets) - start)

PutRecords(w, rrs, compress) ==
  LET put[i \in 0..Len(rrs)] == IF i = 0 THEN w ELSE PutRecord(put[i - 1], rrs[i], compress)
  IN put[Len(rrs)]

PutQuestion(w, q) == Put(PutName(w, q.name, FALSE), U16(q.type) \o U16(q.class))

Header(id, flags, counts) ==
  [octets |-> U16(id) \o U16(flags) \o U16(counts[1]) \o U16(counts[2])
                \o U16(counts[3]) \o U16(counts[4]),
   at |-> <<>>]

\* A query, with or without the OPT record of EDNS.
WriteQuery(id, q, edns) ==
  LET opt == [name |-> <<>>, type |-> TypeOPT, class |-> 1232, ttl |-> 0, data |-> <<>>]
      additional == IF edns THEN <<opt>> ELSE <<>>
  IN PutRecords(PutQuestion(Header(id, 256, <<1, 0, 0, Len(additional)>>), q),
                additional, "nothing").octets

\* The answer m of a server to a query with this id and question.
WriteResponse(id, q, m) ==
  LET counts == <<1, Len(m.answers), Len(m.authority), Len(m.additional)>>
      head == PutQuestion(Header(id, 33152 + m.rcode, counts), q)
  IN PutRecords(head, m.answers \o m.authority \o m.additional, m.compress).octets

-----------------------------------------------------------------------------
(* Reading.                                                                *)

\* The name at an offset of a message by the rules, and the offset after it: labels
\* of 1 to 63 octets, and then a zero or a pointer to an earlier name.
NameAt(data, offset) ==
  LET size == Len(data)
      name[o \in 0..size] ==
        IF o = size THEN Error
        ELSE IF At(data, o) = 0 THEN [ok |-> TRUE, name |-> <<>>, next |-> o + 1]
        ELSE IF At(data, o) <= MaxLabel
          THEN IF o + 1 + At(data, o) > size THEN Error
               ELSE LET rest == name[o + 1 + At(data, o)]
                    IN IF ~ rest.ok THEN Error
                       ELSE [rest EXCEPT !.name = <<SubSeq(data, o + 2, o + 1 + At(data, o))>> \o @]
        ELSE IF o + 1 = size \/ U16At(data, o) - 49152 \notin 0..o - 1 THEN Error
        ELSE LET suffix == name[U16At(data, o) - 49152]
             IN IF suffix.ok THEN [suffix EXCEPT !.next = o + 2] ELSE Error
  IN name[offset]

ReadName(data, offset) == NameAt(data, offset).name
NameEnd(data, offset) == NameAt(data, offset).next

\* The data of a record, which begins at an offset.
ReadData(data, offset, type, size) ==
  LET octets == SubSeq(data, offset + 1, offset + size)
      second == NameEnd(data, offset)
      \* From an offset in them on.
      strings[o \in Nat] ==
        IF o >= size THEN <<>>
        ELSE <<SubSeq(octets, o + 2, o + 1 + At(octets, o))>> \o strings[o + 1 + At(octets, o)]
  IN CASE type = TypeSOA ->
            [names |-> <<ReadName(data, offset), ReadName(data, second)>>,
             numbers |-> [i \in 1..5 |-> U32At(data, NameEnd(data, second) + 4 * (i - 1))]]
       [] type \in NamedTypes \ {TypeSOA} ->
            [numbers |-> [i \in 1..NumbersOf[type] |-> U16At(data, offset + 2 * (i - 1))],
             names |-> <<ReadName(data, offset + 2 * NumbersOf[type])>>]
       [] type = TypeTXT -> strings[0]
       [] type = TypeCAA ->
            [flag |-> octets[1], tag |-> SubSeq(octets, 3, 2 + octets[2]),
             value |-> SubSeq(octets, 3 + octets[2], size)]
       [] OTHER -> octets

\* The meaning of data does not depend on the letter case of its names.
Meaning(type, data) ==
  IF type \in NamedTypes
  THEN [data EXCEPT !.names = [i \in DOMAIN @ |-> Canonical(@[i])]] ELSE data

\* The records of a section of n that begins at an offset.
ReadRecords(data, offset, n) ==
  LET Rr(o) ==
        LET fixed == NameEnd(data, o)
            type == U16At(data, fixed)
        IN [name |-> Canonical(ReadName(data, o)), type |-> type,
            class |-> U16At(data, fixed + 2), ttl |-> U32At(data, fixed + 4),
            data |-> Meaning(type, ReadData(data, fixed + 10, type, U16At(data, fixed + 8)))]
      start[i \in 1..n + 1] ==
        IF i = 1 THEN offset
        ELSE LET fixed == NameEnd(data, start[i - 1])
             IN fixed + 10 + U16At(data, fixed + 8)
  IN [i \in 1..n |-> Rr(start[i])]

\* A query or a response: its ID, its one question, and its answers.
ReadMessage(data) ==
  LET end == NameEnd(data, HeaderSize)
  IN [id |-> U16At(data, 0),
      question |-> [name |-> ReadName(data, HeaderSize), type |-> U16At(data, end),
                    class |-> U16At(data, end + 2)],
      answers |-> ReadRecords(data, end + 4, U16At(data, 6))]
=============================================================================
