----------------------------- MODULE RecordData -----------------------------
(***************************************************************************)
(* common/rrdata, with the types and classes of domain: the data of a      *)
(* record as octets, and what encodes and decodes it.                      *)
(*                                                                         *)
(* Octets are numbers, and <<>> stands for an error of an encoder.  A name *)
(* is the sequence of its labels (strings.Split at the dots, and the empty *)
(* name is <<>>), a label the sequence of its octets, none of them a dot.  *)
(* Offsets count from 0, as in the code.                                   *)
(*                                                                         *)
(* The value a zone file gives, and what data means, by type:              *)
(*   A, AAAA   the octets of the address (an IPv4 address has 4)           *)
(*   TXT       the sequence of its segments, as octets                     *)
(*   CAA       [flag, tag, value]                                          *)
(*   others    [numbers, names], the fields of the text that are numbers   *)
(*             (-1 for one that is none or does not fit) and those that are names          *)
(***************************************************************************)
EXTENDS Integers, SequencesExt

TypeA == 1
TypeNS == 2
TypeCNAME == 5
TypeSOA == 6
TypePTR == 12
TypeMX == 15
TypeTXT == 16
TypeAAAA == 28
TypeSRV == 33
TypeOPT == 41
TypeCAA == 257
TypeANY == 255

NameTypes == {TypeNS, TypeCNAME, TypePTR}
\* NAPTR, OPT, DS, RRSIG, NSEC, DNSKEY, TLSA, SVCB, HTTPS: no encoder, no decoder.
NotImplemented == {35, 41, 43, 46, 47, 48, 52, 64, 65}
Types == NameTypes \cup NotImplemented
           \cup {TypeA, TypeSOA, TypeMX, TypeTXT, TypeAAAA, TypeSRV, TypeANY, TypeCAA}

\* Octets, and names with labels of any length. A name by RFC 1035 has labels of 1 to
\* 63 octets.
Octets == Seq(Nat)
AnyName == Seq(Octets)

ClassIN == 1
Classes == {1, 3, 4, 254, 255}

\* ResourceRecord.Validate. Text, the decoded data, is empty if the data is.
IsValidRecord(rr) ==
  rr.name # <<>> /\ rr.type \in Types /\ rr.class \in Classes /\ rr.data # <<>>

U16(v) == <<v \div 256, v % 256>>
U32(v) == U16(v \div 65536) \o U16(v % 65536)

At(data, o) == data[o + 1]

-----------------------------------------------------------------------------
(* Names.                                                                  *)

Lower(octet) == IF octet \in 65..90 THEN octet + 32 ELSE octet

\* CanonicalDNSName: in lower case and without dots (empty labels) at the end.
Canonical(name) ==
  LET labels == {i \in DOMAIN name : name[i] # <<>>}
      lower == [i \in DOMAIN name |-> [j \in DOMAIN name[i] |-> Lower(name[i][j])]]
  IN IF labels = {} THEN <<>> ELSE SubSeq(lower, 1, Max(labels))

MaxLabel == 63

LabelsFit(name) == \A i \in DOMAIN name : Len(name[i]) <= MaxLabel
IsName(name) == name \in AnyName /\ \A i \in DOMAIN name : Len(name[i]) \in 1..MaxLabel

\* Without empty labels.
NonEmpty(labels) ==
  FlattenSeq([i \in DOMAIN labels |-> IF labels[i] = <<>> THEN <<>> ELSE <<labels[i]>>])

Labels(name) == FlattenSeq([i \in DOMAIN name |-> <<Len(name[i])>> \o name[i]])

\* encodeDomainName of rrdata, which leaves out empty labels.
EncodePlainName(name) == Labels(NonEmpty(Canonical(name))) \o <<0>>

\* Seeded bug: a label that is cut off is taken as it stands.
LabelsEndBug(data, offset) ==
  LET end[o \in offset..Len(data)] ==
        IF o = Len(data) \/ At(data, o) = 0 THEN o
        ELSE IF o + 1 + At(data, o) > Len(data) THEN Len(data)
        ELSE end[o + 1 + At(data, o)]
  IN IF offset > Len(data) THEN -1 ELSE end[offset]

\* decodeDomainName, which knows no pointers: where the labels that begin at an
\* offset end, at a zero or with the data; -1 if the last one is cut off.
LabelsEnd(data, offset) ==
  LET end[o \in offset..Len(data)] ==
        IF o = Len(data) \/ At(data, o) = 0 THEN o
        ELSE IF o + 1 + At(data, o) > Len(data) THEN -1
        ELSE end[o + 1 + At(data, o)]
  IN IF offset > Len(data) THEN -1 ELSE end[offset]

-----------------------------------------------------------------------------
(* Encoding: an encoder for each type, and rrdata.Encode.                  *)

\* What the text of a value may be.
IsText(type, value) ==
  /\ type \in NameTypes \cup {TypeMX, TypeSRV, TypeSOA} =>
       value.numbers \in Seq(Int) /\ value.names \in Seq(AnyName)
  /\ type = TypeTXT => value \in AnyName
  /\ type = TypeCAA => value.flag \in Int /\ value.tag \in Octets /\ value.value \in Octets
  /\ type \notin NameTypes \cup {TypeMX, TypeSRV, TypeSOA, TypeTXT, TypeCAA} => value \in Octets

NameFields(value) == FlattenSeq([i \in DOMAIN value.names |-> EncodePlainName(value.names[i])])
Fields16(value) == FlattenSeq([i \in DOMAIN value.numbers |-> U16(value.numbers[i])])
Fields32(value) == FlattenSeq([i \in DOMAIN value.numbers |-> U32(value.numbers[i])])

\* The text of the value has so many numbers within a range, and names that fit.
HasFields(value, numbers, range, names) ==
  /\ Len(value.numbers) = numbers /\ Range(value.numbers) \subseteq range
  /\ Len(value.names) = names
  /\ \A i \in 1..names : LabelsFit(Canonical(value.names[i]))

EncodeAData(value) == IF Len(value) = 4 THEN value ELSE <<>>
EncodeAAAAData(value) == IF Len(value) = 16 THEN value ELSE <<>>
EncodeNSData(value) == IF HasFields(value, 0, {}, 1) THEN NameFields(value) ELSE <<>>

EncodeMXData(value) ==
  IF HasFields(value, 1, 0..65535, 1) THEN Fields16(value) \o NameFields(value) ELSE <<>>

EncodeSRVData(value) ==
  IF HasFields(value, 3, 0..65535, 1) THEN Fields16(value) \o NameFields(value) ELSE <<>>

EncodeSOAData(value) ==
  IF HasFields(value, 5, Nat, 2)
  THEN NameFields(value) \o Fields32(value) ELSE <<>>

\* Empty segments are left out.
EncodeTXTData(value) ==
  LET segments == NonEmpty(value)
  IN IF \A i \in DOMAIN segments : Len(segments[i]) <= 255 THEN Labels(segments) ELSE <<>>

EncodeCAAData(value) ==
  IF value.flag \in 0..255 /\ Len(value.tag) <= 255 /\ Len(value.value) <= 255
  THEN <<value.flag, Len(value.tag)>> \o value.tag \o value.value ELSE <<>>

EncodeData(type, value) ==
  CASE type = TypeA -> EncodeAData(value)
    [] type = TypeAAAA -> EncodeAAAAData(value)
    [] type \in NameTypes -> EncodeNSData(value)
    [] type = TypeMX -> EncodeMXData(value)
    [] type = TypeSRV -> EncodeSRVData(value)
    [] type = TypeSOA -> EncodeSOAData(value)
    [] type = TypeTXT -> EncodeTXTData(value)
    [] type = TypeCAA -> EncodeCAAData(value)
    [] type \in NotImplemented -> <<>>
    [] OTHER -> value

-----------------------------------------------------------------------------
(* Decoding: which data a decoder takes.                                   *)

\* net.IP.To4 is not nil: four octets, or sixteen that map an IPv4 address.
IsIPv4(data) ==
  \/ Len(data) = 4
  \/ Len(data) = 16 /\ SubSeq(data, 1, 12) = [i \in 1..12 |-> IF i > 10 THEN 255 ELSE 0]

IsAAAAData(data) == Len(data) = 16 /\ ~ IsIPv4(data)

HasName(data, offset) == LabelsEnd(data, offset) # -1

IsMXData(data) == Len(data) >= 2 /\ HasName(data, 2)
IsSRVData(data) == Len(data) >= 6 /\ HasName(data, 6)

\* Segments have the form of labels.
IsTXTData(data) == HasName(data, 0)

\* Where decodeSOAData goes on after a name: two octets past its text, which for
\* the root is one too many.
AfterName(data, offset) ==
  LET end == LabelsEnd(data, offset) IN IF end = offset THEN offset + 2 ELSE end + 1

\* The rest of the data, from there on, is b[offset:]: a name that goes on to the end
\* of the data, without its zero, makes the offset exceed the length, and Go panics.
SOAPanics(data) ==
  LET rname == AfterName(data, 0)
  IN /\ Len(data) >= 25 /\ HasName(data, 0)
     /\ \/ rname > Len(data)
        \/ HasName(data, rname) /\ AfterName(data, rname) > Len(data)

IsSOAData(data) ==
  /\ Len(data) >= 25
  /\ HasName(data, 0)
  /\ HasName(data, AfterName(data, 0))
  /\ AfterName(data, AfterName(data, 0)) + 20 <= Len(data)

\* Of a tag of 254 octets or more, 2+tagLen is 0 or 1 in eight bits: data[2:0] panics.
CAAPanics(data) == Len(data) >= 2 /\ At(data, 1) >= 254

IsCAAData(data) == Len(data) >= 2 /\ At(data, 1) < 254 /\ Len(data) >= 2 + At(data, 1)

\* rrdata.Decode may return the text of the data, return an error, or not return.
DataPanics(type, data) ==
  \/ type = TypeSOA /\ SOAPanics(data)
  \/ type = TypeCAA /\ CAAPanics(data)

\* Can the data of a record be read?
IsReadable(type, data) ==
  CASE type = TypeA -> IsIPv4(data)
    [] type = TypeAAAA -> IsAAAAData(data)
    [] type \in NameTypes -> HasName(data, 0)
    [] type = TypeMX -> IsMXData(data)
    [] type = TypeSRV -> IsSRVData(data)
    [] type = TypeSOA -> IsSOAData(data)
    [] type = TypeTXT -> IsTXTData(data)
    [] type = TypeCAA -> IsCAAData(data)
    [] OTHER -> type \notin NotImplemented
=============================================================================
