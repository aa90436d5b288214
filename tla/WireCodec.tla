------------------------------ MODULE WireCodec ------------------------------
(***************************************************************************)
(* gateways/wire: DNS messages as octets, and what encodes and decodes     *)
(* them.                                                                   *)
(*                                                                         *)
(* A message is a sequence of octets; <<>> stands for an error, as no      *)
(* message is empty.  A pointer leads to an earlier name other than the    *)
(* root, as RFC 1035 4.1.4 has it.                                         *)
(***************************************************************************)
EXTENDS RecordData

CONSTANT BufferSize  \* the octets of a datagram a reader takes: 512

ASSUME CodecAssumption == BufferSize \in Nat

Error == [ok |-> FALSE]
NoMessage == <<>>
HeaderSize == 12

\* The read of a datagram from a socket: what does not fit is gone.
Read(datagram) ==
  IF Len(datagram) > BufferSize THEN SubSeq(datagram, 1, BufferSize) ELSE datagram

U16At(data, o) == At(data, o) * 256 + At(data, o + 1)
U32At(data, o) == U16At(data, o) * 65536 + U16At(data, o + 2)

-----------------------------------------------------------------------------
(* Names.                                                                  *)

\* The encoder of the wire package, of which a name may end in two zeros.
EncodeDomainName(name) == IF LabelsFit(name) THEN Labels(name) \o <<0>> ELSE NoMessage

\* The name at an offset, and the offset after it: a loop over the labels, which at
\* a pointer calls itself. No name has more pointers than octets; those that lead
\* round in circles are not in the models.
DecodeName(data, offset) ==
  LET size == Len(data)
      name[pointers \in 0..size] ==
        LET labels[o \in 0..size] ==
              IF o = size THEN Error
              ELSE IF At(data, o) = 0 THEN [ok |-> TRUE, name |-> <<>>, next |-> o + 1]
              ELSE IF At(data, o) >= 192
                THEN IF o + 1 = size \/ U16At(data, o) % 16384 >= size \/ pointers = 0 THEN Error
                     ELSE LET suffix == name[pointers - 1][U16At(data, o) % 16384]
                          IN IF suffix.ok THEN [suffix EXCEPT !.next = o + 2] ELSE Error
              ELSE IF o + 1 + At(data, o) > size THEN Error
              ELSE LET rest == labels[o + 1 + At(data, o)]
                   IN IF ~ rest.ok THEN Error
                      ELSE [rest EXCEPT !.name = <<SubSeq(data, o + 2, o + 1 + At(data, o))>> \o @]
        IN labels
  IN IF offset > size THEN Error ELSE name[size][offset]

-----------------------------------------------------------------------------
(* Queries.                                                                *)

\* EncodeQuery: it leaves out empty labels, and sets RD.
EncodeQuery(q) ==
  IF ~ LabelsFit(q.name) THEN NoMessage
  ELSE U16(q.id) \o U16(256) \o U16(1) \o U16(0) \o U16(0) \o U16(0)
         \o Labels(NonEmpty(q.name)) \o <<0>>
         \o U16(q.type) \o U16(q.class)

\* Seeded bug: a question at the very end of the message is taken for cut off.
DecodeQuestionBug(data, offset) ==
  LET n == DecodeName(data, offset)
  IN IF ~ n.ok \/ n.next + 4 >= Len(data) THEN Error
     ELSE [ok |-> TRUE, question |->
             [id |-> U16At(data, 0), name |-> n.name, type |-> U16At(data, n.next),
              class |-> U16At(data, n.next + 2)]]

\* The question at an offset, with the ID of the message.
DecodeQuestion(data, offset) ==
  LET n == DecodeName(data, offset)
  IN IF ~ n.ok \/ n.next + 4 > Len(data) THEN Error
     ELSE [ok |-> TRUE, question |->
             [id |-> U16At(data, 0), name |-> n.name, type |-> U16At(data, n.next),
              class |-> U16At(data, n.next + 2)]]

DecodeQuery(data) ==
  IF Len(data) < HeaderSize \/ U16At(data, 4) # 1 THEN Error
  ELSE DecodeQuestion(data, HeaderSize)

-----------------------------------------------------------------------------
(* Responses.                                                              *)

Pointer(offset) == U16(49152 + offset)

\* Seeded bug: every answer points at the name of the question.
OwnerBug(rr, answers) == Pointer(HeaderSize)

\* The owner of an answer: the name of the question, by a pointer, if it is the
\* owner of the first answer.
Owner(rr, answers) ==
  IF rr.name = Head(answers).name THEN Pointer(HeaderSize) ELSE EncodeDomainName(rr.name)

\* An answer; the clock that makes of its expiry a TTL is part of Resolver.
EncodeAnswer(rr, answers) ==
  Owner(rr, answers) \o U16(rr.type) \o U16(rr.class) \o U32(rr.ttl)
    \o U16(Len(rr.data)) \o rr.data

\* EncodeResponse: the flags are constant, and resp.rcode is not looked at.
EncodeResponse(resp) ==
  LET q == resp.question
      answers == resp.answers
      fits == /\ Len(answers) <= 65535
              /\ LabelsFit(q.name)
              /\ \A i \in DOMAIN answers :
                   /\ answers[i].name = answers[1].name \/ LabelsFit(answers[i].name)
                   /\ Len(answers[i].data) <= 65535
  IN IF ~ fits THEN NoMessage
     ELSE U16(resp.id) \o U16(33152) \o U16(1) \o U16(Len(answers)) \o U16(0) \o U16(0)
            \o EncodeDomainName(q.name) \o U16(q.type) \o U16(q.class)
            \o FlattenSeq([i \in DOMAIN answers |-> EncodeAnswer(answers[i], answers)])

\* The fields of a record after its name n. The data must be readable, and the
\* record be valid.
ParseFields(data, n) ==
  LET size == Len(data)
      start == n.next + 10
      end == start + U16At(data, n.next + 8)
      rr == [name |-> Canonical(n.name), type |-> U16At(data, n.next),
             class |-> U16At(data, n.next + 2), ttl |-> U32At(data, n.next + 4),
             data |-> SubSeq(data, start + 1, end)]
  IN IF start > size THEN Error
     ELSE IF end > size THEN Error
     ELSE IF ~ IsReadable(rr.type, rr.data) THEN Error
     ELSE IF ~ IsValidRecord(rr) THEN Error
     ELSE [ok |-> TRUE, rr |-> rr, next |-> end]

\* parseResourceRecord.
ParseResourceRecord(data, offset) ==
  LET n == DecodeName(data, offset)
  IN IF offset + 10 > Len(data) \/ ~ n.ok THEN Error ELSE ParseFields(data, n)

\* Decoding the record at an offset panics, in the decoder of its data.
RecordPanics(data, offset) ==
  LET n == DecodeName(data, offset)
      start == n.next + 10
      end == start + U16At(data, n.next + 8)
  IN /\ offset + 10 <= Len(data) /\ n.ok /\ start <= Len(data) /\ end <= Len(data)
     /\ DataPanics(U16At(data, n.next), SubSeq(data, start + 1, end))

\* n records from an offset on.
ParseSection(data, offset, n) ==
  LET section[i \in 0..n] ==
        IF i = 0 THEN [ok |-> TRUE, rrs |-> <<>>, next |-> offset]
        ELSE LET before == section[i - 1]
                 r == ParseResourceRecord(data, before.next)
             IN IF ~ before.ok THEN Error
                ELSE IF ~ r.ok THEN Error
                ELSE [ok |-> TRUE, rrs |-> Append(before.rrs, r.rr), next |-> r.next]
  IN section[n]

\* The questions are skipped, label by label; -1 if they are cut off.
SkipQuestions(data, n) ==
  LET name[o \in Nat] ==
        IF o >= Len(data) THEN -1
        ELSE IF At(data, o) = 0 THEN o + 1 ELSE name[o + 1 + At(data, o)]
      skip[i \in 0..n] ==
        IF i = 0 THEN HeaderSize
        ELSE LET o == skip[i - 1] IN IF o = -1 THEN -1
             ELSE LET end == name[o] IN IF end = -1 THEN -1 ELSE end + 4
  IN skip[n]

\* DecodeResponse does not return: it comes to a record that panics, in any section,
\* after records that can be read.
DecodePanics(data, expectedID) ==
  /\ Len(data) >= HeaderSize /\ U16At(data, 0) = expectedID
  /\ LET offset == SkipQuestions(data, U16At(data, 4))
         count == U16At(data, 6) + U16At(data, 8) + U16At(data, 10)
     IN /\ offset # -1
        /\ \E n \in 0..count - 1 :
             LET before == ParseSection(data, offset, n)
             IN before.ok /\ RecordPanics(data, before.next)

\* Seeded bug: the sections after the answers are not read.
DecodeResponseBug(data, expectedID) ==
  IF Len(data) < HeaderSize THEN Error
  ELSE LET offset == SkipQuestions(data, U16At(data, 4))
           answers == ParseSection(data, offset, U16At(data, 6))
       IN IF U16At(data, 0) # expectedID THEN Error
          ELSE IF offset = -1 THEN Error
          ELSE IF ~ answers.ok THEN Error
          ELSE [ok |-> TRUE, rcode |-> U16At(data, 2) % 16, answers |-> answers.rrs]

\* What DecodeResponse returns, if it does: one record that cannot be read, in any
\* section, is an error of the whole. Only the answers are used.
DecodeResponse(data, expectedID) ==
  IF Len(data) < HeaderSize THEN Error
  ELSE LET offset == SkipQuestions(data, U16At(data, 4))
           answers == ParseSection(data, offset, U16At(data, 6))
           authority == ParseSection(data, answers.next, U16At(data, 8))
           additional == ParseSection(data, authority.next, U16At(data, 10))
       IN IF U16At(data, 0) # expectedID THEN Error
          ELSE IF offset = -1 THEN Error
          ELSE IF ~ answers.ok THEN Error
          ELSE IF ~ authority.ok THEN Error
          ELSE IF ~ additional.ok THEN Error
          ELSE [ok |-> TRUE, rcode |-> U16At(data, 2) % 16, answers |-> answers.rrs]
=============================================================================
