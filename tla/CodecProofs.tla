---------------------------- MODULE CodecProofs ----------------------------
(***************************************************************************)
(* Proofs about the octets of messages: what a reader finds in what was    *)
(* written, for names, questions and records of any kind and length, and   *)
(* what the decoders may make of octets from anywhere.                     *)
(***************************************************************************)
EXTENDS Rfc1035, SequenceLemmas

-----------------------------------------------------------------------------
(* Readers of names.                                                       *)

\* Octets after octets.
LEMMA ConcatOctets ==
  ASSUME NEW a \in Octets, NEW b \in Octets
  PROVE  /\ a \o b \in Octets /\ Len(a) \in Nat /\ Len(b) \in Nat
         /\ Len(a \o b) = Len(a) + Len(b)
         /\ \A i \in 1..Len(a) : (a \o b)[i] = a[i]
         /\ \A i \in 1..Len(b) : (a \o b)[Len(a) + i] = b[i]
<1>1. a \in Seq(Nat) /\ b \in Seq(Nat) /\ Len(a) \in Nat /\ Len(b) \in Nat  BY DEF Octets
<1>2. /\ a \o b \in Seq(Nat) /\ Len(a \o b) = Len(a) + Len(b)
      /\ \A i \in 1..Len(a) + Len(b) :
           (a \o b)[i] = IF i <= Len(a) THEN a[i] ELSE b[i - Len(a)]
  BY <1>1
<1>3. \A i \in 1..Len(a) : (a \o b)[i] = a[i]  BY <1>1, <1>2
<1>4. ASSUME NEW i \in 1..Len(b) PROVE (a \o b)[Len(a) + i] = b[i]
  <2>1. PICK j \in 1..Len(a) + Len(b) : j = Len(a) + i  BY <1>1
  <2>2. ~ (j <= Len(a)) /\ j - Len(a) = i  BY <1>1, <2>1
  <2>. QED  BY <1>2, <2>1, <2>2
<1>. QED  BY <1>1, <1>2, <1>3, <1>4 DEF Octets

\* What a reader of names may find.
Found == {Error} \cup [ok : {TRUE}, name : AnyName, next : Nat]

\* What a name is by what comes after it: a pointer to a name, or a label before one.
AtPointer(suffix, o) == IF suffix.ok THEN [suffix EXCEPT !.next = o + 2] ELSE Error
AtLabel(rest, label) == IF ~ rest.ok THEN Error ELSE [rest EXCEPT !.name = <<label>> \o @]
AtRoot0(o) == [ok |-> TRUE, name |-> <<>>, next |-> o + 1]

\* f reads names at the offsets up to n: at those in P there is a pointer, at those in
\* L a label, and what is at the others is given.
ReadsAs(f, n, base, P, L, succ, label) ==
  \A p \in 0..n :
    f[p] = IF p \in P THEN AtPointer(f[succ[p]], p)
           ELSE IF p \in L THEN AtLabel(f[succ[p]], label[p])
           ELSE base[p]

\* There is such a function, even if they lead round in circles.
LEMMA ReaderExists ==
  ASSUME NEW n \in Nat, NEW base \in [0..n -> Found], NEW P \in SUBSET (0..n), NEW L \in SUBSET (0..n),
         NEW succ \in [0..n -> 0..n], NEW label \in [0..n -> Octets]
  PROVE  \E f \in [0..n -> Found] : ReadsAs(f, n, base, P, L, succ, label)
<1>. DEFINE S == 0..n
            T == P \cup L
            next == [o \in T |-> succ[o]]
            Step(o, v) == IF ~ v.ok THEN Error
                          ELSE IF o \in P THEN [v EXCEPT !.next = o + 2]
                          ELSE [v EXCEPT !.name = <<label[o]>> \o @]
            step == [x \in T \X Found |-> Step(x[1], x[2])]
<1>1. T \in SUBSET S /\ next \in [T -> S] /\ Error \in Found  BY DEF Found
<1>2. base \in [S -> Found]  OBVIOUS
<1>3. ASSUME NEW o \in T, NEW v \in Found PROVE Step(o, v) \in Found
  <2>1. CASE v = Error  BY <2>1 DEF Error, Found
  <2>2. CASE v # Error
    <3>1. v \in [ok : {TRUE}, name : AnyName, next : Nat]  BY <2>2 DEF Found
    <3>2. <<label[o]>> \o v.name \in AnyName  BY <3>1 DEF AnyName
    <3>3. o + 2 \in Nat  OBVIOUS
    <3>4. Step(o, v) \in [ok : {TRUE}, name : AnyName, next : Nat]  BY <3>1, <3>2, <3>3
    <3>. QED  BY <3>4 DEF Found
  <2>. QED  BY <2>1, <2>2
<1>4. step \in [T \X Found -> Found]  BY <1>3
<1>5. \A o \in T : step[<<o, Error>>] = Error  BY <1>1 DEF Error
<1>6. \A o \in T, v \in Found : step[<<o, v>>] = Step(o, v)  OBVIOUS
<1>. HIDE DEF S, T, next, step, Step
<1>7. PICK f \in [S -> Found] : Follows(f, S, T, next, base, step)
  <2>1. T \in SUBSET S  BY <1>1
  <2>2. next \in [T -> S]  BY <1>1
  <2>3. Error \in Found  BY <1>1
  <2>. HIDE DEF Found
  <2>4. AreRules(S, T, Found, Error, next, base, step)
    BY <2>1, <2>2, <2>3, <1>2, <1>4, <1>5 DEF AreRules
  <2>. QED  BY <2>4, FollowsExists
<1>8. \A o \in S : f[o] = IF o \in T THEN step[<<o, f[next[o]]>>] ELSE base[o]
  BY <1>7 DEF Follows
<1>9. ASSUME NEW o \in T PROVE f[o] = Step(o, f[succ[o]])
  <2>1. next[o] = succ[o] /\ succ[o] \in S  BY DEF next, S, T
  <2>. QED  BY <1>1, <1>6, <1>8, <2>1
<1>10. ASSUME NEW o \in 0..n
       PROVE  f[o] = IF o \in P THEN AtPointer(f[succ[o]], o)
                     ELSE IF o \in L THEN AtLabel(f[succ[o]], label[o])
                     ELSE base[o]
  <2>1. CASE o \in T  BY <1>9, <2>1 DEF T, Step, AtPointer, AtLabel
  <2>2. CASE o \notin T
    <3>1. f[o] = base[o]  BY <1>8, <2>2 DEF S
    <3>. QED  BY <2>2, <3>1 DEF T, S
  <2>. QED  BY <2>1, <2>2
<1>. QED  BY <1>7, <1>10 DEF S, ReadsAs

\* One field of what was found is replaced.
LEMMA ReplaceField ==
  ASSUME NEW r \in [ok : {TRUE}, name : AnyName, next : Nat],
         NEW b \in AnyName, NEW c \in Nat
  PROVE  /\ [r EXCEPT !.name = b] = [ok |-> r.ok, name |-> b, next |-> r.next]
         /\ [r EXCEPT !.next = c] = [ok |-> r.ok, name |-> r.name, next |-> c]
OBVIOUS

\* What comes of a name that was found, after a label.
LEMMA AtLabelFound ==
  ASSUME NEW name \in AnyName, NEW next \in Nat, NEW label \in Octets
  PROVE  AtLabel([ok |-> TRUE, name |-> name, next |-> next], label) =
           [ok |-> TRUE, name |-> <<label>> \o name, next |-> next]
<1>. DEFINE r == [ok |-> TRUE, name |-> name, next |-> next]
<1>1. /\ r \in [ok : {TRUE}, name : AnyName, next : Nat]
      /\ r.name = name /\ r.next = next /\ r.ok = TRUE
  OBVIOUS
<1>2. PICK more : more = <<label>> \o name /\ more \in AnyName
  <2>1. <<label>> \o name \in AnyName  BY DEF AnyName
  <2>. QED  BY <2>1
<1>. HIDE DEF r
<1>3. AtLabel(r, label) = [r EXCEPT !.name = more]  BY <1>1, <1>2 DEF AtLabel
<1>4. [r EXCEPT !.name = more] = [ok |-> r.ok, name |-> more, next |-> r.next]
  BY <1>1, <1>2, ReplaceField
<1>5. AtLabel(r, label) = [ok |-> TRUE, name |-> <<label>> \o name, next |-> next]
  BY <1>1, <1>2, <1>3, <1>4
<1>. QED  BY <1>5 DEF r

\* The text of a label.
LabelText(data, o) == SubSeq(data, o + 2, o + 1 + At(data, o))

-----------------------------------------------------------------------------
(* The decoder of the server.                                              *)

\* The loop of decodeName over the labels, with so many pointers to come, if before
\* is what it finds with one less.
LabelStep(data, pointers, before, f, o) ==
  IF o = Len(data) THEN Error
  ELSE IF At(data, o) = 0 THEN AtRoot0(o)
  ELSE IF At(data, o) >= 192
  THEN IF o + 1 = Len(data) \/ U16At(data, o) % 16384 >= Len(data) \/ pointers = 0 THEN Error
       ELSE AtPointer(before[U16At(data, o) % 16384], o)
  ELSE IF o + 1 + At(data, o) > Len(data) THEN Error
  ELSE AtLabel(f[o + 1 + At(data, o)], LabelText(data, o))

IsLoop(data, pointers, before, f) ==
  f = [o \in 0..Len(data) |-> LabelStep(data, pointers, before, f, o)]

Loop0(data, pointers, before) == CHOOSE f : IsLoop(data, pointers, before, f)

\* What is before a pointer, if there may be one.
IsBefore(data, pointers, before) ==
  pointers \in Nat /\ (pointers # 0 => before \in [0..Len(data) -> Found])

\* The parts of a message that a reader looks at are numbers.
LEMMA OctetsAt ==
  ASSUME NEW data \in Octets
  PROVE  /\ Len(data) \in Nat
         /\ \A o \in Nat : o < Len(data) => At(data, o) \in Nat
         /\ \A o \in Nat : o + 1 < Len(data) => U16At(data, o) \in Nat
<1>1. Len(data) \in Nat /\ \A i \in 1..Len(data) : data[i] \in Nat  BY DEF Octets
<1>2. ASSUME NEW o \in Nat, o < Len(data) PROVE At(data, o) \in Nat
  <2>1. PICK i \in 1..Len(data) : i = o + 1  BY <1>1, <1>2
  <2>. QED  BY <1>1, <2>1 DEF At
<1>3. ASSUME NEW o \in Nat, o + 1 < Len(data) PROVE U16At(data, o) \in Nat
  <2>1. PICK a \in Nat, b \in Nat : a = At(data, o) /\ b = At(data, o + 1)
    BY <1>1, <1>2, <1>3
  <2>. QED  BY <2>1 DEF U16At
<1>. QED  BY <1>1, <1>2, <1>3

\* The text of a label that is not cut off.
LEMMA LabelTextType ==
  ASSUME NEW data \in Octets, NEW o \in Nat, NEW l \in Nat, o + 1 + l <= Len(data),
         At(data, o) = l
  PROVE  LabelText(data, o) \in Octets
<1>1. PICK i \in Nat, j \in Nat : i = o + 2 /\ j = o + 1 + l  OBVIOUS
<1>2. \A k \in i..j : k \in 1..Len(data)  BY <1>1, OctetsAt
<1>3. \A k \in i..j : data[k] \in Nat  BY <1>2 DEF Octets
<1>4. SubSeq(data, i, j) \in Seq(Nat)  BY <1>3, SubSeqProperties
<1>. QED  BY <1>1, <1>4 DEF LabelText, Octets

\* The loop ends with a name, or with an error.
LEMMA LoopType ==
  ASSUME NEW data \in Octets, NEW pointers, NEW before, IsBefore(data, pointers, before)
  PROVE  /\ Loop0(data, pointers, before) \in [0..Len(data) -> Found]
         /\ \A o \in 0..Len(data) :
              Loop0(data, pointers, before)[o] =
                LabelStep(data, pointers, before, Loop0(data, pointers, before), o)
<1>. DEFINE n == Len(data)
            p16(o) == U16At(data, o) % 16384
            L == {o \in 0..n : /\ o # n /\ At(data, o) # 0 /\ ~ (At(data, o) >= 192)
                              /\ ~ (o + 1 + At(data, o) > n)}
            succ == [o \in 0..n |-> IF o \in L THEN o + 1 + At(data, o) ELSE 0]
            label == [o \in 0..n |-> IF o \in L THEN LabelText(data, o) ELSE <<>>]
            base == [o \in 0..n |-> IF o \in L THEN Error
                                   ELSE LabelStep(data, pointers, before, <<>>, o)]
<1>n. n \in Nat  BY OctetsAt
<1>b. pointers \in Nat /\ (pointers # 0 => before \in [0..n -> Found])  BY DEF IsBefore
<1>d. n = Len(data)  OBVIOUS
<1>e. Error \in Found  BY DEF Found
<1>l. ASSUME NEW o \in L
      PROVE  /\ At(data, o) \in Nat /\ o + 1 + At(data, o) \in 0..n /\ o + 1 + At(data, o) > o
             /\ LabelText(data, o) \in Octets
  <2>1. o \in Nat /\ o < n  BY <1>n
  <2>2. At(data, o) \in Nat  BY <2>1, OctetsAt
  <2>3. o + 1 + At(data, o) <= Len(data)  BY <1>n, <2>1, <2>2
  <2>. QED  BY <1>n, <2>1, <2>2, <2>3, LabelTextType
<1>p. ASSUME NEW v \in Found, NEW o \in Nat PROVE AtPointer(v, o) \in Found
  <2>1. CASE v = Error  BY <2>1, <1>e DEF AtPointer, Error
  <2>2. CASE v # Error
    <3>1. v \in [ok : {TRUE}, name : AnyName, next : Nat]  BY <2>2 DEF Found
    <3>2. PICK next \in Nat : next = o + 2  OBVIOUS
    <3>3. [v EXCEPT !.next = next] \in [ok : {TRUE}, name : AnyName, next : Nat]  BY <3>1
    <3>. QED  BY <3>1, <3>2, <3>3 DEF AtPointer, Found
  <2>. QED  BY <2>1, <2>2
<1>r. ASSUME NEW o \in Nat PROVE AtRoot0(o) \in Found
  BY DEF AtRoot0, Found, AnyName
<1>1. ASSUME NEW o \in 0..n, o \notin L, NEW f
      PROVE  /\ LabelStep(data, pointers, before, f, o) \in Found
             /\ LabelStep(data, pointers, before, f, o) =
                  LabelStep(data, pointers, before, <<>>, o)
  <2>1. CASE o = n \/ At(data, o) = 0  BY <2>1, <1>d, <1>e, <1>r DEF LabelStep
  <2>2. CASE o # n /\ At(data, o) # 0 /\ At(data, o) >= 192
    <3>1. CASE o + 1 = n \/ p16(o) >= n \/ pointers = 0
      BY <2>2, <3>1, <1>d, <1>e DEF LabelStep
    <3>2. CASE ~ (o + 1 = n \/ p16(o) >= n \/ pointers = 0)
      <4>1. o + 1 < n  BY <1>n, <2>2, <3>2
      <4>2. U16At(data, o) \in Nat  BY <4>1, OctetsAt
      <4>3. p16(o) \in 0..n  BY <1>n, <3>2, <4>2
      <4>4. before[p16(o)] \in Found  BY <1>b, <3>2, <4>3
      <4>5. AtPointer(before[p16(o)], o) \in Found  BY <4>4, <1>p
      <4>. QED  BY <2>2, <3>2, <4>5, <1>d DEF LabelStep
    <3>. QED  BY <3>1, <3>2
  <2>3. CASE o # n /\ At(data, o) # 0 /\ ~ (At(data, o) >= 192)
    <3>1. o + 1 + At(data, o) > n  BY <1>1, <2>3
    <3>. QED  BY <2>3, <3>1, <1>d, <1>e DEF LabelStep
  <2>. QED  BY <2>1, <2>2, <2>3
<1>2. ASSUME NEW o \in L, NEW f
      PROVE  LabelStep(data, pointers, before, f, o) =
               AtLabel(f[o + 1 + At(data, o)], LabelText(data, o))
  BY <1>2 DEF LabelStep
<1>3. base \in [0..n -> Found]
  <2>1. \A o \in 0..n : base[o] \in Found
    <3>. HIDE DEF L
    <3>. QED  BY <1>1, <1>e
  <2>. QED  BY <2>1
<1>4. succ \in [0..n -> 0..n]
  <2>. HIDE DEF L
  <2>1. \A o \in 0..n : succ[o] \in 0..n  BY <1>l, <1>n
  <2>. QED  BY <2>1
<1>5. label \in [0..n -> Octets]
  <2>. HIDE DEF L
  <2>1. <<>> \in Octets  BY DEF Octets
  <2>. QED  BY <1>l, <2>1
<1>6. PICK h \in [0..n -> Found] : ReadsAs(h, n, base, {}, L, succ, label)
  <2>1. L \in SUBSET (0..n) /\ {} \in SUBSET (0..n)  OBVIOUS
  <2>. HIDE DEF L, base, succ, label, n
  <2>. QED  BY <1>n, <1>3, <1>4, <1>5, <2>1, ReaderExists
<1>7. IsLoop(data, pointers, before, h)
  <2>1. ASSUME NEW o \in 0..n PROVE h[o] = LabelStep(data, pointers, before, h, o)
    <3>0. h[o] = IF o \in L THEN AtLabel(h[succ[o]], label[o]) ELSE base[o]
      <4>. HIDE DEF L, base, succ, label, n
      <4>. QED  BY <1>6 DEF ReadsAs
    <3>1. CASE o \in L
      <4>1. succ[o] = o + 1 + At(data, o) /\ label[o] = LabelText(data, o)
        <5>. HIDE DEF L
        <5>. QED  BY <3>1
      <4>. HIDE DEF L, succ, label, base
      <4>. QED  BY <3>0, <3>1, <4>1, <1>2
    <3>2. CASE o \notin L
      <4>. HIDE DEF L
      <4>1. base[o] = LabelStep(data, pointers, before, <<>>, o)  BY <3>2
      <4>. HIDE DEF base
      <4>2. h[o] = base[o]  BY <3>0, <3>2
      <4>. QED  BY <3>2, <4>1, <4>2, <1>1
    <3>. QED  BY <3>1, <3>2
  <2>. HIDE DEF n
  <2>. QED  BY <2>1, <1>d DEF IsLoop
<1>. DEFINE g == Loop0(data, pointers, before)
<1>8. IsLoop(data, pointers, before, g)  BY <1>7 DEF Loop0
<1>. HIDE DEF g
<1>9. \A o \in 0..n : g[o] = LabelStep(data, pointers, before, g, o)  BY <1>8 DEF IsLoop
<1>. DEFINE T == {k \in Nat : \A o \in 0..n : n - o <= k => g[o] \in Found}
<1>. HIDE DEF L, n
<1>10. ASSUME NEW o \in 0..n, \A p \in 0..n : p > o => g[p] \in Found PROVE g[o] \in Found
  <2>1. CASE o \notin L  BY <2>1, <1>1, <1>9
  <2>2. CASE o \in L
    <3>1. PICK rest \in 0..n : rest = o + 1 + At(data, o) /\ rest > o  BY <2>2, <1>l
    <3>2. g[rest] \in Found /\ LabelText(data, o) \in Octets  BY <1>10, <2>2, <3>1, <1>l
    <3>3. g[o] = AtLabel(g[rest], LabelText(data, o))  BY <1>2, <1>9, <2>2, <3>1
    <3>4. CASE g[rest] = Error  BY <3>3, <3>4, <1>e DEF AtLabel, Error
    <3>5. CASE g[rest] # Error
      <4>1. g[rest] \in [ok : {TRUE}, name : AnyName, next : Nat]  BY <3>2, <3>5 DEF Found
      <4>2. PICK name \in AnyName, next \in Nat :
              g[rest] = [ok |-> TRUE, name |-> name, next |-> next]
        BY <4>1
      <4>3. g[o] = [ok |-> TRUE, name |-> <<LabelText(data, o)>> \o name, next |-> next]
        BY <3>2, <3>3, <4>2, AtLabelFound
      <4>4. <<LabelText(data, o)>> \o name \in AnyName  BY <3>2 DEF AnyName
      <4>. QED  BY <4>3, <4>4 DEF Found
    <3>. QED  BY <3>4, <3>5
  <2>. QED  BY <2>1, <2>2
<1>11. 0 \in T
  <2>1. ASSUME NEW o \in 0..n, n - o <= 0 PROVE g[o] \in Found
    BY <1>10, <2>1, <1>n
  <2>. QED  BY <2>1
<1>12. ASSUME NEW k \in Nat, k \in T PROVE k + 1 \in T
  <2>1. ASSUME NEW o \in 0..n, n - o <= k + 1 PROVE g[o] \in Found
    <3>1. \A p \in 0..n : p > o => n - p <= k  BY <2>1, <1>n
    <3>. QED  BY <3>1, <1>10, <1>12
  <2>. QED  BY <2>1
<1>13. \A k \in Nat : k \in T
  <2>. HIDE DEF T
  <2>. QED  BY <1>11, <1>12, SetInduction
<1>14. \A o \in 0..n : g[o] \in Found
  <2>1. n \in T  BY <1>13, <1>n
  <2>2. \A o \in 0..n : n - o <= n  BY <1>n
  <2>. QED  BY <2>1, <2>2
<1>15. g \in [0..n -> Found]
  <2>1. g = [o \in 0..n |-> g[o]]  BY <1>8, <1>d DEF IsLoop
  <2>. QED  BY <1>14, <2>1
<1>. QED  BY <1>9, <1>15, <1>d DEF g

\* decodeName calls itself at a pointer, within the loop.
LEMMA DecodeNameUnfold ==
  ASSUME NEW data, NEW offset
  PROVE  DecodeName(data, offset) =
           IF offset > Len(data) THEN Error
           ELSE (CHOOSE f : f = [pointers \in 0..Len(data) |->
                                   Loop0(data, pointers, f[pointers - 1])])[Len(data)][offset]
BY DEF DecodeName, Loop0, IsLoop, LabelStep, AtRoot0, AtPointer, AtLabel, LabelText

\* Levels(data)[p] finds the names with no more than p pointers.
IsLevels(data, f) ==
  f = [pointers \in 0..Len(data) |-> Loop0(data, pointers, f[pointers - 1])]
Levels(data) == CHOOSE f : IsLevels(data, f)

\* What decodeName finds from each offset on: a name or an error, which it makes of
\* what it finds after a label, and with one pointer less where a pointer leads.
LEMMA LevelsStep ==
  ASSUME NEW data \in Octets
  PROVE  /\ \A p \in 0..Len(data), o \in 0..Len(data) :
              /\ Levels(data)[p][o] \in Found
              /\ Levels(data)[p][o] =
                   LabelStep(data, p, Levels(data)[p - 1], Levels(data)[p], o)
         /\ \A o \in 0..Len(data) : DecodeName(data, o) = Levels(data)[Len(data)][o]
<1>. DEFINE n == Len(data)
            g == Levels(data)
            V == [0..n -> Found]
            first == Loop0(data, 0, <<>>)
            step == [x \in (1..n) \X V |-> Loop0(data, x[1], x[2])]
<1>n. n \in Nat  BY OctetsAt
<1>d. n = Len(data)  OBVIOUS
<1>0. \A before, other : Loop0(data, 0, before) = Loop0(data, 0, other)
  <2>1. \A before, other, f, o : LabelStep(data, 0, before, f, o) = LabelStep(data, 0, other, f, o)
    BY DEF LabelStep
  <2>2. \A before, other, f : IsLoop(data, 0, before, f) = IsLoop(data, 0, other, f)
    BY <2>1 DEF IsLoop
  <2>. QED  BY <2>2 DEF Loop0
<1>1. first \in V
  <2>1. IsBefore(data, 0, <<>>)  BY DEF IsBefore
  <2>. QED  BY <2>1, LoopType
<1>2. ASSUME NEW i \in 1..n, NEW v \in V PROVE Loop0(data, i, v) \in V
  <2>1. IsBefore(data, i, v)  BY <1>n DEF IsBefore
  <2>. QED  BY <2>1, LoopType
<1>. HIDE DEF V, first, n
<1>3. step \in [(1..n) \X V -> V]  BY <1>2
<1>4. \A i \in 1..n, v \in V : step[<<i, v>>] = Loop0(data, i, v)  OBVIOUS
<1>. HIDE DEF step
<1>5. AreSteps(n, V, first, step)  BY <1>n, <1>1, <1>3 DEF AreSteps
<1>6. PICK h \in [0..n -> V] : Recurs(h, n, first, step)  BY <1>5, RecursionExists
<1>7. IsLevels(data, h)
  <2>1. ASSUME NEW i \in 0..n PROVE h[i] = Loop0(data, i, h[i - 1])
    <3>1. CASE i = 0  BY <3>1, <1>0, <1>6 DEF Recurs, first
    <3>2. CASE i # 0
      <4>1. i \in 1..n /\ i - 1 \in 0..n  BY <3>2, <1>n
      <4>2. h[i - 1] \in V  BY <4>1
      <4>. QED  BY <4>1, <4>2, <1>4, <1>6 DEF Recurs
    <3>. QED  BY <3>1, <3>2
  <2>. QED  BY <2>1, <1>d DEF IsLevels
<1>8. IsLevels(data, g)  BY <1>7 DEF Levels
<1>9. ASSUME NEW o \in 0..n PROVE DecodeName(data, o) = g[n][o]
  <2>1. ~ (o > Len(data))  BY <1>n, <1>d
  <2>2. DecodeName(data, o) =
          (CHOOSE f : f = [pointers \in 0..Len(data) |->
                             Loop0(data, pointers, f[pointers - 1])])[Len(data)][o]
    BY <2>1, DecodeNameUnfold
  <2>. QED  BY <2>2 DEF n, Levels, IsLevels
<1>. HIDE DEF g
<1>10. \A i \in 0..n : g[i] = Loop0(data, i, g[i - 1])  BY <1>8, <1>d DEF IsLevels
<1>11. \A i \in 0..n : g[i] \in V
  <2>1. g[0] = first  BY <1>0, <1>10, <1>n DEF first
  <2>2. ASSUME NEW i \in 1..n, g[i - 1] \in V PROVE g[i] = step[<<i, g[i - 1]>>]
    <3>1. i \in 0..n  OBVIOUS
    <3>. QED  BY <2>2, <3>1, <1>4, <1>10
  <2>. QED  BY <2>1, <2>2, <1>5, RecursionType
<1>12. ASSUME NEW p \in 0..n, NEW o \in 0..n
       PROVE  g[p][o] \in Found /\ g[p][o] = LabelStep(data, p, g[p - 1], g[p], o)
  <2>1. p # 0 => p - 1 \in 0..n  BY <1>n
  <2>2. IsBefore(data, p, g[p - 1])  BY <2>1, <1>d, <1>11 DEF IsBefore, V
  <2>3. g[p] = Loop0(data, p, g[p - 1])  BY <1>10
  <2>. QED  BY <2>2, <2>3, <1>d, LoopType
<1>. QED  BY <1>9, <1>12, <1>d DEF g

\* Of the code's reader of names: one step at each kind of octet.
LEMMA DecodeNameStep ==
  ASSUME NEW data \in Octets
  PROVE  \A o \in 0..Len(data) :
           /\ DecodeName(data, o) \in Found
           /\ o # Len(data) /\ At(data, o) = 0 => DecodeName(data, o) = AtRoot0(o)
           /\ o # Len(data) /\ At(data, o) \in 1..191 /\ o + 1 + At(data, o) <= Len(data) =>
                DecodeName(data, o) =
                  AtLabel(DecodeName(data, o + 1 + At(data, o)), LabelText(data, o))
<1>. DEFINE n == Len(data)
            g == Levels(data)
<1>n. n \in Nat  BY OctetsAt
<1>d. n = Len(data)  OBVIOUS
<1>. HIDE DEF n, g
<1>9. \A o \in 0..n : DecodeName(data, o) = g[n][o]  BY <1>d, LevelsStep DEF g
<1>14. \A o \in 0..n : /\ DecodeName(data, o) \in Found
                      /\ DecodeName(data, o) = LabelStep(data, n, g[n - 1], g[n], o)
  <2>1. n \in 0..n  BY <1>n
  <2>. QED  BY <2>1, <1>9, <1>d, LevelsStep DEF g
<1>. SUFFICES ASSUME NEW o \in 0..n
              PROVE  /\ DecodeName(data, o) \in Found
                     /\ o # n /\ At(data, o) = 0 => DecodeName(data, o) = AtRoot0(o)
                     /\ o # n /\ At(data, o) \in 1..191 /\ o + 1 + At(data, o) <= n =>
                          DecodeName(data, o) =
                            AtLabel(DecodeName(data, o + 1 + At(data, o)), LabelText(data, o))
  BY <1>d
<1>15. o # n /\ At(data, o) = 0 => DecodeName(data, o) = AtRoot0(o)
  BY <1>14, <1>d DEF LabelStep
<1>16. ASSUME o # n, NEW l \in 1..191, At(data, o) = l, o + 1 + l <= n
       PROVE  DecodeName(data, o) = AtLabel(DecodeName(data, o + 1 + l), LabelText(data, o))
  <2>1. l # 0 /\ ~ (l >= 192) /\ ~ (o + 1 + l > n) /\ o + 1 + l \in 0..n  BY <1>16, <1>n
  <2>2. DecodeName(data, o) = AtLabel(g[n][o + 1 + l], LabelText(data, o))
    BY <1>14, <1>16, <2>1, <1>d DEF LabelStep
  <2>. QED  BY <2>1, <2>2, <1>9
<1>. QED  BY <1>14, <1>15, <1>16

-----------------------------------------------------------------------------
(* The reader at the other ends of the wire.                               *)

\* The name at an offset is made of what follows it, or of what it points to.
LEMMA NameAtStep ==
  ASSUME NEW data \in Octets, NEW o \in 0..Len(data)
  PROVE  NameAt(data, o) =
           IF o = Len(data) THEN Error
           ELSE IF At(data, o) = 0 THEN [ok |-> TRUE, name |-> <<>>, next |-> o + 1]
           ELSE IF At(data, o) <= MaxLabel
           THEN IF o + 1 + At(data, o) > Len(data) THEN Error
                ELSE AtLabel(NameAt(data, o + 1 + At(data, o)), LabelText(data, o))
           ELSE IF o + 1 = Len(data) \/ U16At(data, o) - 49152 \notin 0..o - 1 THEN Error
           ELSE AtPointer(NameAt(data, U16At(data, o) - 49152), o)
<1>. DEFINE n == Len(data)
            R(f, p) ==
              IF p = n THEN Error
              ELSE IF At(data, p) = 0 THEN [ok |-> TRUE, name |-> <<>>, next |-> p + 1]
              ELSE IF At(data, p) <= MaxLabel
              THEN IF p + 1 + At(data, p) > n THEN Error
                   ELSE AtLabel(f[p + 1 + At(data, p)], LabelText(data, p))
              ELSE IF p + 1 = n \/ U16At(data, p) - 49152 \notin 0..p - 1 THEN Error
              ELSE AtPointer(f[U16At(data, p) - 49152], p)
            IsReader(f) == f = [p \in 0..n |-> R(f, p)]
            g == CHOOSE f : IsReader(f)
            base == [p \in 0..n |-> IF p # n /\ At(data, p) = 0 THEN AtRoot0(p) ELSE Error]
            P == {p \in 0..n : /\ p # n /\ At(data, p) # 0 /\ ~ (At(data, p) <= MaxLabel)
                              /\ p + 1 # n /\ U16At(data, p) - 49152 \in 0..p - 1}
            L == {p \in 0..n : /\ p # n /\ At(data, p) # 0 /\ At(data, p) <= MaxLabel
                              /\ p + 1 + At(data, p) <= n}
            succ == [p \in 0..n |-> IF p \in P THEN U16At(data, p) - 49152
                                   ELSE IF p \in L THEN p + 1 + At(data, p) ELSE 0]
            label == [p \in 0..n |-> IF p \in L THEN LabelText(data, p) ELSE <<>>]
<1>n. n \in Nat  BY DEF Octets
<1>a. \A p \in 0..n : p # n => At(data, p) \in Nat  BY DEF Octets, At
<1>p. ASSUME NEW p \in P PROVE U16At(data, p) - 49152 \in 0..n
  BY <1>n
<1>l. ASSUME NEW p \in L PROVE p + 1 + At(data, p) \in 0..n
  BY <1>a, <1>n
<1>1. succ \in [0..n -> 0..n]
  <2>. HIDE DEF P, L
  <2>1. \A p \in 0..n : succ[p] \in 0..n  BY <1>p, <1>l, <1>n
  <2>. QED  BY <2>1
<1>2. label \in [0..n -> Octets]
  <2>1. ASSUME NEW p \in L PROVE LabelText(data, p) \in Octets
    BY <1>a, <1>n DEF LabelText, Octets
  <2>2. <<>> \in Octets  BY DEF Octets
  <2>. HIDE DEF L
  <2>. QED  BY <2>1, <2>2
<1>b. base \in [0..n -> Found]
  <2>1. \A p \in 0..n : AtRoot0(p) \in Found  BY DEF AtRoot0, Found, AnyName
  <2>2. Error \in Found  BY DEF Found
  <2>3. \A p \in 0..n : base[p] \in Found  BY <2>1, <2>2
  <2>. QED  BY <2>3
<1>3. PICK f \in [0..n -> Found] : ReadsAs(f, n, base, P, L, succ, label)
  <2>1. P \in SUBSET (0..n) /\ L \in SUBSET (0..n)  OBVIOUS
  <2>. HIDE DEF P, L, base, succ, label, n
  <2>. QED  BY <1>n, <1>b, <1>1, <1>2, <2>1, ReaderExists
<1>4. ASSUME NEW h, NEW p \in 0..n
      PROVE  R(h, p) = IF p \in P THEN AtPointer(h[succ[p]], p)
                       ELSE IF p \in L THEN AtLabel(h[succ[p]], label[p])
                       ELSE base[p]
  <2>1. CASE p \in P
    <3>1. succ[p] = U16At(data, p) - 49152 /\ U16At(data, p) - 49152 \in 0..p - 1
      BY <2>1, <1>p, <1>n
    <3>. QED  BY <2>1, <3>1
  <2>2. CASE p \in L
    <3>1. succ[p] = p + 1 + At(data, p) /\ label[p] = LabelText(data, p)
          /\ p \notin P /\ ~ (p + 1 + At(data, p) > n) /\ At(data, p) <= MaxLabel
      BY <2>2, <1>l, <1>n, <1>a
    <3>. QED  BY <2>2, <3>1
  <2>3. CASE p # n /\ At(data, p) = 0
    BY <2>3 DEF AtRoot0
  <2>4. CASE p \notin P /\ p \notin L /\ ~ (p # n /\ At(data, p) = 0)
    <3>2. CASE p = n  BY <2>4, <3>2
    <3>3. CASE p # n
      <4>1. At(data, p) \in Nat /\ At(data, p) # 0  BY <1>a, <2>4, <3>3
      <4>2. CASE ~ (At(data, p) <= MaxLabel)
        <5>1. p + 1 = n \/ U16At(data, p) - 49152 \notin 0..p - 1  BY <2>4, <3>3, <4>1, <4>2
        <5>. QED  BY <2>4, <3>3, <4>1, <4>2, <5>1
      <4>3. CASE At(data, p) <= MaxLabel
        <5>1. p + 1 + At(data, p) > n  BY <2>4, <3>3, <4>1, <4>3, <1>n
        <5>. QED  BY <2>4, <3>3, <4>1, <4>3, <5>1
      <4>. QED  BY <4>2, <4>3
    <3>. QED  BY <3>2, <3>3
  <2>. QED  BY <2>1, <2>2, <2>3, <2>4
<1>. HIDE DEF R, base, P, L, succ, label
<1>5. IsReader(f)
  <2>1. \A p \in 0..n : f[p] = R(f, p)  BY <1>3, <1>4 DEF ReadsAs
  <2>. QED  BY <2>1
<1>6. IsReader(g)
  <2>. HIDE DEF IsReader
  <2>. QED  BY <1>5
<1>7. NameAt(data, o) = g[o]
  BY <1>n DEF NameAt, AtPointer, AtLabel, LabelText, R
<1>8. g[o] = R(g, o)
  <2>. HIDE DEF g
  <2>. QED  BY <1>6
<1>9. ASSUME NEW p \in 0..n PROVE NameAt(data, p) = g[p]
  BY <1>n DEF NameAt, AtPointer, AtLabel, LabelText, R
<1>. HIDE DEF g
<1>10. R(g, o) = IF o = n THEN Error
           ELSE IF At(data, o) = 0 THEN [ok |-> TRUE, name |-> <<>>, next |-> o + 1]
           ELSE IF At(data, o) <= MaxLabel
           THEN IF o + 1 + At(data, o) > n THEN Error
                ELSE AtLabel(NameAt(data, o + 1 + At(data, o)), LabelText(data, o))
           ELSE IF o + 1 = n \/ U16At(data, o) - 49152 \notin 0..o - 1 THEN Error
           ELSE AtPointer(NameAt(data, U16At(data, o) - 49152), o)
  <2>1. ASSUME U16At(data, o) - 49152 \in 0..o - 1
        PROVE  NameAt(data, U16At(data, o) - 49152) = g[U16At(data, o) - 49152]
    <3>1. U16At(data, o) - 49152 \in 0..n  BY <2>1, <1>n
    <3>. QED  BY <1>9, <3>1
  <2>2. ASSUME o # n, At(data, o) # 0, ~ (o + 1 + At(data, o) > n)
        PROVE  NameAt(data, o + 1 + At(data, o)) = g[o + 1 + At(data, o)]
    <3>1. o + 1 + At(data, o) \in 0..n  BY <1>a, <1>n, <2>2
    <3>. QED  BY <1>9, <3>1
  <2>. QED  BY <2>1, <2>2 DEF R
<1>. QED  BY <1>7, <1>8, <1>10

-----------------------------------------------------------------------------
(* Where the labels of a name are.                                         *)

\* What a message begins with.
BeginsAs(first, octets) ==
  Len(first) <= Len(octets) /\ \A i \in 1..Len(first) : first[i] = octets[i]

FirstLabels(name, k) == SubSeq(name, 1, k)

\* The octets that the first k labels of a name take.
Taken(name, k) == Len(Labels(FirstLabels(name, k)))

\* The first labels of a name are a name.
LEMMA FirstLabelsType ==
  ASSUME NEW name \in AnyName, NEW k \in 0..Len(name)
  PROVE  /\ FirstLabels(name, k) \in AnyName /\ Len(FirstLabels(name, k)) = k
         /\ \A i \in 1..k : FirstLabels(name, k)[i] = name[i]
<1>1. \A i \in 1..k : name[i] \in Octets  BY DEF AnyName
<1>2. k \in Int  BY DEF AnyName
<1>. QED  BY <1>1, <1>2, SubSeqProperties DEF FirstLabels, AnyName

\* Each label with its length.
LabelParts(name) == [i \in DOMAIN name |-> <<Len(name[i])>> \o name[i]]

\* They are octets.
LEMMA LabelPartsType ==
  ASSUME NEW name \in AnyName
  PROVE  LabelParts(name) \in Seq(Octets) /\ Len(LabelParts(name)) = Len(name)
<1>. DEFINE Part(i) == <<Len(name[i])>> \o name[i]
<1>1. ASSUME NEW i \in DOMAIN name PROVE Part(i) \in Octets
  <2>1. name[i] \in Octets  BY DEF AnyName
  <2>2. <<Len(name[i])>> \in Octets  BY <2>1 DEF Octets
  <2>. QED  BY <2>1, <2>2 DEF Octets
<1>2. DOMAIN name = 1..Len(name) /\ Len(name) \in Nat  BY DEF AnyName
<1>. HIDE DEF Part
<1>3. [i \in DOMAIN name |-> Part(i)] \in [1..Len(name) -> Octets]  BY <1>1, <1>2
<1>4. [i \in DOMAIN name |-> Part(i)] \in Seq(Octets)  BY <1>2, <1>3, SeqDef
<1>5. Len([i \in DOMAIN name |-> Part(i)]) = Len(name)  BY <1>2, <1>4
<1>. QED  BY <1>4, <1>5 DEF Part, LabelParts

\* Labels are octets.
LEMMA LabelsType ==
  ASSUME NEW name \in AnyName
  PROVE  Labels(name) \in Octets
<1>1. FlattenSeq(LabelParts(name)) \in Seq(Nat)  BY LabelPartsType, FlattenType DEF Octets
<1>. QED  BY <1>1 DEF Labels, Octets, LabelParts

\* One label more.
LEMMA LabelsAppend ==
  ASSUME NEW name \in AnyName, NEW label \in Octets
  PROVE  Labels(Append(name, label)) = Labels(name) \o (<<Len(label)>> \o label)
<1>. DEFINE parts == LabelParts(name)
            last == <<Len(label)>> \o label
            more == Append(name, label)
            moreParts == LabelParts(more)
<1>2. parts \in Seq(Seq(Nat)) /\ last \in Seq(Nat) /\ Len(parts) = Len(name)
  <2>1. parts \in Seq(Octets) /\ Len(parts) = Len(name)  BY LabelPartsType
  <2>2. last \in Octets  BY DEF Octets
  <2>. QED  BY <2>1, <2>2 DEF Octets
<1>3. moreParts = Append(parts, last)
  <2>1. /\ more \in AnyName /\ DOMAIN more = 1..Len(name) + 1 /\ DOMAIN name = 1..Len(name)
        /\ more[Len(name) + 1] = label
        /\ \A i \in 1..Len(name) : more[i] = name[i]
    BY DEF AnyName
  <2>2. Len(parts) = Len(name) /\ Len(name) \in Nat  BY <1>2 DEF AnyName
  <2>3. /\ Append(parts, last) = [i \in 1..Len(name) + 1 |-> IF i = Len(name) + 1 THEN last ELSE parts[i]]
    BY <1>2, <2>2
  <2>4. \A i \in 1..Len(name) + 1 :
          <<Len(more[i])>> \o more[i] = IF i = Len(name) + 1 THEN last ELSE parts[i]
    <3>1. ASSUME NEW i \in 1..Len(name) + 1
          PROVE  <<Len(more[i])>> \o more[i] = IF i = Len(name) + 1 THEN last ELSE parts[i]
      <4>1. CASE i = Len(name) + 1  BY <2>1, <4>1
      <4>2. CASE i # Len(name) + 1
        <5>1. i \in 1..Len(name)  BY <2>2, <4>2
        <5>2. parts[i] = <<Len(name[i])>> \o name[i]  BY <2>1, <5>1 DEF LabelParts
        <5>. QED  BY <2>1, <4>2, <5>1, <5>2
      <4>. QED  BY <4>1, <4>2
    <3>. QED  BY <3>1
  <2>5. moreParts = [i \in 1..Len(name) + 1 |-> <<Len(more[i])>> \o more[i]]
    <3>. HIDE DEF more
    <3>. QED  BY <2>1 DEF LabelParts
  <2>. HIDE DEF parts, last, more, moreParts
  <2>. QED  BY <2>3, <2>4, <2>5
<1>. HIDE DEF parts, last, moreParts
<1>4. FlattenSeq(Append(parts, last)) = FlattenSeq(parts) \o last
  BY <1>2, FlattenAppend
<1>5. Labels(more) = FlattenSeq(moreParts)  BY DEF Labels, moreParts, LabelParts
<1>. HIDE DEF more
<1>6. Labels(more) = FlattenSeq(parts) \o last  BY <1>3, <1>4, <1>5
<1>. QED  BY <1>6 DEF Labels, LabelParts, parts, last, more

\* The labels up to the next one.
LEMMA LabelsNext ==
  ASSUME NEW name \in AnyName, NEW k \in Nat, k < Len(name)
  PROVE  Labels(FirstLabels(name, k + 1)) =
           Labels(FirstLabels(name, k)) \o (<<Len(name[k + 1])>> \o name[k + 1])
<1>1. Len(name) \in Nat /\ k \in 0..Len(name) /\ k + 1 \in 1..Len(name)  BY DEF AnyName
<1>2. name[k + 1] \in Octets  BY <1>1 DEF AnyName
<1>3. FirstLabels(name, k) \in AnyName  BY <1>1, FirstLabelsType
<1>4. FirstLabels(name, k + 1) = Append(FirstLabels(name, k), name[k + 1])
  <2>1. PICK j : j = k + 1  OBVIOUS
  <2>2. SubSeq(name, 1, j) = SubSeq(name, 1, j - 1) \o <<name[j]>>
    BY <1>1, <2>1, SubSeqRecursiveSecond DEF AnyName
  <2>3. j - 1 = k  BY <2>1
  <2>4. FirstLabels(name, k) \o <<name[j]>> = Append(FirstLabels(name, k), name[j])
    BY <1>2, <1>3, <2>1 DEF AnyName
  <2>. QED  BY <2>1, <2>2, <2>3, <2>4 DEF FirstLabels
<1>. QED  BY <1>2, <1>3, <1>4, LabelsAppend

\* The octets of no labels.
LEMMA NoLabels == ASSUME NEW name PROVE Labels(FirstLabels(name, 0)) = <<>>
<1>1. FirstLabels(name, 0) = <<>>  BY SubSeqEmpty DEF FirstLabels
<1>. QED  BY <1>1 DEF Labels, FlattenSeq

\* The first labels take some octets.
LEMMA TakenType ==
  ASSUME NEW name \in AnyName, NEW k \in 0..Len(name)
  PROVE  Labels(FirstLabels(name, k)) \in Octets /\ Taken(name, k) \in Nat
BY FirstLabelsType, LabelsType DEF Taken, Octets

\* The k-th label and its length come next.
LEMMA TakenNext ==
  ASSUME NEW name \in AnyName, NEW k \in Nat, k < Len(name)
  PROVE  /\ Taken(name, k + 1) = Taken(name, k) + 1 + Len(name[k + 1])
         /\ BeginsAs(Labels(FirstLabels(name, k)), Labels(FirstLabels(name, k + 1)))
         /\ At(Labels(FirstLabels(name, k + 1)), Taken(name, k)) = Len(name[k + 1])
         /\ SubSeq(Labels(FirstLabels(name, k + 1)), Taken(name, k) + 2, Taken(name, k + 1)) =
              name[k + 1]
<1>. DEFINE before == Labels(FirstLabels(name, k))
            after == Labels(FirstLabels(name, k + 1))
            label == name[k + 1]
            last == <<Len(label)>> \o label
<1>1. k \in 0..Len(name) /\ k + 1 \in 0..Len(name) /\ k + 1 \in 1..Len(name)  BY DEF AnyName
<1>2. before \in Seq(Nat) /\ after \in Seq(Nat) /\ label \in Seq(Nat)
  BY <1>1, TakenType DEF Octets, AnyName
<1>3. after = before \o last  BY LabelsNext
<1>t. Taken(name, k) = Len(before) /\ Taken(name, k + 1) = Len(after)  BY DEF Taken
<1>. HIDE DEF before, after, label
<1>4. /\ last \in Seq(Nat) /\ Len(last) = Len(label) + 1 /\ last[1] = Len(label)
      /\ \A i \in 1..Len(label) : last[i + 1] = label[i]
  BY <1>2
<1>. HIDE DEF last
<1>5. /\ Len(after) = Len(before) + 1 + Len(label)
      /\ Len(before) \in Nat /\ Len(label) \in Nat
      /\ \A i \in 1..Len(before) : after[i] = before[i]
      /\ \A i \in 1..Len(last) : after[Len(before) + i] = last[i]
  <2>1. /\ Len(before) \in Nat /\ Len(label) \in Nat
        /\ before \in Octets /\ last \in Octets
    BY <1>2, <1>4 DEF Octets
  <2>2. /\ Len(before \o last) = Len(before) + Len(last)
        /\ \A i \in 1..Len(before) : (before \o last)[i] = before[i]
        /\ \A i \in 1..Len(last) : (before \o last)[Len(before) + i] = last[i]
    BY <2>1, ConcatOctets
  <2>. QED  BY <1>3, <1>4, <2>1, <2>2
<1>6. BeginsAs(before, after)  BY <1>5 DEF BeginsAs
<1>7. At(after, Len(before)) = Len(label)
  BY <1>4, <1>5 DEF At
<1>8. SubSeq(after, Len(before) + 2, Len(after)) = label
  <2>1. ASSUME NEW i \in 1..Len(label) PROVE after[(Len(before) + 2) + i - 1] = label[i]
    <3>1. PICK j \in 1..Len(last) : j = i + 1  BY <1>4, <1>5
    <3>2. (Len(before) + 2) + i - 1 = Len(before) + j  BY <1>5, <3>1
    <3>. QED  BY <1>4, <1>5, <3>1, <3>2
  <2>2. PICK a \in Nat : a = Len(before) + 2  BY <1>5
  <2>3. /\ SubSeq(after, a, Len(after)) \in Seq(Nat)
        /\ Len(SubSeq(after, a, Len(after))) = Len(label)
        /\ \A i \in 1..Len(label) : SubSeq(after, a, Len(after))[i] = after[a + i - 1]
    <3>1. \A i \in a..Len(after) : after[i] \in Nat  BY <1>2, <1>5, <2>2
    <3>2. Len(after) \in Int /\ Len(after) - a + 1 = Len(label)  BY <1>5, <2>2
    <3>3. /\ SubSeq(after, a, Len(after)) \in Seq(Nat)
          /\ Len(SubSeq(after, a, Len(after))) =
               IF a <= Len(after) THEN Len(after) - a + 1 ELSE 0
          /\ \A i \in 1..Len(after) - a + 1 : SubSeq(after, a, Len(after))[i] = after[a + i - 1]
      BY <3>1, <3>2, SubSeqProperties
    <3>. QED  BY <1>5, <2>2, <3>2, <3>3
  <2>. QED  BY <1>2, <2>1, <2>2, <2>3, SeqEqual
<1>. QED  BY <1>5, <1>6, <1>7, <1>8, <1>t DEF before, after, label

\* The beginning of a beginning is one.
LEMMA BeginsTransitive ==
  ASSUME NEW a \in Octets, NEW b \in Octets, NEW c \in Octets, BeginsAs(a, b), BeginsAs(b, c)
  PROVE  BeginsAs(a, c)
<1>1. Len(a) \in Nat /\ Len(b) \in Nat /\ Len(c) \in Nat  BY DEF Octets
<1>. QED  BY <1>1 DEF BeginsAs

\* More octets leave the first ones as they are.
LEMMA BeginsConcat ==
  ASSUME NEW a \in Octets, NEW b \in Octets
  PROVE  BeginsAs(a, a \o b)
BY ConcatOctets DEF BeginsAs

\* The first labels of a name are the same with or without the rest.
LEMMA FirstLabelsBegin ==
  ASSUME NEW name \in AnyName, NEW m \in 0..Len(name), NEW k \in 0..m
  PROVE  BeginsAs(Labels(FirstLabels(name, k)), Labels(FirstLabels(name, m)))
<1>. DEFINE Begins(i, j) == BeginsAs(Labels(FirstLabels(name, i)), Labels(FirstLabels(name, j)))
            T == {j \in Nat : j <= Len(name) => \A i \in 0..j : Begins(i, j)}
<1>n. Len(name) \in Nat  BY DEF AnyName
<1>1. ASSUME NEW i \in 0..Len(name) PROVE Begins(i, i)
  BY DEF BeginsAs
<1>2. 0 \in T  BY <1>1, <1>n
<1>3. ASSUME NEW j \in Nat, j \in T PROVE j + 1 \in T
  <2>1. ASSUME j + 1 <= Len(name), NEW i \in 0..j + 1 PROVE Begins(i, j + 1)
    <3>1. CASE i = j + 1  BY <1>1, <2>1, <3>1, <1>n
    <3>2. CASE i # j + 1
      <4>1. i \in 0..j /\ i \in 0..Len(name) /\ j \in 0..Len(name) /\ j + 1 \in 0..Len(name)
            /\ j < Len(name)
        BY <2>1, <3>2, <1>n
      <4>2. Begins(i, j) /\ Begins(j, j + 1)  BY <1>3, <4>1, TakenNext
      <4>. QED  BY <4>1, <4>2, TakenType, BeginsTransitive
    <3>. QED  BY <3>1, <3>2
  <2>. QED  BY <2>1
<1>4. \A j \in Nat : j \in T
  <2>. HIDE DEF T
  <2>. QED  BY <1>2, <1>3, SetInduction
<1>5. m \in Nat /\ m <= Len(name)  BY <1>n
<1>. QED  BY <1>4, <1>5

\* The first m labels of a name are in octets from an offset on.
PlacedAt(octets, start, name, m) ==
  \A k \in 0..m - 1 :
    LET o == start + Taken(name, k)
    IN /\ At(octets, o) = Len(name[k + 1])
       /\ start + Taken(name, k + 1) = o + 1 + Len(name[k + 1])
       /\ start + Taken(name, k + 1) <= Len(octets)
       /\ LabelText(octets, o) = name[k + 1]

\* The labels are where they are put, if only the octets begin so.
LEMMA LabelsPlaced ==
  ASSUME NEW a \in Octets, NEW name \in AnyName, NEW m \in 0..Len(name), NEW octets \in Octets,
         BeginsAs(a \o Labels(FirstLabels(name, m)), octets)
  PROVE  PlacedAt(octets, Len(a), name, m)
<1>n. Len(name) \in Nat  BY DEF AnyName
<1>. DEFINE all == Labels(FirstLabels(name, m))
<1>1. all \in Octets /\ Taken(name, m) = Len(all) /\ Len(a) \in Nat /\ Len(all) \in Nat
      /\ Len(octets) \in Nat
  BY TakenType DEF Taken, Octets
<1>2. /\ \A i \in 1..Len(all) : octets[Len(a) + i] = all[i]
      /\ Len(a) + Len(all) <= Len(octets)
  <2>1. /\ Len(a \o all) = Len(a) + Len(all)
        /\ \A i \in 1..Len(all) : (a \o all)[Len(a) + i] = all[i]
    BY <1>1, ConcatOctets
  <2>. HIDE DEF all
  <2>2. ASSUME NEW i \in 1..Len(all) PROVE octets[Len(a) + i] = all[i]
    <3>1. Len(a) + i \in 1..Len(a \o all)  BY <1>1, <2>1
    <3>2. BeginsAs(a \o all, octets)  BY DEF all
    <3>. QED  BY <2>1, <3>1, <3>2 DEF BeginsAs
  <2>3. BeginsAs(a \o all, octets)  BY DEF all
  <2>. QED  BY <2>1, <2>2, <2>3 DEF BeginsAs
<1>. SUFFICES ASSUME NEW k \in 0..m - 1
              PROVE  LET o == Len(a) + Taken(name, k)
                     IN /\ At(octets, o) = Len(name[k + 1])
                        /\ Len(a) + Taken(name, k + 1) = o + 1 + Len(name[k + 1])
                        /\ Len(a) + Taken(name, k + 1) <= Len(octets)
                        /\ LabelText(octets, o) = name[k + 1]
  BY DEF PlacedAt
<1>. HIDE DEF all
<1>3. k \in Nat /\ k < Len(name) /\ k \in 0..Len(name) /\ k + 1 \in 0..m /\ k + 1 \in 0..Len(name)
      /\ k + 1 \in 1..Len(name)
  BY <1>n
<1>. DEFINE part == Labels(FirstLabels(name, k + 1))
<1>4. part \in Octets /\ Taken(name, k + 1) = Len(part) /\ Len(part) \in Nat
  BY <1>3, TakenType DEF Taken
<1>5. BeginsAs(part, all)  BY <1>3, FirstLabelsBegin DEF all
<1>6. /\ Taken(name, k + 1) = Taken(name, k) + 1 + Len(name[k + 1])
      /\ At(part, Taken(name, k)) = Len(name[k + 1])
      /\ SubSeq(part, Taken(name, k) + 2, Taken(name, k + 1)) = name[k + 1]
  BY <1>3, TakenNext
<1>. HIDE DEF part
<1>7. Len(name[k + 1]) \in Nat /\ Taken(name, k) \in Nat
  <2>1. name[k + 1] \in Octets  BY <1>3 DEF AnyName
  <2>. QED  BY <1>3, <2>1, TakenType DEF Octets
<1>8. Len(part) <= Len(all) /\ \A i \in 1..Len(part) : octets[Len(a) + i] = part[i]
  BY <1>1, <1>2, <1>4, <1>5 DEF BeginsAs
<1>9. PICK t \in Nat, l \in Nat, d \in Nat :
        t = Taken(name, k) /\ l = Len(name[k + 1]) /\ d = Len(a) /\ Len(part) = t + 1 + l
  BY <1>1, <1>4, <1>6, <1>7
<1>10. At(octets, d + t) = l
  <2>1. PICK i \in 1..Len(part) : i = t + 1  BY <1>4, <1>9
  <2>2. (d + t) + 1 = d + i  BY <1>9, <2>1
  <2>3. octets[d + i] = part[i] /\ part[i] = l  BY <1>6, <1>8, <1>9, <2>1 DEF At
  <2>. QED  BY <2>2, <2>3 DEF At
<1>11. LabelText(octets, d + t) = name[k + 1]
  <2>1. PICK i \in Nat, j \in Nat : i = t + 2 /\ j = t + 1 + l  BY <1>9
  <2>2. ASSUME NEW x \in i..j PROVE octets[d + x] = part[x]
    <3>1. x \in 1..Len(part)  BY <1>9, <2>1
    <3>. QED  BY <1>8, <1>9, <3>1
  <2>3. SubSeq(octets, d + i, d + j) = SubSeq(part, i, j)  BY <2>2, SubSeqShifted
  <2>4. \A u, v \in Nat : u = t + 2 /\ v = t + 1 + l =>
                           (d + t) + 2 = d + u /\ (d + t) + 1 + l = d + v
    OBVIOUS
  <2>5. SubSeq(part, i, j) = name[k + 1]  BY <1>4, <1>6, <1>9, <2>1
  <2>. QED  BY <1>10, <2>1, <2>3, <2>4, <2>5 DEF LabelText
<1>12. d + (t + 1 + l) = (d + t) + 1 + l /\ d + (t + 1 + l) <= Len(octets)
  <2>1. PICK p \in Nat, n \in Nat, a0 \in Nat :
          p = Len(part) /\ n = Len(octets) /\ a0 = Len(all)
    BY <1>1, <1>4
  <2>2. p = t + 1 + l /\ p <= a0 /\ d + a0 <= n  BY <1>2, <1>8, <1>9, <2>1
  <2>3. d + (t + 1 + l) <= n  BY <2>2
  <2>. QED  BY <2>1, <2>3
<1>. QED  BY <1>4, <1>9, <1>10, <1>11, <1>12

-----------------------------------------------------------------------------
(* Reading a name without pointers.                                        *)

\* A name is in the data from an offset on, with the zero at its end.
NameIsAt(data, start, name) ==
  LET end == start + Taken(name, Len(name))
  IN PlacedAt(data, start, name, Len(name)) /\ end < Len(data) /\ At(data, end) = 0

\* What is found where there is such a name.
NameFound(start, name) ==
  [ok |-> TRUE, name |-> name, next |-> start + Taken(name, Len(name)) + 1]

\* f finds names at the offsets of the data by the rules for zeros and labels.
FollowsLabels(f, data) ==
  \A o \in 0..Len(data) :
    /\ o # Len(data) /\ At(data, o) = 0 => f[o] = AtRoot0(o)
    /\ o # Len(data) /\ At(data, o) \in 1..MaxLabel /\ o + 1 + At(data, o) <= Len(data) =>
         f[o] = AtLabel(f[o + 1 + At(data, o)], LabelText(data, o))

\* The labels of a name from the i-th on.
Suffix(name, i) == SubSeq(name, i, Len(name))

\* The end of a name, label by label.
LEMMA SuffixType ==
  ASSUME NEW name \in AnyName, NEW i \in 1..Len(name) + 1
  PROVE  /\ Suffix(name, i) \in AnyName /\ Len(Suffix(name, i)) = Len(name) + 1 - i
         /\ \A j \in 1..Len(name) + 1 - i : Suffix(name, i)[j] = name[i + j - 1]
<1>1. PICK n \in Nat : n = Len(name)  BY DEF AnyName
<1>2. \A j \in i..n : name[j] \in Octets  BY <1>1 DEF AnyName
<1>3. i \in Int /\ n \in Int  BY <1>1
<1>4. /\ SubSeq(name, i, n) \in Seq(Octets)
      /\ Len(SubSeq(name, i, n)) = IF i <= n THEN n - i + 1 ELSE 0
      /\ \A j \in 1..n - i + 1 : SubSeq(name, i, n)[j] = name[i + j - 1]
  BY <1>2, <1>3, SubSeqProperties
<1>5. n - i + 1 = n + 1 - i /\ (~ (i <= n) => n + 1 - i = 0)  BY <1>1
<1>. QED  BY <1>1, <1>4, <1>5 DEF Suffix, AnyName

\* A name is one label and then the others.
LEMMA SuffixStep ==
  ASSUME NEW name \in AnyName, NEW i \in 1..Len(name)
  PROVE  name[i] \in Octets /\ Suffix(name, i) = <<name[i]>> \o Suffix(name, i + 1)
<1>n. Len(name) \in Nat  BY DEF AnyName
<1>1. name[i] \in Octets  BY DEF AnyName
<1>2. SubSeq(name, i, Len(name)) = <<name[i]>> \o SubSeq(name, i + 1, Len(name))
  BY <1>n, SubSeqRecursiveFirst DEF AnyName
<1>. QED  BY <1>1, <1>2 DEF Suffix

\* Where labels are followed by the rest of a name, the name is found.
LEMMA LabelsFound ==
  ASSUME NEW data \in Octets, NEW f, FollowsLabels(f, data),
         NEW start \in Nat, NEW name, IsName(name), NEW m \in 0..Len(name),
         PlacedAt(data, start, name, m), NEW end \in Nat,
         f[start + Taken(name, m)] = [ok |-> TRUE, name |-> Suffix(name, m + 1), next |-> end]
  PROVE  \A i \in 0..m : f[start + Taken(name, i)] =
                           [ok |-> TRUE, name |-> Suffix(name, i + 1), next |-> end]
<1>. DEFINE n == Len(name)
            Has(k) == f[start + Taken(name, k)] =
                        [ok |-> TRUE, name |-> Suffix(name, k + 1), next |-> end]
            T == {j \in Nat : j <= m => Has(m - j)}
<1>n. name \in AnyName /\ n \in Nat /\ Len(data) \in Nat  BY OctetsAt DEF IsName, AnyName
<1>t. \A k \in 0..n : Taken(name, k) \in Nat  BY <1>n, TakenType
<1>d. n = Len(name)  OBVIOUS
<1>. HIDE DEF n
<1>m. m \in Nat /\ m <= n  BY <1>d, <1>n
<1>1. 0 \in T
  <2>1. m - 0 = m  BY <1>m
  <2>2. Has(m)  OBVIOUS
  <2>. HIDE DEF Has
  <2>. QED  BY <2>1, <2>2
<1>2. ASSUME NEW j \in Nat, j \in T PROVE j + 1 \in T
  <2>. SUFFICES ASSUME j + 1 <= m PROVE Has(m - (j + 1))
    OBVIOUS
  <2>1. PICK k \in 0..m - 1 : k = m - (j + 1) /\ m - j = k + 1  BY <1>m
  <2>k. k \in 0..n /\ k + 1 \in 0..n /\ k + 1 \in 1..n /\ k \in Nat  BY <2>1, <1>n, <1>m
  <2>2. PICK o \in Nat, rest \in Nat, l \in 1..MaxLabel :
          /\ o = start + Taken(name, k) /\ rest = start + Taken(name, k + 1)
          /\ l = Len(name[k + 1])
    <3>1. Len(name[k + 1]) \in 1..MaxLabel  BY <2>k, <1>n, <1>d DEF IsName, AnyName
    <3>2. start + Taken(name, k) \in Nat /\ start + Taken(name, k + 1) \in Nat
      BY <1>t, <1>n, <2>k
    <3>. QED  BY <3>1, <3>2
  <2>3. /\ At(data, o) = l /\ rest = o + 1 + l /\ rest <= Len(data)
        /\ LabelText(data, o) = name[k + 1]
    BY <2>1, <2>2, <1>d DEF PlacedAt
  <2>4. o \in 0..Len(data) /\ o # Len(data)
    <3>1. l \in Nat /\ rest = o + 1 + l /\ rest <= Len(data)  BY <2>2, <2>3 DEF MaxLabel
    <3>. QED  BY <3>1, <1>n
  <2>5. f[o] = AtLabel(f[rest], name[k + 1])
    BY <2>3, <2>4 DEF FollowsLabels
  <2>6. f[rest] = [ok |-> TRUE, name |-> Suffix(name, (k + 1) + 1), next |-> end]
    <3>1. j <= m  BY <1>m
    <3>2. Has(m - j)
      <4>. HIDE DEF Has
      <4>. QED  BY <1>2, <3>1
    <3>. QED  BY <2>1, <2>2, <3>2
  <2>7. PICK label \in Octets, more \in AnyName :
          /\ label = name[k + 1] /\ more = Suffix(name, (k + 1) + 1)
          /\ Suffix(name, k + 1) = <<label>> \o more
    <3>1. PICK i \in 1..n : i = k + 1  BY <2>k
    <3>2. i + 1 \in 1..n + 1  BY <1>n, <3>1
    <3>3. Suffix(name, i + 1) \in AnyName  BY <3>2, <1>n, <1>d, SuffixType
    <3>4. name[i] \in Octets /\ Suffix(name, i) = <<name[i]>> \o Suffix(name, i + 1)
      BY <1>n, <1>d, SuffixStep
    <3>. QED  BY <3>1, <3>3, <3>4
  <2>8. f[o] = [ok |-> TRUE, name |-> <<label>> \o more, next |-> end]
    <3>1. f[o] = AtLabel([ok |-> TRUE, name |-> more, next |-> end], label)
      BY <2>5, <2>6, <2>7
    <3>. QED  BY <3>1, AtLabelFound
  <2>. QED  BY <2>1, <2>2, <2>7, <2>8
<1>3. \A j \in Nat : j \in T
  <2>. HIDE DEF T
  <2>. QED  BY <1>1, <1>2, SetInduction
<1>4. ASSUME NEW i \in 0..m PROVE Has(i)
  <2>1. PICK j \in Nat : j = m - i /\ j <= m /\ m - j = i  BY <1>m
  <2>. HIDE DEF Has
  <2>. QED  BY <2>1, <1>3
<1>. QED  BY <1>4

\* So it is where a zero follows.
LEMMA PlacedNameFound ==
  ASSUME NEW data \in Octets, NEW f, FollowsLabels(f, data),
         NEW start \in Nat, NEW name, IsName(name), NameIsAt(data, start, name)
  PROVE  f[start] = NameFound(start, name)
<1>1. PICK n \in Nat : n = Len(name) /\ name \in AnyName /\ Len(data) \in Nat
  BY OctetsAt DEF IsName, AnyName
<1>2. n \in 0..n /\ 0 \in 0..n /\ Taken(name, n) \in Nat  BY <1>1, TakenType
<1>3. PICK end \in Nat : end = start + Taken(name, n)  BY <1>2
<1>4. end < Len(data) /\ At(data, end) = 0  BY <1>1, <1>3 DEF NameIsAt
<1>5. end \in 0..Len(data) /\ end # Len(data) /\ end + 1 \in Nat  BY <1>1, <1>4
<1>6. f[end] = AtRoot0(end)  BY <1>4, <1>5 DEF FollowsLabels
<1>7. Suffix(name, n + 1) = <<>>  BY <1>1, SubSeqEmpty DEF Suffix
<1>8. f[start + Taken(name, n)] =
        [ok |-> TRUE, name |-> Suffix(name, n + 1), next |-> end + 1]
  BY <1>3, <1>6, <1>7 DEF AtRoot0
<1>9. f[start + Taken(name, 0)] = [ok |-> TRUE, name |-> Suffix(name, 0 + 1), next |-> end + 1]
  BY <1>1, <1>2, <1>5, <1>8, LabelsFound DEF NameIsAt
<1>10. Taken(name, 0) = 0 /\ start + 0 = start  BY NoLabels DEF Taken
<1>11. Suffix(name, 0 + 1) = name  BY <1>1, SubSeqFull DEF Suffix, AnyName
<1>. QED  BY <1>1, <1>3, <1>9, <1>10, <1>11 DEF NameFound

\* The decoder finds it, and so does the reader at the other ends.
LEMMA PlacedNameRead ==
  ASSUME NEW data \in Octets, NEW start \in Nat, NEW name, IsName(name),
         NameIsAt(data, start, name)
  PROVE  DecodeName(data, start) = NameFound(start, name)
         /\ NameAt(data, start) = NameFound(start, name)
<1>. DEFINE f == [o \in 0..Len(data) |-> DecodeName(data, o)]
            g == [o \in 0..Len(data) |-> NameAt(data, o)]
<1>n. Len(data) \in Nat  BY OctetsAt
<1>s. start \in 0..Len(data)
  <2>1. name \in AnyName /\ Len(name) \in Nat  BY DEF IsName, AnyName
  <2>2. Taken(name, Len(name)) \in Nat  BY <2>1, TakenType
  <2>3. start + Taken(name, Len(name)) < Len(data)  BY DEF NameIsAt
  <2>. QED  BY <1>n, <2>2, <2>3
<1>1. FollowsLabels(f, data)
  <2>1. ASSUME NEW o \in 0..Len(data), o # Len(data), At(data, o) = 0 PROVE f[o] = AtRoot0(o)
    BY <2>1, DecodeNameStep
  <2>2. ASSUME NEW o \in 0..Len(data), o # Len(data), NEW l \in 1..63, At(data, o) = l,
               o + 1 + l <= Len(data)
        PROVE  f[o] = AtLabel(f[o + 1 + l], LabelText(data, o))
    <3>1. l \in 1..191 /\ o + 1 + l \in 0..Len(data)  BY <2>2, <1>n
    <3>2. DecodeName(data, o) = AtLabel(DecodeName(data, o + 1 + l), LabelText(data, o))
      BY <2>2, <3>1, DecodeNameStep
    <3>. QED  BY <3>1, <3>2
  <2>. HIDE DEF f
  <2>. QED  BY <2>1, <2>2 DEF FollowsLabels, MaxLabel
<1>2. FollowsLabels(g, data)
  <2>1. ASSUME NEW o \in 0..Len(data), o # Len(data), At(data, o) = 0 PROVE g[o] = AtRoot0(o)
    BY <2>1, NameAtStep DEF AtRoot0
  <2>2. ASSUME NEW o \in 0..Len(data), o # Len(data), NEW l \in 1..63, At(data, o) = l,
               o + 1 + l <= Len(data)
        PROVE  g[o] = AtLabel(g[o + 1 + l], LabelText(data, o))
    <3>1. l # 0 /\ l <= MaxLabel /\ ~ (o + 1 + l > Len(data)) /\ o + 1 + l \in 0..Len(data)
      BY <2>2, <1>n DEF MaxLabel
    <3>2. NameAt(data, o) = AtLabel(NameAt(data, o + 1 + l), LabelText(data, o))
      BY <2>2, <3>1, NameAtStep
    <3>. QED  BY <3>1, <3>2
  <2>. HIDE DEF g
  <2>. QED  BY <2>1, <2>2 DEF FollowsLabels, MaxLabel
<1>. QED
  <2>1. f[start] = DecodeName(data, start) /\ g[start] = NameAt(data, start)  BY <1>s
  <2>. HIDE DEF f, g
  <2>. QED  BY <1>1, <1>2, <2>1, PlacedNameFound

-----------------------------------------------------------------------------
(* Numbers, and parts of messages.                                         *)

\* A number of 16 or of 32 bits is written as octets.
LEMMA NumbersType ==
  ASSUME NEW v \in Nat
  PROVE  /\ U16(v) \in Octets /\ Len(U16(v)) = 2
         /\ U16(v)[1] * 256 + U16(v)[2] = v
         /\ U32(v) \in Octets /\ Len(U32(v)) = 4
<1>a. \A u \in Nat : u \div 256 \in Nat  OBVIOUS
<1>b. \A u \in Nat : u % 256 \in Nat  OBVIOUS
<1>1. (v \div 256) * 256 + (v % 256) = v  OBVIOUS
<1>2. \A u \in Nat : U16(u) \in Octets /\ Len(U16(u)) = 2
  BY <1>a, <1>b DEF U16, Octets
<1>3. v \div 65536 \in Nat  OBVIOUS
<1>c. v % 65536 \in Nat  OBVIOUS
<1>4. U32(v) \in Octets /\ Len(U32(v)) = 4
  <2>1. PICK a \in Octets, b \in Octets :
          a = U16(v \div 65536) /\ b = U16(v % 65536) /\ Len(a) = 2 /\ Len(b) = 2
    BY <1>2, <1>3, <1>c
  <2>2. a \o b \in Octets  BY ConcatOctets
  <2>3. Len(a \o b) = Len(a) + Len(b)  BY ConcatOctets
  <2>l. Len(a) = 2 /\ Len(b) = 2  BY <2>1
  <2>4. Len(a \o b) = 4
    <3>. HIDE <2>1
    <3>. QED  BY <2>l, <2>3
  <2>. QED  BY <2>1, <2>2, <2>4 DEF U32
<1>5. U16(v)[1] = v \div 256 /\ U16(v)[2] = v % 256  BY DEF U16
<1>. QED  BY <1>1, <1>2, <1>4, <1>5

\* Some octets are in a message at an offset.
PartAt(part, data, o) ==
  o + Len(part) <= Len(data) /\ \A i \in 1..Len(part) : data[o + i] = part[i]

\* What follows the beginning of a message is part of it.
LEMMA BeginsParts ==
  ASSUME NEW a \in Octets, NEW b \in Octets, NEW data \in Octets
  PROVE  BeginsAs(a \o b, data) <=> BeginsAs(a, data) /\ PartAt(b, data, Len(a))
<1>1. /\ Len(a) \in Nat /\ Len(b) \in Nat /\ Len(data) \in Nat
      /\ Len(a \o b) = Len(a) + Len(b)
      /\ \A i \in 1..Len(a) : (a \o b)[i] = a[i]
      /\ \A i \in 1..Len(b) : (a \o b)[Len(a) + i] = b[i]
  BY ConcatOctets, OctetsAt
<1>. DEFINE ab == a \o b
<1>. HIDE DEF ab
<1>2. ASSUME BeginsAs(ab, data) PROVE BeginsAs(a, data) /\ PartAt(b, data, Len(a))
  <2>1. \A i \in 1..Len(a) : data[i] = a[i]
    <3>1. \A i \in 1..Len(a) : i \in 1..Len(ab)  BY <1>1 DEF ab
    <3>. QED  BY <1>1, <1>2, <3>1 DEF BeginsAs, ab
  <2>2. ASSUME NEW i \in 1..Len(b) PROVE data[Len(a) + i] = b[i]
    <3>1. PICK j \in 1..Len(ab) : j = Len(a) + i  BY <1>1 DEF ab
    <3>2. ab[j] = b[i]  BY <1>1, <3>1 DEF ab
    <3>. QED  BY <1>2, <3>1, <3>2 DEF BeginsAs
  <2>3. Len(a) + Len(b) <= Len(data)  BY <1>1, <1>2 DEF BeginsAs, ab
  <2>. QED  BY <1>1, <2>1, <2>2, <2>3 DEF BeginsAs, PartAt
<1>3. ASSUME BeginsAs(a, data), PartAt(b, data, Len(a)) PROVE BeginsAs(ab, data)
  <2>1. ASSUME NEW i \in 1..Len(ab) PROVE ab[i] = data[i]
    <3>1. CASE i \in 1..Len(a)  BY <1>1, <1>3, <3>1 DEF BeginsAs, ab
    <3>2. CASE i \notin 1..Len(a)
      <4>1. PICK j \in 1..Len(b) : i = Len(a) + j
        <5>1. i - Len(a) \in 1..Len(b) /\ i = Len(a) + (i - Len(a))  BY <1>1, <3>2 DEF ab
        <5>. QED  BY <5>1
      <4>2. ab[Len(a) + j] = b[j]  BY <1>1 DEF ab
      <4>3. data[Len(a) + j] = b[j]  BY <1>3 DEF PartAt
      <4>. QED  BY <4>1, <4>2, <4>3
    <3>. QED  BY <3>1, <3>2
  <2>2. Len(ab) <= Len(data)  BY <1>1, <1>3 DEF PartAt, ab
  <2>. QED  BY <2>1, <2>2 DEF BeginsAs
<1>. QED  BY <1>2, <1>3 DEF ab

\* A part has its own parts.
LEMMA PartParts ==
  ASSUME NEW a \in Octets, NEW b \in Octets, NEW data \in Octets, NEW o \in Nat,
         PartAt(a \o b, data, o)
  PROVE  PartAt(a, data, o) /\ PartAt(b, data, o + Len(a))
<1>1. /\ Len(a) \in Nat /\ Len(b) \in Nat /\ Len(data) \in Nat
      /\ Len(a \o b) = Len(a) + Len(b)
      /\ \A i \in 1..Len(a) : (a \o b)[i] = a[i]
      /\ \A i \in 1..Len(b) : (a \o b)[Len(a) + i] = b[i]
  BY ConcatOctets, OctetsAt
<1>. DEFINE ab == a \o b
<1>. HIDE DEF ab
<1>p. o + Len(ab) <= Len(data) /\ \A i \in 1..Len(ab) : data[o + i] = ab[i]
  BY DEF PartAt, ab
<1>2. \A i \in 1..Len(a) : data[o + i] = a[i]
  <2>1. \A i \in 1..Len(a) : i \in 1..Len(ab)  BY <1>1 DEF ab
  <2>. QED  BY <1>1, <1>p, <2>1 DEF ab
<1>3. ASSUME NEW i \in 1..Len(b) PROVE data[(o + Len(a)) + i] = b[i]
  <2>1. PICK j \in 1..Len(ab) : j = Len(a) + i  BY <1>1 DEF ab
  <2>2. ab[j] = b[i]  BY <1>1, <2>1 DEF ab
  <2>3. (o + Len(a)) + i = o + j  BY <1>1, <2>1
  <2>. QED  BY <1>p, <2>1, <2>2, <2>3
<1>4. o + Len(a) <= Len(data) /\ (o + Len(a)) + Len(b) <= Len(data)
  BY <1>1, <1>p DEF ab
<1>. QED  BY <1>2, <1>3, <1>4 DEF PartAt

\* A number is read where it is written.
LEMMA NumberRead ==
  ASSUME NEW v \in Nat, NEW data \in Octets, NEW o \in Nat, PartAt(U16(v), data, o)
  PROVE  U16At(data, o) = v /\ o + 2 <= Len(data)
<1>1. data[o + 1] = U16(v)[1] /\ data[o + 2] = U16(v)[2] /\ o + 2 <= Len(data)
  BY NumbersType DEF PartAt
<1>2. (o + 1) + 1 = o + 2  OBVIOUS
<1>3. U16At(data, o) = U16(v)[1] * 256 + U16(v)[2]  BY <1>1, <1>2 DEF U16At, At
<1>. QED  BY <1>1, <1>3, NumbersType

-----------------------------------------------------------------------------
(* Questions.                                                              *)

\* A question after a header, and the offset after its name.
QuestionOctets(q) == (Labels(q.name) \o <<0>>) \o (U16(q.type) \o U16(q.class))
QuestionEnd(q) == HeaderSize + Len(Labels(q.name)) + 1

\* The fields of a question.
LEMMA QuestionFields ==
  ASSUME NEW q, IsQuestion(q)
  PROVE  /\ IsName(q.name) /\ q.name \in AnyName /\ Len(q.name) \in Nat
         /\ q.type \in Nat /\ q.class \in Nat
<1>1. IsName(q.name) /\ IsU16(q.type) /\ IsU16(q.class)  BY DEF IsQuestion
<1>2. q.type \in Nat /\ q.class \in Nat  BY <1>1 DEF IsU16
<1>3. q.name \in AnyName  BY <1>1 DEF IsName
<1>4. Len(q.name) \in Nat  BY <1>3 DEF AnyName
<1>. QED  BY <1>1, <1>2, <1>3, <1>4

\* A question is octets.
LEMMA QuestionType ==
  ASSUME NEW q, IsQuestion(q)
  PROVE  /\ QuestionOctets(q) \in Octets
         /\ Labels(q.name) \o <<0>> \in Octets /\ U16(q.type) \o U16(q.class) \in Octets
         /\ Labels(q.name) \in Octets /\ QuestionEnd(q) \in Nat
<1>1. q.name \in AnyName /\ q.type \in Nat /\ q.class \in Nat  BY QuestionFields
<1>2. Labels(q.name) \in Octets /\ <<0>> \in Octets  BY <1>1, LabelsType DEF Octets
<1>3. U16(q.type) \in Octets /\ U16(q.class) \in Octets  BY <1>1, NumbersType
<1>4. Labels(q.name) \o <<0>> \in Octets  BY <1>2, ConcatOctets
<1>5. U16(q.type) \o U16(q.class) \in Octets  BY <1>3, ConcatOctets
<1>6. QuestionOctets(q) \in Octets  BY <1>4, <1>5, ConcatOctets DEF QuestionOctets
<1>7. Len(Labels(q.name)) \in Nat  BY <1>2, OctetsAt
<1>. QED  BY <1>2, <1>4, <1>5, <1>6, <1>7 DEF QuestionEnd, HeaderSize

\* The decoder, and the reader at the other ends, find the question that was written.
LEMMA QuestionRead ==
  ASSUME NEW h \in Octets, Len(h) = HeaderSize, NEW q, IsQuestion(q),
         NEW data \in Octets, BeginsAs(h \o QuestionOctets(q), data)
  PROVE  /\ DecodeName(data, HeaderSize) =
              [ok |-> TRUE, name |-> q.name, next |-> QuestionEnd(q)]
         /\ NameAt(data, HeaderSize) =
              [ok |-> TRUE, name |-> q.name, next |-> QuestionEnd(q)]
         /\ U16At(data, QuestionEnd(q)) = q.type
         /\ U16At(data, QuestionEnd(q) + 2) = q.class
         /\ QuestionEnd(q) + 4 <= Len(data)
         /\ BeginsAs(h, data)
         /\ NameIsAt(data, HeaderSize, q.name)
         /\ QuestionEnd(q) = HeaderSize + Taken(q.name, Len(q.name)) + 1
<1>1. /\ IsName(q.name) /\ q.name \in AnyName /\ Len(q.name) \in Nat
      /\ q.type \in Nat /\ q.class \in Nat
  BY QuestionFields
<1>. DEFINE L == Labels(q.name)
            text == L \o <<0>>
            numbers == U16(q.type) \o U16(q.class)
<1>2. L \in Octets /\ text \in Octets /\ numbers \in Octets /\ QuestionEnd(q) \in Nat
      /\ <<0>> \in Octets /\ Len(<<0>>) = 1
  BY QuestionType DEF Octets
<1>3. BeginsAs(h, data) /\ PartAt(text \o numbers, data, HeaderSize)
  <2>1. QuestionOctets(q) \in Octets  BY QuestionType
  <2>2. PartAt(QuestionOctets(q), data, HeaderSize) /\ BeginsAs(h, data)
    BY <2>1, BeginsParts
  <2>. QED  BY <2>2 DEF QuestionOctets
<1>. HIDE DEF L, text, numbers
<1>4. PICK l \in Nat, e \in Nat :
        l = Len(L) /\ HeaderSize + l \in Nat /\ e = HeaderSize + l + 1 /\ e = QuestionEnd(q)
        /\ Len(text) = l + 1
  <2>1. Len(L) \in Nat  BY <1>2, OctetsAt
  <2>2. Len(text) = Len(L) + Len(<<0>>)  BY <1>2, ConcatOctets DEF text
  <2>. QED  BY <2>1, <2>2, <1>2 DEF QuestionEnd, HeaderSize, L
<1>5. HeaderSize \in Nat /\ HeaderSize = 12  BY DEF HeaderSize
<1>6. PartAt(text, data, HeaderSize) /\ PartAt(numbers, data, HeaderSize + Len(text))
  BY <1>2, <1>3, <1>5, PartParts
<1>7. PartAt(L, data, HeaderSize) /\ PartAt(<<0>>, data, HeaderSize + l)
  BY <1>2, <1>4, <1>5, <1>6, PartParts DEF text
<1>8. HeaderSize + Len(text) = e  BY <1>4, <1>5
<1>9. PartAt(U16(q.type), data, e) /\ PartAt(U16(q.class), data, e + 2)
  <2>1. U16(q.type) \in Octets /\ U16(q.class) \in Octets /\ Len(U16(q.type)) = 2
    BY <1>1, NumbersType
  <2>2. PartAt(numbers, data, e)  BY <1>6, <1>8
  <2>. QED  BY <1>4, <2>1, <2>2, PartParts DEF numbers
<1>10. /\ U16At(data, e) = q.type /\ U16At(data, e + 2) = q.class /\ (e + 2) + 2 <= Len(data)
  BY <1>1, <1>4, <1>9, NumberRead
<1>11. BeginsAs(h \o L, data)
  BY <1>2, <1>3, <1>7, BeginsParts
<1>12. Len(q.name) \in 0..Len(q.name) /\ FirstLabels(q.name, Len(q.name)) = q.name
  BY <1>1, SubSeqFull DEF FirstLabels, AnyName
<1>13. PlacedAt(data, HeaderSize, q.name, Len(q.name))
  BY <1>1, <1>11, <1>12, LabelsPlaced DEF L
<1>14. Taken(q.name, Len(q.name)) = l  BY <1>4, <1>12 DEF Taken, L
<1>15. NameIsAt(data, HeaderSize, q.name)
  <2>1. data[(HeaderSize + l) + 1] = 0 /\ (HeaderSize + l) + 1 <= Len(data)
    BY <1>2, <1>7 DEF PartAt
  <2>2. HeaderSize + l < Len(data)  BY <1>4, <2>1, OctetsAt
  <2>. QED  BY <1>13, <1>14, <2>1, <2>2 DEF NameIsAt, At
<1>16. NameFound(HeaderSize, q.name) = [ok |-> TRUE, name |-> q.name, next |-> e]
  BY <1>4, <1>14 DEF NameFound
<1>17. /\ DecodeName(data, HeaderSize) = NameFound(HeaderSize, q.name)
       /\ NameAt(data, HeaderSize) = NameFound(HeaderSize, q.name)
  BY <1>1, <1>5, <1>15, PlacedNameRead
<1>18. e + 4 <= Len(data)  BY <1>4, <1>10, OctetsAt
<1>19. QuestionEnd(q) = HeaderSize + Taken(q.name, Len(q.name)) + 1  BY <1>4, <1>14
<1>. QED  BY <1>3, <1>4, <1>10, <1>15, <1>16, <1>17, <1>18, <1>19

-----------------------------------------------------------------------------
\* A message in the making, with the places of names in it.
Maps == UNION {[D -> Nat] : D \in SUBSET AnyName}
Writings == [octets : Octets, at : Maps]

\* How PutName ends after k labels, and where the suffixes are that it has written.
NameTail(w, name, k) ==
  IF k = Len(name) THEN <<0>> ELSE Pointer(w.at[Suffix(name, k + 1)])
NewSuffixes(name, k) == {Suffix(name, i) : i \in 1..k}
IsCut(w, name, k, compress) ==
  k # Len(name) => /\ compress /\ Suffix(name, k + 1) \in DOMAIN w.at
                   /\ w.at[Suffix(name, k + 1)] < 16384

\* What PutName makes: labels from the first on, and then a zero or a pointer to the rest.
NameWritten(w, name, k) ==
  [octets |-> w.octets \o Labels(FirstLabels(name, k)) \o NameTail(w, name, k),
   at |-> [s \in DOMAIN w.at \cup NewSuffixes(name, k) |->
             IF s \in DOMAIN w.at THEN w.at[s]
             ELSE Len(w.octets) + Taken(name, Len(name) - Len(s))]]

\* The first label of the end that is replaced by a pointer.
NameCut(at, name, compress) ==
  LET known == {i \in DOMAIN name : Suffix(name, i) \in DOMAIN at /\ at[Suffix(name, i)] < 16384}
  IN IF compress /\ known # {} THEN Min(known) ELSE Len(name) + 1

\* What is written of a name: some labels, then the end or a pointer to a known rest.
LEMMA PutNameForm ==
  ASSUME NEW w, NEW name \in AnyName, NEW compress \in BOOLEAN
  PROVE  \E k \in 0..Len(name) :
           /\ k + 1 = NameCut(w.at, name, compress)
           /\ IsCut(w, name, k, compress)
           /\ PutName(w, name, compress) = NameWritten(w, name, k)
<1>n. PICK n \in Nat : n = Len(name)  BY DEF AnyName
<1>. DEFINE known == {i \in DOMAIN name : Suffix(name, i) \in DOMAIN w.at /\ w.at[Suffix(name, i)] < 16384}
            cut == NameCut(w.at, name, compress)
            Offset(s) == Len(w.octets) + Len(Labels(SubSeq(name, 1, n - Len(s))))
            written == {Suffix(name, i) : i \in 1..cut - 1}
            end == IF cut > n THEN <<0>> ELSE Pointer(w.at[Suffix(name, cut)])
<1>0. cut = IF compress /\ known # {} THEN Min(known) ELSE n + 1  BY <1>n DEF NameCut
<1>1. PutName(w, name, compress) =
        [octets |-> w.octets \o Labels(SubSeq(name, 1, cut - 1)) \o end,
         at |-> [s \in DOMAIN w.at \cup written |->
                   IF s \in DOMAIN w.at THEN w.at[s] ELSE Offset(s)]]
  BY <1>n DEF PutName, Suffix, NameCut
<1>. HIDE DEF cut
<1>2. known \in SUBSET (1..n)  BY <1>n DEF AnyName
<1>3. ASSUME known # {} PROVE Min(known) \in known
  <2>1. known \in SUBSET Nat  BY <1>2
  <2>2. \E m \in known : \A i \in known : m <= i
    <3>. HIDE DEF known
    <3>. QED  BY <1>3, <2>1, LeastNumber
  <2>. HIDE DEF known
  <2>. QED  BY <2>2 DEF Min
<1>4. cut \in 1..n + 1
  <2>1. CASE compress /\ known # {}
    <3>1. Min(known) \in 1..n  BY <1>2, <1>3, <2>1
    <3>. HIDE DEF known
    <3>. QED  BY <1>0, <2>1, <3>1
  <2>2. CASE ~ (compress /\ known # {})
    <3>. HIDE DEF known
    <3>. QED  BY <1>0, <2>2
  <2>. QED  BY <2>1, <2>2
<1>k. PICK k \in 0..n : k + 1 = cut
  <2>1. cut - 1 \in 0..n /\ (cut - 1) + 1 = cut  BY <1>4
  <2>. QED  BY <2>1
<1>5. cut - 1 = k /\ (cut > n <=> k = n)  BY <1>k
<1>6. IsCut(w, name, k, compress)
  <2>1. k # n => compress /\ known # {} /\ cut = Min(known)
    <3>. HIDE DEF known
    <3>. QED  BY <1>0, <1>k
  <2>2. k # n => compress /\ cut \in known  BY <1>3, <2>1
  <2>3. k # n => compress /\ k + 1 \in known
    <3>. HIDE DEF known
    <3>. QED  BY <1>k, <2>2
  <2>. QED  BY <1>n, <2>3 DEF IsCut
<1>8. end = NameTail(w, name, k)  BY <1>n, <1>k, <1>5 DEF NameTail
<1>9. written = NewSuffixes(name, k)  BY <1>5 DEF NewSuffixes
<1>10. Labels(SubSeq(name, 1, cut - 1)) = Labels(FirstLabels(name, k))  BY <1>5 DEF FirstLabels
<1>11. \A s : Offset(s) = Len(w.octets) + Taken(name, Len(name) - Len(s))
  BY <1>n DEF Taken, FirstLabels
<1>. HIDE DEF written, end, Offset
<1>12. PutName(w, name, compress) = NameWritten(w, name, k)
  BY <1>1, <1>8, <1>9, <1>10, <1>11 DEF NameWritten
<1>. QED  BY <1>n, <1>k, <1>6, <1>12 DEF cut

\* Whoever reads data from an offset on finds a name, and where it ends, whatever
\* follows. No name has more pointers than octets before it.
FoundAt(data, o, name, end) ==
  \A p \in o..Len(data) :
    Levels(data)[p][o] = [ok |-> TRUE, name |-> name, next |-> end]

\* The names are where w says they are.
IsSound(w) ==
  \A s \in DOMAIN w.at :
    /\ w.at[s] < Len(w.octets)
    /\ \A data \in Octets : BeginsAs(w.octets, data) =>
         \E end \in Nat : FoundAt(data, w.at[s], s, end)

\* A pointer is read as the offset it was made from.
LEMMA PointerRead ==
  ASSUME NEW t \in Nat, t < 16384, NEW data \in Octets, NEW o \in Nat,
         PartAt(Pointer(t), data, o)
  PROVE  /\ U16At(data, o) % 16384 = t /\ o + 2 <= Len(data)
         /\ At(data, o) >= 192
<1>1. PICK v \in Nat : v = 49152 + t  OBVIOUS
<1>2. PartAt(U16(v), data, o)  BY <1>1 DEF Pointer
<1>3. U16At(data, o) = v /\ o + 2 <= Len(data)  BY <1>2, NumberRead
<1>4. v % 16384 = t  BY <1>1
<1>5. At(data, o) = v \div 256
  <2>1. Len(U16(v)) = 2  BY NumbersType
  <2>2. data[o + 1] = U16(v)[1]  BY <1>2, <2>1 DEF PartAt
  <2>. QED  BY <2>2 DEF At, U16
<1>6. v \div 256 >= 192  BY <1>1
<1>. QED  BY <1>3, <1>4, <1>5, <1>6

\* What follows the labels is octets, and where it points to has been written.
LEMMA TailType ==
  ASSUME NEW w \in Writings, IsSound(w), NEW name \in AnyName, NEW k \in 0..Len(name),
         NEW compress, IsCut(w, name, k, compress)
  PROVE  /\ NameTail(w, name, k) \in Octets
         /\ Len(NameTail(w, name, k)) \in 1..2
         /\ k # Len(name) =>
              /\ w.at[Suffix(name, k + 1)] \in Nat
              /\ w.at[Suffix(name, k + 1)] < 16384
              /\ w.at[Suffix(name, k + 1)] < Len(w.octets)
<1>1. CASE k = Len(name)  BY <1>1 DEF NameTail, Octets
<1>2. CASE k # Len(name)
  <2>1. Suffix(name, k + 1) \in DOMAIN w.at /\ w.at[Suffix(name, k + 1)] < 16384
    BY <1>2 DEF IsCut
  <2>2. PICK D \in SUBSET AnyName : w.at \in [D -> Nat]  BY DEF Writings, Maps
  <2>3. PICK t \in Nat : t = w.at[Suffix(name, k + 1)]  BY <2>1, <2>2
  <2>4. t < Len(w.octets)  BY <2>1, <2>3 DEF IsSound
  <2>5. NameTail(w, name, k) = U16(49152 + t)  BY <1>2, <2>3 DEF NameTail, Pointer
  <2>6. 49152 + t \in Nat  OBVIOUS
  <2>7. NameTail(w, name, k) \in Octets /\ Len(NameTail(w, name, k)) = 2
    BY <2>5, <2>6, NumbersType
  <2>. QED  BY <1>2, <2>1, <2>3, <2>4, <2>7
<1>. QED  BY <1>1, <1>2

\* At each level names are found by the rules for zeros and labels.
LEMMA LevelFollows ==
  ASSUME NEW data \in Octets, NEW p \in 0..Len(data)
  PROVE  FollowsLabels(Levels(data)[p], data)
<1>n. Len(data) \in Nat  BY OctetsAt
<1>1. ASSUME NEW o \in 0..Len(data)
      PROVE  Levels(data)[p][o] = LabelStep(data, p, Levels(data)[p - 1], Levels(data)[p], o)
  BY LevelsStep
<1>2. ASSUME NEW o \in 0..Len(data), o # Len(data), At(data, o) = 0
      PROVE  Levels(data)[p][o] = AtRoot0(o)
  BY <1>1, <1>2 DEF LabelStep
<1>3. ASSUME NEW o \in 0..Len(data), o # Len(data), NEW l \in 1..63, At(data, o) = l,
             o + 1 + l <= Len(data)
      PROVE  Levels(data)[p][o] = AtLabel(Levels(data)[p][o + 1 + l], LabelText(data, o))
  <2>1. l # 0 /\ ~ (l >= 192) /\ ~ (o + 1 + l > Len(data))  BY <1>3, <1>n
  <2>. QED  BY <1>1, <1>3, <2>1 DEF LabelStep
<1>. QED  BY <1>2, <1>3 DEF FollowsLabels, MaxLabel

\* There the rest of the name is found.
LEMMA TailFound ==
  ASSUME NEW w \in Writings, IsSound(w), NEW name \in AnyName, NEW k \in 0..Len(name),
         NEW compress, IsCut(w, name, k, compress),
         NEW data \in Octets, BeginsAs(w.octets, data),
         NEW o \in Nat, PartAt(NameTail(w, name, k), data, o),
         NEW p \in Len(w.octets)..Len(data)
  PROVE  Levels(data)[p][o] = [ok |-> TRUE, name |-> Suffix(name, k + 1),
                               next |-> o + Len(NameTail(w, name, k))]
<1>n. Len(data) \in Nat /\ Len(name) \in Nat /\ Len(w.octets) \in Nat
  BY OctetsAt DEF AnyName, Writings
<1>p. p \in 0..Len(data)  BY <1>n
<1>1. CASE k = Len(name)
  <2>1. NameTail(w, name, k) = <<0>>  BY <1>1 DEF NameTail
  <2>2. data[o + 1] = 0 /\ o + 1 <= Len(data)  BY <2>1 DEF PartAt
  <2>3. o \in 0..Len(data) /\ o # Len(data)  BY <2>2, <1>n
  <2>4. Levels(data)[p][o] = LabelStep(data, p, Levels(data)[p - 1], Levels(data)[p], o)
    BY <1>p, <2>3, LevelsStep
  <2>5. Levels(data)[p][o] = AtRoot0(o)  BY <2>2, <2>3, <2>4 DEF LabelStep, At
  <2>6. Suffix(name, k + 1) = <<>>  BY <1>1, <1>n, SubSeqEmpty DEF Suffix
  <2>. QED  BY <2>1, <2>5, <2>6 DEF AtRoot0
<1>2. CASE k # Len(name)
  <2>1. PICK t \in Nat : t = w.at[Suffix(name, k + 1)] /\ t < 16384 /\ t < Len(w.octets)
    BY <1>2, TailType
  <2>2. NameTail(w, name, k) = Pointer(t)  BY <1>2, <2>1 DEF NameTail
  <2>3. U16At(data, o) % 16384 = t /\ o + 2 <= Len(data) /\ At(data, o) >= 192
    BY <2>1, <2>2, PointerRead
  <2>4. o \in 0..Len(data) /\ o # Len(data) /\ o + 1 # Len(data) /\ ~ (t >= Len(data))
        /\ p # 0 /\ p - 1 \in t..Len(data) /\ p - 1 \in 0..Len(data) /\ t \in 0..Len(data)
    <3>1. Len(w.octets) <= Len(data)  BY DEF BeginsAs
    <3>2. PICK l \in Nat, n \in Nat : l = Len(w.octets) /\ n = Len(data)  BY <1>n
    <3>3. o + 2 <= n /\ t < l /\ l <= n /\ p \in l..n  BY <3>1, <3>2, <2>1, <2>3
    <3>4. o \in 0..n /\ o # n /\ o + 1 # n  BY <3>3
    <3>5. ~ (t >= n) /\ p # 0 /\ t \in 0..n  BY <3>3
    <3>6. p - 1 \in t..n /\ p - 1 \in 0..n  BY <3>3
    <3>. QED  BY <3>2, <3>4, <3>5, <3>6
  <2>5. Levels(data)[p][o] = LabelStep(data, p, Levels(data)[p - 1], Levels(data)[p], o)
    BY <1>p, <2>4, LevelsStep
  <2>6. PICK a : a = At(data, o) /\ a # 0 /\ a >= 192
    <3>1. At(data, o) \in Nat  BY <2>3, <1>n, OctetsAt
    <3>2. At(data, o) # 0  BY <3>1, <2>3
    <3>. QED  BY <2>3, <3>2
  <2>7. Levels(data)[p][o] = AtPointer(Levels(data)[p - 1][t], o)
    BY <2>3, <2>4, <2>5, <2>6 DEF LabelStep
  <2>8. PICK end \in Nat : FoundAt(data, t, Suffix(name, k + 1), end)
    BY <1>2, <2>1 DEF IsSound, IsCut
  <2>9. Levels(data)[p - 1][t] =
          [ok |-> TRUE, name |-> Suffix(name, k + 1), next |-> end]
    BY <2>4, <2>8 DEF FoundAt
  <2>10. Len(NameTail(w, name, k)) = 2
    <3>1. PICK v \in Nat : v = 49152 + t  OBVIOUS
    <3>. QED  BY <2>2, <3>1, NumbersType DEF Pointer
  <2>11. AtPointer([ok |-> TRUE, name |-> Suffix(name, k + 1), next |-> end], o) =
           [ok |-> TRUE, name |-> Suffix(name, k + 1), next |-> o + 2]
    BY DEF AtPointer
  <2>. QED  BY <2>7, <2>9, <2>10, <2>11
<1>. QED  BY <1>1, <1>2

\* Labels take more octets the more they are.
LEMMA TakenGrows ==
  ASSUME NEW name \in AnyName, NEW m \in 0..Len(name), NEW k \in 0..m
  PROVE  Taken(name, k) <= Taken(name, m)
BY FirstLabelsBegin DEF BeginsAs, Taken

\* What a writer makes of another: it has more octets, and its names are sound.
IsAfter(w, v) == v \in Writings /\ BeginsAs(w.octets, v.octets) /\ IsSound(v)

\* Writing a name keeps the names sound, and the name is found where it is written.
LEMMA NamePut ==
  ASSUME NEW w \in Writings, IsSound(w), NEW name, IsName(name), NEW compress \in BOOLEAN,
         NEW v, v = PutName(w, name, compress)
  PROVE  /\ IsAfter(w, v)
         /\ Len(v.octets) > Len(w.octets)
         /\ \A data \in Octets : BeginsAs(v.octets, data) =>
              FoundAt(data, Len(w.octets), name, Len(v.octets))
<1>0. name \in AnyName  BY DEF IsName
<1>1. PICK k \in 0..Len(name) : IsCut(w, name, k, compress) /\ v = NameWritten(w, name, k)
  BY <1>0, PutNameForm
<1>. DEFINE L == Labels(FirstLabels(name, k))
            tail == NameTail(w, name, k)
            start == Len(w.octets)
<1>2. w.octets \in Octets /\ L \in Octets /\ tail \in Octets /\ Len(tail) \in 1..2
  BY <1>0, <1>1, TakenType, TailType DEF Writings
<1>3. v.octets = (w.octets \o L) \o tail
      /\ v.at = [s \in DOMAIN w.at \cup NewSuffixes(name, k) |->
                   IF s \in DOMAIN w.at THEN w.at[s]
                   ELSE Len(w.octets) + Taken(name, Len(name) - Len(s))]
  BY <1>1 DEF NameWritten
<1>. HIDE DEF L, tail
<1>n. PICK n \in Nat : n = Len(name)  BY <1>0 DEF AnyName
<1>t. \A i \in 0..n : Taken(name, i) \in Nat  BY <1>0, <1>n, TakenType
<1>s. start \in Nat  BY <1>2, OctetsAt
<1>4. /\ w.octets \o L \in Octets /\ v.octets \in Octets
      /\ BeginsAs(w.octets, w.octets \o L) /\ BeginsAs(w.octets \o L, v.octets)
      /\ BeginsAs(w.octets, v.octets)
  <2>1. w.octets \o L \in Octets  BY <1>2, ConcatOctets
  <2>2. v.octets \in Octets  BY <1>2, <1>3, <2>1, ConcatOctets
  <2>. QED  BY <1>2, <1>3, <2>1, <2>2, BeginsConcat, BeginsTransitive
<1>5. PICK end \in Nat, after \in Nat :
        /\ end = start + Taken(name, k) /\ after = end + Len(tail)
        /\ end = Len(w.octets \o L) /\ after = Len(v.octets) /\ after > end
  <2>1. Len(w.octets \o L) = start + Taken(name, k)  BY <1>2, ConcatOctets DEF Taken, L
  <2>2. Len(v.octets) = Len(w.octets \o L) + Len(tail)  BY <1>2, <1>3, <1>4, ConcatOctets
  <2>3. Taken(name, k) \in Nat  BY <1>n, <1>t
  <2>4. PICK e \in Nat : e = start + Taken(name, k)  BY <1>s, <2>3
  <2>5. PICK a \in Nat : a = e + Len(tail) /\ a > e
    <3>1. PICK t \in 1..2 : t = Len(tail)  BY <1>2
    <3>2. PICK a \in Nat : a = e + t /\ a > e  OBVIOUS
    <3>. QED  BY <3>1, <3>2
  <2>. QED  BY <2>1, <2>2, <2>4, <2>5
<1>. HIDE DEF start
<1>6. ASSUME NEW data \in Octets, BeginsAs(v.octets, data), NEW i \in 0..k
      PROVE  FoundAt(data, start + Taken(name, i), Suffix(name, i + 1), after)
  <2>1. BeginsAs(w.octets \o L, data) /\ PartAt(tail, data, end)
    <3>1. BeginsAs((w.octets \o L) \o tail, data)  BY <1>3, <1>6
    <3>2. BeginsAs(w.octets \o L, data) /\ PartAt(tail, data, Len(w.octets \o L))
      BY <1>2, <1>4, <3>1, BeginsParts
    <3>. QED  BY <3>2, <1>5
  <2>2. BeginsAs(w.octets, data)  BY <1>2, <1>4, <2>1, BeginsTransitive
  <2>3. PlacedAt(data, start, name, k)
    BY <1>0, <1>2, <2>1, LabelsPlaced DEF L, start
  <2>4. ASSUME NEW p \in start..Len(data)
        PROVE  Levels(data)[p][start + Taken(name, i)] =
                 [ok |-> TRUE, name |-> Suffix(name, i + 1), next |-> after]
    <3>1. Levels(data)[p][end] = [ok |-> TRUE, name |-> Suffix(name, k + 1), next |-> after]
      BY <1>0, <1>1, <1>5, <2>1, <2>2, TailFound DEF tail, start
    <3>2. FollowsLabels(Levels(data)[p], data)
      <4>1. p \in 0..Len(data)  BY <1>s
      <4>. QED  BY <4>1, LevelFollows
    <3>3. Levels(data)[p][start + Taken(name, k)] =
            [ok |-> TRUE, name |-> Suffix(name, k + 1), next |-> after]
      BY <3>1, <1>5
    <3>. QED  BY <1>s, <2>3, <3>2, <3>3, LabelsFound
  <2>5. \A p \in (start + Taken(name, i))..Len(data) : p \in start..Len(data)
    <3>1. Taken(name, i) \in Nat  BY <1>n, <1>t
    <3>. QED  BY <1>s, <3>1
  <2>. QED  BY <2>4, <2>5 DEF FoundAt
<1>7. ASSUME NEW data \in Octets, BeginsAs(v.octets, data)
      PROVE  FoundAt(data, start, name, after)
  <2>1. 0 \in 0..k  BY <1>n
  <2>2. FoundAt(data, start + Taken(name, 0), Suffix(name, 0 + 1), after)  BY <1>6, <1>7, <2>1
  <2>3. Taken(name, 0) = 0 /\ start + 0 = start  BY <1>s, NoLabels DEF Taken
  <2>4. Suffix(name, 0 + 1) = name  BY <1>0, SubSeqFull DEF Suffix, AnyName
  <2>. QED  BY <2>2, <2>3, <2>4
<1>8. ASSUME NEW s \in NewSuffixes(name, k), s \notin DOMAIN w.at
      PROVE  \E i \in 0..n : /\ i < k /\ s = Suffix(name, i + 1) /\ s \in AnyName
                             /\ v.at[s] = start + Taken(name, i)
  <2>1. PICK j \in 1..k : s = Suffix(name, j)  BY DEF NewSuffixes
  <2>2. PICK i \in 0..n : j = i + 1 /\ i < k  BY <1>n
  <2>3. j \in 1..Len(name) + 1  BY <1>n
  <2>4. Len(s) = n + 1 - j /\ s \in AnyName  BY <1>0, <1>n, <2>1, <2>3, SuffixType
  <2>5. n - Len(s) = i  BY <2>2, <2>4
  <2>6. v.at[s] = Len(w.octets) + Taken(name, Len(name) - Len(s))  BY <1>3, <1>8
  <2>. QED  BY <1>n, <2>1, <2>2, <2>4, <2>5, <2>6 DEF start
<1>9. v \in Writings
  <2>1. PICK D \in SUBSET AnyName : w.at \in [D -> Nat]  BY DEF Writings, Maps
  <2>2. ASSUME NEW s \in DOMAIN v.at PROVE s \in AnyName /\ v.at[s] \in Nat
    <3>1. CASE s \in DOMAIN w.at  BY <1>3, <2>1, <3>1
    <3>2. CASE s \notin DOMAIN w.at
      <4>1. s \in NewSuffixes(name, k)  BY <1>3, <3>2
      <4>. QED  BY <3>2, <4>1, <1>8, <1>t, <1>s
    <3>. QED  BY <3>1, <3>2
  <2>3. v.at \in [DOMAIN v.at -> Nat]
    <3>1. v.at = [s \in DOMAIN v.at |-> v.at[s]]  BY <1>3
    <3>. QED  BY <2>2, <3>1
  <2>4. v.at \in Maps
    <3>1. DOMAIN v.at \in SUBSET AnyName  BY <2>2
    <3>. QED  BY <2>3, <3>1 DEF Maps
  <2>5. v = [octets |-> v.octets, at |-> v.at]  BY <1>1 DEF NameWritten
  <2>. QED  BY <1>4, <2>4, <2>5 DEF Writings
<1>10. IsSound(v)
  <2>. SUFFICES ASSUME NEW s \in DOMAIN v.at
                PROVE  /\ v.at[s] < Len(v.octets)
                       /\ \A data \in Octets : BeginsAs(v.octets, data) =>
                            \E e \in Nat : FoundAt(data, v.at[s], s, e)
    BY DEF IsSound
  <2>1. CASE s \in DOMAIN w.at
    <3>1. v.at[s] = w.at[s]  BY <1>3, <2>1
    <3>2. v.at[s] < Len(v.octets)
      <4>1. w.at[s] < Len(w.octets) /\ Len(w.octets) <= Len(v.octets)
        BY <1>4, <2>1 DEF IsSound, BeginsAs
      <4>2. v.at[s] \in Nat  BY <1>9 DEF Writings, Maps
      <4>. QED  BY <1>5, <1>s, <3>1, <4>1, <4>2 DEF start
    <3>3. ASSUME NEW data \in Octets, BeginsAs(v.octets, data)
          PROVE  \E e \in Nat : FoundAt(data, v.at[s], s, e)
      <4>1. BeginsAs(w.octets, data)  BY <1>2, <1>4, <3>3, BeginsTransitive
      <4>. QED  BY <2>1, <3>1, <4>1 DEF IsSound
    <3>. QED  BY <3>2, <3>3
  <2>2. CASE s \notin DOMAIN w.at
    <3>1. s \in NewSuffixes(name, k)  BY <1>3, <2>2
    <3>2. PICK i \in 0..n : i < k /\ s = Suffix(name, i + 1) /\ v.at[s] = start + Taken(name, i)
      BY <1>8, <2>2, <3>1
    <3>3. v.at[s] < Len(v.octets)
      <4>1. i \in 0..k /\ k \in 0..Len(name)  BY <1>n, <3>2
      <4>2. Taken(name, i) <= Taken(name, k)  BY <4>1, <1>0, TakenGrows
      <4>3. Taken(name, i) \in Nat /\ Taken(name, k) \in Nat  BY <1>n, <1>t
      <4>. QED  BY <1>5, <1>s, <3>2, <4>2, <4>3
    <3>4. i \in 0..k  BY <1>n, <3>2
    <3>. QED  BY <1>6, <3>2, <3>3, <3>4
  <2>. QED  BY <2>1, <2>2
<1>11. Len(v.octets) > Len(w.octets)
  <2>1. Taken(name, k) \in Nat  BY <1>n, <1>t
  <2>. QED  BY <1>5, <1>s, <2>1 DEF start
<1>. QED  BY <1>4, <1>5, <1>7, <1>9, <1>10, <1>11 DEF IsAfter, start

\* What was written after later octets was written after the earlier ones.
LEMMA AfterTransitive ==
  ASSUME NEW w \in Writings, NEW v, NEW u, IsAfter(w, v), IsAfter(v, u)
  PROVE  IsAfter(w, u)
<1>1. w.octets \in Octets /\ v.octets \in Octets /\ u.octets \in Octets
  BY DEF IsAfter, Writings
<1>. QED  BY <1>1, BeginsTransitive DEF IsAfter

\* Writing nothing is writing after what is there.
LEMMA AfterItself ==
  ASSUME NEW w \in Writings, IsSound(w)
  PROVE  IsAfter(w, w)
<1>1. Len(w.octets) \in Nat  BY OctetsAt DEF Writings
<1>. QED  BY <1>1 DEF IsAfter, BeginsAs

\* Octets are put behind the others, and no name changes its place.
LEMMA OctetsPut ==
  ASSUME NEW w \in Writings, IsSound(w), NEW octets \in Octets
  PROVE  /\ IsAfter(w, Put(w, octets))
         /\ Put(w, octets).octets = w.octets \o octets
<1>. DEFINE v == [octets |-> w.octets \o octets, at |-> w.at]
<1>1. Put(w, octets) = v
  <2>1. PICK a, b : w = [octets |-> a, at |-> b]  BY DEF Writings
  <2>2. PICK c : c = w.octets \o octets  OBVIOUS
  <2>3. Put(w, octets) = [w EXCEPT !.octets = c]  BY <2>2 DEF Put
  <2>4. v = [octets |-> c, at |-> b]  BY <2>1, <2>2
  <2>. HIDE <2>2 DEF v
  <2>. QED  BY <2>1, <2>3, <2>4
<1>2. v.octets = w.octets \o octets /\ v.at = w.at  OBVIOUS
<1>3. w.octets \in Octets /\ w.at \in Maps  BY DEF Writings
<1>4. v.octets \in Octets /\ BeginsAs(w.octets, v.octets)
      /\ Len(v.octets) = Len(w.octets) + Len(octets) /\ Len(w.octets) \in Nat /\ Len(octets) \in Nat
  BY <1>2, <1>3, ConcatOctets, BeginsConcat
<1>5. v \in Writings  BY <1>2, <1>3, <1>4 DEF Writings
<1>. HIDE DEF v
<1>6. ASSUME NEW s \in DOMAIN v.at
      PROVE  /\ v.at[s] < Len(v.octets)
             /\ \A data \in Octets : BeginsAs(v.octets, data) =>
                  \E e \in Nat : FoundAt(data, v.at[s], s, e)
  <2>1. w.at[s] < Len(w.octets) /\ w.at[s] \in Nat
    BY <1>2, <1>3 DEF IsSound, Maps
  <2>2. v.at[s] < Len(v.octets)  BY <1>2, <1>4, <2>1
  <2>3. ASSUME NEW data \in Octets, BeginsAs(v.octets, data)
        PROVE  \E e \in Nat : FoundAt(data, v.at[s], s, e)
    <3>1. BeginsAs(w.octets, data)  BY <1>3, <1>4, <2>3, BeginsTransitive
    <3>. QED  BY <1>2, <3>1 DEF IsSound
  <2>. QED  BY <2>2, <2>3
<1>7. IsSound(v)  BY <1>6 DEF IsSound
<1>. QED  BY <1>1, <1>2, <1>4, <1>5, <1>7 DEF IsAfter

\* Numbers are written as octets.
LEMMA NumbersPut ==
  ASSUME NEW numbers \in Seq(Nat)
  PROVE  /\ FlattenSeq([i \in DOMAIN numbers |-> U16(numbers[i])]) \in Octets
         /\ FlattenSeq([i \in DOMAIN numbers |-> U32(numbers[i])]) \in Octets
<1>n. PICK n \in Nat : n = Len(numbers) /\ DOMAIN numbers = 1..n  OBVIOUS
<1>1. ASSUME NEW i \in 1..n PROVE U16(numbers[i]) \in Octets /\ U32(numbers[i]) \in Octets
  <2>1. numbers[i] \in Nat  BY <1>n
  <2>. QED  BY <2>1, NumbersType
<1>. DEFINE A(i) == U16(numbers[i])
            B(i) == U32(numbers[i])
<1>2. \A i \in 1..n : A(i) \in Octets /\ B(i) \in Octets  BY <1>1
<1>. HIDE DEF A, B
<1>3. [i \in 1..n |-> A(i)] \in Seq(Octets) /\ [i \in 1..n |-> B(i)] \in Seq(Octets)
  BY <1>2
<1>4. FlattenSeq([i \in 1..n |-> A(i)]) \in Octets /\ FlattenSeq([i \in 1..n |-> B(i)]) \in Octets
  BY <1>3, FlattenType DEF Octets
<1>. QED  BY <1>4, <1>n DEF A, B

\* Names are put one after the other.
PutsNames(f, w, names, short) ==
  f = [i \in 0..Len(names) |-> IF i = 0 THEN w ELSE PutName(f[i - 1], names[i], short)]

\* Names put one after the other come after all that was there.
LEMMA NamesPut ==
  ASSUME NEW w \in Writings, IsSound(w), NEW names \in Seq(DnsNames), NEW short \in BOOLEAN
  PROVE  /\ \E f : PutsNames(f, w, names, short)
         /\ \A f : PutsNames(f, w, names, short) =>
              \A i \in 0..Len(names) : IsAfter(w, f[i])
<1>. DEFINE n == Len(names)
            V == {u \in Writings : IsAfter(w, u)}
            step == [x \in (1..n) \X V |-> PutName(x[2], names[x[1]], short)]
            Puts(f) == PutsNames(f, w, names, short)
<1>n. n \in Nat  OBVIOUS
<1>1. ASSUME NEW i \in 1..n, NEW v \in V PROVE PutName(v, names[i], short) \in V
  <2>1. names[i] \in DnsNames /\ IsName(names[i])  BY DEF DnsNames
  <2>2. v \in Writings /\ IsSound(v) /\ IsAfter(w, v)  BY DEF IsAfter
  <2>3. IsAfter(v, PutName(v, names[i], short))  BY <2>1, <2>2, NamePut
  <2>. QED  BY <2>2, <2>3, AfterTransitive DEF IsAfter
<1>2. w \in V  BY AfterItself
<1>. HIDE DEF V, n
<1>3. step \in [(1..n) \X V -> V]  BY <1>1
<1>4. \A i \in 1..n, v \in V : step[<<i, v>>] = PutName(v, names[i], short)  OBVIOUS
<1>. HIDE DEF step
<1>5. AreSteps(n, V, w, step)  BY <1>n, <1>2, <1>3 DEF AreSteps
<1>6. PICK h \in [0..n -> V] : Recurs(h, n, w, step)  BY <1>5, RecursionExists
<1>7. Puts(h)
  <2>1. ASSUME NEW i \in 0..n
        PROVE  h[i] = IF i = 0 THEN w ELSE PutName(h[i - 1], names[i], short)
    <3>1. CASE i = 0  BY <3>1, <1>6 DEF Recurs
    <3>2. CASE i # 0
      <4>1. i \in 1..n /\ i - 1 \in 0..n  BY <3>2, <1>n
      <4>2. h[i - 1] \in V  BY <4>1
      <4>. QED  BY <3>2, <4>1, <4>2, <1>4, <1>6 DEF Recurs
    <3>. QED  BY <3>1, <3>2
  <2>. QED  BY <2>1 DEF PutsNames, n
<1>. SUFFICES ASSUME NEW put, Puts(put) PROVE \A i \in 0..n : IsAfter(w, put[i])
  BY <1>7 DEF n
<1>9. put[0] = w /\ \A i \in 1..n : put[i] = PutName(put[i - 1], names[i], short)
  <2>1. ASSUME NEW i \in 0..n
        PROVE  put[i] = IF i = 0 THEN w ELSE PutName(put[i - 1], names[i], short)
    BY DEF PutsNames, n
  <2>. QED  BY <2>1, <1>n
<1>10. ASSUME NEW i \in 1..n, put[i - 1] \in V PROVE put[i] = step[<<i, put[i - 1]>>]
  BY <1>4, <1>9, <1>10
<1>11. \A i \in 0..n : put[i] \in V
  <2>1. put[0] = w  BY <1>9
  <2>. QED  BY <1>5, <1>10, <2>1, RecursionType
<1>. QED  BY <1>11 DEF V

\* What PutData writes: names, numbers, and the text of any other data.
Short(type, compress) == compress = "all names" /\ type # TypeSRV
WithNames(w, type, data, compress) ==
  (CHOOSE f : PutsNames(f, w, data.names, Short(type, compress)))[Len(data.names)]
Text16(data) == FlattenSeq([i \in DOMAIN data.numbers |-> U16(data.numbers[i])])
Text32(data) == FlattenSeq([i \in DOMAIN data.numbers |-> U32(data.numbers[i])])
OtherText(type, data) ==
  IF type = TypeTXT THEN Labels(data)
  ELSE IF type = TypeCAA THEN <<data.flag, Len(data.tag)>> \o data.tag \o data.value
  ELSE data

\* What is written of record data, by type.
LEMMA PutDataForm ==
  ASSUME NEW w, NEW type, NEW data, NEW compress
  PROVE  /\ type = TypeSOA => PutData(w, type, data, compress) =
                                Put(WithNames(w, type, data, compress), Text32(data))
         /\ type \in NamedTypes \ {TypeSOA} =>
              PutData(w, type, data, compress) =
                WithNames(Put(w, Text16(data)), type, data, compress)
         /\ type \notin NamedTypes =>
              PutData(w, type, data, compress) = Put(w, OtherText(type, data))
         /\ TypeSOA \in NamedTypes
<1>1. PutData(w, type, data, compress) =
        CASE type = TypeSOA -> Put(WithNames(w, type, data, compress), Text32(data))
          [] type \in NamedTypes \ {TypeSOA} ->
               WithNames(Put(w, Text16(data)), type, data, compress)
          [] type = TypeTXT -> Put(w, Labels(data))
          [] type = TypeCAA -> Put(w, <<data.flag, Len(data.tag)>> \o data.tag \o data.value)
          [] OTHER -> Put(w, data)
  BY DEF PutData, PutsNames, WithNames, Short, Text16, Text32
<1>2. TypeSOA \in NamedTypes /\ TypeTXT \notin NamedTypes /\ TypeCAA \notin NamedTypes
      /\ TypeTXT # TypeCAA
  BY DEF NamedTypes, NumbersOf, NameTypes, TypeSOA, TypeTXT, TypeCAA, TypeMX, TypeSRV,
         TypeNS, TypeCNAME, TypePTR
<1>3. CASE type = TypeSOA  BY <1>1, <1>2, <1>3
<1>4. CASE type \in NamedTypes \ {TypeSOA}  BY <1>1, <1>2, <1>4
<1>5. CASE type = TypeTXT  BY <1>1, <1>2, <1>5 DEF OtherText
<1>6. CASE type = TypeCAA  BY <1>1, <1>2, <1>6 DEF OtherText
<1>7. CASE type \notin NamedTypes \cup {TypeTXT, TypeCAA}  BY <1>1, <1>2, <1>7 DEF OtherText
<1>. QED  BY <1>2, <1>3, <1>4, <1>5, <1>6, <1>7

\* The parts of record data that are not names are octets.
LEMMA TextsType ==
  ASSUME NEW type, NEW data, IsValue(type, data)
  PROVE  /\ type \in NamedTypes =>
              Text16(data) \in Octets /\ Text32(data) \in Octets /\ data.names \in Seq(DnsNames)
         /\ type \notin NamedTypes => OtherText(type, data) \in Octets
<1>1. ASSUME type \in NamedTypes
      PROVE  Text16(data) \in Octets /\ Text32(data) \in Octets /\ data.names \in Seq(DnsNames)
  <2>1. data.numbers \in Seq(Nat) /\ data.names \in Seq(DnsNames)
    BY <1>1 DEF IsValue, NamesData
  <2>. QED  BY <2>1, NumbersPut DEF Text16, Text32
<1>2. ASSUME type \notin NamedTypes PROVE OtherText(type, data) \in Octets
  <2>1. CASE type = TypeTXT
    <3>1. Labels(data) \in Octets  BY <2>1, LabelsType DEF IsValue
    <3>. QED  BY <2>1, <3>1 DEF OtherText
  <2>2. CASE type = TypeCAA
    <3>1. data.flag \in Nat /\ data.tag \in Octets /\ data.value \in Octets
      BY <2>2 DEF IsValue, CAAData
    <3>2. <<data.flag, Len(data.tag)>> \in Octets
      <4>1. Len(data.tag) \in Nat  BY <3>1, OctetsAt
      <4>. QED  BY <3>1, <4>1 DEF Octets
    <3>3. <<data.flag, Len(data.tag)>> \o data.tag \o data.value \in Octets
      BY <3>1, <3>2, ConcatOctets
    <3>4. TypeTXT # TypeCAA  BY DEF TypeTXT, TypeCAA
    <3>. QED  BY <2>2, <3>3, <3>4 DEF OtherText
  <2>3. CASE type \notin {TypeTXT, TypeCAA}
    <3>1. data \in Octets  BY <1>2, <2>3 DEF IsValue
    <3>. QED  BY <2>3, <3>1 DEF OtherText
  <2>. QED  BY <2>1, <2>2, <2>3
<1>. QED  BY <1>1, <1>2

\* The names of record data come after all that was there.
LEMMA WithNamesPut ==
  ASSUME NEW w \in Writings, IsSound(w), NEW type \in NamedTypes, NEW data, IsValue(type, data),
         NEW compress
  PROVE  IsAfter(w, WithNames(w, type, data, compress))
<1>1. data.names \in Seq(DnsNames) /\ Len(data.names) \in 0..Len(data.names)
  BY TextsType
<1>2. Short(type, compress) \in BOOLEAN  BY DEF Short
<1>3. PICK f : f = CHOOSE g : PutsNames(g, w, data.names, Short(type, compress))  OBVIOUS
<1>4. PutsNames(f, w, data.names, Short(type, compress))  BY <1>1, <1>2, <1>3, NamesPut
<1>5. WithNames(w, type, data, compress) = f[Len(data.names)]  BY <1>3 DEF WithNames
<1>. HIDE <1>3
<1>. QED  BY <1>1, <1>2, <1>4, <1>5, NamesPut

\* Any data of a record is put behind what is there.
LEMMA DataPut ==
  ASSUME NEW w \in Writings, IsSound(w), NEW type, NEW data, IsValue(type, data), NEW compress
  PROVE  IsAfter(w, PutData(w, type, data, compress))
<1>1. CASE type = TypeSOA
  <2>. DEFINE v == WithNames(w, type, data, compress)
  <2>1. PutData(w, type, data, compress) = Put(v, Text32(data)) /\ type \in NamedTypes
    BY <1>1, PutDataForm
  <2>2. IsAfter(w, v)  BY <2>1, WithNamesPut
  <2>. HIDE DEF v
  <2>3. IsAfter(v, Put(v, Text32(data)))  BY <2>1, <2>2, TextsType, OctetsPut DEF IsAfter
  <2>. QED  BY <2>1, <2>2, <2>3, AfterTransitive
<1>2. CASE type \in NamedTypes \ {TypeSOA}
  <2>. DEFINE v == Put(w, Text16(data))
  <2>1. PutData(w, type, data, compress) = WithNames(v, type, data, compress)
    BY <1>2, PutDataForm
  <2>2. IsAfter(w, v)  BY <1>2, TextsType, OctetsPut
  <2>. HIDE DEF v
  <2>3. IsAfter(v, WithNames(v, type, data, compress))
    BY <1>2, <2>2, WithNamesPut DEF IsAfter
  <2>. QED  BY <2>1, <2>2, <2>3, AfterTransitive
<1>3. CASE type \notin NamedTypes
  <2>1. PutData(w, type, data, compress) = Put(w, OtherText(type, data))  BY <1>3, PutDataForm
  <2>. QED  BY <1>3, <2>1, TextsType, OctetsPut
<1>. QED  BY <1>1, <1>2, <1>3

-----------------------------------------------------------------------------
(* Records.                                                                *)

\* What is written behind two texts of one length with the same names is the same.
IsLike(w, v) == w.at = v.at /\ Len(w.octets) = Len(v.octets)

\* Writings that differ in octets, but not in length or known names, take a name alike.
LEMMA PutNameLike ==
  ASSUME NEW w \in Writings, NEW v \in Writings, IsLike(w, v), IsSound(w), IsSound(v),
         NEW name, IsName(name), NEW compress \in BOOLEAN
  PROVE  IsLike(PutName(w, name, compress), PutName(v, name, compress))
<1>1. name \in AnyName /\ w.at = v.at /\ Len(w.octets) = Len(v.octets)
  BY DEF IsName, IsLike
<1>2. PICK k \in 0..Len(name) : /\ k + 1 = NameCut(w.at, name, compress)
                               /\ IsCut(w, name, k, compress)
                               /\ PutName(w, name, compress) = NameWritten(w, name, k)
  BY <1>1, PutNameForm
<1>3. PutName(v, name, compress) = NameWritten(v, name, k)
  <2>1. PICK j \in 0..Len(name) : /\ j + 1 = NameCut(v.at, name, compress)
                                 /\ PutName(v, name, compress) = NameWritten(v, name, j)
    BY <1>1, PutNameForm
  <2>2. j = k
    <3>1. j + 1 = k + 1  BY <1>1, <1>2, <2>1
    <3>. QED  BY <3>1
  <2>. QED  BY <2>1, <2>2
<1>. DEFINE L == Labels(FirstLabels(name, k))
            E == NameTail(w, name, k)
            P == [s \in DOMAIN w.at \cup NewSuffixes(name, k) |->
                    IF s \in DOMAIN w.at THEN w.at[s]
                    ELSE Len(w.octets) + Taken(name, Len(name) - Len(s))]
<1>4. NameTail(v, name, k) = E  BY <1>1 DEF NameTail
<1>5. /\ NameWritten(w, name, k) = [octets |-> (w.octets \o L) \o E, at |-> P]
      /\ NameWritten(v, name, k) = [octets |-> (v.octets \o L) \o E, at |-> P]
  BY <1>1, <1>4 DEF NameWritten
<1>6. L \in Octets /\ E \in Octets  BY <1>1, <1>2, TakenType, TailType
<1>. HIDE DEF L, E, P
<1>7. w.octets \in Octets /\ v.octets \in Octets  BY DEF Writings
<1>8. Len((w.octets \o L) \o E) = Len(w.octets) + Len(L) + Len(E)
  <2>1. w.octets \o L \in Octets /\ Len(w.octets \o L) = Len(w.octets) + Len(L)
    BY <1>6, <1>7, ConcatOctets
  <2>. QED  BY <1>6, <2>1, ConcatOctets
<1>9. Len((v.octets \o L) \o E) = Len(v.octets) + Len(L) + Len(E)
  <2>1. v.octets \o L \in Octets /\ Len(v.octets \o L) = Len(v.octets) + Len(L)
    BY <1>6, <1>7, ConcatOctets
  <2>. QED  BY <1>6, <2>1, ConcatOctets
<1>. QED  BY <1>1, <1>2, <1>3, <1>5, <1>8, <1>9 DEF IsLike

\* So they take a list of names.
LEMMA NamesLike ==
  ASSUME NEW w \in Writings, NEW v \in Writings, IsLike(w, v), IsSound(w), IsSound(v),
         NEW names \in Seq(DnsNames), NEW short \in BOOLEAN,
         NEW f, PutsNames(f, w, names, short), NEW g, PutsNames(g, v, names, short)
  PROVE  IsLike(f[Len(names)], g[Len(names)])
<1>. DEFINE n == Len(names)
            T == {i \in Nat : i <= n => IsLike(f[i], g[i])}
<1>n. n \in Nat  OBVIOUS
<1>1. ASSUME NEW i \in 0..n
      PROVE  /\ IsAfter(w, f[i]) /\ IsAfter(v, g[i])
             /\ f[i] = IF i = 0 THEN w ELSE PutName(f[i - 1], names[i], short)
             /\ g[i] = IF i = 0 THEN v ELSE PutName(g[i - 1], names[i], short)
  <2>1. IsAfter(w, f[i]) /\ IsAfter(v, g[i])  BY NamesPut
  <2>2. f[i] = IF i = 0 THEN w ELSE PutName(f[i - 1], names[i], short)  BY DEF PutsNames
  <2>3. g[i] = IF i = 0 THEN v ELSE PutName(g[i - 1], names[i], short)  BY DEF PutsNames
  <2>. QED  BY <2>1, <2>2, <2>3
<1>2. 0 \in T
  <2>1. 0 \in 0..n  BY <1>n
  <2>2. f[0] = w /\ g[0] = v  BY <1>1, <2>1
  <2>. QED  BY <2>2
<1>3. ASSUME NEW i \in Nat, i \in T PROVE i + 1 \in T
  <2>. SUFFICES ASSUME i + 1 <= n PROVE IsLike(f[i + 1], g[i + 1])  OBVIOUS
  <2>1. PICK k \in 1..n : k = i + 1 /\ k - 1 = i /\ k \in 0..n /\ k # 0 /\ i \in 0..n
    BY <1>n
  <2>2. IsLike(f[i], g[i])
    <3>1. i <= n  BY <2>1
    <3>. QED  BY <1>3, <3>1
  <2>3. IsName(names[k])  BY DEF DnsNames
  <2>4. f[k] = PutName(f[i], names[k], short) /\ g[k] = PutName(g[i], names[k], short)
    BY <1>1, <2>1
  <2>5. f[i] \in Writings /\ g[i] \in Writings /\ IsSound(f[i]) /\ IsSound(g[i])
    BY <1>1, <2>1 DEF IsAfter
  <2>6. IsLike(f[k], g[k])  BY <2>2, <2>3, <2>4, <2>5, PutNameLike
  <2>. QED  BY <2>1, <2>6
<1>4. \A i \in Nat : i \in T
  <2>. HIDE DEF T
  <2>. QED  BY <1>2, <1>3, SetInduction
<1>. QED  BY <1>4, <1>n

\* So they take as many octets, whatever these are.
LEMMA OctetsLike ==
  ASSUME NEW w \in Writings, NEW v \in Writings, IsLike(w, v), IsSound(w), IsSound(v),
         NEW a \in Octets, NEW b \in Octets, Len(a) = Len(b)
  PROVE  IsLike(Put(w, a), Put(v, b))
<1>1. Put(w, a).octets = w.octets \o a /\ Put(v, b).octets = v.octets \o b
  BY OctetsPut
<1>2. Put(w, a).at = w.at /\ Put(v, b).at = v.at  BY DEF Put, Writings
<1>3. Len(w.octets \o a) = Len(w.octets) + Len(a) /\ Len(v.octets \o b) = Len(v.octets) + Len(b)
  BY ConcatOctets DEF Writings
<1>. QED  BY <1>1, <1>2, <1>3 DEF IsLike

\* So they take the names of record data.
LEMMA WithNamesLike ==
  ASSUME NEW w \in Writings, NEW v \in Writings, IsLike(w, v), IsSound(w), IsSound(v),
         NEW type \in NamedTypes, NEW data, IsValue(type, data), NEW compress
  PROVE  IsLike(WithNames(w, type, data, compress), WithNames(v, type, data, compress))
<1>1. data.names \in Seq(DnsNames)  BY TextsType
<1>2. Short(type, compress) \in BOOLEAN  BY DEF Short
<1>3. PICK f : f = CHOOSE g : PutsNames(g, w, data.names, Short(type, compress))  OBVIOUS
<1>4. PICK h : h = CHOOSE g : PutsNames(g, v, data.names, Short(type, compress))  OBVIOUS
<1>5. PutsNames(f, w, data.names, Short(type, compress))  BY <1>1, <1>2, <1>3, NamesPut
<1>6. PutsNames(h, v, data.names, Short(type, compress))  BY <1>1, <1>2, <1>4, NamesPut
<1>7. WithNames(w, type, data, compress) = f[Len(data.names)]  BY <1>3 DEF WithNames
<1>8. WithNames(v, type, data, compress) = h[Len(data.names)]  BY <1>4 DEF WithNames
<1>. HIDE <1>3, <1>4
<1>. QED  BY <1>1, <1>2, <1>5, <1>6, <1>7, <1>8, NamesLike

\* So they take all record data, which is why a record that is written a second time, with
\* its size in place of zero, has the size that the first writing showed.
LEMMA PutDataLike ==
  ASSUME NEW w \in Writings, NEW v \in Writings, IsLike(w, v), IsSound(w), IsSound(v),
         NEW type, NEW data, IsValue(type, data), NEW compress
  PROVE  IsLike(PutData(w, type, data, compress), PutData(v, type, data, compress))
<1>1. CASE type = TypeSOA
  <2>. DEFINE x == WithNames(w, type, data, compress)
              y == WithNames(v, type, data, compress)
  <2>1. /\ PutData(w, type, data, compress) = Put(x, Text32(data))
        /\ PutData(v, type, data, compress) = Put(y, Text32(data)) /\ type \in NamedTypes
    BY <1>1, PutDataForm
  <2>2. IsAfter(w, x) /\ IsAfter(v, y) /\ IsLike(x, y)  BY <2>1, WithNamesPut, WithNamesLike
  <2>. HIDE DEF x, y
  <2>. QED  BY <2>1, <2>2, TextsType, OctetsLike DEF IsAfter
<1>2. CASE type \in NamedTypes \ {TypeSOA}
  <2>. DEFINE x == Put(w, Text16(data))
              y == Put(v, Text16(data))
  <2>1. /\ PutData(w, type, data, compress) = WithNames(x, type, data, compress)
        /\ PutData(v, type, data, compress) = WithNames(y, type, data, compress)
    BY <1>2, PutDataForm
  <2>2. IsAfter(w, x) /\ IsAfter(v, y) /\ IsLike(x, y)  BY <1>2, TextsType, OctetsPut, OctetsLike
  <2>. HIDE DEF x, y
  <2>. QED  BY <1>2, <2>1, <2>2, WithNamesLike DEF IsAfter
<1>3. CASE type \notin NamedTypes
  <2>1. /\ PutData(w, type, data, compress) = Put(w, OtherText(type, data))
        /\ PutData(v, type, data, compress) = Put(v, OtherText(type, data))
    BY <1>3, PutDataForm
  <2>. QED  BY <1>3, <2>1, TextsType, OctetsLike
<1>. QED  BY <1>1, <1>2, <1>3

\* A number of 32 bits is read where it is written.
LEMMA LongRead ==
  ASSUME NEW v \in Nat, NEW data \in Octets, NEW o \in Nat, PartAt(U32(v), data, o)
  PROVE  U32At(data, o) = v /\ o + 4 <= Len(data)
<1>1. PICK a \in Nat, b \in Nat : a = v \div 65536 /\ b = v % 65536 /\ a * 65536 + b = v
  <2>1. v \div 65536 \in Nat  OBVIOUS
  <2>2. v % 65536 \in Nat  OBVIOUS
  <2>3. (v \div 65536) * 65536 + (v % 65536) = v  OBVIOUS
  <2>. QED  BY <2>1, <2>2, <2>3
<1>2. U32(v) = U16(a) \o U16(b)  BY <1>1 DEF U32
<1>. HIDE <1>1
<1>3. U16(a) \in Octets /\ U16(b) \in Octets /\ Len(U16(a)) = 2  BY NumbersType
<1>4. PartAt(U16(a), data, o) /\ PartAt(U16(b), data, o + 2)  BY <1>2, <1>3, PartParts
<1>5. U16At(data, o) = a /\ U16At(data, o + 2) = b /\ (o + 2) + 2 <= Len(data)
  BY <1>4, NumberRead
<1>6. U32At(data, o) = a * 65536 + b  BY <1>5 DEF U32At
<1>7. a * 65536 + b = v  BY <1>1
<1>8. o + 4 <= Len(data)
  <2>1. Len(data) \in Nat  BY OctetsAt
  <2>. QED  BY <2>1, <1>5
<1>. QED  BY <1>6, <1>7, <1>8

\* Length of octets after octets.
LEMMA TwoParts ==
  ASSUME NEW a \in Octets, NEW b \in Octets
  PROVE  a \o b \in Octets /\ Len(a \o b) = Len(a) + Len(b)
BY ConcatOctets

-----------------------------------------------------------------------------
(* Texts made of parts.                                                    *)

\* The first parts of a text, put together.
Together(parts, k) == FlattenSeq(SubSeq(parts, 1, k))

\* Each part is put behind the ones before it.
LEMMA TogetherNext ==
  ASSUME NEW parts \in Seq(Octets)
  PROVE  /\ Together(parts, 0) = <<>> /\ Together(parts, Len(parts)) = FlattenSeq(parts)
         /\ \A k \in 0..Len(parts) : Together(parts, k) \in Octets
         /\ \A k \in 1..Len(parts) : Together(parts, k) = Together(parts, k - 1) \o parts[k]
<1>n. PICK n \in Nat : n = Len(parts) /\ DOMAIN parts = 1..n  OBVIOUS
<1>1. Together(parts, 0) = <<>>
  <2>1. SubSeq(parts, 1, 0) = <<>>  BY SubSeqEmpty
  <2>. QED  BY <2>1 DEF Together, FlattenSeq
<1>2. SubSeq(parts, 1, n) = parts  BY <1>n, SubSeqFull
<1>3. ASSUME NEW k \in 0..n
      PROVE  SubSeq(parts, 1, k) \in Seq(Octets) /\ Len(SubSeq(parts, 1, k)) = k
  BY <1>n, <1>3, FirstLabelsType DEF FirstLabels, AnyName
<1>4. ASSUME NEW k \in 0..n PROVE Together(parts, k) \in Octets
  BY <1>3, FlattenType DEF Together, Octets
<1>5. ASSUME NEW k \in 1..n PROVE Together(parts, k) = Together(parts, k - 1) \o parts[k]
  <2>1. PICK j \in 0..n : j = k - 1  OBVIOUS
  <2>2. SubSeq(parts, 1, k) = SubSeq(parts, 1, k - 1) \o <<parts[k]>>
    BY <1>n, SubSeqRecursiveSecond
  <2>3. PICK first \in Seq(Octets) : first = SubSeq(parts, 1, j)  BY <1>3
  <2>4. parts[k] \in Octets  BY <1>n
  <2>5. first \o <<parts[k]>> = Append(first, parts[k])  BY <2>3, <2>4
  <2>6. FlattenSeq(Append(first, parts[k])) = FlattenSeq(first) \o parts[k]
    BY <2>3, <2>4, FlattenAppend DEF Octets
  <2>. QED  BY <2>1, <2>2, <2>3, <2>5, <2>6 DEF Together
<1>. QED  BY <1>n, <1>1, <1>2, <1>4, <1>5 DEF Together

\* The parts of a text are in a message, each where the one before it ends.
PartsAt(parts, data, bounds) ==
  /\ bounds \in [0..Len(parts) -> Nat]
  /\ \A i \in 1..Len(parts) :
       bounds[i] = bounds[i - 1] + Len(parts[i]) /\ PartAt(parts[i], data, bounds[i - 1])

\* Where the text is, there are its parts.
LEMMA PartsPlaced ==
  ASSUME NEW parts \in Seq(Octets), NEW data \in Octets, NEW o \in Nat,
         PartAt(FlattenSeq(parts), data, o)
  PROVE  \E bounds : /\ PartsAt(parts, data, bounds) /\ bounds[0] = o
                     /\ bounds[Len(parts)] = o + Len(FlattenSeq(parts))
                     /\ \A i \in 0..Len(parts) : bounds[i] >= o
<1>n. PICK n \in Nat : n = Len(parts) /\ DOMAIN parts = 1..n  OBVIOUS
<1>. DEFINE t(k) == Together(parts, k)
            bounds == [k \in 0..n |-> o + Len(t(k))]
            Has(k) == PartAt(t(k), data, o)
            T == {j \in Nat : j <= n => Has(n - j)}
<1>1. /\ t(0) = <<>> /\ t(n) = FlattenSeq(parts)
      /\ \A k \in 0..n : t(k) \in Octets
      /\ \A k \in 1..n : t(k) = t(k - 1) \o parts[k]
  BY <1>n, TogetherNext
<1>2. \A k \in 1..n : parts[k] \in Octets  BY <1>n
<1>. HIDE DEF t
<1>3. \A k \in 0..n : Len(t(k)) \in Nat  BY <1>1, OctetsAt
<1>4. ASSUME NEW k \in 1..n
      PROVE  /\ Len(t(k)) = Len(t(k - 1)) + Len(parts[k])
             /\ Has(k) => Has(k - 1) /\ PartAt(parts[k], data, o + Len(t(k - 1)))
  <2>1. PICK j \in 0..n : j = k - 1  OBVIOUS
  <2>2. t(j) \in Octets /\ parts[k] \in Octets /\ t(k) = t(j) \o parts[k]
    BY <1>1, <1>2, <2>1
  <2>3. Len(t(j) \o parts[k]) = Len(t(j)) + Len(parts[k])  BY <2>2, TwoParts
  <2>4. Has(k) => Has(j) /\ PartAt(parts[k], data, o + Len(t(j)))  BY <2>2, PartParts
  <2>. HIDE DEF Has
  <2>. QED  BY <2>1, <2>2, <2>3, <2>4
<1>5. 0 \in T
  <2>1. n - 0 = n  OBVIOUS
  <2>2. Has(n)  BY <1>1
  <2>. HIDE DEF Has
  <2>. QED  BY <2>1, <2>2
<1>. HIDE DEF Has
<1>6. ASSUME NEW j \in Nat, j \in T PROVE j + 1 \in T
  <2>. SUFFICES ASSUME j + 1 <= n PROVE Has(n - (j + 1))
    OBVIOUS
  <2>1. PICK k \in 1..n : k = n - j /\ k - 1 = n - (j + 1) /\ j <= n  BY <1>n
  <2>. QED  BY <1>4, <1>6, <2>1
<1>7. ASSUME NEW k \in 0..n PROVE Has(k)
  <2>1. \A j \in Nat : j \in T
    <3>. HIDE DEF T
    <3>. QED  BY <1>5, <1>6, SetInduction
  <2>2. PICK j \in Nat : j = n - k /\ j <= n /\ n - j = k  OBVIOUS
  <2>. QED  BY <2>1, <2>2
<1>8. bounds \in [0..n -> Nat]
  <2>1. \A k \in 0..n : o + Len(t(k)) \in Nat  BY <1>3
  <2>. QED  BY <2>1
<1>9. ASSUME NEW i \in 1..n
      PROVE  bounds[i] = bounds[i - 1] + Len(parts[i]) /\ PartAt(parts[i], data, bounds[i - 1])
  <2>1. PICK j \in 0..n : j = i - 1  OBVIOUS
  <2>2. i \in 0..n  OBVIOUS
  <2>3. PICK a \in Nat, b \in Nat, c \in Nat :
          a = Len(t(i)) /\ b = Len(t(j)) /\ c = Len(parts[i]) /\ a = b + c
    BY <1>2, <1>3, <1>4, <2>1, <2>2, OctetsAt
  <2>4. bounds[i] = o + a /\ bounds[j] = o + b  BY <2>1, <2>2, <2>3
  <2>5. PartAt(parts[i], data, o + b)  BY <1>4, <1>7, <2>1, <2>2, <2>3
  <2>6. o + a = (o + b) + c
    <3>1. \A x \in Nat, y \in Nat, z \in Nat : z + (x + y) = (z + x) + y  OBVIOUS
    <3>2. o + (b + c) = (o + b) + c  BY <3>1, Zenon
    <3>. QED  BY <2>3, <3>2
  <2>. HIDE DEF bounds
  <2>. QED  BY <2>1, <2>3, <2>4, <2>5, <2>6
<1>10. bounds[0] = o /\ bounds[n] = o + Len(FlattenSeq(parts))
  <2>1. 0 \in 0..n /\ n \in 0..n  OBVIOUS
  <2>2. Len(t(0)) = 0  BY <1>1
  <2>. QED  BY <1>1, <2>1, <2>2
<1>11. \A i \in 0..n : bounds[i] >= o  BY <1>3
<1>. HIDE DEF bounds
<1>. QED  BY <1>n, <1>8, <1>9, <1>10, <1>11 DEF PartsAt

\* Parts of one size are at equal distances.
AreOfSize(parts, width) == \A i \in 1..Len(parts) : Len(parts[i]) = width

LEMMA EqualParts ==
  ASSUME NEW width \in {2, 4}, NEW parts, Len(parts) \in Nat, NEW data, NEW bounds,
         PartsAt(parts, data, bounds), AreOfSize(parts, width)
  PROVE  \A i \in 0..Len(parts) : /\ width = 2 => bounds[i] = bounds[0] + 2 * i
                                  /\ width = 4 => bounds[i] = bounds[0] + 4 * i
<1>n. PICK n \in Nat : n = Len(parts)  OBVIOUS
<1>. DEFINE T == {i \in Nat : i <= n => bounds[i] = bounds[0] + width * i}
<1>1. bounds[0] \in Nat /\ \A i \in 1..n : bounds[i] = bounds[i - 1] + width
  BY <1>n DEF PartsAt, AreOfSize
<1>2. 0 \in T  BY <1>1
<1>3. ASSUME NEW i \in Nat, i \in T PROVE i + 1 \in T
  <2>. SUFFICES ASSUME i + 1 <= n PROVE bounds[i + 1] = bounds[0] + width * (i + 1)
    OBVIOUS
  <2>1. PICK k \in 1..n : k = i + 1 /\ k - 1 = i  BY <1>n
  <2>2. bounds[k] = bounds[i] + width  BY <1>1, <2>1
  <2>3. bounds[i] = bounds[0] + width * i  BY <1>3, <2>1
  <2>4. CASE width = 2  BY <1>1, <2>1, <2>2, <2>3, <2>4
  <2>5. CASE width = 4  BY <1>1, <2>1, <2>2, <2>3, <2>5
  <2>. QED  BY <2>4, <2>5
<1>4. \A i \in Nat : i \in T
  <2>. HIDE DEF T
  <2>. QED  BY <1>2, <1>3, SetInduction
<1>. QED  BY <1>n, <1>4

\* Numbers of 16 bits, or of 32, that are put one after another are read there.
AreNumbers(parts, numbers, width) ==
  /\ Len(parts) = Len(numbers)
  /\ \A i \in 1..Len(numbers) :
       parts[i] = IF width = 2 THEN U16(numbers[i]) ELSE U32(numbers[i])

LEMMA PlacedNumbers ==
  ASSUME NEW numbers \in Seq(Nat), NEW data \in Octets, NEW o \in Nat,
         NEW width \in {2, 4}, NEW parts \in Seq(Octets), AreNumbers(parts, numbers, width),
         PartAt(FlattenSeq(parts), data, o)
  PROVE  /\ Len(FlattenSeq(parts)) = width * Len(numbers)
         /\ \A i \in 1..Len(numbers) :
              /\ width = 2 => U16At(data, o + 2 * (i - 1)) = numbers[i]
              /\ width = 4 => U32At(data, o + 4 * (i - 1)) = numbers[i]
<1>n. PICK n \in Nat : n = Len(numbers) /\ n = Len(parts) /\ DOMAIN numbers = 1..n
  BY DEF AreNumbers
<1>1. \A i \in 1..n : numbers[i] \in Nat  BY <1>n
<1>3. ASSUME NEW i \in 1..n PROVE Len(parts[i]) = width
  <2>1. PICK v \in Nat : v = numbers[i]  BY <1>1
  <2>2. Len(U16(v)) = 2 /\ Len(U32(v)) = 4  BY NumbersType
  <2>. QED  BY <1>n, <2>1, <2>2 DEF AreNumbers
<1>5. PICK bounds : /\ PartsAt(parts, data, bounds) /\ bounds[0] = o
                    /\ bounds[Len(parts)] = o + Len(FlattenSeq(parts))
  BY PartsPlaced
<1>6. \A i \in 0..n : bounds[i] = o + width * i
  <2>1. AreOfSize(parts, width)  BY <1>n, <1>3 DEF AreOfSize
  <2>2. Len(parts) \in Nat  OBVIOUS
  <2>3. \A i \in 0..Len(parts) : /\ width = 2 => bounds[i] = bounds[0] + 2 * i
                                 /\ width = 4 => bounds[i] = bounds[0] + 4 * i
    BY <1>5, <2>1, <2>2, EqualParts
  <2>4. CASE width = 2  BY <1>n, <1>5, <2>3, <2>4
  <2>5. CASE width = 4  BY <1>n, <1>5, <2>3, <2>5
  <2>. QED  BY <2>4, <2>5
<1>7. Len(FlattenSeq(parts)) = width * n
  <2>1. FlattenSeq(parts) \in Octets  BY FlattenType DEF Octets
  <2>2. Len(FlattenSeq(parts)) \in Nat  BY <2>1, OctetsAt
  <2>3. o + width * n = o + Len(FlattenSeq(parts))  BY <1>n, <1>5, <1>6
  <2>4. CASE width = 2  BY <2>2, <2>3, <2>4
  <2>5. CASE width = 4  BY <2>2, <2>3, <2>5
  <2>. QED  BY <2>4, <2>5
<1>8. ASSUME NEW i \in 1..n
      PROVE  /\ width = 2 => U16At(data, o + 2 * (i - 1)) = numbers[i]
             /\ width = 4 => U32At(data, o + 4 * (i - 1)) = numbers[i]
  <2>1. PICK j \in 0..n : j = i - 1  OBVIOUS
  <2>2. PICK v \in Nat : v = numbers[i]  BY <1>1
  <2>3. PartAt(parts[i], data, bounds[j])
    BY <1>n, <1>5, <2>1 DEF PartsAt
  <2>4. CASE width = 2
    <3>1. PICK b \in Nat : b = o + 2 * j  OBVIOUS
    <3>2. PartAt(U16(v), data, b)  BY <1>6, <1>n, <2>1, <2>2, <2>3, <2>4, <3>1 DEF AreNumbers
    <3>. QED  BY <2>1, <2>2, <2>4, <3>1, <3>2, NumberRead
  <2>5. CASE width = 4
    <3>1. PICK b \in Nat : b = o + 4 * j  OBVIOUS
    <3>2. parts[i] = U32(v)  BY <1>n, <2>2, <2>5 DEF AreNumbers
    <3>3. bounds[j] = b  BY <1>6, <2>1, <2>5, <3>1
    <3>4. PartAt(U32(v), data, b)  BY <2>3, <3>2, <3>3
    <3>. QED  BY <2>1, <2>2, <2>5, <3>1, <3>4, LongRead
  <2>. QED  BY <2>4, <2>5
<1>. QED  BY <1>n, <1>7, <1>8

\* What the fields of a record are made of.
LEMMA NumbersPlaced ==
  ASSUME NEW value, value.numbers \in Seq(Nat), NEW data \in Octets, NEW o \in Nat
  PROVE  /\ PartAt(Text16(value), data, o) =>
              /\ Len(Text16(value)) = 2 * Len(value.numbers)
              /\ \A i \in 1..Len(value.numbers) : U16At(data, o + 2 * (i - 1)) = value.numbers[i]
         /\ PartAt(Text32(value), data, o) =>
              /\ Len(Text32(value)) = 4 * Len(value.numbers)
              /\ \A i \in 1..Len(value.numbers) : U32At(data, o + 4 * (i - 1)) = value.numbers[i]
<1>n. PICK numbers \in Seq(Nat) : numbers = value.numbers  OBVIOUS
<1>m. PICK n \in Nat : n = Len(numbers) /\ DOMAIN numbers = 1..n  OBVIOUS
<1>1. PICK short : short = [i \in DOMAIN numbers |-> U16(numbers[i])]  OBVIOUS
<1>2. PICK long : long = [i \in DOMAIN numbers |-> U32(numbers[i])]  OBVIOUS
<1>3. \A i \in 1..n : numbers[i] \in Nat /\ U16(numbers[i]) \in Octets /\ U32(numbers[i]) \in Octets
  BY <1>m, NumbersType
<1>4. /\ short \in Seq(Octets) /\ Len(short) = n
      /\ \A i \in 1..n : short[i] = U16(numbers[i])
  <2>1. short \in [1..n -> Octets]  BY <1>1, <1>3, <1>m
  <2>. QED  BY <1>1, <1>m, <2>1
<1>5. /\ long \in Seq(Octets) /\ Len(long) = n
      /\ \A i \in 1..n : long[i] = U32(numbers[i])
  <2>1. long \in [1..n -> Octets]  BY <1>2, <1>3, <1>m
  <2>. QED  BY <1>2, <1>m, <2>1
<1>6. Text16(value) = FlattenSeq(short) /\ Text32(value) = FlattenSeq(long)
  BY <1>1, <1>2, <1>n DEF Text16, Text32
<1>7. ASSUME PartAt(FlattenSeq(short), data, o)
      PROVE  /\ Len(FlattenSeq(short)) = 2 * n
             /\ \A i \in 1..n : U16At(data, o + 2 * (i - 1)) = numbers[i]
  <2>1. AreNumbers(short, numbers, 2)  BY <1>4, <1>m DEF AreNumbers
  <2>2. 2 \in {2, 4}  OBVIOUS
  <2>. QED  BY <1>4, <1>7, <1>m, <2>1, <2>2, PlacedNumbers
<1>8. ASSUME PartAt(FlattenSeq(long), data, o)
      PROVE  /\ Len(FlattenSeq(long)) = 4 * n
             /\ \A i \in 1..n : U32At(data, o + 4 * (i - 1)) = numbers[i]
  <2>1. AreNumbers(long, numbers, 4)  BY <1>5, <1>m DEF AreNumbers
  <2>2. 4 \in {2, 4}  OBVIOUS
  <2>. QED  BY <1>5, <1>8, <1>m, <2>1, <2>2, PlacedNumbers
<1>. QED  BY <1>6, <1>7, <1>8, <1>n, <1>m

\* The text of a name that is written in full.
NameText(name) == Labels(name) \o <<0>>


\* Where the labels of a name and a zero are, there is the name.
LEMMA NamePart ==
  ASSUME NEW name \in AnyName, NEW data \in Octets, NEW o \in Nat,
         PartAt(NameText(name), data, o)
  PROVE  NameIsAt(data, o, name) /\ Taken(name, Len(name)) = Len(Labels(name))
<1>n. PICK n \in Nat : n = Len(name)  BY DEF AnyName
<1>1. FirstLabels(name, n) = name
  BY <1>n, SubSeqFull DEF FirstLabels, AnyName
<1>2. PICK text \in Octets : text = Labels(name)  BY LabelsType
<1>3. <<0>> \in Octets /\ Len(<<0>>) = 1  BY DEF Octets
<1>4. PartAt(text, data, o) /\ PartAt(<<0>>, data, o + Len(text))
  BY <1>2, <1>3, PartParts DEF NameText
<1>5. Len(text) \in Nat /\ Len(data) \in Nat  BY OctetsAt
<1>6. o + Len(text) < Len(data) /\ At(data, o + Len(text)) = 0
  BY <1>3, <1>4, <1>5 DEF PartAt, At
<1>7. PICK h \in Octets : Len(h) = o /\ BeginsAs(h, data)
  <2>1. SubSeq(data, 1, o) \in Octets /\ Len(SubSeq(data, 1, o)) = o
        /\ \A i \in 1..o : SubSeq(data, 1, o)[i] = data[i]
    BY <1>5, <1>6 DEF Octets
  <2>2. BeginsAs(SubSeq(data, 1, o), data)  BY <1>5, <1>6, <2>1 DEF BeginsAs
  <2>. QED  BY <2>1, <2>2
<1>8. BeginsAs(h \o text, data)  BY <1>4, <1>7, BeginsParts
<1>9. PlacedAt(data, o, name, n)  BY <1>n, <1>1, <1>2, <1>7, <1>8, LabelsPlaced
<1>10. Taken(name, n) = Len(text)  BY <1>1, <1>2 DEF Taken
<1>. QED  BY <1>n, <1>2, <1>6, <1>9, <1>10 DEF NameIsAt

\* A part of a text, taken out of it.
LEMMA PartTaken ==
  ASSUME NEW part \in Octets, NEW data \in Octets, NEW o \in Nat, PartAt(part, data, o)
  PROVE  SubSeq(data, o + 1, o + Len(part)) = part
<1>1. PICK n \in Nat : n = Len(part) /\ part \in Seq(Nat) /\ data \in Seq(Nat)
  BY OctetsAt DEF Octets
<1>2. o + n <= Len(data) /\ \A k \in 1..n : data[o + k] = part[k]  BY <1>1 DEF PartAt
<1>3. PICK m \in Nat, l \in Nat : m = o + 1 /\ l = o + n  OBVIOUS
<1>4. m \in 1..Len(data) + 1 /\ l \in m - 1..Len(data) /\ l - m + 1 = n
  BY <1>1, <1>2, <1>3
<1>5. /\ SubSeq(data, m, l) \in Seq(Nat) /\ Len(SubSeq(data, m, l)) = n
      /\ \A k \in 1..n : SubSeq(data, m, l)[k] = data[m + k - 1]
  <2>1. m \in Int /\ l \in Int /\ \A k \in m..l : data[k] \in Nat  BY <1>1, <1>3, <1>4
  <2>2. /\ SubSeq(data, m, l) \in Seq(Nat)
        /\ Len(SubSeq(data, m, l)) = IF m <= l THEN l - m + 1 ELSE 0
        /\ \A k \in 1..l - m + 1 : SubSeq(data, m, l)[k] = data[m + k - 1]
    BY <2>1, SubSeqProperties
  <2>. QED  BY <1>1, <1>3, <1>4, <2>2
<1>6. \A k \in 1..n : m + k - 1 = o + k  BY <1>3
<1>7. \A k \in 1..n : SubSeq(data, m, l)[k] = part[k]  BY <1>2, <1>5, <1>6
<1>8. SubSeq(data, m, l) = part  BY <1>1, <1>5, <1>7, SeqEqual
<1>. QED  BY <1>1, <1>3, <1>8

-----------------------------------------------------------------------------
(* What is written of record data.                                         *)

\* Octets may be put together in any order.
LEMMA ConcatAgain ==
  ASSUME NEW a \in Octets, NEW b \in Octets, NEW c \in Octets
  PROVE  (a \o b) \o c = a \o (b \o c)
BY ConcatAssociative DEF Octets

\* The numbers and names of a value, by its type.
LEMMA NamedValue ==
  ASSUME NEW type \in NamedTypes, NEW value, IsValue(type, value)
  PROVE  /\ value = [numbers |-> value.numbers, names |-> value.names]
         /\ value.numbers \in Seq(Nat) /\ Len(value.numbers) = NumbersOf[type]
         /\ value.names[1] \in DnsNames
         /\ type = TypeSOA => /\ value.names[2] \in DnsNames
                              /\ value.names = <<value.names[1], value.names[2]>>
         /\ type # TypeSOA => value.names = <<value.names[1]>>
         /\ Text16(value) \in Octets /\ Text32(value) \in Octets
<1>1. /\ value \in NamesData /\ Len(value.numbers) = NumbersOf[type]
      /\ Len(value.names) = IF type = TypeSOA THEN 2 ELSE 1
  BY DEF IsValue
<1>2. value.numbers \in Seq(Nat) /\ value.names \in Seq(DnsNames)
      /\ value = [numbers |-> value.numbers, names |-> value.names]
  BY <1>1 DEF NamesData
<1>3. PICK names \in Seq(DnsNames) : names = value.names  BY <1>2
<1>4. CASE type = TypeSOA
  <2>1. Len(names) = 2  BY <1>1, <1>3, <1>4
  <2>2. names[1] \in DnsNames /\ names[2] \in DnsNames /\ names = <<names[1], names[2]>>
    BY <2>1
  <2>. QED  BY <1>1, <1>2, <1>3, <1>4, <2>2, TextsType
<1>5. CASE type # TypeSOA
  <2>1. Len(names) = 1  BY <1>1, <1>3, <1>5
  <2>2. names[1] \in DnsNames /\ names = <<names[1]>>  BY <2>1
  <2>. QED  BY <1>1, <1>2, <1>3, <1>5, <2>2, TextsType
<1>. QED  BY <1>4, <1>5

\* The data of a record as octets, with every name written in full.
PlainOctets(type, value) ==
  IF type = TypeSOA
  THEN (NameText(value.names[1]) \o NameText(value.names[2])) \o Text32(value)
  ELSE IF type \in NamedTypes THEN Text16(value) \o NameText(value.names[1])
  ELSE OtherText(type, value)

\* What finds the end of labels, from an offset on.
EndsAs(f, data, offset) ==
  f = [o \in offset..Len(data) |->
         IF o = Len(data) \/ At(data, o) = 0 THEN o
         ELSE IF o + 1 + At(data, o) > Len(data) THEN -1
         ELSE f[o + 1 + At(data, o)]]

\* Some function finds it, whatever the octets.
LEMMA EndsExist ==
  ASSUME NEW data \in Octets, NEW offset \in Nat
  PROVE  \E f : EndsAs(f, data, offset)
<1>. DEFINE S == offset..Len(data)
            T == {o \in S : /\ o # Len(data) /\ At(data, o) # 0
                            /\ ~ (o + 1 + At(data, o) > Len(data))}
            V == Int
            next == [o \in T |-> o + 1 + At(data, o)]
            base == [o \in S |-> IF o = Len(data) \/ At(data, o) = 0 THEN o ELSE -1]
            step == [x \in T \X V |-> x[2]]
<1>n. Len(data) \in Nat  BY OctetsAt
<1>1. next \in [T -> S]
  <2>1. ASSUME NEW o \in T PROVE o + 1 + At(data, o) \in S
    <3>1. o \in Nat /\ o < Len(data)  BY <1>n
    <3>2. At(data, o) \in Nat  BY <3>1, OctetsAt
    <3>3. o >= offset /\ ~ (o + 1 + At(data, o) > Len(data))  OBVIOUS
    <3>4. PICK a \in Nat : a = At(data, o)  BY <3>2
    <3>. QED  BY <1>n, <3>1, <3>3, <3>4
  <2>. QED  BY <2>1
<1>2. base \in [S -> V]  OBVIOUS
<1>3. step \in [T \X V -> V] /\ \A o \in T : step[<<o, -1>>] = -1 /\ \A v \in V : step[<<o, v>>] = v
  OBVIOUS
<1>4. T \in SUBSET S /\ -1 \in V  OBVIOUS
<1>d. /\ \A o \in T : next[o] = o + 1 + At(data, o)
      /\ \A o \in S : base[o] = IF o = Len(data) \/ At(data, o) = 0 THEN o ELSE -1
      /\ \A o \in S : o \in T <=> /\ o # Len(data) /\ At(data, o) # 0
                                  /\ ~ (o + 1 + At(data, o) > Len(data))
  OBVIOUS
<1>. HIDE DEF T, V, next, base, step
<1>5. PICK none : none = -1  OBVIOUS
<1>6. AreRules(S, T, V, none, next, base, step)
  <2>. HIDE DEF S
  <2>. QED  BY <1>1, <1>2, <1>3, <1>4, <1>5 DEF AreRules
<1>7. PICK f \in [S -> V] : Follows(f, S, T, next, base, step)
  <2>. HIDE DEF S
  <2>. QED  BY <1>6, FollowsExists
<1>8. ASSUME NEW o \in S
      PROVE  f[o] = IF o = Len(data) \/ At(data, o) = 0 THEN o
                    ELSE IF o + 1 + At(data, o) > Len(data) THEN -1
                    ELSE f[o + 1 + At(data, o)]
  <2>1. f[o] = IF o \in T THEN step[<<o, f[next[o]]>>] ELSE base[o]  BY <1>7 DEF Follows
  <2>2. CASE o \in T
    <3>1. next[o] \in S /\ f[next[o]] \in V  BY <1>1, <2>2
    <3>2. f[o] = f[next[o]]  BY <1>3, <2>1, <2>2, <3>1
    <3>. HIDE DEF S
    <3>. QED  BY <1>d, <2>2, <3>2
  <2>3. CASE o \notin T
    <3>. HIDE DEF S
    <3>. QED  BY <1>d, <2>1, <2>3
  <2>. QED  BY <2>2, <2>3
<1>. QED  BY <1>7, <1>8 DEF EndsAs

\* Labels that are there are passed over, whatever comes next.
LEMMA LabelsPassed ==
  ASSUME NEW data \in Octets, NEW start \in Nat, NEW f, EndsAs(f, data, start),
         NEW name, IsName(name), NEW m \in 0..Len(name), PlacedAt(data, start, name, m),
         start <= Len(data)
  PROVE  start + Taken(name, m) <= Len(data) /\ f[start] = f[start + Taken(name, m)]
<1>1. PICK n \in Nat : n = Len(name) /\ name \in AnyName /\ Len(data) \in Nat
  BY OctetsAt DEF IsName, AnyName
<1>2. \A k \in 0..n : Taken(name, k) \in Nat  BY <1>1, TakenType
<1>3. ASSUME NEW o \in start..Len(data), o # Len(data), At(data, o) # 0,
             o + 1 + At(data, o) <= Len(data)
      PROVE  f[o] = f[o + 1 + At(data, o)]
  <2>1. At(data, o) \in Nat
    <3>1. o \in Nat /\ o < Len(data)  BY <1>1, <1>3
    <3>. QED  BY <3>1, OctetsAt
  <2>2. ~ (o + 1 + At(data, o) > Len(data))  BY <1>1, <1>3, <2>1
  <2>. QED  BY <1>3, <2>2 DEF EndsAs
<1>. DEFINE Has(k) == start + Taken(name, k) <= Len(data) /\ f[start] = f[start + Taken(name, k)]
            T == {k \in Nat : k <= m => Has(k)}
<1>m. m \in Nat /\ m <= n  BY <1>1
<1>4. 0 \in T
  <2>1. Taken(name, 0) = 0 /\ start + 0 = start  BY NoLabels DEF Taken
  <2>. QED  BY <2>1
<1>5. ASSUME NEW k \in Nat, k \in T PROVE k + 1 \in T
  <2>. SUFFICES ASSUME k + 1 <= m PROVE Has(k + 1)
    OBVIOUS
  <2>1. k <= m /\ k \in 0..m - 1 /\ k \in 0..n /\ k + 1 \in 0..n /\ k + 1 \in 1..n  BY <1>m
  <2>2. Has(k)
    <3>. HIDE DEF Has
    <3>. QED  BY <1>5, <2>1
  <2>3. PICK o \in Nat, rest \in Nat, l \in 1..MaxLabel :
          /\ o = start + Taken(name, k) /\ rest = start + Taken(name, k + 1)
          /\ l = Len(name[k + 1])
    <3>1. Len(name[k + 1]) \in 1..MaxLabel  BY <1>1, <2>1 DEF IsName, AnyName
    <3>2. start + Taken(name, k) \in Nat /\ start + Taken(name, k + 1) \in Nat
      BY <1>2, <2>1
    <3>. QED  BY <3>1, <3>2
  <2>4. At(data, o) = l /\ rest = o + 1 + l /\ rest <= Len(data)
    BY <2>1, <2>3 DEF PlacedAt
  <2>5. start <= o
    <3>1. PICK t \in Nat : t = Taken(name, k)  BY <1>2, <2>1
    <3>2. o = start + t  BY <2>3, <3>1
    <3>. QED  BY <3>2
  <2>6. l # 0 /\ o \in start..Len(data) /\ o # Len(data)
    <3>1. l \in Nat /\ l # 0  BY l \in 1..MaxLabel DEF MaxLabel
    <3>. QED  BY <1>1, <2>4, <2>5, <3>1
  <2>7. f[o] = f[rest]  BY <1>3, <2>4, <2>6
  <2>. QED  BY <2>2, <2>3, <2>4, <2>7
<1>6. \A k \in Nat : k \in T
  <2>. HIDE DEF T
  <2>. QED  BY <1>4, <1>5, SetInduction
<1>. QED  BY <1>m, <1>6

\* The first labels of a name that are part of a message.
LEMMA LabelsPart ==
  ASSUME NEW name \in AnyName, NEW k \in 0..Len(name), NEW data \in Octets, NEW o \in Nat,
         PartAt(Labels(FirstLabels(name, k)), data, o)
  PROVE  PlacedAt(data, o, name, k) /\ o + Taken(name, k) <= Len(data)
<1>1. PICK text \in Octets : text = Labels(FirstLabels(name, k)) /\ Taken(name, k) = Len(text)
  BY TakenType DEF Taken
<1>2. Len(text) \in Nat /\ Len(data) \in Nat /\ o + Len(text) <= Len(data)
  BY <1>1, OctetsAt DEF PartAt
<1>3. PICK h \in Octets : Len(h) = o /\ BeginsAs(h, data)
  <2>1. SubSeq(data, 1, o) \in Octets /\ Len(SubSeq(data, 1, o)) = o
        /\ \A i \in 1..o : SubSeq(data, 1, o)[i] = data[i]
    BY <1>2 DEF Octets
  <2>2. BeginsAs(SubSeq(data, 1, o), data)  BY <1>2, <2>1 DEF BeginsAs
  <2>. QED  BY <2>1, <2>2
<1>4. BeginsAs(h \o text, data)  BY <1>1, <1>3, BeginsParts
<1>. QED  BY <1>1, <1>2, <1>3, <1>4, LabelsPlaced

\* Where labels end: at a zero behind them, or nowhere, if what is behind them, taken for
\* a length, leads out of the data.
LEMMA LabelsEndForm ==
  ASSUME NEW data \in Octets, NEW o \in Nat, NEW name, IsName(name), NEW k \in 0..Len(name),
         PartAt(Labels(FirstLabels(name, k)), data, o),
         NEW t \in Nat, t = o + Taken(name, k), t < Len(data)
  PROVE  /\ At(data, t) = 0 => LabelsEnd(data, o) = t
         /\ At(data, t) # 0 /\ t + 1 + At(data, t) > Len(data) => LabelsEnd(data, o) = -1
<1>1. name \in AnyName  BY DEF IsName
<1>2. PlacedAt(data, o, name, k)  BY <1>1, LabelsPart
<1>3. Taken(name, k) \in Nat /\ Len(data) \in Nat  BY <1>1, TakenType, OctetsAt
<1>4. o <= Len(data) /\ t \in o..Len(data) /\ t # Len(data) /\ o \in Int
  BY <1>3
<1>5. PICK f : f = CHOOSE g : EndsAs(g, data, o)  OBVIOUS
<1>6. EndsAs(f, data, o)  BY <1>5, EndsExist
<1>7. LabelsEnd(data, o) = f[o]
  <2>1. ~ (o > Len(data))  BY <1>3, <1>4
  <2>. QED  BY <1>5, <2>1 DEF LabelsEnd, EndsAs
<1>. HIDE <1>5
<1>8. f[o] = f[t]  BY <1>1, <1>2, <1>4, <1>6, LabelsPassed
<1>9. f[t] = IF At(data, t) = 0 THEN t
             ELSE IF t + 1 + At(data, t) > Len(data) THEN -1 ELSE f[t + 1 + At(data, t)]
  BY <1>4, <1>6 DEF EndsAs
<1>. QED  BY <1>7, <1>8, <1>9

\* What a writer may put for a name: its text, or the first labels and a pointer.
IsCutText(name, k, p) == k \in 0..Len(name) /\ k # Len(name) /\ p \in Nat /\ p < 16384
CutText(name, k, t) == Labels(FirstLabels(name, k)) \o Pointer(t)
IsTextOf(text, name) ==
  \/ text = NameText(name)
  \/ \E k \in 0..Len(name), p \in Nat : IsCutText(name, k, p) /\ text = CutText(name, k, p)

\* All the labels of a name take the most octets.
LEMMA TakenAll ==
  ASSUME NEW name \in AnyName
  PROVE  /\ FirstLabels(name, Len(name)) = name /\ Taken(name, Len(name)) = Len(Labels(name))
         /\ \A k \in 0..Len(name) - 1 : Taken(name, k) + 1 <= Len(Labels(name))
         /\ Labels(name) \in Octets /\ Len(Labels(name)) \in Nat
<1>n. PICK n \in Nat : n = Len(name)  BY DEF AnyName
<1>1. FirstLabels(name, n) = name  BY <1>n, SubSeqFull DEF FirstLabels, AnyName
<1>2. Taken(name, n) = Len(Labels(name))  BY <1>1 DEF Taken
<1>3. ASSUME NEW k \in 0..n - 1 PROVE Taken(name, k) + 1 <= Taken(name, n)
  <2>1. k \in Nat /\ k < Len(name) /\ k + 1 \in 0..n /\ k \in 0..n /\ k + 1 \in 1..n  BY <1>n
  <2>2. Taken(name, k + 1) = Taken(name, k) + 1 + Len(name[k + 1])  BY <2>1, TakenNext
  <2>3. Taken(name, k + 1) <= Taken(name, n)
    <3>1. n \in 0..Len(name)  BY <1>n
    <3>. QED  BY <2>1, <3>1, TakenGrows
  <2>4. name[k + 1] \in Octets  BY <1>n, <2>1 DEF AnyName
  <2>5. Len(name[k + 1]) \in Nat /\ Taken(name, k) \in Nat /\ Taken(name, n) \in Nat
    BY <1>n, <2>1, <2>4, OctetsAt, TakenType
  <2>. QED  BY <2>2, <2>3, <2>5
<1>4. Labels(name) \in Octets  BY LabelsType
<1>5. Len(Labels(name)) \in Nat  BY <1>4, OctetsAt
<1>. QED  BY <1>n, <1>1, <1>2, <1>3, <1>4, <1>5

\* The text of a name, and one with a pointer.
LEMMA NameTextType ==
  ASSUME NEW name \in AnyName
  PROVE  NameText(name) \in Octets /\ Len(NameText(name)) = Len(Labels(name)) + 1
<1>1. Labels(name) \in Octets /\ Len(Labels(name)) \in Nat  BY TakenAll
<1>2. <<0>> \in Octets /\ Len(<<0>>) = 1  BY DEF Octets
<1>. QED  BY <1>1, <1>2, TwoParts DEF NameText

\* With a pointer, a name takes two octets more than the labels that are left of it.
LEMMA CutTextType ==
  ASSUME NEW name \in AnyName, NEW k, NEW p, IsCutText(name, k, p)
  PROVE  /\ Pointer(p) \in Octets /\ CutText(name, k, p) \in Octets
         /\ Len(CutText(name, k, p)) = Taken(name, k) + 2 /\ Taken(name, k) \in Nat
<1>1. k \in 0..Len(name) /\ p \in Nat  BY DEF IsCutText
<1>2. PICK text : text = Labels(FirstLabels(name, k))  OBVIOUS
<1>3. text \in Octets /\ Len(text) = Taken(name, k) /\ Taken(name, k) \in Nat
  BY <1>1, <1>2, TakenType DEF Taken
<1>4. PICK v \in Nat : v = 49152 + p  BY <1>1
<1>5. PICK tail : tail = Pointer(p)  OBVIOUS
<1>6. tail = U16(v)  BY <1>4, <1>5 DEF Pointer
<1>7. tail \in Octets /\ Len(tail) = 2  BY <1>6, NumbersType
<1>8. text \o tail \in Octets /\ Len(text \o tail) = Len(text) + Len(tail)
  <2>1. text \in Octets /\ tail \in Octets  BY <1>3, <1>7
  <2>. QED  BY <2>1, TwoParts
<1>9. CutText(name, k, p) = text \o tail  BY <1>2, <1>5 DEF CutText
<1>. QED  BY <1>3, <1>5, <1>7, <1>8, <1>9

\* Either is octets, and takes no more of them than the name.
LEMMA TextOfType ==
  ASSUME NEW name \in AnyName, NEW text, IsTextOf(text, name)
  PROVE  text \in Octets /\ Len(text) \in Nat /\ Len(text) <= Len(Labels(name)) + 1
<1>1. CASE text = NameText(name)
  <2>1. Len(text) = Len(Labels(name)) + 1 /\ text \in Octets  BY <1>1, NameTextType
  <2>2. Len(Labels(name)) \in Nat  BY TakenAll
  <2>. QED  BY <2>1, <2>2
<1>2. CASE text # NameText(name)
  <2>1. PICK k \in 0..Len(name), p \in Nat : IsCutText(name, k, p) /\ text = CutText(name, k, p)
    BY <1>2 DEF IsTextOf
  <2>2. text \in Octets /\ Len(text) = Taken(name, k) + 2 /\ Taken(name, k) \in Nat
    BY <2>1, CutTextType
  <2>3. Taken(name, k) + 1 <= Len(Labels(name)) /\ Len(Labels(name)) \in Nat
    <3>1. k \in 0..Len(name) - 1  BY <2>1 DEF IsCutText, AnyName
    <3>. QED  BY <3>1, TakenAll
  <2>. QED  BY <2>2, <2>3
<1>. QED  BY <1>1, <1>2

\* A text with a pointer has no end for a decoder that knows none, unless much comes behind.
EndsHere(text, name, data, o) ==
  \/ text = NameText(name) /\ LabelsEnd(data, o) = o + Len(Labels(name))
  \/ Len(data) < o + Len(text) + 191 => LabelsEnd(data, o) = -1

\* So it is with either text, in whatever octets it is.
LEMMA TextEnds ==
  ASSUME NEW name, IsName(name), NEW text, IsTextOf(text, name),
         NEW data \in Octets, NEW o \in Nat, PartAt(text, data, o)
  PROVE  EndsHere(text, name, data, o)
<1>1. name \in AnyName /\ Len(data) \in Nat  BY OctetsAt DEF IsName
<1>2. CASE text = NameText(name)
  <2>1. PICK all \in Octets : all = Labels(name) /\ Len(all) \in Nat  BY <1>1, TakenAll
  <2>2. <<0>> \in Octets /\ Len(<<0>>) = 1  BY DEF Octets
  <2>3. PartAt(all, data, o) /\ PartAt(<<0>>, data, o + Len(all))
    BY <1>2, <2>1, <2>2, PartParts DEF NameText
  <2>4. PICK t \in Nat : t = o + Len(all) /\ t < Len(data) /\ At(data, t) = 0
    <3>1. PICK t \in Nat : t = o + Len(all)  BY <2>1
    <3>2. t + 1 <= Len(data) /\ data[t + 1] = 0  BY <2>2, <2>3, <3>1 DEF PartAt
    <3>. QED  BY <1>1, <3>1, <3>2 DEF At
  <2>5. PICK k \in 0..Len(name) : k = Len(name)  BY <1>1 DEF AnyName
  <2>6. Labels(FirstLabels(name, k)) = all /\ Taken(name, k) = Len(all)
    BY <1>1, <2>1, <2>5, TakenAll
  <2>7. LabelsEnd(data, o) = t  BY <2>3, <2>4, <2>6, LabelsEndForm, SMTT(30)
  <2>. QED  BY <1>2, <2>1, <2>4, <2>7 DEF EndsHere
<1>3. CASE text # NameText(name)
  <2>1. PICK k \in 0..Len(name), p \in Nat : IsCutText(name, k, p) /\ text = CutText(name, k, p)
    BY <1>3 DEF IsTextOf
  <2>2. k \in 0..Len(name)  OBVIOUS
  <2>3. PICK first \in Octets : first = Labels(FirstLabels(name, k)) /\ Len(first) = Taken(name, k)
                               /\ Len(first) \in Nat
    BY <1>1, <2>2, TakenType, OctetsAt DEF Taken
  <2>4. PICK tail \in Octets : tail = Pointer(p)  BY <1>1, <2>1, CutTextType
  <2>a. text = first \o tail  BY <2>1, <2>3, <2>4 DEF CutText
  <2>b. PartAt(first \o tail, data, o)  BY <2>a
  <2>c. PartAt(first, data, o) /\ PartAt(tail, data, o + Len(first))
    BY <2>b, PartParts
  <2>5. PartAt(first, data, o) /\ PartAt(Pointer(p), data, o + Len(first))
    BY <2>4, <2>c
  <2>6. PICK t \in Nat : t = o + Len(first)  BY <2>3
  <2>7. t + 2 <= Len(data) /\ At(data, t) >= 192
    <3>1. p \in Nat /\ p < 16384  BY <2>1 DEF IsCutText
    <3>. QED  BY <2>5, <2>6, <3>1, PointerRead
  <2>8. At(data, t) \in Nat /\ t < Len(data)  BY <1>1, <2>7, OctetsAt
  <2>9. At(data, t) # 0 /\ t + 1 + At(data, t) > Len(data) => LabelsEnd(data, o) = -1
    BY <2>2, <2>3, <2>5, <2>6, <2>8, LabelsEndForm
  <2>10. Len(text) = Len(first) + 2  
    <3>1. Len(CutText(name, k, p)) = Taken(name, k) + 2  BY <1>1, <2>1, CutTextType
    <3>. QED  BY <2>1, <2>3, <3>1
  <2>11. Len(data) < o + Len(text) + 191 => At(data, t) # 0 /\ t + 1 + At(data, t) > Len(data)
    <3>1. PICK a \in Nat, n \in Nat : a = At(data, t) /\ n = Len(data)  BY <1>1, <2>8
    <3>2. o + Len(text) = t + 2  BY <2>3, <2>6, <2>10
    <3>3. a >= 192  BY <2>7, <3>1
    <3>. QED  BY <3>1, <3>2, <3>3
  <2>. QED  BY <2>9, <2>11 DEF EndsHere
<1>. QED  BY <1>2, <1>3

\* Such a text is what a writer puts for a name.
LEMMA NameTold ==
  ASSUME NEW w \in Writings, IsSound(w), NEW name, IsName(name), NEW compress \in BOOLEAN
  PROVE  \E text \in Octets : /\ IsTextOf(text, name)
                              /\ PutName(w, name, compress).octets = w.octets \o text
<1>1. name \in AnyName  BY DEF IsName
<1>2. PICK k \in 0..Len(name) :
        IsCut(w, name, k, compress) /\ PutName(w, name, compress) = NameWritten(w, name, k)
  BY <1>1, PutNameForm
<1>3. PICK first \in Octets : first = Labels(FirstLabels(name, k))  BY <1>1, TakenType
<1>4. PICK tail \in Octets : tail = NameTail(w, name, k)  BY <1>1, <1>2, TailType
<1>5. PICK text \in Octets : text = first \o tail  BY TwoParts
<1>6. PutName(w, name, compress).octets = w.octets \o text
  <2>1. PutName(w, name, compress).octets = (w.octets \o first) \o tail
    BY <1>2, <1>3, <1>4 DEF NameWritten
  <2>2. w.octets \in Octets  BY DEF Writings
  <2>3. (w.octets \o first) \o tail = w.octets \o (first \o tail)  BY <2>2, ConcatAgain
  <2>. QED  BY <1>5, <2>1, <2>3
<1>7. CASE k = Len(name)
  <2>1. first = Labels(name)  BY <1>1, <1>3, <1>7, TakenAll
  <2>2. tail = <<0>>  BY <1>4, <1>7 DEF NameTail
  <2>3. text = NameText(name)  BY <1>5, <2>1, <2>2 DEF NameText
  <2>. QED  BY <1>6, <2>3 DEF IsTextOf
<1>8. CASE k # Len(name)
  <2>1. PICK p : p = w.at[Suffix(name, k + 1)]  OBVIOUS
  <2>2. p \in Nat /\ p < 16384  BY <1>1, <1>2, <1>8, <2>1, TailType
  <2>3. tail = Pointer(p)  BY <1>4, <1>8, <2>1 DEF NameTail
  <2>4. text = CutText(name, k, p)  BY <1>3, <1>5, <2>3 DEF CutText
  <2>5. IsCutText(name, k, p)  BY <1>8, <2>2 DEF IsCutText
  <2>6. IsTextOf(text, name)  BY <2>2, <2>4, <2>5 DEF IsTextOf
  <2>. QED  BY <1>6, <2>6
<1>. QED  BY <1>7, <1>8

\* So it does for one name or two, in record data.
OneNameTold(w, v, data) ==
  \E first \in Octets :
    IsTextOf(first, data.names[1]) /\ v.octets = w.octets \o first
TwoNamesTold(w, v, data) ==
  \E first \in Octets, second \in Octets :
    /\ IsTextOf(first, data.names[1]) /\ IsTextOf(second, data.names[2])
    /\ v.octets = w.octets \o (first \o second)

\* The names of record data are put as such texts, one after the other.
LEMMA NamesTold ==
  ASSUME NEW w \in Writings, IsSound(w), NEW type \in NamedTypes, NEW data, IsValue(type, data),
         NEW compress
  PROVE  /\ type # TypeSOA => OneNameTold(w, WithNames(w, type, data, compress), data)
         /\ type = TypeSOA => TwoNamesTold(w, WithNames(w, type, data, compress), data)
<1>1. data.names \in Seq(DnsNames) /\ Len(data.names) = IF type = TypeSOA THEN 2 ELSE 1
  BY TextsType DEF IsValue
<1>2. PICK short \in BOOLEAN : short = Short(type, compress)  BY DEF Short
<1>3. PICK f : f = CHOOSE g : PutsNames(g, w, data.names, short)  OBVIOUS
<1>4. PutsNames(f, w, data.names, short)  BY <1>1, <1>3, NamesPut
<1>5. WithNames(w, type, data, compress) = f[Len(data.names)]  BY <1>2, <1>3 DEF WithNames
<1>. HIDE <1>3
<1>6. ASSUME NEW i \in 0..Len(data.names)
      PROVE  f[i] = IF i = 0 THEN w ELSE PutName(f[i - 1], data.names[i], short)
  BY <1>4 DEF PutsNames
<1>7. PICK n1 : n1 = data.names[1] /\ IsName(n1)
  <2>1. 1 \in 1..Len(data.names)  BY <1>1
  <2>. QED  BY <1>1, <2>1 DEF DnsNames
<1>8. PICK v : v = PutName(w, n1, short)  OBVIOUS
<1>9. f[1] = v
  <2>1. 1 \in 0..Len(data.names) /\ 0 \in 0..Len(data.names)  BY <1>1
  <2>2. f[0] = w  BY <1>6, <2>1
  <2>3. f[1] = PutName(f[1 - 1], data.names[1], short)  BY <1>6, <2>1
  <2>4. 1 - 1 = 0  OBVIOUS
  <2>. QED  BY <1>7, <1>8, <2>2, <2>3, <2>4
<1>10. PICK first \in Octets : IsTextOf(first, n1) /\ v.octets = w.octets \o first
  BY <1>7, <1>8, NameTold
<1>11. ASSUME type # TypeSOA
       PROVE  WithNames(w, type, data, compress).octets = w.octets \o first
  BY <1>1, <1>5, <1>9, <1>10, <1>11
<1>12. ASSUME type = TypeSOA
       PROVE  \E second \in Octets :
                /\ IsTextOf(second, data.names[2])
                /\ WithNames(w, type, data, compress).octets = w.octets \o (first \o second)
  <2>1. PICK n2 : n2 = data.names[2] /\ IsName(n2)
    <3>1. 2 \in 1..Len(data.names)  BY <1>1, <1>12
    <3>. QED  BY <1>1, <3>1 DEF DnsNames
  <2>2. v \in Writings /\ IsSound(v)  BY <1>7, <1>8, NamePut DEF IsAfter
  <2>3. f[2] = PutName(v, n2, short)
    <3>1. 2 \in 0..Len(data.names)  BY <1>1, <1>12
    <3>2. f[2] = PutName(f[2 - 1], data.names[2], short)  BY <1>6, <3>1
    <3>3. 2 - 1 = 1  OBVIOUS
    <3>. QED  BY <1>9, <2>1, <3>2, <3>3
  <2>4. PICK second \in Octets :
          IsTextOf(second, n2) /\ PutName(v, n2, short).octets = v.octets \o second
    BY <2>1, <2>2, NameTold
  <2>5. (w.octets \o first) \o second = w.octets \o (first \o second)
    <3>1. w.octets \in Octets  BY DEF Writings
    <3>. QED  BY <3>1, ConcatAgain
  <2>6. WithNames(w, type, data, compress).octets = w.octets \o (first \o second)
    BY <1>1, <1>5, <1>10, <1>12, <2>3, <2>4, <2>5
  <2>. QED  BY <2>1, <2>4, <2>6
<1>. QED  BY <1>7, <1>10, <1>11, <1>12 DEF OneNameTold, TwoNamesTold

\* What a writer puts for record data, by type.
IsDataText(d, type, data) ==
  /\ type = TypeSOA => \E first \in Octets, second \in Octets :
       /\ IsTextOf(first, data.names[1]) /\ IsTextOf(second, data.names[2])
       /\ d = (first \o second) \o Text32(data)
  /\ type \in NamedTypes \ {TypeSOA} => \E first \in Octets :
       IsTextOf(first, data.names[1]) /\ d = Text16(data) \o first
  /\ type \notin NamedTypes => d = OtherText(type, data)

\* Record data are put so, behind what is there.
LEMMA DataTold ==
  ASSUME NEW w \in Writings, IsSound(w), NEW type, NEW data, IsValue(type, data), NEW compress
  PROVE  \E d \in Octets : /\ IsDataText(d, type, data)
                           /\ PutData(w, type, data, compress).octets = w.octets \o d
<1>w. w.octets \in Octets  BY DEF Writings
<1>1. CASE type = TypeSOA
  <2>0. type \in NamedTypes  BY <1>1, PutDataForm
  <2>1. PICK v : v = WithNames(w, type, data, compress)  OBVIOUS
  <2>2. PutData(w, type, data, compress) = Put(v, Text32(data))  BY <1>1, <2>1, PutDataForm
  <2>3. v \in Writings /\ IsSound(v)  BY <2>0, <2>1, WithNamesPut DEF IsAfter
  <2>4. PICK numbers \in Octets : numbers = Text32(data)  BY <2>0, TextsType
  <2>5. Put(v, numbers).octets = v.octets \o numbers  BY <2>3, OctetsPut
  <2>6. PICK first \in Octets, second \in Octets :
          /\ IsTextOf(first, data.names[1]) /\ IsTextOf(second, data.names[2])
          /\ v.octets = w.octets \o (first \o second)
    <3>1. TwoNamesTold(w, v, data)  BY <1>1, <2>0, <2>1, NamesTold
    <3>. QED  BY <3>1 DEF TwoNamesTold
  <2>7. PICK both \in Octets : both = first \o second  BY TwoParts
  <2>8. PICK d \in Octets : d = both \o numbers  BY TwoParts
  <2>9. (w.octets \o both) \o numbers = w.octets \o (both \o numbers)  BY <1>w, ConcatAgain
  <2>10. PutData(w, type, data, compress).octets = w.octets \o d
    BY <2>2, <2>4, <2>5, <2>6, <2>7, <2>8, <2>9
  <2>11. IsDataText(d, type, data)  BY <1>1, <2>0, <2>4, <2>6, <2>7, <2>8 DEF IsDataText
  <2>. QED  BY <2>10, <2>11
<1>2. CASE type \in NamedTypes \ {TypeSOA}
  <2>1. PICK numbers \in Octets : numbers = Text16(data)  BY <1>2, TextsType
  <2>2. PICK v : v = Put(w, numbers)  OBVIOUS
  <2>3. PutData(w, type, data, compress) = WithNames(v, type, data, compress)
    BY <1>2, <2>1, <2>2, PutDataForm
  <2>4. v \in Writings /\ IsSound(v) /\ v.octets = w.octets \o numbers
    BY <2>2, OctetsPut DEF IsAfter
  <2>5. PICK first \in Octets :
          /\ IsTextOf(first, data.names[1])
          /\ WithNames(v, type, data, compress).octets = v.octets \o first
    <3>1. OneNameTold(v, WithNames(v, type, data, compress), data)
      BY <1>2, <2>4, NamesTold
    <3>. QED  BY <3>1 DEF OneNameTold
  <2>6. PICK d \in Octets : d = numbers \o first  BY TwoParts
  <2>7. (w.octets \o numbers) \o first = w.octets \o (numbers \o first)  BY <1>w, ConcatAgain
  <2>8. PutData(w, type, data, compress).octets = w.octets \o d
    BY <2>3, <2>4, <2>5, <2>6, <2>7
  <2>9. IsDataText(d, type, data)  BY <1>2, <2>1, <2>5, <2>6 DEF IsDataText
  <2>. QED  BY <2>8, <2>9
<1>3. CASE type \notin NamedTypes
  <2>1. PICK d \in Octets : d = OtherText(type, data)  BY <1>3, TextsType
  <2>2. PutData(w, type, data, compress) = Put(w, d)  BY <1>3, <2>1, PutDataForm
  <2>3. Put(w, d).octets = w.octets \o d  BY OctetsPut
  <2>4. type # TypeSOA  BY <1>3, PutDataForm
  <2>5. IsDataText(d, type, data)  BY <1>3, <2>1, <2>4 DEF IsDataText
  <2>. QED  BY <2>2, <2>3, <2>5
<1>. QED  BY <1>1, <1>2, <1>3

\* Octets are a part of themselves.
LEMMA PartItself ==
  ASSUME NEW d \in Octets
  PROVE  PartAt(d, d, 0)
<1>1. Len(d) \in Nat  BY OctetsAt
<1>2. \A i \in 1..Len(d) : 0 + i = i  BY <1>1
<1>. QED  BY <1>1, <1>2 DEF PartAt

\* What the decoders want of the data of the types with names.
LEMMA ReadableForm ==
  ASSUME NEW type \in NamedTypes, NEW d, IsReadable(type, d)
  PROVE  /\ type # TypeSOA => LabelsEnd(d, 2 * NumbersOf[type]) # -1
         /\ type = TypeSOA => LabelsEnd(d, 0) # -1 /\ LabelsEnd(d, AfterName(d, 0)) # -1
         /\ NumbersOf[type] \in Nat /\ NumbersOf[TypeSOA] = 5
<1>. DEFINE Apart(t) == t \notin {TypeA, TypeAAAA, TypeTXT, TypeCAA}
<1>t. /\ NamedTypes = NameTypes \cup {TypeMX, TypeSRV, TypeSOA} /\ Apart(type)
      /\ TypeMX \notin NameTypes /\ TypeSRV \notin NameTypes /\ TypeSOA \notin NameTypes
      /\ TypeMX # TypeSRV /\ TypeMX # TypeSOA /\ TypeSRV # TypeSOA
  BY DEF NumbersOf, NamedTypes, NameTypes, TypeSOA, TypeMX, TypeSRV, TypeNS, TypeCNAME, TypePTR,
         TypeA, TypeAAAA, TypeTXT, TypeCAA
<1>n. /\ \A t \in NameTypes : NumbersOf[t] = 0
      /\ NumbersOf[TypeMX] = 1 /\ NumbersOf[TypeSRV] = 3 /\ NumbersOf[TypeSOA] = 5
  BY <1>t DEF NumbersOf
<1>1. CASE type \in NameTypes
  <2>1. HasName(d, 0)  BY <1>1, <1>t DEF IsReadable
  <2>2. 2 * NumbersOf[type] = 0 /\ type # TypeSOA  BY <1>1, <1>t, <1>n
  <2>. QED  BY <1>1, <1>n, <2>1, <2>2 DEF HasName
<1>2. CASE type = TypeMX
  <2>1. HasName(d, 2)  BY <1>2, <1>t DEF IsReadable, IsMXData
  <2>2. 2 * NumbersOf[type] = 2 /\ type # TypeSOA  BY <1>2, <1>t, <1>n
  <2>. QED  BY <1>2, <1>n, <2>1, <2>2 DEF HasName
<1>3. CASE type = TypeSRV
  <2>1. HasName(d, 6)  BY <1>3, <1>t DEF IsReadable, IsSRVData
  <2>2. 2 * NumbersOf[type] = 6 /\ type # TypeSOA  BY <1>3, <1>t, <1>n
  <2>. QED  BY <1>3, <1>n, <2>1, <2>2 DEF HasName
<1>4. CASE type = TypeSOA
  <2>1. HasName(d, 0) /\ HasName(d, AfterName(d, 0))  BY <1>4, <1>t DEF IsReadable, IsSOAData
  <2>. QED  BY <1>4, <1>n, <2>1 DEF HasName
<1>. QED  BY <1>t, <1>1, <1>2, <1>3, <1>4

\* Data that the decoders can read have their names in full.
LEMMA ReadableNamed ==
  ASSUME NEW type \in NamedTypes, type # TypeSOA, NEW value, IsValue(type, value),
         NEW d \in Octets, IsDataText(d, type, value), IsReadable(type, d)
  PROVE  d = PlainOctets(type, value)
<1>1. PICK name : name = value.names[1] /\ IsName(name) /\ name \in AnyName
  BY NamedValue DEF DnsNames
<1>2. PICK numbers \in Octets : numbers = Text16(value)  BY NamedValue
<1>3. PICK first \in Octets : IsTextOf(first, name) /\ d = numbers \o first
  BY <1>1, <1>2 DEF IsDataText
<1>4. PartAt(numbers, d, 0) /\ PartAt(first, d, 0 + Len(numbers))
  <2>1. PartAt(numbers \o first, d, 0)  BY <1>3, PartItself
  <2>. QED  BY <2>1, PartParts
<1>5. NumbersOf[type] \in Nat /\ LabelsEnd(d, 2 * NumbersOf[type]) # -1  BY ReadableForm
<1>6. Len(numbers) = 2 * NumbersOf[type]
  <2>1. value.numbers \in Seq(Nat) /\ Len(value.numbers) = NumbersOf[type]  BY NamedValue
  <2>2. PartAt(Text16(value), d, 0)  BY <1>2, <1>4
  <2>3. Len(Text16(value)) = 2 * Len(value.numbers)  BY <2>1, <2>2, NumbersPlaced
  <2>. QED  BY <1>2, <2>1, <2>3
<1>7. PICK o \in Nat : o = Len(numbers) /\ PartAt(first, d, o) /\ LabelsEnd(d, o) # -1
  BY <1>4, <1>5, <1>6
<1>8. EndsHere(first, name, d, o)  BY <1>1, <1>3, <1>7, TextEnds
<1>9. Len(d) = o + Len(first) /\ Len(first) \in Nat /\ Len(d) < o + Len(first) + 191
  <2>1. Len(numbers \o first) = Len(numbers) + Len(first)  BY TwoParts
  <2>2. Len(first) \in Nat  BY OctetsAt
  <2>. QED  BY <1>3, <1>7, <2>1, <2>2
<1>10. first = NameText(name)  BY <1>7, <1>8, <1>9 DEF EndsHere
<1>. QED  BY <1>1, <1>2, <1>3, <1>10 DEF PlainOctets

\* So it is with the two names of an SOA, unless the first is the root or the second long.
LEMMA ReadableSOA ==
  ASSUME NEW value, IsValue(TypeSOA, value), value.names[1] # <<>>,
         Len(Labels(value.names[2])) < 170,
         NEW d \in Octets, IsDataText(d, TypeSOA, value), IsReadable(TypeSOA, d)
  PROVE  d = PlainOctets(TypeSOA, value)
<1>t. TypeSOA \in NamedTypes  BY PutDataForm
<1>1. PICK n1, n2 : /\ n1 = value.names[1] /\ IsName(n1) /\ n1 \in AnyName
                    /\ n2 = value.names[2] /\ IsName(n2) /\ n2 \in AnyName
  BY <1>t, NamedValue DEF DnsNames
<1>2. PICK numbers \in Octets : numbers = Text32(value)  BY <1>t, NamedValue
<1>3. PICK first \in Octets, second \in Octets :
        /\ IsTextOf(first, n1) /\ IsTextOf(second, n2) /\ d = (first \o second) \o numbers
  BY <1>1, <1>2 DEF IsDataText
<1>l. PICK a \in Nat, b \in Nat, c \in Nat :
        a = Len(first) /\ b = Len(second) /\ c = Len(numbers)
  BY OctetsAt
<1>4. PICK both \in Octets : both = first \o second /\ Len(both) = a + b
  BY <1>l, TwoParts
<1>5. /\ PartAt(first, d, 0) /\ PartAt(second, d, a) /\ PartAt(numbers, d, a + b)
      /\ Len(d) = a + b + c
  <2>1. PartAt(both \o numbers, d, 0)  BY <1>3, <1>4, PartItself
  <2>2. PartAt(both, d, 0) /\ PartAt(numbers, d, 0 + Len(both))  BY <2>1, PartParts
  <2>3. PartAt(first \o second, d, 0)  BY <1>4, <2>2
  <2>4. PartAt(first, d, 0) /\ PartAt(second, d, 0 + Len(first))  BY <2>3, PartParts
  <2>5. Len(both \o numbers) = Len(both) + Len(numbers)  BY TwoParts
  <2>6. 0 + Len(both) = a + b /\ 0 + Len(first) = a  BY <1>l, <1>4
  <2>. QED  BY <1>3, <1>4, <1>l, <2>2, <2>4, <2>5, <2>6
<1>6. /\ LabelsEnd(d, 0) # -1 /\ LabelsEnd(d, AfterName(d, 0)) # -1 /\ NumbersOf[TypeSOA] = 5
  BY <1>t, ReadableForm
<1>7. c = 20
  <2>1. value.numbers \in Seq(Nat) /\ Len(value.numbers) = 5  BY <1>t, <1>6, NamedValue
  <2>2. PICK o \in Nat : o = a + b  OBVIOUS
  <2>3. PartAt(Text32(value), d, o)  BY <1>2, <1>5, <2>2
  <2>4. Len(Text32(value)) = 4 * Len(value.numbers)  BY <2>1, <2>3, NumbersPlaced
  <2>. QED  BY <1>2, <1>l, <2>1, <2>4
<1>8. b <= 170
  <2>1. b <= Len(Labels(n2)) + 1  BY <1>1, <1>3, <1>l, TextOfType
  <2>2. Len(Labels(n2)) < 170 /\ Len(Labels(n2)) \in Nat  BY <1>1, TakenAll
  <2>. QED  BY <2>1, <2>2
<1>9. first = NameText(n1) /\ LabelsEnd(d, 0) = 0 + Len(Labels(n1))
  <2>1. EndsHere(first, n1, d, 0)  BY <1>1, <1>3, <1>5, TextEnds
  <2>2. Len(d) < 0 + Len(first) + 191  BY <1>5, <1>7, <1>8, <1>l
  <2>. QED  BY <1>6, <2>1, <2>2 DEF EndsHere
<1>10. AfterName(d, 0) = a
  <2>1. PICK m \in Nat : m = Len(Labels(n1)) /\ a = m + 1
    <3>1. Len(NameText(n1)) = Len(Labels(n1)) + 1 /\ Len(Labels(n1)) \in Nat
      BY <1>1, NameTextType, TakenAll
    <3>. QED  BY <1>9, <1>l, <3>1
  <2>2. m # 0
    <3>1. PICK n \in Nat : n = Len(n1) /\ n # 0  BY <1>1 DEF AnyName
    <3>2. 0 \in 0..n - 1  BY <3>1
    <3>3. Taken(n1, 0) + 1 <= Len(Labels(n1))  BY <1>1, <3>1, <3>2, TakenAll
    <3>4. Taken(n1, 0) = 0  BY NoLabels DEF Taken
    <3>. QED  BY <2>1, <3>3, <3>4
  <2>3. LabelsEnd(d, 0) = m  BY <1>9, <2>1
  <2>. QED  BY <2>1, <2>2, <2>3 DEF AfterName
<1>11. second = NameText(n2)
  <2>1. EndsHere(second, n2, d, a)  BY <1>1, <1>3, <1>5, TextEnds
  <2>2. Len(d) < a + Len(second) + 191  BY <1>5, <1>7, <1>l
  <2>. QED  BY <1>6, <1>10, <2>1, <2>2 DEF EndsHere
<1>. QED  BY <1>1, <1>2, <1>3, <1>9, <1>11 DEF PlainOctets

\* Record data that were written, as far as the decoders can read them.
TellsTrue(d, rr) ==
  IsReadable(rr.type, d) /\ IsOrdinary(rr) => d = PlainOctets(rr.type, rr.data)

\* What was written for record data tells them in full, or no decoder reads it.
LEMMA ReadableTrue ==
  ASSUME NEW rr, IsRecord(rr), NEW d \in Octets, IsDataText(d, rr.type, rr.data)
  PROVE  TellsTrue(d, rr)
<1>. SUFFICES ASSUME IsReadable(rr.type, d), IsOrdinary(rr)
              PROVE  d = PlainOctets(rr.type, rr.data)
  BY DEF TellsTrue
<1>0. IsValue(rr.type, rr.data)  BY DEF IsRecord
<1>1. CASE rr.type = TypeSOA
  <2>1. rr.data.names[1] # <<>> /\ Len(Labels(rr.data.names[2])) < 170  BY <1>1 DEF IsOrdinary
  <2>. QED  BY <1>0, <1>1, <2>1, ReadableSOA
<1>2. CASE rr.type \in NamedTypes /\ rr.type # TypeSOA  BY <1>0, <1>2, ReadableNamed
<1>3. CASE rr.type \notin NamedTypes
  <2>1. rr.type # TypeSOA  BY <1>3, PutDataForm
  <2>. QED  BY <1>3, <2>1 DEF IsDataText, PlainOctets
<1>. QED  BY <1>1, <1>2, <1>3

\* The data of a record in a message.
DataOctets(data, offset, size) == SubSeq(data, offset + 1, offset + size)

-----------------------------------------------------------------------------
(* Records in a message.                                                   *)

\* The fixed part of a record, with the size of its data.
FixedPart(rr, size) == U16(rr.type) \o U16(rr.class) \o U32(rr.ttl) \o U16(size)

\* The fixed part of a record takes ten octets.
LEMMA FixedType ==
  ASSUME NEW rr, IsRecord(rr), NEW size \in Nat
  PROVE  FixedPart(rr, size) \in Octets /\ Len(FixedPart(rr, size)) = 10
<1>1. U16(rr.type) \in Octets /\ U16(rr.class) \in Octets /\ U32(rr.ttl) \in Octets
      /\ U16(size) \in Octets /\ Len(U16(rr.type)) = 2 /\ Len(U16(rr.class)) = 2
      /\ Len(U32(rr.ttl)) = 4 /\ Len(U16(size)) = 2
  BY NumbersType DEF IsRecord
<1>. DEFINE a == U16(rr.type) \o U16(rr.class)
            b == a \o U32(rr.ttl)
            c == b \o U16(size)
<1>2. FixedPart(rr, size) = c  BY DEF FixedPart
<1>3. a \in Octets /\ Len(a) = 4
  <2>1. a \in Octets /\ Len(a) = Len(U16(rr.type)) + Len(U16(rr.class))  BY <1>1, TwoParts
  <2>. HIDE DEF a
  <2>. QED  BY <2>1, <1>1
<1>. HIDE DEF a
<1>4. b \in Octets /\ Len(b) = 8
  <2>1. b \in Octets /\ Len(b) = Len(a) + Len(U32(rr.ttl))  BY <1>1, <1>3, TwoParts
  <2>. HIDE DEF b
  <2>. QED  BY <2>1, <1>1, <1>3
<1>. HIDE DEF b
<1>5. c \in Octets /\ Len(c) = 10
  <2>1. c \in Octets /\ Len(c) = Len(b) + Len(U16(size))  BY <1>1, <1>4, TwoParts
  <2>. HIDE DEF c
  <2>. QED  BY <2>1, <1>1, <1>4
<1>. QED  BY <1>2, <1>5

\* Type, class, TTL and size are read as they were written.
LEMMA FixedRead ==
  ASSUME NEW rr, IsRecord(rr), NEW size \in Nat,
         NEW data \in Octets, NEW o \in Nat, PartAt(FixedPart(rr, size), data, o)
  PROVE  /\ U16At(data, o) = rr.type /\ U16At(data, o + 2) = rr.class
         /\ U32At(data, o + 4) = rr.ttl /\ U16At(data, o + 8) = size
         /\ o + 10 <= Len(data)
<1>1. U16(rr.type) \in Octets /\ U16(rr.class) \in Octets /\ U32(rr.ttl) \in Octets
      /\ U16(size) \in Octets /\ Len(U16(rr.type)) = 2 /\ Len(U16(rr.class)) = 2
      /\ Len(U32(rr.ttl)) = 4 /\ Len(U16(size)) = 2
  BY NumbersType DEF IsRecord
<1>. DEFINE a == U16(rr.type) \o U16(rr.class)
            b == a \o U32(rr.ttl)
<1>2. FixedPart(rr, size) = b \o U16(size)  BY DEF FixedPart
<1>3. a \in Octets /\ Len(a) = 4
  <2>1. a \in Octets /\ Len(a) = Len(U16(rr.type)) + Len(U16(rr.class))  BY <1>1, TwoParts
  <2>. HIDE DEF a
  <2>. QED  BY <2>1, <1>1
<1>. HIDE DEF a
<1>4. b \in Octets /\ Len(b) = 8
  <2>1. b \in Octets /\ Len(b) = Len(a) + Len(U32(rr.ttl))  BY <1>1, <1>3, TwoParts
  <2>. HIDE DEF b
  <2>. QED  BY <2>1, <1>1, <1>3
<1>. HIDE DEF b
<1>5. PartAt(b, data, o) /\ PartAt(U16(size), data, o + 8)  BY <1>1, <1>2, <1>4, PartParts
<1>6. PartAt(a, data, o) /\ PartAt(U32(rr.ttl), data, o + 4)
  BY <1>1, <1>3, <1>5, PartParts DEF b
<1>7. PartAt(U16(rr.type), data, o) /\ PartAt(U16(rr.class), data, o + 2)
  BY <1>1, <1>6, PartParts DEF a
<1>8. rr.type \in Nat /\ rr.class \in Nat /\ rr.ttl \in Nat  BY DEF IsRecord
<1>9. U16At(data, o) = rr.type /\ U16At(data, o + 2) = rr.class  BY <1>7, <1>8, NumberRead
<1>10. U32At(data, o + 4) = rr.ttl  BY <1>6, <1>8, LongRead
<1>11. U16At(data, o + 8) = size /\ (o + 8) + 2 <= Len(data)  BY <1>5, NumberRead
<1>12. o + 10 <= Len(data)
  <2>1. Len(data) \in Nat  BY OctetsAt
  <2>. QED  BY <2>1, <1>11
<1>. QED  BY <1>9, <1>10, <1>11, <1>12

\* There is a record at an offset of the data, which ends before another, and its own
\* data are those that were written, as far as the decoders can read them.
RecordAt(data, o, rr, next) ==
  \E fixed \in Nat :
    /\ o < fixed /\ FoundAt(data, o, rr.name, fixed)
    /\ U16At(data, fixed) = rr.type /\ U16At(data, fixed + 2) = rr.class
    /\ U32At(data, fixed + 4) = rr.ttl
    /\ next = fixed + 10 + U16At(data, fixed + 8) /\ next <= Len(data)
    /\ TellsTrue(DataOctets(data, fixed + 10, U16At(data, fixed + 8)), rr)

\* The data of a record are put behind what is there.
DataIsPut(w, v, rr) ==
  \E d \in Octets : IsDataText(d, rr.type, rr.data) /\ v.octets = w.octets \o d

\* A record is put behind what is there, with the right size of its data.
LEMMA RecordPut ==
  ASSUME NEW w \in Writings, IsSound(w), NEW rr, IsRecord(rr), NEW compress,
         NEW v, v = PutRecord(w, rr, compress)
  PROVE  /\ IsAfter(w, v)
         /\ \A data \in Octets : BeginsAs(v.octets, data) =>
              RecordAt(data, Len(w.octets), rr, Len(v.octets))
<1>. DEFINE owner == PutName(w, rr.name, compress # "nothing")
            Head0(size) == Put(owner, FixedPart(rr, size))
            WithSize(size) == PutData(Head0(size), rr.type, rr.data, compress)
            start == Len(owner.octets) + 10
            size0 == Len(WithSize(0).octets) - start
<1>1. v = WithSize(size0)  BY DEF PutRecord, FixedPart
<1>2. /\ IsAfter(w, owner) /\ Len(owner.octets) > Len(w.octets)
      /\ \A data \in Octets : BeginsAs(owner.octets, data) =>
           FoundAt(data, Len(w.octets), rr.name, Len(owner.octets))
  BY NamePut DEF IsRecord
<1>. HIDE DEF owner
<1>3. owner \in Writings /\ IsSound(owner) /\ owner.octets \in Octets
      /\ Len(owner.octets) \in Nat /\ Len(w.octets) \in Nat
  <2>1. owner \in Writings /\ IsSound(owner)  BY <1>2 DEF IsAfter
  <2>. QED  BY <2>1, OctetsAt DEF Writings
<1>4. ASSUME NEW size \in Nat
      PROVE  /\ IsAfter(owner, Head0(size))
             /\ Head0(size).octets = owner.octets \o FixedPart(rr, size)
             /\ Len(Head0(size).octets) = start
             /\ IsAfter(Head0(size), WithSize(size))
             /\ start <= Len(WithSize(size).octets) /\ Len(WithSize(size).octets) \in Nat
             /\ DataIsPut(Head0(size), WithSize(size), rr)
  <2>1. FixedPart(rr, size) \in Octets /\ Len(FixedPart(rr, size)) = 10  BY FixedType
  <2>2. IsAfter(owner, Head0(size)) /\ Head0(size).octets = owner.octets \o FixedPart(rr, size)
    BY <1>3, <2>1, OctetsPut
  <2>3. Len(Head0(size).octets) = start
    <3>1. PICK n \in Nat : n = Len(owner.octets)  BY <1>3
    <3>2. Len(owner.octets \o FixedPart(rr, size)) =
            Len(owner.octets) + Len(FixedPart(rr, size))
      BY <1>3, <2>1, TwoParts
    <3>. QED  BY <2>1, <2>2, <3>1, <3>2
  <2>. DEFINE h == Head0(size)
  <2>4. h \in Writings /\ IsSound(h) /\ IsValue(rr.type, rr.data)
    BY <2>2 DEF IsAfter, IsRecord
  <2>5. IsAfter(h, PutData(h, rr.type, rr.data, compress))
    <3>. HIDE DEF h
    <3>. QED  BY <2>4, DataPut
  <2>a. DataIsPut(h, PutData(h, rr.type, rr.data, compress), rr)
    <3>. HIDE DEF h
    <3>. QED  BY <2>4, DataTold DEF DataIsPut
  <2>6. IsAfter(h, WithSize(size)) /\ DataIsPut(h, WithSize(size), rr)  BY <2>5, <2>a
  <2>. HIDE DEF h, WithSize
  <2>7. Len(h.octets) <= Len(WithSize(size).octets)  BY <2>6 DEF IsAfter, BeginsAs
  <2>8. Len(WithSize(size).octets) \in Nat  BY <2>6, OctetsAt DEF IsAfter, Writings
  <2>. QED  BY <2>2, <2>3, <2>6, <2>7, <2>8 DEF h
<1>5. ASSUME NEW a \in Nat, NEW b \in Nat
      PROVE  Len(WithSize(a).octets) = Len(WithSize(b).octets)
  <2>. DEFINE x == Head0(a)
              y == Head0(b)
  <2>1. FixedPart(rr, a) \in Octets /\ Len(FixedPart(rr, a)) = 10
        /\ FixedPart(rr, b) \in Octets /\ Len(FixedPart(rr, b)) = 10
    BY FixedType
  <2>2. IsLike(owner, owner)  BY DEF IsLike
  <2>3. IsLike(x, y)  BY <1>3, <2>1, <2>2, OctetsLike
  <2>4. x \in Writings /\ IsSound(x) /\ y \in Writings /\ IsSound(y)
    <3>1. IsAfter(owner, Head0(a)) /\ IsAfter(owner, Head0(b))  BY <1>4
    <3>. QED  BY <3>1 DEF IsAfter
  <2>5. IsValue(rr.type, rr.data)  BY DEF IsRecord
  <2>6. IsLike(PutData(x, rr.type, rr.data, compress), PutData(y, rr.type, rr.data, compress))
    <3>. HIDE DEF x, y
    <3>. QED  BY <2>3, <2>4, <2>5, PutDataLike
  <2>. QED  BY <2>6 DEF IsLike
<1>. HIDE DEF WithSize, Head0
<1>6. size0 \in Nat /\ start + size0 = Len(v.octets)
  <2>1. 0 \in Nat  OBVIOUS
  <2>2. start <= Len(WithSize(0).octets) /\ Len(WithSize(0).octets) \in Nat  BY <1>4, <2>1
  <2>3. size0 \in Nat  BY <1>3, <2>2
  <2>4. Len(WithSize(size0).octets) = Len(WithSize(0).octets)
    <3>. HIDE DEF size0
    <3>. QED  BY <1>5, <2>1, <2>3
  <2>5. start + size0 = Len(WithSize(0).octets)
    <3>1. PICK s \in Nat, l \in Nat : s = start /\ l = Len(WithSize(0).octets)  BY <1>3, <2>2
    <3>2. size0 = l - s  BY <3>1
    <3>3. s + (l - s) = l  OBVIOUS
    <3>. HIDE DEF size0, start
    <3>. QED  BY <3>1, <3>2, <3>3
  <2>. HIDE DEF size0
  <2>. QED  BY <1>1, <2>3, <2>4, <2>5
<1>. HIDE DEF size0
<1>7. IsAfter(owner, Head0(size0)) /\ IsAfter(Head0(size0), v)  BY <1>1, <1>4, <1>6
<1>8. IsAfter(owner, v) /\ IsAfter(w, v)
  BY <1>2, <1>3, <1>7, AfterTransitive
<1>9. ASSUME NEW data \in Octets, BeginsAs(v.octets, data)
      PROVE  RecordAt(data, Len(w.octets), rr, Len(v.octets))
  <2>1. v.octets \in Octets /\ Head0(size0).octets \in Octets
    BY <1>7 DEF IsAfter, Writings
  <2>2. BeginsAs(Head0(size0).octets, data) /\ BeginsAs(owner.octets, data)
    BY <1>3, <1>7, <1>8, <1>9, <2>1, BeginsTransitive DEF IsAfter
  <2>3. PartAt(FixedPart(rr, size0), data, Len(owner.octets))
    <3>1. BeginsAs(owner.octets \o FixedPart(rr, size0), data)  BY <1>4, <1>6, <2>2
    <3>2. FixedPart(rr, size0) \in Octets  BY <1>6, FixedType
    <3>. QED  BY <1>3, <3>1, <3>2, BeginsParts
  <2>. DEFINE fixed == Len(owner.octets)
  <2>4. /\ U16At(data, fixed) = rr.type /\ U16At(data, fixed + 2) = rr.class
        /\ U32At(data, fixed + 4) = rr.ttl /\ U16At(data, fixed + 8) = size0
    BY <1>3, <1>6, <2>3, FixedRead
  <2>5. FoundAt(data, Len(w.octets), rr.name, fixed)  BY <1>2, <2>2
  <2>6. Len(v.octets) <= Len(data)  BY <1>9 DEF BeginsAs
  <2>7. Len(v.octets) = fixed + 10 + size0  BY <1>6
  <2>8. fixed \in Nat /\ Len(w.octets) < fixed  BY <1>2, <1>3
  <2>9. TellsTrue(DataOctets(data, fixed + 10, size0), rr)
    <3>1. PICK h \in Octets : h = Head0(size0).octets /\ Len(h) = fixed + 10
      BY <1>4, <1>6, <2>1
    <3>2. PICK d \in Octets : IsDataText(d, rr.type, rr.data) /\ v.octets = h \o d
      <4>1. DataIsPut(Head0(size0), v, rr)  BY <1>1, <1>4, <1>6
      <4>. QED  BY <3>1, <4>1 DEF DataIsPut
    <3>3. Len(d) = size0
      <4>1. Len(h \o d) = Len(h) + Len(d)  BY TwoParts
      <4>2. Len(d) \in Nat /\ Len(h) \in Nat  BY OctetsAt
      <4>. QED  BY <1>6, <2>7, <3>1, <3>2, <4>1, <4>2
    <3>4. PartAt(d, data, Len(h))
      <4>1. BeginsAs(h \o d, data)  BY <1>9, <3>2
      <4>. QED  BY <4>1, BeginsParts
    <3>5. SubSeq(data, Len(h) + 1, Len(h) + Len(d)) = d
      <4>1. Len(h) \in Nat  BY OctetsAt
      <4>. QED  BY <3>4, <4>1, PartTaken
    <3>6. DataOctets(data, fixed + 10, size0) = d  BY <3>1, <3>3, <3>5 DEF DataOctets
    <3>. QED  BY <3>2, <3>6, ReadableTrue
  <2>. HIDE DEF fixed
  <2>. QED  BY <2>4, <2>5, <2>6, <2>7, <2>8, <2>9 DEF RecordAt
<1>. QED  BY <1>8, <1>9

\* Records are put one after the other.
IsRecords(rrs) == Len(rrs) \in Nat /\ \A i \in 1..Len(rrs) : IsRecord(rrs[i])
PutsRecords(f, w, rrs, compress) ==
  f = [i \in 0..Len(rrs) |-> IF i = 0 THEN w ELSE PutRecord(f[i - 1], rrs[i], compress)]

\* Records can be put one after the other, and each comes after all that was there.
LEMMA PutsRecordsExists ==
  ASSUME NEW w \in Writings, IsSound(w), NEW rrs, IsRecords(rrs), NEW compress
  PROVE  /\ \E f : PutsRecords(f, w, rrs, compress)
         /\ \A f : PutsRecords(f, w, rrs, compress) =>
              \A i \in 0..Len(rrs) : IsAfter(w, f[i])
<1>. DEFINE n == Len(rrs)
            V == {u \in Writings : IsAfter(w, u)}
            step == [x \in (1..n) \X V |-> PutRecord(x[2], rrs[x[1]], compress)]
            Puts(f) == PutsRecords(f, w, rrs, compress)
<1>n. n \in Nat  BY DEF IsRecords
<1>1. ASSUME NEW i \in 1..n, NEW v \in V PROVE PutRecord(v, rrs[i], compress) \in V
  <2>1. IsRecord(rrs[i])  BY DEF IsRecords
  <2>2. v \in Writings /\ IsSound(v) /\ IsAfter(w, v)  BY DEF IsAfter
  <2>3. IsAfter(v, PutRecord(v, rrs[i], compress))  BY <2>1, <2>2, RecordPut
  <2>. QED  BY <2>2, <2>3, AfterTransitive DEF IsAfter
<1>2. w \in V  BY AfterItself
<1>. HIDE DEF V, n
<1>3. step \in [(1..n) \X V -> V]  BY <1>1
<1>4. \A i \in 1..n, v \in V : step[<<i, v>>] = PutRecord(v, rrs[i], compress)  OBVIOUS
<1>. HIDE DEF step
<1>5. AreSteps(n, V, w, step)  BY <1>n, <1>2, <1>3 DEF AreSteps
<1>6. PICK h \in [0..n -> V] : Recurs(h, n, w, step)  BY <1>5, RecursionExists
<1>7. Puts(h)
  <2>1. ASSUME NEW i \in 0..n
        PROVE  h[i] = IF i = 0 THEN w ELSE PutRecord(h[i - 1], rrs[i], compress)
    <3>1. CASE i = 0  BY <3>1, <1>6 DEF Recurs
    <3>2. CASE i # 0
      <4>1. i \in 1..n /\ i - 1 \in 0..n  BY <3>2, <1>n
      <4>2. h[i - 1] \in V  BY <4>1
      <4>. QED  BY <3>2, <4>1, <4>2, <1>4, <1>6 DEF Recurs
    <3>. QED  BY <3>1, <3>2
  <2>. QED  BY <2>1 DEF PutsRecords, n
<1>. SUFFICES ASSUME NEW put, Puts(put) PROVE \A i \in 0..n : IsAfter(w, put[i])
  BY <1>7 DEF n
<1>9. put[0] = w /\ \A i \in 1..n : put[i] = PutRecord(put[i - 1], rrs[i], compress)
  <2>1. ASSUME NEW i \in 0..n
        PROVE  put[i] = IF i = 0 THEN w ELSE PutRecord(put[i - 1], rrs[i], compress)
    BY DEF PutsRecords, n
  <2>. QED  BY <2>1, <1>n
<1>10. ASSUME NEW i \in 1..n, put[i - 1] \in V PROVE put[i] = step[<<i, put[i - 1]>>]
  BY <1>4, <1>9, <1>10
<1>11. \A i \in 0..n : put[i] \in V
  <2>1. put[0] = w  BY <1>9
  <2>. QED  BY <1>5, <1>10, <2>1, RecursionType
<1>. QED  BY <1>11 DEF V

\* Each record is found where the one before it ends.
RecordsAt(data, rrs, bounds) ==
  \A i \in 1..Len(rrs) : RecordAt(data, bounds[i - 1], rrs[i], bounds[i])

\* Records put one after the other are found one after the other, at some offsets.
LEMMA RecordsPut ==
  ASSUME NEW w \in Writings, IsSound(w), NEW rrs, IsRecords(rrs), NEW compress,
         NEW v, v = PutRecords(w, rrs, compress)
  PROVE  /\ IsAfter(w, v)
         /\ \E bounds \in [0..Len(rrs) -> Nat] :
              /\ bounds[0] = Len(w.octets)
              /\ \A data \in Octets : BeginsAs(v.octets, data) => RecordsAt(data, rrs, bounds)
<1>n. PICK n \in Nat : n = Len(rrs)  BY DEF IsRecords
<1>1. PICK f : f = CHOOSE g : PutsRecords(g, w, rrs, compress)  OBVIOUS
<1>2. v = f[n]  BY <1>n, <1>1 DEF PutRecords, PutsRecords
<1>3. PutsRecords(f, w, rrs, compress)  BY <1>1, PutsRecordsExists
<1>. HIDE <1>1
<1>4. \A i \in 0..n : IsAfter(w, f[i])  BY <1>n, <1>3, PutsRecordsExists
<1>5. ASSUME NEW i \in 0..n
      PROVE  f[i] = IF i = 0 THEN w ELSE PutRecord(f[i - 1], rrs[i], compress)
  BY <1>n, <1>3 DEF PutsRecords
<1>6. ASSUME NEW i \in 1..n
      PROVE  /\ IsAfter(f[i - 1], f[i])
             /\ \A data \in Octets : BeginsAs(f[i].octets, data) =>
                  RecordAt(data, Len(f[i - 1].octets), rrs[i], Len(f[i].octets))
  <2>1. i - 1 \in 0..n /\ i \in 0..n /\ i # 0  OBVIOUS
  <2>2. f[i] = PutRecord(f[i - 1], rrs[i], compress)  BY <1>5, <2>1
  <2>3. f[i - 1] \in Writings /\ IsSound(f[i - 1])  BY <1>4, <2>1 DEF IsAfter
  <2>4. IsRecord(rrs[i])  BY <1>n DEF IsRecords
  <2>. QED  BY <2>2, <2>3, <2>4, RecordPut
<1>. DEFINE Has(m) == \A data \in Octets : BeginsAs(f[m].octets, data) =>
                        \A i \in 1..m : RecordAt(data, Len(f[i - 1].octets), rrs[i], Len(f[i].octets))
            T == {m \in Nat : m <= n => Has(m)}
<1>7. 0 \in T  OBVIOUS
<1>8. ASSUME NEW m \in Nat, m \in T PROVE m + 1 \in T
  <2>. SUFFICES ASSUME m + 1 <= n PROVE Has(m + 1)
    OBVIOUS
  <2>1. PICK k \in 1..n : k = m + 1 /\ k - 1 = m  BY <1>n
  <2>2. Has(m)
    <3>1. m <= n  BY <2>1
    <3>. HIDE DEF Has
    <3>. QED  BY <1>8, <3>1
  <2>3. ASSUME NEW data \in Octets, BeginsAs(f[k].octets, data), NEW i \in 1..k
        PROVE  RecordAt(data, Len(f[i - 1].octets), rrs[i], Len(f[i].octets))
    <3>1. CASE i = k  BY <1>6, <2>3, <3>1
    <3>2. CASE i # k
      <4>1. i \in 1..m  BY <2>1, <3>2
      <4>2. m \in 0..n /\ k \in 0..n  BY <2>1
      <4>3. f[m].octets \in Octets /\ f[k].octets \in Octets
        BY <1>4, <4>2 DEF IsAfter, Writings
      <4>4. BeginsAs(f[m].octets, f[k].octets)  BY <1>6, <2>1 DEF IsAfter
      <4>5. BeginsAs(f[m].octets, data)  BY <2>3, <4>3, <4>4, BeginsTransitive
      <4>. QED  BY <2>2, <4>1, <4>5
    <3>. QED  BY <3>1, <3>2
  <2>. QED  BY <2>1, <2>3
<1>9. Has(n)
  <2>1. \A m \in Nat : m \in T
    <3>. HIDE DEF T
    <3>. QED  BY <1>7, <1>8, SetInduction
  <2>. HIDE DEF Has
  <2>. QED  BY <2>1
<1>. DEFINE bounds == [i \in 0..n |-> Len(f[i].octets)]
<1>10. bounds \in [0..n -> Nat]
  <2>1. \A i \in 0..n : Len(f[i].octets) \in Nat  BY <1>4, OctetsAt DEF IsAfter, Writings
  <2>. QED  BY <2>1
<1>11. \A i \in 1..n : bounds[i] = Len(f[i].octets) /\ bounds[i - 1] = Len(f[i - 1].octets)
  <2>1. \A i \in 1..n : i \in 0..n /\ i - 1 \in 0..n  OBVIOUS
  <2>. QED  BY <2>1
<1>12. bounds[0] = Len(w.octets)
  <2>1. 0 \in 0..n  OBVIOUS
  <2>2. f[0] = w  BY <1>5, <2>1
  <2>. QED  BY <2>1, <2>2
<1>. HIDE DEF bounds
<1>13. \A data \in Octets : BeginsAs(v.octets, data) => RecordsAt(data, rrs, bounds)
  BY <1>n, <1>2, <1>9, <1>11 DEF RecordsAt
<1>14. IsAfter(w, v)
  <2>1. n \in 0..n  OBVIOUS
  <2>. QED  BY <1>2, <1>4, <2>1
<1>. QED  BY <1>n, <1>10, <1>12, <1>13, <1>14

-----------------------------------------------------------------------------
(* Messages: a header, a question and records.                             *)

\* One more number behind some octets.
LEMMA NumberAppended ==
  ASSUME NEW x \in Octets, NEW v \in Nat
  PROVE  /\ x \o U16(v) \in Octets /\ Len(x \o U16(v)) = Len(x) + 2
         /\ \A data \in Octets : PartAt(x \o U16(v), data, 0) =>
              PartAt(x, data, 0) /\ U16At(data, Len(x)) = v
<1>. DEFINE y == x \o U16(v)
<1>1. U16(v) \in Octets /\ Len(U16(v)) = 2 /\ Len(x) \in Nat  BY NumbersType, OctetsAt
<1>2. y \in Octets /\ Len(y) = Len(x) + Len(U16(v))  BY <1>1, TwoParts
<1>3. ASSUME NEW data \in Octets, PartAt(y, data, 0)
      PROVE  PartAt(x, data, 0) /\ U16At(data, Len(x)) = v
  <2>1. PartAt(U16(v), data, 0 + Len(x)) /\ PartAt(x, data, 0)  BY <1>1, <1>3, PartParts
  <2>2. PartAt(U16(v), data, Len(x))  BY <1>1, <2>1
  <2>. QED  BY <1>1, <2>1, <2>2, NumberRead
<1>. HIDE DEF y
<1>4. Len(y) = Len(x) + 2
  <2>. HIDE <1>3
  <2>. QED  BY <1>1, <1>2
<1>. QED  BY <1>2, <1>3, <1>4 DEF y

\* The six numbers of a header: an ID, the flags and the counts of the four sections.
SixNumbers(id, flags, counts) ==
  U16(id) \o U16(flags) \o U16(counts[1]) \o U16(counts[2]) \o U16(counts[3]) \o U16(counts[4])
AreCounts(counts) == \A i \in 1..4 : counts[i] \in Nat

\* A header is octets, and has its numbers at their places.
LEMMA SixRead ==
  ASSUME NEW id \in Nat, NEW flags \in Nat, NEW counts, AreCounts(counts)
  PROVE  /\ SixNumbers(id, flags, counts) \in Octets
         /\ Len(SixNumbers(id, flags, counts)) = HeaderSize
         /\ \A data \in Octets : BeginsAs(SixNumbers(id, flags, counts), data) =>
              /\ U16At(data, 0) = id /\ U16At(data, 2) = flags /\ U16At(data, 4) = counts[1]
              /\ U16At(data, 6) = counts[2] /\ U16At(data, 8) = counts[3]
              /\ U16At(data, 10) = counts[4]
<1>n. PICK c \in Nat, d \in Nat, e \in Nat, f \in Nat :
        c = counts[1] /\ d = counts[2] /\ e = counts[3] /\ f = counts[4]
  BY DEF AreCounts
<1>. DEFINE x1 == U16(id)
            x2 == x1 \o U16(flags)
            x3 == x2 \o U16(c)
            x4 == x3 \o U16(d)
            x5 == x4 \o U16(e)
            x6 == x5 \o U16(f)
            Has(x, data) == PartAt(x, data, 0)
<1>0. SixNumbers(id, flags, counts) = x6  BY <1>n DEF SixNumbers
<1>. HIDE <1>n
<1>1. /\ x1 \in Octets /\ Len(x1) = 2
      /\ \A data \in Octets : Has(x1, data) => U16At(data, 0) = id
  BY NumbersType, NumberRead
<1>. HIDE DEF x1
<1>2. /\ x2 \in Octets /\ Len(x2) = 4
      /\ \A data \in Octets : Has(x2, data) => Has(x1, data) /\ U16At(data, 2) = flags
  <2>1. /\ x2 \in Octets /\ Len(x2) = Len(x1) + 2
        /\ \A data \in Octets : Has(x2, data) => Has(x1, data) /\ U16At(data, Len(x1)) = flags
    BY <1>1, NumberAppended
  <2>. HIDE DEF x2, Has
  <2>. QED  BY <1>1, <2>1
<1>. HIDE DEF x2
<1>3. /\ x3 \in Octets /\ Len(x3) = 6
      /\ \A data \in Octets : Has(x3, data) => Has(x2, data) /\ U16At(data, 4) = c
  <2>1. /\ x3 \in Octets /\ Len(x3) = Len(x2) + 2
        /\ \A data \in Octets : Has(x3, data) => Has(x2, data) /\ U16At(data, Len(x2)) = c
    BY <1>2, NumberAppended
  <2>. HIDE DEF x3, Has
  <2>. QED  BY <1>2, <2>1
<1>. HIDE DEF x3
<1>4. /\ x4 \in Octets /\ Len(x4) = 8
      /\ \A data \in Octets : Has(x4, data) => Has(x3, data) /\ U16At(data, 6) = d
  <2>1. /\ x4 \in Octets /\ Len(x4) = Len(x3) + 2
        /\ \A data \in Octets : Has(x4, data) => Has(x3, data) /\ U16At(data, Len(x3)) = d
    BY <1>3, NumberAppended
  <2>. HIDE DEF x4, Has
  <2>. QED  BY <1>3, <2>1
<1>. HIDE DEF x4
<1>5. /\ x5 \in Octets /\ Len(x5) = 10
      /\ \A data \in Octets : Has(x5, data) => Has(x4, data) /\ U16At(data, 8) = e
  <2>1. /\ x5 \in Octets /\ Len(x5) = Len(x4) + 2
        /\ \A data \in Octets : Has(x5, data) => Has(x4, data) /\ U16At(data, Len(x4)) = e
    BY <1>4, NumberAppended
  <2>. HIDE DEF x5, Has
  <2>. QED  BY <1>4, <2>1
<1>. HIDE DEF x5
<1>6. /\ x6 \in Octets /\ Len(x6) = 12
      /\ \A data \in Octets : Has(x6, data) => Has(x5, data) /\ U16At(data, 10) = f
  <2>1. /\ x6 \in Octets /\ Len(x6) = Len(x5) + 2
        /\ \A data \in Octets : Has(x6, data) => Has(x5, data) /\ U16At(data, Len(x5)) = f
    BY <1>5, NumberAppended
  <2>. HIDE DEF x6, Has
  <2>. QED  BY <1>5, <2>1
<1>. HIDE DEF x6
<1>7. ASSUME NEW data \in Octets, BeginsAs(x6, data) PROVE Has(x6, data)
  <2>1. Len(x6) \in Nat /\ Len(data) \in Nat  BY <1>6, OctetsAt
  <2>. QED  BY <1>7, <2>1 DEF BeginsAs, PartAt
<1>. HIDE DEF Has
<1>. QED  BY <1>n, <1>0, <1>1, <1>2, <1>3, <1>4, <1>5, <1>6, <1>7 DEF HeaderSize

\* A question behind a header.
LEMMA QuestionPut ==
  ASSUME NEW w \in Writings, IsSound(w), NEW q, IsQuestion(q),
         NEW v, v = PutQuestion(w, q)
  PROVE  IsAfter(w, v) /\ v.octets = w.octets \o QuestionOctets(q)
<1>1. IsName(q.name) /\ q.name \in AnyName  BY QuestionFields
<1>. DEFINE u == PutName(w, q.name, FALSE)
            L == Labels(q.name)
            numbers == U16(q.type) \o U16(q.class)
<1>2. L \in Octets /\ numbers \in Octets /\ w.octets \in Octets /\ <<0>> \in Octets
  BY QuestionType DEF Writings, Octets
<1>3. v = Put(u, numbers)  BY DEF PutQuestion
<1>4. u.octets = (w.octets \o L) \o <<0>>
  <2>1. PICK k \in 0..Len(q.name) : /\ IsCut(w, q.name, k, FALSE)
                                   /\ PutName(w, q.name, FALSE) = NameWritten(w, q.name, k)
    BY <1>1, PutNameForm
  <2>2. k = Len(q.name)  BY <2>1 DEF IsCut
  <2>3. FirstLabels(q.name, k) = q.name  BY <1>1, <2>2, SubSeqFull DEF FirstLabels, AnyName
  <2>4. NameTail(w, q.name, k) = <<0>>  BY <2>2 DEF NameTail
  <2>5. NameWritten(w, q.name, k).octets = w.octets \o Labels(FirstLabels(q.name, k)) \o NameTail(w, q.name, k)
    BY DEF NameWritten
  <2>. QED  BY <2>1, <2>3, <2>4, <2>5
<1>5. IsAfter(w, u)  BY <1>1, NamePut
<1>. HIDE DEF u, L, numbers
<1>6. IsAfter(u, v) /\ v.octets = u.octets \o numbers  BY <1>2, <1>3, <1>5, OctetsPut DEF IsAfter
<1>7. IsAfter(w, v)  BY <1>5, <1>6, AfterTransitive
<1>8. ((w.octets \o L) \o <<0>>) \o numbers = w.octets \o ((L \o <<0>>) \o numbers)
  <2>1. (w.octets \o L) \o <<0>> = w.octets \o (L \o <<0>>)  BY <1>2, ConcatAgain
  <2>2. L \o <<0>> \in Octets  BY <1>2, ConcatOctets
  <2>3. (w.octets \o (L \o <<0>>)) \o numbers = w.octets \o ((L \o <<0>>) \o numbers)
    BY <1>2, <2>2, ConcatAgain
  <2>. QED  BY <2>1, <2>3
<1>9. QuestionOctets(q) = (L \o <<0>>) \o numbers  BY DEF QuestionOctets, L, numbers
<1>. QED  BY <1>4, <1>6, <1>7, <1>8, <1>9

\* A header and a question, as they are written.
HeadOctets(id, flags, counts, q) == SixNumbers(id, flags, counts) \o QuestionOctets(q)

\* The start of a message that is written.
LEMMA HeadPut ==
  ASSUME NEW id \in Nat, NEW flags \in Nat, NEW counts, AreCounts(counts),
         NEW q, IsQuestion(q), NEW v, v = PutQuestion(Header(id, flags, counts), q)
  PROVE  /\ v \in Writings /\ IsSound(v)
         /\ v.octets = HeadOctets(id, flags, counts, q)
         /\ Len(v.octets) = QuestionEnd(q) + 4
<1>. DEFINE h == Header(id, flags, counts)
            six == SixNumbers(id, flags, counts)
<1>1. h = [octets |-> six, at |-> <<>>]  BY DEF Header, SixNumbers
<1>2. six \in Octets /\ Len(six) = HeaderSize  BY SixRead
<1>. HIDE DEF h, six
<1>3. h \in Writings
  <2>1. <<>> \in [{} -> Nat]  OBVIOUS
  <2>2. <<>> \in Maps  BY <2>1 DEF Maps
  <2>. QED  BY <1>1, <1>2, <2>2 DEF Writings
<1>4. IsSound(h)
  <2>1. h.at = <<>> /\ DOMAIN <<>> = {}  BY <1>1
  <2>. QED  BY <2>1 DEF IsSound
<1>5. IsAfter(h, v) /\ v.octets = h.octets \o QuestionOctets(q)
  BY <1>3, <1>4, QuestionPut DEF h
<1>6. h.octets = six  BY <1>1
<1>7. Len(v.octets) = QuestionEnd(q) + 4
  <2>1. QuestionOctets(q) \in Octets /\ Labels(q.name) \o <<0>> \in Octets
        /\ U16(q.type) \o U16(q.class) \in Octets /\ Labels(q.name) \in Octets
        /\ <<0>> \in Octets /\ Len(<<0>>) = 1
    BY QuestionType DEF Octets
  <2>2. Len(Labels(q.name) \o <<0>>) = Len(Labels(q.name)) + Len(<<0>>)  BY <2>1, TwoParts
  <2>3. Len(U16(q.type) \o U16(q.class)) = Len(U16(q.type)) + Len(U16(q.class))
        /\ Len(U16(q.type)) = 2 /\ Len(U16(q.class)) = 2
    BY QuestionFields, NumbersType, TwoParts
  <2>4. Len(QuestionOctets(q)) =
          Len(Labels(q.name) \o <<0>>) + Len(U16(q.type) \o U16(q.class))
    BY <2>1, TwoParts DEF QuestionOctets
  <2>5. Len(six \o QuestionOctets(q)) = Len(six) + Len(QuestionOctets(q))  BY <1>2, <2>1, TwoParts
  <2>6. PICK l \in Nat : l = Len(Labels(q.name))  BY <2>1, OctetsAt
  <2>7. Len(QuestionOctets(q)) = l + 1 + 4
    <3>1. PICK m \in Nat, k \in Nat : /\ m = Len(Labels(q.name) \o <<0>>) /\ m = l + 1
                                      /\ k = Len(U16(q.type) \o U16(q.class)) /\ k = 4
      BY <2>1, <2>2, <2>3, <2>6
    <3>2. Len(QuestionOctets(q)) = m + k  BY <2>4, <3>1
    <3>. HIDE <2>1
    <3>. QED  BY <3>1, <3>2
  <2>8. Len(v.octets) = 12 + (l + 1 + 4)  BY <1>2, <1>5, <1>6, <2>5, <2>7 DEF HeaderSize
  <2>9. QuestionEnd(q) = 12 + l + 1  BY <2>6 DEF QuestionEnd, HeaderSize
  <2>10. 12 + (l + 1 + 4) = 12 + l + 1 + 4  OBVIOUS
  <2>. QED  BY <2>8, <2>9, <2>10
<1>. QED  BY <1>5, <1>6, <1>7 DEF IsAfter, HeadOctets, six

\* The header and the question are read as they were written, by the decoder and at
\* the other ends.
HeadIsRead(data, id, flags, counts, q) ==
  /\ U16At(data, 0) = id /\ U16At(data, 2) = flags /\ U16At(data, 4) = counts[1]
  /\ U16At(data, 6) = counts[2] /\ U16At(data, 8) = counts[3] /\ U16At(data, 10) = counts[4]
  /\ QuestionEnd(q) + 4 <= Len(data) /\ HeaderSize <= Len(data)
  /\ DecodeQuestion(data, HeaderSize) =
       [ok |-> TRUE, question |->
          [id |-> id, name |-> q.name, type |-> q.type, class |-> q.class]]
  /\ ReadMessage(data).id = id
  /\ ReadMessage(data).question = [name |-> q.name, type |-> q.type, class |-> q.class]

\* Whatever begins with a header and a question is read so.
LEMMA HeadRead ==
  ASSUME NEW id \in Nat, NEW flags \in Nat, NEW counts, AreCounts(counts),
         NEW q, IsQuestion(q), NEW data \in Octets,
         BeginsAs(HeadOctets(id, flags, counts, q), data)
  PROVE  HeadIsRead(data, id, flags, counts, q)
<1>. DEFINE six == SixNumbers(id, flags, counts)
<1>1. six \in Octets /\ Len(six) = HeaderSize  BY SixRead
<1>2. BeginsAs(six \o QuestionOctets(q), data)  BY DEF HeadOctets
<1>. HIDE DEF six
<1>3. /\ DecodeName(data, HeaderSize) = [ok |-> TRUE, name |-> q.name, next |-> QuestionEnd(q)]
      /\ NameAt(data, HeaderSize) = [ok |-> TRUE, name |-> q.name, next |-> QuestionEnd(q)]
      /\ U16At(data, QuestionEnd(q)) = q.type /\ U16At(data, QuestionEnd(q) + 2) = q.class
      /\ QuestionEnd(q) + 4 <= Len(data) /\ BeginsAs(six, data)
  BY <1>1, <1>2, QuestionRead
<1>4. /\ U16At(data, 0) = id /\ U16At(data, 2) = flags /\ U16At(data, 4) = counts[1]
      /\ U16At(data, 6) = counts[2] /\ U16At(data, 8) = counts[3]
         /\ U16At(data, 10) = counts[4]
  <2>1. BeginsAs(SixNumbers(id, flags, counts), data)  BY <1>3 DEF six
  <2>. HIDE <1>2, <1>3
  <2>. QED  BY <2>1, SixRead
<1>5. HeaderSize <= Len(data)  BY <1>1, <1>3 DEF BeginsAs
<1>6. ReadMessage(data).id = id  BY <1>4 DEF ReadMessage
<1>7. ReadMessage(data).question = [name |-> q.name, type |-> q.type, class |-> q.class]
  BY <1>3 DEF ReadMessage, ReadName, NameEnd
<1>8. DecodeQuestion(data, HeaderSize) =
        [ok |-> TRUE, question |->
           [id |-> id, name |-> q.name, type |-> q.type, class |-> q.class]]
  <2>1. ~ (QuestionEnd(q) + 4 > Len(data))
    <3>1. QuestionEnd(q) \in Nat /\ Len(data) \in Nat  BY QuestionType, OctetsAt
    <3>. QED  BY <1>3, <3>1
  <2>2. PICK n : n = DecodeName(data, HeaderSize)  OBVIOUS
  <2>3. n.ok = TRUE /\ n.name = q.name /\ n.next = QuestionEnd(q)  BY <1>3, <2>2
  <2>4. DecodeQuestion(data, HeaderSize) =
          IF ~ n.ok \/ n.next + 4 > Len(data) THEN Error
          ELSE [ok |-> TRUE, question |->
                  [id |-> U16At(data, 0), name |-> n.name, type |-> U16At(data, n.next),
                   class |-> U16At(data, n.next + 2)]]
    BY <2>2 DEF DecodeQuestion
  <2>. QED  BY <1>3, <1>4, <2>1, <2>3, <2>4
<1>. QED  BY <1>3, <1>4, <1>5, <1>6, <1>7, <1>8 DEF HeadIsRead

\* What a reader of the socket takes is the beginning of the datagram, and no more
\* than its buffer holds.
LEMMA DatagramRead ==
  ASSUME NEW data \in Octets
  PROVE  /\ Read(data) \in Octets /\ BeginsAs(Read(data), data)
         /\ Len(Read(data)) <= BufferSize
         /\ \A a \in Octets : BeginsAs(a, data) /\ Len(a) <= BufferSize =>
              BeginsAs(a, Read(data))
<1>1. Len(data) \in Nat /\ BufferSize \in Nat  BY OctetsAt, CodecAssumption
<1>2. CASE Len(data) > BufferSize
  <2>. DEFINE r == SubSeq(data, 1, BufferSize)
  <2>1. Read(data) = r  BY <1>2 DEF Read
  <2>2. \A i \in 1..BufferSize : data[i] \in Nat  BY <1>1, <1>2 DEF Octets
  <2>3. /\ r \in Seq(Nat) /\ Len(r) = BufferSize
        /\ \A i \in 1..BufferSize : r[i] = data[i]
    <3>1. PICK one \in Nat : one = 1  OBVIOUS
    <3>2. /\ SubSeq(data, one, BufferSize) \in Seq(Nat)
          /\ Len(SubSeq(data, one, BufferSize)) =
               IF one <= BufferSize THEN BufferSize - one + 1 ELSE 0
          /\ \A i \in 1..BufferSize - one + 1 :
               SubSeq(data, one, BufferSize)[i] = data[one + i - 1]
      BY <1>1, <2>2, <3>1, SubSeqProperties
    <3>3. \A i \in 1..BufferSize : one + i - 1 = i  BY <3>1
    <3>4. BufferSize - one + 1 = BufferSize /\ (~ (one <= BufferSize) => BufferSize = 0)
      BY <1>1, <3>1
    <3>. QED  BY <3>1, <3>2, <3>3, <3>4
  <2>. HIDE DEF r
  <2>4. ASSUME NEW a \in Octets, BeginsAs(a, data), Len(a) <= BufferSize
        PROVE  BeginsAs(a, r)
    <3>1. Len(a) \in Nat  BY OctetsAt
    <3>2. \A i \in 1..Len(a) : i \in 1..BufferSize  BY <1>1, <2>4, <3>1
    <3>. QED  BY <2>3, <2>4, <3>2 DEF BeginsAs
  <2>5. r \in Octets /\ Len(r) <= BufferSize  BY <1>1, <2>3 DEF Octets
  <2>6. BeginsAs(r, data)
    <3>1. Len(r) <= Len(data)  BY <1>1, <1>2, <2>3
    <3>. QED  BY <2>3, <3>1 DEF BeginsAs
  <2>. QED  BY <2>1, <2>4, <2>5, <2>6
<1>3. CASE ~ (Len(data) > BufferSize)
  <2>1. Read(data) = data  BY <1>3 DEF Read
  <2>2. Len(data) <= BufferSize  BY <1>1, <1>3
  <2>. QED  BY <1>1, <2>1, <2>2 DEF BeginsAs
<1>. QED  BY <1>2, <1>3

-----------------------------------------------------------------------------
(* Queries.                                                                *)

\* A query is octets, and begins with its header and its question.
LEMMA QueryWritten ==
  ASSUME NEW id \in Nat, NEW q, IsQuestion(q), NEW edns \in BOOLEAN
  PROVE  /\ WriteQuery(id, q, edns) \in Octets
         /\ \E d \in Nat : BeginsAs(HeadOctets(id, 256, <<1, 0, 0, d>>, q), WriteQuery(id, q, edns))
<1>. DEFINE opt == [name |-> <<>>, type |-> TypeOPT, class |-> 1232, ttl |-> 0, data |-> <<>>]
            rrs == IF edns THEN <<opt>> ELSE <<>>
            head == PutQuestion(Header(id, 256, <<1, 0, 0, Len(rrs)>>), q)
            all == PutRecords(head, rrs, "nothing")
<1>1. WriteQuery(id, q, edns) = all.octets  BY DEF WriteQuery
<1>2. IsRecord(opt)
  <2>1. IsName(<<>>)  BY DEF IsName, AnyName
  <2>2. IsValue(TypeOPT, <<>>)
    <3>1. <<>> \in Octets  BY DEF Octets
    <3>. QED  BY <3>1 DEF IsValue, NamedTypes, NumbersOf, NameTypes, TypeOPT, TypeMX, TypeSRV,
                          TypeSOA, TypeNS, TypeCNAME, TypePTR, TypeTXT, TypeCAA
  <2>3. TypeOPT \in Nat  BY DEF TypeOPT
  <2>. QED  BY <2>1, <2>2, <2>3 DEF IsRecord
<1>. HIDE DEF opt
<1>3. IsRecords(rrs)  BY <1>2 DEF IsRecords
<1>4. Len(rrs) \in Nat  BY <1>3 DEF IsRecords
<1>. HIDE DEF rrs
<1>5. head \in Writings /\ IsSound(head)
      /\ head.octets = HeadOctets(id, 256, <<1, 0, 0, Len(rrs)>>, q)
  <2>1. 256 \in Nat /\ AreCounts(<<1, 0, 0, Len(rrs)>>)  BY <1>4 DEF AreCounts
  <2>. QED  BY <1>4, <2>1, HeadPut
<1>. HIDE DEF head
<1>6. IsAfter(head, all)  BY <1>3, <1>5, RecordsPut
<1>. HIDE DEF all
<1>. QED  BY <1>1, <1>4, <1>5, <1>6 DEF IsAfter, Writings

\* A query whose question fits the buffer is decoded, to the question that was asked.
THEOREM QueryDecoded ==
  ASSUME NEW id \in Nat, NEW q, IsQuestion(q), NEW edns \in BOOLEAN,
         QuestionEnd(q) + 4 <= BufferSize
  PROVE  DecodeQuery(Read(WriteQuery(id, q, edns))) =
           [ok |-> TRUE, question |->
              [id |-> id, name |-> q.name, type |-> q.type, class |-> q.class]]
<1>. DEFINE all == WriteQuery(id, q, edns)
            data == Read(all)
<1>1. PICK d \in Nat : BeginsAs(HeadOctets(id, 256, <<1, 0, 0, d>>, q), all)  BY QueryWritten
<1>2. all \in Octets  BY QueryWritten
<1>. DEFINE head == HeadOctets(id, 256, <<1, 0, 0, d>>, q)
<1>3. head \in Octets /\ Len(head) = QuestionEnd(q) + 4
  <2>0. 256 \in Nat /\ AreCounts(<<1, 0, 0, d>>)  BY DEF AreCounts
  <2>1. PICK v : v = PutQuestion(Header(id, 256, <<1, 0, 0, d>>), q)  OBVIOUS
  <2>2. v \in Writings /\ v.octets = head /\ Len(v.octets) = QuestionEnd(q) + 4
    BY <2>0, <2>1, HeadPut
  <2>. QED  BY <2>2 DEF Writings
<1>. HIDE DEF all
<1>4. data \in Octets /\ BeginsAs(head, data)
  <2>. HIDE DEF head
  <2>. QED  BY <1>1, <1>2, <1>3, DatagramRead DEF head
<1>. HIDE DEF data
<1>5. /\ U16At(data, 0) = id /\ U16At(data, 4) = 1 /\ HeaderSize <= Len(data)
      /\ DecodeQuestion(data, HeaderSize) =
           [ok |-> TRUE, question |->
              [id |-> id, name |-> q.name, type |-> q.type, class |-> q.class]]
  <2>1. 256 \in Nat /\ AreCounts(<<1, 0, 0, d>>)  BY DEF AreCounts
  <2>2. data \in Octets /\ BeginsAs(HeadOctets(id, 256, <<1, 0, 0, d>>, q), data)
    BY <1>4 DEF head
  <2>3. PICK counts : counts = <<1, 0, 0, d>>  OBVIOUS
  <2>4. AreCounts(counts) /\ BeginsAs(HeadOctets(id, 256, counts, q), data) /\ counts[1] = 1
    BY <2>1, <2>2, <2>3
  <2>. HIDE <2>3
  <2>5. 256 \in Nat  OBVIOUS
  <2>6. HeadIsRead(data, id, 256, counts, q)  BY <2>2, <2>4, <2>5, HeadRead
  <2>. QED  BY <2>4, <2>6 DEF HeadIsRead
<1>6. ~ (Len(data) < HeaderSize)
  <2>1. Len(data) \in Nat  BY <1>4, OctetsAt
  <2>. QED  BY <1>5, <2>1 DEF HeaderSize
<1>7. DecodeQuery(data) =
        [ok |-> TRUE, question |->
           [id |-> id, name |-> q.name, type |-> q.type, class |-> q.class]]
  BY <1>5, <1>6 DEF DecodeQuery
<1>. QED  BY <1>7 DEF data, all

-----------------------------------------------------------------------------
(* Responses of servers.                                                   *)

AllRecords(m) == m.answers \o m.authority \o m.additional

\* Two sections, one after the other, are a list of records.
LEMMA SectionsConcat ==
  ASSUME NEW a, NEW b, IsSection(a), IsSection(b)
  PROVE  IsSection(a \o b)
<1>. DEFINE A == Range(a)
            B == Range(b)
            c == a \o b
<1>1. a \in Seq(A) /\ b \in Seq(B)  BY DEF IsSection
<1>2. a \in Seq(A \cup B) /\ b \in Seq(A \cup B)
  <2>. HIDE DEF A, B
  <2>. QED  BY <1>1
<1>3. c \in Seq(A \cup B)
  <2>. HIDE DEF A, B
  <2>. QED  BY <1>2
<1>4. \A rr \in A \cup B : IsRecord(rr)  BY DEF IsSection
<1>. HIDE DEF A, B, c
<1>5. Range(c) \in SUBSET (A \cup B) /\ c \in Seq(Range(c))
  <2>1. \A i \in DOMAIN c : c[i] \in Range(c) /\ c[i] \in A \cup B  BY <1>3 DEF Range
  <2>2. Len(c) \in Nat /\ DOMAIN c = 1..Len(c) /\ c = [i \in 1..Len(c) |-> c[i]]  BY <1>3
  <2>3. c \in [1..Len(c) -> Range(c)]  BY <2>1, <2>2
  <2>4. c \in Seq(Range(c))  BY <2>2, <2>3
  <2>5. Range(c) \in SUBSET (A \cup B)  BY <2>1 DEF Range
  <2>. QED  BY <2>4, <2>5
<1>. QED  BY <1>4, <1>5 DEF IsSection, c

\* A section is a list of records that can be put.
LEMMA SectionRecords ==
  ASSUME NEW rrs, IsSection(rrs)
  PROVE  IsRecords(rrs)
<1>1. Len(rrs) \in Nat /\ DOMAIN rrs = 1..Len(rrs)  BY DEF IsSection
<1>. QED  BY <1>1 DEF IsSection, IsRecords, Range

\* The records of a message are found from the offset after the question.
ResponseIsAt(data, q, rrs, bounds) ==
  /\ bounds \in [0..Len(rrs) -> Nat] /\ bounds[0] = QuestionEnd(q) + 4
  /\ RecordsAt(data, rrs, bounds)

ResponseCounts(m) == <<1, Len(m.answers), Len(m.authority), Len(m.additional)>>
ResponseHead(id, q, m) == HeadOctets(id, 33152 + m.rcode, ResponseCounts(m), q)

\* A response is octets, with its header, its question and its records.
ResponseIsWritten(id, q, m) ==
  /\ WriteResponse(id, q, m) \in Octets
  /\ BeginsAs(ResponseHead(id, q, m), WriteResponse(id, q, m))
  /\ \E bounds : ResponseIsAt(WriteResponse(id, q, m), q, AllRecords(m), bounds)

\* The counts of a message are numbers.
LEMMA CountsType ==
  ASSUME NEW m, IsMessage(m)
  PROVE  /\ AreCounts(ResponseCounts(m)) /\ 33152 + m.rcode \in Nat
         /\ Len(m.answers) \in Nat /\ Len(m.authority) \in Nat /\ Len(m.additional) \in Nat
<1>1. /\ Len(m.answers) \in Nat /\ Len(m.authority) \in Nat /\ Len(m.additional) \in Nat
  BY SectionRecords DEF IsMessage, IsRecords
<1>2. 33152 + m.rcode \in Nat  BY DEF IsMessage
<1>. QED  BY <1>1, <1>2 DEF AreCounts, ResponseCounts

\* What an upstream server sends: its ID, the question, and all its records in their places.
LEMMA ResponseWritten ==
  ASSUME NEW id \in Nat, NEW q, IsQuestion(q), NEW m, IsMessage(m)
  PROVE  ResponseIsWritten(id, q, m)
<1>. DEFINE rrs == AllRecords(m)
            flags == 33152 + m.rcode
            head == PutQuestion(Header(id, flags, ResponseCounts(m)), q)
            all == PutRecords(head, rrs, m.compress)
<1>1. WriteResponse(id, q, m) = all.octets
  BY DEF WriteResponse, AllRecords, ResponseCounts
<1>2. IsRecords(rrs)
  <2>1. IsSection(m.answers \o m.authority)  BY SectionsConcat DEF IsMessage
  <2>2. IsSection(rrs)  BY <2>1, SectionsConcat DEF IsMessage, AllRecords
  <2>. QED  BY <2>2, SectionRecords
<1>3. AreCounts(ResponseCounts(m)) /\ flags \in Nat  BY CountsType
<1>. HIDE DEF rrs
<1>4. /\ head \in Writings /\ IsSound(head)
      /\ head.octets = HeadOctets(id, flags, ResponseCounts(m), q)
      /\ Len(head.octets) = QuestionEnd(q) + 4
  <2>. HIDE DEF flags
  <2>. QED  BY <1>3, HeadPut
<1>. HIDE DEF head
<1>5. /\ IsAfter(head, all)
      /\ \E bounds \in [0..Len(rrs) -> Nat] :
           /\ bounds[0] = Len(head.octets)
           /\ \A data \in Octets : BeginsAs(all.octets, data) => RecordsAt(data, rrs, bounds)
  <2>1. head \in Writings /\ IsSound(head)  BY <1>4
  <2>. QED  BY <1>2, <2>1, RecordsPut
<1>. HIDE DEF all
<1>6. all.octets \in Octets /\ BeginsAs(all.octets, all.octets)
  <2>1. all.octets \in Octets  BY <1>5 DEF IsAfter, Writings
  <2>2. Len(all.octets) \in Nat  BY <2>1, OctetsAt
  <2>. QED  BY <2>1, <2>2 DEF BeginsAs
<1>7. BeginsAs(ResponseHead(id, q, m), all.octets)
  BY <1>4, <1>5 DEF IsAfter, ResponseHead, flags
<1>8. \E bounds : ResponseIsAt(all.octets, q, rrs, bounds)
  BY <1>4, <1>5, <1>6 DEF ResponseIsAt
<1>. QED  BY <1>1, <1>6, <1>7, <1>8 DEF ResponseIsWritten, rrs

-----------------------------------------------------------------------------
(* The messages of the server.                                             *)

\* A name by the rules has no empty labels to leave out.
LEMMA NoEmptyLabels ==
  ASSUME NEW name, IsName(name)
  PROVE  NonEmpty(name) = name
<1>n. PICK n \in Nat : n = Len(name) /\ name \in Seq(Octets) /\ DOMAIN name = 1..n
  BY DEF IsName, AnyName
<1>. DEFINE Singles(k) == [i \in 1..k |-> <<name[i]>>]
            Goal(m) == FlattenSeq(Singles(m)) = SubSeq(name, 1, m)
            T == {k \in Nat : k <= n => Goal(k)}
<1>1. NonEmpty(name) = FlattenSeq(Singles(n))
  <2>1. \A i \in 1..n : name[i] # <<>>
    <3>1. \A i \in 1..n : Len(name[i]) \in 1..63  BY <1>n DEF IsName, MaxLabel
    <3>2. Len(<<>>) = 0  OBVIOUS
    <3>3. ~ (0 \in 1..63)  OBVIOUS
    <3>. QED  BY <3>1, <3>2, <3>3
  <2>2. [i \in DOMAIN name |-> IF name[i] = <<>> THEN <<>> ELSE <<name[i]>>] = Singles(n)
    BY <1>n, <2>1
  <2>. QED  BY <2>2 DEF NonEmpty
<1>2. 0 \in T
  <2>1. Singles(0) = <<>>  OBVIOUS
  <2>2. FlattenSeq(<<>>) = <<>>  BY DEF FlattenSeq
  <2>3. SubSeq(name, 1, 0) = <<>>  BY <1>n, SubSeqEmpty
  <2>. QED  BY <2>1, <2>2, <2>3
<1>3. ASSUME NEW k \in Nat, k \in T PROVE k + 1 \in T
  <2>. SUFFICES ASSUME k + 1 <= n PROVE Goal(k + 1)
    <3>. HIDE DEF Goal
    <3>. QED  OBVIOUS
  <2>1. k + 1 \in 1..n /\ k <= n /\ k \in 0..n  BY <1>n
  <2>2. \A i \in 1..k + 1 : name[i] \in Octets  BY <1>n, <2>1
  <2>3. Singles(k) \in Seq(Seq(Octets)) /\ <<name[k + 1]>> \in Seq(Octets)
    BY <2>2
  <2>4. Singles(k + 1) = Append(Singles(k), <<name[k + 1]>>)
    <3>1. /\ Len(Singles(k + 1)) = k + 1 /\ Singles(k + 1) \in Seq(Seq(Octets))
          /\ \A i \in 1..k + 1 : Singles(k + 1)[i] = <<name[i]>>
      BY <2>2
    <3>2. /\ Len(Append(Singles(k), <<name[k + 1]>>)) = k + 1
          /\ Append(Singles(k), <<name[k + 1]>>) \in Seq(Seq(Octets))
          /\ \A i \in 1..k : Append(Singles(k), <<name[k + 1]>>)[i] = <<name[i]>>
          /\ Append(Singles(k), <<name[k + 1]>>)[k + 1] = <<name[k + 1]>>
      BY <2>3
    <3>. DEFINE a == Singles(k + 1)
                b == Append(Singles(k), <<name[k + 1]>>)
    <3>. HIDE DEF a, b, Singles
    <3>3. Len(a) = k + 1 /\ Len(b) = k + 1 /\ a \in Seq(Seq(Octets)) /\ b \in Seq(Seq(Octets))
      BY <3>1, <3>2 DEF a, b
    <3>4. ASSUME NEW i \in 1..k + 1 PROVE a[i] = b[i]
      <4>1. a[i] = <<name[i]>>  BY <3>1, <3>4 DEF a
      <4>2. CASE i \in 1..k  BY <3>2, <4>1, <4>2 DEF b
      <4>3. CASE i = k + 1  BY <3>2, <4>1, <4>3 DEF b
      <4>4. i \in 1..k \/ i = k + 1  BY <3>4
      <4>. QED  BY <4>2, <4>3, <4>4
    <3>5. a = b  BY <3>3, <3>4, SeqEqual
    <3>. QED  BY <3>5 DEF a, b
  <2>5. FlattenSeq(Singles(k + 1)) = FlattenSeq(Singles(k)) \o <<name[k + 1]>>
    <3>. HIDE DEF Singles
    <3>. QED  BY <2>3, <2>4, FlattenAppend
  <2>6. FlattenSeq(Singles(k)) = SubSeq(name, 1, k)
    <3>. HIDE DEF Singles
    <3>. QED  BY <1>3, <2>1
  <2>7. SubSeq(name, 1, k) \o <<name[k + 1]>> = SubSeq(name, 1, k + 1)
    <3>1. PICK j : j = k + 1  OBVIOUS
    <3>2. SubSeq(name, 1, j) = SubSeq(name, 1, j - 1) \o <<name[j]>>
      BY <1>n, <2>1, <3>1, SubSeqRecursiveSecond
    <3>3. j - 1 = k  BY <3>1
    <3>. QED  BY <3>1, <3>2, <3>3
  <2>. QED  BY <2>5, <2>6, <2>7
<1>4. n \in T
  <2>. HIDE DEF T
  <2>. QED  BY <1>2, <1>3, SetInduction
<1>5. SubSeq(name, 1, n) = name  BY <1>n, SubSeqFull
<1>. QED  BY <1>1, <1>4, <1>5

\* However a name, a zero and two numbers are put behind a header, it is a question.
LEMMA QuestionTogether ==
  ASSUME NEW h \in Octets, NEW q, IsQuestion(q)
  PROVE  /\ h \o Labels(q.name) \o <<0>> \o U16(q.type) \o U16(q.class) = h \o QuestionOctets(q)
         /\ h \o (Labels(q.name) \o <<0>>) \o U16(q.type) \o U16(q.class) =
              h \o QuestionOctets(q)
<1>. DEFINE L == Labels(q.name)
            t == U16(q.type)
            c == U16(q.class)
            z == <<0>>
<1>1. L \in Octets /\ t \in Octets /\ c \in Octets /\ z \in Octets /\ L \o z \in Octets
      /\ QuestionOctets(q) = (L \o z) \o (t \o c) /\ t \o c \in Octets
  BY QuestionType, QuestionFields, NumbersType DEF Octets, QuestionOctets
<1>. HIDE DEF L, t, c, z
<1>2. (h \o L) \o z = h \o (L \o z)  BY <1>1, ConcatAgain
<1>3. h \o (L \o z) \in Octets  BY <1>1, ConcatOctets
<1>4. ((h \o (L \o z)) \o t) \o c = (h \o (L \o z)) \o (t \o c)  BY <1>1, <1>3, ConcatAgain
<1>5. (h \o (L \o z)) \o (t \o c) = h \o ((L \o z) \o (t \o c))  BY <1>1, ConcatAgain
<1>6. ((h \o (L \o z)) \o t) \o c = h \o QuestionOctets(q)  BY <1>1, <1>4, <1>5
<1>. QED  BY <1>2, <1>6 DEF L, t, c, z

\* The labels of such a name fit.
LEMMA NameFits ==
  ASSUME NEW name, IsName(name)
  PROVE  LabelsFit(name)
<1>1. \A i \in DOMAIN name : Len(name[i]) \in 1..63  BY DEF IsName, MaxLabel
<1>2. \A n \in 1..63 : n <= 63  OBVIOUS
<1>3. \A i \in DOMAIN name : Len(name[i]) <= 63  BY <1>1, <1>2
<1>. QED  BY <1>3 DEF LabelsFit, MaxLabel

\* The head of a message is octets.
LEMMA HeadType ==
  ASSUME NEW id \in Nat, NEW flags \in Nat, NEW counts, AreCounts(counts), NEW q, IsQuestion(q)
  PROVE  /\ HeadOctets(id, flags, counts, q) \in Octets
         /\ Len(HeadOctets(id, flags, counts, q)) = QuestionEnd(q) + 4
<1>1. PICK v : v = PutQuestion(Header(id, flags, counts), q)  OBVIOUS
<1>2. /\ v \in Writings /\ v.octets = HeadOctets(id, flags, counts, q)
      /\ Len(v.octets) = QuestionEnd(q) + 4
  BY <1>1, HeadPut
<1>. QED  BY <1>2 DEF Writings

\* A message begins as itself.
LEMMA BeginsItself ==
  ASSUME NEW data \in Octets
  PROVE  BeginsAs(data, data)
<1>1. Len(data) \in Nat  BY OctetsAt
<1>. QED  BY <1>1 DEF BeginsAs

\* The query that the server sends on: a header and the question.
LEMMA QueryEncoded ==
  ASSUME NEW q, IsQuestion(q), q.id \in Nat
  PROVE  EncodeQuery(q) = HeadOctets(q.id, 256, <<1, 0, 0, 0>>, q)
<1>. DEFINE six == SixNumbers(q.id, 256, <<1, 0, 0, 0>>)
            name == q.name
<1>1. IsName(name)  BY QuestionFields
<1>2. EncodeQuery(q) = six \o Labels(NonEmpty(name)) \o <<0>> \o U16(q.type) \o U16(q.class)
  BY <1>1, NameFits DEF EncodeQuery, SixNumbers
<1>3. NonEmpty(name) = name  BY <1>1, NoEmptyLabels
<1>4. six \in Octets
  <2>1. AreCounts(<<1, 0, 0, 0>>)  BY DEF AreCounts
  <2>. QED  BY <2>1, SixRead
<1>. HIDE DEF six
<1>5. EncodeQuery(q) = six \o QuestionOctets(q)  BY <1>2, <1>3, <1>4, QuestionTogether
<1>. QED  BY <1>5 DEF HeadOctets, six

\* The query that the server sends on is not empty, and the server outside reads in it
\* the question that was asked.
THEOREM QueryForwarded ==
  ASSUME NEW q, IsQuestion(q), q.id \in Nat
  PROVE  /\ EncodeQuery(q) # NoMessage
         /\ ReadMessage(EncodeQuery(q)).id = q.id
         /\ ReadMessage(EncodeQuery(q)).question =
              [name |-> q.name, type |-> q.type, class |-> q.class]
<1>. DEFINE data == EncodeQuery(q)
            counts == <<1, 0, 0, 0>>
<1>1. AreCounts(counts) /\ 256 \in Nat  BY DEF AreCounts
<1>2. data = HeadOctets(q.id, 256, counts, q)  BY QueryEncoded
<1>. HIDE DEF data, counts
<1>3. data \in Octets /\ Len(data) = QuestionEnd(q) + 4  BY <1>1, <1>2, HeadType
<1>4. BeginsAs(HeadOctets(q.id, 256, counts, q), data)  BY <1>2, <1>3, BeginsItself
<1>5. HeadIsRead(data, q.id, 256, counts, q)  BY <1>1, <1>3, <1>4, HeadRead
<1>6. data # NoMessage
  <2>1. QuestionEnd(q) \in Nat  BY QuestionType
  <2>2. Len(data) # 0  BY <1>3, <2>1
  <2>. QED  BY <2>2 DEF NoMessage
<1>. QED  BY <1>5, <1>6 DEF HeadIsRead, data

\* The records of a response: their data is octets, whatever they mean.
AnswerRecords == [name : AnyName, type : Nat, class : Nat, ttl : Nat, data : Octets]

\* An answer is octets.
LEMMA AnswerType ==
  ASSUME NEW rr \in AnswerRecords, NEW answers
  PROVE  EncodeAnswer(rr, answers) \in Octets
<1>1. /\ U16(rr.type) \in Octets /\ U16(rr.class) \in Octets /\ U32(rr.ttl) \in Octets
      /\ U16(Len(rr.data)) \in Octets /\ rr.data \in Octets /\ rr.name \in AnyName
  <2>1. /\ rr.type \in Nat /\ rr.class \in Nat /\ rr.ttl \in Nat /\ rr.data \in Octets
        /\ rr.name \in AnyName
    BY DEF AnswerRecords
  <2>2. Len(rr.data) \in Nat  BY <2>1, OctetsAt
  <2>. QED  BY <2>1, <2>2, NumbersType
<1>2. Owner(rr, answers) \in Octets
  <2>1. Pointer(HeaderSize) \in Octets
    <3>1. 49152 + HeaderSize \in Nat  BY DEF HeaderSize
    <3>. QED  BY <3>1, NumbersType DEF Pointer
  <2>2. EncodeDomainName(rr.name) \in Octets
    <3>1. Labels(rr.name) \in Octets /\ <<0>> \in Octets /\ <<>> \in Octets
      BY <1>1, LabelsType DEF Octets
    <3>2. Labels(rr.name) \o <<0>> \in Octets  BY <3>1, ConcatOctets
    <3>. QED  BY <3>1, <3>2 DEF EncodeDomainName, NoMessage
  <2>. QED  BY <2>1, <2>2 DEF Owner
<1>. DEFINE a == Owner(rr, answers) \o U16(rr.type)
            b == a \o U16(rr.class)
            c == b \o U32(rr.ttl)
            d == c \o U16(Len(rr.data))
<1>3. a \in Octets  BY <1>1, <1>2, ConcatOctets
<1>. HIDE DEF a
<1>4. b \in Octets  BY <1>1, <1>3, ConcatOctets
<1>. HIDE DEF b
<1>5. c \in Octets  BY <1>1, <1>4, ConcatOctets
<1>. HIDE DEF c
<1>6. d \in Octets  BY <1>1, <1>5, ConcatOctets
<1>. HIDE DEF d
<1>7. d \o rr.data \in Octets  BY <1>1, <1>6, ConcatOctets
<1>8. EncodeAnswer(rr, answers) = d \o rr.data  BY DEF EncodeAnswer, a, b, c, d
<1>. QED  BY <1>7, <1>8

AnswerCounts(answers) == <<1, Len(answers), 0, 0>>

\* Can a response be encoded?
ResponseFits(answers) ==
  /\ Len(answers) <= 65535
  /\ \A i \in DOMAIN answers : LabelsFit(answers[i].name) /\ Len(answers[i].data) <= 65535

\* The answers of a response as octets.
AnswerTexts(answers) == [i \in DOMAIN answers |-> EncodeAnswer(answers[i], answers)]

\* A response that is encoded is a header, the question and then the answers.
LEMMA ResponseEncoded ==
  ASSUME NEW resp, NEW q, q = resp.question, IsQuestion(q), resp.id \in Nat,
         NEW answers \in Seq(AnswerRecords), answers = resp.answers
  PROVE  /\ EncodeResponse(resp) # NoMessage =>
              /\ EncodeResponse(resp) \in Octets
              /\ BeginsAs(HeadOctets(resp.id, 33152, AnswerCounts(answers), q), EncodeResponse(resp))
              /\ EncodeResponse(resp) = HeadOctets(resp.id, 33152, AnswerCounts(answers), q)
                                          \o FlattenSeq(AnswerTexts(answers))
         /\ ResponseFits(answers) => EncodeResponse(resp) # NoMessage
<1>. DEFINE six == SixNumbers(resp.id, 33152, AnswerCounts(answers))
            head == HeadOctets(resp.id, 33152, AnswerCounts(answers), q)
            text == FlattenSeq(AnswerTexts(answers))
            fits == /\ Len(answers) <= 65535
                    /\ LabelsFit(q.name)
                    /\ \A i \in DOMAIN answers :
                         /\ answers[i].name = answers[1].name \/ LabelsFit(answers[i].name)
                         /\ Len(answers[i].data) <= 65535
<1>1. IsName(q.name) /\ LabelsFit(q.name)  BY QuestionFields, NameFits
<1>c. AreCounts(AnswerCounts(answers)) /\ 33152 \in Nat  BY DEF AreCounts, AnswerCounts
<1>2. EncodeResponse(resp) =
        IF ~ fits THEN NoMessage
        ELSE (six \o (Labels(q.name) \o <<0>>) \o U16(q.type) \o U16(q.class)) \o text
  BY <1>1 DEF EncodeResponse, EncodeDomainName, SixNumbers, AnswerCounts, AnswerTexts
<1>3. text \in Octets
  <2>1. \A i \in DOMAIN answers : EncodeAnswer(answers[i], answers) \in Octets  BY AnswerType
  <2>2. AnswerTexts(answers) \in Seq(Octets)  BY <2>1 DEF AnswerTexts
  <2>. QED  BY <2>2, FlattenType DEF Octets
<1>4. six \in Octets  BY <1>c, SixRead
<1>5. head \in Octets /\ Len(head) = QuestionEnd(q) + 4  BY <1>c, HeadType
<1>f. ResponseFits(answers) => fits  BY <1>1 DEF ResponseFits
<1>. HIDE DEF six, text, fits
<1>6. six \o (Labels(q.name) \o <<0>>) \o U16(q.type) \o U16(q.class) = head
  <2>1. six \o (Labels(q.name) \o <<0>>) \o U16(q.type) \o U16(q.class) =
          six \o QuestionOctets(q)
    BY <1>4, QuestionTogether
  <2>2. head = six \o QuestionOctets(q)  BY DEF HeadOctets, six
  <2>. HIDE DEF head
  <2>. QED  BY <2>1, <2>2
<1>. HIDE DEF head
<1>7. EncodeResponse(resp) = IF ~ fits THEN NoMessage ELSE head \o text  BY <1>2, <1>6
<1>8. head \o text \in Octets /\ BeginsAs(head, head \o text)
      /\ Len(head \o text) = Len(head) + Len(text)
  BY <1>3, <1>5, TwoParts, BeginsConcat
<1>9. head \o text # NoMessage
  <2>1. QuestionEnd(q) \in Nat /\ Len(text) \in Nat  BY <1>3, QuestionType, OctetsAt
  <2>2. Len(head \o text) # 0  BY <1>5, <1>8, <2>1
  <2>. QED  BY <2>2 DEF NoMessage
<1>. QED  BY <1>7, <1>8, <1>9, <1>f DEF head, text

\* Whatever answers a response has, the client reads in its octets the ID and the
\* question of the response.
THEOREM ResponseRead ==
  ASSUME NEW resp, IsQuestion(resp.question), resp.id \in Nat,
         resp.answers \in Seq(AnswerRecords), EncodeResponse(resp) # NoMessage
  PROVE  /\ ReadMessage(EncodeResponse(resp)).id = resp.id
         /\ ReadMessage(EncodeResponse(resp)).question =
              [name |-> resp.question.name, type |-> resp.question.type,
               class |-> resp.question.class]
<1>. DEFINE data == EncodeResponse(resp)
<1>1. PICK counts : counts = AnswerCounts(resp.answers)  OBVIOUS
<1>2. AreCounts(counts) /\ 33152 \in Nat  BY <1>1 DEF AreCounts, AnswerCounts
<1>3. data \in Octets /\ BeginsAs(HeadOctets(resp.id, 33152, counts, resp.question), data)
  BY <1>1, ResponseEncoded
<1>. HIDE DEF data
<1>4. HeadIsRead(data, resp.id, 33152, counts, resp.question)  BY <1>2, <1>3, HeadRead
<1>. QED  BY <1>4 DEF HeadIsRead, data

-----------------------------------------------------------------------------
(* The decoder of responses, and octets from anywhere.                     *)

\* Every set of numbers with a bound has a greatest one.
LEMMA GreatestNumber ==
  ASSUME NEW n \in Nat, NEW T \in SUBSET (0..n), T # {}
  PROVE  Max(T) \in T /\ \A i \in T : i <= Max(T)
<1>. DEFINE U == {n - i : i \in T}
<1>1. U \in SUBSET Nat /\ U # {}
  <2>1. PICK i \in T : TRUE  OBVIOUS
  <2>2. n - i \in U  BY DEF U
  <2>3. \A k \in 0..n : n - k \in Nat  OBVIOUS
  <2>4. ASSUME NEW u \in U PROVE u \in Nat
    <3>1. PICK j \in T : u = n - j  BY DEF U
    <3>2. j \in 0..n  OBVIOUS
    <3>. QED  BY <2>3, <3>1, <3>2
  <2>. QED  BY <2>2, <2>4
<1>. HIDE DEF U
<1>2. PICK u \in U : \A v \in U : u <= v  BY <1>1, LeastNumber
<1>3. PICK m \in T : u = n - m  BY <1>2 DEF U
<1>4. ASSUME NEW i \in T PROVE m >= i
  <2>1. n - i \in U  BY DEF U
  <2>2. n - m <= n - i  BY <1>2, <1>3, <2>1
  <2>3. i \in 0..n /\ m \in 0..n  BY <1>3
  <2>. QED  BY <2>2, <2>3
<1>5. Max(T) \in T /\ \A i \in T : Max(T) >= i  BY <1>4 DEF Max
<1>. QED  BY <1>5

\* A label in lower case.
LowerLabel(label) == [j \in DOMAIN label |-> Lower(label[j])]

\* It is as long, and stays as it is.
LEMMA LowerLabelType ==
  ASSUME NEW label \in Octets
  PROVE  /\ LowerLabel(label) \in Octets /\ Len(LowerLabel(label)) = Len(label)
         /\ LowerLabel(LowerLabel(label)) = LowerLabel(label)
         /\ LowerLabel(label) = <<>> <=> label = <<>>
<1>n. PICK n \in Nat : n = Len(label) /\ DOMAIN label = 1..n  BY DEF Octets
<1>1. \A x \in Nat : Lower(x) \in Nat /\ Lower(Lower(x)) = Lower(x)  BY DEF Lower
<1>2. \A j \in 1..n : label[j] \in Nat  BY <1>n DEF Octets
<1>3. PICK low : low = LowerLabel(label)  OBVIOUS
<1>4. low = [j \in 1..n |-> Lower(label[j])]  BY <1>3, <1>n DEF LowerLabel
<1>5. low \in Octets /\ Len(low) = n /\ DOMAIN low = 1..n  BY <1>1, <1>2, <1>4 DEF Octets
<1>6. LowerLabel(low) = low
  <2>1. LowerLabel(low) = [j \in 1..n |-> Lower(low[j])]  BY <1>5 DEF LowerLabel
  <2>2. \A j \in 1..n : Lower(low[j]) = low[j]  BY <1>1, <1>2, <1>4
  <2>3. low = [j \in 1..n |-> low[j]]  BY <1>4
  <2>. QED  BY <2>1, <2>2, <2>3
<1>7. low = <<>> <=> label = <<>>  BY <1>5, <1>n DEF Octets
<1>. QED  BY <1>3, <1>5, <1>6, <1>7, <1>n

\* What CanonicalDNSName makes of a name: its labels in lower case, up to the last that
\* is not empty.
IsCanonical(c, name) ==
  /\ Len(c) \in 0..Len(name)
  /\ \A i \in 1..Len(c) : c[i] = LowerLabel(name[i])
  /\ \A i \in 1..Len(name) : i > Len(c) => name[i] = <<>>
  /\ Len(c) # 0 => name[Len(c)] # <<>>

\* Canonical makes this.
LEMMA CanonicalForm ==
  ASSUME NEW name \in AnyName
  PROVE  Canonical(name) \in AnyName /\ IsCanonical(Canonical(name), name)
<1>. DEFINE labels == {i \in DOMAIN name : name[i] # <<>>}
            lower == [i \in DOMAIN name |-> LowerLabel(name[i])]
<1>n. PICK n \in Nat : n = Len(name) /\ DOMAIN name = 1..n  BY DEF AnyName
<1>1. Canonical(name) = IF labels = {} THEN <<>> ELSE SubSeq(lower, 1, Max(labels))
  BY DEF Canonical, LowerLabel
<1>4. CASE labels = {}
  <2>1. Canonical(name) = <<>> /\ Len(<<>>) = 0  BY <1>1, <1>4
  <2>2. \A i \in 1..n : name[i] = <<>>  BY <1>4, <1>n
  <2>3. IsCanonical(Canonical(name), name)  BY <1>n, <2>1, <2>2 DEF IsCanonical
  <2>. QED  BY <2>1, <2>3 DEF AnyName
<1>5. CASE labels # {}
  <2>1. labels \in SUBSET (0..n) /\ labels \in SUBSET (1..n)  BY <1>n
  <2>2. PICK m \in labels : m = Max(labels) /\ \A i \in labels : i <= m
    <3>. HIDE DEF labels
    <3>. QED  BY <1>5, <2>1, GreatestNumber
  <2>3. m \in 1..n /\ name[m] # <<>> /\ \A i \in 1..n : name[i] # <<>> => i \in labels
    BY <1>n
  <2>. HIDE DEF labels
  <2>4. \A i \in 1..n : i > m => name[i] = <<>>
    <3>1. SUFFICES ASSUME NEW i \in 1..n, i > m, name[i] # <<>> PROVE FALSE  OBVIOUS
    <3>2. i <= m  BY <2>2, <2>3, <3>1
    <3>. QED  BY <2>3, <3>1, <3>2
  <2>5. Canonical(name) = SubSeq(lower, 1, m)  BY <1>1, <1>5, <2>2
  <2>6. lower \in AnyName /\ Len(lower) = n
    <3>1. \A i \in 1..n : LowerLabel(name[i]) \in Octets
      BY <1>n, LowerLabelType DEF AnyName
    <3>. QED  BY <1>n, <3>1 DEF AnyName
  <2>7. \A i \in 1..m : lower[i] = LowerLabel(name[i])  BY <1>n, <2>3
  <2>. HIDE DEF lower
  <2>8. /\ SubSeq(lower, 1, m) \in AnyName /\ Len(SubSeq(lower, 1, m)) = m
        /\ \A i \in 1..m : SubSeq(lower, 1, m)[i] = lower[i]
    <3>1. m \in 0..Len(lower)  BY <2>3, <2>6
    <3>. QED  BY <2>6, <3>1, FirstLabelsType DEF FirstLabels
  <2>9. PICK c : c = Canonical(name)  OBVIOUS
  <2>10. c \in AnyName /\ Len(c) = m /\ \A i \in 1..m : c[i] = LowerLabel(name[i])
    BY <2>5, <2>7, <2>8, <2>9
  <2>11. IsCanonical(c, name)  BY <1>n, <2>3, <2>4, <2>10 DEF IsCanonical
  <2>. QED  BY <2>9, <2>10, <2>11
<1>. QED  BY <1>4, <1>5

\* The canonical form of a name is a name, and has the lengths of its labels.
LEMMA CanonicalType ==
  ASSUME NEW name \in AnyName
  PROVE  /\ Canonical(name) \in AnyName
         /\ \A i \in DOMAIN Canonical(name) :
              i \in DOMAIN name /\ Len(Canonical(name)[i]) = Len(name[i])
<1>1. PICK c \in AnyName : c = Canonical(name) /\ IsCanonical(c, name)  BY CanonicalForm
<1>n. PICK n \in Nat, m \in Nat :
        n = Len(name) /\ DOMAIN name = 1..n /\ m = Len(c) /\ DOMAIN c = 1..m
  BY DEF AnyName
<1>2. m <= n /\ \A i \in 1..m : c[i] = LowerLabel(name[i])  BY <1>1, <1>n DEF IsCanonical
<1>3. ASSUME NEW i \in 1..m PROVE i \in 1..n /\ Len(c[i]) = Len(name[i])
  <2>1. i \in 1..n  BY <1>2, <1>n
  <2>2. name[i] \in Octets  BY <1>n, <2>1 DEF AnyName
  <2>. QED  BY <1>2, <2>1, <2>2, LowerLabelType
<1>. QED  BY <1>1, <1>3, <1>n

\* Only one list of labels is this.
LEMMA CanonicalUnique ==
  ASSUME NEW name \in AnyName, NEW c \in AnyName, NEW d \in AnyName,
         IsCanonical(c, name), IsCanonical(d, name)
  PROVE  c = d
<1>n. PICK n \in Nat, k \in Nat, l \in Nat :
        n = Len(name) /\ k = Len(c) /\ l = Len(d) /\ DOMAIN c = 1..k /\ DOMAIN d = 1..l
  BY DEF AnyName
<1>1. k <= n /\ l <= n  BY <1>n DEF IsCanonical
<1>2. ~ k < l
  <2>1. SUFFICES ASSUME k < l PROVE FALSE  OBVIOUS
  <2>2. name[l] = <<>>  BY <2>1, <1>n, <1>1 DEF IsCanonical
  <2>3. name[l] # <<>>  BY <2>1, <1>n, <1>1 DEF IsCanonical
  <2>. QED  BY <2>2, <2>3
<1>3. ~ l < k
  <2>1. SUFFICES ASSUME l < k PROVE FALSE  OBVIOUS
  <2>2. name[k] = <<>>  BY <2>1, <1>n, <1>1 DEF IsCanonical
  <2>3. name[k] # <<>>  BY <2>1, <1>n, <1>1 DEF IsCanonical
  <2>. QED  BY <2>2, <2>3
<1>4. k = l  BY <1>2, <1>3
<1>5. \A i \in 1..k : c[i] = d[i]  BY <1>4, <1>n DEF IsCanonical
<1>. QED  BY <1>4, <1>5, <1>n DEF AnyName

\* The root may be in canonical form already, below which a name is.
LEMMA CanonicalBelow ==
  ASSUME NEW label \in AnyName, NEW root \in AnyName
  PROVE  Canonical(label \o Canonical(root)) = Canonical(label \o root)
<1>1. PICK r \in AnyName : r = Canonical(root)  BY CanonicalType
<1>2. IsCanonical(r, root)  BY <1>1, CanonicalForm
<1>3. PICK s \in AnyName, t \in AnyName : s = label \o r /\ t = label \o root
  <2>1. label \o r \in AnyName /\ label \o root \in AnyName  BY DEF AnyName
  <2>. QED  BY <2>1
<1>n. PICK a \in Nat, k \in Nat, n \in Nat :
        a = Len(label) /\ k = Len(r) /\ n = Len(root) /\ k <= n
  BY <1>2 DEF AnyName, IsCanonical
<1>4. /\ Len(s) = a + k /\ \A i \in 1..a : s[i] = label[i]
      /\ \A j \in 1..k : s[a + j] = r[j]
  BY <1>3, <1>n DEF AnyName
<1>5. /\ Len(t) = a + n /\ \A i \in 1..a : t[i] = label[i]
      /\ \A j \in 1..n : t[a + j] = root[j]
  BY <1>3, <1>n DEF AnyName
<1>6. PICK c \in AnyName : c = Canonical(s) /\ IsCanonical(c, s)
  BY CanonicalType, CanonicalForm
<1>7. PICK m \in Nat : m = Len(c) /\ m <= a + k  BY <1>4, <1>6 DEF IsCanonical, AnyName
<1>8. \A i \in 1..a + n : i <= a \/ \E j \in 1..n : i = a + j
  <2>1. SUFFICES ASSUME NEW i \in 1..a + n, i > a PROVE \E j \in 1..n : i = a + j  OBVIOUS
  <2>2. i - a \in 1..n /\ i = a + (i - a)  BY <2>1
  <2>. QED  BY <2>2
<1>9. ASSUME NEW i \in 1..m PROVE c[i] = LowerLabel(t[i])
  <2>1. c[i] = LowerLabel(s[i])  BY <1>6, <1>7 DEF IsCanonical
  <2>2. CASE i <= a  BY <2>1, <2>2, <1>4, <1>5
  <2>3. ASSUME NEW j \in 1..n, i = a + j PROVE c[i] = LowerLabel(t[i])
    <3>1. j \in 1..k  BY <1>7, <2>3
    <3>2. s[i] = LowerLabel(root[j])  BY <1>2, <1>4, <1>n, <2>3, <3>1 DEF IsCanonical
    <3>3. root[j] \in Octets  BY <1>n DEF AnyName
    <3>4. LowerLabel(LowerLabel(root[j])) = LowerLabel(root[j])  BY <3>3, LowerLabelType
    <3>. QED  BY <1>5, <2>1, <2>3, <3>2, <3>4
  <2>4. i \in 1..a + n  BY <1>7, <1>n
  <2>. QED  BY <1>8, <2>2, <2>3, <2>4
<1>10. ASSUME NEW i \in 1..a + n, i > m PROVE t[i] = <<>>
  <2>1. CASE i <= a
    <3>1. s[i] = <<>>  BY <1>4, <1>6, <1>7, <1>10, <2>1 DEF IsCanonical
    <3>. QED  BY <1>4, <1>5, <2>1, <3>1
  <2>2. ASSUME NEW j \in 1..n, i = a + j PROVE t[i] = <<>>
    <3>1. root[j] \in Octets  BY <1>n DEF AnyName
    <3>2. CASE j <= k
      <4>1. s[i] = <<>>  BY <1>4, <1>6, <1>7, <1>10, <2>2, <3>2 DEF IsCanonical
      <4>2. r[j] = <<>>  BY <1>4, <2>2, <3>2, <4>1
      <4>3. r[j] = LowerLabel(root[j])  BY <1>2, <1>n, <3>2 DEF IsCanonical
      <4>4. root[j] = <<>>  BY <3>1, <4>2, <4>3, LowerLabelType
      <4>. QED  BY <1>5, <2>2, <4>4
    <3>3. CASE j > k
      <4>1. root[j] = <<>>  BY <1>2, <1>n, <3>3 DEF IsCanonical
      <4>. QED  BY <1>5, <2>2, <4>1
    <3>. QED  BY <3>2, <3>3, <1>n
  <2>. QED  BY <1>8, <2>1, <2>2
<1>11. ASSUME m # 0 PROVE t[m] # <<>>
  <2>1. s[m] # <<>>  BY <1>6, <1>7, <1>11 DEF IsCanonical
  <2>2. m \in 1..a + n  BY <1>7, <1>n, <1>11
  <2>3. CASE m <= a  BY <1>4, <1>5, <1>11, <2>1, <2>3
  <2>4. ASSUME NEW j \in 1..n, m = a + j PROVE t[m] # <<>>
    <3>1. root[j] \in Octets  BY <1>n DEF AnyName
    <3>2. j \in 1..k  BY <1>7, <2>4
    <3>3. r[j] # <<>>  BY <1>4, <2>1, <2>4, <3>2
    <3>4. r[j] = LowerLabel(root[j])  BY <1>2, <1>n, <3>2 DEF IsCanonical
    <3>5. root[j] # <<>>  BY <3>1, <3>3, <3>4, LowerLabelType
    <3>. QED  BY <1>5, <2>4, <3>5
  <2>. QED  BY <1>8, <2>2, <2>3, <2>4
<1>12. IsCanonical(c, t)
  BY <1>5, <1>7, <1>9, <1>10, <1>11, <1>n DEF IsCanonical
<1>13. Canonical(t) \in AnyName /\ IsCanonical(Canonical(t), t)  BY CanonicalType, CanonicalForm
<1>14. c = Canonical(t)  BY <1>12, <1>13, CanonicalUnique
<1>. QED  BY <1>1, <1>3, <1>6, <1>14

\* A canonical name stays as it is.
LEMMA CanonicalTwice ==
  ASSUME NEW name \in AnyName
  PROVE  Canonical(Canonical(name)) = Canonical(name)
<1>1. <<>> \in AnyName /\ \A n \in AnyName : <<>> \o n = n  BY DEF AnyName
<1>2. Canonical(name) \in AnyName  BY CanonicalType
<1>3. Canonical(<<>> \o Canonical(name)) = Canonical(<<>> \o name)  BY <1>1, CanonicalBelow
<1>. QED  BY <1>1, <1>2, <1>3

\* The canonical form of what can be asked can be asked.
LEMMA CanonicalIsName ==
  ASSUME NEW name, IsName(name)
  PROVE  IsName(Canonical(name))
<1>1. name \in AnyName  BY DEF IsName
<1>2. /\ Canonical(name) \in AnyName
      /\ \A i \in DOMAIN Canonical(name) :
           i \in DOMAIN name /\ Len(Canonical(name)[i]) = Len(name[i])
  BY <1>1, CanonicalType
<1>. QED  BY <1>2 DEF IsName

\* What the decoder makes of a record whose name it has found.
RecordOf(data, n) ==
  [name |-> Canonical(n.name), type |-> U16At(data, n.next),
   class |-> U16At(data, n.next + 2), ttl |-> U32At(data, n.next + 4),
   data |-> SubSeq(data, n.next + 10 + 1, n.next + 10 + U16At(data, n.next + 8))]

\* The steps of parseResourceRecord that are not errors.
IsParsed(data, offset, r) ==
  LET n == DecodeName(data, offset)
      end == n.next + 10 + U16At(data, n.next + 8)
  IN /\ ~ (offset + 10 > Len(data)) /\ n.ok
     /\ ~ (n.next + 10 > Len(data)) /\ ~ (end > Len(data))
     /\ IsReadable(r.rr.type, r.rr.data)
     /\ r = [ok |-> TRUE, rr |-> RecordOf(data, n), next |-> end]

\* parseResourceRecord gives a record or an error.
LEMMA ParseRecordForm ==
  ASSUME NEW data, NEW offset
  PROVE  \/ ParseResourceRecord(data, offset) = Error
         \/ IsParsed(data, offset, ParseResourceRecord(data, offset))
BY DEF ParseResourceRecord, ParseFields, IsParsed, RecordOf

\* A name that is found is not an error.
LEMMA FoundForm ==
  ASSUME NEW n \in Found
  PROVE  n = Error \/ (n.ok = TRUE /\ n.name \in AnyName /\ n.next \in Nat
                         /\ n = [ok |-> TRUE, name |-> n.name, next |-> n.next])
BY DEF Found

ParsedRecords == {Error} \cup [ok : {TRUE}, rr : AnswerRecords, next : Nat]

\* Whatever the octets, what is parsed is a record of the right type, with no more data
\* than there are octets.
LEMMA ParseRecordType ==
  ASSUME NEW data \in Octets, NEW offset \in Nat
  PROVE  /\ ParseResourceRecord(data, offset) \in ParsedRecords
         /\ ParseResourceRecord(data, offset).ok =>
              Len(ParseResourceRecord(data, offset).rr.data) <= Len(data)
<1>. DEFINE r == ParseResourceRecord(data, offset)
            n == DecodeName(data, offset)
            size == U16At(data, n.next + 8)
            end == n.next + 10 + size
<1>l. Len(data) \in Nat  BY OctetsAt
<1>1. CASE r = Error
  <2>. HIDE DEF r
  <2>1. ~ r.ok  BY <1>1 DEF Error
  <2>. QED  BY <1>1, <2>1 DEF ParsedRecords, r
<1>2. CASE r # Error
  <2>1. /\ ~ (offset + 10 > Len(data)) /\ n.ok
        /\ ~ (n.next + 10 > Len(data)) /\ ~ (end > Len(data))
        /\ r = [ok |-> TRUE, rr |-> RecordOf(data, n), next |-> end]
    BY <1>2, ParseRecordForm DEF IsParsed
  <2>. HIDE DEF r, n
  <2>2. offset \in 0..Len(data)  BY <1>l, <2>1
  <2>3. n \in Found  BY <2>2, DecodeNameStep DEF n
  <2>4. n # Error  BY <2>1 DEF Error
  <2>5. n.name \in AnyName /\ n.next \in Nat  BY <2>3, <2>4, FoundForm
  <2>6. PICK f \in Nat : f = n.next /\ f + 10 <= Len(data)  BY <1>l, <2>1, <2>5
  <2>7. \A i \in 0..8 : U16At(data, f + i) \in Nat
    <3>1. \A i \in 0..8 : f + i \in Nat /\ (f + i) + 1 < Len(data)  BY <1>l, <2>6
    <3>. QED  BY <3>1, OctetsAt
  <2>8. U16At(data, f) \in Nat /\ U16At(data, f + 2) \in Nat /\ U16At(data, f + 8) \in Nat
    <3>1. f + 0 = f  OBVIOUS
    <3>. QED  BY <2>7, <3>1
  <2>9. U32At(data, f + 4) \in Nat
    <3>1. (f + 4) + 2 = f + 6  OBVIOUS
    <3>2. PICK a \in Nat, b \in Nat : a = U16At(data, f + 4) /\ b = U16At(data, f + 6)
      BY <2>7
    <3>. QED  BY <3>1, <3>2 DEF U32At
  <2>10. PICK s \in Nat : s = size /\ f + 10 + s <= Len(data)
    <3>1. PICK s \in Nat : s = size  BY <2>6, <2>8
    <3>2. ~ (f + 10 + s > Len(data))  BY <2>1, <2>6, <3>1
    <3>. HIDE DEF size
    <3>. QED  BY <1>l, <3>1, <3>2
  <2>11. /\ SubSeq(data, f + 10 + 1, f + 10 + s) \in Octets
         /\ Len(SubSeq(data, f + 10 + 1, f + 10 + s)) = s
    <3>1. PICK i \in Nat, j \in Nat : i = f + 10 + 1 /\ j = f + 10 + s  OBVIOUS
    <3>2. \A k \in i..j : k \in 1..Len(data)  BY <1>l, <2>10, <3>1
    <3>3. \A k \in i..j : data[k] \in Nat  BY <3>2 DEF Octets
    <3>4. /\ SubSeq(data, i, j) \in Seq(Nat)
          /\ Len(SubSeq(data, i, j)) = IF i <= j THEN j - i + 1 ELSE 0
      BY <3>3, SubSeqProperties
    <3>5. j - i + 1 = s /\ (~ (i <= j) => s = 0)  BY <3>1
    <3>. QED  BY <3>1, <3>4, <3>5 DEF Octets
  <2>12. Canonical(n.name) \in AnyName  BY <2>5, CanonicalType
  <2>13. RecordOf(data, n) =
           [name |-> Canonical(n.name), type |-> U16At(data, f), class |-> U16At(data, f + 2),
            ttl |-> U32At(data, f + 4), data |-> SubSeq(data, f + 10 + 1, f + 10 + s)]
    BY <2>6, <2>10 DEF RecordOf
  <2>14. RecordOf(data, n) \in AnswerRecords
    BY <2>8, <2>9, <2>11, <2>12, <2>13 DEF AnswerRecords
  <2>15. end \in Nat
    <3>1. f + 10 + s \in Nat  OBVIOUS
    <3>. QED  BY <3>1, <2>6, <2>10
  <2>16. r \in ParsedRecords  BY <2>1, <2>14, <2>15 DEF ParsedRecords
  <2>17. Len(r.rr.data) <= Len(data)
    <3>1. r.rr.data = SubSeq(data, f + 10 + 1, f + 10 + s)  BY <2>1, <2>13
    <3>2. s <= Len(data)  BY <1>l, <2>10
    <3>. QED  BY <2>11, <3>1, <3>2
  <2>. QED  BY <2>16, <2>17 DEF r
<1>. QED  BY <1>1, <1>2

-----------------------------------------------------------------------------
(* The decoder of a message that is cut off.                               *)

\* Where the beginning of a message can be read, the message says the same.
LEMMA PrefixAt ==
  ASSUME NEW data \in Octets, NEW all \in Octets, BeginsAs(data, all)
  PROVE  /\ Len(data) \in Nat /\ Len(all) \in Nat /\ Len(data) <= Len(all)
         /\ \A o \in Nat : o < Len(data) => At(all, o) = At(data, o)
         /\ \A o \in Nat : o + 1 < Len(data) => U16At(all, o) = U16At(data, o)
<1>1. Len(data) \in Nat /\ Len(all) \in Nat /\ Len(data) <= Len(all)
  BY OctetsAt DEF BeginsAs
<1>2. ASSUME NEW o \in Nat, o < Len(data) PROVE At(all, o) = At(data, o)
  <2>1. PICK i \in 1..Len(data) : i = o + 1  BY <1>1, <1>2
  <2>. QED  BY <2>1 DEF At, BeginsAs
<1>3. ASSUME NEW o \in Nat, o + 1 < Len(data) PROVE U16At(all, o) = U16At(data, o)
  <2>1. o < Len(data) /\ o + 1 \in Nat  BY <1>1, <1>3
  <2>2. At(all, o) = At(data, o) /\ At(all, o + 1) = At(data, o + 1)  BY <1>2, <1>3, <2>1
  <2>. QED  BY <2>2 DEF U16At
<1>. QED  BY <1>1, <1>2, <1>3

\* g finds what f finds from the offsets in S.
FindsAlso(f, g, S) == \A o \in S : f[o] # Error => g[o] = f[o]
Beyond(o, n) == {t \in 0..n : t > o}

\* A step finds the same in the beginning and in the whole.
StepsAgree(data, all, o, p, r, before, other, f, g) ==
  LabelStep(data, p, before, f, o) # Error =>
    LabelStep(all, r, other, g, o) = LabelStep(data, p, before, f, o)

\* One step of the loop over the labels, in the beginning and in the whole.
LEMMA LabelStepPrefix ==
  ASSUME NEW data \in Octets, NEW all \in Octets, BeginsAs(data, all),
         NEW o \in 0..Len(data), NEW p \in Nat, NEW r \in Nat, r >= p,
         NEW before, NEW other, p # 0 => FindsAlso(before, other, 0..Len(data)),
         NEW f, NEW g, FindsAlso(f, g, Beyond(o, Len(data)))
  PROVE  StepsAgree(data, all, o, p, r, before, other, f, g)
<1>. SUFFICES ASSUME LabelStep(data, p, before, f, o) # Error
              PROVE  LabelStep(all, r, other, g, o) = LabelStep(data, p, before, f, o)
  BY DEF StepsAgree
<1>. DEFINE n == Len(data)
            N == Len(all)
<1>1. n \in Nat /\ N \in Nat /\ n <= N  BY PrefixAt
<1>2. o < n /\ o # N  BY <1>1 DEF LabelStep
<1>3. At(data, o) \in Nat /\ At(all, o) = At(data, o)  BY <1>2, OctetsAt, PrefixAt
<1>d. n = Len(data) /\ N = Len(all)  OBVIOUS
<1>e. ~ Error.ok  BY DEF Error
<1>. HIDE DEF n, N
<1>4. CASE At(data, o) = 0  BY <1>1, <1>2, <1>3, <1>4, <1>d DEF LabelStep
<1>5. CASE At(data, o) # 0 /\ At(data, o) >= 192
  <2>1. ~ (o + 1 = n) /\ ~ (U16At(data, o) % 16384 >= n) /\ p # 0
        /\ LabelStep(data, p, before, f, o) = AtPointer(before[U16At(data, o) % 16384], o)
    BY <1>2, <1>5, <1>d DEF LabelStep
  <2>2. o + 1 < n  BY <1>1, <1>2, <2>1
  <2>3. U16At(data, o) \in Nat /\ U16At(all, o) = U16At(data, o)
    BY <1>d, <2>2, OctetsAt, PrefixAt
  <2>4. PICK t \in Nat : t = U16At(data, o) % 16384
    <3>1. PICK u \in Nat : u = U16At(data, o)  BY <2>3
    <3>2. u % 16384 \in Nat  OBVIOUS
    <3>. QED  BY <3>1, <3>2
  <2>5. t \in 0..n /\ ~ (t >= N) /\ r # 0 /\ ~ (o + 1 = N)
    <3>1. ~ (t >= n)  BY <2>1, <2>4
    <3>. QED  BY <1>1, <2>1, <2>2, <3>1
  <2>6. before[t] # Error
    BY <1>e, <2>1, <2>4 DEF AtPointer
  <2>7. other[t] = before[t]  BY <1>d, <2>1, <2>5, <2>6 DEF FindsAlso
  <2>8. LabelStep(all, r, other, g, o) = AtPointer(other[t], o)
    BY <1>2, <1>3, <1>5, <1>d, <2>3, <2>4, <2>5 DEF LabelStep
  <2>. QED  BY <2>1, <2>4, <2>7, <2>8
<1>6. CASE At(data, o) # 0 /\ ~ (At(data, o) >= 192)
  <2>1. ~ (o + 1 + At(data, o) > n)
        /\ LabelStep(data, p, before, f, o) =
             AtLabel(f[o + 1 + At(data, o)], LabelText(data, o))
    BY <1>2, <1>6, <1>d DEF LabelStep
  <2>2. PICK t \in 0..n : t = o + 1 + At(data, o) /\ t > o /\ ~ (t > N)
    BY <1>1, <1>2, <1>3, <2>1
  <2>3. f[t] # Error  BY <1>e, <2>1, <2>2 DEF AtLabel
  <2>4. g[t] = f[t]  BY <1>d, <2>2, <2>3 DEF FindsAlso, Beyond
  <2>5. LabelText(all, o) = LabelText(data, o)
    <3>1. PICK i \in Nat, j \in Nat : i = o + 2 /\ j = t /\ j <= n
      BY <1>1
    <3>2. \A k \in i..j : data[k] = all[k]
      <4>1. \A k \in i..j : k \in 1..n  BY <1>1, <3>1
      <4>. QED  BY <1>d, <4>1 DEF BeginsAs
    <3>3. SubSeq(data, i, j) = SubSeq(all, i, j)  BY <3>2, SubSeqAgrees
    <3>. QED  BY <1>3, <2>2, <3>1, <3>3 DEF LabelText
  <2>6. LabelStep(all, r, other, g, o) = AtLabel(g[t], LabelText(all, o))
    BY <1>2, <1>3, <1>6, <1>d, <2>2 DEF LabelStep
  <2>. QED  BY <2>1, <2>2, <2>4, <2>5, <2>6
<1>. QED  BY <1>3, <1>4, <1>5, <1>6

\* What is found with p pointers in the beginning is found in the whole.
LEMMA LevelsPrefix ==
  ASSUME NEW data \in Octets, NEW all \in Octets, BeginsAs(data, all)
  PROVE  \A p \in 0..Len(data), r \in 0..Len(all) :
           r >= p => FindsAlso(Levels(data)[p], Levels(all)[r], 0..Len(data))
<1>. DEFINE n == Len(data)
            N == Len(all)
            f == Levels(data)
            g == Levels(all)
            Also(p) == \A r \in 0..N : r >= p => FindsAlso(f[p], g[r], 0..n)
            T == {p \in Nat : p <= n => Also(p)}
<1>1. n \in Nat /\ N \in Nat /\ n <= N  BY PrefixAt
<1>2. /\ \A p \in 0..n, o \in 0..n : f[p][o] = LabelStep(data, p, f[p - 1], f[p], o)
      /\ \A p \in 0..N, o \in 0..N : g[p][o] = LabelStep(all, p, g[p - 1], g[p], o)
  BY LevelsStep
<1>d. n = Len(data) /\ N = Len(all)  OBVIOUS
<1>. HIDE DEF n, N, f, g
<1>3. ASSUME NEW p \in 0..n, p # 0 => Also(p - 1) PROVE Also(p)
  <2>. SUFFICES ASSUME NEW r \in 0..N, r >= p PROVE FindsAlso(f[p], g[r], 0..n)
    OBVIOUS
  <2>1. p # 0 => FindsAlso(f[p - 1], g[r - 1], 0..n)
    <3>1. p # 0 => r - 1 \in 0..N /\ r - 1 >= p - 1  BY <1>1
    <3>. QED  BY <1>3, <3>1
  <2>. DEFINE U == {k \in Nat : FindsAlso(f[p], g[r], {t \in 0..n : n - t <= k})}
  <2>2. ASSUME NEW o \in 0..n, FindsAlso(f[p], g[r], Beyond(o, n)), f[p][o] # Error
        PROVE  g[r][o] = f[p][o]
    <3>1. o \in 0..N /\ p \in Nat /\ r \in Nat  BY <1>1
    <3>2. f[p][o] = LabelStep(data, p, f[p - 1], f[p], o)
          /\ g[r][o] = LabelStep(all, r, g[r - 1], g[r], o)
      BY <1>2, <3>1
    <3>. HIDE DEF U
    <3>3. PICK F, G, b, c : F = f[p] /\ G = g[r] /\ b = f[p - 1] /\ c = g[r - 1]  OBVIOUS
    <3>4. /\ p # 0 => FindsAlso(b, c, 0..Len(data))
          /\ FindsAlso(F, G, Beyond(o, Len(data)))
          /\ LabelStep(data, p, b, F, o) # Error
      BY <1>d, <2>1, <2>2, <3>2, <3>3
    <3>5. StepsAgree(data, all, o, p, r, b, c, F, G)
      <4>1. o \in 0..Len(data)  BY <1>d
      <4>. HIDE <2>1, <2>2, <3>2, <3>3
      <4>. QED  BY <3>1, <3>4, <4>1, LabelStepPrefix
    <3>. QED  BY <3>2, <3>3, <3>4, <3>5 DEF StepsAgree
  <2>3. 0 \in U
    <3>1. ASSUME NEW o \in {t \in 0..n : n - t <= 0}, f[p][o] # Error PROVE g[r][o] = f[p][o]
      <4>1. Beyond(o, n) = {}  BY <1>1 DEF Beyond
      <4>2. FindsAlso(f[p], g[r], Beyond(o, n))  BY <4>1 DEF FindsAlso
      <4>. QED  BY <2>2, <3>1, <4>2
    <3>. QED  BY <3>1 DEF FindsAlso
  <2>4. ASSUME NEW k \in Nat, k \in U PROVE k + 1 \in U
    <3>1. ASSUME NEW o \in {t \in 0..n : n - t <= k + 1}, f[p][o] # Error
          PROVE  g[r][o] = f[p][o]
      <4>1. \A t \in 0..n : t > o => n - t <= k  BY <1>1
      <4>2. FindsAlso(f[p], g[r], Beyond(o, n))  BY <2>4, <4>1 DEF FindsAlso, Beyond
      <4>. QED  BY <2>2, <3>1, <4>2
    <3>. QED  BY <3>1 DEF FindsAlso
  <2>5. \A k \in Nat : k \in U
    <3>. HIDE DEF U
    <3>. QED  BY <2>3, <2>4, SetInduction
  <2>6. n \in U /\ \A t \in 0..n : n - t <= n  BY <1>1, <2>5
  <2>. QED  BY <2>6 DEF FindsAlso
<1>. HIDE DEF Also
<1>4. 0 \in T
  <2>1. 0 \in 0..n  BY <1>1
  <2>. QED  BY <1>3, <2>1
<1>5. ASSUME NEW p \in Nat, p \in T PROVE p + 1 \in T
  <2>. SUFFICES ASSUME p + 1 <= n PROVE Also(p + 1)
    OBVIOUS
  <2>1. PICK q \in 0..n : q = p + 1 /\ q - 1 = p /\ p <= n  BY <1>1
  <2>. QED  BY <1>3, <1>5, <2>1
<1>6. \A p \in Nat : p \in T
  <2>. HIDE DEF T
  <2>. QED  BY <1>4, <1>5, SetInduction
<1>7. \A p \in 0..n : Also(p)  BY <1>6
<1>. QED  BY <1>7 DEF Also, n, N, f, g

\* A name that is found in the beginning of a message is the one that is there.
LEMMA DecodeNamePrefix ==
  ASSUME NEW data \in Octets, NEW all \in Octets, BeginsAs(data, all),
         NEW o \in 0..Len(data), NEW name, NEW next, FoundAt(all, o, name, next),
         DecodeName(data, o).ok
  PROVE  DecodeName(data, o) = [ok |-> TRUE, name |-> name, next |-> next]
<1>1. PICK n \in Nat, m \in Nat : n = Len(data) /\ m = Len(all) /\ n <= m  BY PrefixAt
<1>2. DecodeName(data, o) = Levels(data)[n][o]  BY <1>1, LevelsStep
<1>3. Levels(data)[n][o] # Error  BY <1>2 DEF Error
<1>4. n \in 0..n /\ m \in 0..m /\ m >= n /\ m \in o..m  BY <1>1
<1>5. FindsAlso(Levels(data)[n], Levels(all)[m], 0..n)  BY <1>1, <1>4, LevelsPrefix
<1>6. Levels(all)[m][o] = Levels(data)[n][o]  BY <1>1, <1>3, <1>5 DEF FindsAlso
<1>. QED  BY <1>1, <1>2, <1>4, <1>6 DEF FoundAt

\* A record with the owner, the type, the class and the TTL of one that was written,
\* and no more data than a number of octets: those that were written, with every name
\* in full.
IsOf(answer, rr, size) ==
  /\ answer.name = Canonical(rr.name) /\ answer.type = rr.type
  /\ answer.class = rr.class /\ answer.ttl = rr.ttl
  /\ Len(answer.data) <= size
  /\ IsOrdinary(rr) => answer.data = PlainOctets(rr.type, rr.data)

\* What is parsed in the beginning of a message is the record that is there.
ParsedFits(r, rr, size, next) ==
  r.ok => r.rr \in AnswerRecords /\ IsOf(r.rr, rr, size) /\ r.next = next

\* A record that a writer has put is that record, when it has been parsed.
LEMMA ParseRecordFits ==
  ASSUME NEW data \in Octets, NEW all \in Octets, BeginsAs(data, all),
         NEW o \in Nat, NEW rr, IsRecord(rr), NEW next, RecordAt(all, o, rr, next)
  PROVE  ParsedFits(ParseResourceRecord(data, o), rr, Len(data), next)
<1>. DEFINE r == ParseResourceRecord(data, o)
            n == DecodeName(data, o)
<1>. SUFFICES ASSUME r.ok PROVE ParsedFits(r, rr, Len(data), next)
  BY DEF ParsedFits
<1>1. r \in ParsedRecords /\ Len(r.rr.data) <= Len(data)  BY ParseRecordType
<1>2. r # Error  BY DEF Error
<1>3. r.rr \in AnswerRecords  BY <1>1, <1>2 DEF ParsedRecords
<1>4. /\ ~ (o + 10 > Len(data)) /\ n.ok /\ ~ (n.next + 10 > Len(data))
      /\ r.rr.name = Canonical(n.name) /\ r.rr.type = U16At(data, n.next)
      /\ r.rr.class = U16At(data, n.next + 2) /\ r.rr.ttl = U32At(data, n.next + 4)
      /\ r.next = n.next + 10 + U16At(data, n.next + 8) /\ ~ (r.next > Len(data))
      /\ IsReadable(r.rr.type, r.rr.data)
      /\ r.rr.data = DataOctets(data, n.next + 10, U16At(data, n.next + 8))
  BY <1>2, ParseRecordForm DEF IsParsed, RecordOf, DataOctets
<1>5. PICK fixed \in Nat :
        /\ FoundAt(all, o, rr.name, fixed)
        /\ U16At(all, fixed) = rr.type /\ U16At(all, fixed + 2) = rr.class
        /\ U32At(all, fixed + 4) = rr.ttl
        /\ next = fixed + 10 + U16At(all, fixed + 8)
        /\ TellsTrue(DataOctets(all, fixed + 10, U16At(all, fixed + 8)), rr)
  BY DEF RecordAt
<1>. HIDE DEF r, n
<1>6. Len(data) \in Nat /\ o \in 0..Len(data)  BY <1>4, OctetsAt
<1>7. n = [ok |-> TRUE, name |-> rr.name, next |-> fixed]
  BY <1>4, <1>5, <1>6, DecodeNamePrefix DEF n
<1>8. n.name = rr.name /\ n.next = fixed  BY <1>7
<1>9. /\ U16At(all, fixed) = U16At(data, fixed) /\ U16At(all, fixed + 2) = U16At(data, fixed + 2)
      /\ U32At(all, fixed + 4) = U32At(data, fixed + 4)
      /\ U16At(all, fixed + 8) = U16At(data, fixed + 8)
  <2>1. \A i \in 0..8 : U16At(all, fixed + i) = U16At(data, fixed + i)
    <3>1. \A i \in 0..8 : fixed + i \in Nat /\ (fixed + i) + 1 < Len(data)  BY <1>4, <1>6, <1>8
    <3>. QED  BY <3>1, PrefixAt
  <2>2. fixed + 0 = fixed /\ (fixed + 4) + 2 = fixed + 6  OBVIOUS
  <2>3. U16At(all, fixed) = U16At(data, fixed)  BY <2>1, <2>2
  <2>4. U32At(all, fixed + 4) = U32At(data, fixed + 4)
    <3>1. U16At(all, fixed + 4) = U16At(data, fixed + 4)
          /\ U16At(all, fixed + 6) = U16At(data, fixed + 6)
      BY <2>1
    <3>. QED  BY <2>2, <3>1 DEF U32At
  <2>. QED  BY <2>1, <2>3, <2>4
<1>10. r.next = next  BY <1>4, <1>5, <1>8, <1>9
<1>11. IsOrdinary(rr) => r.rr.data = PlainOctets(rr.type, rr.data)
  <2>1. PICK size \in Nat : size = U16At(all, fixed + 8) /\ fixed + 10 + size <= Len(data)
    <3>1. U16At(data, fixed + 8) \in Nat
      <4>1. fixed + 8 \in Nat /\ (fixed + 8) + 1 < Len(data)  BY <1>4, <1>6, <1>8
      <4>. QED  BY <4>1, OctetsAt
    <3>2. PICK size \in Nat : size = U16At(all, fixed + 8)  BY <1>9, <3>1
    <3>3. ~ (fixed + 10 + size > Len(data))  BY <1>4, <1>8, <1>9, <3>2
    <3>. QED  BY <1>6, <3>2, <3>3
  <2>2. DataOctets(data, fixed + 10, size) = DataOctets(all, fixed + 10, size)
    <3>1. PICK i \in Nat, j \in Nat : i = fixed + 10 + 1 /\ j = fixed + 10 + size  OBVIOUS
    <3>2. \A k \in i..j : data[k] = all[k]
      <4>1. \A k \in i..j : k \in 1..Len(data)  BY <1>6, <2>1, <3>1
      <4>. QED  BY <4>1 DEF BeginsAs
    <3>3. SubSeq(data, i, j) = SubSeq(all, i, j)  BY <3>2, SubSeqAgrees
    <3>. QED  BY <3>1, <3>3 DEF DataOctets
  <2>3. r.rr.data = DataOctets(all, fixed + 10, size)  BY <1>4, <1>8, <1>9, <2>1, <2>2
  <2>4. r.rr.type = rr.type  BY <1>4, <1>5, <1>8, <1>9
  <2>. QED  BY <1>4, <1>5, <2>1, <2>3, <2>4 DEF TellsTrue
<1>12. IsOf(r.rr, rr, Len(data))  BY <1>1, <1>4, <1>5, <1>8, <1>9, <1>11 DEF IsOf
<1>. QED  BY <1>3, <1>10, <1>12 DEF ParsedFits, r

-----------------------------------------------------------------------------
(* Sections.                                                               *)

\* What the records that were parsed so far are.
Sections == {Error} \cup [ok : {TRUE}, rrs : Seq(AnswerRecords), next : Nat]

\* One more record.
SectionStep(data, before) ==
  LET r == ParseResourceRecord(data, before.next)
  IN IF ~ before.ok THEN Error
     ELSE IF ~ r.ok THEN Error
     ELSE [ok |-> TRUE, rrs |-> Append(before.rrs, r.rr), next |-> r.next]

NoRecords(offset) == [ok |-> TRUE, rrs |-> <<>>, next |-> offset]

Parses(f, data, offset, n) ==
  f = [i \in 0..n |-> IF i = 0 THEN NoRecords(offset) ELSE SectionStep(data, f[i - 1])]

\* A step ends with records or with an error.
LEMMA SectionStepType ==
  ASSUME NEW data \in Octets, NEW before \in Sections
  PROVE  SectionStep(data, before) \in Sections
<1>. DEFINE r == ParseResourceRecord(data, before.next)
<1>0. ~ Error.ok  BY DEF Error
<1>1. CASE before = Error  BY <1>0, <1>1 DEF SectionStep, Sections
<1>2. CASE before # Error
  <2>1. before.ok = TRUE /\ before.rrs \in Seq(AnswerRecords) /\ before.next \in Nat
    BY <1>2 DEF Sections
  <2>2. r \in ParsedRecords  BY <2>1, ParseRecordType
  <2>3. SectionStep(data, before) =
          IF ~ r.ok THEN Error
          ELSE [ok |-> TRUE, rrs |-> Append(before.rrs, r.rr), next |-> r.next]
    BY <2>1 DEF SectionStep
  <2>. HIDE DEF r
  <2>4. CASE r = Error  BY <1>0, <2>3, <2>4 DEF Sections
  <2>5. CASE r # Error
    <3>1. r.ok = TRUE /\ r.rr \in AnswerRecords /\ r.next \in Nat
      BY <2>2, <2>5 DEF ParsedRecords
    <3>2. Append(before.rrs, r.rr) \in Seq(AnswerRecords)  BY <2>1, <3>1
    <3>. QED  BY <2>3, <3>1, <3>2 DEF Sections
  <2>. QED  BY <2>4, <2>5
<1>. QED  BY <1>1, <1>2

\* A section is parsed record by record.
ParsedStepwise(data, offset, n) ==
  \E f \in [0..n -> Sections] :
    /\ ParseSection(data, offset, n) = f[n] /\ f[0] = NoRecords(offset)
    /\ \A i \in 1..n : f[i] = SectionStep(data, f[i - 1])

\* So it is for all octets.
LEMMA SectionParsed ==
  ASSUME NEW data \in Octets, NEW offset \in Nat, NEW n \in Nat
  PROVE  ParsedStepwise(data, offset, n)
<1>. DEFINE step == [x \in (1..n) \X Sections |-> SectionStep(data, x[2])]
            first == NoRecords(offset)
<1>1. first \in Sections  BY DEF NoRecords, Sections
<1>2. step \in [(1..n) \X Sections -> Sections]  BY SectionStepType
<1>3. \A i \in 1..n, v \in Sections : step[<<i, v>>] = SectionStep(data, v)  OBVIOUS
<1>. HIDE DEF step, first
<1>4. AreSteps(n, Sections, first, step)  BY <1>1, <1>2 DEF AreSteps
<1>5. PICK h \in [0..n -> Sections] : Recurs(h, n, first, step)  BY <1>4, RecursionExists
<1>6. Parses(h, data, offset, n)
  <2>1. ASSUME NEW i \in 0..n
        PROVE  h[i] = IF i = 0 THEN NoRecords(offset) ELSE SectionStep(data, h[i - 1])
    <3>1. CASE i = 0  BY <3>1, <1>5 DEF Recurs, first
    <3>2. CASE i # 0
      <4>1. i \in 1..n /\ i - 1 \in 0..n  BY <3>2
      <4>2. h[i - 1] \in Sections  BY <4>1
      <4>. QED  BY <3>2, <4>1, <4>2, <1>3, <1>5 DEF Recurs
    <3>. QED  BY <3>1, <3>2
  <2>. QED  BY <2>1 DEF Parses
<1>7. PICK f : f = CHOOSE g : Parses(g, data, offset, n)  OBVIOUS
<1>8. Parses(f, data, offset, n)  BY <1>6, <1>7
<1>9. ParseSection(data, offset, n) = f[n]
  BY <1>7 DEF ParseSection, Parses, NoRecords, SectionStep
<1>. HIDE <1>7
<1>10. ASSUME NEW i \in 0..n
       PROVE  f[i] = IF i = 0 THEN first ELSE SectionStep(data, f[i - 1])
  BY <1>8 DEF Parses, first
<1>11. f[0] = first /\ \A i \in 1..n : f[i] = SectionStep(data, f[i - 1])
  BY <1>10
<1>12. \A i \in 0..n : f[i] \in Sections
  <2>1. \A i \in 1..n : f[i - 1] \in Sections => f[i] = step[<<i, f[i - 1]>>]
    BY <1>3, <1>11
  <2>2. f[0] = first  BY <1>11
  <2>. QED  BY <1>4, <2>1, <2>2, RecursionType
<1>13. f \in [0..n -> Sections]
  <2>1. f = [i \in 0..n |-> f[i]]  BY <1>8 DEF Parses
  <2>. QED  BY <1>12, <2>1
<1>. QED  BY <1>9, <1>11, <1>13 DEF first, ParsedStepwise

\* The records parsed so far are the first that were written, and the next one is
\* where it should be.
SectionFits(s, i, rrs, size, next) ==
  s.ok => /\ s.rrs \in Seq(AnswerRecords) /\ Len(s.rrs) = i /\ s.next = next
          /\ \A j \in 1..i : IsOf(s.rrs[j], rrs[j], size)

\* Records that a writer has put are those records, when they have been parsed.
LEMMA ParseSectionFits ==
  ASSUME NEW data \in Octets, NEW all \in Octets, BeginsAs(data, all),
         NEW rrs, IsRecords(rrs), NEW bounds \in [0..Len(rrs) -> Nat],
         RecordsAt(all, rrs, bounds), NEW n \in 0..Len(rrs)
  PROVE  SectionFits(ParseSection(data, bounds[0], n), n, rrs, Len(data), bounds[n])
<1>l. Len(rrs) \in Nat /\ n \in Nat  BY DEF IsRecords
<1>0. 0 \in 0..Len(rrs)  BY <1>l
<1>1. PICK f \in [0..n -> Sections] :
        /\ ParseSection(data, bounds[0], n) = f[n] /\ f[0] = NoRecords(bounds[0])
        /\ \A i \in 1..n : f[i] = SectionStep(data, f[i - 1])
  <2>1. bounds[0] \in Nat  BY <1>0
  <2>2. ParsedStepwise(data, bounds[0], n)  BY <1>l, <2>1, SectionParsed
  <2>. QED  BY <2>2 DEF ParsedStepwise
<1>. DEFINE Goal(i) == SectionFits(f[i], i, rrs, Len(data), bounds[i])
            T == {i \in Nat : i <= n => Goal(i)}
<1>2. 0 \in T
  <2>1. f[0].ok = TRUE /\ f[0].rrs = <<>> /\ f[0].next = bounds[0]  BY <1>1 DEF NoRecords
  <2>. QED  BY <2>1 DEF SectionFits
<1>3. ASSUME NEW i \in Nat, i \in T PROVE i + 1 \in T
  <2>. SUFFICES ASSUME i + 1 <= n PROVE Goal(i + 1)
    OBVIOUS
  <2>1. PICK k \in 1..n : k = i + 1 /\ k - 1 = i /\ i <= n  BY <1>l
  <2>2. Goal(i)
    <3>. HIDE DEF Goal
    <3>. QED  BY <1>3, <2>1
  <2>. DEFINE before == f[i]
              r == ParseResourceRecord(data, before.next)
  <2>3. f[k] = IF ~ before.ok THEN Error
               ELSE IF ~ r.ok THEN Error
               ELSE [ok |-> TRUE, rrs |-> Append(before.rrs, r.rr), next |-> r.next]
    BY <1>1, <2>1 DEF SectionStep
  <2>. SUFFICES ASSUME f[k].ok PROVE SectionFits(f[k], k, rrs, Len(data), bounds[k])
    BY <2>1 DEF SectionFits
  <2>4. before.ok /\ r.ok /\ f[k].rrs = Append(before.rrs, r.rr) /\ f[k].next = r.next
    BY <2>3 DEF Error
  <2>5. /\ before.rrs \in Seq(AnswerRecords) /\ Len(before.rrs) = i /\ before.next = bounds[i]
        /\ \A j \in 1..i : IsOf(before.rrs[j], rrs[j], Len(data))
    BY <2>2, <2>4 DEF SectionFits
  <2>6. ParsedFits(r, rrs[k], Len(data), bounds[k])
    <3>1. IsRecord(rrs[k]) /\ RecordAt(all, bounds[i], rrs[k], bounds[k])
      <4>1. k \in 1..Len(rrs)  BY <1>l, <2>1
      <4>. QED  BY <2>1, <4>1 DEF IsRecords, RecordsAt
    <3>2. bounds[i] \in Nat
      <4>1. i \in 0..Len(rrs)  BY <1>l, <2>1
      <4>. QED  BY <4>1
    <3>3. ParsedFits(ParseResourceRecord(data, bounds[i]), rrs[k], Len(data), bounds[k])
      <4>. HIDE DEF before, r
      <4>. QED  BY <3>1, <3>2, ParseRecordFits
    <3>. QED  BY <2>5, <3>3
  <2>7. /\ r.rr \in AnswerRecords /\ IsOf(r.rr, rrs[k], Len(data))
        /\ r.next = bounds[k]
    BY <2>4, <2>6 DEF ParsedFits
  <2>. HIDE DEF before, r
  <2>8. /\ Append(before.rrs, r.rr) \in Seq(AnswerRecords) /\ Len(Append(before.rrs, r.rr)) = k
        /\ Append(before.rrs, r.rr)[k] = r.rr
        /\ \A j \in 1..i : Append(before.rrs, r.rr)[j] = before.rrs[j]
    BY <2>1, <2>5, <2>7
  <2>9. \A j \in 1..k : j = k \/ j \in 1..i  BY <2>1
  <2>. QED  BY <2>4, <2>5, <2>7, <2>8, <2>9 DEF SectionFits
<1>4. \A i \in Nat : i \in T
  <2>. HIDE DEF T
  <2>. QED  BY <1>2, <1>3, SetInduction
<1>5. Goal(n)
  <2>. HIDE DEF Goal
  <2>. QED  BY <1>4, <1>l
<1>. QED  BY <1>1, <1>5

-----------------------------------------------------------------------------
(* The questions of a response.                                            *)

\* What skips the labels of a name, and the questions.
SkipsNames(f, data) ==
  f = [o \in Nat |-> IF o >= Len(data) THEN -1
                     ELSE IF At(data, o) = 0 THEN o + 1 ELSE f[o + 1 + At(data, o)]]
SkipsQuestions(g, f, n) ==
  g = [i \in 0..n |-> IF i = 0 THEN HeaderSize
                      ELSE LET o == g[i - 1] IN IF o = -1 THEN -1
                           ELSE LET end == f[o] IN IF end = -1 THEN -1 ELSE end + 4]

\* Some function skips names, whatever the octets.
LEMMA SkipsNamesExists ==
  ASSUME NEW data \in Octets
  PROVE  \E f : SkipsNames(f, data)
<1>. DEFINE T == {o \in Nat : ~ (o >= Len(data)) /\ At(data, o) # 0}
            V == Nat \cup {-1}
            next == [o \in T |-> o + 1 + At(data, o)]
            base == [o \in Nat |-> IF o >= Len(data) THEN -1 ELSE o + 1]
            step == [x \in T \X V |-> x[2]]
<1>1. next \in [T -> Nat]
  <2>1. ASSUME NEW o \in T PROVE o + 1 + At(data, o) \in Nat
    <3>1. o \in Nat /\ o < Len(data)  BY OctetsAt
    <3>2. At(data, o) \in Nat  BY <3>1, OctetsAt
    <3>. QED  BY <3>1, <3>2
  <2>. QED  BY <2>1
<1>2. base \in [Nat -> V]  OBVIOUS
<1>3. step \in [T \X V -> V] /\ \A o \in T : step[<<o, -1>>] = -1 /\ \A v \in V : step[<<o, v>>] = v
  OBVIOUS
<1>4. T \in SUBSET Nat /\ -1 \in V  OBVIOUS
<1>d. /\ \A o \in T : next[o] = o + 1 + At(data, o)
      /\ \A o \in Nat : base[o] = IF o >= Len(data) THEN -1 ELSE o + 1
      /\ \A o \in Nat : o \in T <=> ~ (o >= Len(data)) /\ At(data, o) # 0
  OBVIOUS
<1>. HIDE DEF T, V, next, base, step
<1>5. PICK none : none = -1  OBVIOUS
<1>6. AreRules(Nat, T, V, none, next, base, step)  BY <1>1, <1>2, <1>3, <1>4, <1>5 DEF AreRules
<1>7. PICK f \in [Nat -> V] : Follows(f, Nat, T, next, base, step)  BY <1>6, FollowsExists
<1>8. ASSUME NEW o \in Nat
      PROVE  f[o] = IF o >= Len(data) THEN -1
                    ELSE IF At(data, o) = 0 THEN o + 1 ELSE f[o + 1 + At(data, o)]
  <2>1. f[o] = IF o \in T THEN step[<<o, f[next[o]]>>] ELSE base[o]  BY <1>7 DEF Follows
  <2>2. CASE o \in T
    <3>1. next[o] \in Nat /\ f[next[o]] \in V  BY <1>1, <2>2
    <3>. QED  BY <1>3, <1>d, <2>1, <2>2, <3>1
  <2>3. CASE o \notin T  BY <1>d, <2>1, <2>3
  <2>. QED  BY <2>2, <2>3
<1>. QED  BY <1>7, <1>8 DEF SkipsNames

\* A name that is written is skipped.
LEMMA NameSkipped ==
  ASSUME NEW data \in Octets, NEW f, SkipsNames(f, data),
         NEW start \in Nat, NEW name, IsName(name), NameIsAt(data, start, name)
  PROVE  f[start] = start + Taken(name, Len(name)) + 1
<1>1. PICK n \in Nat : n = Len(name) /\ name \in AnyName /\ Len(data) \in Nat
  BY OctetsAt DEF IsName, AnyName
<1>2. \A k \in 0..n : Taken(name, k) \in Nat  BY <1>1, TakenType
<1>3. n \in 0..n /\ 0 \in 0..n  BY <1>1
<1>4. PICK end \in Nat : end = start + Taken(name, n)  BY <1>2, <1>3
<1>5. end < Len(data) /\ At(data, end) = 0 /\ PlacedAt(data, start, name, n)
  BY <1>1, <1>4 DEF NameIsAt
<1>6. ASSUME NEW o \in Nat, o < Len(data)
      PROVE  f[o] = IF At(data, o) = 0 THEN o + 1 ELSE f[o + 1 + At(data, o)]
  <2>1. ~ (o >= Len(data))  BY <1>1, <1>6
  <2>. QED  BY <2>1 DEF SkipsNames
<1>. DEFINE Has(k) == f[start + Taken(name, k)] = end + 1
            T == {j \in Nat : j <= n => Has(n - j)}
<1>7. 0 \in T
  <2>1. n - 0 = n  OBVIOUS
  <2>2. Has(n)  BY <1>4, <1>5, <1>6
  <2>. HIDE DEF Has
  <2>. QED  BY <2>1, <2>2
<1>8. ASSUME NEW j \in Nat, j \in T PROVE j + 1 \in T
  <2>. SUFFICES ASSUME j + 1 <= n PROVE Has(n - (j + 1))
    OBVIOUS
  <2>1. PICK k \in 0..n - 1 : k = n - (j + 1) /\ n - j = k + 1  OBVIOUS
  <2>2. Has(k + 1)
    <3>1. j <= n  OBVIOUS
    <3>2. Has(n - j)
      <4>. HIDE DEF Has
      <4>. QED  BY <1>8, <3>1
    <3>. HIDE DEF Has
    <3>. QED  BY <2>1, <3>2
  <2>3. PICK o \in Nat, rest \in Nat, l \in 1..MaxLabel :
          /\ o = start + Taken(name, k) /\ rest = start + Taken(name, k + 1)
          /\ l = Len(name[k + 1])
    <3>0. k \in 0..n /\ k + 1 \in 0..n /\ k + 1 \in 1..n  BY <2>1
    <3>1. Len(name[k + 1]) \in 1..MaxLabel  BY <1>1, <3>0 DEF IsName, AnyName
    <3>2. start + Taken(name, k) \in Nat /\ start + Taken(name, k + 1) \in Nat
      BY <1>2, <3>0
    <3>. QED  BY <3>1, <3>2
  <2>4. At(data, o) = l /\ rest = o + 1 + l /\ rest <= Len(data)
    BY <1>5, <2>1, <2>3 DEF PlacedAt
  <2>5. l # 0 /\ o < Len(data)
    <3>1. l \in Nat /\ l # 0  BY l \in 1..MaxLabel DEF MaxLabel
    <3>. QED  BY <1>1, <2>3, <2>4, <3>1
  <2>6. f[o] = f[rest]  BY <1>6, <2>3, <2>4, <2>5
  <2>. QED  BY <2>1, <2>2, <2>3, <2>6
<1>9. \A j \in Nat : j \in T
  <2>. HIDE DEF T
  <2>. QED  BY <1>7, <1>8, SetInduction
<1>10. Has(0)
  <2>1. n - n = 0 /\ n <= n  OBVIOUS
  <2>2. n \in T  BY <1>9
  <2>. HIDE DEF Has
  <2>. QED  BY <2>1, <2>2
<1>11. Taken(name, 0) = 0 /\ start + 0 = start  BY NoLabels DEF Taken
<1>. QED  BY <1>1, <1>4, <1>10, <1>11

\* One question is skipped.
LEMMA OneSkipped ==
  ASSUME NEW data, NEW f, f = CHOOSE h : SkipsNames(h, data), NEW end \in Nat,
         f[HeaderSize] = end
  PROVE  SkipQuestions(data, 1) = end + 4
<1>. DEFINE step(o) == IF o = -1 THEN -1 ELSE IF f[o] = -1 THEN -1 ELSE f[o] + 4
            h == [i \in 0..1 |-> IF i = 0 THEN HeaderSize ELSE step(HeaderSize)]
<1>0. HeaderSize # -1 /\ end # -1  BY DEF HeaderSize
<1>1. SkipsQuestions(h, f, 1)
  <2>1. ASSUME NEW i \in 0..1 PROVE h[i] = IF i = 0 THEN HeaderSize ELSE step(h[i - 1])
    <3>1. i = 0 \/ (i = 1 /\ i - 1 = 0 /\ 0 \in 0..1)  OBVIOUS
    <3>. HIDE DEF step
    <3>. QED  BY <3>1
  <2>. HIDE DEF h
  <2>2. h = [i \in 0..1 |-> h[i]]  BY DEF h
  <2>. QED  BY <2>1, <2>2 DEF SkipsQuestions
<1>2. PICK g : g = CHOOSE k : SkipsQuestions(k, f, 1)  OBVIOUS
<1>3. SkipsQuestions(g, f, 1)  BY <1>1, <1>2
<1>4. SkipQuestions(data, 1) = g[1]  BY <1>2 DEF SkipQuestions, SkipsQuestions, SkipsNames
<1>. HIDE <1>2
<1>5. g[0] = HeaderSize /\ g[1] = step(g[0])
  <2>1. \A i \in 0..1 : g[i] = IF i = 0 THEN HeaderSize ELSE step(g[i - 1])
    BY <1>3 DEF SkipsQuestions
  <2>2. 0 \in 0..1 /\ 1 \in 0..1 /\ 1 - 1 = 0 /\ 1 # 0  OBVIOUS
  <2>. HIDE DEF step
  <2>. QED  BY <2>1, <2>2
<1>. QED  BY <1>0, <1>4, <1>5

\* The question of a message that begins with a header and a question is skipped.
LEMMA QuestionSkipped ==
  ASSUME NEW id \in Nat, NEW flags \in Nat, NEW counts, AreCounts(counts),
         NEW q, IsQuestion(q), NEW data \in Octets,
         BeginsAs(HeadOctets(id, flags, counts, q), data)
  PROVE  SkipQuestions(data, 1) = QuestionEnd(q) + 4
<1>. DEFINE six == SixNumbers(id, flags, counts)
<1>1. six \in Octets /\ Len(six) = HeaderSize  BY SixRead
<1>2. BeginsAs(six \o QuestionOctets(q), data)  BY DEF HeadOctets
<1>. HIDE DEF six
<1>3. NameIsAt(data, HeaderSize, q.name)
      /\ QuestionEnd(q) = HeaderSize + Taken(q.name, Len(q.name)) + 1
  BY <1>1, <1>2, QuestionRead
<1>4. PICK f : f = CHOOSE h : SkipsNames(h, data)  OBVIOUS
<1>5. SkipsNames(f, data)  BY <1>4, SkipsNamesExists
<1>6. HeaderSize \in Nat /\ IsName(q.name)  BY QuestionFields DEF HeaderSize
<1>7. f[HeaderSize] = QuestionEnd(q)
  <2>. HIDE <1>4
  <2>. QED  BY <1>3, <1>5, <1>6, NameSkipped
<1>8. QuestionEnd(q) \in Nat  BY QuestionType
<1>. QED  BY <1>4, <1>7, <1>8, OneSkipped

-----------------------------------------------------------------------------
(* Responses, as the server reads them.                                    *)

\* A list is the beginning of itself with more behind it.
LEMMA ListBegins ==
  ASSUME NEW a, NEW b, IsSection(a), IsSection(b)
  PROVE  /\ Len(a) \in Nat /\ Len(a \o b) \in Nat /\ Len(a) <= Len(a \o b)
         /\ \A i \in 1..Len(a) : (a \o b)[i] = a[i]
<1>. DEFINE A == Range(a)
            B == Range(b)
<1>1. a \in Seq(A) /\ b \in Seq(B)  BY DEF IsSection
<1>2. a \in Seq(A \cup B) /\ b \in Seq(A \cup B)
  <2>. HIDE DEF A, B
  <2>. QED  BY <1>1
<1>. HIDE DEF A, B
<1>3. Len(a) \in Nat /\ Len(b) \in Nat  BY <1>2
<1>4. Len(a \o b) = Len(a) + Len(b)  BY <1>2
<1>5. \A i \in 1..Len(a) : (a \o b)[i] = a[i]  BY <1>2
<1>. QED  BY <1>3, <1>4, <1>5

\* The answers are the first records of a message.
LEMMA AnswersFirst ==
  ASSUME NEW m, IsMessage(m)
  PROVE  /\ IsRecords(AllRecords(m)) /\ Len(m.answers) \in 0..Len(AllRecords(m))
         /\ \A i \in 1..Len(m.answers) : AllRecords(m)[i] = m.answers[i]
<1>1. IsSection(m.answers) /\ IsSection(m.authority) /\ IsSection(m.additional)
  BY DEF IsMessage
<1>2. PICK two : two = m.answers \o m.authority  OBVIOUS
<1>3. IsSection(two)  BY <1>1, <1>2, SectionsConcat
<1>4. PICK rrs : rrs = two \o m.additional  OBVIOUS
<1>5. IsSection(rrs)  BY <1>1, <1>3, <1>4, SectionsConcat
<1>6. AllRecords(m) = rrs  BY <1>2, <1>4 DEF AllRecords
<1>7. /\ Len(m.answers) \in Nat /\ Len(two) \in Nat /\ Len(m.answers) <= Len(two)
      /\ \A i \in 1..Len(m.answers) : two[i] = m.answers[i]
  BY <1>1, <1>2, ListBegins
<1>8. /\ Len(rrs) \in Nat /\ Len(two) <= Len(rrs) /\ \A i \in 1..Len(two) : rrs[i] = two[i]
  BY <1>1, <1>3, <1>4, ListBegins
<1>9. Len(m.answers) \in 0..Len(rrs) /\ \A i \in 1..Len(m.answers) : i \in 1..Len(two)
  BY <1>7, <1>8
<1>. QED  BY <1>5, <1>6, <1>7, <1>8, <1>9, SectionRecords

\* The answers that were written: as many, each with its owner, its type, its class,
\* its TTL and its data.
AreAnswersOf(answers, written) ==
  /\ answers \in Seq(AnswerRecords) /\ Len(answers) = Len(written)
  /\ \A i \in 1..Len(written) : IsOf(answers[i], written[i], BufferSize)

\* What DecodeResponse gives.
LEMMA DecodeResponseForm ==
  ASSUME NEW data, NEW expected, DecodeResponse(data, expected).ok,
         NEW s, s = ParseSection(data, SkipQuestions(data, U16At(data, 4)), U16At(data, 6))
  PROVE  /\ U16At(data, 0) = expected /\ s.ok
         /\ DecodeResponse(data, expected).answers = s.rrs
BY DEF DecodeResponse, Error

\* The server takes all answers of a message or none: what it decodes, of whatever
\* part of the message its buffer holds, has the ID it expects, and the answers that
\* were written, in the same order. Their data have the names in full, since data with
\* a pointer are refused (but for an SOA record that is not ordinary).
THEOREM ResponseDecoded ==
  ASSUME NEW id \in Nat, NEW q, IsQuestion(q), QuestionEnd(q) + 4 <= BufferSize,
         NEW m, IsMessage(m), NEW expected,
         DecodeResponse(Read(WriteResponse(id, q, m)), expected).ok
  PROVE  /\ expected = id
         /\ AreAnswersOf(DecodeResponse(Read(WriteResponse(id, q, m)), expected).answers,
                         m.answers)
<1>1. PICK all : all = WriteResponse(id, q, m)  OBVIOUS
<1>2. PICK data : data = Read(all)  OBVIOUS
<1>3. PICK rrs : rrs = AllRecords(m)  OBVIOUS
<1>4. PICK counts : counts = ResponseCounts(m)  OBVIOUS
<1>5. PICK flags : flags = 33152 + m.rcode  OBVIOUS
<1>6. PICK head : head = HeadOctets(id, flags, counts, q)  OBVIOUS
<1>7. AreCounts(counts) /\ flags \in Nat /\ counts[1] = 1 /\ counts[2] = Len(m.answers)
  BY <1>4, <1>5, CountsType DEF ResponseCounts
<1>8. all \in Octets /\ BeginsAs(head, all)
      /\ \E bounds : ResponseIsAt(all, q, rrs, bounds)
  BY <1>1, <1>3, <1>4, <1>5, <1>6, ResponseWritten DEF ResponseIsWritten, ResponseHead
<1>9. PICK bounds : ResponseIsAt(all, q, rrs, bounds)  BY <1>8
<1>10. head \in Octets /\ Len(head) = QuestionEnd(q) + 4  BY <1>6, <1>7, HeadType
<1>11. /\ data \in Octets /\ BeginsAs(data, all) /\ Len(data) <= BufferSize
       /\ BeginsAs(head, data)
  BY <1>2, <1>8, <1>10, DatagramRead
<1>12. IsRecords(rrs) /\ Len(m.answers) \in 0..Len(rrs)
       /\ \A i \in 1..Len(m.answers) : rrs[i] = m.answers[i]
  BY <1>3, AnswersFirst
<1>13. /\ U16At(data, 0) = id /\ U16At(data, 4) = 1 /\ U16At(data, 6) = Len(m.answers)
  <2>1. BeginsAs(HeadOctets(id, flags, counts, q), data)  BY <1>6, <1>11
  <2>2. HeadIsRead(data, id, flags, counts, q)  BY <1>7, <1>11, <2>1, HeadRead
  <2>. QED  BY <1>7, <2>2 DEF HeadIsRead
<1>14. SkipQuestions(data, 1) = QuestionEnd(q) + 4
  <2>1. BeginsAs(HeadOctets(id, flags, counts, q), data)  BY <1>6, <1>11
  <2>. QED  BY <1>7, <1>11, <2>1, QuestionSkipped
<1>15. PICK n \in Nat : n = Len(m.answers)  BY CountsType
<1>16. PICK s : s = ParseSection(data, SkipQuestions(data, 1), n)  OBVIOUS
<1>17. SectionFits(s, n, rrs, Len(data), bounds[n])
  <2>1. bounds \in [0..Len(rrs) -> Nat] /\ RecordsAt(all, rrs, bounds)
        /\ bounds[0] = QuestionEnd(q) + 4
    BY <1>9 DEF ResponseIsAt
  <2>2. n \in 0..Len(rrs)  BY <1>12, <1>15
  <2>3. SectionFits(ParseSection(data, bounds[0], n), n, rrs, Len(data), bounds[n])
    BY <1>8, <1>11, <1>12, <2>1, <2>2, ParseSectionFits
  <2>. QED  BY <1>14, <1>16, <2>1, <2>3
<1>18. DecodeResponse(data, expected).ok  BY <1>1, <1>2
<1>19. /\ expected = id /\ s.ok
       /\ DecodeResponse(data, expected).answers = s.rrs
  <2>1. s = ParseSection(data, SkipQuestions(data, U16At(data, 4)), U16At(data, 6))
    BY <1>13, <1>15, <1>16
  <2>. QED  BY <1>13, <1>18, <2>1, DecodeResponseForm
<1>20. /\ s.rrs \in Seq(AnswerRecords) /\ Len(s.rrs) = n
       /\ \A i \in 1..n : IsOf(s.rrs[i], rrs[i], Len(data))
  BY <1>17, <1>19 DEF SectionFits
<1>21. ASSUME NEW i \in 1..n PROVE IsOf(s.rrs[i], m.answers[i], BufferSize)
  <2>1. IsOf(s.rrs[i], m.answers[i], Len(data)) /\ s.rrs[i] \in AnswerRecords
    BY <1>12, <1>15, <1>20
  <2>2. PICK l \in Nat : l = Len(s.rrs[i].data)
    <3>1. s.rrs[i].data \in Octets  BY <2>1 DEF AnswerRecords
    <3>. QED  BY <3>1, OctetsAt
  <2>3. l <= Len(data)  BY <2>1, <2>2 DEF IsOf
  <2>4. l <= BufferSize  BY <1>11, <2>3, OctetsAt, CodecAssumption
  <2>. QED  BY <2>1, <2>2, <2>4 DEF IsOf
<1>22. AreAnswersOf(s.rrs, m.answers)  BY <1>15, <1>20, <1>21 DEF AreAnswersOf
<1>. QED  BY <1>1, <1>2, <1>19, <1>22

\* The canonical form of a name has no label that is too long.
LEMMA CanonicalFits ==
  ASSUME NEW name, IsName(name)
  PROVE  LabelsFit(Canonical(name))
<1>1. name \in AnyName  BY DEF IsName
<1>2. \A i \in DOMAIN Canonical(name) :
        i \in DOMAIN name /\ Len(Canonical(name)[i]) = Len(name[i])
  BY <1>1, CanonicalType
<1>3. \A i \in DOMAIN name : Len(name[i]) <= MaxLabel  BY NameFits DEF LabelsFit
<1>. QED  BY <1>2, <1>3 DEF LabelsFit

\* What the server has decoded it can encode again.
LEMMA DecodedFits ==
  ASSUME NEW written, IsSection(written), Len(written) < 65536, BufferSize < 65536,
         NEW answers, AreAnswersOf(answers, written)
  PROVE  answers \in Seq(AnswerRecords) /\ ResponseFits(answers)
<1>1. /\ answers \in Seq(AnswerRecords) /\ Len(answers) = Len(written)
      /\ \A i \in 1..Len(written) : IsOf(answers[i], written[i], BufferSize)
  BY DEF AreAnswersOf
<1>2. IsRecords(written)  BY SectionRecords
<1>3. Len(written) \in Nat /\ DOMAIN answers = 1..Len(written)  BY <1>1, <1>2 DEF IsRecords
<1>4. Len(answers) <= 65535  BY <1>1, <1>3
<1>5. ASSUME NEW i \in 1..Len(written)
      PROVE  LabelsFit(answers[i].name) /\ Len(answers[i].data) <= 65535
  <2>1. IsName(written[i].name)  BY <1>2 DEF IsRecords, IsRecord
  <2>2. answers[i].name = Canonical(written[i].name) /\ Len(answers[i].data) <= BufferSize
    BY <1>1 DEF IsOf
  <2>3. PICK l \in Nat : l = Len(answers[i].data)
    <3>1. answers[i] \in AnswerRecords  BY <1>1, <1>3
    <3>2. answers[i].data \in Octets  BY <3>1 DEF AnswerRecords
    <3>. QED  BY <3>2, OctetsAt
  <2>4. l <= 65535  BY <2>2, <2>3, CodecAssumption
  <2>. QED  BY <2>1, <2>2, <2>3, <2>4, CanonicalFits
<1>. QED  BY <1>1, <1>3, <1>4, <1>5 DEF ResponseFits

-----------------------------------------------------------------------------
(* The data of records from zone files.                                    *)

\* Without its empty labels a name is a name.
LEMMA NonEmptyType ==
  ASSUME NEW name \in AnyName
  PROVE  NonEmpty(name) \in AnyName
<1>n. PICK n \in Nat : n = Len(name) /\ name \in Seq(Octets) /\ DOMAIN name = 1..n
  BY DEF AnyName
<1>. DEFINE A(i) == IF name[i] = <<>> THEN <<>> ELSE <<name[i]>>
<1>1. ASSUME NEW i \in 1..n PROVE A(i) \in Seq(Octets)
  <2>1. name[i] \in Octets  BY <1>n
  <2>. QED  BY <2>1
<1>2. NonEmpty(name) = FlattenSeq([i \in 1..n |-> A(i)])  BY <1>n DEF NonEmpty
<1>. HIDE DEF A
<1>3. [i \in 1..n |-> A(i)] \in Seq(Seq(Octets))  BY <1>1
<1>. QED  BY <1>2, <1>3, FlattenType DEF AnyName

\* The names of a value are written as octets.
LEMMA NameFieldsType ==
  ASSUME NEW value, value.names \in Seq(AnyName)
  PROVE  NameFields(value) \in Octets
<1>n. PICK n \in Nat : n = Len(value.names) /\ DOMAIN value.names = 1..n  OBVIOUS
<1>. DEFINE A(i) == EncodePlainName(value.names[i])
<1>1. ASSUME NEW i \in 1..n PROVE A(i) \in Seq(Nat)
  <2>1. value.names[i] \in AnyName  BY <1>n
  <2>2. Canonical(value.names[i]) \in AnyName  BY <2>1, CanonicalType
  <2>3. Labels(NonEmpty(Canonical(value.names[i]))) \in Octets
    BY <2>2, NonEmptyType, LabelsType
  <2>4. <<0>> \in Octets  BY DEF Octets
  <2>. QED  BY <2>3, <2>4, ConcatOctets DEF EncodePlainName, Octets
<1>2. NameFields(value) = FlattenSeq([i \in 1..n |-> A(i)])  BY <1>n DEF NameFields
<1>. HIDE DEF A
<1>3. [i \in 1..n |-> A(i)] \in Seq(Seq(Nat))  BY <1>1
<1>. QED  BY <1>2, <1>3, FlattenType DEF Octets

\* An encoder of fields makes octets, if the numbers are in range.
LEMMA FieldsType ==
  ASSUME NEW value, value.numbers \in Seq(Int), value.names \in Seq(AnyName),
         Range(value.numbers) \subseteq Nat
  PROVE  /\ NameFields(value) \in Octets
         /\ Fields16(value) \o NameFields(value) \in Octets
         /\ NameFields(value) \o Fields32(value) \in Octets
<1>1. value.numbers \in Seq(Nat)
  <2>1. value.numbers \in Seq(Int)  OBVIOUS
  <2>2. \A i \in DOMAIN value.numbers : value.numbers[i] \in Nat  BY DEF Range
  <2>. QED  BY <2>1, <2>2
<1>2. Fields16(value) \in Octets /\ Fields32(value) \in Octets
  BY <1>1, NumbersPut DEF Fields16, Fields32
<1>3. NameFields(value) \in Octets  BY NameFieldsType
<1>. QED  BY <1>2, <1>3, ConcatOctets

\* Which encoder rrdata.Encode chooses.
LEMMA EncodeDataForm ==
  ASSUME NEW type, NEW value
  PROVE  /\ type \in NameTypes => EncodeData(type, value) = EncodeNSData(value)
         /\ type = TypeMX => EncodeData(type, value) = EncodeMXData(value)
         /\ type = TypeSRV => EncodeData(type, value) = EncodeSRVData(value)
         /\ type = TypeSOA => EncodeData(type, value) = EncodeSOAData(value)
         /\ type = TypeTXT => EncodeData(type, value) = EncodeTXTData(value)
         /\ type = TypeCAA => EncodeData(type, value) = EncodeCAAData(value)
         /\ type \notin NameTypes \cup {TypeMX, TypeSRV, TypeSOA, TypeTXT, TypeCAA} =>
              EncodeData(type, value) \in {EncodeAData(value), EncodeAAAAData(value), <<>>, value}
<1>1. EncodeData(type, value) =
        CASE type = TypeA -> EncodeAData(value)
          [] type = TypeAAAA -> EncodeAAAAData(value)
          [] type \in NameTypes -> EncodeNSData(value)
          [] type = TypeMX -> EncodeMXData(value)
          [] type = TypeSRV -> EncodeSRVData(value)
          [] type = TypeSOA -> EncodeSOAData(value)
          [] type = TypeTXT -> EncodeTXTData(value)
          [] type = TypeCAA -> EncodeCAAData(value)
          [] type \in NotImplemented -> <<>>
          [] OTHER -> value
  BY DEF EncodeData
<1>. DEFINE Apart(t) ==
       t \in {TypeA, TypeAAAA, TypeMX, TypeSRV, TypeSOA, TypeTXT, TypeCAA} =>
         t \notin NameTypes /\ t \notin NotImplemented
<1>2. Apart(type)
  BY DEF NameTypes, NotImplemented, TypeA, TypeAAAA, TypeNS, TypeCNAME, TypePTR, TypeMX,
         TypeSRV, TypeSOA, TypeTXT, TypeCAA
<1>3. type \in NameTypes => type \notin NotImplemented
  BY DEF NameTypes, NotImplemented, TypeNS, TypeCNAME, TypePTR
<1>4. /\ TypeA \notin {TypeAAAA, TypeMX, TypeSRV, TypeSOA, TypeTXT, TypeCAA}
      /\ TypeAAAA \notin {TypeMX, TypeSRV, TypeSOA, TypeTXT, TypeCAA}
      /\ TypeMX \notin {TypeSRV, TypeSOA, TypeTXT, TypeCAA}
      /\ TypeSRV \notin {TypeSOA, TypeTXT, TypeCAA}
      /\ TypeSOA \notin {TypeTXT, TypeCAA} /\ TypeTXT # TypeCAA
  BY DEF TypeA, TypeAAAA, TypeMX, TypeSRV, TypeSOA, TypeTXT, TypeCAA
<1>5. CASE type \in NameTypes  BY <1>1, <1>2, <1>3, <1>5
<1>6. CASE type = TypeMX  BY <1>1, <1>2, <1>4, <1>6
<1>7. CASE type = TypeSRV  BY <1>1, <1>2, <1>4, <1>7
<1>8. CASE type = TypeSOA  BY <1>1, <1>2, <1>4, <1>8
<1>9. CASE type = TypeTXT  BY <1>1, <1>2, <1>4, <1>9
<1>10. CASE type = TypeCAA  BY <1>1, <1>2, <1>4, <1>10
<1>11. CASE type = TypeA  BY <1>1, <1>2, <1>4, <1>11
<1>12. CASE type = TypeAAAA  BY <1>1, <1>2, <1>4, <1>12
<1>13. CASE type \notin NameTypes \cup {TypeA, TypeAAAA, TypeMX, TypeSRV, TypeSOA, TypeTXT, TypeCAA}
  BY <1>1, <1>13
<1>. QED  BY <1>5, <1>6, <1>7, <1>8, <1>9, <1>10, <1>11, <1>12, <1>13

\* Whatever a zone file gives as a value, the encoder of its type makes octets of it,
\* or nothing.
LEMMA EncodeDataType ==
  ASSUME NEW type, NEW value, IsText(type, value)
  PROVE  EncodeData(type, value) \in Octets
<1>0. <<>> \in Octets  BY DEF Octets
<1>1. CASE type \in NameTypes \cup {TypeMX, TypeSRV, TypeSOA}
  <2>1. value.numbers \in Seq(Int) /\ value.names \in Seq(AnyName)
    BY <1>1 DEF IsText
  <2>2. {} \in SUBSET Nat /\ Nat \in SUBSET Nat  OBVIOUS
  <2>. DEFINE R == 0..65535
  <2>r. R \in SUBSET Nat  OBVIOUS
  <2>3. ASSUME NEW n, NEW range \in SUBSET Nat, NEW k, HasFields(value, n, range, k)
        PROVE  /\ NameFields(value) \in Octets
               /\ Fields16(value) \o NameFields(value) \in Octets
               /\ NameFields(value) \o Fields32(value) \in Octets
    <3>1. Range(value.numbers) \subseteq Nat  BY <2>3 DEF HasFields
    <3>. QED  BY <2>1, <3>1, FieldsType
  <2>n. EncodeNSData(value) \in Octets  BY <1>0, <2>2, <2>3 DEF EncodeNSData
  <2>m. EncodeMXData(value) \in Octets
    <3>1. EncodeMXData(value) = IF HasFields(value, 1, R, 1)
                                THEN Fields16(value) \o NameFields(value) ELSE <<>>
      BY DEF EncodeMXData
    <3>. HIDE DEF R
    <3>. QED  BY <1>0, <2>r, <2>3, <3>1
  <2>s. EncodeSRVData(value) \in Octets
    <3>1. EncodeSRVData(value) = IF HasFields(value, 3, R, 1)
                                 THEN Fields16(value) \o NameFields(value) ELSE <<>>
      BY DEF EncodeSRVData
    <3>. HIDE DEF R
    <3>. QED  BY <1>0, <2>r, <2>3, <3>1
  <2>o. EncodeSOAData(value) \in Octets  BY <1>0, <2>2, <2>3 DEF EncodeSOAData
  <2>. QED  BY <1>1, <2>n, <2>m, <2>s, <2>o, EncodeDataForm
<1>2. CASE type = TypeTXT
  <2>1. value \in AnyName  BY <1>2 DEF IsText
  <2>2. Labels(NonEmpty(value)) \in Octets  BY <2>1, NonEmptyType, LabelsType
  <2>3. EncodeTXTData(value) \in Octets  BY <1>0, <2>2 DEF EncodeTXTData
  <2>. QED  BY <1>2, <2>3, EncodeDataForm
<1>3. CASE type = TypeCAA
  <2>1. value.tag \in Octets /\ value.value \in Octets /\ Len(value.tag) \in Nat
    BY <1>3, OctetsAt DEF IsText
  <2>2. ASSUME value.flag \in 0..255 PROVE EncodeCAAData(value) \in Octets
    <3>1. value.flag \in Nat  BY <2>2
    <3>2. <<value.flag, Len(value.tag)>> \in Octets  BY <2>1, <3>1 DEF Octets
    <3>3. <<value.flag, Len(value.tag)>> \o value.tag \in Octets
      BY <2>1, <3>2, ConcatOctets
    <3>4. <<value.flag, Len(value.tag)>> \o value.tag \o value.value \in Octets
      BY <2>1, <3>3, ConcatOctets
    <3>. QED  BY <1>0, <3>4 DEF EncodeCAAData
  <2>3. EncodeCAAData(value) \in Octets  BY <1>0, <2>2 DEF EncodeCAAData
  <2>. QED  BY <1>3, <2>3, EncodeDataForm
<1>4. CASE type \notin NameTypes \cup {TypeMX, TypeSRV, TypeSOA, TypeTXT, TypeCAA}
  <2>1. value \in Octets  BY <1>4 DEF IsText
  <2>2. EncodeAData(value) \in Octets /\ EncodeAAAAData(value) \in Octets
    BY <1>0, <2>1 DEF EncodeAData, EncodeAAAAData
  <2>. QED  BY <1>0, <1>4, <2>1, <2>2, EncodeDataForm
<1>. QED  BY <1>1, <1>2, <1>3, <1>4

-----------------------------------------------------------------------------
(* The data of a record, read where it was put without pointers.           *)

\* The strings of a text, from an offset on.
StringsFollow(f, octets, size) ==
  f = [o \in Nat |-> IF o >= size THEN <<>>
                     ELSE <<LabelText(octets, o)>> \o f[o + 1 + At(octets, o)]]

\* Some function gives them, whatever the octets.
LEMMA StringsExist ==
  ASSUME NEW octets \in Octets, NEW size, size = Len(octets)
  PROVE  \E f : StringsFollow(f, octets, size)
<1>. DEFINE T == {o \in Nat : ~ (o >= size)}
            W == {LabelText(octets, o) : o \in T}
            next == [o \in T |-> o + 1 + At(octets, o)]
<1>s. size \in Nat  BY OctetsAt
<1>v. PICK none : none \notin Seq(W)  BY NoSetContainsEverything
<1>. DEFINE V == Seq(W) \cup {none}
            base == [o \in Nat |-> <<>>]
            step == [x \in T \X V |->
                       IF x[2] = none THEN none ELSE <<LabelText(octets, x[1])>> \o x[2]]
<1>1. \A o \in T : o \in Nat /\ o < size  BY <1>s
<1>2. next \in [T -> Nat] /\ \A o \in T : next[o] = o + 1 + At(octets, o) /\ next[o] > o
  <2>1. ASSUME NEW o \in T PROVE o + 1 + At(octets, o) \in Nat /\ o + 1 + At(octets, o) > o
    BY <1>1, OctetsAt
  <2>. QED  BY <2>1
<1>3. \A o \in T : LabelText(octets, o) \in W  OBVIOUS
<1>4. \A o \in Nat : o \in T <=> ~ (o >= size)  OBVIOUS
<1>. HIDE DEF W
<1>5. ASSUME NEW o \in T, NEW v \in Seq(W)
      PROVE  /\ <<LabelText(octets, o)>> \o v \in Seq(W)
             /\ step[<<o, v>>] = <<LabelText(octets, o)>> \o v
  <2>1. <<LabelText(octets, o)>> \in Seq(W)  BY <1>3
  <2>2. <<LabelText(octets, o)>> \o v \in Seq(W)  BY <2>1
  <2>3. v # none  BY <1>v
  <2>4. <<o, v>> \in T \X V /\ <<o, v>>[1] = o /\ <<o, v>>[2] = v
    <3>. HIDE DEF T
    <3>. QED  OBVIOUS
  <2>. HIDE DEF T, V
  <2>5. step[<<o, v>>] = <<LabelText(octets, o)>> \o v  BY <2>3, <2>4
  <2>. QED  BY <2>2, <2>5
<1>6. ASSUME NEW o \in T PROVE step[<<o, none>>] = none
  OBVIOUS
<1>7. step \in [T \X V -> V]
  <2>1. ASSUME NEW o \in T, NEW v \in V PROVE step[<<o, v>>] \in V
    <3>1. CASE v \in Seq(W)
      <4>. HIDE DEF step, T
      <4>. QED  BY <1>5, <3>1
    <3>2. CASE v = none
      <4>. HIDE DEF step, T
      <4>. QED  BY <1>6, <3>2
    <3>. QED  BY <3>1, <3>2
  <2>2. \A x \in T \X V : x = <<x[1], x[2]>> /\ x[1] \in T /\ x[2] \in V
    <3>. HIDE DEF T, V
    <3>. QED  OBVIOUS
  <2>3. \A x \in T \X V : step[x] \in V
    <3>. HIDE DEF T, V, step
    <3>. QED  BY <2>1, <2>2
  <2>4. \E F : step = [x \in T \X V |-> F[x]]
    <3>1. step = [x \in T \X V |-> step[x]]  OBVIOUS
    <3>. HIDE DEF step, T, V
    <3>. QED  BY <3>1
  <2>. HIDE DEF step, T, V
  <2>. QED  BY <2>3, <2>4
<1>8. base \in [Nat -> V] /\ none \in V /\ T \in SUBSET Nat  OBVIOUS
<1>9. \A o \in Nat : base[o] = <<>>  OBVIOUS
<1>w. \A v \in V : v = none \/ v \in Seq(W)  OBVIOUS
<1>. HIDE DEF T, V, next, base, step
<1>10. AreRules(Nat, T, V, none, next, base, step)
  BY <1>2, <1>6, <1>7, <1>8 DEF AreRules
<1>11. PICK f \in [Nat -> V] : Follows(f, Nat, T, next, base, step)
  BY <1>10, FollowsExists
<1>12. \A o \in Nat : f[o] = IF o \in T THEN step[<<o, f[next[o]]>>] ELSE base[o]
  BY <1>11 DEF Follows
<1>. DEFINE Some(j) == \A o \in Nat : o + j >= size => f[o] # none
            J == {j \in Nat : Some(j)}
<1>13. \A j \in Nat : j \in J
  <2>e. <<>> \in Seq(W)  OBVIOUS
  <2>1. 0 \in J
    <3>1. ASSUME NEW o \in Nat, o + 0 >= size PROVE f[o] # none
      <4>1. o \notin T  BY <1>4, <3>1
      <4>. QED  BY <1>9, <1>12, <1>v, <2>e, <4>1
    <3>. QED  BY <3>1
  <2>2. ASSUME NEW j \in Nat, j \in J PROVE j + 1 \in J
    <3>1. ASSUME NEW o \in Nat, o + (j + 1) >= size PROVE f[o] # none
      <4>1. CASE o \notin T  BY <1>9, <1>12, <1>v, <2>e, <4>1
      <4>2. CASE o \in T
        <5>1. PICK t \in Nat : t = next[o] /\ t > o  BY <1>2, <4>2
        <5>2. f[t] # none /\ f[t] \in V  BY <1>s, <2>2, <3>1, <5>1
        <5>3. step[<<o, f[t]>>] \in Seq(W)  BY <1>5, <1>w, <4>2, <5>2
        <5>. QED  BY <1>12, <1>v, <4>2, <5>1, <5>3
      <4>. QED  BY <4>1, <4>2
    <3>. QED  BY <3>1
  <2>. HIDE DEF J
  <2>. QED  BY <2>1, <2>2, SetInduction
<1>14. ASSUME NEW o \in Nat
       PROVE  f[o] = IF o >= size THEN <<>>
                     ELSE <<LabelText(octets, o)>> \o f[o + 1 + At(octets, o)]
  <2>1. CASE o >= size  BY <1>4, <1>9, <1>12, <2>1
  <2>2. CASE ~ (o >= size)
    <3>1. o \in T  BY <1>4, <2>2
    <3>2. PICK t \in Nat : t = next[o] /\ t = o + 1 + At(octets, o)  BY <1>2, <3>1
    <3>3. Some(size)  BY <1>13, <1>s
    <3>4. f[t] # none /\ f[t] \in V  BY <1>s, <3>2, <3>3
    <3>5. step[<<o, f[t]>>] = <<LabelText(octets, o)>> \o f[t]  BY <1>5, <1>w, <3>1, <3>4
    <3>. QED  BY <1>12, <2>2, <3>1, <3>2, <3>5
  <2>. QED  BY <2>1, <2>2
<1>15. f = [o \in Nat |-> f[o]]  BY <1>11
<1>. QED  BY <1>14, <1>15 DEF StringsFollow

\* The strings of a text are those that it was made of.
LEMMA StringsRead ==
  ASSUME NEW value \in AnyName, NEW octets, octets = Labels(value), NEW size, size = Len(octets),
         NEW f, StringsFollow(f, octets, size)
  PROVE  f[0] = value
<1>n. PICK n \in Nat : n = Len(value)  BY DEF AnyName
<1>o. octets \in Octets /\ size \in Nat  BY LabelsType, OctetsAt
<1>1. FirstLabels(value, n) = value  BY <1>n, SubSeqFull DEF FirstLabels, AnyName
<1>2. PlacedAt(octets, 0, value, n)
  <2>1. <<>> \in Octets  BY DEF Octets
  <2>a. <<>> \o octets = octets /\ Len(<<>>) = 0  BY <1>o, ConcatEmptySeq DEF Octets
  <2>2. PICK e \in Octets : e \o octets = octets /\ Len(e) = 0  BY <2>1, <2>a
  <2>3. BeginsAs(e \o Labels(FirstLabels(value, n)), octets)
    BY <1>1, <1>o, <2>2, BeginsItself
  <2>4. n \in 0..Len(value)  BY <1>n
  <2>5. PlacedAt(octets, Len(e), value, n)
    BY <1>o, <2>3, <2>4, LabelsPlaced
  <2>. QED  BY <2>2, <2>5
<1>3. Taken(value, n) = size  BY <1>1 DEF Taken
<1>4. \A k \in 0..n : Taken(value, k) \in Nat  BY <1>n, TakenType
<1>. DEFINE Has(k) == f[Taken(value, k)] = Suffix(value, k + 1)
            T == {j \in Nat : j <= n => Has(n - j)}
<1>5. 0 \in T
  <2>1. n - 0 = n  OBVIOUS
  <2>2. f[size] = <<>>  BY <1>o DEF StringsFollow
  <2>3. Suffix(value, n + 1) = <<>>
    <3>1. n + 1 \in 1..n + 1  OBVIOUS
    <3>2. Suffix(value, n + 1) \in AnyName /\ Len(Suffix(value, n + 1)) = n + 1 - (n + 1)
      BY <1>n, <3>1, SuffixType
    <3>. QED  BY <3>2 DEF AnyName
  <2>4. Has(n)  BY <1>3, <2>2, <2>3
  <2>. HIDE DEF Has
  <2>. QED  BY <2>1, <2>4
<1>6. ASSUME NEW j \in Nat, j \in T PROVE j + 1 \in T
  <2>. SUFFICES ASSUME j + 1 <= n PROVE Has(n - (j + 1))
    OBVIOUS
  <2>1. PICK k \in 0..n - 1 : k = n - (j + 1) /\ n - j = k + 1  OBVIOUS
  <2>2. Has(k + 1)
    <3>1. j <= n  OBVIOUS
    <3>2. Has(n - j)
      <4>. HIDE DEF Has
      <4>. QED  BY <1>6, <3>1
    <3>. HIDE DEF Has
    <3>. QED  BY <2>1, <3>2
  <2>3. k \in 0..n /\ k + 1 \in 0..n /\ k + 1 \in 1..n  BY <2>1
  <2>4. PICK o \in Nat, rest \in Nat, l \in Nat :
          /\ o = Taken(value, k) /\ rest = Taken(value, k + 1)
          /\ l = Len(value[k + 1])
    <3>1. value[k + 1] \in Octets  BY <1>n, <2>3 DEF AnyName
    <3>2. Len(value[k + 1]) \in Nat  BY <3>1, OctetsAt
    <3>. QED  BY <1>4, <2>3, <3>2
  <2>5. At(octets, o) = l /\ rest = o + 1 + l /\ rest <= size /\ LabelText(octets, o) = value[k + 1]
    BY <1>2, <1>n, <2>1, <2>4, SMTT(30) DEF PlacedAt
  <2>6. f[o] = <<LabelText(octets, o)>> \o f[o + 1 + At(octets, o)]
    <3>1. ~ (o >= size)  BY <1>o, <2>4, <2>5
    <3>. QED  BY <2>4, <3>1 DEF StringsFollow
  <2>7. f[o] = <<value[k + 1]>> \o f[rest]  BY <2>5, <2>6
  <2>8. Suffix(value, k + 1) = <<value[k + 1]>> \o Suffix(value, (k + 1) + 1)
    BY <1>n, <2>3, SuffixStep
  <2>. QED  BY <2>1, <2>2, <2>4, <2>7, <2>8
<1>7. \A j \in Nat : j \in T
  <2>. HIDE DEF T
  <2>. QED  BY <1>5, <1>6, SetInduction
<1>8. Has(0)
  <2>1. n - n = 0 /\ n <= n  OBVIOUS
  <2>2. n \in T  BY <1>7
  <2>. HIDE DEF Has
  <2>. QED  BY <2>1, <2>2
<1>9. Taken(value, 0) = 0  BY NoLabels DEF Taken
<1>10. Suffix(value, 1) = value  BY SubSeqFull DEF Suffix, AnyName
<1>. QED  BY <1>8, <1>9, <1>10

\* What a reader makes of data, type by type.
LongsAt(data, o) == [i \in 1..5 |-> U32At(data, o + 4 * (i - 1))]
ShortsAt(data, o, n) == [i \in 1..n |-> U16At(data, o + 2 * (i - 1))]
ReadSOA(data, offset) ==
  LET second == NameEnd(data, offset)
  IN [names |-> <<ReadName(data, offset), ReadName(data, second)>>,
      numbers |-> LongsAt(data, NameEnd(data, second))]
ReadNamed(data, offset, n) ==
  [numbers |-> ShortsAt(data, offset, n), names |-> <<ReadName(data, offset + 2 * n)>>]
ReadStrings(octets, size) == (CHOOSE f : StringsFollow(f, octets, size))[0]
ReadCAA(octets, size) ==
  [flag |-> octets[1], tag |-> SubSeq(octets, 3, 2 + octets[2]),
   value |-> SubSeq(octets, 3 + octets[2], size)]

LEMMA ReadDataForm ==
  ASSUME NEW data, NEW offset, NEW type, NEW size
  PROVE  /\ type = TypeSOA => ReadData(data, offset, type, size) = ReadSOA(data, offset)
         /\ type \in NamedTypes \ {TypeSOA} =>
              ReadData(data, offset, type, size) = ReadNamed(data, offset, NumbersOf[type])
         /\ type = TypeTXT =>
              ReadData(data, offset, type, size) = ReadStrings(DataOctets(data, offset, size), size)
         /\ type = TypeCAA =>
              ReadData(data, offset, type, size) = ReadCAA(DataOctets(data, offset, size), size)
         /\ type \notin NamedTypes \cup {TypeTXT, TypeCAA} =>
              ReadData(data, offset, type, size) = DataOctets(data, offset, size)
<1>1. /\ NamedTypes = NameTypes \cup {TypeMX, TypeSRV, TypeSOA}
      /\ TypeTXT \notin NamedTypes /\ TypeCAA \notin NamedTypes /\ TypeTXT # TypeCAA
      /\ TypeSOA \in NamedTypes
  BY DEF NamedTypes, NumbersOf, NameTypes, TypeMX, TypeSRV, TypeSOA, TypeNS, TypeCNAME, TypePTR,
         TypeTXT, TypeCAA
<1>2. CASE type = TypeSOA  BY <1>1, <1>2 DEF ReadData, ReadSOA, LongsAt
<1>3. CASE type \in NamedTypes \ {TypeSOA}  BY <1>1, <1>3 DEF ReadData, ReadNamed, ShortsAt
<1>4. CASE type = TypeTXT  
  BY <1>1, <1>4 DEF ReadData, ReadStrings, StringsFollow, LabelText, DataOctets
<1>5. CASE type = TypeCAA  BY <1>1, <1>5 DEF ReadData, ReadCAA, DataOctets
<1>6. CASE type \notin NamedTypes \cup {TypeTXT, TypeCAA}  BY <1>1, <1>6 DEF ReadData, DataOctets
<1>. QED  BY <1>1, <1>2, <1>3, <1>4, <1>5, <1>6

\* The text of a name is read where it is, and so is what comes after it.
LEMMA NameTextRead ==
  ASSUME NEW name \in DnsNames, NEW data \in Octets, NEW o \in Nat, PartAt(NameText(name), data, o)
  PROVE  /\ NameText(name) \in Octets
         /\ ReadName(data, o) = name /\ NameEnd(data, o) = o + Len(NameText(name))
<1>1. IsName(name) /\ name \in AnyName  BY DEF DnsNames
<1>2. PICK text \in Octets : text = Labels(name)  BY <1>1, LabelsType
<1>3. <<0>> \in Octets /\ Len(<<0>>) = 1  BY DEF Octets
<1>4. NameText(name) \in Octets /\ Len(NameText(name)) = Len(text) + 1 /\ Len(text) \in Nat
  <2>1. text \o <<0>> \in Octets /\ Len(text \o <<0>>) = Len(text) + Len(<<0>>)
    BY <1>3, TwoParts
  <2>. QED  BY <1>2, <1>3, <2>1, OctetsAt DEF NameText
<1>5. NameIsAt(data, o, name) /\ Taken(name, Len(name)) = Len(text)
  BY <1>1, <1>2, NamePart
<1>6. NameAt(data, o) = NameFound(o, name)  BY <1>1, <1>5, PlacedNameRead
<1>7. ReadName(data, o) = name /\ NameEnd(data, o) = o + Taken(name, Len(name)) + 1
  BY <1>6 DEF ReadName, NameEnd, NameFound
<1>. QED  BY <1>4, <1>5, <1>7

\* Such data are octets.
LEMMA PlainType ==
  ASSUME NEW type, NEW value, IsValue(type, value)
  PROVE  PlainOctets(type, value) \in Octets
<1>n. ASSUME NEW name \in DnsNames PROVE NameText(name) \in Octets
  <2>1. name \in AnyName  BY DEF DnsNames
  <2>2. Labels(name) \in Octets /\ <<0>> \in Octets  BY <2>1, LabelsType DEF Octets
  <2>. QED  BY <2>2, TwoParts DEF NameText
<1>1. CASE type = TypeSOA
  <2>0. type \in NamedTypes  BY <1>1, PutDataForm
  <2>1. NameText(value.names[1]) \in Octets /\ NameText(value.names[2]) \in Octets
        /\ Text32(value) \in Octets
    BY <1>1, <1>n, <2>0, NamedValue
  <2>2. NameText(value.names[1]) \o NameText(value.names[2]) \in Octets  BY <2>1, TwoParts
  <2>. QED  BY <1>1, <2>1, <2>2, TwoParts DEF PlainOctets
<1>2. CASE type \in NamedTypes /\ type # TypeSOA
  <2>1. NameText(value.names[1]) \in Octets /\ Text16(value) \in Octets
    BY <1>2, <1>n, NamedValue
  <2>. QED  BY <1>2, <2>1, TwoParts DEF PlainOctets
<1>3. CASE type \notin NamedTypes
  <2>1. type # TypeSOA  BY <1>3, PutDataForm
  <2>. QED  BY <1>3, <2>1, TextsType DEF PlainOctets
<1>. QED  BY <1>1, <1>2, <1>3

\* From them, the reader gets the value that was written.
LEMMA DataRead ==
  ASSUME NEW type, NEW value, IsValue(type, value), NEW data \in Octets, NEW o \in Nat,
         PartAt(PlainOctets(type, value), data, o),
         NEW size, size = Len(PlainOctets(type, value))
  PROVE  ReadData(data, o, type, size) = value
<1>t. NumbersOf[TypeSOA] = 5 /\ TypeSOA \in NamedTypes /\ TypeTXT \notin NamedTypes
      /\ TypeCAA \notin NamedTypes /\ TypeTXT # TypeCAA
      /\ \A t \in NamedTypes : NumbersOf[t] \in Nat
  BY DEF NumbersOf, NamedTypes, NameTypes, TypeSOA, TypeTXT, TypeCAA, TypeMX, TypeSRV,
         TypeNS, TypeCNAME, TypePTR
<1>1. CASE type = TypeSOA
  <2>0. type \in NamedTypes  BY <1>1, <1>t
  <2>1. PICK first \in DnsNames, second \in DnsNames, numbers \in Seq(Nat) :
          /\ first = value.names[1] /\ second = value.names[2] /\ numbers = value.numbers
          /\ value = [numbers |-> numbers, names |-> <<first, second>>]
          /\ Len(numbers) = 5
    <3>1. value = [numbers |-> value.numbers, names |-> value.names]
          /\ value.numbers \in Seq(Nat) /\ Len(value.numbers) = 5
          /\ value.names[1] \in DnsNames /\ value.names[2] \in DnsNames
          /\ value.names = <<value.names[1], value.names[2]>>
      BY <1>1, <1>t, <2>0, NamedValue
    <3>. QED  BY <3>1
  <2>2. PICK a \in Octets, b \in Octets, c \in Octets :
          a = NameText(first) /\ b = NameText(second) /\ c = Text32(value)
    <3>1. ASSUME NEW name \in DnsNames PROVE NameText(name) \in Octets
      <4>1. name \in AnyName  BY DEF DnsNames
      <4>2. Labels(name) \in Octets /\ <<0>> \in Octets  BY <4>1, LabelsType DEF Octets
      <4>. QED  BY <4>2, TwoParts DEF NameText
    <3>. QED  BY <2>0, <3>1, NamedValue
  <2>3. PlainOctets(type, value) = (a \o b) \o c  BY <1>1, <2>1, <2>2 DEF PlainOctets
  <2>4. a \o b \in Octets /\ Len(a \o b) = Len(a) + Len(b) /\ Len(a) \in Nat /\ Len(b) \in Nat
    BY TwoParts, OctetsAt
  <2>5. PartAt(a \o b, data, o) /\ PartAt(c, data, o + Len(a \o b))
    BY <2>3, <2>4, PartParts
  <2>6. PartAt(a, data, o) /\ PartAt(b, data, o + Len(a))  BY <2>5, PartParts
  <2>7. PICK oa \in Nat, ob \in Nat : oa = o + Len(a) /\ ob = o + Len(a \o b) /\ ob = oa + Len(b)
    BY <2>4
  <2>8. ReadName(data, o) = first /\ NameEnd(data, o) = oa
    BY <2>2, <2>6, <2>7, NameTextRead
  <2>9. ReadName(data, oa) = second /\ NameEnd(data, oa) = ob
    BY <2>2, <2>6, <2>7, NameTextRead
  <2>10. \A i \in 1..5 : U32At(data, ob + 4 * (i - 1)) = numbers[i]
    <3>1. PartAt(Text32(value), data, ob)  BY <2>2, <2>5, <2>7
    <3>2. value.numbers \in Seq(Nat) /\ Len(value.numbers) = 5  BY <2>1
    <3>3. \A i \in 1..Len(value.numbers) : U32At(data, ob + 4 * (i - 1)) = value.numbers[i]
      BY <3>1, <3>2, NumbersPlaced
    <3>. QED  BY <2>1, <3>2, <3>3
  <2>11. LongsAt(data, ob) = numbers
    <3>1. numbers = [i \in 1..5 |-> numbers[i]]
      <4>1. PICK k \in Nat : k = 5  OBVIOUS
      <4>2. numbers \in Seq(Nat) /\ Len(numbers) = k  BY <2>1, <4>1
      <4>3. numbers = [i \in 1..k |-> numbers[i]]  BY <4>2
      <4>. QED  BY <4>1, <4>3
    <3>. QED  BY <2>10, <3>1 DEF LongsAt
  <2>12. ReadData(data, o, type, size) = ReadSOA(data, o)  BY <1>1, ReadDataForm
  <2>13. ReadSOA(data, o) = [names |-> <<first, second>>, numbers |-> numbers]
    BY <2>8, <2>9, <2>11 DEF ReadSOA
  <2>. QED  BY <2>1, <2>12, <2>13
<1>2. CASE type \in NamedTypes \ {TypeSOA}
  <2>1. PICK name \in DnsNames, numbers \in Seq(Nat), n \in Nat :
          /\ name = value.names[1] /\ numbers = value.numbers
          /\ value = [numbers |-> numbers, names |-> <<name>>]
          /\ Len(numbers) = n /\ n = NumbersOf[type]
    <3>1. /\ value = [numbers |-> value.numbers, names |-> value.names]
          /\ value.numbers \in Seq(Nat) /\ Len(value.numbers) = NumbersOf[type]
          /\ value.names[1] \in DnsNames /\ value.names = <<value.names[1]>>
      BY <1>2, NamedValue
    <3>2. NumbersOf[type] \in Nat  BY <1>2, <1>t
    <3>. QED  BY <3>1, <3>2
  <2>2. PICK a \in Octets, b \in Octets : a = Text16(value) /\ b = NameText(name)
    <3>1. name \in AnyName  BY DEF DnsNames
    <3>2. Labels(name) \in Octets /\ <<0>> \in Octets  BY <3>1, LabelsType DEF Octets
    <3>3. NameText(name) \in Octets  BY <3>2, TwoParts DEF NameText
    <3>. QED  BY <1>2, <3>3, NamedValue
  <2>3. PlainOctets(type, value) = a \o b  BY <1>2, <2>1, <2>2 DEF PlainOctets
  <2>4. PartAt(a, data, o) /\ PartAt(b, data, o + Len(a)) /\ Len(a) \in Nat
    BY <2>3, PartParts, OctetsAt
  <2>5. Len(a) = 2 * n /\ \A i \in 1..n : U16At(data, o + 2 * (i - 1)) = numbers[i]
    <3>1. PartAt(Text16(value), data, o)  BY <2>2, <2>4
    <3>2. value.numbers \in Seq(Nat) /\ Len(value.numbers) = n  BY <2>1
    <3>3. /\ Len(Text16(value)) = 2 * Len(value.numbers)
          /\ \A i \in 1..Len(value.numbers) : U16At(data, o + 2 * (i - 1)) = value.numbers[i]
      BY <3>1, <3>2, NumbersPlaced
    <3>. QED  BY <2>1, <2>2, <3>2, <3>3
  <2>6. ShortsAt(data, o, n) = numbers
    <3>1. numbers = [i \in 1..n |-> numbers[i]]  BY <2>1
    <3>. QED  BY <2>5, <3>1 DEF ShortsAt
  <2>7. PICK oa \in Nat : oa = o + Len(a) /\ oa = o + 2 * n  BY <2>4, <2>5
  <2>8. ReadName(data, oa) = name  BY <2>2, <2>4, <2>7, NameTextRead
  <2>9. ReadData(data, o, type, size) = ReadNamed(data, o, n)  BY <1>2, <2>1, ReadDataForm
  <2>10. ReadNamed(data, o, n) = [numbers |-> numbers, names |-> <<name>>]
    BY <2>6, <2>7, <2>8 DEF ReadNamed
  <2>. QED  BY <2>1, <2>9, <2>10
<1>3. CASE type \notin NamedTypes
  <2>1. PICK octets \in Octets : octets = PlainOctets(type, value)  BY PlainType
  <2>2. octets = OtherText(type, value)  BY <1>3, <1>t, <2>1 DEF PlainOctets
  <2>3. DataOctets(data, o, size) = octets  BY <2>1, PartTaken DEF DataOctets
  <2>4. CASE type = TypeTXT
    <3>1. value \in AnyName  BY <2>4 DEF IsValue
    <3>2. octets = Labels(value)  BY <2>2, <2>4 DEF OtherText
    <3>3. size = Len(octets)  BY <2>1
    <3>4. \E f : StringsFollow(f, octets, size)  BY <3>3, StringsExist
    <3>5. PICK f : f = CHOOSE g : StringsFollow(g, octets, size)  OBVIOUS
    <3>6. StringsFollow(f, octets, size)  BY <3>4, <3>5
    <3>7. f[0] = value  BY <3>1, <3>2, <3>3, <3>6, StringsRead
    <3>8. ReadData(data, o, type, size) = ReadStrings(DataOctets(data, o, size), size)
      BY <2>4, ReadDataForm
    <3>. QED  BY <2>3, <3>5, <3>7, <3>8 DEF ReadStrings
  <2>5. CASE type = TypeCAA
    <3>1. value \in CAAData  BY <1>t, <2>5 DEF IsValue
    <3>2. PICK flag \in Nat, tag \in Octets, text \in Octets :
            value = [flag |-> flag, tag |-> tag, value |-> text]
      BY <3>1 DEF CAAData
    <3>3. PICK l \in Nat, m \in Nat : l = Len(tag) /\ m = Len(text)  BY OctetsAt
    <3>4. octets = (<<flag, l>> \o tag) \o text
      BY <1>t, <2>2, <2>5, <3>2, <3>3 DEF OtherText
    <3>5. PICK a \in Octets : a = <<flag, l>> /\ Len(a) = 2 /\ a[1] = flag /\ a[2] = l
      <4>1. <<flag, l>> \in Octets  BY DEF Octets
      <4>. QED  BY <4>1
    <3>6. PICK b \in Octets : b = a \o tag /\ Len(b) = 2 + l /\ octets = b \o text
      BY <3>3, <3>4, <3>5, TwoParts
    <3>7. PartAt(b, octets, 0) /\ PartAt(text, octets, 0 + Len(b))
      <4>1. PartAt(octets, octets, 0)  BY OctetsAt DEF PartAt
      <4>. QED  BY <3>6, <4>1, PartParts
    <3>8. PartAt(a, octets, 0) /\ PartAt(tag, octets, 0 + Len(a))
      BY <3>5, <3>6, <3>7, PartParts
    <3>9. octets[1] = flag /\ octets[2] = l
      BY <3>5, <3>8 DEF PartAt
    <3>10. SubSeq(octets, 3, 2 + l) = tag
      <4>1. PartAt(tag, octets, 2)  BY <3>5, <3>8
      <4>2. SubSeq(octets, 2 + 1, 2 + Len(tag)) = tag  BY <4>1, PartTaken
      <4>. QED  BY <3>3, <4>2
    <3>11. size = (2 + l) + m
      <4>1. Len(b \o text) = Len(b) + Len(text)  BY <3>6, TwoParts
      <4>. QED  BY <2>1, <3>3, <3>6, <4>1
    <3>12. SubSeq(octets, 3 + l, size) = text
      <4>1. PICK k \in Nat : k = 2 + l  BY <3>3
      <4>2. PartAt(text, octets, k)  BY <3>6, <3>7, <4>1
      <4>3. SubSeq(octets, k + 1, k + Len(text)) = text  BY <4>2, PartTaken
      <4>4. 3 + l = k + 1 /\ size = k + Len(text)  BY <3>3, <3>11, <4>1
      <4>. QED  BY <4>3, <4>4
    <3>13. ReadData(data, o, type, size) = ReadCAA(DataOctets(data, o, size), size)
      BY <2>5, ReadDataForm
    <3>14. ReadCAA(octets, size) = [flag |-> flag, tag |-> tag, value |-> text]
      BY <3>9, <3>10, <3>12 DEF ReadCAA
    <3>. QED  BY <2>3, <3>2, <3>13, <3>14
  <2>6. CASE type \notin {TypeTXT, TypeCAA}
    <3>1. octets = value  BY <2>2, <2>6 DEF OtherText
    <3>2. ReadData(data, o, type, size) = DataOctets(data, o, size)
      BY <1>3, <2>6, ReadDataForm
    <3>. QED  BY <2>3, <3>1, <3>2
  <2>. QED  BY <2>4, <2>5, <2>6
<1>. QED  BY <1>1, <1>2, <1>3

-----------------------------------------------------------------------------
(* The answers of a response, as the client reads them.                    *)

\* An answer is read at an offset: its owner, its fields and its data.
AnswerAt(data, o, name, rr, next) ==
  \E fixed \in Nat :
    /\ NameAt(data, o) = [ok |-> TRUE, name |-> name, next |-> fixed]
    /\ U16At(data, fixed) = rr.type /\ U16At(data, fixed + 2) = rr.class
    /\ U32At(data, fixed + 4) = rr.ttl /\ U16At(data, fixed + 8) = Len(rr.data)
    /\ PartAt(rr.data, data, fixed + 10)
    /\ next = fixed + 10 + Len(rr.data)

\* The owner that is read: that of the question, if the answer points at it.
OwnerRead(rr, answers, qname) == IF rr.name = Head(answers).name THEN qname ELSE rr.name

\* The owner of an answer is read where it was put.
LEMMA OwnerPlaced ==
  ASSUME NEW rr, IsName(rr.name), NEW answers, NEW data \in Octets, NEW o \in Nat,
         o > HeaderSize, PartAt(Owner(rr, answers), data, o),
         NEW qname \in AnyName, NEW end \in Nat,
         NameAt(data, HeaderSize) = [ok |-> TRUE, name |-> qname, next |-> end]
  PROVE  /\ Owner(rr, answers) \in Octets
         /\ NameAt(data, o) = [ok |-> TRUE, name |-> OwnerRead(rr, answers, qname),
                               next |-> o + Len(Owner(rr, answers))]
<1>1. CASE rr.name = Head(answers).name
  <2>1. PICK v \in Nat : v = 49152 + HeaderSize /\ v = 49164  BY DEF HeaderSize
  <2>2. Owner(rr, answers) = U16(v)  BY <1>1, <2>1 DEF Owner, Pointer
  <2>3. U16(v) \in Octets /\ Len(U16(v)) = 2  BY NumbersType
  <2>4. U16At(data, o) = v /\ o + 2 <= Len(data)  BY <2>2, NumberRead
  <2>5. At(data, o) = 192
    <3>1. U16(v)[1] = 192  BY <2>1 DEF U16
    <3>. QED  BY <2>2, <2>3, <3>1 DEF PartAt, At
  <2>6. o \in 0..Len(data) /\ o # Len(data) /\ o + 1 # Len(data) /\ Len(data) \in Nat
    BY <2>4, OctetsAt
  <2>7. U16At(data, o) - 49152 = HeaderSize /\ HeaderSize \in 0..o - 1
    BY <2>1, <2>4 DEF HeaderSize
  <2>8. NameAt(data, o) = AtPointer(NameAt(data, HeaderSize), o)
    <3>1. ~ (At(data, o) <= MaxLabel) /\ At(data, o) # 0  BY <2>5 DEF MaxLabel
    <3>2. PICK h : h = U16At(data, o) - 49152  OBVIOUS
    <3>3. h = HeaderSize /\ h \in 0..o - 1  BY <2>7, <3>2
    <3>4. NameAt(data, o) = AtPointer(NameAt(data, h), o)
      BY <2>6, <3>1, <3>2, <3>3, NameAtStep
    <3>. QED  BY <3>3, <3>4
  <2>9. AtPointer(NameAt(data, HeaderSize), o) = [ok |-> TRUE, name |-> qname, next |-> o + 2]
    <3>1. PICK found \in [ok : {TRUE}, name : AnyName, next : Nat] :
            found = [ok |-> TRUE, name |-> qname, next |-> end]
      OBVIOUS
    <3>2. PICK next \in Nat : next = o + 2  OBVIOUS
    <3>3. [found EXCEPT !.next = next] = [ok |-> found.ok, name |-> found.name, next |-> next]
      BY ReplaceField
    <3>. QED  BY <3>1, <3>2, <3>3 DEF AtPointer
  <2>. QED  BY <1>1, <2>2, <2>3, <2>8, <2>9 DEF OwnerRead
<1>2. CASE rr.name # Head(answers).name
  <2>1. rr.name \in DnsNames /\ LabelsFit(rr.name)  BY NameFits DEF DnsNames, IsName
  <2>2. Owner(rr, answers) = NameText(rr.name)
    BY <1>2, <2>1 DEF Owner, EncodeDomainName, NameText
  <2>3. rr.name \in AnyName  BY DEF IsName
  <2>4. NameText(rr.name) \in Octets  BY <2>1, <2>2, NameTextRead
  <2>5. NameIsAt(data, o, rr.name) /\ Taken(rr.name, Len(rr.name)) = Len(Labels(rr.name))
    BY <2>2, <2>3, NamePart
  <2>6. Len(NameText(rr.name)) = Len(Labels(rr.name)) + 1 /\ Len(Labels(rr.name)) \in Nat
    <3>1. Labels(rr.name) \in Octets /\ <<0>> \in Octets /\ Len(<<0>>) = 1
      BY <2>3, LabelsType DEF Octets
    <3>. QED  BY <3>1, TwoParts, OctetsAt DEF NameText
  <2>7. NameAt(data, o) = NameFound(o, rr.name)  BY <2>5, PlacedNameRead
  <2>8. PICK l \in Nat : l = Len(Labels(rr.name)) /\ o + l + 1 = o + (l + 1)  BY <2>6
  <2>9. NameFound(o, rr.name) = [ok |-> TRUE, name |-> rr.name, next |-> o + (l + 1)]
    BY <2>5, <2>8 DEF NameFound
  <2>. QED  BY <1>2, <2>2, <2>4, <2>6, <2>7, <2>8, <2>9 DEF OwnerRead
<1>. QED  BY <1>1, <1>2

\* Octets in four parts, and in five.
Four(a, b, c, d) == a \o b \o c \o d
Five(o, a, b, c, d) == o \o a \o b \o c \o d
IsOneAndFour(o, a, b, c, d) == Five(o, a, b, c, d) = o \o Four(a, b, c, d)
AreAnyOrder(a, b, c) == (a \o b) \o c = a \o (b \o c)

LEMMA FiveParts ==
  ASSUME NEW o \in Octets, NEW a \in Octets, NEW b \in Octets, NEW c \in Octets, NEW d \in Octets
  PROVE  IsOneAndFour(o, a, b, c, d)
<1>1. PICK x \in Octets : x = a \o b  BY TwoParts
<1>2. PICK y \in Octets : y = x \o c  BY TwoParts
<1>3. \A p \in Octets, q \in Octets, r \in Octets : AreAnyOrder(p, q, r)
  BY ConcatAgain DEF AreAnyOrder
<1>4. AreAnyOrder(o, a, b) /\ AreAnyOrder(o, x, c) /\ AreAnyOrder(o, y, d)  BY <1>3
<1>. QED  BY <1>1, <1>2, <1>4 DEF AreAnyOrder, Four, Five, IsOneAndFour

\* An answer with data of its type is read where it was put.
LEMMA AnswerPlaced ==
  ASSUME NEW rr \in AnswerRecords, IsName(rr.name), NEW value, IsValue(rr.type, value),
         rr.data = PlainOctets(rr.type, value), NEW answers,
         NEW data \in Octets, NEW o \in Nat, o > HeaderSize,
         PartAt(EncodeAnswer(rr, answers), data, o), NEW qname \in AnyName, NEW end \in Nat,
         NameAt(data, HeaderSize) = [ok |-> TRUE, name |-> qname, next |-> end]
  PROVE  AnswerAt(data, o, OwnerRead(rr, answers, qname), rr,
                  o + Len(EncodeAnswer(rr, answers)))
<1>1. PICK size \in Nat : size = Len(rr.data) /\ rr.data \in Octets
  BY OctetsAt DEF AnswerRecords
<1>2. PICK record : record = [name |-> rr.name, type |-> rr.type, class |-> rr.class,
                              ttl |-> rr.ttl, data |-> value]
  OBVIOUS
<1>3. IsRecord(record)  BY <1>2 DEF IsRecord, AnswerRecords
<1>4. PICK fields \in Octets : fields = FixedPart(record, size) /\ Len(fields) = 10
  BY <1>3, FixedType
<1>5. Owner(rr, answers) \in Octets
  <2>1. IsName(rr.name) /\ Labels(rr.name) \in Octets /\ <<0>> \in Octets
    BY LabelsType DEF Octets, IsName
  <2>2. Labels(rr.name) \o <<0>> \in Octets  BY <2>1, TwoParts
  <2>3. EncodeDomainName(rr.name) \in Octets  BY <2>2, NameFits DEF EncodeDomainName
  <2>4. Pointer(HeaderSize) \in Octets
    <3>1. 49152 + HeaderSize \in Nat  BY DEF HeaderSize
    <3>. QED  BY <3>1, NumbersType DEF Pointer
  <2>. QED  BY <2>3, <2>4 DEF Owner
<1>6. PICK owner \in Octets : owner = Owner(rr, answers)  BY <1>5
<1>7. EncodeAnswer(rr, answers) = (owner \o fields) \o rr.data
  <2>1. PICK a \in Octets, b \in Octets, c \in Octets, d \in Octets :
          a = U16(rr.type) /\ b = U16(rr.class) /\ c = U32(rr.ttl) /\ d = U16(size)
    BY <1>1, NumbersType DEF AnswerRecords
  <2>2. fields = a \o b \o c \o d  BY <1>2, <1>4, <2>1 DEF FixedPart
  <2>3. EncodeAnswer(rr, answers) = owner \o a \o b \o c \o d \o rr.data
    BY <1>1, <1>6, <2>1 DEF EncodeAnswer
  <2>4. IsOneAndFour(owner, a, b, c, d)  BY FiveParts
  <2>. QED  BY <2>2, <2>3, <2>4 DEF Four, Five, IsOneAndFour
<1>8. owner \o fields \in Octets /\ Len(owner \o fields) = Len(owner) + 10 /\ Len(owner) \in Nat
  BY <1>4, TwoParts, OctetsAt
<1>9. PartAt(owner \o fields, data, o) /\ PartAt(rr.data, data, o + Len(owner \o fields))
  BY <1>1, <1>7, <1>8, PartParts
<1>10. PartAt(owner, data, o) /\ PartAt(fields, data, o + Len(owner))
  BY <1>9, PartParts
<1>11. PICK fixed \in Nat : fixed = o + Len(owner) /\ fixed + 10 = o + Len(owner \o fields)
  BY <1>8
<1>12. NameAt(data, o) = [ok |-> TRUE, name |-> OwnerRead(rr, answers, qname), next |-> fixed]
  <2>1. PartAt(Owner(rr, answers), data, o)  BY <1>6, <1>10
  <2>2. NameAt(data, o) = [ok |-> TRUE, name |-> OwnerRead(rr, answers, qname),
                           next |-> o + Len(Owner(rr, answers))]
    BY <2>1, OwnerPlaced
  <2>. QED  BY <1>6, <1>11, <2>2
<1>13. /\ U16At(data, fixed) = rr.type /\ U16At(data, fixed + 2) = rr.class
       /\ U32At(data, fixed + 4) = rr.ttl /\ U16At(data, fixed + 8) = size
  <2>1. PartAt(FixedPart(record, size), data, fixed)  BY <1>4, <1>10, <1>11
  <2>. QED  BY <1>2, <1>3, <2>1, FixedRead
<1>14. o + Len(EncodeAnswer(rr, answers)) = fixed + 10 + size
  <2>1. Len((owner \o fields) \o rr.data) = Len(owner \o fields) + size
    BY <1>1, <1>8, TwoParts
  <2>. QED  BY <1>1, <1>7, <1>8, <1>11, <2>1
<1>15. PartAt(rr.data, data, fixed + 10)  BY <1>9, <1>11
<1>. QED  BY <1>1, <1>12, <1>13, <1>14, <1>15 DEF AnswerAt

\* What a reader makes of a record at an offset, and where the records begin.
RecordRead(data, o) ==
  LET fixed == NameEnd(data, o)
      type == U16At(data, fixed)
  IN [name |-> Canonical(ReadName(data, o)), type |-> type,
      class |-> U16At(data, fixed + 2), ttl |-> U32At(data, fixed + 4),
      data |-> Meaning(type, ReadData(data, fixed + 10, type, U16At(data, fixed + 8)))]
NextRecord(data, o) == NameEnd(data, o) + 10 + U16At(data, NameEnd(data, o) + 8)
RecordsBegin(f, data, offset, n) ==
  f = [i \in 1..n + 1 |-> IF i = 1 THEN offset ELSE NextRecord(data, f[i - 1])]

\* The records that are read are those at the bounds.
AreBounds(data, bounds, n) == \A i \in 1..n : bounds[i] = NextRecord(data, bounds[i - 1])
ReadsRecordsAt(data, bounds, n) ==
  ReadRecords(data, bounds[0], n) = [i \in 1..n |-> RecordRead(data, bounds[i - 1])]

LEMMA ReadRecordsForm ==
  ASSUME NEW data, NEW n \in Nat, NEW bounds, AreBounds(data, bounds, n)
  PROVE  ReadsRecordsAt(data, bounds, n)
<1>b. \A i \in 1..n : bounds[i] = NextRecord(data, bounds[i - 1])  BY DEF AreBounds
<1>1. PICK f : f = CHOOSE g : RecordsBegin(g, data, bounds[0], n)  OBVIOUS
<1>2. ReadRecords(data, bounds[0], n) = [i \in 1..n |-> RecordRead(data, f[i])]
  BY <1>1 DEF ReadRecords, RecordRead, RecordsBegin, NextRecord
<1>3. RecordsBegin(f, data, bounds[0], n)
  <2>1. PICK g : g = [i \in 1..n + 1 |-> bounds[i - 1]]  OBVIOUS
  <2>2. ASSUME NEW i \in 1..n + 1
        PROVE  g[i] = IF i = 1 THEN bounds[0] ELSE NextRecord(data, g[i - 1])
    <3>1. CASE i = 1  BY <2>1, <3>1
    <3>2. CASE i # 1
      <4>1. PICK k \in 1..n : k = i - 1 /\ k \in 1..n + 1 /\ k # i  BY <3>2
      <4>2. g[i] = bounds[k] /\ g[k] = bounds[k - 1]  BY <2>1, <4>1
      <4>. QED  BY <1>b, <3>2, <4>1, <4>2
    <3>. QED  BY <3>1, <3>2
  <2>3. g = [i \in 1..n + 1 |-> g[i]]  BY <2>1
  <2>4. RecordsBegin(g, data, bounds[0], n)  BY <2>2, <2>3 DEF RecordsBegin
  <2>. QED  BY <1>1, <2>4
<1>. DEFINE T == {i \in Nat : i <= n => f[i + 1] = bounds[i]}
<1>4. 0 \in T
  <2>1. 1 \in 1..n + 1 /\ 0 + 1 = 1  OBVIOUS
  <2>2. f[1] = bounds[0]  BY <1>3, <2>1 DEF RecordsBegin
  <2>. QED  BY <2>1, <2>2
<1>5. ASSUME NEW i \in Nat, i \in T PROVE i + 1 \in T
  <2>. SUFFICES ASSUME i + 1 <= n PROVE f[(i + 1) + 1] = bounds[i + 1]
    OBVIOUS
  <2>1. PICK k \in 1..n, m \in 1..n + 1 :
          k = i + 1 /\ k - 1 = i /\ m = (i + 1) + 1 /\ m - 1 = k /\ m # 1
    OBVIOUS
  <2>2. f[m] = NextRecord(data, f[k])  BY <1>3, <2>1 DEF RecordsBegin
  <2>3. f[k] = bounds[i]  BY <1>5, <2>1
  <2>. QED  BY <1>b, <2>1, <2>2, <2>3
<1>6. \A i \in Nat : i \in T
  <2>. HIDE DEF T
  <2>. QED  BY <1>4, <1>5, SetInduction
<1>7. ASSUME NEW i \in 1..n PROVE f[i] = bounds[i - 1]
  <2>1. PICK j \in Nat : j = i - 1 /\ j + 1 = i /\ j <= n  OBVIOUS
  <2>. QED  BY <1>6, <2>1
<1>. QED  BY <1>2, <1>7 DEF ReadsRecordsAt

\* The answers carry these values, each in octets without pointers.
Carry(answers, values) ==
  \A i \in 1..Len(answers) :
    /\ IsName(answers[i].name) /\ IsValue(answers[i].type, values[i])
    /\ answers[i].data = PlainOctets(answers[i].type, values[i])

\* What a client makes of an answer that carries a value.
AnswerRead(rr, answers, qname, value) ==
  [name |-> Canonical(OwnerRead(rr, answers, qname)), type |-> rr.type, class |-> rr.class,
   ttl |-> rr.ttl, data |-> Meaning(rr.type, value)]

\* An answer that is at an offset is made that of it.
LEMMA PlacedAnswerRead ==
  ASSUME NEW rr \in AnswerRecords, NEW value, IsValue(rr.type, value),
         rr.data = PlainOctets(rr.type, value), NEW answers, NEW qname,
         NEW data \in Octets, NEW o \in Nat, NEW next \in Nat,
         AnswerAt(data, o, OwnerRead(rr, answers, qname), rr, next)
  PROVE  /\ RecordRead(data, o) = AnswerRead(rr, answers, qname, value)
         /\ next = NextRecord(data, o)
<1>1. PICK fixed \in Nat :
        /\ NameAt(data, o) = [ok |-> TRUE, name |-> OwnerRead(rr, answers, qname), next |-> fixed]
        /\ U16At(data, fixed) = rr.type /\ U16At(data, fixed + 2) = rr.class
        /\ U32At(data, fixed + 4) = rr.ttl /\ U16At(data, fixed + 8) = Len(rr.data)
        /\ PartAt(rr.data, data, fixed + 10)
        /\ next = fixed + 10 + Len(rr.data)
  BY DEF AnswerAt
<1>2. NameEnd(data, o) = fixed /\ ReadName(data, o) = OwnerRead(rr, answers, qname)
  BY <1>1 DEF NameEnd, ReadName
<1>3. next = NextRecord(data, o)  BY <1>1, <1>2 DEF NextRecord
<1>4. ReadData(data, fixed + 10, rr.type, Len(rr.data)) = value
  <2>1. PICK p \in Nat : p = fixed + 10  OBVIOUS
  <2>2. PICK type : type = rr.type  OBVIOUS
  <2>3. PartAt(PlainOctets(type, value), data, p)  BY <1>1, <2>1, <2>2
  <2>4. PICK size : size = Len(PlainOctets(type, value))  OBVIOUS
  <2>5. ReadData(data, p, type, size) = value  BY <2>2, <2>3, <2>4, DataRead
  <2>. QED  BY <2>1, <2>2, <2>4, <2>5
<1>. QED  BY <1>1, <1>2, <1>3, <1>4 DEF RecordRead, AnswerRead

\* From the octets of a response the client gets every answer: the owner, its letter
\* case apart, but for the answers with the owner of the first one, which get the name
\* of the question; the type, the class, the TTL, and what the data means. Encoder and
\* reader agree on where each record begins, however many there are and of whatever
\* types.
THEOREM AnswersRead ==
  ASSUME NEW resp, IsQuestion(resp.question), resp.id \in Nat,
         resp.answers \in Seq(AnswerRecords), EncodeResponse(resp) # NoMessage,
         NEW values, Carry(resp.answers, values)
  PROVE  ReadMessage(EncodeResponse(resp)).answers =
           [i \in 1..Len(resp.answers) |->
              AnswerRead(resp.answers[i], resp.answers, resp.question.name, values[i])]
<1>0. PICK answers \in Seq(AnswerRecords) : answers = resp.answers  OBVIOUS
<1>q. PICK q : q = resp.question  OBVIOUS
<1>1. answers = resp.answers /\ q = resp.question  BY <1>0, <1>q
<1>n. PICK n \in Nat : n = Len(answers) /\ DOMAIN answers = 1..n  OBVIOUS
<1>c. PICK counts : counts = AnswerCounts(answers)  OBVIOUS
<1>2. AreCounts(counts) /\ 33152 \in Nat /\ counts[2] = n /\ IsQuestion(q) /\ resp.id \in Nat
  BY <1>1, <1>c, <1>n DEF AreCounts, AnswerCounts
<1>3. PICK head \in Octets :
        head = HeadOctets(resp.id, 33152, counts, q) /\ Len(head) = QuestionEnd(q) + 4
  BY <1>2, HeadType
<1>4. PICK parts : parts = AnswerTexts(answers)  OBVIOUS
<1>5. parts \in Seq(Octets) /\ Len(parts) = n
      /\ \A i \in 1..n : parts[i] = EncodeAnswer(answers[i], answers)
  <2>1. \A i \in 1..n : EncodeAnswer(answers[i], answers) \in Octets  BY <1>n, AnswerType
  <2>. QED  BY <1>4, <1>n, <2>1 DEF AnswerTexts
<1>6. PICK data \in Octets : data = EncodeResponse(resp) /\ data = head \o FlattenSeq(parts)
  <2>1. EncodeResponse(resp) \in Octets  BY <1>1, <1>2, ResponseEncoded
  <2>2. EncodeResponse(resp) = HeadOctets(resp.id, 33152, AnswerCounts(answers), q)
                                 \o FlattenSeq(AnswerTexts(answers))
    BY <1>1, <1>2, ResponseEncoded
  <2>3. HeadOctets(resp.id, 33152, AnswerCounts(answers), q) = head
    BY <1>3, <1>c
  <2>4. EncodeResponse(resp) = head \o FlattenSeq(parts)  BY <1>4, <2>2, <2>3
  <2>. QED  BY <2>1, <2>4
<1>7. FlattenSeq(parts) \in Octets  BY <1>5, FlattenType DEF Octets
<1>8. BeginsAs(head, data) /\ PartAt(FlattenSeq(parts), data, Len(head)) /\ Len(head) \in Nat
  <2>1. BeginsAs(data, data)  BY BeginsItself
  <2>. QED  BY <1>6, <1>7, <2>1, BeginsParts, OctetsAt
<1>9. HeadIsRead(data, resp.id, 33152, counts, q)  BY <1>2, <1>3, <1>8, HeadRead
<1>10. PICK end \in Nat : end = QuestionEnd(q) /\ q.name \in AnyName
  BY <1>2, QuestionType, QuestionFields
<1>11. NameAt(data, HeaderSize) = [ok |-> TRUE, name |-> q.name, next |-> end]
  <2>1. PICK six \in Octets : six = SixNumbers(resp.id, 33152, counts) /\ Len(six) = HeaderSize
    BY <1>2, SixRead
  <2>2. BeginsAs(six \o QuestionOctets(q), data)  BY <1>3, <1>8, <2>1 DEF HeadOctets
  <2>. QED  BY <1>2, <1>10, <2>1, <2>2, QuestionRead
<1>12. Len(head) = end + 4 /\ Len(head) > HeaderSize
  <2>1. end = HeaderSize + Len(Labels(q.name)) + 1 /\ Len(Labels(q.name)) \in Nat
    BY <1>2, <1>10, QuestionType, OctetsAt DEF QuestionEnd
  <2>. QED  BY <1>3, <1>10, <2>1 DEF HeaderSize
<1>13. PICK bounds : /\ PartsAt(parts, data, bounds) /\ bounds[0] = Len(head)
                     /\ \A i \in 0..n : bounds[i] >= Len(head)
  BY <1>5, <1>8, PartsPlaced
<1>14. ASSUME NEW i \in 1..n
       PROVE  /\ bounds[i] = NextRecord(data, bounds[i - 1])
              /\ RecordRead(data, bounds[i - 1]) =
                   AnswerRead(answers[i], answers, q.name, values[i])
  <2>1. PICK j \in 0..n : j = i - 1 /\ i \in 0..n  OBVIOUS
  <2>2. PICK rr \in AnswerRecords : rr = answers[i]  BY <1>n
  <2>3. PICK value : value = values[i]  OBVIOUS
  <2>4. IsName(rr.name) /\ IsValue(rr.type, value) /\ rr.data = PlainOctets(rr.type, value)
    BY <1>1, <1>n, <2>2, <2>3 DEF Carry
  <2>5. PICK o \in Nat : o = bounds[j] /\ o > HeaderSize
    <3>1. bounds[j] \in Nat /\ bounds[j] >= Len(head)  BY <1>13, <1>5, <2>1 DEF PartsAt
    <3>. QED  BY <1>8, <1>12, <3>1 DEF HeaderSize
  <2>6. PICK next \in Nat : next = bounds[i] /\ next = o + Len(EncodeAnswer(rr, answers))
    <3>1. bounds[i] \in Nat /\ bounds[i] = bounds[j] + Len(parts[i])
      BY <1>13, <1>5, <2>1 DEF PartsAt
    <3>. QED  BY <1>5, <2>2, <2>5, <3>1
  <2>7. PartAt(EncodeAnswer(rr, answers), data, o)
    BY <1>13, <1>5, <2>1, <2>2, <2>5 DEF PartsAt
  <2>8. AnswerAt(data, o, OwnerRead(rr, answers, q.name), rr, o + Len(EncodeAnswer(rr, answers)))
    BY <1>10, <1>11, <2>4, <2>5, <2>7, AnswerPlaced
  <2>9. AnswerAt(data, o, OwnerRead(rr, answers, q.name), rr, next)  BY <2>6, <2>8
  <2>10. RecordRead(data, o) = AnswerRead(rr, answers, q.name, value) /\ next = NextRecord(data, o)
    BY <2>4, <2>9, PlacedAnswerRead
  <2>. QED  BY <2>1, <2>2, <2>3, <2>5, <2>6, <2>10
<1>15. ReadRecords(data, bounds[0], n) = [i \in 1..n |-> RecordRead(data, bounds[i - 1])]
  <2>1. AreBounds(data, bounds, n)  BY <1>14 DEF AreBounds
  <2>. QED  BY <2>1, ReadRecordsForm DEF ReadsRecordsAt
<1>16. ReadMessage(data).answers = ReadRecords(data, end + 4, n)
  <2>1. NameEnd(data, HeaderSize) = end  BY <1>11 DEF NameEnd
  <2>2. U16At(data, 6) = n  BY <1>2, <1>9 DEF HeadIsRead
  <2>. QED  BY <2>1, <2>2 DEF ReadMessage
<1>17. [i \in 1..n |-> RecordRead(data, bounds[i - 1])] =
         [i \in 1..n |-> AnswerRead(answers[i], answers, q.name, values[i])]
  BY <1>14
<1>. QED  BY <1>1, <1>6, <1>12, <1>13, <1>15, <1>16, <1>17, <1>n

=============================================================================
