--------------------------- MODULE SequenceLemmas ---------------------------
(***************************************************************************)
(* Lemmas about recursive functions and the lists they compute.            *)
(***************************************************************************)
EXTENDS Integers, SequencesExt, SequenceTheorems, WellFoundedInduction, TLAPS

-----------------------------------------------------------------------------
(* Numbers.                                                                *)

\* Every set of numbers has a least one.
LEMMA LeastNumber ==
  ASSUME NEW T \in SUBSET Nat, T # {}
  PROVE  \E m \in T : \A n \in T : m <= n
<1>. DEFINE less == {p \in Nat \X Nat : p[1] < p[2]}
<1>1. IsWellFoundedOn(less, Nat)  BY NatLessThanWellFounded DEF OpToRel
<1>2. \A m, n \in Nat : <<n, m>> \in less <=> n < m  OBVIOUS
<1>. HIDE DEF less
<1>3. PICK m \in T : \A n \in T : ~ (<<n, m>> \in less)
  BY <1>1, WFMin
<1>4. \A n \in T : ~ (n < m)  BY <1>2, <1>3
<1>. QED  BY <1>4

\* Induction, with a set of numbers in place of a predicate.
LEMMA SetInduction ==
  ASSUME NEW T, 0 \in T, \A n \in Nat : n \in T => n + 1 \in T
  PROVE  \A n \in Nat : n \in T
<1>. DEFINE bad == {n \in Nat : n \notin T}
<1>1. ASSUME bad # {} PROVE FALSE
  <2>1. PICK m \in bad : \A n \in bad : m <= n  BY <1>1, LeastNumber
  <2>2. m \in Nat /\ m # 0  OBVIOUS
  <2>3. m - 1 \in Nat /\ m - 1 \in T
    <3>1. m - 1 \in Nat /\ ~ (m <= m - 1)  BY <2>2
    <3>. QED  BY <2>1, <3>1
  <2>4. (m - 1) + 1 \in T  BY <2>3
  <2>. QED  BY <2>2, <2>4
<1>. QED  BY <1>1

-----------------------------------------------------------------------------
(* Parts of lists.                                                         *)

\* Lists that agree from i to j have the same part there.
LEMMA SubSeqAgrees ==
  ASSUME NEW s, NEW t, NEW i \in Nat, NEW j \in Nat,
         \A k \in i..j : s[k] = t[k]
  PROVE  SubSeq(s, i, j) = SubSeq(t, i, j)
<1>. DEFINE S == {s[k] : k \in i..j}
<1>1. \A k \in i..j : s[k] \in S /\ t[k] \in S  OBVIOUS
<1>. HIDE DEF S
<1>2. /\ SubSeq(s, i, j) \in Seq(S) /\ SubSeq(t, i, j) \in Seq(S)
      /\ Len(SubSeq(s, i, j)) = IF i <= j THEN j - i + 1 ELSE 0
      /\ Len(SubSeq(t, i, j)) = IF i <= j THEN j - i + 1 ELSE 0
      /\ \A k \in 1..j - i + 1 : SubSeq(s, i, j)[k] = s[i + k - 1]
      /\ \A k \in 1..j - i + 1 : SubSeq(t, i, j)[k] = t[i + k - 1]
  BY <1>1, SubSeqProperties
<1>3. \A k \in 1..Len(SubSeq(s, i, j)) : SubSeq(s, i, j)[k] = SubSeq(t, i, j)[k]
  BY <1>2
<1>. QED  BY <1>2, <1>3, SeqEqual

\* So have lists that agree, but for the place.
LEMMA SubSeqShifted ==
  ASSUME NEW s, NEW t, NEW d \in Nat, NEW i \in Nat, NEW j \in Nat,
         \A k \in i..j : s[d + k] = t[k]
  PROVE  SubSeq(s, d + i, d + j) = SubSeq(t, i, j)
<1>. DEFINE S == {t[k] : k \in i..j}
<1>1. \A k \in i..j : t[k] \in S  OBVIOUS
<1>. HIDE DEF S
<1>2. PICK a \in Nat, b \in Nat : a = d + i /\ b = d + j  OBVIOUS
<1>3. \A k \in a..b : s[k] \in S
  <2>1. ASSUME NEW k \in a..b PROVE s[k] \in S
    <3>1. PICK l \in i..j : l = k - d  BY <1>2
    <3>2. d + l = k  BY <1>2, <3>1
    <3>. QED  BY <1>1, <3>1, <3>2
  <2>. QED  BY <2>1
<1>4. /\ SubSeq(s, a, b) \in Seq(S) /\ SubSeq(t, i, j) \in Seq(S)
      /\ Len(SubSeq(s, a, b)) = IF a <= b THEN b - a + 1 ELSE 0
      /\ Len(SubSeq(t, i, j)) = IF i <= j THEN j - i + 1 ELSE 0
      /\ \A k \in 1..b - a + 1 : SubSeq(s, a, b)[k] = s[a + k - 1]
      /\ \A k \in 1..j - i + 1 : SubSeq(t, i, j)[k] = t[i + k - 1]
  BY <1>1, <1>3, SubSeqProperties
<1>5. Len(SubSeq(s, a, b)) = Len(SubSeq(t, i, j))  BY <1>2, <1>4
<1>6. ASSUME NEW k \in 1..Len(SubSeq(s, a, b)) PROVE SubSeq(s, a, b)[k] = SubSeq(t, i, j)[k]
  <2>1. k \in 1..b - a + 1 /\ k \in 1..j - i + 1  BY <1>2, <1>4, <1>6
  <2>2. PICK l \in i..j : l = i + k - 1  BY <2>1
  <2>3. a + k - 1 = d + l  BY <1>2, <2>1, <2>2
  <2>4. s[a + k - 1] = t[i + k - 1]  BY <2>2, <2>3
  <2>. QED  BY <1>4, <2>1, <2>4
<1>7. SubSeq(s, a, b) = SubSeq(t, i, j)  BY <1>4, <1>5, <1>6, SeqEqual
<1>. QED  BY <1>2, <1>7

-----------------------------------------------------------------------------
(* Lists of lists.                                                         *)

\* FlattenSeq, without the LET.
Flattens(f, seqs) ==
  f = [i \in 1..Len(seqs) |-> IF i = 1 THEN seqs[i] ELSE f[i - 1] \o seqs[i]]

\* What the library defines is such a function, if one exists.
LEMMA FlattenUnfold ==
  ASSUME NEW seqs, Len(seqs) # 0
  PROVE  FlattenSeq(seqs) = (CHOOSE f : Flattens(f, seqs))[Len(seqs)]
BY DEF FlattenSeq, Flattens

\* There is such a function: if the prefixes up to m - 1 have one, so has that up to m.
LEMMA FlattenExists ==
  ASSUME NEW seqs, Len(seqs) \in Nat
  PROVE  \E f : Flattens(f, seqs)
<1>. DEFINE Prefix(f, n) ==
       f = [i \in 1..n |-> IF i = 1 THEN seqs[i] ELSE f[i - 1] \o seqs[i]]
     bad == {n \in Nat : ~ \E f : Prefix(f, n)}
<1>1. ASSUME bad # {} PROVE FALSE
  <2>1. PICK m \in bad : \A n \in bad : m <= n  BY <1>1, LeastNumber
  <2>2. Prefix([i \in 1..0 |-> <<>>], 0)  OBVIOUS
  <2>3. m \in Nat /\ m # 0  BY <2>2
  <2>4. m - 1 \in Nat /\ m - 1 \notin bad
    <3>. HIDE DEF bad
    <3>. QED  BY <2>1, <2>3
  <2>5. PICK f : Prefix(f, m - 1)  BY <2>4
  <2>. DEFINE end == IF m = 1 THEN seqs[m] ELSE f[m - 1] \o seqs[m]
              g == [i \in 1..m |-> IF i = m THEN end ELSE f[i]]
  <2>6. Prefix(g, m)
    <3>1. ASSUME NEW i \in 1..m
          PROVE  g[i] = IF i = 1 THEN seqs[i] ELSE g[i - 1] \o seqs[i]
      <4>1. CASE i = m  BY <2>3, <4>1
      <4>2. CASE i # m
        <5>1. i \in 1..(m - 1)  BY <2>3, <4>2
        <5>2. f[i] = IF i = 1 THEN seqs[i] ELSE f[i - 1] \o seqs[i]  BY <2>5, <5>1
        <5>. QED  BY <2>3, <4>2, <5>1, <5>2
      <4>. QED  BY <4>1, <4>2
    <3>. QED  BY <3>1
  <2>. QED  BY <2>3, <2>6
<1>. QED  BY <1>1 DEF Flattens

\* Flattening lists over a set gives a list over it.
LEMMA FlattenType ==
  ASSUME NEW S, NEW seqs \in Seq(Seq(S))
  PROVE  FlattenSeq(seqs) \in Seq(S)
<1>1. CASE Len(seqs) = 0
  <2>1. FlattenSeq(seqs) = seqs  BY <1>1 DEF FlattenSeq
  <2>. QED  BY <1>1, <2>1
<1>2. CASE Len(seqs) # 0
  <2>. DEFINE f == CHOOSE g : Flattens(g, seqs)
              bad == {i \in 1..Len(seqs) : f[i] \notin Seq(S)}
  <2>1. Flattens(f, seqs)  BY FlattenExists
  <2>2. \A i \in 1..Len(seqs) : f[i] = IF i = 1 THEN seqs[i] ELSE f[i - 1] \o seqs[i]
    BY <2>1 DEF Flattens
  <2>. HIDE DEF f
  <2>3. ASSUME bad # {} PROVE FALSE
    <3>b. bad \in SUBSET Nat  OBVIOUS
    <3>1. PICK m \in bad : \A i \in bad : m <= i
      <4>. HIDE DEF bad
      <4>. QED  BY <2>3, <3>b, LeastNumber
    <3>2. m \in 1..Len(seqs) /\ seqs[m] \in Seq(S)  OBVIOUS
    <3>3. CASE m = 1  BY <2>2, <3>2, <3>3
    <3>4. CASE m # 1
      <4>1. m - 1 \in 1..Len(seqs)  BY <3>2, <3>4
      <4>2. m - 1 \notin bad
        <5>. HIDE DEF bad
        <5>. QED  BY <3>1, <3>2
      <4>3. f[m - 1] \in Seq(S)  BY <4>1, <4>2
      <4>4. f[m] = f[m - 1] \o seqs[m]  BY <2>2, <3>2, <3>4
      <4>5. f[m] \in Seq(S)
        <5>. HIDE DEF bad
        <5>. QED  BY <3>2, <4>3, <4>4
      <4>. QED  BY <4>5
    <3>. QED  BY <3>3, <3>4
  <2>4. f[Len(seqs)] \in Seq(S)  BY <1>2, <2>3
  <2>. QED  BY <1>2, <2>4, FlattenUnfold DEF f
<1>. QED  BY <1>1, <1>2

\* What is flattened list by list.
LEMMA FlattenAppend ==
  ASSUME NEW S, NEW seqs \in Seq(Seq(S)), NEW x \in Seq(S)
  PROVE  FlattenSeq(Append(seqs, x)) = FlattenSeq(seqs) \o x
<1>. DEFINE n == Len(seqs)
            more == Append(seqs, x)
            g == CHOOSE h : Flattens(h, more)
<1>m. more \in Seq(Seq(S)) /\ Len(more) = n + 1 /\ n \in Nat /\ more[n + 1] = x
      /\ \A i \in 1..n : more[i] = seqs[i]
  OBVIOUS
<1>1. Flattens(g, more)
  <2>. HIDE DEF more
  <2>. QED  BY <1>m, FlattenExists
<1>2. \A i \in 1..n + 1 : g[i] = IF i = 1 THEN more[i] ELSE g[i - 1] \o more[i]
  <2>. HIDE DEF more, g
  <2>. QED  BY <1>1, <1>m DEF Flattens
<1>3. FlattenSeq(more) = g[n + 1]
  <2>1. Len(more) # 0 /\ Len(more) = n + 1  BY <1>m
  <2>. HIDE DEF more
  <2>2. FlattenSeq(more) = (CHOOSE h : Flattens(h, more))[Len(more)]  BY <2>1, FlattenUnfold
  <2>. HIDE DEF n
  <2>. QED  BY <2>1, <2>2
<1>. HIDE DEF g, more
<1>4. CASE n = 0
  <2>1. FlattenSeq(seqs) = <<>>  BY <1>4 DEF FlattenSeq
  <2>2. g[1] = x  BY <1>2, <1>4, <1>m
  <2>. QED  BY <1>3, <1>4, <2>1, <2>2 DEF more
<1>5. CASE n # 0
  <2>. DEFINE f == CHOOSE h : Flattens(h, seqs)
              good == {i \in Nat : i + 1 \in 1..n => g[i + 1] = f[i + 1]}
  <2>1. \A i \in 1..n : f[i] = IF i = 1 THEN seqs[i] ELSE f[i - 1] \o seqs[i]
    <3>1. Len(seqs) \in Nat  OBVIOUS
    <3>2. Flattens(f, seqs)  BY <3>1, FlattenExists
    <3>. HIDE DEF f
    <3>. QED  BY <3>2 DEF Flattens
  <2>2. FlattenSeq(seqs) = f[n]  BY <1>5, FlattenUnfold DEF f
  <2>. HIDE DEF f
  <2>3. \A i \in Nat : i \in good
    <3>1. 0 \in good  BY <1>2, <1>5, <1>m, <2>1
    <3>2. ASSUME NEW i \in Nat, i \in good PROVE i + 1 \in good
      <4>1. SUFFICES ASSUME (i + 1) + 1 \in 1..n PROVE g[(i + 1) + 1] = f[(i + 1) + 1]
        OBVIOUS
      <4>2. PICK k : k = (i + 1) + 1  OBVIOUS
      <4>3. k \in 1..n /\ k # 1 /\ k \in 1..n + 1 /\ k - 1 = i + 1  BY <1>m, <4>1, <4>2
      <4>4. g[k - 1] = f[k - 1]  BY <1>m, <3>2, <4>3
      <4>5. g[k] = g[k - 1] \o more[k] /\ f[k] = f[k - 1] \o seqs[k]  BY <1>2, <2>1, <4>3
      <4>. QED  BY <1>m, <4>2, <4>3, <4>4, <4>5
    <3>. HIDE DEF good
    <3>. QED  BY <3>1, <3>2, SetInduction
  <2>4. g[n] = f[n]
    <3>1. n - 1 \in Nat /\ (n - 1) + 1 = n  BY <1>5, <1>m
    <3>2. n - 1 \in good
      <4>. HIDE DEF good
      <4>. QED  BY <2>3, <3>1
    <3>. QED  BY <1>5, <1>m, <3>1, <3>2
  <2>5. g[n + 1] = g[n] \o x
    <3>1. PICK k : k = n + 1  OBVIOUS
    <3>2. k \in 1..n + 1 /\ k # 1 /\ k - 1 = n /\ more[k] = x  BY <1>5, <1>m, <3>1
    <3>. QED  BY <1>2, <3>1, <3>2
  <2>. QED  BY <1>3, <2>2, <2>4, <2>5 DEF more
<1>. QED  BY <1>4, <1>5

-----------------------------------------------------------------------------
(* Following successors.                                                   *)

\* A function f that, where there is a successor, makes its value from that of the
\* successor, and elsewhere has a value of its own.
Follows(f, S, T, next, base, step) ==
  f = [o \in S |-> IF o \in T THEN step[<<o, f[next[o]]>>] ELSE base[o]]

\* A set of values at places, closed under these rules.
IsClosed(R, S, T, V, next, base, step) ==
  /\ \A o \in S \ T : <<o, base[o]>> \in R
  /\ \A o \in T, v \in V : <<next[o], v>> \in R => <<o, step[<<o, v>>]>> \in R

\* Such a function is given by its values.
LEMMA FollowsPointwise ==
  ASSUME NEW S, NEW T, NEW V, NEW next, NEW base, NEW step, NEW f \in [S -> V],
         \A o \in S : f[o] = IF o \in T THEN step[<<o, f[next[o]]>>] ELSE base[o]
  PROVE  Follows(f, S, T, next, base, step)
BY DEF Follows

\* Rules for values in V: none stands for no value, and the rules keep it.
AreRules(S, T, V, none, next, base, step) ==
  /\ T \in SUBSET S /\ none \in V
  /\ next \in [T -> S] /\ base \in [S -> V] /\ step \in [T \X V -> V]
  /\ \A o \in T : step[<<o, none>>] = none

\* Then there is such a function, even if successors go round in circles.
LEMMA FollowsExists ==
  ASSUME NEW S, NEW T, NEW V, NEW none, NEW next, NEW base, NEW step,
         AreRules(S, T, V, none, next, base, step)
  PROVE  \E f \in [S -> V] : Follows(f, S, T, next, base, step)
<1>. /\ T \in SUBSET S /\ none \in V
     /\ next \in [T -> S] /\ base \in [S -> V] /\ step \in [T \X V -> V]
     /\ \A o \in T : step[<<o, none>>] = none
  BY DEF AreRules
<1>. DEFINE Closed(R) == IsClosed(R, S, T, V, next, base, step)
            P == {p \in S \X V : \A R \in SUBSET (S \X V) : Closed(R) => p \in R}
            Has(o) == \E v \in V : <<o, v>> \in P
            f == [o \in S |-> IF Has(o) THEN CHOOSE v \in V : <<o, v>> \in P ELSE none]
<1>1. Closed(P)
  <2>1. ASSUME NEW o \in S \ T PROVE <<o, base[o]>> \in P
    BY DEF IsClosed
  <2>2. ASSUME NEW o \in T, NEW v \in V, <<next[o], v>> \in P
        PROVE  <<o, step[<<o, v>>]>> \in P
    <3>1. <<o, step[<<o, v>>]>> \in S \X V  OBVIOUS
    <3>2. ASSUME NEW R \in SUBSET (S \X V), Closed(R) PROVE <<o, step[<<o, v>>]>> \in R
      <4>1. <<next[o], v>> \in R  BY <2>2, <3>2
      <4>. QED  BY <3>2, <4>1 DEF IsClosed
    <3>. QED  BY <3>1, <3>2
  <2>. QED  BY <2>1, <2>2 DEF IsClosed
<1>2. ASSUME NEW o \in S \ T, NEW v \in V, <<o, v>> \in P PROVE v = base[o]
  <2>1. CASE v # base[o]
    <3>. DEFINE R == P \ {<<o, v>>}
    <3>1. Closed(R)
      <4>. HIDE DEF P
      <4>. QED  BY <1>1, <2>1 DEF IsClosed
    <3>2. R \in SUBSET (S \X V)  OBVIOUS
    <3>. QED  BY <1>2, <3>1, <3>2
  <2>. QED  BY <2>1
<1>3. ASSUME NEW o \in T, NEW w \in V, <<o, w>> \in P
      PROVE  \E v \in V : <<next[o], v>> \in P /\ w = step[<<o, v>>]
  <2>1. CASE \A v \in V : <<next[o], v>> \in P => w # step[<<o, v>>]
    <3>. DEFINE R == P \ {<<o, w>>}
    <3>1. Closed(R)
      <4>. HIDE DEF P
      <4>. QED  BY <1>1, <2>1 DEF IsClosed
    <3>2. R \in SUBSET (S \X V)  OBVIOUS
    <3>. QED  BY <1>3, <3>1, <3>2
  <2>. QED  BY <2>1
<1>4. ASSUME NEW o \in S, NEW v \in V, NEW w \in V, <<o, v>> \in P, <<o, w>> \in P
      PROVE  v = w
  <2>. DEFINE R == {p \in P : \A u \in V : <<p[1], u>> \in P => u = p[2]}
  <2>1. R \in SUBSET (S \X V)  OBVIOUS
  <2>2. Closed(R)
    <3>. HIDE DEF P
    <3>1. ASSUME NEW a \in S \ T PROVE <<a, base[a]>> \in R
      BY <1>1, <1>2 DEF IsClosed
    <3>2. ASSUME NEW a \in T, NEW u \in V, <<next[a], u>> \in R
          PROVE  <<a, step[<<a, u>>]>> \in R
      <4>1. <<a, step[<<a, u>>]>> \in P  BY <1>1, <3>2 DEF IsClosed
      <4>2. ASSUME NEW x \in V, <<a, x>> \in P PROVE x = step[<<a, u>>]
        BY <1>3, <3>2, <4>2
      <4>. QED  BY <4>1, <4>2
    <3>. QED  BY <3>1, <3>2 DEF IsClosed
  <2>3. <<o, v>> \in R  BY <1>4, <2>1, <2>2
  <2>. HIDE DEF P
  <2>. QED  BY <1>4, <2>3
<1>. HIDE DEF P
<1>5. ASSUME NEW o \in S, NEW v \in V, <<o, v>> \in P PROVE f[o] = v
  BY <1>4, <1>5
<1>6. f \in [S -> V]
  <2>1. \A o \in S : Has(o) => (CHOOSE v \in V : <<o, v>> \in P) \in V  OBVIOUS
  <2>. QED  BY <2>1
<1>7. ASSUME NEW o \in S
      PROVE  f[o] = IF o \in T THEN step[<<o, f[next[o]]>>] ELSE base[o]
  <2>1. CASE o \notin T
    BY <1>1, <1>5, <2>1 DEF IsClosed
  <2>2. CASE o \in T /\ Has(next[o])
    <3>1. PICK v \in V : <<next[o], v>> \in P  BY <2>2
    <3>2. f[next[o]] = v  BY <1>5, <2>2, <3>1
    <3>3. <<o, step[<<o, v>>]>> \in P /\ step[<<o, v>>] \in V
      BY <1>1, <2>2, <3>1 DEF IsClosed
    <3>. QED  BY <1>5, <2>2, <3>2, <3>3
  <2>3. CASE o \in T /\ ~ Has(next[o])
    <3>1. f[next[o]] = none  BY <2>3
    <3>2. ~ Has(o)  BY <1>3, <2>3
    <3>3. f[o] = none  BY <3>2
    <3>. QED  BY <2>3, <3>1, <3>3
  <2>. QED  BY <2>1, <2>2, <2>3
<1>8. Follows(f, S, T, next, base, step)
  <2>. HIDE DEF f
  <2>. QED  BY <1>6, <1>7, FollowsPointwise
<1>. QED  BY <1>6, <1>8

-----------------------------------------------------------------------------
(* Recursion over numbers.                                                 *)

\* A value, and what a step makes of the value before.
AreSteps(n, V, first, step) ==
  n \in Nat /\ first \in V /\ step \in [(1..n) \X V -> V]

\* f makes its values from 0 to n by these steps.
Recurs(f, n, first, step) ==
  f[0] = first /\ \A i \in 1..n : f[i] = step[<<i, f[i - 1]>>]

\* There is such a function, with values in the set of the steps.
LEMMA RecursionExists ==
  ASSUME NEW n, NEW V, NEW first, NEW step, AreSteps(n, V, first, step)
  PROVE  \E f \in [0..n -> V] : Recurs(f, n, first, step)
<1>s. n \in Nat /\ first \in V /\ step \in [(1..n) \X V -> V]  BY DEF AreSteps
<1>. DEFINE T == {m \in Nat : m <= n => \E f \in [0..m -> V] : Recurs(f, m, first, step)}
<1>1. 0 \in T
  <2>1. [i \in 0..0 |-> first] \in [0..0 -> V]  BY <1>s
  <2>2. Recurs([i \in 0..0 |-> first], 0, first, step)  BY DEF Recurs
  <2>. QED  BY <2>1, <2>2
<1>2. ASSUME NEW m \in Nat, m \in T PROVE m + 1 \in T
  <2>. SUFFICES ASSUME m + 1 <= n
                PROVE  \E f \in [0..m + 1 -> V] : Recurs(f, m + 1, first, step)
    OBVIOUS
  <2>1. PICK f \in [0..m -> V] : Recurs(f, m, first, step)  BY <1>2, <1>s
  <2>2. PICK k \in 1..n : k = m + 1  BY <1>s
  <2>. DEFINE g == [i \in 0..k |-> IF i = k THEN step[<<k, f[m]>>] ELSE f[i]]
  <2>3. step[<<k, f[m]>>] \in V  BY <1>s, <2>2
  <2>4. g \in [0..k -> V]
    <3>1. \A i \in 0..k : g[i] \in V  BY <2>2, <2>3
    <3>. QED  BY <3>1
  <2>5. ASSUME NEW i \in 1..k PROVE g[i] = step[<<i, g[i - 1]>>]
    <3>1. CASE i = k
      <4>1. i - 1 = m /\ m \in 0..k /\ m # k  BY <2>2, <3>1
      <4>. QED  BY <3>1, <4>1
    <3>2. CASE i # k
      <4>1. i \in 1..m /\ i - 1 \in 0..k /\ i - 1 # k  BY <2>2, <3>2
      <4>2. f[i] = step[<<i, f[i - 1]>>]  BY <2>1, <4>1 DEF Recurs
      <4>. QED  BY <3>2, <4>1, <4>2
    <3>. QED  BY <3>1, <3>2
  <2>6. g[0] = first  BY <2>1, <2>2 DEF Recurs
  <2>. HIDE DEF g
  <2>7. Recurs(g, k, first, step)  BY <2>5, <2>6 DEF Recurs
  <2>. QED  BY <2>2, <2>4, <2>7
<1>3. \A m \in Nat : m \in T
  <2>. HIDE DEF T
  <2>. QED  BY <1>1, <1>2, SetInduction
<1>. QED  BY <1>3, <1>s

\* What makes its values by these steps, as far as they are in the set, has them there.
LEMMA RecursionType ==
  ASSUME NEW n, NEW V, NEW first, NEW step, AreSteps(n, V, first, step),
         NEW g, g[0] = first, \A i \in 1..n : g[i - 1] \in V => g[i] = step[<<i, g[i - 1]>>]
  PROVE  \A i \in 0..n : g[i] \in V
<1>s. n \in Nat /\ first \in V /\ step \in [(1..n) \X V -> V]  BY DEF AreSteps
<1>. DEFINE T == {m \in Nat : m <= n => g[m] \in V}
<1>1. 0 \in T  BY <1>s
<1>2. ASSUME NEW m \in Nat, m \in T PROVE m + 1 \in T
  <2>. SUFFICES ASSUME m + 1 <= n PROVE g[m + 1] \in V
    OBVIOUS
  <2>1. PICK k \in 1..n : k = m + 1  BY <1>s
  <2>2. k - 1 = m /\ g[m] \in V  BY <1>2, <1>s, <2>1
  <2>3. g[k] = step[<<k, g[m]>>]  BY <2>1, <2>2
  <2>4. step[<<k, g[m]>>] \in V  BY <1>s, <2>2
  <2>. QED  BY <2>1, <2>3, <2>4
<1>3. \A m \in Nat : m \in T
  <2>. HIDE DEF T
  <2>. QED  BY <1>1, <1>2, SetInduction
<1>. QED  BY <1>3, <1>s
=============================================================================
