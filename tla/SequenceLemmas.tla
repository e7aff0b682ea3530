--------------------------- MODULE SequenceLemmas ---------------------------
(***************************************************************************)
(* Facts about naturals and sequences that several proofs need.  Induction *)
(* is stated with a set in the place of a predicate.                       *)
(***************************************************************************)
EXTENDS Integers, SequencesExt, WellFoundedInduction, SequenceTheorems, TLAPS

-----------------------------------------------------------------------------
(* Naturals                                                                *)

\* A set of naturals has a least element.
LEMMA Least ==
    ASSUME NEW S, S \subseteq Nat, S # {}
    PROVE  \E x \in S : \A y \in S : x <= y
<1>1. PICK x \in S : \A y \in S : ~(<<y, x>> \in OpToRel(<, Nat))
  BY NatLessThanWellFounded, WFMin
<1>2. ASSUME NEW y \in S, y < x
      PROVE  FALSE
  <2>1. <<y, x>> \in Nat \X Nat /\ <<y, x>>[1] < <<y, x>>[2]
    BY <1>2
  <2>2. <<y, x>> \in OpToRel(<, Nat)
    BY ONLY <2>1 DEF OpToRel
  <2> QED
    BY <1>1, <2>2
<1> QED
  BY <1>2

\* What holds of 0 and passes from each number to the next holds of all.
LEMMA Induction ==
    ASSUME NEW S, 0 \in S, \A k \in Nat : k \in S => k + 1 \in S
    PROVE  Nat \subseteq S
<1> DEFINE T == {k \in Nat : k \notin S}
<1> SUFFICES ASSUME T # {} PROVE FALSE
  OBVIOUS
<1>1. PICK x \in T : \A y \in T : x <= y
  BY Least
<1>2. x # 0 /\ x - 1 \in Nat /\ x - 1 \notin T
  BY <1>1
<1>3. x - 1 \in S /\ (x - 1) + 1 = x
  BY <1>2
<1> QED
  BY <1>1, <1>2, <1>3

LEMMA MinFacts ==
    ASSUME NEW S, S \subseteq Nat, S # {}
    PROVE  Min(S) \in S /\ \A y \in S : Min(S) <= y
<1>1. \E x \in S : \A y \in S : x <= y
  BY Least
<1> QED
  BY <1>1 DEF Min

LEMMA MaxFacts ==
    ASSUME NEW top \in Nat, NEW S, S \subseteq 0 .. top, S # {}
    PROVE  Max(S) \in S /\ \A y \in S : Max(S) >= y
<1> DEFINE T == {top - y : y \in S}
<1>1. T \subseteq Nat
  <2>1. \A y \in S : top - y \in Nat
    OBVIOUS
  <2> QED
    BY <2>1
<1>2. T # {}
  <2>1. PICK y \in S : TRUE
    OBVIOUS
  <2> QED
    BY <2>1
<1>3. PICK x \in T : \A y \in T : x <= y
  BY <1>1, <1>2, Least
<1>4. PICK z \in S : x = top - z
  BY <1>3
<1>5. ASSUME NEW y \in S PROVE z >= y
  <2>1. y \in Nat /\ z \in Nat /\ top \in Nat
    OBVIOUS
  <2>2. top - z <= top - y
    <3>1. top - y \in T
      OBVIOUS
    <3> HIDE DEF T
    <3> QED
      BY <1>3, <1>4, <3>1
  <2> QED
    BY ONLY <2>1, <2>2
<1> QED
  BY <1>5 DEF Max

-----------------------------------------------------------------------------
(* Concatenation                                                           *)

LEMMA ConcatFacts ==
    ASSUME NEW C, NEW x \in Seq(C), NEW y \in Seq(C)
    PROVE  /\ x \o y \in Seq(C)
           /\ Len(x) \in Nat /\ Len(y) \in Nat
           /\ Len(x \o y) = Len(x) + Len(y)
           /\ \A k \in 1 .. Len(x) : (x \o y)[k] = x[k]
           /\ \A k \in 1 .. Len(y) : (x \o y)[Len(x) + k] = y[k]
<1>1. /\ x \o y \in Seq(C) /\ Len(x \o y) = Len(x) + Len(y)
      /\ \A k \in 1 .. Len(x) + Len(y) :
             (x \o y)[k] = IF k <= Len(x) THEN x[k] ELSE y[k - Len(x)]
      /\ Len(x) \in Nat /\ Len(y) \in Nat
  BY ConcatProperties
<1>2. \A k \in 1 .. Len(x) : (x \o y)[k] = x[k]
  BY <1>1
<1>3. \A k \in 1 .. Len(y) : (x \o y)[Len(x) + k] = y[k]
  BY <1>1
<1> QED
  BY <1>1, <1>2, <1>3

LEMMA AppendFacts ==
    ASSUME NEW C, NEW x \in Seq(C), NEW e \in C
    PROVE  /\ Append(x, e) \in Seq(C)
           /\ Len(Append(x, e)) = Len(x) + 1
           /\ \A k \in 1 .. Len(x) : Append(x, e)[k] = x[k]
           /\ Append(x, e)[Len(x) + 1] = e
BY AppendProperties

\* A beginning, a piece and the rest of a sequence.
LEMMA SubSeqFacts ==
    ASSUME NEW C, NEW x \in Seq(C), NEW m \in 0 .. Len(x)
    PROVE  /\ SubSeq(x, 1, m) \in Seq(C)
           /\ Len(SubSeq(x, 1, m)) = m
           /\ \A k \in 1 .. m : SubSeq(x, 1, m)[k] = x[k]
BY SubSeqProperties

LEMMA SubSeqMiddle ==
    ASSUME NEW C, NEW x \in Seq(C), NEW a \in 1 .. Len(x), NEW b \in a .. Len(x)
    PROVE  /\ SubSeq(x, a, b) \in Seq(C)
           /\ Len(SubSeq(x, a, b)) = b - a + 1
           /\ \A k \in 1 .. b - a + 1 : SubSeq(x, a, b)[k] = x[a + (k - 1)]
BY SubSeqProperties

LEMMA SubSeqTail ==
    ASSUME NEW C, NEW x \in Seq(C), NEW m \in 0 .. Len(x)
    PROVE  /\ SubSeq(x, m + 1, Len(x)) \in Seq(C)
           /\ Len(SubSeq(x, m + 1, Len(x))) = Len(x) - m
           /\ \A k \in 1 .. Len(x) - m : SubSeq(x, m + 1, Len(x))[k] = x[m + k]
BY SubSeqProperties

-----------------------------------------------------------------------------
(* FlattenSeq                                                              *)

\* The recursive function that FlattenSeq is defined with exists.
LEMMA FlattenDefined ==
    ASSUME NEW C, NEW ss \in Seq(Seq(C))
    PROVE  \E f : f = [k \in 1 .. Len(ss) |->
                          IF k = 1 THEN ss[k] ELSE f[k - 1] \o ss[k]]
<1> DEFINE H(x, k) == IF k = 1 THEN ss[k] ELSE x \o ss[k]
           F(m, f) == f = [k \in 1 .. m |-> H(f[k - 1], k)]
           S == {m \in Nat : \E f : F(m, f)}
<1>0. \A x, y : H(x, 1) = H(y, 1)
  OBVIOUS
<1> HIDE DEF H
<1>1. 0 \in S
  <2> DEFINE e == [k \in 1 .. 0 |-> ss[k]]
  <2>1. F(0, e)
    OBVIOUS
  <2> HIDE DEF F
  <2> QED
    BY <2>1
<1>2. ASSUME NEW m \in Nat, m \in S PROVE m + 1 \in S
  <2>1. PICK f : F(m, f)
    BY <1>2
  <2>2. \A k \in 1 .. m : f[k] = H(f[k - 1], k)
    BY <2>1
  <2> DEFINE g == [k \in 1 .. m + 1 |-> H(f[k - 1], k)]
  <2>3. \A k \in 1 .. m + 1 : g[k] = H(f[k - 1], k)
    OBVIOUS
  <2> HIDE DEF F
  <2>4. ASSUME NEW k \in 1 .. m + 1 PROVE H(g[k - 1], k) = H(f[k - 1], k)
    <3>1. CASE k = 1
      BY <1>0, <3>1
    <3>2. CASE k # 1
      <4>1. k - 1 \in 1 .. m /\ k - 1 \in 1 .. m + 1
        BY <3>2
      <4>2. g[k - 1] = f[k - 1]
        BY <2>2, <2>3, <4>1
      <4> QED
        BY <4>2
    <3> QED
      BY <3>1, <3>2
  <2>5. g = [k \in 1 .. m + 1 |-> H(g[k - 1], k)]
    BY <2>4
  <2> HIDE DEF g
  <2>6. F(m + 1, g)
    BY <2>5 DEF F
  <2> QED
    BY <2>6
<1>3. Len(ss) \in S
  <2> HIDE DEF S
  <2>1. Nat \subseteq S
    BY <1>1, <1>2, Induction
  <2> QED
    BY <2>1
<1> QED
  BY <1>3 DEF H

\* The concatenation has the k-th sequence behind the off[k - 1] elements of
\* those before it.
Placed(C, ss, off) ==
    /\ off \in [0 .. Len(ss) -> Nat]
    /\ off[0] = 0
    /\ \A k \in 1 .. Len(ss) : /\ off[k] = off[k - 1] + Len(ss[k])
                               /\ off[k] <= off[Len(ss)]
    /\ FlattenSeq(ss) \in Seq(C)
    /\ Len(FlattenSeq(ss)) = off[Len(ss)]
    /\ \A k \in 1 .. Len(ss) : \A p \in 1 .. Len(ss[k]) :
           FlattenSeq(ss)[off[k - 1] + p] = ss[k][p]

LEMMA FlattenFacts ==
    ASSUME NEW C, NEW ss \in Seq(Seq(C))
    PROVE  \E off : Placed(C, ss, off)
<1> DEFINE N == Len(ss)
<1>0. N \in Nat /\ \A k \in 1 .. N : ss[k] \in Seq(C) /\ Len(ss[k]) \in Nat
  OBVIOUS
<1>1. CASE N = 0
  <2> DEFINE off == [k \in 0 .. N |-> 0]
  <2>1. FlattenSeq(ss) = ss /\ ss = <<>>
    BY <1>1 DEF FlattenSeq
  <2>2. off \in [0 .. N -> Nat] /\ off[0] = 0 /\ off[N] = 0
    BY <1>1
  <2>3. <<>> \in Seq(C) /\ Len(<<>>) = 0
    OBVIOUS
  <2>4. 1 .. N = {}
    BY <1>1
  <2> HIDE DEF off, N
  <2>5. /\ \A k \in 1 .. N : off[k] = off[k - 1] + Len(ss[k]) /\ off[k] <= off[N]
        /\ \A k \in 1 .. N : \A p \in 1 .. Len(ss[k]) :
               FlattenSeq(ss)[off[k - 1] + p] = ss[k][p]
        /\ FlattenSeq(ss) \in Seq(C) /\ Len(FlattenSeq(ss)) = off[N]
    BY <2>1, <2>2, <2>3, <2>4
  <2>6. Placed(C, ss, off)
    <3>1. /\ \A k \in 1 .. N : /\ off[k] = off[k - 1] + Len(ss[k])
                               /\ off[k] <= off[N]
          /\ \A k \in 1 .. N : \A p \in 1 .. Len(ss[k]) :
                 FlattenSeq(ss)[off[k - 1] + p] = ss[k][p]
      BY <2>5
    <3> QED
      BY <2>2, <2>5, <3>1 DEF N, Placed
  <2> QED
    BY <2>6
<1>2. CASE N # 0
  <2> DEFINE f == CHOOSE f : f = [k \in 1 .. N |->
                                     IF k = 1 THEN ss[k] ELSE f[k - 1] \o ss[k]]
  <2>1. f = [k \in 1 .. N |-> IF k = 1 THEN ss[k] ELSE f[k - 1] \o ss[k]]
    BY FlattenDefined
  <2>2. FlattenSeq(ss) = f[N]
    BY <1>2 DEF FlattenSeq
  <2> HIDE DEF f
  <2>3. f[1] = ss[1] /\ \A k \in 2 .. N : f[k] = f[k - 1] \o ss[k]
    <3> DEFINE H(x, k) == IF k = 1 THEN ss[k] ELSE x \o ss[k]
    <3>1. f = [k \in 1 .. N |-> H(f[k - 1], k)]
      BY <2>1
    <3> HIDE DEF H
    <3>2. \A k \in 1 .. N : f[k] = H(f[k - 1], k)
      BY <3>1
    <3>3. 1 \in 1 .. N /\ \A k \in 2 .. N : k \in 1 .. N /\ k # 1
      BY <1>0, <1>2
    <3> HIDE DEF N
    <3> QED
      BY <3>2, <3>3 DEF H
  <2> DEFINE off == [k \in 0 .. N |-> IF k = 0 THEN 0 ELSE Len(f[k])]
             Good(m) == /\ f[m] \in Seq(C)
                        /\ Len(f[m]) = off[m]
                        /\ off[m] = off[m - 1] + Len(ss[m])
                        /\ \A k \in 1 .. m :
                               /\ off[k - 1] \in Nat /\ off[k] \in Nat
                               /\ off[k] = off[k - 1] + Len(ss[k])
                               /\ off[k] <= off[m]
                               /\ \A p \in 1 .. Len(ss[k]) :
                                      f[m][off[k - 1] + p] = ss[k][p]
             S == {m \in Nat : m + 1 <= N => Good(m + 1)}
  <2>4. off[0] = 0 /\ \A k \in 1 .. N : off[k] = Len(f[k])
    OBVIOUS
  <2> HIDE DEF off
  <2>5. 0 \in S
    <3>1. Good(1)
      BY <1>0, <1>2, <2>3, <2>4
    <3> HIDE DEF Good
    <3>2. 0 \in Nat /\ 0 + 1 = 1
      OBVIOUS
    <3>3. Good(0 + 1)
      BY <3>1, <3>2
    <3> QED
      BY <3>2, <3>3
  <2>6. ASSUME NEW m \in Nat, m \in S PROVE m + 1 \in S
    <3> HIDE DEF Good
    <3> SUFFICES ASSUME m + 2 <= N PROVE Good(m + 2)
      OBVIOUS
    <3> DEFINE a == m + 1
               b == m + 2
    <3>1. /\ a \in 1 .. N /\ b \in 2 .. N /\ b - 1 = a /\ b \in 1 .. N
          /\ a \in Nat /\ b \in Nat
      BY <1>0
    <3>2. Good(a)
      BY <2>6, <3>1
    <3> HIDE DEF a, b
    <3>3. f[b] = f[a] \o ss[b]
      BY <2>3, <3>1
    <3>4. f[a] \in Seq(C) /\ Len(f[a]) = off[a] /\ off[a] \in Nat
          /\ ss[b] \in Seq(C) /\ Len(ss[b]) \in Nat
      <4>1. f[a] \in Seq(C) /\ Len(f[a]) = off[a]
        BY <3>2 DEF Good
      <4>2. ss[b] \in Seq(C) /\ Len(ss[b]) \in Nat
        BY <1>0, <3>1
      <4>3. Len(f[a]) \in Nat
        BY <4>1
      <4> QED
        BY <4>1, <4>2, <4>3
    <3>5. /\ f[b] \in Seq(C) /\ Len(f[b]) = off[a] + Len(ss[b])
          /\ \A q \in 1 .. off[a] : f[b][q] = f[a][q]
          /\ \A p \in 1 .. Len(ss[b]) : f[b][off[a] + p] = ss[b][p]
      <4> DEFINE x == f[a]
                 y == ss[b]
      <4>1. x \in Seq(C) /\ y \in Seq(C)
        BY <3>4
      <4> HIDE DEF x, y
      <4>2. /\ x \o y \in Seq(C) /\ Len(x \o y) = Len(x) + Len(y)
            /\ \A q \in 1 .. Len(x) : (x \o y)[q] = x[q]
            /\ \A q \in 1 .. Len(y) : (x \o y)[Len(x) + q] = y[q]
        BY <4>1, ConcatFacts
      <4> QED
        BY <3>3, <3>4, <4>2 DEF x, y
    <3>6. off[b] = off[a] + Len(ss[b]) /\ off[b] = Len(f[b]) /\ off[b] \in Nat
      <4>1. off[b] = Len(f[b])
        BY <2>4, <3>1
      <4>2. Len(f[b]) = off[a] + Len(ss[b])
        BY <3>5
      <4>3. off[a] \in Nat /\ Len(ss[b]) \in Nat
        BY <3>4
      <4> QED
        BY <4>1, <4>2, <4>3
    <3>7. ASSUME NEW k \in 1 .. b
          PROVE  /\ off[k - 1] \in Nat /\ off[k] \in Nat
                 /\ off[k] = off[k - 1] + Len(ss[k])
                 /\ off[k] <= off[b]
                 /\ \A p \in 1 .. Len(ss[k]) :
                        f[b][off[k - 1] + p] = ss[k][p]
      <4>1. CASE k = b
        <5>1. k - 1 = a
          BY <3>1, <4>1
        <5>2. off[b] <= off[b]
          BY <3>6
        <5> QED
          BY <3>4, <3>5, <3>6, <4>1, <5>1, <5>2
      <4>2. CASE k # b
        <5>1. k \in 1 .. a
          BY <3>1, <4>2
        <5>2. /\ off[k - 1] \in Nat /\ off[k] \in Nat
              /\ off[k] = off[k - 1] + Len(ss[k])
              /\ off[k] <= off[a]
              /\ \A p \in 1 .. Len(ss[k]) : f[a][off[k - 1] + p] = ss[k][p]
          BY <3>2, <5>1 DEF Good
        <5>3. ASSUME NEW p \in 1 .. Len(ss[k])
              PROVE  f[b][off[k - 1] + p] = ss[k][p]
          <6>1. Len(ss[k]) \in Nat
            BY <1>0, <3>1, <5>1
          <6>2. off[k - 1] + p \in 1 .. off[a]
            <7>1. /\ off[a] \in Nat /\ off[k - 1] \in Nat
                  /\ off[k - 1] + Len(ss[k]) <= off[a]
              BY <3>4, <5>2
            <7> DEFINE x == off[k - 1]
                       y == off[a]
                       l == Len(ss[k])
            <7>2. x \in Nat /\ y \in Nat /\ l \in Nat /\ p \in 1 .. l /\ x + l <= y
              BY <6>1, <7>1
            <7> HIDE DEF x, y, l
            <7>3. x + p \in 1 .. y
              BY <7>2
            <7> QED
              BY <7>3 DEF x, y
          <6> QED
            BY <3>5, <5>2, <6>2
        <5>4. off[k] <= off[b]
          <6>1. /\ off[b] \in Nat /\ off[a] \in Nat /\ off[k] \in Nat
                /\ off[k] <= off[a] /\ off[b] = off[a] + Len(ss[b])
                /\ Len(ss[b]) \in Nat
            BY <3>4, <3>6, <5>2
          <6> DEFINE x == off[k]
                     y == off[a]
                     z == off[b]
                     l == Len(ss[b])
          <6>2. /\ x \in Nat /\ y \in Nat /\ l \in Nat
                /\ x <= y /\ z = y + l
            BY <6>1
          <6> HIDE DEF x, y, z, l
          <6>3. x <= z
            BY <6>2
          <6> QED
            BY <6>3 DEF x, z
        <5> QED
          BY <5>2, <5>3, <5>4
      <4> QED
        BY <4>1, <4>2
    <3>8. Good(b)
      BY <3>1, <3>5, <3>6, <3>7 DEF Good
    <3> QED
      BY <3>8 DEF b
  <2>7. Good(N)
    <3> HIDE DEF S
    <3>1. Nat \subseteq S
      BY <2>5, <2>6, Induction
    <3>2. N - 1 \in S /\ (N - 1) + 1 = N
      BY <1>0, <1>2, <3>1
    <3> HIDE DEF Good
    <3> QED
      BY <1>0, <3>2 DEF S
  <2>8. off \in [0 .. N -> Nat]
    <3>1. \A k \in 0 .. N : off[k] \in Nat
      BY <1>0, <2>4, <2>7
    <3> QED
      BY <3>1 DEF off
  <2>9. Placed(C, ss, off)
    <3>1. /\ f[N] \in Seq(C) /\ Len(f[N]) = off[N]
          /\ \A k \in 1 .. N : /\ off[k] = off[k - 1] + Len(ss[k])
                               /\ off[k] <= off[N]
          /\ \A k \in 1 .. N : \A p \in 1 .. Len(ss[k]) :
                 f[N][off[k - 1] + p] = ss[k][p]
      BY <2>7
    <3> HIDE DEF N
    <3> QED
      BY <2>2, <2>4, <2>8, <3>1 DEF N, Placed
  <2> QED
    BY <2>9
<1> QED
  BY <1>1, <1>2

=============================================================================
