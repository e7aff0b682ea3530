-------------------------- MODULE ProxyHeader_proofs ------------------------
(***************************************************************************)
(* Whoever the certificate names is the subject, and nobody else is: for   *)
(* certificates of any length, with values of any length over any          *)
(* characters.                                                             *)
(***************************************************************************)
EXTENDS ProxyHeader, DnParser_proofs

-----------------------------------------------------------------------------
(* The text of a value is made of units, of one character or of two.       *)

\* The unit of v[u] stands behind off[u - 1] characters.
IsOffsets(v, off) ==
    /\ off \in [0 .. Len(v) -> Nat]
    /\ off[0] = 0
    /\ off[Len(v)] = Len(encode_value(v))
    /\ \A u \in 1 .. Len(v) :
           /\ off[u] <= Len(encode_value(v))
           /\ IF Quoted(v, u)
              THEN /\ off[u] = off[u - 1] + 2
                   /\ encode_value(v)[off[u - 1] + 1] = "backslash"
                   /\ encode_value(v)[off[u - 1] + 2] = v[u]
              ELSE /\ off[u] = off[u - 1] + 1
                   /\ encode_value(v)[off[u - 1] + 1] = v[u]
Offsets(v) == CHOOSE off : IsOffsets(v, off)

LEMMA ValueText ==
    ASSUME NEW v \in Seq(Chars)
    PROVE  IsOffsets(v, Offsets(v)) /\ encode_value(v) \in Seq(Chars)
<1> DEFINE units == [u \in 1 .. Len(v) |-> encode_char(v, u)]
           e == encode_value(v)
           N == Len(v)
<1>1. e = FlattenSeq(units)
  BY DEF encode_value
<1>2. N \in Nat /\ \A u \in 1 .. N : v[u] \in Chars
  OBVIOUS
<1>3. ASSUME NEW u \in 1 .. N PROVE encode_char(v, u) \in Seq(Chars)
  BY <1>2, HeaderAssumption DEF encode_char
<1>4. units \in Seq(Seq(Chars)) /\ Len(units) = N /\ DOMAIN units = 1 .. N
  BY <1>2, <1>3
<1>5. \A u \in 1 .. N : units[u] = encode_char(v, u)
  OBVIOUS
<1> HIDE DEF units, N, e
<1>6. PICK off : Placed(Chars, units, off)
  BY <1>4, FlattenFacts
<1>7. /\ off \in [0 .. N -> Nat] /\ off[0] = 0
      /\ \A k \in 1 .. N : /\ off[k] = off[k - 1] + Len(units[k])
                           /\ off[k] <= off[N]
      /\ e \in Seq(Chars)
      /\ Len(e) = off[N]
      /\ \A k \in 1 .. N : \A p \in 1 .. Len(units[k]) :
             e[off[k - 1] + p] = units[k][p]
  BY <1>1, <1>4, <1>6 DEF Placed
<1>8. ASSUME NEW u \in 1 .. N
      PROVE  /\ off[u] <= Len(e)
             /\ IF Quoted(v, u)
                THEN /\ off[u] = off[u - 1] + 2
                     /\ e[off[u - 1] + 1] = "backslash"
                     /\ e[off[u - 1] + 2] = v[u]
                ELSE /\ off[u] = off[u - 1] + 1
                     /\ e[off[u - 1] + 1] = v[u]
  <2>1. CASE Quoted(v, u)
    <3>1. /\ Len(units[u]) = 2 /\ units[u][1] = "backslash" /\ units[u][2] = v[u]
          /\ 1 \in 1 .. Len(units[u]) /\ 2 \in 1 .. Len(units[u])
      <4>1. units[u] = <<"backslash", v[u]>>
        BY <1>5, <2>1 DEF encode_char
      <4> QED
        BY <4>1
    <3> QED
      BY <1>7, <2>1, <3>1
  <2>2. CASE ~Quoted(v, u)
    <3>1. /\ Len(units[u]) = 1 /\ units[u][1] = v[u]
          /\ 1 \in 1 .. Len(units[u])
      <4>1. units[u] = <<v[u]>>
        BY <1>5, <2>2 DEF encode_char
      <4> QED
        BY <4>1
    <3> QED
      BY <1>7, <2>2, <3>1
  <2> QED
    BY <2>1, <2>2
<1>9. IsOffsets(v, off)
  BY <1>7, <1>8 DEF IsOffsets, N, e
<1> QED
  BY <1>7, <1>9 DEF Offsets, e

\* The facts of IsOffsets, for one unit.
LEMMA UnitFacts ==
    ASSUME NEW v \in Seq(Chars), NEW u \in 1 .. Len(v)
    PROVE  LET off == Offsets(v)
               e == encode_value(v)
           IN /\ off[u - 1] \in Nat /\ off[u] \in Nat /\ off[u] <= Len(e)
              /\ Quoted(v, u) =>
                     /\ off[u] = off[u - 1] + 2
                     /\ e[off[u - 1] + 1] = "backslash"
                     /\ e[off[u - 1] + 2] = v[u]
              /\ ~Quoted(v, u) =>
                     /\ off[u] = off[u - 1] + 1
                     /\ e[off[u - 1] + 1] = v[u]
                     /\ v[u] \notin {"comma", "backslash"}
<1>1. IsOffsets(v, Offsets(v))
  BY ValueText
<1>2. u - 1 \in 0 .. Len(v) /\ u \in 0 .. Len(v)
  OBVIOUS
<1>3. Offsets(v)[u - 1] \in Nat /\ Offsets(v)[u] \in Nat
  BY <1>1, <1>2 DEF IsOffsets
<1>4. ~Quoted(v, u) => v[u] \notin {"comma", "backslash"}
  BY DEF Quoted, Special
<1> QED
  BY <1>1, <1>3, <1>4 DEF IsOffsets

-----------------------------------------------------------------------------
(* Trimming                                                                *)

\* A text begins at a and ends at m: there is white space outside only.
Ends(s, a, m) ==
    /\ a \in 1 .. Len(s) /\ m \in a .. Len(s)
    /\ s[a] \notin Whitespace /\ s[m] \notin Whitespace
    /\ \A k \in 1 .. a - 1 : s[k] \in Whitespace
    /\ \A k \in m + 1 .. Len(s) : s[k] \in Whitespace

LEMMA TrimMiddle ==
    ASSUME NEW s \in Seq(Chars), NEW a, NEW m, Ends(s, a, m)
    PROVE  trim(s) = SubSeq(s, a, m)
<1> DEFINE solid == {j \in 1 .. Len(s) : s[j] \notin Whitespace}
<1>0. /\ a \in 1 .. Len(s) /\ m \in 1 .. Len(s) /\ Len(s) \in Nat
      /\ s[a] \notin Whitespace /\ s[m] \notin Whitespace
      /\ \A k \in 1 .. Len(s) : k < a => s[k] \in Whitespace
      /\ \A k \in 1 .. Len(s) : k > m => s[k] \in Whitespace
  BY DEF Ends
<1>1. /\ solid \subseteq Nat /\ solid \subseteq 0 .. Len(s)
      /\ a \in solid /\ m \in solid /\ a \in Nat /\ m \in Nat
  BY <1>0
<1>2. \A k \in solid : k \in Nat /\ a <= k /\ k <= m
  BY <1>0
<1>3. Min(solid) \in solid /\ Min(solid) <= a
  BY <1>1, MinFacts
<1>4. Max(solid) \in solid /\ Max(solid) >= m
  BY <1>0, <1>1, MaxFacts
<1>5. trim(s) = SubSeq(s, Min(solid), Max(solid))
  BY <1>1 DEF trim
<1> HIDE DEF solid
<1>6. /\ Min(solid) \in Nat /\ a <= Min(solid) /\ Min(solid) <= a
      /\ Max(solid) \in Nat /\ Max(solid) <= m /\ Max(solid) >= m
  BY <1>2, <1>3, <1>4
<1>7. Min(solid) = a /\ Max(solid) = m
  BY <1>1, <1>6
<1> QED
  BY <1>5, <1>7

LEMMA TrimSpaces ==
    ASSUME NEW s, \A k \in 1 .. Len(s) : s[k] \in Whitespace
    PROVE  trim(s) = <<>>
BY DEF trim

LEMMA TrimShape ==
    ASSUME NEW s \in Seq(Chars)
    PROVE  \/ \A k \in 1 .. Len(s) : s[k] \in Whitespace
           \/ \E a, m \in 1 .. Len(s) : Ends(s, a, m)
<1> DEFINE solid == {j \in 1 .. Len(s) : s[j] \notin Whitespace}
<1> SUFFICES ASSUME solid # {} PROVE \E a, m \in 1 .. Len(s) : Ends(s, a, m)
  OBVIOUS
<1>1. Len(s) \in Nat /\ solid \subseteq Nat /\ solid \subseteq 0 .. Len(s)
  OBVIOUS
<1>2. Min(solid) \in solid /\ \A k \in solid : Min(solid) <= k
  BY <1>1, MinFacts
<1>3. Max(solid) \in solid /\ \A k \in solid : Max(solid) >= k
  BY <1>1, MaxFacts
<1> DEFINE a == Min(solid)
           m == Max(solid)
<1>4. /\ a \in 1 .. Len(s) /\ m \in 1 .. Len(s) /\ a <= m
      /\ s[a] \notin Whitespace /\ s[m] \notin Whitespace
      /\ \A k \in 1 .. Len(s) : s[k] \notin Whitespace => a <= k /\ m >= k
  BY <1>2, <1>3
<1> HIDE DEF a, m, solid
<1>5. Ends(s, a, m)
  <2>1. m \in a .. Len(s)
    BY <1>1, <1>4
  <2>2. ASSUME NEW k \in 1 .. a - 1 PROVE s[k] \in Whitespace
    <3>1. k \in 1 .. Len(s) /\ ~(a <= k)
      BY <1>1, <1>4
    <3> QED
      BY <1>4, <3>1
  <2>3. ASSUME NEW k \in m + 1 .. Len(s) PROVE s[k] \in Whitespace
    <3>1. k \in 1 .. Len(s) /\ ~(m >= k)
      BY <1>1, <1>4
    <3> QED
      BY <1>4, <3>1
  <2> QED
    BY <1>4, <2>1, <2>2, <2>3 DEF Ends
<1> QED
  BY <1>4, <1>5

\* Characters of a value that are not escaped take one place each.
LEMMA PlainRun ==
    ASSUME NEW v \in Seq(Chars), NEW a \in 0 .. Len(v), NEW b \in a .. Len(v),
           \A j \in a + 1 .. b : ~Quoted(v, j)
    PROVE  \A m \in a .. b : Offsets(v)[m] = Offsets(v)[a] + (m - a)
<1> DEFINE off == Offsets(v)
           S == {k \in Nat : a + k <= b => off[a + k] = off[a] + k}
<1>1. IsOffsets(v, off) /\ Len(v) \in Nat /\ a \in Nat /\ b \in Nat /\ b <= Len(v)
  BY ValueText
<1>2. off[a] \in Nat
  BY <1>1 DEF IsOffsets
<1>3. 0 \in S
  BY <1>1, <1>2
<1>4. ASSUME NEW k \in Nat, k \in S PROVE k + 1 \in S
  <2> SUFFICES ASSUME a + (k + 1) <= b PROVE off[a + (k + 1)] = off[a] + (k + 1)
    OBVIOUS
  <2> DEFINE u == a + (k + 1)
  <2>1. u \in 1 .. Len(v) /\ u \in a + 1 .. b /\ u - 1 = a + k /\ a + k <= b
    BY <1>1
  <2>2. off[a + k] = off[a] + k
    BY <1>4, <2>1
  <2> HIDE DEF u
  <2>3. off[u] = off[u - 1] + 1
    BY <2>1, UnitFacts
  <2> HIDE DEF off
  <2>4. off[u] = off[a] + (k + 1)
    BY <1>2, <2>1, <2>2, <2>3
  <2> QED
    BY <2>4 DEF u
<1>5. Nat \subseteq S
  <2> HIDE DEF S
  <2> QED
    BY <1>3, <1>4, Induction
<1>6. ASSUME NEW m \in a .. b PROVE off[m] = off[a] + (m - a)
  <2> DEFINE k == m - a
  <2>1. k \in Nat /\ a + k = m /\ a + k <= b
    BY <1>1
  <2> HIDE DEF k, off
  <2>2. off[a + k] = off[a] + k
    BY <1>5, <2>1 DEF off
  <2> QED
    BY <2>1, <2>2 DEF k
<1> QED
  BY <1>6

-----------------------------------------------------------------------------
(* The value, bare of white space, can be read off its trimmed text.       *)

\* The character, and the width, of the unit at p.
CharAt(t, p) ==
    IF t[p] # "backslash" THEN t[p]
    ELSE IF p + 1 <= Len(t) THEN t[p + 1]
    ELSE "space"
WidthAt(t, p) == IF t[p] = "backslash" THEN 2 ELSE 1

\* w is what t says, unit by unit; pos[u] characters hold the first u of them.
IsReading(w, t, pos) ==
    /\ w \in Seq(Chars)
    /\ pos[0] = 0
    /\ pos[Len(w)] \in Nat /\ pos[Len(w)] >= Len(t)
    /\ \A u \in 1 .. Len(w) :
           /\ pos[u - 1] + 1 \in 1 .. Len(t)
           /\ pos[u] = pos[u - 1] + WidthAt(t, pos[u - 1] + 1)
           /\ w[u] = CharAt(t, pos[u - 1] + 1)

\* Two readings of one text keep in step.
LEMMA InStep ==
    ASSUME NEW t \in Seq(Chars), NEW v, NEW a, IsReading(v, t, a),
           NEW w, NEW b, IsReading(w, t, b),
           NEW m \in Nat, m <= Len(v), m <= Len(w)
    PROVE  a[m] = b[m]
<1> DEFINE S == {k \in Nat : (k <= Len(v) /\ k <= Len(w)) => a[k] = b[k]}
<1>0. Len(v) \in Nat /\ Len(w) \in Nat
  BY DEF IsReading
<1>1. 0 \in S
  BY DEF IsReading
<1>2. ASSUME NEW k \in Nat, k \in S PROVE k + 1 \in S
  <2> SUFFICES ASSUME k + 1 <= Len(v), k + 1 <= Len(w) PROVE a[k + 1] = b[k + 1]
    OBVIOUS
  <2> DEFINE u == k + 1
  <2>1. u \in 1 .. Len(v) /\ u \in 1 .. Len(w) /\ u - 1 = k
    BY <1>0
  <2>2. k <= Len(v) /\ k <= Len(w)
    BY <1>0
  <2>3. a[k] = b[k]
    BY <1>2, <2>2
  <2> HIDE DEF u
  <2>4. a[u] = a[u - 1] + WidthAt(t, a[u - 1] + 1)
    BY <2>1 DEF IsReading
  <2>5. b[u] = b[u - 1] + WidthAt(t, b[u - 1] + 1)
    BY <2>1 DEF IsReading
  <2>6. a[u] = b[u]
    BY <2>1, <2>3, <2>4, <2>5
  <2> QED
    BY <2>6 DEF u
<1>3. m \in S
  <2> HIDE DEF S
  <2>1. Nat \subseteq S
    BY <1>1, <1>2, Induction
  <2> QED
    BY <2>1
<1> QED
  BY <1>3

LEMMA NoLonger ==
    ASSUME NEW t \in Seq(Chars), NEW v, NEW a, IsReading(v, t, a),
           NEW w, NEW b, IsReading(w, t, b)
    PROVE  ~(Len(v) < Len(w))
<1> SUFFICES ASSUME Len(v) < Len(w) PROVE FALSE
  OBVIOUS
<1> DEFINE m == Len(v)
           u == m + 1
<1>1. m \in Nat /\ m <= Len(v) /\ m <= Len(w) /\ u \in 1 .. Len(w) /\ u - 1 = m
  BY DEF IsReading
<1>2. a[m] = b[m]
  BY <1>1, InStep
<1>3. a[m] \in Nat /\ a[m] >= Len(t)
  BY DEF IsReading
<1> HIDE DEF u, m
<1>4. b[u - 1] + 1 \in 1 .. Len(t)
  BY <1>1 DEF IsReading
<1> QED
  BY <1>1, <1>2, <1>3, <1>4

LEMMA OneReading ==
    ASSUME NEW t \in Seq(Chars), NEW v, NEW a, IsReading(v, t, a),
           NEW w, NEW b, IsReading(w, t, b)
    PROVE  v = w
<1>0. v \in Seq(Chars) /\ w \in Seq(Chars)
  BY DEF IsReading
<1>1. Len(v) = Len(w)
  <2>1. ~(Len(v) < Len(w)) /\ ~(Len(w) < Len(v))
    BY NoLonger
  <2> QED
    BY <1>0, <2>1
<1>2. ASSUME NEW u \in 1 .. Len(v) PROVE v[u] = w[u]
  <2>1. u - 1 \in Nat /\ u - 1 <= Len(v) /\ u - 1 <= Len(w) /\ u \in 1 .. Len(w)
    BY <1>0, <1>1
  <2>2. a[u - 1] = b[u - 1]
    BY <2>1, InStep
  <2>3. v[u] = CharAt(t, a[u - 1] + 1)
    BY DEF IsReading
  <2>4. w[u] = CharAt(t, b[u - 1] + 1)
    BY <2>1 DEF IsReading
  <2> QED
    BY <2>2, <2>3, <2>4
<1> QED
  BY <1>0, <1>1, <1>2, SeqEqual

\* What trimming the text of a value cannot take away.
Firm(v, j) == v[j] \notin Whitespace \/ Quoted(v, j)

\* A value begins firmly at a and ends firmly at b.
Core(v, a, b) ==
    /\ a \in 1 .. Len(v) /\ b \in 1 .. Len(v) /\ a <= b
    /\ Firm(v, a) /\ Firm(v, b)
    /\ \A k \in 1 .. a - 1 : ~Firm(v, k)
    /\ \A k \in b + 1 .. Len(v) : ~Firm(v, k)

LEMMA BareShape ==
    ASSUME NEW v \in Seq(Chars)
    PROVE  \/ Bare(v) = <<>> /\ \A k \in 1 .. Len(v) : ~Firm(v, k)
           \/ \E a, b \in 1 .. Len(v) : Core(v, a, b) /\ Bare(v) = SubSeq(v, a, b)
<1> DEFINE solid == {j \in 1 .. Len(v) : v[j] \notin Whitespace \/ Quoted(v, j)}
<1>1. \A j \in 1 .. Len(v) : j \in solid <=> Firm(v, j)
  BY DEF Firm
<1>2. CASE solid = {}
  BY <1>1, <1>2 DEF Bare
<1>3. CASE solid # {}
  <2>1. Len(v) \in Nat /\ solid \subseteq Nat /\ solid \subseteq 0 .. Len(v)
        /\ solid \subseteq 1 .. Len(v)
    OBVIOUS
  <2>2. Min(solid) \in solid /\ \A k \in solid : Min(solid) <= k
    BY <1>3, <2>1, MinFacts
  <2>3. Max(solid) \in solid /\ \A k \in solid : Max(solid) >= k
    BY <1>3, <2>1, MaxFacts
  <2>4. Bare(v) = SubSeq(v, Min(solid), Max(solid))
    BY <1>3 DEF Bare
  <2> DEFINE a == Min(solid)
             b == Max(solid)
  <2> HIDE DEF solid
  <2>5. /\ a \in 1 .. Len(v) /\ b \in 1 .. Len(v) /\ a <= b
        /\ Firm(v, a) /\ Firm(v, b)
        /\ \A k \in 1 .. Len(v) : Firm(v, k) => a <= k /\ b >= k
    BY <1>1, <2>1, <2>2, <2>3
  <2> HIDE DEF a, b
  <2>6. ASSUME NEW k \in 1 .. a - 1 PROVE ~Firm(v, k)
    <3>1. k \in 1 .. Len(v) /\ ~(a <= k)
      BY <2>1, <2>5
    <3> QED
      BY <2>5, <3>1
  <2>7. ASSUME NEW k \in b + 1 .. Len(v) PROVE ~Firm(v, k)
    <3>1. k \in 1 .. Len(v) /\ ~(b >= k)
      BY <2>1, <2>5
    <3> QED
      BY <2>5, <3>1
  <2>8. Core(v, a, b)
    BY <2>5, <2>6, <2>7 DEF Core
  <2> QED
    BY <2>4, <2>5, <2>8 DEF a, b
<1> QED
  BY <1>2, <1>3

LEMMA OffsetsGrow ==
    ASSUME NEW v \in Seq(Chars), NEW x \in 0 .. Len(v), NEW y \in x .. Len(v)
    PROVE  /\ Offsets(v)[x] \in Nat /\ Offsets(v)[y] \in Nat
           /\ Offsets(v)[x] <= Offsets(v)[y]
<1> DEFINE off == Offsets(v)
           S == {k \in Nat : x + k <= Len(v) => off[x] <= off[x + k]}
<1>1. IsOffsets(v, off) /\ Len(v) \in Nat /\ x \in Nat /\ y \in Nat /\ y <= Len(v)
  BY ValueText
<1>2. \A m \in 0 .. Len(v) : off[m] \in Nat
  BY <1>1 DEF IsOffsets
<1>3. x \in 0 .. Len(v) /\ y \in 0 .. Len(v) /\ y - x \in Nat /\ x + (y - x) = y
  BY <1>1
<1>4. 0 \in S
  BY <1>1, <1>2
<1>5. ASSUME NEW k \in Nat, k \in S PROVE k + 1 \in S
  <2> SUFFICES ASSUME x + (k + 1) <= Len(v) PROVE off[x] <= off[x + (k + 1)]
    OBVIOUS
  <2> DEFINE u == x + (k + 1)
  <2>1. u \in 1 .. Len(v) /\ u - 1 = x + k /\ x + k <= Len(v)
        /\ u \in 0 .. Len(v) /\ u - 1 \in 0 .. Len(v)
    BY <1>1
  <2>2. off[x] <= off[x + k]
    BY <1>5, <2>1
  <2> HIDE DEF u
  <2>3. off[u] = off[u - 1] + 1 \/ off[u] = off[u - 1] + 2
    BY <2>1, UnitFacts
  <2>4. off[u] \in Nat /\ off[u - 1] \in Nat /\ off[x] \in Nat
    BY <1>2, <1>3, <2>1
  <2> HIDE DEF off
  <2>5. off[x] <= off[u]
    BY <2>1, <2>2, <2>3, <2>4
  <2> QED
    BY <2>5 DEF u
<1>6. Nat \subseteq S
  <2> HIDE DEF S
  <2> QED
    BY <1>4, <1>5, Induction
<1>7. off[x] <= off[y]
  <2> DEFINE k == y - x
  <2>1. k \in Nat /\ x + k = y /\ x + k <= Len(v)
    BY <1>1, <1>3
  <2> HIDE DEF k, off
  <2>2. off[x] <= off[x + k]
    BY <1>6, <2>1 DEF off
  <2> QED
    BY <2>1, <2>2
<1> QED
  BY <1>2, <1>3, <1>7

\* Where the text of a value ends when it is trimmed: an escaped space at the
\* end of the value leaves its backslash.
TrimmedEnd(v, b) ==
    IF v[b] \in Whitespace THEN Offsets(v)[b] - 1 ELSE Offsets(v)[b]

LEMMA BareText ==
    ASSUME NEW v \in Seq(Chars), NEW a, NEW b, Core(v, a, b)
    PROVE  /\ Ends(encode_value(v), a, TrimmedEnd(v, b))
           /\ Offsets(v)[a - 1] = a - 1
           /\ TrimmedEnd(v, b) >= Offsets(v)[b - 1] + 1
           /\ v[b] \in Whitespace => Quoted(v, b)
<1> DEFINE off == Offsets(v)
           e == encode_value(v)
           N == Len(v)
           M == TrimmedEnd(v, b)
<1>1. /\ e \in Seq(Chars) /\ Len(e) \in Nat /\ N \in Nat
      /\ off[0] = 0 /\ off[N] = Len(e)
  BY ValueText DEF IsOffsets
<1>2. /\ a \in 1 .. N /\ b \in 1 .. N /\ a <= b /\ a \in Nat /\ b \in Nat
      /\ a - 1 \in 0 .. N /\ b - 1 \in 0 .. N /\ b \in 0 .. N
      /\ b - 1 \in a - 1 .. N /\ N \in b .. N /\ a - 1 \in 0 .. N /\ 0 \in 0 .. N
  BY <1>1 DEF Core
<1>3. /\ \A k \in 1 .. a - 1 : ~Quoted(v, k) /\ v[k] \in Whitespace
      /\ \A k \in b + 1 .. N : ~Quoted(v, k) /\ v[k] \in Whitespace
      /\ v[a] \notin Whitespace \/ Quoted(v, a)
      /\ v[b] \in Whitespace => Quoted(v, b)
  BY DEF Core, Firm
<1>4. \A m \in 0 .. a - 1 : off[m] = m
  <2>1. 0 \in 0 .. N /\ a - 1 \in 0 .. N /\ \A j \in 0 + 1 .. a - 1 : ~Quoted(v, j)
    BY <1>2, <1>3
  <2>2. \A m \in 0 .. a - 1 : off[m] = off[0] + (m - 0)
    BY <2>1, PlainRun
  <2> HIDE DEF off
  <2> QED
    BY <1>1, <1>2, <2>2
<1>5. \A m \in b .. N : off[m] = off[b] + (m - b)
  BY <1>2, <1>3, PlainRun
<1>6. off[a - 1] = a - 1 /\ off[a - 1] <= off[b - 1] /\ off[b - 1] \in Nat
  BY <1>2, <1>4, OffsetsGrow
<1>7. /\ off[b] \in Nat /\ off[b] <= Len(e)
      /\ Quoted(v, b) => /\ off[b] = off[b - 1] + 2
                         /\ e[off[b - 1] + 1] = "backslash"
                         /\ e[off[b - 1] + 2] = v[b]
      /\ ~Quoted(v, b) => off[b] = off[b - 1] + 1 /\ e[off[b - 1] + 1] = v[b]
  BY <1>2, UnitFacts
<1>8. Len(e) = off[b] + (N - b)
  BY <1>1, <1>2, <1>5
<1>9. e[a] \notin Whitespace
  <2>1. /\ Quoted(v, a) => e[off[a - 1] + 1] = "backslash"
        /\ ~Quoted(v, a) => e[off[a - 1] + 1] = v[a]
    BY <1>2, UnitFacts
  <2>2. off[a - 1] + 1 = a
    BY <1>2, <1>6
  <2> HIDE DEF e, off
  <2> QED
    BY <1>3, <2>1, <2>2 DEF Whitespace
<1>10. ASSUME NEW k \in 1 .. a - 1 PROVE e[k] \in Whitespace
  <2>1. k \in 1 .. N /\ k - 1 \in 0 .. a - 1 /\ (k - 1) + 1 = k
    BY <1>2
  <2>2. e[off[k - 1] + 1] = v[k]
    BY <1>3, <2>1, UnitFacts
  <2>3. off[k - 1] = k - 1
    BY <1>4, <2>1
  <2> HIDE DEF e, off
  <2> QED
    BY <1>3, <2>1, <2>2, <2>3
<1>11. ASSUME NEW k \in off[b] + 1 .. Len(e) PROVE e[k] \in Whitespace
  <2> DEFINE u == b + (k - off[b])
  <2>1. /\ u \in 1 .. N /\ u \in b + 1 .. N /\ u - 1 \in b .. N
        /\ off[b] + ((u - 1) - b) + 1 = k
    <3> DEFINE x == off[b]
               y == Len(e)
    <3>1. x \in Nat /\ y = x + (N - b) /\ b \in Nat /\ N \in Nat /\ 1 <= b /\ b <= N
          /\ k \in x + 1 .. y /\ u = b + (k - x)
      BY <1>1, <1>2, <1>7, <1>8
    <3> HIDE DEF off, e, N, x, y, u
    <3>2. /\ u \in 1 .. N /\ u \in b + 1 .. N /\ u - 1 \in b .. N
          /\ x + ((u - 1) - b) + 1 = k
      BY <3>1
    <3> QED
      BY <3>2 DEF x
  <2> HIDE DEF u
  <2>2. e[off[u - 1] + 1] = v[u]
    BY <1>3, <2>1, UnitFacts
  <2>3. off[u - 1] = off[b] + ((u - 1) - b)
    BY <1>5, <2>1
  <2> HIDE DEF e, off
  <2> QED
    BY <1>3, <2>1, <2>2, <2>3
<1> HIDE DEF e, off, N
<1>12. CASE v[b] \in Whitespace
  <2>1. M = off[b] - 1
    BY <1>12 DEF TrimmedEnd, off
  <2>2. /\ off[b] = off[b - 1] + 2 /\ e[off[b - 1] + 1] = "backslash"
        /\ e[off[b - 1] + 2] = v[b]
    BY <1>3, <1>7, <1>12
  <2> HIDE DEF M
  <2>3. /\ M = off[b - 1] + 1 /\ M \in Nat /\ M >= a /\ M <= Len(e)
        /\ off[b] = M + 1
    <3> DEFINE x == off[b - 1]
               y == off[b]
               z == Len(e)
    <3>1. /\ x \in Nat /\ y = x + 2 /\ y <= z /\ z \in Nat /\ M = y - 1
          /\ a \in Nat /\ a - 1 <= x
      BY <1>1, <1>2, <1>6, <1>7, <2>1, <2>2
    <3> HIDE DEF x, y, z
    <3>2. M = x + 1 /\ M \in Nat /\ M >= a /\ M <= z /\ y = M + 1
      BY <3>1
    <3> QED
      BY <3>2 DEF x, y, z
  <2>4. e[M] \notin Whitespace
    BY <2>2, <2>3 DEF Whitespace
  <2>5. ASSUME NEW k \in M + 1 .. Len(e) PROVE e[k] \in Whitespace
    <3>1. k = off[b] \/ k \in off[b] + 1 .. Len(e)
      BY <1>1, <2>3
    <3>2. off[b] = off[b - 1] + 2
      BY <2>2
    <3> QED
      BY <1>11, <1>12, <2>2, <3>1, <3>2
  <2>6. a \in 1 .. Len(e) /\ M \in a .. Len(e)
    BY <1>1, <1>2, <2>3
  <2>7. Ends(e, a, M)
    BY <1>9, <1>10, <2>4, <2>5, <2>6 DEF Ends
  <2>8. M >= off[b - 1] + 1
    BY <1>6, <2>3
  <2> QED
    BY <1>3, <1>6, <2>7, <2>8 DEF e, off, M
<1>13. CASE v[b] \notin Whitespace
  <2>1. M = off[b]
    BY <1>13 DEF TrimmedEnd, off
  <2> HIDE DEF M
  <2>2. /\ e[M] = v[b] /\ M \in Nat /\ M >= off[b - 1] + 1 /\ M >= a /\ M <= Len(e)
    <3> DEFINE x == off[b - 1]
               z == Len(e)
    <3>1. /\ M = x + 1 \/ M = x + 2
          /\ e[M] = v[b]
      <4>1. CASE Quoted(v, b)
        BY <1>7, <2>1, <4>1
      <4>2. CASE ~Quoted(v, b)
        BY <1>7, <2>1, <4>2
      <4> QED
        BY <4>1, <4>2
    <3>2. x \in Nat /\ a \in Nat /\ a - 1 <= x
      BY <1>2, <1>6, <1>7
    <3>3. z \in Nat /\ M <= z
      BY <1>1, <1>7, <2>1
    <3> HIDE DEF x, z
    <3>4. M \in Nat /\ M >= x + 1 /\ M >= a
      BY <3>1, <3>2
    <3> QED
      BY <3>1, <3>3, <3>4 DEF x, z
  <2>3. a \in 1 .. Len(e) /\ M \in a .. Len(e)
    BY <1>1, <1>2, <2>2
  <2>4. Ends(e, a, M)
    BY <1>9, <1>10, <1>11, <1>13, <2>1, <2>2, <2>3 DEF Ends
  <2> QED
    BY <1>3, <1>6, <2>2, <2>4 DEF e, off, M
<1> QED
  BY <1>12, <1>13

\* A value of white space only, none of it escaped, has such a text.
LEMMA BlankText ==
    ASSUME NEW v \in Seq(Chars), \A k \in 1 .. Len(v) : ~Firm(v, k)
    PROVE  trim(encode_value(v)) = <<>>
<1> DEFINE off == Offsets(v)
           e == encode_value(v)
           N == Len(v)
<1>1. N \in Nat /\ off[0] = 0 /\ off[N] = Len(e)
  BY ValueText DEF IsOffsets
<1>2. 0 \in 0 .. N /\ N \in 0 .. N /\ \A j \in 0 + 1 .. N : ~Quoted(v, j)
  BY <1>1 DEF Firm
<1>3. \A m \in 0 .. N : off[m] = off[0] + (m - 0)
  BY <1>2, PlainRun
<1>4. \A m \in 0 .. N : off[m] = m
  <2> HIDE DEF off, N
  <2> QED
    BY <1>1, <1>3
<1>5. Len(e) = N
  BY <1>1, <1>4
<1>6. ASSUME NEW k \in 1 .. Len(e) PROVE e[k] \in Whitespace
  <2>1. k \in 1 .. N /\ k - 1 \in 0 .. N /\ (k - 1) + 1 = k
    BY <1>1, <1>5
  <2>2. ~Quoted(v, k) /\ v[k] \in Whitespace
    BY <2>1 DEF Firm
  <2>3. e[off[k - 1] + 1] = v[k]
    BY <2>1, <2>2, UnitFacts
  <2>4. off[k - 1] = k - 1
    BY <1>4, <2>1
  <2> HIDE DEF e, off
  <2> QED
    BY <2>1, <2>2, <2>3, <2>4
<1> QED
  BY <1>6, TrimSpaces

\* The character v[j] of the core stands where the reading of the trimmed text
\* comes to it.
LEMMA UnitReadable ==
    ASSUME NEW v \in Seq(Chars), NEW a, NEW b, Core(v, a, b), NEW j \in a .. b
    PROVE  LET off == Offsets(v)
               t == trim(encode_value(v))
               p == off[j - 1] - (a - 1) + 1
           IN /\ p \in 1 .. Len(t)
              /\ off[j] = off[j - 1] + WidthAt(t, p)
              /\ v[j] = CharAt(t, p)
<1> DEFINE off == Offsets(v)
           e == encode_value(v)
           t == trim(e)
           M == TrimmedEnd(v, b)
           p == off[j - 1] - (a - 1) + 1
<1>1. e \in Seq(Chars) /\ Len(e) \in Nat /\ Len(v) \in Nat
  BY ValueText
<1>2. /\ Ends(e, a, M) /\ off[a - 1] = a - 1 /\ M >= off[b - 1] + 1
      /\ v[b] \in Whitespace => Quoted(v, b)
  BY BareText
<1>3. a \in 1 .. Len(e) /\ M \in a .. Len(e)
  BY <1>2 DEF Ends
<1>4. t = SubSeq(e, a, M)
  BY <1>1, <1>2, TrimMiddle
<1> DEFINE z == M - a + 1
<1>5. Len(t) = z /\ \A q \in 1 .. z : t[q] = e[a + (q - 1)]
  <2> HIDE DEF e, M, t
  <2> QED
    BY <1>1, <1>3, <1>4, SubSeqMiddle
<1>6. /\ a \in Nat \ {0} /\ b \in Nat /\ b <= Len(v) /\ a <= j /\ j <= b /\ j \in Nat
      /\ j \in 1 .. Len(v) /\ b \in 1 .. Len(v)
      /\ a - 1 \in 0 .. Len(v) /\ j - 1 \in a - 1 .. Len(v)
      /\ j - 1 \in 0 .. Len(v) /\ b - 1 \in j - 1 .. Len(v)
  BY <1>1 DEF Core
<1>7. off[a - 1] <= off[j - 1] /\ off[j - 1] <= off[b - 1]
      /\ off[j - 1] \in Nat /\ off[b - 1] \in Nat
  BY <1>6, OffsetsGrow
<1>8. /\ off[j] \in Nat
      /\ Quoted(v, j) => off[j] = off[j - 1] + 2 /\ e[off[j - 1] + 1] = "backslash"
                          /\ e[off[j - 1] + 2] = v[j]
      /\ ~Quoted(v, j) => off[j] = off[j - 1] + 1 /\ e[off[j - 1] + 1] = v[j]
                           /\ v[j] \notin {"comma", "backslash"}
  BY <1>6, UnitFacts
<1>9. /\ off[b] \in Nat
      /\ off[b] = off[b - 1] + 2 \/ off[b] = off[b - 1] + 1
      /\ M = off[b] \/ (M = off[b] - 1 /\ v[b] \in Whitespace)
  BY <1>6, UnitFacts DEF TrimmedEnd
<1>10. j # b => off[j] <= off[b - 1]
  <2> SUFFICES ASSUME j # b PROVE off[j] <= off[b - 1]
    OBVIOUS
  <2>1. j \in 0 .. Len(v) /\ b - 1 \in j .. Len(v)
    BY <1>1, <1>6
  <2> QED
    BY <2>1, OffsetsGrow
<1>11. v[b] \in Whitespace => v[b] = "space"
  BY <1>2 DEF Quoted, Special, Whitespace
<1> HIDE DEF off, e, t, M
<1> DEFINE x == off[j - 1]
<1>12. M \in Nat
  BY <1>1, <1>3, <1>6
<1>13. /\ p \in 1 .. z /\ a + (p - 1) = x + 1 /\ z \in Nat
       /\ p + 1 <= z => p + 1 \in 1 .. z /\ a + ((p + 1) - 1) = x + 2
       /\ ~(p + 1 <= z) => x + 1 = M
  <2>1. x \in Nat /\ a - 1 <= x /\ x + 1 <= M
    BY <1>2, <1>6, <1>7, <1>12
  <2> HIDE DEF x
  <2>2. p = x - (a - 1) + 1
    BY DEF x
  <2> HIDE DEF p
  <2> QED
    BY <1>6, <1>12, <2>1, <2>2
<1>14. t[p] = e[x + 1]
  BY <1>5, <1>13
<1>15. CASE ~Quoted(v, j)
  <2> HIDE DEF p, z
  <2>1. t[p] = v[j] /\ v[j] # "backslash" /\ off[j] = x + 1
    BY <1>8, <1>14, <1>15
  <2>2. WidthAt(t, p) = 1 /\ CharAt(t, p) = v[j]
    BY <2>1 DEF WidthAt, CharAt
  <2>3. p \in 1 .. Len(t)
    BY <1>5, <1>13
  <2> QED
    BY <2>1, <2>2, <2>3 DEF p, x, t, e, off
<1>16. CASE Quoted(v, j)
  <2>1. t[p] = "backslash" /\ off[j] = x + 2 /\ e[x + 2] = v[j]
    <3> HIDE DEF p
    <3> QED
      BY <1>8, <1>14, <1>16
  <2>2. ASSUME p + 1 <= Len(t) PROVE t[p + 1] = v[j]
    <3>1. p + 1 \in 1 .. z /\ a + ((p + 1) - 1) = x + 2
      BY <1>5, <1>13, <2>2
    <3> HIDE DEF p, x, z
    <3> QED
      BY <1>5, <2>1, <3>1
  <2>3. ASSUME ~(p + 1 <= Len(t)) PROVE v[j] = "space"
    <3>1. x + 1 = M
      BY <1>5, <1>13, <2>3
    <3>2. j = b
      <4> SUFFICES ASSUME j # b PROVE FALSE
        OBVIOUS
      <4>1. x + 2 <= off[b - 1] /\ M >= off[b - 1] + 1 /\ x \in Nat
            /\ off[b - 1] \in Nat
        BY <1>2, <1>7, <1>10, <2>1
      <4> HIDE DEF x
      <4> QED
        BY <1>12, <3>1, <4>1
    <3>3. M # off[b]
      <4>1. off[b] = x + 2 /\ x \in Nat
        BY <1>7, <2>1, <3>2
      <4> HIDE DEF x
      <4> QED
        BY <3>1, <4>1
    <3> QED
      BY <1>9, <1>11, <3>2, <3>3
  <2> HIDE DEF p
  <2>4. WidthAt(t, p) = 2 /\ CharAt(t, p) = v[j]
    BY <2>1, <2>2, <2>3 DEF WidthAt, CharAt
  <2>5. p \in 1 .. Len(t)
    BY <1>5, <1>13
  <2> QED
    BY <2>1, <2>4, <2>5 DEF p, x, t, e, off
<1> QED
  BY <1>15, <1>16

LEMMA BareReading ==
    ASSUME NEW v \in Seq(Chars)
    PROVE  \E pos : IsReading(Bare(v), trim(encode_value(v)), pos)
<1> DEFINE off == Offsets(v)
           e == encode_value(v)
           t == trim(e)
<1>1. CASE Bare(v) = <<>> /\ \A k \in 1 .. Len(v) : ~Firm(v, k)
  <2> DEFINE pos == [m \in {0} |-> 0]
  <2>1. t = <<>>
    BY <1>1, BlankText
  <2>2. <<>> \in Seq(Chars) /\ Len(<<>>) = 0 /\ 1 .. 0 = {} /\ pos[0] = 0
    OBVIOUS
  <2> HIDE DEF pos, t
  <2>3. IsReading(<<>>, <<>>, pos)
    BY <2>2 DEF IsReading
  <2> QED
    BY <1>1, <2>1, <2>3 DEF t
<1>2. ASSUME NEW a \in 1 .. Len(v), NEW b \in 1 .. Len(v),
             Core(v, a, b), Bare(v) = SubSeq(v, a, b)
      PROVE  \E pos : IsReading(Bare(v), t, pos)
  <2> DEFINE M == TrimmedEnd(v, b)
             w == SubSeq(v, a, b)
             l == b - a + 1
             pos == [m \in 0 .. l |-> off[a - 1 + m] - (a - 1)]
  <2>1. /\ Ends(e, a, M) /\ off[a - 1] = a - 1
    BY <1>2, BareText
  <2>2. a <= b /\ b \in a .. Len(v) /\ Len(v) \in Nat /\ a \in Nat /\ b \in Nat
    BY <1>2 DEF Core
  <2>3. /\ w \in Seq(Chars) /\ Len(w) = l
        /\ \A k \in 1 .. l : w[k] = v[a + (k - 1)]
    BY <2>2, SubSeqMiddle
  <2>4. Len(t) = M - a + 1 /\ M \in Nat
    <3>1. e \in Seq(Chars) /\ Len(e) \in Nat
      BY ValueText
    <3>2. t = SubSeq(e, a, M)
      BY <2>1, <3>1, TrimMiddle
    <3>3. a \in 1 .. Len(e) /\ M \in a .. Len(e)
      BY <2>1 DEF Ends
    <3> HIDE DEF e, M, t
    <3>4. Len(t) = M - a + 1
      BY <3>1, <3>2, <3>3, SubSeqMiddle
    <3> QED
      BY <2>2, <3>1, <3>3, <3>4
  <2>5. /\ off[b] \in Nat /\ off[a - 1] <= off[b]
        /\ M = off[b] \/ M = off[b] - 1
    <3>1. a - 1 \in 0 .. Len(v) /\ b \in a - 1 .. Len(v)
      BY <2>2
    <3> QED
      BY <3>1, OffsetsGrow DEF TrimmedEnd
  <2>6. ASSUME NEW u \in 1 .. l
        PROVE  /\ pos[u - 1] + 1 \in 1 .. Len(t)
               /\ pos[u] = pos[u - 1] + WidthAt(t, pos[u - 1] + 1)
               /\ w[u] = CharAt(t, pos[u - 1] + 1)
    <3> DEFINE j == a + (u - 1)
               p == off[j - 1] - (a - 1) + 1
    <3>1. /\ j \in a .. b /\ u - 1 \in 0 .. l /\ u \in 0 .. l
          /\ a - 1 + (u - 1) = j - 1 /\ a - 1 + u = j
      BY <2>2
    <3>2. w[u] = v[j]
      BY <2>3
    <3>3. pos[u - 1] = off[j - 1] - (a - 1) /\ pos[u] = off[j] - (a - 1)
      BY <3>1
    <3> HIDE DEF j, pos
    <3>4. /\ p \in 1 .. Len(t)
          /\ off[j] = off[j - 1] + WidthAt(t, p)
          /\ v[j] = CharAt(t, p)
      BY <1>2, <3>1, UnitReadable
    <3>5. off[j - 1] \in Nat /\ WidthAt(t, p) \in Nat
      <4>1. j - 1 \in 0 .. Len(v) /\ Len(v) \in j - 1 .. Len(v)
        BY <2>2, <3>1
      <4> QED
        BY <4>1, OffsetsGrow DEF WidthAt
    <3> HIDE DEF off, t, w
    <3>6. pos[u - 1] + 1 = p
      BY <3>3
    <3> HIDE DEF p
    <3>7. off[j] - (a - 1) = (off[j - 1] - (a - 1)) + WidthAt(t, p)
      BY <2>2, <3>4, <3>5
    <3> QED
      BY <3>2, <3>3, <3>4, <3>6, <3>7
  <2>7. pos[0] = 0 /\ pos[l] = off[b] - (a - 1)
    <3>1. 0 \in 0 .. l /\ l \in 0 .. l /\ a - 1 + 0 = a - 1 /\ a - 1 + l = b
      BY <2>2
    <3>2. pos[0] = off[a - 1] - (a - 1) /\ pos[l] = off[b] - (a - 1)
      BY <3>1
    <3> HIDE DEF pos, off
    <3> QED
      BY <2>1, <2>2, <3>2
  <2> HIDE DEF pos, off, t, w, M
  <2>8. pos[l] \in Nat /\ pos[l] >= Len(t)
    BY <2>1, <2>2, <2>4, <2>5, <2>7
  <2>9. IsReading(w, t, pos)
    BY <2>3, <2>6, <2>7, <2>8 DEF IsReading
  <2> QED
    BY <1>2, <2>9 DEF w
<1> QED
  BY <1>1, <1>2, BareShape DEF t

LEMMA ValueFromText ==
    ASSUME NEW v \in Seq(Chars), NEW w \in Seq(Chars),
           trim(encode_value(v)) = trim(encode_value(w))
    PROVE  Bare(v) = Bare(w)
<1> DEFINE t == trim(encode_value(v))
<1>1. t \in Seq(Chars)
  BY ValueText, TrimType
<1>2. PICK a : IsReading(Bare(v), t, a)
  BY BareReading
<1>3. PICK b : IsReading(Bare(w), t, b)
  BY BareReading
<1> HIDE DEF t
<1> QED
  BY <1>1, <1>2, <1>3, OneReading

-----------------------------------------------------------------------------
(* Where the RDNs of a certificate stand in its text.                      *)

Consists(C, r, a, b, d, e) ==
    /\ r \in Seq(C)
    /\ Len(r) = Len(a) + Len(b) + Len(d) + Len(e)
    /\ \A j \in 1 .. Len(a) : r[j] = a[j]
    /\ \A j \in 1 .. Len(b) : r[Len(a) + j] = b[j]
    /\ \A j \in 1 .. Len(d) : r[Len(a) + Len(b) + j] = d[j]
    /\ \A j \in 1 .. Len(e) : r[Len(a) + Len(b) + Len(d) + j] = e[j]

LEMMA FourParts ==
    ASSUME NEW C, NEW a \in Seq(C), NEW b \in Seq(C), NEW d \in Seq(C),
           NEW e \in Seq(C)
    PROVE  Consists(C, a \o b \o d \o e, a, b, d, e)
<1> DEFINE x == a \o b
           y == x \o d
           z == y \o e
<1>1. /\ x \in Seq(C) /\ Len(a) \in Nat /\ Len(b) \in Nat
      /\ Len(x) = Len(a) + Len(b)
      /\ \A j \in 1 .. Len(a) : x[j] = a[j]
      /\ \A j \in 1 .. Len(b) : x[Len(a) + j] = b[j]
  BY ConcatFacts
<1>2. x \in Seq(C)
  BY <1>1
<1> HIDE DEF x
<1>3. /\ y \in Seq(C) /\ Len(d) \in Nat /\ Len(y) = Len(x) + Len(d)
      /\ \A j \in 1 .. Len(x) : y[j] = x[j]
      /\ \A j \in 1 .. Len(d) : y[Len(x) + j] = d[j]
  BY <1>2, ConcatFacts
<1>4. y \in Seq(C)
  BY <1>3
<1> HIDE DEF y
<1>5. /\ z \in Seq(C) /\ Len(e) \in Nat /\ Len(z) = Len(y) + Len(e)
      /\ \A j \in 1 .. Len(y) : z[j] = y[j]
      /\ \A j \in 1 .. Len(e) : z[Len(y) + j] = e[j]
  BY <1>4, ConcatFacts
<1> HIDE DEF z
<1>6. /\ Len(x) = Len(a) + Len(b) /\ Len(y) = Len(a) + Len(b) + Len(d)
      /\ Len(z) = Len(a) + Len(b) + Len(d) + Len(e)
  BY <1>1, <1>3, <1>5
<1>7. ASSUME NEW j \in 1 .. Len(a) PROVE z[j] = a[j]
  <2>1. j \in 1 .. Len(x) /\ j \in 1 .. Len(y)
    BY <1>1, <1>3
  <2> QED
    BY <1>1, <1>3, <1>5, <2>1
<1>8. ASSUME NEW j \in 1 .. Len(b) PROVE z[Len(a) + j] = b[j]
  <2>1. Len(a) + j \in 1 .. Len(x) /\ Len(a) + j \in 1 .. Len(y)
    BY <1>1, <1>3
  <2> QED
    BY <1>1, <1>3, <1>5, <2>1
<1>9. ASSUME NEW j \in 1 .. Len(d) PROVE z[Len(a) + Len(b) + j] = d[j]
  <2>1. Len(x) + j \in 1 .. Len(y)
    BY <1>1, <1>3
  <2>2. z[Len(x) + j] = d[j]
    BY <1>3, <1>5, <2>1
  <2> QED
    BY <1>6, <2>2
<1>10. ASSUME NEW j \in 1 .. Len(e) PROVE z[Len(a) + Len(b) + Len(d) + j] = e[j]
  BY <1>5, <1>6
<1> QED
  BY <1>5, <1>6, <1>7, <1>8, <1>9, <1>10 DEF z, y, x, Consists

\* RDN k begins at S[k]; its '=' stands behind its key, and the text of its
\* value behind that, up to the next comma or the end.
IsLayout(c, S) ==
    /\ S \in [1 .. Len(c) -> Nat \ {0}]
    /\ S[1] = 1
    /\ \A k \in 1 .. Len(c) :
           LET q == S[k] + Len(c[k].key)
               e == encode_value(c[k].value)
           IN /\ \A j \in 1 .. Len(c[k].key) : encode(c)[S[k] + (j - 1)] = c[k].key[j]
              /\ encode(c)[q] = "equals"
              /\ \A j \in 1 .. Len(e) : encode(c)[q + j] = e[j]
              /\ q + Len(e) <= Len(encode(c))
              /\ k = Len(c) => Len(encode(c)) = q + Len(e)
              /\ k # Len(c) => /\ q + Len(e) + 1 <= Len(encode(c))
                               /\ encode(c)[q + Len(e) + 1] = "comma"
                               /\ S[k + 1] = q + Len(e) + 2
Layout(c) == CHOOSE S : IsLayout(c, S)

LEMMA CertificateType ==
    ASSUME NEW c \in Certificates
    PROVE  /\ c \in Seq([key : Keys, value : Values]) /\ Len(c) \in Nat \ {0}
           /\ \A k \in 1 .. Len(c) :
                  /\ c[k].key \in Seq(Chars) /\ c[k].value \in Seq(Chars)
                  /\ c[k].value \in Values
                  /\ \A j \in 1 .. Len(c[k].key) :
                         c[k].key[j] \notin {"comma", "backslash", "equals"} \cup Whitespace
<1> DEFINE R == [key : Keys, value : Values]
<1>1. c \in Seq(R) /\ c # <<>>
  <2>1. PICK m \in 0 .. MaxRdns : c \in [1 .. m -> R]
    BY DEF Certificates, BoundedSeq, SeqOf
  <2>2. c # <<>>
    BY DEF Certificates
  <2> HIDE DEF R
  <2>3. m \in Nat
    BY HeaderAssumption
  <2>4. c \in Seq(R)
    BY <2>1, <2>3
  <2> QED
    BY <2>2, <2>4
<1>2. Len(c) \in Nat \ {0} /\ \A k \in 1 .. Len(c) : c[k] \in R
  <2> HIDE DEF R
  <2> QED
    BY <1>1
<1>3. ASSUME NEW k \in 1 .. Len(c)
      PROVE  /\ c[k].key \in Seq(Chars) /\ c[k].value \in Seq(Chars)
             /\ c[k].value \in Values
             /\ \A j \in 1 .. Len(c[k].key) :
                    c[k].key[j] \notin {"comma", "backslash", "equals"} \cup Whitespace
  <2> DEFINE P == Chars \ ({"comma", "backslash", "equals"} \cup Whitespace)
  <2>1. c[k].key \in Keys /\ c[k].value \in Values
    BY <1>2
  <2>2. c[k].key \in Seq(P) /\ c[k].value \in Seq(Chars)
    BY <2>1, HeaderAssumption
  <2>3. c[k].key \in Seq(Chars)
    <3>1. P \subseteq Chars
      OBVIOUS
    <3> HIDE DEF P
    <3> QED
      BY <2>2, <3>1, SeqMonotonic
  <2>4. \A j \in 1 .. Len(c[k].key) : c[k].key[j] \in P
    <3> HIDE DEF P
    <3> QED
      BY <2>2
  <2> QED
    BY <2>1, <2>2, <2>3, <2>4
<1> QED
  BY <1>1, <1>2, <1>3

Comma(k) == IF k = 1 THEN 0 ELSE 1

IsRdnText(r, s, key, e) ==
    /\ r \in Seq(Chars)
    /\ Len(r) = s + Len(key) + 1 + Len(e)
    /\ \A j \in 1 .. Len(key) : r[s + j] = key[j]
    /\ r[s + Len(key) + 1] = "equals"
    /\ \A j \in 1 .. Len(e) : r[s + Len(key) + 1 + j] = e[j]

LEMMA RdnText ==
    ASSUME NEW c \in Certificates, NEW k \in 1 .. Len(c)
    PROVE  /\ IsRdnText(encode_rdn(c, k), Comma(k), c[k].key, encode_value(c[k].value))
           /\ k # 1 => encode_rdn(c, k)[1] = "comma"
<1> DEFINE a == IF k = 1 THEN <<>> ELSE <<"comma">>
           key == c[k].key
           d == <<"equals">>
           e == encode_value(c[k].value)
           r == a \o key \o d \o e
<1>1. encode_rdn(c, k) = r
  BY DEF encode_rdn
<1>2. /\ a \in Seq(Chars) /\ Len(a) = Comma(k)
      /\ k # 1 => Len(a) = 1 /\ a[1] = "comma"
  BY HeaderAssumption DEF Comma
<1>3. d \in Seq(Chars) /\ Len(d) = 1 /\ d[1] = "equals"
  BY HeaderAssumption
<1>4. key \in Seq(Chars) /\ e \in Seq(Chars)
  BY CertificateType, ValueText
<1> HIDE DEF a, key, d, e
<1>5. /\ r \in Seq(Chars)
      /\ Len(r) = Len(a) + Len(key) + Len(d) + Len(e)
      /\ \A j \in 1 .. Len(a) : r[j] = a[j]
      /\ \A j \in 1 .. Len(key) : r[Len(a) + j] = key[j]
      /\ \A j \in 1 .. Len(d) : r[Len(a) + Len(key) + j] = d[j]
      /\ \A j \in 1 .. Len(e) : r[Len(a) + Len(key) + Len(d) + j] = e[j]
  <2>1. a \in Seq(Chars) /\ d \in Seq(Chars)
    BY <1>2, <1>3
  <2>2. Consists(Chars, r, a, key, d, e)
    BY <1>4, <2>1, FourParts
  <2> HIDE DEF r
  <2> QED
    BY <2>2 DEF Consists
<1> HIDE DEF r
<1>6. k # 1 => r[1] = "comma"
  <2>1. 1 \in 1 .. 1
    OBVIOUS
  <2> QED
    BY <1>2, <1>5, <2>1
<1>7. r[Len(a) + Len(key) + 1] = "equals"
  <2>1. 1 \in 1 .. 1
    OBVIOUS
  <2> QED
    BY <1>3, <1>5, <2>1
<1>8. /\ r \in Seq(Chars)
      /\ Len(r) = Comma(k) + Len(key) + 1 + Len(e)
      /\ \A j \in 1 .. Len(key) : r[Comma(k) + j] = key[j]
      /\ r[Comma(k) + Len(key) + 1] = "equals"
      /\ \A j \in 1 .. Len(e) : r[Comma(k) + Len(key) + 1 + j] = e[j]
  BY <1>2, <1>3, <1>5, <1>7
<1>9. IsRdnText(r, Comma(k), key, e)
  BY <1>8 DEF IsRdnText
<1> QED
  BY <1>1, <1>6, <1>9 DEF key, e

LEMMA CertificateText ==
    ASSUME NEW c \in Certificates
    PROVE  IsLayout(c, Layout(c)) /\ encode(c) \in Seq(Chars)
<1> DEFINE N == Len(c)
           ss == [k \in 1 .. N |-> encode_rdn(c, k)]
           t == encode(c)
           K(k) == Len(c[k].key)
           E(k) == Len(encode_value(c[k].value))
<1>1. N \in Nat \ {0} /\ \A k \in 1 .. N : K(k) \in Nat /\ E(k) \in Nat
  BY CertificateType, ValueText
<1>2. ss \in Seq(Seq(Chars)) /\ Len(ss) = N /\ \A k \in 1 .. N : ss[k] = encode_rdn(c, k)
  <2>1. \A k \in 1 .. N : encode_rdn(c, k) \in Seq(Chars)
    BY RdnText DEF IsRdnText
  <2> QED
    BY <1>1, <2>1
<1>3. t = FlattenSeq(ss)
  BY DEF encode
<1>4. \A k \in 1 .. N : Len(ss[k]) = Comma(k) + K(k) + 1 + E(k)
  BY <1>2, RdnText DEF IsRdnText
<1> HIDE DEF ss, t, N
<1>5. PICK off : Placed(Chars, ss, off)
  BY <1>2, FlattenFacts
<1>6. /\ off \in [0 .. N -> Nat] /\ off[0] = 0
      /\ \A k \in 1 .. N : /\ off[k] = off[k - 1] + Len(ss[k])
                           /\ off[k] <= off[N]
      /\ t \in Seq(Chars) /\ Len(t) = off[N]
      /\ \A k \in 1 .. N : \A p \in 1 .. Len(ss[k]) : t[off[k - 1] + p] = ss[k][p]
  BY <1>2, <1>3, <1>5 DEF Placed
<1> DEFINE S == [k \in 1 .. N |-> off[k - 1] + Comma(k) + 1]
<1>7. \A k \in 1 .. N : S[k] = off[k - 1] + Comma(k) + 1
  OBVIOUS
<1>8. \A k \in 1 .. N : Comma(k) \in Nat /\ off[k - 1] \in Nat /\ off[k] \in Nat
  <2>1. \A k \in 1 .. N : k - 1 \in 0 .. N /\ k \in 0 .. N
    BY <1>1
  <2> QED
    BY <1>6, <2>1 DEF Comma
<1>9. S \in [1 .. N -> Nat \ {0}] /\ S[1] = 1
  <2>1. \A k \in 1 .. N : off[k - 1] + Comma(k) + 1 \in Nat \ {0}
    BY <1>8
  <2>2. 1 \in 1 .. N /\ off[1 - 1] = 0 /\ Comma(1) = 0
    BY <1>1, <1>6 DEF Comma
  <2>3. S[1] = off[1 - 1] + Comma(1) + 1
    BY <1>7, <2>2
  <2> QED
    BY <2>1, <2>2, <2>3
<1> HIDE DEF S
<1>10. ASSUME NEW k \in 1 .. N
       PROVE  /\ \A j \in 1 .. K(k) : t[S[k] + (j - 1)] = c[k].key[j]
              /\ t[S[k] + K(k)] = "equals"
              /\ \A j \in 1 .. E(k) :
                     t[S[k] + K(k) + j] = encode_value(c[k].value)[j]
              /\ S[k] + K(k) + E(k) = off[k]
              /\ off[k] <= Len(t)
  <2> DEFINE o == off[k - 1]
             s == Comma(k)
             x == K(k)
             y == E(k)
             r == ss[k]
  <2>1. o \in Nat /\ s \in Nat /\ x \in Nat /\ y \in Nat
    BY <1>1, <1>8
  <2>2. S[k] = o + s + 1 /\ off[k] = o + (s + x + 1 + y) /\ Len(r) = s + x + 1 + y
    BY <1>4, <1>6, <1>7
  <2>3. \A p \in 1 .. Len(r) : t[o + p] = r[p]
    BY <1>6
  <2>4. /\ \A j \in 1 .. x : r[s + j] = c[k].key[j]
        /\ r[s + x + 1] = "equals"
        /\ \A j \in 1 .. y : r[s + x + 1 + j] = encode_value(c[k].value)[j]
    <3>1. IsRdnText(encode_rdn(c, k), s, c[k].key, encode_value(c[k].value))
      BY RdnText DEF N
    <3>2. IsRdnText(r, s, c[k].key, encode_value(c[k].value))
      BY <1>2, <3>1
    <3> HIDE DEF r, s
    <3> QED
      BY <3>2 DEF IsRdnText
  <2>5. off[k] <= Len(t)
    BY <1>6
  <2> HIDE DEF o, s, x, y, r
  <2>6. ASSUME NEW j \in 1 .. x PROVE t[S[k] + (j - 1)] = c[k].key[j]
    <3>1. s + j \in 1 .. Len(r) /\ S[k] + (j - 1) = o + (s + j)
      BY <2>1, <2>2
    <3> QED
      BY <2>3, <2>4, <3>1
  <2>7. t[S[k] + x] = "equals"
    <3>1. s + x + 1 \in 1 .. Len(r) /\ S[k] + x = o + (s + x + 1)
      BY <2>1, <2>2
    <3> QED
      BY <2>3, <2>4, <3>1
  <2>8. ASSUME NEW j \in 1 .. y
        PROVE  t[S[k] + x + j] = encode_value(c[k].value)[j]
    <3>1. s + x + 1 + j \in 1 .. Len(r) /\ S[k] + x + j = o + (s + x + 1 + j)
      BY <2>1, <2>2
    <3> QED
      BY <2>3, <2>4, <3>1
  <2>9. S[k] + x + y = off[k]
    BY <2>1, <2>2
  <2> QED
    BY <2>5, <2>6, <2>7, <2>8, <2>9 DEF x, y
<1>11. ASSUME NEW k \in 1 .. N, k # N
       PROVE  /\ off[k] + 1 <= Len(t) /\ t[off[k] + 1] = "comma"
              /\ S[k + 1] = off[k] + 2
  <2> DEFINE l == k + 1
  <2>1. l \in 1 .. N /\ l # 1 /\ l - 1 = k /\ Comma(l) = 1
    BY <1>1, <1>11 DEF Comma
  <2> HIDE DEF l
  <2>2. Len(ss[l]) = 1 + K(l) + 1 + E(l) /\ K(l) \in Nat /\ E(l) \in Nat
    BY <1>1, <1>4, <2>1
  <2>3. ss[l][1] = "comma"
    BY <1>2, <2>1, RdnText DEF N
  <2>4. 1 \in 1 .. Len(ss[l]) /\ Len(ss[l]) >= 1 /\ Len(ss[l]) \in Nat
    <3> DEFINE x == K(l)
               y == E(l)
    <3>1. x \in Nat /\ y \in Nat /\ Len(ss[l]) = 1 + x + 1 + y
      BY <2>2
    <3> HIDE DEF x, y
    <3> QED
      BY <3>1
  <2>5. t[off[k] + 1] = "comma"
    BY <1>6, <2>1, <2>3, <2>4
  <2>6. off[l] = off[k] + Len(ss[l]) /\ off[l] <= Len(t) /\ Len(t) \in Nat
    BY <1>6, <2>1
  <2>7. off[k] \in Nat /\ off[l] \in Nat
    BY <1>8, <2>1
  <2>8. off[k] + 1 <= Len(t)
    BY <2>4, <2>6, <2>7
  <2>9. S[l] = off[k] + 2
    BY <1>7, <2>1, <2>7
  <2> QED
    BY <2>5, <2>8, <2>9 DEF l
<1>12. N \in 1 .. N /\ Len(t) = off[N]
  BY <1>1, <1>6
<1>13. IsLayout(c, S)
  <2>1. ASSUME NEW k \in 1 .. N
        PROVE  LET q == S[k] + K(k)
               IN /\ \A j \in 1 .. K(k) : t[S[k] + (j - 1)] = c[k].key[j]
                  /\ t[q] = "equals"
                  /\ \A j \in 1 .. E(k) : t[q + j] = encode_value(c[k].value)[j]
                  /\ q + E(k) <= Len(t)
                  /\ k = N => Len(t) = q + E(k)
                  /\ k # N => /\ q + E(k) + 1 <= Len(t)
                              /\ t[q + E(k) + 1] = "comma"
                              /\ S[k + 1] = q + E(k) + 2
    <3> DEFINE q == S[k] + K(k)
               y == E(k)
    <3>1. /\ q + y = off[k] /\ off[k] <= Len(t)
          /\ \A j \in 1 .. K(k) : t[S[k] + (j - 1)] = c[k].key[j]
          /\ t[q] = "equals"
          /\ \A j \in 1 .. y : t[q + j] = encode_value(c[k].value)[j]
      BY <1>10
    <3>2. k = N => Len(t) = off[k]
      BY <1>12
    <3>3. k # N => /\ off[k] + 1 <= Len(t) /\ t[off[k] + 1] = "comma"
                   /\ S[k + 1] = off[k] + 2
      BY <1>11
    <3> HIDE DEF q, y, K
    <3>4. /\ q + y <= Len(t)
          /\ k = N => Len(t) = q + y
          /\ k # N => /\ q + y + 1 <= Len(t) /\ t[q + y + 1] = "comma"
                      /\ S[k + 1] = q + y + 2
      BY <3>1, <3>2, <3>3
    <3> QED
      BY <3>1, <3>4 DEF q, y
  <2> QED
    BY <1>9, <2>1 DEF IsLayout, N, t
<1> QED
  BY <1>6, <1>13 DEF Layout, t

\* Where RDN k begins, where its '=' stands, and where it ends.
First(c, k) == Layout(c)[k]
EqualsAt(c, k) == First(c, k) + Len(c[k].key)
LastOf(c, k) == EqualsAt(c, k) + Len(encode_value(c[k].value))

LEMMA LayoutFacts ==
    ASSUME NEW c \in Certificates, NEW k \in 1 .. Len(c)
    PROVE  LET t == encode(c)
               q == EqualsAt(c, k)
               e == encode_value(c[k].value)
           IN /\ t \in Seq(Chars) /\ e \in Seq(Chars)
              /\ First(c, k) \in Nat \ {0} /\ Len(c[k].key) \in Nat
              /\ q \in Nat /\ LastOf(c, k) \in Nat /\ Len(e) \in Nat
              /\ LastOf(c, k) = q + Len(e)
              /\ \A j \in 1 .. Len(c[k].key) : t[First(c, k) + (j - 1)] = c[k].key[j]
              /\ t[q] = "equals"
              /\ \A j \in 1 .. Len(e) : t[q + j] = e[j]
              /\ LastOf(c, k) <= Len(t) /\ Len(t) \in Nat
              /\ k = Len(c) => Len(t) = LastOf(c, k)
              /\ k # Len(c) => /\ LastOf(c, k) + 1 <= Len(t)
                               /\ t[LastOf(c, k) + 1] = "comma"
                               /\ First(c, k + 1) = LastOf(c, k) + 2
<1>1. IsLayout(c, Layout(c)) /\ encode(c) \in Seq(Chars)
  BY CertificateText
<1>2. c[k].key \in Seq(Chars) /\ c[k].value \in Seq(Chars)
  BY CertificateType
<1>3. encode_value(c[k].value) \in Seq(Chars)
  BY <1>2, ValueText
<1>4. First(c, k) \in Nat \ {0}
  BY <1>1 DEF IsLayout, First
<1>5. /\ Len(c[k].key) \in Nat /\ Len(encode_value(c[k].value)) \in Nat
      /\ Len(encode(c)) \in Nat
  BY <1>1, <1>2, <1>3
<1>6. EqualsAt(c, k) \in Nat /\ LastOf(c, k) \in Nat
  <2> DEFINE x == First(c, k)
             y == Len(c[k].key)
             z == Len(encode_value(c[k].value))
  <2>1. x \in Nat /\ y \in Nat /\ z \in Nat
    BY <1>4, <1>5
  <2>2. EqualsAt(c, k) = x + y /\ LastOf(c, k) = x + y + z
    BY DEF EqualsAt, LastOf
  <2> HIDE DEF x, y, z
  <2> QED
    BY <2>1, <2>2
<1> QED
  BY <1>1, <1>3, <1>4, <1>5, <1>6 DEF IsLayout, First, EqualsAt, LastOf

LEMMA FirstIsOne ==
    ASSUME NEW c \in Certificates
    PROVE  First(c, 1) = 1
BY CertificateText DEF IsLayout, First

-----------------------------------------------------------------------------
(* The scan goes from unit to unit.                                        *)

\* p is inside the key of RDN k, at its '=', or between units of its value.
AtUnit(c, k, p) ==
    \/ p \in First(c, k) .. EqualsAt(c, k)
    \/ \E u \in 0 .. Len(c[k].value) :
           p = EqualsAt(c, k) + 1 + Offsets(c[k].value)[u]

\* What the scan may find there.
PlainUnit(c, k, p) ==
    /\ p <= Len(encode(c))
    /\ encode(c)[p] \notin {"comma", "backslash"}
    /\ AtUnit(c, k, p + 1)
EscapedUnit(c, k, p) ==
    /\ p < Len(encode(c))
    /\ encode(c)[p] = "backslash"
    /\ AtUnit(c, k, p + 2)
EndOfRdn(c, k, p) ==
    /\ p = LastOf(c, k) + 1
    /\ k = Len(c) => p = Len(encode(c)) + 1
    /\ k # Len(c) => /\ p <= Len(encode(c))
                     /\ encode(c)[p] = "comma"
                     /\ First(c, k + 1) = p + 1

LEMMA UnitStep ==
    ASSUME NEW c \in Certificates, NEW k \in 1 .. Len(c), NEW p, AtUnit(c, k, p)
    PROVE  /\ p \in Nat \ {0}
           /\ PlainUnit(c, k, p) \/ EscapedUnit(c, k, p) \/ EndOfRdn(c, k, p)
<1> DEFINE t == encode(c)
           F == First(c, k)
           q == EqualsAt(c, k)
           key == c[k].key
           v == c[k].value
           e == encode_value(v)
           off == Offsets(v)
<1>1. /\ t \in Seq(Chars) /\ e \in Seq(Chars)
      /\ F \in Nat \ {0} /\ Len(key) \in Nat /\ q \in Nat /\ Len(e) \in Nat
      /\ LastOf(c, k) \in Nat /\ LastOf(c, k) = q + Len(e)
      /\ \A j \in 1 .. Len(key) : t[F + (j - 1)] = key[j]
      /\ t[q] = "equals"
      /\ \A j \in 1 .. Len(e) : t[q + j] = e[j]
      /\ LastOf(c, k) <= Len(t) /\ Len(t) \in Nat
      /\ k = Len(c) => Len(t) = LastOf(c, k)
      /\ k # Len(c) => /\ LastOf(c, k) + 1 <= Len(t)
                       /\ t[LastOf(c, k) + 1] = "comma"
                       /\ First(c, k + 1) = LastOf(c, k) + 2
  BY LayoutFacts
<1>2. /\ v \in Seq(Chars) /\ Len(v) \in Nat
      /\ \A j \in 1 .. Len(key) : key[j] \notin {"comma", "backslash"}
  BY CertificateType
<1>3. off[0] = 0 /\ off[Len(v)] = Len(e) /\ off \in [0 .. Len(v) -> Nat]
  BY <1>2, ValueText DEF IsOffsets
<1>4. q = F + Len(key)
  BY DEF EqualsAt
<1>5. \A u \in 0 .. Len(v) : off[u] \in Nat
  BY <1>3
<1>6. ASSUME NEW u \in 1 .. Len(v)
      PROVE  /\ off[u - 1] \in Nat /\ off[u] \in Nat /\ off[u] <= Len(e)
             /\ Quoted(v, u) => /\ off[u] = off[u - 1] + 2
                                /\ e[off[u - 1] + 1] = "backslash"
             /\ ~Quoted(v, u) => /\ off[u] = off[u - 1] + 1
                                 /\ e[off[u - 1] + 1] = v[u]
                                 /\ v[u] \notin {"comma", "backslash"}
  BY <1>2, UnitFacts
<1>7. /\ q \in Nat /\ Len(e) \in Nat /\ Len(t) \in Nat
       /\ LastOf(c, k) = q + Len(e) /\ q + Len(e) <= Len(t)
  BY <1>1
<1>8. \A x : AtUnit(c, k, x) <=> \/ x \in F .. q
                                 \/ \E u \in 0 .. Len(v) : x = q + 1 + off[u]
  BY DEF AtUnit
<1> HIDE DEF t, F, q, key, v, e, off
<1>9. CASE p \in F .. q /\ p # q
  <2> DEFINE j == p - F + 1
  <2>1. j \in 1 .. Len(key) /\ F + (j - 1) = p
    BY <1>1, <1>4, <1>9
  <2> HIDE DEF j
  <2>2. t[p] \notin {"comma", "backslash"}
    BY <1>1, <1>2, <2>1
  <2>3. p \in Nat \ {0} /\ p <= Len(t) /\ p + 1 \in F .. q
    BY <1>1, <1>4, <1>9
  <2> QED
    BY <1>8, <2>2, <2>3 DEF PlainUnit, t
<1>10. CASE p = q
  <2>1. p \in Nat \ {0} /\ p <= Len(t)
    BY <1>1, <1>4, <1>10
  <2>2. p + 1 = q + 1 + off[0] /\ 0 \in 0 .. Len(v)
    BY <1>1, <1>2, <1>3, <1>10
  <2>3. AtUnit(c, k, p + 1)
    BY <1>8, <2>2
  <2>4. t[p] \notin {"comma", "backslash"}
    BY <1>1, <1>10
  <2> QED
    BY <2>1, <2>3, <2>4 DEF PlainUnit, t
<1>11. ASSUME NEW u \in 0 .. Len(v), p = q + 1 + off[u]
       PROVE  /\ p \in Nat \ {0}
              /\ PlainUnit(c, k, p) \/ EscapedUnit(c, k, p) \/ EndOfRdn(c, k, p)
  <2>1. p \in Nat \ {0}
    <3> DEFINE x == off[u]
    <3>1. x \in Nat /\ q \in Nat /\ p = q + 1 + x
      BY <1>5, <1>7, <1>11
    <3> HIDE DEF x
    <3> QED
      BY <3>1
  <2>2. CASE u = Len(v)
    <3>1. p = LastOf(c, k) + 1
      <4>1. off[u] = Len(e)
        BY <1>3, <2>2
      <4> QED
        BY <1>7, <1>11, <4>1
    <3>2. /\ k = Len(c) => p = Len(t) + 1
          /\ k # Len(c) => p <= Len(t) /\ t[p] = "comma" /\ First(c, k + 1) = p + 1
      BY <1>1, <3>1
    <3> QED
      BY <2>1, <3>1, <3>2 DEF EndOfRdn, t
  <2>3. CASE u # Len(v)
    <3> DEFINE x == u + 1
    <3>1. x \in 1 .. Len(v) /\ x - 1 = u /\ x \in 0 .. Len(v)
      BY <1>2, <2>3
    <3> HIDE DEF x
    <3>2. p = q + (off[u] + 1) /\ off[u] \in Nat /\ off[x] \in Nat /\ off[x] <= Len(e)
      <4>1. off[u] \in Nat
        BY <1>5
      <4>2. p = q + (off[u] + 1)
        <5> DEFINE o == off[u]
        <5>1. p = q + 1 + o /\ o \in Nat /\ q \in Nat
          BY <1>7, <1>11, <4>1
        <5> HIDE DEF o
        <5>2. p = q + (o + 1)
          BY <5>1
        <5> QED
          BY <5>2 DEF o
      <4>3. off[x] \in Nat /\ off[x] <= Len(e)
        BY <1>6, <3>1
      <4> QED
        BY <4>1, <4>2, <4>3
    <3>3. CASE Quoted(v, x)
      <4>1. off[x] = off[u] + 2 /\ e[off[u] + 1] = "backslash"
        BY <1>6, <3>1, <3>3
      <4>2. off[u] + 1 \in 1 .. Len(e) /\ p + 2 = q + 1 + off[x] /\ p < Len(t)
        <5> DEFINE a == off[u]
                   b == off[x]
                   l == Len(e)
                   m == Len(t)
        <5>1. /\ a \in Nat /\ b \in Nat /\ l \in Nat /\ m \in Nat /\ q \in Nat
              /\ p = q + (a + 1) /\ b = a + 2 /\ b <= l /\ q + l <= m
          BY <1>7, <3>2, <4>1
        <5> HIDE DEF a, b, l, m
        <5>2. a + 1 \in 1 .. l /\ p + 2 = q + 1 + b /\ p < m
          BY <5>1
        <5> QED
          BY <5>2 DEF a, b, l, m
      <4>3. t[p] = "backslash"
        BY <1>1, <3>2, <4>1, <4>2
      <4>4. AtUnit(c, k, p + 2)
        BY <1>8, <3>1, <4>2
      <4> QED
        BY <2>1, <4>2, <4>3, <4>4 DEF EscapedUnit, t
    <3>4. CASE ~Quoted(v, x)
      <4>1. off[x] = off[u] + 1 /\ e[off[u] + 1] = v[x]
            /\ v[x] \notin {"comma", "backslash"}
        BY <1>6, <3>1, <3>4
      <4>2. off[u] + 1 \in 1 .. Len(e) /\ p + 1 = q + 1 + off[x] /\ p <= Len(t)
        <5> DEFINE a == off[u]
                   b == off[x]
                   l == Len(e)
                   m == Len(t)
        <5>1. /\ a \in Nat /\ b \in Nat /\ l \in Nat /\ m \in Nat /\ q \in Nat
              /\ p = q + (a + 1) /\ b = a + 1 /\ b <= l /\ q + l <= m
          BY <1>7, <3>2, <4>1
        <5> HIDE DEF a, b, l, m
        <5>2. a + 1 \in 1 .. l /\ p + 1 = q + 1 + b /\ p <= m
          BY <5>1
        <5> QED
          BY <5>2 DEF a, b, l, m
      <4>3. t[p] \notin {"comma", "backslash"}
        BY <1>1, <3>2, <4>1, <4>2
      <4>4. AtUnit(c, k, p + 1)
        BY <1>8, <3>1, <4>2
      <4> QED
        BY <2>1, <4>2, <4>3, <4>4 DEF PlainUnit, t
    <3> QED
      BY <3>3, <3>4
  <2> QED
    BY <2>2, <2>3
<1> QED
  BY <1>8, <1>9, <1>10, <1>11

-----------------------------------------------------------------------------
(* What the parser makes of a part.                                        *)

\* A text without white space at its ends stays as it is.
LEMMA TrimNothing ==
    ASSUME NEW s \in Seq(Chars),
           Len(s) # 0 => s[1] \notin Whitespace /\ s[Len(s)] \notin Whitespace
    PROVE  trim(s) = s
<1>1. CASE Len(s) = 0
  <2>1. s = <<>>
    BY <1>1
  <2>2. trim(s) = <<>>
    BY <1>1, TrimSpaces
  <2> QED
    BY <2>1, <2>2
<1>2. CASE Len(s) # 0
  <2> DEFINE m == Len(s)
  <2>1. m \in 1 .. Len(s) /\ m \in 0 .. Len(s)
    BY <1>2
  <2>2. Ends(s, 1, m)
    BY <1>2, <2>1 DEF Ends
  <2>3. trim(s) = SubSeq(s, 1, m)
    BY <2>2, TrimMiddle
  <2>4. /\ SubSeq(s, 1, m) \in Seq(Chars) /\ Len(SubSeq(s, 1, m)) = m
        /\ \A k \in 1 .. m : SubSeq(s, 1, m)[k] = s[k]
    BY <2>1, SubSeqFacts
  <2>5. SubSeq(s, 1, m) = s
    BY <2>4, SeqEqual
  <2> QED
    BY <2>3, <2>5
<1> QED
  BY <1>1, <1>2

\* Up to where a text reaches when its end is trimmed: to z.
Reaches(s, z) ==
    /\ z \in 0 .. Len(s)
    /\ \A k \in z + 1 .. Len(s) : s[k] \in Whitespace
    /\ z # 0 => s[z] \notin Whitespace

LEMMA TextReaches ==
    ASSUME NEW s \in Seq(Chars)
    PROVE  \E z \in 0 .. Len(s) : Reaches(s, z)
<1>1. CASE \A k \in 1 .. Len(s) : s[k] \in Whitespace
  <2>1. 0 \in 0 .. Len(s)
    OBVIOUS
  <2> QED
    BY <1>1, <2>1 DEF Reaches
<1>2. ASSUME NEW a \in 1 .. Len(s), NEW m \in 1 .. Len(s), Ends(s, a, m)
      PROVE  \E z \in 0 .. Len(s) : Reaches(s, z)
  <2>1. m \in 0 .. Len(s)
    OBVIOUS
  <2> QED
    BY <1>2, <2>1 DEF Ends, Reaches
<1> QED
  BY <1>1, <1>2, TrimShape

\* White space cut off at the end makes no difference to trimming.
LEMMA TrimPrefix ==
    ASSUME NEW s \in Seq(Chars), NEW z, Reaches(s, z),
           NEW r \in Seq(Chars), Len(r) = z, \A k \in 1 .. z : r[k] = s[k]
    PROVE  trim(r) = trim(s)
<1>0. Len(s) \in Nat /\ z \in Nat /\ z <= Len(s)
  BY DEF Reaches
<1>1. CASE \A k \in 1 .. Len(s) : s[k] \in Whitespace
  <2>1. \A k \in 1 .. Len(r) : r[k] \in Whitespace
    BY <1>0, <1>1
  <2> QED
    BY <1>1, <2>1, TrimSpaces
<1>2. ASSUME NEW a \in 1 .. Len(s), NEW m \in 1 .. Len(s), Ends(s, a, m)
      PROVE  trim(r) = trim(s)
  <2>1. /\ a <= m /\ m \in a .. Len(s)
        /\ s[a] \notin Whitespace /\ s[m] \notin Whitespace
        /\ \A k \in 1 .. a - 1 : s[k] \in Whitespace
        /\ \A k \in m + 1 .. Len(s) : s[k] \in Whitespace
    BY <1>2 DEF Ends
  <2>2. m = z
    <3>1. ~(m > z)
      BY <1>0, <2>1 DEF Reaches
    <3>2. ~(m < z)
      BY <1>0, <2>1 DEF Reaches
    <3> QED
      BY <1>0, <3>1, <3>2
  <2>3. a \in 1 .. Len(r) /\ m \in a .. Len(r) /\ \A k \in m + 1 .. Len(r) : FALSE
    BY <1>0, <2>1, <2>2
  <2>4. Ends(r, a, m)
    <3>1. \A k \in 1 .. a - 1 : k \in 1 .. z
      BY <1>0, <2>3
    <3>2. a \in 1 .. z /\ m \in 1 .. z
      BY <1>0, <2>3
    <3> QED
      BY <2>1, <2>3, <3>1, <3>2 DEF Ends
  <2>5. trim(r) = SubSeq(r, a, m) /\ trim(s) = SubSeq(s, a, m)
    BY <1>2, <2>4, TrimMiddle
  <2>6. /\ SubSeq(r, a, m) \in Seq(Chars) /\ Len(SubSeq(r, a, m)) = m - a + 1
        /\ \A k \in 1 .. m - a + 1 : SubSeq(r, a, m)[k] = r[a + (k - 1)]
    BY <2>3, SubSeqMiddle
  <2>7. /\ SubSeq(s, a, m) \in Seq(Chars) /\ Len(SubSeq(s, a, m)) = m - a + 1
        /\ \A k \in 1 .. m - a + 1 : SubSeq(s, a, m)[k] = s[a + (k - 1)]
    BY <2>1, SubSeqMiddle
  <2>8. \A k \in 1 .. m - a + 1 : r[a + (k - 1)] = s[a + (k - 1)]
    <3>1. \A k \in 1 .. m - a + 1 : a + (k - 1) \in 1 .. z
      BY <1>0, <2>2
    <3> QED
      BY <3>1
  <2> DEFINE x == SubSeq(r, a, m)
             y == SubSeq(s, a, m)
             l == m - a + 1
  <2>9. /\ x \in Seq(Chars) /\ y \in Seq(Chars) /\ Len(x) = l /\ Len(y) = l
        /\ \A k \in 1 .. l : x[k] = y[k]
    BY <2>6, <2>7, <2>8
  <2> HIDE DEF x, y, l
  <2>10. x = y
    BY <2>9, SeqEqual
  <2> QED
    BY <2>5, <2>10 DEF x, y
<1> QED
  BY <1>1, <1>2, TrimShape

LEMMA RdnOfPart ==
    ASSUME NEW c \in Certificates, NEW k \in 1 .. Len(c)
    PROVE  rdn(SubSeq(encode(c), First(c, k), LastOf(c, k))) =
               [key   |-> to_uppercase(c[k].key),
                value |-> trim(encode_value(c[k].value))]
<1> DEFINE t == encode(c)
           F == First(c, k)
           L == LastOf(c, k)
           key == c[k].key
           v == c[k].value
           e == encode_value(v)
           x == Len(key)
           y == Len(e)
           s == SubSeq(t, F, L)
           tt == trim(s)
<1>1. /\ t \in Seq(Chars) /\ e \in Seq(Chars) /\ Len(t) \in Nat
      /\ F \in Nat \ {0} /\ x \in Nat /\ y \in Nat /\ L \in Nat
      /\ L = F + x + y /\ L <= Len(t)
      /\ \A j \in 1 .. x : t[F + (j - 1)] = key[j]
      /\ t[F + x] = "equals"
      /\ \A j \in 1 .. y : t[F + x + j] = e[j]
  BY LayoutFacts DEF EqualsAt, LastOf
<1>2. /\ key \in Seq(Chars) /\ v \in Seq(Chars)
      /\ \A j \in 1 .. x : key[j] \notin Whitespace /\ key[j] # "equals"
  BY CertificateType
<1>3. PICK z \in 0 .. y : Reaches(e, z)
  BY <1>1, TextReaches
<1> DEFINE M == x + 1 + z
<1> HIDE DEF t, F, L, key, v, e, x, y
<1>3a. /\ \A j \in z + 1 .. y : e[j] \in Whitespace
       /\ z # 0 => e[z] \notin Whitespace
  BY <1>3 DEF Reaches, y
<1>4. F \in 1 .. Len(t) /\ L \in F .. Len(t) /\ L - F + 1 = x + 1 + y
  BY <1>1
<1>5. /\ s \in Seq(Chars) /\ Len(s) = x + 1 + y
      /\ \A j \in 1 .. x + 1 + y : s[j] = t[F + (j - 1)]
  <2>1. t \in Seq(Chars)
    BY <1>1
  <2>2. F \in 1 .. Len(t) /\ L \in F .. Len(t)
    BY <1>4
  <2>3. /\ s \in Seq(Chars) /\ Len(s) = L - F + 1
        /\ \A j \in 1 .. L - F + 1 : s[j] = t[F + (j - 1)]
    BY <2>1, <2>2, SubSeqMiddle
  <2> HIDE DEF s
  <2> QED
    BY <1>4, <2>3
<1> HIDE DEF s
<1>6. /\ \A j \in 1 .. x : s[j] = key[j]
      /\ s[x + 1] = "equals"
      /\ \A j \in 1 .. y : s[x + 1 + j] = e[j]
  <2>1. \A j \in 1 .. x : j \in 1 .. x + 1 + y
    BY <1>1
  <2>2. x + 1 \in 1 .. x + 1 + y /\ F + ((x + 1) - 1) = F + x
    BY <1>1
  <2>3. ASSUME NEW j \in 1 .. y PROVE s[x + 1 + j] = e[j]
    <3>1. x + 1 + j \in 1 .. x + 1 + y /\ F + ((x + 1 + j) - 1) = F + x + j
      BY <1>1
    <3> QED
      BY <1>1, <1>5, <3>1
  <2> QED
    BY <1>1, <1>5, <2>1, <2>2, <2>3
<1>7. M \in 1 .. Len(s) /\ M \in 0 .. Len(s) /\ z \in Nat
  BY <1>1, <1>3, <1>5
<1>8. s[1] \notin Whitespace
  <2>1. CASE x = 0
    BY <1>6, <2>1 DEF Whitespace
  <2>2. CASE x # 0
    <3>1. 1 \in 1 .. x
      BY <1>1, <2>2
    <3> QED
      BY <1>2, <1>6, <3>1
  <2> QED
    BY <2>1, <2>2
<1>9. s[M] \notin Whitespace
  <2>1. CASE z = 0
    <3>1. M = x + 1
      BY <1>1, <2>1
    <3> QED
      BY <1>6, <3>1 DEF Whitespace
  <2>2. CASE z # 0
    <3>1. z \in 1 .. y
      BY <1>1, <1>3, <2>2
    <3> QED
      BY <1>3a, <1>6, <2>2, <3>1
  <2> QED
    BY <2>1, <2>2
<1>10. ASSUME NEW j \in M + 1 .. Len(s) PROVE s[j] \in Whitespace
  <2> DEFINE l == j - (x + 1)
  <2>1. l \in z + 1 .. y /\ l \in 1 .. y /\ x + 1 + l = j
    BY <1>1, <1>3, <1>5, <1>7
  <2> HIDE DEF l
  <2> QED
    BY <1>3a, <1>6, <2>1
<1>11. tt = SubSeq(s, 1, M)
  <2> HIDE DEF M
  <2>1. Ends(s, 1, M)
    BY <1>7, <1>8, <1>9, <1>10 DEF Ends
  <2> QED
    BY <1>5, <2>1, TrimMiddle
<1>12. /\ tt \in Seq(Chars) /\ Len(tt) = M
       /\ \A j \in 1 .. M : tt[j] = s[j]
  <2> HIDE DEF M
  <2> QED
    BY <1>5, <1>7, <1>11, SubSeqFacts
<1> HIDE DEF tt
<1> DEFINE I == {j \in 1 .. Len(tt) : tt[j] = "equals"}
<1>13. I # {} /\ Min(I) = x + 1
  <2>1. x + 1 \in 1 .. M
    BY <1>1, <1>7
  <2>2. x + 1 \in I
    BY <1>6, <1>12, <2>1
  <2>3. I \subseteq Nat
    OBVIOUS
  <2>4. Min(I) \in I /\ Min(I) <= x + 1 /\ Min(I) \in Nat /\ Min(I) \in 1 .. M
    BY <1>12, <2>2, <2>3, MinFacts
  <2>5. ~(Min(I) <= x)
    <3> SUFFICES ASSUME Min(I) <= x PROVE FALSE
      OBVIOUS
    <3>1. Min(I) \in 1 .. x
      BY <1>1, <2>4
    <3>2. tt[Min(I)] = key[Min(I)]
      BY <1>6, <1>12, <2>4, <3>1
    <3>3. tt[Min(I)] = "equals"
      BY <2>4
    <3> QED
      BY <1>2, <3>1, <3>2, <3>3
  <2> QED
    BY <1>1, <2>2, <2>4, <2>5
<1>14. rdn(s) = [key   |-> to_uppercase(trim(SubSeq(tt, 1, (x + 1) - 1))),
                 value |-> trim(SubSeq(tt, (x + 1) + 1, Len(tt)))]
  <2>1. SelectInSeq(tt, LAMBDA ch : ch = "equals") = x + 1
    <3>1. SelectInSeq(tt, LAMBDA ch : ch = "equals") =
              IF I # {} THEN Min(I) ELSE 0
      BY DEF SelectInSeq
    <3> HIDE DEF I
    <3> QED
      BY <1>13, <3>1
  <2>2. x + 1 # 0
    BY <1>1
  <2> QED
    BY <2>1, <2>2 DEF rdn, tt
<1>15. SubSeq(tt, 1, (x + 1) - 1) = key
  <2>1. (x + 1) - 1 = x /\ x \in 0 .. Len(tt) /\ \A j \in 1 .. x : j \in 1 .. M
    BY <1>1, <1>7, <1>12
  <2>2. /\ SubSeq(tt, 1, x) \in Seq(Chars) /\ Len(SubSeq(tt, 1, x)) = x
        /\ \A j \in 1 .. x : SubSeq(tt, 1, x)[j] = tt[j]
    BY <1>12, <2>1, SubSeqFacts
  <2>3. \A j \in 1 .. x : tt[j] = key[j]
    BY <1>6, <1>12, <2>1
  <2>4. SubSeq(tt, 1, x) = key
    BY <1>2, <2>2, <2>3, SeqEqual DEF x
  <2> QED
    BY <2>1, <2>4
<1>16. trim(SubSeq(tt, (x + 1) + 1, Len(tt))) = trim(e)
  <2> DEFINE m == x + 1
             rest == SubSeq(tt, m + 1, Len(tt))
  <2>1. m \in 0 .. Len(tt) /\ Len(tt) - m = z
    BY <1>1, <1>7, <1>12
  <2> HIDE DEF m
  <2>2. /\ rest \in Seq(Chars) /\ Len(rest) = z
        /\ \A j \in 1 .. z : rest[j] = tt[m + j]
    <3>1. tt \in Seq(Chars)
      BY <1>12
    <3> QED
      BY <2>1, <3>1, SubSeqTail
  <2>3. \A j \in 1 .. z : tt[m + j] = e[j]
    <3>1. \A j \in 1 .. z : x + 1 + j \in 1 .. M /\ j \in 1 .. y
      BY <1>1, <1>3, <1>7
    <3> QED
      BY <1>6, <1>12, <3>1 DEF m
  <2> HIDE DEF rest
  <2>4. \A j \in 1 .. z : rest[j] = e[j]
    BY <2>2, <2>3
  <2>5. e \in Seq(Chars) /\ rest \in Seq(Chars) /\ Len(rest) = z
    BY <1>1, <2>2
  <2>6. trim(rest) = trim(e)
    BY <1>3, <2>4, <2>5, TrimPrefix
  <2> QED
    BY <2>6 DEF m, rest
<1>17. trim(key) = key
  <2>1. x # 0 => 1 \in 1 .. x /\ x \in 1 .. x
    BY <1>1
  <2> QED
    BY <1>2, <2>1, TrimNothing DEF x
<1> QED
  BY <1>14, <1>15, <1>16, <1>17 DEF s, t, F, L, key, e, v

-----------------------------------------------------------------------------
(* The parser on the text of a certificate.                                *)

Part(c, k) == <<First(c, k), LastOf(c, k)>>

\* split_rdns has cut the RDNs before k, and stands between two units of k.
Standing(c, k) ==
    /\ Len(parts) = k - 1
    /\ \A m \in 1 .. k - 1 : parts[m] = Part(c, m)
    /\ start = First(c, k)
    /\ AtUnit(c, k, i)

Foreign(c, m) == to_uppercase(c[m].key) # Attr

\* The inductive invariant.
CertificateInv ==
    certificate # None =>
        /\ TextOrder \in Certificates
        /\ dn = encode(TextOrder)
        /\ n \in Nat \ {0}
        /\ pc \in {"split", "extract", "done"}
        /\ pc = "split" =>
              /\ n = 1
              /\ parts \in Seq(Nat \X Nat)
              /\ \E k \in 1 .. Len(TextOrder) : Standing(TextOrder, k)
        /\ pc = "extract" =>
              /\ Len(parts) = Len(TextOrder)
              /\ \A m \in 1 .. Len(TextOrder) : parts[m] = Part(TextOrder, m)
              /\ \A m \in 1 .. Len(TextOrder) : m < n => Foreign(TextOrder, m)
        /\ SubjectFromCertificate

HeaderNext == Next /\ UNCHANGED certificate
headerVars == <<vars, certificate>>

\* A certificate read backwards is a sequence of RDNs as well.
LEMMA Backwards ==
    ASSUME certificate \in Certificates
    PROVE  TextOrder \in Certificates
<1> DEFINE R == [key : Keys, value : Values]
<1>1. PICK m \in 0 .. MaxRdns : certificate \in [1 .. m -> R]
  BY DEF Certificates, BoundedSeq, SeqOf
<1>2. certificate # <<>>
  BY DEF Certificates
<1> HIDE DEF R
<1>3. m \in Nat /\ Len(certificate) = m
  BY <1>1, HeaderAssumption
<1>4. m # 0
  BY <1>1, <1>2
<1>5. TextOrder = [k \in 1 .. m |-> certificate[(m - k) + 1]]
  BY <1>3 DEF TextOrder, Reverse
<1>6. \A k \in 1 .. m : (m - k) + 1 \in 1 .. m
  BY <1>3
<1>7. TextOrder \in [1 .. m -> R]
  BY <1>1, <1>5, <1>6
<1>8. TextOrder # <<>>
  <2>1. DOMAIN TextOrder = 1 .. m /\ 1 \in 1 .. m
    BY <1>3, <1>4, <1>7
  <2> QED
    BY <2>1
<1> QED
  BY <1>7, <1>8 DEF Certificates, BoundedSeq, SeqOf, R

LEMMA OrderKept == ASSUME certificate' = certificate PROVE TextOrder' = TextOrder
BY DEF TextOrder

LEMMA CertificateInit == HeaderInit => CertificateInv
<1> SUFFICES ASSUME HeaderInit, certificate # None PROVE CertificateInv
  BY DEF CertificateInv
<1> DEFINE c == TextOrder
<1>1. c \in Certificates /\ Start(encode(c))
  BY Backwards DEF HeaderInit
<1>2. 1 \in 1 .. Len(c)
  BY <1>1, CertificateType
<1>3. First(c, 1) = 1
  BY <1>1, FirstIsOne
<1>4. /\ First(c, 1) \in Nat /\ EqualsAt(c, 1) \in Nat
      /\ Len(c[1].key) \in Nat
  BY <1>1, <1>2, LayoutFacts
<1>5. AtUnit(c, 1, 1)
  <2>1. 1 \in First(c, 1) .. EqualsAt(c, 1)
    BY <1>3, <1>4 DEF EqualsAt
  <2> QED
    BY <2>1 DEF AtUnit
<1>6. Standing(c, 1)
  BY <1>1, <1>3, <1>5 DEF Standing, Start
<1> QED
  BY <1>1, <1>2, <1>6 DEF CertificateInv, Start, SubjectFromCertificate

\* The RDN that names the user is the first that is not foreign.
LEMMA NamedIs ==
    ASSUME TextOrder \in Certificates, NEW m \in 1 .. Len(TextOrder),
           ~Foreign(TextOrder, m),
           \A k \in 1 .. m - 1 : Foreign(TextOrder, k)
    PROVE  Named = m
<1> DEFINE I == {k \in 1 .. Len(TextOrder) :
                    to_uppercase(TextOrder[k].key) = to_uppercase(dn_attribute)}
<1>1. Len(TextOrder) \in Nat
  BY CertificateType
<1>2. m \in I /\ I \subseteq Nat
  BY <1>1 DEF Foreign, Attr
<1>3. \A k \in I : m <= k
  <2> SUFFICES ASSUME NEW k \in I, ~(m <= k) PROVE FALSE
    OBVIOUS
  <2>1. k \in 1 .. m - 1
    BY <1>1
  <2> QED
    BY <2>1 DEF Foreign, Attr
<1>4. Named = IF I # {} THEN Min(I) ELSE 0
  BY DEF Named, SelectInSeq
<1>5. Min(I) \in I /\ Min(I) <= m
  BY <1>2, MinFacts
<1>6. I # {} /\ Min(I) \in Nat /\ m <= Min(I)
  BY <1>2, <1>3, <1>5
<1>7. Min(I) = m
  <2> HIDE DEF I
  <2> QED
    BY <1>1, <1>5, <1>6
<1> QED
  BY <1>4, <1>6, <1>7

LEMMA NamedKept == ASSUME certificate' = certificate PROVE Named' = Named
BY OrderKept DEF Named, SelectInSeq

LEMMA NamedNobody ==
    ASSUME \A k \in 1 .. Len(TextOrder) : Foreign(TextOrder, k)
    PROVE  Named = 0
BY DEF Named, SelectInSeq, Foreign, Attr

LEMMA ScanKeepsCertificate ==
    ASSUME CertificateInv, split_rdns, UNCHANGED certificate
    PROVE  CertificateInv'
<1> SUFFICES ASSUME certificate # None PROVE CertificateInv'
  BY DEF CertificateInv
<1> DEFINE c == TextOrder
<1>1. /\ c \in Certificates /\ dn = encode(c) /\ pc = "split" /\ n = 1
      /\ parts \in Seq(Nat \X Nat)
      /\ dn' = dn /\ n' = n /\ c' = c
  BY OrderKept DEF CertificateInv, split_rdns, Escape, Cut, Skip, LastPart
<1>2. PICK k \in 1 .. Len(c) : Standing(c, k)
  BY <1>1 DEF CertificateInv
<1>3. Len(c) \in Nat \ {0}
  BY <1>1, CertificateType
<1>4. /\ i \in Nat \ {0}
      /\ PlainUnit(c, k, i) \/ EscapedUnit(c, k, i) \/ EndOfRdn(c, k, i)
  BY <1>1, <1>2, UnitStep DEF Standing
<1>5. First(c, k) \in Nat /\ LastOf(c, k) \in Nat /\ Len(dn) \in Nat
  BY <1>1, LayoutFacts
<1>6. ASSUME pc' = "split", parts' \in Seq(Nat \X Nat),
             NEW l \in 1 .. Len(c), Standing(c, l)'
      PROVE  CertificateInv'
  BY <1>1, <1>6 DEF CertificateInv, SubjectFromCertificate
<1>7. CASE Escape
  <2>1. /\ i' = i + 2 /\ i < Len(dn) /\ dn[i] = "backslash"
        /\ parts' = parts /\ start' = start /\ pc' = pc
    BY <1>7 DEF Escape, escapes
  <2>2. EscapedUnit(c, k, i)
    <3>1. ~PlainUnit(c, k, i)
      BY <1>1, <2>1 DEF PlainUnit
    <3>2. ~EndOfRdn(c, k, i)
      BY <1>1, <1>4, <1>5, <2>1 DEF EndOfRdn
    <3> QED
      BY <1>4, <3>1, <3>2
  <2>3. AtUnit(c, k, i')
    BY <2>1, <2>2 DEF EscapedUnit
  <2>4. Standing(c, k)'
    BY <1>1, <1>2, <2>1, <2>3 DEF Standing, AtUnit
  <2> QED
    BY <1>1, <1>6, <2>1, <2>4
<1>8. CASE Skip
  <2>1. /\ i' = i + 1 /\ i <= Len(dn) /\ dn[i] # "comma"
        /\ ~(dn[i] = "backslash" /\ i < Len(dn))
        /\ parts' = parts /\ start' = start /\ pc' = pc
    BY <1>8 DEF Skip, escapes
  <2>2. PlainUnit(c, k, i)
    <3>1. ~EscapedUnit(c, k, i)
      BY <1>1, <2>1 DEF EscapedUnit
    <3>2. ~EndOfRdn(c, k, i)
      BY <1>1, <1>4, <1>5, <2>1 DEF EndOfRdn
    <3> QED
      BY <1>4, <3>1, <3>2
  <2>3. AtUnit(c, k, i')
    BY <2>1, <2>2 DEF PlainUnit
  <2>4. Standing(c, k)'
    BY <1>1, <1>2, <2>1, <2>3 DEF Standing, AtUnit
  <2> QED
    BY <1>1, <1>6, <2>1, <2>4
<1>9. CASE Cut
  <2>1. /\ i <= Len(dn) /\ dn[i] = "comma" /\ i' = i + 1 /\ start' = i + 1
        /\ parts' = Append(parts, <<start, i - 1>>) /\ pc' = pc
    BY <1>9 DEF Cut
  <2>2. EndOfRdn(c, k, i)
    BY <1>1, <1>4, <2>1 DEF PlainUnit, EscapedUnit
  <2>3. k # Len(c) /\ i = LastOf(c, k) + 1 /\ First(c, k + 1) = i + 1
    <3>1. i <= Len(encode(c)) /\ i \in Nat /\ Len(encode(c)) \in Nat
      BY <1>1, <1>4, <1>5, <2>1
    <3>2. i # Len(encode(c)) + 1
      BY <3>1
    <3> QED
      BY <2>2, <3>2 DEF EndOfRdn
  <2>4. <<start, i - 1>> = Part(c, k) /\ <<start, i - 1>> \in Nat \X Nat
    <3>1. start = First(c, k) /\ i - 1 = LastOf(c, k)
      BY <1>2, <1>5, <2>3 DEF Standing
    <3> QED
      BY <1>5, <3>1 DEF Part
  <2> DEFINE l == k + 1
  <2>5. l \in 1 .. Len(c) /\ l - 1 = k
    BY <1>3, <2>3
  <2>6. /\ parts' \in Seq(Nat \X Nat) /\ Len(parts') = k
        /\ \A m \in 1 .. k - 1 : parts'[m] = parts[m]
        /\ parts'[k] = Part(c, k)
    <3> DEFINE x == <<start, i - 1>>
    <3>1. x \in Nat \X Nat /\ parts' = Append(parts, x) /\ x = Part(c, k)
      BY <2>1, <2>4
    <3> HIDE DEF x
    <3>2. /\ Append(parts, x) \in Seq(Nat \X Nat)
          /\ Len(Append(parts, x)) = Len(parts) + 1
          /\ \A m \in 1 .. Len(parts) : Append(parts, x)[m] = parts[m]
          /\ Append(parts, x)[Len(parts) + 1] = x
      BY <1>1, <3>1, AppendFacts
    <3>3. Len(parts) = k - 1 /\ Len(parts) + 1 = k
      BY <1>2 DEF Standing
    <3> QED
      BY <3>1, <3>2, <3>3
  <2>7. \A m \in 1 .. k : parts'[m] = Part(c, m)
    <3>1. \A m \in 1 .. k : m \in 1 .. k - 1 \/ m = k
      OBVIOUS
    <3>2. \A m \in 1 .. k - 1 : parts[m] = Part(c, m)
      BY <1>2 DEF Standing
    <3> QED
      BY <2>6, <3>1, <3>2
  <2>8. AtUnit(c, l, i')
    <3>1. First(c, l) = i' /\ i' \in Nat
      <4>1. First(c, l) = i + 1 /\ i' = i + 1
        BY <2>1, <2>3
      <4>2. i \in Nat
        BY <1>1, <1>4
      <4> QED
        BY ONLY <4>1, <4>2
    <3>2. i' \in First(c, l) .. EqualsAt(c, l)
      <4>1. EqualsAt(c, l) \in Nat /\ Len(c[l].key) \in Nat
        BY <1>1, <2>5, LayoutFacts
      <4> HIDE DEF l, c
      <4> QED
        BY <3>1, <4>1 DEF EqualsAt
    <3> QED
      BY <3>2 DEF AtUnit
  <2>9. start' = First(c, l)
    BY <2>1, <2>3
  <2> HIDE DEF l
  <2>10. Standing(c, l)'
    BY <1>1, <2>5, <2>6, <2>7, <2>8, <2>9 DEF Standing, AtUnit, Part
  <2> QED
    BY <1>1, <1>6, <2>1, <2>5, <2>6, <2>10
<1>10. CASE LastPart
  <2>1. i > Len(dn) /\ parts' = Append(parts, <<start, Len(dn)>>)
        /\ pc' = "extract"
    BY <1>10 DEF LastPart
  <2>2. EndOfRdn(c, k, i)
    BY <1>1, <1>4, <1>5, <2>1 DEF PlainUnit, EscapedUnit
  <2>3. k = Len(c)
    BY <1>1, <1>4, <1>5, <2>1, <2>2 DEF EndOfRdn
  <2>4. Len(dn) = LastOf(c, k)
    BY <1>1, <2>3, LayoutFacts
  <2>5. <<start, Len(dn)>> = Part(c, k) /\ <<start, Len(dn)>> \in Nat \X Nat
    <3>1. start = First(c, k)
      BY <1>2 DEF Standing
    <3> QED
      BY <1>5, <2>4, <3>1 DEF Part
  <2>6. /\ Len(parts') = k
        /\ \A m \in 1 .. k - 1 : parts'[m] = parts[m]
        /\ parts'[k] = Part(c, k)
    <3> DEFINE x == <<start, Len(dn)>>
    <3>1. x \in Nat \X Nat /\ parts' = Append(parts, x) /\ x = Part(c, k)
      BY <2>1, <2>5
    <3> HIDE DEF x
    <3>2. /\ Len(Append(parts, x)) = Len(parts) + 1
          /\ \A m \in 1 .. Len(parts) : Append(parts, x)[m] = parts[m]
          /\ Append(parts, x)[Len(parts) + 1] = x
      BY <1>1, <3>1, AppendFacts
    <3>3. Len(parts) = k - 1 /\ Len(parts) + 1 = k
      BY <1>2 DEF Standing
    <3> QED
      BY <3>1, <3>2, <3>3
  <2>7. \A m \in 1 .. k : parts'[m] = Part(c, m)
    <3>1. \A m \in 1 .. k : m \in 1 .. k - 1 \/ m = k
      OBVIOUS
    <3>2. \A m \in 1 .. k - 1 : parts[m] = Part(c, m)
      BY <1>2 DEF Standing
    <3> QED
      BY <2>6, <3>1, <3>2
  <2>8. \A m \in 1 .. Len(c) : ~(m < n)
    BY <1>1
  <2> QED
    BY <1>1, <2>1, <2>3, <2>6, <2>7, <2>8
       DEF CertificateInv, SubjectFromCertificate, Part
<1> QED
  BY <1>7, <1>8, <1>9, <1>10 DEF split_rdns

LEMMA ExtractKeepsCertificate ==
    ASSUME CertificateInv, extract, UNCHANGED certificate
    PROVE  CertificateInv'
<1> SUFFICES ASSUME certificate # None PROVE CertificateInv'
  BY DEF CertificateInv
<1> DEFINE c == TextOrder
<1>1. /\ c \in Certificates /\ dn = encode(c) /\ pc = "extract"
      /\ n \in Nat \ {0}
      /\ Len(parts) = Len(c)
      /\ \A m \in 1 .. Len(c) : parts[m] = Part(c, m)
      /\ \A m \in 1 .. Len(c) : m < n => Foreign(c, m)
      /\ dn' = dn /\ parts' = parts /\ c' = c
  BY OrderKept DEF CertificateInv, extract, Malformed, Match, OtherAttribute, Exhausted, Finish
<1>2. Len(c) \in Nat
  BY <1>1, CertificateType
<1>3. ASSUME n <= Len(parts)
      PROVE  /\ n \in 1 .. Len(c)
             /\ Rdn(parts[n]) = [key   |-> to_uppercase(c[n].key),
                                 value |-> trim(encode_value(c[n].value))]
             /\ Rdn(parts[n]) # None
  <2>1. n \in 1 .. Len(c)
    BY <1>1, <1>2, <1>3
  <2>2. parts[n][1] = First(c, n) /\ parts[n][2] = LastOf(c, n)
    BY <1>1, <2>1 DEF Part
  <2>3. Rdn(parts[n]) = rdn(SubSeq(encode(c), First(c, n), LastOf(c, n)))
    BY <1>1, <2>2 DEF Rdn
  <2>4. rdn(SubSeq(encode(c), First(c, n), LastOf(c, n))) =
            [key   |-> to_uppercase(c[n].key),
             value |-> trim(encode_value(c[n].value))]
    BY <1>1, <2>1, RdnOfPart
  <2>5. to_uppercase(c[n].key) \in Seq(Chars)
    <3>1. c[n].key \in Seq(Chars)
      BY <1>1, <2>1, CertificateType
    <3>2. \A j \in 1 .. Len(c[n].key) : upper[c[n].key[j]] \in Chars
      BY <3>1, ParserAssumption
    <3> QED
      BY <3>1, <3>2 DEF to_uppercase
  <2>6. trim(encode_value(c[n].value)) \in Seq(Chars)
    BY <1>1, <2>1, CertificateType, ValueText, TrimType
  <2>7. [key   |-> to_uppercase(c[n].key),
         value |-> trim(encode_value(c[n].value))] # None
    BY <2>5, <2>6, HeaderAssumption
  <2> QED
    BY <2>1, <2>3, <2>4, <2>7
<1>4. ASSUME pc' = "done", n' = n, result' = IF Named = 0 THEN AttributeNotFound
                 ELSE Ok(trim(encode_value(TextOrder[Named].value)))
      PROVE  CertificateInv'
  <2>1. Named' = Named
    BY <1>1, NamedKept
  <2>2. SubjectFromCertificate'
    BY <1>1, <1>4, <2>1 DEF SubjectFromCertificate
  <2> QED
    BY <1>1, <1>4, <2>2 DEF CertificateInv
<1>5. CASE Malformed
  BY <1>3, <1>5 DEF Malformed
<1>6. CASE Match
  <2>1. /\ n <= Len(parts) /\ Rdn(parts[n]).key = Attr /\ pc' = "done"
        /\ result' = Ok(Rdn(parts[n]).value) /\ n' = n
    BY <1>6 DEF Match, Finish, Attr
  <2>2. n \in 1 .. Len(c) /\ ~Foreign(c, n)
        /\ result' = Ok(trim(encode_value(c[n].value)))
    BY <1>3, <2>1 DEF Foreign
  <2>3. \A m \in 1 .. n - 1 : Foreign(c, m)
    <3>1. \A m \in 1 .. n - 1 : m \in 1 .. Len(c) /\ m < n
      BY <1>2, <2>2
    <3> QED
      BY <1>1, <3>1
  <2>4. Named = n /\ n # 0
    BY <1>1, <2>2, <2>3, NamedIs
  <2> QED
    BY <1>4, <2>1, <2>2, <2>4
<1>7. CASE OtherAttribute
  <2>1. /\ n <= Len(parts) /\ Rdn(parts[n]).key # Attr /\ n' = n + 1
        /\ pc' = pc
    BY <1>7 DEF OtherAttribute, Attr
  <2>2. Foreign(c, n)
    BY <1>3, <2>1 DEF Foreign
  <2>3. \A m \in 1 .. Len(c) : m < n' => m < n \/ m = n
    BY <1>1, <1>2, <2>1
  <2>4. \A m \in 1 .. Len(c) : m < n' => Foreign(c, m)
    BY <1>1, <2>2, <2>3
  <2>5. n' \in Nat \ {0}
    BY <1>1, <2>1
  <2>6. \A m : Foreign(c, m)' <=> Foreign(c, m)
    BY <1>1 DEF Foreign, Attr
  <2> QED
    BY <1>1, <2>1, <2>4, <2>5, <2>6
       DEF CertificateInv, SubjectFromCertificate, Part
<1>8. CASE Exhausted
  <2>1. n > Len(parts) /\ pc' = "done" /\ result' = AttributeNotFound /\ n' = n
    BY <1>8 DEF Exhausted, Finish
  <2>2. \A m \in 1 .. Len(c) : Foreign(c, m)
    <3>1. \A m \in 1 .. Len(c) : m < n
      BY <1>1, <1>2, <2>1
    <3> QED
      BY <1>1, <3>1
  <2>3. Named = 0
    BY <2>2, NamedNobody
  <2> QED
    BY <1>4, <2>1, <2>3
<1> QED
  BY <1>5, <1>6, <1>7, <1>8 DEF extract

LEMMA CertificateStep ==
    CertificateInv /\ [HeaderNext]_headerVars => CertificateInv'
<1> SUFFICES ASSUME CertificateInv, [HeaderNext]_headerVars PROVE CertificateInv'
  OBVIOUS
<1>1. CASE split_rdns /\ UNCHANGED certificate
  BY <1>1, ScanKeepsCertificate
<1>2. CASE extract /\ UNCHANGED certificate
  BY <1>2, ExtractKeepsCertificate
<1>3. CASE UNCHANGED headerVars
  <2>1. /\ certificate' = certificate /\ dn' = dn /\ pc' = pc /\ parts' = parts
        /\ start' = start /\ i' = i /\ n' = n /\ result' = result
        /\ TextOrder' = TextOrder
    BY <1>3, OrderKept DEF headerVars, vars
  <2>2. Named' = Named
    BY <2>1, NamedKept
  <2>3. SubjectFromCertificate' <=> SubjectFromCertificate
    BY <2>1, <2>2 DEF SubjectFromCertificate
  <2>4. ASSUME NEW k
        PROVE  Standing(TextOrder, k)' <=> Standing(TextOrder, k)
    BY <2>1 DEF Standing, AtUnit, First, EqualsAt
  <2>5. ASSUME NEW m
        PROVE  Foreign(TextOrder, m)' <=> Foreign(TextOrder, m)
    BY <2>1 DEF Foreign, Attr
  <2>6. ASSUME NEW m
        PROVE  Part(TextOrder, m)' = Part(TextOrder, m)
    BY <2>1 DEF Part
  <2>7. (\E k \in 1 .. Len(TextOrder) : Standing(TextOrder, k))'
            <=> \E k \in 1 .. Len(TextOrder) : Standing(TextOrder, k)
    BY <2>1, <2>4
  <2> QED
    BY <2>1, <2>3, <2>5, <2>6, <2>7 DEF CertificateInv
<1> QED
  BY <1>1, <1>2, <1>3 DEF HeaderNext, Next

LEMMA CertificateInvariant == HeaderSpec => []CertificateInv
<1>1. HeaderInit => CertificateInv
  BY CertificateInit
<1>2. CertificateInv /\ [HeaderNext]_headerVars => CertificateInv'
  BY CertificateStep
<1> QED
  BY <1>1, <1>2, PTL DEF HeaderSpec, HeaderNext, headerVars

\* The subject is the trimmed text of the certificate's last attribute of the
\* configured name, whatever the values of the certificate contain, and a
\* certificate without that attribute is refused.
THEOREM SubjectIsCertified == HeaderSpec => []SubjectFromCertificate
<1>1. CertificateInv => SubjectFromCertificate
  BY DEF CertificateInv, SubjectFromCertificate
<1> QED
  BY <1>1, CertificateInvariant, PTL

\* The subject determines the value but for white space at its ends that the
\* text does not escape: certificates whose values of the attribute differ in
\* anything else are never the same user.
THEOREM SubjectsDiffer == HeaderSpec => []SubjectIdentifiesValue
<1>1. CertificateInv => SubjectIdentifiesValue
  <2> SUFFICES ASSUME CertificateInv, pc = "done", certificate # None, Named # 0,
                      NEW v \in Values, result = Ok(trim(encode_value(v)))
               PROVE  Bare(v) = Bare(TextOrder[Named].value)
    BY DEF SubjectIdentifiesValue
  <2> DEFINE w == TextOrder[Named].value
  <2>1. TextOrder \in Certificates /\ result = Ok(trim(encode_value(w)))
    BY DEF CertificateInv, SubjectFromCertificate
  <2>2. Named \in 1 .. Len(TextOrder)
    <3> DEFINE I == {k \in 1 .. Len(TextOrder) :
                       to_uppercase(TextOrder[k].key) = to_uppercase(dn_attribute)}
    <3>1. Named = IF I # {} THEN Min(I) ELSE 0
      BY DEF Named, SelectInSeq
    <3>2. I \subseteq Nat
      OBVIOUS
    <3>3. I # {} => Min(I) \in I
      BY <3>2, MinFacts
    <3> QED
      BY <3>1, <3>3
  <2>3. v \in Seq(Chars) /\ w \in Seq(Chars)
    BY <2>1, <2>2, CertificateType, HeaderAssumption
  <2>4. trim(encode_value(v)) = trim(encode_value(w))
    <3> DEFINE a == trim(encode_value(v))
               b == trim(encode_value(w))
    <3>1. Ok(a) = Ok(b)
      BY <2>1
    <3> HIDE DEF a, b
    <3>2. a = b
      BY <3>1 DEF Ok
    <3> QED
      BY <3>2 DEF a, b
  <2> HIDE DEF w
  <2>5. Bare(v) = Bare(w)
    BY <2>3, <2>4, ValueFromText
  <2> QED
    BY <2>5 DEF w
<1> QED
  BY <1>1, CertificateInvariant, PTL

\* Behind the proxy, too, the header is cut at exactly the unescaped commas and
\* read as the flow takes it to be read: the text of a certificate is a text
\* like any other.
THEOREM ReadBehindProxy == HeaderSpec => [](CutsExact /\ SubjectExact)
<1>1. HeaderInit => ScanInv /\ ExtractInv
  <2>1. ASSUME NEW text \in Seq(Chars), Start(text)
        PROVE  ScanInv /\ ExtractInv
    BY <2>1, ScanStart, ExtractStart
  <2>2. ASSUME certificate \in Certificates, Start(encode(TextOrder))
        PROVE  ScanInv /\ ExtractInv
    BY <2>1, <2>2, Backwards, CertificateText
  <2> QED
    BY <2>2, ScanInit, ExtractInit DEF HeaderInit
<1>2. ScanInv /\ ExtractInv /\ [HeaderNext]_headerVars => ScanInv' /\ ExtractInv'
  <2>1. [HeaderNext]_headerVars => [Next]_vars
    BY DEF HeaderNext, headerVars
  <2> QED
    BY <2>1, ScanStep, ExtractStep
<1>3. ScanInv /\ ExtractInv => CutsExact /\ SubjectExact
  BY DEF ScanInv, ExtractInv
<1> QED
  BY <1>1, <1>2, <1>3, PTL DEF HeaderSpec, HeaderNext, headerVars

=============================================================================
