--------------------------- MODULE DnParser_proofs --------------------------
(***************************************************************************)
(* The parser of the proxy header is right on every text, of any length.   *)
(***************************************************************************)
EXTENDS DnParser, SequenceLemmas

ParserTypeOK ==
    /\ dn \in Seq(Chars)
    /\ i \in 1 .. Len(dn) + 1
    /\ start \in 1 .. i
    /\ parts \in Seq(Nat \X Nat)
    /\ n \in Nat \ {0}
    /\ pc \in {"split", "extract", "done"}

\* While the scan has not reached the end it stands behind an even number of
\* backslashes: it never stands on an escaped character.
EvenRun(j) == \E k \in 1 .. j : RunBefore(j, k) /\ (j - k) % 2 = 0

\* The parts so far adjoin, up to `start'.
Adjoining ==
    /\ Len(parts) = 0 => start = 1
    /\ Len(parts) > 0 => parts[1][1] = 1 /\ start = parts[Len(parts)][2] + 2
    /\ \A k \in 1 .. Len(parts) - 1 : parts[k + 1][1] = parts[k][2] + 2

\* The parts so far end at the unescaped commas so far.
CutSoFar ==
    /\ \A k \in 1 .. Len(parts) : parts[k][2] + 1 \in Commas /\ parts[k][2] + 1 < i
    /\ \A j \in Commas : j < i => \E k \in 1 .. Len(parts) : parts[k][2] + 1 = j

\* The inductive invariant of the scan.
ScanInv ==
    /\ ParserTypeOK
    /\ pc = "split" => /\ i <= Len(dn) => EvenRun(i)
                       /\ Adjoining
                       /\ CutSoFar
    /\ CutsExact

-----------------------------------------------------------------------------

\* A run of backslashes has one beginning.
LEMMA OneRun ==
    ASSUME NEW j \in Nat, NEW k \in 1 .. j, NEW l \in 1 .. j,
           RunBefore(j, k), RunBefore(j, l)
    PROVE  k = l
  <1>1. ASSUME NEW a \in 1 .. j, NEW b \in 1 .. j, a < b,
               RunBefore(j, a), RunBefore(j, b)
        PROVE  FALSE
    <2>1. b - 1 \in a .. j - 1
      BY <1>1
    <2>2. dn[b - 1] = "backslash"
      BY <1>1, <2>1 DEF RunBefore
    <2> QED  BY <1>1, <2>2 DEF RunBefore
  <1> QED  BY <1>1

LEMMA EvenIsUnescaped ==
    ASSUME NEW j \in Nat, EvenRun(j)
    PROVE  ~Escaped(j)
  <1>1. SUFFICES ASSUME Escaped(j) PROVE FALSE
    OBVIOUS
  <1>2. PICK k \in 1 .. j : RunBefore(j, k) /\ (j - k) % 2 = 0
    BY DEF EvenRun
  <1>3. PICK l \in 1 .. j : RunBefore(j, l) /\ (j - l) % 2 = 1
    BY <1>1 DEF Escaped
  <1>4. k = l
    BY <1>2, <1>3, OneRun
  <1> QED  BY <1>2, <1>3, <1>4

\* Behind anything but a backslash no run stands.
LEMMA RunReset ==
    ASSUME NEW j \in Nat \ {0}, dn[j] # "backslash"
    PROVE  EvenRun(j + 1)
  <1>1. RunBefore(j + 1, j + 1)
    BY DEF RunBefore
  <1>2. (j + 1) - (j + 1) = 0
    OBVIOUS
  <1> QED  BY <1>1, <1>2 DEF EvenRun

\* A backslash lengthens the run by one.
LEMMA RunGrows ==
    ASSUME NEW j \in Nat \ {0}, NEW k \in 1 .. j, RunBefore(j, k), dn[j] = "backslash"
    PROVE  RunBefore(j + 1, k)
  BY DEF RunBefore

\* What follows the backslash is escaped, and what follows that is not.
LEMMA EscapeParity ==
    ASSUME NEW j \in Nat \ {0}, EvenRun(j), dn[j] = "backslash"
    PROVE  Escaped(j + 1) /\ EvenRun(j + 2)
  <1>1. PICK k \in 1 .. j : RunBefore(j, k) /\ (j - k) % 2 = 0
    BY DEF EvenRun
  <1>2. RunBefore(j + 1, k)
    BY <1>1, RunGrows
  <1>3. ((j + 1) - k) % 2 = 1 /\ ((j + 2) - k) % 2 = 0 /\ k \in 1 .. j + 2
    BY <1>1
  <1>4. Escaped(j + 1)
    BY <1>2, <1>3 DEF Escaped
  <1>5. CASE dn[j + 1] = "backslash"
    <2>1. RunBefore((j + 1) + 1, k)
      BY <1>2, <1>5, RunGrows
    <2> QED  BY <1>3, <1>4, <2>1 DEF EvenRun
  <1>6. CASE dn[j + 1] # "backslash"
    <2>1. EvenRun((j + 1) + 1)
      BY <1>6, RunReset
    <2>2. (j + 1) + 1 = j + 2
      OBVIOUS
    <2> QED  BY <1>4, <2>1, <2>2
  <1> QED  BY <1>5, <1>6

-----------------------------------------------------------------------------

LEMMA ScanStart ==
    ASSUME NEW text \in Seq(Chars), Start(text)
    PROVE  ScanInv
  <1>1. i = 1 /\ parts = <<>> /\ start = 1 /\ pc = "split" /\ n = 1 /\ dn = text
    BY DEF Start
  <1>2. ParserTypeOK
    BY <1>1 DEF ParserTypeOK
  <1>3. EvenRun(1)
    BY DEF EvenRun, RunBefore
  <1>4. Adjoining /\ CutSoFar
    BY <1>1 DEF Adjoining, CutSoFar, Commas
  <1> QED  BY <1>1, <1>2, <1>3, <1>4 DEF ScanInv, CutsExact

LEMMA ScanInit == Init => ScanInv
  BY ScanStart, ParserAssumption DEF Init

\* The text stays, so what is said of its characters stays.
LEMMA SameText ==
    ASSUME dn' = dn
    PROVE  /\ Commas' = Commas
           /\ \A j \in Nat : EvenRun(j)' <=> EvenRun(j)
  BY DEF Commas, Escaped, EvenRun, RunBefore

LEMMA EscapeInv ==
    ASSUME ScanInv, Escape
    PROVE  ScanInv'
  <1> USE DEF ScanInv
  <1>1. /\ pc = "split" /\ i < Len(dn) /\ dn[i] = "backslash" /\ i' = i + 2
        /\ UNCHANGED <<dn, start, parts, n, pc, result>>
    BY DEF Escape, escapes
  <1>2. i \in Nat \ {0} /\ Len(dn) \in Nat
    BY DEF ParserTypeOK
  <1>3. Escaped(i + 1) /\ EvenRun(i + 2)
    BY <1>1, <1>2, EscapeParity
  <1>4. i \notin Commas /\ i + 1 \notin Commas
    BY <1>1, <1>3 DEF Commas
  <1>5. ParserTypeOK'
    BY <1>1, <1>2 DEF ParserTypeOK
  <1>6. EvenRun(i)'
    BY <1>1, <1>2, <1>3 DEF EvenRun, RunBefore
  <1>7. Adjoining'
    BY <1>1 DEF Adjoining
  <1>8. CutSoFar'
    <2>1. \A j \in Commas : j \in Nat /\ (j < i + 2 => j < i)
      BY <1>2, <1>4 DEF Commas
    <2>2. Commas' = Commas
      BY <1>1, SameText
    <2>3. \A k \in 1 .. Len(parts) : parts[k][2] \in Nat
      BY DEF ParserTypeOK
    <2> QED  BY <1>1, <1>2, <2>1, <2>2, <2>3 DEF CutSoFar
  <1> QED  BY <1>1, <1>5, <1>6, <1>7, <1>8 DEF CutsExact

LEMMA CutInv ==
    ASSUME ScanInv, Cut
    PROVE  ScanInv'
  <1> USE DEF ScanInv
  <1>1. /\ pc = "split" /\ i <= Len(dn) /\ dn[i] = "comma" /\ i' = i + 1
        /\ start' = i + 1 /\ parts' = Append(parts, <<start, i - 1>>)
        /\ UNCHANGED <<dn, n, pc, result>>
    BY DEF Cut
  <1>2. /\ i \in Nat \ {0} /\ Len(dn) \in Nat /\ Len(parts) \in Nat
        /\ start \in Nat /\ i - 1 \in Nat /\ parts \in Seq(Nat \X Nat)
        /\ \A k \in 1 .. Len(parts) : parts[k][2] \in Nat
    BY DEF ParserTypeOK
  <1>3. i \in Commas
    BY <1>1, <1>2, EvenIsUnescaped DEF Commas
  <1>4. /\ Len(parts') = Len(parts) + 1
        /\ parts'[Len(parts) + 1] = <<start, i - 1>>
        /\ \A k \in 1 .. Len(parts) : parts'[k] = parts[k]
        /\ parts' \in Seq(Nat \X Nat)
    BY <1>1, <1>2
  <1>5. ParserTypeOK'
    BY <1>1, <1>2, <1>4 DEF ParserTypeOK
  <1>6. EvenRun(i)'
    <2>1. EvenRun(i + 1)
      BY <1>1, <1>2, RunReset
    <2> QED  BY <1>1, <2>1 DEF EvenRun, RunBefore
  <1>7. Adjoining'
    <2>1. parts'[1][1] = 1
      BY <1>1, <1>2, <1>4 DEF Adjoining
    <2>2. start' = parts'[Len(parts')][2] + 2
      BY <1>1, <1>2, <1>4
    <2>3. ASSUME NEW k \in 1 .. Len(parts') - 1
          PROVE  parts'[k + 1][1] = parts'[k][2] + 2
      <3>1. CASE k = Len(parts)
        BY <1>1, <1>2, <1>4, <3>1 DEF Adjoining
      <3>2. CASE k # Len(parts)
        <4>1. k \in 1 .. Len(parts) - 1 /\ k \in 1 .. Len(parts)
                  /\ k + 1 \in 1 .. Len(parts)
          BY <1>2, <1>4, <3>2
        <4>2. parts'[k] = parts[k] /\ parts'[k + 1] = parts[k + 1]
          BY <1>4, <4>1
        <4>3. parts[k + 1][1] = parts[k][2] + 2
          BY <1>1, <4>1 DEF Adjoining
        <4> QED  BY <4>2, <4>3
      <3> QED  BY <3>1, <3>2
    <2>4. Len(parts') > 0 /\ Len(parts') # 0
      BY <1>2, <1>4
    <2> QED  BY <2>1, <2>2, <2>3, <2>4 DEF Adjoining
  <1>8. CutSoFar'
    <2>1. Commas' = Commas /\ \A j \in Commas : j \in Nat
      BY <1>1, SameText DEF Commas
    <2>2. ASSUME NEW k \in 1 .. Len(parts')
          PROVE  parts'[k][2] + 1 \in Commas /\ parts'[k][2] + 1 < i + 1
      <3>1. CASE k = Len(parts) + 1
        BY <1>2, <1>3, <1>4, <3>1
      <3>2. CASE k # Len(parts) + 1
        <4>1. k \in 1 .. Len(parts)
          BY <1>2, <1>4, <3>2
        <4>2. parts[k][2] + 1 \in Commas /\ parts[k][2] + 1 < i
          BY <1>1, <4>1 DEF CutSoFar
        <4>3. parts'[k] = parts[k] /\ parts[k][2] \in Nat
          BY <1>2, <1>4, <4>1
        <4> DEFINE x == parts[k][2]
        <4>4. x \in Nat /\ i \in Nat /\ x + 1 < i
          BY <1>2, <4>2, <4>3
        <4>5. x + 1 < i + 1
          <5> HIDE DEF x
          <5> QED  BY ONLY <4>4
        <4> QED  BY <4>2, <4>3, <4>5
      <3> QED  BY <3>1, <3>2
    <2>3. ASSUME NEW j \in Commas, j < i + 1
          PROVE  \E k \in 1 .. Len(parts') : parts'[k][2] + 1 = j
      <3>1. CASE j = i
        <4>1. Len(parts) + 1 \in 1 .. Len(parts')
          BY <1>2, <1>4
        <4>2. parts'[Len(parts) + 1][2] + 1 = j
          BY <1>2, <1>4, <3>1
        <4> QED  BY <4>1, <4>2
      <3>2. CASE j # i
        <4>1. j < i
          BY <1>2, <2>1, <2>3, <3>2
        <4>2. PICK k \in 1 .. Len(parts) : parts[k][2] + 1 = j
          BY <1>1, <4>1 DEF CutSoFar
        <4>3. k \in 1 .. Len(parts') /\ parts'[k] = parts[k]
          BY <1>2, <1>4
        <4> QED  BY <4>2, <4>3
      <3> QED  BY <3>1, <3>2
    <2> QED  BY <1>1, <2>1, <2>2, <2>3 DEF CutSoFar
  <1> QED  BY <1>1, <1>5, <1>6, <1>7, <1>8 DEF CutsExact

LEMMA SkipInv ==
    ASSUME ScanInv, Skip
    PROVE  ScanInv'
  <1> USE DEF ScanInv
  <1>1. /\ pc = "split" /\ i <= Len(dn) /\ dn[i] # "comma" /\ i' = i + 1
        /\ dn[i] = "backslash" => ~(i < Len(dn))
        /\ UNCHANGED <<dn, start, parts, n, pc, result>>
    BY DEF Skip, escapes
  <1>2. i \in Nat \ {0} /\ Len(dn) \in Nat
    BY DEF ParserTypeOK
  <1>3. i \notin Commas
    BY <1>1 DEF Commas
  <1>4. ParserTypeOK'
    BY <1>1, <1>2 DEF ParserTypeOK
  <1>5. (i <= Len(dn) => EvenRun(i))'
    <2>1. SUFFICES ASSUME i + 1 <= Len(dn) PROVE EvenRun(i)'
      BY <1>1
    <2>2. EvenRun(i + 1)
      BY <1>1, <1>2, <2>1, RunReset
    <2> QED  BY <1>1, <2>2 DEF EvenRun, RunBefore
  <1>6. Adjoining'
    BY <1>1 DEF Adjoining
  <1>7. CutSoFar'
    <2>1. \A j \in Commas : j \in Nat /\ (j < i + 1 => j < i)
      BY <1>2, <1>3 DEF Commas
    <2>2. Commas' = Commas
      BY <1>1, SameText
    <2>3. \A k \in 1 .. Len(parts) : parts[k][2] \in Nat
      BY DEF ParserTypeOK
    <2> QED  BY <1>1, <1>2, <2>1, <2>2, <2>3 DEF CutSoFar
  <1> QED  BY <1>1, <1>4, <1>5, <1>6, <1>7 DEF CutsExact

LEMMA LastPartInv ==
    ASSUME ScanInv, LastPart
    PROVE  ScanInv'
  <1> USE DEF ScanInv
  <1>1. /\ pc = "split" /\ i > Len(dn) /\ pc' = "extract"
        /\ parts' = Append(parts, <<start, Len(dn)>>)
        /\ UNCHANGED <<dn, i, start, n, result>>
    BY DEF LastPart
  <1>2. /\ i \in Nat /\ Len(dn) \in Nat /\ Len(parts) \in Nat /\ start \in Nat
        /\ parts \in Seq(Nat \X Nat)
        /\ \A k \in 1 .. Len(parts) : parts[k][2] \in Nat
    <2>1. ParserTypeOK
      OBVIOUS
    <2>2. dn \in Seq(Chars) /\ Len(dn) \in Nat /\ i \in Nat /\ start \in Nat
      BY ONLY <2>1 DEF ParserTypeOK
    <2>3. parts \in Seq(Nat \X Nat) /\ Len(parts) \in Nat
      BY ONLY <2>1 DEF ParserTypeOK
    <2>4. \A k \in 1 .. Len(parts) : parts[k][2] \in Nat
      BY ONLY <2>3
    <2> QED
      BY ONLY <2>2, <2>3, <2>4
  <1>3. /\ Len(parts') = Len(parts) + 1
        /\ parts'[Len(parts) + 1] = <<start, Len(dn)>>
        /\ \A k \in 1 .. Len(parts) : parts'[k] = parts[k]
        /\ parts' \in Seq(Nat \X Nat)
    BY <1>1, <1>2
  <1>4. ParserTypeOK'
    BY <1>1, <1>2, <1>3 DEF ParserTypeOK
  <1>5. parts'[1][1] = 1
    BY <1>1, <1>2, <1>3 DEF Adjoining
  <1>6. ASSUME NEW k \in 1 .. Len(parts') - 1
        PROVE  parts'[k + 1][1] = parts'[k][2] + 2
    <2>1. CASE k = Len(parts)
      BY <1>1, <1>2, <1>3, <2>1 DEF Adjoining
    <2>2. CASE k # Len(parts)
      <3>1. k \in 1 .. Len(parts) - 1 /\ k \in 1 .. Len(parts)
                /\ k + 1 \in 1 .. Len(parts)
        BY <1>2, <1>3, <2>2
      <3>2. parts'[k] = parts[k] /\ parts'[k + 1] = parts[k + 1]
        BY <1>3, <3>1
      <3>3. parts[k + 1][1] = parts[k][2] + 2
        BY <1>1, <3>1 DEF Adjoining
      <3> QED  BY <3>2, <3>3
    <2> QED  BY <2>1, <2>2
  <1>7. {parts'[k][2] + 1 : k \in 1 .. Len(parts') - 1} = Commas'
    <2>1. Commas' = Commas /\ \A j \in Commas : j < i
      BY <1>1, <1>2, SameText DEF Commas
    <2>2. Len(parts') - 1 = Len(parts)
      BY <1>2, <1>3
    <2>3. \A k \in 1 .. Len(parts) : parts'[k][2] + 1 \in Commas
      BY <1>1, <1>3 DEF CutSoFar
    <2>4. \A j \in Commas : \E k \in 1 .. Len(parts) : parts'[k][2] + 1 = j
      <3>1. \A j \in Commas : \E k \in 1 .. Len(parts) : parts[k][2] + 1 = j
        BY <1>1, <2>1 DEF CutSoFar
      <3> QED  BY <1>3, <3>1
    <2> QED  BY <2>1, <2>2, <2>3, <2>4
  <1>8. CutsExact'
    <2>1. Len(parts') > 0 /\ parts'[Len(parts')][2] = Len(dn')
      BY <1>1, <1>2, <1>3
    <2> QED  BY <1>5, <1>6, <1>7, <2>1 DEF CutsExact
  <1> QED  BY <1>1, <1>4, <1>8

LEMMA ExtractKeepsScan ==
    ASSUME ScanInv, extract
    PROVE  ScanInv'
  <1> USE DEF ScanInv
  <1>1. /\ pc = "extract" /\ pc' \in {"extract", "done"}
        /\ n' = n \/ n' = n + 1
        /\ UNCHANGED <<dn, i, start, parts>>
    BY DEF extract, Malformed, Match, OtherAttribute, Exhausted, Finish
  <1>2. ParserTypeOK'
    BY <1>1 DEF ParserTypeOK
  <1>3. CutsExact'
    BY <1>1, SameText DEF CutsExact
  <1> QED  BY <1>1, <1>2, <1>3

LEMMA ScanStep == ScanInv /\ [Next]_vars => ScanInv'
  <1>1. ASSUME ScanInv, UNCHANGED vars
        PROVE  ScanInv'
    <2>1. UNCHANGED <<dn, i, start, parts, n, pc, result>>
      BY <1>1 DEF vars
    <2>2. EvenRun(i)' = EvenRun(i)
      BY <2>1 DEF EvenRun, RunBefore
    <2>3. Commas' = Commas
      BY <2>1, SameText
    <2> QED
      BY <1>1, <2>1, <2>2, <2>3
         DEF ScanInv, ParserTypeOK, Adjoining, CutSoFar, CutsExact
  <1> QED
    BY <1>1, EscapeInv, CutInv, SkipInv, LastPartInv, ExtractKeepsScan
       DEF Next, split_rdns

LEMMA ScanInvariant == Spec => []ScanInv
  BY ScanInit, ScanStep, PTL DEF Spec

\* split_rdns cuts every text, of any length and over any characters, at
\* exactly the commas that an even number of backslashes precedes.
THEOREM CutsAreExact == Spec => []CutsExact
  BY ScanInvariant, PTL DEF ScanInv
-----------------------------------------------------------------------------
(* What the helpers return *)

\* Trimming a text gives a text.
LEMMA TrimType ==
    ASSUME NEW s \in Seq(Chars)
    PROVE  trim(s) \in Seq(Chars)
  <1> DEFINE solid == {j \in 1 .. Len(s) : s[j] \notin Whitespace}
  <1>1. CASE solid = {}
    BY <1>1 DEF trim
  <1>2. CASE solid # {}
    <2>1. solid \subseteq Nat /\ solid \subseteq 0 .. Len(s) /\ Len(s) \in Nat
      OBVIOUS
    <2>2. Min(solid) \in solid /\ Max(solid) \in solid
      BY <1>2, <2>1, MinFacts, MaxFacts
    <2>3. \A j \in Min(solid) .. Max(solid) : s[j] \in Chars
      BY <2>2
    <2>4. SubSeq(s, Min(solid), Max(solid)) \in Seq(Chars)
      <3>1. Min(solid) \in Int /\ Max(solid) \in Int
        BY <2>2
      <3> HIDE DEF solid
      <3> QED  BY <2>3, <3>1, SubSeqProperties
    <2> QED  BY <1>2, <2>4 DEF trim
  <1> QED  BY <1>1, <1>2

\* The value of an RDN is a text.
LEMMA RdnValueType ==
    ASSUME NEW s \in Seq(Chars), rdn(s) # None
    PROVE  rdn(s).value \in Seq(Chars)
  <1> DEFINE t == trim(s)
             I == {k \in 1 .. Len(t) : t[k] = "equals"}
             eq == IF I # {} THEN Min(I) ELSE 0
  <1>1. t \in Seq(Chars) /\ Len(t) \in Nat
    BY TrimType
  <1>2. eq \in Nat
    <2>1. I \subseteq Nat
      OBVIOUS
    <2> QED  BY <2>1, MinFacts
  <1>3. rdn(s).value = trim(SubSeq(t, eq + 1, Len(t)))
    BY DEF rdn, SelectInSeq
  <1>4. SubSeq(t, eq + 1, Len(t)) \in Seq(Chars)
    <2>1. \A k \in eq + 1 .. Len(t) : t[k] \in Chars
      BY <1>1, <1>2
    <2> HIDE DEF t, eq
    <2> QED  BY <1>1, <1>2, <2>1, SubSeqProperties
  <1> QED  BY <1>3, <1>4, TrimType

\* The first RDN that is malformed or names the attribute decides.
LEMMA FirstDecides ==
    ASSUME NEW R, NEW rdns \in Seq(R), NEW a, NEW m \in 1 .. Len(rdns),
           \A k \in 1 .. m - 1 : rdns[k] # None /\ rdns[k].key # a,
           rdns[m] = None \/ rdns[m].key = a
    PROVE  extract_dn_attribute(rdns, a) =
               IF rdns[m] = None THEN None ELSE rdns[m].value
  <1> DEFINE I == {k \in 1 .. Len(rdns) : rdns[k] = None \/ rdns[k].key = a}
  <1>1. m \in I /\ \A k \in I : m <= k
    OBVIOUS
  <1>2. Min(I) = m
    <2>1. I \subseteq Nat
      OBVIOUS
    <2>2. Min(I) \in I /\ Min(I) <= m /\ m <= Min(I)
      BY <1>1, <2>1, MinFacts
    <2> QED  BY <2>1, <2>2
  <1>3. m # 0
    OBVIOUS
  <1> HIDE DEF I
  <1> QED  BY <1>1, <1>2, <1>3 DEF extract_dn_attribute, SelectInSeq, I

LEMMA NobodyDecides ==
    ASSUME NEW rdns, NEW a,
           \A k \in 1 .. Len(rdns) : rdns[k] # None /\ rdns[k].key # a
    PROVE  extract_dn_attribute(rdns, a) = None
  BY DEF extract_dn_attribute, SelectInSeq

-----------------------------------------------------------------------------
(* The loop over the parts *)

Attr == to_uppercase(dn_attribute)
Rdns == [k \in 1 .. Len(parts) |-> Rdn(parts[k])]
Undecided(k) == Rdn(parts[k]) # None /\ Rdn(parts[k]).key # Attr

\* None of the parts before n has decided.
ExtractInv ==
    /\ pc = "split" => n = 1
    /\ pc = "extract" => \A k \in 1 .. Len(parts) : k < n => Undecided(k)
    /\ SubjectExact

\* The parts lie inside the text.
LEMMA PartsInside ==
    ASSUME ScanInv, pc # "split", NEW k \in 1 .. Len(parts)
    PROVE  SubSeq(dn, parts[k][1], parts[k][2]) \in Seq(Chars)
  <1>1. /\ parts \in Seq(Nat \X Nat) /\ Len(parts) \in Nat /\ Len(dn) \in Nat
        /\ dn \in Seq(Chars)
        /\ \A l \in 1 .. Len(parts) : parts[l][1] \in Nat /\ parts[l][2] \in Nat
    BY DEF ScanInv, ParserTypeOK
  <1>2. CutsExact
    BY DEF ScanInv
  <1>3. parts[k][1] >= 1
    <2>1. CASE k = 1
      BY <1>2, <2>1 DEF CutsExact
    <2>2. CASE k # 1
      <3>1. k - 1 \in 1 .. Len(parts) - 1 /\ k - 1 \in 1 .. Len(parts)
                /\ (k - 1) + 1 = k
        BY <1>1, <2>2
      <3>2. parts[k][1] = parts[k - 1][2] + 2
        BY <1>2, <3>1 DEF CutsExact
      <3>3. parts[k - 1][2] \in Nat
        BY <1>1, <3>1
      <3> QED  BY <3>2, <3>3
    <2> QED  BY <2>1, <2>2
  <1>4. parts[k][2] <= Len(dn)
    <2>1. CASE k = Len(parts)
      BY <1>1, <1>2, <2>1 DEF CutsExact
    <2>2. CASE k # Len(parts)
      <3>1. k \in 1 .. Len(parts) - 1
        BY <1>1, <2>2
      <3>2. parts[k][2] + 1 \in Commas
        BY <1>2, <3>1 DEF CutsExact
      <3> QED  BY <1>1, <3>2 DEF Commas
    <2> QED  BY <2>1, <2>2
  <1>5. \A l \in parts[k][1] .. parts[k][2] : dn[l] \in Chars
    BY <1>1, <1>3, <1>4
  <1>6. parts[k][1] \in Int /\ parts[k][2] \in Int
    BY <1>1
  <1> QED  BY <1>5, <1>6, SubSeqProperties

LEMMA RdnsFacts ==
    ASSUME ScanInv
    PROVE  /\ Rdns \in Seq({Rdn(parts[k]) : k \in 1 .. Len(parts)})
           /\ Len(Rdns) = Len(parts)
           /\ \A k \in 1 .. Len(parts) : Rdns[k] = Rdn(parts[k])
           /\ Len(parts) \in Nat
  <1> DEFINE R == {Rdn(parts[k]) : k \in 1 .. Len(parts)}
  <1>1. Len(parts) \in Nat
    BY DEF ScanInv, ParserTypeOK
  <1>2. \A k \in 1 .. Len(parts) : Rdn(parts[k]) \in R
    OBVIOUS
  <1> HIDE DEF R
  <1>3. Rdns \in [1 .. Len(parts) -> R]
    BY <1>2 DEF Rdns
  <1>4. Rdns \in Seq(R)
    BY <1>1, <1>3
  <1>5. Len(Rdns) = Len(parts)
    BY <1>1, <1>3, <1>4
  <1> QED  BY <1>1, <1>4, <1>5 DEF Rdns, R

LEMMA ExtractStart ==
    ASSUME NEW text, Start(text)
    PROVE  ExtractInv
  BY DEF Start, ExtractInv, SubjectExact

LEMMA ExtractInit == Init => ExtractInv
  BY ExtractStart DEF Init

LEMMA MalformedExact ==
    ASSUME ScanInv, ExtractInv, Malformed
    PROVE  ExtractInv'
  <1>1. /\ pc = "extract" /\ pc' = "done" /\ result' = InvalidDn
        /\ n <= Len(parts) /\ Rdn(parts[n]) = None
        /\ UNCHANGED <<dn, parts>>
    BY DEF Malformed, Finish
  <1>2. n \in 1 .. Len(parts)
    BY <1>1 DEF ScanInv, ParserTypeOK
  <1>3. \A k \in 1 .. n - 1 : Rdns[k] # None /\ Rdns[k].key # Attr
    BY <1>1, <1>2, RdnsFacts DEF ExtractInv, Undecided
  <1>4. extract_dn_attribute(Rdns, Attr) = None
    BY <1>1, <1>2, <1>3, RdnsFacts, FirstDecides
  <1>5. Rdns' = Rdns
    BY <1>1 DEF Rdns, Rdn
  <1>6. SubjectExact'
    <2>1. extract_dn_attribute(Rdns', Attr) = None
      BY <1>4, <1>5
    <2> QED  BY <1>1, <2>1 DEF SubjectExact, Rdns, Attr
  <1> QED  BY <1>1, <1>6 DEF ExtractInv

LEMMA MatchExact ==
    ASSUME ScanInv, ExtractInv, Match
    PROVE  ExtractInv'
  <1>1. /\ pc = "extract" /\ pc' = "done" /\ n <= Len(parts)
        /\ Rdn(parts[n]) # None /\ Rdn(parts[n]).key = Attr
        /\ result' = Ok(Rdn(parts[n]).value)
        /\ UNCHANGED <<dn, parts>>
    BY DEF Match, Finish, Attr
  <1>2. n \in 1 .. Len(parts)
    BY <1>1 DEF ScanInv, ParserTypeOK
  <1>3. \A k \in 1 .. n - 1 : Rdns[k] # None /\ Rdns[k].key # Attr
    BY <1>1, <1>2, RdnsFacts DEF ExtractInv, Undecided
  <1>4. extract_dn_attribute(Rdns, Attr) = Rdn(parts[n]).value
    <2>1. Rdns[n] = Rdn(parts[n])
      BY <1>2, RdnsFacts
    <2> QED  BY <1>1, <1>2, <1>3, <2>1, RdnsFacts, FirstDecides
  <1>5. Rdns' = Rdns
    BY <1>1 DEF Rdns, Rdn
  <1>6. Rdn(parts[n]).value # None
    <2>1. SubSeq(dn, parts[n][1], parts[n][2]) \in Seq(Chars)
      BY <1>1, <1>2, PartsInside
    <2>2. Rdn(parts[n]).value \in Seq(Chars)
      BY <1>1, <2>1, RdnValueType DEF Rdn
    <2> QED  BY <2>2, ParserAssumption
  <1>7. SubjectExact'
    <2>1. extract_dn_attribute(Rdns', Attr) = Rdn(parts[n]).value
      BY <1>4, <1>5
    <2> QED  BY <1>1, <1>6, <2>1 DEF SubjectExact, Rdns, Attr
  <1> QED  BY <1>1, <1>7 DEF ExtractInv

LEMMA OtherExact ==
    ASSUME ScanInv, ExtractInv, OtherAttribute
    PROVE  ExtractInv'
  <1>1. /\ pc = "extract" /\ pc' = "extract" /\ n' = n + 1 /\ Undecided(n)
        /\ UNCHANGED <<dn, parts>>
    BY DEF OtherAttribute, Undecided, Attr
  <1>2. n \in Nat
    BY DEF ScanInv, ParserTypeOK
  <1>3. \A k \in 1 .. Len(parts) : k < n + 1 => Undecided(k)
    BY <1>1, <1>2 DEF ExtractInv
  <1>4. \A k \in 1 .. Len(parts) : Undecided(k)' <=> Undecided(k)
    BY <1>1 DEF Undecided, Rdn, Attr
  <1> QED  BY <1>1, <1>3, <1>4 DEF ExtractInv, SubjectExact

LEMMA ExhaustedExact ==
    ASSUME ScanInv, ExtractInv, Exhausted
    PROVE  ExtractInv'
  <1>1. /\ pc = "extract" /\ pc' = "done" /\ result' = AttributeNotFound
        /\ n > Len(parts)
        /\ UNCHANGED <<dn, parts>>
    BY DEF Exhausted, Finish
  <1>2. n \in Nat /\ Len(parts) \in Nat
    BY DEF ScanInv, ParserTypeOK
  <1>3. \A k \in 1 .. Len(Rdns) : Rdns[k] # None /\ Rdns[k].key # Attr
    BY <1>1, <1>2, RdnsFacts DEF ExtractInv, Undecided
  <1>4. extract_dn_attribute(Rdns, Attr) = None
    BY <1>3, NobodyDecides
  <1>5. Rdns' = Rdns
    BY <1>1 DEF Rdns, Rdn
  <1>6. SubjectExact'
    <2>1. extract_dn_attribute(Rdns', Attr) = None
      BY <1>4, <1>5
    <2> QED  BY <1>1, <2>1 DEF SubjectExact, Rdns, Attr
  <1> QED  BY <1>1, <1>6 DEF ExtractInv

LEMMA ExtractStep == ScanInv /\ ExtractInv /\ [Next]_vars => ExtractInv'
  <1> SUFFICES ASSUME ScanInv, ExtractInv, [Next]_vars
               PROVE  ExtractInv'
    OBVIOUS
  <1>1. CASE Escape \/ Cut \/ Skip
    BY <1>1 DEF Escape, Cut, Skip, ExtractInv, SubjectExact
  <1>2. CASE LastPart
    BY <1>2 DEF LastPart, ExtractInv, SubjectExact
  <1>3. CASE UNCHANGED vars
    <2>1. UNCHANGED <<dn, parts, n, pc, result>>
      BY <1>3 DEF vars
    <2>2. \A k \in 1 .. Len(parts) : Undecided(k)' <=> Undecided(k)
      BY <2>1 DEF Undecided, Rdn, Attr
    <2>3. SubjectExact'
      BY <2>1 DEF ExtractInv, SubjectExact, Rdn
    <2> QED  BY <2>1, <2>2, <2>3 DEF ExtractInv
  <1> QED
    BY <1>1, <1>2, <1>3, MalformedExact, MatchExact, OtherExact, ExhaustedExact
       DEF Next, split_rdns, extract

\* On every header UserManager::resolve has the outcome that the model of the
\* flow gives it: the subject of the first RDN that names the attribute, unless
\* a malformed one comes before it.
THEOREM SubjectIsExact == Spec => []SubjectExact
  <1>1. ScanInv /\ ExtractInv /\ [Next]_vars => ExtractInv'
    BY ExtractStep
  <1> QED
    BY <1>1, ScanInvariant, ExtractInit, PTL DEF Spec, ExtractInv

=============================================================================
