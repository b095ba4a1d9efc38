------------------------ MODULE CorrectionStream_proofs ------------------------
(***************************************************************************)
(* Proofs about CorrectionStream and the parser RtcmFraming inside it, for *)
(* any bytes, length field, checksum, messages, chunks and broken          *)
(* connections.                                                            *)
(***************************************************************************)
EXTENDS CorrectionStream, SequenceTheorems, WellFoundedInduction, TLAPS

-----------------------------------------------------------------------------
(* Induction without an operator as a parameter: a set of numbers that     *)
(* holds 0 and with each number the next is all of Nat.                    *)
LEMMA LeastNumber ==
  ASSUME NEW T \in SUBSET Nat, T # {}
  PROVE  \E n \in T : \A m \in T : n <= m
<1>1. IsWellFoundedOn(OpToRel(<, Nat), Nat)
  BY NatLessThanWellFounded
<1>2. \E n \in T : \A m \in T : <<m, n>> \notin OpToRel(<, Nat)
  BY <1>1, WFMin
<1>3. \E n \in T : \A m \in T : ~(m < n)
  BY <1>2 DEF OpToRel
<1> QED
  BY <1>3

LEMMA InductiveSet ==
  ASSUME NEW T \in SUBSET Nat, 0 \in T, \A n \in T : n + 1 \in T
  PROVE  T = Nat
<1> SUFFICES ASSUME Nat \ T # {} PROVE FALSE
  OBVIOUS
<1>4. PICK n \in Nat \ T : \A m \in Nat \ T : n <= m
  BY LeastNumber
<1>5. n # 0 /\ n - 1 \in Nat /\ n - 1 < n
  BY <1>4
<1>6. n - 1 \in T
  BY <1>4, <1>5
<1> QED
  BY <1>4, <1>5, <1>6

-----------------------------------------------------------------------------
(* Stretches of a stream of bytes *)

LEMMA FromProperties ==
  ASSUME NEW s \in Seq(Bytes), NEW i \in 1 .. Len(s) + 1
  PROVE  /\ From(s, i) \in Seq(Bytes)
         /\ Len(From(s, i)) = Len(s) - i + 1
         /\ \A j \in 1 .. Len(s) - i + 1 : From(s, i)[j] = s[i + j - 1]
<1>1. Len(s) \in Nat /\ \A j \in 1 .. Len(s) : s[j] \in Bytes
  BY LenProperties, ElementOfSeq
<1>2. \A j \in i .. Len(s) : s[j] \in Bytes
  BY <1>1
<1> QED
  BY <1>1, <1>2, SubSeqProperties DEF From

LEMMA FrameLengthAt ==
  ASSUME NEW s \in Seq(Bytes), NEW i \in 1 .. Len(s), Header(s, i)
  PROVE  /\ FrameLength(From(s, i)) = HeaderLength + LengthOf[<<s[i + 1], s[i + 2]>>] + CrcLength
         /\ FrameLength(From(s, i)) \in HeaderLength + 1 .. MaxFrame
<1>1. /\ Len(s) \in Nat /\ i + 1 \in 1 .. Len(s) /\ i + 2 \in 1 .. Len(s)
      /\ i \in 1 .. Len(s) + 1
      /\ 2 \in 1 .. Len(s) - i + 1 /\ 3 \in 1 .. Len(s) - i + 1
  BY LenProperties DEF Header
<1>2. s[i + 1] \in Bytes /\ s[i + 2] \in Bytes
  BY <1>1, ElementOfSeq
<1>3. From(s, i)[2] = s[i + 1] /\ From(s, i)[3] = s[i + 2]
  BY <1>1, FromProperties
<1>4. LengthOf[<<s[i + 1], s[i + 2]>>] \in 0 .. MaxPayload
  BY <1>2, FramingAssumption
<1> QED
  BY <1>3, <1>4, FramingAssumption, SMTT(60) DEF FrameLength, HeaderLength, MaxFrame

LEMMA FrameExtent ==
  ASSUME NEW s \in Seq(Bytes), NEW i \in 1 .. Len(s), FrameAt(s, i)
  PROVE  EndOf(s, i) \in i .. Len(s) /\ SubSeq(s, i, EndOf(s, i)) \in Seq(Bytes)
<1>1. Len(s) \in Nat /\ \A j \in 1 .. Len(s) : s[j] \in Bytes
  BY LenProperties, ElementOfSeq
<1>2. FrameLength(From(s, i)) \in HeaderLength + 1 .. MaxFrame
  BY FrameLengthAt DEF FrameAt
<1>3. EndOf(s, i) \in i .. Len(s)
  BY <1>1, <1>2, FramingAssumption DEF EndOf, FrameAt, HeaderLength, MaxFrame
<1>4. \A j \in i .. EndOf(s, i) : s[j] \in Bytes
  BY <1>1, <1>3
<1> QED
  BY <1>1, <1>3, <1>4, SubSeqProperties

-----------------------------------------------------------------------------
(* The reference scan: its recursion, and the type of what it finds *)

FramesStep(s, g, i) ==
  IF i > Len(s) THEN <<>>
  ELSE IF FrameAt(s, i) THEN <<SubSeq(s, i, EndOf(s, i))>> \o g[EndOf(s, i) + 1]
  ELSE IF Undecided(s, i) THEN <<>>
  ELSE g[i + 1]

(* What the step looks at lies behind it. *)
LEMMA StepLooksAhead ==
  ASSUME NEW s \in Seq(Bytes), NEW i \in 1 .. Len(s) + 1, NEW g, NEW h,
         \A j \in i + 1 .. Len(s) + 1 : g[j] = h[j]
  PROVE  FramesStep(s, g, i) = FramesStep(s, h, i)
<1>1. Len(s) \in Nat
  BY LenProperties
<1>2. ASSUME i <= Len(s), FrameAt(s, i) PROVE EndOf(s, i) + 1 \in i + 1 .. Len(s) + 1
  BY <1>1, <1>2, FrameExtent
<1>3. i <= Len(s) => i + 1 \in i + 1 .. Len(s) + 1
  BY <1>1
<1> QED
  BY <1>1, <1>2, <1>3 DEF FramesStep

LEMMA FramesFromExists ==
  ASSUME NEW s \in Seq(Bytes)
  PROVE  \E g : g = [i \in 1 .. Len(s) + 1 |-> FramesStep(s, g, i)]
<1> DEFINE n == Len(s) + 1
           T == {k \in Nat : k < n => \E g : g = [i \in n - k .. n |-> FramesStep(s, g, i)]}
<1>0. Len(s) \in Nat /\ n \in Nat \ {0}
  BY LenProperties
<1>1. 0 \in T
  <2> DEFINE g == [i \in n .. n |-> <<>>]
  <2>1. \A i \in n .. n : FramesStep(s, g, i) = <<>>
    BY <1>0 DEF FramesStep
  <2>2. g = [i \in n - 0 .. n |-> FramesStep(s, g, i)]
    BY <1>0, <2>1
  <2> HIDE DEF g
  <2>3. \E f : f = [i \in n - 0 .. n |-> FramesStep(s, f, i)]
    BY <2>2
  <2> HIDE DEF n
  <2> QED
    BY <2>3
<1>2. ASSUME NEW k \in T PROVE k + 1 \in T
  <2> SUFFICES ASSUME k + 1 < n
               PROVE  \E g : g = [i \in n - (k + 1) .. n |-> FramesStep(s, g, i)]
    OBVIOUS
  <2>1. PICK g : g = [i \in n - k .. n |-> FramesStep(s, g, i)]
    BY <1>0
  <2> DEFINE m == n - (k + 1)
             h == [i \in m .. n |-> IF i = m THEN FramesStep(s, g, m) ELSE g[i]]
  <2>2. m \in 1 .. n /\ m + 1 = n - k
    BY <1>0
  <2>3. \A i \in m + 1 .. n : g[i] = FramesStep(s, g, i) /\ h[i] = g[i]
    <3>1. \A i \in n - k .. n : g[i] = FramesStep(s, g, i)
      BY <2>1
    <3>2. \A i \in m + 1 .. n : h[i] = g[i]
      BY <1>0, <2>2
    <3> QED
      BY <2>2, <3>1, <3>2
  <2>4. h[m] = FramesStep(s, g, m)
    BY <2>2
  <2> HIDE DEF h
  <2>5. \A i \in m .. n : FramesStep(s, g, i) = FramesStep(s, h, i)
    <3> TAKE i \in m .. n
    <3>1. i \in 1 .. Len(s) + 1 /\ \A j \in i + 1 .. Len(s) + 1 : g[j] = h[j]
      BY <2>2, <2>3
    <3> HIDE DEF n, m
    <3> QED
      BY <3>1, StepLooksAhead
  <2>6. \A i \in m .. n : h[i] = FramesStep(s, h, i)
    BY <2>2, <2>3, <2>4, <2>5
  <2>7. h = [i \in m .. n |-> FramesStep(s, h, i)]
    BY <2>6 DEF h
  <2>8. \E f : f = [i \in m .. n |-> FramesStep(s, f, i)]
    BY <2>7
  <2> QED
    BY <2>8
<1>3. T = Nat
  <2> HIDE DEF T
  <2>1. T \in SUBSET Nat
    BY DEF T
  <2> QED
    BY <1>1, <1>2, <2>1, InductiveSet
<1>4. Len(s) \in T /\ Len(s) < n /\ n - Len(s) = 1
  BY <1>0, <1>3
<1> QED
  BY <1>4

LEMMA FramesFromStep ==
  ASSUME NEW s \in Seq(Bytes)
  PROVE  \A i \in 1 .. Len(s) + 1 : FramesFrom(s)[i] = FramesStep(s, FramesFrom(s), i)
<1>1. \E g : g = [i \in 1 .. Len(s) + 1 |-> FramesStep(s, g, i)]
  BY FramesFromExists
<1>2. FramesFrom(s) = CHOOSE g : g = [i \in 1 .. Len(s) + 1 |-> FramesStep(s, g, i)]
  BY DEF FramesFrom, FramesStep
<1>3. FramesFrom(s) = [i \in 1 .. Len(s) + 1 |-> FramesStep(s, FramesFrom(s), i)]
  BY <1>1, <1>2, Zenon
<1> QED
  BY <1>3

LEMMA FramesFromType ==
  ASSUME NEW s \in Seq(Bytes)
  PROVE  \A i \in 1 .. Len(s) + 1 : FramesFrom(s)[i] \in Seq(Seq(Bytes))
<1> DEFINE F == FramesFrom(s)
           T == {k \in Nat : \A i \in 1 .. Len(s) + 1 :
                               i >= Len(s) + 1 - k => F[i] \in Seq(Seq(Bytes))}
<1>0. Len(s) \in Nat
  BY LenProperties
<1>1. \A i \in 1 .. Len(s) + 1 : F[i] = FramesStep(s, F, i)
  BY FramesFromStep
<1> HIDE DEF F
<1>2. 0 \in T
  <2> SUFFICES ASSUME NEW i \in 1 .. Len(s) + 1, i >= Len(s) + 1 - 0
               PROVE  F[i] \in Seq(Seq(Bytes))
    OBVIOUS
  <2>1. F[i] = FramesStep(s, F, i)
    BY <1>1
  <2>2. FramesStep(s, F, i) = <<>>
    BY <1>0 DEF FramesStep
  <2> QED
    BY <2>1, <2>2, EmptySeq
<1>3. ASSUME NEW k \in T PROVE k + 1 \in T
  <2> SUFFICES ASSUME NEW i \in 1 .. Len(s) + 1, i >= Len(s) + 1 - (k + 1)
               PROVE  F[i] \in Seq(Seq(Bytes))
    OBVIOUS
  <2>1. \A j \in i + 1 .. Len(s) + 1 : F[j] \in Seq(Seq(Bytes))
    BY <1>0
  <2>0. F[i] = FramesStep(s, F, i)
    BY <1>1
  <2>2. CASE i > Len(s)
    BY <2>0, <2>2, EmptySeq DEF FramesStep
  <2>3. CASE i <= Len(s) /\ FrameAt(s, i)
    <3>1. EndOf(s, i) + 1 \in i + 1 .. Len(s) + 1 /\ SubSeq(s, i, EndOf(s, i)) \in Seq(Bytes)
      BY <1>0, <2>3, FrameExtent
    <3>2. F[EndOf(s, i) + 1] \in Seq(Seq(Bytes)) /\ <<SubSeq(s, i, EndOf(s, i))>> \in Seq(Seq(Bytes))
      BY <2>1, <3>1
    <3>3. <<SubSeq(s, i, EndOf(s, i))>> \o F[EndOf(s, i) + 1] \in Seq(Seq(Bytes))
      BY <3>2, ConcatProperties
    <3> QED
      BY <1>0, <2>0, <2>3, <3>3 DEF FramesStep
  <2>4. CASE i <= Len(s) /\ ~FrameAt(s, i)
    <3>1. F[i + 1] \in Seq(Seq(Bytes)) /\ <<>> \in Seq(Seq(Bytes))
      BY <1>0, <2>1, <2>4, EmptySeq
    <3> QED
      BY <1>0, <2>0, <2>4, <3>1 DEF FramesStep
  <2> QED
    BY <1>0, <2>2, <2>3, <2>4
<1>4. T = Nat
  <2> HIDE DEF T
  <2>1. T \in SUBSET Nat
    BY DEF T
  <2> QED
    BY <1>2, <1>3, <2>1, InductiveSet
<1>5. Len(s) + 1 \in T
  BY <1>0, <1>4
<1> QED
  BY <1>0, <1>5 DEF F

-----------------------------------------------------------------------------
(* What more bytes do not change: a position the scan has decided about *)

LEMMA Longer ==
  ASSUME NEW s \in Seq(Bytes), NEW e \in Seq(Bytes)
  PROVE  /\ s \o e \in Seq(Bytes)
         /\ Len(s) \in Nat /\ Len(s \o e) \in Nat /\ Len(s) <= Len(s \o e)
         /\ \A i \in 1 .. Len(s) : (s \o e)[i] = s[i]
         /\ \A i, n \in 1 .. Len(s) : SubSeq(s \o e, i, n) = SubSeq(s, i, n)
<1>1. /\ s \o e \in Seq(Bytes) /\ Len(s) \in Nat /\ Len(e) \in Nat
      /\ Len(s \o e) = Len(s) + Len(e)
      /\ \A i \in 1 .. Len(s) : (s \o e)[i] = s[i]
  BY ConcatProperties, LenProperties
<1>2. ASSUME NEW i \in 1 .. Len(s), NEW n \in 1 .. Len(s)
      PROVE  SubSeq(s \o e, i, n) = SubSeq(s, i, n)
  BY SubSeqOfConcat1
<1> QED
  BY <1>1, <1>2

LEMMA EndStays ==
  ASSUME NEW s \in Seq(Bytes), NEW e \in Seq(Bytes), NEW i \in 1 .. Len(s), Header(s, i)
  PROVE  Header(s \o e, i) /\ EndOf(s \o e, i) = EndOf(s, i)
<1>1. /\ s \o e \in Seq(Bytes) /\ i \in 1 .. Len(s \o e)
      /\ (s \o e)[i + 1] = s[i + 1] /\ (s \o e)[i + 2] = s[i + 2]
      /\ Header(s \o e, i)
  BY Longer DEF Header
<1>2. /\ FrameLength(From(s, i)) = HeaderLength + LengthOf[<<s[i + 1], s[i + 2]>>] + CrcLength
      /\ FrameLength(From(s \o e, i))
           = HeaderLength + LengthOf[<<(s \o e)[i + 1], (s \o e)[i + 2]>>] + CrcLength
  BY <1>1, FrameLengthAt
<1> QED
  BY <1>1, <1>2 DEF EndOf

LEMMA FrameStays ==
  ASSUME NEW s \in Seq(Bytes), NEW e \in Seq(Bytes), NEW i \in 1 .. Len(s), FrameAt(s, i)
  PROVE  /\ FrameAt(s \o e, i)
         /\ EndOf(s \o e, i) = EndOf(s, i)
         /\ SubSeq(s \o e, i, EndOf(s, i)) = SubSeq(s, i, EndOf(s, i))
<1>1. Header(s, i) /\ EndOf(s, i) \in i .. Len(s)
  BY FrameExtent DEF FrameAt
<1>2. EndOf(s \o e, i) = EndOf(s, i) /\ Header(s \o e, i)
  BY <1>1, EndStays
<1>3. /\ Len(s) \in Nat /\ Len(s \o e) \in Nat /\ Len(s) <= Len(s \o e)
      /\ (s \o e)[i] = s[i] /\ (s \o e)[i + 1] = s[i + 1]
  BY <1>1, Longer DEF Header
<1>4. SubSeq(s \o e, i, EndOf(s, i)) = SubSeq(s, i, EndOf(s, i))
  BY <1>1, <1>3, Longer
<1> QED
  BY <1>1, <1>2, <1>3, <1>4 DEF FrameAt

(* no frame starts at i, whatever follows, and none will *)
Passed(s, i) == \A e \in Seq(Bytes) : ~FrameAt(s \o e, i) /\ ~Undecided(s \o e, i)

LEMMA NoPreamblePasses ==
  ASSUME NEW s \in Seq(Bytes), NEW i \in 1 .. Len(s), s[i] # Preamble
  PROVE  Passed(s, i)
<1> SUFFICES ASSUME NEW e \in Seq(Bytes)
             PROVE  ~FrameAt(s \o e, i) /\ ~Undecided(s \o e, i)
  BY DEF Passed
<1>1. (s \o e)[i] = s[i]
  BY Longer
<1> QED
  BY <1>1 DEF FrameAt, Undecided

LEMMA ReservedPasses ==
  ASSUME NEW s \in Seq(Bytes), NEW i \in 1 .. Len(s), Header(s, i), s[i + 1] \in Reserved
  PROVE  Passed(s, i)
<1> SUFFICES ASSUME NEW e \in Seq(Bytes)
             PROVE  ~FrameAt(s \o e, i) /\ ~Undecided(s \o e, i)
  BY DEF Passed
<1>1. (s \o e)[i + 1] = s[i + 1] /\ Header(s \o e, i)
  BY Longer, EndStays DEF Header
<1> QED
  BY <1>1 DEF FrameAt, Undecided

LEMMA MismatchPasses ==
  ASSUME NEW s \in Seq(Bytes), NEW i \in 1 .. Len(s), Header(s, i), EndOf(s, i) \in i .. Len(s),
         ~CrcMatches(SubSeq(s, i, EndOf(s, i)))
  PROVE  Passed(s, i)
<1> SUFFICES ASSUME NEW e \in Seq(Bytes)
             PROVE  ~FrameAt(s \o e, i) /\ ~Undecided(s \o e, i)
  BY DEF Passed
<1>1. Header(s \o e, i) /\ EndOf(s \o e, i) = EndOf(s, i)
  BY EndStays
<1>2. /\ Len(s) \in Nat /\ Len(s \o e) \in Nat /\ Len(s) <= Len(s \o e)
      /\ SubSeq(s \o e, i, EndOf(s, i)) = SubSeq(s, i, EndOf(s, i))
  BY Longer
<1> QED
  BY <1>1, <1>2 DEF FrameAt, Undecided

-----------------------------------------------------------------------------
(* The scan up to position i: what it has found is what any stream that    *)
(* starts with s has before i; and of every position before i it is known  *)
(* that a published frame starts there or covers it, or that none starts.  *)

ScannedTo(s, i, frames) ==
  \A e \in Seq(Bytes) : FramesOf(s \o e) = frames \o FramesFrom(s \o e)[i]

Covered(s, i, at) == \E j \in at : j < i /\ i <= EndOf(s, j)

History(s, i, at) ==
  /\ \A j \in at : j \in 1 .. i - 1 /\ FrameAt(s, j) /\ EndOf(s, j) < i
  /\ \A j \in 1 .. i - 1 : j \in at \/ Covered(s, j, at) \/ Passed(s, j)

Scan(s, i, frames, at) ==
  /\ i \in 1 .. Len(s) + 1
  /\ frames \in Seq(Seq(Bytes))
  /\ ScannedTo(s, i, frames)
  /\ History(s, i, at)

LEMMA ScanStart == Scan(<<>>, 1, <<>>, {})
<1>1. Len(<<>>) = 0 /\ <<>> \in Seq(Bytes) /\ <<>> \in Seq(Seq(Bytes))
  BY EmptySeq
<1>2. ScannedTo(<<>>, 1, <<>>)
  <2> SUFFICES ASSUME NEW e \in Seq(Bytes)
               PROVE  FramesOf(<<>> \o e) = <<>> \o FramesFrom(<<>> \o e)[1]
    BY DEF ScannedTo
  <2>1. <<>> \o e = e /\ 1 \in 1 .. Len(e) + 1
    BY ConcatEmptySeq, LenProperties
  <2>2. FramesFrom(e)[1] \in Seq(Seq(Bytes))
    BY <2>1, FramesFromType
  <2>3. <<>> \o FramesFrom(e)[1] = FramesFrom(e)[1]
    BY <2>2, ConcatEmptySeq
  <2> QED
    BY <2>1, <2>3 DEF FramesOf
<1> QED
  BY <1>1, <1>2 DEF Scan, History

LEMMA ScanReceives ==
  ASSUME NEW s \in Seq(Bytes), NEW c \in Seq(Bytes), NEW i, NEW frames, NEW at,
         Scan(s, i, frames, at)
  PROVE  Scan(s \o c, i, frames, at)
<1>1. /\ s \o c \in Seq(Bytes) /\ Len(s) \in Nat /\ Len(s \o c) \in Nat
      /\ Len(s) <= Len(s \o c)
  BY Longer
<1>2. ASSUME NEW e \in Seq(Bytes)
      PROVE  c \o e \in Seq(Bytes) /\ (s \o c) \o e = s \o (c \o e)
  BY ConcatProperties, ConcatAssociative
<1>3. ScannedTo(s \o c, i, frames)
  <2> SUFFICES ASSUME NEW e \in Seq(Bytes)
               PROVE  FramesOf((s \o c) \o e) = frames \o FramesFrom((s \o c) \o e)[i]
    BY DEF ScannedTo
  <2>1. c \o e \in Seq(Bytes) /\ (s \o c) \o e = s \o (c \o e)
    BY <1>2
  <2>2. FramesOf(s \o (c \o e)) = frames \o FramesFrom(s \o (c \o e))[i]
    BY <2>1 DEF Scan, ScannedTo
  <2> QED
    BY <2>1, <2>2
<1>4. \A j \in 1 .. i - 1 : Passed(s, j) => Passed(s \o c, j)
  BY <1>2 DEF Passed
<1>5. \A j \in at : j \in 1 .. i - 1 /\ FrameAt(s \o c, j) /\ EndOf(s \o c, j) = EndOf(s, j)
  <2> TAKE j \in at
  <2>1. j \in 1 .. i - 1 /\ j \in 1 .. Len(s) /\ FrameAt(s, j)
    BY <1>1 DEF Scan, History
  <2> QED
    BY <2>1, FrameStays
<1>6. History(s \o c, i, at)
  BY <1>4, <1>5 DEF Scan, History, Covered
<1> QED
  BY <1>1, <1>3, <1>6 DEF Scan

(* the scan goes on behind a position without a frame *)
LEMMA ScanPasses ==
  ASSUME NEW s \in Seq(Bytes), NEW i \in 1 .. Len(s), NEW frames, NEW at,
         Scan(s, i, frames, at), Passed(s, i)
  PROVE  Scan(s, i + 1, frames, at)
<1>1. Len(s) \in Nat /\ i + 1 \in 1 .. Len(s) + 1
  BY LenProperties
<1>2. ScannedTo(s, i + 1, frames)
  <2> SUFFICES ASSUME NEW e \in Seq(Bytes)
               PROVE  FramesFrom(s \o e)[i] = FramesFrom(s \o e)[i + 1]
    BY DEF Scan, ScannedTo
  <2>1. s \o e \in Seq(Bytes) /\ i \in 1 .. Len(s \o e) + 1 /\ i <= Len(s \o e)
    BY <1>1, Longer
  <2>2. FramesFrom(s \o e)[i] = FramesStep(s \o e, FramesFrom(s \o e), i)
    BY <2>1, FramesFromStep
  <2>3. ~FrameAt(s \o e, i) /\ ~Undecided(s \o e, i)
    BY DEF Passed
  <2>4. Len(s \o e) \in Nat
    BY Longer
  <2> QED
    BY <2>1, <2>2, <2>3, <2>4 DEF FramesStep
<1>3. History(s, i + 1, at)
  <2>1. \A j \in 1 .. (i + 1) - 1 : j \in 1 .. i - 1 \/ j = i
    OBVIOUS
  <2>2. \A j \in 1 .. i - 1 : j \in 1 .. (i + 1) - 1
    OBVIOUS
  <2>3. \A j \in at : j \in 1 .. i - 1 /\ FrameAt(s, j) /\ EndOf(s, j) < i + 1
    <3> TAKE j \in at
    <3>1. j \in 1 .. i - 1 /\ FrameAt(s, j) /\ EndOf(s, j) < i
      BY DEF Scan, History
    <3>2. EndOf(s, j) \in j .. Len(s)
      BY <1>1, <3>1, FrameExtent
    <3> QED
      BY <1>1, <3>1, <3>2
  <2> QED
    BY <2>1, <2>2, <2>3 DEF Scan, History
<1> QED
  BY <1>1, <1>2, <1>3 DEF Scan

LEMMA ScanSkips ==
  ASSUME NEW s \in Seq(Bytes), NEW i \in 1 .. Len(s) + 1, NEW j \in i .. Len(s) + 1,
         NEW frames, NEW at, Scan(s, i, frames, at),
         \A m \in i .. j - 1 : s[m] # Preamble
  PROVE  Scan(s, j, frames, at)
<1> DEFINE T == {k \in Nat : i + k <= j => Scan(s, i + k, frames, at)}
<1>0. Len(s) \in Nat
  BY LenProperties
<1>1. 0 \in T
  OBVIOUS
<1>2. ASSUME NEW k \in T PROVE k + 1 \in T
  <2> SUFFICES ASSUME i + (k + 1) <= j PROVE Scan(s, i + (k + 1), frames, at)
    OBVIOUS
  <2>1. i + k \in 1 .. Len(s) /\ s[i + k] # Preamble /\ (i + k) + 1 = i + (k + 1)
    BY <1>0
  <2>2. Scan(s, i + k, frames, at)
    BY <1>0
  <2>3. Passed(s, i + k)
    BY <2>1, NoPreamblePasses
  <2>4. Scan(s, (i + k) + 1, frames, at)
    BY <2>1, <2>2, <2>3, ScanPasses
  <2> QED
    BY <2>1, <2>4
<1>3. T = Nat
  <2> HIDE DEF T
  <2>1. T \in SUBSET Nat
    BY DEF T
  <2> QED
    BY <1>1, <1>2, <2>1, InductiveSet
<1>4. j - i \in Nat /\ i + (j - i) = j
  BY <1>0
<1>5. j - i \in T
  <2> HIDE DEF T
  <2> QED
    BY <1>3, <1>4
<1>6. i + (j - i) <= j => Scan(s, i + (j - i), frames, at)
  BY <1>5
<1> QED
  BY <1>0, <1>4, <1>6

LEMMA FramesAssociative ==
  \A u, v, w \in Seq(Seq(Bytes)) : (u \o v) \o w = u \o (v \o w)
<1> DEFINE S == Seq(Bytes)
<1> SUFFICES ASSUME NEW u \in Seq(S), NEW v \in Seq(S), NEW w \in Seq(S)
             PROVE  (u \o v) \o w = u \o (v \o w)
  OBVIOUS
<1> HIDE DEF S
<1> QED
  BY ConcatAssociative, SMTT(60)

(* the scan goes on behind a frame *)
LEMMA ScanPublishes ==
  ASSUME NEW s \in Seq(Bytes), NEW i \in 1 .. Len(s), NEW frames, NEW at,
         Scan(s, i, frames, at), FrameAt(s, i)
  PROVE  Scan(s, EndOf(s, i) + 1, Append(frames, SubSeq(s, i, EndOf(s, i))), at \cup {i})
<1> DEFINE f == SubSeq(s, i, EndOf(s, i))
           n == EndOf(s, i) + 1
<1>1. /\ Len(s) \in Nat /\ n \in i + 1 .. Len(s) + 1 /\ f \in Seq(Bytes)
      /\ frames \in Seq(Seq(Bytes)) /\ <<f>> \in Seq(Seq(Bytes))
  BY LenProperties, FrameExtent DEF Scan
<1>2. Append(frames, f) = frames \o <<f>> /\ Append(frames, f) \in Seq(Seq(Bytes))
  <2> HIDE DEF f
  <2> QED
    BY <1>1, AppendIsConcat, AppendProperties
<1>3. ScannedTo(s, n, Append(frames, f))
  <2> SUFFICES ASSUME NEW e \in Seq(Bytes)
               PROVE  FramesOf(s \o e) = Append(frames, f) \o FramesFrom(s \o e)[n]
    BY DEF ScannedTo
  <2>1. /\ s \o e \in Seq(Bytes) /\ i \in 1 .. Len(s \o e) + 1 /\ n \in 1 .. Len(s \o e) + 1
        /\ i <= Len(s \o e) /\ Len(s \o e) \in Nat
    BY <1>1, Longer
  <2>2. FramesFrom(s \o e)[i] = FramesStep(s \o e, FramesFrom(s \o e), i)
    BY <2>1, FramesFromStep
  <2>3. FrameAt(s \o e, i) /\ EndOf(s \o e, i) + 1 = n /\ SubSeq(s \o e, i, EndOf(s \o e, i)) = f
    BY FrameStays
  <2>4. FramesStep(s \o e, FramesFrom(s \o e), i) = <<f>> \o FramesFrom(s \o e)[n]
    <3> HIDE DEF f, n
    <3> QED
      BY <2>1, <2>3 DEF FramesStep
  <2>5. FramesOf(s \o e) = frames \o (<<f>> \o FramesFrom(s \o e)[n])
    BY <2>2, <2>4 DEF Scan, ScannedTo
  <2>6. FramesFrom(s \o e)[n] \in Seq(Seq(Bytes))
    BY <2>1, FramesFromType
  <2> HIDE DEF f, n
  <2>7. (frames \o <<f>>) \o FramesFrom(s \o e)[n] = frames \o (<<f>> \o FramesFrom(s \o e)[n])
    BY <1>1, <2>6, FramesAssociative
  <2> QED
    BY <1>2, <2>5, <2>7
<1>4. History(s, n, at \cup {i})
  <2>1. ASSUME NEW j \in at \cup {i}
        PROVE  j \in 1 .. n - 1 /\ FrameAt(s, j) /\ EndOf(s, j) < n
    <3>1. CASE j = i
      BY <1>1, <3>1
    <3>2. CASE j \in at
      <4>1. j \in 1 .. i - 1 /\ FrameAt(s, j) /\ EndOf(s, j) < i
        BY <3>2 DEF Scan, History
      <4>2. EndOf(s, j) \in j .. Len(s)
        BY <1>1, <4>1, FrameExtent
      <4> QED
        BY <1>1, <4>1, <4>2
    <3> QED
      BY <3>1, <3>2
  <2>2. ASSUME NEW j \in 1 .. n - 1
        PROVE  j \in at \cup {i} \/ Covered(s, j, at \cup {i}) \/ Passed(s, j)
    <3>1. CASE j < i
      BY <1>1, <3>1 DEF Scan, History, Covered
    <3>2. CASE j >= i
      BY <1>1, <3>2 DEF Covered
    <3> QED
      BY <1>1, <3>1, <3>2
  <2> QED
    BY <2>1, <2>2 DEF History
<1> QED
  BY <1>1, <1>2, <1>3, <1>4 DEF Scan

-----------------------------------------------------------------------------
(* The parser.  Its buffer is the stream from the position the scan has    *)
(* reached; between two calls that is a position not decided yet.          *)

Position == Len(stream) - Len(buffer) + 1

ParserInv ==
  /\ stream \in Seq(Bytes) /\ buffer \in Seq(Bytes)
  /\ draining \in BOOLEAN
  /\ Len(buffer) <= Len(stream)
  /\ buffer = From(stream, Position)
  /\ Scan(stream, Position, published, starts)

WaitInv ==
  ~draining /\ buffer # <<>> => Len(buffer) < MaxFrame /\ Undecided(stream, Position)

(* where the trimmed buffer starts in the stream *)
Candidate == Len(stream) - Len(Trimmed(buffer)) + 1

LEMMA FromAll ==
  ASSUME NEW s \in Seq(Bytes), NEW i \in 1 .. Len(s) + 1, NEW j \in 1 .. Len(s) - i + 2
  PROVE  From(From(s, i), j) = From(s, i + j - 1)
<1>1. /\ Len(s) \in Nat /\ From(s, i) \in Seq(Bytes) /\ Len(From(s, i)) = Len(s) - i + 1
      /\ \A k \in 1 .. Len(s) - i + 1 : From(s, i)[k] = s[i + k - 1]
  BY LenProperties, FromProperties
<1> DEFINE b == From(s, i)
           n == i + j - 1
<1> HIDE DEF b
<1>2. j \in 1 .. Len(b) + 1 /\ n \in 1 .. Len(s) + 1
  BY <1>1 DEF b
<1>3. /\ From(b, j) \in Seq(Bytes) /\ Len(From(b, j)) = Len(b) - j + 1
      /\ \A k \in 1 .. Len(b) - j + 1 : From(b, j)[k] = b[j + k - 1]
  BY <1>1, <1>2, FromProperties DEF b
<1>4. /\ From(s, n) \in Seq(Bytes) /\ Len(From(s, n)) = Len(s) - n + 1
      /\ \A k \in 1 .. Len(s) - n + 1 : From(s, n)[k] = s[n + k - 1]
  BY <1>2, FromProperties
<1>5. Len(From(b, j)) = Len(From(s, n))
  BY <1>1, <1>2, <1>3, <1>4 DEF b
<1>6. \A k \in 1 .. Len(From(b, j)) : From(b, j)[k] = From(s, n)[k]
  <2> TAKE k \in 1 .. Len(From(b, j))
  <2>1. From(b, j)[k] = b[j + k - 1] /\ j + k - 1 \in 1 .. Len(s) - i + 1
    BY <1>1, <1>2, <1>3 DEF b
  <2>2. b[j + k - 1] = s[i + (j + k - 1) - 1]
    BY <1>1, <2>1 DEF b
  <2>3. From(s, n)[k] = s[n + k - 1]
    BY <1>3, <1>4, <1>5
  <2>4. i + (j + k - 1) - 1 = n + k - 1
    BY <1>1, <1>3
  <2> QED
    BY <2>1, <2>2, <2>3, <2>4
<1>7. From(b, j) = From(s, n)
  BY <1>3, <1>4, <1>5, <1>6, SeqEqual
<1> QED
  BY <1>7 DEF b

LEMMA EmptyTail ==
  ASSUME NEW s \in Seq(Bytes)
  PROVE  From(s, Len(s) + 1) = <<>>
<1>1. Len(s) \in Nat
  BY LenProperties
<1> QED
  BY <1>1, SubSeqEmpty DEF From

LEMMA FirstPreambleIs ==
  ASSUME NEW s \in Seq(Bytes), PreamblesIn(s) # {}
  PROVE  /\ FirstPreamble(s) \in 1 .. Len(s)
         /\ s[FirstPreamble(s)] = Preamble
         /\ \A m \in 1 .. FirstPreamble(s) - 1 : s[m] # Preamble
<1>1. Len(s) \in Nat /\ PreamblesIn(s) \in SUBSET Nat
  BY LenProperties DEF PreamblesIn
<1>2. \E n \in PreamblesIn(s) : \A m \in PreamblesIn(s) : n <= m
  BY <1>1, LeastNumber
<1>3. /\ FirstPreamble(s) \in PreamblesIn(s)
      /\ \A m \in PreamblesIn(s) : FirstPreamble(s) <= m
  BY <1>2 DEF FirstPreamble
<1> QED
  BY <1>1, <1>3 DEF PreamblesIn

(* what std::find leaves *)
LEMMA TrimScans ==
  ASSUME ParserInv
  PROVE  /\ Candidate \in 1 .. Len(stream) + 1
         /\ Trimmed(buffer) = From(stream, Candidate)
         /\ Len(Trimmed(buffer)) = Len(stream) - Candidate + 1
         /\ Candidate <= Len(stream) => stream[Candidate] = Preamble
         /\ Scan(stream, Candidate, published, starts)
<1>0. /\ stream \in Seq(Bytes) /\ buffer \in Seq(Bytes) /\ Len(stream) \in Nat
      /\ Len(buffer) \in Nat /\ Position \in 1 .. Len(stream) + 1
      /\ Len(buffer) = Len(stream) - Position + 1
      /\ buffer = From(stream, Position)
      /\ Scan(stream, Position, published, starts)
  BY LenProperties DEF ParserInv, Position
<1>1. \A k \in 1 .. Len(buffer) : buffer[k] = stream[Position + k - 1]
  BY <1>0, FromProperties
<1>2. CASE PreamblesIn(buffer) = {}
  <2>1. Trimmed(buffer) = <<>> /\ Len(<<>>) = 0
    BY <1>2, EmptySeq DEF Trimmed
  <2>2. Candidate = Len(stream) + 1
    BY <1>0, <2>1 DEF Candidate
  <2>3. \A m \in Position .. (Len(stream) + 1) - 1 : stream[m] # Preamble
    <3> TAKE m \in Position .. (Len(stream) + 1) - 1
    <3>1. m - Position + 1 \in 1 .. Len(buffer) /\ m = Position + (m - Position + 1) - 1
      BY <1>0
    <3>2. buffer[m - Position + 1] # Preamble
      BY <1>2, <3>1 DEF PreamblesIn
    <3> QED
      BY <1>1, <3>1, <3>2
  <2>4. Scan(stream, Len(stream) + 1, published, starts)
    <3>1. Len(stream) + 1 \in Position .. Len(stream) + 1
      BY <1>0
    <3> HIDE DEF Position
    <3> QED
      BY <1>0, <2>3, <3>1, ScanSkips
  <2> QED
    BY <1>0, <2>1, <2>2, <2>4, EmptyTail
<1>3. CASE PreamblesIn(buffer) # {}
  <2> DEFINE f == FirstPreamble(buffer)
             q == Position + f - 1
  <2>1. /\ f \in 1 .. Len(buffer) /\ buffer[f] = Preamble
        /\ \A m \in 1 .. f - 1 : buffer[m] # Preamble
    BY <1>0, <1>3, FirstPreambleIs
  <2> HIDE DEF f
  <2>2. q \in 1 .. Len(stream) /\ q \in Position .. Len(stream) + 1
    BY <1>0, <2>1
  <2>3. Trimmed(buffer) = From(stream, q)
    <3>1. Trimmed(buffer) = From(buffer, f)
      BY <1>3 DEF Trimmed, f
    <3>2. f \in 1 .. Len(stream) - Position + 2
      BY <1>0, <2>1
    <3>3. From(From(stream, Position), f) = From(stream, q)
      <4> HIDE DEF Position
      <4> QED
        BY <1>0, <3>2, FromAll
    <3> QED
      BY <1>0, <3>1, <3>3
  <2>4. Len(Trimmed(buffer)) = Len(stream) - q + 1
    BY <1>0, <2>2, <2>3, FromProperties
  <2>5. Candidate = q
    BY <1>0, <2>2, <2>4 DEF Candidate
  <2>6. stream[q] = Preamble
    BY <1>1, <2>1
  <2>7. \A m \in Position .. q - 1 : stream[m] # Preamble
    <3> TAKE m \in Position .. q - 1
    <3>1. m - Position + 1 \in 1 .. f - 1 /\ m - Position + 1 \in 1 .. Len(buffer)
      BY <1>0, <2>1, <2>2
    <3>2. stream[m] = buffer[m - Position + 1]
      BY <1>0, <1>1, <3>1
    <3> QED
      BY <2>1, <3>1, <3>2
  <2>8. Scan(stream, q, published, starts)
    <3> HIDE DEF q, Position
    <3> QED
      BY <1>0, <2>2, <2>7, ScanSkips
  <2> QED
    BY <2>2, <2>3, <2>4, <2>5, <2>6, <2>8
<1> QED
  BY <1>2, <1>3

LEMMA FromLonger ==
  ASSUME NEW s \in Seq(Bytes), NEW c \in Seq(Bytes), NEW i \in 1 .. Len(s) + 1
  PROVE  From(s, i) \o c = From(s \o c, i)
<1> DEFINE u == From(s, i) \o c
           v == From(s \o c, i)
<1>1. /\ s \o c \in Seq(Bytes) /\ Len(s) \in Nat /\ Len(c) \in Nat
      /\ Len(s \o c) = Len(s) + Len(c)
      /\ \A k \in 1 .. Len(s) + Len(c) :
            (s \o c)[k] = IF k <= Len(s) THEN s[k] ELSE c[k - Len(s)]
  BY ConcatProperties, LenProperties
<1>2. /\ From(s, i) \in Seq(Bytes) /\ Len(From(s, i)) = Len(s) - i + 1
      /\ \A k \in 1 .. Len(s) - i + 1 : From(s, i)[k] = s[i + k - 1]
  BY FromProperties
<1>3. /\ v \in Seq(Bytes) /\ Len(v) = Len(s \o c) - i + 1
      /\ \A k \in 1 .. Len(s \o c) - i + 1 : v[k] = (s \o c)[i + k - 1]
  <2>1. i \in 1 .. Len(s \o c) + 1
    BY <1>1
  <2> QED
    BY <1>1, <2>1, FromProperties
<1>4. /\ u \in Seq(Bytes) /\ Len(u) = Len(From(s, i)) + Len(c)
      /\ \A k \in 1 .. Len(From(s, i)) + Len(c) :
            u[k] = IF k <= Len(From(s, i)) THEN From(s, i)[k] ELSE c[k - Len(From(s, i))]
  BY <1>2, ConcatProperties
<1> HIDE DEF u, v
<1>5. Len(u) = Len(v)
  BY <1>1, <1>2, <1>3, <1>4
<1>6. \A k \in 1 .. Len(u) : u[k] = v[k]
  <2> TAKE k \in 1 .. Len(u)
  <2>1. v[k] = (s \o c)[i + k - 1] /\ i + k - 1 \in 1 .. Len(s) + Len(c) /\ i + k - 1 \in Int
    BY <1>1, <1>2, <1>3, <1>4, <1>5
  <2>2. CASE k <= Len(s) - i + 1
    <3>1. u[k] = s[i + k - 1]
      BY <1>1, <1>2, <1>4, <2>2
    <3>2. (s \o c)[i + k - 1] = s[i + k - 1]
      BY <1>1, <2>1, <2>2
    <3> QED
      BY <2>1, <3>1, <3>2
  <2>3. CASE k > Len(s) - i + 1
    <3>1. u[k] = c[k - (Len(s) - i + 1)]
      BY <1>1, <1>2, <1>4, <2>3
    <3>2. (s \o c)[i + k - 1] = c[i + k - 1 - Len(s)]
      BY <1>1, <2>1, <2>3
    <3>3. k - (Len(s) - i + 1) = i + k - 1 - Len(s)
      BY <1>1
    <3> QED
      BY <2>1, <3>1, <3>2, <3>3
  <2> QED
    BY <1>1, <2>2, <2>3
<1>7. u = v
  BY <1>3, <1>4, <1>5, <1>6, SeqEqual
<1> QED
  BY <1>7 DEF u, v

LEMMA ReceiveStep ==
  ASSUME ParserInv, NEW chunk \in Seq(Bytes), Receive(chunk)
  PROVE  ParserInv' /\ WaitInv'
<1>1. /\ stream \in Seq(Bytes) /\ buffer \in Seq(Bytes) /\ Len(stream) \in Nat
      /\ Len(buffer) \in Nat /\ Len(chunk) \in Nat /\ Len(buffer) <= Len(stream)
      /\ Position \in 1 .. Len(stream) + 1
      /\ buffer = From(stream, Position)
      /\ Scan(stream, Position, published, starts)
  BY LenProperties DEF ParserInv, Position
<1>2. /\ buffer' = buffer \o chunk /\ stream' = stream \o chunk /\ draining' = TRUE
      /\ published' = published /\ starts' = starts
  BY DEF Receive
<1>3. /\ stream' \in Seq(Bytes) /\ buffer' \in Seq(Bytes)
      /\ Len(stream') = Len(stream) + Len(chunk) /\ Len(buffer') = Len(buffer) + Len(chunk)
  BY <1>1, <1>2, ConcatProperties
<1>4. Position' = Position
  BY <1>1, <1>3 DEF Position
<1>5. Scan(stream \o chunk, Position, published, starts)
  <2> HIDE DEF Position
  <2> QED
    BY <1>1, ScanReceives
<1>6. buffer \o chunk = From(stream \o chunk, Position)
  <2> HIDE DEF Position
  <2> QED
    BY <1>1, FromLonger
<1>7. draining' \in BOOLEAN
  BY <1>2, Zenon
<1> QED
  BY <1>1, <1>2, <1>3, <1>4, <1>5, <1>6, <1>7 DEF ParserInv, WaitInv

(* The scan has come to position i and the buffer starts there. *)
LEMMA ParserMoves ==
  ASSUME stream \in Seq(Bytes), stream' = stream, draining' \in BOOLEAN,
         NEW i, Scan(stream, i, published', starts'), buffer' = From(stream, i)
  PROVE  ParserInv' /\ Position' = i
<1>1. i \in 1 .. Len(stream) + 1 /\ Len(stream) \in Nat
  BY LenProperties DEF Scan
<1>2. buffer' \in Seq(Bytes) /\ Len(buffer') = Len(stream) - i + 1
  BY <1>1, FromProperties
<1>3. Position' = i
  BY <1>1, <1>2 DEF Position
<1> QED
  BY <1>1, <1>2, <1>3 DEF ParserInv

(* the header of the candidate, as the parser and as the scan see it *)
LEMMA CandidateHeader ==
  ASSUME ParserInv, HeaderRead
  PROVE  /\ Candidate \in 1 .. Len(stream)
         /\ Header(stream, Candidate)
         /\ Trimmed(buffer)[2] = stream[Candidate + 1]
         /\ FrameLength(Trimmed(buffer)) = EndOf(stream, Candidate) - Candidate + 1
         /\ FrameLength(Trimmed(buffer)) \in HeaderLength + 1 .. MaxFrame
         /\ LengthOf[<<Trimmed(buffer)[2], Trimmed(buffer)[3]>>] <= MaxPayload
<1> DEFINE q == Candidate
<1>1. /\ stream \in Seq(Bytes) /\ Len(stream) \in Nat
      /\ q \in 1 .. Len(stream) + 1
      /\ Trimmed(buffer) = From(stream, q)
      /\ Len(Trimmed(buffer)) = Len(stream) - q + 1
      /\ Len(Trimmed(buffer)) >= 3
  BY TrimScans, LenProperties DEF ParserInv, HeaderRead, HeaderLength
<1> HIDE DEF q
<1>2. q \in 1 .. Len(stream) /\ Header(stream, q)
  BY <1>1 DEF Header
<1>3. /\ From(stream, q)[2] = stream[q + 1]
      /\ From(stream, q)[3] = stream[q + 2]
  <2>1. \A k \in 1 .. Len(stream) - q + 1 : From(stream, q)[k] = stream[q + k - 1]
    BY <1>1, FromProperties
  <2> QED
    BY <1>1, <2>1
<1>4. /\ FrameLength(From(stream, q)) \in HeaderLength + 1 .. MaxFrame
      /\ FrameLength(From(stream, q)) = EndOf(stream, q) - q + 1
  <2>1. FrameLength(From(stream, q)) \in HeaderLength + 1 .. MaxFrame
    BY <1>1, <1>2, FrameLengthAt
  <2> QED
    BY <1>1, <2>1, FramingAssumption DEF EndOf, HeaderLength, MaxFrame
<1>5. LengthOf[<<stream[q + 1], stream[q + 2]>>] <= MaxPayload
  <2>1. stream[q + 1] \in Bytes /\ stream[q + 2] \in Bytes
    BY <1>1, <1>2, ElementOfSeq DEF Header
  <2> QED
    BY <2>1, FramingAssumption
<1> QED
  BY <1>1, <1>2, <1>3, <1>4, <1>5 DEF q

(* dropping the preamble is going on by one position *)
LEMMA DropStep ==
  ASSUME ParserInv, Candidate \in 1 .. Len(stream), draining,
         stream' = stream, DropsPreamble(Trimmed(buffer)), Passed(stream, Candidate)
  PROVE  ParserInv' /\ WaitInv'
<1> DEFINE q == Candidate
<1>1. /\ stream \in Seq(Bytes) /\ Len(stream) \in Nat /\ q \in 1 .. Len(stream)
      /\ Trimmed(buffer) = From(stream, q)
      /\ Len(Trimmed(buffer)) = Len(stream) - q + 1
      /\ Scan(stream, q, published, starts)
  BY TrimScans, LenProperties DEF ParserInv
<1>2. Passed(stream, q)
  OBVIOUS
<1> HIDE DEF q
<1>3. Scan(stream, q + 1, published, starts)
  BY <1>1, <1>2, ScanPasses
<1>4. Tail(Trimmed(buffer)) = From(stream, q + 1)
  <2> DEFINE b == Trimmed(buffer)
  <2>1. b \in Seq(Bytes)
    BY <1>1, FromProperties
  <2>2. b # <<>>
    BY <1>1, <2>1, EmptySeq
  <2> HIDE DEF b
  <2>3. Tail(b) = From(b, 2)
    BY <2>1, <2>2, TailIsSubSeq DEF From
  <2>4. From(From(stream, q), 2) = From(stream, q + 2 - 1)
    <3>1. q \in 1 .. Len(stream) + 1 /\ 2 \in 1 .. Len(stream) - q + 2
      BY <1>1
    <3> QED
      BY <1>1, <3>1, FromAll
  <2> QED
    BY <1>1, <2>3, <2>4 DEF b
<1>5. buffer' = From(stream, q + 1) /\ published' = published /\ starts' = starts
  BY <1>4 DEF DropsPreamble
<1>6. draining' \in BOOLEAN /\ draining'
  <2>1. draining' = draining
    BY DEF DropsPreamble
  <2>2. draining \in BOOLEAN
    BY DEF ParserInv
  <2> QED
    BY <2>1, <2>2
<1> QED
  BY <1>1, <1>3, <1>5, <1>6, ParserMoves DEF WaitInv

(* waiting is having come to a position that is not decided yet *)
LEMMA WaitStep ==
  ASSUME ParserInv, stream' = stream, Waits(Trimmed(buffer)),
         Len(Trimmed(buffer)) < MaxFrame,
         Candidate \in 1 .. Len(stream) => Undecided(stream, Candidate)
  PROVE  ParserInv' /\ WaitInv'
<1> DEFINE q == Candidate
<1>1. /\ stream \in Seq(Bytes) /\ Len(stream) \in Nat /\ q \in 1 .. Len(stream) + 1
      /\ Trimmed(buffer) = From(stream, q)
      /\ Scan(stream, q, published, starts)
  BY TrimScans, LenProperties DEF ParserInv
<1>2. /\ buffer' = From(stream, q) /\ published' = published /\ starts' = starts
      /\ draining' = FALSE
  BY <1>1 DEF Waits
<1>3. q \in 1 .. Len(stream) => Undecided(stream, q)
  OBVIOUS
<1> HIDE DEF q
<1>4. draining' \in BOOLEAN
  BY <1>2, Zenon
<1>5. ParserInv' /\ Position' = q
  BY <1>1, <1>2, <1>4, ParserMoves
<1>6. WaitInv'
  <2> SUFFICES ASSUME buffer' # <<>> PROVE Len(buffer') < MaxFrame /\ Undecided(stream, q)
    BY <1>5 DEF WaitInv
  <2>1. Len(buffer') < MaxFrame
    BY <1>1, <1>2
  <2>2. q # Len(stream) + 1
    BY <1>1, <1>2, EmptyTail
  <2> QED
    BY <1>1, <1>3, <2>1, <2>2
<1> QED
  BY <1>5, <1>6

LEMMA DrainStep ==
  ASSUME ParserInv, Drain
  PROVE  ParserInv' /\ WaitInv'
<1> DEFINE q == Candidate
           b == Trimmed(buffer)
<1>1. /\ stream \in Seq(Bytes) /\ Len(stream) \in Nat /\ q \in 1 .. Len(stream) + 1
      /\ b = From(stream, q) /\ Len(b) = Len(stream) - q + 1
      /\ q <= Len(stream) => stream[q] = Preamble
      /\ Scan(stream, q, published, starts)
  BY TrimScans, LenProperties DEF ParserInv
<1>2. stream' = stream
  BY DEF Drain, AwaitHeader, RejectHeader, AwaitFrame, RejectFrame, PublishRtcm
<1>3. ASSUME HeaderRead
      PROVE  /\ q \in 1 .. Len(stream)
             /\ Header(stream, q)
             /\ b[2] = stream[q + 1]
             /\ FrameLength(b) = EndOf(stream, q) - q + 1
             /\ FrameLength(b) \in HeaderLength + 1 .. MaxFrame
             /\ LengthOf[<<b[2], b[3]>>] <= MaxPayload
  BY <1>3, CandidateHeader
<1>4. CASE AwaitHeader
  <2>1. Waits(Trimmed(buffer)) /\ Len(b) < 3
    BY <1>4 DEF AwaitHeader, HeaderLength
  <2>2. Len(Trimmed(buffer)) < MaxFrame
    BY <1>1, <2>1, FramingAssumption DEF MaxFrame, HeaderLength
  <2>3. Candidate \in 1 .. Len(stream) => Undecided(stream, Candidate)
    BY <1>1, <2>1 DEF Undecided, Header
  <2> QED
    BY <1>2, <2>1, <2>2, <2>3, WaitStep
<1>5. CASE RejectHeader
  <2>1. HeaderRead /\ ~Acceptable(b) /\ DropsPreamble(Trimmed(buffer)) /\ draining
    BY <1>5 DEF RejectHeader, HeaderRead
  <2>2. q \in 1 .. Len(stream) /\ Header(stream, q) /\ stream[q + 1] \in Reserved
    BY <1>3, <2>1 DEF Acceptable
  <2>3. Passed(stream, Candidate)
    BY <1>1, <2>2, ReservedPasses
  <2> QED
    BY <1>2, <2>1, <2>2, <2>3, DropStep
<1>6. CASE AwaitFrame
  <2>1. HeaderRead /\ Acceptable(b) /\ Waits(Trimmed(buffer)) /\ Len(b) < FrameLength(b)
    BY <1>6 DEF AwaitFrame, HeaderAccepted
  <2>2. /\ q \in 1 .. Len(stream) /\ FrameLength(b) = EndOf(stream, q) - q + 1
        /\ FrameLength(b) \in HeaderLength + 1 .. MaxFrame /\ b[2] = stream[q + 1]
    BY <1>3, <2>1
  <2>3. Len(Trimmed(buffer)) < MaxFrame
    BY <1>1, <2>1, <2>2, FramingAssumption DEF HeaderLength, MaxFrame
  <2>4. stream[q + 1] \notin Reserved /\ stream[q] = Preamble
    BY <1>1, <2>1, <2>2 DEF Acceptable
  <2>5. EndOf(stream, q) > Len(stream)
    <3>1. EndOf(stream, q) \in Int
      BY <1>1, <2>2, FramingAssumption DEF EndOf, HeaderLength, MaxFrame
    <3> QED
      BY <1>1, <2>1, <2>2, <3>1
  <2>6. Undecided(stream, Candidate)
    BY <2>4, <2>5 DEF Undecided
  <2> QED
    BY <1>2, <2>1, <2>3, <2>6, WaitStep
<1>7. ASSUME FrameRead
      PROVE  /\ q \in 1 .. Len(stream) /\ Header(stream, q) /\ HeaderRead
             /\ EndOf(stream, q) \in q .. Len(stream)
             /\ FirstFrame(b) = SubSeq(stream, q, EndOf(stream, q))
             /\ From(b, FrameLength(b) + 1) = From(stream, EndOf(stream, q) + 1)
             /\ stream[q + 1] \notin Reserved
  <2>1. HeaderRead /\ Acceptable(b) /\ Len(b) >= FrameLength(b)
    BY <1>7 DEF FrameRead, HeaderAccepted
  <2>2. /\ q \in 1 .. Len(stream) /\ Header(stream, q) /\ b[2] = stream[q + 1]
        /\ FrameLength(b) = EndOf(stream, q) - q + 1
        /\ FrameLength(b) \in HeaderLength + 1 .. MaxFrame
    BY <1>3, <2>1
  <2>3. EndOf(stream, q) \in q .. Len(stream)
    <3>1. EndOf(stream, q) = q + FrameLength(b) - 1 /\ FrameLength(b) \in Nat \ {0}
      BY <1>1, <2>2, FramingAssumption, SMTT(60) DEF EndOf, HeaderLength, MaxFrame
    <3> QED
      BY <1>1, <2>1, <2>2, <3>1
  <2> DEFINE n == EndOf(stream, q)
             m == FrameLength(b)
  <2>4. m = n - q + 1 /\ n \in q .. Len(stream)
    BY <2>2, <2>3
  <2> HIDE DEF n, m
  <2>5. SubSeq(b, 1, m) = SubSeq(stream, q, n)
    <3>1. /\ Len(stream) - q + 1 \in Nat
          /\ \A k \in 1 .. Len(stream) - q + 1 : b[k] = stream[q + k - 1]
          /\ \A k \in 1 .. Len(stream) : stream[k] \in Bytes
      <4>1. Len(stream) - q + 1 \in Nat
        BY <1>1
      <4>2. \A k \in 1 .. Len(stream) : stream[k] \in Bytes
        BY <1>1, ElementOfSeq
      <4>3. \A k \in 1 .. Len(stream) - q + 1 : From(stream, q)[k] = stream[q + k - 1]
        <5> HIDE DEF q
        <5> QED
          BY <1>1, FromProperties
      <4> QED
        BY <1>1, <4>1, <4>2, <4>3
    <3>2. \A k \in 1 .. m : b[k] \in Bytes
      BY <1>1, <2>2, <2>4, <3>1, SMTT(60)
    <3>3. \A k \in q .. n : stream[k] \in Bytes
      BY <1>1, <2>2, <2>4, <3>1
    <3>4. /\ SubSeq(b, 1, m) \in Seq(Bytes) /\ Len(SubSeq(b, 1, m)) = m
          /\ \A k \in 1 .. m : SubSeq(b, 1, m)[k] = b[k]
      <4>1. m \in Int /\ 1 <= m /\ m - 1 + 1 = m
        BY <1>1, <2>2, <2>4
      <4>2. /\ SubSeq(b, 1, m) \in Seq(Bytes)
            /\ Len(SubSeq(b, 1, m)) = m - 1 + 1
            /\ \A k \in 1 .. m - 1 + 1 : SubSeq(b, 1, m)[k] = b[1 + k - 1]
        <5> HIDE DEF b
        <5> QED
          BY <3>2, <4>1, SubSeqProperties
      <4> QED
        BY <4>1, <4>2
    <3>5. /\ SubSeq(stream, q, n) \in Seq(Bytes) /\ Len(SubSeq(stream, q, n)) = n - q + 1
          /\ \A k \in 1 .. n - q + 1 : SubSeq(stream, q, n)[k] = stream[q + k - 1]
      <4>1. n \in Int /\ q \in Int /\ q <= n
        BY <1>1, <2>2, <2>4
      <4> HIDE DEF q
      <4> QED
        BY <3>3, <4>1, SubSeqProperties
    <3>6. \A k \in 1 .. m : SubSeq(b, 1, m)[k] = SubSeq(stream, q, n)[k]
      <4> TAKE k \in 1 .. m
      <4>1. k \in 1 .. Len(stream) - q + 1
        BY <1>1, <2>2, <2>4
      <4> QED
        BY <2>4, <3>1, <3>4, <3>5, <4>1
    <3> QED
      BY <2>4, <3>4, <3>5, <3>6, SeqEqual
  <2>6. From(b, m + 1) = From(stream, n + 1)
    <3>1. q \in 1 .. Len(stream) + 1 /\ m + 1 \in 1 .. Len(stream) - q + 2
          /\ q + (m + 1) - 1 = n + 1
      BY <1>1, <2>2, <2>4
    <3>2. From(From(stream, q), m + 1) = From(stream, q + (m + 1) - 1)
      <4> HIDE DEF q
      <4> QED
        BY <1>1, <3>1, FromAll
    <3> QED
      BY <1>1, <3>1, <3>2
  <2> QED
    BY <2>1, <2>2, <2>3, <2>5, <2>6 DEF n, m, FirstFrame, Acceptable
<1>8. CASE RejectFrame
  <2>1. FrameRead /\ ~CrcMatches(FirstFrame(b)) /\ DropsPreamble(Trimmed(buffer)) /\ draining
    BY <1>8 DEF RejectFrame, FrameRead, HeaderAccepted, HeaderRead
  <2>2. Passed(stream, q)
    <3> HIDE DEF q, b
    <3> QED
      BY <1>1, <1>7, <2>1, MismatchPasses
  <2> QED
    BY <1>2, <1>7, <2>1, <2>2, DropStep
<1>9. CASE PublishRtcm
  <2>1. FrameRead /\ CrcMatches(FirstFrame(b)) /\ Publishes(b) /\ draining' = draining
    BY <1>9 DEF PublishRtcm
  <2>2. FrameAt(stream, q)
    <3>1. FirstFrame(b) = SubSeq(stream, q, EndOf(stream, q))
      BY <1>7, <2>1
    <3>2. CrcMatches(SubSeq(stream, q, EndOf(stream, q)))
      BY <2>1, <3>1
    <3> HIDE DEF q, b
    <3>3. /\ q \in 1 .. Len(stream) /\ Header(stream, q) /\ stream[q] = Preamble
          /\ EndOf(stream, q) <= Len(stream) /\ stream[q + 1] \notin Reserved
      BY <1>1, <1>7, <2>1
    <3> QED
      BY <3>2, <3>3 DEF FrameAt
  <2>3. Scan(stream, EndOf(stream, q) + 1,
             Append(published, SubSeq(stream, q, EndOf(stream, q))), starts \cup {q})
    <3> HIDE DEF q
    <3> QED
      BY <1>1, <1>7, <2>1, <2>2, ScanPublishes
  <2>4. /\ published' = Append(published, SubSeq(stream, q, EndOf(stream, q)))
        /\ starts' = starts \cup {q}
        /\ buffer' = From(stream, EndOf(stream, q) + 1)
    BY <1>1, <1>7, <2>1 DEF Publishes
  <2>5. draining' \in BOOLEAN /\ draining'
    <3>1. draining \in BOOLEAN /\ draining
      BY <1>9 DEF ParserInv, PublishRtcm, FrameRead, HeaderAccepted, HeaderRead
    <3> QED
      BY <2>1, <3>1
  <2>6. ParserInv'
    <3> HIDE DEF q
    <3> QED
      BY <1>1, <1>2, <2>3, <2>4, <2>5, ParserMoves
  <2> QED
    BY <2>5, <2>6 DEF WaitInv
<1> QED
  BY <1>4, <1>5, <1>6, <1>8, <1>9 DEF Drain

-----------------------------------------------------------------------------
(* What the parser promises, from its invariant *)

LEMMA WaitingFindsNothing ==
  ASSUME ParserInv, WaitInv, ~draining
  PROVE  published = FramesOf(stream)
<1>1. /\ stream \in Seq(Bytes) /\ Len(stream) \in Nat /\ buffer \in Seq(Bytes)
      /\ Position \in 1 .. Len(stream) + 1
      /\ published \in Seq(Seq(Bytes))
  BY LenProperties DEF ParserInv, Scan
<1>2. stream \o <<>> = stream /\ <<>> \in Seq(Bytes)
  BY <1>1, ConcatEmptySeq, EmptySeq
<1>3. FramesOf(stream) = published \o FramesFrom(stream)[Position]
  <2>1. FramesOf(stream \o <<>>) = published \o FramesFrom(stream \o <<>>)[Position]
    BY <1>2 DEF ParserInv, Scan, ScannedTo
  <2> QED
    BY <1>2, <2>1
<1>4. FramesFrom(stream)[Position] = <<>>
  <2>1. FramesFrom(stream)[Position] = FramesStep(stream, FramesFrom(stream), Position)
    BY <1>1, FramesFromStep
  <2>2. CASE buffer = <<>>
    <3>1. Position > Len(stream)
      BY <1>1, <2>2, EmptySeq DEF Position
    <3> QED
      BY <2>1, <3>1 DEF FramesStep
  <2>3. CASE buffer # <<>>
    <3>1. Undecided(stream, Position)
      BY <2>3 DEF WaitInv
    <3>2. ~FrameAt(stream, Position)
      <4> SUFFICES ASSUME FrameAt(stream, Position) PROVE FALSE
        OBVIOUS
      <4>1. Position \in 1 .. Len(stream)
        BY <1>1, <2>3, LenProperties, EmptySeq DEF Position
      <4>2. EndOf(stream, Position) \in Position .. Len(stream)
        <5> HIDE DEF Position
        <5> QED
          BY <1>1, <4>1, FrameExtent
      <4> QED
        BY <1>1, <3>1, <4>2 DEF FrameAt, Undecided
    <3> QED
      BY <2>1, <3>1, <3>2 DEF FramesStep
  <2> QED
    BY <2>2, <2>3
<1>5. published \o <<>> = published
  <2> DEFINE S == Seq(Bytes)
  <2>1. published \in Seq(S)
    BY <1>1
  <2> HIDE DEF S
  <2> QED
    BY <2>1, ConcatEmptySeq
<1> QED
  BY <1>3, <1>4, <1>5

LEMMA WaitingIsBounded ==
  ASSUME ParserInv, WaitInv, ~draining
  PROVE  Len(buffer) < MaxFrame /\ (buffer # <<>> => buffer[1] = Preamble)
<1>1. /\ stream \in Seq(Bytes) /\ Len(stream) \in Nat /\ buffer \in Seq(Bytes)
      /\ Len(buffer) \in Nat /\ Len(buffer) = Len(stream) - Position + 1
      /\ Position \in 1 .. Len(stream) + 1 /\ buffer = From(stream, Position)
  BY LenProperties DEF ParserInv, Scan, Position
<1>2. CASE buffer = <<>>
  BY <1>2, EmptySeq, FramingAssumption DEF MaxFrame, HeaderLength
<1>3. CASE buffer # <<>>
  <2>1. Len(buffer) < MaxFrame /\ stream[Position] = Preamble
    BY <1>3 DEF WaitInv, Undecided
  <2>2. 1 \in 1 .. Len(buffer)
    BY <1>1, <1>3, EmptySeq
  <2>3. buffer[1] = stream[Position + 1 - 1]
    <3> HIDE DEF Position
    <3>1. \A k \in 1 .. Len(stream) - Position + 1 :
            From(stream, Position)[k] = stream[Position + k - 1]
      BY <1>1, FromProperties
    <3> QED
      BY <1>1, <2>2, <3>1
  <2> QED
    BY <1>1, <2>1, <2>3
<1> QED
  BY <1>2, <1>3

(* Of a frame in the stream the parser knows what RecoveryBounded says. *)
LEMMA WaitingRecovers ==
  ASSUME ParserInv, WaitInv, ~draining, NEW a \in 1 .. Len(stream), FrameAt(stream, a)
  PROVE  \/ a \in starts
         \/ Crossing(a)
         \/ Len(stream) < a + MaxFrame - 1 /\ \E i \in 1 .. a - 1 : Waiting(i)
<1>1. /\ stream \in Seq(Bytes) /\ Len(stream) \in Nat /\ buffer \in Seq(Bytes)
      /\ Len(buffer) \in Nat /\ Len(buffer) = Len(stream) - Position + 1
      /\ Position \in 1 .. Len(stream) + 1 /\ MaxFrame \in Nat
      /\ History(stream, Position, starts)
  BY LenProperties, FramingAssumption
  DEF ParserInv, Scan, Position, MaxFrame, HeaderLength
<1>2. CASE a < Position
  <2>1. a \in starts \/ Covered(stream, a, starts) \/ Passed(stream, a)
    BY <1>1, <1>2 DEF History
  <2>2. ASSUME Covered(stream, a, starts) PROVE Crossing(a)
    <3>1. PICK j \in starts : j < a /\ a <= EndOf(stream, j)
      BY <2>2 DEF Covered
    <3>2. j \in 1 .. Position - 1 /\ FrameAt(stream, j)
      BY <1>1, <3>1 DEF History
    <3>3. j \in 1 .. a - 1 /\ j \in 1 .. Len(stream)
      BY <1>1, <3>1, <3>2
    <3>4. EndOf(stream, j) \in Nat
      BY <1>1, <3>2, <3>3, FrameExtent
    <3> QED
      BY <3>1, <3>2, <3>3, <3>4 DEF Crossing
  <2>3. ~Passed(stream, a)
    <3>1. stream \o <<>> = stream /\ <<>> \in Seq(Bytes)
      BY <1>1, ConcatEmptySeq, EmptySeq
    <3> QED
      BY <3>1 DEF Passed
  <2> QED
    BY <2>1, <2>2, <2>3
<1>3. CASE a >= Position
  <2>1. buffer # <<>> /\ Position \in 1 .. Len(stream)
    BY <1>1, <1>3, EmptySeq
  <2>2. Len(buffer) < MaxFrame /\ Undecided(stream, Position)
    BY <2>1 DEF WaitInv
  <2>3. a # Position
    <3>1. EndOf(stream, a) \in a .. Len(stream)
      BY <1>1, FrameExtent
    <3> QED
      BY <1>1, <2>2, <3>1 DEF FrameAt, Undecided
  <2>4. Position \in 1 .. a - 1
    BY <1>1, <1>3, <2>1, <2>3
  <2>5. Waiting(Position)
    <3>1. \A j \in starts : Position \notin j .. EndOf(stream, j)
      <4> TAKE j \in starts
      <4>1. j \in 1 .. Position - 1 /\ FrameAt(stream, j) /\ EndOf(stream, j) < Position
        BY <1>1 DEF History
      <4>2. EndOf(stream, j) \in Nat
        <5>1. j \in 1 .. Len(stream)
          BY <1>1, <4>1
        <5> QED
          BY <1>1, <4>1, <5>1, FrameExtent
      <4> QED
        BY <1>1, <4>1, <4>2
    <3> QED
      BY <2>2, <3>1 DEF Waiting
  <2>6. Len(stream) < a + MaxFrame - 1
    BY <1>1, <2>2, <2>4
  <2> QED
    BY <2>4, <2>5, <2>6
<1> QED
  BY <1>1, <1>2, <1>3

-----------------------------------------------------------------------------
(* The connection: numbers of bytes are received in ascending order, what  *)
(* is in flight comes after what was received, and a message stands in     *)
(* what was sent where its head is.                                        *)

Ascending(q) == \A i, j \in 1 .. Len(q) : i < j => q[i] < q[j]

ConnInv ==
  /\ sent \in Seq(Bytes) /\ next = Len(sent) + 1
  /\ got \in Seq(1 .. Len(sent)) /\ flight \in Seq(1 .. Len(sent))
  /\ Ascending(got \o flight)

(* the bytes with the numbers q *)
BytesOf(s, q) == [i \in 1 .. Len(q) |-> s[q[i]]]

ReceivedInv == stream = BytesOf(sent, got)

StandsAt(f, k) ==
  /\ k \in 1 .. Len(sent) /\ k + Len(f) - 1 <= Len(sent)
  /\ \A i \in 1 .. Len(f) : sent[k + i - 1] = f[i]

HeadsInv == \A k \in heads : \E f \in Frames : StandsAt(f, k)

LEMMA Joined ==
  ASSUME NEW S, NEW u \in Seq(S), NEW v \in Seq(S)
  PROVE  /\ u \o v \in Seq(S) /\ Len(u) \in Nat /\ Len(v) \in Nat
         /\ Len(u \o v) = Len(u) + Len(v)
         /\ \A i \in 1 .. Len(u) : (u \o v)[i] = u[i]
         /\ \A i \in Len(u) + 1 .. Len(u) + Len(v) : (u \o v)[i] = v[i - Len(u)]
BY ConcatProperties, LenProperties

LEMMA AscendingPrefix ==
  ASSUME NEW N, NEW u \in Seq(N), NEW v \in Seq(N), Ascending(u \o v)
  PROVE  Ascending(u)
BY Joined DEF Ascending

LEMMA AscendingMore ==
  ASSUME NEW n \in Nat, NEW m \in Nat, NEW q \in Seq(1 .. n), Ascending(q),
         NEW v \in Seq(1 .. n + m), Len(v) = m, \A i \in 1 .. m : v[i] = n + i
  PROVE  Ascending(q \o v)
<1>0. q \in Seq(1 .. n + m)
  <2>1. 1 .. n \subseteq 1 .. n + m
    OBVIOUS
  <2> QED
    BY <2>1, SeqMonotonic
<1>1. /\ Len(q) \in Nat /\ Len(q \o v) = Len(q) + m
      /\ \A i \in 1 .. Len(q) : (q \o v)[i] = q[i]
      /\ \A i \in Len(q) + 1 .. Len(q) + m : (q \o v)[i] = v[i - Len(q)]
  BY <1>0, Joined, ZenonT(60)
<1>2. \A i \in 1 .. Len(q) : q[i] \in 1 .. n
  BY ElementOfSeq
<1> SUFFICES ASSUME NEW i \in 1 .. Len(q) + m, NEW j \in 1 .. Len(q) + m, i < j
             PROVE  (q \o v)[i] < (q \o v)[j]
  BY <1>1 DEF Ascending
<1>3. CASE j <= Len(q)
  <2>1. (q \o v)[i] = q[i] /\ (q \o v)[j] = q[j] /\ i \in 1 .. Len(q) /\ j \in 1 .. Len(q)
    BY <1>1, <1>3
  <2> QED
    BY <2>1 DEF Ascending
<1>4. CASE i <= Len(q) /\ j > Len(q)
  <2>1. (q \o v)[i] = q[i] /\ q[i] \in 1 .. n
    BY <1>1, <1>2, <1>4
  <2>2. (q \o v)[j] = v[j - Len(q)] /\ j - Len(q) \in 1 .. m
    BY <1>1, <1>4, SMTT(60)
  <2>3. v[j - Len(q)] = n + (j - Len(q))
    BY <2>2
  <2> QED
    BY <1>1, <2>1, <2>2, <2>3, SMTT(60)
<1>5. CASE i > Len(q)
  <2>1. (q \o v)[i] = v[i - Len(q)] /\ i - Len(q) \in 1 .. m
    BY <1>1, <1>5
  <2>2. (q \o v)[j] = v[j - Len(q)] /\ j - Len(q) \in 1 .. m
    BY <1>1, <1>5
  <2>3. v[i - Len(q)] = n + (i - Len(q)) /\ v[j - Len(q)] = n + (j - Len(q))
    BY <2>1, <2>2
  <2> QED
    BY <1>1, <2>1, <2>2, <2>3
<1> QED
  BY <1>1, <1>3, <1>4, <1>5, SMTT(60)

LEMMA BytesType ==
  ASSUME NEW s \in Seq(Bytes), NEW q \in Seq(1 .. Len(s))
  PROVE  /\ BytesOf(s, q) \in Seq(Bytes) /\ Len(BytesOf(s, q)) = Len(q) /\ Len(q) \in Nat
         /\ \A i \in 1 .. Len(q) : BytesOf(s, q)[i] = s[q[i]]
<1>1. Len(q) \in Nat /\ \A i \in 1 .. Len(q) : q[i] \in 1 .. Len(s)
  BY LenProperties, ElementOfSeq
<1>2. \A i \in 1 .. Len(q) : s[q[i]] \in Bytes
  BY <1>1, ElementOfSeq
<1>3. [i \in 1 .. Len(q) |-> s[q[i]]] \in [1 .. Len(q) -> Bytes]
  BY <1>2
<1>4. \A w : w \in [1 .. Len(q) -> Bytes] => w \in Seq(Bytes) /\ Len(w) = Len(q)
  BY <1>1, SMTT(60)
<1> QED
  BY <1>1, <1>3, <1>4 DEF BytesOf

LEMMA BytesJoined ==
  ASSUME NEW s \in Seq(Bytes), NEW u \in Seq(1 .. Len(s)), NEW v \in Seq(1 .. Len(s))
  PROVE  BytesOf(s, u \o v) = BytesOf(s, u) \o BytesOf(s, v)
<1>1. /\ u \o v \in Seq(1 .. Len(s)) /\ Len(u) \in Nat /\ Len(v) \in Nat
      /\ Len(u \o v) = Len(u) + Len(v)
      /\ \A i \in 1 .. Len(u) : (u \o v)[i] = u[i]
      /\ \A i \in Len(u) + 1 .. Len(u) + Len(v) : (u \o v)[i] = v[i - Len(u)]
  BY Joined
<1> DEFINE x == BytesOf(s, u)
           y == BytesOf(s, v)
           w == BytesOf(s, u \o v)
<1>2. /\ x \in Seq(Bytes) /\ Len(x) = Len(u) /\ \A i \in 1 .. Len(u) : x[i] = s[u[i]]
      /\ y \in Seq(Bytes) /\ Len(y) = Len(v) /\ \A i \in 1 .. Len(v) : y[i] = s[v[i]]
  BY BytesType
<1>3. /\ w \in Seq(Bytes) /\ Len(w) = Len(u) + Len(v)
      /\ \A i \in 1 .. Len(u) + Len(v) : w[i] = s[(u \o v)[i]]
  BY <1>1, BytesType, ZenonT(60)
<1> HIDE DEF x, y, w
<1>4. /\ x \o y \in Seq(Bytes) /\ Len(x \o y) = Len(u) + Len(v)
      /\ \A i \in 1 .. Len(u) : (x \o y)[i] = x[i]
      /\ \A i \in Len(u) + 1 .. Len(u) + Len(v) : (x \o y)[i] = y[i - Len(u)]
  <2>1. /\ x \o y \in Seq(Bytes) /\ Len(x \o y) = Len(x) + Len(y)
        /\ \A i \in 1 .. Len(x) : (x \o y)[i] = x[i]
        /\ \A i \in Len(x) + 1 .. Len(x) + Len(y) : (x \o y)[i] = y[i - Len(x)]
    <3>1. x \in Seq(Bytes) /\ y \in Seq(Bytes)
      BY <1>2
    <3> QED
      BY <3>1, Joined
  <2> QED
    BY <1>2, <2>1
<1>5. \A i \in 1 .. Len(w) : w[i] = (x \o y)[i]
  <2> SUFFICES ASSUME NEW i \in 1 .. Len(u) + Len(v) PROVE w[i] = (x \o y)[i]
    BY <1>3
  <2>1. CASE i <= Len(u)
    <3>1. w[i] = s[u[i]] /\ (x \o y)[i] = s[u[i]]
      BY <1>1, <1>2, <1>3, <1>4, <2>1
    <3> QED
      BY <3>1
  <2>2. CASE i > Len(u)
    <3>1. i - Len(u) \in 1 .. Len(v)
      BY <1>1, <2>2
    <3>2. w[i] = s[v[i - Len(u)]]
      BY <1>1, <1>3, <2>2
    <3>3. (x \o y)[i] = y[i - Len(u)]
      <4>1. i \in Len(u) + 1 .. Len(u) + Len(v)
        BY <1>1, <2>2
      <4>2. \A k \in Len(u) + 1 .. Len(u) + Len(v) : (x \o y)[k] = y[k - Len(u)]
        BY <1>4
      <4> QED
        BY <4>1, <4>2
    <3>4. y[i - Len(u)] = s[v[i - Len(u)]]
      BY <1>2, <3>1
    <3> QED
      BY <3>2, <3>3, <3>4
  <2>3. i <= Len(u) \/ i > Len(u)
    BY <1>1
  <2> QED
    BY <2>1, <2>2, <2>3, Zenon
<1>6. w = x \o y
  BY <1>3, <1>4, <1>5, SeqEqual
<1> QED
  BY <1>6 DEF x, y, w

LEMMA CutNumbers ==
  ASSUME NEW N, NEW q \in Seq(N), NEW n \in 1 .. Len(q)
  PROVE  /\ SubSeq(q, 1, n) \in Seq(N) /\ Len(SubSeq(q, 1, n)) = n
         /\ \A i \in 1 .. n : SubSeq(q, 1, n)[i] = q[i]
         /\ SubSeq(q, n + 1, Len(q)) \in Seq(N)
         /\ q = SubSeq(q, 1, n) \o SubSeq(q, n + 1, Len(q))
<1>1. Len(q) \in Nat /\ \A i \in 1 .. Len(q) : q[i] \in N
  BY LenProperties, ElementOfSeq
<1>2. /\ SubSeq(q, 1, n) \in Seq(N) /\ Len(SubSeq(q, 1, n)) = n
      /\ \A i \in 1 .. n : SubSeq(q, 1, n)[i] = q[i]
  <2>1. \A i \in 1 .. n : q[i] \in N
    BY <1>1
  <2>2. /\ SubSeq(q, 1, n) \in Seq(N)
        /\ Len(SubSeq(q, 1, n)) = IF 1 <= n THEN n - 1 + 1 ELSE 0
        /\ \A i \in 1 .. n - 1 + 1 : SubSeq(q, 1, n)[i] = q[1 + i - 1]
    BY <1>1, <2>1, SubSeqProperties
  <2> QED
    BY <1>1, <2>2
<1>3. SubSeq(q, n + 1, Len(q)) \in Seq(N)
  <2>1. \A i \in n + 1 .. Len(q) : q[i] \in N
    BY <1>1
  <2> QED
    BY <1>1, <2>1, SubSeqProperties
<1>4. q = SubSeq(q, 1, n) \o SubSeq(q, n + 1, Len(q))
  <2>1. SubSeq(q, 1, n) \o SubSeq(q, n + 1, Len(q)) = SubSeq(q, 1, Len(q))
    BY <1>1, ConcatAdjacentSubSeq
  <2> QED
    BY <2>1, SubSeqFull
<1> QED
  BY <1>2, <1>3, <1>4

LEMMA SendStep ==
  ASSUME ConnInv, ReceivedInv, NEW s \in Seq(Bytes), Sends(s)
  PROVE  /\ ConnInv' /\ ReceivedInv'
         /\ sent' = sent \o s /\ next' = next + Len(s)
<1> DEFINE new == [i \in 1 .. Len(s) |-> next + i - 1]
           n == Len(sent)
           m == Len(s)
<1>1. /\ sent' = sent \o s /\ flight' = flight \o new /\ next' = next + Len(s)
      /\ got' = got /\ stream' = stream
  BY DEF Sends, Link!Send, framingVars
<1>2. /\ n \in Nat /\ m \in Nat /\ sent' \in Seq(Bytes) /\ Len(sent') = n + m
      /\ \A i \in 1 .. n : sent'[i] = sent[i]
  BY <1>1, Joined DEF ConnInv
<1>3. new \in Seq(1 .. n + m) /\ Len(new) = m /\ \A i \in 1 .. m : new[i] = n + i
  <2>1. \A i \in 1 .. m : next + i - 1 \in 1 .. n + m /\ next + i - 1 = n + i
    BY <1>2 DEF ConnInv
  <2>2. new \in [1 .. m -> 1 .. n + m]
    BY <2>1
  <2>3. \A w : w \in [1 .. m -> 1 .. n + m] => w \in Seq(1 .. n + m) /\ Len(w) = m
    BY <1>2
  <2>4. \A i \in 1 .. m : new[i] = n + i
    BY <2>1
  <2> QED
    BY <2>2, <2>3, <2>4
<1>4. got \in Seq(1 .. n) /\ flight \in Seq(1 .. n) /\ Ascending(got \o flight)
  BY DEF ConnInv
<1> HIDE DEF new, n, m
<1>5. got \in Seq(1 .. n + m) /\ flight \in Seq(1 .. n + m)
  <2>1. 1 .. n \subseteq 1 .. n + m
    BY <1>2
  <2> QED
    BY <1>4, <2>1, SeqMonotonic
<1>6. flight \o new \in Seq(1 .. n + m)
  BY <1>3, <1>5, Joined
<1>7. Ascending(got \o (flight \o new))
  <2>1. (got \o flight) \o new = got \o (flight \o new)
    BY <1>3, <1>5, ConcatAssociative, SMTT(60)
  <2>2. got \o flight \in Seq(1 .. n)
    BY <1>4, Joined
  <2>3. Ascending((got \o flight) \o new)
    BY <1>2, <1>3, <1>4, <2>2, AscendingMore
  <2> QED
    BY <2>1, <2>3
<1>8. next' = Len(sent') + 1
  BY <1>1, <1>2 DEF ConnInv, n, m
<1>9. ConnInv'
  BY <1>1, <1>2, <1>5, <1>6, <1>7, <1>8 DEF ConnInv, Ascending
<1>10. ReceivedInv'
  <2>1. \A i \in 1 .. Len(got) : got[i] \in 1 .. n
    BY <1>4, ElementOfSeq
  <2>2. \A i \in 1 .. Len(got) : sent'[got[i]] = sent[got[i]]
    BY <1>2, <2>1
  <2> QED
    BY <1>1, <2>2 DEF ReceivedInv, BytesOf
<1> QED
  BY <1>1, <1>9, <1>10

LEMMA DeliverStep ==
  ASSUME ConnInv, ReceivedInv, ParserInv, NEW n \in Nat, Link!Deliver(n),
         Receive([i \in 1 .. n |-> sent[flight[i]]]), sent' = sent
  PROVE  ConnInv' /\ ReceivedInv' /\ ParserInv' /\ WaitInv'
<1> DEFINE chunk == [i \in 1 .. n |-> sent[flight[i]]]
           u == SubSeq(flight, 1, n)
           v == SubSeq(flight, n + 1, Len(flight))
           N == 1 .. Len(sent)
<1>1. /\ n \in 1 .. Len(flight) /\ got' = got \o u /\ flight' = v /\ next' = next
      /\ stream' = stream \o chunk
  BY DEF Link!Deliver, Receive
<1>2. /\ sent \in Seq(Bytes) /\ got \in Seq(N) /\ flight \in Seq(N)
      /\ Ascending(got \o flight) /\ next = Len(sent) + 1
  BY DEF ConnInv
<1>3. /\ u \in Seq(N) /\ Len(u) = n /\ \A i \in 1 .. n : u[i] = flight[i]
      /\ v \in Seq(N) /\ flight = u \o v
  <2> HIDE DEF N
  <2> QED
    BY <1>1, <1>2, CutNumbers
<1>4. chunk = BytesOf(sent, u)
  BY <1>3 DEF BytesOf
<1>5. chunk \in Seq(Bytes)
  BY <1>2, <1>3, <1>4, BytesType
<1>6. ParserInv' /\ WaitInv'
  BY <1>5, ReceiveStep
<1> HIDE DEF u, v, chunk
<1>7. got \o u \in Seq(N) /\ (got \o u) \o v = got \o flight
  <2> HIDE DEF N
  <2>1. got \o u \in Seq(N)
    BY <1>2, <1>3, Joined
  <2>2. (got \o u) \o v = got \o (u \o v)
    <3>1. got \in Seq(N) /\ u \in Seq(N) /\ v \in Seq(N)
      BY <1>2, <1>3
    <3> QED
      BY <3>1, ConcatAssociative
  <2> QED
    BY <1>3, <2>1, <2>2
<1>8. Ascending((got \o u) \o v)
  BY <1>2, <1>7
<1>9. ConnInv'
  BY <1>1, <1>2, <1>3, <1>7, <1>8 DEF ConnInv, Ascending
<1>10. BytesOf(sent, got \o u) = BytesOf(sent, got) \o BytesOf(sent, u)
  BY <1>2, <1>3, BytesJoined
<1>11. ReceivedInv'
  BY <1>1, <1>4, <1>10 DEF ReceivedInv, BytesOf
<1> QED
  BY <1>6, <1>9, <1>11

(* A broken connection takes what is in flight with it. *)
LEMMA DisconnectStep ==
  ASSUME ConnInv, ReceivedInv, Link!Disconnect, sent' = sent, stream' = stream
  PROVE  ConnInv' /\ ReceivedInv'
<1> DEFINE N == 1 .. Len(sent)
<1>1. flight' = <<>> /\ got' = got /\ next' = next
  BY DEF Link!Disconnect
<1>2. got \in Seq(N) /\ flight \in Seq(N) /\ Ascending(got \o flight)
  BY DEF ConnInv
<1>3. Ascending(got) /\ got \o <<>> = got /\ <<>> \in Seq(N)
  <2> HIDE DEF N
  <2> QED
    BY <1>2, AscendingPrefix, ConcatEmptySeq, EmptySeq
<1>4. Ascending(got \o <<>>)
  BY <1>3
<1> QED
  BY <1>1, <1>3, <1>4 DEF ConnInv, ReceivedInv, BytesOf, Ascending

(* A message stays where it stands when more is sent. *)
LEMMA HeadsStay ==
  ASSUME ConnInv, HeadsInv, NEW s \in Seq(Bytes), sent' = sent \o s
  PROVE  \A k \in heads : \E f \in Frames : StandsAt(f, k)'
<1>1. /\ Len(sent) \in Nat /\ Len(s) \in Nat /\ Len(sent') = Len(sent) + Len(s)
      /\ \A i \in 1 .. Len(sent) : sent'[i] = sent[i]
  BY Joined DEF ConnInv
<1> SUFFICES ASSUME NEW k \in heads PROVE \E f \in Frames : StandsAt(f, k)'
  OBVIOUS
<1>2. PICK f \in Frames : StandsAt(f, k)
  BY DEF HeadsInv
<1>3. Len(f) \in Nat
  BY StreamAssumption, LenProperties
<1>4. \A i \in 1 .. Len(f) : k + i - 1 \in 1 .. Len(sent)
  BY <1>1, <1>2, <1>3 DEF StandsAt
<1> QED
  BY <1>1, <1>2, <1>3, <1>4 DEF StandsAt

(* A new message stands behind everything sent before. *)
LEMMA HeadStands ==
  ASSUME ConnInv, NEW f \in Frames, sent' = sent \o f, NEW k, k = next
  PROVE  StandsAt(f, k)'
<1>1. f \in Seq(Bytes) /\ Len(f) \in Nat /\ Len(f) >= 1
  BY StreamAssumption, FramingAssumption, LenProperties DEF HeaderLength
<1>2. /\ Len(sent) \in Nat /\ Len(sent') = Len(sent) + Len(f)
      /\ \A i \in Len(sent) + 1 .. Len(sent) + Len(f) : sent'[i] = f[i - Len(sent)]
  BY <1>1, Joined DEF ConnInv
<1>3. k = Len(sent) + 1
  BY DEF ConnInv
<1>4. \A i \in 1 .. Len(f) : sent'[k + i - 1] = f[i]
  <2> TAKE i \in 1 .. Len(f)
  <2>1. k + i - 1 \in Len(sent) + 1 .. Len(sent) + Len(f) /\ (k + i - 1) - Len(sent) = i
    BY <1>1, <1>2, <1>3
  <2> QED
    BY <1>2, <2>1
<1> QED
  BY <1>1, <1>2, <1>3, <1>4 DEF StandsAt

-----------------------------------------------------------------------------
StreamInv ==
  /\ ParserInv /\ WaitInv
  /\ ConnInv /\ ReceivedInv /\ HeadsInv
  /\ noise \in 0 .. MaxNoise

LEMMA StreamInit == Init => StreamInv
<1> SUFFICES ASSUME Init PROVE StreamInv
  OBVIOUS
<1>1. /\ buffer = <<>> /\ draining = FALSE /\ published = <<>> /\ stream = <<>> /\ starts = {}
      /\ flight = <<>> /\ got = <<>> /\ next = 1 /\ sent = <<>> /\ heads = {} /\ noise = 0
  BY DEF Init, FramingInit, Link!Init
<1>2. Len(<<>>) = 0 /\ <<>> \in Seq(Bytes) /\ <<>> \in Seq(1 .. 0) /\ <<>> \o <<>> = <<>>
  BY EmptySeq, ConcatEmptySeq
<1>3. ParserInv
  <2>1. From(<<>>, 1) = <<>>
    <3>1. SubSeq(<<>>, 1, 0) = <<>>
      BY SubSeqEmpty
    <3> QED
      BY <1>2, <3>1 DEF From
  <2>2. draining \in BOOLEAN
    BY <1>1, Zenon
  <2> QED
    BY <1>1, <1>2, <2>1, <2>2, ScanStart DEF ParserInv, Position
<1>4. ConnInv
  BY <1>1, <1>2 DEF ConnInv, Ascending
<1>5. ReceivedInv
  <2>1. [i \in 1 .. Len(<<>>) |-> <<>>[(<<>>)[i]]] = <<>>
    BY <1>2
  <2> QED
    BY <1>1, <2>1 DEF ReceivedInv, BytesOf
<1> QED
  BY <1>1, <1>3, <1>4, <1>5, StreamAssumption DEF StreamInv, WaitInv, HeadsInv

LEMMA StreamStep == StreamInv /\ [Next]_vars => StreamInv'
<1> SUFFICES ASSUME StreamInv, [Next]_vars PROVE StreamInv'
  OBVIOUS
<1> USE DEF StreamInv
<1>1. ASSUME UNCHANGED framingVars PROVE ParserInv' /\ WaitInv'
  <2>1. /\ buffer' = buffer /\ draining' = draining /\ published' = published
        /\ stream' = stream /\ starts' = starts
    BY <1>1 DEF framingVars
  <2> QED
    BY <2>1 DEF ParserInv, WaitInv, Position
<1>2. ASSUME UNCHANGED linkVars, sent' = sent, stream' = stream
      PROVE  ConnInv' /\ ReceivedInv'
  BY <1>2 DEF linkVars, ConnInv, ReceivedInv, Ascending, BytesOf
<1>3. ASSUME heads' = heads, sent' = sent PROVE HeadsInv'
  BY <1>3 DEF HeadsInv, StandsAt
<1>4. CASE SendFrame
  <2>1. PICK f \in Frames : Sends(f)
    BY <1>4 DEF SendFrame
  <2>2. f \in Seq(Bytes)
    BY StreamAssumption
  <2>3. ConnInv' /\ ReceivedInv' /\ sent' = sent \o f
    BY <2>1, <2>2, SendStep
  <2>4. UNCHANGED framingVars /\ heads' = heads \cup {next} /\ noise' = noise
    BY <1>4, <2>1 DEF SendFrame, Sends
  <2>5. HeadsInv'
    <3>1. \A k \in heads : \E g \in Frames : StandsAt(g, k)'
      BY <2>2, <2>3, HeadsStay
    <3>2. \A k : k = next => StandsAt(f, k)'
      BY <2>1, <2>3, HeadStands
    <3>3. \A k \in heads \cup {next} : \E g \in Frames : StandsAt(g, k)'
      BY <3>1, <3>2
    <3> QED
      BY <2>4, <3>3 DEF HeadsInv
  <2> QED
    BY <1>1, <2>3, <2>4, <2>5
<1>5. CASE SendNoise
  <2>1. PICK b \in Bytes : Sends(<<b>>)
    BY <1>5 DEF SendNoise
  <2>2. <<b>> \in Seq(Bytes)
    OBVIOUS
  <2>3. ConnInv' /\ ReceivedInv' /\ sent' = sent \o <<b>>
    BY <2>1, <2>2, SendStep
  <2>4. UNCHANGED framingVars /\ heads' = heads /\ noise' \in 0 .. MaxNoise
    BY <1>5, <2>1, StreamAssumption DEF SendNoise, Sends
  <2>5. HeadsInv'
    <3>1. \A k \in heads : \E g \in Frames : StandsAt(g, k)'
      BY <2>2, <2>3, HeadsStay
    <3> QED
      BY <2>4, <3>1 DEF HeadsInv
  <2> QED
    BY <1>1, <2>3, <2>4, <2>5
<1>6. CASE Deliver
  <2>1. PICK n \in 1 .. MaxChunk :
          /\ Link!Deliver(n)
          /\ Receive([i \in 1 .. n |-> sent[flight[i]]])
          /\ UNCHANGED <<sent, heads, noise>>
    BY <1>6 DEF Deliver
  <2>2. n \in Nat /\ sent' = sent /\ heads' = heads /\ noise' = noise
    BY <2>1, StreamAssumption
  <2>3. ConnInv' /\ ReceivedInv' /\ ParserInv' /\ WaitInv'
    BY <2>1, <2>2, DeliverStep
  <2> QED
    BY <1>3, <2>2, <2>3
<1>7. CASE Connect
  <2>1. /\ UNCHANGED framingVars /\ sent' = sent /\ heads' = heads /\ noise' = noise
        /\ flight' = flight /\ got' = got /\ next' = next /\ stream' = stream
    BY <1>7 DEF Connect, Link!Connect, framingVars
  <2>2. ConnInv' /\ ReceivedInv'
    BY <2>1 DEF ConnInv, ReceivedInv, Ascending, BytesOf
  <2> QED
    BY <1>1, <1>3, <2>1, <2>2
<1>8. CASE Disconnect
  <2>1. /\ UNCHANGED framingVars /\ sent' = sent /\ heads' = heads /\ noise' = noise
        /\ stream' = stream /\ Link!Disconnect
    BY <1>8 DEF Disconnect, framingVars
  <2> QED
    BY <1>1, <1>3, <2>1, DisconnectStep
<1>9. CASE Parse
  <2>1. Drain /\ UNCHANGED linkVars /\ sent' = sent /\ heads' = heads /\ noise' = noise
    BY <1>9 DEF Parse
  <2>2. stream' = stream
    BY <2>1 DEF Drain, AwaitHeader, RejectHeader, AwaitFrame, RejectFrame, PublishRtcm
  <2> QED
    BY <1>2, <1>3, <2>1, <2>2, DrainStep
<1>10. CASE UNCHANGED vars
  <2>1. /\ UNCHANGED framingVars /\ UNCHANGED linkVars /\ sent' = sent /\ heads' = heads
        /\ noise' = noise /\ stream' = stream
    BY <1>10 DEF vars, framingVars
  <2> QED
    BY <1>1, <1>2, <1>3, <2>1
<1> QED
  BY <1>4, <1>5, <1>6, <1>7, <1>8, <1>9, <1>10 DEF Next

LEMMA StreamInductive == Spec => []StreamInv
BY StreamInit, StreamStep, PTL DEF Spec

(* The parser's variables and those of the connection keep their types,    *)
(* and what has been received is bytes that were sent.                     *)
THEOREM TypeCorrect == Spec => []TypeOK
<1>1. StreamInv => TypeOK
  <2> SUFFICES ASSUME StreamInv PROVE TypeOK
    OBVIOUS
  <2>1. starts \subseteq Nat /\ published \in Seq(Seq(Bytes))
    BY DEF StreamInv, ParserInv, Scan, History
  <2>2. heads \subseteq 1 .. Len(sent)
    BY DEF StreamInv, HeadsInv, StandsAt
  <2> QED
    BY <2>1, <2>2
    DEF StreamInv, ParserInv, ConnInv, ReceivedInv, BytesOf, TypeOK, FramingTypeOK
<1> QED
  BY <1>1, StreamInductive, PTL

(* However the stream is cut and whatever garbage is in it, the published  *)
(* frames are those of one scan of everything received.                    *)
THEOREM ChunkingIrrelevantHolds == Spec => []ChunkingIrrelevant
<1>1. StreamInv => ChunkingIrrelevant
  BY WaitingFindsNothing DEF StreamInv, ChunkingIrrelevant
<1> QED
  BY <1>1, StreamInductive, PTL

(* Between two calls the parser holds less than one longest frame.         *)
THEOREM BufferBoundedHolds == Spec => []BufferBounded
<1>1. StreamInv => BufferBounded
  BY WaitingIsBounded DEF StreamInv, BufferBounded
<1> QED
  BY <1>1, StreamInductive, PTL

-----------------------------------------------------------------------------
(* A message received whole is a frame of the stream: its numbers ascend   *)
(* without a gap, so nothing came between its bytes.                       *)
LEMMA NoGap ==
  ASSUME NEW N \in SUBSET Nat, NEW q \in Seq(N), Ascending(q),
         NEW a \in 1 .. Len(q), NEW k \in Nat, q[a] = k, NEW m \in Nat,
         \A d \in 0 .. m : \E i \in 1 .. Len(q) : q[i] = k + d
  PROVE  \A d \in 0 .. m : a + d <= Len(q) /\ q[a + d] = k + d
<1> DEFINE T == {d \in Nat : d <= m => a + d <= Len(q) /\ q[a + d] = k + d}
<1>0. Len(q) \in Nat /\ \A i \in 1 .. Len(q) : q[i] \in Nat
  <2>1. \A i \in 1 .. Len(q) : q[i] \in N
    BY ElementOfSeq
  <2> QED
    BY <2>1, LenProperties
<1>1. 0 \in T
  BY <1>0
<1>2. ASSUME NEW d \in T PROVE d + 1 \in T
  <2> SUFFICES ASSUME d + 1 <= m PROVE a + (d + 1) <= Len(q) /\ q[a + (d + 1)] = k + (d + 1)
    OBVIOUS
  <2>1. a + d <= Len(q) /\ q[a + d] = k + d /\ a + d \in 1 .. Len(q)
    BY <1>0
  <2>2. d + 1 \in 0 .. m
    OBVIOUS
  <2>3. PICK i \in 1 .. Len(q) : q[i] = k + (d + 1)
    BY <2>2
  <2>4. i > a + d
    <3>1. CASE i = a + d
      BY <2>1, <2>3, <3>1
    <3>2. CASE i < a + d
      BY <1>0, <2>1, <2>3, <3>2 DEF Ascending
    <3> QED
      BY <1>0, <2>1, <3>1, <3>2
  <2>5. a + (d + 1) \in 1 .. Len(q)
    BY <1>0, <2>1, <2>4
  <2>6. i = a + (d + 1)
    <3> SUFFICES ASSUME a + (d + 1) < i PROVE FALSE
      BY <1>0, <2>1, <2>4
    <3>1. q[a + d] < q[a + (d + 1)] /\ q[a + (d + 1)] < q[i]
      BY <2>1, <2>5 DEF Ascending
    <3>2. q[a + (d + 1)] \in Nat
      BY <1>0, <2>5
    <3> QED
      BY <2>1, <2>3, <3>1, <3>2
  <2> QED
    BY <2>3, <2>5, <2>6
<1>3. T = Nat
  <2> HIDE DEF T
  <2>1. T \in SUBSET Nat
    BY DEF T
  <2> QED
    BY <1>1, <1>2, <2>1, InductiveSet
<1>4. ASSUME NEW d \in 0 .. m PROVE a + d <= Len(q) /\ q[a + d] = k + d
  <2>1. d \in T
    <3> HIDE DEF T
    <3> QED
      BY <1>3, <1>4
  <2>2. d <= m
    BY <1>4
  <2> QED
    BY <2>1, <2>2
<1> QED
  BY <1>4

LEMMA MessageIsFrame ==
  ASSUME StreamInv, NEW k \in heads, ReceivedWhole(k)
  PROVE  ReceivedAt(k) \in 1 .. Len(stream) /\ FrameAt(stream, ReceivedAt(k))
<1>1. PICK f \in Frames : StandsAt(f, k)
  BY DEF StreamInv, HeadsInv
<1>2. /\ f \in Seq(Bytes) /\ Len(f) \in Nat /\ Len(f) >= HeaderLength + CrcLength
      /\ f[1] = Preamble /\ f[2] \notin Reserved /\ Len(f) = FrameLength(f) /\ CrcMatches(f)
      /\ \A i \in 1 .. Len(f) : f[i] \in Bytes
  BY StreamAssumption, LenProperties, ElementOfSeq
<1>3. /\ Len(f) >= 4 /\ 1 \in 1 .. Len(f) /\ 2 \in 1 .. Len(f) /\ 3 \in 1 .. Len(f)
      /\ CrcLength \in Nat
  BY <1>2, FramingAssumption DEF HeaderLength
<1>4. /\ sent \in Seq(Bytes) /\ Len(sent) \in Nat /\ k \in 1 .. Len(sent)
      /\ k + Len(f) - 1 <= Len(sent)
      /\ \A i \in 1 .. Len(f) : sent[k + i - 1] = f[i]
  BY <1>1, LenProperties DEF StandsAt, StreamInv, ConnInv
<1>5. FrameLength(From(sent, k)) = Len(f)
  <2>1. Header(sent, k)
    BY <1>3, <1>4 DEF Header
  <2>2. sent[k + 2 - 1] = f[2] /\ sent[k + 3 - 1] = f[3]
    BY <1>3, <1>4
  <2>3. sent[k + 1] = f[2] /\ sent[k + 2] = f[3]
    BY <1>4, <2>2
  <2>4. FrameLength(From(sent, k)) = HeaderLength + LengthOf[<<sent[k + 1], sent[k + 2]>>] + CrcLength
    BY <1>4, <2>1, FrameLengthAt
  <2> QED
    BY <1>2, <2>3, <2>4 DEF FrameLength
<1> DEFINE N == 1 .. Len(sent)
           a == ReceivedAt(k)
           m == Len(f) - 1
<1>6. /\ got \in Seq(N) /\ Len(got) \in Nat /\ Ascending(got) /\ DOMAIN got = 1 .. Len(got)
  <2>1. got \in Seq(N) /\ flight \in Seq(N) /\ Ascending(got \o flight)
    BY DEF StreamInv, ConnInv
  <2> HIDE DEF N
  <2> QED
    BY <2>1, AscendingPrefix, LenProperties
<1>7. \A d \in 0 .. m : \E i \in 1 .. Len(got) : got[i] = k + d
  <2> TAKE d \in 0 .. m
  <2>1. k + d \in k .. k + Len(f) - 1
    BY <1>2, <1>4
  <2>2. k + d \in Range(got)
    BY <1>5, <2>1 DEF ReceivedWhole
  <2> QED
    BY <1>6, <2>2 DEF Range
<1>8. a \in 1 .. Len(got) /\ got[a] = k
  <2>1. \E i \in 1 .. Len(got) : got[i] = k + 0
    BY <1>3, <1>2, <1>7
  <2>2. \E i \in DOMAIN got : got[i] = k
    BY <1>4, <1>6, <2>1
  <2>3. a \in DOMAIN got /\ got[a] = k
    BY <2>2 DEF ReceivedAt
  <2> QED
    BY <1>6, <2>3
<1>9. \A d \in 0 .. m : a + d <= Len(got) /\ got[a + d] = k + d
  <2>1. N \in SUBSET Nat /\ m \in Nat /\ k \in Nat
    BY <1>2, <1>3, <1>4
  <2>2. got \in Seq(N) /\ Ascending(got)
    BY <1>6
  <2>3. a \in 1 .. Len(got) /\ got[a] = k
    BY <1>8
  <2>4. \A d \in 0 .. m : \E i \in 1 .. Len(got) : got[i] = k + d
    BY <1>7
  <2> HIDE DEF N, a, m
  <2> QED
    BY <2>1, <2>2, <2>3, <2>4, NoGap, ZenonT(60)
<1>10. /\ stream \in Seq(Bytes) /\ Len(stream) = Len(got)
       /\ \A i \in 1 .. Len(got) : stream[i] = sent[got[i]]
  <2>1. stream = BytesOf(sent, got)
    BY DEF StreamInv, ReceivedInv
  <2> QED
    BY <1>4, <1>6, <2>1, BytesType
<1> HIDE DEF a
<1>11. a + m <= Len(stream) /\ \A i \in 1 .. Len(f) : stream[a + i - 1] = f[i]
  <2>1. a + m <= Len(got)
    BY <1>2, <1>3, <1>9
  <2>2. ASSUME NEW i \in 1 .. Len(f) PROVE stream[a + i - 1] = f[i]
    <3>1. i - 1 \in 0 .. m
      BY <1>2
    <3>2. got[a + (i - 1)] = k + (i - 1) /\ a + (i - 1) <= Len(got)
      BY <1>9, <3>1
    <3>3. a + (i - 1) \in 1 .. Len(got) /\ a + (i - 1) = a + i - 1 /\ k + (i - 1) = k + i - 1
      BY <1>4, <1>6, <1>8, <3>1, <3>2
    <3>4. stream[a + i - 1] = sent[k + i - 1]
      BY <1>10, <3>2, <3>3
    <3> QED
      BY <1>4, <3>4
  <2> QED
    BY <1>10, <2>1, <2>2
<1>12. a \in 1 .. Len(stream) /\ Len(stream) \in Nat
  BY <1>6, <1>8, <1>10
<1>13. stream[a] = f[1] /\ stream[a + 1] = f[2] /\ stream[a + 2] = f[3]
  <2>1. stream[a + 1 - 1] = f[1] /\ stream[a + 2 - 1] = f[2] /\ stream[a + 3 - 1] = f[3]
    BY <1>3, <1>11
  <2> QED
    BY <1>12, <2>1
<1>14. Header(stream, a)
  BY <1>2, <1>3, <1>11, <1>12 DEF Header
<1>15. EndOf(stream, a) = a + Len(f) - 1
  <2>1. FrameLength(From(stream, a))
          = HeaderLength + LengthOf[<<stream[a + 1], stream[a + 2]>>] + CrcLength
    BY <1>10, <1>12, <1>14, FrameLengthAt
  <2>2. FrameLength(From(stream, a)) = Len(f)
    BY <1>2, <1>13, <2>1 DEF FrameLength
  <2> QED
    BY <2>2 DEF EndOf
<1>16. SubSeq(stream, a, a + Len(f) - 1) = f
  <2> DEFINE n == a + Len(f) - 1
  <2>1. n \in Nat /\ n \in a .. Len(stream) /\ n - a + 1 = Len(f)
    BY <1>2, <1>3, <1>11, <1>12
  <2> HIDE DEF n
  <2>2. \A i \in a .. n : stream[i] \in Bytes
    <3>1. \A i \in 1 .. Len(stream) : stream[i] \in Bytes
      BY <1>10, ElementOfSeq
    <3> QED
      BY <1>12, <2>1, <3>1
  <2>3. /\ SubSeq(stream, a, n) \in Seq(Bytes)
        /\ Len(SubSeq(stream, a, n)) = IF a <= n THEN n - a + 1 ELSE 0
        /\ \A i \in 1 .. n - a + 1 : SubSeq(stream, a, n)[i] = stream[a + i - 1]
    BY <1>12, <2>1, <2>2, SubSeqProperties
  <2>4. Len(SubSeq(stream, a, n)) = Len(f)
    BY <1>12, <2>1, <2>3
  <2>5. \A i \in 1 .. Len(f) : SubSeq(stream, a, n)[i] = f[i]
    BY <1>11, <2>1, <2>3
  <2>6. SubSeq(stream, a, n) = f
    BY <1>2, <2>3, <2>4, <2>5, SeqEqual
  <2> QED
    BY <2>6 DEF n
<1>17. FrameAt(stream, a)
  <2>1. EndOf(stream, a) <= Len(stream)
    BY <1>2, <1>11, <1>12, <1>15
  <2>2. CrcMatches(SubSeq(stream, a, EndOf(stream, a)))
    BY <1>2, <1>15, <1>16
  <2> QED
    BY <1>2, <1>13, <1>14, <2>1, <2>2 DEF FrameAt
<1> QED
  BY <1>12, <1>17 DEF a

(* A message that came whole over one connection is published, whatever a  *)
(* lost connection or garbage left in front of it: at once, or before a    *)
(* longest frame more has come.                                            *)
THEOREM RecoveryBoundedHolds == Spec => []RecoveryBounded
<1>1. StreamInv => RecoveryBounded
  <2> SUFFICES ASSUME StreamInv, ~draining, NEW k \in heads, ReceivedWhole(k)
               PROVE  LET a == ReceivedAt(k) IN
                        \/ a \in starts
                        \/ Crossing(a)
                        \/ Len(stream) < a + MaxFrame - 1 /\ \E i \in 1 .. a - 1 : Waiting(i)
    BY DEF RecoveryBounded
  <2>1. ReceivedAt(k) \in 1 .. Len(stream) /\ FrameAt(stream, ReceivedAt(k))
    BY MessageIsFrame
  <2> QED
    BY <2>1, WaitingRecovers DEF StreamInv
<1> QED
  BY <1>1, StreamInductive, PTL
=============================================================================
