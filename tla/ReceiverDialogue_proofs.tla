------------------------ MODULE ReceiverDialogue_proofs ------------------------
(***************************************************************************)
(* Proofs about UbxFraming, the reader on a line that carries any bytes in *)
(* portions of any size, and about ReceiverDialogue, which reads with it:  *)
(* for every set of files, of the receiver's keys and of other messages.   *)
(***************************************************************************)
EXTENDS WellFoundedInduction, SequenceTheorems, ReceiverDialogue, TLAPS

-----------------------------------------------------------------------------
(*                              The reader                                 *)

-----------------------------------------------------------------------------
(* Induction without an operator as a parameter: a set of numbers that     *)
(* holds 0 and with each number the next is all of Nat.                    *)
LEMMA LeastNumber ==
  ASSUME NEW T \in SUBSET Nat, T # {}
  PROVE  \E n \in T : \A m \in T : n <= m
<1>1. IsWellFoundedOn(OpToRel(<, Nat), Nat)
      BY NatLessThanWellFounded
<1>2. \E n \in T : \A m \in T : <<m, n>> \notin OpToRel(<, Nat)
      BY <1>1, WFMin
<1>3. \E n \in T : \A m \in T : ~(m < n)
      BY <1>2 DEF OpToRel
<1> QED BY <1>3

LEMMA InductiveSet ==
  ASSUME NEW T \in SUBSET Nat, 0 \in T, \A n \in T : n + 1 \in T
  PROVE  T = Nat
<1> SUFFICES ASSUME Nat \ T # {} PROVE FALSE
    OBVIOUS
<1>1. PICK n \in Nat \ T : \A m \in Nat \ T : n <= m
      BY LeastNumber
<1>2. n # 0 /\ n - 1 \in Nat /\ n - 1 < n
      BY <1>1
<1>3. n - 1 \in T
      BY <1>1, <1>2
<1> QED BY <1>1, <1>2, <1>3

-----------------------------------------------------------------------------
(* The header that begins at a position, and where its message ends *)
LengthAt(s, i) == s[i + 4] + 256 * s[i + 5]

LEMMA LengthType ==
  ASSUME NEW low \in Byte, NEW high \in Byte
  PROVE  low + 256 * high \in Nat
BY DEF Byte

(* Where the message ends that begins at a position *)
LEMMA MessageExtent ==
  ASSUME NEW s \in Seq(Byte), NEW i \in 1 .. Len(s), i + 5 <= Len(s)
  PROVE  /\ LengthAt(s, i) \in Nat
         /\ MessageEnd(s, i) = i + 7 + LengthAt(s, i)
         /\ MessageEnd(s, i) \in Nat /\ MessageEnd(s, i) > i
<1>1. /\ Len(s) \in Nat /\ \A j \in 1 .. Len(s) : s[j] \in Byte
      /\ \A b \in Byte : b \in Nat
      BY LenProperties, ElementOfSeq DEF Byte
<1>2. LengthAt(s, i) \in Nat
      BY <1>1, SMTT(60) DEF LengthAt
<1> DEFINE r == SubSeq(s, i, Len(s))
<1>3. r[5] = s[i + 4] /\ r[6] = s[i + 5]
  <2>1. \A j \in i .. Len(s) : s[j] \in Byte
        BY <1>1, ElementOfSeq
  <2>2. \A j \in 1 .. Len(s) - i + 1 : r[j] = s[i + j - 1]
        BY <1>1, <2>1, SubSeqProperties
  <2> QED BY <1>1, <2>2
<1>4. PayloadLength(r) = LengthAt(s, i)
      BY <1>3 DEF PayloadLength, LengthAt
<1> QED BY <1>1, <1>2, <1>4 DEF MessageEnd, MSG_HEADER_LEN

-----------------------------------------------------------------------------
(* The reference: its recursion, and the type of what it finds *)
MessagesStep(s, g, i) ==
  IF i + MSG_HEADER_LEN - 1 > Len(s) THEN <<>>
  ELSE IF ~PreambleAt(s, i) THEN g[i + 1]
  ELSE IF MessageEnd(s, i) > Len(s) THEN <<>>
  ELSE <<SubSeq(s, i, MessageEnd(s, i))>> \o g[MessageEnd(s, i) + 1]

(* What the step looks at lies behind it. *)
LEMMA StepLooksAhead ==
  ASSUME NEW s \in Seq(Byte), NEW i \in 1 .. Len(s) + 1, NEW g, NEW h,
         \A j \in i + 1 .. Len(s) + 1 : g[j] = h[j]
  PROVE  MessagesStep(s, g, i) = MessagesStep(s, h, i)
<1>1. Len(s) \in Nat
      BY LenProperties
<1>2. ASSUME i + MSG_HEADER_LEN - 1 <= Len(s), MessageEnd(s, i) <= Len(s)
      PROVE  MessageEnd(s, i) + 1 \in i + 1 .. Len(s) + 1
      BY <1>1, <1>2, MessageExtent DEF MSG_HEADER_LEN
<1>3. i + MSG_HEADER_LEN - 1 <= Len(s) => i + 1 \in i + 1 .. Len(s) + 1
      BY <1>1 DEF MSG_HEADER_LEN
<1>4. ASSUME i + MSG_HEADER_LEN - 1 <= Len(s) PROVE MessageEnd(s, i) \in Nat
      BY <1>1, <1>4, MessageExtent DEF MSG_HEADER_LEN
<1> QED BY <1>1, <1>2, <1>3, <1>4 DEF MessagesStep, MSG_HEADER_LEN

LEMMA MessagesFromExists ==
  ASSUME NEW s \in Seq(Byte)
  PROVE  \E g : g = [i \in 1 .. Len(s) + 1 |-> MessagesStep(s, g, i)]
<1> DEFINE n == Len(s) + 1
           T == {k \in Nat : k < n => \E g : g = [i \in n - k .. n |-> MessagesStep(s, g, i)]}
<1>0. Len(s) \in Nat /\ n \in Nat \ {0}
      BY LenProperties
<1>1. 0 \in T
  <2> DEFINE g == [i \in n .. n |-> <<>>]
  <2>1. \A i \in n .. n : MessagesStep(s, g, i) = <<>>
        BY <1>0 DEF MessagesStep, MSG_HEADER_LEN
  <2>2. g = [i \in n - 0 .. n |-> MessagesStep(s, g, i)]
        BY <1>0, <2>1
  <2> HIDE DEF g
  <2>3. \E f : f = [i \in n - 0 .. n |-> MessagesStep(s, f, i)]
        BY <2>2
  <2> HIDE DEF n
  <2> QED BY <2>3
<1>2. ASSUME NEW k \in T PROVE k + 1 \in T
  <2> SUFFICES ASSUME k + 1 < n
               PROVE  \E g : g = [i \in n - (k + 1) .. n |-> MessagesStep(s, g, i)]
      OBVIOUS
  <2>1. PICK g : g = [i \in n - k .. n |-> MessagesStep(s, g, i)]
        BY <1>0
  <2> DEFINE m == n - (k + 1)
             h == [i \in m .. n |-> IF i = m THEN MessagesStep(s, g, m) ELSE g[i]]
  <2>2. m \in 1 .. n /\ m + 1 = n - k
        BY <1>0
  <2>3. \A i \in m + 1 .. n : g[i] = MessagesStep(s, g, i) /\ h[i] = g[i]
    <3>1. \A i \in n - k .. n : g[i] = MessagesStep(s, g, i)
          BY <2>1
    <3>2. \A i \in m + 1 .. n : h[i] = g[i]
          BY <1>0, <2>2
    <3> QED BY <2>2, <3>1, <3>2
  <2>4. h[m] = MessagesStep(s, g, m)
        BY <2>2
  <2> HIDE DEF h
  <2>5. \A i \in m .. n : MessagesStep(s, g, i) = MessagesStep(s, h, i)
    <3> TAKE i \in m .. n
    <3>1. i \in 1 .. Len(s) + 1 /\ \A j \in i + 1 .. Len(s) + 1 : g[j] = h[j]
          BY <2>2, <2>3
    <3> HIDE DEF n, m
    <3> QED BY <3>1, StepLooksAhead
  <2>6. \A i \in m .. n : h[i] = MessagesStep(s, h, i)
        BY <2>2, <2>3, <2>4, <2>5
  <2>7. h = [i \in m .. n |-> MessagesStep(s, h, i)]
        BY <2>6 DEF h
  <2>8. \E f : f = [i \in m .. n |-> MessagesStep(s, f, i)]
        BY <2>7
  <2> QED BY <2>8
<1>3. T = Nat
  <2> HIDE DEF T
  <2>1. T \in SUBSET Nat
        BY DEF T
  <2> QED BY <1>1, <1>2, <2>1, InductiveSet
<1>4. Len(s) \in T /\ Len(s) < n /\ n - Len(s) = 1
      BY <1>0, <1>3
<1> QED BY <1>4

LEMMA MessagesFromStep ==
  ASSUME NEW s \in Seq(Byte)
  PROVE  \A i \in 1 .. Len(s) + 1 : MessagesFrom(s)[i] = MessagesStep(s, MessagesFrom(s), i)
<1>1. \E g : g = [i \in 1 .. Len(s) + 1 |-> MessagesStep(s, g, i)]
      BY MessagesFromExists
<1>2. MessagesFrom(s) = CHOOSE g : g = [i \in 1 .. Len(s) + 1 |-> MessagesStep(s, g, i)]
      BY DEF MessagesFrom, MessagesStep
<1>3. MessagesFrom(s) = [i \in 1 .. Len(s) + 1 |-> MessagesStep(s, MessagesFrom(s), i)]
      BY <1>1, <1>2, Zenon
<1> QED BY <1>3

LEMMA MessagesFromType ==
  ASSUME NEW s \in Seq(Byte)
  PROVE  \A i \in 1 .. Len(s) + 1 : MessagesFrom(s)[i] \in Seq(Seq(Byte))
<1> DEFINE F == MessagesFrom(s)
           T == {k \in Nat : \A i \in 1 .. Len(s) + 1 :
                               i >= Len(s) + 1 - k => F[i] \in Seq(Seq(Byte))}
<1>0. Len(s) \in Nat /\ \A j \in 1 .. Len(s) : s[j] \in Byte
      BY LenProperties, ElementOfSeq
<1>1. \A i \in 1 .. Len(s) + 1 : F[i] = MessagesStep(s, F, i)
      BY MessagesFromStep
<1> HIDE DEF F
<1>2. 0 \in T
  <2> SUFFICES ASSUME NEW i \in 1 .. Len(s) + 1, i >= Len(s) + 1 - 0
               PROVE  F[i] \in Seq(Seq(Byte))
      OBVIOUS
  <2>1. F[i] = MessagesStep(s, F, i)
        BY <1>1
  <2>2. MessagesStep(s, F, i) = <<>>
        BY <1>0 DEF MessagesStep, MSG_HEADER_LEN
  <2> QED BY <2>1, <2>2, EmptySeq
<1>3. ASSUME NEW k \in T PROVE k + 1 \in T
  <2> SUFFICES ASSUME NEW i \in 1 .. Len(s) + 1, i >= Len(s) + 1 - (k + 1)
               PROVE  F[i] \in Seq(Seq(Byte))
      OBVIOUS
  <2>1. \A j \in i + 1 .. Len(s) + 1 : F[j] \in Seq(Seq(Byte))
        BY <1>0
  <2>2. F[i] = MessagesStep(s, F, i)
        BY <1>1
  <2>3. <<>> \in Seq(Seq(Byte))
        BY EmptySeq
  <2>4. CASE i + 5 > Len(s)
        BY <1>0, <2>2, <2>3, <2>4 DEF MessagesStep, MSG_HEADER_LEN
  <2>5. CASE i + 5 <= Len(s) /\ ~PreambleAt(s, i)
    <3>1. F[i + 1] \in Seq(Seq(Byte))
          BY <1>0, <2>1, <2>5
    <3> QED BY <1>0, <2>2, <2>5, <3>1 DEF MessagesStep, MSG_HEADER_LEN
  <2>6. CASE i + 5 <= Len(s) /\ PreambleAt(s, i)
    <3>1. MessageEnd(s, i) \in Nat /\ MessageEnd(s, i) > i
          BY <1>0, <2>6, MessageExtent
    <3>2. CASE MessageEnd(s, i) > Len(s)
          BY <1>0, <2>2, <2>3, <2>6, <3>2 DEF MessagesStep, MSG_HEADER_LEN
    <3>3. CASE MessageEnd(s, i) <= Len(s)
      <4>1. MessageEnd(s, i) + 1 \in i + 1 .. Len(s) + 1 /\ MessageEnd(s, i) \in i .. Len(s)
            BY <1>0, <3>1, <3>3
      <4>2. SubSeq(s, i, MessageEnd(s, i)) \in Seq(Byte)
        <5>1. \A j \in i .. MessageEnd(s, i) : s[j] \in Byte
              BY <1>0, <4>1
        <5> QED BY <1>0, <4>1, <5>1, SubSeqProperties
      <4>3. F[MessageEnd(s, i) + 1] \in Seq(Seq(Byte))
            /\ <<SubSeq(s, i, MessageEnd(s, i))>> \in Seq(Seq(Byte))
            BY <2>1, <4>1, <4>2
      <4>4. <<SubSeq(s, i, MessageEnd(s, i))>> \o F[MessageEnd(s, i) + 1] \in Seq(Seq(Byte))
            BY <4>3, ConcatProperties
      <4> QED BY <1>0, <2>2, <2>6, <3>1, <3>3, <4>4 DEF MessagesStep, MSG_HEADER_LEN
    <3> QED BY <1>0, <3>1, <3>2, <3>3
  <2> QED BY <1>0, <2>4, <2>5, <2>6
<1>4. T = Nat
  <2> HIDE DEF T
  <2>1. T \in SUBSET Nat
        BY DEF T
  <2> QED BY <1>2, <1>3, <2>1, InductiveSet
<1>5. Len(s) + 1 \in T
      BY <1>0, <1>4
<1> QED BY <1>0, <1>5 DEF F

-----------------------------------------------------------------------------
(* What the recursion says at a position *)

(* Behind a byte that begins no preamble the scan goes on; so near the end *)
(* that no header fits, nothing is found from either.                      *)
LEMMA NothingHere ==
  ASSUME NEW s \in Seq(Byte), NEW i \in 1 .. Len(s), i + 1 <= Len(s), ~PreambleAt(s, i)
  PROVE  MessagesFrom(s)[i] = MessagesFrom(s)[i + 1]
<1> DEFINE F == MessagesFrom(s)
<1>1. Len(s) \in Nat
      BY LenProperties
<1>2. F[i] = MessagesStep(s, F, i) /\ F[i + 1] = MessagesStep(s, F, i + 1)
      BY <1>1, MessagesFromStep
<1> HIDE DEF F
<1>3. i + 5 > Len(s) => F[i] = F[i + 1]
      BY <1>1, <1>2 DEF MessagesStep, MSG_HEADER_LEN
<1>4. i + 5 <= Len(s) => F[i] = F[i + 1]
      BY <1>1, <1>2 DEF MessagesStep, MSG_HEADER_LEN
<1>5. F[i] = F[i + 1]
      BY <1>1, <1>3, <1>4
<1> QED BY <1>5 DEF F

(* Several bytes that begin no preamble are passed together. *)
LEMMA NothingFor ==
  ASSUME NEW s \in Seq(Byte), NEW p \in Nat, NEW k \in 0 .. 5, p + k + 1 <= Len(s),
         \A j \in 1 .. k : ~PreambleAt(s, p + j)
  PROVE  MessagesFrom(s)[p + 1] = MessagesFrom(s)[p + k + 1]
<1> DEFINE F == MessagesFrom(s)
<1>1. Len(s) \in Nat
      BY LenProperties
<1>2. \A j \in 1 .. k : F[p + j] = F[p + j + 1]
  <2> SUFFICES ASSUME NEW j \in 1 .. k PROVE F[p + j] = F[p + j + 1]
      OBVIOUS
  <2>1. p + j \in 1 .. Len(s) /\ (p + j) + 1 <= Len(s) /\ ~PreambleAt(s, p + j)
        BY <1>1
  <2>2. F[p + j] = F[(p + j) + 1]
        BY <2>1, NothingHere
  <2> QED BY <2>2
<1> HIDE DEF F
<1>3. F[p + 1] = F[p + k + 1]
  <2>1. CASE k = 0
        BY <2>1
  <2>2. CASE k = 1
        BY <1>2, <2>2
  <2>3. CASE k = 2
        BY <1>2, <2>3
  <2>4. CASE k = 3
        BY <1>2, <2>4
  <2>5. CASE k = 4
        BY <1>2, <2>5
  <2>6. CASE k = 5
        BY <1>2, <2>6
  <2> QED BY <2>1, <2>2, <2>3, <2>4, <2>5, <2>6
<1> QED BY <1>3 DEF F

(* A preamble begins a message, if it has come as a whole. *)
LEMMA MessageHere ==
  ASSUME NEW s \in Seq(Byte), NEW i \in 1 .. Len(s), i + 5 <= Len(s), PreambleAt(s, i)
  PROVE  LET e == i + 7 + LengthAt(s, i)
         IN  MessagesFrom(s)[i] = IF e > Len(s) THEN <<>>
                                  ELSE <<SubSeq(s, i, e)>> \o MessagesFrom(s)[e + 1]
<1> DEFINE F == MessagesFrom(s)
<1>1. Len(s) \in Nat /\ i \in Nat
      BY LenProperties
<1>2. F[i] = MessagesStep(s, F, i)
      BY <1>1, MessagesFromStep
<1>3. MessageEnd(s, i) = i + 7 + LengthAt(s, i)
      BY MessageExtent
<1> HIDE DEF F
<1>4. MessagesStep(s, F, i) = IF MessageEnd(s, i) > Len(s) THEN <<>>
                              ELSE <<SubSeq(s, i, MessageEnd(s, i))>> \o F[MessageEnd(s, i) + 1]
      BY <1>1 DEF MessagesStep, MSG_HEADER_LEN
<1> QED BY <1>2, <1>3, <1>4 DEF F

(* Behind the last place for a header the scan finds nothing. *)
LEMMA NoHeaderHere ==
  ASSUME NEW s \in Seq(Byte), NEW i \in 1 .. Len(s) + 1, i + 5 > Len(s)
  PROVE  MessagesFrom(s)[i] = <<>>
<1>1. Len(s) \in Nat
      BY LenProperties
<1>2. MessagesFrom(s)[i] = MessagesStep(s, MessagesFrom(s), i)
      BY MessagesFromStep
<1>3. i + MSG_HEADER_LEN - 1 > Len(s)
      BY <1>1 DEF MSG_HEADER_LEN
<1> QED BY <1>2, <1>3, Zenon DEF MessagesStep

-----------------------------------------------------------------------------
(* The invariant: what is in data_buf_ and on the line is the end of the   *)
(* stream, and whatever comes, a scan of it finds the messages that were   *)
(* handed on and then those that begin with the buffer.                    *)
Consumed == Len(heard) - Len(incoming) - Len(dataBuf)

Scanned(s, p, found) ==
  \A e \in Seq(Byte) : MessagesOf(s \o e) = found \o MessagesFrom(s \o e)[p + 1]

LineTypeOK ==
  /\ incoming \in Seq(Byte) /\ dataBuf \in Seq(Byte) /\ heard \in Seq(Byte)
  /\ messages \in Seq(Seq(Byte))
  /\ \/ reading = "header" /\ Len(dataBuf) = 0
     \/ reading = "resync" /\ Len(dataBuf) >= 1 /\ Len(dataBuf) <= 5
     \/ reading = "body" /\ Len(dataBuf) = 6 /\ PreambleAt(dataBuf, 1)

(* b is in the stream behind the first p bytes *)
LiesAt(b, p) == \A j \in 1 .. Len(b) : heard[p + j] = b[j]

LineInv ==
  /\ LineTypeOK
  /\ Consumed \in Nat
  /\ LiesAt(dataBuf, Consumed) /\ LiesAt(incoming, Consumed + Len(dataBuf))
  /\ Scanned(heard, Consumed, messages)

LEMMA ScannedAtFirst == ReadInit => LineInv
<1> SUFFICES ASSUME ReadInit PROVE LineInv
    OBVIOUS
<1>1. Len(heard) = 0 /\ Len(incoming) = 0 /\ Len(dataBuf) = 0
      BY DEF ReadInit
<1>2. Consumed = 0
      BY <1>1 DEF Consumed
<1>3. <<>> \in Seq(Byte) /\ <<>> \in Seq(Seq(Byte))
      BY EmptySeq
<1>4. Scanned(heard, 0, messages)
  <2> SUFFICES ASSUME NEW e \in Seq(Byte)
               PROVE  MessagesOf(<<>> \o e) = <<>> \o MessagesFrom(<<>> \o e)[0 + 1]
      BY DEF Scanned, ReadInit
  <2>1. <<>> \o e = e
        BY ConcatEmptySeq
  <2>2. MessagesFrom(e)[1] \in Seq(Seq(Byte))
    <3>1. 1 \in 1 .. Len(e) + 1
          BY LenProperties
    <3> QED BY <3>1, MessagesFromType
  <2>3. <<>> \o MessagesFrom(e)[1] = MessagesFrom(e)[1]
        BY <2>2, ConcatEmptySeq
  <2> QED BY <2>1, <2>3 DEF MessagesOf
<1>5. LineTypeOK
      BY <1>1, <1>3 DEF LineTypeOK, ReadInit
<1> QED BY <1>1, <1>2, <1>4, <1>5 DEF LineInv, LiesAt

(* Two stretches put together *)
LEMMA Joined ==
  ASSUME NEW s \in Seq(Byte), NEW t \in Seq(Byte), NEW u, u = s \o t
  PROVE  /\ u \in Seq(Byte) /\ Len(u) = Len(s) + Len(t) /\ Len(s) \in Nat /\ Len(t) \in Nat
         /\ \A j \in 1 .. Len(s) : u[j] = s[j]
         /\ \A j \in 1 .. Len(t) : u[Len(s) + j] = t[j]
         /\ \A j \in Len(s) + 1 .. Len(s) + Len(t) : u[j] = t[j - Len(s)]
<1>1. /\ u \in Seq(Byte) /\ Len(u) = Len(s) + Len(t)
      /\ \A j \in 1 .. Len(s) + Len(t) : u[j] = IF j <= Len(s) THEN s[j] ELSE t[j - Len(s)]
      BY ConcatProperties
<1>2. Len(s) \in Nat /\ Len(t) \in Nat
      BY LenProperties
<1>3. ASSUME NEW j \in 1 .. Len(t) PROVE u[Len(s) + j] = t[j]
      BY <1>1, <1>2
<1> QED BY <1>1, <1>2, <1>3

(* The beginning of a longer stream *)
LEMMA Longer ==
  ASSUME NEW s \in Seq(Byte), NEW e \in Seq(Byte)
  PROVE  /\ s \o e \in Seq(Byte)
         /\ Len(s) \in Nat /\ Len(s \o e) \in Nat /\ Len(s) <= Len(s \o e)
         /\ \A j \in 1 .. Len(s) : (s \o e)[j] = s[j]
BY ConcatProperties, LenProperties

(* How much has come, is in the buffer and is wanted *)
LEMMA Lengths ==
  ASSUME LineInv
  PROVE  /\ Len(heard) \in Nat /\ Len(incoming) \in Nat
         /\ Len(dataBuf) \in Nat /\ Len(dataBuf) <= 6
         /\ Len(heard) = Consumed + Len(dataBuf) + Len(incoming)
         /\ Wanted \in Nat
         /\ reading \in {"header", "resync"} => Wanted = 6 - Len(dataBuf)
<1>1. /\ Len(heard) \in Nat /\ Len(incoming) \in Nat
      /\ Len(dataBuf) \in Nat /\ Len(dataBuf) <= 6
  <2>1. Len(heard) \in Nat /\ Len(incoming) \in Nat /\ Len(dataBuf) \in Nat
        BY LenProperties DEF LineInv, LineTypeOK
  <2>2. Len(dataBuf) = 0 \/ Len(dataBuf) <= 5 \/ Len(dataBuf) = 6
        BY DEF LineInv, LineTypeOK
  <2>3. \A n \in Nat : n = 0 \/ n <= 5 \/ n = 6 => n <= 6
        OBVIOUS
  <2>4. Len(dataBuf) <= 6
        BY <2>1, <2>2, <2>3, Zenon
  <2> QED BY <2>1, <2>4, Zenon
<1>2. Len(heard) = Consumed + Len(dataBuf) + Len(incoming)
      BY <1>1 DEF Consumed
<1>3. dataBuf \in Seq(Byte)
      BY DEF LineInv, LineTypeOK
<1>4. CASE reading = "body"
  <2>1. Len(dataBuf) = 6
        BY <1>4 DEF LineInv, LineTypeOK
  <2>0. 5 \in 1 .. Len(dataBuf) /\ 6 \in 1 .. Len(dataBuf)
        BY <2>1
  <2>2. dataBuf[5] \in Byte /\ dataBuf[6] \in Byte
        BY <1>3, <2>0, ElementOfSeq
  <2>3. PayloadLength(dataBuf) \in Nat
        BY <2>2, LengthType DEF PayloadLength
  <2>4. Wanted = PayloadLength(dataBuf) + 2
        BY <1>4 DEF Wanted
  <2>5. Wanted \in Nat
        BY <2>3, <2>4
  <2> QED BY <1>1, <1>2, <1>4, <2>5
<1>5. CASE reading = "resync"
  <2>1. Wanted = 6 - Len(dataBuf)
        BY <1>5 DEF Wanted, MSG_HEADER_LEN
  <2>2. Wanted \in Nat
        BY <1>1, <2>1
  <2> QED BY <1>1, <1>2, <2>1, <2>2, Zenon
<1>6. CASE reading = "header"
  <2>1. Len(dataBuf) = 0
        BY <1>6 DEF LineInv, LineTypeOK
  <2>2. Wanted = 6
        BY <1>6 DEF Wanted, MSG_HEADER_LEN
  <2> QED BY <1>1, <1>2, <2>1, <2>2
<1>7. reading = "header" \/ reading = "resync" \/ reading = "body"
      BY DEF LineInv, LineTypeOK
<1> QED BY <1>4, <1>5, <1>6, <1>7, Zenon

(* Bytes arrive: the scan of the stream takes them as it would have taken  *)
(* them then.                                                              *)
LEMMA ArriveStep ==
  ASSUME LineInv, NEW bytes \in Seq(Byte), Arrives(bytes)
  PROVE  LineInv'
<1>1. /\ incoming' = incoming \o bytes /\ heard' = heard \o bytes
      /\ UNCHANGED <<dataBuf, reading, messages>>
      BY DEF Arrives
<1>2. heard \in Seq(Byte) /\ incoming \in Seq(Byte) /\ dataBuf \in Seq(Byte)
      BY DEF LineInv, LineTypeOK
<1>3. /\ Len(heard) \in Nat /\ Len(incoming) \in Nat /\ Len(dataBuf) \in Nat /\ Len(bytes) \in Nat
      /\ Len(heard) = Consumed + Len(dataBuf) + Len(incoming)
      /\ Consumed \in Nat
      BY <1>2, Lengths, LenProperties DEF LineInv
<1>4. /\ Len(incoming') = Len(incoming) + Len(bytes) /\ Len(heard') = Len(heard) + Len(bytes)
      /\ incoming' \in Seq(Byte) /\ heard' \in Seq(Byte)
      /\ \A j \in 1 .. Len(heard) : heard'[j] = heard[j]
      /\ \A j \in 1 .. Len(bytes) : heard'[Len(heard) + j] = bytes[j]
      /\ \A j \in 1 .. Len(incoming) : incoming'[j] = incoming[j]
      /\ \A j \in Len(incoming) + 1 .. Len(incoming) + Len(bytes) :
           incoming'[j] = bytes[j - Len(incoming)]
      BY <1>1, <1>2, Joined
<1>5. Consumed' = Consumed
      BY <1>1, <1>3, <1>4 DEF Consumed
<1>6. LiesAt(dataBuf, Consumed)'
      BY <1>1, <1>3, <1>4, <1>5, SMTT(60) DEF LineInv, LiesAt
<1>7. LiesAt(incoming, Consumed + Len(dataBuf))'
  <2> SUFFICES ASSUME NEW j \in 1 .. Len(incoming')
               PROVE  heard'[Consumed + Len(dataBuf) + j] = incoming'[j]
      BY <1>1, <1>5 DEF LiesAt
  <2>1. CASE j <= Len(incoming)
        BY <1>3, <1>4, <2>1 DEF LineInv, LiesAt
  <2>2. CASE j > Len(incoming)
    <3>1. /\ j - Len(incoming) \in 1 .. Len(bytes)
          /\ Consumed + Len(dataBuf) + j = Len(heard) + (j - Len(incoming))
          BY <1>3, <1>4, <2>2
    <3>2. heard'[Len(heard) + (j - Len(incoming))] = bytes[j - Len(incoming)]
          BY <1>4, <3>1
    <3> QED BY <1>3, <1>4, <2>2, <3>1, <3>2, SMTT(60)
  <2> QED BY <1>3, <1>4, <2>1, <2>2
<1>8. Scanned(heard, Consumed, messages)'
  <2> SUFFICES ASSUME NEW e \in Seq(Byte)
               PROVE  MessagesOf((heard \o bytes) \o e)
                        = messages \o MessagesFrom((heard \o bytes) \o e)[Consumed + 1]
      BY <1>1, <1>5 DEF Scanned
  <2>1. bytes \o e \in Seq(Byte) /\ (heard \o bytes) \o e = heard \o (bytes \o e)
        BY <1>2, ConcatProperties, ConcatAssociative, SMTT(60)
  <2> QED BY <2>1 DEF LineInv, Scanned
<1>9. LineTypeOK'
      BY <1>1, <1>4 DEF LineInv, LineTypeOK, PreambleAt
<1> QED BY <1>3, <1>5, <1>6, <1>7, <1>8, <1>9 DEF LineInv

(* read_exact takes the next bytes of the stream. *)
LEMMA Taken ==
  ASSUME LineInv, Reads
  PROVE  LET b == dataBuf \o Got
             n == Len(dataBuf) + Wanted
         IN  /\ b \in Seq(Byte) /\ Len(b) = n /\ n \in Nat /\ LiesAt(b, Consumed)
             /\ incoming' \in Seq(Byte) /\ Len(incoming') = Len(incoming) - Wanted
             /\ \A j \in 1 .. Len(incoming') : heard[Consumed + n + j] = incoming'[j]
             /\ Consumed + n <= Len(heard)
             /\ \A j \in 1 .. Len(dataBuf) : b[j] = dataBuf[j]
<1> DEFINE b == dataBuf \o Got
           n == Len(dataBuf) + Wanted
<1>1. /\ Len(incoming) \in Nat /\ Len(dataBuf) \in Nat /\ Wanted \in Nat /\ Wanted <= Len(incoming)
      /\ Consumed \in Nat /\ Len(heard) = Consumed + Len(dataBuf) + Len(incoming)
      BY Lengths DEF LineInv, Reads
<1>2. dataBuf \in Seq(Byte) /\ incoming \in Seq(Byte) /\ \A j \in 1 .. Len(incoming) : incoming[j] \in Byte
      BY ElementOfSeq DEF LineInv, LineTypeOK
<1>3. /\ Got \in Seq(Byte) /\ Len(Got) = Wanted
      /\ \A j \in 1 .. Wanted : Got[j] = incoming[j]
  <2>1. \A j \in 1 .. Wanted : incoming[j] \in Byte
        BY <1>1, <1>2
  <2> HIDE DEF Wanted
  <2>2. /\ SubSeq(incoming, 1, Wanted) \in Seq(Byte)
        /\ Len(SubSeq(incoming, 1, Wanted)) = IF 1 <= Wanted THEN Wanted - 1 + 1 ELSE 0
        /\ \A j \in 1 .. Wanted - 1 + 1 : SubSeq(incoming, 1, Wanted)[j] = incoming[1 + j - 1]
        BY <1>1, <2>1, SubSeqProperties
  <2> QED BY <1>1, <2>2 DEF Got
<1>4. /\ incoming' \in Seq(Byte) /\ Len(incoming') = Len(incoming) - Wanted
      /\ \A j \in 1 .. Len(incoming) - Wanted : incoming'[j] = incoming[Wanted + j]
  <2>1. \A j \in Wanted + 1 .. Len(incoming) : incoming[j] \in Byte
        BY <1>1, <1>2
  <2>2. LET r == SubSeq(incoming, Wanted + 1, Len(incoming))
        IN  /\ r \in Seq(Byte)
            /\ Len(r) = IF Wanted + 1 <= Len(incoming) THEN Len(incoming) - (Wanted + 1) + 1 ELSE 0
            /\ \A j \in 1 .. Len(incoming) - (Wanted + 1) + 1 : r[j] = incoming[Wanted + 1 + j - 1]
        BY <1>1, <2>1, SubSeqProperties
  <2> QED BY <1>1, <2>2, SMTT(60) DEF Reads
<1>5. /\ b \in Seq(Byte) /\ Len(b) = n
      /\ \A j \in 1 .. Len(dataBuf) : b[j] = dataBuf[j]
      /\ \A j \in Len(dataBuf) + 1 .. n : b[j] = incoming[j - Len(dataBuf)]
  <2>0. b = dataBuf \o Got
        OBVIOUS
  <2> HIDE DEF b
  <2>1. /\ b \in Seq(Byte) /\ Len(b) = Len(dataBuf) + Len(Got)
        /\ \A j \in 1 .. Len(dataBuf) : b[j] = dataBuf[j]
        /\ \A j \in Len(dataBuf) + 1 .. Len(dataBuf) + Len(Got) : b[j] = Got[j - Len(dataBuf)]
    <3>1. dataBuf \in Seq(Byte) /\ Got \in Seq(Byte)
          BY <1>2, <1>3
    <3> QED BY <2>0, <3>1, Joined
  <2>2. ASSUME NEW j \in Len(dataBuf) + 1 .. n PROVE b[j] = incoming[j - Len(dataBuf)]
    <3>1. j - Len(dataBuf) \in 1 .. Wanted
          BY <1>1
    <3> QED BY <1>3, <2>1, <3>1
  <2> QED BY <1>3, <2>1, <2>2
<1> HIDE DEF b
<1>6. LiesAt(b, Consumed)
  <2> SUFFICES ASSUME NEW j \in 1 .. n PROVE heard[Consumed + j] = b[j]
      BY <1>5 DEF LiesAt
  <2>1. CASE j <= Len(dataBuf)
        BY <1>1, <1>5, <2>1 DEF LineInv, LiesAt
  <2>2. CASE j > Len(dataBuf)
    <3>1. /\ j - Len(dataBuf) \in 1 .. Len(incoming)
          /\ Consumed + j = Consumed + Len(dataBuf) + (j - Len(dataBuf))
          BY <1>1, <2>2
    <3>2. heard[Consumed + Len(dataBuf) + (j - Len(dataBuf))] = incoming[j - Len(dataBuf)]
          BY <3>1 DEF LineInv, LiesAt
    <3> QED BY <1>1, <1>5, <2>2, <3>1, <3>2
  <2> QED BY <1>1, <2>1, <2>2
<1>7. ASSUME NEW j \in 1 .. Len(incoming') PROVE heard[Consumed + n + j] = incoming'[j]
  <2>1. Wanted + j \in 1 .. Len(incoming) /\ j \in 1 .. Len(incoming) - Wanted
        BY <1>1, <1>4
  <2>2. heard[Consumed + Len(dataBuf) + (Wanted + j)] = incoming[Wanted + j]
        BY <2>1 DEF LineInv, LiesAt
  <2>3. Consumed + Len(dataBuf) + (Wanted + j) = Consumed + n + j
        BY <1>1, <2>1
  <2> QED BY <1>4, <2>1, <2>2, <2>3
<1>8. Consumed + n <= Len(heard) /\ n \in Nat
      BY <1>1
<1> QED BY <1>4, <1>5, <1>6, <1>7, <1>8 DEF b

(* pream_idx is at the first preamble of the header, or at its last byte. *)
LEMMA PreambleIndexFirst ==
  ASSUME NEW b
  PROVE  /\ PreambleIndex(b) \in 0 .. 5
         /\ \A j \in 1 .. PreambleIndex(b) : ~PreambleAt(b, j)
         /\ PreambleIndex(b) = 0 => PreambleAt(b, 1)
<1> DEFINE found == {i \in 0 .. MSG_HEADER_LEN - 2 : PreambleAt(b, i + 1)}
           first == CHOOSE i \in found : \A j \in found : i <= j
<1>1. PreambleIndex(b) = IF found = {} THEN MSG_HEADER_LEN - 1 ELSE first
      BY Zenon DEF PreambleIndex
<1>2. found \in SUBSET Nat /\ \A i \in found : i \in 0 .. 4
      BY DEF MSG_HEADER_LEN
<1>3. found # {} => first \in found /\ \A j \in found : first <= j
  <2> SUFFICES ASSUME found # {} PROVE first \in found /\ \A j \in found : first <= j
      OBVIOUS
  <2>1. \E i \in found : \A j \in found : i <= j
    <3> HIDE DEF found
    <3> QED BY <1>2, LeastNumber
  <2> HIDE DEF found
  <2> QED BY <2>1, Zenon
<1>4. \A i \in 0 .. 4 : PreambleAt(b, i + 1) => i \in found
      BY DEF MSG_HEADER_LEN
<1>5. \A i \in found : PreambleAt(b, i + 1)
      OBVIOUS
<1> HIDE DEF found, first
<1>6. PreambleIndex(b) \in 0 .. 5
  <2>1. CASE found = {}
    <3>1. PreambleIndex(b) = 5
          BY <1>1, <2>1 DEF MSG_HEADER_LEN
    <3> QED BY <3>1
  <2>2. CASE found # {}
    <3>1. PreambleIndex(b) = first /\ first \in 0 .. 4
          BY <1>1, <1>2, <1>3, <2>2, Zenon
    <3> QED BY <3>1
  <2> QED BY <2>1, <2>2
<1>7. ASSUME NEW j \in 1 .. PreambleIndex(b), PreambleAt(b, j) PROVE FALSE
  <2>1. j - 1 \in 0 .. 4 /\ PreambleAt(b, (j - 1) + 1)
    <3>1. j = (j - 1) + 1
          BY <1>6
    <3> QED BY <1>6, <1>7, <3>1
  <2>2. j - 1 \in found
        BY <1>4, <2>1
  <2>3. PreambleIndex(b) = first /\ first <= j - 1
        BY <1>1, <1>3, <2>2
  <2> QED BY <1>6, <2>3
<1>8. ASSUME PreambleIndex(b) = 0 PROVE PreambleAt(b, 1)
  <2>1. found # {} /\ first = 0
        BY <1>1, <1>8 DEF MSG_HEADER_LEN
  <2>2. PreambleAt(b, 0 + 1)
        BY <1>3, <1>5, <2>1
  <2> QED BY <2>2
<1> QED BY <1>6, <1>7, <1>8

(* A header is searched: the scan of the stream finds nothing in what is   *)
(* given up, and goes on at the same place.                                *)
LEMMA SearchStep ==
  ASSUME LineInv, reading \in {"header", "resync"}, Reads, Searched(dataBuf \o Got),
         UNCHANGED <<messages, heard>>
  PROVE  LineInv'
<1> DEFINE b == dataBuf \o Got
           k == PreambleIndex(b)
<1>1. /\ Len(heard) \in Nat /\ Len(incoming) \in Nat /\ Len(dataBuf) \in Nat
      /\ Consumed \in Nat /\ Len(heard) = Consumed + Len(dataBuf) + Len(incoming)
      /\ Wanted = 6 - Len(dataBuf)
      BY Lengths, Zenon DEF LineInv
<1>2. Len(dataBuf) + Wanted = 6
      BY <1>1
<1>3. /\ b \in Seq(Byte) /\ Len(b) = 6 /\ LiesAt(b, Consumed)
      /\ incoming' \in Seq(Byte) /\ Len(incoming') = Len(incoming) - Wanted
      /\ \A j \in 1 .. Len(incoming') : heard[Consumed + 6 + j] = incoming'[j]
      /\ Consumed + 6 <= Len(heard)
      BY <1>2, Taken
<1>4. /\ k \in 0 .. 5 /\ \A j \in 1 .. k : ~PreambleAt(b, j)
      /\ k = 0 => PreambleAt(b, 1)
      BY PreambleIndexFirst
<1>5. /\ dataBuf' = SubSeq(b, k + 1, Len(b))
      /\ reading' = IF k = 0 THEN "body" ELSE "resync"
      /\ messages' = messages /\ heard' = heard
      BY DEF Searched
<1> HIDE DEF b, k
<1>6. /\ dataBuf' \in Seq(Byte) /\ Len(dataBuf') = 6 - k
      /\ \A j \in 1 .. 6 - k : dataBuf'[j] = b[k + j]
  <2>1. \A j \in k + 1 .. 6 : b[j] \in Byte
    <3>1. \A j \in 1 .. Len(b) : b[j] \in Byte
          BY <1>3, ElementOfSeq
    <3>2. \A j \in 1 .. 6 : b[j] \in Byte
          BY <1>3, <3>1
    <3> QED BY <1>4, <3>2
  <2>2. LET r == SubSeq(b, k + 1, 6)
        IN  /\ r \in Seq(Byte) /\ Len(r) = IF k + 1 <= 6 THEN 6 - (k + 1) + 1 ELSE 0
            /\ \A j \in 1 .. 6 - (k + 1) + 1 : r[j] = b[k + 1 + j - 1]
        BY <1>4, <2>1, SubSeqProperties
  <2>3. \A j \in 1 .. 6 - k : j \in 1 .. 6 - (k + 1) + 1 /\ k + 1 + j - 1 = k + j
        BY <1>4
  <2>4. dataBuf' = SubSeq(b, k + 1, 6)
        BY <1>3, <1>5
  <2> QED BY <1>4, <2>2, <2>3, <2>4
<1>7. Consumed' = Consumed + k
  <2>1. Len(incoming') = Len(incoming) - Wanted /\ Len(dataBuf') = 6 - k /\ Len(heard') = Len(heard)
        BY <1>3, <1>5, <1>6
  <2>2. Consumed' = Len(heard) - (Len(incoming) - Wanted) - (6 - k)
        BY <2>1 DEF Consumed
  <2> QED BY <1>1, <1>4, <2>2
<1>8. LiesAt(dataBuf, Consumed)'
  <2> SUFFICES ASSUME NEW j \in 1 .. 6 - k PROVE heard[(Consumed + k) + j] = dataBuf'[j]
      BY <1>5, <1>6, <1>7 DEF LiesAt
  <2>1. k + j \in 1 .. Len(b) /\ Consumed + (k + j) = (Consumed + k) + j
        BY <1>1, <1>3, <1>4
  <2>2. heard[Consumed + (k + j)] = b[k + j]
        BY <1>3, <2>1 DEF LiesAt
  <2> QED BY <1>6, <2>1, <2>2
<1>9. LiesAt(incoming, Consumed + Len(dataBuf))'
  <2>1. Consumed' + Len(dataBuf') = Consumed + 6
        BY <1>1, <1>4, <1>6, <1>7
  <2>2. LiesAt(incoming, Consumed + Len(dataBuf))' <=>
          \A j \in 1 .. Len(incoming') : heard'[Consumed' + Len(dataBuf') + j] = incoming'[j]
        BY DEF LiesAt
  <2> QED BY <1>3, <1>5, <2>1, <2>2
<1>10. Scanned(heard, Consumed, messages)'
  <2> SUFFICES ASSUME NEW e \in Seq(Byte)
               PROVE  MessagesOf(heard \o e) = messages \o MessagesFrom(heard \o e)[(Consumed + k) + 1]
      BY <1>5, <1>7 DEF Scanned
  <2> DEFINE t == heard \o e
  <2>1. /\ t \in Seq(Byte) /\ Len(t) \in Nat /\ Len(heard) <= Len(t)
        /\ \A j \in 1 .. Len(heard) : t[j] = heard[j]
        BY Longer DEF LineInv, LineTypeOK
  <2>2. MessagesOf(t) = messages \o MessagesFrom(t)[Consumed + 1]
        BY DEF LineInv, Scanned
  <2> HIDE DEF t
  <2>3. ASSUME NEW j \in 1 .. 6 PROVE t[Consumed + j] = b[j]
    <3>1. j \in 1 .. Len(b) /\ Consumed + j \in 1 .. Len(heard)
          BY <1>1, <1>3
    <3>2. heard[Consumed + j] = b[j]
          BY <1>3, <3>1 DEF LiesAt
    <3> QED BY <2>1, <3>1, <3>2
  <2>4. ASSUME NEW j \in 1 .. k PROVE ~PreambleAt(t, Consumed + j)
    <3>1. j \in 1 .. 6 /\ j + 1 \in 1 .. 6 /\ Consumed + (j + 1) = (Consumed + j) + 1
          BY <1>1, <1>4
    <3>2. t[Consumed + j] = b[j] /\ t[(Consumed + j) + 1] = b[j + 1]
          BY <2>3, <3>1
    <3>3. ~PreambleAt(b, j)
          BY <1>4
    <3> QED BY <3>2, <3>3 DEF PreambleAt
  <2>5. Consumed + k + 1 <= Len(t)
        BY <1>1, <1>3, <1>4, <2>1
  <2>6. MessagesFrom(t)[Consumed + 1] = MessagesFrom(t)[Consumed + k + 1]
        BY <1>1, <1>4, <2>1, <2>4, <2>5, NothingFor
  <2> QED BY <2>2, <2>6 DEF t
<1>11. LineTypeOK'
  <2>1. \/ reading' = "resync" /\ Len(dataBuf') >= 1 /\ Len(dataBuf') <= 5
        \/ reading' = "body" /\ Len(dataBuf') = 6 /\ PreambleAt(dataBuf', 1)
    <3>1. CASE k = 0
      <4>1. PreambleAt(b, 1) /\ dataBuf'[1] = b[1] /\ dataBuf'[1 + 1] = b[1 + 1]
            BY <1>4, <1>6, <3>1
      <4>2. PreambleAt(dataBuf', 1)
            BY <4>1 DEF PreambleAt
      <4>3. Len(dataBuf') = 6 /\ reading' = "body"
            BY <1>5, <1>6, <3>1
      <4> QED BY <4>2, <4>3
    <3>2. CASE k # 0
      <4>1. 6 - k >= 1 /\ 6 - k <= 5
            BY <1>4, <3>2
      <4>2. reading' = "resync"
            BY <1>5, <3>2
      <4> QED BY <1>6, <4>1, <4>2
    <3> QED BY <3>1, <3>2
  <2>2. LineTypeOK' <=>
          /\ incoming' \in Seq(Byte) /\ dataBuf' \in Seq(Byte) /\ heard' \in Seq(Byte)
          /\ messages' \in Seq(Seq(Byte))
          /\ \/ reading' = "header" /\ Len(dataBuf') = 0
             \/ reading' = "resync" /\ Len(dataBuf') >= 1 /\ Len(dataBuf') <= 5
             \/ reading' = "body" /\ Len(dataBuf') = 6 /\ PreambleAt(dataBuf', 1)
        BY Zenon DEF LineTypeOK, PreambleAt
  <2>3. heard \in Seq(Byte) /\ messages \in Seq(Seq(Byte))
        BY DEF LineInv, LineTypeOK
  <2> QED BY <1>3, <1>5, <1>6, <2>1, <2>2, <2>3, Zenon
<1>12. Consumed' \in Nat
      BY <1>1, <1>4, <1>7
<1> QED BY <1>8, <1>9, <1>10, <1>11, <1>12, Zenon DEF LineInv

(* The body of a message is there: what goes to the callbacks is what the  *)
(* scan of the stream finds next.                                          *)
LEMMA BodyStep ==
  ASSUME LineInv, ReadBody
  PROVE  LineInv'
<1> DEFINE b == dataBuf \o Got
           n == PayloadLength(dataBuf)
<1>1. /\ reading = "body" /\ Reads /\ messages' = Append(messages, b)
      /\ dataBuf' = <<>> /\ reading' = "header" /\ heard' = heard
      BY DEF ReadBody
<1>2. Len(dataBuf) = 6 /\ PreambleAt(dataBuf, 1)
      BY <1>1 DEF LineInv, LineTypeOK
<1>3. /\ Len(heard) \in Nat /\ Len(incoming) \in Nat /\ Wanted \in Nat
      /\ Consumed \in Nat /\ Len(heard) = Consumed + Len(dataBuf) + Len(incoming)
      BY Lengths, Zenon DEF LineInv
<1>4. n = Wanted - 2 /\ n + 2 \in Nat /\ n \in Nat
  <2>1. dataBuf \in Seq(Byte) /\ 5 \in 1 .. Len(dataBuf) /\ 6 \in 1 .. Len(dataBuf)
    <3>1. dataBuf \in Seq(Byte)
          BY DEF LineInv, LineTypeOK
    <3> QED BY <1>2, <3>1
  <2>2. dataBuf[5] \in Byte /\ dataBuf[6] \in Byte
        BY <2>1, ElementOfSeq
  <2>3. n \in Nat
        BY <2>2, LengthType DEF PayloadLength
  <2>4. Wanted = n + 2
        BY <1>1 DEF Wanted
  <2> HIDE DEF n
  <2> QED BY <2>3, <2>4
<1> HIDE DEF n
<1>5. Len(dataBuf) + Wanted = n + 8
      BY <1>2, <1>3, <1>4
<1>6. /\ b \in Seq(Byte) /\ Len(b) = n + 8 /\ LiesAt(b, Consumed)
      /\ incoming' \in Seq(Byte) /\ Len(incoming') = Len(incoming) - Wanted
      /\ \A j \in 1 .. Len(incoming') : heard[Consumed + (n + 8) + j] = incoming'[j]
      /\ Consumed + (n + 8) <= Len(heard)
      /\ \A j \in 1 .. Len(dataBuf) : b[j] = dataBuf[j]
      BY <1>1, <1>5, Taken
<1> HIDE DEF b
<1>7. Consumed' = Consumed + (n + 8)
  <2>1. Len(dataBuf') = 0
        BY <1>1
  <2>2. Consumed' = Len(heard) - (Len(incoming) - Wanted) - 0
        BY <1>1, <1>6, <2>1 DEF Consumed
  <2> QED BY <1>2, <1>3, <1>4, <2>2
<1>8. LiesAt(dataBuf, Consumed)'
  <2>1. Len(dataBuf') = 0
        BY <1>1
  <2> QED BY <2>1 DEF LiesAt
<1>9. LiesAt(incoming, Consumed + Len(dataBuf))'
  <2>1. Consumed' + Len(dataBuf') = Consumed + (n + 8)
        BY <1>1, <1>3, <1>4, <1>7
  <2>2. LiesAt(incoming, Consumed + Len(dataBuf))' <=>
          \A j \in 1 .. Len(incoming') : heard'[Consumed' + Len(dataBuf') + j] = incoming'[j]
        BY DEF LiesAt
  <2> QED BY <1>1, <1>6, <2>1, <2>2
<1>10. messages \in Seq(Seq(Byte)) /\ messages' = messages \o <<b>> /\ messages' \in Seq(Seq(Byte))
  <2>1. messages \in Seq(Seq(Byte))
        BY DEF LineInv, LineTypeOK
  <2> QED BY <1>1, <1>6, <2>1, AppendIsConcat, AppendProperties
<1>11. Scanned(heard, Consumed, messages)'
  <2> SUFFICES ASSUME NEW e \in Seq(Byte)
               PROVE  MessagesOf(heard \o e)
                        = messages' \o MessagesFrom(heard \o e)[(Consumed + (n + 8)) + 1]
      BY <1>1, <1>7 DEF Scanned
  <2> DEFINE t == heard \o e
             i == Consumed + 1
             r == MessagesFrom(t)[(Consumed + (n + 8)) + 1]
  <2>1. /\ t \in Seq(Byte) /\ Len(t) \in Nat /\ Len(heard) <= Len(t)
        /\ \A j \in 1 .. Len(heard) : t[j] = heard[j]
        BY Longer DEF LineInv, LineTypeOK
  <2>2. MessagesOf(t) = messages \o MessagesFrom(t)[i]
        BY DEF LineInv, Scanned
  <2> HIDE DEF t
  <2>3. ASSUME NEW j \in 1 .. n + 8 PROVE t[Consumed + j] = b[j]
    <3>1. j \in 1 .. Len(b) /\ Consumed + j \in 1 .. Len(heard)
          BY <1>3, <1>4, <1>6
    <3>2. heard[Consumed + j] = b[j]
          BY <1>6, <3>1 DEF LiesAt
    <3> QED BY <2>1, <3>1, <3>2
  <2>4. ASSUME NEW j \in 1 .. 6 PROVE t[Consumed + j] = dataBuf[j]
    <3>1. j \in 1 .. n + 8 /\ j \in 1 .. Len(dataBuf)
          BY <1>2, <1>4
    <3> QED BY <1>6, <2>3, <3>1
  <2>5. i \in 1 .. Len(t) /\ i + 5 <= Len(t)
        BY <1>3, <1>4, <1>6, <2>1
  <2>6. PreambleAt(t, i) /\ LengthAt(t, i) = n
    <3>1. t[Consumed + 1] = dataBuf[1] /\ t[Consumed + 2] = dataBuf[2]
          /\ t[Consumed + 5] = dataBuf[5] /\ t[Consumed + 6] = dataBuf[6]
          BY <2>4
    <3>2. i = Consumed + 1 /\ i + 1 = Consumed + 2 /\ i + 4 = Consumed + 5 /\ i + 5 = Consumed + 6
          BY <1>3
    <3>3. dataBuf[1] = UBX_SYNC_1 /\ dataBuf[2] = UBX_SYNC_2
          BY <1>2 DEF PreambleAt
    <3> HIDE DEF i
    <3>4. PreambleAt(t, i)
          BY <3>1, <3>2, <3>3 DEF PreambleAt
    <3>5. LengthAt(t, i) = n
          BY <3>1, <3>2 DEF LengthAt, n, PayloadLength
    <3> QED BY <3>4, <3>5
  <2>7. i + 7 + n = Consumed + (n + 8) /\ ~(i + 7 + n > Len(t))
        BY <1>3, <1>4, <1>6, <2>1
  <2>8. MessagesFrom(t)[i] = <<SubSeq(t, i, Consumed + (n + 8))>> \o r
        BY <2>1, <2>5, <2>6, <2>7, MessageHere
  <2>9. SubSeq(t, i, Consumed + (n + 8)) = b
    <3> DEFINE m == SubSeq(t, i, Consumed + (n + 8))
    <3>1. \A j \in i .. Consumed + (n + 8) : t[j] \in Byte
      <4>1. \A j \in 1 .. Len(t) : t[j] \in Byte
            BY <2>1, ElementOfSeq
      <4> QED BY <1>3, <1>4, <1>6, <2>1, <4>1
    <3>2. /\ m \in Seq(Byte)
          /\ Len(m) = IF i <= Consumed + (n + 8) THEN (Consumed + (n + 8)) - i + 1 ELSE 0
          /\ \A j \in 1 .. (Consumed + (n + 8)) - i + 1 : m[j] = t[i + j - 1]
          BY <1>3, <1>4, <3>1, SubSeqProperties, SMTT(60)
    <3>3. Len(m) = n + 8 /\ (Consumed + (n + 8)) - i + 1 = n + 8
          BY <1>3, <1>4, <3>2, SMTT(60)
    <3> HIDE DEF m
    <3>4. ASSUME NEW j \in 1 .. n + 8 PROVE m[j] = b[j]
      <4>1. i + j - 1 = Consumed + j
            BY <1>3
      <4>2. m[j] = t[i + j - 1]
            BY <3>2, <3>3
      <4> HIDE DEF i
      <4> QED BY <2>3, <4>1, <4>2
    <3>5. m = b
          BY <1>6, <3>2, <3>3, <3>4, SeqEqual
    <3> QED BY <3>5 DEF m
  <2>10. r \in Seq(Seq(Byte))
    <3>1. (Consumed + (n + 8)) + 1 \in 1 .. Len(t) + 1
          BY <1>3, <1>4, <1>6, <2>1, SMTT(60)
    <3> QED BY <2>1, <3>1, MessagesFromType
  <2> HIDE DEF r, i
  <2>11. messages \o (<<b>> \o r) = (messages \o <<b>>) \o r
    <3>1. <<b>> \in Seq(Seq(Byte))
          BY <1>6
    <3> QED BY <1>10, <2>10, <3>1, ConcatAssociative, SMTT(60)
  <2> QED BY <1>10, <2>2, <2>8, <2>9, <2>11, Zenon DEF t, r
<1>12. LineTypeOK'
  <2>1. heard \in Seq(Byte) /\ <<>> \in Seq(Byte) /\ Len(<<>>) = 0
        BY EmptySeq DEF LineInv, LineTypeOK
  <2> QED BY <1>1, <1>6, <1>10, <2>1 DEF LineTypeOK
<1>13. Consumed' \in Nat
      BY <1>3, <1>4, <1>7
<1> QED BY <1>8, <1>9, <1>11, <1>12, <1>13, Zenon DEF LineInv

-----------------------------------------------------------------------------
(* A reader that waits has handed on all that the scan finds. *)
LEMMA IdleComplete == LineInv => ResyncComplete
<1> SUFFICES ASSUME LineInv, Idle PROVE messages = MessagesOf(heard)
    BY DEF ResyncComplete
<1> DEFINE i == Consumed + 1
<1>1. /\ Len(heard) \in Nat /\ Len(incoming) \in Nat /\ Len(dataBuf) \in Nat
      /\ Consumed \in Nat /\ Len(heard) = Consumed + Len(dataBuf) + Len(incoming)
      /\ Wanted \in Nat /\ Len(incoming) < Wanted
      /\ reading \in {"header", "resync"} => Wanted = 6 - Len(dataBuf)
      BY Lengths, Zenon DEF LineInv, Idle
<1>2. heard \in Seq(Byte) /\ messages \in Seq(Seq(Byte)) /\ dataBuf \in Seq(Byte)
      BY DEF LineInv, LineTypeOK
<1>3. MessagesOf(heard) = messages \o MessagesFrom(heard)[i]
  <2>1. <<>> \in Seq(Byte) /\ heard \o <<>> = heard
        BY <1>2, EmptySeq, ConcatEmptySeq
  <2> QED BY <2>1 DEF LineInv, Scanned
<1>4. MessagesFrom(heard)[i] = <<>>
  <2>1. CASE reading \in {"header", "resync"}
    <3>1. i \in 1 .. Len(heard) + 1 /\ i + 5 > Len(heard)
          BY <1>1, <2>1
    <3> QED BY <1>2, <3>1, NoHeaderHere
  <2>2. CASE reading = "body"
    <3>1. Len(dataBuf) = 6 /\ PreambleAt(dataBuf, 1)
          BY <2>2 DEF LineInv, LineTypeOK
    <3>2. i \in 1 .. Len(heard) /\ i + 5 <= Len(heard)
          BY <1>1, <3>1
    <3>3. ASSUME NEW j \in 1 .. 6 PROVE heard[Consumed + j] = dataBuf[j]
      <4>1. j \in 1 .. Len(dataBuf)
            BY <3>1
      <4> QED BY <4>1 DEF LineInv, LiesAt
    <3>4. heard[Consumed + 1] = dataBuf[1] /\ heard[Consumed + 2] = dataBuf[2]
          /\ heard[Consumed + 5] = dataBuf[5] /\ heard[Consumed + 6] = dataBuf[6]
          BY <3>3
    <3>5. i = Consumed + 1 /\ i + 1 = Consumed + 2 /\ i + 4 = Consumed + 5 /\ i + 5 = Consumed + 6
          BY <1>1
    <3>6. dataBuf[1] = UBX_SYNC_1 /\ dataBuf[2] = UBX_SYNC_2
          BY <3>1 DEF PreambleAt
    <3> HIDE DEF i
    <3>7. PreambleAt(heard, i)
          BY <3>4, <3>5, <3>6 DEF PreambleAt
    <3>8. LengthAt(heard, i) = PayloadLength(dataBuf)
          BY <3>4, <3>5 DEF LengthAt, PayloadLength
    <3>9. LengthAt(heard, i) \in Nat
          BY <1>2, <3>2, MessageExtent
    <3>10. Wanted = PayloadLength(dataBuf) + 2
          BY <2>2 DEF Wanted
    <3>11. i + 7 + LengthAt(heard, i) > Len(heard)
          BY <1>1, <3>1, <3>5, <3>8, <3>9, <3>10
    <3> QED BY <1>2, <3>2, <3>7, <3>11, MessageHere
  <2>3. reading = "header" \/ reading = "resync" \/ reading = "body"
        BY DEF LineInv, LineTypeOK
  <2> QED BY <2>1, <2>2, <2>3, Zenon
<1>5. messages \o <<>> = messages
      BY <1>2, ConcatEmptySeq
<1> QED BY <1>3, <1>4, <1>5

LEMMA LineStep == LineInv /\ [LineNext]_readVars => LineInv'
<1> SUFFICES ASSUME LineInv, [LineNext]_readVars PROVE LineInv'
    OBVIOUS
<1>1. CASE ReadHeader
  <2>1. dataBuf = <<>> /\ dataBuf \o Got = Got
    <3>1. Len(dataBuf) = 0 /\ dataBuf \in Seq(Byte)
          BY <1>1 DEF LineInv, LineTypeOK, ReadHeader
    <3>2. dataBuf = <<>>
          BY <3>1, EmptySeq
    <3>3. Got \in Seq(Byte)
      <4>1. Reads /\ incoming \in Seq(Byte)
            BY <1>1 DEF ReadHeader, LineInv, LineTypeOK
      <4>2. /\ Len(incoming) \in Nat /\ Wanted \in Nat /\ Wanted <= Len(incoming)
            BY <4>1, Lengths, Zenon DEF Reads
      <4>3. \A j \in 1 .. Wanted : incoming[j] \in Byte
        <5>1. \A j \in 1 .. Len(incoming) : incoming[j] \in Byte
              BY <4>1, ElementOfSeq
        <5> QED BY <4>2, <5>1
      <4> QED BY <4>2, <4>3, SubSeqProperties DEF Got
    <3> QED BY <3>2, <3>3, ConcatEmptySeq
  <2> QED BY <1>1, <2>1, SearchStep DEF ReadHeader
<1>2. CASE ReadResync
      BY <1>2, SearchStep DEF ReadResync
<1>3. CASE ReadBody
      BY <1>3, BodyStep
<1>4. CASE \E bytes \in Seq(Byte) : Arrives(bytes)
      BY <1>4, ArriveStep
<1>5. CASE UNCHANGED readVars
      BY <1>5 DEF readVars, LineInv, LineTypeOK, Consumed, LiesAt, Scanned, PreambleAt
<1> QED BY <1>1, <1>2, <1>3, <1>4, <1>5 DEF LineNext, ReadStep

LEMMA LineInductive == LineSpec => []LineInv
BY ScannedAtFirst, LineStep, PTL DEF LineSpec

(* Whatever bytes come, in whatever portions: as often as the reader waits *)
(* in read_exact, the callbacks have had exactly the messages that one     *)
(* scan of all bytes finds, with preambles split over reads or hidden in   *)
(* garbage.                                                                *)
THEOREM ResyncCompleteHolds == LineSpec => []ResyncComplete
BY LineInductive, IdleComplete, PTL

-----------------------------------------------------------------------------
(*                           The message as bytes                          *)

-----------------------------------------------------------------------------
(* A number in the bytes it is written in *)
Digit(v, k) == (v \div 256 ^ k) % 256

LEMMA Powers == 256 ^ 0 = 1 /\ 256 ^ 1 = 256 /\ 256 ^ 2 = 65536 /\ 256 ^ 3 = 16777216
BY SMT

(* Each digit of a number in base 256 is a byte. *)
LEMMA DigitType ==
  ASSUME NEW v \in Int, NEW k \in 0 .. 3
  PROVE  Digit(v, k) \in Byte
<1>1. \A w \in Int : w % 256 \in Byte
      BY SMT DEF Byte
<1>2. v \div 1 \in Int /\ v \div 256 \in Int /\ v \div 65536 \in Int /\ v \div 16777216 \in Int
      BY SMT
<1>3. v \div 256 ^ k \in Int
  <2>1. CASE k = 0
        BY <1>2, <2>1, Powers
  <2>2. CASE k = 1
        BY <1>2, <2>2, Powers
  <2>3. CASE k = 2
        BY <1>2, <2>3, Powers
  <2>4. CASE k = 3
        BY <1>2, <2>4, Powers
  <2> QED BY <2>1, <2>2, <2>3, <2>4
<1> QED BY <1>1, <1>3 DEF Digit

LEMMA WrittenDigits ==
  ASSUME NEW v \in Int
  PROVE  /\ LittleEndian(v, 1) = <<Digit(v, 0)>>
         /\ LittleEndian(v, 2) = <<Digit(v, 0), Digit(v, 1)>>
         /\ LittleEndian(v, 4) = <<Digit(v, 0), Digit(v, 1), Digit(v, 2), Digit(v, 3)>>
<1>1. \A n \in Nat : LittleEndian(v, n) = [i \in 1 .. n |-> Digit(v, i - 1)]
      BY DEF LittleEndian, Digit
<1>2. /\ LittleEndian(v, 1) = [i \in 1 .. 1 |-> Digit(v, i - 1)]
      /\ LittleEndian(v, 2) = [i \in 1 .. 2 |-> Digit(v, i - 1)]
      /\ LittleEndian(v, 4) = [i \in 1 .. 4 |-> Digit(v, i - 1)]
      BY <1>1
<1>3. 1 - 1 = 0 /\ 2 - 1 = 1 /\ 3 - 1 = 2 /\ 4 - 1 = 3
      OBVIOUS
<1> QED BY <1>2, <1>3

LEMMA ShortSequences ==
  ASSUME NEW S, NEW a \in S, NEW b \in S, NEW c \in S, NEW d \in S
  PROVE  /\ <<a>> \in Seq(S) /\ <<a, b>> \in Seq(S) /\ <<a, b, c, d>> \in Seq(S)
         /\ Len(<<a>>) = 1 /\ Len(<<a, b>>) = 2 /\ Len(<<a, b, c, d>>) = 4
OBVIOUS

LEMMA WrittenBytes ==
  ASSUME NEW v \in Int, NEW n \in {1, 2, 4}
  PROVE  LittleEndian(v, n) \in Seq(Byte) /\ Len(LittleEndian(v, n)) = n
<1>1. Digit(v, 0) \in Byte /\ Digit(v, 1) \in Byte /\ Digit(v, 2) \in Byte /\ Digit(v, 3) \in Byte
      BY DigitType
<1> DEFINE a == Digit(v, 0)  b == Digit(v, 1)  c == Digit(v, 2)  d == Digit(v, 3)
<1>2. LittleEndian(v, 1) = <<a>> /\ LittleEndian(v, 2) = <<a, b>> /\ LittleEndian(v, 4) = <<a, b, c, d>>
      BY WrittenDigits
<1> HIDE DEF a, b, c, d
<1>3. /\ <<a>> \in Seq(Byte) /\ <<a, b>> \in Seq(Byte) /\ <<a, b, c, d>> \in Seq(Byte)
      /\ Len(<<a>>) = 1 /\ Len(<<a, b>>) = 2 /\ Len(<<a, b, c, d>>) = 4
  <2>1. a \in Byte /\ b \in Byte /\ c \in Byte /\ d \in Byte
        BY <1>1 DEF a, b, c, d
  <2> QED BY <2>1, ShortSequences
<1> QED BY <1>2, <1>3, Zenon

(* A number of four bytes is read as what was written. *)
LEMMA NumberWritten ==
  ASSUME NEW v \in Nat, v \div 256 ^ 3 < 256, NEW b,
         \A j \in 1 .. 4 : b[j] = LittleEndian(v, 4)[j]
  PROVE  Number(b) = v
<1>1. b[1] = Digit(v, 0) /\ b[2] = Digit(v, 1) /\ b[3] = Digit(v, 2) /\ b[4] = Digit(v, 3)
  <2>1. v \in Int /\ 1 \in 1 .. 4 /\ 2 \in 1 .. 4 /\ 3 \in 1 .. 4 /\ 4 \in 1 .. 4
        OBVIOUS
  <2> QED BY <2>1, WrittenDigits
<1>2. v \div 1 = v /\ v \div 16777216 < 256
      BY Powers
<1>3. /\ Digit(v, 0) = v % 256 /\ Digit(v, 1) = (v \div 256) % 256
      /\ Digit(v, 2) = (v \div 65536) % 256 /\ Digit(v, 3) = (v \div 16777216) % 256
      BY <1>2, Powers DEF Digit
<1>4. v = (v % 256) + 256 * ((v \div 256) % 256) + 65536 * ((v \div 65536) % 256)
            + 16777216 * ((v \div 16777216) % 256)
      BY <1>2, SMT
<1>5. Number(b) = Digit(v, 0) + 256 * Digit(v, 1) + 65536 * Digit(v, 2) + 16777216 * Digit(v, 3)
      BY <1>1, Powers DEF Number
<1> DEFINE p == v % 256  q == (v \div 256) % 256
           r == (v \div 65536) % 256  t == (v \div 16777216) % 256
<1>6. Digit(v, 0) = p /\ Digit(v, 1) = q /\ Digit(v, 2) = r /\ Digit(v, 3) = t
      BY <1>3
<1>7. v = p + 256 * q + 65536 * r + 16777216 * t
      BY <1>4
<1> HIDE DEF p, q, r, t
<1> QED BY <1>5, <1>6, <1>7

LEMMA NumberType ==
  ASSUME NEW b, \A j \in 1 .. 4 : b[j] \in Byte
  PROVE  Number(b) \in Nat
<1>1. b[1] \in Nat /\ b[2] \in Nat /\ b[3] \in Nat /\ b[4] \in Nat
      BY DEF Byte
<1> QED BY <1>1, Powers DEF Number

(* The bytes of a value *)
LEMMA ByteCounts ==
  ASSUME NEW key \in Nat
  PROVE  LET size == (key \div 2 ^ 28) % 8
         IN  /\ size \in 0 .. 7
             /\ size \in 0 .. 2 => GetValueByteCount(key) = 1
             /\ size = 3 => GetValueByteCount(key) = 2
             /\ size = 4 => GetValueByteCount(key) = 4
             /\ size = 5 => GetValueByteCount(key) = 8
             /\ GetValueByteCount(key) \in Nat \ {0}
<1> DEFINE size == (key \div 2 ^ 28) % 8
<1>1. size \in 0 .. 7
  <2>1. 2 ^ 28 = 268435456
        BY SMT
  <2>2. (key \div 268435456) % 8 \in 0 .. 7
        BY SMT
  <2> QED BY <2>1, <2>2
<1>2. GetValueByteCount(key) = IF size > 2 THEN 2 ^ (size - 2) ELSE 1
      BY DEF GetValueByteCount
<1> HIDE DEF size
<1>3. 2 ^ 1 = 2 /\ 2 ^ 2 = 4 /\ 2 ^ 3 = 8 /\ 2 ^ 4 = 16 /\ 2 ^ 5 = 32
      BY SMT
<1>4. size \in 0 .. 2 => GetValueByteCount(key) = 1
      BY <1>2
<1>5. size = 3 => GetValueByteCount(key) = 2
      BY <1>2, <1>3
<1>6. size = 4 => GetValueByteCount(key) = 4
      BY <1>2, <1>3
<1>7. size = 5 => GetValueByteCount(key) = 8
      BY <1>2, <1>3
<1>8. size = 6 => GetValueByteCount(key) = 16
      BY <1>2, <1>3
<1>9. size = 7 => GetValueByteCount(key) = 32
      BY <1>2, <1>3
<1>10. GetValueByteCount(key) \in Nat \ {0}
       BY <1>1, <1>4, <1>5, <1>6, <1>7, <1>8, <1>9
<1> QED BY <1>1, <1>4, <1>5, <1>6, <1>7, <1>10 DEF size

(* The receiver and the driver mean the same bytes of a value. *)
LEMMA WidthsAgree ==
  ASSUME NEW key \in DOMAIN KeyWidth
  PROVE  key \in Nat /\ KeyWidth[key] = GetValueByteCount(key)
<1> DEFINE size == (key \div 2 ^ 28) % 8
<1>1. key \in Nat /\ size \in 1 .. 5 /\ KeyWidth[key] = <<1, 1, 2, 4, 8>>[size]
      BY KeyWidthAssumption
<1>2. /\ size \in 0 .. 2 => GetValueByteCount(key) = 1
      /\ size = 3 => GetValueByteCount(key) = 2
      /\ size = 4 => GetValueByteCount(key) = 4
      /\ size = 5 => GetValueByteCount(key) = 8
      BY <1>1, ByteCounts
<1> HIDE DEF size
<1> QED BY <1>1, <1>2

-----------------------------------------------------------------------------
(* What FlattenSeq computes, one member of the sequence after the other *)
FlattenStep(seqs, g, i) == IF i = 1 THEN seqs[i] ELSE g[i - 1] \o seqs[i]

LEMMA FlattenExists ==
  ASSUME NEW seqs, NEW n \in Nat \ {0}
  PROVE  \E g : g = [i \in 1 .. n |-> FlattenStep(seqs, g, i)]
<1> DEFINE T == {k \in Nat : \E g : g = [i \in 1 .. k + 1 |-> FlattenStep(seqs, g, i)]}
<1>1. 0 \in T
  <2> DEFINE g == [i \in 1 .. 0 + 1 |-> seqs[1]]
  <2>1. g = [i \in 1 .. 0 + 1 |-> FlattenStep(seqs, g, i)]
        BY DEF FlattenStep
  <2> HIDE DEF g
  <2> QED BY <2>1
<1>2. ASSUME NEW k \in T PROVE k + 1 \in T
  <2>0. k \in Nat
        OBVIOUS
  <2>1. PICK g : g = [i \in 1 .. k + 1 |-> FlattenStep(seqs, g, i)]
        OBVIOUS
  <2> HIDE DEF T
  <2> DEFINE h == [i \in 1 .. (k + 1) + 1 |-> IF i = k + 2 THEN g[k + 1] \o seqs[i] ELSE g[i]]
  <2>2. \A i \in 1 .. k + 1 : g[i] = FlattenStep(seqs, g, i) /\ h[i] = g[i]
    <3>1. \A i \in 1 .. k + 1 : g[i] = FlattenStep(seqs, g, i)
          BY <2>1
    <3>2. \A i \in 1 .. k + 1 : h[i] = g[i]
          BY <2>0
    <3> QED BY <3>1, <3>2
  <2>3. h[k + 2] = g[k + 1] \o seqs[k + 2]
    <3>1. k + 2 \in 1 .. (k + 1) + 1
          BY <2>0
    <3> QED BY <3>1, Zenon
  <2> HIDE DEF h
  <2>4. \A i \in 1 .. (k + 1) + 1 : h[i] = FlattenStep(seqs, h, i)
    <3> SUFFICES ASSUME NEW i \in 1 .. (k + 1) + 1 PROVE h[i] = FlattenStep(seqs, h, i)
        OBVIOUS
    <3>1. CASE i = k + 2
      <4>1. i # 1 /\ i - 1 = k + 1 /\ k + 1 \in 1 .. k + 1
            BY <2>0, <3>1
      <4> QED BY <2>2, <2>3, <3>1, <4>1 DEF FlattenStep
    <3>2. CASE i # k + 2 /\ i # 1
      <4>1. i \in 1 .. k + 1 /\ i - 1 \in 1 .. k + 1
            BY <2>0, <3>2
      <4> QED BY <2>2, <3>2, <4>1 DEF FlattenStep
    <3>3. CASE i = 1
      <4>1. i \in 1 .. k + 1
            BY <2>0, <3>3
      <4> QED BY <2>2, <3>3, <4>1 DEF FlattenStep
    <3> QED BY <3>1, <3>2, <3>3
  <2>5. h = [i \in 1 .. (k + 1) + 1 |-> FlattenStep(seqs, h, i)]
        BY <2>4 DEF h
  <2> QED BY <2>0, <2>5 DEF T
<1>3. T = Nat
  <2> HIDE DEF T
  <2>1. T \in SUBSET Nat
        BY DEF T
  <2> QED BY <1>1, <1>2, <2>1, InductiveSet
<1>4. n - 1 \in Nat /\ (n - 1) + 1 = n
      OBVIOUS
<1>5. \E g : g = [i \in 1 .. (n - 1) + 1 |-> FlattenStep(seqs, g, i)]
      BY <1>3, <1>4
<1> QED BY <1>4, <1>5

Flattened(seqs) == CHOOSE g : g = [i \in 1 .. Len(seqs) |-> FlattenStep(seqs, g, i)]

(* The concatenation of all members, by the one before *)
LEMMA FlattenedIs ==
  ASSUME NEW S, NEW seqs \in Seq(Seq(S)), Len(seqs) # 0
  PROVE  /\ FlattenSeq(seqs) = Flattened(seqs)[Len(seqs)]
         /\ \A i \in 1 .. Len(seqs) : Flattened(seqs)[i] = FlattenStep(seqs, Flattened(seqs), i)
<1>1. Len(seqs) \in Nat \ {0}
      BY LenProperties
<1>2. \E g : g = [i \in 1 .. Len(seqs) |-> FlattenStep(seqs, g, i)]
      BY <1>1, FlattenExists
<1>3. Flattened(seqs) = [i \in 1 .. Len(seqs) |-> FlattenStep(seqs, Flattened(seqs), i)]
      BY <1>2, Zenon DEF Flattened
<1>4. FlattenSeq(seqs) = Flattened(seqs)[Len(seqs)]
      BY Zenon DEF FlattenSeq, Flattened, FlattenStep
<1> QED BY <1>3, <1>4

LEMMA FlattenEmpty == FlattenSeq(<<>>) = <<>>
BY DEF FlattenSeq

(* What is there of one member more is as it was without it. *)
LEMMA FlattenAppend ==
  ASSUME NEW S, NEW seqs \in Seq(Seq(S)), NEW x \in Seq(S)
  PROVE  FlattenSeq(Append(seqs, x)) = FlattenSeq(seqs) \o x
<1> DEFINE more == Append(seqs, x)
           n == Len(seqs)
<1>1. /\ n \in Nat /\ more \in Seq(Seq(S)) /\ Len(more) = n + 1 /\ more[n + 1] = x
      /\ \A i \in 1 .. n : more[i] = seqs[i]
      BY LenProperties, AppendProperties
<1> HIDE DEF more
<1> DEFINE F == Flattened(seqs)
           G == Flattened(more)
<1>2. FlattenSeq(more) = G[n + 1] /\ \A i \in 1 .. n + 1 : G[i] = FlattenStep(more, G, i)
      BY <1>1, FlattenedIs
<1>3. CASE n = 0
  <2>1. FlattenSeq(more) = x
        BY <1>1, <1>2, <1>3 DEF FlattenStep
  <2>2. FlattenSeq(seqs) = <<>>
        BY <1>3, FlattenEmpty, EmptySeq
  <2>3. <<>> \o x = x
        BY ConcatEmptySeq
  <2> QED BY <2>1, <2>2, <2>3 DEF more
<1>4. CASE n # 0
  <2>1. FlattenSeq(seqs) = F[n] /\ \A i \in 1 .. n : F[i] = FlattenStep(seqs, F, i)
        BY <1>4, FlattenedIs
  <2> HIDE DEF F, G
  <2> DEFINE T == {k \in Nat : k + 1 <= n => G[k + 1] = F[k + 1]}
  <2>2. 0 \in T
    <3>1. G[1] = FlattenStep(more, G, 1) /\ F[1] = FlattenStep(seqs, F, 1) /\ more[1] = seqs[1]
          BY <1>1, <1>2, <1>4, <2>1
    <3> QED BY <3>1 DEF FlattenStep
  <2>3. ASSUME NEW k \in T PROVE k + 1 \in T
    <3> SUFFICES ASSUME (k + 1) + 1 <= n PROVE G[(k + 1) + 1] = F[(k + 1) + 1]
        OBVIOUS
    <3> DEFINE i == (k + 1) + 1
    <3>1. i \in 1 .. n /\ i \in 1 .. n + 1 /\ i # 1 /\ i - 1 = k + 1
          BY <1>1
    <3>2. G[i - 1] = F[i - 1]
          BY <1>1, <3>1
    <3> HIDE DEF i
    <3>3. G[i] = FlattenStep(more, G, i) /\ F[i] = FlattenStep(seqs, F, i) /\ more[i] = seqs[i]
          BY <1>1, <1>2, <2>1, <3>1
    <3>4. G[i] = F[i]
          BY <3>1, <3>2, <3>3 DEF FlattenStep
    <3> QED BY <3>4 DEF i
  <2>4. T = Nat
    <3> HIDE DEF T
    <3>1. T \in SUBSET Nat
          BY DEF T
    <3> QED BY <2>2, <2>3, <3>1, InductiveSet
  <2>5. n - 1 \in Nat /\ (n - 1) + 1 = n /\ (n - 1) + 1 <= n
        BY <1>1, <1>4
  <2>6. G[n] = F[n]
    <3>1. (n - 1) + 1 <= n => G[(n - 1) + 1] = F[(n - 1) + 1]
          BY <2>4, <2>5
    <3> QED BY <2>5, <3>1
  <2>7. G[n + 1] = FlattenStep(more, G, n + 1) /\ n + 1 # 1 /\ (n + 1) - 1 = n
    <3>1. n + 1 \in 1 .. n + 1 /\ n + 1 # 1 /\ (n + 1) - 1 = n
          BY <1>1, <1>4
    <3> QED BY <1>2, <3>1
  <2>8. G[n + 1] = F[n] \o x
        BY <1>1, <2>6, <2>7 DEF FlattenStep
  <2> QED BY <1>2, <2>1, <2>8 DEF more
<1> QED BY <1>3, <1>4

LEMMA LastAppended ==
  ASSUME NEW S, NEW s \in Seq(S), NEW n \in Nat, Len(s) = n + 1
  PROVE  /\ SubSeq(s, 1, n) \in Seq(S) /\ Len(SubSeq(s, 1, n)) = n /\ s[n + 1] \in S
         /\ s = Append(SubSeq(s, 1, n), s[n + 1])
         /\ \A i \in 1 .. n : SubSeq(s, 1, n)[i] = s[i]
<1>1. \A i \in 1 .. n + 1 : s[i] \in S
      BY ElementOfSeq
<1> DEFINE r == SubSeq(s, 1, n)
<1>2. r \in Seq(S) /\ Len(r) = n /\ \A i \in 1 .. n : r[i] = s[i]
  <2>1. \A i \in 1 .. n : s[i] \in S
        BY <1>1
  <2>2. /\ r \in Seq(S) /\ Len(r) = IF 1 <= n THEN n - 1 + 1 ELSE 0
        /\ \A i \in 1 .. n - 1 + 1 : r[i] = s[1 + i - 1]
        BY <2>1, SubSeqProperties
  <2> HIDE DEF r
  <2> QED BY <2>2
<1> HIDE DEF r
<1>3. /\ Append(r, s[n + 1]) \in Seq(S) /\ Len(Append(r, s[n + 1])) = n + 1
      /\ \A i \in 1 .. n : Append(r, s[n + 1])[i] = r[i]
      /\ Append(r, s[n + 1])[n + 1] = s[n + 1]
  <2>1. s[n + 1] \in S
        BY <1>1
  <2> QED BY <1>2, <2>1, AppendProperties
<1>4. \A i \in 1 .. n + 1 : Append(r, s[n + 1])[i] = s[i]
      BY <1>2, <1>3
<1>5. s = Append(r, s[n + 1])
      BY <1>3, <1>4, SeqEqual
<1> QED BY <1>1, <1>2, <1>5 DEF r

(* Where the members lie: each at a place of its own, one behind the other *)
Layout(seqs, whole, at) ==
  /\ at[0] = 0 /\ at[Len(seqs)] = Len(whole)
  /\ \A i \in 0 .. Len(seqs) : at[i] \in Nat
  /\ \A i \in 1 .. Len(seqs) :
       /\ at[i] = at[i - 1] + Len(seqs[i])
       /\ at[i] <= Len(whole)
       /\ \A j \in 1 .. Len(seqs[i]) : whole[at[i - 1] + j] = seqs[i][j]

(* Where each member of the sequence begins in the concatenation, and that *)
(* it lies there                                                           *)
LEMMA FlattenLayout ==
  ASSUME NEW S, NEW seqs \in Seq(Seq(S))
  PROVE  FlattenSeq(seqs) \in Seq(S) /\ \E at : Layout(seqs, FlattenSeq(seqs), at)
<1> DEFINE T == {n \in Nat : \A s \in Seq(Seq(S)) :
                   Len(s) = n => FlattenSeq(s) \in Seq(S) /\ \E at : Layout(s, FlattenSeq(s), at)}
<1>1. 0 \in T
  <2> SUFFICES ASSUME NEW s \in Seq(Seq(S)), Len(s) = 0
               PROVE  FlattenSeq(s) \in Seq(S) /\ \E at : Layout(s, FlattenSeq(s), at)
      OBVIOUS
  <2>1. s = <<>> /\ FlattenSeq(s) = <<>> /\ <<>> \in Seq(S) /\ Len(<<>>) = 0
        BY FlattenEmpty, EmptySeq
  <2> DEFINE at == [i \in 0 .. 0 |-> 0]
  <2>2. Layout(s, <<>>, at)
        BY <2>1 DEF Layout
  <2> HIDE DEF at
  <2> QED BY <2>1, <2>2
<1>2. ASSUME NEW n \in T PROVE n + 1 \in T
  <2> SUFFICES ASSUME NEW s \in Seq(Seq(S)), Len(s) = n + 1
               PROVE  FlattenSeq(s) \in Seq(S) /\ \E at : Layout(s, FlattenSeq(s), at)
      OBVIOUS
  <2>0. n \in Nat
        OBVIOUS
  <2> DEFINE r == SubSeq(s, 1, n)
             x == s[n + 1]
             w == FlattenSeq(r)
  <2>1. /\ r \in Seq(Seq(S)) /\ Len(r) = n /\ x \in Seq(S) /\ s = Append(r, x)
        /\ \A i \in 1 .. n : r[i] = s[i]
        BY <2>0, LastAppended
  <2>2. w \in Seq(S) /\ \E at : Layout(r, w, at)
        BY <2>1
  <2>3. FlattenSeq(s) = w \o x
        BY <2>1, FlattenAppend
  <2> HIDE DEF r, w, x, T
  <2>4. PICK at : Layout(r, w, at)
        BY <2>2
  <2>5. /\ w \o x \in Seq(S) /\ Len(w \o x) = Len(w) + Len(x) /\ Len(w) \in Nat /\ Len(x) \in Nat
        /\ \A i \in 1 .. Len(w) + Len(x) : (w \o x)[i] = IF i <= Len(w) THEN w[i] ELSE x[i - Len(w)]
        BY <2>1, <2>2, ConcatProperties, LenProperties
  <2> DEFINE to == [i \in 0 .. n + 1 |-> IF i = n + 1 THEN Len(w) + Len(x) ELSE at[i]]
             v == w \o x
  <2>6. to[n + 1] = Len(w) + Len(x) /\ \A i \in 0 .. n : to[i] = at[i]
        BY <2>0
  <2> HIDE DEF to, v
  <2>7. /\ at[0] = 0 /\ at[n] = Len(w)
        /\ \A i \in 0 .. n : at[i] \in Nat
        /\ \A i \in 1 .. n : at[i] = at[i - 1] + Len(r[i]) /\ at[i] <= Len(w)
        /\ \A i \in 1 .. n : \A j \in 1 .. Len(r[i]) : w[at[i - 1] + j] = r[i][j]
        BY <2>1, <2>4 DEF Layout
  <2>8. \A i \in 1 .. n : to[i - 1] = at[i - 1] /\ to[i] = at[i]
        BY <2>0, <2>6
  <2>9. to[0] = 0 /\ to[n + 1] = Len(v) /\ \A i \in 0 .. n + 1 : to[i] \in Nat
    <3>1. \A i \in 0 .. n + 1 : i \in 0 .. n \/ i = n + 1
          BY <2>0
    <3>2. 0 \in 0 .. n
          BY <2>0
    <3>3. to[0] = 0
          BY <2>6, <2>7, <3>2
    <3>4. to[n + 1] = Len(v) /\ to[n + 1] \in Nat
          BY <2>5, <2>6 DEF v
    <3>5. \A i \in 0 .. n : to[i] \in Nat
          BY <2>6, <2>7
    <3> QED BY <3>1, <3>3, <3>4, <3>5
  <2>10. ASSUME NEW i \in 1 .. n + 1
         PROVE  /\ to[i] = to[i - 1] + Len(s[i]) /\ to[i] <= Len(v)
                /\ \A j \in 1 .. Len(s[i]) : v[to[i - 1] + j] = s[i][j]
    <3>1. CASE i = n + 1
      <4>1. s[i] = x /\ i - 1 = n /\ n \in 0 .. n
            BY <2>0, <3>1 DEF x
      <4>2. to[i - 1] = Len(w) /\ to[i] = Len(w) + Len(x)
            BY <2>6, <2>7, <3>1, <4>1
      <4>3. ASSUME NEW j \in 1 .. Len(x) PROVE v[Len(w) + j] = x[j]
            BY <2>5 DEF v
      <4> QED BY <2>5, <4>1, <4>2, <4>3 DEF v
    <3>2. CASE i # n + 1
      <4>1. i \in 1 .. n /\ i - 1 \in 0 .. n
            BY <2>0, <3>2
      <4>2. r[i] = s[i] /\ r[i] \in Seq(S) /\ Len(r[i]) \in Nat
        <5>1. r[i] = s[i]
              BY <2>1, <4>1
        <5>2. r[i] \in Seq(S)
              BY <2>1, <4>1, ElementOfSeq
        <5> QED BY <5>1, <5>2, LenProperties
      <4>3. /\ to[i] = to[i - 1] + Len(s[i]) /\ to[i] <= Len(w)
            /\ to[i - 1] \in Nat
            BY <2>7, <2>8, <4>1, <4>2
      <4>4. ASSUME NEW j \in 1 .. Len(s[i]) PROVE v[to[i - 1] + j] = s[i][j]
        <5>1. to[i - 1] + j \in 1 .. Len(w)
              BY <2>5, <4>2, <4>3, SMTT(60)
        <5>2. v[to[i - 1] + j] = w[to[i - 1] + j]
              BY <2>5, <5>1 DEF v
        <5>3. w[at[i - 1] + j] = r[i][j]
              BY <2>7, <4>1, <4>2
        <5> QED BY <2>8, <4>1, <4>2, <5>2, <5>3
      <4>5. to[i] <= Len(v)
            BY <2>5, <2>8, <2>7, <4>1, <4>3 DEF v
      <4> QED BY <4>3, <4>4, <4>5
    <3> QED BY <3>1, <3>2
  <2>11. Layout(s, v, to)
         BY <2>9, <2>10 DEF Layout
  <2> QED BY <2>3, <2>5, <2>11 DEF v
<1>3. T = Nat
  <2> HIDE DEF T
  <2>1. T \in SUBSET Nat
        BY DEF T
  <2> QED BY <1>1, <1>2, <2>1, InductiveSet
<1>4. Len(seqs) \in T
      BY <1>3, LenProperties
<1> QED BY <1>4

-----------------------------------------------------------------------------
(*          Walks over a message: the pairs of key and value in it         *)

-----------------------------------------------------------------------------
(* A reading of pairs: from an offset where it does not stop it takes what *)
(* is there and goes on at the next.  It has gone well if it stops at the  *)
(* end.                                                                    *)
WalkStep(f, n, stop, head, next, o) ==
  IF o \in stop THEN [ok |-> o = n, pairs |-> <<>>]
  ELSE [ok |-> f[next[o]].ok, pairs |-> <<head[o]>> \o f[next[o]].pairs]

GoesOn(n, stop, next) == \A o \in (0 .. n) \ stop : next[o] \in o + 1 .. n
IsWalk(f, n, stop, head, next) == f = [o \in 0 .. n |-> WalkStep(f, n, stop, head, next, o)]
Path(n, stop, next, k, at) ==
  /\ at[k] = n /\ n \in stop
  /\ \A i \in 0 .. k : at[i] \in 0 .. n
  /\ \A i \in 1 .. k : at[i - 1] \notin stop /\ next[at[i - 1]] = at[i]

(* A walk is defined from every offset, because it only goes forward. *)
LEMMA WalkExists ==
  ASSUME NEW n \in Nat, NEW stop, NEW head, NEW next, GoesOn(n, stop, next)
  PROVE  \E f : IsWalk(f, n, stop, head, next)
<1>0. \A o \in (0 .. n) \ stop : next[o] \in o + 1 .. n
      BY DEF GoesOn
<1> DEFINE T == {k \in Nat : k <= n =>
                   \E f : f = [o \in n - k .. n |-> WalkStep(f, n, stop, head, next, o)]}
<1>1. 0 \in T
  <2> DEFINE f == [o \in n - 0 .. n |-> [ok |-> o = n, pairs |-> <<>>]]
  <2>1. \A o \in n - 0 .. n : o = n /\ o \in stop
        BY <1>0
  <2>2. f = [o \in n - 0 .. n |-> WalkStep(f, n, stop, head, next, o)]
        BY <2>1 DEF WalkStep
  <2> HIDE DEF f
  <2> QED BY <2>2
<1>2. ASSUME NEW k \in T PROVE k + 1 \in T
  <2>0. k \in Nat
        OBVIOUS
  <2> SUFFICES ASSUME k + 1 <= n
               PROVE  \E f : f = [o \in n - (k + 1) .. n |-> WalkStep(f, n, stop, head, next, o)]
      OBVIOUS
  <2>1. PICK f : f = [o \in n - k .. n |-> WalkStep(f, n, stop, head, next, o)]
        OBVIOUS
  <2> HIDE DEF T
  <2> DEFINE m == n - (k + 1)
             h == [o \in m .. n |-> IF o = m THEN WalkStep(f, n, stop, head, next, m) ELSE f[o]]
  <2>2. m \in 0 .. n /\ m + 1 = n - k
        BY <2>0
  <2>3. \A o \in m + 1 .. n : f[o] = WalkStep(f, n, stop, head, next, o)
        BY <2>1, <2>2
  <2>4. \A o \in m + 1 .. n : h[o] = f[o]
        BY <2>2
  <2>5. h[m] = WalkStep(f, n, stop, head, next, m)
        BY <2>2
  <2> HIDE DEF h, m
  <2>6. ASSUME NEW o \in m .. n
        PROVE  WalkStep(f, n, stop, head, next, o) = WalkStep(h, n, stop, head, next, o)
    <3>1. CASE o \in stop
          BY <3>1 DEF WalkStep
    <3>2. CASE o \notin stop
      <4>1. o \in (0 .. n) \ stop /\ next[o] \in o + 1 .. n
            BY <1>0, <2>2, <3>2
      <4>2. next[o] \in m + 1 .. n
            BY <1>0, <2>2, <4>1
      <4>3. h[next[o]] = f[next[o]]
            BY <2>4, <4>2
      <4> QED BY <3>2, <4>3 DEF WalkStep
    <3> QED BY <3>1, <3>2
  <2>7. ASSUME NEW o \in m .. n PROVE h[o] = WalkStep(h, n, stop, head, next, o)
    <3>1. CASE o = m
          BY <2>5, <2>6, <3>1
    <3>2. CASE o # m
      <4>1. o \in m + 1 .. n
            BY <2>2, <3>2
      <4> QED BY <2>3, <2>4, <2>6, <4>1
    <3> QED BY <3>1, <3>2
  <2>8. h = [o \in m .. n |-> WalkStep(h, n, stop, head, next, o)]
        BY <2>7 DEF h
  <2> QED BY <2>8 DEF m
<1>3. T = Nat
  <2> HIDE DEF T
  <2>1. T \in SUBSET Nat
        BY DEF T
  <2> QED BY <1>1, <1>2, <2>1, InductiveSet
<1>4. n <= n => \E f : f = [o \in n - n .. n |-> WalkStep(f, n, stop, head, next, o)]
      BY <1>3
<1>5. n - n = 0
      OBVIOUS
<1>6. \E f : f = [o \in 0 .. n |-> WalkStep(f, n, stop, head, next, o)]
      BY <1>4, <1>5
<1> QED BY <1>6 DEF IsWalk

LEMMA Prepended ==
  ASSUME NEW S, NEW y \in Seq(S), Len(y) = 1, NEW u \in Seq(S), NEW j, Len(u) = j
  PROVE  /\ y \o u \in Seq(S) /\ Len(y \o u) = 1 + j
         /\ \A i \in 1 .. 1 + j : (y \o u)[i] = IF i <= 1 THEN y[i] ELSE u[i - 1]
BY ConcatProperties, SMTT(60)

(* Along a path that leads from stop to stop until the end it reads what   *)
(* lies on the path.                                                       *)
Along(head, at, k) == [i \in 1 .. k |-> head[at[i - 1]]]
ReadsAlong(f, head, at, k) == f[at[0]].ok = TRUE /\ f[at[0]].pairs = Along(head, at, k)

(* A walk along a path of offsets that ends where it stops at the end has  *)
(* gone well, and has taken what lies at each of them.                     *)
LEMMA WalkAlong ==
  ASSUME NEW n \in Nat, NEW stop, NEW head, NEW next, NEW f, NEW k \in Nat, NEW at,
         IsWalk(f, n, stop, head, next), Path(n, stop, next, k, at)
  PROVE  ReadsAlong(f, head, at, k)
<1> DEFINE S == {head[at[i - 1]] : i \in 1 .. k}
<1>0. /\ \A o \in 0 .. n : f[o] = WalkStep(f, n, stop, head, next, o)
      /\ \A i \in 0 .. k : at[i] \in 0 .. n
      /\ \A i \in 1 .. k : at[i - 1] \notin stop /\ next[at[i - 1]] = at[i] /\ head[at[i - 1]] \in S
      /\ at[k] = n /\ n \in stop
  <2>1. \A o \in 0 .. n : f[o] = WalkStep(f, n, stop, head, next, o)
        BY DEF IsWalk
  <2>2. /\ at[k] = n /\ n \in stop
        /\ \A i \in 0 .. k : at[i] \in 0 .. n
        /\ \A i \in 1 .. k : at[i - 1] \notin stop /\ next[at[i - 1]] = at[i]
        BY DEF Path
  <2> QED BY <2>1, <2>2
<1> HIDE DEF S
<1> DEFINE P(j) == [i \in 1 .. j |-> head[at[(k - j) + i - 1]]]
           Good(j) == f[at[k - j]].ok = TRUE /\ f[at[k - j]].pairs = P(j)
           T == {j \in Nat : j <= k => Good(j)}
<1>1. 0 \in T
  <2>1. f[at[k - 0]] = [ok |-> TRUE, pairs |-> <<>>]
    <3>1. k - 0 = k /\ n \in 0 .. n
          OBVIOUS
    <3>2. f[n] = [ok |-> n = n, pairs |-> <<>>]
          BY <1>0, <3>1 DEF WalkStep
    <3> QED BY <1>0, <3>1, <3>2
  <2>2. P(0) = <<>>
        OBVIOUS
  <2>3. Good(0)
        BY <2>1, <2>2
  <2> HIDE DEF Good
  <2> QED BY <2>3
<1>2. ASSUME NEW j \in T PROVE j + 1 \in T
  <2>0. j \in Nat
        OBVIOUS
  <2> SUFFICES ASSUME j + 1 <= k
               PROVE  Good(j + 1)
    <3> HIDE DEF Good
    <3> QED BY <2>0
  <2>1. f[at[k - j]].ok = TRUE /\ f[at[k - j]].pairs = P(j)
    <3>1. Good(j)
      <4> HIDE DEF Good
      <4> QED BY <2>0
    <3> QED BY <3>1
  <2> HIDE DEF T
  <2> DEFINE a == k - j
             x == head[at[a - 1]]
  <2>2. a \in 1 .. k /\ a - 1 \in 0 .. k /\ k - (j + 1) = a - 1
        BY <2>0
  <2>3. at[a - 1] \in 0 .. n /\ at[a - 1] \notin stop /\ next[at[a - 1]] = at[a] /\ x \in S
        BY <1>0, <2>2
  <2>4. f[at[a - 1]] = [ok |-> f[at[a]].ok, pairs |-> <<x>> \o f[at[a]].pairs]
    <3>1. f[at[a - 1]] = WalkStep(f, n, stop, head, next, at[a - 1])
          BY <1>0, <2>3
    <3> QED BY <2>3, <3>1, Zenon DEF WalkStep
  <2>5. f[at[a - 1]].ok = TRUE /\ f[at[a - 1]].pairs = <<x>> \o P(j)
    <3> HIDE DEF P, x
    <3> QED BY <2>1, <2>4
  <2>6. <<x>> \o P(j) = P(j + 1)
    <3>1. P(j) \in Seq(S) /\ Len(P(j)) = j
      <4>1. \A i \in 1 .. j : head[at[(k - j) + i - 1]] \in S
        <5> TAKE i \in 1 .. j
        <5>1. (k - j) + i \in 1 .. k /\ (k - j) + i - 1 = ((k - j) + i) - 1
              BY <2>0
        <5> QED BY <1>0, <5>1
      <4> QED BY <2>0, <4>1
    <3>2. P(j + 1) \in Seq(S) /\ Len(P(j + 1)) = j + 1
      <4>1. \A i \in 1 .. j + 1 : head[at[(k - (j + 1)) + i - 1]] \in S
        <5> TAKE i \in 1 .. j + 1
        <5>1. (k - (j + 1)) + i \in 1 .. k /\ (k - (j + 1)) + i - 1 = ((k - (j + 1)) + i) - 1
              BY <2>0
        <5> QED BY <1>0, <5>1
      <4> QED BY <2>0, <4>1
    <3>3. <<x>> \in Seq(S) /\ Len(<<x>>) = 1 /\ <<x>>[1] = x
          BY <2>3
    <3> DEFINE u == P(j)  v == P(j + 1)  y == <<x>>
    <3>4. /\ y \o u \in Seq(S) /\ Len(y \o u) = 1 + j
          /\ \A i \in 1 .. 1 + j : (y \o u)[i] = IF i <= 1 THEN y[i] ELSE u[i - 1]
      <4>1. y \in Seq(S) /\ u \in Seq(S) /\ Len(y) = 1 /\ Len(u) = j
            BY <3>1, <3>3
      <4> HIDE DEF y, u, T, Good, P
      <4> QED BY <4>1, Prepended
    <3>5. ASSUME NEW i \in 1 .. j + 1 PROVE (y \o u)[i] = v[i]
      <4>1. CASE i = 1
        <5>1. (k - (j + 1)) + 1 - 1 = a - 1
              BY <2>0
        <5>2. v[1] = head[at[(k - (j + 1)) + 1 - 1]]
              BY <2>0
        <5>3. v[1] = x
              BY <5>1, <5>2
        <5>4. y[1] = x
              BY <3>3
        <5>5. i \in 1 .. 1 + j /\ i <= 1
              BY <2>0, <4>1
        <5> HIDE DEF v, u, x, y
        <5>6. (y \o u)[i] = y[i]
              BY <3>4, <5>5
        <5> QED BY <4>1, <5>3, <5>4, <5>6
      <4>2. CASE i # 1
        <5>1. i - 1 \in 1 .. j /\ (k - (j + 1)) + i - 1 = (k - j) + (i - 1) - 1
              BY <2>0, <4>2
        <5>2. u[i - 1] = head[at[(k - j) + (i - 1) - 1]]
              BY <5>1
        <5>3. v[i] = head[at[(k - (j + 1)) + i - 1]]
              OBVIOUS
        <5>4. u[i - 1] = v[i]
              BY <5>1, <5>2, <5>3
        <5>5. i \in 1 .. 1 + j /\ ~(i <= 1)
              BY <2>0, <4>2
        <5> HIDE DEF v, u, x, y
        <5>6. (y \o u)[i] = u[i - 1]
              BY <3>4, <5>5
        <5> QED BY <5>4, <5>6
      <4> QED BY <4>1, <4>2
    <3>6. y \o u = v
      <4>1. v \in Seq(S) /\ Len(v) = j + 1 /\ 1 + j = j + 1
            BY <2>0, <3>2
      <4> HIDE DEF u, v, x, y
      <4>2. Len(y \o u) = Len(v) /\ \A i \in 1 .. Len(y \o u) : (y \o u)[i] = v[i]
            BY <3>4, <3>5, <4>1
      <4> QED BY <3>4, <4>1, <4>2, SeqEqual
    <3> QED BY <3>6
  <2> QED BY <2>2, <2>5, <2>6
<1>3. T = Nat
  <2> HIDE DEF T
  <2>1. T \in SUBSET Nat
        BY DEF T
  <2> QED BY <1>1, <1>2, <2>1, InductiveSet
<1>4. f[at[k - k]].ok = TRUE /\ f[at[k - k]].pairs = P(k)
  <2>1. Good(k)
    <3> HIDE DEF Good
    <3> QED BY <1>3
  <2> QED BY <2>1
<1>5. k - k = 0 /\ \A i \in 1 .. k : (k - k) + i - 1 = i - 1
      OBVIOUS
<1>6. P(k) = Along(head, at, k)
      BY <1>5 DEF Along
<1>7. f[at[0]].ok = TRUE /\ f[at[0]].pairs = Along(head, at, k)
      BY <1>4, <1>5, <1>6
<1> QED BY <1>7, Zenon DEF ReadsAlong

(* And if it reads to the end, it has not stopped on the path. *)
Route(n, stop, next, k, at) ==
  /\ \A i \in 0 .. k : at[i] \in 0 .. n
  /\ \A i \in 1 .. k : at[i - 1] # n /\ (at[i - 1] \notin stop => next[at[i - 1]] = at[i])

(* A walk that has gone well over a path has stopped at none of its        *)
(* offsets before the last.                                                *)
LEMMA WalkPassed ==
  ASSUME NEW n \in Nat, NEW stop, NEW head, NEW next, NEW f, NEW k \in Nat, NEW at,
         IsWalk(f, n, stop, head, next), Route(n, stop, next, k, at), f[at[0]].ok = TRUE
  PROVE  \A i \in 1 .. k : at[i - 1] \notin stop
<1>0. /\ \A o \in 0 .. n : f[o] = WalkStep(f, n, stop, head, next, o)
      /\ \A i \in 0 .. k : at[i] \in 0 .. n
      /\ \A i \in 1 .. k : at[i - 1] # n /\ (at[i - 1] \notin stop => next[at[i - 1]] = at[i])
  <2>1. \A o \in 0 .. n : f[o] = WalkStep(f, n, stop, head, next, o)
        BY DEF IsWalk
  <2>2. /\ \A i \in 0 .. k : at[i] \in 0 .. n
        /\ \A i \in 1 .. k : at[i - 1] # n /\ (at[i - 1] \notin stop => next[at[i - 1]] = at[i])
        BY DEF Route
  <2> QED BY <2>1, <2>2
<1>1. ASSUME NEW i \in 1 .. k, f[at[i - 1]].ok = TRUE
      PROVE  at[i - 1] \notin stop /\ f[at[i]].ok = TRUE
  <2>1. i - 1 \in 0 .. k
        OBVIOUS
  <2>2. at[i - 1] \in 0 .. n /\ at[i - 1] # n
        BY <1>0, <2>1
  <2>3. f[at[i - 1]] = WalkStep(f, n, stop, head, next, at[i - 1])
        BY <1>0, <2>2
  <2>4. at[i - 1] \notin stop
    <3> SUFFICES ASSUME at[i - 1] \in stop PROVE FALSE
        OBVIOUS
    <3>1. f[at[i - 1]] = [ok |-> at[i - 1] = n, pairs |-> <<>>]
          BY <2>3 DEF WalkStep
    <3>2. f[at[i - 1]].ok = (at[i - 1] = n)
          BY <3>1
    <3> QED BY <1>1, <2>2, <3>2
  <2>5. f[at[i - 1]].ok = f[next[at[i - 1]]].ok
        BY <2>3, <2>4 DEF WalkStep
  <2>6. next[at[i - 1]] = at[i]
        BY <1>0, <2>4
  <2> QED BY <1>1, <2>4, <2>5, <2>6
<1> DEFINE Good(j) == f[at[j]].ok = TRUE
           T == {j \in Nat : j <= k => Good(j)}
<1>2. 0 \in T
  <2>1. Good(0)
        OBVIOUS
  <2> HIDE DEF Good
  <2> QED BY <2>1
<1>3. ASSUME NEW j \in T PROVE j + 1 \in T
  <2>0. j \in Nat
        OBVIOUS
  <2> SUFFICES ASSUME j + 1 <= k PROVE Good(j + 1)
    <3> HIDE DEF Good
    <3> QED BY <2>0
  <2>1. f[at[j]].ok = TRUE /\ j + 1 \in 1 .. k /\ (j + 1) - 1 = j
    <3>1. Good(j)
      <4> HIDE DEF Good
      <4> QED BY <2>0
    <3> QED BY <2>0, <3>1
  <2> QED BY <1>1, <2>1
<1>4. T = Nat
  <2> HIDE DEF T
  <2>1. T \in SUBSET Nat
        BY DEF T
  <2> QED BY <1>2, <1>3, <2>1, InductiveSet
<1> SUFFICES ASSUME NEW i \in 1 .. k PROVE at[i - 1] \notin stop
    OBVIOUS
<1>5. i - 1 \in Nat /\ i - 1 <= k
      OBVIOUS
<1>6. f[at[i - 1]].ok = TRUE
  <2>1. Good(i - 1)
    <3> HIDE DEF Good
    <3> QED BY <1>4, <1>5
  <2> QED BY <2>1
<1> QED BY <1>1, <1>6

-----------------------------------------------------------------------------
(* The checksum: two bytes, which depend on what lies between the preamble *)
(* and themselves.                                                         *)
SumStep(b, f, i) ==
  IF i = 0 THEN <<0, 0>>
  ELSE <<(f[i - 1][1] + b[i]) % 256, (f[i - 1][2] + f[i - 1][1] + b[i]) % 256>>

LEMMA SumsExist ==
  ASSUME NEW b, NEW n \in Nat
  PROVE  \E f : f = [i \in 0 .. n |-> SumStep(b, f, i)]
<1> DEFINE T == {k \in Nat : \E f : f = [i \in 0 .. k |-> SumStep(b, f, i)]}
<1>1. 0 \in T
  <2> DEFINE f == [i \in 0 .. 0 |-> <<0, 0>>]
  <2>1. f = [i \in 0 .. 0 |-> SumStep(b, f, i)]
        BY DEF SumStep
  <2> HIDE DEF f
  <2> QED BY <2>1
<1>2. ASSUME NEW k \in T PROVE k + 1 \in T
  <2>0. k \in Nat
        OBVIOUS
  <2>1. PICK f : f = [i \in 0 .. k |-> SumStep(b, f, i)]
        OBVIOUS
  <2> HIDE DEF T
  <2> DEFINE h == [i \in 0 .. k + 1 |-> IF i = k + 1 THEN SumStep(b, f, k + 1) ELSE f[i]]
  <2>2. \A i \in 0 .. k : f[i] = SumStep(b, f, i)
        BY <2>1
  <2>3. \A i \in 0 .. k : h[i] = f[i]
        BY <2>0
  <2>4. h[k + 1] = SumStep(b, f, k + 1)
        BY <2>0
  <2> HIDE DEF h
  <2>5. ASSUME NEW i \in 0 .. k + 1 PROVE h[i] = SumStep(b, h, i)
    <3>1. SumStep(b, f, i) = SumStep(b, h, i)
      <4>1. CASE i = 0
            BY <4>1 DEF SumStep
      <4>2. CASE i # 0
        <5>1. i - 1 \in 0 .. k
              BY <2>0, <4>2
        <5>2. h[i - 1] = f[i - 1]
              BY <2>3, <5>1
        <5> QED BY <4>2, <5>2 DEF SumStep
      <4> QED BY <4>1, <4>2
    <3>2. i = k + 1 \/ i \in 0 .. k
          BY <2>0
    <3> QED BY <2>2, <2>3, <2>4, <3>1, <3>2
  <2>6. h = [i \in 0 .. k + 1 |-> SumStep(b, h, i)]
        BY <2>5 DEF h
  <2> QED BY <2>0, <2>6 DEF T
<1>3. T = Nat
  <2> HIDE DEF T
  <2>1. T \in SUBSET Nat
        BY DEF T
  <2> QED BY <1>1, <1>2, <2>1, InductiveSet
<1> QED BY <1>3

SumsOf(b) == CHOOSE f : f = [i \in 0 .. Len(b) |-> SumStep(b, f, i)]

(* The sums, byte by byte *)
LEMMA ChecksumSteps ==
  ASSUME NEW b \in Seq(Byte)
  PROVE  \A i \in 0 .. Len(b) : SumsOf(b)[i] = SumStep(b, SumsOf(b), i)
<1>1. \E f : f = [i \in 0 .. Len(b) |-> SumStep(b, f, i)]
      BY SumsExist, LenProperties
<1>2. SumsOf(b) = [i \in 0 .. Len(b) |-> SumStep(b, SumsOf(b), i)]
      BY <1>1, Zenon DEF SumsOf
<1> QED BY <1>2

Checked(m) == SubSeq(m, 3, Len(m) - 2)

LEMMA ChecksumIs ==
  ASSUME NEW m
  PROVE  Checksum(m) = SumsOf(Checked(m))[Len(Checked(m))]
BY Zenon DEF Checksum, SumsOf, SumStep, Checked

(* The checksum is two bytes. *)
LEMMA ChecksumType ==
  ASSUME NEW m, Checked(m) \in Seq(Byte)
  PROVE  Checksum(m) \in Seq(Byte) /\ Len(Checksum(m)) = 2
<1> DEFINE b == Checked(m)
           F == SumsOf(b)
           T == {k \in Nat : k <= Len(b) => F[k] \in Byte \X Byte}
<1>0. Len(b) \in Nat /\ \A i \in 1 .. Len(b) : b[i] \in Byte
      BY LenProperties, ElementOfSeq
<1>1. \A i \in 0 .. Len(b) : F[i] = SumStep(b, F, i)
      BY ChecksumSteps
<1>2. Checksum(m) = F[Len(b)]
      BY ChecksumIs
<1> HIDE DEF b, F
<1>3. \A w \in Int : w % 256 \in Byte
      BY SMT DEF Byte
<1>4. 0 \in T
  <2>1. 0 \in 0 .. Len(b)
        BY <1>0
  <2>2. F[0] = <<0, 0>>
        BY <1>1, <2>1 DEF SumStep
  <2>3. 0 \in Byte
        BY DEF Byte
  <2>4. <<0, 0>> \in Byte \X Byte
        BY <2>3, Zenon
  <2> QED BY <2>2, <2>4
<1>5. ASSUME NEW k \in T PROVE k + 1 \in T
  <2>0. k \in Nat /\ (k <= Len(b) => F[k] \in Byte \X Byte)
        OBVIOUS
  <2>1. ASSUME k + 1 <= Len(b) PROVE F[k + 1] \in Byte \X Byte
    <3>1. k \in 0 .. Len(b) /\ k + 1 \in 1 .. Len(b) /\ k + 1 \in 0 .. Len(b) /\ (k + 1) - 1 = k /\ k + 1 # 0
          BY <1>0, <2>0, <2>1
    <3>2. F[k] \in Byte \X Byte
          BY <1>0, <2>0, <3>1
    <3>3. F[k][1] \in Int /\ F[k][2] \in Int /\ b[k + 1] \in Int
      <4>1. \A w \in Byte : w \in Int
            BY DEF Byte
      <4>2. F[k][1] \in Byte /\ F[k][2] \in Byte /\ b[k + 1] \in Byte
            BY <1>0, <3>1, <3>2
      <4> QED BY <4>1, <4>2
    <3>4. F[k + 1] = <<(F[k][1] + b[k + 1]) % 256, (F[k][2] + F[k][1] + b[k + 1]) % 256>>
      <4>1. F[k + 1] = SumStep(b, F, k + 1)
            BY <1>1, <3>1
      <4> QED BY <3>1, <4>1, Zenon DEF SumStep
    <3>5. (F[k][1] + b[k + 1]) % 256 \in Byte /\ (F[k][2] + F[k][1] + b[k + 1]) % 256 \in Byte
      <4>1. F[k][1] + b[k + 1] \in Int /\ F[k][2] + F[k][1] + b[k + 1] \in Int
            BY <3>3
      <4> QED BY <1>3, <4>1, Zenon
    <3> QED BY <3>4, <3>5
  <2> HIDE DEF Byte
  <2> QED BY <2>0, <2>1
<1>6. T = Nat
  <2> HIDE DEF T
  <2>1. T \in SUBSET Nat
        BY DEF T
  <2> QED BY <1>4, <1>5, <2>1, InductiveSet
<1>7. F[Len(b)] \in Byte \X Byte
      BY <1>0, <1>6
<1>8. \A p \in Byte \X Byte : p \in Seq(Byte) /\ Len(p) = 2
  <2> TAKE p \in Byte \X Byte
  <2>1. PICK x \in Byte, y \in Byte : p = <<x, y>>
        OBVIOUS
  <2>2. <<x, y>> \in Seq(Byte) /\ Len(<<x, y>>) = 2
        BY ShortSequences
  <2> QED BY <2>1, <2>2
<1> QED BY <1>2, <1>7, <1>8

(* The checksum of six bytes *)
LEMMA ChecksumOfSix ==
  ASSUME NEW m, Checked(m) \in Seq(Byte), Len(Checked(m)) = 6,
         Checked(m)[1] = 5, Checked(m)[2] \in {0, 1}, Checked(m)[3] = 2,
         Checked(m)[4] = 0, Checked(m)[5] = 6, Checked(m)[6] = 138
  PROVE  Checksum(m) = IF Checked(m)[2] = 1 THEN <<152, 193>> ELSE <<151, 188>>
<1> DEFINE b == Checked(m)
           F == SumsOf(b)
           a == b[2]
<1>1. \A i \in 0 .. 6 : F[i] = SumStep(b, F, i)
  <2>1. \A i \in 0 .. Len(b) : F[i] = SumStep(b, F, i)
        BY ChecksumSteps, Zenon
  <2> QED BY <2>1, Zenon
<1>2. Checksum(m) = F[6]
      BY ChecksumIs
<1>3. a = 0 \/ a = 1
      OBVIOUS
<1>4. b[1] = 5 /\ b[2] = a /\ b[3] = 2 /\ b[4] = 0 /\ b[5] = 6 /\ b[6] = 138
      OBVIOUS
<1> HIDE DEF b, F, a
<1>5. F[0] = <<0, 0>>
      BY <1>1 DEF SumStep
<1>6. F[1] = <<5, 5>>
  <2>1. F[1] = <<(F[0][1] + b[1]) % 256, (F[0][2] + F[0][1] + b[1]) % 256>>
        BY <1>1 DEF SumStep
  <2> QED BY <1>4, <1>5, <2>1
<1>7. F[2] = <<5 + a, 10 + a>>
  <2>1. F[2] = <<(F[1][1] + b[2]) % 256, (F[1][2] + F[1][1] + b[2]) % 256>>
        BY <1>1 DEF SumStep
  <2> QED BY <1>3, <1>4, <1>6, <2>1
<1>8. F[3] = <<7 + a, 17 + 2 * a>>
  <2>1. F[3] = <<(F[2][1] + b[3]) % 256, (F[2][2] + F[2][1] + b[3]) % 256>>
        BY <1>1 DEF SumStep
  <2> QED BY <1>3, <1>4, <1>7, <2>1
<1>9. F[4] = <<7 + a, 24 + 3 * a>>
  <2>1. F[4] = <<(F[3][1] + b[4]) % 256, (F[3][2] + F[3][1] + b[4]) % 256>>
        BY <1>1 DEF SumStep
  <2> QED BY <1>3, <1>4, <1>8, <2>1
<1>10. F[5] = <<13 + a, 37 + 4 * a>>
  <2>1. F[5] = <<(F[4][1] + b[5]) % 256, (F[4][2] + F[4][1] + b[5]) % 256>>
        BY <1>1 DEF SumStep
  <2> QED BY <1>3, <1>4, <1>9, <2>1
<1>11. F[6] = <<151 + a, 188 + 5 * a>>
  <2>1. F[6] = <<(F[5][1] + b[6]) % 256, (F[5][2] + F[5][1] + b[6]) % 256>>
        BY <1>1 DEF SumStep
  <2> QED BY <1>3, <1>4, <1>10, <2>1
<1> QED BY <1>2, <1>3, <1>11 DEF a, b

-----------------------------------------------------------------------------
(* Pieces of a sequence of bytes *)
LEMMA Piece ==
  ASSUME NEW s \in Seq(Byte), NEW o \in Nat, NEW e \in Nat, e <= Len(s), o <= e
  PROVE  /\ SubSeq(s, o + 1, e) \in Seq(Byte) /\ Len(SubSeq(s, o + 1, e)) = e - o
         /\ \A j \in 1 .. e - o : SubSeq(s, o + 1, e)[j] = s[o + j]
<1>1. Len(s) \in Nat /\ \A j \in 1 .. Len(s) : s[j] \in Byte
      BY LenProperties, ElementOfSeq
<1>2. \A j \in o + 1 .. e : s[j] \in Byte
      BY <1>1
<1> DEFINE r == SubSeq(s, o + 1, e)
<1>3. /\ r \in Seq(Byte) /\ Len(r) = IF o + 1 <= e THEN e - (o + 1) + 1 ELSE 0
      /\ \A j \in 1 .. e - (o + 1) + 1 : r[j] = s[o + 1 + j - 1]
      BY <1>2, SubSeqProperties
<1> HIDE DEF r
<1>4. r \in Seq(Byte) /\ Len(r) = e - o /\ \A j \in 1 .. e - o : r[j] = s[o + j]
      BY <1>3
<1> QED BY <1>4 DEF r

KeyAt(s, o) == Number(SubSeq(s, o + 1, o + 4))

LEMMA KeyType ==
  ASSUME NEW s \in Seq(Byte), NEW o \in Nat, o + 4 <= Len(s)
  PROVE  KeyAt(s, o) \in Nat
<1> DEFINE r == SubSeq(s, o + 1, o + 4)
<1>1. r \in Seq(Byte) /\ Len(r) = 4
      BY Piece
<1> HIDE DEF r
<1>2. \A j \in 1 .. 4 : r[j] \in Byte
      BY <1>1, ElementOfSeq
<1>3. Number(r) \in Nat
      BY <1>2, NumberType
<1> QED BY <1>3 DEF KeyAt, r

(* A pair as it is written, and as it is found *)
WrittenAt(p, s, o) ==
  /\ o + 4 + Len(p[2]) <= Len(s)
  /\ \A j \in 1 .. 4 : s[o + j] = LittleEndian(p[1], 4)[j]
  /\ \A j \in 1 .. Len(p[2]) : s[o + 4 + j] = p[2][j]

LEMMA FoundAt ==
  ASSUME NEW s \in Seq(Byte), NEW o \in Nat, NEW p, IsPair(p), WrittenAt(p, s, o)
  PROVE  /\ KeyAt(s, o) = p[1]
         /\ SubSeq(s, o + 5, o + 4 + GetValueByteCount(p[1])) = p[2]
<1>1. /\ p[1] \in Nat /\ p[1] \div 256 ^ 3 < 256
      /\ p[2] \in Seq(Byte) /\ Len(p[2]) = GetValueByteCount(p[1])
      BY DEF IsPair
<1>2. Len(p[2]) \in Nat /\ Len(s) \in Nat
      BY <1>1, LenProperties
<1>0. o + 4 + Len(p[2]) <= Len(s)
      BY DEF WrittenAt
<1> DEFINE n == Len(p[2])
           k == SubSeq(s, o + 1, o + 4)
           v == SubSeq(s, (o + 4) + 1, o + 4 + n)
<1>3. \A j \in 1 .. 4 : k[j] = s[o + j]
  <2>1. o + 4 \in Nat /\ o + 4 <= Len(s) /\ o <= o + 4 /\ (o + 4) - o = 4
    <3>1. n \in Nat /\ o + 4 + n <= Len(s)
          BY <1>0, <1>2
    <3> HIDE DEF n
    <3> QED BY <1>2, <3>1
  <2> QED BY <2>1, Piece
<1>4. \A j \in 1 .. 4 : k[j] = LittleEndian(p[1], 4)[j]
      BY <1>3 DEF WrittenAt
<1>5. Number(k) = p[1]
  <2> HIDE DEF k
  <2> QED BY <1>1, <1>4, NumberWritten
<1>6. v \in Seq(Byte) /\ Len(v) = n /\ \A j \in 1 .. n : v[j] = s[(o + 4) + j]
  <2>1. /\ o + 4 \in Nat /\ o + 4 + n \in Nat /\ o + 4 + n <= Len(s) /\ o + 4 <= o + 4 + n
        /\ (o + 4 + n) - (o + 4) = n
    <3>1. n \in Nat /\ o + 4 + n <= Len(s)
          BY <1>0, <1>2
    <3> HIDE DEF n
    <3> QED BY <3>1
  <2> DEFINE a == o + 4
             e == o + 4 + n
  <2>2. a \in Nat /\ e \in Nat /\ e <= Len(s) /\ a <= e /\ e - a = n
        BY <2>1
  <2> HIDE DEF a, e, n
  <2>3. /\ SubSeq(s, a + 1, e) \in Seq(Byte) /\ Len(SubSeq(s, a + 1, e)) = n
        /\ \A j \in 1 .. n : SubSeq(s, a + 1, e)[j] = s[a + j]
        BY <2>2, Piece
  <2> QED BY <2>3 DEF a, e
<1> HIDE DEF v
<1>7. v = p[2]
  <2>1. \A j \in 1 .. n : v[j] = p[2][j]
        BY <1>6 DEF WrittenAt
  <2> QED BY <1>1, <1>6, <2>1, SeqEqual
<1>8. (o + 4) + 1 = o + 5
      OBVIOUS
<1> QED BY <1>1, <1>5, <1>7, <1>8 DEF v, KeyAt

(* Where the pairs of an encoding are *)
PairsAt(pairs, s, at) ==
  /\ \A i \in 0 .. Len(pairs) : at[i] \in Nat /\ at[i] <= Len(s)
  /\ \A i \in 1 .. Len(pairs) :
       at[i] = at[i - 1] + 4 + GetValueByteCount(pairs[i][1]) /\ WrittenAt(pairs[i], s, at[i - 1])

(* A key and a value in their bytes, one behind the other *)
LEMMA EncodedPair ==
  ASSUME NEW p, IsPair(p)
  PROVE  LET e == LittleEndian(p[1], 4) \o p[2] IN
         /\ e \in Seq(Byte) /\ Len(e) = 4 + Len(p[2]) /\ Len(p[2]) \in Nat
         /\ \A j \in 1 .. 4 : e[j] = LittleEndian(p[1], 4)[j]
         /\ \A j \in 1 .. Len(p[2]) : e[4 + j] = p[2][j]
         /\ Len(p[2]) = GetValueByteCount(p[1])
<1>1. p[1] \in Int /\ p[2] \in Seq(Byte) /\ Len(p[2]) = GetValueByteCount(p[1])
      BY DEF IsPair
<1>2. LittleEndian(p[1], 4) \in Seq(Byte) /\ Len(LittleEndian(p[1], 4)) = 4
      BY <1>1, WrittenBytes
<1> DEFINE k == LittleEndian(p[1], 4)
           v == p[2]
           e == k \o v
<1>3. k \in Seq(Byte) /\ v \in Seq(Byte) /\ e = k \o v
      BY <1>1, <1>2
<1>4. Len(k) = 4
      BY <1>2
<1> HIDE DEF k, v, e
<1>5. /\ e \in Seq(Byte) /\ Len(e) = Len(k) + Len(v) /\ Len(v) \in Nat
      /\ \A j \in 1 .. Len(k) : e[j] = k[j]
      /\ \A j \in 1 .. Len(v) : e[Len(k) + j] = v[j]
      BY <1>3, Joined
<1>6. /\ e \in Seq(Byte) /\ Len(e) = 4 + Len(v) /\ Len(v) \in Nat
      /\ \A j \in 1 .. 4 : e[j] = k[j]
      /\ \A j \in 1 .. Len(v) : e[4 + j] = v[j]
      BY <1>4, <1>5
<1> QED BY <1>1, <1>6 DEF k, v, e

(* The pairs of an encoding lie one behind the other, from its first byte  *)
(* to its last.                                                            *)
LEMMA EncodedPairs ==
  ASSUME NEW pairs \in Seq(Nat \X Seq(Byte)), \A i \in 1 .. Len(pairs) : IsPair(pairs[i])
  PROVE  /\ Encoded(pairs) \in Seq(Byte)
         /\ \E at : at[0] = 0 /\ at[Len(pairs)] = Len(Encoded(pairs))
                    /\ PairsAt(pairs, Encoded(pairs), at)
<1> DEFINE n == Len(pairs)
           Enc(i) == LittleEndian(pairs[i][1], 4) \o pairs[i][2]
           es == [i \in 1 .. n |-> Enc(i)]
<1>0. n \in Nat
      BY LenProperties
<1>1. ASSUME NEW i \in 1 .. n
      PROVE  /\ Enc(i) \in Seq(Byte) /\ Len(Enc(i)) = 4 + Len(pairs[i][2]) /\ Len(pairs[i][2]) \in Nat
             /\ \A j \in 1 .. 4 : Enc(i)[j] = LittleEndian(pairs[i][1], 4)[j]
             /\ \A j \in 1 .. Len(pairs[i][2]) : Enc(i)[4 + j] = pairs[i][2][j]
             /\ Len(pairs[i][2]) = GetValueByteCount(pairs[i][1])
  BY EncodedPair
<1>2. es \in Seq(Seq(Byte)) /\ Len(es) = n /\ \A i \in 1 .. n : es[i] = Enc(i)
  <2> HIDE DEF Enc
  <2> QED BY <1>0, <1>1
<1>3. Encoded(pairs) = FlattenSeq(es)
      BY DEF Encoded
<1> HIDE DEF es
<1>4. Encoded(pairs) \in Seq(Byte) /\ \E at : Layout(es, Encoded(pairs), at)
      BY <1>2, <1>3, FlattenLayout
<1>5. PICK at : Layout(es, Encoded(pairs), at)
      BY <1>4
<1> DEFINE s == Encoded(pairs)
<1> HIDE DEF s
<1>6. /\ at[0] = 0 /\ at[n] = Len(s)
      /\ \A i \in 0 .. n : at[i] \in Nat
      /\ \A i \in 1 .. n : at[i] = at[i - 1] + Len(Enc(i)) /\ at[i] <= Len(s)
      /\ \A i \in 1 .. n : \A j \in 1 .. Len(Enc(i)) : s[at[i - 1] + j] = Enc(i)[j]
  <2> HIDE DEF Enc, n
  <2>1. Layout(es, s, at)
        BY <1>5 DEF s
  <2>2. /\ at[0] = 0 /\ at[Len(es)] = Len(s)
        /\ \A i \in 0 .. Len(es) : at[i] \in Nat
        /\ \A i \in 1 .. Len(es) :
             /\ at[i] = at[i - 1] + Len(es[i]) /\ at[i] <= Len(s)
             /\ \A j \in 1 .. Len(es[i]) : s[at[i - 1] + j] = es[i][j]
        BY <2>1 DEF Layout
  <2>3. ASSUME NEW i \in 1 .. n
        PROVE  /\ at[i] = at[i - 1] + Len(Enc(i)) /\ at[i] <= Len(s)
               /\ \A j \in 1 .. Len(Enc(i)) : s[at[i - 1] + j] = Enc(i)[j]
        BY <1>2, <2>2
  <2> QED BY <1>2, <2>2, <2>3
<1>7. \A i \in 0 .. n : at[i] \in Nat /\ at[i] <= Len(s)
  <2> TAKE i \in 0 .. n
  <2>1. Len(s) \in Nat
        BY <1>4, LenProperties DEF s
  <2>2. i = 0 \/ i \in 1 .. n
        BY <1>0
  <2> HIDE DEF Enc
  <2> QED BY <1>6, <2>1, <2>2
<1>8. ASSUME NEW i \in 1 .. n
      PROVE  at[i] = at[i - 1] + 4 + GetValueByteCount(pairs[i][1]) /\ WrittenAt(pairs[i], s, at[i - 1])
  <2>1. i - 1 \in 0 .. n
        BY <1>0
  <2>2. at[i - 1] \in Nat
        BY <1>6, <2>1
  <2>3. /\ Len(Enc(i)) = 4 + Len(pairs[i][2]) /\ Len(pairs[i][2]) \in Nat
        /\ \A j \in 1 .. 4 : Enc(i)[j] = LittleEndian(pairs[i][1], 4)[j]
        /\ \A j \in 1 .. Len(pairs[i][2]) : Enc(i)[4 + j] = pairs[i][2][j]
        /\ Len(pairs[i][2]) = GetValueByteCount(pairs[i][1])
        BY <1>1
  <2>4. /\ at[i] = at[i - 1] + Len(Enc(i)) /\ at[i] <= Len(s)
        /\ \A j \in 1 .. Len(Enc(i)) : s[at[i - 1] + j] = Enc(i)[j]
        BY <1>6
  <2>8. Len(s) \in Nat
        BY <1>4, LenProperties DEF s
  <2> DEFINE l == Len(Enc(i))
             m == Len(pairs[i][2])
             a == at[i - 1]
             b == at[i]
  <2>9. l = 4 + m /\ m \in Nat /\ a \in Nat /\ b = a + l /\ b <= Len(s)
        BY <2>2, <2>3, <2>4
  <2> HIDE DEF Enc
  <2>5. \A j \in 1 .. 4 : s[at[i - 1] + j] = LittleEndian(pairs[i][1], 4)[j]
    <3> TAKE j \in 1 .. 4
    <3>1. j \in 1 .. l
      <4> HIDE DEF l, m, a, b
      <4> QED BY <2>9
    <3> QED BY <2>3, <2>4, <3>1
  <2>6. ASSUME NEW j \in 1 .. Len(pairs[i][2]) PROVE s[at[i - 1] + 4 + j] = pairs[i][2][j]
    <3>1. 4 + j \in 1 .. l /\ a + (4 + j) = a + 4 + j
      <4>1. j \in 1 .. m
            OBVIOUS
      <4> HIDE DEF l, m, a, b
      <4> QED BY <2>9, <4>1
    <3> QED BY <2>3, <2>4, <3>1
  <2>7. b = a + 4 + m /\ a + 4 + m <= Len(s)
    <3> HIDE DEF l, m, a, b
    <3> QED BY <2>8, <2>9
  <2> QED BY <2>3, <2>5, <2>6, <2>7 DEF WrittenAt
<1>9. PairsAt(pairs, s, at)
      BY <1>7, <1>8 DEF PairsAt
<1> QED BY <1>4, <1>6, <1>9 DEF s

-----------------------------------------------------------------------------
(* The pairs of an encoding as offsets: where reading stops, where the     *)
(* next pair is.                                                           *)
NextAt(s, o) == o + 4 + GetValueByteCount(KeyAt(s, o))
ParseStops(b) == {o \in 0 .. Len(b) : o + 4 > Len(b) \/ NextAt(b, o) > Len(b)}
ReadStops(m) ==
  {o \in 0 .. Len(m) - 2 :
     o + 4 > Len(m) - 2 \/ KeyAt(m, o) \notin DOMAIN KeyWidth \/ NextAt(m, o) > Len(m) - 2}

Nexts(s, n) == [o \in 0 .. n |-> NextAt(s, o)]
ParseHeads(b) == [o \in 0 .. Len(b) |-> Raw(KeyAt(b, o), SubSeq(b, o + 5, NextAt(b, o)))]
ReadHeads(m) == [o \in 0 .. Len(m) - 2 |-> <<KeyAt(m, o), SubSeq(m, o + 5, NextAt(m, o))>>]

(* The next pair lies behind the present one. *)
LEMMA NextLater ==
  ASSUME NEW s \in Seq(Byte), NEW o \in Nat, o + 4 <= Len(s)
  PROVE  NextAt(s, o) \in Nat /\ NextAt(s, o) > o + 4
<1>1. KeyAt(s, o) \in Nat
      BY KeyType
<1>2. GetValueByteCount(KeyAt(s, o)) \in Nat \ {0}
      BY <1>1, ByteCounts
<1> QED BY <1>2 DEF NextAt

(* Each pair of a layout is found where it lies. *)
FoundAs(s, o, e, p) ==
  /\ o \in Nat /\ e \in Nat /\ o + 4 < e
  /\ KeyAt(s, o) = p[1] /\ NextAt(s, o) = e
  /\ SubSeq(s, o + 5, e) = p[2]

(* Where a pair was written it is found, and the next one behind it. *)
LEMMA OnPath ==
  ASSUME NEW s \in Seq(Byte), NEW pairs, NEW at, NEW i \in 1 .. Len(pairs),
         PairsAt(pairs, s, at), IsPair(pairs[i]), Len(pairs) \in Nat
  PROVE  FoundAs(s, at[i - 1], at[i], pairs[i])
<1> DEFINE p == pairs[i]
           o == at[i - 1]
           e == at[i]
<1>1. i \in 0 .. Len(pairs) /\ i - 1 \in 0 .. Len(pairs)
      OBVIOUS
<1>2. /\ o \in Nat /\ e \in Nat /\ WrittenAt(p, s, o) /\ IsPair(p)
      /\ e = o + 4 + GetValueByteCount(p[1])
      BY <1>1 DEF PairsAt
<1> HIDE DEF p, o, e
<1>3. /\ KeyAt(s, o) = p[1]
      /\ SubSeq(s, o + 5, o + 4 + GetValueByteCount(p[1])) = p[2]
      BY <1>2, FoundAt
<1>4. NextAt(s, o) = e /\ SubSeq(s, o + 5, e) = p[2]
      BY <1>2, <1>3 DEF NextAt
<1>5. GetValueByteCount(p[1]) \in Nat \ {0}
  <2>1. p[1] \in Nat
        BY <1>2 DEF IsPair
  <2> QED BY <2>1, ByteCounts
<1>6. o + 4 < e
      BY <1>2, <1>5
<1>7. FoundAs(s, o, e, p)
      BY <1>2, <1>3, <1>4, <1>6 DEF FoundAs
<1> QED BY <1>7 DEF p, o, e

(* ParsePairs *)
ParseStep(b, f, o) ==
  IF o + 4 > Len(b) THEN [ok |-> o = Len(b), pairs |-> <<>>]
  ELSE LET key == Number(SubSeq(b, o + 1, o + 4))
           end == o + 4 + GetValueByteCount(key)
       IN IF end > Len(b) THEN [ok |-> FALSE, pairs |-> <<>>]
          ELSE [ok |-> f[end].ok,
                pairs |-> <<Raw(key, SubSeq(b, o + 5, end))>> \o f[end].pairs]

Parsed(b) == CHOOSE f : f = [o \in 0 .. Len(b) |-> ParseStep(b, f, o)]

LEMMA ParsePairsIs ==
  ASSUME NEW b
  PROVE  ParsePairs(b) = Parsed(b)[0]
BY Zenon DEF ParsePairs, Parsed, ParseStep

(* ParsePairs is such a walk. *)
LEMMA ParseWalks ==
  ASSUME NEW b, NEW f, NEW o \in 0 .. Len(b), Len(b) \in Nat
  PROVE  ParseStep(b, f, o)
           = WalkStep(f, Len(b), ParseStops(b), ParseHeads(b), Nexts(b, Len(b)), o)
<1> DEFINE n == Len(b)
           e == NextAt(b, o)
           h == Raw(KeyAt(b, o), SubSeq(b, o + 5, e))
<1>1. o \in ParseStops(b) <=> o + 4 > n \/ e > n
      BY DEF ParseStops
<1>2. Nexts(b, n)[o] = e /\ ParseHeads(b)[o] = h
      BY DEF Nexts, ParseHeads
<1>3. ParseStep(b, f, o) =
        IF o + 4 > n THEN [ok |-> o = n, pairs |-> <<>>]
        ELSE IF e > n THEN [ok |-> FALSE, pairs |-> <<>>]
        ELSE [ok |-> f[e].ok, pairs |-> <<h>> \o f[e].pairs]
      BY Zenon DEF ParseStep, NextAt, KeyAt
<1>4. o + 4 <= n => FALSE = (o = n)
      OBVIOUS
<1>5. \/ o + 4 > n
      \/ o + 4 <= n
      OBVIOUS
<1> HIDE DEF h, e, n
<1>6. CASE o + 4 > n
      BY <1>1, <1>3, <1>6 DEF WalkStep, n
<1>7. CASE o + 4 <= n /\ e > n
  <2>1. ~(o + 4 > n) /\ FALSE = (o = n)
        BY <1>4, <1>7 DEF n
  <2>2. ParseStep(b, f, o) = [ok |-> o = n, pairs |-> <<>>]
        BY <1>3, <1>7, <2>1
  <2>3. o \in ParseStops(b)
        BY <1>1, <1>7
  <2> QED BY <2>2, <2>3 DEF WalkStep, n
<1>8. CASE o + 4 <= n /\ ~(e > n)
  <2>1. ~(o + 4 > n)
        BY <1>8 DEF n
  <2>2. ParseStep(b, f, o) = [ok |-> f[e].ok, pairs |-> <<h>> \o f[e].pairs]
        BY <1>3, <1>8, <2>1
  <2>3. o \notin ParseStops(b)
        BY <1>1, <1>8, <2>1
  <2> QED BY <1>2, <2>2, <2>3 DEF WalkStep, n
<1> QED BY <1>5, <1>6, <1>7, <1>8

LEMMA ParseSteps ==
  ASSUME NEW b \in Seq(Byte)
  PROVE  IsWalk(Parsed(b), Len(b), ParseStops(b), ParseHeads(b), Nexts(b, Len(b)))
<1> DEFINE n == Len(b)
           stop == ParseStops(b)
           head == ParseHeads(b)
           next == Nexts(b, n)
<1>1. n \in Nat
      BY LenProperties
<1>2. \A o \in (0 .. n) \ stop : next[o] \in o + 1 .. n
  <2> TAKE o \in (0 .. n) \ stop
  <2>1. o + 4 <= n /\ NextAt(b, o) <= n
    <3>1. ~(o + 4 > n) /\ ~(NextAt(b, o) > n)
          BY DEF ParseStops
    <3>2. NextAt(b, o) \in Nat
      <4>1. o + 4 <= n
            BY <1>1, <3>1
      <4> QED BY <4>1, NextLater
    <3> QED BY <1>1, <3>1, <3>2
  <2>2. NextAt(b, o) \in Nat /\ NextAt(b, o) > o + 4
        BY <2>1, NextLater
  <2>3. next[o] = NextAt(b, o)
        BY DEF Nexts
  <2> QED BY <1>1, <2>1, <2>2, <2>3
<1>3. GoesOn(n, stop, next)
      BY <1>2 DEF GoesOn
<1>4. ASSUME NEW f
      PROVE  [o \in 0 .. n |-> ParseStep(b, f, o)] = [o \in 0 .. n |-> WalkStep(f, n, stop, head, next, o)]
  <2>1. \A o \in 0 .. n : ParseStep(b, f, o) = WalkStep(f, n, stop, head, next, o)
        BY <1>1, ParseWalks
  <2> HIDE DEF n, stop, head, next
  <2> QED BY <2>1
<1> HIDE DEF n, stop, head, next
<1>5. PICK f : IsWalk(f, n, stop, head, next)
      BY <1>1, <1>3, WalkExists
<1>6. f = [o \in 0 .. n |-> ParseStep(b, f, o)]
      BY <1>4, <1>5, Zenon DEF IsWalk
<1>7. Parsed(b) = [o \in 0 .. n |-> ParseStep(b, Parsed(b), o)]
      BY <1>6, Zenon DEF Parsed, n
<1>8. IsWalk(Parsed(b), n, stop, head, next)
      BY <1>4, <1>7, Zenon DEF IsWalk
<1> QED BY <1>8 DEF n, stop, head, next

(* A line whose bytes the parser takes is divided into keys and values. *)
LEMMA ParseSound ==
  ASSUME NEW b \in Seq(Byte), ParsePairs(b).ok
  PROVE  Divided(b)
<1> DEFINE n == Len(b)
           f == Parsed(b)
           Good(o) == f[o].ok = TRUE
           cuts == {o \in 0 .. n : Good(o)}
<1>1. n \in Nat
      BY LenProperties
<1>2. Good(0)
      BY ParsePairsIs
<1>3. ASSUME NEW o \in 0 .. n, Good(o), o # n
      PROVE  o + 4 <= n /\ NextAt(b, o) \in 0 .. n /\ Good(NextAt(b, o))
  <2>1. f[o] = WalkStep(f, n, ParseStops(b), ParseHeads(b), Nexts(b, n), o)
        BY ParseSteps DEF IsWalk
  <2>2. o \notin ParseStops(b)
    <3> SUFFICES ASSUME o \in ParseStops(b) PROVE FALSE
        OBVIOUS
    <3> HIDE DEF f
    <3>1. f[o] = [ok |-> o = n, pairs |-> <<>>]
          BY <2>1 DEF WalkStep
    <3>2. f[o].ok = (o = n)
          BY <3>1
    <3> QED BY <1>3, <3>2
  <2>3. ~(o + 4 > n) /\ ~(NextAt(b, o) > n)
        BY <2>2 DEF ParseStops
  <2>4. o + 4 <= n
        BY <1>1, <2>3
  <2>5. NextAt(b, o) \in Nat
        BY <2>4, NextLater
  <2>6. NextAt(b, o) \in 0 .. n
        BY <1>1, <2>3, <2>5
  <2> DEFINE e == NextAt(b, o)
  <2>7. Nexts(b, n)[o] = e
        BY DEF Nexts
  <2> HIDE DEF f, e
  <2>8. f[o].ok = f[e].ok
        BY <2>1, <2>2, <2>7 DEF WalkStep
  <2> QED BY <1>3, <2>4, <2>6, <2>8 DEF e
<1> HIDE DEF Good, f
<1>4. cuts \in SUBSET (0 .. n) /\ 0 \in cuts
      BY <1>1, <1>2
<1>5. ASSUME NEW o \in cuts \ {n}
      PROVE  o + 4 <= n /\ o + 4 + GetValueByteCount(Number(SubSeq(b, o + 1, o + 4))) \in cuts
  <2>1. o + 4 <= n /\ NextAt(b, o) \in cuts
        BY <1>3
  <2> QED BY <2>1 DEF NextAt, KeyAt
<1> HIDE DEF cuts
<1>6. /\ cuts \in SUBSET (0 .. Len(b)) /\ 0 \in cuts
      /\ \A o \in cuts \ {Len(b)} :
           /\ o + 4 <= Len(b)
           /\ o + 4 + GetValueByteCount(Number(SubSeq(b, o + 1, o + 4))) \in cuts
      BY <1>4, <1>5
<1> QED BY <1>6, Zenon DEF Divided

(* An encoding of pairs is parsed into just these pairs. *)
LEMMA ParseGood ==
  ASSUME NEW pairs \in Seq(Nat \X Seq(Byte)), \A i \in 1 .. Len(pairs) : IsPair(pairs[i])
  PROVE  /\ ParsePairs(Encoded(pairs)).ok = TRUE
         /\ ParsePairs(Encoded(pairs)).pairs = [i \in 1 .. Len(pairs) |-> Raw(pairs[i][1], pairs[i][2])]
<1> DEFINE b == Encoded(pairs)
           n == Len(b)
           k == Len(pairs)
           f == Parsed(b)
           stop == ParseStops(b)
           head == ParseHeads(b)
           next == Nexts(b, n)
<1>1. b \in Seq(Byte) /\ n \in Nat /\ k \in Nat
      BY EncodedPairs, LenProperties
<1>2. PICK at : at[0] = 0 /\ at[k] = n /\ PairsAt(pairs, b, at)
      BY EncodedPairs
<1>3. \A i \in 0 .. k : at[i] \in 0 .. n
  <2>1. \A i \in 0 .. k : at[i] \in Nat /\ at[i] <= n
        BY <1>2 DEF PairsAt
  <2> HIDE DEF n, k
  <2> QED BY <1>1, <2>1
<1>4. ASSUME NEW i \in 1 .. k
      PROVE  /\ at[i - 1] \notin stop /\ next[at[i - 1]] = at[i]
             /\ head[at[i - 1]] = Raw(pairs[i][1], pairs[i][2])
  <2>1. /\ KeyAt(b, at[i - 1]) = pairs[i][1] /\ NextAt(b, at[i - 1]) = at[i]
        /\ SubSeq(b, at[i - 1] + 5, at[i]) = pairs[i][2] /\ at[i - 1] + 4 < at[i]
    <3>1. IsPair(pairs[i]) /\ b \in Seq(Byte) /\ PairsAt(pairs, b, at) /\ Len(pairs) \in Nat
          BY <1>1, <1>2
    <3> HIDE DEF b
    <3>2. FoundAs(b, at[i - 1], at[i], pairs[i])
          BY <3>1, OnPath
    <3> QED BY <3>2 DEF FoundAs
  <2>2. at[i - 1] \in 0 .. n /\ at[i] \in 0 .. n
    <3>1. i \in 0 .. k /\ i - 1 \in 0 .. k
          BY <1>1
    <3> QED BY <1>3, <3>1
  <2> DEFINE o == at[i - 1]
             e == at[i]
  <2>3. ~(o + 4 > n) /\ ~(e > n)
    <3>1. o \in 0 .. n /\ e \in 0 .. n /\ o + 4 < e
          BY <2>1, <2>2
    <3> HIDE DEF n, o, e
    <3> QED BY <1>1, <3>1
  <2>4. o \notin stop
        BY <2>1, <2>3 DEF ParseStops
  <2>5. next[o] = e
        BY <2>1, <2>2 DEF Nexts
  <2>6. head[o] = Raw(pairs[i][1], pairs[i][2])
        BY <2>1, <2>2 DEF ParseHeads
  <2> QED BY <2>4, <2>5, <2>6
<1>5. IsWalk(f, n, stop, head, next)
      BY <1>1, ParseSteps
<1>6. n \in stop
  <2>1. n + 4 > n /\ n \in 0 .. n
        BY <1>1
  <2> QED BY <2>1 DEF ParseStops
<1> HIDE DEF n, k, f, stop, head, next
<1>7. Path(n, stop, next, k, at)
      BY <1>2, <1>3, <1>4, <1>6 DEF Path
<1>8. f[at[0]].ok = TRUE /\ f[at[0]].pairs = Along(head, at, k)
  <2>1. ReadsAlong(f, head, at, k)
        BY <1>1, <1>5, <1>7, WalkAlong
  <2> QED BY <2>1, Zenon DEF ReadsAlong
<1>9. f[0].ok = TRUE /\ f[0].pairs = [i \in 1 .. k |-> Raw(pairs[i][1], pairs[i][2])]
      BY <1>2, <1>4, <1>8 DEF Along
<1>10. ParsePairs(b) = f[0]
       BY ParsePairsIs DEF f
<1> QED BY <1>9, <1>10 DEF k

-----------------------------------------------------------------------------
(*                          Messages put together                          *)

-----------------------------------------------------------------------------
(* A message and its checksum *)
LEMMA Sealed ==
  ASSUME NEW m \in Seq(Byte), Len(m) >= 8
  PROVE  LET r == set_checksum(m)
         IN  /\ r \in Seq(Byte) /\ Len(r) = Len(m)
             /\ \A j \in 1 .. Len(m) - 2 : r[j] = m[j]
             /\ check_checksum(r)
             /\ Checked(r) = Checked(m)
             /\ r[Len(m) - 1] = Checksum(m)[1] /\ r[Len(m)] = Checksum(m)[2]
<1> DEFINE n == Len(m)
           h == SubSeq(m, 1, n - 2)
           c == Checksum(m)
           r == h \o c
<1>1. n \in Nat /\ n >= 8
      BY LenProperties
<1>2. h \in Seq(Byte) /\ Len(h) = n - 2 /\ \A j \in 1 .. n - 2 : h[j] = m[j]
  <2>1. n - 2 \in Nat /\ n - 2 <= n /\ 0 <= n - 2 /\ (n - 2) - 0 = n - 2
        BY <1>1
  <2> DEFINE e == n - 2
  <2>2. /\ SubSeq(m, 0 + 1, e) \in Seq(Byte) /\ Len(SubSeq(m, 0 + 1, e)) = e - 0
        /\ \A j \in 1 .. e - 0 : SubSeq(m, 0 + 1, e)[j] = m[0 + j]
    <3>1. e \in Nat /\ e <= Len(m) /\ 0 <= e
          BY <2>1
    <3> HIDE DEF e
    <3> QED BY <3>1, Piece
  <2>3. 0 + 1 = 1 /\ e - 0 = e /\ \A j \in 1 .. e : 0 + j = j
        BY <1>1
  <2> HIDE DEF e
  <2>4. h = SubSeq(m, 0 + 1, e)
        BY <2>3 DEF e
  <2>5. h \in Seq(Byte) /\ Len(h) = e /\ \A j \in 1 .. e : h[j] = m[j]
    <3> HIDE DEF h
    <3> QED BY <2>2, <2>3, <2>4
  <2> QED BY <2>5 DEF e
<1>3. Checked(m) \in Seq(Byte) /\ Len(Checked(m)) = n - 4 /\ \A j \in 1 .. n - 4 : Checked(m)[j] = m[2 + j]
  <2> DEFINE e == n - 2
  <2>1. e \in Nat /\ e <= Len(m) /\ 2 <= e /\ 2 \in Nat /\ e - 2 = n - 4 /\ 2 + 1 = 3
        BY <1>1
  <2>2. Checked(m) = SubSeq(m, 2 + 1, e)
        BY <2>1 DEF Checked
  <2> HIDE DEF e
  <2>3. /\ SubSeq(m, 2 + 1, e) \in Seq(Byte) /\ Len(SubSeq(m, 2 + 1, e)) = e - 2
        /\ \A j \in 1 .. e - 2 : SubSeq(m, 2 + 1, e)[j] = m[2 + j]
        BY <2>1, Piece
  <2> QED BY <2>1, <2>2, <2>3
<1>4. c \in Seq(Byte) /\ Len(c) = 2
      BY <1>3, ChecksumType
<1> HIDE DEF h, c
<1>5. /\ r \in Seq(Byte) /\ Len(r) = Len(h) + Len(c)
      /\ \A j \in 1 .. Len(h) : r[j] = h[j]
      /\ \A j \in 1 .. Len(c) : r[Len(h) + j] = c[j]
  <2>1. r = h \o c /\ h \in Seq(Byte) /\ c \in Seq(Byte)
        BY <1>2, <1>4
  <2> HIDE DEF r, n
  <2> QED BY <2>1, Joined
<1> HIDE DEF r, n
<1>6. /\ r \in Seq(Byte) /\ Len(r) = n
      /\ \A j \in 1 .. n - 2 : r[j] = m[j]
      /\ r[n - 1] = c[1] /\ r[n] = c[2]
  <2>1. Len(r) = n /\ (n - 2) + 1 = n - 1 /\ (n - 2) + 2 = n
        BY <1>1, <1>2, <1>4, <1>5
  <2>2. r[Len(h) + 1] = c[1] /\ r[Len(h) + 2] = c[2]
        BY <1>4, <1>5
  <2>3. r[n - 1] = c[1] /\ r[n] = c[2]
        BY <1>2, <2>1, <2>2
  <2>4. \A j \in 1 .. n - 2 : r[j] = m[j]
        BY <1>2, <1>5
  <2> QED BY <1>5, <2>1, <2>3, <2>4
<1>7. /\ Checked(r) \in Seq(Byte) /\ Len(Checked(r)) = n - 4
      /\ \A j \in 1 .. n - 4 : Checked(r)[j] = r[2 + j]
  <2> DEFINE e == n - 2
  <2>1. e \in Nat /\ e <= Len(r) /\ 2 <= e /\ 2 \in Nat /\ e - 2 = n - 4 /\ 2 + 1 = 3
        BY <1>1, <1>6
  <2>2. Checked(r) = SubSeq(r, 2 + 1, e)
        BY <1>6, <2>1 DEF Checked
  <2> HIDE DEF e
  <2>3. /\ SubSeq(r, 2 + 1, e) \in Seq(Byte) /\ Len(SubSeq(r, 2 + 1, e)) = e - 2
        /\ \A j \in 1 .. e - 2 : SubSeq(r, 2 + 1, e)[j] = r[2 + j]
        BY <1>6, <2>1, Piece
  <2> QED BY <2>1, <2>2, <2>3
<1>8. Checked(r) = Checked(m)
  <2>1. \A j \in 1 .. n - 4 : Checked(r)[j] = Checked(m)[j]
    <3> TAKE j \in 1 .. n - 4
    <3>1. 2 + j \in 1 .. n - 2
          BY <1>1
    <3> QED BY <1>3, <1>6, <1>7, <3>1
  <2> QED BY <1>3, <1>7, <2>1, SeqEqual
<1>9. Checksum(r) = c
      BY <1>8, ChecksumIs DEF c
<1>10. SubSeq(r, n - 1, n) = c
  <2> DEFINE o == n - 2
             t == SubSeq(r, o + 1, n)
  <2>1. o \in Nat /\ n \in Nat /\ n <= Len(r) /\ o <= n /\ n - o = 2 /\ o + 1 = n - 1 /\ o + 2 = n
        BY <1>1, <1>6
  <2> HIDE DEF o
  <2>2. t \in Seq(Byte) /\ Len(t) = n - o /\ \A j \in 1 .. n - o : t[j] = r[o + j]
        BY <1>6, <2>1, Piece
  <2>3. t = SubSeq(r, n - 1, n)
        BY <2>1
  <2> HIDE DEF t
  <2>4. Len(t) = 2 /\ t[1] = c[1] /\ t[2] = c[2]
        BY <1>6, <2>1, <2>2
  <2>5. \A j \in 1 .. 2 : t[j] = c[j]
        BY <2>4
  <2>6. t = c
        BY <1>4, <2>2, <2>4, <2>5, SeqEqual
  <2> QED BY <2>3, <2>6
<1>11. check_checksum(r)
       BY <1>6, <1>9, <1>10 DEF check_checksum
<1>12. r = set_checksum(m)
       BY DEF r, h, c, n, set_checksum
<1> QED BY <1>6, <1>8, <1>11, <1>12 DEF n, c

-----------------------------------------------------------------------------
(* A message that is put together of its parts *)
LEMMA TwoBytes ==
  ASSUME NEW n \in Nat, n < 65536
  PROVE  Digit(n, 0) + 256 * Digit(n, 1) = n
<1>1. Digit(n, 0) = n % 256 /\ Digit(n, 1) = (n \div 256) % 256
  <2>1. n \div 1 = n
        OBVIOUS
  <2> QED BY <2>1, Powers DEF Digit
<1>2. (n % 256) + 256 * ((n \div 256) % 256) = n
      BY SMT
<1> QED BY <1>1, <1>2

Unsealed(class, id, payload) ==
  <<UBX_SYNC_1, UBX_SYNC_2, class, id>> \o LittleEndian(Len(payload), 2) \o payload \o <<0, 0>>

(* The places of the parts in a message without its checksum *)
LEMMA Parts ==
  ASSUME NEW class \in Byte, NEW id \in Byte, NEW payload \in Seq(Byte)
  PROVE  LET m == Unsealed(class, id, payload)
             n == Len(payload)
         IN  /\ m \in Seq(Byte) /\ n \in Nat /\ Len(m) = 8 + n
             /\ m[1] = UBX_SYNC_1 /\ m[2] = UBX_SYNC_2 /\ m[3] = class /\ m[4] = id
             /\ m[5] = Digit(n, 0) /\ m[6] = Digit(n, 1)
             /\ \A j \in 1 .. n : m[6 + j] = payload[j]
<1> DEFINE n == Len(payload)
           h == <<UBX_SYNC_1, UBX_SYNC_2, class, id>>
           l == <<Digit(n, 0), Digit(n, 1)>>
           z == <<0, 0>>
           a == h \o l
           b == a \o payload
           m == b \o z
<1>1. n \in Nat
      BY LenProperties
<1>2. UBX_SYNC_1 \in Byte /\ UBX_SYNC_2 \in Byte /\ 0 \in Byte
      BY DEF UBX_SYNC_1, UBX_SYNC_2, Byte
<1>3. /\ h \in Seq(Byte) /\ Len(h) = 4
      /\ h[1] = UBX_SYNC_1 /\ h[2] = UBX_SYNC_2 /\ h[3] = class /\ h[4] = id
  <2>1. h \in Seq(Byte) /\ Len(h) = 4
        BY <1>2, ShortSequences
  <2> QED BY <2>1
<1>4. /\ l \in Seq(Byte) /\ Len(l) = 2 /\ l[1] = Digit(n, 0) /\ l[2] = Digit(n, 1)
      /\ l = LittleEndian(n, 2)
  <2>1. Digit(n, 0) \in Byte /\ Digit(n, 1) \in Byte
        BY <1>1, DigitType
  <2>2. LittleEndian(n, 2) = <<Digit(n, 0), Digit(n, 1)>>
        BY <1>1, WrittenDigits
  <2>3. l \in Seq(Byte) /\ Len(l) = 2
        BY <2>1, ShortSequences
  <2> QED BY <2>2, <2>3
<1>5. z \in Seq(Byte) /\ Len(z) = 2
      BY <1>2, ShortSequences
<1> HIDE DEF n, h, l, z
<1>6. /\ a \in Seq(Byte) /\ Len(a) = Len(h) + Len(l)
      /\ \A j \in 1 .. Len(h) : a[j] = h[j]
      /\ \A j \in 1 .. Len(l) : a[Len(h) + j] = l[j]
  <2>1. h \in Seq(Byte) /\ l \in Seq(Byte) /\ a = h \o l
        BY <1>3, <1>4
  <2> HIDE DEF a
  <2> QED BY <2>1, Joined
<1> HIDE DEF a
<1>7. /\ Len(a) = 6
      /\ a[1] = UBX_SYNC_1 /\ a[2] = UBX_SYNC_2 /\ a[3] = class /\ a[4] = id
      /\ a[5] = Digit(n, 0) /\ a[6] = Digit(n, 1)
  <2>1. \A j \in 1 .. 4 : a[j] = h[j]
        BY <1>3, <1>6
  <2>2. \A j \in 1 .. 2 : a[4 + j] = l[j]
        BY <1>3, <1>4, <1>6
  <2>3. Len(a) = 6
    <3>1. Len(a) = Len(h) + Len(l) /\ Len(h) = 4 /\ Len(l) = 2
          BY <1>3, <1>4, <1>6, Zenon
    <3> QED BY <3>1
  <2>4. a[4 + 1] = l[1] /\ a[4 + 2] = l[2]
        BY <2>2
  <2>5. a[5] = l[1] /\ a[6] = l[2]
        BY <2>4
  <2>6. a[1] = h[1] /\ a[2] = h[2] /\ a[3] = h[3] /\ a[4] = h[4]
        BY <2>1
  <2> QED BY <1>3, <1>4, <2>3, <2>5, <2>6
<1>8. /\ b \in Seq(Byte) /\ Len(b) = Len(a) + Len(payload)
      /\ \A j \in 1 .. Len(a) : b[j] = a[j]
      /\ \A j \in 1 .. Len(payload) : b[Len(a) + j] = payload[j]
  <2>1. a \in Seq(Byte) /\ b = a \o payload
        BY <1>6
  <2> HIDE DEF b
  <2> QED BY <2>1, Joined
<1> HIDE DEF b
<1>9. /\ Len(b) = 6 + n
      /\ \A j \in 1 .. 6 : b[j] = a[j]
      /\ \A j \in 1 .. n : b[6 + j] = payload[j]
      BY <1>7, <1>8 DEF n
<1>10. /\ m \in Seq(Byte) /\ Len(m) = Len(b) + Len(z)
       /\ \A j \in 1 .. Len(b) : m[j] = b[j]
  <2>1. b \in Seq(Byte) /\ z \in Seq(Byte) /\ m = b \o z
        BY <1>5, <1>8
  <2> HIDE DEF m
  <2> QED BY <2>1, Joined
<1> HIDE DEF m
<1>11. /\ Len(m) = 8 + n
       /\ \A j \in 1 .. 6 : m[j] = a[j]
       /\ \A j \in 1 .. n : m[6 + j] = payload[j]
  <2>1. \A j \in 1 .. 6 + n : m[j] = b[j]
        BY <1>9, <1>10
  <2>2. \A j \in 1 .. 6 : m[j] = a[j]
        BY <1>1, <1>9, <2>1
  <2>3. ASSUME NEW j \in 1 .. n PROVE m[6 + j] = payload[j]
    <3>1. 6 + j \in 1 .. 6 + n
          BY <1>1
    <3> QED BY <1>9, <2>1, <3>1
  <2>4. Len(m) = 8 + n
        BY <1>1, <1>5, <1>9, <1>10
  <2> QED BY <2>2, <2>3, <2>4
<1>12. m[1] = a[1] /\ m[2] = a[2] /\ m[3] = a[3] /\ m[4] = a[4] /\ m[5] = a[5] /\ m[6] = a[6]
       BY <1>11
<1>13. Unsealed(class, id, payload) = m
       BY <1>4 DEF Unsealed, m, b, a, h, z, n
<1> QED BY <1>1, <1>7, <1>10, <1>11, <1>12, <1>13 DEF n

(* A message as the driver and the receiver build it *)
FramedAs(m, class, id, payload) ==
  LET n == Len(payload)
  IN  /\ m \in Seq(Byte) /\ n \in Nat /\ Len(m) = 8 + n
      /\ m[1] = UBX_SYNC_1 /\ m[2] = UBX_SYNC_2 /\ m[3] = class /\ m[4] = id
      /\ m[5] = Digit(n, 0) /\ m[6] = Digit(n, 1)
      /\ \A j \in 1 .. n : m[6 + j] = payload[j]
      /\ m[n + 7] = Checksum(m)[1] /\ m[n + 8] = Checksum(m)[2]
      /\ n < 65536 => verifyMsg(m)

(* set_checksum makes a sound message of them. *)
LEMMA Framed ==
  ASSUME NEW class \in Byte, NEW id \in Byte, NEW payload \in Seq(Byte)
  PROVE  FramedAs(set_checksum(Unsealed(class, id, payload)), class, id, payload)
<1> DEFINE u == Unsealed(class, id, payload)
           m == set_checksum(u)
           n == Len(payload)
<1>1. /\ u \in Seq(Byte) /\ n \in Nat /\ Len(u) = 8 + n
      /\ u[1] = UBX_SYNC_1 /\ u[2] = UBX_SYNC_2 /\ u[3] = class /\ u[4] = id
      /\ u[5] = Digit(n, 0) /\ u[6] = Digit(n, 1)
      /\ \A j \in 1 .. n : u[6 + j] = payload[j]
      BY Parts
<1> HIDE DEF u, n
<1>2. /\ m \in Seq(Byte) /\ Len(m) = Len(u)
      /\ \A j \in 1 .. Len(u) - 2 : m[j] = u[j]
      /\ check_checksum(m) /\ Checked(m) = Checked(u)
      /\ m[Len(u) - 1] = Checksum(u)[1] /\ m[Len(u)] = Checksum(u)[2]
  <2>1. u \in Seq(Byte) /\ Len(u) >= 8
        BY <1>1
  <2> QED BY <2>1, Sealed
<1> HIDE DEF m
<1>3. Len(m) = 8 + n /\ \A j \in 1 .. 6 + n : m[j] = u[j]
  <2>1. Len(u) - 2 = 6 + n
        BY <1>1
  <2> QED BY <1>1, <1>2, <2>1
<1>4. /\ m[1] = u[1] /\ m[2] = u[2] /\ m[3] = u[3] /\ m[4] = u[4] /\ m[5] = u[5] /\ m[6] = u[6]
  <2>1. 1 \in 1 .. 6 + n /\ 2 \in 1 .. 6 + n /\ 3 \in 1 .. 6 + n
        /\ 4 \in 1 .. 6 + n /\ 5 \in 1 .. 6 + n /\ 6 \in 1 .. 6 + n
        BY <1>1
  <2> QED BY <1>3, <2>1
<1>5. ASSUME NEW j \in 1 .. n PROVE m[6 + j] = payload[j]
  <2>1. 6 + j \in 1 .. 6 + n
        BY <1>1
  <2> QED BY <1>1, <1>3, <2>1
<1>6. m[n + 7] = Checksum(m)[1] /\ m[n + 8] = Checksum(m)[2]
  <2>1. Len(u) - 1 = n + 7 /\ Len(u) = n + 8
        BY <1>1
  <2>2. Checksum(m) = Checksum(u)
        BY <1>2, ChecksumIs
  <2> QED BY <1>2, <2>1, <2>2
<1>7. ASSUME n < 65536 PROVE verifyMsg(m)
  <2>1. PayloadLength(m) = n
    <3>1. Digit(n, 0) + 256 * Digit(n, 1) = n
          BY <1>1, <1>7, TwoBytes
    <3> QED BY <1>1, <1>4, <3>1 DEF PayloadLength
  <2>2. Len(m) >= 6 + 2 /\ Len(m) = n + 6 + 2
        BY <1>1, <1>3
  <2>3. m[1] = UBX_SYNC_1 /\ m[2] = UBX_SYNC_2
        BY <1>1, <1>4
  <2> QED BY <1>2, <2>1, <2>2, <2>3 DEF verifyMsg, kUbxMsgHeaderLen
<1>8. FramedAs(m, class, id, payload)
      BY <1>1, <1>2, <1>3, <1>4, <1>5, <1>6, <1>7 DEF FramedAs, n
<1> QED BY <1>8 DEF m, u

-----------------------------------------------------------------------------
(* ReadPairs *)
ReadPairsStep(m, f, o) ==
  LET end == Len(m) - 2
  IN IF o + 4 > end THEN [ok |-> o = end, pairs |-> <<>>]
     ELSE LET key  == Number(SubSeq(m, o + 1, o + 4))
              next == o + 4 + KeyWidth[key]
          IN IF key \notin DOMAIN KeyWidth \/ next > end THEN [ok |-> FALSE, pairs |-> <<>>]
             ELSE [ok |-> f[next].ok,
                   pairs |-> <<<<key, SubSeq(m, o + 5, next)>>>> \o f[next].pairs]

ReadOf(m) == CHOOSE f : f = [o \in 0 .. Len(m) - 2 |-> ReadPairsStep(m, f, o)]

LEMMA ReadPairsIs ==
  ASSUME NEW m
  PROVE  ReadPairs(m) = ReadOf(m)[10]
<1>1. ReadPairs(m) = ReadOf(m)[kUbxMsgHeaderLen + 4]
      BY Zenon DEF ReadPairs, ReadOf, ReadPairsStep
<1>2. kUbxMsgHeaderLen + 4 = 10
      BY DEF kUbxMsgHeaderLen
<1> QED BY <1>1, <1>2

(* ReadPairs is such a walk. *)
LEMMA ReadWalks ==
  ASSUME NEW m, NEW f, NEW o \in 0 .. Len(m) - 2, Len(m) \in Nat
  PROVE  ReadPairsStep(m, f, o)
           = WalkStep(f, Len(m) - 2, ReadStops(m), ReadHeads(m), Nexts(m, Len(m) - 2), o)
<1> DEFINE n == Len(m) - 2
           k == KeyAt(m, o)
           e == NextAt(m, o)
           h == <<k, SubSeq(m, o + 5, e)>>
           w == o + 4 + KeyWidth[k]
           v == <<k, SubSeq(m, o + 5, w)>>
<1>1. o \in ReadStops(m) <=> o + 4 > n \/ k \notin DOMAIN KeyWidth \/ e > n
      BY DEF ReadStops
<1>2. Nexts(m, n)[o] = e /\ ReadHeads(m)[o] = h
      BY DEF Nexts, ReadHeads
<1>3. ReadPairsStep(m, f, o) =
        IF o + 4 > n THEN [ok |-> o = n, pairs |-> <<>>]
        ELSE IF k \notin DOMAIN KeyWidth \/ w > n THEN [ok |-> FALSE, pairs |-> <<>>]
        ELSE [ok |-> f[w].ok, pairs |-> <<v>> \o f[w].pairs]
      BY Zenon DEF ReadPairsStep, KeyAt
<1>4. k \in DOMAIN KeyWidth => w = e
      BY WidthsAgree DEF NextAt
<1>5. k \in DOMAIN KeyWidth => v = h
      BY <1>4
<1>6. n \in Int /\ o \in Int /\ (o + 4 > n \/ ~(o + 4 > n)) /\ (~(o + 4 > n) => FALSE = (o = n))
      OBVIOUS
<1> HIDE DEF h, v, e, w, n, k
<1>7. CASE o + 4 > n
      BY <1>1, <1>3, <1>7 DEF WalkStep, n
<1>8. CASE ~(o + 4 > n) /\ (k \notin DOMAIN KeyWidth \/ e > n)
  <2>1. FALSE = (o = n)
        BY <1>6, <1>8
  <2>2. k \notin DOMAIN KeyWidth \/ w > n
        BY <1>4, <1>8
  <2>3. ReadPairsStep(m, f, o) = [ok |-> o = n, pairs |-> <<>>]
        BY <1>3, <1>8, <2>1, <2>2
  <2>4. o \in ReadStops(m)
        BY <1>1, <1>8
  <2> QED BY <2>3, <2>4 DEF WalkStep, n
<1>9. CASE ~(o + 4 > n) /\ k \in DOMAIN KeyWidth /\ ~(e > n)
  <2>1. w = e /\ v = h
        BY <1>4, <1>5, <1>9
  <2>2. ReadPairsStep(m, f, o) = [ok |-> f[e].ok, pairs |-> <<h>> \o f[e].pairs]
        BY <1>3, <1>9, <2>1
  <2>3. o \notin ReadStops(m)
        BY <1>1, <1>9
  <2> QED BY <1>2, <2>2, <2>3 DEF WalkStep, n
<1> QED BY <1>6, <1>7, <1>8, <1>9

LEMMA ReadSteps ==
  ASSUME NEW m \in Seq(Byte), Len(m) >= 2
  PROVE  IsWalk(ReadOf(m), Len(m) - 2, ReadStops(m), ReadHeads(m), Nexts(m, Len(m) - 2))
<1> DEFINE n == Len(m) - 2
           stop == ReadStops(m)
           head == ReadHeads(m)
           next == Nexts(m, n)
<1>1. Len(m) \in Nat /\ n \in Nat /\ n <= Len(m)
  <2>1. Len(m) \in Nat
        BY LenProperties
  <2> QED BY <2>1
<1>2. \A o \in (0 .. n) \ stop : next[o] \in o + 1 .. n
  <2> TAKE o \in (0 .. n) \ stop
  <2>1. ~(o + 4 > n) /\ ~(NextAt(m, o) > n)
        BY DEF ReadStops
  <2>2. o \in Nat /\ o + 4 <= n /\ o + 4 <= Len(m)
    <3> HIDE DEF n
    <3> QED BY <1>1, <2>1
  <2>3. NextAt(m, o) \in Nat /\ NextAt(m, o) > o + 4
        BY <2>2, NextLater
  <2>4. next[o] = NextAt(m, o)
        BY DEF Nexts
  <2> HIDE DEF n
  <2> QED BY <1>1, <2>1, <2>2, <2>3, <2>4
<1>3. GoesOn(n, stop, next)
      BY <1>2 DEF GoesOn
<1>4. ASSUME NEW f
      PROVE  [o \in 0 .. n |-> ReadPairsStep(m, f, o)] = [o \in 0 .. n |-> WalkStep(f, n, stop, head, next, o)]
  <2>1. \A o \in 0 .. n : ReadPairsStep(m, f, o) = WalkStep(f, n, stop, head, next, o)
        BY <1>1, ReadWalks
  <2> HIDE DEF n, stop, head, next
  <2> QED BY <2>1
<1> HIDE DEF n, stop, head, next
<1>5. PICK f : IsWalk(f, n, stop, head, next)
      BY <1>1, <1>3, WalkExists
<1>6. f = [o \in 0 .. n |-> ReadPairsStep(m, f, o)]
      BY <1>4, <1>5, Zenon DEF IsWalk
<1>7. ReadOf(m) = [o \in 0 .. n |-> ReadPairsStep(m, ReadOf(m), o)]
      BY <1>6, Zenon DEF ReadOf, n
<1>8. IsWalk(ReadOf(m), n, stop, head, next)
      BY <1>4, <1>7, Zenon DEF IsWalk
<1> QED BY <1>8 DEF n, stop, head, next

(* Where a message has pairs up to its checksum, the receiver reads these  *)
(* pairs, if it has all their keys, and nothing otherwise.                 *)
LEMMA ReadGood ==
  ASSUME NEW m \in Seq(Byte), Len(m) >= 2, NEW pairs \in Seq(Nat \X Seq(Byte)),
         \A i \in 1 .. Len(pairs) : IsPair(pairs[i]),
         NEW at, at[0] = 10, at[Len(pairs)] = Len(m) - 2, PairsAt(pairs, m, at)
  PROVE  /\ (\A i \in 1 .. Len(pairs) : pairs[i][1] \in DOMAIN KeyWidth)
              => ReadPairs(m).ok = TRUE /\ ReadPairs(m).pairs = pairs
         /\ ReadPairs(m).ok = TRUE => \A i \in 1 .. Len(pairs) : pairs[i][1] \in DOMAIN KeyWidth
<1> DEFINE n == Len(m) - 2
           k == Len(pairs)
           f == ReadOf(m)
           stop == ReadStops(m)
           head == ReadHeads(m)
           next == Nexts(m, n)
<1>1. n \in Nat /\ k \in Nat
  <2>1. Len(m) \in Nat /\ Len(pairs) \in Nat
        BY LenProperties
  <2> QED BY <2>1
<1>2. ASSUME NEW i \in 1 .. k PROVE FoundAs(m, at[i - 1], at[i], pairs[i])
      BY <1>1, OnPath
<1>3. \A i \in 0 .. k : at[i] \in 0 .. n
  <2>1. at[0] \in Nat
        OBVIOUS
  <2> DEFINE T == {j \in Nat : j <= k => at[k - j] \in Nat /\ at[k - j] <= n}
  <2>2. 0 \in T
    <3>1. k - 0 = k /\ at[k] = n
          BY <1>1
    <3> HIDE DEF n, k
    <3> QED BY <1>1, <3>1
  <2>3. ASSUME NEW j \in T PROVE j + 1 \in T
    <3>0. j \in Nat /\ (j <= k => at[k - j] \in Nat /\ at[k - j] <= n)
          OBVIOUS
    <3> HIDE DEF T
    <3>1. ASSUME j + 1 <= k PROVE at[k - (j + 1)] \in Nat /\ at[k - (j + 1)] <= n
      <4> DEFINE i == k - j
      <4>1. i \in 1 .. k /\ k - (j + 1) = i - 1 /\ j <= k
        <5> HIDE DEF k
        <5> QED BY <1>1, <3>0, <3>1
      <4>2. FoundAs(m, at[i - 1], at[i], pairs[i])
            BY <1>2, <4>1
      <4> DEFINE a == at[i - 1]
                 b == at[i]
      <4>3. a \in Nat /\ b \in Nat /\ a + 4 < b
            BY <4>2 DEF FoundAs
      <4>4. b <= n
            BY <3>0, <4>1
      <4>5. at[k - (j + 1)] = a
            BY <4>1
      <4> HIDE DEF n, a, b
      <4>6. a \in Nat /\ a <= n
            BY <1>1, <4>3, <4>4
      <4> QED BY <4>5, <4>6
    <3> HIDE DEF n, k
    <3> QED BY <3>0, <3>1 DEF T
  <2>4. T = Nat
    <3> HIDE DEF T
    <3>1. T \in SUBSET Nat
          BY DEF T
    <3> QED BY <2>2, <2>3, <3>1, InductiveSet
  <2>5. ASSUME NEW i \in 0 .. k PROVE at[i] \in 0 .. n
    <3>1. k - i \in Nat /\ k - i <= k /\ k - (k - i) = i
      <4> HIDE DEF k
      <4> QED BY <1>1
    <3>2. \A j \in Nat : j <= k => at[k - j] \in Nat /\ at[k - j] <= n
          BY <2>4
    <3> HIDE DEF n, k, T
    <3>3. at[k - (k - i)] \in Nat /\ at[k - (k - i)] <= n
          BY <3>1, <3>2
    <3> QED BY <1>1, <3>1, <3>3
  <2> QED BY <2>5
<1>4. ASSUME NEW i \in 1 .. k
      PROVE  /\ at[i - 1] \in stop <=> pairs[i][1] \notin DOMAIN KeyWidth
             /\ next[at[i - 1]] = at[i] /\ head[at[i - 1]] = <<pairs[i][1], pairs[i][2]>>
             /\ at[i - 1] # n
  <2> DEFINE o == at[i - 1]
             e == at[i]
  <2>1. /\ o \in Nat /\ e \in Nat /\ o + 4 < e
        /\ KeyAt(m, o) = pairs[i][1] /\ NextAt(m, o) = e
        /\ SubSeq(m, o + 5, e) = pairs[i][2]
        BY <1>2 DEF FoundAs
  <2>2. o \in 0 .. n /\ e \in 0 .. n
    <3>1. i \in 0 .. k /\ i - 1 \in 0 .. k
          BY <1>1
    <3> QED BY <1>3, <3>1
  <2> HIDE DEF o, e, n
  <2>3. ~(o + 4 > n) /\ ~(e > n) /\ o # n
        BY <1>1, <2>1, <2>2
  <2>4. o \in stop <=> pairs[i][1] \notin DOMAIN KeyWidth
        BY <2>1, <2>2, <2>3 DEF ReadStops, n
  <2>5. next[o] = e
        BY <2>1, <2>2 DEF Nexts
  <2>6. head[o] = <<pairs[i][1], pairs[i][2]>>
        BY <2>1, <2>2 DEF ReadHeads, n
  <2> QED BY <2>3, <2>4, <2>5, <2>6 DEF o, e
<1>5. IsWalk(f, n, stop, head, next)
      BY ReadSteps
<1>6. n \in stop
  <2>1. n + 4 > n /\ n \in 0 .. n
    <3> HIDE DEF n
    <3> QED BY <1>1
  <2> QED BY <2>1 DEF ReadStops
<1>7. ReadPairs(m) = f[10] /\ at[0] = 10 /\ at[k] = n
      BY ReadPairsIs
<1>8. [i \in 1 .. k |-> <<pairs[i][1], pairs[i][2]>>] = pairs
  <2>1. \A i \in 1 .. k : pairs[i] = <<pairs[i][1], pairs[i][2]>>
    <3> TAKE i \in 1 .. k
    <3>1. pairs[i] \in Nat \X Seq(Byte)
          BY ElementOfSeq
    <3> QED BY <3>1
  <2> QED BY <2>1
<1> HIDE DEF n, k, f, stop, head, next
<1>9. ASSUME \A i \in 1 .. k : pairs[i][1] \in DOMAIN KeyWidth
      PROVE  ReadPairs(m).ok = TRUE /\ ReadPairs(m).pairs = pairs
  <2>1. Path(n, stop, next, k, at)
        BY <1>3, <1>4, <1>6, <1>7, <1>9 DEF Path
  <2>2. ReadsAlong(f, head, at, k)
        BY <1>1, <1>5, <2>1, WalkAlong
  <2>3. f[at[0]].ok = TRUE /\ f[at[0]].pairs = Along(head, at, k)
        BY <2>2, Zenon DEF ReadsAlong
  <2>4. Along(head, at, k) = [i \in 1 .. k |-> <<pairs[i][1], pairs[i][2]>>]
        BY <1>4 DEF Along
  <2> QED BY <1>7, <1>8, <2>3, <2>4
<1>10. ASSUME ReadPairs(m).ok = TRUE
       PROVE  \A i \in 1 .. k : pairs[i][1] \in DOMAIN KeyWidth
  <2>1. Route(n, stop, next, k, at)
        BY <1>3, <1>4 DEF Route
  <2>2. f[at[0]].ok = TRUE
        BY <1>7, <1>10
  <2>3. \A i \in 1 .. k : at[i - 1] \notin stop
        BY <1>1, <1>5, <2>1, <2>2, WalkPassed
  <2> QED BY <1>4, <2>3
<1> QED BY <1>9, <1>10 DEF k

-----------------------------------------------------------------------------
(* The pairs of an encoding keep their places when it is part of a message *)
Carries(m, d, e) == d + Len(e) <= Len(m) /\ \A j \in 1 .. Len(e) : m[d + j] = e[j]
ArePairs(pairs) == \A i \in 1 .. Len(pairs) : IsPair(pairs[i])
ShiftedBy(at, d, k) == [i \in 0 .. k |-> d + at[i]]

LEMMA OffsetMoved ==
  ASSUME NEW d \in Nat, NEW o \in Nat, NEW n \in Nat, NEW s \in Nat, NEW l \in Nat,
         s + l <= n - o, NEW j \in 1 .. l
  PROVE  o + s + j \in 1 .. n /\ d + (o + s + j) = d + o + s + j
OBVIOUS

LEMMA PairsMoved ==
  ASSUME NEW e \in Seq(Byte), NEW pairs, Len(pairs) \in Nat, NEW at, PairsAt(pairs, e, at),
         ArePairs(pairs), NEW m \in Seq(Byte), NEW d \in Nat, Carries(m, d, e)
  PROVE  PairsAt(pairs, m, ShiftedBy(at, d, Len(pairs)))
<1> DEFINE k == Len(pairs)
           to == ShiftedBy(at, d, k)
<1>1. /\ Len(e) \in Nat /\ Len(m) \in Nat /\ d + Len(e) <= Len(m)
      /\ \A j \in 1 .. Len(e) : m[d + j] = e[j]
      BY LenProperties DEF Carries
<1>2. \A i \in 0 .. k : at[i] \in Nat /\ at[i] <= Len(e)
      BY DEF PairsAt
<1>3. \A i \in 0 .. k : to[i] = d + at[i]
      BY DEF ShiftedBy
<1> HIDE DEF to
<1>4. ASSUME NEW i \in 0 .. k PROVE to[i] \in Nat /\ to[i] <= Len(m)
  <2>1. at[i] \in Nat /\ at[i] <= Len(e) /\ to[i] = d + at[i]
        BY <1>2, <1>3
  <2> QED BY <1>1, <2>1
<1>5. ASSUME NEW i \in 1 .. k
      PROVE  to[i] = to[i - 1] + 4 + GetValueByteCount(pairs[i][1]) /\ WrittenAt(pairs[i], m, to[i - 1])
  <2> DEFINE o == at[i - 1]
             q == at[i]
             p == pairs[i]
             b == GetValueByteCount(p[1])
             l == Len(p[2])
  <2>1. i \in 0 .. k /\ i - 1 \in 0 .. k
        OBVIOUS
  <2>2. /\ o \in Nat /\ q \in Nat /\ q <= Len(e)
        /\ to[i] = d + q /\ to[i - 1] = d + o
        BY <1>2, <1>3, <2>1
  <2>3. q = o + 4 + b /\ WrittenAt(p, e, o)
        BY DEF PairsAt
  <2>4. IsPair(p)
        BY DEF ArePairs
  <2> HIDE DEF o, q, p
  <2>5. p[1] \in Nat /\ p[2] \in Seq(Byte) /\ l = b
        BY <2>4 DEF IsPair
  <2>6. b \in Nat /\ l \in Nat
        BY <2>5, ByteCounts
  <2>7. /\ o + 4 + l <= Len(e)
        /\ \A j \in 1 .. 4 : e[o + j] = LittleEndian(p[1], 4)[j]
        /\ \A j \in 1 .. l : e[o + 4 + j] = p[2][j]
        BY <2>3 DEF WrittenAt
  <2> HIDE DEF b, l
  <2>8. d + q = d + o + 4 + b /\ d + o + 4 + l <= Len(m)
        BY <1>1, <2>2, <2>3, <2>6, <2>7
  <2>9. ASSUME NEW j \in 1 .. 4 PROVE m[d + o + j] = LittleEndian(p[1], 4)[j]
    <3>1. o + j \in 1 .. Len(e) /\ d + (o + j) = d + o + j
      <4>1. 0 + 4 <= Len(e) - o
            BY <1>1, <2>2, <2>6, <2>7
      <4>2. o + 0 + j \in 1 .. Len(e) /\ d + (o + 0 + j) = d + o + 0 + j
            BY <1>1, <2>2, <4>1, OffsetMoved
      <4>3. o + 0 = o /\ d + o + 0 = d + o
            BY <2>2
      <4> QED BY <4>2, <4>3
    <3>2. m[d + (o + j)] = e[o + j]
          BY <1>1, <3>1
    <3> QED BY <2>7, <3>1, <3>2
  <2>10. ASSUME NEW j \in 1 .. l PROVE m[d + o + 4 + j] = p[2][j]
    <3>1. o + 4 + j \in 1 .. Len(e) /\ d + (o + 4 + j) = d + o + 4 + j
      <4>1. 4 + l <= Len(e) - o
            BY <1>1, <2>2, <2>6, <2>7
      <4> QED BY <1>1, <2>2, <2>6, <4>1, OffsetMoved
    <3>2. m[d + (o + 4 + j)] = e[o + 4 + j]
          BY <1>1, <3>1
    <3> QED BY <2>7, <3>1, <3>2
  <2>11. WrittenAt(p, m, d + o)
        BY <2>8, <2>9, <2>10 DEF WrittenAt, l
  <2> QED BY <2>2, <2>8, <2>11 DEF p, b
<1>6. PairsAt(pairs, m, to)
      BY <1>4, <1>5 DEF PairsAt
<1> QED BY <1>6 DEF to

(* What build_config_msg makes of the pairs *)
BuiltOf(m, pairs) ==
  /\ m \in Seq(Byte) /\ Len(m) = 12 + Len(Encoded(pairs))
  /\ ClassAndId(m) = <<\h06, \h8A>>
  /\ \A j \in 1 .. Len(Encoded(pairs)) : m[10 + j] = Encoded(pairs)[j]
  /\ Len(m) <= kReceiverConfigBufferCapacity => verifyMsg(m)

(* The message has the class and the id of CFG-VALSET, the encoding behind *)
(* its first ten bytes, and is sound.                                      *)
LEMMA BuiltIs ==
  ASSUME NEW pairs, Encoded(pairs) \in Seq(Byte)
  PROVE  BuiltOf(Built(pairs), pairs)
<1> DEFINE e == Encoded(pairs)
           z == <<0, 1, 0, 0>>
           p == z \o e
           c == 6
           d == 138
           m == set_checksum(Unsealed(c, d, p))
<1>1. e \in Seq(Byte) /\ Len(e) \in Nat
      BY LenProperties
<1>2. 0 \in Byte /\ 1 \in Byte /\ c \in Byte /\ d \in Byte
      BY DEF Byte
<1>3. z \in Seq(Byte) /\ Len(z) = 4
      BY <1>2, ShortSequences
<1>4. Built(pairs) = m
      BY DEF Built, Unsealed
<1> HIDE DEF e, z, c, d
<1>5. /\ p \in Seq(Byte) /\ Len(p) = Len(z) + Len(e)
      /\ \A j \in 1 .. Len(e) : p[Len(z) + j] = e[j]
  <2>1. z \in Seq(Byte) /\ e \in Seq(Byte) /\ p = z \o e
        BY <1>1, <1>3
  <2> HIDE DEF p
  <2> QED BY <2>1, Joined
<1> HIDE DEF p
<1>6. Len(p) = 4 + Len(e) /\ \A j \in 1 .. Len(e) : p[4 + j] = e[j]
      BY <1>3, <1>5
<1>7. /\ m \in Seq(Byte) /\ Len(m) = 8 + Len(p)
      /\ m[3] = c /\ m[4] = d
      /\ \A j \in 1 .. Len(p) : m[6 + j] = p[j]
      /\ Len(p) < 65536 => verifyMsg(m)
  <2>1. FramedAs(m, c, d, p)
        BY <1>2, <1>5, Framed
  <2> HIDE DEF m
  <2> QED BY <2>1 DEF FramedAs
<1> HIDE DEF m
<1>8. Len(m) = 12 + Len(e)
      BY <1>1, <1>6, <1>7
<1>9. ASSUME NEW j \in 1 .. Len(e) PROVE m[10 + j] = e[j]
  <2>1. 4 + j \in 1 .. Len(p) /\ 6 + (4 + j) = 10 + j
        BY <1>1, <1>6
  <2>2. m[6 + (4 + j)] = p[4 + j]
        BY <1>7, <2>1
  <2> QED BY <1>6, <2>1, <2>2
<1>10. ClassAndId(m) = <<\h06, \h8A>>
       BY <1>7 DEF ClassAndId, c, d
<1>11. ASSUME Len(m) <= kReceiverConfigBufferCapacity PROVE verifyMsg(m)
  <2>1. Len(p) < 65536
    <3>1. Len(m) <= 8192
          BY <1>11 DEF kReceiverConfigBufferCapacity
    <3> QED BY <1>1, <1>6, <1>8, <3>1
  <2> QED BY <1>7, <2>1
<1>12. BuiltOf(m, pairs)
       BY <1>7, <1>8, <1>9, <1>10, <1>11 DEF BuiltOf, e
<1> QED BY <1>4, <1>12

(* The receiver reads out of the message what was written into it. *)
LEMMA BuiltUnderstood ==
  ASSUME NEW pairs \in Seq(Nat \X Seq(Byte)), \A i \in 1 .. Len(pairs) : IsPair(pairs[i]),
         Len(Built(pairs)) <= kReceiverConfigBufferCapacity
  PROVE  /\ Understood(Built(pairs)) <=> \A i \in 1 .. Len(pairs) : pairs[i][1] \in DOMAIN KeyWidth
         /\ Understood(Built(pairs)) => PairsRead(Built(pairs)) = pairs
<1> DEFINE e == Encoded(pairs)
           m == Built(pairs)
           k == Len(pairs)
           All == \A i \in 1 .. k : pairs[i][1] \in DOMAIN KeyWidth
<1>1. e \in Seq(Byte) /\ Len(e) \in Nat /\ k \in Nat
      BY EncodedPairs, LenProperties
<1>2. PICK at : at[0] = 0 /\ at[k] = Len(e) /\ PairsAt(pairs, e, at)
      BY EncodedPairs
<1>3. BuiltOf(m, pairs)
      BY <1>1, BuiltIs
<1> HIDE DEF m
<1>4. /\ m \in Seq(Byte) /\ Len(m) = 12 + Len(e) /\ ClassAndId(m) = <<\h06, \h8A>>
      /\ \A j \in 1 .. Len(e) : m[10 + j] = e[j]
      /\ verifyMsg(m)
      BY <1>3 DEF BuiltOf, m
<1> HIDE DEF e
<1> DEFINE to == ShiftedBy(at, 10, k)
<1>5. PairsAt(pairs, m, to)
  <2>1. Carries(m, 10, e)
        BY <1>1, <1>4 DEF Carries
  <2>2. ArePairs(pairs)
        BY DEF ArePairs
  <2> QED BY <1>1, <1>2, <1>4, <2>1, <2>2, PairsMoved
<1>6. to[0] = 10 /\ to[k] = Len(m) - 2
  <2>1. to[0] = 10 + at[0] /\ to[k] = 10 + at[k]
        BY <1>1 DEF ShiftedBy
  <2> HIDE DEF to
  <2> QED BY <1>1, <1>2, <1>4, <2>1
<1> HIDE DEF to
<1>7. /\ All => ReadPairs(m).ok = TRUE /\ ReadPairs(m).pairs = pairs
      /\ ReadPairs(m).ok = TRUE => All
  <2>1. Len(m) >= 2
        BY <1>1, <1>4
  <2> QED BY <1>4, <1>5, <1>6, <2>1, ReadGood
<1>8. Understood(m) <=> ReadPairs(m).ok
      BY <1>4 DEF Understood
<1>9. PairsRead(m) = ReadPairs(m).pairs
      BY DEF PairsRead
<1>10. Understood(m) <=> All
      BY <1>7, <1>8
<1>11. Understood(m) => PairsRead(m) = pairs
      BY <1>7, <1>9, <1>10
<1> QED BY <1>10, <1>11 DEF m

-----------------------------------------------------------------------------
(*                   The message says what the file says                   *)

-----------------------------------------------------------------------------
(* What the records say of the file *)
Ask == (Nat \X Seq(Byte)) \cup {Anything}
Record == {Raw(key, value) : key \in Nat, value \in Seq(Byte)} \cup {Named(entry) : entry \in Entries}

Says(r, ask) ==
  /\ ~Stops(r)
  /\ Pair(r) \in Nat \X Seq(Byte) /\ IsPair(Pair(r))
  /\ ask \in {Pair(r), Anything}

Say(group, asks) ==
  /\ group \in Seq(Record) /\ asks \in Seq(Ask)
  /\ Len(group) = Len(asks)
  /\ \A i \in 1 .. Len(group) : Says(group[i], asks[i])

(* They say what the file asks for, each record one thing in its turn; or  *)
(* the file is damaged, and then one of them stops the message.            *)
RecordsSay(recs, askeds, bad) ==
  /\ recs \in Seq(Record) /\ askeds \in Seq(Seq(Ask))
  /\ IF bad THEN \E i \in 1 .. Len(recs) : Stops(recs[i])
     ELSE Say(recs, FlattenSeq(askeds))

LEMMA SayNothing == RecordsSay(<<>>, <<>>, FALSE)
<1>1. <<>> \in Seq(Record) /\ <<>> \in Seq(Ask) /\ <<>> \in Seq(Seq(Ask)) /\ Len(<<>>) = 0
      BY EmptySeq
<1>2. FlattenSeq(<<>>) = <<>>
      BY FlattenEmpty
<1>3. Say(<<>>, <<>>)
      BY <1>1 DEF Say
<1> QED BY <1>1, <1>2, <1>3 DEF RecordsSay

(* What one group of records says and what the next says *)
LEMMA SayMore ==
  ASSUME NEW g, NEW a, Say(g, a), NEW h, NEW b, Say(h, b)
  PROVE  Say(g \o h, a \o b)
<1>1. /\ g \in Seq(Record) /\ h \in Seq(Record) /\ a \in Seq(Ask) /\ b \in Seq(Ask)
      /\ Len(g) = Len(a) /\ Len(h) = Len(b)
      /\ \A i \in 1 .. Len(g) : Says(g[i], a[i])
      /\ \A i \in 1 .. Len(h) : Says(h[i], b[i])
      BY DEF Say
<1> DEFINE m == Len(g)
           n == Len(h)
           u == g \o h
           v == a \o b
<1>2. m \in Nat /\ n \in Nat
      BY <1>1, LenProperties
<1>3. /\ u \in Seq(Record) /\ Len(u) = m + n
      /\ \A i \in 1 .. m + n : u[i] = IF i <= m THEN g[i] ELSE h[i - m]
      BY <1>1, ConcatProperties
<1>4. /\ v \in Seq(Ask) /\ Len(v) = m + n
      /\ \A i \in 1 .. m + n : v[i] = IF i <= m THEN a[i] ELSE b[i - m]
      BY <1>1, ConcatProperties
<1> HIDE DEF m, n, u, v
<1>5. ASSUME NEW i \in 1 .. m + n PROVE Says(u[i], v[i])
  <2>1. CASE i <= m
    <3>1. i \in 1 .. m
          BY <2>1
    <3> QED BY <1>1, <1>3, <1>4, <2>1, <3>1 DEF m
  <2>2. CASE ~(i <= m)
    <3>1. i - m \in 1 .. n
          BY <1>2, <2>2
    <3>2. u[i] = h[i - m] /\ v[i] = b[i - m]
          BY <1>3, <1>4, <2>2
    <3>3. Says(h[i - m], b[i - m])
          BY <1>1, <3>1 DEF n
    <3> QED BY <3>2, <3>3
  <2> QED BY <2>1, <2>2
<1> QED BY <1>3, <1>4, <1>5 DEF Say, u, v

(* A line or an entry that is not damaged goes on saying what is asked. *)
LEMMA SayGroup ==
  ASSUME NEW recs, NEW askeds, NEW bad, RecordsSay(recs, askeds, bad), NEW g, NEW a, Say(g, a)
  PROVE  RecordsSay(recs \o g, Append(askeds, a), bad)
<1>1. recs \in Seq(Record) /\ askeds \in Seq(Seq(Ask)) /\ g \in Seq(Record) /\ a \in Seq(Ask)
      BY DEF RecordsSay, Say
<1>2. Append(askeds, a) \in Seq(Seq(Ask)) /\ FlattenSeq(Append(askeds, a)) = FlattenSeq(askeds) \o a
      BY <1>1, AppendProperties, FlattenAppend
<1>3. /\ recs \o g \in Seq(Record) /\ Len(recs) \in Nat /\ Len(g) \in Nat
      /\ Len(recs \o g) = Len(recs) + Len(g)
      /\ \A i \in 1 .. Len(recs) : (recs \o g)[i] = recs[i]
  <2>1. /\ recs \o g \in Seq(Record) /\ Len(recs \o g) = Len(recs) + Len(g)
        /\ \A i \in 1 .. Len(recs) + Len(g) : (recs \o g)[i] = IF i <= Len(recs) THEN recs[i] ELSE g[i - Len(recs)]
        BY <1>1, ConcatProperties
  <2>2. Len(recs) \in Nat /\ Len(g) \in Nat
        BY <1>1, LenProperties
  <2> QED BY <2>1, <2>2
<1>4. CASE bad
  <2>1. PICK i \in 1 .. Len(recs) : Stops(recs[i])
        BY <1>4 DEF RecordsSay
  <2>2. i \in 1 .. Len(recs \o g) /\ (recs \o g)[i] = recs[i]
        BY <1>3
  <2>3. Stops((recs \o g)[i])
        BY <2>1, <2>2
  <2> QED BY <1>2, <1>3, <1>4, <2>2, <2>3 DEF RecordsSay
<1>5. CASE ~bad
  <2>1. Say(recs, FlattenSeq(askeds))
        BY <1>5 DEF RecordsSay
  <2>2. Say(recs \o g, FlattenSeq(askeds) \o a)
        BY <2>1, SayMore
  <2> QED BY <1>2, <1>3, <1>5, <2>2 DEF RecordsSay
<1> QED BY <1>4, <1>5

(* One that is damaged leaves a record that stops the message. *)
LEMMA SayDamage ==
  ASSUME NEW recs, NEW askeds, NEW bad, RecordsSay(recs, askeds, bad),
         NEW r \in Record, Stops(r), NEW a \in Seq(Ask)
  PROVE  RecordsSay(Append(recs, r), Append(askeds, a), TRUE)
<1>1. recs \in Seq(Record) /\ askeds \in Seq(Seq(Ask))
      BY DEF RecordsSay
<1>2. Append(askeds, a) \in Seq(Seq(Ask))
      BY <1>1, AppendProperties
<1>3. /\ Append(recs, r) \in Seq(Record) /\ Len(recs) \in Nat
      /\ Len(Append(recs, r)) = Len(recs) + 1 /\ Append(recs, r)[Len(recs) + 1] = r
      BY <1>1, AppendProperties, LenProperties
<1>4. \E i \in 1 .. Len(Append(recs, r)) : Stops(Append(recs, r)[i])
  <2>1. Len(recs) + 1 \in 1 .. Len(Append(recs, r)) /\ Stops(Append(recs, r)[Len(recs) + 1])
        BY <1>3
  <2> QED BY <2>1
<1> QED BY <1>2, <1>3, <1>4 DEF RecordsSay

(* A line of a u-center file *)
LEMMA RawSays ==
  ASSUME NEW p \in Nat \X Seq(Byte), IsPair(p)
  PROVE  Raw(p[1], p[2]) \in Record /\ Says(Raw(p[1], p[2]), p) /\ p \in Ask
<1> DEFINE r == Raw(p[1], p[2])
<1>1. p[1] \in Nat /\ p[2] \in Seq(Byte) /\ p = <<p[1], p[2]>>
      OBVIOUS
<1>2. r \in Record
      BY <1>1 DEF Record
<1>3. r.raw = TRUE /\ r.key = p[1] /\ r.value = p[2]
      BY DEF Raw
<1> HIDE DEF r
<1>4. Pair(r) = p
      BY <1>1, <1>3 DEF Pair
<1>5. ~Stops(r)
      BY <1>3 DEF Stops
<1>6. Says(r, p)
      BY <1>4, <1>5 DEF Says
<1>7. p \in Ask
      BY DEF Ask
<1> QED BY <1>2, <1>6, <1>7 DEF r

LEMMA BytesOfLine ==
  ASSUME NEW line \in Lines, ~BytesRefused(line.tokens)
  PROVE  LET b == Numbers(line.tokens) IN
         /\ ParseHexBytes(line.tokens) = b /\ b \in Seq(Byte)
         /\ Len(b) = Len(line.tokens) /\ Len(b) \in Nat
<1> DEFINE t == line.tokens
           b == Numbers(t)
<1>1. t \in Seq([number : Nat \cup {Junk}, rest : STRING]) /\ Len(t) \in Nat
      BY LinesAssumption, LenProperties
<1>2. \A i \in 1 .. Len(t) : t[i].number \in Byte
      BY DEF BytesRefused, stoull
<1> HIDE DEF t
<1>3. b = [i \in 1 .. Len(t) |-> t[i].number]
      BY DEF Numbers
<1>4. ParseHexBytes(t) = b
      BY <1>3 DEF ParseHexBytes, stoull
<1> HIDE DEF b
<1>5. b \in Seq(Byte) /\ Len(b) = Len(t)
      BY <1>1, <1>2, <1>3
<1> QED BY <1>1, <1>4, <1>5 DEF t, b

(* The header of a line that is not refused is that of a dump. *)
LEMMA HeaderOfLine ==
  ASSUME NEW b \in Seq(Byte), ~FormatRefused(b)
  PROVE  /\ Len(b) >= 8 /\ Representable(Len(b) - 4, 2)
         /\ \E id \in {\h8A, \h8B} : SubSeq(b, 1, 4) = <<6, id>> \o LittleEndian(Len(b) - 4, 2)
<1>1. /\ Len(b) \in Nat /\ Len(b) >= 8 /\ b[1] = 6 /\ b[2] \in {138, 139}
      /\ Len(b) = b[3] + 256 * b[4] + 4
      BY LenProperties DEF FormatRefused
<1>2. b[1] \in Byte /\ b[2] \in Byte /\ b[3] \in Byte /\ b[4] \in Byte
  <2>1. \A i \in 1 .. Len(b) : b[i] \in Byte
        BY ElementOfSeq
  <2> QED BY <1>1, <2>1
<1> DEFINE n == Len(b) - 4
           x == b[3]
           y == b[4]
<1>4. x \in 0 .. 255 /\ y \in 0 .. 255 /\ n = x + 256 * y
  <2>1. x \in Byte /\ y \in Byte /\ Len(b) \in Nat /\ Len(b) = x + 256 * y + 4
        BY <1>1, <1>2
  <2> DEFINE l == Len(b)
  <2>2. x \in 0 .. 255 /\ y \in 0 .. 255 /\ l \in Nat /\ l = x + 256 * y + 4 /\ n = l - 4
        BY <2>1 DEF Byte
  <2> HIDE DEF l, n, x, y
  <2> QED BY <2>2
<1> HIDE DEF n, x, y
<1>5. n \in Nat /\ n % 256 = x /\ n \div 256 = y /\ y % 256 = y /\ n \div 1 = n
      BY <1>4, SMT
<1>6. Digit(n, 0) = x /\ Digit(n, 1) = y
      BY <1>5, Powers DEF Digit
<1>7. LittleEndian(n, 2) = <<x, y>>
  <2>1. n \in Int
        BY <1>5
  <2>2. LittleEndian(n, 2) = <<Digit(n, 0), Digit(n, 1)>>
        BY <2>1, WrittenDigits
  <2> QED BY <1>6, <2>2, Zenon
<1>8. Representable(n, 2)
  <2>1. 2 - 1 = 1 /\ 256 ^ 1 = 256
        BY Powers
  <2> QED BY <1>4, <1>5, <2>1 DEF Representable
<1> DEFINE i == b[2]
           q == SubSeq(b, 1, 4)
           r == <<6, i>> \o <<x, y>>
<1>9. q = r
  <2>1. q \in Seq(Byte) /\ Len(q) = 4 /\ \A k \in 1 .. 4 : q[k] = b[k]
    <3>1. \A k \in 1 .. 4 : b[k] \in Byte
          BY <1>2
    <3>2. 4 - 1 + 1 = 4 /\ \A k \in 1 .. 4 : 1 + k - 1 = k
          OBVIOUS
    <3> QED BY <3>1, <3>2, SubSeqProperties
  <2>2. 6 \in Byte /\ i \in Byte /\ x \in Byte /\ y \in Byte
        BY <1>2, <1>4 DEF Byte
  <2>3. r \in Seq(Byte) /\ Len(r) = 4 /\ r[1] = 6 /\ r[2] = i /\ r[3] = x /\ r[4] = y
    <3> HIDE DEF i
    <3>1. /\ <<6, i>> \in Seq(Byte) /\ Len(<<6, i>>) = 2 /\ <<6, i>>[1] = 6 /\ <<6, i>>[2] = i
          /\ <<x, y>> \in Seq(Byte) /\ Len(<<x, y>>) = 2 /\ <<x, y>>[1] = x /\ <<x, y>>[2] = y
          BY <2>2
    <3> QED BY <3>1, ConcatProperties
  <2>4. q[1] = r[1] /\ q[2] = r[2] /\ q[3] = r[3] /\ q[4] = r[4]
        BY <1>1, <2>1, <2>3 DEF x, y, i
  <2> HIDE DEF q, r
  <2>5. \A k \in 1 .. 4 : q[k] = r[k]
        BY <2>4
  <2> QED BY <2>1, <2>3, <2>5, SeqEqual
<1>10. SubSeq(b, 1, 4) = <<6, i>> \o LittleEndian(n, 2)
       BY <1>7, <1>9
<1> HIDE DEF i
<1>11. i \in {138, 139} /\ n = Len(b) - 4
       BY <1>1 DEF i, n
<1> QED BY <1>1, <1>8, <1>10, <1>11

(* The records of a line that is not refused say what it asks for. *)
LEMMA LineSays ==
  ASSUME NEW line \in Lines, ~Ignored(line), ~LineRefused(line)
  PROVE  ~line.damaged /\ Say(ParsePairs(Body(line)).pairs, line.asks)
<1> DEFINE b == Numbers(line.tokens)
<1>1. /\ ~BytesRefused(line.tokens) /\ ~FormatRefused(ParseHexBytes(line.tokens))
      /\ ParsePairs(Body(line)).ok
      BY DEF LineRefused
<1>2. /\ ParseHexBytes(line.tokens) = b /\ b \in Seq(Byte)
      /\ Len(b) = Len(line.tokens) /\ Len(b) \in Nat
      BY <1>1, BytesOfLine
<1> HIDE DEF b
<1>3. /\ Len(b) >= 8 /\ Representable(Len(b) - 4, 2)
      /\ \E id \in {\h8A, \h8B} : SubSeq(b, 1, 4) = <<6, id>> \o LittleEndian(Len(b) - 4, 2)
      BY <1>1, <1>2, HeaderOfLine
<1>11. Body(line) = SubSeq(b, 9, Len(b))
       BY <1>2 DEF Body
<1>12. Body(line) \in Seq(Byte)
  <2>1. \A i \in 9 .. Len(b) : b[i] \in Byte
        BY <1>2, ElementOfSeq
  <2> QED BY <1>2, <1>3, <1>11, <2>1, SubSeqProperties
<1>13. Divided(SubSeq(b, 9, Len(b)))
       BY <1>1, <1>11, <1>12, ParseSound
<1>14. IsDump(b)
       BY <1>2, <1>3, <1>13 DEF IsDump
<1>15. ~line.damaged
       BY <1>14, LinesAssumption DEF b
<1> DEFINE a == line.asks
           g == [i \in 1 .. Len(a) |-> Raw(a[i][1], a[i][2])]
<1>4. /\ a \in Seq(Nat \X Seq(Byte)) /\ \A i \in DOMAIN a : IsPair(a[i])
      /\ Body(line) = Encoded(a)
  <2>1. SubSeq(b, 9, Len(b)) = Encoded(a)
        BY <1>15, LinesAssumption DEF b
  <2> QED BY <1>11, <1>15, <2>1, LinesAssumption
<1> HIDE DEF a
<1>5. Len(a) \in Nat /\ DOMAIN a = 1 .. Len(a) /\ \A i \in 1 .. Len(a) : a[i] \in Nat \X Seq(Byte) /\ IsPair(a[i])
  <2>1. Len(a) \in Nat /\ DOMAIN a = 1 .. Len(a) /\ \A i \in 1 .. Len(a) : a[i] \in Nat \X Seq(Byte)
        BY <1>4, LenProperties, ElementOfSeq
  <2> QED BY <1>4, <2>1
<1>6. ParsePairs(Body(line)).pairs = g
      BY <1>4, <1>5, ParseGood
<1>7. \A i \in 1 .. Len(a) : g[i] \in Record /\ Says(g[i], a[i]) /\ a[i] \in Ask
  <2> TAKE i \in 1 .. Len(a)
  <2>1. g[i] = Raw(a[i][1], a[i][2])
        OBVIOUS
  <2>2. a[i] \in Nat \X Seq(Byte) /\ IsPair(a[i])
        BY <1>5
  <2> HIDE DEF g
  <2> QED BY <2>1, <2>2, RawSays
<1>8. g \in Seq(Record) /\ Len(g) = Len(a)
  <2>1. \A i \in 1 .. Len(a) : Raw(a[i][1], a[i][2]) \in Record
        BY <1>7
  <2> QED BY <1>5, <2>1
<1>9. a \in Seq(Ask)
  <2>1. a = [i \in 1 .. Len(a) |-> a[i]]
        BY <1>4, <1>5
  <2> QED BY <1>5, <1>7, <2>1
<1> HIDE DEF g
<1>10. Say(g, a)
       BY <1>7, <1>8, <1>9 DEF Say
<1> QED BY <1>6, <1>10, <1>15 DEF a

(* A line of another message asks for nothing. *)
LEMMA IgnoredSays ==
  ASSUME NEW line \in Lines, Ignored(line)
  PROVE  ~line.damaged /\ line.asks = <<>> /\ Say(<<>>, line.asks)
<1>1. ~line.damaged
      BY LinesAssumption
<1>2. line.asks = <<>>
      BY <1>1, LinesAssumption
<1>3. <<>> \in Seq(Record) /\ <<>> \in Seq(Ask) /\ Len(<<>>) = 0
      BY EmptySeq
<1>4. Say(<<>>, <<>>)
      BY <1>3 DEF Say
<1> QED BY <1>1, <1>2, <1>4

(* An entry of a YAML file *)
LEMMA TableKeys ==
  ASSUME NEW name \in DOMAIN rcv_config_item2code, NEW off \in {0, 1, 2},
         off # 0 => name = "CFG-MSGOUT-UBX_NAV_PVT"
  PROVE  LET item == rcv_config_item2code[name]
             key  == item.code + off
         IN  /\ key \in Nat /\ key \div 256 ^ 3 < 256
             /\ GetValueByteCount(key) = TypeBytes[item.type]
             /\ TypeBytes[item.type] \in {1, 2, 4}
<1> DEFINE item == rcv_config_item2code[name]
           key == item.code + off
<1>1. 256 ^ 3 = 16777216 /\ 2 ^ 28 = 268435456
      BY SMT
<1>2. /\ TypeBytes["U1"] = 1 /\ TypeBytes["E1"] = 1 /\ TypeBytes["L"] = 1
      /\ TypeBytes["U2"] = 2 /\ TypeBytes["U4"] = 4
      BY DEF TypeBytes
<1>3. \A c \in Nat : /\ (c \div 268435456) % 8 \in 0 .. 2 => GetValueByteCount(c) = 1
                     /\ (c \div 268435456) % 8 = 3 => GetValueByteCount(c) = 2
                     /\ (c \div 268435456) % 8 = 4 => GetValueByteCount(c) = 4
      BY <1>1, ByteCounts
<1>4. name \in {"CFG-MSGOUT-UBX_NAV_PVT", "CFG-MSGOUT-UBX_RXM_RAWX", "CFG-NAVSPG-DYNMODEL",
                "CFG-RATE-MEAS", "CFG-SIGNAL-GPS_ENA", "CFG-UART1-BAUDRATE"}
      BY DEF rcv_config_item2code
<1>5. CASE name = "CFG-MSGOUT-UBX_NAV_PVT"
  <2>1. item = [code |-> 546373639, type |-> "U1"]
        BY <1>5 DEF rcv_config_item2code
  <2>2. key = 546373639 + off /\ key \in 546373639 .. 546373641 /\ TypeBytes[item.type] = 1
        BY <1>2, <2>1
  <2> HIDE DEF key
  <2>3. key \in Nat /\ key \div 16777216 < 256 /\ (key \div 268435456) % 8 = 2
        BY <2>2, SMT
  <2> QED BY <1>1, <1>3, <2>2, <2>3 DEF key
<1>6. CASE name # "CFG-MSGOUT-UBX_NAV_PVT"
  <2>0. off = 0
        BY <1>6
  <2>1. CASE name = "CFG-MSGOUT-UBX_RXM_RAWX"
    <3>1. item = [code |-> 546374309, type |-> "U1"]
          BY <2>1 DEF rcv_config_item2code
    <3>2. key = 546374309 /\ TypeBytes[item.type] = 1
          BY <1>2, <2>0, <3>1
    <3> HIDE DEF key
    <3>3. key \in Nat /\ key \div 16777216 < 256 /\ (key \div 268435456) % 8 = 2
          BY <3>2, SMT
    <3> QED BY <1>1, <1>3, <3>2, <3>3 DEF key
  <2>2. CASE name = "CFG-NAVSPG-DYNMODEL"
    <3>1. item = [code |-> 537985057, type |-> "E1"]
          BY <2>2 DEF rcv_config_item2code
    <3>2. key = 537985057 /\ TypeBytes[item.type] = 1
          BY <1>2, <2>0, <3>1
    <3> HIDE DEF key
    <3>3. key \in Nat /\ key \div 16777216 < 256 /\ (key \div 268435456) % 8 = 2
          BY <3>2, SMT
    <3> QED BY <1>1, <1>3, <3>2, <3>3 DEF key
  <2>3. CASE name = "CFG-RATE-MEAS"
    <3>1. item = [code |-> 807469057, type |-> "U2"]
          BY <2>3 DEF rcv_config_item2code
    <3>2. key = 807469057 /\ TypeBytes[item.type] = 2
          BY <1>2, <2>0, <3>1
    <3> HIDE DEF key
    <3>3. key \in Nat /\ key \div 16777216 < 256 /\ (key \div 268435456) % 8 = 3
          BY <3>2, SMT
    <3> QED BY <1>1, <1>3, <3>2, <3>3 DEF key
  <2>4. CASE name = "CFG-SIGNAL-GPS_ENA"
    <3>1. item = [code |-> 271646751, type |-> "L"]
          BY <2>4 DEF rcv_config_item2code
    <3>2. key = 271646751 /\ TypeBytes[item.type] = 1
          BY <1>2, <2>0, <3>1
    <3> HIDE DEF key
    <3>3. key \in Nat /\ key \div 16777216 < 256 /\ (key \div 268435456) % 8 = 1
          BY <3>2, SMT
    <3> QED BY <1>1, <1>3, <3>2, <3>3 DEF key
  <2>5. CASE name = "CFG-UART1-BAUDRATE"
    <3>1. item = [code |-> 1079115777, type |-> "U4"]
          BY <2>5 DEF rcv_config_item2code
    <3>2. key = 1079115777 /\ TypeBytes[item.type] = 4
          BY <1>2, <2>0, <3>1
    <3> HIDE DEF key
    <3>3. key \in Nat /\ key \div 16777216 < 256 /\ (key \div 268435456) % 8 = 4
          BY <3>2, SMT
    <3> QED BY <1>1, <1>3, <3>2, <3>3 DEF key
  <2> QED BY <1>4, <1>6, <2>1, <2>2, <2>3, <2>4, <2>5
<1> QED BY <1>5, <1>6

LEMMA PortKeys ==
  ASSUME NEW port, port \in DOMAIN PortOffset
  PROVE  PortOffset[port] \in {0, 1, 2}
BY DEF PortOffset

LEMMA TableCodes ==
  ASSUME NEW name \in DOMAIN rcv_config_item2code
  PROVE  rcv_config_item2code[name].code \in Nat
BY DEF rcv_config_item2code

(* A pair of bytes that a name and a number are made into *)
LEMMA PairSays ==
  ASSUME NEW r, ~Stops(r), NEW ask, NEW key \in Nat, key \div 256 ^ 3 < 256,
         NEW v \in Seq(Byte), Len(v) = GetValueByteCount(key), Pair(r) = <<key, v>>,
         ask \in {Pair(r), Anything}
  PROVE  Says(r, ask)
<1>1. Pair(r) \in Nat \X Seq(Byte) /\ Pair(r)[1] = key /\ Pair(r)[2] = v
      OBVIOUS
<1>2. IsPair(Pair(r))
      BY <1>1 DEF IsPair
<1> QED BY <1>1, <1>2 DEF Says

(* The record of an entry that is not damaged says what it asks for. *)
LEMMA EntrySays ==
  ASSUME NEW entry \in Entries, ~entry.damaged
  PROVE  Say(<<Named(entry)>>, entry.asks)
<1> DEFINE r == Named(entry)
           name == entry.name
           port == entry.port
           text == entry.text.number
           ask == EntryAsks(entry)
<1>1. r.raw = FALSE /\ r.name = name /\ r.port = port /\ r.text = entry.text
      BY DEF Named
<1>2. /\ entry.asks = <<ask>> /\ entry.asks \in Seq(Ask)
      /\ name \in DOMAIN rcv_config_item2code
      /\ port # Absent => name = "CFG-MSGOUT-UBX_NAV_PVT"
      /\ text # Junk /\ entry.text \in [number : Int \cup {Junk}, rest : STRING]
      BY EntriesAssumption DEF Ask
<1>3. text \in Int
      BY <1>2
<1>4. r \in Record
      BY DEF Record
<1> HIDE DEF r
<1>5. ~Stops(r)
      BY <1>1, <1>2 DEF Stops, KeyRefused, IsNavMsgout, Unparsed, stoull
<1> DEFINE item == rcv_config_item2code[name]
           n == TypeBytes[item.type]
           off == IF port = Absent THEN 0 ELSE PortOffset[port]
           key == KeyCode(r)
<1>6. key = IF port = Absent THEN item.code
            ELSE IF port \in DOMAIN PortOffset THEN item.code + PortOffset[port] ELSE 0
      BY <1>1 DEF KeyCode
<1>7. Pair(r) = <<key, LittleEndian(text, GetValueByteCount(key))>>
      BY <1>1 DEF Pair, stoull
<1>8. ASSUME port \in {Absent} \cup DOMAIN PortOffset
      PROVE  /\ key = item.code + off
             /\ key \in Nat /\ key \div 256 ^ 3 < 256
             /\ GetValueByteCount(key) = n /\ n \in {1, 2, 4}
  <2>1. off \in {0, 1, 2} /\ (off # 0 => name = "CFG-MSGOUT-UBX_NAV_PVT")
        BY <1>2, <1>8, PortKeys
  <2> HIDE DEF off, name
  <2>2. /\ item.code + off \in Nat /\ (item.code + off) \div 256 ^ 3 < 256
        /\ GetValueByteCount(item.code + off) = n /\ n \in {1, 2, 4}
        BY <1>2, <2>1, TableKeys
  <2>3. key = item.code + off
    <3>1. CASE port = Absent
      <4>1. off = 0 /\ key = item.code
            BY <1>6, <3>1 DEF off
      <4>2. item.code \in Nat
            BY <1>2, TableCodes
      <4> HIDE DEF key, item
      <4> QED BY <4>1, <4>2
    <3>2. CASE port # Absent
          BY <1>6, <1>8, <3>2 DEF off
    <3> QED BY <3>1, <3>2
  <2> QED BY <2>2, <2>3
<1>9. ASSUME port \in {Absent} \cup DOMAIN PortOffset PROVE Says(r, ask)
  <2>1. ask = IF Representable(text, n) THEN <<item.code + off, LittleEndian(text, n)>> ELSE Anything
        BY <1>9 DEF EntryAsks
  <2>2. ask \in {Pair(r), Anything}
        BY <1>7, <1>8, <1>9, <2>1
  <2>3. LittleEndian(text, n) \in Seq(Byte) /\ Len(LittleEndian(text, n)) = n
        BY <1>3, <1>8, <1>9, WrittenBytes
  <2> DEFINE v == LittleEndian(text, n)
  <2>4. Pair(r) = <<key, v>> /\ key \in Nat /\ v \in Seq(Byte) /\ Len(v) = GetValueByteCount(key)
        /\ key \div 256 ^ 3 < 256
        BY <1>7, <1>8, <1>9, <2>3
  <2> QED BY <1>5, <2>2, <2>4, PairSays
<1>10. ASSUME port \notin {Absent} \cup DOMAIN PortOffset PROVE Says(r, ask)
  <2>1. ask = Anything
        BY <1>10 DEF EntryAsks
  <2>2. key = 0
        BY <1>6, <1>10
  <2>3. key \in Nat /\ key \div 256 ^ 3 < 256 /\ GetValueByteCount(key) = 1
    <3>1. 0 \div 16777216 = 0 /\ (0 \div 268435456) % 8 = 0 /\ 256 ^ 3 = 16777216 /\ 2 ^ 28 = 268435456
          BY SMT
    <3>2. GetValueByteCount(0) = 1
          BY <3>1, ByteCounts
    <3> QED BY <2>2, <3>1, <3>2
  <2> DEFINE v == LittleEndian(text, 1)
  <2>4. v \in Seq(Byte) /\ Len(v) = 1
        BY <1>3, WrittenBytes
  <2>5. Pair(r) = <<key, v>> /\ key \in Nat /\ v \in Seq(Byte) /\ Len(v) = GetValueByteCount(key)
        /\ key \div 256 ^ 3 < 256
        BY <1>7, <2>3, <2>4
  <2> QED BY <1>5, <2>1, <2>5, PairSays
<1>11. Says(r, ask)
       BY <1>9, <1>10
<1>12. Say(<<r>>, <<ask>>)
  <2>1. <<r>> \in Seq(Record) /\ Len(<<r>>) = 1 /\ <<r>>[1] = r
        BY <1>4
  <2>2. <<ask>> \in Seq(Ask) /\ Len(<<ask>>) = 1 /\ <<ask>>[1] = ask
    <3> HIDE DEF ask
    <3> QED BY <1>2
  <2> HIDE DEF ask
  <2>3. \A i \in 1 .. Len(<<r>>) : Says(<<r>>[i], <<ask>>[i])
        BY <1>11, <2>1, <2>2
  <2> QED BY <2>1, <2>2, <2>3 DEF Say
<1> QED BY <1>2, <1>12 DEF r

-----------------------------------------------------------------------------
(* The message is that of pairs which the file asks for *)
WrittenFor(pairs) ==
  /\ pairs \in Seq(Nat \X Seq(Byte)) /\ pairs # <<>>
  /\ \A i \in 1 .. Len(pairs) : IsPair(pairs[i])
  /\ message = Built(pairs) /\ Len(message) <= kReceiverConfigBufferCapacity
  /\ AskedPairs \in Seq(Ask) /\ Len(pairs) = Len(AskedPairs)
  /\ \A i \in 1 .. Len(pairs) : AskedPairs[i] \in {pairs[i], Anything}

(* Until the message is built, the records say what has been read so far. *)
ConfigInv ==
  /\ damaged \in BOOLEAN
  /\ startup \in {"settings", "u-center", "yaml", "loaded"} => RecordsSay(records, asked, damaged)
  /\ startup = "built" => ~damaged /\ \E pairs : WrittenFor(pairs)

LEMMA ConfigAtFirst == ConfigInit => ConfigInv
BY SayNothing DEF ConfigInit, ConfigInv

(* One lemma per action of the configuration *)
LEMMA ReadSettingsStep ==
  ASSUME ConfigInv, ReadSettings
  PROVE  ConfigInv'
<1>1. /\ startup = "settings" /\ damaged' = damaged /\ asked' = asked
      /\ \/ startup' = "thrown"
         \/ records' = records /\ startup' \in {"u-center", "yaml", "missing", "loaded"}
  <2>1. startup = "settings"
        BY DEF ReadSettings
  <2>2. PICK s \in Settings :
          \/ Throws
          \/ /\ startup' = IF ReadBool(s.bring) THEN s.file ELSE "loaded"
             /\ UNCHANGED <<records, message, asked, damaged>>
        BY DEF ReadSettings
  <2>3. s.file \in {"u-center", "yaml", "missing"}
        BY SettingsAssumption
  <2>4. CASE Throws
        BY <2>1, <2>4 DEF Throws
  <2>5. CASE /\ startup' = IF ReadBool(s.bring) THEN s.file ELSE "loaded"
             /\ UNCHANGED <<records, message, asked, damaged>>
        BY <2>1, <2>3, <2>5
  <2> QED BY <2>2, <2>4, <2>5
<1>2. RecordsSay(records, asked, damaged) /\ damaged \in BOOLEAN
      BY <1>1 DEF ConfigInv
<1>3. startup' # "built"
      BY <1>1
<1>4. ASSUME startup' \in {"settings", "u-center", "yaml", "loaded"}
      PROVE  RecordsSay(records', asked', damaged')
      BY <1>1, <1>2, <1>4
<1> QED BY <1>1, <1>2, <1>3, <1>4 DEF ConfigInv

LEMMA ReadLineStep ==
  ASSUME ConfigInv, ReadLine
  PROVE  ConfigInv'
<1>1. startup = "u-center" /\ RecordsSay(records, asked, damaged) /\ damaged \in BOOLEAN
      BY DEF ReadLine, ConfigInv
<1>2. PICK line \in Lines :
        /\ asked' = Append(asked, line.asks)
        /\ damaged' = (damaged \/ line.damaged)
        /\ \/ /\ ~Ignored(line) /\ LineRefused(line)
              /\ startup' = "thrown" /\ records' = <<>>
           \/ /\ ~Ignored(line) /\ ~LineRefused(line)
              /\ records' = records \o ParsePairs(Body(line)).pairs
              /\ UNCHANGED startup
           \/ Ignored(line) /\ UNCHANGED <<startup, records>>
      BY DEF ReadLine
<1>3. damaged' \in BOOLEAN
      BY <1>2
<1>4. CASE startup' = "thrown"
      BY <1>3, <1>4 DEF ConfigInv
<1>5. CASE /\ ~Ignored(line) /\ ~LineRefused(line)
           /\ records' = records \o ParsePairs(Body(line)).pairs
           /\ UNCHANGED startup
  <2>1. ~line.damaged /\ Say(ParsePairs(Body(line)).pairs, line.asks)
        BY <1>5, LineSays
  <2>2. damaged' = damaged
        BY <1>1, <1>2, <2>1
  <2>3. RecordsSay(records \o ParsePairs(Body(line)).pairs, Append(asked, line.asks), damaged)
        BY <1>1, <2>1, SayGroup
  <2>4. RecordsSay(records', asked', damaged')
        BY <1>2, <1>5, <2>2, <2>3
  <2> QED BY <1>1, <1>3, <1>5, <2>4 DEF ConfigInv
<1>6. CASE Ignored(line) /\ UNCHANGED <<startup, records>>
  <2>1. ~line.damaged /\ Say(<<>>, line.asks)
        BY <1>6, IgnoredSays
  <2>2. damaged' = damaged
        BY <1>1, <1>2, <2>1
  <2>3. RecordsSay(records \o <<>>, Append(asked, line.asks), damaged)
        BY <1>1, <2>1, SayGroup
  <2>4. records \o <<>> = records
    <3>1. records \in Seq(Record)
          BY <1>1 DEF RecordsSay
    <3> QED BY <3>1, ConcatEmptySeq
  <2>5. RecordsSay(records', asked', damaged')
        BY <1>2, <1>6, <2>2, <2>3, <2>4
  <2> QED BY <1>1, <1>3, <1>6, <2>5 DEF ConfigInv
<1> QED BY <1>2, <1>4, <1>5, <1>6

LEMMA EndOfFileStep ==
  ASSUME ConfigInv, EndOfUCenterFile \/ EndOfYamlFile
  PROVE  ConfigInv'
<1>1. /\ damaged' = damaged /\ asked' = asked
      /\ startup \in {"u-center", "yaml"}
      /\ startup' = "thrown" \/ (startup' = "loaded" /\ records' = records)
      BY DEF EndOfUCenterFile, EndOfYamlFile, Throws
<1>2. RecordsSay(records, asked, damaged) /\ damaged \in BOOLEAN
      BY <1>1 DEF ConfigInv
<1>3. startup' = "loaded" => RecordsSay(records', asked', damaged')
      BY <1>1, <1>2
<1> QED BY <1>1, <1>2, <1>3 DEF ConfigInv

LEMMA ReadEntryStep ==
  ASSUME ConfigInv, ReadEntry
  PROVE  ConfigInv'
<1>1. startup = "yaml" /\ startup' = startup /\ RecordsSay(records, asked, damaged) /\ damaged \in BOOLEAN
      BY DEF ReadEntry, ConfigInv
<1>2. PICK entry \in Entries :
        /\ asked' = Append(asked, entry.asks)
        /\ records' = Append(records, Named(entry))
        /\ damaged' = (damaged \/ entry.damaged)
      BY DEF ReadEntry
<1>3. damaged' \in BOOLEAN
      BY <1>2
<1>4. CASE ~entry.damaged
  <2>1. Say(<<Named(entry)>>, entry.asks)
        BY <1>4, EntrySays
  <2>2. RecordsSay(records \o <<Named(entry)>>, Append(asked, entry.asks), damaged)
        BY <1>1, <2>1, SayGroup
  <2>3. records \o <<Named(entry)>> = Append(records, Named(entry))
    <3>1. records \in Seq(Record) /\ Named(entry) \in Record
          BY <1>1 DEF RecordsSay, Record
    <3> QED BY <3>1, AppendIsConcat
  <2>4. damaged' = damaged
        BY <1>1, <1>2, <1>4
  <2>5. RecordsSay(records', asked', damaged')
        BY <1>2, <2>2, <2>3, <2>4
  <2> QED BY <1>1, <1>3, <2>5 DEF ConfigInv
<1>5. CASE entry.damaged
  <2>1. Stops(Named(entry))
    <3>1. entry.name \notin DOMAIN rcv_config_item2code
            \/ (entry.port # Absent /\ entry.name # "CFG-MSGOUT-UBX_NAV_PVT")
            \/ entry.text.number = Junk
          BY <1>5, EntriesAssumption
    <3> DEFINE r == Named(entry)
    <3>2. r.raw = FALSE /\ r.name = entry.name /\ r.port = entry.port /\ r.text = entry.text
          BY DEF Named
    <3> HIDE DEF r
    <3>3. Stops(r)
          BY <3>1, <3>2 DEF Stops, KeyRefused, IsNavMsgout, Unparsed, stoull
    <3> QED BY <3>3 DEF r
  <2>2. Named(entry) \in Record /\ entry.asks \in Seq(Ask)
        BY EntriesAssumption DEF Record, Ask
  <2>3. RecordsSay(Append(records, Named(entry)), Append(asked, entry.asks), TRUE)
        BY <1>1, <2>1, <2>2, SayDamage
  <2>4. damaged' = TRUE
        BY <1>2, <1>5
  <2>5. RecordsSay(records', asked', damaged')
        BY <1>2, <2>3, <2>4
  <2> QED BY <1>1, <1>3, <2>5 DEF ConfigInv
<1> QED BY <1>4, <1>5

(* build_config_msg stops at a record that cannot be appended. *)
LEMMA AllAppended ==
  ASSUME records \in Seq(Record), Appended = Len(records)
  PROVE  \A i \in 1 .. Len(records) : ~Stops(records[i])
<1> DEFINE I == {i \in 1 .. Len(records) : Stops(records[i])}
<1>1. Len(records) \in Nat /\ DOMAIN records = 1 .. Len(records)
      BY LenProperties
<1> SUFFICES ASSUME I # {} PROVE FALSE
    OBVIOUS
<1>2. \E i \in DOMAIN records : Stops(records[i])
      BY <1>1
<1>3. Appended = SelectInSeq(records, Stops) - 1
      BY <1>2 DEF Appended
<1>4. SelectInSeq(records, Stops) = Min(I)
      BY DEF SelectInSeq
<1>5. I \in SUBSET Nat /\ I \subseteq 1 .. Len(records)
      BY <1>1
<1> HIDE DEF I
<1>6. Min(I) \in I
  <2>1. \E n \in I : \A m \in I : n <= m
        BY <1>5, LeastNumber
  <2> QED BY <2>1, Zenon DEF Min
<1> DEFINE x == Min(I)
           n == Len(records)
<1>7. x \in 1 .. n
      BY <1>5, <1>6
<1>8. n = x - 1
      BY <1>3, <1>4
<1> HIDE DEF x, n
<1> QED BY <1>7, <1>8

LEMMA BuildStep ==
  ASSUME ConfigInv, build_config_msg
  PROVE  ConfigInv'
<1>1. /\ startup = "loaded" /\ damaged' = damaged /\ asked' = asked
      /\ RecordsSay(records, asked, damaged) /\ damaged \in BOOLEAN
      BY DEF build_config_msg, ConfigInv
<1>2. \/ startup' \in {"skipped", "refused", "thrown"}
      \/ /\ startup' = "built" /\ records # <<>> /\ message' = ConfigMessage /\ Appended = Len(records)
         /\ Len(ConfigMessage) <= kReceiverConfigBufferCapacity
      BY DEF build_config_msg
<1>3. CASE startup' \in {"skipped", "refused", "thrown"}
      BY <1>1, <1>3 DEF ConfigInv
<1>4. CASE /\ startup' = "built" /\ records # <<>> /\ message' = ConfigMessage /\ Appended = Len(records)
           /\ Len(ConfigMessage) <= kReceiverConfigBufferCapacity
  <2> DEFINE n == Len(records)
             pairs == [i \in 1 .. n |-> Pair(records[i])]
  <2>1. records \in Seq(Record) /\ asked \in Seq(Seq(Ask)) /\ n \in Nat
        BY <1>1, LenProperties DEF RecordsSay
  <2>2. \A i \in 1 .. n : ~Stops(records[i])
        BY <1>4, <2>1, AllAppended
  <2>3. ~damaged /\ Say(records, AskedPairs)
        BY <1>1, <2>2 DEF RecordsSay, AskedPairs
  <2>4. ConfigMessage = Built(pairs)
        BY <1>4 DEF ConfigMessage
  <2>5. /\ AskedPairs \in Seq(Ask) /\ n = Len(AskedPairs)
        /\ \A i \in 1 .. n : Says(records[i], AskedPairs[i])
        BY <2>3 DEF Say
  <2>6. \A i \in 1 .. n : /\ Pair(records[i]) \in Nat \X Seq(Byte) /\ IsPair(Pair(records[i]))
                          /\ AskedPairs[i] \in {Pair(records[i]), Anything}
        BY <2>5 DEF Says
  <2>7. n # 0
        BY <1>4, <2>1, EmptySeq
  <2> HIDE DEF n
  <2>8. pairs \in Seq(Nat \X Seq(Byte)) /\ Len(pairs) = n /\ \A i \in 1 .. n : pairs[i] = Pair(records[i])
        BY <2>1, <2>6
  <2> HIDE DEF pairs
  <2>9. pairs # <<>>
        BY <2>7, <2>8
  <2>10. AskedPairs' = AskedPairs
         BY <1>1 DEF AskedPairs
  <2>11. PICK p : p = pairs
         OBVIOUS
  <2>12. WrittenFor(p)'
    <3>1. message' = Built(p) /\ Len(message') <= kReceiverConfigBufferCapacity
          BY <1>4, <2>4, <2>11
    <3>2. \A i \in 1 .. Len(p) : IsPair(p[i]) /\ AskedPairs[i] \in {p[i], Anything}
          BY <2>6, <2>8, <2>11
    <3>3. p \in Seq(Nat \X Seq(Byte)) /\ p # <<>> /\ Len(p) = n
          BY <2>8, <2>9, <2>11
    <3> QED BY <2>5, <2>10, <3>1, <3>2, <3>3 DEF WrittenFor
  <2>13. \E q : WrittenFor(q)'
         BY <2>12
  <2> QED BY <1>1, <1>4, <2>3, <2>13 DEF ConfigInv
<1> QED BY <1>2, <1>3, <1>4

LEMMA ConfigStepKeeps ==
  ASSUME ConfigInv, ConfigStep
  PROVE  ConfigInv'
BY ReadSettingsStep, ReadLineStep, EndOfFileStep, ReadEntryStep, BuildStep DEF ConfigStep

LEMMA ConfigRests ==
  ASSUME ConfigInv, UNCHANGED configVars
  PROVE  ConfigInv'
<1>1. /\ startup' = startup /\ records' = records /\ message' = message
      /\ asked' = asked /\ damaged' = damaged
      BY DEF configVars
<1> QED BY <1>1 DEF ConfigInv, WrittenFor, AskedPairs

LEMMA ConfigInductive == ConfigInv /\ [Next]_vars => ConfigInv'
<1> SUFFICES ASSUME ConfigInv, [Next]_vars PROVE ConfigInv'
    OBVIOUS
<1>1. CASE Configure
      BY <1>1, ConfigStepKeeps DEF Configure
<1>2. CASE ~Configure
  <2>1. UNCHANGED configVars
        BY <1>2 DEF Next, vars, ReceiverApplies, ReceiverAnswers, ReceiverSends, LineNoise, Read, Return
  <2> QED BY <2>1, ConfigRests
<1> QED BY <1>1, <1>2

(* What was written for the file's pairs is understood as them. *)
LEMMA MessageThen == ConfigInv => MessageIsFile
<1> SUFFICES ASSUME ConfigInv, startup = "built" PROVE
      /\ ~damaged
      /\ Understood(message) => Matches(PairsRead(message), AskedPairs)
      /\ \/ Understood(message)
         \/ \E i \in DOMAIN AskedPairs :
              AskedPairs[i] = Anything \/ AskedPairs[i][1] \notin DOMAIN KeyWidth
    BY DEF MessageIsFile
<1>1. PICK pairs : WrittenFor(pairs)
      BY DEF ConfigInv
<1>2. /\ pairs \in Seq(Nat \X Seq(Byte))
      /\ \A i \in 1 .. Len(pairs) : IsPair(pairs[i])
      /\ message = Built(pairs) /\ Len(Built(pairs)) <= kReceiverConfigBufferCapacity
      /\ AskedPairs \in Seq(Ask) /\ Len(pairs) = Len(AskedPairs)
      /\ \A i \in 1 .. Len(pairs) : AskedPairs[i] \in {pairs[i], Anything}
      BY <1>1 DEF WrittenFor
<1>3. /\ Understood(message) <=> \A i \in 1 .. Len(pairs) : pairs[i][1] \in DOMAIN KeyWidth
      /\ Understood(message) => PairsRead(message) = pairs
      BY <1>2, BuiltUnderstood
<1>4. DOMAIN pairs = 1 .. Len(pairs) /\ DOMAIN AskedPairs = 1 .. Len(pairs)
      BY <1>2, LenProperties
<1>5. Matches(pairs, AskedPairs)
      BY <1>2, <1>4 DEF Matches
<1>6. ASSUME ~Understood(message)
      PROVE  \E i \in DOMAIN AskedPairs : AskedPairs[i] = Anything \/ AskedPairs[i][1] \notin DOMAIN KeyWidth
  <2>1. PICK i \in 1 .. Len(pairs) : pairs[i][1] \notin DOMAIN KeyWidth
        BY <1>3, <1>6
  <2>2. AskedPairs[i] = pairs[i] \/ AskedPairs[i] = Anything
        BY <1>2
  <2> QED BY <1>4, <2>1, <2>2
<1>7. ~damaged
      BY DEF ConfigInv
<1> QED BY <1>3, <1>5, <1>6, <1>7

(* Whatever the configuration file says, as long as its message fits       *)
(* config_buffer: if startup has one, build_config_msg has made it of all  *)
(* that the file asks for, in its order, in a form the receiver reads back *)
(* by its own idea of the keys' types, where a text asks for the number it *)
(* begins with; and a file with a text that begins with none, a line that  *)
(* is no dump of whole pairs or a name that is not in the table yields no  *)
(* message at all.                                                         *)
THEOREM MessageIsFileHolds == Spec => []MessageIsFile
<1>1. Init => ConfigInv
      BY ConfigAtFirst DEF Init
<1> QED BY <1>1, ConfigInductive, MessageThen, PTL DEF Spec

-----------------------------------------------------------------------------
(*                       The answer is the receiver's                      *)

-----------------------------------------------------------------------------
(* The answer: ten bytes, an acceptance or a rejection of the message *)
AnswerAs(m, a) ==
  /\ m \in Seq(Byte) /\ Len(m) = 10
  /\ m[1] = UBX_SYNC_1 /\ m[2] = UBX_SYNC_2 /\ m[3] = 5 /\ m[4] = a
  /\ m[5] = 2 /\ m[6] = 0 /\ m[7] = 6 /\ m[8] = 138
  /\ m[9] = (IF a = 1 THEN 152 ELSE 151) /\ m[10] = (IF a = 1 THEN 193 ELSE 188)

(* What lies between the preamble and the checksum of ten bytes *)
LEMMA CheckedOfTen ==
  ASSUME NEW m \in Seq(Byte), Len(m) = 10
  PROVE  /\ Checked(m) \in Seq(Byte) /\ Len(Checked(m)) = 6
         /\ \A j \in 1 .. 6 : Checked(m)[j] = m[j + 2]
<1>1. \A j \in 3 .. 8 : m[j] \in Byte
  <2>1. \A j \in 1 .. 10 : m[j] \in Byte
        BY ElementOfSeq
  <2> QED BY <2>1
<1>2. Checked(m) = SubSeq(m, 3, 8)
      BY DEF Checked
<1> DEFINE b == SubSeq(m, 3, 8)
<1>3. b \in Seq(Byte) /\ Len(b) = 6 /\ \A j \in 1 .. 6 : b[j] = m[3 + j - 1]
      BY <1>1, SubSeqProperties
<1> HIDE DEF b
<1>4. \A j \in 1 .. 6 : 3 + j - 1 = j + 2
      OBVIOUS
<1> QED BY <1>2, <1>3, <1>4 DEF b

(* An answer that reads like one to a message has that checksum. *)
LEMMA ChecksumOfAnswer ==
  ASSUME NEW m \in Seq(Byte), Len(m) = 10, m[3] = 5, m[4] \in {0, 1},
         m[5] = 2, m[6] = 0, m[7] = 6, m[8] = 138
  PROVE  Checksum(m) = IF m[4] = 1 THEN <<152, 193>> ELSE <<151, 188>>
<1>1. Checked(m) \in Seq(Byte) /\ Len(Checked(m)) = 6 /\ \A j \in 1 .. 6 : Checked(m)[j] = m[j + 2]
      BY CheckedOfTen
<1>2. /\ Checked(m)[1] = m[3] /\ Checked(m)[2] = m[4] /\ Checked(m)[3] = m[5]
      /\ Checked(m)[4] = m[6] /\ Checked(m)[5] = m[7] /\ Checked(m)[6] = m[8]
  <2>1. \A j \in 1 .. 6 : Checked(m)[j] = m[j + 2]
        BY <1>1
  <2> QED BY <2>1
<1> QED BY <1>1, <1>2, ChecksumOfSix

(* What the receiver answers, byte by byte *)
LEMMA AnswerIs ==
  ASSUME NEW a \in {0, 1}
  PROVE  AnswerAs(Frame(5, a, <<6, 138>>), a)
<1> DEFINE q == <<6, 138>>
           m == Frame(5, a, q)
<1>1. q \in Seq(Byte) /\ Len(q) = 2 /\ q[1] = 6 /\ q[2] = 138 /\ 5 \in Byte /\ a \in Byte
      BY DEF Byte
<1>2. m = set_checksum(Unsealed(5, a, q))
      BY DEF Frame, Unsealed
<1> HIDE DEF m, q
<1>3. FramedAs(m, 5, a, q)
      BY <1>1, <1>2, Framed
<1>4. /\ m \in Seq(Byte) /\ Len(m) = 8 + Len(q)
      /\ m[1] = UBX_SYNC_1 /\ m[2] = UBX_SYNC_2 /\ m[3] = 5 /\ m[4] = a
      /\ m[5] = Digit(Len(q), 0) /\ m[6] = Digit(Len(q), 1)
      /\ \A j \in 1 .. Len(q) : m[6 + j] = q[j]
      /\ m[Len(q) + 7] = Checksum(m)[1] /\ m[Len(q) + 8] = Checksum(m)[2]
      BY <1>3 DEF FramedAs
<1>5. Len(m) = 10 /\ m[7] = 6 /\ m[8] = 138 /\ m[9] = Checksum(m)[1] /\ m[10] = Checksum(m)[2]
  <2>1. \A j \in 1 .. 2 : m[6 + j] = q[j]
        BY <1>1, <1>4
  <2>2. m[6 + 1] = q[1] /\ m[6 + 2] = q[2]
        BY <2>1
  <2> QED BY <1>1, <1>4, <2>2
<1>6. m[5] = 2 /\ m[6] = 0
  <2>1. Digit(2, 0) = 2 /\ Digit(2, 1) = 0
        BY Powers DEF Digit
  <2> QED BY <1>1, <1>4, <2>1
<1>7. Checksum(m) = IF m[4] = 1 THEN <<152, 193>> ELSE <<151, 188>>
      BY <1>4, <1>5, <1>6, ChecksumOfAnswer
<1>8. /\ Checksum(m)[1] = (IF a = 1 THEN 152 ELSE 151)
      /\ Checksum(m)[2] = (IF a = 1 THEN 193 ELSE 188)
      BY <1>4, <1>7
<1>9. AnswerAs(m, a)
  <2>1. m[9] = (IF a = 1 THEN 152 ELSE 151) /\ m[10] = (IF a = 1 THEN 193 ELSE 188)
        BY <1>5, <1>8
  <2> QED BY <1>4, <1>5, <1>6, <2>1, Zenon DEF AnswerAs
<1> QED BY <1>9 DEF m, q

-----------------------------------------------------------------------------
(* What the line may carry: a head of an acceptance only where a whole     *)
(* answer follows it, and with the checksum of an acceptance only if the   *)
(* receiver has applied the message.                                       *)
AckAt(s, i, pairs) ==
  /\ i + 9 <= Len(s)
  /\ s[i + 4] = 2 /\ s[i + 5] = 0 /\ s[i + 6] = 6 /\ s[i + 7] = 138
  /\ pairs # <<>> \/ s[i + 8] = 151

AckSound(s, pairs) == \A i \in 1 .. Len(s) : AckHeadAt(s, i) => AckAt(s, i, pairs)

(* A portion of it begins a message, or is noise that completes no head. *)
Portion(c, pairs) ==
  /\ c \in Seq(Byte) /\ c # <<>>
  /\ \/ c[1] = UBX_SYNC_1
     \/ Len(c) = 1 /\ c[1] # 1
  /\ AckSound(c, pairs)

(* The answer and what the line may make of it do not pretend to an        *)
(* acceptance that was not meant.                                          *)
LEMMA AnswerSound ==
  ASSUME NEW a \in {0, 1}, NEW pairs, a = 1 => pairs # <<>>, NEW m, AnswerAs(m, a)
  PROVE  \A c \in {m} \cup Garbled(m) : Portion(c, pairs)
<1>1. /\ m \in Seq(Byte) /\ Len(m) = 10
      /\ m[1] = 181 /\ m[2] = 98 /\ m[3] = 5 /\ m[4] = a
      /\ m[5] = 2 /\ m[6] = 0 /\ m[7] = 6 /\ m[8] = 138
      /\ m[9] = (IF a = 1 THEN 152 ELSE 151) /\ m[10] = (IF a = 1 THEN 193 ELSE 188)
      BY DEF AnswerAs, UBX_SYNC_1, UBX_SYNC_2
<1>2. Portion(m, pairs)
  <2>1. AckSound(m, pairs)
    <3> SUFFICES ASSUME NEW i \in 1 .. 10, AckHeadAt(m, i) PROVE AckAt(m, i, pairs)
        BY <1>1 DEF AckSound
    <3>1. i + 3 <= 10 /\ m[i] = 181 /\ m[i + 3] = 1
          BY <1>1 DEF AckHeadAt, UBX_SYNC_1, UBX_ACK_ACK_ID
    <3>2. i \in 1 .. 7
          BY <3>1
    <3>3. i = 1
          BY <1>1, <3>1, <3>2, SMTT(60)
    <3>4. a = 1
          BY <1>1, <3>1, <3>3
    <3> QED BY <1>1, <3>3, <3>4 DEF AckAt
  <2>2. m \in Seq(Byte) /\ Len(m) = 10 /\ m[1] = UBX_SYNC_1
        BY Zenon DEF AnswerAs
  <2>3. m # <<>>
        BY <2>2, EmptySeq
  <2> QED BY <2>1, <2>2, <2>3, Zenon DEF Portion
<1>3. ASSUME NEW c, c = [m EXCEPT ![4] = 1 - m[4]] PROVE Portion(c, pairs)
  <2>1. /\ c \in Seq(Byte) /\ Len(c) = 10 /\ c[1] = 181 /\ c[2] = 98 /\ c[3] = 5 /\ c[4] = 1 - a
        /\ c[5] = 2 /\ c[6] = 0 /\ c[7] = 6 /\ c[8] = 138 /\ c[9] = m[9] /\ c[10] = m[10]
    <3>1. 1 - m[4] \in Byte
          BY <1>1 DEF Byte
    <3>2. c \in Seq(Byte) /\ Len(c) = 10
          BY <1>1, <1>3, <3>1, ExceptSeq
    <3>3. \A j \in 1 .. 10 : c[j] = IF j = 4 THEN 1 - m[4] ELSE m[j]
          BY <1>1, <1>3, ExceptSeq
    <3> QED BY <1>1, <3>2, <3>3
  <2>2. AckSound(c, pairs)
    <3> SUFFICES ASSUME NEW i \in 1 .. 10, AckHeadAt(c, i) PROVE AckAt(c, i, pairs)
        BY <2>1 DEF AckSound
    <3>1. i + 3 <= 10 /\ c[i] = 181 /\ c[i + 3] = 1
          BY <2>1 DEF AckHeadAt, UBX_SYNC_1, UBX_ACK_ACK_ID
    <3>2. i \in 1 .. 7
          BY <3>1
    <3>3. i = 1
          BY <2>1, <3>1, <3>2, SMTT(60)
    <3>4. a = 0
          BY <2>1, <3>1, <3>3
    <3> QED BY <1>1, <2>1, <3>3, <3>4 DEF AckAt
  <2> QED BY <1>1, <2>1, <2>2 DEF Portion, UBX_SYNC_1
<1>4. ASSUME NEW c, c = [m EXCEPT ![2] = UBX_SYNC_1] PROVE Portion(c, pairs)
  <2>1. /\ c \in Seq(Byte) /\ Len(c) = 10 /\ c[1] = 181 /\ c[2] = 181 /\ c[3] = 5 /\ c[4] = a
        /\ c[5] = 2 /\ c[6] = 0 /\ c[7] = 6 /\ c[8] = 138 /\ c[9] = m[9] /\ c[10] = m[10]
    <3>1. UBX_SYNC_1 \in Byte /\ UBX_SYNC_1 = 181
          BY DEF Byte, UBX_SYNC_1
    <3>2. c \in Seq(Byte) /\ Len(c) = 10
          BY <1>1, <1>4, <3>1, ExceptSeq
    <3>3. \A j \in 1 .. 10 : c[j] = IF j = 2 THEN UBX_SYNC_1 ELSE m[j]
          BY <1>1, <1>4, ExceptSeq
    <3> QED BY <1>1, <3>1, <3>2, <3>3
  <2>2. AckSound(c, pairs)
    <3> SUFFICES ASSUME NEW i \in 1 .. 10, AckHeadAt(c, i) PROVE FALSE
        BY <2>1 DEF AckSound
    <3>1. i + 3 <= 10 /\ c[i] = 181 /\ c[i + 1] = 98
          BY <2>1 DEF AckHeadAt, UBX_SYNC_1, UBX_SYNC_2
    <3>2. i \in 1 .. 7
          BY <3>1
    <3> QED BY <2>1, <3>1, <3>2
  <2> QED BY <1>1, <2>1, <2>2 DEF Portion, UBX_SYNC_1
<1> QED BY <1>2, <1>3, <1>4 DEF Garbled

(* No head lies across two portions. *)
LEMMA Grown ==
  ASSUME NEW h \in Seq(Byte), NEW c, NEW pairs, AckSound(h, pairs), Portion(c, pairs)
  PROVE  AckSound(h \o c, pairs)
<1> DEFINE u == h \o c
           k == Len(h)
           n == Len(c)
<1>1. c \in Seq(Byte) /\ AckSound(c, pairs)
      BY DEF Portion
<1>2. /\ Len(u) = k + n /\ k \in Nat /\ n \in Nat
      /\ \A j \in 1 .. k : u[j] = h[j]
      /\ \A j \in 1 .. n : u[k + j] = c[j]
  <2> HIDE DEF u
  <2>1. u = h \o c
        BY DEF u
  <2> QED BY <1>1, <2>1, Joined
<1>3. c[1] = 181 \/ (n = 1 /\ c[1] # 1)
      BY DEF Portion, UBX_SYNC_1
<1>0. (\A j \in 1 .. k : AckHeadAt(h, j) => AckAt(h, j, pairs))
      /\ (\A j \in 1 .. n : AckHeadAt(c, j) => AckAt(c, j, pairs))
      BY <1>1 DEF AckSound
<1> SUFFICES ASSUME NEW i \in 1 .. k + n, AckHeadAt(u, i) PROVE AckAt(u, i, pairs)
  <2> HIDE DEF u
  <2> QED BY <1>2 DEF AckSound, u
<1> HIDE DEF u, k, n
<1>4. i + 3 <= k + n /\ u[i] = 181 /\ u[i + 1] = 98 /\ u[i + 2] = 5 /\ u[i + 3] = 1
      BY <1>2 DEF AckHeadAt, UBX_SYNC_1, UBX_SYNC_2, UBX_ACK_ACK_ID
<1>5. CASE i + 3 <= k
  <2>1. /\ i \in 1 .. k /\ i + 1 \in 1 .. k /\ i + 2 \in 1 .. k /\ i + 3 \in 1 .. k
        BY <1>2, <1>5
  <2>2. AckHeadAt(h, i)
    <3>1. h[i] = 181 /\ h[i + 1] = 98 /\ h[i + 2] = 5 /\ h[i + 3] = 1
          BY <1>2, <1>4, <2>1
    <3> QED BY <1>2, <1>5, <3>1 DEF AckHeadAt, k, UBX_SYNC_1, UBX_SYNC_2, UBX_ACK_ACK_ID
  <2>3. AckAt(h, i, pairs)
        BY <1>0, <2>1, <2>2
  <2>4. i + 9 <= k /\ h[i + 4] = 2 /\ h[i + 5] = 0 /\ h[i + 6] = 6 /\ h[i + 7] = 138
        /\ (pairs # <<>> \/ h[i + 8] = 151)
        BY <2>3 DEF AckAt, k
  <2>5. /\ i + 4 \in 1 .. k /\ i + 5 \in 1 .. k /\ i + 6 \in 1 .. k /\ i + 7 \in 1 .. k
        /\ i + 8 \in 1 .. k /\ i + 9 <= k + n
        BY <1>2, <2>4
  <2>6. u[i + 4] = 2 /\ u[i + 5] = 0 /\ u[i + 6] = 6 /\ u[i + 7] = 138
        /\ (pairs # <<>> \/ u[i + 8] = 151)
        BY <1>2, <2>4, <2>5
  <2> QED BY <1>2, <2>5, <2>6 DEF AckAt
<1>6. CASE i > k
  <2> DEFINE j == i - k
  <2>1. j \in 1 .. n /\ i = k + j /\ j + 3 <= n
        BY <1>2, <1>4, <1>6
  <2> HIDE DEF j
  <2>2. /\ j \in 1 .. n /\ j + 1 \in 1 .. n /\ j + 2 \in 1 .. n /\ j + 3 \in 1 .. n
        /\ i + 1 = k + (j + 1) /\ i + 2 = k + (j + 2) /\ i + 3 = k + (j + 3)
        BY <1>2, <2>1
  <2>3. AckHeadAt(c, j)
    <3>1. c[j] = 181 /\ c[j + 1] = 98 /\ c[j + 2] = 5 /\ c[j + 3] = 1
          BY <1>2, <1>4, <2>1, <2>2
    <3> QED BY <2>1, <3>1 DEF AckHeadAt, UBX_SYNC_1, UBX_SYNC_2, UBX_ACK_ACK_ID, n
  <2>4. AckAt(c, j, pairs)
        BY <1>0, <2>1, <2>3
  <2>5. j + 9 <= n /\ c[j + 4] = 2 /\ c[j + 5] = 0 /\ c[j + 6] = 6 /\ c[j + 7] = 138
        /\ (pairs # <<>> \/ c[j + 8] = 151)
        BY <2>4 DEF AckAt, n
  <2>6. /\ j + 4 \in 1 .. n /\ j + 5 \in 1 .. n /\ j + 6 \in 1 .. n /\ j + 7 \in 1 .. n
        /\ j + 8 \in 1 .. n /\ i + 9 <= k + n
        /\ i + 4 = k + (j + 4) /\ i + 5 = k + (j + 5) /\ i + 6 = k + (j + 6)
        /\ i + 7 = k + (j + 7) /\ i + 8 = k + (j + 8)
        BY <1>2, <2>1, <2>5
  <2>7. /\ u[i + 4] = c[j + 4] /\ u[i + 5] = c[j + 5] /\ u[i + 6] = c[j + 6]
        /\ u[i + 7] = c[j + 7] /\ u[i + 8] = c[j + 8]
    <3>1. \A l \in 1 .. n : u[k + l] = c[l]
          BY <1>2
    <3> QED BY <2>6, <3>1, SMTT(60)
  <2>8. u[i + 4] = 2 /\ u[i + 5] = 0 /\ u[i + 6] = 6 /\ u[i + 7] = 138
        /\ (pairs # <<>> \/ u[i + 8] = 151)
        BY <2>5, <2>7
  <2> QED BY <1>2, <2>6, <2>8 DEF AckAt
<1>7. CASE i <= k /\ k < i + 3
  <2>1. u[k + 1] = c[1]
        BY <1>2, <1>4, <1>7
  <2>2. k + 1 = i + 1 \/ k + 1 = i + 2 \/ k + 1 = i + 3
        BY <1>2, <1>7
  <2>3. c[1] = 98 \/ c[1] = 5 \/ c[1] = 1
        BY <1>4, <2>1, <2>2
  <2>4. n = 1 => k + 1 = i + 3
        BY <1>2, <1>4, <1>7
  <2> QED BY <1>3, <1>4, <2>1, <2>3, <2>4
<1> QED BY <1>2, <1>5, <1>6, <1>7

-----------------------------------------------------------------------------
(* What the receiver has applied, and what the driver takes for its answer *)
DialogueInv ==
  /\ owed = "ack" => applied # <<>>
  /\ applied # <<>> => startup = "built" /\ Matches(applied, AskedPairs)
  /\ AckSound(heard, applied)
  /\ ack_flag = 1 => applied # <<>>
  /\ result = "success" => applied # <<>>

(* The inductive invariant of the whole dialogue *)
ReceiverInv == ConfigInv /\ Fits /\ LineInv /\ DialogueInv

LEMMA ReceiverAtFirst == Init => ReceiverInv
<1> SUFFICES ASSUME Init PROVE ReceiverInv
    OBVIOUS
<1>1. ConfigInv /\ LineInv
      BY ConfigAtFirst, ScannedAtFirst DEF Init
<1>2. Fits
      BY DEF Init, ReadInit, Fits
<1>3. AckSound(heard, applied)
  <2>1. Len(heard) = 0
        BY DEF Init, ReadInit
  <2> QED BY <2>1 DEF AckSound
<1>4. DialogueInv
      BY <1>3 DEF Init, DialogueInv
<1> QED BY <1>1, <1>2, <1>4 DEF ReceiverInv

(* Once the message is built, the file has been read. *)
LEMMA FileRead ==
  ASSUME startup = "built"
  PROVE  ~ConfigStep
BY DEF ConfigStep, ReadSettings, ReadLine, EndOfUCenterFile, ReadEntry, EndOfYamlFile, build_config_msg

(* What the receiver applies is what the file asks for. *)
LEMMA AppliedMatches ==
  ASSUME ConfigInv, startup = "built", Understood(message)
  PROVE  PairsRead(message) # <<>> /\ Matches(PairsRead(message), AskedPairs)
<1>1. Matches(PairsRead(message), AskedPairs)
      BY MessageThen DEF MessageIsFile
<1>2. PICK pairs : WrittenFor(pairs)
      BY DEF ConfigInv
<1>3. /\ pairs \in Seq(Nat \X Seq(Byte)) /\ pairs # <<>>
      /\ \A i \in 1 .. Len(pairs) : IsPair(pairs[i])
      /\ message = Built(pairs) /\ Len(Built(pairs)) <= kReceiverConfigBufferCapacity
      BY <1>2 DEF WrittenFor
<1>4. PairsRead(message) = pairs
      BY <1>3, BuiltUnderstood
<1> QED BY <1>1, <1>3, <1>4

(* Every step that puts bytes on the line puts a portion there. *)
LEMMA TrafficSound ==
  ASSUME NEW m \in Traffic, NEW pairs
  PROVE  Portion(m, pairs)
<1>1. /\ m \in Seq(Byte) /\ m # <<>> /\ m[1] = UBX_SYNC_1
      /\ \A i \in 1 .. Len(m) : ~AckHeadAt(m, i)
      BY LineAssumption
<1>2. AckSound(m, pairs)
      BY <1>1 DEF AckSound
<1> QED BY <1>1, <1>2 DEF Portion

LEMMA NoiseSound ==
  ASSUME NEW b \in Noise, NEW pairs
  PROVE  Portion(<<b>>, pairs)
<1>1. b \in Byte /\ b # 1
      BY LineAssumption DEF UBX_ACK_ACK_ID
<1> DEFINE c == <<b>>
<1>2. c \in Seq(Byte) /\ Len(c) = 1 /\ c[1] = b /\ c # <<>>
      BY <1>1
<1>3. AckSound(c, pairs)
  <2>1. \A i \in 1 .. Len(c) : ~AckHeadAt(c, i)
        BY <1>2 DEF AckHeadAt
  <2> QED BY <2>1 DEF AckSound
<1> HIDE DEF c
<1>4. Portion(c, pairs)
      BY <1>1, <1>2, <1>3 DEF Portion
<1> QED BY <1>4 DEF c

(* What arrives in the dialogue *)
LineCarries == \E c : Portion(c, applied) /\ Arrives(c)

(* Whatever comes over the line comes in such portions. *)
LEMMA Carried ==
  ASSUME DialogueInv, ReceiverAnswers \/ ReceiverSends \/ LineNoise
  PROVE  LineCarries
<1>1. CASE ReceiverAnswers
  <2>1. PICK m \in {Answer} \cup Garbled(Answer) : Arrives(m)
        BY <1>1 DEF ReceiverAnswers
  <2> DEFINE a == IF owed = "ack" THEN 1 ELSE 0
  <2>2. a \in {0, 1} /\ (a = 1 => applied # <<>>)
        BY DEF DialogueInv
  <2>3. Answer = Frame(5, a, <<6, 138>>)
        BY DEF Answer
  <2> HIDE DEF a
  <2>4. AnswerAs(Answer, a)
        BY <2>2, <2>3, AnswerIs
  <2>5. Portion(m, applied)
        BY <2>1, <2>2, <2>4, AnswerSound
  <2> QED BY <2>1, <2>5 DEF LineCarries
<1>2. CASE ReceiverSends
      BY <1>2, TrafficSound DEF ReceiverSends, LineCarries
<1>3. CASE LineNoise
      BY <1>3, NoiseSound DEF LineNoise, LineCarries
<1> QED BY <1>1, <1>2, <1>3

(* The dialogue's steps are steps of the reader and of the line, or leave  *)
(* them alone.                                                             *)
LEMMA ReaderStep == ReceiverInv /\ [Next]_vars => [LineNext]_readVars
<1> SUFFICES ASSUME ReceiverInv, [Next]_vars PROVE [LineNext]_readVars
    OBVIOUS
<1>1. CASE ReceiverAnswers \/ ReceiverSends \/ LineNoise
  <2>1. PICK c : Portion(c, applied) /\ Arrives(c)
        BY <1>1, Carried DEF ReceiverInv, LineCarries
  <2>2. c \in Seq(Byte)
        BY <2>1 DEF Portion
  <2>3. dataBuf' = dataBuf /\ reading' = reading
        BY <2>1 DEF Arrives
  <2>4. Fits'
        BY <2>3 DEF ReceiverInv, Fits, Wanted
  <2> QED BY <2>1, <2>2, <2>4 DEF LineNext
<1>2. CASE Read
      BY <1>2 DEF Read, LineNext, ReadStep
<1>3. CASE Configure \/ ReceiverApplies \/ Return \/ UNCHANGED vars
      BY <1>3 DEF Configure, ReceiverApplies, Return, vars
<1> QED BY <1>1, <1>2, <1>3 DEF Next

(* No step makes the reader want more than its buffer has room for. *)
LEMMA FitsStep == ReceiverInv /\ [Next]_vars => Fits'
<1> SUFFICES ASSUME ReceiverInv, [Next]_vars PROVE Fits'
    OBVIOUS
<1>1. [LineNext]_readVars
      BY ReaderStep
<1>2. CASE LineNext
      BY <1>2 DEF LineNext
<1>3. CASE UNCHANGED readVars
      BY <1>3 DEF ReceiverInv, Fits, Wanted, readVars
<1> QED BY <1>1, <1>2, <1>3

(* A message that reads as an acceptance is the receiver's. *)
LEMMA AcceptanceSound ==
  ASSUME LineInv, AckSound(heard, applied), ReadBody, check_ack(dataBuf \o Got) = 1
  PROVE  applied # <<>>
<1> DEFINE m == dataBuf \o Got
           i == Consumed + 1
<1>1. /\ m \in Seq(Byte) /\ Len(m) \in Nat /\ LiesAt(m, Consumed) /\ Consumed + Len(m) <= Len(heard)
      /\ Consumed \in Nat /\ Len(heard) \in Nat
  <2>1. Reads
        BY DEF ReadBody
  <2>2. Consumed \in Nat /\ heard \in Seq(Byte)
        BY DEF LineInv, LineTypeOK
  <2> QED BY <2>1, <2>2, Taken
<1> HIDE DEF m
<1>2. verifyMsg(m) /\ m[3] = 5 /\ m[4] = 1
  <2>1. check_ack(m) = 1
        BY DEF m
  <2>2. verifyMsg(m) /\ ClassAndId(m) = UBX_ACK_ACK_ID
        BY <2>1, SMT DEF check_ack
  <2> QED BY <2>2, SMT DEF ClassAndId, UBX_ACK_ACK_ID
<1>3. /\ m[1] = 181 /\ m[2] = 98 /\ Len(m) >= 8
      /\ Len(m) = PayloadLength(m) + 8 /\ check_checksum(m)
  <2>1. /\ m[1] = UBX_SYNC_1 /\ m[2] = UBX_SYNC_2 /\ Len(m) >= kUbxMsgHeaderLen + 2
        /\ Len(m) = PayloadLength(m) + kUbxMsgHeaderLen + 2 /\ check_checksum(m)
        BY <1>2, Zenon DEF verifyMsg
  <2>2. m[5] \in Byte /\ m[6] \in Byte
    <3>1. 5 \in 1 .. Len(m) /\ 6 \in 1 .. Len(m)
          BY <1>1, <2>1 DEF kUbxMsgHeaderLen
    <3> QED BY <1>1, <3>1, ElementOfSeq
  <2>3. PayloadLength(m) \in Nat
        BY <2>2, LengthType DEF PayloadLength
  <2> QED BY <1>1, <2>1, <2>3 DEF kUbxMsgHeaderLen, UBX_SYNC_1, UBX_SYNC_2
<1>4. ASSUME NEW j \in 1 .. Len(m) PROVE heard[Consumed + j] = m[j]
      BY <1>1 DEF LiesAt
<1>5. /\ heard[i] = m[1] /\ heard[i + 1] = m[2] /\ heard[i + 2] = m[3] /\ heard[i + 3] = m[4]
      /\ heard[i + 4] = m[5] /\ heard[i + 5] = m[6] /\ heard[i + 6] = m[7] /\ heard[i + 7] = m[8]
  <2>1. /\ heard[Consumed + 1] = m[1] /\ heard[Consumed + 2] = m[2]
        /\ heard[Consumed + 3] = m[3] /\ heard[Consumed + 4] = m[4]
        /\ heard[Consumed + 5] = m[5] /\ heard[Consumed + 6] = m[6]
        /\ heard[Consumed + 7] = m[7] /\ heard[Consumed + 8] = m[8]
    <3>1. /\ 1 \in 1 .. Len(m) /\ 2 \in 1 .. Len(m) /\ 3 \in 1 .. Len(m) /\ 4 \in 1 .. Len(m)
          /\ 5 \in 1 .. Len(m) /\ 6 \in 1 .. Len(m) /\ 7 \in 1 .. Len(m) /\ 8 \in 1 .. Len(m)
          BY <1>1, <1>3
    <3> QED BY <1>4, <3>1
  <2>2. /\ i = Consumed + 1 /\ i + 1 = Consumed + 2 /\ i + 2 = Consumed + 3 /\ i + 3 = Consumed + 4
        /\ i + 4 = Consumed + 5 /\ i + 5 = Consumed + 6 /\ i + 6 = Consumed + 7 /\ i + 7 = Consumed + 8
        BY <1>1
  <2> HIDE DEF i
  <2> QED BY <2>1, <2>2
<1>6. i \in 1 .. Len(heard) /\ i + 3 <= Len(heard)
      BY <1>1, <1>3
<1>7. AckHeadAt(heard, i)
      BY <1>2, <1>3, <1>5, <1>6 DEF AckHeadAt, UBX_SYNC_1, UBX_SYNC_2, UBX_ACK_ACK_ID
<1>8. AckAt(heard, i, applied)
      BY <1>6, <1>7 DEF AckSound
<1>9. m[5] = 2 /\ m[6] = 0 /\ m[7] = 6 /\ m[8] = 138 /\ (applied # <<>> \/ heard[i + 8] = 151)
      BY <1>5, <1>8 DEF AckAt
<1>10. Len(m) = 10
       BY <1>3, <1>9 DEF PayloadLength
<1>11. Checksum(m) = <<152, 193>>
  <2>1. Checksum(m) = IF m[4] = 1 THEN <<152, 193>> ELSE <<151, 188>>
        BY <1>1, <1>2, <1>9, <1>10, ChecksumOfAnswer
  <2> QED BY <1>2, <2>1
<1>12. m[9] = 152
  <2>1. SubSeq(m, 9, 10) = <<152, 193>>
    <3>1. Checksum(m) = SubSeq(m, Len(m) - 1, Len(m))
          BY <1>3 DEF check_checksum
    <3>2. Len(m) - 1 = 9
          BY <1>10
    <3> QED BY <1>10, <1>11, <3>1, <3>2
  <2>2. SubSeq(m, 9, 10)[1] = m[9]
    <3>1. \A j \in 9 .. 10 : m[j] \in Byte
      <4>1. \A j \in 1 .. Len(m) : m[j] \in Byte
            BY <1>1, ElementOfSeq
      <4> QED BY <1>10, <4>1
    <3>2. \A j \in 1 .. 10 - 9 + 1 : SubSeq(m, 9, 10)[j] = m[9 + j - 1]
          BY <3>1, SubSeqProperties
    <3> QED BY <3>2
  <2>3. PICK w : w = SubSeq(m, 9, 10)
        OBVIOUS
  <2>4. w = <<152, 193>> /\ w[1] = m[9]
        BY <2>1, <2>2, <2>3
  <2> QED BY <2>4
<1>13. heard[i + 8] = m[9]
  <2>1. heard[Consumed + 9] = m[9]
        BY <1>4, <1>10
  <2>2. i + 8 = Consumed + 9
        BY <1>1
  <2> HIDE DEF i
  <2> QED BY <2>1, <2>2
<1> QED BY <1>9, <1>12, <1>13

(* One lemma per action that matters to the dialogue *)
LEMMA AppliesStep ==
  ASSUME ReceiverInv, ReceiverApplies
  PROVE  DialogueInv'
<1>1. /\ startup = "built" /\ result' = result /\ ack_flag' = ack_flag /\ heard' = heard
      /\ result = "none" /\ startup' = startup /\ asked' = asked
      /\ IF Understood(message)
         THEN owed' = "ack" /\ applied' = PairsRead(message)
         ELSE owed' = "nak" /\ applied' = applied
      BY DEF ReceiverApplies, configVars, readVars
<1>2. AskedPairs' = AskedPairs
      BY <1>1 DEF AskedPairs
<1>3. CASE Understood(message)
  <2>1. PairsRead(message) # <<>> /\ Matches(PairsRead(message), AskedPairs)
        BY <1>1, <1>3, AppliedMatches DEF ReceiverInv
  <2>2. PICK p : p = PairsRead(message)
        OBVIOUS
  <2>3. applied' = p /\ p # <<>> /\ Matches(p, AskedPairs)
        BY <1>1, <1>3, <2>1, <2>2
  <2>4. Matches(p, AskedPairs')
        BY <1>2, <2>3
  <2>5. Matches(applied', AskedPairs')
        BY <2>3, <2>4
  <2>6. AckSound(heard, applied)'
        BY <1>1, <2>3 DEF ReceiverInv, DialogueInv, AckSound, AckAt, AckHeadAt
  <2> QED BY <1>1, <2>3, <2>5, <2>6 DEF DialogueInv, Matches
<1>4. CASE ~Understood(message)
  <2>1. applied' = applied /\ owed' = "nak"
        BY <1>1, <1>4
  <2> QED BY <1>1, <1>2, <2>1 DEF ReceiverInv, DialogueInv, Matches, AckSound, AckAt, AckHeadAt
<1> QED BY <1>3, <1>4

LEMMA CarriedStep ==
  ASSUME ReceiverInv, ReceiverAnswers \/ ReceiverSends \/ LineNoise
  PROVE  DialogueInv'
<1>1. PICK c : Portion(c, applied) /\ Arrives(c)
      BY Carried DEF ReceiverInv, LineCarries
<1>2. heard' = heard \o c
      BY <1>1 DEF Arrives
<1>3. /\ applied' = applied /\ ack_flag' = ack_flag /\ result' = result
      /\ startup' = startup /\ asked' = asked
      /\ owed' = "sent" \/ owed' = owed
      BY DEF ReceiverAnswers, ReceiverSends, LineNoise, configVars
<1>4. AckSound(heard \o c, applied)
  <2>1. heard \in Seq(Byte) /\ AckSound(heard, applied)
        BY DEF ReceiverInv, LineInv, LineTypeOK, DialogueInv
  <2> QED BY <1>1, <2>1, Grown
<1>5. AckSound(heard', applied')
      BY <1>2, <1>3, <1>4
<1>6. Matches(applied, AskedPairs)' <=> Matches(applied, AskedPairs)
      BY <1>3 DEF Matches, AskedPairs
<1>7. AckSound(heard, applied)'
      BY <1>5 DEF AckSound, AckAt, AckHeadAt
<1> QED BY <1>3, <1>6, <1>7 DEF ReceiverInv, DialogueInv

LEMMA ReadKeeps ==
  ASSUME ReceiverInv, Read
  PROVE  DialogueInv'
<1>1. /\ applied' = applied /\ owed' = owed /\ result' = result
      /\ startup' = startup /\ asked' = asked /\ heard' = heard
      BY DEF Read, configVars, ReadHeader, ReadResync, ReadBody
<1>2. ack_flag' = 1 => applied # <<>>
  <2>1. CASE ack_flag' = ack_flag
        BY <2>1 DEF ReceiverInv, DialogueInv
  <2>2. CASE ReadBody /\ handleConfigAck(messages'[Len(messages')])
    <3> DEFINE m == dataBuf \o Got
    <3>1. messages'[Len(messages')] = m
      <4>1. messages \in Seq(Seq(Byte)) /\ messages' = Append(messages, m)
            BY <2>2 DEF ReceiverInv, LineInv, LineTypeOK, ReadBody
      <4>2. m \in Seq(Byte)
            BY <2>2, Taken DEF ReceiverInv, ReadBody
      <4> HIDE DEF m
      <4> QED BY <4>1, <4>2, AppendProperties
    <3> HIDE DEF m
    <3>2. ack_flag' = ack_flag \/ ack_flag' = check_ack(m)
          BY <2>2, <3>1, Zenon DEF handleConfigAck
    <3>3. check_ack(m) = 1 => applied # <<>>
          BY <2>2, AcceptanceSound DEF m, ReceiverInv, DialogueInv
    <3> QED BY <3>2, <3>3 DEF ReceiverInv, DialogueInv
  <2> QED BY <2>1, <2>2 DEF Read
<1>3. Matches(applied, AskedPairs)' <=> Matches(applied, AskedPairs)
      BY <1>1 DEF Matches, AskedPairs
<1>4. AckSound(heard, applied)' <=> AckSound(heard, applied)
      BY <1>1 DEF AckSound, AckAt, AckHeadAt
<1> QED BY <1>1, <1>2, <1>3, <1>4 DEF ReceiverInv, DialogueInv

LEMMA OthersKeep ==
  ASSUME ReceiverInv, Configure \/ Return \/ UNCHANGED vars
  PROVE  DialogueInv'
<1>1. /\ applied' = applied /\ owed' = owed /\ heard' = heard /\ ack_flag' = ack_flag
      BY DEF Configure, Return, vars, readVars
<1>2. AckSound(heard, applied)' <=> AckSound(heard, applied)
      BY <1>1 DEF AckSound, AckAt, AckHeadAt
<1>3. applied # <<>> => startup' = startup /\ asked' = asked
      BY FileRead DEF Configure, Return, vars, configVars, ReceiverInv, DialogueInv
<1>4. applied # <<>> => (Matches(applied, AskedPairs)' <=> Matches(applied, AskedPairs))
      BY <1>1, <1>3 DEF Matches, AskedPairs
<1>5. result' = "success" => applied # <<>>
  <2>1. result' = result \/ (ack_flag = 1 \/ result' = "failure")
        BY DEF Configure, Return, vars
  <2> QED BY <2>1 DEF ReceiverInv, DialogueInv
<1> QED BY <1>1, <1>2, <1>3, <1>4, <1>5 DEF ReceiverInv, DialogueInv

LEMMA ReceiverInductive == ReceiverInv /\ [Next]_vars => ReceiverInv'
<1> SUFFICES ASSUME ReceiverInv, [Next]_vars PROVE ReceiverInv'
    OBVIOUS
<1>1. ConfigInv'
      BY ConfigInductive DEF ReceiverInv
<1>2. LineInv'
      BY ReaderStep, LineStep DEF ReceiverInv
<1>3. Fits'
      BY FitsStep
<1>4. DialogueInv'
      BY AppliesStep, CarriedStep, ReadKeeps, OthersKeep DEF Next
<1> QED BY <1>1, <1>2, <1>3, <1>4 DEF ReceiverInv

LEMMA ReceiverInvHolds == Spec => []ReceiverInv
BY ReceiverAtFirst, ReceiverInductive, PTL DEF Spec

-----------------------------------------------------------------------------
(* The reader of the dialogue is the reader on a line that carries any     *)
(* bytes: whatever the receiver sends and the line adds or spoils, no step *)
(* of the dialogue touches its buffer.  (SerialHandler::read_loop)         *)
THEOREM DialogueReads == Spec => LineSpec
<1>1. Init => ReadInit
      BY DEF Init
<1> QED BY <1>1, ReceiverInvHolds, ReaderStep, PTL DEF Spec, LineSpec

(* So during startup, too, handleConfigAck has been given exactly the      *)
(* messages that one scan of the line finds whenever the reader waits.     *)
THEOREM DialogueResyncComplete == Spec => []ResyncComplete
BY DialogueReads, ResyncCompleteHolds, PTL

(* Startup reports success only if the receiver has applied the settings   *)
(* of the file, all of them and nothing else: no answer that the line has  *)
(* spoiled, no noise and no other message, nor any way in which they are   *)
(* cut into reads, passes handleConfigAck as an acceptance.                *)
THEOREM SuccessIsAppliedHolds == Spec => []SuccessIsApplied
<1>1. ReceiverInv => SuccessIsApplied
      BY DEF ReceiverInv, DialogueInv, SuccessIsApplied
<1> QED BY <1>1, ReceiverInvHolds, PTL
=============================================================================
