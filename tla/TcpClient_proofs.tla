--------------------------- MODULE TcpClient_proofs ---------------------------
(***************************************************************************)
(* Proofs about TcpClient, for any number of send calls per message, any   *)
(* length of the header, and any number of messages and of connections     *)
(* that break.                                                             *)
(***************************************************************************)
EXTENDS TcpClient, SequenceTheorems, WellFoundedInduction, TLAPS

-----------------------------------------------------------------------------
(* Induction without an operator as a parameter: a set of numbers that     *)
(* holds 0 and with each number the next is all of Nat.                    *)
LEMMA InductiveSet ==
  ASSUME NEW T \in SUBSET Nat, 0 \in T, \A n \in T : n + 1 \in T
  PROVE  T = Nat
<1> SUFFICES ASSUME Nat \ T # {} PROVE FALSE
  OBVIOUS
<1>1. IsWellFoundedOn(OpToRel(<, Nat), Nat)
  BY NatLessThanWellFounded
<1>2. \E n \in Nat \ T : \A m \in Nat \ T : <<m, n>> \notin OpToRel(<, Nat)
  BY <1>1, WFMin
<1>3. \E n \in Nat \ T : \A m \in Nat \ T : ~(m < n)
  BY <1>2 DEF OpToRel
<1>4. PICK n \in Nat \ T : \A m \in Nat \ T : ~(m < n)
  BY <1>3
<1>5. n # 0 /\ n - 1 \in Nat /\ n - 1 < n
  BY <1>4
<1>6. n - 1 \in T
  BY <1>4, <1>5
<1> QED
  BY <1>4, <1>5, <1>6

-----------------------------------------------------------------------------
(* The messages of a stretch of the stream *)

RtcmStep(s, g, i) ==
  IF i = 0 THEN <<>> ELSE IF s[i][1] = "rtcm" THEN Append(g[i - 1], s[i][2]) ELSE g[i - 1]

LEMMA RtcmUpToExists ==
  ASSUME NEW s, NEW n \in Nat
  PROVE  \E g : g = [i \in 0 .. n |-> RtcmStep(s, g, i)]
<1> DEFINE T == {k \in Nat : \E g : g = [i \in 0 .. k |-> RtcmStep(s, g, i)]}
<1>1. 0 \in T
  <2> DEFINE g == [i \in 0 .. 0 |-> <<>>]
  <2>1. g = [i \in 0 .. 0 |-> RtcmStep(s, g, i)]
    BY DEF RtcmStep
  <2> QED
    BY <2>1
<1>2. ASSUME NEW k \in T PROVE k + 1 \in T
  <2>1. PICK g : g = [i \in 0 .. k |-> RtcmStep(s, g, i)]
    BY <1>2
  <2> DEFINE h == [i \in 0 .. k + 1 |-> IF i = k + 1 THEN RtcmStep(s, g, k + 1) ELSE g[i]]
  <2>2. \A i \in 0 .. k : g[i] = RtcmStep(s, g, i)
    BY <2>1
  <2>3. \A i \in 0 .. k + 1 : h[i] = RtcmStep(s, h, i)
    BY <2>2 DEF RtcmStep
  <2>4. h = [i \in 0 .. k + 1 |-> RtcmStep(s, h, i)]
    BY <2>3
  <2> HIDE DEF h
  <2>5. \E f : f = [i \in 0 .. k + 1 |-> RtcmStep(s, f, i)]
    BY <2>4
  <2>6. k + 1 \in Nat
    OBVIOUS
  <2> QED
    BY <2>5, <2>6
<1>3. T = Nat
  <2> HIDE DEF T
  <2>1. T \in SUBSET Nat
    BY DEF T
  <2> QED
    BY <1>1, <1>2, <2>1, InductiveSet
<1> QED
  BY <1>3

LEMMA RtcmUpToStep ==
  ASSUME NEW S, NEW s \in Seq(S)
  PROVE  \A i \in 0 .. Len(s) : RtcmUpTo(s)[i] = RtcmStep(s, RtcmUpTo(s), i)
<1>1. Len(s) \in Nat
  BY LenProperties
<1>2. \E g : g = [i \in 0 .. Len(s) |-> RtcmStep(s, g, i)]
  BY <1>1, RtcmUpToExists
<1>3. RtcmUpTo(s) = CHOOSE g : g = [i \in 0 .. Len(s) |-> RtcmStep(s, g, i)]
  BY DEF RtcmUpTo, RtcmStep
<1>4. RtcmUpTo(s) = [i \in 0 .. Len(s) |-> RtcmStep(s, RtcmUpTo(s), i)]
  BY <1>2, <1>3, Zenon
<1> QED
  BY <1>4

LEMMA RtcmOfEmpty == RtcmOf(<<>>) = <<>>
<1>1. <<>> \in Seq({}) /\ Len(<<>>) = 0
  BY EmptySeq
<1>2. \A i \in 0 .. Len(<<>>) : RtcmUpTo(<<>>)[i] = RtcmStep(<<>>, RtcmUpTo(<<>>), i)
  BY <1>1, RtcmUpToStep
<1> QED
  BY <1>1, <1>2 DEF RtcmOf, RtcmStep

LEMMA RtcmUpToType ==
  ASSUME NEW s \in Seq(InPieces)
  PROVE  \A i \in 0 .. Len(s) : RtcmUpTo(s)[i] \in Seq(Messages)
<1> DEFINE T == {i \in Nat : i <= Len(s) => RtcmUpTo(s)[i] \in Seq(Messages)}
<1>0. Len(s) \in Nat
  BY LenProperties
<1>1. \A i \in 0 .. Len(s) : RtcmUpTo(s)[i] = RtcmStep(s, RtcmUpTo(s), i)
  BY RtcmUpToStep
<1>2. 0 \in T
  <2>1. RtcmUpTo(s)[0] = <<>>
    BY <1>0, <1>1 DEF RtcmStep
  <2> QED
    BY <2>1, EmptySeq
<1>3. ASSUME NEW i \in T PROVE i + 1 \in T
  <2> SUFFICES ASSUME i + 1 <= Len(s) PROVE RtcmUpTo(s)[i + 1] \in Seq(Messages)
    OBVIOUS
  <2>1. RtcmUpTo(s)[i] \in Seq(Messages)
    BY <1>0
  <2>2. RtcmUpTo(s)[i + 1] = RtcmStep(s, RtcmUpTo(s), i + 1)
    BY <1>0, <1>1
  <2>3. s[i + 1] \in InPieces
    BY <1>0, ElementOfSeq
  <2>4. s[i + 1][1] = "rtcm" => s[i + 1][2] \in Messages
    BY <2>3 DEF InPieces, Ends
  <2> QED
    BY <1>0, <2>1, <2>2, <2>4 DEF RtcmStep
<1>4. T = Nat
  <2> HIDE DEF T
  <2>1. T \in SUBSET Nat
    BY DEF T
  <2> QED
    BY <1>2, <1>3, <2>1, InductiveSet
<1> QED
  BY <1>0, <1>4

(* RtcmOf yields numbers of messages, and takes the stream apart anywhere. *)
LEMMA RtcmOfType ==
  ASSUME NEW s \in Seq(InPieces)
  PROVE  RtcmOf(s) \in Seq(Messages)
BY RtcmUpToType, LenProperties DEF RtcmOf

LEMMA RtcmUpToPrefix ==
  ASSUME NEW s \in Seq(InPieces), NEW t \in Seq(InPieces)
  PROVE  \A i \in 0 .. Len(s) : RtcmUpTo(s \o t)[i] = RtcmUpTo(s)[i]
<1> DEFINE T == {i \in Nat : i <= Len(s) => RtcmUpTo(s \o t)[i] = RtcmUpTo(s)[i]}
<1>0. /\ Len(s) \in Nat /\ Len(t) \in Nat
      /\ s \o t \in Seq(InPieces) /\ Len(s \o t) = Len(s) + Len(t)
      /\ \A i \in 1 .. Len(s) : (s \o t)[i] = s[i]
  BY LenProperties, ConcatProperties
<1>1. /\ \A i \in 0 .. Len(s) : RtcmUpTo(s)[i] = RtcmStep(s, RtcmUpTo(s), i)
      /\ \A i \in 0 .. Len(s \o t) : RtcmUpTo(s \o t)[i] = RtcmStep(s \o t, RtcmUpTo(s \o t), i)
  BY <1>0, RtcmUpToStep
<1>2. 0 \in T
  BY <1>0, <1>1 DEF RtcmStep
<1>3. ASSUME NEW i \in T PROVE i + 1 \in T
  <2> SUFFICES ASSUME i + 1 <= Len(s) PROVE RtcmUpTo(s \o t)[i + 1] = RtcmUpTo(s)[i + 1]
    OBVIOUS
  <2>1. RtcmUpTo(s \o t)[i] = RtcmUpTo(s)[i] /\ (s \o t)[i + 1] = s[i + 1]
    BY <1>0
  <2>2. /\ RtcmUpTo(s)[i + 1] = RtcmStep(s, RtcmUpTo(s), i + 1)
        /\ RtcmUpTo(s \o t)[i + 1] = RtcmStep(s \o t, RtcmUpTo(s \o t), i + 1)
    BY <1>0, <1>1
  <2> QED
    BY <2>1, <2>2 DEF RtcmStep
<1>4. T = Nat
  <2> HIDE DEF T
  <2>1. T \in SUBSET Nat
    BY DEF T
  <2> QED
    BY <1>2, <1>3, <2>1, InductiveSet
<1> QED
  BY <1>0, <1>4

LEMMA AppendMessage ==
  \A u, v \in Seq(Messages), m \in Messages : Append(u \o v, m) = u \o Append(v, m)
<1> TAKE u, v \in Seq(Messages), m \in Messages
<1>1. u \o v \in Seq(Messages) /\ <<m>> \in Seq(Messages)
  BY ConcatProperties
<1>2. Append(u \o v, m) = (u \o v) \o <<m>> /\ Append(v, m) = v \o <<m>>
  BY <1>1, AppendIsConcat
<1>3. (u \o v) \o <<m>> = u \o (v \o <<m>>)
  BY <1>1, ConcatAssociative
<1> QED
  BY <1>2, <1>3

LEMMA RtcmOfConcat ==
  ASSUME NEW s \in Seq(InPieces), NEW t \in Seq(InPieces)
  PROVE  RtcmOf(s \o t) = RtcmOf(s) \o RtcmOf(t)
<1> DEFINE T == {i \in Nat : i <= Len(t) =>
                   RtcmUpTo(s \o t)[Len(s) + i] = RtcmOf(s) \o RtcmUpTo(t)[i]}
<1>0. /\ Len(s) \in Nat /\ Len(t) \in Nat
      /\ s \o t \in Seq(InPieces) /\ Len(s \o t) = Len(s) + Len(t)
      /\ \A i \in 1 .. Len(t) : (s \o t)[Len(s) + i] = t[i]
  BY LenProperties, ConcatProperties
<1>1. /\ \A i \in 0 .. Len(t) : RtcmUpTo(t)[i] = RtcmStep(t, RtcmUpTo(t), i)
      /\ \A i \in 0 .. Len(s \o t) : RtcmUpTo(s \o t)[i] = RtcmStep(s \o t, RtcmUpTo(s \o t), i)
  BY <1>0, RtcmUpToStep
<1>2. RtcmOf(s) \in Seq(Messages) /\ \A i \in 0 .. Len(t) : RtcmUpTo(t)[i] \in Seq(Messages)
  BY RtcmOfType, RtcmUpToType
<1>3. 0 \in T
  <2>1. RtcmUpTo(s \o t)[Len(s)] = RtcmOf(s)
    BY <1>0, RtcmUpToPrefix DEF RtcmOf
  <2>2. RtcmUpTo(t)[0] = <<>>
    BY <1>0, <1>1 DEF RtcmStep
  <2> QED
    BY <1>0, <1>2, <2>1, <2>2, ConcatEmptySeq
<1>4. ASSUME NEW i \in T PROVE i + 1 \in T
  <2> SUFFICES ASSUME i + 1 <= Len(t)
               PROVE  RtcmUpTo(s \o t)[Len(s) + i + 1] = RtcmOf(s) \o RtcmUpTo(t)[i + 1]
    BY <1>0
  <2>1. RtcmUpTo(s \o t)[Len(s) + i] = RtcmOf(s) \o RtcmUpTo(t)[i]
    BY <1>0
  <2>2. /\ RtcmUpTo(t)[i + 1] = RtcmStep(t, RtcmUpTo(t), i + 1)
        /\ RtcmUpTo(s \o t)[Len(s) + i + 1] = RtcmStep(s \o t, RtcmUpTo(s \o t), Len(s) + i + 1)
        /\ (s \o t)[Len(s) + i + 1] = t[i + 1]
    BY <1>0, <1>1
  <2>3. t[i + 1][1] = "rtcm" => t[i + 1][2] \in Messages
    BY <1>0, ElementOfSeq, SMTT(60) DEF InPieces, Ends
  <2>4. ASSUME NEW m \in Messages
        PROVE  Append(RtcmOf(s) \o RtcmUpTo(t)[i], m) = RtcmOf(s) \o Append(RtcmUpTo(t)[i], m)
    <3>1. RtcmUpTo(t)[i] \in Seq(Messages)
      BY <1>0, <1>2
    <3>2. RtcmOf(s) \in Seq(Messages)
      BY <1>2
    <3>3. \A u, v \in Seq(Messages) : Append(u \o v, m) = u \o Append(v, m)
      BY AppendMessage
    <3> QED
      BY <3>1, <3>2, <3>3
  <2>5. /\ RtcmStep(t, RtcmUpTo(t), i + 1) =
             IF t[i + 1][1] = "rtcm" THEN Append(RtcmUpTo(t)[i], t[i + 1][2]) ELSE RtcmUpTo(t)[i]
        /\ RtcmStep(s \o t, RtcmUpTo(s \o t), Len(s) + i + 1) =
             IF t[i + 1][1] = "rtcm"
             THEN Append(RtcmUpTo(s \o t)[Len(s) + i], t[i + 1][2])
             ELSE RtcmUpTo(s \o t)[Len(s) + i]
    BY <1>0, <2>2 DEF RtcmStep
  <2> QED
    BY <2>1, <2>2, <2>3, <2>4, <2>5
<1>5. T = Nat
  <2> HIDE DEF T
  <2>1. T \in SUBSET Nat
    BY DEF T
  <2> QED
    BY <1>3, <1>4, <2>1, InductiveSet
<1>6. RtcmUpTo(s \o t)[Len(s) + Len(t)] = RtcmOf(s) \o RtcmUpTo(t)[Len(t)]
  <2>1. \A i \in T : i <= Len(t) => RtcmUpTo(s \o t)[Len(s) + i] = RtcmOf(s) \o RtcmUpTo(t)[i]
    OBVIOUS
  <2> HIDE DEF T
  <2>2. Len(t) \in T /\ Len(t) <= Len(t)
    BY <1>0, <1>5
  <2> QED
    BY <2>1, <2>2
<1> QED
  BY <1>0, <1>6 DEF RtcmOf

LEMMA RtcmOfOne ==
  ASSUME NEW x \in InPieces
  PROVE  RtcmOf(<<x>>) = IF x[1] = "rtcm" THEN <<x[2]>> ELSE <<>>
<1> DEFINE s == <<x>>
<1>1. s \in Seq(InPieces) /\ Len(s) = 1 /\ s[1] = x
  OBVIOUS
<1> HIDE DEF s
<1>2. \A i \in 0 .. Len(s) : RtcmUpTo(s)[i] = RtcmStep(s, RtcmUpTo(s), i)
  BY <1>1, RtcmUpToStep
<1>3. RtcmUpTo(s)[0] = <<>>
  BY <1>1, <1>2 DEF RtcmStep
<1>4. RtcmUpTo(s)[1] = RtcmStep(s, RtcmUpTo(s), 1)
  BY <1>1, <1>2
<1>5. RtcmStep(s, RtcmUpTo(s), 1)
        = IF s[1][1] = "rtcm" THEN Append(RtcmUpTo(s)[0], s[1][2]) ELSE RtcmUpTo(s)[0]
  BY DEF RtcmStep
<1>6. RtcmOf(s) = IF x[1] = "rtcm" THEN Append(<<>>, x[2]) ELSE <<>>
  BY <1>1, <1>3, <1>4, <1>5 DEF RtcmOf
<1> QED
  BY <1>6 DEF s

(* A stretch of the stream is cut anywhere, and both parts are stretches.  *)
LEMMA Cut ==
  ASSUME NEW s \in Seq(InPieces), NEW n \in 1 .. Len(s)
  PROVE  /\ SubSeq(s, 1, n) \in Seq(InPieces)
         /\ SubSeq(s, n + 1, Len(s)) \in Seq(InPieces)
         /\ s = SubSeq(s, 1, n) \o SubSeq(s, n + 1, Len(s))
<1>1. Len(s) \in Nat /\ \A i \in 1 .. Len(s) : s[i] \in InPieces
  BY LenProperties, ElementOfSeq
<1>2. SubSeq(s, 1, n) \in Seq(InPieces)
  <2>1. \A i \in 1 .. n : s[i] \in InPieces
    BY <1>1
  <2> QED
    BY <2>1, SubSeqProperties
<1>3. SubSeq(s, n + 1, Len(s)) \in Seq(InPieces)
  <2>1. \A i \in n + 1 .. Len(s) : s[i] \in InPieces
    BY <1>1
  <2> QED
    BY <1>1, <2>1, SubSeqProperties
<1>4. s = SubSeq(s, 1, n) \o SubSeq(s, n + 1, Len(s))
  <2>1. SubSeq(s, 1, n) \o SubSeq(s, n + 1, Len(s)) = SubSeq(s, 1, Len(s))
    BY <1>1, ConcatAdjacentSubSeq
  <2> QED
    BY <2>1, SubSeqFull
<1> QED
  BY <1>2, <1>3, <1>4

-----------------------------------------------------------------------------
(* Types.  The wake pipe holds one byte because wakeReader() runs once,    *)
(* and a writer that polls has a chunk to send.                            *)

WakeInv  == main \in {"spin", "close", "stop", "wakeup"} => wake = 0
ChunkInv ==
  \A t \in Threads : /\ wr[t] \in {"poll", "send"} => total[t] < SendChunks
                     /\ wr[t] = "lock" => total[t] = 0

ControlOK ==
  /\ sock \in {"none", "connecting", "up"}
  /\ active \in BOOLEAN /\ running \in BOOLEAN /\ shutting \in BOOLEAN
  /\ wake \in 0 .. 1
  /\ reader \in ReaderPCs
  /\ main \in MainPCs
  /\ rosOk \in BOOLEAN
  /\ ending \in Ends
  /\ peer \in {"ok", "fin", "reset"}
  /\ next \in 1 .. MaxRtcm + 1
  /\ ggas \in 0 .. MaxGga /\ faults \in 0 .. MaxFaults
  /\ WakeInv

WritersOK ==
  /\ wr \in [Threads -> WriterPCs]
  /\ total \in [Threads -> 0 .. SendChunks]
  /\ writeLock \in Threads \union {NoThread}
  /\ ChunkInv

StreamOK ==
  /\ response \in Seq(InPieces)
  /\ inbox \in Seq(InPieces)
  /\ got \in Seq(Messages)

OutOK == outbox \in Seq(Threads \X (1 .. SendChunks))

LEMMA ControlStep == ControlOK /\ Next => ControlOK'
<1> SUFFICES ASSUME ControlOK, Next PROVE ControlOK'
  OBVIOUS
<1> USE ClientAssumption
    DEF ControlOK, WakeInv, ReaderPCs, MainPCs, Ends, Goto, CloseSocket, KeepSocket, netVars,
        flagVars, mainVars, threadVars, vars
<1>1. CASE ReaderStep
  <2>1. CASE ReadLoop
    BY <2>1 DEF ReadLoop
  <2>2. CASE ResolveFails
    BY <2>2 DEF ResolveFails
  <2>3. CASE OpenConnection
    BY <2>3 DEF OpenConnection
  <2>4. CASE ConnectRefused
    BY <2>4 DEF ConnectRefused
  <2>5. CASE ConnectAccepted
    BY <2>5 DEF ConnectAccepted
  <2>6. CASE RequestSent
    BY <2>6 DEF RequestSent
  <2>7. CASE ReadHeader
    BY <2>7, SMTT(60) DEF ReadHeader, ReadUntil, WaitFails, TimesOut, Readable
  <2>8. CASE ParseResponse
    BY <2>8 DEF ParseResponse
  <2>9. CASE Refused
    BY <2>9 DEF Refused
  <2>10. CASE Announce
    BY <2>10 DEF Announce
  <2>11. CASE ConnectFailed
    BY <2>11 DEF ConnectFailed
  <2>12. CASE Wait
    BY <2>12 DEF Wait, WaitFails, Readable
  <2>13. CASE Lost
    BY <2>13, ZenonT(60) DEF Lost
  <2>14. CASE Recv
    BY <2>14, ZenonT(60) DEF Recv
  <2>15. CASE Sleep
    BY <2>15 DEF Sleep
  <2>16. CASE Final
    BY <2>16 DEF Final
  <2> QED
    BY <1>1, <2>1, <2>2, <2>3, <2>4, <2>5, <2>6, <2>7, <2>8, <2>9, <2>10, <2>11, <2>12, <2>13, <2>14, <2>15, <2>16 DEF ReaderStep
<1>2. CASE MainStep
  <2>1. CASE ExecutorReturns
    BY <2>1 DEF ExecutorReturns, MainMoves, MainFrame
  <2>2. CASE CloseBegin
    BY <2>2 DEF CloseBegin, MainMoves, MainFrame
  <2>3. CASE CloseStop
    BY <2>3, ZenonT(60) DEF CloseStop, MainMoves, MainFrame
  <2>4. CASE CloseWake
    BY <2>4 DEF CloseWake, MainMoves, MainFrame
  <2>5. CASE CloseJoin
    BY <2>5 DEF CloseJoin, MainMoves, MainFrame
  <2>6. CASE CloseEnd
    <3>1. /\ sock' = "none" /\ active' = FALSE /\ peer' = "ok" /\ wake' = 0
          /\ main' = "done" /\ ending' = ending /\ next' = next /\ faults' = faults
          /\ active' \in BOOLEAN
      BY <2>6 DEF CloseEnd, MainMoves
    <3>2. reader' = reader /\ ggas' = ggas
      BY <2>6 DEF CloseEnd, MainFrame
    <3>3. running' = running /\ shutting' = shutting /\ rosOk' = rosOk
      BY <2>6 DEF CloseEnd, MainFrame
    <3>4. running' \in BOOLEAN /\ shutting' \in BOOLEAN /\ rosOk' \in BOOLEAN
      BY <3>3, Zenon
    <3> QED
      BY <3>1, <3>2, <3>4
  <2> QED
    BY <1>2, <2>1, <2>2, <2>3, <2>4, <2>5, <2>6 DEF MainStep, Close
<1>3. ASSUME NEW t \in Threads, WriterStep(t) PROVE ControlOK'
  BY <1>3 DEF WriterStep, WriteLock, WriteCheck, WritePollFails, WritePollReady, WriteSend,
     writerFrame
<1>4. CASE SendNtripGga
  BY <1>4 DEF SendNtripGga, envFrame
<1>5. CASE GgaReturns
  BY <1>5 DEF GgaReturns, envFrame
<1>6. CASE Interrupt
  <2>1. rosOk' \in BOOLEAN
    BY <1>6, Zenon DEF Interrupt
  <2>2. running' = running /\ shutting' = shutting /\ active' = active
    BY <1>6 DEF Interrupt, envFrame
  <2>3. /\ sock' = sock /\ wake' = wake /\ reader' = reader /\ main' = main
        /\ ending' = ending /\ peer' = peer /\ next' = next /\ ggas' = ggas /\ faults' = faults
    BY <1>6 DEF Interrupt, envFrame
  <2>4. running' \in BOOLEAN /\ shutting' \in BOOLEAN /\ active' \in BOOLEAN
    BY <2>2, Zenon
  <2> QED
    BY <2>1, <2>3, <2>4
<1>7. CASE CasterSends
  BY <1>7 DEF CasterSends, envFrame
<1>8. CASE ConnectionEnds
  BY <1>8 DEF ConnectionEnds, envFrame
<1>9. CASE Finished
  BY <1>9 DEF Finished, envFrame
<1>10. ASSUME NEW status, CasterAnswers(status) PROVE ControlOK'
  BY <1>10 DEF CasterAnswers, envFrame
<1> QED
  BY <1>1, <1>2, <1>3, <1>4, <1>5, <1>6, <1>7, <1>8, <1>9, <1>10 DEF Next, Environment

LEMMA WritersStep == WritersOK /\ Next => WritersOK'
<1> SUFFICES ASSUME WritersOK, Next PROVE WritersOK'
  OBVIOUS
<1> USE ClientAssumption
    DEF WritersOK, ChunkInv, Threads, NoThread, WriterPCs, threadVars, vars
<1>1. CASE ReaderStep
  BY <1>1 DEF ReaderStep, ReadLoop, ResolveFails, OpenConnection, ConnectRefused,
     ConnectAccepted, RequestSent, ReadHeader, ReadUntil,
     ParseResponse, Refused, Announce, ConnectFailed, Wait, Lost, Recv, Sleep, Final
<1>2. CASE MainStep
  BY <1>2 DEF MainStep, ExecutorReturns, Close, CloseBegin, CloseStop, CloseWake, CloseJoin,
     CloseEnd, MainFrame
<1>3. ASSUME NEW t \in Threads, WriterStep(t) PROVE WritersOK'
  BY <1>3 DEF WriterStep, WriteLock, WriteCheck, WritePollFails, WritePollReady, WriteSend,
     WriterGoto, Returns
<1>4. CASE SendNtripGga \/ GgaReturns \/ Environment \/ Finished
  BY <1>4 DEF SendNtripGga, GgaReturns, Environment, Interrupt, CasterAnswers, CasterSends,
     ConnectionEnds, Finished, envFrame, WriterGoto
<1> QED
  BY <1>1, <1>2, <1>3, <1>4 DEF Next

(* What an action may do to the stream: throw away what is in flight, move *)
(* a stretch from the inbox to the response or to the callbacks, or add    *)
(* the caster's next pieces.                                               *)
StreamKept    == response' = response /\ inbox' = inbox /\ got' = got
StreamDropped == response' = <<>> /\ inbox' = <<>> /\ got' = got

Buffers ==
  \E n \in 1 .. Len(inbox) :
     /\ response' = response \o SubSeq(inbox, 1, n)
     /\ inbox' = SubSeq(inbox, n + 1, Len(inbox))
     /\ got' = got

Dispatches ==
  \/ got' = got \o RtcmOf(response) /\ response' = <<>> /\ inbox' = inbox
  \/ \E n \in 1 .. Len(inbox) :
        /\ got' = got \o RtcmOf(SubSeq(inbox, 1, n))
        /\ inbox' = SubSeq(inbox, n + 1, Len(inbox))
        /\ response' = response

LEMMA ReaderStreams ==
  ReaderStep => StreamKept \/ StreamDropped \/ Buffers \/ Dispatches
<1> USE DEF StreamKept, StreamDropped, KeepSocket, CloseSocket, netVars
<1>1. CASE ReadLoop \/ ResolveFails \/ OpenConnection \/ ConnectAccepted \/ RequestSent
  BY <1>1 DEF ReadLoop, ResolveFails, OpenConnection, ConnectAccepted, RequestSent
<1>2. CASE Announce \/ ConnectFailed \/ Wait \/ Sleep
  BY <1>2 DEF Announce, ConnectFailed, Wait, Sleep
<1>3. CASE ConnectRefused \/ Refused \/ Lost \/ Final
  BY <1>3 DEF ConnectRefused, Refused, Lost, Final
<1>4. CASE ReadHeader
  BY <1>4 DEF ReadHeader, ReadUntil, Buffers
<1>5. CASE ParseResponse
  BY <1>5 DEF ParseResponse, Dispatches
<1>6. CASE Recv
  BY <1>6 DEF Recv, Dispatches
<1> QED
  BY <1>1, <1>2, <1>3, <1>4, <1>5, <1>6 DEF ReaderStep

LEMMA StreamMoves ==
  ASSUME StreamOK, StreamKept \/ StreamDropped \/ Buffers \/ Dispatches
  PROVE  StreamOK'
<1> USE DEF StreamOK
<1>1. CASE StreamKept \/ StreamDropped
  BY <1>1, EmptySeq DEF StreamKept, StreamDropped
<1>2. CASE Buffers
  <2>1. PICK n \in 1 .. Len(inbox) :
          /\ response' = response \o SubSeq(inbox, 1, n)
          /\ inbox' = SubSeq(inbox, n + 1, Len(inbox))
          /\ got' = got
    BY <1>2 DEF Buffers
  <2>2. /\ SubSeq(inbox, 1, n) \in Seq(InPieces)
        /\ SubSeq(inbox, n + 1, Len(inbox)) \in Seq(InPieces)
    BY Cut
  <2>3. response \o SubSeq(inbox, 1, n) \in Seq(InPieces)
    BY <2>2, ConcatProperties
  <2> QED
    BY <2>1, <2>2, <2>3
<1>3. CASE got' = got \o RtcmOf(response) /\ response' = <<>> /\ inbox' = inbox
  <2>1. RtcmOf(response) \in Seq(Messages)
    BY RtcmOfType
  <2>2. got \o RtcmOf(response) \in Seq(Messages)
    BY <2>1, ConcatProperties
  <2> QED
    BY <1>3, <2>2, EmptySeq
<1>4. ASSUME NEW n \in 1 .. Len(inbox),
             got' = got \o RtcmOf(SubSeq(inbox, 1, n)),
             inbox' = SubSeq(inbox, n + 1, Len(inbox)),
             response' = response
      PROVE  StreamOK'
  <2>1. /\ SubSeq(inbox, 1, n) \in Seq(InPieces)
        /\ SubSeq(inbox, n + 1, Len(inbox)) \in Seq(InPieces)
    BY Cut
  <2>2. RtcmOf(SubSeq(inbox, 1, n)) \in Seq(Messages)
    BY <2>1, RtcmOfType
  <2>3. got \o RtcmOf(SubSeq(inbox, 1, n)) \in Seq(Messages)
    BY <2>2, ConcatProperties
  <2> QED
    BY <1>4, <2>1, <2>3
<1> QED
  BY <1>1, <1>2, <1>3, <1>4 DEF Dispatches

LEMMA StreamStep == ControlOK /\ StreamOK /\ Next => StreamOK'
<1> SUFFICES ASSUME ControlOK, StreamOK, Next PROVE StreamOK'
  OBVIOUS
<1>1. CASE ReaderStep
  BY <1>1, ReaderStreams, StreamMoves
<1>2. CASE MainStep
  BY <1>2, StreamMoves
  DEF MainStep, ExecutorReturns, Close, CloseBegin, CloseStop, CloseWake, CloseJoin, CloseEnd,
      StreamKept, StreamDropped, KeepSocket, CloseSocket, netVars
<1>3. CASE \/ \E t \in Threads : WriterStep(t)
           \/ SendNtripGga \/ GgaReturns \/ Interrupt \/ ConnectionEnds \/ Finished
  BY <1>3, StreamMoves
  DEF WriterStep, writerFrame, SendNtripGga, GgaReturns, Interrupt, ConnectionEnds, Finished,
      StreamKept, KeepSocket, netVars, envFrame, vars
<1>4. ASSUME NEW status \in {"ok", "bad"}, CasterAnswers(status) PROVE StreamOK'
  <2>1. <<status, 0>> \in InPieces /\ <<ending, 0>> \in InPieces
    BY DEF InPieces, ControlOK, Ends
  <2>2. <<<<status, 0>>, <<ending, 0>>>> \in Seq(InPieces)
    BY <2>1
  <2> QED
    BY <1>4, <2>2 DEF CasterAnswers, envFrame, StreamOK
<1>5. CASE CasterSends
  <2>1. <<"rtcm", next>> \in InPieces
    BY <1>5, ClientAssumption DEF CasterSends, ControlOK, InPieces, Messages
  <2>2. Append(inbox, <<"rtcm", next>>) \in Seq(InPieces)
    BY <2>1, AppendProperties DEF StreamOK
  <2> QED
    BY <1>5, <2>2 DEF CasterSends, envFrame, StreamOK
<1> QED
  BY <1>1, <1>2, <1>3, <1>4, <1>5 DEF Next, Environment

LEMMA OutStep == WritersOK /\ OutOK /\ Next => OutOK'
<1> SUFFICES ASSUME WritersOK, OutOK, Next PROVE OutOK'
  OBVIOUS
<1>1. ASSUME NEW t \in Threads, WriterStep(t) PROVE OutOK'
  <2>1. CASE outbox' = outbox
    BY <2>1 DEF OutOK
  <2>2. CASE wr[t] = "send" /\ outbox' = Append(outbox, <<t, total[t] + 1>>)
    <3>1. <<t, total[t] + 1>> \in Threads \X (1 .. SendChunks)
      BY <2>2, ClientAssumption DEF WritersOK, ChunkInv
    <3> QED
      BY <2>2, <3>1, AppendProperties DEF OutOK
  <2> QED
    BY <1>1, <2>1, <2>2
    DEF WriterStep, WriteLock, WriteCheck, WritePollFails, WritePollReady, WriteSend
<1>2. CASE outbox' = outbox \/ outbox' = <<>>
  BY <1>2, EmptySeq DEF OutOK
<1>3. CASE ReaderStep \/ MainStep
  BY <1>2, <1>3
  DEF ReaderStep, ReadLoop, ResolveFails, OpenConnection, ConnectRefused, ConnectAccepted,
      RequestSent, ReadHeader, ReadUntil, ParseResponse, Refused, Announce, ConnectFailed,
      Wait, Lost, Recv, Sleep, Final, MainStep, ExecutorReturns, Close, CloseBegin, CloseStop,
      CloseWake, CloseJoin, CloseEnd, CloseSocket, KeepSocket
<1>4. CASE SendNtripGga \/ GgaReturns \/ Environment \/ Finished
  BY <1>2, <1>4
  DEF SendNtripGga, GgaReturns, Environment, Interrupt, CasterAnswers, CasterSends,
      ConnectionEnds, Finished, KeepSocket, envFrame, vars
<1> QED
  BY <1>1, <1>3, <1>4 DEF Next

TypesInv == ControlOK /\ WritersOK /\ StreamOK /\ OutOK

LEMMA TypesInductive == Spec => []TypesInv
<1>1. Init => TypesInv
  <2> SUFFICES ASSUME Init PROVE TypesInv
    OBVIOUS
  <2>1. ControlOK
    <3>1. active \in BOOLEAN /\ running \in BOOLEAN /\ shutting \in BOOLEAN /\ rosOk \in BOOLEAN
      BY Zenon DEF Init
    <3> QED
      BY <3>1, ClientAssumption DEF Init, ControlOK, WakeInv, ReaderPCs, MainPCs
  <2>2. WritersOK
    BY ClientAssumption DEF Init, WritersOK, ChunkInv, WriterPCs, Threads
  <2>3. StreamOK /\ OutOK
    BY EmptySeq DEF Init, StreamOK, OutOK
  <2> QED
    BY <2>1, <2>2, <2>3 DEF TypesInv
<1>2. TypesInv /\ [Next]_vars => TypesInv'
  <2>1. CASE Next
    BY <2>1, ControlStep, WritersStep, StreamStep, OutStep DEF TypesInv
  <2>2. ASSUME TypesInv, UNCHANGED vars PROVE TypesInv'
    BY <2>2 DEF vars, flagVars, threadVars, mainVars, netVars, TypesInv, ControlOK, WritersOK,
       StreamOK, OutOK, WakeInv, ChunkInv
  <2> QED
    BY <2>1, <2>2
<1> QED
  BY <1>1, <1>2, PTL DEF Spec

(* Every variable of the client keeps its type; of the wake pipe this says *)
(* that no byte is left in it twice, and of got and outbox that only the   *)
(* caster's messages and chunks of a message are in them.                  *)
THEOREM TypeCorrect == Spec => []TypeOK
<1>1. TypesInv => TypeOK
  BY DEF TypesInv, ControlOK, WritersOK, StreamOK, OutOK, TypeOK
<1> QED
  BY <1>1, TypesInductive, PTL

-----------------------------------------------------------------------------
(* The write lock.  Its owner is the one thread between the lock_guard and *)
(* the return, and the last chunk on the connection is the owner's, unless *)
(* the connection is new.                                                  *)

LockInv ==
  \A t \in Threads : wr[t] \in {"check", "poll", "send"} <=> writeLock = t

LastInv ==
  \A t \in Threads :
    writeLock = t /\ total[t] > 0 /\ outbox # <<>> => outbox[Len(outbox)] = <<t, total[t]>>

ContiguousInv == LockInv /\ LastInv /\ MessagesContiguous

LEMMA ContiguousStep == TypesInv /\ ContiguousInv /\ Next => ContiguousInv'
<1> SUFFICES ASSUME TypesInv, ContiguousInv, Next PROVE ContiguousInv'
  OBVIOUS
<1>0. /\ Len(outbox) \in Nat
      /\ \A i \in 1 .. Len(outbox) : outbox[i] \in Threads \X (1 .. SendChunks)
      /\ (outbox # <<>>) <=> Len(outbox) > 0
  BY LenProperties, ElementOfSeq, EmptySeq DEF TypesInv, OutOK
<1>1. ASSUME outbox' = outbox \/ outbox' = <<>>,
             writeLock' = writeLock, total' = total, wr' = wr
      PROVE  ContiguousInv'
  BY <1>1, EmptySeq DEF ContiguousInv, LockInv, LastInv, MessagesContiguous
<1>2. ASSUME NEW t \in Threads, WriterStep(t) PROVE ContiguousInv'
  <2>1. LockInv'
    BY <1>2 DEF TypesInv, WritersOK, ContiguousInv, LockInv, Threads, NoThread, WriterStep,
       WriteLock, WriteCheck, WritePollFails, WritePollReady, WriteSend, WriterGoto, Returns
  <2>2. CASE outbox' = outbox
    <3>1. LastInv'
      BY <1>2, <2>2 DEF TypesInv, WritersOK, ChunkInv, ContiguousInv, LastInv, Threads, NoThread,
         WriterStep, WriteLock, WriteCheck, WritePollFails, WritePollReady, WriteSend,
         WriterGoto, Returns
    <3> QED
      BY <2>1, <2>2, <3>1 DEF ContiguousInv, MessagesContiguous
  <2>3. CASE /\ WriteSend(t) /\ outbox' = Append(outbox, <<t, total[t] + 1>>)
             /\ total' = [total EXCEPT ![t] = @ + 1] /\ writeLock' = writeLock
    <3>1. /\ writeLock = t /\ writeLock' = t
          /\ total' = [total EXCEPT ![t] = @ + 1]
          /\ total[t] \in 0 .. SendChunks
          /\ total'[t] = total[t] + 1
      <4>1. total \in [Threads -> 0 .. SendChunks]
        BY DEF TypesInv, WritersOK
      <4>2. /\ writeLock = t /\ writeLock' = writeLock
            /\ total' = [total EXCEPT ![t] = @ + 1]
        BY <2>3 DEF WriteSend, ContiguousInv, LockInv
      <4> QED
        BY <4>1, <4>2
    <3>2. /\ Len(outbox') = Len(outbox) + 1
          /\ outbox'[Len(outbox) + 1] = <<t, total[t] + 1>>
          /\ \A i \in 1 .. Len(outbox) : outbox'[i] = outbox[i]
      BY <1>0, <2>3, AppendProperties DEF TypesInv, OutOK
    <3>3. LastInv'
      BY <1>0, <3>1, <3>2 DEF LastInv
    <3>4. MessagesContiguous'
      <4> SUFFICES ASSUME NEW i \in 2 .. Len(outbox) + 1, outbox'[i][2] > 1
                   PROVE  outbox'[i - 1] = <<outbox'[i][1], outbox'[i][2] - 1>>
        BY <1>0, <3>2 DEF MessagesContiguous
      <4>1. CASE i <= Len(outbox)
        BY <1>0, <3>2, <4>1, SMTT(60) DEF ContiguousInv, MessagesContiguous
      <4>2. CASE i = Len(outbox) + 1
        <5>1. total[t] > 0 /\ outbox # <<>>
          BY <1>0, <3>1, <3>2, <4>2
        <5>2. outbox[Len(outbox)] = <<t, total[t]>>
          BY <3>1, <5>1 DEF ContiguousInv, LastInv
        <5>3. /\ outbox'[i - 1] = outbox[Len(outbox)]
              /\ outbox'[i][1] = t /\ outbox'[i][2] = total[t] + 1
          BY <1>0, <3>2, <4>2
        <5> QED
          BY <3>1, <5>2, <5>3
      <4> QED
        BY <1>0, <4>1, <4>2
    <3> QED
      BY <2>1, <3>3, <3>4 DEF ContiguousInv
  <2> QED
    BY <1>2, <2>2, <2>3
    DEF WriterStep, WriteLock, WriteCheck, WritePollFails, WritePollReady, WriteSend
<1>3. CASE ConnectAccepted \/ RequestSent \/ SendNtripGga \/ GgaReturns
  <2>1. outbox' = outbox /\ writeLock' = writeLock
    BY <1>3 DEF ConnectAccepted, RequestSent, SendNtripGga, GgaReturns, KeepSocket, threadVars
  <2>2. LockInv'
    BY <1>3, <2>1 DEF TypesInv, WritersOK, ContiguousInv, LockInv, Threads, ConnectAccepted,
       RequestSent, SendNtripGga, GgaReturns, WriterGoto
  <2>3. LastInv'
    BY <1>3, <2>1 DEF TypesInv, WritersOK, ContiguousInv, LockInv, LastInv, Threads, ConnectAccepted,
       RequestSent, SendNtripGga, GgaReturns, WriterGoto
  <2> QED
    BY <2>1, <2>2, <2>3 DEF ContiguousInv, MessagesContiguous
<1>4. CASE \/ ReadLoop \/ ResolveFails \/ OpenConnection \/ ConnectRefused
           \/ ReadHeader \/ ParseResponse \/ Refused \/ Announce \/ ConnectFailed
           \/ Wait \/ Lost \/ Recv \/ Sleep \/ Final \/ MainStep
  BY <1>1, <1>4
  DEF ReadLoop, ResolveFails, OpenConnection, ConnectRefused, ReadHeader, ReadUntil,
      ParseResponse, Refused, Announce, ConnectFailed, Wait, Lost, Recv, Sleep, Final, MainStep,
      ExecutorReturns, Close, CloseBegin, CloseStop, CloseWake, CloseJoin, CloseEnd, MainFrame,
      CloseSocket, KeepSocket, threadVars
<1>5. CASE Environment \/ Finished
  BY <1>1, <1>5
  DEF Environment, Interrupt, CasterAnswers, CasterSends, ConnectionEnds, Finished, envFrame,
      threadVars, vars
<1> QED
  BY <1>2, <1>3, <1>4, <1>5 DEF Next, ReaderStep

(* However the two writers, reconnects and resets interleave, the chunks   *)
(* of a message follow each other on the connection.                       *)
THEOREM MessagesContiguousHolds == Spec => []MessagesContiguous
<1>1. Init => ContiguousInv
  BY EmptySeq DEF Init, ContiguousInv, LockInv, LastInv, MessagesContiguous, Threads, NoThread
<1>2. TypesInv /\ ContiguousInv /\ [Next]_vars => ContiguousInv'
  <2>1. CASE Next
    BY <2>1, ContiguousStep
  <2>2. ASSUME ContiguousInv, UNCHANGED vars PROVE ContiguousInv'
    BY <2>2 DEF vars, threadVars, ContiguousInv, LockInv, LastInv, MessagesContiguous
  <2> QED
    BY <2>1, <2>2
<1>3. ContiguousInv => MessagesContiguous
  BY DEF ContiguousInv
<1> QED
  BY <1>1, <1>2, <1>3, TypesInductive, PTL DEF Spec

-----------------------------------------------------------------------------
(* The refinement of RtcmLink.  Where the reader stands decides whether    *)
(* there is a socket and whether it has been announced; without a socket   *)
(* nothing is in flight; and main touches the socket only when the reader  *)
(* is gone.                                                                *)

SockInv ==
  /\ sock = "none" => ~active /\ response = <<>> /\ inbox = <<>>
  /\ reader \in {"open", "failed", "sleep", "exited"} => sock = "none"
  /\ reader = "connecting" => sock = "connecting" /\ ~active
  /\ reader \in {"request", "untilCrlf", "untilLf", "parse", "refused", "announce"} =>
       sock = "up" /\ ~active
  /\ reader \in {"wait", "recv", "lost"} => sock = "up" /\ active
  /\ reader \in {"loop", "final"} => sock = "none" \/ (sock = "up" /\ active)
  /\ reader \notin {"untilCrlf", "untilLf", "parse", "refused"} => response = <<>>

StopInv ==
  /\ main \in {"spin", "close", "stop"} => running
  /\ main \in {"closeSocket", "done"} => reader = "exited"

Flight   == RtcmOf(response \o inbox)
CountInv == Len(Flight) < next

LEMMA StopStep == ControlOK /\ StopInv /\ Next => StopInv'
<1> SUFFICES ASSUME ControlOK, StopInv, Next PROVE StopInv'
  OBVIOUS
<1> USE DEF StopInv
<1>1. CASE ReaderStep
  BY <1>1
  DEF ReaderStep, ReadLoop, ResolveFails, OpenConnection, ConnectRefused, ConnectAccepted,
      RequestSent, ReadHeader, ReadUntil, ParseResponse, Refused, Announce, ConnectFailed,
      Wait, Lost, Recv, Sleep, Final, Goto, mainVars, flagVars
<1>2. CASE MainStep
  BY <1>2
  DEF ControlOK, MainPCs, MainStep, ExecutorReturns, Close, CloseBegin, CloseStop, CloseWake,
      CloseJoin, CloseEnd, MainMoves, MainFrame, flagVars
<1>3. CASE \/ \E t \in Threads : WriterStep(t)
           \/ SendNtripGga \/ GgaReturns \/ Environment \/ Finished
  BY <1>3
  DEF WriterStep, writerFrame, SendNtripGga, GgaReturns, Environment, Interrupt, CasterAnswers,
      CasterSends, ConnectionEnds, Finished, envFrame, mainVars, flagVars, vars
<1> QED
  BY <1>1, <1>2, <1>3 DEF Next

LEMMA SockStep == ControlOK /\ StopInv /\ SockInv /\ Next => SockInv'
<1> SUFFICES ASSUME ControlOK, StopInv, SockInv, Next PROVE SockInv'
  OBVIOUS
<1> USE DEF SockInv, Goto, CloseSocket, KeepSocket, netVars
<1>1. CASE ReadLoop
  BY <1>1 DEF ReadLoop
<1>2. CASE ResolveFails \/ OpenConnection \/ ConnectRefused \/ ConnectAccepted \/ RequestSent
  BY <1>2 DEF ResolveFails, OpenConnection, ConnectRefused, ConnectAccepted, RequestSent
<1>3. CASE ReadHeader
  BY <1>3 DEF ReadHeader, ReadUntil
<1>4. CASE ParseResponse \/ Refused \/ Announce \/ ConnectFailed
  BY <1>4 DEF ParseResponse, Refused, Announce, ConnectFailed
<1>5. CASE Wait \/ Lost \/ Recv \/ Sleep \/ Final
  BY <1>5 DEF Wait, Lost, Recv, Sleep, Final
<1>6. CASE MainStep
  BY <1>6 DEF MainStep, ExecutorReturns, Close, CloseBegin, CloseStop, CloseWake, CloseJoin,
     CloseEnd, MainMoves, MainFrame, StopInv
<1>7. CASE \/ \E t \in Threads : WriterStep(t)
           \/ SendNtripGga \/ GgaReturns \/ Interrupt \/ ConnectionEnds \/ Finished
  BY <1>7
  DEF WriterStep, writerFrame, SendNtripGga, GgaReturns, Interrupt, ConnectionEnds, Finished,
      envFrame, vars
<1>8. ASSUME NEW status, CasterAnswers(status) PROVE SockInv'
  BY <1>8 DEF CasterAnswers, Unanswered, envFrame
<1>9. CASE CasterSends
  <2>1. \/ inbox # <<>> \/ response # <<>>
        \/ reader \in {"announce", "wait", "recv", "loop"} /\ sock = "up"
    BY <1>9, EmptySeq DEF CasterSends, Has
  <2> QED
    BY <1>9, <2>1 DEF CasterSends, envFrame
<1> QED
  BY <1>1, <1>2, <1>3, <1>4, <1>5, <1>6, <1>7, <1>8, <1>9 DEF Next, ReaderStep, Environment

LEMMA Split ==
  ASSUME NEW u \in Seq(Messages), NEW v \in Seq(Messages)
  PROVE  /\ SubSeq(u \o v, 1, Len(u)) = u
         /\ SubSeq(u \o v, Len(u) + 1, Len(u \o v)) = v
<1>1. /\ Len(u) \in Nat /\ Len(v) \in Nat
      /\ u \o v \in Seq(Messages) /\ Len(u \o v) = Len(u) + Len(v)
  BY ConcatProperties, LenProperties
<1>2. SubSeq(u \o v, 1, Len(u)) = u
  <2>1. CASE Len(u) = 0
    <3>1. SubSeq(u \o v, 1, 0) = <<>>
      BY SubSeqEmpty
    <3> QED
      BY <2>1, <3>1, EmptySeq
  <2>2. CASE Len(u) > 0
    <3>1. SubSeq(u \o v, 1, Len(u)) = SubSeq(u, 1, Len(u))
      BY <1>1, <2>2, SubSeqOfConcat1
    <3> QED
      BY <3>1, SubSeqFull
  <2> QED
    BY <1>1, <2>1, <2>2
<1>3. SubSeq(u \o v, Len(u) + 1, Len(u) + Len(v)) = v
  <2>1. CASE Len(v) = 0
    <3>1. SubSeq(u \o v, Len(u) + 1, Len(u)) = <<>>
      BY <1>1, SubSeqEmpty
    <3> QED
      BY <1>1, <2>1, <3>1, EmptySeq
  <2>2. CASE Len(v) > 0
    <3>1. SubSeq(u \o v, Len(u) + 1, Len(u) + Len(v))
            = SubSeq(v, Len(u) + 1 - Len(u), Len(u) + Len(v) - Len(u))
      BY <1>1, <2>2, SubSeqOfConcat2
    <3>2. Len(u) + 1 - Len(u) = 1 /\ Len(u) + Len(v) - Len(u) = Len(v)
      BY <1>1
    <3>3. SubSeq(v, 1, Len(v)) = v
      BY SubSeqFull
    <3> QED
      BY <3>1, <3>2, <3>3
  <2> QED
    BY <1>1, <2>1, <2>2
<1> QED
  BY <1>1, <1>2, <1>3

(* The link, as the client's state maps to it *)
LinkState == IF sock = "none" THEN "down" ELSE IF active THEN "announced" ELSE "up"

FlightKept == Flight' = Flight /\ got' = got /\ next' = next

LEMMA FlightType == StreamOK => response \o inbox \in Seq(InPieces) /\ Flight \in Seq(Messages)
BY ConcatProperties, RtcmOfType DEF StreamOK, Flight

LEMMA FlightEmpty == response = <<>> /\ inbox = <<>> => Flight = <<>>
<1>1. <<>> \o <<>> = <<>>
  BY EmptySeq, ConcatEmptySeq
<1> QED
  BY <1>1, RtcmOfEmpty DEF Flight

(* A stretch moved from the inbox to the response stays in flight. *)
LEMMA BuffersKeepsFlight == StreamOK /\ Buffers => Flight' = Flight
<1> SUFFICES ASSUME StreamOK, Buffers PROVE Flight' = Flight
  OBVIOUS
<1>1. PICK n \in 1 .. Len(inbox) :
        /\ response' = response \o SubSeq(inbox, 1, n)
        /\ inbox' = SubSeq(inbox, n + 1, Len(inbox))
  BY DEF Buffers
<1> DEFINE a == SubSeq(inbox, 1, n)
           b == SubSeq(inbox, n + 1, Len(inbox))
<1>2. /\ response \in Seq(InPieces)
      /\ a \in Seq(InPieces) /\ b \in Seq(InPieces) /\ inbox = a \o b
  BY Cut DEF StreamOK
<1>3. response' = response \o a /\ inbox' = b
  BY <1>1
<1> HIDE DEF a, b
<1>4. (response \o a) \o b = response \o (a \o b)
  BY <1>2, ConcatAssociative
<1> QED
  BY <1>2, <1>3, <1>4 DEF Flight

(* A dispatch hands the front of what is in flight to the callbacks. *)
LEMMA DispatchDelivers ==
  ASSUME StreamOK, Dispatches, response = <<>> \/ response' = <<>>
  PROVE  \E u, v \in Seq(Messages) : Flight = u \o v /\ Flight' = v /\ got' = got \o u
<1>0. response \in Seq(InPieces) /\ inbox \in Seq(InPieces)
  BY DEF StreamOK
<1>1. CASE got' = got \o RtcmOf(response) /\ response' = <<>> /\ inbox' = inbox
  <2>1. Flight = RtcmOf(response) \o RtcmOf(inbox)
    BY <1>0, RtcmOfConcat DEF Flight
  <2>2. <<>> \o inbox = inbox
    BY <1>0, ConcatEmptySeq
  <2>3. Flight' = RtcmOf(inbox)
    BY <1>1, <2>2 DEF Flight
  <2>4. RtcmOf(response) \in Seq(Messages) /\ RtcmOf(inbox) \in Seq(Messages)
    BY <1>0, RtcmOfType
  <2> QED
    BY <1>1, <2>1, <2>3, <2>4
<1>2. CASE \E n \in 1 .. Len(inbox) :
             /\ got' = got \o RtcmOf(SubSeq(inbox, 1, n))
             /\ inbox' = SubSeq(inbox, n + 1, Len(inbox))
             /\ response' = response
  <2>1. PICK n \in 1 .. Len(inbox) :
          /\ got' = got \o RtcmOf(SubSeq(inbox, 1, n))
          /\ inbox' = SubSeq(inbox, n + 1, Len(inbox))
          /\ response' = response
    BY <1>2
  <2> DEFINE a == SubSeq(inbox, 1, n)
             b == SubSeq(inbox, n + 1, Len(inbox))
  <2>2. a \in Seq(InPieces) /\ b \in Seq(InPieces) /\ inbox = a \o b
    BY <1>0, Cut
  <2>3. got' = got \o RtcmOf(a) /\ inbox' = b /\ response = <<>> /\ response' = <<>>
    BY <2>1
  <2> HIDE DEF a, b
  <2>4. <<>> \o inbox = inbox /\ <<>> \o b = b
    BY <1>0, <2>2, ConcatEmptySeq
  <2>5. Flight = RtcmOf(a) \o RtcmOf(b) /\ Flight' = RtcmOf(b)
    BY <2>2, <2>3, <2>4, RtcmOfConcat DEF Flight
  <2>6. RtcmOf(a) \in Seq(Messages) /\ RtcmOf(b) \in Seq(Messages)
    BY <2>2, RtcmOfType
  <2> QED
    BY <2>3, <2>5, <2>6
<1> QED
  BY <1>1, <1>2 DEF Dispatches

LEMMA DeliverImplements ==
  ASSUME StreamOK, CountInv, next \in 1 .. MaxRtcm + 1, sock # "none", LinkState' = LinkState,
         next' = next,
         NEW u \in Seq(Messages), NEW v \in Seq(Messages),
         Flight = u \o v, Flight' = v, got' = got \o u
  PROVE  CountInv' /\ (Link!Next \/ UNCHANGED Link!linkVars)
<1>1. Len(u) \in Nat /\ Len(v) \in Nat /\ Len(Flight) = Len(u) + Len(v)
  BY ConcatProperties, LenProperties
<1>2. CountInv'
  BY <1>1 DEF CountInv
<1>3. CASE u = <<>>
  <2>1. got \o <<>> = got /\ <<>> \o v = v
    BY ConcatEmptySeq DEF StreamOK
  <2> QED
    BY <1>2, <1>3, <2>1 DEF Link!linkVars, LinkState, Flight
<1>4. CASE u # <<>>
  <2>1. Len(u) \in 1 .. Len(Flight) /\ Len(u) \in 1 .. MaxRtcm
    BY <1>1, <1>4, EmptySeq, ClientAssumption DEF CountInv
  <2>2. SubSeq(Flight, 1, Len(u)) = u /\ SubSeq(Flight, Len(u) + 1, Len(Flight)) = v
    BY Split
  <2>3. Link!Deliver(Len(u))
    BY <2>1, <2>2 DEF Link!Deliver, LinkState, Flight
  <2> QED
    BY <1>2, <2>1, <2>3 DEF Link!Next
<1> QED
  BY <1>3, <1>4

LEMMA StutterImplements ==
  ASSUME CountInv, Flight' = Flight, LinkState' = LinkState, got' = got, next' = next
  PROVE  CountInv' /\ UNCHANGED Link!linkVars
BY DEF CountInv, Link!linkVars, LinkState, Flight

(* closeSocket() is the end of a connection, or of nothing *)
LEMMA CloseImplements ==
  ASSUME SockInv, CountInv, next \in Nat \ {0}, CloseSocket
  PROVE  CountInv' /\ (Link!Next \/ UNCHANGED Link!linkVars)
<1>1. Flight' = <<>> /\ LinkState' = "down" /\ got' = got /\ next' = next
  <2>1. <<>> \o <<>> = <<>>
    BY EmptySeq, ConcatEmptySeq
  <2> QED
    BY <2>1, RtcmOfEmpty DEF CloseSocket, LinkState, Flight
<1>2. CountInv'
  BY <1>1, EmptySeq DEF CountInv
<1>3. CASE sock = "none"
  <2>1. Flight = <<>> /\ LinkState = "down"
    BY <1>3, FlightEmpty DEF SockInv, LinkState
  <2> QED
    BY <1>1, <2>1, StutterImplements
<1>4. CASE sock # "none"
  <2>1. Link!Disconnect
    BY <1>1, <1>4 DEF Link!Disconnect, LinkState, Flight
  <2> QED
    BY <1>2, <2>1 DEF Link!Next
<1> QED
  BY <1>3, <1>4

LEMMA AnswerImplements ==
  ASSUME StreamOK, CountInv, ending \in Ends, NEW status \in {"ok", "bad"}, CasterAnswers(status)
  PROVE  CountInv' /\ UNCHANGED Link!linkVars
<1>1. <<status, 0>> \in InPieces /\ <<ending, 0>> \in InPieces /\ ending # "rtcm"
  BY DEF InPieces, Ends
<1> DEFINE x == <<status, 0>>
           y == <<ending, 0>>
<1>2. /\ <<x>> \in Seq(InPieces) /\ <<y>> \in Seq(InPieces)
      /\ <<x, y>> = <<x>> \o <<y>> /\ <<x, y>> \in Seq(InPieces)
  BY <1>1
<1>3. RtcmOf(<<x>>) = <<>> /\ RtcmOf(<<y>>) = <<>>
  BY <1>1, RtcmOfOne
<1>4. response = <<>> /\ inbox = <<>> /\ response' = <<>> /\ inbox' = <<x, y>>
  BY DEF CasterAnswers, Unanswered, envFrame
<1>5. sock' = sock /\ active' = active /\ got' = got /\ next' = next
  BY DEF CasterAnswers, envFrame
<1> HIDE DEF x, y
<1>6. <<>> \o <<x, y>> = <<x, y>> /\ RtcmOf(<<x, y>>) = <<>>
  <2>1. <<>> \o <<x, y>> = <<x, y>> /\ <<>> \o <<>> = <<>>
    BY <1>2, EmptySeq, ConcatEmptySeq
  <2>2. RtcmOf(<<x>> \o <<y>>) = RtcmOf(<<x>>) \o RtcmOf(<<y>>)
    BY <1>2, RtcmOfConcat
  <2> QED
    BY <1>2, <1>3, <2>1, <2>2
<1>7. Flight = <<>> /\ Flight' = <<>>
  BY <1>4, <1>6, FlightEmpty DEF Flight
<1> QED
  BY <1>5, <1>7, StutterImplements DEF LinkState

LEMMA SendImplements ==
  ASSUME ControlOK, StreamOK, SockInv, CountInv, CasterSends
  PROVE  CountInv' /\ Link!Next
<1> DEFINE x == <<"rtcm", next>>
<1>1. next \in Nat \ {0} /\ next \in Messages /\ MaxRtcm \in Nat /\ next <= MaxRtcm
  BY ClientAssumption DEF ControlOK, CasterSends, Messages
<1>2. x \in InPieces /\ x[1] = "rtcm" /\ x[2] = next
  BY <1>1 DEF InPieces
<1>3. /\ response' = response /\ inbox' = Append(inbox, x) /\ next' = next + 1
      /\ sock' = sock /\ active' = active /\ got' = got
  BY DEF CasterSends, envFrame
<1>4. response \in Seq(InPieces) /\ inbox \in Seq(InPieces)
  BY DEF StreamOK
<1> HIDE DEF x
<1>5. <<x>> \in Seq(InPieces) /\ Append(inbox, x) = inbox \o <<x>>
  BY <1>2, <1>4, AppendIsConcat
<1>6. RtcmOf(<<x>>) = <<next>>
  BY <1>2, RtcmOfOne
<1>7. /\ response \o (inbox \o <<x>>) = (response \o inbox) \o <<x>>
      /\ response \o inbox \in Seq(InPieces)
  BY <1>4, <1>5, ConcatAssociative, ConcatProperties
<1>8. Flight' = Flight \o <<next>>
  BY <1>3, <1>5, <1>6, <1>7, RtcmOfConcat DEF Flight
<1>9. Flight \in Seq(Messages) /\ <<next>> \in Seq(Messages) /\ Len(<<next>>) = 1
  BY <1>1, FlightType
<1>10. CountInv'
  <2>1. Len(Flight') = Len(Flight) + 1 /\ Len(Flight) \in Nat
    BY <1>8, <1>9, ConcatProperties, LenProperties
  <2> QED
    BY <1>1, <1>3, <2>1 DEF CountInv
<1>11. sock # "none"
  <2>1. \/ inbox # <<>> \/ response # <<>>
        \/ reader \in {"announce", "wait", "recv", "loop"} /\ sock = "up"
    BY EmptySeq DEF CasterSends, Has
  <2> QED
    BY <2>1 DEF SockInv
<1>12. Link!Send(1)
  <2>1. [i \in 1 .. 1 |-> next + i - 1] = <<next>>
    BY <1>1
  <2>2. LinkState' = LinkState /\ LinkState # "down" /\ next + 1 <= MaxRtcm + 1
    BY <1>1, <1>3, <1>11 DEF LinkState
  <2> QED
    BY <1>3, <1>8, <2>1, <2>2 DEF Link!Send, LinkState, Flight
<1> QED
  BY <1>1, <1>10, <1>12 DEF Link!Next

LEMMA LinkStep ==
  ASSUME TypesInv, SockInv, StopInv, CountInv, Next
  PROVE  CountInv' /\ (Link!Next \/ UNCHANGED Link!linkVars)
<1>0. ControlOK /\ StreamOK /\ next \in Nat \ {0} /\ next \in 1 .. MaxRtcm + 1
  BY ClientAssumption DEF TypesInv, ControlOK
<1>1. ASSUME StreamKept, next' = next, LinkState' = LinkState
      PROVE  CountInv' /\ UNCHANGED Link!linkVars
  BY <1>1, StutterImplements DEF StreamKept, Flight
<1>2. CASE \/ ReadLoop \/ ResolveFails \/ ConnectAccepted \/ RequestSent \/ ConnectFailed
           \/ Wait \/ Sleep
  <2>1. StreamKept /\ next' = next
    BY <1>2 DEF ReadLoop, ResolveFails, ConnectAccepted, RequestSent, ConnectFailed, Wait, Sleep,
       StreamKept, KeepSocket, netVars
  <2>2. LinkState' = LinkState
    BY <1>2 DEF ReadLoop, ResolveFails, ConnectAccepted, RequestSent, ConnectFailed, Wait, Sleep,
       KeepSocket, LinkState, SockInv
  <2> QED
    BY <1>1, <2>1, <2>2
<1>3. CASE OpenConnection
  <2>1. StreamKept /\ next' = next /\ LinkState = "down" /\ LinkState' = "up"
    BY <1>3 DEF OpenConnection, StreamKept, SockInv, netVars, LinkState
  <2>2. Flight' = Flight /\ got' = got /\ CountInv'
    BY <2>1 DEF StreamKept, Flight, CountInv
  <2>3. Link!Connect
    BY <2>1, <2>2 DEF Link!Connect, LinkState, Flight
  <2> QED
    BY <2>2, <2>3 DEF Link!Next
<1>4. CASE Announce
  <2>1. StreamKept /\ next' = next /\ LinkState = "up" /\ LinkState' = "announced"
    <3>1. StreamKept /\ next' = next /\ sock = "up" /\ ~active
      BY <1>4 DEF Announce, StreamKept, SockInv, netVars
    <3>2. sock' = sock /\ active' = TRUE
      BY <1>4 DEF Announce
    <3> QED
      BY <3>1, <3>2 DEF LinkState
  <2>2. Flight' = Flight /\ got' = got /\ CountInv'
    BY <2>1 DEF StreamKept, Flight, CountInv
  <2>3. Link!Announce
    BY <2>1, <2>2 DEF Link!Announce, LinkState, Flight
  <2> QED
    BY <2>2, <2>3 DEF Link!Next
<1>5. CASE CloseSocket
  BY <1>0, <1>5, CloseImplements
<1>6. CASE ConnectRefused \/ Refused \/ Final
  BY <1>5, <1>6 DEF ConnectRefused, Refused, Final
<1>7. CASE Lost
  <2>1. CASE StreamKept /\ next' = next /\ LinkState' = LinkState
    BY <1>1, <2>1
  <2> QED
    BY <1>5, <1>7, <2>1 DEF Lost, KeepSocket, netVars, StreamKept, LinkState
<1>8. CASE Dispatches /\ next' = next /\ sock' = sock /\ active' = active /\ sock # "none"
           /\ (response = <<>> \/ response' = <<>>)
  <2>1. PICK u, v \in Seq(Messages) : Flight = u \o v /\ Flight' = v /\ got' = got \o u
    BY <1>0, <1>8, DispatchDelivers
  <2>2. LinkState' = LinkState
    BY <1>8 DEF LinkState
  <2> QED
    BY <1>0, <1>8, <2>1, <2>2, DeliverImplements
<1>9. CASE ParseResponse
  <2>1. next' = next /\ sock' = sock /\ active' = active /\ sock # "none"
    BY <1>9 DEF ParseResponse, KeepSocket, netVars, SockInv
  <2>2. StreamKept \/ (Dispatches /\ response' = <<>>)
    BY <1>9 DEF ParseResponse, KeepSocket, netVars, StreamKept, Dispatches
  <2> QED
    BY <1>1, <1>8, <2>1, <2>2 DEF LinkState
<1>10. CASE Recv
  <2>1. CASE peer # "reset" /\ ~CloseSocket
    <3>1. next' = next /\ sock' = sock /\ active' = active /\ sock # "none" /\ response = <<>>
      BY <1>10, <2>1 DEF Recv, SockInv
    <3>2. Dispatches
      BY <1>10, <2>1 DEF Recv, Dispatches
    <3> QED
      BY <1>8, <3>1, <3>2
  <2> QED
    BY <1>5, <1>10, <2>1 DEF Recv
<1>11. CASE ReadHeader
  <2>1. next' = next /\ sock' = sock /\ active' = active /\ got' = got
    BY <1>11 DEF ReadHeader, ReadUntil
  <2>2. StreamKept \/ Buffers
    BY <1>11 DEF ReadHeader, ReadUntil, StreamKept, Buffers
  <2>3. Flight' = Flight
    BY <1>0, <2>2, BuffersKeepsFlight DEF StreamKept, Flight
  <2> QED
    BY <2>1, <2>3, StutterImplements DEF LinkState
<1>12. CASE MainStep
  <2>1. CASE CloseEnd
    BY <1>5, <2>1 DEF CloseEnd
  <2>2. CASE ExecutorReturns \/ CloseBegin \/ CloseStop \/ CloseWake \/ CloseJoin
    BY <1>1, <2>2 DEF ExecutorReturns, CloseBegin, CloseStop, CloseWake, CloseJoin, KeepSocket,
       netVars, StreamKept, LinkState
  <2> QED
    BY <1>12, <2>1, <2>2 DEF MainStep, Close
<1>13. CASE \/ \E t \in Threads : WriterStep(t)
            \/ SendNtripGga \/ GgaReturns \/ Interrupt \/ ConnectionEnds \/ Finished
  BY <1>1, <1>13
  DEF WriterStep, writerFrame, SendNtripGga, GgaReturns, Interrupt, ConnectionEnds, Finished,
      envFrame, vars, KeepSocket, netVars, StreamKept, LinkState
<1>14. CASE CasterAnswers("ok") \/ CasterAnswers("bad")
  BY <1>0, <1>14, AnswerImplements DEF ControlOK
<1>15. CASE CasterSends
  BY <1>0, <1>15, SendImplements
<1> QED
  BY <1>2, <1>3, <1>4, <1>6, <1>7, <1>9, <1>10, <1>11, <1>12, <1>13, <1>14, <1>15
  DEF Next, ReaderStep, Environment

(* Every behaviour of the client is one of RtcmLink: in order, once, no    *)
(* hole within a connection, and no connection attempted before the loss   *)
(* of the last one has been told.                                          *)
THEOREM LinkImplemented == Spec => LinkSpec
<1> DEFINE LinkInv == SockInv /\ StopInv /\ CountInv
<1>1. Init => LinkInv /\ Link!Init
  <2> SUFFICES ASSUME Init PROVE LinkInv /\ Link!Init
    OBVIOUS
  <2>1. Flight = <<>>
    BY FlightEmpty DEF Init
  <2>2. SockInv /\ StopInv
    BY DEF Init, SockInv, StopInv
  <2>3. CountInv
    BY <2>1, EmptySeq DEF Init, CountInv
  <2>4. Link!Init
    BY <2>1 DEF Init, Link!Init, Flight
  <2> QED
    BY <2>2, <2>3, <2>4
<1>2. TypesInv /\ LinkInv /\ [Next]_vars => LinkInv' /\ [Link!Next]_Link!linkVars
  <2>1. ASSUME TypesInv, LinkInv, Next PROVE LinkInv' /\ [Link!Next]_Link!linkVars
    BY <2>1, StopStep, SockStep, LinkStep DEF TypesInv
  <2>2. ASSUME LinkInv, UNCHANGED vars PROVE LinkInv' /\ UNCHANGED Link!linkVars
    <3>1. /\ sock' = sock /\ active' = active /\ reader' = reader /\ main' = main
          /\ running' = running /\ response' = response /\ inbox' = inbox /\ got' = got
          /\ next' = next
      BY <2>2 DEF vars, flagVars, mainVars, netVars
    <3>2. SockInv' /\ StopInv'
      BY <2>2, <3>1 DEF SockInv, StopInv
    <3>3. CountInv' /\ UNCHANGED Link!linkVars
      BY <2>2, <3>1, StutterImplements DEF LinkState, Flight
    <3> QED
      BY <3>2, <3>3
  <2> QED
    BY <2>1, <2>2
<1> HIDE DEF LinkInv
<1> QED
  BY <1>1, <1>2, TypesInductive, PTL DEF Spec, LinkSpec, Link!Spec
=============================================================================
