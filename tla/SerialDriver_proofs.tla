-------------------------- MODULE SerialDriver_proofs --------------------------
(***************************************************************************)
(* Proofs about SerialDriver, for any number of write calls per message,   *)
(* any amount of traffic, with and without the configuration dialogue, the *)
(* RTCM client and unplugging.                                             *)
(***************************************************************************)
EXTENDS SerialDriver, SequenceTheorems, TLAPS

-----------------------------------------------------------------------------
(* The inductive invariant: where the main thread stands decides whether a *)
(* reader and a writer can exist at all.                                   *)

StoppingPCs == {"cfgWake", "cfgJoin", "endWake", "endJoin"}

(* program points at which stopRead has returned or startRead was not called *)
ReaderlessPCs == {"serial", "cfgBuild", "cfgReset", "cfgStart", "cfgEnd",
                  "register", "start", "closeFds", "done"}

ConfigPCs == {"cfgBuild", "cfgReset", "cfgStart", "cfgWrite", "cfgWriting",
              "cfgWait", "cfgStop", "cfgWake", "cfgJoin", "cfgEnd",
              "register", "start"}

Writing(w) == wr[w] \in {"lock", "check", "poll", "drain", "send"}

(* the thread object, the flag and the caller's position agree *)
ReaderInv ==
  /\ (reader = "none") <=> ~joinable
  /\ joinable <=> (readRunning \/ main \in StoppingPCs)
  /\ main \in StoppingPCs => ~readRunning
  /\ main \in ReaderlessPCs => ~readRunning

(* the descriptors outlive the threads *)
HandleInv ==
  /\ pipeOpen <=> main # "done"
  /\ joinable => fdOpen
  /\ main \in ConfigPCs => fdOpen
  /\ main = "done" => ~fdOpen

(* who may be inside write_all, and when *)
WriterInv ==
  /\ Writing("main") => main = "cfgWriting"
  /\ Writing("rtcm") => rtcm = "write"
  /\ rtcm \in {"recv", "write"} =>
       main \in {"spin", "rtcmClose", "rtcmJoin"} /\ fdOpen

IInv == ReaderInv /\ HandleInv /\ WriterInv

(* What type correctness rests on: the scan looks at a header that has     *)
(* been read, the callbacks get a message that has, and a writer that      *)
(* still polls has a call to make.                                         *)
BufInv   == reader \in {"scan", "dispatch"} => buf # <<>>
ChunkInv == \A w \in Writers : wr[w] \in {"poll", "send"} => wrote[w] < WriteChunks

(* TypeOK in two parts, the flags and the rest *)
FlagsOK ==
  /\ fdOpen \in BOOLEAN /\ pipeOpen \in BOOLEAN
  /\ readRunning \in BOOLEAN /\ shuttingDown \in BOOLEAN /\ joinable \in BOOLEAN
  /\ hup \in BOOLEAN /\ rosOk \in BOOLEAN /\ rtcmRunning \in BOOLEAN

SeqsOK ==
  /\ buf \in Seq(Pieces) /\ wire \in Seq(Pieces) /\ pending \in Seq(Pieces)
  /\ callbacks \in Seq(Consumers)

RestOK ==
  /\ wake \in Nat
  /\ reader \in ReaderPCs
  /\ phase \in Phases
  /\ wr \in [Writers -> WriterPCs]
  /\ wrote \in [Writers -> 0 .. WriteChunks]
  /\ writeLock \in Writers \union {NoWriter}
  /\ main \in MainPCs
  /\ ackFlag \in {"none", "ack", "nak"}
  /\ configResult \in {"unset", "ok", "failed"}
  /\ rtcm \in {"none", "recv", "write", "exited"}
  /\ answer \in {"none", "ack", "nak"}
  /\ frames \in Nat /\ noise \in Nat
  /\ due \in Int
  /\ ChunkInv

StepInv == SeqsOK /\ BufInv

-----------------------------------------------------------------------------
LEMMA MainFlags == FlagsOK /\ MainStep => FlagsOK'
<1> SUFFICES ASSUME FlagsOK, MainStep PROVE FlagsOK'
  OBVIOUS
<1> USE DEF FlagsOK, serialVars, lineVars, handleVars, rtcmVars, mainFrame
<1>1. CASE SetupSerial
  BY <1>1, Zenon DEF SetupSerial
<1>2. CASE CfgBuild
  BY <1>2, Zenon DEF CfgBuild
<1>3. CASE CfgReset
  BY <1>3, Zenon DEF CfgReset
<1>4. CASE CfgStart
  BY <1>4, Zenon DEF CfgStart, StartRead
<1>5. CASE CfgWrite
  BY <1>5, Zenon DEF CfgWrite
<1>6. CASE CfgWritten
  BY <1>6, Zenon DEF CfgWritten
<1>7. CASE CfgWait
  BY <1>7, Zenon DEF CfgWait
<1>8. CASE CfgStopRead
  BY <1>8, Zenon DEF CfgStopRead, StopRead, StopReadClear, StopReadWake, StopReadJoin
<1>9. CASE CfgEnd
  BY <1>9, Zenon DEF CfgEnd
<1>10. CASE Register
  BY <1>10, Zenon DEF Register
<1>11. CASE Start
  BY <1>11, Zenon DEF Start, StartRead
<1>12. CASE SetupRtcm
  BY <1>12, Zenon DEF SetupRtcm
<1>13. CASE Spin
  BY <1>13, Zenon DEF Spin
<1>14. CASE RtcmClose
  BY <1>14, Zenon DEF RtcmClose
<1>15. CASE RtcmJoin
  BY <1>15, Zenon DEF RtcmJoin
<1>16. CASE SerialClose
  BY <1>16, Zenon DEF SerialClose, CloseBegin
<1>17. CASE EndStopRead
  BY <1>17, Zenon DEF EndStopRead, StopRead, StopReadClear, StopReadWake, StopReadJoin
<1>18. CASE SerialCloseFds
  BY <1>18, Zenon DEF SerialCloseFds, CloseFds
<1> QED
  BY <1>1, <1>2, <1>3, <1>4, <1>5, <1>6, <1>7, <1>8, <1>9, <1>10, <1>11, <1>12,
     <1>13, <1>14, <1>15, <1>16, <1>17, <1>18 DEF MainStep

LEMMA MainRest == RestOK /\ MainStep => RestOK'
BY WriteChunksAssumption, DriverAssumption, SMTT(60)
DEF RestOK, ChunkInv, MainStep, SetupSerial, CfgBuild, CfgReset, CfgStart, CfgWrite,
    CfgWritten, CfgWait, CfgStopRead, CfgEnd, Register, Start, SetupRtcm, Spin,
    RtcmClose, RtcmJoin, SerialClose, EndStopRead, SerialCloseFds, StopRead, StopReadClear,
    StopReadWake, StopReadJoin, StartRead, CloseBegin, CloseFds, MainMoves, MainPCs,
    WriteCall, WriterGoto, WriterPCs, ReaderPCs, serialVars, lineVars, readerVars,
    writerVars, handleVars, managerVars, rtcmVars, receiverVars, mainFrame

(* The other threads and the environment: only the flags they own change.  *)
LEMMA OtherFlags ==
  ASSUME FlagsOK, MainWrites \/ SerialReader \/ RtcmChunk \/ RtcmProgress \/ Environment
  PROVE  FlagsOK'
<1> USE DEF FlagsOK, serialVars, lineVars, handleVars, rtcmVars
<1>1. ASSUME NEW w \in Writers, WriterStep(w), UNCHANGED <<rosOk, rtcmVars>>
      PROVE  FlagsOK'
  BY <1>1, Zenon DEF WriterStep, WriteLock, WriteCheck, WritePoll, WriteDrain, WriteSend
<1>2. CASE MainWrites
  BY <1>1, <1>2, DriverAssumption DEF MainWrites
<1>3. CASE SerialReader
  BY <1>3, ZenonT(60)
  DEF SerialReader, ReaderStep, ReaderLoop, ReaderCheck, ReaderPoll, ReaderDrain,
      ReaderRead, ReaderScan, ReaderLen, Dispatch, ReaderDispatch
<1>4. CASE RtcmChunk
  BY <1>4, Zenon DEF RtcmChunk
<1>5. CASE RtcmProgress
  <2>1. CASE RtcmWrites
    BY <1>1, <2>1, DriverAssumption DEF RtcmWrites
  <2>2. CASE RtcmWritten \/ RtcmExit
    BY <2>2, Zenon DEF RtcmWritten, RtcmExit
  <2> QED
    BY <1>5, <2>1, <2>2 DEF RtcmProgress
<1>6. CASE Environment
  BY <1>6, ZenonT(60)
  DEF Environment, ReceiverSends, ReceiverAnswers, LineDelivers, Unplug, Interrupt
<1> QED
  BY <1>2, <1>3, <1>4, <1>5, <1>6

LEMMA OtherRest ==
  ASSUME RestOK, MainWrites \/ SerialReader \/ RtcmChunk \/ RtcmProgress \/ Environment
  PROVE  RestOK'
<1> USE DEF RestOK, ChunkInv, serialVars, lineVars, handleVars, rtcmVars, readerVars,
            writerVars, managerVars, receiverVars
<1>1. ASSUME NEW w \in Writers, WriterStep(w),
             UNCHANGED <<managerVars, rosOk, rtcmVars, receiverVars, due>>
      PROVE  RestOK'
  BY <1>1, WriteChunksAssumption
  DEF WriterStep, WriteLock, WriteCheck, WritePoll, WriteDrain, WriteSend, WriterGoto,
      WriteReturn, WriterPCs
<1>2. CASE MainWrites
  BY <1>1, <1>2, DriverAssumption DEF MainWrites
<1>3. CASE SerialReader
  BY <1>3
  DEF SerialReader, ReaderStep, ReaderLoop, ReaderCheck, ReaderPoll, ReaderDrain,
      ReaderRead, ReaderScan, ReaderLen, Dispatch, ReaderDispatch, ReaderGoto, ReadFailed,
      ReadDone, ReaderPCs, Phases, HandleConfigAck, ProcessData
<1>4. CASE RtcmChunk
  BY <1>4, WriteChunksAssumption, DriverAssumption
  DEF RtcmChunk, WriteCall, WriterGoto, WriterPCs
<1>5. CASE RtcmProgress
  <2>1. CASE RtcmWrites
    BY <1>1, <2>1, DriverAssumption DEF RtcmWrites
  <2>2. CASE RtcmWritten \/ RtcmExit
    BY <2>2, DriverAssumption DEF RtcmWritten, RtcmExit, WriterPCs
  <2> QED
    BY <1>5, <2>1, <2>2 DEF RtcmProgress
<1>6. CASE Environment
  BY <1>6
  DEF Environment, ReceiverSends, ReceiverAnswers, LineDelivers, Unplug, Interrupt
<1> QED
  BY <1>2, <1>3, <1>4, <1>5, <1>6

LEMMA InitTypes == Init => FlagsOK /\ StepInv /\ RestOK
<1> SUFFICES ASSUME Init PROVE FlagsOK /\ StepInv /\ RestOK
  OBVIOUS
<1>1. FlagsOK
  BY Zenon DEF Init, SerialInit, FlagsOK
<1>2. StepInv
  BY EmptySeq, Zenon DEF Init, SerialInit, StepInv, SeqsOK, BufInv
<1>3. RestOK
  BY WriteChunksAssumption
  DEF Init, SerialInit, RestOK, ChunkInv, ReaderPCs, Phases, WriterPCs, MainPCs, NoWriter
<1> QED
  BY <1>1, <1>2, <1>3

LEMMA FrameType ==
  ASSUME NEW k \in Kinds
  PROVE  Frame(k) \in Seq(Pieces)
BY DEF Frame, Pieces, Kinds

(* The sequences keep their types, and the scan always has a header. *)
LEMMA MainSeqs == StepInv /\ MainStep => StepInv'
<1> SUFFICES ASSUME StepInv, MainStep PROVE StepInv'
  OBVIOUS
<1>1. /\ <<"handleConfigAck">> \in Seq(Consumers)
      /\ Append(callbacks, "process_data") \in Seq(Consumers)
      /\ <<>> \in Seq(Consumers)
  BY DEF StepInv, SeqsOK, Consumers
<1> QED
  BY <1>1, Zenon
  DEF StepInv, SeqsOK, BufInv, MainStep, SetupSerial, CfgBuild, CfgReset, CfgStart,
      CfgWrite, CfgWritten, CfgWait, CfgStopRead, CfgEnd, Register, Start, SetupRtcm, Spin,
      RtcmClose, RtcmJoin, SerialClose, EndStopRead, SerialCloseFds, StopRead,
      StopReadClear, StopReadWake, StopReadJoin, StartRead, CloseBegin, CloseFds, WriteCall,
      serialVars, lineVars, readerVars, handleVars, receiverVars, mainFrame

(* What the reader and the line do to the pieces, whatever set they are of *)
LEMMA ReaderKeeps ==
  ASSUME NEW S, buf \in Seq(S), wire \in Seq(S), BufInv, SerialReader
  PROVE  buf' \in Seq(S) /\ wire' \in Seq(S)
<1> USE DEF BufInv, lineVars
<1>0. <<>> \in Seq(S) /\ Room \in Int
  <2>1. <<>> \in Seq(S) /\ Len(buf) \in Nat
    BY EmptySeq, LenProperties
  <2> QED
    BY <2>1 DEF Room, Need
<1>1. CASE ReaderRead
  <2>1. ASSUME NEW n \in 1 .. Room, n <= Len(wire)
        PROVE  /\ buf \o SubSeq(wire, 1, n) \in Seq(S)
               /\ SubSeq(wire, n + 1, Len(wire)) \in Seq(S)
    <3>1. /\ n \in Nat \ {0}
          /\ Len(wire) \in Nat
          /\ \A i \in 1 .. Len(wire) : wire[i] \in S
      BY <1>0, <2>1, LenProperties, ElementOfSeq
    <3>2. /\ SubSeq(wire, 1, n) \in Seq(S)
          /\ SubSeq(wire, n + 1, Len(wire)) \in Seq(S)
      BY <2>1, <3>1, SubSeqProperties
    <3> QED
      BY <3>2, ConcatProperties
  <2> QED
    BY <1>0, <1>1, <2>1, Zenon DEF ReaderRead, ReadFailed
<1>2. CASE ReaderScan
  <2>1. reader = "scan" => Tail(buf) \in Seq(S)
    BY HeadTailProperties
  <2> QED
    BY <1>2, <2>1, Zenon DEF ReaderScan
<1>3. CASE SerialReader /\ ~ReaderRead /\ ~ReaderScan
  BY <1>0, <1>3, Zenon
  DEF SerialReader, ReaderStep, ReaderLoop, ReaderCheck, ReaderPoll, ReaderDrain, ReaderLen,
      Dispatch, ReaderDispatch, ReadDone, ReadFailed
<1> QED
  BY <1>1, <1>2, <1>3

LEMMA ReaderSeqs == StepInv /\ SerialReader => StepInv'
<1> SUFFICES ASSUME StepInv, SerialReader PROVE StepInv'
  OBVIOUS
<1>1. buf' \in Seq(Pieces) /\ wire' \in Seq(Pieces)
  BY ReaderKeeps, Zenon DEF StepInv, SeqsOK
<1>2. callbacks' = callbacks /\ pending' = pending
  BY Zenon
  DEF SerialReader, ReaderStep, ReaderLoop, ReaderCheck, ReaderPoll, ReaderDrain, ReaderRead,
      ReaderScan, ReaderLen, Dispatch, ReaderDispatch, handleVars, receiverVars
<1>3. BufInv'
  <2> USE DEF BufInv, ReaderGoto, ReadFailed, ReadDone
  <2>1. CASE ReaderCheck
    <3>1. buf # <<>> \/ Len(buf) = 0
      OBVIOUS
    <3>2. Need(phase) \in {1, 2}
      BY DEF Need
    <3> QED
      BY <2>1, <3>1, <3>2 DEF ReaderCheck
  <2>2. CASE ReaderLoop \/ ReaderPoll \/ ReaderDrain \/ ReaderRead \/ ReaderScan \/ ReaderLen
             \/ Dispatch
    <3>1. reader' \notin {"scan", "dispatch"}
      BY <2>2 DEF ReaderLoop, ReaderPoll, ReaderDrain, ReaderRead, ReaderScan, ReaderLen,
                  Dispatch, ReaderDispatch
    <3> QED
      BY <3>1
  <2> QED
    BY <2>1, <2>2 DEF SerialReader, ReaderStep
<1> QED
  BY <1>1, <1>2, <1>3 DEF StepInv, SeqsOK

LEMMA OtherSeqs ==
  ASSUME StepInv, MainWrites \/ RtcmChunk \/ RtcmProgress \/ Environment
  PROVE  StepInv'
<1> USE DEF StepInv, SeqsOK, BufInv, serialVars, lineVars, handleVars, readerVars, receiverVars
<1>1. CASE MainWrites \/ RtcmChunk \/ RtcmProgress
  BY <1>1, Zenon
  DEF MainWrites, RtcmChunk, RtcmProgress, RtcmWrites, RtcmWritten, RtcmExit, WriterStep,
      WriteLock, WriteCheck, WritePoll, WriteDrain, WriteSend
<1>2. CASE LineDelivers
  <2>1. Append(wire, Head(pending)) \in Seq(Pieces) /\ Tail(pending) \in Seq(Pieces)
    BY <1>2, HeadTailProperties DEF LineDelivers
  <2> QED
    BY <1>2, <2>1, Zenon DEF LineDelivers
<1>3. CASE ReceiverSends \/ ReceiverAnswers
  <2>1. pending' \in Seq(Pieces)
    <3>1. \A k \in {"data", "ack", "nak"} : Frame(k) \in Seq(Pieces)
      BY FrameType DEF Kinds
    <3>2. <<"noise">> \in Seq(Pieces) /\ <<"stray">> \in Seq(Pieces)
      BY DEF Pieces
    <3>3. ASSUME pending' \in {<<"noise">>, <<"stray">>} PROVE pending' \in Seq(Pieces)
      BY <3>2, <3>3
    <3> QED
      BY <1>3, <3>1, <3>3, Zenon DEF ReceiverSends, ReceiverAnswers
  <2> QED
    BY <1>3, <2>1, Zenon DEF ReceiverSends, ReceiverAnswers
<1>4. CASE Unplug \/ Interrupt
  BY <1>4, EmptySeq, Zenon DEF Unplug, Interrupt
<1> QED
  BY <1>1, <1>2, <1>3, <1>4 DEF Environment

(* The parts of TypeOK and what they rest on, together *)
LEMMA TypesInductive == Spec => [](FlagsOK /\ StepInv /\ RestOK)
<1>1. Init => FlagsOK /\ StepInv /\ RestOK
  BY InitTypes
<1>2. FlagsOK /\ StepInv /\ RestOK /\ [Next]_vars => (FlagsOK /\ StepInv /\ RestOK)'
  <2> SUFFICES ASSUME FlagsOK, StepInv, RestOK, [Next]_vars
               PROVE  (FlagsOK /\ StepInv /\ RestOK)'
    OBVIOUS
  <2>1. CASE MainStep
    BY <2>1, MainFlags, MainSeqs, MainRest
  <2>2. CASE SerialReader
    BY <2>2, OtherFlags, ReaderSeqs, OtherRest
  <2>3. CASE MainWrites \/ RtcmChunk \/ RtcmProgress \/ Environment
    BY <2>3, OtherFlags, OtherSeqs, OtherRest
  <2>4. CASE UNCHANGED vars
    <3> USE DEF vars, serialVars, lineVars, managerVars, rtcmVars, receiverVars
    <3>1. FlagsOK'
      BY <2>4, Zenon DEF FlagsOK
    <3>2. StepInv'
      BY <2>4, Zenon DEF StepInv, SeqsOK, BufInv
    <3>3. RestOK'
      BY <2>4 DEF RestOK, ChunkInv
    <3> QED
      BY <3>1, <3>2, <3>3
  <2> QED
    BY <2>1, <2>2, <2>3, <2>4 DEF Next, Finished
<1> QED
  BY <1>1, <1>2, PTL DEF Spec

(* TypeOK is an invariant: every variable of the two modules keeps its     *)
(* type, the counters of the write loop stay within the message            *)
(* (serial_handler.cpp:248-271) and the resynchronisation never looks at   *)
(* an empty header (serial_handler.cpp:172-189).                           *)
THEOREM TypeCorrect == Spec => []TypeOK
<1>1. FlagsOK /\ StepInv /\ RestOK => TypeOK
  BY DEF FlagsOK, StepInv, SeqsOK, RestOK, TypeOK, SerialTypeOK
<1> QED
  BY <1>1, TypesInductive, PTL

-----------------------------------------------------------------------------
(* IInv is inductive. *)
LEMMA InitInv == Init => IInv
BY DriverAssumption
DEF Init, SerialInit, IInv, ReaderInv, HandleInv, WriterInv, StoppingPCs, ReaderlessPCs,
       ConfigPCs, Writing

LEMMA MainInv == IInv /\ RestOK /\ MainStep => IInv'
<1> SUFFICES ASSUME IInv, RestOK, MainStep PROVE IInv'
  OBVIOUS
<1> USE DriverAssumption
    DEF IInv, ReaderInv, HandleInv, WriterInv, StoppingPCs, ReaderlessPCs, ConfigPCs,
        Writing, MainMoves, serialVars, handleVars, writerVars, readerVars, rtcmVars, mainFrame
<1>1. CASE SetupSerial
  BY <1>1 DEF SetupSerial
<1>2. CASE CfgBuild
  BY <1>2 DEF CfgBuild
<1>3. CASE CfgReset
  BY <1>3 DEF CfgReset
<1>4. CASE CfgStart
  BY <1>4 DEF CfgStart, StartRead
<1>5. CASE CfgWrite
  BY <1>5 DEF CfgWrite, WriteCall, WriterGoto, RestOK
<1>6. CASE CfgWritten
  BY <1>6 DEF CfgWritten
<1>7. CASE CfgWait
  BY <1>7 DEF CfgWait
<1>8. CASE CfgStopRead
  BY <1>8 DEF CfgStopRead, StopRead, StopReadClear, StopReadWake, StopReadJoin
<1>9. CASE CfgEnd
  BY <1>9 DEF CfgEnd
<1>10. CASE Register
  BY <1>10 DEF Register
<1>11. CASE Start
  BY <1>11 DEF Start, StartRead
<1>12. CASE SetupRtcm
  BY <1>12 DEF SetupRtcm
<1>13. CASE Spin
  BY <1>13 DEF Spin
<1>14. CASE RtcmClose
  BY <1>14 DEF RtcmClose
<1>15. CASE RtcmJoin
  BY <1>15 DEF RtcmJoin
<1>16. CASE SerialClose
  BY <1>16 DEF SerialClose, CloseBegin
<1>17. CASE EndStopRead
  BY <1>17 DEF EndStopRead, StopRead, StopReadClear, StopReadWake, StopReadJoin
<1>18. CASE SerialCloseFds
  BY <1>18 DEF SerialCloseFds, CloseFds
<1> QED
  BY <1>1, <1>2, <1>3, <1>4, <1>5, <1>6, <1>7, <1>8, <1>9, <1>10, <1>11, <1>12,
     <1>13, <1>14, <1>15, <1>16, <1>17, <1>18 DEF MainStep

LEMMA OtherInv ==
  ASSUME IInv, RestOK, MainWrites \/ SerialReader \/ RtcmChunk \/ RtcmProgress \/ Environment
  PROVE  IInv'
<1> USE DriverAssumption
    DEF IInv, ReaderInv, HandleInv, WriterInv, StoppingPCs, ReaderlessPCs, ConfigPCs,
        Writing, serialVars, handleVars, writerVars, readerVars, rtcmVars, managerVars
<1>1. ASSUME NEW w \in Writers, WriterStep(w), UNCHANGED <<managerVars, rtcmVars>>
      PROVE  IInv'
  <2>1. /\ \A v \in Writers : Writing(v)' => Writing(v)
        /\ UNCHANGED <<fdOpen, pipeOpen, joinable, readRunning, reader>>
    BY <1>1 DEF WriterStep, WriteLock, WriteCheck, WritePoll, WriteDrain, WriteSend,
                WriterGoto, WriteReturn, RestOK
  <2> QED
    BY <1>1, <2>1
<1>2. CASE MainWrites
  BY <1>1, <1>2 DEF MainWrites
<1>3. CASE SerialReader
  <2>1. /\ reader # "none" /\ reader' # "none"
        /\ UNCHANGED <<fdOpen, pipeOpen, joinable, readRunning, main, wr, rtcm>>
    BY <1>3
    DEF SerialReader, ReaderStep, ReaderLoop, ReaderCheck, ReaderPoll, ReaderDrain,
        ReaderRead, ReaderScan, ReaderLen, Dispatch, ReaderDispatch, ReaderGoto,
        ReadFailed, ReadDone
  <2> QED
    BY <2>1
<1>4. CASE RtcmChunk
  BY <1>4 DEF RtcmChunk, WriteCall, WriterGoto, RestOK
<1>5. CASE RtcmProgress
  <2>1. CASE RtcmWrites
    BY <1>1, <2>1 DEF RtcmWrites
  <2>2. CASE RtcmWritten
    BY <2>2 DEF RtcmWritten, RestOK
  <2>3. CASE RtcmExit
    BY <2>3 DEF RtcmExit
  <2> QED
    BY <1>5, <2>1, <2>2, <2>3 DEF RtcmProgress
<1>6. CASE Environment
  BY <1>6
  DEF Environment, ReceiverSends, ReceiverAnswers, LineDelivers, Unplug, Interrupt
<1> QED
  BY <1>2, <1>3, <1>4, <1>5, <1>6

(* The strengthening and the types together, as one invariant *)
LEMMA Inductive == Spec => [](IInv /\ RestOK)
<1>1. Init => IInv /\ RestOK
  BY InitInv, InitTypes
<1>2. (IInv /\ RestOK) /\ [Next]_vars => (IInv /\ RestOK)'
  <2> SUFFICES ASSUME IInv, RestOK, [Next]_vars PROVE (IInv /\ RestOK)'
    OBVIOUS
  <2>1. CASE MainStep
    BY <2>1, MainInv, MainRest
  <2>2. CASE MainWrites \/ SerialReader \/ RtcmChunk \/ RtcmProgress \/ Environment
    BY <2>2, OtherInv, OtherRest
  <2>3. CASE UNCHANGED vars
    <3> USE DEF vars, serialVars, lineVars, managerVars, rtcmVars, receiverVars
    <3>1. IInv'
      BY <2>3 DEF IInv, ReaderInv, HandleInv, WriterInv, Writing
    <3>2. RestOK'
      BY <2>3 DEF RestOK, ChunkInv
    <3> QED
      BY <3>1, <3>2
  <2> QED
    BY <2>1, <2>2, <2>3 DEF Next, Finished
<1> QED
  BY <1>1, <1>2, PTL DEF Spec

(* No thread polls, reads or writes a closed descriptor: the destructor    *)
(* (ublox_driver.cpp:124-131) closes the RTCM client, and joins its        *)
(* thread, before the port, and close() of the port joins the reader       *)
(* (serial_handler.cpp:118-137) before it closes the descriptors.          *)
THEOREM NoUseAfterCloseHolds == Spec => []NoUseAfterClose
<1>1. IInv => NoUseAfterClose
  BY DriverAssumption
  DEF IInv, ReaderInv, HandleInv, WriterInv, NoUseAfterClose, ReaderLive, Writing, ReaderlessPCs,
      StoppingPCs, ConfigPCs
<1> QED
  BY <1>1, Inductive, PTL

(* The callback list never changes while a reader is inside read_loop      *)
(* (serial_handler.cpp:102-110 and 200-202): configureReceiverAtStartup    *)
(* and setupSerialPipeline only touch it while no reader exists.           *)
THEOREM CallbacksQuiescentHolds == Spec => CallbacksQuiescent
<1>1. IInv /\ [Next]_vars => [callbacks' # callbacks => ~ReaderLive]_vars
  <2> SUFFICES ASSUME IInv, [Next]_vars, callbacks' # callbacks PROVE ~ReaderLive
    OBVIOUS
  <2>1. CfgReset \/ CfgEnd \/ Register
    BY Zenon
    DEF Next, MainStep, SetupSerial, CfgBuild, CfgStart, CfgWrite,
        CfgWritten, CfgWait, CfgStopRead, Start, SetupRtcm, Spin,
        RtcmClose, RtcmJoin, SerialClose, EndStopRead, SerialCloseFds, StopRead,
        StopReadClear, StopReadWake, StopReadJoin, StartRead, CloseBegin, CloseFds,
        MainWrites, SerialReader, ReaderStep, ReaderLoop, ReaderCheck, ReaderPoll,
        ReaderDrain, ReaderRead, ReaderScan, ReaderLen, Dispatch, ReaderDispatch,
        RtcmChunk, RtcmProgress, RtcmWrites, RtcmWritten, RtcmExit, WriterStep,
        WriteLock, WriteCheck, WritePoll, WriteDrain, WriteSend, Environment,
        ReceiverSends, ReceiverAnswers, LineDelivers, Unplug, Interrupt, Finished,
        vars, serialVars, handleVars, lineVars, managerVars, mainFrame
  <2>2. main \in ReaderlessPCs
    BY <2>1 DEF CfgReset, CfgEnd, Register, MainMoves, ReaderlessPCs
  <2> QED
    BY <2>2 DEF IInv, ReaderInv, ReaderlessPCs, StoppingPCs, ReaderLive
<1> QED
  BY <1>1, Inductive, PTL DEF Spec, CallbacksQuiescent

(* The process is never terminated through a joinable std::thread          *)
(* (serial_handler.cpp:140-158): startRead never overwrites one, and the   *)
(* handler is not destroyed with one.                                      *)
THEOREM NeverTerminatesHolds == Spec => NeverTerminates
<1> DEFINE A == /\ (reader' = "loop" /\ ~ReaderLive) => ~joinable
                /\ main' = "done" => ~joinable'
<1>1. IInv /\ IInv' /\ [Next]_vars => [A]_vars
  <2> SUFFICES ASSUME IInv, IInv', Next PROVE A
    OBVIOUS
  <2>1. main' = "done" => ~joinable'
    BY DEF IInv, HandleInv
  <2>2. ASSUME reader' = "loop", ~ReaderLive PROVE ~joinable
    <3>1. CfgStart \/ Start \/ reader' = reader
      BY <2>2
      DEF Next, MainStep, SetupSerial, CfgBuild, CfgReset, CfgWrite, CfgWritten, CfgWait,
          CfgStopRead, CfgEnd, Register, SetupRtcm, Spin, RtcmClose, RtcmJoin, SerialClose,
          EndStopRead, SerialCloseFds, StopRead, StopReadClear, StopReadWake, StopReadJoin,
          CloseBegin, CloseFds, MainWrites, SerialReader, ReaderStep, ReaderLoop,
          ReaderCheck, ReaderPoll, ReaderDrain, ReaderRead, ReaderScan, ReaderLen, Dispatch,
          ReaderDispatch, RtcmChunk, RtcmProgress, RtcmWrites, RtcmWritten, RtcmExit,
          WriterStep, WriteLock, WriteCheck, WritePoll, WriteDrain, WriteSend, Environment,
          ReceiverSends, ReceiverAnswers, LineDelivers, Unplug, Interrupt, Finished,
          ReaderLive, vars, serialVars, readerVars, lineVars, managerVars, mainFrame
    <3>2. CASE CfgStart \/ Start
      BY <3>2 DEF CfgStart, Start, MainMoves, IInv, ReaderInv, ReaderlessPCs, StoppingPCs
    <3>3. CASE reader' = reader
      BY <2>2, <3>3 DEF ReaderLive
    <3> QED
      BY <3>1, <3>2, <3>3
  <2> QED
    BY <2>1, <2>2
<1> QED
  BY <1>1, Inductive, PTL DEF Spec, NeverTerminates
-----------------------------------------------------------------------------
(* What the startup dialogue reports: the piece "ack" is nowhere between   *)
(* the receiver and ack_flag_ before the receiver has answered with it.    *)

Unacknowledged == Pieces \ {"ack"}

(* program points before configureReceiverAtStartup writes, and before it  *)
(* returns                                                                 *)
UnwrittenPCs == {"serial", "cfgBuild", "cfgReset", "cfgStart", "cfgWrite"}
UndecidedPCs == UnwrittenPCs \union
                {"cfgWriting", "cfgWait", "cfgStop", "cfgWake", "cfgJoin", "cfgEnd"}

LineInv == answer # "ack" => /\ buf \in Seq(Unacknowledged)
                             /\ wire \in Seq(Unacknowledged)
                             /\ pending \in Seq(Unacknowledged)

ResultInv ==
  /\ configResult # "unset" => main \notin UndecidedPCs
  /\ main \in UnwrittenPCs => ~Dialogue
  /\ ackFlag = "ack" => answer = "ack"
  /\ SuccessIsAcknowledged

LEMMA LineStep ==
  ASSUME LineInv, StepInv, [Next]_vars
  PROVE  LineInv'
<1> USE DEF serialVars, lineVars, handleVars, readerVars, receiverVars
<1>1. CASE SerialReader
  <2>1. answer' = answer /\ pending' = pending
    BY <1>1, Zenon DEF SerialReader, Dispatch
  <2>2. ASSUME answer # "ack" PROVE buf' \in Seq(Unacknowledged) /\ wire' \in Seq(Unacknowledged)
    BY <1>1, <2>2, ReaderKeeps, Zenon DEF LineInv, StepInv
  <2> QED
    BY <2>1, <2>2, Zenon DEF LineInv
<1>2. CASE LineDelivers
  <2>1. ASSUME answer # "ack"
        PROVE  /\ Append(wire, Head(pending)) \in Seq(Unacknowledged)
               /\ Tail(pending) \in Seq(Unacknowledged)
    BY <1>2, <2>1, HeadTailProperties DEF LineDelivers, LineInv
  <2> QED
    BY <1>2, <2>1, Zenon DEF LineDelivers, LineInv
<1>3. CASE ReceiverSends \/ ReceiverAnswers
  <2>1. /\ Frame("data") \in Seq(Unacknowledged)
        /\ Frame("nak") \in Seq(Unacknowledged)
        /\ <<"noise">> \in Seq(Unacknowledged)
        /\ <<"stray">> \in Seq(Unacknowledged)
    BY DEF Frame, Unacknowledged, Pieces, Kinds
  <2>2. ASSUME pending' \in {<<"noise">>, <<"stray">>} PROVE pending' \in Seq(Unacknowledged)
    BY <2>1, <2>2
  <2> QED
    BY <1>3, <2>1, <2>2, Zenon DEF ReceiverSends, ReceiverAnswers, LineInv
<1>4. CASE Unplug
  BY <1>4, EmptySeq, Zenon DEF Unplug, LineInv
<1>5. CASE MainStep \/ MainWrites \/ RtcmChunk \/ RtcmProgress \/ Interrupt
            \/ UNCHANGED vars
  BY <1>5, Zenon
  DEF LineInv, MainStep, SetupSerial, CfgBuild, CfgReset, CfgStart, CfgWrite, CfgWritten,
      CfgWait, CfgStopRead, CfgEnd, Register, Start, SetupRtcm, Spin, RtcmClose, RtcmJoin,
      SerialClose, EndStopRead, SerialCloseFds, StopRead, StopReadClear, StopReadWake,
      StopReadJoin, StartRead, CloseBegin, CloseFds, WriteCall, mainFrame, MainWrites,
      RtcmChunk, RtcmProgress, RtcmWrites, RtcmWritten, RtcmExit, WriterStep, WriteLock,
      WriteCheck, WritePoll, WriteDrain, WriteSend, Interrupt, vars
<1> QED
  BY <1>1, <1>2, <1>3, <1>4, <1>5 DEF Next, Environment, Finished

LEMMA ResultStep ==
  ASSUME ResultInv, LineInv, StepInv, RestOK, [Next]_vars
  PROVE  ResultInv'
<1> USE DriverAssumption
    DEF ResultInv, SuccessIsAcknowledged, Dialogue, UnwrittenPCs, UndecidedPCs, MainMoves,
        serialVars, lineVars, handleVars, readerVars, writerVars, managerVars, rtcmVars, receiverVars,
        mainFrame
<1>1. CASE MainStep
  <2>1. CASE CfgBuild
    BY <2>1 DEF CfgBuild
  <2>2. CASE CfgReset
    BY <2>2 DEF CfgReset
  <2>3. CASE CfgWrite
    BY <2>3 DEF CfgWrite
  <2>4. CASE CfgEnd
    BY <2>4 DEF CfgEnd
  <2>5. ASSUME UNCHANGED <<ackFlag, configResult, answer, wr>>,
               main' \in UndecidedPCs => main \in UndecidedPCs,
               main' \in UnwrittenPCs => main \in UnwrittenPCs
        PROVE  ResultInv'
    BY <2>5
  <2>6. CASE SetupSerial \/ CfgStart \/ CfgWritten \/ CfgWait \/ Register \/ Start
             \/ SetupRtcm \/ Spin \/ RtcmClose \/ RtcmJoin \/ SerialClose \/ SerialCloseFds
    BY <2>5, <2>6
    DEF SetupSerial, CfgStart, CfgWritten, CfgWait, Register, Start, SetupRtcm, Spin,
        RtcmClose, RtcmJoin, SerialClose, SerialCloseFds, StartRead, CloseBegin, CloseFds
  <2>7. CASE CfgStopRead \/ EndStopRead
    BY <2>5, <2>7
    DEF CfgStopRead, EndStopRead, StopRead, StopReadClear, StopReadWake, StopReadJoin
  <2> QED
    BY <1>1, <2>1, <2>2, <2>3, <2>4, <2>6, <2>7 DEF MainStep
<1>2. CASE Dispatch
  <2>1. buf # <<>> /\ answer # "ack" => Head(buf) # "ack"
    BY HeadTailProperties DEF LineInv, Unacknowledged
  <2>2. buf # <<>>
    BY <1>2 DEF Dispatch, ReaderDispatch, StepInv, BufInv
  <2> QED
    BY <1>2, <2>1, <2>2 DEF Dispatch, ReaderDispatch, Received, HandleConfigAck
<1>3. CASE ReaderStep /\ UNCHANGED <<managerVars, rosOk, rtcmVars, receiverVars>>
  BY <1>3, Zenon
  DEF ReaderStep, ReaderLoop, ReaderCheck, ReaderPoll, ReaderDrain, ReaderRead, ReaderScan,
      ReaderLen
<1>4. ASSUME UNCHANGED managerVars, answer' = answer \/ answer = "none",
             wr["main"] # "idle" \/ wr'["main"] = "idle"
      PROVE  ResultInv'
  BY <1>4
<1>5. ASSUME NEW w \in Writers, WriterStep(w) PROVE wr["main"] # "idle" \/ wr'["main"] = "idle"
  BY <1>5 DEF RestOK, WriterStep, WriteLock, WriteCheck, WritePoll, WriteDrain, WriteSend,
              WriterGoto, WriteReturn
<1>6. CASE MainWrites
  BY <1>4, <1>5, <1>6 DEF MainWrites
<1>7. CASE RtcmProgress
  BY <1>4, <1>5, <1>7 DEF RtcmProgress, RtcmWrites, RtcmWritten, RtcmExit, RestOK
<1>8. CASE RtcmChunk
  BY <1>4, <1>8 DEF RtcmChunk, WriteCall, WriterGoto, RestOK
<1>9. CASE Environment \/ UNCHANGED vars
  BY <1>4, <1>9
  DEF Environment, ReceiverSends, ReceiverAnswers, LineDelivers, Unplug, Interrupt, vars
<1> QED
  BY <1>1, <1>2, <1>3, <1>6, <1>7, <1>8, <1>9 DEF Next, SerialReader, Finished

(* Success is reported only for a configuration the receiver has           *)
(* acknowledged (ublox_driver.cpp:373-446): what the reader hands to       *)
(* handleConfigAck came over the line, and a receiver that has rejected    *)
(* the message, or has not answered, has put no ACK-ACK on it.             *)
THEOREM SuccessIsAcknowledgedHolds == Spec => []SuccessIsAcknowledged
<1>1. Init => LineInv /\ ResultInv /\ StepInv /\ RestOK
  <2> SUFFICES ASSUME Init PROVE LineInv /\ ResultInv
    BY InitTypes
  <2>1. LineInv
    BY EmptySeq, Zenon DEF Init, SerialInit, LineInv
  <2>2. ResultInv
    BY DriverAssumption DEF Init, SerialInit, ResultInv, SuccessIsAcknowledged, Dialogue
  <2> QED
    BY <2>1, <2>2
<1>2. LineInv /\ ResultInv /\ StepInv /\ RestOK /\ [Next]_vars => (LineInv /\ ResultInv)'
  BY LineStep, ResultStep
<1>3. ResultInv => SuccessIsAcknowledged
  BY DEF ResultInv
<1> QED
  BY <1>1, <1>2, <1>3, TypesInductive, PTL DEF Spec

-----------------------------------------------------------------------------
(* A reader without a dialogue before it: the wake pipe is empty until the *)
(* destructor asks that reader to stop, so nothing else can end it.        *)

(* program points after startRead and before the destructor's stopRead     *)
StartedPCs == {"rtcm", "spin", "rtcmClose", "rtcmJoin", "serialClose", "endStop"}

FirstInv ==
  ~Dialogue =>
    /\ main \notin {"cfgWriting", "cfgWait", "cfgStop", "cfgWake", "cfgJoin", "cfgEnd"}
    /\ main \in {"register", "start"} => ~readRunning
    /\ main \in StartedPCs /\ fdOpen => readRunning /\ (hup \/ ReaderLive)
    /\ wake > 0 => main \in {"endJoin", "closeFds"}
    /\ reader = "drain" => main = "endJoin"

LEMMA FirstStep ==
  ASSUME FirstInv, IInv, RestOK, [Next]_vars
  PROVE  FirstInv'
<1> USE DriverAssumption
    DEF FirstInv, Dialogue, StartedPCs, ReaderLive, MainMoves, serialVars, lineVars, handleVars,
        readerVars, writerVars, managerVars, rtcmVars, receiverVars, mainFrame
<1>1. CASE MainStep
  <2>1. CASE SetupSerial
    BY <2>1 DEF SetupSerial, IInv, ReaderInv, ReaderlessPCs, HandleInv
  <2>2. CASE CfgBuild
    BY <2>2 DEF CfgBuild, IInv, ReaderInv, ReaderlessPCs
  <2>3. CASE CfgReset
    BY <2>3 DEF CfgReset
  <2>4. CASE CfgStart
    BY <2>4 DEF CfgStart, StartRead
  <2>5. CASE CfgWrite
    BY <2>5 DEF CfgWrite, WriteCall, WriterGoto, RestOK
  <2>6. CASE CfgWritten
    BY <2>6 DEF CfgWritten
  <2>7. CASE CfgWait
    BY <2>7 DEF CfgWait
  <2>8. CASE CfgStopRead
    BY <2>8 DEF CfgStopRead, StopRead, StopReadClear, StopReadWake, StopReadJoin
  <2>9. CASE CfgEnd
    BY <2>9 DEF CfgEnd
  <2>10. CASE Register
    BY <2>10 DEF Register
  <2>11. CASE Start
    BY <2>11 DEF Start, StartRead, IInv, HandleInv, ConfigPCs
  <2>12. CASE SetupRtcm
    BY <2>12 DEF SetupRtcm
  <2>13. CASE Spin
    BY <2>13 DEF Spin
  <2>14. CASE RtcmClose
    BY <2>14 DEF RtcmClose
  <2>15. CASE RtcmJoin
    BY <2>15 DEF RtcmJoin
  <2>16. CASE SerialClose
    BY <2>16 DEF SerialClose, CloseBegin
  <2>17. CASE EndStopRead
    <3>1. CASE ~readRunning /\ MainMoves("endStop", "closeFds") /\ UNCHANGED <<serialVars, lineVars>>
      BY <3>1
    <3>2. CASE MainMoves("endStop", "endWake") /\ StopReadClear
      BY <3>2 DEF StopReadClear
    <3>3. CASE MainMoves("endWake", "endJoin") /\ StopReadWake
      BY <3>3 DEF StopReadWake
    <3>4. CASE MainMoves("endJoin", "closeFds") /\ StopReadJoin
      BY <3>4 DEF StopReadJoin, IInv, ReaderInv
    <3> QED
      BY <2>17, <3>1, <3>2, <3>3, <3>4 DEF EndStopRead, StopRead
  <2>18. CASE SerialCloseFds
    BY <2>18 DEF SerialCloseFds, CloseFds, IInv, ReaderInv, ReaderlessPCs, StoppingPCs
  <2> QED
    BY <1>1, <2>1, <2>2, <2>3, <2>4, <2>5, <2>6, <2>7, <2>8, <2>9, <2>10, <2>11, <2>12,
       <2>13, <2>14, <2>15, <2>16, <2>17, <2>18 DEF MainStep
<1>2. ASSUME UNCHANGED <<main, fdOpen, readRunning, reader>>, hup => hup',
             wake' = wake \/ wake' = 0, Dialogue' \/ ~Dialogue
      PROVE  FirstInv'
  BY <1>2 DEF RestOK
<1>3. CASE SerialReader
  BY <1>3 DEF SerialReader, ReaderStep, ReaderLoop, ReaderCheck, ReaderPoll, ReaderDrain,
      ReaderRead, ReaderScan, ReaderLen, Dispatch, ReaderDispatch, ReaderGoto,
      ReadFailed, ReadDone, IInv, ReaderInv, ReaderlessPCs, StoppingPCs, HandleInv
<1>4. ASSUME NEW w \in Writers, WriterStep(w) PROVE Dialogue' \/ ~Dialogue
  BY <1>4 DEF RestOK, WriterStep, WriteLock, WriteCheck, WritePoll, WriteDrain, WriteSend,
              WriterGoto, WriteReturn, WriterPCs
<1>5. CASE MainWrites \/ RtcmWrites
  BY <1>2, <1>4, <1>5
  DEF MainWrites, RtcmWrites, WriterStep, WriteLock, WriteCheck, WritePoll, WriteDrain,
      WriteSend
<1>6. CASE RtcmChunk
  BY <1>2, <1>6 DEF RtcmChunk, WriteCall, WriterGoto, RestOK
<1>7. CASE RtcmWritten \/ RtcmExit
  BY <1>2, <1>7 DEF RtcmWritten, RtcmExit, RestOK
<1>8. CASE Environment \/ UNCHANGED vars
  BY <1>2, <1>8
  DEF Environment, ReceiverSends, ReceiverAnswers, LineDelivers, Unplug, Interrupt, vars
<1> QED
  BY <1>1, <1>3, <1>5, <1>6, <1>7, <1>8 DEF Next, RtcmProgress, Finished

LEMMA FirstInductive == Spec => []FirstInv
<1>1. Init => FirstInv
  BY DEF Init, SerialInit, FirstInv, StartedPCs
<1>2. FirstInv /\ (IInv /\ RestOK) /\ [Next]_vars => FirstInv'
  BY FirstStep
<1> QED
  BY <1>1, <1>2, Inductive, PTL DEF Spec

(* Without a dialogue before it, the reader started in setupSerialPipeline *)
(* (ublox_driver.cpp:138-171) runs while the driver spins: neither a       *)
(* writer's poll nor the resynchronisation can end it.                     *)
THEOREM FirstReaderRunsHolds == Spec => []FirstReaderRuns
<1>1. FirstInv => FirstReaderRuns
  BY DEF FirstInv, FirstReaderRuns, StartedPCs
<1> QED
  BY <1>1, FirstInductive, PTL

(* Nobody but that reader takes the byte that asks it to stop              *)
(* (serial_handler.cpp:149-159 and 286-327), although a writer's poll would *)
(* empty the pipe as well.                                                 *)
THEOREM WakeReachesReaderHolds == Spec => WakeReachesReader
<1> DEFINE A == (wake' < wake /\ pipeOpen' /\ ~Dialogue) => (reader = "drain" /\ ~readRunning)
<1>1. FirstInv /\ (IInv /\ RestOK) /\ (IInv /\ RestOK)' /\ [Next]_vars => [A]_vars
  <2> SUFFICES ASSUME FirstInv, IInv, RestOK, RestOK', Next, wake' < wake, pipeOpen', ~Dialogue
               PROVE  reader = "drain" /\ ~readRunning
    OBVIOUS
  <2>1. wake > 0 /\ wake' # wake /\ ~(wake' > wake)
    BY DEF RestOK
  <2>2. \A w \in Writers : wr[w] # "drain"
    BY <2>1, DriverAssumption
    DEF FirstInv, IInv, ReaderInv, WriterInv, Writing, HandleInv
  <2>3. \/ wake' = wake \/ SerialCloseFds \/ StopReadWake \/ ReaderDrain
        \/ \E w \in Writers : WriteDrain(w)
    <3>1. "main" \in Writers /\ "rtcm" \in Writers
      BY DriverAssumption
    <3> QED
      BY <3>1, Zenon
      DEF Next, MainStep, SetupSerial, CfgBuild, CfgReset, CfgStart, CfgWrite, CfgWritten,
          CfgWait, CfgStopRead, CfgEnd, Register, Start, SetupRtcm, Spin, RtcmClose, RtcmJoin,
          SerialClose, EndStopRead, StopRead, StopReadClear, StopReadJoin, StartRead,
          CloseBegin, MainWrites, SerialReader, ReaderStep, ReaderLoop, ReaderCheck,
          ReaderPoll, ReaderRead, ReaderScan, ReaderLen, Dispatch, ReaderDispatch, RtcmChunk,
          RtcmProgress, RtcmWrites, RtcmWritten, RtcmExit, WriterStep, WriteLock, WriteCheck,
          WritePoll, WriteSend, Environment, ReceiverSends, ReceiverAnswers, LineDelivers,
          Unplug, Interrupt, Finished, vars, serialVars, lineVars, mainFrame
  <2>4. CASE SerialCloseFds
    BY <2>4 DEF SerialCloseFds, CloseFds
  <2>5. CASE ReaderDrain
    BY <2>5 DEF ReaderDrain, FirstInv, IInv, ReaderInv, StoppingPCs
  <2> QED
    BY <2>1, <2>2, <2>3, <2>4, <2>5 DEF RestOK, StopReadWake, WriteDrain
<1> QED
  BY <1>1, FirstInductive, Inductive, PTL DEF Spec, WakeReachesReader
=============================================================================
