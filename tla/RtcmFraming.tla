------------------------------ MODULE RtcmFraming ------------------------------
(***************************************************************************)
(* How the driver cuts the correction stream into RTCM 3 frames before it  *)
(* publishes them: logRtcmFrames and drainRtcmLogBuffer                    *)
(* (src/gnss_communication_wrapper/ublox_driver.cpp:282-359).              *)
(*                                                                         *)
(* Every call appends a chunk to rtcm_log_buffer_ and runs the loop until  *)
(* it has to wait for more; one action is one iteration of that loop.      *)
(* Bytes are elements of a set; the header's length field and the checksum *)
(* are parameters, so nothing below depends on CRC-24Q.                    *)
(***************************************************************************)
EXTENDS Integers, Sequences

CONSTANTS
  Bytes,          \* the values of a byte
  Preamble,       \* kRtcmPreamble
  Reserved,       \* the second bytes b with (b & 0xFC) # 0
  LengthOf,       \* GetRtcmPayloadLength, from the second and the third byte
  MaxPayload,     \* kRtcmMaxPayloadLength
  CrcLength,      \* bytes of checksum, 3
  CrcOf(_)        \* ComputeRtcmCrc24q, of a sequence of bytes

ASSUME FramingAssumption ==
  /\ Preamble \in Bytes
  /\ Reserved \subseteq Bytes
  /\ MaxPayload \in Nat
  /\ LengthOf \in [Bytes \X Bytes -> 0 .. MaxPayload]
  /\ CrcLength \in Nat \ {0}

VARIABLES
  buffer,     \* rtcm_log_buffer_
  draining,   \* drainRtcmLogBuffer is running
  published,  \* the frames handed to publishRtcm
  stream,     \* history: everything received so far
  starts      \* history: where in the stream the published frames start

framingVars == <<buffer, draining, published, stream, starts>>

HeaderLength == 3
MaxFrame     == HeaderLength + MaxPayload + CrcLength

FramingTypeOK ==
  /\ buffer \in Seq(Bytes)
  /\ draining \in BOOLEAN
  /\ published \in Seq(Seq(Bytes))
  /\ stream \in Seq(Bytes)
  /\ starts \subseteq Nat

FramingInit ==
  /\ buffer = <<>>
  /\ draining = FALSE
  /\ published = <<>>
  /\ stream = <<>>
  /\ starts = {}

From(s, i) == SubSeq(s, i, Len(s))

PreamblesIn(s) == {i \in 1 .. Len(s) : s[i] = Preamble}

FirstPreamble(s) == CHOOSE i \in PreamblesIn(s) : \A j \in PreamblesIn(s) : i <= j

(* std::find and erase: what is in front of the first preamble goes *)
Trimmed(s) == IF PreamblesIn(s) = {} THEN <<>> ELSE From(s, FirstPreamble(s))

FrameLength(s) == HeaderLength + LengthOf[<<s[2], s[3]>>] + CrcLength

(* the last CrcLength bytes against the checksum of what precedes them     *)
CrcMatches(f) ==
  CrcOf(SubSeq(f, 1, Len(f) - CrcLength)) = From(f, Len(f) - CrcLength + 1)

-----------------------------------------------------------------------------
(* logRtcmFrames: null or empty input is ignored *)
Receive(chunk) ==
  /\ ~draining
  /\ chunk # <<>>
  /\ buffer' = buffer \o chunk
  /\ stream' = stream \o chunk
  /\ draining' = TRUE
  /\ UNCHANGED <<published, starts>>

(* One iteration of the loop on the trimmed buffer *)
Waits(b) ==
  /\ buffer' = b
  /\ draining' = FALSE
  /\ UNCHANGED <<published, starts>>

DropsPreamble(b) ==
  /\ buffer' = Tail(b)
  /\ UNCHANGED <<draining, published, starts>>

(* no preamble, or not yet a whole header *)
AwaitHeader ==
  /\ draining
  /\ Len(Trimmed(buffer)) < HeaderLength
  /\ Waits(Trimmed(buffer))
  /\ UNCHANGED stream

HeaderRead == draining /\ Len(Trimmed(buffer)) >= HeaderLength

(* neither reserved bits set nor a payload longer than any message *)
Acceptable(b) == b[2] \notin Reserved /\ LengthOf[<<b[2], b[3]>>] <= MaxPayload

RejectHeader ==
  /\ HeaderRead
  /\ ~Acceptable(Trimmed(buffer))
  /\ DropsPreamble(Trimmed(buffer))
  /\ UNCHANGED stream

HeaderAccepted == HeaderRead /\ Acceptable(Trimmed(buffer))

(* not yet a whole frame *)
AwaitFrame ==
  /\ HeaderAccepted
  /\ Len(Trimmed(buffer)) < FrameLength(Trimmed(buffer))
  /\ Waits(Trimmed(buffer))
  /\ UNCHANGED stream

FirstFrame(b) == SubSeq(b, 1, FrameLength(b))

FrameRead == HeaderAccepted /\ Len(Trimmed(buffer)) >= FrameLength(Trimmed(buffer))

(* Variant for mutation: nothing is dropped on a mismatch *)
RejectNothing ==
  /\ FrameRead
  /\ ~CrcMatches(FirstFrame(Trimmed(buffer)))
  /\ buffer' = Trimmed(buffer)
  /\ UNCHANGED <<draining, published, stream, starts>>

(* Variant for mutation: the whole frame is dropped on a mismatch *)
RejectWholeFrame ==
  /\ FrameRead
  /\ ~CrcMatches(FirstFrame(Trimmed(buffer)))
  /\ buffer' = From(Trimmed(buffer), FrameLength(Trimmed(buffer)) + 1)
  /\ UNCHANGED <<draining, published, stream, starts>>

(* CRC mismatch: only the preamble goes, a frame may start inside *)
RejectFrame ==
  /\ FrameRead
  /\ ~CrcMatches(FirstFrame(Trimmed(buffer)))
  /\ DropsPreamble(Trimmed(buffer))
  /\ UNCHANGED stream

Publishes(b) ==
  /\ published' = Append(published, FirstFrame(b))
  /\ starts' = starts \cup {Len(stream) - Len(b) + 1}
  /\ buffer' = From(b, FrameLength(b) + 1)

(* Variant for mutation: the loop ends with the first frame *)
PublishOne ==
  /\ FrameRead
  /\ CrcMatches(FirstFrame(Trimmed(buffer)))
  /\ Publishes(Trimmed(buffer))
  /\ draining' = FALSE
  /\ UNCHANGED stream

(* a whole frame with a matching checksum goes to publishRtcm *)
PublishRtcm ==
  /\ FrameRead
  /\ CrcMatches(FirstFrame(Trimmed(buffer)))
  /\ Publishes(Trimmed(buffer))
  /\ UNCHANGED <<draining, stream>>

Drain == AwaitHeader \/ RejectHeader \/ AwaitFrame \/ RejectFrame \/ PublishRtcm

-----------------------------------------------------------------------------
(* Reference: the frames of a stream, by position and without a buffer.    *)
(* Undecided: the stream ends before the candidate at i can be judged.     *)

Header(s, i)    == i + 2 <= Len(s)
EndOf(s, i)     == i + FrameLength(From(s, i)) - 1
FrameAt(s, i)   ==
  /\ s[i] = Preamble /\ Header(s, i)
  /\ s[i + 1] \notin Reserved
  /\ EndOf(s, i) <= Len(s)
  /\ CrcMatches(SubSeq(s, i, EndOf(s, i)))
Undecided(s, i) ==
  /\ s[i] = Preamble
  /\ Header(s, i) => s[i + 1] \notin Reserved /\ EndOf(s, i) > Len(s)

(* the frames from position i on *)
FramesFrom(s) ==
  LET f[i \in 1 .. Len(s) + 1] ==
        IF i > Len(s) THEN <<>>
        ELSE IF FrameAt(s, i) THEN <<SubSeq(s, i, EndOf(s, i))>> \o f[EndOf(s, i) + 1]
        ELSE IF Undecided(s, i) THEN <<>>
        ELSE f[i + 1]
  IN f

FramesOf(s) == FramesFrom(s)[1]

(* Whatever the chunks were, what has been published is what one scan of   *)
(* the whole stream finds: no frame is lost, duplicated or invented at a   *)
(* chunk boundary, after a false preamble or after a bad checksum.         *)
ChunkingIrrelevant == ~draining => published = FramesOf(stream)

(* Between two calls the buffer holds less than one frame and starts with  *)
(* a preamble, so a stream of garbage cannot make it grow.                 *)
BufferBounded ==
  ~draining => /\ Len(buffer) < MaxFrame
               /\ buffer # <<>> => buffer[1] = Preamble

(* The loop ends: rtcm_log_mutex_ is held all the while, and so is the     *)
(* thread that feeds the port.                                             *)
DrainTerminates == draining ~> ~draining
=============================================================================
