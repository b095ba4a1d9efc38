--------------------------- MODULE CorrectionStream ---------------------------
(***************************************************************************)
(* The corrections from the caster to the topic: the bytes of a connection *)
(* that may break at any of them and be made again, and the parser of      *)
(* RtcmFraming behind the data callback                                    *)
(* (src/gnss_communication_wrapper/ublox_driver.cpp:184-189).  The parser  *)
(* is never told of a connection: what a lost one leaves in                *)
(* rtcm_log_buffer_ comes before the first bytes of the next.              *)
(*                                                                         *)
(* The connection is what TcpClient implements, RtcmLink, with a byte for  *)
(* a message.  The loop of the parser runs inside of the callback and sees *)
(* nothing of the connection, so the link rests while it does.             *)
(***************************************************************************)
EXTENDS RtcmFraming, Functions

CONSTANTS
  Frames,     \* the whole messages the caster sends
  MaxStream,  \* bound: bytes it sends
  MaxNoise,   \* bound: bytes among them that belong to no message
  MaxChunk    \* bound: bytes the client reads at once

ASSUME StreamAssumption ==
  /\ MaxStream \in Nat /\ MaxNoise \in Nat /\ MaxChunk \in Nat
  /\ \A f \in Frames :
       /\ f \in Seq(Bytes) /\ Len(f) >= HeaderLength + CrcLength
       /\ f[1] = Preamble /\ f[2] \notin Reserved
       /\ Len(f) = FrameLength(f) /\ CrcMatches(f)

VARIABLES
  link, flight, got, next,   \* of RtcmLink
  sent,    \* the bytes sent so far: number k is sent[k]
  heads,   \* the numbers of the first bytes of messages
  noise    \* how many bytes belonged to no message

linkVars == <<link, flight, got, next>>
vars     == <<framingVars, linkVars, sent, heads, noise>>

Link == INSTANCE RtcmLink WITH MaxRtcm <- MaxStream

TypeOK ==
  /\ FramingTypeOK
  /\ sent \in Seq(Bytes) /\ next = Len(sent) + 1
  /\ stream = [i \in 1 .. Len(got) |-> sent[got[i]]]
  /\ heads \subseteq 1 .. Len(sent)
  /\ noise \in 0 .. MaxNoise

Init ==
  /\ FramingInit
  /\ Link!Init
  /\ sent = <<>> /\ heads = {} /\ noise = 0

Sends(s) ==
  /\ Link!Send(Len(s))
  /\ sent' = sent \o s
  /\ UNCHANGED framingVars

SendFrame ==
  /\ ~draining
  /\ \E f \in Frames : Sends(f)
  /\ heads' = heads \cup {next}
  /\ UNCHANGED noise

SendNoise ==
  /\ ~draining /\ noise < MaxNoise
  /\ \E b \in Bytes : Sends(<<b>>)
  /\ noise' = noise + 1
  /\ UNCHANGED heads

(* The data callback.  The receiver gets the same bytes from writeRaw,     *)
(* whatever the parser makes of them: SerialDriver.                        *)
Deliver ==
  \E n \in 1 .. MaxChunk :
    /\ Link!Deliver(n)
    /\ Receive([i \in 1 .. n |-> sent[flight[i]]])
    /\ UNCHANGED <<sent, heads, noise>>

Connect ==
  /\ Link!Connect
  /\ UNCHANGED <<framingVars, sent, heads, noise>>

Disconnect ==
  /\ ~draining
  /\ Link!Disconnect
  /\ UNCHANGED <<framingVars, sent, heads, noise>>

Parse == Drain /\ UNCHANGED <<linkVars, sent, heads, noise>>

Next == SendFrame \/ SendNoise \/ Deliver \/ Connect \/ Disconnect \/ Parse

Spec == Init /\ [][Next]_vars

FairSpec == Spec /\ WF_vars(Parse)

-----------------------------------------------------------------------------
ReceivedAt(k) == CHOOSE i \in DOMAIN got : got[i] = k

ReceivedWhole(k) ==
  k .. k + FrameLength(From(sent, k)) - 1 \subseteq Range(got)

(* a frame made of bytes of both sides of position a, whose checksum       *)
(* matches by accident: no parser could tell it from a message             *)
Crossing(a) == \E i \in 1 .. a - 1 : FrameAt(stream, i) /\ EndOf(stream, i) >= a

(* a header that waits for the rest of its frame *)
Waiting(i) ==
  /\ Undecided(stream, i)
  /\ \A j \in starts : i \notin j .. EndOf(stream, j)

(* A message that came whole over one connection is published, whatever a  *)
(* connection lost before it, or garbage, left in front of it in the       *)
(* buffer: at once unless something in front of it looks like a header,    *)
(* and even then before MaxFrame bytes from its first one on have come.    *)
RecoveryBounded ==
  ~draining => \A k \in heads :
    ReceivedWhole(k) =>
      LET a == ReceivedAt(k) IN
        \/ a \in starts
        \/ Crossing(a)
        \/ Len(stream) < a + MaxFrame - 1 /\ \E i \in 1 .. a - 1 : Waiting(i)
=============================================================================
