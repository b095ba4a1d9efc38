------------------------------ MODULE GpsSubframes ------------------------------
(***************************************************************************)
(* How the driver assembles a GPS broadcast ephemeris from LNAV subframes: *)
(* parse_subframe, decode_GPS_subframe and decode_GPS_ephem                *)
(* (src/gnss_message_parser/ublox_message_processor_helper.cpp) followed   *)
(* by publishEphemeris (src/gnss_communication_wrapper/ros_handler.cpp).   *)
(*                                                                         *)
(* A satellite sends the subframes 1 to 5 of frame after frame and counts  *)
(* them (the z-count); the receiver hands over those it decoded.  Of the   *)
(* orbit parameters only the issue of data they belong to is kept.         *)
(* One satellite: SubframeDispatch says why none meets another.            *)
(***************************************************************************)
EXTENDS Naturals

CONSTANTS
  MaxCount,  \* bound: subframes the satellite sends
  MaxIssue   \* bound: changes of the issue of data

VARIABLES
  count,      \* z-count of the subframe the satellite sends next
  issue,      \* the issue of data it sends
  subfrm,     \* subfrm[sat - 1], one slot per subframe id
  published,  \* the ephemeris handed to publishEphemeris last
  streak      \* history: subframes of this frame received without a hole

vars == <<count, issue, subfrm, published, streak>>

Ids       == 1 .. 5
Parts     == 1 .. 3
IdOf(n)   == (n % 5) + 1
Issues    == 0 .. MaxIssue
Subframes == [id : 0 .. 5, z : Nat, issue : Issues]
Blank     == [id |-> 0, z |-> 0, issue |-> 0]
NoEphem   == [parts |-> [i \in Parts |-> Blank], toe |-> FALSE]

TypeOK ==
  /\ count \in Nat
  /\ issue \in Issues
  /\ subfrm \in [Ids -> Subframes]
  /\ \A i \in Ids : subfrm[i].id \in {0, i}
  /\ published \in [parts : [Parts -> Subframes], toe : BOOLEAN]
  /\ streak \in 0 .. 5

(* memset(subfrm, 0, ...), at any moment of a frame *)
Init ==
  /\ count \in 0 .. 4
  /\ issue = 0
  /\ subfrm = [i \in Ids |-> Blank]
  /\ published = NoEphem
  /\ streak = 0

(* Variant for mutation: the z-counts are not compared *)
ReceivedWithoutZCount(slot) == \A i \in Parts : slot[i].id = i

(* "check if subframe1,2,3 are received or not": each slot holds its       *)
(* subframe and the z-counts are contiguous                                *)
Received(slot) ==
  /\ \A i \in Parts : slot[i].id = i
  /\ \A i \in 2 .. 3 : slot[i - 1].z + 1 = slot[i].z

(* the two IODEs and the low byte of IODC agree *)
SameIssue(slot) ==
  slot[2].issue = slot[3].issue /\ slot[3].issue = slot[1].issue

(* decode_GPS_ephem: ttr and the parameters are stored first, toe only     *)
(* after the consistency check.  publishEphemeris looks at ttr alone.      *)
Decoded(slot) ==
  [parts |-> [i \in Parts |-> slot[i]], toe |-> SameIssue(slot)]

(* decode_GPS_subframe: the subframe goes to its slot, the third one       *)
(* starts the decoding; what it yields is published when ttr is set        *)
DecodeSubframe(sub) ==
  /\ subfrm' = [subfrm EXCEPT ![sub.id] = sub]
  /\ published' = IF sub.id = 3 /\ Received(subfrm') THEN Decoded(subfrm') ELSE published

-----------------------------------------------------------------------------
Sent == count < MaxCount /\ count' = count + 1

(* the receiver reports the subframe in an UBX-RXM-SFRBX message *)
ParseSubframe ==
  /\ Sent
  /\ DecodeSubframe([id |-> IdOf(count), z |-> count, issue |-> issue])
  /\ streak' = IF IdOf(count) = 1 THEN 1
               ELSE IF streak = IdOf(count) - 1 THEN IdOf(count) ELSE 0
  /\ UNCHANGED issue

(* the subframe is lost, or the message is: CNAV, too short, no valid id   *)
MissSubframe ==
  /\ Sent
  /\ streak' = 0
  /\ UNCHANGED <<issue, subfrm, published>>

(* a new issue of data; the cut-over may fall between two subframes *)
Upload ==
  /\ issue < MaxIssue
  /\ issue' = issue + 1
  /\ UNCHANGED <<count, subfrm, published, streak>>

Next == ParseSubframe \/ MissSubframe \/ Upload

Spec == Init /\ [][Next]_vars

-----------------------------------------------------------------------------
(* What is published was sent in the frame that is on the air now: never   *)
(* a mix with a subframe left in the buffer by an earlier frame, never an  *)
(* old frame once more.                                                    *)
FromCurrentFrame ==
  published' # published => \A i \in Parts : published'.parts[i].z = count - 3 + i

(* A frame whose first three subframes were all received is published with *)
(* the third, whatever the buffer held before.                             *)
CompleteFrameDecoded ==
  (count' = count + 1 /\ streak' = 3) =>
    published'.parts[3] = [id |-> 3, z |-> count, issue |-> issue]

(* "check iode and iodc consistency": a published ephemeris is of one      *)
(* issue of data.                                                          *)
PublishedOneIssue ==
  \A i, j \in Parts : published.parts[i].issue = published.parts[j].issue
=============================================================================
