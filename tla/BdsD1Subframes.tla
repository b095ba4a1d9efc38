----------------------------- MODULE BdsD1Subframes -----------------------------
(***************************************************************************)
(* How the driver assembles the ephemeris of a BeiDou MEO or IGSO          *)
(* satellite from the D1 message: the D1 branch of decode_BDS_subframe and *)
(* decode_BDS_D1_ephem                                                     *)
(* (src/gnss_message_parser/ublox_message_processor_helper.cpp), followed  *)
(* by publishEphemeris and publishIonoParams                               *)
(* (src/gnss_communication_wrapper/ros_handler.cpp).                       *)
(*                                                                         *)
(* As in GpsSubframes a satellite sends the subframes 1 to 5 of frame      *)
(* after frame, here with a second of week that grows by 6; a received one *)
(* sets a flag, and the decoder runs when the flags are exactly those of   *)
(* 1, 2 and 3.  One satellite: nothing is shared between satellites.       *)
(***************************************************************************)
EXTENDS Naturals

CONSTANTS
  MaxCount,  \* bound: subframes the satellite sends
  MaxIssue   \* bound: changes of the broadcast data

VARIABLES
  count,      \* subframes the satellite has sent
  issue,      \* generation of the data it sends
  subfrm,     \* subfrm[sat - 1], one slot per subframe id
  flags,      \* bds_d1_subfrm_flags_[sat - 1], as a set
  published,  \* the ephemeris handed to publishEphemeris last: its subframes
  streak      \* history: subframes of this frame received without a hole and
              \* without a change of the data

vars == <<count, issue, subfrm, flags, published, streak>>

Ids       == 1 .. 5
Parts     == 1 .. 3
Issues    == 0 .. MaxIssue
Subframes == [frn : 0 .. 5, sow : Nat, issue : Issues]
Blank     == [frn |-> 0, sow |-> 0, issue |-> 0]
NoEphem   == [i \in Parts |-> Blank]

IdOf(n) == (n % 5) + 1
Sow(n)  == 6 * n

TypeOK ==
  /\ count \in Nat
  /\ issue \in Issues
  /\ subfrm \in [Ids -> Subframes]
  /\ \A i \in Ids : subfrm[i].frn \in {0, i}
  /\ flags \subseteq Ids /\ flags # Parts
  /\ published \in [Parts -> Subframes]
  /\ streak \in 0 .. 5

Init ==
  /\ count \in 0 .. 4
  /\ issue = 0
  /\ subfrm = [i \in Ids |-> Blank]
  /\ flags = {}
  /\ published = NoEphem
  /\ streak = 0

-----------------------------------------------------------------------------
(* Variant for mutation: toc is not compared with toe *)
ConsistentWithoutToe(slot) ==
  /\ \A i \in Parts : slot[i].frn = i
  /\ \A i \in 2 .. 3 : slot[i].sow = slot[i - 1].sow + 6

(* "check consistency of subframe numbers, sows and toe/toc": toc is in    *)
(* subframe 1, toe in subframe 3 but for two high bits in subframe 2,      *)
(* which seldom change and so tell nothing                                 *)
Consistent(slot) ==
  /\ \A i \in Parts : slot[i].frn = i
  /\ \A i \in 2 .. 3 : slot[i].sow = slot[i - 1].sow + 6
  /\ slot[1].issue = slot[3].issue

(* decode_BDS_D1_ephem; then the flags are cleared, after a failure the    *)
(* three slots too.  ttr, and with it the publication, is set on success.  *)
DecodeEphem(slot) ==
  /\ flags' = {}
  /\ IF Consistent(slot)
     THEN /\ published' = [i \in Parts |-> slot[i]]
          /\ subfrm' = slot
     ELSE /\ subfrm' = [i \in Ids |-> IF i \in Parts THEN Blank ELSE slot[i]]
          /\ UNCHANGED published

(* decode_BDS_subframe for prn in 6 .. 58 *)
DecodeSubframe(sub) ==
  LET slot  == [subfrm EXCEPT ![sub.frn] = sub]
      flags1 == flags \union {sub.frn}
  IN  IF flags1 # Parts
      THEN flags' = flags1 /\ subfrm' = slot /\ UNCHANGED published
      ELSE DecodeEphem(slot)

Sent == count < MaxCount /\ count' = count + 1

ParseSubframe ==
  /\ Sent
  /\ DecodeSubframe([frn |-> IdOf(count), sow |-> Sow(count), issue |-> issue])
  /\ streak' = IF IdOf(count) = 1 THEN 1
               ELSE IF streak = IdOf(count) - 1 THEN IdOf(count) ELSE 0
  /\ UNCHANGED issue

(* lost on the air, or a message that is too short or has no valid id *)
MissSubframe ==
  /\ Sent
  /\ streak' = 0
  /\ UNCHANGED <<issue, subfrm, flags, published>>

(* the data changes, perhaps in the middle of a frame *)
Upload ==
  /\ issue < MaxIssue
  /\ issue' = issue + 1
  /\ streak' = 0
  /\ UNCHANGED <<count, subfrm, flags, published>>

Next == ParseSubframe \/ MissSubframe \/ Upload

Spec == Init /\ [][Next]_vars

-----------------------------------------------------------------------------
(* What is published was sent in the frame that is on the air: a subframe  *)
(* left in the buffer by an earlier frame never completes a later one.     *)
FromCurrentFrame ==
  published' # published => \A i \in Parts : published'[i].sow = Sow(count - 3 + i)

(* The ephemeris is of one generation of data although subframe 2 is not   *)
(* compared: its neighbours in time agree, and the data only moves on.     *)
PublishedOneIssue ==
  \A i, j \in Parts : published[i].issue = published[j].issue

(* ublox_message_processor.hpp:231, "BeiDou D1 subframe 1/2/3 received     *)
(* flags": when the three have been received the ephemeris is decoded.     *)
EveryFrameDecoded ==
  [][(count' = count + 1 /\ streak' = 3) => published'[3].sow = Sow(count)]_vars
=============================================================================
