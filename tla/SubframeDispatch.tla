---------------------------- MODULE SubframeDispatch ----------------------------
(***************************************************************************)
(* How a navigation subframe gets from the receiver to the decoder of its  *)
(* system and from there to a topic: parse_subframe                        *)
(* (src/gnss_message_parser/ublox_message_processor_helper.cpp), called by *)
(* process_data (ublox_message_processor.cpp), and publishEphemeris        *)
(* (src/gnss_communication_wrapper/ros_handler.cpp).                       *)
(*                                                                         *)
(* All satellites share one array of buffers, and from the buffer on a     *)
(* satellite is known only by its number in it.  The module watches the    *)
(* buffer of one satellite: its own subframes go through the decoder of    *)
(* their format, which GpsSubframes, BdsD1Subframes, BdsD2Pages and        *)
(* GalWords model; of the others only the buffer they write to is kept.    *)
(***************************************************************************)
EXTENDS UbxSignals, Sequences

CONSTANTS
  Names,      \* constellation and satellite as the receiver numbers them
  Watched,    \* those of them whose buffer may be the one watched
  Published,  \* systems in ephemeris_system_mask
  Order,      \* the word types of one Galileo cycle
  MaxCount,   \* bound: subframes the watched satellite sends
  MaxIssue,   \* bound: changes of its data
  MaxMissed   \* bound: subframes of it that are not received

ASSUME DispatchAssumption ==
  /\ Names \subseteq [gnssId : 0 .. 255, svId : 0 .. 255]
  /\ Watched \subseteq Names
  /\ Published \subseteq Systems
  /\ Order \in Seq(Nat) /\ Order # <<>>
  /\ MaxCount \in Nat /\ MaxIssue \in Nat /\ MaxMissed \in Nat

(* Galileo: word 2, with which the driver begins a collection, begins the  *)
(* cycle and occurs once in it; each of the types 0 to 6 occurs.           *)
ASSUME CycleAssumption ==
  /\ Order[1] = 2 /\ \A i \in 2 .. Len(Order) : Order[i] # 2
  /\ \A t \in 0 .. 6 : \E i \in 1 .. Len(Order) : Order[i] = t

VARIABLES
  sv,         \* the satellite whose buffer is watched
  count, issue, subfrm, flags, published, streak,  \* see the decoders
  missed,     \* how many have not been received
  writers,    \* the satellites that have written into the buffer
  topic,      \* the satellite named in the ephemeris on the topic, or None
  up          \* the process runs

decoderVars == <<subfrm, flags, published>>
vars == <<sv, count, issue, decoderVars, streak, missed, writers, topic, up>>

Gps == INSTANCE GpsSubframes
D1  == INSTANCE BdsD1Subframes
D2  == INSTANCE BdsD2Pages
Gal == INSTANCE GalWords

None == [sys |-> "NONE", prn |-> 0]

SysOf(n) == ubx_sys(n.gnssId)
SatOf(n) == sat_no(SysOf(n), n.svId)

(* The switch of parse_subframe, and the ranges of decode_BDS_subframe *)
Format(n) ==
  CASE SysOf(n) = "GPS" -> "LNAV" [] SysOf(n) = "GAL" -> "I/NAV" [] SysOf(n) = "GLO" -> "GNAV"
    [] SysOf(n) = "BDS" -> IF n.svId > 5 /\ n.svId < 59 THEN "D1" ELSE "D2"
    [] OTHER -> "none"

Is(format) == Format(sv) = format

TypeOK ==
  /\ sv \in Watched
  /\ CASE Is("LNAV")  -> Gps!TypeOK /\ flags = {}
       [] Is("D1")    -> D1!TypeOK
       [] Is("D2")    -> D2!TypeOK /\ flags = {}
       [] Is("I/NAV") -> Gal!TypeOK
       [] OTHER       -> published = None
  /\ missed \in 0 .. MaxMissed
  /\ writers \subseteq Names
  /\ topic \in {None} \cup [sys : Published, prn : 1 .. N_SAT_BDS]
  /\ up \in BOOLEAN

Init ==
  /\ sv \in Watched
  /\ CASE Is("LNAV")  -> Gps!Init /\ flags = {}
       [] Is("D1")    -> D1!Init
       [] Is("D2")    -> D2!Init /\ flags = {}
       [] Is("I/NAV") -> Gal!Init
       [] OTHER       -> /\ count = 0 /\ issue = 0 /\ streak = 0
                         /\ subfrm = <<>> /\ flags = {} /\ published = None
  /\ missed = 0
  /\ writers = {}
  /\ topic = None
  /\ up = TRUE

-----------------------------------------------------------------------------
(* What the decoder made goes out under the name that satsys gives to the  *)
(* number, if its system is in the mask                                    *)
PublishEphemeris ==
  topic' = IF published' # published /\ satsys(SatOf(sv)).sys \in Published
           THEN satsys(SatOf(sv)) ELSE topic

(* parse_subframe: a satellite without number, like a GLONASS satellite    *)
(* not identified yet (255), is refused                                    *)
Numbered(n) == SatOf(n) # 0

(* The branch for GLONASS makes an Ephem too, but its decoder takes a      *)
(* GloEphem: the cast yields a null pointer, and the first assignment of   *)
(* the decoder ends the process unless the message is too short for it.    *)
ParseGlonass ==
  /\ up' \in BOOLEAN
  /\ UNCHANGED <<count, issue, decoderVars, streak>>

(* the watched satellite *)
ParseOwn ==
  /\ up /\ Numbered(sv)
  /\ \/ Is("LNAV")  /\ Gps!ParseSubframe /\ UNCHANGED <<flags, up>>
     \/ Is("D1")    /\ D1!ParseSubframe /\ UNCHANGED up
     \/ Is("D2")    /\ D2!ParsePage /\ UNCHANGED <<flags, up>>
     \/ Is("I/NAV") /\ Gal!ParseWord /\ UNCHANGED up
     \/ Is("GNAV")  /\ ParseGlonass
  /\ writers' = writers \cup {sv}
  /\ PublishEphemeris
  /\ UNCHANGED <<sv, missed>>

(* A satellite in the sky is not heard, or its message is refused *)
MissOwn ==
  /\ missed < MaxMissed /\ missed' = missed + 1
  /\ \/ Is("LNAV")  /\ Gps!MissSubframe
     \/ Is("D1")    /\ D1!MissSubframe
     \/ Is("D2")    /\ D2!MissPage
     \/ Is("I/NAV") /\ Gal!MissWord
  /\ UNCHANGED <<sv, flags, writers, topic, up>>

(* Its data changes *)
UploadOwn ==
  /\ \/ Is("LNAV")  /\ Gps!Upload
     \/ Is("D1")    /\ D1!Upload
     \/ Is("D2")    /\ D2!Upload
     \/ Is("I/NAV") /\ Gal!Upload
  /\ UNCHANGED <<sv, missed, flags, writers, topic, up>>

(* any other satellite; GLONASS is left to ParseOwn *)
ParseOther(n) ==
  /\ up /\ n # sv /\ Numbered(n) /\ Format(n) # "GNAV"
  /\ writers' = IF SatOf(n) = SatOf(sv) THEN writers \cup {n} ELSE writers
  /\ UNCHANGED <<sv, count, issue, decoderVars, streak, missed, topic, up>>

Next ==
  \/ ParseOwn \/ MissOwn \/ UploadOwn
  \/ \E n \in Names : ParseOther(n)

Spec == Init /\ [][Next]_vars

-----------------------------------------------------------------------------
(* Properties of the dispatch *)

(* No two satellites of whatever systems meet in one buffer, and the       *)
(* ephemeris made in a buffer goes out under the name of its satellite.    *)
SatellitesKeptApart ==
  /\ writers \subseteq {sv}
  /\ topic # None => topic = [sys |-> SysOf(sv), prn |-> sv.svId]

(* The comment on the GLONASS branch (helper line 300) says that the       *)
(* string is stored in the buffer after a Hamming check; the process is    *)
(* still there afterwards.                                                 *)
EverySystemDecoded == up

-----------------------------------------------------------------------------
(* Properties of the decoders *)

(* An ephemeris that is published was sent in the frame (GPS, BeiDou D1)   *)
(* or cycle (D2) on the air: nothing that an earlier one left in the       *)
(* buffer completes it.                                                    *)
FromCurrentFrame ==
  [][/\ Is("LNAV") => Gps!FromCurrentFrame
     /\ Is("D1") => D1!FromCurrentFrame
     /\ Is("D2") => D2!FromCurrentCycle]_vars

(* A frame or cycle received without a hole is published: the subframes 1  *)
(* to 3 of GPS, all pages of D2 but the second, all words of Galileo.  (D1 *)
(* loses frames, see BdsD1Subframes.)                                      *)
CompleteFrameDecoded ==
  [][/\ Is("LNAV") => Gps!CompleteFrameDecoded
     /\ Is("D2") => D2!CompleteCycleDecoded
     /\ Is("I/NAV") => Gal!CompleteCycleDecoded]_vars

(* An ephemeris is of one generation of data: of D1, although only toc and *)
(* toe, in the subframes 1 and 3, are compared, and of Galileo, whose      *)
(* words 1 to 4 come with holes and in any order.                          *)
OneIssue ==
  /\ Is("D1") => D1!PublishedOneIssue
  /\ Is("I/NAV") => Gal!PublishedOneIssue

(* No word of a Galileo ephemeris is older than its word 2: a collection   *)
(* that was interrupted is not completed with words from before.           *)
GalSinceWord2 == Is("I/NAV") => Gal!PublishedSinceWord2

(* A failed Galileo decoding is tried again with every further word, and   *)
(* yet nothing that was published goes out once more.                      *)
GalNothingRepeated == [][Is("I/NAV") => Gal!NothingRepeated]_vars
=============================================================================
