-------------------------------- MODULE GalWords --------------------------------
(***************************************************************************)
(* How the driver assembles a Galileo ephemeris from I/NAV words:          *)
(* decode_GAL_subframe and decode_GAL_ephem                                *)
(* (src/gnss_message_parser/ublox_message_processor_helper.cpp), followed  *)
(* by publishEphemeris (src/gnss_communication_wrapper/ros_handler.cpp).   *)
(*                                                                         *)
(* A satellite repeats a fixed sequence of word types.  Byte 112 of the    *)
(* satellite's buffer collects a flag per type 0 to 6, a word of type 2    *)
(* starts a new collection, and every word that leaves all the flags set   *)
(* runs the decoder, which compares the issues (IODnav) of words 1 to 4.   *)
(***************************************************************************)
EXTENDS Naturals, Sequences

CONSTANTS
  Order,     \* the word types of one cycle
  MaxCount,  \* bound: words the satellite sends
  MaxIssue   \* bound: changes of the ephemeris

VARIABLES
  count,      \* words the satellite has sent
  issue,      \* IODnav it sends
  subfrm,     \* subfrm[sat - 1], one slot per type
  flags,      \* subfrm[sat - 1][112], as a set of types
  published,  \* the ephemeris handed to publishEphemeris last: words 0 to 5
  streak      \* history: words received in this cycle without a hole, without
              \* a change of the issue and with the time in every word 0

vars == <<count, issue, subfrm, flags, published, streak>>

Types   == 0 .. 6
Used    == 0 .. 5
Issues  == 0 .. MaxIssue
Words   == [type : Types, at : Nat, iod : Issues, timed : BOOLEAN]
Blank   == [type |-> 0, at |-> 0, iod |-> 0, timed |-> FALSE]
Cleared == [t \in Types |-> Blank]

TypeAt(n)   == Order[(n % Len(Order)) + 1]
PlaceOf(n)  == (n % Len(Order)) + 1

TypeOK ==
  /\ count \in Nat
  /\ issue \in Issues
  /\ subfrm \in [Types -> Words]
  /\ flags \subseteq Types
  /\ \A t \in flags : subfrm[t].type = t
  /\ published \in [Used -> Words]
  /\ streak \in 0 .. Len(Order)

Init ==
  /\ count \in 0 .. Len(Order) - 1
  /\ issue = 0
  /\ subfrm = Cleared
  /\ flags = {}
  /\ published = [t \in Used |-> Blank]
  /\ streak = 0

-----------------------------------------------------------------------------
(* decode_GAL_ephem: the types, the time field of word 0, the four IODs    *)
Decodable(slot) ==
  /\ \A t \in Used : slot[t].type = t
  /\ slot[0].timed
  /\ \A t \in 2 .. 4 : slot[t].iod = slot[1].iod

(* Variant for mutation: word 2 does not start a new collection *)
FlagsKept(type) == flags \union {type}

(* "clear word 0-6 flags", and the flag of this word *)
FlagsWith(type) == IF type = 2 THEN {2} ELSE flags \union {type}

(* Variant for mutation: the success clears nothing *)
StoreWithoutClearing(word) ==
  LET slot == [subfrm EXCEPT ![word.type] = word]
  IN  /\ subfrm' = slot
      /\ flags' = FlagsWith(word.type)
      /\ published' = IF FlagsWith(word.type) = Types /\ Decodable(slot)
                      THEN [t \in Used |-> slot[t]] ELSE published

(* A complete collection is decoded; success publishes it and clears the   *)
(* whole buffer, failure leaves it for the next word to try again          *)
StoreWord(word) ==
  LET slot == [subfrm EXCEPT ![word.type] = word]
      full == FlagsWith(word.type) = Types
  IN  IF full /\ Decodable(slot)
      THEN /\ published' = [t \in Used |-> slot[t]]
           /\ subfrm' = Cleared
           /\ flags' = {}
      ELSE /\ subfrm' = slot
           /\ flags' = FlagsWith(word.type)
           /\ UNCHANGED published

(* decode_GAL_subframe: words above 6 are skipped *)
DecodeSubframe(word) ==
  IF word.type > 6 THEN UNCHANGED <<subfrm, flags, published>> ELSE StoreWord(word)

Sent == count < MaxCount /\ count' = count + 1

(* the receiver reports a nominal page; word 0 carries the time or not *)
ParseWord ==
  /\ Sent
  /\ \E timed \in IF TypeAt(count) = 0 THEN BOOLEAN ELSE {FALSE} :
       /\ DecodeSubframe([type |-> TypeAt(count), at |-> count, iod |-> issue, timed |-> timed])
       /\ streak' = IF TypeAt(count) = 0 /\ ~timed THEN 0
                    ELSE IF PlaceOf(count) = 1 THEN 1
                    ELSE IF streak = PlaceOf(count) - 1 THEN PlaceOf(count) ELSE 0
  /\ UNCHANGED issue

(* lost on the air; or an alert page, a wrong even/odd pair, a bad CRC *)
MissWord ==
  /\ Sent
  /\ streak' = 0
  /\ UNCHANGED <<issue, subfrm, flags, published>>

Upload ==
  /\ issue < MaxIssue
  /\ issue' = issue + 1
  /\ streak' = 0
  /\ UNCHANGED <<count, subfrm, flags, published>>

Next == ParseWord \/ MissWord \/ Upload

Spec == Init /\ [][Next]_vars

-----------------------------------------------------------------------------
(* No word of an ephemeris is older than its word 2: a collection that was *)
(* interrupted is not completed with words from before the interruption.   *)
PublishedSinceWord2 == \A t \in Used : published[2].at <= published[t].at

(* An ephemeris is published once: a later one has no word in common with  *)
(* it, so a failed decoding that is tried again with every further word    *)
(* never repeats or recycles what went out before.                         *)
NothingRepeated ==
  published' # published => \A t, u \in Used :
    published[u] # Blank => published[u].at < published'[t].at

(* the words 1 to 4 belong to one issue *)
PublishedOneIssue == \A t, u \in 1 .. 4 : published[t].iod = published[u].iod

(* A cycle received without a hole is published before the next begins. *)
CompleteCycleDecoded ==
  (count' = count + 1 /\ streak' = Len(Order)) =>
    published'[2].at = count + 1 - Len(Order) /\ published'[2].type = 2
=============================================================================
