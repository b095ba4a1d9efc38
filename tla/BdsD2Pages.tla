------------------------------- MODULE BdsD2Pages -------------------------------
(***************************************************************************)
(* How the driver assembles the ephemeris of a BeiDou GEO satellite from   *)
(* the D2 message: the GEO branch of decode_BDS_subframe and               *)
(* decode_BDS_D2_ephem                                                     *)
(* (src/gnss_message_parser/ublox_message_processor_helper.cpp), followed  *)
(* by publishEphemeris (src/gnss_communication_wrapper/ros_handler.cpp).   *)
(*                                                                         *)
(* Every three seconds the satellite sends the next page of subframe 1.    *)
(* There are no flags: the last page starts the decoding, and page 2 is    *)
(* stored but not used.  Subframes 2 to 5 are dropped on arrival.          *)
(***************************************************************************)
EXTENDS Naturals

CONSTANTS
  MaxCount,  \* bound: pages the satellite sends
  MaxIssue   \* bound: changes of the broadcast data

VARIABLES
  count,      \* pages the satellite has sent
  issue,      \* generation of the data it sends
  subfrm,     \* subfrm[sat - 1], one slot per page
  published,  \* the ephemeris handed to publishEphemeris last: its pages
  streak      \* history: pages of this cycle received without a hole (page 2
              \* does not count) and without a change of the data, or 0

vars == <<count, issue, subfrm, published, streak>>

LastPage == 10
ToePage  == 7    \* toc is on page 1

PageNumbers == 1 .. LastPage
Used        == PageNumbers \ {2}
Issues      == 0 .. MaxIssue
Pages       == [pgn : 0 .. LastPage, sow : Nat, issue : Issues]
Blank       == [pgn |-> 0, sow |-> 0, issue |-> 0]

PageOf(n) == (n % LastPage) + 1
Sow(n)    == 3 * n

TypeOK ==
  /\ count \in Nat
  /\ issue \in Issues
  /\ subfrm \in [PageNumbers -> Pages]
  /\ \A i \in PageNumbers : subfrm[i].pgn \in {0, i}
  /\ published \in [Used -> Pages]
  /\ streak \in 0 .. LastPage

Init ==
  /\ count \in 0 .. LastPage - 1
  /\ issue = 0
  /\ subfrm = [i \in PageNumbers |-> Blank]
  /\ published = [i \in Used |-> Blank]
  /\ streak = 0

-----------------------------------------------------------------------------
(* "check consistency of page numbers, sows and toe/toc": 6 seconds from   *)
(* page 1 to page 3, then 3 from page to page; toc and toe are on two of   *)
(* the pages                                                               *)
Consistent(slot) ==
  /\ \A i \in Used : slot[i].pgn = i
  /\ slot[3].sow = slot[1].sow + 6
  /\ \A i \in 4 .. LastPage : slot[i].sow = slot[i - 1].sow + 3
  /\ slot[1].issue = slot[ToePage].issue

(* Variant for mutation: the page after the last one starts the decoding *)
DecodeLate(page) ==
  /\ subfrm' = [subfrm EXCEPT ![page.pgn] = page]
  /\ published' = IF page.pgn = 1 /\ Consistent(subfrm)
                  THEN [i \in Used |-> subfrm[i]] ELSE published

(* decode_BDS_subframe for the other satellites and id = 1.  The return    *)
(* value is -1 for every page but the last, and nobody looks at it: what   *)
(* counts is ttr, which only a consistent set of pages sets.               *)
DecodePage(page) ==
  /\ subfrm' = [subfrm EXCEPT ![page.pgn] = page]
  /\ published' = IF page.pgn = LastPage /\ Consistent(subfrm')
                  THEN [i \in Used |-> subfrm'[i]] ELSE published

Sent == count < MaxCount /\ count' = count + 1

ParsePage ==
  /\ Sent
  /\ DecodePage([pgn |-> PageOf(count), sow |-> Sow(count), issue |-> issue])
  /\ streak' = IF PageOf(count) = 1 THEN 1
                 ELSE IF streak = PageOf(count) - 1 THEN PageOf(count) ELSE 0
  /\ UNCHANGED issue

(* lost, too short, or no valid page number; page 2 is not missed *)
MissPage ==
  /\ Sent
  /\ streak' = IF PageOf(count) = 2 /\ streak = 1 THEN 2 ELSE 0
  /\ UNCHANGED <<issue, subfrm, published>>

(* the data changes, perhaps in the middle of a cycle *)
Upload ==
  /\ issue < MaxIssue
  /\ issue' = issue + 1
  /\ streak' = 0
  /\ UNCHANGED <<count, subfrm, published>>

Next == ParsePage \/ MissPage \/ Upload

Spec == Init /\ [][Next]_vars

-----------------------------------------------------------------------------
(* What is published was sent in the cycle that ends now: no page of an    *)
(* earlier cycle stands in for one that was lost.                          *)
FromCurrentCycle ==
  published' # published =>
    \A i \in Used : published'[i].sow = Sow(count - LastPage + i)

(* A cycle of one generation received without a hole, but perhaps without  *)
(* page 2, is published with its last page.                                *)
CompleteCycleDecoded ==
  (count' = count + 1 /\ streak' = LastPage) => published'[LastPage].sow = Sow(count)
=============================================================================
