--------------------------- MODULE MC_SubframeDispatch ---------------------------
(* SubframeDispatch with the satellites at the ends of each system's       *)
(* numbers, some outside of them, and a system the driver does not know;   *)
(* the watched ones are one per format, at the end of its range.  The      *)
(* Galileo cycle is that of E1-B with one word that is skipped.            *)
EXTENDS SubframeDispatch

Sv(gnssId, svId) == [gnssId |-> gnssId, svId |-> svId]

MCNames ==
  {Sv(0, n) : n \in {1, 32, 33}}
    \cup {Sv(1, 123)}
    \cup {Sv(2, n) : n \in {1, 36}}
    \cup {Sv(3, n) : n \in {1, 5, 36, 37, 58, 63}}
    \cup {Sv(6, n) : n \in {1, 24, 255}}

MCWatched == {Sv(0, 32), Sv(0, 33), Sv(2, 36), Sv(3, 5), Sv(3, 58), Sv(6, 24)}
MCOrder == <<2, 4, 6, 7, 0, 1, 3, 5>>
=============================================================================
