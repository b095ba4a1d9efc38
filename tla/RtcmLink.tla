------------------------------- MODULE RtcmLink -------------------------------
(***************************************************************************)
(* What the RTCM client promises to the code that registers callbacks on   *)
(* it: a sequence of connections; within one connection the correction     *)
(* data after the caster's header arrives in order, once, with nothing     *)
(* missing in the middle; what is in flight when the connection ends is    *)
(* lost; and whoever is told that the connection is up is told when it     *)
(* goes, before the next attempt.  TcpClient implements it.                *)
(***************************************************************************)
EXTENDS Naturals, Sequences

CONSTANT MaxRtcm   \* bound: messages the caster sends

VARIABLES
  link,    \* "down", "up" or "announced" (connection_active_)
  flight,  \* messages sent on this connection and not handed over
  got,     \* messages handed to the data callbacks
  next     \* number of the message the caster sends next

linkVars == <<link, flight, got, next>>

Init ==
  /\ link = "down"
  /\ flight = <<>>
  /\ got = <<>>
  /\ next = 1

Connect ==
  /\ link = "down" /\ link' = "up"
  /\ UNCHANGED <<flight, got, next>>

Announce ==
  /\ link = "up" /\ link' = "announced"
  /\ UNCHANGED <<flight, got, next>>

(* the next n messages *)
Send(n) ==
  /\ link # "down" /\ next + n <= MaxRtcm + 1
  /\ flight' = flight \o [i \in 1 .. n |-> next + i - 1]
  /\ next' = next + n
  /\ UNCHANGED <<link, got>>

(* A callback gets the n messages at the front *)
Deliver(n) ==
  /\ link # "down"
  /\ n \in 1 .. Len(flight)
  /\ got' = got \o SubSeq(flight, 1, n)
  /\ flight' = SubSeq(flight, n + 1, Len(flight))
  /\ UNCHANGED <<link, next>>

Disconnect ==
  /\ link # "down" /\ link' = "down"
  /\ flight' = <<>>
  /\ UNCHANGED <<got, next>>

Next ==
  \/ Connect \/ Announce \/ Disconnect
  \/ \E n \in 1 .. MaxRtcm : Send(n) \/ Deliver(n)

Spec == Init /\ [][Next]_linkVars
=============================================================================
