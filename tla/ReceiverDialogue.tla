---------------------------- MODULE ReceiverDialogue ----------------------------
(***************************************************************************)
(* The startup configuration as data: the file, the message made of it,    *)
(* what the receiver understands, its answer among the other traffic of    *)
(* the line, and what the driver takes the answer to be.  The threads, the *)
(* waiting and the shutdown around it are in SerialDriver.                 *)
(*                                                                         *)
(* The receiver is not part of the source: it reads a UBX-CFG-VALSET by    *)
(* the types of its own keys, applies all of it or nothing, and answers    *)
(* with ACK-ACK or ACK-NAK.                                                *)
(***************************************************************************)
EXTENDS ReceiverConfig, UbxFraming

CONSTANTS
  KeyWidth,     \* the receiver's keys and the bytes of their values
  Traffic,      \* messages it sends besides
  Noise,        \* bytes that belong to no message
  MaxTraffic,   \* bound: messages besides the answer
  MaxNoise      \* bound: such bytes

(* The size of a value is coded in its key: 1 bit, 1, 2, 4 or 8 bytes.     *)
ASSUME KeyWidthAssumption ==
  \A key \in DOMAIN KeyWidth :
    /\ key \in Nat
    /\ (key \div 2 ^ 28) % 8 \in 1 .. 5
    /\ KeyWidth[key] = <<1, 1, 2, 4, 8>>[(key \div 2 ^ 28) % 8]

(* Where a message has the head of an acceptance *)
AckHeadAt(m, i) ==
  /\ i + 3 <= Len(m)
  /\ m[i] = UBX_SYNC_1 /\ m[i + 1] = UBX_SYNC_2 /\ <<m[i + 2], m[i + 3]>> = UBX_ACK_ACK_ID

(* What comes besides the answer does not pretend to be an acceptance: no  *)
(* other message contains the head of one, and the noise does not have the *)
(* byte that would complete one.                                           *)
ASSUME LineAssumption ==
  /\ \A m \in Traffic :
       /\ m \in Seq(Byte) /\ m # <<>> /\ m[1] = UBX_SYNC_1
       /\ \A i \in 1 .. Len(m) : ~AckHeadAt(m, i)
  /\ Noise \subseteq Byte /\ UBX_ACK_ACK_ID[2] \notin Noise

VARIABLES
  applied,   \* the pairs the receiver applied
  owed,      \* its answer: "none", "ack", "nak", then "sent"
  ack_flag,  \* ack_flag_
  result,    \* what configureReceiverAtStartup returned, or "none"
  others,    \* messages sent besides
  noises     \* noise bytes sent

lineVars == <<others, noises>>
vars == <<configVars, readVars, applied, owed, ack_flag, result, lineVars>>

Init ==
  /\ ConfigInit /\ ReadInit
  /\ applied = <<>> /\ owed = "none"
  /\ ack_flag = 0 /\ result = "none"
  /\ others = 0 /\ noises = 0

Configure ==
  /\ ConfigStep
  /\ UNCHANGED <<readVars, applied, owed, ack_flag, result, lineVars>>

-----------------------------------------------------------------------------
(* The receiver *)

(* the pairs of a message by the types of its own keys; not ok when a key  *)
(* is none of its own, a value is cut off or bytes are left over           *)
ReadPairs(m) ==
  LET end == Len(m) - 2
      f[o \in 0 .. end] ==
        IF o + 4 > end THEN [ok |-> o = end, pairs |-> <<>>]
        ELSE LET key  == Number(SubSeq(m, o + 1, o + 4))
                 next == o + 4 + KeyWidth[key]
             IN IF key \notin DOMAIN KeyWidth \/ next > end THEN [ok |-> FALSE, pairs |-> <<>>]
                ELSE [ok |-> f[next].ok,
                      pairs |-> <<<<key, SubSeq(m, o + 5, next)>>>> \o f[next].pairs]
  IN f[kUbxMsgHeaderLen + 4]

Understood(m) == verifyMsg(m) /\ ClassAndId(m) = <<\h06, \h8A>> /\ ReadPairs(m).ok
PairsRead(m)  == ReadPairs(m).pairs

ReceiverApplies ==
  /\ startup = "built" /\ owed = "none" /\ result = "none"
  /\ IF Understood(message)
     THEN owed' = "ack" /\ applied' = PairsRead(message)
     ELSE owed' = "nak" /\ UNCHANGED applied
  /\ UNCHANGED <<configVars, readVars, ack_flag, result, lineVars>>

Frame(class, id, payload) ==
  set_checksum(<<UBX_SYNC_1, UBX_SYNC_2, class, id>> \o LittleEndian(Len(payload), 2)
               \o payload \o <<0, 0>>)

Answer == Frame(\h05, IF owed = "ack" THEN 1 ELSE 0, <<\h06, \h8A>>)

(* one byte of it read wrong *)
Garbled(m) == {[m EXCEPT ![4] = 1 - m[4]], [m EXCEPT ![2] = UBX_SYNC_1]}

ReceiverAnswers ==
  /\ owed \in {"ack", "nak"} /\ result = "none"
  /\ \E m \in {Answer} \cup Garbled(Answer) : Arrives(m)
  /\ owed' = "sent"
  /\ UNCHANGED <<configVars, applied, ack_flag, result, lineVars>>

(* it goes on with its other messages, and the line has noise *)
ReceiverSends ==
  /\ owed # "none" /\ result = "none" /\ others < MaxTraffic
  /\ \E m \in Traffic : Arrives(m)
  /\ others' = others + 1
  /\ UNCHANGED <<configVars, applied, owed, ack_flag, result, noises>>

LineNoise ==
  /\ owed # "none" /\ result = "none" /\ noises < MaxNoise
  /\ \E b \in Noise : Arrives(<<b>>)
  /\ noises' = noises + 1
  /\ UNCHANGED <<configVars, applied, owed, ack_flag, result, others>>

-----------------------------------------------------------------------------
(* The driver *)

(* handleConfigAck, the callback of the reader: what is no answer is left  *)
(* alone                                                                   *)
handleConfigAck(m) == ack_flag' = IF check_ack(m) = 0 THEN ack_flag ELSE check_ack(m)

Read ==
  /\ result = "none"
  /\ \/ (ReadHeader \/ ReadResync) /\ UNCHANGED ack_flag
     \/ ReadBody /\ handleConfigAck(messages'[Len(messages')])
  /\ Fits'
  /\ UNCHANGED <<configVars, applied, owed, result, lineVars>>

(* the wait of configureReceiverAtStartup is over: an answer, or 3 seconds *)
Return ==
  /\ startup = "built" /\ result = "none"
  /\ result' = IF ack_flag = 1 THEN "success" ELSE "failure"
  /\ UNCHANGED <<configVars, readVars, applied, owed, ack_flag, lineVars>>

Next ==
  \/ Configure
  \/ ReceiverApplies \/ ReceiverAnswers \/ ReceiverSends \/ LineNoise
  \/ Read \/ Return

Spec == Init /\ [][Next]_vars

-----------------------------------------------------------------------------
AskedPairs == FlattenSeq(asked)

Matches(pairs, wanted) ==
  /\ Len(pairs) = Len(wanted)
  /\ \A i \in DOMAIN pairs : wanted[i] \in {pairs[i], Anything}

(* The message is sound and says what the file says, all of it and nothing *)
(* more, in its order, as the receiver with its own idea of the keys'      *)
(* types reads it, if it has those keys.  A text asks for the number it    *)
(* begins with, whatever is behind it; and a file in which a text begins   *)
(* with no number, or with one too large, a line is no dump of whole       *)
(* pairs, or a name is unknown, yields no message, not one of the rest.    *)
MessageIsFile ==
  startup = "built" =>
    /\ ~damaged
    /\ Understood(message) => Matches(PairsRead(message), AskedPairs)
    /\ \/ Understood(message)
       \/ \E i \in DOMAIN AskedPairs :
            AskedPairs[i] = Anything \/ AskedPairs[i][1] \notin DOMAIN KeyWidth

(* Startup reports success only if the receiver has applied the settings   *)
(* of the file, whatever else came over the line with its answer and       *)
(* whatever the line did to the answer.  LineAssumption leaves out the     *)
(* acknowledgement of another message: check_ack never looks at what is    *)
(* acknowledged and takes any for the one it waits for.                    *)
SuccessIsApplied ==
  result = "success" => applied # <<>> /\ Matches(applied, AskedPairs)
=============================================================================
