------------------------------- MODULE UbxMessage -------------------------------
(***************************************************************************)
(* UBX messages as bytes: B5 62, class, id, the length of the payload      *)
(* (little endian), the payload and two bytes of checksum.                 *)
(* (src/gnss_message_parser/ublox_message_processor.cpp:23-94 and          *)
(* ublox_message_processor_helper.cpp:8-15, 492-505, 1637-1645)            *)
(***************************************************************************)
EXTENDS Integers, Sequences, SequencesExt

UBX_SYNC_1 == \hB5
UBX_SYNC_2 == \h62

kUbxMsgHeaderLen == 6

Byte == 0 .. 255

(* a number in n bytes, the low byte first, and the number in four bytes *)
LittleEndian(v, n) == [i \in 1 .. n |-> (v \div 256 ^ (i - 1)) % 256]
Number(b) == b[1] + 256 * b[2] + 256 ^ 2 * b[3] + 256 ^ 3 * b[4]

PayloadLength(m) == m[5] + 256 * m[6]

(* cka and ckb of the bytes from the class to the end of the payload *)
Checksum(m) ==
  LET b == SubSeq(m, 3, Len(m) - 2)
      sums[i \in 0 .. Len(b)] ==
        IF i = 0 THEN <<0, 0>>
        ELSE LET ck == sums[i - 1] IN <<(ck[1] + b[i]) % 256, (ck[2] + ck[1] + b[i]) % 256>>
  IN sums[Len(b)]

set_checksum(m)   == SubSeq(m, 1, Len(m) - 2) \o Checksum(m)
check_checksum(m) == Checksum(m) = SubSeq(m, Len(m) - 1, Len(m))

verifyMsg(m) ==
  /\ Len(m) >= kUbxMsgHeaderLen + 2
  /\ m[1] = UBX_SYNC_1 /\ m[2] = UBX_SYNC_2
  /\ Len(m) = PayloadLength(m) + kUbxMsgHeaderLen + 2
  /\ check_checksum(m)

ClassAndId(m) == <<m[3], m[4]>>

UBX_ACK_ACK_ID == <<5, 1>>
UBX_ACK_NAK_ID == <<5, 0>>

(* Variant for mutation: the class and the id are believed unchecked *)
CheckAckUnverified(m) ==
  IF ClassAndId(m) = UBX_ACK_ACK_ID THEN 1
  ELSE IF ClassAndId(m) = UBX_ACK_NAK_ID THEN -1
  ELSE 0

check_ack(m) ==
  IF ~verifyMsg(m) THEN 0
  ELSE IF ClassAndId(m) = UBX_ACK_ACK_ID THEN 1
  ELSE IF ClassAndId(m) = UBX_ACK_NAK_ID THEN -1
  ELSE 0
=============================================================================
