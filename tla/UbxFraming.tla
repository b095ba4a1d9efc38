------------------------------- MODULE UbxFraming -------------------------------
(***************************************************************************)
(* How the reader thread cuts the bytes of the serial line into messages:  *)
(* SerialHandler::read_loop (src/serial/serial_handler.cpp:166-208), byte  *)
(* by byte.  SerialHandler has the threads around this loop and abstracts  *)
(* from the bytes.                                                         *)
(*                                                                         *)
(* read_exact collects as many bytes as it was asked for, however they     *)
(* come: it is one step that waits until they are there.                   *)
(***************************************************************************)
EXTENDS Integers, Sequences, UbxMessage

VARIABLES
  incoming,  \* the bytes of the line that have not been read
  dataBuf,   \* data_buf_, as far as it is filled
  reading,   \* what read_exact was called for: "header", "resync", "body"
  messages,  \* what the data callbacks were given
  heard      \* history: all bytes that came

readVars == <<incoming, dataBuf, reading, messages, heard>>

MSG_HEADER_LEN == 6

ReadInit ==
  /\ incoming = <<>> /\ dataBuf = <<>> /\ reading = "header"
  /\ messages = <<>> /\ heard = <<>>

Arrives(bytes) ==
  /\ incoming' = incoming \o bytes
  /\ heard' = heard \o bytes
  /\ UNCHANGED <<dataBuf, reading, messages>>

PreambleAt(b, i) == b[i] = UBX_SYNC_1 /\ b[i + 1] = UBX_SYNC_2

(* Variant for mutation: the last byte of the header is given up as well   *)
PreambleIndexEager(b) ==
  LET found == {i \in 0 .. MSG_HEADER_LEN - 2 : PreambleAt(b, i + 1)}
  IN IF found = {} THEN MSG_HEADER_LEN ELSE CHOOSE i \in found : \A j \in found : i <= j

(* pream_idx after the search: the last byte of the header is kept if      *)
(* there is no preamble, because it may be the first byte of one           *)
PreambleIndex(b) ==
  LET found == {i \in 0 .. MSG_HEADER_LEN - 2 : PreambleAt(b, i + 1)}
  IN IF found = {} THEN MSG_HEADER_LEN - 1 ELSE CHOOSE i \in found : \A j \in found : i <= j

(* the header is searched and moved to the front of the buffer *)
Searched(b) ==
  /\ dataBuf' = SubSeq(b, PreambleIndex(b) + 1, Len(b))
  /\ reading' = IF PreambleIndex(b) = 0 THEN "body" ELSE "resync"

Wanted ==
  CASE reading = "header" -> MSG_HEADER_LEN
    [] reading = "resync" -> MSG_HEADER_LEN - Len(dataBuf)
    [] reading = "body"   -> PayloadLength(dataBuf) + 2

(* read_exact(n) *)
Reads ==
  /\ Len(incoming) >= Wanted
  /\ incoming' = SubSeq(incoming, Wanted + 1, Len(incoming))

Got == SubSeq(incoming, 1, Wanted)

ReadHeader ==
  /\ reading = "header" /\ Reads
  /\ Searched(Got)
  /\ UNCHANGED <<messages, heard>>

ReadResync ==
  /\ reading = "resync" /\ Reads
  /\ Searched(dataBuf \o Got)
  /\ UNCHANGED <<messages, heard>>

ReadBody ==
  /\ reading = "body" /\ Reads
  /\ messages' = Append(messages, dataBuf \o Got)
  /\ dataBuf' = <<>> /\ reading' = "header"
  /\ UNCHANGED heard

ReadStep == ReadHeader \/ ReadResync \/ ReadBody

(* the reader waits for bytes that have not come *)
Idle == Len(incoming) < Wanted

-----------------------------------------------------------------------------
(* The reader alone, on a line that carries any bytes.  A header with a    *)
(* length that data_buf_ has no room for is left out: nothing checks it,   *)
(* and what the loop does after that is not defined.                       *)
buf_size == 8192

Fits == reading = "body" => MSG_HEADER_LEN + Wanted <= buf_size

LineNext ==
  /\ ReadStep \/ \E bytes \in Seq(Byte) : Arrives(bytes)
  /\ Fits'

LineSpec == ReadInit /\ [][LineNext]_readVars

-----------------------------------------------------------------------------
(* Reference: the messages of a stream from position i on *)
MessageEnd(s, i) == i + MSG_HEADER_LEN + PayloadLength(SubSeq(s, i, Len(s))) + 1

MessagesFrom(s) ==
  LET f[i \in 1 .. Len(s) + 1] ==
        IF i + MSG_HEADER_LEN - 1 > Len(s) THEN <<>>
        ELSE IF ~PreambleAt(s, i) THEN f[i + 1]
        ELSE IF MessageEnd(s, i) > Len(s) THEN <<>>
        ELSE <<SubSeq(s, i, MessageEnd(s, i))>> \o f[MessageEnd(s, i) + 1]
  IN f

MessagesOf(s) == MessagesFrom(s)[1]

(* A preamble is found wherever it lies between two reads, split over them *)
(* or not: the callbacks get what one scan of the line finds, and nothing  *)
(* that follows garbage is lost with it.                                   *)
ResyncComplete == Idle => messages = MessagesOf(heard)
=============================================================================
