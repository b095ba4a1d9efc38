-------------------------- MODULE MC_CorrectionStream --------------------------
(* Bytes 0 .. 2, where 2 is the preamble: the second byte must be 0, the   *)
(* third gives the payload length, which may be more than that of a whole  *)
(* message, and one checksum byte ends the frame.                          *)
EXTENDS CorrectionStream, SequencesExt

MCBytes == 0 .. 2
MCReserved == {1, 2}
MCLengthOf == [h \in MCBytes \X MCBytes |-> IF h[2] = 1 THEN 4 ELSE h[2]]
MCCrcOf(s) == <<FoldLeft(LAMBDA x, y : x + y, 1, s) % 3>>

WithCrc(s) == s \o MCCrcOf(s)
MCFrames == UNION {{WithCrc(<<2, 0, n>> \o p) : p \in [1 .. n -> {0, 2}]} : n \in {0, 2}}
=============================================================================
