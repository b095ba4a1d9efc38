----------------------------- MODULE SerialHandler -----------------------------
(***************************************************************************)
(* The serial port object of the driver (src/serial/serial_handler.cpp):   *)
(* one file descriptor, one reader thread, any number of threads that call *)
(* writeRaw, and ONE self-pipe ("wake pipe") that every poll of the object *)
(* watches, the reader's and the writers' alike.                           *)
(*                                                                         *)
(* The module holds the object's state and one action per step of its      *)
(* operations; it has no next-state relation of its own.  SerialDriver     *)
(* composes it with the threads that call it.  A step is what happens      *)
(* between two accesses to state that another thread can change, so        *)
(* read_loop, read_exact and wait_for_event appear as a program counter.   *)
(*                                                                         *)
(* Bytes are abstracted to pieces: a frame is the piece "sync" (B5 62),    *)
(* the piece "len" (class, id, length) and one piece that stands for the   *)
(* payload with its checksum and is named after the kind of message.  Noise *)
(* is a "noise" piece without a preamble or a "stray" one, a B5 62 that     *)
(* begins no frame: the four bytes behind it are taken for its class, id    *)
(* and length, and as many bytes as they say for its body.                  *)
(***************************************************************************)
EXTENDS Naturals, Sequences

CONSTANTS
  Writers,      \* the threads that call writeRaw
  WriteChunks   \* ::write calls that one writeRaw needs

ASSUME WriteChunksAssumption == WriteChunks \in Nat \ {0}

VARIABLES
  fdOpen,        \* serial_fd_ >= 0
  pipeOpen,      \* wake_pipe_[0] >= 0 and wake_pipe_[1] >= 0
  wake,          \* bytes in the wake pipe
  readRunning,   \* read_running_
  shuttingDown,  \* shutting_down_
  joinable,      \* read_thread_.joinable()
  reader,        \* program counter of the reader thread
  phase,         \* which read_exact call of read_loop is running
  buf,           \* the pieces that call has in data_buf_
  callbacks,     \* data_callbacks_
  wr,            \* program counter of write_all in every writer
  wrote,         \* its local "total"
  writeLock,     \* owner of write_mutex_, or NoWriter
  wire,          \* pieces in the tty input queue (kernel)
  hup            \* the device hung up (POLLHUP, POLLERR)

serialVars == <<fdOpen, pipeOpen, wake, readRunning, shuttingDown, joinable,
                reader, phase, buf, callbacks, wr, wrote, writeLock>>
lineVars   == <<wire, hup>>
readerVars == <<reader, phase, buf>>
writerVars == <<wr, wrote, writeLock>>
handleVars == <<fdOpen, pipeOpen, readRunning, shuttingDown, joinable, callbacks>>

NoWriter == "nobody"

Kinds    == {"data", "ack", "nak"}
Pieces   == {"sync", "len", "noise", "stray"} \union Kinds
Preambles == {"sync", "stray"}
Frame(k) == <<"sync", "len", k>>

ReaderPCs == {"none", "loop", "check", "poll", "drain", "read", "scan", "len",
              "dispatch", "exited"}
Phases    == {"header", "resync", "body", "astray"}
WriterPCs == {"idle", "lock", "check", "poll", "drain", "send", "ok", "failed"}
Consumers == {"handleConfigAck", "process_data"}

(* MSG_HEADER_LEN for a header, the payload and checksum for a body.  A     *)
(* length that was never one may be any: the body read then takes a piece   *)
(* after another and is complete after any of them, or never.               *)
Need(ph) == IF ph \in {"header", "resync"} THEN 2 ELSE 1
Wanting  == Len(buf) < Need(phase) \/ phase = "astray"
Room     == IF phase = "astray" THEN 1 ELSE Need(phase) - Len(buf)

(* The thread is inside read_loop and may touch the object. *)
ReaderLive == reader \notin {"none", "exited"}

SerialTypeOK ==
  /\ fdOpen \in BOOLEAN /\ pipeOpen \in BOOLEAN
  /\ wake \in Nat
  /\ readRunning \in BOOLEAN /\ shuttingDown \in BOOLEAN /\ joinable \in BOOLEAN
  /\ reader \in ReaderPCs
  /\ phase \in Phases
  /\ buf \in Seq(Pieces)
  /\ callbacks \in Seq(Consumers)
  /\ wr \in [Writers -> WriterPCs]
  /\ wrote \in [Writers -> 0 .. WriteChunks]
  /\ writeLock \in Writers \union {NoWriter}
  /\ wire \in Seq(Pieces)
  /\ hup \in BOOLEAN

(* The constructor: the pipe, then the port, which may fail to open or to  *)
(* accept its configuration.                                               *)
SerialInit ==
  /\ fdOpen \in BOOLEAN
  /\ pipeOpen = TRUE
  /\ wake = 0
  /\ readRunning = FALSE
  /\ shuttingDown = FALSE
  /\ joinable = FALSE
  /\ reader = "none"
  /\ phase = "header"
  /\ buf = <<>>
  /\ callbacks = <<>>
  /\ wr = [w \in Writers |-> "idle"]
  /\ wrote = [w \in Writers |-> 0]
  /\ writeLock = NoWriter
  /\ wire = <<>>
  /\ hup = FALSE

-----------------------------------------------------------------------------
(* The reader thread: read_loop, read_exact, wait_for_event *)

ReaderGoto(pc) == reader' = pc

(* read_exact returned false: the header and the body leave the loop; the  *)
(* resynchronisation only leaves the inner loop, with header_remains = 0.  *)
(* Nobody looks at the pieces of the call again.                           *)
ReadFailed ==
  /\ ReaderGoto(IF phase = "resync" THEN "len" ELSE "exited")
  /\ phase' = "header"
  /\ buf' = <<>>

(* A frame has been read: the header or the body is complete *)
ReadDone ==
  /\ ReaderGoto(IF phase \in {"body", "astray"} THEN "dispatch" ELSE "scan")
  /\ UNCHANGED <<phase, buf>>

(* while (read_running_) { read_exact(header) ... *)
ReaderLoop ==
  /\ reader = "loop"
  /\ IF readRunning
     THEN /\ ReaderGoto("check")
          /\ phase' = "header"
          /\ buf' = <<>>
     ELSE /\ ReaderGoto("exited")
          /\ phase' = "header"
          /\ buf' = <<>>
  /\ UNCHANGED <<handleVars, wake, writerVars, lineVars>>

(* while (total < len && read_running_) of read_exact, its return value,   *)
(* and the is_open() test that opens wait_for_event                        *)
ReaderCheck ==
  /\ reader = "check"
  /\ \/ Len(buf) >= Need(phase) /\ ReadDone
     \/ Wanting /\ ~(readRunning /\ fdOpen) /\ ReadFailed
     \/ /\ Wanting /\ readRunning /\ fdOpen
        /\ ReaderGoto("poll")
        /\ UNCHANGED <<phase, buf>>
  /\ UNCHANGED <<handleVars, wake, writerVars, lineVars>>

(* poll(fds, 2, -1) returns: the wake pipe is looked at first, then an     *)
(* error or a hang-up, then the data                                       *)
ReaderPoll ==
  /\ reader = "poll"
  /\ \/ wake > 0 /\ ReaderGoto("drain") /\ UNCHANGED <<phase, buf>>
     \/ wake = 0 /\ hup /\ ReadFailed
     \/ wake = 0 /\ ~hup /\ wire # <<>> /\ ReaderGoto("read")
                 /\ UNCHANGED <<phase, buf>>
  /\ UNCHANGED <<handleVars, wake, writerVars, lineVars>>

(* while (::read(wake_pipe_[0], ...) > 0) {}  return false; *)
ReaderDrain ==
  /\ reader = "drain"
  /\ wake' = 0
  /\ ReadFailed
  /\ UNCHANGED <<handleVars, writerVars, lineVars>>

(* Variant for mutation: a short read counts as a failure *)
ReaderReadOnce ==
  /\ reader = "read" /\ ~hup
  /\ \E n \in 1 .. Room :
       /\ n <= Len(wire)
       /\ buf' = buf \o SubSeq(wire, 1, n)
       /\ wire' = SubSeq(wire, n + 1, Len(wire))
       /\ ReaderGoto(IF Len(buf) + n = Need(phase) THEN "check" ELSE "exited")
  /\ UNCHANGED <<phase, handleVars, wake, writerVars, hup>>

(* ::read(serial_fd_, buffer + total, len - total): some of the pieces     *)
ReaderRead ==
  /\ reader = "read"
  /\ \/ /\ hup
        /\ ReadFailed
        /\ UNCHANGED wire
     \/ /\ ~hup
        /\ \E n \in 1 .. Room :
             /\ n <= Len(wire)
             /\ buf' = buf \o SubSeq(wire, 1, n)
             /\ wire' = SubSeq(wire, n + 1, Len(wire))
        /\ ReaderGoto("check")
        /\ UNCHANGED phase
  /\ UNCHANGED <<handleVars, wake, writerVars, hup>>

(* Variant for mutation: a header without preamble is dropped as a whole *)
ReaderScanDroppingHeader ==
  /\ reader = "scan"
  /\ \/ ReaderGoto("len") /\ (~readRunning \/ Head(buf) \in Preambles)
        /\ UNCHANGED <<phase, buf>>
     \/ /\ readRunning /\ Head(buf) \notin Preambles
        /\ ReaderGoto("check")
        /\ phase' = "resync"
        /\ buf' = <<>>
  /\ UNCHANGED <<handleVars, wake, writerVars, lineVars>>

(* while (header_remains != 0 && read_running_): look for the preamble,    *)
(* shift it to the front, read the rest of the header                      *)
ReaderScan ==
  /\ reader = "scan"
  /\ \/ ~readRunning /\ ReaderGoto("len") /\ UNCHANGED <<phase, buf>>
     \/ /\ readRunning /\ Head(buf) \in Preambles
        /\ ReaderGoto("len")
        /\ UNCHANGED <<phase, buf>>
     \/ /\ readRunning /\ Head(buf) \notin Preambles
        /\ ReaderGoto("check")
        /\ phase' = "resync"
        /\ buf' = Tail(buf)
  /\ UNCHANGED <<handleVars, wake, writerVars, lineVars>>

(* if (!read_running_) break;  then the body is read, of the length in the  *)
(* header, also when the resynchronisation has failed and left none         *)
ReaderLen ==
  /\ reader = "len"
  /\ IF readRunning
     THEN /\ ReaderGoto("check")
          /\ phase' = IF buf = <<"sync", "len">> THEN "body" ELSE "astray"
          /\ buf' = <<>>
     ELSE /\ ReaderGoto("exited")
          /\ phase' = "header"
          /\ buf' = <<>>
  /\ UNCHANGED <<handleVars, wake, writerVars, lineVars>>

(* for (auto &callback : data_callbacks_) callback(...): the effect of the *)
(* callbacks is the business of the module that composes this one          *)
ReaderDispatch ==
  /\ reader = "dispatch"
  /\ ReaderGoto("loop")
  /\ phase' = "header"
  /\ buf' = <<>>
  /\ UNCHANGED <<handleVars, wake, writerVars, lineVars>>

ReaderStep ==
  \/ ReaderLoop \/ ReaderCheck \/ ReaderPoll \/ ReaderDrain \/ ReaderRead
  \/ ReaderScan \/ ReaderLen

-----------------------------------------------------------------------------
(* A thread that writes: writeRaw, write_all, wait_for_event *)

WriterGoto(w, pc) == wr' = [wr EXCEPT ![w] = pc]

(* writeRaw is called: it waits for write_mutex_ *)
WriteCall(w) ==
  /\ wr[w] = "idle"
  /\ WriterGoto(w, "lock")
  /\ wrote' = [wrote EXCEPT ![w] = 0]
  /\ UNCHANGED writeLock

WriteLock(w) ==
  /\ wr[w] = "lock"
  /\ writeLock = NoWriter
  /\ writeLock' = w
  /\ WriterGoto(w, "check")
  /\ UNCHANGED <<wrote, handleVars, wake, readerVars, lineVars>>

(* write_all returns and its lock_guard releases the mutex *)
WriteReturn(w, outcome) ==
  /\ WriterGoto(w, outcome)
  /\ writeLock' = NoWriter
  /\ UNCHANGED wrote

(* Variant for mutation: total <= len *)
WriteCheckOffByOne(w) ==
  /\ wr[w] = "check"
  /\ IF wrote[w] <= WriteChunks /\ fdOpen
     THEN WriterGoto(w, "poll") /\ UNCHANGED <<wrote, writeLock>>
     ELSE WriteReturn(w, "ok")
  /\ UNCHANGED <<handleVars, wake, readerVars, lineVars>>

(* while (total < len && is_open()); return total == len; *)
WriteCheck(w) ==
  /\ wr[w] = "check"
  /\ IF wrote[w] < WriteChunks /\ fdOpen
     THEN WriterGoto(w, "poll") /\ UNCHANGED <<wrote, writeLock>>
     ELSE WriteReturn(w, IF wrote[w] = WriteChunks THEN "ok" ELSE "failed")
  /\ UNCHANGED <<handleVars, wake, readerVars, lineVars>>

(* poll(fds, 2, timeout_ms) on POLLOUT and on the same wake pipe; it times *)
(* out when the output queue of the port stays full                        *)
WritePoll(w) ==
  /\ wr[w] = "poll"
  /\ \/ /\ wake > 0
        /\ WriterGoto(w, "drain")
        /\ UNCHANGED <<wrote, writeLock>>
     \/ wake = 0 /\ hup /\ WriteReturn(w, "failed")
     \/ /\ wake = 0 /\ ~hup
        /\ WriterGoto(w, "send")
        /\ UNCHANGED <<wrote, writeLock>>
     \/ wake = 0 /\ ~hup /\ WriteReturn(w, "failed")
  /\ UNCHANGED <<handleVars, wake, readerVars, lineVars>>

(* the writer empties the wake pipe too, and gives up *)
WriteDrain(w) ==
  /\ wr[w] = "drain"
  /\ wake' = 0
  /\ WriteReturn(w, "failed")
  /\ UNCHANGED <<handleVars, readerVars, lineVars>>

(* ::write(serial_fd_, ...) *)
WriteSend(w) ==
  /\ wr[w] = "send"
  /\ IF hup
     THEN WriteReturn(w, "failed")
     ELSE /\ wrote' = [wrote EXCEPT ![w] = @ + 1]
          /\ WriterGoto(w, "check")
          /\ UNCHANGED writeLock
  /\ UNCHANGED <<handleVars, wake, readerVars, lineVars>>

WriterStep(w) ==
  WriteLock(w) \/ WriteCheck(w) \/ WritePoll(w) \/ WriteDrain(w) \/ WriteSend(w)

-----------------------------------------------------------------------------
(* The calls of the thread that owns the object.  Each operator is one     *)
(* step of the call and constrains the variables the step is about; the    *)
(* composing module adds the caller's program counter.                     *)

(* startRead(): nothing when the port is closed or a reader is running     *)
StartRead ==
  /\ IF ~fdOpen \/ readRunning
     THEN UNCHANGED <<readRunning, joinable, reader>>
     ELSE /\ readRunning' = TRUE
          /\ joinable' = TRUE
          /\ reader' = "loop"
  /\ UNCHANGED <<phase, buf, fdOpen, pipeOpen, shuttingDown, callbacks, wake,
                 writerVars, lineVars>>

(* stopRead(), 1: return at once unless read_running_, else clear it       *)
StopReadClear ==
  /\ readRunning' = FALSE
  /\ UNCHANGED <<fdOpen, pipeOpen, shuttingDown, joinable, callbacks, wake,
                 readerVars, writerVars, lineVars>>

(* Variant for mutation: the flag alone is expected to stop the reader *)
StopReadWithoutWake ==
  UNCHANGED <<handleVars, wake, readerVars, writerVars, lineVars>>

(* stopRead(), 2: wake_reader() writes one byte into the pipe              *)
StopReadWake ==
  /\ wake' = IF pipeOpen THEN wake + 1 ELSE wake
  /\ UNCHANGED <<handleVars, readerVars, writerVars, lineVars>>

(* Variant for mutation: the thread is left to end by itself *)
StopReadWithoutJoin ==
  UNCHANGED <<handleVars, wake, readerVars, writerVars, lineVars>>

(* stopRead(), 3: join, when the thread object is joinable                 *)
StopReadJoin ==
  /\ joinable => reader = "exited"
  /\ joinable' = FALSE
  /\ reader' = IF joinable THEN "none" ELSE reader
  /\ UNCHANGED <<phase, buf, fdOpen, pipeOpen, readRunning, shuttingDown,
                 callbacks, wake, writerVars, lineVars>>

(* close(): the once-only guard, then stopRead() runs, then the            *)
(* descriptors go                                                          *)
CloseBegin ==
  /\ shuttingDown' = TRUE
  /\ UNCHANGED <<fdOpen, pipeOpen, readRunning, joinable, callbacks, wake,
                 readerVars, writerVars, lineVars>>

CloseFds ==
  /\ fdOpen' = FALSE
  /\ pipeOpen' = FALSE
  /\ wake' = 0
  /\ UNCHANGED <<readRunning, shuttingDown, joinable, callbacks, readerVars,
                 writerVars, lineVars>>
=============================================================================
