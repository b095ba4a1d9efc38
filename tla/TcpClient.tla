------------------------------ MODULE TcpClient ------------------------------
(***************************************************************************)
(* The RTCM client with its NTRIP handshake (src/rtcm/tcp_client.cpp,      *)
(* src/rtcm/ntrip_client.cpp), the GGA timer that writes into the same     *)
(* socket, and the destructor that closes it                               *)
(* (src/gnss_communication_wrapper/ublox_driver.cpp).                      *)
(*                                                                         *)
(* Threads: the reader (readLoop: connect, handshake, receive, reconnect), *)
(* "gga" (an executor thread running sendNtripGga) and main (waits in      *)
(* executor.spin(), then runs close()).  The caster and the network are    *)
(* the environment.                                                        *)
(*                                                                         *)
(* The stream from the caster is a sequence of pieces: "ok" or "bad" (the  *)
(* status line), "crlf" or "lf" (the blank line that ends the header, in   *)
(* either convention) and numbered RTCM messages.  Nothing is closed       *)
(* while another thread waits for the wake byte, so a poll that finds the  *)
(* pipe readable and the read that empties it are one step.                *)
(***************************************************************************)
EXTENDS Naturals, Sequences, SequencesExt

CONSTANTS
  SendChunks,    \* ::send calls that one writeAll needs
  MaxHeader,     \* kMaxNtripHeaderBytes, in pieces
  MaxRtcm,       \* bound: RTCM messages the caster sends
  MaxGga,        \* bound: GGA sentences the timer sends
  MaxFaults      \* bound: connections the caster or the network breaks

ASSUME ClientAssumption ==
  /\ SendChunks \in Nat \ {0}
  /\ MaxHeader \in Nat \ {0}
  /\ MaxRtcm \in Nat /\ MaxGga \in Nat /\ MaxFaults \in Nat

VARIABLES
  sock,          \* socket_fd_: "none", "connecting" (in ::connect) or "up"
  active,        \* connection_active_
  running,       \* read_running_
  shutting,      \* shutting_down_
  wake,          \* bytes in the wake pipe
  reader,        \* program counter of readLoop and what it calls
  response,      \* local "response" of onConnected
  wr,            \* program counter of writeAll, per thread
  total,         \* its local "total"
  writeLock,     \* owner of write_mutex_, or NoThread
  main,          \* program counter of the main thread
  rosOk,         \* rclcpp::ok()
  ending,        \* how this caster ends its header: CRLF CRLF or LF LF
  peer,          \* the connection, seen from the caster: "ok", "fin", "reset"
  inbox,         \* pieces sent by the caster and not received
  outbox,        \* chunks <<thread, number>> sent on this connection
  next,          \* number of the next RTCM message
  got,           \* RTCM messages handed to the data callbacks
  ggas, faults   \* how much the environment has done

netVars    == <<ending, peer, inbox, next, faults>>
threadVars == <<wr, total, writeLock>>
flagVars   == <<running, shutting, wake>>
mainVars   == <<main, rosOk>>
vars == <<sock, active, flagVars, reader, response, threadVars, mainVars, netVars,
          outbox, got, ggas>>

Threads  == {"reader", "gga"}
NoThread == "nobody"
Ends     == {"crlf", "lf"}
Messages == 1 .. MaxRtcm
InPieces == ({"ok", "bad"} \union Ends) \X {0} \union {"rtcm"} \X Messages

Has(s, kind) == \E i \in 1 .. Len(s) : s[i][1] = kind

ReaderPCs == {"loop", "open", "connecting", "request", "untilCrlf", "untilLf",
              "parse", "refused", "announce", "failed", "wait", "recv", "lost",
              "sleep", "final", "exited"}
WriterPCs == {"idle", "lock", "check", "poll", "send", "ok", "failed"}
MainPCs   == {"spin", "close", "stop", "wakeup", "join", "closeSocket", "done"}

TypeOK ==
  /\ sock \in {"none", "connecting", "up"}
  /\ active \in BOOLEAN /\ running \in BOOLEAN /\ shutting \in BOOLEAN
  /\ wake \in 0 .. 1
  /\ reader \in ReaderPCs
  /\ response \in Seq(InPieces)
  /\ wr \in [Threads -> WriterPCs]
  /\ total \in [Threads -> 0 .. SendChunks]
  /\ writeLock \in Threads \union {NoThread}
  /\ main \in MainPCs
  /\ rosOk \in BOOLEAN
  /\ ending \in Ends
  /\ peer \in {"ok", "fin", "reset"}
  /\ inbox \in Seq(InPieces)
  /\ outbox \in Seq(Threads \X (1 .. SendChunks))
  /\ next \in 1 .. MaxRtcm + 1
  /\ got \in Seq(Messages)
  /\ ggas \in 0 .. MaxGga /\ faults \in 0 .. MaxFaults

(* startRead() has been called: the reader is about to enter its loop *)
Init ==
  /\ sock = "none" /\ active = FALSE
  /\ running = TRUE /\ shutting = FALSE
  /\ wake = 0
  /\ reader = "loop" /\ response = <<>>
  /\ wr = [t \in Threads |-> "idle"]
  /\ total = [t \in Threads |-> 0]
  /\ writeLock = NoThread
  /\ main = "spin" /\ rosOk = TRUE
  /\ ending \in Ends
  /\ peer = "ok" /\ inbox = <<>> /\ outbox = <<>>
  /\ next = 1 /\ got = <<>>
  /\ ggas = 0 /\ faults = 0

Goto(pc) == reader' = pc

(* the numbers of the messages in the first i pieces of a stretch of the   *)
(* stream, and in all of it                                                *)
RtcmUpTo(s) ==
  LET f[i \in 0 .. Len(s)] ==
        IF i = 0 THEN <<>>
        ELSE IF s[i][1] = "rtcm" THEN Append(f[i - 1], s[i][2])
        ELSE f[i - 1]
  IN f

RtcmOf(s) == RtcmUpTo(s)[Len(s)]

(* closeSocket(): notifyConnectionState(false), shutdown, close, -1.  What *)
(* was in flight goes with the socket.                                     *)
CloseSocket ==
  /\ sock' = "none"
  /\ active' = FALSE
  /\ inbox' = <<>> /\ outbox' = <<>>
  /\ peer' = "ok"
  /\ response' = <<>>
  /\ UNCHANGED <<ending, next, faults, got>>

KeepSocket == UNCHANGED <<sock, active, netVars, outbox>>

-----------------------------------------------------------------------------
(* readLoop and connect *)

(* while (read_running_) { if (!is_open()) connect ... *)
ReadLoop ==
  /\ reader = "loop"
  /\ Goto(IF ~running THEN "final" ELSE IF sock = "none" THEN "open" ELSE "wait")
  /\ KeepSocket
  /\ UNCHANGED <<flagVars, response, threadVars, mainVars, got, ggas>>

(* openConnection: name resolution or socket() may fail *)
ResolveFails ==
  /\ reader = "open"
  /\ Goto("failed")
  /\ KeepSocket
  /\ UNCHANGED <<flagVars, response, threadVars, mainVars, got, ggas>>

(* socket_fd_ is set before ::connect, so is_open() holds from here on     *)
OpenConnection ==
  /\ reader = "open"
  /\ Goto("connecting")
  /\ sock' = "connecting"
  /\ UNCHANGED <<active, netVars, outbox, flagVars, response, threadVars, mainVars, got, ggas>>

ConnectRefused ==
  /\ reader = "connecting"
  /\ Goto("failed")
  /\ CloseSocket
  /\ UNCHANGED <<flagVars, threadVars, mainVars, ggas>>

(* ::connect succeeds and onConnected calls writeAll(request) *)
ConnectAccepted ==
  /\ reader = "connecting" /\ wr["reader"] = "idle"
  /\ Goto("request")
  /\ sock' = "up"
  /\ wr' = [wr EXCEPT !["reader"] = "lock"]
  /\ total' = [total EXCEPT !["reader"] = 0]
  /\ UNCHANGED <<active, netVars, outbox, flagVars, response, writeLock, mainVars, got, ggas>>

(* writeAll has returned *)
RequestSent ==
  /\ reader = "request" /\ wr["reader"] \in {"ok", "failed"}
  /\ Goto(IF wr["reader"] = "ok" THEN "untilCrlf" ELSE "refused")
  /\ wr' = [wr EXCEPT !["reader"] = "idle"]
  /\ KeepSocket
  /\ UNCHANGED <<flagVars, response, total, writeLock, mainVars, got, ggas>>

(* waitForEvent(POLLIN, timeout) reports false: the wake pipe or a reset,  *)
(* or there is nothing to read until the timeout                           *)
WaitFails ==
  \/ wake > 0 /\ wake' = 0
  \/ wake = 0 /\ peer = "reset" /\ UNCHANGED wake

TimesOut == wake = 0 /\ peer = "ok" /\ inbox = <<>> /\ UNCHANGED wake

Readable == wake = 0 /\ peer # "reset" /\ (inbox # <<>> \/ peer = "fin")

(* readUntil(response, delimiter, max, timeout) called at program point    *)
(* "here": found, full or failed, or one more chunk has been received      *)
ReadUntil(here, delimiter, onSuccess, onFailure) ==
  /\ reader = here
  /\ \/ /\ Has(response, delimiter)
        /\ Goto(onSuccess)
        /\ UNCHANGED <<wake, inbox, response>>
     \/ /\ ~Has(response, delimiter) /\ Len(response) >= MaxHeader
        /\ Goto(onFailure)
        /\ UNCHANGED <<wake, inbox, response>>
     \/ /\ ~Has(response, delimiter) /\ Len(response) < MaxHeader
        /\ WaitFails \/ TimesOut
        /\ Goto(onFailure)
        /\ UNCHANGED <<inbox, response>>
     \/ /\ ~Has(response, delimiter) /\ Len(response) < MaxHeader
        /\ Readable
        /\ IF inbox = <<>>
           THEN Goto(onFailure) /\ UNCHANGED <<inbox, response>>
           ELSE /\ \E n \in 1 .. Len(inbox) :
                     /\ response' = response \o SubSeq(inbox, 1, n)
                     /\ inbox' = SubSeq(inbox, n + 1, Len(inbox))
                /\ UNCHANGED reader
        /\ UNCHANGED wake
  /\ UNCHANGED <<sock, active, ending, peer, next, faults, outbox, running,
                 shutting, threadVars, mainVars, got, ggas>>

(* first "\r\n\r\n"; if that fails for whatever reason, "\n\n" *)
ReadHeader ==
  \/ ReadUntil("untilCrlf", "crlf", "parse", "untilLf")
  \/ ReadUntil("untilLf", "lf", "parse", "refused")

(* Variant for mutation: what follows the header is thrown away *)
ParseResponseDroppingPayload ==
  /\ reader = "parse"
  /\ Goto(IF response[1][1] = "ok" THEN "announce" ELSE "refused")
  /\ response' = <<>>
  /\ KeepSocket
  /\ UNCHANGED <<flagVars, threadVars, mainVars, got, ggas>>

(* parseResponse: the status decides; RTCM received with the header is     *)
(* dispatched before the connection is announced                           *)
ParseResponse ==
  /\ reader = "parse"
  /\ IF response[1][1] = "ok"
     THEN /\ Goto("announce")
          /\ got' = got \o RtcmOf(response)
          /\ response' = <<>>
     ELSE Goto("refused") /\ UNCHANGED <<got, response>>
  /\ KeepSocket
  /\ UNCHANGED <<flagVars, threadVars, mainVars, ggas>>

(* onConnected returned false: closeSocket(), connect() returns false *)
Refused ==
  /\ reader = "refused"
  /\ Goto("failed")
  /\ CloseSocket
  /\ UNCHANGED <<flagVars, threadVars, mainVars, ggas>>

(* notifyConnectionState(true), connect() returns true *)
Announce ==
  /\ reader = "announce"
  /\ Goto("wait")
  /\ active' = TRUE
  /\ UNCHANGED <<sock, netVars, outbox, flagVars, response, threadVars, mainVars, got, ggas>>

(* Variant for mutation: a failed attempt is the last one *)
ConnectFailedGivingUp ==
  /\ reader = "failed"
  /\ Goto("final")
  /\ KeepSocket
  /\ UNCHANGED <<flagVars, response, threadVars, mainVars, got, ggas>>

(* connect() failed: leave the loop when stopping, else sleep and retry *)
ConnectFailed ==
  /\ reader = "failed"
  /\ Goto(IF ~running \/ shutting THEN "final" ELSE "sleep")
  /\ KeepSocket
  /\ UNCHANGED <<flagVars, response, threadVars, mainVars, got, ggas>>

(* waitForEvent(POLLIN, -1) *)
Wait ==
  /\ reader = "wait"
  /\ \/ WaitFails /\ Goto("lost")
     \/ Readable /\ Goto("recv") /\ UNCHANGED wake
  /\ KeepSocket
  /\ UNCHANGED <<running, shutting, response, threadVars, mainVars, got, ggas>>

Lost ==
  /\ reader = "lost"
  /\ \/ /\ ~running \/ shutting
        /\ Goto("final")
        /\ KeepSocket /\ UNCHANGED <<response, got>>
     \/ /\ running /\ ~shutting
        /\ Goto("sleep")
        /\ CloseSocket
  /\ UNCHANGED <<flagVars, threadVars, mainVars, ggas>>

(* recv: a chunk for the callbacks; or the end or an error of the stream   *)
Recv ==
  /\ reader = "recv"
  /\ \/ /\ peer # "reset"
        /\ \E n \in 1 .. Len(inbox) :
             /\ got' = got \o RtcmOf(SubSeq(inbox, 1, n))
             /\ inbox' = SubSeq(inbox, n + 1, Len(inbox))
        /\ Goto("loop")
        /\ UNCHANGED <<sock, active, ending, peer, next, faults, outbox, response>>
     \/ /\ peer = "reset" \/ inbox = <<>>
        /\ Goto("sleep")
        /\ CloseSocket
  /\ UNCHANGED <<flagVars, threadVars, mainVars, ggas>>

(* sleepInterruptibly: the wake pipe ends it early, and the loop with it   *)
Sleep ==
  /\ reader = "sleep"
  /\ \/ wake > 0 /\ wake' = 0 /\ Goto("final")
     \/ /\ wake = 0
        /\ Goto(IF running /\ ~shutting THEN "loop" ELSE "final")
        /\ UNCHANGED wake
  /\ KeepSocket
  /\ UNCHANGED <<running, shutting, response, threadVars, mainVars, got, ggas>>

(* the closeSocket() after the loop *)
Final ==
  /\ reader = "final"
  /\ Goto("exited")
  /\ CloseSocket
  /\ UNCHANGED <<flagVars, threadVars, mainVars, ggas>>

ReaderStep ==
  \/ ReadLoop \/ ResolveFails \/ OpenConnection \/ ConnectRefused \/ ConnectAccepted \/ RequestSent
  \/ ReadHeader \/ ParseResponse \/ Refused \/ Announce \/ ConnectFailed
  \/ Wait \/ Lost \/ Recv \/ Sleep \/ Final

-----------------------------------------------------------------------------
(* writeAll, run by the reader (the request) and by the GGA timer *)

WriterGoto(t, pc) == wr' = [wr EXCEPT ![t] = pc]

Returns(t, outcome) ==
  /\ WriterGoto(t, outcome)
  /\ writeLock' = NoThread
  /\ UNCHANGED total

(* Variant for mutation: no lock_guard *)
WriteLockUnguarded(t) ==
  /\ wr[t] = "lock"
  /\ writeLock' = t
  /\ WriterGoto(t, "check")
  /\ UNCHANGED <<total, wake, outbox>>

(* std::lock_guard<std::mutex> lock(write_mutex_) *)
WriteLock(t) ==
  /\ wr[t] = "lock" /\ writeLock = NoThread
  /\ writeLock' = t
  /\ WriterGoto(t, "check")
  /\ UNCHANGED <<total, wake, outbox>>

(* while (total < len && is_open()) ...  return total == len *)
WriteCheck(t) ==
  /\ wr[t] = "check"
  /\ IF total[t] < SendChunks /\ sock # "none"
     THEN WriterGoto(t, "poll") /\ UNCHANGED <<total, writeLock>>
     ELSE Returns(t, IF total[t] = SendChunks THEN "ok" ELSE "failed")
  /\ UNCHANGED <<wake, outbox>>

(* waitForEvent(POLLOUT, timeout): false for the wake pipe, a socket that  *)
(* is gone or reset, and at the timeout                                    *)
WritePollFails(t) ==
  /\ wr[t] = "poll"
  /\ wake' = 0
  /\ Returns(t, "failed")
  /\ UNCHANGED outbox

WritePollReady(t) ==
  /\ wr[t] = "poll"
  /\ wake = 0 /\ sock = "up" /\ peer # "reset"
  /\ WriterGoto(t, "send")
  /\ UNCHANGED <<wake, total, writeLock, outbox>>

(* send(socket_fd_, ...): on whatever socket the client has by now *)
WriteSend(t) ==
  /\ wr[t] = "send"
  /\ IF sock = "up" /\ peer # "reset"
     THEN /\ outbox' = Append(outbox, <<t, total[t] + 1>>)
          /\ total' = [total EXCEPT ![t] = @ + 1]
          /\ WriterGoto(t, "check")
          /\ UNCHANGED writeLock
     ELSE Returns(t, "failed") /\ UNCHANGED outbox
  /\ UNCHANGED wake

writerFrame == <<sock, active, running, shutting, reader, response, mainVars,
                 netVars, got, ggas>>

WriterStep(t) ==
  /\ \/ WriteLock(t) \/ WriteCheck(t) \/ WritePollFails(t) \/ WritePollReady(t)
     \/ WriteSend(t)
  /\ UNCHANGED writerFrame

(* the timer fires, the client looks open and there is a usable fix *)
SendNtripGga ==
  /\ main = "spin" /\ rosOk /\ wr["gga"] = "idle"
  /\ sock # "none"
  /\ ggas < MaxGga /\ ggas' = ggas + 1
  /\ WriterGoto("gga", "lock")
  /\ total' = [total EXCEPT !["gga"] = 0]
  /\ KeepSocket
  /\ UNCHANGED <<flagVars, reader, response, writeLock, mainVars, got>>

GgaReturns ==
  /\ wr["gga"] \in {"ok", "failed"}
  /\ WriterGoto("gga", "idle")
  /\ KeepSocket
  /\ UNCHANGED <<flagVars, reader, response, total, writeLock, mainVars, got, ggas>>

-----------------------------------------------------------------------------
(* The main thread *)

MainMoves(from, to) == main = from /\ main' = to
MainFrame == <<reader, threadVars, rosOk, ggas>>

(* executor.spin() returns after shutdown, when no callback is running *)
ExecutorReturns ==
  /\ MainMoves("spin", "close")
  /\ ~rosOk /\ wr["gga"] = "idle"
  /\ KeepSocket
  /\ UNCHANGED <<flagVars, response, got, MainFrame>>

(* close(): shutting_down_ is set, and read_running_ is looked at *)
CloseBegin ==
  /\ MainMoves("close", IF running THEN "stop" ELSE "closeSocket")
  /\ shutting' = TRUE
  /\ KeepSocket
  /\ UNCHANGED <<running, wake, response, got, MainFrame>>

CloseStop ==
  /\ MainMoves("stop", "wakeup")
  /\ running' = FALSE
  /\ KeepSocket
  /\ UNCHANGED <<shutting, wake, response, got, MainFrame>>

(* Variant for mutation: the reader is expected to notice by itself *)
CloseWithoutWake ==
  /\ MainMoves("wakeup", "join")
  /\ KeepSocket
  /\ UNCHANGED <<flagVars, response, got, MainFrame>>

(* wakeReader() *)
CloseWake ==
  /\ MainMoves("wakeup", "join")
  /\ wake' = wake + 1
  /\ KeepSocket
  /\ UNCHANGED <<running, shutting, response, got, MainFrame>>

CloseJoin ==
  /\ MainMoves("join", "closeSocket")
  /\ reader = "exited"
  /\ KeepSocket
  /\ UNCHANGED <<flagVars, response, got, MainFrame>>

(* closeSocket() and the two ends of the pipe *)
CloseEnd ==
  /\ MainMoves("closeSocket", "done")
  /\ CloseSocket
  /\ wake' = 0
  /\ UNCHANGED <<running, shutting, MainFrame>>

Close == CloseBegin \/ CloseStop \/ CloseWake \/ CloseJoin \/ CloseEnd

MainStep == ExecutorReturns \/ Close

-----------------------------------------------------------------------------
(* The environment *)

envFrame == <<sock, active, flagVars, reader, response, threadVars, main, outbox, got, ggas>>

Interrupt ==
  /\ rosOk /\ rosOk' = FALSE
  /\ UNCHANGED <<envFrame, netVars>>

RequestArrived == Contains(outbox, <<"reader", SendChunks>>)

(* the header has not been sent on this connection *)
Unanswered == inbox = <<>> /\ response = <<>> /\ reader = "untilCrlf"

CasterAnswers(status) ==
  /\ RequestArrived /\ Unanswered /\ peer = "ok"
  /\ inbox' = <<<<status, 0>>, <<ending, 0>>>>
  /\ UNCHANGED <<envFrame, rosOk, ending, peer, next, faults>>

(* corrections follow the header, for a request that was granted *)
CasterSends ==
  /\ peer = "ok" /\ next <= MaxRtcm
  /\ \/ Has(inbox, "ok") \/ Has(response, "ok")
     \/ reader \in {"announce", "wait", "recv", "loop"} /\ sock = "up"
  /\ inbox' = Append(inbox, <<"rtcm", next>>)
  /\ next' = next + 1
  /\ UNCHANGED <<envFrame, rosOk, ending, peer, faults>>

(* the caster closes, or the connection is reset *)
ConnectionEnds ==
  /\ sock = "up" /\ peer = "ok" /\ faults < MaxFaults
  /\ peer' \in {"fin", "reset"}
  /\ faults' = faults + 1
  /\ UNCHANGED <<envFrame, rosOk, ending, inbox, next>>

Environment ==
  Interrupt \/ CasterAnswers("ok") \/ CasterAnswers("bad") \/ CasterSends \/ ConnectionEnds

Finished == main = "done" /\ UNCHANGED vars

Next ==
  \/ ReaderStep \/ MainStep
  \/ \E t \in Threads : WriterStep(t)
  \/ SendNtripGga \/ GgaReturns
  \/ Environment
  \/ Finished

Spec == Init /\ [][Next]_vars

(* Every thread runs when it can.  Of the network and the caster: who      *)
(* resolves, connects, sends the request and asks again and again will     *)
(* some time succeed.                                                      *)
FairSpec ==
  /\ Spec
  /\ WF_vars(ReaderStep) /\ WF_vars(MainStep)
  /\ \A t \in Threads : WF_vars(WriterStep(t))
  /\ WF_vars(GgaReturns)
  /\ SF_vars(OpenConnection) /\ SF_vars(ConnectAccepted)
  /\ \A k \in 0 .. SendChunks - 1 :
       SF_vars(WritePollReady("reader") /\ total["reader"] = k /\ UNCHANGED writerFrame)
  /\ SF_vars(CasterAnswers("ok"))

-----------------------------------------------------------------------------
(* Properties *)

(* The client keeps the promises of RtcmLink: within a connection the data *)
(* callbacks get the caster's messages in order, once and without a hole,  *)
(* those that came with the header included, and connection_active_ is     *)
(* FALSE again before the next connection is attempted.                    *)
Link == INSTANCE RtcmLink WITH
  link   <- IF sock = "none" THEN "down" ELSE IF active THEN "announced" ELSE "up",
  flight <- RtcmOf(response \o inbox)

LinkSpec == Link!Spec

(* write_mutex_ is held for a whole message: the caster never sees a GGA   *)
(* sentence inside the request, or the request inside a sentence.          *)
MessagesContiguous ==
  \A i \in 2 .. Len(outbox) :
    outbox[i][2] > 1 => outbox[i - 1] = <<outbox[i][1], outbox[i][2] - 1>>

(* Automatic reconnect (ublox_driver.cpp:201): as long as nobody stops the *)
(* client it comes up again after every failure.                           *)
Reconnects == ~active ~> (active \/ ~rosOk)

(* Ctrl-C: close() returns, wherever the reader is in its connect,         *)
(* handshake, receive and sleep cycle, when the caster ends its header     *)
(* with CRLF CRLF.  (With LF LF the first of the two readUntil calls can   *)
(* take the wake byte, the second succeeds, and the reader polls forever.) *)
CloseTerminates == ~rosOk ~> (main = "done" \/ ending = "lf")
=============================================================================
