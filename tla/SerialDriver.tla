------------------------------ MODULE SerialDriver ------------------------------
(***************************************************************************)
(* The life of the driver process around its serial port:                  *)
(* the GNSSDriverManager constructor and destructor, the startup           *)
(* configuration dialogue, the serial reader and the RTCM thread that      *)
(* writes corrections into the port                                        *)
(* (src/gnss_communication_wrapper/ublox_driver.cpp composed with          *)
(* SerialHandler).                                                         *)
(*                                                                         *)
(* Threads: "main" (main(), then the executor, then the destructor), the   *)
(* serial reader, and "rtcm", the reader thread of the RTCM client, here   *)
(* only as the thread that calls writeRaw: TcpClient models it in full.    *)
(* The receiver and the operator's Ctrl-C are the environment.             *)
(***************************************************************************)
EXTENDS SerialHandler, Integers

CONSTANTS
  EnableConfigBring,  \* params_.enable_config_bring
  EnableRtcm,         \* enable_rtcm_tcp_loopback or enable_ntrip_rtcm
  MaxFrames,          \* bound: unsolicited frames the receiver sends
  DialogueFrames,     \* bound: the same once the configuration is written
  MaxNoise,           \* bound: stray pieces on the line
  MaxWire,            \* bound: pieces in the tty input queue
  AllowHup            \* the device may be unplugged

ASSUME DriverAssumption ==
  /\ Writers = {"main", "rtcm"}
  /\ EnableConfigBring \in BOOLEAN
  /\ EnableRtcm \in BOOLEAN
  /\ AllowHup \in BOOLEAN
  /\ MaxFrames \in Nat
  /\ DialogueFrames \in Nat
  /\ MaxNoise \in Nat
  /\ MaxWire \in Nat

VARIABLES
  main,          \* program counter of the main thread
  ackFlag,       \* ack_flag_: "none" (0), "ack" (1), "nak" (-1)
  configResult,  \* what configureReceiverAtStartup returned
  rosOk,         \* rclcpp::ok()
  rtcm,          \* program counter of the RTCM thread
  rtcmRunning,   \* read_running_ of the RTCM client
  answer,        \* what the receiver answered to the configuration
  pending,       \* pieces of the frame the receiver is sending
  frames, noise, \* how much the receiver has sent
  due            \* history: data frames sent and neither handed to
                 \* process_data nor swallowed by a stray preamble

managerVars == <<main, ackFlag, configResult>>
rtcmVars    == <<rtcm, rtcmRunning>>
receiverVars == <<answer, pending, frames, noise>>
vars == <<serialVars, lineVars, managerVars, rosOk, rtcmVars, receiverVars, due>>

MainPCs == {"serial", "cfgBuild", "cfgReset", "cfgStart", "cfgWrite",
            "cfgWriting", "cfgWait", "cfgStop", "cfgWake", "cfgJoin", "cfgEnd",
            "register", "start", "rtcm", "spin", "rtcmClose", "rtcmJoin",
            "serialClose", "endStop", "endWake", "endJoin", "closeFds", "done"}

(* The types of the variables of both modules *)
TypeOK ==
  /\ SerialTypeOK
  /\ main \in MainPCs
  /\ ackFlag \in {"none", "ack", "nak"}
  /\ configResult \in {"unset", "ok", "failed"}
  /\ rosOk \in BOOLEAN
  /\ rtcm \in {"none", "recv", "write", "exited"}
  /\ rtcmRunning \in BOOLEAN
  /\ answer \in {"none", "ack", "nak"}
  /\ pending \in Seq(Pieces)
  /\ frames \in Nat /\ noise \in Nat
  /\ due \in Int

(* The startup dialogue was held, with a reader of its own. *)
Dialogue == wr["main"] # "idle"

Init ==
  /\ SerialInit
  /\ main = "serial"
  /\ ackFlag = "none"
  /\ configResult = "unset"
  /\ rosOk = TRUE
  /\ rtcm = "none"
  /\ rtcmRunning = FALSE
  /\ answer = "none"
  /\ pending = <<>>
  /\ frames = 0 /\ noise = 0
  /\ due = 0

-----------------------------------------------------------------------------
(* The main thread *)

MainMoves(from, to) == main = from /\ main' = to

(* what the main thread never touches in a step of its own *)
mainFrame == <<rosOk, rtcmVars, receiverVars, due>>

(* setupSerialPipeline up to the decision to configure the receiver *)
SetupSerial ==
  /\ MainMoves("serial", IF ~fdOpen THEN "rtcm"
                         ELSE IF EnableConfigBring THEN "cfgBuild"
                         ELSE "register")
  /\ UNCHANGED <<serialVars, lineVars, ackFlag, configResult, mainFrame>>

(* the records of a configuration: keys with raw values from a u-center    *)
(* file, or names from a YAML file, which may be empty or unknown          *)
Configurations == {{"raw"}} \cup SUBSET {"named", "unnamed", "unknown"}

(* build_config_msg: the records are appended in their order, up to the    *)
(* first without name or with a name that is not in the table              *)
build_config_msg(records) == IF records \cap {"unnamed", "unknown"} = {} THEN 0 ELSE -1

(* configureReceiverAtStartup: an empty list succeeds, a list that cannot  *)
(* be encoded fails, else the message is in the buffer                     *)
CfgBuild ==
  /\ \E records \in Configurations :
       \/ /\ records = {}
          /\ MainMoves("cfgBuild", "register") /\ configResult' = "ok"
       \/ /\ records # {} /\ build_config_msg(records) # 0
          /\ MainMoves("cfgBuild", "register") /\ configResult' = "failed"
       \/ /\ records # {} /\ build_config_msg(records) = 0
          /\ MainMoves("cfgBuild", "cfgReset") /\ UNCHANGED configResult
  /\ UNCHANGED <<serialVars, lineVars, ackFlag, mainFrame>>

(* ack_flag_ = false; clearDataCallbacks(); registerDataCallback(...)      *)
CfgReset ==
  /\ MainMoves("cfgReset", "cfgStart")
  /\ ackFlag' = "none"
  /\ callbacks' = <<"handleConfigAck">>
  /\ UNCHANGED <<fdOpen, pipeOpen, readRunning, shuttingDown, joinable, wake,
                 readerVars, writerVars, lineVars, configResult, mainFrame>>

CfgStart ==
  /\ MainMoves("cfgStart", "cfgWrite")
  /\ StartRead
  /\ UNCHANGED <<ackFlag, configResult, mainFrame>>

CfgWrite ==
  /\ MainMoves("cfgWrite", "cfgWriting")
  /\ WriteCall("main")
  /\ UNCHANGED <<handleVars, wake, readerVars, lineVars, ackFlag, configResult,
                 mainFrame>>

(* writeRaw returned: on failure the wait for the answer is skipped        *)
CfgWritten ==
  /\ wr["main"] \in {"ok", "failed"}
  /\ MainMoves("cfgWriting", IF wr["main"] = "ok" THEN "cfgWait" ELSE "cfgStop")
  /\ UNCHANGED <<serialVars, lineVars, ackFlag, configResult, mainFrame>>

(* Variant for mutation: the callbacks are cleared before the reader stops *)
CfgWaitClearingCallbacks ==
  /\ MainMoves("cfgWait", "cfgStop")
  /\ callbacks' = <<>>
  /\ UNCHANGED <<fdOpen, pipeOpen, readRunning, shuttingDown, joinable, wake,
                 readerVars, writerVars, lineVars, ackFlag, configResult, mainFrame>>

(* The loop on ack_cv_ ends with an answer, at shutdown or at the deadline, *)
(* which may pass at any moment                                            *)
CfgWait ==
  /\ MainMoves("cfgWait", "cfgStop")
  /\ UNCHANGED <<serialVars, lineVars, ackFlag, configResult, mainFrame>>

(* stopRead() called at program point "stop": it returns to "next" *)
StopRead(stop, wakeup, join, next) ==
  /\ \/ /\ ~readRunning
        /\ MainMoves(stop, next)
        /\ UNCHANGED <<serialVars, lineVars>>
     \/ readRunning /\ MainMoves(stop, wakeup) /\ StopReadClear
     \/ MainMoves(wakeup, join) /\ StopReadWake
     \/ MainMoves(join, next) /\ StopReadJoin
  /\ UNCHANGED <<ackFlag, configResult, mainFrame>>

CfgStopRead == StopRead("cfgStop", "cfgWake", "cfgJoin", "cfgEnd")

(* Variant for mutation: any answer counts as success *)
CfgEndAnyAnswer ==
  /\ MainMoves("cfgEnd", "register")
  /\ callbacks' = <<>>
  /\ configResult' = IF wr["main"] = "ok" /\ ackFlag # "none" THEN "ok" ELSE "failed"
  /\ UNCHANGED <<fdOpen, pipeOpen, readRunning, shuttingDown, joinable, wake,
                 readerVars, writerVars, lineVars, ackFlag, mainFrame>>

(* clearDataCallbacks() and the value configureReceiverAtStartup returns   *)
CfgEnd ==
  /\ MainMoves("cfgEnd", "register")
  /\ callbacks' = <<>>
  /\ configResult' = IF wr["main"] = "ok" /\ ackFlag = "ack" THEN "ok" ELSE "failed"
  /\ UNCHANGED <<fdOpen, pipeOpen, readRunning, shuttingDown, joinable, wake,
                 readerVars, writerVars, lineVars, ackFlag, mainFrame>>

(* registerDataCallback(process_data) *)
Register ==
  /\ MainMoves("register", "start")
  /\ callbacks' = Append(callbacks, "process_data")
  /\ UNCHANGED <<fdOpen, pipeOpen, readRunning, shuttingDown, joinable, wake,
                 readerVars, writerVars, lineVars, ackFlag, configResult, mainFrame>>

Start ==
  /\ MainMoves("start", "rtcm")
  /\ StartRead
  /\ UNCHANGED <<ackFlag, configResult, mainFrame>>

(* setupRtcmPipeline: nothing without an open port *)
SetupRtcm ==
  /\ MainMoves("rtcm", "spin")
  /\ IF EnableRtcm /\ fdOpen
     THEN rtcm' = "recv" /\ rtcmRunning' = TRUE
     ELSE UNCHANGED rtcmVars
  /\ UNCHANGED <<serialVars, lineVars, ackFlag, configResult, rosOk, receiverVars, due>>

(* Variant for mutation: the port is closed under the RTCM thread *)
SpinClosingSerialFirst ==
  /\ ~rosOk
  /\ MainMoves("spin", "serialClose")
  /\ UNCHANGED <<serialVars, lineVars, ackFlag, configResult, mainFrame>>

(* executor.spin() returns once rclcpp::ok() is false; the manager's       *)
(* destructor runs next                                                    *)
Spin ==
  /\ ~rosOk
  /\ MainMoves("spin", "rtcmClose")
  /\ UNCHANGED <<serialVars, lineVars, ackFlag, configResult, mainFrame>>

(* rtcm_client_->close(): ask the thread to stop, then join it *)
RtcmClose ==
  /\ MainMoves("rtcmClose", "rtcmJoin")
  /\ rtcmRunning' = FALSE
  /\ UNCHANGED <<serialVars, lineVars, ackFlag, configResult, rosOk, rtcm,
                 receiverVars, due>>

RtcmJoin ==
  /\ rtcm \in {"none", "exited"}
  /\ MainMoves("rtcmJoin", "serialClose")
  /\ UNCHANGED <<serialVars, lineVars, ackFlag, configResult, mainFrame>>

(* serial_handler_->close() *)
SerialClose ==
  /\ MainMoves("serialClose", "endStop")
  /\ CloseBegin
  /\ UNCHANGED <<ackFlag, configResult, mainFrame>>

EndStopRead == StopRead("endStop", "endWake", "endJoin", "closeFds")

SerialCloseFds ==
  /\ MainMoves("closeFds", "done")
  /\ CloseFds
  /\ UNCHANGED <<ackFlag, configResult, mainFrame>>

MainStep ==
  \/ SetupSerial \/ CfgBuild \/ CfgReset \/ CfgStart \/ CfgWrite \/ CfgWritten
  \/ CfgWait \/ CfgStopRead \/ CfgEnd \/ Register \/ Start \/ SetupRtcm \/ Spin
  \/ RtcmClose \/ RtcmJoin \/ SerialClose \/ EndStopRead \/ SerialCloseFds

-----------------------------------------------------------------------------
(* The serial reader: its own steps, and the callbacks it runs *)

(* handleConfigAck keeps the last answer; anything else is ignored *)
HandleConfigAck(k) == ackFlag' = IF k \in {"ack", "nak"} THEN k ELSE ackFlag

(* process_data publishes a data message; answers are not for it *)
ProcessData(k) == due' = IF k = "data" THEN due - 1 ELSE due

(* verifyMsg refuses what was cut out at a wrong place by its checksum *)
Received == IF phase = "astray" THEN "noise" ELSE Head(buf)

Dispatch ==
  /\ ReaderDispatch
  /\ LET k == Received IN
       \/ /\ callbacks = <<"handleConfigAck">>
          /\ HandleConfigAck(k)
          /\ UNCHANGED due
       \/ /\ callbacks = <<"process_data">>
          /\ ProcessData(k)
          /\ UNCHANGED ackFlag
  /\ UNCHANGED <<main, configResult, rosOk, rtcmVars, receiverVars>>

(* The step takes the beginning of a frame into a message that a stray      *)
(* preamble announced, as the rest of its header or in its body.            *)
Swallows ==
  \/ reader = "scan" /\ reader' = "len" /\ buf = <<"stray", "sync">>
  \/ reader = "read" /\ phase = "astray" /\ wire' # wire /\ Head(wire) = "sync"

SerialReader ==
  \/ /\ ReaderStep
     /\ due' = IF Swallows THEN due - 1 ELSE due
     /\ UNCHANGED <<managerVars, rosOk, rtcmVars, receiverVars>>
  \/ Dispatch

(* write_all as run by the main thread inside configureReceiverAtStartup *)
MainWrites ==
  /\ WriterStep("main")
  /\ UNCHANGED <<managerVars, rosOk, rtcmVars, receiverVars, due>>

-----------------------------------------------------------------------------
(* The RTCM thread, as far as the port sees it *)

(* a chunk has arrived and the data callback calls writeRaw *)
RtcmChunk ==
  /\ rtcm = "recv" /\ rtcmRunning
  /\ rtcm' = "write"
  /\ WriteCall("rtcm")
  /\ UNCHANGED <<handleVars, wake, readerVars, lineVars, managerVars, rosOk,
                 rtcmRunning, receiverVars, due>>

RtcmWrites ==
  /\ WriterStep("rtcm")
  /\ UNCHANGED <<managerVars, rosOk, rtcmVars, receiverVars, due>>

(* writeRaw's result is ignored: a chunk that failed is lost *)
RtcmWritten ==
  /\ rtcm = "write" /\ wr["rtcm"] \in {"ok", "failed"}
  /\ rtcm' = "recv"
  /\ wr' = [wr EXCEPT !["rtcm"] = "idle"]
  /\ UNCHANGED <<wrote, writeLock, handleVars, wake, readerVars, lineVars,
                 managerVars, rosOk, rtcmRunning, receiverVars, due>>

RtcmExit ==
  /\ rtcm = "recv" /\ ~rtcmRunning
  /\ rtcm' = "exited"
  /\ UNCHANGED <<serialVars, lineVars, managerVars, rosOk, rtcmRunning,
                 receiverVars, due>>

RtcmProgress == RtcmWrites \/ RtcmWritten \/ RtcmExit

-----------------------------------------------------------------------------
(* The environment: the receiver, the cable, the operator *)

(* the receiver starts to send a frame of its own, or the line has noise,   *)
(* which may look like a preamble                                           *)
ReceiverSends ==
  /\ fdOpen /\ ~hup /\ pending = <<>>
  /\ \/ /\ frames < (IF Dialogue THEN DialogueFrames ELSE MaxFrames)
        /\ frames' = frames + 1
        /\ pending' = Frame("data")
        /\ due' = due + 1
        /\ UNCHANGED noise
     \/ /\ noise < MaxNoise
        /\ noise' = noise + 1
        /\ pending' \in {<<"noise">>, <<"stray">>}
        /\ UNCHANGED <<frames, due>>
  /\ UNCHANGED <<serialVars, lineVars, managerVars, rosOk, rtcmVars, answer>>

(* it answers the configuration message once it has the whole message *)
ReceiverAnswers ==
  /\ ~hup /\ pending = <<>> /\ answer = "none"
  /\ wrote["main"] = WriteChunks
  /\ \E a \in {"ack", "nak"} : answer' = a /\ pending' = Frame(a)
  /\ UNCHANGED <<serialVars, lineVars, managerVars, rosOk, rtcmVars, frames, noise, due>>

(* the next piece of the frame reaches the tty input queue *)
LineDelivers ==
  /\ pending # <<>> /\ Len(wire) < MaxWire
  /\ wire' = Append(wire, Head(pending))
  /\ pending' = Tail(pending)
  /\ UNCHANGED <<serialVars, hup, managerVars, rosOk, rtcmVars, answer, frames, noise, due>>

(* what was still on its way is gone: a port that hung up is not read *)
Unplug ==
  /\ AllowHup /\ ~hup /\ fdOpen
  /\ hup' = TRUE
  /\ wire' = <<>> /\ pending' = <<>>
  /\ UNCHANGED <<serialVars, managerVars, rosOk, rtcmVars, answer, frames, noise, due>>

(* SIGINT: rclcpp::ok() is false from now on *)
Interrupt ==
  /\ rosOk
  /\ rosOk' = FALSE
  /\ UNCHANGED <<serialVars, lineVars, managerVars, rtcmVars, receiverVars, due>>

Environment == ReceiverSends \/ ReceiverAnswers \/ LineDelivers \/ Unplug \/ Interrupt

(* the process has ended: no thread of it takes a step any more *)
Finished ==
  /\ main = "done"
  /\ UNCHANGED vars

Next ==
  \/ MainStep \/ MainWrites
  \/ SerialReader
  \/ RtcmChunk \/ RtcmProgress
  \/ Environment
  \/ Finished

(* Every thread runs when it can and what is on the line arrives.  No      *)
(* fairness for what the environment may choose not to do: to send, to     *)
(* answer, to unplug, to interrupt, to hand the RTCM thread a chunk.       *)
Fairness ==
  /\ WF_vars(MainStep)
  /\ WF_vars(MainWrites)
  /\ WF_vars(SerialReader)
  /\ WF_vars(RtcmProgress)
  /\ WF_vars(LineDelivers)

Spec == Init /\ [][Next]_vars

FairSpec == Spec /\ Fairness

-----------------------------------------------------------------------------
(* Properties *)

(* No thread polls, reads or writes a descriptor that close() has closed:  *)
(* serial_fd_ is a plain int that nothing protects, so this rests on the   *)
(* order in which the destructor closes the two clients                    *)
(* (ublox_driver.cpp:124-131) and on the join in stopRead.                 *)
NoUseAfterClose ==
  ~(fdOpen /\ pipeOpen) =>
    /\ ~ReaderLive
    /\ \A w \in Writers : wr[w] \notin {"poll", "drain", "send"}

(* data_callbacks_ is iterated by the reader without a lock, so it changes *)
(* only while no reader thread is inside read_loop.                        *)
CallbacksQuiescent == [][callbacks' # callbacks => ~ReaderLive]_vars

(* Assigning to a joinable std::thread, or destroying one, ends the        *)
(* process: startRead spawns only when the last reader was joined, and the *)
(* handler is destroyed only after its reader was joined.                  *)
NeverTerminates ==
  [][ /\ (reader' = "loop" /\ ~ReaderLive) => ~joinable
      /\ main' = "done" => ~joinable' ]_vars

(* configureReceiverAtStartup reports success after a dialogue only when   *)
(* the receiver acknowledged this configuration and did not reject it.     *)
SuccessIsAcknowledged ==
  (configResult = "ok" /\ Dialogue) => answer = "ack"

(* A byte in the wake pipe is a request to the reader to stop, yet every   *)
(* poll of the object, a writer's included, empties the pipe.  With one    *)
(* reader it is only emptied once the reader has been told to stop, and by *)
(* the reader.                                                             *)
WakeReachesReader ==
  [][(wake' < wake /\ pipeOpen' /\ ~Dialogue) => (reader = "drain" /\ ~readRunning)]_vars

(* A reader that is the first one runs while the driver spins, as long as  *)
(* the port neither hangs up nor is closed.                                *)
FirstReaderRuns ==
  (main = "spin" /\ fdOpen /\ ~hup /\ ~Dialogue) => ReaderLive

(* ublox_driver.cpp:163-164: the asynchronous reader runs while the driver *)
(* spins, as long as the port neither hangs up nor is closed.              *)
ReaderRunsWhileSpinning ==
  (main = "spin" /\ fdOpen /\ ~hup) => ReaderLive

(* Ctrl-C ends the process, wherever its threads are blocked. *)
InterruptTerminates == ~rosOk ~> main = "done"

(* Every data frame the receiver completes is handed to process_data, also *)
(* behind noise, except one whose own preamble a stray preamble in the     *)
(* noise has taken into the message it announced: that one is lost, and    *)
(* the next frame with its preamble behind the end of that message is not. *)
(* The driver may be told to stop and the port may hang up before; the     *)
(* reader of the dialogue has other callbacks.                             *)
FramesDelivered == (due > 0) ~> (due = 0 \/ ~rosOk \/ hup \/ Dialogue)
=============================================================================
