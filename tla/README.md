# A TLA+ model of gnss_parser

This directory holds a formal model of the u-blox driver of this repository and
of the parts of `gnss_comm` that it and the converters rest on. The modules
(`*.tla`) state what the code does and what makes it correct, the `MC_*.tla`
and `*.cfg` files are the instances that TLC checks, and the `*_proofs.tla`
modules hold proofs that TLAPS checks. `PROJECT.json` lists the components, the
runs, which lines of the source every definition stands for, the hazards and
the theorems.

Paths below are short: `serial_handler.cpp` and the like are under
`src/ublox_driver/src/`, and "helper" is
`gnss_message_parser/ublox_message_processor_helper.cpp`.

## 1. The system

One process, `ublox_driver_node`, connects a u-blox receiver to ROS 2.

| Component | State it keeps | Operations |
|---|---|---|
| `SerialHandler` (serial_handler.cpp) | port and wake pipe, `read_running_`, `shutting_down_`, the reader thread, the callback list, `write_mutex_` | constructor, `startRead`, `stopRead`, `writeRaw`, `close`, the read loop |
| `GNSSDriverManager` (ublox_driver.cpp) | the two clients, `ack_flag_`, `latest_pvt_`, the correction buffer `rtcm_log_buffer_` | construction, the configuration dialogue, forwarding of corrections, cutting them into frames, the GGA timer, destruction |
| `TcpClient`, `LoopbackTcpClient` (tcp_client.cpp) | socket, wake pipe, flags, `connection_active_`, `write_mutex_` | connect, receive, reconnect, write, `close` |
| `NtripClient` (ntrip_client.cpp) | nothing of its own | the handshake with the caster |
| `UbloxMessageProcessor` (helper, ublox_message_processor.cpp) | `subfrm`, `bds_d1_subfrm_flags_`, `curr_time`, lock times and tracking states of every slot | checking and dispatching a message; raw observations, navigation subframes, solutions, time pulses; the configuration message and its answer |
| `UbloxRosHandler` (ros_handler.cpp) | publishers, the masks of systems | what is published, what is held back |
| `StateMachineRegistry` | instances with a state and a time | reporting, time-out (no build target compiles it, nothing uses it) |
| `Parameters` (params.cpp) | what the files say: the source of corrections, the masks, the settings for the receiver | reading the driver's own file, the u-center dump or the YAML map for the receiver; refusing them |
| `gnss_comm` | tables | satellite numbers, signal tables, time conversions, RINEX, positioning, conversions of ROS messages |
| `gnss_cvt_toolkit` | - | `bag2rinex`, `bag2rtk_solution` |

How they interact:

* Three threads meet at the serial port: the main thread (start and end), the
  serial reader, which runs the data callbacks, and the reader of the
  correction client, whose data callback writes into the port. They share
  plain variables, one wake pipe and a callback list; only writing has a lock.
* Three threads meet at the correction client: its reader (connect, handshake,
  receive, sleep), the executor with the GGA timer, which writes into the same
  socket, and the main thread, which closes it.
* Everything the parser does happens on the serial reader, one message after
  the other, but with a memory: buffers of subframes, the reference time, the
  lock times. A message means what it means only together with these.
* At startup the files for the receiver become one message; the receiver reads
  it by its own table of keys, and its answer comes back among its other
  messages.
* Recorded topics are read again by `bag2rinex` and `bag2rtk_solution`, which
  have to undo what the driver did to satellite numbers, carriers and times.
  An ephemeris may also come from a navigation file, read by other code.

What is hard here: stopping threads that block in `poll`, `recv` or a join;
one wake pipe read by several threads; reconnection; frames cut anywhere, and
frames a lost connection left half; noise around an answer;
subframes lost or replaced in the middle of a frame; week numbers cut to ten
bits and the ends of weeks in three time systems; slips that must be seen
across lost messages.

## 2. Modules

| Module | Models | Its state in the code |
|---|---|---|
| `SerialHandler` | the port object: read loop, `read_exact`, `wait_for_event`, `write_all`, start, stop, close, one step between any two accesses to shared state | members of the class; `reader`, `wr` are program counters, `buf` is `data_buf_` in pieces |
| `SerialDriver` | extends `SerialHandler` with constructor, configuration dialogue, executor and destructor, the correction thread as a writer, and the environment | `main` and `rtcm` are program counters, `ackFlag` is `ack_flag_` |
| `RtcmLink` | the abstract promise of the correction client: connections within which data arrives in order, once, without a hole | - |
| `TcpClient` | `TcpClient` with the handshake of `NtripClient`, the GGA timer and `close`; implements `RtcmLink` | `sock`, `active`, `running`, `shutting` are the members; `reader`, `main`, `wr` program counters |
| `RtcmFraming` | `logRtcmFrames` and `drainRtcmLogBuffer`, one action per way through the loop, with a reference that scans the whole stream | `buffer` is `rtcm_log_buffer_` |
| `CorrectionStream` | composes `RtcmLink` and `RtcmFraming`: whole messages and garbage from the caster, over connections that break at any byte | - |
| `UbxMessage` | the layout of UBX messages, their check sum, `verifyMsg`, `check_ack` | - |
| `UbxFraming` | the read loop of the port byte by byte, with a reference that scans the whole line | `dataBuf` is `data_buf_`, `reading` what `read_exact` was called for |
| `ReceiverConfig` | `LoadUbloxDriverParams`, `ParseUCenterConfig`, `build_config_msg`: every setting, line and record that is taken or refused | `params`, `records` are `UbloxDriverParams`, `message` is `config_buffer` |
| `ReceiverDialogue` | composes the two with the receiver and the line: the message goes out, an answer, other messages and noise come back | `ack_flag` is `ack_flag_`, `result` what `configureReceiverAtStartup` returns |
| `SubframeDispatch` | `parse_subframe` and `publishEphemeris` around the four decoders; which satellite uses which buffer | `subfrm` and `flags` of one watched satellite |
| `GpsSubframes`, `BdsD1Subframes`, `BdsD2Pages`, `GalWords` | how a decoder puts an ephemeris together from what a satellite sends | `subfrm[sat - 1]`, `bds_d1_subfrm_flags_[sat - 1]`, byte 112 of a Galileo buffer |
| `UbxSignals` | the tables: `sat_no`, `satsys`, `ubx_sys`, `ubx_sig`, `sig_idx`, `sig_freq` | - |
| `ObsChain` | a raw observation from the block of the receiver through topic and recording to a row of a RINEX file | `obs_meas`, the published message, the rows |
| `SlipDetection` | the comparison of lock time and status with the last block of the slot | `signal_track_lock_times_`, `signal_track_state_` (one record per slot) |
| `TimeResolution` | how decoders and solutions get a full time from a cut one | `curr_time` |
| `TimeRecords` | extends `TimeResolution` with what is published and what becomes of it: fields of a message, epochs of an observation file, rows of a trajectory, dates; time pulses; beside it the reader of navigation files | `topic` is the last message on a topic |
| `Calendar` | `time2epoch`, `epoch2time`, `gpst2utc`, `utc2gpst`, beside the Gregorian calendar as the reference | - |

`SerialDriver` is `SerialHandler` with its callers: there the threads are
interleaved and bytes are abstract, while `UbxFraming` and `ReceiverDialogue`
have the bytes of the same loop and the same dialogue without the threads.
`CorrectionStream` uses as its connection the abstract specification that
`TcpClient` is checked to implement. `SubframeDispatch`
instantiates the four decoders over shared variables and chooses the watched
satellite, and with it the decoder, in its initial state. `TcpClient` states
its refinement as `Link == INSTANCE RtcmLink WITH ...`: the link is down
without socket, up with it, announced with `connection_active_`, and what is in
flight is what lies in the socket and in the response of the handshake.

Data are abstracted to what decides the control: bytes to pieces of a frame,
orbit parameters to the generation they belong to, an observation to satellite,
slot and carrier, a message to its number. Operators called "Variant for
mutation" are not part of the model: they are plausible wrong versions of the
definition behind them, and every property is known to fail under one of them.

## 3. Runs

Passing runs, with the bounds and why they are enough:

| Run | What it shows | Bounds |
|---|---|---|
| `serial` (667 000 states) | start, dialogue, operation and end of the driver around its port, see 4.1 | two frames from the receiver, the second not before the dialogue is over (`DialogueFrames`; what comes during it goes to the callbacks of the dialogue), so that one can be swallowed by a stray preamble and one follow; one stray piece, noise or a preamble, one answer, one hang-up, one interrupt, each at any moment; one piece in the tty queue, the rest waits on the line: the reader takes pieces one by one anyway. One `::write` per message; the proofs are for any number. |
| `tcp` (86 000) | the client implements `RtcmLink`, keeps messages on the socket whole, reconnects, can be closed | two messages (order and holes need two), one GGA sentence against one request per connection, two `send` calls each (so that one can land inside the other), one broken connection on top of any number of refusals |
| `correction_stream` (364 000) | framing does not depend on where TCP cuts, needs less than a frame of buffer and ends; a message after a lost connection or behind garbage comes through | twelve bytes: messages of four or six, and up to two bytes of garbage, which suffice for a false preamble and its length; a length of up to eight bytes in all, so that a header can claim more than one message; chunks of one to three; the connection breaks at any byte, any number of times |
| `receiver_dialogue` (404 000) | the message says what the file says, success means that the receiver has it, the reader finds every message | two lines of a u-center file or two entries of a YAML file, of every sound, loose and damaged shape, with keys of one, two and four bytes; every setting of the driver's file at least once; the answer (whole, or with one byte read wrong), one other message and two bytes of noise in any order: a false preamble has two bytes |
| `subframes` (457 000) | the four decoders and the dispatch, see 4.4 | 20 subframes: two full cycles of the longest format (ten D2 pages); start anywhere in a cycle, one change of the data at any moment, up to four lost subframes. A mix of frames needs one loss and two frames. |
| `obs_chain` (5 300) | names, bands and channels survive the chain | numbers at and beyond every limit of every system, all signals, messages of two blocks (two signals of one satellite, or two satellites) |
| `slip` (10 700) | a loss of lock is flagged, a good signal is not; signals tracked by their code alone, for any number of messages | one slot (slots share nothing), a lock time that saturates at 4, a gap counted to 6 |
| `time_resolution` (176 000) | times around the ends of weeks, dates around the ends of months and years, topics and files beside each other | the seconds around the end of a week of GPS and Galileo and of BeiDou, toe half a week before and after, a reference up to ten hours old; the ends of February and of the year in each of the four years of the cycle. `Span` ends a behaviour 30 hours after its start, which is enough to pass midnight with an old reference; `Horizon` is the end of the era of the week number, and the last start is at the end of 2037 because TLC's integers have 32 bits |

`CHECK_DEADLOCK FALSE` stands where the model really stops: at the bound on
what a satellite sends, after the one message of `obs_chain`, at the end of the
dialogue of `receiver_dialogue`, and in `tcp`, where a caster with LF LF headers can make `close()` hang (4.2).

Runs that find a violation show where the code differs from what it says:

| Run | Shows |
|---|---|
| `stale` | `stopRead()` always leaves a byte in the wake pipe; when the reader ends on `read_running_` without another poll, the byte stays and ends the reader of the next `startRead()`: the driver spins without serial input. With the configuration dialogue enabled every start takes this path. |
| `bds_d1_refresh` | a D1 frame is decoded when the flags equal 0x07, but subframes 4 and 5 set flags too and nothing clears them: after one of them the satellite is never decoded again |
| `gps_cutover` | the consistency check of IODE and IODC comes after `ttr` is set, and `ttr` is what the caller looks at: a mixed GPS ephemeris is published with `toe` 0 |
| `glonass` | the branch for GLONASS hands a null pointer to its decoder, which writes through it: the first string ends the process |

## 4. Properties

### 4.1 Serial port (`SerialDriver`)

`NoUseAfterClose`, `CallbacksQuiescent` and `NeverTerminates` are what makes
the unlocked members safe: the descriptors, the callback list and the thread
object. `SuccessIsAcknowledged` is the promise of the dialogue. Without a
dialogue (`wr["main"]` is still idle) the wake byte always reaches the reader it
is meant for (`WakeReachesReader`) and the reader lives as long as the port
does (`FirstReaderRuns`); with one the run `stale` shows that the latter fails,
as `ReaderRunsWhileSpinning`. Liveness: `InterruptTerminates` (Ctrl-C ends the
process from any state of the three threads) and `FramesDelivered`, which says
what noise costs. Noise without a preamble costs nothing: the frame behind it is
delivered. A stray B5 62 in the noise (`"stray"`) does cost something: the loop
takes it for a header, its length from whatever follows, and reads a message of
that length (the phase `"astray"`; after how many pieces it ends, or that it
never does, is a choice, since the length is noise). `verifyMsg` refuses that message. A
frame whose preamble was taken into it is lost (`Swallows`); one whose preamble
comes after its end is delivered again. That is all the code has to offer, and
the property claims no more.

Fairness: every thread runs when it can (weak fairness for the main thread, the
serial reader, a started write, the correction thread) and what the receiver
has sent arrives. The operating system schedules all threads and no step of
theirs waits for anything but its guard. Nothing is assumed of the receiver,
the cable or the operator; time-outs are choices, so they are neither required
nor excluded.

### 4.2 Correction client (`TcpClient`)

`LinkSpec` is the refinement. `MessagesContiguous` is the purpose of
`write_mutex_`. `Reconnects` and `CloseTerminates` need the threads to run, and
for `Reconnects` that resolving, connecting, sending and being granted succeed
if tried again and again (strong fairness): a caster that never answers makes
no connection.

`CloseTerminates` is claimed for casters that end their header with CRLF CRLF.
With LF LF it fails: the handshake waits for CRLF CRLF first; if `close()`
writes its wake byte then, that wait takes the byte and fails, the second wait
finds LF LF already received and succeeds, and the reader polls the connection
without a time-out while `close()` joins it. The model also has, without claims
about them: a peer that vanishes silently (the wait for data has no time-out),
and a GGA sentence written before the request, since `is_open()` holds from
before `::connect` on.

### 4.3 Correction stream (`CorrectionStream`, `RtcmFraming`)

`ChunkingIrrelevant` compares with `FramesOf`, a scan of the whole stream that
has no buffer; `BufferBounded` and `DrainTerminates` are about garbage. The
check sum and the length field are parameters, so nothing depends on CRC-24Q.
For `DrainTerminates` the loop of the parser is assumed to run (weak fairness
of `Parse`): it is one loop on one thread that waits for nothing.

`RecoveryBounded` is about what the parser does not know, the connection. The
first bytes of a message that a lost connection cut off stay in the buffer, and
their header may claim bytes of the next connection. A message that comes whole
is published all the same: as soon as no header in front of it still waits for
bytes, at the latest when as many bytes as the longest frame has have come from
its beginning on (1029 with the code's constants). One case is out of anyone's
reach, a frame across the break whose check sum matches by accident
(`Crossing`).

### 4.4 Navigation subframes (`SubframeDispatch` and the decoders)

All satellites share one array; `SatellitesKeptApart` says that nobody notices.
For the decoders, in their own terms: a published ephemeris consists of the
subframes on the air (`FromCurrentFrame` for GPS, D1 and D2, `GalSinceWord2`,
`GalNothingRepeated`), of one generation of data where the message offers
something to compare (`OneIssue`, for D1 and Galileo), and complete frames are
published (`CompleteFrameDecoded`, for GPS, D2 and Galileo; for D1 see
`bds_d1_refresh`). Not claimed: one issue for GPS (see `gps_cutover`) and for
D2, whose pages 8 to 10 neither toc (page 1) nor toe (page 7) covers. A frame
never straddles the end of a week, so the counts do not wrap inside one.

### 4.5 Observations (`ObsChain`, `SlipDetection`)

`NameOfSatellite`, `BandOfSlot`, `EverySlotWritten` and `ChannelRecovered` say
that what `bag2rinex` makes of numbers and carriers is what the receiver meant.
One signal is excepted (`WrongCarrier`): the second slot of Galileo, E5b, takes
its carrier from the second entry of `lam_carr`, which is that of GPS L2 (helper
1484), while `obs2rinex` looks for that of E5b, and its column stays blank.
`LossFlagged` and `NoFalseAlarm` are the two sides of the slip flag: it is raised
when the carrier was out of lock at some time since the last block that was
parsed, and only then or when a bit of the status has changed. A loss can
escape when the new lock time has caught up with the stored one; the condition
`age < lock` in `LossFlagged` is exactly this. A signal may be tracked by its
code without its carrier ever locking (`tracked` without `locked`). Its lock
time is 0 in every message, and helper 165 flags every block of it but the
first: not a new loss, but a carrier that is out of lock, which is what
`NoFalseAlarm` allows.

### 4.6 Time (`TimeResolution`, `TimeRecords`)

`TtrIsTransmitted`, `ToeIsTransmitted` and `PvtTimeIsTrue` say that the time
that comes out is the one that was meant, `ReferenceFresh` that `curr_time` is
a sound reference. `MaxGap` is an assumption on how often measurements arrive
(less than half a day apart). For D2 `ToeIsTransmitted` only speaks of a toe
within the week: `decode_BDS_D2_ephem` (helper 843-846) has the two corrections
the other way round than `decode_BDS_D1_ephem` (931-934), so beyond the end of
the week its toe is two weeks off. The era of the week number ends with GPS
week 3071, which `TimeAssumption` states (`GPS_WEEK_ROLLOVER_N` is a constant of
the code).

`PublishedTimes` follows what is published to its far ends: the date of a GGA
sentence is that of UTC, the one `sync_system_time_node` sets the host to is
that of UTC+8, the epoch of an observation file is that of GPS time, all by the
Gregorian calendar, a row of `bag2rtk_solution` and going back from the date
give the same time. The last is what `parse_pvt` checks in code that it skips
(helper 458-472). A time pulse is published in the time base of the receiver,
which may be UTC or that of any of the four systems; `parse_time_pulse` does not
convert, and `utc_based` tells UTC from the others. `PublishedTimes` claims the
time of a pulse for UTC and for the bases of GPS and Galileo, which are GPS
time. In the base of GLONASS or BeiDou the published time is off by what the
base differs from it (10782 s late for GLONASS, 14 s early for BeiDou), and the
message does not say so: `time_sys` compares the receiver's four bits with the
masks of the systems (helper 366-383), so 1, GLONASS, becomes GPS, 0, 2 and 3, GPS,
BeiDou and Galileo, become "none", and the mask of BeiDou, 0x20, can never match. The
model has these bases without a claim about them.

`SourcesAgree` sets the decoders beside `rinex_line2ephem`: an ephemeris over
the topic and the same one read from a navigation file have the same times and
weeks, through two pieces of code with their own notions of the week and the
time of Galileo and BeiDou. Two differences are known and excepted: the toe of
D2, and the ttr of BeiDou, which `rinex_line2ephem` leaves 14 s early (line
159; toc and toe are moved, lines 100 and 144). What a record holds is taken
from RINEX 3.04, the version the reader insists on.

### 4.7 Configuration of the receiver (`ReceiverDialogue`)

A text that stands for a number, a token of a dump or a value of the map, is
the number it begins with and the rest behind it. `stoul` and `stoull` read the
first and never look at the rest: a token `6G` is 6, a value `100ms` is 100 and
`0x64` is 0. They throw when there is no number to begin with, or one of more
than 64 bits. Nothing in the repository says whether that is meant. The model
has such texts, they are not damaged, and what they ask for is the number they
begin with.

`MessageIsFile` says that a message is only made of a file that was understood,
in this sense, to its last line, and says all of it: a line that is no dump of
whole pairs, a token or a value without a number, or a name that is not in the
table, after sound ones, ends startup; it does not leave half a message. It also
compares two notions of the length of a value: the code takes it from three
bits of the key, the receiver from its own table. `Anything` stands where the code has nothing to say: a
port other than UART1, UART2 and USB leaves the key 0, a number too large for
its key loses its high bytes, a negative one wraps around. `SuccessIsApplied`
says that success is never claimed on the strength of noise, of another
message or of an answer read wrong. `ResyncComplete` compares the read loop
with a scan of the whole line. A false preamble is not beaten by it: as in the
code, the bytes it claims as its payload go with it.

The receiver is external: it applies a message it understands as a whole,
answers ACK-ACK or ACK-NAK, and nothing else makes it answer. The code would
take any ACK-ACK for its answer, so an acknowledgement of something else, still
on the line from before, would count; it does not flush the line.
`LineAssumption` leaves that out: no other message contains the four bytes that
begin an acceptance, and the noise does not have the byte that would complete
them. Without it the property is false, of the model as of the code, because
bytes that forge an acceptance are one.

What a line or an entry asks for is part of the input (`asks`, `damaged`), and
assumptions say what it has to be, so that it cannot be chosen to suit the code:
`LinesAssumption` that a line is damaged unless its numbers are bytes, begin with
the header of a dump of that many bytes and can be divided into pairs behind it
(`IsDump`, which states the format by how it is written, not by what the code
refuses), and otherwise is the encoding of the pairs it asks for;
`EntriesAssumption` that an entry asks for the key of its name and the number
its text begins with in the bytes of the type the table gives, `KeyWidthAssumption` that the
receiver's keys carry the size of their values, as the interface description
of the receiver has it. `SettingsAssumption` lists the kinds of files.

The settings of the driver's own file decide whether there is a dialogue. Every
setting is required, also where the code names a default (enable_config_bring,
enable_ntrip_rtcm and the like): for a field that is absent `FindFirstNode` returns a default
`YAML::Node()` (params.cpp:65), a null node for which `IsDefined()` holds, so
that the default is never reached and the conversion throws.

## 5. Proofs

`PROJECT.json` lists 43 theorems with the property each proves. TLAPS checks
them to the last leaf, for every value of the constants that satisfies the
assumptions of the module. Together they state every safety property that a
passing run checks. A theorem is `Spec => ...` of the specification that
a run checks, but for two: `CalendarIsGregorian` is about operators, and
`ResyncCompleteHolds` is about `LineSpec` (see `ReceiverDialogue_proofs`).

Ten recursive functions are proved about (`RtcmUpTo`, `FramesFrom`,
`MessagesFrom`, `DaysTo`, `DaysBeforeYear`, `DaysBefore`, and those inside
`Checksum`, `ParsePairs`, `ReadPairs` and `FlattenSeq` of the library).
The theorem of the library on induction takes an operator as its parameter,
which the provers cannot instantiate; `InductiveSet` stands in for it: a set of
numbers with 0 and with each number the next is `Nat`, from the theorem on
minimal elements. Each proof names the set it needs.

* `SerialDriver_proofs` (`WriteChunksAssumption`, `DriverAssumption`): types,
  `NoUseAfterClose`, `CallbacksQuiescent`, `NeverTerminates` by
  `IInv == ReaderInv /\ HandleInv /\ WriterInv`: a live reader belongs to a
  joinable thread object, and between the program points of the main thread
  listed there neither exists; descriptors are only closed in the last step,
  behind both joins; the correction thread only writes between `SetupRtcm` and
  `RtcmJoin`. None of the properties is inductive alone, because each rests on
  where the main thread is. For the types, `BufInv` bounds what a read holds by
  its phase, `ChunkInv` what a writer has written.
  `SuccessIsAcknowledged` needs the whole way of the answer: before the receiver
  sends "ack" no such piece is on the line, in the queue or in the buffer
  (`LineInv`), the flag follows (`ResultInv`), and no way through
  `configureReceiverAtStartup` decides earlier or without having written.
  `FirstReaderRuns` and `WakeReachesReader` need `FirstInv`: without a dialogue
  the wake pipe is empty until the destructor writes into it, behind the join of
  the correction thread, so that from then on nobody but the reader can drain
  it.
* `TcpClient_proofs` (`ClientAssumption`): types, where `WakeInv` bounds the
  pipe. `MessagesContiguous` by `ContiguousInv`: a thread between lock and
  return owns the lock, and what it has sent of its message is the last on the
  socket, unless the socket is a new one. `LinkImplemented` is the refinement of
  `RtcmLink`: `SockInv` relates socket, flag and what is buffered to the program
  counter of the reader, `StopInv` says that `close()` passes its join only
  behind the reader, `CountInv` that everything in flight was sent. The lemmas
  on `RtcmOf` (it distributes over concatenation, a piece of a header adds
  nothing) carry each step: the two reads of the handshake and its parse only
  move bytes between socket and response, the dispatch delivers the beginning of
  what is in flight, the rest are stutters or steps of the link. `LinkStep`
  lists them all.
* `CorrectionStream_proofs` (`FramingAssumption`, `StreamAssumption`): types,
  `ChunkingIrrelevant`, `BufferBounded`, `RecoveryBounded`, for any bytes,
  length field and check sum. The inductive invariant joins the parser with the
  connection. `ParserInv`: the buffer is the stream from `Position` on, and
  the positions before it were decided as the reference decides them (`Scan`).
  It needs that a decision stays when the stream grows (`FrameStays`,
  `NoPreamblePasses`, `ReservedPasses`, `MismatchPasses`), the reason why chunks do
  not matter. `WaitInv`: a parser that waits holds less than a frame and cannot
  decide yet. `ConnInv`, `ReceivedInv`: what is received are bytes that were
  sent, in ascending order, with gaps where connections broke, and a message
  without a gap lies in the stream as one piece (`NoGap`, `MessageIsFrame`), which is then a
  frame, inside one that was published (`Crossing`), or behind a header that waits.
* `ReceiverDialogue_proofs` has three parts.
  The reader (no assumption): `ResyncComplete` for a line that carries any bytes
  in any portions. `LineSpec` is the reader alone.
  `Fits` leaves out headers whose length `data_buf_` (8192 bytes) has no room
  for, where the code writes past its buffer and nothing more can be said.
  `LineInv`: the buffer and what is still to be read are the end of what was
  heard, and the reference says of all before it what the reader said
  (`Scanned`). `PreambleIndexFirst` is the point of the loop: five positions of
  a header without a preamble are given up, the sixth byte is kept.
  `DialogueReads` carries this over to the dialogue.
  The message (`SettingsAssumption`, `LinesAssumption`, `EntriesAssumption`,
  `KeyWidthAssumption`): `MessageIsFile`, for any settings and files of any
  length whose message fits the buffer. `ConfigInv`: until the message is built the
  records say what was asked for so far, one pair each and in turn, or one of
  them stops the message (`RecordsSay`); once it is built, it is that of pairs
  the file asks for (`WrittenFor`). Parser and receiver are both walks over
  the same bytes, with different ideas of where a pair ends and of when to
  stop: `WalkAlong` says what a walk returns that meets the places at which
  pairs were written, `WalkPassed` that one which ends well has met them all,
  `WidthsAgree` that the two notions of the length of a value are the same, and
  `BuiltUnderstood` that the receiver reads back what `build_config_msg` wrote.
  `BytesOfLine` and `HeaderOfLine` say that a line the code does not refuse is a
  dump by the format's own definition (`IsDump`).
  The answer (`LineAssumption`): `SuccessIsApplied`. `ReceiverInv` joins the
  invariants above with `DialogueInv`: wherever on the line the head of an
  acceptance lies (`AckSound`), the rest of the ten bytes lies behind it, and with
  the checksum of a rejection unless the receiver has applied the message.
  It stays so because no head lies across two of the portions that arrive
  (`Grown`), and because an acceptance has another checksum than a rejection
  whose id was read as that of one (`ChecksumOfAnswer`). The reader's body is a
  piece of the line (`Taken`), so that what passes `check_ack` as an acceptance
  is the receiver's (`AcceptanceSound`).
* `SubframeDispatch_proofs` (`DispatchAssumption`, `CycleAssumption`): types and
  the six properties of the run `subframes`, for any set of satellites and any
  number of subframes, losses and changes of the data. `IInv` is the invariant
  of the watched satellite's decoder and `NamesInv`. `GpsInv`: the subframes of
  the current frame, as far as they came without a hole, lie in their slots.
  `D1Inv`: what was received later is of no earlier generation, and what is
  published is of one. `D2Inv`: as for GPS, over ten pages. `GalInv`: no word with a flag is older than word 2, and what
  was published is older than all of them; `GalCycle`: within a cycle received
  without a hole every type so far has its flag, or an ephemeris has been
  published in it. A step of the decoder that is not chosen does not exist
  (`OwnDecoder`, `DecoderAlone`), a number has one satellite (`OneOfNumber`,
  from `SatNumbers`). `DecoderStep` collects the action properties.
  `CycleAssumption` (a cycle of Galileo begins with its only word 2 and has
  every type) is needed for the Galileo part of `CompleteFrameDecoded`
  alone; without it a collection that begins with a word 2 in the middle is not
  complete at the end of the cycle.
* `ObsChain_proofs` (`ChainAssumption`): types and all properties. `IInv` says
  of every stored signal that it lies in the slot and carries the carrier of the
  satellite named by its number. `SatNumbers` states that `satsys` undoes
  `sat_no`, `CarrierBand` that the ranges of the bands tell the slots apart, also
  for every channel of GLONASS; the channel comes back from either band. The
  exception for E5b in `EverySlotWritten` is the one of 4.5.
* `SlipDetection_proofs` (`SlipAssumption`): `LockTimeBounds` is the inductive
  invariant (while the lock holds the stored lock time is a lower bound of the
  present one, after a loss the present one is bounded by the age of the
  block, without a lock it is 0); `LossFlagged` and `NoFalseAlarm` follow from it step by step.
* `TimeRecords_proofs` (`TimeAssumption`) has three parts.
  `CalendarIsGregorian`: for every second from 1970 to 2099 `time2epoch` gives
  the Gregorian date and `epoch2time` leads back; the two tables of months and
  the sums over years get closed forms, and the day of the four years is the
  same in both.
  `TimeResolution`: types and its four properties by
  `IInv == ClockOK /\ EphemOK /\ PvtOK`. `Split` and `Handover` are the
  arithmetic: a time is its week and its time of the week, and the week that
  brings a time of the week next to another is the right one when they are less
  than half a week apart.
  `TimeRecords`: `RecordsImplementTimes`, every step with its message is a step
  of `TimeResolution` or a stutter, which carries the theorems above over to the
  specification the run checks. With `TopicOK` (the message is about what was
  decoded or solved) they give `PublishedTimes`, from the calendar, and
  `SourcesAgree`, from `NavTimes` (what the reader makes of a record).

Only model-checked:

* Liveness (`InterruptTerminates`, `FramesDelivered`, `Reconnects`,
  `CloseTerminates`, `DrainTerminates`): fairness and ENABLED are out of reach of
  the prover.
* The four properties that runs find violated.

Types are proved for every module with a theorem but `ReceiverDialogue`, where
`LineInv` has those of the reader and `ConfigInv` those of the records. Runs list those of `SerialDriver` and `ObsChain`; the
others would show nothing that the proofs do not.

## 6. Not modelled, and why

* Orbits, ionosphere, troposphere, frames of reference, positioning
  (`gnss_spp.cpp`): floating point, and no program of the repository calls the
  positioning.
* The fields of an ephemeris and of a solution other than its times: data that
  no control depends on. One thing in them is known to be wrong: `merge_two_s`
  (helper 1702) takes the low part as `uint8_t`, so that fields of D2 lose
  their high bits.
* GLONASS: no string gets into its decoder (run `glonass`), so the records of
  GLONASS in navigation files have nothing to be compared with.
* The ionosphere: `parse_ion_utc` is empty and nothing is ever published.
* CNAV messages are skipped by the GPS decoder and count as not received. Of
  Galileo one I/NAV stream is modelled; a receiver that reports the words of
  E1-B and E5b at once feeds one buffer from both.
* What happens when the length in a header (up to 65535) exceeds `data_buf_`
  (8192 bytes), which `Fits` of `UbxFraming` leaves out, and when the message
  for the receiver exceeds `config_buffer` (8192 bytes), which
  `build_config_msg` of `ReceiverConfig` leaves out: the code checks neither and
  writes past the end.
* `rinex2obs`: nothing calls it, and its first field already writes past the end
  of an empty vector (`rinex_line2obs`, rinex_helper.cpp:259-266).
* `StateMachineRegistry`: no target builds it and nothing refers to it, so that
  there is no behaviour of the system to state properties of.
* That `latest_pvt_` never expires: the GGA timer goes on with the last position
  when solutions stop, which no text of the repository calls wrong.
* Texts (the GGA sentence, the request of the caster, the characters of numbers
  and keywords in the files), logging, terminal settings.
* Numbers of descriptors: a descriptor is open or closed, so that its number
  may be reused is not represented.

## 7. Plan

Done, in this order: serial port, correction client, correction stream with its
connection, subframes, observations, time, the configuration dialogue, topics
and files. Next, by weight:

1. The refinement of the reader of `SerialHandler` by that of `UbxFraming`:
   pieces against bytes.
2. The bit helpers (`getbitu`, `getbits`, `merge_two_*`) as operators against a
   reference.
