------------------------------- MODULE TimeRecords -------------------------------
(***************************************************************************)
(* What becomes of the times of TimeResolution behind the driver: as week  *)
(* and time of the week of a message (src/gnss_comm/src/gnss_ros.cpp), as  *)
(* an epoch of an observation file or a row of a trajectory                *)
(* (gnss_cvt_toolkit), as a date.  Beside them stands the other way to an  *)
(* ephemeris, a navigation file (src/gnss_comm/src/rinex_helper.cpp).      *)
(*                                                                         *)
(* A step of TimeResolution publishes what it decodes, as the handlers of  *)
(* process_data do; of a message its times are kept.                       *)
(***************************************************************************)
EXTENDS TimeResolution, FiniteSets

VARIABLE topic   \* the message the last step published, or Nothing

recordVars == <<vars, topic>>

Nothing == [kind |-> "nothing"]

RecordInit == Init /\ topic = Nothing

-----------------------------------------------------------------------------
(* time2gpst into the fields week and tow of a message                     *)
Stamp(t) == [week |-> WeekOf(t), tow |-> TowOf(t)]

(* gpst2time of such fields *)
TimeOf(stamp) == gpst2time(stamp.week, stamp.tow)

(* What ephem2msg makes of an ephemeris; week and toe_tow of the ephemeris *)
(* are those of its toe.                                                   *)
ephem2msg(e) ==
  [kind |-> "ephem", ttr |-> Stamp(e.ttr), toe |-> Stamp(e.toe), toc |-> Stamp(e.toe),
   week |-> WeekOf(e.toe), toe_tow |-> TowOf(e.toe)]

msg2ephem(m) ==
  [ttr |-> TimeOf(m.ttr), toe |-> TimeOf(m.toe), toc |-> TimeOf(m.toc),
   week |-> m.week, toe_tow |-> m.toe_tow]

(* A time pulse is announced one second ahead *)
Pulse == now + 1

(* The time base of the receiver, UTC or that of a system, and how far it  *)
(* is behind GPS time; GLONASS counts in UTC and three hours.              *)
TimeBases == {"UTC", "GPS", "GLO", "BDS", "GAL"}

Behind(base) ==
  CASE base = "UTC" -> 18 [] base = "GLO" -> 18 - 3 * 3600 [] base = "BDS" -> 14 [] OTHER -> 0

(* the numbers the receiver has for the systems; for UTC one of them or 15 *)
References(base) ==
  CASE base = "GPS" -> {0} [] base = "GLO" -> {1} [] base = "BDS" -> {2} [] base = "GAL" -> {3}
    [] OTHER -> {0, 1, 2, 3, 15}

(* The message about it counts in that base.                               *)
TimTp(base, refInfo) ==
  [stamp |-> Stamp(Pulse - Behind(base)), utc |-> base = "UTC", refInfo |-> refInfo]

(* The reference as four bits is compared with the masks of the systems    *)
(* that fit in them, BeiDou's (0x20) does not; the receiver has other      *)
(* numbers for them, and its 1, GLONASS, is taken for GPS.                 *)
RefSystem(refInfo) ==
  CASE refInfo = 1 -> "GPS" [] refInfo = 4 -> "GLO" [] refInfo = 8 -> "GAL" [] OTHER -> "NONE"

parse_time_pulse(m) ==
  [time |-> TimeOf(m.stamp), utc_based |-> m.utc, time_sys |-> RefSystem(m.refInfo)]

(* "base" is history: the time base, for which the message has no field    *)
tp_info2msg(p, base) ==
  [kind |-> "pulse", time |-> Stamp(p.time), utc_based |-> p.utc_based, time_sys |-> p.time_sys,
   base |-> base]

(* every observation of a message has the time of the message *)
meas2msg(time) == [kind |-> "meas", time |-> Stamp(time)]

pvt2msg(p) == [kind |-> "pvt", time |-> Stamp(p.time)]

(* msg2meas, msg2pvt and msg2tp_info take the time back *)
msg2time(m) == TimeOf(m.time)

(* what a step publishes; a time of zero is that of no message             *)
Publishes(t, m) == topic' = IF Posix(t) = 0 THEN Nothing ELSE m

PublishEphemeris ==
  /\ DecodeGps \/ DecodeGal \/ DecodeD1 \/ DecodeD2
  /\ Publishes(ephem'.ttr, ephem2msg(ephem'))

PublishObservations ==
  /\ ParseMeas
  /\ topic' = meas2msg(curr_time')

PublishPvt ==
  /\ ParsePvt
  /\ Publishes(pvt'.time, pvt2msg(pvt'))

(* a time pulse neither sets nor needs curr_time *)
PublishTimePulse ==
  /\ \E base \in TimeBases : \E refInfo \in References(base) :
       LET tp_info == parse_time_pulse(TimTp(base, refInfo))
       IN  Publishes(tp_info.time, tp_info2msg(tp_info, base))
  /\ UNCHANGED vars

TimePasses == Tick /\ topic' = Nothing

RecordNext ==
  TimePasses \/ PublishEphemeris \/ PublishObservations \/ PublishPvt \/ PublishTimePulse

RecordSpec == RecordInit /\ [][RecordNext]_recordVars

-----------------------------------------------------------------------------
(* A navigation file, by RINEX 3.04: an epoch (toc), the week of the toe,  *)
(* toe and ttr in seconds of that week, all in the time of the system, but *)
(* with the weeks of GPS for Galileo.                                      *)
IsBeiDou(sys) == sys \in {"D1", "D2"}

NavRecord(sys, inav, ttr, toe) ==
  LET behind == IF IsBeiDou(sys) THEN 14 ELSE 0
      week   == WeekOf(toe - behind)
  IN  [sys |-> sys, inav |-> inav, epoch |-> time2epoch(Posix(toe - behind)),
       week |-> IF IsBeiDou(sys) THEN week - 1356 ELSE week,
       toe |-> TowOf(toe - behind), ttr |-> ttr - behind - SecPerWeek * week]

(* Variant for mutation: the toe of BeiDou is not moved to GPS time        *)
RinexToeUnmoved(rec) ==
  IF IsBeiDou(rec.sys) THEN bdt2time(rec.week, rec.toe) ELSE gpst2time(rec.week, rec.toe)

RinexToe(rec) ==
  IF IsBeiDou(rec.sys) THEN bdt2time(rec.week, rec.toe + 14) ELSE gpst2time(rec.week, rec.toe)

(* the ttr of BeiDou stays in its own time *)
RinexTtr(rec) ==
  IF IsBeiDou(rec.sys) THEN bdt2time(rec.week, rec.ttr) ELSE gpst2time(rec.week, rec.ttr)

RinexToc(rec) ==
  epoch2time(rec.epoch) - epoch2time(gpst0) + (IF IsBeiDou(rec.sys) THEN 14 ELSE 0)

(* week and toe_tow are those of GPS; of Galileo only the I/NAV of E1-B is *)
(* read to its end                                                         *)
rinex_line2ephem(rec) ==
  IF rec.sys = "GAL" /\ ~rec.inav
  THEN [ttr |-> Unset, toe |-> Unset, toc |-> RinexToc(rec), week |-> 0, toe_tow |-> rec.toe]
  ELSE [ttr |-> RinexTtr(rec), toe |-> RinexToe(rec), toc |-> RinexToc(rec),
        week    |-> IF IsBeiDou(rec.sys) THEN WeekOf(RinexToe(rec)) ELSE rec.week,
        toe_tow |-> IF IsBeiDou(rec.sys) THEN TowOf(RinexToe(rec)) ELSE rec.toe]

(* the ephemerides rinex2ephems takes from a file of the records *)
rinex2ephems(recs) ==
  {e \in {rinex_line2ephem(rec) : rec \in recs} : Posix(e.ttr) # 0}

(* the epoch line obs2rinex writes for a message with observations *)
EpochLine(m) == time2epoch(Posix(msg2time(m)))

(* gnss_ts_ns of bag2rtk_solution, in seconds *)
gnss_ts(m) == Posix(msg2time(m))

-----------------------------------------------------------------------------
(* Whoever takes an ephemeris from the topic of the driver and whoever     *)
(* takes it from a navigation file computes with the same times, and of a  *)
(* Galileo satellite nothing but its I/NAV record counts.  Two differences *)
(* are known: from the file the ttr of BeiDou is 14 seconds early, and the *)
(* driver has the toe of D2 wrong beyond the end of a week.                *)
SourcesAgree ==
  topic.kind = "ephem" =>
    LET sys  == ephem.sys
        same == msg2ephem(topic)
        toeKnownWrong == sys = "D2" /\ WeekOf(ephem.sent - 14) # WeekOf(ephem.at - 14)
        recs == {NavRecord(sys, inav, ephem.sent, ephem.at) : inav \in {TRUE, sys # "GAL"}}
    IN  /\ Cardinality(rinex2ephems(recs)) = 1
        /\ \A e \in rinex2ephems(recs) :
             /\ e.ttr = IF IsBeiDou(sys) THEN same.ttr - 14 ELSE same.ttr
             /\ toeKnownWrong \/ [e EXCEPT !.ttr = same.ttr] = same
             /\ gpst2time(e.week, e.toe_tow) = e.toe /\ e.toc = e.toe

(* What comes out at the far ends of the topics is the time it was.  A     *)
(* solution has the Gregorian date in UTC in the GGA sentence and in the   *)
(* time of the host at its clock, and leads back to its time (the check    *)
(* parse_pvt skips, lines 458-472), also in a trajectory.  An observation  *)
(* file counts in GPS time.  A time pulse is published in the base of the  *)
(* receiver, unconverted: utc_based tells UTC, the bases of GPS and        *)
(* Galileo are GPS time, and of a pulse in the time of GLONASS or BeiDou   *)
(* nothing in the message tells its time; of those nothing is claimed.     *)
PublishedTimes ==
  CASE topic.kind = "pvt" ->
         LET utc == Posix(pvt.sent) - 18
         IN  /\ gnss_ts(topic) = Posix(pvt.sent)
             /\ IsDateOf(GgaTime(pvt.time), utc)
             /\ utc2gpst(epoch2time(GgaTime(pvt.time))) = gnss_ts(topic)
             /\ IsDateOf(SystemTime(pvt.time), utc + UTC_OFFSET * 3600)
    [] topic.kind = "meas" -> IsDateOf(EpochLine(topic), Posix(now))
    [] topic.kind = "pulse" ->
         topic.base \in {"UTC", "GPS", "GAL"} =>
           Posix(Pulse) = IF topic.utc_based THEN utc2gpst(Posix(msg2time(topic)))
                          ELSE Posix(msg2time(topic))
    [] OTHER -> TRUE
=============================================================================
