----------------------------- MODULE TimeResolution -----------------------------
(***************************************************************************)
(* How the driver gets from the fraction of time a message carries to a    *)
(* time: a week number cut to its field, a time of the week without the    *)
(* week it belongs to.  The decoders of the ephemerides of GPS, Galileo    *)
(* and BeiDou and parse_pvt                                                *)
(* (src/gnss_message_parser/ublox_message_processor_helper.cpp) resolve    *)
(* them with each other and with curr_time, which the same functions set.  *)
(* No GLONASS message gets as far as its decoder (see SubframeDispatch).   *)
(* What goes out again is a date: of a solution in UTC to the caster, and  *)
(* in the time of the host to its clock (apps/sync_system_time_node.cpp).  *)
(*                                                                         *)
(* Times are seconds of GPS time since its first week, as the time         *)
(* functions of src/gnss_comm/src/gnss_utility.cpp count them.  Of an      *)
(* ephemeris its ttr and its toe are kept; toc is treated as toe is.       *)
(***************************************************************************)
EXTENDS Calendar

CONSTANTS
  Starts,       \* GPS times at which the driver may be started
  Steps,        \* what may pass between two messages
  Lags,         \* age of an ephemeris at the time it is decoded
  Offsets,      \* toe of an ephemeris minus its ttr
  MaxGap,       \* age that curr_time reaches at most, once it is set
  Span,         \* bound: how long the driver is looked at from its start
  Horizon       \* bound: the last GPS time looked at

SecPerWeek == 604800
HalfWeek   == 302400
HalfDay    == 43200

(* Variant for mutation: the number of rollovers of the first era *)
RolloverOnce == 1

GPS_WEEK_ROLLOVER_N == 2

ASSUME TimeAssumption ==
  /\ MaxGap \in Nat /\ Span \in Nat /\ Horizon \in Nat /\ Horizon < 3072 * SecPerWeek
  /\ Starts \subseteq 2048 * SecPerWeek + MaxGap .. Horizon
  /\ Steps \subseteq Nat /\ Lags \subseteq 0 .. MaxGap
  /\ \A off \in Offsets : off \in Int /\ -HalfWeek < off /\ off < HalfWeek
  /\ MaxGap < HalfDay

VARIABLES
  now,        \* the GPS time it is
  curr_time,  \* the GPS time the driver last learnt, or Unset
  ephem,      \* the ephemeris the last step decoded, or None
  pvt         \* the solution the last step parsed, or NoPvt

vars == <<now, curr_time, ephem, pvt>>

Systems == {"GPS", "GAL", "D1", "D2"}

(* curr_time{} is the origin of POSIX time *)
Unset == -315964800

(* sent and at are history: the true ttr and the true toe *)
Ephems == [sys : Systems, ttr : Int, toe : Int, sent : Nat, at : Nat]
None   == [sys |-> "GPS", ttr |-> 0, toe |-> 0, sent |-> 0, at |-> 0]
NoPvt  == [time |-> 0, sent |-> 0]

TypeOK ==
  /\ now \in 0 .. Horizon
  /\ curr_time = Unset \/ curr_time \in 0 .. Horizon
  /\ ephem \in Ephems
  /\ pvt \in [time : Int, sent : Nat]

Init ==
  /\ now \in Starts
  /\ curr_time = Unset
  /\ ephem = None
  /\ pvt = NoPvt

-----------------------------------------------------------------------------
gpst2time(week, tow) == SecPerWeek * week + tow
gst2time(week, tow)  == SecPerWeek * (week + 1024) + tow
bdt2time(week, tow)  == SecPerWeek * (week + 1356) + tow

WeekOf(t) == t \div SecPerWeek
TowOf(t)  == t % SecPerWeek

(* Variant for mutation: the week of the toe is that of the ttr *)
WeekOfToeSame(week, tow, toe) == week

(* week handover: the week that brings a toe of the week next to the tow   *)
WeekOfToe(week, tow, toe) ==
  CASE toe > tow + HalfWeek -> week - 1
    [] toe < tow - HalfWeek -> week + 1
    [] OTHER -> week

(* the same in decode_BDS_D2_ephem, with the signs the other way round *)
WeekOfToeD2(week, tow, toe) ==
  CASE toe > tow + HalfWeek -> week + 1
    [] toe < tow - HalfWeek -> week - 1
    [] OTHER -> week

(* What is decoded from a message that carries the week and the tow of t   *)
(* and the tow of toe.  The week is sent modulo 1024.                      *)
GpsTimes(t, toe) ==
  LET week == (WeekOf(t) % 1024) + 1024 * GPS_WEEK_ROLLOVER_N
  IN  [ttr |-> gpst2time(week, TowOf(t)),
       toe |-> gpst2time(WeekOfToe(week, TowOf(t), TowOf(toe)), TowOf(toe))]

GalTimes(t, toe) ==
  LET week == WeekOf(t) - 1024
  IN  [ttr |-> gst2time(week, TowOf(t)),
       toe |-> gst2time(WeekOfToe(week, TowOf(t), TowOf(toe)), TowOf(toe))]

(* Variant for mutation: BeiDou time is taken for GPS time *)
D1TimesNoLeap(t, toe) ==
  LET week == WeekOf(t - 14) - 1356
  IN  [ttr |-> bdt2time(week, TowOf(t - 14)),
       toe |-> bdt2time(WeekOfToe(week, TowOf(t - 14), TowOf(toe - 14)), TowOf(toe - 14))]

(* BeiDou time is 14 s behind *)
D1Times(t, toe) ==
  LET week == WeekOf(t - 14) - 1356
  IN  [ttr |-> bdt2time(week, TowOf(t - 14)) + 14,
       toe |-> bdt2time(WeekOfToe(week, TowOf(t - 14), TowOf(toe - 14)), TowOf(toe - 14)) + 14]

D2Times(t, toe) ==
  LET week == WeekOf(t - 14) - 1356
  IN  [ttr |-> bdt2time(week, TowOf(t - 14)) + 14,
       toe |-> bdt2time(WeekOfToeD2(week, TowOf(t - 14), TowOf(toe - 14)), TowOf(toe - 14)) + 14]

-----------------------------------------------------------------------------
(* what the call returns *)
Yields(e, p) == ephem' = e /\ pvt' = p

(* Time passes.  Once there was a measurement there are always some before *)
(* MaxGap has passed.                                                      *)
Tick ==
  /\ \E d \in Steps :
       /\ now + d <= Horizon
       /\ \E s \in Starts : s <= now /\ now + d <= s + Span
       /\ curr_time # Unset => now + d - curr_time <= MaxGap
       /\ now' = now + d
  /\ Yields(None, NoPvt)
  /\ UNCHANGED curr_time

(* parse_meas_msg: the week and the tow of a message with observations *)
ParseMeas ==
  /\ curr_time' = gpst2time(WeekOf(now), TowOf(now))
  /\ Yields(None, NoPvt)
  /\ UNCHANGED now

Ephem(k, times, t, toe) ==
  [sys |-> k, ttr |-> times.ttr, toe |-> times.toe, sent |-> t, at |-> toe]

DecodeGps ==
  \E lag \in Lags, off \in Offsets :
    LET times == GpsTimes(now - lag, now - lag + off)
    IN  /\ Yields(Ephem("GPS", times, now - lag, now - lag + off), NoPvt)
        /\ curr_time' = times.ttr
        /\ UNCHANGED now

DecodeGal ==
  \E lag \in Lags, off \in Offsets :
    LET times == GalTimes(now - lag, now - lag + off)
    IN  /\ Yields(Ephem("GAL", times, now - lag, now - lag + off), NoPvt)
        /\ curr_time' = times.ttr
        /\ UNCHANGED now

DecodeD1 ==
  \E lag \in Lags, off \in Offsets :
    LET times == D1Times(now - lag, now - lag + off)
    IN  /\ Yields(Ephem("D1", times, now - lag, now - lag + off), NoPvt)
        /\ curr_time' = times.ttr
        /\ UNCHANGED now

DecodeD2 ==
  \E lag \in Lags, off \in Offsets :
    LET times == D2Times(now - lag, now - lag + off)
    IN  /\ Yields(Ephem("D2", times, now - lag, now - lag + off), NoPvt)
        /\ curr_time' = times.ttr
        /\ UNCHANGED now

(* Variant for mutation: the week is that of curr_time *)
PvtTimeSameWeek(itow) == gpst2time(WeekOf(curr_time), itow)

(* the week that brings itow next to curr_time *)
PvtTime(itow) == gpst2time(WeekOfToe(WeekOf(curr_time), TowOf(curr_time), itow), itow)

(* parse_pvt: "Raw Measurement Have Not Get Reference Time" *)
ParsePvt ==
  /\ curr_time # Unset
  /\ Yields(None, [time |-> PvtTime(TowOf(now)), sent |-> now])
  /\ UNCHANGED <<now, curr_time>>

-----------------------------------------------------------------------------
gpst0 == Date(1980, 1, 6, 0)

(* the seconds of the gtime_t of a GPS time *)
Posix(t) == epoch2time(gpst0) + t

(* buildNmeaGgaSentence: the time of the sentence about a solution *)
GgaTime(t) == time2epoch(gpst2utc(Posix(t)))

(* Hours to the east of UTC for which the clock of the host is set *)
UTC_OFFSET == 8

(* set_datetime: the date to which the clock of the host is set, from the  *)
(* stamp that publishPvt gives to the position                             *)
SystemTime(t) == time2epoch(gpst2utc(Posix(t) + UTC_OFFSET * 3600))

Next ==
  Tick \/ ParseMeas \/ DecodeGps \/ DecodeGal \/ DecodeD1 \/ DecodeD2 \/ ParsePvt

Spec == Init /\ [][Next]_vars

-----------------------------------------------------------------------------
(* The reference that resolves what comes next is never ahead of the time  *)
(* and never older than MaxGap, whichever decoder set it last.             *)
ReferenceFresh == curr_time # Unset => curr_time \in now - MaxGap .. now

(* An ephemeris keeps the time of its transmission through the end of a    *)
(* week, of its own system or of GPS.                                      *)
TtrIsTransmitted == ephem.ttr = ephem.sent

(* So does its toe, up to half a week away from it in either direction;    *)
(* that of a D2 message within the week of BeiDou.                         *)
ToeIsTransmitted ==
  \/ ephem.toe = ephem.at
  \/ ephem.sys = "D2" /\ WeekOf(ephem.sent - 14) # WeekOf(ephem.at - 14)

(* A solution carries the time at which it was computed, not a week more   *)
(* or less, however stale the reference.                                   *)
PvtTimeIsTrue == pvt.time = pvt.sent
=============================================================================
