-------------------------------- MODULE Calendar --------------------------------
(***************************************************************************)
(* The calendar of src/gnss_comm/src/gnss_utility.cpp: a gtime_t, here its *)
(* seconds since 1970, as a date and a time of the day and back, and the   *)
(* leap seconds between GPS time and UTC.                                  *)
(***************************************************************************)
EXTENDS Integers, Sequences

SecPerDay == 86400

(* the date ep[0..2] and the time of the day ep[3..5] *)
Date(y, m, d, s) ==
  [year |-> y, month |-> m, day |-> d,
   hour |-> s \div 3600, min |-> (s % 3600) \div 60, sec |-> s % 60]

-----------------------------------------------------------------------------
doy == <<1, 32, 60, 91, 121, 152, 182, 213, 244, 274, 305, 335>>

(* a date before 1970 or after 2099, or without month, becomes the origin  *)
epoch2time(ep) ==
  LET days == (ep.year - 1970) * 365 + (ep.year - 1969) \div 4 + doy[ep.month] + ep.day - 2
              + (IF ep.year % 4 = 0 /\ ep.month >= 3 THEN 1 ELSE 0)
  IN  IF ep.year \in 1970 .. 2099 /\ ep.month \in 1 .. 12
      THEN days * SecPerDay + ep.hour * 3600 + ep.min * 60 + ep.sec
      ELSE 0

(* Variant for mutation: the leap year is the last of the four *)
mdayLeapLast ==
  LET year == <<31, 28, 31, 30, 31, 30, 31, 31, 30, 31, 30, 31>>
  IN  year \o year \o year \o [year EXCEPT ![2] = 29]

(* the days of the months of four years from 1970 on *)
mday ==
  LET year == <<31, 28, 31, 30, 31, 30, 31, 31, 30, 31, 30, 31>>
  IN  year \o year \o [year EXCEPT ![2] = 29] \o year

(* DaysTo[mon]: what the loop has taken from the day when it is at mon *)
DaysTo[mon \in 0 .. 48] == IF mon = 0 THEN 0 ELSE DaysTo[mon - 1] + mday[mon]

time2epoch(t) ==
  LET days == t \div SecPerDay
      mon  == CHOOSE m \in 0 .. 47 :
                DaysTo[m] <= days % 1461 /\ days % 1461 < DaysTo[m + 1]
  IN  Date(1970 + (days \div 1461) * 4 + mon \div 12, (mon % 12) + 1,
           (days % 1461) - DaysTo[mon] + 1, t - days * SecPerDay)

-----------------------------------------------------------------------------
(* the days from which UTC is so many seconds behind, the last one first;  *)
(* of the eighteen the three that the era of the week number is nearest to *)
leaps == << <<Date(2017, 1, 1, 0), 18>>, <<Date(2015, 7, 1, 0), 17>>, <<Date(2012, 7, 1, 0), 16>> >>

gpst2utc(t) ==
  LET hits == {i \in DOMAIN leaps : t - leaps[i][2] >= epoch2time(leaps[i][1])}
  IN  IF hits = {} THEN t ELSE t - leaps[CHOOSE i \in hits : \A j \in hits : i <= j][2]

utc2gpst(t) ==
  LET hits == {i \in DOMAIN leaps : t >= epoch2time(leaps[i][1])}
  IN  IF hits = {} THEN t ELSE t + leaps[CHOOSE i \in hits : \A j \in hits : i <= j][2]

-----------------------------------------------------------------------------
(* The Gregorian calendar, as the reference *)

IsLeapYear(y) == (y % 4 = 0 /\ y % 100 # 0) \/ y % 400 = 0

MonthLength(y, m) ==
  CASE m = 2 -> IF IsLeapYear(y) THEN 29 ELSE 28
    [] m \in {4, 6, 9, 11} -> 30
    [] OTHER -> 31

(* days from the first day of 1970 to the first of month m of year y *)
DaysBeforeYear[y \in 1970 .. 2100] ==
  IF y = 1970 THEN 0 ELSE DaysBeforeYear[y - 1] + (IF IsLeapYear(y - 1) THEN 366 ELSE 365)

DaysBefore(y, m) ==
  LET InYear[k \in 1 .. 12] == IF k = 1 THEN 0 ELSE InYear[k - 1] + MonthLength(y, k - 1)
  IN  DaysBeforeYear[y] + InYear[m]

(* ep is the date and the time of t *)
IsDateOf(ep, t) ==
  /\ ep.month \in 1 .. 12 /\ ep.day \in 1 .. MonthLength(ep.year, ep.month)
  /\ ep.hour \in 0 .. 23 /\ ep.min \in 0 .. 59 /\ ep.sec \in 0 .. 59
  /\ t = (DaysBefore(ep.year, ep.month) + ep.day - 1) * SecPerDay
         + ep.hour * 3600 + ep.min * 60 + ep.sec
=============================================================================
