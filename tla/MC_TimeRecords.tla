----------------------------- MODULE MC_TimeRecords -----------------------------
(* TimeRecords on a day around the end of GPS week 2299 and on the days on *)
(* which the calendar is not regular, with a reference that gets more than *)
(* nine hours old.                                                         *)
EXTENDS TimeRecords

(* the GPS time at which a day of UTC begins *)
Midnight(y, m, d) == epoch2time(Date(y, m, d, 0)) + 18 - 315964800

(* seconds around the end of a week of GPS and Galileo (0) and of BeiDou   *)
(* (14), the following day; the ends of February and of the year in the    *)
(* four years of the cycle                                                 *)
MCStarts     ==
  {2300 * SecPerWeek + d : d \in {-17, 75611, 86391}} \cup
  {Midnight(y, 2, 28) - 9 : y \in {2020, 2022, 2023, 2028}} \cup
  {Midnight(y, 2, 29) - 10809 : y \in {2020, 2024}} \cup
  {Midnight(y, 12, 31) - 1 : y \in 2019 .. 2023} \cup
  {Midnight(2037, 12, 31) - 1}
MCSteps      == {10800, 28817}
MCLags       == {0, 30}
MCOffsets    == {1 - HalfWeek, -7200, 0, 7200, HalfWeek - 1}
MCHorizon    == 3072 * SecPerWeek - 1
=============================================================================
