--------------------------- MODULE TimeRecords_proofs ---------------------------
(***************************************************************************)
(* The times of the driver, in three parts:                                *)
(*                                                                         *)
(* Calendar for every second of the years it accepts: from 1970 to 2099    *)
(* time2epoch gives the date and the time of the Gregorian calendar, and   *)
(* epoch2time leads back from it; from 2017 on UTC is 18 seconds behind.   *)
(* The tables are brought into closed form, by induction over the months   *)
(* of four years (DaysTo), over the years (DaysBeforeYear) and over the    *)
(* months of a year (DaysBefore); then the day r of the q-th four years is *)
(* the same in both calendars.                                             *)
(*                                                                         *)
(* TimeResolution for every start within the era of the source's week      *)
(* number, every step, every age of the reference below half a day and     *)
(* every toe within half a week.                                           *)
(*                                                                         *)
(* TimeRecords: publishing adds nothing to what TimeResolution may do, so  *)
(* its theorems hold with the topics too; what is published has the times  *)
(* that were sent, and a navigation file has those of the topic.           *)
(***************************************************************************)
EXTENDS TimeRecords, FiniteSetTheorems, SequenceTheorems, WellFoundedInduction, TLAPS

-----------------------------------------------------------------------------
(* Calendar *)

(* Induction without an operator as a parameter. *)
LEMMA InductiveSet ==
  ASSUME NEW T \in SUBSET Nat, 0 \in T, \A n \in T : n + 1 \in T
  PROVE  T = Nat
<1> SUFFICES ASSUME Nat \ T # {} PROVE FALSE
  OBVIOUS
<1>1. IsWellFoundedOn(OpToRel(<, Nat), Nat)
  BY NatLessThanWellFounded
<1>2. \E n \in Nat \ T : \A m \in Nat \ T : <<m, n>> \notin OpToRel(<, Nat)
  BY <1>1, WFMin
<1>3. \E n \in Nat \ T : \A m \in Nat \ T : ~(m < n)
  BY <1>2 DEF OpToRel
<1>4. PICK n \in Nat \ T : \A m \in Nat \ T : ~(m < n)
  BY <1>3
<1>5. n # 0 /\ n - 1 \in Nat /\ n - 1 < n
  BY <1>4
<1>6. n - 1 \in T
  BY <1>4, <1>5
<1>7. (n - 1) + 1 \in T
  BY <1>6
<1> QED
  BY <1>4, <1>5, <1>7

Common == <<31, 28, 31, 30, 31, 30, 31, 31, 30, 31, 30, 31>>

LEMMA CommonValues ==
  /\ Common[1] = 31 /\ Common[2] = 28 /\ Common[3] = 31 /\ Common[4] = 30
  /\ Common[5] = 31 /\ Common[6] = 30 /\ Common[7] = 31 /\ Common[8] = 31
  /\ Common[9] = 30 /\ Common[10] = 31 /\ Common[11] = 30 /\ Common[12] = 31
BY DEF Common

LEMMA DoyValues ==
  /\ doy[1] = 1 /\ doy[2] = 32 /\ doy[3] = 60 /\ doy[4] = 91
  /\ doy[5] = 121 /\ doy[6] = 152 /\ doy[7] = 182 /\ doy[8] = 213
  /\ doy[9] = 244 /\ doy[10] = 274 /\ doy[11] = 305 /\ doy[12] = 335
BY DEF doy

(* the month as its number in the four years *)
LEMMA MonthsOfFour ==
  ASSUME NEW m \in 0 .. 47
  PROVE  \E j \in 0 .. 3, k \in 0 .. 11 : m = 12 * j + k /\ m \div 12 = j /\ m % 12 = k
<1>1. m \div 12 \in 0 .. 3 /\ m % 12 \in 0 .. 11 /\ m = 12 * (m \div 12) + (m % 12)
  OBVIOUS
<1> QED
  BY <1>1

LEMMA Joined ==
  ASSUME NEW u \in Seq(Nat), NEW v \in Seq(Nat)
  PROVE  /\ u \o v \in Seq(Nat) /\ Len(u \o v) = Len(u) + Len(v)
         /\ \A i \in 1 .. Len(u) : (u \o v)[i] = u[i]
         /\ \A i \in 1 .. Len(v) : (u \o v)[Len(u) + i] = v[i]
<1>1. Len(u) \in Nat /\ Len(v) \in Nat
  BY LenProperties
<1>2. /\ u \o v \in Seq(Nat) /\ Len(u \o v) = Len(u) + Len(v)
      /\ \A i \in 1 .. Len(u) + Len(v) : (u \o v)[i] = IF i <= Len(u) THEN u[i] ELSE v[i - Len(u)]
  BY ConcatProperties
<1>3. ASSUME NEW i \in 1 .. Len(v) PROVE (u \o v)[Len(u) + i] = v[i]
  <2>1. Len(u) + i \in 1 .. Len(u) + Len(v) /\ ~(Len(u) + i <= Len(u)) /\ (Len(u) + i) - Len(u) = i
    BY <1>1
  <2> QED
    BY <1>2, <2>1
<1>4. ASSUME NEW i \in 1 .. Len(u) PROVE (u \o v)[i] = u[i]
  <2>1. i \in 1 .. Len(u) + Len(v) /\ i <= Len(u)
    BY <1>1
  <2> QED
    BY <1>2, <2>1
<1> QED
  BY <1>2, <1>3, <1>4

LEMMA MdayValues ==
  ASSUME NEW j \in 0 .. 3, NEW k \in 0 .. 11
  PROVE  mday[12 * j + k + 1] = IF j = 2 /\ k = 1 THEN 29 ELSE Common[k + 1]
<1> DEFINE leap == [Common EXCEPT ![2] = 29]
<1>1. /\ Common \in Seq(Nat) /\ Len(Common) = 12
      /\ leap \in Seq(Nat) /\ Len(leap) = 12
      /\ leap[2] = 29 /\ \A i \in 1 .. 12 : i # 2 => leap[i] = Common[i]
  BY DEF Common
<1>2. mday = ((Common \o Common) \o leap) \o Common
  BY Zenon DEF mday, Common
<1> HIDE DEF leap
<1> DEFINE two == Common \o Common
           three == two \o leap
<1>3. /\ two \in Seq(Nat) /\ Len(two) = 24
      /\ \A i \in 1 .. 12 : two[i] = Common[i] /\ two[12 + i] = Common[i]
  <2>0. Common \in Seq(Nat)
    BY <1>1
  <2>1. two = Common \o Common
    OBVIOUS
  <2> HIDE DEF two
  <2>2. /\ two \in Seq(Nat) /\ Len(two) = Len(Common) + Len(Common)
        /\ \A i \in 1 .. Len(Common) : two[i] = Common[i]
        /\ \A i \in 1 .. Len(Common) : two[Len(Common) + i] = Common[i]
    BY <2>0, <2>1, Joined
  <2> QED
    BY <1>1, <2>2
<1>4. /\ three \in Seq(Nat) /\ Len(three) = 36
      /\ \A i \in 1 .. 24 : three[i] = two[i]
      /\ \A i \in 1 .. 12 : three[24 + i] = leap[i]
  <2>0. two \in Seq(Nat) /\ leap \in Seq(Nat)
    BY <1>1, <1>3
  <2>1. three = two \o leap
    OBVIOUS
  <2> HIDE DEF two, three
  <2>2. /\ three \in Seq(Nat) /\ Len(three) = Len(two) + Len(leap)
        /\ \A i \in 1 .. Len(two) : three[i] = two[i]
        /\ \A i \in 1 .. Len(leap) : three[Len(two) + i] = leap[i]
    BY <2>0, <2>1, Joined
  <2> QED
    BY <1>1, <1>3, <2>2
<1>5. /\ \A i \in 1 .. 36 : mday[i] = three[i]
      /\ \A i \in 1 .. 12 : mday[36 + i] = Common[i]
  <2> HIDE DEF three
  <2>0. three \in Seq(Nat) /\ Common \in Seq(Nat)
    BY <1>1, <1>4
  <2>1. mday = three \o Common
    BY <1>2 DEF three, two
  <2>2. /\ \A i \in 1 .. Len(three) : mday[i] = three[i]
        /\ \A i \in 1 .. Len(Common) : mday[Len(three) + i] = Common[i]
    BY <2>0, <2>1, Joined
  <2> QED
    BY <1>1, <1>4, <2>2
<1> HIDE DEF two, three
<1>0. k + 1 \in 1 .. 12
  OBVIOUS
<1>6. CASE j = 0
  <2>1. 12 * j + k + 1 = k + 1 /\ k + 1 \in 1 .. 24 /\ k + 1 \in 1 .. 36
    BY <1>6
  <2>2. mday[k + 1] = Common[k + 1]
    <3>1. mday[k + 1] = three[k + 1]
      BY <1>5, <2>1
    <3>2. three[k + 1] = two[k + 1]
      BY <1>4, <2>1
    <3>3. two[k + 1] = Common[k + 1]
      BY <1>0, <1>3
    <3> QED
      BY <3>1, <3>2, <3>3
  <2> QED
    BY <1>6, <2>1, <2>2
<1>7. CASE j = 1
  <2>1. 12 * j + k + 1 = 12 + (k + 1) /\ 12 + (k + 1) \in 1 .. 24 /\ 12 + (k + 1) \in 1 .. 36
    BY <1>7
  <2>2. mday[12 + (k + 1)] = Common[k + 1]
    <3>1. mday[12 + (k + 1)] = three[12 + (k + 1)]
      BY <1>5, <2>1
    <3>2. three[12 + (k + 1)] = two[12 + (k + 1)]
      BY <1>4, <2>1
    <3>3. two[12 + (k + 1)] = Common[k + 1]
      BY <1>0, <1>3
    <3> QED
      BY <3>1, <3>2, <3>3
  <2> QED
    BY <1>7, <2>1, <2>2
<1>8. CASE j = 2
  <2>1. 12 * j + k + 1 = 24 + (k + 1) /\ 24 + (k + 1) \in 1 .. 36
    BY <1>8
  <2>2. mday[24 + (k + 1)] = leap[k + 1]
    <3>1. mday[24 + (k + 1)] = three[24 + (k + 1)]
      BY <1>5, <2>1
    <3>2. three[24 + (k + 1)] = leap[k + 1]
      BY <1>0, <1>4
    <3> QED
      BY <3>1, <3>2
  <2>3. k = 1 => leap[k + 1] = 29
    BY <1>1
  <2>4. k # 1 => leap[k + 1] = Common[k + 1]
    BY <1>0, <1>1
  <2> QED
    BY <1>8, <2>1, <2>2, <2>3, <2>4
<1>9. CASE j = 3
  <2>1. 12 * j + k + 1 = 36 + (k + 1)
    BY <1>9
  <2>2. mday[36 + (k + 1)] = Common[k + 1]
    BY <1>0, <1>5
  <2> QED
    BY <1>9, <2>1, <2>2
<1> QED
  BY <1>6, <1>7, <1>8, <1>9

(* DaysTo in closed form *)
Days(m) == 365 * (m \div 12) + doy[(m % 12) + 1] - 1 + (IF m >= 26 THEN 1 ELSE 0)

LEMMA DaysSteps ==
  /\ Days(0) = 0 /\ Days(48) = 1461
  /\ \A m \in 0 .. 48 : Days(m) \in Nat
  /\ \A m \in 0 .. 47 : Days(m + 1) = Days(m) + mday[m + 1]
<1>1. Days(0) = 0 /\ Days(48) = 1461
  BY DoyValues DEF Days
<1>2. ASSUME NEW m \in 0 .. 48 PROVE Days(m) \in Nat
  <2>1. m \div 12 \in Nat /\ m % 12 \in 0 .. 11
    OBVIOUS
  <2>2. doy[(m % 12) + 1] \in Nat \ {0}
    BY <2>1, DoyValues
  <2> QED
    BY <2>1, <2>2 DEF Days
<1>3. ASSUME NEW m \in 0 .. 47 PROVE Days(m + 1) = Days(m) + mday[m + 1]
  <2>1. PICK j \in 0 .. 3, k \in 0 .. 11 : m = 12 * j + k /\ m \div 12 = j /\ m % 12 = k
    BY MonthsOfFour
  <2>2. mday[m + 1] = IF j = 2 /\ k = 1 THEN 29 ELSE Common[k + 1]
    BY <2>1, MdayValues
  <2>3. Days(m) = 365 * j + doy[k + 1] - 1 + (IF m >= 26 THEN 1 ELSE 0)
    BY <2>1 DEF Days
  <2>4. CASE k = 11
    <3>1. (m + 1) \div 12 = j + 1 /\ (m + 1) % 12 = 0
      BY <2>1, <2>4
    <3>2. Days(m + 1) = 365 * (j + 1) + doy[1] - 1 + (IF m + 1 >= 26 THEN 1 ELSE 0)
      BY <3>1 DEF Days
    <3> QED
      BY <2>1, <2>2, <2>3, <2>4, <3>2, DoyValues, CommonValues
  <2>5. CASE k < 11
    <3>1. (m + 1) \div 12 = j /\ (m + 1) % 12 = k + 1
      BY <2>1, <2>5
    <3>2. Days(m + 1) = 365 * j + doy[(k + 1) + 1] - 1 + (IF m + 1 >= 26 THEN 1 ELSE 0)
      BY <3>1 DEF Days
    <3>3. doy[(k + 1) + 1] = doy[k + 1] + Common[k + 1]
      BY <2>5, DoyValues, CommonValues
    <3>4. doy[k + 1] \in Int /\ Common[k + 1] \in Int
      BY DoyValues, CommonValues
    <3>5. k = 1 => Common[k + 1] = 28
      BY CommonValues
    <3> QED
      BY <2>1, <2>2, <2>3, <2>5, <3>2, <3>3, <3>4, <3>5
  <2> QED
    BY <2>4, <2>5
<1> QED
  BY <1>1, <1>2, <1>3

LEMMA DaysToValue == \A m \in 0 .. 48 : DaysTo[m] = Days(m)
<1> DEFINE g == [m \in 0 .. 48 |-> Days(m)]
<1>1. g = [mon \in 0 .. 48 |-> IF mon = 0 THEN 0 ELSE g[mon - 1] + mday[mon]]
  <2> SUFFICES ASSUME NEW mon \in 0 .. 48
               PROVE  Days(mon) = IF mon = 0 THEN 0 ELSE g[mon - 1] + mday[mon]
    OBVIOUS
  <2>1. CASE mon = 0
    BY <2>1, DaysSteps
  <2>2. CASE mon # 0
    <3>1. mon - 1 \in 0 .. 47 /\ mon - 1 \in 0 .. 48 /\ (mon - 1) + 1 = mon
      BY <2>2
    <3>2. g[mon - 1] = Days(mon - 1)
      BY <3>1
    <3> HIDE DEF g
    <3> QED
      BY <2>2, <3>1, <3>2, DaysSteps
  <2> QED
    BY <2>1, <2>2
<1> HIDE DEF g
<1>2. \E f : f = [mon \in 0 .. 48 |-> IF mon = 0 THEN 0 ELSE f[mon - 1] + mday[mon]]
  BY <1>1
<1>3. DaysTo = [mon \in 0 .. 48 |-> IF mon = 0 THEN 0 ELSE DaysTo[mon - 1] + mday[mon]]
  BY <1>2, Zenon DEF DaysTo
<1> DEFINE T == {m \in Nat : m <= 48 => DaysTo[m] = Days(m)}
<1>4. 0 \in T
  BY <1>3, DaysSteps
<1>5. ASSUME NEW m \in T PROVE m + 1 \in T
  <2> SUFFICES ASSUME m + 1 <= 48 PROVE DaysTo[m + 1] = Days(m + 1)
    OBVIOUS
  <2>1. m \in 0 .. 47 /\ m + 1 \in 0 .. 48 /\ (m + 1) - 1 = m /\ m + 1 # 0
    OBVIOUS
  <2>2. DaysTo[m] = Days(m)
    OBVIOUS
  <2>3. DaysTo[m + 1] = DaysTo[m] + mday[m + 1]
    BY <1>3, <2>1
  <2> QED
    BY <2>1, <2>2, <2>3, DaysSteps
<1>6. T = Nat
  <2> HIDE DEF T
  <2>1. T \in SUBSET Nat
    BY DEF T
  <2> QED
    BY <1>4, <1>5, <2>1, InductiveSet
<1>7. ASSUME NEW m \in 0 .. 48 PROVE DaysTo[m] = Days(m)
  <2>1. m \in T
    <3> HIDE DEF T
    <3> QED
      BY <1>6
  <2> QED
    BY <2>1
<1> QED
  BY <1>7

-----------------------------------------------------------------------------
(* In the years the functions accept every fourth is a leap year. *)
LEMMA LeapYears ==
  ASSUME NEW y \in 1970 .. 2099
  PROVE  IsLeapYear(y) <=> y % 4 = 0
<1>1. y % 100 = 0 => y = 2000
  OBVIOUS
<1>2. y % 400 = 0 => y % 4 = 0
  OBVIOUS
<1>3. y = 2000 => y % 400 = 0 /\ y % 4 = 0
  OBVIOUS
<1> QED
  BY <1>1, <1>2, <1>3 DEF IsLeapYear

YearStart(y) == 365 * (y - 1970) + ((y - 1969) \div 4)

LEMMA YearStep ==
  ASSUME NEW y \in 1970 .. 2099
  PROVE  YearStart(y + 1) = YearStart(y) + (IF IsLeapYear(y) THEN 366 ELSE 365)
<1>1. ((y + 1 - 1969) \div 4) = ((y - 1969) \div 4) + (IF y % 4 = 0 THEN 1 ELSE 0)
  OBVIOUS
<1> QED
  BY <1>1, LeapYears DEF YearStart

LEMMA DaysBeforeYearValue == \A y \in 1970 .. 2100 : DaysBeforeYear[y] = YearStart(y)
<1> DEFINE Before(f, y) ==
             IF y = 1970 THEN 0 ELSE f[y - 1] + (IF IsLeapYear(y - 1) THEN 366 ELSE 365)
           g == [y \in 1970 .. 2100 |-> YearStart(y)]
<1>1. g = [y \in 1970 .. 2100 |-> Before(g, y)]
  <2> SUFFICES ASSUME NEW y \in 1970 .. 2100 PROVE YearStart(y) = Before(g, y)
    OBVIOUS
  <2>1. CASE y = 1970
    BY <2>1 DEF YearStart
  <2>2. CASE y # 1970
    <3>1. y - 1 \in 1970 .. 2099 /\ y - 1 \in 1970 .. 2100 /\ (y - 1) + 1 = y
      BY <2>2
    <3>2. g[y - 1] = YearStart(y - 1)
      BY <3>1
    <3>3. YearStart((y - 1) + 1) = YearStart(y - 1) + (IF IsLeapYear(y - 1) THEN 366 ELSE 365)
      BY <3>1, YearStep
    <3> HIDE DEF g
    <3> QED
      BY <2>2, <3>1, <3>2, <3>3
  <2> QED
    BY <2>1, <2>2
<1>2. \E f : f = [y \in 1970 .. 2100 |-> Before(f, y)]
  <2> HIDE DEF g
  <2> QED
    BY <1>1
<1>3. DaysBeforeYear = [y \in 1970 .. 2100 |-> Before(DaysBeforeYear, y)]
  BY <1>2, ZenonT(60) DEF DaysBeforeYear
<1>0. \A y \in 1970 .. 2100 : DaysBeforeYear[y] = Before(DaysBeforeYear, y)
  <2> HIDE DEF Before
  <2> QED
    BY <1>3
<1> DEFINE T == {m \in Nat : m <= 130 => DaysBeforeYear[1970 + m] = YearStart(1970 + m)}
<1>4. 0 \in T
  BY <1>0 DEF YearStart
<1>5. ASSUME NEW m \in T PROVE m + 1 \in T
  <2> SUFFICES ASSUME m + 1 <= 130
               PROVE  DaysBeforeYear[1970 + (m + 1)] = YearStart(1970 + (m + 1))
    OBVIOUS
  <2> DEFINE y == 1970 + m
  <2>1. /\ y \in 1970 .. 2099 /\ y + 1 \in 1970 .. 2100 /\ (y + 1) - 1 = y /\ y + 1 # 1970
        /\ 1970 + (m + 1) = y + 1
    OBVIOUS
  <2>2. DaysBeforeYear[y] = YearStart(y)
    OBVIOUS
  <2> HIDE DEF y
  <2>3. DaysBeforeYear[y + 1] = DaysBeforeYear[y] + (IF IsLeapYear(y) THEN 366 ELSE 365)
    BY <1>0, <2>1
  <2> QED
    BY <2>1, <2>2, <2>3, YearStep
<1>6. T = Nat
  <2> HIDE DEF T
  <2>1. T \in SUBSET Nat
    BY DEF T
  <2> QED
    BY <1>4, <1>5, <2>1, InductiveSet
<1>7. ASSUME NEW y \in 1970 .. 2100 PROVE DaysBeforeYear[y] = YearStart(y)
  <2>1. y - 1970 \in T
    <3>1. y - 1970 \in Nat
      OBVIOUS
    <3> HIDE DEF T
    <3> QED
      BY <1>6, <3>1
  <2>2. 1970 + (y - 1970) = y /\ y - 1970 <= 130
    OBVIOUS
  <2> QED
    BY <2>1, <2>2
<1> QED
  BY <1>7

MonthStart(y, k) == doy[k + 1] - 1 + (IF IsLeapYear(y) /\ k >= 2 THEN 1 ELSE 0)

LEMMA MonthLengthValue ==
  ASSUME NEW y, NEW k \in 0 .. 11
  PROVE  MonthLength(y, k + 1) = IF k = 1 /\ IsLeapYear(y) THEN 29 ELSE Common[k + 1]
BY CommonValues DEF MonthLength

LEMMA MonthStep ==
  ASSUME NEW y, NEW k \in 0 .. 10
  PROVE  MonthStart(y, k + 1) = MonthStart(y, k) + MonthLength(y, k + 1)
<1>1. doy[(k + 1) + 1] = doy[k + 1] + Common[k + 1] /\ doy[k + 1] \in Int /\ Common[k + 1] \in Int
  BY DoyValues, CommonValues
<1>2. MonthLength(y, k + 1) = IF k = 1 /\ IsLeapYear(y) THEN 29 ELSE Common[k + 1]
  BY MonthLengthValue
<1>3. k = 1 => Common[k + 1] = 28
  BY CommonValues
<1> QED
  BY <1>1, <1>2, <1>3 DEF MonthStart

LEMMA DaysBeforeValue ==
  ASSUME NEW y, NEW k \in 0 .. 11
  PROVE  DaysBefore(y, k + 1) = DaysBeforeYear[y] + MonthStart(y, k)
<1> DEFINE Before(f, m) == IF m = 1 THEN 0 ELSE f[m - 1] + MonthLength(y, m - 1)
           InYear[m \in 1 .. 12] == IF m = 1 THEN 0 ELSE InYear[m - 1] + MonthLength(y, m - 1)
           g == [m \in 1 .. 12 |-> MonthStart(y, m - 1)]
<1>1. g = [m \in 1 .. 12 |-> Before(g, m)]
  <2> HIDE DEF InYear
  <2> SUFFICES ASSUME NEW m \in 1 .. 12 PROVE MonthStart(y, m - 1) = Before(g, m)
    OBVIOUS
  <2>1. CASE m = 1
    BY <2>1, DoyValues DEF MonthStart
  <2>2. CASE m # 1
    <3>1. m - 2 \in 0 .. 10 /\ m - 1 \in 1 .. 12 /\ (m - 2) + 1 = m - 1 /\ (m - 1) - 1 = m - 2
      BY <2>2
    <3>2. g[m - 1] = MonthStart(y, m - 2)
      BY <3>1
    <3>3. MonthStart(y, (m - 2) + 1) = MonthStart(y, m - 2) + MonthLength(y, (m - 2) + 1)
      BY <3>1, MonthStep
    <3> HIDE DEF g
    <3> QED
      BY <2>2, <3>1, <3>2, <3>3
  <2> QED
    BY <2>1, <2>2
<1>2. \E f : f = [m \in 1 .. 12 |-> Before(f, m)]
  <2> HIDE DEF g
  <2> QED
    BY <1>1
<1>3. InYear = [m \in 1 .. 12 |-> Before(InYear, m)]
  BY <1>2, Zenon
<1>4. DaysBefore(y, k + 1) = DaysBeforeYear[y] + InYear[k + 1]
  BY DEF DaysBefore
<1> HIDE DEF InYear
<1>0. \A m \in 1 .. 12 : InYear[m] = Before(InYear, m)
  <2> HIDE DEF Before
  <2> QED
    BY <1>3
<1> DEFINE T == {n \in Nat : n <= 11 => InYear[n + 1] = MonthStart(y, n)}
<1>5. 0 \in T
  BY <1>0, DoyValues DEF MonthStart
<1>6. ASSUME NEW n \in T PROVE n + 1 \in T
  <2> SUFFICES ASSUME n + 1 <= 11 PROVE InYear[(n + 1) + 1] = MonthStart(y, n + 1)
    OBVIOUS
  <2>1. n \in 0 .. 10 /\ (n + 1) + 1 \in 1 .. 12 /\ ((n + 1) + 1) - 1 = n + 1 /\ (n + 1) + 1 # 1
    OBVIOUS
  <2>2. InYear[n + 1] = MonthStart(y, n)
    OBVIOUS
  <2>3. InYear[(n + 1) + 1] = InYear[n + 1] + MonthLength(y, n + 1)
    BY <1>0, <2>1
  <2> QED
    BY <2>1, <2>2, <2>3, MonthStep
<1>7. T = Nat
  <2> HIDE DEF T
  <2>1. T \in SUBSET Nat
    BY DEF T
  <2> QED
    BY <1>5, <1>6, <2>1, InductiveSet
<1>8. k \in T
  <2> HIDE DEF T
  <2> QED
    BY <1>7
<1> QED
  BY <1>4, <1>8

-----------------------------------------------------------------------------
LEMMA LeastElement ==
  ASSUME NEW T, T \subseteq Nat, T # {}
  PROVE  \E i \in T : \A j \in T : i <= j
<1>1. PICK i \in T : \A j \in T : ~ (<<j, i>> \in OpToRel(<, Nat))
  BY NatLessThanWellFounded, WFMin, Zenon
<1>2. \A j \in T : ~ (j < i)
  BY <1>1, Zenon DEF OpToRel
<1> QED
  BY <1>2

(* The loop over the months ends in the month of the day. *)
MonthAt(r) == CHOOSE m \in 0 .. 47 : DaysTo[m] <= r /\ r < DaysTo[m + 1]

LEMMA Crossing ==
  ASSUME NEW T, T \subseteq 0 .. 48, 48 \in T, 0 \notin T
  PROVE  \E i \in 0 .. 47 : i \notin T /\ i + 1 \in T
<1>1. T \subseteq Nat /\ T # {}
  OBVIOUS
<1>2. \E i \in T : \A j \in T : i <= j
  BY <1>1, LeastElement, Zenon
<1>3. PICK i \in T : \A j \in T : i <= j
  BY <1>2
<1>4. i - 1 \in 0 .. 47 /\ (i - 1) + 1 = i /\ i \in T
  BY <1>3
<1>5. i - 1 \notin T
  BY <1>3, <1>4
<1> QED
  BY <1>4, <1>5

LEMMA MonthAtChosen ==
  ASSUME NEW r, \E m \in 0 .. 47 : DaysTo[m] <= r /\ r < DaysTo[m + 1]
  PROVE  MonthAt(r) \in 0 .. 47 /\ DaysTo[MonthAt(r)] <= r /\ r < DaysTo[MonthAt(r) + 1]
BY Zenon DEF MonthAt

LEMMA MonthAtHolds ==
  ASSUME NEW r \in Nat, r < 1461
  PROVE  /\ MonthAt(r) \in Nat /\ MonthAt(r) <= 47
         /\ Days(MonthAt(r)) <= r /\ r < Days(MonthAt(r) + 1)
<1> DEFINE T == {m \in 0 .. 48 : r < Days(m)}
<1>1. 48 \in T /\ 0 \notin T /\ T \subseteq 0 .. 48
  BY DaysSteps
<1>2. PICK i \in 0 .. 47 : i \notin T /\ i + 1 \in T
  <2> HIDE DEF T
  <2> QED
    BY <1>1, Crossing
<1>3. i \in 0 .. 48 /\ i + 1 \in 0 .. 48
  OBVIOUS
<1>4. Days(i) \in Nat
  BY <1>3, DaysSteps
<1>5. Days(i) <= r /\ r < Days(i + 1)
  BY <1>2, <1>3, <1>4
<1>6. DaysTo[i] = Days(i) /\ DaysTo[i + 1] = Days(i + 1)
  BY <1>3, DaysToValue
<1>7. \E m \in 0 .. 47 : DaysTo[m] <= r /\ r < DaysTo[m + 1]
  BY <1>5, <1>6
<1> HIDE DEF MonthAt
<1>8. MonthAt(r) \in 0 .. 47 /\ DaysTo[MonthAt(r)] <= r /\ r < DaysTo[MonthAt(r) + 1]
  BY <1>7, MonthAtChosen
<1>9. MonthAt(r) \in 0 .. 48 /\ MonthAt(r) + 1 \in 0 .. 48
  BY <1>8
<1> QED
  BY <1>8, <1>9, DaysToValue

(* the first second of 2100 *)
AfterCalendar == 47482 * 86400

(* day r of the q-th four years, in month k of the j-th of them, year y    *)
IsDay(q, r, j, k, m, y) ==
  /\ q \in Nat /\ r \in Nat /\ 1461 * q + r < 47482 /\ r < 1461
  /\ j \in 0 .. 3 /\ k \in 0 .. 11 /\ m = 12 * j + k
  /\ Days(m) <= r /\ r < Days(m + 1)
  /\ y = 1970 + q * 4 + j

(* the same day in the Gregorian calendar *)
IsGregorianDay(q, r, k, m, y) ==
  /\ y \in Nat /\ 1970 <= y /\ y <= 2099
  /\ r - Days(m) \in Nat /\ r - Days(m) < MonthLength(y, k + 1)
  /\ MonthLength(y, k + 1) \in Nat
  /\ 1461 * q + r = YearStart(y) + MonthStart(y, k) + (r - Days(m))

LEMMA DayOfFour ==
  ASSUME NEW q, NEW r, NEW j, NEW k, NEW m, NEW y, IsDay(q, r, j, k, m, y)
  PROVE  IsGregorianDay(q, r, k, m, y)
<1> USE DEF IsDay
<1>0. m \in 0 .. 47 /\ m \in 0 .. 48
  OBVIOUS
<1>1. Days(m) \in Nat /\ Days(m + 1) = Days(m) + mday[m + 1]
  BY <1>0, DaysSteps
<1>2. mday[m + 1] = IF j = 2 /\ k = 1 THEN 29 ELSE Common[k + 1]
  BY MdayValues
<1>3. doy[k + 1] \in Nat /\ 1 <= doy[k + 1] /\ doy[k + 1] <= 335
  BY DoyValues
<1>4. (m \div 12) = j /\ (m % 12) = k
  OBVIOUS
<1> DEFINE l3 == IF j = 3 THEN 1 ELSE 0
           l2 == IF j = 2 /\ k >= 2 THEN 1 ELSE 0
<1>5. l3 \in Nat /\ l2 \in Nat
  OBVIOUS
<1>6. (IF m >= 26 THEN 1 ELSE 0) = l3 + l2
  OBVIOUS
<1>7. ((y - 1969) \div 4) = q + l3 /\ y - 1970 = 4 * q + j
  OBVIOUS
<1>8. y % 4 = 0 <=> j = 2
  OBVIOUS
<1>9. Days(m) = 365 * j + doy[k + 1] - 1 + l3 + l2
  <2>1. Days(m) = 365 * j + doy[k + 1] - 1 + (IF m >= 26 THEN 1 ELSE 0)
    BY <1>4 DEF Days
  <2> HIDE DEF l3, l2
  <2> QED
    BY <1>3, <1>5, <1>6, <2>1
<1>10. y \in 1970 .. 2099
  <2>1. j >= 2 => Days(m) >= 730
    <3> HIDE DEF l3, l2
    <3> QED
      BY <1>3, <1>5, <1>9
  <2>2. ~ (q >= 32 /\ j >= 2)
    BY <1>1, <2>1
  <2>3. q <= 32
    OBVIOUS
  <2> QED
    BY <2>2, <2>3
<1>11. IsLeapYear(y) <=> j = 2
  BY <1>8, <1>10, LeapYears
<1>12. MonthLength(y, k + 1) = mday[m + 1]
  <2>1. MonthLength(y, k + 1) = IF k = 1 /\ IsLeapYear(y) THEN 29 ELSE Common[k + 1]
    BY MonthLengthValue
  <2> QED
    BY <1>2, <1>11, <2>1
<1>13. mday[m + 1] \in Nat
  <2>1. Common[k + 1] \in Nat
    BY CommonValues
  <2> QED
    BY <1>2, <2>1
<1>14. /\ r - Days(m) \in Nat /\ r - Days(m) < MonthLength(y, k + 1)
       /\ MonthLength(y, k + 1) \in Nat
  BY <1>1, <1>12, <1>13
<1>15. MonthStart(y, k) = doy[k + 1] - 1 + l2
  BY <1>11 DEF MonthStart
<1>16. YearStart(y) = 1461 * q + 365 * j + l3
  <2> HIDE DEF l3
  <2> QED
    BY <1>5, <1>7 DEF YearStart
<1>17. 1461 * q + r = YearStart(y) + MonthStart(y, k) + (r - Days(m))
  <2> HIDE DEF l3, l2
  <2> QED
    BY <1>1, <1>3, <1>5, <1>9, <1>15, <1>16
<1> QED
  BY <1>10, <1>14, <1>17 DEF IsGregorianDay

(* the year, the month (from 0) and the day of the month of a day          *)
YearOf(days)  == 1970 + (days \div 1461) * 4 + (MonthAt(days % 1461) \div 12)
MonthOf(days) == MonthAt(days % 1461) % 12
DayOf(days)   == (days % 1461) - DaysTo[MonthAt(days % 1461)] + 1

LEMMA DayOfMonth ==
  ASSUME NEW days \in Nat, days < 47482
  PROVE  /\ YearOf(days) \in Nat /\ 1970 <= YearOf(days) /\ YearOf(days) <= 2099
         /\ MonthOf(days) \in Nat /\ MonthOf(days) <= 11
         /\ DayOf(days) \in Nat /\ 1 <= DayOf(days)
         /\ MonthLength(YearOf(days), MonthOf(days) + 1) \in Nat
         /\ DayOf(days) <= MonthLength(YearOf(days), MonthOf(days) + 1)
         /\ days = YearStart(YearOf(days)) + MonthStart(YearOf(days), MonthOf(days)) + DayOf(days) - 1
<1> DEFINE q == days \div 1461
           r == days % 1461
           m == MonthAt(r)
<1>1. q \in Nat /\ r \in Nat /\ r < 1461 /\ days = 1461 * q + r
  OBVIOUS
<1>2. m \in Nat /\ m <= 47 /\ Days(m) <= r /\ r < Days(m + 1)
  <2> HIDE DEF q, r
  <2> QED
    BY <1>1, MonthAtHolds
<1>3. YearOf(days) = 1970 + q * 4 + (m \div 12) /\ MonthOf(days) = m % 12
  BY DEF YearOf, MonthOf
<1>4. DayOf(days) = r - DaysTo[m] + 1
  BY DEF DayOf
<1> HIDE DEF q, r, m
<1>5. m \in 0 .. 47 /\ m \in 0 .. 48
  BY <1>2
<1>6. DaysTo[m] = Days(m)
  BY <1>5, DaysToValue
<1>7. PICK j \in 0 .. 3, k \in 0 .. 11 : m = 12 * j + k /\ (m \div 12) = j /\ (m % 12) = k
  BY <1>5, MonthsOfFour
<1> DEFINE y == YearOf(days)
           d == DayOf(days)
<1>8. y = 1970 + q * 4 + j /\ MonthOf(days) = k /\ d = r - Days(m) + 1
  BY <1>3, <1>4, <1>6, <1>7
<1> HIDE DEF y, d
<1>9. 1461 * q + r < 47482
  BY <1>1
<1>10. /\ y \in Nat /\ 1970 <= y /\ y <= 2099
       /\ r - Days(m) \in Nat /\ r - Days(m) < MonthLength(y, k + 1)
       /\ MonthLength(y, k + 1) \in Nat
       /\ 1461 * q + r = YearStart(y) + MonthStart(y, k) + (r - Days(m))
  <2>1. q \in Nat /\ r \in Nat /\ r < 1461 /\ 1461 * q + r < 47482
    BY <1>1
  <2>2. m = 12 * j + k /\ y = 1970 + q * 4 + j
    BY <1>7, <1>8
  <2>3. Days(m) <= r /\ r < Days(m + 1)
    BY <1>2
  <2>4. IsDay(q, r, j, k, m, y)
    BY <2>1, <2>2, <2>3 DEF IsDay
  <2>5. IsGregorianDay(q, r, k, m, y)
    BY <2>4, DayOfFour
  <2> QED
    BY <2>5 DEF IsGregorianDay
<1>11. y \in Nat /\ k \in Nat /\ MonthOf(days) = k /\ days = 1461 * q + r
  BY <1>1, <1>8, <1>10
<1>12. YearStart(y) \in Int /\ MonthStart(y, k) \in Int
  BY <1>10, DoyValues DEF YearStart, MonthStart
<1>13. /\ d \in Nat /\ 1 <= d /\ d <= MonthLength(y, k + 1)
       /\ days = YearStart(y) + MonthStart(y, k) + d - 1
  BY <1>8, <1>10, <1>11, <1>12
<1> QED
  BY <1>10, <1>11, <1>13 DEF y, d

(* The time of the day by hours, minutes and seconds. *)
LEMMA DayTime ==
  ASSUME NEW y, NEW m, NEW d, NEW s \in Int, 0 <= s, s < 86400
  PROVE  LET ep == Date(y, m, d, s) IN
           /\ ep.year = y /\ ep.month = m /\ ep.day = d
           /\ ep.hour \in 0 .. 23 /\ ep.min \in 0 .. 59 /\ ep.sec \in 0 .. 59
           /\ ep.hour * 3600 + ep.min * 60 + ep.sec = s
<1>1. /\ (s \div 3600) \in 0 .. 23 /\ ((s % 3600) \div 60) \in 0 .. 59 /\ (s % 60) \in 0 .. 59
      /\ (s \div 3600) * 3600 + ((s % 3600) \div 60) * 60 + (s % 60) = s
  <2>1. s = (s \div 3600) * 3600 + (s % 3600) /\ (s % 3600) \in 0 .. 3599
    BY SMTT(30)
  <2>2. (s % 3600) % 60 = s % 60
    BY SMTT(30)
  <2>3. (s % 3600) = ((s % 3600) \div 60) * 60 + ((s % 3600) % 60)
    BY <2>1, SMTT(30)
  <2> QED
    BY <2>1, <2>2, <2>3, SMTT(30)
<1> QED
  BY <1>1, SMTT(30) DEF Date

(* From 1970 to 2099 a time is shown as its Gregorian date, and the date   *)
(* leads back to the time: time2epoch counts in four years with the leap   *)
(* day in the third and no exception for 2000, epoch2time in years.        *)
THEOREM CalendarIsGregorian ==
  ASSUME NEW t \in Int, 0 <= t, t < AfterCalendar
  PROVE  IsDateOf(time2epoch(t), t) /\ epoch2time(time2epoch(t)) = t
<1> DEFINE days == t \div 86400
           s == t - days * 86400
<1>1. /\ days \in Nat /\ days < 47482 /\ s \in Int /\ 0 <= s /\ s < 86400
      /\ t = days * 86400 + s
  BY SMTT(120) DEF AfterCalendar
<1>2. time2epoch(t) = Date(YearOf(days), MonthOf(days) + 1, DayOf(days), s)
  BY SMTT(30) DEF time2epoch, SecPerDay, MonthAt, YearOf, MonthOf, DayOf
<1> HIDE DEF days, s
<1> DEFINE y == YearOf(days)
           k == MonthOf(days)
           d == DayOf(days)
<1>0. /\ y \in Nat /\ 1970 <= y /\ y <= 2099 /\ k \in Nat /\ k <= 11
      /\ MonthLength(y, k + 1) \in Nat
      /\ d \in Nat /\ 1 <= d /\ d <= MonthLength(y, k + 1)
      /\ days = YearStart(y) + MonthStart(y, k) + d - 1
  BY <1>1, DayOfMonth, SMTT(30)
<1> DEFINE ep == time2epoch(t)
<1>4. ep = Date(y, k + 1, d, s)
  BY <1>2
<1> HIDE DEF ep, y, k, d
<1>3. y \in 1970 .. 2099 /\ y \in 1970 .. 2100 /\ k \in 0 .. 11
  BY <1>0, SMTT(30)
<1>5. /\ ep.year = y /\ ep.month = k + 1 /\ ep.day = d
      /\ ep.hour \in 0 .. 23 /\ ep.min \in 0 .. 59 /\ ep.sec \in 0 .. 59
      /\ ep.hour * 3600 + ep.min * 60 + ep.sec = s
  BY <1>1, <1>4, DayTime, SMTT(120)
<1>6. doy[k + 1] \in Int
  BY <1>3, DoyValues
<1>7. DaysBefore(y, k + 1) = YearStart(y) + MonthStart(y, k)
  BY <1>3, DaysBeforeValue, DaysBeforeYearValue, SMTT(30)
<1>8. IsDateOf(ep, t)
  <2>1. DaysBefore(y, k + 1) \in Int /\ DaysBefore(y, k + 1) + d - 1 = days
    BY <1>0, <1>6, <1>7, SMTT(30) DEF YearStart, MonthStart
  <2>2. ep.month \in 1 .. 12 /\ ep.day \in 1 .. MonthLength(ep.year, ep.month)
    BY <1>0, <1>5, SMTT(30)
  <2>3. t = (DaysBefore(ep.year, ep.month) + ep.day - 1) * SecPerDay
            + ep.hour * 3600 + ep.min * 60 + ep.sec
    <3>1. DaysBefore(ep.year, ep.month) + ep.day - 1 = days
      BY <1>5, <2>1
    <3>2. t = days * 86400 + (ep.hour * 3600 + ep.min * 60 + ep.sec)
      BY <1>1, <1>5, SMTT(60)
    <3>3. ep.hour \in Int /\ ep.min \in Int /\ ep.sec \in Int /\ days \in Int
      BY <1>1, <1>5, SMTT(120)
    <3> QED
      BY <3>1, <3>2, <3>3, SMTT(30) DEF SecPerDay
  <2> QED
    BY <1>5, <2>2, <2>3 DEF IsDateOf
<1>9. epoch2time(ep) = t
  <2>1. (IF y % 4 = 0 /\ k + 1 >= 3 THEN 1 ELSE 0) = (IF IsLeapYear(y) /\ k >= 2 THEN 1 ELSE 0)
    BY <1>3, LeapYears
  <2> DEFINE n == (y - 1970) * 365 + ((y - 1969) \div 4) + doy[k + 1] + d - 2
                  + (IF y % 4 = 0 /\ k + 1 >= 3 THEN 1 ELSE 0)
  <2>2. n = days
    BY <1>0, <1>3, <1>6, <2>1, SMTT(30) DEF YearStart, MonthStart
  <2>3. k + 1 \in 1 .. 12
    BY <1>3
  <2>4. epoch2time(ep) = n * SecPerDay + ep.hour * 3600 + ep.min * 60 + ep.sec
    BY <1>3, <1>5, <2>3, SMTT(30) DEF epoch2time
  <2>5. t = days * 86400 + (ep.hour * 3600 + ep.min * 60 + ep.sec)
    BY <1>1, <1>5, SMTT(60)
  <2>6. ep.hour \in Int /\ ep.min \in Int /\ ep.sec \in Int /\ days \in Int
    BY <1>1, <1>5, SMTT(120)
  <2> HIDE DEF n
  <2> QED
    BY <2>2, <2>4, <2>5, <2>6, SMTT(30) DEF SecPerDay
<1> QED
  BY <1>8, <1>9 DEF ep

-----------------------------------------------------------------------------
(* the last of the leap seconds *)
Since2017 == 1483228800

LEMMA LastLeap == DOMAIN leaps = {1, 2, 3} /\ epoch2time(leaps[1][1]) = Since2017 /\ leaps[1][2] = 18
<1>1. DOMAIN leaps = {1, 2, 3} /\ leaps[1][1] = Date(2017, 1, 1, 0) /\ leaps[1][2] = 18
  BY SMTT(30) DEF leaps
<1> DEFINE ep == Date(2017, 1, 1, 0)
<1>2. /\ ep.year = 2017 /\ ep.month = 1 /\ ep.day = 1
      /\ ep.hour = 0 /\ ep.min = 0 /\ ep.sec = 0
  BY SMTT(30) DEF Date
<1> HIDE DEF ep
<1>3. epoch2time(ep) = ((2017 - 1970) * 365 + ((2017 - 1969) \div 4) + doy[1] + 1 - 2) * 86400
  BY <1>2, DoyValues, SMTT(30) DEF epoch2time, SecPerDay
<1>4. epoch2time(ep) = Since2017
  BY <1>3, DoyValues, SMTT(30) DEF Since2017
<1> QED
  BY <1>1, <1>4, SMTT(30) DEF ep

(* the first of the leap seconds that hit *)
First(hits) == CHOOSE i \in hits : \A j \in hits : i <= j

LEMMA FirstHit ==
  ASSUME NEW hits, hits \subseteq {1, 2, 3}, 1 \in hits
  PROVE  First(hits) = 1
<1>1. \A j \in hits : 1 <= j
  OBVIOUS
<1>2. First(hits) \in hits /\ \A j \in hits : First(hits) <= j
  BY <1>1, Zenon DEF First
<1>3. First(hits) \in {1, 2, 3} /\ First(hits) <= 1
  BY <1>2, Zenon
<1> QED
  BY <1>3

LEMMA LeapOfGpst ==
  ASSUME NEW t, NEW hits, hits = {i \in DOMAIN leaps : t - leaps[i][2] >= epoch2time(leaps[i][1])},
         hits # {}
  PROVE  gpst2utc(t) = t - leaps[First(hits)][2]
BY Zenon DEF gpst2utc, First

LEMMA LeapOfUtc ==
  ASSUME NEW t, NEW hits, hits = {i \in DOMAIN leaps : t >= epoch2time(leaps[i][1])},
         hits # {}
  PROVE  utc2gpst(t) = t + leaps[First(hits)][2]
BY Zenon DEF utc2gpst, First

(* Since 2017 UTC is 18 seconds behind GPS time, both ways. *)
LEMMA UtcSince2017 ==
  ASSUME NEW t \in Int
  PROVE  /\ t - 18 >= Since2017 => gpst2utc(t) = t - 18
         /\ t >= Since2017 => utc2gpst(t) = t + 18
<1>1. ASSUME t - 18 >= Since2017 PROVE gpst2utc(t) = t - 18
  <2> DEFINE hits == {i \in DOMAIN leaps : t - leaps[i][2] >= epoch2time(leaps[i][1])}
  <2>1. hits \subseteq {1, 2, 3} /\ 1 \in hits
    BY <1>1, LastLeap, SMTT(30) DEF Since2017
  <2>2. hits # {}
    BY <2>1, SMTT(30)
  <2>3. gpst2utc(t) = t - leaps[First(hits)][2]
    BY <2>2, LeapOfGpst, SMTT(30)
  <2> HIDE DEF hits
  <2>4. First(hits) = 1
    BY <2>1, FirstHit, Zenon
  <2> QED
    BY <2>3, <2>4, LastLeap, SMTT(30) DEF Since2017
<1>2. ASSUME t >= Since2017 PROVE utc2gpst(t) = t + 18
  <2> DEFINE hits == {i \in DOMAIN leaps : t >= epoch2time(leaps[i][1])}
  <2>1. hits \subseteq {1, 2, 3} /\ 1 \in hits
    BY <1>2, LastLeap, SMTT(30) DEF Since2017
  <2>2. hits # {}
    BY <2>1, SMTT(30)
  <2>3. utc2gpst(t) = t + leaps[First(hits)][2]
    BY <2>2, LeapOfUtc, SMTT(30)
  <2> HIDE DEF hits
  <2>4. First(hits) = 1
    BY <2>1, FirstHit, Zenon
  <2> QED
    BY <2>3, <2>4, LastLeap, SMTT(30) DEF Since2017
<1> QED
  BY <1>1, <1>2, SMTT(30)

-----------------------------------------------------------------------------
(* TimeResolution *)

(* A time is its week and its time of the week. *)
LEMMA Split ==
  ASSUME NEW t \in Int
  PROVE  /\ WeekOf(t) \in Int /\ TowOf(t) \in Int
         /\ 0 <= TowOf(t) /\ TowOf(t) < 604800
         /\ t = 604800 * WeekOf(t) + TowOf(t)
BY SMTT(30) DEF WeekOf, TowOf, SecPerWeek

(* Two times less than half a week apart: the week handover finds the week *)
(* of the second from that of the first.                                   *)
LEMMA Handover ==
  ASSUME NEW t \in Int, NEW u \in Int, -302400 < u - t, u - t < 302400
  PROVE  WeekOfToe(WeekOf(t), TowOf(t), TowOf(u)) = WeekOf(u)
<1>1. /\ WeekOf(t) \in Int /\ TowOf(t) \in Int /\ 0 <= TowOf(t) /\ TowOf(t) < 604800
      /\ t = 604800 * WeekOf(t) + TowOf(t)
      BY Split, SMTT(30)
<1>2. /\ WeekOf(u) \in Int /\ TowOf(u) \in Int /\ 0 <= TowOf(u) /\ TowOf(u) < 604800
      /\ u = 604800 * WeekOf(u) + TowOf(u)
      BY Split, SMTT(30)
<1> QED BY <1>1, <1>2, SMTT(30) DEF WeekOfToe, HalfWeek

(* The week number cut to its field is the week again within the era. *)
LEMMA Rollover ==
  ASSUME NEW t \in Int, 2048 * 604800 <= t, t < 3072 * 604800
  PROVE  (WeekOf(t) % 1024) + 1024 * GPS_WEEK_ROLLOVER_N = WeekOf(t)
<1>1. WeekOf(t) \in Int /\ 2048 <= WeekOf(t) /\ WeekOf(t) < 3072
      BY SMTT(30) DEF WeekOf, SecPerWeek
<1> QED BY <1>1, SMTT(30) DEF GPS_WEEK_ROLLOVER_N

(* what the decoders owe for an ephemeris sent at t *)
Exact(times, t, toe) == times.ttr = t /\ times.toe = toe

LEMMA GpsExact ==
  ASSUME NEW t \in Int, NEW u \in Int, -302400 < u - t, u - t < 302400,
         2048 * 604800 <= t, t < 3072 * 604800
  PROVE  Exact(GpsTimes(t, u), t, u)
<1>1. (WeekOf(t) % 1024) + 1024 * GPS_WEEK_ROLLOVER_N = WeekOf(t)
      BY Rollover
<1>2. GpsTimes(t, u) = [ttr |-> gpst2time(WeekOf(t), TowOf(t)),
                        toe |-> gpst2time(WeekOfToe(WeekOf(t), TowOf(t), TowOf(u)), TowOf(u))]
      BY <1>1, SMTT(30) DEF GpsTimes
<1>3. gpst2time(WeekOf(t), TowOf(t)) = t /\ gpst2time(WeekOf(u), TowOf(u)) = u
      BY Split, SMTT(30) DEF gpst2time, SecPerWeek
<1>4. WeekOfToe(WeekOf(t), TowOf(t), TowOf(u)) = WeekOf(u)
      BY Handover, SMTT(30)
<1> QED BY <1>2, <1>3, <1>4, SMTT(30) DEF Exact

(* The epochs of Galileo and BeiDou are whole weeks of GPS. *)
LEMMA Shift ==
  ASSUME NEW w \in Int, NEW a \in Int, NEW b \in Int, NEW n \in Int
  PROVE  WeekOfToe(w - n, a, b) = WeekOfToe(w, a, b) - n
BY SMTT(30) DEF WeekOfToe, HalfWeek

LEMMA GalExact ==
  ASSUME NEW t \in Int, NEW u \in Int, -302400 < u - t, u - t < 302400
  PROVE  Exact(GalTimes(t, u), t, u)
<1>1. /\ WeekOf(t) \in Int /\ TowOf(t) \in Int /\ t = 604800 * WeekOf(t) + TowOf(t)
      /\ WeekOf(u) \in Int /\ TowOf(u) \in Int /\ u = 604800 * WeekOf(u) + TowOf(u)
      BY Split, SMTT(30)
<1>2. WeekOfToe(WeekOf(t) - 1024, TowOf(t), TowOf(u)) = WeekOf(u) - 1024
  <2>1. WeekOfToe(WeekOf(t), TowOf(t), TowOf(u)) = WeekOf(u)
        BY Handover, SMTT(30)
  <2>2. WeekOfToe(WeekOf(t) - 1024, TowOf(t), TowOf(u)) =
          WeekOfToe(WeekOf(t), TowOf(t), TowOf(u)) - 1024
        BY <1>1, Shift, SMTT(30)
  <2> QED BY <2>1, <2>2
<1>3. GalTimes(t, u) = [ttr |-> gst2time(WeekOf(t) - 1024, TowOf(t)),
                        toe |-> gst2time(WeekOf(u) - 1024, TowOf(u))]
      BY <1>2, SMTT(30) DEF GalTimes
<1> QED BY <1>1, <1>3, SMTT(30) DEF Exact, gst2time, SecPerWeek

(* What the decoders of BeiDou make of a time of BeiDou that they keep in   *)
(* its week.                                                               *)
LEMMA BdsExact ==
  ASSUME NEW t \in Int, NEW s \in Int, s = t - 14
  PROVE  bdt2time(WeekOf(s) - 1356, TowOf(s)) + 14 = t
<1>1. /\ WeekOf(s) \in Int /\ TowOf(s) \in Int
      /\ s = 604800 * WeekOf(s) + TowOf(s)
      BY Split, SMTT(30)
<1> QED BY <1>1, SMTT(30) DEF bdt2time, SecPerWeek

LEMMA D1Exact ==
  ASSUME NEW t \in Int, NEW u \in Int, -302400 < u - t, u - t < 302400
  PROVE  Exact(D1Times(t, u), t, u)
<1>1. PICK s \in Int, v \in Int : s = t - 14 /\ v = u - 14
      BY SMTT(30)
<1>2. -302400 < v - s /\ v - s < 302400
      BY <1>1, SMTT(30)
<1>3. WeekOf(s) \in Int /\ TowOf(s) \in Int /\ WeekOf(v) \in Int /\ TowOf(v) \in Int
      BY <1>1, Split, SMTT(30)
<1>4. WeekOfToe(WeekOf(s) - 1356, TowOf(s), TowOf(v)) = WeekOf(v) - 1356
      BY <1>1, <1>2, <1>3, Shift, Handover, SMTT(30)
<1>5. D1Times(t, u) = [ttr |-> bdt2time(WeekOf(s) - 1356, TowOf(s)) + 14,
                       toe |-> bdt2time(WeekOf(v) - 1356, TowOf(v)) + 14]
      BY <1>1, <1>4, SMTT(30) DEF D1Times
<1> QED BY <1>1, <1>5, BdsExact, SMTT(30) DEF Exact

(* For D2 the ttr is exact, and so is a toe of the same week. *)
LEMMA D2Exact ==
  ASSUME NEW t \in Int, NEW u \in Int, -302400 < u - t, u - t < 302400
  PROVE  /\ D2Times(t, u).ttr = t
         /\ D2Times(t, u).toe \in Int
         /\ WeekOf(t - 14) = WeekOf(u - 14) => D2Times(t, u).toe = u
<1>1. PICK s \in Int, v \in Int : s = t - 14 /\ v = u - 14
      BY SMTT(30)
<1>2. -302400 < v - s /\ v - s < 302400
      BY <1>1, SMTT(30)
<1>3. /\ WeekOf(s) \in Int /\ TowOf(s) \in Int /\ s = 604800 * WeekOf(s) + TowOf(s)
      /\ WeekOf(v) \in Int /\ TowOf(v) \in Int /\ v = 604800 * WeekOf(v) + TowOf(v)
      BY <1>1, Split, SMTT(30)
<1>4. D2Times(t, u) =
        [ttr |-> bdt2time(WeekOf(s) - 1356, TowOf(s)) + 14,
         toe |-> bdt2time(WeekOfToeD2(WeekOf(s) - 1356, TowOf(s), TowOf(v)), TowOf(v)) + 14]
      BY <1>1, SMTT(30) DEF D2Times
<1>5. WeekOfToeD2(WeekOf(s) - 1356, TowOf(s), TowOf(v)) \in Int
      BY <1>1, <1>3, SMTT(30) DEF WeekOfToeD2, HalfWeek
<1>6. D2Times(t, u).toe \in Int
      BY <1>3, <1>4, <1>5, SMTT(30) DEF bdt2time, SecPerWeek
<1>7. D2Times(t, u).ttr = t
      BY <1>1, <1>4, BdsExact, SMTT(30)
<1>8. ASSUME WeekOf(s) = WeekOf(v)
      PROVE  D2Times(t, u).toe = u
  <2>1. WeekOfToeD2(WeekOf(s) - 1356, TowOf(s), TowOf(v)) = WeekOf(v) - 1356
        BY <1>1, <1>2, <1>3, <1>8, SMTT(30) DEF WeekOfToeD2, HalfWeek
  <2> QED BY <1>1, <1>4, <2>1, BdsExact, SMTT(30)
<1>9. WeekOf(t - 14) = WeekOf(s) /\ WeekOf(u - 14) = WeekOf(v)
      BY <1>1, SMTT(30)
<1> QED BY <1>6, <1>7, <1>8, <1>9, SMTT(30)

LEMMA PvtExact ==
  ASSUME curr_time \in Int, NEW t \in Int, -302400 < t - curr_time, t - curr_time < 302400
  PROVE  PvtTime(TowOf(t)) = t
<1>1. WeekOfToe(WeekOf(curr_time), TowOf(curr_time), TowOf(t)) = WeekOf(t)
      BY Handover, SMTT(30)
<1>2. gpst2time(WeekOf(t), TowOf(t)) = t
      BY Split, SMTT(30) DEF gpst2time, SecPerWeek
<1> QED BY <1>1, <1>2, SMTT(30) DEF PvtTime
-----------------------------------------------------------------------------
(* The inductive invariant: the era, what the reference may be, and what   *)
(* the last step yielded.                                                  *)
AfterEra == 3073 * 604800   \* no toe is later

EphemOK ==
  /\ ephem \in Ephems /\ ephem.at < AfterEra
  /\ TtrIsTransmitted /\ ToeIsTransmitted

PvtOK == pvt \in [time : Int, sent : Nat] /\ PvtTimeIsTrue

ClockOK ==
  /\ now \in Nat /\ now <= Horizon /\ 2048 * SecPerWeek + MaxGap <= now
  /\ curr_time \in Int
  /\ curr_time # Unset => now - MaxGap <= curr_time /\ curr_time <= now

IInv == ClockOK /\ EphemOK /\ PvtOK

(* what the assumption on the constants says of their elements *)
LEMMA Assumed ==
  /\ MaxGap \in Nat /\ MaxGap < 43200 /\ Horizon \in Nat /\ Horizon < 3072 * SecPerWeek
  /\ \A s \in Starts : s \in Nat /\ 2048 * SecPerWeek + MaxGap <= s /\ s <= Horizon
  /\ \A d \in Steps : d \in Nat
  /\ \A l \in Lags : l \in Nat /\ l <= MaxGap
  /\ \A o \in Offsets : o \in Int /\ -302400 < o /\ o < 302400
<1>1. MaxGap \in Nat /\ MaxGap < 43200 /\ Horizon \in Nat /\ Horizon < 3072 * SecPerWeek
      BY TimeAssumption, SMTT(30) DEF HalfDay
<1>2. \A s \in Starts : s \in Nat /\ 2048 * SecPerWeek + MaxGap <= s /\ s <= Horizon
      BY TimeAssumption, SMTT(30) DEF SecPerWeek
<1>3. \A d \in Steps : d \in Nat
      BY TimeAssumption, SMTT(30)
<1>4. \A l \in Lags : l \in Nat /\ l <= MaxGap
      BY TimeAssumption, SMTT(30)
<1>5. \A o \in Offsets : o \in Int /\ -302400 < o /\ o < 302400
      BY TimeAssumption, SMTT(30) DEF HalfWeek
<1> QED BY <1>1, <1>2, <1>3, <1>4, <1>5, SMTT(30)

LEMMA NothingOK ==
  None \in Ephems /\ None.at < AfterEra /\ NoPvt \in [time : Int, sent : Nat]
BY SMTT(30) DEF None, NoPvt, Ephems, Systems, AfterEra

LEMMA InitIInv == Init => IInv
<1> SUFFICES ASSUME Init PROVE IInv
    OBVIOUS
<1>1. ClockOK
      BY Assumed, SMTT(30) DEF Init, ClockOK, Unset
<1>2. EphemOK /\ PvtOK
      BY NothingOK, SMTT(30) DEF Init, EphemOK, PvtOK, TtrIsTransmitted, ToeIsTransmitted, PvtTimeIsTrue, None, NoPvt
<1> QED BY <1>1, <1>2 DEF IInv

(* A step that yields nothing leaves nothing wrong. *)
LEMMA YieldsNothing ==
  ASSUME ephem' = None
  PROVE  EphemOK'
BY NothingOK, SMTT(30) DEF EphemOK, TtrIsTransmitted, ToeIsTransmitted, None

LEMMA YieldsNoPvt ==
  ASSUME pvt' = NoPvt
  PROVE  PvtOK'
BY NothingOK, SMTT(30) DEF PvtOK, PvtTimeIsTrue, NoPvt

LEMMA TickStep == IInv /\ Tick => IInv'
<1> SUFFICES ASSUME IInv, Tick PROVE IInv'
    OBVIOUS
<1>1. ClockOK'
  <2>1. PICK d \in Steps : /\ now + d <= Horizon /\ now' = now + d
                           /\ curr_time # Unset => now + d - curr_time <= MaxGap
        BY SMTT(30) DEF Tick
  <2>2. d \in Nat /\ MaxGap \in Nat /\ Horizon \in Nat
        BY Assumed, SMTT(30)
  <2>3. curr_time' = curr_time
        BY SMTT(30) DEF Tick
  <2> QED BY <2>1, <2>2, <2>3, SMTT(30) DEF IInv, ClockOK, SecPerWeek
<1>2. EphemOK' /\ PvtOK'
      BY YieldsNothing, YieldsNoPvt DEF Tick, Yields
<1> QED BY <1>1, <1>2 DEF IInv

LEMMA MeasStep == IInv /\ ParseMeas => IInv'
<1> SUFFICES ASSUME IInv, ParseMeas PROVE IInv'
    OBVIOUS
<1>1. gpst2time(WeekOf(now), TowOf(now)) = now
  <2>1. now \in Int
        BY SMTT(30) DEF IInv, ClockOK
  <2> QED BY <2>1, Split, SMTT(30) DEF gpst2time, SecPerWeek
<1>2. ClockOK'
  <2>1. curr_time' = now /\ now' = now
        BY <1>1, SMTT(30) DEF ParseMeas
  <2>2. MaxGap \in Nat
        BY Assumed, SMTT(30)
  <2> QED BY <2>1, <2>2, SMTT(30) DEF IInv, ClockOK
<1>3. EphemOK' /\ PvtOK'
      BY YieldsNothing, YieldsNoPvt DEF ParseMeas, Yields
<1> QED BY <1>2, <1>3 DEF IInv

(* an exact ephemeris keeps its part of the invariant *)
LEMMA YieldsExact ==
  ASSUME NEW k \in Systems, NEW t \in Nat, NEW toe \in Nat, NEW times, Exact(times, t, toe),
         toe < AfterEra,
         ephem' = Ephem(k, times, t, toe)
  PROVE  EphemOK'
<1>1. ephem' = [sys |-> k, ttr |-> t, toe |-> toe, sent |-> t, at |-> toe]
      BY SMTT(30) DEF Ephem, Exact
<1>2. ephem' \in Ephems
      BY <1>1, SMTT(30) DEF Ephems
<1>3. ephem.ttr' = t /\ ephem.sent' = t /\ ephem.toe' = toe /\ ephem.at' = toe
      BY <1>1, SMTT(30)
<1> QED BY <1>2, <1>3, SMTT(30) DEF EphemOK, TtrIsTransmitted, ToeIsTransmitted

(* what the clock, the age and the distance of the toe come to *)
LEMMA Sent ==
  ASSUME ClockOK, NEW lag \in Lags, NEW t, t = now - lag
  PROVE  t \in Nat /\ 2048 * 604800 <= t /\ t < 3072 * 604800 /\ now - MaxGap <= t /\ t <= now
<1>1. /\ lag \in Nat /\ lag <= MaxGap /\ MaxGap \in Nat
      /\ Horizon \in Nat /\ Horizon < 3072 * SecPerWeek
      BY Assumed, SMTT(30)
<1> QED BY <1>1, SMTT(30) DEF ClockOK, SecPerWeek

LEMMA Toe ==
  ASSUME NEW t \in Nat, 2048 * 604800 <= t, NEW off \in Offsets, NEW u, u = t + off
  PROVE  u \in Nat /\ -302400 < u - t /\ u - t < 302400 /\ (t < 3072 * 604800 => u < AfterEra)
<1>1. off \in Int /\ -302400 < off /\ off < 302400
      BY Assumed, SMTT(30)
<1> QED BY <1>1, SMTT(30) DEF AfterEra

(* a decoder that yields ttr and sets the reference to it *)
LEMMA ReferenceSet ==
  ASSUME ClockOK, NEW lag \in Lags, curr_time' = now - lag, now' = now
  PROVE  ClockOK'
<1>1. lag \in Nat /\ lag <= MaxGap /\ MaxGap \in Nat
      BY Assumed, SMTT(30)
<1> QED BY <1>1, SMTT(30) DEF ClockOK, SecPerWeek

LEMMA GpsStep == IInv /\ DecodeGps => IInv'
<1> SUFFICES ASSUME IInv, DecodeGps PROVE IInv'
    OBVIOUS
<1>1. PICK lag \in Lags, off \in Offsets :
        /\ Yields(Ephem("GPS", GpsTimes(now - lag, now - lag + off), now - lag, now - lag + off), NoPvt)
        /\ curr_time' = GpsTimes(now - lag, now - lag + off).ttr
        /\ now' = now
      BY Zenon DEF DecodeGps
<1> DEFINE t == now - lag
           u == now - lag + off
<1>2. t \in Nat /\ 2048 * 604800 <= t /\ t < 3072 * 604800
      BY Sent, SMTT(30) DEF IInv
<1>3. u \in Nat /\ -302400 < u - t /\ u - t < 302400 /\ u < AfterEra
  <2> HIDE DEF t
  <2>1. u = t + off
        BY DEF t
  <2> QED BY <1>2, <2>1, Toe, SMTT(30)
<1>4. Exact(GpsTimes(t, u), t, u)
  <2> HIDE DEF t, u
  <2> QED BY <1>2, <1>3, GpsExact, SMTT(30)
<1>5. EphemOK'
  <2>1. ephem' = Ephem("GPS", GpsTimes(t, u), t, u)
        BY <1>1, SMTT(30) DEF Yields
  <2>2. t \in Nat /\ u \in Nat /\ u < AfterEra /\ Exact(GpsTimes(t, u), t, u)
        BY <1>2, <1>3, <1>4, SMTT(30)
  <2> HIDE DEF t, u
  <2>3. "GPS" \in Systems
        BY Zenon DEF Systems
  <2> QED BY <2>1, <2>2, <2>3, YieldsExact, Zenon
<1>6. ClockOK'
      BY <1>1, <1>4, ReferenceSet, SMTT(30) DEF IInv, Exact
<1>7. PvtOK'
      BY <1>1, YieldsNoPvt DEF Yields
<1> QED BY <1>5, <1>6, <1>7 DEF IInv

LEMMA GalStep == IInv /\ DecodeGal => IInv'
<1> SUFFICES ASSUME IInv, DecodeGal PROVE IInv'
    OBVIOUS
<1>1. PICK lag \in Lags, off \in Offsets :
        /\ Yields(Ephem("GAL", GalTimes(now - lag, now - lag + off), now - lag, now - lag + off), NoPvt)
        /\ curr_time' = GalTimes(now - lag, now - lag + off).ttr
        /\ now' = now
      BY Zenon DEF DecodeGal
<1> DEFINE t == now - lag
           u == now - lag + off
<1>2. t \in Nat /\ 2048 * 604800 <= t /\ t < 3072 * 604800
      BY Sent, SMTT(30) DEF IInv
<1>3. u \in Nat /\ -302400 < u - t /\ u - t < 302400 /\ u < AfterEra
  <2> HIDE DEF t
  <2>1. u = t + off
        BY DEF t
  <2> QED BY <1>2, <2>1, Toe, SMTT(30)
<1>4. Exact(GalTimes(t, u), t, u)
  <2> HIDE DEF t, u
  <2> QED BY <1>2, <1>3, GalExact, SMTT(30)
<1>5. EphemOK'
  <2>1. ephem' = Ephem("GAL", GalTimes(t, u), t, u)
        BY <1>1, SMTT(30) DEF Yields
  <2>2. t \in Nat /\ u \in Nat /\ u < AfterEra /\ Exact(GalTimes(t, u), t, u)
        BY <1>2, <1>3, <1>4, SMTT(30)
  <2> HIDE DEF t, u
  <2>3. "GAL" \in Systems
        BY Zenon DEF Systems
  <2> QED BY <2>1, <2>2, <2>3, YieldsExact, Zenon
<1>6. ClockOK'
      BY <1>1, <1>4, ReferenceSet, SMTT(30) DEF IInv, Exact
<1>7. PvtOK'
      BY <1>1, YieldsNoPvt DEF Yields
<1> QED BY <1>5, <1>6, <1>7 DEF IInv

LEMMA D1Step == IInv /\ DecodeD1 => IInv'
<1> SUFFICES ASSUME IInv, DecodeD1 PROVE IInv'
    OBVIOUS
<1>1. PICK lag \in Lags, off \in Offsets :
        /\ Yields(Ephem("D1", D1Times(now - lag, now - lag + off), now - lag, now - lag + off), NoPvt)
        /\ curr_time' = D1Times(now - lag, now - lag + off).ttr
        /\ now' = now
      BY Zenon DEF DecodeD1
<1> DEFINE t == now - lag
           u == now - lag + off
<1>2. t \in Nat /\ 2048 * 604800 <= t /\ t < 3072 * 604800
      BY Sent, SMTT(30) DEF IInv
<1>3. u \in Nat /\ -302400 < u - t /\ u - t < 302400 /\ u < AfterEra
  <2> HIDE DEF t
  <2>1. u = t + off
        BY DEF t
  <2> QED BY <1>2, <2>1, Toe, SMTT(30)
<1>4. Exact(D1Times(t, u), t, u)
  <2> HIDE DEF t, u
  <2> QED BY <1>2, <1>3, D1Exact, SMTT(30)
<1>5. EphemOK'
  <2>1. ephem' = Ephem("D1", D1Times(t, u), t, u)
        BY <1>1, SMTT(30) DEF Yields
  <2>2. t \in Nat /\ u \in Nat /\ u < AfterEra /\ Exact(D1Times(t, u), t, u)
        BY <1>2, <1>3, <1>4, SMTT(30)
  <2> HIDE DEF t, u
  <2>3. "D1" \in Systems
        BY Zenon DEF Systems
  <2> QED BY <2>1, <2>2, <2>3, YieldsExact, Zenon
<1>6. ClockOK'
      BY <1>1, <1>4, ReferenceSet, SMTT(30) DEF IInv, Exact
<1>7. PvtOK'
      BY <1>1, YieldsNoPvt DEF Yields
<1> QED BY <1>5, <1>6, <1>7 DEF IInv

LEMMA D2Step == IInv /\ DecodeD2 => IInv'
<1> SUFFICES ASSUME IInv, DecodeD2 PROVE IInv'
    OBVIOUS
<1>1. PICK lag \in Lags, off \in Offsets :
        /\ Yields(Ephem("D2", D2Times(now - lag, now - lag + off), now - lag, now - lag + off), NoPvt)
        /\ curr_time' = D2Times(now - lag, now - lag + off).ttr
        /\ now' = now
      BY Zenon DEF DecodeD2
<1> DEFINE t == now - lag
           u == now - lag + off
<1>2. t \in Nat /\ 2048 * 604800 <= t /\ t < 3072 * 604800
      BY Sent, SMTT(30) DEF IInv
<1>3. u \in Nat /\ -302400 < u - t /\ u - t < 302400 /\ u < AfterEra
  <2> HIDE DEF t
  <2>1. u = t + off
        BY DEF t
  <2> QED BY <1>2, <2>1, Toe, SMTT(30)
<1> DEFINE e == D2Times(t, u)
<1>4. e.ttr = t /\ e.toe \in Int /\ (WeekOf(t - 14) = WeekOf(u - 14) => e.toe = u)
  <2> HIDE DEF t, u
  <2> QED BY <1>2, <1>3, D2Exact, SMTT(30)
<1>5. EphemOK'
  <2>1. ephem' = Ephem("D2", e, t, u)
        BY <1>1, SMTT(30) DEF Yields
  <2> HIDE DEF t, u, e
  <2>2. ephem' = [sys |-> "D2", ttr |-> t, toe |-> e.toe, sent |-> t, at |-> u]
        BY <1>4, <2>1, SMTT(30) DEF Ephem
  <2>3. ephem' \in Ephems
        BY <1>2, <1>3, <1>4, <2>2, SMTT(30) DEF Ephems, Systems
  <2>4. /\ ephem.ttr' = t /\ ephem.sent' = t /\ ephem.toe' = e.toe /\ ephem.at' = u
        /\ ephem.sys' = "D2"
        BY <2>2, SMTT(30)
  <2> QED BY <1>3, <1>4, <2>3, <2>4, SMTT(30) DEF EphemOK, TtrIsTransmitted, ToeIsTransmitted
<1>6. ClockOK'
      BY <1>1, <1>4, ReferenceSet, SMTT(30) DEF IInv
<1>7. PvtOK'
      BY <1>1, YieldsNoPvt DEF Yields
<1> QED BY <1>5, <1>6, <1>7 DEF IInv

LEMMA PvtStep == IInv /\ ParsePvt => IInv'
<1> SUFFICES ASSUME IInv, ParsePvt PROVE IInv'
    OBVIOUS
<1>1. MaxGap \in Nat /\ MaxGap < 43200
      BY Assumed, SMTT(30)
<1>2. PvtTime(TowOf(now)) = now
  <2>1. now \in Int /\ curr_time \in Int /\ -302400 < now - curr_time /\ now - curr_time < 302400
        BY <1>1, SMTT(30) DEF IInv, ClockOK, ParsePvt
  <2> QED BY <2>1, PvtExact, SMTT(30)
<1>3. PvtOK'
  <2>1. pvt' = [time |-> now, sent |-> now]
        BY <1>2, SMTT(30) DEF ParsePvt, Yields
  <2>2. now \in Nat
        BY SMTT(30) DEF IInv, ClockOK
  <2>3. pvt' \in [time : Int, sent : Nat] /\ pvt.time' = pvt.sent'
        BY <2>1, <2>2, SMTT(30)
  <2> QED BY <2>3, SMTT(30) DEF PvtOK, PvtTimeIsTrue
<1>4. ClockOK'
      BY SMTT(30) DEF IInv, ClockOK, ParsePvt
<1>5. EphemOK'
      BY YieldsNothing DEF ParsePvt, Yields
<1> QED BY <1>3, <1>4, <1>5 DEF IInv

LEMMA IInvInvariant == Spec => []IInv
<1>1. ASSUME IInv, UNCHANGED vars PROVE IInv'
  <2>1. now' = now /\ curr_time' = curr_time /\ ephem' = ephem /\ pvt' = pvt
        BY <1>1, Zenon DEF vars
  <2>2. ClockOK'
        BY <1>1, <2>1, SMTT(30) DEF IInv, ClockOK
  <2>3. EphemOK'
        BY <1>1, <2>1, SMTT(30) DEF IInv, EphemOK, TtrIsTransmitted, ToeIsTransmitted
  <2>4. PvtOK'
        BY <1>1, <2>1, SMTT(30) DEF IInv, PvtOK, PvtTimeIsTrue
  <2> QED BY <2>2, <2>3, <2>4 DEF IInv
<1>2. IInv /\ [Next]_vars => IInv'
      BY <1>1, TickStep, MeasStep, GpsStep, GalStep, D1Step, D2Step, PvtStep DEF Next
<1> QED BY InitIInv, <1>2, PTL DEF Spec

-----------------------------------------------------------------------------
(* Types are kept, with every time within the era. *)
THEOREM TypeCorrect == Spec => []TypeOK
<1>1. IInv => TypeOK
  <2> SUFFICES ASSUME IInv PROVE TypeOK
      OBVIOUS
  <2>1. now \in 0 .. Horizon /\ (curr_time = Unset \/ curr_time \in 0 .. Horizon)
        BY Assumed, SMTT(30) DEF IInv, ClockOK, SecPerWeek
  <2> QED BY <2>1, Zenon DEF IInv, EphemOK, PvtOK, TypeOK
<1> QED BY <1>1, IInvInvariant, PTL

(* Whichever of the five functions set curr_time last, it is neither ahead *)
(* nor older than the receiver lets it get.                                *)
THEOREM ReferenceFreshHolds == Spec => []ReferenceFresh
<1>1. IInv => ReferenceFresh
      BY Assumed, SMTT(30) DEF IInv, ClockOK, ReferenceFresh
<1> QED BY <1>1, IInvInvariant, PTL

(* For every time of the era, every age and every offset an ephemeris gets *)
(* the ttr with which it was sent.                                         *)
THEOREM TtrIsTransmittedHolds == Spec => []TtrIsTransmitted
<1>1. IInv => TtrIsTransmitted
      BY DEF IInv, EphemOK
<1> QED BY <1>1, IInvInvariant, PTL

(* So it is with the toe, in every week and on either side of its end; for *)
(* D2 only within a week.                                                  *)
THEOREM ToeIsTransmittedHolds == Spec => []ToeIsTransmitted
<1>1. IInv => ToeIsTransmitted
      BY DEF IInv, EphemOK
<1> QED BY <1>1, IInvInvariant, PTL

(* And a solution has the week in which it was computed.                   *)
THEOREM PvtTimeIsTrueHolds == Spec => []PvtTimeIsTrue
<1>1. IInv => PvtTimeIsTrue
      BY DEF IInv, PvtOK
<1> QED BY <1>1, IInvInvariant, PTL

-----------------------------------------------------------------------------
(* TimeRecords *)

(* Every step with its message is a step of TimeResolution or leaves its   *)
(* state alone: what is published depends on what is decoded, never the    *)
(* other way round.                                                        *)
THEOREM RecordsImplementTimes == RecordSpec => Spec
<1>1. RecordInit => Init
      BY DEF RecordInit
<1>2. [RecordNext]_recordVars => [Next]_vars
      BY Zenon DEF RecordNext, recordVars, Next, TimePasses, PublishEphemeris,
                   PublishObservations, PublishPvt, PublishTimePulse
<1> QED BY <1>1, <1>2, PTL DEF RecordSpec, Spec

-----------------------------------------------------------------------------
(* A time goes through the fields of a message unchanged. *)
LEMMA StampOfTime ==
  ASSUME NEW t \in Int
  PROVE  TimeOf(Stamp(t)) = t
<1>1. gpst2time(WeekOf(t), TowOf(t)) = t
      BY Split, SMTT(30) DEF gpst2time, SecPerWeek
<1> QED BY <1>1 DEF TimeOf, Stamp

(* the ttr of a file: that of BeiDou is early *)
TtrInFile(sys, t) == IF IsBeiDou(sys) THEN t - 14 ELSE t

(* What the reader of a navigation file makes of ttr and toe. *)
LEMMA NavTimes ==
  ASSUME NEW sys, NEW t \in Int, NEW u \in Int
  PROVE  /\ RinexToe(NavRecord(sys, TRUE, t, u)) = u
         /\ RinexTtr(NavRecord(sys, TRUE, t, u)) = TtrInFile(sys, t)
<1> DEFINE rec == NavRecord(sys, TRUE, t, u)
<1>1. CASE IsBeiDou(sys)
  <2>1. u - 14 \in Int
        OBVIOUS
  <2>2. /\ WeekOf(u - 14) \in Int /\ TowOf(u - 14) \in Int
        /\ u - 14 = 604800 * WeekOf(u - 14) + TowOf(u - 14)
        BY <2>1, Split
  <2>3. /\ rec.sys = sys /\ rec.week = WeekOf(u - 14) - 1356 /\ rec.toe = TowOf(u - 14)
        /\ rec.ttr = t - 14 - 604800 * WeekOf(u - 14)
        BY <1>1 DEF NavRecord, SecPerWeek
  <2> HIDE DEF rec
  <2>4. /\ RinexToe(rec) = bdt2time(rec.week, rec.toe + 14)
        /\ RinexTtr(rec) = bdt2time(rec.week, rec.ttr)
        BY <1>1, <2>3 DEF RinexToe, RinexTtr
  <2>5. RinexToe(rec) = u /\ RinexTtr(rec) = t - 14
        BY <2>2, <2>3, <2>4, SMTT(30) DEF bdt2time, SecPerWeek
  <2> QED BY <1>1, <2>5 DEF rec, TtrInFile
<1>2. CASE ~IsBeiDou(sys)
  <2>1. u - 0 = u /\ t - 0 = t
        OBVIOUS
  <2>2. /\ WeekOf(u) \in Int /\ TowOf(u) \in Int
        /\ u = 604800 * WeekOf(u) + TowOf(u)
        BY Split
  <2>3. /\ rec.sys = sys /\ rec.week = WeekOf(u) /\ rec.toe = TowOf(u)
        /\ rec.ttr = t - 604800 * WeekOf(u)
        BY <1>2, <2>1 DEF NavRecord, SecPerWeek
  <2> HIDE DEF rec
  <2>4. /\ RinexToe(rec) = gpst2time(rec.week, rec.toe)
        /\ RinexTtr(rec) = gpst2time(rec.week, rec.ttr)
        BY <1>2, <2>3 DEF RinexToe, RinexTtr
  <2>5. RinexToe(rec) = u /\ RinexTtr(rec) = t
        BY <2>2, <2>3, <2>4, SMTT(30) DEF gpst2time, SecPerWeek
  <2> QED BY <1>2, <2>5 DEF rec, TtrInFile
<1> QED BY <1>1, <1>2

-----------------------------------------------------------------------------
(* What each kind of message is about: the state of the step that          *)
(* published it, which nothing changes before the next message.            *)
TopicOK ==
  /\ topic.kind = "ephem" => topic = ephem2msg(ephem) /\ Posix(ephem.ttr) # 0
  /\ topic.kind = "pvt" => topic.time = Stamp(pvt.time) /\ pvt.sent = now
  /\ topic.kind = "meas" => topic.time = Stamp(now)
  /\ topic.kind = "pulse" =>
       /\ topic.time = Stamp(Pulse - Behind(topic.base))
       /\ topic.utc_based <=> (topic.base = "UTC")
       /\ topic.base \in TimeBases

LEMMA NothingTopic ==
  /\ Nothing.kind # "ephem" /\ Nothing.kind # "pvt"
  /\ Nothing.kind # "meas" /\ Nothing.kind # "pulse"
BY DEF Nothing

LEMMA PublishEphemerisTopic == PublishEphemeris => TopicOK'
<1> SUFFICES ASSUME PublishEphemeris PROVE TopicOK'
    OBVIOUS
<1>1. \/ topic' = Nothing
      \/ topic' = ephem2msg(ephem') /\ Posix(ephem'.ttr) # 0
      BY DEF PublishEphemeris, Publishes
<1>2. CASE topic' = Nothing
      BY <1>2, NothingTopic DEF TopicOK
<1>3. CASE topic' = ephem2msg(ephem') /\ Posix(ephem'.ttr) # 0
  <2>1. topic.kind' = "ephem"
        BY <1>3 DEF ephem2msg
  <2>2. topic' = ephem2msg(ephem)'
        BY <1>3 DEF ephem2msg, Stamp, WeekOf, TowOf
  <2>3. Posix(ephem.ttr)' # 0
        BY <1>3 DEF Posix, epoch2time, gpst0
  <2> QED BY <2>1, <2>2, <2>3 DEF TopicOK
<1> QED BY <1>1, <1>2, <1>3

LEMMA PublishObservationsTopic == ClockOK /\ PublishObservations => TopicOK'
<1> SUFFICES ASSUME ClockOK, PublishObservations PROVE TopicOK'
    OBVIOUS
<1>1. now \in Int
      BY SMTT(30) DEF ClockOK
<1>2. curr_time' = now /\ now' = now
  <2>1. gpst2time(WeekOf(now), TowOf(now)) = now
        BY <1>1, Split, SMTT(30) DEF gpst2time, SecPerWeek
  <2> QED BY <2>1 DEF PublishObservations, ParseMeas
<1>3. topic' = [kind |-> "meas", time |-> Stamp(now')]
      BY <1>2 DEF PublishObservations, meas2msg
<1>4. topic.kind' = "meas" /\ topic.time' = Stamp(now)'
      BY <1>3 DEF Stamp, WeekOf, TowOf
<1> QED BY <1>4 DEF TopicOK

LEMMA PublishPvtTopic == PublishPvt => TopicOK'
<1> SUFFICES ASSUME PublishPvt PROVE TopicOK'
    OBVIOUS
<1>1. topic' = Nothing \/ topic' = pvt2msg(pvt')
      BY DEF PublishPvt, Publishes
<1>2. CASE topic' = Nothing
      BY <1>2, NothingTopic DEF TopicOK
<1>3. CASE topic' = pvt2msg(pvt')
  <2>1. topic.kind' = "pvt" /\ topic.time' = Stamp(pvt.time)'
        BY <1>3 DEF pvt2msg, Stamp, WeekOf, TowOf
  <2>2. pvt' = [time |-> PvtTime(TowOf(now)), sent |-> now] /\ now' = now
        BY DEF PublishPvt, ParsePvt, Yields
  <2>3. pvt.sent' = now'
        BY <2>2
  <2> QED BY <2>1, <2>3 DEF TopicOK
<1> QED BY <1>1, <1>2, <1>3

LEMMA PublishTimePulseTopic == ClockOK /\ PublishTimePulse => TopicOK'
<1> SUFFICES ASSUME ClockOK, PublishTimePulse PROVE TopicOK'
    OBVIOUS
<1>1. now \in Int /\ Pulse \in Int /\ now' = now
      BY SMTT(30) DEF ClockOK, PublishTimePulse, vars, Pulse
<1>2. PICK base \in TimeBases, refInfo \in 0 .. 15 :
        Publishes(parse_time_pulse(TimTp(base, refInfo)).time,
                  tp_info2msg(parse_time_pulse(TimTp(base, refInfo)), base))
      BY DEF PublishTimePulse, References
<1> DEFINE m == TimTp(base, refInfo)
           p == parse_time_pulse(m)
<1>3. Behind(base) \in Int
      BY DEF Behind
<1>4. p.time = Pulse - Behind(base) /\ p.utc_based = (base = "UTC")
  <2>1. p.time = TimeOf(m.stamp) /\ p.utc_based = m.utc
        BY DEF parse_time_pulse
  <2>2. m.stamp = Stamp(Pulse - Behind(base)) /\ m.utc = (base = "UTC")
        BY DEF TimTp
  <2>3. Pulse - Behind(base) \in Int
        BY <1>1, <1>3
  <2> HIDE DEF m, p
  <2> QED BY <2>1, <2>2, <2>3, StampOfTime
<1>5. topic' = Nothing \/ topic' = tp_info2msg(p, base)
      BY <1>2 DEF Publishes
<1> HIDE DEF m, p
<1>6. CASE topic' = Nothing
      BY <1>6, NothingTopic DEF TopicOK
<1>7. CASE topic' = tp_info2msg(p, base)
  <2>1. /\ topic.kind' = "pulse" /\ topic.time' = Stamp(Pulse - Behind(base))
        /\ topic.utc_based' = (base = "UTC") /\ topic.base' = base
        BY <1>4, <1>7 DEF tp_info2msg
  <2>2. Stamp(Pulse - Behind(base)) = Stamp(Pulse - Behind(topic.base))'
        BY <1>1, <2>1 DEF Stamp, WeekOf, TowOf, Pulse, Behind
  <2> QED BY <2>1, <2>2 DEF TopicOK
<1> QED BY <1>5, <1>6, <1>7

LEMMA TopicOKInvariant == RecordSpec => []TopicOK
<1>1. RecordInit => TopicOK
      BY NothingTopic DEF RecordInit, TopicOK
<1>2. ClockOK /\ TopicOK /\ [RecordNext]_recordVars => TopicOK'
  <2> SUFFICES ASSUME ClockOK, TopicOK, [RecordNext]_recordVars PROVE TopicOK'
      OBVIOUS
  <2>1. CASE TimePasses
        BY <2>1, NothingTopic DEF TimePasses, TopicOK
  <2>2. CASE UNCHANGED recordVars
    <3>1. topic' = topic /\ ephem' = ephem /\ pvt' = pvt /\ now' = now
          BY <2>2 DEF recordVars, vars
    <3> QED BY <3>1 DEF TopicOK, ephem2msg, Stamp, WeekOf, TowOf, Posix, epoch2time, gpst0, Pulse, Behind
  <2> QED BY <2>1, <2>2, PublishEphemerisTopic, PublishObservationsTopic, PublishPvtTopic,
             PublishTimePulseTopic DEF RecordNext
<1>3. IInv => ClockOK
      BY DEF IInv
<1> QED BY <1>1, <1>2, <1>3, RecordsImplementTimes, IInvInvariant, PTL DEF RecordSpec

-----------------------------------------------------------------------------
(* the origin of GPS time, and the times the driver works with *)
LEMMA Gpst0 == epoch2time(gpst0) = 315964800
<1> DEFINE ep == gpst0
<1>1. /\ ep.year = 1980 /\ ep.month = 1 /\ ep.day = 6
      /\ ep.hour = 0 /\ ep.min = 0 /\ ep.sec = 0
      BY SMTT(30) DEF gpst0, Date
<1> HIDE DEF ep
<1>2. epoch2time(ep) = ((1980 - 1970) * 365 + ((1980 - 1969) \div 4) + doy[1] + 6 - 2) * 86400
      BY <1>1, DoyValues, SMTT(30) DEF epoch2time, SecPerDay
<1>3. epoch2time(ep) = 315964800
      BY <1>2, DoyValues, SMTT(30)
<1> QED BY <1>3, SMTT(30) DEF ep

(* the driver runs after the last leap second and before 2100 *)
LEMMA ClockRange ==
  ASSUME ClockOK
  PROVE  /\ now \in Int /\ Posix(now) \in Int
         /\ Since2017 + 18 <= Posix(now) /\ Posix(now) + 28800 < AfterCalendar
<1>1. now \in Int /\ 2048 * 604800 <= now /\ now < 3072 * 604800
      BY Assumed, SMTT(30) DEF ClockOK, SecPerWeek
<1>2. Posix(now) = 315964800 + now
      BY Gpst0, SMTT(30) DEF Posix
<1> QED BY <1>1, <1>2, SMTT(30) DEF Since2017, AfterCalendar

(* a time of the calendar has its date, and the date its time *)
LEMMA Dated ==
  ASSUME NEW t \in Int, 0 <= t, t < AfterCalendar
  PROVE  IsDateOf(time2epoch(t), t) /\ epoch2time(time2epoch(t)) = t
BY CalendarIsGregorian, SMTT(30)

(* A solution: both dates, and back from the first of them.                *)
LEMMA PvtPublished ==
  ASSUME ClockOK, PvtOK, TopicOK, topic.kind = "pvt"
  PROVE  LET utc == Posix(pvt.sent) - 18
         IN  /\ gnss_ts(topic) = Posix(pvt.sent)
             /\ IsDateOf(GgaTime(pvt.time), utc)
             /\ utc2gpst(epoch2time(GgaTime(pvt.time))) = gnss_ts(topic)
             /\ IsDateOf(SystemTime(pvt.time), utc + UTC_OFFSET * 3600)
<1>1. pvt.time = now /\ pvt.sent = now /\ topic.time = Stamp(now)
      BY SMTT(30) DEF PvtOK, PvtTimeIsTrue, TopicOK
<1>2. /\ now \in Int /\ Posix(now) \in Int
      /\ Since2017 + 18 <= Posix(now) /\ Posix(now) + 28800 < AfterCalendar
      BY ClockRange, SMTT(30)
<1>3. gnss_ts(topic) = Posix(now)
      BY <1>1, <1>2, StampOfTime, SMTT(30) DEF gnss_ts, msg2time
<1> DEFINE gpst == Posix(now)
           utc  == gpst - 18
           host == utc + 28800
<1>4. GgaTime(now) = time2epoch(utc) /\ SystemTime(now) = time2epoch(host)
  <2>1. gpst2utc(gpst) = gpst - 18
        BY <1>2, UtcSince2017, SMTT(30) DEF Since2017
  <2>2. gpst2utc(gpst + 28800) = (gpst + 28800) - 18
        BY <1>2, UtcSince2017, SMTT(30) DEF Since2017
  <2>3. UTC_OFFSET * 3600 = 28800 /\ (gpst + 28800) - 18 = host
        BY <1>2, SMTT(30) DEF UTC_OFFSET
  <2> QED BY <2>1, <2>2, <2>3, SMTT(30) DEF GgaTime, SystemTime
<1>5. /\ utc \in Int /\ 0 <= utc /\ utc < AfterCalendar
      /\ host \in Int /\ 0 <= host /\ host < AfterCalendar
      BY <1>2, SMTT(30) DEF Since2017, AfterCalendar
<1>6. utc2gpst(utc) = gpst
      BY <1>2, UtcSince2017, SMTT(30) DEF Since2017
<1>7. UTC_OFFSET * 3600 = 28800
      BY SMTT(30) DEF UTC_OFFSET
<1> HIDE DEF gpst, utc, host
<1>8. /\ IsDateOf(time2epoch(utc), utc) /\ epoch2time(time2epoch(utc)) = utc
      /\ IsDateOf(time2epoch(host), host)
      BY <1>5, Dated, SMTT(30)
<1> QED BY <1>1, <1>3, <1>4, <1>6, <1>7, <1>8, SMTT(30) DEF gpst, utc, host

(* What stands in the sentence to the caster, in the clock of the host, in *)
(* an observation file and in a time pulse is the time of the receiver:    *)
(* through the week and the tow of a message, the 18 leap seconds and the  *)
(* calendar, for every time of the era.                                    *)
THEOREM PublishedTimesHolds == RecordSpec => []PublishedTimes
<1>1. ASSUME IInv, TopicOK PROVE PublishedTimes
  <2> USE <1>1
  <2>1. ClockOK /\ PvtOK
        BY DEF IInv
  <2>2. now \in Int /\ Posix(now) \in Int /\ Since2017 + 18 <= Posix(now) /\ Posix(now) < AfterCalendar
        BY <2>1, ClockRange, SMTT(30) DEF AfterCalendar
  <2>3. CASE topic.kind = "pvt"
        BY <2>1, <2>3, PvtPublished, SMTT(30) DEF PublishedTimes
  <2>4. CASE topic.kind = "meas"
    <3>1. EpochLine(topic) = time2epoch(Posix(now))
          BY <2>2, <2>4, StampOfTime, SMTT(30) DEF TopicOK, EpochLine, msg2time
    <3>2. 0 <= Posix(now)
          BY <2>2, SMTT(30) DEF Since2017
    <3>3. IsDateOf(EpochLine(topic), Posix(now))
          BY <2>2, <3>1, <3>2, Dated, SMTT(30)
    <3> QED BY <2>4, <3>3, SMTT(30) DEF PublishedTimes
  <2>5. CASE topic.kind = "pulse"
    <3>1. Pulse \in Int /\ Pulse - 18 \in Int /\ Pulse = now + 1
          BY <2>2, SMTT(30) DEF Pulse
    <3>2. Posix(Pulse) = 315964800 + Pulse /\ Posix(now) = 315964800 + now
          BY Gpst0, SMTT(30) DEF Posix, Pulse
    <3>3. CASE topic.base = "UTC"
      <4>1. topic.utc_based /\ topic.time = Stamp(Pulse - 18)
            BY <2>5, <3>3 DEF TopicOK, Behind
      <4>2. Posix(msg2time(topic)) = 315964800 + Pulse - 18
            BY <3>1, <4>1, StampOfTime, Gpst0, SMTT(30) DEF Posix, msg2time
      <4>3. utc2gpst(Posix(msg2time(topic))) = Posix(Pulse)
            BY <2>2, <3>1, <3>2, <4>2, UtcSince2017, SMTT(30) DEF Since2017
      <4> QED BY <2>5, <4>1, <4>3 DEF PublishedTimes
    <3>4. CASE topic.base \in {"GPS", "GAL"}
      <4>1. ~topic.utc_based /\ topic.time = Stamp(Pulse - 0)
            BY <2>5, <3>4 DEF TopicOK, Behind
      <4>2. Posix(msg2time(topic)) = Posix(Pulse)
            BY <3>1, <4>1, StampOfTime, SMTT(30) DEF msg2time
      <4> QED BY <2>5, <4>1, <4>2 DEF PublishedTimes
    <3>5. CASE topic.base \notin {"UTC", "GPS", "GAL"}
          BY <2>5, <3>5 DEF PublishedTimes
    <3> QED BY <3>3, <3>4, <3>5
  <2>6. CASE topic.kind \notin {"pvt", "meas", "pulse"}
        BY <2>6, SMTT(30) DEF PublishedTimes
  <2> QED BY <2>3, <2>4, <2>5, <2>6
<1> QED BY <1>1, RecordsImplementTimes, IInvInvariant, TopicOKInvariant, PTL

-----------------------------------------------------------------------------
(* an ephemeris as the reader of a navigation file gives it *)
FileEphem(sys, t, u) ==
  [ttr |-> TtrInFile(sys, t), toe |-> u, toc |-> u, week |-> WeekOf(u), toe_tow |-> TowOf(u)]

(* The epoch of a record leads back to the toc. *)
LEMMA NavToc ==
  ASSUME NEW sys, NEW t \in Int, NEW u \in Nat, u < AfterEra
  PROVE  RinexToc(NavRecord(sys, TRUE, t, u)) = u
<1> DEFINE rec    == NavRecord(sys, TRUE, t, u)
           behind == IF IsBeiDou(sys) THEN 14 ELSE 0
           epoch  == Posix(u - behind)
<1>1. rec.sys = sys /\ rec.epoch = time2epoch(epoch)
      BY SMTT(30) DEF NavRecord
<1>2. behind \in 0 .. 14
      BY SMTT(30)
<1> HIDE DEF behind
<1>3. epoch = 315964800 + (u - behind)
      BY Gpst0, SMTT(30) DEF Posix
<1>4. epoch \in Int /\ 0 <= epoch /\ epoch < AfterCalendar
      BY <1>2, <1>3, SMTT(30) DEF AfterCalendar, AfterEra
<1> HIDE DEF rec, epoch
<1>5. epoch2time(rec.epoch) = epoch
      BY <1>1, <1>4, Dated, SMTT(30)
<1>6. RinexToc(rec) = epoch - 315964800 + behind
      BY <1>1, <1>5, Gpst0, SMTT(30) DEF RinexToc, behind
<1>7. RinexToc(rec) = u
      BY <1>2, <1>3, <1>6, SMTT(30)
<1> QED BY <1>7, Zenon DEF rec

(* The I/NAV record, or that of another system, is read to its end. *)
LEMMA NavEphem ==
  ASSUME NEW sys, NEW t \in Int, NEW u \in Nat, u < AfterEra
  PROVE  rinex_line2ephem(NavRecord(sys, TRUE, t, u)) = FileEphem(sys, t, u)
<1> DEFINE rec == NavRecord(sys, TRUE, t, u)
<1>0. u \in Int
      OBVIOUS
<1>1. RinexToe(rec) = u /\ RinexTtr(rec) = TtrInFile(sys, t)
      BY <1>0, NavTimes, Zenon
<1>2. RinexToc(rec) = u
      BY NavToc, Zenon
<1>3. rec.sys = sys /\ rec.inav = TRUE
      BY Zenon DEF NavRecord
<1>4. ~IsBeiDou(sys) => rec.week = WeekOf(u) /\ rec.toe = TowOf(u)
      BY SMTT(30) DEF NavRecord
<1> HIDE DEF rec
<1>5. rinex_line2ephem(rec) =
        [ttr |-> RinexTtr(rec), toe |-> RinexToe(rec), toc |-> RinexToc(rec),
         week    |-> IF IsBeiDou(sys) THEN WeekOf(RinexToe(rec)) ELSE rec.week,
         toe_tow |-> IF IsBeiDou(sys) THEN TowOf(RinexToe(rec)) ELSE rec.toe]
      BY <1>3, Zenon DEF rinex_line2ephem
<1>6. rinex_line2ephem(rec) = FileEphem(sys, t, u)
      BY <1>1, <1>2, <1>4, <1>5, SMTT(30) DEF FileEphem
<1> QED BY <1>6, Zenon DEF rec

(* the F/NAV record of a Galileo satellite *)
LEMMA FnavSkipped ==
  ASSUME NEW t, NEW u
  PROVE  Posix(rinex_line2ephem(NavRecord("GAL", FALSE, t, u)).ttr) = 0
<1> DEFINE rec == NavRecord("GAL", FALSE, t, u)
<1>1. rec.sys = "GAL" /\ rec.inav = FALSE
      BY Zenon DEF NavRecord
<1> HIDE DEF rec
<1>2. rinex_line2ephem(rec).ttr = Unset
      BY <1>1, Zenon DEF rinex_line2ephem
<1>3. Posix(rinex_line2ephem(rec).ttr) = 0
      BY <1>2, Gpst0, SMTT(30) DEF Posix, Unset
<1> QED BY <1>3, Zenon DEF rec

(* the ephemerides taken from a file with the records of one *)
FileRecords(sys, t, u) == {NavRecord(sys, inav, t, u) : inav \in {TRUE, sys # "GAL"}}

LEMMA OneFromFile ==
  ASSUME NEW sys, NEW t \in Nat, NEW u \in Nat, u < AfterEra
  PROVE  rinex2ephems(FileRecords(sys, t, u)) = {FileEphem(sys, t, u)}
<1> DEFINE rec  == NavRecord(sys, TRUE, t, u)
           e    == FileEphem(sys, t, u)
           recs == FileRecords(sys, t, u)
<1>0. t \in Int
      OBVIOUS
<1>1. rinex_line2ephem(rec) = e
      BY <1>0, NavEphem, Zenon
<1>2. Posix(e.ttr) # 0
  <2>1. e.ttr = TtrInFile(sys, t)
        BY DEF FileEphem
  <2>2. e.ttr \in Int /\ -14 <= e.ttr
        BY <2>1, SMTT(30) DEF TtrInFile
  <2> QED BY <2>2, Gpst0, SMTT(30) DEF Posix
<1>3. rec \in recs
      BY Zenon DEF FileRecords
<1>4. ASSUME NEW r \in recs, r # rec PROVE Posix(rinex_line2ephem(r).ttr) = 0
  <2>1. PICK inav \in {TRUE, sys # "GAL"} : r = NavRecord(sys, inav, t, u)
        BY <1>4, Zenon DEF FileRecords
  <2>2. inav = FALSE /\ sys = "GAL"
        BY <1>4, <2>1, Zenon
  <2> QED BY <2>1, <2>2, FnavSkipped, Zenon
<1> HIDE DEF rec, e, recs
<1>5. \A f : f \in rinex2ephems(recs) <=> f = e
      BY <1>1, <1>2, <1>3, <1>4, Zenon DEF rinex2ephems
<1> QED BY <1>5, Zenon DEF e, recs

(* Whoever takes an ephemeris from the topic of the driver and whoever     *)
(* takes it from a navigation file computes with the same ttr (but for the *)
(* 14 seconds of BeiDou), toe, toc, week and tow, for every time of the    *)
(* era and every toe less than half a week away; but for D2 beyond the end *)
(* of a week.  And a file gives one ephemeris, whatever F/NAV record of    *)
(* Galileo stands beside the I/NAV record.                                 *)
THEOREM SourcesAgreeHolds == RecordSpec => []SourcesAgree
<1>1. ASSUME IInv, TopicOK, topic.kind = "ephem" PROVE SourcesAgree
  <2> DEFINE sys  == ephem.sys
             t    == ephem.sent
             u    == ephem.at
             same == msg2ephem(topic)
             toeKnownWrong == sys = "D2" /\ WeekOf(t - 14) # WeekOf(u - 14)
             e    == FileEphem(sys, t, u)
             recs == FileRecords(sys, t, u)
  <2>1. /\ t \in Nat /\ u \in Nat /\ u < AfterEra /\ ephem.ttr = t /\ ephem.toe \in Int
        /\ ephem.toe = u \/ toeKnownWrong
        BY <1>1, SMTT(30) DEF IInv, EphemOK, Ephems, TtrIsTransmitted, ToeIsTransmitted
  <2>2. same = [ttr |-> t, toe |-> ephem.toe, toc |-> ephem.toe,
                week |-> WeekOf(ephem.toe), toe_tow |-> TowOf(ephem.toe)]
    <3>1. topic = ephem2msg(ephem)
          BY <1>1 DEF TopicOK
    <3>2. TimeOf(Stamp(ephem.ttr)) = t /\ TimeOf(Stamp(ephem.toe)) = ephem.toe
          BY <2>1, StampOfTime, SMTT(30)
    <3> QED BY <3>1, <3>2, SMTT(30) DEF ephem2msg, msg2ephem
  <2>3. rinex2ephems(recs) = {e}
    <3> HIDE DEF sys, t, u
    <3> QED BY <2>1, OneFromFile, SMTT(30)
  <2>4. Cardinality(rinex2ephems(recs)) = 1
        BY <2>3, FS_Singleton, Zenon
  <2>5. e.ttr = IF IsBeiDou(sys) THEN same.ttr - 14 ELSE same.ttr
        BY <2>2, SMTT(30) DEF FileEphem, TtrInFile
  <2>6. toeKnownWrong \/ [e EXCEPT !.ttr = same.ttr] = same
    <3>1. [e EXCEPT !.ttr = t] =
            [ttr |-> t, toe |-> u, toc |-> u, week |-> WeekOf(u), toe_tow |-> TowOf(u)]
          BY SMTT(30) DEF FileEphem
    <3>2. same.ttr = t
          BY <2>2
    <3> QED BY <2>1, <2>2, <3>1, <3>2, Zenon
  <2>7. gpst2time(e.week, e.toe_tow) = e.toe /\ e.toc = e.toe
    <3>1. gpst2time(WeekOf(u), TowOf(u)) = u
      <4>1. u \in Int
            BY <2>1, SMTT(30)
      <4> HIDE DEF u
      <4> QED BY <4>1, StampOfTime DEF TimeOf, Stamp
    <3> QED BY <3>1 DEF FileEphem
  <2> HIDE DEF e, same, toeKnownWrong
  <2>8. /\ Cardinality(rinex2ephems(recs)) = 1
        /\ \A f \in rinex2ephems(recs) :
             /\ f.ttr = IF IsBeiDou(sys) THEN same.ttr - 14 ELSE same.ttr
             /\ toeKnownWrong \/ [f EXCEPT !.ttr = same.ttr] = same
             /\ gpst2time(f.week, f.toe_tow) = f.toe /\ f.toc = f.toe
        BY <2>3, <2>4, <2>5, <2>6, <2>7, Zenon
  <2> QED BY <2>8, Zenon DEF SourcesAgree, FileRecords, same, toeKnownWrong
<1>2. topic.kind # "ephem" => SourcesAgree
      BY DEF SourcesAgree
<1>3. IInv /\ TopicOK => SourcesAgree
      BY <1>1, <1>2, Zenon
<1> QED BY <1>3, RecordsImplementTimes, IInvInvariant, TopicOKInvariant, PTL
=============================================================================
