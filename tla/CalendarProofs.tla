---------------------------- MODULE CalendarProofs ----------------------------
(* The calendar functions tell the calendar on the wall: for every date,     *)
(* every second of it and all lengths of minute, hour and day, the functions *)
(* of Calendar and CalendarPeriods proved here say of a moment what          *)
(* CivilCalendar says of it.                                                 *)
(*                                                                           *)
(* The argument: dates are counted by eras of 400 years and by tables        *)
(* (DayFormula), which is the count of the calendar (DaysAreCounted). From   *)
(* the invariant of the wall calendar, CivilInv, a moment is so many whole   *)
(* days and a second, and division by the units takes it apart again         *)
(* (Quotients, FloorQuotients, TruncQuotients). The legacy functions count   *)
(* back from MAX_YEAR by cycles of years: CyclesAddUp says what a cycle is,  *)
(* CycleDigits that taking off whole cycles finds their numbers. The first   *)
(* and last moments of periods are floors (FloorsAreQuotients), workdays are *)
(* days of a finite set counted in their order (DaysInOrder), and the week   *)
(* of a day is found by its Thursday, a whole number of weeks from           *)
(* 1970-01-01 (IsoWeekdays, FirstThursdays).                                 *)
EXTENDS CalendarWalk, FastDateProofs, FiniteSetTheorems
-----------------------------------------------------------------------------
(* Division                                                                *)

\* A number given by quotient and remainder is divided into them.
LEMMA Quotients ==
    ASSUME NEW b \in Nat \ {0}, NEW q \in Int, NEW r \in 0 .. b - 1
    PROVE  (q * b + r) \div b = q /\ (q * b + r) % b = r
<1> DEFINE a == q * b + r
           k == a \div b
           m == a % b
<1>1. a \in Int /\ r \in Int /\ b \in Int
  OBVIOUS
<1> HIDE DEF a
<1>2. k \in Int /\ m \in 0 .. b - 1 /\ a = b * k + m
  BY <1>1
<1> HIDE DEF k, m
<1>3. (q - k) * b = m - r
  BY <1>1, <1>2 DEF a
<1>4. q = k
  <2> DEFINE e == q - k
  <2>1. e \in Int /\ e * b = m - r /\ m - r < b /\ -b < m - r
    BY <1>1, <1>2, <1>3
  <2> HIDE DEF e
  <2>2. CASE e >= 1
    <3>1. e * b >= b
      BY <2>1, <2>2
    <3> QED
      BY <2>1, <3>1
  <2>3. CASE e <= -1
    <3>1. e * b <= -b
      BY <2>1, <2>3
    <3> QED
      BY <2>1, <3>1
  <2>4. e = 0
    BY <2>1, <2>2, <2>3
  <2> QED
    BY <1>2, <2>4 DEF e
<1>5. m = r
  BY <1>1, <1>2, <1>3, <1>4
<1> QED
  BY <1>4, <1>5 DEF k, m, a

\* Division towards zero, of a number given by quotient and remainder.
LEMMA TruncQuotients ==
    ASSUME NEW b \in Nat \ {0}, NEW q \in Int, NEW r \in 0 .. b - 1
    PROVE  /\ q * b + r >= 0 => TruncDiv(q * b + r, b) = q /\ TruncMod(q * b + r, b) = r
           /\ q * b + r < 0 /\ r = 0 => TruncDiv(q * b + r, b) = q /\ TruncMod(q * b + r, b) = 0
           /\ q * b + r < 0 /\ r # 0 => TruncDiv(q * b + r, b) = q + 1 /\ TruncMod(q * b + r, b) = r - b
<1> DEFINE a == q * b + r
<1>1. a \in Int /\ a = q * b + r /\ a = b * q + r
  OBVIOUS
<1> HIDE DEF a
<1>2. ASSUME a >= 0 PROVE TruncDiv(a, b) = q /\ TruncMod(a, b) = r
  <2>1. a \div b = q
    BY Quotients DEF a
  <2>2. TruncDiv(a, b) = q
    BY <1>2, <2>1 DEF TruncDiv
  <2> QED
    BY <1>1, <2>2 DEF TruncMod
<1>3. ASSUME a < 0, r = 0 PROVE TruncDiv(a, b) = q /\ TruncMod(a, b) = 0
  <2>1. -a = (-q) * b + 0 /\ -q \in Int /\ 0 \in 0 .. b - 1
    BY <1>1, <1>3
  <2>2. (-a) \div b = -q
    BY <2>1, Quotients
  <2>3. TruncDiv(a, b) = q
    BY <1>1, <1>3, <2>2 DEF TruncDiv
  <2> QED
    BY <1>1, <1>3, <2>3 DEF TruncMod
<1>4. ASSUME a < 0, r # 0 PROVE TruncDiv(a, b) = q + 1 /\ TruncMod(a, b) = r - b
  <2>1. -a = (-q - 1) * b + (b - r) /\ -q - 1 \in Int /\ b - r \in 0 .. b - 1
    BY <1>1, <1>4
  <2>2. (-a) \div b = -q - 1
    BY <2>1, Quotients
  <2>3. TruncDiv(a, b) = q + 1
    BY <1>1, <1>4, <2>2 DEF TruncDiv
  <2> QED
    BY <1>1, <1>4, <2>3 DEF TruncMod
<1> QED
  BY <1>2, <1>3, <1>4 DEF a

\* floor_div() and floor_mod() are the division rounded down.
LEMMA FloorQuotients ==
    ASSUME NEW b \in Nat \ {0}, NEW q \in Int, NEW r \in 0 .. b - 1
    PROVE  floor_div(q * b + r, b) = q /\ floor_mod(q * b + r, b) = r
<1> DEFINE a == q * b + r
<1>1. a \in Int
  OBVIOUS
<1>2. /\ a >= 0 => TruncDiv(a, b) = q /\ TruncMod(a, b) = r
      /\ a < 0 /\ r = 0 => TruncDiv(a, b) = q /\ TruncMod(a, b) = 0
      /\ a < 0 /\ r # 0 => TruncDiv(a, b) = q + 1 /\ TruncMod(a, b) = r - b
  BY TruncQuotients
<1> HIDE DEF a
<1>3. floor_div(a, b) = q /\ floor_mod(a, b) = r
  BY <1>1, <1>2 DEF floor_div, floor_mod
<1> QED
  BY <1>3 DEF a

\* An hour has whole minutes and a day whole hours, and none of them is empty.
LEMMA Units ==
    /\ SEC_PER_MIN \in Nat \ {0} /\ SEC_PER_HOUR \in Nat \ {0} /\ SEC_PER_DAY \in Nat \ {0}
    /\ SEC_PER_HOUR = MIN_PER_HOUR * SEC_PER_MIN
    /\ SEC_PER_DAY = HOURS_PER_DAY * SEC_PER_HOUR
  BY UnitsAssumption DEF SEC_PER_HOUR, SEC_PER_DAY

\* Whole units of n of a day are no more than there are.
LEMMA WholeUnits ==
    ASSUME NEW u \in Nat \ {0}, NEW n \in Nat \ {0}, NEW t \in 0 .. n * u - 1
    PROVE  t \div u \in 0 .. n - 1 /\ t % u \in 0 .. u - 1 /\ t = u * (t \div u) + (t % u)
<1>1. t \div u \in Int /\ t % u \in 0 .. u - 1 /\ t = u * (t \div u) + (t % u) /\ t \in Nat
  <2>1. t \in Nat
    OBVIOUS
  <2> QED
    BY <2>1
<1> DEFINE k == t \div u
<1> HIDE DEF k
<1>2. k \in Int /\ u * k <= t /\ t < n * u /\ t < u * k + u
  BY <1>1 DEF k
<1>3. k >= 0
  BY <1>1, <1>2
<1>4. k < n
  <2> SUFFICES ASSUME k >= n PROVE FALSE
    BY <1>2
  <2>1. u * k >= u * n
    BY <1>2
  <2> QED
    BY <1>2, <2>1
<1> QED
  BY <1>1, <1>2, <1>3, <1>4 DEF k

\* A second of the day is that of its hour, minute and second.
ClockOf(s, h, mi, x) ==
    /\ h \in 0 .. HOURS_PER_DAY - 1
    /\ mi \in 0 .. MIN_PER_HOUR - 1
    /\ x \in 0 .. SEC_PER_MIN - 1
    /\ s = h * SEC_PER_HOUR + mi * SEC_PER_MIN + x

\* Division takes it apart.
LEMMA ClockParts ==
    ASSUME NEW s \in 0 .. SEC_PER_DAY - 1
    PROVE  ClockOf(s, s \div SEC_PER_HOUR, (s % SEC_PER_HOUR) \div SEC_PER_MIN, s % SEC_PER_MIN)
<1> DEFINE h == s \div SEC_PER_HOUR
           mi == (s % SEC_PER_HOUR) \div SEC_PER_MIN
           x == s % SEC_PER_MIN
<1> DEFINE rest == s % SEC_PER_HOUR
<1>1. /\ SEC_PER_HOUR \in Nat \ {0} /\ SEC_PER_MIN \in Nat \ {0}
      /\ HOURS_PER_DAY \in Nat \ {0} /\ MIN_PER_HOUR \in Nat \ {0}
  BY Units, UnitsAssumption
<1>2. s \in 0 .. HOURS_PER_DAY * SEC_PER_HOUR - 1
  BY Units
<1>3. h \in 0 .. HOURS_PER_DAY - 1 /\ rest \in 0 .. SEC_PER_HOUR - 1 /\ s = SEC_PER_HOUR * h + rest
  BY <1>1, <1>2, WholeUnits DEF h
<1> HIDE DEF rest
<1>4. rest \in 0 .. MIN_PER_HOUR * SEC_PER_MIN - 1
  BY <1>3, Units
<1>5. rest \div SEC_PER_MIN \in 0 .. MIN_PER_HOUR - 1 /\ rest % SEC_PER_MIN \in 0 .. SEC_PER_MIN - 1
      /\ rest = SEC_PER_MIN * (rest \div SEC_PER_MIN) + (rest % SEC_PER_MIN)
  BY <1>1, <1>4, WholeUnits
<1>6. mi \in 0 .. MIN_PER_HOUR - 1 /\ rest = SEC_PER_MIN * mi + (rest % SEC_PER_MIN)
  BY <1>5 DEF mi, rest
<1> HIDE DEF h, mi, x
<1>7. x = rest % SEC_PER_MIN
  <2> DEFINE q == h * MIN_PER_HOUR + mi
             r == rest % SEC_PER_MIN
  <2>1. /\ q \in Int /\ r \in 0 .. SEC_PER_MIN - 1 /\ h \in Int /\ mi \in Int
        /\ MIN_PER_HOUR \in Int /\ SEC_PER_MIN \in Int
    BY <1>1, <1>3, <1>5, <1>6
  <2>2. SEC_PER_HOUR = MIN_PER_HOUR * SEC_PER_MIN /\ s = SEC_PER_HOUR * h + rest
        /\ rest = SEC_PER_MIN * mi + r
    BY <1>3, <1>6, Units
  <2> HIDE DEF r
  <2>3. s = q * SEC_PER_MIN + r
    BY <2>1, <2>2
  <2>4. (q * SEC_PER_MIN + r) % SEC_PER_MIN = r
    <3> HIDE DEF q
    <3> QED
      BY <1>1, <2>1, Quotients
  <2> QED
    BY <2>3, <2>4 DEF x, r
<1>8. s = h * SEC_PER_HOUR + mi * SEC_PER_MIN + x
  <2>1. h \in Int /\ mi \in Int /\ x \in Int
    BY <1>3, <1>5, <1>6, <1>7
  <2> QED
    BY <1>1, <1>3, <1>6, <1>7, <2>1
<1> QED
  BY <1>3, <1>5, <1>6, <1>7, <1>8 DEF ClockOf, h, mi, x

\* is_leap_year_date() is the Gregorian rule.
LEMMA LeapYears == \A y \in Int : is_leap_year_date(y) <=> IsLeap(y)
  BY DEF is_leap_year_date, IsLeap, TruncMod, TruncDiv

\* num_days_in_month() has the lengths of the months.
LEMMA MonthsAreRight ==
    \A y \in Int, m \in 1..12 : num_days_in_month(y, m) = MonthLength(y, m)
  BY LeapYears DEF num_days_in_month, MonthLength, MONTHS_PER_YEAR, FEB

\* The legacy count of the days of a date is the fast one.
LEMMA LegacyDaysAgree ==
    \A y \in Int, m \in 1..12, d \in Int : legacy_date_to_unix_day(y, m, d) = date_to_unix_day(y, m, d)
  BY DEF legacy_date_to_unix_day, date_to_unix_day, fast_days_from_date, DayOfEra, k_doy_from_march, TruncDiv

\* The days of a year before a month.
DaysBefore(y, m) == IF IsLeap(y) THEN lmos[m] ELSE mos[m]

\* The day of the year, counted month by month, is the one by table.
LEMMA DaysBeforeMonths ==
    \A y \in Int, m \in 1..12, d \in Int :
       DayOfYear(y, m, d) = d + DaysBefore(y, m)
<1> TAKE y \in Int, m \in 1..12, d \in Int
<1> DEFINE ml == [k \in 1..12 |-> MonthLength(y, k)]
           Equation(f) == f = [k \in 1..12 |-> IF k = 1 THEN 0 ELSE f[k - 1] + MonthLength(y, k - 1)]
           sum == [k \in 1..12 |-> IF IsLeap(y) THEN lmos[k] ELSE mos[k]]
           before == CHOOSE f : Equation(f)
<1>1. Equation(sum)
  BY DEF MonthLength, mos, lmos
<1>2. Equation(before)
  BY <1>1
<1>3. \A k \in 1..12 : before[k] = IF k = 1 THEN 0 ELSE before[k - 1] + MonthLength(y, k - 1)
  BY <1>2
<1>4. before[m] = sum[m]
  <2> HIDE DEF before
  <2>1. /\ before[1] = 0
        /\ before[2] = before[1] + MonthLength(y, 1)
        /\ before[3] = before[2] + MonthLength(y, 2)
        /\ before[4] = before[3] + MonthLength(y, 3)
        /\ before[5] = before[4] + MonthLength(y, 4)
        /\ before[6] = before[5] + MonthLength(y, 5)
        /\ before[7] = before[6] + MonthLength(y, 6)
        /\ before[8] = before[7] + MonthLength(y, 7)
        /\ before[9] = before[8] + MonthLength(y, 8)
        /\ before[10] = before[9] + MonthLength(y, 9)
        /\ before[11] = before[10] + MonthLength(y, 10)
        /\ before[12] = before[11] + MonthLength(y, 11)
    BY <1>3
  <2> QED
    BY <2>1 DEF MonthLength, mos, lmos
<1>5. DayOfYear(y, m, d) = d + before[m]
  BY DEF DayOfYear
<1> QED
  BY <1>4, <1>5 DEF DaysBefore

\* date_to_unix_day() counts the days of the calendar, before 1970 and after, and
\* whatever the number of the day.
THEOREM DaysAreCounted ==
    \A y \in Int, m \in 1..12, d \in Int : date_to_unix_day(y, m, d) = DayNumber(y, m, d)
<1> TAKE y \in Int, m \in 1..12, d \in Int
<1>1. DayOfYear(y, m, d) = d + DaysBefore(y, m)
  BY DaysBeforeMonths
<1> QED
  BY <1>1 DEF DaysBefore, DayNumber, LeapYearsBefore, IsLeap, mos, lmos, date_to_unix_day,
              fast_days_from_date, DayOfEra, k_doy_from_march, TruncDiv

\* The days between the first of 1970 and that of a year.
DaysBeforeYear(y) == 365 * (y - 1970) + LeapYearsBefore(y) - LeapYearsBefore(1970)

\* Days before a year and before a month are whole numbers.
LEMMA CountsAreIntegers ==
    /\ \A y \in Int : DaysBeforeYear(y) \in Int
    /\ \A y \in Int, m \in 1..12 : DaysBefore(y, m) \in Int
<1>1. \A y \in Int : DaysBeforeYear(y) \in Int
  BY DEF DaysBeforeYear, LeapYearsBefore
<1>2. \A y \in Int, m \in 1..12 : DaysBefore(y, m) \in Int
  BY DEF DaysBefore, lmos, mos
<1> QED
  BY <1>1, <1>2

\* A year later is as many days later as the year has.
LEMMA YearsAddUp == ASSUME NEW y \in Int PROVE DaysBeforeYear(y + 1) = DaysBeforeYear(y) + YearLength(y)
  BY DEF DaysBeforeYear, LeapYearsBefore, YearLength, IsLeap

\* The same number by whole years and a table.
LEMMA DayFormula ==
    \A y \in Int, m \in 1..12, d \in Int :
       date_to_unix_day(y, m, d) = DaysBeforeYear(y) + DaysBefore(y, m) + d - 1
<1> TAKE y \in Int, m \in 1..12, d \in Int
<1>1. DayOfYear(y, m, d) = d + DaysBefore(y, m)
  BY DaysBeforeMonths
<1>2. DaysBeforeYear(y) \in Int /\ DaysBefore(y, m) \in Int
  BY CountsAreIntegers
<1>3. date_to_unix_day(y, m, d) = DaysBeforeYear(y) + (d + DaysBefore(y, m)) - 1
  BY <1>1, DaysAreCounted DEF DayNumber, DaysBeforeYear
<1> QED
  BY <1>2, <1>3

\* The day after a date is a date, and its number is one more.
LEMMA DaysSucceed ==
    ASSUME NEW y \in Int, NEW m \in 1..12, NEW d \in 1..MonthLength(y, m)
    PROVE  LET n == Successor([year |-> y, month |-> m, day |-> d])
           IN  /\ n.year \in Int /\ n.month \in 1..12 /\ n.day \in 1..MonthLength(n.year, n.month)
               /\ n = [year |-> n.year, month |-> n.month, day |-> n.day]
               /\ date_to_unix_day(n.year, n.month, n.day) = date_to_unix_day(y, m, d) + 1
<1> DEFINE t == [year |-> y, month |-> m, day |-> d]
           n == Successor(t)
<1>1. MonthLength(y, m) \in Nat \ {0} /\ d \in Int
  BY DEF MonthLength
<1>2. CASE d < MonthLength(y, m)
  <2>1. n = [year |-> y, month |-> m, day |-> d + 1]
    BY <1>2 DEF Successor
  <2>2. date_to_unix_day(y, m, d + 1) = date_to_unix_day(y, m, d) + 1
    <3>1. DaysBeforeYear(y) \in Int
      BY CountsAreIntegers
    <3>4. DaysBefore(y, m) \in Int
      BY CountsAreIntegers
    <3>2. date_to_unix_day(y, m, d + 1) = DaysBeforeYear(y) + DaysBefore(y, m) + (d + 1) - 1
      BY <1>1, DayFormula
    <3>3. date_to_unix_day(y, m, d) = DaysBeforeYear(y) + DaysBefore(y, m) + d - 1
      BY <1>1, DayFormula
    <3> QED
      BY <1>1, <3>1, <3>2, <3>3, <3>4
  <2> QED
    BY <1>1, <1>2, <2>1, <2>2
<1>3. CASE d = MonthLength(y, m) /\ m < 12
  <2>1. n = [year |-> y, month |-> m + 1, day |-> 1]
    <3>1. t.year = y /\ t.month = m /\ t.day = d
      OBVIOUS
    <3> HIDE DEF t
    <3>2. n = [t EXCEPT !.day = 1, !.month = t.month + 1]
      BY <1>1, <1>3, <3>1 DEF Successor
    <3> USE DEF t
    <3> QED
      BY <3>2
  <2>2. m + 1 \in 1..12 /\ DaysBefore(y, m + 1) = DaysBefore(y, m) + d
    BY <1>3 DEF DaysBefore, MonthLength, lmos, mos
  <2>3. date_to_unix_day(y, m + 1, 1) = date_to_unix_day(y, m, d) + 1
    <3>1. DaysBeforeYear(y) \in Int
      BY CountsAreIntegers
    <3>2. date_to_unix_day(y, m + 1, 1) = DaysBeforeYear(y) + DaysBefore(y, m + 1) + 1 - 1
      BY <2>2, DayFormula
    <3>3. date_to_unix_day(y, m, d) = DaysBeforeYear(y) + DaysBefore(y, m) + d - 1
      BY <1>1, DayFormula
    <3>4. DaysBefore(y, m) \in Int
      BY CountsAreIntegers
    <3> QED
      BY <1>1, <2>2, <3>1, <3>2, <3>3, <3>4
  <2>4. 1 \in 1..MonthLength(y, m + 1)
    BY <2>2 DEF MonthLength
  <2> QED
    BY <2>1, <2>2, <2>3, <2>4
<1>4. CASE d = MonthLength(y, m) /\ m = 12
  <2>1. n = [year |-> y + 1, month |-> 1, day |-> 1]
    BY <1>4 DEF Successor, MonthLength
  <2>2. DaysBeforeYear(y + 1) = DaysBeforeYear(y) + YearLength(y) /\ DaysBeforeYear(y) \in Int
    BY CountsAreIntegers, YearsAddUp
  <2>3. d = 31 /\ y + 1 \in Int /\ DaysBefore(y + 1, 1) = 0
        /\ DaysBefore(y, 12) + 31 = YearLength(y) /\ YearLength(y) \in Int /\ DaysBefore(y, 12) \in Int
    BY <1>4 DEF MonthLength, DaysBefore, YearLength, lmos, mos
  <2>4. date_to_unix_day(y + 1, 1, 1) = date_to_unix_day(y, 12, 31) + 1
    <3>1. date_to_unix_day(y + 1, 1, 1) = DaysBeforeYear(y + 1) + DaysBefore(y + 1, 1) + 1 - 1
      BY <2>3, DayFormula
    <3>2. date_to_unix_day(y, 12, 31) = DaysBeforeYear(y) + DaysBefore(y, 12) + 31 - 1
      BY DayFormula
    <3> QED
      BY <2>2, <2>3, <3>1, <3>2
  <2>5. 1 \in 1..MonthLength(y + 1, 1)
    BY DEF MonthLength
  <2> QED
    BY <1>4, <2>1, <2>3, <2>4, <2>5
<1> QED
  BY <1>1, <1>2, <1>3, <1>4

\* Days before a date of a year that begins in March, without eras.
LEMMA MarchYears ==
    ASSUME NEW y \in Nat, NEW n \in Int
    PROVE  (y \div 400) * 146097 + ((y - (y \div 400) * 400) * 365 + (y - (y \div 400) * 400) \div 4
              - (y - (y \div 400) * 400) \div 100 + n) = 365 * y + y \div 4 - y \div 100 + y \div 400 + n
  OBVIOUS

\* day_of_week_date(), by Zeller's congruence, is the weekday of the number of the day.
THEOREM WeekdaysByZeller ==
    \A y \in Nat \ {0}, m \in 1..12, d \in 1..31 :
       day_of_week_date(y, m, d) = WeekdayOf(date_to_unix_day(y, m, d))
<1> TAKE y \in Nat \ {0}, m \in 1..12, d \in 1..31
<1> DEFINE a    == IF m <= 2 THEN 1 ELSE 0
           Y    == y - a
           mm   == IF m < 3 THEN m + 9 ELSE m - 3
           leap == Y \div 4 - Y \div 100 + Y \div 400
           zel  == 7000 + d + Y + leap + (31 * (mm + 1)) \div 12
           k    == 52 * Y - 103781 + ((k_doy_from_march[mm + 1] + 2 - (31 * (mm + 1)) \div 12) \div 7)
<1>1. Y \in Nat /\ mm \in 0..11 /\ k_doy_from_march[mm + 1] \in Nat
  BY DEF k_doy_from_march
<1>2. date_to_unix_day(y, m, d) = 365 * Y + leap + k_doy_from_march[mm + 1] + d - 1 - 719468
  <2>1. date_to_unix_day(y, m, d) = (Y \div 400) * 146097 + DayOfEra(Y - (Y \div 400) * 400, mm, d) - 719468
    BY <1>1 DEF date_to_unix_day, fast_days_from_date
  <2> HIDE DEF Y, mm
  <2> QED
    BY <1>1, <2>1, MarchYears DEF DayOfEra
<1>3. day_of_week_date(y, m, d) = zel % 7
  <2>1. TruncDiv(14 - m, 12) = a
    BY DEF TruncDiv
  <2>2. m + 12 * a - 2 = mm + 1
    OBVIOUS
  <2>3. TruncDiv(Y, 4) = Y \div 4 /\ TruncDiv(Y, 100) = Y \div 100 /\ TruncDiv(Y, 400) = Y \div 400
        /\ TruncDiv(31 * (mm + 1), 12) = (31 * (mm + 1)) \div 12
    BY <1>1 DEF TruncDiv
  <2>4. zel \in Nat
    BY <1>1
  <2>5. day_of_week_date(y, m, d) = TruncMod(zel, 7)
    <3>1. day_of_week_date(y, m, d) =
            TruncMod(7000 + d + Y + TruncDiv(Y, 4) - TruncDiv(Y, 100) + TruncDiv(Y, 400)
                       + TruncDiv(31 * (mm + 1), 12), 7)
      <4> HIDE DEF a, mm
      <4> QED
        BY <2>1, <2>2 DEF day_of_week_date, MONTHS_PER_YEAR, DAYS_PER_WEEK
    <3>2. 7000 + d + Y + TruncDiv(Y, 4) - TruncDiv(Y, 100) + TruncDiv(Y, 400) + TruncDiv(31 * (mm + 1), 12) = zel
      BY <1>1, <2>3
    <3> QED
      BY <3>1, <3>2
  <2> HIDE DEF zel
  <2>6. TruncMod(zel, 7) = zel % 7
    BY <2>4 DEF TruncMod, TruncDiv
  <2> QED
    BY <2>5, <2>6
<1>4. (k_doy_from_march[mm + 1] + 2 - (31 * (mm + 1)) \div 12) % 7 = 0
  BY <1>1 DEF k_doy_from_march
<1>5. date_to_unix_day(y, m, d) + 4 = zel + 7 * k /\ zel \in Int /\ k \in Int
  <2> HIDE DEF Y, mm
  <2> DEFINE q == k_doy_from_march[mm + 1]
             z == (31 * (mm + 1)) \div 12
  <2>1. z \in Int /\ q \in Int /\ Y \in Int
    BY <1>1
  <2>2. (q + 2 - z) \div 7 \in Int /\ 7 * ((q + 2 - z) \div 7) = q + 2 - z
    BY <1>4, <2>1
  <2> HIDE DEF q, z
  <2>3. leap \in Int
    BY <2>1
  <2> HIDE DEF leap
  <2> QED
    BY <1>2, <2>1, <2>2, <2>3 DEF q, z
<1> HIDE DEF zel, k
<1>6. (zel + 7 * k) % 7 = zel % 7
  BY <1>5
<1> QED
  BY <1>3, <1>5, <1>6 DEF WeekdayOf
-----------------------------------------------------------------------------
(* The wall calendar                                                       *)

CivilDate == [year : Int, month : 1..12, day : 1..31]

\* The day on the wall, counted from 1 January 1970, and the moment.
today == DayNumber(date.year, date.month, date.day)
moment   == today * SEC_PER_DAY + second

CivilInv ==
    /\ date \in CivilDate /\ date.day <= MonthLength(date.year, date.month)
    /\ today \in Int /\ weekday = WeekdayOf(today)
    /\ second \in 0 .. SEC_PER_DAY - 1

\* The number of a day is an integer.
LEMMA DayNumberType == \A y \in Int, m \in 1..12, d \in Int : DayNumber(y, m, d) \in Int
<1> TAKE y \in Int, m \in 1..12, d \in Int
<1>1. DaysBeforeYear(y) \in Int
  BY CountsAreIntegers
<1>2. DaysBefore(y, m) \in Int
  BY CountsAreIntegers
<1>3. date_to_unix_day(y, m, d) \in Int
  BY <1>1, <1>2, DayFormula
<1> QED
  BY <1>3, DaysAreCounted

\* The calendar begins on a date that exists.
LEMMA CivilInit == Init => CivilInv
<1> SUFFICES ASSUME Init PROVE CivilInv
  OBVIOUS
<1>1. date \in CivilDate
  BY DEF Init, CivilDate
<1>2. today \in Int
  <2>1. date.year \in Int /\ date.month \in 1..12 /\ date.day \in Int
    BY <1>1 DEF CivilDate
  <2> QED
    BY <2>1, DayNumberType DEF today
<1> QED
  BY <1>1, <1>2 DEF Init, CivilInv, today

\* The next day has the next number.
LEMMA NextDayIsCounted ==
    ASSUME CivilInv, NextDay
    PROVE  date' \in CivilDate /\ date'.day <= MonthLength(date'.year, date'.month) /\ today' = today + 1
<1> DEFINE y == date.year
           m == date.month
           d == date.day
           n == Successor([year |-> y, month |-> m, day |-> d])
<1>1. date = [year |-> y, month |-> m, day |-> d] /\ y \in Int /\ m \in 1..12 /\ d \in 1..31
  BY DEF CivilInv, CivilDate
<1>2. d \in 1 .. MonthLength(y, m)
  <2>1. MonthLength(y, m) \in Int
    BY <1>1 DEF MonthLength
  <2> QED
    BY <1>1, <2>1 DEF CivilInv
<1>3. /\ n.year \in Int /\ n.month \in 1..12 /\ n.day \in 1..MonthLength(n.year, n.month)
      /\ n = [year |-> n.year, month |-> n.month, day |-> n.day]
      /\ date_to_unix_day(n.year, n.month, n.day) = date_to_unix_day(y, m, d) + 1
  BY <1>1, <1>2, DaysSucceed
<1>4. date' = n
  BY <1>1 DEF NextDay
<1> HIDE DEF n, y, m, d
<1>5. MonthLength(n.year, n.month) \in 28..31
  BY <1>3 DEF MonthLength
<1>6. n.day \in 1..31 /\ n.day <= MonthLength(n.year, n.month)
  BY <1>3, <1>5
<1>7. n \in CivilDate
  BY <1>3, <1>6 DEF CivilDate
<1>8. date_to_unix_day(y, m, d) = DayNumber(y, m, d)
  BY <1>1, DaysAreCounted
<1>9. n.day \in Int
  BY <1>6
<1>10. date_to_unix_day(n.year, n.month, n.day) = DayNumber(n.year, n.month, n.day)
  BY <1>3, <1>9, DaysAreCounted
<1>11. today' = DayNumber(n.year, n.month, n.day)
  BY <1>4 DEF today
<1> QED
  BY <1>3, <1>4, <1>6, <1>7, <1>8, <1>10, <1>11 DEF today, y, m, d

\* Every second and every day keeps to dates that exist.
LEMMA CivilNext == CivilInv /\ [Next]_civil => CivilInv'
<1> SUFFICES ASSUME CivilInv, [Next]_civil PROVE CivilInv'
  OBVIOUS
<1>1. CASE NextDay
  <2>1. /\ date' \in CivilDate /\ date'.day <= MonthLength(date'.year, date'.month)
        /\ today' = today + 1 /\ today \in Int
    BY <1>1, NextDayIsCounted DEF CivilInv
  <2>2. weekday' = (weekday + 1) % 7 /\ weekday = (today + 4) % 7
    BY <1>1 DEF NextDay, CivilInv, WeekdayOf
  <2>3. weekday' = WeekdayOf(today')
    <3> HIDE DEF today
    <3> QED
      BY <2>1, <2>2 DEF WeekdayOf
  <2>4. second' \in 0 .. SEC_PER_DAY - 1
    BY <1>1 DEF NextDay
  <2> QED
    BY <2>1, <2>3, <2>4 DEF CivilInv
<1>2. CASE TimePasses
  <2>1. UNCHANGED <<date, weekday>> /\ today' = today
    BY <1>2 DEF TimePasses, today
  <2>2. second' \in 0 .. SEC_PER_DAY - 1
    <3>1. second' \in second + 1 .. SEC_PER_DAY - 1 /\ second \in Nat /\ SEC_PER_DAY \in Int
      BY <1>2, Units DEF TimePasses, CivilInv
    <3> QED
      BY <3>1
  <2> QED
    BY <2>1, <2>2 DEF CivilInv
<1>3. CASE UNCHANGED civil
  BY <1>3 DEF civil, CivilInv, today
<1> QED
  BY <1>1, <1>2, <1>3 DEF Next

\* The invariant of the wall calendar: dates exist and the weekday is the one
\* counted from 1 January 1970.
THEOREM WallCalendar == Spec => []CivilInv
<1>1. CivilInv /\ [Next]_civil => CivilInv'
  BY CivilNext
<1> QED
  BY <1>1, CivilInit, PTL DEF Spec

\* date_to_unix_day() and its legacy form number the days as they go by: the
\* next day has the next number, from year to year, before 1970 and after, and
\* 1 January 1970 is day 0.
DaysAreNumbered ==
    /\ [][NextDay => /\ date_to_unix_day(date.year, date.month, date.day)'
                          = date_to_unix_day(date.year, date.month, date.day) + 1
                     /\ legacy_date_to_unix_day(date.year, date.month, date.day)'
                          = legacy_date_to_unix_day(date.year, date.month, date.day) + 1]_civil
    /\ date_to_unix_day(1970, 1, 1) = 0

\* The functions give today its number.
LEMMA TodayIsNumbered ==
    ASSUME CivilInv
    PROVE  /\ date_to_unix_day(date.year, date.month, date.day) = today
           /\ legacy_date_to_unix_day(date.year, date.month, date.day) = today
<1>1. date.year \in Int /\ date.month \in 1..12 /\ date.day \in Int
  BY DEF CivilInv, CivilDate
<1> QED
  BY <1>1, DaysAreCounted, LegacyDaysAgree DEF today

\* From one day to the next, the fast and the legacy number of the date grow by one.
THEOREM DaysGoBy == Spec => DaysAreNumbered
<1>1. CivilInv /\ CivilInv' /\ [Next]_civil =>
        [NextDay => /\ date_to_unix_day(date.year, date.month, date.day)'
                          = date_to_unix_day(date.year, date.month, date.day) + 1
                    /\ legacy_date_to_unix_day(date.year, date.month, date.day)'
                          = legacy_date_to_unix_day(date.year, date.month, date.day) + 1]_civil
  <2> SUFFICES ASSUME CivilInv, CivilInv', NextDay
               PROVE /\ date_to_unix_day(date.year, date.month, date.day)'
                          = date_to_unix_day(date.year, date.month, date.day) + 1
                     /\ legacy_date_to_unix_day(date.year, date.month, date.day)'
                          = legacy_date_to_unix_day(date.year, date.month, date.day) + 1
    OBVIOUS
  <2>1. today' = today + 1
    BY NextDayIsCounted
  <2>2. /\ date_to_unix_day(date.year, date.month, date.day) = today
        /\ legacy_date_to_unix_day(date.year, date.month, date.day) = today
    BY TodayIsNumbered
  <2>3. /\ date_to_unix_day(date.year, date.month, date.day)' = today'
        /\ legacy_date_to_unix_day(date.year, date.month, date.day)' = today'
    <3>1. date'.year \in Int /\ date'.month \in 1..12 /\ date'.day \in Int
      BY DEF CivilInv, CivilDate
    <3>2. /\ date_to_unix_day(date'.year, date'.month, date'.day) = DayNumber(date'.year, date'.month, date'.day)
          /\ legacy_date_to_unix_day(date'.year, date'.month, date'.day)
               = DayNumber(date'.year, date'.month, date'.day)
      BY <3>1, DaysAreCounted, LegacyDaysAgree
    <3> QED
      BY <3>2 DEF today
  <2> QED
    BY <2>1, <2>2, <2>3
<1>2. date_to_unix_day(1970, 1, 1) = 0
  BY DEF date_to_unix_day, fast_days_from_date, DayOfEra, k_doy_from_march
<1> QED
  BY <1>1, <1>2, WallCalendar, PTL DEF Spec, DaysAreNumbered
-----------------------------------------------------------------------------
(* What a timestamp says of its moment                                     *)

\* The moment of a civil date: the parts of a timestamp, the bounds of its day
\* and of its week, Sunday to Saturday, and its weekday are those of the wall
\* calendar, before 1970 and after.
MomentIsTold ==
    /\ split_unix_day(moment) = [days |-> today, sec_of_day |-> second]
    /\ weekday_of_ts(moment) = weekday
    /\ start_of_day(moment) = unix_day_to_ts(today)
    /\ end_of_day(moment) = end_of_day_from_unix_day(today)
    /\ start_of_next_day(moment, 1) = start_of_next_day_from_unix_day(today)
    /\ start_of_week(moment) = (today - weekday) * SEC_PER_DAY
    /\ end_of_week(moment) = (today - weekday + 7) * SEC_PER_DAY - 1
    /\ start_of_saturday(moment) = (today - weekday + 6) * SEC_PER_DAY
    /\ moment >= 0 => is_workday(moment) = (weekday \in 1..5)

\* A moment is taken apart into today and its second.
LEMMA MomentInDays ==
    ASSUME CivilInv
    PROVE  /\ floor_div(moment, SEC_PER_DAY) = today /\ floor_mod(moment, SEC_PER_DAY) = second
           /\ moment \in Int /\ today \in Int /\ second \in Int
           /\ SEC_PER_DAY \in Int /\ today * SEC_PER_DAY \in Int /\ moment = today * SEC_PER_DAY + second
<1>1. SEC_PER_DAY \in Nat \ {0} /\ today \in Int /\ second \in 0 .. SEC_PER_DAY - 1
  BY Units DEF CivilInv
<1> HIDE DEF today
<1>2. floor_div(today * SEC_PER_DAY + second, SEC_PER_DAY) = today
      /\ floor_mod(today * SEC_PER_DAY + second, SEC_PER_DAY) = second
  BY <1>1, FloorQuotients
<1>3. today * SEC_PER_DAY \in Int
  BY <1>1
<1> QED
  BY <1>1, <1>2, <1>3 DEF moment

\* Division towards zero tells the same day and second, once it is corrected.
LEMMA SplitByFloors ==
    ASSUME NEW q \in Int, NEW r \in 0 .. SEC_PER_DAY - 1
    PROVE  split_unix_day(q * SEC_PER_DAY + r) = [days |-> q, sec_of_day |-> r]
<1> DEFINE a == q * SEC_PER_DAY + r
<1>1. SEC_PER_DAY \in Nat \ {0}
  BY Units
<1>2. a \in Int
  BY <1>1
<1>3. /\ a >= 0 => TruncDiv(a, SEC_PER_DAY) = q /\ TruncMod(a, SEC_PER_DAY) = r
      /\ a < 0 /\ r = 0 => TruncDiv(a, SEC_PER_DAY) = q /\ TruncMod(a, SEC_PER_DAY) = 0
      /\ a < 0 /\ r # 0 => TruncDiv(a, SEC_PER_DAY) = q + 1 /\ TruncMod(a, SEC_PER_DAY) = r - SEC_PER_DAY
  BY <1>1, TruncQuotients
<1> HIDE DEF a
<1> DEFINE k == TruncDiv(a, SEC_PER_DAY)
           m == TruncMod(a, SEC_PER_DAY)
<1>4. split_unix_day(a) = IF m < 0 THEN [days |-> k - 1, sec_of_day |-> m + SEC_PER_DAY]
                          ELSE [days |-> k, sec_of_day |-> m]
  BY DEF split_unix_day
<1> HIDE DEF k, m
<1>5. \/ m = r /\ k = q
      \/ m = r - SEC_PER_DAY /\ k = q + 1
  BY <1>2, <1>3 DEF k, m
<1>6. split_unix_day(a) = [days |-> q, sec_of_day |-> r]
  BY <1>1, <1>4, <1>5
<1> QED
  BY <1>6 DEF a

\* In a state of the wall calendar, the moment is told.
LEMMA MomentTold == CivilInv => MomentIsTold
<1> SUFFICES ASSUME CivilInv PROVE MomentIsTold
  OBVIOUS
<1>1. /\ floor_div(moment, SEC_PER_DAY) = today /\ floor_mod(moment, SEC_PER_DAY) = second
      /\ moment \in Int /\ today \in Int /\ second \in Int
      /\ SEC_PER_DAY \in Int /\ today * SEC_PER_DAY \in Int /\ moment = today * SEC_PER_DAY + second
  BY MomentInDays
<1>2. second \in 0 .. SEC_PER_DAY - 1 /\ weekday = (today + 4) % 7
  BY DEF CivilInv, WeekdayOf
<1> HIDE DEF moment, today
<1>3. split_unix_day(moment) = [days |-> today, sec_of_day |-> second]
  BY <1>1, <1>2, SplitByFloors
<1>4. weekday \in 0..6
  BY <1>1, <1>2
<1>5. weekday_of_ts(moment) = weekday
  <2>1. weekday_of_ts(moment) = floor_mod(today + 4, 7)
    BY <1>1 DEF weekday_of_ts, THU, DAYS_PER_WEEK
  <2>2. floor_mod(today + 4, 7) = (today + 4) % 7
    <3> DEFINE n == today + 4
    <3>1. n \in Int
      BY <1>1
    <3> HIDE DEF n
    <3>2. floor_mod(n, 7) = n % 7
      BY <3>1 DEF floor_mod, TruncMod, TruncDiv
    <3> QED
      BY <3>2 DEF n
  <2> QED
    BY <1>2, <2>1, <2>2
<1>6. start_of_day(moment) = today * SEC_PER_DAY
  BY <1>1 DEF start_of_day
<1>7. end_of_day(moment) = end_of_day_from_unix_day(today)
  BY <1>1 DEF end_of_day, end_of_day_from_unix_day
<1>8. start_of_next_day(moment, 1) = start_of_next_day_from_unix_day(today)
  BY <1>1, <1>6 DEF start_of_next_day, start_of_next_day_from_unix_day
<1>9. /\ start_of_week(moment) = (today - weekday) * SEC_PER_DAY
      /\ end_of_week(moment) = (today - weekday + 7) * SEC_PER_DAY - 1
      /\ start_of_saturday(moment) = (today - weekday + 6) * SEC_PER_DAY
  <2>1. /\ start_of_week(moment) = today * SEC_PER_DAY - weekday * SEC_PER_DAY
        /\ end_of_week(moment) = today * SEC_PER_DAY + (7 - weekday) * SEC_PER_DAY - 1
        /\ start_of_saturday(moment) = today * SEC_PER_DAY + (6 - weekday) * SEC_PER_DAY
    BY <1>5, <1>6 DEF start_of_week, end_of_week, start_of_saturday, DAYS_PER_WEEK, SAT
  <2> QED
    BY <1>1, <1>4, <2>1
<1>10. ASSUME moment >= 0 PROVE is_workday(moment) = (weekday \in 1..5)
  <2>1. TruncDiv(moment, SEC_PER_DAY) = today
    <3>1. SEC_PER_DAY \in Nat \ {0}
      BY Units
    <3> QED
      BY <1>1, <1>2, <1>10, <3>1, TruncQuotients
  <2>2. is_workday(moment) = ~is_day_off_unix_day(today)
    BY <2>1 DEF is_workday, is_day_off
  <2>3. is_day_off_unix_day(today) <=> weekday \in {0, 6}
    BY <1>1, <1>2 DEF is_day_off_unix_day, TruncMod, TruncDiv, THU, DAYS_PER_WEEK, SUN, SAT
  <2>4. weekday \in {0, 6} <=> weekday \notin 1..5
    BY <1>4
  <2> QED
    BY <2>2, <2>3, <2>4
<1> QED
  BY <1>3, <1>5, <1>6, <1>7, <1>8, <1>9, <1>10 DEF MomentIsTold, unix_day_to_ts

\* A timestamp tells its day, weekday and week as the calendar on the wall.
THEOREM MomentsAreTold == Spec => []MomentIsTold
  BY WallCalendar, MomentTold, PTL
-----------------------------------------------------------------------------
(* The way back: timestamps of civil dates                                 *)

\* The clock on the wall, read as to_date_time() does.
hour == second \div SEC_PER_HOUR
min  == (second % SEC_PER_HOUR) \div SEC_PER_MIN
sec  == second % SEC_PER_MIN

\* The second of the day is that of its hour, minute and second.
LEMMA ClockIsRead ==
    ASSUME CivilInv
    PROVE  /\ hour \in 0 .. HOURS_PER_DAY - 1
           /\ min \in 0 .. MIN_PER_HOUR - 1
           /\ sec \in 0 .. SEC_PER_MIN - 1
           /\ second = hour * SEC_PER_HOUR + min * SEC_PER_MIN + sec
<1>1. second \in 0 .. SEC_PER_DAY - 1
  BY DEF CivilInv
<1>2. ClockOf(second, hour, min, sec)
  BY <1>1, ClockParts DEF hour, min, sec
<1> QED
  BY <1>2 DEF ClockOf

\* hour_of_day(), min_of_hour() and the like read the clock, from a timestamp
\* before 1970 as well; days_since_epoch() and sec_of_day(), from 1970 on.
ClockIsTold ==
    /\ hour_of_day(moment) = hour
    /\ min_of_hour(moment) = min
    /\ min_of_day(moment) = hour * MIN_PER_HOUR + min
    /\ moment >= 0 => /\ days_since_epoch(moment) = today /\ sec_of_day(moment) = second
                      /\ min_since_epoch(moment) = today * MIN_PER_DAY + min_of_day(moment)
                      /\ sec_of_hour(moment) = min * SEC_PER_MIN + sec /\ sec_of_min(moment) = sec

\* to_timestamp() and its legacy form lead from a date and a time of the years
\* from MIN_YEAR to MAX_YEAR to the moment, also with day and year turned round,
\* from 1970 on.
TimestampsLeadHere ==
    date.year \in MIN_YEAR .. MAX_YEAR =>
        /\ to_timestamp(date.year, date.month, date.day, hour, min, sec) = moment
        /\ legacy_to_timestamp(date.year, date.month, date.day, hour, min, sec) = moment
        /\ date.year >= UNIX_EPOCH =>
             /\ to_timestamp(date.day, date.month, date.year, hour, min, sec) = moment
             /\ legacy_to_timestamp(date.day, date.month, date.year, hour, min, sec) = moment

\* A civil date of the years of the library is valid.
LEMMA CivilDatesAreValid ==
    ASSUME CivilInv, date.year \in MIN_YEAR .. MAX_YEAR
    PROVE  is_valid_date_time(date.year, date.month, date.day, hour, min, sec, 0)
<1>1. date.year \in Int /\ date.month \in 1..12 /\ date.day \in 1..31
      /\ date.day <= MonthLength(date.year, date.month)
  BY DEF CivilInv, CivilDate
<1>2. is_valid_time(hour, min, sec, 0)
  <2>1. hour \in 0 .. HOURS_PER_DAY - 1 /\ min \in 0 .. MIN_PER_HOUR - 1 /\ sec \in 0 .. SEC_PER_MIN - 1
    BY ClockIsRead
  <2>2. 0 \in 0 .. MS_PER_SEC - 1
    BY UnitsAssumption
  <2> QED
    BY <2>1, <2>2 DEF is_valid_time
<1>3. is_valid_date(date.year, date.month, date.day)
  <2>1. MIN_YEAR <= date.year /\ date.year <= MAX_YEAR
    BY YearsAssumption
  <2>2. date.day <= 31
    BY <1>1
  <2>3. is_leap_year_date(date.year) <=> IsLeap(date.year)
    BY <1>1, LeapYears
  <2> QED
    BY <1>1, <2>1, <2>2, <2>3 DEF is_valid_date, MonthLength, FEB
<1> QED
  BY <1>2, <1>3 DEF is_valid_date_time

\* Years counted back from MAX_YEAR by cycles of 400, 100, 4 years and one.
BackDays(n) ==
    (n \div 400) * 146097 + ((n % 400) \div 100) * 36524
      + (((n % 400) % 100) \div 4) * 1461 + (((n % 400) % 100) % 4) * 365

\* The cycles of the last n years are as long as those years.
LEMMA CyclesAddUp ==
    ASSUME NEW top \in Int, top % 400 = 0, NEW n \in Nat
    PROVE  DaysBeforeYear(top - n) = DaysBeforeYear(top) - BackDays(n)
<1> DEFINE a == n \div 400
           b == (n % 400) \div 100
           c == ((n % 400) % 100) \div 4
           e == ((n % 400) % 100) % 4
           k == top \div 400
<1>1. /\ n = 400 * a + 100 * b + 4 * c + e
      /\ a \in Nat /\ b \in 0..3 /\ c \in 0..24 /\ e \in 0..3
      /\ k \in Int /\ top = 400 * k
  OBVIOUS
<1>2. BackDays(n) = a * 146097 + b * 36524 + c * 1461 + e * 365
  BY DEF BackDays
<1> HIDE DEF a, b, c, e, k
<1>3. LeapYearsBefore(top) = 97 * k - 1
  BY <1>1 DEF LeapYearsBefore
<1>4. LeapYearsBefore(top - n) = 97 * (k - a) - 24 * b - c - 1
  BY <1>1 DEF LeapYearsBefore
<1>5. LeapYearsBefore(1970) \in Int
  BY DEF LeapYearsBefore
<1> QED
  BY <1>1, <1>2, <1>3, <1>4, <1>5 DEF DaysBeforeYear

\* The last year of the library begins so many days after 1970.
DaysToTheTop == ((MAX_YEAR - 2000) \div 400) * 146097 + 10957

\* MAX_YEAR begins as many days after 1970 as the constants of the code say.
LEMMA TopOfTheYears ==
    /\ DaysBeforeYear(MAX_YEAR) = DaysToTheTop /\ DaysToTheTop \in Int
    /\ BIAS_MAX_YEAR + BIAS_2000 = DaysToTheTop * SEC_PER_DAY
<1> DEFINE k == (MAX_YEAR - 2000) \div 400
<1>1. k \in Int /\ MAX_YEAR = 2000 + 400 * k /\ MAX_YEAR \in Int
  BY YearsAssumption
<1>2. DaysToTheTop = k * 146097 + 10957 /\ BIAS_MAX_YEAR = k * SEC_PER_400_YEARS
  BY DEF DaysToTheTop, BIAS_MAX_YEAR
<1> HIDE DEF k
<1>3. DaysBeforeYear(MAX_YEAR) = DaysToTheTop
  BY <1>1, <1>2 DEF DaysBeforeYear, LeapYearsBefore
<1>4. SEC_PER_DAY \in Int
  BY Units
<1>5. BIAS_MAX_YEAR + BIAS_2000 = DaysToTheTop * SEC_PER_DAY
  BY <1>1, <1>2, <1>4 DEF SEC_PER_400_YEARS, BIAS_2000
<1> QED
  BY <1>1, <1>2, <1>3, <1>5

\* The legacy way by cycles back from MAX_YEAR leads to the same second.
LEMMA LegacyTimestamps ==
    ASSUME CivilInv, date.year <= MAX_YEAR
    PROVE  /\ legacy_to_timestamp_unchecked(date.year, date.month, date.day, hour, min, sec)
                = to_timestamp_unchecked(date.year, date.month, date.day, hour, min, sec)
           /\ date.year >= UNIX_EPOCH =>
                legacy_to_timestamp_unchecked(date.day, date.month, date.year, hour, min, sec)
                  = to_timestamp_unchecked(date.day, date.month, date.year, hour, min, sec)
<1> DEFINE y == date.year
           m == date.month
           d == date.day
           h == hour
           mi == min
           s == sec
<1>1. /\ y \in Int /\ m \in 1..12 /\ d \in 1..31 /\ y <= MAX_YEAR
      /\ h \in Nat /\ mi \in Nat /\ s \in Nat
  BY ClockIsRead DEF CivilInv, CivilDate
<1> HIDE DEF y, m, d, h, mi, s
<1> DEFINE n    == MAX_YEAR - y
           S    == SEC_PER_DAY
           back == BIAS_MAX_YEAR - TruncDiv(n, 400) * SEC_PER_400_YEARS
                     - TruncDiv(TruncMod(n, 400), 100) * SEC_PER_100_YEARS
                     - TruncDiv(TruncMod(TruncMod(n, 400), 100), 4) * SEC_PER_4_YEARS
                     - TruncMod(TruncMod(TruncMod(n, 400), 100), 4) * SEC_PER_YEAR + BIAS_2000
           doy  == (IF is_leap_year_date(y) THEN lmos[m] ELSE mos[m]) + d - 1
           answer == back + (IF m = 1 /\ d = 1 /\ h = 0 /\ mi = 0 /\ s = 0 THEN 0
                             ELSE doy * S + SEC_PER_HOUR * h + SEC_PER_MIN * mi + s)
           time == SEC_PER_HOUR * h + SEC_PER_MIN * mi + s
<1>2. n \in Nat /\ S \in Int /\ SEC_PER_HOUR \in Int /\ SEC_PER_MIN \in Int /\ MAX_YEAR \in Int
  BY <1>1, Units, YearsAssumption
<1>3. back = DaysBeforeYear(y) * S
  <2> DEFINE a == n \div 400
             b == (n % 400) \div 100
             c == ((n % 400) % 100) \div 4
             e == ((n % 400) % 100) % 4
  <2>1. a \in Int /\ b \in Int /\ c \in Int /\ e \in Int
    BY <1>1, <1>2
  <2>2. TruncDiv(n, 400) = a /\ TruncMod(n, 400) = n % 400 /\ n % 400 \in 0..399
    <3> HIDE DEF n
    <3> QED
      BY <1>1, <1>2 DEF TruncDiv, TruncMod
  <2>3. TruncDiv(n % 400, 100) = b /\ TruncMod(n % 400, 100) = (n % 400) % 100 /\ (n % 400) % 100 \in 0..99
    <3> DEFINE r == n % 400
    <3> HIDE DEF r
    <3>1. TruncDiv(r, 100) = r \div 100 /\ TruncMod(r, 100) = r % 100 /\ r % 100 \in 0..99
      BY <2>2 DEF TruncDiv, TruncMod, r
    <3> QED
      BY <3>1 DEF r
  <2>4. TruncDiv((n % 400) % 100, 4) = c /\ TruncMod((n % 400) % 100, 4) = e
    <3> DEFINE r == (n % 400) % 100
    <3> HIDE DEF r
    <3>1. TruncDiv(r, 4) = r \div 4 /\ TruncMod(r, 4) = r % 4
      BY <2>3 DEF TruncDiv, TruncMod, r
    <3> QED
      BY <3>1 DEF r
  <2>5. BackDays(n) = a * 146097 + b * 36524 + c * 1461 + e * 365
    BY DEF BackDays
  <2>6. DaysBeforeYear(MAX_YEAR - n) = DaysToTheTop - BackDays(n)
    <3> HIDE DEF n
    <3> QED
      BY <1>1, <1>2, YearsAssumption, CyclesAddUp, TopOfTheYears
  <2>7. MAX_YEAR - n = y
    BY <1>1, <1>2
  <2>8. DaysToTheTop \in Int /\ BIAS_MAX_YEAR + BIAS_2000 = DaysToTheTop * S
    BY TopOfTheYears
  <2>9. BIAS_MAX_YEAR \in Int /\ BIAS_2000 \in Int
    BY <1>1, <1>2, YearsAssumption DEF BIAS_MAX_YEAR, BIAS_2000, SEC_PER_400_YEARS
  <2>10. back = BIAS_MAX_YEAR - a * (146097 * S) - b * (36524 * S) - c * (1461 * S) - e * (365 * S) + BIAS_2000
    BY <2>2, <2>3, <2>4
       DEF SEC_PER_400_YEARS, SEC_PER_100_YEARS, SEC_PER_4_YEARS, SEC_PER_YEAR, DAYS_PER_YEAR
  <2> HIDE DEF a, b, c, e, n, S, back
  <2> QED
    BY <1>1, <1>2, <2>1, <2>5, <2>6, <2>7, <2>8, <2>9, <2>10
<1>4. doy = DaysBefore(y, m) + d - 1
  BY <1>1, LeapYears DEF DaysBefore
<1>5. date_to_unix_day(y, m, d) = DaysBeforeYear(y) + DaysBefore(y, m) + d - 1
  BY <1>1, DayFormula
<1>6. DaysBeforeYear(y) \in Int /\ DaysBefore(y, m) \in Int
  BY <1>1, CountsAreIntegers
<1>7. m = 1 => DaysBefore(y, m) = 0
  BY <1>1 DEF DaysBefore, lmos, mos
<1>8. time \in Int
  BY <1>1, <1>2
<1>9. answer = date_to_unix_day(y, m, d) * S + SEC_PER_HOUR * h + SEC_PER_MIN * mi + s
  <2>1. CASE m = 1 /\ d = 1 /\ h = 0 /\ mi = 0 /\ s = 0
    <3>1. answer = back
      BY <1>1, <1>2, <1>3, <1>6, <2>1
    <3>2. date_to_unix_day(y, m, d) = DaysBeforeYear(y)
      BY <1>5, <1>6, <1>7, <2>1
    <3> HIDE DEF S, back, answer
    <3> QED
      BY <1>1, <1>2, <1>3, <2>1, <3>1, <3>2, <1>6
  <2>2. CASE ~(m = 1 /\ d = 1 /\ h = 0 /\ mi = 0 /\ s = 0)
    <3>1. answer = back + (doy * S + SEC_PER_HOUR * h + SEC_PER_MIN * mi + s)
      BY <2>2
    <3>2. SEC_PER_HOUR * h \in Int /\ SEC_PER_MIN * mi \in Int
      BY <1>1, <1>2
    <3> HIDE DEF S, back, doy, answer
    <3> QED
      BY <1>1, <1>2, <1>3, <1>4, <1>5, <1>6, <3>1, <3>2
  <2> QED
    BY <2>1, <2>2
<1>10. ~IsReordered(y, d) /\ (y >= UNIX_EPOCH => IsReordered(d, y))
  BY <1>1 DEF IsReordered, UNIX_EPOCH
<1>11. legacy_to_timestamp_unchecked(y, m, d, h, mi, s) = answer
  BY <1>10 DEF legacy_to_timestamp_unchecked
<1>12. y >= UNIX_EPOCH => legacy_to_timestamp_unchecked(d, m, y, h, mi, s) = answer
  BY <1>10 DEF legacy_to_timestamp_unchecked
<1> HIDE DEF answer
<1>13. to_timestamp_unchecked(y, m, d, h, mi, s) = answer
  BY <1>9, <1>10 DEF to_timestamp_unchecked
<1>14. y >= UNIX_EPOCH => to_timestamp_unchecked(d, m, y, h, mi, s) = answer
  BY <1>9, <1>10 DEF to_timestamp_unchecked
<1> QED
  BY <1>11, <1>12, <1>13, <1>14 DEF y, m, d, h, mi, s

\* In a state of the wall calendar, its date and time lead to the moment.
LEMMA TimestampsLead == CivilInv => TimestampsLeadHere
<1> SUFFICES ASSUME CivilInv, date.year \in MIN_YEAR .. MAX_YEAR
             PROVE /\ to_timestamp(date.year, date.month, date.day, hour, min, sec) = moment
                   /\ legacy_to_timestamp(date.year, date.month, date.day, hour, min, sec) = moment
                   /\ date.year >= UNIX_EPOCH =>
                        /\ to_timestamp(date.day, date.month, date.year, hour, min, sec) = moment
                        /\ legacy_to_timestamp(date.day, date.month, date.year, hour, min, sec) = moment
  BY DEF TimestampsLeadHere
<1> DEFINE y == date.year
           m == date.month
           d == date.day
<1>1. y \in Int /\ y <= MAX_YEAR /\ m \in 1..12 /\ d \in 1..31 /\ d \in Int
  BY YearsAssumption DEF CivilInv, CivilDate
<1>2. is_valid_date_time(y, m, d, hour, min, sec, 0)
  BY CivilDatesAreValid
<1>3. /\ hour \in Nat /\ min \in Nat /\ sec \in Nat
      /\ second = hour * SEC_PER_HOUR + min * SEC_PER_MIN + sec
  BY ClockIsRead
<1>4. date_to_unix_day(y, m, d) = today
  BY TodayIsNumbered
<1>5. moment = today * SEC_PER_DAY + SEC_PER_HOUR * hour + SEC_PER_MIN * min + sec
  <2>1. today * SEC_PER_DAY \in Int /\ SEC_PER_HOUR \in Int /\ SEC_PER_MIN \in Int
    BY MomentInDays, Units
  <2>2. moment = today * SEC_PER_DAY + second
    BY DEF moment
  <2> HIDE DEF today, moment, hour, min, sec
  <2> QED
    BY <1>3, <2>1, <2>2
<1>6. ~IsReordered(y, d) /\ (y >= UNIX_EPOCH => IsReordered(d, y))
  BY <1>1 DEF IsReordered, UNIX_EPOCH
<1> HIDE DEF y, m, d, moment, today, hour, min, sec
<1>7. to_timestamp_unchecked(y, m, d, hour, min, sec) = moment
  BY <1>4, <1>5, <1>6 DEF to_timestamp_unchecked
<1>8. to_timestamp(y, m, d, hour, min, sec) = moment
  BY <1>2, <1>6, <1>7 DEF to_timestamp
<1>9. y >= UNIX_EPOCH => to_timestamp(d, m, y, hour, min, sec) = moment
  BY <1>2, <1>6, <1>7 DEF to_timestamp
<1>10. y >= UNIX_EPOCH => to_timestamp_unchecked(d, m, y, hour, min, sec) = moment
  BY <1>4, <1>5, <1>6 DEF to_timestamp_unchecked
<1>11. /\ legacy_to_timestamp_unchecked(y, m, d, hour, min, sec) = to_timestamp_unchecked(y, m, d, hour, min, sec)
       /\ y >= UNIX_EPOCH => legacy_to_timestamp_unchecked(d, m, y, hour, min, sec)
                              = to_timestamp_unchecked(d, m, y, hour, min, sec)
  BY <1>1, LegacyTimestamps DEF y, m, d
<1>12. legacy_to_timestamp(y, m, d, hour, min, sec) = moment
  BY <1>2, <1>6, <1>7, <1>10, <1>11 DEF legacy_to_timestamp
<1>13. y >= UNIX_EPOCH => legacy_to_timestamp(d, m, y, hour, min, sec) = moment
  BY <1>2, <1>6, <1>7, <1>10, <1>11 DEF legacy_to_timestamp
<1> QED
  BY <1>8, <1>9, <1>12, <1>13 DEF y, m, d

\* Every civil date and time of the years of the library leads to its moment, on
\* the fast and on the legacy way.
THEOREM TimestampsAreMade == Spec => []TimestampsLeadHere
  BY WallCalendar, TimestampsLead, PTL

\* In a state of the wall calendar, the clock is told.
LEMMA ClockTold == CivilInv => ClockIsTold
<1> SUFFICES ASSUME CivilInv PROVE ClockIsTold
  OBVIOUS
<1>1. /\ SEC_PER_HOUR \in Nat \ {0} /\ SEC_PER_MIN \in Nat \ {0} /\ SEC_PER_DAY \in Nat \ {0}
      /\ HOURS_PER_DAY \in Nat \ {0} /\ MIN_PER_HOUR \in Nat \ {0}
      /\ SEC_PER_HOUR = MIN_PER_HOUR * SEC_PER_MIN /\ SEC_PER_DAY = HOURS_PER_DAY * SEC_PER_HOUR
  BY Units, UnitsAssumption
<1>2. /\ hour \in 0 .. HOURS_PER_DAY - 1 /\ min \in 0 .. MIN_PER_HOUR - 1 /\ sec \in 0 .. SEC_PER_MIN - 1
      /\ second = hour * SEC_PER_HOUR + min * SEC_PER_MIN + sec
  BY ClockIsRead
<1>3. today \in Int /\ moment = today * SEC_PER_DAY + second /\ second \in 0 .. SEC_PER_DAY - 1 /\ moment \in Int
  BY MomentInDays DEF CivilInv
<1> HIDE DEF today, moment, hour, min, sec
<1> DEFINE hours == today * HOURS_PER_DAY + hour
           mins  == hours * MIN_PER_HOUR + min
<1>4. hours \in Int /\ mins \in Int /\ min \in Int /\ sec \in Int /\ hour \in Int
  BY <1>1, <1>2, <1>3
<1>5. moment = mins * SEC_PER_MIN + sec
  <2>1. hours * SEC_PER_HOUR = today * SEC_PER_DAY + hour * SEC_PER_HOUR
    BY <1>1, <1>3, <1>4
  <2>2. mins * SEC_PER_MIN = hours * SEC_PER_HOUR + min * SEC_PER_MIN
    <3> HIDE DEF hours
    <3> QED
      BY <1>1, <1>4
  <2> HIDE DEF hours, mins
  <2> QED
    BY <1>1, <1>2, <1>3, <1>4, <2>1, <2>2
<1>6. moment = hours * SEC_PER_HOUR + (min * SEC_PER_MIN + sec) /\ min * SEC_PER_MIN + sec \in 0 .. SEC_PER_HOUR - 1
  <2>1. min * SEC_PER_MIN + sec \in 0 .. SEC_PER_HOUR - 1
    <3>1. min * SEC_PER_MIN \in Int /\ min * SEC_PER_MIN >= 0 /\ min <= MIN_PER_HOUR - 1
      BY <1>1, <1>2
    <3>2. min * SEC_PER_MIN <= (MIN_PER_HOUR - 1) * SEC_PER_MIN
      BY <1>1, <1>4, <3>1
    <3>3. (MIN_PER_HOUR - 1) * SEC_PER_MIN = SEC_PER_HOUR - SEC_PER_MIN
      BY <1>1
    <3> QED
      BY <1>1, <1>2, <3>1, <3>2, <3>3
  <2>2. mins * SEC_PER_MIN = hours * SEC_PER_HOUR + min * SEC_PER_MIN
    <3> HIDE DEF hours
    <3> QED
      BY <1>1, <1>4
  <2> HIDE DEF hours, mins
  <2> QED
    BY <1>1, <1>4, <1>5, <2>1, <2>2
<1>7. hour_of_day(moment) = hour
  <2>1. floor_div(moment, SEC_PER_HOUR) = hours
    <3> HIDE DEF hours
    <3> QED
      BY <1>1, <1>4, <1>6, FloorQuotients
  <2>2. floor_mod(hours, HOURS_PER_DAY) = hour
    BY <1>1, <1>2, <1>3, FloorQuotients
  <2> QED
    BY <2>1, <2>2 DEF hour_of_day
<1>8. min_of_hour(moment) = min
  <2>1. floor_div(moment, SEC_PER_MIN) = mins
    <3> HIDE DEF mins
    <3> QED
      BY <1>1, <1>2, <1>4, <1>5, FloorQuotients
  <2>2. floor_mod(mins, MIN_PER_HOUR) = min
    <3> HIDE DEF hours
    <3> QED
      BY <1>1, <1>2, <1>4, FloorQuotients
  <2> QED
    BY <2>1, <2>2 DEF min_of_hour
<1>9. moment >= 0 => days_since_epoch(moment) = today /\ sec_of_day(moment) = second
  <2>1. today * SEC_PER_DAY + second >= 0 =>
          /\ TruncDiv(today * SEC_PER_DAY + second, SEC_PER_DAY) = today
          /\ TruncMod(today * SEC_PER_DAY + second, SEC_PER_DAY) = second
    <3> HIDE DEF hours, mins
    <3>1. SEC_PER_DAY \in Nat \ {0} /\ today \in Int /\ second \in 0 .. SEC_PER_DAY - 1
      BY <1>1, <1>3
    <3> QED
      BY <3>1, TruncQuotients
  <2> QED
    BY <1>3, <2>1 DEF days_since_epoch, sec_of_day
<1> DEFINE minOfDay == hour * MIN_PER_HOUR + min
<1>10. mins = today * MIN_PER_DAY + minOfDay /\ minOfDay \in 0 .. MIN_PER_DAY - 1 /\ MIN_PER_DAY \in Nat \ {0}
  <2>1. MIN_PER_DAY = MIN_PER_HOUR * HOURS_PER_DAY /\ MIN_PER_DAY \in Nat \ {0}
    BY <1>1 DEF MIN_PER_DAY
  <2>2. mins = today * MIN_PER_DAY + minOfDay
    BY <1>1, <1>3, <1>4, <2>1
  <2>3. hour * MIN_PER_HOUR >= 0 /\ hour * MIN_PER_HOUR <= (HOURS_PER_DAY - 1) * MIN_PER_HOUR
    BY <1>1, <1>2, <1>4
  <2>4. (HOURS_PER_DAY - 1) * MIN_PER_HOUR = MIN_PER_DAY - MIN_PER_HOUR
    BY <1>1, <2>1
  <2>5. hour * MIN_PER_HOUR \in Int
    BY <1>1, <1>4
  <2> QED
    BY <1>1, <1>2, <2>1, <2>2, <2>3, <2>4, <2>5
<1>11. min_of_day(moment) = minOfDay
  <2>1. floor_div(moment, SEC_PER_MIN) = mins
    <3> HIDE DEF mins
    <3> QED
      BY <1>1, <1>2, <1>4, <1>5, FloorQuotients
  <2>2. floor_mod(mins, MIN_PER_DAY) = minOfDay
    <3> HIDE DEF mins, minOfDay
    <3> QED
      BY <1>3, <1>10, FloorQuotients
  <2> QED
    BY <2>1, <2>2 DEF min_of_day
<1>12. ASSUME moment >= 0
       PROVE  /\ min_since_epoch(moment) = mins /\ sec_of_min(moment) = sec
              /\ sec_of_hour(moment) = min * SEC_PER_MIN + sec
  <2> DEFINE rest == min * SEC_PER_MIN + sec
  <2> HIDE DEF mins, hours, rest
  <2>1. TruncDiv(mins * SEC_PER_MIN + sec, SEC_PER_MIN) = mins /\ TruncMod(mins * SEC_PER_MIN + sec, SEC_PER_MIN) = sec
    <3>1. mins \in Int /\ sec \in 0 .. SEC_PER_MIN - 1 /\ SEC_PER_MIN \in Nat \ {0}
      BY <1>1, <1>2, <1>4
    <3>2. mins * SEC_PER_MIN + sec >= 0
      BY <1>5, <1>12
    <3> QED
      BY <3>1, <3>2, TruncQuotients
  <2>2. TruncMod(hours * SEC_PER_HOUR + rest, SEC_PER_HOUR) = rest
    <3>1. moment = hours * SEC_PER_HOUR + rest /\ rest \in 0 .. SEC_PER_HOUR - 1
      BY <1>6 DEF rest
    <3>2. hours \in Int /\ SEC_PER_HOUR \in Nat \ {0} /\ hours * SEC_PER_HOUR + rest >= 0
      BY <1>1, <1>4, <1>12, <3>1
    <3>3. rest \in 0 .. SEC_PER_HOUR - 1
      BY <3>1
    <3> QED
      BY <3>2, <3>3, TruncQuotients
  <2> QED
    BY <1>5, <1>6, <2>1, <2>2 DEF min_since_epoch, sec_of_min, sec_of_hour, rest
<1> HIDE DEF mins
<1> QED
  BY <1>7, <1>8, <1>9, <1>10, <1>11, <1>12 DEF ClockIsTold

\* The hour and minute of a timestamp are those on the clock.
THEOREM ClocksAreTold == Spec => []ClockIsTold
  BY WallCalendar, ClockTold, PTL

-----------------------------------------------------------------------------
(* The year by cycles back from MAX_YEAR                                   *)


\* Before MAX_YEAR, is_leap_year_ts() and the legacy years are those of the wall
\* calendar, but on that day.
YearsByCycles ==
    date.year < MAX_YEAR =>
        /\ BackwardYear(moment).year = IF NewYearOfLeap THEN date.year - 1 ELSE date.year
        /\ legacy_years_since_epoch(moment) + UNIX_EPOCH = IF NewYearOfLeap THEN date.year - 1 ELSE date.year
        /\ is_leap_year_ts(moment) = (IsLeap(date.year) /\ ~NewYearOfLeap)
        /\ num_days_in_year_ts(moment) = IF NewYearOfLeap THEN 365 ELSE YearLength(date.year)
        /\ ~NewYearOfLeap /\ second > 0 =>
             BackwardYear(moment).secs =
               (YearLength(date.year) - (DaysBefore(date.year, date.month) + date.day)) * SEC_PER_DAY
                 + (SEC_PER_DAY - second)

\* Whole cycles of so many days, of a time of R days and t seconds.
LEMMA CyclesInDays ==
    ASSUME NEW k \in Nat \ {0}, NEW R \in Nat, NEW t \in 0 .. SEC_PER_DAY - 1
    PROVE  /\ TruncDiv(R * SEC_PER_DAY + t, k * SEC_PER_DAY) = R \div k
           /\ TruncMod(R * SEC_PER_DAY + t, k * SEC_PER_DAY) = (R % k) * SEC_PER_DAY + t
           /\ R \div k \in Nat /\ R % k \in Nat
<1> DEFINE S == SEC_PER_DAY
           q == R \div k
           m == R % k
           b == k * S
           r == m * S + t
<1>1. S \in Nat \ {0}
  BY Units
<1>2. q \in Int /\ m \in 0 .. k - 1 /\ R = q * k + m
  BY <1>1
<1>3. q \in Nat /\ m \in Nat
  OBVIOUS
<1> HIDE DEF S, q, m
<1>4. b \in Nat \ {0}
  <2>1. b \in Int /\ b # 0
    BY <1>1
  <2>2. b >= 0
    BY <1>1
  <2> QED
    BY <2>1, <2>2
<1>5. r \in 0 .. b - 1
  <2>1. m * S <= (k - 1) * S /\ m * S >= 0 /\ m * S \in Int
    BY <1>1, <1>2
  <2>2. (k - 1) * S = b - S /\ t \in 0 .. S - 1
    BY <1>1 DEF S
  <2>3. b \in Int /\ S \in Int
    BY <1>1, <1>4
  <2> HIDE DEF b
  <2> QED
    BY <2>1, <2>2, <2>3
<1>6. R * S + t = q * b + r /\ q * b + r >= 0
  <2>1. R * S + t = q * b + r
    <3>1. t \in Int
      BY <1>1 DEF S
    <3> QED
      BY <1>1, <1>2, <3>1
  <2>2. R * S >= 0 /\ R * S \in Int /\ t >= 0 /\ t \in Int
    BY <1>1 DEF S
  <2> QED
    BY <2>1, <2>2
<1> HIDE DEF b, r
<1>7. TruncDiv(q * b + r, b) = q /\ TruncMod(q * b + r, b) = r
  BY <1>2, <1>4, <1>5, <1>6, TruncQuotients
<1>8. TruncDiv(R * S + t, k * S) = q /\ TruncMod(R * S + t, k * S) = m * S + t
  BY <1>6, <1>7 DEF b, r
<1> QED
  BY <1>3, <1>8 DEF S, q, m

\* The years of whole cycles in so many days, and the days left over.
YearsIn(R) ==
    400 * (R \div 146097) + 100 * ((R % 146097) \div 36524)
      + 4 * (((R % 146097) % 36524) \div 1461) + (((R % 146097) % 36524) % 1461) \div 365
DaysLeft(R) == (((R % 146097) % 36524) % 1461) % 365

\* A number of days by its digits: so many cycles, and so many days left.
Digits(R, a, b, c, e, x) ==
    /\ {R, a, b, c, e, x} \subseteq Nat
    /\ R = a * 146097 + b * 36524 + c * 1461 + e * 365 + x
    /\ b * 36524 + c * 1461 + e * 365 + x < 146097
    /\ c * 1461 + e * 365 + x < 36524
    /\ e * 365 + x < 1461
    /\ x < 365

\* Taking off whole cycles, from the longest on, finds the digits.
LEMMA CycleDigits ==
    ASSUME NEW R, NEW a, NEW b, NEW c, NEW e, NEW x, Digits(R, a, b, c, e, x)
    PROVE  YearsIn(R) = 400 * a + 100 * b + 4 * c + e /\ DaysLeft(R) = x
<1>1. R \in Int /\ a \in Int /\ b \in Int /\ c \in Int /\ e \in Int /\ x \in Int
      /\ 0 <= b /\ 0 <= c /\ 0 <= e /\ 0 <= x
      /\ R = a * 146097 + b * 36524 + c * 1461 + e * 365 + x
      /\ b * 36524 + c * 1461 + e * 365 + x < 146097
      /\ c * 1461 + e * 365 + x < 36524
      /\ e * 365 + x < 1461
      /\ x < 365
  BY DEF Digits
<1>2. PICK r3 \in Int : r3 = e * 365 + x
  BY <1>1
<1>3. PICK r2 \in Int : r2 = c * 1461 + r3
  BY <1>1
<1>4. PICK r1 \in Int : r1 = b * 36524 + r2
  BY <1>1
<1>5. R = a * 146097 + r1 /\ r1 < 146097 /\ 0 <= r1
  BY <1>1, <1>2, <1>3, <1>4
<1>6. r2 < 36524 /\ 0 <= r2
  BY <1>1, <1>2, <1>3
<1>7. r3 < 1461 /\ 0 <= r3
  BY <1>1, <1>2
<1>8. R \div 146097 = a /\ R % 146097 = r1
  BY <1>1, <1>5
<1>9. r1 \div 36524 = b /\ r1 % 36524 = r2
  BY <1>1, <1>4, <1>6
<1>10. r2 \div 1461 = c /\ r2 % 1461 = r3
  BY <1>1, <1>3, <1>7
<1>11. r3 \div 365 = e /\ r3 % 365 = x
  BY <1>1, <1>2
<1> QED
  BY <1>8, <1>9, <1>10, <1>11 DEF YearsIn, DaysLeft

\* The days to the end of the last k years, from z days before them.
DaysBack(k, z) == BackDays(k) + z

\* So many days before the end of k years are in year k from there, and the last
\* days of a leap year are taken for a year of their own.
LEMMA YearsBack ==
    ASSUME NEW k \in Nat, NEW z \in 0..366,
           z = 366 => k % 4 = 3 /\ (k % 100 # 99 \/ k % 400 = 399)
    PROVE  /\ BackDays(k) \in Nat
           /\ z <= 364 => YearsIn(DaysBack(k, z)) = k /\ DaysLeft(DaysBack(k, z)) = z
           /\ z >= 365 => YearsIn(DaysBack(k, z)) = k + 1 /\ DaysLeft(DaysBack(k, z)) = 0
<1> DEFINE a == k \div 400
           b == (k % 400) \div 100
           c == ((k % 400) % 100) \div 4
           e == ((k % 400) % 100) % 4
           R == BackDays(k) + z
<1>1. /\ k = 400 * a + 100 * b + 4 * c + e
      /\ a \in Nat /\ b \in 0..3 /\ c \in 0..24 /\ e \in 0..3
  OBVIOUS
<1>2. BackDays(k) = a * 146097 + b * 36524 + c * 1461 + e * 365
  BY DEF BackDays
<1>3. z = 366 => e = 3 /\ (c # 24 \/ b = 3)
  OBVIOUS
<1> HIDE DEF a, b, c, e
<1>4. BackDays(k) \in Nat /\ R \in Nat /\ R = a * 146097 + b * 36524 + c * 1461 + e * 365 + z
  BY <1>1, <1>2
<1> HIDE DEF R
<1>5. ASSUME z <= 364 PROVE YearsIn(R) = k /\ DaysLeft(R) = z
  <2>1. Digits(R, a, b, c, e, z)
    BY <1>1, <1>4, <1>5 DEF Digits
  <2>2. YearsIn(R) = 400 * a + 100 * b + 4 * c + e /\ DaysLeft(R) = z
    BY <2>1, CycleDigits
  <2> QED
    BY <1>1, <2>2
<1>6. ASSUME z >= 365 PROVE YearsIn(R) = k + 1 /\ DaysLeft(R) = 0
  <2>1. CASE e <= 2
    <3>1. Digits(R, a, b, c, e + 1, 0)
      BY <1>1, <1>3, <1>4, <1>6, <2>1 DEF Digits
    <3>2. YearsIn(R) = 400 * a + 100 * b + 4 * c + (e + 1) /\ DaysLeft(R) = 0
      BY <3>1, CycleDigits
    <3> QED
      BY <1>1, <3>2
  <2>2. CASE e = 3 /\ z = 365
    <3>1. CASE c <= 23
      <4>1. Digits(R, a, b, c, 4, 0)
        BY <1>1, <1>4, <2>2, <3>1 DEF Digits
      <4>2. YearsIn(R) = 400 * a + 100 * b + 4 * c + 4 /\ DaysLeft(R) = 0
        BY <4>1, CycleDigits
      <4> QED
        BY <1>1, <2>2, <4>2
    <3>2. CASE c = 24 /\ b <= 2
      <4>1. Digits(R, a, b + 1, 0, 0, 0)
        BY <1>1, <1>4, <2>2, <3>2 DEF Digits
      <4>2. YearsIn(R) = 400 * a + 100 * (b + 1) + 4 * 0 + 0 /\ DaysLeft(R) = 0
        BY <4>1, CycleDigits
      <4> QED
        BY <1>1, <2>2, <3>2, <4>2
    <3>3. CASE c = 24 /\ b = 3
      <4>1. Digits(R, a, 4, 0, 0, 0)
        BY <1>1, <1>4, <2>2, <3>3 DEF Digits
      <4>2. YearsIn(R) = 400 * a + 100 * 4 + 4 * 0 + 0 /\ DaysLeft(R) = 0
        BY <4>1, CycleDigits
      <4> QED
        BY <1>1, <2>2, <3>3, <4>2
    <3> QED
      BY <1>1, <3>1, <3>2, <3>3
  <2>3. CASE e = 3 /\ z = 366
    <3>1. CASE c <= 23
      <4>1. Digits(R, a, b, c + 1, 0, 0)
        BY <1>1, <1>4, <2>3, <3>1 DEF Digits
      <4>2. YearsIn(R) = 400 * a + 100 * b + 4 * (c + 1) + 0 /\ DaysLeft(R) = 0
        BY <4>1, CycleDigits
      <4> QED
        BY <1>1, <2>3, <4>2
    <3>2. CASE c = 24
      <4>1. Digits(R, a + 1, 0, 0, 0, 0)
        BY <1>1, <1>3, <1>4, <2>3, <3>2 DEF Digits
      <4>2. YearsIn(R) = 400 * (a + 1) + 100 * 0 + 4 * 0 + 0 /\ DaysLeft(R) = 0
        BY <4>1, CycleDigits
      <4> QED
        BY <1>1, <1>3, <2>3, <3>2, <4>2
    <3> QED
      BY <1>1, <3>1, <3>2
  <2> QED
    BY <1>1, <1>6, <2>1, <2>2, <2>3
<1> QED
  BY <1>4, <1>5, <1>6 DEF R, DaysBack

\* The day of the year of a civil date.
LEMMA DayOfYearBounds ==
    ASSUME CivilInv
    PROVE  /\ DaysBefore(date.year, date.month) + date.day \in 1 .. YearLength(date.year)
           /\ DaysBefore(date.year, date.month) + date.day = 1 <=> date.month = 1 /\ date.day = 1
           /\ DaysBefore(date.year, date.month) + date.day = YearLength(date.year)
                <=> date.month = 12 /\ date.day = 31
           /\ today = DaysBeforeYear(date.year) + (DaysBefore(date.year, date.month) + date.day) - 1
<1> DEFINE y == date.year
           m == date.month
           d == date.day
<1>1. y \in Int /\ m \in 1..12 /\ d \in 1..31 /\ d <= MonthLength(y, m) /\ d \in Int
  BY DEF CivilInv, CivilDate
<1>2. today = DaysBeforeYear(y) + DaysBefore(y, m) + d - 1 /\ DaysBeforeYear(y) \in Int /\ DaysBefore(y, m) \in Int
  BY <1>1, DayFormula, TodayIsNumbered, CountsAreIntegers
<1> HIDE DEF y, m, d, today
<1>3. DaysBefore(y, m) + d \in 1 .. YearLength(y)
  BY <1>1 DEF DaysBefore, YearLength, MonthLength, lmos, mos
<1>4. DaysBefore(y, m) + d = 1 <=> m = 1 /\ d = 1
  BY <1>1 DEF DaysBefore, YearLength, MonthLength, lmos, mos
<1>5. DaysBefore(y, m) + d = YearLength(y) <=> m = 12 /\ d = 31
  BY <1>1 DEF DaysBefore, YearLength, MonthLength, lmos, mos
<1>6. today = DaysBeforeYear(y) + (DaysBefore(y, m) + d) - 1
  BY <1>1, <1>2
<1> QED
  BY <1>3, <1>4, <1>5, <1>6 DEF y, m, d

\* The backward count, of a time left of R days and t seconds.
LEMMA BackwardInDays ==
    ASSUME NEW ts, NEW R \in Nat, NEW t \in 0 .. SEC_PER_DAY - 1,
           BIAS_MAX_YEAR + BIAS_2000 - ts = R * SEC_PER_DAY + t
    PROVE  /\ BackwardYear(ts).year = MAX_YEAR - YearsIn(R) - (IF DaysLeft(R) = 0 /\ t = 0 THEN 0 ELSE 1)
           /\ BackwardYear(ts).secs = DaysLeft(R) * SEC_PER_DAY + t
<1> DEFINE S == SEC_PER_DAY
           R1 == R % 146097
           R2 == R1 % 36524
           R3 == R2 % 1461
           R4 == R3 % 365
<1>1. /\ TruncDiv(R * S + t, 146097 * S) = R \div 146097 /\ TruncMod(R * S + t, 146097 * S) = R1 * S + t
      /\ R \div 146097 \in Nat /\ R1 \in Nat
  BY CyclesInDays
<1>2. /\ TruncDiv(R1 * S + t, 36524 * S) = R1 \div 36524 /\ TruncMod(R1 * S + t, 36524 * S) = R2 * S + t
      /\ R1 \div 36524 \in Nat /\ R2 \in Nat
  <2> HIDE DEF R1
  <2> QED
    BY <1>1, CyclesInDays
<1>3. /\ TruncDiv(R2 * S + t, 1461 * S) = R2 \div 1461 /\ TruncMod(R2 * S + t, 1461 * S) = R3 * S + t
      /\ R2 \div 1461 \in Nat /\ R3 \in Nat
  <2> HIDE DEF R2
  <2> QED
    BY <1>2, CyclesInDays
<1>4. /\ TruncDiv(R3 * S + t, 365 * S) = R3 \div 365 /\ TruncMod(R3 * S + t, 365 * S) = R4 * S + t
      /\ R3 \div 365 \in Nat /\ R4 \in Nat
  <2> HIDE DEF R3
  <2> QED
    BY <1>3, CyclesInDays
<1>5. MAX_YEAR \in Int /\ S \in Nat \ {0} /\ t \in Int /\ t >= 0
  BY Units, YearsAssumption
<1>6. YearsIn(R) = 400 * (R \div 146097) + 100 * (R1 \div 36524) + 4 * (R2 \div 1461) + R3 \div 365
      /\ DaysLeft(R) = R4
  BY DEF YearsIn, DaysLeft
<1> DEFINE y400 == MAX_YEAR - (R \div 146097) * 400
           y100 == y400 - (R1 \div 36524) * 100
           y4   == y100 - (R2 \div 1461) * 4
           y1   == y4 - (R3 \div 365) * 1
<1>7. BackwardYear(ts) = [year |-> IF R4 * S + t = 0 THEN y1 ELSE y1 - 1, secs |-> R4 * S + t]
  <2> DEFINE Q400 == R \div 146097
             Q100 == R1 \div 36524
             Q4   == R2 \div 1461
             Q1   == R3 \div 365
  <2>1. /\ TruncDiv(R * S + t, SEC_PER_400_YEARS) = Q400 /\ TruncMod(R * S + t, SEC_PER_400_YEARS) = R1 * S + t
        /\ TruncDiv(R1 * S + t, SEC_PER_100_YEARS) = Q100 /\ TruncMod(R1 * S + t, SEC_PER_100_YEARS) = R2 * S + t
        /\ TruncDiv(R2 * S + t, SEC_PER_4_YEARS) = Q4 /\ TruncMod(R2 * S + t, SEC_PER_4_YEARS) = R3 * S + t
        /\ TruncDiv(R3 * S + t, SEC_PER_YEAR) = Q1 /\ TruncMod(R3 * S + t, SEC_PER_YEAR) = R4 * S + t
    BY <1>1, <1>2, <1>3, <1>4
       DEF SEC_PER_400_YEARS, SEC_PER_100_YEARS, SEC_PER_4_YEARS, SEC_PER_YEAR, DAYS_PER_YEAR
  <2> DEFINE T0 == R * S + t
             T1 == R1 * S + t
             T2 == R2 * S + t
             T3 == R3 * S + t
             T4 == R4 * S + t
  <2>2. BIAS_MAX_YEAR + BIAS_2000 - ts = T0
    OBVIOUS
  <2> HIDE DEF T0, T1, T2, T3, T4, R1, R2, R3, R4, Q400, Q100, Q4, Q1
  <2>3. BackwardYear(ts) =
          [year |-> IF T4 = 0 THEN MAX_YEAR - Q400 * 400 - Q100 * 100 - Q4 * 4 - Q1 * 1
                    ELSE MAX_YEAR - Q400 * 400 - Q100 * 100 - Q4 * 4 - Q1 * 1 - 1,
           secs |-> T4]
    BY <2>1, <2>2 DEF BackwardYear, T0, T1, T2, T3, T4
  <2> QED
    BY <2>3 DEF T4, Q400, Q100, Q4, Q1
<1>8. R4 * S + t = 0 <=> R4 = 0 /\ t = 0
  <2> HIDE DEF R4, S
  <2>1. R4 * S >= 0 /\ R4 * S \in Int
    BY <1>4, <1>5
  <2>2. R4 # 0 => R4 * S > 0
    BY <1>4, <1>5
  <2> QED
    BY <1>4, <1>5, <2>1, <2>2
<1>9. BackwardYear(ts).year = IF R4 = 0 /\ t = 0 THEN y1 ELSE y1 - 1
  BY <1>7, <1>8
<1>10. y1 = MAX_YEAR - YearsIn(R)
  <2> HIDE DEF R1, R2, R3, R4
  <2> QED
    BY <1>1, <1>2, <1>3, <1>4, <1>5, <1>6
<1>11. y1 \in Int
  <2> HIDE DEF R1, R2, R3, R4
  <2> QED
    BY <1>1, <1>2, <1>3, <1>4, <1>5
<1>12. BackwardYear(ts).secs = DaysLeft(R) * SEC_PER_DAY + t
  BY <1>6, <1>7
<1> HIDE DEF R1, R2, R3, R4, y1
<1> QED
  BY <1>6, <1>9, <1>10, <1>11, <1>12

\* In a state of the wall calendar, the year is counted back.
LEMMA YearsCounted == CivilInv => YearsByCycles
<1> SUFFICES ASSUME CivilInv, date.year < MAX_YEAR
             PROVE  /\ BackwardYear(moment).year = IF NewYearOfLeap THEN date.year - 1 ELSE date.year
                    /\ legacy_years_since_epoch(moment) + UNIX_EPOCH
                         = IF NewYearOfLeap THEN date.year - 1 ELSE date.year
                    /\ is_leap_year_ts(moment) = (IsLeap(date.year) /\ ~NewYearOfLeap)
                    /\ num_days_in_year_ts(moment) = IF NewYearOfLeap THEN 365 ELSE YearLength(date.year)
                    /\ ~NewYearOfLeap /\ second > 0 =>
                         BackwardYear(moment).secs =
                           (YearLength(date.year) - (DaysBefore(date.year, date.month) + date.day)) * SEC_PER_DAY
                             + (SEC_PER_DAY - second)
  BY DEF YearsByCycles
<1> DEFINE y   == date.year
           doy == DaysBefore(date.year, date.month) + date.day
           N   == DaysToTheTop
           S   == SEC_PER_DAY
           k   == MAX_YEAR - (y + 1)
           t   == IF second = 0 THEN 0 ELSE S - second
           z   == IF second = 0 THEN YearLength(y) - doy + 1 ELSE YearLength(y) - doy
           R   == BackDays(k) + z
<1>1. y \in Int /\ MAX_YEAR \in Int /\ k \in Nat /\ y = MAX_YEAR - 1 - k /\ y + 1 = MAX_YEAR - k
  BY YearsAssumption DEF CivilInv, CivilDate
<1>2. doy \in 1 .. YearLength(y) /\ (doy = 1 <=> date.month = 1 /\ date.day = 1)
      /\ today = DaysBeforeYear(y) + doy - 1
  BY DayOfYearBounds
<1>3. YearLength(y) = (IF IsLeap(y) THEN 366 ELSE 365)
  BY DEF YearLength
<1>4. IsLeap(y) <=> k % 4 = 3 /\ (k % 100 # 99 \/ k % 400 = 399)
  <2> HIDE DEF y, k
  <2>1. MAX_YEAR % 400 = 0
    BY YearsAssumption
  <2> QED
    BY <1>1, <2>1 DEF IsLeap
<1>5. /\ S \in Nat \ {0} /\ second \in 0 .. S - 1
      /\ N \in Int /\ BIAS_MAX_YEAR + BIAS_2000 = N * S
      /\ today \in Int /\ moment = today * S + second /\ today * S \in Int
  BY Units, TopOfTheYears, MomentInDays DEF CivilInv
<1>6. DaysBeforeYear(y) + YearLength(y) = N - BackDays(k)
  <2>1. DaysBeforeYear(y + 1) = DaysBeforeYear(y) + YearLength(y)
    <3> HIDE DEF y
    <3> QED
      BY <1>1, YearsAddUp
  <2>2. DaysBeforeYear(MAX_YEAR - k) = N - BackDays(k)
    <3>1. MAX_YEAR % 400 = 0
      BY YearsAssumption
    <3> HIDE DEF k
    <3> QED
      BY <1>1, <3>1, CyclesAddUp, TopOfTheYears
  <2> HIDE DEF y, k, N
  <2> QED
    BY <1>1, <2>1, <2>2
<1>7. DaysBeforeYear(y) \in Int
  BY <1>1, CountsAreIntegers
<1>8. NewYearOfLeap <=> IsLeap(y) /\ doy = 1 /\ second > 0
  BY <1>2 DEF NewYearOfLeap
<1> HIDE DEF y, doy, N, S, k
<1>9. z \in 0..366 /\ (z = 366 => IsLeap(y))
  BY <1>2, <1>3, <1>5
<1>10. /\ BackDays(k) \in Nat
       /\ z <= 364 => YearsIn(R) = k /\ DaysLeft(R) = z
       /\ z >= 365 => YearsIn(R) = k + 1 /\ DaysLeft(R) = 0
  <2> HIDE DEF z
  <2>1. /\ BackDays(k) \in Nat
        /\ z <= 364 => YearsIn(DaysBack(k, z)) = k /\ DaysLeft(DaysBack(k, z)) = z
        /\ z >= 365 => YearsIn(DaysBack(k, z)) = k + 1 /\ DaysLeft(DaysBack(k, z)) = 0
    <3>1. z = 366 => k % 4 = 3 /\ (k % 100 # 99 \/ k % 400 = 399)
      BY <1>4, <1>9
    <3>2. k \in Nat /\ z \in 0..366
      BY <1>1, <1>9
    <3> QED
      BY <3>1, <3>2, YearsBack
  <2> QED
    BY <2>1 DEF DaysBack
<1>11. t \in 0 .. S - 1 /\ (t = 0 <=> second = 0)
  BY <1>5
<1>12. N * S - moment = R * S + t
  <2>1. N - today = BackDays(k) + YearLength(y) - doy + 1
    BY <1>2, <1>3, <1>5, <1>6, <1>7, <1>10
  <2>2. YearLength(y) - doy \in Int
    BY <1>2, <1>3
  <2>3. CASE second = 0
    <3>1. N - today = R
      BY <1>2, <1>3, <1>10, <2>1, <2>3
    <3>2. R \in Int
      BY <1>5, <3>1
    <3> HIDE DEF R
    <3>3. N * S - today * S = R * S
      BY <1>5, <3>1, <3>2
    <3> QED
      BY <1>5, <2>3, <3>2, <3>3
  <2>4. CASE second # 0
    <3>1. N - today - 1 = R
      BY <1>2, <1>3, <1>10, <2>1, <2>4
    <3>2. R \in Int
      BY <1>5, <3>1
    <3> HIDE DEF R
    <3>3. N * S - today * S - S = R * S
      BY <1>5, <3>1, <3>2
    <3> QED
      BY <1>5, <2>4, <3>2, <3>3
  <2> QED
    BY <2>3, <2>4
<1>13. R \in Nat
  BY <1>9, <1>10
<1>14. /\ BackwardYear(moment).year = MAX_YEAR - YearsIn(R) - (IF DaysLeft(R) = 0 /\ t = 0 THEN 0 ELSE 1)
       /\ BackwardYear(moment).secs = DaysLeft(R) * S + t
  <2> HIDE DEF R, t, moment
  <2>1. BIAS_MAX_YEAR + BIAS_2000 - moment = R * S + t
    <3>1. BIAS_MAX_YEAR \in Int /\ BIAS_2000 \in Int
      BY <1>1, Units DEF BIAS_MAX_YEAR, BIAS_2000, SEC_PER_400_YEARS
    <3>2. moment \in Int
      BY MomentInDays
    <3>3. (BIAS_MAX_YEAR + BIAS_2000) - moment = N * S - moment
      BY <1>5, Zenon
    <3>4. (BIAS_MAX_YEAR + BIAS_2000) - moment = R * S + t
      BY <1>12, <3>3, Zenon
    <3>5. BIAS_MAX_YEAR + BIAS_2000 - moment = (BIAS_MAX_YEAR + BIAS_2000) - moment
      BY <3>1, <3>2
    <3> QED
      BY <3>4, <3>5, Zenon
  <2> QED
    BY <1>11, <1>13, <2>1, BackwardInDays DEF S
<1>15. BackwardYear(moment).year = IF NewYearOfLeap THEN y - 1 ELSE y
  <2> DEFINE Y == YearsIn(R)
             L == DaysLeft(R)
  <2>1. \/ z <= 364 /\ Y = k /\ L = z
        \/ z >= 365 /\ Y = k + 1 /\ L = 0
    BY <1>9, <1>10
  <2>2. BackwardYear(moment).year = MAX_YEAR - Y - (IF L = 0 /\ second = 0 THEN 0 ELSE 1)
    BY <1>11, <1>14
  <2> HIDE DEF Y, L, R, t, moment
  <2>3. NewYearOfLeap <=> z >= 365 /\ second > 0
    BY <1>2, <1>3, <1>5, <1>8
  <2>4. CASE z <= 364
    <3>1. ~(L = 0 /\ second = 0)
      BY <1>2, <1>3, <1>9, <2>1, <2>4
    <3>2. Y = k
      BY <1>9, <2>1, <2>4
    <3>3. ~NewYearOfLeap
      BY <1>9, <2>3, <2>4
    <3> HIDE DEF z
    <3> QED
      BY <1>1, <2>2, <3>1, <3>2, <3>3
  <2>5. CASE z >= 365
    <3>1. Y = k + 1 /\ L = 0
      BY <1>9, <2>1, <2>5
    <3>2. NewYearOfLeap <=> second # 0
      BY <1>5, <2>3, <2>5
    <3> HIDE DEF z
    <3> QED
      BY <1>1, <2>2, <3>1, <3>2
  <2> QED
    BY <1>9, <2>4, <2>5
<1>16. ASSUME ~NewYearOfLeap, second > 0
       PROVE  BackwardYear(moment).secs = (YearLength(y) - doy) * S + (S - second)
  <2>1. z = YearLength(y) - doy /\ t = S - second
    BY <1>5, <1>16
  <2>2. z <= 364
    BY <1>2, <1>3, <1>8, <1>16, <2>1
  <2>3. DaysLeft(R) = z
    BY <1>10, <2>2
  <2> QED
    BY <1>14, <2>1, <2>3
<1> HIDE DEF moment, R, t, z
<1>17. legacy_years_since_epoch(moment) + UNIX_EPOCH = IF NewYearOfLeap THEN y - 1 ELSE y
  BY <1>1, <1>15 DEF legacy_years_since_epoch, UNIX_EPOCH
<1>18. is_leap_year_ts(moment) = (IsLeap(y) /\ ~NewYearOfLeap)
  <2>1. IsLeap(y) => ~IsLeap(y - 1)
    BY <1>1 DEF IsLeap
  <2>2. \A n \in Int : is_leap_year_date(n) \in BOOLEAN /\ (is_leap_year_date(n) <=> IsLeap(n))
    BY LeapYears DEF is_leap_year_date
  <2>3. y - 1 \in Int
    BY <1>1
  <2>4. CASE NewYearOfLeap
    <3>1. is_leap_year_ts(moment) = is_leap_year_date(y - 1)
      BY <1>15, <2>4 DEF is_leap_year_ts
    <3> QED
      BY <1>1, <1>8, <2>1, <2>2, <2>3, <2>4, <3>1
  <2>5. CASE ~NewYearOfLeap
    <3>1. is_leap_year_ts(moment) = is_leap_year_date(y)
      BY <1>15, <2>5 DEF is_leap_year_ts
    <3> QED
      BY <1>1, <2>2, <2>5, <3>1 DEF IsLeap
  <2> QED
    BY <2>4, <2>5
<1>19. num_days_in_year_ts(moment) = IF NewYearOfLeap THEN 365 ELSE YearLength(y)
  BY <1>3, <1>18 DEF num_days_in_year_ts, DAYS_PER_YEAR, DAYS_PER_LEAP_YEAR
<1> QED
  BY <1>15, <1>16, <1>17, <1>18, <1>19 DEF y, doy, S

\* is_leap_year_ts() and the legacy years tell the year of every moment before
\* MAX_YEAR but those of 1 January of a leap year, once it has begun, and those
\* they put into the year before.
THEOREM YearsAreCounted == Spec => []YearsByCycles
  BY WallCalendar, YearsCounted, PTL

-----------------------------------------------------------------------------
(* Where a year begins: the cycles of start_of_year() in days               *)

\* So many days in seconds, and so many days and seconds.
Days(k)       == k * SEC_PER_DAY
Seconds(n, s) == n * SEC_PER_DAY + s

\* A remainder of so many whole days is one of days, before 1970 and after.
LEMMA FloorsInDays ==
    ASSUME NEW k \in Nat \ {0}, NEW n \in Int, NEW s \in 0 .. SEC_PER_DAY - 1
    PROVE  /\ floor_mod(Seconds(n, s), Days(k)) = Seconds(n % k, s)
           /\ Seconds(n, s) % Days(k) = Seconds(n % k, s)
           /\ n % k \in Int
<1> DEFINE S == SEC_PER_DAY
           q == n \div k
           m == n % k
           b == k * S
           r == m * S + s
<1>1. S \in Nat \ {0}
  BY Units
<1>2. q \in Int /\ m \in 0 .. k - 1 /\ n = q * k + m
  BY <1>1
<1> HIDE DEF S, q, m
<1>3. b \in Nat \ {0}
  <2>1. b \in Int /\ b # 0
    BY <1>1
  <2>2. b >= 0
    BY <1>1
  <2> QED
    BY <2>1, <2>2
<1>4. r \in 0 .. b - 1
  <2>1. m * S <= (k - 1) * S /\ m * S >= 0 /\ m * S \in Int
    BY <1>1, <1>2
  <2>2. (k - 1) * S = b - S /\ s \in 0 .. S - 1
    BY <1>1 DEF S
  <2>3. b \in Int /\ S \in Int
    BY <1>1, <1>3
  <2> HIDE DEF b
  <2> QED
    BY <2>1, <2>2, <2>3
<1>5. n * S + s = q * b + r
  <2>1. s \in Int
    BY <1>1 DEF S
  <2> QED
    BY <1>1, <1>2, <2>1
<1> HIDE DEF b, r
<1>6. floor_mod(q * b + r, b) = r /\ (q * b + r) % b = r
  BY <1>2, <1>3, <1>4, FloorQuotients, Quotients
<1>7. floor_mod(n * S + s, k * S) = m * S + s /\ (n * S + s) % (k * S) = m * S + s
  BY <1>5, <1>6 DEF b, r
<1>8. m \in Int
  BY <1>2
<1> QED
  BY <1>7, <1>8 DEF S, m, Seconds, Days

\* Seconds compare as their days do with a number of whole days.
LEMMA DaysCompare ==
    ASSUME NEW n \in Int, NEW k \in Int, NEW s \in 0 .. SEC_PER_DAY - 1
    PROVE  /\ Seconds(n, s) < Days(k) <=> n < k
           /\ Seconds(n, s) >= Days(k) <=> n >= k
           /\ Seconds(n, s) \in Int /\ Days(k) \in Int
           /\ Seconds(n, s) - Days(k) = Seconds(n - k, s)
<1> DEFINE S == SEC_PER_DAY
           e == n - k
           a == n * S
           b == k * S
<1>1. S \in Nat \ {0} /\ e \in Int
  BY Units
<1>2. s \in 0 .. S - 1
  OBVIOUS
<1> HIDE DEF S
<1>3. a \in Int /\ b \in Int /\ a - b = e * S /\ s \in Int
  BY <1>1, <1>2
<1> HIDE DEF a, b
<1>4. e >= 0 => e * S >= 0
  BY <1>1
<1>5. e < 0 => e * S <= -S
  BY <1>1
<1>6. n < k <=> e < 0
  OBVIOUS
<1>7. n >= k <=> e >= 0
  OBVIOUS
<1> HIDE DEF e
<1>8. PICK p \in Int : p = e * S
  BY <1>1
<1>9. (a + s < b <=> n < k) /\ (a + s >= b <=> n >= k) /\ a + s \in Int /\ (a + s) - b = p + s
  BY <1>1, <1>2, <1>3, <1>4, <1>5, <1>6, <1>7, <1>8
<1> QED
  BY <1>3, <1>8, <1>9 DEF S, a, b, e, Seconds, Days

\* The cycles in days, with names that the provers take as they are.
CommonYear   == 365
LeapYear     == 366
TwoYears     == 730
ThreeYears   == 1096
FourCommon   == 1460
FourYears    == 1461
To2000       == 10957
Century      == 36524
FirstCentury == 36525
To2100       == 47482
Era400       == 146097

\* They are positive numbers.
LEMMA CycleTypes ==
    /\ CommonYear \in Nat \ {0} /\ LeapYear \in Nat \ {0} /\ TwoYears \in Nat \ {0}
    /\ ThreeYears \in Nat \ {0} /\ FourCommon \in Nat \ {0} /\ FourYears \in Nat \ {0}
    /\ To2000 \in Nat \ {0} /\ Century \in Nat \ {0} /\ FirstCentury \in Nat \ {0}
    /\ To2100 \in Nat \ {0} /\ Era400 \in Nat \ {0}
    /\ CommonYear \in Int /\ LeapYear \in Int /\ FourCommon \in Int /\ To2000 \in Int /\ FirstCentury \in Int
  BY DEF CommonYear, LeapYear, TwoYears, ThreeYears, FourCommon, FourYears, To2000, Century, FirstCentury, To2100, Era400

\* The same in days: how many of a year have passed, counted from the first day
\* of four years that begin with a leap year, and of 400 years.
DayInCycle(n) == (n - (IF n >= LeapYear THEN LeapYear ELSE 0)) % CommonYear
DayInEra(e) ==
    IF e < FirstCentury THEN DayInCycle(e % FourYears)
    ELSE IF (e - FirstCentury) % Century < FourCommon THEN ((e - FirstCentury) % Century) % CommonYear
         ELSE DayInCycle((((e - FirstCentury) % Century) - FourCommon) % FourYears)

\* The cycles of the code are so many days.
LEMMA CyclesOfDays ==
    /\ SEC_PER_YEAR = Days(CommonYear) /\ SEC_PER_LEAP_YEAR = Days(LeapYear) /\ SEC_PER_4_YEARS = Days(FourYears)
    /\ SEC_PER_FIRST_100_YEARS = Days(FirstCentury) /\ SEC_PER_100_YEARS = Days(Century)
    /\ SEC_PER_400_YEARS = Days(Era400) /\ BIAS_2000 = Days(To2000) /\ BIAS_2100 = Days(To2100)
<1>1. SEC_PER_DAY \in Int
  BY Units
<1> QED
  BY <1>1 DEF Days, SEC_PER_YEAR, SEC_PER_LEAP_YEAR, SEC_PER_4_YEARS, SEC_PER_FIRST_100_YEARS, SEC_PER_100_YEARS,
              SEC_PER_400_YEARS, BIAS_2000, BIAS_2100, DAYS_PER_YEAR, DAYS_PER_LEAP_YEAR,
              CommonYear, LeapYear, TwoYears, ThreeYears, FourCommon, FourYears, To2000, Century, FirstCentury, To2100, Era400

\* So are their sums in the code.
LEMMA CyclesAdded ==
    /\ 4 * SEC_PER_YEAR = Days(FourCommon) /\ 2 * SEC_PER_YEAR = Days(TwoYears)
    /\ 2 * SEC_PER_YEAR + SEC_PER_LEAP_YEAR = Days(ThreeYears)
<1>1. SEC_PER_DAY \in Int
  BY Units
<1> QED
  BY <1>1 DEF Days, SEC_PER_YEAR, SEC_PER_LEAP_YEAR, DAYS_PER_YEAR, DAYS_PER_LEAP_YEAR,
              CommonYear, LeapYear, TwoYears, ThreeYears, FourCommon, FourYears, To2000, Century, FirstCentury, To2100, Era400

\* What is more than one of them, and what is left.
LEMMA BeyondCycles ==
    ASSUME NEW n \in Int, NEW s \in 0 .. SEC_PER_DAY - 1
    PROVE  /\ Seconds(n, s) >= SEC_PER_LEAP_YEAR <=> n >= LeapYear
           /\ Seconds(n, s) < SEC_PER_FIRST_100_YEARS <=> n < FirstCentury
           /\ Seconds(n, s) < 4 * SEC_PER_YEAR <=> n < FourCommon
           /\ Seconds(n, s) - SEC_PER_LEAP_YEAR = Seconds(n - LeapYear, s)
           /\ Seconds(n, s) - SEC_PER_FIRST_100_YEARS = Seconds(n - FirstCentury, s)
           /\ Seconds(n, s) - 4 * SEC_PER_YEAR = Seconds(n - FourCommon, s)
           /\ Seconds(n, s) - BIAS_2000 = Seconds(n - To2000, s)
           /\ Seconds(n, s) - 0 = Seconds(n, s)
           /\ Seconds(n, s) \in Int
<1>1. /\ Seconds(n, s) >= Days(LeapYear) <=> n >= LeapYear
      /\ Seconds(n, s) - Days(LeapYear) = Seconds(n - LeapYear, s)
      /\ Seconds(n, s) \in Int
  BY DaysCompare, CycleTypes, Zenon
<1>2. /\ Seconds(n, s) < Days(FirstCentury) <=> n < FirstCentury
      /\ Seconds(n, s) - Days(FirstCentury) = Seconds(n - FirstCentury, s)
  BY DaysCompare, CycleTypes, Zenon
<1>3. /\ Seconds(n, s) < Days(FourCommon) <=> n < FourCommon
      /\ Seconds(n, s) - Days(FourCommon) = Seconds(n - FourCommon, s)
  BY DaysCompare, CycleTypes, Zenon
<1>4. Seconds(n, s) - Days(To2000) = Seconds(n - To2000, s)
  BY DaysCompare, CycleTypes, Zenon
<1>5. Seconds(n, s) - 0 = Seconds(n, s)
  BY <1>1
<1> QED
  BY <1>1, <1>2, <1>3, <1>4, <1>5, CyclesOfDays, CyclesAdded, Zenon

\* Remainders of the cycles are remainders of days, with the seconds kept.
LEMMA WithinCycles ==
    ASSUME NEW n \in Int, NEW s \in 0 .. SEC_PER_DAY - 1
    PROVE  /\ floor_mod(Seconds(n, s), SEC_PER_YEAR) = Seconds(n % CommonYear, s)
           /\ floor_mod(Seconds(n, s), SEC_PER_4_YEARS) = Seconds(n % FourYears, s)
           /\ Seconds(n, s) % SEC_PER_100_YEARS = Seconds(n % Century, s)
           /\ floor_mod(Seconds(n, s), SEC_PER_400_YEARS) = Seconds(n % Era400, s)
<1>1. floor_mod(Seconds(n, s), Days(CommonYear)) = Seconds(n % CommonYear, s)
  BY FloorsInDays, CycleTypes
<1>2. floor_mod(Seconds(n, s), Days(FourYears)) = Seconds(n % FourYears, s)
  BY FloorsInDays, CycleTypes
<1>3. Seconds(n, s) % Days(Century) = Seconds(n % Century, s)
  BY FloorsInDays, CycleTypes
<1>4. floor_mod(Seconds(n, s), Days(Era400)) = Seconds(n % Era400, s)
  BY FloorsInDays, CycleTypes
<1> QED
  BY <1>1, <1>2, <1>3, <1>4, CyclesOfDays, Zenon

\* The steps of CenturyYearStart().
InCycleAt(ts, into4) ==
    ts - floor_mod(into4 - (IF into4 >= SEC_PER_LEAP_YEAR THEN SEC_PER_LEAP_YEAR ELSE 0), SEC_PER_YEAR)
LaterAt(ts, into) ==
    IF into < 4 * SEC_PER_YEAR THEN ts - floor_mod(into, SEC_PER_YEAR)
    ELSE InCycleAt(ts, floor_mod(into - 4 * SEC_PER_YEAR, SEC_PER_4_YEARS))
InEraAt(ts, into400) ==
    IF into400 < SEC_PER_FIRST_100_YEARS THEN InCycleAt(ts, floor_mod(into400, SEC_PER_4_YEARS))
    ELSE LaterAt(ts, (into400 - SEC_PER_FIRST_100_YEARS) % SEC_PER_100_YEARS)

\* What passed of four years that begin with a leap year is taken off in whole days.
LEMMA InCycleInDays ==
    ASSUME NEW ts, NEW n \in Int, NEW s \in 0 .. SEC_PER_DAY - 1
    PROVE  InCycleAt(ts, Seconds(n, s)) = ts - Seconds(DayInCycle(n), s)
<1>1. /\ Seconds(n, s) >= SEC_PER_LEAP_YEAR <=> n >= LeapYear
      /\ Seconds(n, s) - SEC_PER_LEAP_YEAR = Seconds(n - LeapYear, s)
      /\ Seconds(n, s) - 0 = Seconds(n, s)
  BY BeyondCycles
<1>2. CASE n >= LeapYear
  <2>1. InCycleAt(ts, Seconds(n, s)) = ts - floor_mod(Seconds(n - LeapYear, s), SEC_PER_YEAR)
    BY <1>1, <1>2, Zenon DEF InCycleAt
  <2>2. floor_mod(Seconds(n - LeapYear, s), SEC_PER_YEAR) = Seconds((n - LeapYear) % CommonYear, s)
    <3>1. n - LeapYear \in Int
      BY CycleTypes
    <3> QED
      BY <3>1, WithinCycles, Zenon
  <2>3. DayInCycle(n) = (n - LeapYear) % CommonYear
    BY <1>2 DEF DayInCycle
  <2> QED
    BY <2>1, <2>2, <2>3, Zenon
<1>3. CASE ~(n >= LeapYear)
  <2>1. InCycleAt(ts, Seconds(n, s)) = ts - floor_mod(Seconds(n, s), SEC_PER_YEAR)
    BY <1>1, <1>3, Zenon DEF InCycleAt
  <2>2. floor_mod(Seconds(n, s), SEC_PER_YEAR) = Seconds(n % CommonYear, s)
    BY WithinCycles, Zenon
  <2>3. DayInCycle(n) = n % CommonYear
    BY <1>3 DEF DayInCycle
  <2> QED
    BY <2>1, <2>2, <2>3, Zenon
<1> QED
  BY <1>2, <1>3

\* CenturyYearStart() takes off the days its cycles of days say.
LEMMA CenturyStartInDays ==
    ASSUME NEW n \in Int, NEW s \in 0 .. SEC_PER_DAY - 1, NEW e, e = (n - To2000) % Era400
    PROVE  CenturyYearStart(Seconds(n, s)) = Seconds(n, s) - Seconds(DayInEra(e), s)
<1>1. PICK ts : ts = Seconds(n, s)
  OBVIOUS
<1>2. /\ e \in Int /\ e - FirstCentury \in Int /\ (e - FirstCentury) % Century \in Int
      /\ ((e - FirstCentury) % Century) - FourCommon \in Int
      /\ n - To2000 \in Int
  BY CycleTypes
<1>3. CenturyYearStart(ts) = InEraAt(ts, floor_mod(ts - BIAS_2000, SEC_PER_400_YEARS))
  BY DEF CenturyYearStart, InEraAt, LaterAt, InCycleAt
<1>4. CenturyYearStart(ts) = InEraAt(ts, Seconds(e, s))
  <2>1. ts - BIAS_2000 = Seconds(n - To2000, s)
    BY <1>1, BeyondCycles, Zenon
  <2>2. floor_mod(Seconds(n - To2000, s), SEC_PER_400_YEARS) = Seconds(e, s)
    BY <1>2, WithinCycles, Zenon
  <2> QED
    BY <1>3, <2>1, <2>2, Zenon
<1>5. CASE e < FirstCentury
  <2>1. Seconds(e, s) < SEC_PER_FIRST_100_YEARS
    BY <1>2, <1>5, BeyondCycles, Zenon
  <2>2. floor_mod(Seconds(e, s), SEC_PER_4_YEARS) = Seconds(e % FourYears, s) /\ e % FourYears \in Int
    <3>1. e % FourYears \in Int
      BY <1>2, CycleTypes
    <3> QED
      BY <1>2, <3>1, WithinCycles, Zenon
  <2>3. InEraAt(ts, Seconds(e, s)) = ts - Seconds(DayInCycle(e % FourYears), s)
    BY <2>1, <2>2, InCycleInDays, Zenon DEF InEraAt
  <2>4. DayInEra(e) = DayInCycle(e % FourYears)
    BY <1>5, Zenon DEF DayInEra
  <2> QED
    BY <1>1, <1>4, <2>3, <2>4, Zenon
<1>6. CASE ~(e < FirstCentury)
  <2>1. PICK f \in Int : f = e - FirstCentury
    BY <1>2
  <2>2. PICK c \in Int : c = f % Century
    BY <1>2, <2>1
  <2>3. PICK g \in Int : g = c - FourCommon
    <3>1. c \in Int /\ FourCommon \in Int
      BY <2>2, CycleTypes, Zenon
    <3>2. c - FourCommon \in Int
      BY <3>1, SMT
    <3> QED
      BY <3>2, Zenon
  <2>4. ~(Seconds(e, s) < SEC_PER_FIRST_100_YEARS) /\ Seconds(e, s) - SEC_PER_FIRST_100_YEARS = Seconds(f, s)
    BY <1>2, <1>6, <2>1, BeyondCycles, Zenon
  <2>5. Seconds(f, s) % SEC_PER_100_YEARS = Seconds(c, s)
    BY <2>2, WithinCycles, Zenon
  <2>6. InEraAt(ts, Seconds(e, s)) = LaterAt(ts, Seconds(c, s))
    BY <2>4, <2>5, Zenon DEF InEraAt
  <2>7. DayInEra(e) = IF c < FourCommon THEN c % CommonYear ELSE DayInCycle(g % FourYears)
    BY <1>6, <2>1, <2>2, <2>3, Zenon DEF DayInEra
  <2>8. CASE c < FourCommon
    <3>1. Seconds(c, s) < 4 * SEC_PER_YEAR
      BY <2>8, BeyondCycles, Zenon
    <3>2. floor_mod(Seconds(c, s), SEC_PER_YEAR) = Seconds(c % CommonYear, s)
      BY WithinCycles, Zenon
    <3>3. LaterAt(ts, Seconds(c, s)) = ts - Seconds(c % CommonYear, s)
      BY <3>1, <3>2, Zenon DEF LaterAt
    <3> QED
      BY <1>1, <1>4, <2>6, <2>7, <2>8, <3>3, Zenon
  <2>9. CASE ~(c < FourCommon)
    <3>1. ~(Seconds(c, s) < 4 * SEC_PER_YEAR) /\ Seconds(c, s) - 4 * SEC_PER_YEAR = Seconds(g, s)
      BY <2>3, <2>9, BeyondCycles, Zenon
    <3>2. floor_mod(Seconds(g, s), SEC_PER_4_YEARS) = Seconds(g % FourYears, s) /\ g % FourYears \in Int
      <4>1. g % FourYears \in Int
        BY CycleTypes
      <4> QED
        BY <4>1, WithinCycles, Zenon
    <3>3. LaterAt(ts, Seconds(c, s)) = ts - Seconds(DayInCycle(g % FourYears), s)
      BY <3>1, <3>2, InCycleInDays, Zenon DEF LaterAt
    <3> QED
      BY <1>1, <1>4, <2>6, <2>7, <2>9, <3>3, Zenon
  <2> QED
    BY <2>8, <2>9
<1> QED
  BY <1>5, <1>6

\* The days before a year that is b years after a leap year.
AfterLeap(b) == IF b = 0 THEN 0 ELSE 365 * b + 1

\* All of them: a leap year's last day counts as its first.
Wrapped(i) == IF i = 365 THEN 0 ELSE i

\* Within four years: the i-th day of year b is the i-th of its year.
LEMMA DayOfCycle ==
    ASSUME NEW a \in Int, NEW b \in 0..3, NEW i \in 0..365, i = 365 => b = 0
    PROVE  DayInCycle((FourYears * a + AfterLeap(b) + i) % FourYears) = Wrapped(i)
<1> DEFINE r == AfterLeap(b) + i
<1>1. r \in 0..1460 /\ (1461 * a + AfterLeap(b) + i) % 1461 = r
  BY SMT DEF AfterLeap
<1>2. CASE b = 0
  BY <1>1, <1>2, SMT DEF DayInCycle, FourYears, LeapYear, CommonYear, AfterLeap, Wrapped
<1>3. CASE b # 0
  <2>1. r >= 366 /\ r - 366 = 365 * (b - 1) + i
    BY <1>3, SMT DEF AfterLeap
  <2>2. i # 365 /\ (r - 366) % 365 = i
    BY <1>3, <2>1, SMT
  <2> QED
    BY <1>1, <1>3, <2>1, <2>2, SMT DEF DayInCycle, FourYears, LeapYear, CommonYear, Wrapped
<1> QED
  BY <1>2, <1>3

\* A remainder of whole eras or centuries is what they leave.
LEMMA WithinConstants ==
    ASSUME NEW q \in Int
    PROVE  /\ \A d \in Nat : d < Era400 => (Era400 * q + d) % Era400 = d
           /\ \A d \in Nat : d < Century => (Century * q + d) % Century = d
<1>1. ASSUME NEW k \in Nat \ {0}, NEW d \in Nat, d < k PROVE (k * q + d) % k = d
  <2>1. d \in 0 .. k - 1 /\ q * k + d = k * q + d
    BY <1>1
  <2> QED
    BY <1>1, <2>1, Quotients
<1> QED
  BY <1>1, CycleTypes

\* So many years of a century stay within it.
LEMMA CycleBounds ==
    ASSUME NEW a \in Nat, NEW b \in 0..3, NEW i \in 0..365, i = 365 => b = 0
    PROVE  /\ a <= 24 => FourYears * a + AfterLeap(b) + i \in Nat /\ FourYears * a + AfterLeap(b) + i < FirstCentury
           /\ a <= 23 => FourCommon + (FourYears * a + AfterLeap(b) + i) < Century
           /\ FourYears * a + AfterLeap(b) + i \in Nat
<1>1. AfterLeap(b) + i \in 0..1460 /\ AfterLeap(b) \in Nat
  BY SMT DEF AfterLeap
<1>2. /\ FourYears * a \in Nat
      /\ a <= 24 => FourYears * a <= 35064
      /\ a <= 23 => FourYears * a <= 33603
  BY SMT DEF FourYears
<1> DEFINE x == AfterLeap(b)
           p == FourYears * a
<1>3. p + x + i = p + (x + i)
  BY <1>1, <1>2
<1>4. x + i \in 0..1460 /\ p \in Nat /\ (a <= 24 => p <= 35064) /\ (a <= 23 => p <= 33603)
  BY <1>1, <1>2
<1> HIDE DEF x, p
<1>5. PICK z : z = x + i
  OBVIOUS
<1>6. (a <= 24 => p + z < FirstCentury) /\ (a <= 23 => FourCommon + (p + z) < Century) /\ p + z \in Nat
  BY <1>4, <1>5, SMT DEF FirstCentury, FourCommon, Century
<1>7. (a <= 24 => p + x + i < FirstCentury) /\ (a <= 23 => FourCommon + (p + x + i) < Century) /\ p + x + i \in Nat
  BY <1>3, <1>5, <1>6, SMT
<1> QED
  BY <1>7 DEF x, p

\* Days of the first century of an era count by four years from its first day.
LEMMA InEarlyYear ==
    ASSUME NEW q \in Int, NEW d \in Nat, d < FirstCentury
    PROVE  DayInEra((Era400 * q + d) % Era400) = DayInCycle(d % FourYears)
<1>1. d < Era400
  BY SMT DEF FirstCentury, Era400
<1>2. (Era400 * q + d) % Era400 = d
  BY <1>1, WithinConstants
<1> QED
  BY <1>1, <1>2, SMT DEF DayInEra

\* Those of a later one count four common years first.
LEMMA InLaterYear ==
    ASSUME NEW q \in Int, NEW c \in 0..2, NEW g \in Nat, g < Century
    PROVE  DayInEra((Era400 * q + (FirstCentury + (Century * c + g))) % Era400)
             = IF g < FourCommon THEN g % CommonYear ELSE DayInCycle((g - FourCommon) % FourYears)
<1> DEFINE d == FirstCentury + (Century * c + g)
<1>1. d \in Nat /\ d < Era400 /\ g \in Nat /\ g < Century /\ ~(d < FirstCentury) /\ d - FirstCentury = Century * c + g
  BY SMT DEF FirstCentury, Era400, Century
<1> HIDE DEF d
<1>2. (Era400 * q + d) % Era400 = d
  BY <1>1, WithinConstants
<1>3. (Century * c + g) % Century = g
  BY <1>1, WithinConstants
<1>4. DayInEra(d) = IF g < FourCommon THEN g % CommonYear ELSE DayInCycle((g - FourCommon) % FourYears)
  BY <1>1, <1>3, SMT DEF DayInEra
<1> QED
  BY <1>2, <1>4, SMT DEF d

\* The days of an era by the digits of their years: of the first century, of the
\* four common years that begin another one, and of the years after those.
DayInItsEra(n)          == DayInEra(n % Era400)
EarlyDay(q, a, b, i)    == Era400 * q + (FourYears * a + AfterLeap(b) + i)
CommonDay(q, c, v, i)   == Era400 * q + (FirstCentury + (Century * c + (CommonYear * v + i)))
LateDay(q, c, a, b, i)  == Era400 * q + (FirstCentury + (Century * c + (FourCommon + (FourYears * a + AfterLeap(b) + i))))

\* The i-th day of a year of the first century is the i-th of its year.
LEMMA DaysOfEarlyYear ==
    ASSUME NEW q \in Int, NEW a \in 0..24, NEW b \in 0..3, NEW i \in 0..365, i = 365 => b = 0
    PROVE  DayInItsEra(EarlyDay(q, a, b, i)) = Wrapped(i)
<1>1. a \in Int /\ a \in Nat /\ a <= 24
  OBVIOUS
<1>2. FourYears * a + AfterLeap(b) + i \in Nat /\ FourYears * a + AfterLeap(b) + i < FirstCentury
  BY <1>1, CycleBounds, Zenon
<1>3. DayInCycle((FourYears * a + AfterLeap(b) + i) % FourYears) = Wrapped(i)
  BY <1>1, DayOfCycle, Zenon
<1> QED
  BY <1>2, <1>3, InEarlyYear, Zenon DEF EarlyDay, DayInItsEra

\* The first four years of the other centuries are common.
LEMMA DaysOfCommonYear ==
    ASSUME NEW q \in Int, NEW v \in 0..3
    PROVE  \A c \in 0..2, i \in 0..364 : DayInItsEra(CommonDay(q, c, v, i)) = i
<1> TAKE c \in 0..2, i \in 0..364
<1> DEFINE g == CommonYear * v + i
<1>1. g \in Nat /\ g < FourCommon /\ g < Century
  <2>1. 365 * v \in Nat /\ 365 * v <= 1095
    BY SMT
  <2>2. i \in Nat /\ i <= 364
    BY SMT
  <2> QED
    BY <2>1, <2>2, SMT DEF CommonYear, FourCommon, Century
<1>2. g % CommonYear = i
  BY SMT DEF CommonYear
<1> HIDE DEF g
<1>3. DayInEra((Era400 * q + (FirstCentury + (Century * c + g))) % Era400) = i
  BY <1>1, <1>2, InLaterYear, Zenon
<1> QED
  BY <1>3, Zenon DEF g, CommonDay, DayInItsEra

\* So it is past the first four years of a later century.
LEMMA DaysOfLaterYear ==
    ASSUME NEW q \in Int, NEW b \in 0..3
    PROVE  \A c \in 0..2, a \in 0..23, i \in 0..365 :
              (i = 365 => b = 0) => DayInItsEra(LateDay(q, c, a, b, i)) = Wrapped(i)
<1> TAKE c \in 0..2, a \in 0..23, i \in 0..365
<1> HAVE i = 365 => b = 0
<1> DEFINE h == FourYears * a + AfterLeap(b) + i
<1>1. a \in Int /\ a \in Nat /\ a <= 23
  OBVIOUS
<1>2. h \in Nat /\ FourCommon + h < Century
  BY <1>1, CycleBounds, Zenon
<1>3. DayInCycle(h % FourYears) = Wrapped(i)
  BY <1>1, DayOfCycle, Zenon
<1> HIDE DEF h
<1>4. FourCommon + h \in Nat /\ FourCommon + h < Century /\ ~(FourCommon + h < FourCommon) /\ (FourCommon + h) - FourCommon = h
  BY <1>2, CycleTypes, SMT
<1>5. DayInEra((Era400 * q + (FirstCentury + (Century * c + (FourCommon + h)))) % Era400) = Wrapped(i)
  BY <1>3, <1>4, InLaterYear, Zenon
<1> QED
  BY <1>5, Zenon DEF h, LateDay, DayInItsEra

\* A year by its digits, counted from 2000.
YearOf400(q, c, a, b) == 2000 + 400 * q + 100 * c + 4 * a + b

\* Every year has its digits.
LEMMA YearDigits ==
    ASSUME NEW y \in Int
    PROVE  \E q \in Int, c \in 0..3, a \in 0..24, b \in 0..3 : y = YearOf400(q, c, a, b)
<1> DEFINE q == (y - 2000) \div 400
           w == (y - 2000) % 400
           c == w \div 100
           v == w % 100
           a == v \div 4
           b == v % 4
<1>1. q \in Int /\ w \in 0..399 /\ y = 2000 + 400 * q + w
  BY SMT
<1> HIDE DEF q, w
<1>2. c \in 0..3 /\ v \in 0..99 /\ w = 100 * c + v
  BY <1>1, SMT
<1> HIDE DEF c, v
<1>3. a \in 0..24 /\ b \in 0..3 /\ v = 4 * a + b
  BY <1>2, SMT
<1> HIDE DEF a, b
<1>4. y = YearOf400(q, c, a, b)
  BY <1>1, <1>2, <1>3, SMT DEF YearOf400
<1> QED
  BY <1>1, <1>2, <1>3, <1>4

\* The day a leap year would have had, in the first year of a common century.
NoLeap(c, a, b) == IF c # 0 /\ a = 0 /\ b = 0 THEN 1 ELSE 0

\* They tell a leap year.
LEMMA LeapDigits ==
    ASSUME NEW q \in Int, NEW c \in 0..3, NEW a \in 0..24, NEW b \in 0..3
    PROVE  IsLeap(YearOf400(q, c, a, b)) <=> b = 0 /\ (c = 0 \/ a # 0)
<1> DEFINE y == YearOf400(q, c, a, b)
<1>1. y \in Int /\ y = 2000 + 400 * q + 100 * c + 4 * a + b
  BY SMT DEF YearOf400
<1> HIDE DEF y
<1>2. y % 4 = b
  BY <1>1, SMT
<1>3. y % 100 = 4 * a + b
  BY <1>1, SMT
<1>4. y % 400 = 100 * c + 4 * a + b
  BY <1>1, SMT
<1>5. IsLeap(y) <=> b = 0 /\ (c = 0 \/ a # 0)
  BY <1>2, <1>3, <1>4, SMT DEF IsLeap
<1> QED
  BY <1>5 DEF y

\* They tell the days before it.
LEMMA DaysByDigits ==
    ASSUME NEW q \in Int, NEW c \in 0..3, NEW a \in 0..24, NEW b \in 0..3
    PROVE  DaysBeforeYear(YearOf400(q, c, a, b)) =
             To2000 + Era400 * q + Century * c + FourYears * a + AfterLeap(b) + NoLeap(c, a, b)
<1> DEFINE y == YearOf400(q, c, a, b)
           z == y - 1
           o == IF a = 0 /\ b = 0 THEN 0 ELSE 1
<1>1. y \in Int /\ z = 1999 + 400 * q + 100 * c + 4 * a + b /\ z \in Int /\ y = 2000 + 400 * q + 100 * c + 4 * a + b
  BY SMT DEF YearOf400
<1> HIDE DEF y, z
<1>2. z \div 4 = 499 + 100 * q + 25 * c + a + (IF b = 0 THEN 0 ELSE 1)
  BY <1>1, SMT
<1>3. z \div 100 = 19 + 4 * q + c + o
  BY <1>1, SMT
<1>4. z \div 400 = 4 + q + (IF c = 0 THEN o ELSE 1)
  BY <1>1, SMT
<1>5. LeapYearsBefore(y) = 484 + 97 * q + 24 * c + a + (IF b = 0 THEN 0 ELSE 1) + (IF c = 0 THEN 0 ELSE 1 - o)
  BY <1>1, <1>2, <1>3, <1>4, SMT DEF LeapYearsBefore, z
<1>6. LeapYearsBefore(1970) = 477
  BY SMT DEF LeapYearsBefore
<1> QED
  BY <1>1, <1>5, <1>6, SMT DEF DaysBeforeYear, AfterLeap, NoLeap, y, To2000, Era400, Century, FourYears

\* By the count of the code: as many days of the year have passed as have.
LEMMA YearInEra ==
    ASSUME NEW y \in Int, NEW i \in 0..365, i = 365 => IsLeap(y)
    PROVE  DayInEra(((DaysBeforeYear(y) + i) - To2000) % Era400) = Wrapped(i)
<1>1. PICK q \in Int, c \in 0..3, a \in 0..24, b \in 0..3 : y = YearOf400(q, c, a, b)
  BY YearDigits
<1>2. i = 365 => b = 0 /\ (c = 0 \/ a # 0)
  BY <1>1, LeapDigits
<1> DEFINE first == NoLeap(c, a, b)
<1>3. DaysBeforeYear(y) = To2000 + Era400 * q + Century * c + FourYears * a + AfterLeap(b) + first
  BY <1>1, DaysByDigits, Zenon
<1>4. AfterLeap(b) \in Nat
  BY SMT DEF AfterLeap
<1>5. \A r \in 0..365 : (r = 365 => b = 0) => DayInItsEra(EarlyDay(q, a, b, r)) = Wrapped(r)
  BY DaysOfEarlyYear
<1>6. \A k \in 0..2, r \in 0..364 : DayInItsEra(CommonDay(q, k, b, r)) = r
  BY DaysOfCommonYear
<1>7. \A k \in 0..2, n \in 0..23, r \in 0..365 :
         (r = 365 => b = 0) => DayInItsEra(LateDay(q, k, n, b, r)) = Wrapped(r)
  BY DaysOfLaterYear
<1>8. CASE c = 0
  <2>1. first = 0
    BY <1>8, SMT DEF NoLeap
  <2> HIDE DEF first
  <2>2. (DaysBeforeYear(y) + i) - To2000 = EarlyDay(q, a, b, i)
    BY <1>3, <1>4, <1>8, <2>1, SMT DEF EarlyDay, To2000, Era400, Century, FourYears
  <2>3. DayInItsEra(EarlyDay(q, a, b, i)) = Wrapped(i)
    <3>1. i = 365 => b = 0
      BY <1>2
    <3> QED
      BY <1>5, <3>1
  <2> QED
    BY <2>2, <2>3, Zenon DEF DayInItsEra
<1>9. CASE c # 0 /\ a = 0
  <2>1. i \in 0..364
    BY <1>2, <1>9
  <2>2. c - 1 \in 0..2
    BY <1>9
  <2>3. AfterLeap(b) + first = 365 * b + 1
    BY <1>9, SMT DEF AfterLeap, NoLeap
  <2>4. first \in Int
    BY SMT DEF NoLeap
  <2> HIDE DEF first
  <2>5. (DaysBeforeYear(y) + i) - To2000 = CommonDay(q, c - 1, b, i)
    BY <1>3, <1>4, <1>9, <2>3, <2>4, SMT DEF CommonDay, To2000, Era400, FirstCentury, Century, CommonYear, FourYears
  <2>6. Wrapped(i) = i
    BY <2>1, SMT DEF Wrapped
  <2>7. DayInItsEra(CommonDay(q, c - 1, b, i)) = i
    <3> DEFINE century == c - 1
    <3>1. century \in 0..2
      BY <2>2
    <3> HIDE DEF century
    <3>2. DayInItsEra(CommonDay(q, century, b, i)) = i
      BY <1>6, <2>1, <3>1
    <3> QED
      BY <3>2 DEF century
  <2> QED
    BY <2>5, <2>6, <2>7, Zenon DEF DayInItsEra
<1>10. CASE c # 0 /\ a # 0
  <2>1. c - 1 \in 0..2 /\ a - 1 \in 0..23 /\ first = 0
    BY <1>10, SMT DEF NoLeap
  <2> HIDE DEF first
  <2>2. (DaysBeforeYear(y) + i) - To2000 = LateDay(q, c - 1, a - 1, b, i)
    BY <1>3, <1>4, <1>10, <2>1, SMT DEF LateDay, To2000, Era400, FirstCentury, Century, FourCommon, FourYears
  <2>3. DayInItsEra(LateDay(q, c - 1, a - 1, b, i)) = Wrapped(i)
    <3> DEFINE century == c - 1
               cycle   == a - 1
    <3>1. century \in 0..2 /\ cycle \in 0..23 /\ (i = 365 => b = 0)
      BY <1>2, <2>1
    <3> HIDE DEF century, cycle
    <3>2. DayInItsEra(LateDay(q, century, cycle, b, i)) = Wrapped(i)
      BY <1>7, <3>1
    <3> QED
      BY <3>2 DEF century, cycle
  <2> QED
    BY <2>2, <2>3, Zenon DEF DayInItsEra
<1> QED
  BY <1>8, <1>9, <1>10

\* The years RecentYearStart() is for: those of the days from 1970 to 2099.
RecentYear(y) == y \in 1970..2099

\* So it is asked of the moments of these years, and of no other.
LEMMA RecentYears ==
    ASSUME NEW y \in Int, NEW i \in 0..365, i = 365 => IsLeap(y), NEW n, n = DaysBeforeYear(y) + i
    PROVE  /\ n \in Int
           /\ (n >= 0 /\ n < To2100) <=> RecentYear(y)
<1>1. DaysBeforeYear(1970) = 0 /\ DaysBeforeYear(2100) = 47482
  BY SMT DEF DaysBeforeYear, LeapYearsBefore
<1>2. /\ n \in Int /\ DaysBeforeYear(y) \in Int /\ DaysBeforeYear(y + 1) \in Int
      /\ n >= DaysBeforeYear(y) /\ n < DaysBeforeYear(y + 1)
  <2>1. DaysBeforeYear(y) \in Int /\ DaysBeforeYear(y + 1) \in Int
    BY CountsAreIntegers
  <2>2. DaysBeforeYear(y + 1) = DaysBeforeYear(y) + YearLength(y)
    BY YearsAddUp
  <2>3. i \in Nat /\ i < YearLength(y) /\ YearLength(y) \in Int
    BY DEF YearLength
  <2> QED
    BY <2>1, <2>2, <2>3, SMT
<1>3. ASSUME NEW j \in Int, NEW k \in Int, j <= k PROVE DaysBeforeYear(j) <= DaysBeforeYear(k)
  BY <1>3, SMT DEF DaysBeforeYear, LeapYearsBefore
<1>4. y >= 1970 => DaysBeforeYear(1970) <= DaysBeforeYear(y)
  BY <1>3
<1>5. y < 1970 => DaysBeforeYear(y + 1) <= DaysBeforeYear(1970)
  BY <1>3
<1>6. y >= 2100 => DaysBeforeYear(2100) <= DaysBeforeYear(y)
  BY <1>3
<1>7. y < 2100 => DaysBeforeYear(y + 1) <= DaysBeforeYear(2100)
  BY <1>3
<1> QED
  BY <1>1, <1>2, <1>4, <1>5, <1>6, <1>7, SMT DEF To2100, RecentYear

\* The step of RecentYearStart(), and the same in days.
RecentAt(ts, into) == ts - into +
    (CASE into < SEC_PER_YEAR                             -> 0
       [] into >= SEC_PER_YEAR /\ into < 2 * SEC_PER_YEAR -> SEC_PER_YEAR
       [] into >= 2 * SEC_PER_YEAR /\ into < 2 * SEC_PER_YEAR + SEC_PER_LEAP_YEAR -> 2 * SEC_PER_YEAR
       [] OTHER                                           -> 2 * SEC_PER_YEAR + SEC_PER_LEAP_YEAR)
YearsBegun(r) == IF r < CommonYear THEN 0 ELSE IF r < TwoYears THEN CommonYear
                 ELSE IF r < ThreeYears THEN TwoYears ELSE ThreeYears

\* RecentYearStart() leaves the days of the years of four that have begun.
LEMMA RecentInDays ==
    ASSUME NEW ts \in Int, NEW r \in Int, NEW s \in 0 .. SEC_PER_DAY - 1
    PROVE  RecentAt(ts, Seconds(r, s)) = (ts - Seconds(r, s)) + Days(YearsBegun(r))
<1>1. /\ Seconds(r, s) < Days(CommonYear) <=> r < CommonYear
      /\ Seconds(r, s) < Days(TwoYears) <=> r < TwoYears
      /\ Seconds(r, s) < Days(ThreeYears) <=> r < ThreeYears
      /\ Seconds(r, s) >= Days(CommonYear) <=> r >= CommonYear
      /\ Seconds(r, s) >= Days(TwoYears) <=> r >= TwoYears
  <2>1. TwoYears \in Int /\ ThreeYears \in Int
    BY CycleTypes
  <2> QED
    BY <2>1, DaysCompare, CycleTypes, Zenon
<1>2. Days(0) = 0
  BY Units DEF Days
<1> DEFINE into == Seconds(r, s)
<1> DEFINE one == SEC_PER_YEAR
           two == 2 * SEC_PER_YEAR
           three == 2 * SEC_PER_YEAR + SEC_PER_LEAP_YEAR
<1>3. RecentAt(ts, into) = ts - into +
        (CASE into < one                   -> 0
           [] into >= one /\ into < two   -> one
           [] into >= two /\ into < three -> two
           [] OTHER                       -> three)
  BY DEF RecentAt
<1>4. one = Days(CommonYear) /\ two = Days(TwoYears) /\ three = Days(ThreeYears)
  BY CyclesOfDays, CyclesAdded, Zenon
<1>5. r < CommonYear \/ r >= CommonYear
  BY CycleTypes
<1>6. r < TwoYears \/ r >= TwoYears
  BY CycleTypes
<1>7. /\ r >= CommonYear => ~(r < CommonYear)
      /\ r >= TwoYears => ~(r < TwoYears) /\ r >= CommonYear
      /\ ~(r < ThreeYears) => r >= TwoYears
  BY SMT DEF CommonYear, TwoYears, ThreeYears
<1> HIDE DEF into, one, two, three
<1>8. CASE r < CommonYear
  <2>1. YearsBegun(r) = 0
    BY <1>8 DEF YearsBegun
  <2>2. into < one
    BY <1>1, <1>4, <1>8, Zenon DEF into
  <2>3. TwoYears \in Int /\ ThreeYears \in Int
    BY CycleTypes
  <2>4. ~(into >= two)
    BY <1>1, <1>4, <1>5, <1>7, <1>8, Zenon DEF into
  <2>5. ts - into + (CASE into < one                -> 0
                       [] into >= one /\ into < two   -> one
                       [] into >= two /\ into < three -> two
                       [] OTHER                       -> three) = (ts - into) + 0
    <3>1. into \in Int /\ one \in Int /\ two \in Int /\ three \in Int
      BY <1>4, <2>3, DaysCompare, CycleTypes, Zenon DEF into
    <3>2. ~(into >= one)
      BY <2>2, <3>1, SMT
    <3> QED
      BY <2>2, <2>4, <3>1, <3>2, SMT
  <2> QED
    BY <1>2, <1>3, <2>1, <2>5, Zenon DEF into
<1>9. CASE r >= CommonYear /\ r < TwoYears
  BY <1>1, <1>3, <1>4, <1>7, <1>9, SMT DEF YearsBegun, into
<1>10. CASE r >= TwoYears /\ r < ThreeYears
  BY <1>1, <1>3, <1>4, <1>7, <1>10, SMT DEF YearsBegun, into
<1>11. CASE ~(r < ThreeYears)
  BY <1>1, <1>3, <1>4, <1>7, <1>11, SMT DEF YearsBegun, into
<1> QED
  BY <1>5, <1>6, <1>8, <1>9, <1>10, <1>11

\* Between 1970 and 2099 these are the days before the year.
LEMMA RecentDays ==
    ASSUME NEW y \in Int, RecentYear(y), NEW i \in 0..365, i = 365 => IsLeap(y), NEW n, n = DaysBeforeYear(y) + i
    PROVE  n \in Int /\ n % FourYears \in Int /\ n - (n % FourYears) + YearsBegun(n % FourYears) = DaysBeforeYear(y)
<1> USE DEF RecentYear
<1> DEFINE a == (y - 1970) \div 4
           b == (y - 1970) % 4
           before == IF b = 0 THEN 0 ELSE IF b = 1 THEN 365 ELSE IF b = 2 THEN 730 ELSE 1096
           r == before + i
<1>1. a \in 0..32 /\ b \in 0..3 /\ y = 1970 + 4 * a + b
  BY SMT
<1> HIDE DEF a, b
<1>2. IsLeap(y) => b = 2
  BY <1>1, SMT DEF IsLeap
<1>3. DaysBeforeYear(y) = 1461 * a + before
  <2>1. (y - 1) \div 4 = 492 + a + (IF b = 3 THEN 1 ELSE 0)
    <3>1. y - 1 = 4 * (492 + a) + (b + 1)
      BY <1>1, SMT
    <3>2. CASE b = 3
      BY <1>1, <3>1, <3>2, SMT
    <3>3. CASE b # 3
      BY <1>1, <3>1, <3>3, SMT
    <3> QED
      BY <3>2, <3>3
  <2>2. (y - 1) \div 400 = 4 + (IF y >= 2001 THEN 1 ELSE 0)
    BY SMT
  <2>3. (y - 1) \div 100 = 19 + (IF y >= 2001 THEN 1 ELSE 0)
    BY SMT
  <2>4. LeapYearsBefore(1970) = 477
    BY SMT DEF LeapYearsBefore
  <2>5. LeapYearsBefore(y) = 477 + a + (IF b = 3 THEN 1 ELSE 0)
    BY <1>1, <2>1, <2>2, <2>3, SMT DEF LeapYearsBefore
  <2> QED
    BY <1>1, <2>4, <2>5, SMT DEF DaysBeforeYear
<1>4. r \in Nat /\ r < 1461 /\ YearsBegun(r) = before
  BY <1>1, <1>2, SMT DEF YearsBegun, CommonYear, TwoYears, ThreeYears
<1>5. n = 1461 * a + r /\ before \in Int
  BY <1>1, <1>3, <1>4, SMT
<1> HIDE DEF r
<1>6. n % FourYears = r
  BY <1>1, <1>4, <1>5, SMT DEF FourYears
<1>7. n - r = DaysBeforeYear(y) - before
  BY <1>1, <1>3, <1>4, <1>5, SMT DEF r
<1> HIDE DEF before
<1> QED
  BY <1>1, <1>3, <1>4, <1>5, <1>6, <1>7, SMT

\* start_of_year() is the first midnight of the year, but for 31 December of a leap
\* year outside 1970..2099, whose own midnight it is.
LEMMA YearBegins ==
    ASSUME NEW y \in Int, NEW i \in 0..365, i = 365 => IsLeap(y), NEW s \in 0 .. SEC_PER_DAY - 1,
           NEW n, n = DaysBeforeYear(y) + i
    PROVE  start_of_year(Seconds(n, s)) = Days(IF i = 365 /\ ~RecentYear(y) THEN n ELSE DaysBeforeYear(y))
<1>1. /\ n \in Int
      /\ (n >= 0 /\ n < To2100) <=> RecentYear(y)
  BY RecentYears, Zenon
<1>2. DaysBeforeYear(y) \in Int
  BY CountsAreIntegers
<1> DEFINE ts == Seconds(n, s)
<1>3. To2100 \in Int /\ 0 \in Int
  BY CycleTypes
<1>4. ts \in Int /\ (ts >= Days(0) <=> n >= 0) /\ (ts < Days(To2100) <=> n < To2100)
  BY <1>1, <1>3, DaysCompare, Zenon
<1>5. Days(0) = 0 /\ BIAS_2100 = Days(To2100)
  BY CyclesOfDays, Units DEF Days
<1>6. start_of_year(ts) = IF RecentYear(y) THEN RecentYearStart(ts) ELSE CenturyYearStart(ts)
  <2>1. (ts >= 0 /\ ts < BIAS_2100) <=> RecentYear(y)
    BY <1>1, <1>4, <1>5, SMT
  <2> QED
    BY <2>1 DEF start_of_year
<1>7. ASSUME NEW k \in Int PROVE Seconds(n, s) - Seconds(k, s) = Days(n - k)
  <2>1. SEC_PER_DAY \in Int
    BY Units
  <2> QED
    BY <1>1, <2>1, SMT DEF Seconds, Days
<1>8. CASE RecentYear(y)
  <2> DEFINE r == n % FourYears
  <2>1. r \in Int /\ n - r + YearsBegun(r) = DaysBeforeYear(y)
    BY <1>8, RecentDays, Zenon
  <2>2. RecentYearStart(ts) = RecentAt(ts, floor_mod(ts, SEC_PER_4_YEARS))
    BY DEF RecentYearStart, RecentAt
  <2>3. floor_mod(ts, SEC_PER_4_YEARS) = Seconds(r, s)
    BY <1>1, WithinCycles, SMT
  <2> HIDE DEF r
  <2>4. RecentYearStart(ts) = (ts - Seconds(r, s)) + Days(YearsBegun(r))
    BY <1>4, <2>1, <2>2, <2>3, RecentInDays, Zenon
  <2>5. ts - Seconds(r, s) = Days(n - r)
    BY <1>7, <2>1
  <2>6. YearsBegun(r) \in Int
    BY CycleTypes DEF YearsBegun
  <2>7. Days(n - r) + Days(YearsBegun(r)) = Days(DaysBeforeYear(y))
    <3>1. SEC_PER_DAY \in Int
      BY Units
    <3> QED
      BY <1>1, <2>1, <2>6, <3>1, SMT DEF Days
  <2> QED
    BY <1>6, <1>8, <2>4, <2>5, <2>7
<1>9. CASE ~RecentYear(y)
  <2> DEFINE e == (n - To2000) % Era400
  <2>1. CenturyYearStart(ts) = ts - Seconds(DayInEra(e), s)
    <3>1. \A m : m = (n - To2000) % Era400 => CenturyYearStart(ts) = ts - Seconds(DayInEra(m), s)
      BY <1>1, CenturyStartInDays, Zenon
    <3> QED
      BY <3>1
  <2>2. DayInEra(e) = Wrapped(i)
    <3>1. DayInEra(((DaysBeforeYear(y) + i) - To2000) % Era400) = Wrapped(i)
      BY YearInEra, Zenon
    <3> QED
      BY <3>1, Zenon
  <2> HIDE DEF e
  <2>3. Wrapped(i) \in Int
    BY DEF Wrapped
  <2>4. ts - Seconds(Wrapped(i), s) = Days(n - Wrapped(i))
    BY <1>7, <2>3
  <2>5. n - Wrapped(i) = IF i = 365 THEN n ELSE DaysBeforeYear(y)
    BY <1>1, <1>2 DEF Wrapped
  <2> QED
    BY <1>6, <1>9, <2>1, <2>2, <2>4, <2>5
<1> QED
  BY <1>8, <1>9

-----------------------------------------------------------------------------
(* The tables of the days of a year                                        *)

\* The tables of a common year give the month a day lies in, and its number there.
LEMMA CommonTables ==
    ASSUME NEW m \in 1..12, NEW n \in Int, mos[m] <= n, m < 12 => n < mos[m + 1]
    PROVE  TABLE_MONTH_OF_YEAR(n) = m /\ TABLE_DAY_OF_YEAR(n) = n - mos[m] + 1
<1>1. mos \in [1..12 -> 0..334]
  BY DEF mos
<1>2. \A j \in 1..12, k \in 1..12 : j <= k => mos[j] <= mos[k]
  <2> SUFFICES ASSUME NEW j \in 1..12, NEW k \in 1..12, j <= k PROVE mos[j] <= mos[k]
    OBVIOUS
  <2>1. \A i \in 1..12 : 30 * i - 31 <= mos[i] /\ mos[i] <= 30 * i - 26 /\ mos[i] \in Int
    BY DEF mos
  <2>2. mos[j] <= 30 * j - 26 /\ 30 * k - 31 <= mos[k] /\ mos[j] \in Int /\ mos[k] \in Int
    BY <2>1
  <2>3. j = k \/ j + 1 <= k
    OBVIOUS
  <2>4. CASE j + 1 <= k
    BY <2>2, <2>4
  <2> QED
    BY <2>2, <2>3, <2>4
<1>3. {k \in 1..12 : mos[k] <= n} = 1..m
  <2>1. ASSUME NEW k \in 1..12 PROVE mos[k] <= n <=> k <= m
    <3>1. CASE k <= m
      <4>1. mos[k] <= mos[m]
        BY <1>2, <3>1
      <4>2. mos[k] \in Int /\ mos[m] \in Int
        BY <1>1
      <4> QED
        BY <3>1, <4>1, <4>2
    <3>2. CASE k > m
      <4>1. m + 1 \in 1..12 /\ m + 1 <= k
        BY <3>2
      <4>2. mos[m + 1] <= mos[k]
        BY <1>2, <4>1
      <4>3. mos[m + 1] \in Int /\ mos[k] \in Int
        BY <1>1, <4>1
      <4> QED
        BY <3>2, <4>1, <4>2, <4>3
    <3> QED
      BY <3>1, <3>2
  <2> QED
    BY <2>1
<1>4. Cardinality(1..m) = m
  <2>1. Cardinality(1..m) = IF 1 > m THEN 0 ELSE m - 1 + 1
    BY FS_Interval
  <2> QED
    BY <2>1
<1>5. TABLE_MONTH_OF_YEAR(n) = m
  BY <1>3, <1>4 DEF TABLE_MONTH_OF_YEAR
<1> QED
  BY <1>5, Zenon DEF TABLE_DAY_OF_YEAR

\* Read one day earlier from 1 March on, they are those of a leap year too; 29
\* February, the 60th day, stands in none.
LEMMA TablesOfTheYear ==
    ASSUME CivilInv, NEW n, n = DaysBefore(date.year, date.month) + date.day
    PROVE  /\ n \in 1..366
           /\ IsLeap(date.year) /\ n = 60 => /\ date.month = 2 /\ date.day = 29
                                             /\ TABLE_MONTH_OF_YEAR(58) = 2 /\ TABLE_DAY_OF_YEAR(58) = 28
           /\ IsLeap(date.year) /\ n > 60 => /\ TABLE_MONTH_OF_YEAR(n - 2) = date.month
                                             /\ TABLE_DAY_OF_YEAR(n - 2) = date.day
           /\ ~(IsLeap(date.year) /\ n >= 60) => /\ TABLE_MONTH_OF_YEAR(n - 1) = date.month
                                                 /\ TABLE_DAY_OF_YEAR(n - 1) = date.day
<1> DEFINE y == date.year
           m == date.month
           d == date.day
           l == IF IsLeap(y) /\ m > 2 THEN 1 ELSE 0
<1>1. y \in Int /\ m \in 1..12 /\ d \in 1..31 /\ d <= MonthLength(y, m)
  BY DEF CivilInv, CivilDate
<1>2. DaysBefore(y, m) = mos[m] + l /\ mos[m] \in 0..334
  <2> HIDE DEF y, m, d
  <2> QED
    BY <1>1 DEF DaysBefore, mos, lmos
<1>3. /\ m < 12 => mos[m] + MonthLength(y, m) = mos[m + 1] + (IF IsLeap(y) /\ m = 2 THEN 1 ELSE 0)
      /\ m < 12 => mos[m + 1] \in 0..334
      /\ m = 12 => MonthLength(y, m) = 31
      /\ MonthLength(y, m) \in 28..31
      /\ m <= 2 => mos[m] <= 31
      /\ m > 2 => mos[m] >= 59
      /\ m = 2 => mos[m] = 31 /\ MonthLength(y, m) = (IF IsLeap(y) THEN 29 ELSE 28)
      /\ m = 1 => mos[m] = 0
  <2> HIDE DEF y, m, d
  <2>1. /\ mos[1] = 0 /\ mos[2] = 31 /\ mos[3] = 59 /\ mos[4] = 90 /\ mos[5] = 120 /\ mos[6] = 151
        /\ mos[7] = 181 /\ mos[8] = 212 /\ mos[9] = 243 /\ mos[10] = 273 /\ mos[11] = 304 /\ mos[12] = 334
    BY DEF mos
  <2>2. MonthLength(y, m) = CASE m = 2 -> (IF IsLeap(y) THEN 29 ELSE 28)
                              [] m \in {4, 6, 9, 11} -> 30
                              [] OTHER -> 31
    BY <1>1 DEF MonthLength
  <2>3. \/ m = 1 \/ m = 2 \/ m = 3 \/ m = 4 \/ m = 5 \/ m = 6
        \/ m = 7 \/ m = 8 \/ m = 9 \/ m = 10 \/ m = 11 \/ m = 12
    BY <1>1
  <2>4. CASE m <= 2
    BY <2>1, <2>2, <2>3, <2>4
  <2>5. CASE m > 2
    BY <2>1, <2>2, <2>3, <2>5
  <2> QED
    BY <1>1, <2>4, <2>5
<1> HIDE DEF y, m, d
<1>4. n = mos[m] + l + d /\ n \in 1..366
  <2>1. n = DaysBefore(y, m) + d
    BY DEF y, m, d
  <2>2. n = mos[m] + l + d /\ mos[m] \in 0..334 /\ l \in 0..1
    BY <1>2, <2>1
  <2>3. m < 12 => mos[m] + MonthLength(y, m) <= 335
    BY <1>3
  <2> DEFINE past   == mos[m]
             length == MonthLength(y, m)
  <2>4. length \in 28..31 /\ d \in 1..31 /\ d <= length /\ m \in 1..12
    BY <1>1, <1>3
  <2>5. /\ n = past + l + d /\ past \in 0..334 /\ l \in 0..1
        /\ m < 12 => past + length <= 335
    BY <2>2, <2>3
  <2> HIDE DEF past, length, l
  <2>6. past + l + d <= 366
    <3>1. CASE m < 12
      BY <2>4, <2>5, <3>1
    <3>2. CASE m = 12
      BY <2>4, <2>5, <3>2
    <3> QED
      BY <2>4, <3>1, <3>2
  <2>7. n = past + l + d /\ n \in 1..366
    BY <2>4, <2>5, <2>6
  <2> QED
    BY <2>7 DEF past
<1>5. TABLE_MONTH_OF_YEAR(58) = 2 /\ TABLE_DAY_OF_YEAR(58) = 28
  <2>1. mos[2] = 31 /\ mos[3] = 59
    BY DEF mos
  <2> QED
    BY <2>1, CommonTables
<1> DEFINE b == mos[m]
<1>6. /\ b \in 0..334 /\ n = b + l + d
      /\ m <= 2 => b <= 31
      /\ m > 2 => b >= 59
      /\ m = 2 => b = 31 /\ (IsLeap(y) => d <= 29)
  BY <1>1, <1>2, <1>3, <1>4
<1>7. /\ m = 1 => b = 0
      /\ m < 12 => mos[m + 1] \in 0..334 /\ b + MonthLength(y, m) = mos[m + 1] + (IF IsLeap(y) /\ m = 2 THEN 1 ELSE 0)
      /\ m = 2 /\ IsLeap(y) => MonthLength(y, m) = 29
  BY <1>3
<1>8. l = IF IsLeap(y) /\ m > 2 THEN 1 ELSE 0
  OBVIOUS
<1> HIDE DEF b, l
<1>9. ASSUME NEW k \in Int, k = b + d - 1, ~(IsLeap(y) /\ m = 2 /\ d = 29)
      PROVE  TABLE_MONTH_OF_YEAR(k) = m /\ TABLE_DAY_OF_YEAR(k) = d
  <2>1. b <= k
    BY <1>1, <1>6, <1>9, SMT
  <2>2. ASSUME m < 12 PROVE k < mos[m + 1]
    <3> DEFINE next == mos[m + 1]
               length == MonthLength(y, m)
    <3>1. /\ next \in 0..334 /\ b + length = next + (IF IsLeap(y) /\ m = 2 THEN 1 ELSE 0)
          /\ m = 2 /\ IsLeap(y) => length = 29
          /\ d <= length /\ length \in 28..31
      BY <1>1, <1>3, <1>7, <2>2
    <3> HIDE DEF next, length
    <3>2. k < next
      BY <1>1, <1>6, <1>9, <3>1, SMT
    <3> QED
      BY <3>2 DEF next
  <2>3. TABLE_MONTH_OF_YEAR(k) = m /\ TABLE_DAY_OF_YEAR(k) = k - b + 1
    BY <1>1, <2>1, <2>2, CommonTables DEF b
  <2>4. k - b + 1 = d
    BY <1>1, <1>6, <1>9, SMT
  <2> QED
    BY <2>3, <2>4
<1>10. ASSUME IsLeap(y), n = 60
       PROVE  m = 2 /\ d = 29
  BY <1>1, <1>6, <1>7, <1>8, <1>10, SMT
<1>11. ASSUME IsLeap(y), n > 60
       PROVE  TABLE_MONTH_OF_YEAR(n - 2) = m /\ TABLE_DAY_OF_YEAR(n - 2) = d
  <2>1. n - 2 = b + d - 1 /\ ~(m = 2 /\ d = 29) /\ n - 2 \in Int
    BY <1>1, <1>6, <1>7, <1>8, <1>11, SMT
  <2> QED
    BY <1>9, <2>1
<1>12. ASSUME ~(IsLeap(y) /\ n >= 60)
       PROVE  TABLE_MONTH_OF_YEAR(n - 1) = m /\ TABLE_DAY_OF_YEAR(n - 1) = d
  <2>1. n - 1 = b + d - 1 /\ ~(IsLeap(y) /\ m = 2 /\ d = 29) /\ n - 1 \in Int
    BY <1>1, <1>6, <1>7, <1>8, <1>12, SMT
  <2> QED
    BY <1>9, <2>1
<1> QED
  BY <1>4, <1>5, <1>10, <1>11, <1>12 DEF y, m, d

-----------------------------------------------------------------------------
(* The first day of the year, and the day of the year                      *)

\* start_of_year() is the first midnight of the year of every moment, and
\* day_of_year() counts from it, but for 31 December of a leap year outside
\* 1970..2099.
YearsBegin ==
    ~EndOfFarLeap =>
        /\ start_of_year(moment) = DaysBeforeYear(date.year) * SEC_PER_DAY
        /\ day_of_year(moment) = DaysBefore(date.year, date.month) + date.day

\* So it is at every moment of the wall calendar.
LEMMA YearBegun == CivilInv => YearsBegin
<1> SUFFICES ASSUME CivilInv, ~EndOfFarLeap
             PROVE  /\ start_of_year(moment) = DaysBeforeYear(date.year) * SEC_PER_DAY
                    /\ day_of_year(moment) = DaysBefore(date.year, date.month) + date.day
  BY DEF YearsBegin
<1> DEFINE y == date.year
           i == DaysBefore(date.year, date.month) + date.day - 1
           n == DaysBeforeYear(y) + i
           S == SEC_PER_DAY
<1>1. /\ y \in Int /\ i \in 0..365
      /\ i = 365 <=> (IsLeap(y) /\ date.month = 12 /\ date.day = 31)
      /\ today = n /\ i + 1 = DaysBefore(date.year, date.month) + date.day
  <2>1. y \in Int
    BY DEF CivilInv, CivilDate
  <2>2. DaysBeforeYear(y) \in Int
    BY <2>1, CountsAreIntegers
  <2> DEFINE doy == DaysBefore(date.year, date.month) + date.day
  <2>3. /\ doy \in 1 .. YearLength(y)
        /\ doy = YearLength(y) <=> date.month = 12 /\ date.day = 31
        /\ today = DaysBeforeYear(y) + doy - 1
    BY DayOfYearBounds
  <2>4. YearLength(y) = IF IsLeap(y) THEN 366 ELSE 365
    BY DEF YearLength
  <2>5. date.day \in Int /\ DaysBefore(date.year, date.month) \in Int
    <3>1. date.month \in 1..12 /\ date.day \in Int
      BY DEF CivilInv, CivilDate
    <3> QED
      BY <3>1 DEF DaysBefore, mos, lmos
  <2>6. i = doy - 1
    BY <2>5
  <2> HIDE DEF doy, y, i
  <2>7. i \in 0..365 /\ (i = 365 <=> (IsLeap(y) /\ date.month = 12 /\ date.day = 31)) /\ i + 1 = doy
    BY <2>3, <2>4, <2>6
  <2>8. today = n
    BY <2>2, <2>3, <2>6, <2>7
  <2> QED
    BY <2>1, <2>7, <2>8 DEF y, doy
<1>2. moment = Seconds(n, second) /\ second \in 0 .. S - 1
  BY <1>1, MomentInDays DEF Seconds, CivilInv
<1> HIDE DEF i, y
<1>3. ~(i = 365 /\ ~RecentYear(y))
  BY <1>1 DEF EndOfFarLeap, RecentYear, y
<1>4. start_of_year(moment) = Days(DaysBeforeYear(y))
  <2>1. i = 365 => IsLeap(y)
    BY <1>1
  <2>2. start_of_year(Seconds(n, second)) = Days(IF i = 365 /\ ~RecentYear(y) THEN n ELSE DaysBeforeYear(y))
    BY <1>1, <1>2, <2>1, YearBegins, ZenonT(60)
  <2> QED
    BY <1>2, <1>3, <2>2, Zenon
<1>5. S \in Nat \ {0} /\ DaysBeforeYear(y) \in Int
  BY <1>1, Units, CountsAreIntegers
<1>6. moment - start_of_year(moment) = i * S + second
  <2> HIDE DEF S
  <2>1. second \in Int
    BY <1>2, <1>5
  <2>2. moment = (DaysBeforeYear(y) + i) * S + second
    BY <1>2 DEF Seconds, S
  <2>3. start_of_year(moment) = DaysBeforeYear(y) * S
    BY <1>4 DEF Days, S
  <2> QED
    BY <1>1, <1>5, <2>1, <2>2, <2>3, SMT
<1>7. TruncDiv(i * S + second, S) = i
  <2> HIDE DEF S
  <2>1. i \in Int /\ i * S + second >= 0
    <3>1. i * S >= 0 /\ i * S \in Int /\ second \in Int /\ second >= 0
      BY <1>1, <1>2, <1>5
    <3> QED
      BY <1>1, <3>1
  <2> QED
    BY <1>2, <1>5, <2>1, TruncQuotients
<1>8. day_of_year(moment) = i + 1
  BY <1>6, <1>7 DEF day_of_year
<1> QED
  BY <1>1, <1>4, <1>8 DEF Days, y

\* On every day of the wall calendar, but 31 December of a leap year outside
\* 1970..2099, start_of_year() and day_of_year() are right.
THEOREM YearsAreBegun == Spec => []YearsBegin
  BY WallCalendar, YearBegun, PTL

\* month_of_year(), day_of_month() and the length of the month tell the date of
\* every moment on which the year is right, and legacy_to_date_time() the time
\* of day too.
PartsAreTold ==
    /\ YearIsRight /\ date.year < MAX_YEAR =>
         /\ month_of_year(moment) = date.month
         /\ day_of_month(moment) = date.day
         /\ num_days_in_month_ts(moment) = MonthLength(date.year, date.month)
    /\ ~NewYearOfLeap /\ second > 0 /\ date.year < MAX_YEAR =>
         legacy_to_date_time(moment) = OnDay(date, second)

\* So it is at every moment of the wall calendar.
LEMMA PartsTold == CivilInv => PartsAreTold
<1> SUFFICES ASSUME CivilInv, date.year < MAX_YEAR, ~NewYearOfLeap PROVE PartsAreTold
  BY DEF PartsAreTold, YearIsRight
<1> DEFINE y == date.year
           n == DaysBefore(date.year, date.month) + date.day
           S == SEC_PER_DAY
<1>1. /\ n \in 1..366
      /\ IsLeap(y) /\ n = 60 => date.month = 2 /\ date.day = 29 /\ TABLE_MONTH_OF_YEAR(58) = 2 /\ TABLE_DAY_OF_YEAR(58) = 28
      /\ IsLeap(y) /\ n > 60 => TABLE_MONTH_OF_YEAR(n - 2) = date.month /\ TABLE_DAY_OF_YEAR(n - 2) = date.day
      /\ ~(IsLeap(y) /\ n >= 60) => TABLE_MONTH_OF_YEAR(n - 1) = date.month /\ TABLE_DAY_OF_YEAR(n - 1) = date.day
  BY TablesOfTheYear
<1>2. /\ y \in Int /\ date.month \in 1..12 /\ IsLeap(y) \in BOOLEAN
      /\ is_leap_year_ts(moment) = IsLeap(y)
      /\ BackwardYear(moment).year = y
      /\ second > 0 => BackwardYear(moment).secs = (YearLength(y) - n) * S + (S - second)
  <2>1. YearsByCycles
    BY YearsCounted
  <2>2. y \in Int /\ date.month \in 1..12 /\ IsLeap(y) \in BOOLEAN
    BY DEF CivilInv, CivilDate, IsLeap
  <2> QED
    BY <2>1, <2>2 DEF YearsByCycles
<1> HIDE DEF y, n
<1>3. ASSUME YearIsRight
      PROVE  /\ month_of_year(moment) = date.month /\ day_of_month(moment) = date.day
             /\ num_days_in_month_ts(moment) = MonthLength(y, date.month)
  <2>1. day_of_year(moment) = n
    BY <1>3, YearBegun DEF YearsBegin, YearIsRight, n
  <2>2. month_of_year(moment) = TABLE_MONTH_OF_YEAR((IF IsLeap(y) /\ n >= 60 THEN n - 1 ELSE n) - 1)
    BY <1>2, <2>1 DEF month_of_year
  <2>3. day_of_month(moment) = CASE IsLeap(y) /\ n = 60 -> TABLE_DAY_OF_YEAR(n - 2) + 1
                                 [] IsLeap(y) /\ n > 60 -> TABLE_DAY_OF_YEAR(n - 2)
                                 [] OTHER               -> TABLE_DAY_OF_YEAR(n - 1)
    BY <1>2, <2>1 DEF day_of_month
  <2>4. month_of_year(moment) = date.month /\ day_of_month(moment) = date.day
    <3>1. CASE IsLeap(y) /\ n = 60
      <4>1. month_of_year(moment) = TABLE_MONTH_OF_YEAR(58)
        BY <2>2, <3>1
      <4>2. day_of_month(moment) = TABLE_DAY_OF_YEAR(58) + 1
        BY <2>3, <3>1
      <4> QED
        BY <1>1, <3>1, <4>1, <4>2
    <3>2. CASE IsLeap(y) /\ n > 60
      <4>1. month_of_year(moment) = TABLE_MONTH_OF_YEAR(n - 2)
        <5>1. (IF IsLeap(y) /\ n >= 60 THEN n - 1 ELSE n) - 1 = n - 2
          BY <1>1, <3>2
        <5> QED
          BY <2>2, <5>1
      <4>2. day_of_month(moment) = TABLE_DAY_OF_YEAR(n - 2)
        BY <1>1, <2>3, <3>2
      <4> QED
        BY <1>1, <3>2, <4>1, <4>2
    <3>3. CASE ~(IsLeap(y) /\ n >= 60)
      <4>1. month_of_year(moment) = TABLE_MONTH_OF_YEAR(n - 1)
        BY <2>2, <3>3
      <4>2. day_of_month(moment) = TABLE_DAY_OF_YEAR(n - 1)
        BY <1>1, <2>3, <3>3
      <4> QED
        BY <1>1, <3>3, <4>1, <4>2
    <3> QED
      BY <1>1, <3>1, <3>2, <3>3
  <2>5. num_days_in_month_ts(moment) = MonthLength(y, date.month)
    <3> DEFINE m == date.month
    <3>1. num_days_in_month_ts(moment) =
            IF m = 2 THEN (IF IsLeap(y) THEN 29 ELSE 28)
            ELSE <<31, 28, 31, 30, 31, 30, 31, 31, 30, 31, 30, 31>>[m]
      BY <1>2, <2>4 DEF num_days_in_month_ts, FEB
    <3> HIDE DEF m
    <3>2. m \in 1..12
      BY <1>2 DEF m
    <3>3. num_days_in_month_ts(moment) = MonthLength(y, m)
      BY <3>1, <3>2 DEF MonthLength
    <3> QED
      BY <3>3 DEF m
  <2> QED
    BY <2>4, <2>5
<1>4. ASSUME second > 0
      PROVE  legacy_to_date_time(moment) = OnDay(date, second)
  <2> DEFINE L    == YearLength(y)
             back == BackwardYear(moment)
             secs == L * S - back.secs
  <2>1. /\ S \in Nat \ {0} /\ second \in 1 .. S - 1 /\ second \in Int /\ L \in Int /\ n \in Int
        /\ L = IF IsLeap(y) THEN 366 ELSE 365
        /\ n <= L
    <3>1. n <= L
      <4>1. n \in 1 .. L
        BY DayOfYearBounds DEF n, y
      <4>2. L \in Int
        BY DEF YearLength
      <4> QED
        BY <4>1, <4>2
    <3>2. second \in 0 .. S - 1 /\ S \in Nat \ {0}
      BY Units DEF CivilInv
    <3> QED
      BY <1>1, <1>4, <3>1, <3>2 DEF YearLength
  <2>2. back.year = y /\ back.secs = (L - n) * S + (S - second)
    BY <1>2, <1>4
  <2> HIDE DEF S, L, back
  <2>3. back.secs # 0
    <3>1. (L - n) * S >= 0 /\ (L - n) * S \in Int
      BY <2>1
    <3> QED
      BY <2>1, <2>2, <3>1
  <2>4. secs = (n - 1) * S + second
    BY <2>1, <2>2
  <2>5. secs \div S = n - 1 /\ secs % S = second
    <3>1. n - 1 \in Int /\ second \in 0 .. S - 1
      BY <2>1
    <3> HIDE DEF secs
    <3>2. ((n - 1) * S + second) \div S = n - 1 /\ ((n - 1) * S + second) % S = second
      BY <2>1, <3>1, Quotients
    <3> QED
      BY <2>4, <3>2
  <2>6. (IF IsLeap(y) THEN SEC_PER_LEAP_YEAR ELSE SEC_PER_YEAR) = L * S
    BY <2>1 DEF SEC_PER_LEAP_YEAR, SEC_PER_YEAR, DAYS_PER_LEAP_YEAR, DAYS_PER_YEAR, S
  <2>7. is_leap_year_date(y) = IsLeap(y)
    BY <1>2, LeapYears DEF is_leap_year_date
  <2>8. legacy_to_date_time(moment) =
          OnDay(IF IsLeap(y) /\ n - 1 = 59 THEN Date(y, FEB, TABLE_DAY_OF_YEAR((n - 1) - 1) + 1)
                ELSE DateByTables(y, IF IsLeap(y) /\ n - 1 > 59 THEN (n - 1) - 1 ELSE n - 1), second)
    <3>1. legacy_to_date_time(moment) =
            OnDay(IF is_leap_year_date(back.year) /\ secs \div S = 59
                  THEN Date(back.year, FEB, TABLE_DAY_OF_YEAR((secs \div S) - 1) + 1)
                  ELSE DateByTables(back.year, IF is_leap_year_date(back.year) /\ secs \div S > 59
                                               THEN (secs \div S) - 1 ELSE secs \div S),
                  secs % S)
      <4>1. secs = (IF is_leap_year_date(back.year) THEN SEC_PER_LEAP_YEAR ELSE SEC_PER_YEAR) - back.secs
        BY <2>2, <2>6, <2>7
      <4> HIDE DEF secs
      <4> QED
        BY <2>3, <4>1 DEF legacy_to_date_time, back, S
    <3> HIDE DEF secs
    <3> QED
      BY <2>2, <2>5, <2>7, <3>1
  <2>9. date = Date(y, date.month, date.day)
    BY DEF CivilInv, CivilDate, Date, y
  <2>10. CASE IsLeap(y) /\ n = 60
    <3>1. n - 1 = 59 /\ (n - 1) - 1 = 58
      BY <2>10
    <3> QED
      BY <1>1, <2>8, <2>9, <2>10, <3>1 DEF FEB
  <2>11. CASE IsLeap(y) /\ n > 60
    <3>1. n - 1 # 59 /\ n - 1 > 59 /\ (n - 1) - 1 = n - 2
      BY <2>1, <2>11
    <3> QED
      BY <1>1, <2>8, <2>9, <2>11, <3>1 DEF DateByTables
  <2>12. CASE ~(IsLeap(y) /\ n >= 60)
    <3>1. ~(IsLeap(y) /\ n - 1 = 59) /\ ~(IsLeap(y) /\ n - 1 > 59)
      BY <2>1, <2>12
    <3> QED
      BY <1>1, <2>8, <2>9, <2>12, <3>1 DEF DateByTables
  <2> QED
    BY <2>1, <2>10, <2>11, <2>12
<1> QED
  BY <1>3, <1>4 DEF PartsAreTold, y

\* Before MAX_YEAR, month, day and time are told of every moment of the wall
\* calendar, but on the days on which the year is wrong.
THEOREM PartsOfDatesAreTold == Spec => []PartsAreTold
  BY WallCalendar, PartsTold, PTL

-----------------------------------------------------------------------------
(* The walk                                                                *)

\* The weekday of a timestamp is that of its day.
LEMMA WeekdayByFloors ==
    ASSUME NEW q \in Int, NEW r \in 0 .. SEC_PER_DAY - 1
    PROVE  weekday_of_ts(q * SEC_PER_DAY + r) = WeekdayOf(q)
<1>1. floor_div(q * SEC_PER_DAY + r, SEC_PER_DAY) = q
  BY Units, FloorQuotients
<1>2. weekday_of_ts(q * SEC_PER_DAY + r) = floor_mod(q + 4, 7)
  BY <1>1 DEF weekday_of_ts, THU, DAYS_PER_WEEK
<1> DEFINE n == q + 4
<1>3. n \in Int
  OBVIOUS
<1> HIDE DEF n
<1>4. floor_mod(n, 7) = n % 7
  BY <1>3 DEF floor_mod, TruncMod, TruncDiv
<1> QED
  BY <1>2, <1>4 DEF n, WeekdayOf

\* The dates of the calendar, in the years an int32_t can hold.
IsDate(t) == t \in CivilDate /\ t.day <= MonthLength(t.year, t.month) /\ YearInRange(t.year)

\* They are the ones that come back from their days.
LEMMA DatesAreKnown ==
    ASSUME NEW t, IsDate(t)
    PROVE  /\ t = Date(t.year, t.month, t.day) /\ DayOf(t) \in Int
           /\ fast_date_from_days(DayOf(t)) = t
           /\ fast_year_from_days(DayOf(t)) = t.year
<1>1. t.year \in Int /\ t.month \in 1..12 /\ t.day \in 1..31 /\ t.day <= MonthLength(t.year, t.month)
      /\ t = [year |-> t.year, month |-> t.month, day |-> t.day]
  BY DEF IsDate, CivilDate
<1>2. t = Date(t.year, t.month, t.day)
  BY <1>1 DEF Date
<1>3. fast_days_from_date(t.year, t.month, t.day) = DayOf(t) /\ DayOf(t) \in Int
  <2>1. t.day \in Int
    BY <1>1
  <2>2. date_to_unix_day(t.year, t.month, t.day) = DayOf(t)
    BY <1>1, <2>1, DaysAreCounted DEF DayOf
  <2> QED
    BY <1>1, <2>1, <2>2, DayNumberType DEF date_to_unix_day, DayOf
<1>4. IsCalendarDay(t.year, t.month, t.day)
  BY <1>1 DEF IsCalendarDay, MonthLength, IsLeap, DaysOfMonth, MarchMonth
<1>5. YearInRange(t.year)
  BY DEF IsDate
<1> QED
  BY <1>2, <1>3, <1>4, <1>5, DatesComeBack

\* What the library says of a second of a day.
LEMMA DateIsTold ==
    ASSUME NEW t, IsDate(t), NEW s \in 0 .. SEC_PER_DAY - 1
    PROVE  /\ to_date_time(DayOf(t) * SEC_PER_DAY + s) = OnDay(t, s)
           /\ weekday_of_ts(DayOf(t) * SEC_PER_DAY + s) = WeekdayOf(DayOf(t))
<1>1. DayOf(t) \in Int /\ fast_date_from_days(DayOf(t)) = t
  BY DatesAreKnown
<1>2. split_unix_day(DayOf(t) * SEC_PER_DAY + s) = [days |-> DayOf(t), sec_of_day |-> s]
  BY <1>1, SplitByFloors
<1> QED
  BY <1>1, <1>2, WeekdayByFloors DEF to_date_time

\* An answer that is the page of the wall calendar and the second on its clock.
Shows(answer, t, s) ==
    /\ answer.dt = OnDay(t, s)
    /\ Date(answer.dt.year, answer.dt.mon, answer.dt.day) = t
    /\ sec_of_time(answer.dt.hour, answer.dt.min, answer.dt.sec) = s
    /\ answer.weekday = WeekdayOf(DayOf(t))

\* What the library says of a second of a day is such an answer.
LEMMA ToldIsShown ==
    ASSUME NEW t, IsDate(t), NEW s \in 0 .. SEC_PER_DAY - 1
    PROVE  Shows(Told(DayOf(t) * SEC_PER_DAY + s), t, s)
<1> DEFINE answer == Told(DayOf(t) * SEC_PER_DAY + s)
<1>1. answer.dt = OnDay(t, s) /\ answer.weekday = WeekdayOf(DayOf(t))
  BY DateIsTold DEF Told
<1> HIDE DEF answer
<1>2. answer.dt.year = t.year /\ answer.dt.mon = t.month /\ answer.dt.day = t.day
  BY <1>1 DEF OnDay, DateTime
<1>3. /\ answer.dt.hour = s \div SEC_PER_HOUR /\ answer.dt.min = (s % SEC_PER_HOUR) \div SEC_PER_MIN
      /\ answer.dt.sec = s % SEC_PER_MIN
  BY <1>1 DEF OnDay, DateTime
<1>4. sec_of_time(answer.dt.hour, answer.dt.min, answer.dt.sec) = s
  BY <1>3, ClockParts DEF ClockOf, sec_of_time
<1>5. Date(answer.dt.year, answer.dt.mon, answer.dt.day) = t
  BY <1>2, DatesAreKnown
<1> QED
  BY <1>1, <1>4, <1>5 DEF Shows, answer

\* The walk is shown a date of its years, and that is where it is.
WalkInv ==
    /\ CivilInv /\ IsDate(date)
    /\ date.year >= MIN_YEAR /\ date.year <= LastYear
    /\ now = moment /\ dt = OnDay(date, second)
    /\ window \in Windows

\* It is, when the library shows the calendar of a date of these years.
LEMMA ShownOnTheWall ==
    ASSUME NEW t, IsDate(t), NEW s \in 0 .. SEC_PER_DAY - 1, shown = Told(DayOf(t) * SEC_PER_DAY + s)
    PROVE  /\ date = t /\ second = s /\ weekday = WeekdayOf(DayOf(t)) /\ dt = OnDay(t, s)
           /\ CivilInv
<1>1. Shows(shown, t, s)
  BY ToldIsShown
<1>2. date = t /\ second = s /\ weekday = WeekdayOf(DayOf(t)) /\ dt = OnDay(t, s)
  BY <1>1 DEF Shows, date, second, weekday, dt
<1>3. today = DayOf(t) /\ today \in Int
  BY <1>2, DatesAreKnown DEF today, DayOf
<1> QED
  BY <1>2, <1>3 DEF CivilInv, IsDate

\* Where the walk is, without the library.
LEMMA WalkInDays ==
    ASSUME WalkInv
    PROVE  day = today /\ timeOfDay = second /\ today = DayOf(date) /\ now = moment
<1>1. SEC_PER_DAY \in Nat \ {0} /\ today \in Int /\ second \in 0 .. SEC_PER_DAY - 1
      /\ now = today * SEC_PER_DAY + second
  BY Units DEF WalkInv, CivilInv, moment
<1>2. (today * SEC_PER_DAY + second) \div SEC_PER_DAY = today /\ (today * SEC_PER_DAY + second) % SEC_PER_DAY = second
  <2> HIDE DEF today
  <2> QED
    BY <1>1, Quotients
<1>3. today = DayOf(date) /\ now = moment
  BY DEF today, DayOf, WalkInv
<1> QED
  BY <1>1, <1>2, <1>3 DEF day, timeOfDay

\* A walk begins on a page of the calendar.
LEMMA WalkBegins == WalkInit => Init /\ WalkInv
<1> SUFFICES ASSUME WalkInit PROVE Init /\ WalkInv
  OBVIOUS
<1> DEFINE t == window.first
<1>1. window \in Windows /\ now = DayOf(t) * SEC_PER_DAY /\ shown = Told(now)
  BY DEF WalkInit
<1>2. /\ t \in CivilDate /\ t.day <= MonthLength(t.year, t.month)
      /\ t.year >= MIN_YEAR /\ t.year >= -2147483647 /\ t.year <= LastYear
  BY <1>1, WindowsAssumption DEF CivilDate
<1>3. IsDate(t)
  BY <1>2, YearRangeAssumption, YearsAssumption, SMT DEF IsDate, YearInRange, CivilDate
<1> HIDE DEF t
<1>4. 0 \in 0 .. SEC_PER_DAY - 1 /\ now = DayOf(t) * SEC_PER_DAY + 0
  BY <1>1, <1>3, Units, DatesAreKnown
<1>5. /\ date = t /\ second = 0 /\ weekday = WeekdayOf(DayOf(t)) /\ dt = OnDay(t, 0)
      /\ CivilInv
  <2> DEFINE s == 0
  <2>1. s \in 0 .. SEC_PER_DAY - 1 /\ shown = Told(DayOf(t) * SEC_PER_DAY + s)
    BY <1>1, <1>4
  <2> HIDE DEF s
  <2>2. date = t /\ second = s /\ weekday = WeekdayOf(DayOf(t)) /\ dt = OnDay(t, s) /\ CivilInv
    BY <1>3, <2>1, ShownOnTheWall
  <2> QED
    BY <2>2 DEF s
<1>6. today = DayOf(date)
  BY DEF today, DayOf
<1>7. WalkInv
  BY <1>1, <1>2, <1>3, <1>4, <1>5, <1>6 DEF WalkInv, moment
<1>8. Init
  <2>1. date \in [year : Int, month : 1..12, day : 1..31]
    BY <1>5 DEF CivilInv, CivilDate
  <2> QED
    BY <1>5, <2>1 DEF Init, CivilInv, today
<1> QED
  BY <1>7, <1>8

\* Later on the same day, the date stays and the clock goes on.
LEMMA LaterTodayPasses == WalkInv /\ LaterToday => TimePasses /\ WalkInv'
<1> SUFFICES ASSUME WalkInv, LaterToday PROVE TimePasses /\ WalkInv'
  OBVIOUS
<1>1. PICK m \in window.moments :
        timeOfDay < m /\ now' = day * SEC_PER_DAY + m /\ shown' = Told(now') /\ window' = window
  BY DEF LaterToday
<1>2. day = today /\ timeOfDay = second /\ today = DayOf(date)
  BY WalkInDays
<1>3. m \in 0 .. SEC_PER_DAY - 1
  BY WindowsAssumption DEF WalkInv
<1> DEFINE t == date
<1>4. IsDate(t) /\ shown' = Told(DayOf(t) * SEC_PER_DAY + m)
  BY <1>1, <1>2 DEF WalkInv
<1> HIDE DEF t
<1>5. Shows(shown', t, m)
  BY <1>3, <1>4, ToldIsShown
<1>6. date' = t /\ second' = m /\ weekday' = WeekdayOf(DayOf(t)) /\ dt' = OnDay(t, m)
  BY <1>5 DEF Shows, date, second, weekday, dt
<1>7. TimePasses
  <2>1. weekday = WeekdayOf(DayOf(t)) /\ date = t
    BY <1>2 DEF t, WalkInv, CivilInv
  <2>2. m \in second + 1 .. SEC_PER_DAY - 1
    <3>1. second < m /\ second \in Int /\ SEC_PER_DAY \in Int /\ m \in Int
      BY <1>1, <1>2, <1>3, Units DEF WalkInv, CivilInv
    <3> QED
      BY <1>3, <3>1
  <2> QED
    BY <1>6, <2>1, <2>2 DEF TimePasses
<1>8. CivilInv'
  BY <1>7, CivilNext DEF WalkInv, Next
<1>9. now' = moment'
  <2>1. today' = today
    BY <1>7 DEF TimePasses, today
  <2> QED
    BY <1>1, <1>2, <1>6, <2>1 DEF moment
<1>10. date' = date
  BY <1>6 DEF t
<1>11. dt' = OnDay(date', second')
  BY <1>6
<1> QED
  BY <1>1, <1>7, <1>8, <1>9, <1>10, <1>11 DEF WalkInv

\* The day after a date of the walk's years is a date of these years.
LEMMA NextDateIsKnown ==
    ASSUME NEW t, IsDate(t), t.year >= MIN_YEAR, t.year <= LastYear,
           NEW n, n = Successor(t), DayOf(t) + 1 < DayNumber(LastYear + 1, 1, 1)
    PROVE  IsDate(n) /\ DayOf(n) = DayOf(t) + 1 /\ n.year >= MIN_YEAR /\ n.year <= LastYear
<1> DEFINE y == t.year
           m == t.month
           d == t.day
<1>1. t = [year |-> y, month |-> m, day |-> d] /\ y \in Int /\ m \in 1..12 /\ d \in 1..31
  BY DEF IsDate, CivilDate
<1>2. d \in 1 .. MonthLength(y, m)
  <2>1. MonthLength(y, m) \in Int
    BY <1>1 DEF MonthLength
  <2> QED
    BY <1>1, <2>1 DEF IsDate
<1>3. /\ n.year \in Int /\ n.month \in 1..12 /\ n.day \in 1..MonthLength(n.year, n.month)
      /\ n = [year |-> n.year, month |-> n.month, day |-> n.day]
      /\ date_to_unix_day(n.year, n.month, n.day) = date_to_unix_day(y, m, d) + 1
  <2> DEFINE k == Successor([year |-> y, month |-> m, day |-> d])
  <2>1. n = k
    BY <1>1
  <2> HIDE DEF y, m, d
  <2>2. /\ k.year \in Int /\ k.month \in 1..12 /\ k.day \in 1..MonthLength(k.year, k.month)
        /\ k = [year |-> k.year, month |-> k.month, day |-> k.day]
        /\ date_to_unix_day(k.year, k.month, k.day) = date_to_unix_day(y, m, d) + 1
    BY <1>1, <1>2, DaysSucceed
  <2> HIDE DEF k
  <2> QED
    BY <2>1, <2>2
<1>4. MonthLength(n.year, n.month) \in 28..31
  BY <1>3 DEF MonthLength
<1>5. n.day \in 1..31 /\ n.day <= MonthLength(n.year, n.month) /\ n.day \in Int /\ d \in Int
  BY <1>1, <1>3, <1>4
<1>6. n \in CivilDate
  BY <1>3, <1>5 DEF CivilDate
<1>7. DayOf(n) = DayOf(t) + 1
  <2>1. date_to_unix_day(n.year, n.month, n.day) = DayNumber(n.year, n.month, n.day)
    BY <1>3, <1>5, DaysAreCounted
  <2>2. date_to_unix_day(y, m, d) = DayNumber(y, m, d)
    BY <1>1, <1>5, DaysAreCounted
  <2> QED
    BY <1>3, <2>1, <2>2 DEF DayOf
<1>8. n.year = y \/ (n.year = y + 1 /\ n.month = 1 /\ n.day = 1)
  BY <1>1 DEF Successor
<1>9. LastYear \in Int
  BY YearRangeAssumption
<1>10. n.year <= LastYear
  <2> SUFFICES ASSUME ~(n.year <= LastYear) PROVE FALSE
    OBVIOUS
  <2>1. n.year = LastYear + 1 /\ n.month = 1 /\ n.day = 1
    BY <1>1, <1>3, <1>8, <1>9
  <2>2. DayOf(n) = DayNumber(LastYear + 1, 1, 1)
    BY <2>1 DEF DayOf
  <2>3. DayOf(t) \in Int
    BY DatesAreKnown
  <2> HIDE DEF y, m, d
  <2> QED
    BY <1>7, <2>2, <2>3
<1>11. n.year >= MIN_YEAR
  BY <1>1, <1>3, <1>8, YearsAssumption
<1>12. YearInRange(n.year)
  <2>1. y >= -2147483647
    BY SMT DEF IsDate, YearInRange
  <2> QED
    BY <1>1, <1>3, <1>8, <1>10, <2>1, YearRangeAssumption, SMT DEF YearInRange
<1> QED
  BY <1>5, <1>6, <1>7, <1>10, <1>11, <1>12 DEF IsDate

\* On the next day, the page is turned.
LEMMA LaterDayTurns == WalkInv /\ LaterDay => NextDay /\ WalkInv'
<1> SUFFICES ASSUME WalkInv, LaterDay PROVE NextDay /\ WalkInv'
  OBVIOUS
<1>1. /\ day < window.last /\ now' = (day + 1) * SEC_PER_DAY
      /\ shown' = Told(start_of_next_day(now, 1)) /\ window' = window
  BY DEF LaterDay
<1> DEFINE t == date
           n == Successor(date)
<1>2. day = today /\ today = DayOf(t) /\ now = moment /\ today \in Int
  BY WalkInDays DEF WalkInv, CivilInv
<1>3. window.last \in Int /\ window.last < DayNumber(LastYear + 1, 1, 1) /\ DayNumber(LastYear + 1, 1, 1) \in Int
  <2>1. LastYear + 1 \in Int
    BY YearRangeAssumption
  <2> QED
    BY <2>1, WindowsAssumption, DayNumberType DEF WalkInv
<1>4. IsDate(t) /\ t.year >= MIN_YEAR /\ t.year <= LastYear /\ weekday = WeekdayOf(DayOf(t))
  BY <1>2 DEF WalkInv, CivilInv
<1>5. IsDate(n) /\ DayOf(n) = DayOf(t) + 1 /\ n.year >= MIN_YEAR /\ n.year <= LastYear
  <2>1. DayOf(t) + 1 < DayNumber(LastYear + 1, 1, 1)
    <3> HIDE DEF t, today
    <3> QED
      BY <1>1, <1>2, <1>3
  <2> HIDE DEF t
  <2>2. n = Successor(t)
    BY DEF t
  <2> HIDE DEF n
  <2> QED
    BY <1>4, <2>1, <2>2, NextDateIsKnown
<1>6. start_of_next_day(now, 1) = DayOf(n) * SEC_PER_DAY + 0 /\ now' = DayOf(n) * SEC_PER_DAY + 0
  <2>1. start_of_next_day(now, 1) = today * SEC_PER_DAY + SEC_PER_DAY
    BY <1>2, MomentTold DEF MomentIsTold, WalkInv, start_of_next_day_from_unix_day
  <2>2. SEC_PER_DAY \in Int
    BY Units
  <2> HIDE DEF t, n, today
  <2> QED
    BY <1>1, <1>2, <1>5, <2>1, <2>2
<1>7. 0 \in 0 .. SEC_PER_DAY - 1
  BY Units
<1> HIDE DEF t, n
<1>8. Shows(shown', n, 0)
  <2> DEFINE s == 0
  <2>1. s \in 0 .. SEC_PER_DAY - 1 /\ shown' = Told(DayOf(n) * SEC_PER_DAY + s)
    BY <1>1, <1>6, <1>7
  <2> HIDE DEF s
  <2>2. Shows(shown', n, s)
    BY <1>5, <2>1, ToldIsShown
  <2> QED
    BY <2>2 DEF s
<1>9. date' = n /\ second' = 0 /\ weekday' = WeekdayOf(DayOf(n)) /\ dt' = OnDay(n, 0)
  BY <1>8 DEF Shows, date, second, weekday, dt
<1>10. NextDay
  <2>1. weekday' = (weekday + 1) % 7
    <3> DEFINE q == DayOf(t)
    <3>1. q \in Int /\ weekday' = WeekdayOf(q + 1) /\ weekday = WeekdayOf(q)
      BY <1>2, <1>4, <1>5, <1>9
    <3> HIDE DEF q
    <3>2. WeekdayOf(q + 1) = (WeekdayOf(q) + 1) % 7
      BY <3>1 DEF WeekdayOf
    <3> QED
      BY <3>1, <3>2
  <2> QED
    BY <1>7, <1>9, <2>1 DEF NextDay, n
<1>11. CivilInv'
  BY <1>10, CivilNext DEF WalkInv, Next
<1>12. now' = moment'
  <2>1. today' = DayOf(n)
    BY <1>9 DEF today, DayOf
  <2> QED
    BY <1>6, <1>9, <2>1 DEF moment
<1>13. dt' = OnDay(date', second')
  BY <1>9
<1>14. IsDate(date') /\ date'.year >= MIN_YEAR /\ date'.year <= LastYear
  BY <1>5, <1>9
<1>15. window' \in Windows
  BY <1>1 DEF WalkInv
<1> QED
  BY <1>10, <1>11, <1>12, <1>13, <1>14, <1>15 DEF WalkInv

\* Every step of the walk turns a page, lets time pass, or changes nothing.
LEMMA WalkSteps == WalkInv /\ [WalkNext]_walk => [Next]_civil /\ WalkInv'
<1>1. WalkInv /\ UNCHANGED walk => UNCHANGED civil /\ WalkInv'
  <2> SUFFICES ASSUME WalkInv, UNCHANGED walk PROVE UNCHANGED civil /\ WalkInv'
    OBVIOUS
  <2>1. now' = now /\ window' = window /\ shown' = shown
    BY DEF walk
  <2>2. date' = date /\ weekday' = weekday /\ second' = second /\ dt' = dt
    BY <2>1 DEF date, weekday, second, dt
  <2>3. UNCHANGED civil
    BY <2>2 DEF civil
  <2>4. CivilInv' /\ today' = today
    BY <2>2, <2>3, CivilNext DEF WalkInv, today
  <2>5. moment' = moment
    BY <2>2, <2>4 DEF moment
  <2> QED
    BY <2>1, <2>2, <2>3, <2>4, <2>5 DEF WalkInv
<1> QED
  BY <1>1, LaterTodayPasses, LaterDayTurns DEF WalkNext, Next

\* What the library tells of a walk is a calendar on the wall: its dates and
\* weekdays follow one another, and so do the seconds of each day.
THEOREM LibraryTellsTheCalendar == WalkSpec => CivilSpec /\ []WalkInv
<1>1. WalkSpec => []WalkInv
  BY WalkBegins, WalkSteps, PTL DEF WalkSpec
<1>2. WalkSpec => Spec
  BY <1>1, WalkBegins, WalkSteps, PTL DEF WalkSpec, Spec
<1> QED
  BY <1>1, <1>2 DEF CivilSpec

-----------------------------------------------------------------------------
(* All of the calendar                                                     *)

\* What the walk asks is what the wall calendar and its moment say.
LEMMA AskedOnTheWall ==
    ASSUME WalkInv
    PROVE  /\ CivilInv /\ now = moment /\ day = today
           /\ dt.year = date.year /\ dt.mon = date.month /\ dt.day = date.day
           /\ dt = OnDay(date, second)
           /\ dt.hour = hour /\ dt.min = min /\ dt.sec = sec /\ dt.ms = 0
           /\ shown.weekday = weekday
           /\ date.year \in Int /\ date.month \in 1..12 /\ date.day \in 1..31
           /\ date.year \in MIN_YEAR .. MAX_YEAR /\ date.year < MAX_YEAR /\ IsDate(date)
<1>1. CivilInv /\ now = moment /\ day = today /\ dt = OnDay(date, second) /\ IsDate(date)
  BY WalkInDays DEF WalkInv
<1>2. dt.year = date.year /\ dt.mon = date.month /\ dt.day = date.day
  BY <1>1 DEF OnDay, DateTime
<1>3. dt.hour = hour /\ dt.min = min /\ dt.sec = sec /\ dt.ms = 0
  BY <1>1 DEF OnDay, DateTime, hour, min, sec
<1>4. date.year \in Int /\ date.month \in 1..12 /\ date.day \in 1..31
  BY <1>1 DEF CivilInv, CivilDate
<1>5. date.year \in MIN_YEAR .. MAX_YEAR /\ date.year < MAX_YEAR
  BY <1>4, YearsAssumption, YearRangeAssumption DEF WalkInv
<1> QED
  BY <1>1, <1>2, <1>3, <1>4, <1>5 DEF weekday

\* The ways to the timestamp of a date.
WaysToTheMoment ==
    /\ to_timestamp(date.year, date.month, date.day, hour, min, sec) = moment
    /\ to_timestamp_unchecked(date.year, date.month, date.day, hour, min, sec) = moment
    /\ legacy_to_timestamp(date.year, date.month, date.day, hour, min, sec) = moment
    /\ \A tm \in [tm_year : {date.year - 1900}, tm_mon : {date.month - 1}, tm_mday : {date.day},
                  tm_hour : {hour}, tm_min : {min}, tm_sec : {sec}] : tm_to_timestamp(tm) = moment

\* They all lead to the moment.
LEMMA AllWaysLead == CivilInv /\ date.year \in MIN_YEAR .. MAX_YEAR => WaysToTheMoment
<1> SUFFICES ASSUME CivilInv, date.year \in MIN_YEAR .. MAX_YEAR PROVE WaysToTheMoment
  OBVIOUS
<1> DEFINE y == date.year
           m == date.month
           d == date.day
<1>1. y \in Int /\ m \in 1..12 /\ d \in 1..31
  BY DEF CivilInv, CivilDate
<1>2. to_timestamp(y, m, d, hour, min, sec) = moment /\ legacy_to_timestamp(y, m, d, hour, min, sec) = moment
  BY TimestampsLead DEF TimestampsLeadHere
<1>3. to_timestamp_unchecked(y, m, d, hour, min, sec) = moment
  <2>1. is_valid_date_time(y, m, d, hour, min, sec, 0)
    BY CivilDatesAreValid
  <2>2. ~IsReordered(y, d)
    BY <1>1 DEF IsReordered, UNIX_EPOCH
  <2> HIDE DEF y, m, d
  <2>3. to_timestamp(y, m, d, hour, min, sec) = to_timestamp_unchecked(y, m, d, hour, min, sec)
    BY <2>1, <2>2, Zenon DEF to_timestamp
  <2> QED
    BY <1>2, <2>3
<1>4. ASSUME NEW tm \in [tm_year : {y - 1900}, tm_mon : {m - 1}, tm_mday : {d},
                         tm_hour : {hour}, tm_min : {min}, tm_sec : {sec}]
      PROVE  tm_to_timestamp(tm) = moment
  <2>1. /\ tm.tm_year + 1900 = y /\ tm.tm_mon + 1 = m /\ tm.tm_mday = d
        /\ tm.tm_hour = hour /\ tm.tm_min = min /\ tm.tm_sec = sec
    BY <1>1, SMT
  <2> QED
    BY <1>2, <2>1 DEF tm_to_timestamp
<1> QED
  BY <1>2, <1>3, <1>4 DEF WaysToTheMoment

\* The least second that int64_t can hold in milliseconds, whose last one it cannot.
LEMMA LeastSecond ==
    /\ TruncDiv(-INT64_MAX - 1, MS_PER_SEC) = -(INT64_MAX \div MS_PER_SEC)
    /\ INT64_MAX \div MS_PER_SEC \in Nat /\ INT64_MAX % MS_PER_SEC \in 0 .. MS_PER_SEC - 1
    /\ INT64_MAX = (INT64_MAX \div MS_PER_SEC) * MS_PER_SEC + (INT64_MAX % MS_PER_SEC)
<1> DEFINE M == MS_PER_SEC
           X == INT64_MAX
           q == X \div M
           r == X % M
<1>1. M \in Nat \ {0} /\ X \in Nat /\ (X + 1) % M # 0
  BY UnitsAssumption, RangeAssumption
<1>2. q \in Nat /\ r \in 0 .. M - 1 /\ X = q * M + r
  <2> HIDE DEF M, X
  <2>1. q \in Int /\ r \in 0 .. M - 1 /\ X = q * M + r
    BY <1>1
  <2>2. q >= 0
    BY <1>1
  <2> QED
    BY <2>1, <2>2
<1>3. r + 1 \in 0 .. M - 1
  <2>1. CASE r = M - 1
    <3>1. X + 1 = (q + 1) * M + 0 /\ q + 1 \in Int /\ 0 \in 0 .. M - 1
      <4> HIDE DEF M, X, q, r
      <4> QED
        BY <1>1, <1>2, <2>1
    <3>2. ((q + 1) * M + 0) % M = 0
      BY <1>1, <3>1, Quotients
    <3> QED
      BY <1>1, <3>1, <3>2
  <2>2. CASE r # M - 1
    <3> HIDE DEF M, X, q, r
    <3> QED
      BY <1>1, <1>2, <2>2
  <2> QED
    BY <2>1, <2>2
<1>4. TruncDiv(-X - 1, M) = -q
  <2>1. X + 1 = q * M + (r + 1)
    <3> HIDE DEF M, X, q, r
    <3> QED
      BY <1>1, <1>2
  <2>2. (q * M + (r + 1)) \div M = q
    <3>1. q \in Int /\ r + 1 \in 0 .. M - 1
      BY <1>2, <1>3
    <3> HIDE DEF M, X, q, r
    <3> QED
      BY <1>1, <3>1, Quotients, Zenon
  <2>3. -(-X - 1) = X + 1 /\ ~(-X - 1 >= 0)
    <3> HIDE DEF X
    <3> QED
      BY <1>1
  <2> QED
    BY <2>1, <2>2, <2>3 DEF TruncDiv
<1> QED
  BY <1>2, <1>4

\* Milliseconds that int64_t cannot hold become ERROR_TIMESTAMP.
LEMMA TooFar ==
    ASSUME NEW ts \in Int, ts \notin -INT64_MAX \div MS_PER_SEC .. INT64_MAX \div MS_PER_SEC
    PROVE  WithMilliseconds(ts, MS_PER_SEC - 1) = ERROR_TIMESTAMP
<1> DEFINE M == MS_PER_SEC
           X == INT64_MAX
           q == X \div M
           r == X % M
<1>1. M \in Nat \ {0} /\ X \in Nat /\ (X + 1) % M # 0
  BY UnitsAssumption, RangeAssumption
<1>2. q \in Nat /\ r \in 0 .. M - 1 /\ X = q * M + r
  BY LeastSecond
<1>3. TruncDiv(-X - 1, M) = -q
  BY LeastSecond
<1>4. (X - (M - 1)) \div M <= q
  <2> DEFINE c == (X - (M - 1)) \div M
             e == (X - (M - 1)) % M
  <2> HIDE DEF M, X
  <2>1. c \in Int /\ e \in 0 .. M - 1 /\ X - (M - 1) = c * M + e
    BY <1>1
  <2> HIDE DEF c, e, q, r
  <2>2. CASE c <= q
    BY <2>2 DEF c
  <2>3. CASE c >= q + 1
    <3>1. c * M >= (q + 1) * M
      BY <1>1, <1>2, <2>1, <2>3
    <3>2. (q + 1) * M = q * M + M
      BY <1>1, <1>2
    <3> QED
      BY <1>1, <1>2, <2>1, <3>1, <3>2
  <2> QED
    BY <1>2, <2>1, <2>2, <2>3
<1>5. floor_div(M - 1, M) = 0 /\ floor_mod(M - 1, M) = M - 1
  <2> DEFINE e == M - 1
  <2>1. e \in 0 .. M - 1 /\ 0 * M + e = e /\ 0 \in Int
    <3> HIDE DEF M
    <3> QED
      BY <1>1
  <2> HIDE DEF e
  <2>2. floor_div(0 * M + e, M) = 0 /\ floor_mod(0 * M + e, M) = e
    BY <1>1, <2>1, FloorQuotients, Zenon
  <2>3. floor_div(e, M) = 0 /\ floor_mod(e, M) = e
    BY <2>1, <2>2, Zenon
  <2> QED
    BY <2>3 DEF e
<1>6. ts < -q \/ ts > q
  <2>1. ts \notin -q .. q
    OBVIOUS
  <2> HIDE DEF q
  <2> QED
    BY <1>2, <2>1
<1>7. \/ ts > 0 /\ ts > (X - (M - 1)) \div M
      \/ ts < 0 /\ ts < TruncDiv(-X - 1, M)
  <2> DEFINE c == (X - (M - 1)) \div M
  <2>1. c \in Int /\ c <= q
    <3>1. c \in Int
      BY <1>1
    <3> QED
      BY <1>4, <3>1
  <2>2. (ts > 0 /\ ts > c) \/ (ts < 0 /\ ts < -q)
    <3> HIDE DEF q, c
    <3> QED
      BY <1>2, <1>6, <2>1
  <2> QED
    BY <1>3, <2>2
<1>8. ts # invalid_argument
  BY RangeAssumption
<1> HIDE DEF X, M
<1>9. ts + 0 = ts
  OBVIOUS
<1> QED
  BY <1>5, <1>7, <1>8, <1>9 DEF WithMilliseconds, X, M

\* Every way to the moment of the walk and from it agrees with the wall calendar.
LEMMA CalendarIsRight == WalkInv => CalendarAgrees
<1> SUFFICES ASSUME WalkInv PROVE CalendarAgrees
  OBVIOUS
<1> DEFINE y == date.year
           m == date.month
           d == date.day
<1>1. /\ CivilInv /\ now = moment /\ day = today
      /\ dt.year = y /\ dt.mon = m /\ dt.day = d
      /\ dt = OnDay(date, second)
      /\ dt.hour = hour /\ dt.min = min /\ dt.sec = sec /\ dt.ms = 0
      /\ shown.weekday = weekday
      /\ y \in Int /\ m \in 1..12 /\ d \in 1..31
      /\ y \in MIN_YEAR .. MAX_YEAR /\ y < MAX_YEAR /\ IsDate(date)
  BY AskedOnTheWall
<1>2. now = DayNumber(y, m, d) * SEC_PER_DAY + second
  BY <1>1 DEF moment, today
<1>3. /\ to_timestamp(y, m, d, hour, min, sec) = now
      /\ to_timestamp_unchecked(y, m, d, hour, min, sec) = now
      /\ legacy_to_timestamp(y, m, d, hour, min, sec) = now
      /\ tm_to_timestamp([tm_year |-> y - 1900, tm_mon |-> m - 1, tm_mday |-> d,
                          tm_hour |-> hour, tm_min |-> min, tm_sec |-> sec]) = now
  <2>1. WaysToTheMoment
    BY <1>1, AllWaysLead
  <2> DEFINE tm == [tm_year |-> y - 1900, tm_mon |-> m - 1, tm_mday |-> d,
                    tm_hour |-> hour, tm_min |-> min, tm_sec |-> sec]
  <2>2. tm \in [tm_year : {date.year - 1900}, tm_mon : {date.month - 1}, tm_mday : {date.day},
                tm_hour : {hour}, tm_min : {min}, tm_sec : {sec}]
    OBVIOUS
  <2>3. tm_to_timestamp(tm) = moment
    BY <2>1, <2>2 DEF WaysToTheMoment
  <2> QED
    BY <1>1, <2>1, <2>3 DEF WaysToTheMoment
<1>4. y >= UNIX_EPOCH => /\ to_timestamp(d, m, y, hour, min, sec) = now
                         /\ legacy_to_timestamp(d, m, y, hour, min, sec) = now
  BY <1>1, TimestampsLead DEF TimestampsLeadHere
<1>5. date_to_unix_day(y, m, d) = day /\ legacy_date_to_unix_day(y, m, d) = day
  BY <1>1, TodayIsNumbered
<1>6. WeekdayIsRight => day_of_week_date(y, m, d) = weekday
  <2> SUFFICES ASSUME WeekdayIsRight PROVE day_of_week_date(y, m, d) = weekday
    OBVIOUS
  <2>1. y \in Nat \ {0}
    BY <1>1 DEF WeekdayIsRight
  <2>2. day_of_week_date(y, m, d) = WeekdayOf(date_to_unix_day(y, m, d))
    BY <1>1, <2>1, WeekdaysByZeller
  <2>3. weekday = WeekdayOf(today)
    BY <1>1 DEF CivilInv, today
  <2> QED
    BY <1>1, <1>5, <2>2, <2>3
<1>7. split_unix_day(now).days = today /\ year_of(now) = y /\ years_since_epoch(now) = y - UNIX_EPOCH
  <2>1. split_unix_day(now).days = today
    BY <1>1, MomentTold DEF MomentIsTold
  <2>2. fast_year_from_days(today) = y
    BY <1>1, DatesAreKnown DEF DayOf, today
  <2>3. years_since_epoch(now) = y - UNIX_EPOCH
    BY <2>1, <2>2 DEF years_since_epoch
  <2>4. (y - UNIX_EPOCH) + UNIX_EPOCH = y
    BY <1>1 DEF UNIX_EPOCH
  <2> QED
    BY <2>1, <2>3, <2>4 DEF year_of
<1>8. ~EndOfFarLeap => day_of_year(now) = DayOfYear(y, m, d)
  <2>1. ~EndOfFarLeap => day_of_year(now) = DaysBefore(y, m) + d
    BY <1>1, YearBegun DEF YearsBegin
  <2>2. DayOfYear(y, m, d) = d + DaysBefore(y, m)
    BY <1>1, DaysBeforeMonths
  <2>3. DaysBefore(y, m) \in Int
    BY <1>1 DEF DaysBefore, mos, lmos
  <2>4. DaysBefore(y, m) + d = d + DaysBefore(y, m)
    BY <1>1, <2>3
  <2> QED
    BY <2>1, <2>2, <2>4
<1>9. PartsAreTold /\ YearsByCycles /\ ClockIsTold
  BY <1>1, PartsTold, YearsCounted, ClockTold
<1>10. ~NewYearOfLeap /\ second > 0 => legacy_to_date_time(now) = dt
  BY <1>1, <1>9 DEF PartsAreTold
<1>11. ~NewYearOfLeap => legacy_years_since_epoch(now) = years_since_epoch(now)
  <2> SUFFICES ASSUME ~NewYearOfLeap PROVE legacy_years_since_epoch(now) = years_since_epoch(now)
    OBVIOUS
  <2>1. BackwardYear(now).year = y
    BY <1>1, <1>9 DEF YearsByCycles
  <2> QED
    BY <1>7, <2>1 DEF legacy_years_since_epoch
<1>12. YearIsRight => /\ month_of_year(now) = m /\ day_of_month(now) = d
                      /\ num_days_in_month_ts(now) = num_days_in_month(y, m)
                      /\ num_days_in_year_ts(now) = YearLength(y)
  BY <1>1, <1>9, MonthsAreRight DEF PartsAreTold, YearsByCycles, YearIsRight
<1>13. now \notin -INT64_MAX \div MS_PER_SEC .. INT64_MAX \div MS_PER_SEC =>
         dt_to_timestamp_ms([dt EXCEPT !.ms = MS_PER_SEC - 1]) = ERROR_TIMESTAMP
  <2> DEFINE late == [dt EXCEPT !.ms = MS_PER_SEC - 1]
  <2>1. /\ late.year = y /\ late.mon = m /\ late.day = d
        /\ late.hour = hour /\ late.min = min /\ late.sec = sec /\ late.ms = MS_PER_SEC - 1
    <3>1. dt = [year |-> dt.year, mon |-> dt.mon, day |-> dt.day,
                hour |-> dt.hour, min |-> dt.min, sec |-> dt.sec, ms |-> dt.ms]
      BY <1>1 DEF OnDay, DateTime
    <3> QED
      BY <1>1, <3>1
  <2>2. dt_to_timestamp_ms(late) = WithMilliseconds(now, MS_PER_SEC - 1)
    BY <1>3, <2>1 DEF dt_to_timestamp_ms, dt_to_timestamp
  <2>3. now \in Int
    BY <1>1, MomentInDays
  <2> QED
    BY <2>2, <2>3, TooFar
<1>14. /\ hour_of_day(now) = hour /\ min_of_hour(now) = min /\ min_of_day(now) = hour * MIN_PER_HOUR + min
       /\ now >= 0 => /\ days_since_epoch(now) = day /\ sec_of_day(now) = second
                      /\ min_since_epoch(now) = day * MIN_PER_DAY + min_of_day(now)
                      /\ sec_of_hour(now) = min * SEC_PER_MIN + sec /\ sec_of_min(now) = sec
  BY <1>1, <1>9 DEF ClockIsTold
<1>15. days_between(now, now + 40 * SEC_PER_DAY) = 40
  <2>1. now \in Int /\ SEC_PER_DAY \in Nat \ {0}
    BY <1>1, MomentInDays, Units
  <2> DEFINE S == SEC_PER_DAY
             days == 40
  <2>2. days \in Int /\ days >= 0
    OBVIOUS
  <2> HIDE DEF S, days
  <2>3. (now + days * S) - now = days * S + 0 /\ days * S + 0 >= 0 /\ 0 \in 0 .. S - 1
    <3>1. days * S >= 0 /\ days * S \in Int
      BY <2>1, <2>2 DEF S
    <3> QED
      BY <2>1, <3>1 DEF S
  <2>4. TruncDiv(days * S + 0, S) = days
    BY <2>1, <2>2, <2>3, TruncQuotients DEF S
  <2>5. days_between(now, now + days * S) = days
    BY <2>3, <2>4 DEF days_between, S
  <2> QED
    BY <2>5 DEF days, S
<1> HIDE DEF y, m, d
<1> QED
  BY <1>1, <1>2, <1>3, <1>4, <1>5, <1>6, <1>7, <1>8, <1>10, <1>11, <1>12, <1>13, <1>14, <1>15
     DEF CalendarAgrees

\* On every walk, at every moment of it, the dates, the timestamps and the parts of
\* both agree with the wall calendar and with each other, on the moments on which
\* the code is right.
THEOREM CalendarsAgree == WalkSpec => []CalendarAgrees
  BY LibraryTellsTheCalendar, CalendarIsRight, PTL

-----------------------------------------------------------------------------
(* The periods around the moment                                           *)

\* Division rounded down is that of the prover.
LEMMA FloorsAreQuotients ==
    ASSUME NEW b \in Nat \ {0}, NEW a \in Int
    PROVE  /\ floor_div(a, b) = a \div b /\ floor_mod(a, b) = a % b
           /\ a \div b \in Int /\ a % b \in 0 .. b - 1 /\ a = (a \div b) * b + (a % b)
<1> DEFINE q == a \div b
           r == a % b
<1>1. q \in Int /\ r \in 0 .. b - 1 /\ a = q * b + r
  OBVIOUS
<1> HIDE DEF q, r
<1>2. floor_div(q * b + r, b) = q /\ floor_mod(q * b + r, b) = r
  BY <1>1, FloorQuotients
<1>3. floor_div(a, b) = q /\ floor_mod(a, b) = r
  BY <1>1, <1>2, Zenon
<1> QED
  BY <1>1, <1>3 DEF q, r

\* A period that begins at a multiple of its length is around the number.
LEMMA PeriodsSurround ==
    ASSUME NEW p \in Nat \ {0}, NEW ts \in Int
    PROVE  LET first == ts - floor_mod(ts, p)
           IN  /\ first \in Int /\ first <= ts /\ ts <= first + p - 1
               /\ (first + p - 1) - first = p - 1
               /\ first % p = 0
<1> DEFINE q == ts \div p
           r == ts % p
           first == ts - floor_mod(ts, p)
<1>1. q \in Int /\ r \in 0 .. p - 1 /\ ts = q * p + r /\ floor_mod(ts, p) = r
  BY FloorsAreQuotients
<1> HIDE DEF q, r
<1>2. first = q * p + 0 /\ q * p \in Int /\ 0 \in 0 .. p - 1
  BY <1>1
<1>3. (q * p + 0) % p = 0
  BY <1>1, <1>2, Quotients
<1>4. first % p = 0
  BY <1>2, <1>3
<1>5. first \in Int /\ first <= ts /\ ts <= first + p - 1 /\ (first + p - 1) - first = p - 1
  BY <1>1, <1>2
<1> QED
  BY <1>4, <1>5

\* Minutes, hours, days and weeks surround the moment.
LEMMA UnitsSurround == WalkInv => UnitsNest
<1> SUFFICES ASSUME WalkInv PROVE UnitsNest
  OBVIOUS
<1>1. now \in Int /\ now = moment /\ CivilInv /\ now = today * SEC_PER_DAY + second /\ today \in Int
      /\ second \in 0 .. SEC_PER_DAY - 1
  BY MomentInDays DEF WalkInv, CivilInv
<1>2. /\ SEC_PER_MIN \in Nat \ {0} /\ SEC_PER_HOUR \in Nat \ {0} /\ SEC_PER_DAY \in Nat \ {0}
      /\ 3 * SEC_PER_MIN \in Nat \ {0}
  <2>1. SEC_PER_MIN \in Nat \ {0} /\ SEC_PER_HOUR \in Nat \ {0} /\ SEC_PER_DAY \in Nat \ {0}
    BY Units
  <2> QED
    BY <2>1
<1>3. Surrounds(start_of_min(now), end_of_min(now), SEC_PER_MIN) /\ start_of_min(now) % SEC_PER_MIN = 0
  BY <1>1, <1>2, PeriodsSurround DEF Surrounds, start_of_min, end_of_min
<1>4. Surrounds(start_of_hour(now), end_of_hour(now), SEC_PER_HOUR) /\ start_of_hour(now) % SEC_PER_HOUR = 0
  <2> DEFINE u == SEC_PER_HOUR
  <2>1. u \in Nat \ {0} /\ start_of_hour(now) = now - floor_mod(now, u)
        /\ end_of_hour(now) = now - floor_mod(now, u) + u - 1
    BY <1>2 DEF start_of_hour, end_of_hour
  <2> HIDE DEF u
  <2> QED
    BY <1>1, <2>1, PeriodsSurround DEF Surrounds, u
<1>5. Surrounds(start_of_day(now), end_of_day(now), SEC_PER_DAY)
  <2> DEFINE u == SEC_PER_DAY
  <2>1. u \in Nat \ {0} /\ start_of_day(now) = now - floor_mod(now, u)
        /\ end_of_day(now) = now - floor_mod(now, u) + u - 1
    BY <1>2 DEF start_of_day, end_of_day
  <2> HIDE DEF u
  <2> QED
    BY <1>1, <2>1, PeriodsSurround DEF Surrounds, u
<1>6. /\ Surrounds(start_of_period(3 * SEC_PER_MIN, now), end_of_period(3 * SEC_PER_MIN, now), 3 * SEC_PER_MIN)
      /\ start_of_period(3 * SEC_PER_MIN, now) % (3 * SEC_PER_MIN) = 0
  <2> DEFINE p == 3 * SEC_PER_MIN
  <2>1. p \in Nat \ {0}
    BY <1>2
  <2> HIDE DEF p
  <2>2. ~(p <= 0)
    BY <2>1
  <2>3. start_of_period(p, now) = now - floor_mod(now, p) /\ end_of_period(p, now) = now - floor_mod(now, p) + p - 1
    BY <2>2 DEF start_of_period, end_of_period
  <2>4. Surrounds(start_of_period(p, now), end_of_period(p, now), p) /\ start_of_period(p, now) % p = 0
    BY <1>1, <2>1, <2>3, PeriodsSurround DEF Surrounds
  <2> QED
    BY <2>4 DEF p
<1>7. Surrounds(start_of_week(now), end_of_week(now), 7 * SEC_PER_DAY)
  <2>1. /\ start_of_week(now) = (today - weekday) * SEC_PER_DAY
        /\ end_of_week(now) = (today - weekday + 7) * SEC_PER_DAY - 1
    BY <1>1, MomentTold DEF MomentIsTold
  <2>2. weekday \in 0..6
    BY <1>1 DEF CivilInv, WeekdayOf
  <2> DEFINE S == SEC_PER_DAY
             n == today
             w == weekday
             k == n - w
  <2>3. S \in Nat \ {0} /\ n \in Int /\ w \in 0..6 /\ k \in Int /\ now = n * S + second /\ second \in 0 .. S - 1
        /\ n = k + w
    BY <1>1, <1>2, <2>2
  <2>4. start_of_week(now) = k * S /\ end_of_week(now) = (k + 7) * S - 1
    BY <2>1
  <2> HIDE DEF S, n, w, k
  <2>5. w * S >= 0 /\ w * S <= 6 * S /\ k * S \in Int /\ w * S \in Int
    BY <2>3
  <2>6. n * S = k * S + w * S /\ (k + 7) * S = k * S + 7 * S
    BY <2>3
  <2> QED
    BY <2>3, <2>4, <2>5, <2>6 DEF Surrounds, S
<1> QED
  BY <1>3, <1>4, <1>5, <1>6, <1>7 DEF UnitsNest

\* The day of the moment and its week are those of the wall calendar.
LEMMA DaysAround == WalkInv => DaysNest
<1> SUFFICES ASSUME WalkInv PROVE DaysNest
  OBVIOUS
<1>1. CivilInv /\ now = moment /\ day = today /\ shown.weekday = weekday
  BY AskedOnTheWall
<1>2. MomentIsTold
  BY <1>1, MomentTold
<1>3. /\ floor_mod(now, SEC_PER_DAY) = second /\ now = today * SEC_PER_DAY + second
      /\ now \in Int /\ today \in Int /\ second \in Int /\ SEC_PER_DAY \in Int /\ second \in 0 .. SEC_PER_DAY - 1
  BY <1>1, MomentInDays DEF CivilInv
<1>4. start_of_prev_day(now, 1) = unix_day_to_ts(day - 1)
  <2>1. start_of_prev_day(now, 1) = today * SEC_PER_DAY + second - second - SEC_PER_DAY * 1
    BY <1>3 DEF start_of_prev_day
  <2> HIDE DEF today
  <2>2. today * SEC_PER_DAY + second - second - SEC_PER_DAY * 1 = (today - 1) * SEC_PER_DAY
    BY <1>3
  <2> QED
    BY <1>1, <2>1, <2>2 DEF unix_day_to_ts
<1>5. split_unix_day(next_day(now, 1)) = [days |-> day + 1, sec_of_day |-> second]
  <2> DEFINE n == today
  <2>1. n \in Int /\ next_day(now, 1) = n * SEC_PER_DAY + second + 1 * SEC_PER_DAY
    BY <1>3 DEF next_day
  <2> HIDE DEF n
  <2>2. n * SEC_PER_DAY + second + 1 * SEC_PER_DAY = (n + 1) * SEC_PER_DAY + second /\ n + 1 \in Int
    BY <1>3, <2>1
  <2>3. split_unix_day((n + 1) * SEC_PER_DAY + second) = [days |-> n + 1, sec_of_day |-> second]
    BY <1>3, <2>2, SplitByFloors
  <2> QED
    BY <1>1, <2>1, <2>2, <2>3 DEF n
<1> QED
  BY <1>1, <1>2, <1>4, <1>5 DEF MomentIsTold, DaysNest

\* The number of the first day of a year and of a month, and of the days after it.
LEMMA FirstDays ==
    ASSUME NEW y \in Int, NEW m \in 1..12, NEW d \in Int
    PROVE  /\ DayNumber(y, 1, 1) = DaysBeforeYear(y) /\ DaysBeforeYear(y) \in Int
           /\ DayNumber(y, m, d) = DayNumber(y, m, 1) + d - 1
           /\ DayNumber(y, m, 1) \in Int
<1>1. DaysBeforeYear(y) \in Int /\ DaysBefore(y, m) \in Int /\ 1 \in 1..12 /\ 1 \in Int
  <2>1. DaysBeforeYear(y) \in Int
    BY CountsAreIntegers
  <2>2. DaysBefore(y, m) \in Int
    BY CountsAreIntegers
  <2> QED
    BY <2>1, <2>2
<1>2. DaysBefore(y, 1) = 0
  BY DEF DaysBefore, mos, lmos
<1>3. /\ DayNumber(y, 1, 1) = DaysBeforeYear(y) + DaysBefore(y, 1) + 1 - 1
      /\ DayNumber(y, m, d) = DaysBeforeYear(y) + DaysBefore(y, m) + d - 1
      /\ DayNumber(y, m, 1) = DaysBeforeYear(y) + DaysBefore(y, m) + 1 - 1
  <2>1. /\ date_to_unix_day(y, 1, 1) = DaysBeforeYear(y) + DaysBefore(y, 1) + 1 - 1
        /\ date_to_unix_day(y, m, d) = DaysBeforeYear(y) + DaysBefore(y, m) + d - 1
        /\ date_to_unix_day(y, m, 1) = DaysBeforeYear(y) + DaysBefore(y, m) + 1 - 1
    BY <1>1, DayFormula
  <2> QED
    BY <1>1, <2>1, DaysAreCounted
<1> QED
  BY <1>1, <1>2, <1>3

\* start_of_year_date() of a year of the library.
LEMMA YearsStart ==
    ASSUME NEW y \in Int, y \in MIN_YEAR .. MAX_YEAR
    PROVE  start_of_year_date(y) = DayNumber(y, 1, 1) * SEC_PER_DAY
<1>1. SEC_PER_MIN \in Nat \ {0} /\ SEC_PER_HOUR \in Nat \ {0} /\ SEC_PER_DAY \in Nat \ {0}
  BY Units
<1>2. is_valid_date_time(y, 1, 1, 0, 0, 0, 0)
  <2>1. is_valid_time(0, 0, 0, 0)
    BY UnitsAssumption DEF is_valid_time
  <2>2. is_valid_date(y, 1, 1)
    <3>1. MIN_YEAR <= y /\ y <= MAX_YEAR
      BY YearsAssumption
    <3> QED
      BY <3>1 DEF is_valid_date, FEB
  <2> QED
    BY <2>1, <2>2 DEF is_valid_date_time
<1>3. ~IsReordered(y, 1)
  BY DEF IsReordered, UNIX_EPOCH
<1>4. to_timestamp(y, 1, 1, 0, 0, 0) = to_timestamp_unchecked(y, 1, 1, 0, 0, 0)
  BY <1>2, <1>3, Zenon DEF to_timestamp
<1> DEFINE n == DayNumber(y, 1, 1)
<1>5. n \in Int /\ date_to_unix_day(y, 1, 1) = n
  <2>1. 1 \in 1..12 /\ 1 \in Int
    OBVIOUS
  <2> QED
    BY <2>1, DaysAreCounted, DayNumberType
<1>6. to_timestamp_unchecked(y, 1, 1, 0, 0, 0) = n * SEC_PER_DAY + SEC_PER_HOUR * 0 + SEC_PER_MIN * 0 + 0
  BY <1>3, <1>5 DEF to_timestamp_unchecked
<1> HIDE DEF n
<1>7. n * SEC_PER_DAY + SEC_PER_HOUR * 0 + SEC_PER_MIN * 0 + 0 = n * SEC_PER_DAY + 0
      /\ n * SEC_PER_DAY \in Int /\ 0 \in 0 .. SEC_PER_DAY - 1
  BY <1>1, <1>5
<1>8. floor_mod(n * SEC_PER_DAY + 0, SEC_PER_DAY) = 0
  BY <1>1, <1>5, <1>7, FloorQuotients, Zenon
<1>9. start_of_year_date(y) = (n * SEC_PER_DAY + 0) - 0
  BY <1>4, <1>6, <1>7, <1>8 DEF start_of_year_date, start_of_day
<1> QED
  BY <1>7, <1>9 DEF n

\* The Sunday before the day after, of a day n that has w days since Sunday.
LEMMA SundayBefore ==
    ASSUME NEW n \in Int
    PROVE  /\ WeekdayOf(n) \in 0..6 /\ WeekdayOf(n - WeekdayOf(n)) = SUN
           /\ n - WeekdayOf(n) \in Int
<1> DEFINE w == (n + 4) % 7
<1>1. w \in 0..6 /\ ((n - w) + 4) % 7 = 0
  OBVIOUS
<1> QED
  BY <1>1 DEF WeekdayOf, SUN

\* Years, months and the last Sunday of the month are around the moment.
LEMMA YearsAround == WalkInv => YearsNest
<1> SUFFICES ASSUME WalkInv PROVE YearsNest
  OBVIOUS
<1> DEFINE y     == date.year
           m     == date.month
           d     == date.day
           S     == SEC_PER_DAY
           n     == today
           first == DayNumber(y, m, 1)
           len   == MonthLength(y, m)
           last  == first + (len - 1)
           w     == WeekdayOf(last)
<1>1. /\ CivilInv /\ now = moment /\ dt.year = y /\ dt.mon = m
      /\ y \in Int /\ m \in 1..12 /\ d \in 1..31 /\ y \in MIN_YEAR .. MAX_YEAR /\ y < MAX_YEAR
  BY AskedOnTheWall
<1>2. S \in Nat \ {0} /\ n \in Int /\ second \in 0 .. S - 1 /\ now = n * S + second
  BY <1>1, Units DEF CivilInv, moment
<1>3. len \in 28..31 /\ d \in Int
  BY <1>1 DEF MonthLength
<1>4. /\ DayNumber(y, 1, 1) = DaysBeforeYear(y) /\ DaysBeforeYear(y) \in Int /\ first \in Int
      /\ n = first + d - 1 /\ DayNumber(y, m, len) = first + len - 1
      /\ DayNumber(y + 1, 1, 1) = DaysBeforeYear(y) + YearLength(y) /\ YearLength(y) \in Int
  <2>1. /\ DayNumber(y, 1, 1) = DaysBeforeYear(y) /\ DaysBeforeYear(y) \in Int /\ first \in Int
        /\ n = first + d - 1
    BY <1>1, <1>3, FirstDays DEF today
  <2>2. len \in Int /\ y + 1 \in Int
    BY <1>1, <1>3
  <2>3. DayNumber(y, m, len) = first + len - 1
    BY <1>1, <2>2, FirstDays
  <2>4. DayNumber(y + 1, 1, 1) = DaysBeforeYear(y + 1)
    BY <1>1, <2>2, FirstDays
  <2>5. DaysBeforeYear(y + 1) = DaysBeforeYear(y) + YearLength(y) /\ YearLength(y) \in Int
    BY <1>1, YearsAddUp DEF YearLength
  <2> QED
    BY <2>1, <2>3, <2>4, <2>5
<1>5. start_of_year_date(y) = DayNumber(y, 1, 1) * S
  BY <1>1, YearsStart
<1>6. ~EndOfFarLeap => start_of_year(now) = DayNumber(y, 1, 1) * S
  BY <1>1, <1>4, YearBegun DEF YearsBegin
<1>7. last \in Int /\ w \in 0..6 /\ WeekdayOf(last - w) = SUN /\ last - w \in Int
      /\ DayNumber(y, m, len) = last
  <2>1. last \in Int /\ first + len - 1 = last
    <3> HIDE DEF first, len
    <3> QED
      BY <1>3, <1>4
  <2> HIDE DEF last
  <2> QED
    BY <1>4, <2>1, SundayBefore
<1>8. ASSUME YearIsRight
      PROVE  end_of_year(now) = DayNumber(y + 1, 1, 1) * S - 1
  <2>1. num_days_in_year_ts(now) = YearLength(y) /\ start_of_year(now) = DaysBeforeYear(y) * S
    BY <1>1, <1>4, <1>6, <1>8, YearsCounted DEF YearsByCycles, YearIsRight
  <2>2. end_of_year(now) = DaysBeforeYear(y) * S + YearLength(y) * S - 1
    BY <2>1 DEF end_of_year
  <2> HIDE DEF y, S
  <2>3. DaysBeforeYear(y) * S + YearLength(y) * S - 1 = (DaysBeforeYear(y) + YearLength(y)) * S - 1
    BY <1>2, <1>4
  <2> QED
    BY <1>4, <2>2, <2>3
<1>9. ASSUME YearIsRight
      PROVE  /\ start_of_month(now) = first * S
             /\ end_of_month(now) = (first * S + len * S) - 1
             /\ end_of_month(now) = last * S + (S - 1)
  <2>1. day_of_month(now) = d /\ num_days_in_month_ts(now) = len
    BY <1>1, <1>9, PartsTold DEF PartsAreTold
  <2>2. start_of_day(now) = n * S /\ end_of_day(now) = n * S + S - 1
    BY <1>1, MomentTold DEF MomentIsTold, unix_day_to_ts, end_of_day_from_unix_day
  <2>3. start_of_month(now) = n * S - (d - 1) * S /\ end_of_month(now) = n * S + S - 1 + (len - d) * S
    BY <2>1, <2>2 DEF start_of_month, end_of_month
  <2> HIDE DEF S, n, d, len, first
  <2>4. n * S - (d - 1) * S = first * S
    BY <1>2, <1>3, <1>4
  <2>5. n * S + S - 1 + (len - d) * S = (first * S + len * S) - 1
    BY <1>2, <1>3, <1>4
  <2>6. (first * S + len * S) - 1 = (first + (len - 1)) * S + (S - 1)
    BY <1>2, <1>3, <1>4
  <2> QED
    BY <2>3, <2>4, <2>5, <2>6
<1>10. ASSUME YearIsRight
       PROVE  last_sunday_of_month(now) = (last - w) * S
  <2> DEFINE end == last * S + (S - 1)
  <2>1. S - 1 \in 0 .. S - 1
    BY <1>2
  <2>2. weekday_of_ts(end) = w
    <3> HIDE DEF last
    <3> QED
      BY <1>7, <2>1, WeekdayByFloors DEF S
  <2>3. start_of_day(end) = end - (S - 1)
    <3> HIDE DEF last
    <3>1. floor_mod(end, S) = S - 1
      BY <1>2, <1>7, <2>1, FloorQuotients
    <3> QED
      BY <3>1 DEF start_of_day, S
  <2>4. last_sunday_of_month(now) = (end - (S - 1)) - w * S
    BY <1>9, <1>10, <2>2, <2>3 DEF last_sunday_of_month
  <2> HIDE DEF last, w, S
  <2>5. (end - (S - 1)) - w * S = (last - w) * S
    BY <1>2, <1>7
  <2> QED
    BY <2>4, <2>5
<1>11. ASSUME YearIsRight, WeekdayIsRight
       PROVE  last_sunday_of_month(now) = first * S + (last_sunday_month_day(y, m) - 1) * S
  <2>1. num_days_in_month(y, m) = len
    BY <1>1, MonthsAreRight
  <2>2. day_of_week_date(y, m, len) = w
    <3>1. y \in Nat \ {0}
      BY <1>1, <1>11 DEF WeekdayIsRight
    <3>2. len \in 1..31 /\ len \in Int
      BY <1>3
    <3> HIDE DEF len, y, m
    <3>3. day_of_week_date(y, m, len) = WeekdayOf(date_to_unix_day(y, m, len))
      BY <1>1, <3>1, <3>2, WeekdaysByZeller
    <3>4. date_to_unix_day(y, m, len) = DayNumber(y, m, len)
      BY <1>1, <3>2, DaysAreCounted
    <3> QED
      BY <1>7, <3>3, <3>4
  <2>3. last_sunday_month_day(y, m) = len - w
    BY <2>1, <2>2 DEF last_sunday_month_day
  <2>4. last - w = first + ((len - w) - 1)
    <3> HIDE DEF first, len, w
    <3> QED
      BY <1>3, <1>4, <1>7
  <2> DEFINE k == (len - w) - 1
  <2>5. k \in Int
    <3> HIDE DEF len, w
    <3> QED
      BY <1>3, <1>7
  <2> HIDE DEF k, first, S
  <2>6. (first + k) * S = first * S + k * S
    BY <1>2, <1>4, <2>5
  <2> QED
    BY <1>10, <1>11, <2>3, <2>4, <2>6 DEF k
<1>12. ASSUME YearIsRight
       PROVE  /\ weekday_of_ts(last_sunday_of_month(now)) = SUN
              /\ last_sunday_of_month(now) + 7 * S \in first * S + len * S .. first * S + len * S + 6 * S
  <2> DEFINE k == last - w
  <2>1. k \in Int /\ WeekdayOf(k) = SUN /\ last_sunday_of_month(now) = k * S
    BY <1>7, <1>10, <1>12
  <2>2. k = (first + len) - 1 - w /\ first + len \in Int
    <3> HIDE DEF first, len, w
    <3> QED
      BY <1>3, <1>4, <1>7
  <2>3. weekday_of_ts(k * S) = SUN
    <3> HIDE DEF k
    <3>1. 0 \in 0 .. S - 1 /\ k * S + 0 = k * S
      BY <1>2, <2>1
    <3>2. weekday_of_ts(k * S + 0) = SUN
      BY <2>1, <3>1, WeekdayByFloors DEF S
    <3> QED
      BY <3>1, <3>2
  <2> DEFINE e == first + len
             x == 6 - w
  <2>4. x \in 0..6 /\ k + 7 = e + x /\ e \in Int
    <3> HIDE DEF first, len, w, k
    <3> QED
      BY <1>7, <2>1, <2>2
  <2>5. e * S = first * S + len * S
    <3> HIDE DEF first, len, S
    <3> QED
      BY <1>2, <1>3, <1>4
  <2>6. k * S + 7 * S \in e * S .. e * S + 6 * S
    <3> HIDE DEF e, x, k, S
    <3>1. k * S + 7 * S = (k + 7) * S /\ (e + x) * S = e * S + x * S
      BY <1>2, <2>1, <2>4
    <3>2. x * S >= 0 /\ x * S <= 6 * S /\ x * S \in Int /\ e * S \in Int
      BY <1>2, <2>4
    <3> QED
      BY <1>2, <2>4, <3>1, <3>2
  <2> QED
    BY <2>1, <2>3, <2>5, <2>6
<1>13. (first * S + len * S) \in Int
  <2> HIDE DEF first, len, S
  <2> QED
    BY <1>2, <1>3, <1>4
<1> QED
  BY <1>1, <1>5, <1>6, <1>8, <1>9, <1>11, <1>12, Zenon DEF YearsNest

\* Milliseconds are divided by a unit of seconds as the seconds are.
LEMMA MillisecondsAreDivided ==
    ASSUME NEW u \in Nat \ {0}, NEW ts \in Int, NEW part \in 0 .. MS_PER_SEC - 1
    PROVE  /\ floor_div(ts * MS_PER_SEC + part, MS_PER_SEC * u) = floor_div(ts, u)
           /\ floor_mod(ts * MS_PER_SEC + part, MS_PER_SEC * u) = floor_mod(ts, u) * MS_PER_SEC + part
           /\ floor_div(ts * MS_PER_SEC + part, MS_PER_SEC) = ts
           /\ floor_mod(ts * MS_PER_SEC + part, MS_PER_SEC) = part
           /\ floor_mod(ts, u) \in Int /\ floor_div(ts, u) \in Int
           /\ floor_div(ts, u) * u = ts - floor_mod(ts, u)
<1> DEFINE M  == MS_PER_SEC
           q  == ts \div u
           r  == ts % u
           b  == M * u
           mr == r * M + part
<1>1. M \in Nat \ {0} /\ q \in Int /\ r \in 0 .. u - 1 /\ ts = q * u + r
      /\ floor_div(ts, u) = q /\ floor_mod(ts, u) = r
  BY UnitsAssumption, FloorsAreQuotients
<1>2. part \in 0 .. M - 1
  OBVIOUS
<1> HIDE DEF M, q, r
<1>3. b \in Nat \ {0}
  <2>1. b \in Int /\ b # 0 /\ b >= 0
    BY <1>1
  <2> QED
    BY <2>1
<1>4. mr \in 0 .. b - 1
  <2>1. r * M >= 0 /\ r * M \in Int
    BY <1>1
  <2>2. r * M <= (u - 1) * M
    BY <1>1
  <2>3. (u - 1) * M = M * u - M
    BY <1>1
  <2> QED
    BY <1>1, <1>2, <2>1, <2>2, <2>3
<1>5. ts * M + part = q * b + mr
  <2>1. (q * u + r) * M = q * (M * u) + r * M
    BY <1>1
  <2> QED
    BY <1>1, <1>2, <2>1
<1>6. floor_div(q * b + mr, b) = q /\ floor_mod(q * b + mr, b) = mr
  <2> HIDE DEF b, mr
  <2> QED
    BY <1>1, <1>3, <1>4, FloorQuotients
<1>7. floor_div(ts * M + part, M) = ts /\ floor_mod(ts * M + part, M) = part
  BY <1>1, <1>2, FloorQuotients
<1>8. q * u = ts - r
  BY <1>1
<1> QED
  BY <1>1, <1>5, <1>6, <1>7, <1>8 DEF M

\* Seconds within the range of milliseconds are converted.
LEMMA MillisecondsFit ==
    ASSUME NEW ts \in Int, NEW part \in 0 .. MS_PER_SEC - 1, NEW carry \in Int,
           -(INT64_MAX \div MS_PER_SEC) <= ts + carry, ts + carry < INT64_MAX \div MS_PER_SEC
    PROVE  WithMilliseconds(ts, carry * MS_PER_SEC + part) = (ts + carry) * MS_PER_SEC + part
<1> DEFINE M == MS_PER_SEC
           X == INT64_MAX
           q == X \div M
           s == ts + carry
<1>1. M \in Nat \ {0} /\ X \in Nat /\ (X + 1) % M # 0
  BY UnitsAssumption, RangeAssumption
<1>2. q \in Int /\ X % M \in 0 .. M - 1 /\ X = q * M + (X % M) /\ s \in Int /\ -q <= s /\ s < q /\ part \in 0 .. M - 1
  <2>1. q \in Nat /\ X % M \in 0 .. M - 1 /\ X = q * M + (X % M)
    BY LeastSecond
  <2>2. -q <= s /\ s < q /\ s \in Int
    OBVIOUS
  <2> QED
    BY <2>1, <2>2
<1>3. floor_div(carry * M + part, M) = carry /\ floor_mod(carry * M + part, M) = part
  BY <1>1, <1>2, FloorQuotients
<1>4. ~(s > (X - part) \div M)
  <2> DEFINE c == (X - part) \div M
             e == (X - part) % M
  <2>1. c \in Int /\ e \in 0 .. M - 1 /\ X - part = c * M + e
    <3> HIDE DEF M, X
    <3>1. X - part \in Int
      BY <1>1, <1>2
    <3> QED
      BY <1>1, <3>1, FloorsAreQuotients
  <2> HIDE DEF c, e, q, M, X, s
  <2>2. CASE s <= c
    BY <1>2, <2>1, <2>2 DEF c
  <2>3. CASE s >= c + 1
    <3>1. q >= c + 2
      BY <1>2, <2>1, <2>3
    <3>2. q * M >= (c + 2) * M
      BY <1>1, <1>2, <2>1, <3>1
    <3>3. (c + 2) * M = c * M + 2 * M /\ c * M \in Int /\ q * M \in Int
      BY <1>1, <1>2, <2>1
    <3> DEFINE rest == X % M
    <3>4. rest \in 0 .. M - 1 /\ X = q * M + rest
      BY <1>2
    <3> HIDE DEF rest
    <3> QED
      BY <1>1, <1>2, <2>1, <3>2, <3>3, <3>4
  <2> QED
    BY <1>2, <2>1, <2>2, <2>3
<1>5. ~(s < TruncDiv(-X - 1, M))
  <2>1. TruncDiv(-X - 1, M) = -q
    BY LeastSecond
  <2> HIDE DEF q, s
  <2> QED
    BY <1>2, <2>1
<1>6. ts # invalid_argument
  BY RangeAssumption
<1> DEFINE ms == carry * M + part
<1>7. WithMilliseconds(ts, ms) = IF \/ ts + floor_div(ms, M) > 0 /\ ts + floor_div(ms, M) > (X - floor_mod(ms, M)) \div M
                                    \/ ts + floor_div(ms, M) < 0 /\ ts + floor_div(ms, M) < TruncDiv(-X - 1, M)
                                 THEN ERROR_TIMESTAMP
                                 ELSE (ts + floor_div(ms, M)) * M + floor_mod(ms, M)
  BY <1>6, Zenon DEF WithMilliseconds
<1> HIDE DEF q, M, X
<1> QED
  BY <1>3, <1>4, <1>5, <1>7, Zenon DEF M, s

\* A period in milliseconds begins and ends with that in seconds.
LEMMA MillisecondPeriods ==
    ASSUME NEW u \in Nat \ {0}, NEW ts \in Int, NEW part \in 0 .. MS_PER_SEC - 1
    PROVE  LET ms    == ts * MS_PER_SEC + part
               first == ts - floor_mod(ts, u)
           IN  /\ ms - floor_mod(ms, MS_PER_SEC * u) = first * MS_PER_SEC
               /\ ms - floor_mod(ms, MS_PER_SEC * u) + MS_PER_SEC * u - 1
                    = (first + u - 1) * MS_PER_SEC + MS_PER_SEC - 1
               /\ first * MS_PER_SEC = floor_div(ts, u) * (MS_PER_SEC * u)
<1> DEFINE M     == MS_PER_SEC
           q     == floor_div(ts, u)
           r     == floor_mod(ts, u)
           first == ts - r
           ms    == ts * M + part
           ended == ms - floor_mod(ms, M * u)
<1>1. /\ M \in Nat \ {0} /\ part \in 0 .. M - 1 /\ q \in Int /\ r \in Int /\ q * u = first
      /\ floor_mod(ms, M * u) = r * M + part
  BY UnitsAssumption, MillisecondsAreDivided
<1> HIDE DEF M, q, r
<1>2. ended = first * M
  <2>1. (ts * M + part) - (r * M + part) = (ts - r) * M
    BY <1>1
  <2> QED
    BY <1>1, <2>1
<1>3. (ts - r) * M + M * u - 1 = ((ts - r) + u - 1) * M + M - 1
  BY <1>1
<1>4. (q * u) * M = q * (M * u)
  BY <1>1
<1> HIDE DEF ended
<1>5. ended + M * u - 1 = (first + u - 1) * M + M - 1
  BY <1>2, <1>3
<1>6. first * M = q * (M * u)
  BY <1>1, <1>4
<1> QED
  BY <1>2, <1>5, <1>6, Zenon DEF M, q, r, ended

\* What is in milliseconds of the moment is what is in its seconds.
LEMMA MillisecondsAround == WalkInv /\ MsRange => MsPeriodsNest
<1> SUFFICES ASSUME WalkInv, MsRange, NEW part \in MsParts
             PROVE  LET ms == sec_to_ms(now) + part
        IN  /\ ms_to_sec(ms) = now /\ ms_part(ms) = part
            /\ start_of_day_ms(ms) = sec_to_ms(start_of_day_sec(ms))
            /\ end_of_day_ms(ms) = sec_to_ms(end_of_day_sec(ms)) + MS_PER_SEC - 1
            /\ start_of_hour_ms(ms) = sec_to_ms(start_of_hour_sec(ms))
            /\ end_of_hour_ms(ms) = sec_to_ms(end_of_hour_sec(ms)) + MS_PER_SEC - 1
            /\ start_of_next_day_ms(ms, 1) = start_of_next_day_from_unix_day_ms(day)
            /\ start_of_day_ms(next_day_ms(ms, 1)) = unix_day_to_ts_ms(day + 1)
            /\ end_of_day_from_unix_day_ms(day) = end_of_day_ms(ms)
            /\ min_to_sec(ms_to_min(ms)) = start_of_min(now) /\ end_of_hour_sec(ms) = end_of_hour(now)
            /\ start_of_year_ms(ms) = sec_to_ms(start_of_year(now))
            /\ end_of_year_ms(ms) = sec_to_ms(end_of_year(now)) + MS_PER_SEC - 1
            /\ ms_to_min(ms) = sec_to_min(now) /\ ms_to_hour(ms) = sec_to_hour(now)
            /\ min_to_ms(ms_to_min(ms)) = sec_to_ms(start_of_min(now))
            /\ hour_to_ms(ms_to_hour(ms)) = sec_to_ms(hour_to_sec(sec_to_hour(now)))
            /\ year_of_ms(ms) = dt.year /\ weekday_of_ts_ms(ms) = shown.weekday
            /\ to_date_time_ms(ms) = [dt EXCEPT !.ms = part]
            /\ dt_to_timestamp_ms(to_date_time_ms(ms)) = ms
            /\ to_timestamp_ms(dt.year, dt.mon, dt.day, dt.hour, dt.min, dt.sec, part - MS_PER_SEC)
                 = ms - MS_PER_SEC
            /\ now >= 0 => days_since_epoch_ms(ms) = day /\ sec_of_day_ms(ms) = second
  BY DEF MsPeriodsNest
<1> DEFINE ms == sec_to_ms(now) + part
           M  == MS_PER_SEC
           S  == SEC_PER_DAY
           H  == SEC_PER_HOUR
           Mi == SEC_PER_MIN
<1>1. /\ CivilInv /\ now = moment /\ day = today /\ dt = OnDay(date, second)
      /\ dt.year = date.year /\ dt.mon = date.month /\ dt.day = date.day
      /\ dt.hour = hour /\ dt.min = min /\ dt.sec = sec /\ shown.weekday = weekday
      /\ date.year \in MIN_YEAR .. MAX_YEAR /\ IsDate(date)
  BY AskedOnTheWall
<1>2. /\ now \in Int /\ day \in Int /\ second \in 0 .. S - 1 /\ now = day * S + second
      /\ floor_div(now, S) = day /\ floor_mod(now, S) = second
  BY <1>1, MomentInDays DEF CivilInv
<1>3. M \in Nat \ {0} /\ S \in Nat \ {0} /\ H \in Nat \ {0} /\ Mi \in Nat \ {0}
  BY Units, UnitsAssumption
<1>4. part \in 0 .. M - 1
  <2> HIDE DEF M
  <2>1. M \div 128 \in 0 .. M - 1
    BY <1>3
  <2> QED
    BY <1>3, <2>1 DEF MsParts, M
<1>5. ms = now * M + part
  BY DEF sec_to_ms
<1>6. ms_to_sec(ms) = now /\ ms_part(ms) = part
  <2>1. 1 \in Nat \ {0}
    OBVIOUS
  <2> HIDE DEF ms
  <2> QED
    BY <1>2, <1>4, <1>5, <2>1, MillisecondsAreDivided DEF ms_to_sec, ms_part
<1>7. ASSUME NEW u \in Nat \ {0}
      PROVE  /\ ms - floor_mod(ms, M * u) = (now - floor_mod(now, u)) * M
             /\ ms - floor_mod(ms, M * u) + M * u - 1 = (now - floor_mod(now, u) + u - 1) * M + M - 1
             /\ (now - floor_mod(now, u)) * M = floor_div(now, u) * (M * u)
             /\ floor_div(ms, M * u) = floor_div(now, u)
             /\ floor_div(now, u) * u = now - floor_mod(now, u)
             /\ floor_div(now, u) \in Int
  <2> DEFINE given == now * M + part
  <2>1. /\ given - floor_mod(given, M * u) = (now - floor_mod(now, u)) * M
        /\ given - floor_mod(given, M * u) + M * u - 1 = (now - floor_mod(now, u) + u - 1) * M + M - 1
        /\ (now - floor_mod(now, u)) * M = floor_div(now, u) * (M * u)
    BY <1>2, <1>4, <1>7, MillisecondPeriods
  <2>2. /\ floor_div(given, M * u) = floor_div(now, u)
        /\ floor_div(now, u) * u = now - floor_mod(now, u)
        /\ floor_div(now, u) \in Int
    BY <1>2, <1>4, <1>7, MillisecondsAreDivided
  <2>3. ms = given
    BY <1>5
  <2> HIDE DEF ms, given
  <2> QED
    BY <2>1, <2>2, <2>3
<1>8. /\ start_of_day_ms(ms) = sec_to_ms(start_of_day_sec(ms))
      /\ end_of_day_ms(ms) = sec_to_ms(end_of_day_sec(ms)) + M - 1
      /\ start_of_day_ms(ms) = day * (M * S)
      /\ end_of_day_ms(ms) = start_of_day_ms(ms) + M * S - 1
  <2> HIDE DEF ms
  <2>1. /\ ms - floor_mod(ms, M * S) = (now - floor_mod(now, S)) * M
        /\ ms - floor_mod(ms, M * S) + M * S - 1 = (now - floor_mod(now, S) + S - 1) * M + M - 1
        /\ (now - floor_mod(now, S)) * M = floor_div(now, S) * (M * S)
    BY <1>3, <1>7
  <2> QED
    BY <1>2, <1>6, <2>1, Zenon
       DEF start_of_day_ms, end_of_day_ms, start_of_day_sec, end_of_day_sec, start_of_day, end_of_day, sec_to_ms, MS_PER_DAY
<1>9. /\ start_of_hour_ms(ms) = sec_to_ms(start_of_hour_sec(ms))
      /\ end_of_hour_ms(ms) = sec_to_ms(end_of_hour_sec(ms)) + M - 1
      /\ end_of_hour_sec(ms) = end_of_hour(now)
      /\ ms_to_hour(ms) = sec_to_hour(now)
      /\ hour_to_ms(ms_to_hour(ms)) = sec_to_ms(hour_to_sec(sec_to_hour(now)))
  <2> HIDE DEF ms
  <2>1. /\ ms - floor_mod(ms, M * H) = (now - floor_mod(now, H)) * M
        /\ ms - floor_mod(ms, M * H) + M * H - 1 = (now - floor_mod(now, H) + H - 1) * M + M - 1
        /\ (now - floor_mod(now, H)) * M = floor_div(now, H) * (M * H)
        /\ floor_div(ms, M * H) = floor_div(now, H)
        /\ floor_div(now, H) * H = now - floor_mod(now, H)
    BY <1>3, <1>7
  <2> QED
    BY <1>6, <2>1, Zenon
       DEF start_of_hour_ms, end_of_hour_ms, start_of_hour_sec, end_of_hour_sec, start_of_hour, end_of_hour,
           ms_to_hour, sec_to_hour, hour_to_ms, hour_to_sec, sec_to_ms, MS_PER_HOUR
<1>10. /\ min_to_sec(ms_to_min(ms)) = start_of_min(now)
       /\ ms_to_min(ms) = sec_to_min(now)
       /\ min_to_ms(ms_to_min(ms)) = sec_to_ms(start_of_min(now))
  <2> HIDE DEF ms
  <2>1. /\ (now - floor_mod(now, Mi)) * M = floor_div(now, Mi) * (M * Mi)
        /\ floor_div(ms, M * Mi) = floor_div(now, Mi)
        /\ floor_div(now, Mi) * Mi = now - floor_mod(now, Mi)
    BY <1>3, <1>7
  <2> QED
    BY <2>1, Zenon DEF start_of_min, ms_to_min, sec_to_min, min_to_sec, min_to_ms, sec_to_ms, MS_PER_MIN
<1>11. /\ start_of_next_day_ms(ms, 1) = start_of_next_day_from_unix_day_ms(day)
       /\ end_of_day_from_unix_day_ms(day) = end_of_day_ms(ms)
  <2> DEFINE b == M * S
  <2>1. start_of_day_ms(ms) = day * b /\ end_of_day_ms(ms) = day * b + b - 1 /\ b \in Int /\ MS_PER_DAY = b
    BY <1>3, <1>8 DEF MS_PER_DAY
  <2> HIDE DEF b, ms
  <2>2. day * b + 1 * b = day * b + b
    BY <1>2, <2>1
  <2> QED
    BY <2>1, <2>2 DEF start_of_next_day_ms, start_of_next_day_from_unix_day_ms, end_of_day_from_unix_day_ms
<1>12. start_of_day_ms(next_day_ms(ms, 1)) = unix_day_to_ts_ms(day + 1)
  <2> DEFINE next == now + S
             nms  == next * M + part
             b    == M * S
  <2>1. next \in Int /\ next = (day + 1) * S + second /\ day + 1 \in Int
    <3> HIDE DEF S
    <3> QED
      BY <1>2, <1>3
  <2>2. nms = ms + 1 * b
    <3> HIDE DEF M, S, ms
    <3> QED
      BY <1>2, <1>3, <1>4, <1>5
  <2> HIDE DEF ms, next
  <2>3. floor_div(next, S) = day + 1
    BY <1>2, <1>3, <2>1, FloorQuotients
  <2>4. nms - floor_mod(nms, M * S) = floor_div(next, S) * (M * S)
    BY <1>3, <1>4, <2>1, MillisecondPeriods
  <2>5. next_day_ms(ms, 1) = nms
    BY <2>2 DEF next_day_ms, MS_PER_DAY
  <2> QED
    BY <2>3, <2>4, <2>5, Zenon DEF start_of_day_ms, unix_day_to_ts_ms, MS_PER_DAY
<1>13. /\ start_of_year_ms(ms) = sec_to_ms(start_of_year(now))
       /\ end_of_year_ms(ms) = sec_to_ms(end_of_year(now)) + (M - 1)
       /\ weekday_of_ts_ms(ms) = weekday_of_ts(now) /\ year_of_ms(ms) = year_of(now)
       /\ days_since_epoch_ms(ms) = days_since_epoch(now) /\ sec_of_day_ms(ms) = sec_of_day(now)
       /\ to_date_time_ms(ms) = [to_date_time(now) EXCEPT !.ms = part]
  BY <1>6, Zenon DEF start_of_year_ms, end_of_year_ms, weekday_of_ts_ms, year_of_ms, days_since_epoch_ms, sec_of_day_ms,
                     to_date_time_ms
<1>14. weekday_of_ts(now) = weekday
  BY <1>1, MomentTold DEF MomentIsTold
<1>15. year_of(now) = dt.year /\ (now >= 0 => days_since_epoch(now) = day /\ sec_of_day(now) = second)
  BY CalendarIsRight DEF CalendarAgrees
<1>16. to_date_time(now) = dt
  <2>1. to_date_time(DayOf(date) * SEC_PER_DAY + second) = OnDay(date, second)
    BY <1>1, <1>2, DateIsTold
  <2>2. now = DayOf(date) * SEC_PER_DAY + second
    BY <1>1 DEF moment, today, DayOf
  <2> QED
    BY <1>1, <2>1, <2>2
<1>17. to_timestamp(dt.year, dt.mon, dt.day, dt.hour, dt.min, dt.sec) = now
  BY <1>1, AllWaysLead DEF WaysToTheMoment
<1>18. /\ WithMilliseconds(now, part) = ms
       /\ WithMilliseconds(now, part - M) = ms - M
  <2> DEFINE q == INT64_MAX \div MS_PER_SEC
             L == SEC_PER_LEAP_YEAR
  <2>1. q \in Int
    BY LeastSecond
  <2>2. L \in Int /\ L >= 366
    BY <1>3 DEF SEC_PER_LEAP_YEAR, DAYS_PER_LEAP_YEAR
  <2>3. now - L >= -q /\ now + L <= q
    BY DEF MsRange
  <2> HIDE DEF q, L, ms
  <2>4. -q <= now + 0 /\ now + 0 < q /\ -q <= now + -1 /\ now + -1 < q /\ 0 \in Int /\ -1 \in Int
    BY <1>2, <2>1, <2>2, <2>3
  <2>5. WithMilliseconds(now, 0 * MS_PER_SEC + part) = (now + 0) * MS_PER_SEC + part
    BY <1>2, <1>4, <2>4, MillisecondsFit DEF q
  <2>6. WithMilliseconds(now, (-1) * MS_PER_SEC + part) = (now + -1) * MS_PER_SEC + part
    BY <1>2, <1>4, <2>4, MillisecondsFit DEF q
  <2> HIDE DEF M
  <2>7. /\ 0 * M + part = part /\ (now + 0) * M + part = ms
        /\ (-1) * M + part = part - M /\ (now + -1) * M + part = ms - M
    BY <1>2, <1>3, <1>4, <1>5
  <2> QED
    BY <2>5, <2>6, <2>7, Zenon DEF M
<1>19. dt_to_timestamp_ms(to_date_time_ms(ms)) = ms
  <2> DEFINE t == [dt EXCEPT !.ms = part]
  <2>1. /\ t.year = dt.year /\ t.mon = dt.mon /\ t.day = dt.day
        /\ t.hour = dt.hour /\ t.min = dt.min /\ t.sec = dt.sec /\ t.ms = part
    <3>1. dt = [year |-> dt.year, mon |-> dt.mon, day |-> dt.day,
                hour |-> dt.hour, min |-> dt.min, sec |-> dt.sec, ms |-> dt.ms]
      BY <1>1 DEF OnDay, DateTime
    <3> QED
      BY <3>1
  <2>2. to_date_time_ms(ms) = t
    BY <1>13, <1>16
  <2> HIDE DEF t, ms
  <2> QED
    BY <1>17, <1>18, <2>1, <2>2, Zenon DEF dt_to_timestamp_ms, dt_to_timestamp
<1>20. to_timestamp_ms(dt.year, dt.mon, dt.day, dt.hour, dt.min, dt.sec, part - M) = ms - M
  BY <1>17, <1>18, Zenon DEF to_timestamp_ms
<1> HIDE DEF ms
<1> QED
  BY <1>1, <1>6, <1>8, <1>9, <1>10, <1>11, <1>12, <1>13, <1>14, <1>15, <1>16, <1>19, <1>20, Zenon DEF ms

\* The periods around every moment of the walk are those of the wall calendar.
LEMMA PeriodsAreRight == WalkInv => PeriodsNest
  BY UnitsSurround, DaysAround, YearsAround, MillisecondsAround DEF PeriodsNest

\* On every walk, at every moment of it, the minute, the hour, the day, the week, the
\* month and the year are those of the wall calendar, in seconds and milliseconds.
THEOREM PeriodsAreNested == WalkSpec => []PeriodsNest
  BY LibraryTellsTheCalendar, PeriodsAreRight, PTL
-----------------------------------------------------------------------------
(* The workdays of the month                                               *)

\* Midnight of a date of the library's years.
LEMMA MidnightsLead ==
    ASSUME NEW y \in Int, y \in MIN_YEAR .. MAX_YEAR, NEW m \in 1..12, NEW d \in 1 .. MonthLength(y, m)
    PROVE  /\ to_timestamp(y, m, d, 0, 0, 0) = DayNumber(y, m, d) * SEC_PER_DAY
           /\ is_valid_date(y, m, d) /\ DayNumber(y, m, d) \in Int
<1>1. SEC_PER_MIN \in Nat \ {0} /\ SEC_PER_HOUR \in Nat \ {0} /\ SEC_PER_DAY \in Nat \ {0}
  BY Units
<1>2. MonthLength(y, m) \in 28..31 /\ d \in Int /\ d <= MonthLength(y, m) /\ d >= 1 /\ d <= 31
  BY DEF MonthLength
<1>3. is_valid_date(y, m, d)
  <2>1. MIN_YEAR <= y /\ y <= MAX_YEAR
    BY YearsAssumption
  <2> QED
    BY <1>2, <2>1, LeapYears DEF is_valid_date, FEB, MonthLength
<1>4. is_valid_time(0, 0, 0, 0)
  BY UnitsAssumption DEF is_valid_time
<1>5. ~IsReordered(y, d)
  BY <1>2 DEF IsReordered, UNIX_EPOCH
<1>6. to_timestamp(y, m, d, 0, 0, 0) = to_timestamp_unchecked(y, m, d, 0, 0, 0)
  BY <1>3, <1>4, <1>5, Zenon DEF to_timestamp, is_valid_date_time
<1> DEFINE n == DayNumber(y, m, d)
<1>7. n \in Int /\ date_to_unix_day(y, m, d) = n
  BY <1>2, DaysAreCounted, DayNumberType
<1>8. to_timestamp_unchecked(y, m, d, 0, 0, 0) = n * SEC_PER_DAY + SEC_PER_HOUR * 0 + SEC_PER_MIN * 0 + 0
  BY <1>5, <1>7 DEF to_timestamp_unchecked
<1> HIDE DEF n
<1>9. n * SEC_PER_DAY + SEC_PER_HOUR * 0 + SEC_PER_MIN * 0 + 0 = n * SEC_PER_DAY
  BY <1>1, <1>7
<1> QED
  BY <1>3, <1>6, <1>7, <1>8, <1>9 DEF n

\* A day off is a Saturday or a Sunday, before 1970 too.
LEMMA DaysOff == \A n \in Int : is_day_off_unix_day(n) <=> WeekdayOf(n) \notin 1..5
<1> TAKE n \in Int
<1>1. is_day_off_unix_day(n) <=> WeekdayOf(n) \in {0, 6}
  BY DEF is_day_off_unix_day, TruncMod, TruncDiv, THU, DAYS_PER_WEEK, SUN, SAT, WeekdayOf
<1>2. WeekdayOf(n) \in 0..6
  BY DEF WeekdayOf
<1> QED
  BY <1>1, <1>2

\* Some days in 1 .. length, those up to one of them, and those from it on.
LEMMA DaysInOrder ==
    ASSUME NEW length \in Nat, NEW W \in SUBSET (1 .. length), NEW d \in 1 .. length
    PROVE  LET before == Cardinality({n \in W : n <= d})
               after  == Cardinality({n \in W : d <= n})
               total  == Cardinality(W)
           IN  /\ before \in Nat /\ after \in Nat /\ total \in Nat
               /\ IsFiniteSet(W)
               /\ d \in W => /\ before >= 1 /\ after >= 1 /\ total = (before + after) - 1
                             /\ before = 1 <=> (\A n \in W : d <= n)
                             /\ after = 1 <=> (\A n \in W : n <= d)
<1> DEFINE A == {n \in W : n <= d}
           B == {n \in W : d <= n}
<1>1. 1 \in Int /\ length \in Int /\ W \subseteq Int /\ d \in Int
  OBVIOUS
<1>2. IsFiniteSet(W)
  <2>1. IsFiniteSet(1 .. length)
    BY <1>1, FS_Interval, Zenon
  <2> QED
    BY <2>1, FS_Subset, Zenon
<1>3. A \in SUBSET W /\ B \in SUBSET W
  OBVIOUS
<1>4. IsFiniteSet(A) /\ IsFiniteSet(B)
  BY <1>2, <1>3, FS_Subset, Zenon
<1>5. A \cup B = W
  <2>1. \A n \in W : n \in A \/ n \in B
    <3> TAKE n \in W
    <3>1. n \in Int /\ d \in Int
      BY <1>1, Zenon
    <3>2. n <= d \/ d <= n
      BY <3>1
    <3> QED
      BY <3>2, Zenon
  <2> QED
    BY <1>3, <2>1, Zenon
<1>6. Cardinality(A) \in Nat /\ Cardinality(B) \in Nat /\ Cardinality(W) \in Nat
  BY <1>2, <1>4, FS_CardinalityType, Zenon
<1>7. ASSUME d \in W
      PROVE  /\ Cardinality(A) >= 1 /\ Cardinality(B) >= 1
             /\ Cardinality(W) = (Cardinality(A) + Cardinality(B)) - 1
             /\ Cardinality(A) = 1 <=> (\A n \in W : d <= n)
             /\ Cardinality(B) = 1 <=> (\A n \in W : n <= d)
  <2>0. \A n \in W : n <= d /\ d <= n => n = d
    BY <1>1
  <2>1. A \cap B = {d}
    <3>1. d \in A /\ d \in B
      BY <1>1, <1>7
    <3> QED
      BY <2>0, <3>1, Zenon
  <2>2. Cardinality({d}) = 1
    BY FS_Singleton, Zenon
  <2>4. d \in A /\ d \in B
    BY <1>1, <1>7
  <2> HIDE DEF A, B
  <2>3. Cardinality(W) = (Cardinality(A) + Cardinality(B)) - 1
    <3>1. Cardinality(A \cup B) = (Cardinality(A) + Cardinality(B)) - Cardinality(A \cap B)
      <4>1. Cardinality(A \cup B) = Cardinality(A) + Cardinality(B) - Cardinality(A \cap B)
        BY <1>4, FS_Union, Zenon
      <4>2. Cardinality(A \cap B) = 1
        BY <2>1, <2>2, Zenon
      <4> QED
        BY <1>6, <4>1, <4>2
    <3> QED
      BY <1>5, <2>1, <2>2, <3>1, Zenon
  <2>5. Cardinality(A) # 0 /\ Cardinality(B) # 0
    BY <1>4, <2>4, FS_EmptySet, Zenon
  <2>6. Cardinality(A) = 1 <=> A = {d}
    <3>1. Cardinality(A) = 1 <=> \E x : A = {x}
      BY <1>4, FS_Singleton, Zenon
    <3> QED
      BY <2>4, <3>1, Zenon
  <2>7. Cardinality(B) = 1 <=> B = {d}
    <3>1. Cardinality(B) = 1 <=> \E x : B = {x}
      BY <1>4, FS_Singleton, Zenon
    <3> QED
      BY <2>4, <3>1, Zenon
  <2>8. A = {d} <=> (\A n \in W : d <= n)
    <3>1. A = {d} <=> \A n \in W : n <= d => n = d
      BY <2>4, Zenon DEF A
    <3>2. \A n \in W : (n <= d => n = d) <=> d <= n
      BY <1>1
    <3> QED
      BY <3>1, <3>2, Zenon
  <2>9. B = {d} <=> (\A n \in W : n <= d)
    <3>1. B = {d} <=> \A n \in W : d <= n => n = d
      BY <2>4, Zenon DEF B
    <3>2. \A n \in W : (d <= n => n = d) <=> n <= d
      BY <1>1
    <3> QED
      BY <3>1, <3>2, Zenon
  <2>10. Cardinality(A) >= 1 /\ Cardinality(B) >= 1
    BY <1>6, <2>5
  <2> QED
    BY <1>6, <2>3, <2>6, <2>7, <2>8, <2>9, <2>10
<1> QED
  BY <1>2, <1>6, <1>7

\* The workdays of the month that WorkdaysOf() finds are those of the wall calendar.
LEMMA WorkdaysAreFound ==
    ASSUME WalkInv
    PROVE  LET y == date.year  m == date.month  length == MonthLength(y, m)
           IN  /\ length \in 28..31 /\ DayNumber(y, m, 1) \in Int
               /\ date.day \in 1 .. length /\ date.day \in Int
               /\ \A n \in 1 .. length : is_workday_date(y, m, n) = Works(n) /\ Works(n) \in BOOLEAN
               /\ \A n \in 1 .. length : Works(n) = (WeekdayOf(DayNumber(y, m, 1) + n - 1) \in 1..5)
               /\ Works(date.day) = (WeekdayOf(today) \in 1..5)
               /\ WorkdaysOf(y, m) = WorkdaysFrom(1, length)
<1> DEFINE y == date.year
           m == date.month
           length == MonthLength(y, m)
           first == DayNumber(y, m, 1)
<1>1. /\ CivilInv /\ dt.year = y /\ dt.mon = m /\ y \in Int /\ m \in 1..12 /\ y \in MIN_YEAR .. MAX_YEAR
      /\ date.day \in 1..31
  BY AskedOnTheWall
<1>2. length \in 28..31 /\ first \in Int /\ date.day \in 1 .. length /\ date.day \in Int
  <2>1. length \in 28..31
    BY <1>1 DEF MonthLength
  <2>2. first \in Int
    <3>1. 1 \in Int
      OBVIOUS
    <3> QED
      BY <1>1, <3>1, DayNumberType, Zenon
  <2>3. date.day <= length
    BY <1>1 DEF CivilInv
  <2> QED
    BY <1>1, <2>1, <2>2, <2>3
<1>3. \A n : Works(n) = (WeekdayOf(first + n - 1) \in 1..5) /\ Works(n) \in BOOLEAN
  BY <1>1 DEF Works
<1>4. ASSUME NEW n \in 1 .. length
      PROVE  is_workday_date(y, m, n) = Works(n)
  <2>1. is_valid_date(y, m, n) /\ DayNumber(y, m, n) \in Int
    BY <1>1, MidnightsLead
  <2>2. n \in Int
    OBVIOUS
  <2>3. legacy_date_to_unix_day(y, m, n) = DayNumber(y, m, n)
    BY <1>1, <2>2, LegacyDaysAgree, DaysAreCounted
  <2>4. DayNumber(y, m, n) = first + n - 1
    BY <1>1, <2>2, FirstDays
  <2>5. is_workday_date(y, m, n) = (WeekdayOf(DayNumber(y, m, n)) \in 1..5)
    <3>1. is_day_off_unix_day(DayNumber(y, m, n)) <=> WeekdayOf(DayNumber(y, m, n)) \notin 1..5
      BY <2>1, DaysOff
    <3>2. is_workday_date(y, m, n) <=> ~is_day_off_unix_day(DayNumber(y, m, n))
      BY <2>1, <2>3, Zenon DEF is_workday_date
    <3>3. is_workday_date(y, m, n) \in BOOLEAN
      BY Zenon DEF is_workday_date
    <3>4. is_workday_date(y, m, n) <=> WeekdayOf(DayNumber(y, m, n)) \in 1..5
      BY <3>1, <3>2, Zenon
    <3> QED
      BY <3>3, <3>4
  <2> QED
    BY <1>3, <2>4, <2>5
<1>5. WorkdaysOf(y, m) = WorkdaysFrom(1, length)
  <2>1. num_days_in_month(y, m) = length
    BY <1>1, MonthsAreRight
  <2> HIDE DEF y, m, length
  <2> QED
    BY <1>4, <2>1, Zenon DEF WorkdaysOf, WorkdaysFrom
<1>6. Works(date.day) = (WeekdayOf(today) \in 1..5)
  <2>1. today = first + date.day - 1
    BY <1>1, <1>2, FirstDays DEF today
  <2> QED
    BY <1>3, <2>1
<1> QED
  BY <1>2, <1>3, <1>4, <1>5, <1>6

\* A month has workdays among its first three days and among its last three,
\* and no fewer than three of them.
LEMMA MonthsHaveWorkdays ==
    ASSUME WalkInv
    PROVE  LET length == MonthLength(date.year, date.month)
               W      == WorkdaysFrom(1, length)
           IN  /\ Min(W) \in W /\ \A n \in W : Min(W) <= n
               /\ Max(W) \in W /\ \A n \in W : n <= Max(W)
               /\ W \in SUBSET (1 .. length) /\ W # {}
               /\ IsFiniteSet(W) /\ Cardinality(W) \in Nat /\ Cardinality(W) >= 3
<1> DEFINE length == MonthLength(date.year, date.month)
           first  == DayNumber(date.year, date.month, 1)
           W      == WorkdaysFrom(1, length)
           In(n)  == (first + n - 1 + 4) % 7 \in 1..5
<1>1. length \in 28..31 /\ first \in Int
  BY WorkdaysAreFound
<1>2. \A n : n \in W <=> n \in 1 .. length /\ In(n)
  <2>1. \A n \in 1 .. length : Works(n) = (WeekdayOf(first + n - 1) \in 1..5)
    BY WorkdaysAreFound
  <2> HIDE DEF length, first
  <2> QED
    BY <1>1, <2>1 DEF WorkdaysFrom, WeekdayOf
<1> HIDE DEF W, length, first
<1>3. \E a \in W : \A n \in W : a <= n
  <2>1. In(1) \/ In(2) \/ In(3)
    BY <1>1
  <2> HIDE DEF In
  <2> QED
    BY <1>1, <1>2, <2>1
<1>4. \E z \in W : \A n \in W : z >= n
  <2>1. In(length) \/ In(length - 1) \/ In(length - 2)
    BY <1>1
  <2> HIDE DEF In
  <2> QED
    BY <1>1, <1>2, <2>1
<1>5. Min(W) \in W /\ \A n \in W : Min(W) <= n
  BY <1>3 DEF Min
<1>6. Max(W) \in W /\ \A n \in W : n <= Max(W)
  <2>1. Max(W) \in W /\ \A n \in W : Max(W) >= n
    BY <1>4 DEF Max
  <2>2. W \subseteq Int
    BY <1>2
  <2> QED
    BY <2>1, <2>2
<1>7. W \in SUBSET (1 .. length) /\ W # {}
  BY <1>2, <1>3
<1>8. IsFiniteSet(W) /\ Cardinality(W) \in Nat
  <2>1. IsFiniteSet(1 .. length)
    BY <1>1, FS_Interval
  <2> QED
    BY <1>7, <2>1, FS_Subset, FS_CardinalityType
<1>9. \E k \in 1..7 : k \in W /\ k + 1 \in W /\ k + 2 \in W
  <2>1. \E k \in 1..7 : In(k) /\ In(k + 1) /\ In(k + 2)
    BY <1>1
  <2> HIDE DEF In
  <2> QED
    BY <1>1, <1>2, <2>1
<1>10. Cardinality(W) >= 3
  <2>1. PICK k \in 1..7 : k \in W /\ k + 1 \in W /\ k + 2 \in W
    BY <1>9
  <2>2. k .. k + 2 \in SUBSET W
    BY <2>1
  <2>3. Cardinality(k .. k + 2) = 3
    BY FS_Interval
  <2>4. Cardinality(k .. k + 2) <= Cardinality(W)
    BY <1>8, <2>2, FS_Subset
  <2> QED
    BY <1>8, <2>3, <2>4
<1> QED
  BY <1>5, <1>6, <1>7, <1>8, <1>10 DEF W, length

\* What the functions of a date say of the day shown, with the workdays of its
\* month up to it, from it on, and all.
LEMMA CountsAreRight ==
    ASSUME WalkInv
    PROVE  LET y      == date.year
               m      == date.month
               d      == date.day
               length == MonthLength(y, m)
               before == Cardinality(WorkdaysFrom(1, d))
               after  == Cardinality(WorkdaysFrom(d, length))
               total  == Cardinality(WorkdaysFrom(1, length))
           IN  /\ before \in Nat /\ after \in Nat /\ total \in Nat /\ total >= 3
               /\ Works(d) => before >= 1 /\ after >= 1 /\ before <= total /\ after <= total
               /\ is_workday_date(y, m, d) = Works(d) /\ Works(d) \in BOOLEAN
               /\ count_workdays_in_month(y, m) = total
               /\ workday_index_in_month(y, m, d) = IF Works(d) THEN before ELSE 0
               /\ is_first_workday_of_month(y, m, d) <=> Works(d) /\ before = 1
               /\ is_last_workday_of_month(y, m, d) <=> Works(d) /\ after = 1
               /\ \A n \in Int :
                    /\ is_within_first_workdays_of_month(y, m, d, n) <=> Works(d) /\ before <= n /\ n <= total
                    /\ is_within_last_workdays_of_month(y, m, d, n) <=> Works(d) /\ after <= n /\ n <= total
<1> DEFINE y      == date.year
           m      == date.month
           d      == date.day
           length == MonthLength(y, m)
           W      == WorkdaysFrom(1, length)
           A      == WorkdaysFrom(1, d)
           B      == WorkdaysFrom(d, length)
           before == Cardinality(A)
           after  == Cardinality(B)
           total  == Cardinality(W)
<1>1. /\ length \in 28..31 /\ d \in 1 .. length /\ d \in Int
      /\ is_workday_date(y, m, d) = Works(d) /\ Works(d) \in BOOLEAN
      /\ WorkdaysOf(y, m) = W
  BY WorkdaysAreFound
<1>2. /\ Min(W) \in W /\ \A n \in W : Min(W) <= n
      /\ Max(W) \in W /\ \A n \in W : n <= Max(W)
      /\ W \in SUBSET (1 .. length) /\ W # {} /\ total >= 3
  BY MonthsHaveWorkdays
<1> HIDE DEF y, m, length
<1>3. d \in W <=> Works(d)
  BY <1>1, Zenon DEF WorkdaysFrom
<1>4. A = {n \in W : n <= d} /\ B = {n \in W : d <= n}
  <2>1. \A n : n \in 1 .. d <=> n \in 1 .. length /\ n <= d
    BY <1>1
  <2>2. \A n : n \in d .. length <=> n \in 1 .. length /\ d <= n
    BY <1>1
  <2> HIDE DEF d
  <2> QED
    BY <2>1, <2>2, Zenon DEF WorkdaysFrom
<1> HIDE DEF W, A, B, d
<1>5. /\ before \in Nat /\ after \in Nat /\ total \in Nat
      /\ Works(d) => /\ before >= 1 /\ after >= 1 /\ total = (before + after) - 1
                     /\ before = 1 <=> (\A n \in W : d <= n)
                     /\ after = 1 <=> (\A n \in W : n <= d)
  <2>1. length \in Nat
    BY <1>1
  <2>2. W \in SUBSET (1 .. length) /\ d \in 1 .. length
    BY <1>1, <1>2
  <2> DEFINE upTo == Cardinality({n \in W : n <= d})
             from == Cardinality({n \in W : d <= n})
  <2>3. /\ upTo \in Nat /\ from \in Nat /\ total \in Nat
        /\ d \in W => /\ upTo >= 1 /\ from >= 1 /\ total = (upTo + from) - 1
                      /\ upTo = 1 <=> (\A n \in W : d <= n)
                      /\ from = 1 <=> (\A n \in W : n <= d)
    BY <2>1, <2>2, DaysInOrder, Zenon
  <2>4. before = upTo /\ after = from
    BY <1>4
  <2> HIDE DEF upTo, from, before, after, total
  <2> QED
    BY <1>3, <2>3, <2>4, Zenon
<1>6. count_workdays_in_month(y, m) = total
  BY <1>1, Zenon DEF count_workdays_in_month
<1>7. workday_index_in_month(y, m, d) = IF Works(d) THEN before ELSE 0
  BY <1>1, <1>3, <1>4, Zenon DEF workday_index_in_month
<1>8. is_first_workday_of_month(y, m, d) <=> Works(d) /\ before = 1
  <2>1. first_workday_day(y, m) = Min(W)
    BY <1>1, <1>2, Zenon DEF first_workday_day
  <2>2. Works(d) => (Min(W) = d <=> \A n \in W : d <= n)
    <3>1. \A n \in W : n \in Int
      BY <1>1, <1>2
    <3>2. Works(d) => Min(W) <= d /\ Min(W) \in Int
      BY <1>2, <1>3, <3>1, Zenon
    <3>3. ASSUME Works(d), \A n \in W : d <= n PROVE Min(W) = d
      <4>1. d <= Min(W) /\ Min(W) <= d /\ Min(W) \in Int
        BY <1>2, <3>2, <3>3, Zenon
      <4> QED
        BY <1>1, <4>1
    <3> QED
      BY <1>2, <3>3, Zenon
  <2> QED
    BY <1>1, <1>5, <2>1, <2>2, Zenon DEF is_first_workday_of_month
<1>9. is_last_workday_of_month(y, m, d) <=> Works(d) /\ after = 1
  <2>1. last_workday_day(y, m) = Max(W)
    BY <1>1, <1>2, Zenon DEF last_workday_day
  <2>2. Works(d) => (Max(W) = d <=> \A n \in W : n <= d)
    <3>1. \A n \in W : n \in Int
      BY <1>1, <1>2
    <3>2. Works(d) => d <= Max(W) /\ Max(W) \in Int
      BY <1>2, <1>3, <3>1, Zenon
    <3>3. ASSUME Works(d), \A n \in W : n <= d PROVE Max(W) = d
      <4>1. d <= Max(W) /\ Max(W) <= d /\ Max(W) \in Int
        BY <1>2, <3>2, <3>3, Zenon
      <4> QED
        BY <1>1, <4>1
    <3> QED
      BY <1>2, <3>3, Zenon
  <2> QED
    BY <1>1, <1>5, <2>1, <2>2, Zenon DEF is_last_workday_of_month
<1>10. ASSUME NEW n \in Int
       PROVE  /\ is_within_first_workdays_of_month(y, m, d, n) <=> Works(d) /\ before <= n /\ n <= total
              /\ is_within_last_workdays_of_month(y, m, d, n) <=> Works(d) /\ after <= n /\ n <= total
  <2> DEFINE index == workday_index_in_month(y, m, d)
             count == count_workdays_in_month(y, m)
  <2>1. is_within_first_workdays_of_month(y, m, d, n) <=> n \in 1 .. count /\ index \in 1 .. n
    BY Zenon DEF is_within_first_workdays_of_month
  <2>2. is_within_last_workdays_of_month(y, m, d, n) <=> n \in 1 .. count /\ index > 0 /\ index >= count - n + 1
    BY Zenon DEF is_within_last_workdays_of_month
  <2>3. count = total /\ index = IF Works(d) THEN before ELSE 0
    BY <1>6, <1>7
  <2> HIDE DEF index, count, before, after, total
  <2>4. CASE Works(d)
    BY <1>5, <2>1, <2>2, <2>3, <2>4
  <2>5. CASE ~Works(d)
    BY <1>5, <2>1, <2>2, <2>3, <2>5
  <2> QED
    BY <2>4, <2>5
<1>11. Works(d) => before <= total /\ after <= total
  <2> HIDE DEF before, after, total
  <2> QED
    BY <1>5
<1> QED
  BY <1>1, <1>2, <1>5, <1>6, <1>7, <1>8, <1>9, <1>10, <1>11, Zenon DEF y, m, d, length, W, A, B

LEMMA DatesAreCounted ==
    ASSUME WalkInv
    PROVE  DatesCounted(Cardinality(WorkdaysFrom(1, dt.day)),
                        Cardinality(WorkdaysFrom(dt.day, MonthLength(dt.year, dt.mon))),
                        Cardinality(WorkdaysFrom(1, MonthLength(dt.year, dt.mon))))
<1>1. dt.year = date.year /\ dt.mon = date.month /\ dt.day = date.day
  BY AskedOnTheWall
<1> DEFINE y      == date.year
           m      == date.month
           d      == date.day
           before == Cardinality(WorkdaysFrom(1, d))
           after  == Cardinality(WorkdaysFrom(d, MonthLength(y, m)))
           total  == Cardinality(WorkdaysFrom(1, MonthLength(y, m)))
<1>2. \A n \in {1, 3, total, total + 1} : n \in Int
  BY CountsAreRight
<1>3. /\ is_workday_date(y, m, d) = Works(d)
      /\ count_workdays_in_month(y, m) = total
      /\ workday_index_in_month(y, m, d) = IF Works(d) THEN before ELSE 0
      /\ is_first_workday_of_month(y, m, d) <=> Works(d) /\ before = 1
      /\ is_last_workday_of_month(y, m, d) <=> Works(d) /\ after = 1
      /\ \A n \in Int :
           /\ is_within_first_workdays_of_month(y, m, d, n) <=> Works(d) /\ before <= n /\ n <= total
           /\ is_within_last_workdays_of_month(y, m, d, n) <=> Works(d) /\ after <= n /\ n <= total
  BY CountsAreRight
<1>4. DatesCounted(before, after, total)
  <2> HIDE DEF y, m, d, before, after, total
  <2>1. dt.year = y /\ dt.mon = m /\ dt.day = d
    BY <1>1 DEF y, m, d
  <2> HIDE DEF dt
  <2> QED
    BY <1>2, <1>3, <2>1, Zenon DEF DatesCounted
<1> QED
  BY <1>1, <1>4

\* What the functions of a timestamp say of the first second of a day.
LEMMA MomentsAreCounted ==
    ASSUME WalkInv, second = 0
    PROVE  MomentsCounted(Cardinality(WorkdaysFrom(1, dt.day)),
                          Cardinality(WorkdaysFrom(dt.day, MonthLength(dt.year, dt.mon))))
<1> DEFINE y      == date.year
           m      == date.month
           d      == date.day
           before == Cardinality(WorkdaysFrom(1, d))
           after  == Cardinality(WorkdaysFrom(d, MonthLength(y, m)))
           total  == Cardinality(WorkdaysFrom(1, MonthLength(y, m)))
           S      == SEC_PER_DAY
           ms     == sec_to_ms(now)
<1>1. /\ dt.year = y /\ dt.mon = m /\ dt.day = d /\ CivilInv /\ now = moment /\ day = today
  BY AskedOnTheWall
<1>2. /\ S \in Nat \ {0} /\ now \in Int /\ today \in Int /\ now = today * S
      /\ floor_mod(now, S) = 0
  <2>1. now \in Int /\ today \in Int /\ now = today * S + second /\ floor_mod(now, S) = second
    BY <1>1, MomentInDays DEF CivilInv
  <2>2. S \in Nat \ {0}
    BY Units
  <2> HIDE DEF S
  <2> QED
    BY <2>1, <2>2
<1>3. /\ is_workday_date(y, m, d) = Works(d) /\ Works(d) \in BOOLEAN
      /\ before \in Nat /\ after \in Nat /\ total \in Nat /\ total >= 3
      /\ Works(d) => before <= total /\ after <= total
      /\ is_first_workday_of_month(y, m, d) <=> Works(d) /\ before = 1
      /\ is_last_workday_of_month(y, m, d) <=> Works(d) /\ after = 1
      /\ \A n \in Int :
           /\ is_within_first_workdays_of_month(y, m, d, n) <=> Works(d) /\ before <= n /\ n <= total
           /\ is_within_last_workdays_of_month(y, m, d, n) <=> Works(d) /\ after <= n /\ n <= total
  BY CountsAreRight
<1>4. ~is_day_off_unix_day(today) <=> Works(d)
  <2>1. Works(d) = (WeekdayOf(today) \in 1..5)
    BY WorkdaysAreFound
  <2>2. is_day_off_unix_day(today) <=> WeekdayOf(today) \notin 1..5
    BY <1>2, DaysOff
  <2> QED
    BY <2>1, <2>2
<1>5. is_workday(now) = Works(d)
  <2>1. TruncDiv(now, S) = today
    <3>1. 0 \in 0 .. S - 1 /\ today * S + 0 = now
      BY <1>2
    <3>2. TruncDiv(today * S + 0, S) = today
      <4> HIDE DEF S
      <4>1. /\ today * S + 0 >= 0 => TruncDiv(today * S + 0, S) = today
            /\ today * S + 0 < 0 => TruncDiv(today * S + 0, S) = today
        BY <1>2, <3>1, TruncQuotients
      <4> QED
        BY <1>2, <3>1, <4>1
    <3> QED
      BY <3>1, <3>2
  <2>2. is_workday(now) <=> ~is_day_off_unix_day(today)
    BY <2>1, Zenon DEF is_workday, is_day_off
  <2>3. is_workday(now) \in BOOLEAN
    BY Zenon DEF is_workday
  <2> QED
    BY <1>3, <1>4, <2>2, <2>3
<1>6. now >= 0 => is_workday(end_of_day(now)) = Works(d)
  <2> SUFFICES ASSUME now >= 0 PROVE is_workday(end_of_day(now)) = Works(d)
    OBVIOUS
  <2> HIDE DEF S
  <2>1. end_of_day(now) = now - 0 + S - 1
    BY <1>2 DEF end_of_day, S
  <2>2. end_of_day(now) = today * S + (S - 1) /\ S - 1 \in 0 .. S - 1 /\ today * S + (S - 1) >= 0
    BY <1>2, <2>1
  <2>3. TruncDiv(end_of_day(now), S) = today
    <3> DEFINE r == S - 1
    <3>1. r \in 0 .. S - 1 /\ today * S + r >= 0 /\ S \in Nat \ {0} /\ today \in Int
      BY <1>2, <2>2
    <3> HIDE DEF r
    <3>2. TruncDiv(today * S + r, S) = today
      BY <3>1, TruncQuotients
    <3> QED
      BY <2>2, <3>2 DEF r
  <2>4. is_workday(end_of_day(now)) <=> ~is_day_off_unix_day(today)
    BY <2>3, Zenon DEF is_workday, is_day_off, S
  <2>5. is_workday(end_of_day(now)) \in BOOLEAN
    BY Zenon DEF is_workday
  <2> QED
    BY <1>3, <1>4, <2>4, <2>5
<1>7. ASSUME ~EndOfFarLeap
      PROVE  /\ is_first_workday_of_month_ts(now) <=> Works(d) /\ before = 1
             /\ is_last_workday_of_month_ts(now) <=> Works(d) /\ after = 1
             /\ is_within_first_workdays_of_month_ts(now, 3) <=> Works(d) /\ before <= 3
             /\ is_within_last_workdays_of_month_ts(now, 3) <=> Works(d) /\ after <= 3
  <2>1. YearIsRight
    BY <1>7 DEF YearIsRight, NewYearOfLeap
  <2>2. year_of(now) = y /\ month_of_year(now) = m /\ day_of_month(now) = d
    BY <1>1, <2>1, CalendarIsRight DEF CalendarAgrees
  <2>3. 3 \in Int
    OBVIOUS
  <2> HIDE DEF before, after, total, y, m, d
  <2>4. /\ is_within_first_workdays_of_month(y, m, d, 3) <=> Works(d) /\ before <= 3
        /\ is_within_last_workdays_of_month(y, m, d, 3) <=> Works(d) /\ after <= 3
    BY <1>3, <2>3
  <2> QED
    BY <1>3, <2>2, <2>4, ZenonT(60)
       DEF is_first_workday_of_month_ts, is_last_workday_of_month_ts,
           is_within_first_workdays_of_month_ts, is_within_last_workdays_of_month_ts
<1>8. ms_to_sec(ms) = now /\ is_workday_ms(ms) = Works(d)
  <2>1. MS_PER_SEC \in Nat \ {0} /\ 0 \in 0 .. MS_PER_SEC - 1 /\ 1 \in Nat \ {0}
    BY UnitsAssumption
  <2>2. ms = now * MS_PER_SEC + 0
    BY <1>2, <2>1 DEF sec_to_ms
  <2> HIDE DEF ms
  <2>3. ms_to_sec(ms) = now
    BY <1>2, <2>1, <2>2, MillisecondsAreDivided, ZenonT(60) DEF ms_to_sec
  <2>4. TruncDiv(ms, MS_PER_SEC) = now
    <3>1. /\ now * MS_PER_SEC + 0 >= 0 => TruncDiv(now * MS_PER_SEC + 0, MS_PER_SEC) = now
          /\ now * MS_PER_SEC + 0 < 0 => TruncDiv(now * MS_PER_SEC + 0, MS_PER_SEC) = now
      BY <1>2, <2>1, TruncQuotients
    <3> QED
      BY <1>2, <2>1, <2>2, <3>1
  <2> QED
    BY <1>5, <2>3, <2>4, Zenon DEF is_workday_ms
<1> HIDE DEF ms, before, after, total, y, m, d
<1>9. ASSUME ~EndOfFarLeap
      PROVE  /\ is_first_workday_of_month_ms(ms) <=> Works(d) /\ before = 1
             /\ is_last_workday_of_month_ms(ms) <=> Works(d) /\ after = 1
             /\ is_within_first_workdays_of_month_ms(ms, 3) <=> Works(d) /\ before <= 3
             /\ is_within_last_workdays_of_month_ms(ms, 3) <=> Works(d) /\ after <= 3
  BY <1>7, <1>8, <1>9, Zenon
     DEF is_first_workday_of_month_ms, is_last_workday_of_month_ms,
         is_within_first_workdays_of_month_ms, is_within_last_workdays_of_month_ms
<1>10. MomentsCounted(before, after)
  <2>1. dt.day = d
    BY <1>1
  <2> HIDE DEF dt
  <2> QED
    BY <1>5, <1>6, <1>7, <1>9, <2>1, Zenon DEF MomentsCounted, ms
<1> QED
  BY <1>1, <1>10 DEF before, after, y, m, d

\* The bounds of a day of the month, in seconds and in milliseconds.
LEMMA DaysOfTheMonth ==
    ASSUME WalkInv, NEW n \in 1 .. MonthLength(date.year, date.month)
    PROVE  LET start == StartOfDayIn(date.year, date.month, n)
           IN  /\ start = (DayNumber(date.year, date.month, 1) + n - 1) * SEC_PER_DAY
               /\ EndOfDayIn(date.year, date.month, n) = end_of_day(start)
               /\ MsRange => /\ InMs(start) = sec_to_ms(start)
                             /\ LastMsOf(start) = sec_to_ms(end_of_day(start)) + MS_PER_SEC - 1
<1> DEFINE y     == date.year
           m     == date.month
           d     == date.day
           S     == SEC_PER_DAY
           M     == MS_PER_SEC
           first == DayNumber(y, m, 1)
           start == StartOfDayIn(y, m, n)
<1>1. /\ y \in Int /\ m \in 1..12 /\ y \in MIN_YEAR .. MAX_YEAR /\ CivilInv /\ now = moment
  BY AskedOnTheWall
<1>2. /\ MonthLength(y, m) \in 28..31 /\ first \in Int /\ d \in 1 .. MonthLength(y, m) /\ d \in Int
  BY WorkdaysAreFound
<1>3. n \in Int /\ n >= 1 /\ n <= 31 /\ d >= 1 /\ d <= 31
  BY <1>2
<1>4. S \in Nat \ {0} /\ M \in Nat \ {0} /\ second \in 0 .. S - 1 /\ now = today * S + second
      /\ today = first + d - 1 /\ DayNumber(y, m, n) = first + n - 1
  <2>1. S \in Nat \ {0} /\ M \in Nat \ {0}
    BY Units, UnitsAssumption
  <2>2. second \in 0 .. S - 1 /\ now = today * S + second
    BY <1>1, MomentInDays DEF CivilInv
  <2>3. today = first + d - 1 /\ DayNumber(y, m, n) = first + n - 1
    BY <1>1, <1>2, <1>3, FirstDays DEF today
  <2> QED
    BY <2>1, <2>2, <2>3
<1>5. to_timestamp(y, m, n, 0, 0, 0) = (first + n - 1) * S
  <2>1. to_timestamp(y, m, n, 0, 0, 0) = DayNumber(y, m, n) * S
    BY <1>1, MidnightsLead
  <2> QED
    BY <1>4, <2>1
<1>6. start = to_timestamp(y, m, n, 0, 0, 0) /\ EndOfDayIn(y, m, n) = end_of_day(start)
  <2>1. ~(n <= 0)
    BY <1>3
  <2> QED
    BY <2>1, Zenon DEF StartOfDayIn, EndOfDayIn
<1> HIDE DEF y, m, d, first, start
<1>7. start \in Int /\ start = (first + n - 1) * S
  <2> HIDE DEF S
  <2> QED
    BY <1>2, <1>3, <1>4, <1>5, <1>6
<1>8. ASSUME MsRange PROVE start # ERROR_TIMESTAMP
  <2> DEFINE q == INT64_MAX \div MS_PER_SEC
  <2>1. q \in Nat /\ ERROR_TIMESTAMP \in Int /\ ERROR_TIMESTAMP > q
    BY LeastSecond, RangeAssumption
  <2>2. now + 366 * S <= q
    BY <1>8 DEF MsRange, SEC_PER_LEAP_YEAR, DAYS_PER_LEAP_YEAR
  <2> HIDE DEF q, S, today
  <2>3. start - now <= (n - d) * S
    <3>1. (first + n - 1) * S - (first + d - 1) * S = (n - d) * S
      BY <1>2, <1>3, <1>4
    <3>2. now = (first + d - 1) * S + second /\ second \in Int /\ second >= 0
      BY <1>4
    <3> QED
      BY <1>2, <1>3, <1>4, <1>7, <3>1, <3>2
  <2>4. (n - d) * S <= 366 * S /\ (n - d) * S \in Int /\ 366 * S \in Int
    <3> DEFINE k == 366 - (n - d)
    <3>1. S \in Int /\ S >= 0 /\ n \in Int /\ d \in Int
      BY <1>2, <1>3, <1>4
    <3>2. k \in Nat
      BY <1>2, <1>3
    <3>3. k * S = 366 * S - (n - d) * S /\ (n - d) * S \in Int /\ 366 * S \in Int
      BY <3>1
    <3> HIDE DEF k
    <3>4. k * S >= 0 /\ k * S \in Int
      BY <3>1, <3>2
    <3> QED
      BY <3>3, <3>4
  <2>5. now \in Int
    BY <1>4, <1>2, <1>3
  <2> DEFINE u == (n - d) * S
             v == 366 * S
  <2> HIDE DEF u, v
  <2>6. u <= v /\ u \in Int /\ v \in Int /\ start - now <= u /\ now + v <= q
    BY <2>2, <2>3, <2>4 DEF u, v
  <2> QED
    BY <1>7, <2>1, <2>5, <2>6
<1>9. ASSUME MsRange
      PROVE  InMs(start) = sec_to_ms(start) /\ LastMsOf(start) = sec_to_ms(end_of_day(start)) + M - 1
  <2>1. InMs(start) = sec_to_ms(start) /\ LastMsOf(start) = end_of_day_ms(sec_to_ms(start))
    BY <1>8, <1>9, Zenon DEF InMs, LastMsOf
  <2> DEFINE ms  == sec_to_ms(start)
             ms0 == start * M + 0
  <2>2. ms = ms0 /\ 0 \in 0 .. M - 1
    BY <1>4, <1>7 DEF sec_to_ms
  <2>3. ms0 - floor_mod(ms0, M * S) + M * S - 1 = (start - floor_mod(start, S) + S - 1) * M + M - 1
    BY <1>4, <1>7, <2>2, MillisecondPeriods
  <2>4. end_of_day_ms(ms) = ms - floor_mod(ms, M * S) + M * S - 1
    BY DEF end_of_day_ms, MS_PER_DAY
  <2>5. sec_to_ms(end_of_day(start)) = (start - floor_mod(start, S) + S - 1) * M
    BY DEF sec_to_ms, end_of_day
  <2> HIDE DEF ms, ms0
  <2> QED
    BY <2>1, <2>2, <2>3, <2>4, <2>5 DEF ms
<1> QED
  BY <1>6, <1>7, <1>9 DEF y, m, first, start

\* The bounds of the first and of the last workday of the month.
LEMMA WorkdaysAreBounded ==
    ASSUME WalkInv
    PROVE  WorkdaysBounded(Cardinality(WorkdaysFrom(1, MonthLength(dt.year, dt.mon))))
<1> DEFINE y      == date.year
           m      == date.month
           length == MonthLength(y, m)
           first  == DayNumber(y, m, 1)
           W      == WorkdaysFrom(1, length)
           total  == Cardinality(W)
           a      == Min(W)
           z      == Max(W)
           Start(n) == StartOfDayIn(y, m, n)
<1>1. dt.year = y /\ dt.mon = m
  BY AskedOnTheWall
<1>2. /\ a \in W /\ \A n \in W : a <= n
      /\ z \in W /\ \A n \in W : n <= z
      /\ W \in SUBSET (1 .. length) /\ W # {}
  BY MonthsHaveWorkdays
<1>3. WorkdaysOf(y, m) = W /\ length \in 28..31
  BY WorkdaysAreFound
<1>4. \A n \in 1 .. length :
        /\ Start(n) = (first + n - 1) * SEC_PER_DAY
        /\ EndOfDayIn(y, m, n) = end_of_day(Start(n))
        /\ MsRange => /\ InMs(Start(n)) = sec_to_ms(Start(n))
                      /\ LastMsOf(Start(n)) = sec_to_ms(end_of_day(Start(n))) + MS_PER_SEC - 1
  BY DaysOfTheMonth
<1> HIDE DEF y, m, length, first, Start, total
<1>5. \A n : n \in W <=> n \in 1 .. length /\ Works(n)
  BY DEF WorkdaysFrom
<1> HIDE DEF W, a, z
<1>6. a \in 1 .. length /\ z \in 1 .. length /\ Works(a) /\ Works(z)
  BY <1>2, <1>5
<1>7. first_workday_day(y, m) = a /\ last_workday_day(y, m) = z
  BY <1>2, <1>3, Zenon DEF first_workday_day, last_workday_day, a, z
<1>8. Cardinality(WorkdaysFrom(1, a)) = 1
  <2>1. WorkdaysFrom(1, a) = {a}
    <3>1. \A n \in 1 .. a : n \in 1 .. length /\ n <= a
      BY <1>3, <1>6
    <3>2. \A n \in 1 .. a : Works(n) => n = a
      <4> SUFFICES ASSUME NEW n \in 1 .. a, Works(n) PROVE n = a
        OBVIOUS
      <4>1. n \in W /\ n <= a
        BY <1>5, <3>1
      <4>2. a <= n
        BY <1>2, <4>1
      <4> QED
        BY <1>6, <4>1, <4>2
    <3>3. a \in 1 .. a
      BY <1>6
    <3> QED
      BY <1>6, <3>2, <3>3, Zenon DEF WorkdaysFrom
  <2> QED
    BY <2>1, FS_Singleton, Zenon
<1>9. Cardinality(WorkdaysFrom(1, z)) = total
  <2>1. \A n \in 1 .. z : n \in 1 .. length
    BY <1>3, <1>6
  <2>2. \A n \in W : n \in 1 .. z
    BY <1>2, <1>3, <1>5, <1>6
  <2>3. WorkdaysFrom(1, z) = W
    BY <1>5, <2>1, <2>2, Zenon DEF WorkdaysFrom
  <2> QED
    BY <2>3 DEF total
<1>10. StartsWorkday(Start(a), 1) /\ StartsWorkday(Start(z), total)
  <2>1. Start(a) = (first + a - 1) * SEC_PER_DAY /\ Start(z) = (first + z - 1) * SEC_PER_DAY
    BY <1>4, <1>6
  <2> HIDE DEF dt
  <2> QED
    BY <1>1, <1>6, <1>8, <1>9, <2>1, Zenon DEF StartsWorkday, first, length
<1>11. /\ start_of_first_workday_month(y, m) = Start(a)
       /\ end_of_first_workday_month(y, m) = end_of_day(Start(a))
       /\ start_of_last_workday_month(y, m) = Start(z)
       /\ end_of_last_workday_month(y, m) = end_of_day(Start(z))
       /\ MsRange => /\ start_of_first_workday_month_ms(y, m) = sec_to_ms(Start(a))
                     /\ end_of_last_workday_month_ms(y, m) = sec_to_ms(end_of_day(Start(z))) + MS_PER_SEC - 1
  BY <1>4, <1>6, <1>7, Zenon
     DEF start_of_first_workday_month, end_of_first_workday_month, start_of_last_workday_month,
         end_of_last_workday_month, start_of_first_workday_month_ms, end_of_last_workday_month_ms, Start
<1>12. WorkdaysBounded(total)
  <2> HIDE DEF dt
  <2> QED
    BY <1>1, <1>10, <1>11, Zenon DEF WorkdaysBounded
<1> QED
  BY <1>1, <1>12 DEF total, W, length

\* At the first second of every day of the walk the workdays are counted as on the wall.
LEMMA WorkdaysAreRight == WalkInv => WorkdaysCount
<1> SUFFICES ASSUME WalkInv, second = 0 PROVE WorkdaysCount
  BY DEF WorkdaysCount
<1> QED
  BY DatesAreCounted, MomentsAreCounted, WorkdaysAreBounded, Zenon DEF WorkdaysCount

\* On every walk, at the first second of every day, whether the day is a workday, the
\* how many-th of its month from either end, and the bounds of the first and the last
\* of them are those of the wall calendar.
THEOREM WorkdaysAreCounted == WalkSpec => []WorkdaysCount
  BY LibraryTellsTheCalendar, WorkdaysAreRight, PTL

-----------------------------------------------------------------------------
(* Weeks                                                                   *)

\* iso_weekday_of_date() counts from Monday, and leads to the Thursday of the week,
\* which is a whole number of weeks from that of 1970-01-01.
LEMMA IsoWeekdays ==
    ASSUME NEW y \in Nat \ {0}, NEW m \in 1..12, NEW d \in 1..31
    PROVE  LET n  == DayNumber(y, m, d)
               wd == iso_weekday_of_date(y, m, d)
           IN  /\ n \in Int /\ wd \in 1..7
               /\ wd = IF WeekdayOf(n) = 0 THEN 7 ELSE WeekdayOf(n)
               /\ (n + (4 - wd)) % 7 = 0
<1> DEFINE n  == DayNumber(y, m, d)
           wd == iso_weekday_of_date(y, m, d)
<1>1. n \in Int
  <2>1. y \in Int /\ d \in Int
    OBVIOUS
  <2> QED
    BY <2>1, DayNumberType, Zenon
<1>2. day_of_week_date(y, m, d) = WeekdayOf(n)
  <2>1. date_to_unix_day(y, m, d) = n
    BY DaysAreCounted
  <2> QED
    BY <2>1, WeekdaysByZeller
<1>3. wd = ((WeekdayOf(n) + DAYS_PER_WEEK - 1) % DAYS_PER_WEEK) + 1
  BY <1>2 DEF iso_weekday_of_date, iso_weekday_from_weekday
<1> HIDE DEF n, wd
<1>4. wd = ((((n + 4) % 7) + 6) % 7) + 1
  BY <1>1, <1>3 DEF WeekdayOf, DAYS_PER_WEEK
<1> QED
  BY <1>1, <1>4 DEF n, wd, WeekdayOf

\* FirstThursday() is the first Thursday of the year.
LEMMA FirstThursdays ==
    ASSUME NEW y \in Nat \ {0}
    PROVE  /\ FirstThursday(y) \in Int /\ FirstThursday(y) % 7 = 0
           /\ DaysBeforeYear(y) \in Int
           /\ DaysBeforeYear(y) <= FirstThursday(y) /\ FirstThursday(y) <= DaysBeforeYear(y) + 6
<1> DEFINE n  == DayNumber(y, 1, 4)
           wd == iso_weekday_of_date(y, 1, 4)
           J  == DaysBeforeYear(y)
<1>1. n \in Int /\ wd \in 1..7 /\ (n + (4 - wd)) % 7 = 0
  BY IsoWeekdays
<1>2. J \in Int /\ n = J + 3
  <2>1. DayNumber(y, 1, 1) = J /\ J \in Int /\ n = DayNumber(y, 1, 1) + 4 - 1
    BY FirstDays
  <2> QED
    BY <2>1
<1>3. FirstThursday(y) = n + (4 - wd)
  <2>1. date_to_unix_day(y, 1, 4) = n
    BY DaysAreCounted
  <2> QED
    BY <2>1 DEF FirstThursday
<1> HIDE DEF n, wd, J
<1>4. /\ FirstThursday(y) \in Int /\ FirstThursday(y) % 7 = 0
      /\ J <= FirstThursday(y) /\ FirstThursday(y) <= J + 6
  BY <1>1, <1>2, <1>3
<1> QED
  BY <1>2, <1>4 DEF J

\* Every day of a year is in one of its months.
LEMMA DatesExist ==
    ASSUME NEW y \in Int, NEW n \in Int, 0 <= n, n < YearLength(y)
    PROVE  \E m \in 1..12, d \in 1..31 :
              d <= MonthLength(y, m) /\ DayNumber(y, m, d) = DaysBeforeYear(y) + n
<1>1. \E m \in 1..12 : DaysBefore(y, m) <= n /\ n < DaysBefore(y, m) + MonthLength(y, m)
  <2>1. /\ 1 \in 1..12 /\ 2 \in 1..12 /\ 3 \in 1..12 /\ 4 \in 1..12 /\ 5 \in 1..12 /\ 6 \in 1..12
        /\ 7 \in 1..12 /\ 8 \in 1..12 /\ 9 \in 1..12 /\ 10 \in 1..12 /\ 11 \in 1..12 /\ 12 \in 1..12
    OBVIOUS
  <2>2. CASE IsLeap(y)
    BY <2>1, <2>2 DEF YearLength, DaysBefore, lmos, MonthLength
  <2>3. CASE ~IsLeap(y)
    BY <2>1, <2>3 DEF YearLength, DaysBefore, mos, MonthLength
  <2> QED
    BY <2>2, <2>3
<1>2. PICK m \in 1..12 : DaysBefore(y, m) <= n /\ n < DaysBefore(y, m) + MonthLength(y, m)
  BY <1>1
<1> DEFINE d == n - DaysBefore(y, m) + 1
<1>3. /\ DaysBefore(y, m) \in Int /\ DaysBeforeYear(y) \in Int /\ MonthLength(y, m) \in 28..31
  BY CountsAreIntegers DEF MonthLength
<1>4. d \in 1..31 /\ d <= MonthLength(y, m) /\ d \in Int
  BY <1>2, <1>3
<1>5. DayNumber(y, m, d) = DaysBeforeYear(y) + DaysBefore(y, m) + d - 1
  <2> HIDE DEF d
  <2> QED
    BY <1>4, DayFormula, DaysAreCounted
<1>6. DayNumber(y, m, d) = DaysBeforeYear(y) + n
  BY <1>3, <1>5
<1> QED
  BY <1>4, <1>6

\* What the library tells of a day that is in a year.
LEMMA DayOfYearTold ==
    ASSUME NEW y \in Int, YearInRange(y), NEW n \in Int, DaysBeforeYear(y) <= n, n < DaysBeforeYear(y + 1)
    PROVE  LET t == to_date_time(n * SEC_PER_DAY)
           IN  t.year = y /\ DayOfYear(t.year, t.mon, t.day) - 1 = n - DaysBeforeYear(y)
<1> DEFINE J == DaysBeforeYear(y)
<1>1. J \in Int /\ DaysBeforeYear(y + 1) = J + YearLength(y) /\ YearLength(y) \in 365..366
  BY CountsAreIntegers, YearsAddUp DEF YearLength
<1>2. n - J \in Int /\ 0 <= n - J /\ n - J < YearLength(y)
  BY <1>1
<1>3. PICK m \in 1..12, d \in 1..31 : d <= MonthLength(y, m) /\ DayNumber(y, m, d) = J + (n - J)
  BY <1>2, DatesExist
<1> DEFINE t == Date(y, m, d)
<1>4. t.year = y /\ t.month = m /\ t.day = d /\ t \in CivilDate
  BY DEF Date, CivilDate
<1>5. IsDate(t)
  BY <1>3, <1>4 DEF IsDate
<1>6. DayOf(t) = n
  <2> HIDE DEF t
  <2> QED
    BY <1>1, <1>3, <1>4 DEF DayOf
<1>7. to_date_time(n * SEC_PER_DAY) = OnDay(t, 0)
  <2>1. SEC_PER_DAY \in Nat \ {0} /\ 0 \in 0 .. SEC_PER_DAY - 1
    BY Units
  <2> HIDE DEF t
  <2>2. to_date_time(n * SEC_PER_DAY + 0) = OnDay(t, 0)
    BY <1>5, <1>6, <2>1, DateIsTold
  <2> QED
    BY <2>1, <2>2
<1>8. OnDay(t, 0).year = y /\ OnDay(t, 0).mon = m /\ OnDay(t, 0).day = d
  <2> HIDE DEF t
  <2> QED
    BY <1>4 DEF OnDay, DateTime
<1>9. DayOfYear(y, m, d) - 1 = n - J
  <2>1. DayOfYear(y, m, d) = d + DaysBefore(y, m) /\ d \in Int
    BY DaysBeforeMonths
  <2>2. DayNumber(y, m, d) = J + DaysBefore(y, m) + d - 1 /\ DaysBefore(y, m) \in Int
    <3>1. DayNumber(y, m, d) = date_to_unix_day(y, m, d)
      BY <2>1, DaysAreCounted
    <3>2. date_to_unix_day(y, m, d) = J + DaysBefore(y, m) + d - 1
      BY <2>1, DayFormula, Zenon
    <3>3. DaysBefore(y, m) \in Int
      BY CountsAreIntegers
    <3> QED
      BY <3>1, <3>2, <3>3
  <2> HIDE DEF J
  <2> QED
    BY <1>1, <1>3, <2>1, <2>2
<1> QED
  BY <1>7, <1>8, <1>9

\* The number of a week, when its Thursday is in a year.
LEMMA WeekOfThursday ==
    ASSUME NEW y \in Nat \ {0}, YearInRange(y), NEW T \in Int, T % 7 = 0,
           DaysBeforeYear(y) <= T, T < DaysBeforeYear(y + 1)
    PROVE  /\ to_date_time(unix_day_to_ts(T)).year = y
           /\ TruncDiv(T - FirstThursday(y), 7) = (T - DaysBeforeYear(y)) \div 7
           /\ FirstThursday(y) + ((T - DaysBeforeYear(y)) \div 7) * 7 = T
           /\ (T - DaysBeforeYear(y)) \div 7 \in Nat
<1> DEFINE J == DaysBeforeYear(y)
           F == FirstThursday(y)
<1>1. y \in Int /\ J \in Int
  BY CountsAreIntegers
<1>2. F \in Int /\ F % 7 = 0 /\ J <= F /\ F <= J + 6
  BY FirstThursdays
<1>3. to_date_time(unix_day_to_ts(T)).year = y
  <2>1. to_date_time(T * SEC_PER_DAY).year = y
    BY <1>1, DayOfYearTold
  <2> QED
    BY <2>1 DEF unix_day_to_ts
<1>4. J <= T
  OBVIOUS
<1> HIDE DEF J, F
<1>5. TruncDiv(T - F, 7) = (T - J) \div 7 /\ F + ((T - J) \div 7) * 7 = T /\ (T - J) \div 7 \in Nat
  BY <1>1, <1>2, <1>4 DEF TruncDiv
<1> QED
  BY <1>3, <1>5 DEF J, F

\* The week of a date, from the year and the number of its Thursday.
LEMMA WeekOfDate ==
    ASSUME NEW y, NEW m, NEW d, NEW Y, NEW week,
           to_date_time(unix_day_to_ts(date_to_unix_day(y, m, d) + (4 - iso_weekday_of_date(y, m, d)))).year = Y,
           TruncDiv((date_to_unix_day(y, m, d) + (4 - iso_weekday_of_date(y, m, d))) - FirstThursday(Y), 7) = week
    PROVE  to_iso_week_date(y, m, d) = IsoWeekDate(Y, week + 1, iso_weekday_of_date(y, m, d))
  BY Zenon DEF to_iso_week_date, DAYS_PER_WEEK

\* The Thursday of the week with 28 December is the last of the year, so that no
\* week of the year has a greater number; a 53rd week takes a Thursday at either end.
LEMMA WeeksOfYears ==
    ASSUME NEW y \in Nat \ {0}, YearInRange(y)
    PROVE  LET first == DaysBeforeYear(y)
               next  == DaysBeforeYear(y + 1)
           IN  /\ first \in Int /\ next \in Int /\ next = first + YearLength(y) /\ YearLength(y) \in 365..366
               /\ DayNumber(y, 1, 1) = first /\ DayNumber(y, 12, 31) = next - 1
               /\ iso_weeks_in_year(y) = IF WeekdayOf(first) = 4 \/ WeekdayOf(next - 1) = 4 THEN 53 ELSE 52
               /\ \A n \in Int : n % 7 = 0 /\ first <= n /\ n < next
                                   => (n - first) \div 7 + 1 <= iso_weeks_in_year(y)
<1> DEFINE first == DaysBeforeYear(y)
           next  == DaysBeforeYear(y + 1)
           k     == DayNumber(y, 12, 28)
           wd    == iso_weekday_of_date(y, 12, 28)
           T     == k + (4 - wd)
<1>1. first \in Int /\ next \in Int /\ next = first + YearLength(y) /\ YearLength(y) \in 365..366
  BY CountsAreIntegers, YearsAddUp DEF YearLength
<1>2. DayNumber(y, 1, 1) = first /\ DayNumber(y, 12, 31) = next - 1 /\ k = next - 4
  <2>1. /\ y \in Int /\ 1 \in 1..12 /\ 12 \in 1..12 /\ 1 \in Int /\ 31 \in Int /\ 28 \in Int
    OBVIOUS
  <2>2. DaysBefore(y, 1) = 0 /\ DaysBefore(y, 12) = YearLength(y) - 31
    BY DEF DaysBefore, YearLength, mos, lmos
  <2>3. /\ DayNumber(y, 1, 1) = first + DaysBefore(y, 1) + 1 - 1
        /\ DayNumber(y, 12, 31) = first + DaysBefore(y, 12) + 31 - 1
        /\ DayNumber(y, 12, 28) = first + DaysBefore(y, 12) + 28 - 1
    BY <2>1, DayFormula, DaysAreCounted
  <2> HIDE DEF first, next
  <2> QED
    BY <1>1, <2>2, <2>3
<1>3. wd \in 1..7 /\ T % 7 = 0 /\ k \in Int
  BY IsoWeekdays
<1>4. T \in Int /\ first <= T /\ next - 7 <= T /\ T < next
  <2> HIDE DEF first, next, k, wd
  <2> QED
    BY <1>1, <1>2, <1>3
<1>5. iso_weeks_in_year(y) = ((T - first) \div 7) + 1
  <2> DEFINE week == (T - first) \div 7
  <2>1. to_date_time(unix_day_to_ts(T)).year = y /\ TruncDiv(T - FirstThursday(y), 7) = week
    <3> HIDE DEF T
    <3> QED
      BY <1>3, <1>4, WeekOfThursday
  <2>2. k = date_to_unix_day(y, 12, 28)
    BY DaysAreCounted
  <2>3. to_iso_week_date(y, 12, 28) = IsoWeekDate(y, week + 1, wd)
    <3>1. T = date_to_unix_day(y, 12, 28) + (4 - iso_weekday_of_date(y, 12, 28))
      BY <2>2
    <3> HIDE DEF week, k, T, first, next
    <3> QED
      BY <2>1, <3>1, WeekOfDate
  <2> HIDE DEF T, first, wd
  <2> QED
    BY <2>3 DEF iso_weeks_in_year, IsoWeekDate
<1> DEFINE weeks == iso_weeks_in_year(y)
<1> HIDE DEF first, next, k, wd, T, weeks
<1>6. weeks = ((T - first) \div 7) + 1
  BY <1>5 DEF weeks
<1>7. weeks = IF WeekdayOf(first) = 4 \/ WeekdayOf(next - 1) = 4 THEN 53 ELSE 52
  BY <1>1, <1>3, <1>4, <1>6 DEF WeekdayOf
<1>8. ASSUME NEW n \in Int, n % 7 = 0, first <= n, n < next PROVE (n - first) \div 7 + 1 <= weeks
  <2>1. n <= T
    BY <1>1, <1>3, <1>4, <1>8
  <2> QED
    BY <1>1, <1>4, <1>6, <1>8, <2>1
<1> QED
  BY <1>1, <1>2, <1>7, <1>8 DEF first, next, weeks

\* A date is in its year.
LEMMA DatesInTheirYear ==
    ASSUME NEW y \in Int, NEW m \in 1..12, NEW d \in 1..31, d <= MonthLength(y, m)
    PROVE  DaysBeforeYear(y) <= DayNumber(y, m, d) /\ DayNumber(y, m, d) < DaysBeforeYear(y + 1)
<1> DEFINE J == DaysBeforeYear(y)
<1>1. /\ J \in Int /\ DaysBeforeYear(y + 1) = J + YearLength(y) /\ YearLength(y) \in 365..366
      /\ DaysBefore(y, m) \in Int
  <2>1. J \in Int /\ DaysBefore(y, m) \in Int
    BY CountsAreIntegers
  <2>2. DaysBeforeYear(y + 1) = J + YearLength(y)
    BY YearsAddUp
  <2>3. YearLength(y) \in 365..366
    BY DEF YearLength
  <2> QED
    BY <2>1, <2>2, <2>3
<1>2. DayNumber(y, m, d) = J + DaysBefore(y, m) + d - 1
  <2>1. d \in Int
    OBVIOUS
  <2>2. DayNumber(y, m, d) = date_to_unix_day(y, m, d)
    BY <2>1, DaysAreCounted
  <2>3. date_to_unix_day(y, m, d) = J + DaysBefore(y, m) + d - 1
    BY <2>1, DayFormula, Zenon
  <2> QED
    BY <2>2, <2>3
<1>3. 0 <= DaysBefore(y, m) /\ DaysBefore(y, m) + MonthLength(y, m) <= YearLength(y)
  BY DEF DaysBefore, MonthLength, YearLength, mos, lmos
<1>4. MonthLength(y, m) \in Int
  BY DEF MonthLength
<1> HIDE DEF J
<1> QED
  BY <1>1, <1>2, <1>3, <1>4 DEF J

\* The Thursday of the week of a date is in a year that the library knows.
LEMMA ThursdaysInYears ==
    ASSUME WalkInv, date.year > 0,
           NEW wd \in 1..7, wd = iso_weekday_of_date(date.year, date.month, date.day)
    PROVE  \E Y \in Nat \ {0} :
             /\ YearInRange(Y) /\ MIN_YEAR <= Y /\ Y <= MAX_YEAR
             /\ DaysBeforeYear(Y) <= today + (4 - wd) /\ today + (4 - wd) < DaysBeforeYear(Y + 1)
<1> DEFINE y == date.year
           m == date.month
           d == date.day
           T == today + (4 - wd)
<1>1. /\ y \in Nat \ {0} /\ m \in 1..12 /\ d \in 1..31 /\ d <= MonthLength(y, m)
      /\ y < MAX_YEAR /\ MAX_YEAR \in Int /\ MIN_YEAR \in Int /\ MIN_YEAR <= 1
      /\ YearInRange(y - 1) /\ YearInRange(y) /\ YearInRange(y + 1)
  <2>1. /\ y \in Nat \ {0} /\ m \in 1..12 /\ d \in 1..31 /\ d <= MonthLength(y, m) /\ y <= LastYear
    BY DEF WalkInv, CivilInv, CivilDate
  <2> HIDE DEF y, m, d
  <2>2. /\ YearInRange(y - 1) /\ YearInRange(y) /\ YearInRange(y + 1)
    BY <2>1, YearRangeAssumption, SMT DEF YearInRange
  <2>3. y < MAX_YEAR /\ MAX_YEAR \in Int /\ MIN_YEAR \in Int /\ MIN_YEAR <= 1
    BY <2>1, YearRangeAssumption, YearsAssumption, SMT
  <2> QED
    BY <2>1, <2>2, <2>3
<1>2. today = DayNumber(y, m, d)
  BY DEF today
<1> HIDE DEF y, m, d
<1>3. today \in Int /\ T \in Int /\ T % 7 = 0
  <2>1. wd = iso_weekday_of_date(y, m, d)
    BY DEF y, m, d
  <2>2. /\ DayNumber(y, m, d) \in Int
        /\ (DayNumber(y, m, d) + (4 - iso_weekday_of_date(y, m, d))) % 7 = 0
    BY <1>1, IsoWeekdays
  <2> QED
    BY <1>2, <2>1, <2>2
<1>4. DaysBeforeYear(y) <= today /\ today < DaysBeforeYear(y + 1)
  <2>1. y \in Int
    BY <1>1
  <2>2. DaysBeforeYear(y) <= DayNumber(y, m, d) /\ DayNumber(y, m, d) < DaysBeforeYear(y + 1)
    BY <1>1, <2>1, DatesInTheirYear, Zenon
  <2> QED
    BY <1>2, <2>2, Zenon
<1>5. \A k \in Int : /\ DaysBeforeYear(k) \in Int
                     /\ DaysBeforeYear(k) + 365 <= DaysBeforeYear(k + 1)
  <2> TAKE k \in Int
  <2>1. DaysBeforeYear(k) \in Int
    BY CountsAreIntegers
  <2>2. DaysBeforeYear(k + 1) = DaysBeforeYear(k) + YearLength(k)
    BY YearsAddUp
  <2>3. YearLength(k) \in 365..366
    BY DEF YearLength
  <2> QED
    BY <2>1, <2>2, <2>3
<1>6. DaysBeforeYear(y) - 3 <= T /\ T < DaysBeforeYear(y + 1) + 3
  <2>1. DaysBeforeYear(y) \in Int /\ DaysBeforeYear(y + 1) \in Int
    BY <1>1, <1>5
  <2> QED
    BY <1>3, <1>4, <2>1
<1> HIDE DEF T
<1>7. CASE T < DaysBeforeYear(y)
  <2>1. y # 1
    <3> SUFFICES ASSUME y = 1 PROVE FALSE
      OBVIOUS
    <3>1. DaysBeforeYear(1) \in Int /\ DaysBeforeYear(1) % 7 = 4
      <4>1. LeapYearsBefore(1) = 0 /\ LeapYearsBefore(1970) = 477
        BY SMT DEF LeapYearsBefore
      <4>2. DaysBeforeYear(1) = 365 * (1 - 1970) + 0 - 477
        BY <4>1, SMT DEF DaysBeforeYear
      <4> QED
        BY <4>2, SMT
    <3> QED
      BY <1>3, <1>6, <1>7, <3>1
  <2>2. y - 1 \in Nat \ {0} /\ y - 1 \in Int /\ (y - 1) + 1 = y
    BY <1>1, <2>1
  <2>3. DaysBeforeYear(y - 1) \in Int /\ DaysBeforeYear(y) \in Int /\ DaysBeforeYear(y - 1) + 365 <= DaysBeforeYear(y)
    BY <1>1, <1>5, <2>2
  <2>4. DaysBeforeYear(y - 1) <= T /\ T < DaysBeforeYear((y - 1) + 1)
    BY <1>3, <1>6, <1>7, <2>2, <2>3
  <2>5. YearInRange(y - 1) /\ MIN_YEAR <= y - 1 /\ y - 1 <= MAX_YEAR
    BY <1>1, <2>2
  <2> QED
    BY <2>2, <2>4, <2>5 DEF T
<1>8. CASE DaysBeforeYear(y) <= T /\ T < DaysBeforeYear(y + 1)
  <2>1. YearInRange(y) /\ MIN_YEAR <= y /\ y <= MAX_YEAR
    BY <1>1
  <2> QED
    BY <1>1, <1>8, <2>1 DEF T
<1>9. CASE DaysBeforeYear(y + 1) <= T
  <2>1. y + 1 \in Nat \ {0} /\ y + 1 \in Int
    BY <1>1
  <2>2. DaysBeforeYear(y + 1) \in Int /\ DaysBeforeYear((y + 1) + 1) \in Int
        /\ DaysBeforeYear(y + 1) + 365 <= DaysBeforeYear((y + 1) + 1)
    <3>1. (y + 1) + 1 \in Int
      BY <2>1
    <3> QED
      BY <1>5, <2>1, <3>1
  <2>3. T < DaysBeforeYear((y + 1) + 1)
    BY <1>3, <1>6, <2>2
  <2>4. YearInRange(y + 1) /\ MIN_YEAR <= y + 1 /\ y + 1 <= MAX_YEAR
    BY <1>1, <2>1
  <2> QED
    BY <1>9, <2>1, <2>3, <2>4 DEF T
<1>10. DaysBeforeYear(y) \in Int /\ DaysBeforeYear(y + 1) \in Int
  BY <1>1, <1>5
<1> QED
  BY <1>3, <1>7, <1>8, <1>9, <1>10

\* The week of the day shown, the way back, and the weeks of its year.
LEMMA WeeksAreRight == WalkInv => IsoWeekAgrees
<1> SUFFICES ASSUME WalkInv, second = 0, WeekdayIsRight PROVE IsoWeekAgrees
  BY DEF IsoWeekAgrees
<1> DEFINE y   == date.year
           m   == date.month
           d   == date.day
           n   == today
           S   == SEC_PER_DAY
           wd  == iso_weekday_of_date(y, m, d)
           T   == n + (4 - wd)
           iso == ts_to_iso_week_date(now)
<1>1. /\ CivilInv /\ now = moment /\ day = n /\ dt = OnDay(date, second)
      /\ dt.year = y /\ dt.mon = m /\ dt.day = d
      /\ shown.weekday = weekday /\ weekday = WeekdayOf(n)
      /\ y \in Nat \ {0} /\ m \in 1..12 /\ d \in 1..31 /\ IsDate(date)
  <2>1. /\ CivilInv /\ now = moment /\ day = n /\ dt = OnDay(date, second)
        /\ dt.year = y /\ dt.mon = m /\ dt.day = d
        /\ shown.weekday = weekday /\ y \in Int /\ m \in 1..12 /\ d \in 1..31 /\ IsDate(date)
    BY AskedOnTheWall
  <2>2. weekday = WeekdayOf(n)
    BY <2>1 DEF CivilInv
  <2>3. y > 0
    BY <2>1 DEF WeekdayIsRight
  <2> QED
    BY <2>1, <2>2, <2>3
<1>2. n \in Int /\ n = DayNumber(y, m, d) /\ wd \in 1..7 /\ wd = (IF WeekdayOf(n) = 0 THEN 7 ELSE WeekdayOf(n)) /\ T % 7 = 0
  BY <1>1, IsoWeekdays DEF today
<1>3. S \in Nat \ {0} /\ now = n * S /\ 0 \in 0 .. S - 1
  <2>1. S \in Nat \ {0} /\ now = n * S + second
    BY <1>1, Units, MomentInDays DEF CivilInv
  <2> HIDE DEF S, n
  <2> QED
    BY <1>2, <2>1
<1>4. to_date_time(n * S) = dt
  <2>1. to_date_time(DayOf(date) * S + 0) = OnDay(date, 0) /\ DayOf(date) = n
    BY <1>1, <1>3, DateIsTold DEF DayOf, today
  <2> HIDE DEF S, n
  <2>2. n * S + 0 = n * S
    BY <1>2, <1>3
  <2> QED
    BY <1>1, <2>1, <2>2
<1>5. iso = to_iso_week_date(y, m, d)
  BY <1>1, <1>3, <1>4, Zenon DEF ts_to_iso_week_date, dt_to_iso_week_date
<1>6. PICK Y \in Nat \ {0} :
        /\ YearInRange(Y) /\ MIN_YEAR <= Y /\ Y <= MAX_YEAR
        /\ DaysBeforeYear(Y) <= T /\ T < DaysBeforeYear(Y + 1)
  <2>1. date.year > 0
    BY <1>1
  <2> QED
    BY <1>2, <2>1, ThursdaysInYears
<1> DEFINE J     == DaysBeforeYear(Y)
           week  == (T - J) \div 7
           weeks == iso_weeks_in_year(Y)
<1>7. iso = IsoWeekDate(Y, week + 1, wd) /\ FirstThursday(Y) + week * 7 = T /\ week \in Nat
  <2>1. T \in Int
    <3> HIDE DEF n, wd
    <3> QED
      BY <1>2
  <2>2. /\ to_date_time(unix_day_to_ts(T)).year = Y /\ TruncDiv(T - FirstThursday(Y), 7) = week
        /\ FirstThursday(Y) + week * 7 = T /\ week \in Nat
    <3>1. T % 7 = 0
      BY <1>2
    <3> HIDE DEF T
    <3> QED
      BY <1>6, <2>1, <3>1, WeekOfThursday
  <2>3. n = date_to_unix_day(y, m, d)
    BY <1>1, <1>2, DaysAreCounted
  <2>4. to_iso_week_date(y, m, d) = IsoWeekDate(Y, week + 1, wd)
    <3> HIDE DEF week, n, y, m, d
    <3> QED
      BY <2>2, <2>3, WeekOfDate, Zenon
  <2> QED
    BY <1>5, <2>2, <2>4
<1>8. iso.year = Y /\ iso.week = week + 1 /\ iso.weekday = wd
  <2> HIDE DEF iso, week, wd
  <2> QED
    BY <1>7 DEF IsoWeekDate
<1>9. J \in Int /\ T \in Int /\ FirstThursday(Y) \in Int
  BY <1>2, FirstThursdays
<1>10. /\ to_date_time(T * S).year = Y
       /\ DayOfYear(to_date_time(T * S).year, to_date_time(T * S).mon, to_date_time(T * S).day) - 1 = T - J
  <2> HIDE DEF T
  <2> QED
    BY <1>6, <1>9, DayOfYearTold
<1>11. /\ weeks = IF WeekdayOf(DayNumber(Y, 1, 1)) = 4 \/ WeekdayOf(DayNumber(Y, 12, 31)) = 4 THEN 53 ELSE 52
       /\ week + 1 <= weeks
  <2> HIDE DEF T
  <2> QED
    BY <1>2, <1>6, <1>9, WeeksOfYears
<1> HIDE DEF iso, weeks, week, wd, J, n
<1>12. iso_week_date_to_date(iso) = Date(y, m, d)
  <2>1. is_valid_iso_week_date(iso.year, iso.week, iso.weekday)
    <3>1. 1 <= week + 1
      BY <1>7
    <3> QED
      BY <1>2, <1>6, <1>8, <1>11, <3>1, Zenon DEF is_valid_iso_week_date, weeks
  <2>2. FirstThursday(iso.year) + (iso.week - 1) * DAYS_PER_WEEK + (iso.weekday - 4) = n
    BY <1>2, <1>7, <1>8, <1>9 DEF DAYS_PER_WEEK
  <2>3. to_date_time(unix_day_to_ts(n)) = dt
    BY <1>4, Zenon DEF unix_day_to_ts
  <2> QED
    BY <1>1, <2>1, <2>2, <2>3, Zenon DEF iso_week_date_to_date
<1>13. iso_week_date_to_date([iso EXCEPT !.week = weeks + 1]) = invalid_argument
  <2> DEFINE bad == [iso EXCEPT !.week = weeks + 1]
  <2>1. bad.year = Y /\ bad.week = weeks + 1 /\ bad.weekday = wd
    BY <1>7, <1>8 DEF IsoWeekDate
  <2>2. ~(weeks + 1 <= weeks)
    BY <1>11
  <2> HIDE DEF bad
  <2>3. ~is_valid_iso_week_date(bad.year, bad.week, bad.weekday)
    BY <2>1, <2>2, Zenon DEF is_valid_iso_week_date, weeks
  <2> QED
    BY <2>3, Zenon DEF iso_week_date_to_date, bad
<1>14. (day + 4 - iso.weekday) * S = T * S
  BY <1>1, <1>2, <1>8
<1>15. iso.weekday = (IF shown.weekday = 0 THEN 7 ELSE shown.weekday)
  BY <1>1, <1>2, <1>8
<1> QED
  <2> DEFINE thursday == to_date_time((day + 4 - iso.weekday) * SEC_PER_DAY)
  <2>1. thursday = to_date_time(T * S)
    BY <1>14
  <2> HIDE DEF thursday, T, S
  <2>2. /\ iso.year = thursday.year
        /\ iso.week = (DayOfYear(thursday.year, thursday.mon, thursday.day) - 1) \div 7 + 1
    BY <1>8, <1>10, <2>1 DEF week
  <2> HIDE DEF WeekdayIsRight, dt, second, day
  <2> QED
    BY <1>1, <1>8, <1>11, <1>12, <1>13, <1>15, <2>2, Zenon DEF IsoWeekAgrees, iso, weeks, thursday

\* On every walk, the ISO week of a day of year 1 or later is that of its Thursday,
\* leads back to the day, and is one of the 52 or 53 weeks of its year.
THEOREM WeeksAgree == WalkSpec => []IsoWeekAgrees
  BY LibraryTellsTheCalendar, WeeksAreRight, PTL

=============================================================================
