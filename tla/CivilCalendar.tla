---------------------------- MODULE CivilCalendar ----------------------------
(* What the calendar functions promise: the Gregorian calendar as it is     *)
(* lived, one day after the other. Nothing here is taken from the code. The *)
(* seconds of a day pass from 0 on; the day after the last one of a month is *)
(* the first of the next month.                                             *)
EXTENDS Integers

CONSTANT DayLength

VARIABLES date, weekday, second

civil == <<date, weekday, second>>

IsLeap(y) == y % 4 = 0 /\ (y % 100 # 0 \/ y % 400 = 0)
YearLength(y) == IF IsLeap(y) THEN 366 ELSE 365

MonthLength(y, m) ==
    CASE m = 2                -> IF IsLeap(y) THEN 29 ELSE 28
      [] m \in {4, 6, 9, 11}  -> 30
      [] OTHER                -> 31

\* The day of the year, and the days since 1970-01-01, by adding up.
DayOfYear(y, m, d) ==
    LET before[k \in 1..12] == IF k = 1 THEN 0 ELSE before[k - 1] + MonthLength(y, k - 1)
    IN  d + before[m]
LeapYearsBefore(y) == (y - 1) \div 4 - (y - 1) \div 100 + (y - 1) \div 400
DayNumber(y, m, d) ==
    365 * (y - 1970) + LeapYearsBefore(y) - LeapYearsBefore(1970) + DayOfYear(y, m, d) - 1

\* 1970-01-01 was a Thursday; 0 is Sunday.
WeekdayOf(n) == (n + 4) % 7

Successor(t) ==
    CASE t.day < MonthLength(t.year, t.month) -> [t EXCEPT !.day = @ + 1]
      [] t.day = MonthLength(t.year, t.month) /\ t.month < 12
             -> [t EXCEPT !.day = 1, !.month = @ + 1]
      [] OTHER -> [year |-> t.year + 1, month |-> 1, day |-> 1]
-----------------------------------------------------------------------------
Init ==
    /\ date \in [year : Int, month : 1..12, day : 1..31]
    /\ date.day <= MonthLength(date.year, date.month)
    /\ weekday = WeekdayOf(DayNumber(date.year, date.month, date.day))
    /\ second \in 0 .. DayLength - 1

TimePasses ==
    /\ second' \in second + 1 .. DayLength - 1
    /\ UNCHANGED <<date, weekday>>

NextDay ==
    /\ date' = Successor(date)
    /\ weekday' = (weekday + 1) % 7
    /\ second' \in 0 .. DayLength - 1

Next == TimePasses \/ NextDay

Spec == Init /\ [][Next]_civil
=============================================================================
