------------------------------ MODULE Calendar ------------------------------
(* The pure functions between timestamps and the calendar: validation.hpp,  *)
(* time_unit_conversions.hpp, unix_time_conversions.hpp,                    *)
(* date_conversions.hpp and date_time_conversions.hpp. The day has          *)
(* HOURS_PER_DAY * MIN_PER_HOUR * SEC_PER_MIN seconds and a second          *)
(* MS_PER_SEC milliseconds, so that TLC's integers can hold centuries: the  *)
(* library is the instance 24, 60, 60 and 1000.                             *)
EXTENDS FastDate, FiniteSets

CONSTANTS
    SEC_PER_MIN, MIN_PER_HOUR, HOURS_PER_DAY, MS_PER_SEC,
    MIN_YEAR, MAX_YEAR,   \* the years is_valid_date() accepts
    INT64_MAX,            \* what a timestamp can hold
    ERROR_TIMESTAMP,      \* the timestamp that stands for an error
    invalid_argument,     \* the exception of to_timestamp()
    uninitialized         \* a field nobody assigned

ASSUME UnitsAssumption ==
    /\ SEC_PER_MIN \in Nat \ {0}
    /\ MIN_PER_HOUR \in Nat \ {0}
    /\ HOURS_PER_DAY \in Nat \ {0}
    /\ MS_PER_SEC \in Nat \ {0}

\* The last era ends with MAX_YEAR: the backward counts start there.
ASSUME YearsAssumption ==
    /\ MIN_YEAR \in Int
    /\ MIN_YEAR <= 1
    /\ MAX_YEAR \in Nat
    /\ MAX_YEAR >= 2000
    /\ MAX_YEAR % 400 = 0

\* An exception is no number, the least timestamp no whole number of seconds, and
\* the timestamp of an error none that fits in milliseconds.
ASSUME RangeAssumption ==
    /\ invalid_argument \notin Int
    /\ INT64_MAX \in Nat
    /\ (INT64_MAX + 1) % MS_PER_SEC # 0
    /\ ERROR_TIMESTAMP \in Int
    /\ ERROR_TIMESTAMP > INT64_MAX \div MS_PER_SEC

SEC_PER_HOUR == SEC_PER_MIN * MIN_PER_HOUR
SEC_PER_DAY  == SEC_PER_HOUR * HOURS_PER_DAY
MIN_PER_DAY  == MIN_PER_HOUR * HOURS_PER_DAY
MS_PER_MIN   == MS_PER_SEC * SEC_PER_MIN
MS_PER_HOUR  == MS_PER_SEC * SEC_PER_HOUR
MS_PER_DAY   == MS_PER_SEC * SEC_PER_DAY

DAYS_PER_WEEK      == 7
DAYS_PER_YEAR      == 365
DAYS_PER_LEAP_YEAR == 366
MONTHS_PER_YEAR    == 12
UNIX_EPOCH         == 1970

SEC_PER_YEAR            == DAYS_PER_YEAR * SEC_PER_DAY
SEC_PER_LEAP_YEAR       == DAYS_PER_LEAP_YEAR * SEC_PER_DAY
SEC_PER_4_YEARS         == 1461 * SEC_PER_DAY
SEC_PER_100_YEARS       == 36524 * SEC_PER_DAY
SEC_PER_FIRST_100_YEARS == 36525 * SEC_PER_DAY
SEC_PER_400_YEARS       == 146097 * SEC_PER_DAY
BIAS_2000               == 10957 * SEC_PER_DAY
BIAS_2100               == 47482 * SEC_PER_DAY
BIAS_MAX_YEAR           == ((MAX_YEAR - 2000) \div 400) * SEC_PER_400_YEARS

\* enum Weekday and enum Month, the members the code compares with.
SUN == 0
THU == 4
SAT == 6
FEB == 2

DateTime(y, mo, d, h, mi, s, ms) ==
    [year |-> y, mon |-> mo, day |-> d, hour |-> h, min |-> mi, sec |-> s, ms |-> ms]
-----------------------------------------------------------------------------
(* detail/floor_math.hpp *)

\* Division rounded down, and the remainder in 0..b-1, out of the division of
\* C++, which rounds towards zero.
floor_div(a, b) == TruncDiv(a, b) - (IF TruncMod(a, b) # 0 /\ a < 0 THEN 1 ELSE 0)
floor_mod(a, b) == TruncMod(a, b) + (IF TruncMod(a, b) < 0 THEN b ELSE 0)

\* split_unix_day(): whole days, and the seconds of the day, by its own correction.
split_unix_day(ts) ==
    LET Corrected(days, sec) == IF sec < 0 THEN [days |-> days - 1, sec_of_day |-> sec + SEC_PER_DAY]
                                ELSE [days |-> days, sec_of_day |-> sec]
    IN  Corrected(TruncDiv(ts, SEC_PER_DAY), TruncMod(ts, SEC_PER_DAY))
-----------------------------------------------------------------------------
(* time_unit_conversions.hpp, for integers *)

ms_part(ts_ms)  == floor_mod(ts_ms, MS_PER_SEC)
sec_to_ms(ts)   == ts * MS_PER_SEC
ms_to_sec(ts)   == floor_div(ts, MS_PER_SEC)
min_to_ms(min)  == min * MS_PER_MIN
ms_to_min(ts)   == floor_div(ts, MS_PER_MIN)
min_to_sec(min) == min * SEC_PER_MIN
sec_to_min(ts)  == floor_div(ts, SEC_PER_MIN)
hour_to_ms(h)   == h * MS_PER_HOUR
ms_to_hour(ts)  == floor_div(ts, MS_PER_HOUR)
hour_to_sec(h)  == h * SEC_PER_HOUR
sec_to_hour(ts) == floor_div(ts, SEC_PER_HOUR)

hour24_to_12(hour) == IF hour = 0 \/ hour > 12 THEN 12 ELSE hour
-----------------------------------------------------------------------------
(* validation.hpp *)

\* Bit tests for multiples of 4 and of 16: a multiple of 25 must be one of 400.
is_leap_year_date(year) ==
    year % 4 = 0 /\ (TruncMod(year, 25) # 0 \/ year % 16 = 0)

num_days_in_year(year) ==
    IF is_leap_year_date(year) THEN DAYS_PER_LEAP_YEAR ELSE DAYS_PER_YEAR

\* Whole cycles are taken off the time left until MAX_YEAR. The last one, of
\* single years of 365 days, may go four times into what is left of a leap year.
BackwardYear(ts) ==
    LET Cycles(r, length, years) ==   \* r.secs in whole cycles of so many years
            [year |-> r.year - TruncDiv(r.secs, length) * years, secs |-> TruncMod(r.secs, length)]
        Begun(r) == [r EXCEPT !.year = IF r.secs = 0 THEN @ ELSE @ - 1]
        r400 == Cycles([year |-> MAX_YEAR, secs |-> BIAS_MAX_YEAR + BIAS_2000 - ts], SEC_PER_400_YEARS, 400)
    IN  Begun(Cycles(Cycles(Cycles(r400, SEC_PER_100_YEARS, 100), SEC_PER_4_YEARS, 4), SEC_PER_YEAR, 1))

is_leap_year_ts(ts) == is_leap_year_date(BackwardYear(ts).year)

num_days_in_year_ts(ts) ==
    IF is_leap_year_ts(ts) THEN DAYS_PER_LEAP_YEAR ELSE DAYS_PER_YEAR

is_valid_time_zone(hour, min) == hour \in 0..HOURS_PER_DAY-1 /\ min \in 0..MIN_PER_HOUR-1

is_valid_time(hour, min, sec, ms) ==
    /\ hour \in 0..HOURS_PER_DAY-1
    /\ min \in 0..MIN_PER_HOUR-1
    /\ sec \in 0..SEC_PER_MIN-1
    /\ ms \in 0..MS_PER_SEC-1

\* A first number that can be a day and a third that cannot are exchanged.
is_valid_date(year, month, day) ==
    LET Exists(y, d) ==
            /\ MIN_YEAR <= y /\ y <= MAX_YEAR
            /\ month \in 1..12
            /\ d \in 1..31
            /\ month = FEB => d <= (IF is_leap_year_date(y) THEN 29 ELSE 28)
            /\ month \in {4, 6, 9, 11} => d <= 30
        swap == day > 31 /\ year <= 31
    IN  Exists(IF swap THEN day ELSE year, IF swap THEN year ELSE day)

is_valid_date_time(y, mo, d, h, mi, s, ms) ==
    is_valid_date(y, mo, d) /\ is_valid_time(h, mi, s, ms)

\* Defective: days before 1970 leave a negative remainder.
IsDayOffByRemainder(unix_day) == TruncMod(unix_day + THU, DAYS_PER_WEEK) \in {SUN, SAT}

\* The timestamp is divided towards zero: before 1970 only the remainder is
\* corrected.
is_day_off_unix_day(unix_day) ==
    LET Corrected(wd) == IF wd < 0 THEN wd + DAYS_PER_WEEK ELSE wd
    IN  Corrected(TruncMod(unix_day + THU, DAYS_PER_WEEK)) \in {SUN, SAT}

is_day_off(ts) == is_day_off_unix_day(TruncDiv(ts, SEC_PER_DAY))
is_workday(ts) == ~is_day_off(ts)
is_workday_ms(ts_ms) == is_workday(TruncDiv(ts_ms, MS_PER_SEC))
-----------------------------------------------------------------------------
(* unix_time_conversions.hpp and date_conversions.hpp *)

date_to_unix_day(year, month, day) == fast_days_from_date(year, month, day)

\* legacy::date_to_unix_day() and is_workday() of a date: days before a month by
\* a formula instead of the table.
legacy_date_to_unix_day(year, month, day) ==
    LET m == IF month <= 2 THEN month + 9 ELSE month - 3
        doy == (153 * m + 2) \div 5 + day - 1
        InEra(era, yoe) == era * 146097 + yoe * 365 + yoe \div 4 - yoe \div 100 + doy - 719468
        From(y, era) == InEra(era, y - era * 400)
        Of(y) == From(y, TruncDiv(IF y >= 0 THEN y ELSE y - 399, 400))
    IN  Of(year - (IF month <= 2 THEN 1 ELSE 0))

is_workday_date(year, month, day) ==
    /\ is_valid_date(year, month, day)
    /\ ~is_day_off_unix_day(legacy_date_to_unix_day(year, month, day))

legacy_years_since_epoch(ts) == BackwardYear(ts).year - UNIX_EPOCH
years_since_epoch(ts) == fast_year_from_days(split_unix_day(ts).days) - UNIX_EPOCH
year_of(ts)           == years_since_epoch(ts) + UNIX_EPOCH
year_of_ms(ts_ms)     == year_of(ms_to_sec(ts_ms))

\* These divide and take remainders towards zero.
days_since_epoch(ts)       == TruncDiv(ts, SEC_PER_DAY)
days_since_epoch_ms(ts_ms) == days_since_epoch(ms_to_sec(ts_ms))
days_between(start, stop)  == TruncDiv(stop - start, SEC_PER_DAY)
min_since_epoch(ts)        == TruncDiv(ts, SEC_PER_MIN)
sec_of_day(ts)             == TruncMod(ts, SEC_PER_DAY)
sec_of_day_ms(ts_ms)       == sec_of_day(ms_to_sec(ts_ms))
sec_of_min(ts)             == TruncMod(ts, SEC_PER_MIN)
sec_of_hour(ts)            == TruncMod(ts, SEC_PER_HOUR)
sec_of_time(h, mi, s)      == h * SEC_PER_HOUR + mi * SEC_PER_MIN + s

unix_day_to_ts(d)                     == d * SEC_PER_DAY
unix_day_to_ts_ms(d)                  == d * MS_PER_DAY
end_of_day_from_unix_day(d)           == d * SEC_PER_DAY + SEC_PER_DAY - 1
end_of_day_from_unix_day_ms(d)        == d * MS_PER_DAY + MS_PER_DAY - 1
start_of_next_day_from_unix_day(d)    == d * SEC_PER_DAY + SEC_PER_DAY
start_of_next_day_from_unix_day_ms(d) == d * MS_PER_DAY + MS_PER_DAY

\* The weekday of a date by Zeller's count, biased to stay positive a long way back.
day_of_week_date(year, month, day) ==
    LET R(y, m) == 7000 + day + y + TruncDiv(y, 4) - TruncDiv(y, 100) + TruncDiv(y, 400)
                        + TruncDiv(31 * m, MONTHS_PER_YEAR)
        Of(a) == R(year - a, month + MONTHS_PER_YEAR * a - 2)
    IN  TruncMod(Of(TruncDiv(14 - month, MONTHS_PER_YEAR)), DAYS_PER_WEEK)
-----------------------------------------------------------------------------
(* date_time_conversions.hpp: timestamps and dates *)

\* A date and the second of its day.
OnDay(date, sec) ==
    DateTime(date.year, date.month, date.day, sec \div SEC_PER_HOUR,
             (sec % SEC_PER_HOUR) \div SEC_PER_MIN, sec % SEC_PER_MIN, 0)

to_date_time(ts) ==
    LET At(split) == OnDay(fast_date_from_days(split.days), split.sec_of_day)
    IN  At(split_unix_day(ts))

to_date_time_ms(ts_ms) == [to_date_time(ms_to_sec(ts_ms)) EXCEPT !.ms = ms_part(ts_ms)]

\* Days before each month, and the tables that give month and day of a day of a
\* common year, both counted from 0.
mos  == <<0, 31, 59, 90, 120, 151, 181, 212, 243, 273, 304, 334>>
lmos == <<0, 31, 60, 91, 121, 152, 182, 213, 244, 274, 305, 335>>
TABLE_MONTH_OF_YEAR(n) == Cardinality({m \in 1..12 : mos[m] <= n})
TABLE_DAY_OF_YEAR(n)   == n - mos[TABLE_MONTH_OF_YEAR(n)] + 1
DateByTables(year, n)  == Date(year, TABLE_MONTH_OF_YEAR(n), TABLE_DAY_OF_YEAR(n))

\* legacy::to_date_time(): the moment a year begins leaves the time of day as the
\* structure had it, unassigned.
legacy_to_date_time(ts) ==
    LET OnDayOf(year, leap, n) ==   \* the n-th day of the year, from 0
            IF leap /\ n = 59 THEN Date(year, FEB, TABLE_DAY_OF_YEAR(n - 1) + 1)
            ELSE DateByTables(year, IF leap /\ n > 59 THEN n - 1 ELSE n)
        Into(year, leap, secs) == OnDay(OnDayOf(year, leap, secs \div SEC_PER_DAY), secs % SEC_PER_DAY)
        From(year, leap, back) ==
            Into(year, leap, (IF leap THEN SEC_PER_LEAP_YEAR ELSE SEC_PER_YEAR) - back)
        Of(back) ==
            IF back.secs = 0
            THEN DateTime(back.year, 1, 1, uninitialized, uninitialized, uninitialized, uninitialized)
            ELSE From(back.year, is_leap_year_date(back.year), back.secs)
    IN  Of(BackwardYear(ts))

\* DD-MM-YYYY is recognised when the third number can only be a year.
IsReordered(year, day) == day >= UNIX_EPOCH /\ year <= 31

to_timestamp_unchecked(year, mo, day, h, mi, s) ==
    LET unix_day == IF IsReordered(year, day) THEN date_to_unix_day(day, mo, year)
                    ELSE date_to_unix_day(year, mo, day)
    IN  unix_day * SEC_PER_DAY + SEC_PER_HOUR * h + SEC_PER_MIN * mi + s

to_timestamp(year, mo, day, h, mi, s) ==
    LET Checked(y, d) == IF is_valid_date_time(y, mo, d, h, mi, s, 0)
                         THEN to_timestamp_unchecked(y, mo, d, h, mi, s)
                         ELSE invalid_argument
        swap == IsReordered(year, day)
    IN  Checked(IF swap THEN day ELSE year, IF swap THEN year ELSE day)

\* The legacy pair counts whole cycles back from MAX_YEAR.
legacy_to_timestamp_unchecked(year, mo, day, h, mi, s) ==
    LET Start(back, r400, r100) ==
            BIAS_MAX_YEAR - TruncDiv(back, 400) * SEC_PER_400_YEARS - TruncDiv(r400, 100) * SEC_PER_100_YEARS
              - TruncDiv(r100, 4) * SEC_PER_4_YEARS - TruncMod(r100, 4) * SEC_PER_YEAR + BIAS_2000
        Back(n) == Start(n, TruncMod(n, 400), TruncMod(TruncMod(n, 400), 100))
        doy(y, d) == (IF is_leap_year_date(y) THEN lmos[mo] ELSE mos[mo]) + d - 1
        On(y, d) == Back(MAX_YEAR - y) +
            (IF mo = 1 /\ d = 1 /\ h = 0 /\ mi = 0 /\ s = 0 THEN 0
             ELSE doy(y, d) * SEC_PER_DAY + SEC_PER_HOUR * h + SEC_PER_MIN * mi + s)
        swap == IsReordered(year, day)
    IN  On(IF swap THEN day ELSE year, IF swap THEN year ELSE day)

legacy_to_timestamp(year, mo, day, h, mi, s) ==
    IF (IF IsReordered(year, day) THEN is_valid_date_time(day, mo, year, h, mi, s, 0)
                                  ELSE is_valid_date_time(year, mo, day, h, mi, s, 0))
    THEN legacy_to_timestamp_unchecked(year, mo, day, h, mi, s)
    ELSE invalid_argument

dt_to_timestamp(dt) == to_timestamp(dt.year, dt.mon, dt.day, dt.hour, dt.min, dt.sec)

\* struct tm counts years from 1900 and months from 0.
tm_to_timestamp(tm) ==
    to_timestamp(tm.tm_year + 1900, tm.tm_mon + 1, tm.tm_mday, tm.tm_hour, tm.tm_min, tm.tm_sec)

\* Milliseconds outside a second are carried into the seconds first; a sum that
\* int64_t cannot hold becomes ERROR_TIMESTAMP.
WithMilliseconds(ts, ms) ==
    LET Sum(sec, part) ==
            IF \/ sec > 0 /\ sec > (INT64_MAX - part) \div MS_PER_SEC
               \/ sec < 0 /\ sec < TruncDiv(-INT64_MAX - 1, MS_PER_SEC)
            THEN ERROR_TIMESTAMP
            ELSE sec * MS_PER_SEC + part
    IN  IF ts = invalid_argument THEN invalid_argument
        ELSE Sum(ts + floor_div(ms, MS_PER_SEC), floor_mod(ms, MS_PER_SEC))

to_timestamp_ms(year, mo, day, h, mi, s, ms) ==
    WithMilliseconds(to_timestamp(year, mo, day, h, mi, s), ms)

dt_to_timestamp_ms(dt) == WithMilliseconds(dt_to_timestamp(dt), dt.ms)
=============================================================================
