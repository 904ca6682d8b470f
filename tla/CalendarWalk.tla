---------------------------- MODULE CalendarWalk ----------------------------
(* The calendar functions on a walk through time: some days, one after the  *)
(* other, and some seconds of each. At every moment the walk asks what      *)
(* date, weekday and second of the day the library tells of it; what it is  *)
(* told is the wall calendar, CivilCalendar.                                *)
EXTENDS Workdays, IsoWeek

CONSTANTS
    Windows,      \* where walks begin (first), their last day and the seconds looked at
    LastYear      \* no walk goes further than the end of this year

VARIABLES
    now,          \* the moment, a timestamp
    window,       \* the last day to look at, and the seconds
    shown         \* what the library says of this moment

walk == <<now, window, shown>>

dt      == shown.dt
date    == Date(dt.year, dt.mon, dt.day)
weekday == shown.weekday
second  == sec_of_time(dt.hour, dt.min, dt.sec)

INSTANCE CivilCalendar WITH DayLength <- SEC_PER_DAY

DayOf(t) == DayNumber(t.year, t.month, t.day)

\* Years that an int32_t can hold, of those the library knows, and so can the one
\* after them, in which their last week may be.
ASSUME YearRangeAssumption ==
    /\ LastYear \in Int
    /\ LastYear < MAX_YEAR
    /\ LastYear <= 2147483646

ASSUME WindowsAssumption ==
    \A w \in Windows :
        /\ w.first \in [year : Int, month : 1..12, day : 1..31]
        /\ w.first.day <= MonthLength(w.first.year, w.first.month)
        /\ w.first.year >= MIN_YEAR /\ w.first.year >= -2147483647 /\ w.first.year <= LastYear
        /\ w.last \in Int /\ w.last < DayNumber(LastYear + 1, 1, 1)
        /\ w.moments \subseteq 0 .. SEC_PER_DAY - 1

\* The moment itself, without the library.
day       == now \div SEC_PER_DAY
timeOfDay == now % SEC_PER_DAY

Told(ts) == [dt |-> to_date_time(ts), weekday |-> weekday_of_ts(ts)]

WalkInit ==
    /\ window \in Windows
    /\ now = DayOf(window.first) * SEC_PER_DAY
    /\ shown = Told(now)

LaterToday ==
    \E m \in window.moments :
        /\ timeOfDay < m
        /\ \A k \in window.moments : k <= timeOfDay \/ m <= k
        /\ now' = day * SEC_PER_DAY + m
        /\ shown' = Told(now')
        /\ UNCHANGED window

LaterDay ==
    /\ \A m \in window.moments : m <= timeOfDay
    /\ day < window.last
    /\ now' = (day + 1) * SEC_PER_DAY
    /\ shown' = Told(start_of_next_day(now, 1))
    /\ UNCHANGED window

WalkNext == LaterToday \/ LaterDay
WalkSpec == WalkInit /\ [][WalkNext]_walk
-----------------------------------------------------------------------------
\* to_date_time() and weekday_of_ts() tell the days one after the other, and the
\* seconds of each from 0 on, as a calendar on the wall does.
CivilSpec == Spec

\* The moments on which the count of years back from MAX_YEAR is wrong by one: 1
\* January of a leap year once it has begun, when is_leap_year_ts() takes the year
\* for the one before.
NewYearOfLeap == IsLeap(date.year) /\ date.month = 1 /\ date.day = 1 /\ second > 0

\* 31 December of a leap year outside 1970..2099: start_of_year() returns that day.
EndOfFarLeap == IsLeap(date.year) /\ date.month = 12 /\ date.day = 31 /\ date.year \notin 1970..2099

\* The days on which the code goes wrong are kept out of the properties and
\* described in the README.
YearIsRight == ~NewYearOfLeap /\ ~EndOfFarLeap

\* day_of_week_date() divides the year towards zero, so that the weekdays of the
\* years before 1, and the weeks counted with them, are others.
WeekdayIsRight == dt.year > 0

\* All ways to one timestamp and from it agree with the wall calendar: the fast
\* functions, the legacy ones that count back from MAX_YEAR, the date turned
\* round (DD-MM-YYYY), struct tm, and the parts of the date by themselves.
CalendarAgrees ==
    LET y == dt.year  m == dt.mon  d == dt.day
        tm == [tm_year |-> y - 1900, tm_mon |-> m - 1, tm_mday |-> d,
               tm_hour |-> dt.hour, tm_min |-> dt.min, tm_sec |-> dt.sec]
    IN  /\ now = DayNumber(y, m, d) * SEC_PER_DAY + second
        /\ \A answer \in {to_timestamp(y, m, d, dt.hour, dt.min, dt.sec),
                      to_timestamp_unchecked(y, m, d, dt.hour, dt.min, dt.sec),
                      legacy_to_timestamp(y, m, d, dt.hour, dt.min, dt.sec),
                      tm_to_timestamp(tm)} : answer = now
        /\ y >= UNIX_EPOCH => /\ to_timestamp(d, m, y, dt.hour, dt.min, dt.sec) = now
                              /\ legacy_to_timestamp(d, m, y, dt.hour, dt.min, dt.sec) = now
        /\ date_to_unix_day(y, m, d) = day /\ legacy_date_to_unix_day(y, m, d) = day
        /\ WeekdayIsRight => day_of_week_date(y, m, d) = shown.weekday
        /\ year_of(now) = y
        /\ ~EndOfFarLeap => day_of_year(now) = DayOfYear(y, m, d)
        /\ ~NewYearOfLeap /\ second > 0 => legacy_to_date_time(now) = dt
        /\ ~NewYearOfLeap => legacy_years_since_epoch(now) = years_since_epoch(now)
        /\ YearIsRight => /\ month_of_year(now) = m
                          /\ day_of_month(now) = d
                          /\ num_days_in_month_ts(now) = num_days_in_month(y, m)
                          /\ num_days_in_year_ts(now) = YearLength(y)
        /\ now \notin -INT64_MAX \div MS_PER_SEC .. INT64_MAX \div MS_PER_SEC =>
             dt_to_timestamp_ms([dt EXCEPT !.ms = MS_PER_SEC - 1]) = ERROR_TIMESTAMP
        /\ now >= 0 => /\ days_since_epoch(now) = day /\ sec_of_day(now) = second
                       /\ min_since_epoch(now) = day * MIN_PER_DAY + min_of_day(now)
                       /\ sec_of_hour(now) = dt.min * SEC_PER_MIN + dt.sec /\ sec_of_min(now) = dt.sec
        /\ days_between(now, now + 40 * SEC_PER_DAY) = 40
        /\ hour_of_day(now) = dt.hour /\ min_of_hour(now) = dt.min
        /\ min_of_day(now) = dt.hour * MIN_PER_HOUR + dt.min
-----------------------------------------------------------------------------
(* The periods around the moment *)

\* A period that contains the moment and has so many seconds.
Surrounds(first, last, length) == first <= now /\ now <= last /\ last - first = length - 1

\* Minutes, periods of three of them, hours, days and weeks are around the moment,
\* as long as they should be, and the shorter ones begin at their multiples.
UnitsNest ==
    /\ Surrounds(start_of_min(now), end_of_min(now), SEC_PER_MIN)
    /\ Surrounds(start_of_period(3 * SEC_PER_MIN, now), end_of_period(3 * SEC_PER_MIN, now), 3 * SEC_PER_MIN)
    /\ Surrounds(start_of_hour(now), end_of_hour(now), SEC_PER_HOUR)
    /\ Surrounds(start_of_day(now), end_of_day(now), SEC_PER_DAY)
    /\ Surrounds(start_of_week(now), end_of_week(now), 7 * SEC_PER_DAY)
    /\ start_of_min(now) % SEC_PER_MIN = 0
    /\ start_of_period(3 * SEC_PER_MIN, now) % (3 * SEC_PER_MIN) = 0
    /\ start_of_hour(now) % SEC_PER_HOUR = 0

\* The day, its neighbours and its week, Sunday to Saturday.
DaysNest ==
    /\ start_of_day(now) = unix_day_to_ts(day)
    /\ end_of_day(now) = end_of_day_from_unix_day(day)
    /\ start_of_next_day(now, 1) = start_of_next_day_from_unix_day(day)
    /\ start_of_prev_day(now, 1) = unix_day_to_ts(day - 1)
    /\ split_unix_day(next_day(now, 1)) = [days |-> day + 1, sec_of_day |-> second]
    /\ start_of_week(now) = (day - shown.weekday) * SEC_PER_DAY
    /\ start_of_saturday(now) = (day - shown.weekday + 6) * SEC_PER_DAY

\* The year begins and ends, and so does the month, and its last Sunday is one,
\* where the wall calendar has them.
YearsNest ==
    LET year(y) == DayNumber(y, 1, 1) * SEC_PER_DAY
        month1  == DayNumber(dt.year, dt.mon, 1) * SEC_PER_DAY
        month2  == month1 + MonthLength(dt.year, dt.mon) * SEC_PER_DAY
    IN  /\ start_of_year_date(dt.year) = year(dt.year)
        /\ ~EndOfFarLeap => start_of_year(now) = year(dt.year)
        /\ YearIsRight => /\ end_of_year(now) = year(dt.year + 1) - 1
                          /\ start_of_month(now) = month1
                          /\ end_of_month(now) = month2 - 1
                          /\ WeekdayIsRight =>
                               last_sunday_of_month(now) =
                                 month1 + (last_sunday_month_day(dt.year, dt.mon) - 1) * SEC_PER_DAY
                          /\ weekday_of_ts(last_sunday_of_month(now)) = SUN
                          /\ last_sunday_of_month(now) + 7 * SEC_PER_DAY \in month2 .. month2 + 6 * SEC_PER_DAY

\* Milliseconds are followed as far as those of a year around them fit.
MsParts == {0, MS_PER_SEC \div 128, MS_PER_SEC - 1}
MsRange ==
    /\ now - SEC_PER_LEAP_YEAR >= -(INT64_MAX \div MS_PER_SEC)
    /\ now + SEC_PER_LEAP_YEAR <= INT64_MAX \div MS_PER_SEC

\* The periods in milliseconds are those in seconds.
MsPeriodsNest ==
    \A part \in MsParts :
        LET ms == sec_to_ms(now) + part
        IN  /\ ms_to_sec(ms) = now /\ ms_part(ms) = part
            /\ start_of_day_ms(ms) = sec_to_ms(start_of_day_sec(ms))
            /\ end_of_day_ms(ms) = sec_to_ms(end_of_day_sec(ms)) + MS_PER_SEC - 1
            /\ start_of_hour_ms(ms) = sec_to_ms(start_of_hour_sec(ms))
            /\ end_of_hour_ms(ms) = sec_to_ms(end_of_hour_sec(ms)) + MS_PER_SEC - 1
            /\ start_of_next_day_ms(ms, 1) = start_of_next_day_from_unix_day_ms(day)
            /\ start_of_day_ms(next_day_ms(ms, 1)) = unix_day_to_ts_ms(day + 1)
            /\ end_of_day_from_unix_day_ms(day) = end_of_day_ms(ms)
            /\ min_to_sec(ms_to_min(ms)) = start_of_min(now) /\ end_of_hour_sec(ms) = end_of_hour(now)
            /\ start_of_year_ms(ms) = sec_to_ms(start_of_year(now))
            /\ end_of_year_ms(ms) = sec_to_ms(end_of_year(now)) + MS_PER_SEC - 1
            /\ ms_to_min(ms) = sec_to_min(now) /\ ms_to_hour(ms) = sec_to_hour(now)
            /\ min_to_ms(ms_to_min(ms)) = sec_to_ms(start_of_min(now))
            /\ hour_to_ms(ms_to_hour(ms)) = sec_to_ms(hour_to_sec(sec_to_hour(now)))
            /\ year_of_ms(ms) = dt.year /\ weekday_of_ts_ms(ms) = shown.weekday
            /\ to_date_time_ms(ms) = [dt EXCEPT !.ms = part]
            /\ dt_to_timestamp_ms(to_date_time_ms(ms)) = ms
            /\ to_timestamp_ms(dt.year, dt.mon, dt.day, dt.hour, dt.min, dt.sec, part - MS_PER_SEC)
                 = ms - MS_PER_SEC
            /\ now >= 0 => days_since_epoch_ms(ms) = day /\ sec_of_day_ms(ms) = second

\* The periods around a moment are what their names say: each begins and ends
\* where the wall calendar begins and ends it, in seconds and in milliseconds.
PeriodsNest ==
    /\ UnitsNest
    /\ DaysNest
    /\ YearsNest
    /\ MsRange => MsPeriodsNest
-----------------------------------------------------------------------------
(* The workdays of the month *)

\* The days of the month from Monday to Friday.
Works(n) == WeekdayOf(DayNumber(dt.year, dt.mon, 1) + n - 1) \in 1..5
WorkdaysFrom(first, last) == {n \in first..last : Works(n)}

\* The functions of a date tell whether it is a workday, the how many-th of the
\* month, and the how many-th from its end.
DatesCounted(before, after, total) ==
    LET y == dt.year  m == dt.mon  d == dt.day
    IN  /\ is_workday_date(y, m, d) = Works(d)
        /\ count_workdays_in_month(y, m) = total
        /\ workday_index_in_month(y, m, d) = IF Works(d) THEN before ELSE 0
        /\ is_first_workday_of_month(y, m, d) <=> Works(d) /\ before = 1
        /\ is_last_workday_of_month(y, m, d) <=> Works(d) /\ after = 1
        /\ \A n \in {1, 3, total, total + 1} :
             /\ is_within_first_workdays_of_month(y, m, d, n) <=> Works(d) /\ before <= n /\ n <= total
             /\ is_within_last_workdays_of_month(y, m, d, n) <=> Works(d) /\ after <= n /\ n <= total

\* So do those of a timestamp, in seconds and in milliseconds.
MomentsCounted(before, after) ==
    LET d == dt.day
    IN  /\ is_workday(now) = Works(d)
        /\ now >= 0 => is_workday(end_of_day(now)) = Works(d)
        /\ ~EndOfFarLeap =>
             /\ is_first_workday_of_month_ts(now) <=> Works(d) /\ before = 1
             /\ is_last_workday_of_month_ts(now) <=> Works(d) /\ after = 1
             /\ is_within_first_workdays_of_month_ts(now, 3) <=> Works(d) /\ before <= 3
             /\ is_within_last_workdays_of_month_ts(now, 3) <=> Works(d) /\ after <= 3
        /\ MsRange /\ ~EndOfFarLeap =>
             /\ is_first_workday_of_month_ms(sec_to_ms(now)) <=> Works(d) /\ before = 1
             /\ is_last_workday_of_month_ms(sec_to_ms(now)) <=> Works(d) /\ after = 1
             /\ is_within_first_workdays_of_month_ms(sec_to_ms(now), 3) <=> Works(d) /\ before <= 3
             /\ is_within_last_workdays_of_month_ms(sec_to_ms(now), 3) <=> Works(d) /\ after <= 3

\* The timestamp begins the workday of the month that is the k-th.
StartsWorkday(ts, k) ==
    \E n \in 1 .. MonthLength(dt.year, dt.mon) :
        /\ Works(n) /\ Cardinality(WorkdaysFrom(1, n)) = k
        /\ ts = (DayNumber(dt.year, dt.mon, 1) + n - 1) * SEC_PER_DAY

\* The bounds of the first and of the last workday are theirs.
WorkdaysBounded(total) ==
    LET y == dt.year  m == dt.mon
    IN  /\ \E start \in {start_of_first_workday_month(y, m)} :
             /\ StartsWorkday(start, 1)
             /\ end_of_first_workday_month(y, m) = end_of_day(start)
             /\ MsRange => start_of_first_workday_month_ms(y, m) = sec_to_ms(start)
        /\ \E start \in {start_of_last_workday_month(y, m)} :
             /\ StartsWorkday(start, total)
             /\ end_of_last_workday_month(y, m) = end_of_day(start)
             /\ MsRange => end_of_last_workday_month_ms(y, m) = sec_to_ms(end_of_day(start)) + MS_PER_SEC - 1

\* The workdays of a month are its days from Monday to Friday; their numbers run
\* from 1 up to their count, from both ends, and the bounds of the first and the
\* last one are theirs.
WorkdaysCount == second = 0 =>
    LET length == MonthLength(dt.year, dt.mon)
    IN  \E before \in {Cardinality(WorkdaysFrom(1, dt.day))} :
        \E after  \in {Cardinality(WorkdaysFrom(dt.day, length))} :
        \E total  \in {Cardinality(WorkdaysFrom(1, length))} :
            /\ DatesCounted(before, after, total)
            /\ MomentsCounted(before, after)
            /\ WorkdaysBounded(total)
-----------------------------------------------------------------------------
(* Weeks *)

\* ISO week dates: the year and week of the Thursday, counted on the wall
\* calendar; and back to the date. The last week of a year is the 53rd if the year
\* begins or ends on a Thursday, and there is none after it.
IsoWeekAgrees == second = 0 /\ WeekdayIsRight =>
    \E iso \in {ts_to_iso_week_date(now)} :
        /\ iso.weekday = (IF shown.weekday = 0 THEN 7 ELSE shown.weekday)
        /\ \E thursday \in {to_date_time((day + 4 - iso.weekday) * SEC_PER_DAY)} :
             /\ iso.year = thursday.year
             /\ iso.week = (DayOfYear(thursday.year, thursday.mon, thursday.day) - 1) \div 7 + 1
        /\ iso_week_date_to_date(iso) = Date(dt.year, dt.mon, dt.day)
        /\ \E weeks \in {iso_weeks_in_year(iso.year)} :
             /\ weeks = IF WeekdayOf(DayNumber(iso.year, 1, 1)) = 4 \/ WeekdayOf(DayNumber(iso.year, 12, 31)) = 4
                         THEN 53 ELSE 52
             /\ iso_week_date_to_date([iso EXCEPT !.week = weeks + 1]) = invalid_argument
=============================================================================
