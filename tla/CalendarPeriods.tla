-------------------------- MODULE CalendarPeriods --------------------------
(* date_time_conversions.hpp: the first and the last second of the periods a *)
(* timestamp lies in, and where in them it lies.                             *)
EXTENDS Calendar

start_of_day(ts)             == ts - floor_mod(ts, SEC_PER_DAY)
start_of_prev_day(ts, days)  == ts - floor_mod(ts, SEC_PER_DAY) - SEC_PER_DAY * days
start_of_day_sec(ts_ms)      == start_of_day(ms_to_sec(ts_ms))
start_of_day_ms(ts_ms)       == ts_ms - floor_mod(ts_ms, MS_PER_DAY)
start_of_next_day(ts, days)  == start_of_day(ts) + days * SEC_PER_DAY
start_of_next_day_ms(ts_ms, days) == start_of_day_ms(ts_ms) + days * MS_PER_DAY
next_day(ts, days)           == ts + days * SEC_PER_DAY
next_day_ms(ts_ms, days)     == ts_ms + days * MS_PER_DAY
end_of_day(ts)               == ts - floor_mod(ts, SEC_PER_DAY) + SEC_PER_DAY - 1
end_of_day_sec(ts_ms)        == end_of_day(ms_to_sec(ts_ms))
end_of_day_ms(ts_ms)         == ts_ms - floor_mod(ts_ms, MS_PER_DAY) + MS_PER_DAY - 1

start_of_year_date(year) == start_of_day(to_timestamp(year, 1, 1, 0, 0, 0))

\* Between 1970 and 2100 every fourth year is a leap year, the third of each four.
RecentYearStart(ts) ==
    LET From(into) == ts - into +
          (CASE into < SEC_PER_YEAR                           -> 0
             [] into >= SEC_PER_YEAR /\ into < 2 * SEC_PER_YEAR -> SEC_PER_YEAR
             [] into >= 2 * SEC_PER_YEAR /\ into < 2 * SEC_PER_YEAR + SEC_PER_LEAP_YEAR
                                                              -> 2 * SEC_PER_YEAR
             [] OTHER                      -> 2 * SEC_PER_YEAR + SEC_PER_LEAP_YEAR)
    IN  From(floor_mod(ts, SEC_PER_4_YEARS))

\* Defective: every century begins with a leap year.
YearStartBySimpleCycles(ts) ==
    LET From(into4) ==
            IF into4 >= SEC_PER_LEAP_YEAR THEN ts - floor_mod(into4 - SEC_PER_LEAP_YEAR, SEC_PER_YEAR)
            ELSE ts - into4
    IN  From(floor_mod(floor_mod(ts - BIAS_2000, SEC_PER_400_YEARS), SEC_PER_4_YEARS))

\* Any other year: the first century of 400 years begins with a leap year, the
\* other three with four common years.
CenturyYearStart(ts) ==
    LET InCycle(into4) ==      \* a leap year and three common ones
            ts - floor_mod(into4 - (IF into4 >= SEC_PER_LEAP_YEAR THEN SEC_PER_LEAP_YEAR ELSE 0), SEC_PER_YEAR)
        InLaterCentury(into) ==
            IF into < 4 * SEC_PER_YEAR THEN ts - floor_mod(into, SEC_PER_YEAR)
            ELSE InCycle(floor_mod(into - 4 * SEC_PER_YEAR, SEC_PER_4_YEARS))
        InEra(into400) ==
            IF into400 < SEC_PER_FIRST_100_YEARS THEN InCycle(floor_mod(into400, SEC_PER_4_YEARS))
            ELSE InLaterCentury((into400 - SEC_PER_FIRST_100_YEARS) % SEC_PER_100_YEARS)
    IN  InEra(floor_mod(ts - BIAS_2000, SEC_PER_400_YEARS))

start_of_year(ts) ==
    IF ts >= 0 /\ ts < BIAS_2100 THEN RecentYearStart(ts) ELSE CenturyYearStart(ts)

start_of_year_ms(ts_ms) == sec_to_ms(start_of_year(ms_to_sec(ts_ms)))
end_of_year(ts)         == start_of_year(ts) + num_days_in_year_ts(ts) * SEC_PER_DAY - 1
end_of_year_ms(ts_ms)   == sec_to_ms(end_of_year(ms_to_sec(ts_ms))) + (MS_PER_SEC - 1)

day_of_year(ts) == TruncDiv(ts - start_of_year(ts), SEC_PER_DAY) + 1

\* The tables of a common year, here counted from 1: from the 60th day of a leap
\* year on they are read one day earlier.
month_of_year(ts) ==
    LET Of(leap, dy) == TABLE_MONTH_OF_YEAR((IF leap /\ dy >= 60 THEN dy - 1 ELSE dy) - 1)
    IN  Of(is_leap_year_ts(ts), day_of_year(ts))

day_of_month(ts) ==
    LET Of(leap, dy) ==
            CASE leap /\ dy = 60 -> TABLE_DAY_OF_YEAR(dy - 2) + 1
              [] leap /\ dy > 60 -> TABLE_DAY_OF_YEAR(dy - 2)
              [] OTHER           -> TABLE_DAY_OF_YEAR(dy - 1)
    IN  Of(is_leap_year_ts(ts), day_of_year(ts))

\* The table of num_days_in_month() is indexed from 0, its entry for February unused.
num_days_in_month(year, month) ==
    CASE month > MONTHS_PER_YEAR \/ month < 0 -> 0
      [] month = 0 -> 0
      [] month = FEB -> IF is_leap_year_date(year) THEN 29 ELSE 28
      [] OTHER -> <<31, 30, 31, 30, 31, 30, 31, 31, 30, 31, 30, 31>>[month]

num_days_in_month_ts(ts) ==
    LET Of(month) == IF month = FEB THEN (IF is_leap_year_ts(ts) THEN 29 ELSE 28)
                     ELSE <<31, 28, 31, 30, 31, 30, 31, 31, 30, 31, 30, 31>>[month]
    IN  Of(month_of_year(ts))

weekday_of_ts(ts)        == floor_mod(floor_div(ts, SEC_PER_DAY) + THU, DAYS_PER_WEEK)
weekday_of_ts_ms(ts_ms)  == weekday_of_ts(ms_to_sec(ts_ms))

start_of_month(ts) == start_of_day(ts) - (day_of_month(ts) - 1) * SEC_PER_DAY
end_of_month(ts)   == end_of_day(ts) + (num_days_in_month_ts(ts) - day_of_month(ts)) * SEC_PER_DAY

last_sunday_of_month(ts) ==
    LET From(end) == start_of_day(end) - weekday_of_ts(end) * SEC_PER_DAY
    IN  From(end_of_month(ts))

last_sunday_month_day(year, month) ==
    LET From(days) == days - day_of_week_date(year, month, days)
    IN  From(num_days_in_month(year, month))

\* The week begins on Sunday.
start_of_week(ts)     == start_of_day(ts) - weekday_of_ts(ts) * SEC_PER_DAY
end_of_week(ts)       == start_of_day(ts) + (DAYS_PER_WEEK - weekday_of_ts(ts)) * SEC_PER_DAY - 1
start_of_saturday(ts) == start_of_day(ts) + (SAT - weekday_of_ts(ts)) * SEC_PER_DAY

start_of_hour(ts)        == ts - floor_mod(ts, SEC_PER_HOUR)
start_of_hour_sec(ts_ms) == start_of_hour(ms_to_sec(ts_ms))
start_of_hour_ms(ts_ms)  == ts_ms - floor_mod(ts_ms, MS_PER_HOUR)
end_of_hour(ts)          == ts - floor_mod(ts, SEC_PER_HOUR) + SEC_PER_HOUR - 1
end_of_hour_sec(ts_ms)   == end_of_hour(ms_to_sec(ts_ms))
end_of_hour_ms(ts_ms)    == ts_ms - floor_mod(ts_ms, MS_PER_HOUR) + MS_PER_HOUR - 1
start_of_min(ts)         == ts - floor_mod(ts, SEC_PER_MIN)
end_of_min(ts)           == ts - floor_mod(ts, SEC_PER_MIN) + SEC_PER_MIN - 1

min_of_day(ts)  == floor_mod(floor_div(ts, SEC_PER_MIN), MIN_PER_DAY)
hour_of_day(ts) == floor_mod(floor_div(ts, SEC_PER_HOUR), HOURS_PER_DAY)
min_of_hour(ts) == floor_mod(floor_div(ts, SEC_PER_MIN), MIN_PER_HOUR)

start_of_period(p, ts) == IF p <= 0 THEN ERROR_TIMESTAMP ELSE ts - floor_mod(ts, p)
end_of_period(p, ts)   == IF p <= 0 THEN ERROR_TIMESTAMP ELSE ts - floor_mod(ts, p) + p - 1
=============================================================================
