------------------------------ MODULE Workdays ------------------------------
(* workday_conversions.hpp: the first, the last and the n-th workday of a    *)
(* month, Monday to Friday.                                                  *)
EXTENDS CalendarPeriods, FiniteSetsExt

\* The days the loops over a month stop at.
WorkdaysOf(year, month) ==
    {d \in 1 .. num_days_in_month(year, month) : is_workday_date(year, month, d)}

first_workday_day(year, month) ==
    LET Of(days) == IF days = {} THEN 0 ELSE Min(days) IN Of(WorkdaysOf(year, month))
last_workday_day(year, month) ==
    LET Of(days) == IF days = {} THEN 0 ELSE Max(days) IN Of(WorkdaysOf(year, month))

count_workdays_in_month(year, month) == Cardinality(WorkdaysOf(year, month))

\* 0 for a day that is no workday.
workday_index_in_month(year, month, day) ==
    LET Of(days) == IF day \in days THEN Cardinality({d \in days : d <= day}) ELSE 0
    IN  IF is_workday_date(year, month, day) THEN Of(WorkdaysOf(year, month)) ELSE 0

is_first_workday_of_month(year, month, day) ==
    is_workday_date(year, month, day) /\ first_workday_day(year, month) = day
is_last_workday_of_month(year, month, day) ==
    is_workday_date(year, month, day) /\ last_workday_day(year, month) = day

\* A count above the workdays of the month matches no day.
is_within_first_workdays_of_month(year, month, day, count) ==
    /\ count \in 1 .. count_workdays_in_month(year, month)
    /\ workday_index_in_month(year, month, day) \in 1..count
is_within_last_workdays_of_month(year, month, day, count) ==
    LET Of(total, index) ==
            /\ count \in 1..total
            /\ index > 0
            /\ index >= total - count + 1
    IN  Of(count_workdays_in_month(year, month), workday_index_in_month(year, month, day))

\* The overloads for a timestamp, and for one in milliseconds, which ask
\* is_workday_ms() first.
is_first_workday_of_month_ts(ts) ==
    is_first_workday_of_month(year_of(ts), month_of_year(ts), day_of_month(ts))
is_last_workday_of_month_ts(ts) ==
    is_last_workday_of_month(year_of(ts), month_of_year(ts), day_of_month(ts))
is_within_first_workdays_of_month_ts(ts, count) ==
    is_within_first_workdays_of_month(year_of(ts), month_of_year(ts), day_of_month(ts), count)
is_within_last_workdays_of_month_ts(ts, count) ==
    is_within_last_workdays_of_month(year_of(ts), month_of_year(ts), day_of_month(ts), count)

is_first_workday_of_month_ms(ts_ms) ==
    is_workday_ms(ts_ms) /\ is_first_workday_of_month_ts(ms_to_sec(ts_ms))
is_last_workday_of_month_ms(ts_ms) ==
    is_workday_ms(ts_ms) /\ is_last_workday_of_month_ts(ms_to_sec(ts_ms))
is_within_first_workdays_of_month_ms(ts_ms, count) ==
    is_workday_ms(ts_ms) /\ is_within_first_workdays_of_month_ts(ms_to_sec(ts_ms), count)
is_within_last_workdays_of_month_ms(ts_ms, count) ==
    is_workday_ms(ts_ms) /\ is_within_last_workdays_of_month_ts(ms_to_sec(ts_ms), count)

\* Of a day of a month, 0 if there is none, with its bounds.
StartOfDayIn(year, month, day) ==
    IF day <= 0 THEN ERROR_TIMESTAMP ELSE to_timestamp(year, month, day, 0, 0, 0)
EndOfDayIn(year, month, day) ==
    IF day <= 0 THEN ERROR_TIMESTAMP ELSE end_of_day(to_timestamp(year, month, day, 0, 0, 0))

start_of_first_workday_month(year, month) == StartOfDayIn(year, month, first_workday_day(year, month))
end_of_first_workday_month(year, month)   == EndOfDayIn(year, month, first_workday_day(year, month))
start_of_last_workday_month(year, month)  == StartOfDayIn(year, month, last_workday_day(year, month))
end_of_last_workday_month(year, month)    == EndOfDayIn(year, month, last_workday_day(year, month))

\* In milliseconds the error value is passed on as it is.
InMs(ts) == IF ts = ERROR_TIMESTAMP THEN ERROR_TIMESTAMP ELSE sec_to_ms(ts)
start_of_first_workday_month_ms(year, month) == InMs(start_of_first_workday_month(year, month))
start_of_last_workday_month_ms(year, month)  == InMs(start_of_last_workday_month(year, month))
LastMsOf(ts) == IF ts = ERROR_TIMESTAMP THEN ERROR_TIMESTAMP ELSE end_of_day_ms(sec_to_ms(ts))
end_of_first_workday_month_ms(year, month)   == LastMsOf(start_of_first_workday_month(year, month))
end_of_last_workday_month_ms(year, month)    == LastMsOf(start_of_last_workday_month(year, month))
=============================================================================
