------------------------------- MODULE IsoWeek -------------------------------
(* iso_week_conversions.hpp: ISO 8601 week dates; IsoWeekText has their      *)
(* text. A week belongs to the year its Thursday is in.                      *)
EXTENDS CalendarPeriods

IsoWeekDate(y, w, d) == [year |-> y, week |-> w, weekday |-> d]

iso_weekday_from_weekday(weekday) == ((weekday + DAYS_PER_WEEK - 1) % DAYS_PER_WEEK) + 1
iso_weekday_of_date(year, month, day) ==
    iso_weekday_from_weekday(day_of_week_date(year, month, day))

\* Defective: the week with 1 January is the first.
ThursdayOfJanuaryFirst(iso_year) ==
    date_to_unix_day(iso_year, 1, 1) + (4 - iso_weekday_of_date(iso_year, 1, 1))

\* The Thursday of the week with 4 January, which is always in week 1.
FirstThursday(iso_year) ==
    date_to_unix_day(iso_year, 1, 4) + (4 - iso_weekday_of_date(iso_year, 1, 4))

to_iso_week_date(year, month, day) ==
    LET InYear(iso_year, thursday, weekday) ==
            IsoWeekDate(iso_year, TruncDiv(thursday - FirstThursday(iso_year), DAYS_PER_WEEK) + 1, weekday)
        Around(thursday, weekday) ==
            InYear(to_date_time(unix_day_to_ts(thursday)).year, thursday, weekday)
        On(weekday) == Around(date_to_unix_day(year, month, day) + (4 - weekday), weekday)
    IN  On(iso_weekday_of_date(year, month, day))

dt_to_iso_week_date(dt) == to_iso_week_date(dt.year, dt.mon, dt.day)
ts_to_iso_week_date(ts) == dt_to_iso_week_date(to_date_time(ts))

\* 28 December is always in the last week.
iso_weeks_in_year(iso_year) == to_iso_week_date(iso_year, 12, 28).week

is_valid_iso_week_date(iso_year, week, weekday) ==
    /\ MIN_YEAR <= iso_year /\ iso_year <= MAX_YEAR
    /\ weekday \in 1..7
    /\ 1 <= week /\ week <= iso_weeks_in_year(iso_year)

iso_week_date_to_date(iso) ==
    IF ~is_valid_iso_week_date(iso.year, iso.week, iso.weekday) THEN invalid_argument
    ELSE LET day == FirstThursday(iso.year) + (iso.week - 1) * DAYS_PER_WEEK + (iso.weekday - 4)
             DateOnly(dt) == Date(dt.year, dt.mon, dt.day)
         IN  DateOnly(to_date_time(unix_day_to_ts(day)))
=============================================================================
