----------------------------- MODULE DateTimes -----------------------------
(* DateTime.hpp and ZonedClock.hpp: a moment in milliseconds of UTC with the *)
(* fixed offset of the clock that shows it, and the clock that knows which   *)
(* offset its zone has at a moment. Members of the classes that would have   *)
(* the name of a free function are called local_... or zoned_... here. What  *)
(* time it is, from the system or from NTP, is the caller's.                 *)
EXTENDS TimeParser

\* The private constructor, from_unix_ms() and from_unix_s(). They take any offset.
from_unix_ms(utc_ms, offset) == [utc_ms |-> utc_ms, offset |-> offset]
from_unix_s(utc_s, offset)   == from_unix_ms(sec_to_ms(utc_s), offset)

local_ms(t) == t.utc_ms + sec_to_ms(t.offset)

\* Defective: the time on the clock is taken for UTC.
AsIfUtc(ms, offset) == from_unix_ms(ms, offset)

\* The moment at which a clock with the offset shows a time. ERROR_TIMESTAMP is
\* taken for a time; the exception of to_timestamp() is passed on.
FromLocal(ms, offset) ==
    IF ms = invalid_argument THEN invalid_argument ELSE from_unix_ms(ms - sec_to_ms(offset), offset)
-----------------------------------------------------------------------------
(* From fields and to them. The functions named try_ say NoMatch. *)

from_components(y, mo, d, h, mi, s, ms, offset) == FromLocal(to_timestamp_ms(y, mo, d, h, mi, s, ms), offset)

try_from_components(y, mo, d, h, mi, s, ms, offset) ==
    IF is_valid_date_time(y, mo, d, h, mi, s, ms) /\ is_valid_tz_offset(offset)
    THEN from_components(y, mo, d, h, mi, s, ms, offset) ELSE NoMatch

from_date_time_struct(dt, offset) == FromLocal(dt_to_timestamp_ms(dt), offset)

try_from_date_time_struct(dt, offset) ==
    IF is_valid_date_time(dt.year, dt.mon, dt.day, dt.hour, dt.min, dt.sec, dt.ms) /\ is_valid_tz_offset(offset)
    THEN from_date_time_struct(dt, offset) ELSE NoMatch

to_date_time_struct_local(t) == to_date_time_ms(local_ms(t))
to_date_time_struct_utc(t)   == to_date_time_ms(t.utc_ms)

from_iso_week_date(iso, h, mi, s, ms, offset) ==
    LET On(date) == IF date = invalid_argument THEN invalid_argument
                    ELSE from_components(date.year, date.month, date.day, h, mi, s, ms, offset)
    IN  On(iso_week_date_to_date(iso))

local_weekday(t)       == Weekday(to_date_time_struct_local(t))
local_iso_weekday(t)   == iso_weekday_from_weekday(local_weekday(t))
local_iso_week_date(t) == dt_to_iso_week_date(to_date_time_struct_local(t))
utc_weekday(t)         == Weekday(to_date_time_struct_utc(t))
utc_iso_weekday(t)     == iso_weekday_from_weekday(utc_weekday(t))
utc_iso_week_date(t)   == dt_to_iso_week_date(to_date_time_struct_utc(t))

\* One of the four asks for the date, the others divide the timestamp towards zero.
local_is_workday(t) == is_workday_ms(local_ms(t))
local_is_weekend(t) == is_day_off(ms_to_sec(local_ms(t)))
utc_is_workday(t)   ==
    LET On(dt) == is_workday_date(dt.year, dt.mon, dt.day) IN On(to_date_time_struct_utc(t))
utc_is_weekend(t)   == is_day_off(ms_to_sec(t.utc_ms))
-----------------------------------------------------------------------------
(* Texts *)

try_parse_iso8601(text) ==
    LET Of(dt, offset) == IF is_valid_tz_offset(offset) THEN FromLocal(dt_to_timestamp_ms(dt), offset) ELSE NoMatch
        Given(r) == IF r = NotParsed THEN NoMatch ELSE Of(r.dt, time_zone_struct_to_offset(r.tz))
    IN  Given(parse_iso8601(text))

zoned_parse_iso8601(text) ==
    LET Thrown(t) == IF t = NoMatch THEN invalid_argument ELSE t IN Thrown(try_parse_iso8601(text))

zoned_to_iso8601(t)        == to_iso8601_local_ms(t.utc_ms, t.offset)
zoned_to_iso8601_utc(t)    == to_iso8601_utc_ms(t.utc_ms)
zoned_to_mql5_date_time(t) == to_mql5_date_time(ms_to_sec(local_ms(t)))
zoned_format(t, format)    == to_string_ms(format, t.utc_ms, t.offset)
-----------------------------------------------------------------------------
(* Comparing and moving *)

SameInstant(t, u) == t.utc_ms = u.utc_ms
IsBefore(t, u)    == t.utc_ms < u.utc_ms
same_local(t, u)  == local_ms(t) = local_ms(u) /\ t.offset = u.offset
diff_ms(t, u)     == t.utc_ms - u.utc_ms

add_ms(t, ms)           == [t EXCEPT !.utc_ms = @ + ms]
add_seconds(t, seconds) == add_ms(t, sec_to_ms(seconds))
add_minutes(t, minutes) == add_ms(t, sec_to_ms(minutes * SEC_PER_MIN))
add_hours(t, hours)     == add_ms(t, sec_to_ms(hours * SEC_PER_HOUR))
add_days(t, days)       == add_ms(t, days * MS_PER_DAY)

with_offset(t, new_offset) == [t EXCEPT !.offset = new_offset]
zoned_to_utc(t)            == with_offset(t, 0)
-----------------------------------------------------------------------------
(* Periods. 23:59:59.999 is the last millisecond of the day's units. *)

FirstMs(y, mo, d) == to_timestamp_ms(y, mo, d, 0, 0, 0, 0)
LastMs(y, mo, d)  ==
    to_timestamp_ms(y, mo, d, HOURS_PER_DAY - 1, MIN_PER_HOUR - 1, SEC_PER_MIN - 1, MS_PER_SEC - 1)

DayStart(dt)   == FirstMs(dt.year, dt.mon, dt.day)
DayEnd(dt)     == LastMs(dt.year, dt.mon, dt.day)
MonthStart(dt) == FirstMs(dt.year, dt.mon, 1)
MonthEnd(dt)   == LastMs(dt.year, dt.mon, num_days_in_month(dt.year, dt.mon))
YearStart(dt)  == FirstMs(dt.year, 1, 1)
YearEnd(dt)    == LastMs(dt.year, 12, 31)

start_of_local_day(t)   == FromLocal(DayStart(to_date_time_struct_local(t)), t.offset)
end_of_local_day(t)     == FromLocal(DayEnd(to_date_time_struct_local(t)), t.offset)
start_of_local_month(t) == FromLocal(MonthStart(to_date_time_struct_local(t)), t.offset)
end_of_local_month(t)   == FromLocal(MonthEnd(to_date_time_struct_local(t)), t.offset)
start_of_local_year(t)  == FromLocal(YearStart(to_date_time_struct_local(t)), t.offset)
end_of_local_year(t)    == FromLocal(YearEnd(to_date_time_struct_local(t)), t.offset)

start_of_utc_day(t)     == from_unix_ms(DayStart(to_date_time_struct_utc(t)), t.offset)
end_of_utc_day(t)       == from_unix_ms(DayEnd(to_date_time_struct_utc(t)), t.offset)
start_of_utc_month(t)   == from_unix_ms(MonthStart(to_date_time_struct_utc(t)), t.offset)
end_of_utc_month(t)     == from_unix_ms(MonthEnd(to_date_time_struct_utc(t)), t.offset)
start_of_utc_year(t)    == from_unix_ms(YearStart(to_date_time_struct_utc(t)), t.offset)
end_of_utc_year(t)      == from_unix_ms(YearEnd(to_date_time_struct_utc(t)), t.offset)
-----------------------------------------------------------------------------
(* ZonedClock: a named zone or a fixed offset *)

NamedClock(zone)   == [zone |-> zone, offset |-> 0, is_named_zone |-> TRUE]
FixedClock(offset) == [zone |-> "UNKNOWN", offset |-> offset, is_named_zone |-> FALSE]

set_zone(zone) == IF zone = "UNKNOWN" THEN FixedClock(0) ELSE NamedClock(zone)

\* The clock after a call that may refuse: then it is as it was.
try_set_offset(clock, offset) == IF is_valid_tz_offset(offset) THEN FixedClock(offset) ELSE clock

\* No text at all is refused, though parse_time_zone() takes it for UTC.
try_set_zone(clock, text) ==
    LET Numeric(tz)  == IF tz = NoMatch THEN clock ELSE try_set_offset(clock, time_zone_struct_to_offset(tz))
        Named(zone, trimmed) == IF zone # "UNKNOWN" THEN set_zone(zone) ELSE Numeric(parse_time_zone(trimmed))
        Of(trimmed)  == IF trimmed = <<>> THEN clock ELSE Named(parse_time_zone_name(trimmed), trimmed)
    IN  Of(Trimmed(text))

offset_at_utc_ms(clock, utc_ms) ==
    LET Of(local) == IF local = ERROR_TIMESTAMP THEN 0 ELSE TruncDiv(local - utc_ms, MS_PER_SEC)
    IN  IF clock.is_named_zone THEN Of(gmt_to_zone_ms(utc_ms, clock.zone)) ELSE clock.offset

from_utc_ms(clock, utc_ms) == from_unix_ms(utc_ms, offset_at_utc_ms(clock, utc_ms))
from_utc_s(clock, utc_s)   == from_utc_ms(clock, sec_to_ms(utc_s))
=============================================================================
