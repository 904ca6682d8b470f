--------------------------- MODULE TimeFormatting ---------------------------
(* time_formatting.hpp: timestamps as text, by a format like that of         *)
(* strftime() in which a repeated letter is a command of its own (%MM is     *)
(* not %M), and in fixed forms.                                              *)
EXTENDS IsoWeekText, TimeZones
LOCAL INSTANCE SequencesExt

WeekdayShort == <<"Sun", "Mon", "Tue", "Wed", "Thu", "Fri", "Sat">>
WeekdayFull  == <<"Sunday", "Monday", "Tuesday", "Wednesday", "Thursday", "Friday", "Saturday">>
WeekdayUpper == <<"SUN", "MON", "TUE", "WED", "THU", "FRI", "SAT">>
MonthShort   == <<"Jan", "Feb", "Mar", "Apr", "May", "Jun",
                  "Jul", "Aug", "Sep", "Oct", "Nov", "Dec">>
MonthFull    == <<"January", "February", "March", "April", "May", "June", "July", "August",
                  "September", "October", "November", "December">>
MonthUpper   == <<"JAN", "FEB", "MAR", "APR", "MAY", "JUN",
                  "JUL", "AUG", "SEP", "OCT", "NOV", "DEC">>

Literal(c)    == [literal |-> c]
Command(c, n) == [command |-> c, repeat |-> n]

\* What the loops over a format see: a percent sign and a run of one letter are a
\* command, two percent signs and everything else are literal. A percent sign
\* at the end is dropped.
Tokens(format) ==
    LET from[i \in 1 .. Len(format) + 2] ==
          CASE i > Len(format) -> <<>>
            [] i <= Len(format) /\ format[i] # "%" -> <<Literal(format[i])>> \o from[i + 1]
            [] i = Len(format) /\ format[i] = "%" -> <<>>
            [] i < Len(format) /\ format[i] = "%" /\ format[i + 1] = "%" ->
                   <<Literal("%")>> \o from[i + 2]
            [] OTHER ->
                   LET n == RunLength(format, i + 1, {format[i + 1]})
                   IN  <<Command(format[i + 1], n)>> \o from[i + 1 + n]
    IN  from[1]

Mark(c)       == Chars(<<c>>)
Clock(h, dt)  == <<Num(h, 2), Mark(":"), Num(dt.min, 2), Mark(":"), Num(dt.sec, 2)>>
DayBy(dt, c)  == <<Num(dt.year, 1), Mark(c), Num(dt.mon, 2), Mark(c), Num(dt.day, 2)>>
Weekday(dt)   == day_of_week_date(dt.year, dt.mon, dt.day)

\* process_format_impl(), its commands in the order of the switch, with the weekday,
\* the hour of twelve and the week of the date where they ask for them. A command
\* with another number of repetitions writes nothing.
NameOrHour(c, n, dt, weekday, hour12) ==
    CASE c = "a" /\ n = 1 -> <<Mark(WeekdayShort[weekday + 1])>>
      [] c = "A" /\ n = 1 -> <<Mark(WeekdayFull[weekday + 1])>>
      [] c = "I" /\ n = 1 -> <<Num(hour12, 2)>>
      [] \/ c = "H" /\ n <= 2
         \/ c = "h" /\ n = 2 -> <<Num(dt.hour, 2)>>
      [] c \in {"h", "b"} /\ n = 1 -> <<Mark(MonthShort[dt.mon])>>
      [] c = "B" /\ n = 1 -> <<Mark(MonthFull[dt.mon])>>
      [] OTHER -> <<>>

\* A negative year in %F gets two signs.
FullDate(dt) ==
    LET year == CASE dt.year \in 0..9999 -> <<Num(dt.year, 4)>>
                  [] dt.year < 0         -> <<Mark("-"), Num(dt.year, 1)>>
                  [] dt.year > 9999      -> <<Mark("+"), Num(dt.year, 1)>>
    IN  year \o <<Mark("-"), Num(dt.mon, 2), Mark("-"), Num(dt.day, 2)>>

\* %j asks for the day of the timestamp, not of the local date.
DayText(c, n, ts, dt, weekday) ==
    CASE c = "c" /\ n = 1 -> <<Mark(WeekdayShort[weekday + 1]), Mark(" "), Mark(MonthShort[dt.mon]), Mark(" "),
                               SpacedNum(dt.day), Mark(" ")>>
                               \o Clock(dt.hour, dt) \o <<Mark(" "), Num(dt.year, 1)>>
      [] c = "C" /\ n = 1 -> <<Num(TruncDiv(dt.year, 100), 1)>>
      [] \/ c = "d" /\ n = 1
         \/ c = "D" /\ n = 2 -> <<Num(dt.day, 2)>>
      [] c = "D" /\ n = 1 -> <<Num(dt.mon, 2), Mark("/"), Num(dt.day, 2), Mark("/"),
                               Num(TruncMod(dt.year, 100), 2)>>
      [] c = "e" /\ n = 1 -> <<SpacedNum(dt.day)>>
      [] c = "F" /\ n = 1 -> FullDate(dt)
      [] c = "j" /\ n = 1 -> <<Num(day_of_year(ts), 3)>>
      [] OTHER -> <<>>

\* %p and %n ignore how often they are repeated; %ss is %S, %sss the milliseconds.
TimeText(c, n, ts, dt, hour12) ==
    CASE c = "k" /\ n = 1 -> <<SpacedNum(dt.hour)>>
      [] c = "l" /\ n = 1 -> <<SpacedNum(hour12)>>
      [] \/ c = "m" /\ n = 1
         \/ c = "M" /\ n = 2 -> <<Num(dt.mon, 2)>>
      [] \/ c = "m" /\ n = 2
         \/ c = "M" /\ n = 1 -> <<Num(dt.min, 2)>>
      [] c = "M" /\ n = 3 -> <<Mark(MonthUpper[dt.mon])>>
      [] c = "n"          -> <<Mark("\n")>>
      [] c = "p"          -> <<Mark(IF dt.hour < 12 THEN "AM" ELSE "PM")>>
      [] c = "P"          -> <<Mark(IF dt.hour < 12 THEN "am" ELSE "pm")>>
      [] c = "r" /\ n = 1 -> Clock(hour12, dt) \o <<Mark(" "), Mark(IF dt.hour < 12 THEN "AM" ELSE "PM")>>
      [] c = "R" /\ n = 1 -> <<Num(dt.hour, 2), Mark(":"), Num(dt.min, 2)>>
      [] c = "s" /\ n = 1 -> <<Num(ts, 1)>>
      [] c \in {"s", "S"} /\ n = 3 -> <<Num(dt.ms, 1)>>
      [] \/ c = "s" /\ n = 2
         \/ c = "S" /\ n <= 2 -> <<Num(dt.sec, 2)>>
      [] c = "t" /\ n = 1 -> <<Mark("\t")>>
      [] c = "T" /\ n = 1 -> Clock(dt.hour, dt)
      [] OTHER -> <<>>

WeekText(c, n, weekday, iso) ==
    CASE c = "g" /\ n = 1 -> <<Num(Abs(TruncMod(iso.year, 100)), 2)>>
      [] c = "G" /\ n = 1 -> <<Num(iso.year, 1)>>
      [] c = "u" /\ n = 1 -> <<Num(IF weekday = 0 THEN 7 ELSE weekday, 1)>>
      [] c = "V" /\ n = 1 -> <<Num(iso.week, 2)>>
      [] c = "w" /\ n = 1 -> <<Num(weekday, 1)>>
      [] c = "w" /\ n = 3 -> <<Mark(WeekdayShort[weekday + 1])>>
      [] c = "W" /\ n = 3 -> <<Mark(WeekdayUpper[weekday + 1])>>
      [] OTHER -> <<>>

\* %YYYYYY: millions and thousands of years with their letters, then three digits.
CompactYear(year) ==
    LET mega == TruncDiv(year, 1000000)
        kilo == TruncDiv(TruncMod(year, 1000000), 1000)
        rest == Num(Abs(TruncMod(year, 1000)), 3)
    IN  CASE mega # 0 /\ kilo # 0 -> <<Num(mega, 1), Mark("M"), Num(Abs(kilo), 1), Mark("K"), rest>>
          [] mega # 0 /\ kilo = 0 -> <<Num(mega, 1), Mark("M"), rest>>
          [] mega = 0 /\ kilo # 0 -> <<Num(kilo, 1), Mark("K"), rest>>
          [] mega = 0 /\ kilo = 0 -> <<Num(year, 4)>>

YearText(c, n, dt) ==
    CASE c = "y" /\ n = 1 -> <<Num(TruncMod(dt.year, 100), 1)>>
      [] c = "Y" /\ n = 1 -> <<Num(dt.year, 1)>>
      [] c = "Y" /\ n = 2 -> <<Num(TruncMod(dt.year, 100), 2)>>
      [] c = "Y" /\ n = 4 -> <<Num(TruncMod(dt.year, 10000), 4)>>
      [] c = "Y" /\ n = 6 -> CompactYear(dt.year)
      [] OTHER -> <<>>

OffsetText(tz, between) ==
    <<Mark(IF tz.is_positive THEN "+" ELSE "-"), Num(tz.hour, 2), Chars(between), Num(tz.min, 2)>>

ZoneText(c, n, utc_offset) ==
    CASE c = "z" /\ n = 1 -> OffsetText(to_time_zone_struct(utc_offset), <<>>)
      [] c = "Z"          -> <<Mark("UTC")>>
      [] OTHER            -> <<>>

process_format_impl(c, n, ts, utc_offset, dt) ==
    LET By(weekday, hour12) ==
            NameOrHour(c, n, dt, weekday, hour12) \o DayText(c, n, ts, dt, weekday)
              \o TimeText(c, n, ts, dt, hour12) \o WeekText(c, n, weekday, dt_to_iso_week_date(dt))
    IN  By(Weekday(dt), hour24_to_12(dt.hour)) \o YearText(c, n, dt) \o ZoneText(c, n, utc_offset)

\* The loop shared by to_string() and to_string_ms(). A format that does not begin
\* with a command gets its first character twice.
Written(format, ts, utc_offset, dt) ==
    LET Piece(token) == IF "literal" \in DOMAIN token THEN <<Mark(token.literal)>>
                        ELSE process_format_impl(token.command, token.repeat, ts, utc_offset, dt)
        first == IF format # <<>> /\ format[1] # "%" THEN <<Mark(format[1])>> ELSE <<>>
        Pieces(tokens) == FlattenSeq([i \in DOMAIN tokens |-> Piece(tokens[i])])
    IN  Rendered(first \o Pieces(Tokens(format)))

to_string(format, ts, utc_offset) == Written(format, ts, utc_offset, to_date_time(ts + utc_offset))

\* %s and %j see the milliseconds as if they were seconds.
to_string_ms(format, ts_ms, utc_offset) ==
    Written(format, ts_ms, utc_offset, to_date_time_ms(ts_ms + sec_to_ms(utc_offset)))
-----------------------------------------------------------------------------
(* The fixed forms *)

Millis(dt) == <<Mark("."), Num(dt.ms, 3)>>
Moment(dt) == DayBy(dt, "-") \o <<Mark("T")>> \o Clock(dt.hour, dt)
MomentMs(dt) == Moment(dt) \o Millis(dt)
Human(dt)  == DayBy(dt, "-") \o <<Mark(" ")>> \o Clock(dt.hour, dt)
HumanMs(dt) == Human(dt) \o Millis(dt)
TimeOnly(dt) == Clock(dt.hour, dt)
Utc == Mark("Z")

to_iso8601(ts)            == Rendered(Moment(to_date_time(ts)))
to_iso8601_date(ts)       == Rendered(DayBy(to_date_time(ts), "-"))
to_iso8601_time(ts)       == Rendered(TimeOnly(to_date_time(ts)))
to_iso8601_time_utc(ts)   == Rendered(Append(TimeOnly(to_date_time(ts)), Utc))
to_iso8601_utc(ts)        == Rendered(Append(Moment(to_date_time(ts)), Utc))
to_iso8601_ms(ts_ms)      == Rendered(MomentMs(to_date_time_ms(ts_ms)))
to_iso8601_utc_ms(ts_ms)  == Rendered(Append(MomentMs(to_date_time_ms(ts_ms)), Utc))

to_iso8601_local(ts, utc_offset) ==
    Rendered(Moment(to_date_time(ts + utc_offset)) \o OffsetText(to_time_zone(utc_offset), <<":">>))
to_iso8601_local_ms(ts_ms, utc_offset) ==
    Rendered(MomentMs(to_date_time_ms(ts_ms + sec_to_ms(utc_offset)))
               \o OffsetText(to_time_zone(utc_offset), <<":">>))

Mql5(dt) == DayBy(dt, ".") \o <<Mark(" ")>> \o Clock(dt.hour, dt)
to_mql5_date_time(ts) == Rendered(Mql5(to_date_time(ts)))
to_mql5_date(ts)      == Rendered(DayBy(to_date_time(ts), "."))

\* A file name has no colons.
FileName(dt) ==
    DayBy(dt, "-") \o <<Mark("_"), Num(dt.hour, 2), Mark("-"), Num(dt.min, 2), Mark("-"), Num(dt.sec, 2)>>
to_windows_filename(ts) == Rendered(FileName(to_date_time(ts)))
to_windows_filename_ms(ts_ms) ==
    Rendered(FileName(to_date_time(ms_to_sec(ts_ms))) \o <<Mark("-"), Num(ms_part(ts_ms), 3)>>)

to_human_readable(ts)       == Rendered(Human(to_date_time(ts)))
to_human_readable_ms(ts_ms) == Rendered(HumanMs(to_date_time_ms(ts_ms)))
=============================================================================
