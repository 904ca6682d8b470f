---------------------------- MODULE FormatParser ----------------------------
(* time_format_parser.hpp: reads a text by a format, field by field, and     *)
(* combines the fields into a date and time if they agree. The state of the *)
(* parser is a function of the fields read so far.                           *)
EXTENDS TimeFormatting
LOCAL INSTANCE SequencesExt

Read(p, fields) == [at |-> p, fields |-> fields]
Unread == Read(0, <<>>)

With(fields, f, v) == [x \in DOMAIN fields \cup {f} |-> IF x = f THEN v ELSE fields[x]]

\* assign_int_field() and assign_year_field(): a field read twice must agree.
Assign(r, fields, f) ==
    IF Failed(r) \/ (f \in DOMAIN fields /\ fields[f] # r.value)
    THEN Unread
    ELSE Read(r.at, With(fields, f, r.value))

\* " 7" or "07".
SpacePadded2(text, p) ==
    IF Has(text, p, {" "}) /\ Has(text, p + 1, Digits)
    THEN Found(p + 2, DigitValue[text[p + 1]])
    ELSE Unsigned(text, p, 2, 2)

\* match_name_token()
NameIn(text, p, names, base) ==
    IF \E i \in 1 .. Len(names) : Has(text, p, {names[i]})
    THEN Found(p + 1, (CHOOSE i \in 1 .. Len(names) : names[i] = text[p]) - 1 + base)
    ELSE NoMatch

Meridiem(text, p, am, pm, fields) ==
    IF Has(text, p, {am, pm})
    THEN Read(p + 1, With(fields, "is_pm", text[p] = pm))
    ELSE Unread

\* A sign, two digits, a colon or none, two digits.
tz_offset_token(text, p, fields) ==
    LET Both(hour, min) ==
            IF Failed(min) \/ ~is_valid_time_zone(hour.value, min.value) THEN Unread
            ELSE Read(min.at, With(fields, "tz", TimeZoneStruct(hour.value, min.value, text[p] = "+")))
        Hour(hour) ==
            IF Failed(hour) THEN Unread
            ELSE Both(hour, Unsigned(text, IF Has(text, hour.at, {":"}) THEN hour.at + 1 ELSE hour.at, 2, 2))
    IN  IF Has(text, p, {"+", "-"}) THEN Hour(Unsigned(text, p + 1, 2, 2)) ELSE Unread

\* What process_format_impl() writes for %YYYYYY.
compact_extended_year(text, p) ==
    LET sign == IF Has(text, p, {"-"}) THEN -1 ELSE 1
        Years(head, kilo, tail, millions) ==
            CASE ~millions /\ tail = kilo -> head.value
              [] ~millions /\ tail # kilo -> sign * (Abs(head.value) * 1000 + tail.value)
              [] millions /\ tail = kilo  -> sign * (Abs(head.value) * 1000000 + kilo.value)
              [] OTHER -> sign * (Abs(head.value) * 1000000 + kilo.value * 1000 + tail.value)
        Rest(head, kilo, tail) ==
            IF Failed(head) \/ Failed(kilo) \/ Failed(tail) THEN NoMatch
            ELSE Found(tail.at, Years(head, kilo, tail, Has(text, head.at, {"M"})))
        WithKilo(head, kilo) ==
            Rest(head, kilo, IF Has(text, kilo.at, {"K"}) THEN Unsigned(text, kilo.at + 1, 3, 3) ELSE kilo)
        From(head) ==
            WithKilo(head, IF Has(text, head.at, {"M"}) THEN Unsigned(text, head.at + 1, 1, 18) ELSE head)
    IN  From(Signed(text, p, 1, 18))
-----------------------------------------------------------------------------
(* parse_format_token(): the commands with a number, with a name, and others *)

Rule(c, repeats, field, style, least, most) ==
    [command |-> c, repeats |-> repeats, field |-> field, style |-> style, least |-> least, most |-> most]

DateRules == {
    Rule("C", {1}, "century", "unsigned", 1, 6),
    Rule("d", {1}, "day", "unsigned", 2, 2),
    Rule("D", {2}, "day", "unsigned", 2, 2),
    Rule("e", {1}, "day", "padded", 2, 2),
    Rule("g", {1}, "iso_week_two_digit_year", "unsigned", 2, 2),
    Rule("G", {1}, "iso_week_year", "signed", 1, 18),
    Rule("j", {1}, "day_of_year", "unsigned", 3, 3)}

ClockRules == {
    Rule("H", {1, 2}, "hour24", "unsigned", 2, 2),
    Rule("h", {2}, "hour24", "unsigned", 2, 2),
    Rule("I", {1}, "hour12", "unsigned", 2, 2),
    Rule("k", {1}, "hour24", "padded", 2, 2),
    Rule("l", {1}, "hour12", "padded", 2, 2),
    Rule("m", {1}, "month", "unsigned", 2, 2),
    Rule("m", {2}, "minute", "unsigned", 2, 2),
    Rule("M", {1}, "minute", "unsigned", 2, 2),
    Rule("M", {2}, "month", "unsigned", 2, 2)}

SecondRules == {
    Rule("s", {3}, "millisecond", "unsigned", 1, 3),
    Rule("S", {1, 2}, "second", "unsigned", 2, 2),
    Rule("S", {3}, "millisecond", "unsigned", 1, 3),
    Rule("u", {1}, "iso_weekday", "unsigned", 1, 1),
    Rule("w", {1}, "weekday", "unsigned", 1, 1)}

YearRules == {
    Rule("V", {1}, "iso_week", "unsigned", 2, 2),
    Rule("y", {1}, "two_digit_year", "unsigned", 1, 2),
    Rule("Y", {1}, "year", "signed", 1, 18),
    Rule("Y", {2}, "two_digit_year", "unsigned", 2, 2),
    Rule("Y", {4}, "year", "signed", 4, 4),
    Rule("Y", {6}, "year", "compact", 1, 18)}

NumberRules == DateRules \cup ClockRules \cup SecondRules \cup YearRules

NumberToken(text, p, rule, fields) ==
    LET r == CASE rule.style = "unsigned" -> Unsigned(text, p, rule.least, rule.most)
               [] rule.style = "signed"   -> Signed(text, p, rule.least, rule.most)
               [] rule.style = "padded"   -> SpacePadded2(text, p)
               [] rule.style = "compact"  -> compact_extended_year(text, p)
    IN  Assign(r, fields, rule.field)

NameRule(c, repeat, field, names, base) ==
    [command |-> c, repeat |-> repeat, field |-> field, names |-> names, base |-> base]

NameRules == {
    NameRule("a", 1, "weekday", WeekdayShort, 0),
    NameRule("A", 1, "weekday", WeekdayFull, 0),
    NameRule("w", 3, "weekday", WeekdayShort, 0),
    NameRule("W", 3, "weekday", WeekdayUpper, 0),
    NameRule("b", 1, "month", MonthShort, 1),
    NameRule("h", 1, "month", MonthShort, 1),
    NameRule("B", 1, "month", MonthFull, 1),
    NameRule("M", 3, "month", MonthUpper, 1)}

NameToken(text, p, rule, fields) ==
    Assign(NameIn(text, p, rule.names, rule.base), fields, rule.field)

LiteralToken(text, p, c, fields) == IF Has(text, p, {c}) THEN Read(p + 1, fields) ELSE Unread

\* The commands that stand for no format. %s overwrites what an
\* earlier one read.
parse_format_token(text, p, token, fields) ==
    LET c == token.command
        n == token.repeat
        numbers == {r \in NumberRules : r.command = c /\ n \in r.repeats}
        names   == {r \in NameRules : r.command = c /\ r.repeat = n}
        Unix(r) == IF Failed(r) THEN Unread ELSE Read(r.at, With(fields, "unix_seconds", r.value))
    IN  CASE numbers # {} -> NumberToken(text, p, CHOOSE r \in numbers : TRUE, fields)
          [] names # {}   -> NameToken(text, p, CHOOSE r \in names : TRUE, fields)
          [] c = "n" /\ n = 1 -> LiteralToken(text, p, "\n", fields)
          [] c = "t" /\ n = 1 -> LiteralToken(text, p, "\t", fields)
          [] c = "p" /\ n = 1 -> Meridiem(text, p, "AM", "PM", fields)
          [] c = "P" /\ n = 1 -> Meridiem(text, p, "am", "pm", fields)
          [] c = "s" /\ n = 1 -> Unix(Signed(text, p, 1, 18))
          [] c = "z" /\ n = 1 -> tz_offset_token(text, p, fields)
          [] c = "Z" /\ n = 1 ->
                IF Has(text, p, {"UTC"})
                THEN Read(p + 1, With(fields, "tz", TimeZoneStruct(0, 0, TRUE))) ELSE Unread
          [] OTHER -> Unread

CompositeFormat ==
    [c |-> <<"%", "a", " ", "%", "b", " ", "%", "e", " ", "%", "H", ":", "%", "M", ":", "%", "S", " ", "%", "Y">>,
     D |-> <<"%", "m", "/", "%", "d", "/", "%", "y">>,
     F |-> <<"%", "Y", "-", "%", "m", "-", "%", "d">>,
     r |-> <<"%", "I", ":", "%", "M", ":", "%", "S", " ", "%", "p">>,
     R |-> <<"%", "H", ":", "%", "M">>,
     T |-> <<"%", "H", ":", "%", "M", ":", "%", "S">>]

\* A command that stands for a format is that format's commands.
Expanded(tokens) ==
    FlattenSeq([i \in DOMAIN tokens |->
        IF "command" \in DOMAIN tokens[i] /\ tokens[i].command \in DOMAIN CompositeFormat /\ tokens[i].repeat = 1
        THEN Tokens(CompositeFormat[tokens[i].command])
        ELSE <<tokens[i]>>])

parse_format_sequence(text, format) ==
    LET Item(r, token) ==
            CASE Failed(r) -> Unread
              [] ~Failed(r) /\ "literal" \in DOMAIN token -> LiteralToken(text, r.at, token.literal, r.fields)
              [] OTHER -> parse_format_token(text, r.at, token, r.fields)
    IN  FoldLeft(Item, Read(1, <<>>), Expanded(Tokens(format)))
-----------------------------------------------------------------------------
(* From the fields to a date and time *)

\* A failure leaves the results unassigned.
NotParsed == [dt |-> uninitialized, tz |-> uninitialized]
Parsed(dt, tz) == [dt |-> dt, tz |-> tz]

IsoFields       == {"iso_week_year", "iso_week_two_digit_year", "iso_week"}
GregorianFields == {"year", "century", "two_digit_year", "month", "day", "day_of_year"}

Got(fields, f)      == f \in DOMAIN fields
Value(fields, f, d) == IF Got(fields, f) THEN fields[f] ELSE d
Agrees(fields, f, v) == Got(fields, f) => fields[f] = v

HasIso(fields)       == \E f \in IsoFields : Got(fields, f)
HasGregorian(fields) == \E f \in GregorianFields : Got(fields, f)

last_two_digits_of_year(year) == Abs(TruncMod(year, 100))

compute_day_of_year(year, month, day) ==
    mos[month] + day + (IF month > 2 /\ is_leap_year_date(year) THEN 1 ELSE 0)

\* resolve_day_of_year(): the months are taken off one after the other.
resolve_day_of_year(year, day_of_year_) ==
    IF day_of_year_ \notin 1 .. (IF is_leap_year_date(year) THEN 366 ELSE 365) THEN NoMatch
    ELSE LET In(month) == [month |-> month, day |-> day_of_year_ - compute_day_of_year(year, month, 1) + 1]
         IN  In(CHOOSE m \in 1..12 :
                  /\ compute_day_of_year(year, m, 1) <= day_of_year_
                  /\ m < 12 => day_of_year_ < compute_day_of_year(year, m + 1, 1))

\* Defective: twelve o'clock is twelve hours after midnight.
HourWithoutWrap(hour12, pm) == hour12 + (IF pm THEN 12 ELSE 0)

\* Noon and midnight are 12 on a clock of twelve hours.
Hour24(hour12, pm) == TruncMod(hour12, 12) + (IF pm THEN 12 ELSE 0)

\* resolve_time_fields(): the hour, or -1 if the fields contradict each other.
ResolvedHour(fields) ==
    LET With12(from12) ==
            CASE Got(fields, "hour24") ->
                   IF Got(fields, "is_pm") /\ Got(fields, "hour12") /\ from12 # fields.hour24
                   THEN -1 ELSE fields.hour24
              [] ~Got(fields, "hour24") /\ Got(fields, "hour12") ->
                   IF Got(fields, "is_pm") /\ fields.hour12 \in 1..12 THEN from12 ELSE -1
              [] OTHER -> 0
    IN  With12(Hour24(Value(fields, "hour12", 0), Value(fields, "is_pm", FALSE)))

AgreesWithWeek(fields, iso) ==
    /\ Agrees(fields, "iso_week_year", iso.year)
    /\ Agrees(fields, "iso_week_two_digit_year", last_two_digits_of_year(iso.year))
    /\ Agrees(fields, "iso_week", iso.week)
    /\ Agrees(fields, "iso_weekday", iso.weekday)

\* Defective: an ISO weekday beside a date of the year is not compared.
WeekdayOfWeeksOnly(fields, dt) ==
    /\ Agrees(fields, "weekday", Weekday(dt))
    /\ HasIso(fields) => AgreesWithWeek(fields, dt_to_iso_week_date(dt))

validate_weekday_constraints(fields, dt) ==
    /\ Agrees(fields, "weekday", Weekday(dt))
    /\ HasIso(fields) \/ Got(fields, "iso_weekday") => AgreesWithWeek(fields, dt_to_iso_week_date(dt))

\* The common end of both ways through finalize_calendar_state().
WithTime(fields, date, tz) ==
    LET Checked(dt) ==
            IF /\ dt.hour # -1
               /\ is_valid_date_time(dt.year, dt.mon, dt.day, dt.hour, dt.min, dt.sec, dt.ms)
               /\ validate_weekday_constraints(fields, dt)
            THEN Parsed(dt, tz)
            ELSE NotParsed
    IN  Checked(DateTime(date.year, date.month, date.day, ResolvedHour(fields), Value(fields, "minute", 0),
                         Value(fields, "second", 0), Value(fields, "millisecond", 0)))

\* A two-digit year alone means the years 0 to 99.
DateOfIsoFields(fields) ==
    LET Of(iso) ==
            IF /\ Got(fields, "iso_week_year") =>
                    Agrees(fields, "iso_week_two_digit_year", last_two_digits_of_year(iso.year))
               /\ Got(fields, "iso_week_year") \/ Got(fields, "iso_week_two_digit_year")
               /\ Got(fields, "iso_week")
            THEN iso_week_date_to_date(iso)
            ELSE invalid_argument
        year == Value(fields, "iso_week_year", Value(fields, "iso_week_two_digit_year", 0))
    IN  Of(IsoWeekDate(year, Value(fields, "iso_week", 0), Value(fields, "iso_weekday", 1)))

DateOfGregorianFields(fields) ==
    LET On(year, month, day) ==
            IF /\ Agrees(fields, "month", month) /\ Agrees(fields, "day", day)
               /\ month # 0 /\ day # 0
            THEN Date(year, month, day)
            ELSE invalid_argument
        OnDayOfYear(year, doy) == IF doy = NoMatch THEN invalid_argument ELSE On(year, doy.month, doy.day)
        Of(year) ==
            CASE ~(/\ \E f \in {"year", "century", "two_digit_year"} : Got(fields, f)
                   /\ Got(fields, "year") =>
                        /\ Agrees(fields, "century", TruncDiv(year, 100))
                        /\ Agrees(fields, "two_digit_year", last_two_digits_of_year(year)))
                 -> invalid_argument
              [] OTHER -> IF Got(fields, "day_of_year")
                          THEN OnDayOfYear(year, resolve_day_of_year(year, fields.day_of_year))
                          ELSE On(year, Value(fields, "month", 0), Value(fields, "day", 0))
    IN  Of(Value(fields, "year", Value(fields, "century", 0) * 100 + Value(fields, "two_digit_year", 0)))

\* finalize_calendar_state()
FromCalendarFields(fields, tz) ==
    LET On(date) == IF date = invalid_argument THEN NotParsed ELSE WithTime(fields, date, tz)
    IN  On(IF HasIso(fields) THEN DateOfIsoFields(fields) ELSE DateOfGregorianFields(fields))

\* Seconds since 1970 decide alone; the fields beside them must agree with them.
FromUnixSeconds(fields, tz) ==
    LET offset == IF Got(fields, "tz") THEN time_zone_struct_to_offset(tz) ELSE 0
        Checked(dt) ==
          IF /\ Agrees(fields, "year", dt.year)
           /\ Agrees(fields, "month", dt.mon)
           /\ Agrees(fields, "day", dt.day)
           /\ Agrees(fields, "hour24", dt.hour)
           /\ Agrees(fields, "minute", dt.min)
           /\ Agrees(fields, "second", dt.sec)
           /\ Agrees(fields, "day_of_year", compute_day_of_year(dt.year, dt.mon, dt.day))
           /\ validate_weekday_constraints(fields, dt)
        THEN Parsed(dt, tz)
        ELSE NotParsed
    IN  Checked([to_date_time(fields.unix_seconds + offset) EXCEPT !.ms = Value(fields, "millisecond", 0)])

finalize_format_parse_state(fields) ==
    LET tz == Value(fields, "tz", TimeZoneStruct(0, 0, TRUE))
    IN  CASE HasIso(fields) /\ HasGregorian(fields) -> NotParsed
          [] ~(HasIso(fields) /\ HasGregorian(fields)) /\ Got(fields, "unix_seconds") ->
                FromUnixSeconds(fields, tz)
          [] OTHER -> FromCalendarFields(fields, tz)

\* The whole text must be read.
try_parse_format(text, format) ==
    LET Whole(read) == IF Failed(read) \/ read.at # Len(text) + 1 THEN NotParsed
                       ELSE finalize_format_parse_state(read.fields)
    IN  Whole(parse_format_sequence(text, format))

NoTimestamp   == [ok |-> FALSE, ts |-> 0]
Timestamp(ts) == [ok |-> TRUE, ts |-> ts]

\* A local timestamp minus its offset.
InUtc(ts, offset) == IF ts = invalid_argument THEN NoTimestamp ELSE Timestamp(ts - offset)
TimestampOf(r) ==
    IF r = NotParsed THEN NoTimestamp ELSE InUtc(dt_to_timestamp(r.dt), time_zone_struct_to_offset(r.tz))
TimestampMsOf(r) ==
    IF r = NotParsed THEN NoTimestamp
    ELSE InUtc(dt_to_timestamp_ms(r.dt), sec_to_ms(time_zone_struct_to_offset(r.tz)))

try_parse_format_ts(text, format)    == TimestampOf(try_parse_format(text, format))
try_parse_format_ts_ms(text, format) == TimestampMsOf(try_parse_format(text, format))
=============================================================================
