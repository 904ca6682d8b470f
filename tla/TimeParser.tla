----------------------------- MODULE TimeParser -----------------------------
(* time_parser.hpp: ISO 8601 texts, zones, month names and timeframes. The   *)
(* case of letters is left out: where the code compares without regard to    *)
(* it, so does the model, which has each name once.                          *)
EXTENDS FormatParser, Workdays

Trimmed(text) ==
    LET first == SkipSpaces(text, 1)
        Upto(kept) == IF kept = {} THEN <<>> ELSE SubSeq(text, first, Max(kept))
    IN  Upto({i \in first .. Len(text) : text[i] \notin Spaces})

\* try_parse_month_index(): the short or the full name, between spaces.
try_parse_month(text) ==
    LET Of(name) == {i \in 1..12 : name \in {<<MonthShort[i]>>, <<MonthFull[i]>>}}
        First(months) == IF months = {} THEN 0 ELSE Min(months)
    IN  First(Of(Trimmed(text)))

\* parse_month() and the functions named after it throw what try_parse_month() reports.
parse_month(text) ==
    LET Thrown(month) == IF month = 0 THEN invalid_argument ELSE month
    IN  Thrown(try_parse_month(text))

\* The names of parse_time_zone_name(), UNKNOWN not among them.
parse_time_zone_name(text) ==
    LET Of(name) == IF \E z \in TimeZone \ {"UNKNOWN"} : name = <<z>> THEN name[1] ELSE "UNKNOWN"
    IN  Of(Trimmed(text))

\* "", "Z" or exactly six characters: a sign, two digits, a colon, two digits.
parse_time_zone(text) ==
    LET Of(hour, min) ==
            IF ~Failed(hour) /\ ~Failed(min) /\ is_valid_time_zone(hour.value, min.value)
            THEN TimeZoneStruct(hour.value, min.value, text[1] = "+")
            ELSE NoMatch
    IN  CASE text \in {<<>>, <<"Z">>, <<"z">>} -> TimeZoneStruct(0, 0, TRUE)
          [] Len(text) = 6 /\ text[1] \in {"+", "-"} /\ text[4] = ":" ->
                Of(Unsigned(text, 2, 2, 2), Unsigned(text, 5, 2, 2))
          [] OTHER -> NoMatch
-----------------------------------------------------------------------------
(* parse_iso8601() *)

\* One to three digits, filled up with zeros; a fourth digit fails.
fraction_to_ms(text, p) ==
    LET Of(n) == IF n \notin 1..3 THEN NoMatch
                 ELSE Found(p + n, ValueOf(text, p, n) * (CASE n = 1 -> 100 [] n = 2 -> 10 [] n = 3 -> 1))
    IN  Of(RunLength(text, p, Digits))

\* Year, month and day with a dash, a slash or a dot, not necessarily the same.
GregorianAt(text, p) ==
    LET TwoDigits(at) == IF Has(text, at, {"-", "/", "."}) THEN Unsigned(text, at + 1, 2, 2) ELSE NoMatch
        WithDay(year, mon, day) == IF Failed(day) THEN NoMatch ELSE Found(day.at, Date(year, mon, day.value))
        InMonth(year, mon)    == WithDay(year.value, mon.value, TwoDigits(mon.at))
        InYear(year)          == InMonth(year, TwoDigits(year.at))
    IN  InYear(Unsigned(text, p, 4, 4))

\* A week date up to the T or the space, or a date.
DateAt(text, p) ==
    LET stop == p + RunLength(text, p, {text[i] : i \in 1 .. Len(text)} \ ({"T", "t"} \cup Spaces))
        Existing(r) == IF Failed(r) THEN NoMatch
                     ELSE IF is_valid_date(r.value.year, r.value.month, r.value.day) THEN r ELSE NoMatch
        Of(week) == IF week # NoMatch THEN Found(stop, iso_week_date_to_date(week)) ELSE GregorianAt(text, p)
    IN  Existing(Of(IF stop > p THEN parse_iso_week_date(SubSeq(text, p, stop - 1)) ELSE NoMatch))

\* hh:mm[:ss[.fff]]. Without seconds a fraction is refused.
TimeAt(text, p) ==
    LET Behind(at, c) == IF Has(text, at, {c}) THEN Unsigned(text, at + 1, 2, 2) ELSE NoMatch
        Full(hour, min, sec, ms) ==
            IF Failed(ms) THEN NoMatch
            ELSE Found(ms.at, [hour |-> hour, min |-> min, sec |-> sec, ms |-> ms.value])
        Second(hour, min, sec) ==
            IF Failed(sec) THEN NoMatch
            ELSE Full(hour, min, sec.value,
                      IF Has(text, sec.at, {"."}) THEN fraction_to_ms(text, sec.at + 1) ELSE Found(sec.at, 0))
        Minute(hour, min) ==
            CASE Failed(min) \/ Has(text, min.at, {"."}) -> NoMatch
              [] ~Failed(min) /\ Has(text, min.at, {":"}) ->
                    Second(hour.value, min.value, Behind(min.at, ":"))
              [] OTHER -> Full(hour.value, min.value, 0, Found(min.at, 0))
        Hour(hour) == Minute(hour, Behind(hour.at, ":"))
    IN  Hour(Unsigned(text, p, 2, 2))

Utc0 == TimeZoneStruct(0, 0, TRUE)

\* Z, six characters of an offset, or nothing.
ZoneAt(text, p) ==
    LET Offset(zone) == IF zone = NoMatch THEN NoMatch ELSE Found(p + 6, zone)
    IN  CASE Has(text, p, {"Z", "z"}) -> Found(p + 1, Utc0)
          [] Has(text, p, {"+", "-"}) ->
                Offset(IF Len(text) >= p + 5 THEN parse_time_zone(SubSeq(text, p, p + 5)) ELSE NoMatch)
          [] OTHER -> Found(p, Utc0)

\* Behind a date: nothing but spaces, or a T or spaces and a time.
parse_iso8601(text) ==
    LET Ends(p) == SkipSpaces(text, p) = Len(text) + 1
        Zoned(d, t, zone) ==
            IF /\ ~Failed(zone) /\ Ends(zone.at)
               /\ is_valid_date_time(d.year, d.month, d.day, t.hour, t.min, t.sec, t.ms)
            THEN Parsed(DateTime(d.year, d.month, d.day, t.hour, t.min, t.sec, t.ms), zone.value)
            ELSE NotParsed
        Timed(d, time) ==
            IF Failed(time) THEN NotParsed
            ELSE Zoned(d, time.value, ZoneAt(text, SkipSpaces(text, time.at)))
        Begun(d, at, start) == IF start = at THEN NotParsed ELSE Timed(d, TimeAt(text, start))
        Dated(date) ==
            CASE Failed(date) -> NotParsed
              [] ~Failed(date) /\ Ends(date.at) ->
                    Parsed(DateTime(date.value.year, date.value.month, date.value.day, 0, 0, 0, 0), Utc0)
              [] OTHER -> Begun(date.value, date.at, IF Has(text, date.at, {"T", "t"}) THEN date.at + 1
                                                    ELSE SkipSpaces(text, date.at))
    IN  Dated(DateAt(text, SkipSpaces(text, 1)))

str_to_ts(text)    == TimestampOf(parse_iso8601(text))
str_to_ts_ms(text) == TimestampMsOf(parse_iso8601(text))

\* The overloads of is_workday(), is_first_workday_of_month() and the others for a
\* text are false for one that is no date.
TimesIn(r) == IF r.ok THEN {r.ts} ELSE {}
is_workday_text(text)          == \E ts \in TimesIn(str_to_ts(text))    : is_workday(ts)
is_workday_text_ms(text)       == \E ts \in TimesIn(str_to_ts_ms(text)) : is_workday_ms(ts)
is_first_workday_text(text)    == \E ts \in TimesIn(str_to_ts(text))    : is_first_workday_of_month_ts(ts)
is_first_workday_text_ms(text) == \E ts \in TimesIn(str_to_ts_ms(text)) : is_first_workday_of_month_ms(ts)
is_last_workday_text(text)     == \E ts \in TimesIn(str_to_ts(text))    : is_last_workday_of_month_ts(ts)
is_last_workday_text_ms(text)  == \E ts \in TimesIn(str_to_ts_ms(text)) : is_last_workday_of_month_ms(ts)
is_within_first_workdays_text(text, count) ==
    \E ts \in TimesIn(str_to_ts(text))    : is_within_first_workdays_of_month_ts(ts, count)
is_within_first_workdays_text_ms(text, count) ==
    \E ts \in TimesIn(str_to_ts_ms(text)) : is_within_first_workdays_of_month_ms(ts, count)
is_within_last_workdays_text(text, count) ==
    \E ts \in TimesIn(str_to_ts(text))    : is_within_last_workdays_of_month_ts(ts, count)
is_within_last_workdays_text_ms(text, count) ==
    \E ts \in TimesIn(str_to_ts_ms(text)) : is_within_last_workdays_of_month_ms(ts, count)

\* ts() and ts_ms() of a text: 0 is a timestamp and the sign of failure.
ts_of(text)    == str_to_ts(text).ts
ts_ms_of(text) == str_to_ts_ms(text).ts
-----------------------------------------------------------------------------
(* Timeframes: "M15" and "5 minutes" *)

CompactUnit == [s |-> 1, m |-> SEC_PER_MIN, h |-> SEC_PER_HOUR, d |-> SEC_PER_DAY,
                w |-> SEC_PER_DAY * 7, mn |-> SEC_PER_DAY * 30, q |-> SEC_PER_DAY * 90, y |-> SEC_PER_YEAR]

WordUnit == [sec |-> 1, second |-> 1, seconds |-> 1,
             min |-> SEC_PER_MIN, minute |-> SEC_PER_MIN, minutes |-> SEC_PER_MIN,
             hr |-> SEC_PER_HOUR, hour |-> SEC_PER_HOUR, hours |-> SEC_PER_HOUR,
             day |-> SEC_PER_DAY, days |-> SEC_PER_DAY,
             week |-> SEC_PER_DAY * 7, weeks |-> SEC_PER_DAY * 7,
             month |-> SEC_PER_DAY * 30, months |-> SEC_PER_DAY * 30,
             quarter |-> SEC_PER_DAY * 90, quarters |-> SEC_PER_DAY * 90,
             year |-> SEC_PER_YEAR, years |-> SEC_PER_YEAR]

\* try_multiply_positive_int64(): 0 when a factor is not positive or the product
\* does not fit.
PositiveProduct(lhs, rhs) ==
    IF lhs <= 0 \/ rhs <= 0 \/ lhs > INT64_MAX \div rhs THEN 0 ELSE lhs * rhs

\* A word is one item of the text. Alone it stands for one of its unit; a number
\* goes before a word, with or without spaces, or behind a short unit, without.
str_to_timeframe_sec(text) ==
    LET Worded(t, digits, unit) ==
            IF unit = Len(t) /\ t[unit] \in DOMAIN WordUnit
            THEN PositiveProduct(ValueOf(t, 1, digits), WordUnit[t[unit]]) ELSE 0
        Compact(t) ==
            IF t[1] \in DOMAIN CompactUnit /\ RunLength(t, 2, Digits) = Len(t) - 1
            THEN PositiveProduct(ValueOf(t, 2, Len(t) - 1), CompactUnit[t[1]]) ELSE 0
        Of(t, digits) ==
            CASE t = <<>> -> 0
              [] t # <<>> /\ digits > 0 -> Worded(t, digits, SkipSpaces(t, digits + 1))
              [] t # <<>> /\ digits = 0 /\ Len(t) = 1 ->
                    IF t[1] \in DOMAIN WordUnit THEN WordUnit[t[1]] ELSE 0
              [] OTHER -> Compact(t)
        Trim(t) == Of(t, RunLength(t, 1, Digits))
    IN  Trim(Trimmed(text))

str_to_timeframe_ms(text) == PositiveProduct(str_to_timeframe_sec(text), MS_PER_SEC)
-----------------------------------------------------------------------------
(* sec_of_day() of a text: h[:m[:s]] *)

\* The loop over at most three numbers. What follows the colon behind a third one
\* is not looked at.
NumbersOf(text) ==
    LET Part(parts, at, n) ==
            IF n > 0 /\ Has(text \o <<":">>, at + n, {":"})
            THEN [at |-> at + n + 1, parts |-> Append(parts, ValueOf(text, at, n))]
            ELSE [at |-> 0, parts |-> <<>>]
        After(before) ==
            IF before.at \in 1 .. Len(text)
            THEN Part(before.parts, before.at, RunLength(text, before.at, Digits))
            ELSE before
    IN  After(After(After([at |-> 1, parts |-> <<>>]))).parts

sec_of_day_text(text) ==
    LET Time(p) == IF is_valid_time(p[1], p[2], p[3], 0) THEN sec_of_time(p[1], p[2], p[3]) ELSE SEC_PER_DAY
        Of(parts) == IF parts = <<>> THEN SEC_PER_DAY ELSE Time(parts \o <<0, 0, 0>>)
    IN  Of(NumbersOf(text))
=============================================================================
