------------------------------ MODULE MCValues ------------------------------
(* The calendar, zone, format and parser functions at every moment of a walk *)
(* through windows of days: whole years, the turns of years, the ends of     *)
(* February and the changes of summer time. A day is entered at its first    *)
(* second and left behind the last second looked at.                         *)
EXTENDS DateTimes, CalendarWalk

CONSTANTS
    WholeYears, TurnYears, ZoneYears,
    DayMoments,    \* seconds of a day of a whole year that are looked at
    TurnMoments,   \* the same for the turn of a year and the end of February
    ZoneMoments    \* both sides of the hours at which a zone changes

\* The first year of the library, which a cfg cannot write as a number.
FirstYear == -400

\* Turns on both sides of year 0, of 1970, of 2100 and of centuries, up to the
\* last turn the legacy functions can count back to.
FarYears == {-397, -100, -4, -1, 0, 3, 4, 99, 999, 1000, 1599, 1600, 1899, 1900, 1968, 1969, 1972, 1999, 2000, 2023, 2026,
             2095, 2096, 2099, 2100, 2104, 2400, 2796}

SundayIn(y, m, n) ==   \* the n-th Sunday of a month, the last for n = 0
    LET first   == DayNumber(y, m, 1)
        sundays == {d \in 1 .. MonthLength(y, m) : WeekdayOf(first + d - 1) = SUN}
    IN  IF n = 0 THEN Max(sundays) ELSE CHOOSE d \in sundays : (d - 1) \div 7 = n - 1

Window(first, last, moments) == [first |-> first, last |-> last, moments |-> moments]
DayBefore(y, m, d) == IF d > 1 THEN Date(y, m, d - 1) ELSE Date(y, m - 1, MonthLength(y, m - 1))
Around(y, m, d) == Window(DayBefore(y, m, d), DayNumber(y, m, d) + 1, ZoneMoments)

WalkWindows ==
         {Window(Date(y, m, 1), DayNumber(y, m, MonthLength(y, m)), DayMoments) :
            y \in WholeYears, m \in 1..12}
    \cup {Window(Date(y, 12, 30), DayNumber(y + 1, 1, 2), TurnMoments) : y \in TurnYears}
    \cup {Window(Date(y, 2, 27), DayNumber(y, 3, 2), TurnMoments) : y \in TurnYears}
    \cup {Around(y, 3, SundayIn(y, 3, n)) : y \in ZoneYears, n \in {0, 2}}
    \cup {Around(y, 4, SundayIn(y, 4, 1)) : y \in ZoneYears}
    \cup {Around(y, 10, SundayIn(y, 10, 0)) : y \in ZoneYears}
    \cup {Around(y, 11, SundayIn(y, 11, 1)) : y \in ZoneYears}

-----------------------------------------------------------------------------
\* The European rule in UTC, and the American one in the standard time of the
\* East, from the wall calendar.
At(y, m, d, hours) == DayNumber(y, m, d) * SEC_PER_DAY + hours * SEC_PER_HOUR

EuropeSummer(gmt, y) == At(y, 3, SundayIn(y, 3, 0), 1) <= gmt /\ gmt < At(y, 10, SundayIn(y, 10, 0), 1)
EasternSummer(gmt, y) ==
    LET Between(m, n, k, l) == At(y, m, SundayIn(y, m, n), 7) <= gmt /\ gmt < At(y, k, SundayIn(y, k, l), 6)
    IN  IF y >= 2007 THEN Between(3, 2, 11, 1) ELSE Between(4, 1, 10, 0)

\* gmt_to_et() ends summer time an hour late, and cet_to_gmt() of a year before
\* 2002 ends it with the day before.
EasternEnd(gmt) == ~EasternSummer(gmt, dt.year) /\ EasternSummer(gmt - SEC_PER_HOUR, dt.year)
OldCetDay(zone, gmt) ==
    /\ zone \in {"WET", "CET", "EET"}
    /\ dt.year < 2002 /\ dt.mon = OCT
    /\ dt.day = SundayIn(dt.year, OCT, 0) \/ dt.day + 1 = SundayIn(dt.year, OCT, 0)

\* A local time two moments share: the hour the clocks are turned back.
Repeated(gmt, local, zone) ==
    \E other \in {gmt + SEC_PER_HOUR, gmt - SEC_PER_HOUR} : gmt_to_zone(other, zone) = local

\* Zones have the offset their rule gives, and local times lead back to the moment
\* they were made of, unless two moments share them; by way of another zone
\* and in milliseconds as well.
ZonesRoundTrip == WeekdayIsRight =>
    /\ gmt_to_cet(now) - now = SEC_PER_HOUR * (IF EuropeSummer(now, dt.year) THEN 2 ELSE 1)
    /\ ~EasternEnd(now) =>
         gmt_to_et(now) - now = -SEC_PER_HOUR * (IF EasternSummer(now, dt.year) THEN 4 ELSE 5)
    /\ \A zone \in IF second = 0 THEN TimeZone \ {"UNKNOWN"} ELSE Seasonal :
         LET ms == sec_to_ms(now) + MS_PER_SEC - 1
         IN  \E local \in {gmt_to_zone(now, zone)} :
             \/ /\ zone_to_gmt(local, zone) = now
                /\ zone \in Seasonal => convert_time_zone(local, zone, "IST") = now + FixedOffset["IST"]
                /\ MsRange => zone_to_gmt_ms(gmt_to_zone_ms(ms, zone), zone) = ms
             \/ OldCetDay(zone, now)
             \/ Repeated(now, local, zone)
    /\ MsRange => convert_time_zone_ms(sec_to_ms(now) + 7, "GMT", "ET") = sec_to_ms(gmt_to_et(now)) + 7
    /\ convert_time_zone(now, "UNKNOWN", "CET") = ERROR_TIMESTAMP
    /\ second = 0 => \A minutes \in -12 * MIN_PER_HOUR .. 14 * MIN_PER_HOUR :
         LET offset == minutes * SEC_PER_MIN
             tz     == to_time_zone(offset)
         IN  /\ is_valid_tz_offset(offset)
             /\ time_zone_struct_to_offset(tz) = offset /\ to_tz_offset(tz) = offset
             /\ tz.is_positive \/ tz.hour > 0 =>
                  tz_offset_hm(IF tz.is_positive THEN tz.hour ELSE -tz.hour, tz.min) = offset
             /\ parse_time_zone(Rendered(OffsetText(tz, <<":">>))) = tz
             /\ to_utc(to_local(now, offset), offset) = now

\* Formats both to_string() and try_parse_format() know: what they write and what
\* they read is the same moment.
Fmt == [
  sortable |-> <<"%","Y","-","%","m","-","%","d"," ","%","H",":","%","M",":","%","S","%","z">>,
  short    |-> <<"%","F","T","%","T">>,
  locale   |-> <<"%","c">>,
  week     |-> <<"%","G","-","W","%","V","-","%","u"," ","%","R",":","%","S">>,
  unix     |-> <<"%","s"," ","%","a">>,
  ordinal  |-> <<"%","Y"," ","%","j"," ","%","T">>,
  spoken   |-> <<"%","A",","," ","%","e"," ","%","B"," ","%","Y","Y","Y","Y"," ","%","I",":","%","M",":","%","S"," ","%","p">>,
  own      |-> <<"%","W","W","W","%","D","D","%","M","M","M","%","Y","Y","Y","Y","Y","Y","T","%","h","h",":","%","m","m",":","%","S","S","%","Z">>,
  century  |-> <<"%","C","/","%","y","/","%","m","/","%","d"," ","%","k",":","%","M",":","%","S">>,
  millis   |-> <<"%","Y","-","%","m","-","%","d"," ","%","H",":","%","M",":","%","S",".","%","s","s","s">>]

\* hour24_to_12() makes 12 of every hour from 13 on; %F and %C write a negative
\* year as no parser reads it.
Writable(f) ==
    /\ f = "spoken" => dt.hour < 13
    /\ f \in {"short", "century"} => dt.year >= 0
    /\ f = "ordinal" => ~EndOfFarLeap
    /\ f = "week" => WeekdayIsRight

Offsets == {0, 5 * SEC_PER_HOUR + HALF_HOUR, -8 * SEC_PER_HOUR}

Timeframes == {<<"s", "seconds">>, <<"m", "min">>, <<"h", "hours">>, <<"d", "day">>, <<"w", "weeks">>,
               <<"mn", "month">>, <<"q", "quarters">>, <<"y", "years">>}

\* Texts of the first second of a day.
DateTexts == {to_iso8601_date(now), to_mql5_date(now),
              format_iso_week_date(ts_to_iso_week_date(now), TRUE, TRUE)}

\* Every text the formatters write, in the forms a parser knows, is read as the
\* moment it was made of; numbers of a unit are read the same in both
\* spellings, and not at all where they do not fit.
TextRoundTrip ==
    /\ dt.year > 1000 =>
         /\ \A text \in {to_iso8601(now), to_iso8601_utc(now), to_mql5_date_time(now),
                         to_human_readable(now), <<" ">> \o to_iso8601(now)}
                        \cup {to_iso8601_local(now, offset) : offset \in Offsets}
                        \cup (IF second = 0 THEN DateTexts ELSE {}) :
                str_to_ts(text) = Timestamp(now)
         /\ second = 0 => \A text \in {to_iso8601(now)} :
              /\ ts_of(text) = now
              /\ is_workday_text(text) = is_workday(now)
              /\ is_last_workday_text(text) = is_last_workday_of_month_ts(now)
              /\ is_within_first_workdays_text(text, 3) = is_within_first_workdays_of_month_ts(now, 3)
         /\ MsRange => \A ms \in {sec_to_ms(now) + part : part \in MsParts} :
              /\ \A text \in {to_iso8601_utc_ms(ms), to_iso8601_local_ms(ms, HALF_HOUR), to_human_readable_ms(ms)} :
                   str_to_ts_ms(text) = Timestamp(ms)
              /\ second = 0 => is_workday_text_ms(to_iso8601_utc_ms(ms)) = is_workday_ms(ms)
    /\ \A f \in DOMAIN Fmt \ {"millis"} : Writable(f) =>
         \A offset \in {0} \cup (IF f = "sortable" THEN Offsets ELSE {}) :
            try_parse_format_ts(to_string(Fmt[f], now, offset), Fmt[f]) = Timestamp(now)
    /\ MsRange => \A part \in MsParts :
         LET ms == sec_to_ms(now) + part
         IN  try_parse_format_ts_ms(to_string_ms(Fmt["millis"], ms, 0), Fmt["millis"]) = Timestamp(ms)
    /\ sec_of_day_text(to_iso8601_time(now)) = second
    /\ \A names \in {MonthShort, MonthFull} : parse_month(<<" ", names[dt.mon], " ">>) = dt.mon
    /\ \A zone \in TimeZone : parse_time_zone_name(<<zone, " ">>) = zone
    /\ second = 0 /\ WeekdayIsRight =>
         \E iso \in {ts_to_iso_week_date(now)} : \A extended, with_day \in BOOLEAN :
            parse_iso_week_date(format_iso_week_date(iso, extended, with_day))
              = IF with_day THEN iso ELSE [iso EXCEPT !.weekday = 1]
    /\ second = 0 /\ day > 0 => \A unit \in Timeframes :
         LET size == WordUnit[unit[2]]
         IN  \A text \in {Plain(day) \o <<" ", unit[2]>>, <<unit[1]>> \o Plain(day)} :
                str_to_timeframe_sec(text) = IF day <= INT64_MAX \div size THEN day * size ELSE 0

\* A text that says the same thing twice is read only if it says the same twice:
\* the weekday, the day of the year and the week must be those of the date, and
\* the seconds since 1970 those of the day.
Says(text, format, true) == [text |-> text, format |-> format, true |-> true]

FieldsMustAgree ==
    LET written  == Rendered(<<Mark(" ")>> \o DayBy(dt, "/"))
        datefmt  == <<" ", "%", "Y", "/", "%", "m", "/", "%", "d">>
        ordinal  == DayOfYear(dt.year, dt.mon, dt.day)
        claims   ==
                 {Says(<<WeekdayShort[w + 1]>>, <<"%", "a">>, w = shown.weekday) : w \in 0..6}
            \cup {Says(Plain(w), <<"%", "u">>, w % 7 = shown.weekday) : w \in 1..7}
            \cup {Says(Padded(n, 3), <<"%", "j">>, n = ordinal) : n \in ordinal - 1 .. ordinal + 1}
            \cup {Says(Plain(n * SEC_PER_DAY), <<"%", "s">>, n = day) : n \in day - 1 .. day + 1}
            \cup {Says(Padded(h, 2) \o <<half>>, <<"%", "I", "%", "p">>, h \in 1..12) :
                    h \in {0, 1, 11, 12, 13}, half \in {"AM", "PM"}}
            \cup {Says(Padded(1, 2), <<"%", "V">>, FALSE)}
    IN  second = 0 /\ WeekdayIsRight =>
        \A claim \in claims :
            claim.true <=> try_parse_format(claim.text \o written, claim.format \o datefmt) # NotParsed

\* A moment with an offset, at its parts of a second: half an hour among the
\* offsets, and the first and the last of the world.
Zoned == {from_unix_ms(sec_to_ms(now) + sample[1], sample[2]) :
            sample \in {<<0, 0>>, <<7, 5 * SEC_PER_HOUR + HALF_HOUR>>,
                        <<0, 14 * SEC_PER_HOUR>>, <<MS_PER_SEC - 1, -12 * SEC_PER_HOUR>>}}

\* The first and the last second of the days around the turn of a month, where an
\* offset leads into another day, month or year.
AtMonthTurn == second \in {0, SEC_PER_DAY - 1} /\ dt.day \notin 3 .. 27

\* What a moment says of itself, in its offset and in UTC.
Views(t) ==
    {[dt |-> to_date_time_struct_local(t), shift |-> t.offset,
      weekday |-> local_weekday(t), week |-> local_iso_week_date(t),
      pages |-> <<start_of_local_day(t), end_of_local_day(t), start_of_local_month(t),
                  end_of_local_month(t), start_of_local_year(t), end_of_local_year(t)>>],
     [dt |-> to_date_time_struct_utc(t), shift |-> 0,
      weekday |-> utc_weekday(t), week |-> utc_iso_week_date(t),
      pages |-> <<start_of_utc_day(t), end_of_utc_day(t), start_of_utc_month(t),
                  end_of_utc_month(t), start_of_utc_year(t), end_of_utc_year(t)>>]}

\* The same pages of the wall calendar, hung up where the clock is shifted so far.
Pages(d, shift, offset) ==
    LET Start(number) == from_unix_ms(unix_day_to_ts_ms(number) - sec_to_ms(shift), offset)
        Stop(number)  == add_ms(Start(number), -1)
        number == DayNumber(d.year, d.mon, d.day)
        first  == number - d.day + 1
    IN  <<Start(number), Stop(number + 1), Start(first), Stop(first + MonthLength(d.year, d.mon)),
          Start(DayNumber(d.year, 1, 1)), Stop(DayNumber(d.year + 1, 1, 1))>>

\* The date is one of the wall calendar shifted so far; the weekday and the pages
\* are its, and the fields and the week lead back to the moment.
ViewIsRight(t, d, view) ==
    \E number \in {DayNumber(d.year, d.mon, d.day)}, same \in {with_offset(t, view.shift)} :
        /\ d.day \in 1 .. MonthLength(d.year, d.mon)
        /\ sec_to_ms(number * SEC_PER_DAY + sec_of_time(d.hour, d.min, d.sec)) + d.ms = local_ms(same)
        /\ view.weekday = WeekdayOf(number)
        /\ view.pages = Pages(d, view.shift, t.offset)
        /\ try_from_components(d.year, d.mon, d.day, d.hour, d.min, d.sec, d.ms, view.shift) = same
        /\ from_iso_week_date(view.week, d.hour, d.min, d.sec, d.ms, view.shift) = same
        /\ try_from_date_time_struct(d, view.shift + 27 * SEC_PER_HOUR) = NoMatch

\* Settings of a clock, the clock they lead to, and what it shows now: a refused
\* one leaves the clock as it was.
Setting(clock, text, after) == [clock |-> clock, text |-> text, after |-> after]
Settings ==
         {Setting(FixedClock(HALF_HOUR), <<" ", zone, " ">>, NamedClock(zone)) :
            zone \in {"CET", "ET", "IST"}}
    \cup {Setting(NamedClock("ET"), text, NamedClock("ET")) :
            text \in {<<" ">>, <<"UNKNOWN">>, Rendered(OffsetText(TimeZoneStruct(14, 1, TRUE), <<":">>))}}
    \cup {Setting(NamedClock("CET"), Rendered(OffsetText(to_time_zone(minutes * SEC_PER_MIN), <<":">>)),
                  FixedClock(minutes * SEC_PER_MIN)) : minutes \in {-1, 0, 14 * MIN_PER_HOUR}}
Snapshots == {from_utc_ms(setting.after, sec_to_ms(now) + MS_PER_SEC - 1) : setting \in Settings}

\* A moment keeps its place however it is shown: fields, weekday, pages and texts
\* in its offset are those of the wall calendar shifted by the offset, those in
\* UTC the ones not shifted, and they lead back to it. A clock shows the time of
\* its zone.
LocalTimesAgree == MsRange =>
    /\ AtMonthTurn => \A t \in Zoned : \A view \in Views(t) : ViewIsRight(t, view.dt, view)
    /\ AtMonthTurn => \A t \in Zoned :
         /\ same_local(t, zoned_to_utc(t)) <=> t.offset = 0
         /\ utc_is_workday(t) = (shown.weekday \in 1..5)
         /\ local_ms(t) >= 0 => /\ local_is_workday(t) = (local_weekday(t) \in 1..5)
                                /\ local_is_weekend(t) # local_is_workday(t)
    /\ \A t \in Snapshots \cup (IF AtMonthTurn THEN Zoned ELSE {}) :
         \A pair \in {<<zoned_to_iso8601(t), t>>, <<zoned_to_iso8601_utc(t), zoned_to_utc(t)>>} :
            try_parse_iso8601(pair[1]) = pair[2]
    /\ second = 0 => \A s \in Settings : try_set_zone(s.clock, s.text) = s.after
    /\ \A zone \in {"CET", "ET", "IST"} :
         local_ms(from_utc_s(NamedClock(zone), now)) = sec_to_ms(gmt_to_zone(now, zone))

\* The header's promise of end_of_year(), everywhere: the second behind it belongs
\* to the next year, and it to this one.
EndOfYearIsLast ==
    /\ year_of(end_of_year(now)) = dt.year
    /\ year_of(end_of_year(now) + 1) = dt.year + 1
=============================================================================
