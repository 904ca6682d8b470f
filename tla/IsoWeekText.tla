----------------------------- MODULE IsoWeekText -----------------------------
(* iso_week_conversions.hpp: the text of ISO 8601 week dates, and its parser. *)
EXTENDS IsoWeek, Text

\* The extended form has dashes; the weekday may be left out.
format_iso_week_date(iso, extended, include_weekday) ==
    LET dash == IF extended THEN <<"-">> ELSE <<>>
        day  == IF include_weekday THEN <<Chars(dash), Num(iso.weekday, 1)>> ELSE <<>>
    IN  IF is_valid_iso_week_date(iso.year, iso.week, IF include_weekday THEN iso.weekday ELSE 1)
        THEN Rendered(<<Num(iso.year, 1), Chars(dash \o <<"W">>), Num(iso.week, 2)>> \o day)
        ELSE invalid_argument

\* Where the weekday's digit is: at once or behind a dash, in both branches of the
\* code, whatever followed the year. 0 if there is none.
WeekdayAt(text, p) ==
    LET q == IF Has(text, p, {"-"}) THEN p + 1 ELSE p
    IN  IF Has(text, q, Digits) THEN q ELSE 0

Valid(iso) == IF is_valid_iso_week_date(iso.year, iso.week, iso.weekday) THEN iso ELSE NoMatch

\* year, optional dash, W, two digits, optional weekday; the whole text.
parse_iso_week_date(text) ==
    LET end == Len(text)
        WithDay(year, week, at) ==
            IF at = 0 \/ week = 0 \/ at < end THEN NoMatch
            ELSE Valid(IsoWeekDate(year, week, IF at > end THEN 1 ELSE DigitValue[text[at]]))
        AtDay(year, week) ==
            IF Failed(week) THEN NoMatch
            ELSE WithDay(year.value, week.value,
                         IF week.at > end THEN week.at ELSE WeekdayAt(text, week.at))
        AtWeek(year, p) ==
            IF Has(text, p, {"W", "w"}) THEN AtDay(year, Unsigned(text, p + 1, 2, 2)) ELSE NoMatch
        AtYear(year) ==
            IF Failed(year) THEN NoMatch
            ELSE AtWeek(year, IF Has(text, year.at, {"-"}) THEN year.at + 1 ELSE year.at)
    IN  AtYear(Signed(text, 1, 1, end))
=============================================================================
