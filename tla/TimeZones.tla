----------------------------- MODULE TimeZones -----------------------------
(* time_zone_offset.hpp, time_zone_offset_conversions.hpp,                   *)
(* time_zone_struct.hpp and time_zone_conversions.hpp: fixed offsets, and    *)
(* the zones of Europe and North America with the summer time they have on   *)
(* a date.                                                                   *)
EXTENDS CalendarPeriods

TimeZoneStruct(h, m, positive) == [hour |-> h, min |-> m, is_positive |-> positive]

\* Half of the sixty minutes of an hour, for India.
HALF_HOUR == (MIN_PER_HOUR \div 2) * SEC_PER_MIN

to_utc(local, utc_offset)      == IF local = ERROR_TIMESTAMP THEN ERROR_TIMESTAMP ELSE local - utc_offset
to_local(utc, utc_offset)      == IF utc = ERROR_TIMESTAMP THEN ERROR_TIMESTAMP ELSE utc + utc_offset
to_utc_ms(local_ms, utc_offset) ==
    IF local_ms = ERROR_TIMESTAMP THEN ERROR_TIMESTAMP ELSE local_ms - sec_to_ms(utc_offset)
to_local_ms(utc_ms, utc_offset) ==
    IF utc_ms = ERROR_TIMESTAMP THEN ERROR_TIMESTAMP ELSE utc_ms + sec_to_ms(utc_offset)

\* Hours and minutes of an offset lose its seconds; its sign is a field of its own.
to_time_zone_struct(offset) ==
    LET Of(abs) == TimeZoneStruct(abs \div SEC_PER_HOUR, (abs % SEC_PER_HOUR) \div SEC_PER_MIN, offset >= 0)
    IN  Of(IF offset < 0 THEN -offset ELSE offset)

time_zone_struct_to_offset(tz) ==
    LET sec == tz.hour * SEC_PER_HOUR + tz.min * SEC_PER_MIN
    IN  IF tz.is_positive THEN sec ELSE -sec

\* to_tz_offset() and to_time_zone() repeat the two above for other structures.
to_tz_offset(tz)     == (IF tz.is_positive THEN 1 ELSE -1) * (tz.hour * SEC_PER_HOUR + tz.min * SEC_PER_MIN)
to_time_zone(offset) == to_time_zone_struct(offset)

\* The sign of the hour is the sign of the minutes; minutes alone are never negative.
tz_offset_hm(hour, min) ==
    (IF hour < 0 THEN -1 ELSE 1)
      * ((IF hour < 0 THEN -hour ELSE hour) * SEC_PER_HOUR + (IF min < 0 THEN -min ELSE min) * SEC_PER_MIN)

is_valid_tz_offset(off) ==
    off % SEC_PER_MIN = 0 /\ off \in -12 * SEC_PER_HOUR .. 14 * SEC_PER_HOUR
-----------------------------------------------------------------------------
(* Europe: from the last Sunday of March to the last Sunday of October *)

MAR == 3
APR == 4
OCT == 10
NOV == 11

\* The Sunday the loop of cet_to_gmt_impl() meets from the end of the month
\* down to dt.day: 0 if the day is behind the last Sunday.
SundayFrom(dt) ==
    LET Last(sundays) == IF sundays = {} THEN 0 ELSE CHOOSE d \in sundays : \A e \in sundays : e <= d
    IN  Last({d \in dt.day .. num_days_in_month(dt.year, dt.mon) :
                day_of_week_date(dt.year, dt.mon, d) = SUN})

\* cet_to_gmt_impl(): whether a local time is in summer. Until 2001 the day of
\* the change in March has summer time from 2 o'clock, later from 3; the one in
\* October has it until 2 o'clock, before 2002 not at all.
IsCetSummer(dt) ==
    LET old == dt.year < 2002
        Until(sunday) ==
            \/ dt.mon > MAR /\ dt.mon < OCT
            \/ dt.mon = MAR /\ (sunday = 0 \/ (sunday = dt.day /\ dt.hour >= (IF old THEN 2 ELSE 3)))
            \/ dt.mon = OCT /\ sunday # 0 /\ (sunday # dt.day \/ (~old /\ dt.hour < 2))
    IN  Until(SundayFrom(dt))

cet_to_gmt(cet) == cet - SEC_PER_HOUR * (IF IsCetSummer(to_date_time(cet)) THEN 2 ELSE 1)

\* Defective: the changes at the hour of the local clock.
IsLocalSummer(dt) ==
    LET With(last) ==
            \/ dt.mon > MAR /\ dt.mon < OCT
            \/ dt.mon = MAR /\ (dt.day > last \/ (dt.day = last /\ dt.hour >= 2))
            \/ dt.mon = OCT /\ (dt.day < last \/ (dt.day = last /\ dt.hour < 2))
    IN  With(last_sunday_month_day(dt.year, dt.mon))

\* gmt_to_cet_impl(): both changes are at 1 o'clock.
IsGmtSummer(dt) ==
    LET With(last) ==
            \/ dt.mon > MAR /\ dt.mon < OCT
            \/ dt.mon = MAR /\ (dt.day > last \/ (dt.day = last /\ dt.hour >= 1))
            \/ dt.mon = OCT /\ (dt.day < last \/ (dt.day = last /\ dt.hour < 1))
    IN  With(last_sunday_month_day(dt.year, dt.mon))

gmt_to_cet(gmt) == gmt + SEC_PER_HOUR * (IF IsGmtSummer(to_date_time(gmt)) THEN 2 ELSE 1)

\* The other zones of Europe change at the same moment.
european_local_to_gmt(local, standard) == cet_to_gmt(local - SEC_PER_HOUR * (standard - 1))
gmt_to_european_local(gmt, standard)   == gmt_to_cet(gmt) + SEC_PER_HOUR * (standard - 1)
eet_to_gmt(eet) == european_local_to_gmt(eet, 2)
gmt_to_eet(gmt) == gmt_to_european_local(gmt, 2)
-----------------------------------------------------------------------------
(* North America: since 2007 from the second Sunday of March to the first of *)
(* November, before from the first Sunday of April to the last of October    *)

FirstSunday(year, month) == 1 + ((DAYS_PER_WEEK - day_of_week_date(year, month, 1)) % DAYS_PER_WEEK)

is_us_eastern_dst_local(dt) ==
    LET Between(start_month, start_day, end_month, end_day) ==
            \/ dt.mon > start_month /\ dt.mon < end_month
            \/ dt.mon = start_month /\ (dt.day > start_day \/ (dt.day = start_day /\ dt.hour >= 2))
            \/ dt.mon = end_month /\ (dt.day < end_day \/ (dt.day = end_day /\ dt.hour < 2))
    IN  IF dt.year >= 2007
        THEN Between(MAR, FirstSunday(dt.year, MAR) + 7, NOV, FirstSunday(dt.year, NOV))
        ELSE Between(APR, FirstSunday(dt.year, APR), OCT, last_sunday_month_day(dt.year, OCT))

et_to_gmt(et) == et + SEC_PER_HOUR * (IF is_us_eastern_dst_local(to_date_time(et)) THEN 4 ELSE 5)

\* Summer time is looked up with the standard time, also at its end.
gmt_to_et(gmt) ==
    gmt - SEC_PER_HOUR * (IF is_us_eastern_dst_local(to_date_time(gmt - SEC_PER_HOUR * 5)) THEN 4 ELSE 5)

ct_to_gmt(ct)  == et_to_gmt(ct + SEC_PER_HOUR)
gmt_to_ct(gmt) == gmt_to_et(gmt) - SEC_PER_HOUR
-----------------------------------------------------------------------------
(* All zones *)

\* Seconds of every zone fixed_zone_offset() knows.
FixedOffset ==
    LET hours == [GMT |-> 0, UTC |-> 0, WET |-> 0, WEST |-> 1, CET |-> 1, CEST |-> 2, EET |-> 2,
                  EEST |-> 3, IST |-> 5, MYT |-> 8, WITA |-> 8, SGT |-> 8, PHT |-> 8, HKT |-> 8,
                  WIB |-> 7, ICT |-> 7, WIT |-> 9, JST |-> 9, KST |-> 9, KZT |-> 5, TRT |-> 3,
                  BYT |-> 3, GST |-> 4]
    IN  [zone \in DOMAIN hours |-> hours[zone] * SEC_PER_HOUR + (IF zone = "IST" THEN HALF_HOUR ELSE 0)]

TimeZone == DOMAIN FixedOffset \cup {"ET", "CT", "UNKNOWN"}

\* The zones with summer time: hours of their standard time, the American ones
\* behind the East.
European == [WET |-> 0, CET |-> 1, EET |-> 2]
American == [ET |-> 0, CT |-> 1]
Seasonal == DOMAIN European \cup DOMAIN American

zone_to_gmt(local, zone) ==
    CASE local = ERROR_TIMESTAMP \/ zone = "UNKNOWN" -> ERROR_TIMESTAMP
      [] local # ERROR_TIMESTAMP /\ zone \in DOMAIN European ->
             european_local_to_gmt(local, European[zone])
      [] local # ERROR_TIMESTAMP /\ zone \in DOMAIN American ->
             et_to_gmt(local + SEC_PER_HOUR * American[zone])
      [] OTHER -> to_utc(local, FixedOffset[zone])

gmt_to_zone(gmt, zone) ==
    CASE gmt = ERROR_TIMESTAMP \/ zone = "UNKNOWN" -> ERROR_TIMESTAMP
      [] gmt # ERROR_TIMESTAMP /\ zone \in DOMAIN European ->
             gmt_to_european_local(gmt, European[zone])
      [] gmt # ERROR_TIMESTAMP /\ zone \in DOMAIN American ->
             gmt_to_et(gmt) - SEC_PER_HOUR * American[zone]
      [] OTHER -> to_local(gmt, FixedOffset[zone])

convert_time_zone(local, from, to) ==
    LET Onward(gmt) == IF gmt = ERROR_TIMESTAMP THEN ERROR_TIMESTAMP ELSE gmt_to_zone(gmt, to)
    IN  Onward(zone_to_gmt(local, from))

\* The milliseconds of the second are kept aside.
WithMsOf(ts_ms, sec) ==
    IF sec = ERROR_TIMESTAMP THEN ERROR_TIMESTAMP
    ELSE sec_to_ms(sec) + (ts_ms - sec_to_ms(ms_to_sec(ts_ms)))
zone_to_gmt_ms_by_seconds(local_ms, zone) == WithMsOf(local_ms, zone_to_gmt(ms_to_sec(local_ms), zone))
gmt_to_zone_ms_by_seconds(gmt_ms, zone)   == WithMsOf(gmt_ms, gmt_to_zone(ms_to_sec(gmt_ms), zone))

zone_to_gmt_ms(local_ms, zone) ==
    CASE local_ms = ERROR_TIMESTAMP \/ zone = "UNKNOWN" -> ERROR_TIMESTAMP
      [] local_ms # ERROR_TIMESTAMP /\ zone \in Seasonal ->
             zone_to_gmt_ms_by_seconds(local_ms, zone)
      [] OTHER -> to_utc_ms(local_ms, FixedOffset[zone])

gmt_to_zone_ms(gmt_ms, zone) ==
    CASE gmt_ms = ERROR_TIMESTAMP \/ zone = "UNKNOWN" -> ERROR_TIMESTAMP
      [] gmt_ms # ERROR_TIMESTAMP /\ zone \in Seasonal ->
             gmt_to_zone_ms_by_seconds(gmt_ms, zone)
      [] OTHER -> to_local_ms(gmt_ms, FixedOffset[zone])

convert_time_zone_ms(local_ms, from, to) ==
    LET Onward(gmt_ms) == IF gmt_ms = ERROR_TIMESTAMP THEN ERROR_TIMESTAMP ELSE gmt_to_zone_ms(gmt_ms, to)
    IN  Onward(zone_to_gmt_ms(local_ms, from))
=============================================================================
