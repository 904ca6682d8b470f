------------------------------ MODULE FastDate ------------------------------
(* detail/fast_date.hpp: between a date and the number of days since        *)
(* 1970-01-01 in both directions. Dates to days by eras of 400 years that   *)
(* begin in March; days to dates by 64-bit multiplications with constants   *)
(* that stand for the divisions, which are modelled word for word.          *)
EXTENDS Word64

Date(y, m, d) == [year |-> y, month |-> m, day |-> d]

\* C++ integer division and remainder: towards zero, with the sign of a.
TruncDiv(a, b) == IF a >= 0 THEN a \div b ELSE -((-a) \div b)
TruncMod(a, b) == a - b * TruncDiv(a, b)

\* Days before each month of a year that begins with March.
k_doy_from_march == <<0, 31, 61, 92, 122, 153, 184, 214, 245, 275, 306, 337>>

\* Days before 1 March of the year of an era, and days of an era before a date.
DayOfEra(yoe, m, d) ==
    yoe * 365 + yoe \div 4 - yoe \div 100 + k_doy_from_march[m + 1] + (d - 1)

\* Defective: the era of a negative year is rounded towards zero.
DaysByTruncation(year, month, day) ==
    LET m == IF month < 3 THEN month + 9 ELSE month - 3
        From(y, era) == era * 146097 + DayOfEra(y - era * 400, m, day) - 719468
        Of(y) == From(y, TruncDiv(y, 400))
    IN  Of(year - (IF month <= 2 THEN 1 ELSE 0))

fast_days_from_date(year, month, day) ==
    LET m == IF month < 3 THEN month + 9 ELSE month - 3
        From(y, era) == era * 146097 + DayOfEra(y - era * 400, m, day) - 719468
        Of(y) == From(y, IF y >= 0 THEN y \div 400 ELSE TruncDiv(y - 399, 400))
    IN  Of(year - (IF month <= 2 THEN 1 ELSE 0))

\* The days are counted backwards from the end of a far era, so that the
\* subtraction makes a positive number of every day the library can meet.
D_SHIFT == <<17, 158, 122, 229, 7, 116, 2, 0>>   \* 146097 * 4726498270 - 719469
Y_SHIFT == <<223, 10, 128, 48, 184, 1, 0, 0>>     \* 400 * 4726498270 - 1
C1 == <<195, 71, 230, 53, 88, 203, 1, 0>>           \* 505054698555331
C2 == <<105, 66, 145, 151, 131, 109, 179, 0>>        \* 50504432782230121
C3 == <<152, 231, 68, 16, 210, 159, 30, 0>>         \* 8619973866219416
YPT_SCALE          == ToWord(782432)
YPT_BUMP_THRESHOLD == 126464
SHIFT_JAN_FEB      == 191360
SHIFT_OTHER        == 977792

\* The part fast_date_from_days() and fast_year_from_days() share: the year that
\* begins in March, how far before its end the day lies, and whether that
\* is January or February, which belong to the next year.
SplitAt(yrs, ypt) == [yrs |-> yrs, ypt |-> ypt, bump |-> ypt < YPT_BUMP_THRESHOLD]
SplitOf(num) ==
    SplitAt(Minus(Y_SHIFT, SubSeq(num, 9, 16)), ToInt(mul_shift_u64(YPT_SCALE, SubSeq(num, 1, 8))))
JulianDays(rev, cen) == Minus(Plus(rev, cen), Quotient(cen, 4))
CenturiesAdded(rev)  == JulianDays(rev, mul_shift_u64(rev, C1))
YearSplit(days) == SplitOf(Product(CenturiesAdded(Minus(D_SHIFT, ToWord(days))), C2))

\* Defective: January and February stay in the year that began in March before.
MarchYearOf(split) == ToInt(split.yrs)

YearOf(split) == ToInt(split.yrs) + (IF split.bump THEN 1 ELSE 0)

fast_year_from_days(days) == YearOf(YearSplit(days))

DateFrom(year, N) == Date(year, N \div 65536, ToInt(mul_shift_u64(ToWord(N % 65536), C3)) + 1)
DateOf(split) ==
    DateFrom(YearOf(split),
             (split.yrs[1] % 4) * 512 + (IF split.bump THEN SHIFT_JAN_FEB ELSE SHIFT_OTHER) - split.ypt)

fast_date_from_days(days) == DateOf(YearSplit(days))
=============================================================================
