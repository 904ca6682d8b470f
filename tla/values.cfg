SPECIFICATION WalkSpec
CHECK_DEADLOCK FALSE
CONSTANTS
    SEC_PER_MIN = 2
    MIN_PER_HOUR = 2
    HOURS_PER_DAY = 24
    MS_PER_SEC = 1000
    MIN_YEAR <- FirstYear
    MAX_YEAR = 2800
    INT64_MAX = 2147480647
    ERROR_TIMESTAMP = 2147480647
    invalid_argument = invalid_argument
    uninitialized = uninitialized
    Windows <- WalkWindows
    LastYear = 2799
    WholeYears = {2024}
    TurnYears <- FarYears
    ZoneYears = {2001, 2002, 2006, 2007}
    DayMoments = {48, 95}
    TurnMoments = {1, 95}
    ZoneMoments = {3, 4, 7, 8, 23, 24, 27, 28, 95}
PROPERTY CivilSpec
INVARIANT CalendarAgrees
INVARIANT PeriodsNest
INVARIANT IsoWeekAgrees
INVARIANT WorkdaysCount
INVARIANT ZonesRoundTrip
INVARIANT TextRoundTrip
INVARIANT FieldsMustAgree
INVARIANT LocalTimesAgree
