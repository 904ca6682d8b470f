SPECIFICATION Spec
CONSTANTS
    p1 = p1
    p2 = p2
    US_PER_SEC = 3
    FRAC_PER_SEC = 8
    ERA = 7
    NTP_TIMESTAMP_DELTA = 4
    Ports = {p1}
    Leads <- MCLeads
    Errors = {4}
    Start = 2
    MaxTime = 6
    MaxWire = 2
VIEW MCView
INVARIANT AnswerIsTrusted
