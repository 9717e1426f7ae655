SPECIFICATION FetchSpec
CONSTANTS
    s1 = s1
    s2 = s2
    c1 = c1
    u1 = u1
    u2 = u2
    NoUrl = NoUrl
    Sources = {s1, s2}
    Checkers = {c1}
    Urls = {u1, u2}
    Wants <- MCWants
    Deadline = 4
    Low = 2
    High = 3
    RobotsGap = 1
    Naps = {1, 2}
    RetryCeiling = 2
    Ceiling = 4
    Replies = {"MATCHES_FOUND", "RATE_LIMITED", "BLOCKED_BY_ACCESS"}
    MaxLapses = 1
INVARIANTS SlotsApart
PROPERTIES FetchesEnd
CHECK_DEADLOCK FALSE
