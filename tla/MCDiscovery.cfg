SPECIFICATION Spec
CONSTANTS
    a = a
    b = b
    q1 = q1
    u1 = u1
    u2 = u2
    u3 = u3
    NoItem = NoItem
    Sources = {a, b}
    Queries = {q1}
    Urls = {u1, u2, u3}
    UrlsOf <- MCUrlsOf
    Links <- MCLinks
    Ceiling = 3
    Floor = 1
    Batch = 2
    MaxWork = 3
    MaxAttempts = 2
    MaxRuns = 2
    MaxCrashes = 1
INVARIANTS FloorHeld CancelStopsFetching
PROPERTIES InhibitionOfReturn DiscoveryEnds
CHECK_DEADLOCK FALSE
