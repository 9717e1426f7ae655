SPECIFICATION WarmSpec
CONSTANTS
    Campaigns = {a, b}
    Pack <- MCPack
    OnSale = {"u1"}
    QueryTexts <- MCQueries
    Ttl = 0
    MaxTime = 1
    MaxCrashes = 1
INVARIANTS OnceOnly IndexIsTakenOver
PROPERTIES ResumeEnds
CHECK_DEADLOCK FALSE
