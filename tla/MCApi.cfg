SPECIFICATION ApiSpec
CONSTANTS
    api = api
    cli = cli
    t1 = t1
    t2 = t2
    t3 = t3
    Procs = {api, cli}
    Threads = {t1, t2, t3}
    Home <- MCHome
    ApiProc = api
    Ceiling <- MCCeiling
    Sizes = {1, 2}
    MaxCrashes = 1
    Searches = 2
    Forms <- MCForms
    NoKey = "none"
    Order <- MCOrder
    Walks <- MCWalks
    Reports <- MCWalks
    Slots = {1, 2}
    MaxRequests = 2
    MaxRestarts = 1
    MaxPairs = 4
    ExactColour = TRUE
    TablePresent = TRUE
    Hauls <- MCHauls
    Catalogues = {"rebag"}
    MaxLaps = 2
    MaxViews = 2
INVARIANTS
    NeverExceedsCeiling
    OvershootBounded
    StartedOnce
    EverySourceTold
    NothingAfterPurge
    ShownAsDecided
    LabelsFitTabs
    ShownStays
CHECK_DEADLOCK FALSE
