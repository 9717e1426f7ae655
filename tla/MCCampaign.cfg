SPECIFICATION Spec
CONSTANTS
    api = api
    cli1 = cli1
    cli2 = cli2
    w1 = w1
    w2 = w2
    c1 = c1
    c2 = c2
    Procs = {api, cli1, cli2}
    Workers = {w1, w2}
    Cancellers = {c1}
    ApiWorker = w1
    Home <- MCHome
    Targets <- MCTargets
    Situations <- MCSituations
    MaxVersion = 2
    MaxLog = 4
    MaxLaunches = 1
    MaxCrashes = 1
INVARIANTS CancelStopsWork LogAccountsForRow
PROPERTIES RowFollowsLife
CHECK_DEADLOCK FALSE
