SPECIFICATION StreamedSpec
CONSTANTS
    api = api
    w1 = w1
    c1 = c1
    Procs = {api}
    Workers = {w1}
    Cancellers = {c1}
    ApiWorker = w1
    Home <- MCHome
    Targets <- MCTargets
    Situations <- MCSituations
    MaxVersion = 2
    MaxLog = 5
    MaxLaunches = 0
    MaxCrashes = 1
    MaxDrops = 1
INVARIANTS NoGapNoDuplicate
PROPERTIES StreamEnds 
CHECK_DEADLOCK FALSE
