SPECIFICATION Spec
CONSTANTS
    MaxPairs = 4
    ExactColour = TRUE
    TablePresent = TRUE
    References <- MCReferences
    Links <- MCLinks
    L1 = L1
    L2 = L2
    Offers <- MCOffers
    Says <- MCSays
    MaxRounds = 2
    MaxPages = 1
    MaxChanges = 1
    MaxRefreshes = 1
    MaxCrashes = 1
SYMMETRY Sym
INVARIANTS
    
    ShownNotKnownDead
CHECK_DEADLOCK FALSE
