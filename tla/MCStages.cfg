SPECIFICATION StagesSpec
CONSTANTS
    N = 4
    Pages <- MCPages
    NoListing = "none"
    Requests <- MCRequests
    Finds <- MCFinds
    Lanes = {"dense"}
    Languages = {"en", "ja", "ko", "fr", "ru"}
    MaxImages = 3
    HypCeiling = 3
    Ceiling = 12
    MaxPerFamily = 4
    MaxPerRound = 8
    MaxRounds = 3
    MaxPairs = 4
    ExactColour = TRUE
    TablePresent = TRUE
    Wanted <- MCWanted
    Years <- MCYears
    Hauls <- MCHauls
    BroadCap = 4
    FineCap = 2
    PartCap = 3
    DeepCap = 1
    DeliberateCap = 2
    MaxHauls = 2
    Verified = {1}
    FirstPages <- MCFirstPages
    LaterPages <- MCLaterPages
    MaxLooks = 2
INVARIANTS
    EveryListingRepresented
    MergesJustified
    LanguagesCovered
    NothingAskedTwice
    GroupsAreComponents
    BestAreCompared
    UnchangedIsNotContradicted
CHECK_DEADLOCK FALSE
