SPECIFICATION Spec
CONSTANTS
    Campaigns = {c1, c2}
    Images = {i1, i2}
    Pages = {p1}
    Source = Source
    Deleter = Deleter
    Absent = Absent
    Torn = Torn
    Nobody = Nobody
    MaxPuts = 2
    MaxCrashes = 1
SYMMETRY Symmetry
INVARIANTS
    ReadersStoredIt
    DeletedIsGone
CHECK_DEADLOCK FALSE
