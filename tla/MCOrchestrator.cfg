SPECIFICATION Spec
CONSTANTS
    k1 = k1
    k2 = k2
    Cands = {k1, k2}
    MaxRounds = 2
    MaxWaves = 2
    MaxCrashes = 1
    MaxResumes = 1
INVARIANTS FailureIsExplained PublishedOnce EvidenceIsPublished
PROPERTIES CampaignEnds
CHECK_DEADLOCK FALSE
