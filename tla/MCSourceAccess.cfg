SPECIFICATION Spec
CONSTANTS
    Threads = {t1, t2}
    Threshold = 2
    OpenFor = 2
    Ttl = 2
    MaxWork = 2
    PageOutcomes = {"MATCHES_FOUND", "NO_MATCH", "BLOCKED_BY_ACCESS", "NETWORK_FAILED"}
    DiscoverBlocks = {"SOURCE_UNAVAILABLE"}
    MaxTime = 4
    MaxFailures = 3
SYMMETRY Symmetry
PROPERTY BlockStands
CHECK_DEADLOCK FALSE
