SPECIFICATION CatalogueSpec
CONSTANTS
    Sources = {"a", "b"}
    NoSource = "none"
    Products = {1, 2, 3, 4}
    Indexes = {11, 12, 14}
    Strategy <- MCStrategy
    SeedDepth <- MCSeedDepth
    Paths <- MCPaths
    Origins <- MCOrigins
    Declared <- MCDeclared
    SearchAdmitted = {}
    Disallowed = {22}
    Admitted <- MCAdmitted
    InLoc = {1}
    SaysProduct = {1, 2, 3, 4}
    Queries <- MCQueries
    FeedPages <- MCPages
    Bodies <- MCBodies
    PageSize = 2
    EnvShare = 64
    EnvCap = 3
    ShareFloor = 2
    PromoteShare = 1
    PromoteCap = 2
    IndexCap = 2
    ExpandCap = 2
    MaxDepth = 1
    MaxWork = 2
    Batch = 1
    Ceiling = 3
INVARIANTS
    ReceiptsChain
PROPERTIES
    WalksEnd
