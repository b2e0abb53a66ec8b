SPECIFICATION SiteSpec
CONSTANTS
    Requests = {"page", "config", "script"}
    Origins <- MCOrigins
    MaxReleases = 2
    MaxLoads = 2
INVARIANTS
    SiteTypeOK
    ExitLeavesNothing
    NobodyWaitsForTheDead
    OriginIsCurrent
PROPERTIES
    AcceptedAreServed
    ShutdownEnds
    LoadEnds
CHECK_DEADLOCK FALSE
