SPECIFICATION Spec
CONSTANTS
    Lookups = {l1, l2, l3}
    NoOne = NoOne
    HeaderBytes = {200, 16385}
    Escaped = {0}
    ServerVerdicts = {"ok", "unauthorized"}
    MAX_AUTHORIZATION_BYTES = 16384
    MAX_FRAME_BYTES = 16384
    BackpressureFrames = 2
INVARIANTS
    TypeOK
    LockDiscipline
    OneLinePerLookup
    OnlyOwnVerdict
    LeftoversAreOfFailedCalls
PROPERTIES
    BacklogNeverDrains
    EveryLookupEnds
    ImplementsTunnelBackend
