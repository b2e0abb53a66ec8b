SPECIFICATION Safety
CONSTANTS
    Lookups = {l1, l2}
    NoOne = NoOne
    HeaderBytes = {200, 8200, 16384, 16385}
    Escaped = {0, 8184}
    ServerVerdicts = {"ok", "unauthorized"}
    MAX_AUTHORIZATION_BYTES = 16384
    MAX_FRAME_BYTES = 16384
    BackpressureFrames = 2
SYMMETRY LookupSymmetry
INVARIANT
    LinesFitTheConnection
