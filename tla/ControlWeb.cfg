SPECIFICATION Spec
CONSTANTS
    Requests = {r1, r2}
INVARIANTS
    StatusIsJustified
    FailsClosed
    IInv
PROPERTIES
    DrainEnds
CHECK_DEADLOCK FALSE
