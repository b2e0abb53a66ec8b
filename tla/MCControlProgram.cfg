SPECIFICATION MCSpec
CONSTANTS
    Lookups = {l1, l2}
    Tunnels = {t1}
    Actors = {a1, a2}
    PoolSize = 1
INVARIANTS
    IInv
    NoFallback
    OnlyTheActorsRows
PROPERTIES
    WaitersGiveUp
    ImplementsTunnelBackend
CHECK_DEADLOCK FALSE
