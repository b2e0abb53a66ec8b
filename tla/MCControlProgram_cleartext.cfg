SPECIFICATION MCSpec
CONSTANTS
    Lookups = {l1, l2}
    Tunnels = {t1}
    Actors = {a1, a2}
    PoolSize = 1
INVARIANT
    RemoteSharedAuthRequiresTls
CHECK_DEADLOCK FALSE
