SPECIFICATION Spec
CONSTANTS
    Threads = {t1, t2}
    Refs = {r1, r2}
    WRefs = {w1, w2}
    Null = Null
    Shared = Shared
INVARIANTS NoUseAfterFree FreedOnceNoLeak
PROPERTIES LockFailsOnlyWhenDead ImplementsOwnership
CHECK_DEADLOCK FALSE
