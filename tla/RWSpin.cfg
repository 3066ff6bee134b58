SPECIFICATION RWSpec
CONSTANTS
    Threads = {t1, t2, t3}
    Refs = {r1}
    WRefs = {w1}
    Null = Null
    Shared = Shared
INVARIANTS WriterAlone
PROPERTIES ImplementsRWLock ReadersServed
