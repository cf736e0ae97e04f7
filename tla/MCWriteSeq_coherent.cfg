CONSTANTS
    PAGE_SHIFT = 1
    NPages = 3
    Threads = {t1, t2}
    NoThread = NoThread
    JUNK = JUNK
    NoCt = NoCt
    MaxCalls = 2
    Modes = {"encrypted"}
    Faults = {}
SPECIFICATION Spec
INVARIANT
    CacheCoherent
