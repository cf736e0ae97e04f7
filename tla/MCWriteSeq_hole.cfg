CONSTANTS
    PAGE_SHIFT = 1
    NPages = 3
    Threads = {t1}
    NoThread = NoThread
    JUNK = JUNK
    NoCt = NoCt
    MaxCalls = 2
    Modes = {"plain"}
    Faults = {}
SPECIFICATION Spec
INVARIANT
    HoleReadsZero
