CONSTANTS
    PAGE_SHIFT = 1
    NPages = 3
    Threads = {t1}
    NoThread = NoThread
    JUNK = JUNK
    NoCt = NoCt
    MaxCalls = 2
    Modes = {"encrypted"}
    Faults = {"crypto"}
SPECIFICATION Spec
INVARIANT
    ErrorsReported
