CONSTANTS
    PAGE_SHIFT = 1
    NPages = 1
    Threads = {t1, t2}
    NoThread = NoThread
    JUNK = JUNK
    NoCt = NoCt
    MaxCalls = 3
    Modes = {"encrypted"}
    Faults = {}
    ReadOffsets = {0}
SPECIFICATION Spec
PROPERTY
    BatchedPagesKept
