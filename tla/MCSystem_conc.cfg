CONSTANTS
    PAGE_SHIFT = 1
    NPages = 2
    Threads = {t1, t2}
    NoThread = NoThread
    JUNK = JUNK
    NoCt = NoCt
    MaxCalls = 2
    Modes = {"encrypted"}
    Faults = {}
    ReadOffsets = {0}
SPECIFICATION Spec
PROPERTIES
    CallsReturn
