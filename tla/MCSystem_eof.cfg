CONSTANTS
    PAGE_SHIFT = 1
    NPages = 3
    Threads = {t1}
    NoThread = NoThread
    JUNK = JUNK
    NoCt = NoCt
    MaxCalls = 3
    Modes = {"encrypted"}
    Faults = {}
    ReadOffsets = {4}
SPECIFICATION Spec
PROPERTY
    CallsReturn
CHECK_DEADLOCK FALSE
