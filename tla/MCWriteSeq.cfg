CONSTANTS
    PAGE_SHIFT = 1
    NPages = 3
    Threads = {t1}
    NoThread = NoThread
    JUNK = JUNK
    NoCt = NoCt
    MaxCalls = 2
    Modes = {"encrypted"}
    Faults = {"grab", "crypto", "meta", "signal"}
SPECIFICATION Spec
INVARIANTS
    ErrorsReported
    Released
    RecoverableSize
PROPERTY
    RefinesExtentFile
