SPECIFICATION Spec
CONSTANTS
    FdSetSize = 2
    Fds = {0}
    Funcs = {f}
    f = f
    Addrs = {a1, a2}
    a1 = a1
    a2 = a2
    Delays <- ThreeDelays
    Usec = 3
    LongMax = 99
    Epoch = 10
    LastSec = 14
    MaxIO = 1
    MaxDepth = 1
    MaxLoop = 1
    Latency = 1
    BusyApp = FALSE
    RegisterInCallbacks = TRUE
    Cancelled = {}
    NULL = NULL
SYMMETRY Symmetry
INVARIANTS
    TypeOK
    WakeScheduled
    SelectTimeoutValid
    NotTooEarly
    NotTooLate
    WatchedExact
