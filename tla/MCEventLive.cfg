SPECIFICATION FairSpec
CONSTANTS
    FdSetSize = 2
    Fds = {0}
    Funcs = {f, g}
    f = f
    g = g
    Addrs = {a1, a2}
    a1 = a1
    a2 = a2
    Delays <- JustIdle
    Usec = 1
    LongMax = 99
    Epoch = 10
    LastSec = 12
    MaxIO = 1
    MaxDepth = 2
    MaxLoop = 1
    Latency = 0
    BusyApp = TRUE
    RegisterInCallbacks = FALSE
    Cancelled = {f}
    NULL = NULL
INVARIANTS
    TimersOwned
    ActiveTimerStable
PROPERTY QuitUnwinds
