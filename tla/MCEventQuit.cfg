\* Violated: a select() that fails leaves event->loop raised, and the next
\* loop needs two calls of event_loop_quit().
SPECIFICATION Spec
CONSTANTS
    FdSetSize = 2
    Fds = {0}
    Funcs = {}
    Addrs = {}
    Delays <- NoDelays
    Usec = 1
    LongMax = 99
    Epoch = 10
    LastSec = 11
    MaxIO = 1
    MaxDepth = 1
    MaxLoop = 2
    Latency = 0
    BusyApp = FALSE
    RegisterInCallbacks = FALSE
    Cancelled = {}
    NULL = NULL
PROPERTY QuitEndsLoop
