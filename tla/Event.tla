------------------------------- MODULE Event -------------------------------
(***************************************************************************)
(* The event loop of libSystem, src/src/event.c: one Event, the            *)
(* application that calls its functions, and the select() it sleeps in.    *)
(*                                                                         *)
(* The program is single-threaded, but every callback is application code  *)
(* that may call any function of event.h before it returns, event_loop     *)
(* included.  "stack" holds one frame per active event_loop: control is    *)
(* with the application when it is empty or when its top frame is inside a *)
(* callback, and with the library otherwise.                               *)
(*                                                                         *)
(* Beside some definitions stands a variant with a slip in it (no unit     *)
(* borrowed, an entry leaked, ...).  No behaviour uses a variant: each is  *)
(* there to put in the place of the definition below it and see a property *)
(* fail.                                                                   *)
(***************************************************************************)
EXTENDS ArraySeq

CONSTANTS
    FdSetSize,  \* FD_SETSIZE: an fd_set holds descriptors below it
    Fds,        \* the file descriptors in use
    Funcs,      \* the timeout callbacks
    Addrs,      \* the addresses object_new() may return for an EventTimeout
    Delays,     \* the timevals given to event_register_timeout()
    Usec,       \* ticks in a second: 1000000 in the code
    LongMax,    \* LONG_MAX
    Epoch,      \* the second the clock starts at
    LastSec,    \* bound: the clock stays below this second
    MaxIO,      \* bound: entries in each of the arrays reads and writes
    MaxDepth,   \* bound: loops running inside one another
    MaxLoop,    \* bound: the counter event->loop
    Latency,    \* bound: ticks select() may oversleep its timeout by
    BusyApp,    \* whether time also passes while the application runs
    RegisterInCallbacks, \* whether callbacks register descriptors and timeouts
    Cancelled,  \* the callbacks given to event_unregister_timeout()
    NULL

Dirs == {"read", "write"}
Other(d) == CHOOSE e \in Dirs : e # d

----------------------------------------------------------------------------
(* struct timeval.  Before is the lexicographic comparison the code spells *)
(* out wherever it compares two timevals.                                  *)

Zero == [sec |-> 0, usec |-> 0]
Forever == [sec |-> LongMax, usec |-> LongMax]
Timevals == [sec : Int, usec : Int]
ClockTimes == [sec : Epoch..(LastSec - 1), usec : 0..(Usec - 1)]

Before(a, b) == a.sec < b.sec \/ (a.sec = b.sec /\ a.usec < b.usec)
Plus(a, b) == [sec |-> a.sec + b.sec, usec |-> a.usec + b.usec]
Minus(a, b) == [sec |-> a.sec - b.sec, usec |-> a.usec - b.usec]
Earliest(a, b) == IF Before(a, b) THEN a ELSE b
ExpiredInSeconds(now, due) == now.sec >= due.sec
Expired(now, due) == ~Before(now, due)
Ticks(t) == Usec * t.sec + t.usec

(* What _loop_timeout makes of a difference whose microseconds went below  *)
(* zero: a second is taken away and the sign of the microseconds dropped.  *)
NoBorrow(r) == r
Borrow(r) ==
    IF r.usec >= 0 THEN r ELSE [sec |-> r.sec - 1, usec |-> -r.usec]

(* The same step in event_unregister_timeout, which keeps seconds at 0.    *)
BorrowAtZero(r) ==
    IF r.usec >= 0
    THEN r
    ELSE [sec |-> IF r.sec - 1 < 0 THEN 0 ELSE r.sec - 1, usec |-> -r.usec]

EventTimeouts == [initial : Timevals, timeout : Timevals, func : Funcs]

(* The callers of event.h pass descriptors that an fd_set can hold, and    *)
(* reduced timevals that are not negative; no time reaches LONG_MAX.       *)
ASSUME FdAssumption == FdSetSize \in Nat /\ Fds \subseteq 0..(FdSetSize - 1)
ASSUME TimeAssumption ==
    /\ Usec \in Nat \ {0} /\ LongMax \in Nat /\ 2 * Usec <= LongMax
    /\ Epoch \in Nat /\ LastSec \in Nat /\ Epoch < LastSec
    /\ Delays \subseteq [sec : Nat, usec : 0..(Usec - 1)]
    /\ \A delay \in Delays : LastSec + delay.sec <= LongMax
    /\ Latency \in Nat
ASSUME NullAssumption == NULL \notin Addrs /\ NULL \notin EventTimeouts

(* The greatest of a set of descriptors, -1 when there is none.            *)
MaxFd(S) == Max(S \cup {-1})
----------------------------------------------------------------------------
VARIABLES
    loop,     \* event->loop
    fdmax,    \* event->fdmax
    fds,      \* event->rfds and event->wfds
    ios,      \* event->reads and event->writes: the fd of each entry
    timers,   \* event->timeouts: the address of each entry
    heap,     \* the EventTimeout at each address, NULL when free
    timeout,  \* event->timeout
    clock,    \* the time of day
    scan,     \* the next i of event_unregister_timeout's second loop, or 0
    stack,    \* the active loops, outermost first
    flag      \* the int that event_loop_while() watches

io == <<fdmax, fds, ios>>
timing == <<timers, heap, timeout>>
vars == <<loop, io, timing, clock, scan, stack, flag>>

(* The locals of an active event_loop and of the function it is in: pc is  *)
(* "test" at the loop's condition, "timers" in _loop_timeout, "read" and   *)
(* "write" in the two _loop_io; cb while a callback runs; ready the copies *)
(* of rfds and wfds that select() filled.                                  *)
Frames == [flagged : BOOLEAN, pc : {"test", "timers"} \cup Dirs, cb : BOOLEAN,
           i : Nat, now : Timevals, et : Addrs \cup {NULL},
           fd : Fds \cup {-1}, ready : [Dirs -> SUBSET Fds]]

NewFrame(flagged) ==
    [flagged |-> flagged, pc |-> "test", cb |-> FALSE, i |-> 1, now |-> Zero,
     et |-> NULL, fd |-> -1, ready |-> [d \in Dirs |-> {}]]

TypeOK ==
    /\ loop \in Nat
    /\ fdmax \in Fds \cup {-1}
    /\ fds \in [Dirs -> SUBSET Fds]
    /\ ios \in [Dirs -> Seq(Fds)]
    /\ timers \in Seq(Addrs)
    /\ heap \in [Addrs -> EventTimeouts \cup {NULL}]
    /\ timeout \in Timevals
    /\ clock \in ClockTimes
    /\ scan \in Nat
    /\ stack \in Seq(Frames)
    /\ flag \in BOOLEAN

(* event_new() *)
Init ==
    /\ loop = 0
    /\ fdmax = -1
    /\ fds = [d \in Dirs |-> {}]
    /\ ios = [d \in Dirs |-> <<>>]
    /\ timers = <<>>
    /\ heap = [a \in Addrs |-> NULL]
    /\ timeout = Forever
    /\ clock = [sec |-> Epoch, usec |-> 0]
    /\ scan = 0
    /\ stack = <<>>
    /\ flag = TRUE

Top == stack[Len(stack)]
SetTop(f) == stack' = [stack EXCEPT ![Len(stack)] = f]
Pop == stack' = SubSeq(stack, 1, Len(stack) - 1)

(* Who holds the processor. *)
AppInControl == scan = 0 /\ (stack # <<>> => Top.cb)
LibraryAt(pc) == scan = 0 /\ stack # <<>> /\ ~Top.cb /\ Top.pc = pc
InCallback(pc) == scan = 0 /\ stack # <<>> /\ Top.cb /\ Top.pc = pc
----------------------------------------------------------------------------
(* The calls of the application.                                           *)

MayRegister == AppInControl /\ (stack # <<>> => RegisterInCallbacks)

(* Contract: no loop is started below a timeout callback.  _loop_timeout   *)
(* keeps the EventTimeout of the callback in a local, which a nested       *)
(* _loop_timeout may remove and free.                                      *)
MayLoop == AppInControl /\ \A k \in DOMAIN stack : stack[k].pc # "timers"

(* Contract: a timeout callback unregisters no callback that has an entry  *)
(* at or before its own, itself included; it returns non-zero instead.     *)
MayUnregisterTimeout(func) ==
    /\ AppInControl
    /\ InCallback("timers") =>
           \A k \in 1..Top.i : heap[timers[k]].func # func

(* event_loop(event), and event_loop_while(event, &flag) when flagged.     *)
EventLoop(flagged) ==
    /\ MayLoop
    /\ Len(stack) < MaxDepth
    /\ loop < MaxLoop
    /\ loop' = loop + 1
    /\ stack' = Append(stack, NewFrame(flagged))
    /\ UNCHANGED <<io, timing, clock, scan, flag>>

EventLoopQuitUnguarded ==
    /\ AppInControl
    /\ loop' = loop - 1
    /\ UNCHANGED <<io, timing, clock, scan, stack, flag>>
EventLoopQuit ==
    /\ AppInControl
    /\ loop > 0
    /\ loop' = loop - 1
    /\ UNCHANGED <<io, timing, clock, scan, stack, flag>>

(* The application writes the variable event_loop_while() reads.           *)
SetFlag ==
    /\ AppInControl
    /\ flag' = ~flag
    /\ UNCHANGED <<loop, io, timing, clock, scan, stack>>

(* event_register_io_read and event_register_io_write                      *)
RegisterIO(d, fd) ==
    /\ MayRegister
    /\ Len(ios[d]) < MaxIO
    /\ fdmax' = IF fdmax >= fd THEN fdmax ELSE fd
    /\ ios' = [ios EXCEPT ![d] = Append(@, fd)]
    /\ fds' = [fds EXCEPT ![d] = @ \cup {fd}]
    /\ UNCHANGED <<loop, timing, clock, scan, stack, flag>>

(* The same when array_append fails: fdmax has been raised already.        *)
RegisterIOFails(fd) ==
    /\ MayRegister
    /\ fdmax' = IF fdmax >= fd THEN fdmax ELSE fd
    /\ UNCHANGED <<loop, fds, ios, timing, clock, scan, stack, flag>>

(* event_unregister_io_read and event_unregister_io_write: _unregister_io  *)
(* removes every entry of fd from one array and finds the greatest of the  *)
(* others; a second call, for -1, finds the greatest of the other array.   *)
RemoveIOOneArray(d, fd) ==
    LET left == RemoveAll(ios[d], {fd})
    IN  /\ ios' = [ios EXCEPT ![d] = left]
        /\ fds' = [fds EXCEPT ![d] = @ \ {fd}]
        /\ fdmax' = MaxFd(Range(left))
RemoveIO(d, fd) ==
    LET left == RemoveAll(ios[d], {fd})
    IN  /\ ios' = [ios EXCEPT ![d] = left]
        /\ fds' = [fds EXCEPT ![d] = @ \ {fd}]
        /\ fdmax' = MaxFd(Range(left) \cup Range(ios[Other(d)]))

UnregisterIO(d, fd) ==
    /\ AppInControl
    /\ RemoveIO(d, fd)
    /\ UNCHANGED <<loop, timing, clock, scan, stack, flag>>

(* event_register_timeout, and event_register_idle when delay is Zero.     *)
RegisterTimeoutAsleep(delay, func, a) ==
    /\ MayRegister
    /\ heap[a] = NULL
    /\ heap' = [heap EXCEPT ![a] =
           [initial |-> delay, timeout |-> Plus(clock, delay), func |-> func]]
    /\ timers' = Append(timers, a)
    /\ UNCHANGED <<loop, io, timeout, clock, scan, stack, flag>>
RegisterTimeout(delay, func, a) ==
    /\ MayRegister
    /\ heap[a] = NULL
    /\ heap' = [heap EXCEPT ![a] =
           [initial |-> delay, timeout |-> Plus(clock, delay), func |-> func]]
    /\ timers' = Append(timers, a)
    /\ timeout' = Earliest(delay, timeout)
    /\ UNCHANGED <<loop, io, clock, scan, stack, flag>>

(* event_unregister_timeout, first loop: the entries of func are removed   *)
(* and freed.  The second loop follows in the Rescan actions.              *)
UnregisterTimeoutLeak(func) ==
    /\ MayUnregisterTimeout(func)
    /\ timers' = RemoveAll(timers, {a \in Addrs : heap[a] # NULL /\ heap[a].func = func})
    /\ timeout' = Forever
    /\ scan' = 1
    /\ UNCHANGED <<loop, io, heap, clock, stack, flag>>
UnregisterTimeoutInverted(func) ==
    LET gone == {a \in Range(timers) : heap[a].func # func}
    IN  /\ MayUnregisterTimeout(func)
        /\ timers' = RemoveAll(timers, gone)
        /\ heap' = [a \in Addrs |-> IF a \in gone THEN NULL ELSE heap[a]]
        /\ timeout' = Forever
        /\ scan' = 1
        /\ UNCHANGED <<loop, io, clock, stack, flag>>
UnregisterTimeout(func) ==
    LET gone == {a \in Range(timers) : heap[a].func = func}
    IN  /\ MayUnregisterTimeout(func)
        /\ timers' = RemoveAll(timers, gone)
        /\ heap' = [a \in Addrs |-> IF a \in gone THEN NULL ELSE heap[a]]
        /\ timeout' = Forever
        /\ scan' = 1
        /\ UNCHANGED <<loop, io, clock, stack, flag>>

(* event_delete and a new event_new, with no loop running.                 *)
EventDelete ==
    /\ stack = <<>> /\ scan = 0
    /\ loop' = 0
    /\ fdmax' = -1
    /\ fds' = [d \in Dirs |-> {}]
    /\ ios' = [d \in Dirs |-> <<>>]
    /\ heap' = [a \in Addrs |-> IF a \in Range(timers) THEN NULL ELSE heap[a]]
    /\ timers' = <<>>
    /\ timeout' = Forever
    /\ UNCHANGED <<clock, scan, stack, flag>>

(* Time passes while application code runs.                                *)
PassTime ==
    /\ BusyApp
    /\ AppInControl
    /\ \E t \in ClockTimes : Before(clock, t) /\ clock' = t
    /\ UNCHANGED <<loop, io, timing, scan, stack, flag>>
----------------------------------------------------------------------------
(* The second loop of event_unregister_timeout.  It compares the absolute  *)
(* time of an entry with event->timeout, which is LONG_MAX at first and    *)
(* the time that remains to some entry afterwards.                         *)

ScanDue == heap[timers[scan]].timeout

RescanSkip ==
    /\ scan \in DOMAIN timers
    /\ ~Before(ScanDue, timeout)
    /\ scan' = scan + 1
    /\ UNCHANGED <<loop, io, timing, clock, stack, flag>>

RescanOverdue ==
    /\ scan \in DOMAIN timers
    /\ Before(ScanDue, timeout)
    /\ ScanDue.sec < clock.sec
    /\ timeout' = Zero
    /\ scan' = 0
    /\ UNCHANGED <<loop, io, timers, heap, clock, stack, flag>>

RescanTake ==
    /\ scan \in DOMAIN timers
    /\ Before(ScanDue, timeout)
    /\ ScanDue.sec >= clock.sec
    /\ timeout' = BorrowAtZero(Minus(ScanDue, clock))
    /\ scan' = scan + 1
    /\ UNCHANGED <<loop, io, timers, heap, clock, stack, flag>>

RescanDone ==
    /\ scan > Len(timers)
    /\ scan' = 0
    /\ UNCHANGED <<loop, io, timing, clock, stack, flag>>

Rescan == RescanSkip \/ RescanOverdue \/ RescanTake \/ RescanDone
----------------------------------------------------------------------------
(* event_loop, event_loop_while and _event_loop_once.                      *)

StoppedByFlag == Top.flagged /\ ~flag
Stopped == loop = 0 \/ (Top.flagged /\ ~flag)

LoopReturn ==
    /\ LibraryAt("test")
    /\ Stopped
    /\ Pop
    /\ UNCHANGED <<loop, io, timing, clock, scan, flag>>

(* Nothing to wait for: _event_loop_once returns at once, and is called    *)
(* again.                                                                  *)
LoopSpin ==
    /\ LibraryAt("test")
    /\ ~Stopped
    /\ timeout = Forever /\ fdmax = -1
    /\ UNCHANGED vars

(* The state in which select() is called. *)
AtSelect ==
    /\ LibraryAt("test")
    /\ ~Stopped
    /\ timeout # Forever \/ fdmax # -1

(* select() returns at time t with the descriptors of "ready": some of     *)
(* those it was given, or none once its timeout has elapsed.  The          *)
(* gettimeofday at the start of _loop_timeout reads the same t.            *)
Watched(d) == {fd \in fds[d] : fd <= fdmax}

ReturnsBy(t) == timeout = Forever \/ Ticks(t) <= Ticks(clock) + Ticks(timeout) + Latency

Select(ready, t) ==
    /\ AtSelect
    /\ \A d \in Dirs : ready[d] \subseteq Watched(d)
    /\ ~Before(t, clock)
    /\ ReturnsBy(t)
    /\ (\A d \in Dirs : ready[d] = {}) =>
           timeout # Forever /\ Ticks(t) >= Ticks(clock) + Ticks(timeout)
    /\ clock' = t
    /\ timeout' = Forever
    /\ SetTop([Top EXCEPT !.pc = "timers", !.i = 1, !.now = t, !.ready = ready])
    /\ UNCHANGED <<loop, io, timers, heap, scan, flag>>

(* select() fails, EINTR for one: the loop ends with its error and the     *)
(* counter stays as it is.                                                 *)
SelectFails ==
    /\ AtSelect
    /\ Pop
    /\ UNCHANGED <<loop, io, timing, clock, scan, flag>>
----------------------------------------------------------------------------
(* _loop_timeout, one iteration at a time.                                 *)

TimerFire ==
    /\ LibraryAt("timers")
    /\ Top.i \in DOMAIN timers
    /\ Expired(Top.now, heap[timers[Top.i]].timeout)
    /\ SetTop([Top EXCEPT !.cb = TRUE, !.et = timers[Top.i]])
    /\ UNCHANGED <<loop, io, timing, clock, scan, flag>>

(* The callback returns 0: the EventTimeout is due again one delay later.  *)
TimerKeepAsleep ==
    /\ InCallback("timers")
    /\ heap' = [heap EXCEPT ![Top.et].timeout = Plus(heap[Top.et].initial, Top.now)]
    /\ SetTop([Top EXCEPT !.cb = FALSE, !.et = NULL, !.i = @ + 1])
    /\ UNCHANGED <<loop, io, timers, timeout, clock, scan, flag>>
TimerKeep ==
    /\ InCallback("timers")
    /\ heap' = [heap EXCEPT ![Top.et].timeout = Plus(heap[Top.et].initial, Top.now)]
    /\ timeout' = Earliest(heap[Top.et].initial, timeout)
    /\ SetTop([Top EXCEPT !.cb = FALSE, !.et = NULL, !.i = @ + 1])
    /\ UNCHANGED <<loop, io, timers, clock, scan, flag>>

(* It returns anything else: the entry at i is removed, et is freed.       *)
TimerDrop ==
    /\ InCallback("timers")
    /\ timers' = RemoveAt(timers, Top.i)
    /\ heap' = [heap EXCEPT ![Top.et] = NULL]
    /\ SetTop([Top EXCEPT !.cb = FALSE, !.et = NULL])
    /\ UNCHANGED <<loop, io, timeout, clock, scan, flag>>

Remaining == Minus(heap[timers[Top.i]].timeout, Top.now)

TimerWait ==
    /\ LibraryAt("timers")
    /\ Top.i \in DOMAIN timers
    /\ ~Expired(Top.now, heap[timers[Top.i]].timeout)
    /\ timeout' = IF Before(Remaining, timeout) THEN Borrow(Remaining) ELSE timeout
    /\ SetTop([Top EXCEPT !.i = @ + 1])
    /\ UNCHANGED <<loop, io, timers, heap, clock, scan, flag>>

TimersDone ==
    /\ LibraryAt("timers")
    /\ Top.i > Len(timers)
    /\ SetTop([Top EXCEPT !.pc = "read", !.i = 1])
    /\ UNCHANGED <<loop, io, timing, clock, scan, flag>>
----------------------------------------------------------------------------
(* _loop_io on reads, then on writes.                                      *)

Ready(d, k) == ios[d][k] <= fdmax /\ ios[d][k] \in Top.ready[d]
NextReady(d, j) ==
    /\ j \in DOMAIN ios[d] /\ j >= Top.i
    /\ Ready(d, j)
    /\ \A k \in Top.i..(j - 1) : ~Ready(d, k)

(* The entries that are not ready are passed over, the next one is called. *)
IOCall(d) ==
    /\ LibraryAt(d)
    /\ \E j \in DOMAIN ios[d] :
           /\ NextReady(d, j)
           /\ SetTop([Top EXCEPT !.cb = TRUE, !.i = j, !.fd = ios[d][j]])
    /\ UNCHANGED <<loop, io, timing, clock, scan, flag>>

(* The callback returns 0 *)
IOKeep(d) ==
    /\ InCallback(d)
    /\ SetTop([Top EXCEPT !.cb = FALSE, !.i = @ + 1, !.fd = -1])
    /\ UNCHANGED <<loop, io, timing, clock, scan, flag>>

(* or not: every entry of the descriptor is unregistered, and i stays.     *)
IODrop(d) ==
    /\ InCallback(d)
    /\ RemoveIO(d, Top.fd)
    /\ SetTop([Top EXCEPT !.cb = FALSE, !.fd = -1])
    /\ UNCHANGED <<loop, timing, clock, scan, flag>>

(* No ready entry is left: the writes follow the reads, and the condition  *)
(* of the loop the writes.                                                 *)
IODone(d) ==
    /\ LibraryAt(d)
    /\ \A j \in DOMAIN ios[d] : j >= Top.i => ~Ready(d, j)
    /\ SetTop(IF d = "read"
              THEN [Top EXCEPT !.pc = "write", !.i = 1]
              ELSE NewFrame(Top.flagged))
    /\ UNCHANGED <<loop, io, timing, clock, scan, flag>>
----------------------------------------------------------------------------
Calls ==
    \/ \E flagged \in BOOLEAN : EventLoop(flagged)
    \/ EventLoopQuit
    \/ SetFlag
    \/ \E fd \in Fds : RegisterIOFails(fd)
    \/ \E d \in Dirs, fd \in Fds : RegisterIO(d, fd) \/ UnregisterIO(d, fd)
    \/ \E delay \in Delays, func \in Funcs, a \in Addrs :
           RegisterTimeout(delay, func, a)
    \/ \E func \in Cancelled : UnregisterTimeout(func)
    \/ EventDelete
    \/ PassTime

Returns == TimerKeep \/ TimerDrop \/ \E d \in Dirs : IOKeep(d) \/ IODrop(d)

Library ==
    \/ Rescan
    \/ LoopReturn
    \/ LoopSpin
    \/ \E ready \in [Dirs -> SUBSET Fds], t \in ClockTimes : Select(ready, t)
    \/ SelectFails
    \/ TimerFire \/ TimerWait \/ TimersDone
    \/ \E d \in Dirs : IOCall(d) \/ IODone(d)

Next == Calls \/ Returns \/ Library

Spec == Init /\ [][Next]_vars
----------------------------------------------------------------------------
(* Safety.                                                                 *)

(* Every registered descriptor, and no other, is in the set given to       *)
(* select() and below the count given to it: nothing registered goes       *)
(* unwatched, nothing unregistered is watched, however registrations,      *)
(* failed ones and removals by either array follow each other.             *)
WatchedExact == \A d \in Dirs : Watched(d) = Range(ios[d])

(* Every allocated EventTimeout has exactly one entry in event->timeouts,  *)
(* and no entry is a freed one: nothing leaks and nothing is freed twice.  *)
TimersOwned ==
    /\ {a \in Addrs : heap[a] # NULL} = Range(timers)
    /\ IsInjective(timers)

(* While a timeout callback runs, the position _loop_timeout will remove   *)
(* is still that of the EventTimeout it will free or rearm, whatever other *)
(* timeouts the callback has cancelled under its contract.                 *)
ActiveTimerStable ==
    stack # <<>> /\ Top.cb /\ Top.pc = "timers" =>
        Top.i \in DOMAIN timers /\ timers[Top.i] = Top.et

(* The loop never sleeps without a timeout while a timeout is registered:  *)
(* event->timeout is set whenever nothing is about to compute it.          *)
WakeScheduled ==
    timers # <<>> /\ scan = 0 /\ (\A k \in DOMAIN stack : stack[k].pc # "timers")
        => timeout # Forever

(* No field of the timeout given to select() is negative.  That is all it  *)
(* says: the microseconds are not reduced and may be a whole second or     *)
(* more, for which select() fails with EINVAL on some systems.             *)
SelectTimeoutValid ==
    AtSelect => timeout.sec >= 0 /\ timeout.usec >= 0

(* A timeout is called back less than one second before it is due.  The    *)
(* second is lost by comparing times whose microseconds are not reduced    *)
(* below 1000000.                                                          *)
NotTooEarly ==
    stack # <<>> /\ Top.cb /\ Top.pc = "timers" =>
        Ticks(heap[Top.et].timeout) < Ticks(Top.now) + Usec

(* When time passes in select() only and nothing is unregistered, no       *)
(* timeout is left waiting for a second after it was due, beside what      *)
(* select() itself oversleeps: what _loop_timeout gets wrong in a borrow   *)
(* is bounded.                                                             *)
NotTooLate ==
    \A k \in DOMAIN timers :
        Ticks(clock) < Ticks(heap[timers[k]].timeout) + Usec + Latency

(* One call of event_loop_quit() ends the only running loop, as in the     *)
(* callback of tests/event.c.                                              *)
QuitEndsLoop == [][EventLoopQuit /\ Len(stack) = 1 => loop' = 0]_vars
----------------------------------------------------------------------------
(* Liveness: the library goes on running when it has control, and every    *)
(* callback returns.                                                       *)

Fairness == WF_vars(Library) /\ SF_vars(Returns)

FairSpec == Spec /\ Fairness

(* Once the counter is back at 0 every active loop ends, unless a callback *)
(* starts another one: the passes under way finish and each loop returns.  *)
QuitUnwinds == (loop = 0 /\ stack # <<>>) ~> (stack = <<>> \/ loop > 0)
=============================================================================
