----------------------------- MODULE EventProof -----------------------------
(***************************************************************************)
(* Theorems about Event, for every set of descriptors, callbacks,          *)
(* addresses and delays and every bound: what is registered and watched,   *)
(* then when a timeout is called back, and what the loop gives to select().*)
(***************************************************************************)
EXTENDS Event, ArraySeqProof

----------------------------------------------------------------------------
(* The stack of active loops.                                              *)

LEMMA NewFrameType == \A flagged \in BOOLEAN : NewFrame(flagged) \in Frames
  BY DEF NewFrame, Frames, Timevals, Zero

(* A frame stays one when the fields a step assigns get legal values.      *)
LEMMA FrameUpdates ==
    ASSUME NEW f \in Frames, NEW cb \in BOOLEAN, NEW i \in Nat,
           NEW et \in Addrs \cup {NULL}, NEW fd \in Fds \cup {-1},
           NEW pc \in {"test", "timers"} \cup Dirs
    PROVE  /\ [f EXCEPT !.cb = cb, !.et = et] \in Frames
           /\ [f EXCEPT !.cb = cb, !.et = et, !.i = i] \in Frames
           /\ [f EXCEPT !.cb = cb, !.fd = fd] \in Frames
           /\ [f EXCEPT !.cb = cb, !.i = i, !.fd = fd] \in Frames
           /\ [f EXCEPT !.pc = pc, !.i = i] \in Frames
           /\ [f EXCEPT !.i = i] \in Frames
<1> USE DEF Frames
<1>1. [f EXCEPT !.cb = cb, !.et = et] \in Frames
  OBVIOUS
<1>2. [f EXCEPT !.cb = cb, !.et = et, !.i = i] \in Frames
  OBVIOUS
<1>3. [f EXCEPT !.cb = cb, !.fd = fd] \in Frames
  OBVIOUS
<1>4. [f EXCEPT !.cb = cb, !.i = i, !.fd = fd] \in Frames
  OBVIOUS
<1>5. [f EXCEPT !.pc = pc, !.i = i] \in Frames
  OBVIOUS
<1>6. [f EXCEPT !.i = i] \in Frames
  OBVIOUS
<1> QED
  BY <1>1, <1>2, <1>3, <1>4, <1>5, <1>6

LEMMA TopFacts ==
    ASSUME stack \in Seq(Frames), stack # <<>>
    PROVE  /\ Len(stack) \in Nat \ {0}
           /\ DOMAIN stack = 1..Len(stack)
           /\ Top \in Frames
<1>1. Len(stack) \in Nat \ {0} /\ DOMAIN stack = 1..Len(stack)
  BY EmptySeq, LenProperties
<1> QED
  BY <1>1, ElementOfSeq DEF Top

(* A step inside the innermost loop leaves the others as they are.         *)
LEMMA SetTopFacts ==
    ASSUME stack \in Seq(Frames), stack # <<>>, NEW f, SetTop(f)
    PROVE  /\ f \in Frames => stack' \in Seq(Frames)
           /\ stack' # <<>>
           /\ Len(stack') = Len(stack)
           /\ Top' = f
           /\ \A k \in 1..Len(stack) : stack'[k] = IF k = Len(stack) THEN f ELSE stack[k]
<1> DEFINE n == Len(stack)
           S == Frames \cup {f}
<1>1. n \in Nat \ {0} /\ n \in 1..n
  BY TopFacts
<1>2. stack' = [stack EXCEPT ![n] = f]
  BY DEF SetTop
<1>3. stack \in Seq(S) /\ f \in S
  BY SeqMonotonic
<1> HIDE DEF S
<1>4. /\ stack' \in Seq(S)
      /\ Len(stack') = n
      /\ \A k \in 1..n : stack'[k] = IF k = n THEN f ELSE stack[k]
  BY <1>1, <1>2, <1>3, ExceptSeq
<1>5. stack' # <<>>
  BY <1>1, <1>4, EmptySeq
<1>6. f \in Frames => stack' \in Seq(Frames)
  BY <1>1, <1>2, ExceptSeq
<1> QED
  BY <1>1, <1>4, <1>5, <1>6 DEF Top

(* A loop that returns uncovers the one below it.                          *)
LEMMA PopFacts ==
    ASSUME stack \in Seq(Frames), stack # <<>>, Pop
    PROVE  /\ stack' \in Seq(Frames)
           /\ Len(stack') = Len(stack) - 1
           /\ \A k \in 1..(Len(stack) - 1) : stack'[k] = stack[k]
<1> DEFINE n == Len(stack)
<1>1. n \in Nat \ {0}
  BY TopFacts
<1>2. \A k \in 1..(n - 1) : stack[k] \in Frames
  BY <1>1, ElementOfSeq
<1> HIDE DEF n
<1>3. /\ SubSeq(stack, 1, n - 1) \in Seq(Frames)
      /\ Len(SubSeq(stack, 1, n - 1)) = n - 1
      /\ \A k \in 1..(n - 1) : SubSeq(stack, 1, n - 1)[k] = stack[k]
  BY <1>1, <1>2, SubSeqProperties
<1> QED
  BY <1>3 DEF Pop, n

(* A loop that starts has a frame of its own on top.                       *)
LEMMA PushFacts ==
    ASSUME stack \in Seq(Frames), NEW f \in Frames, stack' = Append(stack, f)
    PROVE  /\ stack' \in Seq(Frames)
           /\ stack' # <<>>
           /\ Len(stack') = Len(stack) + 1
           /\ Top' = f
           /\ \A k \in 1..Len(stack) : stack'[k] = stack[k]
<1>1. /\ stack' \in Seq(Frames)
      /\ Len(stack') = Len(stack) + 1
      /\ stack'[Len(stack) + 1] = f
      /\ \A k \in 1..Len(stack) : stack'[k] = stack[k]
  BY AppendProperties, LenProperties
<1>2. Len(stack) \in Nat
  BY LenProperties
<1>3. stack' # <<>>
  BY <1>1, <1>2, EmptySeq
<1> QED
  BY <1>1, <1>3 DEF Top
----------------------------------------------------------------------------
(* fdmax.                                                                  *)

LEMMA RangeOfSeqInSet ==
    ASSUME NEW S, NEW s \in Seq(S)
    PROVE  Range(s) \subseteq S
  BY LenProperties DEF Range

LEMMA MaxFdProperties ==
    ASSUME NEW S, S \subseteq Fds
    PROVE  /\ MaxFd(S) \in S \cup {-1}
           /\ \A fd \in S : fd <= MaxFd(S)
<1> DEFINE M == S \cup {-1}
           R == OpToRel(<, Nat)
           T == {FdSetSize - m : m \in M}
<1>1. M \subseteq Int /\ \A m \in M : FdSetSize - m \in Nat
  BY FdAssumption
<1>2. T \subseteq Nat /\ T # {}
  BY <1>1
<1>3. IsWellFoundedOn(R, Nat)
  BY NatLessThanWellFounded
<1> HIDE DEF T, R
<1>4. PICK x \in T : \A y \in T : ~(<<y, x>> \in R)
  BY <1>2, <1>3, WFMin
<1>5. \A y \in T : ~(y < x)
  BY <1>2, <1>4 DEF R, OpToRel
<1> USE DEF T
<1>6. PICK m \in M : x = FdSetSize - m
  OBVIOUS
<1> HIDE DEF M
<1>7. ASSUME NEW fd \in M PROVE m >= fd
  <2>1. FdSetSize - fd \in T
    OBVIOUS
  <2>2. ~(FdSetSize - fd < FdSetSize - m)
    BY <1>5, <1>6, <2>1
  <2>3. fd \in Int /\ m \in Int /\ FdSetSize \in Int
    BY <1>1, <1>6, FdAssumption
  <2> QED
    BY <2>2, <2>3
<1>8. Max(M) \in M /\ \A fd \in M : Max(M) >= fd
  BY <1>7 DEF Max
<1> USE DEF M
<1> QED
  BY <1>1, <1>8 DEF MaxFd

(* event_unregister_io_* keeps its variables of their types.               *)
LEMMA RemoveIOType ==
    ASSUME TypeOK, NEW d \in Dirs, NEW fd, RemoveIO(d, fd)
    PROVE  /\ fdmax' \in Fds \cup {-1}
           /\ fds' \in [Dirs -> SUBSET Fds]
           /\ ios' \in [Dirs -> Seq(Fds)]
<1> DEFINE left == RemoveAll(ios[d], {fd})
           others == Range(ios[Other(d)])
<1>1. Other(d) \in Dirs /\ Other(d) # d
  BY DEF Other, Dirs
<1>2. ios[d] \in Seq(Fds) /\ ios[Other(d)] \in Seq(Fds)
  BY <1>1 DEF TypeOK
<1>3. left \in Seq(Fds)
  BY <1>2, RemoveAllProperties
<1>4. Range(left) \subseteq Fds /\ others \subseteq Fds
  BY <1>2, <1>3, RangeOfSeqInSet
<1> HIDE DEF left, others
<1>5. MaxFd(Range(left) \cup others) \in Fds \cup {-1}
  BY <1>4, MaxFdProperties
<1> USE DEF left, others
<1> QED
  BY <1>3, <1>5 DEF RemoveIO, TypeOK

----------------------------------------------------------------------------
(* Types, and who owns the timeouts.  ActiveTimerStable is what types a    *)
(* callback's return, which writes through the address in its frame; it    *)
(* needs that no loop runs above one that is in _loop_timeout.             *)

OneTimerFrame ==
    \A k \in DOMAIN stack : stack[k].pc = "timers" => k = Len(stack)

TimerInv == TypeOK /\ TimersOwned /\ ActiveTimerStable /\ OneTimerFrame

LEMMA ClockTimesType == ClockTimes \subseteq Timevals
  BY TimeAssumption DEF ClockTimes, Timevals

LEMMA DelaysType == Delays \subseteq Timevals
  BY TimeAssumption DEF Timevals

LEMMA TimerInvInit == Init => TimerInv
<1> SUFFICES ASSUME Init PROVE TimerInv
  OBVIOUS
<1>1. TypeOK
  BY TimeAssumption, EmptySeq DEF Init, TypeOK, Dirs, Timevals, Forever, ClockTimes
<1>2. TimersOwned
  BY EmptySeq DEF Init, TimersOwned, Range, IsInjective
<1>3. ActiveTimerStable /\ OneTimerFrame
  BY DEF Init, ActiveTimerStable, OneTimerFrame
<1> QED
  BY <1>1, <1>2, <1>3 DEF TimerInv

(* The EventTimeout of the callback that runs is allocated.                *)
LEMMA ActiveTimerAllocated ==
    ASSUME TimerInv, InCallback("timers")
    PROVE  /\ Top.i \in DOMAIN timers
           /\ timers[Top.i] = Top.et
           /\ Top.et \in Addrs
           /\ heap[Top.et] \in EventTimeouts
<1>1. Top.i \in DOMAIN timers /\ timers[Top.i] = Top.et
  BY DEF TimerInv, ActiveTimerStable, InCallback
<1>2. Top.et \in Range(timers)
  BY <1>1 DEF Range
<1>3. Top.et \in Addrs /\ heap[Top.et] # NULL
  BY <1>2 DEF TimerInv, TimersOwned
<1> QED
  BY <1>1, <1>3 DEF TimerInv, TypeOK

(* The steps that touch neither the timeouts nor the stack of loops.       *)
LEMMA TimerInvElsewhere ==
    ASSUME TimerInv, UNCHANGED <<timers, heap, stack>>, TypeOK'
    PROVE  TimerInv'
  BY DEF TimerInv, TimersOwned, ActiveTimerStable, OneTimerFrame, Top

(* The steps of a loop that touch no timeout, and leave it outside of a    *)
(* timeout callback.                                                       *)
LEMMA TimerInvFrame ==
    ASSUME TimerInv, stack # <<>>, UNCHANGED <<timers, heap>>, TypeOK',
           NEW f \in Frames, SetTop(f),
           f.cb /\ f.pc = "timers" => f.i \in DOMAIN timers /\ timers[f.i] = f.et
    PROVE  TimerInv'
<1>1. /\ stack' \in Seq(Frames)
      /\ Len(stack') = Len(stack)
      /\ Top' = f
      /\ \A k \in 1..Len(stack) : stack'[k] = IF k = Len(stack) THEN f ELSE stack[k]
  BY SetTopFacts DEF TimerInv, TypeOK
<1>2. DOMAIN stack' = 1..Len(stack) /\ DOMAIN stack = 1..Len(stack)
  BY <1>1, LenProperties DEF TimerInv, TypeOK
<1>3. TimersOwned'
  BY DEF TimerInv, TimersOwned
<1>4. ActiveTimerStable'
  BY <1>1 DEF ActiveTimerStable
<1>5. OneTimerFrame'
  BY <1>1, <1>2 DEF TimerInv, OneTimerFrame
<1> QED
  BY <1>3, <1>4, <1>5 DEF TimerInv

(* A loop that returns.                                                    *)
LEMMA TimerInvPop ==
    ASSUME TimerInv, stack # <<>>, Pop, UNCHANGED <<timers, heap>>, TypeOK'
    PROVE  TimerInv'
<1>1. /\ stack' \in Seq(Frames)
      /\ Len(stack') = Len(stack) - 1
      /\ \A k \in 1..(Len(stack) - 1) : stack'[k] = stack[k]
      /\ Len(stack) \in Nat \ {0} /\ DOMAIN stack = 1..Len(stack)
  BY PopFacts, TopFacts DEF TimerInv, TypeOK
<1>2. DOMAIN stack' = 1..(Len(stack) - 1)
  BY <1>1, LenProperties
<1>3. \A k \in DOMAIN stack' : stack'[k].pc # "timers"
  BY <1>1, <1>2 DEF TimerInv, OneTimerFrame
<1>4. stack' # <<>> => Len(stack') \in DOMAIN stack'
  BY <1>1, <1>2, EmptySeq
<1>5. ActiveTimerStable'
  BY <1>3, <1>4 DEF ActiveTimerStable, Top
<1>6. TimersOwned' /\ OneTimerFrame'
  BY <1>3 DEF TimerInv, TimersOwned, OneTimerFrame
<1> QED
  BY <1>5, <1>6 DEF TimerInv
----------------------------------------------------------------------------
(* One lemma for each kind of step.                                        *)

(* The calls that change neither stack nor timeouts.                       *)
LEMMA TimerInvPlainCalls ==
    ASSUME TimerInv,
           \/ EventLoopQuit \/ SetFlag \/ PassTime
           \/ \E fd \in Fds : RegisterIOFails(fd)
           \/ \E d \in Dirs, fd \in Fds : RegisterIO(d, fd) \/ UnregisterIO(d, fd)
    PROVE  TimerInv'
<1> USE DEF io, timing
<1>1. CASE EventLoopQuit
  <2>1. TypeOK'
    BY <1>1 DEF EventLoopQuit, TimerInv, TypeOK
  <2> QED
    BY <1>1, <2>1, TimerInvElsewhere DEF EventLoopQuit
<1>2. CASE SetFlag
  <2>1. TypeOK'
    BY <1>2 DEF SetFlag, TimerInv, TypeOK
  <2> QED
    BY <1>2, <2>1, TimerInvElsewhere DEF SetFlag
<1>3. CASE PassTime
  <2>1. TypeOK'
    BY <1>3 DEF PassTime, TimerInv, TypeOK
  <2> QED
    BY <1>3, <2>1, TimerInvElsewhere DEF PassTime
<1>4. ASSUME NEW fd \in Fds, RegisterIOFails(fd) PROVE TimerInv'
  <2>1. TypeOK'
    BY <1>4 DEF RegisterIOFails, TimerInv, TypeOK
  <2> QED
    BY <1>4, <2>1, TimerInvElsewhere DEF RegisterIOFails
<1>5. ASSUME NEW d \in Dirs, NEW fd \in Fds, RegisterIO(d, fd) PROVE TimerInv'
  <2>1. ios[d] \in Seq(Fds)
    BY DEF TimerInv, TypeOK
  <2>2. Append(ios[d], fd) \in Seq(Fds)
    BY <2>1, AppendProperties
  <2>3. TypeOK'
    BY <1>5, <2>2 DEF RegisterIO, TimerInv, TypeOK
  <2> QED
    BY <1>5, <2>3, TimerInvElsewhere DEF RegisterIO
<1>6. ASSUME NEW d \in Dirs, NEW fd \in Fds, UnregisterIO(d, fd) PROVE TimerInv'
  <2>1. TypeOK'
    BY <1>6, RemoveIOType DEF UnregisterIO, TimerInv, TypeOK
  <2> QED
    BY <1>6, <2>1, TimerInvElsewhere DEF UnregisterIO
<1> QED
  BY <1>1, <1>2, <1>3, <1>4, <1>5, <1>6

LEMMA TimerInvEventLoop ==
    ASSUME TimerInv, NEW flagged \in BOOLEAN, EventLoop(flagged)
    PROVE  TimerInv'
<1> USE DEF io, timing
<1>1. /\ stack' \in Seq(Frames)
      /\ Len(stack') = Len(stack) + 1
      /\ Top' = NewFrame(flagged)
      /\ \A k \in 1..Len(stack) : stack'[k] = stack[k]
  BY PushFacts, NewFrameType DEF EventLoop, TimerInv, TypeOK
<1>2. /\ Len(stack) \in Nat /\ DOMAIN stack = 1..Len(stack)
      /\ DOMAIN stack' = 1..(Len(stack) + 1)
  BY <1>1, LenProperties DEF TimerInv, TypeOK
<1>3. TypeOK'
  BY <1>1 DEF EventLoop, TimerInv, TypeOK
<1>4. TimersOwned'
  BY DEF EventLoop, TimerInv, TimersOwned
<1>5. ActiveTimerStable'
  BY <1>1 DEF ActiveTimerStable, NewFrame
<1>6. \A k \in DOMAIN stack : stack[k].pc # "timers"
  BY DEF EventLoop, MayLoop
<1>7. OneTimerFrame'
  BY <1>1, <1>2, <1>6 DEF OneTimerFrame
<1> QED
  BY <1>3, <1>4, <1>5, <1>7 DEF TimerInv

LEMMA TimerInvRescan ==
    ASSUME TimerInv, Rescan
    PROVE  TimerInv'
<1> USE DEF io, timing
<1>1. \A r \in Timevals : BorrowAtZero(r) \in Timevals
  BY DEF BorrowAtZero, Timevals
<1>2. ASSUME scan \in DOMAIN timers PROVE ScanDue \in Timevals
  <2>1. timers[scan] \in Range(timers)
    BY <1>2 DEF Range
  <2>2. timers[scan] \in Addrs /\ heap[timers[scan]] # NULL
    BY <2>1 DEF TimerInv, TimersOwned
  <2>3. heap[timers[scan]] \in EventTimeouts
    BY <2>2 DEF TimerInv, TypeOK
  <2> QED
    BY <2>3 DEF ScanDue, EventTimeouts
<1>3. CASE RescanSkip
  <2>1. TypeOK'
    BY <1>3 DEF RescanSkip, TimerInv, TypeOK
  <2> QED
    BY <1>3, <2>1, TimerInvElsewhere DEF RescanSkip
<1>4. CASE RescanOverdue
  <2>1. TypeOK'
    BY <1>4 DEF RescanOverdue, TimerInv, TypeOK, Zero, Timevals
  <2> QED
    BY <1>4, <2>1, TimerInvElsewhere DEF RescanOverdue
<1>5. CASE RescanTake
  <2>1. clock \in Timevals
    BY ClockTimesType DEF TimerInv, TypeOK
  <2>2. Minus(ScanDue, clock) \in Timevals
    BY <1>2, <1>5, <2>1 DEF RescanTake, Minus, Timevals
  <2>3. timeout' \in Timevals
    BY <1>1, <1>5, <2>2 DEF RescanTake
  <2>4. TypeOK'
    BY <1>5, <2>3 DEF RescanTake, TimerInv, TypeOK
  <2> QED
    BY <1>5, <2>4, TimerInvElsewhere DEF RescanTake
<1>6. CASE RescanDone
  <2>1. TypeOK'
    BY <1>6 DEF RescanDone, TimerInv, TypeOK
  <2> QED
    BY <1>6, <2>1, TimerInvElsewhere DEF RescanDone
<1> QED
  BY <1>3, <1>4, <1>5, <1>6 DEF Rescan

LEMMA TimerInvRegisterTimeout ==
    ASSUME TimerInv, NEW delay \in Delays, NEW func \in Funcs, NEW a \in Addrs,
           RegisterTimeout(delay, func, a)
    PROVE  TimerInv'
<1> USE DEF io, timing
<1> DEFINE et == [initial |-> delay, timeout |-> Plus(clock, delay), func |-> func]
<1>1. delay \in Timevals /\ clock \in Timevals
  BY DelaysType, ClockTimesType DEF TimerInv, TypeOK
<1>2. et \in EventTimeouts
  BY <1>1 DEF EventTimeouts, Plus, Timevals
<1>3. a \notin Range(timers)
  BY DEF RegisterTimeout, TimerInv, TimersOwned
<1>4. /\ timers \in Seq(Addrs) /\ Len(timers) \in Nat
      /\ DOMAIN timers = 1..Len(timers)
  BY LenProperties DEF TimerInv, TypeOK
<1>5. /\ timers' \in Seq(Addrs)
      /\ Len(timers') = Len(timers) + 1
      /\ \A k \in 1..Len(timers) : timers'[k] = timers[k]
      /\ timers'[Len(timers) + 1] = a
  BY <1>4, AppendProperties DEF RegisterTimeout
<1>6. DOMAIN timers' = 1..(Len(timers) + 1)
  BY <1>5, LenProperties
<1>7. Range(timers') = Range(timers) \cup {a}
  BY <1>4, <1>5, <1>6 DEF Range
<1> HIDE DEF et
<1>8. heap' = [heap EXCEPT ![a] = et]
  BY DEF RegisterTimeout, et
<1>9. TypeOK'
  BY <1>1, <1>2, <1>5, <1>8 DEF RegisterTimeout, Earliest, TimerInv, TypeOK
<1>10. TimersOwned'
  <2>1. et # NULL
    BY <1>2, NullAssumption
  <2>2. {b \in Addrs : heap'[b] # NULL} = {b \in Addrs : heap[b] # NULL} \cup {a}
    BY <1>8, <2>1 DEF TimerInv, TypeOK
  <2>3. {b \in Addrs : heap[b] # NULL} = Range(timers)
    BY DEF TimerInv, TimersOwned
  <2>4. \A k \in 1..Len(timers) : timers[k] # a
    BY <1>3, <1>4 DEF Range
  <2>5. IsInjective(timers)
    BY DEF TimerInv, TimersOwned
  <2>6. IsInjective(timers')
    BY <1>4, <1>5, <1>6, <2>4, <2>5 DEF IsInjective
  <2> QED
    BY <1>7, <2>2, <2>3, <2>6 DEF TimersOwned
<1>11. ActiveTimerStable' /\ OneTimerFrame'
  <2>1. UNCHANGED stack
    BY DEF RegisterTimeout
  <2>2. \A k \in DOMAIN timers : k \in DOMAIN timers' /\ timers'[k] = timers[k]
    BY <1>4, <1>5, <1>6
  <2> QED
    BY <2>1, <2>2 DEF TimerInv, ActiveTimerStable, OneTimerFrame, Top
<1> QED
  BY <1>9, <1>10, <1>11 DEF TimerInv

LEMMA TimerInvUnregisterTimeout ==
    ASSUME TimerInv, NEW func, UnregisterTimeout(func)
    PROVE  TimerInv'
<1> USE DEF io, timing
<1> DEFINE gone == {a \in Range(timers) : heap[a].func = func}
<1>1. timers \in Seq(Addrs)
  BY DEF TimerInv, TypeOK
<1>2. timers' = RemoveAll(timers, gone)
  BY DEF UnregisterTimeout
<1>3. heap' = [a \in Addrs |-> IF a \in gone THEN NULL ELSE heap[a]]
  BY DEF UnregisterTimeout
<1>4. /\ timers' \in Seq(Addrs)
      /\ Range(timers') = Range(timers) \ gone
      /\ IsInjective(timers) => IsInjective(timers')
  BY <1>1, <1>2, RemoveAllProperties
<1>5. heap' \in [Addrs -> EventTimeouts \cup {NULL}]
  BY <1>3 DEF TimerInv, TypeOK
<1>6. Forever \in Timevals
  BY TimeAssumption DEF Forever, Timevals
<1>7. TypeOK'
  BY <1>4, <1>5, <1>6 DEF UnregisterTimeout, TimerInv, TypeOK
<1>8. TimersOwned'
  <2>1. {a \in Addrs : heap[a] # NULL} = Range(timers) /\ IsInjective(timers)
    BY DEF TimerInv, TimersOwned
  <2> HIDE DEF gone
  <2>2. {a \in Addrs : heap'[a] # NULL} = Range(timers) \ gone
    BY <1>3, <2>1
  <2> QED
    BY <1>4, <2>1, <2>2 DEF TimersOwned
<1>9. UNCHANGED stack
  BY DEF UnregisterTimeout
<1>10. ASSUME stack # <<>>, Top.cb, Top.pc = "timers"
       PROVE  Top.i \in DOMAIN timers' /\ timers'[Top.i] = Top.et
  <2>1. InCallback("timers")
    BY <1>10 DEF UnregisterTimeout, MayUnregisterTimeout, AppInControl, InCallback
  <2>2. Top.i \in DOMAIN timers /\ timers[Top.i] = Top.et
    BY <2>1, ActiveTimerAllocated
  <2>3. \A k \in 1..Top.i : heap[timers[k]].func # func
    BY <2>1 DEF UnregisterTimeout, MayUnregisterTimeout
  <2>4. \A k \in 1..Top.i : timers[k] \notin gone
    BY <2>3
  <2> HIDE DEF gone
  <2>5. /\ 1..Top.i \subseteq DOMAIN timers'
        /\ \A k \in 1..Top.i : timers'[k] = timers[k]
    BY <1>1, <1>2, <2>2, <2>4, RemoveAllPrefix
  <2>6. Top.i \in 1..Top.i
    BY <1>1, <2>2, LenProperties
  <2> QED
    BY <2>2, <2>5, <2>6
<1>11. ActiveTimerStable' /\ OneTimerFrame'
  BY <1>9, <1>10 DEF TimerInv, ActiveTimerStable, OneTimerFrame, Top
<1> QED
  BY <1>7, <1>8, <1>11 DEF TimerInv

LEMMA TimerInvEventDelete ==
    ASSUME TimerInv, EventDelete
    PROVE  TimerInv'
<1> USE DEF io, timing
<1>1. timers' = <<>> /\ timers' \in Seq(Addrs)
  BY EmptySeq DEF EventDelete
<1>2. TypeOK'
  BY <1>1, EmptySeq, TimeAssumption
  DEF EventDelete, TimerInv, TypeOK, Forever, Timevals
<1>3. {a \in Addrs : heap[a] # NULL} = Range(timers)
  BY DEF TimerInv, TimersOwned
<1>4. {a \in Addrs : heap'[a] # NULL} = {}
  BY <1>3 DEF EventDelete
<1>5. DOMAIN timers' = {}
  BY <1>1
<1>6. TimersOwned'
  BY <1>4, <1>5 DEF TimersOwned, Range, IsInjective
<1>7. ActiveTimerStable' /\ OneTimerFrame'
  BY DEF EventDelete, TimerInv, ActiveTimerStable, OneTimerFrame
<1> QED
  BY <1>2, <1>6, <1>7 DEF TimerInv

(* A callback of _loop_timeout returns.                                    *)
LEMMA TimerInvTimerReturn ==
    ASSUME TimerInv, TimerKeep \/ TimerDrop
    PROVE  TimerInv'
<1> USE DEF io, timing
<1> DEFINE a == Top.et
           et == heap[a]
<1>1. InCallback("timers")
  BY DEF TimerKeep, TimerDrop
<1>2. /\ Top.i \in DOMAIN timers /\ timers[Top.i] = a
      /\ a \in Addrs /\ et \in EventTimeouts
  BY <1>1, ActiveTimerAllocated
<1>3. stack \in Seq(Frames) /\ stack # <<>> /\ Top \in Frames
  BY <1>1, TopFacts DEF InCallback, TimerInv, TypeOK
<1>4. CASE TimerKeep
  <2> DEFINE f == [Top EXCEPT !.cb = FALSE, !.et = NULL, !.i = @ + 1]
             again == [et EXCEPT !.timeout = Plus(et.initial, Top.now)]
  <2>1. f \in Frames /\ ~f.cb
    <3>1. Top.i + 1 \in Nat
      BY <1>3 DEF Frames
    <3>2. f \in Frames
      BY <1>3, <3>1, FrameUpdates
    <3>3. DOMAIN Top = DOMAIN f /\ "cb" \in DOMAIN Top
      BY <1>3 DEF Frames
    <3> QED
      BY <3>2, <3>3
  <2>2. SetTop(f)
    BY <1>4 DEF TimerKeep
  <2>3. Top.now \in Timevals
    BY <1>3 DEF Frames
  <2>4. again \in EventTimeouts
    BY <1>2, <2>3 DEF EventTimeouts, Plus, Timevals
  <2>5. heap' = [heap EXCEPT ![a] = again]
    BY <1>4 DEF TimerKeep
  <2> HIDE DEF f, again
  <2>6. stack' \in Seq(Frames) /\ Len(stack') = Len(stack) /\ Top' = f
        /\ \A k \in 1..Len(stack) : stack'[k] = IF k = Len(stack) THEN f ELSE stack[k]
    BY <1>3, <2>1, <2>2, SetTopFacts
  <2>7. TypeOK'
    BY <1>2, <1>4, <2>4, <2>5, <2>6
    DEF TimerKeep, Earliest, EventTimeouts, TimerInv, TypeOK
  <2>8. TimersOwned'
    <3>1. et # NULL /\ again # NULL
      BY <1>2, <2>4, NullAssumption
    <3>2. {b \in Addrs : heap'[b] # NULL} = {b \in Addrs : heap[b] # NULL}
      BY <1>2, <2>5, <3>1 DEF TimerInv, TypeOK
    <3> QED
      BY <1>4, <3>2 DEF TimerKeep, TimerInv, TimersOwned
  <2>9. ActiveTimerStable'
    BY <2>1, <2>6 DEF ActiveTimerStable
  <2>10. OneTimerFrame'
    BY <1>3, <2>6, LenProperties DEF TimerInv, OneTimerFrame
  <2> QED
    BY <2>7, <2>8, <2>9, <2>10 DEF TimerInv
<1>5. CASE TimerDrop
  <2> DEFINE f == [Top EXCEPT !.cb = FALSE, !.et = NULL]
  <2>1. f \in Frames /\ ~f.cb
    BY <1>3 DEF Frames
  <2>2. SetTop(f)
    BY <1>5 DEF TimerDrop
  <2> HIDE DEF f
  <2>3. stack' \in Seq(Frames) /\ Len(stack') = Len(stack) /\ Top' = f
        /\ \A k \in 1..Len(stack) : stack'[k] = IF k = Len(stack) THEN f ELSE stack[k]
    BY <1>3, <2>1, <2>2, SetTopFacts
  <2>4. timers \in Seq(Addrs) /\ IsInjective(timers)
        /\ {b \in Addrs : heap[b] # NULL} = Range(timers)
    BY DEF TimerInv, TimersOwned, TypeOK
  <2>5. timers' = RemoveAt(timers, Top.i) /\ heap' = [heap EXCEPT ![a] = NULL]
    BY <1>5 DEF TimerDrop
  <2>6. timers' \in Seq(Addrs)
    BY <1>2, <2>4, <2>5, RemoveAtProperties
  <2>7. IsInjective(timers') /\ Range(timers') = Range(timers) \ {a}
    BY <1>2, <2>4, <2>5, RemoveAtOfDistinct
  <2>8. TypeOK'
    BY <1>2, <1>5, <2>3, <2>5, <2>6 DEF TimerDrop, TimerInv, TypeOK
  <2>9. {b \in Addrs : heap'[b] # NULL} = {b \in Addrs : heap[b] # NULL} \ {a}
    BY <1>2, <2>5 DEF TimerInv, TypeOK
  <2>10. TimersOwned'
    BY <2>4, <2>7, <2>9 DEF TimersOwned
  <2>11. ActiveTimerStable'
    BY <2>1, <2>3 DEF ActiveTimerStable
  <2>12. OneTimerFrame'
    BY <1>3, <2>3, LenProperties DEF TimerInv, OneTimerFrame
  <2> QED
    BY <2>8, <2>10, <2>11, <2>12 DEF TimerInv
<1> QED
  BY <1>4, <1>5

(* A callback of _loop_io returns.                                         *)
LEMMA TimerInvIOReturn ==
    ASSUME TimerInv, NEW d \in Dirs, IOKeep(d) \/ IODrop(d)
    PROVE  TimerInv'
<1> USE DEF io, timing
<1>1. InCallback(d) /\ d # "timers"
  BY DEF IOKeep, IODrop, Dirs
<1>2. stack \in Seq(Frames) /\ stack # <<>> /\ Top \in Frames
  BY <1>1, TopFacts DEF InCallback, TimerInv, TypeOK
<1>3. CASE IOKeep(d)
  <2> DEFINE f == [Top EXCEPT !.cb = FALSE, !.i = @ + 1, !.fd = -1]
  <2>1. f \in Frames /\ ~f.cb
    <3>1. Top.i + 1 \in Nat
      BY <1>2 DEF Frames
    <3>2. f \in Frames
      BY <1>2, <3>1, FrameUpdates
    <3>3. DOMAIN Top = DOMAIN f /\ "cb" \in DOMAIN Top
      BY <1>2 DEF Frames
    <3> QED
      BY <3>2, <3>3
  <2>5. SetTop(f)
    BY <1>3 DEF IOKeep
  <2> HIDE DEF f
  <2>2. stack' \in Seq(Frames)
    BY <1>2, <2>1, <2>5, SetTopFacts
  <2>3. TypeOK'
    BY <1>3, <2>2 DEF IOKeep, TimerInv, TypeOK
  <2> QED
    BY <1>2, <1>3, <2>1, <2>3, <2>5, TimerInvFrame DEF IOKeep
<1>4. CASE IODrop(d)
  <2> DEFINE f == [Top EXCEPT !.cb = FALSE, !.fd = -1]
  <2>1. f \in Frames /\ ~f.cb /\ SetTop(f)
    BY <1>2, <1>4 DEF Frames, IODrop
  <2> HIDE DEF f
  <2>2. stack' \in Seq(Frames)
    BY <1>2, <2>1, SetTopFacts
  <2>4. TypeOK'
    BY <1>4, <2>2, RemoveIOType DEF IODrop, TimerInv, TypeOK
  <2> QED
    BY <1>2, <1>4, <2>1, <2>4, TimerInvFrame DEF IODrop
<1> QED
  BY <1>3, <1>4

(* event_loop at its condition: a loop returns, select() fails or returns. *)
LEMMA TimerInvLoop ==
    ASSUME TimerInv,
           \/ LoopReturn \/ LoopSpin \/ SelectFails
           \/ \E ready \in [Dirs -> SUBSET Fds], t \in ClockTimes : Select(ready, t)
    PROVE  TimerInv'
<1> USE DEF io, timing
<1>1. CASE LoopReturn \/ SelectFails
  <2>1. Pop /\ stack # <<>> /\ UNCHANGED <<loop, io, timing, clock, scan, flag>>
    BY <1>1 DEF LoopReturn, SelectFails, AtSelect, LibraryAt
  <2>2. stack' \in Seq(Frames)
    BY <2>1, PopFacts DEF TimerInv, TypeOK
  <2>3. TypeOK'
    BY <2>1, <2>2 DEF TimerInv, TypeOK
  <2> QED
    BY <2>1, <2>3, TimerInvPop
<1>2. CASE LoopSpin
  BY <1>2 DEF LoopSpin, vars, TimerInv, TypeOK, TimersOwned, ActiveTimerStable,
              OneTimerFrame, Top
<1>3. ASSUME NEW ready \in [Dirs -> SUBSET Fds], NEW t \in ClockTimes, Select(ready, t)
      PROVE  TimerInv'
  <2> DEFINE f == [Top EXCEPT !.pc = "timers", !.i = 1, !.now = t, !.ready = ready]
  <2>1. stack \in Seq(Frames) /\ stack # <<>> /\ Top \in Frames /\ ~Top.cb
    BY <1>3, TopFacts DEF Select, AtSelect, LibraryAt, TimerInv, TypeOK
  <2>2. t \in Timevals
    BY ClockTimesType
  <2>3. f \in Frames /\ ~f.cb
    BY <2>1, <2>2 DEF Frames
  <2>4. SetTop(f)
    BY <1>3 DEF Select
  <2> HIDE DEF f
  <2>5. stack' \in Seq(Frames)
    BY <2>1, <2>3, <2>4, SetTopFacts
  <2>6. Forever \in Timevals
    BY TimeAssumption DEF Forever, Timevals
  <2>7. TypeOK'
    BY <1>3, <2>5, <2>6 DEF Select, TimerInv, TypeOK
  <2> QED
    BY <1>3, <2>1, <2>3, <2>4, <2>7, TimerInvFrame DEF Select
<1> QED
  BY <1>1, <1>2, <1>3

(* The steps of _loop_timeout outside of its callbacks.                    *)
LEMMA TimerInvTimers ==
    ASSUME TimerInv, TimerFire \/ TimerWait \/ TimersDone
    PROVE  TimerInv'
<1> USE DEF io, timing
<1>1. stack \in Seq(Frames) /\ stack # <<>> /\ Top \in Frames /\ ~Top.cb
  BY TopFacts DEF TimerFire, TimerWait, TimersDone, LibraryAt, TimerInv, TypeOK
<1>2. ASSUME Top.i \in DOMAIN timers
      PROVE  timers[Top.i] \in Addrs /\ heap[timers[Top.i]] \in EventTimeouts
  <2>1. timers[Top.i] \in Range(timers)
    BY <1>2 DEF Range
  <2> QED
    BY <2>1 DEF TimerInv, TimersOwned, TypeOK
<1>3. CASE TimerFire
  <2> DEFINE f == [Top EXCEPT !.cb = TRUE, !.et = timers[Top.i]]
  <2>1. f \in Frames
    BY <1>1, <1>2, <1>3 DEF Frames, TimerFire
  <2>2. f.i = Top.i /\ f.et = timers[Top.i]
    BY <1>1 DEF Frames
  <2>3. SetTop(f)
    BY <1>3 DEF TimerFire
  <2> HIDE DEF f
  <2>4. stack' \in Seq(Frames)
    BY <1>1, <2>1, <2>3, SetTopFacts
  <2>5. TypeOK'
    BY <1>3, <2>4 DEF TimerFire, TimerInv, TypeOK
  <2> QED
    BY <1>1, <1>3, <2>1, <2>2, <2>3, <2>5, TimerInvFrame DEF TimerFire
<1>4. CASE TimerWait
  <2> DEFINE f == [Top EXCEPT !.i = @ + 1]
  <2>1. Top.i + 1 \in Nat
    BY <1>1 DEF Frames
  <2>2. f \in Frames /\ ~f.cb
    <3>1. f \in Frames
      BY <1>1, <2>1, FrameUpdates
    <3> QED
      BY <1>1, <3>1 DEF Frames
  <2>3. SetTop(f)
    BY <1>4 DEF TimerWait
  <2> HIDE DEF f
  <2>4. stack' \in Seq(Frames)
    BY <1>1, <2>2, <2>3, SetTopFacts
  <2>5. Remaining \in Timevals
    <3>1. heap[timers[Top.i]].timeout \in Timevals
      BY <1>2, <1>4 DEF TimerWait, EventTimeouts
    <3>2. Top.now \in Timevals
      BY <1>1 DEF Frames
    <3> QED
      BY <3>1, <3>2 DEF Remaining, Minus, Timevals
  <2>6. Borrow(Remaining) \in Timevals
    BY <2>5 DEF Borrow, Timevals
  <2>7. TypeOK'
    BY <1>4, <2>4, <2>6 DEF TimerWait, TimerInv, TypeOK
  <2> QED
    BY <1>1, <1>4, <2>2, <2>3, <2>7, TimerInvFrame DEF TimerWait
<1>5. CASE TimersDone
  <2> DEFINE f == [Top EXCEPT !.pc = "read", !.i = 1]
  <2>1. f \in Frames /\ ~f.cb
    BY <1>1 DEF Frames, Dirs
  <2>2. SetTop(f)
    BY <1>5 DEF TimersDone
  <2> HIDE DEF f
  <2>3. stack' \in Seq(Frames)
    BY <1>1, <2>1, <2>2, SetTopFacts
  <2>4. TypeOK'
    BY <1>5, <2>3 DEF TimersDone, TimerInv, TypeOK
  <2> QED
    BY <1>1, <1>5, <2>1, <2>2, <2>4, TimerInvFrame DEF TimersDone
<1> QED
  BY <1>3, <1>4, <1>5

(* The steps of _loop_io outside of its callbacks.                         *)
LEMMA TimerInvIO ==
    ASSUME TimerInv, NEW d \in Dirs, IOCall(d) \/ IODone(d)
    PROVE  TimerInv'
<1> USE DEF io, timing
<1>1. /\ stack \in Seq(Frames) /\ stack # <<>> /\ Top \in Frames
      /\ ~Top.cb /\ Top.pc = d /\ d # "timers"
  BY TopFacts DEF IOCall, IODone, LibraryAt, TimerInv, TypeOK, Dirs
<1>2. CASE IOCall(d)
  <2>1. PICK j \in DOMAIN ios[d] :
            SetTop([Top EXCEPT !.cb = TRUE, !.i = j, !.fd = ios[d][j]])
    BY <1>2 DEF IOCall
  <2> DEFINE f == [Top EXCEPT !.cb = TRUE, !.i = j, !.fd = ios[d][j]]
  <2>2. j \in Nat /\ ios[d][j] \in Fds
    BY LenProperties, ElementOfSeq DEF TimerInv, TypeOK
  <2>3. f \in Frames /\ f.pc # "timers"
    BY <1>1, <2>2 DEF Frames
  <2> HIDE DEF f
  <2>4. SetTop(f)
    BY <2>1 DEF f
  <2>5. stack' \in Seq(Frames)
    BY <1>1, <2>3, <2>4, SetTopFacts
  <2>6. TypeOK'
    BY <1>2, <2>5 DEF IOCall, TimerInv, TypeOK
  <2> QED
    BY <1>1, <1>2, <2>3, <2>4, <2>6, TimerInvFrame DEF IOCall
<1>3. CASE IODone(d)
  <2> DEFINE f == IF d = "read"
                  THEN [Top EXCEPT !.pc = "write", !.i = 1]
                  ELSE NewFrame(Top.flagged)
  <2>1. f \in Frames /\ ~f.cb
    <3>1. CASE d = "read"
      BY <1>1, <3>1 DEF Frames, Dirs
    <3>2. CASE d # "read"
      <4>1. Top.flagged \in BOOLEAN
        BY <1>1 DEF Frames
      <4> QED
        BY <3>2, <4>1, NewFrameType DEF NewFrame
    <3> QED
      BY <3>1, <3>2
  <2>2. SetTop(f)
    BY <1>3 DEF IODone
  <2> HIDE DEF f
  <2>3. stack' \in Seq(Frames)
    BY <1>1, <2>1, <2>2, SetTopFacts
  <2>4. TypeOK'
    BY <1>3, <2>3 DEF IODone, TimerInv, TypeOK
  <2> QED
    BY <1>1, <1>3, <2>1, <2>2, <2>4, TimerInvFrame DEF IODone
<1> QED
  BY <1>2, <1>3

LEMMA TimerInvNext ==
    ASSUME TimerInv, [Next]_vars
    PROVE  TimerInv'
<1>1. CASE UNCHANGED vars
  BY <1>1 DEF vars, io, timing, TimerInv, TypeOK, TimersOwned,
              ActiveTimerStable, OneTimerFrame, Top
<1>2. CASE Calls
  BY <1>2, TimerInvPlainCalls, TimerInvEventLoop, TimerInvRegisterTimeout,
     TimerInvUnregisterTimeout, TimerInvEventDelete DEF Calls
<1>3. CASE Returns
  BY <1>3, TimerInvTimerReturn, TimerInvIOReturn DEF Returns
<1>4. CASE Library
  BY <1>4, TimerInvRescan, TimerInvLoop, TimerInvTimers, TimerInvIO DEF Library
<1> QED
  BY <1>1, <1>2, <1>3, <1>4 DEF Next

(* Every action keeps the invariant, so every reachable state has it.      *)
THEOREM TimerInvariant == Spec => []TimerInv
<1>1. Init => TimerInv
  BY TimerInvInit
<1>2. TimerInv /\ [Next]_vars => TimerInv'
  BY TimerInvNext
<1> QED
  BY <1>1, <1>2, PTL DEF Spec

(* Every variable has its type in every reachable state.                   *)
THEOREM TypeCorrect == Spec => []TypeOK
<1>1. TimerInv => TypeOK
  BY DEF TimerInv
<1> QED
  BY <1>1, TimerInvariant, PTL

(* Timeouts neither leak nor outlive their entry (event_register_timeout,  *)
(* event_unregister_timeout, event_delete and the end of a callback).      *)
THEOREM TimersOwnedAlways == Spec => []TimersOwned
<1>1. TimerInv => TimersOwned
  BY DEF TimerInv
<1> QED
  BY <1>1, TimerInvariant, PTL

(* _loop_timeout removes and frees the entry whose callback it called,     *)
(* under the contract of MayLoop and MayUnregisterTimeout.                 *)
THEOREM ActiveTimerStableAlways == Spec => []ActiveTimerStable
<1>1. TimerInv => ActiveTimerStable
  BY DEF TimerInv
<1> QED
  BY <1>1, TimerInvariant, PTL

----------------------------------------------------------------------------
(* What select() is given.  WatchedExact is not inductive: the set and the *)
(* count are kept right separately.                                        *)

IOInv ==
    \A d \in Dirs :
        /\ fds[d] = Range(ios[d])
        /\ \A fd \in Range(ios[d]) : fd <= fdmax

LEMMA IOInvInit == Init => IOInv
  BY DEF Init, IOInv, Range

LEMMA IOInvRemoveIO ==
    ASSUME TypeOK, IOInv, NEW d \in Dirs, NEW fd, RemoveIO(d, fd)
    PROVE  IOInv'
<1> DEFINE left == RemoveAll(ios[d], {fd})
           o == Other(d)
<1>1. o \in Dirs /\ o # d /\ \A e \in Dirs : e = d \/ e = o
  BY DEF Other, Dirs
<1>2. ios[d] \in Seq(Fds) /\ ios[o] \in Seq(Fds)
  BY <1>1 DEF TypeOK
<1>3. left \in Seq(Fds) /\ Range(left) = Range(ios[d]) \ {fd}
  BY <1>2, RemoveAllProperties
<1> HIDE DEF left, o
<1>4. /\ ios' = [ios EXCEPT ![d] = left]
      /\ fds' = [fds EXCEPT ![d] = @ \ {fd}]
      /\ fdmax' = MaxFd(Range(left) \cup Range(ios[o]))
  BY DEF RemoveIO, left, o
<1>5. Range(left) \cup Range(ios[o]) \subseteq Fds
  BY <1>2, <1>3, RangeOfSeqInSet
<1>6. \A e \in Range(left) \cup Range(ios[o]) : e <= fdmax'
  BY <1>4, <1>5, MaxFdProperties
<1>7. ios'[d] = left /\ ios'[o] = ios[o]
  BY <1>1, <1>4 DEF TypeOK
<1>8. fds'[d] = fds[d] \ {fd} /\ fds'[o] = fds[o]
  BY <1>1, <1>4 DEF TypeOK
<1>9. fds'[d] = Range(ios'[d]) /\ \A e \in Range(ios'[d]) : e <= fdmax'
  BY <1>3, <1>6, <1>7, <1>8 DEF IOInv
<1>10. fds'[o] = Range(ios'[o]) /\ \A e \in Range(ios'[o]) : e <= fdmax'
  BY <1>1, <1>6, <1>7, <1>8 DEF IOInv
<1> QED
  BY <1>1, <1>9, <1>10 DEF IOInv

LEMMA IOInvRegisterIO ==
    ASSUME TypeOK, IOInv, NEW d \in Dirs, NEW fd \in Fds, RegisterIO(d, fd)
    PROVE  IOInv'
<1> DEFINE s == ios[d]
           t == Append(s, fd)
<1>1. s \in Seq(Fds) /\ Len(s) \in Nat /\ DOMAIN s = 1..Len(s)
  BY LenProperties DEF TypeOK
<1>2. /\ t \in Seq(Fds) /\ Len(t) = Len(s) + 1 /\ t[Len(s) + 1] = fd
      /\ \A k \in 1..Len(s) : t[k] = s[k]
  BY <1>1, AppendProperties
<1>3. DOMAIN t = 1..(Len(s) + 1)
  BY <1>2, LenProperties
<1> HIDE DEF t
<1>4. Range(t) = Range(s) \cup {fd}
  BY <1>1, <1>2, <1>3 DEF Range
<1>5. ios' = [ios EXCEPT ![d] = t] /\ fds' = [fds EXCEPT ![d] = @ \cup {fd}]
  BY DEF RegisterIO, t
<1>6. fdmax \in Int /\ fd \in Int /\ Fds \subseteq Int
  BY FdAssumption DEF TypeOK
<1>7. fdmax' \in Int /\ fdmax <= fdmax' /\ fd <= fdmax'
  BY <1>6 DEF RegisterIO
<1>8. ASSUME NEW e \in Dirs
      PROVE  fds'[e] = Range(ios'[e]) /\ \A x \in Range(ios'[e]) : x <= fdmax'
  <2>1. ios[e] \in Seq(Fds) /\ Range(ios[e]) \subseteq Int
    BY <1>6, RangeOfSeqInSet DEF TypeOK
  <2>2. \A x \in Range(ios[e]) : x <= fdmax'
    <3>1. \A x \in Range(ios[e]) : x \in Int /\ x <= fdmax
      BY <2>1 DEF IOInv
    <3> QED
      BY <1>6, <1>7, <3>1
  <2>3. CASE e = d
    <3>1. ios'[e] = t /\ fds'[e] = fds[e] \cup {fd}
      BY <1>5, <2>3 DEF TypeOK
    <3> QED
      BY <1>4, <1>7, <2>2, <2>3, <3>1 DEF IOInv
  <2>4. CASE e # d
    <3>1. ios'[e] = ios[e] /\ fds'[e] = fds[e]
      BY <1>5, <2>4 DEF TypeOK
    <3> QED
      BY <2>2, <3>1 DEF IOInv
  <2> QED
    BY <2>3, <2>4
<1> QED
  BY <1>8 DEF IOInv

LEMMA IOInvRegisterIOFails ==
    ASSUME TypeOK, IOInv, NEW fd \in Fds, RegisterIOFails(fd)
    PROVE  IOInv'
<1>1. fdmax \in Int /\ fd \in Int /\ Fds \subseteq Int
  BY FdAssumption DEF TypeOK
<1>2. fdmax' \in Int /\ fdmax <= fdmax' /\ UNCHANGED <<fds, ios>>
  BY <1>1 DEF RegisterIOFails
<1>3. \A d \in Dirs : Range(ios[d]) \subseteq Int
  BY <1>1, RangeOfSeqInSet DEF TypeOK
<1> QED
  BY <1>1, <1>2, <1>3 DEF IOInv

LEMMA IOInvNext ==
    ASSUME TypeOK, IOInv, [Next]_vars
    PROVE  IOInv'
<1>1. CASE UNCHANGED io
  BY <1>1 DEF io, IOInv
<1>2. ASSUME NEW d \in Dirs, NEW fd \in Fds, RegisterIO(d, fd) PROVE IOInv'
  BY <1>2, IOInvRegisterIO
<1>3. ASSUME NEW d \in Dirs, NEW fd \in Fds, UnregisterIO(d, fd) PROVE IOInv'
  BY <1>3, IOInvRemoveIO DEF UnregisterIO
<1>4. ASSUME NEW fd \in Fds, RegisterIOFails(fd) PROVE IOInv'
  BY <1>4, IOInvRegisterIOFails
<1>5. ASSUME NEW d \in Dirs, IODrop(d) PROVE IOInv'
  BY <1>5, IOInvRemoveIO DEF IODrop
<1>6. CASE EventDelete
  BY <1>6 DEF EventDelete, IOInv, Range
<1>7. CASE Calls
  BY <1>1, <1>2, <1>3, <1>4, <1>6, <1>7
  DEF Calls, EventLoop, EventLoopQuit, SetFlag, RegisterTimeout,
      UnregisterTimeout, PassTime
<1>8. CASE Returns
  BY <1>1, <1>5, <1>8 DEF Returns, TimerKeep, TimerDrop, IOKeep
<1>9. CASE Library
  BY <1>1, <1>9
  DEF Library, Rescan, RescanSkip, RescanOverdue, RescanTake, RescanDone,
      LoopReturn, LoopSpin, vars, Select, SelectFails, TimerFire, TimerWait,
      TimersDone, IOCall, IODone
<1> QED
  BY <1>1, <1>7, <1>8, <1>9 DEF Next, vars

(* Whatever is registered, unregistered or fails to register, by the       *)
(* application or by _loop_io, select() watches what is registered and     *)
(* nothing else.                                                           *)
THEOREM WatchedExactAlways == Spec => []WatchedExact
<1>1. Init => IOInv
  BY IOInvInit
<1>2. TypeOK /\ IOInv /\ [Next]_vars => IOInv'
  BY IOInvNext
<1>3. IOInv => WatchedExact
  BY DEF IOInv, WatchedExact, Watched
<1> QED
  BY <1>1, <1>2, <1>3, TypeCorrect, PTL DEF Spec
----------------------------------------------------------------------------
(* What is due, and when.  The sum of two reduced timevals has less than   *)
(* two seconds of microseconds, which is what bounds how early a callback  *)
(* may come.                                                               *)

DueTimes == {t \in Timevals : /\ 0 <= t.sec /\ t.sec <= LongMax
                              /\ 0 <= t.usec /\ t.usec <= 2 * Usec - 2}

HeapDue ==
    \A a \in Addrs : heap[a] # NULL =>
        heap[a].initial \in Delays /\ heap[a].timeout \in DueTimes

FrameDue ==
    stack # <<>> /\ Top.pc = "timers" =>
        /\ Top.now \in ClockTimes
        /\ Top.cb => Expired(Top.now, heap[Top.et].timeout)

DueInv == HeapDue /\ FrameDue

LEMMA PlusIsDue ==
    ASSUME NEW delay \in Delays, NEW now \in ClockTimes
    PROVE  Plus(delay, now) \in DueTimes /\ Plus(now, delay) \in DueTimes
<1>1. /\ delay.sec \in Nat /\ delay.usec \in 0..(Usec - 1)
      /\ now.sec \in Nat /\ now.sec < LastSec /\ now.usec \in 0..(Usec - 1)
  BY TimeAssumption DEF ClockTimes
<1>2. LastSec + delay.sec <= LongMax
  BY TimeAssumption
<1> QED
  BY <1>1, <1>2, TimeAssumption DEF Plus, DueTimes, Timevals

(* Seconds are lost in the comparison, ticks are not.                      *)
LEMMA ExpiredTicks ==
    ASSUME NEW now \in ClockTimes, NEW due \in DueTimes, Expired(now, due)
    PROVE  Ticks(due) < Ticks(now) + Usec
<1>1. /\ now.sec \in Nat /\ now.usec \in 0..(Usec - 1)
      /\ due.sec \in Nat /\ due.usec \in 0..(2 * Usec - 2) /\ Usec \in Nat
  BY TimeAssumption DEF ClockTimes, DueTimes, Timevals
<1>2. CASE now.sec = due.sec
  BY <1>1, <1>2 DEF Expired, Before, Ticks
<1>3. CASE now.sec > due.sec
  <2>1. Usec * (due.sec + 1) = Usec * due.sec + Usec
    BY <1>1
  <2>2. Usec * now.sec >= Usec * (due.sec + 1)
    BY <1>1, <1>3
  <2>3. Usec * now.sec \in Int /\ Usec * due.sec \in Int
    BY <1>1
  <2> QED
    BY <1>1, <2>1, <2>2, <2>3 DEF Ticks
<1> QED
  BY <1>1, <1>2, <1>3 DEF Expired, Before

LEMMA DueInvInit == Init => DueInv
  BY DEF Init, DueInv, HeapDue, FrameDue

LEMMA HeapDueNext ==
    ASSUME TimerInv, DueInv, [Next]_vars
    PROVE  HeapDue'
<1> USE DEF timing
<1>1. CASE UNCHANGED heap
  BY <1>1 DEF DueInv, HeapDue
<1>2. ASSUME NEW delay \in Delays, NEW func \in Funcs, NEW a \in Addrs,
             RegisterTimeout(delay, func, a)
      PROVE  HeapDue'
  <2> DEFINE et == [initial |-> delay, timeout |-> Plus(clock, delay), func |-> func]
  <2>1. heap' = [heap EXCEPT ![a] = et]
    BY <1>2 DEF RegisterTimeout
  <2>2. et.initial \in Delays /\ et.timeout \in DueTimes
    BY PlusIsDue DEF TimerInv, TypeOK
  <2> HIDE DEF et
  <2>3. \A b \in Addrs : heap'[b] = IF b = a THEN et ELSE heap[b]
    BY <2>1 DEF TimerInv, TypeOK
  <2> QED
    BY <2>2, <2>3 DEF DueInv, HeapDue
<1>3. ASSUME NEW func, UnregisterTimeout(func) PROVE HeapDue'
  BY <1>3 DEF UnregisterTimeout, DueInv, HeapDue
<1>4. CASE EventDelete
  BY <1>4 DEF EventDelete, DueInv, HeapDue
<1>5. CASE TimerKeep
  <2> DEFINE a == Top.et
             again == [heap[a] EXCEPT !.timeout = Plus(heap[a].initial, Top.now)]
  <2>1. InCallback("timers") /\ heap' = [heap EXCEPT ![a] = again]
    BY <1>5 DEF TimerKeep
  <2>2. a \in Addrs /\ heap[a] \in EventTimeouts
    BY <2>1, ActiveTimerAllocated
  <2>3. heap[a].initial \in Delays
    BY <2>2, NullAssumption DEF DueInv, HeapDue
  <2>4. Top.now \in ClockTimes
    BY <2>1 DEF InCallback, DueInv, FrameDue
  <2>5. Plus(heap[a].initial, Top.now) \in DueTimes
    BY <2>3, <2>4, PlusIsDue
  <2>6. again.initial = heap[a].initial
        /\ again.timeout = Plus(heap[a].initial, Top.now)
    BY <2>2 DEF EventTimeouts
  <2> HIDE DEF again
  <2>7. \A b \in Addrs : heap'[b] = IF b = a THEN again ELSE heap[b]
    BY <2>1, <2>2 DEF TimerInv, TypeOK
  <2> QED
    BY <2>3, <2>5, <2>6, <2>7 DEF DueInv, HeapDue
<1>6. CASE TimerDrop
  <2>1. heap' = [heap EXCEPT ![Top.et] = NULL]
    BY <1>6 DEF TimerDrop
  <2>2. \A b \in Addrs : heap'[b] = NULL \/ heap'[b] = heap[b]
    BY <2>1 DEF TimerInv, TypeOK
  <2> QED
    BY <2>2 DEF DueInv, HeapDue
<1>7. CASE Calls
  BY <1>1, <1>2, <1>3, <1>4, <1>7
  DEF Calls, EventLoop, EventLoopQuit, SetFlag, RegisterIO, RegisterIOFails,
      UnregisterIO, PassTime
<1>8. CASE Returns
  BY <1>1, <1>5, <1>6, <1>8 DEF Returns, IOKeep, IODrop
<1>9. CASE Library
  BY <1>1, <1>9
  DEF Library, Rescan, RescanSkip, RescanOverdue, RescanTake, RescanDone,
      LoopReturn, LoopSpin, vars, Select, SelectFails, TimerFire, TimerWait,
      TimersDone, IOCall, IODone
<1> QED
  BY <1>1, <1>7, <1>8, <1>9 DEF Next, vars

(* A step inside the innermost loop, with the frame f it leaves.           *)
LEMMA FrameDueSetTop ==
    ASSUME TimerInv, stack # <<>>, NEW f, SetTop(f),
           f.pc = "timers" =>
               /\ f.now \in ClockTimes
               /\ f.cb => Expired(f.now, heap'[f.et].timeout)
    PROVE  FrameDue'
<1>1. Top' = f
  BY SetTopFacts DEF TimerInv, TypeOK
<1> QED
  BY <1>1 DEF FrameDue

LEMMA FrameDueTimers ==
    ASSUME TimerInv, DueInv,
           TimerFire \/ TimerWait \/ TimersDone \/ TimerKeep \/ TimerDrop
    PROVE  FrameDue'
<1>1. stack \in Seq(Frames) /\ stack # <<>> /\ Top \in Frames
      /\ Top.pc = "timers" /\ Top.now \in ClockTimes
  BY TopFacts DEF TimerFire, TimerWait, TimersDone, TimerKeep, TimerDrop,
     LibraryAt, InCallback, TimerInv, TypeOK, DueInv, FrameDue
<1>2. \A f : SetTop(f) => Top' = f
  BY <1>1, SetTopFacts
<1>3. CASE TimerFire
  <2>1. Top' = [Top EXCEPT !.cb = TRUE, !.et = timers[Top.i]] /\ heap' = heap
    BY <1>2, <1>3 DEF TimerFire, timing
  <2>2. Top'.now = Top.now /\ Top'.et = timers[Top.i]
    BY <1>1, <2>1 DEF Frames
  <2> QED
    BY <1>1, <1>3, <2>1, <2>2 DEF FrameDue, TimerFire
<1>4. CASE TimerWait
  <2>1. Top' = [Top EXCEPT !.i = @ + 1]
    BY <1>2, <1>4 DEF TimerWait
  <2>2. Top'.now = Top.now /\ ~Top'.cb
    BY <1>1, <1>4, <2>1 DEF Frames, TimerWait, LibraryAt
  <2> QED
    BY <1>1, <2>2 DEF FrameDue
<1>5. CASE TimersDone
  <2>1. Top' = [Top EXCEPT !.pc = "read", !.i = 1]
    BY <1>2, <1>5 DEF TimersDone
  <2>2. Top'.pc = "read"
    BY <1>1, <2>1 DEF Frames
  <2> QED
    BY <2>2 DEF FrameDue
<1>6. CASE TimerKeep
  <2>1. Top' = [Top EXCEPT !.cb = FALSE, !.et = NULL, !.i = @ + 1]
    BY <1>2, <1>6 DEF TimerKeep
  <2>2. Top'.now = Top.now /\ ~Top'.cb
    BY <1>1, <2>1 DEF Frames
  <2> QED
    BY <1>1, <2>2 DEF FrameDue
<1>7. CASE TimerDrop
  <2>1. Top' = [Top EXCEPT !.cb = FALSE, !.et = NULL]
    BY <1>2, <1>7 DEF TimerDrop
  <2>2. Top'.now = Top.now /\ ~Top'.cb
    BY <1>1, <2>1 DEF Frames
  <2> QED
    BY <1>1, <2>2 DEF FrameDue
<1> QED
  BY <1>3, <1>4, <1>5, <1>6, <1>7
(* The loop that a returning one uncovers is not in _loop_timeout.         *)
LEMMA UncoveredFrame ==
    ASSUME TimerInv, stack # <<>>, Pop
    PROVE  stack' # <<>> => Top'.pc # "timers"
<1>1. /\ stack' \in Seq(Frames)
      /\ Len(stack') = Len(stack) - 1
      /\ \A k \in 1..(Len(stack) - 1) : stack'[k] = stack[k]
      /\ Len(stack) \in Nat \ {0} /\ DOMAIN stack = 1..Len(stack)
  BY PopFacts, TopFacts DEF TimerInv, TypeOK
<1> SUFFICES ASSUME stack' # <<>> PROVE Top'.pc # "timers"
  OBVIOUS
<1>2. Len(stack') \in 1..(Len(stack) - 1)
  BY <1>1, EmptySeq
<1>3. Top' = stack[Len(stack) - 1] /\ Len(stack) - 1 \in DOMAIN stack
  BY <1>1, <1>2 DEF Top
<1> QED
  BY <1>1, <1>3 DEF TimerInv, OneTimerFrame

(* A step of _loop_io begins and ends outside _loop_timeout.               *)
LEMMA IOFrame ==
    ASSUME TimerInv, NEW d \in Dirs,
           IOCall(d) \/ IODone(d) \/ IOKeep(d) \/ IODrop(d)
    PROVE  stack # <<>> /\ Top.pc # "timers" /\ Top'.pc # "timers"
<1>1. stack \in Seq(Frames) /\ stack # <<>> /\ Top \in Frames
      /\ Top.pc = d /\ d # "timers"
  BY TopFacts
  DEF IOCall, IODone, IOKeep, IODrop, LibraryAt, InCallback, TimerInv, TypeOK, Dirs
<1>2. \E f : SetTop(f) /\ f.pc # "timers"
  <2>1. CASE IOCall(d)
    <3>1. PICK j \in DOMAIN ios[d] :
              SetTop([Top EXCEPT !.cb = TRUE, !.i = j, !.fd = ios[d][j]])
      BY <2>1 DEF IOCall
    <3>2. [Top EXCEPT !.cb = TRUE, !.i = j, !.fd = ios[d][j]].pc = d
      BY <1>1 DEF Frames
    <3> QED
      BY <1>1, <3>1, <3>2
  <2>2. CASE IODone(d)
    <3> DEFINE f == IF d = "read"
                    THEN [Top EXCEPT !.pc = "write", !.i = 1]
                    ELSE NewFrame(Top.flagged)
    <3>1. f.pc \in {"write", "test"}
      BY <1>1 DEF Frames, NewFrame
    <3>2. SetTop(f)
      BY <2>2 DEF IODone
    <3> HIDE DEF f
    <3> QED
      BY <3>1, <3>2
  <2>3. CASE IOKeep(d)
    <3>1. [Top EXCEPT !.cb = FALSE, !.i = Top.i + 1, !.fd = -1].pc = d
      BY <1>1 DEF Frames
    <3> QED
      BY <1>1, <2>3, <3>1 DEF IOKeep
  <2>4. CASE IODrop(d)
    <3>1. [Top EXCEPT !.cb = FALSE, !.fd = -1].pc = d
      BY <1>1 DEF Frames
    <3> QED
      BY <1>1, <2>4, <3>1 DEF IODrop
  <2> QED
    BY <2>1, <2>2, <2>3, <2>4
<1> QED
  BY <1>1, <1>2, SetTopFacts

LEMMA FrameDueElsewhere ==
    ASSUME TimerInv, DueInv,
           \/ Calls
           \/ Rescan \/ LoopReturn \/ LoopSpin \/ SelectFails
           \/ \E ready \in [Dirs -> SUBSET Fds], t \in ClockTimes : Select(ready, t)
           \/ \E d \in Dirs : IOCall(d) \/ IODone(d) \/ IOKeep(d) \/ IODrop(d)
    PROVE  FrameDue'
<1> USE DEF timing
<1>1. CASE UNCHANGED <<stack, heap>>
  BY <1>1 DEF DueInv, FrameDue, Top
<1>2. ASSUME NEW delay \in Delays, NEW func \in Funcs, NEW a \in Addrs,
             RegisterTimeout(delay, func, a)
      PROVE  FrameDue'
  <2>1. UNCHANGED stack /\ scan = 0 /\ heap[a] = NULL
    BY <1>2 DEF RegisterTimeout, MayRegister, AppInControl
  <2>2. ASSUME stack # <<>>, Top.pc = "timers", Top.cb
        PROVE  heap'[Top.et] = heap[Top.et]
    <3>1. Top.et \in Addrs /\ heap[Top.et] \in EventTimeouts
      BY <2>1, <2>2, ActiveTimerAllocated DEF InCallback
    <3>2. Top.et # a
      BY <2>1, <3>1, NullAssumption
    <3> QED
      BY <1>2, <3>1, <3>2 DEF RegisterTimeout, TimerInv, TypeOK
  <2> QED
    BY <2>1, <2>2 DEF DueInv, FrameDue, Top
<1>3. ASSUME NEW func, UnregisterTimeout(func) PROVE FrameDue'
  <2>1. UNCHANGED stack /\ scan = 0
    BY <1>3 DEF UnregisterTimeout, MayUnregisterTimeout, AppInControl
  <2>2. ASSUME stack # <<>>, Top.pc = "timers", Top.cb
        PROVE  heap'[Top.et] = heap[Top.et]
    <3>1. InCallback("timers")
      BY <2>1, <2>2 DEF InCallback
    <3>2. Top.i \in DOMAIN timers /\ timers[Top.i] = Top.et /\ Top.et \in Addrs
      BY <3>1, ActiveTimerAllocated
    <3>3. Top.i \in 1..Top.i
      BY <3>2, LenProperties DEF TimerInv, TypeOK
    <3>4. heap[Top.et].func # func
      BY <1>3, <3>1, <3>2, <3>3 DEF UnregisterTimeout, MayUnregisterTimeout
    <3> QED
      BY <1>3, <3>2, <3>4 DEF UnregisterTimeout
  <2> QED
    BY <2>1, <2>2 DEF DueInv, FrameDue, Top
<1>4. CASE EventDelete
  BY <1>4 DEF EventDelete, FrameDue
<1>5. ASSUME NEW flagged \in BOOLEAN, EventLoop(flagged) PROVE FrameDue'
  <2>1. Top' = NewFrame(flagged)
    BY <1>5, PushFacts, NewFrameType DEF EventLoop, TimerInv, TypeOK
  <2> QED
    BY <2>1 DEF FrameDue, NewFrame
<1>6. CASE LoopReturn \/ SelectFails
  <2>1. stack # <<>> /\ Pop
    BY <1>6 DEF LoopReturn, SelectFails, AtSelect, LibraryAt
  <2> QED
    BY <2>1, UncoveredFrame DEF FrameDue
<1>7. CASE LoopSpin
  BY <1>1, <1>7 DEF LoopSpin, vars
<1>8. ASSUME NEW ready \in [Dirs -> SUBSET Fds], NEW t \in ClockTimes, Select(ready, t)
      PROVE  FrameDue'
  <2> DEFINE f == [Top EXCEPT !.pc = "timers", !.i = 1, !.now = t, !.ready = ready]
  <2>1. stack # <<>> /\ Top \in Frames /\ ~Top.cb /\ SetTop(f)
    BY <1>8, TopFacts DEF Select, AtSelect, LibraryAt, TimerInv, TypeOK
  <2>2. f.now = t /\ ~f.cb
    BY <2>1 DEF Frames
  <2> HIDE DEF f
  <2> QED
    BY <2>1, <2>2, FrameDueSetTop
<1>9. ASSUME NEW d \in Dirs, IOCall(d) \/ IODone(d) \/ IOKeep(d) \/ IODrop(d)
      PROVE  FrameDue'
  BY <1>9, IOFrame DEF FrameDue
<1>10. CASE Calls
  BY <1>1, <1>2, <1>3, <1>4, <1>5, <1>10
  DEF Calls, EventLoopQuit, SetFlag, RegisterIO, RegisterIOFails, UnregisterIO, PassTime
<1>11. CASE Rescan
  BY <1>1, <1>11 DEF Rescan, RescanSkip, RescanOverdue, RescanTake, RescanDone
<1> QED
  BY <1>6, <1>7, <1>8, <1>9, <1>10, <1>11

LEMMA DueInvNext ==
    ASSUME TimerInv, DueInv, [Next]_vars
    PROVE  DueInv'
<1>1. HeapDue'
  BY HeapDueNext
<1>2. FrameDue'
  <2>1. CASE UNCHANGED vars
    BY <2>1 DEF vars, timing, DueInv, FrameDue, Top
  <2>2. CASE Next
    BY <2>2, FrameDueTimers, FrameDueElsewhere DEF Next, Returns, Library
  <2> QED
    BY <2>1, <2>2
<1> QED
  BY <1>1, <1>2 DEF DueInv

(* A callback is at most a second early: the comparison in _loop_timeout   *)
(* works on sums whose microseconds event_register_timeout does not carry  *)
(* into the seconds.                                                       *)
THEOREM NotTooEarlyAlways == Spec => []NotTooEarly
<1>1. Init => DueInv
  BY DueInvInit
<1>2. TimerInv /\ DueInv /\ [Next]_vars => DueInv'
  BY DueInvNext
<1>3. TimerInv /\ DueInv => NotTooEarly
  <2> SUFFICES ASSUME TimerInv, DueInv, stack # <<>>, Top.cb, Top.pc = "timers"
               PROVE  Ticks(heap[Top.et].timeout) < Ticks(Top.now) + Usec
    BY DEF NotTooEarly
  <2>1. Top.et \in Range(timers)
    BY DEF TimerInv, ActiveTimerStable, Range
  <2>2. Top.et \in Addrs /\ heap[Top.et] # NULL
    BY <2>1 DEF TimerInv, TimersOwned
  <2>3. heap[Top.et].timeout \in DueTimes
    BY <2>2 DEF DueInv, HeapDue
  <2> QED
    BY <2>3, ExpiredTicks DEF DueInv, FrameDue
<1> QED
  BY <1>1, <1>2, <1>3, TimerInvariant, PTL DEF Spec

----------------------------------------------------------------------------
(* What is computed for select().                                          *)

Counts(t) == 0 <= t.sec /\ 0 <= t.usec

(* A duration that is not "Forever", and that replaces it when the earliest *)
(* of the two is taken.                                                    *)
Bounded(t) == t.sec \in Int /\ t.usec \in Int /\ t.sec <= LongMax /\ t.usec < LongMax

LEMMA BoundedIsFinite ==
    ASSUME NEW t, Bounded(t)
    PROVE  t # Forever /\ Before(t, Forever)
  BY TimeAssumption DEF Bounded, Forever, Before

LEMMA EarliestIsFinite ==
    ASSUME NEW t, Bounded(t), NEW u
    PROVE  Earliest(t, u) # Forever
  BY BoundedIsFinite DEF Earliest

LEMMA DelayBounded ==
    ASSUME NEW delay \in Delays
    PROVE  Bounded(delay) /\ Counts(delay)
<1>1. delay.sec \in Nat /\ delay.usec \in 0..(Usec - 1)
      /\ LastSec + delay.sec <= LongMax
  BY TimeAssumption
<1> QED
  BY <1>1, TimeAssumption DEF Bounded, Counts

(* What remains to a timeout, before and after the borrow.                 *)
LEMMA RemainingFacts ==
    ASSUME NEW due \in DueTimes, NEW now \in ClockTimes
    PROVE  /\ Bounded(Minus(due, now))
           /\ Bounded(Borrow(Minus(due, now)))
           /\ Bounded(BorrowAtZero(Minus(due, now)))
           /\ ~Expired(now, due) => Counts(Borrow(Minus(due, now)))
           /\ now.sec <= due.sec => Counts(BorrowAtZero(Minus(due, now)))
<1>1. /\ due.sec \in Nat /\ due.usec \in 0..(2 * Usec - 2) /\ due.sec <= LongMax
      /\ now.sec \in Nat /\ now.usec \in 0..(Usec - 1)
      /\ Usec \in Nat \ {0} /\ LongMax \in Nat /\ 2 * Usec <= LongMax
  BY TimeAssumption DEF DueTimes, Timevals, ClockTimes
<1> DEFINE r == Minus(due, now)
<1>2. r.sec = due.sec - now.sec /\ r.usec = due.usec - now.usec
  BY DEF Minus
<1> HIDE DEF r
<1>3. r.sec \in Int /\ r.usec \in Int /\ r.sec <= LongMax
      /\ r.usec < LongMax /\ -r.usec < LongMax
  BY <1>1, <1>2
<1>4. Bounded(r)
  BY <1>3 DEF Bounded
<1>5. Bounded(Borrow(r))
  BY <1>1, <1>3 DEF Bounded, Borrow
<1>6. Bounded(BorrowAtZero(r))
  BY <1>1, <1>3 DEF Bounded, BorrowAtZero
<1>7. ASSUME ~Expired(now, due) PROVE Counts(Borrow(r))
  <2>1. now.sec < due.sec \/ (now.sec = due.sec /\ now.usec < due.usec)
    BY <1>7 DEF Expired, Before
  <2>2. r.sec >= 0 /\ (r.usec < 0 => r.sec >= 1)
    BY <1>1, <1>2, <2>1
  <2> QED
    BY <1>3, <2>2 DEF Borrow, Counts
<1>8. ASSUME now.sec <= due.sec PROVE Counts(BorrowAtZero(r))
  <2>1. r.sec >= 0
    BY <1>1, <1>2, <1>8
  <2> QED
    BY <1>3, <2>1 DEF BorrowAtZero, Counts
<1> QED
  BY <1>4, <1>5, <1>6, <1>7, <1>8 DEF r

(* The entries of event->timeouts have times that are due.                 *)
LEMMA TimerIsDue ==
    ASSUME TimerInv, DueInv, NEW k \in DOMAIN timers
    PROVE  /\ heap[timers[k]].timeout \in DueTimes
           /\ heap[timers[k]].initial \in Delays
<1>1. timers[k] \in Range(timers)
  BY DEF Range
<1>2. timers[k] \in Addrs /\ heap[timers[k]] # NULL
  BY <1>1 DEF TimerInv, TimersOwned
<1> QED
  BY <1>2 DEF DueInv, HeapDue

(* The same of the callback that returns.                                  *)
LEMMA ActiveTimerIsDue ==
    ASSUME TimerInv, DueInv, InCallback("timers")
    PROVE  heap[Top.et].initial \in Delays
<1>1. Top.et \in Addrs /\ heap[Top.et] \in EventTimeouts
  BY ActiveTimerAllocated
<1> QED
  BY <1>1, NullAssumption DEF DueInv, HeapDue

----------------------------------------------------------------------------
(* select() gets no negative timeout.                                      *)

LEMMA CountsNext ==
    ASSUME TimerInv, DueInv, Counts(timeout), [Next]_vars
    PROVE  Counts(timeout')
<1> USE DEF timing
<1>1. CASE UNCHANGED timeout
  BY <1>1
<1>2. Counts(Forever) /\ Counts(Zero)
  BY TimeAssumption DEF Counts, Forever, Zero
<1>3. ASSUME NEW delay \in Delays, NEW func \in Funcs, NEW a \in Addrs,
             RegisterTimeout(delay, func, a)
      PROVE  Counts(timeout')
  BY <1>3, DelayBounded DEF RegisterTimeout, Earliest
<1>4. CASE TimerKeep
  BY <1>4, ActiveTimerIsDue, DelayBounded DEF TimerKeep, Earliest
<1>5. CASE TimerWait
  <2>1. /\ Top.i \in DOMAIN timers
        /\ ~Expired(Top.now, heap[timers[Top.i]].timeout)
        /\ timeout' = IF Before(Remaining, timeout) THEN Borrow(Remaining) ELSE timeout
    BY <1>5 DEF TimerWait
  <2>2. heap[timers[Top.i]].timeout \in DueTimes
    BY <2>1, TimerIsDue
  <2>3. Top.now \in ClockTimes
    BY <1>5 DEF TimerWait, LibraryAt, DueInv, FrameDue
  <2>4. Counts(Borrow(Remaining))
    BY <2>1, <2>2, <2>3, RemainingFacts DEF Remaining
  <2> QED
    BY <2>1, <2>4
<1>6. CASE RescanTake
  <2>1. /\ scan \in DOMAIN timers /\ ScanDue.sec >= clock.sec
        /\ timeout' = BorrowAtZero(Minus(ScanDue, clock))
    BY <1>6 DEF RescanTake
  <2>2. ScanDue \in DueTimes
    BY <2>1, TimerIsDue DEF ScanDue
  <2>3. clock \in ClockTimes
    BY DEF TimerInv, TypeOK
  <2>4. clock.sec <= ScanDue.sec
    BY <2>1, <2>2, <2>3, TimeAssumption DEF ClockTimes, DueTimes, Timevals
  <2> QED
    BY <2>1, <2>2, <2>3, <2>4, RemainingFacts
<1>7. CASE RescanOverdue
  BY <1>2, <1>7 DEF RescanOverdue
<1>8. ASSUME NEW func, UnregisterTimeout(func) PROVE Counts(timeout')
  BY <1>2, <1>8 DEF UnregisterTimeout
<1>9. CASE EventDelete
  BY <1>2, <1>9 DEF EventDelete
<1>10. ASSUME NEW ready \in [Dirs -> SUBSET Fds], NEW t \in ClockTimes, Select(ready, t)
       PROVE  Counts(timeout')
  BY <1>2, <1>10 DEF Select
<1>11. CASE Calls
  BY <1>1, <1>3, <1>8, <1>9, <1>11
  DEF Calls, EventLoop, EventLoopQuit, SetFlag, RegisterIO, RegisterIOFails,
      UnregisterIO, PassTime
<1>12. CASE Returns
  BY <1>1, <1>4, <1>12 DEF Returns, TimerDrop, IOKeep, IODrop
<1>13. CASE Library
  BY <1>1, <1>5, <1>6, <1>7, <1>10, <1>13
  DEF Library, Rescan, RescanSkip, RescanDone, LoopReturn, LoopSpin, vars,
      SelectFails, TimerFire, TimersDone, IOCall, IODone
<1> QED
  BY <1>1, <1>11, <1>12, <1>13 DEF Next, vars

(* The differences that _loop_timeout and event_unregister_timeout compute *)
(* never go below zero, however late the loop is.                          *)
THEOREM SelectTimeoutValidAlways == Spec => []SelectTimeoutValid
<1>1. Init => DueInv /\ Counts(timeout)
  BY DueInvInit, TimeAssumption DEF Init, Counts, Forever
<1>2. TimerInv /\ DueInv /\ Counts(timeout) /\ [Next]_vars => DueInv' /\ Counts(timeout)'
  BY DueInvNext, CountsNext
<1>3. TimerInv /\ Counts(timeout) => SelectTimeoutValid
  BY DEF TimerInv, TypeOK, Timevals, Counts, SelectTimeoutValid
<1> QED
  BY <1>1, <1>2, <1>3, TimerInvariant, PTL DEF Spec

----------------------------------------------------------------------------
(* The loop never forgets to wake up.  Inside a pass event->timeout covers *)
(* the entries before i, and during the recomputation those before scan;   *)
(* the recomputation is called from a callback or from no loop at all.     *)

InPass == stack # <<>> /\ Top.pc = "timers"

WakeInv ==
    /\ scan > 0 /\ stack # <<>> => Top.cb
    /\ scan > 1 => timeout # Forever
    /\ scan = 0 /\ InPass /\ Top.i > 1 => timeout # Forever
    /\ scan = 0 /\ timers # <<>> /\ ~InPass => timeout # Forever

LEMMA DueBounded ==
    ASSUME NEW due \in DueTimes
    PROVE  Bounded(due)
  BY TimeAssumption DEF DueTimes, Timevals, Bounded

(* The calls of the application.                                           *)
LEMMA WakeInvCalls ==
    ASSUME TimerInv, DueInv, WakeInv, Calls
    PROVE  WakeInv'
<1> USE DEF timing
<1>1. CASE UNCHANGED <<timers, timeout, scan, stack>>
  BY <1>1 DEF WakeInv, InPass, Top
<1>2. ASSUME NEW delay \in Delays, NEW func \in Funcs, NEW a \in Addrs,
             RegisterTimeout(delay, func, a)
      PROVE  WakeInv'
  <2>1. timeout' # Forever
    BY <1>2, DelayBounded, EarliestIsFinite DEF RegisterTimeout
  <2>2. scan' = 0
    BY <1>2 DEF RegisterTimeout, MayRegister, AppInControl
  <2> QED
    BY <2>1, <2>2 DEF WakeInv
<1>3. ASSUME NEW func, UnregisterTimeout(func) PROVE WakeInv'
  <2>1. scan' = 1 /\ (stack # <<>> => Top.cb) /\ UNCHANGED stack
    BY <1>3 DEF UnregisterTimeout, MayUnregisterTimeout, AppInControl
  <2> QED
    BY <2>1 DEF WakeInv, Top
<1>4. CASE EventDelete
  BY <1>4 DEF EventDelete, WakeInv, InPass
<1>5. ASSUME NEW flagged \in BOOLEAN, EventLoop(flagged) PROVE WakeInv'
  <2>1. Top' = NewFrame(flagged) /\ stack' # <<>>
    BY <1>5, PushFacts, NewFrameType DEF EventLoop, TimerInv, TypeOK
  <2>2. ~InPass'
    BY <2>1 DEF InPass, NewFrame
  <2>3. ~InPass
    BY <1>5, TopFacts DEF InPass, EventLoop, MayLoop, Top, TimerInv, TypeOK
  <2>4. scan' = 0 /\ scan = 0 /\ UNCHANGED <<timers, timeout>>
    BY <1>5 DEF EventLoop, MayLoop, AppInControl
  <2> QED
    BY <2>2, <2>3, <2>4 DEF WakeInv
<1> QED
  BY <1>1, <1>2, <1>3, <1>4, <1>5
  DEF Calls, EventLoopQuit, SetFlag, RegisterIO, RegisterIOFails, UnregisterIO, PassTime

(* The recomputation of event_unregister_timeout.                          *)
LEMMA WakeInvRescan ==
    ASSUME TimerInv, DueInv, WakeInv, Rescan
    PROVE  WakeInv'
<1> USE DEF timing
<1>1. UNCHANGED <<timers, stack>>
  BY DEF Rescan, RescanSkip, RescanOverdue, RescanTake, RescanDone
<1>2. scan \in Nat /\ timers \in Seq(Addrs) /\ Len(timers) \in Nat
      /\ DOMAIN timers = 1..Len(timers)
  BY LenProperties DEF TimerInv, TypeOK
<1>3. scan > 0
  BY <1>2 DEF Rescan, RescanSkip, RescanOverdue, RescanTake, RescanDone
<1>4. stack' # <<>> => Top'.cb
  BY <1>1, <1>3 DEF WakeInv, Top
<1>5. CASE RescanSkip
  <2>1. ScanDue \in DueTimes /\ ~Before(ScanDue, timeout) /\ UNCHANGED timeout
    BY <1>5, TimerIsDue DEF RescanSkip, ScanDue
  <2>2. timeout' # Forever
    BY <2>1, DueBounded, BoundedIsFinite
  <2> QED
    BY <1>4, <2>2 DEF WakeInv
<1>6. CASE RescanOverdue
  <2>1. timeout' # Forever
    BY <1>6, TimeAssumption DEF RescanOverdue, Zero, Forever
  <2> QED
    BY <1>4, <2>1 DEF WakeInv
<1>7. CASE RescanTake
  <2>1. ScanDue \in DueTimes /\ clock \in ClockTimes
    BY <1>7, TimerIsDue DEF RescanTake, ScanDue, TimerInv, TypeOK
  <2>2. timeout' # Forever
    BY <1>7, <2>1, RemainingFacts, BoundedIsFinite DEF RescanTake
  <2> QED
    BY <1>4, <2>2 DEF WakeInv
<1>8. CASE RescanDone
  <2>1. scan > Len(timers) /\ scan' = 0 /\ UNCHANGED timeout
    BY <1>8 DEF RescanDone
  <2>2. timers # <<>> => timeout # Forever
    BY <1>2, <2>1, EmptySeq DEF WakeInv
  <2>3. InPass => timers # <<>>
    <3>1. InPass => Top.i \in DOMAIN timers
      BY <1>3 DEF InPass, WakeInv, TimerInv, ActiveTimerStable
    <3> QED
      BY <3>1
  <2>4. InPass' = InPass
    BY <1>1 DEF InPass, Top
  <2> QED
    BY <1>1, <2>1, <2>2, <2>3, <2>4 DEF WakeInv
<1> QED
  BY <1>5, <1>6, <1>7, <1>8 DEF Rescan

(* _loop_timeout.                                                          *)
LEMMA WakeInvTimers ==
    ASSUME TimerInv, DueInv, WakeInv,
           TimerFire \/ TimerWait \/ TimersDone \/ TimerKeep \/ TimerDrop
    PROVE  WakeInv'
<1> USE DEF timing
<1>1. stack \in Seq(Frames) /\ stack # <<>> /\ Top \in Frames
      /\ Top.pc = "timers" /\ Top.now \in ClockTimes /\ scan = 0 /\ scan' = 0
  BY TopFacts DEF TimerFire, TimerWait, TimersDone, TimerKeep, TimerDrop,
     LibraryAt, InCallback, TimerInv, TypeOK, DueInv, FrameDue
<1>2. \A f : SetTop(f) => Top' = f /\ stack' # <<>>
  BY <1>1, SetTopFacts
<1>3. CASE TimerFire
  <2>1. Top' = [Top EXCEPT !.cb = TRUE, !.et = timers[Top.i]] /\ stack' # <<>>
    BY <1>2, <1>3 DEF TimerFire
  <2>2. Top'.i = Top.i /\ Top'.pc = "timers"
    BY <1>1, <2>1 DEF Frames
  <2> QED
    BY <1>1, <1>3, <2>1, <2>2 DEF TimerFire, WakeInv, InPass
<1>4. CASE TimerWait
  <2>1. /\ Top.i \in DOMAIN timers
        /\ timeout' = IF Before(Remaining, timeout) THEN Borrow(Remaining) ELSE timeout
    BY <1>4 DEF TimerWait
  <2>2. Bounded(Remaining) /\ Bounded(Borrow(Remaining))
    BY <1>1, <2>1, TimerIsDue, RemainingFacts DEF Remaining
  <2>3. timeout' # Forever
    BY <2>1, <2>2, BoundedIsFinite
  <2> QED
    BY <1>1, <2>3 DEF WakeInv
<1>5. CASE TimersDone
  <2>1. Top' = [Top EXCEPT !.pc = "read", !.i = 1]
    BY <1>2, <1>5 DEF TimersDone
  <2>2. Top'.pc = "read"
    BY <1>1, <2>1 DEF Frames
  <2>3. timers # <<>> => Top.i > 1
    <3>1. Len(timers) \in Nat /\ (timers # <<>> => Len(timers) >= 1)
      BY EmptySeq, LenProperties DEF TimerInv, TypeOK
    <3>2. Top.i \in Nat /\ Top.i > Len(timers)
      BY <1>1, <1>5 DEF Frames, TimersDone
    <3> QED
      BY <3>1, <3>2
  <2>4. timers # <<>> => timeout # Forever
    BY <1>1, <2>3 DEF WakeInv, InPass
  <2> QED
    BY <1>1, <1>5, <2>2, <2>4 DEF TimersDone, WakeInv, InPass
<1>6. CASE TimerKeep
  <2>1. InCallback("timers") /\ timeout' = Earliest(heap[Top.et].initial, timeout)
    BY <1>6 DEF TimerKeep
  <2>2. Bounded(heap[Top.et].initial)
    BY <2>1, ActiveTimerIsDue, DelayBounded
  <2>3. timeout' # Forever
    BY <2>1, <2>2, EarliestIsFinite
  <2> QED
    BY <1>1, <2>3 DEF WakeInv
<1>7. CASE TimerDrop
  <2>1. Top' = [Top EXCEPT !.cb = FALSE, !.et = NULL] /\ stack' # <<>>
    BY <1>2, <1>7 DEF TimerDrop
  <2>2. Top'.i = Top.i /\ Top'.pc = "timers"
    BY <1>1, <2>1 DEF Frames
  <2> QED
    BY <1>1, <1>7, <2>1, <2>2 DEF TimerDrop, WakeInv, InPass
<1> QED
  BY <1>3, <1>4, <1>5, <1>6, <1>7

(* The condition of the loop, select() and _loop_io.                       *)
LEMMA WakeInvElsewhere ==
    ASSUME TimerInv, WakeInv,
           \/ LoopReturn \/ LoopSpin \/ SelectFails
           \/ \E ready \in [Dirs -> SUBSET Fds], t \in ClockTimes : Select(ready, t)
           \/ \E d \in Dirs : IOCall(d) \/ IODone(d) \/ IOKeep(d) \/ IODrop(d)
    PROVE  WakeInv'
<1> USE DEF timing
<1>1. CASE LoopReturn \/ SelectFails
  <2>1. stack # <<>> /\ Pop /\ scan = 0 /\ ~InPass /\ UNCHANGED <<scan, timing>>
    BY <1>1 DEF LoopReturn, SelectFails, AtSelect, LibraryAt, InPass
  <2>2. ~InPass'
    BY <2>1, UncoveredFrame DEF InPass
  <2> QED
    BY <2>1, <2>2 DEF WakeInv
<1>2. CASE LoopSpin
  BY <1>2 DEF LoopSpin, vars, WakeInv, InPass, Top
<1>3. ASSUME NEW ready \in [Dirs -> SUBSET Fds], NEW t \in ClockTimes, Select(ready, t)
      PROVE  WakeInv'
  <2> DEFINE f == [Top EXCEPT !.pc = "timers", !.i = 1, !.now = t, !.ready = ready]
  <2>1. stack \in Seq(Frames) /\ stack # <<>> /\ Top \in Frames /\ SetTop(f)
        /\ scan = 0 /\ scan' = 0
    BY <1>3, TopFacts DEF Select, AtSelect, LibraryAt, TimerInv, TypeOK
  <2>2. f.pc = "timers" /\ f.i = 1
    BY <2>1 DEF Frames
  <2> HIDE DEF f
  <2>3. Top' = f /\ stack' # <<>>
    BY <2>1, SetTopFacts
  <2> QED
    BY <2>1, <2>2, <2>3 DEF WakeInv, InPass
<1>4. ASSUME NEW d \in Dirs, IOCall(d) \/ IODone(d) \/ IOKeep(d) \/ IODrop(d)
      PROVE  WakeInv'
  <2>1. scan = 0 /\ UNCHANGED <<scan, timing>>
    BY <1>4 DEF IOCall, IODone, IOKeep, IODrop, LibraryAt, InCallback
  <2>2. ~InPass /\ ~InPass'
    BY <1>4, IOFrame DEF InPass
  <2> QED
    BY <2>1, <2>2 DEF WakeInv
<1> QED
  BY <1>1, <1>2, <1>3, <1>4

LEMMA WakeInvNext ==
    ASSUME TimerInv, DueInv, WakeInv, [Next]_vars
    PROVE  WakeInv'
<1>1. CASE UNCHANGED vars
  BY <1>1 DEF vars, timing, WakeInv, InPass, Top
<1>2. CASE Next
  BY <1>2, WakeInvCalls, WakeInvRescan, WakeInvTimers, WakeInvElsewhere
  DEF Next, Returns, Library
<1> QED
  BY <1>1, <1>2

(* The loop never sleeps for ever while a timeout is registered: whatever  *)
(* callbacks register, cancel and return, a pass over the timeouts ends    *)
(* with event->timeout covering each of them.                              *)
THEOREM WakeScheduledAlways == Spec => []WakeScheduled
<1>1. Init => DueInv /\ WakeInv
  BY DueInvInit DEF Init, WakeInv, InPass
<1>2. TimerInv /\ DueInv /\ WakeInv /\ [Next]_vars => DueInv' /\ WakeInv'
  BY DueInvNext, WakeInvNext
<1>3. TimerInv /\ WakeInv => WakeScheduled
  <2> SUFFICES ASSUME TimerInv, WakeInv, timers # <<>>, scan = 0,
                      \A k \in DOMAIN stack : stack[k].pc # "timers"
               PROVE  timeout # Forever
    BY DEF WakeScheduled
  <2>1. ~InPass
    BY TopFacts DEF InPass, Top, TimerInv, TypeOK
  <2> QED
    BY <2>1 DEF WakeInv
<1> QED
  BY <1>1, <1>2, <1>3, TimerInvariant, PTL DEF Spec

----------------------------------------------------------------------------
(* No timeout is left waiting, for an application in which time passes in  *)
(* select() only and nothing is unregistered.  Outside a pass              *)
(* event->timeout is no more than a second above what is left to any       *)
(* entry; in a pass this is so of the entries before i, and "now" is the   *)
(* time of day.                                                            *)

DueAt(k) == heap[timers[k]].timeout
LeftTo(due, now) == Ticks(due) - Ticks(now)
InTime(due, now) == Ticks(now) < Ticks(due) + Usec + Latency

Covers(t, due, now) ==
    /\ t # Forever
    /\ Usec * t.sec <= LeftTo(due, now)
    /\ Ticks(t) < LeftTo(due, now) + Usec

(* The microseconds of event->timeout are those of a delay, or what a sum  *)
(* of two of them leaves when those of the time of day are taken away.     *)
Modest(t, now) ==
    /\ t \in Timevals
    /\ Counts(t)
    /\ t = Forever \/ t.usec < Usec \/ t.usec + now.usec <= 2 * Usec - 2

LateInv ==
    /\ scan = 0
    /\ InPass => Top.now = clock
    /\ Modest(timeout, clock)
    /\ \A k \in DOMAIN timers : InTime(DueAt(k), clock)
    /\ \A k \in DOMAIN timers :
           (InPass => k < Top.i) => Covers(timeout, DueAt(k), clock)

LEMMA Seconds ==
    ASSUME NEW a \in Int, NEW b \in Int
    PROVE  /\ Usec * a \in Int
           /\ a < b => Usec * a + Usec <= Usec * b
<1>1. Usec \in Nat
  BY TimeAssumption
<1>2. Usec * a \in Int /\ Usec * b \in Int
  BY <1>1
<1>3. ASSUME a < b PROVE Usec * a + Usec <= Usec * b
  <2>1. PICK n \in Nat : b = a + 1 + n
    <3>1. b - a - 1 \in Nat /\ b = a + 1 + (b - a - 1)
      BY <1>3
    <3> QED
      BY <3>1
  <2>2. Usec * (a + 1 + n) = Usec * a + Usec + Usec * n
    BY <1>1
  <2>3. Usec * n \in Nat
    BY <1>1
  <2> QED
    BY <1>1, <1>2, <2>1, <2>2, <2>3
<1> QED
  BY <1>2, <1>3

(* What covers an entry is in time for it, be it overslept.                *)
LEMMA TicksType ==
    ASSUME NEW t, t.sec \in Int, t.usec \in Int
    PROVE  Ticks(t) \in Int /\ Ticks(t) = Usec * t.sec + t.usec
<1>1. Usec * t.sec \in Int
  BY Seconds
<1> QED
  BY <1>1 DEF Ticks

LEMMA LeftToType ==
    ASSUME NEW now \in ClockTimes, NEW due \in DueTimes
    PROVE  LeftTo(due, now) \in Int /\ Ticks(due) \in Int /\ Ticks(now) \in Int
<1>1. now.sec \in Int /\ now.usec \in Int /\ due.sec \in Int /\ due.usec \in Int
  BY TimeAssumption DEF ClockTimes, DueTimes, Timevals
<1>2. Ticks(due) \in Int /\ Ticks(now) \in Int
  BY <1>1, TicksType
<1> QED
  BY <1>2 DEF LeftTo

LEMMA CoversInTime ==
    ASSUME NEW now \in ClockTimes, NEW due \in DueTimes, NEW t, Modest(t, now), Covers(t, due, now)
    PROVE  InTime(due, now)
<1>1. t.sec \in Nat /\ t.usec \in Nat /\ Usec \in Nat \ {0} /\ Latency \in Nat
  BY TimeAssumption DEF Modest, Timevals, Counts
<1>2. Usec * t.sec \in Nat /\ Ticks(t) = Usec * t.sec + t.usec
  BY <1>1 DEF Ticks
<1>3. Ticks(due) \in Int /\ Ticks(now) \in Int
  BY LeftToType
<1> QED
  BY <1>1, <1>2, <1>3 DEF Covers, InTime, LeftTo

(* A timeout that is no later, as the code compares, covers as much.       *)
LEMMA EarlierCovers ==
    ASSUME NEW now \in ClockTimes, NEW due \in DueTimes,
           NEW t, Modest(t, now), Covers(t, due, now),
           NEW r, Modest(r, now), r # Forever,
           r.sec < t.sec \/ (r.sec = t.sec /\ r.usec <= t.usec)
    PROVE  Covers(r, due, now)
<1>1. /\ r.sec \in Nat /\ r.usec \in Nat /\ t.sec \in Nat /\ t.usec \in Nat
      /\ Usec \in Nat \ {0} /\ now.usec \in Nat
  BY TimeAssumption DEF Modest, Timevals, Counts, ClockTimes
<1>2. r.usec <= 2 * Usec - 2
  BY <1>1 DEF Modest
<1>3. /\ Ticks(r) = Usec * r.sec + r.usec /\ Ticks(t) = Usec * t.sec + t.usec
      /\ Usec * r.sec \in Int /\ Usec * t.sec \in Int
      /\ r.sec < t.sec => Usec * r.sec + Usec <= Usec * t.sec
  BY <1>1, Seconds DEF Ticks
<1>4. LeftTo(due, now) \in Int
  BY LeftToType
<1>5. CASE r.sec < t.sec
  BY <1>1, <1>2, <1>3, <1>4, <1>5 DEF Covers
<1>6. CASE r.sec = t.sec /\ r.usec <= t.usec
  BY <1>1, <1>3, <1>4, <1>6 DEF Covers
<1> QED
  BY <1>5, <1>6

(* A delay that starts now.                                                *)
LEMMA DelayCovers ==
    ASSUME NEW now \in ClockTimes, NEW delay \in Delays, NEW t, Modest(t, now)
    PROVE  /\ Modest(Earliest(delay, t), now)
           /\ Covers(Earliest(delay, t), Plus(delay, now), now)
           /\ Covers(Earliest(delay, t), Plus(now, delay), now)
           /\ InTime(Plus(delay, now), now) /\ InTime(Plus(now, delay), now)
           /\ \A due \in DueTimes : Covers(t, due, now) => Covers(Earliest(delay, t), due, now)
<1> DEFINE r == Earliest(delay, t)
<1>1. /\ delay.sec \in Nat /\ delay.usec \in 0..(Usec - 1)
      /\ delay \in Timevals /\ Usec \in Nat \ {0}
      /\ now.sec \in Nat /\ now.usec \in Nat
  BY TimeAssumption, DelaysType DEF ClockTimes
<1>2. Bounded(delay) /\ Counts(delay) /\ delay # Forever /\ Before(delay, Forever)
  BY DelayBounded, BoundedIsFinite
<1>3. Modest(delay, now)
  BY <1>1, <1>2 DEF Modest
<1>4. r # Forever /\ Modest(r, now)
  BY <1>2, <1>3 DEF Earliest
<1>5. t.sec \in Nat /\ t.usec \in Nat
  BY DEF Modest, Timevals, Counts
<1>6. r.sec < delay.sec \/ (r.sec = delay.sec /\ r.usec <= delay.usec)
  BY <1>1, <1>5 DEF Earliest, Before
<1>7. r.sec < t.sec \/ (r.sec = t.sec /\ r.usec <= t.usec)
  BY <1>1, <1>5 DEF Earliest, Before
<1> HIDE DEF r
<1>8. ASSUME NEW due \in DueTimes, due.sec = now.sec + delay.sec,
             due.usec = now.usec + delay.usec
      PROVE  Covers(r, due, now) /\ InTime(due, now)
  <2>1. /\ Usec * (now.sec + delay.sec) = Usec * now.sec + Usec * delay.sec
        /\ Usec * now.sec \in Int /\ Usec * delay.sec \in Int
    BY <1>1
  <2>2. LeftTo(due, now) = Usec * delay.sec + delay.usec
    BY <1>1, <1>8, <2>1 DEF LeftTo, Ticks
  <2>3. Covers(delay, due, now)
    BY <1>1, <1>2, <2>1, <2>2 DEF Covers, Ticks
  <2> QED
    BY <1>3, <1>4, <1>6, <2>3, EarlierCovers, CoversInTime
<1>9. /\ Plus(delay, now) \in DueTimes /\ Plus(now, delay) \in DueTimes
      /\ Plus(delay, now).sec = now.sec + delay.sec
      /\ Plus(delay, now).usec = now.usec + delay.usec
      /\ Plus(now, delay).sec = now.sec + delay.sec
      /\ Plus(now, delay).usec = now.usec + delay.usec
  BY <1>1, PlusIsDue DEF Plus
<1>10. \A due \in DueTimes : Covers(t, due, now) => Covers(r, due, now)
  BY <1>4, <1>7, EarlierCovers
<1> QED
  BY <1>4, <1>8, <1>9, <1>10 DEF r

(* What _loop_timeout makes of an entry that is not due yet.  The borrow   *)
(* may add up to a second to what is left, and a second is what keeping    *)
(* the timeout of another entry may add.                                   *)
LEMMA RemainingCovers ==
    ASSUME NEW now \in ClockTimes, NEW due \in DueTimes, ~Expired(now, due),
           NEW t, Modest(t, now), NEW u,
           u = IF Before(Minus(due, now), t) THEN Borrow(Minus(due, now)) ELSE t
    PROVE  /\ Modest(u, now)
           /\ Covers(u, due, now)
           /\ \A other \in DueTimes : Covers(t, other, now) => Covers(u, other, now)
<1> DEFINE r == Minus(due, now)
<1>1. /\ due.sec \in Nat /\ due.usec \in 0..(2 * Usec - 2)
      /\ now.sec \in Nat /\ now.usec \in 0..(Usec - 1)
      /\ t.sec \in Nat /\ t.usec \in Nat
      /\ Usec \in Nat \ {0}
  BY TimeAssumption DEF DueTimes, ClockTimes, Modest, Timevals, Counts
<1>2. r.sec = due.sec - now.sec /\ r.usec = due.usec - now.usec
      /\ r \in Timevals
  BY <1>1 DEF Minus, Timevals
<1>3. Bounded(r) /\ Bounded(Borrow(r)) /\ Counts(Borrow(r))
  BY RemainingFacts
<1> HIDE DEF r
<1>4. r.sec \in Int /\ r.usec \in Int
  BY <1>1, <1>2
<1>5. Usec * r.sec = Usec * due.sec - Usec * now.sec
      /\ Usec * due.sec \in Int /\ Usec * now.sec \in Int /\ Usec * r.sec \in Int
  BY <1>1, <1>2
<1>6. LeftTo(due, now) = Usec * r.sec + r.usec
  <2> DEFINE a == Usec * due.sec
             b == Usec * now.sec
             c == Usec * r.sec
  <2>1. LeftTo(due, now) = (a + due.usec) - (b + now.usec)
    BY DEF LeftTo, Ticks
  <2>2. a \in Int /\ b \in Int /\ c = a - b
    BY <1>5
  <2> HIDE DEF a, b, c
  <2>3. LeftTo(due, now) = c + r.usec
    BY <1>1, <1>2, <2>1, <2>2
  <2> QED
    BY <2>3 DEF c
<1>7. CASE Before(r, t)
  <2>1. u = Borrow(r) /\ u # Forever
    BY <1>3, <1>7, BoundedIsFinite DEF r
  <2>2. CASE r.usec >= 0
    <3>1. u = r
      BY <2>1, <2>2 DEF Borrow
    <3>2. Modest(u, now)
      BY <1>1, <1>2, <1>3, <2>1, <3>1 DEF Modest
    <3>3. Covers(u, due, now)
      BY <1>1, <1>4, <1>5, <1>6, <2>1, <2>2, <3>1 DEF Covers, Ticks
    <3>4. u.sec < t.sec \/ (u.sec = t.sec /\ u.usec <= t.usec)
      BY <1>1, <1>4, <1>7, <3>1 DEF Before
    <3> QED
      BY <2>1, <3>2, <3>3, <3>4, EarlierCovers
  <2>3. CASE r.usec < 0
    <3>1. u.sec = r.sec - 1 /\ u.usec = -r.usec /\ u \in Timevals
      BY <1>4, <2>1, <2>3 DEF Borrow, Timevals
    <3>2. u.usec < Usec
      BY <1>1, <1>2, <3>1
    <3>3. Modest(u, now)
      BY <1>3, <2>1, <3>1, <3>2 DEF Modest
    <3>4. Usec * (r.sec - 1) = Usec * r.sec - Usec
      BY <1>1, <1>4
    <3>5. Covers(u, due, now)
      BY <1>1, <1>4, <1>5, <1>6, <2>1, <2>3, <3>1, <3>2, <3>4 DEF Covers, Ticks
    <3>6. u.sec < t.sec
      BY <1>1, <1>4, <1>7, <3>1 DEF Before
    <3> QED
      BY <2>1, <3>3, <3>5, <3>6, EarlierCovers
  <2> QED
    BY <1>4, <2>2, <2>3
<1>8. CASE ~Before(r, t)
  <2>1. u = t /\ t # Forever
    BY <1>3, <1>8, BoundedIsFinite DEF r
  <2>2. t.sec < r.sec \/ (t.sec = r.sec /\ t.usec <= r.usec)
    BY <1>1, <1>4, <1>8 DEF Before
  <2>3. /\ Ticks(t) = Usec * t.sec + t.usec /\ Usec * t.sec \in Int
        /\ t.sec < r.sec => Usec * t.sec + Usec <= Usec * r.sec
    BY <1>1, <1>4, Seconds DEF Ticks
  <2>4. t.usec < Usec \/ t.usec + now.usec <= 2 * Usec - 2
    BY <2>1 DEF Modest
  <2>5. CASE t.sec < r.sec
    BY <1>1, <1>2, <1>4, <1>5, <1>6, <2>1, <2>3, <2>4, <2>5 DEF Covers
  <2>6. CASE t.sec = r.sec /\ t.usec <= r.usec
    BY <1>1, <1>4, <1>5, <1>6, <2>1, <2>3, <2>6 DEF Covers
  <2> QED
    BY <2>1, <2>2, <2>5, <2>6
<1> QED
  BY <1>7, <1>8

(* The steps that change neither the timeouts nor the time of day, and     *)
(* that leave no entry behind i uncovered.                                 *)
LEMMA LateInvStays ==
    ASSUME LateInv, UNCHANGED <<timers, heap, timeout, clock, scan>>,
           InPass' => Top'.now = clock,
           \A k \in DOMAIN timers : (InPass' => k < Top'.i) => (InPass => k < Top.i)
    PROVE  LateInv'
<1>1. ASSUME NEW k \in DOMAIN timers, InPass' => k < Top'.i
      PROVE  Covers(timeout', heap'[timers'[k]].timeout, clock')
  BY <1>1 DEF LateInv, DueAt
<1> QED
  BY <1>1 DEF LateInv, DueAt

(* A timeout that is registered, in a callback or outside of any.          *)
LEMMA LateInvRegister ==
    ASSUME TimerInv, DueInv, LateInv,
           NEW delay \in Delays, NEW func \in Funcs, NEW a \in Addrs,
           RegisterTimeout(delay, func, a)
    PROVE  LateInv'
<1> DEFINE et == [initial |-> delay, timeout |-> Plus(clock, delay), func |-> func]
<1>1. /\ timers' = Append(timers, a)
      /\ timeout' = Earliest(delay, timeout)
      /\ UNCHANGED <<clock, scan, stack>>
      /\ heap' = [heap EXCEPT ![a] = et] /\ heap[a] = NULL
      /\ AppInControl
  BY DEF RegisterTimeout, MayRegister
<1>2. PICK n \in Nat :
          n = Len(timers) /\ timers \in Seq(Addrs) /\ DOMAIN timers = 1..n /\ clock \in ClockTimes
  BY LenProperties DEF TimerInv, TypeOK
<1>3. /\ DOMAIN timers' = 1..(n + 1)
      /\ timers'[n + 1] = a
      /\ \A k \in 1..n : timers'[k] = timers[k]
  BY <1>1, <1>2, AppendProperties, LenProperties
<1>4. \A k \in 1..n : DueAt(k)' = DueAt(k) /\ DueAt(k) \in DueTimes
  <2> SUFFICES ASSUME NEW k \in 1..n PROVE DueAt(k)' = DueAt(k) /\ DueAt(k) \in DueTimes
    OBVIOUS
  <2>1. timers[k] \in Range(timers)
    BY <1>2 DEF Range
  <2>2. timers[k] \in Addrs /\ heap[timers[k]] # NULL
    BY <2>1 DEF TimerInv, TimersOwned
  <2>3. heap'[timers[k]] = heap[timers[k]]
    BY <1>1, <2>2 DEF TimerInv, TypeOK
  <2> QED
    BY <1>2, <1>3, <2>3, TimerIsDue DEF DueAt
<1>5. DueAt(n + 1)' = Plus(clock, delay)
  <2>1. heap'[a] = et
    BY <1>1 DEF TimerInv, TypeOK
  <2> QED
    BY <1>3, <2>1 DEF DueAt
<1>6. Modest(timeout, clock)
  BY DEF LateInv
<1>7. /\ Modest(timeout', clock)
      /\ Covers(timeout', Plus(clock, delay), clock) /\ InTime(Plus(clock, delay), clock)
      /\ \A due \in DueTimes : Covers(timeout, due, clock) => Covers(timeout', due, clock)
  BY <1>1, <1>2, <1>6, DelayCovers
<1>8. Modest(timeout', clock') /\ scan' = 0 /\ (InPass' => Top'.now = clock')
  BY <1>1, <1>7 DEF LateInv, InPass, Top
<1>9. InPass' = InPass /\ (InPass => Top'.i = Top.i)
  BY <1>1 DEF InPass, Top
<1>10. ASSUME NEW k \in 1..n
       PROVE  /\ InTime(DueAt(k)', clock')
              /\ (InPass' => k < Top'.i) => Covers(timeout', DueAt(k)', clock')
  <2>1. InTime(DueAt(k), clock)
        /\ ((InPass => k < Top.i) => Covers(timeout, DueAt(k), clock))
    BY <1>2 DEF LateInv
  <2> QED
    BY <1>1, <1>4, <1>7, <1>9, <2>1
<1>11. InTime(DueAt(n + 1)', clock') /\ Covers(timeout', DueAt(n + 1)', clock')
  BY <1>1, <1>5, <1>7
<1>12. \A k \in DOMAIN timers' : k \in 1..n \/ k = n + 1
  BY <1>2, <1>3
<1> QED
  BY <1>8, <1>10, <1>11, <1>12 DEF LateInv, DueAt

(* event_loop, the condition of the loop and _loop_io.                     *)
LEMMA LateInvElsewhere ==
    ASSUME TimerInv, LateInv,
           \/ \E flagged \in BOOLEAN : EventLoop(flagged)
           \/ LoopReturn \/ LoopSpin \/ SelectFails
           \/ \E d \in Dirs : IOCall(d) \/ IODone(d) \/ IOKeep(d) \/ IODrop(d)
    PROVE  LateInv'
<1> USE DEF timing
<1>1. ASSUME NEW flagged \in BOOLEAN, EventLoop(flagged) PROVE LateInv'
  <2>1. Top' = NewFrame(flagged) /\ stack' # <<>>
    BY <1>1, PushFacts, NewFrameType DEF EventLoop, TimerInv, TypeOK
  <2>2. ~InPass'
    BY <2>1 DEF InPass, NewFrame
  <2>3. ~InPass
    BY <1>1, TopFacts DEF InPass, EventLoop, MayLoop, Top, TimerInv, TypeOK
  <2>4. UNCHANGED <<timers, heap, timeout, clock, scan>>
    BY <1>1 DEF EventLoop
  <2> QED
    BY <2>2, <2>3, <2>4, LateInvStays
<1>2. CASE LoopReturn \/ SelectFails
  <2>1. stack # <<>> /\ Pop /\ ~InPass /\ UNCHANGED <<timers, heap, timeout, clock, scan>>
    BY <1>2 DEF LoopReturn, SelectFails, AtSelect, LibraryAt, InPass
  <2>2. ~InPass'
    BY <2>1, UncoveredFrame DEF InPass
  <2> QED
    BY <2>1, <2>2, LateInvStays
<1>3. CASE LoopSpin
  <2>1. UNCHANGED <<timers, heap, timeout, clock, scan, stack>>
    BY <1>3 DEF LoopSpin, vars
  <2>2. InPass' = InPass /\ Top' = Top
    BY <2>1 DEF InPass, Top
  <2>3. InPass' => Top'.now = clock
    BY <2>2 DEF LateInv
  <2> QED
    BY <2>1, <2>2, <2>3, LateInvStays
<1>4. ASSUME NEW d \in Dirs, IOCall(d) \/ IODone(d) \/ IOKeep(d) \/ IODrop(d)
      PROVE  LateInv'
  <2>1. UNCHANGED <<timers, heap, timeout, clock, scan>>
    BY <1>4 DEF IOCall, IODone, IOKeep, IODrop
  <2>2. ~InPass /\ ~InPass'
    BY <1>4, IOFrame DEF InPass
  <2> QED
    BY <2>1, <2>2, LateInvStays
<1> QED
  BY <1>1, <1>2, <1>3, <1>4

(* The calls of the application.                                           *)
LEMMA LateInvCalls ==
    ASSUME TimerInv, DueInv, LateInv, BusyApp = FALSE, Cancelled = {}, Calls
    PROVE  LateInv'
<1> USE DEF timing
<1>1. CASE UNCHANGED <<timers, heap, timeout, clock, scan, stack>>
  <2>1. InPass' = InPass /\ Top' = Top
    BY <1>1 DEF InPass, Top
  <2>2. InPass' => Top'.now = clock
    BY <2>1 DEF LateInv
  <2> QED
    BY <1>1, <2>1, <2>2, LateInvStays
<1>2. CASE EventDelete
  <2>1. stack' = <<>> /\ timers' = <<>> /\ timeout' = Forever /\ scan' = 0
    BY <1>2 DEF EventDelete
  <2>2. Modest(Forever, clock')
    BY TimeAssumption DEF Modest, Timevals, Forever, Counts
  <2>3. DOMAIN timers' = {} /\ ~InPass'
    BY <2>1 DEF InPass
  <2> QED
    BY <2>1, <2>2, <2>3 DEF LateInv
<1>3. ASSUME NEW delay \in Delays, NEW func \in Funcs, NEW a \in Addrs,
             RegisterTimeout(delay, func, a)
      PROVE  LateInv'
  BY <1>3, LateInvRegister
<1>4. ASSUME NEW flagged \in BOOLEAN, EventLoop(flagged) PROVE LateInv'
  BY <1>4, LateInvElsewhere
<1> QED
  BY <1>1, <1>2, <1>3, <1>4
  DEF Calls, EventLoopQuit, SetFlag, RegisterIO, RegisterIOFails, UnregisterIO, PassTime

(* select() returns: whatever is left to the entries, it was asked for no  *)
(* more than a second above that.                                          *)
LEMMA LateInvSelect ==
    ASSUME TimerInv, DueInv, LateInv,
           NEW ready \in [Dirs -> SUBSET Fds], NEW t \in ClockTimes, Select(ready, t)
    PROVE  LateInv'
<1> DEFINE f == [Top EXCEPT !.pc = "timers", !.i = 1, !.now = t, !.ready = ready]
<1>1. stack \in Seq(Frames) /\ stack # <<>> /\ Top \in Frames /\ SetTop(f)
      /\ ~InPass /\ clock \in ClockTimes
  BY TopFacts DEF Select, AtSelect, LibraryAt, InPass, TimerInv, TypeOK
<1>2. f.pc = "timers" /\ f.i = 1 /\ f.now = t
  BY <1>1 DEF Frames
<1> HIDE DEF f
<1>3. Top' = f /\ stack' # <<>> /\ InPass'
  BY <1>1, <1>2, SetTopFacts DEF InPass
<1>4. UNCHANGED <<timers, heap, scan>> /\ timeout' = Forever /\ clock' = t /\ ReturnsBy(t)
  BY DEF Select
<1>5. Modest(Forever, t)
  BY TimeAssumption DEF Modest, Timevals, Forever, Counts
<1>6. DOMAIN timers \subseteq Nat \ {0}
  BY LenProperties DEF TimerInv, TypeOK
<1>7. ASSUME NEW k \in DOMAIN timers PROVE InTime(DueAt(k), t)
  <2>1. Covers(timeout, DueAt(k), clock)
    BY <1>1 DEF LateInv
  <2>2. DueAt(k) \in DueTimes
    BY TimerIsDue DEF DueAt
  <2>3. Ticks(t) <= Ticks(clock) + Ticks(timeout) + Latency
    BY <1>4, <2>1 DEF ReturnsBy, Covers
  <2>4. Ticks(t) \in Int /\ Ticks(clock) \in Int /\ Ticks(DueAt(k)) \in Int
    BY <1>1, <2>2, LeftToType
  <2>5. Ticks(timeout) \in Int
    BY TicksType DEF LateInv, Modest, Timevals
  <2>6. Usec \in Nat /\ Latency \in Nat
    BY TimeAssumption
  <2> QED
    BY <2>1, <2>3, <2>4, <2>5, <2>6 DEF Covers, LeftTo, InTime
<1>8. ASSUME NEW k \in DOMAIN timers PROVE ~(k < Top'.i)
  BY <1>2, <1>3, <1>6
<1> QED
  BY <1>2, <1>3, <1>4, <1>5, <1>7, <1>8 DEF LateInv, DueAt

(* _loop_timeout.                                                          *)
LEMMA LateInvTimers ==
    ASSUME TimerInv, DueInv, LateInv,
           TimerFire \/ TimerWait \/ TimersDone \/ TimerKeep \/ TimerDrop
    PROVE  LateInv'
<1> USE DEF timing
<1>1. stack \in Seq(Frames) /\ stack # <<>> /\ Top \in Frames /\ InPass
      /\ Top.now = clock /\ Top.i \in Nat /\ scan = 0 /\ UNCHANGED <<clock, scan>>
  BY TopFacts DEF TimerFire, TimerWait, TimersDone, TimerKeep, TimerDrop,
     LibraryAt, InCallback, TimerInv, TypeOK, InPass, LateInv, Frames
<1>2. PICK i \in Nat : i = Top.i
  BY <1>1
<1>3. PICK n \in Nat : /\ n = Len(timers) /\ DOMAIN timers = 1..n
                       /\ timers \in Seq(Addrs) /\ clock \in ClockTimes
  BY LenProperties DEF TimerInv, TypeOK
<1>4. Modest(timeout, clock)
  BY DEF LateInv
<1>5. ASSUME NEW k \in 1..n
      PROVE  /\ DueAt(k) \in DueTimes
             /\ InTime(DueAt(k), clock)
             /\ k < i => Covers(timeout, DueAt(k), clock)
  BY <1>2, <1>3, <1>5, TimerIsDue DEF DueAt, LateInv
<1>6. \A f : SetTop(f) => Top' = f /\ stack' # <<>>
  BY <1>1, SetTopFacts
<1>7. CASE TimerFire
  <2>1. Top' = [Top EXCEPT !.cb = TRUE, !.et = timers[Top.i]]
        /\ UNCHANGED <<timers, heap, timeout, clock, scan>>
    BY <1>6, <1>7 DEF TimerFire
  <2>2. Top'.i = Top.i /\ Top'.now = clock
    BY <1>1, <2>1 DEF Frames
  <2>3. \A k \in DOMAIN timers : (InPass' => k < Top'.i) => (InPass => k < Top.i)
    <3>1. InPass'
      <4>1. Top'.pc = "timers"
        BY <1>1, <2>1 DEF Frames, InPass
      <4>2. stack' # <<>>
        BY <1>6, <1>7 DEF TimerFire
      <4> QED
        BY <4>1, <4>2 DEF InPass
    <3> QED
      BY <2>2, <3>1
  <2>4. UNCHANGED <<timers, heap, timeout, clock, scan>>
    BY <2>1
  <2> QED
    BY <2>2, <2>3, <2>4, LateInvStays
<1>8. CASE TimersDone
  <2>1. Top' = [Top EXCEPT !.pc = "read", !.i = 1] /\ Top.i > Len(timers)
        /\ UNCHANGED <<timers, heap, timeout, clock, scan>>
    BY <1>6, <1>8 DEF TimersDone
  <2>2. Top'.pc = "read"
    BY <1>1, <2>1 DEF Frames
  <2>3. ~InPass'
    BY <2>2 DEF InPass
  <2>4. \A k \in DOMAIN timers : k < Top.i
    BY <1>2, <1>3, <2>1
  <2> QED
    BY <2>1, <2>3, <2>4, LateInvStays
<1>9. CASE TimerWait
  <2>1. /\ i \in 1..n /\ ~Expired(clock, DueAt(i))
        /\ timeout' = IF Before(Minus(DueAt(i), clock), timeout)
                      THEN Borrow(Minus(DueAt(i), clock)) ELSE timeout
        /\ UNCHANGED <<timers, heap>>
    BY <1>1, <1>2, <1>3, <1>9 DEF TimerWait, Remaining, DueAt
  <2>2. Top' = [Top EXCEPT !.i = @ + 1] /\ stack' # <<>>
    BY <1>6, <1>9 DEF TimerWait
  <2>3. Top'.i = i + 1 /\ Top'.now = clock
    BY <1>1, <1>2, <2>2 DEF Frames
  <2>4. /\ Modest(timeout', clock)
        /\ Covers(timeout', DueAt(i), clock)
        /\ \A due \in DueTimes : Covers(timeout, due, clock) => Covers(timeout', due, clock)
    BY <1>3, <1>4, <1>5, <2>1, RemainingCovers
  <2>5. ASSUME NEW k \in 1..n, k < i + 1 PROVE Covers(timeout', DueAt(k), clock)
    <3>1. k < i \/ k = i
      BY <2>5
    <3> QED
      BY <1>5, <2>4, <3>1
  <2>6. InPass'
    <3>1. Top'.pc = "timers"
      BY <1>1, <2>2 DEF Frames, InPass
    <3> QED
      BY <2>2, <3>1 DEF InPass
  <2> QED
    BY <1>1, <1>3, <1>5, <2>1, <2>3, <2>4, <2>5, <2>6 DEF LateInv, DueAt
<1>10. CASE TimerKeep
  <2> DEFINE a == Top.et
             again == [heap[a] EXCEPT !.timeout = Plus(heap[a].initial, Top.now)]
  <2>1. /\ InCallback("timers") /\ heap' = [heap EXCEPT ![a] = again]
        /\ timeout' = Earliest(heap[a].initial, timeout)
        /\ UNCHANGED timers
    BY <1>10 DEF TimerKeep
  <2>2. i \in 1..n /\ timers[i] = a /\ a \in Addrs /\ heap[a] \in EventTimeouts
    BY <1>2, <1>3, <2>1, ActiveTimerAllocated
  <2>3. heap[a].initial \in Delays
    BY <2>1, ActiveTimerIsDue
  <2>4. again.timeout = Plus(heap[a].initial, clock)
    BY <1>1, <2>2 DEF EventTimeouts
  <2> HIDE DEF again
  <2>5. heap'[a] = again /\ \A b \in Addrs : b # a => heap'[b] = heap[b]
    BY <2>1, <2>2 DEF TimerInv, TypeOK
  <2>6. /\ Modest(timeout', clock)
        /\ Covers(timeout', again.timeout, clock)
        /\ InTime(again.timeout, clock)
        /\ \A due \in DueTimes : Covers(timeout, due, clock) => Covers(timeout', due, clock)
    BY <1>3, <1>4, <2>1, <2>3, <2>4, DelayCovers
  <2>7. Top' = [Top EXCEPT !.cb = FALSE, !.et = NULL, !.i = @ + 1] /\ stack' # <<>>
    BY <1>6, <1>10 DEF TimerKeep
  <2>8. Top'.i = i + 1 /\ Top'.now = clock /\ Top'.pc = "timers"
    BY <1>1, <1>2, <2>7 DEF Frames, InPass
  <2>9. ASSUME NEW k \in 1..n
        PROVE  /\ InTime(heap'[timers[k]].timeout, clock)
               /\ k < i + 1 => Covers(timeout', heap'[timers[k]].timeout, clock)
    <3>1. CASE k = i
      BY <2>2, <2>5, <2>6, <3>1
    <3>2. CASE k # i
      <4>1. timers[k] \in Addrs
        BY <1>3, ElementOfSeq
      <4>2. timers[k] # a
        BY <1>3, <2>2, <3>2 DEF TimerInv, TimersOwned, IsInjective
      <4>3. heap'[timers[k]].timeout = DueAt(k)
        BY <2>5, <4>1, <4>2 DEF DueAt
      <4>4. k < i + 1 => k < i
        BY <3>2
      <4> QED
        BY <1>5, <2>6, <4>3, <4>4
    <3> QED
      BY <3>1, <3>2
  <2> QED
    BY <1>1, <1>3, <2>1, <2>6, <2>7, <2>8, <2>9 DEF LateInv, InPass, DueAt
<1>11. CASE TimerDrop
  <2> DEFINE a == Top.et
  <2>1. /\ InCallback("timers") /\ heap' = [heap EXCEPT ![a] = NULL]
        /\ timers' = RemoveAt(timers, i)
        /\ UNCHANGED timeout
    BY <1>2, <1>11 DEF TimerDrop
  <2>2. i \in 1..n /\ timers[i] = a /\ a \in Addrs
    BY <1>2, <1>3, <2>1, ActiveTimerAllocated
  <2>3. \A b \in Addrs : b # a => heap'[b] = heap[b]
    BY <2>1 DEF TimerInv, TypeOK
  <2>4. /\ timers' \in Seq(Addrs) /\ Len(timers') = n - 1
        /\ \A k \in 1..(n - 1) : timers'[k] = IF k < i THEN timers[k] ELSE timers[k + 1]
    BY <1>3, <2>1, <2>2, RemoveAtProperties
  <2>5. DOMAIN timers' = 1..(n - 1)
    BY <2>4, LenProperties
  <2>6. Top' = [Top EXCEPT !.cb = FALSE, !.et = NULL] /\ stack' # <<>>
    BY <1>6, <1>11 DEF TimerDrop
  <2>7. Top'.i = i /\ Top'.now = clock /\ Top'.pc = "timers"
    BY <1>1, <1>2, <2>6 DEF Frames, InPass
  <2>8. ASSUME NEW k \in 1..n, k # i PROVE heap'[timers[k]].timeout = DueAt(k)
    <3>1. timers[k] \in Addrs
      BY <1>3, ElementOfSeq
    <3>2. timers[k] # a
      BY <1>3, <2>2, <2>8 DEF TimerInv, TimersOwned, IsInjective
    <3> QED
      BY <2>3, <3>1, <3>2 DEF DueAt
  <2>9. ASSUME NEW k \in 1..(n - 1)
        PROVE  /\ InTime(heap'[timers'[k]].timeout, clock)
               /\ k < i => Covers(timeout, heap'[timers'[k]].timeout, clock)
    <3>1. CASE k < i
      <4>1. k \in 1..n /\ k # i /\ timers'[k] = timers[k]
        BY <1>3, <2>4, <3>1
      <4> QED
        BY <1>5, <2>8, <3>1, <4>1
    <3>2. CASE ~(k < i)
      <4>1. k + 1 \in 1..n /\ k + 1 # i /\ timers'[k] = timers[k + 1]
        BY <1>3, <2>4, <3>2
      <4> QED
        BY <1>5, <2>8, <3>2, <4>1
    <3> QED
      BY <3>1, <3>2
  <2> QED
    BY <1>1, <1>4, <2>1, <2>5, <2>6, <2>7, <2>9 DEF LateInv, InPass, DueAt
<1> QED
  BY <1>7, <1>8, <1>9, <1>10, <1>11

LEMMA LateInvNext ==
    ASSUME TimerInv, DueInv, LateInv, BusyApp = FALSE, Cancelled = {}, [Next]_vars
    PROVE  LateInv'
<1>1. CASE UNCHANGED vars
  <2>1. UNCHANGED <<timers, heap, timeout, clock, scan, stack>>
    BY <1>1 DEF vars, timing
  <2>2. InPass' = InPass /\ Top' = Top
    BY <2>1 DEF InPass, Top
  <2>3. InPass' => Top'.now = clock
    BY <2>2 DEF LateInv
  <2> QED
    BY <2>1, <2>2, <2>3, LateInvStays
<1>2. ~Rescan
  <2>1. scan = 0 /\ DOMAIN timers \subseteq Nat \ {0} /\ Len(timers) \in Nat
    BY LenProperties DEF LateInv, TimerInv, TypeOK
  <2> QED
    BY <2>1 DEF Rescan, RescanSkip, RescanOverdue, RescanTake, RescanDone
<1>3. CASE Next
  BY <1>2, <1>3, LateInvCalls, LateInvSelect, LateInvTimers, LateInvElsewhere
  DEF Next, Returns, Library
<1> QED
  BY <1>1, <1>3

(* No timeout waits for a second after it was due, beside what select()    *)
(* oversleeps: the borrow of _loop_timeout, which drops the sign of the    *)
(* microseconds, makes the loop late and never by more, for every set of   *)
(* delays.  Time that passes in callbacks, and event_unregister_timeout,   *)
(* which computes event->timeout in a way of its own, are left out.        *)
THEOREM NotTooLateAlways ==
    BusyApp = FALSE /\ Cancelled = {} => (Spec => []NotTooLate)
<1> SUFFICES ASSUME BusyApp = FALSE, Cancelled = {} PROVE Spec => []NotTooLate
  OBVIOUS
<1>1. Init => DueInv /\ LateInv
  <2>1. Modest(Forever, [sec |-> Epoch, usec |-> 0])
    BY TimeAssumption DEF Modest, Timevals, Forever, Counts
  <2> QED
    BY <2>1, DueInvInit DEF Init, LateInv, InPass
<1>2. TimerInv /\ DueInv /\ LateInv /\ [Next]_vars => DueInv' /\ LateInv'
  BY DueInvNext, LateInvNext
<1>3. LateInv => NotTooLate
  BY DEF LateInv, NotTooLate, InTime, DueAt
<1> QED
  BY <1>1, <1>2, <1>3, TimerInvariant, PTL DEF Spec
=============================================================================
