------------------------------- MODULE Array -------------------------------
(***************************************************************************)
(* The arrays of src/src/array.c: count values of size bytes each in one   *)
(* block of memory, which realloc() resizes at every change.               *)
(*                                                                         *)
(* count and size are 32 bits wide, and so is their product wherever the   *)
(* code multiplies the two fields; a product with a position or a loop's   *)
(* offset is 64 bits wide.  This is the code of a 64-bit build, where      *)
(* neither check against UINT64_MAX and SIZE_MAX ever fails: both are      *)
(* about a sum that is below 2^33, or 2^64 in array_set.                   *)
(*                                                                         *)
(* Beside some definitions stands a variant with a slip in it, which no    *)
(* behaviour uses.                                                         *)
(***************************************************************************)
EXTENDS Integers, Sequences, FiniteSets, SequencesExt

CONSTANTS
    Word,      \* 2^32: what a uint32_t can count to
    Sizes,     \* the sizes of values
    Bytes,     \* the contents of a byte
    Zero,      \* 0, one of them
    Junk,      \* what a byte holds that was never written
    Data,      \* the values an application stores, by size
    Arrays,    \* the arrays
    MaxCount,  \* bound: how many values an array is given
    None       \* no walk

ASSUME WordAssumption == Word \in Nat \ {0} /\ Sizes \subseteq 1..(Word - 1)
ASSUME CountAssumption == MaxCount \in 0..(Word - 1)
(* All the values of an array take less than 2^32 bytes.                   *)
ASSUME SizeAssumption == \A n \in Sizes : MaxCount * n < Word
ASSUME DataAssumption ==
    /\ Zero \in Bytes /\ Junk \notin Bytes
    /\ \A n \in Sizes : Data[n] \subseteq [1..n -> Bytes]

VARIABLES
    array,  \* [count, size, value] of each array, value being its memory
    walk,   \* the array_filter or array_foreach under way, None when none is
    wild    \* whether memory was accessed that was not allocated

vars == <<array, walk, wild>>

(* The locals of a walk.  before, seen, kept and changed are history: the  *)
(* values at first, those called back, those of them that were kept, and   *)
(* whether a callback changed the array, after which the others are empty. *)
Memory == Seq(Bytes \cup {Junk})
Walks == [of : Arrays, filter : BOOLEAN, i : Nat, offset : Nat, inside : BOOLEAN,
          before : Seq(Memory), seen : Seq(Memory), kept : Seq(Memory),
          changed : BOOLEAN]

TypeOK ==
    /\ array \in [Arrays -> [count : 0..MaxCount, size : Sizes, value : Memory]]
    /\ walk \in Walks \cup {None}
    /\ wild \in BOOLEAN

(* uint32_t arithmetic *)
Times(x, y) == (x * y) % Word

(* realloc() that succeeds, memcpy() to and from memory. *)
Realloc(value, n) ==
    [k \in 1..n |-> IF k \in DOMAIN value THEN value[k] ELSE Junk]
Store(value, offset, bytes) ==
    [k \in DOMAIN value |->
        IF k - offset \in DOMAIN bytes THEN bytes[k - offset] ELSE value[k]]
Fetch(value, offset, n) ==
    [k \in 1..n |-> IF offset + k \in DOMAIN value THEN value[offset + k] ELSE Junk]
Outside(value, offset, n) == n > 0 /\ offset + n > Len(value)

(* array_get *)
ValueAt(r, pos) == Fetch(r.value, pos * r.size, r.size)
ValuesIn(r) == [k \in 1..r.count |-> ValueAt(r, k - 1)]
ValuesOf(a) == ValuesIn(array[a])

New(size) == [count |-> 0, size |-> size, value |-> <<>>]

Init ==
    /\ array \in [Arrays -> {New(size) : size \in Sizes}]
    /\ walk = None
    /\ wild = FALSE
----------------------------------------------------------------------------
(* The functions that change an array.  Each is run by the application,    *)
(* between two calls or in the callback of a walk.                         *)

Caller == walk # None => walk.inside

Touched(a) ==
    walk' = IF walk # None /\ walk.of = a
            THEN [walk EXCEPT !.changed = TRUE, !.before = <<>>, !.seen = <<>>, !.kept = <<>>]
            ELSE walk

Become(a, count, value, outside) ==
    /\ array' = [array EXCEPT ![a].count = count, ![a].value = value]
    /\ wild' = (wild \/ outside)

(* array_set; the values between the former end and pos become zeros.      *)
SetWithin(a, pos, value) ==
    /\ pos < array[a].count
    /\ Become(a, array[a].count, Store(array[a].value, pos * array[a].size, value),
              Outside(array[a].value, pos * array[a].size, array[a].size))

SetBeyondUncleared(a, pos, value) ==
    /\ pos >= array[a].count /\ pos < MaxCount
    /\ LET offset == pos * array[a].size
           q == Realloc(array[a].value, offset + array[a].size)
       IN  Become(a, pos + 1, Store(q, offset, value), FALSE)
SetBeyond(a, pos, value) ==
    /\ pos >= array[a].count /\ pos < MaxCount
    /\ LET offset == pos * array[a].size
           q == Realloc(array[a].value, offset + array[a].size)
           curpos == Times(array[a].count, array[a].size)
           cleared == Store(q, curpos, [k \in 1..(offset - curpos) |-> Zero])
       IN  Become(a, pos + 1, Store(cleared, offset, value), FALSE)

(* array_append                                                            *)
Append1(a, value) ==
    /\ array[a].count < MaxCount
    /\ LET offset == Times(array[a].size, array[a].count)
           p == Realloc(array[a].value, offset + array[a].size)
       IN  Become(a, array[a].count + 1, Store(p, offset, value), FALSE)

(* array_insert, and array_prepend, at 0                                   *)
InsertShort(a, pos, value) ==
    /\ pos <= array[a].count /\ array[a].count < MaxCount
    /\ LET offset == array[a].size * pos
           p == Realloc(array[a].value, Times(array[a].size, array[a].count))
           rest == Fetch(p, offset, array[a].size * (array[a].count - pos))
           moved == Store(p, offset + array[a].size, rest)
       IN  Become(a, array[a].count + 1, Store(moved, offset, value),
                  Outside(p, offset, Len(rest) + array[a].size))
Insert(a, pos, value) ==
    /\ pos <= array[a].count /\ array[a].count < MaxCount
    /\ LET offset == array[a].size * pos
           p == Realloc(array[a].value, Times(array[a].size, array[a].count + 1))
           rest == Fetch(p, offset, array[a].size * (array[a].count - pos))
           moved == Store(p, offset + array[a].size, rest)
       IN  Become(a, array[a].count + 1, Store(moved, offset, value),
                  Outside(p, offset, Len(rest) + array[a].size))

(* array_remove_pos: that realloc() fails is ignored.                      *)
RemovedAt(r, pos, shrinks) ==
    LET rest == Fetch(r.value, (pos + 1) * r.size, (r.count - 1 - pos) * r.size)
        p == Store(r.value, pos * r.size, rest)
    IN  [r EXCEPT !.count = @ - 1,
                  !.value = IF shrinks THEN Realloc(p, Times(r.size, r.count - 1)) ELSE p]

RemoveBy(a, pos, shrinks) ==
    /\ array' = [array EXCEPT ![a] = RemovedAt(@, pos, shrinks)]
    /\ wild' = (wild \/ Outside(array[a].value, pos * array[a].size,
                                (array[a].count - pos) * array[a].size))
RemovePos(a, pos) ==
    /\ pos < array[a].count
    /\ \E shrinks \in BOOLEAN : RemoveBy(a, pos, shrinks)

Change(a) ==
    /\ Caller
    /\ \/ \E value \in Data[array[a].size] :
              \/ \E pos \in 0..MaxCount :
                     \/ SetWithin(a, pos, value)
                     \/ SetBeyond(a, pos, value)
                     \/ Insert(a, pos, value)
              \/ Append1(a, value)
       \/ \E pos \in 0..MaxCount : RemovePos(a, pos)
    /\ Touched(a)
----------------------------------------------------------------------------
(* The functions that replace an array.  Contract: from a callback, the    *)
(* array that is walked is not deleted, and none with values of another    *)
(* size is copied onto it: array_foreach and array_filter would go on at   *)
(* an offset that was counted in the former size.                          *)

NotWalked(a) == Caller /\ (walk # None => walk.of # a)
KeepsSize(a, b) ==
    Caller /\ (walk # None /\ walk.of = a => array[a].size = array[b].size)

(* array_delete and array_new *)
Recreate(a, size) ==
    /\ NotWalked(a)
    /\ array' = [array EXCEPT ![a] = New(size)]
    /\ UNCHANGED <<walk, wild>>

(* array_copy; array_delete and array_new_copy, onto one that is not walked *)
Copy(a, b) ==
    /\ KeepsSize(a, b)
    /\ LET bytes == Times(array[b].count, array[b].size)
       IN  /\ array' = [array EXCEPT ![a] =
                  [array[b] EXCEPT !.value = Fetch(array[b].value, 0, bytes)]]
           /\ wild' = (wild \/ Outside(array[b].value, 0, bytes))
    /\ Touched(a)

(* array_delete and array_new_filter, with a callback that keeps some      *)
(* values and changes nothing.                                             *)
AppendTo(r, value) ==
    LET offset == Times(r.size, r.count)
    IN  [r EXCEPT !.count = @ + 1,
                  !.value = Store(Realloc(@, offset + r.size), offset, value)]

Filtered(r, kept) ==
    LET after[i \in 0..r.count] ==
            IF i = 0 THEN New(r.size)
            ELSE IF ValueAt(r, i - 1) \in kept THEN AppendTo(after[i - 1], ValueAt(r, i - 1))
            ELSE after[i - 1]
    IN  after[r.count]

NewFilter(a, b, kept) ==
    /\ NotWalked(a)
    /\ array' = [array EXCEPT ![a] = Filtered(array[b], kept)]
    /\ wild' = (wild \/ Outside(array[b].value, 0, array[b].count * array[b].size))
    /\ UNCHANGED walk
----------------------------------------------------------------------------
(* array_filter, array_foreach and their _swap variants: the count is read *)
(* again, and the address computed again, for every call of the callback.  *)

Begin(a, filter) ==
    /\ walk = None
    /\ walk' = [of |-> a, filter |-> filter, i |-> 0, offset |-> 0, inside |-> FALSE,
                before |-> ValuesOf(a), seen |-> <<>>, kept |-> <<>>, changed |-> FALSE]
    /\ UNCHANGED <<array, wild>>

Walking == walk # None /\ ~walk.inside
Current == array[walk.of]

Call ==
    /\ Walking /\ walk.i < Current.count
    /\ walk' = [walk EXCEPT !.inside = TRUE,
                            !.seen = IF walk.changed THEN <<>>
                                     ELSE Append(@, Fetch(Current.value, walk.offset, Current.size))]
    /\ wild' = (wild \/ Outside(Current.value, walk.offset, Current.size))
    /\ UNCHANGED array

Advance ==
    walk' = [walk EXCEPT !.inside = FALSE, !.i = @ + 1, !.offset = @ + Current.size,
                         !.kept = IF walk.changed THEN <<>> ELSE Append(@, Last(walk.seen))]

(* The callback of a foreach returns, or that of a filter returns true.    *)
Keep ==
    /\ walk # None /\ walk.inside
    /\ Advance
    /\ UNCHANGED <<array, wild>>

(* That of a filter returns false.                                         *)
DropSkipping ==
    /\ walk # None /\ walk.inside /\ walk.filter
    /\ IF walk.i < Current.count
       THEN \E shrinks \in BOOLEAN : RemoveBy(walk.of, walk.i, shrinks)
       ELSE UNCHANGED <<array, wild>>
    /\ walk' = [walk EXCEPT !.inside = FALSE, !.i = @ + 1, !.offset = @ + Current.size]
DropUnchecked ==
    /\ walk # None /\ walk.inside /\ walk.filter
    /\ \E shrinks \in BOOLEAN : RemoveBy(walk.of, walk.i, shrinks)
    /\ walk' = [walk EXCEPT !.inside = FALSE]
Drop ==
    /\ walk # None /\ walk.inside /\ walk.filter
    /\ IF walk.i < Current.count
       THEN \E shrinks \in BOOLEAN : RemoveBy(walk.of, walk.i, shrinks)
       ELSE UNCHANGED <<array, wild>>
    /\ walk' = [walk EXCEPT !.inside = FALSE]

End ==
    /\ Walking /\ walk.i >= Current.count
    /\ walk' = None
    /\ UNCHANGED <<array, wild>>

Next ==
    \/ \E a \in Arrays :
           \/ Change(a)
           \/ \E size \in Sizes : Recreate(a, size)
           \/ \E b \in Arrays \ {a} :
                  Copy(a, b) \/ \E kept \in SUBSET Data[array[b].size] : NewFilter(a, b, kept)
           \/ \E filter \in BOOLEAN : Begin(a, filter)
    \/ Call \/ Keep \/ Drop \/ End

Spec == Init /\ [][Next]_vars
----------------------------------------------------------------------------
(* "Check for overflows": no byte is accessed outside of the memory that   *)
(* realloc() gave, which has room for every value.                         *)
InBounds ==
    /\ ~wild
    /\ \A a \in Arrays : Len(array[a].value) >= array[a].count * array[a].size

(* A walk whose callbacks change nothing calls back every value once, in   *)
(* order; a filter has removed those refused so far and nothing else.      *)
WalkExact ==
    walk # None /\ ~walk.changed =>
        LET n == Len(walk.seen)
        IN  /\ walk.seen = SubSeq(walk.before, 1, n)
            /\ ~walk.inside /\ walk.i >= Current.count => walk.seen = walk.before
            /\ ~walk.filter => ValuesOf(walk.of) = walk.before
            /\ walk.filter /\ ~walk.inside =>
                   ValuesOf(walk.of) = walk.kept \o SubSeq(walk.before, n + 1, Len(walk.before))

(* The lists of values that the arrays stand for.                          *)
ListOf == [a \in Arrays |-> ValuesOf(a)]
SizeOf == [a \in Arrays |-> array[a].size]
Lists == INSTANCE ListSpec WITH Positions <- 0..MaxCount, list <- ListOf, size <- SizeOf

(* Through its functions an array is a list: a value stays as it is until  *)
(* it is set or removed, and what was never set is zeros.                  *)
IsLists == Lists!Spec
=============================================================================
