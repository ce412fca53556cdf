------------------------------ MODULE ListSpec ------------------------------
(* Lists of values, what array.h promises: those of a size-byte array are  *)
(* sequences of size bytes each.                                           *)
EXTENDS ArraySeq

CONSTANTS
    Arrays,
    Sizes,
    Positions, \* those at which values are set
    Data,  \* the values of each size
    Zero   \* the byte 0

VARIABLES
    list,  \* the values of each array
    size   \* and their size

vars == <<list, size>>

Zeros(n) == [k \in 1..n |-> Zero]
Become(a, values) == list' = [list EXCEPT ![a] = values] /\ UNCHANGED size

Init == list = [a \in Arrays |-> <<>>] /\ size \in [Arrays -> Sizes]

New(a) ==
    /\ list' = [list EXCEPT ![a] = <<>>]
    /\ \E n \in Sizes : size' = [size EXCEPT ![a] = n]

(* At a position past the end, with zeros before it. *)
Set(a, pos, value) ==
    LET gap == [k \in 1..(pos - Len(list[a])) |-> Zeros(size[a])]
    IN  Become(a, IF pos < Len(list[a]) THEN [list[a] EXCEPT ![pos + 1] = value]
                  ELSE list[a] \o gap \o <<value>>)

Insert(a, pos, value) ==
    /\ pos <= Len(list[a])
    /\ Become(a, InsertAt(list[a], pos + 1, value))

RemovePos(a, pos) ==
    /\ pos < Len(list[a])
    /\ Become(a, RemoveAt(list[a], pos + 1))

(* The values of s that are in kept, in order. *)
Kept(s, kept) == KeepAt(s, {k \in DOMAIN s : s[k] \in kept})

(* A copy of another array, or of those values that a filter keeps. *)
Copy(a, b) ==
    /\ \/ list' = [list EXCEPT ![a] = list[b]]
       \/ \E kept \in SUBSET Data[size[b]] : list' = [list EXCEPT ![a] = Kept(list[b], kept)]
    /\ size' = [size EXCEPT ![a] = size[b]]

Next ==
    \E a \in Arrays :
        \/ New(a)
        \/ \E value \in Data[size[a]] :
               \E pos \in Positions : Set(a, pos, value) \/ Insert(a, pos, value)
        \/ \E pos \in 0..Len(list[a]) : RemovePos(a, pos)
        \/ \E b \in Arrays : Copy(a, b)

Spec == Init /\ [][Next]_vars
=============================================================================
