---------------------------- MODULE ChannelSpec ----------------------------
(* What two programs that exchange variables expect of their connection:   *)
(* the values sent are received, all of them, once and in order, until the *)
(* connection is lost.                                                     *)
EXTENDS Sequences

CONSTANTS
    Values,
    Nothing  \* what has been received at first

VARIABLES
    queue,   \* the values sent and not received
    last     \* the last value received

vars == <<queue, last>>

Init == queue = <<>> /\ last = Nothing

Send(v) == queue' = Append(queue, v) /\ UNCHANGED last

Receive ==
    /\ queue # <<>>
    /\ last' = Head(queue)
    /\ queue' = Tail(queue)

Lose == queue' = <<>> /\ UNCHANGED last

Next == (\E v \in Values : Send(v)) \/ Receive \/ Lose

Spec == Init /\ [][Next]_vars
=============================================================================
