------------------------------ MODULE MCEvent ------------------------------
(* Small instances of Event for TLC.                                       *)
EXTENDS Event, TLC

NoDelays == {}
(* event_register_idle *)
JustIdle == {Zero}
(* One second of three ticks: a delay has a part that carries into the     *)
(* next second.                                                            *)
ThreeDelays == {Zero, [sec |-> 1, usec |-> 0], [sec |-> 1, usec |-> 2]}

Symmetry == Permutations(Addrs)
=============================================================================
