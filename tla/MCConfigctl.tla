---------------------------- MODULE MCConfigctl -----------------------------
(* Small instances of Configctl for TLC.                                   *)
EXTENDS Configctl, TLC

Arg(section, variable, value) ==
    [section |-> section, variable |-> variable, value |-> value]
s == <<"s">>
x == <<"x">>
y == <<"y">>
v == <<"v">>

Letters == {"s", "x", "y", "v", ".", "="}
OneSetting == {<<<<>>, x, v>>}

(* Updates of a variable that is there and of ones that are not, values    *)
(* with a '=', and lookups that an earlier argument makes succeed, or not. *)
SomeCommands ==
    {[write |-> TRUE, args |-> <<Arg(NULL, x, <<>>), Arg(s, y, <<"=", "v">>)>>],
     [write |-> TRUE, args |-> <<Arg(s, y, <<"v", "=", "v">>), Arg(NULL, x, NULL),
                                 Arg(s, y, NULL)>>],
     [write |-> TRUE, args |-> <<Arg(NULL, x, s), Arg(s, x, NULL)>>],
     [write |-> FALSE, args |-> <<Arg(s, y, NULL)>>]}

Symmetry == Permutations(Procs)
=============================================================================
