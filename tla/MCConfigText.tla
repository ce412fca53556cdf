---------------------------- MODULE MCConfigText ----------------------------
(* Small instances of ConfigText for TLC.                                  *)
EXTENDS ConfigText

CONSTANT MaxText  \* the length of the files there may be at first

AllTexts == UNION {[1..n -> Chars] : n \in 0..MaxText}

Setting(section, variable, value) ==
    <<[name |-> section, value |-> <<[name |-> variable, value |-> value]>>]>>

(* One setting with odd characters, a section with none, and four settings *)
(* in the default section and another, in either order.                    *)
Odd == UNION {[1..n -> {"a", "=", "[", "]", "#"}] : n \in 0..1}
OddVariables == UNION {[1..n -> {"a", "=", "[", "]", "#"}] : n \in 1..2}

Both(one, other) ==
    <<[name |-> one, value |-> <<[name |-> <<"a">>, value |-> <<"a">>],
                                 [name |-> <<"=">>, value |-> <<"a", "a">>]>>],
      [name |-> other, value |-> <<[name |-> <<"a">>, value |-> <<>>],
                                   [name |-> <<"=">>, value |-> <<"[", "a">>]>>]>>

MadeConfigs ==
    {Setting(section, variable, value) :
        section \in Odd, variable \in OddVariables, value \in Odd}
    \cup {<<[name |-> section, value |-> <<>>]>> : section \in Odd}
    \cup {Both(<<>>, <<"a">>), Both(<<"a">>, <<>>), Both(<<"#">>, <<"a">>)}
=============================================================================
