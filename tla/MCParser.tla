------------------------------ MODULE MCParser ------------------------------
(***************************************************************************)
(* Parser with two filters of a preprocessor: one drops a backslash and    *)
(* the newline after it, the other puts one character in the place of a    *)
(* trigraph.  The sources are every short text, and longer ones in which   *)
(* patterns follow and break off one another.                              *)
(***************************************************************************)
EXTENDS Parser

CONSTANTS MaxLength     \* bound: of the short texts

Texts == UNION {[1..n -> Chars] : n \in 0..MaxLength} \cup
    {<<"?", "?", "bs", "nl", "nl">>, <<"bs", "?", "?", "/", "nl">>,
     <<"bs", "nl", "bs", "nl", "?">>, <<"?", "?", "/", "nl", "bs">>, <<"nl", "?", "bs", "?", "?">>,
     <<"?", "?", "?", "/", "bs">>, <<"?", "?", "/">>, <<"bs", "nl", "/">>,
     <<"nl", "bs", "?", "nl">>, <<"bs", "bs", "nl", "/">>}
Patterns == [newlines |-> <<"bs", "nl">>, trigraphs |-> <<"?", "?", "/">>]
=============================================================================
