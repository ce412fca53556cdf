--------------------------- MODULE DictionarySpec ---------------------------
(* A dictionary as its callers see it: one operation at a time, and an     *)
(* iteration whose callback may use the dictionary it is called for.       *)
(* Only adding a name may fail, for want of memory.                        *)
EXTENDS Dictionary

CONSTANTS Names, Values

VARIABLES
    dict,   \* the entries
    walk,   \* the position of the iteration under way, 0 when there is none
    inside, \* whether its callback is running
    ret     \* what the last call returned

vars == <<dict, walk, inside, ret>>

Init == dict = <<>> /\ walk = 0 /\ ~inside /\ ret = Done

CallerInControl == walk > 0 => inside

Get(name) ==
    /\ CallerInControl
    /\ ret' = Answer(name, Lookup(dict, name))
    /\ UNCHANGED <<dict, walk, inside>>

Set(name, value) ==
    /\ CallerInControl
    /\ dict' = Put(dict, name, value)
    /\ ret' = Done
    /\ UNCHANGED <<walk, inside>>

SetFails(name, value) ==
    /\ CallerInControl
    /\ name \notin NamesOf(dict) /\ value # NULL
    /\ ret' = Failed
    /\ UNCHANGED <<dict, walk, inside>>

Reset ==
    /\ CallerInControl
    /\ dict' = <<>>
    /\ ret' = Done
    /\ UNCHANGED <<walk, inside>>

Foreach ==
    /\ walk = 0
    /\ walk' = 1
    /\ UNCHANGED <<dict, inside, ret>>

Visit ==
    /\ walk \in DOMAIN dict /\ ~inside
    /\ inside' = TRUE
    /\ ret' = Answer(dict[walk].name, dict[walk].value)
    /\ UNCHANGED <<dict, walk>>

Return ==
    /\ inside
    /\ inside' = FALSE
    /\ walk' = walk + 1
    /\ UNCHANGED <<dict, ret>>

Finish ==
    /\ walk > Len(dict) /\ ~inside
    /\ walk' = 0
    /\ UNCHANGED <<dict, inside, ret>>

Next ==
    \/ \E name \in Names : Get(name)
    \/ \E name \in Names, value \in Values \cup {NULL} :
           Set(name, value) \/ SetFails(name, value)
    \/ Reset
    \/ Foreach \/ Visit \/ Return \/ Finish

Spec == Init /\ [][Next]_vars
=============================================================================
