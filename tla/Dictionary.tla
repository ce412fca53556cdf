----------------------------- MODULE Dictionary -----------------------------
(* Ordered dictionaries, what hash.c and mutator.c promise their callers:  *)
(* a sequence of entries [name, value], no name twice, that is searched by *)
(* name and iterated in the order in which the names were added.           *)
EXTENDS ArraySeq

CONSTANT NULL  \* the pointer: no value

NamesOf(d) == {d[k].name : k \in DOMAIN d}

(* hash_get, mutator_get *)
Lookup(d, name) ==
    IF name \in NamesOf(d)
    THEN d[CHOOSE k \in DOMAIN d : d[k].name = name].value
    ELSE NULL

(* hash_set, mutator_set: a value that is NULL removes the name.           *)
Replaced(d, name, value) ==
    [k \in DOMAIN d |-> IF d[k].name = name THEN [d[k] EXCEPT !.value = value] ELSE d[k]]

Without(d, name) == RemoveAt(d, CHOOSE k \in DOMAIN d : d[k].name = name)

PutStored(d, name, value) ==
    IF name \in NamesOf(d) THEN Replaced(d, name, value)
    ELSE Append(d, [name |-> name, value |-> value])
Put(d, name, value) ==
    CASE name \in NamesOf(d) /\ value # NULL -> Replaced(d, name, value)
      [] name \in NamesOf(d) /\ value = NULL -> Without(d, name)
      [] name \notin NamesOf(d) /\ value # NULL ->
             Append(d, [name |-> name, value |-> value])
      [] OTHER -> d

(* The answers of the functions: that of a get or of a visit, of a set     *)
(* that was done, and of one that failed.                                  *)
Answer(name, value) == [ok |-> TRUE, name |-> name, value |-> value]
Done == Answer(NULL, NULL)
Failed == [Done EXCEPT !.ok = FALSE]
=============================================================================
