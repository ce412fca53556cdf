-------------------------- MODULE MCVariableMemory --------------------------
(* VariableMemory with blocks enough for a compound of a compound and its  *)
(* copy, and an allocation that fails anywhere in making either.           *)
EXTENDS VariableMemory

(* States that differ by their addresses only are one, as the code         *)
(* compares none: an address is shown as what is there.                    *)
Shape ==
    LET shape[b \in Blocks \cup {NULL}] ==
            IF b = NULL THEN <<>>
            ELSE CASE heap[b].block = "variable" ->
                          <<heap[b].type, heap[b].content, shape[heap[b].string], shape[heap[b].members]>>
                   [] heap[b].block = "mutator" ->
                          [i \in DOMAIN heap[b].entries |->
                              <<heap[b].entries[i].key, shape[heap[b].entries[i].value]>>]
                   [] OTHER -> heap[b]
        todo(f) == [i \in DOMAIN f.todo |->
                       <<f.todo[i].key, IF f.kind = "compound" THEN f.todo[i].value
                                        ELSE shape[f.todo[i].from]>>]
        frame(f) == <<f.kind, f.slot, shape[f.v], shape[f.n], shape[f.name], todo(f), shape[f.made]>>
    IN  <<[s \in Slots |-> shape[slots[s]]], {shape[l] : l \in lost}, failing,
          [i \in DOMAIN stack |-> frame(stack[i])],
          Cardinality({b \in Blocks : heap[b] = Unused})>>
=============================================================================
