----------------------------- MODULE ValueSpec -----------------------------
(* Variables as the users of variable.h think of them: values, that have   *)
(* nothing in common with one another, and are made and replaced whole or  *)
(* not at all.                                                             *)
EXTENDS Naturals

CONSTANTS Slots, Contents, Names, Keys, NULL

VARIABLE values \* the value in each variable of the program, or NULL

MembersFrom(S) == UNION {[ks -> S] : ks \in SUBSET Keys}
Scalars == [type : {"INT", "STRING"}, x : Contents, members : MembersFrom({})]
Compounds(members) ==
    [type : {"COMPOUND"}, x : Names \cup {NULL}, members : members]

Init == values = [s \in Slots |-> NULL]

(* The variable in s becomes one of S, the others stay.                    *)
Becomes(s, S) ==
    /\ values'[s] \in S
    /\ \A t \in Slots \ {s} : values'[t] = values[t]
Present == {values[t] : t \in Slots} \ {NULL}

(* variable_new and variable_set_type *)
Make(s) == Becomes(s, Scalars) \/ Becomes(s, Compounds(MembersFrom({})))

(* variable_new_compound and variable_new_compound_variables *)
Assemble(s) ==
    /\ values[s] = NULL
    /\ \/ Becomes(s, Compounds(MembersFrom(Scalars)))
       \/ Becomes(s, Compounds(MembersFrom(Present)))

(* variable_new_copy and variable_copy *)
Copy(s) == Becomes(s, Present)

Delete(s) == Becomes(s, {NULL})

Next == \E s \in Slots : Make(s) \/ Assemble(s) \/ Copy(s) \/ Delete(s)

Spec == Init /\ [][Next]_values
=============================================================================
