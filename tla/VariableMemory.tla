--------------------------- MODULE VariableMemory ---------------------------
(***************************************************************************)
(* The memory of variables, compound ones in particular: variable_new and  *)
(* its kind, variable_copy, variable_set_type and variable_delete in       *)
(* src/src/variable.c.  A compound owns a name, a mutator and the          *)
(* variables in it, compounds as well.                                     *)
(*                                                                         *)
(* A function that fills a mutator has a frame on the stack, and one for   *)
(* every compound inside another it copies; it takes a step to make a      *)
(* member and one to set it.  Either may fail, and what was made before    *)
(* has to be given back, frame by frame.  Functions without members are    *)
(* one step: when an allocation fails they free those before it, and       *)
(* nothing has changed.                                                    *)
(*                                                                         *)
(* Integers stand for all the types without memory, strings for buffers;   *)
(* an array cannot be made (variable_set_typev refuses it).                *)
(*                                                                         *)
(* Beside some definitions stands a variant with a slip in it.  No         *)
(* behaviour uses a variant: each is there to put in the place of the      *)
(* definition below it and see a property fail.                            *)
(***************************************************************************)
EXTENDS Integers, FiniteSets, SequencesExt

CONSTANTS
    Slots,      \* the variables of the program that point to a Variable
    Contents,   \* of integers and of strings
    Names, Keys,\* of compounds, of their members
    MaxBlocks,  \* what malloc() may return: a bound
    MaxMembers, \* members given to a new compound: a bound
    MaxLost,    \* members forgotten, see SetFails: a bound
    NULL

ASSUME MemoryAssumption ==
    /\ MaxBlocks \in Nat /\ MaxMembers \in Nat /\ MaxLost \in Nat
    /\ NULL \notin Nat /\ NULL \notin Names /\ NULL \notin Keys

Blocks == 1..MaxBlocks

Unused == [block |-> "none"]
StringOf(text) == [block |-> "string", text |-> text]
MutatorOf(entries) == [block |-> "mutator", entries |-> entries]

(* struct _Variable: string is a string, or the name of a compound.        *)
VariableOf(type, content, string, members) ==
    [block |-> "variable", type |-> type, content |-> content,
     string |-> string, members |-> members]

VARIABLES
    heap,    \* the block at each address
    slots,   \* the addresses that the program has
    stack,   \* the functions under way
    failing, \* the last of them is about to fail
    lost     \* variables that nobody has the address of

memoryVars == <<heap, slots, stack, failing, lost>>

MemoryInit ==
    /\ heap = [b \in Blocks |-> Unused]
    /\ slots = [s \in Slots |-> NULL]
    /\ stack = <<>> /\ failing = FALSE /\ lost = {}
----------------------------------------------------------------------------
(* Memory.  malloc() returns the lowest address: the code compares none.   *)

Free == {b \in Blocks : heap[b] = Unused}
NewVariable == Min(Free)
NewPart == Min(Free \ {NewVariable})
NewName == Min(Free \ {NewVariable, NewPart})

(* variable_newv, from the value of a variable: x is a number, a text or   *)
(* a name.                                                                 *)
BlocksOf(value) ==
    CASE value.type = "INT" -> 1
      [] value.type = "STRING" -> 2
      [] value.type = "COMPOUND" -> IF value.x = NULL THEN 2 ELSE 3
HasRoom(value) == BlocksOf(value) <= Cardinality(Free)
HeapWith(value) ==
    CASE value.type = "INT" ->
             [heap EXCEPT ![NewVariable] = VariableOf("INT", value.x, NULL, NULL)]
      [] value.type = "STRING" ->
             [heap EXCEPT ![NewVariable] = VariableOf("STRING", NULL, NewPart, NULL),
                          ![NewPart] = StringOf(value.x)]
      [] value.type = "COMPOUND" ->
             IF value.x = NULL
             THEN [heap EXCEPT ![NewVariable] = VariableOf("COMPOUND", NULL, NULL, NewPart),
                               ![NewPart] = MutatorOf(<<>>)]
             ELSE [heap EXCEPT ![NewVariable] = VariableOf("COMPOUND", NULL, NewName, NewPart),
                               ![NewPart] = MutatorOf(<<>>),
                               ![NewName] = StringOf(value.x)]

(* _variable_destroy and variable_delete: what is freed with a block.      *)
ChildrenOfVariable(h, b) ==
    IF h[b].block = "variable" THEN {h[b].string, h[b].members} \ {NULL} ELSE {}
Children(h, b) ==
    CASE h[b].block = "variable" -> {h[b].string, h[b].members} \ {NULL}
      [] h[b].block = "mutator" -> {e.value : e \in ToSet(h[b].entries)}
      [] OTHER -> {}
Beneath(h) ==
    LET below[b \in Blocks] == UNION {{c} \cup below[c] : c \in Children(h, b)}
    IN  below
Without(h, freed) == [b \in Blocks |-> IF b \in freed THEN Unused ELSE h[b]]
Deleted(h, v) == Without(h, {v} \cup Beneath(h)[v])

(* What variable_new_copy copies, members by their addresses.              *)
TextOf(v) == IF heap[v].string = NULL THEN NULL ELSE heap[heap[v].string].text
EntriesOf(v) == IF heap[v].type = "COMPOUND" THEN heap[heap[v].members].entries ELSE <<>>
Todo(v) == [i \in DOMAIN EntriesOf(v) |->
                [key |-> EntriesOf(v)[i].key, from |-> EntriesOf(v)[i].value]]
SourceUnnamed(v) ==
    [type |-> heap[v].type, todo |-> Todo(v),
     x |-> CASE heap[v].type = "INT" -> heap[v].content
             [] heap[v].type = "STRING" -> TextOf(v)
             [] OTHER -> NULL]
Source(v) ==
    [type |-> heap[v].type, todo |-> Todo(v),
     x |-> IF heap[v].type = "INT" THEN heap[v].content ELSE TextOf(v)]
Value(type, x) == [type |-> type, x |-> x, todo |-> <<>>]

(* Mutators: see Mutator.                                                  *)
Entries(h, n) == h[n].entries
Has(h, n, key) == \E i \in DOMAIN Entries(h, n) : Entries(h, n)[i].key = key
PositionOf(h, n, key) == CHOOSE i \in DOMAIN Entries(h, n) : Entries(h, n)[i].key = key
WithoutFormer(h, n, key) ==
    IF ~Has(h, n, key) THEN h
    ELSE LET i == PositionOf(h, n, key)
         IN  [Deleted(h, Entries(h, n)[i].value) EXCEPT
                 ![n] = MutatorOf(RemoveAt(Entries(h, n), i))]
----------------------------------------------------------------------------
(* The program calls a function.                                           *)
Idle == stack = <<>>
InUse == {s \in Slots : slots[s] # NULL}
Scalars == {Value(type, x) : type \in {"INT", "STRING"}, x \in Contents}
Empties == {Value("COMPOUND", name) : name \in Names \cup {NULL}}

(* v: the variable that is made or, by variable_copy, copied to.  n: the   *)
(* mutator.  name: for variable_copy.  made: a member still to be set.     *)
Frame(kind, slot, v, n, name, todo) ==
    [kind |-> kind, slot |-> slot, v |-> v, n |-> n, name |-> name,
     todo |-> todo, made |-> NULL]

VariableNew(s) ==
    /\ Idle /\ slots[s] = NULL
    /\ \E value \in Scalars \cup Empties :
        /\ HasRoom(value) /\ heap' = HeapWith(value)
        /\ slots' = [slots EXCEPT ![s] = NewVariable]
    /\ UNCHANGED <<stack, failing, lost>>

(* A new compound, of members [key, value] or copies of [key, from].       *)
Begin(kind, s, value, todo) ==
    /\ Idle /\ slots[s] = NULL /\ HasRoom(value)
    /\ heap' = HeapWith(value)
    /\ stack' = <<Frame(kind, s, NewVariable, NewPart, NULL, todo)>>
    /\ UNCHANGED <<slots, failing, lost>>

ArgsOf(fields) == UNION {[1..n -> fields] : n \in 1..MaxMembers}
Distinct(args) == \A i, j \in DOMAIN args : args[i].key = args[j].key => i = j

(* A name given twice would be deleted twice if the second member failed.  *)
VariableNewCompound(s) ==
    \E value \in Empties, args \in ArgsOf([key : Keys \cup {NULL}, value : Scalars]) :
        Distinct(args) /\ Begin("compound", s, value, args)

VariableNewCompoundVariables(s) ==
    \E value \in Empties :
        \E args \in ArgsOf([key : Keys \cup {NULL}, from : {slots[t] : t \in InUse}]) :
            Begin("variables", s, value, args)

VariableNewCopy(s) ==
    \E t \in InUse :
        LET value == Source(slots[t])
        IN  IF value.type = "COMPOUND" THEN Begin("copy", s, value, value.todo)
            ELSE /\ Idle /\ slots[s] = NULL /\ HasRoom(value)
                 /\ heap' = HeapWith(value) /\ slots' = [slots EXCEPT ![s] = NewVariable]
                 /\ UNCHANGED <<stack, failing, lost>>

(* The new contents, made beside the old ones, take their place.           *)
Replaced(h, v, contents) ==
    [Without(h, Beneath(heap)[v]) EXCEPT ![v] = contents]

(* variable_set_typev, and variable_copy of what is no compound: new       *)
(* contents but no new variable, as the one made here is given back.       *)
SetTo(s, value) ==
    LET made == HeapWith(value)
    IN  /\ HasRoom(value)
        /\ heap' = [Replaced(made, slots[s], made[NewVariable]) EXCEPT ![NewVariable] = Unused]
        /\ UNCHANGED <<slots, stack, failing, lost>>
VariableSetType(s) ==
    Idle /\ s \in InUse /\ \E value \in Scalars \cup Empties : SetTo(s, value)

(* variable_copy to a compound, from one: the type would stay.             *)
VariableCopy(s) ==
    /\ Idle /\ s \in InUse
    /\ \E t \in InUse :
        LET value == Source(slots[t])
            made == HeapWith(value)
            parts == made[NewVariable]
        IN  IF value.type # "COMPOUND" THEN SetTo(s, value)
            ELSE /\ heap[slots[s]].type = "COMPOUND" /\ HasRoom(value)
                 /\ heap' = [made EXCEPT ![NewVariable] = Unused]
                 /\ stack' = <<Frame("into", s, slots[s], parts.members, parts.string, value.todo)>>
                 /\ UNCHANGED <<slots, failing, lost>>

VariableDelete(s) ==
    /\ Idle /\ s \in InUse
    /\ heap' = Deleted(heap, slots[s]) /\ slots' = [slots EXCEPT ![s] = NULL]
    /\ UNCHANGED <<stack, failing, lost>>
----------------------------------------------------------------------------
(* The function goes on: the member at the head of todo.                   *)
Top == Last(stack)
Member == Head(Top.todo)
Working == ~Idle /\ ~failing
PopTo(frame) == Append(Front(stack), frame)

(* "compound" deletes a former member where it is: names are Distinct.     *)
MakeMember ==
    /\ Working /\ Top.made = NULL /\ Top.todo # <<>> /\ Member.key # NULL
    /\ LET value == IF Top.kind = "compound" THEN Member.value ELSE Source(Member.from)
           v == NewVariable
       IN  /\ HasRoom(value)
           /\ heap' = WithoutFormer(HeapWith(value), Top.n, Member.key)
           /\ stack' = IF value.type = "COMPOUND"
                       THEN Append(stack, Frame("copy", NULL, v, NewPart, NULL, value.todo))
                       ELSE PopTo([Top EXCEPT !.made = v])
    /\ UNCHANGED <<slots, failing, lost>>

(* An allocation fails, or there is no name.  The former member is gone.   *)
MemberFails ==
    /\ Working /\ Top.made = NULL /\ Top.todo # <<>>
    /\ heap' = IF Member.key = NULL THEN heap ELSE WithoutFormer(heap, Top.n, Member.key)
    /\ failing' = TRUE
    /\ UNCHANGED <<slots, stack, lost>>

SetMember ==
    /\ Working /\ Top.made # NULL
    /\ heap' = [heap EXCEPT ![Top.n].entries =
                    Append(@, [key |-> Member.key, value |-> Top.made])]
    /\ stack' = PopTo([Top EXCEPT !.made = NULL, !.todo = Tail(@)])
    /\ UNCHANGED <<slots, failing, lost>>

(* mutator_set fails: the member is deleted, except by                     *)
(* variable_new_compound_variables, which forgets it.                      *)
SetFails ==
    /\ Working /\ Top.made # NULL
    /\ IF Top.kind = "variables"
       THEN Cardinality(lost) < MaxLost /\ lost' = lost \cup {Top.made} /\ UNCHANGED heap
       ELSE heap' = Deleted(heap, Top.made) /\ UNCHANGED lost
    /\ stack' = PopTo([Top EXCEPT !.made = NULL]) /\ failing' = TRUE
    /\ UNCHANGED slots

(* The function returns: to the program, or to the copy of the compound    *)
(* around this one.                                                        *)
Return ==
    /\ Working /\ Top.made = NULL /\ Top.todo = <<>>
    /\ IF Len(stack) > 1
       THEN /\ stack' = [Front(stack) EXCEPT ![Len(stack) - 1].made = Top.v]
            /\ UNCHANGED <<heap, slots>>
       ELSE /\ stack' = <<>>
            /\ IF Top.kind = "into"
               THEN /\ heap' = Replaced(heap, Top.v,
                                   VariableOf(heap[Top.v].type, NULL, Top.name, Top.n))
                    /\ UNCHANGED slots
               ELSE slots' = [slots EXCEPT ![Top.slot] = Top.v] /\ UNCHANGED heap
    /\ UNCHANGED <<failing, lost>>

(* It returns NULL, or an error, and deletes what it has made.             *)
OwnedBy(frame) ==
    IF frame.kind = "into" THEN ({frame.n, frame.name} \ {NULL}) \cup Beneath(heap)[frame.n]
    ELSE {frame.v} \cup Beneath(heap)[frame.v]
Fail ==
    /\ failing
    /\ heap' = Without(heap, OwnedBy(Top)) /\ stack' = Front(stack)
    /\ failing' = (Len(stack) > 1)
    /\ UNCHANGED <<slots, lost>>

MemoryNext ==
    \/ \E s \in Slots :
        \/ VariableNew(s) \/ VariableNewCompound(s) \/ VariableNewCompoundVariables(s)
        \/ VariableNewCopy(s) \/ VariableCopy(s) \/ VariableSetType(s) \/ VariableDelete(s)
    \/ MakeMember \/ MemberFails \/ SetMember \/ SetFails \/ Return \/ Fail

MemorySpec == MemoryInit /\ [][MemoryNext]_memoryVars
----------------------------------------------------------------------------
(* Who has the address of a block: the program, a function, a block.       *)
Holders(b) ==
    {<<"slot", s>> : s \in {t \in Slots : slots[t] = b}}
    \cup {<<"lost", l>> : l \in lost \cap {b}}
    \cup {<<"frame", i>> : i \in {j \in DOMAIN stack : stack[j].kind # "into" /\ stack[j].v = b}}
    \cup {<<"parts", i>> : i \in {j \in DOMAIN stack :
             stack[j].kind = "into" /\ b \in {stack[j].n, stack[j].name}}}
    \cup {<<"made", i>> : i \in {j \in DOMAIN stack : stack[j].made = b}}
Within(b) ==
    {<<"name", v>> : v \in {a \in Blocks : heap[a].block = "variable" /\ heap[a].string = b}}
    \cup {<<"members", v>> : v \in {a \in Blocks : heap[a].block = "variable" /\ heap[a].members = b}}
    \cup UNION {{<<"entry", n, i>> : i \in {j \in DOMAIN heap[n].entries : heap[n].entries[j].value = b}}
                    : n \in {a \in Blocks : heap[a].block = "mutator"}}
Owners(b) == Holders(b) \cup Within(b)

(* Every block in use has one owner, and nothing that is owned has been    *)
(* freed, wherever an allocation fails in the middle of nested members.    *)
(* The only blocks without an owner are the members that                   *)
(* variable_new_compound_variables forgets.                                *)
Owned == \A b \in Blocks : Cardinality(Owners(b)) = IF heap[b] = Unused THEN 0 ELSE 1

(* Variables are values: a copy is the same and shares nothing, a change   *)
(* to one is not seen in another, and a function that fails changes none.  *)
Tree ==
    LET tree[v \in Blocks] ==
            IF heap[v] = Unused THEN Unused
            ELSE [type |-> heap[v].type,
                  x |-> IF heap[v].type = "INT" THEN heap[v].content ELSE TextOf(v),
                  members |-> [k \in {e.key : e \in ToSet(EntriesOf(v))} |->
                      tree[(CHOOSE e \in ToSet(EntriesOf(v)) : e.key = k).value]]]
    IN  tree
Values == INSTANCE ValueSpec
    WITH values <- [s \in Slots |-> IF slots[s] = NULL THEN NULL ELSE Tree[slots[s]]]
IsValues == Values!Spec
=============================================================================
