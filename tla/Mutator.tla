------------------------------ MODULE Mutator ------------------------------
(***************************************************************************)
(* The mutators of src/src/mutator.c: hash tables (src/src/hash.c) whose   *)
(* keys are strings they own.  A table is an array of entries, each with   *)
(* the hash of its key, the address of its key and a value; it is searched *)
(* by hash, then by comparing the keys.                                    *)
(*                                                                         *)
(* Beside some definitions stands a variant with a slip in it, which no    *)
(* behaviour uses.                                                         *)
(***************************************************************************)
EXTENDS Dictionary

CONSTANTS
    Names,   \* the contents of the keys
    HashOf,  \* hash_func_string(): the hash of each name
    Values,  \* the values set
    Addrs    \* the addresses string_new() may return for a key

ASSUME HashAssumption == HashOf \in [Names -> Nat]
ASSUME NullAssumption == NULL \notin Names /\ NULL \notin Values

VARIABLES
    entries,  \* the array of HashEntry
    text,     \* the string at each address, NULL when free
    position, \* 1 + the i of the array_foreach() under way, 0 when there is none
    inside,   \* whether the callback of the foreach is running
    ret,      \* what the last call returned or the callback was given
    seen,     \* history: the names that the foreach called back
    shrunk    \* history: whether a name was removed during the foreach

table == <<entries, text>>
history == <<seen, shrunk>>
mutatorVars == <<table, position, inside, ret, history>>

Entries == [hash : Nat, key : Addrs, value : Values]

MutatorTypeOK ==
    /\ entries \in Seq(Entries)
    /\ text \in [Addrs -> Names \cup {NULL}]
    /\ position \in Nat /\ inside \in BOOLEAN
    /\ seen \in Seq(Names) /\ shrunk \in BOOLEAN

MutatorInit ==
    /\ entries = <<>>
    /\ text = [a \in Addrs |-> NULL]
    /\ position = 0 /\ inside = FALSE
    /\ ret = Done
    /\ seen = <<>> /\ shrunk = FALSE
----------------------------------------------------------------------------
(* hash.c.  hash_get and hash_get_key look at the entries from the last to *)
(* the first, hash_set from the first to the last.                         *)

HitsByHash(name) == {k \in DOMAIN entries : entries[k].hash = HashOf[name]}
Hits(name) ==
    {k \in DOMAIN entries :
        entries[k].hash = HashOf[name] /\ text[entries[k].key] = name}

LastOf(K) == CHOOSE k \in K : \A j \in K : j <= k
FirstOf(K) == CHOOSE k \in K : \A j \in K : k <= j

HashGet(name) ==
    IF Hits(name) = {} THEN NULL ELSE entries[LastOf(Hits(name))].value

(* hash_set on a name with an entry, and on a name without.                *)
HashReplaceAtEnd(name, value) ==
    entries' = Append(RemoveAt(entries, FirstOf(Hits(name))),
                      [entries[FirstOf(Hits(name))] EXCEPT !.value = value])
HashReplaceAndAppend(name, value) ==
    entries' = Append(entries, [entries[FirstOf(Hits(name))] EXCEPT !.value = value])
HashReplace(name, value) ==
    entries' = [entries EXCEPT ![FirstOf(Hits(name))].value = value]
HashRemoveStored(name) ==
    entries' = [entries EXCEPT ![FirstOf(Hits(name))].value = NULL]
HashRemove(name) == entries' = RemoveAt(entries, FirstOf(Hits(name)))
HashAppend(name, key, value) ==
    entries' = Append(entries, [hash |-> HashOf[name], key |-> key, value |-> value])
----------------------------------------------------------------------------
(* The caller runs between two calls and in the callback of a foreach.     *)
CallerInControl == position > 0 => inside

MutatorGet(name) ==
    /\ CallerInControl
    /\ ret' = Answer(name, HashGet(name))
    /\ UNCHANGED <<table, position, inside, history>>

(* mutator_set: a new name,                                                *)
SetNew(name, value) ==
    /\ CallerInControl
    /\ Hits(name) = {}
    /\ \E a \in Addrs :
           /\ text[a] = NULL
           /\ text' = [text EXCEPT ![a] = name]
           /\ HashAppend(name, a, value)
    /\ ret' = Done
    /\ UNCHANGED <<position, inside, history>>

(* a new name for which string_new() or array_append() fails: a key that   *)
(* has been allocated is freed again,                                      *)
SetFails(name) ==
    /\ CallerInControl
    /\ Hits(name) = {}
    /\ ret' = Failed
    /\ UNCHANGED <<table, position, inside, history>>

(* another value for a name that is there,                                 *)
SetAgain(name, value) ==
    /\ CallerInControl
    /\ Hits(name) # {}
    /\ HashReplace(name, value)
    /\ ret' = Done
    /\ UNCHANGED <<text, position, inside, history>>

(* and NULL: the entry goes and the key that hash_get_key found is freed.  *)
SetNullLeak(name) ==
    /\ CallerInControl
    /\ IF Hits(name) = {} THEN UNCHANGED entries ELSE HashRemove(name)
    /\ shrunk' = (shrunk \/ (position > 0 /\ Hits(name) # {}))
    /\ ret' = Done
    /\ UNCHANGED <<text, position, inside, seen>>
SetNull(name) ==
    /\ CallerInControl
    /\ IF Hits(name) = {}
       THEN UNCHANGED table
       ELSE /\ HashRemove(name)
            /\ text' = [text EXCEPT ![entries[LastOf(Hits(name))].key] = NULL]
    /\ shrunk' = (shrunk \/ (position > 0 /\ Hits(name) # {}))
    /\ ret' = Done
    /\ UNCHANGED <<position, inside, seen>>

(* mutator_reset: the keys are freed, then the entries removed one by one. *)
(* mutator_delete and a new mutator_new leave the same state.              *)
MutatorReset ==
    /\ CallerInControl
    /\ text' = [a \in Addrs |->
                   IF \E k \in DOMAIN entries : entries[k].key = a THEN NULL ELSE text[a]]
    /\ entries' = <<>>
    /\ shrunk' = (shrunk \/ (position > 0 /\ entries # <<>>))
    /\ ret' = Done
    /\ UNCHANGED <<position, inside, seen>>
----------------------------------------------------------------------------
(* mutator_foreach: array_foreach reads the count, and each entry, again   *)
(* for every call of the callback.                                         *)

Foreach ==
    /\ position = 0
    /\ position' = 1
    /\ seen' = <<>> /\ shrunk' = FALSE
    /\ UNCHANGED <<table, inside, ret>>

Visit ==
    /\ position \in DOMAIN entries /\ ~inside
    /\ inside' = TRUE
    /\ ret' = Answer(text[entries[position].key], entries[position].value)
    /\ seen' = Append(seen, text[entries[position].key])
    /\ UNCHANGED <<table, position, shrunk>>

Return ==
    /\ inside
    /\ inside' = FALSE
    /\ position' = position + 1
    /\ UNCHANGED <<table, ret, history>>

Finish ==
    /\ position > Len(entries) /\ ~inside
    /\ position' = 0
    /\ seen' = <<>> /\ shrunk' = FALSE
    /\ UNCHANGED <<table, inside, ret>>

MutatorNext ==
    \/ \E name \in Names : MutatorGet(name) \/ SetNull(name)
    \/ \E name \in Names, value \in Values :
           SetNew(name, value) \/ SetFails(name) \/ SetAgain(name, value)
    \/ MutatorReset
    \/ Foreach \/ Visit \/ Return \/ Finish

MutatorSpec == MutatorInit /\ [][MutatorNext]_mutatorVars
----------------------------------------------------------------------------
(* A key string is allocated as long as one entry, and only one, has it:   *)
(* whatever is set, removed and reset, inside a foreach or not, no key     *)
(* leaks and none is freed under an entry.                                 *)
KeysOwned ==
    /\ {a \in Addrs : text[a] # NULL} = {entries[k].key : k \in DOMAIN entries}
    /\ \A j, k \in DOMAIN entries : entries[j].key = entries[k].key => j = k

(* No name has two entries, so that hash_get, which looks for the last     *)
(* one, and hash_set, which looks for the first, mean the same.            *)
NamesUnique ==
    \A j, k \in DOMAIN entries :
        text[entries[j].key] = text[entries[k].key] => j = k

(* A foreach whose callbacks remove nothing calls back every name once, in *)
(* the order of the table, those its callbacks add included.               *)
ForeachComplete ==
    position > 0 /\ ~shrunk =>
        /\ Len(seen) = IF inside THEN position ELSE position - 1
        /\ \A k \in DOMAIN seen :
               k \in DOMAIN entries /\ seen[k] = text[entries[k].key]

(* The mutator is the dictionary of its entries.                           *)
dict ==
    [k \in DOMAIN entries |->
        [name |-> text[entries[k].key], value |-> entries[k].value]]

Dict == INSTANCE DictionarySpec WITH walk <- position

(* Seen through its functions, a mutator does what a dictionary may do,    *)
(* and nothing else.                                                       *)
IsDictionary == Dict!Spec
=============================================================================
