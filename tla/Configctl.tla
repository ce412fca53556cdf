----------------------------- MODULE Configctl -----------------------------
(***************************************************************************)
(* The program of src/tools/configctl.c: it loads a file, looks up or sets *)
(* the variables its arguments name and, with -w, saves the file again.    *)
(* Several of them may run on one file, which nothing locks, and any may   *)
(* be killed.                                                              *)
(*                                                                         *)
(* The settings of a file are a set of <<section, variable, value>>; that  *)
(* loading gives back what was saved is Config's and ConfigText's subject. *)
(* Strings are sequences of characters, as the arguments are taken apart.  *)
(* Beside some definitions stands a variant with a slip in it, which no    *)
(* behaviour uses.                                                         *)
(***************************************************************************)
EXTENDS Integers, Sequences, SequencesExt

CONSTANTS
    Procs,     \* the processes
    Chars,     \* the characters of arguments and of settings
    Commands,  \* what they may be run with: [write, args]
    FirstFile, \* the settings in the file at first
    Garbled,   \* a file written in part, or by two processes at once
    NULL       \* the pointer: no value

(* An argument as configctl.xml.in has it, [section.]variable[=value]; the *)
(* section and the value may be NULL.  Text is what is typed.              *)
Text(arg) ==
    (IF arg.section = NULL THEN <<>> ELSE arg.section \o <<".">>)
    \o arg.variable
    \o (IF arg.value = NULL THEN <<>> ELSE <<"=">> \o arg.value)

Texts == Seq(Chars)
Args == [section : Texts \cup {NULL}, variable : Texts, value : Texts \cup {NULL}]
Contents == SUBSET (Texts \X Texts \X Texts)

(* The arguments that can be taken apart again: a section ends at the      *)
(* first dot and a variable, to write it, at the first equal sign.         *)
(* Without a section a dot is taken for the end of one wherever it is, in  *)
(* the value too (configctl.c:81).                                         *)
Clear(arg, write) ==
    /\ IF arg.section # NULL THEN "." \notin Range(arg.section)
       ELSE "." \notin Range(arg.variable \o IF arg.value = NULL THEN <<>> ELSE arg.value)
    /\ IF write THEN "=" \notin Range(arg.variable) ELSE arg.value = NULL

ASSUME CommandAssumption ==
    /\ {".", "="} \subseteq Chars /\ NULL \notin Texts
    /\ FirstFile \in Contents
    /\ Commands \subseteq [write : BOOLEAN, args : Seq(Args)]
    /\ \A command \in Commands : \A k \in DOMAIN command.args :
           Clear(command.args[k], command.write)

VARIABLES
    file,  \* the settings in the file
    proc   \* the state of each process

vars == <<file, proc>>

(* pc is where the process is; todo the arguments to come, config what it  *)
(* has in memory and ret the errors so far.  asked, found and alone are    *)
(* history: the command, the file that was loaded, and whether no other    *)
(* process had the file open for writing since.                            *)
Idle == [pc |-> "idle", todo |-> <<>>, config |-> {}, ret |-> 0,
         asked |-> NULL, found |-> {}, alone |-> FALSE]

Init ==
    /\ file = FirstFile
    /\ proc = [p \in Procs |-> Idle]

(* config_get and config_set *)
Value(config, section, variable) ==
    LET V == {s \in config : s[1] = section /\ s[2] = variable}
    IN  IF V = {} THEN NULL ELSE (CHOOSE s \in V : TRUE)[3]
Assigned(config, section, variable, value) ==
    {s \in config : s[1] # section \/ s[2] # variable}
    \cup {<<section, variable, value>>}

(* strchr(): what stands before and after the first c of a text, after     *)
(* being NULL when there is none.                                          *)
At(text, c) == {k \in DOMAIN text : text[k] = c}
BeforeLast(text, c) ==
    IF At(text, c) = {} THEN text ELSE SubSeq(text, 1, Max(At(text, c)) - 1)
Before(text, c) ==
    IF At(text, c) = {} THEN text ELSE SubSeq(text, 1, Min(At(text, c)) - 1)
After(text, c) ==
    IF At(text, c) = {} THEN NULL
    ELSE SubSeq(text, Len(Before(text, c)) + 2, Len(text))

(* An argument is taken apart at its first '.', then, to write, what       *)
(* follows at its first '='.  The default section is the empty one.        *)
Split(text, write) ==
    LET section == IF After(text, ".") = NULL THEN <<>> ELSE Before(text, ".")
        key == IF After(text, ".") = NULL THEN text ELSE After(text, ".")
    IN  [section |-> section,
         key |-> IF write THEN Before(key, "=") ELSE key,
         value |-> IF write THEN After(key, "=") ELSE NULL]
----------------------------------------------------------------------------
(* main and _configctl, one process p.                                     *)

Run(p, command) ==
    /\ proc[p].pc \in {"idle", "done", "failed"}
    /\ proc' = [proc EXCEPT ![p] =
           [Idle EXCEPT !.pc = "load", !.asked = command, !.todo = command.args]]
    /\ UNCHANGED file

Writing(q) == proc[q].pc = "write"

(* A garbled file may still load, as any settings: here, none.             *)
Load(p) ==
    /\ proc[p].pc = "load"
    /\ proc' = [proc EXCEPT ![p].pc = "args",
                            ![p].config = IF file = Garbled THEN {} ELSE file,
                            ![p].found = IF file = Garbled THEN {} ELSE file,
                            ![p].alone = file # Garbled /\ \A q \in Procs : ~Writing(q)]
    /\ UNCHANGED file

(* There is no such file, it has a syntax error, or an allocation fails.   *)
LoadFails(p) ==
    /\ proc[p].pc = "load"
    /\ proc' = [proc EXCEPT ![p].pc = "failed", ![p].ret = -1]
    /\ UNCHANGED file

(* _configctl_do.  An error does not end the loop: the next arguments are  *)
(* looked at too.                                                          *)
Asked(p) == Split(Text(Head(proc[p].todo)), proc[p].asked.write)
Argument(p) == proc[p].pc = "args" /\ proc[p].todo # <<>>

Get(p) ==
    /\ Argument(p) /\ Asked(p).value = NULL
    /\ LET found == Value(proc[p].config, Asked(p).section, Asked(p).key)
       IN  proc' = [proc EXCEPT ![p].todo = Tail(@),
                                ![p].ret = IF found = NULL THEN -1 ELSE @]
    /\ UNCHANGED file

Set(p) ==
    /\ Argument(p) /\ Asked(p).value # NULL /\ Asked(p).key # <<>>
    /\ proc' = [proc EXCEPT ![p].todo = Tail(@),
                            ![p].config = Assigned(@, Asked(p).section, Asked(p).key,
                                                   Asked(p).value)]
    /\ UNCHANGED file

(* The variable has no name, or an allocation fails.                       *)
SetFails(p) ==
    /\ Argument(p) /\ Asked(p).value # NULL
    /\ proc' = [proc EXCEPT ![p].todo = Tail(@), ![p].ret = -1]
    /\ UNCHANGED file

ArgumentsDoneEmptying(p) ==
    /\ proc[p].pc = "args" /\ proc[p].todo = <<>>
    /\ proc' = [proc EXCEPT ![p].pc = IF proc[p].ret # 0 THEN "failed"
                                      ELSE IF proc[p].asked.write THEN "save" ELSE "done"]
    /\ file' = IF proc[p].asked.write THEN {} ELSE file
ArgumentsDone(p) ==
    /\ proc[p].pc = "args" /\ proc[p].todo = <<>>
    /\ proc' = [proc EXCEPT ![p].pc = IF proc[p].ret # 0 THEN "failed"
                                      ELSE IF proc[p].asked.write THEN "save" ELSE "done"]
    /\ UNCHANGED file

(* config_save: fopen() empties the file, fclose() writes it.  The file of *)
(* another process may be there by then, and longer.                       *)
NotAlone(p) ==
    [q \in Procs |-> IF q = p THEN proc[q] ELSE [proc[q] EXCEPT !.alone = FALSE]]

SaveOpen(p) ==
    /\ proc[p].pc = "save"
    /\ file' = {}
    /\ proc' = [NotAlone(p) EXCEPT ![p].pc = "write"]

SaveWrite(p) ==
    /\ Writing(p)
    /\ file' \in {proc[p].config} \cup (IF file = {} THEN {} ELSE {Garbled})
    /\ proc' = [proc EXCEPT ![p].pc = "done"]

SaveFails(p) ==
    /\ proc[p].pc \in {"save", "write"}
    /\ proc' = [proc EXCEPT ![p].pc = "failed", ![p].ret = -1]
    /\ file' \in {file} \cup (IF Writing(p) THEN {Garbled} ELSE {})

(* The file is written whenever the buffer of stdio is full: a process     *)
(* that is killed has written nothing, a part or all.                      *)
Killed(p) ==
    /\ proc[p].pc \in {"load", "args", "save", "write"}
    /\ proc' = [proc EXCEPT ![p] = Idle]
    /\ file' \in {file} \cup (IF Writing(p) THEN {proc[p].config, Garbled} ELSE {})

Next ==
    \E p \in Procs :
        \/ \E command \in Commands : Run(p, command)
        \/ Load(p) \/ LoadFails(p)
        \/ Get(p) \/ Set(p) \/ SetFails(p) \/ ArgumentsDone(p)
        \/ SaveOpen(p) \/ SaveWrite(p) \/ SaveFails(p)
        \/ Killed(p)

Spec == Init /\ [][Next]_vars
----------------------------------------------------------------------------
(* What the manual says an argument does.                                  *)
Section(arg) == IF arg.section = NULL THEN <<>> ELSE arg.section
Obeyed(config, arg) ==
    IF arg.value = NULL THEN config
    ELSE Assigned(config, Section(arg), arg.variable, arg.value)
Effect(config, args) ==
    LET after[k \in 0..Len(args)] ==
            IF k = 0 THEN config ELSE Obeyed(after[k - 1], args[k])
    IN  after[Len(args)]

(* The arguments that name no variable of the file or of those before them.*)
Missing(config, args) ==
    {k \in DOMAIN args :
        /\ args[k].value = NULL
        /\ Value(Effect(config, SubSeq(args, 1, k - 1)), Section(args[k]),
                 args[k].variable) = NULL}

Ends(p, pc) == proc[p].pc # pc /\ proc'[p].pc = pc

(* When no other process wrote the file meanwhile, a command that succeeds *)
(* found all its variables, and with -w leaves the file as it found it but *)
(* for the variables it was told to set.                                   *)
SuccessAsDocumented ==
    [][\A p \in Procs :
         Ends(p, "done") /\ proc[p].alone =>
             LET asked == proc[p].asked
             IN  /\ Missing(proc[p].found, asked.args) = {}
                 /\ asked.write => file' = Effect(proc[p].found, asked.args)]_vars

(* A command with an argument that fails does not touch the file: unless   *)
(* the save itself failed, the file is as the command found it.            *)
FailureKeepsFile ==
    [][\A p \in Procs :
         Ends(p, "failed") /\ proc[p].alone /\ proc[p].pc # "write" =>
             file' = proc[p].found]_vars
=============================================================================
