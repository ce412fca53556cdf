------------------------------- MODULE Config -------------------------------
(***************************************************************************)
(* The configurations of src/src/config.c: a mutator of sections, each a   *)
(* mutator of variables, whose values are strings the configuration owns;  *)
(* and the files it is loaded from and saved to.                           *)
(*                                                                         *)
(* A mutator is taken for the dictionary that Mutator implements.  A file  *)
(* is the sequence of its lines; ConfigText is about their characters.     *)
(*                                                                         *)
(* Beside some definitions stands a variant with a slip in it, which no    *)
(* behaviour uses.                                                         *)
(***************************************************************************)
EXTENDS Dictionary

CONSTANTS
    Sections,     \* the names of sections
    Default,      \* "", the default one
    Variables,    \* the names of variables
    Strings,      \* the values of variables
    Empty,        \* "", one of them
    Addrs,        \* the addresses string_new() may return for a value
    Paths,        \* the files
    System, User, \* the two that config_load_preferences() reads
    InitialFiles  \* the contents, or absence, of files at first

ASSUME NameAssumption ==
    /\ Default \in Sections /\ Empty \in Strings
    /\ NULL \notin Strings /\ NULL \notin Addrs
    /\ {System, User} \subseteq Paths

(* The lines of a file: [section], variable=value, a line without meaning  *)
(* (blank, comment) and one that is a syntax error.                        *)
Heading(section) == [kind |-> "section", name |-> section]
Assignment(variable, value) ==
    [kind |-> "variable", name |-> variable, value |-> value]
Comment == [kind |-> "comment"]
Broken == [kind |-> "broken"]

Lines ==
    {Heading(section) : section \in Sections} \cup {Comment, Broken}
    \cup {Assignment(variable, value) : variable \in Variables, value \in Strings}

Files == Seq(Lines) \cup {NULL}
SectionDicts == Seq([name : Variables, value : Addrs])
Keys == Sections \X Variables
Settings == [Keys -> Strings \cup {NULL}]

ASSUME FileAssumption ==
    /\ Variables # {}
    /\ InitialFiles \subseteq Files
    /\ NULL \notin Seq(Lines) /\ NULL \notin SectionDicts

VARIABLES
    config, \* the dictionary of sections
    heap,   \* the value at each address, NULL when free
    files,  \* the lines of each file, NULL when there is no file
    load    \* the config_load under way, NULL when there is none

vars == <<config, heap, files, load>>

(* The locals of config_load: the section it is in and the lines to come.  *)
(* paths are the files config_load_preferences has yet to read.  read and  *)
(* over are history: the lines read so far, and the settings that the      *)
(* earlier files and the configuration before them come to.                *)
Loads == [section : Sections, rest : Seq(Lines), paths : Seq(Paths),
          read : Seq(Lines), over : Settings]

TypeOK ==
    /\ config \in Seq([name : Sections, value : SectionDicts])
    /\ heap \in [Addrs -> Strings \cup {NULL}]
    /\ files \in [Paths -> Files]
    /\ load \in Loads \cup {NULL}

Init ==
    /\ config = <<>>
    /\ heap = [a \in Addrs |-> NULL]
    /\ files \in [Paths -> InitialFiles]
    /\ load = NULL

(* The dictionary of a section; a missing one is created when set.         *)
SectionDict(section) ==
    IF section \in NamesOf(config) THEN Lookup(config, section) ELSE <<>>
ValueAt(section, variable) == Lookup(SectionDict(section), variable)

(* config_get *)
ConfigGet(section, variable) ==
    IF ValueAt(section, variable) = NULL THEN NULL ELSE heap[ValueAt(section, variable)]

settings == [k \in Keys |-> ConfigGet(k[1], k[2])]
----------------------------------------------------------------------------
(* config_set.  With a value it may have to create the section and the     *)
(* variable; the former value is freed last.                               *)
SetValueInPlace(section, variable, value) ==
    \E a \in Addrs :
        /\ heap[a] = NULL
        /\ heap' = [heap EXCEPT ![a] = value]
        /\ config' = Put(config, section, Put(SectionDict(section), variable, a))
SetValue(section, variable, value) ==
    \E a \in Addrs :
        /\ heap[a] = NULL
        /\ heap' = [b \in Addrs |-> IF b = a THEN value
                                    ELSE IF b = ValueAt(section, variable) THEN NULL
                                    ELSE heap[b]]
        /\ config' = Put(config, section, Put(SectionDict(section), variable, a))

(* An allocation fails: a section that was created for the variable stays. *)
SetFailsLosing(section, variable) ==
    /\ UNCHANGED heap
    /\ config' = Put(config, section, Put(SectionDict(section), variable, NULL))
SetFails(section, variable) ==
    /\ UNCHANGED heap
    /\ \/ config' = config
       \/ config' = Put(config, section, SectionDict(section))

(* Without a value the variable is removed; a missing section is created   *)
(* all the same.                                                           *)
SetNull(section, variable) ==
    /\ config' = Put(config, section, Put(SectionDict(section), variable, NULL))
    /\ heap' = [b \in Addrs |-> IF b = ValueAt(section, variable) THEN NULL ELSE heap[b]]

Idle == load = NULL

ConfigSet(section, variable, value) ==
    /\ Idle
    /\ \/ value # NULL /\ SetValue(section, variable, value)
       \/ value # NULL /\ SetFails(section, variable)
       \/ value = NULL /\ SetNull(section, variable)
    /\ UNCHANGED <<files, load>>

(* config_reset, and config_delete followed by config_new: the values are  *)
(* freed section by section, then the sections.                            *)
HeldIn(section) == {section.value[j].value : j \in DOMAIN section.value}
Held == UNION {HeldIn(config[i]) : i \in DOMAIN config}

ConfigReset ==
    /\ Idle
    /\ config' = <<>>
    /\ heap' = [a \in Addrs |-> IF a \in Held THEN NULL ELSE heap[a]]
    /\ UNCHANGED <<files, load>>

(* config_new_copy: every variable is set again in a new configuration, a  *)
(* section with no variable is not.  The application goes on with the copy *)
(* and deletes the original; when a set fails the copy is deleted.         *)
NotEmpty == {i \in DOMAIN config : config[i].value # <<>>}

NewCopy ==
    /\ Idle
    /\ \E moved \in [Held -> {a \in Addrs : heap[a] = NULL}] :
           /\ IsInjective(moved)
           /\ heap' = [a \in Addrs |->
                  IF a \in Held THEN NULL
                  ELSE IF \E b \in Held : moved[b] = a
                  THEN heap[CHOOSE b \in Held : moved[b] = a]
                  ELSE heap[a]]
           /\ LET full == KeepAt(config, NotEmpty)
              IN config' = [i \in DOMAIN full |-> [full[i] EXCEPT !.value =
                     [j \in DOMAIN full[i].value |->
                         [full[i].value[j] EXCEPT !.value = moved[@]]]]]
    /\ UNCHANGED <<files, load>>
----------------------------------------------------------------------------
(* What the lines of a file set: the last assignment of a variable in a    *)
(* section, those before the first heading being in the default one.       *)

SectionAt(lines, k) ==
    LET headings == {j \in 1..k : lines[j].kind = "section"}
    IN  IF headings = {} THEN Default ELSE lines[Max(headings)].name

Assigns(lines, k, section, variable) ==
    /\ lines[k].kind = "variable"
    /\ lines[k].name = variable
    /\ SectionAt(lines, k) = section

(* config_load reads the lines before the first one that is broken.        *)
Readable(lines) ==
    {k \in DOMAIN lines : \A j \in 1..k : lines[j] # Broken}

ContentAt(lines, section, variable) ==
    LET K == {k \in Readable(lines) : Assigns(lines, k, section, variable)}
    IN  IF K = {} THEN NULL ELSE lines[Max(K)].value

Content(lines) == [k \in Keys |-> ContentAt(lines, k[1], k[2])]

(* Settings s with those of t on top. *)
Override(s, t) == [k \in Keys |-> IF t[k] = NULL THEN s[k] ELSE t[k]]
----------------------------------------------------------------------------
(* config_load, one line at a time.                                        *)

OpenedWithin(path, paths, over) ==
    [section |-> IF load = NULL THEN Default ELSE load.section,
     rest |-> files[path], paths |-> paths, read |-> <<>>, over |-> over]
Opened(path, paths, over) ==
    [section |-> Default, rest |-> files[path], paths |-> paths,
     read |-> <<>>, over |-> over]

(* config_load, config_load_preferences_system and _user                   *)
LoadFile(path) ==
    /\ Idle
    /\ files[path] # NULL
    /\ load' = Opened(path, <<>>, settings)
    /\ UNCHANGED <<config, heap, files>>

(* config_load_preferences: a file that does not exist is passed over.     *)
LoadPreferences ==
    /\ Idle
    /\ load' = CASE files[System] # NULL -> Opened(System, <<User>>, settings)
                 [] files[System] = NULL /\ files[User] # NULL ->
                        Opened(User, <<>>, settings)
                 [] OTHER -> NULL
    /\ UNCHANGED <<config, heap, files>>

Line == Head(load.rest)
NextLine == [load EXCEPT !.rest = Tail(@), !.read = Append(@, Line)]
Reading(kind) == load # NULL /\ load.rest # <<>> /\ Line.kind = kind

LoadComment ==
    /\ Reading("comment")
    /\ load' = NextLine
    /\ UNCHANGED <<config, heap, files>>

LoadSection ==
    /\ Reading("section")
    /\ load' = [NextLine EXCEPT !.section = Line.name]
    /\ UNCHANGED <<config, heap, files>>

LoadVariable ==
    /\ Reading("variable")
    /\ SetValue(load.section, Line.name, Line.value)
    /\ load' = NextLine
    /\ UNCHANGED files

(* A syntax error, or an allocation that fails: what was read before stays.*)
LoadStops ==
    /\ load # NULL /\ load.rest # <<>>
    /\ IF Line.kind = "variable"
       THEN SetFails(load.section, Line.name)
       ELSE UNCHANGED <<config, heap>>
    /\ load' = NULL
    /\ UNCHANGED files

LoadEnds ==
    /\ load # NULL /\ load.rest = <<>>
    /\ load' = IF load.paths # <<>> /\ files[Head(load.paths)] # NULL
               THEN Opened(Head(load.paths), Tail(load.paths),
                           Override(load.over, Content(load.read)))
               ELSE NULL
    /\ UNCHANGED <<config, heap, files>>
----------------------------------------------------------------------------
(* config_save: the variables of the default section first, then the other *)
(* sections, each after its heading.  It goes through all the sections     *)
(* twice, and Written is what one time adds to the lines before.           *)

SectionLines(entry) ==
    [j \in DOMAIN entry.value |->
        Assignment(entry.value[j].name, heap[entry.value[j].value])]

Saved(entry) == <<Heading(entry.name)>> \o SectionLines(entry)

IsDefault(entry) == entry.name = Default

Written(before, parts) ==
    LET after[i \in 0..Len(config)] ==
            IF i = 0 THEN before ELSE after[i - 1] \o parts[i]
    IN  after[Len(config)]

DefaultLines ==
    [i \in DOMAIN config |-> IF IsDefault(config[i]) THEN SectionLines(config[i]) ELSE <<>>]
OtherLines ==
    [i \in DOMAIN config |-> IF IsDefault(config[i]) THEN <<>> ELSE Saved(config[i])]

SavedLinesInOrder ==
    Written(<<>>, [i \in DOMAIN config |->
        IF IsDefault(config[i]) THEN SectionLines(config[i]) ELSE Saved(config[i])])
SavedLines == Written(Written(<<>>, DefaultLines), OtherLines)

(* What a file holds when only its first characters reached the disk: some *)
(* lines, then part of one.  That of an assignment may end in its value,   *)
(* here for the empty one; any other is a syntax error.                    *)
Cuts(lines) ==
    {SubSeq(lines, 1, n) : n \in 0..Len(lines)}
    \cup {Append(SubSeq(lines, 1, n - 1), Broken) : n \in DOMAIN lines}
    \cup {Append(SubSeq(lines, 1, n - 1), Assignment(lines[n].name, Empty)) :
              n \in {m \in DOMAIN lines : lines[m].kind = "variable"}}

ConfigSave(path) ==
    /\ Idle
    /\ files' = [files EXCEPT ![path] = SavedLines]
    /\ UNCHANGED <<config, heap, load>>

(* A write fails: fopen() has emptied the file, part of it is written.     *)
SaveFails(path) ==
    /\ Idle
    /\ \E lines \in Cuts(SavedLines) : files' = [files EXCEPT ![path] = lines]
    /\ UNCHANGED <<config, heap, load>>

(* The program ends, in the middle of a save or not, and starts again.     *)
Restart ==
    /\ config' = <<>>
    /\ heap' = [a \in Addrs |-> NULL]
    /\ load' = NULL

Crash == Restart /\ UNCHANGED files

CrashInSave(path) ==
    /\ Idle
    /\ \E lines \in Cuts(SavedLines) : files' = [files EXCEPT ![path] = lines]
    /\ Restart

Next ==
    \/ \E section \in Sections, variable \in Variables, value \in Strings \cup {NULL} :
           ConfigSet(section, variable, value)
    \/ ConfigReset
    \/ NewCopy
    \/ \E path \in Paths :
           LoadFile(path) \/ ConfigSave(path) \/ SaveFails(path) \/ CrashInSave(path)
    \/ LoadPreferences
    \/ LoadComment \/ LoadSection \/ LoadVariable \/ LoadStops \/ LoadEnds
    \/ Crash

Spec == Init /\ [][Next]_vars
----------------------------------------------------------------------------
(* Every value in memory is that of one variable, whatever fails half-way: *)
(* config_set leaks no string, and frees none that is still in use.        *)
ValuesOwned ==
    /\ {a \in Addrs : heap[a] # NULL} = Held
    /\ \A i, j \in DOMAIN config :
           \A k \in DOMAIN config[i].value, l \in DOMAIN config[j].value :
               config[i].value[k].value = config[j].value[l].value => i = j /\ k = l

(* While files are loaded, the configuration is what it was before with    *)
(* the lines read so far on top, a later file over an earlier one, and the *)
(* last assignment of a variable winning.                                  *)
LoadMerges ==
    load # NULL => settings = Override(load.over, Content(load.read))

(* The settings of a configuration and of its files, as SettingsSpec has   *)
(* them.                                                                   *)
disk == [path \in Paths |-> IF files[path] = NULL THEN NULL ELSE Content(files[path])]

Store == INSTANCE SettingsSpec

(* Whatever fails, one setting at a time changes, a saved file gives back  *)
(* the settings it was saved from, and one that was cut short gives back   *)
(* none that was not there.                                                *)
IsStore == Store!Spec
=============================================================================
