----------------------------- MODULE ConfigText -----------------------------
(***************************************************************************)
(* The characters of the files of src/src/config.c: config_load reads them *)
(* one by one, config_save writes them.  Config takes a file for a         *)
(* sequence of lines; this module shows what that rests on.                *)
(*                                                                         *)
(* A string is a sequence of characters.  Beside some definitions stands a *)
(* variant with a slip in it, which no behaviour uses.                     *)
(***************************************************************************)
EXTENDS Dictionary

CONSTANTS
    Letters,  \* the characters that mean nothing to config.c
    Texts,    \* the files there may be at first
    Made      \* the configurations that an application has made

Chars == Letters \cup {"[", "]", "#", "=", "EOL", "NUL"}
Printable(c) == c \notin {"EOL", "NUL"}
Default == <<>>

(* The dictionaries of a configuration: no name is there twice.            *)
Distinct(d) == \A i, j \in DOMAIN d : d[i].name = d[j].name => i = j
Sections == {d \in Seq([name : Seq(Chars), value : Seq(Chars)]) : Distinct(d)}
Configs == {c \in Seq([name : Seq(Chars), value : Sections]) : Distinct(c)}

ASSUME TextAssumption == Texts \subseteq Seq(Chars) /\ Made \subseteq Configs
ASSUME NullAssumption == NULL \notin Seq(Chars) /\ NULL \notin Sections

VARIABLES
    file,    \* the characters of the file, NULL when there is none
    config,  \* the dictionary of sections
    reader,  \* the locals of config_load, NULL when it is not running
    status,  \* whether the load of the file as it is was done, or failed
    saved    \* history: the configuration that the file was saved with

vars == <<file, config, reader, status, saved>>

(* A reader has a mode (line, comment, section, variable or value), the    *)
(* rest of the file, the word it is in, the section and the variable.      *)
Init ==
    /\ \/ file \in Texts /\ config = <<>>
       \/ file = NULL /\ config \in Made
    /\ reader = NULL
    /\ status = "none"
    /\ saved = NULL

(* The settings of a configuration: <<section, variable, value>>.          *)
Entries(d) == {<<d[k].name, d[k].value>> : k \in DOMAIN d}
SettingsOf(c) ==
    UNION {{<<e[1], v[1], v[2]>> : v \in Entries(e[2])} : e \in Entries(c)}
Pairs == SettingsOf(config)
----------------------------------------------------------------------------
(* config_load                                                             *)

Load ==
    /\ reader = NULL /\ file # NULL
    /\ config' = <<>>
    /\ reader' = [mode |-> "line", rest |-> file, word |-> <<>>,
                  section |-> Default, variable |-> <<>>]
    /\ status' = "none"
    /\ UNCHANGED <<file, saved>>

Char == Head(reader.rest)
At(mode) == reader # NULL /\ reader.mode = mode /\ reader.rest # <<>>

(* The character is taken, and leads to another mode or to another word.   *)
Enter(mode, word) ==
    /\ reader' = [reader EXCEPT !.mode = mode, !.word = word, !.rest = Tail(@)]
    /\ UNCHANGED <<file, config, status, saved>>
More == Enter(reader.mode, Append(reader.word, Char))
Stop(result) ==
    /\ reader' = NULL
    /\ status' = result
    /\ UNCHANGED <<file, saved>>
Fail == Stop("failed") /\ UNCHANGED config

(* config_set *)
WithSetting(section, variable, value) ==
    Put(config, section,
        Put(IF section \in NamesOf(config) THEN Lookup(config, section) ELSE <<>>,
            variable, value))

AtLine ==
    /\ At("line")
    /\ \/ Char = "#" /\ Enter("comment", <<>>)
       \/ Char = "[" /\ Enter("section", <<>>)
       \/ Char = "EOL" /\ Enter("line", <<>>)
       \/ Char = "NUL" /\ Fail
       \/ Printable(Char) /\ Char \notin {"#", "["} /\ Enter("variable", <<Char>>)

InComment ==
    /\ At("comment")
    /\ Enter(IF Char = "EOL" THEN "line" ELSE "comment", <<>>)

(* _load_section; what follows the ']' starts a line.                      *)
InSectionAnything ==
    /\ At("section")
    /\ IF Char = "]"
       THEN /\ reader' = [reader EXCEPT !.mode = "line", !.word = <<>>,
                                        !.section = reader.word, !.rest = Tail(@)]
            /\ UNCHANGED <<file, config, status, saved>>
       ELSE More
InSection ==
    /\ At("section")
    /\ \/ /\ Char = "]"
          /\ reader' = [reader EXCEPT !.mode = "line", !.word = <<>>,
                                      !.section = reader.word, !.rest = Tail(@)]
          /\ UNCHANGED <<file, config, status, saved>>
       \/ Char # "]" /\ Printable(Char) /\ More
       \/ ~Printable(Char) /\ Fail

(* _load_variable, whose first character may be any, a '=' included.       *)
InVariable ==
    /\ At("variable")
    /\ \/ /\ Char = "="
          /\ reader' = [reader EXCEPT !.mode = "value", !.word = <<>>,
                                      !.variable = reader.word, !.rest = Tail(@)]
          /\ UNCHANGED <<file, config, status, saved>>
       \/ Char # "=" /\ Printable(Char) /\ More
       \/ ~Printable(Char) /\ Fail

(* _load_value, and the config_set that follows                            *)
InValue ==
    /\ At("value")
    /\ \/ /\ Char = "EOL"
          /\ config' = WithSetting(reader.section, reader.variable, reader.word)
          /\ reader' = [reader EXCEPT !.mode = "line", !.word = <<>>, !.rest = Tail(@)]
          /\ UNCHANGED <<file, status, saved>>
       \/ Printable(Char) /\ More
       \/ Char = "NUL" /\ Fail

AtEndLenient ==
    /\ reader # NULL /\ reader.rest = <<>>
    /\ \/ reader.mode \in {"line", "comment"} /\ Stop("done") /\ UNCHANGED config
       \/ reader.mode = "section" /\ Fail
       \/ /\ reader.mode = "variable"
          /\ config' = WithSetting(reader.section, reader.word, <<>>)
          /\ Stop("done")
       \/ /\ reader.mode = "value"
          /\ config' = WithSetting(reader.section, reader.variable, reader.word)
          /\ Stop("done")
AtEnd ==
    /\ reader # NULL /\ reader.rest = <<>>
    /\ \/ reader.mode \in {"line", "comment"} /\ Stop("done") /\ UNCHANGED config
       \/ reader.mode \in {"section", "variable"} /\ Fail
       \/ /\ reader.mode = "value"
          /\ config' = WithSetting(reader.section, reader.variable, reader.word)
          /\ Stop("done")
----------------------------------------------------------------------------
(* config_save: sep is empty until something has been written.             *)
Separated(text) == IF text = <<>> THEN text ELSE Append(text, "EOL")

(* _save_foreach_section *)
VariableText(text, entry) ==
    Append(Separated(text) \o entry.name, "=") \o entry.value
SectionText(text, variables) ==
    LET Written[n \in 0..Len(variables)] ==
            IF n = 0 THEN text ELSE VariableText(Written[n - 1], variables[n])
    IN  Written[Len(variables)]

HeaderRunOn(text, name) == Append(Append(text, "[") \o name, "]")
Header(text, name) ==
    Append(Append(Separated(Separated(text)), "[") \o name, "]")

(* _save_foreach_default, and then _save_foreach for the others.           *)
EntryText(text, entry, default) ==
    IF (entry.name = Default) # default THEN text
    ELSE SectionText(IF default THEN text ELSE Header(text, entry.name), entry.value)
PassText(text, default) ==
    LET Written[n \in 0..Len(config)] ==
            IF n = 0 THEN text ELSE EntryText(Written[n - 1], config[n], default)
    IN  Written[Len(config)]

SavedText == Separated(PassText(PassText(<<>>, TRUE), FALSE))

(* Saves the first n characters; less than all of them when the program is *)
(* stopped or the disk is full.                                            *)
Save(n) ==
    /\ reader = NULL
    /\ file' = SubSeq(SavedText, 1, n)
    /\ saved' = [whole |-> n = Len(SavedText), config |-> config]
    /\ status' = "none"
    /\ UNCHANGED <<config, reader>>

Next ==
    \/ Load
    \/ AtLine \/ InComment \/ InSection \/ InVariable \/ InValue \/ AtEnd
    \/ \E n \in 0..Len(SavedText) : Save(n)

Spec == Init /\ [][Next]_vars
----------------------------------------------------------------------------
(* The configurations that a file can hold: config_set takes any others as *)
(* well.  Sections that are empty are written too, by their names.         *)
Holds(word, c) == c \in {word[k] : k \in DOMAIN word}
Clean(word) == ~Holds(word, "EOL") /\ ~Holds(word, "NUL")
CleanSection(word) == Clean(word) /\ ~Holds(word, "]")
CleanVariable(word) ==
    /\ Clean(word)
    /\ word # <<>> /\ Head(word) \notin {"[", "#"} /\ ~Holds(Tail(word), "=")
Writable(c) ==
    /\ \A name \in NamesOf(c) : CleanSection(name)
    /\ \A p \in SettingsOf(c) : CleanVariable(p[2]) /\ Clean(p[3])

Read == reader # NULL \/ status # "none"

(* Whatever the characters of a file, config_load takes from it only what  *)
(* config_save can write.                                                  *)
LoadedIsWritable == Read => Writable(config)

(* What config_save wrote, config_load accepts and gives back.             *)
RoundTrip ==
    saved # NULL /\ Writable(saved.config) /\ saved.whole =>
        /\ status # "failed"
        /\ status = "done" => Pairs = SettingsOf(saved.config)

(* When only its first characters were written, what is read of the file   *)
(* are settings that were saved, with at most one value cut short.         *)
CutShort ==
    saved # NULL /\ Writable(saved.config) /\ Read =>
        /\ \A p \in Pairs : \E q \in SettingsOf(saved.config) :
               p[1] = q[1] /\ p[2] = q[2] /\ IsPrefix(p[3], q[3])
        /\ Cardinality(Pairs \ SettingsOf(saved.config)) <= 1
=============================================================================
