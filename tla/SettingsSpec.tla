---------------------------- MODULE SettingsSpec ----------------------------
(* Settings and the files they are saved in, as the users of config.h      *)
(* think of them: a value, or none, for every variable of every section.   *)
EXTENDS Naturals

CONSTANTS Sections, Variables, Strings, Empty, Paths, NULL

Keys == Sections \X Variables
Settings == [Keys -> Strings \cup {NULL}]
Nothing == [k \in Keys |-> NULL]

VARIABLES
    settings, \* the value of each variable of each section
    disk      \* the settings in each file, NULL when there is no file

vars == <<settings, disk>>

Init ==
    /\ settings = Nothing
    /\ disk \in [Paths -> Settings \cup {NULL}]

(* A call to config_set, or a line of a file that is loaded. *)
Assign(k, value) ==
    /\ settings' = [settings EXCEPT ![k] = value]
    /\ UNCHANGED disk

(* config_reset, or the end of the program *)
Forget ==
    /\ settings' = Nothing
    /\ UNCHANGED disk

Save(path) ==
    /\ disk' = [disk EXCEPT ![path] = settings]
    /\ UNCHANGED settings

(* A save that does not end leaves some of the settings in the file, one   *)
(* of them cut short.                                                      *)
PartOf(some) ==
    \E cut \in Keys : \A k \in Keys :
        \/ some[k] \in {NULL, settings[k]}
        \/ k = cut /\ settings[k] # NULL /\ some[k] = Empty

SaveCut(path) ==
    /\ \E some \in Settings : PartOf(some) /\ disk' = [disk EXCEPT ![path] = some]
    /\ settings' \in {settings, Nothing}

Next ==
    \/ \E k \in Keys, value \in Strings \cup {NULL} : Assign(k, value)
    \/ Forget
    \/ \E path \in Paths : Save(path) \/ SaveCut(path)

Spec == Init /\ [][Next]_vars
=============================================================================
