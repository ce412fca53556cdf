----------------------------- MODULE Preferences -----------------------------
(***************************************************************************)
(* The preferences of src/src/config.c: where config_load_preferences, its *)
(* two halves and config_save_preferences_user look for a file and put it, *)
(* and what they return.  Several processes of one user run them on one    *)
(* disk, whose directories the save makes, one system call after another.  *)
(*                                                                         *)
(* config_load and config_save are a step each here: Config and Configctl  *)
(* take them apart.  A string is the sequence of what is between its       *)
(* slashes: "v/w" is <<"v", "w">>, and "" is <<"">>.  That of a path       *)
(* leaves out what is before the first slash.                              *)
(*                                                                         *)
(* Beside some definitions stands a variant with a slip in it.  No         *)
(* behaviour uses a variant: each is there to put in the place of the      *)
(* definition below it and see a property fail.                            *)
(***************************************************************************)
EXTENDS Integers, SequencesExt

CONSTANTS
    Processes,
    Names,          \* what is between slashes: of directories and files, "", "."
    Homes,          \* what HOME may hold, None when it is not set
    Sysconfdir,
    Hidden,         \* the names that start with a dot
    Dotted,         \* those that start with two
    Vendors, Packages, Filenames,
    InitialFiles,   \* the files there may be at first
    Saved, Torn,    \* what a file holds; one not all written, or wrong
    MaxCalls, MaxFaults, \* bounds: calls, faults of the machine
    None            \* the pointer NULL

(* The locals of a call: next is the half it is in, at the last slash of   *)
(* its path where a directory was made.                                    *)
First == [save |-> "user", user |-> "user", system |-> "system", preferences |-> "system"]
Calls == [op : DOMAIN First, vendor : Vendors, package : Packages, filename : Filenames,
          content : Saved \cup {None}, next : {"user", "system"},
          path : Seq(Names) \cup {None}, at : Nat]

ASSUME PreferencesAssumption ==
    /\ {"", "..", ".config"} \subseteq Names /\ Sysconfdir \in Seq(Names)
    /\ Homes \cup Vendors \cup Packages \cup Filenames \subseteq Seq(Names) \cup {None}
    /\ None \notin Seq(Names) \cup Calls
    /\ ".config" \in Hidden /\ ".." \in Dotted /\ None \notin Saved /\ Torn \notin Saved
    /\ MaxCalls \in Nat /\ MaxFaults \in Nat

VARIABLES
    home,       \* getenv("HOME")
    dirs,       \* the directories, by what they are called from the root
    files,      \* the files -> what they hold
    errno,      \* process -> errno, "OK" for 0
    calls,      \* process -> the call it is in, or None
    got,        \* process -> what its last call has loaded, in order
    outcome,    \* process -> what its last call has returned
    short,      \* history: who has lost the start of a path to load
    faulty,     \* history: whose last call met a fault of the machine
    started, faults \* for the bounds

disk == <<home, dirs, files>>
preferencesVars == <<disk, errno, calls, got, outcome, short, faulty, started, faults>>
----------------------------------------------------------------------------
(* The disk.  Names are looked up one by one, from the root: ".." goes up. *)

NotEmpty(path) ==
    LET names[k \in 0..Len(path)] ==
            IF k = 0 THEN <<>>
            ELSE IF path[k] = "" THEN names[k - 1] ELSE Append(names[k - 1], path[k])
    IN  names[Len(path)]
Resolved(names) ==
    IF ".." \notin ToSet(names) THEN names
    ELSE FoldLeft(LAMBDA place, name : IF name # ".." THEN Append(place, name)
                                       ELSE IF place = <<>> THEN <<>> ELSE Front(place),
                  <<>>, names)
Place(path) == Resolved(NotEmpty(path))

(* The directories passed on the way to the last name.                     *)
Way(path) == LET names == NotEmpty(path)
             IN  [k \in 1..(Len(names) - 1) |-> Resolved(SubSeq(names, 1, k))]
Stops(path) == {k \in DOMAIN Way(path) : Way(path)[k] \notin dirs}

(* What stops a lookup: on the way, or one of some places that is there.   *)
Lookup(path, places, code) ==
    IF Stops(path) # {}
    THEN IF Way(path)[CHOOSE k \in Stops(path) : \A l \in Stops(path) : k <= l] \in DOMAIN files
         THEN "ENOTDIR" ELSE "ENOENT"
    ELSE IF Place(path) \in places THEN code ELSE "OK"
There(path) == {Place(path)} \cap (dirs \cup DOMAIN files)

PreferencesInit ==
    /\ home \in Homes /\ files \in InitialFiles
    /\ dirs = {<<>>} \cup UNION {{SubSeq(Place(f), 1, k) : k \in 0..Len(Place(f))} :
                                    f \in {Sysconfdir} \cup (Homes \ {None})}
                    \cup UNION {{SubSeq(f, 1, k) : k \in 0..(Len(f) - 1)} : f \in DOMAIN files}
    /\ errno = [p \in Processes |-> "OK"]
    /\ calls = [p \in Processes |-> None] /\ got = [p \in Processes |-> <<>>]
    /\ outcome = [p \in Processes |-> None]
    /\ short = {} /\ faulty = {} /\ started = 0 /\ faults = 0
----------------------------------------------------------------------------
(* Names and paths.                                                        *)

OrEmpty(name) == IF name = None THEN <<"">> ELSE name
OrNone(name) == IF name = None THEN <<>> ELSE name

(* A name that the functions that load refuse: one that begins with "../", *)
(* or has "/.." in it, whatever follows.                                   *)
Refused(name) ==
    /\ name # None
    /\ \/ Head(name) = ".." /\ Len(name) > 1
       \/ \E k \in 2..Len(name) : name[k] \in Dotted

LoadPath(call) == OrEmpty(call.vendor) \o OrEmpty(call.package) \o call.filename
SavePath(call) ==
    <<".config">> \o OrNone(call.vendor) \o OrNone(call.package) \o call.filename

(* string_new_append: the first allocation to fail gives NULL, unless it   *)
(* is that of the first string, which is left out.                         *)
Appends(first, rest) ==
    {[path |-> first \o rest, fault |-> "no"]}
    \cup (IF faults = MaxFaults THEN {}
          ELSE {[path |-> rest, fault |-> "first"], [path |-> None, fault |-> "other"]})

Return(p, code) ==
    calls' = [calls EXCEPT ![p] = None] /\ outcome' = [outcome EXCEPT ![p] = code]
Errno(p, code) == errno' = [errno EXCEPT ![p] = code]
Fault(p) == faults < MaxFaults /\ faults' = faults + 1 /\ faulty' = faulty \cup {p}
NoFault == UNCHANGED <<faults, faulty>>

(* What the allocations of a path leave.                                   *)
Allocated(p, fault) == IF fault = "no" THEN NoFault ELSE Fault(p)
AllocErrno(p, fault) == IF fault = "no" THEN errno[p] ELSE "ENOMEM"

(* The program calls one of the functions.                                 *)
Call(p) ==
    /\ calls[p] = None /\ started < MaxCalls /\ started' = started + 1
    /\ \E op \in DOMAIN First, vendor \in Vendors, package \in Packages, filename \in Filenames :
        \E content \in IF op = "save" THEN Saved ELSE {None} :
            calls' = [calls EXCEPT ![p] =
                [op |-> op, vendor |-> vendor, package |-> package, filename |-> filename,
                 content |-> content, next |-> First[op], path |-> None, at |-> 0]]
    /\ got' = [got EXCEPT ![p] = <<>>]
    /\ short' = short \ {p} /\ faulty' = faulty \ {p}
    /\ UNCHANGED <<disk, errno, outcome, faults>>
----------------------------------------------------------------------------
(* config_save_preferences_user                                            *)

Saving(p) == calls[p] # None /\ calls[p].op = "save"

SaveRefused(p) ==
    /\ Saving(p) /\ calls[p].path = None
    /\ \/ calls[p].filename = None /\ Return(p, "EINVAL")
       \/ calls[p].filename # None /\ home = None /\ Return(p, errno[p])
    /\ UNCHANGED <<disk, errno, got, short, faulty, started, faults>>

SavePathMade(p) ==
    /\ Saving(p) /\ calls[p].path = None /\ calls[p].filename # None /\ home # None
    /\ \E a \in Appends(home, SavePath(calls[p])) :
        /\ Allocated(p, a.fault) /\ Errno(p, AllocErrno(p, a.fault))
        /\ IF a.path = None THEN Return(p, "ENOMEM")
           ELSE calls' = [calls EXCEPT ![p].path = a.path] /\ UNCHANGED outcome
    /\ UNCHANGED <<disk, got, short, started>>

(* _save_preferences_user_mkdir: at each slash, but those at the start.    *)
Lead(path) == CHOOSE k \in DOMAIN path : path[k] # "" /\ \A l \in 1..(k - 1) : path[l] = ""
NextSlash(p) == IF calls[p].at = 0 THEN Lead(calls[p].path) ELSE calls[p].at + 1
Made(p) == Saving(p) /\ calls[p].path # None
ToleratedNone(code) == code = "OK"
Tolerated(code) == code \in {"OK", "EEXIST"}

MakeDirectory(p) ==
    /\ Made(p) /\ NextSlash(p) < Len(calls[p].path)
    /\ LET path == calls[p].path
           dir == SubSeq(path, 1, NextSlash(p))
           code == Lookup(dir, There(dir), "EEXIST")
       IN  IF path[Lead(path)] \in Hidden
           THEN Return(p, "EPERM") /\ NoFault /\ UNCHANGED <<disk, errno>>
           ELSE \/ /\ Errno(p, IF code = "OK" THEN errno[p] ELSE code) /\ NoFault
                   /\ dirs' = IF code = "OK" THEN dirs \cup {Place(dir)} ELSE dirs
                   /\ IF Tolerated(code)
                      THEN calls' = [calls EXCEPT ![p].at = NextSlash(p)] /\ UNCHANGED outcome
                      ELSE Return(p, code)
                   /\ UNCHANGED <<home, files>>
                \/ /\ code = "OK" /\ Fault(p) /\ Errno(p, "ENOSPC") /\ Return(p, "ENOSPC")
                   /\ UNCHANGED disk
    /\ UNCHANGED <<got, short, started>>

(* config_save                                                             *)
With(place, content) ==
    [f \in DOMAIN files \cup {place} |-> IF f = place THEN content ELSE files[f]]
SaveFile(p) ==
    /\ Made(p) /\ NextSlash(p) = Len(calls[p].path)
    /\ LET path == calls[p].path
           code == Lookup(path, dirs, "EISDIR")
       IN  IF code # "OK" THEN Errno(p, code) /\ Return(p, code) /\ NoFault /\ UNCHANGED files
           ELSE \/ /\ files' = With(Place(path), calls[p].content)
                   /\ Return(p, "OK") /\ NoFault /\ UNCHANGED errno
                \/ /\ files' \in {files, With(Place(path), Torn)}
                   /\ Fault(p) /\ Errno(p, "ENOSPC") /\ Return(p, "ENOSPC")
    /\ UNCHANGED <<home, dirs, got, short, started>>
----------------------------------------------------------------------------
(* The functions that load.                                                *)

Loading(p) == calls[p] # None /\ calls[p].op # "save"

(* config_load_preferences goes on to the user's, or ends, or not.         *)
Forgiven(level) == IF level = "system" THEN {"OK", "ENOENT", "EPERM"} ELSE {"OK", "ENOENT"}
LevelEnds(p, code) ==
    LET level == calls[p].next
    IN  IF calls[p].op # "preferences" THEN Return(p, code)
        ELSE IF code \notin Forgiven(level) THEN Return(p, code)
        ELSE IF level = "user" THEN Return(p, "OK")
        ELSE calls' = [calls EXCEPT ![p].next = "user"] /\ UNCHANGED outcome

(* No file is looked for: a check fails, or HOME is not set, for which     *)
(* errno is returned, whatever it is.                                      *)
Checked(call) ==
    IF call.filename = None THEN "EINVAL"
    ELSE IF \/ Refused(call.vendor) \/ Refused(call.package)
            \/ call.next = "user" /\ Len(call.filename) > 1
         THEN "EPERM" ELSE "OK"
Homeless(call) == call.next = "user" /\ home = None

LoadRefused(p) ==
    /\ Loading(p)
    /\ LET code == Checked(calls[p])
       IN  \/ code # "OK" /\ LevelEnds(p, code)
           \/ code = "OK" /\ Homeless(calls[p]) /\ LevelEnds(p, errno[p])
    /\ UNCHANGED <<disk, errno, got, short, faulty, started, faults>>

(* config_load: a directory opens like a file, and has nothing in it.      *)
Top(call) == IF call.next = "system" THEN Sysconfdir ELSE home
Rest(call) == (IF call.next = "system" THEN <<>> ELSE <<".config">>) \o LoadPath(call)
LoadFile(p) ==
    /\ Loading(p) /\ Checked(calls[p]) = "OK" /\ ~Homeless(calls[p])
    /\ \E a \in Appends(Top(calls[p]), Rest(calls[p])) :
        /\ Allocated(p, a.fault)
        /\ short' = IF a.fault = "first" THEN short \cup {p} ELSE short
        /\ IF a.path = None
           THEN LevelEnds(p, "ENOMEM") /\ Errno(p, "ENOMEM") /\ UNCHANGED got
           ELSE IF There(a.path) = {} \/ Stops(a.path) # {}
           THEN LET code == Lookup(a.path, {Place(a.path)}, "ENOENT")
                IN  LevelEnds(p, code) /\ Errno(p, code) /\ UNCHANGED got
           ELSE IF Place(a.path) \in dirs
           THEN LevelEnds(p, "OK") /\ Errno(p, "EISDIR") /\ UNCHANGED got
           ELSE LET found == files[Place(a.path)]
                IN  /\ got' = [got EXCEPT ![p] = Append(@, found)]
                    /\ Errno(p, AllocErrno(p, a.fault))
                    /\ \E code \in {"OK"} \cup (IF found = Torn THEN {"syntax"} ELSE {}) :
                           LevelEnds(p, code)
    /\ UNCHANGED <<disk, started>>

PreferencesNext == \E p \in Processes :
    \/ Call(p)
    \/ SaveRefused(p) \/ SavePathMade(p) \/ MakeDirectory(p) \/ SaveFile(p)
    \/ LoadRefused(p) \/ LoadFile(p)

PreferencesBehaviour == PreferencesInit /\ [][PreferencesNext]_preferencesVars
----------------------------------------------------------------------------
(* What was asked for by which names is kept under these names, whichever  *)
(* way the path was composed, the directories made and others have saved.  *)
NamesOf(call) == IF call.filename = None THEN None ELSE NotEmpty(LoadPath(call))
RefusedAt(call) ==
    IF Refused(call.vendor) \/ Refused(call.package) THEN {"system", "user"}
    ELSE IF call.filename # None /\ Len(call.filename) > 1 THEN {"user"} ELSE {}
AllNames == {NotEmpty(OrNone(v) \o OrNone(k) \o f) :
                 v \in Vendors, k \in Packages, f \in Filenames \ {None}}
Tops == {Sysconfdir} \cup {Append(h, ".config") : h \in Homes \ {None}}
Places == [top \in Tops |-> [names \in AllNames |-> Place(top \o names)]]
Kept(top) == [names \in AllNames |->
                 IF top # None /\ Places[top][names] \in DOMAIN files
                 THEN files[Places[top][names]] ELSE None]
Promise == INSTANCE PreferencesSpec WITH
    NULL <- None,
    kept <- [system |-> Kept(Sysconfdir),
             user |-> Kept(IF home = None THEN None ELSE Append(home, ".config"))],
    home <- (home # None),
    calls <- [p \in Processes |-> IF calls[p] = None THEN None
                 ELSE [op |-> calls[p].op, names |-> NamesOf(calls[p]),
                       refused |-> RefusedAt(calls[p]),
                       content |-> calls[p].content, next |-> calls[p].next]]


(* Saves do not disturb one another: one that fails has met a fault of the *)
(* machine, has no home to save to or one whose first name is hidden, or a *)
(* name is a directory's for one and a file's for another.                 *)
Clash(path) ==
    \/ Place(path) \in dirs
    \/ \E k \in DOMAIN Way(path) : Way(path)[k] \in DOMAIN files
SavesSucceed ==
    [][\A p \in Processes :
        Saving(p) /\ calls'[p] = None /\ outcome'[p] # "OK" =>
            \/ p \in faulty' \/ calls[p].filename = None
            \/ home = None \/ Head(NotEmpty(Append(home, ".config"))) \in Hidden
            \/ Clash(home \o SavePath(calls[p]))]_preferencesVars
=============================================================================
