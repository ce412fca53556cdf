-------------------------- MODULE PreferencesSpec --------------------------
(* The preferences of config.h as the users of it think of them: those of  *)
(* the system, which do not change, and those of the user, by the names    *)
(* they are saved and loaded with.                                         *)
EXTENDS Naturals, Sequences

CONSTANTS Processes, Torn, NULL

VARIABLES
    kept,   \* level -> names -> what is kept there, or NULL
    home,   \* the user has a home
    calls,  \* process -> the call under way, or NULL
    got,    \* process -> what its last call has loaded, in order
    outcome,\* process -> what its last call has returned
    errno,  \* process -> the error that an earlier function has left, or "OK"
    faulty, \* the processes whose call met a fault of the machine
    short   \* those for whom it was the start of a path that got lost

vars == <<kept, home, calls, got, outcome, errno, faulty, short>>

Init ==
    /\ home \in BOOLEAN
    /\ calls = [p \in Processes |-> NULL]
    /\ got = [p \in Processes |-> <<>>]
    /\ outcome = [p \in Processes |-> NULL]
    /\ errno = [p \in Processes |-> "OK"]
    /\ faulty = {} /\ short = {}

(* What p does is not seen by the others.                                  *)
OwnStep(p) == \A q \in Processes \ {p} :
    /\ calls'[q] = calls[q] /\ got'[q] = got[q] /\ outcome'[q] = outcome[q]
    /\ errno'[q] = errno[q]
    /\ (q \in short') = (q \in short) /\ (q \in faulty') = (q \in faulty)

Call(p) ==
    /\ calls[p] = NULL /\ calls'[p] # NULL
    /\ got'[p] = <<>> /\ p \notin short' /\ p \notin faulty'
    /\ UNCHANGED <<kept, outcome, errno>>

Return(p) == calls[p] # NULL /\ calls'[p] = NULL
Saving(p) == calls[p] # NULL /\ calls[p].op = "save"
Loading(p) == calls[p] # NULL /\ calls[p].op # "save"

(* A save at work on its way to the file.                                  *)
Work(p) == Saving(p) /\ UNCHANGED <<kept, calls, got, outcome>>

(* With a home, a save that returns 0 has saved, and nothing but that has  *)
(* changed.  Without one it saves nothing, and returns what errno was.     *)
Save(p) ==
    /\ Saving(p) /\ Return(p) /\ outcome'[p] = "OK"
    /\ home
    /\ kept' = [kept EXCEPT !["user"][calls[p].names] = calls[p].content]
    /\ UNCHANGED got
SaveNowhere(p) ==
    /\ Saving(p) /\ Return(p)
    /\ ~home /\ calls[p].names # NULL /\ outcome'[p] = errno[p]
    /\ UNCHANGED <<kept, got, errno>>

SaveFails(p) ==
    /\ Saving(p) /\ Return(p) /\ outcome'[p] # "OK"
    /\ home \/ calls[p].names = NULL
    /\ \/ UNCHANGED kept
       \/ kept' = [kept EXCEPT !["user"][calls[p].names] = Torn]
    /\ UNCHANGED got

(* What a level that is loaded gives.  Nothing, when it refuses the names, *)
(* when there is no home, for which it returns what errno was, when        *)
(* nothing is kept there, or when memory runs out; and else what is kept,  *)
(* with no error but that of a file which is torn.                         *)
Level(p) == calls[p].next
Found(p) == kept[Level(p)][calls[p].names]
Refused(p) == calls[p].names = NULL \/ Level(p) \in calls[p].refused
Homeless(p) == Level(p) = "user" /\ ~home
Missing == {"ENOENT", "ENOTDIR"}

Nothing(p, code) ==
    /\ got'[p] = got[p]
    /\ \/ Refused(p) /\ code \in {"EINVAL", "EPERM"}
       \/ ~Refused(p) /\ Homeless(p) /\ code = errno[p]
       \/ /\ ~Refused(p) /\ ~Homeless(p)
          /\ \/ Found(p) = NULL /\ code \in {"OK"} \cup Missing
             \/ p \in faulty' /\ code = "ENOMEM"
             \/ p \in short' /\ code \in Missing
Something(p, code) ==
    /\ ~Refused(p) /\ ~Homeless(p) /\ Found(p) # NULL
    /\ got'[p] = Append(got[p], Found(p))
    /\ code = "OK" \/ (code = "syntax" /\ Found(p) = Torn)
Gives(p, code) == Nothing(p, code) \/ Something(p, code)

(* A load of one level returns what the level gives.  One of both goes on  *)
(* to the user's if the system's is loaded, missing or refused, and does   *)
(* not mind that the user's is missing.                                    *)
GoesOn == {"OK", "ENOENT", "EPERM"}
LoadSystem(p) ==
    /\ Loading(p) /\ calls[p].op = "preferences" /\ Level(p) = "system"
    /\ \E code \in GoesOn : Gives(p, code)
    /\ calls'[p] = [calls[p] EXCEPT !.next = "user"]
    /\ UNCHANGED <<kept, outcome>>
Load(p) ==
    /\ Loading(p) /\ Return(p)
    /\ calls[p].op # "preferences" => Gives(p, outcome'[p])
    /\ calls[p].op = "preferences" =>
           IF Level(p) = "system" THEN outcome'[p] \notin GoesOn /\ Gives(p, outcome'[p])
           ELSE \/ outcome'[p] # "ENOENT" /\ Gives(p, outcome'[p])
                \/ outcome'[p] = "OK" /\ Gives(p, "ENOENT")
    /\ UNCHANGED kept

Next ==
    /\ UNCHANGED home
    /\ \E p \in Processes :
        /\ OwnStep(p)
        /\ \/ Call(p) \/ Work(p) \/ Save(p) \/ SaveNowhere(p) \/ SaveFails(p)
           \/ LoadSystem(p) \/ Load(p)

Spec == Init /\ [][Next]_vars
=============================================================================
