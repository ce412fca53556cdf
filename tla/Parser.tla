------------------------------- MODULE Parser -------------------------------
(***************************************************************************)
(* The scanner of src/src/parser.c: characters come from a file or a       *)
(* string, go through a chain of filters, and are given to the callbacks   *)
(* that recognise tokens.  A filter reads ahead past the chain, with       *)
(* parser_scan, and gives back what it read but did not want: it tells how *)
(* many characters it holds, and is called again without a new character   *)
(* until it has given all of them.                                         *)
(*                                                                         *)
(* The filters and the callbacks belong to the application, and are not in *)
(* the repository: external.  A filter here looks for its Pattern, as      *)
(* those of a preprocessor do: found, it is dropped ("\" and a newline) or *)
(* counts for one character (a trigraph); else it is given on unchanged.   *)
(*                                                                         *)
(* A character is told by its position in the source, which shows whether  *)
(* it is lost, repeated or out of place.                                   *)
(*                                                                         *)
(* Beside some definitions stands a variant with a slip in it.  No         *)
(* behaviour uses a variant: each is there to put in the place of the      *)
(* definition below it and see a property fail.                            *)
(***************************************************************************)
EXTENDS Integers, Sequences, FiniteSets

CONSTANTS
    Chars,      \* the characters
    Newline,    \* '\n'
    EOF,        \* what is read at the end
    Sources,    \* what a file or a string may hold
    Beyond,     \* what may lie in memory after a string
    Filters, Callbacks,
    Pattern,    \* what each filter looks for
    Replacing,  \* the filters for which it counts for one character
    MaxCallbacks, MaxPast   \* bounds: callbacks at once, positions past a string

(* What the code needs of the filters, and cannot check.  The character    *)
(* that one gives while it holds others is seen by the rest of the chain:  *)
(* none may read ahead for it, or it would read past those held.  And the  *)
(* line is counted from the last character given, which is therefore not   *)
(* put in the place of a newline.                                          *)
ASSUME ParserAssumption ==
    /\ Newline \in Chars /\ EOF \notin Chars
    /\ Sources \subseteq Seq(Chars) /\ Beyond \subseteq Chars \cup {EOF}
    /\ Pattern \in [Filters -> Seq(Chars)]
    /\ \A f \in Filters :
        /\ Len(Pattern[f]) > 1
        /\ \A i \in 1..(Len(Pattern[f]) - 1) :
            /\ Pattern[f][i] # Newline
            /\ \A g \in Filters \ {f} : Pattern[f][i] # Pattern[g][1]
        /\ f \in Replacing => Pattern[f][Len(Pattern[f])] # Newline
    /\ MaxCallbacks \in Nat /\ MaxPast \in Nat

VARIABLES
    source, kind,       \* the source, "file" or "string"
    beyond,             \* what lies in memory after the string
    pos,                \* characters read, string_pos: the end counts as one
    line, col,          \* where the last character read is
    last,               \* its position, or of the last one given; 0 at first
    lookahead, error,
    filters, callbacks, \* in order
    wrapped,            \* of these two, those whose count went below 0: it is a size_t
    held,               \* filter -> what it has still to give back
    step,               \* "idle", "scan" or "callback": see parser_get_token
    i,                  \* the callback called, 0 for none
    result,             \* of the last parser_get_token
    at,                 \* the filter called by parser_scan_filter, 0 for none
    c,                  \* what it is called with
    read,               \* what it has read ahead, with c before it
    given,              \* history: what parser_scan_filter returned
    dropped,            \* history: what filters dropped
    failed              \* history: a read or a filter has failed

place == <<pos, line, col>>
chain == <<filters, held>>
token == <<step, i, result, callbacks>>
origin == <<source, kind, beyond>>
vars == <<origin, place, last, lookahead, error, chain, token, wrapped, at, c,
          read, given, dropped, failed>>

End == Len(source) + 1
Char(p) == IF p \in 1..Len(source) THEN source[p]
           ELSE IF p > End THEN beyond ELSE EOF

(* What is held in the whole chain: one filter at most holds anything.     *)
Holders == {f \in Filters : held[f] # <<>>}
Held == IF Holders = {} THEN <<>> ELSE held[CHOOSE f \in Holders : TRUE]

TypeOK ==
    /\ source \in Sources /\ kind \in {"file", "string"} /\ beyond \in Chars \cup {EOF}
    /\ {pos, last, c, lookahead, i, at} \subseteq Nat /\ {line, col} \subseteq Nat \ {0}
    /\ error \in BOOLEAN /\ failed \in BOOLEAN
    /\ filters \in Seq(Filters) /\ callbacks \in Seq(Callbacks)
    /\ wrapped \subseteq {"filters", "callbacks"}
    /\ held \in [Filters -> Seq(Nat)] /\ read \in Seq(Nat)
    /\ given \in Seq(Nat) /\ dropped \subseteq Nat
    /\ at \in 0..Len(filters) + 1 /\ i <= MaxCallbacks
    /\ step \in {"idle", "scan", "callback"} /\ result \in {"none", "token", "end", "error"}
    /\ (i > 0) = (step = "callback")

(* parser_new and parser_new_string *)
Init ==
    /\ source \in Sources /\ kind \in {"file", "string"}
    /\ beyond \in IF kind = "file" THEN {EOF} ELSE Beyond
    /\ pos = 0 /\ line = 1 /\ col = 1 /\ last = 0 /\ lookahead = 0 /\ error = FALSE
    /\ filters = <<>> /\ callbacks = <<>> /\ wrapped = {} /\ held = [f \in Filters |-> <<>>]
    /\ step = "idle" /\ i = 0 /\ result = "none"
    /\ at = 0 /\ c = 0 /\ read = <<>>
    /\ given = <<>> /\ dropped = {} /\ failed = FALSE
----------------------------------------------------------------------------
(* The scanners: parser_scan, and parser_scan_filter without lookahead.    *)

MovesStuck ==
    /\ line' = IF Char(last) = Newline THEN line + 1 ELSE line
    /\ col' = IF Char(last) # EOF THEN col + 1 ELSE col
Moves ==
    /\ line' = IF Char(last) = Newline THEN line + 1 ELSE line
    /\ col' = IF Char(last) = Newline THEN 1
              ELSE IF Char(last) # EOF THEN col + 1 ELSE col

(* A file is at its end for ever.  A string is read past its end: what     *)
(* comes then is told apart up to MaxPast.                                 *)
Furthest == IF kind = "file" THEN End ELSE End + MaxPast
NextPos == IF pos < Furthest THEN pos + 1 ELSE pos
Scanned ==
    /\ IF pos > End /\ pos = Furthest THEN UNCHANGED <<line, col>> ELSE Moves
    /\ pos' = NextPos /\ last' = NextPos

(* A read fails.  Failures, here and below, happen once at most: a bound.  *)
Unread == kind = "file" /\ ~failed /\ Moves /\ failed' = TRUE /\ UNCHANGED <<pos, last>>

(* Control is with the application, or with a callback.                    *)
Free == at = 0 /\ step # "scan"
Give(p) == given' = IF p \in 1..Len(source) THEN Append(given, p) ELSE given

(* parser_scan, by the application: it would overtake what is held.        *)
ParserScan ==
    /\ Free /\ lookahead = 0
    /\ \/ Scanned /\ Give(NextPos) /\ UNCHANGED failed
       \/ Unread /\ UNCHANGED given
    /\ UNCHANGED <<origin, wrapped, lookahead, error, chain, token, at, c, read, dropped>>
----------------------------------------------------------------------------
(* parser_scan_filter                                                      *)

Replay == lookahead > 0 /\ lookahead' = lookahead - 1 /\ c' = last
             /\ UNCHANGED <<place, last>>
FreshAnyway == Scanned /\ c' = NextPos /\ UNCHANGED lookahead
Fresh == lookahead = 0 /\ Scanned /\ c' = NextPos /\ UNCHANGED lookahead

(* step "scan": on behalf of parser_get_token.                             *)
ScanFilter ==
    /\ at = 0 /\ (Replay \/ Fresh) /\ at' = 1
    /\ "filters" \notin wrapped
    /\ UNCHANGED <<origin, wrapped, error, chain, token, read, given, dropped, failed>>

(* What parser_get_token does with an EOF where there was an error: the    *)
(* token is deleted.                                                       *)
Interrupted ==
    IF step = "scan"
    THEN step' = "idle" /\ result' = "error" /\ UNCHANGED <<i, callbacks>>
    ELSE UNCHANGED token

ScanFails ==
    /\ at = 0 /\ lookahead = 0 /\ Unread /\ error' = TRUE /\ Interrupted
    /\ UNCHANGED <<origin, wrapped, lookahead, chain, at, c, read, given, dropped>>

(* The filter called, and how far it has come.                             *)
Called == filters[at]
Calling == at \in 1..Len(filters)
Holds == held[Called] # <<>>
Looking == read # <<>>
Matches == Char(read[Len(read)]) = Pattern[Called][Len(read)]
Found == Matches /\ Len(read) = Len(Pattern[Called])

(* It holds something, and gives the next in the place of c.               *)
FilterGives ==
    /\ Calling /\ Holds
    /\ c' = Head(held[Called]) /\ held' = [held EXCEPT ![Called] = Tail(@)] /\ at' = at + 1
    /\ UNCHANGED <<origin, wrapped, place, last, lookahead, error, filters, token, read, given, dropped, failed>>

FilterPasses ==
    /\ Calling /\ ~Holds /\ ~Looking /\ Char(c) # Pattern[Called][1]
    /\ at' = at + 1
    /\ UNCHANGED <<origin, wrapped, place, last, lookahead, error, chain, token, c, read, given, dropped, failed>>

(* It reads one character more.  An error is taken for the end of the      *)
(* file: parser_scan returns EOF and does not set parser->error.           *)
WantsMore ==
    /\ Calling /\ ~Holds
    /\ IF Looking THEN Matches /\ ~Found ELSE Char(c) = Pattern[Called][1]
Reading == IF Looking THEN read ELSE <<c>>
FilterLooks ==
    /\ WantsMore
    /\ \/ Scanned /\ read' = Append(Reading, NextPos) /\ UNCHANGED failed
       \/ Unread /\ read' = Append(Reading, End)
    /\ UNCHANGED <<origin, wrapped, lookahead, error, chain, token, at, c, given, dropped>>

(* The pattern is there: it counts for its first character, or is dropped  *)
(* and the filter goes on with the next one.                               *)
FilterReplaces ==
    /\ Calling /\ Looking /\ Found /\ Called \in Replacing
    /\ c' = read[1] /\ dropped' = dropped \cup {read[k] : k \in 2..Len(read)}
    /\ read' = <<>> /\ at' = at + 1
    /\ UNCHANGED <<origin, wrapped, place, last, lookahead, error, chain, token, given, failed>>

FilterDrops ==
    /\ Calling /\ Looking /\ Found /\ Called \notin Replacing
    /\ \/ Scanned /\ c' = NextPos /\ UNCHANGED failed
       \/ Unread /\ c' = End
    /\ dropped' = dropped \cup {read[k] : k \in 1..Len(read)}
    /\ read' = <<>>
    /\ UNCHANGED <<origin, wrapped, lookahead, error, chain, token, at, given>>

(* It is not: the first character goes on, the others are held.            *)
TellBoth(n) == lookahead' = lookahead + n + 1
Tell(n) == lookahead' = lookahead + n
FilterHolds ==
    /\ Calling /\ Looking /\ ~Matches
    /\ c' = read[1] /\ held' = [held EXCEPT ![Called] = Tail(read)]
    /\ Tell(Len(read) - 1)
    /\ read' = <<>> /\ at' = at + 1
    /\ UNCHANGED <<origin, wrapped, place, last, error, filters, token, given, dropped, failed>>

FilterFails ==
    /\ Calling /\ ~failed /\ error' = TRUE /\ failed' = TRUE
    /\ at' = 0 /\ c' = 0 /\ read' = <<>> /\ Interrupted
    /\ UNCHANGED <<origin, wrapped, place, last, lookahead, chain, given, dropped>>
----------------------------------------------------------------------------
(* parser_get_token.  Its loop ends with the k-th callback, or after all,  *)
(* where the last one returned r and l is the last character.              *)

AfterAll(k) == "callbacks" \notin wrapped /\ k = Len(callbacks) + 1
EndsLoosely(r, k, l) ==
    /\ step' = "idle" /\ i' = 0
    /\ result' = IF r = 0 /\ ~AfterAll(k) THEN "token"
                 ELSE IF r >= 0 THEN "end" ELSE "error"
Ends(r, k, l) ==
    /\ step' = "idle" /\ i' = 0
    /\ result' = IF r = 0 /\ ~AfterAll(k) THEN "token"
                 ELSE IF r >= 0 /\ Char(l) = EOF THEN "end" ELSE "error"
CallFromBeyond(k, r, l) ==
    /\ "callbacks" \notin wrapped
    /\ IF k <= Len(callbacks) + 1
       THEN step' = "callback" /\ i' = k /\ result' = "none"
       ELSE Ends(r, k, l)
CallFrom(k, r, l) ==
    /\ "callbacks" \notin wrapped
    /\ IF k <= Len(callbacks)
       THEN step' = "callback" /\ i' = k /\ result' = "none"
       ELSE Ends(r, k, l)

(* The chain is over: the character is the last, and is returned.          *)
ScanEnds ==
    /\ at = Len(filters) + 1 /\ at' = 0
    /\ last' = c /\ c' = 0 /\ Give(c)
    /\ IF step # "scan" THEN UNCHANGED token
       ELSE IF Char(c) = EOF /\ error THEN Interrupted
       ELSE CallFrom(1, 0, c) /\ UNCHANGED callbacks
    /\ UNCHANGED <<origin, wrapped, place, lookahead, error, chain, read, dropped, failed>>

Idle == step = "idle" /\ at = 0
TokenStarts ==
    /\ Idle
    /\ IF Char(last) = EOF THEN step' = "scan" /\ result' = "none" /\ UNCHANGED i
       ELSE CallFrom(1, 0, last)
    /\ UNCHANGED <<origin, wrapped, place, last, lookahead, error, chain, callbacks, at, c, read, given, dropped, failed>>

(* token_new fails.                                                        *)
TokenFails ==
    /\ Idle /\ result' = "error"
    /\ UNCHANGED <<origin, wrapped, place, last, lookahead, error, chain, step, i, callbacks, at, c, read, given, dropped, failed>>

CallbackReturns ==
    /\ step = "callback" /\ at = 0
    /\ \E r \in {-1, 0, 1} :
        IF r <= 0 THEN Ends(r, i, last) ELSE CallFrom(i + 1, r, last)
    /\ UNCHANGED <<origin, wrapped, place, last, lookahead, error, chain, callbacks, at, c, read, given, dropped, failed>>
----------------------------------------------------------------------------
(* Filters and callbacks are added, by the application or by a callback,   *)
(* and removed: one that is there is refused, for one that is not the last *)
(* is removed.  Of an empty list the count becomes SIZE_MAX, and no        *)
(* function can use the list again.  What is held would be lost with its   *)
(* filter.                                                                 *)

InUse(s) == {s[k] : k \in DOMAIN s}
Removed(s, x) == IF x \in InUse(s) THEN s ELSE SubSeq(s, 1, Len(s) - 1)

AddFilter ==
    /\ Free /\ lookahead = 0 /\ "filters" \notin wrapped
    /\ \E f \in Filters \ InUse(filters) : filters' = Append(filters, f)
    /\ UNCHANGED <<origin, wrapped, place, last, lookahead, error, held, token, at, c, read, given, dropped, failed>>

RemoveFilter ==
    /\ Free /\ lookahead = 0 /\ Holders = {} /\ "filters" \notin wrapped
    /\ IF filters = <<>>
       THEN wrapped' = wrapped \cup {"filters"} /\ UNCHANGED filters
       ELSE (\E f \in Filters : filters' = Removed(filters, f)) /\ UNCHANGED wrapped
    /\ UNCHANGED <<origin, place, last, lookahead, error, held, token, at, c, read, given, dropped, failed>>

AddCallback ==
    /\ Free /\ Len(callbacks) < MaxCallbacks /\ "callbacks" \notin wrapped
    /\ \E k \in Callbacks : callbacks' = Append(callbacks, k)
    /\ UNCHANGED <<origin, wrapped, place, last, lookahead, error, chain, step, i, result, at, c, read, given, dropped, failed>>

RemoveCallback ==
    /\ Free /\ "callbacks" \notin wrapped
    /\ IF callbacks = <<>>
       THEN wrapped' = wrapped \cup {"callbacks"} /\ UNCHANGED callbacks
       ELSE (\E k \in Callbacks : callbacks' = Removed(callbacks, k)) /\ UNCHANGED wrapped
    /\ UNCHANGED <<origin, place, last, lookahead, error, chain, step, i, result, at, c, read, given, dropped, failed>>

(* The library comes to a list of SIZE_MAX entries, most of which are not  *)
(* there: what it does from here is undefined, and not followed.           *)
Undefined == wrapped # {} /\ step = "scan" /\ UNCHANGED vars

Next ==
    \/ ParserScan \/ ScanFilter \/ ScanFails
    \/ FilterGives \/ FilterPasses \/ FilterLooks \/ FilterReplaces
    \/ FilterDrops \/ FilterHolds \/ FilterFails
    \/ ScanEnds \/ TokenStarts \/ TokenFails \/ CallbackReturns
    \/ AddFilter \/ RemoveFilter \/ AddCallback \/ RemoveCallback
    \/ Undefined

Spec == Init /\ [][Next]_vars
----------------------------------------------------------------------------
(* The parser counts what filters hold, whichever hold it: it asks the     *)
(* scanner for a character exactly when none has one left, or that         *)
(* character would be lost, or the last one given again.                   *)
LookaheadExact == at = 0 /\ ~failed => lookahead = Len(Held)

(* What is read is given, held or dropped, once, and what is held comes    *)
(* after all that was given: no filter and no callback, however they read  *)
(* ahead, loses a character, repeats one or lets one overtake another.     *)
InText(p) == p \in 1..Len(source)
InOrder ==
    at = 0 /\ ~failed =>
        LET all == given \o Held
        IN  /\ \A j, k \in DOMAIN all : j < k /\ InText(all[k]) => all[j] < all[k]
            /\ \A p \in 1..Len(source) :
                   /\ p \in InUse(all) \cup dropped <=> p <= pos
                   /\ p \notin InUse(all) \cap dropped

(* The line and the column, which tokens take, are those of the last       *)
(* character read, whatever filters drop, replace, hold and give back.     *)
NewlinesBefore(p) == {k \in 1..(p - 1) : source[k] = Newline}
LineOf(p) == 1 + Cardinality(NewlinesBefore(p))
Latest(S) == IF S = {} THEN 0 ELSE CHOOSE n \in S : \A k \in S : k <= n
ColOf(p) == p - Latest(NewlinesBefore(p))
PositionExact ==
    ~failed /\ pos <= End =>
        LET p == IF pos = 0 THEN 1 ELSE pos
        IN  line = LineOf(p) /\ col = ColOf(p)

(* parser_get_token tells of the end only once there is nothing more to    *)
(* read, and all of it has been through the filters and to the callbacks.  *)
EndMeansAll ==
    [][result' = "end" /\ step # "idle" /\ step' = "idle" /\ ~failed =>
           pos >= End /\ 1..Len(source) \subseteq InUse(given') \cup dropped]_vars
=============================================================================
