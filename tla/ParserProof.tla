---------------------------- MODULE ParserProof ----------------------------
(* Proofs about Parser, for any filters that respect ParserAssumption, any *)
(* number of them, and every source: characters are counted, ordered and   *)
(* placed as they should.                                                  *)
EXTENDS Parser, SequenceTheorems, FiniteSetTheorems,
        WellFoundedInduction, TLAPS

----------------------------------------------------------------------------
(* The invariants.  All but the types end at the first error.              *)

(* The types, without the history.  A callback is one of those there were. *)
TypeInv ==
    /\ TypeOK
    /\ Len(callbacks) <= MaxCallbacks
    /\ \A j, k \in DOMAIN filters : filters[j] = filters[k] => j = k

(* The filter that holds something is still to be called for the character *)
(* under way, which is the last one given, given again.                    *)
Pending == \E j \in DOMAIN filters : at > 0 /\ j >= at /\ held[filters[j]] # <<>>

(* The character before those held, if any.                                *)
Current == IF at = 0 THEN last ELSE c

(* Those held follow the first characters of the pattern of their filter:  *)
(* all but the last still match, and let the other filters pass.           *)
Follows(f) ==
    \E k \in 1..Len(Pattern[f]) :
        /\ k + Len(held[f]) <= Len(Pattern[f])
        /\ Char(Current) = Pattern[f][k]
        /\ \A j \in 1..(Len(held[f]) - 1) : Char(held[f][j]) = Pattern[f][k + j]

HeldRight ==
    /\ \A f, g \in Holders : f = g
    /\ Holders \subseteq InUse(filters)
    /\ Pending => lookahead + 1 = Len(Held)
    /\ ~Pending => lookahead = Len(Held)
    /\ \A f \in Holders : Follows(f)

(* A filter reads ahead only when nothing is held.                         *)
ReadRight ==
    Looking =>
        /\ Calling /\ Holders = {}
        /\ Len(read) \in 2..Len(Pattern[Called])
        /\ \A j \in 1..(Len(read) - 1) : Char(read[j]) = Pattern[Called][j]

ChainInv == TypeInv /\ (~failed => HeldRight /\ ReadRight)

(* What was given, what is on its way through the chain, and what is held, *)
(* in this order: of n characters in the source, those up to p are all     *)
(* there, or dropped.                                                      *)
Ordered(s, n) == \A j, k \in DOMAIN s : j < k /\ s[k] \in 1..n => s[j] < s[k]
Before(A, B, n) == \A x \in A, y \in B : y \in 1..n => x < y
Accounted(A, d, p, n) == \A q \in 1..n : (q \in A \cup d <=> q <= p) /\ q \notin A \cap d
Sound(G, F, H, d, p, n) ==
    /\ Ordered(G, n) /\ Ordered(F, n) /\ Ordered(H, n)
    /\ Before(InUse(G), InUse(F), n) /\ Before(InUse(G) \cup InUse(F), InUse(H), n)
    /\ Accounted(InUse(G) \cup InUse(F) \cup InUse(H), d, p, n)
    /\ InUse(G) \cup InUse(F) \cup InUse(H) \subseteq 1..p

Flight == IF at = 0 \/ Pending THEN <<>> ELSE IF Looking THEN read ELSE <<c>>

OrderRight ==
    /\ Sound(given, Flight, Held, dropped, pos, Len(source))
    /\ last <= pos
    /\ at > 0 => c \in 1..pos
    /\ step = "callback" => last > 0

OrderInv == ChainInv /\ (~failed => OrderRight)

(* The scanner counts lines from parser->last, which may not be the last   *)
(* character read: when the scanner is next asked for one, it counts.      *)
Plain(p) == Char(p) \notin {Newline, EOF}
Agree(p, q) ==
    /\ Char(p) = Newline <=> Char(q) = Newline
    /\ Char(p) = EOF <=> Char(q) = EOF

PlaceRight ==
    /\ at = 0 /\ Holders = {} => Agree(last, pos)
    /\ at > 0 /\ Holders = {} /\ ~Looking => Agree(c, pos) /\ (Plain(pos) => Plain(last))
    /\ Looking => Agree(last, pos) /\ read[Len(read)] = pos
    /\ Pending => Plain(last)
    /\ \A f \in Holders : held[f][Len(held[f])] = pos

PlaceInv == ChainInv /\ PositionExact /\ (~failed => PlaceRight)

----------------------------------------------------------------------------
(* Types.                                                                  *)

LEMMA PatternFacts ==
    ASSUME NEW f \in Filters
    PROVE  /\ Pattern[f] \in Seq(Chars) /\ Len(Pattern[f]) \in Nat /\ Len(Pattern[f]) > 1
           /\ \A j \in 1..Len(Pattern[f]) : Pattern[f][j] \in Chars /\ Pattern[f][j] # EOF
           /\ \A j \in 1..(Len(Pattern[f]) - 1) : Pattern[f][j] # Newline
           /\ \A g \in Filters \ {f} : \A j \in 1..(Len(Pattern[f]) - 1) :
                  Pattern[f][j] # Pattern[g][1]
<1>1. Pattern[f] \in Seq(Chars)
  BY ParserAssumption
<1>2. \A j \in 1..Len(Pattern[f]) : Pattern[f][j] \in Chars
  BY <1>1, ElementOfSeq
<1> QED
  BY <1>1, <1>2, LenProperties, ParserAssumption

LEMMA SourceFacts ==
    ASSUME TypeInv
    PROVE  /\ source \in Seq(Chars) /\ Len(source) \in Nat /\ End \in Nat /\ End > 0
           /\ Furthest \in Nat /\ Furthest >= End
<1>1. source \in Seq(Chars) /\ MaxPast \in Nat
  BY ParserAssumption DEF TypeInv, TypeOK
<1> QED
  BY <1>1, LenProperties DEF End, Furthest

LEMMA NextPosFacts ==
    ASSUME TypeInv
    PROVE  /\ NextPos \in Nat /\ NextPos > 0
           /\ NextPos = pos + 1 \/ NextPos = pos
           /\ NextPos = pos => pos >= End
<1>1. pos \in Nat
  BY DEF TypeInv, TypeOK
<1> QED
  BY <1>1, SourceFacts DEF NextPos

LEMMA ScannedFacts ==
    ASSUME TypeInv, Scanned
    PROVE  /\ pos' = NextPos /\ last' = NextPos
           /\ {pos', last'} \subseteq Nat /\ {line', col'} \subseteq Nat \ {0}
<1>1. {line, col} \subseteq Nat \ {0}
  BY DEF TypeInv, TypeOK
<1>2. line' \in Nat \ {0} /\ col' \in Nat \ {0}
  BY <1>1 DEF Scanned, Moves
<1> QED
  BY <1>2, NextPosFacts DEF Scanned

LEMMA UnreadFacts ==
    ASSUME TypeInv, Unread
    PROVE  /\ UNCHANGED <<pos, last>> /\ failed' = TRUE
           /\ {line', col'} \subseteq Nat \ {0}
<1>1. {line, col} \subseteq Nat \ {0}
  BY DEF TypeInv, TypeOK
<1> QED
  BY <1>1 DEF Unread, Moves

LEMMA GiveFacts ==
    ASSUME TypeInv, NEW p \in Nat, Give(p)
    PROVE  given' \in Seq(Nat)
<1>1. Append(given, p) \in Seq(Nat)
  BY AppendProperties DEF TypeInv, TypeOK
<1> QED
  BY <1>1 DEF Give, TypeInv, TypeOK

LEMMA ChainFacts ==
    ASSUME TypeInv
    PROVE  /\ Len(filters) \in Nat /\ DOMAIN filters = 1..Len(filters)
           /\ \A j \in DOMAIN filters : filters[j] \in Filters
           /\ Calling => Called \in Filters
           /\ \A f \in Filters : held[f] \in Seq(Nat)
<1>1. filters \in Seq(Filters)
  BY DEF TypeInv, TypeOK
<1>2. Len(filters) \in Nat /\ DOMAIN filters = 1..Len(filters)
  BY <1>1, LenProperties
<1>3. \A j \in DOMAIN filters : filters[j] \in Filters
  BY <1>1, <1>2, ElementOfSeq
<1> QED
  BY <1>2, <1>3 DEF TypeInv, TypeOK, Called, Calling

LEMMA CallbacksFacts ==
    ASSUME TypeInv
    PROVE  Len(callbacks) \in Nat /\ Len(callbacks) <= MaxCallbacks /\ MaxCallbacks \in Nat
  BY LenProperties, ParserAssumption DEF TypeInv, TypeOK

LEMMA AllButLast ==
    ASSUME NEW S, NEW s \in Seq(S), s # <<>>, NEW t, t = SubSeq(s, 1, Len(s) - 1)
    PROVE  /\ t \in Seq(S) /\ Len(t) = Len(s) - 1 /\ Len(t) \in Nat
           /\ DOMAIN t = 1..Len(t) /\ \A k \in 1..Len(t) : t[k] = s[k]
<1>1. Len(s) \in Nat \ {0}
  BY EmptySeq
<1> DEFINE n == Len(s) - 1
<1>2. n \in Nat /\ \A k \in 1..n : s[k] \in S
  BY <1>1, ElementOfSeq
<1>3. t = SubSeq(s, 1, n)
  OBVIOUS
<1> HIDE DEF n
<1>4. t \in Seq(S) /\ Len(t) = n /\ \A k \in 1..n : t[k] = s[k]
  BY <1>2, <1>3, SubSeqProperties
<1>5. n = Len(s) - 1
  BY DEF n
<1> QED
  BY <1>2, <1>4, <1>5, LenProperties

(* What parser_get_token may leave.                                        *)
TokenTypes ==
    /\ callbacks \in Seq(Callbacks) /\ Len(callbacks) <= MaxCallbacks
    /\ i \in 0..MaxCallbacks
    /\ step \in {"idle", "scan", "callback"} /\ result \in {"none", "token", "end", "error"}
    /\ (i > 0) = (step = "callback")

LEMMA TokenSame == TypeInv /\ UNCHANGED token => TokenTypes'
  BY CallbacksFacts DEF TypeInv, TypeOK, TokenTypes, token

LEMMA TokenEnds ==
    ASSUME TypeInv, UNCHANGED callbacks, NEW r, NEW k, NEW l, Ends(r, k, l)
    PROVE  TokenTypes'
  BY CallbacksFacts DEF Ends, TypeInv, TypeOK, TokenTypes

LEMMA TokenCalls ==
    ASSUME TypeInv, UNCHANGED callbacks, NEW k \in Nat \ {0}, NEW r, NEW l, CallFrom(k, r, l)
    PROVE  TokenTypes'
<1>1. CASE k <= Len(callbacks)
  BY <1>1, CallbacksFacts DEF CallFrom, TypeInv, TypeOK, TokenTypes
<1>2. CASE ~(k <= Len(callbacks))
  BY <1>2, TokenEnds DEF CallFrom
<1> QED
  BY <1>1, <1>2

LEMMA TokenInterrupted == TypeInv /\ Interrupted => TokenTypes'
<1> SUFFICES ASSUME TypeInv, Interrupted PROVE TokenTypes'
  OBVIOUS
<1>1. CASE step = "scan"
  BY <1>1, CallbacksFacts DEF Interrupted, TypeInv, TypeOK, TokenTypes
<1>2. CASE step # "scan"
  BY <1>2, TokenSame DEF Interrupted
<1> QED
  BY <1>1, <1>2

(* The rest of the types.                                                  *)
ScanTypes ==
    /\ {pos, last, c, lookahead, at} \subseteq Nat /\ {line, col} \subseteq Nat \ {0}
    /\ error \in BOOLEAN /\ failed \in BOOLEAN
    /\ filters \in Seq(Filters)
    /\ held \in [Filters -> Seq(Nat)] /\ read \in Seq(Nat)
    /\ given \in Seq(Nat) /\ dropped \subseteq Nat
    /\ at \in 0..Len(filters) + 1
    /\ \A j, k \in DOMAIN filters : filters[j] = filters[k] => j = k

LEMMA TypesTogether ==
    ASSUME TypeInv, UNCHANGED origin, wrapped' \subseteq {"filters", "callbacks"},
           ScanTypes', TokenTypes'
    PROVE  TypeInv'
<1> SUFFICES TypeInv'
  OBVIOUS
<1>1. source' \in Sources /\ kind' \in {"file", "string"} /\ beyond' \in Chars \cup {EOF}
  BY DEF TypeInv, TypeOK, origin
<1>2. i' \in Nat /\ i' <= MaxCallbacks
  BY ParserAssumption DEF TokenTypes
<1>3. {pos', last', c', lookahead', i', at'} \subseteq Nat
  BY <1>2 DEF ScanTypes
<1>4. TypeOK'
  BY <1>1, <1>2, <1>3 DEF TypeOK, ScanTypes, TokenTypes
<1> QED
  BY <1>4 DEF TypeInv, ScanTypes, TokenTypes

LEMMA TypesApart == TypeInv => ScanTypes /\ TokenTypes
<1> SUFFICES ASSUME TypeInv PROVE ScanTypes /\ TokenTypes
  OBVIOUS
<1>1. at \in Nat
  BY DEF TypeInv, TypeOK
<1> QED
  BY <1>1, CallbacksFacts DEF TypeInv, TypeOK, ScanTypes, TokenTypes

LEMMA TypeInit == Init => TypeInv
<1> SUFFICES ASSUME Init PROVE TypeInv
  OBVIOUS
<1>1. /\ <<>> \in Seq(Nat) /\ <<>> \in Seq(Filters) /\ <<>> \in Seq(Callbacks)
      /\ Len(<<>>) = 0 /\ DOMAIN <<>> = {}
  BY EmptySeq
<1>2. beyond \in Chars \cup {EOF}
  BY ParserAssumption DEF Init
<1>3. MaxCallbacks \in Nat
  BY ParserAssumption
<1>4. held \in [Filters -> Seq(Nat)]
  BY <1>1 DEF Init
<1>5. at \in 0..(Len(filters) + 1) /\ (i > 0) = (step = "callback") /\ i <= MaxCallbacks
  BY <1>1, <1>3 DEF Init
<1>6. error \in BOOLEAN /\ failed \in BOOLEAN
  BY DEF Init
<1>7. TypeOK
  BY <1>1, <1>2, <1>3, <1>4, <1>5, <1>6 DEF Init, TypeOK
<1> QED
  BY <1>1, <1>3, <1>7 DEF Init, TypeInv
LEMMA WrappedStep ==
    ASSUME TypeInv, [Next]_vars
    PROVE  wrapped' \subseteq {"filters", "callbacks"}
<1>1. wrapped \subseteq {"filters", "callbacks"}
  BY DEF TypeInv, TypeOK
<1>2. CASE RemoveFilter
  BY <1>1, <1>2 DEF RemoveFilter
<1>3. CASE RemoveCallback
  BY <1>1, <1>3 DEF RemoveCallback
<1> QED
  BY <1>1, <1>2, <1>3 DEF Next, ParserScan, ScanFilter, ScanFails, FilterGives, FilterPasses,
     FilterLooks, FilterReplaces, FilterDrops, FilterHolds, FilterFails, ScanEnds,
     TokenStarts, TokenFails, CallbackReturns, AddFilter, AddCallback, Undefined, vars

LEMMA TypeStep == TypeInv /\ [Next]_vars => TypeInv'
<1> SUFFICES ASSUME TypeInv, [Next]_vars PROVE TypeInv'
  OBVIOUS
<1> USE DEF place, chain, token, origin, vars
<1>0. ScanTypes /\ TokenTypes /\ UNCHANGED origin
  BY TypesApart DEF Next, ParserScan, ScanFilter, ScanFails, FilterGives, FilterPasses,
     FilterLooks, FilterReplaces, FilterDrops, FilterHolds, FilterFails, ScanEnds,
     TokenStarts, TokenFails, CallbackReturns, AddFilter, RemoveFilter, AddCallback,
     RemoveCallback, Undefined
<1>w. wrapped' \subseteq {"filters", "callbacks"}
  BY WrappedStep
<1> SUFFICES ScanTypes' /\ TokenTypes'
  BY <1>0, <1>w, TypesTogether
<1>1. CASE ParserScan
  <2>1. TokenTypes'
    BY <1>1, TokenSame DEF ParserScan
  <2>2. {pos', last'} \subseteq Nat /\ {line', col'} \subseteq Nat \ {0} /\ failed' \in BOOLEAN
    BY <1>0, <1>1, ScannedFacts, UnreadFacts DEF ParserScan, ScanTypes
  <2>3. given' \in Seq(Nat)
    BY <1>0, <1>1, GiveFacts, NextPosFacts DEF ParserScan, ScanTypes
  <2> QED
    BY <1>0, <1>1, <2>1, <2>2, <2>3 DEF ParserScan, ScanTypes
<1>2. CASE ScanFilter
  <2>1. TokenTypes'
    BY <1>2, TokenSame DEF ScanFilter
  <2>2. {pos', last', c', lookahead'} \subseteq Nat /\ {line', col'} \subseteq Nat \ {0}
    <3>1. CASE Replay
      BY <1>0, <3>1 DEF Replay, ScanTypes
    <3>2. CASE Fresh
      BY <1>0, <3>2, ScannedFacts, NextPosFacts DEF Fresh, ScanTypes
    <3> QED
      BY <1>2, <3>1, <3>2 DEF ScanFilter
  <2>3. at' \in 0..Len(filters) + 1 /\ at' \in Nat
    BY <1>2, ChainFacts DEF ScanFilter
  <2> QED
    BY <1>0, <1>2, <2>1, <2>2, <2>3 DEF ScanFilter, ScanTypes
<1>3. CASE ScanFails
  BY <1>0, <1>3, TokenInterrupted, UnreadFacts DEF ScanFails, ScanTypes
<1>4. ASSUME Calling, at' = at + 1
      PROVE  at' \in Nat /\ at' \in 0..Len(filters) + 1
  BY <1>0, <1>4, ChainFacts DEF Calling, ScanTypes
<1>5. CASE FilterGives
  <2>1. Called \in Filters /\ held[Called] \in Seq(Nat) /\ held[Called] # <<>>
    BY <1>5, ChainFacts DEF FilterGives, Holds
  <2>2. Head(held[Called]) \in Nat /\ Tail(held[Called]) \in Seq(Nat)
    BY <2>1, HeadTailProperties
  <2> QED
    BY <1>0, <1>4, <1>5, <2>1, <2>2, TokenSame DEF FilterGives, ScanTypes
<1>6. CASE FilterPasses
  BY <1>0, <1>4, <1>6, TokenSame DEF FilterPasses, ScanTypes
<1>7. CASE FilterLooks
  <2>1. Reading \in Seq(Nat)
    BY <1>0 DEF Reading, ScanTypes
  <2>2. Append(Reading, NextPos) \in Seq(Nat) /\ Append(Reading, End) \in Seq(Nat)
    BY <2>1, NextPosFacts, SourceFacts, AppendProperties
  <2>3. {pos', last'} \subseteq Nat /\ {line', col'} \subseteq Nat \ {0} /\ failed' \in BOOLEAN
        /\ read' \in Seq(Nat)
    BY <1>0, <1>7, <2>2, ScannedFacts, UnreadFacts DEF FilterLooks, ScanTypes
  <2> QED
    BY <1>0, <1>7, <2>3, TokenSame DEF FilterLooks, ScanTypes
<1>8. ASSUME Looking
      PROVE  /\ read[1] \in Nat /\ Tail(read) \in Seq(Nat) /\ Len(read) \in Nat /\ Len(read) > 0
             /\ \A k \in 1..Len(read) : read[k] \in Nat
  <2>1. read \in Seq(Nat) /\ read # <<>>
    BY <1>0, <1>8 DEF Looking, ScanTypes
  <2>2. Tail(read) \in Seq(Nat)
    BY <2>1, HeadTailProperties
  <2>3. Len(read) \in Nat \ {0}
    BY <2>1, EmptySeq
  <2>4. \A k \in 1..Len(read) : read[k] \in Nat
    BY <2>1, ElementOfSeq
  <2> QED
    BY <2>2, <2>3, <2>4
<1>9. CASE FilterReplaces
  <2>1. Looking /\ Calling /\ at' = at + 1 /\ c' = read[1] /\ read' = <<>>
        /\ dropped' = dropped \cup {read[k] : k \in 2..Len(read)}
    BY <1>9 DEF FilterReplaces
  <2>2. dropped' \subseteq Nat
    <3>1. \A k \in 2..Len(read) : read[k] \in Nat
      BY <1>8, <2>1
    <3> QED
      BY <1>0, <2>1, <3>1 DEF ScanTypes
  <2> QED
    BY <1>0, <1>4, <1>8, <1>9, <2>1, <2>2, EmptySeq, TokenSame DEF FilterReplaces, ScanTypes
<1>10. CASE FilterDrops
  <2>1. {pos', last', c'} \subseteq Nat /\ {line', col'} \subseteq Nat \ {0} /\ failed' \in BOOLEAN
    BY <1>0, <1>10, ScannedFacts, UnreadFacts, NextPosFacts, SourceFacts DEF FilterDrops, ScanTypes
  <2> QED
    BY <1>0, <1>8, <1>10, <2>1, EmptySeq, TokenSame DEF FilterDrops, ScanTypes
<1>11. CASE FilterHolds
  <2>1. lookahead' \in Nat
    BY <1>0, <1>8, <1>11 DEF FilterHolds, Tell, ScanTypes
  <2> QED
    BY <1>0, <1>4, <1>8, <1>11, <2>1, EmptySeq, TokenSame, ChainFacts DEF FilterHolds, ScanTypes
<1>12. CASE FilterFails
  BY <1>0, <1>12, TokenInterrupted, EmptySeq, ChainFacts DEF FilterFails, ScanTypes
<1>13. CASE ScanEnds
  <2>1. c \in Nat /\ given' \in Seq(Nat)
    BY <1>0, <1>13, GiveFacts DEF ScanEnds, ScanTypes
  <2>2. TokenTypes'
    BY <1>13, TokenSame, TokenInterrupted, TokenCalls DEF ScanEnds
  <2> QED
    BY <1>0, <1>13, <2>1, <2>2, ChainFacts DEF ScanEnds, ScanTypes
<1>14. CASE TokenStarts
  <2>1. TokenTypes'
    <3>1. CASE Char(last) = EOF
      BY <1>0, <1>14, <3>1 DEF TokenStarts, Idle, TokenTypes
    <3>2. CASE Char(last) # EOF
      BY <1>14, <3>2, TokenCalls DEF TokenStarts
    <3> QED
      BY <3>1, <3>2
  <2> QED
    BY <1>0, <1>14, <2>1 DEF TokenStarts, ScanTypes
<1>15. CASE TokenFails
  BY <1>0, <1>15 DEF TokenFails, ScanTypes, TokenTypes
<1>16. CASE CallbackReturns
  <2>1. i + 1 \in Nat \ {0}
    BY <1>0 DEF TokenTypes
  <2>2. TokenTypes'
    BY <1>16, <2>1, TokenEnds, TokenCalls DEF CallbackReturns
  <2> QED
    BY <1>0, <1>16, <2>2 DEF CallbackReturns, ScanTypes
<1>17. CASE AddFilter
  <2>1. PICK f \in Filters \ InUse(filters) : filters' = Append(filters, f)
    BY <1>17 DEF AddFilter
  <2>2. /\ filters' \in Seq(Filters) /\ Len(filters') = Len(filters) + 1
        /\ \A k \in 1..Len(filters) : filters'[k] = filters[k]
        /\ filters'[Len(filters) + 1] = f
    BY <1>0, <2>1, AppendProperties DEF ScanTypes
  <2>3. DOMAIN filters' = 1..(Len(filters) + 1)
    BY <2>2, LenProperties
  <2>4. \A k \in 1..Len(filters) : filters[k] # f
    BY <2>1, ChainFacts DEF InUse
  <2>5. \A j, k \in DOMAIN filters' : filters'[j] = filters'[k] => j = k
    <3>1. \A k \in DOMAIN filters' : k # Len(filters) + 1 => k \in DOMAIN filters
      BY <2>3, ChainFacts
    <3> QED
      BY <1>0, <2>2, <2>4, <3>1, ChainFacts DEF ScanTypes
  <2>6. at' \in 0..Len(filters') + 1
    <3>1. at' = 0 /\ Len(filters') \in Nat
      BY <1>17, <2>2, LenProperties DEF AddFilter, Free
    <3> QED
      BY <3>1
  <2> QED
    BY <1>0, <1>17, <2>2, <2>5, <2>6, TokenSame DEF AddFilter, ScanTypes
<1>18. CASE RemoveFilter /\ filters = <<>>
  BY <1>0, <1>18, TokenSame DEF RemoveFilter, ScanTypes
<1>s. CASE RemoveFilter /\ filters # <<>>
  <2>1. PICK f \in Filters : filters' = Removed(filters, f)
    BY <1>s DEF RemoveFilter
  <2>2. CASE f \in InUse(filters)
    BY <1>0, <1>s, <2>1, <2>2, TokenSame DEF RemoveFilter, Removed, ScanTypes
  <2>3. CASE f \notin InUse(filters)
    <3>1. filters \in Seq(Filters) /\ filters # <<>>
      BY <1>0, <1>s DEF RemoveFilter, ScanTypes
    <3>2. filters' = SubSeq(filters, 1, Len(filters) - 1)
      BY <2>1, <2>3 DEF Removed
    <3>4. /\ filters' \in Seq(Filters) /\ Len(filters') = Len(filters) - 1
          /\ Len(filters') \in Nat /\ DOMAIN filters' = 1..Len(filters')
          /\ \A k \in 1..Len(filters') : filters'[k] = filters[k]
      BY <3>1, <3>2, AllButLast
    <3>5. \A k \in DOMAIN filters' : k \in DOMAIN filters
      BY <3>4, ChainFacts
    <3>6. \A j, k \in DOMAIN filters' : filters'[j] = filters'[k] => j = k
      BY <1>0, <3>4, <3>5 DEF ScanTypes
    <3>7. at' \in 0..Len(filters') + 1
      BY <1>s, <3>4 DEF RemoveFilter, Free, chain
    <3> QED
      BY <1>0, <1>s, <3>4, <3>6, <3>7, TokenSame DEF RemoveFilter, ScanTypes
  <2> QED
    BY <2>2, <2>3
<1>19. CASE AddCallback
  <2>1. PICK k \in Callbacks : callbacks' = Append(callbacks, k)
    BY <1>19 DEF AddCallback
  <2>2. callbacks' \in Seq(Callbacks) /\ Len(callbacks') = Len(callbacks) + 1
    BY <1>0, <2>1, AppendProperties DEF TokenTypes
  <2> QED
    BY <1>0, <1>19, <2>2, CallbacksFacts DEF AddCallback, ScanTypes, TokenTypes
<1>20. CASE RemoveCallback /\ callbacks = <<>>
  BY <1>0, <1>20, CallbacksFacts DEF RemoveCallback, ScanTypes, TokenTypes
<1>c. CASE RemoveCallback /\ callbacks # <<>>
  <2>1. PICK k \in Callbacks : callbacks' = Removed(callbacks, k)
    BY <1>c DEF RemoveCallback
  <2>2. callbacks' \in Seq(Callbacks) /\ Len(callbacks') <= Len(callbacks)
    <3>1. callbacks \in Seq(Callbacks) /\ callbacks # <<>> /\ Len(callbacks) \in Nat
      BY <1>0, <1>c, CallbacksFacts DEF RemoveCallback, TokenTypes
    <3>2. callbacks' = callbacks \/ callbacks' = SubSeq(callbacks, 1, Len(callbacks) - 1)
      BY <2>1 DEF Removed
    <3> QED
      BY <3>1, <3>2, AllButLast
  <2>3. Len(callbacks') \in Nat
    BY <2>2, LenProperties
  <2> QED
    BY <1>0, <1>c, <2>2, <2>3, CallbacksFacts DEF RemoveCallback, ScanTypes, TokenTypes
<1>21. CASE UNCHANGED vars
  BY <1>0, <1>21, TokenSame DEF ScanTypes
<1> QED
  BY <1>1, <1>2, <1>3, <1>5, <1>6, <1>7, <1>9, <1>10, <1>11, <1>12, <1>13, <1>14, <1>15,
     <1>16, <1>17, <1>18, <1>s, <1>19, <1>20, <1>c, <1>21 DEF Next, Undefined

(* Every variable has its type in every state, those included where a      *)
(* removal from an empty list has wrapped its count.                       *)
THEOREM TypeCorrect == Spec => []TypeOK
<1>1. TypeInv => TypeOK
  BY DEF TypeInv
<1> QED
  BY <1>1, TypeInit, TypeStep, PTL DEF Spec
----------------------------------------------------------------------------
(* What filters hold.                                                      *)

LEMMA HeldFacts ==
    ASSUME TypeInv, \A f, g \in Holders : f = g
    PROVE  /\ Held \in Seq(Nat) /\ Len(Held) \in Nat
           /\ Holders = {} => Held = <<>> /\ Len(Held) = 0
           /\ \A f \in Holders : Held = held[f] /\ Holders = {f}
           /\ Holders # {} => Len(Held) > 0
<1>1. CASE Holders = {}
  BY <1>1, EmptySeq DEF Held
<1>2. ASSUME NEW f \in Holders
      PROVE  Held = held[f] /\ Holders = {f} /\ Held \in Seq(Nat) /\ Len(Held) \in Nat /\ Len(Held) > 0
  <2>1. Held = held[f] /\ Holders = {f}
    BY <1>2 DEF Held
  <2>2. f \in Filters /\ held[f] # <<>>
    BY DEF Holders
  <2> QED
    BY <2>1, <2>2, ChainFacts, EmptySeq
<1> QED
  BY <1>1, <1>2

LEMMA HeldNext ==
    ASSUME NEW f \in Filters, \A g \in Filters \ {f} : held'[g] = <<>>
    PROVE  Held' = held'[f]
<1>1. CASE held'[f] = <<>>
  <2>1. Holders' = {}
    BY <1>1 DEF Holders
  <2> QED
    BY <1>1, <2>1 DEF Held
<1>2. CASE held'[f] # <<>>
  <2>1. Holders' = {f}
    BY <1>2 DEF Holders
  <2> QED
    BY <2>1 DEF Held
<1> QED
  BY <1>1, <1>2

LEMMA NothingHeld ==
    ASSUME TypeInv, HeldRight, at = 0, lookahead = 0
    PROVE  Holders = {}
<1>1. ~Pending
  BY DEF Pending
<1>2. lookahead = Len(Held)
  BY <1>1, HeldFacts DEF HeldRight
<1> QED
  BY <1>2, HeldFacts DEF HeldRight

LEMMA NothingPending ==
    ASSUME TypeInv, HeldRight, Holders = {}
    PROVE  ~Pending /\ lookahead = 0
<1>1. ~Pending
  BY ChainFacts DEF Pending, Holders
<1> QED
  BY <1>1, HeldFacts DEF HeldRight

LEMMA HeldRightEmpty ==
    ASSUME TypeInv', Holders' = {}, lookahead' = 0
    PROVE  HeldRight'
<1>1. Len(filters') \in Nat /\ DOMAIN filters' = 1..Len(filters')
      /\ \A j \in DOMAIN filters' : filters'[j] \in Filters
  BY LenProperties, ElementOfSeq DEF TypeInv, TypeOK
<1>2. ~Pending'
  BY <1>1 DEF Pending, Holders
<1>3. Len(Held') = 0
  BY EmptySeq DEF Held
<1> QED
  BY <1>2, <1>3 DEF HeldRight

LEMMA NotLooking ==
    ASSUME ReadRight, ~Calling
    PROVE  ~Looking /\ read = <<>>
  BY DEF ReadRight, Looking

(* A filter that wants one more finds nothing held: what is held lets it   *)
(* pass.                                                                   *)
LEMMA LooksAlone ==
    ASSUME ChainInv, ~failed, WantsMore
    PROVE  Holders = {}
<1> SUFFICES ASSUME NEW f \in Holders PROVE FALSE
  OBVIOUS
<1>1. Called \in Filters /\ f \in Filters /\ f # Called /\ held[f] # <<>>
  BY ChainFacts DEF WantsMore, Holds, Holders, ChainInv
<1>2. ~Looking /\ Char(c) = Pattern[Called][1] /\ at # 0
  BY ChainFacts DEF ChainInv, ReadRight, WantsMore, Calling
<1>3. PICK k \in 1..Len(Pattern[f]) :
          k + Len(held[f]) <= Len(Pattern[f]) /\ Char(Current) = Pattern[f][k]
  BY DEF ChainInv, HeldRight, Follows
<1>4. Len(held[f]) \in Nat \ {0}
  BY <1>1, ChainFacts, EmptySeq DEF ChainInv
<1>5. k \in 1..(Len(Pattern[f]) - 1)
  BY <1>1, <1>3, <1>4, PatternFacts
<1>6. Char(c) = Pattern[f][k]
  BY <1>2, <1>3 DEF Current
<1> QED
  BY <1>1, <1>2, <1>5, <1>6, PatternFacts

LEMMA CharSame ==
    ASSUME UNCHANGED origin
    PROVE  End' = End /\ \A p : Char(p)' = Char(p)
  BY DEF origin, Char, End

LEMMA FollowsNext ==
    ASSUME UNCHANGED origin, NEW f,
           \E k \in 1..Len(Pattern[f]) :
               /\ k + Len(held'[f]) <= Len(Pattern[f])
               /\ Char(Current') = Pattern[f][k]
               /\ \A j \in 1..(Len(held'[f]) - 1) : Char(held'[f][j]) = Pattern[f][k + j]
    PROVE  Follows(f)'
<1>1. (Char(Current))' = Char(Current')
  BY DEF Char, End, origin
<1>2. \A j \in 1..(Len(held'[f]) - 1) : (Char(held[f][j]))' = Char(held'[f][j])
  BY DEF Char, End, origin
<1> QED
  BY <1>1, <1>2 DEF Follows

LEMMA FollowsStill ==
    ASSUME UNCHANGED origin, NEW f, Follows(f), held'[f] = held[f], Current' = Current
    PROVE  Follows(f)'
<1>1. PICK k \in 1..Len(Pattern[f]) :
          /\ k + Len(held[f]) <= Len(Pattern[f])
          /\ Char(Current) = Pattern[f][k]
          /\ \A j \in 1..(Len(held[f]) - 1) : Char(held[f][j]) = Pattern[f][k + j]
  BY DEF Follows
<1> QED
  BY <1>1, FollowsNext

(* The chain is not concerned.                                             *)
LEMMA ChainSame ==
    ASSUME ChainInv, TypeInv', UNCHANGED <<failed, origin, last, lookahead, chain, at, c, read>>
    PROVE  ChainInv'
<1> USE DEF chain
<1> SUFFICES ASSUME ~failed PROVE HeldRight' /\ ReadRight'
  BY DEF ChainInv
<1>1. HeldRight /\ ReadRight
  BY DEF ChainInv
<1>2. Holders' = Holders /\ Held' = Held /\ Pending' = Pending /\ Current' = Current
  BY DEF Holders, Held, Pending, Current
<1>3. \A f \in Holders : Follows(f)'
  BY <1>1, <1>2, FollowsStill DEF HeldRight
<1>4. HeldRight'
  BY <1>1, <1>2, <1>3 DEF HeldRight
<1>5. ReadRight'
  BY <1>1, <1>2, CharSame DEF ReadRight, Looking, Calling, Called
<1> QED
  BY <1>4, <1>5
(* Past the only filter that holds anything, nothing is pending.           *)
LEMMA NothingAfter ==
    ASSUME TypeInv, Calling, at' = at + 1, UNCHANGED filters,
           \A g \in Filters \ {Called} : held'[g] = <<>>
    PROVE  ~Pending'
<1>1. at \in DOMAIN filters /\ at \in Nat /\ \A j \in DOMAIN filters : filters[j] \in Filters
  BY ChainFacts DEF Calling
<1> SUFFICES ASSUME NEW j \in DOMAIN filters, j >= at + 1, held'[filters[j]] # <<>>
             PROVE  FALSE
  BY DEF Pending
<1>2. filters[j] = Called
  BY <1>1
<1>3. j = at
  BY <1>1, <1>2 DEF TypeInv, Called
<1> QED
  BY <1>1, <1>3

(* A filter that holds nothing changes nothing of what is pending.         *)
LEMMA PassesPending ==
    ASSUME TypeInv, Calling, ~Holds, at' = at + 1, UNCHANGED <<filters, held>>
    PROVE  Pending' = Pending
<1>1. at \in Nat /\ at > 0 /\ DOMAIN filters = 1..Len(filters) /\ Len(filters) \in Nat
      /\ held[filters[at]] = <<>>
  BY ChainFacts DEF Calling, Holds, Called
<1>2. \A j \in DOMAIN filters : held[filters[j]] # <<>> => (j >= at + 1 <=> j >= at)
  BY <1>1
<1> QED
  BY <1>1, <1>2 DEF Pending

(* What the scanner asks a filter to give again is still pending.          *)
LEMMA ReplayPending ==
    ASSUME TypeInv, HeldRight, at = 0, lookahead > 0, at' = 1, UNCHANGED <<filters, held>>
    PROVE  Holders # {} /\ lookahead = Len(Held) /\ Len(Held) \in Nat /\ Pending'
<1>1. ~Pending
  BY DEF Pending
<1>2. lookahead = Len(Held) /\ Len(Held) \in Nat
  BY <1>1, HeldFacts DEF HeldRight
<1>3. PICK f \in Holders : TRUE
  BY <1>2, HeldFacts DEF HeldRight
<1>4. PICK j \in DOMAIN filters : filters[j] = f
  BY <1>3 DEF HeldRight, InUse
<1>5. Pending'
  BY <1>3, <1>4, ChainFacts DEF Pending, Holders
<1> QED
  BY <1>2, <1>3, <1>5

(* With something held, the last character given is of a pattern.          *)
LEMMA HeldAfterText ==
    ASSUME TypeInv, HeldRight, Holders # {}
    PROVE  Plain(Current) /\ Current # 0
<1>1. PICK f \in Holders : Follows(f)
  BY DEF HeldRight
<1>2. PICK k \in 1..Len(Pattern[f]) :
          k + Len(held[f]) <= Len(Pattern[f]) /\ Char(Current) = Pattern[f][k]
  BY <1>1 DEF Follows
<1>3. f \in Filters /\ Len(held[f]) \in Nat \ {0} /\ Len(Pattern[f]) \in Nat
  BY ChainFacts, PatternFacts, EmptySeq DEF Holders
<1>4. k \in 1..(Len(Pattern[f]) - 1)
  BY <1>2, <1>3
<1>5. Char(Current) # EOF /\ Char(Current) # Newline
  BY <1>2, <1>3, <1>4, PatternFacts
<1>6. Char(0) = EOF
  BY SourceFacts DEF Char
<1> QED
  BY <1>5, <1>6 DEF Plain

LEMMA ChainScan == ChainInv /\ TypeInv' /\ ~failed' /\ ScanFilter => ChainInv'
<1> SUFFICES ASSUME ChainInv, TypeInv', ~failed', ScanFilter PROVE HeldRight' /\ ReadRight'
  BY DEF ChainInv
<1> USE DEF chain
<1>1. TypeInv /\ HeldRight /\ ReadRight /\ at = 0 /\ at' = 1
      /\ UNCHANGED <<origin, filters, held, read>>
  BY DEF ScanFilter, ChainInv
<1>2. Holders' = Holders /\ Held' = Held
  BY <1>1 DEF Holders, Held
<1>3. ReadRight'
  <2>1. ~Calling
    BY <1>1 DEF Calling
  <2> QED
    BY <1>1, <2>1, NotLooking DEF ReadRight, Looking
<1>4. CASE Fresh
  BY <1>1, <1>2, <1>3, <1>4, NothingHeld, HeldRightEmpty DEF Fresh
<1>5. CASE Replay
  <2>1. lookahead > 0 /\ lookahead' = lookahead - 1 /\ c' = last
    BY <1>5 DEF Replay
  <2>3. lookahead = Len(Held) /\ Len(Held) \in Nat /\ Pending'
    BY <1>1, <2>1, ReplayPending
  <2>7. lookahead' + 1 = Len(Held')
    BY <1>1, <1>2, <2>1, <2>3 DEF TypeInv, TypeOK
  <2>8. Current' = Current
    BY <1>1, <2>1 DEF Current
  <2>9. \A g \in Holders : Follows(g)'
    BY <1>1, <2>8, FollowsStill DEF HeldRight
  <2> QED
    BY <1>1, <1>2, <1>3, <2>3, <2>7, <2>9 DEF HeldRight
<1> QED
  BY <1>1, <1>4, <1>5 DEF ScanFilter

LEMMA ChainGives == ChainInv /\ TypeInv' /\ ~failed /\ FilterGives => ChainInv'
<1> SUFFICES ASSUME ChainInv, TypeInv', ~failed, FilterGives PROVE HeldRight' /\ ReadRight'
  BY DEF ChainInv
<1>f. PICK f \in Filters : f = Called
  BY ChainFacts DEF FilterGives, ChainInv
<1>0. PICK s : f = Called /\ s = held[f]
  BY <1>f
<1>1. /\ TypeInv /\ HeldRight /\ ReadRight /\ Calling /\ s # <<>> /\ c' = Head(s)
      /\ held' = [held EXCEPT ![f] = Tail(s)] /\ at' = at + 1
      /\ UNCHANGED <<origin, lookahead, filters, read>>
  BY <1>0 DEF FilterGives, Holds, ChainInv
<1>2. f \in Filters /\ f \in Holders /\ f = filters[at] /\ at \in DOMAIN filters
      /\ at \in Nat /\ at > 0
  BY <1>0, <1>1, ChainFacts DEF Holders, Called, Calling
<1>3. Held = s /\ Holders = {f}
  BY <1>0, <1>1, <1>2, HeldFacts DEF HeldRight
<1>4. s \in Seq(Nat) /\ Len(s) \in Nat /\ Len(s) > 0 /\ \A j \in 1..Len(s) : s[j] \in Nat
  BY <1>0, <1>1, <1>2, ChainFacts, LenProperties, ElementOfSeq, EmptySeq
<1>5. /\ Head(s) = s[1] /\ Tail(s) \in Seq(Nat) /\ Len(Tail(s)) = Len(s) - 1
      /\ \A j \in 1..(Len(s) - 1) : Tail(s)[j] = s[j + 1]
  BY <1>1, <1>4, HeadTailProperties
<1>6. held'[f] = Tail(s) /\ \A g \in Filters \ {f} : held'[g] = held[g] /\ held[g] = <<>>
  BY <1>0, <1>1, <1>2, <1>3 DEF TypeInv, TypeOK, Holders
<1>7. Holders' \subseteq {f}
  BY <1>6 DEF Holders
<1>8. Pending
  BY <1>0, <1>1, <1>2 DEF Pending
<1>9. lookahead' = Len(s) - 1
  <2>1. lookahead + 1 = Len(Held) /\ lookahead \in Nat
    BY <1>1, <1>8 DEF HeldRight, TypeInv, TypeOK
  <2>2. lookahead + 1 = Len(s) /\ lookahead' = lookahead
    BY <1>1, <1>3, <2>1
  <2> QED
    BY <1>4, <2>1, <2>2
<1>10. ReadRight'
  BY <1>1, <1>2 DEF ReadRight, Looking
<1>11. CASE Holders' = {}
  <2>1. Tail(s) = <<>>
    BY <1>2, <1>6, <1>11 DEF Holders
  <2>2. lookahead' = 0
    BY <1>5, <1>9, <2>1, EmptySeq
  <2> QED
    BY <1>10, <1>11, <2>2, HeldRightEmpty
<1>12. CASE Holders' # {}
  <2>1. Holders' = {f} /\ Tail(s) # <<>>
    BY <1>6, <1>7, <1>12 DEF Holders
  <2>2. Held' = Tail(s)
    BY <1>6, <2>1 DEF Held
  <2>3. ~Pending'
    <3>1. \A g \in Filters \ {Called} : held'[g] = <<>>
      BY <1>0, <1>6
    <3> QED
      BY <1>1, <3>1, NothingAfter
  <2>4. lookahead' = Len(Held')
    BY <1>5, <1>9, <2>2
  <2>5. Len(s) - 1 > 0
    BY <1>4, <1>5, <2>1, EmptySeq
  <2>6. PICK k \in 1..Len(Pattern[f]) :
            /\ k + Len(s) <= Len(Pattern[f])
            /\ \A j \in 1..(Len(s) - 1) : Char(s[j]) = Pattern[f][k + j]
    BY <1>0, <1>1, <1>2 DEF HeldRight, Follows
  <2>7. Follows(f)'
    <3>1. Current' = s[1]
      BY <1>1, <1>2, <1>5 DEF Current
    <3>2. Char(s[1]) = Pattern[f][k + 1]
      BY <2>5, <2>6, <1>4
    <3>3. k + 1 \in 1..Len(Pattern[f]) /\ (k + 1) + Len(held'[f]) <= Len(Pattern[f])
      <4>1. Len(Pattern[f]) \in Nat /\ Len(held'[f]) = Len(s) - 1
        BY <1>2, <1>5, <1>6, PatternFacts
      <4>2. k \in Nat /\ Len(s) \in Nat /\ Len(s) > 0 /\ k + Len(s) <= Len(Pattern[f])
        BY <1>4, <2>6
      <4> QED
        BY <4>1, <4>2
    <3>4. \A j \in 1..(Len(held'[f]) - 1) : Char(held'[f][j]) = Pattern[f][(k + 1) + j]
      <4> SUFFICES ASSUME NEW j \in 1..(Len(held'[f]) - 1)
                   PROVE  Char(held'[f][j]) = Pattern[f][(k + 1) + j]
        OBVIOUS
      <4>1. j + 1 \in 1..(Len(s) - 1) /\ held'[f][j] = s[j + 1]
        BY <1>4, <1>5, <1>6
      <4>2. Char(s[j + 1]) = Pattern[f][k + (j + 1)]
        BY <2>6, <4>1
      <4>3. k \in Int /\ j \in Int
        OBVIOUS
      <4>4. k + (j + 1) = (k + 1) + j
        BY <4>3
      <4> QED
        BY <4>1, <4>2, <4>4
    <3>5. Char(Current') = Pattern[f][k + 1] /\ UNCHANGED origin
      BY <1>1, <3>1, <3>2
    <3>6. \E m \in 1..Len(Pattern[f]) :
              /\ m + Len(held'[f]) <= Len(Pattern[f])
              /\ Char(Current') = Pattern[f][m]
              /\ \A j \in 1..(Len(held'[f]) - 1) : Char(held'[f][j]) = Pattern[f][m + j]
      BY <3>3, <3>4, <3>5, Zenon
    <3> QED
      BY <3>5, <3>6, FollowsNext, Zenon
  <2>8. Holders' \subseteq InUse(filters)'
    BY <1>1, <1>2, <2>1 DEF InUse
  <2>9. \A g \in Holders' : Follows(g)'
    BY <2>1, <2>7
  <2>10. \A g, h \in Holders' : g = h
    BY <2>1
  <2>11. HeldRight'
    BY <2>3, <2>4, <2>8, <2>9, <2>10 DEF HeldRight
  <2> QED
    BY <1>10, <2>11
<1> QED
  BY <1>11, <1>12

LEMMA ChainPasses == ChainInv /\ TypeInv' /\ ~failed /\ FilterPasses => ChainInv'
<1> SUFFICES ASSUME ChainInv, TypeInv', ~failed, FilterPasses PROVE HeldRight' /\ ReadRight'
  BY DEF ChainInv
<1>1. /\ TypeInv /\ HeldRight /\ Calling /\ held[filters[at]] = <<>> /\ ~Looking
      /\ at' = at + 1 /\ UNCHANGED <<origin, lookahead, filters, held, c, read>>
  BY DEF FilterPasses, Holds, Called, ChainInv, chain
<1>2. at \in Nat /\ at > 0
  BY <1>1, ChainFacts DEF Calling
<1>3. Holders' = Holders /\ Held' = Held /\ Current' = Current
  BY <1>1, <1>2 DEF Holders, Held, Current
<1>4. Pending' = Pending
  BY <1>1, PassesPending DEF Holds, Called
<1>5. \A f \in Holders : Follows(f)'
  BY <1>1, <1>3, FollowsStill DEF HeldRight
<1>6. HeldRight'
  BY <1>1, <1>3, <1>4, <1>5 DEF HeldRight
<1> QED
  BY <1>1, <1>6 DEF ReadRight, Looking
(* Nothing is held, before or after.                                       *)
LEMMA ChainEmpty ==
    ASSUME ChainInv, TypeInv', ~failed, Holders = {}, UNCHANGED <<lookahead, held>>, read' = <<>>
    PROVE  ChainInv'
<1>1. lookahead' = 0 /\ Holders' = {}
  BY NothingPending DEF ChainInv, Holders
<1>2. HeldRight' /\ ReadRight'
  BY <1>1, HeldRightEmpty DEF ReadRight, Looking
<1> QED
  BY <1>2 DEF ChainInv

LEMMA ChainRestarts ==
    ASSUME ChainInv, TypeInv', ~failed, at = 0, lookahead = 0, UNCHANGED <<lookahead, held, read>>
    PROVE  ChainInv'
<1>1. Holders = {} /\ read = <<>>
  BY NothingHeld, NotLooking, ChainFacts DEF ChainInv, Calling
<1> QED
  BY <1>1, ChainEmpty

LEMMA ChainLooks == ChainInv /\ TypeInv' /\ ~failed' /\ ~failed /\ FilterLooks => ChainInv'
<1> SUFFICES ASSUME ChainInv, TypeInv', ~failed', ~failed, FilterLooks
             PROVE  HeldRight' /\ ReadRight'
  BY DEF ChainInv
<1>1. /\ TypeInv /\ HeldRight /\ ReadRight /\ WantsMore /\ Calling
      /\ read' = Append(Reading, NextPos) /\ UNCHANGED <<origin, lookahead, filters, held, at>>
  BY DEF ChainInv, FilterLooks, Unread, WantsMore, chain
<1>2. Holders = {} /\ lookahead = 0
  BY <1>1, LooksAlone, NothingPending
<1>3. Holders' = {} /\ HeldRight'
  BY <1>1, <1>2, HeldRightEmpty DEF Holders
<1>4. PICK f \in Filters : f = Called /\ f = Called'
  BY <1>1, ChainFacts DEF Called
<1>5. Reading \in Seq(Nat) /\ Len(Reading) \in 1..(Len(Pattern[f]) - 1)
      /\ \A j \in 1..Len(Reading) : Char(Reading[j]) = Pattern[f][j]
  <2>1. Len(Pattern[f]) \in Nat /\ Len(Pattern[f]) > 1
    BY PatternFacts
  <2>2. CASE Looking
    <3>1. Reading = read /\ read \in Seq(Nat) /\ Matches /\ Len(read) # Len(Pattern[f])
      BY <1>1, <1>4, <2>2 DEF Reading, WantsMore, Found, TypeInv, TypeOK
    <3>2. Len(read) \in 2..Len(Pattern[f])
          /\ \A j \in 1..(Len(read) - 1) : Char(read[j]) = Pattern[f][j]
      BY <1>1, <1>4, <2>2 DEF ReadRight
    <3>3. Char(read[Len(read)]) = Pattern[f][Len(read)]
      BY <1>4, <3>1 DEF Matches
    <3>4. \A j \in 1..Len(read) : Char(read[j]) = Pattern[f][j]
      BY <3>2, <3>3
    <3>5. Len(read) \in 1..(Len(Pattern[f]) - 1)
      BY <2>1, <3>1, <3>2
    <3> QED
      BY <3>1, <3>4, <3>5
  <2>3. CASE ~Looking
    <3>1. Reading = <<c>> /\ c \in Nat /\ Char(c) = Pattern[f][1]
      BY <1>1, <1>4, <2>3 DEF Reading, WantsMore, TypeInv, TypeOK
    <3>2. <<c>> \in Seq(Nat) /\ Len(<<c>>) = 1 /\ <<c>>[1] = c
      BY <3>1
    <3>3. Reading \in Seq(Nat) /\ Len(Reading) = 1 /\ Reading[1] = c
      BY <3>1, <3>2
    <3>4. 1 \in 1..(Len(Pattern[f]) - 1) /\ \A j \in 1..1 : j = 1
      BY <2>1
    <3>5. \A j \in 1..Len(Reading) : Char(Reading[j]) = Pattern[f][j]
      BY <3>1, <3>3, <3>4
    <3> QED
      BY <3>3, <3>4, <3>5
  <2> QED
    BY <2>2, <2>3
<1>6. NextPos \in Nat /\ Len(Reading) \in Nat
  BY <1>1, <1>5, NextPosFacts, LenProperties
<1>7. Len(read') = Len(Reading) + 1 /\ \A j \in 1..Len(Reading) : read'[j] = Reading[j]
  BY <1>1, <1>5, <1>6, AppendProperties
<1>8. Len(read') \in 2..Len(Pattern[f])
  BY <1>5, <1>7, PatternFacts
<1>9. \A j \in 1..(Len(read') - 1) : (Char(read[j]))' = Pattern[f][j]
  <2>1. Len(read') - 1 = Len(Reading)
    BY <1>6, <1>7
  <2>2. \A j : (Char(read[j]))' = Char(read'[j])
    BY <1>1 DEF Char, End, origin
  <2>3. \A j \in 1..Len(Reading) : Char(read'[j]) = Pattern[f][j]
    BY <1>5, <1>7
  <2> QED
    BY <2>1, <2>2, <2>3
<1>10. Calling'
  BY <1>1 DEF Calling
<1>11. ReadRight'
  BY <1>3, <1>4, <1>8, <1>9, <1>10, Zenon DEF ReadRight
<1> QED
  BY <1>3, <1>11

LEMMA ChainHolds == ChainInv /\ TypeInv' /\ ~failed /\ FilterHolds => ChainInv'
<1> SUFFICES ASSUME ChainInv, TypeInv', ~failed, FilterHolds PROVE HeldRight' /\ ReadRight'
  BY DEF ChainInv
<1>1. PICK f \in Filters : f = Called
  BY ChainFacts DEF FilterHolds, ChainInv
<1>2. /\ TypeInv /\ HeldRight /\ Calling /\ Looking /\ Holders = {}
      /\ Len(read) \in 2..Len(Pattern[f])
      /\ \A j \in 1..(Len(read) - 1) : Char(read[j]) = Pattern[f][j]
      /\ c' = read[1] /\ held' = [held EXCEPT ![f] = Tail(read)]
      /\ lookahead' = lookahead + (Len(read) - 1)
      /\ read' = <<>> /\ at' = at + 1 /\ UNCHANGED <<origin, filters>>
  BY <1>1 DEF FilterHolds, ChainInv, ReadRight, Tell
<1>3. f = filters[at] /\ at \in DOMAIN filters /\ at \in Nat /\ at > 0
  BY <1>1, <1>2, ChainFacts DEF Called, Calling
<1>4. /\ read \in Seq(Nat) /\ Len(read) \in Nat /\ Len(read) > 1
      /\ Tail(read) \in Seq(Nat) /\ Len(Tail(read)) = Len(read) - 1
      /\ \A j \in 1..(Len(read) - 1) : Tail(read)[j] = read[j + 1]
  <2>1. read \in Seq(Nat) /\ read # <<>> /\ Len(read) \in Nat /\ Len(Pattern[f]) \in Nat
    BY <1>2, LenProperties, PatternFacts DEF TypeInv, TypeOK, Looking
  <2> QED
    BY <1>2, <2>1, HeadTailProperties
<1>5. held'[f] = Tail(read) /\ \A g \in Filters \ {f} : held'[g] = <<>>
  BY <1>2 DEF TypeInv, TypeOK, Holders
<1>6. Tail(read) # <<>>
  <2>1. Len(Tail(read)) = Len(read) - 1 /\ Len(read) \in Nat /\ Len(read) > 1
    BY <1>4
  <2>2. \A n \in Nat : n > 1 => n - 1 # 0
    OBVIOUS
  <2>3. Len(Tail(read)) # 0
    BY <2>1, <2>2, Zenon
  <2>4. Len(<<>>) = 0
    BY EmptySeq
  <2> QED
    BY <2>3, <2>4, Zenon
<1>7. Holders' = {f} /\ Held' = Tail(read)
  <2>1. Holders' = {f}
    BY <1>5, <1>6 DEF Holders
  <2> QED
    BY <1>5, <2>1 DEF Held
<1>8. ~Pending'
  <2>1. \A g \in Filters \ {Called} : held'[g] = <<>>
    BY <1>1, <1>5
  <2> QED
    BY <1>2, <2>1, NothingAfter
<1>9. lookahead' = Len(Held')
  <2>1. lookahead = 0
    BY <1>2, NothingPending
  <2>2. lookahead' = 0 + (Len(read) - 1)
    BY <1>2, <2>1
  <2> QED
    BY <1>4, <1>7, <2>2
<1>10. Follows(f)'
  <2>1. Len(Pattern[f]) \in Nat /\ Len(Pattern[f]) > 1
    BY PatternFacts
  <2>2. 1 \in 1..Len(Pattern[f]) /\ 1 + Len(held'[f]) <= Len(Pattern[f])
    BY <1>2, <1>4, <1>5, <2>1
  <2>3. Current' = read[1]
    BY <1>2, <1>3 DEF Current
  <2>4. Char(Current') = Pattern[f][1]
    BY <1>2, <1>4, <2>3
  <2>5. \A j \in 1..(Len(held'[f]) - 1) : Char(held'[f][j]) = Pattern[f][1 + j]
    <3> SUFFICES ASSUME NEW j \in 1..(Len(held'[f]) - 1)
                 PROVE  Char(held'[f][j]) = Pattern[f][1 + j]
      OBVIOUS
    <3>1. j + 1 \in 1..(Len(read) - 1) /\ held'[f][j] = read[j + 1] /\ j + 1 = 1 + j
      BY <1>4, <1>5
    <3> QED
      BY <1>2, <3>1
  <2>6. \E k \in 1..Len(Pattern[f]) :
            /\ k + Len(held'[f]) <= Len(Pattern[f])
            /\ Char(Current') = Pattern[f][k]
            /\ \A j \in 1..(Len(held'[f]) - 1) : Char(held'[f][j]) = Pattern[f][k + j]
    BY <2>2, <2>4, <2>5, Zenon
  <2> QED
    BY <1>2, <2>6, FollowsNext, Zenon
<1>11. Holders' \subseteq InUse(filters)'
  BY <1>2, <1>3, <1>7 DEF InUse
<1>12. \A g, h \in Holders' : g = h
  BY <1>7
<1>13. \A g \in Holders' : Follows(g)'
  BY <1>7, <1>10
<1>14. HeldRight'
  BY <1>8, <1>9, <1>11, <1>12, <1>13 DEF HeldRight
<1> QED
  BY <1>2, <1>14 DEF ReadRight, Looking

LEMMA ChainEnds == ChainInv /\ TypeInv' /\ ~failed /\ ScanEnds => ChainInv'
<1> SUFFICES ASSUME ChainInv, TypeInv', ~failed, ScanEnds PROVE HeldRight' /\ ReadRight'
  BY DEF ChainInv
<1>1. /\ TypeInv /\ HeldRight /\ ReadRight /\ at = Len(filters) + 1 /\ at' = 0 /\ last' = c
      /\ UNCHANGED <<origin, lookahead, filters, held, read>>
  BY DEF ScanEnds, ChainInv, chain
<1>2. ~Pending /\ ~Pending' /\ ~Calling /\ at > 0
  BY <1>1, ChainFacts DEF Pending, Calling
<1>3. Holders' = Holders /\ Held' = Held
  BY <1>1 DEF Holders, Held
<1>4. Current' = Current
  BY <1>1, <1>2 DEF Current
<1>5. \A f \in Holders : Follows(f)'
  BY <1>1, <1>4, FollowsStill DEF HeldRight
<1>6. HeldRight'
  BY <1>1, <1>2, <1>3, <1>5 DEF HeldRight
<1> QED
  BY <1>1, <1>2, <1>6, NotLooking DEF ReadRight, Looking

LEMMA ChainStep == ChainInv /\ [Next]_vars => ChainInv'
<1> SUFFICES ASSUME ChainInv, [Next]_vars PROVE ChainInv'
  OBVIOUS
<1>0. TypeInv'
  BY TypeStep DEF ChainInv
<1> SUFFICES ASSUME ~failed' PROVE ChainInv'
  BY <1>0 DEF ChainInv
<1> USE <1>0
<1>1. CASE ParserScan
  <2>1. ~failed /\ at = 0 /\ lookahead = 0 /\ UNCHANGED <<lookahead, held, read>>
    BY <1>1 DEF ParserScan, Unread, chain, Free
  <2> QED
    BY <2>1, ChainRestarts
<1>2. CASE ScanFilter
  BY <1>2, ChainScan
<1>3. CASE ScanFails
  BY <1>3 DEF ScanFails, Unread
<1>4. CASE FilterGives
  BY <1>4, ChainGives DEF FilterGives
<1>5. CASE FilterPasses
  BY <1>5, ChainPasses DEF FilterPasses
<1>6. CASE FilterLooks
  BY <1>6, ChainLooks DEF FilterLooks, Unread
<1>7. ASSUME Looking, ~failed PROVE Holders = {}
  BY <1>7 DEF ChainInv, ReadRight
<1>8. CASE FilterReplaces
  BY <1>7, <1>8, ChainEmpty DEF FilterReplaces, chain
<1>9. CASE FilterDrops
  BY <1>7, <1>9, ChainEmpty DEF FilterDrops, Unread, chain
<1>10. CASE FilterHolds
  BY <1>10, ChainHolds DEF FilterHolds
<1>11. CASE FilterFails
  BY <1>11 DEF FilterFails
<1>12. CASE ScanEnds
  BY <1>12, ChainEnds DEF ScanEnds
<1>13. CASE TokenStarts
  BY <1>13, ChainSame DEF TokenStarts, place
<1>14. CASE TokenFails
  BY <1>14, ChainSame DEF TokenFails
<1>15. CASE CallbackReturns
  BY <1>15, ChainSame DEF CallbackReturns
<1>16. CASE AddFilter
  BY <1>16, ChainRestarts DEF AddFilter, Free
<1>17. CASE RemoveFilter
  BY <1>17, ChainRestarts DEF RemoveFilter, Free
<1>18. CASE AddCallback
  BY <1>18, ChainSame DEF AddCallback
<1>19. CASE RemoveCallback
  BY <1>19, ChainSame DEF RemoveCallback
<1>20. CASE UNCHANGED vars
  BY <1>20, ChainSame DEF vars, chain
<1> QED
  BY <1>1, <1>2, <1>3, <1>4, <1>5, <1>6, <1>8, <1>9, <1>10, <1>11, <1>12, <1>13, <1>14,
     <1>15, <1>16, <1>17, <1>18, <1>19, <1>20 DEF Next, Undefined

LEMMA ChainInit == Init => ChainInv
<1> SUFFICES ASSUME Init PROVE ChainInv
  OBVIOUS
<1>1. Holders = {} /\ Held = <<>> /\ Len(Held) = 0 /\ ~Pending
  BY EmptySeq DEF Init, Holders, Held, Pending
<1>2. HeldRight /\ ReadRight
  BY <1>1 DEF Init, HeldRight, ReadRight, Looking
<1> QED
  BY <1>2, TypeInit DEF ChainInv

LEMMA ChainAlways == Spec => []ChainInv
  BY ChainInit, ChainStep, PTL DEF Spec

(* What the parser counts as read ahead is what the filters hold, with any *)
(* number of filters, of any patterns that ParserAssumption allows.        *)
THEOREM LookaheadExactAlways == Spec => []LookaheadExact
<1>1. ChainInv => LookaheadExact
  BY DEF ChainInv, HeldRight, LookaheadExact, Pending
<1> QED
  BY <1>1, ChainAlways, PTL
----------------------------------------------------------------------------
(* The order.                                                              *)

LEMMA NoneFacts ==
    /\ <<>> \in Seq(Nat) /\ InUse(<<>>) = {} /\ \A n : Ordered(<<>>, n)
    /\ \A x \in Nat : /\ <<x>> \in Seq(Nat) /\ InUse(<<x>>) = {x} /\ Append(<<>>, x) = <<x>>
                      /\ \A n : Ordered(<<x>>, n)
<1>1. <<>> \in Seq(Nat) /\ DOMAIN <<>> = {}
  OBVIOUS
<1>2. InUse(<<>>) = {} /\ \A n : Ordered(<<>>, n)
  BY <1>1 DEF InUse, Ordered
<1>3. ASSUME NEW x \in Nat
      PROVE  /\ <<x>> \in Seq(Nat) /\ InUse(<<x>>) = {x} /\ Append(<<>>, x) = <<x>>
             /\ \A n : Ordered(<<x>>, n)
  <2>1. <<x>> \in Seq(Nat) /\ DOMAIN <<x>> = {1} /\ <<x>>[1] = x
    OBVIOUS
  <2>2. InUse(<<x>>) = {x} /\ \A n : Ordered(<<x>>, n)
    BY <2>1 DEF InUse, Ordered
  <2> QED
    BY <2>1, <2>2
<1> QED
  BY <1>1, <1>2, <1>3

LEMMA AppendFacts ==
    ASSUME NEW s \in Seq(Nat), NEW x \in Nat
    PROVE  /\ Append(s, x) \in Seq(Nat) /\ InUse(Append(s, x)) = InUse(s) \cup {x}
           /\ \A n : Ordered(s, n) /\ Before(InUse(s), {x}, n) => Ordered(Append(s, x), n)
<1> DEFINE l == Len(s)
           t == Append(s, x)
<1>1. /\ t \in Seq(Nat) /\ Len(t) = l + 1 /\ l \in Nat
      /\ \A j \in 1..l : t[j] = s[j]
      /\ t[l + 1] = x
  BY AppendProperties, LenProperties
<1>2. DOMAIN t = 1..(l + 1) /\ DOMAIN s = 1..l
  BY <1>1, LenProperties
<1> HIDE DEF t, l
<1>3. 1..(l + 1) = (1..l) \cup {l + 1}
  BY <1>1
<1>4. InUse(t) = InUse(s) \cup {x}
  BY <1>1, <1>2, <1>3 DEF InUse
<1>5. ASSUME NEW n, Ordered(s, n), Before(InUse(s), {x}, n) PROVE Ordered(t, n)
  <2> SUFFICES ASSUME NEW j \in 1..(l + 1), NEW k \in 1..(l + 1), j < k, t[k] \in 1..n
               PROVE  t[j] < t[k]
    BY <1>2 DEF Ordered
  <2>1. j \in 1..l /\ t[j] = s[j]
    BY <1>1
  <2>2. CASE k = l + 1
    <3>1. t[k] = x /\ s[j] \in InUse(s)
      BY <1>1, <1>2, <2>1, <2>2 DEF InUse
    <3> QED
      BY <1>5, <2>1, <3>1 DEF Before
  <2>3. CASE k # l + 1
    <3>1. k \in 1..l /\ t[k] = s[k]
      BY <1>1, <1>3, <2>3
    <3> QED
      BY <1>2, <1>5, <2>1, <3>1 DEF Ordered
  <2> QED
    BY <2>2, <2>3
<1> QED
  BY <1>1, <1>4, <1>5 DEF t

LEMMA TailFacts ==
    ASSUME NEW s \in Seq(Nat), s # <<>>
    PROVE  /\ s[1] \in Nat /\ Head(s) = s[1] /\ Tail(s) \in Seq(Nat)
           /\ InUse(s) = {s[1]} \cup InUse(Tail(s))
           /\ InUse(Tail(s)) = {s[k] : k \in 2..Len(s)}
           /\ \A n : Ordered(s, n) =>
                  Ordered(Tail(s), n) /\ Before({s[1]}, InUse(Tail(s)), n)
<1> DEFINE l == Len(s) - 1
           t == Tail(s)
<1>1. /\ s[1] \in Nat /\ Head(s) = s[1] /\ t \in Seq(Nat) /\ Len(t) = l /\ l \in Nat
      /\ \A j \in 1..l : t[j] = s[j + 1]
  <2>1. Len(s) \in Nat \ {0}
    BY EmptySeq
  <2> QED
    BY <2>1, HeadTailProperties, ElementOfSeq
<1>2. DOMAIN t = 1..l /\ DOMAIN s = 1..(l + 1) /\ Len(s) = l + 1
  <2>1. Len(s) \in Nat /\ DOMAIN s = 1..Len(s) /\ DOMAIN t = 1..Len(t)
    BY <1>1, LenProperties
  <2> QED
    BY <1>1, <2>1
<1> HIDE DEF t, l
<1>3. \A k \in 2..(l + 1) : k - 1 \in 1..l /\ t[k - 1] = s[k]
  BY <1>1
<1>4. InUse(t) = {s[k] : k \in 2..(l + 1)}
  <2>1. ASSUME NEW j \in 1..l PROVE j + 1 \in 2..(l + 1) /\ t[j] = s[j + 1]
    BY <1>1
  <2>2. InUse(t) = {t[j] : j \in 1..l}
    BY <1>2 DEF InUse
  <2>3. \A x : x \in InUse(t) => x \in {s[k] : k \in 2..(l + 1)}
    BY <2>1, <2>2
  <2>4. \A x : x \in {s[k] : k \in 2..(l + 1)} => x \in InUse(t)
    BY <1>3, <2>2
  <2> QED
    BY <2>3, <2>4
<1>5. InUse(s) = {s[1]} \cup InUse(t)
  <2>1. 1..(l + 1) = {1} \cup 2..(l + 1)
    BY <1>1
  <2> QED
    BY <1>2, <1>4, <2>1 DEF InUse
<1>6. ASSUME NEW n, Ordered(s, n) PROVE Ordered(t, n) /\ Before({s[1]}, InUse(t), n)
  <2>1. ASSUME NEW j \in 1..l, NEW k \in 1..l, j < k, t[k] \in 1..n PROVE t[j] < t[k]
    <3>1. t[j] = s[j + 1] /\ t[k] = s[k + 1]
      BY <1>1
    <3>2. j + 1 \in 1..(l + 1) /\ k + 1 \in 1..(l + 1) /\ j + 1 < k + 1
      BY <1>1, <2>1
    <3>3. s[k + 1] \in 1..n => s[j + 1] < s[k + 1]
      BY <1>2, <1>6, <3>2 DEF Ordered
    <3> QED
      BY <2>1, <3>1, <3>3
  <2>2. ASSUME NEW k \in 2..(l + 1), s[k] \in 1..n PROVE s[1] < s[k]
    <3>1. 1 \in 1..(l + 1) /\ k \in 1..(l + 1) /\ 1 < k
      BY <1>1
    <3> QED
      BY <1>2, <1>6, <2>2, <3>1 DEF Ordered
  <2> QED
    BY <1>2, <1>4, <2>1, <2>2 DEF Ordered, Before
<1> QED
  BY <1>1, <1>2, <1>4, <1>5, <1>6 DEF t
(* One more is read, q, the next or, past the source, the same again.      *)
LEMMA SoundReads ==
    ASSUME NEW G \in Seq(Nat), NEW F \in Seq(Nat), NEW d, NEW p \in Nat, NEW q \in Nat, NEW n \in Nat,
           Sound(G, F, <<>>, d, p, n), q > 0, q = p + 1 \/ q = p, q = p => p > n
    PROVE  Sound(G, Append(F, q), <<>>, d, q, n)
<1> DEFINE A == InUse(G)
           B == InUse(F)
<1>1. InUse(<<>>) = {} /\ Ordered(<<>>, n)
  BY NoneFacts
<1>2. /\ Ordered(G, n) /\ Ordered(F, n) /\ Before(A, B, n)
      /\ Accounted(A \cup B, d, p, n) /\ A \cup B \subseteq 1..p
  BY <1>1 DEF Sound
<1>3. InUse(Append(F, q)) = B \cup {q} /\ (Before(B, {q}, n) => Ordered(Append(F, q), n))
  BY <1>2, AppendFacts
<1> HIDE DEF A, B
<1>4. \A x \in A \cup B : q \in 1..n => x < q
  BY <1>2
<1>5. Before(A, B \cup {q}, n) /\ Before(B, {q}, n)
  BY <1>2, <1>4 DEF Before
<1>6. Accounted(A \cup (B \cup {q}), d, q, n)
  <2> SUFFICES ASSUME NEW x \in 1..n
               PROVE  /\ x \in (A \cup (B \cup {q})) \cup d <=> x <= q
                      /\ x \notin (A \cup (B \cup {q})) \cap d
    BY DEF Accounted
  <2>1. (x \in (A \cup B) \cup d <=> x <= p) /\ x \notin (A \cup B) \cap d
    BY <1>2 DEF Accounted
  <2>2. x <= q <=> x <= p \/ x = q
    OBVIOUS
  <2>3. x = q => ~(x <= p)
    OBVIOUS
  <2> QED
    BY <2>1, <2>2, <2>3
<1>7. A \cup (B \cup {q}) \subseteq 1..q
  BY <1>2
<1>8. Before(A \cup (B \cup {q}), {}, n)
  BY DEF Before
<1>9. A \cup (B \cup {q}) \cup {} = A \cup (B \cup {q})
  OBVIOUS
<1> QED
  BY <1>1, <1>2, <1>3, <1>5, <1>6, <1>7, <1>8, <1>9 DEF Sound, A, B

(* The first of those read or held goes on, the others are held.           *)
LEMMA SoundParts ==
    ASSUME NEW G \in Seq(Nat), NEW s \in Seq(Nat), s # <<>>, NEW d, NEW p \in Nat, NEW n \in Nat,
           Sound(G, <<>>, s, d, p, n) \/ Sound(G, s, <<>>, d, p, n)
    PROVE  Sound(G, <<s[1]>>, Tail(s), d, p, n) /\ s[1] \in 1..p
<1> DEFINE A == InUse(G)
           T == InUse(Tail(s))
<1>1. InUse(<<>>) = {}
  BY NoneFacts
<1>2. s[1] \in Nat /\ InUse(s) = {s[1]} \cup T
      /\ (Ordered(s, n) => Ordered(Tail(s), n) /\ Before({s[1]}, T, n))
  BY TailFacts
<1>3. InUse(<<s[1]>>) = {s[1]} /\ Ordered(<<s[1]>>, n)
  BY <1>2, NoneFacts
<1>4. /\ Ordered(G, n) /\ Ordered(s, n) /\ Before(A, InUse(s), n)
      /\ Accounted(A \cup InUse(s), d, p, n) /\ A \cup InUse(s) \subseteq 1..p
  <2>1. A \cup InUse(s) \cup {} = A \cup InUse(s) /\ A \cup {} \cup InUse(s) = A \cup InUse(s)
        /\ A \cup {} = A
    OBVIOUS
  <2> QED
    BY <1>1, <2>1 DEF Sound
<1>5. Before(A, {s[1]}, n) /\ Before(A \cup {s[1]}, T, n)
  BY <1>2, <1>4 DEF Before
<1>6. A \cup {s[1]} \cup T = A \cup InUse(s)
  BY <1>2
<1>7. s[1] \in 1..p
  BY <1>2, <1>4
<1> QED
  BY <1>2, <1>3, <1>4, <1>5, <1>6, <1>7 DEF Sound

(* The one under way is given: what is past the source is not.             *)
LEMMA SoundGives ==
    ASSUME NEW G \in Seq(Nat), NEW H \in Seq(Nat), NEW x \in Nat, NEW d, NEW p \in Nat, NEW n \in Nat,
           Sound(G, <<x>>, H, d, p, n),
           NEW g, g = IF x \in 1..n THEN Append(G, x) ELSE G
    PROVE  Sound(g, <<>>, H, d, p, n)
<1> DEFINE A == InUse(G)
           B == InUse(H)
<1>1. InUse(<<>>) = {} /\ Ordered(<<>>, n) /\ InUse(<<x>>) = {x}
  BY NoneFacts
<1>2. /\ Ordered(G, n) /\ Ordered(H, n) /\ Before(A, {x}, n) /\ Before(A \cup {x}, B, n)
      /\ Accounted(A \cup {x} \cup B, d, p, n) /\ A \cup {x} \cup B \subseteq 1..p
  BY <1>1 DEF Sound
<1>3. CASE x \in 1..n
  <2>1. g = Append(G, x) /\ InUse(g) = A \cup {x} /\ Ordered(g, n)
    BY <1>2, <1>3, AppendFacts
  <2> HIDE DEF A, B
  <2>2. Before(A \cup {x}, {}, n) /\ (A \cup {x}) \cup {} = A \cup {x}
    BY DEF Before
  <2> QED
    BY <1>1, <1>2, <2>1, <2>2 DEF Sound, B
<1>4. CASE x \notin 1..n
  <2>1. g = G
    BY <1>4
  <2> HIDE DEF A, B
  <2>2. Before(A, {}, n) /\ Before(A, B, n) /\ A \cup {} = A
    BY <1>2 DEF Before
  <2>3. Accounted(A \cup B, d, p, n) /\ A \cup B \subseteq 1..p
    BY <1>2, <1>4 DEF Accounted
  <2> QED
    BY <1>1, <1>2, <2>1, <2>2, <2>3 DEF Sound, A, B
<1> QED
  BY <1>3, <1>4

(* What was read is dropped but for the first, which goes on.              *)
LEMMA SoundReplaces ==
    ASSUME NEW G \in Seq(Nat), NEW s \in Seq(Nat), s # <<>>, NEW d, NEW p \in Nat, NEW n \in Nat,
           Sound(G, s, <<>>, d, p, n)
    PROVE  Sound(G, <<s[1]>>, <<>>, d \cup {s[k] : k \in 2..Len(s)}, p, n) /\ s[1] \in 1..p
<1> DEFINE A == InUse(G)
           T == InUse(Tail(s))
           e == d \cup {s[k] : k \in 2..Len(s)}
<1>1. Sound(G, <<s[1]>>, Tail(s), d, p, n) /\ s[1] \in 1..p
  BY SoundParts
<1>2. InUse(<<>>) = {} /\ Ordered(<<>>, n) /\ InUse(<<s[1]>>) = {s[1]} /\ e = d \cup T
  BY <1>1, NoneFacts, TailFacts
<1>3. /\ Ordered(G, n) /\ Ordered(<<s[1]>>, n) /\ Before(A, {s[1]}, n)
      /\ Before(A \cup {s[1]}, T, n)
      /\ Accounted(A \cup {s[1]} \cup T, d, p, n) /\ A \cup {s[1]} \cup T \subseteq 1..p
  BY <1>1, <1>2 DEF Sound
<1> HIDE DEF A, T, e
<1>4. Before(A \cup {s[1]}, {}, n) /\ A \cup {s[1]} \cup {} = A \cup {s[1]}
  BY DEF Before
<1>5. Accounted(A \cup {s[1]}, e, p, n)
  <2> SUFFICES ASSUME NEW x \in 1..n
               PROVE  (x \in (A \cup {s[1]}) \cup e <=> x <= p) /\ x \notin (A \cup {s[1]}) \cap e
    BY DEF Accounted
  <2>1. /\ x \in (A \cup {s[1]} \cup T) \cup d <=> x <= p
        /\ x \notin (A \cup {s[1]} \cup T) \cap d
    BY <1>3 DEF Accounted
  <2>2. x \notin (A \cup {s[1]}) \cap T
    BY <1>3 DEF Before
  <2> QED
    BY <1>2, <2>1, <2>2
<1> QED
  BY <1>1, <1>2, <1>3, <1>4, <1>5 DEF Sound, A, e

(* All that was read is dropped.                                           *)
LEMMA SoundDrops ==
    ASSUME NEW G \in Seq(Nat), NEW s \in Seq(Nat), s # <<>>, NEW d, NEW p \in Nat, NEW n \in Nat,
           Sound(G, s, <<>>, d, p, n)
    PROVE  Sound(G, <<>>, <<>>, d \cup {s[k] : k \in 1..Len(s)}, p, n)
<1> DEFINE A == InUse(G)
           B == InUse(s)
           e == d \cup {s[k] : k \in 1..Len(s)}
<1>1. InUse(<<>>) = {} /\ Ordered(<<>>, n) /\ e = d \cup B
  BY NoneFacts, LenProperties DEF InUse
<1>2. /\ Ordered(G, n) /\ Before(A, B, n)
      /\ Accounted(A \cup B, d, p, n) /\ A \cup B \subseteq 1..p
  BY <1>1 DEF Sound
<1> HIDE DEF A, B, e
<1>3. Before(A, {}, n) /\ A \cup {} = A
  BY DEF Before
<1>4. Accounted(A, e, p, n)
  <2> SUFFICES ASSUME NEW x \in 1..n PROVE (x \in A \cup e <=> x <= p) /\ x \notin A \cap e
    BY DEF Accounted
  <2>1. (x \in (A \cup B) \cup d <=> x <= p) /\ x \notin (A \cup B) \cap d
    BY <1>2 DEF Accounted
  <2>2. x \notin A \cap B
    BY <1>2 DEF Before
  <2> QED
    BY <1>1, <2>1, <2>2
<1> QED
  BY <1>1, <1>2, <1>3, <1>4 DEF Sound, A, e
LEMMA FlightFacts ==
    ASSUME ChainInv, ~failed
    PROVE  /\ TypeInv /\ HeldRight /\ ReadRight
           /\ Len(source) \in Nat /\ pos \in Nat /\ c \in Nat
           /\ given \in Seq(Nat) /\ read \in Seq(Nat) /\ Held \in Seq(Nat)
           /\ Holders = {} => ~Pending /\ lookahead = 0 /\ Held = <<>>
           /\ ~Calling => read = <<>>
           /\ Looking => Calling /\ Holders = {} /\ at > 0
<1>1. TypeInv /\ HeldRight /\ ReadRight
  BY DEF ChainInv
<1>2. Held \in Seq(Nat) /\ (Holders = {} => ~Pending /\ lookahead = 0 /\ Held = <<>>)
  BY <1>1, HeldFacts, NothingPending DEF HeldRight
<1>3. (~Calling => read = <<>>) /\ (Looking => Calling /\ Holders = {} /\ at > 0)
  BY <1>1, NotLooking, ChainFacts DEF ReadRight, Calling
<1> QED
  BY <1>1, <1>2, <1>3, SourceFacts DEF TypeInv, TypeOK

(* The next character is new, unless the source is at its end.             *)
LEMMA ScannedReads ==
    ASSUME ChainInv, ~failed, Scanned, NEW q, q = NextPos
    PROVE  /\ q \in Nat /\ q > 0 /\ q \in 1..q /\ pos' = q /\ last' = q
           /\ q = pos + 1 \/ q = pos
           /\ q = pos => pos > Len(source)
  BY FlightFacts, NextPosFacts DEF Scanned, End

LEMMA OrderTogether ==
    ASSUME UNCHANGED origin,
           Sound(given', Flight', Held', dropped', pos', Len(source)),
           last' <= pos', at' > 0 => c' \in 1..pos', step' = "callback" => last' > 0
    PROVE  OrderRight'
  BY DEF OrderRight, origin

(* Nothing is in the chain, and nothing enters it.                         *)
LEMMA OrderStill ==
    ASSUME OrderInv, ~failed, at = 0, step' = "callback" => last > 0,
           UNCHANGED <<origin, pos, last, held, given, dropped, at>>
    PROVE  OrderRight'
<1>1. OrderRight
  BY DEF OrderInv
<1>2. Flight = <<>> /\ Flight' = <<>>
  BY DEF Flight
<1>3. Held' = Held
  BY DEF Held, Holders
<1>4. Sound(given', Flight', Held', dropped', pos', Len(source))
  BY <1>1, <1>2, <1>3 DEF OrderRight
<1> QED
  BY <1>1, <1>4, OrderTogether DEF OrderRight

LEMMA OrderParserScan ==
    ASSUME OrderInv, ~failed, ~failed', ParserScan
    PROVE  OrderRight'
<1>1. /\ Scanned /\ Give(NextPos) /\ at = 0 /\ at' = 0 /\ lookahead = 0
      /\ UNCHANGED <<origin, held, dropped, step>>
  BY DEF ParserScan, Unread, Free, chain, token
<1>2. ChainInv /\ OrderRight
  BY DEF OrderInv
<1>3. Holders = {} /\ Held = <<>>
  BY <1>1, <1>2, NothingHeld, FlightFacts
<1>4. Flight = <<>> /\ Flight' = <<>> /\ Held' = <<>>
  BY <1>1, <1>3 DEF Flight, Held, Holders
<1>5. PICK q : q = NextPos
  OBVIOUS
<1>6. /\ q \in Nat /\ q > 0 /\ pos' = q /\ last' = q /\ (q = pos + 1 \/ q = pos)
      /\ q = pos => pos > Len(source)
  BY <1>1, <1>2, <1>5, ScannedReads
<1>7. Sound(given, Append(<<>>, q), <<>>, dropped, q, Len(source))
  BY <1>2, <1>3, <1>4, <1>6, FlightFacts, NoneFacts, SoundReads DEF OrderRight
<1>8. Sound(given, <<q>>, <<>>, dropped, q, Len(source))
  BY <1>6, <1>7, NoneFacts
<1>9. given' = IF q \in 1..Len(source) THEN Append(given, q) ELSE given
  BY <1>1, <1>5 DEF Give
<1>10. Sound(given', <<>>, <<>>, dropped, q, Len(source))
  BY <1>2, <1>6, <1>8, <1>9, FlightFacts, NoneFacts, SoundGives
<1> QED
  BY <1>1, <1>4, <1>6, <1>10, OrderTogether

LEMMA OrderScan ==
    ASSUME OrderInv, ~failed, ChainInv', ~failed', ScanFilter
    PROVE  OrderRight'
<1>1. at = 0 /\ at' = 1 /\ UNCHANGED <<origin, filters, held, step, read, given, dropped>>
  BY DEF ScanFilter, chain, token
<1>2. ChainInv /\ OrderRight /\ TypeInv /\ HeldRight /\ ~Calling
  BY <1>1, FlightFacts, ChainFacts DEF OrderInv, Calling
<1>3. Flight = <<>> /\ Holders' = Holders /\ Held' = Held /\ read' = <<>> /\ ~Looking'
  BY <1>1, <1>2, FlightFacts DEF Flight, Held, Holders, Looking
<1>4. CASE Replay
  <2>1. lookahead > 0 /\ c' = last /\ UNCHANGED <<pos, last>>
    BY <1>4 DEF Replay, place
  <2>2. Pending' /\ Holders # {}
    BY <1>1, <1>2, <2>1, ReplayPending
  <2>3. last # 0
    BY <1>1, <1>2, <2>2, HeldAfterText DEF Current
  <2>4. c' \in 1..pos /\ last' > 0
    BY <1>2, <2>1, <2>3, FlightFacts DEF OrderRight, TypeInv, TypeOK
  <2>5. Flight' = <<>>
    BY <2>2 DEF Flight
  <2>6. Sound(given', Flight', Held', dropped', pos', Len(source))
    BY <1>1, <1>2, <1>3, <2>1, <2>5 DEF OrderRight
  <2> QED
    BY <1>1, <1>2, <2>1, <2>4, <2>6, OrderTogether DEF OrderRight
<1>5. CASE Fresh
  <2>1. lookahead = 0 /\ Scanned /\ c' = NextPos
    BY <1>5 DEF Fresh
  <2>2. Holders = {} /\ Held = <<>>
    BY <1>1, <1>2, <2>1, NothingHeld, FlightFacts
  <2>3. PICK q : q = NextPos
    OBVIOUS
  <2>4. /\ q \in Nat /\ q > 0 /\ q \in 1..q /\ pos' = q /\ last' = q /\ (q = pos + 1 \/ q = pos)
        /\ q = pos => pos > Len(source)
    BY <1>2, <2>1, <2>3, ScannedReads
  <2>5. ~Pending'
    BY <1>1, <1>2, <1>3, <2>2, ChainFacts DEF Pending, Holders
  <2>6. Flight' = <<q>>
    BY <1>1, <1>3, <2>1, <2>3, <2>5 DEF Flight
  <2>7. Sound(given, Append(<<>>, q), <<>>, dropped, q, Len(source))
    BY <1>2, <1>3, <2>2, <2>4, FlightFacts, NoneFacts, SoundReads DEF OrderRight
  <2>8. Sound(given', Flight', Held', dropped', pos', Len(source))
    BY <1>1, <1>3, <2>2, <2>4, <2>6, <2>7, NoneFacts
  <2> QED
    BY <1>1, <2>1, <2>3, <2>4, <2>8, OrderTogether
<1> QED
  BY <1>4, <1>5 DEF ScanFilter
LEMMA OrderGives ==
    ASSUME OrderInv, ~failed, FilterGives
    PROVE  OrderRight'
<1>0. ChainInv /\ OrderRight /\ TypeInv /\ HeldRight
  BY FlightFacts DEF OrderInv
<1>f. PICK f \in Filters : f = Called
  BY <1>0, ChainFacts DEF FilterGives
<1>1. PICK s : f = Called /\ s = held[f]
  BY <1>f
<1>2. /\ Calling /\ s # <<>> /\ c' = Head(s) /\ held' = [held EXCEPT ![f] = Tail(s)]
      /\ at' = at + 1 /\ UNCHANGED <<origin, filters, pos, last, step, read, given, dropped>>
  BY <1>1 DEF FilterGives, Holds, place, token
<1>3. f \in Holders /\ at \in DOMAIN filters /\ f = filters[at] /\ at \in Nat /\ at > 0
  BY <1>0, <1>1, <1>2, ChainFacts DEF Holders, Called, Calling
<1>4. Held = s /\ Holders = {f} /\ s \in Seq(Nat)
  BY <1>0, <1>1, <1>3, HeldFacts DEF HeldRight
<1>5. Flight = <<>> /\ ~Looking'
  <2>1. Pending
    BY <1>1, <1>2, <1>3 DEF Pending
  <2>2. ~Looking
    BY <1>0, <1>4, FlightFacts
  <2> QED
    BY <1>2, <2>1, <2>2 DEF Flight, Looking
<1>6. held'[f] = Tail(s) /\ \A g \in Filters \ {f} : held'[g] = <<>>
  BY <1>0, <1>2, <1>4 DEF TypeInv, TypeOK, Holders
<1>7. Held' = Tail(s)
  BY <1>6, HeldNext
<1>8. ~Pending'
  BY <1>0, <1>1, <1>2, <1>6, NothingAfter
<1>9. s[1] \in Nat /\ Head(s) = s[1]
  BY <1>2, <1>4, TailFacts
<1>10. Flight' = <<s[1]>>
  BY <1>2, <1>3, <1>5, <1>8, <1>9 DEF Flight
<1>11. Sound(given, <<s[1]>>, Tail(s), dropped, pos, Len(source)) /\ s[1] \in 1..pos
  BY <1>0, <1>2, <1>4, <1>5, FlightFacts, SoundParts DEF OrderRight
<1> QED
  BY <1>0, <1>2, <1>7, <1>9, <1>10, <1>11, OrderTogether DEF OrderRight

LEMMA OrderPasses ==
    ASSUME OrderInv, ~failed, FilterPasses
    PROVE  OrderRight'
<1>1. ChainInv /\ OrderRight /\ TypeInv
  BY FlightFacts DEF OrderInv
<1>2. /\ Calling /\ ~Holds /\ at' = at + 1 /\ at \in Nat /\ at > 0
      /\ UNCHANGED <<origin, pos, last, filters, held, step, c, read, given, dropped>>
  BY <1>1, ChainFacts DEF FilterPasses, Calling, place, chain, token
<1>3. Pending' = Pending /\ Held' = Held /\ Looking' = Looking
  BY <1>1, <1>2, PassesPending DEF Held, Holders, Looking
<1>4. Flight' = Flight
  BY <1>2, <1>3 DEF Flight
<1> QED
  BY <1>1, <1>2, <1>3, <1>4, OrderTogether DEF OrderRight

LEMMA OrderLooks ==
    ASSUME OrderInv, ~failed, ~failed', FilterLooks
    PROVE  OrderRight'
<1>1. ChainInv /\ OrderRight /\ TypeInv /\ HeldRight
  BY FlightFacts DEF OrderInv
<1>2. /\ WantsMore /\ Calling /\ Scanned /\ read' = Append(Reading, NextPos)
      /\ UNCHANGED <<origin, filters, held, step, at, c, given, dropped>>
  BY DEF FilterLooks, WantsMore, Unread, chain, token
<1>3. Holders = {} /\ Held = <<>> /\ Held' = <<>> /\ ~Pending /\ ~Pending' /\ at > 0
  <2>1. Holders = {} /\ at > 0
    BY <1>1, <1>2, LooksAlone, ChainFacts DEF Calling
  <2>2. Held = <<>> /\ ~Pending
    BY <1>1, <2>1, FlightFacts
  <2> QED
    BY <1>2, <2>1, <2>2 DEF Held, Holders, Pending
<1>4. Flight = Reading /\ Reading \in Seq(Nat)
  BY <1>1, <1>3, FlightFacts, NoneFacts DEF Flight, Reading, Looking
<1>5. PICK q : q = NextPos
  OBVIOUS
<1>6. /\ q \in Nat /\ q > 0 /\ pos' = q /\ last' = q /\ (q = pos + 1 \/ q = pos)
      /\ q = pos => pos > Len(source)
  BY <1>1, <1>2, <1>5, ScannedReads
<1>7. Sound(given, Append(Reading, q), <<>>, dropped, q, Len(source))
  BY <1>1, <1>3, <1>4, <1>6, FlightFacts, SoundReads DEF OrderRight
<1>8. Flight' = Append(Reading, q)
  <2>1. read' # <<>>
    BY <1>2, <1>4, <1>5, <1>6, AppendProperties
  <2> QED
    BY <1>2, <1>3, <1>5, <2>1 DEF Flight, Looking
<1>9. c' \in 1..pos'
  BY <1>1, <1>2, <1>3, <1>6, FlightFacts DEF OrderRight
<1> QED
  BY <1>2, <1>3, <1>6, <1>7, <1>8, <1>9, OrderTogether

LEMMA OrderReplaces ==
    ASSUME OrderInv, ~failed, FilterReplaces
    PROVE  OrderRight'
<1>1. ChainInv /\ OrderRight /\ TypeInv /\ HeldRight
  BY FlightFacts DEF OrderInv
<1>2. /\ Calling /\ read # <<>> /\ c' = read[1] /\ read' = <<>> /\ at' = at + 1
      /\ dropped' = dropped \cup {read[k] : k \in 2..Len(read)}
      /\ UNCHANGED <<origin, filters, held, step, pos, last, given>>
  BY DEF FilterReplaces, Looking, place, chain, token
<1>3. Holders = {} /\ Held = <<>> /\ Held' = <<>> /\ ~Pending /\ at \in Nat /\ at > 0
  BY <1>1, <1>2, FlightFacts, ChainFacts DEF Looking, Held, Holders, Calling
<1>4. ~Pending'
  BY <1>1, <1>2, <1>3, NothingAfter, ChainFacts DEF Holders
<1>5. Flight = read /\ Flight' = <<read[1]>>
  BY <1>2, <1>3, <1>4 DEF Flight, Looking
<1>6. Sound(given', <<read[1]>>, <<>>, dropped', pos, Len(source)) /\ read[1] \in 1..pos
  BY <1>1, <1>2, <1>3, <1>5, FlightFacts, SoundReplaces DEF OrderRight
<1> QED
  BY <1>1, <1>2, <1>3, <1>5, <1>6, OrderTogether DEF OrderRight

LEMMA OrderDrops ==
    ASSUME OrderInv, ~failed, ~failed', FilterDrops
    PROVE  OrderRight'
<1>1. ChainInv /\ OrderRight /\ TypeInv /\ HeldRight
  BY FlightFacts DEF OrderInv
<1>2. /\ Calling /\ read # <<>> /\ Scanned /\ c' = NextPos /\ read' = <<>>
      /\ dropped' = dropped \cup {read[k] : k \in 1..Len(read)}
      /\ UNCHANGED <<origin, filters, held, step, at, given>>
  BY DEF FilterDrops, Unread, Looking, chain, token
<1>3. Holders = {} /\ Held = <<>> /\ Held' = <<>> /\ ~Pending /\ ~Pending' /\ at > 0
  <2>1. Holders = {} /\ Held = <<>> /\ ~Pending /\ at > 0
    BY <1>1, <1>2, FlightFacts DEF Looking
  <2> QED
    BY <1>2, <2>1 DEF Held, Holders, Pending
<1>4. PICK q : q = NextPos
  OBVIOUS
<1>5. /\ q \in Nat /\ q > 0 /\ q \in 1..q /\ pos' = q /\ last' = q /\ (q = pos + 1 \/ q = pos)
      /\ q = pos => pos > Len(source)
  BY <1>1, <1>2, <1>4, ScannedReads
<1>6. Flight = read /\ Flight' = <<q>>
  BY <1>2, <1>3, <1>4 DEF Flight, Looking
<1>7. Sound(given, <<>>, <<>>, dropped', pos, Len(source))
  BY <1>1, <1>2, <1>3, <1>6, FlightFacts, SoundDrops DEF OrderRight
<1>8. Sound(given, Append(<<>>, q), <<>>, dropped', q, Len(source))
  BY <1>1, <1>5, <1>7, FlightFacts, NoneFacts, SoundReads
<1>9. Sound(given', Flight', Held', dropped', pos', Len(source))
  BY <1>2, <1>3, <1>5, <1>6, <1>8, NoneFacts
<1> QED
  BY <1>2, <1>4, <1>5, <1>9, OrderTogether

LEMMA OrderHolds ==
    ASSUME OrderInv, ~failed, FilterHolds
    PROVE  OrderRight'
<1>0. ChainInv /\ OrderRight /\ TypeInv /\ HeldRight
  BY FlightFacts DEF OrderInv
<1>1. PICK f \in Filters : f = Called
  BY <1>0, ChainFacts DEF FilterHolds
<1>2. /\ Calling /\ read # <<>> /\ c' = read[1] /\ held' = [held EXCEPT ![f] = Tail(read)]
      /\ read' = <<>> /\ at' = at + 1
      /\ UNCHANGED <<origin, filters, step, pos, last, given, dropped>>
  BY <1>1 DEF FilterHolds, Looking, place, token
<1>3. Holders = {} /\ Held = <<>> /\ ~Pending /\ at \in Nat /\ at > 0
  BY <1>0, <1>2, FlightFacts, ChainFacts DEF Looking, Calling
<1>4. held'[f] = Tail(read) /\ \A g \in Filters \ {f} : held'[g] = <<>>
  BY <1>0, <1>2, <1>3 DEF TypeInv, TypeOK, Holders
<1>5. Held' = Tail(read)
  BY <1>4, HeldNext
<1>6. ~Pending'
  BY <1>0, <1>1, <1>2, <1>4, NothingAfter
<1>7. Flight = read /\ Flight' = <<read[1]>>
  BY <1>2, <1>3, <1>6 DEF Flight, Looking
<1>8. Sound(given, <<read[1]>>, Tail(read), dropped, pos, Len(source)) /\ read[1] \in 1..pos
  BY <1>0, <1>2, <1>3, <1>7, FlightFacts, SoundParts DEF OrderRight
<1> QED
  BY <1>0, <1>2, <1>5, <1>7, <1>8, OrderTogether DEF OrderRight

LEMMA OrderEnds ==
    ASSUME OrderInv, ~failed, ScanEnds
    PROVE  OrderRight'
<1>1. ChainInv /\ OrderRight /\ TypeInv
  BY FlightFacts DEF OrderInv
<1>2. /\ at = Len(filters) + 1 /\ at' = 0 /\ last' = c /\ Give(c)
      /\ UNCHANGED <<origin, pos, filters, held, read, dropped>>
  BY DEF ScanEnds, place, chain
<1>3. ~Pending /\ at > 0 /\ ~Calling
  BY <1>1, <1>2, ChainFacts DEF Pending, Calling
<1>4. Flight = <<c>> /\ Flight' = <<>> /\ Held' = Held
  <2>1. ~Looking
    BY <1>1, <1>3, FlightFacts DEF Looking
  <2> QED
    BY <1>2, <1>3, <2>1 DEF Flight, Held, Holders
<1>5. Sound(given', <<>>, Held, dropped, pos, Len(source))
  BY <1>1, <1>2, <1>4, FlightFacts, SoundGives DEF OrderRight, Give
<1> QED
  BY <1>1, <1>2, <1>3, <1>4, <1>5, FlightFacts, OrderTogether DEF OrderRight
LEMMA OrderStep == OrderInv /\ [Next]_vars => OrderInv'
<1> SUFFICES ASSUME OrderInv, [Next]_vars PROVE OrderInv'
  OBVIOUS
<1>0. ChainInv /\ ChainInv'
  BY ChainStep DEF OrderInv
<1> SUFFICES ASSUME ~failed' PROVE OrderRight'
  BY <1>0 DEF OrderInv
<1>1. ASSUME ~failed PROVE OrderRight
  BY <1>1 DEF OrderInv
<1>2. CASE ParserScan
  <2>1. ~failed
    BY <1>2 DEF ParserScan, Unread
  <2> QED
    BY <1>2, <2>1, OrderParserScan
<1>3. CASE ScanFilter
  BY <1>0, <1>3, OrderScan DEF ScanFilter
<1>4. CASE ScanFails
  BY <1>4 DEF ScanFails, Unread
<1>5. CASE FilterGives
  BY <1>5, OrderGives DEF FilterGives
<1>6. CASE FilterPasses
  BY <1>6, OrderPasses DEF FilterPasses
<1>7. CASE FilterLooks
  <2>1. ~failed
    BY <1>7 DEF FilterLooks, Unread
  <2> QED
    BY <1>7, <2>1, OrderLooks
<1>8. CASE FilterReplaces
  BY <1>8, OrderReplaces DEF FilterReplaces
<1>9. CASE FilterDrops
  <2>1. ~failed
    BY <1>9 DEF FilterDrops, Unread
  <2> QED
    BY <1>9, <2>1, OrderDrops
<1>10. CASE FilterHolds
  BY <1>10, OrderHolds DEF FilterHolds
<1>11. CASE FilterFails
  BY <1>11 DEF FilterFails
<1>12. CASE ScanEnds
  BY <1>12, OrderEnds DEF ScanEnds
<1>13. CASE TokenStarts
  <2>1. ~failed /\ at = 0 /\ UNCHANGED <<origin, pos, last, held, given, dropped, at>>
    BY <1>13 DEF TokenStarts, Idle, place, chain
  <2>2. TypeInv /\ last \in Nat
    BY <1>0 DEF ChainInv, TypeInv, TypeOK
  <2>3. Char(0) = EOF
    BY <2>2, SourceFacts DEF Char
  <2>4. step' = "callback" => last > 0
    BY <1>13, <2>2, <2>3 DEF TokenStarts
  <2> QED
    BY <2>1, <2>4, OrderStill
<1>14. CASE TokenFails
  BY <1>1, <1>14, OrderStill DEF TokenFails, Idle, place, chain
<1>15. CASE CallbackReturns
  <2>1. ~failed /\ at = 0 /\ UNCHANGED <<origin, pos, last, held, given, dropped, at>>
        /\ step = "callback"
    BY <1>15 DEF CallbackReturns, place, chain
  <2> QED
    BY <1>1, <2>1, OrderStill DEF OrderRight
<1>16. ASSUME ~failed, Free, UNCHANGED <<origin, place, last, held, step, at, given, dropped>>
       PROVE  OrderRight'
  BY <1>1, <1>16, OrderStill DEF Free, place, OrderRight
<1>17. CASE AddFilter
  BY <1>16, <1>17 DEF AddFilter, token
<1>18. CASE RemoveFilter
  BY <1>16, <1>18 DEF RemoveFilter, token
<1>19. CASE AddCallback
  BY <1>16, <1>19 DEF AddCallback, chain
<1>20. CASE RemoveCallback
  BY <1>16, <1>20 DEF RemoveCallback, chain
<1>21. CASE UNCHANGED vars
  <2>1. ~failed /\ UNCHANGED <<origin, pos, last, filters, held, step, at, c, read, given, dropped>>
    BY <1>21 DEF vars, place, chain, token
  <2>2. Flight' = Flight /\ Held' = Held
    BY <2>1 DEF Flight, Held, Holders, Pending, Looking
  <2> QED
    BY <1>1, <2>1, <2>2, OrderTogether DEF OrderRight
<1> QED
  BY <1>2, <1>3, <1>4, <1>5, <1>6, <1>7, <1>8, <1>9, <1>10, <1>11, <1>12, <1>13, <1>14,
     <1>15, <1>17, <1>18, <1>19, <1>20, <1>21 DEF Next, Undefined

LEMMA OrderInit == Init => OrderInv
<1> SUFFICES ASSUME Init PROVE OrderInv
  OBVIOUS
<1>1. ChainInv /\ Flight = <<>> /\ Held = <<>>
  BY ChainInit DEF Init, Flight, Held, Holders
<1>2. Len(source) \in Nat
  BY <1>1, SourceFacts DEF ChainInv
<1>3. Before({}, {}, Len(source)) /\ Accounted({}, {}, 0, Len(source))
  BY <1>2 DEF Before, Accounted
<1>4. {} \cup {} = {} /\ {} \subseteq 1..0
  OBVIOUS
<1>5. Sound(<<>>, <<>>, <<>>, {}, 0, Len(source))
  BY <1>3, <1>4, NoneFacts DEF Sound
<1>6. OrderRight
  BY <1>1, <1>5 DEF Init, OrderRight
<1> QED
  BY <1>1, <1>6 DEF OrderInv

LEMMA OrderAlways == Spec => []OrderInv
  BY OrderInit, OrderStep, PTL DEF Spec

LEMMA ConcatFacts ==
    ASSUME NEW s \in Seq(Nat), NEW t \in Seq(Nat)
    PROVE  /\ InUse(s \o t) = InUse(s) \cup InUse(t)
           /\ \A n : Ordered(s, n) /\ Ordered(t, n) /\ Before(InUse(s), InUse(t), n)
                         => Ordered(s \o t, n)
<1> DEFINE a == Len(s)
           b == Len(t)
           u == s \o t
<1>1. /\ a \in Nat /\ b \in Nat /\ DOMAIN s = 1..a /\ DOMAIN t = 1..b
      /\ u \in Seq(Nat) /\ Len(u) = a + b
      /\ \A j \in 1..(a + b) : u[j] = IF j <= a THEN s[j] ELSE t[j - a]
  BY LenProperties, ConcatProperties
<1>2. DOMAIN u = 1..(a + b)
  BY <1>1, LenProperties
<1> HIDE DEF a, b, u
<1>3. \A j \in 1..a : j \in 1..(a + b) /\ u[j] = s[j]
  BY <1>1
<1>4. \A j \in 1..(a + b) : j \notin 1..a => j - a \in 1..b /\ u[j] = t[j - a]
  BY <1>1
<1>5. InUse(u) = InUse(s) \cup InUse(t)
  <2>1. \A j \in 1..b : j + a \in 1..(a + b) /\ u[j + a] = t[j]
    <3> SUFFICES ASSUME NEW j \in 1..b PROVE j + a \in 1..(a + b) /\ u[j + a] = t[j]
      OBVIOUS
    <3>1. j + a \in 1..(a + b) /\ j + a \notin 1..a /\ (j + a) - a = j
      BY <1>1
    <3> QED
      BY <1>4, <3>1
  <2>2. InUse(s) \cup InUse(t) \subseteq InUse(u)
    BY <1>1, <1>2, <1>3, <2>1 DEF InUse
  <2>3. InUse(u) \subseteq InUse(s) \cup InUse(t)
    BY <1>1, <1>2, <1>3, <1>4 DEF InUse
  <2> QED
    BY <2>2, <2>3
<1>6. ASSUME NEW n, Ordered(s, n), Ordered(t, n), Before(InUse(s), InUse(t), n)
      PROVE  Ordered(u, n)
  <2> SUFFICES ASSUME NEW j \in 1..(a + b), NEW k \in 1..(a + b), j < k, u[k] \in 1..n
               PROVE  u[j] < u[k]
    BY <1>2 DEF Ordered
  <2>1. CASE k \in 1..a
    <3>1. j \in 1..a
      BY <1>1, <2>1
    <3> QED
      BY <1>1, <1>3, <1>6, <2>1, <3>1 DEF Ordered
  <2>2. CASE k \notin 1..a /\ j \in 1..a
    <3>1. u[j] \in InUse(s) /\ u[k] \in InUse(t)
      BY <1>1, <1>3, <1>4, <2>2 DEF InUse
    <3> QED
      BY <1>6, <3>1 DEF Before
  <2>3. CASE k \notin 1..a /\ j \notin 1..a
    <3>1. /\ j - a \in 1..b /\ k - a \in 1..b /\ j - a < k - a
          /\ u[j] = t[j - a] /\ u[k] = t[k - a]
      BY <1>1, <1>4, <2>3
    <3> QED
      BY <1>1, <1>6, <3>1 DEF Ordered
  <2> QED
    BY <2>1, <2>2, <2>3
<1> QED
  BY <1>5, <1>6 DEF u

(* No character of the source is lost, repeated or overtaken, whatever the *)
(* source, the filters, and what they read ahead and give back.            *)
THEOREM InOrderAlways == Spec => []InOrder
<1>1. OrderInv => InOrder
  <2> SUFFICES ASSUME OrderInv, at = 0, ~failed
               PROVE  LET all == given \o Held
                      IN  /\ \A j, k \in DOMAIN all : j < k /\ InText(all[k]) => all[j] < all[k]
                          /\ \A p \in 1..Len(source) :
                                 /\ p \in InUse(all) \cup dropped <=> p <= pos
                                 /\ p \notin InUse(all) \cap dropped
    BY DEF InOrder
  <2> DEFINE all == given \o Held
             n == Len(source)
  <2>1. ChainInv /\ Sound(given, <<>>, Held, dropped, pos, n)
    BY DEF OrderInv, OrderRight, Flight
  <2>2. given \in Seq(Nat) /\ Held \in Seq(Nat) /\ InUse(<<>>) = {}
    BY <2>1, FlightFacts, NoneFacts
  <2>3. InUse(given) \cup {} = InUse(given)
    OBVIOUS
  <2>4. /\ Ordered(given, n) /\ Ordered(Held, n) /\ Before(InUse(given), InUse(Held), n)
        /\ Accounted(InUse(given) \cup InUse(Held), dropped, pos, n)
    BY <2>1, <2>2, <2>3 DEF Sound
  <2>5. Ordered(all, n) /\ InUse(all) = InUse(given) \cup InUse(Held)
    BY <2>2, <2>4, ConcatFacts
  <2>6. Accounted(InUse(all), dropped, pos, n)
    BY <2>4, <2>5
  <2> HIDE DEF all
  <2>7. /\ \A j, k \in DOMAIN all : j < k /\ InText(all[k]) => all[j] < all[k]
        /\ \A p \in 1..Len(source) : /\ p \in InUse(all) \cup dropped <=> p <= pos
                                     /\ p \notin InUse(all) \cap dropped
    BY <2>5, <2>6 DEF Ordered, Accounted, InText
  <2> QED
    BY <2>7 DEF all
<1> QED
  BY <1>1, OrderAlways, PTL
(* Before it tells of the end, the parser gave or dropped every character: *)
(* by a callback or without any, and whatever filters read ahead.          *)
LEMMA EndReached ==
    ASSUME OrderInv, ~failed, Char(Current) = EOF, Current > 0, ~Pending, ~Looking
    PROVE  /\ pos >= End /\ Held = <<>>
           /\ 1..Len(source) \subseteq (InUse(given) \cup InUse(Flight)) \cup dropped
<1>1. ChainInv /\ OrderRight /\ TypeInv /\ HeldRight
  BY FlightFacts DEF OrderInv
<1>2. Holders = {} /\ Held = <<>>
  BY <1>1, HeldAfterText, FlightFacts DEF Plain
<1>3. /\ source \in Seq(Chars) /\ Len(source) \in Nat
      /\ \A p \in 1..Len(source) : source[p] # EOF
  <2>1. source \in Seq(Chars) /\ Len(source) \in Nat
    BY <1>1, SourceFacts
  <2>2. \A p \in 1..Len(source) : source[p] \in Chars
    BY <2>1, ElementOfSeq
  <2> QED
    BY <2>1, <2>2, ParserAssumption
<1>4. Current \in Nat /\ Current <= pos /\ pos \in Nat
  BY <1>1, FlightFacts DEF Current, OrderRight, TypeInv, TypeOK
<1>5. Current \notin 1..Len(source)
  BY <1>3 DEF Char
<1>6. pos > Len(source)
  BY <1>3, <1>4, <1>5
<1>7. Sound(given, Flight, <<>>, dropped, pos, Len(source)) /\ InUse(<<>>) = {}
  BY <1>1, <1>2, NoneFacts DEF OrderRight
<1>8. InUse(given) \cup InUse(Flight) \cup {} = InUse(given) \cup InUse(Flight)
  OBVIOUS
<1>9. Accounted(InUse(given) \cup InUse(Flight), dropped, pos, Len(source))
  BY <1>7, <1>8 DEF Sound
<1>10. \A p \in 1..Len(source) : p <= pos
  BY <1>3, <1>4, <1>6
<1> QED
  BY <1>2, <1>3, <1>4, <1>6, <1>9, <1>10 DEF Accounted, End

LEMMA EndStep ==
    ASSUME OrderInv, [Next]_vars, result' = "end", step # "idle", step' = "idle", ~failed
    PROVE  pos >= End /\ 1..Len(source) \subseteq InUse(given') \cup dropped
<1> USE DEF token
<1>1. CASE ScanEnds
  <2>1. /\ at = Len(filters) + 1 /\ Give(c) /\ CallFrom(1, 0, c)
    BY <1>1 DEF ScanEnds, Interrupted
  <2>2. ChainInv /\ OrderRight /\ TypeInv
    BY FlightFacts DEF OrderInv
  <2>3. ~Pending /\ ~Calling /\ at > 0
    BY <2>1, <2>2, ChainFacts DEF Pending, Calling
  <2>4. Char(c) = EOF /\ c > 0 /\ c \in Nat
    BY <2>1, <2>2, <2>3, FlightFacts DEF CallFrom, Ends, OrderRight
  <2>5. ~Looking
    BY <2>2, <2>3, FlightFacts DEF Looking
  <2>6. Flight = <<c>> /\ Current = c
    BY <2>3, <2>5 DEF Flight, Current
  <2>7. /\ pos >= End
        /\ 1..Len(source) \subseteq (InUse(given) \cup {c}) \cup dropped
    BY <2>3, <2>4, <2>5, <2>6, EndReached, NoneFacts
  <2>8. c \notin 1..Len(source) /\ given' = given
    <3>1. \A p \in 1..Len(source) : source[p] \in Chars
      BY <2>2, SourceFacts, ElementOfSeq
    <3>2. c \notin 1..Len(source)
      BY <2>4, <3>1, ParserAssumption DEF Char
    <3> QED
      BY <2>1, <3>2 DEF Give
  <2> QED
    BY <2>7, <2>8
<1>2. CASE CallbackReturns
  <2>1. at = 0 /\ step = "callback" /\ UNCHANGED given
    BY <1>2 DEF CallbackReturns
  <2>2. ChainInv /\ OrderRight /\ TypeInv /\ ~Calling
    BY <2>1, FlightFacts, ChainFacts DEF OrderInv, Calling
  <2>3. Char(last) = EOF
    BY <1>2 DEF CallbackReturns, CallFrom, Ends
  <2>4. last > 0 /\ ~Pending /\ ~Looking /\ Flight = <<>> /\ Current = last
    BY <2>1, <2>2, FlightFacts DEF OrderRight, Pending, Looking, Flight, Current
  <2>5. InUse(<<>>) = {}
    BY NoneFacts
  <2> QED
    BY <2>1, <2>3, <2>4, <2>5, EndReached
<1>3. CASE ScanFails \/ FilterFails
  BY <1>3 DEF ScanFails, FilterFails, Interrupted
<1>4. CASE TokenStarts \/ TokenFails
  BY <1>4 DEF TokenStarts, TokenFails, Idle
<1>5. UNCHANGED step => FALSE
  OBVIOUS
<1> QED
  BY <1>1, <1>2, <1>3, <1>4, <1>5 DEF Next, ParserScan, ScanFilter, FilterGives, FilterPasses,
     FilterLooks, FilterReplaces, FilterDrops, FilterHolds, AddFilter, RemoveFilter,
     AddCallback, RemoveCallback, Undefined, vars

(* parser_get_token tells of the end only when every character was read,   *)
(* and given or dropped, for every source, filters and callbacks.          *)
THEOREM EndMeansAllAlways == Spec => EndMeansAll
<1>1. OrderInv /\ [Next]_vars =>
          [result' = "end" /\ step # "idle" /\ step' = "idle" /\ ~failed =>
               pos >= End /\ 1..Len(source) \subseteq InUse(given') \cup dropped]_vars
  BY EndStep
<1> QED
  BY <1>1, OrderAlways, PTL DEF Spec, EndMeansAll
----------------------------------------------------------------------------
(* The place.                                                              *)

LEMMA NewlinesFacts ==
    ASSUME NEW p \in Nat
    PROVE  /\ IsFiniteSet(NewlinesBefore(p)) /\ NewlinesBefore(p) \subseteq 1..(p - 1)
           /\ LineOf(p) \in Nat
<1>1. IsFiniteSet(1..(p - 1)) /\ NewlinesBefore(p) \subseteq 1..(p - 1)
  BY FS_Interval DEF NewlinesBefore
<1>2. IsFiniteSet(NewlinesBefore(p))
  BY <1>1, FS_Subset
<1>3. Cardinality(NewlinesBefore(p)) \in Nat
  BY <1>2, FS_CardinalityType
<1> QED
  BY <1>1, <1>2, <1>3 DEF LineOf

LEMMA SmallestExists ==
    ASSUME NEW T \in SUBSET Nat, T # {}
    PROVE  \E t \in T : \A u \in T : t <= u
<1>1. PICK t \in T : \A u \in T : <<u, t>> \notin OpToRel(<, Nat)
  BY WFMin, NatLessThanWellFounded, Zenon
<1>2. ASSUME NEW u \in T PROVE ~(u < t)
  <2>1. <<u, t>> \in Nat \X Nat
    OBVIOUS
  <2> QED
    BY <1>1, <2>1, Zenon DEF OpToRel
<1>3. \A u \in T : t <= u
  BY <1>2
<1> QED
  BY <1>3

LEMMA LatestFacts ==
    ASSUME NEW n \in Nat, NEW S \in SUBSET (0..n)
    PROVE  /\ Latest(S) \in Nat
           /\ S # {} => Latest(S) \in S /\ \A k \in S : k <= Latest(S)
<1>0. \A x \in S : x \in Nat /\ n - x \in Nat
  <2>1. \A x \in 0..n : x \in Nat /\ n - x \in Nat
    OBVIOUS
  <2> QED
    BY <2>1, Zenon
<1>1. CASE S = {}
  BY <1>1 DEF Latest
<1>2. CASE S # {}
  <2> DEFINE T == {n - k : k \in S}
  <2>1. T \in SUBSET Nat /\ T # {}
    BY <1>0, <1>2
  <2>2. PICK t \in T : \A u \in T : t <= u
    BY <2>1, SmallestExists
  <2>3. PICK m \in S : t = n - m
    OBVIOUS
  <2>4. ASSUME NEW k \in S PROVE k <= m
    <3>1. m \in Nat /\ k \in Nat
      BY <1>0, Zenon
    <3>2. n - m <= n - k
      BY <2>2, <2>3, Zenon
    <3> QED
      BY <3>1, <3>2
  <2>5. \E x \in S : \A k \in S : k <= x
    BY <2>4
  <2>6. Latest(S) \in S /\ \A k \in S : k <= Latest(S)
    BY <1>2, <2>5, Zenon DEF Latest
  <2> QED
    BY <1>0, <2>6, Zenon
<1> QED
  BY <1>1, <1>2

(* The first character of the source is in line 1, column 1.               *)
LEMMA PlaceFirst == LineOf(1) = 1 /\ ColOf(1) = 1
<1>1. NewlinesBefore(1) = {}
  BY DEF NewlinesBefore
<1>2. Cardinality(NewlinesBefore(1)) = 0 /\ Latest(NewlinesBefore(1)) = 0
  BY <1>1, FS_EmptySet DEF Latest
<1> QED
  BY <1>2 DEF LineOf, ColOf

(* The next one is in the next line after a newline, else in the next      *)
(* column.                                                                 *)
LEMMA PlaceNext ==
    ASSUME NEW p \in Nat, p > 0
    PROVE  /\ source[p] = Newline => LineOf(p + 1) = LineOf(p) + 1 /\ ColOf(p + 1) = 1
           /\ source[p] # Newline => LineOf(p + 1) = LineOf(p) /\ ColOf(p + 1) = ColOf(p) + 1
<1> DEFINE N == NewlinesBefore(p)
           M == NewlinesBefore(p + 1)
<1>1. \A k : k \in 1..((p + 1) - 1) <=> k \in 1..(p - 1) \/ k = p
  OBVIOUS
<1>2. IsFiniteSet(N) /\ N \subseteq 1..(p - 1)
  BY NewlinesFacts
<1>3. p \notin N /\ Cardinality(N) \in Nat
  <2>1. p \notin 1..(p - 1)
    OBVIOUS
  <2> QED
    BY <1>2, <2>1, FS_CardinalityType
<1>4. ASSUME source[p] = Newline PROVE LineOf(p + 1) = LineOf(p) + 1 /\ ColOf(p + 1) = 1
  <2>1. M = N \cup {p}
    BY <1>1, <1>4 DEF NewlinesBefore
  <2>2. Cardinality(M) = Cardinality(N) + 1
    BY <1>2, <1>3, <2>1, FS_AddElement
  <2>3. LineOf(p + 1) = LineOf(p) + 1
    BY <1>3, <2>2 DEF LineOf
  <2>4. M \in SUBSET (0..p) /\ p \in M
    BY <1>2, <2>1
  <2>5. Latest(M) \in M /\ Latest(M) \in Nat /\ p <= Latest(M)
    BY <2>4, LatestFacts
  <2>6. Latest(M) = p
    BY <2>4, <2>5
  <2> QED
    BY <2>3, <2>6 DEF ColOf
<1>5. ASSUME source[p] # Newline PROVE LineOf(p + 1) = LineOf(p) /\ ColOf(p + 1) = ColOf(p) + 1
  <2>1. M = N
    BY <1>1, <1>5 DEF NewlinesBefore
  <2>2. LineOf(p + 1) = LineOf(p)
    BY <2>1 DEF LineOf
  <2>3. Latest(M) = Latest(N) /\ Latest(N) \in Nat
    <3>1. N \in SUBSET (0..p)
      BY <1>2
    <3> QED
      BY <2>1, <3>1, LatestFacts
  <2>4. ColOf(p + 1) = (p + 1) - Latest(N) /\ ColOf(p) = p - Latest(N)
    BY <2>3 DEF ColOf
  <2> QED
    BY <2>2, <2>3, <2>4
<1> QED
  BY <1>4, <1>5
(* The scanner counts right when what it counts from, the last character   *)
(* given, is to it as the last character read.                             *)
LEMMA PlaceScans ==
    ASSUME TypeInv, ~failed, UNCHANGED origin, PositionExact, Scanned, Agree(last, pos)
    PROVE  PositionExact'
<1> SUFFICES ASSUME pos' <= End
             PROVE  line' = LineOf(pos') /\ col' = ColOf(pos') /\ pos' # 0
  BY DEF PositionExact, origin, End, LineOf, ColOf, NewlinesBefore
<1>1. /\ source \in Seq(Chars) /\ Len(source) \in Nat /\ End = Len(source) + 1
      /\ pos \in Nat /\ line \in Nat /\ col \in Nat
      /\ \A p \in 1..Len(source) : source[p] \in Chars
  BY SourceFacts, ElementOfSeq DEF TypeInv, TypeOK, End
<1>2. pos' \in Nat /\ pos' > 0 /\ pos <= End /\ (pos' = pos + 1 \/ (pos' = pos /\ pos = End))
  BY <1>1, NextPosFacts DEF Scanned
<1>3. Moves
  BY <1>1, <1>2, SourceFacts DEF Scanned
<1>4. Char(0) = EOF /\ Char(End) = EOF /\ EOF # Newline
  BY <1>1, ParserAssumption DEF Char
<1>5. CASE pos = 0
  <2>1. line = 1 /\ col = 1
    BY <1>2, <1>5, PlaceFirst DEF PositionExact
  <2>2. line' = 1 /\ col' = 1 /\ pos' = 1
    BY <1>1, <1>2, <1>3, <1>4, <1>5, <2>1 DEF Moves, Agree
  <2> QED
    BY <2>2, PlaceFirst
<1>6. CASE pos > 0 /\ pos' = pos
  <2>1. line' = line /\ col' = col
    BY <1>2, <1>3, <1>4, <1>6 DEF Moves, Agree
  <2>2. line = LineOf(pos) /\ col = ColOf(pos)
    BY <1>2, <1>6 DEF PositionExact
  <2> QED
    BY <1>6, <2>1, <2>2
<1>7. CASE pos > 0 /\ pos' = pos + 1
  <2>1. line = LineOf(pos) /\ col = ColOf(pos)
    BY <1>2, <1>7 DEF PositionExact
  <2>2. pos \in 1..Len(source)
    BY <1>1, <1>7
  <2>3. Char(pos) = source[pos] /\ Char(pos) # EOF
    BY <1>1, <2>2, ParserAssumption DEF Char
  <2>4. Char(last) # EOF /\ (Char(last) = Newline <=> source[pos] = Newline)
    BY <2>3 DEF Agree
  <2>5. /\ source[pos] = Newline => line' = line + 1 /\ col' = 1
        /\ source[pos] # Newline => line' = line /\ col' = col + 1
    BY <1>3, <2>4 DEF Moves
  <2>6. /\ source[pos] = Newline => LineOf(pos + 1) = LineOf(pos) + 1 /\ ColOf(pos + 1) = 1
        /\ source[pos] # Newline => LineOf(pos + 1) = LineOf(pos) /\ ColOf(pos + 1) = ColOf(pos) + 1
    BY <1>1, <1>7, PlaceNext
  <2>7. line' = LineOf(pos + 1) /\ col' = ColOf(pos + 1)
    <3>1. CASE source[pos] = Newline
      BY <2>1, <2>5, <2>6, <3>1, Zenon
    <3>2. CASE source[pos] # Newline
      BY <2>1, <2>5, <2>6, <3>2, Zenon
    <3> QED
      BY <3>1, <3>2
  <2>8. pos' # 0
    BY <1>2
  <2> QED
    BY <1>7, <2>7, <2>8, Zenon
<1> QED
  BY <1>1, <1>2, <1>5, <1>6, <1>7

LEMMA PlaceTogether ==
    ASSUME UNCHANGED origin,
           at' = 0 /\ Holders' = {} => Agree(last', pos'),
           at' > 0 /\ Holders' = {} /\ ~Looking' => Agree(c', pos') /\ (Plain(pos') => Plain(last')),
           Looking' => Agree(last', pos') /\ read'[Len(read')] = pos',
           Pending' => Plain(last'),
           \A f \in Holders' : held'[f][Len(held'[f])] = pos'
    PROVE  PlaceRight'
<1>1. \A p : Char(p)' = Char(p)
  BY DEF Char, End, origin
<1> QED
  BY <1>1 DEF PlaceRight, Agree, Plain, Char, End, origin
(* What was last read or last held is where the scanner is.                *)
LEMMA PlaceScan ==
    ASSUME PlaceInv, ~failed, ScanFilter
    PROVE  PositionExact' /\ PlaceRight'
<1>1. at = 0 /\ at' = 1 /\ UNCHANGED <<origin, filters, held, read, failed>>
  BY DEF ScanFilter, chain
<1>2. ChainInv /\ PlaceRight /\ PositionExact /\ TypeInv /\ HeldRight /\ ~Calling
  BY <1>1, FlightFacts, ChainFacts DEF PlaceInv, Calling
<1>3. ~Looking' /\ Holders' = Holders
  BY <1>1, <1>2, FlightFacts DEF Looking, Holders
<1>4. CASE Replay
  <2>1. lookahead > 0 /\ UNCHANGED <<place, last>>
    BY <1>4 DEF Replay
  <2>2. Holders # {}
    BY <1>1, <1>2, <2>1, ReplayPending
  <2>3. Plain(last)
    BY <1>1, <1>2, <2>2, HeldAfterText DEF Plain, Current
  <2>4. PositionExact'
    BY <1>1, <1>2, <2>1 DEF PositionExact, place, origin, End, LineOf, ColOf, NewlinesBefore
  <2>5. \A f \in Holders' : held'[f][Len(held'[f])] = pos'
    BY <1>1, <1>2, <1>3, <2>1 DEF PlaceRight, place
  <2> QED
    BY <1>1, <1>3, <2>1, <2>2, <2>3, <2>4, <2>5, PlaceTogether
<1>5. CASE Fresh
  <2>1. lookahead = 0 /\ Scanned /\ c' = NextPos /\ pos' = NextPos /\ last' = NextPos
    BY <1>5 DEF Fresh, Scanned
  <2>2. Holders = {}
    BY <1>1, <1>2, <2>1, NothingHeld
  <2>3. ~Pending'
    BY <1>1, <1>2, <2>2, ChainFacts DEF Pending, Holders
  <2>4. PositionExact'
    BY <1>1, <1>2, <2>1, <2>2, PlaceScans DEF PlaceRight
  <2>5. Agree(c', pos') /\ (Plain(pos') => Plain(last'))
    BY <2>1 DEF Agree
  <2> QED
    BY <1>1, <1>3, <2>2, <2>3, <2>4, <2>5, PlaceTogether
<1> QED
  BY <1>4, <1>5 DEF ScanFilter

(* The place is not concerned.                                             *)
LEMMA PositionStill ==
    ASSUME PositionExact, UNCHANGED <<origin, place, failed>>
    PROVE  PositionExact'
  BY DEF PositionExact, place, origin, End, LineOf, ColOf, NewlinesBefore

LEMMA PlaceStill ==
    ASSUME PlaceInv, ~failed, at = 0,
           UNCHANGED <<origin, place, last, held, at, read, failed>>
    PROVE  PositionExact' /\ PlaceRight'
<1>1. PlaceRight /\ ~Calling /\ ~Looking /\ PositionExact
  BY FlightFacts, ChainFacts DEF PlaceInv, Calling, Looking
<1>2. ~Pending' /\ ~Looking' /\ Holders' = Holders
  BY <1>1 DEF Pending, Looking, Holders
<1>3. PositionExact'
  BY <1>1, PositionStill
<1> QED
  BY <1>1, <1>2, <1>3, PlaceTogether DEF PlaceRight, place

LEMMA PlaceGives ==
    ASSUME PlaceInv, ~failed, FilterGives
    PROVE  PlaceRight'
<1>0. ChainInv /\ PlaceRight /\ TypeInv /\ HeldRight
  BY FlightFacts DEF PlaceInv
<1>f. PICK f \in Filters : f = Called
  BY <1>0, ChainFacts DEF FilterGives
<1>1. PICK s : f = Called /\ s = held[f]
  BY <1>f
<1>2. /\ Calling /\ s # <<>> /\ c' = Head(s) /\ held' = [held EXCEPT ![f] = Tail(s)]
      /\ at' = at + 1 /\ UNCHANGED <<origin, filters, pos, last, read>>
  BY <1>1 DEF FilterGives, Holds, place
<1>3. f \in Holders /\ at \in DOMAIN filters /\ f = filters[at] /\ at \in Nat /\ at > 0
  BY <1>0, <1>1, <1>2, ChainFacts DEF Holders, Called, Calling
<1>4. Holders = {f} /\ s \in Seq(Nat)
  BY <1>0, <1>1, <1>3, HeldFacts DEF HeldRight
<1>5. Pending /\ ~Looking'
  BY <1>0, <1>1, <1>2, <1>3, <1>4, FlightFacts DEF Pending, Looking
<1>6. held'[f] = Tail(s) /\ \A g \in Filters \ {f} : held'[g] = <<>>
  BY <1>0, <1>2, <1>4 DEF TypeInv, TypeOK, Holders
<1>7. ~Pending'
  BY <1>0, <1>1, <1>2, <1>6, NothingAfter
<1>8. s[Len(s)] = pos /\ Plain(last)
  BY <1>0, <1>1, <1>3, <1>5 DEF PlaceRight
<1>9. /\ Head(s) = s[1] /\ Len(s) \in Nat /\ Len(s) > 0 /\ Len(Tail(s)) = Len(s) - 1
      /\ Tail(s) = <<>> => Len(s) = 1
      /\ Tail(s) # <<>> => Len(s) > 1 /\ Tail(s)[Len(s) - 1] = s[Len(s)]
  <2>1. /\ Head(s) = s[1] /\ Len(s) \in Nat \ {0} /\ Tail(s) \in Seq(Nat)
        /\ Len(Tail(s)) = Len(s) - 1
        /\ \A j \in 1..(Len(s) - 1) : Tail(s)[j] = s[j + 1]
    BY <1>2, <1>4, TailFacts, HeadTailProperties, EmptySeq
  <2>2. CASE Tail(s) = <<>>
    <3>1. Len(<<>>) = 0
      BY EmptySeq
    <3>2. Len(s) - 1 = 0 /\ Len(s) \in Nat
      BY <2>1, <2>2, <3>1, Zenon
    <3>3. Len(s) = 1
      BY <3>2
    <3> QED
      BY <2>1, <2>2, <3>3
  <2>3. CASE Tail(s) # <<>>
    <3>1. Len(s) - 1 \in Nat \ {0}
      BY <2>1, <2>3, EmptySeq
    <3>2. Len(s) - 1 \in 1..(Len(s) - 1) /\ (Len(s) - 1) + 1 = Len(s) /\ Len(s) > 1
      BY <2>1, <3>1
    <3>3. Tail(s)[Len(s) - 1] = s[Len(s)]
      BY <2>1, <3>2
    <3> QED
      BY <2>1, <2>3, <3>2, <3>3
  <2> QED
    BY <2>2, <2>3
<1>10. CASE Tail(s) = <<>>
  <2>1. Holders' = {} /\ c' = pos /\ at' > 0
    BY <1>2, <1>3, <1>6, <1>8, <1>9, <1>10 DEF Holders
  <2>2. Agree(c', pos') /\ (Plain(pos') => Plain(last'))
    BY <1>2, <1>8, <2>1 DEF Agree
  <2> QED
    BY <1>2, <1>5, <1>7, <2>1, <2>2, PlaceTogether
<1>11. CASE Tail(s) # <<>>
  <2>1. Holders' = {f}
    BY <1>6, <1>11 DEF Holders
  <2>2. held'[f][Len(held'[f])] = pos'
    BY <1>2, <1>6, <1>8, <1>9, <1>11
  <2> QED
    BY <1>2, <1>5, <1>7, <2>1, <2>2, PlaceTogether
<1> QED
  BY <1>10, <1>11
LEMMA PlacePasses ==
    ASSUME PlaceInv, ~failed, FilterPasses
    PROVE  PlaceRight'
<1>1. ChainInv /\ PlaceRight /\ TypeInv
  BY FlightFacts DEF PlaceInv
<1>2. /\ Calling /\ ~Holds /\ at' = at + 1 /\ at \in Nat /\ at > 0
      /\ UNCHANGED <<origin, pos, last, filters, held, c, read>>
  BY <1>1, ChainFacts DEF FilterPasses, Calling, place, chain
<1>3. Pending' = Pending /\ Holders' = Holders /\ Looking' = Looking
  BY <1>1, <1>2, PassesPending DEF Holders, Looking
<1>4. at' > 0 /\ at' # 0
  BY <1>2
<1> QED
  BY <1>1, <1>2, <1>3, <1>4, PlaceTogether DEF PlaceRight

LEMMA PlaceLooks ==
    ASSUME PlaceInv, ~failed, ~failed', FilterLooks
    PROVE  PositionExact' /\ PlaceRight'
<1>1. ChainInv /\ PlaceRight /\ PositionExact /\ TypeInv /\ HeldRight
  BY FlightFacts DEF PlaceInv
<1>2. /\ WantsMore /\ Calling /\ Scanned /\ read' = Append(Reading, NextPos)
      /\ pos' = NextPos /\ last' = NextPos /\ UNCHANGED <<origin, filters, held, at, c>>
  BY DEF FilterLooks, WantsMore, Unread, Scanned, chain
<1>3. Holders = {} /\ at > 0
  BY <1>1, <1>2, LooksAlone, ChainFacts DEF Calling
<1>4. Agree(last, pos)
  <2>1. CASE Looking
    BY <1>1, <2>1 DEF PlaceRight
  <2>2. CASE ~Looking
    <3>1. PICK f \in Filters : f = Called /\ Char(c) = Pattern[f][1]
      BY <1>1, <1>2, <2>2, ChainFacts DEF WantsMore
    <3>2. 1 \in 1..(Len(Pattern[f]) - 1) /\ 1 \in 1..Len(Pattern[f])
      BY PatternFacts
    <3>3. Plain(c)
      BY <3>1, <3>2, PatternFacts DEF Plain
    <3>4. Agree(c, pos) /\ (Plain(pos) => Plain(last))
      BY <1>1, <1>3, <2>2 DEF PlaceRight
    <3> QED
      BY <3>3, <3>4 DEF Agree, Plain
  <2> QED
    BY <2>1, <2>2
<1>5. PositionExact'
  BY <1>1, <1>2, <1>4, PlaceScans
<1>6. Reading \in Seq(Nat) /\ NextPos \in Nat
  BY <1>1, FlightFacts, NoneFacts, NextPosFacts DEF Reading
<1>7. read'[Len(read')] = NextPos
  <2>1. Len(read') = Len(Reading) + 1 /\ read'[Len(Reading) + 1] = NextPos
    BY <1>2, <1>6, AppendProperties
  <2> QED
    BY <2>1
<1>8. Holders' = {} /\ ~Pending'
  BY <1>1, <1>2, <1>3, ChainFacts DEF Pending, Holders
<1>9. Looking'
  BY <1>2, <1>6, AppendProperties DEF Looking
<1>10. Agree(last', pos')
  BY <1>2 DEF Agree
<1> QED
  BY <1>2, <1>3, <1>5, <1>7, <1>8, <1>9, <1>10, PlaceTogether

LEMMA PlaceReplaces ==
    ASSUME PlaceInv, ~failed, FilterReplaces
    PROVE  PlaceRight'
<1>1. ChainInv /\ PlaceRight /\ TypeInv /\ HeldRight /\ ReadRight
  BY FlightFacts DEF PlaceInv
<1>2. /\ Calling /\ Looking /\ Found /\ Called \in Replacing /\ c' = read[1] /\ read' = <<>>
      /\ at' = at + 1 /\ UNCHANGED <<origin, filters, held, pos, last>>
  BY DEF FilterReplaces, place, chain
<1>3. PICK f \in Filters : f = Called
  BY <1>1, <1>2, ChainFacts
<1>4. Holders = {} /\ at \in Nat /\ at > 0
  BY <1>1, <1>2, FlightFacts, ChainFacts DEF Calling
<1>5. Holders' = {} /\ ~Looking' /\ at' > 0 /\ ~Pending'
  BY <1>1, <1>2, <1>4, ChainFacts DEF Pending, Holders, Looking
<1>6. /\ Len(read) = Len(Pattern[f]) /\ Char(read[Len(read)]) = Pattern[f][Len(read)]
      /\ \A j \in 1..(Len(read) - 1) : Char(read[j]) = Pattern[f][j]
  BY <1>1, <1>2, <1>3 DEF Found, Matches, ReadRight
<1>7. Len(Pattern[f]) \in Nat /\ Len(Pattern[f]) > 1 /\ Pattern[f][Len(Pattern[f])] # Newline
  BY <1>2, <1>3, PatternFacts, ParserAssumption
<1>8. Plain(pos)
  <2>1. read[Len(read)] = pos /\ Len(read) \in 1..Len(Pattern[f])
    BY <1>1, <1>2, <1>6, <1>7 DEF PlaceRight
  <2>2. Pattern[f][Len(read)] # EOF
    BY <2>1, PatternFacts
  <2> QED
    BY <1>6, <1>7, <2>1, <2>2 DEF Plain
<1>9. Plain(read[1])
  <2>1. 1 \in 1..(Len(read) - 1) /\ 1 \in 1..Len(Pattern[f]) /\ 1 \in 1..(Len(Pattern[f]) - 1)
    BY <1>6, <1>7
  <2> QED
    BY <1>6, <2>1, PatternFacts DEF Plain
<1>10. Agree(c', pos')
  BY <1>2, <1>8, <1>9 DEF Agree, Plain
<1>11. Plain(last')
  BY <1>1, <1>2, <1>8 DEF PlaceRight, Agree, Plain
<1> QED
  BY <1>2, <1>5, <1>10, <1>11, PlaceTogether

LEMMA PlaceDrops ==
    ASSUME PlaceInv, ~failed, ~failed', FilterDrops
    PROVE  PositionExact' /\ PlaceRight'
<1>1. ChainInv /\ PlaceRight /\ PositionExact /\ TypeInv
  BY FlightFacts DEF PlaceInv
<1>2. /\ Looking /\ Scanned /\ c' = NextPos /\ pos' = NextPos /\ last' = NextPos
      /\ read' = <<>> /\ UNCHANGED <<origin, filters, held, at>>
  BY DEF FilterDrops, Unread, Scanned, chain
<1>3. Holders = {} /\ at > 0
  BY <1>1, <1>2, FlightFacts
<1>4. Holders' = {} /\ ~Looking' /\ ~Pending'
  BY <1>1, <1>2, <1>3, ChainFacts DEF Pending, Holders, Looking
<1>5. PositionExact'
  BY <1>1, <1>2, PlaceScans DEF PlaceRight
<1>6. Agree(c', pos') /\ (Plain(pos') => Plain(last'))
  BY <1>2 DEF Agree
<1> QED
  BY <1>2, <1>3, <1>4, <1>5, <1>6, PlaceTogether

LEMMA PlaceHolds ==
    ASSUME PlaceInv, ~failed, FilterHolds
    PROVE  PlaceRight'
<1>1. ChainInv /\ PlaceRight /\ TypeInv /\ HeldRight /\ ReadRight
  BY FlightFacts DEF PlaceInv
<1>2. PICK f \in Filters : f = Called
  BY <1>1, ChainFacts DEF FilterHolds
<1>3. /\ Calling /\ Looking /\ held' = [held EXCEPT ![f] = Tail(read)]
      /\ read' = <<>> /\ at' = at + 1 /\ UNCHANGED <<origin, filters, pos, last>>
  BY <1>2 DEF FilterHolds, place
<1>4. Holders = {} /\ at \in Nat /\ at > 0
  BY <1>1, <1>3, FlightFacts, ChainFacts DEF Calling
<1>5. held'[f] = Tail(read) /\ \A g \in Filters \ {f} : held'[g] = <<>>
  BY <1>1, <1>3, <1>4 DEF TypeInv, TypeOK, Holders
<1>6. ~Pending' /\ ~Looking'
  BY <1>1, <1>2, <1>3, <1>5, NothingAfter DEF Looking
<1>7. /\ read \in Seq(Nat) /\ read # <<>> /\ Len(Pattern[f]) \in Nat
      /\ Len(read) \in 2..Len(Pattern[f]) /\ read[Len(read)] = pos
  BY <1>1, <1>2, <1>3, PatternFacts DEF TypeInv, TypeOK, ReadRight, PlaceRight, Looking
<1>8. /\ Len(read) \in Nat /\ Len(Tail(read)) = Len(read) - 1
      /\ \A j \in 1..(Len(read) - 1) : Tail(read)[j] = read[j + 1]
  BY <1>7, HeadTailProperties
<1>9. Len(read) - 1 \in 1..(Len(read) - 1) /\ (Len(read) - 1) + 1 = Len(read)
  BY <1>7, <1>8
<1>10. held'[f][Len(held'[f])] = pos'
  BY <1>3, <1>5, <1>7, <1>8, <1>9
<1>11. Holders' = {f}
  <2>1. Len(Tail(read)) # 0 /\ Len(<<>>) = 0
    BY <1>7, <1>8, EmptySeq
  <2>2. Tail(read) # <<>>
    BY <2>1, Zenon
  <2> QED
    BY <1>5, <2>2 DEF Holders
<1>12. at' > 0 /\ at' # 0
  BY <1>3, <1>4
<1> QED
  BY <1>3, <1>6, <1>10, <1>11, <1>12, PlaceTogether

LEMMA PlaceEnds ==
    ASSUME PlaceInv, ~failed, ScanEnds
    PROVE  PlaceRight'
<1>1. ChainInv /\ PlaceRight /\ TypeInv
  BY FlightFacts DEF PlaceInv
<1>2. /\ at = Len(filters) + 1 /\ at' = 0 /\ last' = c
      /\ UNCHANGED <<origin, pos, filters, held, read>>
  BY DEF ScanEnds, place, chain
<1>3. at > 0 /\ ~Calling
  BY <1>1, <1>2, ChainFacts DEF Calling
<1>4. ~Looking /\ ~Looking' /\ Holders' = Holders /\ ~Pending'
  BY <1>1, <1>2, <1>3, FlightFacts DEF Looking, Holders, Pending
<1> QED
  BY <1>1, <1>2, <1>3, <1>4, PlaceTogether DEF PlaceRight
LEMMA PlaceStep == PlaceInv /\ [Next]_vars => PlaceInv'
<1> SUFFICES ASSUME PlaceInv, [Next]_vars PROVE PlaceInv'
  OBVIOUS
<1>0. ChainInv /\ ChainInv' /\ TypeInv /\ PositionExact
  BY ChainStep DEF PlaceInv, ChainInv
<1>1. failed => failed'
  BY DEF Next, ParserScan, ScanFilter, ScanFails, FilterGives, FilterPasses, FilterLooks,
     FilterReplaces, FilterDrops, FilterHolds, FilterFails, ScanEnds, TokenStarts, TokenFails,
     CallbackReturns, AddFilter, RemoveFilter, AddCallback, RemoveCallback, Undefined, Unread,
     vars
<1>2. CASE failed'
  BY <1>0, <1>2 DEF PlaceInv, PositionExact
<1> SUFFICES ASSUME ~failed' PROVE PositionExact' /\ PlaceRight'
  BY <1>0, <1>2 DEF PlaceInv
<1>3. ~failed /\ UNCHANGED failed
  BY <1>0, <1>1 DEF TypeInv, TypeOK, ChainInv
<1>4. UNCHANGED <<origin, place>> => PositionExact'
  BY <1>0, <1>3, PositionStill
<1>5. CASE ParserScan
  <2>1. /\ Scanned /\ at = 0 /\ lookahead = 0 /\ UNCHANGED <<origin, held, at, read>>
        /\ pos' = last'
    BY <1>5 DEF ParserScan, Unread, Free, Scanned, chain
  <2>2. Holders = {} /\ Agree(last, pos) /\ ~Looking
    BY <1>0, <1>3, <2>1, NothingHeld, FlightFacts, ChainFacts DEF PlaceInv, PlaceRight, Looking, Calling
  <2>3. PositionExact'
    BY <1>0, <1>3, <2>1, <2>2, PlaceScans
  <2>4. Holders' = {} /\ ~Looking' /\ ~Pending' /\ Agree(last', pos')
    BY <2>1, <2>2 DEF Holders, Looking, Pending, Agree
  <2> QED
    BY <2>1, <2>3, <2>4, PlaceTogether
<1>6. CASE ScanFilter
  BY <1>3, <1>6, PlaceScan
<1>7. CASE ScanFails
  BY <1>7 DEF ScanFails, Unread
<1>8. CASE FilterGives
  BY <1>3, <1>4, <1>8, PlaceGives DEF FilterGives
<1>9. CASE FilterPasses
  BY <1>3, <1>4, <1>9, PlacePasses DEF FilterPasses
<1>10. CASE FilterLooks
  BY <1>3, <1>10, PlaceLooks
<1>11. CASE FilterReplaces
  BY <1>3, <1>4, <1>11, PlaceReplaces DEF FilterReplaces
<1>12. CASE FilterDrops
  BY <1>3, <1>12, PlaceDrops
<1>13. CASE FilterHolds
  BY <1>3, <1>4, <1>13, PlaceHolds DEF FilterHolds
<1>14. CASE FilterFails
  BY <1>14 DEF FilterFails
<1>15. CASE ScanEnds
  BY <1>3, <1>4, <1>15, PlaceEnds DEF ScanEnds
<1>16. CASE TokenStarts \/ TokenFails \/ CallbackReturns
  BY <1>3, <1>16, PlaceStill DEF TokenStarts, TokenFails, CallbackReturns, Idle, chain
<1>17. CASE AddFilter \/ RemoveFilter \/ AddCallback \/ RemoveCallback
  BY <1>3, <1>17, PlaceStill DEF AddFilter, RemoveFilter, AddCallback, RemoveCallback, Free, chain
<1>18. CASE UNCHANGED vars
  <2>1. UNCHANGED <<origin, place, pos, last, filters, held, at, c, read>>
    BY <1>18 DEF vars, place, chain
  <2>2. Pending' = Pending /\ Looking' = Looking /\ Holders' = Holders
    BY <2>1 DEF Pending, Looking, Holders
  <2> QED
    BY <1>3, <1>4, <2>1, <2>2, PlaceTogether DEF PlaceInv, PlaceRight
<1> QED
  BY <1>5, <1>6, <1>7, <1>8, <1>9, <1>10, <1>11, <1>12, <1>13, <1>14, <1>15, <1>16, <1>17,
     <1>18 DEF Next, Undefined

LEMMA PlaceInit == Init => PlaceInv
<1> SUFFICES ASSUME Init PROVE PlaceInv
  OBVIOUS
<1>1. ChainInv /\ Holders = {} /\ ~Pending /\ ~Looking
  BY ChainInit DEF Init, Holders, Pending, Looking
<1>2. PositionExact
  BY PlaceFirst DEF Init, PositionExact
<1>3. PlaceRight
  BY <1>1 DEF Init, PlaceRight, Agree
<1> QED
  BY <1>1, <1>2, <1>3 DEF PlaceInv

(* The line and the column are those of the last character read, whatever  *)
(* filters drop, replace, hold and give back, for every source.            *)
THEOREM PositionExactAlways == Spec => []PositionExact
<1>1. PlaceInv => PositionExact
  BY DEF PlaceInv
<1> QED
  BY <1>1, PlaceInit, PlaceStep, PTL DEF Spec
=============================================================================
