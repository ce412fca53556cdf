--------------------------- MODULE ConfigctlProof ---------------------------
(* Theorems about Configctl: a command that succeeds did what it was asked *)
(* for, and one that fails leaves the file as it was, for any number of    *)
(* processes and any commands that can be taken apart.  And about          *)
(* Preferences: saves of preferences do not disturb one another, for any   *)
(* number of processes and any names.                                      *)
EXTENDS Configctl, Preferences, ArraySeqProof

----------------------------------------------------------------------------
(* strchr(), and arguments taken apart.                                    *)

LEMMA MinIs ==
    ASSUME NEW S \in SUBSET Int, NEW m \in S, \A k \in S : m <= k
    PROVE  Min(S) = m
<1>1. \E x \in S : \A y \in S : x <= y
  BY Zenon
<1>2. Min(S) \in S /\ \A y \in S : Min(S) <= y
  BY <1>1, Zenon DEF Min
<1>3. Min(S) <= m /\ m <= Min(S)
  BY <1>2, Zenon
<1>4. Min(S) \in Int /\ m \in Int
  BY <1>2, Zenon
<1> HIDE <1>1, <1>2
<1> QED
  BY <1>3, <1>4

LEMMA NoneAt ==
    ASSUME NEW s \in Texts, NEW c, c \notin Range(s)
    PROVE  Before(s, c) = s /\ After(s, c) = NULL
<1>1. At(s, c) = {}
  BY DEF At, Range
<1> QED
  BY <1>1 DEF Before, After

(* A text is taken apart at the first c, which stands for itself alone.    *)
Letter(c) == <<c>>
Joined(a, b) == a \o b
Around(s, d, t) == Joined(Joined(s, d), t)

LEMMA LetterFacts ==
    ASSUME NEW S, NEW c \in S
    PROVE  /\ Letter(c) \in Seq(S) /\ Len(Letter(c)) = 1 /\ Letter(c)[1] = c
           /\ Range(Letter(c)) = {c}
<1>1. <<c>> \in Seq(S) /\ Len(<<c>>) = 1 /\ <<c>>[1] = c
  OBVIOUS
<1>2. DOMAIN <<c>> = {1}
  OBVIOUS
<1>3. Range(<<c>>) = {<<c>>[x] : x \in {1}}
  BY <1>2 DEF Range
<1> QED
  BY <1>1, <1>3 DEF Letter

LEMMA FirstAt ==
    ASSUME NEW S, NEW s \in Seq(S), NEW d \in Seq(S), NEW t \in Seq(S),
           NEW c, Len(d) = 1, d[1] = c, c \notin Range(s)
    PROVE  Before(Around(s, d, t), c) = s /\ After(Around(s, d, t), c) = t
<1>1. PICK n \in Nat, m \in Nat : n = Len(s) /\ m = Len(t)
  BY LenProperties
<1>h. PICK h : h = Joined(s, d)
  OBVIOUS
<1>i. /\ h \in Seq(S) /\ Len(h) = Len(s) + Len(d)
      /\ \A k \in 1..(Len(s) + Len(d)) : h[k] = IF k <= Len(s) THEN s[k] ELSE d[k - Len(s)]
  BY <1>h, ConcatProperties DEF Joined
<1>j. /\ Len(h) = n + 1
      /\ \A k \in 1..n : h[k] = s[k]
      /\ h[n + 1] = c
  BY <1>1, <1>i
<1>2. PICK u : u = Around(s, d, t)
  OBVIOUS
<1>k. /\ u \in Seq(S) /\ Len(u) = Len(h) + Len(t)
      /\ \A k \in 1..(Len(h) + Len(t)) : u[k] = IF k <= Len(h) THEN h[k] ELSE t[k - Len(h)]
  <2>1. u = h \o t
    BY <1>h, <1>2 DEF Joined, Around
  <2>2. h \in Seq(S)
    BY <1>i
  <2> QED
    BY <2>1, <2>2, ConcatProperties
<1>l. ASSUME NEW k \in 1..m PROVE u[n + 1 + k] = t[k]
  <2>1. n + 1 + k \in 1..(n + 1 + m) /\ ~(n + 1 + k <= n + 1) /\ n + 1 + k - (n + 1) = k
    BY <1>1
  <2> QED
    BY <1>1, <1>j, <1>k, <2>1
<1>3. /\ u \in Seq(S) /\ Len(u) = n + 1 + m
      /\ \A k \in 1..n : u[k] = s[k]
      /\ u[n + 1] = c
      /\ \A k \in 1..m : u[n + 1 + k] = t[k]
  BY <1>1, <1>j, <1>k, <1>l
<1>4. DOMAIN s = 1..n /\ DOMAIN u = 1..(n + 1 + m)
  BY <1>1, <1>2, <1>3, LenProperties
<1>s. \A k \in 1..(n + 1 + m) : u[k] \in S
  BY <1>3, ElementOfSeq, Zenon
<1>5. ASSUME NEW k \in 1..n PROVE u[k] # c
  <2>1. s[k] \in Range(s)
    BY <1>4 DEF Range
  <2> QED
    BY <1>2, <1>3, <2>1
<1>6. n + 1 \in At(u, c) /\ \A k \in At(u, c) : k \in Int /\ n + 1 <= k
  BY <1>2, <1>3, <1>4, <1>5 DEF At
<1>7. At(u, c) # {} /\ Min(At(u, c)) = n + 1
  BY <1>6, MinIs
<1>8. n + 1 - 1 = n /\ n + 2 \in Int
  BY <1>1
<1>9. Before(u, c) = SubSeq(u, 1, n)
  BY <1>7, <1>8 DEF Before
<1>10. SubSeq(u, 1, n) = s
  <2> DEFINE v == SubSeq(u, 1, n)
  <2>1. \A k \in 1..n : u[k] \in S
    BY <1>s
  <2>2. v \in Seq(S) /\ Len(v) = n /\ \A k \in 1..n : v[k] = u[k]
    BY <2>1, SubSeqProperties
  <2> HIDE DEF v
  <2>3. v = s
    <3>1. Len(v) = Len(s)
      BY <1>1, <2>2
    <3>2. \A k \in 1..Len(s) : v[k] = s[k]
      BY <1>1, <1>3, <2>2
    <3>3. v \in Seq(S) /\ s \in Seq(S)
      BY <2>2
    <3> QED
      BY <3>1, <3>2, <3>3, SeqEqual
  <2> QED
    BY <2>3 DEF v
<1>11. Len(Before(u, c)) + 2 = n + 2
  BY <1>3, <1>9, <1>10
<1>12. After(u, c) = SubSeq(u, n + 2, n + 1 + m)
  BY <1>2, <1>3, <1>7, <1>11 DEF After
<1>13. SubSeq(u, n + 2, n + 1 + m) = t
  <2> DEFINE v == SubSeq(u, n + 2, n + 1 + m)
  <2>1. \A k \in (n + 2)..(n + 1 + m) : u[k] \in S
    BY <1>s
  <2>2. /\ n + 2 \in Int /\ n + 1 + m \in Int /\ n + 1 + m - (n + 2) + 1 = m
        /\ (IF n + 2 <= n + 1 + m THEN m ELSE 0) = m
        /\ \A k \in 1..m : n + 2 + k - 1 = n + 1 + k
    BY <1>1
  <2>3. v \in Seq(S) /\ Len(v) = m /\ \A k \in 1..m : v[k] = u[n + 2 + k - 1]
    BY <2>1, <2>2, SubSeqProperties
  <2> HIDE DEF v
  <2>4. \A k \in 1..m : v[k] = t[k]
    BY <1>2, <1>3, <2>2, <2>3
  <2>5. v = t
    BY <1>1, <1>3, <2>3, <2>4, SeqEqual
  <2> QED
    BY <2>5 DEF v
<1> QED
  BY <1>2, <1>9, <1>10, <1>12, <1>13

LEMMA TextFacts ==
    ASSUME NEW s \in Texts, NEW t \in Texts
    PROVE  /\ s \o <<>> = s /\ <<>> \o s = s
           /\ s \o t \in Texts /\ Range(s \o t) = Range(s) \cup Range(t)
<1>1. s \in Seq(Chars) /\ t \in Seq(Chars)
  BY DEF Texts
<1>2. s \o <<>> = s /\ <<>> \o s = s
  BY <1>1, ConcatEmptySeq
<1>3. s \o t \in Texts
  BY <1>1, ConcatProperties DEF Texts
<1>4. Range(s \o t) = Range(s) \cup Range(t)
  BY <1>1, RangeConcatenation
<1> QED
  BY <1>2, <1>3, <1>4

Cut(s, c, t) == s \o (<<c>> \o t)

LEMMA CutFacts ==
    ASSUME NEW s \in Texts, NEW c \in Chars, NEW t \in Texts
    PROVE  /\ <<c>> \o t \in Texts /\ Range(<<c>> \o t) = {c} \cup Range(t)
           /\ Cut(s, c, t) \in Texts
           /\ Cut(s, c, t) = Around(s, Letter(c), t)
<1>1. PICK d \in Texts : d = Letter(c) /\ Range(d) = {c}
  BY LetterFacts DEF Texts
<1>2. PICK r : r = d \o t
  OBVIOUS
<1>3. r \in Texts /\ Range(r) = Range(d) \cup Range(t)
  BY <1>2, TextFacts
<1>4. s \o r \in Texts
  BY <1>3, TextFacts
<1>5. r = <<c>> \o t
  BY <1>1, <1>2 DEF Letter
<1>6. s \o (d \o t) = (s \o d) \o t
  BY ConcatAssociative DEF Texts
<1>9. d \o t = r
  BY <1>2
<1>7. Cut(s, c, t) = s \o r
  BY <1>5, Zenon DEF Cut
<1>8. Around(s, Letter(c), t) = (s \o d) \o t
  BY <1>1 DEF Around, Joined
<1>10. s \o r = (s \o d) \o t
  BY <1>6, <1>9
<1>11. Range(r) = {c} \cup Range(t)
  BY <1>1, <1>3, Zenon
<1> QED
  BY <1>3, <1>4, <1>5, <1>7, <1>8, <1>10, <1>11, Zenon

LEMMA FirstIn ==
    ASSUME NEW s \in Texts, NEW c \in Chars, NEW t \in Texts, c \notin Range(s)
    PROVE  Before(Cut(s, c, t), c) = s /\ After(Cut(s, c, t), c) = t
<1>1. PICK d \in Texts : d = Letter(c) /\ Len(d) = 1 /\ d[1] = c
  BY LetterFacts DEF Texts
<1>2. Cut(s, c, t) = Around(s, d, t)
  <2>1. Cut(s, c, t) = Around(s, Letter(c), t)
    BY CutFacts
  <2> QED
    BY <1>1, <2>1, Zenon
<1>3. Before(Around(s, d, t), c) = s /\ After(Around(s, d, t), c) = t
  <2>1. s \in Seq(Chars) /\ d \in Seq(Chars) /\ t \in Seq(Chars)
    BY DEF Texts
  <2> QED
    BY <1>1, <2>1, FirstAt
<1> QED
  BY <1>2, <1>3

LEMMA ThreeTexts ==
    ASSUME NEW a \in Texts, NEW b \in Texts, NEW c \in Texts
    PROVE  (a \o b) \o c = a \o (b \o c)
  BY ConcatAssociative DEF Texts

FromLeft(a, b, c, d) == ((a \o b) \o c) \o d
FromRight(a, b, c, d) == a \o (b \o (c \o d))

LEMMA FourTexts ==
    ASSUME NEW a \in Texts, NEW b \in Texts, NEW c \in Texts, NEW d \in Texts
    PROVE  FromLeft(a, b, c, d) = FromRight(a, b, c, d)
<1> DEFINE e == a \o b
           f == c \o d
<1>1. e \in Texts
  BY TextFacts
<1>2. f \in Texts
  BY TextFacts
<1>3. (a \o b) \o f = a \o (b \o f)
  <2> HIDE DEF e, f
  <2> QED
    BY <1>2, ThreeTexts
<1>4. (e \o c) \o d = e \o (c \o d)
  <2> HIDE DEF e, f
  <2> QED
    BY <1>1, ThreeTexts
<1> QED
  BY <1>3, <1>4, Zenon DEF FromLeft, FromRight

(* What follows the section.                                               *)
EqualValue(arg) == IF arg.value = NULL THEN <<>> ELSE <<"=">> \o arg.value
Tail1(arg) == arg.variable \o EqualValue(arg)

LEMMA ArgFacts ==
    ASSUME NEW arg \in Args
    PROVE  /\ arg.variable \in Texts /\ <<>> \in Texts
           /\ arg.section # NULL => arg.section \in Texts
           /\ arg.value # NULL => arg.value \in Texts
           /\ EqualValue(arg) \in Texts /\ Tail1(arg) \in Texts
           /\ arg.value = NULL => Tail1(arg) = arg.variable
<1>1. /\ arg.variable \in Texts
      /\ arg.section # NULL => arg.section \in Texts
      /\ arg.value # NULL => arg.value \in Texts
  BY DEF Args
<1>2. <<>> \in Texts
  BY DEF Texts
<1>3. "=" \in Chars
  BY CommandAssumption
<1>4. arg.value # NULL => <<"=">> \o arg.value \in Texts
  BY <1>1, <1>3, CutFacts
<1>5. EqualValue(arg) \in Texts
  BY <1>2, <1>4 DEF EqualValue
<1>6. Tail1(arg) \in Texts
  BY <1>1, <1>3, <1>5, TextFacts DEF Tail1
<1>7. arg.value = NULL => Tail1(arg) = arg.variable
  BY <1>1, <1>3, TextFacts DEF Tail1, EqualValue
<1> QED
  BY <1>1, <1>2, <1>5, <1>6, <1>7

LEMMA TailSplit ==
    ASSUME NEW arg \in Args, NEW write \in BOOLEAN, Clear(arg, write)
    PROVE  /\ (IF write THEN Before(Tail1(arg), "=") ELSE Tail1(arg)) = arg.variable
           /\ (IF write THEN After(Tail1(arg), "=") ELSE NULL) = arg.value
<1>0. "=" \in Chars
  BY CommandAssumption
<1>1. CASE ~write
  <2>1. arg.value = NULL
    BY <1>1 DEF Clear
  <2> QED
    BY <1>1, <2>1, ArgFacts
<1>2. CASE write
  <2>1. "=" \notin Range(arg.variable)
    BY <1>2 DEF Clear
  <2>2. CASE arg.value = NULL
    <3>1. Tail1(arg) = arg.variable /\ arg.variable \in Texts
      BY <2>2, ArgFacts
    <3>2. Before(arg.variable, "=") = arg.variable /\ After(arg.variable, "=") = NULL
      BY <2>1, <3>1, NoneAt
    <3> QED
      BY <1>2, <2>2, <3>1, <3>2
  <2>3. CASE arg.value # NULL
    <3>1. arg.variable \in Texts /\ arg.value \in Texts
      BY <2>3, ArgFacts
    <3>2. Tail1(arg) = Cut(arg.variable, "=", arg.value)
      BY <2>3 DEF Tail1, EqualValue, Cut
    <3>3. Before(Tail1(arg), "=") = arg.variable /\ After(Tail1(arg), "=") = arg.value
      BY <1>0, <2>1, <3>1, <3>2, FirstIn
    <3> QED
      BY <1>2, <3>3
  <2> QED
    BY <2>2, <2>3
<1> QED
  BY <1>1, <1>2

(* An argument is understood as it was meant.                              *)
LEMMA SplitText ==
    ASSUME NEW arg \in Args, NEW write \in BOOLEAN, Clear(arg, write)
    PROVE  Split(Text(arg), write) =
               [section |-> Section(arg), key |-> arg.variable, value |-> arg.value]
<1>0. "." \in Chars /\ "=" \in Chars /\ "." # "="
  BY CommandAssumption
<1>1. /\ Tail1(arg) \in Texts /\ arg.variable \in Texts /\ EqualValue(arg) \in Texts
      /\ arg.section # NULL => arg.section \in Texts
      /\ arg.value # NULL => arg.value \in Texts
  BY ArgFacts
<1>2. CASE arg.section # NULL
  <2>1. arg.section \in Texts /\ "." \notin Range(arg.section)
    BY <1>1, <1>2 DEF Clear
  <2>2. Text(arg) = ((arg.section \o <<".">>) \o arg.variable) \o EqualValue(arg)
    BY <1>2 DEF Text, EqualValue
  <2>3. Text(arg) = Cut(arg.section, ".", Tail1(arg))
    <3>1. PICK d \in Texts : d = <<".">>
      BY <1>0, LetterFacts DEF Letter, Texts
    <3>2. PICK a \in Texts : a = arg.section
      BY <2>1
    <3>3. PICK b \in Texts : b = arg.variable
      BY <1>1
    <3>4. PICK r \in Texts : r = EqualValue(arg)
      BY <1>1
    <3>5. Text(arg) = FromLeft(a, d, b, r)
      BY <2>2, <3>1, <3>2, <3>3, <3>4 DEF FromLeft
    <3>6. FromLeft(a, d, b, r) = FromRight(a, d, b, r)
      BY FourTexts
    <3>7. b \o r = Tail1(arg)
      BY <3>3, <3>4 DEF Tail1
    <3>8. Cut(arg.section, ".", Tail1(arg)) = FromRight(a, d, b, r)
      BY <3>1, <3>2, <3>7, Zenon DEF Cut, FromRight
    <3> QED
      BY <3>5, <3>6, <3>8
  <2>4. Before(Text(arg), ".") = arg.section /\ After(Text(arg), ".") = Tail1(arg)
    BY <1>0, <1>1, <2>1, <2>3, FirstIn
  <2>5. Tail1(arg) # NULL
    BY <1>1, CommandAssumption
  <2> QED
    BY <1>2, <2>4, <2>5, TailSplit DEF Split, Section
<1>3. CASE arg.section = NULL
  <2>1. Text(arg) = Tail1(arg)
    <3>1. Text(arg) = (<<>> \o arg.variable) \o EqualValue(arg)
      BY <1>3 DEF Text, EqualValue
    <3>2. <<>> \o arg.variable = arg.variable
      BY <1>0, <1>1, TextFacts
    <3> QED
      BY <3>1, <3>2 DEF Tail1
  <2>2. "." \notin Range(Tail1(arg))
    <3>1. CASE arg.value = NULL
      <4>1. Tail1(arg) = arg.variable /\ arg.variable \o <<>> = arg.variable
        BY <1>0, <1>1, <3>1, ArgFacts, TextFacts
      <4> QED
        BY <1>3, <3>1, <4>1 DEF Clear
    <3>2. CASE arg.value # NULL
      <4>1. "." \notin Range(arg.variable \o arg.value)
        BY <1>3, <3>2 DEF Clear
      <4>2. Range(arg.variable \o arg.value) = Range(arg.variable) \cup Range(arg.value)
        BY <1>0, <1>1, <3>2, TextFacts
      <4>3. Tail1(arg) = arg.variable \o (<<"=">> \o arg.value)
        BY <3>2 DEF Tail1, EqualValue
      <4>4. PICK r \in Texts : r = <<"=">> \o arg.value /\ Range(r) = {"="} \cup Range(arg.value)
        BY <1>0, <1>1, <3>2, CutFacts
      <4>5. Range(arg.variable \o r) = Range(arg.variable) \cup Range(r)
        BY <1>1, TextFacts
      <4> QED
        BY <1>0, <4>1, <4>2, <4>3, <4>4, <4>5
    <3> QED
      BY <3>1, <3>2
  <2>3. Before(Tail1(arg), ".") = Tail1(arg) /\ After(Tail1(arg), ".") = NULL
    BY <1>1, <2>2, NoneAt
  <2> QED
    BY <1>3, <2>1, <2>3, TailSplit DEF Split, Section
<1> QED
  BY <1>2, <1>3
----------------------------------------------------------------------------
(* What arguments do to settings, one after the other.                     *)

EffectRun(c, args, n, f) ==
    f = [k \in 0..n |-> IF k = 0 THEN c ELSE Obeyed(f[k - 1], args[k])]

LEMMA EffectIs ==
    ASSUME NEW c, NEW args
    PROVE  Effect(c, args) = (CHOOSE f : EffectRun(c, args, Len(args), f))[Len(args)]
  BY DEF Effect, EffectRun

LEMMA EffectRuns ==
    ASSUME NEW c, NEW args, NEW last \in Nat
    PROVE  \E f : EffectRun(c, args, last, f)
<1> DEFINE T == {n \in Nat : ~\E f : EffectRun(c, args, n, f)}
<1>1. ASSUME T # {} PROVE FALSE
  <2>1. PICK n \in T : \A u \in T : n <= u
    BY <1>1, Smallest
  <2>2. n \in Nat /\ ~\E f : EffectRun(c, args, n, f)
    BY <2>1
  <2>3. CASE n = 0
    <3> DEFINE f == [k \in 0..0 |-> c]
    <3>1. EffectRun(c, args, 0, f)
      <4>1. \A k \in 0..0 : k = 0
        OBVIOUS
      <4> QED
        BY <4>1 DEF EffectRun
    <3> QED
      BY <2>2, <2>3, <3>1
  <2>4. CASE n # 0
    <3>1. PICK m \in Nat : n = m + 1
      <4>1. n - 1 \in Nat /\ n = (n - 1) + 1
        BY <2>2, <2>4
      <4> QED
        BY <4>1
    <3>2. m \notin T
      BY <2>1, <3>1
    <3>3. PICK g : EffectRun(c, args, m, g)
      BY <3>2
    <3> DEFINE f == [k \in 0..n |-> IF k = n THEN Obeyed(g[m], args[n]) ELSE g[k]]
    <3>4. ASSUME NEW k \in 0..n
          PROVE  f[k] = IF k = 0 THEN c ELSE Obeyed(f[k - 1], args[k])
      <4>1. CASE k = n
        <5>1. k # 0 /\ k - 1 = m /\ m \in 0..n /\ m # n
          BY <2>2, <3>1, <4>1
        <5>2. f[k] = Obeyed(g[m], args[n]) /\ f[m] = g[m]
          BY <4>1, <5>1
        <5> HIDE DEF f
        <5> QED
          BY <4>1, <5>1, <5>2
      <4>2. CASE k # n
        <5>1. k \in 0..m /\ f[k] = g[k]
          BY <2>2, <3>1, <4>2
        <5>2. g[k] = IF k = 0 THEN c ELSE Obeyed(g[k - 1], args[k])
          BY <3>3, <5>1 DEF EffectRun
        <5>3. CASE k = 0
          BY <5>1, <5>2, <5>3
        <5>4. CASE k # 0
          <6>1. k - 1 \in 0..n /\ k - 1 # n
            BY <2>2, <4>2, <5>4
          <6>2. f[k - 1] = g[k - 1]
            BY <6>1
          <6> HIDE DEF f
          <6> QED
            BY <5>1, <5>2, <5>4, <6>2
        <5> HIDE DEF f
        <5> QED
          BY <5>3, <5>4
      <4> HIDE DEF f
      <4> QED
        BY <4>1, <4>2
    <3>5. f = [k \in 0..n |-> f[k]]
      OBVIOUS
    <3> HIDE DEF f
    <3>6. EffectRun(c, args, n, f)
      BY <3>4, <3>5 DEF EffectRun
    <3> QED
      BY <2>2, <3>6
  <2> QED
    BY <2>3, <2>4
<1> QED
  BY <1>1

LEMMA EffectFacts ==
    ASSUME NEW c, NEW args, NEW n \in Nat, n = Len(args)
    PROVE  \E f : /\ f[0] = c
                  /\ \A k \in 1..n : f[k] = Obeyed(f[k - 1], args[k])
                  /\ f[n] = Effect(c, args)
<1>1. PICK f : f = CHOOSE g : EffectRun(c, args, n, g)
  OBVIOUS
<1>2. EffectRun(c, args, n, f)
  BY <1>1, EffectRuns
<1>3. f[0] = c
  BY <1>2 DEF EffectRun
<1>4. ASSUME NEW k \in 1..n PROVE f[k] = Obeyed(f[k - 1], args[k])
  <2>1. k \in 0..n /\ k # 0
    OBVIOUS
  <2> QED
    BY <1>2, <2>1 DEF EffectRun
<1>5. f[n] = Effect(c, args)
  BY <1>1, EffectIs
<1> QED
  BY <1>3, <1>4, <1>5

Obeys(f, args, n) == \A k \in 1..n : f[k] = Obeyed(f[k - 1], args[k])
Alike(A, B, n) == \A k \in 1..n : A[k] = B[k]

(* The same arguments have the same effect.                                *)
LEMMA SameEffect ==
    ASSUME NEW n \in Nat, NEW f, NEW g, NEW A, NEW B, f[0] = g[0],
           Alike(A, B, n), Obeys(f, A, n), Obeys(g, B, n)
    PROVE  f[n] = g[n]
<1> DEFINE T == {k \in 0..n : f[k] # g[k]}
<1>1. ASSUME T # {} PROVE FALSE
  <2>1. PICK k \in T : \A u \in T : k <= u
    <3>1. T \in SUBSET Nat
      OBVIOUS
    <3> QED
      BY <1>1, <3>1, Smallest
  <2>2. k \in 0..n /\ f[k] # g[k]
    BY <2>1
  <2>3. k \in 1..n /\ k - 1 \in 0..n /\ ~(k <= k - 1)
    BY <2>2
  <2>4. f[k - 1] = g[k - 1]
    BY <2>1, <2>3
  <2>5. f[k] = Obeyed(f[k - 1], A[k]) /\ g[k] = Obeyed(g[k - 1], B[k]) /\ A[k] = B[k]
    BY <2>3 DEF Obeys, Alike
  <2> QED
    BY <2>2, <2>4, <2>5
<1>2. n \in 0..n
  OBVIOUS
<1> QED
  BY <1>1, <1>2

Beginning(args, n) == SubSeq(args, 1, n)

LEMMA BeginningFacts ==
    ASSUME NEW args \in Seq(Args), NEW n \in 0..Len(args), NEW P, P = Beginning(args, n)
    PROVE  /\ P \in Seq(Args) /\ Len(P) = n
           /\ \A k \in 1..n : P[k] = args[k]
<1>1. Len(args) \in Nat /\ \A k \in 1..Len(args) : args[k] \in Args
  BY LenProperties, ElementOfSeq
<1>2. 1 \in Int /\ n \in Int /\ \A k \in 1..n : args[k] \in Args
  BY <1>1
<1>3. SubSeq(args, 1, n) \in Seq(Args)
  BY <1>2, SubSeqProperties
<1>4. Len(SubSeq(args, 1, n)) = IF 1 <= n THEN n - 1 + 1 ELSE 0
  BY <1>2, SubSeqProperties
<1>5. \A k \in 1..(n - 1 + 1) : SubSeq(args, 1, n)[k] = args[1 + k - 1]
  BY <1>2, SubSeqProperties
<1>6. n - 1 + 1 = n /\ (IF 1 <= n THEN n - 1 + 1 ELSE 0) = n
  BY <1>1
<1>7. \A k \in 1..n : 1 + k - 1 = k
  OBVIOUS
<1> QED
  BY <1>3, <1>4, <1>5, <1>6, <1>7 DEF Beginning

LEMMA EffectNone ==
    ASSUME NEW c, NEW args \in Seq(Args)
    PROVE  Effect(c, Beginning(args, 0)) = c
<1>1. 0 \in 0..Len(args)
  BY LenProperties
<1>2. PICK P : P = Beginning(args, 0) /\ Len(P) = 0
  BY <1>1, BeginningFacts
<1>3. PICK f : f[0] = c /\ f[0] = Effect(c, P)
  BY <1>2, EffectFacts
<1> QED
  BY <1>2, <1>3

LEMMA EffectNext ==
    ASSUME NEW c, NEW args \in Seq(Args), NEW k \in 1..Len(args)
    PROVE  Effect(c, Beginning(args, k)) = Obeyed(Effect(c, Beginning(args, k - 1)), args[k])
<1>0. Len(args) \in Nat
  BY LenProperties
<1>1. PICK m \in Nat : m = k - 1
  OBVIOUS
<1>2. k \in 0..Len(args) /\ m \in 0..Len(args) /\ k \in Nat /\ k \in 1..k
  BY <1>0, <1>1
<1>3. PICK P : P = Beginning(args, k) /\ Len(P) = k /\ \A j \in 1..k : P[j] = args[j]
  BY <1>2, BeginningFacts
<1>4. PICK Q : Q = Beginning(args, m) /\ Len(Q) = m /\ \A j \in 1..m : Q[j] = args[j]
  BY <1>2, BeginningFacts
<1>5. PICK f : /\ f[0] = c
               /\ \A j \in 1..k : f[j] = Obeyed(f[j - 1], P[j])
               /\ f[k] = Effect(c, P)
  BY <1>2, <1>3, EffectFacts
<1>6. PICK g : /\ g[0] = c
               /\ \A j \in 1..m : g[j] = Obeyed(g[j - 1], Q[j])
               /\ g[m] = Effect(c, Q)
  BY <1>2, <1>4, EffectFacts
<1>7. f[m] = g[m]
  <2>1. \A j \in 1..m : j \in 1..k
    BY <1>1
  <2>2. Obeys(f, P, m)
    BY <1>5, <2>1 DEF Obeys
  <2>3. Alike(P, Q, m)
    BY <1>3, <1>4, <2>1 DEF Alike
  <2>4. Obeys(g, Q, m)
    BY <1>6 DEF Obeys
  <2>5. f[0] = g[0]
    BY <1>5, <1>6
  <2> QED
    BY <2>2, <2>3, <2>4, <2>5, SameEffect
<1>8. f[k] = Obeyed(f[m], args[k])
  BY <1>1, <1>2, <1>3, <1>5
<1> QED
  BY <1>1, <1>3, <1>4, <1>5, <1>6, <1>7, <1>8

LEMMA EffectAll ==
    ASSUME NEW args \in Seq(Args)
    PROVE  Beginning(args, Len(args)) = args
<1>1. Len(args) \in 0..Len(args)
  BY LenProperties
<1>2. PICK P \in Seq(Args) :
          /\ P = Beginning(args, Len(args)) /\ Len(P) = Len(args)
          /\ \A k \in 1..Len(args) : P[k] = args[k]
  BY <1>1, BeginningFacts
<1>3. P = args
  BY <1>2, SeqEqual
<1> QED
  BY <1>2, <1>3
----------------------------------------------------------------------------
(* The inductive invariant: what a process has in memory is the effect of  *)
(* the arguments it has been through, as long as none of them failed, and  *)
(* the file of a process that is alone is as it found it.                  *)

States == [pc : {"idle", "load", "args", "save", "write", "done", "failed"},
           todo : Seq(Args), config : Contents, ret : {0, -1},
           asked : Commands \cup {NULL}, found : Contents, alone : BOOLEAN]
Running(s) == s.pc \in {"load", "args", "save", "write"}
Loaded(s) == s.pc \in {"args", "save", "write"}

Typed ==
    /\ file \in Contents \cup {Garbled}
    /\ proc \in [Procs -> States]
    /\ \A p \in Procs : Running(proc[p]) => proc[p].asked \in Commands

FileInv ==
    \A p \in Procs : proc[p].alone =>
        /\ proc[p].pc # "load"
        /\ Loaded(proc[p]) =>
               /\ \A q \in Procs \ {p} : proc[q].pc # "write"
               /\ file = IF proc[p].pc = "write" THEN {} ELSE proc[p].found

Later(args, n) == SubSeq(args, n + 1, Len(args))
Through(s, n) ==
    /\ s.todo = Later(s.asked.args, n)
    /\ s.ret = 0 =>
           /\ s.config = Effect(s.found, Beginning(s.asked.args, n))
           /\ \A k \in 1..n : k \notin Missing(s.found, s.asked.args)

ArgsRight(s) ==
    /\ s.pc = "load" => s.todo = s.asked.args /\ s.ret = 0
    /\ s.pc = "args" => \E n \in 0..Len(s.asked.args) : Through(s, n)
    /\ s.pc \in {"save", "write"} => s.ret = 0 /\ Through(s, Len(s.asked.args))
ArgsInv == \A p \in Procs : ArgsRight(proc[p])

Inv == Typed /\ FileInv /\ ArgsInv
----------------------------------------------------------------------------
(* The operators of the steps.                                             *)

LEMMA LaterFacts ==
    ASSUME NEW args \in Seq(Args), NEW n \in 0..Len(args), NEW t, t = Later(args, n)
    PROVE  /\ t \in Seq(Args) /\ Len(t) = Len(args) - n
           /\ \A k \in 1..(Len(args) - n) : t[k] = args[n + k]
<1>0. Len(args) \in Nat
  BY LenProperties
<1>1. PICK m \in Int : m = n + 1
  BY <1>0
<1>2. PICK len \in Int : len = Len(args)
  BY <1>0
<1>3. \A k \in m..len : args[k] \in Args
  <2>1. \A k \in 1..Len(args) : args[k] \in Args
    BY ElementOfSeq
  <2> QED
    BY <1>1, <1>2, <2>1
<1>4. SubSeq(args, m, len) \in Seq(Args)
  BY <1>3, SubSeqProperties
<1>5. Len(SubSeq(args, m, len)) = IF m <= len THEN len - m + 1 ELSE 0
  BY <1>3, SubSeqProperties
<1>6. \A k \in 1..(len - m + 1) : SubSeq(args, m, len)[k] = args[m + k - 1]
  BY <1>3, SubSeqProperties
<1>7. t = SubSeq(args, m, len)
  BY <1>1, <1>2 DEF Later
<1>8. len - m + 1 = Len(args) - n /\ (IF m <= len THEN len - m + 1 ELSE 0) = Len(args) - n
  BY <1>0, <1>1, <1>2
<1>9. \A k \in 1..(Len(args) - n) : m + k - 1 = n + k
  BY <1>0, <1>1
<1> QED
  BY <1>4, <1>5, <1>6, <1>7, <1>8, <1>9

LEMMA LaterAll ==
    ASSUME NEW args \in Seq(Args)
    PROVE  Later(args, 0) = args
<1>1. Len(args) \in Nat /\ 0 \in 0..Len(args)
  BY LenProperties
<1>2. PICK t : t = Later(args, 0)
  OBVIOUS
<1>3. /\ t \in Seq(Args) /\ Len(t) = Len(args) - 0
      /\ \A k \in 1..(Len(args) - 0) : t[k] = args[0 + k]
  BY <1>1, <1>2, LaterFacts
<1>4. Len(t) = Len(args) /\ \A k \in 1..Len(t) : t[k] = args[k]
  BY <1>1, <1>3
<1>5. t = args
  BY <1>3, <1>4, SeqEqual
<1> QED
  BY <1>2, <1>5

LEMMA LaterNone ==
    ASSUME NEW args \in Seq(Args), NEW n \in 0..Len(args)
    PROVE  Later(args, n) = <<>> <=> n = Len(args)
<1>1. Len(args) \in Nat
  BY LenProperties
<1>2. PICK t \in Seq(Args) : t = Later(args, n) /\ Len(t) = Len(args) - n
  BY LaterFacts
<1>3. t = <<>> <=> Len(t) = 0
  BY <1>2, EmptySeq
<1> QED
  BY <1>1, <1>2, <1>3

LEMMA LaterNext ==
    ASSUME NEW args \in Seq(Args), NEW n \in 0..Len(args), Later(args, n) # <<>>
    PROVE  /\ n + 1 \in 1..Len(args)
           /\ Head(Later(args, n)) = args[n + 1]
           /\ Tail(Later(args, n)) = Later(args, n + 1)
<1>1. Len(args) \in Nat /\ n # Len(args)
  BY LenProperties, LaterNone
<1>2. PICK m \in Nat : m = n + 1
  BY <1>1
<1>3. m \in 1..Len(args) /\ m \in 0..Len(args)
  BY <1>1, <1>2
<1>4. PICK t \in Seq(Args) :
          /\ t = Later(args, n) /\ Len(t) = Len(args) - n
          /\ \A k \in 1..(Len(args) - n) : t[k] = args[n + k]
  BY LaterFacts
<1>5. PICK u \in Seq(Args) :
          /\ u = Later(args, m) /\ Len(u) = Len(args) - m
          /\ \A k \in 1..(Len(args) - m) : u[k] = args[m + k]
  BY <1>3, LaterFacts
<1>6. t # <<>>
  BY <1>4
<1>7. Head(t) = args[m]
  <2>1. Head(t) = t[1]
    BY <1>6, HeadTailProperties
  <2>2. 1 \in 1..(Len(args) - n)
    BY <1>1
  <2> QED
    BY <1>2, <1>4, <2>1, <2>2
<1>8. Tail(t) = u
  <2>1. PICK v \in Seq(Args) : v = Tail(t) /\ Len(v) = Len(t) - 1
    BY <1>6, HeadTailProperties
  <2>2. ASSUME NEW k \in 1..Len(v) PROVE v[k] = t[k + 1]
    BY <1>6, <2>1, HeadTailProperties
  <2>3. Len(v) = Len(u) /\ Len(v) = Len(args) - m
    BY <1>1, <1>2, <1>4, <1>5, <2>1
  <2>4. ASSUME NEW k \in 1..Len(v) PROVE v[k] = u[k]
    <3>1. k \in 1..(Len(args) - m) /\ k + 1 \in 1..(Len(args) - n) /\ n + (k + 1) = m + k
      BY <1>1, <1>2, <2>3
    <3> QED
      BY <1>4, <1>5, <2>2, <3>1
  <2>5. v = u
    BY <2>3, <2>4, SeqEqual
  <2> QED
    BY <2>1, <2>5
<1> QED
  BY <1>2, <1>3, <1>4, <1>5, <1>7, <1>8

LEMMA CommandFacts ==
    ASSUME NEW command \in Commands
    PROVE  /\ command.write \in BOOLEAN /\ command.args \in Seq(Args)
           /\ \A k \in 1..Len(command.args) :
                  command.args[k] \in Args /\ Clear(command.args[k], command.write)
<1>1. command \in [write : BOOLEAN, args : Seq(Args)]
  BY CommandAssumption
<1>2. command.write \in BOOLEAN /\ command.args \in Seq(Args)
  BY <1>1
<1>3. DOMAIN command.args = 1..Len(command.args)
  BY <1>2, LenProperties
<1>4. \A k \in 1..Len(command.args) : command.args[k] \in Args
  BY <1>2, ElementOfSeq
<1>5. \A k \in DOMAIN command.args : Clear(command.args[k], command.write)
  BY CommandAssumption
<1> QED
  BY <1>2, <1>3, <1>4, <1>5

LEMMA MissingFacts ==
    ASSUME NEW c, NEW args \in Seq(Args), NEW k \in 1..Len(args)
    PROVE  k \in Missing(c, args) <=>
               /\ args[k].value = NULL
               /\ Value(Effect(c, Beginning(args, k - 1)), Section(args[k]),
                        args[k].variable) = NULL
<1>1. DOMAIN args = 1..Len(args)
  BY LenProperties
<1> QED
  BY <1>1 DEF Missing, Beginning

LEMMA AskedIs ==
    ASSUME NEW p \in Procs, proc[p].asked \in Commands,
           NEW args, args = proc[p].asked.args, NEW n \in 0..Len(args),
           proc[p].todo = Later(args, n), proc[p].todo # <<>>
    PROVE  Asked(p) = [section |-> Section(args[n + 1]), key |-> args[n + 1].variable,
                       value |-> args[n + 1].value]
<1>1. PICK write \in BOOLEAN : write = proc[p].asked.write
  BY CommandFacts
<1>2. args \in Seq(Args)
  BY CommandFacts
<1>3. n + 1 \in 1..Len(args) /\ Head(proc[p].todo) = args[n + 1]
  BY <1>2, LaterNext
<1>4. PICK arg \in Args : arg = args[n + 1] /\ Clear(arg, write)
  BY <1>1, <1>3, CommandFacts
<1>5. Asked(p) = Split(Text(arg), write)
  BY <1>1, <1>3, <1>4 DEF Asked
<1> QED
  BY <1>4, <1>5, SplitText

(* One more argument was obeyed.                                           *)
LEMMA OneMore ==
    ASSUME NEW s, NEW t, NEW args \in Seq(Args), NEW n \in 0..Len(args),
           s.asked.args = args, t.asked = s.asked, t.found = s.found,
           Through(s, n), s.todo # <<>>, t.todo = Tail(s.todo),
           t.ret = 0 =>
               /\ s.ret = 0 /\ t.config = Obeyed(s.config, args[n + 1])
               /\ args[n + 1].value = NULL =>
                      Value(s.config, Section(args[n + 1]), args[n + 1].variable) # NULL
    PROVE  n + 1 \in 0..Len(args) /\ Through(t, n + 1)
<1>1. PICK m \in Nat : m = n + 1
  BY LenProperties
<1>2. m \in 1..Len(args) /\ t.todo = Later(args, m)
  BY <1>1, LaterNext DEF Through
<1>3. m \in 0..Len(args) /\ m - 1 = n
  BY <1>1, <1>2, LenProperties
<1>4. ASSUME t.ret = 0
      PROVE  /\ t.config = Effect(t.found, Beginning(args, m))
             /\ \A k \in 1..m : k \notin Missing(t.found, args)
  <2>1. s.config = Effect(s.found, Beginning(args, n)) /\ s.ret = 0
    BY <1>4 DEF Through
  <2>2. Effect(s.found, Beginning(args, m)) = Obeyed(s.config, args[m])
    <3>1. Effect(s.found, Beginning(args, m)) =
              Obeyed(Effect(s.found, Beginning(args, m - 1)), args[m])
      BY <1>2, EffectNext
    <3> QED
      BY <1>3, <2>1, <3>1
  <2>3. m \notin Missing(s.found, args)
    <3>1. m \in Missing(s.found, args) <=>
              /\ args[m].value = NULL
              /\ Value(Effect(s.found, Beginning(args, m - 1)), Section(args[m]),
                       args[m].variable) = NULL
      BY <1>2, MissingFacts
    <3>2. Effect(s.found, Beginning(args, m - 1)) = s.config
      BY <1>3, <2>1
    <3>3. args[m].value = NULL =>
              Value(s.config, Section(args[m]), args[m].variable) # NULL
      BY <1>1, <1>4
    <3> QED
      BY <3>1, <3>2, <3>3
  <2>4. \A k \in 1..n : k \notin Missing(s.found, args)
    BY <2>1 DEF Through
  <2>5. \A k \in 1..m : k = m \/ k \in 1..n
    BY <1>1
  <2> QED
    BY <1>1, <1>4, <2>2, <2>3, <2>4, <2>5
<1>5. Through(t, m)
  BY <1>2, <1>4 DEF Through
<1> QED
  BY <1>1, <1>3, <1>5

LEMMA AssignedType ==
    ASSUME NEW c \in Contents, NEW a \in Texts, NEW b \in Texts, NEW d \in Texts
    PROVE  Assigned(c, a, b, d) \in Contents
<1>1. <<a, b, d>> \in Texts \X Texts \X Texts
  OBVIOUS
<1> QED
  BY <1>1 DEF Assigned, Contents
----------------------------------------------------------------------------
(* The steps preserve the invariant.  First what the steps of one process  *)
(* have in common: it goes on, or it ends.                                 *)

Others(p) == /\ proc' \in [Procs -> States]
             /\ \A q \in Procs \ {p} : proc'[q] = proc[q]

LEMMA GoesOn ==
    ASSUME Inv, NEW p \in Procs, Others(p), UNCHANGED file,
           proc'[p].pc \in {"load", "args", "save"}, proc'[p].asked \in Commands,
           ArgsRight(proc'[p]),
           proc'[p].alone =>
               /\ proc'[p].pc # "load"
               /\ \A q \in Procs \ {p} : proc[q].pc # "write"
               /\ file = proc'[p].found
    PROVE  Inv'
<1>1. Typed'
  BY DEF Inv, Typed, Others
<1>2. ArgsInv'
  BY DEF Inv, ArgsInv, Others
<1>3. ASSUME NEW q \in Procs, proc'[q].alone
      PROVE  /\ proc'[q].pc # "load"
             /\ Loaded(proc'[q]) =>
                    /\ \A r \in Procs \ {q} : proc'[r].pc # "write"
                    /\ file' = IF proc'[q].pc = "write" THEN {} ELSE proc'[q].found
  <2>1. CASE q = p
    <3>1. \A r \in Procs \ {q} : proc'[r].pc # "write"
      BY <1>3, <2>1 DEF Others
    <3> QED
      BY <1>3, <2>1, <3>1
  <2>2. CASE q # p
    <3>1. proc'[q] = proc[q]
      BY <2>2 DEF Others
    <3>2. \A r \in Procs : proc'[r].pc = "write" => proc[r].pc = "write"
      BY DEF Others
    <3> QED
      BY <1>3, <3>1, <3>2 DEF Inv, FileInv
  <2> QED
    BY <2>1, <2>2
<1>4. FileInv'
  BY <1>3 DEF FileInv
<1> QED
  BY <1>1, <1>2, <1>4 DEF Inv

LEMMA Ended ==
    ASSUME Inv, NEW p \in Procs, Others(p),
           file' # file => proc[p].pc = "write" /\ file' \in Contents \cup {Garbled},
           proc'[p].pc \in {"idle", "done", "failed"}
    PROVE  Inv'
<1>1. Typed'
  BY DEF Inv, Typed, Others, Running
<1>2. ArgsRight(proc'[p])
  BY DEF ArgsRight
<1>3. ArgsInv'
  BY <1>2 DEF Inv, ArgsInv, Others
<1>4. ASSUME NEW q \in Procs, proc'[q].alone
      PROVE  /\ proc'[q].pc # "load"
             /\ Loaded(proc'[q]) =>
                    /\ \A r \in Procs \ {q} : proc'[r].pc # "write"
                    /\ file' = IF proc'[q].pc = "write" THEN {} ELSE proc'[q].found
  <2>1. CASE q = p
    BY <2>1 DEF Loaded
  <2>2. CASE q # p
    <3>1. proc'[q] = proc[q]
      BY <2>2 DEF Others
    <3>2. \A r \in Procs : proc'[r].pc = "write" => proc[r].pc = "write"
      BY DEF Others
    <3>3. ASSUME Loaded(proc[q]) PROVE file' = file
      BY <1>4, <2>2, <3>1, <3>3 DEF Inv, FileInv
    <3> QED
      BY <1>4, <3>1, <3>2, <3>3 DEF Inv, FileInv
  <2> QED
    BY <2>1, <2>2
<1>5. FileInv'
  BY <1>4 DEF FileInv
<1> QED
  BY <1>1, <1>3, <1>5 DEF Inv

LEMMA RunStep ==
    ASSUME Inv, NEW p \in Procs, NEW command \in Commands, Run(p, command)
    PROVE  Inv'
<1>1. command.args \in Seq(Args)
  BY CommandFacts
<1>2. PICK r : r = [Idle EXCEPT !.pc = "load", !.asked = command, !.todo = command.args]
  OBVIOUS
<1>3. /\ r.pc = "load" /\ r.todo = command.args /\ r.config = {} /\ r.ret = 0
      /\ r.asked = command /\ r.found = {} /\ r.alone = FALSE
  BY <1>2 DEF Idle
<1>4. r \in States
  BY <1>1, <1>2 DEF Idle, States, Contents
<1>5. proc' = [proc EXCEPT ![p] = r] /\ UNCHANGED file
  BY <1>2 DEF Run
<1>6. Others(p) /\ proc'[p] = r
  BY <1>4, <1>5 DEF Inv, Typed, Others
<1>7. ArgsRight(r)
  BY <1>3 DEF ArgsRight
<1> QED
  BY <1>3, <1>5, <1>6, <1>7, GoesOn

LEMMA LoadStep ==
    ASSUME Inv, NEW p \in Procs, Load(p)
    PROVE  Inv'
<1>1. PICK c : c = IF file = Garbled THEN {} ELSE file
  OBVIOUS
<1>2. PICK alone \in BOOLEAN :
          alone = (file # Garbled /\ \A q \in Procs : proc[q].pc # "write")
  OBVIOUS
<1>3. c \in Contents
  BY <1>1 DEF Inv, Typed, Contents
<1>4. PICK s \in States : s = proc[p]
  BY DEF Inv, Typed
<1>5. PICK r : r = [s EXCEPT !.pc = "args", !.config = c, !.found = c, !.alone = alone]
  OBVIOUS
<1>6. /\ r.pc = "args" /\ r.todo = s.todo /\ r.config = c /\ r.ret = s.ret
      /\ r.asked = s.asked /\ r.found = c /\ r.alone = alone
  BY <1>4, <1>5 DEF States
<1>7. r \in States
  BY <1>3, <1>4, <1>5 DEF States
<1>8. proc' = [proc EXCEPT ![p] = r] /\ UNCHANGED file
  BY <1>1, <1>2, <1>4, <1>5 DEF Load, Writing, Inv, Typed
<1>9. Others(p) /\ proc'[p] = r
  BY <1>7, <1>8 DEF Inv, Typed, Others
<1>10. s.asked \in Commands /\ s.todo = s.asked.args /\ s.ret = 0
  BY <1>4 DEF Inv, Typed, Running, ArgsInv, ArgsRight, Load
<1>11. ArgsRight(r)
  <2>1. PICK args \in Seq(Args) : args = s.asked.args
    BY <1>10, CommandFacts
  <2>2. 0 \in 0..Len(args) /\ \A k \in 1..0 : FALSE
    BY LenProperties
  <2>3. r.todo = Later(args, 0) /\ r.config = Effect(c, Beginning(args, 0))
    BY <1>6, <1>10, <2>1, LaterAll, EffectNone
  <2>4. Through(r, 0)
    BY <1>6, <2>1, <2>2, <2>3 DEF Through
  <2> QED
    BY <1>6, <2>1, <2>2, <2>4 DEF ArgsRight
<1> QED
  BY <1>1, <1>2, <1>6, <1>8, <1>9, <1>10, <1>11, GoesOn

(* An argument was looked at: in memory, the next state of the process is  *)
(* r, and what is right of it makes the invariant hold.                    *)
LEMMA ArgumentStep ==
    ASSUME Inv, NEW p \in Procs, Argument(p), UNCHANGED file,
           NEW r \in States, proc' = [proc EXCEPT ![p] = r],
           r.pc = "args", r.todo = Tail(proc[p].todo), r.asked = proc[p].asked,
           r.found = proc[p].found, r.alone = proc[p].alone,
           \A n \in 0..Len(r.asked.args) : Through(proc[p], n) /\ r.ret = 0 =>
               /\ proc[p].ret = 0
               /\ r.config = Obeyed(proc[p].config, r.asked.args[n + 1])
               /\ r.asked.args[n + 1].value = NULL =>
                      Value(proc[p].config, Section(r.asked.args[n + 1]),
                            r.asked.args[n + 1].variable) # NULL
    PROVE  Inv'
<1>1. Others(p) /\ proc'[p] = r
  BY DEF Inv, Typed, Others
<1>2. r.asked \in Commands /\ proc[p].pc = "args" /\ proc[p].todo # <<>>
  BY DEF Inv, Typed, Running, Argument
<1>3. PICK args \in Seq(Args) : args = r.asked.args
  BY <1>2, CommandFacts
<1>4. PICK n \in 0..Len(args) : Through(proc[p], n)
  BY <1>2, <1>3 DEF Inv, ArgsInv, ArgsRight
<1>5. n + 1 \in 0..Len(args) /\ Through(r, n + 1)
  BY <1>2, <1>3, <1>4, OneMore
<1>6. ArgsRight(r)
  BY <1>3, <1>5 DEF ArgsRight
<1>7. r.alone =>
          /\ \A q \in Procs \ {p} : proc[q].pc # "write"
          /\ file = r.found
  BY <1>2 DEF Inv, FileInv, Loaded
<1> QED
  BY <1>1, <1>2, <1>6, <1>7, GoesOn

(* What Get, Set and SetFails have in common.                              *)
LEMMA ArgumentFacts ==
    ASSUME Inv, NEW p \in Procs, Argument(p)
    PROVE  /\ proc[p] \in States /\ proc[p].pc = "args" /\ proc[p].asked \in Commands
           /\ proc[p].asked.args \in Seq(Args)
           /\ Tail(proc[p].todo) \in Seq(Args)
           /\ Asked(p).section \in Texts /\ Asked(p).key \in Texts
           /\ Asked(p).value \in Texts \cup {NULL}
           /\ \A n \in 0..Len(proc[p].asked.args) : Through(proc[p], n) =>
                  LET arg == proc[p].asked.args[n + 1]
                  IN  /\ Asked(p).section = Section(arg)
                      /\ Asked(p).key = arg.variable /\ Asked(p).value = arg.value
<1>1. proc[p] \in States /\ proc[p].pc = "args" /\ proc[p].asked \in Commands
  BY DEF Inv, Typed, Running, Argument
<1>2. PICK args \in Seq(Args) : args = proc[p].asked.args
  BY <1>1, CommandFacts
<1>3. ASSUME NEW n \in 0..Len(args), Through(proc[p], n)
      PROVE  /\ Asked(p).section = Section(args[n + 1])
             /\ Asked(p).key = args[n + 1].variable /\ Asked(p).value = args[n + 1].value
             /\ args[n + 1] \in Args
  <2>1. proc[p].todo = Later(args, n) /\ proc[p].todo # <<>>
    BY <1>2, <1>3 DEF Through, Argument
  <2>2. Asked(p) = [section |-> Section(args[n + 1]), key |-> args[n + 1].variable,
                    value |-> args[n + 1].value]
    BY <1>1, <1>2, <2>1, AskedIs
  <2>3. n + 1 \in 1..Len(args)
    BY <2>1, LaterNext
  <2> QED
    BY <2>2, <2>3, ElementOfSeq
<1>4. PICK n \in 0..Len(args) : Through(proc[p], n)
  BY <1>1, <1>2 DEF Inv, ArgsInv, ArgsRight
<1>5. PICK arg \in Args : /\ Asked(p).section = Section(arg)
                          /\ Asked(p).key = arg.variable /\ Asked(p).value = arg.value
  BY <1>3, <1>4
<1>6. Section(arg) \in Texts /\ arg.variable \in Texts /\ arg.value \in Texts \cup {NULL}
  <2>1. <<>> \in Texts
    BY EmptySeq DEF Texts
  <2> QED
    BY <2>1 DEF Args, Section
<1>7. Tail(proc[p].todo) \in Seq(Args)
  <2>1. proc[p].todo \in Seq(Args) /\ proc[p].todo # <<>>
    BY <1>1 DEF States, Argument
  <2> QED
    BY <2>1, HeadTailProperties
<1> QED
  BY <1>1, <1>2, <1>3, <1>5, <1>6, <1>7

LEMMA GetStep ==
    ASSUME Inv, NEW p \in Procs, Get(p)
    PROVE  Inv'
<1>1. Argument(p) /\ Asked(p).value = NULL
  BY DEF Get
<1>2. PICK s \in States : s = proc[p]
  BY <1>1, ArgumentFacts
<1>3. PICK ret \in {0, -1} :
          ret = IF Value(s.config, Asked(p).section, Asked(p).key) = NULL THEN -1 ELSE s.ret
  BY <1>2 DEF States
<1>4. PICK todo \in Seq(Args) : todo = Tail(s.todo)
  BY <1>1, <1>2, ArgumentFacts
<1>5. PICK r : r = [s EXCEPT !.todo = todo, !.ret = ret]
  OBVIOUS
<1>6. /\ r.pc = s.pc /\ r.todo = todo /\ r.config = s.config /\ r.ret = ret
      /\ r.asked = s.asked /\ r.found = s.found /\ r.alone = s.alone
  BY <1>2, <1>5 DEF States
<1>7. r \in States
  BY <1>2, <1>3, <1>4, <1>5 DEF States
<1>8. proc' = [proc EXCEPT ![p] = r] /\ UNCHANGED file
  BY <1>2, <1>3, <1>4, <1>5 DEF Get, Inv, Typed
<1>9. ASSUME NEW n \in 0..Len(r.asked.args), Through(s, n), r.ret = 0
      PROVE  /\ s.ret = 0
             /\ r.config = Obeyed(s.config, r.asked.args[n + 1])
             /\ Value(s.config, Section(r.asked.args[n + 1]),
                      r.asked.args[n + 1].variable) # NULL
  <2>1. PICK arg : arg = r.asked.args[n + 1]
    OBVIOUS
  <2>2. Asked(p).section = Section(arg) /\ Asked(p).key = arg.variable /\ arg.value = NULL
    BY <1>1, <1>2, <1>6, <1>9, <2>1, ArgumentFacts
  <2>3. ret = 0 /\ 0 # -1
    BY <1>6, <1>9
  <2>4. Value(s.config, Section(arg), arg.variable) # NULL /\ s.ret = 0
    BY <1>3, <2>2, <2>3
  <2>5. Obeyed(s.config, arg) = s.config
    BY <2>2 DEF Obeyed
  <2> QED
    BY <1>6, <2>1, <2>4, <2>5
<1>10. r.pc = "args"
  BY <1>1, <1>2, <1>6 DEF Argument
<1> QED
  BY <1>1, <1>2, <1>4, <1>6, <1>7, <1>8, <1>9, <1>10, ArgumentStep

LEMMA SetStep ==
    ASSUME Inv, NEW p \in Procs, Set(p)
    PROVE  Inv'
<1>1. Argument(p) /\ Asked(p).value # NULL
  BY DEF Set
<1>2. PICK s \in States : s = proc[p]
  BY <1>1, ArgumentFacts
<1>3. PICK c : c = Assigned(s.config, Asked(p).section, Asked(p).key, Asked(p).value)
  OBVIOUS
<1>4. c \in Contents
  <2>1. s.config \in Contents
    BY DEF States
  <2>2. Asked(p).section \in Texts /\ Asked(p).key \in Texts /\ Asked(p).value \in Texts
    BY <1>1, ArgumentFacts
  <2> QED
    BY <1>3, <2>1, <2>2, AssignedType
<1>5. PICK todo \in Seq(Args) : todo = Tail(s.todo)
  BY <1>1, <1>2, ArgumentFacts
<1>6. PICK r : r = [s EXCEPT !.todo = todo, !.config = c]
  OBVIOUS
<1>7. /\ r.pc = s.pc /\ r.todo = todo /\ r.config = c /\ r.ret = s.ret
      /\ r.asked = s.asked /\ r.found = s.found /\ r.alone = s.alone
  BY <1>2, <1>6 DEF States
<1>8. r \in States
  BY <1>2, <1>4, <1>5, <1>6 DEF States
<1>9. proc' = [proc EXCEPT ![p] = r] /\ UNCHANGED file
  BY <1>2, <1>3, <1>5, <1>6 DEF Set, Inv, Typed
<1>10. ASSUME NEW n \in 0..Len(r.asked.args), Through(s, n), r.ret = 0
       PROVE  /\ s.ret = 0
              /\ r.config = Obeyed(s.config, r.asked.args[n + 1])
              /\ r.asked.args[n + 1].value # NULL
  <2>1. PICK arg : arg = r.asked.args[n + 1]
    OBVIOUS
  <2>2. /\ Asked(p).section = Section(arg) /\ Asked(p).key = arg.variable
        /\ Asked(p).value = arg.value
    BY <1>1, <1>2, <1>7, <1>10, <2>1, ArgumentFacts
  <2>3. Obeyed(s.config, arg) = c
    BY <1>1, <1>3, <2>2 DEF Obeyed
  <2> QED
    BY <1>1, <1>7, <1>10, <2>1, <2>2, <2>3
<1>11. r.pc = "args"
  BY <1>1, <1>2, <1>7 DEF Argument
<1> QED
  BY <1>1, <1>2, <1>5, <1>7, <1>8, <1>9, <1>10, <1>11, ArgumentStep

LEMMA SetFailsStep ==
    ASSUME Inv, NEW p \in Procs, SetFails(p)
    PROVE  Inv'
<1>1. Argument(p)
  BY DEF SetFails
<1>2. PICK s \in States : s = proc[p]
  BY <1>1, ArgumentFacts
<1>3. PICK todo \in Seq(Args) : todo = Tail(s.todo)
  BY <1>1, <1>2, ArgumentFacts
<1>4. PICK r : r = [s EXCEPT !.todo = todo, !.ret = -1]
  OBVIOUS
<1>5. /\ r.pc = s.pc /\ r.todo = todo /\ r.ret = -1
      /\ r.asked = s.asked /\ r.found = s.found /\ r.alone = s.alone
  BY <1>2, <1>4 DEF States
<1>6. r \in States
  BY <1>2, <1>3, <1>4 DEF States
<1>7. proc' = [proc EXCEPT ![p] = r] /\ UNCHANGED file
  BY <1>2, <1>3, <1>4 DEF SetFails, Inv, Typed
<1>8. r.ret # 0 /\ r.pc = "args"
  BY <1>1, <1>2, <1>5 DEF Argument
<1> QED
  BY <1>1, <1>2, <1>3, <1>5, <1>6, <1>7, <1>8, ArgumentStep

LEMMA ArgumentsDoneStep ==
    ASSUME Inv, NEW p \in Procs, ArgumentsDone(p)
    PROVE  Inv'
<1>1. PICK s \in States : s = proc[p] /\ s.pc = "args" /\ s.todo = <<>> /\ s.asked \in Commands
  BY DEF Inv, Typed, Running, ArgumentsDone
<1>2. PICK pc \in {"save", "done", "failed"} :
          pc = IF s.ret # 0 THEN "failed" ELSE IF s.asked.write THEN "save" ELSE "done"
  OBVIOUS
<1>3. PICK r : r = [s EXCEPT !.pc = pc]
  OBVIOUS
<1>4. /\ r.pc = pc /\ r.todo = s.todo /\ r.config = s.config /\ r.ret = s.ret
      /\ r.asked = s.asked /\ r.found = s.found /\ r.alone = s.alone
  BY <1>1, <1>3 DEF States
<1>5. r \in States
  BY <1>1, <1>2, <1>3 DEF States
<1>6. proc' = [proc EXCEPT ![p] = r] /\ UNCHANGED file
  BY <1>1, <1>2, <1>3 DEF ArgumentsDone, Inv, Typed
<1>7. Others(p) /\ proc'[p] = r
  BY <1>5, <1>6 DEF Inv, Typed, Others
<1>8. CASE pc = "save"
  <2>1. s.ret = 0
    BY <1>2, <1>8
  <2>2. PICK args \in Seq(Args) : args = s.asked.args
    BY <1>1, CommandFacts
  <2>3. PICK n \in 0..Len(args) : Through(s, n)
    BY <1>1, <2>2 DEF Inv, ArgsInv, ArgsRight
  <2>4. n = Len(args)
    BY <1>1, <2>2, <2>3, LaterNone DEF Through
  <2>5. Through(r, Len(args))
    BY <1>4, <2>3, <2>4 DEF Through
  <2>6. ArgsRight(r)
    BY <1>4, <1>8, <2>1, <2>2, <2>5 DEF ArgsRight
  <2>7. r.alone =>
            /\ \A q \in Procs \ {p} : proc[q].pc # "write"
            /\ file = r.found
    BY <1>1, <1>4 DEF Inv, FileInv, Loaded
  <2> QED
    BY <1>1, <1>4, <1>6, <1>7, <1>8, <2>6, <2>7, GoesOn
<1>9. CASE pc # "save"
  BY <1>2, <1>4, <1>6, <1>7, <1>9, Ended
<1> QED
  BY <1>8, <1>9

LEMMA SaveOpenStep ==
    ASSUME Inv, NEW p \in Procs, SaveOpen(p)
    PROVE  Inv'
<1>1. PICK s \in States : s = proc[p] /\ s.pc = "save"
  BY DEF Inv, Typed, SaveOpen
<1>2. PICK r : r = [s EXCEPT !.pc = "write"]
  OBVIOUS
<1>3. /\ r.pc = "write" /\ r.todo = s.todo /\ r.config = s.config /\ r.ret = s.ret
      /\ r.asked = s.asked /\ r.found = s.found /\ r.alone = s.alone
  BY <1>1, <1>2 DEF States
<1>4. r \in States
  BY <1>1, <1>2 DEF States
<1>5. proc'[p] = r
  BY <1>1, <1>2 DEF SaveOpen, NotAlone
<1>6. ASSUME NEW q \in Procs \ {p}
      PROVE  /\ proc'[q] \in States /\ proc'[q].alone = FALSE
             /\ proc'[q].pc = proc[q].pc /\ proc'[q].asked = proc[q].asked
             /\ ArgsRight(proc'[q])
  <2>1. proc'[q] = [proc[q] EXCEPT !.alone = FALSE]
    BY DEF SaveOpen, NotAlone
  <2>2. PICK t \in States : t = proc[q]
    BY DEF Inv, Typed
  <2>3. PICK u : u = [t EXCEPT !.alone = FALSE]
    OBVIOUS
  <2>4. /\ u.pc = t.pc /\ u.todo = t.todo /\ u.config = t.config /\ u.ret = t.ret
        /\ u.asked = t.asked /\ u.found = t.found /\ u.alone = FALSE /\ u \in States
    BY <2>2, <2>3 DEF States
  <2>5. ArgsRight(t)
    BY <2>2 DEF Inv, ArgsInv
  <2>6. \A n : Through(t, n) => Through(u, n)
    BY <2>4 DEF Through
  <2>7. ArgsRight(u)
    BY <2>4, <2>5, <2>6 DEF ArgsRight
  <2> QED
    BY <2>1, <2>2, <2>3, <2>4, <2>7
<1>7. proc' \in [Procs -> States]
  <2>1. \A q \in Procs : proc'[q] \in States
    BY <1>4, <1>5, <1>6
  <2>2. proc' = [q \in Procs |-> proc'[q]]
    BY DEF SaveOpen, NotAlone
  <2> QED
    BY <2>1, <2>2
<1>8. Typed'
  <2>1. file' \in Contents
    BY DEF SaveOpen, Contents
  <2>2. ASSUME NEW q \in Procs, Running(proc'[q]) PROVE proc'[q].asked \in Commands
    BY <1>1, <1>3, <1>5, <1>6, <2>2 DEF Inv, Typed, Running
  <2> QED
    BY <1>7, <2>1, <2>2 DEF Typed
<1>9. ArgsInv'
  <2>1. ArgsRight(s)
    BY <1>1 DEF Inv, ArgsInv
  <2>2. \A n : Through(s, n) => Through(r, n)
    BY <1>3 DEF Through
  <2>3. ArgsRight(r)
    BY <1>1, <1>3, <2>1, <2>2 DEF ArgsRight
  <2> QED
    BY <1>5, <1>6, <2>3 DEF ArgsInv
<1>10. FileInv'
  <2>1. ASSUME NEW q \in Procs, proc'[q].alone
        PROVE  /\ proc'[q].pc # "load"
               /\ Loaded(proc'[q]) =>
                      /\ \A t \in Procs \ {q} : proc'[t].pc # "write"
                      /\ file' = IF proc'[q].pc = "write" THEN {} ELSE proc'[q].found
    <3>1. q = p
      BY <1>6, <2>1
    <3>2. proc[p].alone /\ Loaded(proc[p])
      BY <1>1, <1>3, <1>5, <2>1, <3>1 DEF Loaded
    <3>3. \A t \in Procs \ {p} : proc'[t].pc # "write"
      BY <1>6, <3>2 DEF Inv, FileInv
    <3>4. file' = {}
      BY DEF SaveOpen
    <3> QED
      BY <1>3, <1>5, <3>1, <3>3, <3>4
  <2> QED
    BY <2>1 DEF FileInv
<1> QED
  BY <1>8, <1>9, <1>10 DEF Inv

(* The steps that end a command.                                           *)
LEMMA Ending ==
    ASSUME Inv, NEW p \in Procs,
           LoadFails(p) \/ SaveWrite(p) \/ SaveFails(p) \/ Killed(p)
    PROVE  Inv'
<1>1. PICK s \in States : s = proc[p]
  BY DEF Inv, Typed
<1>2. s.config \in Contents
  BY DEF States
<1>3. \A pc \in {"idle", "done", "failed"} : \A ret \in {0, -1} :
          LET r == [s EXCEPT !.pc = pc, !.ret = ret]
          IN  r \in States /\ r.pc = pc
  BY DEF States
<1>4. CASE LoadFails(p)
  <2>1. PICK r \in States : r = [s EXCEPT !.pc = "failed", !.ret = -1] /\ r.pc = "failed"
    BY <1>3
  <2>2. proc' = [proc EXCEPT ![p] = r] /\ UNCHANGED file
    BY <1>1, <1>4, <2>1 DEF LoadFails, Inv, Typed
  <2>3. Others(p) /\ proc'[p] = r
    BY <2>2 DEF Inv, Typed, Others
  <2> QED
    BY <2>1, <2>2, <2>3, Ended
<1>5. CASE SaveWrite(p)
  <2>0. PICK r : r = [s EXCEPT !.pc = "done"]
    OBVIOUS
  <2>1. r \in States /\ r.pc = "done"
    BY <2>0 DEF States
  <2>2. proc' = [proc EXCEPT ![p] = r]
    BY <1>1, <1>5, <2>0 DEF SaveWrite, Inv, Typed
  <2>3. Others(p) /\ proc'[p] = r
    BY <2>1, <2>2 DEF Inv, Typed, Others
  <2>4. proc[p].pc = "write" /\ file' \in Contents \cup {Garbled}
    BY <1>1, <1>2, <1>5 DEF SaveWrite, Writing
  <2> QED
    BY <2>1, <2>3, <2>4, Ended
<1>6. CASE SaveFails(p)
  <2>1. PICK r \in States : r = [s EXCEPT !.pc = "failed", !.ret = -1] /\ r.pc = "failed"
    BY <1>3
  <2>2. proc' = [proc EXCEPT ![p] = r]
    BY <1>1, <1>6, <2>1 DEF SaveFails, Inv, Typed
  <2>3. Others(p) /\ proc'[p] = r
    BY <2>2 DEF Inv, Typed, Others
  <2>4. file' # file => proc[p].pc = "write" /\ file' \in Contents \cup {Garbled}
    BY <1>6 DEF SaveFails, Writing
  <2> QED
    BY <2>1, <2>3, <2>4, Ended
<1>7. CASE Killed(p)
  <2>1. Idle \in States /\ Idle.pc = "idle"
    <3>1. <<>> \in Seq(Args)
      BY EmptySeq
    <3> QED
      BY <3>1 DEF Idle, States, Contents
  <2>2. proc' = [proc EXCEPT ![p] = Idle]
    BY <1>7 DEF Killed
  <2>3. Others(p) /\ proc'[p] = Idle
    BY <2>1, <2>2 DEF Inv, Typed, Others
  <2>4. file' # file => proc[p].pc = "write" /\ file' \in Contents \cup {Garbled}
    BY <1>1, <1>2, <1>7 DEF Killed, Writing
  <2> QED
    BY <2>1, <2>3, <2>4, Ended
<1> QED
  BY <1>4, <1>5, <1>6, <1>7

LEMMA Initially ==
    ASSUME Init
    PROVE  Inv
<1>1. Idle \in States
  <2>1. <<>> \in Seq(Args)
    BY EmptySeq
  <2> QED
    BY <2>1 DEF Idle, States, Contents
<1>2. Idle.pc = "idle" /\ Idle.alone = FALSE
  BY DEF Idle
<1>3. proc \in [Procs -> States] /\ \A p \in Procs : proc[p] = Idle
  BY <1>1 DEF Init
<1>4. file \in Contents
  BY CommandAssumption DEF Init
<1>5. Typed
  BY <1>2, <1>3, <1>4 DEF Typed, Running
<1>6. FileInv
  BY <1>2, <1>3 DEF FileInv
<1>7. ArgsInv
  BY <1>2, <1>3 DEF ArgsInv, ArgsRight
<1> QED
  BY <1>5, <1>6, <1>7 DEF Inv

LEMMA Preserved ==
    ASSUME Inv, [Next]_vars
    PROVE  Inv'
<1>1. CASE UNCHANGED vars
  <2>1. file' = file /\ proc' = proc
    BY <1>1 DEF vars
  <2> QED
    BY <2>1 DEF Inv, Typed, FileInv, ArgsInv
<1>2. CASE Next
  <2>1. PICK p \in Procs :
            \/ \E command \in Commands : Run(p, command)
            \/ Load(p) \/ LoadFails(p)
            \/ Get(p) \/ Set(p) \/ SetFails(p) \/ ArgumentsDone(p)
            \/ SaveOpen(p) \/ SaveWrite(p) \/ SaveFails(p)
            \/ Killed(p)
    BY <1>2 DEF Next
  <2> QED
    BY <2>1, RunStep, LoadStep, GetStep, SetStep, SetFailsStep, ArgumentsDoneStep,
       SaveOpenStep, Ending
<1> QED
  BY <1>1, <1>2

LEMMA Invariance == Spec => []Inv
<1> QED
  BY Initially, Preserved, PTL DEF Spec
----------------------------------------------------------------------------
(* How a command ends.                                                     *)

LEMMA OwnSteps ==
    ASSUME Inv, NEW p \in Procs, Next, proc'[p].pc # proc[p].pc
    PROVE  \/ \E command \in Commands : Run(p, command)
           \/ Load(p) \/ LoadFails(p) \/ ArgumentsDone(p)
           \/ SaveOpen(p) \/ SaveWrite(p) \/ SaveFails(p) \/ Killed(p)
<1>1. proc \in [Procs -> States]
  BY DEF Inv, Typed
<1>2. PICK q \in Procs :
          \/ \E command \in Commands : Run(q, command)
          \/ Load(q) \/ LoadFails(q)
          \/ Get(q) \/ Set(q) \/ SetFails(q) \/ ArgumentsDone(q)
          \/ SaveOpen(q) \/ SaveWrite(q) \/ SaveFails(q)
          \/ Killed(q)
  BY DEF Next
<1>3. PICK s \in States : s = proc[p]
  BY <1>1
<1>4. CASE q # p
  <2>1. SaveOpen(q) => proc'[p].pc = proc[p].pc
    <3>1. SaveOpen(q) => proc'[p] = [s EXCEPT !.alone = FALSE]
      BY <1>3, <1>4 DEF SaveOpen, NotAlone
    <3>2. [s EXCEPT !.alone = FALSE].pc = s.pc
      BY DEF States
    <3> QED
      BY <1>3, <3>1, <3>2
  <2>2. ~SaveOpen(q) => proc'[p] = proc[p]
    BY <1>1, <1>2, <1>4
       DEF Run, Load, LoadFails, Get, Set, SetFails, ArgumentsDone, SaveWrite, SaveFails, Killed
  <2> QED
    BY <2>1, <2>2
<1>5. CASE q = p
  <2>1. Get(p) => proc'[p].pc = s.pc
    <3>1. \A t, u : [s EXCEPT !.todo = t, !.ret = u].pc = s.pc
      BY DEF States
    <3> QED
      BY <1>1, <1>3, <3>1 DEF Get
  <2>2. Set(p) => proc'[p].pc = s.pc
    <3>1. \A t, u : [s EXCEPT !.todo = t, !.config = u].pc = s.pc
      BY DEF States
    <3> QED
      BY <1>1, <1>3, <3>1 DEF Set
  <2>3. SetFails(p) => proc'[p].pc = s.pc
    <3>1. \A t, u : [s EXCEPT !.todo = t, !.ret = u].pc = s.pc
      BY DEF States
    <3> QED
      BY <1>1, <1>3, <3>1 DEF SetFails
  <2> QED
    BY <1>2, <1>3, <1>5, <2>1, <2>2, <2>3
<1> QED
  BY <1>4, <1>5

LEMMA WhereTo ==
    ASSUME Inv, NEW p \in Procs
    PROVE  /\ \A command \in Commands : Run(p, command) => proc'[p].pc = "load"
           /\ Load(p) => proc'[p].pc = "args"
           /\ LoadFails(p) => proc'[p].pc = "failed"
           /\ ArgumentsDone(p) =>
                  proc'[p].pc = IF proc[p].ret # 0 THEN "failed"
                                ELSE IF proc[p].asked.write THEN "save" ELSE "done"
           /\ SaveOpen(p) => proc'[p].pc = "write"
           /\ SaveWrite(p) => proc'[p].pc = "done"
           /\ SaveFails(p) => proc'[p].pc = "failed"
           /\ Killed(p) => proc'[p].pc = "idle"
<1>1. PICK s \in States : s = proc[p] /\ proc \in [Procs -> States]
  BY DEF Inv, Typed
<1>2. \A pc : [s EXCEPT !.pc = pc].pc = pc
  BY DEF States
<1>3. \A pc, ret : [s EXCEPT !.pc = pc, !.ret = ret].pc = pc
  BY DEF States
<1>4. \A a, b : [Idle EXCEPT !.pc = "load", !.asked = a, !.todo = b].pc = "load"
  BY DEF Idle
<1>5. \A a, b, c : [s EXCEPT !.pc = "args", !.config = a, !.found = b, !.alone = c].pc = "args"
  BY DEF States
<1>6. ASSUME NEW command \in Commands, Run(p, command) PROVE proc'[p].pc = "load"
  BY <1>1, <1>4, <1>6 DEF Run
<1>7. Load(p) => proc'[p].pc = "args"
  BY <1>1, <1>5 DEF Load
<1>8. LoadFails(p) => proc'[p].pc = "failed"
  BY <1>1, <1>3 DEF LoadFails
<1>9. ArgumentsDone(p) =>
          proc'[p].pc = IF proc[p].ret # 0 THEN "failed"
                        ELSE IF proc[p].asked.write THEN "save" ELSE "done"
  BY <1>1, <1>2 DEF ArgumentsDone
<1>10. SaveOpen(p) => proc'[p].pc = "write"
  BY <1>1, <1>2 DEF SaveOpen, NotAlone
<1>11. SaveWrite(p) => proc'[p].pc = "done"
  BY <1>1, <1>2 DEF SaveWrite
<1>12. SaveFails(p) => proc'[p].pc = "failed"
  BY <1>1, <1>3 DEF SaveFails
<1>13. Killed(p) => proc'[p].pc = "idle"
  BY <1>1 DEF Killed, Idle
<1> QED
  BY <1>6, <1>7, <1>8, <1>9, <1>10, <1>11, <1>12, <1>13

LEMMA Done ==
    ASSUME Inv, NEW p \in Procs, Next, Ends(p, "done"), proc[p].alone
    PROVE  /\ Missing(proc[p].found, proc[p].asked.args) = {}
           /\ proc[p].asked.write =>
                  file' = Effect(proc[p].found, proc[p].asked.args)
<1>1. \/ SaveWrite(p)
      \/ ArgumentsDone(p) /\ proc[p].ret = 0 /\ ~proc[p].asked.write
  <2>1. proc'[p].pc = "done" /\ proc'[p].pc # proc[p].pc
    BY DEF Ends
  <2>2. \/ \E command \in Commands : Run(p, command)
        \/ Load(p) \/ LoadFails(p) \/ ArgumentsDone(p)
        \/ SaveOpen(p) \/ SaveWrite(p) \/ SaveFails(p) \/ Killed(p)
    BY <2>1, OwnSteps
  <2> QED
    BY <2>1, <2>2, WhereTo
<1>2. PICK s \in States : s = proc[p] /\ s.asked \in Commands /\ ArgsRight(s)
  <2>1. Running(proc[p])
    BY <1>1 DEF SaveWrite, Writing, ArgumentsDone, Running
  <2> QED
    BY <2>1 DEF Inv, Typed, ArgsInv
<1>3. PICK args \in Seq(Args) : args = s.asked.args
  BY <1>2, CommandFacts
<1>4. s.ret = 0 /\ Through(s, Len(args))
  <2>1. CASE SaveWrite(p)
    BY <1>2, <1>3, <2>1 DEF SaveWrite, Writing, ArgsRight
  <2>2. CASE ArgumentsDone(p) /\ proc[p].ret = 0
    <3>1. PICK n \in 0..Len(args) : Through(s, n)
      BY <1>2, <1>3, <2>2 DEF ArgumentsDone, ArgsRight
    <3>2. n = Len(args)
      BY <1>2, <1>3, <2>2, <3>1, LaterNone DEF ArgumentsDone, Through
    <3> QED
      BY <1>2, <2>2, <3>1, <3>2
  <2> QED
    BY <1>1, <2>1, <2>2
<1>5. Missing(s.found, args) = {}
  <2>1. DOMAIN args = 1..Len(args)
    BY LenProperties
  <2>2. Missing(s.found, args) \subseteq 1..Len(args)
    BY <2>1 DEF Missing
  <2>3. \A k \in 1..Len(args) : k \notin Missing(s.found, args)
    BY <1>3, <1>4 DEF Through
  <2> QED
    BY <2>2, <2>3
<1>6. s.config = Effect(s.found, args)
  BY <1>3, <1>4, EffectAll DEF Through
<1>7. ASSUME s.asked.write PROVE file' = s.config
  <2>1. SaveWrite(p) /\ s.pc = "write" /\ s.alone
    BY <1>1, <1>2, <1>7 DEF SaveWrite, Writing
  <2>2. file = {}
    BY <1>2, <2>1 DEF Inv, FileInv, Loaded
  <2> QED
    BY <1>2, <2>1, <2>2 DEF SaveWrite
<1> QED
  BY <1>2, <1>3, <1>5, <1>6, <1>7

LEMMA Failed ==
    ASSUME Inv, NEW p \in Procs, Next, Ends(p, "failed"), proc[p].alone,
           proc[p].pc # "write"
    PROVE  file' = proc[p].found
<1>1. LoadFails(p) \/ ArgumentsDone(p) \/ SaveFails(p)
  <2>1. proc'[p].pc = "failed" /\ proc'[p].pc # proc[p].pc
    BY DEF Ends
  <2>2. \/ \E command \in Commands : Run(p, command)
        \/ Load(p) \/ LoadFails(p) \/ ArgumentsDone(p)
        \/ SaveOpen(p) \/ SaveWrite(p) \/ SaveFails(p) \/ Killed(p)
    BY <2>1, OwnSteps
  <2> QED
    BY <2>1, <2>2, WhereTo
<1>2. proc[p].pc \in {"load", "args", "save"} /\ file' = file
  BY <1>1 DEF LoadFails, ArgumentsDone, SaveFails, Writing
<1>3. proc[p].pc # "load" /\ file = proc[p].found
  BY <1>2 DEF Inv, FileInv, Loaded
<1> QED
  BY <1>2, <1>3

(* A command that succeeds while no other process writes the file found    *)
(* every variable it was asked for and, with -w, leaves the file as it was *)
(* but for the variables it was told to set (main and _configctl).         *)
THEOREM SuccessAlways == Spec => SuccessAsDocumented
<1>1. ASSUME Inv, [Next]_vars
      PROVE  [\A p \in Procs :
                 Ends(p, "done") /\ proc[p].alone =>
                     LET asked == proc[p].asked
                     IN  /\ Missing(proc[p].found, asked.args) = {}
                         /\ asked.write => file' = Effect(proc[p].found, asked.args)]_vars
  <2>1. CASE UNCHANGED vars
    BY <2>1
  <2>2. CASE Next
    <3>1. ASSUME NEW p \in Procs, Ends(p, "done"), proc[p].alone
          PROVE  /\ Missing(proc[p].found, proc[p].asked.args) = {}
                 /\ proc[p].asked.write =>
                        file' = Effect(proc[p].found, proc[p].asked.args)
      BY <1>1, <2>2, <3>1, Done
    <3> QED
      BY <3>1
  <2> QED
    BY <1>1, <2>1, <2>2
<1> QED
  BY <1>1, Invariance, PTL DEF Spec, SuccessAsDocumented

(* A command one of whose arguments fails leaves the file as it found it:  *)
(* _configctl saves only after all of them did what they say.              *)
THEOREM FailureAlways == Spec => FailureKeepsFile
<1>1. ASSUME Inv, [Next]_vars
      PROVE  [\A p \in Procs :
                 Ends(p, "failed") /\ proc[p].alone /\ proc[p].pc # "write" =>
                     file' = proc[p].found]_vars
  <2>1. CASE UNCHANGED vars
    BY <2>1
  <2>2. CASE Next
    <3>1. ASSUME NEW p \in Procs, Ends(p, "failed"), proc[p].alone, proc[p].pc # "write"
          PROVE  file' = proc[p].found
      BY <1>1, <2>2, <3>1, Failed
    <3> QED
      BY <3>1
  <2> QED
    BY <1>1, <2>1, <2>2
<1> QED
  BY <1>1, Invariance, PTL DEF Spec, FailureKeepsFile

----------------------------------------------------------------------------
(* Preferences: the names of a path.                                       *)

Blank(name) == name = ""

NamesAre(path, f) ==
    f = [k \in 0..Len(path) |->
            IF k = 0 THEN <<>>
            ELSE IF Blank(path[k]) THEN f[k - 1] ELSE Append(f[k - 1], path[k])]

LEMMA NotEmptyIs ==
    ASSUME NEW path
    PROVE  NotEmpty(path) = (CHOOSE f : NamesAre(path, f))[Len(path)]
  BY DEF NotEmpty, NamesAre, Blank

NamesTo(path, f, n) ==
    /\ \A k \in 0..n : f[k] \in Seq(Names)
    /\ f[0] = <<>>
    /\ \A k \in 1..n : f[k] = IF Blank(path[k]) THEN f[k - 1] ELSE Append(f[k - 1], path[k])

LEMMA NamesExist ==
    ASSUME NEW path \in Seq(Names)
    PROVE  \E f : NamesTo(path, f, Len(path)) /\ NotEmpty(path) = f[Len(path)]
<1>1. PICK n \in Nat : n = Len(path)
  BY LenProperties
<1>2. \A k \in 1..n : path[k] \in Names
  BY <1>1
<1>3. PICK S : S = Seq(Names)
  OBVIOUS
<1>4. \A s \in S, x \in Names : Append(s, x) \in S
  BY <1>3
<1> DEFINE op == [x \in (1..n) \X S |->
                     IF Blank(path[x[1]]) THEN x[2] ELSE Append(x[2], path[x[1]])]
<1>5. op \in [(1..n) \X S -> S]
  BY <1>2, <1>4
<1>6. \A k \in 1..n, s \in S : op[<<k, s>>] = IF Blank(path[k]) THEN s ELSE Append(s, path[k])
  OBVIOUS
<1> HIDE DEF op
<1>7. PICK g \in [0..n -> S] : Iterate(g, <<>>, n, op)
  <2>1. <<>> \in S
    BY <1>3
  <2> QED
    BY <1>5, <2>1, Iterates
<1>8. \A k \in 0..n : g[k] = IF k = 0 THEN <<>>
                             ELSE IF Blank(path[k]) THEN g[k - 1] ELSE Append(g[k - 1], path[k])
  <2> SUFFICES ASSUME NEW k \in 0..n
               PROVE  g[k] = IF k = 0 THEN <<>>
                             ELSE IF Blank(path[k]) THEN g[k - 1] ELSE Append(g[k - 1], path[k])
    OBVIOUS
  <2>1. k = 0 => g[k] = <<>>
    BY <1>7 DEF Iterate
  <2>2. ASSUME k # 0
        PROVE  g[k] = IF Blank(path[k]) THEN g[k - 1] ELSE Append(g[k - 1], path[k])
    <3>1. k \in 1..n /\ k - 1 \in 0..n
      BY <2>2
    <3>2. g[k] = op[<<k, g[k - 1]>>]
      BY <1>7, <3>1 DEF Iterate
    <3>3. g[k - 1] \in S
      BY <1>7, <3>1
    <3> QED
      BY <1>6, <3>1, <3>2, <3>3
  <2> QED
    BY <2>1, <2>2
<1>9. NamesAre(path, g)
  <2>1. g = [k \in 0..n |-> g[k]]
    BY <1>7
  <2> QED
    BY <1>1, <1>8, <2>1 DEF NamesAre
<1>10. PICK f : f = CHOOSE h : NamesAre(path, h)
  OBVIOUS
<1>11. NamesAre(path, f)
  BY <1>9, <1>10
<1>12. /\ f = [k \in 0..n |-> f[k]] /\ f[0] = <<>>
       /\ \A k \in 1..n : f[k] = IF Blank(path[k]) THEN f[k - 1] ELSE Append(f[k - 1], path[k])
  <2>1. \A k \in 1..n : k \in 0..n /\ k # 0
    OBVIOUS
  <2>2. 0 \in 0..n
    OBVIOUS
  <2> QED
    BY <1>1, <1>11, <2>1, <2>2 DEF NamesAre
<1>13. \A k \in 0..n : f[k] \in S
  <2> DEFINE P == {k \in 0..n : f[k] \in S}
  <2>1. 0 \in P
    <3>1. 0 \in 0..n /\ <<>> \in S
      BY <1>3
    <3> QED
      BY <1>12, <3>1
  <2>2. ASSUME NEW k \in 1..n, k - 1 \in P PROVE k \in P
    <3>1. f[k - 1] \in S /\ path[k] \in Names /\ k \in 0..n
      BY <1>2, <2>2
    <3>2. Append(f[k - 1], path[k]) \in S
      BY <1>4, <3>1
    <3> QED
      BY <1>12, <3>1, <3>2
  <2> HIDE DEF P
  <2>3. \A k \in 0..n : k \in P
    BY <2>1, <2>2, Induction
  <2> QED
    BY <2>3 DEF P
<1>14. NamesTo(path, f, n)
  BY <1>3, <1>12, <1>13 DEF NamesTo
<1> QED
  BY <1>1, <1>10, <1>14, NotEmptyIs

(* The names of the start of a path are those met so far.                  *)
LEMMA SameNames ==
    ASSUME NEW path, NEW p, NEW n \in Nat, NEW m \in 0..n, NEW f, NEW g,
           NamesTo(path, f, n), NamesTo(p, g, m), \A k \in 1..m : p[k] = path[k]
    PROVE  g[m] = f[m]
<1> DEFINE P == {k \in 0..m : g[k] = f[k]}
<1>1. 0 \in P
  <2>1. f[0] = <<>> /\ g[0] = <<>>
    BY Zenon DEF NamesTo
  <2>2. 0 \in 0..m
    OBVIOUS
  <2> QED
    BY <2>1, <2>2
<1>2. ASSUME NEW k \in 1..m, k - 1 \in P PROVE k \in P
  <2>1. g[k - 1] = f[k - 1] /\ k \in 0..m /\ k \in 1..n
    BY <1>2
  <2> QED
    BY <2>1 DEF NamesTo
<1> HIDE DEF P
<1>3. \A k \in 0..m : k \in P
  BY <1>1, <1>2, Induction
<1>4. m \in 0..m
  OBVIOUS
<1> QED
  BY <1>3, <1>4 DEF P

(* Start(path, m): what mkdir() is given at the slash after the name m.    *)
Start(path, m) == SubSeq(path, 1, m)

LEMMA StartFacts ==
    ASSUME NEW S, NEW path \in Seq(S), NEW m \in 0..Len(path)
    PROVE  /\ Start(path, m) \in Seq(S) /\ Len(Start(path, m)) = m
           /\ \A k \in 1..m : Start(path, m)[k] = path[k]
<1>1. Len(path) \in Nat /\ \A k \in 1..Len(path) : path[k] \in S
  BY LenProperties, ElementOfSeq
<1>2. 1 \in Int /\ m \in Int /\ \A k \in 1..m : path[k] \in S
  BY <1>1
<1>3. SubSeq(path, 1, m) \in Seq(S)
  BY <1>2, SubSeqProperties
<1>4. Len(SubSeq(path, 1, m)) = IF 1 <= m THEN m - 1 + 1 ELSE 0
  BY <1>2, SubSeqProperties
<1>5. \A k \in 1..(m - 1 + 1) : SubSeq(path, 1, m)[k] = path[1 + k - 1]
  BY <1>2, SubSeqProperties
<1>6. m - 1 + 1 = m /\ (IF 1 <= m THEN m - 1 + 1 ELSE 0) = m
  BY <1>1
<1>7. \A k \in 1..m : 1 + k - 1 = k
  OBVIOUS
<1> QED
  BY <1>3, <1>4, <1>5, <1>6, <1>7 DEF Start

LEMMA NamesFacts ==
    ASSUME NEW path \in Seq(Names)
    PROVE  \E f : /\ NamesTo(path, f, Len(path))
                  /\ NotEmpty(path) = f[Len(path)]
                  /\ \A m \in 0..Len(path) : NotEmpty(Start(path, m)) = f[m]
<1>1. PICK n \in Nat : n = Len(path)
  BY LenProperties
<1>2. PICK f : NamesTo(path, f, n) /\ NotEmpty(path) = f[n]
  BY <1>1, NamesExist
<1>3. ASSUME NEW m \in 0..n PROVE NotEmpty(Start(path, m)) = f[m]
  <2>1. PICK p \in Seq(Names) : /\ p = Start(path, m) /\ Len(p) = m
                                /\ \A k \in 1..m : p[k] = path[k]
    BY <1>1, StartFacts
  <2>2. PICK g : NamesTo(p, g, m) /\ NotEmpty(p) = g[m]
    BY <2>1, NamesExist
  <2>3. g[m] = f[m]
    BY <1>2, <2>1, <2>2, SameNames
  <2> QED
    BY <2>1, <2>2, <2>3
<1> QED
  BY <1>1, <1>2, <1>3

(* Names are added one at a time, at the end.                              *)
IsStart(s, t) == Len(s) <= Len(t) /\ \A i \in 1..Len(s) : s[i] = t[i]

LEMMA StartIs ==
    ASSUME NEW S, NEW s \in Seq(S), NEW t \in Seq(S), IsStart(s, t)
    PROVE  SubSeq(t, 1, Len(s)) = s
<1>1. Len(s) \in Nat /\ Len(t) \in Nat /\ Len(s) \in 0..Len(t)
  BY LenProperties DEF IsStart
<1>2. /\ Start(t, Len(s)) \in Seq(S) /\ Len(Start(t, Len(s))) = Len(s)
      /\ \A k \in 1..Len(s) : Start(t, Len(s))[k] = t[k]
  BY <1>1, StartFacts
<1>3. \A k \in 1..Len(s) : Start(t, Len(s))[k] = s[k]
  BY <1>2 DEF IsStart
<1>4. Start(t, Len(s)) = s
  BY <1>2, <1>3, SeqEqual
<1> QED
  BY <1>4 DEF Start

LEMMA OneNameMore ==
    ASSUME NEW path \in Seq(Names), NEW n \in Nat, n <= Len(path), NEW f, NamesTo(path, f, n),
           NEW k \in 1..n
    PROVE  /\ f[k] \in Seq(Names) /\ f[k - 1] \in Seq(Names)
           /\ Len(f[k]) = IF Blank(path[k]) THEN Len(f[k - 1]) ELSE Len(f[k - 1]) + 1
           /\ IsStart(f[k - 1], f[k])
           /\ ~Blank(path[k]) => f[k][Len(f[k])] = path[k]
<1>1. Len(path) \in Nat /\ \A i \in 1..Len(path) : path[i] \in Names
  BY LenProperties, ElementOfSeq
<1>2. k \in 0..n /\ k - 1 \in 0..n /\ path[k] \in Names
  BY <1>1
<1>3. PICK a \in Seq(Names), b \in Seq(Names), x \in Names :
          a = f[k - 1] /\ b = f[k] /\ x = path[k]
  BY <1>2 DEF NamesTo
<1>4. b = IF Blank(x) THEN a ELSE Append(a, x)
  BY <1>3 DEF NamesTo
<1>5. Len(a) \in Nat
  OBVIOUS
<1>6. CASE Blank(x)
  <2>1. b = a
    BY <1>4, <1>6, Zenon
  <2>3. Len(a) <= Len(a)
    BY <1>5
  <2>2. IsStart(a, b)
    BY <2>1, <2>3, Zenon DEF IsStart
  <2> QED
    BY <1>3, <1>6, <2>1, <2>2, Zenon
<1>7. CASE ~Blank(x)
  <2>1. /\ Len(Append(a, x)) = Len(a) + 1
        /\ \A i \in 1..Len(a) : Append(a, x)[i] = a[i]
        /\ Append(a, x)[Len(a) + 1] = x
    BY AppendProperties
  <2>2. Len(b) = Len(a) + 1 /\ b[Len(b)] = x /\ \A i \in 1..Len(a) : b[i] = a[i]
    BY <1>4, <1>7, <2>1
  <2>3. IsStart(a, b)
    BY <1>5, <2>2 DEF IsStart
  <2> QED
    BY <1>3, <1>7, <2>2, <2>3, Zenon
<1> QED
  BY <1>6, <1>7

LEMMA NamesGrow ==
    ASSUME NEW path \in Seq(Names), NEW n \in Nat, n <= Len(path), NEW f, NamesTo(path, f, n),
           NEW m \in 0..n
    PROVE  \A k \in m..n : IsStart(f[m], f[k])
<1>1. Len(path) \in Nat /\ \A k \in 0..n : f[k] \in Seq(Names) /\ Len(f[k]) \in Nat
  BY LenProperties DEF NamesTo
<1> DEFINE P == {k \in 0..n : k < m \/ IsStart(f[m], f[k])}
<1>2. IsStart(f[m], f[m])
  BY <1>1 DEF IsStart
<1>3. 0 \in P
  <2>1. 0 \in 0..n /\ (m = 0 \/ 0 < m)
    BY <1>1
  <2> QED
    BY <1>2, <2>1
<1>4. ASSUME NEW k \in 1..n, k - 1 \in P PROVE k \in P
  <2>1. k \in 0..n /\ k - 1 \in 0..n /\ (k < m \/ k = m \/ ~(k - 1 < m))
    BY <1>1
  <2>2. ASSUME ~(k - 1 < m) PROVE IsStart(f[m], f[k])
    <3>1. IsStart(f[m], f[k - 1])
      BY <1>4, <2>2
    <3>2. IsStart(f[k - 1], f[k])
      BY OneNameMore
    <3>3. Len(f[m]) \in Nat /\ Len(f[k - 1]) \in Nat /\ Len(f[k]) \in Nat
      BY <1>1, <2>1
    <3> QED
      BY <3>1, <3>2, <3>3 DEF IsStart
  <2> QED
    BY <1>2, <2>1, <2>2
<1> HIDE DEF P
<1>5. n \in Nat
  BY <1>1
<1>6. \A k \in 0..n : k \in P
  BY <1>3, <1>4, <1>5, Induction
<1> QED
  BY <1>1, <1>5, <1>6 DEF P

(* A name of a path was added at some slash.                               *)
LEMMA NameAdded ==
    ASSUME NEW path \in Seq(Names), NEW n \in Nat, n <= Len(path), NEW f, NamesTo(path, f, n),
           NEW k \in 1..Len(f[n])
    PROVE  \E j \in 1..n : Len(f[j]) = k /\ ~Blank(path[j])
<1>1. /\ Len(path) \in Nat /\ n \in Nat
      /\ \A j \in 0..n : f[j] \in Seq(Names) /\ Len(f[j]) \in Nat
  <2>1. Len(path) \in Nat /\ n \in Nat
    BY LenProperties
  <2>2. \A j \in 0..n : f[j] \in Seq(Names)
    BY DEF NamesTo
  <2> QED
    BY <2>1, <2>2, LenProperties
<1> DEFINE T == {j \in 0..n : k <= Len(f[j])}
<1>2. n \in T /\ T \in SUBSET Nat
  BY <1>1
<1>3. PICK j \in T : \A i \in T : j <= i
  <2> HIDE DEF T
  <2> QED
    BY <1>2, Smallest
<1>4. j \in 0..n /\ k <= Len(f[j])
  BY <1>3
<1>5. j # 0
  <2>1. f[0] = <<>>
    BY Zenon DEF NamesTo
  <2>2. Len(f[0]) = 0
    BY <2>1
  <2> QED
    BY <1>4, <2>2
<1>6. j \in 1..n /\ j - 1 \in 0..n /\ ~(j <= j - 1)
  BY <1>1, <1>4, <1>5
<1>7. ~(k <= Len(f[j - 1]))
  BY <1>3, <1>6
<1>8. Len(f[j]) = IF Blank(path[j]) THEN Len(f[j - 1]) ELSE Len(f[j - 1]) + 1
  BY <1>6, OneNameMore
<1>9. Len(f[j]) \in Nat /\ Len(f[j - 1]) \in Nat
  BY <1>1, <1>4, <1>6
<1>10. ~Blank(path[j]) /\ Len(f[j]) = k
  <2>1. Blank(path[j]) => Len(f[j]) = Len(f[j - 1])
    BY <1>8
  <2>2. ~Blank(path[j])
    BY <1>4, <1>7, <2>1
  <2>3. Len(f[j]) = Len(f[j - 1]) + 1
    BY <1>8, <2>2
  <2>4. PICK a \in Nat, b \in Nat : a = Len(f[j]) /\ b = Len(f[j - 1])
    BY <1>9
  <2>5. k \in Int /\ k <= a /\ ~(k <= b)
    BY <1>1, <1>4, <1>7, <2>4
  <2>6. a = b + 1
    BY <2>3, <2>4
  <2>7. a = k
    BY <2>5, <2>6
  <2> QED
    BY <2>2, <2>4, <2>7
<1> QED
  BY <1>6, <1>10

(* What a lookup passes on the way are the places where mkdir() was asked  *)
(* for a directory, at the slashes before.                                 *)
LEMMA WayFacts ==
    ASSUME NEW path \in Seq(Names), NEW n \in Nat, n = Len(path), NEW m \in 1..n,
           NEW k \in DOMAIN Way(Start(path, m))
    PROVE  /\ \E j \in 1..(m - 1) :
                  ~Blank(path[j]) /\ Way(Start(path, m))[k] = Place(Start(path, j))
           /\ k \in DOMAIN Way(path) /\ Way(path)[k] = Way(Start(path, m))[k]
<1>1. n = Len(path) /\ m \in 1..n /\ m \in 0..n /\ n \in 0..n /\ m \in Nat /\ m <= n
  OBVIOUS
<1>2. PICK f : /\ NamesTo(path, f, n)
               /\ NotEmpty(path) = f[n]
               /\ \A j \in 0..n : NotEmpty(Start(path, j)) = f[j]
  BY <1>1, NamesFacts
<1>3. \A j \in 0..n : f[j] \in Seq(Names) /\ Len(f[j]) \in Nat
  <2>1. \A j \in 0..n : f[j] \in Seq(Names)
    BY <1>2 DEF NamesTo
  <2> QED
    BY <2>1, LenProperties
<1>4. PICK names \in Seq(Names), all \in Seq(Names) : names = f[m] /\ all = f[n]
  BY <1>1, <1>3
<1>5. Way(Start(path, m)) = [i \in 1..(Len(names) - 1) |-> Resolved(SubSeq(names, 1, i))]
  BY <1>1, <1>2, <1>4 DEF Way
<1>6. Way(path) = [i \in 1..(Len(all) - 1) |-> Resolved(SubSeq(all, 1, i))]
  BY <1>1, <1>2, <1>4 DEF Way
<1>7. IsStart(names, all) /\ Len(names) \in Nat /\ Len(all) \in Nat /\ Len(names) <= Len(all)
  <2>1. IsStart(f[m], f[n])
    BY <1>1, <1>2, NamesGrow
  <2> QED
    BY <1>4, <2>1 DEF IsStart
<1>8. /\ k \in 1..(Len(names) - 1) /\ k \in 1..Len(names) /\ k \in 1..(Len(all) - 1)
      /\ k # Len(names)
  <2>1. k \in 1..(Len(names) - 1)
    BY <1>5
  <2> QED
    BY <1>7, <2>1
<1>9. NamesTo(path, f, m)
  BY <1>1, <1>2 DEF NamesTo
<1>10. PICK j \in 1..m : Len(f[j]) = k /\ ~Blank(path[j])
  BY <1>1, <1>4, <1>8, <1>9, NameAdded
<1>11. j \in 1..(m - 1) /\ j \in 0..n
  <2>1. j # m
    BY <1>4, <1>8, <1>10
  <2> QED
    BY <1>1, <2>1
<1>12. PICK s \in Seq(Names) : s = f[j] /\ Len(s) = k
  BY <1>3, <1>10, <1>11
<1>13. SubSeq(names, 1, k) = s
  <2>1. IsStart(f[j], f[m])
    BY <1>1, <1>2, <1>11, NamesGrow
  <2> QED
    BY <1>4, <1>12, <2>1, StartIs
<1>14. SubSeq(all, 1, k) = s
  <2>1. IsStart(f[j], f[n])
    BY <1>1, <1>2, <1>11, NamesGrow
  <2> QED
    BY <1>4, <1>12, <2>1, StartIs
<1>15. Place(Start(path, j)) = Resolved(s)
  BY <1>2, <1>11, <1>12 DEF Place
<1>16. Way(Start(path, m))[k] = Resolved(s)
  BY <1>5, <1>8, <1>13
<1>17. k \in DOMAIN Way(path) /\ Way(path)[k] = Resolved(s)
  BY <1>6, <1>8, <1>14
<1> QED
  BY <1>10, <1>11, <1>15, <1>16, <1>17

(* The first name of a path.                                               *)
LEMMA LeadIs ==
    ASSUME NEW path \in Seq(Names), NEW n \in Nat, n = Len(path), NEW m \in 1..n, ~Blank(path[m])
    PROVE  /\ Lead(path) \in 1..m /\ ~Blank(path[Lead(path)])
           /\ \A l \in 1..(Lead(path) - 1) : Blank(path[l])
<1>1. DOMAIN path = 1..n
  BY LenProperties
<1> DEFINE T == {j \in 1..n : ~Blank(path[j])}
<1>2. m \in T /\ T \in SUBSET Nat
  OBVIOUS
<1>3. PICK j \in T : \A i \in T : j <= i
  <2> HIDE DEF T
  <2> QED
    BY <1>2, Smallest
<1>4. j \in 1..n /\ ~Blank(path[j]) /\ j <= m
  BY <1>2, <1>3
<1>5. ASSUME NEW l \in 1..(j - 1) PROVE Blank(path[l])
  <2>1. l \in 1..n /\ ~(j <= l)
    BY <1>1, <1>4
  <2> QED
    BY <1>3, <2>1
<1>6. \E i \in DOMAIN path : ~Blank(path[i]) /\ \A l \in 1..(i - 1) : Blank(path[l])
  BY <1>1, <1>4, <1>5
<1>7. /\ Lead(path) \in DOMAIN path /\ ~Blank(path[Lead(path)])
      /\ \A l \in 1..(Lead(path) - 1) : Blank(path[l])
  BY <1>6, Zenon DEF Lead, Blank
<1>8. Lead(path) <= m
  <2>1. Lead(path) \in 1..n
    BY <1>1, <1>7
  <2>2. ~(m \in 1..(Lead(path) - 1))
    BY <1>7
  <2> QED
    BY <1>1, <2>1, <2>2
<1> QED
  BY <1>1, <1>7, <1>8

LEMMA FirstName ==
    ASSUME NEW path \in Seq(Names), NEW n \in Nat, n = Len(path), NEW m \in 1..n, ~Blank(path[m])
    PROVE  Head(NotEmpty(Start(path, m))) = path[Lead(path)]
<1>1. n = Len(path) /\ m \in 1..n /\ m \in 0..n /\ n \in 0..n /\ m \in Nat /\ m <= n
  OBVIOUS
<1>2. PICK f : /\ NamesTo(path, f, n)
               /\ NotEmpty(path) = f[n]
               /\ \A j \in 0..n : NotEmpty(Start(path, j)) = f[j]
  BY <1>1, NamesFacts
<1>3. PICK l \in 1..m : /\ l = Lead(path) /\ ~Blank(path[l])
                        /\ \A i \in 1..(l - 1) : Blank(path[i])
  BY LeadIs
<1>4. \A k \in 0..(l - 1) : f[k] = <<>>
  <2> DEFINE P == {k \in 0..(l - 1) : f[k] = <<>>}
  <2>1. 0 \in P
    <3>1. f[0] = <<>>
      BY <1>2, Zenon DEF NamesTo
    <3> QED
      BY <1>3, <3>1
  <2>2. ASSUME NEW k \in 1..(l - 1), k - 1 \in P PROVE k \in P
    <3>1. f[k - 1] = <<>> /\ Blank(path[k]) /\ k \in 1..n /\ k \in 0..(l - 1)
      BY <1>1, <1>3, <2>2
    <3>2. f[k] = f[k - 1]
      BY <1>2, <3>1 DEF NamesTo
    <3> QED
      BY <3>1, <3>2
  <2> HIDE DEF P
  <2>3. l - 1 \in Nat
    OBVIOUS
  <2>4. \A k \in 0..(l - 1) : k \in P
    BY <2>1, <2>2, <2>3, Induction
  <2> QED
    BY <2>4 DEF P
<1>5. f[l] = <<path[l]>>
  <2>1. l \in 1..n /\ l - 1 \in 0..(l - 1)
    BY <1>1
  <2>2. f[l - 1] = <<>>
    BY <1>4, <2>1
  <2>3. f[l] = Append(f[l - 1], path[l])
    BY <1>2, <1>3, <2>1 DEF NamesTo
  <2> QED
    BY <2>2, <2>3
<1>6. IsStart(f[l], f[m])
  <2>1. NamesTo(path, f, m)
    <3>1. (\A k \in 0..m : k \in 0..n) /\ (\A k \in 1..m : k \in 1..n)
      BY <1>1
    <3> QED
      BY <1>2, <3>1, Zenon DEF NamesTo
  <2>2. l \in 0..m /\ m \in l..m /\ m \in 0..n
    BY <1>1
  <2> QED
    BY <1>1, <2>1, <2>2, NamesGrow
<1>7. f[m] \in Seq(Names) /\ Len(f[m]) \in Nat
  BY <1>1, <1>2 DEF NamesTo
<1>8. f[m][1] = path[l] /\ Len(f[m]) >= 1
  <2>1. Len(f[l]) = 1 /\ f[l][1] = path[l]
    BY <1>5
  <2> QED
    BY <1>6, <1>7, <2>1 DEF IsStart
<1>9. Head(f[m]) = path[l]
  BY <1>7, <1>8
<1> QED
  BY <1>1, <1>2, <1>3, <1>9
----------------------------------------------------------------------------
(* Preferences: the calls of all processes, and the directories made on    *)
(* the way of each.                                                        *)

CallsTyped ==
    /\ home \in Homes
    /\ calls \in [Processes -> Calls \cup {None}]
    /\ outcome = [p \in Processes |-> outcome[p]]

(* The path is the one asked for, unless an allocation failed; and what    *)
(* was passed by is there.                                                 *)
PathRight(p) ==
    /\ Saving(p) /\ calls[p].path = None => calls[p].at = 0
    /\ Made(p) => \E k \in 1..Len(calls[p].path) : ~Blank(calls[p].path[k])
    /\ Made(p) /\ p \notin faulty =>
           /\ home # None /\ calls[p].filename # None
           /\ calls[p].path = home \o SavePath(calls[p])
           /\ \A k \in 1..Len(calls[p].path) :
                  k <= calls[p].at /\ ~Blank(calls[p].path[k]) =>
                      Place(Start(calls[p].path, k)) \in dirs \cup DOMAIN files

PathsInv == CallsTyped /\ \A p \in Processes : PathRight(p)

LEMMA StringsFacts ==
    /\ Homes \subseteq Seq(Names) \cup {None} /\ Vendors \subseteq Seq(Names) \cup {None}
    /\ Packages \subseteq Seq(Names) \cup {None} /\ Filenames \subseteq Seq(Names) \cup {None}
    /\ ".config" \in Names /\ None \notin Seq(Names) /\ None \notin Calls
  BY PreferencesAssumption, Zenon

LEMMA FirstOfConcat ==
    ASSUME NEW S, NEW s \in Seq(S), NEW t \in Seq(S), Len(s) >= 1
    PROVE  s \o t \in Seq(S) /\ Len(s \o t) >= 1 /\ (s \o t)[1] = s[1]
<1>1. /\ s \o t \in Seq(S) /\ Len(s \o t) = Len(s) + Len(t)
      /\ \A i \in 1..(Len(s) + Len(t)) :
             (s \o t)[i] = IF i <= Len(s) THEN s[i] ELSE t[i - Len(s)]
  BY ConcatProperties
<1>2. Len(s) \in Nat /\ Len(t) \in Nat /\ 1 \in 1..(Len(s) + Len(t))
  OBVIOUS
<1> QED
  BY <1>1, <1>2

LEMMA SavePathFacts ==
    ASSUME NEW c \in Calls, c.filename # None
    PROVE  /\ SavePath(c) \in Seq(Names) /\ Len(SavePath(c)) >= 1
           /\ SavePath(c)[1] = ".config"
<1>1. PICK v \in Seq(Names), k \in Seq(Names), f \in Seq(Names) :
          v = OrNone(c.vendor) /\ k = OrNone(c.package) /\ f = c.filename
  <2>1. /\ c.vendor \in Seq(Names) \cup {None} /\ c.package \in Seq(Names) \cup {None}
        /\ c.filename \in Seq(Names)
    BY StringsFacts DEF Calls
  <2>2. OrNone(c.vendor) \in Seq(Names) /\ OrNone(c.package) \in Seq(Names)
    BY <2>1 DEF OrNone
  <2> QED
    BY <2>1, <2>2
<1>2. PICK d : d = ".config" /\ d \in Names
  BY StringsFacts
<1>3. <<d>> \in Seq(Names) /\ Len(<<d>>) >= 1 /\ <<d>>[1] = d
  BY <1>2
<1>4. /\ <<d>> \o v \in Seq(Names) /\ Len(<<d>> \o v) >= 1 /\ (<<d>> \o v)[1] = d
  BY <1>3, FirstOfConcat
<1>5. PICK x : x = <<d>> \o v
  OBVIOUS
<1>6. x \o k \in Seq(Names) /\ Len(x \o k) >= 1 /\ (x \o k)[1] = d
  <2>1. x \in Seq(Names) /\ Len(x) >= 1 /\ x[1] = d
    BY <1>4, <1>5
  <2> HIDE <1>5
  <2>2. x \o k \in Seq(Names) /\ Len(x \o k) >= 1 /\ (x \o k)[1] = x[1]
    BY <2>1, FirstOfConcat
  <2> QED
    BY <2>1, <2>2, Zenon
<1>7. PICK y : y = x \o k
  OBVIOUS
<1>8. y \o f \in Seq(Names) /\ Len(y \o f) >= 1 /\ (y \o f)[1] = d
  <2>1. y \in Seq(Names) /\ Len(y) >= 1 /\ y[1] = d
    BY <1>6, <1>7
  <2> HIDE <1>7
  <2>2. y \o f \in Seq(Names) /\ Len(y \o f) >= 1 /\ (y \o f)[1] = y[1]
    BY <2>1, FirstOfConcat
  <2> QED
    BY <2>1, <2>2, Zenon
<1>9. SavePath(c) = y \o f
  BY <1>1, <1>2, <1>5, <1>7, Zenon DEF SavePath
<1> QED
  BY <1>2, <1>8, <1>9

(* The whole path: the home, .config, and the names.                       *)
LEMMA WholePath ==
    ASSUME NEW h \in Seq(Names), NEW c \in Calls, c.filename # None,
           NEW path, path = h \o SavePath(c)
    PROVE  \E n \in Nat, m \in Nat : /\ path \in Seq(Names) /\ n = Len(path) /\ m \in 1..n
                                    /\ ~Blank(path[m]) /\ Start(path, m) = Append(h, ".config")
<1>1. PICK t \in Seq(Names), d \in Names : t = SavePath(c) /\ d = ".config"
  BY SavePathFacts, StringsFacts
<1>2. Len(t) >= 1 /\ t[1] = d
  BY <1>1, SavePathFacts
<1>3. PICK l \in Nat, k \in Nat : l = Len(h) /\ k = Len(t)
  BY LenProperties
<1>4. /\ h \o t \in Seq(Names) /\ Len(h \o t) = Len(h) + Len(t)
      /\ \A i \in 1..(Len(h) + Len(t)) :
             (h \o t)[i] = IF i <= Len(h) THEN h[i] ELSE t[i - Len(h)]
  BY ConcatProperties
<1>5. /\ path \in Seq(Names) /\ Len(path) = l + k /\ 1 <= k
      /\ \A i \in 1..l : path[i] = h[i]
      /\ path[l + 1] = d
  <2>1. l + 1 \in 1..(l + k) /\ ~(l + 1 <= l) /\ (l + 1) - l = 1
    BY <1>2, <1>3
  <2>2. path = h \o t
    BY <1>1
  <2> QED
    BY <1>2, <1>3, <1>4, <2>1, <2>2
<1>6. l + 1 \in 1..(l + k) /\ l + 1 \in 0..(l + k) /\ l + k \in Nat
  BY <1>5
<1>7. ~Blank(path[l + 1])
  BY <1>1, <1>5 DEF Blank
<1>8. /\ Append(h, d) \in Seq(Names) /\ Len(Append(h, d)) = Len(h) + 1
      /\ \A i \in 1..Len(h) : Append(h, d)[i] = h[i]
      /\ Append(h, d)[Len(h) + 1] = d
  BY AppendProperties
<1>9. /\ Start(path, l + 1) \in Seq(Names) /\ Len(Start(path, l + 1)) = l + 1
      /\ \A i \in 1..(l + 1) : Start(path, l + 1)[i] = path[i]
  <2>1. l + 1 \in 0..Len(path)
    BY <1>5, <1>6
  <2> QED
    BY <1>5, <2>1, StartFacts
<1>10. \A i \in 1..(l + 1) : i \in 1..l \/ i = l + 1
  OBVIOUS
<1>11. \A i \in 1..(l + 1) : Start(path, l + 1)[i] = Append(h, d)[i]
  BY <1>3, <1>5, <1>8, <1>9, <1>10
<1>12. Start(path, l + 1) = Append(h, d)
  <2>1. Len(Start(path, l + 1)) = Len(Append(h, d))
    BY <1>3, <1>8, <1>9
  <2> QED
    BY <1>8, <1>9, <1>11, <2>1, SeqEqual
<1>13. PICK n \in Nat, m \in Nat : n = l + k /\ m = l + 1
  BY <1>6
<1> QED
  BY <1>1, <1>5, <1>6, <1>7, <1>12, <1>13

(* The next slash, for a call whose path is right.                         *)
LEMMA NextSlashFacts ==
    ASSUME CallsTyped, NEW p \in Processes, PathRight(p), Made(p), p \notin faulty
    PROVE  LET path == calls[p].path
           IN  /\ calls[p] \in Calls /\ home \in Seq(Names) /\ path \in Seq(Names)
               /\ calls[p].filename # None /\ home # None
               /\ path = home \o SavePath(calls[p])
               /\ NextSlash(p) \in Nat \ {0} /\ Len(path) \in Nat
               /\ Lead(path) <= Len(path)
               /\ Head(NotEmpty(Append(home, ".config"))) = path[Lead(path)]
               /\ \A k \in 1..(NextSlash(p) - 1) :
                      k <= Len(path) /\ ~Blank(path[k]) =>
                          Place(Start(path, k)) \in dirs \cup DOMAIN files
<1>1. PICK c \in Calls, path \in {calls[p].path} : c = calls[p] /\ path = calls[p].path
  BY DEF CallsTyped, Made, Saving
<1>2. c.filename # None /\ home # None /\ path = home \o SavePath(c) /\ c.at \in Nat
  BY <1>1 DEF PathRight, Calls
<1>3. home \in Seq(Names)
  BY <1>2, StringsFacts DEF CallsTyped
<1>4. PICK n \in Nat, m \in Nat :
          /\ path \in Seq(Names) /\ n = Len(path) /\ m \in 1..n
          /\ ~Blank(path[m]) /\ Start(path, m) = Append(home, ".config")
  BY <1>2, <1>3, WholePath
<1>5. PICK l \in 1..m : l = Lead(path) /\ \A i \in 1..(l - 1) : Blank(path[i])
  BY <1>4, LeadIs
<1>6. Head(NotEmpty(Append(home, ".config"))) = path[Lead(path)]
  BY <1>4, FirstName
<1>7. NextSlash(p) = IF c.at = 0 THEN l ELSE c.at + 1
  BY <1>1, <1>5 DEF NextSlash
<1>8. NextSlash(p) \in Nat \ {0} /\ l <= n
  BY <1>2, <1>4, <1>7
<1>9. ASSUME NEW k \in 1..(NextSlash(p) - 1), k <= n, ~Blank(path[k])
      PROVE  Place(Start(path, k)) \in dirs \cup DOMAIN files
  <2>1. c.at # 0
    <3>1. c.at = 0 => k \in 1..(l - 1)
      BY <1>7
    <3> QED
      BY <1>5, <1>9, <3>1
  <2>2. k \in 1..n /\ k <= c.at
    BY <1>2, <1>7, <1>9, <2>1
  <2> QED
    BY <1>1, <1>4, <1>9, <2>2 DEF PathRight
<1> QED
  BY <1>1, <1>2, <1>3, <1>4, <1>5, <1>6, <1>8, <1>9

(* What stops a lookup on the way is a file in the place of a directory.   *)
LEMMA StopsClash ==
    ASSUME CallsTyped, NEW p \in Processes, PathRight(p), Made(p), p \notin faulty,
           NextSlash(p) <= Len(calls[p].path),
           Stops(Start(calls[p].path, NextSlash(p))) # {}
    PROVE  Clash(home \o SavePath(calls[p]))
<1>1. PICK path \in Seq(Names), m \in Nat \ {0}, n \in Nat :
          /\ path = calls[p].path /\ path = home \o SavePath(calls[p])
          /\ m = NextSlash(p) /\ n = Len(path) /\ m <= n
          /\ \A k \in 1..(m - 1) : k <= n /\ ~Blank(path[k]) =>
                 Place(Start(path, k)) \in dirs \cup DOMAIN files
  BY NextSlashFacts
<1>2. PICK k \in DOMAIN Way(Start(path, m)) : Way(Start(path, m))[k] \notin dirs
  BY <1>1 DEF Stops
<1>3. m \in 1..n
  BY <1>1
<1>4. PICK j \in 1..(m - 1) : /\ ~Blank(path[j])
                              /\ Way(Start(path, m))[k] = Place(Start(path, j))
  <2>1. n = Len(path)
    BY <1>1
  <2>2. \E j \in 1..(m - 1) :
            ~Blank(path[j]) /\ Way(Start(path, m))[k] = Place(Start(path, j))
    BY <1>3, <2>1, WayFacts
  <2> QED
    BY <2>2
<1>5. j <= n
  BY <1>1
<1>6. Way(Start(path, m))[k] \in DOMAIN files
  BY <1>1, <1>2, <1>4, <1>5
<1>7. k \in DOMAIN Way(path) /\ Way(path)[k] = Way(Start(path, m))[k]
  <2>1. n = Len(path)
    BY <1>1
  <2> QED
    BY <1>3, <2>1, WayFacts
<1> QED
  BY <1>1, <1>6, <1>7 DEF Clash

LEMMA LookupIs ==
    ASSUME NEW path, NEW places, NEW code
    PROVE  /\ Stops(path) = {} =>
                  Lookup(path, places, code) = IF Place(path) \in places THEN code ELSE "OK"
           /\ Stops(path) # {} => Lookup(path, places, code) \in {"ENOTDIR", "ENOENT"}
  BY DEF Lookup
----------------------------------------------------------------------------
(* What a step of one process does to the calls of the others.             *)

OnlyCall(p) ==
    /\ home' = home /\ dirs \subseteq dirs' /\ DOMAIN files \subseteq DOMAIN files'
    /\ \A q \in Processes \ {p} : calls'[q] = calls[q] /\ (q \in faulty' <=> q \in faulty)

Excused(p) ==
    \/ p \in faulty' \/ calls[p].filename = None
    \/ home = None \/ Head(NotEmpty(Append(home, ".config"))) \in Hidden
    \/ Clash(home \o SavePath(calls[p]))
SaveExcused(p) == Saving(p) /\ calls'[p] = None /\ outcome'[p] # "OK" => Excused(p)

Step(p) == OnlyCall(p) /\ CallsTyped' /\ PathRight(p)' /\ SaveExcused(p)

LEMMA OthersRight ==
    ASSUME NEW p, NEW q \in Processes \ {p}, OnlyCall(p), PathRight(q)
    PROVE  PathRight(q)'
<1>1. /\ calls'[q] = calls[q] /\ (q \in faulty' <=> q \in faulty) /\ home' = home
      /\ dirs \cup DOMAIN files \subseteq dirs' \cup DOMAIN files'
  BY DEF OnlyCall
<1>2. (Saving(q)' <=> Saving(q)) /\ (Made(q)' <=> Made(q))
  BY <1>1 DEF Saving, Made
<1>3. Saving(q)' /\ calls'[q].path = None => calls'[q].at = 0
  BY <1>1, <1>2 DEF PathRight
<1>4. ASSUME Made(q)', q \notin faulty'
      PROVE  /\ home' # None /\ calls'[q].filename # None
             /\ calls'[q].path = home' \o SavePath(calls'[q])
             /\ \A k \in 1..Len(calls'[q].path) :
                    k <= calls'[q].at /\ ~Blank(calls'[q].path[k]) =>
                        Place(Start(calls'[q].path, k)) \in dirs' \cup DOMAIN files'
  <2>1. /\ home # None /\ calls[q].filename # None
        /\ calls[q].path = home \o SavePath(calls[q])
        /\ \A k \in 1..Len(calls[q].path) :
               k <= calls[q].at /\ ~Blank(calls[q].path[k]) =>
                   Place(Start(calls[q].path, k)) \in dirs \cup DOMAIN files
    BY <1>1, <1>2, <1>4, Zenon DEF PathRight
  <2> QED
    BY <1>1, <2>1
<1>5. Made(q)' => \E k \in 1..Len(calls'[q].path) : ~Blank(calls'[q].path[k])
  BY <1>1, <1>2, Zenon DEF PathRight
<1> QED
  BY <1>3, <1>4, <1>5, Zenon DEF PathRight

LEMMA ReturnFacts ==
    ASSUME CallsTyped, NEW p \in Processes, NEW code, Return(p, code), home' = home
    PROVE  /\ CallsTyped' /\ calls'[p] = None /\ outcome'[p] = code
           /\ \A q \in Processes \ {p} : calls'[q] = calls[q]
<1>1. calls' = [calls EXCEPT ![p] = None] /\ outcome' = [outcome EXCEPT ![p] = code]
  BY DEF Return
<1>2. calls' \in [Processes -> Calls \cup {None}] /\ calls'[p] = None
      /\ \A q \in Processes \ {p} : calls'[q] = calls[q]
  BY <1>1 DEF CallsTyped
<1>3. outcome' = [q \in Processes |-> outcome'[q]] /\ outcome'[p] = code
  BY <1>1 DEF CallsTyped
<1> QED
  BY <1>2, <1>3 DEF CallsTyped

LEMMA CallFacts ==
    ASSUME CallsTyped, NEW p \in Processes, NEW c \in Calls, calls' = [calls EXCEPT ![p] = c],
           UNCHANGED outcome, home' = home
    PROVE  /\ CallsTyped' /\ calls'[p] = c
           /\ \A q \in Processes \ {p} : calls'[q] = calls[q]
<1>1. calls' \in [Processes -> Calls \cup {None}] /\ calls'[p] = c
      /\ \A q \in Processes \ {p} : calls'[q] = calls[q]
  BY DEF CallsTyped
<1> QED
  BY <1>1 DEF CallsTyped

LEMMA FaultFacts ==
    ASSUME NEW p, Fault(p) \/ NoFault
    PROVE  /\ \A q \in Processes \ {p} : q \in faulty' <=> q \in faulty
           /\ p \notin faulty' => p \notin faulty /\ NoFault
           /\ Fault(p) => p \in faulty'
  BY DEF Fault, NoFault

LEMMA NotMadeRight ==
    ASSUME NEW p, calls'[p] = None \/ calls'[p].op # "save"
                  \/ (calls'[p].path = None /\ calls'[p].at = 0)
    PROVE  PathRight(p)'
  BY DEF PathRight, Made, Saving

LEMMA CallStep ==
    ASSUME PathsInv, NEW p \in Processes, Call(p)
    PROVE  Step(p)
<1>0. PICK op \in DOMAIN First, vendor \in Vendors, package \in Packages,
           filename \in Filenames :
          \E content \in IF op = "save" THEN Saved ELSE {None} :
              calls' = [calls EXCEPT ![p] =
                  [op |-> op, vendor |-> vendor, package |-> package, filename |-> filename,
                   content |-> content, next |-> First[op], path |-> None, at |-> 0]]
  BY Zenon DEF Call
<1>1. PICK content \in Saved \cup {None} :
          calls' = [calls EXCEPT ![p] =
              [op |-> op, vendor |-> vendor, package |-> package, filename |-> filename,
               content |-> content, next |-> First[op], path |-> None, at |-> 0]]
  <2>1. (IF op = "save" THEN Saved ELSE {None}) \subseteq Saved \cup {None}
    OBVIOUS
  <2> QED
    BY <1>0, <2>1, Zenon
<1>2. PICK c : c = [op |-> op, vendor |-> vendor, package |-> package, filename |-> filename,
                    content |-> content, next |-> First[op], path |-> None, at |-> 0]
  OBVIOUS
<1>3. c \in Calls /\ c.path = None /\ c.at = 0
  <2>2. First[op] \in {"user", "system"}
    BY DEF First
  <2> QED
    BY <1>2, <2>2 DEF Calls
<1>4. /\ home' = home /\ dirs' = dirs /\ files' = files /\ outcome' = outcome
      /\ faulty' = faulty \ {p} /\ calls[p] = None
  BY DEF Call, disk
<1>5. calls' = [calls EXCEPT ![p] = c]
  BY <1>1, <1>2, Zenon
<1>6. /\ CallsTyped' /\ calls'[p] = c
      /\ \A q \in Processes \ {p} : calls'[q] = calls[q]
  BY <1>3, <1>4, <1>5, CallFacts DEF PathsInv
<1>7. OnlyCall(p)
  BY <1>4, <1>6 DEF OnlyCall
<1>8. PathRight(p)'
  BY <1>3, <1>6, NotMadeRight
<1>9. SaveExcused(p)
  BY <1>4 DEF SaveExcused, Saving
<1> QED
  BY <1>6, <1>7, <1>8, <1>9 DEF Step

LEMMA SaveRefusedStep ==
    ASSUME PathsInv, NEW p \in Processes, SaveRefused(p)
    PROVE  Step(p)
<1>1. PICK code : Return(p, code)
  BY DEF SaveRefused
<1>2. home' = home /\ dirs' = dirs /\ files' = files /\ faulty' = faulty
  BY DEF SaveRefused, disk
<1>3. /\ CallsTyped' /\ calls'[p] = None
      /\ \A q \in Processes \ {p} : calls'[q] = calls[q]
  BY <1>1, <1>2, ReturnFacts DEF PathsInv
<1>4. OnlyCall(p)
  BY <1>2, <1>3 DEF OnlyCall
<1>5. PathRight(p)'
  BY <1>3, NotMadeRight
<1>6. SaveExcused(p)
  BY DEF SaveExcused, SaveRefused, Excused
<1> QED
  BY <1>3, <1>4, <1>5, <1>6 DEF Step

LEMMA SavePathMadeStep ==
    ASSUME PathsInv, NEW p \in Processes, SavePathMade(p)
    PROVE  Step(p)
<1>1. PICK c \in Calls : c = calls[p] /\ c # None
  BY DEF PathsInv, CallsTyped, SavePathMade, Saving
<1>2. /\ home' = home /\ dirs' = dirs /\ files' = files /\ Saving(p) /\ c.path = None
      /\ c.filename # None /\ home # None
  BY <1>1 DEF SavePathMade, disk
<1>3. PICK a \in Appends(home, SavePath(c)) :
          /\ Allocated(p, a.fault)
          /\ IF a.path = None THEN Return(p, "ENOMEM")
             ELSE calls' = [calls EXCEPT ![p].path = a.path] /\ UNCHANGED outcome
  BY <1>1 DEF SavePathMade
<1>4. /\ a.path \in {home \o SavePath(c), SavePath(c), None}
      /\ a.fault = "no" => a.path = home \o SavePath(c)
      /\ IF a.fault = "no" THEN NoFault ELSE Fault(p)
  BY <1>3 DEF Appends, Allocated
<1>5. /\ home \o SavePath(c) \in Seq(Names) /\ SavePath(c) \in Seq(Names)
      /\ home \in Seq(Names)
  <2>1. home \in Homes
    BY DEF PathsInv, CallsTyped
  <2>2. home \in Seq(Names)
    BY <1>2, <2>1, StringsFacts
  <2>3. SavePath(c) \in Seq(Names)
    BY <1>1, <1>2, SavePathFacts
  <2> QED
    BY <2>2, <2>3, ConcatProperties
<1>6. a.path \in Seq(Names) \cup {None}
  BY <1>4, <1>5
<1>7. c.at = 0
  BY <1>1, <1>2 DEF PathsInv, PathRight
<1>8. /\ \A q \in Processes \ {p} : q \in faulty' <=> q \in faulty
      /\ p \notin faulty' => a.fault = "no"
  BY <1>4, FaultFacts
<1>9. CASE a.path = None
  <2>1. Return(p, "ENOMEM")
    BY <1>3, <1>9
  <2>2. /\ CallsTyped' /\ calls'[p] = None
        /\ \A q \in Processes \ {p} : calls'[q] = calls[q]
    BY <1>2, <2>1, ReturnFacts DEF PathsInv
  <2>3. OnlyCall(p)
    BY <1>2, <1>8, <2>2 DEF OnlyCall
  <2>4. PathRight(p)'
    BY <2>2, NotMadeRight
  <2>5. SaveExcused(p)
    <3>1. home \o SavePath(c) # None
      BY <1>5, StringsFacts
    <3>2. p \in faulty'
      BY <1>4, <1>8, <1>9, <3>1
    <3> QED
      BY <3>2 DEF SaveExcused, Excused
  <2> QED
    BY <2>2, <2>3, <2>4, <2>5 DEF Step
<1>10. CASE a.path # None
  <2>1. PICK d : d = [c EXCEPT !.path = a.path]
    OBVIOUS
  <2>2. calls' = [calls EXCEPT ![p] = d] /\ outcome' = outcome
    BY <1>1, <1>3, <1>10, <2>1
  <2>3. d \in Calls /\ d.path = a.path /\ d.at = 0 /\ d.filename = c.filename
        /\ d.vendor = c.vendor /\ d.package = c.package
    BY <1>6, <1>7, <2>1 DEF Calls
  <2>4. /\ CallsTyped' /\ calls'[p] = d
        /\ \A q \in Processes \ {p} : calls'[q] = calls[q]
    BY <1>2, <2>2, <2>3, CallFacts DEF PathsInv
  <2>5. OnlyCall(p)
    BY <1>2, <1>8, <2>4 DEF OnlyCall
  <2>6. SavePath(d) = SavePath(c)
    BY <2>3 DEF SavePath
  <2>7. PathRight(p)'
    <3>1. Saving(p)' /\ calls'[p].path = None => calls'[p].at = 0
      BY <2>3, <2>4
    <3>2. ASSUME p \notin faulty'
          PROVE  /\ home' # None /\ calls'[p].filename # None
                 /\ calls'[p].path = home' \o SavePath(calls'[p])
      BY <1>2, <1>4, <1>8, <2>3, <2>4, <2>6, <3>2
    <3>3. \A k \in 1..Len(calls'[p].path) : ~(k <= calls'[p].at)
      BY <2>3, <2>4
    <3>4. \E k \in 1..Len(a.path) : ~Blank(a.path[k])
      <4>1. CASE a.path = home \o SavePath(c)
        BY <1>1, <1>2, <1>5, <4>1, WholePath
      <4>2. CASE a.path = SavePath(c)
        <5>1. Len(a.path) >= 1 /\ a.path[1] = ".config" /\ Len(a.path) \in Nat
          BY <1>2, <1>5, <4>2, SavePathFacts
        <5>2. 1 \in 1..Len(a.path) /\ ~Blank(a.path[1])
          BY <5>1 DEF Blank
        <5> QED
          BY <5>2
      <4> QED
        BY <1>4, <1>10, <4>1, <4>2
    <3>5. \E k \in 1..Len(calls'[p].path) : ~Blank(calls'[p].path[k])
      BY <2>3, <2>4, <3>4, Zenon
    <3> QED
      BY <3>1, <3>2, <3>3, <3>5 DEF PathRight
  <2>8. SaveExcused(p)
    <3>1. calls'[p] # None
      BY <2>3, <2>4, StringsFacts
    <3> QED
      BY <3>1 DEF SaveExcused
  <2> QED
    BY <2>4, <2>5, <2>7, <2>8 DEF Step
<1> QED
  BY <1>9, <1>10

LEMMA NextSlashNat ==
    ASSUME CallsTyped, NEW p \in Processes, PathRight(p), Made(p)
    PROVE  NextSlash(p) \in Nat \ {0}
<1>1. PICK c \in Calls, path \in Seq(Names) : c = calls[p] /\ path = c.path
  <2>1. calls[p] \in Calls /\ calls[p].path # None
    BY DEF CallsTyped, Made, Saving
  <2> QED
    BY <2>1 DEF Calls
<1>2. PICK n \in Nat : n = Len(path)
  BY LenProperties
<1>3. PICK k \in 1..n : ~Blank(path[k])
  BY <1>1, <1>2 DEF PathRight
<1>4. Lead(path) \in 1..k
  BY <1>2, <1>3, LeadIs
<1>5. Lead(path) \in Nat \ {0} /\ c.at \in Nat
  BY <1>4 DEF Calls
<1> QED
  BY <1>1, <1>5 DEF NextSlash

LEMMA DirectoryPassed ==
    ASSUME PathsInv, NEW p \in Processes, Made(p), p \notin faulty,
           NEW m, m = NextSlash(p), m < Len(calls[p].path), OnlyCall(p),
           calls'[p] = [calls[p] EXCEPT !.at = m],
           Place(Start(calls[p].path, m)) \in dirs' \cup DOMAIN files'
    PROVE  PathRight(p)'
<1>1. CallsTyped /\ PathRight(p)
  BY DEF PathsInv
<1>2. PICK c \in Calls, path \in Seq(Names), n \in Nat :
          /\ c = calls[p] /\ path = c.path /\ n = Len(path)
          /\ c.filename # None /\ home # None /\ path = home \o SavePath(c)
          /\ m \in Nat \ {0}
          /\ \A k \in 1..(m - 1) : k <= n /\ ~Blank(path[k]) =>
                 Place(Start(path, k)) \in dirs \cup DOMAIN files
  BY <1>1, NextSlashFacts
<1>3. PICK d : d = calls'[p]
  OBVIOUS
<1>4. /\ d.at = m /\ d.path = path /\ d.filename = c.filename /\ d.vendor = c.vendor
      /\ d.package = c.package
  BY <1>2, <1>3 DEF Calls
<1>5. SavePath(d) = SavePath(c)
  BY <1>4 DEF SavePath
<1>6. ASSUME NEW k \in 1..n, k <= m, ~Blank(path[k])
      PROVE  Place(Start(path, k)) \in dirs' \cup DOMAIN files'
  <2>1. CASE k = m
    BY <1>2, <2>1
  <2>2. CASE k # m
    <3>1. k \in 1..(m - 1) /\ k <= n
      BY <1>2, <1>6, <2>2
    <3>2. Place(Start(path, k)) \in dirs \cup DOMAIN files
      BY <1>2, <1>6, <3>1
    <3> QED
      BY <3>2 DEF OnlyCall
  <2> QED
    BY <2>1, <2>2
<1>7. path # None
  BY StringsFacts
<1>8. \E k \in 1..n : ~Blank(path[k])
  BY <1>1, <1>2, Zenon DEF PathRight
<1>9. home' = home
  BY DEF OnlyCall
<1>10. Saving(p)' /\ calls'[p].path = None => calls'[p].at = 0
  BY <1>3, <1>4, <1>7
<1>11. \E k \in 1..Len(calls'[p].path) : ~Blank(calls'[p].path[k])
  BY <1>2, <1>3, <1>4, <1>8, Zenon
<1>12. /\ home' # None /\ calls'[p].filename # None
       /\ calls'[p].path = home' \o SavePath(calls'[p])
  BY <1>2, <1>3, <1>4, <1>5, <1>9
<1>13. \A k \in 1..Len(calls'[p].path) :
           k <= calls'[p].at /\ ~Blank(calls'[p].path[k]) =>
               Place(Start(calls'[p].path, k)) \in dirs' \cup DOMAIN files'
  BY <1>2, <1>3, <1>4, <1>6
<1> QED
  BY <1>10, <1>11, <1>12, <1>13, Zenon DEF PathRight

LEMMA MakeDirectoryStep ==
    ASSUME PathsInv, NEW p \in Processes, MakeDirectory(p)
    PROVE  Step(p)
<1>1. CallsTyped /\ PathRight(p) /\ Made(p)
  BY DEF PathsInv, MakeDirectory
<1>2. PICK c \in Calls, path \in Seq(Names), m \in Nat \ {0} :
          c = calls[p] /\ path = c.path /\ m = NextSlash(p)
  <2>1. calls[p] \in Calls /\ calls[p].path # None
    BY <1>1 DEF CallsTyped, Made, Saving
  <2> QED
    BY <1>1, <2>1, NextSlashNat DEF Calls
<1>3. PICK dir : dir = Start(path, m)
  OBVIOUS
<1>4. PICK code : code = Lookup(dir, There(dir), "EEXIST")
  OBVIOUS
<1>5. /\ m < Len(path)
      /\ IF path[Lead(path)] \in Hidden
         THEN Return(p, "EPERM") /\ NoFault /\ UNCHANGED <<disk, errno>>
         ELSE \/ /\ Errno(p, IF code = "OK" THEN errno[p] ELSE code) /\ NoFault
                 /\ dirs' = IF code = "OK" THEN dirs \cup {Place(dir)} ELSE dirs
                 /\ IF Tolerated(code)
                    THEN calls' = [calls EXCEPT ![p].at = m] /\ UNCHANGED outcome
                    ELSE Return(p, code)
                 /\ UNCHANGED <<home, files>>
              \/ /\ code = "OK" /\ Fault(p) /\ Errno(p, "ENOSPC") /\ Return(p, "ENOSPC")
                 /\ UNCHANGED disk
  BY <1>2, <1>3, <1>4, Zenon DEF MakeDirectory, Start
<1>6. home' = home /\ dirs \subseteq dirs' /\ files' = files
  BY <1>5 DEF disk
<1>7. NoFault \/ Fault(p)
  BY <1>5
<1>8. /\ \A q \in Processes \ {p} : q \in faulty' <=> q \in faulty
      /\ p \notin faulty' => p \notin faulty /\ NoFault
      /\ Fault(p) => p \in faulty'
  BY <1>7, FaultFacts
<1>9. ASSUME p \notin faulty
      PROVE  /\ Head(NotEmpty(Append(home, ".config"))) = path[Lead(path)]
             /\ Stops(dir) # {} => Clash(home \o SavePath(c))
  <2>1. Head(NotEmpty(Append(home, ".config"))) = path[Lead(path)]
    BY <1>1, <1>2, <1>9, NextSlashFacts
  <2>2. m <= Len(path)
    BY <1>5
  <2>3. Stops(dir) # {} => Clash(home \o SavePath(c))
    BY <1>1, <1>2, <1>3, <1>9, <2>2, StopsClash
  <2> QED
    BY <2>1, <2>3
<1>10. /\ Stops(dir) = {} => code = IF Place(dir) \in There(dir) THEN "EEXIST" ELSE "OK"
       /\ Stops(dir) # {} => ~Tolerated(code) /\ code # "OK"
  BY <1>4, LookupIs DEF Tolerated
<1>11. ASSUME NEW result, Return(p, result), result # "OK" => Excused(p)
       PROVE  Step(p)
  <2>1. /\ CallsTyped' /\ calls'[p] = None /\ outcome'[p] = result
        /\ \A q \in Processes \ {p} : calls'[q] = calls[q]
    BY <1>1, <1>6, <1>11, ReturnFacts
  <2>2. OnlyCall(p)
    BY <1>6, <1>8, <2>1 DEF OnlyCall
  <2>3. PathRight(p)'
    BY <2>1, NotMadeRight
  <2>4. SaveExcused(p)
    BY <1>11, <2>1 DEF SaveExcused
  <2> QED
    BY <2>1, <2>2, <2>3, <2>4 DEF Step
<1>12. CASE path[Lead(path)] \in Hidden
  <2>1. Return(p, "EPERM")
    BY <1>5, <1>12
  <2>2. Excused(p)
    BY <1>8, <1>9, <1>12 DEF Excused
  <2> QED
    BY <1>11, <2>1, <2>2
<1>13. CASE path[Lead(path)] \notin Hidden /\ Fault(p)
  <2>1. Excused(p)
    BY <1>8, <1>13 DEF Excused
  <2>2. \/ Return(p, "ENOSPC")
        \/ Tolerated(code) /\ calls' = [calls EXCEPT ![p].at = m] /\ UNCHANGED outcome
        \/ Return(p, code)
    BY <1>5, <1>13
  <2>3. NoFault => FALSE
    BY <1>13 DEF Fault, NoFault
  <2> QED
    BY <1>5, <1>11, <1>13, <2>1, <2>3
<1>14. CASE path[Lead(path)] \notin Hidden /\ ~Fault(p)
  <2>1. /\ dirs' = IF code = "OK" THEN dirs \cup {Place(dir)} ELSE dirs
        /\ IF Tolerated(code)
           THEN calls' = [calls EXCEPT ![p].at = m] /\ UNCHANGED outcome
           ELSE Return(p, code)
    BY <1>5, <1>14
  <2>2. CASE ~Tolerated(code)
    <3>1. Stops(dir) # {}
      BY <1>10, <2>2 DEF Tolerated
    <3>2. Excused(p)
      BY <1>2, <1>8, <1>9, <3>1 DEF Excused
    <3> QED
      BY <1>11, <2>1, <2>2, <3>2
  <2>3. CASE Tolerated(code)
    <3>1. PICK d : d = [c EXCEPT !.at = m]
      OBVIOUS
    <3>2. d \in Calls /\ calls' = [calls EXCEPT ![p] = d] /\ outcome' = outcome
      BY <1>2, <2>1, <2>3, <3>1 DEF Calls
    <3>3. /\ CallsTyped' /\ calls'[p] = d
          /\ \A q \in Processes \ {p} : calls'[q] = calls[q]
      BY <1>1, <1>6, <3>2, CallFacts
    <3>4. OnlyCall(p)
      BY <1>6, <1>8, <3>3 DEF OnlyCall
    <3>5. SaveExcused(p)
      BY <3>2, <3>3, StringsFacts DEF SaveExcused
    <3>6. Place(dir) \in dirs' \cup DOMAIN files'
      <4>1. Stops(dir) = {}
        BY <1>10, <2>3
      <4>2. CASE Place(dir) \in There(dir)
        BY <1>6, <4>2 DEF There
      <4>3. CASE Place(dir) \notin There(dir)
        BY <1>10, <2>1, <4>1, <4>3
      <4> QED
        BY <4>2, <4>3
    <3>7. ASSUME p \in faulty'
          PROVE  PathRight(p)'
      <4>1. \E k \in 1..Len(path) : ~Blank(path[k])
        BY <1>1, <1>2, Zenon DEF PathRight
      <4>2. d.path = path /\ path # None
        BY <1>2, <3>1, StringsFacts DEF Calls
      <4>3. Saving(p)' /\ calls'[p].path = None => calls'[p].at = 0
        BY <3>3, <4>2
      <4>4. \E k \in 1..Len(calls'[p].path) : ~Blank(calls'[p].path[k])
        BY <3>3, <4>1, <4>2, Zenon
      <4> QED
        BY <3>7, <4>3, <4>4, Zenon DEF PathRight
    <3>8. ASSUME p \notin faulty'
          PROVE  PathRight(p)'
      <4>1. PathsInv /\ Made(p) /\ p \notin faulty /\ m = NextSlash(p)
        BY <1>1, <1>2, <1>8, <3>8
      <4>2. m < Len(calls[p].path) /\ calls'[p] = [calls[p] EXCEPT !.at = m]
        BY <1>2, <1>5, <3>1, <3>3
      <4>3. Place(Start(calls[p].path, m)) \in dirs' \cup DOMAIN files'
        BY <1>2, <1>3, <3>6
      <4> QED
        BY <3>4, <4>1, <4>2, <4>3, DirectoryPassed
    <3> QED
      BY <3>3, <3>4, <3>5, <3>7, <3>8 DEF Step
  <2> QED
    BY <2>2, <2>3
<1> QED
  BY <1>12, <1>13, <1>14

LEMMA PathWhole ==
    ASSUME NEW path \in Seq(Names)
    PROVE  Start(path, Len(path)) = path
BY DEF Start

LEMMA FilesGrow ==
    ASSUME NEW place, NEW content
    PROVE  DOMAIN files \subseteq DOMAIN With(place, content)
BY DEF With

LEMMA SaveFileStep ==
    ASSUME PathsInv, NEW p \in Processes, SaveFile(p)
    PROVE  Step(p)
<1>1. CallsTyped /\ PathRight(p) /\ Made(p)
  BY DEF PathsInv, SaveFile
<1>2. PICK c \in Calls, path \in Seq(Names) : c = calls[p] /\ path = c.path
  <2>1. calls[p] \in Calls /\ calls[p].path # None
    BY <1>1 DEF CallsTyped, Made, Saving
  <2> QED
    BY <2>1 DEF Calls
<1>3. PICK code : code = Lookup(path, dirs, "EISDIR")
  OBVIOUS
<1>4. /\ NextSlash(p) = Len(path)
      /\ IF code # "OK" THEN Errno(p, code) /\ Return(p, code) /\ NoFault /\ UNCHANGED files
         ELSE \/ /\ files' = With(Place(path), c.content)
                 /\ Return(p, "OK") /\ NoFault /\ UNCHANGED errno
              \/ /\ files' \in {files, With(Place(path), Torn)}
                 /\ Fault(p) /\ Errno(p, "ENOSPC") /\ Return(p, "ENOSPC")
      /\ home' = home /\ dirs' = dirs
  BY <1>2, <1>3, Zenon DEF SaveFile
<1>5. DOMAIN files \subseteq DOMAIN files'
  <2>1. \/ files' = files \/ files' = With(Place(path), c.content)
        \/ files' = With(Place(path), Torn)
    BY <1>4
  <2> QED
    BY <2>1, FilesGrow
<1>6. NoFault \/ Fault(p)
  BY <1>4
<1>7. /\ \A q \in Processes \ {p} : q \in faulty' <=> q \in faulty
      /\ p \notin faulty' => p \notin faulty /\ NoFault
      /\ Fault(p) => p \in faulty'
  BY <1>6, FaultFacts
<1>8. ASSUME NEW result, Return(p, result), result # "OK" => Excused(p)
      PROVE  Step(p)
  <2>1. /\ CallsTyped' /\ calls'[p] = None /\ outcome'[p] = result
        /\ \A q \in Processes \ {p} : calls'[q] = calls[q]
    BY <1>1, <1>4, <1>8, ReturnFacts
  <2>2. OnlyCall(p)
    BY <1>4, <1>5, <1>7, <2>1 DEF OnlyCall
  <2>3. PathRight(p)'
    BY <2>1, NotMadeRight
  <2>4. SaveExcused(p)
    BY <1>8, <2>1 DEF SaveExcused
  <2> QED
    BY <2>1, <2>2, <2>3, <2>4 DEF Step
<1>9. CASE code = "OK"
  <2>1. CASE Return(p, "OK")
    BY <1>8, <2>1
  <2>2. CASE Fault(p) /\ Return(p, "ENOSPC")
    <3>1. Excused(p)
      BY <1>7, <2>2 DEF Excused
    <3> QED
      BY <1>8, <2>2, <3>1
  <2> QED
    BY <1>4, <1>9, <2>1, <2>2
<1>10. CASE code # "OK"
  <2>1. Return(p, code)
    BY <1>4, <1>10
  <2>2. CASE p \in faulty
    <3>1. p \in faulty'
      BY <1>7, <2>2
    <3>2. Excused(p)
      BY <3>1 DEF Excused
    <3> QED
      BY <1>8, <2>1, <3>2
  <2>3. CASE p \notin faulty
    <3>1. path = home \o SavePath(c)
      BY <1>1, <1>2, <2>3, NextSlashFacts
    <3>2. CASE Stops(path) = {}
      <4>1. Place(path) \in dirs
        BY <1>3, <1>10, <3>2, LookupIs
      <4> QED
        BY <1>2, <1>8, <2>1, <3>1, <4>1 DEF Excused, Clash
    <3>3. CASE Stops(path) # {}
      <4>1. Start(path, NextSlash(p)) = path /\ NextSlash(p) <= Len(path)
        BY <1>2, <1>4, PathWhole, LenProperties
      <4>2. Clash(home \o SavePath(c))
        BY <1>1, <1>2, <2>3, <3>3, <4>1, StopsClash
      <4> QED
        BY <1>2, <1>8, <2>1, <4>2 DEF Excused
    <3> QED
      BY <3>2, <3>3
  <2> QED
    BY <2>2, <2>3
<1> QED
  BY <1>9, <1>10

LEMMA LevelStep ==
    ASSUME PathsInv, NEW p \in Processes, Loading(p), NEW code, LevelEnds(p, code),
           UNCHANGED disk, Fault(p) \/ NoFault
    PROVE  Step(p)
<1>1. CallsTyped /\ calls[p] \in Calls /\ calls[p].op # "save" /\ home' = home
  BY DEF PathsInv, CallsTyped, Loading, disk
<1>2. dirs' = dirs /\ files' = files
  BY DEF disk
<1>3. \A q \in Processes \ {p} : q \in faulty' <=> q \in faulty
  BY FaultFacts
<1>4. SaveExcused(p)
  BY <1>1 DEF SaveExcused, Saving
<1>5. ASSUME NEW result, Return(p, result)
      PROVE  Step(p)
  <2>1. /\ CallsTyped' /\ calls'[p] = None
        /\ \A q \in Processes \ {p} : calls'[q] = calls[q]
    BY <1>1, <1>5, ReturnFacts
  <2>2. OnlyCall(p)
    BY <1>1, <1>2, <1>3, <2>1 DEF OnlyCall
  <2>3. PathRight(p)'
    BY <2>1, NotMadeRight
  <2> QED
    BY <1>4, <2>1, <2>2, <2>3 DEF Step
<1>6. ASSUME calls' = [calls EXCEPT ![p].next = "user"], UNCHANGED outcome
      PROVE  Step(p)
  <2>1. PICK d : d = [calls[p] EXCEPT !.next = "user"]
    OBVIOUS
  <2>2. d \in Calls /\ d.op # "save" /\ calls' = [calls EXCEPT ![p] = d]
    BY <1>1, <1>6, <2>1 DEF Calls
  <2>3. /\ CallsTyped' /\ calls'[p] = d
        /\ \A q \in Processes \ {p} : calls'[q] = calls[q]
    BY <1>1, <1>6, <2>2, CallFacts
  <2>4. OnlyCall(p)
    BY <1>1, <1>2, <1>3, <2>3 DEF OnlyCall
  <2>5. PathRight(p)'
    BY <2>2, <2>3, NotMadeRight
  <2> QED
    BY <1>4, <2>3, <2>4, <2>5 DEF Step
<1>7. \/ \E result : Return(p, result)
      \/ calls' = [calls EXCEPT ![p].next = "user"] /\ UNCHANGED outcome
  BY Zenon DEF LevelEnds
<1> QED
  BY <1>5, <1>6, <1>7

LEMMA LoadRefusedStep ==
    ASSUME PathsInv, NEW p \in Processes, LoadRefused(p)
    PROVE  Step(p)
<1>1. Loading(p) /\ UNCHANGED disk /\ NoFault
  BY DEF LoadRefused, NoFault
<1>2. \E code : LevelEnds(p, code)
  BY Zenon DEF LoadRefused
<1> QED
  BY <1>1, <1>2, LevelStep

LEMMA LoadFileStep ==
    ASSUME PathsInv, NEW p \in Processes, LoadFile(p)
    PROVE  Step(p)
<1>1. Loading(p) /\ UNCHANGED disk
  BY DEF LoadFile
<1>2. PICK a \in Appends(Top(calls[p]), Rest(calls[p])) :
          Allocated(p, a.fault) /\ \E code : LevelEnds(p, code)
  BY Zenon DEF LoadFile
<1>3. Fault(p) \/ NoFault
  BY <1>2 DEF Allocated
<1> QED
  BY <1>1, <1>2, <1>3, LevelStep

LEMMA PathsFirst ==
    ASSUME PreferencesInit
    PROVE  PathsInv
<1>1. \A p \in Processes : calls[p] = None
  BY DEF PreferencesInit
<1>2. CallsTyped
  BY DEF PreferencesInit, CallsTyped
<1>3. ASSUME NEW p \in Processes
      PROVE  PathRight(p)
  BY <1>1 DEF PathRight, Saving, Made
<1> QED
  BY <1>2, <1>3 DEF PathsInv

LEMMA ProcessStep ==
    ASSUME PathsInv, PreferencesNext
    PROVE  \E p \in Processes : Step(p)
<1>1. PICK p \in Processes :
          \/ Call(p)
          \/ SaveRefused(p) \/ SavePathMade(p) \/ MakeDirectory(p) \/ SaveFile(p)
          \/ LoadRefused(p) \/ LoadFile(p)
  BY DEF PreferencesNext
<1> QED
  BY <1>1, CallStep, SaveRefusedStep, SavePathMadeStep, MakeDirectoryStep, SaveFileStep,
     LoadRefusedStep, LoadFileStep

LEMMA PathsKept ==
    ASSUME PathsInv, [PreferencesNext]_preferencesVars
    PROVE  /\ PathsInv'
           /\ \A p \in Processes : SaveExcused(p)
<1>1. CASE PreferencesNext
  <2>1. PICK p \in Processes : Step(p)
    BY <1>1, ProcessStep
  <2>2. ASSUME NEW q \in Processes \ {p}
        PROVE  PathRight(q)' /\ SaveExcused(q)
    <3>1. PathRight(q) /\ OnlyCall(p) /\ calls'[q] = calls[q]
      BY <2>1, <2>2 DEF PathsInv, Step, OnlyCall
    <3>2. SaveExcused(q)
      BY <3>1 DEF SaveExcused, Saving
    <3> QED
      BY <3>1, <3>2, OthersRight
  <2> QED
    BY <2>1, <2>2 DEF PathsInv, Step
<1>2. CASE UNCHANGED preferencesVars
  <2>1. /\ home' = home /\ dirs' = dirs /\ files' = files /\ calls' = calls
        /\ outcome' = outcome /\ faulty' = faulty
    BY <1>2 DEF preferencesVars, disk
  <2>2. ASSUME NEW q \in Processes
        PROVE  PathRight(q)'
    <3>1. PathRight(q)
      BY <2>2 DEF PathsInv
    <3> QED
      BY <2>1, <3>1 DEF PathRight, Saving, Made, SavePath
  <2>3. ASSUME NEW q \in Processes
        PROVE  SaveExcused(q)
    BY <2>1 DEF SaveExcused, Saving
  <2>4. CallsTyped'
    BY <2>1 DEF PathsInv, CallsTyped
  <2> QED
    BY <2>2, <2>3, <2>4 DEF PathsInv
<1> QED
  BY <1>1, <1>2

(* Saves of preferences do not disturb one another, whoever else saves or  *)
(* loads and makes directories between any two system calls: one that      *)
(* fails met a fault of the machine, was given no name, has no home it may *)
(* write to, or a name is a directory's for one and a file's for another.  *)
THEOREM SavesSucceedAlways == PreferencesBehaviour => SavesSucceed
<1>1. ASSUME PathsInv, [PreferencesNext]_preferencesVars
      PROVE  \A p \in Processes :
                 Saving(p) /\ calls'[p] = None /\ outcome'[p] # "OK" =>
                     \/ p \in faulty' \/ calls[p].filename = None
                     \/ home = None \/ Head(NotEmpty(Append(home, ".config"))) \in Hidden
                     \/ Clash(home \o SavePath(calls[p]))
  BY <1>1, PathsKept DEF SaveExcused, Excused
<1>2. PathsInv /\ [PreferencesNext]_preferencesVars => PathsInv'
  BY PathsKept
<1>3. PreferencesInit => PathsInv
  BY PathsFirst
<1> QED
  BY <1>1, <1>2, <1>3, PTL DEF PreferencesBehaviour, SavesSucceed
=============================================================================
