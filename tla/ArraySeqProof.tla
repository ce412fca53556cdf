--------------------------- MODULE ArraySeqProof ---------------------------
(* What the removal loops of event.c do to an array, for every array.      *)
EXTENDS ArraySeq, FiniteSetTheorems, SequenceTheorems, WellFoundedInduction, TLAPS

(* Positions have ranks from 1 to the number of positions.                 *)
LEMMA RankRange ==
    ASSUME NEW n \in Nat, NEW K \in SUBSET (1..n), NEW k \in K
    PROVE  /\ IsFiniteSet(K)
           /\ Cardinality(K) \in Nat
           /\ Rank(K, k) \in 1..Cardinality(K)
<1>1. IsFiniteSet(1..n)
  BY FS_Interval
<1>2. IsFiniteSet(K)
  BY <1>1, FS_Subset
<1> DEFINE L == {j \in K : j <= k}
<1>3. IsFiniteSet(L) /\ Cardinality(L) <= Cardinality(K)
  BY <1>2, FS_Subset
<1>4. Cardinality(L) \in Nat /\ Cardinality(K) \in Nat
  BY <1>2, <1>3, FS_CardinalityType
<1>5. k \in L
  OBVIOUS
<1>6. Cardinality(L) # 0
  BY <1>3, <1>5, FS_EmptySet
<1> QED
  BY <1>2, <1>3, <1>4, <1>6 DEF Rank

(* A later position has a greater rank.                                    *)
LEMMA RankMonotonic ==
    ASSUME NEW n \in Nat, NEW K \in SUBSET (1..n),
           NEW j \in K, NEW k \in K, j < k
    PROVE  Rank(K, j) < Rank(K, k)
<1> DEFINE Below(m) == {i \in K : i <= m}
<1>1. IsFiniteSet(K)
  BY RankRange
<1>2. IsFiniteSet(Below(k)) /\ IsFiniteSet(Below(j))
  BY <1>1, FS_Subset
<1>3. Below(j) \in SUBSET Below(k)
  <2>1. \A i \in K : i \in Int
    OBVIOUS
  <2>2. \A i \in K : i <= j => i <= k
    BY <2>1
  <2> QED
    BY <2>2
<1>4. k \in Below(k) /\ k \notin Below(j)
  OBVIOUS
<1>5. Below(j) # Below(k)
  BY <1>4
<1> HIDE DEF Below
<1>6. Cardinality(Below(j)) <= Cardinality(Below(k))
      /\ Cardinality(Below(j)) # Cardinality(Below(k))
  BY <1>2, <1>3, <1>5, FS_Subset
<1>7. Cardinality(Below(j)) \in Nat /\ Cardinality(Below(k)) \in Nat
  BY <1>2, FS_CardinalityType
<1> QED
  BY <1>6, <1>7 DEF Rank, Below

LEMMA RankInjective ==
    ASSUME NEW n \in Nat, NEW K \in SUBSET (1..n),
           NEW j \in K, NEW k \in K, Rank(K, j) = Rank(K, k)
    PROVE  j = k
<1>1. Rank(K, j) \in 1..Cardinality(K) /\ Cardinality(K) \in Nat
  BY RankRange
<1>2. Rank(K, j) \in Int
  BY <1>1
<1>3. CASE j < k
  <2>1. Rank(K, j) < Rank(K, k)
    BY <1>3, RankMonotonic
  <2> QED
    BY <2>1, <1>2
<1>4. CASE k < j
  <2>1. Rank(K, k) < Rank(K, j)
    BY <1>4, RankMonotonic
  <2> QED
    BY <2>1, <1>2
<1>5. j \in Int /\ k \in Int
  OBVIOUS
<1> QED
  BY <1>3, <1>4, <1>5

(* Each rank is that of exactly one position.                              *)
LEMMA RankOnto ==
    ASSUME NEW n \in Nat, NEW K \in SUBSET (1..n), NEW r \in 1..Cardinality(K)
    PROVE  \E k \in K : Rank(K, k) = r
<1>1. IsFiniteSet(1..n)
  BY FS_Interval
<1>2. IsFiniteSet(K) /\ Cardinality(K) \in Nat
  BY <1>1, FS_Subset, FS_CardinalityType
<1> DEFINE f == [k \in K |-> Rank(K, k)]
<1>3. f \in [K -> 1..Cardinality(K)]
  BY RankRange
<1>4. ASSUME NEW j \in K, NEW k \in K, f[j] = f[k] PROVE j = k
  <2>1. Rank(K, j) = Rank(K, k)
    BY <1>4
  <2> QED
    BY <2>1, RankInjective
<1>5. f \in Injection(K, 1..Cardinality(K))
  BY <1>3, <1>4 DEF Injection, IsInjective
<1>6. IsFiniteSet(1..Cardinality(K))
      /\ Cardinality(1..Cardinality(K)) = Cardinality(K)
  BY <1>2, FS_Interval
<1> HIDE DEF f
<1>7. f \in Surjection(K, 1..Cardinality(K))
  BY <1>5, <1>6, FS_Injection
<1> USE DEF f
<1> QED
  BY <1>7 DEF Surjection

(* KeepAt returns the values at the positions kept, each once.             *)
LEMMA KeepAtProperties ==
    ASSUME NEW S, NEW s \in Seq(S), NEW K \in SUBSET DOMAIN s
    PROVE  /\ KeepAt(s, K) \in Seq(S)
           /\ Range(KeepAt(s, K)) = {s[k] : k \in K}
           /\ IsInjective(s) => IsInjective(KeepAt(s, K))
<1> DEFINE N == Cardinality(K)
           At(r) == CHOOSE k \in K : Rank(K, k) = r
<1>1. Len(s) \in Nat /\ DOMAIN s = 1..Len(s) /\ K \in SUBSET (1..Len(s))
  BY LenProperties
<1>2. N \in Nat
  <2>1. IsFiniteSet(1..Len(s))
    BY <1>1, FS_Interval
  <2> QED
    BY <1>1, <2>1, FS_Subset, FS_CardinalityType
<1>3. \A r \in 1..N : At(r) \in K /\ Rank(K, At(r)) = r
  BY <1>1, RankOnto
<1>4. \A k \in K : Rank(K, k) \in 1..N /\ At(Rank(K, k)) = k
  <2> SUFFICES ASSUME NEW k \in K
               PROVE  Rank(K, k) \in 1..N /\ At(Rank(K, k)) = k
    OBVIOUS
  <2>1. Rank(K, k) \in 1..N
    BY <1>1, RankRange
  <2> DEFINE j == At(Rank(K, k))
  <2>2. j \in K /\ Rank(K, j) = Rank(K, k)
    BY <2>1, <1>3
  <2> HIDE DEF j
  <2>4. j = k
    BY <1>1, <2>2, RankInjective
  <2> QED
    BY <2>1, <2>4 DEF j
<1> HIDE DEF At
<1>5. KeepAt(s, K) = [r \in 1..N |-> s[At(r)]]
  BY DEF KeepAt, At
<1>6. \A r \in 1..N : s[At(r)] \in S
  BY <1>1, <1>3, ElementOfSeq
<1>7. KeepAt(s, K) \in [1..N -> S]
  BY <1>5, <1>6
<1>8. KeepAt(s, K) \in Seq(S)
  BY <1>2, <1>7, SeqDef
<1>9. Range(KeepAt(s, K)) = {s[k] : k \in K}
  BY <1>3, <1>4, <1>5 DEF Range
<1>10. ASSUME IsInjective(s) PROVE IsInjective(KeepAt(s, K))
  BY <1>1, <1>3, <1>5, <1>10 DEF IsInjective
<1> QED
  BY <1>8, <1>9, <1>10

(* Entries below the first position that is dropped stay where they are.   *)
LEMMA KeepAtPrefix ==
    ASSUME NEW S, NEW s \in Seq(S), NEW K \in SUBSET DOMAIN s,
           NEW i \in Nat, 1..i \subseteq K
    PROVE  /\ 1..i \subseteq DOMAIN KeepAt(s, K)
           /\ \A k \in 1..i : KeepAt(s, K)[k] = s[k]
<1>1. Len(s) \in Nat /\ DOMAIN s = 1..Len(s) /\ K \in SUBSET (1..Len(s))
  BY LenProperties
<1> SUFFICES ASSUME NEW k \in 1..i
             PROVE  k \in DOMAIN KeepAt(s, K) /\ KeepAt(s, K)[k] = s[k]
  OBVIOUS
<1>2. {j \in K : j <= k} = 1..k
  BY <1>1
<1>3. Rank(K, k) = k
  <2>1. k \in Int /\ k >= 1
    OBVIOUS
  <2>2. Cardinality(1..k) = k
    BY <2>1, FS_Interval
  <2> QED
    BY <1>2, <2>2 DEF Rank
<1>4. k \in K /\ k \in 1..Cardinality(K)
  BY <1>1, <1>3, RankRange
<1> DEFINE j == CHOOSE m \in K : Rank(K, m) = k
<1>5. j \in K /\ Rank(K, j) = k
  BY <1>3, <1>4
<1> HIDE DEF j
<1>7. j = k
  BY <1>1, <1>3, <1>4, <1>5, RankInjective
<1> QED
  BY <1>4, <1>7 DEF KeepAt, j

(* The removal loop leaves exactly the entries whose value was not asked   *)
(* to go, every one of them and in an array that still has no duplicates   *)
(* if it had none.                                                         *)
THEOREM RemoveAllProperties ==
    ASSUME NEW S, NEW s \in Seq(S), NEW V
    PROVE  /\ RemoveAll(s, V) \in Seq(S)
           /\ Range(RemoveAll(s, V)) = Range(s) \ V
           /\ IsInjective(s) => IsInjective(RemoveAll(s, V))
<1> DEFINE K == {k \in DOMAIN s : s[k] \notin V}
<1>1. K \in SUBSET DOMAIN s
  OBVIOUS
<1>2. {s[k] : k \in K} = Range(s) \ V
  BY DEF Range
<1> HIDE DEF K
<1>3. /\ KeepAt(s, K) \in Seq(S)
      /\ Range(KeepAt(s, K)) = {s[k] : k \in K}
      /\ IsInjective(s) => IsInjective(KeepAt(s, K))
  BY <1>1, KeepAtProperties
<1> QED
  BY <1>2, <1>3 DEF RemoveAll, K

(* It does not move the entries before the first one it removes.           *)
THEOREM RemoveAllPrefix ==
    ASSUME NEW S, NEW s \in Seq(S), NEW V, NEW i \in DOMAIN s,
           \A k \in 1..i : s[k] \notin V
    PROVE  /\ 1..i \subseteq DOMAIN RemoveAll(s, V)
           /\ \A k \in 1..i : RemoveAll(s, V)[k] = s[k]
<1> DEFINE K == {k \in DOMAIN s : s[k] \notin V}
<1>1. DOMAIN s = 1..Len(s) /\ Len(s) \in Nat
  BY LenProperties
<1>2. K \in SUBSET DOMAIN s /\ i \in Nat /\ 1..i \subseteq K
  BY <1>1
<1> HIDE DEF K
<1>3. /\ 1..i \subseteq DOMAIN KeepAt(s, K)
      /\ \A k \in 1..i : KeepAt(s, K)[k] = s[k]
  BY <1>2, KeepAtPrefix
<1> QED
  BY <1>3 DEF RemoveAll, K

(* array_remove_pos on an array without duplicates removes one value, and  *)
(* moves none of the entries before its own.                               *)
THEOREM RemoveAtProperties ==
    ASSUME NEW S, NEW s \in Seq(S), NEW i \in DOMAIN s
    PROVE  /\ RemoveAt(s, i) \in Seq(S)
           /\ Len(RemoveAt(s, i)) = Len(s) - 1
           /\ \A k \in 1..(Len(s) - 1) :
                  RemoveAt(s, i)[k] = IF k < i THEN s[k] ELSE s[k + 1]
<1> DEFINE n == Len(s)
           a == SubSeq(s, 1, i - 1)
           b == SubSeq(s, i + 1, n)
<1>1. n \in Nat /\ DOMAIN s = 1..n /\ s \in [1..n -> S]
  BY LenProperties
<1>2. i \in Int /\ 1 <= i /\ i <= n
  BY <1>1
<1> HIDE DEF n
<1>3. /\ a \in Seq(S) /\ Len(a) = i - 1
      /\ \A k \in 1..(i - 1) : a[k] = s[k]
  BY <1>1, <1>2, SubSeqProperties
<1>4. /\ b \in Seq(S)
      /\ Len(b) = IF i + 1 <= n THEN n - (i + 1) + 1 ELSE 0
      /\ \A k \in 1..(n - (i + 1) + 1) : b[k] = s[(i + 1) + k - 1]
  <2>1. i + 1 \in Int /\ n \in Int /\ \A k \in (i + 1)..n : s[k] \in S
    BY <1>1, <1>2
  <2> QED
    BY <2>1, SubSeqProperties
<1> HIDE DEF a, b
<1>5. Len(b) = n - i /\ \A k \in 1..(n - i) : b[k] = s[i + k]
  BY <1>1, <1>2, <1>4
<1>6. /\ a \o b \in Seq(S)
      /\ Len(a \o b) = Len(a) + Len(b)
      /\ \A k \in 1..(Len(a) + Len(b)) :
             (a \o b)[k] = IF k <= Len(a) THEN a[k] ELSE b[k - Len(a)]
  BY <1>3, <1>4, ConcatProperties
<1>7. Len(a) + Len(b) = n - 1
  BY <1>1, <1>2, <1>3, <1>5
<1>8. ASSUME NEW k \in 1..(n - 1)
      PROVE  (a \o b)[k] = IF k < i THEN s[k] ELSE s[k + 1]
  <2>1. (a \o b)[k] = IF k <= i - 1 THEN a[k] ELSE b[k - (i - 1)]
    BY <1>3, <1>6, <1>7
  <2>2. CASE k < i
    BY <2>1, <2>2, <1>2, <1>3
  <2>3. CASE k >= i
    <3>1. k - (i - 1) \in 1..(n - i) /\ i + (k - (i - 1)) = k + 1
      BY <2>3, <1>1, <1>2
    <3>2. b[k - (i - 1)] = s[k + 1]
      BY <3>1, <1>5
    <3> QED
      BY <2>1, <2>3, <3>2, <1>2
  <2>4. k < i \/ k >= i
    BY <1>2
  <2> QED
    BY <2>2, <2>3, <2>4
<1> QED
  BY <1>6, <1>7, <1>8 DEF RemoveAt, a, b, n

(* In an array without duplicates, what is not the value that was removed  *)
(* is there exactly if it was.                                             *)
THEOREM RemoveAtOfDistinct ==
    ASSUME NEW S, NEW s \in Seq(S), NEW i \in DOMAIN s, IsInjective(s)
    PROVE  /\ IsInjective(RemoveAt(s, i))
           /\ Range(RemoveAt(s, i)) = Range(s) \ {s[i]}
<1> DEFINE t == RemoveAt(s, i)
<1>1. Len(s) \in Nat /\ DOMAIN s = 1..Len(s)
  BY LenProperties
<1>2. /\ t \in Seq(S) /\ Len(t) = Len(s) - 1
      /\ \A k \in 1..(Len(s) - 1) : t[k] = IF k < i THEN s[k] ELSE s[k + 1]
  BY RemoveAtProperties
<1> HIDE DEF t
<1>3. DOMAIN t = 1..(Len(s) - 1)
  BY <1>2, LenProperties
<1>4. IsInjective(t)
  <2> SUFFICES ASSUME NEW j \in 1..(Len(s) - 1), NEW k \in 1..(Len(s) - 1), t[j] = t[k]
               PROVE  j = k
    BY <1>3 DEF IsInjective
  <2> DEFINE at(m) == IF m < i THEN m ELSE m + 1
  <2>1. at(j) \in DOMAIN s /\ at(k) \in DOMAIN s
    BY <1>1
  <2>2. t[j] = s[at(j)] /\ t[k] = s[at(k)]
    BY <1>2
  <2>3. at(j) = at(k)
    BY <2>1, <2>2 DEF IsInjective
  <2> QED
    BY <2>3, <1>1
<1>5. Range(t) \subseteq Range(s) \ {s[i]}
  BY <1>1, <1>2, <1>3 DEF Range, IsInjective
<1>6. ASSUME NEW k \in DOMAIN s, k # i PROVE s[k] \in Range(t)
  <2>1. CASE k < i
    BY <1>1, <1>2, <1>3, <2>1 DEF Range
  <2>2. CASE k > i
    <3>1. k - 1 \in DOMAIN t /\ t[k - 1] = s[k]
      BY <1>1, <1>2, <1>3, <2>2
    <3> QED
      BY <3>1 DEF Range
  <2> QED
    BY <1>1, <1>6, <2>1, <2>2
<1>7. Range(s) \ {s[i]} \subseteq Range(t)
  BY <1>6 DEF Range
<1> QED
  BY <1>4, <1>5, <1>7 DEF t

(* InsertAt puts one value before position i and moves those from i on.    *)
THEOREM InsertAtProperties ==
    ASSUME NEW S, NEW s \in Seq(S), NEW i \in 1..(Len(s) + 1), NEW e \in S
    PROVE  /\ InsertAt(s, i, e) \in Seq(S)
           /\ Len(InsertAt(s, i, e)) = Len(s) + 1
           /\ \A k \in 1..(Len(s) + 1) :
                  InsertAt(s, i, e)[k] =
                      IF k < i THEN s[k] ELSE IF k = i THEN e ELSE s[k - 1]
<1> DEFINE n == Len(s)
           a == SubSeq(s, 1, i - 1)
           b == SubSeq(s, i, n)
           c == a \o <<e>>
<1>1. n \in Nat /\ DOMAIN s = 1..n /\ s \in [1..n -> S] /\ i \in Nat /\ 1 <= i /\ i <= n + 1
  BY LenProperties
<1> HIDE DEF n
<1>2. a \in Seq(S) /\ Len(a) = i - 1 /\ \A k \in 1..(i - 1) : a[k] = s[k]
  <2>1. 1 \in Int /\ i - 1 \in Int /\ \A k \in 1..(i - 1) : s[k] \in S
    BY <1>1
  <2> QED
    BY <1>1, <2>1, SubSeqProperties
<1>3. /\ b \in Seq(S) /\ Len(b) = n - i + 1
      /\ \A k \in 1..(n - i + 1) : b[k] = s[i + k - 1]
  <2>1. i \in Int /\ n \in Int /\ \A k \in i..n : s[k] \in S
    BY <1>1
  <2>2. /\ b \in Seq(S) /\ Len(b) = IF i <= n THEN n - i + 1 ELSE 0
        /\ \A k \in 1..(n - i + 1) : b[k] = s[i + k - 1]
    BY <2>1, SubSeqProperties
  <2> QED
    BY <1>1, <2>2
<1> HIDE DEF a, b
<1>4. <<e>> \in Seq(S) /\ Len(<<e>>) = 1 /\ <<e>>[1] = e
  OBVIOUS
<1>5. /\ c \in Seq(S) /\ Len(c) = i
      /\ \A k \in 1..i : c[k] = IF k <= i - 1 THEN a[k] ELSE <<e>>[k - (i - 1)]
  BY <1>1, <1>2, <1>4, ConcatProperties
<1>6. \A k \in 1..i : c[k] = IF k < i THEN s[k] ELSE e
  <2> SUFFICES ASSUME NEW k \in 1..i PROVE c[k] = IF k < i THEN s[k] ELSE e
    OBVIOUS
  <2>1. CASE k < i
    <3>1. k <= i - 1 /\ k \in 1..(i - 1)
      BY <1>1, <2>1
    <3>2. c[k] = a[k] /\ a[k] = s[k]
      BY <1>2, <1>5, <3>1
    <3> QED
      BY <2>1, <3>2
  <2>2. CASE k = i
    <3>1. i - (i - 1) = 1 /\ ~(i <= i - 1) /\ i \in 1..i /\ ~(i < i)
      BY <1>1
    <3>2. c[i] = <<e>>[1]
      BY <1>5, <3>1
    <3> QED
      BY <1>4, <2>2, <3>1, <3>2
  <2>3. k < i \/ k = i
    BY <1>1
  <2> QED
    BY <2>1, <2>2, <2>3, Zenon
<1> HIDE DEF c
<1>7. /\ c \o b \in Seq(S) /\ Len(c \o b) = n + 1
      /\ \A k \in 1..(n + 1) : (c \o b)[k] = IF k <= i THEN c[k] ELSE b[k - i]
  <2>1. /\ c \o b \in Seq(S) /\ Len(c \o b) = Len(c) + Len(b)
        /\ \A k \in 1..(Len(c) + Len(b)) :
               (c \o b)[k] = IF k <= Len(c) THEN c[k] ELSE b[k - Len(c)]
    BY <1>3, <1>5, ConcatProperties
  <2>2. Len(c) + Len(b) = n + 1
    BY <1>1, <1>3, <1>5
  <2> QED
    BY <1>5, <2>1, <2>2
<1>8. ASSUME NEW k \in 1..(n + 1)
      PROVE  (c \o b)[k] = IF k < i THEN s[k] ELSE IF k = i THEN e ELSE s[k - 1]
  <2>1. CASE k <= i
    <3>1. k \in 1..i
      BY <1>1, <2>1
    <3>2. (c \o b)[k] = c[k] /\ c[k] = IF k < i THEN s[k] ELSE e
      BY <1>6, <1>7, <2>1, <3>1
    <3>3. ~(k < i) => k = i
      BY <1>1, <2>1
    <3> QED
      BY <3>2, <3>3, Zenon
  <2>2. CASE k > i
    <3>1. k - i \in 1..(n - i + 1) /\ i + (k - i) - 1 = k - 1
      BY <1>1, <2>2
    <3>2. b[k - i] = s[k - 1]
      BY <1>3, <3>1
    <3>3. ~(k <= i) /\ ~(k < i) /\ k # i
      BY <1>1, <2>2
    <3>4. (c \o b)[k] = b[k - i]
      BY <1>7, <3>3
    <3> QED
      BY <3>2, <3>3, <3>4
  <2>3. k <= i \/ k > i
    BY <1>1
  <2> QED
    BY <2>1, <2>2, <2>3, Zenon
<1>9. InsertAt(s, i, e) = c \o b
  BY DEF InsertAt, a, b, c, n
<1> QED
  BY <1>7, <1>8, <1>9 DEF n
(* Keeping one more position, after the others, appends its value.         *)
LEMMA KeepAtAppend ==
    ASSUME NEW S, NEW s \in Seq(S), NEW K \in SUBSET DOMAIN s,
           NEW m \in DOMAIN s, \A k \in K : k < m
    PROVE  KeepAt(s, K \cup {m}) = Append(KeepAt(s, K), s[m])
<1> DEFINE L == K \cup {m}
           N == Cardinality(K)
           At(M, r) == CHOOSE k \in M : Rank(M, k) = r
<1>1. /\ Len(s) \in Nat /\ DOMAIN s = 1..Len(s) /\ m \in Nat
      /\ K \in SUBSET (1..Len(s)) /\ L \in SUBSET (1..Len(s))
  BY LenProperties
<1>2. IsFiniteSet(K) /\ N \in Nat
  <2>1. IsFiniteSet(1..Len(s))
    BY <1>1, FS_Interval
  <2> QED
    BY <1>1, <2>1, FS_Subset, FS_CardinalityType
<1>3. m \notin K
  <2>1. ~(m < m)
    BY <1>1
  <2> QED
    BY <2>1
<1>4. Cardinality(L) = N + 1
  BY <1>2, <1>3, FS_AddElement
<1>5. ASSUME NEW k \in K PROVE Rank(L, k) = Rank(K, k)
  <2>1. k < m /\ k \in Nat
    BY <1>1
  <2>2. {j \in L : j <= k} = {j \in K : j <= k}
    BY <1>1, <2>1
  <2> QED
    BY <2>2 DEF Rank
<1>6. Rank(L, m) = N + 1
  <2>1. \A j \in L : j <= m
    BY <1>1
  <2>2. {j \in L : j <= m} = L
    BY <2>1
  <2> QED
    BY <1>4, <2>2 DEF Rank
<1>7. \A r \in 1..N : At(K, r) \in K /\ Rank(K, At(K, r)) = r
  BY <1>1, RankOnto
<1>8. \A r \in 1..(N + 1) : At(L, r) \in L /\ Rank(L, At(L, r)) = r
  <2>1. \A r \in 1..Cardinality(L) : At(L, r) \in L /\ Rank(L, At(L, r)) = r
    BY <1>1, RankOnto
  <2> QED
    BY <1>4, <2>1
<1>9. \A j \in L, k \in L : Rank(L, j) = Rank(L, k) => j = k
  BY <1>1, RankInjective
<1>10. KeepAt(s, K) \in Seq(S) /\ Len(KeepAt(s, K)) = N
       /\ \A r \in 1..N : KeepAt(s, K)[r] = s[At(K, r)]
  <2>1. KeepAt(s, K) \in Seq(S)
    BY KeepAtProperties
  <2>2. DOMAIN KeepAt(s, K) = 1..N /\ \A r \in 1..N : KeepAt(s, K)[r] = s[At(K, r)]
    BY DEF KeepAt
  <2> HIDE DEF L, N, At
  <2> QED
    BY <1>2, <2>1, <2>2, LenProperties
<1>11. KeepAt(s, L) \in Seq(S) /\ Len(KeepAt(s, L)) = N + 1
       /\ \A r \in 1..(N + 1) : KeepAt(s, L)[r] = s[At(L, r)]
  <2>1. KeepAt(s, L) \in Seq(S)
    BY <1>1, KeepAtProperties
  <2>2. DOMAIN KeepAt(s, L) = 1..Cardinality(L)
        /\ \A r \in 1..Cardinality(L) : KeepAt(s, L)[r] = s[At(L, r)]
    BY DEF KeepAt
  <2> HIDE DEF L, N, At
  <2>3. N + 1 \in Nat
    BY <1>2
  <2> QED
    BY <1>4, <2>1, <2>2, <2>3, LenProperties
<1> HIDE DEF L, N, At
<1>12. s[m] \in S
  BY <1>1, ElementOfSeq
<1>13. PICK t : t = Append(KeepAt(s, K), s[m])
  OBVIOUS
<1>14. /\ t \in Seq(S) /\ Len(t) = N + 1 /\ t[N + 1] = s[m]
       /\ \A r \in 1..N : t[r] = KeepAt(s, K)[r]
  BY <1>10, <1>12, <1>13, AppendProperties
<1>15. K \subseteq L /\ m \in L
  BY DEF L
<1>16. ASSUME NEW r \in 1..(N + 1) PROVE KeepAt(s, L)[r] = t[r]
  <2>1. CASE r \in 1..N
    <3>1. At(K, r) \in L /\ Rank(L, At(K, r)) = r
      BY <1>5, <1>7, <1>15, <2>1
    <3>2. At(L, r) = At(K, r)
      BY <1>8, <1>9, <3>1
    <3> QED
      BY <1>10, <1>11, <1>14, <2>1, <3>2
  <2>2. CASE r = N + 1
    <3>1. At(L, r) = m
      BY <1>6, <1>8, <1>9, <1>15, <2>2
    <3> QED
      BY <1>11, <1>14, <2>2, <3>1
  <2> QED
    BY <1>2, <2>1, <2>2
<1>17. KeepAt(s, L) = t
  BY <1>11, <1>14, <1>16, SeqEqual
<1> QED
  BY <1>13, <1>17 DEF L

LEMMA KeepAtNone ==
    ASSUME NEW s
    PROVE  KeepAt(s, {}) = <<>>
  BY FS_EmptySet DEF KeepAt

(* A set of naturals that is not empty has a least member.                 *)
LEMMA Smallest ==
    ASSUME NEW T \in SUBSET Nat, T # {}
    PROVE  \E t \in T : \A u \in T : t <= u
<1>1. PICK t \in T : \A u \in T : <<u, t>> \notin OpToRel(<, Nat)
  BY WFMin, NatLessThanWellFounded, Zenon
<1>2. ASSUME NEW u \in T PROVE ~(u < t)
  <2>1. <<u, t>> \in Nat \X Nat
    OBVIOUS
  <2> QED
    BY <1>1, <2>1, Zenon DEF OpToRel
<1>3. \A u \in T : t <= u
  BY <1>2
<1> QED
  BY <1>3

(* What holds of 0, and of each number after one it holds of.              *)
LEMMA Induction ==
    ASSUME NEW n \in Nat, NEW P, 0 \in P, \A k \in 1..n : k - 1 \in P => k \in P
    PROVE  \A k \in 0..n : k \in P
<1> DEFINE T == {k \in 0..n : k \notin P}
<1>1. ASSUME T # {} PROVE FALSE
  <2>1. PICK k \in T : \A j \in T : k <= j
    <3>1. T \in SUBSET Nat
      OBVIOUS
    <3> QED
      BY <1>1, <3>1, Smallest
  <2>2. k \in 1..n /\ k - 1 \in 0..n /\ k - 1 \notin T
    BY <2>1
  <2> QED
    BY <2>1, <2>2
<1> QED
  BY <1>1

(* A recursive function on 0..n whose values are in S exists: op takes a   *)
(* position and the value at the one before.                               *)
Iterate(f, b, n, op) == f[0] = b /\ \A k \in 1..n : f[k] = op[<<k, f[k - 1]>>]

LEMMA Iterates ==
    ASSUME NEW S, NEW b \in S, NEW n \in Nat, NEW op \in [(1..n) \X S -> S]
    PROVE  \E f \in [0..n -> S] : Iterate(f, b, n, op)
<1> DEFINE P == {m \in 0..n : \E f \in [0..m -> S] : Iterate(f, b, m, op)}
<1>1. 0 \in P
  <2> DEFINE g == [k \in 0..0 |-> b]
  <2>1. g \in [0..0 -> S] /\ g[0] = b /\ 0 \in 0..n
    OBVIOUS
  <2> HIDE DEF g
  <2>2. Iterate(g, b, 0, op)
    BY <2>1 DEF Iterate
  <2> QED
    BY <2>1, <2>2
<1>2. ASSUME NEW m \in 1..n, m - 1 \in P PROVE m \in P
  <2>1. PICK f \in [0..(m - 1) -> S] : Iterate(f, b, m - 1, op)
    BY <1>2
  <2>2. op[<<m, f[m - 1]>>] \in S
    BY <2>1
  <2> DEFINE g == [k \in 0..m |-> IF k = m THEN op[<<m, f[m - 1]>>] ELSE f[k]]
  <2>3. g \in [0..m -> S]
    BY <2>2
  <2>4. \A k \in 0..(m - 1) : k \in 0..m /\ k # m /\ g[k] = f[k]
    OBVIOUS
  <2>5. g[m] = op[<<m, f[m - 1]>>]
    OBVIOUS
  <2> HIDE DEF g
  <2>6. g[0] = b
    BY <2>1, <2>4 DEF Iterate
  <2>7. ASSUME NEW k \in 1..m PROVE g[k] = op[<<k, g[k - 1]>>]
    <3>1. k - 1 \in 0..(m - 1) /\ g[k - 1] = f[k - 1]
      BY <2>4
    <3>2. CASE k = m
      BY <2>5, <3>1, <3>2
    <3>3. CASE k # m
      <4>1. k \in 1..(m - 1) /\ k \in 0..(m - 1)
        BY <3>3
      <4> QED
        BY <2>1, <2>4, <3>1, <4>1 DEF Iterate
    <3> QED
      BY <3>2, <3>3
  <2> QED
    BY <2>3, <2>6, <2>7 DEF Iterate
<1> HIDE DEF P
<1>3. n \in P
  BY <1>1, <1>2, Induction
<1> QED
  BY <1>3 DEF P
=============================================================================
