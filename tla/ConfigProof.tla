---------------------------- MODULE ConfigProof ----------------------------
(* Theorems about Config: its types, that it owns each value in memory,    *)
(* that a load merges files in their order, and that what is saved is what *)
(* is loaded back.                                                         *)
EXTENDS Config, ArraySeqProof

----------------------------------------------------------------------------
(* Dictionaries: what Put does to what Lookup finds.                       *)

Dict(Names, Values) ==
    {d \in Seq([name : Names, value : Values]) :
         \A j, k \in DOMAIN d : d[j].name = d[k].name => j = k}

LEMMA EntryAt ==
    ASSUME NEW N, NEW V, NEW d \in Dict(N, V)
    PROVE  /\ d \in Seq([name : N, value : V])
           /\ Len(d) \in Nat /\ DOMAIN d = 1..Len(d)
           /\ \A k \in DOMAIN d : /\ d[k] \in [name : N, value : V]
                                  /\ d[k].name \in N /\ d[k].value \in V
                                  /\ d[k].name \in NamesOf(d)
           /\ \A j, k \in DOMAIN d : d[j].name = d[k].name => j = k
<1>1. d \in Seq([name : N, value : V])
  BY DEF Dict
<1>2. Len(d) \in Nat /\ DOMAIN d = 1..Len(d)
  BY <1>1, LenProperties
<1>3. ASSUME NEW k \in DOMAIN d
      PROVE  /\ d[k] \in [name : N, value : V] /\ d[k].name \in N /\ d[k].value \in V
             /\ d[k].name \in NamesOf(d)
  <2>1. d[k] \in [name : N, value : V]
    BY <1>1, <1>2, LenProperties
  <2>2. d[k].name \in NamesOf(d)
    BY DEF NamesOf
  <2> QED
    BY <2>1, <2>2
<1> QED
  BY <1>1, <1>2, <1>3 DEF Dict

LEMMA LookupAt ==
    ASSUME NEW N, NEW V, NEW d \in Dict(N, V), NEW k \in DOMAIN d
    PROVE  Lookup(d, d[k].name) = d[k].value
<1>1. PICK j : j = CHOOSE i \in DOMAIN d : d[i].name = d[k].name
  OBVIOUS
<1>2. j \in DOMAIN d /\ d[j].name = d[k].name
  BY <1>1
<1>3. j = k
  BY <1>2, EntryAt
<1>4. d[k].name \in NamesOf(d)
  BY EntryAt
<1> QED
  BY <1>1, <1>3, <1>4 DEF Lookup

LEMMA LookupNamed ==
    ASSUME NEW N, NEW V, NEW d \in Dict(N, V), NEW name \in NamesOf(d)
    PROVE  \E k \in DOMAIN d : d[k].name = name /\ Lookup(d, name) = d[k].value
<1>1. PICK k \in DOMAIN d : d[k].name = name
  BY DEF NamesOf
<1> QED
  BY <1>1, LookupAt

LEMMA LookupOther ==
    ASSUME NEW d, NEW name, name \notin NamesOf(d)
    PROVE  Lookup(d, name) = NULL
  BY DEF Lookup

LEMMA LookupValue ==
    ASSUME NEW N, NEW V, NEW d \in Dict(N, V), NEW name
    PROVE  Lookup(d, name) \in V \cup {NULL}
<1>1. CASE name \in NamesOf(d)
  <2>1. PICK k \in DOMAIN d : Lookup(d, name) = d[k].value
    BY <1>1, LookupNamed
  <2>2. d[k].value \in V
    BY EntryAt
  <2> QED
    BY <2>1, <2>2
<1>2. CASE name \notin NamesOf(d)
  BY <1>2, LookupOther
<1> QED
  BY <1>1, <1>2

(* Two dictionaries with the same entries under a name have the same value *)
(* there.                                                                  *)
LEMMA SameLookup ==
    ASSUME NEW N, NEW V, NEW W, NEW d \in Dict(N, V), NEW e \in Dict(N, W), NEW name,
           \A k \in DOMAIN d : d[k].name = name =>
               \E j \in DOMAIN e : e[j].name = name /\ e[j].value = d[k].value,
           name \in NamesOf(e) => name \in NamesOf(d)
    PROVE  Lookup(e, name) = Lookup(d, name)
<1>1. CASE name \in NamesOf(d)
  <2>1. PICK k \in DOMAIN d : d[k].name = name /\ Lookup(d, name) = d[k].value
    BY <1>1, LookupNamed
  <2>2. PICK j \in DOMAIN e : e[j].name = name /\ e[j].value = d[k].value
    BY <2>1
  <2>3. Lookup(e, e[j].name) = e[j].value
    BY LookupAt
  <2> QED
    BY <2>1, <2>2, <2>3
<1>2. CASE name \notin NamesOf(d)
  BY <1>2, LookupOther
<1> QED
  BY <1>1, <1>2

LEMMA EmptyDict ==
    ASSUME NEW N, NEW V
    PROVE  <<>> \in Dict(N, V) /\ NamesOf(<<>>) = {} /\ \A n : Lookup(<<>>, n) = NULL
<1>1. <<>> \in Seq([name : N, value : V]) /\ DOMAIN <<>> = {}
  BY EmptySeq
<1>2. NamesOf(<<>>) = {}
  BY <1>1 DEF NamesOf
<1>3. <<>> \in Dict(N, V)
  BY <1>1 DEF Dict
<1> QED
  BY <1>2, <1>3 DEF Lookup

LEMMA PutAgain ==
    ASSUME NEW N, NEW V, NEW d \in Dict(N, V), NEW n \in NamesOf(d), NEW x \in V
    PROVE  /\ Replaced(d, n, x) \in Dict(N, V)
           /\ NamesOf(Replaced(d, n, x)) = NamesOf(d)
           /\ Lookup(Replaced(d, n, x), n) = x
           /\ \A m : m # n => Lookup(Replaced(d, n, x), m) = Lookup(d, m)
<1>1. PICK e : e = Replaced(d, n, x)
  OBVIOUS
<1>2. /\ d \in Seq([name : N, value : V]) /\ Len(d) \in Nat /\ DOMAIN d = 1..Len(d)
      /\ \A k \in DOMAIN d : d[k] \in [name : N, value : V] /\ d[k].name \in NamesOf(d)
      /\ \A j, k \in DOMAIN d : d[j].name = d[k].name => j = k
  BY EntryAt
<1>3. e = [k \in 1..Len(d) |->
              IF d[k].name = n THEN [d[k] EXCEPT !.value = x] ELSE d[k]]
  BY <1>1, <1>2 DEF Replaced
<1>4. \A k \in 1..Len(d) :
          /\ e[k] \in [name : N, value : V]
          /\ e[k].name = d[k].name
          /\ e[k].value = IF d[k].name = n THEN x ELSE d[k].value
  BY <1>2, <1>3
<1>5. e \in Seq([name : N, value : V]) /\ DOMAIN e = DOMAIN d
  <2>1. e \in [1..Len(d) -> [name : N, value : V]]
    BY <1>3, <1>4
  <2> QED
    BY <2>1, <1>2, SeqDef
<1>6. e \in Dict(N, V)
  BY <1>2, <1>4, <1>5 DEF Dict
<1>7. NamesOf(e) = NamesOf(d)
  BY <1>2, <1>4, <1>5 DEF NamesOf
<1>8. Lookup(e, n) = x
  <2>1. PICK k \in DOMAIN d : d[k].name = n
    BY DEF NamesOf
  <2>2. Lookup(e, e[k].name) = e[k].value
    BY <1>5, <1>6, <2>1, LookupAt
  <2> QED
    BY <1>2, <1>4, <2>1, <2>2
<1>9. ASSUME NEW m, m # n PROVE Lookup(e, m) = Lookup(d, m)
  <2>1. \A k \in DOMAIN d : d[k].name = m =>
            \E j \in DOMAIN e : e[j].name = m /\ e[j].value = d[k].value
    BY <1>2, <1>4, <1>5, <1>9
  <2> QED
    BY <1>6, <1>7, <2>1, SameLookup
<1> QED
  BY <1>1, <1>6, <1>7, <1>8, <1>9

LEMMA PutNew ==
    ASSUME NEW N, NEW V, NEW d \in Dict(N, V), NEW n \in N, n \notin NamesOf(d), NEW x \in V
    PROVE  /\ Append(d, [name |-> n, value |-> x]) \in Dict(N, V)
           /\ NamesOf(Append(d, [name |-> n, value |-> x])) = NamesOf(d) \cup {n}
           /\ Lookup(Append(d, [name |-> n, value |-> x]), n) = x
           /\ \A m : m # n => Lookup(Append(d, [name |-> n, value |-> x]), m) = Lookup(d, m)
<1>1. PICK r : r = [name |-> n, value |-> x]
  OBVIOUS
<1>2. r \in [name : N, value : V] /\ r.name = n /\ r.value = x
  BY <1>1
<1>3. /\ d \in Seq([name : N, value : V]) /\ Len(d) \in Nat /\ DOMAIN d = 1..Len(d)
      /\ \A k \in DOMAIN d : d[k].name \in NamesOf(d)
      /\ \A j, k \in DOMAIN d : d[j].name = d[k].name => j = k
  BY EntryAt
<1>4. PICK e : e = Append(d, r)
  OBVIOUS
<1>5. /\ e \in Seq([name : N, value : V]) /\ Len(e) = Len(d) + 1
      /\ \A k \in 1..Len(d) : e[k] = d[k]
      /\ e[Len(d) + 1] = r
  BY <1>2, <1>3, <1>4, AppendProperties
<1>6. DOMAIN e = 1..(Len(d) + 1)
  BY <1>5, LenProperties
<1>7. \A k \in DOMAIN e : k \in 1..Len(d) \/ k = Len(d) + 1
  BY <1>3, <1>6
<1>8. e \in Dict(N, V)
  <2>1. ASSUME NEW j \in DOMAIN e, NEW k \in DOMAIN e, e[j].name = e[k].name PROVE j = k
    BY <1>2, <1>3, <1>5, <1>7, <2>1
  <2> QED
    BY <1>5, <2>1 DEF Dict
<1>9. DOMAIN e = DOMAIN d \cup {Len(d) + 1}
  BY <1>3, <1>6
<1>10. NamesOf(e) = NamesOf(d) \cup {n}
  BY <1>2, <1>3, <1>5, <1>9 DEF NamesOf
<1>11. Lookup(e, n) = x
  <2>1. Lookup(e, e[Len(d) + 1].name) = e[Len(d) + 1].value
    BY <1>8, <1>9, LookupAt
  <2> QED
    BY <1>2, <1>5, <2>1
<1>12. ASSUME NEW m, m # n PROVE Lookup(e, m) = Lookup(d, m)
  <2>1. \A k \in DOMAIN d : d[k].name = m =>
            \E j \in DOMAIN e : e[j].name = m /\ e[j].value = d[k].value
    BY <1>3, <1>5, <1>9
  <2> QED
    BY <1>8, <1>10, <1>12, <2>1, SameLookup
<1> QED
  BY <1>1, <1>4, <1>8, <1>10, <1>11, <1>12

LEMMA PutNothing ==
    ASSUME NEW N, NEW V, NEW d \in Dict(N, V), NEW n \in NamesOf(d)
    PROVE  /\ Without(d, n) \in Dict(N, V)
           /\ NamesOf(Without(d, n)) = NamesOf(d) \ {n}
           /\ Lookup(Without(d, n), n) = NULL
           /\ \A m : m # n => Lookup(Without(d, n), m) = Lookup(d, m)
<1>1. PICK i : i = CHOOSE k \in DOMAIN d : d[k].name = n
  OBVIOUS
<1>2. i \in DOMAIN d /\ d[i].name = n
  BY <1>1 DEF NamesOf
<1>3. /\ d \in Seq([name : N, value : V]) /\ Len(d) \in Nat /\ DOMAIN d = 1..Len(d)
      /\ \A k \in DOMAIN d : d[k].name \in NamesOf(d)
      /\ \A j, k \in DOMAIN d : d[j].name = d[k].name => j = k
  BY EntryAt
<1>4. PICK e : e = RemoveAt(d, i)
  OBVIOUS
<1>5. /\ e \in Seq([name : N, value : V]) /\ Len(e) = Len(d) - 1
      /\ \A k \in 1..(Len(d) - 1) : e[k] = IF k < i THEN d[k] ELSE d[k + 1]
  BY <1>2, <1>3, <1>4, RemoveAtProperties
<1>6. DOMAIN e = 1..(Len(d) - 1)
  BY <1>5, LenProperties
<1>7. ASSUME NEW k \in DOMAIN e
      PROVE  \E j \in DOMAIN d : /\ j # i /\ e[k] = d[j]
                                 /\ (k < i /\ j = k) \/ (k >= i /\ j = k + 1)
  <2>1. CASE k < i
    BY <1>2, <1>3, <1>5, <1>6, <2>1
  <2>2. CASE k >= i
    <3>1. k + 1 \in DOMAIN d /\ k + 1 # i /\ ~(k < i)
      BY <1>2, <1>3, <1>6, <2>2
    <3>2. e[k] = d[k + 1]
      BY <1>5, <1>6, <3>1
    <3> QED
      BY <2>2, <3>1, <3>2
  <2>3. k < i \/ k >= i
    BY <1>2, <1>3, <1>6
  <2> QED
    BY <2>1, <2>2, <2>3
<1>8. ASSUME NEW j \in DOMAIN d, j # i PROVE \E k \in DOMAIN e : e[k] = d[j]
  <2>1. CASE j < i
    <3>1. j \in DOMAIN e
      BY <1>2, <1>3, <1>6, <2>1
    <3> QED
      BY <1>5, <1>6, <2>1, <3>1
  <2>2. CASE j > i
    <3>1. j - 1 \in DOMAIN e /\ ~(j - 1 < i) /\ (j - 1) + 1 = j
      BY <1>2, <1>3, <1>6, <2>2
    <3>2. e[j - 1] = d[j]
      BY <1>5, <1>6, <3>1
    <3> QED
      BY <3>1, <3>2
  <2>3. j < i \/ j > i
    BY <1>2, <1>3, <1>8
  <2> QED
    BY <2>1, <2>2, <2>3
<1>9. e \in Dict(N, V)
  <2>1. ASSUME NEW j \in DOMAIN e, NEW k \in DOMAIN e, e[j].name = e[k].name PROVE j = k
    <3>1. PICK a \in DOMAIN d : /\ a # i /\ e[j] = d[a]
                                /\ (j < i /\ a = j) \/ (j >= i /\ a = j + 1)
      BY <1>7
    <3>2. PICK b \in DOMAIN d : /\ b # i /\ e[k] = d[b]
                                /\ (k < i /\ b = k) \/ (k >= i /\ b = k + 1)
      BY <1>7
    <3>3. a = b
      BY <1>3, <2>1, <3>1, <3>2
    <3> QED
      BY <1>2, <1>3, <1>6, <3>1, <3>2, <3>3
  <2> QED
    BY <1>5, <2>1 DEF Dict
<1>10. NamesOf(e) = NamesOf(d) \ {n}
  <2>1. ASSUME NEW m \in NamesOf(e) PROVE m \in NamesOf(d) \ {n}
    <3>1. PICK k \in DOMAIN e : e[k].name = m
      BY DEF NamesOf
    <3>2. PICK j \in DOMAIN d : j # i /\ e[k] = d[j]
      BY <1>7
    <3> QED
      BY <1>2, <1>3, <3>1, <3>2
  <2>2. ASSUME NEW m \in NamesOf(d), m # n PROVE m \in NamesOf(e)
    <3>1. PICK j \in DOMAIN d : d[j].name = m
      BY DEF NamesOf
    <3>2. PICK k \in DOMAIN e : e[k] = d[j]
      BY <1>2, <1>8, <2>2, <3>1
    <3> QED
      BY <3>1, <3>2 DEF NamesOf
  <2> QED
    BY <2>1, <2>2
<1>11. Lookup(e, n) = NULL
  BY <1>10, LookupOther
<1>12. ASSUME NEW m, m # n PROVE Lookup(e, m) = Lookup(d, m)
  <2>1. \A k \in DOMAIN d : d[k].name = m =>
            \E j \in DOMAIN e : e[j].name = m /\ e[j].value = d[k].value
    BY <1>2, <1>8, <1>12
  <2> QED
    BY <1>9, <1>10, <2>1, SameLookup
<1>13. Without(d, n) = e
  BY <1>1, <1>4 DEF Without
<1> QED
  BY <1>9, <1>10, <1>11, <1>12, <1>13

(* hash_set and mutator_set change what is found under one name, whether   *)
(* it was there before or not, with or without a value.                    *)
LEMMA PutFacts ==
    ASSUME NEW N, NEW V, NEW d \in Dict(N, V), NEW n \in N, NEW x \in V \cup {NULL},
           NULL \notin V
    PROVE  /\ Put(d, n, x) \in Dict(N, V)
           /\ NamesOf(Put(d, n, x)) = IF x = NULL THEN NamesOf(d) \ {n} ELSE NamesOf(d) \cup {n}
           /\ Lookup(Put(d, n, x), n) = x
           /\ \A m : m # n => Lookup(Put(d, n, x), m) = Lookup(d, m)
<1>1. CASE n \in NamesOf(d) /\ x # NULL
  <2>1. Put(d, n, x) = Replaced(d, n, x)
    BY <1>1 DEF Put
  <2>2. NamesOf(d) \cup {n} = NamesOf(d)
    BY <1>1
  <2> QED
    BY <1>1, <2>1, <2>2, PutAgain
<1>2. CASE n \in NamesOf(d) /\ x = NULL
  <2>1. Put(d, n, x) = Without(d, n)
    BY <1>2 DEF Put
  <2> QED
    BY <1>2, <2>1, PutNothing
<1>3. CASE n \notin NamesOf(d) /\ x # NULL
  <2>1. Put(d, n, x) = Append(d, [name |-> n, value |-> x])
    BY <1>3 DEF Put
  <2> QED
    BY <1>3, <2>1, PutNew
<1>4. CASE n \notin NamesOf(d) /\ x = NULL
  <2>1. Put(d, n, x) = d
    BY <1>4 DEF Put
  <2>2. NamesOf(d) \ {n} = NamesOf(d)
    BY <1>4
  <2> QED
    BY <1>4, <2>1, <2>2, LookupOther
<1> QED
  BY <1>1, <1>2, <1>3, <1>4
----------------------------------------------------------------------------
(* A configuration as the places of its values: for each variable of each  *)
(* section the address of its value, NULL when it has none.                *)

Dicts == Dict(Variables, Addrs)
Configs == Dict(Sections, Dicts)

DictIn(c, section) == IF section \in NamesOf(c) THEN Lookup(c, section) ELSE <<>>
Places(c) == [k \in Keys |-> Lookup(DictIn(c, k[1]), k[2])]

LEMMA NullFacts == NULL \notin Addrs /\ NULL \notin Strings /\ NULL \notin Dicts
  BY NameAssumption, FileAssumption DEF Dicts, Dict, SectionDicts

LEMMA KeyFacts ==
    ASSUME NEW k \in Keys
    PROVE  k[1] \in Sections /\ k[2] \in Variables /\ k = <<k[1], k[2]>>
  BY DEF Keys

LEMMA DictInFacts ==
    ASSUME NEW c \in Configs, NEW s \in Sections
    PROVE  DictIn(c, s) \in Dicts
<1>1. CASE s \in NamesOf(c)
  <2>1. PICK k \in DOMAIN c : c[k].name = s /\ Lookup(c, s) = c[k].value
    BY <1>1, LookupNamed DEF Configs
  <2>2. c[k].value \in Dicts
    BY EntryAt DEF Configs
  <2> QED
    BY <1>1, <2>1, <2>2 DEF DictIn
<1>2. CASE s \notin NamesOf(c)
  <2>1. <<>> \in Dicts
    BY EmptyDict DEF Dicts
  <2> QED
    BY <1>2, <2>1 DEF DictIn
<1> QED
  BY <1>1, <1>2

LEMMA PlacesFacts ==
    ASSUME NEW c \in Configs
    PROVE  Places(c) \in [Keys -> Addrs \cup {NULL}]
<1>1. ASSUME NEW k \in Keys PROVE Lookup(DictIn(c, k[1]), k[2]) \in Addrs \cup {NULL}
  <2>1. DictIn(c, k[1]) \in Dicts
    BY DictInFacts, KeyFacts
  <2> QED
    BY <2>1, LookupValue DEF Dicts
<1> QED
  BY <1>1 DEF Places

LEMMA DictInPut ==
    ASSUME NEW c \in Configs, NEW s \in Sections, NEW d \in Dicts
    PROVE  /\ Put(c, s, d) \in Configs
           /\ DictIn(Put(c, s, d), s) = d
           /\ \A t \in Sections : t # s => DictIn(Put(c, s, d), t) = DictIn(c, t)
<1>1. NULL \notin Dicts /\ d # NULL /\ d \in Dicts \cup {NULL}
  BY NullFacts
<1>2. PICK e : e = Put(c, s, d)
  OBVIOUS
<1>3. c \in Dict(Sections, Dicts)
  BY DEF Configs
<1>4. /\ e \in Dict(Sections, Dicts)
      /\ NamesOf(e) = IF d = NULL THEN NamesOf(c) \ {s} ELSE NamesOf(c) \cup {s}
      /\ Lookup(e, s) = d
      /\ \A m : m # s => Lookup(e, m) = Lookup(c, m)
  BY <1>1, <1>2, <1>3, PutFacts
<1>5. NamesOf(e) = NamesOf(c) \cup {s}
  BY <1>1, <1>4
<1> QED
  BY <1>2, <1>4, <1>5 DEF Configs, DictIn

(* The places, or the settings, with one of them changed.                  *)
Changed(p, k, x) == [p EXCEPT ![k] = x]

(* config_set: one place changes.                                          *)
LEMMA PutPlaces ==
    ASSUME NEW c \in Configs, NEW s \in Sections, NEW v \in Variables,
           NEW x \in Addrs \cup {NULL}
    PROVE  /\ Put(c, s, Put(DictIn(c, s), v, x)) \in Configs
           /\ Places(Put(c, s, Put(DictIn(c, s), v, x))) =
                  Changed(Places(c), <<s, v>>, x)
<1>1. PICK d \in Dicts : d = DictIn(c, s)
  BY DictInFacts
<1>2. PICK e : e = Put(d, v, x)
  OBVIOUS
<1>3. /\ e \in Dicts
      /\ Lookup(e, v) = x
      /\ \A m : m # v => Lookup(e, m) = Lookup(d, m)
  <2>1. d \in Dict(Variables, Addrs) /\ NULL \notin Addrs
    BY NullFacts DEF Dicts
  <2>2. /\ Put(d, v, x) \in Dict(Variables, Addrs)
        /\ Lookup(Put(d, v, x), v) = x
        /\ \A m : m # v => Lookup(Put(d, v, x), m) = Lookup(d, m)
    BY <2>1, PutFacts
  <2> QED
    BY <1>2, <2>2 DEF Dicts
<1>4. PICK f : f = Put(c, s, e)
  OBVIOUS
<1>5. /\ f \in Configs
      /\ DictIn(f, s) = e
      /\ \A t \in Sections : t # s => DictIn(f, t) = DictIn(c, t)
  BY <1>3, <1>4, DictInPut
<1>6. ASSUME NEW k \in Keys
      PROVE  Places(f)[k] = IF k = <<s, v>> THEN x ELSE Places(c)[k]
  <2>1. k[1] \in Sections /\ k[2] \in Variables /\ k = <<k[1], k[2]>>
    BY KeyFacts
  <2>2. /\ Places(f)[k] = Lookup(DictIn(f, k[1]), k[2])
        /\ Places(c)[k] = Lookup(DictIn(c, k[1]), k[2])
    BY DEF Places
  <2>3. CASE k[1] = s /\ k[2] = v
    BY <1>3, <1>5, <2>1, <2>2, <2>3
  <2>4. CASE k[1] = s /\ k[2] # v
    <3>1. k # <<s, v>>
      BY <2>4
    <3> QED
      BY <1>1, <1>3, <1>5, <2>2, <2>4, <3>1
  <2>5. CASE k[1] # s
    <3>1. k # <<s, v>>
      BY <2>5
    <3> QED
      BY <1>5, <2>1, <2>2, <2>5, <3>1
  <2> QED
    BY <2>3, <2>4, <2>5
<1>7. Places(f) = Changed(Places(c), <<s, v>>, x)
  <2>1. \A g : Places(g) = [k \in Keys |-> Places(g)[k]]
    BY DEF Places
  <2>2. Places(c) = [k \in Keys |-> Places(c)[k]] /\ Places(f) = [k \in Keys |-> Places(f)[k]]
    BY <2>1
  <2> QED
    BY <1>6, <2>2 DEF Changed
<1> QED
  BY <1>1, <1>2, <1>4, <1>5, <1>7

(* The creation of a missing section changes no place.                     *)
LEMMA SectionPlaces ==
    ASSUME NEW c \in Configs, NEW s \in Sections
    PROVE  Put(c, s, DictIn(c, s)) \in Configs /\ Places(Put(c, s, DictIn(c, s))) = Places(c)
<1>1. PICK d \in Dicts : d = DictIn(c, s)
  BY DictInFacts
<1>2. PICK f : f = Put(c, s, d)
  OBVIOUS
<1>3. f \in Configs /\ \A t \in Sections : DictIn(f, t) = DictIn(c, t)
  BY <1>1, <1>2, DictInPut
<1>4. Places(f) = Places(c)
  BY <1>3, KeyFacts DEF Places
<1> QED
  BY <1>1, <1>2, <1>3, <1>4

LEMMA NoPlaces == <<>> \in Configs /\ Places(<<>>) = [k \in Keys |-> NULL]
<1>1. <<>> \in Configs /\ NamesOf(<<>>) = {} /\ \A n : Lookup(<<>>, n) = NULL
  BY EmptyDict DEF Configs
<1>2. \A s : DictIn(<<>>, s) = <<>>
  BY <1>1 DEF DictIn
<1> QED
  BY <1>1, <1>2 DEF Places

(* The values that stand in a configuration are those at its places.       *)
HeldBy(c) == UNION {HeldIn(c[i]) : i \in DOMAIN c}

LEMMA PlaceAt ==
    ASSUME NEW c \in Configs, NEW i \in DOMAIN c, NEW j \in DOMAIN c[i].value
    PROVE  /\ c[i].value \in Dicts
           /\ <<c[i].name, c[i].value[j].name>> \in Keys
           /\ c[i].value[j].value \in Addrs
           /\ Places(c)[<<c[i].name, c[i].value[j].name>>] = c[i].value[j].value
<1>1. PICK s, d : s = c[i].name /\ d = c[i].value
  OBVIOUS
<1>2. s \in Sections /\ d \in Dicts /\ s \in NamesOf(c)
  BY <1>1, EntryAt DEF Configs
<1>3. PICK v, a : v = d[j].name /\ a = d[j].value
  OBVIOUS
<1>4. v \in Variables /\ a \in Addrs
  BY <1>1, <1>2, <1>3, EntryAt DEF Dicts
<1>5. <<s, v>> \in Keys
  BY <1>2, <1>4 DEF Keys
<1>6. DictIn(c, s) = d
  <2>1. Lookup(c, s) = d
    BY <1>1, LookupAt DEF Configs
  <2> QED
    BY <1>2, <2>1 DEF DictIn
<1>7. Lookup(d, v) = a
  BY <1>1, <1>2, <1>3, LookupAt DEF Dicts
<1>8. Places(c)[<<s, v>>] = Lookup(DictIn(c, s), v)
  BY <1>5 DEF Places
<1> QED
  BY <1>1, <1>2, <1>3, <1>4, <1>5, <1>6, <1>7, <1>8

LEMMA PlaceFrom ==
    ASSUME NEW c \in Configs, NEW k \in Keys, Places(c)[k] # NULL
    PROVE  \E i \in DOMAIN c : \E j \in DOMAIN c[i].value :
               /\ c[i].name = k[1] /\ c[i].value[j].name = k[2]
               /\ c[i].value[j].value = Places(c)[k]
<1>1. PICK s \in Sections, v \in Variables : s = k[1] /\ v = k[2]
  BY KeyFacts
<1>2. Places(c)[k] = Lookup(DictIn(c, s), v)
  BY <1>1 DEF Places
<1>3. v \in NamesOf(DictIn(c, s))
  BY <1>2, LookupOther
<1>4. s \in NamesOf(c)
  <2>1. CASE s \notin NamesOf(c)
    <3>1. DictIn(c, s) = <<>>
      BY <2>1 DEF DictIn
    <3>2. NamesOf(<<>>) = {}
      BY EmptyDict
    <3> QED
      BY <1>3, <3>1, <3>2
  <2> QED
    BY <2>1
<1>5. PICK i \in DOMAIN c : c[i].name = s /\ Lookup(c, s) = c[i].value
  BY <1>4, LookupNamed DEF Configs
<1>6. DictIn(c, s) = c[i].value
  BY <1>4, <1>5 DEF DictIn
<1>7. c[i].value \in Dicts
  BY <1>6, DictInFacts
<1>8. PICK d : d = c[i].value
  OBVIOUS
<1>9. PICK j \in DOMAIN d : d[j].name = v /\ Lookup(d, v) = d[j].value
  <2>1. d \in Dict(Variables, Addrs) /\ v \in NamesOf(d)
    BY <1>3, <1>6, <1>7, <1>8 DEF Dicts
  <2> QED
    BY <2>1, LookupNamed
<1> QED
  BY <1>1, <1>2, <1>5, <1>6, <1>8, <1>9

LEMMA HeldFacts ==
    ASSUME NEW c \in Configs
    PROVE  /\ HeldBy(c) \subseteq Addrs
           /\ \A a \in Addrs : a \in HeldBy(c) <=> \E k \in Keys : Places(c)[k] = a
<1>1. ASSUME NEW a \in HeldBy(c)
      PROVE  a \in Addrs /\ \E k \in Keys : Places(c)[k] = a
  <2>1. PICK i \in DOMAIN c : a \in HeldIn(c[i])
    BY DEF HeldBy
  <2>2. PICK j \in DOMAIN c[i].value : a = c[i].value[j].value
    BY <2>1 DEF HeldIn
  <2> QED
    BY <2>2, PlaceAt
<1>2. ASSUME NEW a \in Addrs, NEW k \in Keys, Places(c)[k] = a
      PROVE  a \in HeldBy(c)
  <2>1. a # NULL
    BY NullFacts
  <2>2. PICK i \in DOMAIN c : \E j \in DOMAIN c[i].value : c[i].value[j].value = a
    BY <1>2, <2>1, PlaceFrom
  <2>3. a \in HeldIn(c[i])
    BY <2>2 DEF HeldIn
  <2> QED
    BY <2>3 DEF HeldBy
<1> QED
  BY <1>1, <1>2

----------------------------------------------------------------------------
(* Ownership: the values in memory are those at the places, each at one.   *)

Owns(p, h) ==
    /\ p \in [Keys -> Addrs \cup {NULL}]
    /\ h \in [Addrs -> Strings \cup {NULL}]
    /\ \A a \in Addrs : h[a] # NULL <=> \E k \in Keys : p[k] = a
    /\ \A j, k \in Keys : p[j] = p[k] /\ p[j] # NULL => j = k

ValuesOf(p, h) == [k \in Keys |-> IF p[k] = NULL THEN NULL ELSE h[p[k]]]

(* What memory holds after a value is set, removed, or copied.             *)
HeapSet(p, h, k, a, value) ==
    [b \in Addrs |-> IF b = a THEN value ELSE IF b = p[k] THEN NULL ELSE h[b]]
HeapUnset(p, h, k) == [b \in Addrs |-> IF b = p[k] THEN NULL ELSE h[b]]
HeapCopied(h, H, moved) ==
    [a \in Addrs |-> IF a \in H THEN NULL
                     ELSE IF \E b \in H : moved[b] = a
                     THEN h[CHOOSE b \in H : moved[b] = a]
                     ELSE h[a]]
PlacesCopied(p, moved) == [k \in Keys |-> IF p[k] = NULL THEN NULL ELSE moved[p[k]]]

LEMMA ValuesOfFacts ==
    ASSUME NEW p, NEW h, Owns(p, h)
    PROVE  /\ ValuesOf(p, h) \in Settings
           /\ \A k \in Keys : ValuesOf(p, h)[k] = NULL <=> p[k] = NULL
<1>1. ASSUME NEW k \in Keys
      PROVE  /\ (IF p[k] = NULL THEN NULL ELSE h[p[k]]) \in Strings \cup {NULL}
             /\ (IF p[k] = NULL THEN NULL ELSE h[p[k]]) = NULL <=> p[k] = NULL
  <2>1. p[k] \in Addrs \cup {NULL}
    BY DEF Owns
  <2>2. CASE p[k] = NULL
    BY <2>2
  <2>3. CASE p[k] # NULL
    <3>1. p[k] \in Addrs
      BY <2>1, <2>3
    <3>2. h[p[k]] \in Strings \cup {NULL} /\ h[p[k]] # NULL
      BY <3>1 DEF Owns
    <3> QED
      BY <2>3, <3>2
  <2> QED
    BY <2>2, <2>3
<1> QED
  BY <1>1 DEF ValuesOf, Settings

(* config_set with a value: a free address takes it, the former one is     *)
(* freed.                                                                  *)
LEMMA SetOwns ==
    ASSUME NEW p, NEW h, Owns(p, h), NEW k \in Keys, NEW value \in Strings,
           NEW a \in Addrs, h[a] = NULL,
           NEW q, q = Changed(p, k, a),
           NEW g, g = HeapSet(p, h, k, a, value)
    PROVE  Owns(q, g) /\ ValuesOf(q, g) = Changed(ValuesOf(p, h), k, value)
<1>1. a # NULL /\ value # NULL
  BY NullFacts
<1>2. /\ p \in [Keys -> Addrs \cup {NULL}] /\ h \in [Addrs -> Strings \cup {NULL}]
      /\ \A b \in Addrs : h[b] # NULL <=> \E j \in Keys : p[j] = b
      /\ \A i, j \in Keys : p[i] = p[j] /\ p[i] # NULL => i = j
  BY DEF Owns
<1>3. /\ q \in [Keys -> Addrs \cup {NULL}]
      /\ \A j \in Keys : q[j] = IF j = k THEN a ELSE p[j]
  BY <1>2 DEF Changed
<1>4. /\ g \in [Addrs -> Strings \cup {NULL}]
      /\ \A b \in Addrs : g[b] = IF b = a THEN value ELSE IF b = p[k] THEN NULL ELSE h[b]
  BY <1>2 DEF HeapSet
<1>5. \A j \in Keys : p[j] # a
  BY <1>2
<1>6. ASSUME NEW b \in Addrs PROVE g[b] # NULL <=> \E j \in Keys : q[j] = b
  <2>1. CASE b = a
    BY <1>1, <1>3, <1>4, <2>1
  <2>2. CASE b # a /\ b = p[k]
    <3>1. g[b] = NULL
      BY <1>4, <2>2
    <3>2. b # NULL
      BY NullFacts
    <3>3. ASSUME NEW j \in Keys PROVE q[j] # b
      BY <1>2, <1>3, <2>2, <3>2
    <3> QED
      BY <3>1, <3>3
  <2>3. CASE b # a /\ b # p[k]
    <3>1. g[b] = h[b]
      BY <1>4, <2>3
    <3>2. \A j \in Keys : q[j] = b <=> p[j] = b
      BY <1>3, <2>3
    <3> QED
      BY <1>2, <3>1, <3>2
  <2> QED
    BY <2>1, <2>2, <2>3
<1>7. \A i, j \in Keys : q[i] = q[j] /\ q[i] # NULL => i = j
  BY <1>2, <1>3, <1>5
<1>8. ASSUME NEW j \in Keys
      PROVE  ValuesOf(q, g)[j] = IF j = k THEN value ELSE ValuesOf(p, h)[j]
  <2>1. /\ ValuesOf(q, g)[j] = IF q[j] = NULL THEN NULL ELSE g[q[j]]
        /\ ValuesOf(p, h)[j] = IF p[j] = NULL THEN NULL ELSE h[p[j]]
    BY DEF ValuesOf
  <2>2. CASE j = k
    BY <1>1, <1>3, <1>4, <2>1, <2>2
  <2>3. CASE j # k
    <3>1. q[j] = p[j]
      BY <1>3, <2>3
    <3>2. CASE p[j] = NULL
      BY <2>1, <2>3, <3>1, <3>2
    <3>3. CASE p[j] # NULL
      <4>1. p[j] \in Addrs /\ p[j] # a /\ p[j] # p[k]
        BY <1>2, <1>5, <2>3, <3>3
      <4>2. g[p[j]] = h[p[j]]
        BY <1>4, <4>1
      <4> QED
        BY <2>1, <2>3, <3>1, <3>3, <4>2
    <3> QED
      BY <3>2, <3>3
  <2> QED
    BY <2>2, <2>3
<1>9. ValuesOf(q, g) = Changed(ValuesOf(p, h), k, value)
  <2>1. /\ ValuesOf(q, g) = [j \in Keys |-> ValuesOf(q, g)[j]]
        /\ ValuesOf(p, h) = [j \in Keys |-> ValuesOf(p, h)[j]]
    BY DEF ValuesOf
  <2> QED
    BY <1>8, <2>1 DEF Changed
<1>10. Owns(q, g)
  BY <1>3, <1>4, <1>6, <1>7 DEF Owns
<1> QED
  BY <1>9, <1>10

(* config_set without a value *)
LEMMA NullOwns ==
    ASSUME NEW p, NEW h, Owns(p, h), NEW k \in Keys,
           NEW q, q = Changed(p, k, NULL),
           NEW g, g = HeapUnset(p, h, k)
    PROVE  Owns(q, g) /\ ValuesOf(q, g) = Changed(ValuesOf(p, h), k, NULL)
<1>1. NULL \notin Addrs
  BY NullFacts
<1>2. /\ p \in [Keys -> Addrs \cup {NULL}] /\ h \in [Addrs -> Strings \cup {NULL}]
      /\ \A b \in Addrs : h[b] # NULL <=> \E j \in Keys : p[j] = b
      /\ \A i, j \in Keys : p[i] = p[j] /\ p[i] # NULL => i = j
  BY DEF Owns
<1>3. /\ q \in [Keys -> Addrs \cup {NULL}]
      /\ \A j \in Keys : q[j] = IF j = k THEN NULL ELSE p[j]
  BY <1>2 DEF Changed
<1>4. /\ g \in [Addrs -> Strings \cup {NULL}]
      /\ \A b \in Addrs : g[b] = IF b = p[k] THEN NULL ELSE h[b]
  BY <1>2 DEF HeapUnset
<1>6. ASSUME NEW b \in Addrs PROVE g[b] # NULL <=> \E j \in Keys : q[j] = b
  <2>2. CASE b = p[k]
    <3>1. g[b] = NULL
      BY <1>4, <2>2
    <3>3. ASSUME NEW j \in Keys PROVE q[j] # b
      BY <1>1, <1>2, <1>3, <2>2
    <3> QED
      BY <3>1, <3>3
  <2>3. CASE b # p[k]
    <3>1. g[b] = h[b]
      BY <1>4, <2>3
    <3>2. \A j \in Keys : q[j] = b <=> p[j] = b
      BY <1>1, <1>3, <2>3
    <3> QED
      BY <1>2, <3>1, <3>2
  <2> QED
    BY <2>2, <2>3
<1>7. \A i, j \in Keys : q[i] = q[j] /\ q[i] # NULL => i = j
  BY <1>2, <1>3
<1>8. ASSUME NEW j \in Keys
      PROVE  ValuesOf(q, g)[j] = IF j = k THEN NULL ELSE ValuesOf(p, h)[j]
  <2>1. /\ ValuesOf(q, g)[j] = IF q[j] = NULL THEN NULL ELSE g[q[j]]
        /\ ValuesOf(p, h)[j] = IF p[j] = NULL THEN NULL ELSE h[p[j]]
    BY DEF ValuesOf
  <2>2. CASE j = k
    BY <1>3, <2>1, <2>2
  <2>3. CASE j # k
    <3>1. q[j] = p[j]
      BY <1>3, <2>3
    <3>2. CASE p[j] = NULL
      BY <2>1, <2>3, <3>1, <3>2
    <3>3. CASE p[j] # NULL
      <4>1. p[j] \in Addrs /\ p[j] # p[k]
        BY <1>2, <2>3, <3>3
      <4>2. g[p[j]] = h[p[j]]
        BY <1>4, <4>1
      <4> QED
        BY <2>1, <2>3, <3>1, <3>3, <4>2
    <3> QED
      BY <3>2, <3>3
  <2> QED
    BY <2>2, <2>3
<1>9. ValuesOf(q, g) = Changed(ValuesOf(p, h), k, NULL)
  <2>1. /\ ValuesOf(q, g) = [j \in Keys |-> ValuesOf(q, g)[j]]
        /\ ValuesOf(p, h) = [j \in Keys |-> ValuesOf(p, h)[j]]
    BY DEF ValuesOf
  <2> QED
    BY <1>8, <2>1 DEF Changed
<1>10. Owns(q, g)
  BY <1>3, <1>4, <1>6, <1>7 DEF Owns
<1> QED
  BY <1>9, <1>10

LEMMA NothingOwned ==
    ASSUME NEW p, p = [k \in Keys |-> NULL], NEW h \in [Addrs -> Strings \cup {NULL}],
           \A a \in Addrs : h[a] = NULL
    PROVE  Owns(p, h) /\ ValuesOf(p, h) = [k \in Keys |-> NULL]
  BY NullFacts DEF Owns, ValuesOf

----------------------------------------------------------------------------
(* config_new_copy: the sections with a variable, every value at another   *)
(* address.                                                                *)

MovedDict(d, moved) == [j \in DOMAIN d |-> [d[j] EXCEPT !.value = moved[@]]]
MovedConfig(c, moved) ==
    [i \in DOMAIN c |-> [c[i] EXCEPT !.value = MovedDict(c[i].value, moved)]]

LEMMA KeepPlaces ==
    ASSUME NEW c \in Configs, NEW K, K = {i \in DOMAIN c : c[i].value # <<>>}
    PROVE  KeepAt(c, K) \in Configs /\ Places(KeepAt(c, K)) = Places(c)
<1>1. PICK f : f = KeepAt(c, K)
  OBVIOUS
<1>2. /\ c \in Seq([name : Sections, value : Dicts])
      /\ \A i \in DOMAIN c : c[i].name \in NamesOf(c) /\ c[i].value \in Dicts
      /\ \A i, j \in DOMAIN c : c[i].name = c[j].name => i = j
  BY EntryAt DEF Configs
<1>3. IsInjective(c)
  BY <1>2 DEF IsInjective
<1>4. /\ f \in Seq([name : Sections, value : Dicts])
      /\ Range(f) = {c[k] : k \in K}
      /\ IsInjective(f)
  <2>1. K \in SUBSET DOMAIN c
    OBVIOUS
  <2> QED
    BY <1>1, <1>2, <1>3, <2>1, KeepAtProperties
<1>5. \A i \in DOMAIN f : \E k \in K : f[i] = c[k]
  BY <1>4 DEF Range
<1>6. \A k \in K : \E i \in DOMAIN f : f[i] = c[k]
  BY <1>4 DEF Range
<1>7. f \in Configs
  <2>1. ASSUME NEW i \in DOMAIN f, NEW j \in DOMAIN f, f[i].name = f[j].name PROVE i = j
    <3>1. PICK k \in K, l \in K : f[i] = c[k] /\ f[j] = c[l]
      BY <1>5
    <3>2. f[i] = f[j]
      BY <1>2, <2>1, <3>1
    <3> QED
      BY <1>4, <3>2 DEF IsInjective
  <2> QED
    BY <1>4, <2>1 DEF Configs, Dict
<1>8. ASSUME NEW s \in Sections PROVE DictIn(f, s) = DictIn(c, s)
  <2>1. CASE s \in NamesOf(f)
    <3>1. PICK i \in DOMAIN f : f[i].name = s
      BY <2>1 DEF NamesOf
    <3>2. PICK k \in K : f[i] = c[k]
      BY <1>5
    <3>3. c[k].name = s /\ k \in DOMAIN c
      BY <3>1, <3>2
    <3>4. Lookup(f, f[i].name) = f[i].value
      BY <1>7, LookupAt DEF Configs
    <3>5. Lookup(c, c[k].name) = c[k].value
      BY <3>3, LookupAt DEF Configs
    <3>6. s \in NamesOf(c)
      BY <1>2, <3>3
    <3> QED
      BY <2>1, <3>1, <3>2, <3>3, <3>4, <3>5, <3>6 DEF DictIn
  <2>2. CASE s \notin NamesOf(f)
    <3>1. DictIn(f, s) = <<>>
      BY <2>2 DEF DictIn
    <3>2. CASE s \notin NamesOf(c)
      BY <3>1, <3>2 DEF DictIn
    <3>3. CASE s \in NamesOf(c)
      <4>1. PICK k \in DOMAIN c : c[k].name = s /\ Lookup(c, s) = c[k].value
        BY <3>3, LookupNamed DEF Configs
      <4>2. ASSUME k \in K PROVE FALSE
        <5>1. PICK i \in DOMAIN f : f[i] = c[k]
          BY <1>6, <4>2
        <5>2. f[i].name \in NamesOf(f)
          BY DEF NamesOf
        <5> QED
          BY <2>2, <4>1, <5>1, <5>2
      <4>3. c[k].value = <<>>
        BY <4>2
      <4> QED
        BY <3>1, <3>3, <4>1, <4>3 DEF DictIn
    <3> QED
      BY <3>2, <3>3
  <2> QED
    BY <2>1, <2>2
<1>9. Places(f) = Places(c)
  BY <1>8, KeyFacts DEF Places
<1> QED
  BY <1>1, <1>7, <1>9

LEMMA MovedDictFacts ==
    ASSUME NEW d \in Dicts, NEW moved, \A j \in DOMAIN d : moved[d[j].value] \in Addrs
    PROVE  /\ MovedDict(d, moved) \in Dicts
           /\ \A v : Lookup(MovedDict(d, moved), v) =
                         IF Lookup(d, v) = NULL THEN NULL ELSE moved[Lookup(d, v)]
<1>1. PICK e : e = MovedDict(d, moved)
  OBVIOUS
<1>2. /\ d \in Seq([name : Variables, value : Addrs])
      /\ Len(d) \in Nat /\ DOMAIN d = 1..Len(d)
      /\ \A k \in DOMAIN d : d[k] \in [name : Variables, value : Addrs]
      /\ \A j, k \in DOMAIN d : d[j].name = d[k].name => j = k
  BY EntryAt DEF Dicts
<1>3. e = [j \in 1..Len(d) |-> [d[j] EXCEPT !.value = moved[d[j].value]]]
  BY <1>1, <1>2 DEF MovedDict
<1>4. \A j \in 1..Len(d) :
          /\ e[j] \in [name : Variables, value : Addrs]
          /\ e[j].name = d[j].name /\ e[j].value = moved[d[j].value]
  BY <1>2, <1>3
<1>5. DOMAIN e = DOMAIN d /\ e \in Seq([name : Variables, value : Addrs])
  <2>1. e \in [1..Len(d) -> [name : Variables, value : Addrs]]
    BY <1>3, <1>4
  <2> QED
    BY <1>2, <2>1, SeqDef
<1>6. e \in Dicts
  BY <1>2, <1>4, <1>5 DEF Dicts, Dict
<1>7. NamesOf(e) = NamesOf(d)
  BY <1>2, <1>4, <1>5 DEF NamesOf
<1>8. ASSUME NEW v
      PROVE  Lookup(e, v) = IF Lookup(d, v) = NULL THEN NULL ELSE moved[Lookup(d, v)]
  <2>1. CASE v \in NamesOf(d)
    <3>1. PICK k \in DOMAIN d : d[k].name = v /\ Lookup(d, v) = d[k].value
      BY <2>1, LookupNamed DEF Dicts
    <3>2. Lookup(e, e[k].name) = e[k].value
      BY <1>5, <1>6, <3>1, LookupAt DEF Dicts
    <3>3. d[k].value \in Addrs /\ d[k].value # NULL
      BY <1>2, <3>1, NullFacts
    <3> QED
      BY <1>2, <1>4, <3>1, <3>2, <3>3
  <2>2. CASE v \notin NamesOf(d)
    BY <1>7, <2>2, LookupOther
  <2> QED
    BY <2>1, <2>2
<1> QED
  BY <1>1, <1>6, <1>8

LEMMA MovedPlaces ==
    ASSUME NEW c \in Configs, NEW moved \in [HeldBy(c) -> Addrs]
    PROVE  /\ MovedConfig(c, moved) \in Configs
           /\ Places(MovedConfig(c, moved)) = PlacesCopied(Places(c), moved)
<1>1. PICK e : e = MovedConfig(c, moved)
  OBVIOUS
<1>2. /\ c \in Seq([name : Sections, value : Dicts])
      /\ Len(c) \in Nat /\ DOMAIN c = 1..Len(c)
      /\ \A k \in DOMAIN c : /\ c[k] \in [name : Sections, value : Dicts]
                             /\ c[k].value \in Dicts
      /\ \A j, k \in DOMAIN c : c[j].name = c[k].name => j = k
  BY EntryAt DEF Configs
<1>3. ASSUME NEW i \in DOMAIN c
      PROVE  /\ MovedDict(c[i].value, moved) \in Dicts
             /\ \A v : Lookup(MovedDict(c[i].value, moved), v) =
                           IF Lookup(c[i].value, v) = NULL THEN NULL
                           ELSE moved[Lookup(c[i].value, v)]
  <2>1. PICK d \in Dicts : d = c[i].value
    BY <1>2
  <2>2. ASSUME NEW j \in DOMAIN d PROVE moved[d[j].value] \in Addrs
    <3>1. d[j].value \in HeldIn(c[i])
      BY <2>1 DEF HeldIn
    <3>2. d[j].value \in HeldBy(c)
      BY <3>1 DEF HeldBy
    <3> QED
      BY <3>2
  <2> QED
    BY <2>1, <2>2, MovedDictFacts
<1>4. e = [i \in 1..Len(c) |-> [c[i] EXCEPT !.value = MovedDict(c[i].value, moved)]]
  BY <1>1, <1>2 DEF MovedConfig
<1>5. \A i \in 1..Len(c) :
          /\ e[i] \in [name : Sections, value : Dicts]
          /\ e[i].name = c[i].name /\ e[i].value = MovedDict(c[i].value, moved)
  BY <1>2, <1>3, <1>4
<1>6. DOMAIN e = DOMAIN c /\ e \in Seq([name : Sections, value : Dicts])
  <2>1. e \in [1..Len(c) -> [name : Sections, value : Dicts]]
    BY <1>4, <1>5
  <2> QED
    BY <1>2, <2>1, SeqDef
<1>7. e \in Configs
  BY <1>2, <1>5, <1>6 DEF Configs, Dict
<1>8. NamesOf(e) = NamesOf(c)
  BY <1>2, <1>5, <1>6 DEF NamesOf
<1>9. ASSUME NEW k \in Keys
      PROVE  Lookup(DictIn(e, k[1]), k[2]) =
                 IF Lookup(DictIn(c, k[1]), k[2]) = NULL THEN NULL
                 ELSE moved[Lookup(DictIn(c, k[1]), k[2])]
  <2>1. PICK s \in Sections, v \in Variables : s = k[1] /\ v = k[2]
    BY KeyFacts
  <2>2. CASE s \in NamesOf(c)
    <3>1. PICK i \in DOMAIN c : c[i].name = s /\ Lookup(c, s) = c[i].value
      BY <2>2, LookupNamed DEF Configs
    <3>2. Lookup(e, e[i].name) = e[i].value
      BY <1>6, <1>7, <3>1, LookupAt DEF Configs
    <3>3. DictIn(e, s) = MovedDict(c[i].value, moved) /\ DictIn(c, s) = c[i].value
      BY <1>2, <1>5, <1>8, <2>2, <3>1, <3>2 DEF DictIn
    <3> QED
      BY <1>3, <2>1, <3>3
  <2>3. CASE s \notin NamesOf(c)
    <3>1. DictIn(e, s) = <<>> /\ DictIn(c, s) = <<>>
      BY <1>8, <2>3 DEF DictIn
    <3>2. Lookup(<<>>, v) = NULL
      BY EmptyDict
    <3> QED
      BY <2>1, <3>1, <3>2
  <2> QED
    BY <2>2, <2>3
<1>10. ASSUME NEW k \in Keys
       PROVE  Places(c)[k] = Lookup(DictIn(c, k[1]), k[2])
  BY DEF Places
<1>11. Places(e) = PlacesCopied(Places(c), moved)
  <2>1. Places(e) = [k \in Keys |-> IF Places(c)[k] = NULL THEN NULL ELSE moved[Places(c)[k]]]
    BY <1>9, <1>10 DEF Places
  <2> QED
    BY <2>1 DEF PlacesCopied
<1> QED
  BY <1>1, <1>7, <1>11

LEMMA CopyOwns ==
    ASSUME NEW p, NEW h, Owns(p, h),
           NEW H, H = {a \in Addrs : \E k \in Keys : p[k] = a},
           NEW moved \in [H -> {a \in Addrs : h[a] = NULL}], IsInjective(moved),
           NEW q, q = PlacesCopied(p, moved),
           NEW g, g = HeapCopied(h, H, moved)
    PROVE  Owns(q, g) /\ ValuesOf(q, g) = ValuesOf(p, h)
<1>1. NULL \notin Addrs
  BY NullFacts
<1>2. /\ p \in [Keys -> Addrs \cup {NULL}] /\ h \in [Addrs -> Strings \cup {NULL}]
      /\ \A b \in Addrs : h[b] # NULL <=> \E j \in Keys : p[j] = b
      /\ \A i, j \in Keys : p[i] = p[j] /\ p[i] # NULL => i = j
  BY DEF Owns
<1>3. \A a \in Addrs : a \in H <=> h[a] # NULL
  BY <1>2
<1>4. \A b \in H : moved[b] \in Addrs /\ h[moved[b]] = NULL /\ moved[b] \notin H
  BY <1>3
<1>5. \A a, b \in H : moved[a] = moved[b] => a = b
  BY DEF IsInjective
<1>6. \A k \in Keys : p[k] # NULL => p[k] \in H
  BY <1>2
<1>7. \A a \in Addrs :
          /\ a \in H => g[a] = NULL
          /\ \A b \in H : moved[b] = a => g[a] = h[b]
          /\ a \notin H /\ (\A b \in H : moved[b] # a) => g[a] = h[a]
  <2> SUFFICES ASSUME NEW a \in Addrs
               PROVE  /\ a \in H => g[a] = NULL
                      /\ \A b \in H : moved[b] = a => g[a] = h[b]
                      /\ a \notin H /\ (\A b \in H : moved[b] # a) => g[a] = h[a]
    OBVIOUS
  <2>1. g[a] = IF a \in H THEN NULL
               ELSE IF \E b \in H : moved[b] = a
               THEN h[CHOOSE b \in H : moved[b] = a]
               ELSE h[a]
    BY DEF HeapCopied
  <2>2. ASSUME NEW b \in H, moved[b] = a PROVE g[a] = h[b]
    <3>1. PICK c : c = CHOOSE i \in H : moved[i] = a
      OBVIOUS
    <3>2. c \in H /\ moved[c] = a
      BY <2>2, <3>1
    <3>3. c = b
      BY <1>5, <2>2, <3>2
    <3>4. a \notin H
      BY <1>4, <2>2
    <3> QED
      BY <2>1, <2>2, <3>1, <3>3, <3>4
  <2> QED
    BY <2>1, <2>2
<1>8. q \in [Keys -> Addrs \cup {NULL}]
  BY <1>4, <1>6 DEF PlacesCopied
<1>9. g \in [Addrs -> Strings \cup {NULL}]
  <2>1. ASSUME NEW a \in Addrs PROVE g[a] \in Strings \cup {NULL}
    <3>1. CASE \E b \in H : moved[b] = a
      BY <1>2, <1>7, <3>1
    <3>2. CASE ~\E b \in H : moved[b] = a
      BY <1>2, <1>7, <3>2
    <3> QED
      BY <3>1, <3>2
  <2> QED
    BY <2>1 DEF HeapCopied
<1>10. \A k \in Keys : q[k] = IF p[k] = NULL THEN NULL ELSE moved[p[k]]
  BY DEF PlacesCopied
<1>11. ASSUME NEW a \in Addrs PROVE g[a] # NULL <=> \E k \in Keys : q[k] = a
  <2>1. CASE \E b \in H : moved[b] = a
    <3>1. PICK b \in H : moved[b] = a
      BY <2>1
    <3>2. g[a] # NULL
      BY <1>3, <1>7, <3>1
    <3>3. PICK k \in Keys : p[k] = b
      BY <1>3
    <3>4. q[k] = a
      BY <1>1, <1>10, <3>1, <3>3
    <3> QED
      BY <3>2, <3>4
  <2>2. CASE ~\E b \in H : moved[b] = a
    <3>1. g[a] = NULL
      BY <1>3, <1>7, <2>2
    <3>2. ASSUME NEW k \in Keys PROVE q[k] # a
      BY <1>1, <1>6, <1>10, <2>2
    <3> QED
      BY <3>1, <3>2
  <2> QED
    BY <2>1, <2>2
<1>12. ASSUME NEW j \in Keys, NEW k \in Keys, q[j] = q[k], q[j] # NULL PROVE j = k
  <2>1. p[j] # NULL /\ p[k] # NULL
    BY <1>1, <1>4, <1>6, <1>10, <1>12
  <2>2. p[j] \in H /\ p[k] \in H /\ moved[p[j]] = moved[p[k]]
    BY <1>6, <1>10, <1>12, <2>1
  <2>3. p[j] = p[k]
    BY <1>5, <2>2
  <2> QED
    BY <1>2, <2>1, <2>3
<1>13. ASSUME NEW k \in Keys
       PROVE  (IF q[k] = NULL THEN NULL ELSE g[q[k]]) = IF p[k] = NULL THEN NULL ELSE h[p[k]]
  <2>1. CASE p[k] = NULL
    BY <1>10, <2>1
  <2>2. CASE p[k] # NULL
    <3>1. p[k] \in H /\ q[k] = moved[p[k]] /\ q[k] \in Addrs /\ q[k] # NULL
      BY <1>1, <1>4, <1>6, <1>10, <2>2
    <3>2. PICK a \in Addrs, b \in H : a = q[k] /\ b = p[k]
      BY <3>1
    <3>3. g[a] = h[b]
      BY <1>7, <3>1, <3>2
    <3> QED
      BY <2>2, <3>1, <3>2, <3>3
  <2> QED
    BY <2>1, <2>2
<1>14. ValuesOf(q, g) = ValuesOf(p, h)
  BY <1>13 DEF ValuesOf
<1>15. Owns(q, g)
  BY <1>8, <1>9, <1>11, <1>12 DEF Owns
<1> QED
  BY <1>14, <1>15

----------------------------------------------------------------------------
(* What the steps do to the configuration.                                 *)

Sound(c, h) == c \in Configs /\ Owns(Places(c), h)
SettingsOf(c, h) == ValuesOf(Places(c), h)

LEMMA SettingsAre == settings = SettingsOf(config, heap)
<1>1. ASSUME NEW k \in Keys
      PROVE  Places(config)[k] = ValueAt(k[1], k[2])
  BY DEF Places, ValueAt, SectionDict, DictIn
<1> QED
  BY <1>1 DEF settings, ConfigGet, SettingsOf, ValuesOf

LEMMA SettingsAreNext == settings' = SettingsOf(config', heap')
<1>1. ASSUME NEW k \in Keys
      PROVE  Places(config')[k] = ValueAt(k[1], k[2])'
  BY DEF Places, ValueAt, SectionDict, DictIn
<1> QED
  BY <1>1 DEF settings, ConfigGet, SettingsOf, ValuesOf

LEMMA SettingsFacts ==
    ASSUME NEW c, NEW h, Sound(c, h)
    PROVE  SettingsOf(c, h) \in Settings
  BY ValuesOfFacts DEF Sound, SettingsOf

LEMMA ValueAtPlace ==
    ASSUME NEW s \in Sections, NEW v \in Variables
    PROVE  <<s, v>> \in Keys /\ ValueAt(s, v) = Places(config)[<<s, v>>]
<1>1. <<s, v>> \in Keys
  BY DEF Keys
<1> QED
  BY <1>1 DEF Places, ValueAt, SectionDict, DictIn

LEMMA SetValueDoes ==
    ASSUME Sound(config, heap), NEW s \in Sections, NEW v \in Variables,
           NEW value \in Strings, SetValue(s, v, value)
    PROVE  /\ Sound(config', heap')
           /\ SettingsOf(config', heap') = Changed(SettingsOf(config, heap), <<s, v>>, value)
<1>1. PICK a \in Addrs :
          /\ heap[a] = NULL
          /\ heap' = [b \in Addrs |-> IF b = a THEN value
                                      ELSE IF b = ValueAt(s, v) THEN NULL ELSE heap[b]]
          /\ config' = Put(config, s, Put(SectionDict(s), v, a))
  BY DEF SetValue
<1>2. PICK c, h, d, g : c = config /\ h = heap /\ d = config' /\ g = heap'
  OBVIOUS
<1>3. c \in Configs /\ Owns(Places(c), h)
  BY <1>2 DEF Sound
<1>4. <<s, v>> \in Keys /\ ValueAt(s, v) = Places(c)[<<s, v>>]
  BY <1>2, ValueAtPlace
<1>5. d = Put(c, s, Put(DictIn(c, s), v, a))
  BY <1>1, <1>2 DEF SectionDict, DictIn
<1>6. d \in Configs /\ Places(d) = Changed(Places(c), <<s, v>>, a)
  BY <1>3, <1>5, PutPlaces
<1>7. g = HeapSet(Places(c), h, <<s, v>>, a, value)
  BY <1>1, <1>2, <1>4 DEF HeapSet
<1>8. h[a] = NULL
  BY <1>1, <1>2
<1>9. PICK p, q, k : p = Places(c) /\ q = Places(d) /\ k = <<s, v>>
  OBVIOUS
<1>10. k \in Keys /\ Owns(p, h) /\ q = Changed(p, k, a) /\ g = HeapSet(p, h, k, a, value)
  BY <1>3, <1>4, <1>6, <1>7, <1>9
<1>11. Owns(q, g) /\ ValuesOf(q, g) = Changed(ValuesOf(p, h), k, value)
  BY <1>8, <1>10, SetOwns
<1> QED
  BY <1>2, <1>6, <1>9, <1>11 DEF Sound, SettingsOf

LEMMA SetFailsDoes ==
    ASSUME Sound(config, heap), NEW s \in Sections, NEW v \in Variables, SetFails(s, v)
    PROVE  /\ Sound(config', heap')
           /\ SettingsOf(config', heap') = SettingsOf(config, heap)
<1>1. PICK c, h, d, g : c = config /\ h = heap /\ d = config' /\ g = heap'
  OBVIOUS
<1>2. c \in Configs /\ Owns(Places(c), h)
  BY <1>1 DEF Sound
<1>3. g = h /\ (d = c \/ d = Put(c, s, DictIn(c, s)))
  BY <1>1 DEF SetFails, SectionDict, DictIn
<1>4. d \in Configs /\ Places(d) = Places(c)
  BY <1>2, <1>3, SectionPlaces
<1> QED
  BY <1>1, <1>2, <1>3, <1>4 DEF Sound, SettingsOf

LEMMA SetNullDoes ==
    ASSUME Sound(config, heap), NEW s \in Sections, NEW v \in Variables, SetNull(s, v)
    PROVE  /\ Sound(config', heap')
           /\ SettingsOf(config', heap') = Changed(SettingsOf(config, heap), <<s, v>>, NULL)
<1>1. PICK c, h, d, g : c = config /\ h = heap /\ d = config' /\ g = heap'
  OBVIOUS
<1>2. c \in Configs /\ Owns(Places(c), h)
  BY <1>1 DEF Sound
<1>3. <<s, v>> \in Keys /\ ValueAt(s, v) = Places(c)[<<s, v>>]
  BY <1>1, ValueAtPlace
<1>4. d = Put(c, s, Put(DictIn(c, s), v, NULL))
  BY <1>1 DEF SetNull, SectionDict, DictIn
<1>5. d \in Configs /\ Places(d) = Changed(Places(c), <<s, v>>, NULL)
  BY <1>2, <1>4, PutPlaces
<1>6. g = HeapUnset(Places(c), h, <<s, v>>)
  BY <1>1, <1>3 DEF SetNull, HeapUnset
<1>7. PICK p, q, k : p = Places(c) /\ q = Places(d) /\ k = <<s, v>>
  OBVIOUS
<1>8. k \in Keys /\ Owns(p, h) /\ q = Changed(p, k, NULL) /\ g = HeapUnset(p, h, k)
  BY <1>2, <1>3, <1>5, <1>6, <1>7
<1>9. Owns(q, g) /\ ValuesOf(q, g) = Changed(ValuesOf(p, h), k, NULL)
  BY <1>8, NullOwns
<1> QED
  BY <1>1, <1>5, <1>7, <1>9 DEF Sound, SettingsOf

LEMMA HeldIs == Held = HeldBy(config)
  BY DEF Held, HeldBy

LEMMA EmptyDoes ==
    ASSUME NEW c, c = <<>>, NEW h \in [Addrs -> Strings \cup {NULL}],
           \A a \in Addrs : h[a] = NULL
    PROVE  Sound(c, h) /\ SettingsOf(c, h) = [k \in Keys |-> NULL]
<1>1. c \in Configs /\ Places(c) = [k \in Keys |-> NULL]
  BY NoPlaces
<1>2. Owns(Places(c), h) /\ ValuesOf(Places(c), h) = [k \in Keys |-> NULL]
  BY <1>1, NothingOwned
<1> QED
  BY <1>1, <1>2 DEF Sound, SettingsOf

LEMMA ResetDoes ==
    ASSUME Sound(config, heap), ConfigReset
    PROVE  /\ Sound(config', heap')
           /\ SettingsOf(config', heap') = [k \in Keys |-> NULL]
<1>1. PICK c, h, g : c = config /\ h = heap /\ g = heap'
  OBVIOUS
<1>2. c \in Configs /\ Owns(Places(c), h)
  BY <1>1 DEF Sound
<1>3. g = [a \in Addrs |-> IF a \in HeldBy(c) THEN NULL ELSE h[a]]
  BY <1>1, HeldIs DEF ConfigReset
<1>4. \A a \in Addrs : a \in HeldBy(c) <=> h[a] # NULL
  BY <1>2, HeldFacts DEF Owns
<1>5. \A a \in Addrs : g[a] = NULL
  BY <1>3, <1>4
<1>6. g \in [Addrs -> Strings \cup {NULL}]
  BY <1>3, <1>5
<1>7. config' = <<>>
  BY DEF ConfigReset
<1> QED
  BY <1>1, <1>5, <1>6, <1>7, EmptyDoes

LEMMA RestartDoes ==
    ASSUME Restart
    PROVE  /\ Sound(config', heap')
           /\ SettingsOf(config', heap') = [k \in Keys |-> NULL]
<1>1. config' = <<>> /\ heap' = [a \in Addrs |-> NULL]
  BY DEF Restart
<1>2. heap' \in [Addrs -> Strings \cup {NULL}] /\ \A a \in Addrs : heap'[a] = NULL
  BY <1>1
<1> QED
  BY <1>1, <1>2, EmptyDoes

LEMMA NewCopyDoes ==
    ASSUME Sound(config, heap), NewCopy
    PROVE  /\ Sound(config', heap')
           /\ SettingsOf(config', heap') = SettingsOf(config, heap)
<1>1. PICK c, h, d, g : c = config /\ h = heap /\ d = config' /\ g = heap'
  OBVIOUS
<1>2. c \in Configs /\ Owns(Places(c), h)
  BY <1>1 DEF Sound
<1>3. PICK H, K, f : /\ H = HeldBy(c) /\ K = {i \in DOMAIN c : c[i].value # <<>>}
                     /\ f = KeepAt(c, K)
  OBVIOUS
<1>4. Held = H /\ NotEmpty = K
  BY <1>1, <1>3, HeldIs DEF NotEmpty
<1>5. PICK moved \in [H -> {a \in Addrs : h[a] = NULL}] :
          g = HeapCopied(h, H, moved) /\ IsInjective(moved) /\ d = MovedConfig(f, moved)
  <2>1. PICK moved \in [Held -> {a \in Addrs : heap[a] = NULL}] :
            /\ IsInjective(moved)
            /\ heap' = HeapCopied(heap, Held, moved)
            /\ config' = MovedConfig(KeepAt(config, NotEmpty), moved)
    BY DEF NewCopy, HeapCopied, MovedConfig, MovedDict
  <2> QED
    BY <1>1, <1>3, <1>4, <2>1
<1>6. IsInjective(moved) /\ d = MovedConfig(f, moved)
  BY <1>5
<1>7. f \in Configs /\ Places(f) = Places(c)
  BY <1>2, <1>3, KeepPlaces
<1>8. HeldBy(f) = H
  <2>1. /\ HeldBy(f) \subseteq Addrs /\ HeldBy(c) \subseteq Addrs
        /\ \A a \in Addrs : a \in HeldBy(f) <=> \E k \in Keys : Places(f)[k] = a
        /\ \A a \in Addrs : a \in HeldBy(c) <=> \E k \in Keys : Places(c)[k] = a
    BY <1>2, <1>7, HeldFacts
  <2> QED
    BY <1>3, <1>7, <2>1
<1>9. H = {a \in Addrs : \E k \in Keys : Places(c)[k] = a}
  BY <1>2, <1>3, HeldFacts
<1>10. moved \in [HeldBy(f) -> Addrs]
  BY <1>8
<1>11. /\ d \in Configs
       /\ Places(d) = PlacesCopied(Places(f), moved)
  BY <1>6, <1>7, <1>10, MovedPlaces
<1>12. PICK p, q : p = Places(c) /\ q = Places(d)
  OBVIOUS
<1>13. q = PlacesCopied(p, moved)
  BY <1>7, <1>11, <1>12
<1>14. H = {a \in Addrs : \E k \in Keys : p[k] = a} /\ Owns(p, h)
  BY <1>2, <1>9, <1>12
<1>15. Owns(q, g) /\ ValuesOf(q, g) = ValuesOf(p, h)
  BY <1>5, <1>6, <1>13, <1>14, CopyOwns
<1> QED
  BY <1>1, <1>11, <1>12, <1>15 DEF Sound, SettingsOf

----------------------------------------------------------------------------
(* Lines: the section a line is in, and what lines set.                    *)

LEMMA LineFacts ==
    ASSUME NEW l \in Lines
    PROVE  /\ l.kind \in {"section", "variable", "comment", "broken"}
           /\ l.kind = "section" => l.name \in Sections
           /\ l.kind = "variable" => l.name \in Variables /\ l.value \in Strings
           /\ l.kind = "broken" <=> l = Broken
<1>1. \/ \E s \in Sections : l = Heading(s)
      \/ l = Comment \/ l = Broken
      \/ \E v \in Variables, x \in Strings : l = Assignment(v, x)
  BY DEF Lines
<1>2. CASE \E s \in Sections : l = Heading(s)
  BY <1>2 DEF Heading, Broken
<1>3. CASE l = Comment \/ l = Broken
  BY <1>3 DEF Comment, Broken
<1>4. CASE \E v \in Variables, x \in Strings : l = Assignment(v, x)
  BY <1>4 DEF Assignment, Broken
<1> QED
  BY <1>1, <1>2, <1>3, <1>4

LEMMA LinesFacts ==
    ASSUME NEW L \in Seq(Lines)
    PROVE  /\ Len(L) \in Nat /\ DOMAIN L = 1..Len(L)
           /\ \A k \in 1..Len(L) :
                  /\ L[k] \in Lines
                  /\ L[k].kind \in {"section", "variable", "comment", "broken"}
                  /\ L[k].kind = "section" => L[k].name \in Sections
                  /\ L[k].kind = "variable" => L[k].name \in Variables /\ L[k].value \in Strings
                  /\ L[k].kind = "broken" <=> L[k] = Broken
<1>1. Len(L) \in Nat /\ DOMAIN L = 1..Len(L) /\ \A k \in 1..Len(L) : L[k] \in Lines
  BY LenProperties
<1> QED
  BY <1>1, LineFacts

LEMMA LineKinds ==
    /\ Comment \in Lines /\ Broken \in Lines
    /\ Comment.kind = "comment" /\ Broken.kind = "broken"
    /\ \A s \in Sections : /\ Heading(s) \in Lines
                           /\ Heading(s).kind = "section" /\ Heading(s).name = s
    /\ \A v \in Variables, x \in Strings :
           /\ Assignment(v, x) \in Lines /\ Assignment(v, x).kind = "variable"
           /\ Assignment(v, x).name = v /\ Assignment(v, x).value = x
<1>1. Comment \in Lines /\ Broken \in Lines
  BY DEF Lines
<1>2. Comment.kind = "comment" /\ Broken.kind = "broken"
  BY DEF Comment, Broken
<1>3. ASSUME NEW s \in Sections
      PROVE  Heading(s) \in Lines /\ Heading(s).kind = "section" /\ Heading(s).name = s
  <2>1. Heading(s) \in Lines
    BY DEF Lines
  <2>2. Heading(s).kind = "section" /\ Heading(s).name = s
    BY DEF Heading
  <2> QED
    BY <2>1, <2>2
<1>4. ASSUME NEW v \in Variables, NEW x \in Strings
      PROVE  /\ Assignment(v, x) \in Lines /\ Assignment(v, x).kind = "variable"
             /\ Assignment(v, x).name = v /\ Assignment(v, x).value = x
  <2>1. Assignment(v, x) \in Lines
    BY DEF Lines
  <2>2. /\ Assignment(v, x).kind = "variable"
        /\ Assignment(v, x).name = v /\ Assignment(v, x).value = x
    BY DEF Assignment
  <2> QED
    BY <2>1, <2>2
<1> QED
  BY <1>1, <1>2, <1>3, <1>4

LEMMA MaxFacts ==
    ASSUME NEW n \in Nat, NEW S \in SUBSET (1..n), S # {}
    PROVE  Max(S) \in S /\ \A k \in S : k <= Max(S)
<1>0. \A x \in S : x \in Nat /\ n - x \in Nat
  <2>1. \A x \in 1..n : x \in Nat /\ n - x \in Nat
    OBVIOUS
  <2> QED
    BY <2>1, Zenon
<1> DEFINE T == {n - k : k \in S}
<1>1. T \in SUBSET Nat /\ T # {}
  BY <1>0
<1>2. PICK t \in T : \A u \in T : t <= u
  BY <1>1, Smallest
<1>3. PICK m \in S : t = n - m
  BY <1>2
<1>4. \A k \in S : k <= m
  <2> SUFFICES ASSUME NEW k \in S PROVE k <= m
    OBVIOUS
  <2>1. n - m <= n - k
    BY <1>2, <1>3
  <2> QED
    BY <1>0, <1>3, <2>1
<1>5. \E x \in S : \A k \in S : x >= k
  BY <1>0, <1>4
<1>6. PICK x : x = CHOOSE y \in S : \A k \in S : y >= k
  OBVIOUS
<1>7. x \in S /\ \A k \in S : x >= k
  BY <1>5, <1>6
<1>8. Max(S) = x
  BY <1>6 DEF Max
<1>9. \A k \in S : k <= x
  BY <1>0, <1>7
<1> QED
  BY <1>7, <1>8, <1>9

HeadingsTo(L, k) == {j \in 1..k : L[j].kind = "section"}

LEMMA SectionAtIs ==
    ASSUME NEW L, NEW k
    PROVE  SectionAt(L, k) = IF HeadingsTo(L, k) = {} THEN Default
                             ELSE L[Max(HeadingsTo(L, k))].name
  BY DEF SectionAt, HeadingsTo

LEMMA SectionAtSame ==
    ASSUME NEW L, NEW M, NEW k \in Nat, \A j \in 1..k : L[j] = M[j]
    PROVE  SectionAt(L, k) = SectionAt(M, k)
<1>1. HeadingsTo(L, k) = HeadingsTo(M, k)
  BY DEF HeadingsTo
<1>2. CASE HeadingsTo(L, k) = {}
  BY <1>1, <1>2, SectionAtIs
<1>3. CASE HeadingsTo(L, k) # {}
  <2>1. HeadingsTo(L, k) \in SUBSET (1..k)
    BY DEF HeadingsTo
  <2>2. Max(HeadingsTo(L, k)) \in 1..k
    BY <1>3, <2>1, MaxFacts
  <2> QED
    BY <1>1, <1>3, <2>2, SectionAtIs
<1> QED
  BY <1>2, <1>3

LEMMA SectionAtFirst ==
    ASSUME NEW L, NEW k, \A j \in 1..k : L[j].kind # "section"
    PROVE  SectionAt(L, k) = Default
<1>1. HeadingsTo(L, k) = {}
  BY DEF HeadingsTo
<1> QED
  BY <1>1, SectionAtIs

LEMMA SectionAtAfter ==
    ASSUME NEW L, NEW k \in Nat, NEW m \in 1..k, L[m].kind = "section",
           \A j \in 1..k : j > m => L[j].kind # "section"
    PROVE  SectionAt(L, k) = L[m].name
<1>1. m \in HeadingsTo(L, k) /\ HeadingsTo(L, k) \in SUBSET (1..k)
  BY DEF HeadingsTo
<1>2. PICK x : x = Max(HeadingsTo(L, k))
  OBVIOUS
<1>3. x \in HeadingsTo(L, k) /\ \A j \in HeadingsTo(L, k) : j <= x
  BY <1>1, <1>2, MaxFacts
<1>4. x \in 1..k /\ L[x].kind = "section" /\ m <= x
  BY <1>1, <1>3 DEF HeadingsTo
<1>5. x = m
  BY <1>4
<1> QED
  BY <1>1, <1>2, <1>5, SectionAtIs

LEMMA SectionAtNext ==
    ASSUME NEW L, NEW k \in Nat \ {0}
    PROVE  SectionAt(L, k) = IF L[k].kind = "section" THEN L[k].name ELSE SectionAt(L, k - 1)
<1>1. CASE L[k].kind = "section"
  <2>1. k \in 1..k /\ \A j \in 1..k : ~(j > k)
    OBVIOUS
  <2> QED
    BY <1>1, <2>1, SectionAtAfter
<1>2. CASE L[k].kind # "section"
  <2>1. HeadingsTo(L, k) = HeadingsTo(L, k - 1)
    <3>1. \A j : j \in 1..k <=> j \in 1..(k - 1) \/ j = k
      OBVIOUS
    <3> QED
      BY <1>2, <3>1 DEF HeadingsTo
  <2>2. /\ SectionAt(L, k) = IF HeadingsTo(L, k) = {} THEN Default
                             ELSE L[Max(HeadingsTo(L, k))].name
        /\ SectionAt(L, k - 1) = IF HeadingsTo(L, k - 1) = {} THEN Default
                                 ELSE L[Max(HeadingsTo(L, k - 1))].name
    BY SectionAtIs
  <2> QED
    BY <1>2, <2>1, <2>2
<1> QED
  BY <1>1, <1>2

LEMMA SectionAtType ==
    ASSUME NEW L \in Seq(Lines), NEW k \in 0..Len(L)
    PROVE  SectionAt(L, k) \in Sections
<1>1. Default \in Sections
  BY NameAssumption
<1>2. Len(L) \in Nat /\ k \in Nat /\ \A j \in 1..k : j \in 1..Len(L)
  BY LinesFacts
<1>3. CASE HeadingsTo(L, k) = {}
  BY <1>1, <1>3, SectionAtIs
<1>4. CASE HeadingsTo(L, k) # {}
  <2>1. HeadingsTo(L, k) \in SUBSET (1..k)
    BY DEF HeadingsTo
  <2>2. PICK x : x = Max(HeadingsTo(L, k))
    OBVIOUS
  <2>3. x \in HeadingsTo(L, k)
    BY <1>2, <1>4, <2>1, <2>2, MaxFacts
  <2>4. x \in 1..Len(L) /\ L[x].kind = "section"
    BY <1>2, <2>3 DEF HeadingsTo
  <2>5. L[x].name \in Sections
    BY <2>4, LinesFacts
  <2> QED
    BY <1>4, <2>2, <2>5, SectionAtIs
<1> QED
  BY <1>3, <1>4

(* The last line that is read and assigns the variable gives its value.    *)
AssignsOf(L, s, v) == {k \in Readable(L) : Assigns(L, k, s, v)}

LastOf(T, k) == k \in T /\ \A j \in T : j <= k

ValueOn(L, k) == L[k].value

LEMMA ContentAtIs ==
    ASSUME NEW L, NEW s, NEW v
    PROVE  ContentAt(L, s, v) = IF AssignsOf(L, s, v) = {} THEN NULL
                                ELSE L[Max(AssignsOf(L, s, v))].value
  BY DEF ContentAt, AssignsOf

LEMMA ContentAtFacts ==
    ASSUME NEW L \in Seq(Lines), NEW s, NEW v
    PROVE  \/ AssignsOf(L, s, v) = {} /\ ContentAt(L, s, v) = NULL
           \/ \E k :
                  /\ LastOf(AssignsOf(L, s, v), k)
                  /\ ContentAt(L, s, v) = L[k].value
                  /\ k \in 1..Len(L) /\ L[k].value \in Strings
<1>1. CASE AssignsOf(L, s, v) = {}
  BY <1>1, ContentAtIs
<1>2. CASE AssignsOf(L, s, v) # {}
  <2>1. Len(L) \in Nat /\ DOMAIN L = 1..Len(L)
    BY LinesFacts
  <2>2. AssignsOf(L, s, v) \in SUBSET (1..Len(L))
    BY <2>1 DEF AssignsOf, Readable
  <2>3. PICK k : k = Max(AssignsOf(L, s, v))
    OBVIOUS
  <2>4. LastOf(AssignsOf(L, s, v), k)
    BY <1>2, <2>1, <2>2, <2>3, MaxFacts DEF LastOf
  <2>5. k \in 1..Len(L) /\ L[k].kind = "variable"
    BY <2>2, <2>4 DEF AssignsOf, Assigns, LastOf
  <2>6. L[k].value \in Strings
    BY <2>5, LinesFacts
  <2>7. ContentAt(L, s, v) = L[k].value
    BY <1>2, <2>3, ContentAtIs
  <2> QED
    BY <2>4, <2>5, <2>6, <2>7
<1> QED
  BY <1>1, <1>2

LEMMA ContentLast ==
    ASSUME NEW L \in Seq(Lines), NEW s, NEW v, NEW k, LastOf(AssignsOf(L, s, v), k)
    PROVE  ContentAt(L, s, v) = ValueOn(L, k)
<1>1. PICK m : LastOf(AssignsOf(L, s, v), m) /\ ContentAt(L, s, v) = L[m].value
  BY ContentAtFacts DEF LastOf
<1>2. AssignsOf(L, s, v) \subseteq 1..Len(L)
  BY LinesFacts DEF AssignsOf, Readable
<1>3. k <= m /\ m <= k /\ k \in Int /\ m \in Int
  BY <1>1, <1>2 DEF LastOf
<1>4. k = m
  BY <1>3
<1> QED
  BY <1>1, <1>4 DEF ValueOn

LEMMA ContentType ==
    ASSUME NEW L \in Seq(Lines)
    PROVE  Content(L) \in Settings
<1>1. ASSUME NEW s, NEW v PROVE ContentAt(L, s, v) \in Strings \cup {NULL}
  BY ContentAtFacts
<1> QED
  BY <1>1 DEF Content, Settings

(* Lines without an error are all read.                                    *)
Unbroken(L) == \A k \in DOMAIN L : L[k] # Broken

LEMMA ReadableAll ==
    ASSUME NEW L \in Seq(Lines), Unbroken(L)
    PROVE  Readable(L) = 1..Len(L)
<1>1. Len(L) \in Nat /\ DOMAIN L = 1..Len(L)
  BY LinesFacts
<1>2. \A k \in 1..Len(L) : \A j \in 1..k : j \in 1..Len(L)
  BY <1>1
<1> QED
  BY <1>1, <1>2 DEF Readable, Unbroken

FollowedBy(L, l) == Append(L, l)

LEMMA AppendLine ==
    ASSUME NEW L \in Seq(Lines), NEW l \in Lines, NEW M, M = FollowedBy(L, l)
    PROVE  /\ M \in Seq(Lines) /\ Len(M) = Len(L) + 1
           /\ \A k \in 1..Len(L) : M[k] = L[k]
           /\ M[Len(L) + 1] = l
           /\ \A k \in 0..Len(L) : SectionAt(M, k) = SectionAt(L, k)
           /\ SectionAt(M, Len(L) + 1) = IF l.kind = "section" THEN l.name
                                         ELSE SectionAt(L, Len(L))
<1>1. /\ M \in Seq(Lines) /\ Len(M) = Len(L) + 1
      /\ \A k \in 1..Len(L) : M[k] = L[k]
      /\ M[Len(L) + 1] = l
  BY AppendProperties DEF FollowedBy
<1>2. Len(L) \in Nat
  BY LinesFacts
<1>3. ASSUME NEW k \in 0..Len(L) PROVE SectionAt(M, k) = SectionAt(L, k)
  <2>1. k \in Nat /\ \A j \in 1..k : M[j] = L[j]
    BY <1>1, <1>2
  <2> QED
    BY <2>1, SectionAtSame
<1>4. SectionAt(M, Len(L) + 1) = IF M[Len(L) + 1].kind = "section" THEN M[Len(L) + 1].name
                                 ELSE SectionAt(M, Len(L))
  <2>1. Len(L) + 1 \in Nat \ {0} /\ (Len(L) + 1) - 1 = Len(L)
    BY <1>2
  <2>2. \A k \in Nat \ {0} :
            SectionAt(M, k) = IF M[k].kind = "section" THEN M[k].name ELSE SectionAt(M, k - 1)
    BY SectionAtNext
  <2> QED
    BY <2>1, <2>2
<1>5. Len(L) \in 0..Len(L)
  BY <1>2
<1> QED
  BY <1>1, <1>3, <1>4, <1>5

LEMMA AppendSection ==
    ASSUME NEW L \in Seq(Lines), NEW l \in Lines, NEW M, M = FollowedBy(L, l)
    PROVE  SectionAt(M, Len(M)) = IF l.kind = "section" THEN l.name
                                  ELSE SectionAt(L, Len(L))
<1>1. Len(M) = Len(L) + 1
  BY AppendLine
<1>2. SectionAt(M, Len(L) + 1) = IF l.kind = "section" THEN l.name
                                 ELSE SectionAt(L, Len(L))
  BY AppendLine
<1> QED
  BY <1>1, <1>2

LEMMA ContentAppend ==
    ASSUME NEW L \in Seq(Lines), Unbroken(L), NEW l \in Lines, l # Broken,
           NEW M, M = FollowedBy(L, l)
    PROVE  /\ Unbroken(M)
           /\ l.kind = "variable" =>
                  Content(M) = Changed(Content(L), <<SectionAt(L, Len(L)), l.name>>, l.value)
           /\ l.kind # "variable" => Content(M) = Content(L)
<1>1. PICK n \in Nat : n = Len(L)
  BY LinesFacts
<1>2. /\ M \in Seq(Lines) /\ Len(M) = n + 1
      /\ \A k \in 1..n : M[k] = L[k]
      /\ M[n + 1] = l
      /\ \A k \in 0..n : SectionAt(M, k) = SectionAt(L, k)
      /\ SectionAt(M, n + 1) = IF l.kind = "section" THEN l.name ELSE SectionAt(L, n)
  <2>1. M \in Seq(Lines) /\ Len(M) = Len(L) + 1
    BY AppendLine
  <2>2. (\A k \in 1..Len(L) : M[k] = L[k]) /\ M[Len(L) + 1] = l
    BY AppendProperties DEF FollowedBy
  <2>3. \A k \in 0..Len(L) : SectionAt(M, k) = SectionAt(L, k)
    BY AppendLine
  <2>4. SectionAt(M, Len(L) + 1) = IF l.kind = "section" THEN l.name
                                   ELSE SectionAt(L, Len(L))
    BY AppendLine
  <2> QED
    BY <1>1, <2>1, <2>2, <2>3, <2>4
<1>3. DOMAIN L = 1..n /\ DOMAIN M = 1..(n + 1)
  BY <1>1, <1>2, LinesFacts
<1>4. Unbroken(M)
  <2>1. \A k \in 1..(n + 1) : k \in 1..n \/ k = n + 1
    OBVIOUS
  <2> QED
    BY <1>2, <1>3, <2>1 DEF Unbroken
<1>5. Readable(L) = 1..n /\ Readable(M) = 1..(n + 1)
  BY <1>1, <1>2, <1>4, ReadableAll
<1>6. ASSUME NEW s, NEW v
      PROVE  /\ \A k \in 1..n : k \in AssignsOf(M, s, v) <=> k \in AssignsOf(L, s, v)
             /\ n + 1 \in AssignsOf(M, s, v) <=>
                    l.kind = "variable" /\ l.name = v /\ SectionAt(L, n) = s
             /\ AssignsOf(M, s, v) \subseteq 1..(n + 1) /\ AssignsOf(L, s, v) \subseteq 1..n
  <2>1. ASSUME NEW k \in 1..n PROVE k \in AssignsOf(M, s, v) <=> k \in AssignsOf(L, s, v)
    <3>1. k \in 0..n /\ k \in 1..(n + 1)
      OBVIOUS
    <3>2. M[k] = L[k] /\ SectionAt(M, k) = SectionAt(L, k)
      BY <1>2, <3>1
    <3> QED
      BY <1>5, <3>1, <3>2 DEF AssignsOf, Assigns
  <2>2. n + 1 \in AssignsOf(M, s, v) <=>
            l.kind = "variable" /\ l.name = v /\ SectionAt(L, n) = s
    <3>1. n + 1 \in 1..(n + 1)
      OBVIOUS
    <3> QED
      BY <1>2, <1>5, <3>1 DEF AssignsOf, Assigns
  <2> QED
    BY <1>5, <2>1, <2>2 DEF AssignsOf
<1>7. ASSUME NEW s, NEW v, ~(l.kind = "variable" /\ l.name = v /\ SectionAt(L, n) = s)
      PROVE  ContentAt(M, s, v) = ContentAt(L, s, v)
  <2>1. AssignsOf(M, s, v) = AssignsOf(L, s, v)
    <3>1. n + 1 \notin AssignsOf(M, s, v)
      BY <1>6, <1>7
    <3>2. \A k : k \in 1..(n + 1) => k \in 1..n \/ k = n + 1
      OBVIOUS
    <3> QED
      BY <1>6, <3>1, <3>2
  <2>2. CASE AssignsOf(L, s, v) = {}
    BY <2>1, <2>2, ContentAtIs
  <2>3. CASE AssignsOf(L, s, v) # {}
    <3>1. PICK k : /\ LastOf(AssignsOf(L, s, v), k)
                   /\ ContentAt(L, s, v) = L[k].value
                   /\ k \in 1..Len(L)
      BY <2>3, ContentAtFacts
    <3>2. M \in Seq(Lines)
      BY <1>2
    <3>3. LastOf(AssignsOf(M, s, v), k)
      BY <2>1, <3>1
    <3>4. ContentAt(M, s, v) = ValueOn(M, k)
      BY <3>2, <3>3, ContentLast
    <3> QED
      BY <1>1, <1>2, <3>1, <3>4 DEF ValueOn
  <2> QED
    BY <2>2, <2>3
<1>8. ASSUME NEW s, NEW v, l.kind = "variable", l.name = v, SectionAt(L, n) = s
      PROVE  ContentAt(M, s, v) = l.value
  <2>1. n + 1 \in AssignsOf(M, s, v)
    BY <1>6, <1>8
  <2>2. \A j \in AssignsOf(M, s, v) : j <= n + 1
    BY <1>6
  <2>3. ContentAt(M, s, v) = M[n + 1].value
    <3>1. PICK k : k = n + 1
      OBVIOUS
    <3>2. M \in Seq(Lines)
      BY <1>2
    <3>3. LastOf(AssignsOf(M, s, v), k)
      BY <2>1, <2>2, <3>1 DEF LastOf
    <3>4. ContentAt(M, s, v) = ValueOn(M, k)
      BY <3>2, <3>3, ContentLast
    <3> QED
      BY <3>1, <3>4 DEF ValueOn
  <2> QED
    BY <1>2, <2>3
<1>9. ASSUME l.kind # "variable" PROVE Content(M) = Content(L)
  BY <1>7, <1>9 DEF Content
<1>10. ASSUME l.kind = "variable"
       PROVE  Content(M) = Changed(Content(L), <<SectionAt(L, n), l.name>>, l.value)
  <2>1. PICK s, v : s = SectionAt(L, n) /\ v = l.name
    OBVIOUS
  <2>2. ASSUME NEW k \in Keys
        PROVE  ContentAt(M, k[1], k[2]) =
                   IF k = <<s, v>> THEN l.value ELSE ContentAt(L, k[1], k[2])
    <3>1. k = <<k[1], k[2]>>
      BY KeyFacts
    <3>2. CASE k[1] = s /\ k[2] = v
      BY <1>8, <1>10, <2>1, <3>1, <3>2
    <3>3. CASE ~(k[1] = s /\ k[2] = v)
      <4>1. k # <<s, v>>
        BY <3>3
      <4> QED
        BY <1>7, <2>1, <3>3, <4>1
    <3> QED
      BY <3>2, <3>3
  <2>3. Content(M) = [k \in Keys |-> IF k = <<s, v>> THEN l.value ELSE Content(L)[k]]
    BY <2>2 DEF Content
  <2>4. Content(L) = [k \in Keys |-> Content(L)[k]]
    BY DEF Content
  <2> QED
    BY <2>1, <2>3, <2>4 DEF Changed
<1> QED
  BY <1>1, <1>4, <1>9, <1>10

(* A later value goes on top.                                              *)
LEMMA OverrideChanged ==
    ASSUME NEW s \in Settings, NEW t \in Settings, NEW k \in Keys, NEW x \in Strings
    PROVE  Override(s, Changed(t, k, x)) = Changed(Override(s, t), k, x)
<1>1. x # NULL
  BY NullFacts
<1>2. \A j \in Keys : Changed(t, k, x)[j] = IF j = k THEN x ELSE t[j]
  BY DEF Changed, Settings
<1>3. Override(s, t) = [j \in Keys |-> IF t[j] = NULL THEN s[j] ELSE t[j]]
  BY DEF Override
<1>4. Changed(Override(s, t), k, x) =
          [j \in Keys |-> IF j = k THEN x ELSE IF t[j] = NULL THEN s[j] ELSE t[j]]
  BY <1>3 DEF Changed
<1>5. Override(s, Changed(t, k, x)) =
          [j \in Keys |-> IF j = k THEN x ELSE IF t[j] = NULL THEN s[j] ELSE t[j]]
  BY <1>1, <1>2 DEF Override
<1> QED
  BY <1>4, <1>5

LEMMA OverrideNothing ==
    ASSUME NEW s \in Settings
    PROVE  Override(s, Content(<<>>)) = s
<1>1. Len(<<>>) = 0 /\ DOMAIN <<>> = {}
  OBVIOUS
<1>2. \A v, w : AssignsOf(<<>>, v, w) = {}
  BY <1>1 DEF AssignsOf, Readable
<1>3. \A v, w : ContentAt(<<>>, v, w) = NULL
  BY <1>2, ContentAtIs
<1>4. \A k \in Keys : Content(<<>>)[k] = NULL
  BY <1>3 DEF Content
<1>5. s = [k \in Keys |-> s[k]]
  BY DEF Settings
<1> QED
  BY <1>4, <1>5 DEF Override

----------------------------------------------------------------------------
(* Lines that say of each variable they assign what its setting is, as     *)
(* those of a saved file do, and of the first of its lines.                *)

Faithful(M, S) ==
    /\ M \in Seq(Lines) /\ Unbroken(M)
    /\ \A k \in 1..Len(M) :
           M[k].kind = "variable" => M[k].value = S[<<SectionAt(M, k), M[k].name>>]

Holds(M, s, v) == \E k \in 1..Len(M) : Assigns(M, k, s, v)

LEMMA FaithfulAssigns ==
    ASSUME NEW M, NEW S, Faithful(M, S), NEW s, NEW v, NEW k \in AssignsOf(M, s, v)
    PROVE  ValueOn(M, k) = S[<<s, v>>]
<1>1. M \in Seq(Lines)
  BY DEF Faithful
<1>2. k \in 1..Len(M) /\ M[k].kind = "variable" /\ M[k].name = v /\ SectionAt(M, k) = s
  BY <1>1, LinesFacts DEF AssignsOf, Readable, Assigns
<1> QED
  BY <1>2 DEF Faithful, ValueOn

(* They set nothing else, and all of it that they hold.                    *)
LEMMA FaithfulContent ==
    ASSUME NEW M, NEW S, Faithful(M, S), NEW k \in Keys
    PROVE  /\ Content(M)[k] \in {NULL, S[k]}
           /\ Holds(M, k[1], k[2]) => Content(M)[k] = S[k]
<1>1. PICK s, v : s = k[1] /\ v = k[2] /\ k = <<s, v>>
  BY KeyFacts
<1>2. Content(M)[k] = ContentAt(M, s, v)
  BY <1>1 DEF Content
<1>3. M \in Seq(Lines) /\ Unbroken(M)
  BY DEF Faithful
<1>4. CASE AssignsOf(M, s, v) = {}
  <2>1. ContentAt(M, s, v) = NULL
    BY <1>4, ContentAtIs
  <2>2. Readable(M) = 1..Len(M)
    BY <1>3, ReadableAll
  <2>3. ~Holds(M, s, v)
    BY <1>4, <2>2 DEF Holds, AssignsOf
  <2> QED
    BY <1>1, <1>2, <2>1, <2>3
<1>5. CASE AssignsOf(M, s, v) # {}
  <2>1. PICK j : LastOf(AssignsOf(M, s, v), j)
    BY <1>3, <1>5, ContentAtFacts
  <2>2. ContentAt(M, s, v) = ValueOn(M, j)
    BY <1>3, <2>1, ContentLast
  <2>3. j \in AssignsOf(M, s, v)
    BY <2>1 DEF LastOf
  <2>4. ValueOn(M, j) = S[<<s, v>>]
    BY <2>3, FaithfulAssigns
  <2> QED
    BY <1>1, <1>2, <2>2, <2>4
<1> QED
  BY <1>4, <1>5

LEMMA FaithfulNone == \A S : Faithful(<<>>, S) /\ SectionAt(<<>>, 0) = Default
<1>1. <<>> \in Seq(Lines) /\ Len(<<>>) = 0 /\ DOMAIN <<>> = {}
  BY EmptySeq
<1>2. Unbroken(<<>>)
  BY <1>1 DEF Unbroken
<1>3. SectionAt(<<>>, 0) = Default
  <2>1. \A j \in 1..0 : FALSE
    OBVIOUS
  <2> QED
    BY <2>1, SectionAtFirst
<1> QED
  BY <1>1, <1>2, <1>3 DEF Faithful

LEMMA FaithfulHeading ==
    ASSUME NEW M, NEW S, Faithful(M, S), NEW s \in Sections,
           NEW L, L = FollowedBy(M, Heading(s))
    PROVE  /\ Faithful(L, S)
           /\ SectionAt(L, Len(L)) = s
           /\ \A t, v : Holds(M, t, v) => Holds(L, t, v)
<1>1. PICK l : l = Heading(s)
  OBVIOUS
<1>2. l \in Lines /\ l.kind = "section" /\ l.name = s /\ l # Broken
  BY <1>1, LineKinds, LineFacts
<1>3. M \in Seq(Lines) /\ Unbroken(M) /\ Len(M) \in Nat
  BY LinesFacts DEF Faithful
<1>4. L = FollowedBy(M, l)
  BY <1>1
<1>5. /\ L \in Seq(Lines) /\ Len(L) = Len(M) + 1
      /\ \A k \in 0..Len(M) : SectionAt(L, k) = SectionAt(M, k)
  BY <1>2, <1>3, <1>4, AppendLine
<1>6. /\ \A k \in 1..Len(M) : L[k] = M[k]
      /\ L[Len(M) + 1] = l
  BY <1>2, <1>3, <1>4, AppendProperties DEF FollowedBy
<1>7. SectionAt(L, Len(L)) = s
  <2>1. PICK n \in Nat \ {0} : n = Len(L) /\ n = Len(M) + 1
    BY <1>3, <1>5
  <2>2. L[n].kind = "section" /\ L[n].name = s
    BY <1>2, <1>6, <2>1
  <2>3. SectionAt(L, n) = L[n].name
    BY <2>2, SectionAtNext
  <2> QED
    BY <2>1, <2>2, <2>3
<1>8. Unbroken(L)
  BY <1>2, <1>3, <1>4, ContentAppend
<1>9. ASSUME NEW k \in 1..Len(L), L[k].kind = "variable"
      PROVE  L[k].value = S[<<SectionAt(L, k), L[k].name>>]
  <2>1. k \in 1..Len(M) /\ k \in 0..Len(M)
    BY <1>2, <1>3, <1>5, <1>6, <1>9
  <2>2. L[k] = M[k] /\ SectionAt(L, k) = SectionAt(M, k)
    BY <1>5, <1>6, <2>1
  <2> QED
    BY <1>9, <2>1, <2>2 DEF Faithful
<1>10. ASSUME NEW t, NEW v, Holds(M, t, v) PROVE Holds(L, t, v)
  <2>1. PICK k \in 1..Len(M) : Assigns(M, k, t, v)
    BY <1>10 DEF Holds
  <2>2. k \in 1..Len(L) /\ k \in 0..Len(M)
    BY <1>3, <1>5, <2>1
  <2>3. L[k] = M[k] /\ SectionAt(L, k) = SectionAt(M, k)
    BY <1>5, <1>6, <2>1, <2>2
  <2>4. Assigns(L, k, t, v)
    BY <2>1, <2>3 DEF Assigns
  <2> QED
    BY <2>2, <2>4 DEF Holds
<1> QED
  BY <1>5, <1>7, <1>8, <1>9, <1>10 DEF Faithful

(* The variables of section s.                                             *)
Body(X, s, S) ==
    /\ X \in Seq(Lines)
    /\ \A j \in 1..Len(X) : X[j].kind = "variable" /\ X[j].value = S[<<s, X[j].name>>]

Joined(M, X) == M \o X

LEMMA FaithfulBody ==
    ASSUME NEW M, NEW S, Faithful(M, S), NEW s, SectionAt(M, Len(M)) = s,
           NEW X, Body(X, s, S), NEW L, L = Joined(M, X)
    PROVE  /\ Faithful(L, S)
           /\ SectionAt(L, Len(L)) = s
           /\ \A t, v : Holds(M, t, v) => Holds(L, t, v)
           /\ \A j \in 1..Len(X) : Holds(L, s, X[j].name)
<1>1. /\ M \in Seq(Lines) /\ Unbroken(M) /\ X \in Seq(Lines)
      /\ \A j \in 1..Len(X) : X[j].kind = "variable" /\ X[j].value = S[<<s, X[j].name>>]
  BY DEF Faithful, Body
<1>2. Len(M) \in Nat /\ Len(X) \in Nat
  BY <1>1, LinesFacts
<1>3. /\ L \in Seq(Lines) /\ Len(L) = Len(M) + Len(X)
      /\ \A k \in 1..(Len(M) + Len(X)) : L[k] = IF k <= Len(M) THEN M[k] ELSE X[k - Len(M)]
  BY <1>1, ConcatProperties DEF Joined
<1>4. /\ \A k \in 1..Len(M) : k \in 1..Len(L) /\ L[k] = M[k]
      /\ \A j \in 1..Len(X) : Len(M) + j \in 1..Len(L) /\ L[Len(M) + j] = X[j]
  <2>1. ASSUME NEW k \in 1..Len(M) PROVE k \in 1..Len(L) /\ L[k] = M[k]
    BY <1>2, <1>3
  <2>2. ASSUME NEW j \in 1..Len(X) PROVE Len(M) + j \in 1..Len(L) /\ L[Len(M) + j] = X[j]
    <3>1. /\ Len(M) + j \in 1..(Len(M) + Len(X)) /\ ~(Len(M) + j <= Len(M))
          /\ (Len(M) + j) - Len(M) = j
      BY <1>2
    <3> QED
      BY <1>3, <3>1
  <2> QED
    BY <2>1, <2>2
<1>5. \A k \in 1..Len(L) : k \in 1..Len(M) \/ \E j \in 1..Len(X) : k = Len(M) + j
  <2> SUFFICES ASSUME NEW k \in 1..Len(L), ~(k \in 1..Len(M))
               PROVE  \E j \in 1..Len(X) : k = Len(M) + j
    OBVIOUS
  <2>1. k - Len(M) \in 1..Len(X) /\ k = Len(M) + (k - Len(M))
    BY <1>2, <1>3
  <2> QED
    BY <2>1
<1>6. Unbroken(L)
  <2>1. DOMAIN L = 1..Len(L) /\ DOMAIN M = 1..Len(M)
    BY <1>1, <1>3, LinesFacts
  <2>2. \A j \in 1..Len(X) : X[j] # Broken
    BY <1>1, LineKinds
  <2>3. ASSUME NEW k \in 1..Len(L) PROVE L[k] # Broken
    <3>1. CASE k \in 1..Len(M)
      <4>1. L[k] = M[k] /\ M[k] # Broken
        BY <1>1, <1>4, <2>1, <3>1 DEF Unbroken
      <4> QED
        BY <4>1
    <3>2. CASE \E j \in 1..Len(X) : k = Len(M) + j
      BY <1>4, <2>2, <3>2
    <3> QED
      BY <1>5, <3>1, <3>2
  <2> QED
    BY <2>1, <2>3 DEF Unbroken
<1>7. \A k \in 0..Len(M) : SectionAt(L, k) = SectionAt(M, k)
  <2> SUFFICES ASSUME NEW k \in 0..Len(M) PROVE SectionAt(L, k) = SectionAt(M, k)
    OBVIOUS
  <2>1. k \in Nat /\ \A i \in 1..k : L[i] = M[i]
    BY <1>2, <1>4
  <2> QED
    BY <2>1, SectionAtSame
<1>8. ASSUME NEW j \in 0..Len(X) PROVE SectionAt(L, Len(M) + j) = s
  <2> DEFINE T == {i \in 0..Len(X) : SectionAt(L, Len(M) + i) # s}
  <2>1. ASSUME T # {} PROVE FALSE
    <3>1. T \in SUBSET Nat
      OBVIOUS
    <3>2. PICK t \in T : \A u \in T : t <= u
      BY <2>1, <3>1, Smallest
    <3>3. t \in 0..Len(X) /\ SectionAt(L, Len(M) + t) # s
      BY <3>2
    <3>4. Len(M) + 0 = Len(M) /\ Len(M) \in 0..Len(M)
      BY <1>2
    <3>5. t # 0
      BY <1>7, <3>3, <3>4
    <3>6. PICK n : n = Len(M) + t
      OBVIOUS
    <3>7. t \in 1..Len(X) /\ n \in Nat \ {0} /\ n - 1 = Len(M) + (t - 1)
          /\ t - 1 \in 0..Len(X) /\ ~(t <= t - 1)
      BY <1>2, <3>3, <3>5, <3>6
    <3>8. L[n].kind # "section"
      BY <1>1, <1>4, <3>6, <3>7
    <3>9. SectionAt(L, n) = SectionAt(L, n - 1)
      BY <3>7, <3>8, SectionAtNext
    <3>10. t - 1 \notin T
      BY <3>2, <3>7
    <3>11. SectionAt(L, Len(M) + (t - 1)) = s
      BY <3>7, <3>10
    <3> QED
      BY <3>3, <3>6, <3>7, <3>9, <3>11
  <2> QED
    BY <2>1
<1>9. ASSUME NEW k \in 1..Len(L), L[k].kind = "variable"
      PROVE  L[k].value = S[<<SectionAt(L, k), L[k].name>>]
  <2>1. CASE k \in 1..Len(M)
    <3>1. L[k] = M[k] /\ SectionAt(L, k) = SectionAt(M, k)
      BY <1>2, <1>4, <1>7, <2>1
    <3> QED
      BY <1>9, <2>1, <3>1 DEF Faithful
  <2>2. CASE \E j \in 1..Len(X) : k = Len(M) + j
    <3>1. PICK j \in 1..Len(X) : k = Len(M) + j
      BY <2>2
    <3>2. L[k] = X[j] /\ j \in 0..Len(X)
      BY <1>4, <3>1
    <3>3. SectionAt(L, k) = s
      BY <1>8, <3>1, <3>2
    <3> QED
      BY <1>1, <3>1, <3>2, <3>3
  <2> QED
    BY <1>5, <2>1, <2>2
<1>10. ASSUME NEW t, NEW v, Holds(M, t, v) PROVE Holds(L, t, v)
  <2>1. PICK k \in 1..Len(M) : Assigns(M, k, t, v)
    BY <1>10 DEF Holds
  <2>2. k \in 1..Len(L) /\ L[k] = M[k] /\ SectionAt(L, k) = SectionAt(M, k)
    BY <1>2, <1>4, <1>7, <2>1
  <2>3. Assigns(L, k, t, v)
    BY <2>1, <2>2 DEF Assigns
  <2> QED
    BY <2>2, <2>3 DEF Holds
<1>11. ASSUME NEW j \in 1..Len(X) PROVE Holds(L, s, X[j].name)
  <2>1. PICK k : k = Len(M) + j
    OBVIOUS
  <2>2. k \in 1..Len(L) /\ L[k] = X[j]
    BY <1>4, <2>1
  <2>3. SectionAt(L, k) = s
    BY <1>8, <2>1
  <2>4. Assigns(L, k, s, X[j].name)
    BY <1>1, <2>2, <2>3 DEF Assigns
  <2> QED
    BY <2>2, <2>4 DEF Holds
<1>12. SectionAt(L, Len(L)) = s
  <2>1. Len(X) \in 0..Len(X)
    BY <1>2
  <2>2. SectionAt(L, Len(M) + Len(X)) = s
    BY <1>8, <2>1
  <2> QED
    BY <1>3, <2>2
<1> QED
  BY <1>3, <1>6, <1>9, <1>10, <1>11, <1>12 DEF Faithful

----------------------------------------------------------------------------
(* config_save, entry by entry: what Written adds up.                      *)

WrittenRun(before, parts, n, f) ==
    f = [i \in 0..n |-> IF i = 0 THEN before ELSE f[i - 1] \o parts[i]]

LEMMA WrittenIs ==
    ASSUME NEW before, NEW parts
    PROVE  Written(before, parts) =
               (CHOOSE f : WrittenRun(before, parts, Len(config), f))[Len(config)]
  BY DEF Written, WrittenRun

LEMMA WrittenRuns ==
    ASSUME NEW before, NEW parts, NEW c \in Nat
    PROVE  \E f : WrittenRun(before, parts, c, f)
<1> DEFINE T == {n \in Nat : ~\E f : WrittenRun(before, parts, n, f)}
<1>1. ASSUME T # {} PROVE FALSE
  <2>1. PICK n \in T : \A u \in T : n <= u
    BY <1>1, Smallest
  <2>2. n \in Nat /\ ~\E f : WrittenRun(before, parts, n, f)
    BY <2>1
  <2>3. CASE n = 0
    <3> DEFINE f == [i \in 0..0 |-> before]
    <3>1. WrittenRun(before, parts, 0, f)
      <4>1. \A i \in 0..0 : i = 0
        OBVIOUS
      <4> QED
        BY <4>1 DEF WrittenRun
    <3> QED
      BY <2>2, <2>3, <3>1
  <2>4. CASE n # 0
    <3>1. PICK m \in Nat : n = m + 1
      <4>1. n - 1 \in Nat /\ n = (n - 1) + 1
        BY <2>2, <2>4
      <4> QED
        BY <4>1
    <3>2. m \notin T
      BY <2>1, <3>1
    <3>3. PICK g : WrittenRun(before, parts, m, g)
      BY <3>2
    <3> DEFINE f == [i \in 0..n |-> IF i = n THEN g[m] \o parts[n] ELSE g[i]]
    <3>4. ASSUME NEW i \in 0..n
          PROVE  f[i] = IF i = 0 THEN before ELSE f[i - 1] \o parts[i]
      <4>1. CASE i = n
        <5>1. i # 0 /\ i - 1 = m /\ m \in 0..n /\ m # n
          BY <2>2, <3>1, <4>1
        <5>2. f[i] = g[m] \o parts[n] /\ f[m] = g[m]
          BY <4>1, <5>1
        <5> HIDE DEF f
        <5> QED
          BY <4>1, <5>1, <5>2
      <4>2. CASE i # n
        <5>1. i \in 0..m /\ f[i] = g[i]
          BY <2>2, <3>1, <4>2
        <5>2. g[i] = IF i = 0 THEN before ELSE g[i - 1] \o parts[i]
          BY <3>3, <5>1 DEF WrittenRun
        <5>3. CASE i = 0
          BY <5>1, <5>2, <5>3
        <5>4. CASE i # 0
          <6>1. i - 1 \in 0..n /\ i - 1 # n
            BY <2>2, <4>2, <5>4
          <6>2. f[i - 1] = g[i - 1]
            BY <6>1
          <6> HIDE DEF f
          <6> QED
            BY <5>1, <5>2, <5>4, <6>2
        <5> HIDE DEF f
        <5> QED
          BY <5>3, <5>4
      <4> HIDE DEF f
      <4> QED
        BY <4>1, <4>2
    <3>5. f = [i \in 0..n |-> f[i]]
      OBVIOUS
    <3> HIDE DEF f
    <3>6. WrittenRun(before, parts, n, f)
      BY <3>4, <3>5 DEF WrittenRun
    <3> QED
      BY <2>2, <3>6
  <2> QED
    BY <2>3, <2>4
<1> QED
  BY <1>1

LEMMA WrittenFacts ==
    ASSUME NEW before, NEW parts, Len(config) \in Nat
    PROVE  \E f : /\ f[0] = before
                  /\ \A i \in 1..Len(config) : f[i] = Joined(f[i - 1], parts[i])
                  /\ f[Len(config)] = Written(before, parts)
<1>1. PICK n \in Nat : n = Len(config)
  OBVIOUS
<1>2. PICK f : f = CHOOSE g : WrittenRun(before, parts, n, g)
  OBVIOUS
<1>3. WrittenRun(before, parts, n, f)
  BY <1>2, WrittenRuns
<1>4. f[0] = before
  BY <1>3 DEF WrittenRun
<1>5. ASSUME NEW i \in 1..n PROVE f[i] = Joined(f[i - 1], parts[i])
  <2>1. i \in 0..n /\ i # 0
    OBVIOUS
  <2>2. f[i] = IF i = 0 THEN before ELSE f[i - 1] \o parts[i]
    BY <1>3, <2>1 DEF WrittenRun
  <2> QED
    BY <2>1, <2>2 DEF Joined
<1>6. f[n] = Written(before, parts)
  BY <1>1, <1>2, WrittenIs
<1> QED
  BY <1>1, <1>4, <1>5, <1>6

(* The lines of one section.                                               *)
LEMMA SectionLinesFacts ==
    ASSUME Sound(config, heap), NEW i \in DOMAIN config
    PROVE  /\ Body(SectionLines(config[i]), config[i].name, SettingsOf(config, heap))
           /\ Len(SectionLines(config[i])) = Len(config[i].value)
           /\ DOMAIN config[i].value = 1..Len(config[i].value)
           /\ \A j \in DOMAIN config[i].value :
                  SectionLines(config[i])[j].name = config[i].value[j].name
<1>1. PICK c, h, S : c = config /\ h = heap /\ S = SettingsOf(config, heap)
  OBVIOUS
<1>2. c \in Configs /\ Owns(Places(c), h) /\ S = ValuesOf(Places(c), h)
  BY <1>1 DEF Sound, SettingsOf
<1>3. PICK e, d, s : e = config[i] /\ d = e.value /\ s = e.name
  OBVIOUS
<1>4. d \in Dicts
  <2>1. c[i].value \in Dicts
    BY <1>1, <1>2, EntryAt DEF Configs
  <2> QED
    BY <1>1, <1>3, <2>1
<1>5. Len(d) \in Nat /\ DOMAIN d = 1..Len(d)
  BY <1>4, EntryAt DEF Dicts
<1>6. PICK X : X = SectionLines(e)
  OBVIOUS
<1>7. X = [j \in 1..Len(d) |-> Assignment(d[j].name, h[d[j].value])]
  BY <1>1, <1>3, <1>5, <1>6 DEF SectionLines
<1>8. ASSUME NEW j \in 1..Len(d)
      PROVE  /\ X[j] \in Lines /\ X[j].kind = "variable" /\ X[j].name = d[j].name
             /\ X[j].value = S[<<s, d[j].name>>]
  <2>1. PICK v, a : v = d[j].name /\ a = d[j].value
    OBVIOUS
  <2>2. v \in Variables /\ a \in Addrs
    BY <1>4, <1>5, <2>1, EntryAt DEF Dicts
  <2>3. <<s, v>> \in Keys /\ Places(c)[<<s, v>>] = a
    BY <1>1, <1>2, <1>3, <1>5, <2>1, PlaceAt
  <2>4. a # NULL /\ h[a] # NULL /\ h[a] \in Strings
    BY <1>2, <2>2, <2>3, NullFacts DEF Owns
  <2>5. S[<<s, v>>] = h[a]
    BY <1>2, <2>3, <2>4 DEF ValuesOf
  <2>6. X[j] = Assignment(v, h[a])
    BY <1>7, <2>1
  <2> QED
    BY <2>1, <2>2, <2>4, <2>5, <2>6, LineKinds
<1>9. X \in Seq(Lines) /\ Len(X) = Len(d)
  <2>1. X \in [1..Len(d) -> Lines]
    BY <1>7, <1>8
  <2>2. X \in Seq(Lines)
    BY <1>5, <2>1, SeqDef
  <2>3. DOMAIN X = 1..Len(d) /\ DOMAIN X = 1..Len(X) /\ Len(X) \in Nat
    BY <2>1, <2>2, LenProperties
  <2>4. Len(X) = Len(d)
    <3>1. PICK m \in Nat, n \in Nat : m = Len(X) /\ n = Len(d) /\ 1..m = 1..n
      BY <1>5, <2>3
    <3>2. \A x : x \in 1..m <=> x \in 1..n
      BY <3>1
    <3>3. m \in 1..m \/ m = 0
      OBVIOUS
    <3>4. n \in 1..n \/ n = 0
      OBVIOUS
    <3>5. m <= n /\ n <= m
      BY <3>2, <3>3, <3>4
    <3> QED
      BY <3>1, <3>5
  <2> QED
    BY <2>2, <2>4
<1>10. Body(X, s, S)
  BY <1>8, <1>9 DEF Body
<1> QED
  BY <1>1, <1>3, <1>5, <1>6, <1>8, <1>9, <1>10

----------------------------------------------------------------------------
(* After the first time, and during the second.                            *)

AllOf(M, i) ==
    \A j \in DOMAIN config[i].value : Holds(M, config[i].name, config[i].value[j].name)

FirstTime(M, n) ==
    /\ Faithful(M, SettingsOf(config, heap))
    /\ SectionAt(M, Len(M)) = Default
    /\ \A i \in 1..n : IsDefault(config[i]) => AllOf(M, i)

SecondTime(M, n) ==
    /\ Faithful(M, SettingsOf(config, heap))
    /\ \A i \in 1..Len(config) : IsDefault(config[i]) \/ i <= n => AllOf(M, i)

LEMMA AllOfMore ==
    ASSUME NEW M, NEW L, \A t, v : Holds(M, t, v) => Holds(L, t, v), NEW i, AllOf(M, i)
    PROVE  AllOf(L, i)
  BY DEF AllOf

LEMMA FirstTimeStep ==
    ASSUME Sound(config, heap), NEW i \in 1..Len(config), NEW M, FirstTime(M, i - 1),
           NEW L, L = Joined(M, DefaultLines[i])
    PROVE  FirstTime(L, i)
<1>1. Len(config) \in Nat /\ DOMAIN config = 1..Len(config)
  <2>1. config \in Configs
    BY DEF Sound
  <2> QED
    BY <2>1, EntryAt DEF Configs
<1>2. PICK S : S = SettingsOf(config, heap)
  OBVIOUS
<1>3. Faithful(M, S) /\ SectionAt(M, Len(M)) = Default
  BY <1>2 DEF FirstTime
<1>4. \A k \in 1..i : k \in 1..(i - 1) \/ k = i
  BY <1>1
<1>5. CASE ~IsDefault(config[i])
  <2>1. L = M
    <3>1. DefaultLines[i] = <<>>
      BY <1>1, <1>5 DEF DefaultLines
    <3>2. M \in Seq(Lines)
      BY <1>3 DEF Faithful
    <3>3. M \o <<>> = M
      BY <3>2, ConcatEmptySeq
    <3> QED
      BY <3>1, <3>3 DEF Joined
  <2> QED
    BY <1>4, <1>5, <2>1 DEF FirstTime
<1>6. CASE IsDefault(config[i])
  <2>1. PICK X : X = SectionLines(config[i])
    OBVIOUS
  <2>2. L = Joined(M, X)
    BY <1>1, <1>6, <2>1 DEF DefaultLines
  <2>3. config[i].name = Default
    BY <1>6 DEF IsDefault
  <2>4. /\ Body(X, Default, S)
        /\ Len(X) = Len(config[i].value) /\ DOMAIN config[i].value = 1..Len(config[i].value)
        /\ \A j \in DOMAIN config[i].value : X[j].name = config[i].value[j].name
    BY <1>1, <1>2, <2>1, <2>3, SectionLinesFacts
  <2>5. /\ Faithful(L, S) /\ SectionAt(L, Len(L)) = Default
        /\ \A t, v : Holds(M, t, v) => Holds(L, t, v)
        /\ \A j \in 1..Len(X) : Holds(L, Default, X[j].name)
    BY <1>3, <2>2, <2>4, FaithfulBody
  <2>6. AllOf(L, i)
    BY <2>3, <2>4, <2>5 DEF AllOf
  <2>7. \A k \in 1..(i - 1) : IsDefault(config[k]) => AllOf(L, k)
    BY <2>5, AllOfMore DEF FirstTime
  <2> QED
    BY <1>2, <1>4, <2>5, <2>6, <2>7 DEF FirstTime
<1> QED
  BY <1>5, <1>6

LEMMA SecondTimeStep ==
    ASSUME Sound(config, heap), NEW i \in 1..Len(config), NEW M, SecondTime(M, i - 1),
           NEW L, L = Joined(M, OtherLines[i])
    PROVE  SecondTime(L, i)
<1>0. config \in Configs
  BY DEF Sound
<1>1. Len(config) \in Nat /\ DOMAIN config = 1..Len(config)
  BY <1>0, EntryAt DEF Configs
<1>2. PICK S : S = SettingsOf(config, heap)
  OBVIOUS
<1>3. Faithful(M, S) /\ M \in Seq(Lines)
  BY <1>2 DEF SecondTime, Faithful
<1>4. \A k \in 1..Len(config) : k <= i => k <= i - 1 \/ k = i
  BY <1>1
<1>5. CASE IsDefault(config[i])
  <2>1. L = M
    <3>1. OtherLines[i] = <<>>
      BY <1>1, <1>5 DEF OtherLines
    <3>2. M \o <<>> = M
      BY <1>3, ConcatEmptySeq
    <3> QED
      BY <3>1, <3>2 DEF Joined
  <2> QED
    BY <1>4, <1>5, <2>1 DEF SecondTime
<1>6. CASE ~IsDefault(config[i])
  <2>1. PICK X, s : X = SectionLines(config[i]) /\ s = config[i].name
    OBVIOUS
  <2>2. s \in Sections
    BY <1>0, <1>1, <2>1, EntryAt DEF Configs
  <2>3. /\ Body(X, s, S)
        /\ Len(X) = Len(config[i].value) /\ DOMAIN config[i].value = 1..Len(config[i].value)
        /\ \A j \in DOMAIN config[i].value : X[j].name = config[i].value[j].name
    BY <1>1, <1>2, <2>1, SectionLinesFacts
  <2>4. PICK N : N = FollowedBy(M, Heading(s))
    OBVIOUS
  <2>5. L = Joined(N, X)
    <3>1. OtherLines[i] = <<Heading(s)>> \o X
      BY <1>1, <1>6, <2>1 DEF OtherLines, Saved
    <3>2. L = M \o (<<Heading(s)>> \o X)
      BY <3>1 DEF Joined
    <3>3. Heading(s) \in Lines /\ X \in Seq(Lines)
      BY <2>2, <2>3, LineKinds DEF Body
    <3>4. <<Heading(s)>> \in Seq(Lines)
      BY <3>3
    <3>5. M \o (<<Heading(s)>> \o X) = (M \o <<Heading(s)>>) \o X
      BY <1>3, <3>3, <3>4, ConcatAssociative
    <3>6. M \o <<Heading(s)>> = Append(M, Heading(s))
      BY <1>3, <3>3, AppendIsConcat
    <3> QED
      BY <2>4, <3>2, <3>5, <3>6 DEF Joined, FollowedBy
  <2>6. /\ Faithful(N, S) /\ SectionAt(N, Len(N)) = s
        /\ \A t, v : Holds(M, t, v) => Holds(N, t, v)
    BY <1>3, <2>2, <2>4, FaithfulHeading
  <2>7. /\ Faithful(L, S)
        /\ \A t, v : Holds(N, t, v) => Holds(L, t, v)
        /\ \A j \in 1..Len(X) : Holds(L, s, X[j].name)
    BY <2>3, <2>5, <2>6, FaithfulBody
  <2>8. AllOf(L, i)
    BY <2>1, <2>3, <2>7 DEF AllOf
  <2>9. \A k \in 1..Len(config) : IsDefault(config[k]) \/ k <= i - 1 => AllOf(L, k)
    BY <2>6, <2>7, AllOfMore DEF SecondTime
  <2> QED
    BY <1>2, <1>4, <2>7, <2>8, <2>9 DEF SecondTime
<1> QED
  BY <1>5, <1>6

(* A saved file says what the settings are, and leaves none of them out.   *)
LEMMA SavedFacts ==
    ASSUME Sound(config, heap)
    PROVE  /\ Faithful(SavedLines, SettingsOf(config, heap))
           /\ \A k \in Keys : SettingsOf(config, heap)[k] # NULL => Holds(SavedLines, k[1], k[2])
<1>0. config \in Configs
  BY DEF Sound
<1>1. Len(config) \in Nat /\ DOMAIN config = 1..Len(config)
  BY <1>0, EntryAt DEF Configs
<1>2. PICK n \in Nat : n = Len(config)
  BY <1>1
<1>3. PICK f : /\ f[0] = <<>>
               /\ \A i \in 1..n : f[i] = Joined(f[i - 1], DefaultLines[i])
               /\ f[n] = Written(<<>>, DefaultLines)
  BY <1>2, WrittenFacts
<1>4. FirstTime(f[0], 0)
  <2>1. Faithful(<<>>, SettingsOf(config, heap)) /\ SectionAt(<<>>, 0) = Default
    BY FaithfulNone
  <2>2. Len(<<>>) = 0 /\ \A i \in 1..0 : FALSE
    OBVIOUS
  <2> QED
    BY <1>3, <2>1, <2>2 DEF FirstTime
<1>5. FirstTime(f[n], n)
  <2> DEFINE T == {i \in 0..n : ~FirstTime(f[i], i)}
  <2>1. ASSUME T # {} PROVE FALSE
    <3>1. T \in SUBSET Nat
      OBVIOUS
    <3>2. PICK t \in T : \A u \in T : t <= u
      BY <2>1, <3>1, Smallest
    <3>3. t \in 0..n /\ ~FirstTime(f[t], t)
      BY <3>2
    <3>4. t # 0
      BY <1>4, <3>3
    <3>5. t \in 1..n /\ t - 1 \in 0..n /\ ~(t <= t - 1)
      BY <3>3, <3>4
    <3>6. t - 1 \notin T
      BY <3>2, <3>5
    <3>7. FirstTime(f[t - 1], t - 1)
      BY <3>5, <3>6
    <3>8. FirstTime(f[t], t)
      BY <1>2, <1>3, <3>5, <3>7, FirstTimeStep
    <3> QED
      BY <3>3, <3>8
  <2> QED
    BY <2>1
<1>6. PICK g : /\ g[0] = f[n]
               /\ \A i \in 1..n : g[i] = Joined(g[i - 1], OtherLines[i])
               /\ g[n] = Written(f[n], OtherLines)
  BY <1>2, WrittenFacts
<1>7. SecondTime(g[0], 0)
  <2>1. \A i \in 1..n : ~(i <= 0)
    OBVIOUS
  <2> QED
    BY <1>2, <1>5, <1>6, <2>1 DEF FirstTime, SecondTime
<1>8. SecondTime(g[n], n)
  <2> DEFINE T == {i \in 0..n : ~SecondTime(g[i], i)}
  <2>1. ASSUME T # {} PROVE FALSE
    <3>1. T \in SUBSET Nat
      OBVIOUS
    <3>2. PICK t \in T : \A u \in T : t <= u
      BY <2>1, <3>1, Smallest
    <3>3. t \in 0..n /\ ~SecondTime(g[t], t)
      BY <3>2
    <3>4. t # 0
      BY <1>7, <3>3
    <3>5. t \in 1..n /\ t - 1 \in 0..n /\ ~(t <= t - 1)
      BY <3>3, <3>4
    <3>6. t - 1 \notin T
      BY <3>2, <3>5
    <3>7. SecondTime(g[t - 1], t - 1)
      BY <3>5, <3>6
    <3>8. SecondTime(g[t], t)
      BY <1>2, <1>6, <3>5, <3>7, SecondTimeStep
    <3> QED
      BY <3>3, <3>8
  <2> QED
    BY <2>1
<1>9. g[n] = SavedLines
  BY <1>3, <1>6 DEF SavedLines
<1>10. ASSUME NEW k \in Keys, SettingsOf(config, heap)[k] # NULL
       PROVE  Holds(SavedLines, k[1], k[2])
  <2>1. Places(config)[k] # NULL
    BY <1>10 DEF SettingsOf, ValuesOf
  <2>2. PICK i \in DOMAIN config : \E j \in DOMAIN config[i].value :
            config[i].name = k[1] /\ config[i].value[j].name = k[2]
    BY <1>0, <2>1, PlaceFrom
  <2>3. i \in 1..n /\ i <= n
    BY <1>1, <1>2
  <2>4. AllOf(SavedLines, i)
    BY <1>2, <1>8, <1>9, <2>3 DEF SecondTime
  <2> QED
    BY <2>2, <2>4 DEF AllOf
<1> QED
  BY <1>8, <1>9, <1>10 DEF SecondTime

----------------------------------------------------------------------------
(* What is loaded back, from all of a saved file and from a part of it.    *)

LEMMA SavedContent ==
    ASSUME Sound(config, heap)
    PROVE  SavedLines \in Seq(Lines) /\ Content(SavedLines) = SettingsOf(config, heap)
<1>1. PICK S, L : S = SettingsOf(config, heap) /\ L = SavedLines
  OBVIOUS
<1>2. Faithful(L, S) /\ \A k \in Keys : S[k] # NULL => Holds(L, k[1], k[2])
  BY <1>1, SavedFacts
<1>3. L \in Seq(Lines)
  BY <1>2 DEF Faithful
<1>4. \A k \in Keys : Content(L)[k] = S[k]
  BY <1>2, FaithfulContent
<1>5. Content(L) \in Settings /\ S \in Settings
  BY <1>1, <1>3, ContentType, SettingsFacts
<1>6. Content(L) = S
  BY <1>4, <1>5 DEF Settings
<1> QED
  BY <1>1, <1>3, <1>6

Beginning(L, n) == SubSeq(L, 1, n)

LEMMA FaithfulBeginning ==
    ASSUME NEW L, NEW S, Faithful(L, S), NEW n \in 0..Len(L), NEW P, P = Beginning(L, n)
    PROVE  Faithful(P, S) /\ Len(P) = n /\ SectionAt(P, n) = SectionAt(L, n)
<1>1. /\ L \in Seq(Lines) /\ Unbroken(L)
      /\ Len(L) \in Nat /\ DOMAIN L = 1..Len(L)
      /\ \A k \in 1..Len(L) : L[k] \in Lines
  BY LinesFacts DEF Faithful
<1>2. /\ P \in Seq(Lines) /\ Len(P) = n
      /\ \A k \in 1..n : P[k] = L[k]
  <2>1. 1 \in Int /\ n \in Int /\ \A k \in 1..n : L[k] \in Lines
    BY <1>1
  <2>2. /\ P \in Seq(Lines)
        /\ Len(P) = IF 1 <= n THEN n - 1 + 1 ELSE 0
        /\ \A k \in 1..(n - 1 + 1) : P[k] = L[1 + k - 1]
    BY <2>1, SubSeqProperties DEF Beginning
  <2>3. n - 1 + 1 = n /\ (~(1 <= n) => n = 0) /\ \A k \in 1..n : 1 + k - 1 = k
    BY <1>1
  <2> QED
    BY <2>2, <2>3
<1>3. \A k \in 1..n : k \in 1..Len(L)
  BY <1>1
<1>4. Unbroken(P)
  <2>1. DOMAIN P = 1..n
    BY <1>2, LinesFacts
  <2> QED
    BY <1>1, <1>2, <1>3, <2>1 DEF Unbroken
<1>5. ASSUME NEW k \in 0..n PROVE SectionAt(P, k) = SectionAt(L, k)
  <2>1. k \in Nat /\ \A j \in 1..k : P[j] = L[j]
    BY <1>1, <1>2
  <2> QED
    BY <2>1, SectionAtSame
<1>6. ASSUME NEW k \in 1..n, P[k].kind = "variable"
      PROVE  P[k].value = S[<<SectionAt(P, k), P[k].name>>]
  <2>1. P[k] = L[k] /\ k \in 1..Len(L) /\ k \in 0..n
    BY <1>2, <1>3
  <2>2. SectionAt(P, k) = SectionAt(L, k)
    BY <1>5, <2>1
  <2>3. L[k].value = S[<<SectionAt(L, k), L[k].name>>]
    BY <1>6, <2>1 DEF Faithful
  <2> QED
    BY <2>1, <2>2, <2>3
<1>7. n \in 0..n
  BY <1>1
<1> QED
  BY <1>2, <1>4, <1>5, <1>6, <1>7 DEF Faithful

LEMMA ContentBroken ==
    ASSUME NEW L \in Seq(Lines), Unbroken(L), NEW M, M = FollowedBy(L, Broken)
    PROVE  M \in Seq(Lines) /\ Content(M) = Content(L)
<1>1. PICK n \in Nat : n = Len(L)
  BY LinesFacts
<1>2. /\ M \in Seq(Lines) /\ Len(M) = n + 1
      /\ \A k \in 1..n : M[k] = L[k]
      /\ M[n + 1] = Broken
  BY <1>1, LineKinds, AppendProperties DEF FollowedBy
<1>3. DOMAIN L = 1..n /\ DOMAIN M = 1..(n + 1)
  BY <1>1, <1>2, LinesFacts
<1>4. Readable(L) = 1..n
  BY <1>1, ReadableAll
<1>5. Readable(M) = 1..n
  <2>1. ASSUME NEW k \in 1..n PROVE k \in Readable(M)
    <3>1. \A j \in 1..k : j \in 1..n
      OBVIOUS
    <3>2. \A j \in 1..n : M[j] # Broken
      BY <1>2, <1>3 DEF Unbroken
    <3>3. k \in DOMAIN M
      BY <1>3
    <3> QED
      BY <3>1, <3>2, <3>3 DEF Readable
  <2>2. n + 1 \notin Readable(M)
    <3>1. n + 1 \in 1..(n + 1)
      OBVIOUS
    <3> QED
      BY <1>2, <3>1 DEF Readable
  <2>3. \A k \in 1..(n + 1) : k \in 1..n \/ k = n + 1
    OBVIOUS
  <2>4. Readable(M) \subseteq 1..(n + 1)
    BY <1>3 DEF Readable
  <2> QED
    BY <2>1, <2>2, <2>3, <2>4
<1>6. ASSUME NEW k \in 1..n PROVE M[k] = L[k] /\ SectionAt(M, k) = SectionAt(L, k)
  <2>1. k \in Nat /\ \A j \in 1..k : M[j] = L[j]
    BY <1>2
  <2> QED
    BY <1>2, <2>1, SectionAtSame
<1>7. ASSUME NEW s, NEW v PROVE ContentAt(M, s, v) = ContentAt(L, s, v)
  <2>1. AssignsOf(M, s, v) = AssignsOf(L, s, v)
    BY <1>4, <1>5, <1>6 DEF AssignsOf, Assigns
  <2>2. CASE AssignsOf(L, s, v) = {}
    BY <2>1, <2>2, ContentAtIs
  <2>3. CASE AssignsOf(L, s, v) # {}
    <3>1. PICK k : /\ LastOf(AssignsOf(L, s, v), k)
                   /\ ContentAt(L, s, v) = L[k].value
                   /\ k \in 1..Len(L)
      BY <2>3, ContentAtFacts
    <3>2. M \in Seq(Lines)
      BY <1>2
    <3>3. LastOf(AssignsOf(M, s, v), k)
      BY <2>1, <3>1
    <3>4. ContentAt(M, s, v) = ValueOn(M, k)
      BY <3>2, <3>3, ContentLast
    <3> QED
      BY <1>1, <1>6, <3>1, <3>4 DEF ValueOn
  <2> QED
    BY <2>2, <2>3
<1> QED
  BY <1>2, <1>7 DEF Content

CutOf(some, S) ==
    \E cut \in Keys : \A k \in Keys :
        \/ some[k] \in {NULL, S[k]}
        \/ k = cut /\ S[k] # NULL /\ some[k] = Empty

LEMMA CutFacts ==
    ASSUME NEW L, NEW S, Faithful(L, S), NEW C \in Cuts(L)
    PROVE  C \in Seq(Lines) /\ CutOf(Content(C), S)
<1>1. /\ L \in Seq(Lines) /\ Len(L) \in Nat /\ DOMAIN L = 1..Len(L)
      /\ \A n \in 1..Len(L) : n \in 0..Len(L) /\ n - 1 \in 0..Len(L)
  BY LinesFacts DEF Faithful
<1>2. PICK key : key \in Keys
  <2>1. PICK v : v \in Variables
    BY FileAssumption
  <2>2. <<Default, v>> \in Keys
    BY <2>1, NameAssumption DEF Keys
  <2> QED
    BY <2>2
<1>3. ASSUME NEW P, Faithful(P, S) PROVE CutOf(Content(P), S)
  <2>1. \A k \in Keys : Content(P)[k] \in {NULL, S[k]}
    BY <1>3, FaithfulContent
  <2> QED
    BY <1>2, <2>1 DEF CutOf
<1>4. CASE \E n \in 0..Len(L) : C = Beginning(L, n)
  <2>1. Faithful(C, S)
    BY <1>4, FaithfulBeginning
  <2> QED
    BY <1>3, <2>1 DEF Faithful
<1>5. CASE \E n \in 1..Len(L) : C = FollowedBy(Beginning(L, n - 1), Broken)
  <2>1. PICK n \in 1..Len(L) : C = FollowedBy(Beginning(L, n - 1), Broken)
    BY <1>5
  <2>2. PICK P : P = Beginning(L, n - 1)
    OBVIOUS
  <2>3. Faithful(P, S)
    BY <1>1, <2>2, FaithfulBeginning
  <2>4. C \in Seq(Lines) /\ Content(C) = Content(P)
    BY <2>1, <2>2, <2>3, ContentBroken DEF Faithful
  <2> QED
    BY <1>3, <2>3, <2>4
<1>6. CASE \E n \in 1..Len(L) :
              /\ L[n].kind = "variable"
              /\ C = FollowedBy(Beginning(L, n - 1), Assignment(L[n].name, Empty))
  <2>1. PICK n \in 1..Len(L) :
            /\ L[n].kind = "variable"
            /\ C = FollowedBy(Beginning(L, n - 1), Assignment(L[n].name, Empty))
    BY <1>6
  <2>2. PICK P, m, v : P = Beginning(L, m) /\ m = n - 1 /\ v = L[n].name
    OBVIOUS
  <2>3. m \in 0..Len(L)
    BY <1>1, <2>2
  <2>4. Faithful(P, S) /\ Len(P) = m /\ SectionAt(P, m) = SectionAt(L, m)
    BY <2>2, <2>3, FaithfulBeginning
  <2>5. v \in Variables /\ L[n].value \in Strings /\ L[n].value # NULL
    BY <1>1, <2>1, <2>2, LinesFacts, NullFacts
  <2>6. PICK s : s = SectionAt(L, m)
    OBVIOUS
  <2>7. SectionAt(L, n) = s
    <3>1. n \in Nat \ {0} /\ L[n].kind # "section"
      BY <2>1
    <3>2. SectionAt(L, n) = SectionAt(L, n - 1)
      BY <3>1, SectionAtNext
    <3> QED
      BY <2>2, <2>6, <3>2
  <2>8. s \in Sections
    BY <1>1, <2>3, <2>6, SectionAtType
  <2>9. <<s, v>> \in Keys
    BY <2>5, <2>8 DEF Keys
  <2>10. S[<<s, v>>] # NULL
    <3>1. L[n].value = S[<<SectionAt(L, n), L[n].name>>]
      BY <2>1 DEF Faithful
    <3> QED
      BY <2>2, <2>5, <2>7, <3>1
  <2>11. PICK l : l = Assignment(v, Empty)
    OBVIOUS
  <2>12. l \in Lines /\ l.kind = "variable" /\ l.name = v /\ l.value = Empty /\ l # Broken
    <3>1. l \in Lines /\ l.kind = "variable" /\ l.name = v /\ l.value = Empty
      BY <2>5, <2>11, NameAssumption, LineKinds
    <3> QED
      BY <3>1, LineKinds
  <2>13. C = FollowedBy(P, l) /\ P \in Seq(Lines) /\ Unbroken(P)
    BY <2>1, <2>2, <2>4, <2>11 DEF Faithful
  <2>14. Content(C) = Changed(Content(P), <<SectionAt(P, Len(P)), l.name>>, l.value)
    BY <2>12, <2>13, ContentAppend
  <2>15. Content(C) = Changed(Content(P), <<s, v>>, Empty)
    BY <2>4, <2>6, <2>12, <2>14
  <2>16. C \in Seq(Lines)
    BY <2>12, <2>13, AppendLine
  <2>17. \A k \in Keys : Content(P)[k] \in {NULL, S[k]}
    BY <2>4, FaithfulContent
  <2>18. Content(P) \in Settings
    BY <2>13, ContentType
  <2>19. \A k \in Keys : Content(C)[k] = IF k = <<s, v>> THEN Empty ELSE Content(P)[k]
    BY <2>15, <2>18 DEF Changed, Settings
  <2> QED
    BY <2>9, <2>10, <2>16, <2>17, <2>19 DEF CutOf
<1>7. \/ \E n \in 0..Len(L) : C = Beginning(L, n)
      \/ \E n \in 1..Len(L) : C = FollowedBy(Beginning(L, n - 1), Broken)
      \/ \E n \in 1..Len(L) :
             /\ L[n].kind = "variable"
             /\ C = FollowedBy(Beginning(L, n - 1), Assignment(L[n].name, Empty))
  BY <1>1 DEF Cuts, Beginning, FollowedBy
<1> QED
  BY <1>4, <1>5, <1>6, <1>7

----------------------------------------------------------------------------
(* The inductive invariant: each value in memory is that of one setting,   *)
(* and a load that is under way is in the section of the last heading it   *)
(* read, has met no error, and has merged what it read into the settings.  *)

Merging(l, S) ==
    /\ l \in Loads
    /\ Unbroken(l.read)
    /\ l.section = SectionAt(l.read, Len(l.read))
    /\ S = Override(l.over, Content(l.read))

ConfigInv ==
    /\ Sound(config, heap)
    /\ files \in [Paths -> Files]
    /\ load # NULL => Merging(load, SettingsOf(config, heap))

LEMMA ConfigInvInit == Init => ConfigInv
<1> SUFFICES ASSUME Init PROVE ConfigInv
  OBVIOUS
<1>1. config = <<>> /\ heap = [a \in Addrs |-> NULL] /\ load = NULL
  BY DEF Init
<1>2. heap \in [Addrs -> Strings \cup {NULL}] /\ \A a \in Addrs : heap[a] = NULL
  BY <1>1
<1>3. Sound(config, heap)
  BY <1>1, <1>2, EmptyDoes
<1>4. files \in [Paths -> Files]
  BY FileAssumption DEF Init
<1> QED
  BY <1>1, <1>3, <1>4 DEF ConfigInv

LEMMA OpenedFacts ==
    ASSUME files \in [Paths -> Files], NEW path \in Paths, files[path] # NULL,
           NEW paths \in Seq(Paths), NEW S \in Settings
    PROVE  Merging(Opened(path, paths, S), S)
<1>1. PICK l : l = Opened(path, paths, S)
  OBVIOUS
<1>2. files[path] \in Seq(Lines)
  BY DEF Files
<1>3. Default \in Sections /\ <<>> \in Seq(Lines)
  BY NameAssumption, EmptySeq
<1>4. l = [section |-> Default, rest |-> files[path], paths |-> paths,
           read |-> <<>>, over |-> S]
  BY <1>1 DEF Opened
<1>5. l \in Loads
  BY <1>2, <1>3, <1>4 DEF Loads
<1>6. l.section = Default /\ l.read = <<>> /\ l.over = S
  BY <1>4
<1>7. Unbroken(<<>>) /\ SectionAt(<<>>, 0) = Default
  BY FaithfulNone DEF Faithful
<1>8. Len(<<>>) = 0
  OBVIOUS
<1>9. Override(S, Content(<<>>)) = S
  BY OverrideNothing
<1> QED
  BY <1>1, <1>5, <1>6, <1>7, <1>8, <1>9 DEF Merging

LEMMA NextLineFacts ==
    ASSUME load \in Loads, load.rest # <<>>
    PROVE  /\ Line \in Lines
           /\ NextLine \in Loads
           /\ NextLine.section = load.section /\ NextLine.over = load.over
           /\ NextLine.read = FollowedBy(load.read, Line)
<1>1. /\ load.section \in Sections /\ load.rest \in Seq(Lines) /\ load.paths \in Seq(Paths)
      /\ load.read \in Seq(Lines) /\ load.over \in Settings
  BY DEF Loads
<1>2. Line \in Lines /\ Tail(load.rest) \in Seq(Lines)
  BY <1>1, HeadTailProperties DEF Line
<1>3. FollowedBy(load.read, Line) \in Seq(Lines)
  BY <1>1, <1>2, AppendProperties DEF FollowedBy
<1>4. NextLine = [load EXCEPT !.rest = Tail(load.rest), !.read = FollowedBy(load.read, Line)]
  BY DEF NextLine, FollowedBy
<1>5. /\ NextLine.section = load.section /\ NextLine.over = load.over
      /\ NextLine.read = FollowedBy(load.read, Line)
  BY <1>4 DEF Loads
<1>6. NextLine \in Loads
  BY <1>2, <1>3, <1>4 DEF Loads
<1> QED
  BY <1>2, <1>5, <1>6
----------------------------------------------------------------------------
(* Each action keeps the invariant; beside it, what the action does to the *)
(* settings, for the refinement.                                           *)

LEMMA InvConfigSet ==
    ASSUME ConfigInv, NEW s \in Sections, NEW v \in Variables,
           NEW value \in Strings \cup {NULL}, ConfigSet(s, v, value)
    PROVE  /\ ConfigInv'
           /\ \/ SettingsOf(config', heap') = Changed(SettingsOf(config, heap), <<s, v>>, value)
              \/ SettingsOf(config', heap') = SettingsOf(config, heap)
<1>1. Sound(config, heap) /\ files \in [Paths -> Files]
  BY DEF ConfigInv
<1>2. files' = files /\ load' = NULL
  BY DEF ConfigSet, Idle
<1>3. \/ value \in Strings /\ SetValue(s, v, value)
      \/ SetFails(s, v)
      \/ value = NULL /\ SetNull(s, v)
  BY DEF ConfigSet
<1>4. /\ Sound(config', heap')
      /\ \/ SettingsOf(config', heap') = Changed(SettingsOf(config, heap), <<s, v>>, value)
         \/ SettingsOf(config', heap') = SettingsOf(config, heap)
  <2>1. CASE value \in Strings /\ SetValue(s, v, value)
    BY <1>1, <2>1, SetValueDoes
  <2>2. CASE SetFails(s, v)
    BY <1>1, <2>2, SetFailsDoes
  <2>3. CASE value = NULL /\ SetNull(s, v)
    BY <1>1, <2>3, SetNullDoes
  <2> QED
    BY <1>3, <2>1, <2>2, <2>3
<1> QED
  BY <1>1, <1>2, <1>4 DEF ConfigInv

LEMMA InvConfigReset ==
    ASSUME ConfigInv, ConfigReset
    PROVE  ConfigInv' /\ SettingsOf(config', heap') = [k \in Keys |-> NULL]
<1>1. Sound(config, heap) /\ files \in [Paths -> Files]
  BY DEF ConfigInv
<1>2. files' = files /\ load' = NULL
  BY DEF ConfigReset, Idle
<1>3. Sound(config', heap') /\ SettingsOf(config', heap') = [k \in Keys |-> NULL]
  BY <1>1, ResetDoes
<1> QED
  BY <1>1, <1>2, <1>3 DEF ConfigInv

LEMMA InvNewCopy ==
    ASSUME ConfigInv, NewCopy
    PROVE  ConfigInv' /\ SettingsOf(config', heap') = SettingsOf(config, heap)
<1>1. Sound(config, heap) /\ files \in [Paths -> Files]
  BY DEF ConfigInv
<1>2. files' = files /\ load' = NULL
  BY DEF NewCopy, Idle
<1>3. Sound(config', heap') /\ SettingsOf(config', heap') = SettingsOf(config, heap)
  BY <1>1, NewCopyDoes
<1> QED
  BY <1>1, <1>2, <1>3 DEF ConfigInv

LEMMA InvLoadFile ==
    ASSUME ConfigInv, NEW path \in Paths, LoadFile(path)
    PROVE  ConfigInv'
<1>1. Sound(config, heap) /\ files \in [Paths -> Files]
  BY DEF ConfigInv
<1>2. PICK S : S = SettingsOf(config, heap)
  OBVIOUS
<1>3. S \in Settings
  BY <1>1, <1>2, SettingsFacts
<1>4. /\ files[path] # NULL /\ load' = Opened(path, <<>>, S)
      /\ config' = config /\ heap' = heap /\ files' = files
  BY <1>2, SettingsAre DEF LoadFile
<1>5. <<>> \in Seq(Paths)
  BY EmptySeq
<1>6. Merging(Opened(path, <<>>, S), S)
  BY <1>1, <1>3, <1>4, <1>5, OpenedFacts
<1> QED
  BY <1>1, <1>2, <1>4, <1>6 DEF ConfigInv

LEMMA InvLoadPreferences ==
    ASSUME ConfigInv, LoadPreferences
    PROVE  ConfigInv'
<1>1. Sound(config, heap) /\ files \in [Paths -> Files]
  BY DEF ConfigInv
<1>2. PICK S : S = SettingsOf(config, heap)
  OBVIOUS
<1>3. S \in Settings
  BY <1>1, <1>2, SettingsFacts
<1>4. System \in Paths /\ User \in Paths /\ <<User>> \in Seq(Paths) /\ <<>> \in Seq(Paths)
  BY NameAssumption, EmptySeq
<1>5. config' = config /\ heap' = heap /\ files' = files
  BY DEF LoadPreferences
<1>6. CASE files[System] # NULL
  <2>1. load' = Opened(System, <<User>>, S)
    BY <1>2, <1>6, SettingsAre DEF LoadPreferences
  <2>2. Merging(Opened(System, <<User>>, S), S)
    BY <1>1, <1>3, <1>4, <1>6, OpenedFacts
  <2> QED
    BY <1>1, <1>2, <1>5, <2>1, <2>2 DEF ConfigInv
<1>7. CASE files[System] = NULL /\ files[User] # NULL
  <2>1. load' = Opened(User, <<>>, S)
    BY <1>2, <1>7, SettingsAre DEF LoadPreferences
  <2>2. Merging(Opened(User, <<>>, S), S)
    BY <1>1, <1>3, <1>4, <1>7, OpenedFacts
  <2> QED
    BY <1>1, <1>2, <1>5, <2>1, <2>2 DEF ConfigInv
<1>8. CASE files[System] = NULL /\ files[User] = NULL
  <2>1. load' = NULL
    BY <1>8 DEF LoadPreferences
  <2> QED
    BY <1>1, <1>5, <2>1 DEF ConfigInv
<1> QED
  BY <1>6, <1>7, <1>8

LEMMA InvLoadComment ==
    ASSUME ConfigInv, LoadComment
    PROVE  ConfigInv'
<1>1. Sound(config, heap) /\ files \in [Paths -> Files]
  BY DEF ConfigInv
<1>2. /\ load # NULL /\ load.rest # <<>> /\ Line.kind = "comment"
      /\ load' = NextLine /\ config' = config /\ heap' = heap /\ files' = files
  BY DEF LoadComment, Reading
<1>3. PICK S, R, l : S = SettingsOf(config, heap) /\ R = load.read /\ l = Line
  OBVIOUS
<1>4. /\ load \in Loads /\ Unbroken(R) /\ load.section = SectionAt(R, Len(R))
      /\ S = Override(load.over, Content(R))
  BY <1>2, <1>3 DEF ConfigInv, Merging
<1>5. R \in Seq(Lines)
  BY <1>3, <1>4 DEF Loads
<1>6. /\ l \in Lines /\ NextLine \in Loads
      /\ NextLine.section = load.section /\ NextLine.over = load.over
      /\ NextLine.read = FollowedBy(R, l)
  BY <1>2, <1>3, <1>4, NextLineFacts
<1>7. l.kind = "comment" /\ l # Broken
  BY <1>2, <1>3, LineKinds
<1>8. PICK M : M = FollowedBy(R, l)
  OBVIOUS
<1>9. Unbroken(M) /\ Content(M) = Content(R)
  BY <1>4, <1>5, <1>6, <1>7, <1>8, ContentAppend
<1>10. SectionAt(M, Len(M)) = SectionAt(R, Len(R))
  BY <1>5, <1>6, <1>7, <1>8, AppendSection
<1>11. Merging(NextLine, S)
  BY <1>4, <1>6, <1>8, <1>9, <1>10 DEF Merging
<1> QED
  BY <1>1, <1>2, <1>3, <1>11 DEF ConfigInv

LEMMA InvLoadSection ==
    ASSUME ConfigInv, LoadSection
    PROVE  ConfigInv'
<1>1. Sound(config, heap) /\ files \in [Paths -> Files]
  BY DEF ConfigInv
<1>2. /\ load # NULL /\ load.rest # <<>> /\ Line.kind = "section"
      /\ load' = [NextLine EXCEPT !.section = Line.name]
      /\ config' = config /\ heap' = heap /\ files' = files
  BY DEF LoadSection, Reading
<1>3. PICK S, R, l : S = SettingsOf(config, heap) /\ R = load.read /\ l = Line
  OBVIOUS
<1>4. /\ load \in Loads /\ Unbroken(R)
      /\ S = Override(load.over, Content(R))
  BY <1>2, <1>3 DEF ConfigInv, Merging
<1>5. R \in Seq(Lines)
  BY <1>3, <1>4 DEF Loads
<1>6. /\ l \in Lines /\ NextLine \in Loads /\ NextLine.over = load.over
      /\ NextLine.read = FollowedBy(R, l)
  BY <1>2, <1>3, <1>4, NextLineFacts
<1>7. l.kind = "section" /\ l # Broken /\ l.name \in Sections
  BY <1>2, <1>3, <1>6, LineFacts
<1>8. PICK M : M = FollowedBy(R, l)
  OBVIOUS
<1>9. Unbroken(M) /\ Content(M) = Content(R)
  BY <1>4, <1>5, <1>6, <1>7, <1>8, ContentAppend
<1>10. SectionAt(M, Len(M)) = l.name
  BY <1>5, <1>6, <1>7, <1>8, AppendSection
<1>11. PICK n : n = [NextLine EXCEPT !.section = l.name]
  OBVIOUS
<1>12. n \in Loads /\ n.section = l.name /\ n.read = M /\ n.over = load.over
  BY <1>6, <1>7, <1>8, <1>11 DEF Loads
<1>13. Merging(n, S)
  BY <1>4, <1>9, <1>10, <1>12 DEF Merging
<1> QED
  BY <1>1, <1>2, <1>3, <1>11, <1>13 DEF ConfigInv

LEMMA InvLoadVariable ==
    ASSUME ConfigInv, LoadVariable
    PROVE  /\ ConfigInv'
           /\ \E k \in Keys, value \in Strings :
                  SettingsOf(config', heap') = Changed(SettingsOf(config, heap), k, value)
<1>1. Sound(config, heap) /\ files \in [Paths -> Files]
  BY DEF ConfigInv
<1>2. /\ load # NULL /\ load.rest # <<>> /\ Line.kind = "variable"
      /\ SetValue(load.section, Line.name, Line.value)
      /\ load' = NextLine /\ files' = files
  BY DEF LoadVariable, Reading
<1>3. PICK S, R, l, s : S = SettingsOf(config, heap) /\ R = load.read /\ l = Line
                        /\ s = load.section
  OBVIOUS
<1>4. /\ load \in Loads /\ Unbroken(R) /\ s = SectionAt(R, Len(R))
      /\ S = Override(load.over, Content(R))
  BY <1>2, <1>3 DEF ConfigInv, Merging
<1>5. R \in Seq(Lines) /\ s \in Sections /\ load.over \in Settings
  BY <1>3, <1>4 DEF Loads
<1>6. /\ l \in Lines /\ NextLine \in Loads
      /\ NextLine.section = s /\ NextLine.over = load.over
      /\ NextLine.read = FollowedBy(R, l)
  BY <1>2, <1>3, <1>4, NextLineFacts
<1>7. l.kind = "variable" /\ l # Broken /\ l.name \in Variables /\ l.value \in Strings
  BY <1>2, <1>3, <1>6, LineFacts
<1>8. PICK M, k, x : M = FollowedBy(R, l) /\ k = <<s, l.name>> /\ x = l.value
  OBVIOUS
<1>9. k \in Keys /\ x \in Strings
  BY <1>5, <1>7, <1>8 DEF Keys
<1>10. /\ Sound(config', heap')
       /\ SettingsOf(config', heap') = Changed(S, k, x)
  BY <1>1, <1>2, <1>3, <1>5, <1>7, <1>8, SetValueDoes
<1>11. Unbroken(M) /\ Content(M) = Changed(Content(R), k, x)
  <2>1. Content(M) = Changed(Content(R), <<SectionAt(R, Len(R)), l.name>>, l.value)
    BY <1>4, <1>5, <1>6, <1>7, <1>8, ContentAppend
  <2>2. Unbroken(M)
    BY <1>4, <1>5, <1>6, <1>7, <1>8, ContentAppend
  <2> QED
    BY <1>4, <1>8, <2>1, <2>2
<1>12. SectionAt(M, Len(M)) = s
  BY <1>4, <1>5, <1>6, <1>7, <1>8, AppendSection
<1>13. Changed(S, k, x) = Override(load.over, Content(M))
  <2>1. Content(R) \in Settings
    BY <1>5, ContentType
  <2>2. Override(load.over, Changed(Content(R), k, x)) =
            Changed(Override(load.over, Content(R)), k, x)
    BY <1>5, <1>9, <2>1, OverrideChanged
  <2> QED
    BY <1>4, <1>11, <2>2
<1>14. Merging(NextLine, Changed(S, k, x))
  BY <1>6, <1>8, <1>11, <1>12, <1>13 DEF Merging
<1>15. ConfigInv'
  BY <1>1, <1>2, <1>10, <1>14 DEF ConfigInv
<1> QED
  BY <1>3, <1>9, <1>10, <1>15

LEMMA InvLoadStops ==
    ASSUME ConfigInv, LoadStops
    PROVE  ConfigInv' /\ SettingsOf(config', heap') = SettingsOf(config, heap)
<1>1. Sound(config, heap) /\ files \in [Paths -> Files]
  BY DEF ConfigInv
<1>2. /\ load # NULL /\ load.rest # <<>> /\ load' = NULL /\ files' = files
      /\ IF Line.kind = "variable" THEN SetFails(load.section, Line.name)
         ELSE config' = config /\ heap' = heap
  BY DEF LoadStops
<1>3. load \in Loads
  BY <1>2 DEF ConfigInv, Merging
<1>4. Line \in Lines /\ load.section \in Sections
  BY <1>2, <1>3, NextLineFacts DEF Loads
<1>5. Sound(config', heap') /\ SettingsOf(config', heap') = SettingsOf(config, heap)
  <2>1. CASE Line.kind = "variable"
    <3>1. PICK v \in Variables, s \in Sections : v = Line.name /\ s = load.section
      BY <1>4, <2>1, LineFacts
    <3>2. SetFails(s, v)
      BY <1>2, <2>1, <3>1
    <3> QED
      BY <1>1, <3>2, SetFailsDoes
  <2>2. CASE Line.kind # "variable"
    BY <1>1, <1>2, <2>2
  <2> QED
    BY <2>1, <2>2
<1> QED
  BY <1>1, <1>2, <1>5 DEF ConfigInv

LEMMA InvLoadEnds ==
    ASSUME ConfigInv, LoadEnds
    PROVE  ConfigInv'
<1>1. Sound(config, heap) /\ files \in [Paths -> Files]
  BY DEF ConfigInv
<1>2. PICK S : S = SettingsOf(config, heap)
  OBVIOUS
<1>3. S \in Settings
  BY <1>1, <1>2, SettingsFacts
<1>4. load # NULL /\ config' = config /\ heap' = heap /\ files' = files
  BY DEF LoadEnds
<1>5. load \in Loads /\ S = Override(load.over, Content(load.read))
  BY <1>2, <1>4 DEF ConfigInv, Merging
<1>6. CASE load.paths # <<>> /\ files[Head(load.paths)] # NULL
  <2>1. load.paths \in Seq(Paths)
    BY <1>5 DEF Loads
  <2>2. Head(load.paths) \in Paths /\ Tail(load.paths) \in Seq(Paths)
    BY <1>6, <2>1, HeadTailProperties
  <2>3. load' = Opened(Head(load.paths), Tail(load.paths), S)
    BY <1>5, <1>6 DEF LoadEnds
  <2>4. Merging(Opened(Head(load.paths), Tail(load.paths), S), S)
    BY <1>1, <1>3, <1>6, <2>2, OpenedFacts
  <2> QED
    BY <1>1, <1>2, <1>4, <2>3, <2>4 DEF ConfigInv
<1>7. CASE ~(load.paths # <<>> /\ files[Head(load.paths)] # NULL)
  <2>1. load' = NULL
    BY <1>7 DEF LoadEnds
  <2> QED
    BY <1>1, <1>4, <2>1 DEF ConfigInv
<1> QED
  BY <1>6, <1>7

LEMMA InvCrash ==
    ASSUME ConfigInv, Crash
    PROVE  ConfigInv' /\ SettingsOf(config', heap') = [k \in Keys |-> NULL]
<1>1. files \in [Paths -> Files]
  BY DEF ConfigInv
<1>2. Restart /\ files' = files /\ load' = NULL
  BY DEF Crash, Restart
<1>3. Sound(config', heap') /\ SettingsOf(config', heap') = [k \in Keys |-> NULL]
  BY <1>2, RestartDoes
<1> QED
  BY <1>1, <1>2, <1>3 DEF ConfigInv

(* The settings in the files.                                              *)
DiskOf(fs) == [path \in Paths |-> IF fs[path] = NULL THEN NULL ELSE Content(fs[path])]

LEMMA DiskChanged ==
    ASSUME NEW fs \in [Paths -> Files], NEW path \in Paths, NEW L \in Seq(Lines),
           NEW gs, gs = [fs EXCEPT ![path] = L]
    PROVE  gs \in [Paths -> Files] /\ DiskOf(gs) = Changed(DiskOf(fs), path, Content(L))
<1>1. L # NULL /\ L \in Files
  BY FileAssumption DEF Files
<1>2. gs \in [Paths -> Files] /\ \A p \in Paths : gs[p] = IF p = path THEN L ELSE fs[p]
  BY <1>1
<1>3. DiskOf(gs) = [p \in Paths |-> IF p = path THEN Content(L) ELSE DiskOf(fs)[p]]
  BY <1>1, <1>2 DEF DiskOf
<1>4. DiskOf(fs) = [p \in Paths |-> DiskOf(fs)[p]]
  BY DEF DiskOf
<1> QED
  BY <1>2, <1>3, <1>4 DEF Changed

LEMMA InvConfigSave ==
    ASSUME ConfigInv, NEW path \in Paths, ConfigSave(path)
    PROVE  /\ ConfigInv'
           /\ DiskOf(files') = Changed(DiskOf(files), path, SettingsOf(config, heap))
<1>1. Sound(config, heap) /\ files \in [Paths -> Files]
  BY DEF ConfigInv
<1>2. PICK L : L = SavedLines
  OBVIOUS
<1>3. L \in Seq(Lines) /\ Content(L) = SettingsOf(config, heap)
  BY <1>1, <1>2, SavedContent
<1>4. /\ files' = [files EXCEPT ![path] = L]
      /\ config' = config /\ heap' = heap /\ load' = NULL
  BY <1>2 DEF ConfigSave, Idle
<1>5. files' \in [Paths -> Files] /\ DiskOf(files') = Changed(DiskOf(files), path, Content(L))
  BY <1>1, <1>3, <1>4, DiskChanged
<1> QED
  BY <1>1, <1>3, <1>4, <1>5 DEF ConfigInv

(* A save that fails, or in which the program ends, leaves a part of what  *)
(* the settings were.                                                      *)
LEMMA CutSave ==
    ASSUME ConfigInv, NEW path \in Paths, NEW C \in Cuts(SavedLines),
           files' = [files EXCEPT ![path] = C]
    PROVE  /\ files' \in [Paths -> Files]
           /\ \E some \in Settings : /\ CutOf(some, SettingsOf(config, heap))
                                     /\ DiskOf(files') = Changed(DiskOf(files), path, some)
<1>1. Sound(config, heap) /\ files \in [Paths -> Files]
  BY DEF ConfigInv
<1>2. PICK L, S : L = SavedLines /\ S = SettingsOf(config, heap)
  OBVIOUS
<1>3. Faithful(L, S)
  BY <1>1, <1>2, SavedFacts
<1>4. C \in Seq(Lines) /\ CutOf(Content(C), S)
  BY <1>2, <1>3, CutFacts
<1>5. Content(C) \in Settings
  BY <1>4, ContentType
<1>6. files' \in [Paths -> Files] /\ DiskOf(files') = Changed(DiskOf(files), path, Content(C))
  BY <1>1, <1>4, DiskChanged
<1> QED
  BY <1>2, <1>4, <1>5, <1>6

LEMMA InvSaveFails ==
    ASSUME ConfigInv, NEW path \in Paths, SaveFails(path)
    PROVE  /\ ConfigInv'
           /\ \E some \in Settings : /\ CutOf(some, SettingsOf(config, heap))
                                     /\ DiskOf(files') = Changed(DiskOf(files), path, some)
<1>1. Sound(config, heap)
  BY DEF ConfigInv
<1>2. PICK C \in Cuts(SavedLines) : files' = [files EXCEPT ![path] = C]
  BY DEF SaveFails
<1>3. config' = config /\ heap' = heap /\ load' = NULL
  BY DEF SaveFails, Idle
<1>4. /\ files' \in [Paths -> Files]
      /\ \E some \in Settings : /\ CutOf(some, SettingsOf(config, heap))
                                /\ DiskOf(files') = Changed(DiskOf(files), path, some)
  BY <1>2, CutSave
<1> QED
  BY <1>1, <1>3, <1>4 DEF ConfigInv

LEMMA InvCrashInSave ==
    ASSUME ConfigInv, NEW path \in Paths, CrashInSave(path)
    PROVE  /\ ConfigInv'
           /\ SettingsOf(config', heap') = [k \in Keys |-> NULL]
           /\ \E some \in Settings : /\ CutOf(some, SettingsOf(config, heap))
                                     /\ DiskOf(files') = Changed(DiskOf(files), path, some)
<1>1. PICK C \in Cuts(SavedLines) : files' = [files EXCEPT ![path] = C]
  BY DEF CrashInSave
<1>2. Restart /\ load' = NULL
  BY DEF CrashInSave, Restart
<1>3. Sound(config', heap') /\ SettingsOf(config', heap') = [k \in Keys |-> NULL]
  BY <1>2, RestartDoes
<1>4. /\ files' \in [Paths -> Files]
      /\ \E some \in Settings : /\ CutOf(some, SettingsOf(config, heap))
                                /\ DiskOf(files') = Changed(DiskOf(files), path, some)
  BY <1>1, CutSave
<1> QED
  BY <1>2, <1>3, <1>4 DEF ConfigInv

LEMMA ConfigInvNext == ConfigInv /\ [Next]_vars => ConfigInv'
<1> SUFFICES ASSUME ConfigInv, [Next]_vars PROVE ConfigInv'
  OBVIOUS
<1>1. ASSUME NEW section \in Sections, NEW variable \in Variables,
             NEW value \in Strings \cup {NULL}, ConfigSet(section, variable, value)
      PROVE  ConfigInv'
  BY <1>1, InvConfigSet
<1>2. CASE ConfigReset
  BY <1>2, InvConfigReset
<1>3. CASE NewCopy
  BY <1>3, InvNewCopy
<1>4. ASSUME NEW path \in Paths,
             LoadFile(path) \/ ConfigSave(path) \/ SaveFails(path) \/ CrashInSave(path)
      PROVE  ConfigInv'
  BY <1>4, InvLoadFile, InvConfigSave, InvSaveFails, InvCrashInSave
<1>5. CASE LoadPreferences
  BY <1>5, InvLoadPreferences
<1>6. CASE LoadComment
  BY <1>6, InvLoadComment
<1>7. CASE LoadSection
  BY <1>7, InvLoadSection
<1>8. CASE LoadVariable
  BY <1>8, InvLoadVariable
<1>9. CASE LoadStops
  BY <1>9, InvLoadStops
<1>10. CASE LoadEnds
  BY <1>10, InvLoadEnds
<1>11. CASE Crash
  BY <1>11, InvCrash
<1>12. CASE UNCHANGED vars
  BY <1>12 DEF vars, ConfigInv
<1> QED
  BY <1>1, <1>2, <1>3, <1>4, <1>5, <1>6, <1>7, <1>8, <1>9, <1>10, <1>11, <1>12 DEF Next

(* Every action keeps the invariant, so every reachable state has it.      *)
THEOREM ConfigInvariant == Spec => []ConfigInv
  BY ConfigInvInit, ConfigInvNext, PTL DEF Spec

(* Whatever is loaded, saved or fails, the configuration is a dictionary   *)
(* of dictionaries of strings in memory, and the files are lines.          *)
THEOREM TypeCorrect == Spec => []TypeOK
<1>1. ConfigInv => TypeOK
  <2> SUFFICES ASSUME ConfigInv PROVE TypeOK
    OBVIOUS
  <2>1. config \in Configs /\ Owns(Places(config), heap)
    BY DEF ConfigInv, Sound
  <2>2. config \in Seq([name : Sections, value : SectionDicts])
    <3>1. config \in Seq([name : Sections, value : Dicts])
      BY <2>1 DEF Configs, Dict
    <3>2. Dicts \subseteq SectionDicts
      BY DEF Dicts, Dict, SectionDicts
    <3>3. \A r \in [name : Sections, value : Dicts] : r \in [name : Sections, value : SectionDicts]
      BY <3>2
    <3>4. PICK n, c, T : /\ n = Len(config) /\ c = config
                         /\ T = [name : Sections, value : SectionDicts]
      OBVIOUS
    <3>5. n \in Nat /\ c \in [1..n -> [name : Sections, value : Dicts]]
      BY <3>1, <3>4, LenProperties
    <3>6. c \in [1..n -> T]
      BY <3>3, <3>4, <3>5
    <3>7. c \in Seq(T)
      BY <3>5, <3>6, SeqDef
    <3> QED
      BY <3>4, <3>7
  <2>3. heap \in [Addrs -> Strings \cup {NULL}]
    BY <2>1 DEF Owns
  <2>4. load \in Loads \cup {NULL}
    BY DEF ConfigInv, Merging
  <2> QED
    BY <2>2, <2>3, <2>4 DEF TypeOK, ConfigInv
<1> QED
  BY <1>1, ConfigInvariant, PTL

(* Whatever fails half-way, every string in memory is the value of one     *)
(* variable: config_set, config_reset and config_new_copy leak none, and   *)
(* free none that is in use.                                               *)
THEOREM ValuesOwnedAlways == Spec => []ValuesOwned
<1>1. ConfigInv => ValuesOwned
  <2> SUFFICES ASSUME ConfigInv PROVE ValuesOwned
    OBVIOUS
  <2>1. config \in Configs /\ Owns(Places(config), heap)
    BY DEF ConfigInv, Sound
  <2>2. {a \in Addrs : heap[a] # NULL} = Held
    <3>1. /\ HeldBy(config) \subseteq Addrs
          /\ \A a \in Addrs : a \in HeldBy(config) <=> \E k \in Keys : Places(config)[k] = a
      BY <2>1, HeldFacts
    <3>2. \A a \in Addrs : heap[a] # NULL <=> \E k \in Keys : Places(config)[k] = a
      BY <2>1 DEF Owns
    <3> QED
      BY <3>1, <3>2, HeldIs
  <2>3. ASSUME NEW i \in DOMAIN config, NEW j \in DOMAIN config,
               NEW k \in DOMAIN config[i].value, NEW l \in DOMAIN config[j].value,
               config[i].value[k].value = config[j].value[l].value
        PROVE  i = j /\ k = l
    <3>1. PICK c : c = config
      OBVIOUS
    <3>2. PICK m, n, a : /\ m = <<c[i].name, c[i].value[k].name>>
                         /\ n = <<c[j].name, c[j].value[l].name>>
                         /\ a = c[i].value[k].value
      OBVIOUS
    <3>3. m \in Keys /\ a \in Addrs /\ Places(c)[m] = a /\ c[i].value \in Dicts
      BY <2>1, <3>1, <3>2, PlaceAt
    <3>4. n \in Keys /\ Places(c)[n] = c[j].value[l].value
      BY <2>1, <3>1, <3>2, PlaceAt
    <3>5. m = n
      BY <2>1, <2>3, <3>1, <3>2, <3>3, <3>4, NullFacts DEF Owns
    <3>6. c[i].name = c[j].name /\ c[i].value[k].name = c[j].value[l].name
      BY <3>2, <3>5
    <3>7. i = j
      BY <2>1, <3>1, <3>6, EntryAt DEF Configs
    <3>8. PICK d : d = c[i].value
      OBVIOUS
    <3>9. d \in Dict(Variables, Addrs)
      BY <3>3, <3>8 DEF Dicts
    <3>10. k \in DOMAIN d /\ l \in DOMAIN d /\ d[k].name = d[l].name
      BY <3>1, <3>6, <3>7, <3>8
    <3>11. k = l
      BY <3>9, <3>10, EntryAt
    <3> QED
      BY <3>7, <3>11
  <2> QED
    BY <2>2, <2>3 DEF ValuesOwned
<1> QED
  BY <1>1, ConfigInvariant, PTL

(* While files are loaded, the configuration is what it was before with    *)
(* the lines read so far on top, whatever the lines.                       *)
THEOREM LoadMergesAlways == Spec => []LoadMerges
<1>1. ConfigInv => LoadMerges
  BY SettingsAre DEF ConfigInv, Merging, LoadMerges
<1> QED
  BY <1>1, ConfigInvariant, PTL

----------------------------------------------------------------------------
(* The refinement: each step, seen as the settings and the files' ones, is *)
(* one of SettingsSpec or none.                                            *)

LEMMA StoreSets ==
    Store!Keys = Keys /\ Store!Settings = Settings /\ Store!Nothing = [k \in Keys |-> NULL]
  BY DEF Store!Keys, Keys, Store!Settings, Settings, Store!Nothing

LEMMA DiskIs == disk = DiskOf(files)
  BY DEF disk, DiskOf

LEMMA DiskIsNext == disk' = DiskOf(files')
  BY DEF disk, DiskOf

LEMMA StoreSame ==
    ASSUME SettingsOf(config', heap') = SettingsOf(config, heap), files' = files
    PROVE  UNCHANGED Store!vars
<1>1. settings' = settings
  BY SettingsAre, SettingsAreNext
<1>2. disk' = disk
  BY DiskIs, DiskIsNext
<1> QED
  BY <1>1, <1>2 DEF Store!vars

LEMMA StoreAssign ==
    ASSUME NEW k \in Keys, NEW value \in Strings \cup {NULL}, files' = files,
           SettingsOf(config', heap') = Changed(SettingsOf(config, heap), k, value)
    PROVE  Store!Next
<1>1. settings' = [settings EXCEPT ![k] = value]
  BY SettingsAre, SettingsAreNext DEF Changed
<1>2. disk' = disk
  BY DiskIs, DiskIsNext
<1>3. Store!Assign(k, value)
  BY <1>1, <1>2 DEF Store!Assign
<1> QED
  BY <1>3, StoreSets DEF Store!Next

LEMMA StoreForget ==
    ASSUME files' = files, SettingsOf(config', heap') = [k \in Keys |-> NULL]
    PROVE  Store!Next
<1>1. settings' = Store!Nothing
  BY SettingsAreNext, StoreSets
<1>2. disk' = disk
  BY DiskIs, DiskIsNext
<1> QED
  BY <1>1, <1>2 DEF Store!Forget, Store!Next

LEMMA StoreSave ==
    ASSUME NEW path \in Paths, SettingsOf(config', heap') = SettingsOf(config, heap),
           DiskOf(files') = Changed(DiskOf(files), path, SettingsOf(config, heap))
    PROVE  Store!Next
<1>1. settings' = settings
  BY SettingsAre, SettingsAreNext
<1>2. disk' = [disk EXCEPT ![path] = settings]
  BY DiskIs, DiskIsNext, SettingsAre DEF Changed
<1>3. Store!Save(path)
  BY <1>1, <1>2 DEF Store!Save
<1> QED
  BY <1>3 DEF Store!Next

LEMMA StoreSaveCut ==
    ASSUME NEW path \in Paths, NEW some \in Settings, CutOf(some, SettingsOf(config, heap)),
           DiskOf(files') = Changed(DiskOf(files), path, some),
           \/ SettingsOf(config', heap') = SettingsOf(config, heap)
           \/ SettingsOf(config', heap') = [k \in Keys |-> NULL]
    PROVE  Store!Next
<1>1. settings' = settings \/ settings' = Store!Nothing
  BY SettingsAre, SettingsAreNext, StoreSets
<1>2. disk' = [disk EXCEPT ![path] = some]
  BY DiskIs, DiskIsNext DEF Changed
<1>3. CutOf(some, settings)
  BY SettingsAre
<1>4. Store!PartOf(some)
  BY <1>3, StoreSets DEF Store!PartOf, CutOf
<1>5. Store!SaveCut(path)
  BY <1>1, <1>2, <1>4, StoreSets DEF Store!SaveCut
<1> QED
  BY <1>5 DEF Store!Next

LEMMA StoreNext ==
    ASSUME ConfigInv, [Next]_vars
    PROVE  [Store!Next]_(Store!vars)
<1>1. ASSUME NEW section \in Sections, NEW variable \in Variables,
             NEW value \in Strings \cup {NULL}, ConfigSet(section, variable, value)
      PROVE  [Store!Next]_(Store!vars)
  <2>1. files' = files
    BY <1>1 DEF ConfigSet
  <2>2. PICK k : k = <<section, variable>>
    OBVIOUS
  <2>3. k \in Keys
    BY <2>2 DEF Keys
  <2>4. \/ SettingsOf(config', heap') = Changed(SettingsOf(config, heap), k, value)
        \/ SettingsOf(config', heap') = SettingsOf(config, heap)
    BY <1>1, <2>2, InvConfigSet
  <2> QED
    BY <2>1, <2>3, <2>4, StoreAssign, StoreSame
<1>2. CASE ConfigReset
  <2>1. files' = files
    BY <1>2 DEF ConfigReset
  <2> QED
    BY <1>2, <2>1, InvConfigReset, StoreForget
<1>3. CASE NewCopy
  <2>1. files' = files
    BY <1>3 DEF NewCopy
  <2> QED
    BY <1>3, <2>1, InvNewCopy, StoreSame
<1>4. ASSUME NEW path \in Paths, LoadFile(path) PROVE [Store!Next]_(Store!vars)
  <2>1. config' = config /\ heap' = heap /\ files' = files
    BY <1>4 DEF LoadFile
  <2> QED
    BY <2>1, StoreSame
<1>5. ASSUME NEW path \in Paths, ConfigSave(path) PROVE [Store!Next]_(Store!vars)
  <2>1. config' = config /\ heap' = heap
    BY <1>5 DEF ConfigSave
  <2>2. DiskOf(files') = Changed(DiskOf(files), path, SettingsOf(config, heap))
    BY <1>5, InvConfigSave
  <2> QED
    BY <2>1, <2>2, StoreSave
<1>6. ASSUME NEW path \in Paths, SaveFails(path) PROVE [Store!Next]_(Store!vars)
  <2>1. config' = config /\ heap' = heap
    BY <1>6 DEF SaveFails
  <2>2. PICK some \in Settings :
            /\ CutOf(some, SettingsOf(config, heap))
            /\ DiskOf(files') = Changed(DiskOf(files), path, some)
    BY <1>6, InvSaveFails
  <2> QED
    BY <2>1, <2>2, StoreSaveCut
<1>7. ASSUME NEW path \in Paths, CrashInSave(path) PROVE [Store!Next]_(Store!vars)
  <2>1. SettingsOf(config', heap') = [k \in Keys |-> NULL]
    BY <1>7, InvCrashInSave
  <2>2. PICK some \in Settings :
            /\ CutOf(some, SettingsOf(config, heap))
            /\ DiskOf(files') = Changed(DiskOf(files), path, some)
    BY <1>7, InvCrashInSave
  <2> QED
    BY <2>1, <2>2, StoreSaveCut
<1>8. CASE LoadPreferences \/ LoadComment \/ LoadSection \/ LoadEnds
  <2>1. config' = config /\ heap' = heap /\ files' = files
    BY <1>8 DEF LoadPreferences, LoadComment, LoadSection, LoadEnds
  <2> QED
    BY <2>1, StoreSame
<1>9. CASE LoadVariable
  <2>1. files' = files
    BY <1>9 DEF LoadVariable
  <2>2. PICK k \in Keys, value \in Strings :
            SettingsOf(config', heap') = Changed(SettingsOf(config, heap), k, value)
    BY <1>9, InvLoadVariable
  <2> QED
    BY <2>1, <2>2, StoreAssign
<1>10. CASE LoadStops
  <2>1. files' = files
    BY <1>10 DEF LoadStops
  <2> QED
    BY <1>10, <2>1, InvLoadStops, StoreSame
<1>11. CASE Crash
  <2>1. files' = files
    BY <1>11 DEF Crash
  <2> QED
    BY <1>11, <2>1, InvCrash, StoreForget
<1>12. CASE UNCHANGED vars
  <2>1. config' = config /\ heap' = heap /\ files' = files
    BY <1>12 DEF vars
  <2> QED
    BY <2>1, StoreSame
<1> QED
  BY <1>1, <1>2, <1>3, <1>4, <1>5, <1>6, <1>7, <1>8, <1>9, <1>10, <1>11, <1>12 DEF Next

(* Whatever fails, and wherever the program ends, one setting at a time    *)
(* changes, a saved file gives back the settings it was saved from, and    *)
(* one that was cut short gives back none that was not there.              *)
THEOREM ConfigIsStore == Spec => IsStore
<1>1. Init => Store!Init
  <2> SUFFICES ASSUME Init PROVE Store!Init
    OBVIOUS
  <2>1. ConfigInv
    BY ConfigInvInit
  <2>2. settings = Store!Nothing
    <3>1. config = <<>> /\ heap = [a \in Addrs |-> NULL]
      BY DEF Init
    <3>2. heap \in [Addrs -> Strings \cup {NULL}] /\ \A a \in Addrs : heap[a] = NULL
      BY <3>1
    <3>3. SettingsOf(config, heap) = [k \in Keys |-> NULL]
      BY <3>1, <3>2, EmptyDoes
    <3> QED
      BY <3>3, SettingsAre, StoreSets
  <2>3. disk \in [Paths -> Settings \cup {NULL}]
    <3>1. files \in [Paths -> Files]
      BY <2>1 DEF ConfigInv
    <3>2. ASSUME NEW path \in Paths, files[path] # NULL PROVE Content(files[path]) \in Settings
      <4>1. files[path] \in Seq(Lines)
        BY <3>1, <3>2 DEF Files
      <4> QED
        BY <4>1, ContentType
    <3> QED
      BY <3>2 DEF disk
  <2> QED
    BY <2>2, <2>3, StoreSets DEF Store!Init
<1>2. ConfigInv /\ [Next]_vars => [Store!Next]_(Store!vars)
  BY StoreNext
<1> QED
  BY <1>1, <1>2, ConfigInvariant, PTL DEF Spec, IsStore, Store!Spec
=============================================================================
