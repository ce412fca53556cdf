-------------------------- MODULE ConfigTextProof --------------------------
(* Theorems about ConfigText, for any characters, files and configurations:*)
(* what config_load takes from a file can be written, and it reads back    *)
(* what config_save wrote, in full or cut short.                           *)
EXTENDS ConfigText, ArraySeqProof

Strings == Seq(Chars)

----------------------------------------------------------------------------
(* Dictionaries.                                                           *)

Dicts(N, V) == {d \in Seq([name : N, value : V]) : Distinct(d)}

LEMMA DictEntry ==
    ASSUME NEW N, NEW V, NEW d \in Dicts(N, V)
    PROVE  /\ d \in Seq([name : N, value : V]) /\ Distinct(d)
           /\ Len(d) \in Nat /\ DOMAIN d = 1..Len(d)
           /\ \A k \in DOMAIN d : d[k] \in [name : N, value : V]
           /\ \A e \in Entries(d) : e[1] \in N /\ e[2] \in V /\ e = <<e[1], e[2]>>
<1>1. d \in Seq([name : N, value : V]) /\ Distinct(d)
  BY DEF Dicts
<1>2. Len(d) \in Nat /\ DOMAIN d = 1..Len(d)
  BY <1>1, LenProperties
<1>3. \A k \in DOMAIN d : d[k] \in [name : N, value : V]
  BY <1>1, <1>2, ElementOfSeq
<1> QED
  BY <1>1, <1>2, <1>3 DEF Entries

LEMMA NoEntries ==
    ASSUME NEW N, NEW V
    PROVE  <<>> \in Dicts(N, V) /\ Entries(<<>>) = {} /\ NamesOf(<<>>) = {}
<1>1. <<>> \in Seq([name : N, value : V]) /\ DOMAIN <<>> = {}
  BY EmptySeq
<1> QED
  BY <1>1 DEF Dicts, Distinct, Entries, NamesOf

LEMMA NamesEntries ==
    ASSUME NEW d
    PROVE  NamesOf(d) = {e[1] : e \in Entries(d)}
<1>1. \A k \in DOMAIN d : <<d[k].name, d[k].value>>[1] = d[k].name
  OBVIOUS
<1> QED
  BY <1>1 DEF NamesOf, Entries

LEMMA LookupAt ==
    ASSUME NEW N, NEW V, NEW d \in Dicts(N, V), NEW k \in DOMAIN d
    PROVE  d[k].name \in NamesOf(d) /\ Lookup(d, d[k].name) = d[k].value
<1>1. \A i, j \in DOMAIN d : d[i].name = d[j].name => i = j
  BY DictEntry DEF Distinct
<1>2. d[k].name \in NamesOf(d)
  BY DEF NamesOf
<1>3. PICK j : j = CHOOSE i \in DOMAIN d : d[i].name = d[k].name
  OBVIOUS
<1>4. j \in DOMAIN d /\ d[j].name = d[k].name
  BY <1>3
<1>5. j = k
  BY <1>1, <1>4
<1> QED
  BY <1>2, <1>3, <1>5 DEF Lookup

LEMMA LookupEntry ==
    ASSUME NEW N, NEW V, NEW d \in Dicts(N, V), NEW name \in NamesOf(d)
    PROVE  <<name, Lookup(d, name)>> \in Entries(d) /\ Lookup(d, name) \in V
<1>1. PICK k \in DOMAIN d : d[k].name = name
  BY DEF NamesOf
<1>2. Lookup(d, name) = d[k].value
  BY <1>1, LookupAt
<1>3. d[k].value \in V
  BY DictEntry
<1>4. <<d[k].name, d[k].value>> \in Entries(d)
  BY DEF Entries
<1> QED
  BY <1>1, <1>2, <1>3, <1>4

LEMMA EntryLookup ==
    ASSUME NEW N, NEW V, NEW d \in Dicts(N, V), NEW e \in Entries(d)
    PROVE  e[1] \in NamesOf(d) /\ e[2] = Lookup(d, e[1])
<1>1. PICK k \in DOMAIN d : e = <<d[k].name, d[k].value>>
  BY DEF Entries
<1>2. e[1] = d[k].name /\ e[2] = d[k].value
  BY <1>1
<1> QED
  BY <1>2, LookupAt

(* hash_set leaves the entries of the other names.                         *)
LEMMA PutEntries ==
    ASSUME NEW N, NEW V, NEW d \in Dicts(N, V), NEW n \in N, NEW x \in V, x # NULL
    PROVE  /\ Put(d, n, x) \in Dicts(N, V)
           /\ Entries(Put(d, n, x)) = {e \in Entries(d) : e[1] # n} \cup {<<n, x>>}
<1>1. /\ d \in Seq([name : N, value : V]) /\ Len(d) \in Nat /\ DOMAIN d = 1..Len(d)
      /\ \A k \in DOMAIN d : d[k] \in [name : N, value : V]
      /\ \A i, j \in DOMAIN d : d[i].name = d[j].name => i = j
  BY DictEntry DEF Distinct
<1>2. CASE n \in NamesOf(d)
  <2>1. PICK c : c = Put(d, n, x)
    OBVIOUS
  <2>2. c = [k \in DOMAIN d |-> IF d[k].name = n THEN [d[k] EXCEPT !.value = x] ELSE d[k]]
    BY <1>2, <2>1 DEF Put, Replaced
  <2>3. /\ DOMAIN c = DOMAIN d
        /\ \A k \in DOMAIN d :
              /\ c[k] \in [name : N, value : V]
              /\ c[k].name = d[k].name
              /\ c[k].value = IF d[k].name = n THEN x ELSE d[k].value
    BY <1>1, <2>2
  <2>4. c \in [1..Len(d) -> [name : N, value : V]]
    BY <1>1, <2>2, <2>3
  <2>5. c \in Seq([name : N, value : V])
    BY <1>1, <2>4, SeqDef
  <2>6. c \in Dicts(N, V)
    BY <1>1, <2>3, <2>5 DEF Dicts, Distinct
  <2>7. PICK i \in DOMAIN d : d[i].name = n
    BY <1>2 DEF NamesOf
  <2>8. Entries(c) = {e \in Entries(d) : e[1] # n} \cup {<<n, x>>}
    <3>1. ASSUME NEW e \in Entries(c)
          PROVE  e \in {u \in Entries(d) : u[1] # n} \cup {<<n, x>>}
      <4>1. PICK k \in DOMAIN d : e = <<c[k].name, c[k].value>>
        BY <2>3 DEF Entries
      <4>2. CASE d[k].name = n
        BY <2>3, <4>1, <4>2
      <4>3. CASE d[k].name # n
        <5>1. e = <<d[k].name, d[k].value>> /\ e[1] # n
          BY <2>3, <4>1, <4>3
        <5> QED
          BY <5>1 DEF Entries
      <4> QED
        BY <4>2, <4>3
    <3>2. ASSUME NEW e \in Entries(d), e[1] # n PROVE e \in Entries(c)
      <4>1. PICK k \in DOMAIN d : e = <<d[k].name, d[k].value>>
        BY DEF Entries
      <4>2. e = <<c[k].name, c[k].value>>
        BY <2>3, <3>2, <4>1
      <4> QED
        BY <2>3, <4>2 DEF Entries
    <3>3. <<n, x>> \in Entries(c)
      <4>1. c[i].name = n /\ c[i].value = x /\ i \in DOMAIN c
        BY <2>3, <2>7
      <4> QED
        BY <4>1 DEF Entries
    <3> QED
      BY <3>1, <3>2, <3>3
  <2> QED
    BY <2>1, <2>6, <2>8
<1>3. CASE n \notin NamesOf(d)
  <2>1. PICK r : r = [name |-> n, value |-> x]
    OBVIOUS
  <2>2. PICK c : c = Append(d, r)
    OBVIOUS
  <2>3. Put(d, n, x) = c
    BY <1>3, <2>1, <2>2 DEF Put
  <2>4. r \in [name : N, value : V] /\ r.name = n /\ r.value = x
    BY <2>1
  <2>5. /\ c \in Seq([name : N, value : V]) /\ Len(c) = Len(d) + 1
        /\ \A k \in 1..Len(d) : c[k] = d[k]
        /\ c[Len(d) + 1] = r
    BY <1>1, <2>2, <2>4, AppendProperties
  <2>6. DOMAIN c = DOMAIN d \cup {Len(d) + 1} /\ Len(d) + 1 \notin DOMAIN d
    <3>1. DOMAIN c = 1..(Len(d) + 1)
      BY <2>5, LenProperties
    <3> QED
      BY <1>1, <3>1
  <2>7. \A k \in DOMAIN d : c[k] = d[k] /\ d[k].name # n
    BY <1>1, <1>3, <2>5 DEF NamesOf
  <2>8. c \in Dicts(N, V)
    BY <1>1, <2>4, <2>5, <2>6, <2>7 DEF Dicts, Distinct
  <2>9. Entries(c) = Entries(d) \cup {<<n, x>>}
    BY <2>4, <2>5, <2>6, <2>7 DEF Entries
  <2>10. \A e \in Entries(d) : e[1] # n
    BY <2>7 DEF Entries
  <2> QED
    BY <2>3, <2>8, <2>9, <2>10
<1> QED
  BY <1>2, <1>3

(* What config_set does to the settings: it replaces one of them.          *)
Others(pairs, s, v) == {p \in pairs : ~(p[1] = s /\ p[2] = v)}

LEMMA SettingIs ==
    ASSUME NEW c \in Configs
    PROVE  /\ \A s, v, x : <<s, v, x>> \in SettingsOf(c) <=>
                  \E d : <<s, d>> \in Entries(c) /\ <<v, x>> \in Entries(d)
           /\ \A p \in SettingsOf(c) :
                  /\ p = <<p[1], p[2], p[3]>>
                  /\ p[1] \in Strings /\ p[2] \in Strings /\ p[3] \in Strings
<1>1. \A e \in Entries(c) : e[1] \in Strings /\ e[2] \in Sections /\ e = <<e[1], e[2]>>
  BY DictEntry DEF Configs, Dicts, Strings
<1>2. \A d \in Sections : \A u \in Entries(d) :
          u[1] \in Strings /\ u[2] \in Strings /\ u = <<u[1], u[2]>>
  BY DictEntry DEF Sections, Dicts, Strings
<1>3. ASSUME NEW s, NEW v, NEW x, <<s, v, x>> \in SettingsOf(c)
      PROVE  \E d : <<s, d>> \in Entries(c) /\ <<v, x>> \in Entries(d)
  <2>1. PICK e \in Entries(c) : \E u \in Entries(e[2]) : <<s, v, x>> = <<e[1], u[1], u[2]>>
    BY <1>3 DEF SettingsOf
  <2>2. PICK u \in Entries(e[2]) : <<s, v, x>> = <<e[1], u[1], u[2]>>
    BY <2>1
  <2>3. <<s, e[2]>> \in Entries(c) /\ <<v, x>> \in Entries(e[2])
    BY <1>1, <1>2, <2>2
  <2> QED
    BY <2>3
<1>4. ASSUME NEW s, NEW v, NEW x, NEW d, <<s, d>> \in Entries(c), <<v, x>> \in Entries(d)
      PROVE  <<s, v, x>> \in SettingsOf(c)
  <2>1. PICK e : e = <<s, d>>
    OBVIOUS
  <2>2. PICK u : u = <<v, x>>
    OBVIOUS
  <2>3. e \in Entries(c) /\ u \in Entries(e[2]) /\ <<s, v, x>> = <<e[1], u[1], u[2]>>
    BY <1>4, <2>1, <2>2
  <2> QED
    BY <2>3 DEF SettingsOf
<1>5. ASSUME NEW p \in SettingsOf(c)
      PROVE  /\ p = <<p[1], p[2], p[3]>>
             /\ p[1] \in Strings /\ p[2] \in Strings /\ p[3] \in Strings
  <2>1. PICK e \in Entries(c) : \E u \in Entries(e[2]) : p = <<e[1], u[1], u[2]>>
    BY DEF SettingsOf
  <2>2. PICK u \in Entries(e[2]) : p = <<e[1], u[1], u[2]>>
    BY <2>1
  <2> QED
    BY <1>1, <1>2, <2>2
<1> QED
  BY <1>3, <1>4, <1>5

LEMMA WithSettingFacts ==
    ASSUME config \in Configs, NEW s \in Strings, NEW v \in Strings, NEW x \in Strings
    PROVE  /\ WithSetting(s, v, x) \in Configs
           /\ SettingsOf(WithSetting(s, v, x)) = Others(Pairs, s, v) \cup {<<s, v, x>>}
           /\ NamesOf(WithSetting(s, v, x)) = NamesOf(config) \cup {s}
<1>1. PICK old : old = IF s \in NamesOf(config) THEN Lookup(config, s) ELSE <<>>
  OBVIOUS
<1>2. PICK new : new = Put(old, v, x)
  OBVIOUS
<1>3. PICK c : c = Put(config, s, new)
  OBVIOUS
<1>4. WithSetting(s, v, x) = c
  BY <1>1, <1>2, <1>3 DEF WithSetting
<1>5. config \in Dicts(Strings, Sections) /\ NULL \notin Strings /\ NULL \notin Sections
      /\ Sections = Dicts(Strings, Strings) /\ Configs = Dicts(Strings, Sections)
  BY NullAssumption DEF Configs, Sections, Dicts, Strings
<1>6. old \in Dicts(Strings, Strings)
  <2>1. CASE s \in NamesOf(config)
    BY <1>1, <1>5, <2>1, LookupEntry
  <2>2. CASE s \notin NamesOf(config)
    BY <1>1, <2>2, NoEntries
  <2> QED
    BY <2>1, <2>2
<1>7. x # NULL
  BY <1>5
<1>8. /\ new \in Dicts(Strings, Strings)
      /\ Entries(new) = {u \in Entries(old) : u[1] # v} \cup {<<v, x>>}
  BY <1>2, <1>6, <1>7, PutEntries
<1>9. new \in Sections /\ new # NULL
  BY <1>5, <1>8
<1>10. /\ c \in Dicts(Strings, Sections)
       /\ Entries(c) = {e \in Entries(config) : e[1] # s} \cup {<<s, new>>}
  BY <1>3, <1>5, <1>9, PutEntries
<1>11. c \in Configs
  BY <1>5, <1>10
<1>12. \A y : <<v, y>> \in Entries(new) <=> y = x
  BY <1>8
<1>13. \A w, y : w # v => (<<w, y>> \in Entries(new) <=> <<w, y>> \in Entries(old))
  BY <1>8
<1>14. \A d : <<s, d>> \in Entries(c) <=> d = new
  BY <1>10
<1>15. \A t, d : t # s => (<<t, d>> \in Entries(c) <=> <<t, d>> \in Entries(config))
  BY <1>10
<1>16. \A w, y : <<w, y>> \in Entries(old) <=> <<s, w, y>> \in SettingsOf(config)
  <2>1. \A d : <<s, d>> \in Entries(config) => s \in NamesOf(config) /\ d = Lookup(config, s)
    <3> SUFFICES ASSUME NEW d, <<s, d>> \in Entries(config)
                 PROVE  s \in NamesOf(config) /\ d = Lookup(config, s)
      OBVIOUS
    <3>1. PICK e : e = <<s, d>>
      OBVIOUS
    <3>2. e \in Entries(config) /\ e[1] = s /\ e[2] = d
      BY <3>1
    <3>3. e[1] \in NamesOf(config) /\ e[2] = Lookup(config, e[1])
      BY <1>5, <3>2, EntryLookup
    <3> QED
      BY <3>2, <3>3
  <2>2. CASE s \in NamesOf(config)
    <3>1. <<s, old>> \in Entries(config)
      BY <1>1, <1>5, <2>2, LookupEntry
    <3>2. \A d : <<s, d>> \in Entries(config) => d = old
      BY <1>1, <2>1, <2>2
    <3> QED
      BY <3>1, <3>2, SettingIs
  <2>3. CASE s \notin NamesOf(config)
    <3>1. Entries(old) = {}
      BY <1>1, <2>3, NoEntries
    <3> QED
      BY <2>1, <2>3, <3>1, SettingIs
  <2> QED
    BY <2>2, <2>3
<1>17. ASSUME NEW t, NEW w, NEW y
       PROVE  <<t, w, y>> \in SettingsOf(c) <=>
                  \/ t = s /\ w = v /\ y = x
                  \/ ~(t = s /\ w = v) /\ <<t, w, y>> \in SettingsOf(config)
  <2>1. <<t, w, y>> \in SettingsOf(c) <=>
            \E d : <<t, d>> \in Entries(c) /\ <<w, y>> \in Entries(d)
    BY <1>11, SettingIs
  <2>2. CASE t # s
    <3>1. <<t, w, y>> \in SettingsOf(config) <=>
              \E d : <<t, d>> \in Entries(config) /\ <<w, y>> \in Entries(d)
      BY SettingIs
    <3> QED
      BY <1>15, <2>1, <2>2, <3>1
  <2>3. CASE t = s
    <3>1. <<t, w, y>> \in SettingsOf(c) <=> <<w, y>> \in Entries(new)
      BY <1>14, <2>1, <2>3
    <3> QED
      BY <1>12, <1>13, <1>16, <2>3, <3>1
  <2> QED
    BY <2>2, <2>3
<1>18. ASSUME NEW p PROVE p \in SettingsOf(c) <=> p \in Others(Pairs, s, v) \cup {<<s, v, x>>}
  <2>1. ASSUME p \in SettingsOf(c)
        PROVE  p \in Others(Pairs, s, v) \cup {<<s, v, x>>}
    <3>1. PICK t, w, y : p = <<t, w, y>>
      BY <1>11, <2>1, SettingIs
    <3> QED
      BY <1>17, <2>1, <3>1 DEF Others, Pairs
  <2>2. ASSUME p \in Others(Pairs, s, v) PROVE p \in SettingsOf(c)
    <3>1. PICK t, w, y : p = <<t, w, y>>
      BY <2>2, SettingIs DEF Others, Pairs
    <3> QED
      BY <1>17, <2>2, <3>1 DEF Others, Pairs
  <2>3. <<s, v, x>> \in SettingsOf(c)
    BY <1>17
  <2> QED
    BY <2>1, <2>2, <2>3
<1>19. SettingsOf(c) = Others(Pairs, s, v) \cup {<<s, v, x>>}
  BY <1>18
<1>20. NamesOf(c) = NamesOf(config) \cup {s}
  <2>1. \A n : n \in NamesOf(c) <=> \E e \in Entries(c) : e[1] = n
    BY NamesEntries
  <2>2. \A n : n \in NamesOf(config) <=> \E e \in Entries(config) : e[1] = n
    BY NamesEntries
  <2>3. \A n : n \in NamesOf(c) <=> n \in NamesOf(config) \/ n = s
    <3>1. <<s, new>> \in Entries(c) /\ <<s, new>>[1] = s
      BY <1>10
    <3>2. \A e \in Entries(c) : e[1] = s \/ e \in Entries(config)
      BY <1>10
    <3>3. \A e \in Entries(config) : e[1] = s \/ e \in Entries(c)
      BY <1>10
    <3> QED
      BY <2>1, <2>2, <3>1, <3>2, <3>3
  <2> QED
    BY <2>3
<1> QED
  BY <1>4, <1>11, <1>19, <1>20
----------------------------------------------------------------------------
(* The texts of config_save, one setting and one section after the other.  *)

LEMMA CharFacts ==
    {"EOL", "NUL", "=", "[", "]", "#"} \subseteq Chars /\ <<>> \in Strings
  BY EmptySeq DEF Chars, Strings

LEMMA SeparatedType ==
    ASSUME NEW text \in Strings
    PROVE  Separated(text) \in Strings
  BY CharFacts, AppendProperties DEF Separated, Strings

LEMMA VariableTextType ==
    ASSUME NEW text \in Strings, NEW entry \in [name : Strings, value : Strings]
    PROVE  VariableText(text, entry) \in Strings
<1>1. Separated(text) \o entry.name \in Strings
  BY SeparatedType, ConcatProperties DEF Strings
<1>2. Append(Separated(text) \o entry.name, "=") \in Strings
  BY <1>1, CharFacts, AppendProperties DEF Strings
<1> QED
  BY <1>2, ConcatProperties DEF VariableText, Strings

LEMMA HeaderType ==
    ASSUME NEW text \in Strings, NEW name \in Strings
    PROVE  Header(text, name) \in Strings
<1>1. Append(Separated(Separated(text)), "[") \in Strings
  BY SeparatedType, CharFacts, AppendProperties DEF Strings
<1>2. Append(Separated(Separated(text)), "[") \o name \in Strings
  BY <1>1, ConcatProperties DEF Strings
<1> QED
  BY <1>2, CharFacts, AppendProperties DEF Header, Strings

(* What is written of a section, after each of its variables.              *)
SectionRun(f, text, variables, n) ==
    f = [k \in 0..n |-> IF k = 0 THEN text ELSE VariableText(f[k - 1], variables[k])]

LEMMA SectionRunExists ==
    ASSUME NEW text \in Strings, NEW variables \in Sections, NEW n \in Nat, n = Len(variables)
    PROVE  \E f : SectionRun(f, text, variables, n)
<1>1. \A k \in 1..n : variables[k] \in [name : Strings, value : Strings]
  BY DictEntry DEF Sections, Dicts, Strings
<1> DEFINE op == [x \in (1..n) \X Strings |-> VariableText(x[2], variables[x[1]])]
<1>2. op \in [(1..n) \X Strings -> Strings]
  BY <1>1, VariableTextType
<1>3. \A k \in 1..n, t \in Strings : op[<<k, t>>] = VariableText(t, variables[k])
  OBVIOUS
<1> HIDE DEF op
<1>4. PICK f \in [0..n -> Strings] : Iterate(f, text, n, op)
  BY <1>2, Iterates
<1>5. \A k \in 1..n : op[<<k, f[k - 1]>>] = VariableText(f[k - 1], variables[k])
  <2> SUFFICES ASSUME NEW k \in 1..n
               PROVE  op[<<k, f[k - 1]>>] = VariableText(f[k - 1], variables[k])
    OBVIOUS
  <2>1. k - 1 \in 0..n
    OBVIOUS
  <2>2. f[k - 1] \in Strings
    BY <1>4, <2>1
  <2> QED
    BY <1>3, <2>2
<1>6. \A k \in 0..n :
          f[k] = IF k = 0 THEN text ELSE VariableText(f[k - 1], variables[k])
  <2> SUFFICES ASSUME NEW k \in 0..n
               PROVE  f[k] = IF k = 0 THEN text ELSE VariableText(f[k - 1], variables[k])
    OBVIOUS
  <2>1. k = 0 => f[k] = text
    BY <1>4 DEF Iterate
  <2>2. k # 0 => k \in 1..n /\ f[k] = op[<<k, f[k - 1]>>]
    BY <1>4 DEF Iterate
  <2> QED
    BY <1>5, <2>1, <2>2
<1>7. f = [k \in 0..n |-> f[k]]
  BY <1>4
<1> QED
  BY <1>6, <1>7 DEF SectionRun

LEMMA SectionRunFacts ==
    ASSUME NEW text \in Strings, NEW variables \in Sections, NEW n \in Nat, n = Len(variables)
    PROVE  \E f : /\ f[0] = text
                  /\ \A k \in 1..n : f[k] = VariableText(f[k - 1], variables[k])
                  /\ \A k \in 0..n : f[k] \in Strings
                  /\ f[n] = SectionText(text, variables)
<1>1. PICK f : f = CHOOSE g : SectionRun(g, text, variables, n)
  OBVIOUS
<1>2. SectionRun(f, text, variables, n)
  BY <1>1, SectionRunExists
<1>3. SectionText(text, variables) = f[n]
  BY <1>1 DEF SectionText, SectionRun
<1>4. f[0] = text
  BY <1>2 DEF SectionRun
<1>5. ASSUME NEW k \in 1..n PROVE f[k] = VariableText(f[k - 1], variables[k])
  <2>1. k \in 0..n /\ k # 0
    OBVIOUS
  <2> QED
    BY <1>2, <2>1 DEF SectionRun
<1>6. \A k \in 1..n : variables[k] \in [name : Strings, value : Strings]
  BY DictEntry DEF Sections, Dicts, Strings
<1> DEFINE P == {k \in 0..n : f[k] \in Strings}
<1>7. 0 \in P
  BY <1>4
<1>8. ASSUME NEW k \in 1..n, k - 1 \in P PROVE k \in P
  BY <1>5, <1>6, <1>8, VariableTextType
<1> HIDE DEF P
<1>9. \A k \in 0..n : k \in P
  BY <1>7, <1>8, Induction
<1>10. \A k \in 0..n : f[k] \in Strings
  BY <1>9 DEF P
<1> QED
  BY <1>3, <1>4, <1>5, <1>10

LEMMA EntryTextType ==
    ASSUME NEW text \in Strings, NEW entry \in [name : Strings, value : Sections],
           NEW default \in BOOLEAN
    PROVE  EntryText(text, entry, default) \in Strings
<1>1. ASSUME NEW t \in Strings PROVE SectionText(t, entry.value) \in Strings
  <2>1. PICK n \in Nat : n = Len(entry.value)
    BY LenProperties DEF Sections
  <2> QED
    BY <2>1, SectionRunFacts
<1>2. Header(text, entry.name) \in Strings
  BY HeaderType
<1> QED
  BY <1>1, <1>2 DEF EntryText

(* What is written of a configuration in one of the two passes over it.    *)
PassRun(f, text, default, n) ==
    f = [k \in 0..n |-> IF k = 0 THEN text ELSE EntryText(f[k - 1], config[k], default)]

LEMMA PassRunExists ==
    ASSUME config \in Configs, NEW text \in Strings, NEW default \in BOOLEAN,
           NEW n \in Nat, n = Len(config)
    PROVE  \E f : PassRun(f, text, default, n)
<1>1. \A k \in 1..n : config[k] \in [name : Strings, value : Sections]
  BY DictEntry DEF Configs, Dicts, Strings
<1> DEFINE op == [x \in (1..n) \X Strings |-> EntryText(x[2], config[x[1]], default)]
<1>2. op \in [(1..n) \X Strings -> Strings]
  BY <1>1, EntryTextType
<1>3. \A k \in 1..n, t \in Strings : op[<<k, t>>] = EntryText(t, config[k], default)
  OBVIOUS
<1> HIDE DEF op
<1>4. PICK f \in [0..n -> Strings] : Iterate(f, text, n, op)
  BY <1>2, Iterates
<1>5. \A k \in 1..n : op[<<k, f[k - 1]>>] = EntryText(f[k - 1], config[k], default)
  <2> SUFFICES ASSUME NEW k \in 1..n
               PROVE  op[<<k, f[k - 1]>>] = EntryText(f[k - 1], config[k], default)
    OBVIOUS
  <2>1. k - 1 \in 0..n
    OBVIOUS
  <2>2. f[k - 1] \in Strings
    BY <1>4, <2>1
  <2> QED
    BY <1>3, <2>2
<1>6. \A k \in 0..n :
          f[k] = IF k = 0 THEN text ELSE EntryText(f[k - 1], config[k], default)
  <2> SUFFICES ASSUME NEW k \in 0..n
               PROVE  f[k] = IF k = 0 THEN text ELSE EntryText(f[k - 1], config[k], default)
    OBVIOUS
  <2>1. k = 0 => f[k] = text
    BY <1>4 DEF Iterate
  <2>2. k # 0 => k \in 1..n /\ f[k] = op[<<k, f[k - 1]>>]
    BY <1>4 DEF Iterate
  <2> QED
    BY <1>5, <2>1, <2>2
<1>7. f = [k \in 0..n |-> f[k]]
  BY <1>4
<1> QED
  BY <1>6, <1>7 DEF PassRun

LEMMA PassRunFacts ==
    ASSUME config \in Configs, NEW text \in Strings, NEW default \in BOOLEAN,
           NEW n \in Nat, n = Len(config)
    PROVE  \E f : /\ f[0] = text
                  /\ \A k \in 1..n : f[k] = EntryText(f[k - 1], config[k], default)
                  /\ \A k \in 0..n : f[k] \in Strings
                  /\ f[n] = PassText(text, default)
<1>1. PICK f : f = CHOOSE g : PassRun(g, text, default, n)
  OBVIOUS
<1>2. PassRun(f, text, default, n)
  BY <1>1, PassRunExists
<1>3. PassText(text, default) = f[n]
  BY <1>1 DEF PassText, PassRun
<1>4. f[0] = text
  BY <1>2 DEF PassRun
<1>5. ASSUME NEW k \in 1..n PROVE f[k] = EntryText(f[k - 1], config[k], default)
  <2>1. k \in 0..n /\ k # 0
    OBVIOUS
  <2> QED
    BY <1>2, <2>1 DEF PassRun
<1>6. \A k \in 1..n : config[k] \in [name : Strings, value : Sections]
  BY DictEntry DEF Configs, Dicts, Strings
<1> DEFINE P == {k \in 0..n : f[k] \in Strings}
<1>7. 0 \in P
  BY <1>4
<1>8. ASSUME NEW k \in 1..n, k - 1 \in P PROVE k \in P
  BY <1>5, <1>6, <1>8, EntryTextType
<1> HIDE DEF P
<1>9. \A k \in 0..n : k \in P
  BY <1>7, <1>8, Induction
<1>10. \A k \in 0..n : f[k] \in Strings
  BY <1>9 DEF P
<1> QED
  BY <1>3, <1>4, <1>5, <1>10

LEMMA PassTextType ==
    ASSUME config \in Configs, NEW text \in Strings, NEW default \in BOOLEAN
    PROVE  PassText(text, default) \in Strings
<1>1. PICK n \in Nat : n = Len(config)
  BY LenProperties DEF Configs
<1> QED
  BY <1>1, PassRunFacts

LEMMA SavedTextType ==
    ASSUME config \in Configs
    PROVE  SavedText \in Strings
<1>1. PassText(<<>>, TRUE) \in Strings
  BY CharFacts, PassTextType
<1>2. PassText(PassText(<<>>, TRUE), FALSE) \in Strings
  BY <1>1, PassTextType
<1> QED
  BY <1>2, SeparatedType DEF SavedText
----------------------------------------------------------------------------
(* Types.                                                                  *)

Readers == [mode : {"line", "comment", "section", "variable", "value"},
            rest : Strings, word : Strings, section : Strings, variable : Strings]

Typed ==
    /\ file \in Strings \cup {NULL}
    /\ config \in Configs
    /\ reader \in Readers \cup {NULL}

LEMMA OneLetter ==
    ASSUME NEW c \in Chars
    PROVE  <<c>> \in Strings /\ <<c>> # <<>> /\ Head(<<c>>) = c /\ Tail(<<c>>) = <<>>
           /\ <<c>> = Append(<<>>, c)
  BY DEF Strings

(* The character that is read.                                             *)
LEMMA CharType ==
    ASSUME Typed, reader # NULL, reader.rest # <<>>
    PROVE  Char \in Chars /\ Tail(reader.rest) \in Strings
<1>1. reader.rest \in Seq(Chars)
  BY DEF Typed, Readers, Strings
<1> QED
  BY <1>1, HeadTailProperties DEF Char, Strings

(* A step of the reader changes fields of its record.                      *)
LEMMA ReaderUpdates ==
    ASSUME NEW r \in Readers, NEW mode \in {"line", "comment", "section", "variable", "value"},
           NEW rest \in Strings, NEW word \in Strings, NEW name \in Strings
    PROVE  /\ [r EXCEPT !.mode = mode, !.word = word, !.rest = rest] \in Readers
           /\ [r EXCEPT !.mode = mode, !.word = word, !.section = name, !.rest = rest] \in Readers
           /\ [r EXCEPT !.mode = mode, !.word = word, !.variable = name, !.rest = rest] \in Readers
<1> USE DEF Readers
<1>1. [r EXCEPT !.mode = mode, !.word = word, !.rest = rest] \in Readers
  OBVIOUS
<1>2. [r EXCEPT !.mode = mode, !.word = word, !.section = name, !.rest = rest] \in Readers
  OBVIOUS
<1>3. [r EXCEPT !.mode = mode, !.word = word, !.variable = name, !.rest = rest] \in Readers
  OBVIOUS
<1> QED
  BY <1>1, <1>2, <1>3

(* What one character makes of the place a reader is in: its mode, word,   *)
(* section and variable.                                                   *)
To(a, b, mode, word) ==
    b.mode = mode /\ b.word = word /\ b.section = a.section /\ b.variable = a.variable

Moves(a, c, b) ==
    \/ a.mode = "line" /\ c = "#" /\ To(a, b, "comment", <<>>)
    \/ a.mode = "line" /\ c = "[" /\ To(a, b, "section", <<>>)
    \/ a.mode = "line" /\ c = "EOL" /\ To(a, b, "line", <<>>)
    \/ a.mode = "line" /\ c \notin {"#", "[", "EOL", "NUL"} /\ To(a, b, "variable", <<c>>)
    \/ a.mode = "comment" /\ c = "EOL" /\ To(a, b, "line", <<>>)
    \/ a.mode = "comment" /\ c # "EOL" /\ To(a, b, "comment", <<>>)
    \/ a.mode = "section" /\ c \notin {"]", "EOL", "NUL"} /\ To(a, b, "section", Append(a.word, c))
    \/ /\ a.mode = "section" /\ c = "]"
       /\ b.mode = "line" /\ b.word = <<>> /\ b.section = a.word /\ b.variable = a.variable
    \/ a.mode = "variable" /\ c \notin {"=", "EOL", "NUL"} /\ To(a, b, "variable", Append(a.word, c))
    \/ /\ a.mode = "variable" /\ c = "="
       /\ b.mode = "value" /\ b.word = <<>> /\ b.section = a.section /\ b.variable = a.word
    \/ a.mode = "value" /\ c \notin {"EOL", "NUL"} /\ To(a, b, "value", Append(a.word, c))
    \/ a.mode = "value" /\ c = "EOL" /\ To(a, b, "line", <<>>)

Finishes(a, c) == a.mode = "value" /\ c = "EOL"
Refuses(a, c) ==
    \/ a.mode # "comment" /\ c = "NUL"
    \/ a.mode \in {"section", "variable"} /\ c = "EOL"

Reading == AtLine \/ InComment \/ InSection \/ InVariable \/ InValue

(* The reader goes on, after a setting perhaps, or the load fails.         *)
GoesOn ==
    /\ reader' \in Readers
    /\ reader'.rest = Tail(reader.rest)
    /\ Moves(reader, Char, reader')
    /\ config' = IF Finishes(reader, Char)
                 THEN WithSetting(reader.section, reader.variable, reader.word)
                 ELSE config
    /\ UNCHANGED <<file, status, saved>>
GivesUp ==
    /\ reader' = NULL /\ status' = "failed"
    /\ Refuses(reader, Char)
    /\ UNCHANGED <<file, config, saved>>

LEMMA EnterMoves ==
    ASSUME Typed, reader # NULL, reader.rest # <<>>,
           NEW mode \in {"line", "comment", "section", "variable", "value"},
           NEW word \in Strings, Enter(mode, word)
    PROVE  /\ reader' \in Readers /\ reader'.rest = Tail(reader.rest)
           /\ To(reader, reader', mode, word)
           /\ UNCHANGED <<file, config, status, saved>>
<1>1. reader \in Readers /\ Tail(reader.rest) \in Strings
  BY CharType DEF Typed
<1>2. reader' = [reader EXCEPT !.mode = mode, !.word = word, !.rest = Tail(reader.rest)]
  BY <1>1 DEF Enter, Readers
<1>3. reader' \in Readers
  BY <1>1, <1>2, ReaderUpdates
<1> QED
  BY <1>1, <1>2, <1>3 DEF Enter, To, Readers

LEMMA ReadingMoves ==
    ASSUME Typed, Reading
    PROVE  reader \in Readers /\ reader # NULL /\ reader.rest # <<>> /\ (GoesOn \/ GivesUp)
<1>1. reader # NULL /\ reader.rest # <<>> /\ reader \in Readers
  BY DEF Reading, AtLine, InComment, InSection, InVariable, InValue, At, Typed
<1>2. Char \in Chars /\ Tail(reader.rest) \in Strings
  BY <1>1, CharType
<1>3. reader.word \in Strings /\ Append(reader.word, Char) \in Strings /\ <<>> \in Strings
      /\ <<Char>> \in Strings
  BY <1>1, <1>2, AppendProperties, EmptySeq, OneLetter DEF Readers, Strings
<1>4. CASE AtLine
  <2>1. reader.mode = "line" /\ ~Finishes(reader, Char)
    BY <1>4 DEF AtLine, At, Finishes
  <2>2. CASE Char = "#" /\ Enter("comment", <<>>)
    BY <1>1, <1>3, <2>1, <2>2, EnterMoves DEF GoesOn, Moves
  <2>3. CASE Char = "[" /\ Enter("section", <<>>)
    BY <1>1, <1>3, <2>1, <2>3, EnterMoves DEF GoesOn, Moves
  <2>4. CASE Char = "EOL" /\ Enter("line", <<>>)
    BY <1>1, <1>3, <2>1, <2>4, EnterMoves DEF GoesOn, Moves
  <2>5. CASE Char = "NUL" /\ Fail
    BY <1>1, <2>1, <2>5 DEF Fail, Stop, GivesUp, Refuses
  <2>6. CASE Printable(Char) /\ Char \notin {"#", "["} /\ Enter("variable", <<Char>>)
    BY <1>1, <1>3, <2>1, <2>6, EnterMoves DEF GoesOn, Moves, Printable
  <2> QED
    BY <1>1, <1>4, <2>2, <2>3, <2>4, <2>5, <2>6 DEF AtLine
<1>5. CASE InComment
  <2>1. reader.mode = "comment" /\ ~Finishes(reader, Char)
        /\ Enter(IF Char = "EOL" THEN "line" ELSE "comment", <<>>)
    BY <1>5 DEF InComment, At, Finishes
  <2> QED
    BY <1>1, <1>3, <2>1, EnterMoves DEF GoesOn, Moves
<1>6. CASE InSection
  <2>1. reader.mode = "section" /\ ~Finishes(reader, Char)
    BY <1>6 DEF InSection, At, Finishes
  <2>2. CASE Char = "]" /\ reader' = [reader EXCEPT !.mode = "line", !.word = <<>>,
                                          !.section = reader.word, !.rest = Tail(@)]
             /\ UNCHANGED <<file, config, status, saved>>
    <3>1. reader' = [reader EXCEPT !.mode = "line", !.word = <<>>,
                                   !.section = reader.word, !.rest = Tail(reader.rest)]
      BY <1>1, <2>2 DEF Readers
    <3>2. reader' \in Readers
      BY <1>1, <1>2, <1>3, <3>1, ReaderUpdates
    <3>3. reader'.mode = "line" /\ reader'.word = <<>> /\ reader'.section = reader.word
          /\ reader'.variable = reader.variable /\ reader'.rest = Tail(reader.rest)
      BY <1>1, <3>1 DEF Readers
    <3> QED
      BY <1>1, <2>1, <2>2, <3>2, <3>3 DEF GoesOn, Moves
  <2>3. CASE Char # "]" /\ Printable(Char) /\ More
    BY <1>1, <1>3, <2>1, <2>3, EnterMoves DEF GoesOn, Moves, More, Printable
  <2>4. CASE ~Printable(Char) /\ Fail
    BY <1>1, <2>1, <2>4 DEF Fail, Stop, GivesUp, Refuses, Printable
  <2> QED
    BY <1>6, <2>2, <2>3, <2>4, <1>1 DEF InSection
<1>7. CASE InVariable
  <2>1. reader.mode = "variable" /\ ~Finishes(reader, Char)
    BY <1>7 DEF InVariable, At, Finishes
  <2>2. CASE Char = "=" /\ reader' = [reader EXCEPT !.mode = "value", !.word = <<>>,
                                          !.variable = reader.word, !.rest = Tail(@)]
             /\ UNCHANGED <<file, config, status, saved>>
    <3>1. reader' = [reader EXCEPT !.mode = "value", !.word = <<>>,
                                   !.variable = reader.word, !.rest = Tail(reader.rest)]
      BY <1>1, <2>2 DEF Readers
    <3>2. reader' \in Readers
      BY <1>1, <1>2, <1>3, <3>1, ReaderUpdates
    <3>3. reader'.mode = "value" /\ reader'.word = <<>> /\ reader'.section = reader.section
          /\ reader'.variable = reader.word /\ reader'.rest = Tail(reader.rest)
      BY <1>1, <3>1 DEF Readers
    <3> QED
      BY <1>1, <2>1, <2>2, <3>2, <3>3 DEF GoesOn, Moves
  <2>3. CASE Char # "=" /\ Printable(Char) /\ More
    BY <1>1, <1>3, <2>1, <2>3, EnterMoves DEF GoesOn, Moves, More, Printable
  <2>4. CASE ~Printable(Char) /\ Fail
    BY <1>1, <2>1, <2>4 DEF Fail, Stop, GivesUp, Refuses, Printable
  <2> QED
    BY <1>7, <2>2, <2>3, <2>4, <1>1 DEF InVariable
<1>8. CASE InValue
  <2>1. reader.mode = "value"
    BY <1>8 DEF InValue, At
  <2>2. CASE Char = "EOL" /\ config' = WithSetting(reader.section, reader.variable, reader.word)
             /\ reader' = [reader EXCEPT !.mode = "line", !.word = <<>>, !.rest = Tail(@)]
             /\ UNCHANGED <<file, status, saved>>
    <3>1. reader' = [reader EXCEPT !.mode = "line", !.word = <<>>, !.rest = Tail(reader.rest)]
      BY <1>1, <2>2 DEF Readers
    <3>2. reader' \in Readers
      BY <1>1, <1>2, <1>3, <3>1, ReaderUpdates
    <3>3. To(reader, reader', "line", <<>>) /\ reader'.rest = Tail(reader.rest)
      BY <1>1, <3>1 DEF Readers, To
    <3> QED
      BY <1>1, <2>1, <2>2, <3>2, <3>3 DEF GoesOn, Moves, Finishes
  <2>3. CASE Printable(Char) /\ More
    BY <1>1, <1>3, <2>1, <2>3, EnterMoves DEF GoesOn, Moves, More, Printable, Finishes
  <2>4. CASE Char = "NUL" /\ Fail
    BY <1>1, <2>1, <2>4 DEF Fail, Stop, GivesUp, Refuses
  <2> QED
    BY <1>8, <2>2, <2>3, <2>4, <1>1 DEF InValue
<1> QED
  BY <1>4, <1>5, <1>6, <1>7, <1>8 DEF Reading

LEMMA AtEndMeans ==
    ASSUME Typed, AtEnd
    PROVE  /\ reader \in Readers /\ reader # NULL /\ reader.rest = <<>>
           /\ reader' = NULL /\ UNCHANGED <<file, saved>>
           /\ \/ /\ reader.mode \in {"line", "comment"}
                 /\ status' = "done" /\ config' = config
              \/ /\ reader.mode \in {"section", "variable"}
                 /\ status' = "failed" /\ config' = config
              \/ /\ reader.mode = "value" /\ status' = "done"
                 /\ config' = WithSetting(reader.section, reader.variable, reader.word)
  BY DEF AtEnd, Stop, Fail, Typed

LEMMA SaveMeans ==
    ASSUME config \in Configs, NEW n \in 0..Len(SavedText), Save(n)
    PROVE  /\ reader = NULL /\ reader' = NULL /\ config' = config /\ status' = "none"
           /\ file' \in Strings /\ Len(file') = n
           /\ \A k \in 1..n : file'[k] = SavedText[k]
           /\ saved' = [whole |-> n = Len(SavedText), config |-> config]
<1>1. PICK text \in Strings : text = SavedText
  BY SavedTextType
<1>2. PICK m \in Nat : m = Len(text)
  BY LenProperties DEF Strings
<1>3. n \in 0..m /\ n \in Nat
  BY <1>1, <1>2
<1>4. \A k \in 1..n : text[k] \in Chars
  BY <1>2, <1>3, ElementOfSeq DEF Strings
<1>5. /\ SubSeq(text, 1, n) \in Strings /\ Len(SubSeq(text, 1, n)) = n
      /\ \A k \in 1..n : SubSeq(text, 1, n)[k] = text[k]
  <2>1. /\ SubSeq(text, 1, n) \in Seq(Chars)
        /\ Len(SubSeq(text, 1, n)) = IF 1 <= n THEN n - 1 + 1 ELSE 0
        /\ \A k \in 1..(n - 1 + 1) : SubSeq(text, 1, n)[k] = text[1 + k - 1]
    BY <1>3, <1>4, SubSeqProperties
  <2>2. n - 1 + 1 = n /\ \A k \in 1..n : 1 + k - 1 = k
    BY <1>3
  <2> QED
    BY <1>3, <2>1, <2>2 DEF Strings
<1>6. file' = SubSeq(text, 1, n)
  BY <1>1 DEF Save
<1> QED
  BY <1>1, <1>5, <1>6 DEF Save

LEMMA TypedInit == Init => Typed
<1>1. <<>> \in Configs
  BY NoEntries DEF Configs, Sections, Dicts
<1> QED
  BY <1>1, TextAssumption DEF Init, Typed, Strings

LEMMA TypedStep ==
    ASSUME Typed, [Next]_vars
    PROVE  Typed'
<1>1. CASE Load
  <2>1. file \in Strings /\ <<>> \in Strings /\ <<>> \in Configs
    BY <1>1, CharFacts, NoEntries DEF Typed, Load, Configs, Sections, Dicts
  <2>2. reader' \in Readers
    BY <1>1, <2>1 DEF Load, Readers, Default
  <2> QED
    BY <1>1, <2>1, <2>2 DEF Load, Typed
<1>2. CASE Reading
  <2>1. reader \in Readers /\ (GoesOn \/ GivesUp)
    BY <1>2, ReadingMoves
  <2>2. WithSetting(reader.section, reader.variable, reader.word) \in Configs
    BY <2>1, WithSettingFacts DEF Typed, Readers
  <2> QED
    BY <2>1, <2>2 DEF Typed, GoesOn, GivesUp
<1>3. CASE AtEnd
  <2>1. WithSetting(reader.section, reader.variable, reader.word) \in Configs
    BY <1>3, AtEndMeans, WithSettingFacts DEF Typed, Readers
  <2> QED
    BY <1>3, <2>1, AtEndMeans DEF Typed
<1>4. ASSUME NEW n \in 0..Len(SavedText), Save(n) PROVE Typed'
  <2>1. reader' = NULL /\ config' = config /\ file' \in Strings
    BY <1>4, SaveMeans DEF Typed
  <2> QED
    BY <2>1 DEF Typed
<1>5. CASE UNCHANGED vars
  BY <1>5 DEF Typed, vars
<1> QED
  BY <1>1, <1>2, <1>3, <1>4, <1>5 DEF Next, Reading

LEMMA TypedAlways == Spec => []Typed
  BY TypedInit, TypedStep, PTL DEF Spec
----------------------------------------------------------------------------
(* What is read can be written.                                            *)

LEMMA HoldsAppend ==
    ASSUME NEW w \in Strings, NEW c \in Chars
    PROVE  \A x : Holds(Append(w, c), x) <=> Holds(w, x) \/ c = x
<1>1. PICK n \in Nat : n = Len(w)
  BY LenProperties DEF Strings
<1>2. PICK u \in Seq(Chars) : u = Append(w, c)
  BY AppendProperties DEF Strings
<1>3. /\ DOMAIN w = 1..n /\ DOMAIN u = 1..(n + 1)
      /\ \A k \in 1..n : u[k] = w[k]
      /\ u[n + 1] = c
  <2>1. Len(u) = n + 1 /\ (\A k \in 1..n : u[k] = w[k]) /\ u[n + 1] = c
    BY <1>1, <1>2, AppendProperties DEF Strings
  <2> QED
    BY <1>1, <1>2, <2>1, LenProperties DEF Strings
<1>4. ASSUME NEW x PROVE Holds(u, x) <=> Holds(w, x) \/ c = x
  <2>1. Holds(u, x) <=> \E k \in 1..(n + 1) : u[k] = x
    BY <1>3 DEF Holds
  <2>2. Holds(w, x) <=> \E k \in 1..n : w[k] = x
    BY <1>3 DEF Holds
  <2> QED
    BY <1>3, <2>1, <2>2
<1> QED
  BY <1>2, <1>4

LEMMA HoldsNone == \A x : ~Holds(<<>>, x)
<1>1. DOMAIN <<>> = {}
  OBVIOUS
<1> QED
  BY <1>1 DEF Holds

LEMMA CleanNone == Clean(<<>>) /\ CleanSection(<<>>)
  BY HoldsNone DEF Clean, CleanSection

LEMMA CleanAppend ==
    ASSUME NEW w \in Strings, NEW c \in Chars, c \notin {"EOL", "NUL"}
    PROVE  /\ Clean(w) => Clean(Append(w, c))
           /\ CleanSection(w) /\ c # "]" => CleanSection(Append(w, c))
           /\ CleanVariable(w) /\ c # "=" => CleanVariable(Append(w, c))
           /\ c \notin {"[", "#"} => CleanVariable(<<c>>)
<1>1. \A x : Holds(Append(w, c), x) <=> Holds(w, x) \/ c = x
  BY HoldsAppend
<1>2. Clean(w) => Clean(Append(w, c))
  BY <1>1 DEF Clean
<1>3. CleanSection(w) /\ c # "]" => CleanSection(Append(w, c))
  BY <1>1, <1>2 DEF CleanSection
<1>4. ASSUME CleanVariable(w), c # "=" PROVE CleanVariable(Append(w, c))
  <2>1. w \in Seq(Chars) /\ w # <<>> /\ Clean(w)
        /\ Head(w) \notin {"[", "#"} /\ ~Holds(Tail(w), "=")
    BY <1>4 DEF CleanVariable, Strings
  <2>2. Head(Append(w, c)) = Head(w) /\ Tail(Append(w, c)) = Append(Tail(w), c)
        /\ Append(w, c) # <<>> /\ Tail(w) \in Strings
    BY <2>1, HeadTailAppend, AppendProperties, HeadTailProperties DEF Strings
  <2>3. ~Holds(Append(Tail(w), c), "=")
    BY <1>4, <2>1, <2>2, HoldsAppend
  <2> QED
    BY <1>2, <2>1, <2>2, <2>3 DEF CleanVariable
<1>5. ASSUME c \notin {"[", "#"} PROVE CleanVariable(<<c>>)
  <2>1. <<c>> # <<>> /\ Head(<<c>>) = c /\ Tail(<<c>>) = <<>> /\ <<c>> = Append(<<>>, c)
    BY OneLetter
  <2>2. \A x : Holds(Append(<<>>, c), x) <=> Holds(<<>>, x) \/ c = x
    BY CharFacts, HoldsAppend
  <2>3. Clean(<<c>>) /\ ~Holds(<<>>, "=")
    BY <2>1, <2>2, HoldsNone DEF Clean
  <2> QED
    BY <1>5, <2>1, <2>3 DEF CleanVariable
<1> QED
  BY <1>2, <1>3, <1>4, <1>5

(* What a reader has read so far, by its mode.                             *)
CleanPlace(a) ==
    /\ CleanSection(a.section)
    /\ a.mode = "section" => CleanSection(a.word)
    /\ a.mode = "variable" => CleanVariable(a.word)
    /\ a.mode = "value" => CleanVariable(a.variable) /\ Clean(a.word)

LEMMA CleanMoves ==
    ASSUME NEW a \in Readers, NEW c \in Chars, NEW b \in Readers,
           Moves(a, c, b), CleanPlace(a)
    PROVE  CleanPlace(b)
<1>1. a.word \in Strings
  BY DEF Readers
<1>2. c \notin {"EOL", "NUL"} =>
          /\ Clean(a.word) => Clean(Append(a.word, c))
          /\ CleanSection(a.word) /\ c # "]" => CleanSection(Append(a.word, c))
          /\ CleanVariable(a.word) /\ c # "=" => CleanVariable(Append(a.word, c))
          /\ c \notin {"[", "#"} => CleanVariable(<<c>>)
  BY <1>1, CleanAppend
<1> QED
  BY <1>2, CleanNone, Zenon DEF Moves, CleanPlace, To

WritableInv ==
    /\ LoadedIsWritable
    /\ reader # NULL => CleanPlace(reader)

LEMMA WithSettingWritable ==
    ASSUME Typed, Writable(config), reader \in Readers, CleanPlace(reader), reader.mode = "value"
    PROVE  Writable(WithSetting(reader.section, reader.variable, reader.word))
<1>1. PICK p : p = <<reader.section, reader.variable, reader.word>>
  OBVIOUS
<1>2. PICK c : c = WithSetting(reader.section, reader.variable, reader.word)
  OBVIOUS
<1>3. /\ SettingsOf(c) = Others(Pairs, reader.section, reader.variable) \cup {p}
      /\ NamesOf(c) = NamesOf(config) \cup {reader.section}
  BY <1>1, <1>2, WithSettingFacts DEF Typed, Readers
<1>4. p[2] = reader.variable /\ p[3] = reader.word
  BY <1>1
<1>5. CleanSection(reader.section) /\ CleanVariable(p[2]) /\ Clean(p[3])
  BY <1>4 DEF CleanPlace
<1>6. \A q \in Pairs : CleanVariable(q[2]) /\ Clean(q[3])
  BY DEF Writable, Pairs
<1>7. \A q \in SettingsOf(c) : CleanVariable(q[2]) /\ Clean(q[3])
  BY <1>3, <1>5, <1>6 DEF Others
<1>8. \A name \in NamesOf(c) : CleanSection(name)
  BY <1>3, <1>5 DEF Writable
<1> QED
  BY <1>2, <1>7, <1>8 DEF Writable

LEMMA NothingToWrite == SettingsOf(<<>>) = {} /\ Writable(<<>>)
<1>1. Entries(<<>>) = {} /\ NamesOf(<<>>) = {}
  BY NoEntries
<1>2. SettingsOf(<<>>) = {}
  BY <1>1 DEF SettingsOf
<1> QED
  BY <1>1, <1>2 DEF Writable

LEMMA WritableInit == Init => WritableInv
  BY DEF Init, WritableInv, LoadedIsWritable, Read

LEMMA WritableStep ==
    ASSUME Typed, WritableInv, [Next]_vars
    PROVE  WritableInv'
<1>1. CASE Load
  <2>1. config' = <<>> /\ reader'.mode = "line" /\ reader'.section = <<>>
    BY <1>1 DEF Load, Default
  <2>2. Writable(config')
    BY <2>1, NothingToWrite
  <2>3. CleanPlace(reader')
    BY <2>1, CleanNone DEF CleanPlace
  <2> QED
    BY <2>2, <2>3 DEF WritableInv, LoadedIsWritable
<1>2. CASE Reading
  <2>1. reader \in Readers /\ reader # NULL /\ reader.rest # <<>> /\ (GoesOn \/ GivesUp)
    BY <1>2, ReadingMoves
  <2>2. CleanPlace(reader) /\ Writable(config) /\ Char \in Chars
    BY <2>1, CharType DEF WritableInv, LoadedIsWritable, Read
  <2>3. CASE GivesUp
    <3>1. config' = config /\ reader' = NULL
      BY <2>3 DEF GivesUp
    <3> QED
      BY <2>2, <3>1 DEF WritableInv, LoadedIsWritable
  <2>4. CASE GoesOn
    <3>1. CleanPlace(reader')
      BY <2>1, <2>2, <2>4, CleanMoves DEF GoesOn
    <3>2. CASE Finishes(reader, Char)
      <4>1. config' = WithSetting(reader.section, reader.variable, reader.word)
            /\ reader.mode = "value"
        BY <2>4, <3>2 DEF GoesOn, Finishes
      <4>2. Writable(config')
        BY <2>1, <2>2, <4>1, WithSettingWritable
      <4> QED
        BY <3>1, <4>2 DEF WritableInv, LoadedIsWritable
    <3>3. CASE ~Finishes(reader, Char)
      <4>1. config' = config
        BY <2>4, <3>3 DEF GoesOn
      <4> QED
        BY <2>2, <3>1, <4>1 DEF WritableInv, LoadedIsWritable
    <3> QED
      BY <3>2, <3>3
  <2> QED
    BY <2>1, <2>3, <2>4
<1>3. CASE AtEnd
  <2>1. reader \in Readers /\ reader # NULL /\ reader' = NULL
    BY <1>3, AtEndMeans
  <2>2. CleanPlace(reader) /\ Writable(config)
    BY <2>1 DEF WritableInv, LoadedIsWritable, Read
  <2>3. CASE config' = config
    BY <2>1, <2>2, <2>3 DEF WritableInv, LoadedIsWritable
  <2>4. CASE /\ reader.mode = "value"
             /\ config' = WithSetting(reader.section, reader.variable, reader.word)
    <3>1. Writable(config')
      BY <2>1, <2>2, <2>4, WithSettingWritable
    <3> QED
      BY <2>1, <3>1 DEF WritableInv, LoadedIsWritable
  <2> QED
    BY <1>3, <2>3, <2>4, AtEndMeans
<1>4. ASSUME NEW n \in 0..Len(SavedText), Save(n) PROVE WritableInv'
  <2>1. reader' = NULL /\ status' = "none"
    BY <1>4, SaveMeans DEF Typed
  <2> QED
    BY <2>1 DEF WritableInv, LoadedIsWritable, Read
<1>5. CASE UNCHANGED vars
  <2>1. reader' = reader /\ status' = status /\ config' = config
    BY <1>5 DEF vars
  <2> QED
    BY <2>1 DEF WritableInv, LoadedIsWritable, Read
<1> QED
  BY <1>1, <1>2, <1>3, <1>4, <1>5 DEF Next, Reading

(* Whatever the characters of a file, what config_load has taken from it,  *)
(* in the middle of the file, at its end or when it fails, is what         *)
(* config_save can write.                                                  *)
THEOREM LoadedIsWritableAlways == Spec => []LoadedIsWritable
<1>1. WritableInv => LoadedIsWritable
  BY DEF WritableInv
<1> QED
  BY <1>1, TypedAlways, WritableInit, WritableStep, PTL DEF Spec
----------------------------------------------------------------------------
(* What is written is read back: a text leads the reader from one place to *)
(* another.                                                                *)

Upto(word, k) == SubSeq(word, 1, k)

LEMMA UptoFacts ==
    ASSUME NEW w \in Strings, NEW n \in Nat, n = Len(w)
    PROVE  /\ Upto(w, 0) = <<>> /\ Upto(w, n) = w
           /\ \A k \in 0..n : Upto(w, k) \in Strings /\ IsPrefix(Upto(w, k), w)
           /\ \A k \in 1..n : Append(Upto(w, k - 1), w[k]) = Upto(w, k)
<1>1. w \in Seq(Chars) /\ \A k \in 1..n : w[k] \in Chars
  BY ElementOfSeq DEF Strings
<1>2. Upto(w, 0) = <<>> /\ Upto(w, n) = w
  BY <1>1, SubSeqEmpty, SubSeqFull DEF Upto
<1>3. ASSUME NEW k \in 0..n
      PROVE  /\ Upto(w, k) \in Strings /\ Len(Upto(w, k)) = k
             /\ \A i \in 1..k : Upto(w, k)[i] = w[i]
  <2>1. /\ SubSeq(w, 1, k) \in Seq(Chars)
        /\ Len(SubSeq(w, 1, k)) = IF 1 <= k THEN k - 1 + 1 ELSE 0
        /\ \A i \in 1..(k - 1 + 1) : SubSeq(w, 1, k)[i] = w[1 + i - 1]
    BY <1>1, SubSeqProperties
  <2>2. k - 1 + 1 = k /\ \A i \in 1..k : 1 + i - 1 = i
    OBVIOUS
  <2> QED
    BY <2>1, <2>2 DEF Upto, Strings
<1>4. ASSUME NEW k \in 0..n PROVE IsPrefix(Upto(w, k), w)
  <2>1. PICK u \in Seq(Chars) : u = Upto(w, k)
    BY <1>3 DEF Strings
  <2>2. Len(u) = k /\ SubSeq(u, 1, Len(u)) = u
    BY <1>3, <2>1, SubSeqFull
  <2>3. SubSeq(w, 1, k) = u
    BY <2>1 DEF Upto
  <2> QED
    BY <2>1, <2>2, <2>3 DEF IsPrefix
<1>5. ASSUME NEW k \in 1..n PROVE Append(Upto(w, k - 1), w[k]) = Upto(w, k)
  <2>1. PICK j \in 0..n : j = k - 1
    OBVIOUS
  <2>2. PICK u \in Seq(Chars) : u = Upto(w, j)
    BY <1>3 DEF Strings
  <2>3. PICK v \in Seq(Chars) : v = Upto(w, k)
    BY <1>3 DEF Strings
  <2>4. Len(u) = j /\ (\A i \in 1..j : u[i] = w[i]) /\ Len(v) = k /\ (\A i \in 1..k : v[i] = w[i])
    <3>1. Len(u) = j /\ (\A i \in 1..j : u[i] = w[i])
      BY <1>3, <2>2
    <3>2. k \in 0..n
      OBVIOUS
    <3> QED
      BY <1>3, <2>3, <3>1, <3>2
  <2>5. PICK c \in Chars : c = w[k]
    BY <1>1
  <2>6. PICK t \in Seq(Chars) : t = Append(u, c)
    BY AppendProperties
  <2>7. Len(t) = k /\ (\A i \in 1..j : t[i] = u[i]) /\ t[k] = c
    BY <2>1, <2>4, <2>6, AppendProperties
  <2>8. \A i \in 1..k : t[i] = v[i]
    BY <2>1, <2>4, <2>5, <2>7
  <2>9. t = v
    BY <2>4, <2>7, <2>8, SeqEqual
  <2> QED
    BY <2>1, <2>2, <2>3, <2>5, <2>6, <2>9
<1> QED
  BY <1>2, <1>3, <1>4, <1>5

(* A place: where the reader is, and the settings so far.                  *)
Place(mode, word, section, variable, pairs) ==
    [mode |-> mode, word |-> word, section |-> section, variable |-> variable, pairs |-> pairs]
Start == Place("line", <<>>, Default, <<>>, {})

(* Nothing but the settings of S, with one value that is being read.       *)
Fine(b, S) ==
    /\ b.pairs \subseteq S
    /\ b.mode = "value" =>
           \E v : <<b.section, b.variable, v>> \in S /\ IsPrefix(b.word, v)

Step(a, c, b, S) ==
    /\ Moves(a, c, b)
    /\ b.pairs = IF Finishes(a, c)
                 THEN Others(a.pairs, a.section, a.variable)
                          \cup {<<a.section, a.variable, a.word>>}
                 ELSE a.pairs
    /\ Fine(b, S)

Trail(A, a, text, b, S) ==
    /\ A[0] = a /\ A[Len(text)] = b
    /\ \A k \in 1..Len(text) : Step(A[k - 1], text[k], A[k], S)
Leads(a, text, b, S) == \E A : Trail(A, a, text, b, S)

LEMMA LeadsNowhere ==
    ASSUME NEW a, NEW S
    PROVE  Leads(a, <<>>, a, S)
<1>1. PICK A : A = [k \in {0} |-> a]
  OBVIOUS
<1>2. A[0] = a /\ Len(<<>>) = 0 /\ 1..0 = {}
  BY <1>1
<1>3. Trail(A, a, <<>>, a, S)
  BY <1>2 DEF Trail
<1> QED
  BY <1>3 DEF Leads

LEMMA LeadsFurther ==
    ASSUME NEW a, NEW b, NEW d, NEW S, NEW w \in Strings, NEW u \in Strings,
           Leads(a, w, b, S), Leads(b, u, d, S)
    PROVE  Leads(a, w \o u, d, S) /\ w \o u \in Strings
<1>1. PICK m \in Nat : m = Len(w)
  BY LenProperties DEF Strings
<1>2. PICK n \in Nat : n = Len(u)
  BY LenProperties DEF Strings
<1>3. PICK t : t = w \o u
  OBVIOUS
<1>4. t \in Strings /\ Len(t) = m + n
      /\ \A k \in 1..(m + n) : t[k] = IF k <= m THEN w[k] ELSE u[k - m]
  BY <1>1, <1>2, <1>3, ConcatProperties DEF Strings
<1>5. PICK A : Trail(A, a, w, b, S)
  BY DEF Leads
<1>6. PICK B : Trail(B, b, u, d, S)
  BY DEF Leads
<1>7. PICK C : C = [k \in 0..(m + n) |-> IF k <= m THEN A[k] ELSE B[k - m]]
  OBVIOUS
<1>8. /\ \A k \in 0..m : C[k] = A[k]
      /\ \A k \in (m + 1)..(m + n) : C[k] = B[k - m]
  BY <1>7
<1>9. A[0] = a /\ A[m] = b /\ B[0] = b /\ B[n] = d
      /\ (\A k \in 1..m : Step(A[k - 1], w[k], A[k], S))
      /\ (\A k \in 1..n : Step(B[k - 1], u[k], B[k], S))
  BY <1>1, <1>2, <1>5, <1>6 DEF Trail
<1>10. C[m] = B[0]
  BY <1>8, <1>9
<1>11. \A k \in m..(m + n) : C[k] = B[k - m]
  BY <1>8, <1>10
<1>12. ASSUME NEW k \in 1..(m + n) PROVE Step(C[k - 1], t[k], C[k], S)
  <2>1. CASE k <= m
    <3>1. C[k - 1] = A[k - 1] /\ C[k] = A[k] /\ t[k] = w[k] /\ k \in 1..m
      BY <1>4, <1>8, <2>1
    <3> QED
      BY <1>9, <3>1
  <2>2. CASE ~(k <= m)
    <3>1. PICK j \in 1..n : j = k - m
      BY <2>2
    <3>2. C[k - 1] = B[j - 1]
      <4>1. k - 1 \in m..(m + n) /\ (k - 1) - m = j - 1
        BY <2>2, <3>1
      <4> QED
        BY <1>11, <4>1
    <3>3. C[k] = B[j] /\ t[k] = u[j]
      BY <1>4, <1>11, <2>2, <3>1
    <3> QED
      BY <1>9, <3>1, <3>2, <3>3
  <2> QED
    BY <2>1, <2>2
<1>13. C[0] = a /\ C[m + n] = d
  BY <1>8, <1>9, <1>11
<1>14. Trail(C, a, t, d, S)
  BY <1>4, <1>12, <1>13 DEF Trail
<1> QED
  BY <1>3, <1>4, <1>14 DEF Leads

LEMMA LeadsOn ==
    ASSUME NEW a, NEW b, NEW d, NEW S, NEW w \in Strings, NEW c \in Chars,
           Leads(a, w, b, S), Step(b, c, d, S)
    PROVE  Leads(a, Append(w, c), d, S) /\ Append(w, c) \in Strings
<1>1. PICK u : u = <<c>>
  OBVIOUS
<1>2. u \in Strings /\ Len(u) = 1 /\ u[1] = c
  BY <1>1 DEF Strings
<1>3. PICK A : A = [k \in 0..1 |-> IF k = 0 THEN b ELSE d]
  OBVIOUS
<1>4. A[0] = b /\ A[1] = d /\ 1..1 = {1} /\ 1 - 1 = 0
  BY <1>3
<1>5. Trail(A, b, u, d, S)
  BY <1>2, <1>4 DEF Trail
<1>6. Leads(b, u, d, S)
  BY <1>5 DEF Leads
<1>7. Leads(a, w \o u, d, S) /\ w \o u \in Strings
  BY <1>2, <1>6, LeadsFurther
<1>8. Append(w, c) = w \o u
  BY <1>1, AppendIsConcat DEF Strings
<1> QED
  BY <1>7, <1>8

LEMMA PlaceFields ==
    ASSUME NEW m, NEW w, NEW s, NEW v, NEW P
    PROVE  /\ Place(m, w, s, v, P).mode = m /\ Place(m, w, s, v, P).word = w
           /\ Place(m, w, s, v, P).section = s /\ Place(m, w, s, v, P).variable = v
           /\ Place(m, w, s, v, P).pairs = P
  BY DEF Place

LEMMA HoldsAt ==
    ASSUME NEW w \in Strings, NEW n \in Nat, n = Len(w), NEW k \in 1..n
    PROVE  w[k] \in Chars /\ Holds(w, w[k])
<1>1. DOMAIN w = 1..n /\ w[k] \in Chars
  BY LenProperties, ElementOfSeq DEF Strings
<1> QED
  BY <1>1 DEF Holds

LEMMA SpellSection ==
    ASSUME NEW w \in Strings, CleanSection(w), NEW S, NEW s, NEW v, NEW P \in SUBSET S
    PROVE  Leads(Place("section", <<>>, s, v, P), w, Place("section", w, s, v, P), S)
<1>1. PICK n \in Nat : n = Len(w)
  BY LenProperties DEF Strings
<1>2. PICK A : A = [k \in 0..n |-> Place("section", Upto(w, k), s, v, P)]
  OBVIOUS
<1>3. A[0] = Place("section", <<>>, s, v, P) /\ A[n] = Place("section", w, s, v, P)
  BY <1>1, <1>2, UptoFacts
<1>4. ASSUME NEW k \in 1..n PROVE Step(A[k - 1], w[k], A[k], S)
  <2>1. A[k - 1] = Place("section", Upto(w, k - 1), s, v, P)
        /\ A[k] = Place("section", Upto(w, k), s, v, P)
    BY <1>2
  <2>2. w[k] \notin {"]", "EOL", "NUL"}
    BY <1>1, HoldsAt DEF CleanSection, Clean
  <2>3. Append(Upto(w, k - 1), w[k]) = Upto(w, k)
    BY <1>1, UptoFacts
  <2>4. PICK a : a = A[k - 1]
    OBVIOUS
  <2>5. PICK b : b = A[k]
    OBVIOUS
  <2>6. a.mode = "section" /\ a.word = Upto(w, k - 1) /\ a.section = s /\ a.variable = v
        /\ a.pairs = P
    BY <2>1, <2>4, PlaceFields
  <2>7. b.mode = "section" /\ b.word = Upto(w, k) /\ b.section = s /\ b.variable = v
        /\ b.pairs = P
    BY <2>1, <2>5, PlaceFields
  <2>8. Moves(a, w[k], b) /\ ~Finishes(a, w[k])
    BY <2>2, <2>3, <2>6, <2>7 DEF Moves, To, Finishes
  <2>9. Fine(b, S)
    BY <2>7 DEF Fine
  <2> QED
    BY <2>4, <2>5, <2>6, <2>7, <2>8, <2>9 DEF Step
<1>5. Trail(A, Place("section", <<>>, s, v, P), w, Place("section", w, s, v, P), S)
  BY <1>1, <1>3, <1>4 DEF Trail
<1> QED
  BY <1>5 DEF Leads

LEMMA SpellValue ==
    ASSUME NEW w \in Strings, Clean(w), NEW S, NEW s, NEW v, NEW P \in SUBSET S,
           <<s, v, w>> \in S
    PROVE  Leads(Place("value", <<>>, s, v, P), w, Place("value", w, s, v, P), S)
<1>1. PICK n \in Nat : n = Len(w)
  BY LenProperties DEF Strings
<1>2. PICK A : A = [k \in 0..n |-> Place("value", Upto(w, k), s, v, P)]
  OBVIOUS
<1>3. A[0] = Place("value", <<>>, s, v, P) /\ A[n] = Place("value", w, s, v, P)
  BY <1>1, <1>2, UptoFacts
<1>4. ASSUME NEW k \in 1..n PROVE Step(A[k - 1], w[k], A[k], S)
  <2>1. A[k - 1] = Place("value", Upto(w, k - 1), s, v, P)
        /\ A[k] = Place("value", Upto(w, k), s, v, P)
    BY <1>2
  <2>2. w[k] \notin {"EOL", "NUL"}
    <3>1. Holds(w, w[k])
      BY <1>1, HoldsAt
    <3> QED
      BY <3>1 DEF Clean
  <2>3. Append(Upto(w, k - 1), w[k]) = Upto(w, k) /\ IsPrefix(Upto(w, k), w)
    <3>1. Append(Upto(w, k - 1), w[k]) = Upto(w, k)
      BY <1>1, UptoFacts
    <3>2. k \in 0..n
      OBVIOUS
    <3>3. IsPrefix(Upto(w, k), w)
      BY <1>1, <3>2, UptoFacts
    <3> QED
      BY <3>1, <3>3
  <2>4. PICK a : a = A[k - 1]
    OBVIOUS
  <2>5. PICK b : b = A[k]
    OBVIOUS
  <2>6. a.mode = "value" /\ a.word = Upto(w, k - 1) /\ a.section = s /\ a.variable = v
        /\ a.pairs = P
    BY <2>1, <2>4, PlaceFields
  <2>7. b.mode = "value" /\ b.word = Upto(w, k) /\ b.section = s /\ b.variable = v
        /\ b.pairs = P
    BY <2>1, <2>5, PlaceFields
  <2>8. Moves(a, w[k], b) /\ ~Finishes(a, w[k])
    BY <2>2, <2>3, <2>6, <2>7 DEF Moves, To, Finishes
  <2>9. Fine(b, S)
    BY <2>3, <2>7 DEF Fine
  <2> QED
    BY <2>4, <2>5, <2>6, <2>7, <2>8, <2>9 DEF Step
<1>5. Trail(A, Place("value", <<>>, s, v, P), w, Place("value", w, s, v, P), S)
  BY <1>1, <1>3, <1>4 DEF Trail
<1> QED
  BY <1>5 DEF Leads

(* The first character of a variable ends the line mode.                   *)
LEMMA SpellVariable ==
    ASSUME NEW w \in Strings, CleanVariable(w), NEW S, NEW s, NEW v, NEW P \in SUBSET S
    PROVE  Leads(Place("line", <<>>, s, v, P), w, Place("variable", w, s, v, P), S)
<1>1. PICK n \in Nat : n = Len(w)
  BY LenProperties DEF Strings
<1>2. PICK A : A = [k \in 0..n |-> Place(IF k = 0 THEN "line" ELSE "variable",
                                         Upto(w, k), s, v, P)]
  OBVIOUS
<1>3. n # 0 /\ Head(w) = w[1] /\ Tail(w) \in Strings /\ Len(Tail(w)) = n - 1
      /\ \A k \in 1..(n - 1) : Tail(w)[k] = w[k + 1]
  BY <1>1, EmptySeq, HeadTailProperties DEF CleanVariable, Strings
<1>4. A[0] = Place("line", <<>>, s, v, P) /\ A[n] = Place("variable", w, s, v, P)
  BY <1>1, <1>2, <1>3, UptoFacts
<1>5. ASSUME NEW k \in 1..n PROVE Step(A[k - 1], w[k], A[k], S)
  <2>1. A[k - 1] = Place(IF k = 1 THEN "line" ELSE "variable", Upto(w, k - 1), s, v, P)
        /\ A[k] = Place("variable", Upto(w, k), s, v, P)
    BY <1>2
  <2>2. w[k] \notin {"EOL", "NUL"} /\ w[k] \in Chars
    BY <1>1, HoldsAt DEF CleanVariable, Clean
  <2>3. Append(Upto(w, k - 1), w[k]) = Upto(w, k) /\ Upto(w, 0) = <<>>
    BY <1>1, UptoFacts
  <2>4. PICK a : a = A[k - 1]
    OBVIOUS
  <2>5. PICK b : b = A[k]
    OBVIOUS
  <2>6. a.mode = (IF k = 1 THEN "line" ELSE "variable") /\ a.word = Upto(w, k - 1)
        /\ a.section = s /\ a.variable = v /\ a.pairs = P
    BY <2>1, <2>4, PlaceFields
  <2>7. b.mode = "variable" /\ b.word = Upto(w, k) /\ b.section = s /\ b.variable = v
        /\ b.pairs = P
    BY <2>1, <2>5, PlaceFields
  <2>8. Moves(a, w[k], b) /\ ~Finishes(a, w[k])
    <3>1. CASE k = 1
      <4>1. w[k] \notin {"[", "#"}
        BY <1>3, <3>1 DEF CleanVariable
      <4>2. <<w[k]>> = Upto(w, k)
        <5>1. Append(<<>>, w[k]) = Upto(w, k)
          <6>1. k - 1 = 0
            BY <3>1
          <6>2. Upto(w, k - 1) = <<>>
            BY <2>3, <6>1, Zenon
          <6> QED
            BY <2>3, <6>2, Zenon
        <5> QED
          BY <2>2, <5>1, OneLetter
      <4> QED
        <5>1. a.mode = "line"
          BY <2>6, <3>1
        <5>2. To(a, b, "variable", <<w[k]>>)
          BY <2>6, <2>7, <4>2 DEF To
        <5> QED
          BY <2>2, <4>1, <5>1, <5>2 DEF Moves, Finishes
    <3>2. CASE k # 1
      <4>1. w[k] # "="
        <5>1. PICK j \in 1..(n - 1) : k = j + 1
          BY <3>2
        <5>2. Holds(Tail(w), Tail(w)[j]) /\ Tail(w)[j] = w[k]
          <6>1. PICK t \in Strings : t = Tail(w)
            BY <1>3
          <6>2. PICK m \in Nat : m = Len(t)
            BY LenProperties DEF Strings
          <6>3. j \in 1..m
            BY <1>3, <6>1, <6>2
          <6>4. Holds(t, t[j])
            BY <6>2, <6>3, HoldsAt
          <6> QED
            BY <1>3, <5>1, <6>1, <6>4
        <5> QED
          BY <5>2 DEF CleanVariable
      <4> QED
        BY <2>2, <2>3, <2>6, <2>7, <3>2, <4>1 DEF Moves, To, Finishes
    <3> QED
      BY <3>1, <3>2
  <2>9. Fine(b, S)
    BY <2>7 DEF Fine
  <2> QED
    BY <2>4, <2>5, <2>6, <2>7, <2>8, <2>9 DEF Step
<1>6. Trail(A, Place("line", <<>>, s, v, P), w, Place("variable", w, s, v, P), S)
  BY <1>1, <1>4, <1>5 DEF Trail
<1> QED
  BY <1>6 DEF Leads

(* A text that has been written leads to the settings P, the last of which *)
(* still has to be ended by a new line.                                    *)
Lined(text, section, P, S) ==
    /\ text \in Strings
    /\ \E v : Leads(Start, text, Place("line", <<>>, section, v, P), S)
Unended(text, section, P, S) ==
    /\ text \in Strings /\ text # <<>>
    /\ \E v, x, Q :
           /\ Leads(Start, text, Place("value", x, section, v, Q), S)
           /\ P = Others(Q, section, v) \cup {<<section, v, x>>}
Written(text, section, P, S) ==
    Lined(text, section, P, S) \/ Unended(text, section, P, S)

LEMMA SeparatedLined ==
    ASSUME NEW text, NEW s, NEW S, NEW P \in SUBSET S, Written(text, s, P, S)
    PROVE  Lined(Separated(text), s, P, S)
<1>1. CASE text = <<>>
  <2>1. Separated(text) = text /\ Lined(text, s, P, S)
    BY <1>1 DEF Separated, Written, Unended
  <2> QED
    BY <2>1
<1>2. CASE text # <<>>
  <2>1. Separated(text) = Append(text, "EOL") /\ text \in Strings /\ "EOL" \in Chars
    BY <1>2, CharFacts DEF Separated, Written, Lined, Unended
  <2>2. ASSUME NEW a, NEW v, Leads(Start, text, a, S),
               Step(a, "EOL", Place("line", <<>>, s, v, P), S)
        PROVE  Lined(Separated(text), s, P, S)
    <3>1. PICK d : d = Place("line", <<>>, s, v, P)
      OBVIOUS
    <3>2. Leads(Start, Append(text, "EOL"), d, S) /\ Append(text, "EOL") \in Strings
      BY <2>1, <2>2, <3>1, LeadsOn
    <3> QED
      BY <2>1, <3>1, <3>2 DEF Lined
  <2>3. CASE Lined(text, s, P, S)
    <3>1. PICK v : Leads(Start, text, Place("line", <<>>, s, v, P), S)
      BY <2>3 DEF Lined
    <3>2. PICK a : a = Place("line", <<>>, s, v, P)
      OBVIOUS
    <3>3. a.mode = "line" /\ a.word = <<>> /\ a.section = s /\ a.variable = v /\ a.pairs = P
      BY <3>2, PlaceFields
    <3>4. Moves(a, "EOL", a) /\ ~Finishes(a, "EOL") /\ Fine(a, S)
      BY <3>3 DEF Moves, To, Finishes, Fine
    <3>5. Step(a, "EOL", a, S)
      BY <3>4 DEF Step
    <3> QED
      BY <2>2, <3>1, <3>2, <3>5
  <2>4. CASE Unended(text, s, P, S)
    <3>1. PICK v, x, Q : /\ Leads(Start, text, Place("value", x, s, v, Q), S)
                         /\ P = Others(Q, s, v) \cup {<<s, v, x>>}
      BY <2>4 DEF Unended
    <3>2. PICK a : a = Place("value", x, s, v, Q)
      OBVIOUS
    <3>3. PICK b : b = Place("line", <<>>, s, v, P)
      OBVIOUS
    <3>4. a.mode = "value" /\ a.word = x /\ a.section = s /\ a.variable = v /\ a.pairs = Q
      BY <3>2, PlaceFields
    <3>5. b.mode = "line" /\ b.word = <<>> /\ b.section = s /\ b.variable = v /\ b.pairs = P
      BY <3>3, PlaceFields
    <3>6. Moves(a, "EOL", b) /\ Finishes(a, "EOL") /\ Fine(b, S)
      BY <3>4, <3>5 DEF Moves, To, Finishes, Fine
    <3>7. Step(a, "EOL", b, S)
      BY <3>1, <3>4, <3>5, <3>6 DEF Step
    <3> QED
      BY <2>2, <3>1, <3>2, <3>3, <3>7
  <2> QED
    BY <2>3, <2>4 DEF Written
<1> QED
  BY <1>1, <1>2

(* Only one value has the variable of a section.                           *)
Single(S) == \A p, q \in S : p[1] = q[1] /\ p[2] = q[2] => p = q

LEMMA VariableWritten ==
    ASSUME NEW text, NEW s, NEW S, NEW P \in SUBSET S, Written(text, s, P, S), Single(S),
           NEW entry \in [name : Strings, value : Strings],
           CleanVariable(entry.name), Clean(entry.value),
           <<s, entry.name, entry.value>> \in S
    PROVE  Written(VariableText(text, entry), s, P \cup {<<s, entry.name, entry.value>>}, S)
<1>1. PICK n \in Strings : n = entry.name
  OBVIOUS
<1>2. PICK x \in Strings : x = entry.value
  OBVIOUS
<1>3. PICK t0 : t0 = Separated(text)
  OBVIOUS
<1>4. Lined(t0, s, P, S)
  BY <1>3, SeparatedLined
<1>5. PICK v : Leads(Start, t0, Place("line", <<>>, s, v, P), S)
  BY <1>4 DEF Lined
<1>6. t0 \in Strings
  BY <1>4 DEF Lined
<1>7. Leads(Place("line", <<>>, s, v, P), n, Place("variable", n, s, v, P), S)
  BY <1>1, SpellVariable
<1>8. PICK t1 : t1 = t0 \o n
  OBVIOUS
<1>9. Leads(Start, t1, Place("variable", n, s, v, P), S) /\ t1 \in Strings
  BY <1>5, <1>6, <1>7, <1>8, LeadsFurther
<1>10. PICK a : a = Place("variable", n, s, v, P)
  OBVIOUS
<1>11. PICK b : b = Place("value", <<>>, s, n, P)
  OBVIOUS
<1>12. Step(a, "=", b, S)
  <2>1. a.mode = "variable" /\ a.word = n /\ a.section = s /\ a.variable = v /\ a.pairs = P
    BY <1>10, PlaceFields
  <2>2. b.mode = "value" /\ b.word = <<>> /\ b.section = s /\ b.variable = n /\ b.pairs = P
    BY <1>11, PlaceFields
  <2>3. Moves(a, "=", b) /\ ~Finishes(a, "=")
    BY <2>1, <2>2 DEF Moves, To, Finishes
  <2>4. IsPrefix(<<>>, x)
    <3>1. PICK m \in Nat : m = Len(x)
      BY LenProperties DEF Strings
    <3>2. 0 \in 0..m
      OBVIOUS
    <3>3. Upto(x, 0) = <<>> /\ IsPrefix(Upto(x, 0), x)
      BY <3>1, <3>2, UptoFacts
    <3> QED
      BY <3>3
  <2>5. Fine(b, S)
    BY <1>1, <1>2, <2>2, <2>4 DEF Fine
  <2> QED
    BY <2>1, <2>2, <2>3, <2>5 DEF Step
<1>13. PICK t2 : t2 = Append(t1, "=")
  OBVIOUS
<1>14. Leads(Start, t2, b, S) /\ t2 \in Strings
  BY <1>9, <1>10, <1>12, <1>13, CharFacts, LeadsOn
<1>15. Leads(b, x, Place("value", x, s, n, P), S)
  BY <1>1, <1>2, <1>11, SpellValue
<1>16. PICK t3 : t3 = t2 \o x
  OBVIOUS
<1>17. Leads(Start, t3, Place("value", x, s, n, P), S) /\ t3 \in Strings
  BY <1>14, <1>15, <1>16, LeadsFurther
<1>18. t3 # <<>>
  <2>1. t2 # <<>>
    BY <1>9, <1>13, CharFacts, AppendProperties DEF Strings
  <2> QED
    BY <1>14, <1>16, <2>1, ConcatEqualIffEmpty DEF Strings
<1>19. P \cup {<<s, n, x>>} = Others(P, s, n) \cup {<<s, n, x>>}
  <2>1. PICK q : q = <<s, n, x>>
    OBVIOUS
  <2>2. q \in S /\ q[1] = s /\ q[2] = n
    BY <1>1, <1>2, <2>1
  <2>3. \A p \in P : p[1] = s /\ p[2] = n => p = q
    BY <2>2 DEF Single
  <2>4. P \cup {q} = Others(P, s, n) \cup {q}
    BY <2>3 DEF Others
  <2> QED
    BY <2>1, <2>4
<1>20. VariableText(text, entry) = t3
  BY <1>1, <1>2, <1>3, <1>8, <1>13, <1>16 DEF VariableText
<1>21. Unended(t3, s, P \cup {<<s, n, x>>}, S)
  BY <1>17, <1>18, <1>19 DEF Unended
<1> QED
  BY <1>1, <1>2, <1>20, <1>21 DEF Written

LEMMA HeaderLined ==
    ASSUME NEW text, NEW s, NEW S, NEW P \in SUBSET S, Written(text, s, P, S),
           NEW name \in Strings, CleanSection(name)
    PROVE  Lined(Header(text, name), name, P, S)
<1>1. PICK t0 : t0 = Separated(Separated(text))
  OBVIOUS
<1>2. Lined(t0, s, P, S)
  BY <1>1, SeparatedLined DEF Written
<1>3. PICK v : Leads(Start, t0, Place("line", <<>>, s, v, P), S)
  BY <1>2 DEF Lined
<1>4. t0 \in Strings
  BY <1>2 DEF Lined
<1>5. PICK a : a = Place("line", <<>>, s, v, P)
  OBVIOUS
<1>6. PICK b : b = Place("section", <<>>, s, v, P)
  OBVIOUS
<1>7. PICK c : c = Place("section", name, s, v, P)
  OBVIOUS
<1>8. PICK d : d = Place("line", <<>>, name, v, P)
  OBVIOUS
<1>9. a.mode = "line" /\ a.word = <<>> /\ a.section = s /\ a.variable = v /\ a.pairs = P
  BY <1>5, PlaceFields
<1>10. b.mode = "section" /\ b.word = <<>> /\ b.section = s /\ b.variable = v /\ b.pairs = P
  BY <1>6, PlaceFields
<1>11. c.mode = "section" /\ c.word = name /\ c.section = s /\ c.variable = v /\ c.pairs = P
  BY <1>7, PlaceFields
<1>12. d.mode = "line" /\ d.word = <<>> /\ d.section = name /\ d.variable = v /\ d.pairs = P
  BY <1>8, PlaceFields
<1>13. Step(a, "[", b, S)
  BY <1>9, <1>10 DEF Step, Moves, To, Finishes, Fine
<1>14. Leads(b, name, c, S)
  BY <1>6, <1>7, SpellSection
<1>15. Step(c, "]", d, S)
  BY <1>11, <1>12 DEF Step, Moves, To, Finishes, Fine
<1>16. PICK t1 : t1 = Append(t0, "[")
  OBVIOUS
<1>17. Leads(Start, t1, b, S) /\ t1 \in Strings
  BY <1>3, <1>4, <1>5, <1>13, <1>16, CharFacts, LeadsOn
<1>18. PICK t2 : t2 = t1 \o name
  OBVIOUS
<1>19. Leads(Start, t2, c, S) /\ t2 \in Strings
  BY <1>14, <1>17, <1>18, LeadsFurther
<1>20. PICK t3 : t3 = Append(t2, "]")
  OBVIOUS
<1>21. Leads(Start, t3, d, S) /\ t3 \in Strings
  BY <1>15, <1>19, <1>20, CharFacts, LeadsOn
<1>22. Header(text, name) = t3
  BY <1>1, <1>16, <1>18, <1>20 DEF Header
<1> QED
  BY <1>8, <1>21, <1>22 DEF Lined

(* The settings of the first variables of a section, and of all of them.   *)
Firsts(section, d, k) == {<<section, d[j].name, d[j].value>> : j \in 1..k}
Part(section, d) == {<<section, u[1], u[2]>> : u \in Entries(d)}

LEMMA FirstsFacts ==
    ASSUME NEW d \in Sections, NEW n \in Nat, n = Len(d), NEW s
    PROVE  /\ Firsts(s, d, 0) = {} /\ Firsts(s, d, n) = Part(s, d)
           /\ \A k \in 1..n :
                  /\ <<s, d[k].name, d[k].value>> \in Part(s, d)
                  /\ <<d[k].name, d[k].value>> \in Entries(d)
                  /\ d[k] \in [name : Strings, value : Strings]
           /\ \A k \in 0..n : Firsts(s, d, k) \subseteq Part(s, d)
<1>1. DOMAIN d = 1..n /\ \A k \in 1..n : d[k] \in [name : Strings, value : Strings]
  BY DictEntry DEF Sections, Dicts, Strings
<1>2. ASSUME NEW p PROVE p \in Part(s, d) <=> \E k \in 1..n : p = <<s, d[k].name, d[k].value>>
  <2>1. ASSUME p \in Part(s, d) PROVE \E k \in 1..n : p = <<s, d[k].name, d[k].value>>
    <3>1. PICK u \in Entries(d) : p = <<s, u[1], u[2]>>
      BY <2>1 DEF Part
    <3>2. PICK k \in 1..n : u = <<d[k].name, d[k].value>>
      BY <1>1 DEF Entries
    <3>3. u[1] = d[k].name /\ u[2] = d[k].value
      BY <3>2
    <3> QED
      BY <3>1, <3>3
  <2>2. ASSUME NEW k \in 1..n, p = <<s, d[k].name, d[k].value>> PROVE p \in Part(s, d)
    <3>1. PICK u : u = <<d[k].name, d[k].value>>
      OBVIOUS
    <3>2. u \in Entries(d)
      BY <1>1, <3>1 DEF Entries
    <3>3. u[1] = d[k].name /\ u[2] = d[k].value
      BY <3>1
    <3> QED
      BY <2>2, <3>2, <3>3 DEF Part
  <2> QED
    BY <2>1, <2>2
<1>3. Firsts(s, d, 0) = {}
  BY DEF Firsts
<1>4. Firsts(s, d, n) = Part(s, d)
  BY <1>2 DEF Firsts
<1>6. \A k \in 1..n : <<s, d[k].name, d[k].value>> \in Part(s, d)
  BY <1>2
<1>7. \A k \in 1..n : <<d[k].name, d[k].value>> \in Entries(d)
  BY <1>1 DEF Entries
<1>8. ASSUME NEW k \in 0..n PROVE Firsts(s, d, k) \subseteq Part(s, d)
  <2>1. \A j \in 1..k : j \in 1..n
    OBVIOUS
  <2> QED
    BY <1>6, <2>1 DEF Firsts
<1> QED
  BY <1>1, <1>3, <1>4, <1>6, <1>7, <1>8

LEMMA FirstsNext ==
    ASSUME NEW d, NEW s, NEW n \in Nat, NEW k \in 1..n
    PROVE  Firsts(s, d, k) = Firsts(s, d, k - 1) \cup {<<s, d[k].name, d[k].value>>}
<1>1. \A j : j \in 1..k <=> j \in 1..(k - 1) \/ j = k
  OBVIOUS
<1> QED
  BY <1>1 DEF Firsts

LEMMA SectionWritten ==
    ASSUME NEW text, NEW s, NEW S, NEW P \in SUBSET S, Written(text, s, P, S), Single(S),
           NEW d \in Sections, Part(s, d) \subseteq S,
           \A u \in Entries(d) : CleanVariable(u[1]) /\ Clean(u[2])
    PROVE  Written(SectionText(text, d), s, P \cup Part(s, d), S)
<1>1. PICK n \in Nat : n = Len(d)
  BY LenProperties DEF Sections
<1>2. text \in Strings
  BY DEF Written, Lined, Unended
<1>3. PICK f : /\ f[0] = text
               /\ \A k \in 1..n : f[k] = VariableText(f[k - 1], d[k])
               /\ \A k \in 0..n : f[k] \in Strings
               /\ f[n] = SectionText(text, d)
  BY <1>1, <1>2, SectionRunFacts
<1> DEFINE W == {k \in 0..n : Written(f[k], s, P \cup Firsts(s, d, k), S)}
<1>4. 0 \in W
  <2>1. P \cup Firsts(s, d, 0) = P
    BY <1>1, FirstsFacts
  <2> QED
    BY <1>3, <2>1
<1>5. ASSUME NEW k \in 1..n, k - 1 \in W PROVE k \in W
  <2>1. PICK j \in 0..n : j = k - 1
    OBVIOUS
  <2>2. PICK t : t = f[j]
    OBVIOUS
  <2>3. PICK Q : Q = P \cup Firsts(s, d, j)
    OBVIOUS
  <2>4. Written(t, s, Q, S)
    BY <1>5, <2>1, <2>2, <2>3
  <2>5. Q \in SUBSET S
    BY <1>1, <2>3, FirstsFacts
  <2>6. PICK e : e = d[k]
    OBVIOUS
  <2>7. /\ <<s, e.name, e.value>> \in S /\ e \in [name : Strings, value : Strings]
        /\ <<e.name, e.value>> \in Entries(d)
    BY <1>1, <2>6, FirstsFacts
  <2>8. CleanVariable(e.name) /\ Clean(e.value)
    <3>1. PICK u : u = <<e.name, e.value>>
      OBVIOUS
    <3>2. u[1] = e.name /\ u[2] = e.value
      BY <3>1
    <3>3. u \in Entries(d)
      BY <2>7, <3>1
    <3>4. CleanVariable(u[1]) /\ Clean(u[2])
      BY <3>3
    <3> QED
      BY <3>2, <3>4
  <2>9. Written(VariableText(t, e), s, Q \cup {<<s, e.name, e.value>>}, S)
    BY <2>4, <2>5, <2>7, <2>8, VariableWritten
  <2>10. f[k] = VariableText(t, e)
    BY <1>3, <2>1, <2>2, <2>6
  <2>11. P \cup Firsts(s, d, k) = Q \cup {<<s, e.name, e.value>>}
    <3>1. Firsts(s, d, k) = Firsts(s, d, k - 1) \cup {<<s, d[k].name, d[k].value>>}
      BY FirstsNext
    <3>2. Firsts(s, d, k) = Firsts(s, d, j) \cup {<<s, e.name, e.value>>}
      BY <2>1, <2>6, <3>1, Zenon
    <3> QED
      BY <2>3, <3>2
  <2>12. Written(f[k], s, P \cup Firsts(s, d, k), S)
    BY <2>9, <2>10, <2>11, Zenon
  <2>13. k \in 0..n
    OBVIOUS
  <2> QED
    BY <2>12, <2>13, Zenon
<1> HIDE DEF W
<1>6. n \in W
  BY <1>4, <1>5, Induction
<1>7. Written(f[n], s, P \cup Firsts(s, d, n), S)
  BY <1>6 DEF W
<1>8. Firsts(s, d, n) = Part(s, d)
  BY <1>1, FirstsFacts
<1> QED
  BY <1>3, <1>7, <1>8

LEMMA EntryWritten ==
    ASSUME NEW text, NEW s, NEW S, NEW P \in SUBSET S, Written(text, s, P, S), Single(S),
           NEW entry \in [name : Strings, value : Sections],
           Part(entry.name, entry.value) \subseteq S,
           CleanSection(entry.name),
           \A u \in Entries(entry.value) : CleanVariable(u[1]) /\ Clean(u[2]),
           NEW default \in BOOLEAN, default => s = Default,
           NEW Q, Q = IF (entry.name = Default) = default
                      THEN P \cup Part(entry.name, entry.value) ELSE P
    PROVE  \E t : /\ default => t = Default
                  /\ Written(EntryText(text, entry, default), t, Q, S)
<1>1. PICK name \in Strings : name = entry.name
  OBVIOUS
<1>2. PICK d \in Sections : d = entry.value
  OBVIOUS
<1>3. CASE (name = Default) # default
  <2>1. EntryText(text, entry, default) = text /\ Q = P
    BY <1>1, <1>3 DEF EntryText
  <2> QED
    BY <2>1
<1>4. CASE (name = Default) = default
  <2>1. Q = P \cup Part(name, d)
    BY <1>1, <1>2, <1>4
  <2>2. PICK t0 : t0 = IF default THEN text ELSE Header(text, name)
    OBVIOUS
  <2>3. EntryText(text, entry, default) = SectionText(t0, d)
    BY <1>1, <1>2, <1>4, <2>2 DEF EntryText
  <2>4. Written(t0, name, P, S)
    <3>1. CASE default
      <4>1. t0 = text /\ name = s
        BY <1>4, <2>2, <3>1
      <4> QED
        BY <4>1
    <3>2. CASE ~default
      <4>1. t0 = Header(text, name)
        BY <2>2, <3>2
      <4>2. Lined(Header(text, name), name, P, S)
        BY <1>1, HeaderLined
      <4> QED
        BY <4>1, <4>2 DEF Written
    <3> QED
      BY <3>1, <3>2
  <2>5. Written(SectionText(t0, d), name, P \cup Part(name, d), S)
    BY <1>1, <1>2, <2>4, SectionWritten
  <2>6. default => name = Default
    BY <1>4
  <2> QED
    BY <2>1, <2>3, <2>5, <2>6
<1> QED
  BY <1>3, <1>4

(* The settings of a section are those of its entry.                       *)
LEMMA PartIs ==
    ASSUME config \in Configs, NEW e \in Entries(config)
    PROVE  Part(e[1], e[2]) = {p \in Pairs : p[1] = e[1]}
<1>1. config \in Dicts(Strings, Sections)
  BY DEF Configs, Dicts, Strings
<1>2. PICK s \in Strings : s = e[1]
  BY <1>1, DictEntry
<1>3. PICK d \in Sections : d = e[2]
  BY <1>1, DictEntry
<1>4. <<s, d>> \in Entries(config)
  BY <1>1, <1>2, <1>3, DictEntry
<1>5. ASSUME NEW d2, <<s, d2>> \in Entries(config) PROVE d2 = d
  <2>1. PICK u : u = <<s, d2>>
    OBVIOUS
  <2>2. u \in Entries(config) /\ u[1] = s /\ u[2] = d2
    BY <1>5, <2>1
  <2>3. d2 = Lookup(config, s)
    BY <1>1, <2>2, EntryLookup
  <2>4. d = Lookup(config, s)
    BY <1>1, <1>2, <1>3, EntryLookup
  <2> QED
    BY <2>3, <2>4
<1>6. ASSUME NEW p \in Part(s, d) PROVE p \in Pairs /\ p[1] = s
  <2>1. PICK u \in Entries(d) : p = <<s, u[1], u[2]>>
    BY DEF Part
  <2>2. u = <<u[1], u[2]>>
    BY DictEntry DEF Sections, Dicts, Strings
  <2>3. <<s, u[1], u[2]>> \in Pairs
    BY <1>4, <2>2, SettingIs DEF Pairs
  <2> QED
    BY <2>1, <2>3
<1>7. ASSUME NEW p \in Pairs, p[1] = s PROVE p \in Part(s, d)
  <2>1. p = <<s, p[2], p[3]>>
    BY <1>7, SettingIs DEF Pairs
  <2>2. PICK d2 : <<s, d2>> \in Entries(config) /\ <<p[2], p[3]>> \in Entries(d2)
    BY <1>7, <2>1, SettingIs DEF Pairs
  <2>3. d2 = d
    BY <1>5, <2>2
  <2>4. PICK u : u = <<p[2], p[3]>>
    OBVIOUS
  <2>5. u \in Entries(d) /\ u[1] = p[2] /\ u[2] = p[3]
    BY <2>2, <2>3, <2>4
  <2> QED
    BY <2>1, <2>5 DEF Part
<1> QED
  BY <1>2, <1>3, <1>6, <1>7

LEMMA SingleSettings ==
    ASSUME config \in Configs
    PROVE  Single(Pairs)
<1>1. config \in Dicts(Strings, Sections)
  BY DEF Configs, Dicts, Strings
<1>2. ASSUME NEW p \in Pairs, NEW q \in Pairs, p[1] = q[1], p[2] = q[2] PROVE p = q
  <2>1. p = <<p[1], p[2], p[3]>> /\ q = <<p[1], p[2], q[3]>>
    BY <1>2, SettingIs DEF Pairs
  <2>2. PICK d : <<p[1], d>> \in Entries(config) /\ <<p[2], p[3]>> \in Entries(d)
    BY <2>1, SettingIs DEF Pairs
  <2>3. PICK e : <<p[1], e>> \in Entries(config) /\ <<p[2], q[3]>> \in Entries(e)
    BY <2>1, SettingIs DEF Pairs
  <2>4. d = e
    <3>1. ASSUME NEW x, <<p[1], x>> \in Entries(config) PROVE x = Lookup(config, p[1])
      <4>1. PICK u : u = <<p[1], x>>
        OBVIOUS
      <4>2. u \in Entries(config) /\ u[1] = p[1] /\ u[2] = x
        BY <3>1, <4>1
      <4> QED
        BY <1>1, <4>2, EntryLookup
    <3> QED
      BY <2>2, <2>3, <3>1
  <2>5. d \in Dicts(Strings, Strings)
    <3>1. PICK u : u = <<p[1], d>>
      OBVIOUS
    <3>2. u \in Entries(config) /\ u[2] = d
      BY <2>2, <3>1
    <3>3. d \in Sections
      BY <1>1, <3>2, DictEntry
    <3> QED
      BY <3>3 DEF Sections, Dicts, Strings
  <2>6. p[3] = q[3]
    <3>1. ASSUME NEW x, <<p[2], x>> \in Entries(d) PROVE x = Lookup(d, p[2])
      <4>1. PICK u : u = <<p[2], x>>
        OBVIOUS
      <4>2. u \in Entries(d) /\ u[1] = p[2] /\ u[2] = x
        BY <3>1, <4>1
      <4> QED
        BY <2>5, <4>2, EntryLookup
    <3> QED
      BY <2>2, <2>3, <2>4, <3>1
  <2> QED
    BY <2>1, <2>6
<1> QED
  BY <1>2 DEF Single

(* The settings of the first sections that a pass writes, and of all.      *)
Taken(default, k) ==
    {p \in Pairs : (p[1] = Default) = default /\ \E j \in 1..k : config[j].name = p[1]}
Half(default) == {p \in Pairs : (p[1] = Default) = default}

LEMMA TakenFacts ==
    ASSUME config \in Configs, NEW n \in Nat, n = Len(config), NEW default \in BOOLEAN
    PROVE  Taken(default, 0) = {} /\ Taken(default, n) = Half(default)
<1>1. Taken(default, 0) = {}
  BY DEF Taken
<1>2. ASSUME NEW p \in Pairs PROVE \E j \in 1..n : config[j].name = p[1]
  <2>1. PICK a, b, c : p = <<a, b, c>>
    BY SettingIs DEF Pairs
  <2>2. <<a, b, c>> \in SettingsOf(config) /\ p[1] = a
    BY <2>1 DEF Pairs
  <2>3. PICK d : <<a, d>> \in Entries(config) /\ <<b, c>> \in Entries(d)
    BY <2>2, SettingIs
  <2>4. DOMAIN config = 1..n
    BY LenProperties DEF Configs
  <2>5. PICK u : u = <<a, d>>
    OBVIOUS
  <2>6. PICK j \in 1..n : u = <<config[j].name, config[j].value>>
    BY <2>3, <2>4, <2>5 DEF Entries
  <2>7. u[1] = a /\ u[1] = config[j].name
    BY <2>5, <2>6
  <2> QED
    BY <2>2, <2>7
<1> QED
  BY <1>1, <1>2 DEF Taken, Half

LEMMA TakenNext ==
    ASSUME config \in Configs, NEW n \in Nat, n = Len(config), NEW default \in BOOLEAN,
           NEW k \in 1..n
    PROVE  /\ Taken(default, k) = IF (config[k].name = Default) = default
               THEN Taken(default, k - 1) \cup Part(config[k].name, config[k].value)
               ELSE Taken(default, k - 1)
           /\ Part(config[k].name, config[k].value) \subseteq Pairs
<1>1. PICK e : e = <<config[k].name, config[k].value>>
  OBVIOUS
<1>2. e[1] = config[k].name /\ e[2] = config[k].value
  BY <1>1
<1>3. e \in Entries(config)
  <2>1. DOMAIN config = 1..n
    BY DictEntry DEF Configs, Dicts
  <2> QED
    BY <1>1, <2>1 DEF Entries
<1>4. PICK N : N = config[k].name
  OBVIOUS
<1>5. Part(config[k].name, config[k].value) = {p \in Pairs : p[1] = N}
  BY <1>2, <1>3, <1>4, PartIs
<1>6. \A x : (\E j \in 1..k : config[j].name = x) <=>
                 (\E j \in 1..(k - 1) : config[j].name = x) \/ x = N
  <2>1. \A j : j \in 1..k <=> j \in 1..(k - 1) \/ j = k
    OBVIOUS
  <2> QED
    BY <1>4, <2>1
<1>7. \A p : p \in Taken(default, k) <=>
          \/ p \in Taken(default, k - 1)
          \/ p \in Pairs /\ p[1] = N /\ (N = Default) = default
  BY <1>6 DEF Taken
<1>8. CASE (N = Default) = default
  <2>1. Taken(default, k) = Taken(default, k - 1) \cup {p \in Pairs : p[1] = N}
    BY <1>7, <1>8
  <2> QED
    BY <1>4, <1>5, <1>8, <2>1
<1>9. CASE ~((N = Default) = default)
  <2>1. Taken(default, k) = Taken(default, k - 1)
    BY <1>7, <1>9
  <2> QED
    BY <1>4, <1>5, <1>9, <2>1
<1> QED
  BY <1>8, <1>9

LEMMA PassWritten ==
    ASSUME config \in Configs, Writable(config), NEW default \in BOOLEAN,
           NEW text, NEW s, default => s = Default,
           NEW P \in SUBSET Pairs, Written(text, s, P, Pairs)
    PROVE  \E t : Written(PassText(text, default), t, P \cup Half(default), Pairs)
<1>1. PICK n \in Nat : n = Len(config)
  BY LenProperties DEF Configs
<1>2. text \in Strings
  BY DEF Written, Lined, Unended
<1>3. PICK f : /\ f[0] = text
               /\ \A k \in 1..n : f[k] = EntryText(f[k - 1], config[k], default)
               /\ \A k \in 0..n : f[k] \in Strings
               /\ f[n] = PassText(text, default)
  BY <1>1, <1>2, PassRunFacts
<1>4. Single(Pairs)
  BY SingleSettings
<1> DEFINE So(k) == P \cup Taken(default, k)
           W == {k \in 0..n : \E t : /\ default => t = Default
                                     /\ Written(f[k], t, So(k), Pairs)}
<1>5. 0 \in W
  <2>1. So(0) = P
    BY <1>1, TakenFacts
  <2>2. 0 \in 0..n
    OBVIOUS
  <2> QED
    BY <1>3, <2>1, <2>2
<1>6. ASSUME NEW k \in 1..n, k - 1 \in W PROVE k \in W
  <2>1. PICK j \in 0..n : j = k - 1
    OBVIOUS
  <2>2. PICK u : u = f[j]
    OBVIOUS
  <2>3. PICK Q : Q = So(j)
    OBVIOUS
  <2>4. PICK t : (default => t = Default) /\ Written(u, t, Q, Pairs)
    BY <1>6, <2>1, <2>2, <2>3
  <2>5. Q \in SUBSET Pairs
    BY <2>3 DEF Taken
  <2>6. PICK e : e = config[k]
    OBVIOUS
  <2>7. DOMAIN config = 1..n
    BY <1>1, LenProperties DEF Configs
  <2>8. e \in [name : Strings, value : Sections]
    BY <2>6, <2>7, DictEntry DEF Configs, Dicts, Strings
  <2>9. Part(e.name, e.value) \subseteq Pairs
    BY <1>1, <2>6, TakenNext
  <2>10. CleanSection(e.name)
    <3>1. e.name \in NamesOf(config)
      BY <2>6, <2>7 DEF NamesOf
    <3> QED
      BY <3>1 DEF Writable
  <2>11. ASSUME NEW v \in Entries(e.value) PROVE CleanVariable(v[1]) /\ Clean(v[2])
    <3>1. PICK p : p = <<e.name, v[1], v[2]>>
      OBVIOUS
    <3>2. p \in Pairs /\ p[2] = v[1] /\ p[3] = v[2]
      BY <2>9, <3>1 DEF Part
    <3> QED
      BY <3>2 DEF Writable, Pairs
  <2>12. PICK R : R = IF (e.name = Default) = default
                      THEN Q \cup Part(e.name, e.value) ELSE Q
    OBVIOUS
  <2>13. PICK z : (default => z = Default) /\ Written(EntryText(u, e, default), z, R, Pairs)
    BY <1>4, <2>4, <2>5, <2>8, <2>9, <2>10, <2>11, <2>12, EntryWritten
  <2>14. R = So(k)
    <3>1. Taken(default, k) = IF (config[k].name = Default) = default
               THEN Taken(default, k - 1) \cup Part(config[k].name, config[k].value)
               ELSE Taken(default, k - 1)
      BY <1>1, TakenNext
    <3>2. Taken(default, k) = IF (e.name = Default) = default
               THEN Taken(default, j) \cup Part(e.name, e.value)
               ELSE Taken(default, j)
      BY <2>1, <2>6, <3>1, Zenon
    <3> QED
      BY <2>3, <2>12, <3>2
  <2>15. f[k] = EntryText(u, e, default)
    BY <1>3, <2>1, <2>2, <2>6
  <2>16. Written(f[k], z, So(k), Pairs)
    BY <2>13, <2>14, <2>15, Zenon
  <2>17. k \in 0..n
    OBVIOUS
  <2> QED
    BY <2>13, <2>16, <2>17, Zenon
<1> HIDE DEF W
<1>7. n \in W
  BY <1>5, <1>6, Induction
<1>8. PICK t : Written(f[n], t, P \cup Taken(default, n), Pairs)
  BY <1>7 DEF W
<1>9. Taken(default, n) = Half(default)
  BY <1>1, TakenFacts
<1> QED
  BY <1>3, <1>8, <1>9

(* The whole of what config_save writes leads to all the settings.         *)
LEMMA SavedLeads ==
    ASSUME config \in Configs, Writable(config)
    PROVE  /\ SavedText \in Strings
           /\ \E s, v : Leads(Start, SavedText, Place("line", <<>>, s, v, Pairs), Pairs)
<1>1. PICK t0 : t0 = PassText(<<>>, TRUE)
  OBVIOUS
<1>2. PICK t1 : t1 = PassText(t0, FALSE)
  OBVIOUS
<1>3. Written(<<>>, Default, {}, Pairs)
  <2>1. Leads(Start, <<>>, Place("line", <<>>, Default, <<>>, {}), Pairs)
    BY LeadsNowhere DEF Start
  <2> QED
    BY <2>1, CharFacts DEF Written, Lined
<1>4. PICK s0 : Written(t0, s0, {} \cup Half(TRUE), Pairs)
  <2>1. {} \in SUBSET Pairs
    OBVIOUS
  <2> QED
    BY <1>1, <1>3, <2>1, PassWritten
<1>5. PICK P \in SUBSET Pairs : P = {} \cup Half(TRUE)
  BY DEF Half
<1>6. PICK s1 : Written(t1, s1, P \cup Half(FALSE), Pairs)
  BY <1>2, <1>4, <1>5, PassWritten
<1>7. P \cup Half(FALSE) = Pairs
  BY <1>5 DEF Half
<1>8. Lined(Separated(t1), s1, Pairs, Pairs)
  <2>1. Pairs \in SUBSET Pairs
    OBVIOUS
  <2>2. Written(t1, s1, Pairs, Pairs)
    BY <1>6, <1>7
  <2> QED
    BY <2>1, <2>2, SeparatedLined
<1>9. SavedText = Separated(t1)
  BY <1>1, <1>2 DEF SavedText
<1> QED
  BY <1>8, <1>9 DEF Lined

(* The reader follows the trail of the text that was being written, through*)
(* the characters of it that are in the file.                              *)
Same(a, r) ==
    a.mode = r.mode /\ a.word = r.word /\ a.section = r.section /\ a.variable = r.variable

(* The settings of S, but for one value that may be cut short.             *)
Almost(pairs, S) ==
    /\ \A p \in pairs : \E q \in S : p[1] = q[1] /\ p[2] = q[2] /\ IsPrefix(p[3], q[3])
    /\ Cardinality(pairs \ S) <= 1

Begins(f, text, whole) ==
    /\ f \in Strings /\ text \in Strings
    /\ Len(f) <= Len(text) /\ \A k \in 1..Len(f) : f[k] = text[k]
    /\ whole => Len(f) = Len(text)
RestAt(f, rest, i) == Len(rest) = Len(f) - i /\ \A k \in 1..Len(rest) : rest[k] = f[i + k]
Reached(A, f, r, pairs) ==
    \E i \in 0..Len(f) : RestAt(f, r.rest, i) /\ Same(A[i], r) /\ A[i].pairs = pairs
Ended(pairs, S, result, whole) ==
    Almost(pairs, S) /\ (whole => result = "done" /\ pairs = S)

Follows(text, A, b, S, f, r, pairs, result, whole) ==
    /\ Trail(A, Start, text, b, S) /\ b.mode = "line" /\ b.pairs = S
    /\ Begins(f, text, whole)
    /\ r # NULL => Reached(A, f, r, pairs)
    /\ r = NULL /\ result # "none" => Ended(pairs, S, result, whole)

TextInv ==
    /\ reader # NULL => status = "none"
    /\ saved # NULL => saved.config \in Configs
    /\ saved # NULL /\ Writable(saved.config) =>
           \E text, A, b : Follows(text, A, b, SettingsOf(saved.config),
                                   file, reader, Pairs, status, saved.whole)

LEMMA SameMoves ==
    ASSUME NEW a, NEW b, NEW c, NEW r, NEW q, Same(a, r), Moves(a, c, b)
    PROVE  ~Refuses(r, c) /\ (Moves(r, c, q) => Same(b, q)) /\ (Finishes(r, c) <=> Finishes(a, c))
<1>1. a.mode = r.mode /\ a.word = r.word /\ a.section = r.section /\ a.variable = r.variable
  BY DEF Same
<1>2. ~Refuses(r, c)
  BY <1>1 DEF Refuses, Moves
<1>3. Moves(r, c, q) => Same(b, q)
  BY <1>1 DEF Moves, To, Same
<1> QED
  BY <1>1, <1>2, <1>3 DEF Finishes

(* Along a trail nothing but settings of S is read.                        *)
LEMMA TrailFine ==
    ASSUME NEW text \in Strings, NEW A, NEW b, NEW S, Trail(A, Start, text, b, S),
           NEW i \in 0..Len(text)
    PROVE  Fine(A[i], S)
<1>1. PICK n \in Nat : n = Len(text)
  BY LenProperties DEF Strings
<1>2. CASE i = 0
  <2>1. A[i] = Start
    BY <1>2 DEF Trail
  <2>2. Start.mode = "line" /\ Start.pairs = {}
    BY PlaceFields DEF Start
  <2> QED
    BY <2>1, <2>2 DEF Fine
<1>3. CASE i # 0
  <2>1. i \in 1..n
    BY <1>1, <1>3
  <2> QED
    BY <1>1, <2>1 DEF Trail, Step
<1> QED
  BY <1>2, <1>3

LEMMA PrefixOfItself ==
    ASSUME NEW w \in Strings
    PROVE  IsPrefix(w, w)
<1>1. Len(w) \in Nat
  BY LenProperties DEF Strings
<1> QED
  BY <1>1 DEF IsPrefix

LEMMA AlmostAll ==
    ASSUME NEW c \in Configs, NEW pairs \in SUBSET SettingsOf(c)
    PROVE  Almost(pairs, SettingsOf(c))
<1>1. PICK S : S = SettingsOf(c)
  OBVIOUS
<1>2. \A p \in pairs : p \in S /\ IsPrefix(p[3], p[3])
  BY <1>1, SettingIs, PrefixOfItself
<1>3. pairs \ S = {}
  BY <1>1
<1>4. Cardinality(pairs \ S) = 0
  BY <1>3, FS_EmptySet
<1> QED
  BY <1>1, <1>2, <1>4 DEF Almost

LEMMA AlmostOne ==
    ASSUME NEW c \in Configs, NEW pairs \in SUBSET SettingsOf(c), NEW s, NEW v, NEW w, NEW x,
           <<s, v, x>> \in SettingsOf(c), IsPrefix(w, x)
    PROVE  Almost(Others(pairs, s, v) \cup {<<s, v, w>>}, SettingsOf(c))
<1>1. PICK S : S = SettingsOf(c)
  OBVIOUS
<1>2. \A p \in pairs : p \in S /\ IsPrefix(p[3], p[3])
  BY <1>1, SettingIs, PrefixOfItself
<1>3. PICK u : u = <<s, v, w>>
  OBVIOUS
<1>4. PICK q : q = <<s, v, x>>
  OBVIOUS
<1>5. q \in S /\ u[1] = q[1] /\ u[2] = q[2] /\ IsPrefix(u[3], q[3])
  BY <1>1, <1>3, <1>4
<1>6. PICK T : T = Others(pairs, s, v) \cup {u}
  OBVIOUS
<1>7. \A p \in T : p \in pairs \/ p = u
  BY <1>6 DEF Others
<1>8. \A p \in T : \E z \in S : p[1] = z[1] /\ p[2] = z[2] /\ IsPrefix(p[3], z[3])
  BY <1>2, <1>5, <1>7
<1>9. T \ S \in SUBSET {u}
  BY <1>2, <1>7
<1>10. IsFiniteSet({u}) /\ Cardinality({u}) = 1
  BY FS_Singleton
<1>11. Cardinality(T \ S) <= 1
  BY <1>9, <1>10, FS_Subset
<1> QED
  BY <1>1, <1>3, <1>6, <1>8, <1>11 DEF Almost

LEMMA RestTail ==
    ASSUME NEW f \in Strings, NEW rest \in Strings, NEW i \in 0..Len(f), RestAt(f, rest, i),
           rest # <<>>
    PROVE  /\ i + 1 \in 1..Len(f) /\ i + 1 \in 0..Len(f)
           /\ Head(rest) = f[i + 1] /\ RestAt(f, Tail(rest), i + 1)
<1>1. PICK n \in Nat : n = Len(f)
  BY LenProperties DEF Strings
<1>2. PICK m \in Nat : m = Len(rest)
  BY LenProperties DEF Strings
<1>3. m # 0 /\ Head(rest) = rest[1] /\ Len(Tail(rest)) = m - 1
      /\ \A k \in 1..(m - 1) : Tail(rest)[k] = rest[k + 1]
  BY <1>2, EmptySeq, HeadTailProperties DEF Strings
<1>4. m = n - i /\ \A k \in 1..m : rest[k] = f[i + k]
  BY <1>1, <1>2 DEF RestAt
<1>5. ASSUME NEW k \in 1..(m - 1) PROVE Tail(rest)[k] = f[(i + 1) + k]
  <2>1. Tail(rest)[k] = rest[k + 1] /\ k + 1 \in 1..m
    BY <1>3
  <2>2. rest[k + 1] = f[i + (k + 1)] /\ i + (k + 1) = (i + 1) + k
    BY <1>1, <1>4, <2>1
  <2> QED
    BY <2>1, <2>2
<1>6. RestAt(f, Tail(rest), i + 1)
  BY <1>1, <1>3, <1>4, <1>5 DEF RestAt
<1>7. 1 \in 1..m
  BY <1>3
<1> QED
  BY <1>1, <1>3, <1>4, <1>6, <1>7

LEMMA RestNone ==
    ASSUME NEW f \in Strings, NEW i \in 0..Len(f), RestAt(f, <<>>, i)
    PROVE  i = Len(f)
<1>1. PICK n \in Nat : n = Len(f)
  BY LenProperties DEF Strings
<1>2. Len(<<>>) = 0
  BY EmptySeq
<1> QED
  BY <1>1, <1>2 DEF RestAt

LEMMA RestAll ==
    ASSUME NEW f \in Strings
    PROVE  RestAt(f, f, 0) /\ 0 \in 0..Len(f)
<1>1. PICK n \in Nat : n = Len(f)
  BY LenProperties DEF Strings
<1>2. \A k \in 1..n : 0 + k = k
  OBVIOUS
<1> QED
  BY <1>1, <1>2 DEF RestAt

(* While there are characters the load does not fail, and it stays on the  *)
(* trail.                                                                  *)
LEMMA FollowsReading ==
    ASSUME Typed, Reading, NEW text, NEW A, NEW b, NEW S, NEW result, NEW whole,
           Follows(text, A, b, S, file, reader, Pairs, result, whole)
    PROVE  /\ GoesOn
           /\ Follows(text, A, b, S, file, reader', Pairs', "none", whole)
<1>1. reader \in Readers /\ reader # NULL /\ reader.rest # <<>> /\ (GoesOn \/ GivesUp)
  BY ReadingMoves
<1>2. /\ Trail(A, Start, text, b, S) /\ b.mode = "line" /\ b.pairs = S
      /\ Begins(file, text, whole) /\ Reached(A, file, reader, Pairs)
  BY <1>1 DEF Follows
<1>3. PICK i \in 0..Len(file) :
          RestAt(file, reader.rest, i) /\ Same(A[i], reader) /\ A[i].pairs = Pairs
  BY <1>2 DEF Reached
<1>4. file \in Strings /\ text \in Strings
      /\ Len(file) <= Len(text) /\ \A k \in 1..Len(file) : file[k] = text[k]
  BY <1>2 DEF Begins
<1>5. reader.rest \in Strings
  BY <1>1 DEF Readers
<1>6. /\ i + 1 \in 1..Len(file) /\ i + 1 \in 0..Len(file)
      /\ Char = file[i + 1] /\ RestAt(file, Tail(reader.rest), i + 1)
  BY <1>1, <1>3, <1>4, <1>5, RestTail DEF Char
<1>7. PICK d : d = A[i + 1]
  OBVIOUS
<1>8. Step(A[i], Char, d, S)
  <2>1. PICK m \in Nat : m = Len(file)
    BY <1>4, LenProperties DEF Strings
  <2>2. PICK n \in Nat : n = Len(text)
    BY <1>4, LenProperties DEF Strings
  <2>3. PICK j \in 1..n : j = i + 1
    BY <1>4, <1>6, <2>1, <2>2
  <2>4. Step(A[j - 1], text[j], A[j], S)
    BY <1>2, <2>2, <2>3 DEF Trail
  <2>5. j - 1 = i
    BY <2>1, <2>3
  <2>6. text[j] = Char
    BY <1>4, <1>6, <2>3
  <2> QED
    BY <1>7, <2>3, <2>4, <2>5, <2>6
<1>9. Moves(A[i], Char, d)
  BY <1>8 DEF Step
<1>10. /\ ~Refuses(reader, Char)
       /\ Moves(reader, Char, reader') => Same(d, reader')
       /\ Finishes(reader, Char) <=> Finishes(A[i], Char)
  BY <1>3, <1>9, SameMoves
<1>11. GoesOn
  BY <1>1, <1>10 DEF GivesUp
<1>12. Same(d, reader')
  BY <1>10, <1>11 DEF GoesOn
<1>13. d.pairs = Pairs'
  <2>1. CASE Finishes(reader, Char)
    <3>1. config' = WithSetting(reader.section, reader.variable, reader.word)
      BY <1>11, <2>1 DEF GoesOn
    <3>2. Pairs' = Others(Pairs, reader.section, reader.variable)
                       \cup {<<reader.section, reader.variable, reader.word>>}
      <4>1. SettingsOf(WithSetting(reader.section, reader.variable, reader.word))
                = Others(Pairs, reader.section, reader.variable)
                       \cup {<<reader.section, reader.variable, reader.word>>}
        BY <1>1, WithSettingFacts DEF Typed, Readers
      <4> QED
        BY <3>1, <4>1 DEF Pairs
    <3>3. d.pairs = Others(A[i].pairs, A[i].section, A[i].variable)
                        \cup {<<A[i].section, A[i].variable, A[i].word>>}
      BY <1>8, <1>10, <2>1 DEF Step
    <3> QED
      BY <1>3, <3>2, <3>3 DEF Same
  <2>2. CASE ~Finishes(reader, Char)
    <3>1. Pairs' = Pairs
      BY <1>11, <2>2 DEF GoesOn, Pairs
    <3>2. d.pairs = A[i].pairs
      BY <1>8, <1>10, <2>2 DEF Step
    <3> QED
      BY <1>3, <3>1, <3>2
  <2> QED
    BY <2>1, <2>2
<1>14. RestAt(file, reader'.rest, i + 1)
  BY <1>6, <1>11 DEF GoesOn
<1>15. PICK j \in 0..Len(file) : j = i + 1
  BY <1>6
<1>16. RestAt(file, reader'.rest, j) /\ Same(A[j], reader') /\ A[j].pairs = Pairs'
  BY <1>7, <1>12, <1>13, <1>14, <1>15
<1>17. Reached(A, file, reader', Pairs')
  BY <1>16 DEF Reached
<1> QED
  BY <1>2, <1>11, <1>17 DEF Follows

(* At the end of the file: the load fails only if the text goes on.        *)
LEMMA FollowsEnd ==
    ASSUME Typed, AtEnd, NEW text, NEW A, NEW b, NEW c \in Configs, NEW whole,
           Follows(text, A, b, SettingsOf(c), file, reader, Pairs, status, whole)
    PROVE  Ended(Pairs', SettingsOf(c), status', whole)
<1>1. PICK S : S = SettingsOf(c)
  OBVIOUS
<1>2. reader \in Readers /\ reader # NULL /\ reader.rest = <<>>
  BY AtEndMeans
<1>3. /\ Trail(A, Start, text, b, S) /\ b.mode = "line" /\ b.pairs = S
      /\ Begins(file, text, whole) /\ Reached(A, file, reader, Pairs)
  BY <1>1, <1>2 DEF Follows
<1>4. PICK i \in 0..Len(file) :
          RestAt(file, reader.rest, i) /\ Same(A[i], reader) /\ A[i].pairs = Pairs
  BY <1>3 DEF Reached
<1>5. file \in Strings /\ text \in Strings /\ Len(file) <= Len(text)
      /\ (whole => Len(file) = Len(text))
  BY <1>3 DEF Begins
<1>6. i = Len(file)
  <2>1. RestAt(file, <<>>, i)
    BY <1>2, <1>4
  <2> QED
    BY <1>5, <2>1, RestNone
<1>7. i \in 0..Len(text)
  <2>1. Len(file) \in Nat /\ Len(text) \in Nat
    BY <1>5, LenProperties DEF Strings
  <2> QED
    BY <1>5, <1>6, <2>1
<1>8. PICK a : a = A[i]
  OBVIOUS
<1>9. Fine(a, S)
  BY <1>3, <1>5, <1>7, <1>8, TrailFine
<1>10. /\ a.mode = reader.mode /\ a.word = reader.word /\ a.section = reader.section
       /\ a.variable = reader.variable /\ a.pairs = Pairs
  BY <1>4, <1>8 DEF Same
<1>11. Pairs \subseteq S
  BY <1>9, <1>10 DEF Fine
<1>12. whole => a = b
  BY <1>3, <1>5, <1>6, <1>8 DEF Trail
<1>13. CASE reader.mode \in {"line", "comment"} /\ status' = "done" /\ config' = config
  <2>1. Pairs' = Pairs
    BY <1>13 DEF Pairs
  <2>2. Almost(Pairs, S)
    BY <1>1, <1>11, AlmostAll
  <2>3. whole => Pairs = S
    BY <1>3, <1>10, <1>12
  <2> QED
    BY <1>1, <1>13, <2>1, <2>2, <2>3 DEF Ended
<1>14. CASE reader.mode \in {"section", "variable"} /\ status' = "failed" /\ config' = config
  <2>1. Pairs' = Pairs
    BY <1>14 DEF Pairs
  <2>2. Almost(Pairs, S)
    BY <1>1, <1>11, AlmostAll
  <2>3. ~whole
    BY <1>3, <1>10, <1>12, <1>14
  <2> QED
    BY <1>1, <2>1, <2>2, <2>3 DEF Ended
<1>15. CASE /\ reader.mode = "value" /\ status' = "done"
            /\ config' = WithSetting(reader.section, reader.variable, reader.word)
  <2>1. Pairs' = Others(Pairs, reader.section, reader.variable)
                     \cup {<<reader.section, reader.variable, reader.word>>}
    <3>1. SettingsOf(WithSetting(reader.section, reader.variable, reader.word))
              = Others(Pairs, reader.section, reader.variable)
                     \cup {<<reader.section, reader.variable, reader.word>>}
      BY <1>2, WithSettingFacts DEF Typed, Readers
    <3> QED
      BY <1>15, <3>1 DEF Pairs
  <2>2. PICK v : <<reader.section, reader.variable, v>> \in S /\ IsPrefix(reader.word, v)
    BY <1>9, <1>10, <1>15 DEF Fine
  <2>3. Almost(Others(Pairs, reader.section, reader.variable)
                     \cup {<<reader.section, reader.variable, reader.word>>}, S)
    BY <1>1, <1>11, <2>2, AlmostOne
  <2>4. ~whole
    BY <1>3, <1>10, <1>12, <1>15
  <2> QED
    BY <1>1, <2>1, <2>3, <2>4 DEF Ended
<1> QED
  BY <1>13, <1>14, <1>15, AtEndMeans

LEMMA TextInit == Init => TextInv
  BY DEF Init, TextInv

LEMMA TextStep ==
    ASSUME Typed, TextInv, [Next]_vars
    PROVE  TextInv'
<1>1. CASE Load
  <2>1. /\ file # NULL /\ config' = <<>> /\ status' = "none"
        /\ file' = file /\ saved' = saved
        /\ reader' = [mode |-> "line", rest |-> file, word |-> <<>>,
                      section |-> Default, variable |-> <<>>]
    BY <1>1 DEF Load
  <2>2. Pairs' = {}
    BY <2>1, NothingToWrite DEF Pairs
  <2>3. ASSUME saved # NULL, Writable(saved.config)
        PROVE  \E text, A, b : Follows(text, A, b, SettingsOf(saved.config), file,
                                       reader', Pairs', "none", saved.whole)
    <3>1. PICK text, A, b : Follows(text, A, b, SettingsOf(saved.config), file,
                                    reader, Pairs, status, saved.whole)
      BY <2>3 DEF TextInv
    <3>2. A[0] = Start /\ file \in Strings
      BY <3>1 DEF Follows, Trail, Begins
    <3>3. RestAt(file, reader'.rest, 0) /\ 0 \in 0..Len(file)
      BY <2>1, <3>2, RestAll
    <3>4. /\ Start.mode = "line" /\ Start.word = <<>> /\ Start.section = Default
          /\ Start.variable = <<>> /\ Start.pairs = {}
      BY PlaceFields DEF Start
    <3>5. Same(A[0], reader') /\ A[0].pairs = Pairs'
      BY <2>1, <2>2, <3>2, <3>4 DEF Same
    <3>6. Reached(A, file, reader', Pairs')
      BY <3>3, <3>5 DEF Reached
    <3>7. Follows(text, A, b, SettingsOf(saved.config), file,
                  reader', Pairs', "none", saved.whole)
      BY <3>1, <3>6 DEF Follows
    <3> QED
      BY <3>7
  <2> QED
    BY <2>1, <2>3 DEF TextInv
<1>2. CASE Reading
  <2>1. reader # NULL /\ (GoesOn \/ GivesUp)
    BY <1>2, ReadingMoves
  <2>2. saved' = saved /\ file' = file
    BY <2>1 DEF GoesOn, GivesUp
  <2>3. status = "none" /\ (reader' # NULL => status' = "none")
    BY <2>1 DEF TextInv, GoesOn, GivesUp
  <2>4. ASSUME saved # NULL, Writable(saved.config)
        PROVE  \E text, A, b : Follows(text, A, b, SettingsOf(saved.config), file,
                                       reader', Pairs', status', saved.whole)
    <3>1. PICK text, A, b : Follows(text, A, b, SettingsOf(saved.config), file,
                                    reader, Pairs, status, saved.whole)
      BY <2>4 DEF TextInv
    <3>2. /\ GoesOn
          /\ Follows(text, A, b, SettingsOf(saved.config), file,
                     reader', Pairs', "none", saved.whole)
      BY <1>2, <3>1, FollowsReading
    <3>3. status' = "none"
      BY <2>3, <3>2 DEF GoesOn
    <3> QED
      BY <3>2, <3>3
  <2> QED
    BY <2>2, <2>3, <2>4 DEF TextInv
<1>3. CASE AtEnd
  <2>1. reader # NULL /\ reader' = NULL /\ saved' = saved /\ file' = file
    BY <1>3, AtEndMeans
  <2>2. ASSUME saved # NULL, Writable(saved.config)
        PROVE  \E text, A, b : Follows(text, A, b, SettingsOf(saved.config), file,
                                       reader', Pairs', status', saved.whole)
    <3>1. PICK text, A, b : Follows(text, A, b, SettingsOf(saved.config), file,
                                    reader, Pairs, status, saved.whole)
      BY <2>2 DEF TextInv
    <3>2. Ended(Pairs', SettingsOf(saved.config), status', saved.whole)
      BY <1>3, <2>2, <3>1, FollowsEnd DEF TextInv
    <3>3. Follows(text, A, b, SettingsOf(saved.config), file,
                  reader', Pairs', status', saved.whole)
      BY <2>1, <3>1, <3>2 DEF Follows
    <3> QED
      BY <3>3
  <2> QED
    BY <2>1, <2>2 DEF TextInv
<1>4. ASSUME NEW n \in 0..Len(SavedText), Save(n) PROVE TextInv'
  <2>1. /\ reader' = NULL /\ config' = config /\ status' = "none"
        /\ file' \in Strings /\ Len(file') = n
        /\ \A k \in 1..n : file'[k] = SavedText[k]
        /\ saved' = [whole |-> n = Len(SavedText), config |-> config]
        /\ config \in Configs
    BY <1>4, SaveMeans DEF Typed
  <2>2. saved'.config = config /\ saved'.whole = (n = Len(SavedText))
    BY <2>1
  <2>3. ASSUME Writable(config)
        PROVE  \E text, A, b : Follows(text, A, b, Pairs, file', NULL, Pairs, "none",
                                       n = Len(SavedText))
    <3>1. PICK text : text = SavedText
      OBVIOUS
    <3>2. text \in Strings
          /\ \E s, v : Leads(Start, text, Place("line", <<>>, s, v, Pairs), Pairs)
      BY <2>1, <2>3, <3>1, SavedLeads
    <3>3. PICK s, v : Leads(Start, text, Place("line", <<>>, s, v, Pairs), Pairs)
      BY <3>2
    <3>4. PICK b : b = Place("line", <<>>, s, v, Pairs)
      OBVIOUS
    <3>5. PICK A : Trail(A, Start, text, b, Pairs)
      BY <3>3, <3>4 DEF Leads
    <3>6. b.mode = "line" /\ b.pairs = Pairs
      BY <3>4, PlaceFields
    <3>7. Begins(file', text, n = Len(SavedText))
      <4>1. PICK m \in Nat : m = Len(text)
        BY <3>2, LenProperties DEF Strings
      <4>2. n \in 0..m /\ m = Len(SavedText)
        BY <3>1, <4>1
      <4>3. \A k \in 1..n : file'[k] = text[k]
        BY <2>1, <3>1
      <4> QED
        BY <2>1, <3>2, <4>1, <4>2, <4>3 DEF Begins
    <3>8. Follows(text, A, b, Pairs, file', NULL, Pairs, "none", n = Len(SavedText))
      BY <3>5, <3>6, <3>7 DEF Follows
    <3> QED
      BY <3>8
  <2>4. Pairs = SettingsOf(saved'.config) /\ Pairs' = Pairs
    BY <2>1, <2>2 DEF Pairs
  <2>5. ASSUME saved' # NULL, Writable(saved'.config)
        PROVE  \E text, A, b : Follows(text, A, b, SettingsOf(saved'.config), file',
                                       reader', Pairs', status', saved'.whole)
    BY <2>1, <2>2, <2>3, <2>4, <2>5
  <2> QED
    BY <2>1, <2>2, <2>5 DEF TextInv
<1>5. CASE UNCHANGED vars
  <2>1. /\ file' = file /\ reader' = reader /\ status' = status /\ saved' = saved
        /\ Pairs' = Pairs
    BY <1>5 DEF vars, Pairs
  <2> QED
    BY <2>1 DEF TextInv
<1> QED
  BY <1>1, <1>2, <1>3, <1>4, <1>5 DEF Next, Reading

LEMMA TextAlways == Spec => [](Typed /\ TextInv)
<1>1. Init => Typed /\ TextInv
  BY TypedInit, TextInit
<1>2. ASSUME Typed /\ TextInv, [Next]_vars PROVE (Typed /\ TextInv)'
  BY <1>2, TypedStep, TextStep
<1> QED
  BY <1>1, <1>2, PTL DEF Spec

LEMMA TextRoundTrip ==
    ASSUME TextInv
    PROVE  RoundTrip
<1>1. SUFFICES ASSUME saved # NULL, Writable(saved.config), saved.whole
               PROVE  status # "failed" /\ (status = "done" => Pairs = SettingsOf(saved.config))
  BY DEF RoundTrip
<1>2. PICK text, A, b : Follows(text, A, b, SettingsOf(saved.config), file,
                                reader, Pairs, status, saved.whole)
  BY <1>1 DEF TextInv
<1>3. CASE reader # NULL
  BY <1>3 DEF TextInv
<1>4. CASE reader = NULL /\ status # "none"
  BY <1>1, <1>2, <1>4 DEF Follows, Ended
<1> QED
  BY <1>3, <1>4

LEMMA TextCutShort ==
    ASSUME TextInv
    PROVE  CutShort
<1>1. SUFFICES ASSUME saved # NULL, Writable(saved.config), Read
               PROVE  Almost(Pairs, SettingsOf(saved.config))
  BY DEF CutShort, Almost
<1>2. PICK text, A, b : Follows(text, A, b, SettingsOf(saved.config), file,
                                reader, Pairs, status, saved.whole)
  BY <1>1 DEF TextInv
<1>3. CASE reader # NULL
  <2>1. PICK i \in 0..Len(file) : A[i].pairs = Pairs
    BY <1>2, <1>3 DEF Follows, Reached
  <2>2. file \in Strings /\ text \in Strings /\ Len(file) <= Len(text)
    BY <1>2 DEF Follows, Begins
  <2>3. i \in 0..Len(text)
    <3>1. Len(file) \in Nat /\ Len(text) \in Nat
      BY <2>2, LenProperties DEF Strings
    <3> QED
      BY <2>2, <3>1
  <2>4. Fine(A[i], SettingsOf(saved.config))
    BY <1>2, <2>2, <2>3, TrailFine DEF Follows
  <2>5. Pairs \in SUBSET SettingsOf(saved.config)
    BY <2>1, <2>4 DEF Fine
  <2> QED
    BY <1>1, <2>5, AlmostAll DEF TextInv
<1>4. CASE reader = NULL
  <2>1. status # "none"
    BY <1>1, <1>4 DEF Read
  <2> QED
    BY <1>2, <1>4, <2>1 DEF Follows, Ended
<1> QED
  BY <1>3, <1>4

(* What config_save wrote of any configuration that a file can hold, in    *)
(* whatever order its sections and variables are, config_load reads        *)
(* without an error and back to the same settings.                         *)
THEOREM RoundTripAlways == Spec => []RoundTrip
  BY TextAlways, TextRoundTrip, PTL

(* Wherever config_save was interrupted, config_load takes from what is    *)
(* there only settings that were saved, and at most one value cut short.   *)
THEOREM CutShortAlways == Spec => []CutShort
  BY TextAlways, TextCutShort, PTL
=============================================================================
