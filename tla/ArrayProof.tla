----------------------------- MODULE ArrayProof -----------------------------
(* The arrays of Array, for any sizes and values: no access is out of      *)
(* bounds, a walk calls back each value once, and the bytes are those of   *)
(* the lists of ListSpec.  What the functions do to the bytes of an array, *)
(* and to the values that its bytes stand for, comes first.  At the end    *)
(* are the tables of Mutator, whose entries are kept in an array: the keys *)
(* of a mutator are its own, a foreach that removes nothing is complete,   *)
(* and a mutator is a dictionary.                                          *)
EXTENDS Array, Mutator, ArraySeqProof

Block == [count : 0..MaxCount, size : Sizes, value : Memory]

(* realloc() gave room for every value.                                    *)
Roomy(r) == r.count * r.size <= Len(r.value)

----------------------------------------------------------------------------
(* Positions, offsets and memory.                                          *)

Contents == Bytes \cup {Junk}

LEMMA SizeFacts ==
    ASSUME NEW n \in Sizes
    PROVE  n \in Nat \ {0} /\ MaxCount \in Nat /\ Word \in Nat \ {0} /\ MaxCount * n < Word
  BY WordAssumption, CountAssumption, SizeAssumption

LEMMA Product ==
    ASSUME NEW i \in Nat, NEW n \in Nat
    PROVE  i * n \in Nat /\ n * i = i * n /\ (i + 1) * n = i * n + n
  OBVIOUS

LEMMA ProductMonotonic ==
    ASSUME NEW i \in Nat, NEW j \in Nat, NEW n \in Nat, i <= j
    PROVE  i * n <= j * n
<1>1. PICK d \in Nat : j = i + d
  <2>1. j - i \in Nat /\ j = i + (j - i)
    OBVIOUS
  <2> QED
    BY <2>1
<1>2. j * n = i * n + d * n
  BY <1>1
<1>3. i * n \in Nat /\ d * n \in Nat /\ j * n \in Nat
  BY Product
<1> QED
  BY <1>2, <1>3

(* The values at different positions do not overlap.                       *)
LEMMA BlocksApart ==
    ASSUME NEW i \in Nat, NEW j \in Nat, NEW n \in Nat, i < j
    PROVE  i * n \in Nat /\ j * n \in Nat /\ i * n + n <= j * n
<1>1. i + 1 \in Nat /\ i + 1 <= j
  OBVIOUS
<1>2. (i + 1) * n <= j * n
  BY <1>1, ProductMonotonic
<1> QED
  BY <1>2, Product

(* Of all the values of an array, the size is below 2^32.                  *)
LEMMA TimesExact ==
    ASSUME NEW n \in Sizes, NEW i \in 0..MaxCount
    PROVE  Times(i, n) = i * n /\ Times(n, i) = i * n
<1>1. n \in Nat /\ MaxCount \in Nat /\ Word \in Nat \ {0} /\ MaxCount * n < Word
  BY SizeFacts
<1>2. i \in Nat /\ i <= MaxCount
  BY <1>1
<1>3. i * n <= MaxCount * n /\ i * n \in Nat /\ n * i = i * n /\ MaxCount * n \in Nat
  BY <1>1, <1>2, ProductMonotonic, Product
<1> DEFINE x == i * n
<1>4. x \in Nat /\ x < Word
  BY <1>1, <1>3
<1> HIDE DEF x
<1>5. x % Word = x
  BY <1>1, <1>4
<1> QED
  BY <1>3, <1>5 DEF Times, x

LEMMA MemoryFacts ==
    ASSUME NEW value \in Memory
    PROVE  /\ Len(value) \in Nat /\ DOMAIN value = 1..Len(value)
           /\ \A k \in 1..Len(value) : value[k] \in Contents
  BY LenProperties, ElementOfSeq DEF Memory, Contents

LEMMA IsMemory ==
    ASSUME NEW n \in Nat, NEW f \in [1..n -> Contents]
    PROVE  f \in Memory /\ Len(f) = n
<1>1. f \in Seq(Contents)
  OBVIOUS
<1> QED
  BY <1>1, LenProperties DEF Memory, Contents

LEMMA ReallocFacts ==
    ASSUME NEW value \in Memory, NEW n \in Nat
    PROVE  /\ Realloc(value, n) \in Memory /\ Len(Realloc(value, n)) = n
           /\ \A k \in 1..n : k <= Len(value) => Realloc(value, n)[k] = value[k]
<1>1. Len(value) \in Nat /\ DOMAIN value = 1..Len(value)
      /\ \A k \in 1..Len(value) : value[k] \in Contents
  BY MemoryFacts
<1>2. Realloc(value, n) \in [1..n -> Contents]
  BY <1>1 DEF Realloc, Contents
<1>3. \A k \in 1..n : k <= Len(value) => Realloc(value, n)[k] = value[k]
  BY <1>1 DEF Realloc
<1> QED
  BY <1>2, <1>3, IsMemory

LEMMA StoreFacts ==
    ASSUME NEW value \in Memory, NEW offset \in Nat, NEW n \in Nat,
           NEW bytes \in [1..n -> Contents]
    PROVE  /\ Store(value, offset, bytes) \in Memory
           /\ Len(Store(value, offset, bytes)) = Len(value)
           /\ \A k \in 1..Len(value) :
                  /\ k - offset \in 1..n => Store(value, offset, bytes)[k] = bytes[k - offset]
                  /\ k - offset \notin 1..n => Store(value, offset, bytes)[k] = value[k]
<1>1. Len(value) \in Nat /\ DOMAIN value = 1..Len(value)
      /\ \A k \in 1..Len(value) : value[k] \in Contents
  BY MemoryFacts
<1>2. DOMAIN bytes = 1..n /\ \A k \in 1..n : bytes[k] \in Contents
  OBVIOUS
<1>3. Store(value, offset, bytes) \in [1..Len(value) -> Contents]
  BY <1>1, <1>2 DEF Store
<1>4. \A k \in 1..Len(value) :
          /\ k - offset \in 1..n => Store(value, offset, bytes)[k] = bytes[k - offset]
          /\ k - offset \notin 1..n => Store(value, offset, bytes)[k] = value[k]
  BY <1>1, <1>2 DEF Store
<1> QED
  BY <1>1, <1>3, <1>4, IsMemory

LEMMA FetchFacts ==
    ASSUME NEW value \in Memory, NEW offset \in Nat, NEW n \in Nat
    PROVE  /\ Fetch(value, offset, n) \in [1..n -> Contents]
           /\ Fetch(value, offset, n) \in Memory /\ Len(Fetch(value, offset, n)) = n
           /\ \A m \in 1..n : offset + m <= Len(value) =>
                  Fetch(value, offset, n)[m] = value[offset + m]
<1>1. Len(value) \in Nat /\ DOMAIN value = 1..Len(value)
      /\ \A k \in 1..Len(value) : value[k] \in Contents
  BY MemoryFacts
<1>2. Fetch(value, offset, n) \in [1..n -> Contents]
  BY <1>1 DEF Fetch, Contents
<1>3. \A m \in 1..n : offset + m <= Len(value) =>
          Fetch(value, offset, n)[m] = value[offset + m]
  BY <1>1 DEF Fetch
<1> QED
  BY <1>2, <1>3, IsMemory

LEMMA FetchIs ==
    ASSUME NEW v \in Memory, NEW n \in Nat, NEW bytes \in [1..n -> Contents],
           NEW i \in Nat, i + n <= Len(v), \A m \in 1..n : v[i + m] = bytes[m]
    PROVE  Fetch(v, i, n) = bytes
<1>1. /\ Fetch(v, i, n) \in [1..n -> Contents]
      /\ \A m \in 1..n : i + m <= Len(v) => Fetch(v, i, n)[m] = v[i + m]
  BY FetchFacts
<1>2. Len(v) \in Nat
  BY MemoryFacts
<1>3. \A m \in 1..n : Fetch(v, i, n)[m] = bytes[m]
  BY <1>1, <1>2
<1> QED
  BY <1>1, <1>3
(* Bytes stored elsewhere change nothing here, and those stored here are   *)
(* fetched again.                                                          *)
LEMMA StoredElsewhere ==
    ASSUME NEW v \in Memory, NEW o \in Nat, NEW l \in Nat, NEW bytes \in [1..l -> Contents],
           NEW i \in Nat, NEW n \in Nat, i + n <= Len(v), i + n <= o \/ o + l <= i
    PROVE  Fetch(Store(v, o, bytes), i, n) = Fetch(v, i, n)
<1> DEFINE w == Store(v, o, bytes)
<1>1. /\ w \in Memory /\ Len(w) = Len(v)
      /\ \A k \in 1..Len(v) : k - o \notin 1..l => w[k] = v[k]
  BY StoreFacts
<1>2. Len(v) \in Nat
  BY MemoryFacts
<1> HIDE DEF w
<1>3. ASSUME NEW m \in 1..n PROVE w[i + m] = v[i + m]
  <2>1. i + m \in 1..Len(v) /\ (i + m) - o \notin 1..l
    BY <1>2
  <2> QED
    BY <1>1, <2>1
<1>4. w \in Memory /\ i + n <= Len(w)
  BY <1>1
<1> DEFINE bytes0 == Fetch(v, i, n)
<1>5. bytes0 \in [1..n -> Contents] /\ \A m \in 1..n : i + m <= Len(v) => bytes0[m] = v[i + m]
  BY FetchFacts
<1> HIDE DEF bytes0
<1>6. \A m \in 1..n : w[i + m] = bytes0[m]
  <2>1. \A m \in 1..n : i + m <= Len(v)
    BY <1>2
  <2> QED
    BY <1>3, <1>5, <2>1, Zenon
<1>7. Fetch(w, i, n) = bytes0
  BY <1>4, <1>5, <1>6, FetchIs
<1> QED
  BY <1>7 DEF w, bytes0

LEMMA StoredValue ==
    ASSUME NEW v \in Memory, NEW o \in Nat, NEW n \in Nat, NEW bytes \in [1..n -> Contents],
           o + n <= Len(v)
    PROVE  Fetch(Store(v, o, bytes), o, n) = bytes
<1> DEFINE w == Store(v, o, bytes)
<1>1. /\ w \in Memory /\ Len(w) = Len(v)
      /\ \A k \in 1..Len(v) : k - o \in 1..n => w[k] = bytes[k - o]
  BY StoreFacts
<1>2. Len(v) \in Nat
  BY MemoryFacts
<1> HIDE DEF w
<1>3. ASSUME NEW m \in 1..n PROVE w[o + m] = bytes[m]
  <2>1. o + m \in 1..Len(v) /\ (o + m) - o = m
    BY <1>2
  <2> QED
    BY <1>1, <2>1
<1>4. Fetch(w, o, n) = bytes
  BY <1>1, <1>3, FetchIs
<1> QED
  BY <1>4 DEF w

(* The bytes that realloc() keeps.                                         *)
LEMMA Reallocated ==
    ASSUME NEW v \in Memory, NEW l \in Nat, NEW i \in Nat, NEW n \in Nat,
           i + n <= Len(v), i + n <= l
    PROVE  Fetch(Realloc(v, l), i, n) = Fetch(v, i, n)
<1> DEFINE w == Realloc(v, l)
<1>1. /\ w \in Memory /\ Len(w) = l
      /\ \A k \in 1..l : k <= Len(v) => w[k] = v[k]
  BY ReallocFacts
<1>2. Len(v) \in Nat
  BY MemoryFacts
<1> HIDE DEF w
<1>3. \A m \in 1..n : w[i + m] = v[i + m]
  BY <1>1, <1>2
<1>4. w \in Memory /\ i + n <= Len(w)
  BY <1>1
<1> DEFINE bytes0 == Fetch(v, i, n)
<1>5. bytes0 \in [1..n -> Contents] /\ \A m \in 1..n : i + m <= Len(v) => bytes0[m] = v[i + m]
  BY FetchFacts
<1> HIDE DEF bytes0
<1>6. \A m \in 1..n : w[i + m] = bytes0[m]
  <2>1. \A m \in 1..n : i + m <= Len(v)
    BY <1>2
  <2> QED
    BY <1>3, <1>5, <2>1, Zenon
<1>7. Fetch(w, i, n) = bytes0
  BY <1>4, <1>5, <1>6, FetchIs
<1> QED
  BY <1>7 DEF w, bytes0

----------------------------------------------------------------------------
(* Arrays and their values.                                                *)

LEMMA BlockFacts ==
    ASSUME NEW r \in Block
    PROVE  /\ r.count \in Nat /\ r.count \in 0..MaxCount /\ r.size \in Sizes
           /\ r.size \in Nat \ {0} /\ r.value \in Memory /\ Len(r.value) \in Nat
           /\ r.count * r.size \in Nat
<1>1. r.count \in 0..MaxCount /\ r.size \in Sizes /\ r.value \in Memory
  BY DEF Block
<1>2. MaxCount \in Nat /\ r.size \in Nat \ {0}
  BY <1>1, SizeFacts
<1>3. r.count \in Nat /\ Len(r.value) \in Nat
  BY <1>1, <1>2, MemoryFacts
<1>4. r.count * r.size \in Nat
  BY <1>2, <1>3, Product, Zenon
<1> QED
  BY <1>1, <1>2, <1>3, <1>4

LEMMA ValuesFacts ==
    ASSUME NEW r \in Block
    PROVE  /\ ValuesIn(r) \in Seq(Memory) /\ Len(ValuesIn(r)) = r.count
           /\ DOMAIN ValuesIn(r) = 1..r.count
           /\ \A k \in 1..r.count : ValuesIn(r)[k] = ValueAt(r, k - 1)
           /\ \A k \in Nat : k < r.count => ValuesIn(r)[k + 1] = ValueAt(r, k)
           /\ \A k \in Nat : ValueAt(r, k) \in [1..r.size -> Contents]
<1>1. r.count \in Nat /\ r.size \in Nat /\ r.value \in Memory
  BY BlockFacts
<1>2. ASSUME NEW k \in Nat
      PROVE  ValueAt(r, k) \in Memory /\ ValueAt(r, k) \in [1..r.size -> Contents]
  <2>1. k * r.size \in Nat
    BY <1>1, Product
  <2> QED
    BY <1>1, <2>1, FetchFacts DEF ValueAt
<1>3. \A k \in 1..r.count : k - 1 \in Nat
  BY <1>1
<1>4. ValuesIn(r) \in [1..r.count -> Memory]
  BY <1>2, <1>3 DEF ValuesIn
<1>5. ValuesIn(r) \in Seq(Memory)
  BY <1>1, <1>4
<1>6. DOMAIN ValuesIn(r) = 1..r.count
  BY <1>4
<1>7. Len(ValuesIn(r)) = r.count
  BY <1>1, <1>5, <1>6, LenProperties
<1>8. \A k \in 1..r.count : ValuesIn(r)[k] = ValueAt(r, k - 1)
  BY DEF ValuesIn
<1>9. ASSUME NEW k \in Nat, k < r.count PROVE ValuesIn(r)[k + 1] = ValueAt(r, k)
  <2>1. k + 1 \in 1..r.count /\ (k + 1) - 1 = k
    BY <1>1, <1>9
  <2> QED
    BY <1>8, <2>1
<1> QED
  BY <1>2, <1>5, <1>6, <1>7, <1>8, <1>9
----------------------------------------------------------------------------
(* What each function does to memory v that has c values of size n.        *)

LEMMA Within ==
    ASSUME NEW v \in Memory, NEW c \in Nat, NEW n \in Nat, c * n <= Len(v),
           NEW k \in Nat, k < c
    PROVE  k * n \in Nat /\ k * n + n <= c * n /\ k * n + n <= Len(v)
<1> DEFINE x == k * n
           y == c * n
<1>1. x \in Nat /\ y \in Nat /\ x + n <= y
  BY BlocksApart
<1>2. y <= Len(v) /\ Len(v) \in Nat
  BY MemoryFacts
<1> HIDE DEF x, y
<1>3. x + n <= Len(v)
  BY <1>1, <1>2
<1> QED
  BY <1>1, <1>3 DEF x, y

(* Of two positions, the value at the one is before that at the other.     *)
LEMMA Elsewhere ==
    ASSUME NEW i \in Nat, NEW j \in Nat, i # j, NEW n \in Nat
    PROVE  i * n + n <= j * n \/ j * n + n <= i * n
<1>1. CASE i < j
  BY <1>1, BlocksApart
<1>2. CASE j < i
  BY <1>2, BlocksApart
<1> QED
  BY <1>1, <1>2

(* w is v with bytes as the value at pos.                                  *)
ValueSet(w, v, c, n, pos, bytes) ==
    /\ w \in Memory /\ Len(w) = Len(v)
    /\ Fetch(w, pos * n, n) = bytes
    /\ \A k \in Nat : k < c /\ k # pos => Fetch(w, k * n, n) = Fetch(v, k * n, n)

LEMMA SetMemory ==
    ASSUME NEW v \in Memory, NEW c \in Nat, NEW n \in Nat, c * n <= Len(v),
           NEW pos \in Nat, pos < c, NEW bytes \in [1..n -> Contents],
           NEW w, w = Store(v, pos * n, bytes)
    PROVE  /\ ValueSet(w, v, c, n, pos, bytes)
           /\ ~Outside(v, pos * n, n)
<1>1. pos * n \in Nat /\ pos * n + n <= Len(v)
  BY Within
<1>2. w \in Memory /\ Len(w) = Len(v)
  BY <1>1, StoreFacts
<1>3. Fetch(w, pos * n, n) = bytes
  BY <1>1, StoredValue
<1>4. ASSUME NEW k \in Nat, k < c, k # pos PROVE Fetch(w, k * n, n) = Fetch(v, k * n, n)
  <2>1. k * n \in Nat /\ k * n + n <= Len(v)
    BY <1>4, Within
  <2>2. k * n + n <= pos * n \/ pos * n + n <= k * n
    BY <1>4, Elsewhere
  <2> QED
    BY <1>1, <2>1, <2>2, StoredElsewhere
<1>5. ~Outside(v, pos * n, n)
  <2> DEFINE x == pos * n
  <2>1. x \in Nat /\ x + n <= Len(v) /\ Len(v) \in Nat
    BY <1>1, MemoryFacts
  <2> HIDE DEF x
  <2>2. ~Outside(v, x, n)
    BY <2>1 DEF Outside
  <2> QED
    BY <2>2 DEF x
<1> QED
  BY <1>2, <1>3, <1>4, <1>5 DEF ValueSet

(* w is v with bytes as the value after its c ones.                        *)
ValueAppended(w, v, c, n, bytes) ==
    /\ w \in Memory /\ Len(w) = (c + 1) * n
    /\ Fetch(w, c * n, n) = bytes
    /\ \A k \in Nat : k < c => Fetch(w, k * n, n) = Fetch(v, k * n, n)

LEMMA AppendMemory ==
    ASSUME NEW v \in Memory, NEW c \in Nat, NEW n \in Nat, c * n <= Len(v),
           NEW bytes \in [1..n -> Contents],
           NEW w, w = Store(Realloc(v, c * n + n), c * n, bytes)
    PROVE  ValueAppended(w, v, c, n, bytes)
<1> DEFINE x == c * n
           p == Realloc(v, x + n)
<1>1. x \in Nat /\ (c + 1) * n = x + n
  BY Product
<1>2. \A k \in Nat : k < c => k * n \in Nat /\ k * n + n <= x
  BY BlocksApart
<1>3. c * n = x /\ x <= Len(v) /\ w = Store(p, x, bytes)
  OBVIOUS
<1> HIDE DEF x
<1>4. p \in Memory /\ Len(p) = x + n
  <2>1. x + n \in Nat
    BY <1>1
  <2> QED
    BY <2>1, ReallocFacts
<1>5. \A y \in Nat : y + n <= x => Fetch(p, y, n) = Fetch(v, y, n)
  <2> SUFFICES ASSUME NEW y \in Nat, y + n <= x PROVE Fetch(p, y, n) = Fetch(v, y, n)
    OBVIOUS
  <2>1. y + n <= Len(v) /\ y + n <= x + n /\ x + n \in Nat
    BY <1>1, <1>3, MemoryFacts
  <2> QED
    BY <2>1, Reallocated
<1> HIDE DEF p
<1>6. w \in Memory /\ Len(w) = x + n
  BY <1>1, <1>3, <1>4, StoreFacts
<1>7. Fetch(w, x, n) = bytes
  <2>1. x + n <= Len(p)
    BY <1>1, <1>4
  <2> QED
    BY <1>1, <1>3, <1>4, <2>1, StoredValue
<1>8. \A y \in Nat : y + n <= x => Fetch(w, y, n) = Fetch(p, y, n)
  <2> SUFFICES ASSUME NEW y \in Nat, y + n <= x PROVE Fetch(w, y, n) = Fetch(p, y, n)
    OBVIOUS
  <2>1. y + n <= Len(p)
    BY <1>1, <1>4
  <2> QED
    BY <1>1, <1>3, <1>4, <2>1, StoredElsewhere
<1>9. \A k \in Nat : k < c => Fetch(w, k * n, n) = Fetch(v, k * n, n)
  BY <1>2, <1>5, <1>8
<1> QED
  BY <1>1, <1>3, <1>6, <1>7, <1>9 DEF ValueAppended
(* memmove(), of l bytes at o to d.                                        *)
Memmove(p, d, o, l) == Store(p, d, Fetch(p, o, l))

(* q is p with the l bytes at o where those at d were.                     *)
Moved(q, p, d, o, l) ==
    /\ q \in Memory /\ Len(q) = Len(p)
    /\ \A n, i \in Nat : i + n <= l => Fetch(q, d + i, n) = Fetch(p, o + i, n)
    /\ \A n, y \in Nat : y + n <= Len(p) /\ (y + n <= d \/ d + l <= y) =>
           Fetch(q, y, n) = Fetch(p, y, n)

LEMMA MovedMemory ==
    ASSUME NEW p \in Memory, NEW o \in Nat, NEW d \in Nat, NEW l \in Nat,
           o + l <= Len(p), d + l <= Len(p)
    PROVE  Moved(Memmove(p, d, o, l), p, d, o, l)
<1>0. PICK q : q = Memmove(p, d, o, l)
  OBVIOUS
<1>1. PICK rest : rest = Fetch(p, o, l)
  OBVIOUS
<1>2. /\ rest \in [1..l -> Contents]
      /\ \A m \in 1..l : o + m <= Len(p) => rest[m] = p[o + m]
  BY <1>1, FetchFacts
<1>3. q = Store(p, d, rest) /\ Len(p) \in Nat
  BY <1>0, <1>1, MemoryFacts DEF Memmove
<1>4. /\ q \in Memory /\ Len(q) = Len(p)
      /\ \A k \in 1..Len(p) : k - d \in 1..l => q[k] = rest[k - d]
  <2>1. /\ Store(p, d, rest) \in Memory /\ Len(Store(p, d, rest)) = Len(p)
        /\ \A k \in 1..Len(p) : k - d \in 1..l => Store(p, d, rest)[k] = rest[k - d]
    BY <1>2, StoreFacts
  <2> QED
    BY <1>3, <2>1
<1>5. ASSUME NEW n \in Nat, NEW y \in Nat, y + n <= Len(p), y + n <= d \/ d + l <= y
      PROVE  Fetch(q, y, n) = Fetch(p, y, n)
  <2>1. Fetch(Store(p, d, rest), y, n) = Fetch(p, y, n)
    BY <1>2, <1>5, StoredElsewhere
  <2> QED
    BY <1>3, <2>1
<1>6. ASSUME NEW n \in Nat, NEW i \in Nat, i + n <= l
      PROVE  Fetch(q, d + i, n) = Fetch(p, o + i, n)
  <2>1. PICK y \in Nat : y = o + i
    OBVIOUS
  <2>2. PICK z \in Nat : z = d + i
    OBVIOUS
  <2>3. PICK here : here = Fetch(p, y, n)
    OBVIOUS
  <2>4. /\ here \in [1..n -> Contents]
        /\ \A m \in 1..n : y + m <= Len(p) => here[m] = p[y + m]
    BY <2>3, FetchFacts
  <2>5. ASSUME NEW m \in 1..n PROVE q[z + m] = here[m]
    <3>1. PICK k \in Nat : k = z + m
      OBVIOUS
    <3>2. k \in 1..Len(p) /\ k - d \in 1..l /\ k - d = i + m
      BY <1>3, <1>6, <2>2, <3>1
    <3>3. q[k] = rest[i + m]
      BY <1>4, <3>2
    <3>4. i + m \in 1..l /\ o + (i + m) <= Len(p) /\ o + (i + m) = y + m
      BY <1>3, <1>6, <2>1
    <3>5. rest[i + m] = p[y + m]
      BY <1>2, <3>4
    <3>6. here[m] = p[y + m]
      BY <2>4, <3>4
    <3> QED
      BY <3>1, <3>3, <3>5, <3>6
  <2>6. z + n <= Len(q)
    BY <1>3, <1>4, <1>6, <2>2
  <2>7. Fetch(q, z, n) = here
    BY <1>4, <2>4, <2>5, <2>6, FetchIs
  <2> QED
    BY <2>1, <2>2, <2>3, <2>7
<1> QED
  BY <1>0, <1>4, <1>5, <1>6 DEF Moved

(* array_insert: the bytes from offset o on are moved n further.           *)
Inserted(v, x, o, n, bytes) ==
    Store(Memmove(Realloc(v, x + n), o + n, o, x - o), o, bytes)

LEMMA InsertBytes ==
    ASSUME NEW v \in Memory, NEW n \in Nat, NEW o \in Nat, NEW x \in Nat,
           o <= x, x <= Len(v), NEW bytes \in [1..n -> Contents],
           NEW w, w = Inserted(v, x, o, n, bytes)
    PROVE  /\ w \in Memory /\ Len(w) = x + n
           /\ Fetch(w, o, n) = bytes
           /\ \A y \in Nat : y + n <= o => Fetch(w, y, n) = Fetch(v, y, n)
           /\ \A y \in Nat : o <= y /\ y + n <= x => Fetch(w, y + n, n) = Fetch(v, y, n)
<1> DEFINE p == Realloc(v, x + n)
           q == Memmove(p, o + n, o, x - o)
<1>a. PICK b \in Nat : b = o + n
  OBVIOUS
<1>b. PICK l \in Nat : l = x - o /\ x = o + l
  <2>1. x - o \in Nat /\ x = o + (x - o)
    OBVIOUS
  <2> QED
    BY <2>1
<1>c. p = Realloc(v, x + n) /\ q = Memmove(p, b, o, l) /\ w = Store(q, o, bytes)
  BY <1>a, <1>b DEF Inserted
<1> HIDE DEF p, q
<1>1. p \in Memory /\ Len(p) = x + n
  <2>1. x + n \in Nat
    OBVIOUS
  <2> QED
    BY <1>c, <2>1, ReallocFacts
<1>2. ASSUME NEW y \in Nat, y + n <= x PROVE Fetch(p, y, n) = Fetch(v, y, n)
  <2>1. y + n <= Len(v) /\ y + n <= x + n /\ x + n \in Nat
    BY <1>2, MemoryFacts
  <2> QED
    BY <1>c, <2>1, Reallocated
<1>3. o + l <= Len(p) /\ b + l <= Len(p)
  BY <1>1, <1>a, <1>b
<1>4. /\ q \in Memory /\ Len(q) = Len(p)
      /\ \A i \in Nat : i + n <= l => Fetch(q, b + i, n) = Fetch(p, o + i, n)
      /\ \A y \in Nat : y + n <= Len(p) /\ (y + n <= b \/ b + l <= y) =>
             Fetch(q, y, n) = Fetch(p, y, n)
  <2>1. Moved(q, p, b, o, l)
    BY <1>1, <1>3, <1>c, MovedMemory
  <2> QED
    BY <2>1 DEF Moved
<1>5. Len(q) = x + n /\ o + n <= Len(q)
  BY <1>1, <1>4
<1>6. w \in Memory /\ Len(w) = x + n
  BY <1>4, <1>5, <1>c, StoreFacts
<1>7. Fetch(w, o, n) = bytes
  BY <1>4, <1>5, <1>c, StoredValue
<1>8. ASSUME NEW y \in Nat, y + n <= o PROVE Fetch(w, y, n) = Fetch(v, y, n)
  <2>1. y + n <= Len(q) /\ y + n <= Len(p) /\ y + n <= b /\ y + n <= x
    BY <1>1, <1>5, <1>8, <1>a
  <2>2. Fetch(w, y, n) = Fetch(q, y, n)
    BY <1>4, <1>8, <1>c, <2>1, StoredElsewhere
  <2> QED
    BY <1>2, <1>4, <2>1, <2>2
<1>9. ASSUME NEW y \in Nat, o <= y, y + n <= x PROVE Fetch(w, y + n, n) = Fetch(v, y, n)
  <2>1. PICK i \in Nat : y = o + i
    <3>1. y - o \in Nat /\ y = o + (y - o)
      BY <1>9
    <3> QED
      BY <3>1
  <2>2. PICK z \in Nat : z = y + n
    OBVIOUS
  <2>3. i + n <= l /\ z = b + i /\ z + n <= Len(q) /\ o + n <= z
    BY <1>5, <1>9, <1>a, <1>b, <2>1, <2>2
  <2>4. Fetch(w, z, n) = Fetch(q, z, n)
    BY <1>4, <1>c, <2>3, StoredElsewhere
  <2>5. Fetch(q, z, n) = Fetch(p, y, n)
    BY <1>4, <2>1, <2>3
  <2> QED
    BY <1>2, <1>9, <2>2, <2>4, <2>5
<1> QED
  BY <1>1, <1>6, <1>7, <1>8, <1>9

InsertRoom(v, c, n) == Realloc(v, c * n + n)
InsertRest(v, c, n, pos) == Fetch(InsertRoom(v, c, n), pos * n, n * (c - pos))
InsertMem(v, c, n, pos, bytes) ==
    Store(Store(InsertRoom(v, c, n), pos * n + n, InsertRest(v, c, n, pos)), pos * n, bytes)

(* w is v with bytes before the value at pos.                              *)
ValueInserted(w, v, c, n, pos, bytes) ==
    /\ w \in Memory /\ Len(w) = (c + 1) * n
    /\ Fetch(w, pos * n, n) = bytes
    /\ \A k \in Nat : k < pos => Fetch(w, k * n, n) = Fetch(v, k * n, n)
    /\ \A k \in Nat : pos <= k /\ k < c => Fetch(w, (k + 1) * n, n) = Fetch(v, k * n, n)

LEMMA InsertMemory ==
    ASSUME NEW v \in Memory, NEW c \in Nat, NEW n \in Nat, c * n <= Len(v),
           NEW pos \in Nat, pos <= c, NEW bytes \in [1..n -> Contents]
    PROVE  /\ ValueInserted(InsertMem(v, c, n, pos, bytes), v, c, n, pos, bytes)
           /\ ~Outside(InsertRoom(v, c, n), pos * n, Len(InsertRest(v, c, n, pos)) + n)
<1>a. PICK p, rest : p = InsertRoom(v, c, n) /\ rest = InsertRest(v, c, n, pos)
  OBVIOUS
<1>b. PICK w : w = InsertMem(v, c, n, pos, bytes)
  OBVIOUS
<1>1. PICK x \in Nat, o \in Nat, l \in Nat : x = c * n /\ o = pos * n /\ l = n * (c - pos)
  <2>1. c - pos \in Nat
    OBVIOUS
  <2>2. c * n \in Nat /\ pos * n \in Nat /\ n * (c - pos) \in Nat
    BY <2>1, Product
  <2> QED
    BY <2>2
<1>2. x = o + l /\ (c + 1) * n = x + n
  <2>1. PICK d \in Nat : d = c - pos /\ c = pos + d
    <3>1. c - pos \in Nat /\ c = pos + (c - pos)
      OBVIOUS
    <3> QED
      BY <3>1
  <2>2. c * n = pos * n + n * d /\ (c + 1) * n = c * n + n
    BY <2>1
  <2> QED
    BY <1>1, <2>1, <2>2
<1>3. o <= x /\ x <= Len(v) /\ x - o = l
  BY <1>1, <1>2
<1>4. p = Realloc(v, x + n) /\ rest = Fetch(p, o, l)
  BY <1>1, <1>a DEF InsertRoom, InsertRest
<1>5. w = Inserted(v, x, o, n, bytes)
  BY <1>1, <1>3, <1>4, <1>a, <1>b DEF Inserted, Memmove, InsertMem
<1>6. /\ w \in Memory /\ Len(w) = x + n
      /\ Fetch(w, o, n) = bytes
      /\ \A y \in Nat : y + n <= o => Fetch(w, y, n) = Fetch(v, y, n)
      /\ \A y \in Nat : o <= y /\ y + n <= x => Fetch(w, y + n, n) = Fetch(v, y, n)
  <2>1. o <= x /\ x <= Len(v)
    BY <1>3
  <2> QED
    BY <1>5, <2>1, InsertBytes, SMTT(30)
<1>7. ~Outside(p, o, Len(rest) + n)
  <2>1. x + n \in Nat
    OBVIOUS
  <2>2. Realloc(v, x + n) \in Memory /\ Len(Realloc(v, x + n)) = x + n
    BY <2>1, ReallocFacts
  <2>3. p \in Memory /\ Len(p) = x + n
    BY <1>4, <2>2, Zenon
  <2>4. Len(Fetch(p, o, l)) = l
    BY <2>3, FetchFacts
  <2>5. Len(rest) = l
    BY <1>4, <2>4, Zenon
  <2> QED
    BY <1>2, <2>3, <2>5 DEF Outside
<1>8. ASSUME NEW k \in Nat, k < pos PROVE Fetch(w, k * n, n) = Fetch(v, k * n, n)
  <2>1. k * n \in Nat /\ k * n + n <= o
    BY <1>1, <1>8, BlocksApart
  <2> QED
    BY <1>6, <2>1, Zenon
<1>9. ASSUME NEW k \in Nat, pos <= k, k < c PROVE Fetch(w, (k + 1) * n, n) = Fetch(v, k * n, n)
  <2>1. k * n \in Nat /\ k * n + n <= x
    BY <1>1, <1>9, BlocksApart
  <2>2. o <= k * n
    BY <1>1, <1>9, ProductMonotonic
  <2>3. (k + 1) * n = k * n + n
    BY Product
  <2>4. Fetch(w, k * n + n, n) = Fetch(v, k * n, n)
    BY <1>6, <2>1, <2>2, Zenon
  <2> QED
    BY <2>3, <2>4
<1> QED
  BY <1>1, <1>2, <1>6, <1>7, <1>8, <1>9, <1>a, <1>b DEF ValueInserted
(* array_remove_pos: the values after pos are moved back by one.           *)
(* w is v without the value at pos.                                        *)
ValueRemoved(w, v, c, n, pos) ==
    /\ w \in Memory /\ Len(w) = Len(v)
    /\ \A k \in Nat : k < pos => Fetch(w, k * n, n) = Fetch(v, k * n, n)
    /\ \A k \in Nat : pos <= k /\ k < c - 1 =>
           Fetch(w, k * n, n) = Fetch(v, (k + 1) * n, n)

LEMMA RemoveMemory ==
    ASSUME NEW v \in Memory, NEW c \in Nat, NEW n \in Nat, c * n <= Len(v),
           NEW pos \in Nat, pos < c,
           NEW w, w = Memmove(v, pos * n, (pos + 1) * n, (c - 1 - pos) * n)
    PROVE  /\ ValueRemoved(w, v, c, n, pos)
           /\ ~Outside(v, pos * n, (c - pos) * n)
<1>1. PICK x \in Nat, d \in Nat, l \in Nat :
          x = c * n /\ d = pos * n /\ l = (c - 1 - pos) * n
  <2>1. c - 1 - pos \in Nat
    OBVIOUS
  <2>2. c * n \in Nat /\ pos * n \in Nat /\ (c - 1 - pos) * n \in Nat
    BY <2>1, Product
  <2> QED
    BY <2>2
<1>2. PICK o \in Nat : o = d + n
  OBVIOUS
<1>3. (pos + 1) * n = o /\ x = o + l /\ (c - pos) * n = n + l
  <2>1. PICK e \in Nat : e = c - 1 - pos /\ c = (pos + 1) + e /\ c - pos = e + 1
    <3>1. c - 1 - pos \in Nat /\ c = (pos + 1) + (c - 1 - pos) /\ c - pos = (c - 1 - pos) + 1
      OBVIOUS
    <3> QED
      BY <3>1
  <2>2. (pos + 1) * n = pos * n + n /\ (e + 1) * n = e * n + n
    BY Product
  <2>3. ((pos + 1) + e) * n = (pos + 1) * n + e * n
    OBVIOUS
  <2> QED
    BY <1>1, <1>2, <2>1, <2>2, <2>3
<1>4. x <= Len(v) /\ Len(v) \in Nat
  BY <1>1, MemoryFacts
<1>5. o + l <= Len(v) /\ d + l <= Len(v)
  BY <1>2, <1>3, <1>4
<1>6. w = Memmove(v, d, o, l)
  BY <1>1, <1>3
<1>7. Moved(w, v, d, o, l)
  BY <1>5, <1>6, MovedMemory
<1>8. w \in Memory /\ Len(w) = Len(v)
  BY <1>7 DEF Moved
<1>9. ~Outside(v, d, n + l)
  BY <1>2, <1>3, <1>4 DEF Outside
<1>10. ASSUME NEW k \in Nat, k < pos PROVE Fetch(w, k * n, n) = Fetch(v, k * n, n)
  <2>1. k * n \in Nat /\ k * n + n <= d
    BY <1>1, <1>10, BlocksApart
  <2>2. PICK y \in Nat : y = k * n
    BY <2>1
  <2>3. y + n <= Len(v) /\ y + n <= d
    BY <1>2, <1>3, <1>4, <2>1, <2>2
  <2>4. Fetch(w, y, n) = Fetch(v, y, n)
    BY <1>7, <2>3 DEF Moved
  <2> QED
    BY <2>2, <2>4
<1>11. ASSUME NEW k \in Nat, pos <= k, k < c - 1
       PROVE  Fetch(w, k * n, n) = Fetch(v, (k + 1) * n, n)
  <2>1. k * n \in Nat /\ d <= k * n /\ (k + 1) * n = k * n + n
    BY <1>1, <1>11, ProductMonotonic, Product
  <2>2. k + 1 \in Nat /\ k + 1 < c
    BY <1>11
  <2>3. (k + 1) * n + n <= x
    BY <1>1, <2>2, BlocksApart
  <2>4. PICK y \in Nat : y = k * n
    BY <2>1
  <2>5. PICK i \in Nat : y = d + i
    <3>1. y - d \in Nat /\ y = d + (y - d)
      BY <2>1, <2>4
    <3> QED
      BY <3>1
  <2>6. i + n <= l /\ o + i = y + n
    BY <1>2, <1>3, <2>1, <2>3, <2>4, <2>5
  <2>7. Fetch(w, d + i, n) = Fetch(v, o + i, n)
    BY <1>7, <2>6 DEF Moved
  <2> QED
    BY <2>1, <2>4, <2>5, <2>6, <2>7
<1> QED
  BY <1>1, <1>3, <1>8, <1>9, <1>10, <1>11 DEF ValueRemoved

(* array_set past the end: the values before pos that were never set are   *)
(* zeros.                                                                  *)
Zeroed(n) == [m \in 1..n |-> Zero]

(* w is the first x bytes of v, zeros up to o, and bytes.                  *)
Grown(w, v, n, x, o, bytes) ==
    /\ w \in Memory /\ Len(w) = o + n
    /\ Fetch(w, o, n) = bytes
    /\ \A y \in Nat : y + n <= x => Fetch(w, y, n) = Fetch(v, y, n)
    /\ \A y \in Nat : x <= y /\ y + n <= o => Fetch(w, y, n) = Zeroed(n)

LEMMA GrowBytes ==
    ASSUME NEW v \in Memory, NEW n \in Nat, NEW x \in Nat, NEW o \in Nat,
           x <= o, x <= Len(v), NEW bytes \in [1..n -> Contents],
           NEW w, w = Store(Store(Realloc(v, o + n), x, Zeroed(o - x)), o, bytes)
    PROVE  Grown(w, v, n, x, o, bytes)
<1>1. PICK l \in Nat : l = o - x /\ o = x + l
  <2>1. o - x \in Nat /\ o = x + (o - x)
    OBVIOUS
  <2> QED
    BY <2>1
<1>2. PICK p : p = Realloc(v, o + n)
  OBVIOUS
<1>3. p \in Memory /\ Len(p) = o + n
  <2>1. o + n \in Nat
    OBVIOUS
  <2> QED
    BY <1>2, <2>1, ReallocFacts
<1>4. PICK q : q = Store(p, x, Zeroed(l))
  OBVIOUS
<1>5. Zeroed(l) \in [1..l -> Contents] /\ Zeroed(n) \in [1..n -> Contents]
  BY DataAssumption DEF Zeroed, Contents
<1>6. /\ q \in Memory /\ Len(q) = Len(p)
      /\ \A k \in 1..Len(p) : k - x \in 1..l => q[k] = Zeroed(l)[k - x]
  <2>1. /\ Store(p, x, Zeroed(l)) \in Memory /\ Len(Store(p, x, Zeroed(l))) = Len(p)
        /\ \A k \in 1..Len(p) : k - x \in 1..l => Store(p, x, Zeroed(l))[k] = Zeroed(l)[k - x]
    BY <1>3, <1>5, StoreFacts
  <2> QED
    BY <1>4, <2>1
<1>7. w = Store(q, o, bytes)
  BY <1>1, <1>2, <1>4
<1>8. w \in Memory /\ Len(w) = o + n
  BY <1>3, <1>6, <1>7, StoreFacts
<1>9. Fetch(w, o, n) = bytes
  <2>1. o + n <= Len(q)
    BY <1>3, <1>6
  <2> QED
    BY <1>6, <1>7, <2>1, StoredValue
<1>10. ASSUME NEW y \in Nat, y + n <= o PROVE Fetch(w, y, n) = Fetch(q, y, n)
  <2>1. y + n <= Len(q)
    BY <1>3, <1>6, <1>10
  <2> QED
    BY <1>6, <1>7, <1>10, <2>1, StoredElsewhere
<1>11. ASSUME NEW y \in Nat, y + n <= x PROVE Fetch(w, y, n) = Fetch(v, y, n)
  <2>1. y + n <= o /\ y + n <= Len(p) /\ y + n <= Len(v) /\ y + n <= o + n /\ o + n \in Nat
    BY <1>1, <1>3, <1>11, MemoryFacts
  <2>2. Fetch(w, y, n) = Fetch(q, y, n)
    BY <1>10, <2>1
  <2>3. Fetch(Store(p, x, Zeroed(l)), y, n) = Fetch(p, y, n)
    BY <1>3, <1>5, <1>11, <2>1, StoredElsewhere
  <2>4. Fetch(Realloc(v, o + n), y, n) = Fetch(v, y, n)
    BY <2>1, Reallocated
  <2> QED
    BY <1>2, <1>4, <2>2, <2>3, <2>4
<1>12. ASSUME NEW y \in Nat, x <= y, y + n <= o PROVE Fetch(w, y, n) = Zeroed(n)
  <2>1. ASSUME NEW m \in 1..n PROVE q[y + m] = Zeroed(n)[m]
    <3>1. y + m \in 1..Len(p) /\ (y + m) - x \in 1..l
      BY <1>1, <1>3, <1>12
    <3>2. q[y + m] = Zeroed(l)[(y + m) - x]
      BY <1>6, <3>1
    <3>3. Zeroed(l)[(y + m) - x] = Zero /\ Zeroed(n)[m] = Zero
      BY <3>1 DEF Zeroed
    <3> QED
      BY <3>2, <3>3
  <2>2. y + n <= Len(q)
    BY <1>3, <1>6, <1>12
  <2>3. Fetch(q, y, n) = Zeroed(n)
    BY <1>5, <1>6, <2>1, <2>2, FetchIs
  <2> QED
    BY <1>10, <1>12, <2>3
<1> QED
  BY <1>8, <1>9, <1>11, <1>12 DEF Grown
----------------------------------------------------------------------------
(* What each function does to the values of array r.                       *)

(* Array r once it has count values, in memory value.                      *)
With(r, count, value) == [r EXCEPT !.count = count, !.value = value]

LEMMA WithFacts ==
    ASSUME NEW r \in Block, NEW count \in 0..MaxCount, NEW value \in Memory,
           count * r.size <= Len(value)
    PROVE  /\ With(r, count, value) \in Block /\ Roomy(With(r, count, value))
           /\ With(r, count, value).count = count /\ With(r, count, value).size = r.size
           /\ With(r, count, value).value = value
  BY DEF With, Block, Roomy

(* The values, from what is fetched.                                       *)
LEMMA ValuesAre ==
    ASSUME NEW r \in Block, NEW s \in Seq(Memory), Len(s) = r.count,
           \A k \in Nat : k < r.count => Fetch(r.value, k * r.size, r.size) = s[k + 1]
    PROVE  ValuesIn(r) = s
<1>1. /\ ValuesIn(r) \in Seq(Memory) /\ Len(ValuesIn(r)) = r.count
      /\ \A k \in Nat : k < r.count => ValuesIn(r)[k + 1] = ValueAt(r, k)
  BY ValuesFacts
<1>2. r.count \in Nat
  BY BlockFacts
<1>3. ASSUME NEW k \in 1..r.count PROVE ValuesIn(r)[k] = s[k]
  <2>1. k - 1 \in Nat /\ k - 1 < r.count /\ (k - 1) + 1 = k
    BY <1>2
  <2>2. ValuesIn(r)[(k - 1) + 1] = s[(k - 1) + 1]
    BY <1>1, <2>1 DEF ValueAt
  <2> QED
    BY <2>1, <2>2
<1> QED
  BY <1>1, <1>3, SeqEqual

LEMMA ValuesFetched ==
    ASSUME NEW r \in Block
    PROVE  /\ ValuesIn(r) \in Seq(Memory) /\ Len(ValuesIn(r)) = r.count /\ r.count \in Nat
           /\ \A k \in Nat : k < r.count =>
                  Fetch(r.value, k * r.size, r.size) = ValuesIn(r)[k + 1]
  BY ValuesFacts, BlockFacts DEF ValueAt

LEMMA ValueIsMemory ==
    ASSUME NEW r \in Block, NEW bytes \in [1..r.size -> Contents]
    PROVE  bytes \in Memory
  BY BlockFacts, IsMemory

LEMMA SetWithinValues ==
    ASSUME NEW r \in Block, Roomy(r), NEW bytes \in [1..r.size -> Contents],
           NEW pos \in Nat, pos < r.count,
           NEW q, q = With(r, r.count, Store(r.value, pos * r.size, bytes))
    PROVE  /\ q \in Block /\ Roomy(q) /\ q.size = r.size
           /\ ~Outside(r.value, pos * r.size, r.size)
           /\ ValuesIn(q) = [ValuesIn(r) EXCEPT ![pos + 1] = bytes]
<1>1. PICK v \in Memory, n \in Nat, c \in 0..MaxCount :
          v = r.value /\ n = r.size /\ c = r.count /\ c \in Nat
  BY BlockFacts
<1>2. PICK w : w = Store(v, pos * n, bytes)
  OBVIOUS
<1>3. /\ ~Outside(v, pos * n, n)
      /\ w \in Memory /\ Len(w) = Len(v)
      /\ Fetch(w, pos * n, n) = bytes
      /\ \A k \in Nat : k < c /\ k # pos => Fetch(w, k * n, n) = Fetch(v, k * n, n)
  <2>1. c * n <= Len(v) /\ pos < c /\ bytes \in [1..n -> Contents]
    BY <1>1 DEF Roomy
  <2>2. ValueSet(w, v, c, n, pos, bytes) /\ ~Outside(v, pos * n, n)
    BY <1>1, <1>2, <2>1, SetMemory
  <2> QED
    BY <2>2 DEF ValueSet
<1>4. q = With(r, c, w)
  BY <1>1, <1>2
<1>5. /\ q \in Block /\ Roomy(q) /\ q.count = c /\ q.size = n /\ q.value = w
  <2>1. c * r.size <= Len(w)
    BY <1>1, <1>3 DEF Roomy
  <2> QED
    BY <1>1, <1>3, <1>4, <2>1, WithFacts
<1> DEFINE s == [ValuesIn(r) EXCEPT ![pos + 1] = bytes]
<1>6. /\ ValuesIn(r) \in Seq(Memory) /\ Len(ValuesIn(r)) = c
      /\ \A k \in Nat : k < c => Fetch(v, k * n, n) = ValuesIn(r)[k + 1]
  BY <1>1, ValuesFetched
<1>7. pos + 1 \in 1..Len(ValuesIn(r)) /\ bytes \in Memory
  BY <1>1, <1>6, ValueIsMemory
<1>8. /\ s \in Seq(Memory) /\ Len(s) = c
      /\ \A k \in 1..c : s[k] = IF k = pos + 1 THEN bytes ELSE ValuesIn(r)[k]
  BY <1>6, <1>7, ExceptSeq
<1> HIDE DEF s
<1>9. ASSUME NEW k \in Nat, k < c PROVE Fetch(w, k * n, n) = s[k + 1]
  <2>1. k + 1 \in 1..c /\ (k + 1 = pos + 1 <=> k = pos)
    BY <1>1, <1>9
  <2>2. CASE k = pos
    BY <1>3, <1>8, <2>1, <2>2
  <2>3. CASE k # pos
    BY <1>3, <1>6, <1>8, <1>9, <2>1, <2>3
  <2> QED
    BY <2>2, <2>3
<1>10. ValuesIn(q) = s
  BY <1>5, <1>8, <1>9, ValuesAre
<1> QED
  BY <1>1, <1>3, <1>5, <1>10 DEF s

(* What lies between the last value and the one set past it.              *)
Gap(d, n) == [k \in 1..d |-> Zeroed(n)]

SetBeyondArray(r, pos, bytes) ==
    With(r, pos + 1,
         Store(Store(Realloc(r.value, pos * r.size + r.size),
                     Times(r.count, r.size),
                     [k \in 1..(pos * r.size - Times(r.count, r.size)) |-> Zero]),
               pos * r.size, bytes))

LEMMA SetBeyondValues ==
    ASSUME NEW r \in Block, Roomy(r), NEW bytes \in [1..r.size -> Contents],
           NEW pos \in Nat, r.count <= pos, pos < MaxCount,
           NEW q, q = SetBeyondArray(r, pos, bytes)
    PROVE  /\ q \in Block /\ Roomy(q) /\ q.size = r.size
           /\ ValuesIn(q) = (ValuesIn(r) \o Gap(pos - r.count, r.size)) \o <<bytes>>
<1>1. PICK v \in Memory, n \in Nat, c \in 0..MaxCount :
          v = r.value /\ n = r.size /\ c = r.count /\ c \in Nat
  BY BlockFacts
<1>2. PICK x \in Nat, o \in Nat : x = c * n /\ o = pos * n /\ x <= o
  <2>1. c * n \in Nat /\ pos * n \in Nat /\ c * n <= pos * n
    BY <1>1, Product, ProductMonotonic
  <2> QED
    BY <2>1
<1>3. Times(c, n) = x /\ x <= Len(v) /\ bytes \in [1..n -> Contents]
  <2>1. n \in Sizes
    BY <1>1, BlockFacts
  <2> QED
    BY <1>1, <1>2, <2>1, TimesExact DEF Roomy
<1>4. PICK w : w = Store(Store(Realloc(v, o + n), x, Zeroed(o - x)), o, bytes)
  OBVIOUS
<1>5. q = With(r, pos + 1, w)
  BY <1>1, <1>2, <1>3, <1>4 DEF Zeroed, SetBeyondArray
<1>6. /\ w \in Memory /\ Len(w) = o + n
      /\ Fetch(w, o, n) = bytes
      /\ \A y \in Nat : y + n <= x => Fetch(w, y, n) = Fetch(v, y, n)
      /\ \A y \in Nat : x <= y /\ y + n <= o => Fetch(w, y, n) = Zeroed(n)
  <2>1. Grown(w, v, n, x, o, bytes)
    BY <1>2, <1>3, <1>4, GrowBytes
  <2> QED
    BY <2>1 DEF Grown
<1>7. /\ q \in Block /\ Roomy(q) /\ q.count = pos + 1 /\ q.size = n /\ q.value = w
  <2>1. pos + 1 \in 0..MaxCount
    BY CountAssumption
  <2>2. (pos + 1) * n = o + n
    BY <1>2, Product
  <2>3. w \in Memory /\ (pos + 1) * r.size <= Len(w)
    BY <1>1, <1>2, <1>6, <2>2
  <2>4. /\ With(r, pos + 1, w) \in Block /\ Roomy(With(r, pos + 1, w))
        /\ With(r, pos + 1, w).count = pos + 1 /\ With(r, pos + 1, w).size = r.size
        /\ With(r, pos + 1, w).value = w
    BY <2>1, <2>3, WithFacts
  <2> QED
    BY <1>1, <1>5, <2>4
<1>8. /\ ValuesIn(r) \in Seq(Memory) /\ Len(ValuesIn(r)) = c
      /\ \A k \in Nat : k < c => Fetch(v, k * n, n) = ValuesIn(r)[k + 1]
  BY <1>1, ValuesFetched
<1> DEFINE gap == Gap(pos - c, n)
           s == (ValuesIn(r) \o gap) \o <<bytes>>
<1>9. Zeroed(n) \in Memory /\ bytes \in Memory
  <2>1. Zeroed(n) \in [1..n -> Contents]
    BY DataAssumption DEF Zeroed, Contents
  <2> QED
    BY <1>3, <2>1, IsMemory
<1>10. gap \in Seq(Memory) /\ Len(gap) = pos - c /\ \A k \in 1..(pos - c) : gap[k] = Zeroed(n)
  <2>1. pos - c \in Nat
    BY <1>1
  <2>2. gap \in [1..(pos - c) -> Memory]
    BY <1>9 DEF Gap
  <2> HIDE DEF gap
  <2>3. gap \in Seq(Memory)
    BY <2>1, <2>2
  <2>4. Len(gap) = pos - c
    BY <2>1, <2>2, <2>3, LenProperties
  <2> QED
    BY <2>3, <2>4 DEF gap, Gap
<1> HIDE DEF gap
<1>11. PICK t : t = ValuesIn(r) \o gap
  OBVIOUS
<1>12. /\ t \in Seq(Memory) /\ Len(t) = pos
       /\ \A k \in 1..pos : t[k] = IF k <= c THEN ValuesIn(r)[k] ELSE gap[k - c]
  <2>1. Len(ValuesIn(r)) + Len(gap) = pos
    BY <1>1, <1>8, <1>10
  <2> QED
    BY <1>8, <1>10, <1>11, <2>1, ConcatProperties
<1>13. /\ Append(t, bytes) \in Seq(Memory) /\ Append(t, bytes) = s
       /\ Len(Append(t, bytes)) = pos + 1
       /\ \A k \in 1..pos : Append(t, bytes)[k] = t[k]
       /\ Append(t, bytes)[pos + 1] = bytes
  <2>1. Append(t, bytes) = t \o <<bytes>>
    BY <1>9, <1>12, AppendIsConcat
  <2>2. Append(t, bytes) = s
    BY <1>11, <2>1
  <2> HIDE DEF s
  <2>3. /\ Append(t, bytes) \in Seq(Memory) /\ Len(Append(t, bytes)) = Len(t) + 1
        /\ \A k \in 1..Len(t) : Append(t, bytes)[k] = t[k]
        /\ Append(t, bytes)[Len(t) + 1] = bytes
    BY <1>9, <1>12, AppendProperties
  <2> QED
    BY <1>12, <2>2, <2>3
<1> HIDE DEF s
<1>14. ASSUME NEW k \in Nat, k < pos + 1 PROVE Fetch(w, k * n, n) = s[k + 1]
  <2>1. CASE k < c
    <3>1. k * n \in Nat /\ k * n + n <= x
      BY <1>1, <1>2, <2>1, BlocksApart
    <3>2. k + 1 \in 1..pos /\ k + 1 <= c
      BY <1>1, <2>1
    <3>3. s[k + 1] = ValuesIn(r)[k + 1]
      BY <1>12, <1>13, <3>2
    <3> QED
      BY <1>6, <1>8, <2>1, <3>1, <3>3
  <2>2. CASE c <= k /\ k < pos
    <3>1. k * n \in Nat /\ k * n + n <= o
      BY <1>1, <1>2, <2>2, BlocksApart
    <3>2. x <= k * n
      BY <1>1, <1>2, <2>2, ProductMonotonic
    <3>3. k + 1 \in 1..pos /\ ~(k + 1 <= c) /\ (k + 1) - c \in 1..(pos - c)
      BY <1>1, <2>2
    <3>4. s[k + 1] = Zeroed(n)
      BY <1>10, <1>12, <1>13, <3>3
    <3> QED
      BY <1>6, <3>1, <3>2, <3>4
  <2>3. CASE k = pos
    BY <1>2, <1>6, <1>13, <2>3
  <2> QED
    BY <1>1, <1>14, <2>1, <2>2, <2>3
<1>15. s \in Seq(Memory) /\ Len(s) = q.count
  BY <1>7, <1>13
<1>16. ValuesIn(q) = s
  BY <1>7, <1>14, <1>15, ValuesAre
<1> QED
  BY <1>1, <1>7, <1>16 DEF s, gap

LEMMA AppendValues ==
    ASSUME NEW r \in Block, Roomy(r), NEW bytes \in [1..r.size -> Contents],
           r.count < MaxCount,
           NEW q, q = With(r, r.count + 1,
                           Store(Realloc(r.value, Times(r.size, r.count) + r.size),
                                 Times(r.size, r.count), bytes))
    PROVE  /\ q \in Block /\ Roomy(q) /\ q.size = r.size /\ q.count = r.count + 1
           /\ ValuesIn(q) = Append(ValuesIn(r), bytes)
<1>1. PICK v \in Memory, n \in Nat, c \in 0..MaxCount :
          v = r.value /\ n = r.size /\ c = r.count /\ c \in Nat
  BY BlockFacts
<1>2. Times(n, c) = c * n /\ c * n <= Len(v) /\ bytes \in [1..n -> Contents]
  <2>1. n \in Sizes
    BY <1>1, BlockFacts
  <2> QED
    BY <1>1, <2>1, TimesExact DEF Roomy
<1>3. PICK w : w = Store(Realloc(v, c * n + n), c * n, bytes)
  OBVIOUS
<1>4. q = With(r, c + 1, w)
  BY <1>1, <1>2, <1>3
<1>5. /\ w \in Memory /\ Len(w) = (c + 1) * n
      /\ Fetch(w, c * n, n) = bytes
      /\ \A k \in Nat : k < c => Fetch(w, k * n, n) = Fetch(v, k * n, n)
  <2>1. ValueAppended(w, v, c, n, bytes)
    BY <1>1, <1>2, <1>3, AppendMemory
  <2> QED
    BY <2>1 DEF ValueAppended
<1>6. /\ q \in Block /\ Roomy(q) /\ q.count = c + 1 /\ q.size = n /\ q.value = w
  <2>1. c + 1 \in 0..MaxCount
    BY <1>1, CountAssumption
  <2>2. (c + 1) * r.size <= Len(w)
    <3>1. (c + 1) * n \in Nat
      BY <1>1, Product
    <3> QED
      BY <1>1, <1>5, <3>1
  <2> QED
    BY <1>1, <1>4, <1>5, <2>1, <2>2, WithFacts
<1>7. PICK s : s = Append(ValuesIn(r), bytes)
  OBVIOUS
<1>8. /\ ValuesIn(r) \in Seq(Memory) /\ Len(ValuesIn(r)) = c
      /\ \A k \in Nat : k < c => Fetch(v, k * n, n) = ValuesIn(r)[k + 1]
  BY <1>1, ValuesFetched
<1>9. /\ s \in Seq(Memory) /\ Len(s) = c + 1
      /\ \A k \in 1..c : s[k] = ValuesIn(r)[k]
      /\ s[c + 1] = bytes
  <2>1. bytes \in Memory
    BY ValueIsMemory
  <2> QED
    BY <1>7, <1>8, <2>1, AppendProperties
<1>10. ASSUME NEW k \in Nat, k < c + 1 PROVE Fetch(w, k * n, n) = s[k + 1]
  <2>1. CASE k < c
    <3>1. k + 1 \in 1..c
      BY <1>1, <2>1
    <3> QED
      BY <1>5, <1>8, <1>9, <2>1, <3>1
  <2>2. CASE k = c
    BY <1>5, <1>9, <2>2
  <2> QED
    BY <1>1, <1>10, <2>1, <2>2
<1>11. ValuesIn(q) = s
  BY <1>6, <1>9, <1>10, ValuesAre
<1> QED
  BY <1>1, <1>6, <1>7, <1>11

RoomOf(r) == Realloc(r.value, Times(r.size, r.count + 1))
RestOf(r, pos) == Fetch(RoomOf(r), r.size * pos, r.size * (r.count - pos))
InsertArray(r, pos, bytes) ==
    With(r, r.count + 1,
         Store(Store(RoomOf(r), r.size * pos + r.size, RestOf(r, pos)), r.size * pos, bytes))

LEMMA InsertValues ==
    ASSUME NEW r \in Block, Roomy(r), NEW bytes \in [1..r.size -> Contents],
           r.count < MaxCount, NEW pos \in Nat, pos <= r.count,
           NEW q, q = InsertArray(r, pos, bytes)
    PROVE  /\ q \in Block /\ Roomy(q) /\ q.size = r.size
           /\ ~Outside(RoomOf(r), r.size * pos, Len(RestOf(r, pos)) + r.size)
           /\ ValuesIn(q) = InsertAt(ValuesIn(r), pos + 1, bytes)
<1>1. PICK v \in Memory, n \in Nat, c \in 0..MaxCount :
          v = r.value /\ n = r.size /\ c = r.count /\ c \in Nat
  BY BlockFacts
<1>2. /\ Times(n, c + 1) = c * n + n /\ n * pos = pos * n
      /\ c * n <= Len(v) /\ bytes \in [1..n -> Contents] /\ pos <= c
  <2>1. n \in Sizes /\ c + 1 \in 0..MaxCount
    BY <1>1, BlockFacts, CountAssumption
  <2>2. Times(n, c + 1) = (c + 1) * n
    BY <2>1, TimesExact
  <2>3. (c + 1) * n = c * n + n /\ n * pos = pos * n
    BY <1>1, Product
  <2> QED
    BY <1>1, <2>2, <2>3 DEF Roomy
<1>3. PICK w : w = InsertMem(v, c, n, pos, bytes)
  OBVIOUS
<1>4. /\ RoomOf(r) = InsertRoom(v, c, n) /\ RestOf(r, pos) = InsertRest(v, c, n, pos)
      /\ q = With(r, c + 1, w)
  BY <1>1, <1>2, <1>3 DEF InsertArray, InsertRoom, InsertRest, RoomOf, RestOf, InsertMem
<1>a. ValueInserted(w, v, c, n, pos, bytes)
      /\ ~Outside(RoomOf(r), pos * n, Len(RestOf(r, pos)) + n)
  BY <1>1, <1>2, <1>3, <1>4, InsertMemory
<1>b. w \in Memory /\ Len(w) = (c + 1) * n
  BY <1>a DEF ValueInserted
<1>5. /\ Fetch(w, pos * n, n) = bytes
      /\ \A k \in Nat : k < pos => Fetch(w, k * n, n) = Fetch(v, k * n, n)
      /\ \A k \in Nat : pos <= k /\ k < c => Fetch(w, (k + 1) * n, n) = Fetch(v, k * n, n)
  BY <1>a DEF ValueInserted
<1>6. /\ q \in Block /\ Roomy(q) /\ q.count = c + 1 /\ q.size = n /\ q.value = w
  <2>1. c + 1 \in 0..MaxCount
    BY <1>1, CountAssumption
  <2>2. (c + 1) * r.size <= Len(w)
    <3>1. (c + 1) * n \in Nat
      BY <1>1, Product
    <3> QED
      BY <1>1, <1>b, <3>1
  <2>3. PICK d \in 0..MaxCount : d = c + 1
    BY <2>1
  <2>4. d * r.size <= Len(w) /\ q = With(r, d, w)
    BY <1>4, <2>2, <2>3
  <2>5. /\ q \in Block /\ Roomy(q) /\ q.count = d /\ q.size = r.size /\ q.value = w
    BY <1>b, <2>4, WithFacts
  <2> QED
    BY <1>1, <2>3, <2>5
<1>7. PICK s : s = InsertAt(ValuesIn(r), pos + 1, bytes)
  OBVIOUS
<1>c. ValuesIn(r) \in Seq(Memory) /\ Len(ValuesIn(r)) = c
  BY <1>1, ValuesFetched
<1>8. /\ \A k \in Nat : k < c => Fetch(v, k * n, n) = ValuesIn(r)[k + 1]
  BY <1>1, ValuesFetched
<1>9. /\ s \in Seq(Memory) /\ Len(s) = c + 1
      /\ \A k \in 1..(c + 1) : s[k] = IF k < pos + 1 THEN ValuesIn(r)[k]
                                      ELSE IF k = pos + 1 THEN bytes ELSE ValuesIn(r)[k - 1]
  <2>1. bytes \in Memory
    BY ValueIsMemory
  <2>2. pos + 1 \in 1..(Len(ValuesIn(r)) + 1)
    BY <1>1, <1>2, <1>c
  <2>3. PICK b, i : b = ValuesIn(r) /\ i = pos + 1
    OBVIOUS
  <2>4. /\ InsertAt(b, i, bytes) \in Seq(Memory) /\ Len(InsertAt(b, i, bytes)) = Len(b) + 1
        /\ \A k \in 1..(Len(b) + 1) : InsertAt(b, i, bytes)[k] =
               IF k < i THEN b[k] ELSE IF k = i THEN bytes ELSE b[k - 1]
    <3>1. b \in Seq(Memory) /\ i \in 1..(Len(b) + 1)
      BY <1>c, <2>2, <2>3, Zenon
    <3>2. InsertAt(b, i, bytes) \in Seq(Memory) /\ Len(InsertAt(b, i, bytes)) = Len(b) + 1
      BY <2>1, <3>1, InsertAtProperties
    <3>3. ASSUME NEW k \in 1..(Len(b) + 1)
          PROVE  InsertAt(b, i, bytes)[k] =
                     IF k < i THEN b[k] ELSE IF k = i THEN bytes ELSE b[k - 1]
      BY <2>1, <3>1, InsertAtProperties
    <3> QED
      BY <3>2, <3>3
  <2>5. s = InsertAt(b, i, bytes) /\ Len(b) = c
    BY <1>7, <1>c, <2>3
  <2> QED
    BY <2>3, <2>4, <2>5
<1>10. ASSUME NEW k \in Nat, k < c + 1 PROVE Fetch(w, k * n, n) = s[k + 1]
  <2>1. CASE k < pos
    <3>1. k + 1 \in 1..(c + 1) /\ k + 1 < pos + 1 /\ k < c
      BY <1>1, <1>2, <2>1
    <3> QED
      BY <1>5, <1>8, <1>9, <2>1, <3>1
  <2>2. CASE k = pos
    <3>1. pos + 1 \in 1..(c + 1) /\ ~(pos + 1 < pos + 1)
      BY <1>1, <1>2
    <3> QED
      BY <1>5, <1>9, <2>2, <3>1
  <2>3. CASE k > pos
    <3>1. PICK j \in Nat : k = j + 1
      <4>1. k - 1 \in Nat /\ k = (k - 1) + 1
        BY <2>3
      <4> QED
        BY <4>1
    <3>2. pos <= j /\ j < c /\ k + 1 \in 1..(c + 1) /\ ~(k + 1 < pos + 1) /\ k + 1 # pos + 1
          /\ (k + 1) - 1 = j + 1
      BY <1>1, <1>10, <2>3, <3>1
    <3>3. Fetch(w, k * n, n) = ValuesIn(r)[j + 1]
      BY <1>5, <1>8, <3>1, <3>2
    <3>4. s[k + 1] = ValuesIn(r)[j + 1]
      BY <1>9, <3>2
    <3> QED
      BY <3>3, <3>4
  <2>4. k < pos \/ k = pos \/ k > pos
    OBVIOUS
  <2> QED
    BY <2>1, <2>2, <2>3, <2>4, Zenon
<1>11. ValuesIn(q) = s
  BY <1>6, <1>9, <1>10, ValuesAre
<1> QED
  BY <1>1, <1>2, <1>6, <1>7, <1>11, <1>a
LEMMA RemoveValues ==
    ASSUME NEW r \in Block, Roomy(r), NEW pos \in Nat, pos < r.count, NEW shrinks \in BOOLEAN,
           NEW q, q = RemovedAt(r, pos, shrinks)
    PROVE  /\ q \in Block /\ Roomy(q) /\ q.size = r.size
           /\ ~Outside(r.value, pos * r.size, (r.count - pos) * r.size)
           /\ ValuesIn(q) = RemoveAt(ValuesIn(r), pos + 1)
<1>1. PICK v \in Memory, n \in Nat, c \in 0..MaxCount :
          v = r.value /\ n = r.size /\ c = r.count /\ c \in Nat
  BY BlockFacts
<1>2. PICK w : w = Memmove(v, pos * n, (pos + 1) * n, (c - 1 - pos) * n)
  OBVIOUS
<1>3. PICK d \in Nat : d = c - 1 /\ c = d + 1
  <2>1. c - 1 \in Nat /\ c = (c - 1) + 1
    BY <1>1
  <2> QED
    BY <2>1
<1>4. c * n <= Len(v) /\ pos < c /\ Times(n, d) = d * n /\ d * n \in Nat /\ d * n <= c * n
  <2>1. n \in Sizes /\ d \in 0..MaxCount
    BY <1>1, <1>3, BlockFacts, CountAssumption
  <2>2. Times(n, d) = d * n
    BY <2>1, TimesExact
  <2>3. d * n \in Nat /\ d * n <= c * n
    <3>1. d <= c
      BY <1>3
    <3> QED
      BY <1>1, <3>1, Product, ProductMonotonic
  <2> QED
    BY <1>1, <2>2, <2>3 DEF Roomy
<1>5. ValueRemoved(w, v, c, n, pos) /\ ~Outside(v, pos * n, (c - pos) * n)
  BY <1>1, <1>2, <1>4, RemoveMemory
<1>6. w \in Memory /\ Len(w) = Len(v)
  BY <1>5 DEF ValueRemoved
<1>7. PICK u : u = IF shrinks THEN Realloc(w, d * n) ELSE w
  OBVIOUS
<1>8. q = With(r, d, u)
  <2>1. q = With(r, r.count - 1, IF shrinks THEN Realloc(w, Times(r.size, r.count - 1)) ELSE w)
    BY <1>1, <1>2 DEF RemovedAt, With, Memmove, Block
  <2> QED
    BY <1>1, <1>3, <1>4, <1>7, <2>1
<1>9. u \in Memory /\ d * n <= Len(u)
  <2>1. Realloc(w, d * n) \in Memory /\ Len(Realloc(w, d * n)) = d * n
    BY <1>4, <1>6, ReallocFacts
  <2>2. d * n <= Len(w)
    <3>1. PICK x, y : x = d * n /\ y = c * n
      OBVIOUS
    <3>2. x \in Nat /\ y \in Nat /\ x <= y /\ y <= Len(w) /\ Len(w) \in Nat
      BY <1>1, <1>4, <1>6, <3>1, Product, MemoryFacts
    <3>3. x <= Len(w)
      BY <3>2
    <3> QED
      BY <3>1, <3>3
  <2>3. d * n <= d * n
    BY <1>4
  <2> QED
    BY <1>6, <1>7, <2>1, <2>2, <2>3
<1>10. /\ q \in Block /\ Roomy(q) /\ q.count = d /\ q.size = n /\ q.value = u
  <2>1. d \in 0..MaxCount
    <3>1. MaxCount \in Nat /\ c <= MaxCount
      BY <1>1, CountAssumption
    <3> QED
      BY <1>3, <3>1
  <2>2. d * r.size <= Len(u)
    BY <1>1, <1>9
  <2>3. /\ q \in Block /\ Roomy(q) /\ q.count = d /\ q.size = r.size /\ q.value = u
    BY <1>8, <1>9, <2>1, <2>2, WithFacts
  <2> QED
    BY <1>1, <2>3
<1>11. ASSUME NEW k \in Nat, k < d PROVE Fetch(u, k * n, n) = Fetch(w, k * n, n)
  <2>1. k * n \in Nat /\ k * n + n <= d * n
    BY <1>11, BlocksApart
  <2>2. PICK x, y : x = d * n /\ y = k * n
    OBVIOUS
  <2>3. x \in Nat /\ y \in Nat /\ y + n <= x /\ x <= Len(u) /\ Len(u) \in Nat
    BY <1>4, <1>9, <2>1, <2>2, MemoryFacts
  <2>4. CASE shrinks
    <3>1. u = Realloc(w, x)
      BY <1>7, <2>2, <2>4
    <3>2. y + n <= Len(w)
      <4>1. x <= Len(w)
        <5>1. PICK z : z = c * n
          OBVIOUS
        <5>2. z \in Nat /\ x <= z /\ z <= Len(w) /\ Len(w) \in Nat
          BY <1>1, <1>4, <1>6, <2>2, <5>1, Product, MemoryFacts
        <5> QED
          BY <2>3, <5>2
      <4>2. Len(w) \in Nat
        BY <1>6, MemoryFacts
      <4> QED
        BY <2>3, <4>1, <4>2
    <3>3. Fetch(Realloc(w, x), y, n) = Fetch(w, y, n)
      BY <1>6, <2>3, <3>2, Reallocated
    <3> QED
      BY <2>2, <3>1, <3>3
  <2>5. CASE ~shrinks
    BY <1>7, <2>5
  <2> QED
    BY <2>4, <2>5
<1>12. PICK b, i : b = ValuesIn(r) /\ i = pos + 1
  OBVIOUS
<1>13. b \in Seq(Memory) /\ Len(b) = c /\ i \in DOMAIN b
  <2>1. b \in Seq(Memory) /\ Len(b) = c /\ DOMAIN b = 1..c
    BY <1>1, <1>12, ValuesFacts
  <2>2. i \in 1..c
    BY <1>1, <1>4, <1>12
  <2> QED
    BY <2>1, <2>2
<1>14. /\ RemoveAt(b, i) \in Seq(Memory) /\ Len(RemoveAt(b, i)) = d
       /\ \A k \in 1..d : RemoveAt(b, i)[k] = IF k < i THEN b[k] ELSE b[k + 1]
  <2>1. d = Len(b) - 1
    BY <1>3, <1>13
  <2>2. RemoveAt(b, i) \in Seq(Memory) /\ Len(RemoveAt(b, i)) = Len(b) - 1
    BY <1>13, RemoveAtProperties
  <2>3. ASSUME NEW k \in 1..(Len(b) - 1)
        PROVE  RemoveAt(b, i)[k] = IF k < i THEN b[k] ELSE b[k + 1]
    BY <1>13, RemoveAtProperties
  <2> QED
    BY <2>1, <2>2, <2>3
<1>15. \A k \in Nat : k < c => Fetch(v, k * n, n) = b[k + 1]
  BY <1>1, <1>12, ValuesFetched
<1>16. ASSUME NEW k \in Nat, k < d PROVE Fetch(u, k * n, n) = RemoveAt(b, i)[k + 1]
  <2>1. k + 1 \in 1..d /\ k < c /\ k + 1 < c /\ (k + 1 < i <=> k < pos) /\ k + 1 \in Nat
    BY <1>3, <1>12, <1>16
  <2>2. RemoveAt(b, i)[k + 1] = IF k + 1 < i THEN b[k + 1] ELSE b[(k + 1) + 1]
    BY <1>14, <2>1
  <2>3. CASE k < pos
    <3>1. Fetch(w, k * n, n) = Fetch(v, k * n, n)
      BY <1>5, <2>3 DEF ValueRemoved
    <3> QED
      BY <1>11, <1>15, <1>16, <2>1, <2>2, <2>3, <3>1
  <2>4. CASE ~(k < pos)
    <3>1. pos <= k /\ k < c - 1
      BY <1>3, <1>16, <2>4
    <3>2. Fetch(w, k * n, n) = Fetch(v, (k + 1) * n, n)
      BY <1>5, <3>1 DEF ValueRemoved
    <3>3. Fetch(v, (k + 1) * n, n) = b[(k + 1) + 1]
      BY <1>15, <2>1
    <3> QED
      BY <1>11, <1>16, <2>1, <2>2, <2>4, <3>2, <3>3
  <2> QED
    BY <2>3, <2>4
<1>17. ValuesIn(q) = RemoveAt(b, i)
  BY <1>10, <1>14, <1>16, ValuesAre
<1> QED
  BY <1>1, <1>5, <1>10, <1>12, <1>17

(* array_copy takes the bytes of the values, and nothing more.             *)
LEMMA CopyValues ==
    ASSUME NEW r \in Block, Roomy(r),
           NEW l, l = Times(r.count, r.size),
           NEW q, q = [r EXCEPT !.value = Fetch(r.value, 0, l)]
    PROVE  /\ q \in Block /\ Roomy(q) /\ q.size = r.size
           /\ ~Outside(r.value, 0, l)
           /\ ValuesIn(q) = ValuesIn(r)
<1>1. PICK v \in Memory, n \in Nat, c \in 0..MaxCount :
          v = r.value /\ n = r.size /\ c = r.count /\ c \in Nat
  BY BlockFacts
<1>2. l = c * n /\ l \in Nat /\ l <= Len(v)
  <2>1. n \in Sizes
    BY <1>1, BlockFacts
  <2>2. l = c * n /\ c * n \in Nat
    BY <1>1, <2>1, TimesExact, Product
  <2>3. c * n <= Len(v)
    BY <1>1 DEF Roomy
  <2> QED
    BY <2>2, <2>3
<1>3. PICK w : w = Fetch(v, 0, l)
  OBVIOUS
<1>a. w \in Memory /\ Len(w) = l
  BY <1>2, <1>3, FetchFacts
<1>4. /\ w \in Memory /\ Len(w) = l
      /\ \A m \in 1..l : w[m] = v[m]
  <2>1. /\ w \in Memory /\ Len(w) = l
        /\ \A m \in 1..l : 0 + m <= Len(v) => w[m] = v[0 + m]
    BY <1>2, <1>3, FetchFacts
  <2>2. Len(v) \in Nat
    BY MemoryFacts
  <2>3. ASSUME NEW m \in 1..l PROVE w[m] = v[m]
    <3>1. 0 + m <= Len(v) /\ 0 + m = m
      BY <1>2, <2>2
    <3> QED
      BY <2>1, <3>1
  <2> QED
    BY <2>1, <2>3
<1>5. q = With(r, c, w)
  BY <1>1, <1>3 DEF With, Block
<1>6. /\ q \in Block /\ Roomy(q) /\ q.count = c /\ q.size = n /\ q.value = w
  <2>1. c * r.size <= Len(w)
    BY <1>1, <1>2, <1>a
  <2>2. /\ With(r, c, w) \in Block /\ Roomy(With(r, c, w))
        /\ With(r, c, w).count = c /\ With(r, c, w).size = r.size
        /\ With(r, c, w).value = w
    <3>1. w \in Memory
      BY <1>a
    <3> QED
      BY <2>1, <3>1, WithFacts
  <2> QED
    BY <1>1, <1>5, <2>2, Zenon
<1>7. /\ ValuesIn(r) \in Seq(Memory) /\ Len(ValuesIn(r)) = c
      /\ \A k \in Nat : k < c => Fetch(v, k * n, n) = ValuesIn(r)[k + 1]
  BY <1>1, ValuesFetched
<1>8. ASSUME NEW k \in Nat, k < c PROVE Fetch(w, k * n, n) = ValuesIn(r)[k + 1]
  <2>1. PICK y \in Nat : y = k * n /\ y + n <= l
    BY <1>1, <1>2, <1>8, BlocksApart
  <2>2. PICK here : here = Fetch(v, y, n)
    OBVIOUS
  <2>3. /\ here \in [1..n -> Contents]
        /\ \A m \in 1..n : y + m <= Len(v) => here[m] = v[y + m]
    BY <2>2, FetchFacts
  <2>4. ASSUME NEW m \in 1..n PROVE w[y + m] = here[m]
    <3>1. y + m \in 1..l /\ y + m <= Len(v)
      BY <1>2, <2>1, MemoryFacts
    <3> QED
      BY <1>4, <2>3, <3>1
  <2>5. y + n <= Len(w)
    BY <1>4, <2>1
  <2>6. Fetch(w, y, n) = here
    BY <1>4, <2>3, <2>4, <2>5, FetchIs
  <2> QED
    BY <1>7, <1>8, <2>1, <2>2, <2>6
<1>9. ValuesIn(q) = ValuesIn(r)
  BY <1>6, <1>7, <1>8, ValuesAre
<1>10. ~Outside(v, 0, l)
  BY <1>2, MemoryFacts DEF Outside
<1> QED
  BY <1>1, <1>6, <1>9, <1>10

(* array_new_filter, after each value.                                     *)
FilterStep(r, kept, p, i) ==
    IF ValueAt(r, i - 1) \in kept THEN AppendTo(p, ValueAt(r, i - 1)) ELSE p
FilterRun(r, kept, n, f) ==
    f = [i \in 0..n |-> IF i = 0 THEN New(r.size) ELSE FilterStep(r, kept, f[i - 1], i)]

LEMMA FilteredIs ==
    ASSUME NEW r, NEW kept
    PROVE  Filtered(r, kept) = (CHOOSE f : FilterRun(r, kept, r.count, f))[r.count]
  BY DEF Filtered, FilterRun, FilterStep

LEMMA FilterRuns ==
    ASSUME NEW r, NEW kept, NEW c \in Nat
    PROVE  \E f : FilterRun(r, kept, c, f)
<1> DEFINE T == {n \in Nat : ~\E f : FilterRun(r, kept, n, f)}
<1>1. ASSUME T # {} PROVE FALSE
  <2>1. PICK n \in T : \A u \in T : n <= u
    BY <1>1, Smallest
  <2>2. n \in Nat /\ ~\E f : FilterRun(r, kept, n, f)
    BY <2>1
  <2>3. CASE n = 0
    <3> DEFINE f == [i \in 0..0 |-> New(r.size)]
    <3>1. FilterRun(r, kept, 0, f)
      <4>1. \A i \in 0..0 : i = 0
        OBVIOUS
      <4> QED
        BY <4>1 DEF FilterRun
    <3> QED
      BY <2>2, <2>3, <3>1
  <2>4. CASE n # 0
    <3>1. PICK m \in Nat : n = m + 1
      <4>1. n - 1 \in Nat /\ n = (n - 1) + 1
        BY <2>2, <2>4
      <4> QED
        BY <4>1
    <3>2. m \notin T
      BY <2>1, <3>1
    <3>3. PICK g : FilterRun(r, kept, m, g)
      BY <3>2
    <3> DEFINE f == [i \in 0..n |-> IF i = n THEN FilterStep(r, kept, g[m], n) ELSE g[i]]
    <3>4. ASSUME NEW i \in 0..n
          PROVE  f[i] = IF i = 0 THEN New(r.size) ELSE FilterStep(r, kept, f[i - 1], i)
      <4>1. CASE i = n
        <5>1. i # 0 /\ i - 1 = m /\ m \in 0..n /\ m # n
          BY <2>2, <3>1, <4>1
        <5>2. f[i] = FilterStep(r, kept, g[m], n) /\ f[m] = g[m]
          BY <4>1, <5>1
        <5> HIDE DEF f
        <5> QED
          BY <4>1, <5>1, <5>2
      <4>2. CASE i # n
        <5>1. i \in 0..m /\ f[i] = g[i]
          BY <2>2, <3>1, <4>2
        <5>2. g[i] = IF i = 0 THEN New(r.size) ELSE FilterStep(r, kept, g[i - 1], i)
          BY <3>3, <5>1 DEF FilterRun
        <5>3. CASE i = 0
          BY <5>1, <5>2, <5>3
        <5>4. CASE i # 0
          <6>1. i - 1 \in 0..n /\ i - 1 # n
            BY <2>2, <4>2, <5>4
          <6>2. f[i - 1] = g[i - 1]
            BY <6>1
          <6> HIDE DEF f
          <6> QED
            BY <5>1, <5>2, <5>4, <6>2
        <5> HIDE DEF f
        <5> QED
          BY <5>3, <5>4
      <4> HIDE DEF f
      <4> QED
        BY <4>1, <4>2
    <3>5. f = [i \in 0..n |-> f[i]]
      OBVIOUS
    <3> HIDE DEF f
    <3>6. FilterRun(r, kept, n, f)
      BY <3>4, <3>5 DEF FilterRun
    <3> QED
      BY <2>2, <3>6
  <2> QED
    BY <2>3, <2>4
<1> QED
  BY <1>1

LEMMA FilterRunFacts ==
    ASSUME NEW r, NEW kept, NEW c \in Nat, NEW f, FilterRun(r, kept, c, f)
    PROVE  /\ f[0] = New(r.size)
           /\ \A i \in 0..(c - 1) : f[i + 1] = FilterStep(r, kept, f[i], i + 1)
<1>1. \A i \in 0..c : f[i] = IF i = 0 THEN New(r.size) ELSE FilterStep(r, kept, f[i - 1], i)
  BY DEF FilterRun
<1>2. 0 \in 0..c
  OBVIOUS
<1>3. ASSUME NEW i \in 0..(c - 1) PROVE f[i + 1] = FilterStep(r, kept, f[i], i + 1)
  <2>1. i + 1 \in 0..c /\ i + 1 # 0 /\ (i + 1) - 1 = i
    OBVIOUS
  <2> QED
    BY <1>1, <2>1
<1> QED
  BY <1>1, <1>2, <1>3

LEMMA NewValues ==
    ASSUME NEW n \in Sizes
    PROVE  /\ New(n) \in Block /\ Roomy(New(n)) /\ New(n).size = n /\ New(n).count = 0
           /\ ValuesIn(New(n)) = <<>>
<1>1. <<>> \in Memory /\ Len(<<>>) = 0
  BY EmptySeq DEF Memory
<1>2. n \in Nat /\ 0 \in 0..MaxCount
  BY SizeFacts
<1>3. New(n) \in Block /\ New(n).size = n /\ New(n).count = 0 /\ New(n).value = <<>>
  BY <1>1, <1>2 DEF New, Block
<1>4. Roomy(New(n))
  <2>1. 0 * n = 0
    BY <1>2
  <2> QED
    BY <1>1, <1>3, <2>1 DEF Roomy
<1>5. ValuesIn(New(n)) = <<>>
  <2>1. ValuesIn(New(n)) \in Seq(Memory) /\ Len(ValuesIn(New(n))) = 0
    BY <1>3, ValuesFacts
  <2> QED
    BY <2>1, EmptySeq
<1> QED
  BY <1>3, <1>4, <1>5

(* array_append                                                            *)
LEMMA AppendToValues ==
    ASSUME NEW r \in Block, Roomy(r), NEW bytes \in [1..r.size -> Contents],
           r.count < MaxCount, NEW q, q = AppendTo(r, bytes)
    PROVE  /\ q \in Block /\ Roomy(q) /\ q.size = r.size /\ q.count = r.count + 1
           /\ ValuesIn(q) = Append(ValuesIn(r), bytes)
<1>1. PICK p : p = With(r, r.count + 1,
                        Store(Realloc(r.value, Times(r.size, r.count) + r.size),
                              Times(r.size, r.count), bytes))
  OBVIOUS
<1>2. AppendTo(r, bytes) = p
  BY <1>1 DEF AppendTo, With, Block
<1>3. /\ p \in Block /\ Roomy(p) /\ p.size = r.size /\ p.count = r.count + 1
      /\ ValuesIn(p) = Append(ValuesIn(r), bytes)
  BY <1>1, AppendValues
<1> QED
  BY <1>2, <1>3, Zenon

(* array_new_filter returns the values that are kept, in order.            *)
KeptValues(b, kept) == KeepAt(b, {k \in DOMAIN b : b[k] \in kept})

FilteredUpTo(p, r, kept, i) ==
    /\ p \in Block /\ Roomy(p) /\ p.size = r.size /\ p.count <= i
    /\ ValuesIn(p) = KeepAt(ValuesIn(r), {k \in 1..i : ValuesIn(r)[k] \in kept})

LEMMA FilteredStep ==
    ASSUME NEW r \in Block, NEW kept, NEW i \in 0..(r.count - 1),
           NEW p, FilteredUpTo(p, r, kept, i),
           NEW q, q = FilterStep(r, kept, p, i + 1)
    PROVE  FilteredUpTo(q, r, kept, i + 1)
<1>1. PICK b : b = ValuesIn(r)
  OBVIOUS
<1>2. PICK c \in Nat : c = r.count /\ c <= MaxCount
  BY BlockFacts
<1>3. /\ b \in Seq(Memory) /\ DOMAIN b = 1..c
      /\ \A k \in 1..c : b[k] = ValueAt(r, k - 1)
      /\ \A k \in Nat : ValueAt(r, k) \in [1..r.size -> Contents]
  BY <1>1, <1>2, ValuesFacts
<1>4. PICK m \in Nat : m = i + 1
  OBVIOUS
<1>5. m \in 1..c /\ i \in Nat /\ i < c /\ m - 1 = i
  BY <1>2, <1>4
<1>6. p \in Block /\ Roomy(p) /\ p.size = r.size /\ p.count <= i /\ p.count \in Nat
  BY BlockFacts DEF FilteredUpTo
<1> DEFINE K == {k \in 1..i : b[k] \in kept}
           L == {k \in 1..m : b[k] \in kept}
<1>7. ValuesIn(p) = KeepAt(b, K)
  BY <1>1 DEF FilteredUpTo
<1>8. K \in SUBSET DOMAIN b /\ \A k \in K : k < m
  BY <1>3, <1>4, <1>5
<1>9. b[m] = ValueAt(r, m - 1) /\ b[m] \in [1..r.size -> Contents]
  BY <1>3, <1>5
<1>10. CASE b[m] \in kept
  <2>1. q = AppendTo(p, b[m])
    BY <1>4, <1>9, <1>10 DEF FilterStep
  <2>2. p.count < MaxCount
    <3>1. PICK j \in Nat : j = p.count /\ j <= i
      BY <1>6
    <3>2. j < MaxCount
      BY <1>2, <1>5, <3>1, CountAssumption
    <3> QED
      BY <3>1, <3>2
  <2>3. /\ q \in Block /\ Roomy(q) /\ q.size = p.size /\ q.count = p.count + 1
        /\ ValuesIn(q) = Append(ValuesIn(p), b[m])
    <3>1. b[m] \in [1..p.size -> Contents]
      BY <1>6, <1>9
    <3> QED
      BY <1>6, <2>1, <2>2, <3>1, AppendToValues
  <2>4. L = K \cup {m}
    BY <1>4, <1>5, <1>10
  <2> HIDE DEF K, L
  <2>5. KeepAt(b, K \cup {m}) = Append(KeepAt(b, K), b[m])
    BY <1>3, <1>5, <1>8, KeepAtAppend
  <2>6. ValuesIn(q) = KeepAt(b, L)
    BY <1>7, <2>3, <2>4, <2>5
  <2>7. q.count <= m
    BY <1>4, <1>6, <2>3
  <2> QED
    BY <1>1, <1>4, <1>6, <2>3, <2>6, <2>7 DEF FilteredUpTo, L
<1>11. CASE b[m] \notin kept
  <2>1. q = p
    BY <1>4, <1>9, <1>11 DEF FilterStep
  <2>2. L = K
    BY <1>4, <1>5, <1>11
  <2>3. p.count <= m
    BY <1>4, <1>6
  <2> HIDE DEF K
  <2> QED
    BY <1>1, <1>4, <1>6, <1>7, <2>1, <2>2, <2>3 DEF FilteredUpTo
<1> QED
  BY <1>10, <1>11

LEMMA FilteredValues ==
    ASSUME NEW r \in Block, NEW kept
    PROVE  /\ Filtered(r, kept) \in Block /\ Roomy(Filtered(r, kept))
           /\ Filtered(r, kept).size = r.size
           /\ ValuesIn(Filtered(r, kept)) = KeptValues(ValuesIn(r), kept)
<1>1. r.count \in Nat /\ r.size \in Sizes
  BY BlockFacts
<1>2. PICK f : f = CHOOSE g : FilterRun(r, kept, r.count, g)
  OBVIOUS
<1>3. FilterRun(r, kept, r.count, f)
  BY <1>1, <1>2, FilterRuns
<1>4. /\ f[0] = New(r.size)
      /\ \A i \in 0..(r.count - 1) : f[i + 1] = FilterStep(r, kept, f[i], i + 1)
  BY <1>1, <1>3, FilterRunFacts
<1>5. FilteredUpTo(f[0], r, kept, 0)
  <2>1. /\ New(r.size) \in Block /\ Roomy(New(r.size)) /\ New(r.size).size = r.size
        /\ New(r.size).count = 0 /\ ValuesIn(New(r.size)) = <<>>
    BY <1>1, NewValues
  <2>2. {k \in 1..0 : ValuesIn(r)[k] \in kept} = {}
    OBVIOUS
  <2>3. New(r.size).count <= 0
    BY <2>1
  <2> QED
    BY <1>4, <2>1, <2>2, <2>3, KeepAtNone DEF FilteredUpTo
<1> DEFINE T == {i \in 0..r.count : ~FilteredUpTo(f[i], r, kept, i)}
<1>6. ASSUME T # {} PROVE FALSE
  <2>1. T \in SUBSET Nat
    BY <1>1
  <2>2. PICK i \in T : \A u \in T : i <= u
    BY <1>6, <2>1, Smallest
  <2>3. i \in 0..r.count /\ ~FilteredUpTo(f[i], r, kept, i)
    BY <2>2
  <2>4. i # 0
    BY <1>5, <2>3
  <2>5. PICK j \in 0..(r.count - 1) : i = j + 1
    <3>1. i - 1 \in 0..(r.count - 1) /\ i = (i - 1) + 1
      BY <1>1, <2>3, <2>4
    <3> QED
      BY <3>1
  <2>6. j \notin T /\ j \in 0..r.count
    BY <1>1, <2>2, <2>5
  <2>7. FilteredUpTo(f[j], r, kept, j)
    BY <2>6
  <2> HIDE DEF T
  <2>8. FilteredUpTo(f[i], r, kept, i)
    BY <1>4, <2>5, <2>7, FilteredStep
  <2> QED
    BY <2>3, <2>8
<1>7. FilteredUpTo(f[r.count], r, kept, r.count)
  <2>1. r.count \in 0..r.count
    BY <1>1
  <2> QED
    BY <1>6, <2>1
<1>8. Filtered(r, kept) = f[r.count]
  BY <1>2, FilteredIs
<1>9. DOMAIN ValuesIn(r) = 1..r.count
  BY ValuesFacts
<1> QED
  BY <1>7, <1>8, <1>9 DEF FilteredUpTo, KeptValues

----------------------------------------------------------------------------

(* The offset of a walk is that of its position, and a callback that was   *)
(* called has seen a value.                                                *)
WalkPlace ==
    walk # None =>
        /\ walk.offset = walk.i * Current.size
        /\ walk.inside /\ ~walk.changed => walk.seen # <<>>

MemoryInv ==
    /\ TypeOK
    /\ ~wild
    /\ \A a \in Arrays : Roomy(array[a])
    /\ WalkPlace

(* How many values the callbacks have decided about.                       *)
Decided == IF walk.inside THEN Len(walk.seen) - 1 ELSE Len(walk.seen)

(* The values called back are the first ones the array had.                *)
SeenRight(shown, before, kept, i) ==
    /\ Len(shown) <= Len(before) /\ Len(kept) = i
    /\ \A k \in 1..Len(shown) : shown[k] = before[k]

(* Those left are the values kept and, d being decided, those to come.     *)
LeftRight(before, kept, i, d, values) ==
    /\ Len(values) = i + (Len(before) - d)
    /\ \A k \in 1..i : values[k] = kept[k]
    /\ \A k \in 1..(Len(before) - d) : values[i + k] = before[d + k]

WalkInv ==
    walk # None /\ ~walk.changed =>
        /\ Decided \in Nat
        /\ SeenRight(walk.seen, walk.before, walk.kept, walk.i)
        /\ walk.filter =>
               LeftRight(walk.before, walk.kept, walk.i, Decided, ValuesOf(walk.of))
        /\ ~walk.filter => walk.i = Decided /\ ValuesOf(walk.of) = walk.before
----------------------------------------------------------------------------
(* What each function does to the arrays.                                  *)

(* Array a comes to hold these values, of this size, in memory with room   *)
(* for them; the others stay as they are.                                  *)
Becomes(a, size, values) ==
    /\ array' \in [Arrays -> Block]
    /\ \A b \in Arrays : Roomy(array'[b]) /\ (b # a => array'[b] = array[b])
    /\ array'[a].size = size /\ ValuesIn(array'[a]) = values

LEMMA ArrayFacts ==
    ASSUME MemoryInv, NEW a \in Arrays
    PROVE  /\ array[a] \in Block /\ Roomy(array[a]) /\ array[a].size \in Sizes
           /\ array \in [Arrays -> Block] /\ wild = FALSE
           /\ \A b \in Arrays : Roomy(array[b])
<1>1. array \in [Arrays -> Block] /\ \A b \in Arrays : Roomy(array[b])
  BY DEF MemoryInv, TypeOK, Block
<1>2. wild = FALSE
  BY DEF MemoryInv, TypeOK
<1>3. array[a] \in Block
  BY <1>1
<1> QED
  BY <1>1, <1>2, <1>3, BlockFacts

LEMMA DataFacts ==
    ASSUME NEW r \in Block, NEW value \in Data[r.size]
    PROVE  value \in [1..r.size -> Contents]
<1>1. r.size \in Sizes
  BY BlockFacts
<1>2. value \in [1..r.size -> Bytes]
  BY <1>1, DataAssumption
<1> QED
  BY <1>2 DEF Contents

LEMMA SetWithinBecomes ==
    ASSUME MemoryInv, NEW a \in Arrays, NEW pos \in Nat, NEW value \in Data[array[a].size],
           SetWithin(a, pos, value)
    PROVE  /\ Becomes(a, array[a].size, [ValuesOf(a) EXCEPT ![pos + 1] = value])
           /\ pos < Len(ValuesOf(a)) /\ wild' = FALSE
<1>1. PICK r \in Block : r = array[a] /\ Roomy(r)
  BY ArrayFacts
<1>2. PICK q : q = With(r, r.count, Store(r.value, pos * r.size, value))
  OBVIOUS
<1>3. pos < r.count /\ value \in [1..r.size -> Contents]
  BY <1>1, DataFacts DEF SetWithin
<1>4. /\ q \in Block /\ Roomy(q) /\ q.size = r.size
      /\ ~Outside(r.value, pos * r.size, r.size)
      /\ ValuesIn(q) = [ValuesIn(r) EXCEPT ![pos + 1] = value]
  BY <1>1, <1>2, <1>3, SetWithinValues
<1>5. Become(a, r.count, Store(r.value, pos * r.size, value),
             Outside(r.value, pos * r.size, r.size))
  BY <1>1 DEF SetWithin
<1>6. array' = [array EXCEPT ![a] = q]
  <2>1. PICK c, w : c = r.count /\ w = Store(r.value, pos * r.size, value)
    OBVIOUS
  <2>2. array' = [array EXCEPT ![a].count = c, ![a].value = w] /\ q = With(array[a], c, w)
    BY <1>1, <1>2, <1>5, <2>1 DEF Become
  <2>3. array \in [Arrays -> Block]
    BY ArrayFacts
  <2> QED
    BY <2>2, <2>3 DEF With, Block
<1>7. wild' = FALSE
  BY <1>1, <1>4, <1>5, ArrayFacts, Zenon DEF Become
<1>8. pos < Len(ValuesOf(a))
  BY <1>1, <1>3, ValuesFacts DEF ValuesOf
<1> QED
  BY <1>1, <1>4, <1>6, <1>7, <1>8, ArrayFacts DEF Becomes, ValuesOf
LEMMA SetBeyondBecomes ==
    ASSUME MemoryInv, NEW a \in Arrays, NEW pos \in Nat, NEW value \in Data[array[a].size],
           SetBeyond(a, pos, value)
    PROVE  /\ Becomes(a, array[a].size,
                      (ValuesOf(a) \o Gap(pos - Len(ValuesOf(a)), array[a].size)) \o <<value>>)
           /\ Len(ValuesOf(a)) <= pos /\ wild' = FALSE
<1>1. PICK r \in Block : r = array[a] /\ Roomy(r)
  BY ArrayFacts
<1>2. PICK w : w = Store(Store(Realloc(r.value, pos * r.size + r.size),
                                Times(r.count, r.size),
                                [k \in 1..(pos * r.size - Times(r.count, r.size)) |-> Zero]),
                          pos * r.size, value)
  OBVIOUS
<1>3. PICK q : q = With(r, pos + 1, w)
  OBVIOUS
<1>4. r.count <= pos /\ pos < MaxCount /\ value \in [1..r.size -> Contents]
  <2>1. r.count <= pos /\ pos < MaxCount
    BY <1>1, BlockFacts DEF SetBeyond
  <2> QED
    BY <1>1, <2>1, DataFacts
<1>5. /\ q \in Block /\ Roomy(q) /\ q.size = r.size
      /\ ValuesIn(q) = (ValuesIn(r) \o Gap(pos - r.count, r.size)) \o <<value>>
  <2>1. q = SetBeyondArray(r, pos, value)
    BY <1>2, <1>3 DEF SetBeyondArray
  <2>2. value \in [1..r.size -> Contents]
    BY <1>4
  <2>3. r.count <= pos /\ pos < MaxCount /\ Roomy(r)
    BY <1>1, <1>4
  <2>4. q \in Block
    BY <2>1, <2>2, <2>3, SetBeyondValues
  <2>5. Roomy(q)
    BY <2>1, <2>2, <2>3, SetBeyondValues
  <2>6. ValuesIn(q) = (ValuesIn(r) \o Gap(pos - r.count, r.size)) \o <<value>>
    BY <2>1, <2>2, <2>3, SetBeyondValues
  <2>7. q.size = r.size
    BY <2>1, <2>2, <2>3, SetBeyondValues, Zenon
  <2> QED
    BY <2>4, <2>5, <2>6, <2>7
<1>6. array' = [array EXCEPT ![a].count = pos + 1, ![a].value = w] /\ wild' = (wild \/ FALSE)
  BY <1>1, <1>2 DEF SetBeyond, Become
<1>7. array' = [array EXCEPT ![a] = q]
  <2>1. array \in [Arrays -> Block]
    BY ArrayFacts
  <2>2. q = With(array[a], pos + 1, w)
    BY <1>1, <1>3
  <2> QED
    BY <1>6, <2>1, <2>2 DEF With, Block
<1>8. wild' = FALSE
  BY <1>6, ArrayFacts, Zenon
<1>9. Len(ValuesOf(a)) = r.count /\ ValuesOf(a) = ValuesIn(r)
  BY <1>1, ValuesFacts DEF ValuesOf
<1> QED
  BY <1>1, <1>4, <1>5, <1>7, <1>8, <1>9, ArrayFacts DEF Becomes

LEMMA AppendBecomes ==
    ASSUME MemoryInv, NEW a \in Arrays, NEW value \in Data[array[a].size],
           Append1(a, value)
    PROVE  /\ Becomes(a, array[a].size, Append(ValuesOf(a), value))
           /\ Len(ValuesOf(a)) \in 0..MaxCount /\ wild' = FALSE
<1>1. PICK r \in Block : r = array[a] /\ Roomy(r)
  BY ArrayFacts
<1>2. PICK w : w = Store(Realloc(r.value, Times(r.size, r.count) + r.size),
                         Times(r.size, r.count), value)
  OBVIOUS
<1>3. PICK q : q = With(r, r.count + 1, w)
  OBVIOUS
<1>4. r.count < MaxCount /\ value \in [1..r.size -> Contents]
  <2>1. r.count < MaxCount
    BY <1>1 DEF Append1
  <2> QED
    BY <1>1, <2>1, DataFacts
<1>5. /\ q \in Block /\ Roomy(q) /\ q.size = r.size
      /\ ValuesIn(q) = Append(ValuesIn(r), value)
  BY <1>1, <1>2, <1>3, <1>4, AppendValues
<1>6. array' = [array EXCEPT ![a].count = r.count + 1, ![a].value = w]
      /\ wild' = (wild \/ FALSE)
  BY <1>1, <1>2 DEF Append1, Become
<1>7. array' = [array EXCEPT ![a] = q]
  <2>1. array \in [Arrays -> Block]
    BY ArrayFacts
  <2>2. q = With(array[a], r.count + 1, w)
    BY <1>1, <1>3
  <2> QED
    BY <1>6, <2>1, <2>2 DEF With, Block
<1>8. wild' = FALSE
  BY <1>6, ArrayFacts, Zenon
<1>9. Len(ValuesOf(a)) \in 0..MaxCount /\ ValuesOf(a) = ValuesIn(r)
  BY <1>1, ValuesFacts, BlockFacts DEF ValuesOf
<1> QED
  BY <1>1, <1>5, <1>7, <1>8, <1>9, ArrayFacts DEF Becomes

LEMMA InsertBecomes ==
    ASSUME MemoryInv, NEW a \in Arrays, NEW pos \in Nat, NEW value \in Data[array[a].size],
           Insert(a, pos, value)
    PROVE  /\ Becomes(a, array[a].size, InsertAt(ValuesOf(a), pos + 1, value))
           /\ pos <= Len(ValuesOf(a)) /\ wild' = FALSE
<1>1. PICK r \in Block : r = array[a] /\ Roomy(r)
  BY ArrayFacts
<1>2. PICK w : w = Store(Store(RoomOf(r), r.size * pos + r.size, RestOf(r, pos)),
                         r.size * pos, value)
  OBVIOUS
<1>3. PICK q : q = With(r, r.count + 1, w)
  OBVIOUS
<1>4. r.count < MaxCount /\ pos <= r.count /\ value \in [1..r.size -> Contents]
  <2>1. r.count < MaxCount /\ pos <= r.count
    BY <1>1 DEF Insert
  <2> QED
    BY <1>1, <2>1, DataFacts
<1>5. /\ q \in Block /\ Roomy(q) /\ q.size = r.size
      /\ ~Outside(RoomOf(r), r.size * pos, Len(RestOf(r, pos)) + r.size)
      /\ ValuesIn(q) = InsertAt(ValuesIn(r), pos + 1, value)
  <2>1. q = InsertArray(r, pos, value)
    BY <1>2, <1>3 DEF InsertArray
  <2> QED
    BY <1>1, <1>4, <2>1, InsertValues
<1>6. PICK o : o = Outside(RoomOf(r), r.size * pos, Len(RestOf(r, pos)) + r.size)
  OBVIOUS
<1>7. /\ array' = [array EXCEPT ![a].count = r.count + 1, ![a].value = w]
      /\ wild' = (wild \/ Outside(RoomOf(r), r.size * pos, Len(RestOf(r, pos)) + r.size))
  BY <1>1, <1>2 DEF Insert, Become, RoomOf, RestOf
<1>8. array' = [array EXCEPT ![a] = q]
  <2>1. array \in [Arrays -> Block]
    BY ArrayFacts
  <2>2. q = With(array[a], r.count + 1, w)
    BY <1>1, <1>3
  <2>3. array' = [array EXCEPT ![a].count = r.count + 1, ![a].value = w]
    BY <1>7
  <2> QED
    BY <2>1, <2>2, <2>3 DEF With, Block
<1>9. wild' = FALSE
  BY <1>5, <1>7, ArrayFacts, Zenon
<1>10. pos <= Len(ValuesOf(a)) /\ ValuesOf(a) = ValuesIn(r)
  BY <1>1, <1>4, ValuesFacts DEF ValuesOf
<1> QED
  BY <1>1, <1>5, <1>8, <1>9, <1>10, ArrayFacts DEF Becomes

LEMMA RemoveBecomes ==
    ASSUME MemoryInv, NEW a \in Arrays, NEW pos \in Nat, NEW shrinks \in BOOLEAN,
           pos < array[a].count, RemoveBy(a, pos, shrinks)
    PROVE  /\ Becomes(a, array[a].size, RemoveAt(ValuesOf(a), pos + 1))
           /\ pos < Len(ValuesOf(a)) /\ wild' = FALSE
<1>1. PICK r \in Block : r = array[a] /\ Roomy(r)
  BY ArrayFacts
<1>2. PICK q : q = RemovedAt(r, pos, shrinks)
  OBVIOUS
<1>3. /\ q \in Block /\ Roomy(q) /\ q.size = r.size
      /\ ~Outside(r.value, pos * r.size, (r.count - pos) * r.size)
      /\ ValuesIn(q) = RemoveAt(ValuesIn(r), pos + 1)
  BY <1>1, <1>2, RemoveValues
<1>4. /\ array' = [array EXCEPT ![a] = RemovedAt(@, pos, shrinks)]
      /\ wild' = (wild \/ Outside(r.value, pos * r.size, (r.count - pos) * r.size))
  BY <1>1 DEF RemoveBy
<1>5. array' = [array EXCEPT ![a] = q]
  BY <1>1, <1>2, <1>4
<1>6. wild' = FALSE
  BY <1>3, <1>4, ArrayFacts, Zenon
<1>7. pos < Len(ValuesOf(a)) /\ ValuesOf(a) = ValuesIn(r)
  BY <1>1, ValuesFacts DEF ValuesOf
<1> QED
  BY <1>1, <1>3, <1>5, <1>6, <1>7, ArrayFacts DEF Becomes

LEMMA RecreateBecomes ==
    ASSUME MemoryInv, NEW a \in Arrays, NEW size \in Sizes, Recreate(a, size)
    PROVE  Becomes(a, size, <<>>) /\ wild' = FALSE
<1>1. /\ New(size) \in Block /\ Roomy(New(size)) /\ New(size).size = size
      /\ ValuesIn(New(size)) = <<>>
  BY NewValues
<1>2. array' = [array EXCEPT ![a] = New(size)] /\ wild' = FALSE
  BY ArrayFacts DEF Recreate
<1> QED
  BY <1>1, <1>2, ArrayFacts DEF Becomes

LEMMA CopyBecomes ==
    ASSUME MemoryInv, NEW a \in Arrays, NEW b \in Arrays, Copy(a, b)
    PROVE  Becomes(a, array[b].size, ValuesOf(b)) /\ wild' = FALSE
<1>1. PICK r \in Block : r = array[b] /\ Roomy(r)
  BY ArrayFacts
<1>2. PICK l : l = Times(r.count, r.size)
  OBVIOUS
<1>3. PICK q : q = [r EXCEPT !.value = Fetch(r.value, 0, l)]
  OBVIOUS
<1>4. /\ q \in Block /\ Roomy(q) /\ q.size = r.size /\ ~Outside(r.value, 0, l)
      /\ ValuesIn(q) = ValuesIn(r)
  BY <1>1, <1>2, <1>3, CopyValues
<1>5. /\ array' = [array EXCEPT ![a] = q]
      /\ wild' = (wild \/ Outside(r.value, 0, l))
  BY <1>1, <1>2, <1>3 DEF Copy
<1>6. wild' = FALSE
  BY <1>4, <1>5, ArrayFacts, Zenon
<1> QED
  BY <1>1, <1>4, <1>5, <1>6, ArrayFacts DEF Becomes, ValuesOf

LEMMA NewFilterBecomes ==
    ASSUME MemoryInv, NEW a \in Arrays, NEW b \in Arrays, NEW kept, NewFilter(a, b, kept)
    PROVE  Becomes(a, array[b].size, KeptValues(ValuesOf(b), kept)) /\ wild' = FALSE
<1>1. PICK r \in Block : r = array[b] /\ Roomy(r)
  BY ArrayFacts
<1>2. PICK q : q = Filtered(r, kept)
  OBVIOUS
<1>3. /\ q \in Block /\ Roomy(q) /\ q.size = r.size
      /\ ValuesIn(q) = KeptValues(ValuesIn(r), kept)
  BY <1>2, FilteredValues
<1>4. ~Outside(r.value, 0, r.count * r.size)
  <2>1. PICK l : l = r.count * r.size
    OBVIOUS
  <2>2. l \in Nat /\ l <= Len(r.value) /\ Len(r.value) \in Nat
    BY <1>1, <2>1, BlockFacts DEF Roomy
  <2>3. ~Outside(r.value, 0, l)
    BY <2>2 DEF Outside
  <2> QED
    BY <2>1, <2>3
<1>5. /\ array' = [array EXCEPT ![a] = q]
      /\ wild' = (wild \/ Outside(r.value, 0, r.count * r.size))
  BY <1>1, <1>2 DEF NewFilter
<1>6. wild' = FALSE
  BY <1>4, <1>5, ArrayFacts, Zenon
<1> QED
  BY <1>1, <1>3, <1>5, <1>6, ArrayFacts DEF Becomes, ValuesOf
(* What Change may do to the values l of an array of size n.               *)
ListChange(l, n, values) ==
    \/ \E value \in Data[n], pos \in 0..MaxCount :
           \/ pos < Len(l) /\ values = [l EXCEPT ![pos + 1] = value]
           \/ Len(l) <= pos /\ values = (l \o Gap(pos - Len(l), n)) \o <<value>>
           \/ pos <= Len(l) /\ values = InsertAt(l, pos + 1, value)
    \/ \E pos \in 0..Len(l) : pos < Len(l) /\ values = RemoveAt(l, pos + 1)

(* To append is to set right at the end.                                   *)
LEMMA AppendIsSet ==
    ASSUME NEW l \in Seq(Memory), NEW value \in Memory, NEW n
    PROVE  Append(l, value) = (l \o Gap(Len(l) - Len(l), n)) \o <<value>>
<1>1. Len(l) \in Nat
  OBVIOUS
<1>2. Len(l) - Len(l) = 0
  BY <1>1
<1>3. Gap(0, n) = <<>>
  BY DEF Gap
<1>4. l \o <<>> = l
  OBVIOUS
<1>5. Append(l, value) = l \o <<value>>
  BY AppendIsConcat
<1> QED
  BY <1>2, <1>3, <1>4, <1>5

LEMMA ChangeBecomes ==
    ASSUME MemoryInv, NEW a \in Arrays, Change(a)
    PROVE  /\ wild' = FALSE /\ Touched(a)
           /\ \E values : Becomes(a, array[a].size, values)
                          /\ ListChange(ValuesOf(a), array[a].size, values)
<1>1. PICK r \in Block : r = array[a]
  BY ArrayFacts
<1>2. PICK n, l : n = array[a].size /\ l = ValuesOf(a)
  OBVIOUS
<1>3. Touched(a)
  BY DEF Change
<1>4. l \in Seq(Memory) /\ Len(l) \in Nat /\ Len(l) <= MaxCount /\ MaxCount \in Nat
  BY <1>1, <1>2, ValuesFacts, BlockFacts, SizeFacts DEF ValuesOf
<1>5. ASSUME NEW value \in Data[n], NEW pos \in 0..MaxCount, SetWithin(a, pos, value)
      PROVE  /\ Becomes(a, n, [l EXCEPT ![pos + 1] = value]) /\ wild' = FALSE
             /\ ListChange(l, n, [l EXCEPT ![pos + 1] = value])
  <2>1. pos \in Nat /\ value \in Data[array[a].size]
    BY <1>2, <1>4
  <2>2. /\ Becomes(a, n, [l EXCEPT ![pos + 1] = value]) /\ wild' = FALSE
        /\ pos < Len(l)
    BY <1>2, <1>5, <2>1, SetWithinBecomes
  <2> QED
    BY <2>2 DEF ListChange
<1>6. ASSUME NEW value \in Data[n], NEW pos \in 0..MaxCount, SetBeyond(a, pos, value)
      PROVE  /\ Becomes(a, n, (l \o Gap(pos - Len(l), n)) \o <<value>>) /\ wild' = FALSE
             /\ ListChange(l, n, (l \o Gap(pos - Len(l), n)) \o <<value>>)
  <2>1. pos \in Nat /\ value \in Data[array[a].size]
    BY <1>2, <1>4
  <2>2. /\ Becomes(a, n, (l \o Gap(pos - Len(l), n)) \o <<value>>) /\ wild' = FALSE
        /\ Len(l) <= pos
    BY <1>2, <1>6, <2>1, SetBeyondBecomes
  <2> QED
    BY <2>2 DEF ListChange
<1>7. ASSUME NEW value \in Data[n], NEW pos \in 0..MaxCount, Insert(a, pos, value)
      PROVE  /\ Becomes(a, n, InsertAt(l, pos + 1, value)) /\ wild' = FALSE
             /\ ListChange(l, n, InsertAt(l, pos + 1, value))
  <2>1. pos \in Nat /\ value \in Data[array[a].size]
    BY <1>2, <1>4
  <2>2. /\ Becomes(a, n, InsertAt(l, pos + 1, value)) /\ wild' = FALSE
        /\ pos <= Len(l)
    BY <1>2, <1>7, <2>1, InsertBecomes
  <2> QED
    BY <2>2 DEF ListChange
<1>8. ASSUME NEW value \in Data[n], Append1(a, value)
      PROVE  /\ Becomes(a, n, Append(l, value)) /\ wild' = FALSE
             /\ ListChange(l, n, Append(l, value))
  <2>1. value \in Data[array[a].size] /\ value \in Memory
    BY <1>1, <1>2, DataFacts, ValueIsMemory
  <2>2. Becomes(a, n, Append(l, value)) /\ wild' = FALSE
    BY <1>2, <1>8, <2>1, AppendBecomes
  <2>3. Append(l, value) = (l \o Gap(Len(l) - Len(l), n)) \o <<value>>
    BY <1>4, <2>1, AppendIsSet
  <2>4. Len(l) \in 0..MaxCount /\ Len(l) <= Len(l)
    BY <1>4
  <2> QED
    BY <2>2, <2>3, <2>4 DEF ListChange
<1>9. ASSUME NEW pos \in 0..MaxCount, RemovePos(a, pos)
      PROVE  /\ Becomes(a, n, RemoveAt(l, pos + 1)) /\ wild' = FALSE
             /\ ListChange(l, n, RemoveAt(l, pos + 1))
  <2>1. PICK shrinks \in BOOLEAN : RemoveBy(a, pos, shrinks) /\ pos < array[a].count
    BY <1>9 DEF RemovePos
  <2>2. pos \in Nat
    BY <1>4
  <2>3. Becomes(a, n, RemoveAt(l, pos + 1)) /\ wild' = FALSE /\ pos < Len(l)
    BY <1>2, <2>1, <2>2, RemoveBecomes
  <2>4. pos \in 0..Len(l)
    BY <1>4, <2>2, <2>3
  <2> QED
    BY <2>3, <2>4 DEF ListChange
<1>10. \/ \E value \in Data[n], pos \in 0..MaxCount : SetWithin(a, pos, value)
       \/ \E value \in Data[n], pos \in 0..MaxCount : SetBeyond(a, pos, value)
       \/ \E value \in Data[n], pos \in 0..MaxCount : Insert(a, pos, value)
       \/ \E value \in Data[n] : Append1(a, value)
       \/ \E pos \in 0..MaxCount : RemovePos(a, pos)
  BY <1>2, Zenon DEF Change
<1> QED
  BY <1>2, <1>3, <1>5, <1>6, <1>7, <1>8, <1>9, <1>10
----------------------------------------------------------------------------
(* The memory: every access is within it.                                  *)

LEMMA InitMemory ==
    ASSUME Init
    PROVE  MemoryInv
<1>1. ASSUME NEW a \in Arrays PROVE array[a] \in Block /\ Roomy(array[a])
  <2>1. PICK n \in Sizes : array[a] = New(n)
    BY DEF Init
  <2> QED
    BY <2>1, NewValues
<1>2. array \in [Arrays -> Block]
  BY <1>1 DEF Init
<1> QED
  BY <1>1, <1>2 DEF Init, MemoryInv, TypeOK, Block, WalkPlace

(* The walk's part of the invariant.                                       *)
WalkOK == walk \in Walks \cup {None} /\ WalkPlace

LEMMA UnchangedKeeps ==
    ASSUME MemoryInv, array' = array, wild' = wild, WalkOK'
    PROVE  MemoryInv'
<1>1. TypeOK' /\ ~wild'
  BY DEF MemoryInv, TypeOK, WalkOK
<1> QED
  BY <1>1 DEF MemoryInv, WalkOK

LEMMA BecomesKeeps ==
    ASSUME MemoryInv, NEW a \in Arrays, NEW size, NEW values, Becomes(a, size, values),
           wild' = FALSE, WalkOK'
    PROVE  MemoryInv'
<1>1. array' \in [Arrays -> Block] /\ \A b \in Arrays : Roomy(array'[b])
  BY DEF Becomes
<1>2. TypeOK' /\ ~wild'
  BY <1>1 DEF TypeOK, Block, WalkOK
<1> QED
  BY <1>1, <1>2 DEF MemoryInv, WalkOK

LEMMA WalkFacts ==
    ASSUME MemoryInv, walk # None
    PROVE  /\ walk \in Walks /\ walk.of \in Arrays /\ walk.i \in Nat /\ walk.offset \in Nat
           /\ walk.seen \in Seq(Memory) /\ walk.kept \in Seq(Memory)
           /\ walk.before \in Seq(Memory) /\ Current \in Block /\ Roomy(Current)
           /\ walk.offset = walk.i * Current.size
           /\ walk.inside /\ ~walk.changed => walk.seen # <<>>
<1>1. walk \in Walks /\ WalkPlace
  BY DEF MemoryInv, TypeOK
<1>2. walk.of \in Arrays
  BY <1>1 DEF Walks
<1>3. Current \in Block /\ Roomy(Current)
  BY <1>2, ArrayFacts DEF Current
<1> QED
  BY <1>1, <1>2, <1>3 DEF Walks, WalkPlace

LEMMA TouchedKeeps ==
    ASSUME MemoryInv, NEW a \in Arrays, NEW values, Becomes(a, array[a].size, values),
           Touched(a)
    PROVE  WalkOK'
<1>1. CASE walk = None
  <2>1. walk' = None
    BY <1>1 DEF Touched
  <2> QED
    BY <2>1 DEF WalkOK, WalkPlace
<1>2. CASE walk # None
  <2>1. /\ walk \in Walks /\ walk.of \in Arrays
        /\ walk.offset = walk.i * Current.size
        /\ walk.inside /\ ~walk.changed => walk.seen # <<>>
    BY <1>2, WalkFacts
  <2>2. array'[walk.of].size = Current.size
    BY <2>1 DEF Becomes, Current
  <2>3. CASE walk.of = a
    <3>1. walk' = [walk EXCEPT !.changed = TRUE, !.before = <<>>, !.seen = <<>>, !.kept = <<>>]
      BY <1>2, <2>3 DEF Touched
    <3>2. /\ walk' \in Walks /\ walk'.changed /\ walk'.offset = walk.offset
          /\ walk'.i = walk.i /\ walk'.of = walk.of
      <4>1. <<>> \in Seq(Memory)
        OBVIOUS
      <4> QED
        BY <2>1, <3>1, <4>1 DEF Walks
    <3> QED
      BY <2>1, <2>2, <3>2 DEF WalkOK, WalkPlace, Current
  <2>4. CASE walk.of # a
    <3>1. walk' = walk
      BY <2>4 DEF Touched
    <3> QED
      BY <2>1, <2>2, <3>1 DEF WalkOK, WalkPlace, Current
  <2> QED
    BY <2>3, <2>4
<1> QED
  BY <1>1, <1>2

LEMMA ReplacedKeeps ==
    ASSUME MemoryInv, NEW a \in Arrays, NEW size, NEW values, Becomes(a, size, values),
           NotWalked(a), walk' = walk
    PROVE  WalkOK'
<1>1. CASE walk = None
  BY <1>1 DEF WalkOK, WalkPlace
<1>2. CASE walk # None
  <2>1. /\ walk \in Walks /\ walk.of \in Arrays /\ walk.of # a
        /\ walk.offset = walk.i * Current.size
        /\ walk.inside /\ ~walk.changed => walk.seen # <<>>
    BY <1>2, WalkFacts DEF NotWalked
  <2>2. array'[walk.of] = array[walk.of]
    BY <2>1 DEF Becomes
  <2> QED
    BY <2>1, <2>2 DEF WalkOK, WalkPlace, Current
<1> QED
  BY <1>1, <1>2
(* array_copy, onto the array that is walked or onto another.              *)
LEMMA CopiedKeeps ==
    ASSUME MemoryInv, NEW a \in Arrays, NEW b \in Arrays, NEW values,
           Becomes(a, array[b].size, values), Copy(a, b)
    PROVE  WalkOK'
<1>1. Touched(a) /\ KeepsSize(a, b)
  BY DEF Copy
<1>2. CASE walk # None /\ walk.of = a
  <2>1. array[b].size = array[a].size
    BY <1>1, <1>2 DEF KeepsSize
  <2> QED
    BY <1>1, <2>1, TouchedKeeps
<1>3. CASE ~(walk # None /\ walk.of = a)
  <2>1. walk' = walk
    BY <1>1, <1>3 DEF Touched
  <2>2. NotWalked(a)
    BY <1>1, <1>3 DEF KeepsSize, NotWalked
  <2> QED
    BY <2>1, <2>2, ReplacedKeeps
<1> QED
  BY <1>2, <1>3

(* The callback returns, the array keeping its size.                       *)
LEMMA OffsetAdvances ==
    ASSUME NEW i \in Nat, NEW n \in Nat
    PROVE  (i + 1) * n = i * n + n /\ i * n + n \in Nat
<1>1. i * n \in Nat /\ (i + 1) * n = i * n + n
  BY Product
<1> QED
  BY <1>1

LEMMA MemoryStep ==
    ASSUME MemoryInv, Next
    PROVE  MemoryInv'
<1>1. ASSUME NEW a \in Arrays, Change(a) PROVE MemoryInv'
  <2>1. /\ wild' = FALSE /\ Touched(a)
        /\ \E values : Becomes(a, array[a].size, values)
    BY <1>1, ChangeBecomes
  <2>2. PICK values : Becomes(a, array[a].size, values)
    BY <2>1
  <2>3. WalkOK'
    BY <2>1, <2>2, TouchedKeeps
  <2> QED
    BY <2>1, <2>2, <2>3, BecomesKeeps
<1>2. ASSUME NEW a \in Arrays, NEW size \in Sizes, Recreate(a, size) PROVE MemoryInv'
  <2>1. Becomes(a, size, <<>>) /\ wild' = FALSE
    BY <1>2, RecreateBecomes
  <2>2. WalkOK'
    BY <1>2, <2>1, ReplacedKeeps DEF Recreate
  <2> QED
    BY <2>1, <2>2, BecomesKeeps
<1>3. ASSUME NEW a \in Arrays, NEW b \in Arrays, Copy(a, b) PROVE MemoryInv'
  <2>1. Becomes(a, array[b].size, ValuesOf(b)) /\ wild' = FALSE
    BY <1>3, CopyBecomes
  <2>2. WalkOK'
    BY <1>3, <2>1, CopiedKeeps
  <2> QED
    BY <2>1, <2>2, BecomesKeeps
<1>4. ASSUME NEW a \in Arrays, NEW b \in Arrays, NEW kept, NewFilter(a, b, kept)
      PROVE  MemoryInv'
  <2>1. Becomes(a, array[b].size, KeptValues(ValuesOf(b), kept)) /\ wild' = FALSE
    BY <1>4, NewFilterBecomes
  <2>2. WalkOK'
    BY <1>4, <2>1, ReplacedKeeps DEF NewFilter
  <2> QED
    BY <2>1, <2>2, BecomesKeeps
<1>5. ASSUME NEW a \in Arrays, NEW filter \in BOOLEAN, Begin(a, filter) PROVE MemoryInv'
  <2>1. PICK values \in Seq(Memory) : values = ValuesOf(a)
    BY ArrayFacts, ValuesFacts DEF ValuesOf
  <2>2. PICK w : w = walk'
    OBVIOUS
  <2>3. w = [of |-> a, filter |-> filter, i |-> 0, offset |-> 0, inside |-> FALSE,
             before |-> values, seen |-> <<>>, kept |-> <<>>, changed |-> FALSE]
    BY <1>5, <2>1, <2>2 DEF Begin
  <2>4. w \in Walks
    <3>1. <<>> \in Seq(Memory)
      OBVIOUS
    <3> QED
      BY <2>3, <3>1 DEF Walks
  <2>5. array' = array /\ wild' = wild
    BY <1>5 DEF Begin
  <2>6. w.offset = w.i * array[w.of].size /\ ~w.inside
    <3>1. array[a].size \in Nat
      BY ArrayFacts, SizeFacts
    <3>2. 0 * array[a].size = 0
      BY <3>1
    <3> QED
      BY <2>3, <3>2
  <2>7. WalkOK'
    BY <2>2, <2>4, <2>5, <2>6 DEF WalkOK, WalkPlace, Current
  <2> QED
    BY <2>5, <2>7, UnchangedKeeps
<1>6. ASSUME Call PROVE MemoryInv'
  <2>1. walk # None /\ ~walk.inside /\ walk.i < Current.count /\ array' = array
    BY <1>6 DEF Call, Walking
  <2>2. PICK r \in Block : r = Current /\ Roomy(r) /\ r.size \in Nat
    BY <2>1, WalkFacts, BlockFacts
  <2>3. PICK o \in Nat : o = walk.offset /\ o = walk.i * r.size
    BY <2>1, <2>2, WalkFacts
  <2>4. ~Outside(r.value, o, r.size)
    <3>1. /\ r.value \in Memory /\ r.count \in Nat /\ r.count * r.size <= Len(r.value)
          /\ walk.i \in Nat /\ walk.i < r.count
      BY <2>1, <2>2, BlockFacts, WalkFacts DEF Roomy
    <3>2. walk.i * r.size + r.size <= Len(r.value)
      BY <2>2, <3>1, Within
    <3>3. o + r.size <= Len(r.value) /\ Len(r.value) \in Nat
      BY <2>2, <2>3, <3>2, BlockFacts
    <3> QED
      BY <2>2, <3>3 DEF Outside
  <2>5. wild' = FALSE
    <3>1. wild' = (wild \/ Outside(r.value, o, r.size))
      BY <1>6, <2>2, <2>3 DEF Call
    <3>2. wild = FALSE
      BY DEF MemoryInv, TypeOK
    <3> QED
      BY <2>4, <3>1, <3>2, Zenon
  <2>6. PICK x \in Memory : x = Fetch(Current.value, walk.offset, Current.size)
    BY <2>2, <2>3, BlockFacts, FetchFacts
  <2>7. PICK s \in Seq(Memory) : s = (IF walk.changed THEN <<>> ELSE Append(walk.seen, x))
    <3>1. walk.seen \in Seq(Memory) /\ <<>> \in Seq(Memory)
      BY <2>1, WalkFacts
    <3>2. Append(walk.seen, x) \in Seq(Memory)
      BY <3>1, AppendProperties
    <3> QED
      BY <3>1, <3>2
  <2>8. walk' = [walk EXCEPT !.inside = TRUE, !.seen = s]
    BY <1>6, <2>6, <2>7 DEF Call
  <2>9. ~walk.changed => s # <<>>
    <3>1. walk.seen \in Seq(Memory)
      BY <2>1, WalkFacts
    <3>2. Append(walk.seen, x) # <<>>
      BY <3>1
    <3> QED
      BY <2>7, <3>2
  <2>10. walk \in Walks
    BY <2>1, WalkFacts
  <2>11. /\ walk' \in Walks /\ walk'.of = walk.of /\ walk'.i = walk.i
         /\ walk'.offset = walk.offset /\ walk'.changed = walk.changed /\ walk'.seen = s
    BY <2>8, <2>10 DEF Walks
  <2>12. WalkOK'
    <3>1. walk'.offset = walk'.i * Current'.size
      BY <2>1, <2>2, <2>3, <2>11 DEF Current
    <3> QED
      BY <2>9, <2>11, <3>1 DEF WalkOK, WalkPlace
  <2> QED
    BY <2>1, <2>5, <2>12, UnchangedKeeps DEF MemoryInv, TypeOK
<1>7. ASSUME Keep PROVE MemoryInv'
  <2>1. walk # None /\ walk.inside /\ array' = array /\ wild' = wild
    BY <1>7 DEF Keep
  <2>2. /\ walk \in Walks /\ walk.of \in Arrays /\ walk.i \in Nat /\ walk.offset \in Nat
        /\ walk.seen \in Seq(Memory) /\ walk.kept \in Seq(Memory)
        /\ walk.offset = walk.i * Current.size
        /\ ~walk.changed => walk.seen # <<>>
    BY <2>1, WalkFacts
  <2>3. PICK n \in Nat : n = Current.size
    BY <2>1, WalkFacts, BlockFacts
  <2>4. PICK s \in Seq(Memory) :
            s = (IF walk.changed THEN <<>> ELSE Append(walk.kept, Last(walk.seen)))
    <3>1. <<>> \in Seq(Memory)
      OBVIOUS
    <3>2. ASSUME ~walk.changed PROVE Append(walk.kept, Last(walk.seen)) \in Seq(Memory)
      <4>1. Len(walk.seen) \in 1..Len(walk.seen)
        BY <2>2, <3>2
      <4>2. walk.seen[Len(walk.seen)] \in Memory
        BY <2>2, <4>1
      <4>3. Last(walk.seen) \in Memory
        BY <4>2 DEF Last
      <4> QED
        BY <2>2, <4>3, AppendProperties
    <3> QED
      BY <3>1, <3>2
  <2>5. walk' = [walk EXCEPT !.inside = FALSE, !.i = walk.i + 1, !.offset = walk.offset + n,
                             !.kept = s]
    BY <1>7, <2>2, <2>3, <2>4 DEF Keep, Advance
  <2>6. PICK o \in Nat : o = walk.offset + n /\ o = (walk.i + 1) * n
    BY <2>2, <2>3, OffsetAdvances
  <2>7. /\ walk' \in Walks /\ walk'.of = walk.of /\ ~walk'.inside
        /\ walk'.i = walk.i + 1 /\ walk'.offset = o
    <3>1. PICK j \in Nat : j = walk.i + 1
      BY <2>2
    <3>2. walk' = [walk EXCEPT !.inside = FALSE, !.i = j, !.offset = o, !.kept = s]
      BY <2>5, <2>6, <3>1
    <3>3. /\ walk' \in Walks /\ walk'.of = walk.of /\ ~walk'.inside
          /\ walk'.i = j /\ walk'.offset = o
      BY <2>2, <3>2 DEF Walks
    <3> QED
      BY <3>1, <3>3
  <2>8. WalkOK'
    <3>1. walk'.offset = walk'.i * Current'.size
      BY <2>1, <2>3, <2>6, <2>7 DEF Current
    <3> QED
      BY <2>7, <3>1 DEF WalkOK, WalkPlace
  <2> QED
    BY <2>1, <2>8, UnchangedKeeps
<1>8. ASSUME Drop PROVE MemoryInv'
  <2>1. walk # None
    BY <1>8 DEF Drop
  <2>2. /\ walk \in Walks /\ walk.of \in Arrays /\ walk.i \in Nat
        /\ walk.offset = walk.i * Current.size
    BY <2>1, WalkFacts
  <2>3. walk' = [walk EXCEPT !.inside = FALSE]
    BY <1>8 DEF Drop
  <2>4. /\ walk' \in Walks /\ walk'.of = walk.of /\ ~walk'.inside
        /\ walk'.i = walk.i /\ walk'.offset = walk.offset
    BY <2>2, <2>3 DEF Walks
  <2>5. CASE walk.i < Current.count
    <3>1. PICK shrinks \in BOOLEAN : RemoveBy(walk.of, walk.i, shrinks)
      BY <1>8, <2>5 DEF Drop
    <3>2. /\ Becomes(walk.of, array[walk.of].size, RemoveAt(ValuesOf(walk.of), walk.i + 1))
          /\ wild' = FALSE
      BY <2>2, <2>5, <3>1, RemoveBecomes DEF Current
    <3>3. array'[walk.of].size = Current.size
      BY <3>2 DEF Becomes, Current
    <3>4. WalkOK'
      BY <2>2, <2>4, <3>3 DEF WalkOK, WalkPlace, Current
    <3> QED
      BY <2>2, <3>2, <3>4, BecomesKeeps
  <2>6. CASE ~(walk.i < Current.count)
    <3>1. array' = array /\ wild' = wild
      BY <1>8, <2>6 DEF Drop
    <3>2. WalkOK'
      BY <2>2, <2>4, <3>1 DEF WalkOK, WalkPlace, Current
    <3> QED
      BY <3>1, <3>2, UnchangedKeeps
  <2> QED
    BY <2>5, <2>6
<1>9. ASSUME End PROVE MemoryInv'
  <2>1. walk' = None /\ array' = array /\ wild' = wild
    BY <1>9 DEF End
  <2>2. WalkOK'
    BY <2>1 DEF WalkOK, WalkPlace
  <2> QED
    BY <2>1, <2>2, UnchangedKeeps
<1> QED
  BY <1>1, <1>2, <1>3, <1>4, <1>5, <1>6, <1>7, <1>8, <1>9 DEF Next
LEMMA MemoryInvariant == Spec => []MemoryInv
<1>1. Init => MemoryInv
  BY InitMemory
<1>2. MemoryInv /\ [Next]_vars => MemoryInv'
  <2>1. ASSUME MemoryInv, UNCHANGED vars PROVE MemoryInv'
    <3>1. array' = array /\ walk' = walk /\ wild' = wild
      BY <2>1 DEF vars
    <3>2. WalkOK'
      BY <2>1, <3>1 DEF MemoryInv, TypeOK, WalkOK, WalkPlace, Current
    <3> QED
      BY <2>1, <3>1, <3>2, UnchangedKeeps
  <2> QED
    BY <2>1, MemoryStep
<1> QED
  BY <1>1, <1>2, PTL DEF Spec

(* An array has at most MaxCount values, and the locals of array_filter    *)
(* and array_foreach have their types.                                     *)
THEOREM TypeCorrect == Spec => []TypeOK
<1>1. MemoryInv => TypeOK
  BY DEF MemoryInv
<1> QED
  BY <1>1, MemoryInvariant, PTL

(* array.c, whose products are 32 bits wide, reads and writes no byte that *)
(* is outside of the memory realloc() gave, at any size and count: not in  *)
(* the memmove() of array_insert and array_remove_pos, and not when the    *)
(* callback of a filter removes values itself.                             *)
THEOREM InBoundsAlways == Spec => []InBounds
<1>1. MemoryInv => InBounds
  <2>1. ASSUME MemoryInv, NEW a \in Arrays
        PROVE  Len(array[a].value) >= array[a].count * array[a].size
    <3>1. array[a] \in Block /\ Roomy(array[a])
      BY <2>1, ArrayFacts
    <3>2. PICK x \in Nat : x = array[a].count * array[a].size
      BY <3>1, BlockFacts
    <3>3. x <= Len(array[a].value) /\ Len(array[a].value) \in Nat
      BY <3>1, <3>2, BlockFacts DEF Roomy
    <3>4. Len(array[a].value) >= x
      BY <3>3
    <3> QED
      BY <3>2, <3>4
  <2> QED
    BY <2>1 DEF MemoryInv, InBounds
<1> QED
  BY <1>1, MemoryInvariant, PTL
----------------------------------------------------------------------------
(* The arrays are the lists of ListSpec.                                   *)

LEMMA SameOperators ==
    /\ \A s, i, e : Lists!InsertAt(s, i, e) = InsertAt(s, i, e)
    /\ \A s, i : Lists!RemoveAt(s, i) = RemoveAt(s, i)
    /\ \A n : Lists!Zeros(n) = Zeroed(n)
  BY DEF Lists!InsertAt, InsertAt, Lists!RemoveAt, RemoveAt, Lists!Zeros, Zeroed

LEMMA SameKept ==
    ASSUME NEW s, NEW kept
    PROVE  Lists!Kept(s, kept) = KeptValues(s, kept)
  BY DEF Lists!Kept, KeptValues, Lists!KeepAt, KeepAt, Lists!Rank, Rank,
         Lists!Cardinality, Cardinality

LEMMA ListBecomes ==
    ASSUME MemoryInv, NEW a \in Arrays, NEW size, NEW values, Becomes(a, size, values)
    PROVE  /\ ListOf' = [ListOf EXCEPT ![a] = values]
           /\ SizeOf' = [SizeOf EXCEPT ![a] = size]
           /\ size = array[a].size => SizeOf' = SizeOf
  BY DEF Becomes, ListOf, SizeOf, ValuesOf

LEMMA ListFacts ==
    ASSUME NEW a \in Arrays
    PROVE  ListOf[a] = ValuesOf(a) /\ SizeOf[a] = array[a].size
  BY DEF ListOf, SizeOf

LEMMA ListsChange ==
    ASSUME MemoryInv, NEW a \in Arrays, Change(a)
    PROVE  Lists!Next
<1>1. PICK values : /\ Becomes(a, array[a].size, values)
                    /\ ListChange(ValuesOf(a), array[a].size, values)
  BY ChangeBecomes
<1>2. PICK l, n : l = ListOf[a] /\ n = SizeOf[a] /\ l = ValuesOf(a) /\ n = array[a].size
  BY ListFacts
<1>3. Lists!Become(a, values)
  BY <1>1, ListBecomes DEF Lists!Become
<1>4. ASSUME NEW value \in Data[n], NEW pos \in 0..MaxCount,
             pos < Len(l), values = [l EXCEPT ![pos + 1] = value]
      PROVE  Lists!Next
  <2>1. Lists!Set(a, pos, value)
    BY <1>2, <1>3, <1>4 DEF Lists!Set
  <2> QED
    BY <1>2, <2>1 DEF Lists!Next
<1>5. ASSUME NEW value \in Data[n], NEW pos \in 0..MaxCount,
             Len(l) <= pos, values = (l \o Gap(pos - Len(l), n)) \o <<value>>
      PROVE  Lists!Next
  <2>1. ~(pos < Len(l))
    <3>1. Len(l) \in Nat /\ MaxCount \in Nat
      BY <1>2, ArrayFacts, ValuesFacts, BlockFacts, SizeFacts DEF ValuesOf
    <3> QED
      BY <1>5, <3>1
  <2>2. Gap(pos - Len(l), n) = [k \in 1..(pos - Len(l)) |-> Lists!Zeros(n)]
    BY SameOperators DEF Gap
  <2>3. Lists!Set(a, pos, value)
    BY <1>2, <1>3, <1>5, <2>1, <2>2 DEF Lists!Set
  <2> QED
    BY <1>2, <2>3 DEF Lists!Next
<1>6. ASSUME NEW value \in Data[n], NEW pos \in 0..MaxCount,
             pos <= Len(l), values = InsertAt(l, pos + 1, value)
      PROVE  Lists!Next
  <2>1. Lists!Insert(a, pos, value)
    BY <1>2, <1>3, <1>6, SameOperators DEF Lists!Insert
  <2> QED
    BY <1>2, <2>1 DEF Lists!Next
<1>7. ASSUME NEW pos \in 0..Len(l), pos < Len(l), values = RemoveAt(l, pos + 1)
      PROVE  Lists!Next
  <2>1. Lists!RemovePos(a, pos)
    BY <1>2, <1>3, <1>7, SameOperators DEF Lists!RemovePos
  <2> QED
    BY <1>2, <2>1 DEF Lists!Next
<1> QED
  BY <1>1, <1>2, <1>4, <1>5, <1>6, <1>7 DEF ListChange

LEMMA ListsStep ==
    ASSUME MemoryInv, Next
    PROVE  Lists!Next \/ UNCHANGED <<ListOf, SizeOf>>
<1>1. ASSUME array' = array PROVE UNCHANGED <<ListOf, SizeOf>>
  BY <1>1 DEF ListOf, SizeOf, ValuesOf
<1>2. ASSUME NEW a \in Arrays, NEW size \in Sizes, Recreate(a, size) PROVE Lists!Next
  <2>1. Becomes(a, size, <<>>)
    BY <1>2, RecreateBecomes
  <2>2. Lists!New(a)
    BY <2>1, ListBecomes DEF Lists!New
  <2> QED
    BY <2>2 DEF Lists!Next
<1>3. ASSUME NEW a \in Arrays, NEW b \in Arrays, Copy(a, b) PROVE Lists!Next
  <2>1. Becomes(a, SizeOf[b], ListOf[b])
    BY <1>3, CopyBecomes, ListFacts
  <2>2. Lists!Copy(a, b)
    BY <2>1, ListBecomes DEF Lists!Copy
  <2> QED
    BY <2>2 DEF Lists!Next
<1>4. ASSUME NEW a \in Arrays, NEW b \in Arrays, NEW kept \in SUBSET Data[array[b].size],
             NewFilter(a, b, kept)
      PROVE  Lists!Next
  <2>1. Becomes(a, SizeOf[b], Lists!Kept(ListOf[b], kept))
    BY <1>4, NewFilterBecomes, ListFacts, SameKept
  <2>2. kept \in SUBSET Data[SizeOf[b]]
    BY ListFacts
  <2>3. Lists!Copy(a, b)
    BY <2>1, <2>2, ListBecomes DEF Lists!Copy
  <2> QED
    BY <2>3 DEF Lists!Next
<1>5. ASSUME Drop PROVE Lists!Next \/ UNCHANGED <<ListOf, SizeOf>>
  <2>1. walk # None
    BY <1>5 DEF Drop
  <2>2. PICK a \in Arrays, i \in Nat : a = walk.of /\ i = walk.i
    BY <2>1, WalkFacts
  <2>3. CASE walk.i < Current.count
    <3>1. PICK shrinks \in BOOLEAN : RemoveBy(a, i, shrinks)
      BY <1>5, <2>2, <2>3 DEF Drop
    <3>2. Becomes(a, array[a].size, RemoveAt(ValuesOf(a), i + 1)) /\ i < Len(ValuesOf(a))
      BY <2>2, <2>3, <3>1, RemoveBecomes DEF Current
    <3>3. Lists!RemovePos(a, i)
      <4>1. Lists!Become(a, RemoveAt(ValuesOf(a), i + 1))
        BY <3>2, ListBecomes DEF Lists!Become
      <4> QED
        BY <3>2, <4>1, ListFacts, SameOperators DEF Lists!RemovePos
    <3>4. i \in 0..Len(ListOf[a])
      <4>1. Len(ValuesOf(a)) \in Nat
        BY ArrayFacts, ValuesFacts, BlockFacts DEF ValuesOf
      <4> QED
        BY <3>2, <4>1, ListFacts
    <3> QED
      BY <3>3, <3>4 DEF Lists!Next
  <2>4. CASE ~(walk.i < Current.count)
    BY <1>1, <1>5, <2>4 DEF Drop
  <2> QED
    BY <2>3, <2>4
<1>6. ASSUME NEW a \in Arrays, NEW filter \in BOOLEAN, Begin(a, filter) PROVE array' = array
  BY <1>6 DEF Begin
<1>7. Call \/ Keep \/ End => array' = array
  BY DEF Call, Keep, End
<1> QED
  BY <1>1, <1>2, <1>3, <1>4, <1>5, <1>6, <1>7, ListsChange DEF Next

(* Each function of array.c does to an array what it does to a list of     *)
(* values, and a value stays as it is until it is set or removed: neither  *)
(* realloc() nor memmove() changes one, and array_set past the end leaves  *)
(* zeros in between.                                                       *)
THEOREM ArraysAreLists == Spec => IsLists
<1>1. Init => Lists!Init
  <2>1. ASSUME Init, NEW a \in Arrays PROVE ValuesOf(a) = <<>> /\ array[a].size \in Sizes
    <3>1. PICK n \in Sizes : array[a] = New(n)
      BY <2>1 DEF Init
    <3> QED
      BY <3>1, NewValues DEF ValuesOf
  <2> QED
    BY <2>1 DEF Lists!Init, ListOf, SizeOf
<1>2. MemoryInv /\ [Next]_vars => [Lists!Next]_(Lists!vars)
  <2>1. UNCHANGED vars => UNCHANGED <<ListOf, SizeOf>>
    BY DEF vars, ListOf, SizeOf, ValuesOf
  <2> QED
    BY <2>1, ListsStep DEF Lists!vars
<1> QED
  BY <1>1, <1>2, MemoryInvariant, PTL DEF Spec, IsLists, Lists!Spec
----------------------------------------------------------------------------
(* A walk calls back each value once.                                      *)

(* One more value is called back, the next one of those to come.           *)
LEMMA CallRight ==
    ASSUME NEW shown \in Seq(Memory), NEW before \in Seq(Memory), NEW kept, NEW i,
           SeenRight(shown, before, kept, i), NEW v \in Memory,
           Len(shown) < Len(before), v = before[Len(shown) + 1],
           NEW next, next = Append(shown, v)
    PROVE  SeenRight(next, before, kept, i) /\ Len(next) = Len(shown) + 1
<1>1. /\ Len(next) = Len(shown) + 1 /\ next[Len(shown) + 1] = v
      /\ \A k \in 1..Len(shown) : next[k] = shown[k]
  BY AppendProperties
<1>2. Len(shown) \in Nat /\ Len(before) \in Nat
  OBVIOUS
<1>3. ASSUME NEW k \in 1..Len(next) PROVE next[k] = before[k]
  <2>1. k \in 1..Len(shown) \/ k = Len(shown) + 1
    BY <1>1, <1>2
  <2>2. CASE k \in 1..Len(shown)
    BY <1>1, <2>2 DEF SeenRight
  <2>3. CASE k = Len(shown) + 1
    BY <1>1, <2>3
  <2> QED
    BY <2>1, <2>2, <2>3
<1>4. Len(next) <= Len(before)
  BY <1>1, <1>2
<1> QED
  BY <1>1, <1>3, <1>4 DEF SeenRight

(* The value called back last is kept.                                     *)
LEMMA KeepRight ==
    ASSUME NEW shown \in Seq(Memory), NEW before \in Seq(Memory), NEW kept \in Seq(Memory),
           NEW i \in Nat, SeenRight(shown, before, kept, i), shown # <<>>,
           NEW more, more = Append(kept, Last(shown))
    PROVE  /\ SeenRight(shown, before, more, i + 1)
           /\ \A values : LeftRight(before, kept, i, Len(shown) - 1, values) =>
                              LeftRight(before, more, i + 1, Len(shown), values)
<1>1. /\ Len(shown) \in Nat \ {0} /\ Len(shown) \in 1..Len(shown) /\ Len(before) \in Nat
      /\ Len(shown) <= Len(before) /\ Len(kept) = i
  BY DEF SeenRight
<1>2. Last(shown) = before[Len(shown)] /\ Last(shown) \in Memory
  BY <1>1 DEF SeenRight, Last
<1>3. /\ Len(more) = i + 1 /\ more[i + 1] = before[Len(shown)]
      /\ \A k \in 1..i : more[k] = kept[k]
  BY <1>1, <1>2, AppendProperties
<1>4. SeenRight(shown, before, more, i + 1)
  BY <1>3 DEF SeenRight
<1>5. ASSUME NEW values, LeftRight(before, kept, i, Len(shown) - 1, values)
      PROVE  LeftRight(before, more, i + 1, Len(shown), values)
  <2>1. PICK d \in Nat : d = Len(shown) - 1 /\ Len(shown) = d + 1
    <3>1. Len(shown) - 1 \in Nat /\ Len(shown) = (Len(shown) - 1) + 1
      BY <1>1
    <3> QED
      BY <3>1
  <2>2. PICK m \in Nat : m = Len(before) - Len(shown) /\ Len(before) - d = m + 1
    <3>1. /\ Len(before) - Len(shown) \in Nat
          /\ Len(before) - d = (Len(before) - Len(shown)) + 1
      BY <1>1, <2>1
    <3> QED
      BY <3>1
  <2>3. /\ Len(values) = i + (m + 1)
        /\ \A k \in 1..i : values[k] = kept[k]
        /\ \A k \in 1..(m + 1) : values[i + k] = before[d + k]
    BY <1>5, <2>1, <2>2 DEF LeftRight
  <2>4. Len(values) = (i + 1) + m
    BY <2>2, <2>3
  <2>5. values[i + 1] = more[i + 1]
    <3>1. 1 \in 1..(m + 1)
      BY <2>2
    <3> QED
      BY <1>3, <2>1, <2>3, <3>1
  <2>6. ASSUME NEW k \in 1..(i + 1) PROVE values[k] = more[k]
    <3>1. k \in 1..i \/ k = i + 1
      OBVIOUS
    <3> QED
      BY <1>3, <2>3, <2>5, <3>1
  <2>7. ASSUME NEW k \in 1..m PROVE values[(i + 1) + k] = before[Len(shown) + k]
    <3>1. /\ k + 1 \in 1..(m + 1) /\ (i + 1) + k = i + (k + 1)
          /\ (d + 1) + k = d + (k + 1)
      BY <2>1, <2>2
    <3>2. values[i + (k + 1)] = before[d + (k + 1)]
      BY <2>3, <3>1
    <3> QED
      BY <2>1, <3>1, <3>2
  <2> QED
    BY <2>2, <2>4, <2>6, <2>7 DEF LeftRight
<1> QED
  BY <1>4, <1>5

(* It is refused, and removed.                                             *)
LEMMA DropRight ==
    ASSUME NEW before \in Seq(Memory), NEW kept, NEW i \in Nat, NEW d \in Nat, d < Len(before),
           NEW values \in Seq(Memory), LeftRight(before, kept, i, d, values)
    PROVE  /\ i < Len(values)
           /\ LeftRight(before, kept, i, d + 1, RemoveAt(values, i + 1))
<1>1. PICK m \in Nat : m = Len(before) - (d + 1) /\ Len(before) - d = m + 1
  <2>1. Len(before) \in Nat
    OBVIOUS
  <2>2. Len(before) - (d + 1) \in Nat /\ Len(before) - d = (Len(before) - (d + 1)) + 1
    BY <2>1
  <2> QED
    BY <2>2
<1>2. /\ Len(values) = i + (m + 1)
      /\ \A k \in 1..i : values[k] = kept[k]
      /\ \A k \in 1..(m + 1) : values[i + k] = before[d + k]
  BY <1>1 DEF LeftRight
<1>3. i + 1 \in DOMAIN values /\ i < Len(values)
  BY <1>2
<1>4. PICK left : left = RemoveAt(values, i + 1)
  OBVIOUS
<1>5. /\ Len(left) = i + m
      /\ \A k \in 1..(i + m) : left[k] = IF k < i + 1 THEN values[k] ELSE values[k + 1]
  <2>1. /\ Len(left) = Len(values) - 1
        /\ \A k \in 1..(Len(values) - 1) :
               left[k] = IF k < i + 1 THEN values[k] ELSE values[k + 1]
    BY <1>3, <1>4, RemoveAtProperties
  <2>2. Len(values) - 1 = i + m
    BY <1>2
  <2> QED
    BY <2>1, <2>2
<1>6. ASSUME NEW k \in 1..i PROVE left[k] = kept[k]
  <2>1. k \in 1..(i + m) /\ k < i + 1
    BY <1>1
  <2> QED
    BY <1>2, <1>5, <2>1
<1>7. ASSUME NEW k \in 1..m PROVE left[i + k] = before[(d + 1) + k]
  <2>1. /\ i + k \in 1..(i + m) /\ ~(i + k < i + 1) /\ (i + k) + 1 = i + (k + 1)
        /\ k + 1 \in 1..(m + 1) /\ (d + 1) + k = d + (k + 1)
    BY <1>1
  <2>2. left[i + k] = values[i + (k + 1)]
    BY <1>5, <2>1
  <2> QED
    BY <1>2, <2>1, <2>2
<1>8. LeftRight(before, kept, i, d + 1, left)
  BY <1>1, <1>5, <1>6, <1>7 DEF LeftRight
<1> QED
  BY <1>3, <1>4, <1>8
LEMMA WalkValues ==
    ASSUME MemoryInv, walk # None
    PROVE  /\ ValuesOf(walk.of) \in Seq(Memory) /\ Len(ValuesOf(walk.of)) = Current.count
           /\ Current.count \in Nat
           /\ \A k \in Nat : k < Current.count => ValueAt(Current, k) = ValuesOf(walk.of)[k + 1]
  BY WalkFacts, ValuesFetched DEF ValuesOf, Current, ValueAt

(* The walk and its array stay as they are.                                *)
LEMMA WalkStays ==
    ASSUME WalkInv, walk' = walk, walk # None => array'[walk.of] = array[walk.of]
    PROVE  WalkInv'
  BY DEF WalkInv, Decided, ValuesOf

LEMMA WalkReplaced ==
    ASSUME MemoryInv, WalkInv, NEW a \in Arrays, NEW size, NEW values,
           Becomes(a, size, values), walk' = walk, walk # None => walk.of # a
    PROVE  WalkInv'
<1>1. walk # None => array'[walk.of] = array[walk.of]
  BY WalkFacts DEF Becomes
<1> QED
  BY <1>1, WalkStays

LEMMA WalkTouched ==
    ASSUME MemoryInv, WalkInv, NEW a \in Arrays, NEW size, NEW values,
           Becomes(a, size, values), Touched(a)
    PROVE  WalkInv'
<1>1. CASE walk # None /\ walk.of = a
  <2>1. walk \in Walks
    BY <1>1, WalkFacts
  <2>2. walk' = [walk EXCEPT !.changed = TRUE, !.before = <<>>, !.seen = <<>>, !.kept = <<>>]
    BY <1>1 DEF Touched
  <2>3. walk'.changed = TRUE
    BY <2>1, <2>2 DEF Walks
  <2> QED
    BY <2>3 DEF WalkInv
<1>2. CASE ~(walk # None /\ walk.of = a)
  <2>1. walk' = walk
    BY <1>2 DEF Touched
  <2> QED
    BY <1>2, <2>1, WalkReplaced
<1> QED
  BY <1>1, <1>2

LEMMA WalkChange ==
    ASSUME MemoryInv, WalkInv, NEW a \in Arrays, Change(a)
    PROVE  WalkInv'
<1>1. PICK values : Becomes(a, array[a].size, values)
  BY ChangeBecomes
<1>2. Touched(a)
  BY ChangeBecomes
<1> QED
  BY <1>1, <1>2, WalkTouched

LEMMA WalkBegin ==
    ASSUME MemoryInv, NEW a \in Arrays, NEW filter \in BOOLEAN, Begin(a, filter)
    PROVE  WalkInv'
<1>1. PICK values \in Seq(Memory) : values = ValuesOf(a)
  BY ArrayFacts, ValuesFacts DEF ValuesOf
<1>2. walk' = [of |-> a, filter |-> filter, i |-> 0, offset |-> 0, inside |-> FALSE,
               before |-> values, seen |-> <<>>, kept |-> <<>>, changed |-> FALSE]
  BY <1>1 DEF Begin
<1>3. /\ walk'.of = a /\ walk'.i = 0 /\ walk'.inside = FALSE /\ walk'.before = values
      /\ walk'.seen = <<>> /\ walk'.kept = <<>>
  BY <1>2
<1>4. Len(values) \in Nat /\ Len(<<>>) = 0
  OBVIOUS
<1>5. Decided' = 0
  BY <1>3, <1>4 DEF Decided
<1>6. SeenRight(<<>>, values, <<>>, 0)
  BY <1>4 DEF SeenRight
<1>7. LeftRight(values, <<>>, 0, 0, values)
  BY <1>4 DEF LeftRight
<1>8. ValuesIn(array'[walk'.of]) = values
  BY <1>1, <1>3 DEF Begin, ValuesOf
<1> QED
  BY <1>3, <1>4, <1>5, <1>6, <1>7, <1>8 DEF WalkInv, ValuesOf

LEMMA WalkCall ==
    ASSUME MemoryInv, WalkInv, Call
    PROVE  WalkInv'
<1>1. /\ walk # None /\ walk.inside = FALSE /\ walk.i < Current.count /\ array' = array
      /\ walk \in Walks /\ walk.of \in Arrays
  BY WalkFacts DEF Call, Walking, Walks
<1>2. PICK s : s = (IF walk.changed THEN <<>>
                    ELSE Append(walk.seen, Fetch(Current.value, walk.offset, Current.size)))
  OBVIOUS
<1>3. walk' = [walk EXCEPT !.inside = TRUE, !.seen = s]
  BY <1>2 DEF Call
<1>4. /\ walk'.of = walk.of /\ walk'.i = walk.i /\ walk'.inside = TRUE /\ walk'.seen = s
      /\ walk'.before = walk.before /\ walk'.kept = walk.kept
      /\ walk'.filter = walk.filter /\ walk'.changed = walk.changed
  BY <1>1, <1>3 DEF Walks
<1>5. CASE walk.changed
  BY <1>4, <1>5 DEF WalkInv
<1>6. CASE ~walk.changed
  <2>1. PICK shown \in Seq(Memory), before \in Seq(Memory), i \in Nat, l \in Seq(Memory) :
            /\ shown = walk.seen /\ before = walk.before /\ i = walk.i /\ l = ValuesOf(walk.of)
    BY <1>1, WalkFacts, WalkValues
  <2>2. PICK v : v = Fetch(Current.value, walk.offset, Current.size)
    OBVIOUS
  <2>3. v = l[i + 1] /\ i < Len(l)
    <3>1. v = ValueAt(Current, i)
      BY <1>1, <2>1, <2>2, WalkFacts DEF ValueAt
    <3> QED
      BY <1>1, <2>1, <3>1, WalkValues
  <2>4. Decided = Len(shown) /\ Len(shown) \in Nat /\ Len(before) \in Nat
    BY <1>1, <2>1 DEF Decided
  <2>5. /\ SeenRight(shown, before, walk.kept, i)
        /\ walk.filter => LeftRight(before, walk.kept, i, Len(shown), l)
        /\ ~walk.filter => i = Len(shown) /\ l = before
    BY <1>1, <1>6, <2>1, <2>4 DEF WalkInv
  <2>6. Len(shown) < Len(before) /\ v = before[Len(shown) + 1]
    <3>1. CASE walk.filter
      <4>1. PICK m \in Int : m = Len(before) - Len(shown)
        <5>1. Len(before) - Len(shown) \in Int
          BY <2>4
        <5> QED
          BY <5>1, Zenon
      <4>2. Len(l) = i + m /\ \A k \in 1..m : l[i + k] = before[Len(shown) + k]
        BY <2>5, <3>1, <4>1 DEF LeftRight
      <4>3. 1 \in 1..m /\ Len(shown) < Len(before)
        BY <2>3, <2>4, <4>1, <4>2
      <4> QED
        BY <2>3, <4>2, <4>3
    <3>2. CASE ~walk.filter
      BY <2>3, <2>5, <3>2
    <3> QED
      BY <3>1, <3>2
  <2>7. v \in Memory
    BY <2>1, <2>3
  <2>8. s = Append(shown, v)
    BY <1>2, <1>6, <2>1, <2>2
  <2>9. SeenRight(s, before, walk.kept, i) /\ Len(s) = Len(shown) + 1
    <3>1. PICK kept : kept = walk.kept
      OBVIOUS
    <3>2. SeenRight(shown, before, kept, i)
      BY <2>5, <3>1
    <3>3. SeenRight(s, before, kept, i)
      BY <2>6, <2>7, <2>8, <3>2, CallRight
    <3>4. Len(s) = Len(shown) + 1
      BY <2>6, <2>7, <2>8, <3>2, CallRight
    <3> QED
      BY <3>1, <3>3, <3>4
  <2>10. Decided' = Len(shown)
    <3>1. (Len(shown) + 1) - 1 = Len(shown)
      BY <2>4
    <3> QED
      BY <1>4, <2>9, <3>1 DEF Decided
  <2>11. ValuesIn(array'[walk'.of]) = l
    BY <1>1, <1>4, <2>1 DEF ValuesOf
  <2> QED
    BY <1>4, <2>1, <2>4, <2>5, <2>9, <2>10, <2>11 DEF WalkInv, ValuesOf
<1> QED
  BY <1>5, <1>6
LEMMA WalkKeep ==
    ASSUME MemoryInv, WalkInv, Keep
    PROVE  WalkInv'
<1>1. /\ walk # None /\ walk.inside = TRUE /\ array' = array /\ walk \in Walks
      /\ walk.of \in Arrays /\ walk.inside
  BY WalkFacts DEF Keep, Walks
<1>2. PICK s, o : /\ s = (IF walk.changed THEN <<>> ELSE Append(walk.kept, Last(walk.seen)))
                  /\ o = walk.offset + Current.size
  OBVIOUS
<1>3. walk' = [walk EXCEPT !.inside = FALSE, !.i = walk.i + 1, !.offset = o, !.kept = s]
  BY <1>1, <1>2 DEF Keep, Advance, Walks
<1>4. /\ walk'.of = walk.of /\ walk'.i = walk.i + 1 /\ walk'.inside = FALSE
      /\ walk'.seen = walk.seen /\ walk'.before = walk.before /\ walk'.kept = s
      /\ walk'.filter = walk.filter /\ walk'.changed = walk.changed
  BY <1>1, <1>3 DEF Walks
<1>5. CASE walk.changed
  BY <1>4, <1>5 DEF WalkInv
<1>6. CASE ~walk.changed
  <2>1. PICK shown \in Seq(Memory), before \in Seq(Memory), kept \in Seq(Memory), i \in Nat,
             l \in Seq(Memory) :
            /\ shown = walk.seen /\ before = walk.before /\ kept = walk.kept /\ i = walk.i
            /\ l = ValuesOf(walk.of) /\ shown # <<>>
    BY <1>1, <1>6, WalkFacts, WalkValues
  <2>2. Decided = Len(shown) - 1 /\ Len(shown) \in Nat /\ Len(shown) = (Len(shown) - 1) + 1
    BY <1>1, <2>1 DEF Decided
  <2>3. /\ SeenRight(shown, before, kept, i)
        /\ walk.filter => LeftRight(before, kept, i, Len(shown) - 1, l)
        /\ ~walk.filter => i = Len(shown) - 1 /\ l = before
    BY <1>1, <1>6, <2>1, <2>2 DEF WalkInv
  <2>4. s = Append(kept, Last(shown))
    BY <1>2, <1>6, <2>1
  <2>5. SeenRight(shown, before, s, i + 1)
    BY <2>1, <2>3, <2>4, KeepRight
  <2>6. walk.filter => LeftRight(before, s, i + 1, Len(shown), l)
    BY <2>1, <2>3, <2>4, KeepRight
  <2>7. ~walk.filter => i + 1 = Len(shown) /\ l = before
    BY <2>2, <2>3
  <2>8. Decided' = Len(shown)
    BY <1>4, <2>1 DEF Decided
  <2>9. ValuesIn(array'[walk'.of]) = l
    BY <1>1, <1>4, <2>1 DEF ValuesOf
  <2> QED
    BY <1>4, <2>1, <2>2, <2>5, <2>6, <2>7, <2>8, <2>9 DEF WalkInv, ValuesOf
<1> QED
  BY <1>5, <1>6

LEMMA WalkDrop ==
    ASSUME MemoryInv, WalkInv, Drop
    PROVE  WalkInv'
<1>1. /\ walk # None /\ walk.inside = TRUE /\ walk \in Walks /\ walk.filter
      /\ walk.of \in Arrays /\ walk.inside
  BY WalkFacts DEF Drop, Walks
<1>2. walk' = [walk EXCEPT !.inside = FALSE]
  BY DEF Drop
<1>3. /\ walk'.of = walk.of /\ walk'.i = walk.i /\ walk'.inside = FALSE
      /\ walk'.seen = walk.seen /\ walk'.before = walk.before /\ walk'.kept = walk.kept
      /\ walk'.filter = walk.filter /\ walk'.changed = walk.changed
  BY <1>1, <1>2 DEF Walks
<1>4. CASE walk.changed
  BY <1>3, <1>4 DEF WalkInv
<1>5. CASE ~walk.changed
  <2>1. PICK shown \in Seq(Memory), before \in Seq(Memory), kept \in Seq(Memory), i \in Nat,
             l \in Seq(Memory) :
            /\ shown = walk.seen /\ before = walk.before /\ kept = walk.kept /\ i = walk.i
            /\ l = ValuesOf(walk.of) /\ shown # <<>>
    BY <1>1, <1>5, WalkFacts, WalkValues
  <2>2. PICK d \in Nat : d = Len(shown) - 1 /\ Len(shown) = d + 1 /\ Decided = d
    <3>1. Len(shown) - 1 \in Nat /\ Len(shown) = (Len(shown) - 1) + 1 /\ Decided = Len(shown) - 1
      BY <1>1, <2>1 DEF Decided
    <3> QED
      BY <3>1
  <2>3. SeenRight(shown, before, kept, i) /\ LeftRight(before, kept, i, d, l)
    BY <1>1, <1>5, <2>1, <2>2 DEF WalkInv
  <2>4. d < Len(before)
    <3>1. Len(shown) <= Len(before) /\ Len(before) \in Nat
      BY <2>3 DEF SeenRight
    <3> QED
      BY <2>2, <3>1
  <2>5. i < Len(l)
    BY <2>1, <2>3, <2>4, DropRight
  <2>6. LeftRight(before, kept, i, d + 1, RemoveAt(l, i + 1))
    BY <2>1, <2>3, <2>4, DropRight
  <2>7. walk.i < Current.count
    BY <1>1, <2>1, <2>5, WalkValues
  <2>8. PICK shrinks \in BOOLEAN : RemoveBy(walk.of, walk.i, shrinks)
    BY <2>7 DEF Drop
  <2>9. Becomes(walk.of, array[walk.of].size, RemoveAt(ValuesOf(walk.of), walk.i + 1))
    BY <1>1, <2>1, <2>7, <2>8, RemoveBecomes DEF Current
  <2>10. ValuesIn(array'[walk'.of]) = RemoveAt(l, i + 1)
    BY <1>1, <1>3, <2>1, <2>9 DEF Becomes
  <2>11. Decided' = d + 1 /\ d + 1 \in Nat
    BY <1>3, <2>1, <2>2 DEF Decided
  <2> QED
    BY <1>1, <1>3, <2>1, <2>3, <2>6, <2>10, <2>11 DEF WalkInv, ValuesOf
<1> QED
  BY <1>4, <1>5

LEMMA WalkStep ==
    ASSUME MemoryInv, WalkInv, Next
    PROVE  WalkInv'
<1>1. ASSUME NEW a \in Arrays, NEW size \in Sizes, Recreate(a, size) PROVE WalkInv'
  <2>1. Becomes(a, size, <<>>) /\ walk' = walk /\ (walk # None => walk.of # a)
    BY <1>1, RecreateBecomes DEF Recreate, NotWalked
  <2> QED
    BY <2>1, WalkReplaced
<1>2. ASSUME NEW a \in Arrays, NEW b \in Arrays, Copy(a, b) PROVE WalkInv'
  <2>1. Becomes(a, array[b].size, ValuesOf(b)) /\ Touched(a)
    BY <1>2, CopyBecomes DEF Copy
  <2> QED
    BY <2>1, WalkTouched
<1>3. ASSUME NEW a \in Arrays, NEW b \in Arrays, NEW kept, NewFilter(a, b, kept)
      PROVE  WalkInv'
  <2>1. /\ Becomes(a, array[b].size, KeptValues(ValuesOf(b), kept))
        /\ walk' = walk /\ (walk # None => walk.of # a)
    BY <1>3, NewFilterBecomes DEF NewFilter, NotWalked
  <2> QED
    BY <2>1, WalkReplaced
<1>4. ASSUME End PROVE WalkInv'
  BY <1>4 DEF End, WalkInv
<1> QED
  BY <1>1, <1>2, <1>3, <1>4, WalkChange, WalkBegin, WalkCall, WalkKeep, WalkDrop DEF Next

LEMMA WalkInvariant == Spec => [](MemoryInv /\ WalkInv)
<1>1. Init => WalkInv
  BY DEF Init, WalkInv
<1>2. MemoryInv /\ WalkInv /\ [Next]_vars => WalkInv'
  <2>1. ASSUME WalkInv, UNCHANGED vars PROVE WalkInv'
    BY <2>1, WalkStays DEF vars
  <2> QED
    BY <2>1, WalkStep
<1> QED
  BY <1>1, <1>2, MemoryInvariant, PTL DEF Spec

(* s is a prefix of t, which is p and the rest of t.                       *)
LEMMA PrefixIs ==
    ASSUME NEW s \in Seq(Memory), NEW t \in Seq(Memory), Len(s) <= Len(t),
           \A k \in 1..Len(s) : s[k] = t[k]
    PROVE  s = SubSeq(t, 1, Len(s)) /\ (Len(s) = Len(t) => s = t)
<1>1. Len(s) \in Nat /\ Len(t) \in Nat /\ \A k \in 1..Len(s) : t[k] \in Memory
  OBVIOUS
<1>2. PICK p : p = SubSeq(t, 1, Len(s))
  OBVIOUS
<1>3. /\ p \in Seq(Memory) /\ Len(p) = (IF 1 <= Len(s) THEN Len(s) - 1 + 1 ELSE 0)
      /\ \A k \in 1..(Len(s) - 1 + 1) : p[k] = t[1 + k - 1]
  BY <1>1, <1>2, SubSeqProperties
<1>4. Len(p) = Len(s) /\ \A k \in 1..Len(s) : p[k] = s[k]
  BY <1>1, <1>3
<1>5. s = p
  BY <1>3, <1>4, SeqEqual
<1>6. ASSUME Len(s) = Len(t) PROVE s = t
  BY <1>6, SeqEqual
<1> QED
  BY <1>2, <1>5, <1>6

LEMMA LeftIs ==
    ASSUME NEW values \in Seq(Memory), NEW before \in Seq(Memory), NEW kept \in Seq(Memory),
           NEW d \in Nat, d <= Len(before), LeftRight(before, kept, Len(kept), d, values)
    PROVE  values = kept \o SubSeq(before, d + 1, Len(before))
<1>1. PICK m \in Nat, i \in Nat : m = Len(before) - d /\ Len(before) = d + m /\ i = Len(kept)
  <2>1. Len(before) - d \in Nat /\ Len(before) = d + (Len(before) - d) /\ Len(kept) \in Nat
    OBVIOUS
  <2> QED
    BY <2>1
<1>2. PICK r : r = SubSeq(before, d + 1, Len(before))
  OBVIOUS
<1>3. r \in Seq(Memory) /\ Len(r) = m /\ \A k \in 1..m : r[k] = before[d + k]
  <2>1. \A k \in (d + 1)..(d + m) : before[k] \in Memory
    BY <1>1
  <2>2. /\ r \in Seq(Memory)
        /\ Len(r) = (IF d + 1 <= d + m THEN (d + m) - (d + 1) + 1 ELSE 0)
        /\ \A k \in 1..((d + m) - (d + 1) + 1) : r[k] = before[(d + 1) + k - 1]
    BY <1>1, <1>2, <2>1, SubSeqProperties
  <2>3. (d + m) - (d + 1) + 1 = m
    OBVIOUS
  <2>4. Len(r) = m
    BY <2>2, <2>3
  <2>5. \A k \in 1..m : (d + 1) + k - 1 = d + k
    OBVIOUS
  <2> QED
    BY <2>2, <2>3, <2>4, <2>5
<1>4. /\ Len(values) = i + m
      /\ \A k \in 1..i : values[k] = kept[k]
      /\ \A k \in 1..m : values[i + k] = before[d + k]
  BY <1>1 DEF LeftRight
<1>5. PICK t : t = kept \o r
  OBVIOUS
<1>6. /\ t \in Seq(Memory) /\ Len(t) = i + m
      /\ \A k \in 1..(i + m) : t[k] = IF k <= i THEN kept[k] ELSE r[k - i]
  <2>1. /\ kept \o r \in Seq(Memory) /\ Len(kept \o r) = Len(kept) + Len(r)
        /\ \A k \in 1..(Len(kept) + Len(r)) :
               (kept \o r)[k] = IF k <= Len(kept) THEN kept[k] ELSE r[k - Len(kept)]
    BY <1>3, ConcatProperties
  <2> QED
    BY <1>1, <1>3, <1>5, <2>1
<1>7. ASSUME NEW k \in 1..(i + m) PROVE values[k] = t[k]
  <2>1. CASE k <= i
    BY <1>4, <1>6, <2>1
  <2>2. CASE ~(k <= i)
    <3>1. k - i \in 1..m /\ i + (k - i) = k
      BY <2>2
    <3>2. values[i + (k - i)] = before[d + (k - i)]
      BY <1>4, <3>1
    <3> QED
      BY <1>3, <1>6, <2>2, <3>1, <3>2
  <2> QED
    BY <2>1, <2>2
<1> QED
  BY <1>2, <1>4, <1>5, <1>6, <1>7, SeqEqual

(* array_filter and array_foreach, whose callbacks change nothing, call    *)
(* back each value once, in order: a value removed moves those after it to *)
(* where the walk is, and none is skipped or called twice; the filter ends *)
(* with the values kept.                                                   *)
THEOREM WalkExactAlways == Spec => []WalkExact
<1>1. ASSUME MemoryInv, WalkInv PROVE WalkExact
  <2> SUFFICES ASSUME walk # None, ~walk.changed PROVE WalkExact
    BY DEF WalkExact
  <2>1. PICK shown \in Seq(Memory), before \in Seq(Memory), kept \in Seq(Memory), i \in Nat,
             l \in Seq(Memory) :
            /\ shown = walk.seen /\ before = walk.before /\ kept = walk.kept /\ i = walk.i
            /\ l = ValuesOf(walk.of)
    BY <1>1, WalkFacts, WalkValues
  <2>2. /\ Decided \in Nat /\ SeenRight(shown, before, kept, i)
        /\ walk.filter => LeftRight(before, kept, i, Decided, l)
        /\ ~walk.filter => i = Decided /\ l = before
    BY <1>1, <2>1 DEF WalkInv
  <2>3. /\ Len(shown) <= Len(before) /\ Len(kept) = i
        /\ \A k \in 1..Len(shown) : shown[k] = before[k]
    BY <2>2 DEF SeenRight
  <2>4. shown = SubSeq(before, 1, Len(shown)) /\ (Len(shown) = Len(before) => shown = before)
    BY <2>3, PrefixIs
  <2>5. Len(shown) \in Nat /\ Len(before) \in Nat /\ Len(l) = Current.count
    BY <1>1, <2>1, WalkValues
  <2>6. ASSUME ~walk.inside PROVE Decided = Len(shown)
    BY <2>1, <2>6 DEF Decided
  <2>7. ASSUME ~walk.inside, walk.i >= Current.count PROVE shown = before
    <3>1. CASE walk.filter
      <4>1. Len(l) = i + (Len(before) - Len(shown))
        BY <2>2, <2>6, <2>7, <3>1 DEF LeftRight
      <4>2. PICK m \in Int : m = Len(before) - Len(shown)
        <5>1. Len(before) - Len(shown) \in Int
          BY <2>5
        <5> QED
          BY <5>1, Zenon
      <4>3. Len(l) = i + m /\ i >= Len(l) /\ Len(shown) <= Len(before)
        BY <2>1, <2>3, <2>5, <2>7, <4>1, <4>2
      <4>4. m <= 0
        BY <4>3
      <4>5. Len(shown) = Len(before)
        BY <2>5, <4>2, <4>3, <4>4
      <4> QED
        BY <2>4, <4>5
    <3>2. CASE ~walk.filter
      <4>1. Len(shown) = Len(before)
        BY <2>1, <2>2, <2>3, <2>5, <2>6, <2>7, <3>2
      <4> QED
        BY <2>4, <4>1
    <3> QED
      BY <3>1, <3>2
  <2>8. ASSUME walk.filter, ~walk.inside
        PROVE  l = kept \o SubSeq(before, Len(shown) + 1, Len(before))
    <3>1. LeftRight(before, kept, Len(kept), Len(shown), l)
      BY <2>2, <2>3, <2>6, <2>8
    <3> QED
      BY <2>3, <2>5, <3>1, LeftIs
  <2> QED
    BY <2>1, <2>2, <2>4, <2>7, <2>8 DEF WalkExact
<1> QED
  BY <1>1, WalkInvariant, PTL
----------------------------------------------------------------------------
(* Mutator.                                                                *)

(* The hash of an entry is that of the name its key still holds.           *)
HashesRight == \A k \in DOMAIN entries : entries[k].hash = HashOf[text[entries[k].key]]

OwnInv == MutatorTypeOK /\ KeysOwned /\ NamesUnique /\ HashesRight /\ (inside => position > 0)

LEMMA EntryFacts ==
    ASSUME OwnInv, NEW k \in DOMAIN entries
    PROVE  /\ entries[k] \in Entries
           /\ entries[k].key \in Addrs /\ entries[k].value \in Values
           /\ text[entries[k].key] \in Names
<1>1. entries[k] \in Entries
  BY LenProperties, ElementOfSeq DEF OwnInv, MutatorTypeOK
<1>2. text[entries[k].key] # NULL
  BY <1>1 DEF OwnInv, KeysOwned
<1> QED
  BY <1>1, <1>2 DEF Entries, OwnInv, MutatorTypeOK

LEMMA LengthFacts ==
    ASSUME OwnInv
    PROVE  Len(entries) \in Nat /\ DOMAIN entries = 1..Len(entries)
  BY LenProperties DEF OwnInv, MutatorTypeOK

(* At most one entry answers to a name, whatever the hashes.               *)
LEMMA HitsFacts ==
    ASSUME OwnInv, NEW name \in Names
    PROVE  /\ Hits(name) = {k \in DOMAIN entries : text[entries[k].key] = name}
           /\ \A j, k \in Hits(name) : j = k
           /\ Hits(name) # {} =>
                  /\ FirstOf(Hits(name)) \in Hits(name)
                  /\ LastOf(Hits(name)) \in Hits(name)
<1>1. Hits(name) = {k \in DOMAIN entries : text[entries[k].key] = name}
  BY DEF OwnInv, HashesRight, Hits
<1>2. \A j, k \in Hits(name) : j = k
  BY <1>1 DEF OwnInv, NamesUnique
<1>3. Hits(name) \subseteq Nat
  BY <1>1, LengthFacts
<1>4. ASSUME NEW k \in Hits(name)
      PROVE  FirstOf(Hits(name)) \in Hits(name) /\ LastOf(Hits(name)) \in Hits(name)
  <2>1. \A j \in Hits(name) : j <= k /\ k <= j
    BY <1>2, <1>3
  <2> QED
    BY <2>1 DEF FirstOf, LastOf
<1> QED
  BY <1>1, <1>2, <1>4

LEMMA OwnInvInit == MutatorInit => OwnInv
<1> SUFFICES ASSUME MutatorInit PROVE OwnInv
  OBVIOUS
<1>1. entries = <<>> /\ DOMAIN entries = {} /\ \A a \in Addrs : text[a] = NULL
  BY DEF MutatorInit
<1>2. MutatorTypeOK
  <2>1. <<>> \in Seq(Entries) /\ <<>> \in Seq(Names)
    BY EmptySeq
  <2>2. inside \in BOOLEAN /\ shrunk \in BOOLEAN
    BY DEF MutatorInit
  <2> QED
    BY <2>1, <2>2 DEF MutatorInit, MutatorTypeOK
<1>3. ~inside
  BY DEF MutatorInit
<1> QED
  BY <1>1, <1>2, <1>3 DEF OwnInv, KeysOwned, NamesUnique, HashesRight

----------------------------------------------------------------------------
(* The functions of mutator.c keep what the mutator owns in order.         *)

LEMMA OwnInvSetNew ==
    ASSUME OwnInv, NEW name \in Names, NEW value \in Values, SetNew(name, value)
    PROVE  OwnInv'
<1> USE DEF history
<1>1. PICK a \in Addrs :
          /\ text[a] = NULL
          /\ text' = [text EXCEPT ![a] = name]
          /\ HashAppend(name, a, value)
  BY DEF SetNew
<1> DEFINE e == [hash |-> HashOf[name], key |-> a, value |-> value]
           n == Len(entries)
<1>2. e \in Entries
  BY HashAssumption DEF Entries
<1>3. entries \in Seq(Entries) /\ n \in Nat /\ DOMAIN entries = 1..n
  BY LengthFacts DEF OwnInv, MutatorTypeOK
<1>4. entries' = Append(entries, e)
  BY <1>1 DEF HashAppend
<1>5. /\ entries' \in Seq(Entries) /\ Len(entries') = n + 1
      /\ \A k \in 1..n : entries'[k] = entries[k]
      /\ entries'[n + 1] = e
  BY <1>2, <1>3, <1>4, AppendProperties
<1>6. DOMAIN entries' = 1..(n + 1)
  BY <1>5, LenProperties
<1> HIDE DEF n
<1>7. \A k \in 1..n : entries[k].key \in Addrs /\ entries[k].key # a
                      /\ text[entries[k].key] \in Names
  BY <1>1, <1>3, EntryFacts, NullAssumption
<1>8. \A k \in 1..n : text'[entries[k].key] = text[entries[k].key]
  BY <1>1, <1>7 DEF OwnInv, MutatorTypeOK
<1>9. text'[a] = name /\ name # NULL
  BY <1>1, NullAssumption DEF OwnInv, MutatorTypeOK
<1>10. MutatorTypeOK'
  BY <1>1, <1>5 DEF OwnInv, MutatorTypeOK, SetNew
<1>11. KeysOwned'
  <2>1. {b \in Addrs : text'[b] # NULL} = {b \in Addrs : text[b] # NULL} \cup {a}
    BY <1>1, <1>9 DEF OwnInv, MutatorTypeOK
  <2>2. {entries'[k].key : k \in DOMAIN entries'}
            = {entries[k].key : k \in DOMAIN entries} \cup {a}
    BY <1>3, <1>5, <1>6
  <2>3. \A j, k \in DOMAIN entries' : entries'[j].key = entries'[k].key => j = k
    BY <1>3, <1>5, <1>6, <1>7 DEF OwnInv, KeysOwned
  <2> QED
    BY <2>1, <2>2, <2>3 DEF OwnInv, KeysOwned
<1>12. \A k \in 1..n : text[entries[k].key] # name
  BY <1>3, HitsFacts DEF SetNew
<1>13. NamesUnique'
  BY <1>3, <1>5, <1>6, <1>8, <1>9, <1>12 DEF OwnInv, NamesUnique
<1>14. HashesRight'
  BY <1>3, <1>5, <1>6, <1>8, <1>9 DEF OwnInv, HashesRight
<1> QED
  BY <1>10, <1>11, <1>13, <1>14 DEF OwnInv, SetNew

LEMMA OwnInvSetAgain ==
    ASSUME OwnInv, NEW name \in Names, NEW value \in Values, SetAgain(name, value)
    PROVE  OwnInv'
<1> USE DEF history
<1> DEFINE p == FirstOf(Hits(name))
<1>1. p \in DOMAIN entries /\ entries' = [entries EXCEPT ![p].value = value]
      /\ UNCHANGED text
  BY HitsFacts DEF SetAgain, HashReplace, Hits
<1>2. [entries[p] EXCEPT !.value = value] \in Entries
  BY <1>1, EntryFacts DEF Entries
<1> HIDE DEF p
<1>3. /\ entries' \in Seq(Entries) /\ Len(entries') = Len(entries)
      /\ \A k \in 1..Len(entries) : entries'[k] =
             IF k = p THEN [entries[p] EXCEPT !.value = value] ELSE entries[k]
  BY <1>1, <1>2, LengthFacts, ExceptSeq DEF OwnInv, MutatorTypeOK
<1>4. DOMAIN entries' = DOMAIN entries
      /\ \A k \in DOMAIN entries : /\ entries'[k].key = entries[k].key
                                   /\ entries'[k].hash = entries[k].hash
  BY <1>1, <1>3, LengthFacts, LenProperties, EntryFacts DEF Entries
<1>5. MutatorTypeOK'
  BY <1>1, <1>3 DEF OwnInv, MutatorTypeOK, SetAgain
<1>6. KeysOwned'
  BY <1>1, <1>4 DEF OwnInv, KeysOwned
<1>7. NamesUnique'
  BY <1>1, <1>4 DEF OwnInv, NamesUnique
<1>8. HashesRight'
  BY <1>1, <1>4 DEF OwnInv, HashesRight
<1> QED
  BY <1>5, <1>6, <1>7, <1>8 DEF OwnInv, SetAgain

(* The entry hash_set removes is the one whose key is freed.               *)
LEMMA OwnInvSetNull ==
    ASSUME OwnInv, NEW name \in Names, SetNull(name), Hits(name) # {}
    PROVE  OwnInv'
<1> DEFINE p == FirstOf(Hits(name))
           a == entries[p].key
           n == Len(entries)
<1>1. /\ p \in DOMAIN entries
      /\ entries' = RemoveAt(entries, p)
      /\ text' = [text EXCEPT ![a] = NULL]
  BY HitsFacts DEF SetNull, HashRemove, Hits
<1> HIDE DEF p
<1>2. n \in Nat /\ DOMAIN entries = 1..n /\ entries \in Seq(Entries) /\ a \in Addrs
  BY <1>1, LengthFacts, EntryFacts DEF OwnInv, MutatorTypeOK
<1>3. /\ entries' \in Seq(Entries) /\ Len(entries') = n - 1
      /\ \A k \in 1..(n - 1) : entries'[k] = IF k < p THEN entries[k] ELSE entries[k + 1]
  BY <1>1, <1>2, RemoveAtProperties
<1>4. DOMAIN entries' = 1..(n - 1)
  BY <1>3, LenProperties
<1> HIDE DEF n, a
<1> DEFINE at(k) == IF k < p THEN k ELSE k + 1
<1>5. \A k \in 1..(n - 1) : at(k) \in 1..n /\ at(k) # p /\ entries'[k] = entries[at(k)]
  BY <1>1, <1>2, <1>3
<1>6. \A j, k \in 1..(n - 1) : at(j) = at(k) => j = k
  BY <1>1, <1>2
<1>7. \A k \in 1..n : k # p => \E j \in 1..(n - 1) : at(j) = k
  <2> SUFFICES ASSUME NEW k \in 1..n, k # p
               PROVE  \E j \in 1..(n - 1) : at(j) = k
    OBVIOUS
  <2>1. CASE k < p
    BY <2>1, <1>1, <1>2
  <2>2. CASE k > p
    <3>1. k - 1 \in 1..(n - 1) /\ at(k - 1) = k
      BY <2>2, <1>1, <1>2
    <3> QED
      BY <3>1
  <2> QED
    BY <1>1, <1>2, <2>1, <2>2
<1> HIDE DEF at
<1>8. \A k \in 1..n : k # p => entries[k].key # a
  BY <1>1, <1>2 DEF OwnInv, KeysOwned, a
<1>9. \A k \in 1..(n - 1) : entries'[k].key # a /\ entries'[k].key \in Addrs
  BY <1>2, <1>5, <1>8, EntryFacts
<1>10. \A k \in 1..(n - 1) : text'[entries'[k].key] = text[entries[at(k)].key]
  BY <1>1, <1>5, <1>9 DEF OwnInv, MutatorTypeOK
<1>11. MutatorTypeOK'
  BY <1>1, <1>2, <1>3 DEF OwnInv, MutatorTypeOK, SetNull
<1>12. KeysOwned'
  <2>1. {b \in Addrs : text'[b] # NULL} = {b \in Addrs : text[b] # NULL} \ {a}
    BY <1>1 DEF OwnInv, MutatorTypeOK
  <2>2. {entries'[k].key : k \in 1..(n - 1)} = {entries[k].key : k \in 1..n} \ {a}
    <3>1. ASSUME NEW k \in 1..(n - 1) PROVE entries'[k].key \in {entries[j].key : j \in 1..n} \ {a}
      BY <1>5, <1>9
    <3>2. ASSUME NEW k \in 1..n, entries[k].key # a
          PROVE  entries[k].key \in {entries'[j].key : j \in 1..(n - 1)}
      <4>1. k # p
        BY <3>2 DEF a
      <4>2. PICK j \in 1..(n - 1) : at(j) = k
        BY <4>1, <1>7
      <4> QED
        BY <4>2, <1>5
    <3> QED
      BY <3>1, <3>2
  <2>3. \A j, k \in 1..(n - 1) : entries'[j].key = entries'[k].key => j = k
    BY <1>2, <1>5, <1>6 DEF OwnInv, KeysOwned
  <2> QED
    BY <1>2, <1>4, <2>1, <2>2, <2>3 DEF OwnInv, KeysOwned
<1>13. NamesUnique'
  BY <1>2, <1>4, <1>5, <1>6, <1>10 DEF OwnInv, NamesUnique
<1>14. HashesRight'
  BY <1>2, <1>4, <1>5, <1>10 DEF OwnInv, HashesRight
<1> QED
  BY <1>11, <1>12, <1>13, <1>14 DEF OwnInv, SetNull

LEMMA OwnInvReset ==
    ASSUME OwnInv, MutatorReset
    PROVE  OwnInv'
<1>1. entries' = <<>> /\ DOMAIN entries' = {}
  BY DEF MutatorReset
<1>2. \A a \in Addrs : text'[a] = NULL
  BY DEF MutatorReset, OwnInv, KeysOwned
<1>3. MutatorTypeOK'
  BY <1>1, EmptySeq DEF MutatorReset, OwnInv, MutatorTypeOK
<1> QED
  BY <1>1, <1>2, <1>3
  DEF OwnInv, KeysOwned, NamesUnique, HashesRight, MutatorReset

(* Nothing else touches the table.                                         *)
LEMMA OwnInvElsewhere ==
    ASSUME OwnInv, UNCHANGED table, MutatorTypeOK', inside' => position' > 0
    PROVE  OwnInv'
  BY DEF OwnInv, table, KeysOwned, NamesUnique, HashesRight

LEMMA OwnInvForeach ==
    ASSUME OwnInv, Foreach \/ Visit \/ Return \/ Finish
    PROVE  OwnInv'
<1> USE DEF history, table
<1>1. UNCHANGED table
  BY DEF Foreach, Visit, Return, Finish
<1>2. CASE Foreach
  <2>1. seen' \in Seq(Names) /\ shrunk' \in BOOLEAN /\ position' = 1 /\ UNCHANGED inside
    BY <1>2, EmptySeq DEF Foreach
  <2>2. MutatorTypeOK'
    BY <1>1, <2>1 DEF OwnInv, MutatorTypeOK
  <2> QED
    BY <1>1, <2>1, <2>2, OwnInvElsewhere
<1>3. CASE Visit
  <2>1. text[entries[position].key] \in Names /\ position > 0
    BY <1>3, EntryFacts, LengthFacts DEF Visit
  <2>2. Append(seen, text[entries[position].key]) \in Seq(Names)
    BY <2>1, AppendProperties DEF OwnInv, MutatorTypeOK
  <2>3. MutatorTypeOK'
    BY <1>3, <2>2 DEF Visit, OwnInv, MutatorTypeOK
  <2> QED
    BY <1>1, <1>3, <2>1, <2>3, OwnInvElsewhere DEF Visit
<1>4. CASE Return
  <2>1. position' = position + 1 /\ inside' \in BOOLEAN /\ ~inside' /\ UNCHANGED <<seen, shrunk>>
    BY <1>4 DEF Return
  <2>2. MutatorTypeOK'
    BY <1>1, <2>1 DEF OwnInv, MutatorTypeOK
  <2> QED
    BY <1>1, <2>1, <2>2, OwnInvElsewhere
<1>5. CASE Finish
  BY <1>1, <1>5, OwnInvElsewhere, EmptySeq DEF Finish, OwnInv, MutatorTypeOK
<1> QED
  BY <1>2, <1>3, <1>4, <1>5

LEMMA OwnInvNext ==
    ASSUME OwnInv, [MutatorNext]_mutatorVars
    PROVE  OwnInv'
<1> USE DEF history, table
<1>1. CASE UNCHANGED mutatorVars
  BY <1>1, OwnInvElsewhere DEF mutatorVars, OwnInv, MutatorTypeOK
<1>2. ASSUME NEW name \in Names, MutatorGet(name) \/ SetFails(name)
      PROVE  OwnInv'
  BY <1>2, OwnInvElsewhere DEF MutatorGet, SetFails, OwnInv, MutatorTypeOK
<1>3. ASSUME NEW name \in Names, SetNull(name)
      PROVE  OwnInv'
  <2>1. CASE Hits(name) = {}
    BY <1>3, <2>1, OwnInvElsewhere DEF SetNull, OwnInv, MutatorTypeOK
  <2> QED
    BY <1>3, <2>1, OwnInvSetNull
<1> QED
  BY <1>1, <1>2, <1>3, OwnInvSetNew, OwnInvSetAgain, OwnInvReset, OwnInvForeach DEF MutatorNext

(* The inductive invariant holds of every reachable state.                 *)
THEOREM OwnInvariant == MutatorSpec => []OwnInv
  BY OwnInvInit, OwnInvNext, PTL DEF MutatorSpec

(* Every reachable state of a mutator is well typed.                       *)
THEOREM MutatorTypeCorrect == MutatorSpec => []MutatorTypeOK
<1>1. OwnInv => MutatorTypeOK
  BY DEF OwnInv
<1> QED
  BY <1>1, OwnInvariant, PTL

(* Its keys are allocated once, and as long as their entries last.         *)
THEOREM KeysOwnedAlways == MutatorSpec => []KeysOwned
<1>1. OwnInv => KeysOwned
  BY DEF OwnInv
<1> QED
  BY <1>1, OwnInvariant, PTL

(* It never holds two entries of one name.                                 *)
THEOREM NamesUniqueAlways == MutatorSpec => []NamesUnique
<1>1. OwnInv => NamesUnique
  BY DEF OwnInv
<1> QED
  BY <1>1, OwnInvariant, PTL
----------------------------------------------------------------------------
(* Foreach.                                                                *)

LEMMA ForeachSetNew ==
    ASSUME OwnInv, ForeachComplete,
           NEW name \in Names, NEW value \in Values, SetNew(name, value)
    PROVE  ForeachComplete'
<1> DEFINE n == Len(entries)
<1>1. PICK a \in Addrs :
          /\ text[a] = NULL
          /\ text' = [text EXCEPT ![a] = name]
          /\ HashAppend(name, a, value)
  BY DEF SetNew
<1>2. [hash |-> HashOf[name], key |-> a, value |-> value] \in Entries
  BY HashAssumption DEF Entries
<1>3. /\ entries' \in Seq(Entries) /\ Len(entries') = n + 1
      /\ \A k \in 1..n : entries'[k] = entries[k]
  BY <1>1, <1>2, AppendProperties DEF HashAppend, OwnInv, MutatorTypeOK
<1>4. DOMAIN entries' = 1..(n + 1) /\ DOMAIN entries = 1..n /\ n \in Nat
  BY <1>3, LenProperties, LengthFacts
<1> HIDE DEF n
<1>5. \A k \in 1..n : entries[k].key \in Addrs /\ entries[k].key # a
  BY <1>1, <1>4, EntryFacts, NullAssumption
<1>6. \A k \in 1..n : text'[entries'[k].key] = text[entries[k].key]
  BY <1>1, <1>3, <1>5 DEF OwnInv, MutatorTypeOK
<1> QED
  BY <1>3, <1>4, <1>6 DEF ForeachComplete, SetNew, history

LEMMA ForeachSetAgain ==
    ASSUME OwnInv, ForeachComplete,
           NEW name \in Names, NEW value \in Values, SetAgain(name, value)
    PROVE  ForeachComplete'
<1> DEFINE p == FirstOf(Hits(name))
<1>1. p \in DOMAIN entries /\ entries' = [entries EXCEPT ![p].value = value]
      /\ UNCHANGED text
  BY HitsFacts DEF SetAgain, HashReplace, Hits
<1> HIDE DEF p
<1>2. DOMAIN entries' = DOMAIN entries
      /\ \A k \in DOMAIN entries : entries'[k].key = entries[k].key
  BY <1>1, EntryFacts, LengthFacts DEF Entries, OwnInv, MutatorTypeOK
<1> QED
  BY <1>1, <1>2 DEF ForeachComplete, SetAgain, history

LEMMA ForeachVisit ==
    ASSUME OwnInv, ForeachComplete, Visit
    PROVE  ForeachComplete'
<1> USE DEF table
<1> SUFFICES ASSUME ~shrunk
             PROVE  ForeachComplete'
  BY DEF Visit, ForeachComplete
<1>1. position \in DOMAIN entries /\ position \in Nat \ {0} /\ ~inside
      /\ UNCHANGED <<entries, text, position, shrunk>>
  BY LengthFacts DEF Visit
<1>2. text[entries[position].key] \in Names /\ seen \in Seq(Names)
      /\ seen' = Append(seen, text[entries[position].key])
  BY <1>1, EntryFacts DEF Visit, OwnInv, MutatorTypeOK
<1>3. Len(seen) = position - 1
      /\ \A k \in DOMAIN seen : k \in DOMAIN entries /\ seen[k] = text[entries[k].key]
  BY <1>1 DEF ForeachComplete
<1>4. /\ Len(seen') = position
      /\ \A k \in 1..(position - 1) : seen'[k] = seen[k]
      /\ seen'[position] = text[entries[position].key]
      /\ DOMAIN seen' = 1..position /\ DOMAIN seen = 1..(position - 1)
  <2>1. /\ seen' \in Seq(Names) /\ Len(seen') = Len(seen) + 1
        /\ \A k \in 1..Len(seen) : seen'[k] = seen[k]
        /\ seen'[Len(seen) + 1] = text[entries[position].key]
    BY <1>2, AppendProperties
  <2>2. DOMAIN seen' = 1..Len(seen') /\ DOMAIN seen = 1..Len(seen)
    BY <1>2, <2>1, LenProperties
  <2> QED
    BY <1>1, <1>3, <2>1, <2>2
<1>5. inside'
  BY DEF Visit
<1> QED
  BY <1>1, <1>3, <1>4, <1>5 DEF ForeachComplete

LEMMA ForeachNext ==
    ASSUME OwnInv, ForeachComplete, [MutatorNext]_mutatorVars
    PROVE  ForeachComplete'
<1> USE DEF history, table
<1>1. CASE UNCHANGED mutatorVars
  BY <1>1 DEF mutatorVars, ForeachComplete
<1>2. ASSUME NEW name \in Names, MutatorGet(name) \/ SetFails(name)
      PROVE  ForeachComplete'
  BY <1>2 DEF MutatorGet, SetFails, ForeachComplete
<1>3. ASSUME NEW name \in Names, SetNull(name)
      PROVE  ForeachComplete'
  <2>1. CASE Hits(name) = {}
    BY <1>3, <2>1 DEF SetNull, ForeachComplete
  <2>2. CASE Hits(name) # {}
    BY <1>3, <2>2 DEF SetNull, ForeachComplete
  <2> QED
    BY <2>1, <2>2
<1>4. CASE MutatorReset
  <2>1. CASE entries = <<>>
    <3>1. UNCHANGED entries /\ UNCHANGED <<position, inside, seen>> /\ DOMAIN entries = {}
          /\ shrunk' = (shrunk \/ (position > 0 /\ entries # <<>>))
      BY <1>4, <2>1 DEF MutatorReset
    <3> QED
      BY <2>1, <3>1 DEF ForeachComplete
  <2>2. CASE entries # <<>>
    BY <1>4, <2>2 DEF MutatorReset, ForeachComplete
  <2> QED
    BY <2>1, <2>2
<1>5. CASE Foreach
  <2>1. position' = 1 /\ ~inside' /\ seen' = <<>>
    BY <1>5 DEF Foreach, OwnInv
  <2>2. Len(seen') = 0 /\ DOMAIN seen' = {}
    BY <2>1, EmptySeq
  <2> QED
    BY <2>1, <2>2 DEF ForeachComplete
<1>6. CASE Return
  BY <1>6 DEF Return, ForeachComplete, OwnInv, MutatorTypeOK
<1>7. CASE Finish
  BY <1>7 DEF Finish, ForeachComplete
<1> QED
  BY <1>1, <1>2, <1>3, <1>4, <1>5, <1>6, <1>7,
     ForeachSetNew, ForeachSetAgain, ForeachVisit DEF MutatorNext

(* A foreach during which nothing is removed calls back every name once.   *)
THEOREM ForeachCompleteAlways == MutatorSpec => []ForeachComplete
<1>1. MutatorInit => ForeachComplete
  BY DEF MutatorInit, ForeachComplete
<1>2. OwnInv /\ ForeachComplete /\ [MutatorNext]_mutatorVars => ForeachComplete'
  BY ForeachNext
<1> QED
  BY <1>1, <1>2, OwnInvariant, PTL DEF MutatorSpec
----------------------------------------------------------------------------
(* The mutator implements the dictionary of its entries.                   *)

Pairs == [name : Names, value : Values]

LEMMA PairsOfTable ==
    ASSUME NEW e \in Seq(Entries), NEW t \in [Addrs -> Names \cup {NULL}],
           \A k \in DOMAIN e : t[e[k].key] # NULL
    PROVE  LET d == [k \in DOMAIN e |-> [name |-> t[e[k].key], value |-> e[k].value]]
           IN  d \in Seq(Pairs) /\ Len(d) = Len(e)
<1> DEFINE d == [k \in DOMAIN e |-> [name |-> t[e[k].key], value |-> e[k].value]]
<1>1. DOMAIN e = 1..Len(e) /\ Len(e) \in Nat
  BY LenProperties
<1>2. \A k \in DOMAIN e : e[k] \in Entries
  BY <1>1, ElementOfSeq
<1>3. \A k \in DOMAIN e : [name |-> t[e[k].key], value |-> e[k].value] \in Pairs
  BY <1>2 DEF Entries, Pairs
<1>4. d \in [1..Len(e) -> Pairs]
  BY <1>1, <1>3
<1> HIDE DEF d
<1>5. d \in Seq(Pairs)
  BY <1>1, <1>4, SeqDef
<1>6. Len(d) = Len(e)
  BY <1>1, <1>4, <1>5, LenProperties
<1> QED
  BY <1>5, <1>6 DEF d

LEMMA DictFacts ==
    ASSUME OwnInv
    PROVE  /\ dict \in Seq(Pairs)
           /\ Len(dict) = Len(entries)
           /\ DOMAIN dict = DOMAIN entries
           /\ \A k \in DOMAIN entries :
                  dict[k] = [name |-> text[entries[k].key], value |-> entries[k].value]
<1>1. \A k \in DOMAIN entries : text[entries[k].key] # NULL
  BY EntryFacts, NullAssumption
<1>2. dict \in Seq(Pairs) /\ Len(dict) = Len(entries)
  BY <1>1, PairsOfTable DEF dict, OwnInv, MutatorTypeOK
<1> QED
  BY <1>2 DEF dict

(* The same of the next state.                                             *)
LEMMA NextDictFacts ==
    ASSUME OwnInv'
    PROVE  /\ dict' \in Seq(Pairs)
           /\ Len(dict') = Len(entries')
           /\ \A k \in DOMAIN entries' :
                  dict'[k] = [name |-> text'[entries'[k].key], value |-> entries'[k].value]
<1>1. entries' \in Seq(Entries) /\ text' \in [Addrs -> Names \cup {NULL}]
  BY DEF OwnInv, MutatorTypeOK
<1>2. \A k \in DOMAIN entries' : text'[entries'[k].key] # NULL
  <2> SUFFICES ASSUME NEW k \in DOMAIN entries' PROVE text'[entries'[k].key] # NULL
    OBVIOUS
  <2>1. k \in 1..Len(entries')
    BY <1>1, LenProperties
  <2>2. entries'[k] \in Entries
    BY <1>1, <2>1, ElementOfSeq
  <2> QED
    BY <2>2 DEF OwnInv, KeysOwned, Entries
<1>3. dict' \in Seq(Pairs) /\ Len(dict') = Len(entries')
  BY <1>1, <1>2, PairsOfTable DEF dict
<1> QED
  BY <1>3 DEF dict

(* Searching the entries by hash and by comparison finds what the          *)
(* dictionary finds by name.                                               *)
LEMMA HitsAreNames ==
    ASSUME OwnInv, NEW name \in Names
    PROVE  /\ Hits(name) = {k \in DOMAIN dict : dict[k].name = name}
           /\ Hits(name) = {} <=> name \notin Dict!NamesOf(dict)
           /\ Hits(name) # {} =>
                  /\ FirstOf(Hits(name)) \in Hits(name)
                  /\ (CHOOSE k \in DOMAIN dict : dict[k].name = name) = FirstOf(Hits(name))
                  /\ (CHOOSE k \in DOMAIN dict : dict[k].name = name) = LastOf(Hits(name))
<1>1. Hits(name) = {k \in DOMAIN dict : dict[k].name = name}
  BY DictFacts, HitsFacts
<1>2. \A j, k \in Hits(name) : j = k
  BY HitsFacts
<1>3. ASSUME Hits(name) # {}
      PROVE  /\ FirstOf(Hits(name)) \in Hits(name)
             /\ LastOf(Hits(name)) \in Hits(name)
             /\ (CHOOSE k \in DOMAIN dict : dict[k].name = name) \in Hits(name)
  BY <1>1, <1>3, HitsFacts
<1> QED
  BY <1>1, <1>2, <1>3 DEF Dict!NamesOf

LEMMA DictGet ==
    ASSUME OwnInv, NEW name \in Names, MutatorGet(name)
    PROVE  Dict!Get(name)
<1>1. UNCHANGED <<dict, position, inside>>
  BY DEF MutatorGet, table, dict
<1>2. HashGet(name) = Dict!Lookup(dict, name)
  <2>1. CASE Hits(name) = {}
    BY <2>1, HitsAreNames DEF HashGet, Dict!Lookup
  <2>2. CASE Hits(name) # {}
    <3> DEFINE k == LastOf(Hits(name))
    <3>1. k \in DOMAIN entries /\ (CHOOSE j \in DOMAIN dict : dict[j].name = name) = k
      BY <2>2, HitsFacts, HitsAreNames DEF Hits
    <3>2. HashGet(name) = entries[k].value /\ Dict!Lookup(dict, name) = dict[k].value
      BY <2>2, <3>1, HitsAreNames DEF HashGet, Dict!Lookup
    <3> QED
      BY <3>1, <3>2, DictFacts
  <2> QED
    BY <2>1, <2>2
<1> QED
  BY <1>1, <1>2 DEF MutatorGet, Dict!Get, CallerInControl, Dict!CallerInControl,
     Answer, Dict!Answer

LEMMA DictSetNew ==
    ASSUME OwnInv, NEW name \in Names, NEW value \in Values, SetNew(name, value)
    PROVE  Dict!Set(name, value)
<1> DEFINE n == Len(entries)
           x == [name |-> name, value |-> value]
<1>1. PICK a \in Addrs :
          /\ text[a] = NULL
          /\ text' = [text EXCEPT ![a] = name]
          /\ HashAppend(name, a, value)
  BY DEF SetNew
<1>2. [hash |-> HashOf[name], key |-> a, value |-> value] \in Entries
  BY HashAssumption DEF Entries
<1>3. /\ entries' \in Seq(Entries) /\ Len(entries') = n + 1
      /\ \A k \in 1..n : entries'[k] = entries[k]
      /\ entries'[n + 1].key = a /\ entries'[n + 1].value = value
  BY <1>1, <1>2, AppendProperties DEF HashAppend, OwnInv, MutatorTypeOK
<1>4. n \in Nat /\ DOMAIN entries = 1..n /\ Len(dict) = n /\ dict \in Seq(Pairs)
      /\ DOMAIN entries' = 1..(n + 1)
  BY <1>3, LenProperties, LengthFacts, DictFacts
<1> HIDE DEF n
<1>5. \A k \in 1..n : entries[k].key \in Addrs /\ entries[k].key # a
  BY <1>1, <1>4, EntryFacts, NullAssumption
<1>6. \A k \in 1..n : text'[entries'[k].key] = text[entries[k].key]
  BY <1>1, <1>3, <1>5 DEF OwnInv, MutatorTypeOK
<1>7. text'[entries'[n + 1].key] = name
  BY <1>1, <1>3 DEF OwnInv, MutatorTypeOK
<1>8. OwnInv'
  BY OwnInvSetNew
<1>9. /\ dict' \in Seq(Pairs) /\ Len(dict') = n + 1
      /\ \A k \in 1..(n + 1) : dict'[k] =
             [name |-> text'[entries'[k].key], value |-> entries'[k].value]
  <2>1. /\ dict' \in Seq(Pairs) /\ Len(dict') = Len(entries')
        /\ \A k \in DOMAIN entries' : dict'[k] =
               [name |-> text'[entries'[k].key], value |-> entries'[k].value]
    BY <1>8, NextDictFacts
  <2> QED
    BY <1>3, <1>4, <2>1
<1>10. x \in Pairs
  BY DEF Pairs
<1>11. /\ Append(dict, x) \in Seq(Pairs) /\ Len(Append(dict, x)) = n + 1
       /\ \A k \in 1..n : Append(dict, x)[k] = dict[k]
       /\ Append(dict, x)[n + 1] = x
  BY <1>4, <1>10, AppendProperties
<1>12. \A k \in 1..(n + 1) : dict'[k] = Append(dict, x)[k]
  <2>1. ASSUME NEW k \in 1..n PROVE dict'[k] = dict[k]
    <3>1. k \in 1..(n + 1) /\ k \in DOMAIN entries
      BY <1>4
    <3>2. dict[k] = [name |-> text[entries[k].key], value |-> entries[k].value]
      BY <3>1, DictFacts
    <3> QED
      BY <1>3, <1>6, <1>9, <3>1, <3>2
  <2>2. n + 1 \in 1..(n + 1) /\ dict'[n + 1] = x
    BY <1>3, <1>4, <1>7, <1>9
  <2> QED
    BY <1>4, <1>11, <2>1, <2>2
<1>13. dict' = Append(dict, x)
  BY <1>9, <1>11, <1>12, SeqEqual
<1>14. name \notin Dict!NamesOf(dict) /\ value # NULL
  BY HitsAreNames, NullAssumption DEF SetNew
<1>15. Dict!Put(dict, name, value) = Append(dict, x)
  BY <1>14 DEF Dict!Put
<1> QED
  BY <1>13, <1>15 DEF SetNew, Dict!Set, CallerInControl, Dict!CallerInControl,
     Done, Dict!Done, Answer, Dict!Answer

LEMMA DictSetAgain ==
    ASSUME OwnInv, NEW name \in Names, NEW value \in Values, SetAgain(name, value)
    PROVE  Dict!Set(name, value)
<1> DEFINE p == FirstOf(Hits(name))
<1>1. p \in Hits(name) /\ p \in DOMAIN entries
      /\ entries' = [entries EXCEPT ![p].value = value] /\ UNCHANGED text
  BY HitsFacts DEF SetAgain, HashReplace, Hits
<1>2. \A k \in DOMAIN dict : dict[k].name = name <=> k = p
  BY <1>1, HitsAreNames, HitsFacts
<1> HIDE DEF p
<1>3. DOMAIN entries' = DOMAIN entries
      /\ \A k \in DOMAIN entries :
             /\ entries'[k].key = entries[k].key
             /\ entries'[k].value = IF k = p THEN value ELSE entries[k].value
  BY <1>1, EntryFacts, LengthFacts DEF Entries, OwnInv, MutatorTypeOK
<1>4. dict' = [k \in DOMAIN entries |->
                  [name |-> text[entries[k].key],
                   value |-> IF k = p THEN value ELSE entries[k].value]]
  BY <1>1, <1>3 DEF dict
<1>5. Dict!Replaced(dict, name, value) =
          [k \in DOMAIN entries |->
              [name |-> text[entries[k].key],
               value |-> IF k = p THEN value ELSE entries[k].value]]
  <2>1. ASSUME NEW k \in DOMAIN entries
        PROVE  (IF dict[k].name = name THEN [dict[k] EXCEPT !.value = value] ELSE dict[k])
                   = [name |-> text[entries[k].key],
                      value |-> IF k = p THEN value ELSE entries[k].value]
    BY <1>2, DictFacts
  <2> QED
    BY <2>1, DictFacts DEF Dict!Replaced
<1>6. name \in Dict!NamesOf(dict) /\ value # NULL
  BY <1>1, HitsAreNames, NullAssumption
<1>7. Dict!Put(dict, name, value) = Dict!Replaced(dict, name, value)
  BY <1>6 DEF Dict!Put
<1> QED
  BY <1>4, <1>5, <1>7 DEF SetAgain, Dict!Set, CallerInControl, Dict!CallerInControl,
     Done, Dict!Done, Answer, Dict!Answer

LEMMA DictSetNull ==
    ASSUME OwnInv, NEW name \in Names, SetNull(name)
    PROVE  Dict!Set(name, NULL)
<1> USE DEF Done, Dict!Done, Answer, Dict!Answer
<1>1. CASE Hits(name) = {}
  <2>1. Dict!Put(dict, name, NULL) = dict
    BY <1>1, HitsAreNames DEF Dict!Put
  <2>2. dict' = dict
    BY <1>1 DEF SetNull, table, dict
  <2> QED
    BY <2>1, <2>2 DEF SetNull, Dict!Set, CallerInControl, Dict!CallerInControl
<1>2. CASE Hits(name) # {}
  <2> DEFINE p == FirstOf(Hits(name))
             a == entries[p].key
             n == Len(entries)
  <2> HIDE DEF Done, Dict!Done, Answer, Dict!Answer
  <2>1. /\ p \in DOMAIN entries
        /\ entries' = RemoveAt(entries, p)
        /\ text' = [text EXCEPT ![a] = NULL]
        /\ (CHOOSE k \in DOMAIN dict : dict[k].name = name) = p
    BY <1>2, HitsFacts, HitsAreNames DEF SetNull, HashRemove, Hits
  <2> HIDE DEF p
  <2>2. n \in Nat /\ DOMAIN entries = 1..n /\ entries \in Seq(Entries)
        /\ dict \in Seq(Pairs) /\ DOMAIN dict = 1..n /\ Len(dict) = n
    BY LengthFacts, DictFacts DEF OwnInv, MutatorTypeOK
  <2>3. /\ entries' \in Seq(Entries) /\ Len(entries') = n - 1
        /\ \A k \in 1..(n - 1) : entries'[k] = IF k < p THEN entries[k] ELSE entries[k + 1]
    BY <2>1, <2>2, RemoveAtProperties
  <2>4. /\ RemoveAt(dict, p) \in Seq(Pairs) /\ Len(RemoveAt(dict, p)) = n - 1
        /\ \A k \in 1..(n - 1) :
               RemoveAt(dict, p)[k] = IF k < p THEN dict[k] ELSE dict[k + 1]
    <3>1. dict \in Seq(Pairs) /\ p \in DOMAIN dict
      BY <2>1, <2>2
    <3>2. /\ RemoveAt(dict, p) \in Seq(Pairs) /\ Len(RemoveAt(dict, p)) = Len(dict) - 1
          /\ \A k \in 1..(Len(dict) - 1) :
                 RemoveAt(dict, p)[k] = IF k < p THEN dict[k] ELSE dict[k + 1]
      BY <3>1, RemoveAtProperties
    <3> QED
      BY <2>2, <3>2
  <2>5. OwnInv'
    BY <1>2, OwnInvSetNull
  <2>6. /\ dict' \in Seq(Pairs) /\ Len(dict') = n - 1
        /\ \A k \in 1..(n - 1) : dict'[k] =
               [name |-> text'[entries'[k].key], value |-> entries'[k].value]
    <3>1. /\ dict' \in Seq(Pairs) /\ Len(dict') = Len(entries')
          /\ \A k \in DOMAIN entries' : dict'[k] =
                 [name |-> text'[entries'[k].key], value |-> entries'[k].value]
      BY <2>5, NextDictFacts
    <3>2. DOMAIN entries' = 1..(n - 1)
      BY <2>3, LenProperties
    <3> QED
      BY <2>3, <3>1, <3>2
  <2> HIDE DEF n
  <2>7. ASSUME NEW k \in 1..(n - 1)
        PROVE  dict'[k] = RemoveAt(dict, p)[k]
    <3> DEFINE j == IF k < p THEN k ELSE k + 1
    <3>1. j \in DOMAIN entries /\ j # p /\ entries'[k] = entries[j]
          /\ RemoveAt(dict, p)[k] = dict[j]
      BY <2>1, <2>2, <2>3, <2>4
    <3> HIDE DEF j
    <3>2. entries[j].key \in Addrs /\ entries[j].key # a
      BY <2>1, <3>1, EntryFacts DEF OwnInv, KeysOwned
    <3>3. text'[entries[j].key] = text[entries[j].key]
      BY <2>1, <3>2 DEF OwnInv, MutatorTypeOK
    <3> QED
      BY <2>6, <3>1, <3>3, DictFacts
  <2>8. dict' = RemoveAt(dict, p)
    BY <2>4, <2>6, <2>7, SeqEqual
  <2>9. Dict!Put(dict, name, NULL) = RemoveAt(dict, p)
    BY <1>2, <2>1, HitsAreNames DEF Dict!Put, Dict!Without, Dict!RemoveAt, RemoveAt
  <2> QED
    BY <2>8, <2>9
    DEF SetNull, Dict!Set, CallerInControl, Dict!CallerInControl, Done, Dict!Done,
        Answer, Dict!Answer
<1> QED
  BY <1>1, <1>2

LEMMA DictNext ==
    ASSUME OwnInv, [MutatorNext]_mutatorVars
    PROVE  [Dict!Next]_(Dict!vars)
<1> USE DEF CallerInControl, Dict!CallerInControl, Dict!vars, table, history
<1>1. CASE UNCHANGED mutatorVars
  BY <1>1 DEF mutatorVars, dict
<1>2. ASSUME NEW name \in Names, MutatorGet(name) PROVE Dict!Next
  BY <1>2, DictGet DEF Dict!Next
<1>3. ASSUME NEW name \in Names, NEW value \in Values, SetFails(name) PROVE Dict!Next
  <2>1. Dict!SetFails(name, value)
    <3>1. name \notin Dict!NamesOf(dict) /\ value # NULL
      BY <1>3, HitsAreNames, NullAssumption DEF SetFails
    <3>2. dict' = dict
      BY <1>3 DEF SetFails, dict
    <3> QED
      BY <1>3, <3>1, <3>2
      DEF SetFails, Dict!SetFails, Failed, Dict!Failed, Done, Dict!Done, Answer, Dict!Answer
  <2> QED
    BY <2>1 DEF Dict!Next
<1>4. ASSUME NEW name \in Names, SetNull(name) PROVE Dict!Next
  BY <1>4, DictSetNull DEF Dict!Next
<1>5. ASSUME NEW name \in Names, NEW value \in Values,
             SetNew(name, value) \/ SetAgain(name, value)
      PROVE  Dict!Next
  BY <1>5, DictSetNew, DictSetAgain DEF Dict!Next
<1>6. CASE MutatorReset
  <2>1. dict' = <<>>
    BY <1>6 DEF MutatorReset, dict
  <2> QED
    BY <1>6, <2>1 DEF MutatorReset, Dict!Reset, Dict!Next, Done, Dict!Done, Answer, Dict!Answer
<1>7. CASE Foreach
  BY <1>7 DEF Foreach, Dict!Foreach, Dict!Next, dict
<1>8. CASE Visit
  BY <1>8, DictFacts DEF Visit, Dict!Visit, Dict!Next, dict, Answer, Dict!Answer
<1>9. CASE Return
  BY <1>9 DEF Return, Dict!Return, Dict!Next, dict
<1>10. CASE Finish
  BY <1>10, DictFacts DEF Finish, Dict!Finish, Dict!Next, dict
<1> QED
  BY <1>1, <1>2, <1>3, <1>4, <1>5, <1>6, <1>7, <1>8, <1>9, <1>10 DEF MutatorNext

(* A mutator is a dictionary: what its callers see of hashes, key strings  *)
(* and arrays, call after call and inside a foreach, is an ordered map.    *)
THEOREM MutatorIsDictionary == MutatorSpec => IsDictionary
<1>1. MutatorInit => Dict!Init
  BY DEF MutatorInit, Dict!Init, dict, Done, Dict!Done, Answer, Dict!Answer
<1>2. OwnInv /\ [MutatorNext]_mutatorVars => [Dict!Next]_(Dict!vars)
  BY DictNext
<1> QED
  BY <1>1, <1>2, OwnInvariant, PTL DEF MutatorSpec, IsDictionary, Dict!Spec
=============================================================================
