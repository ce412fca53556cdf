--------------------------- MODULE VariableProof ---------------------------
(* Theorems about variables.  About VariableStream, for bytes and integers *)
(* of any width: what is serialised is deserialised, however it arrives.   *)
(* About VariableMemory, for any program and any memory: every block has   *)
(* one owner, whatever fails.                                              *)
EXTENDS VariableStream, VariableMemory, ArraySeqProof

----------------------------------------------------------------------------
(* Division.                                                               *)

LEMMA Division ==
    ASSUME NEW a \in Int, NEW b \in Nat \ {0}
    PROVE  a = b * (a \div b) + (a % b) /\ a % b \in 0..(b - 1) /\ a \div b \in Int
OBVIOUS

LEMMA DivisionUnique ==
    ASSUME NEW a \in Int, NEW b \in Nat \ {0}, NEW q \in Int, NEW r \in 0..(b - 1),
           a = b * q + r
    PROVE  a \div b = q /\ a % b = r
OBVIOUS

LEMMA DivisionTwice ==
    ASSUME NEW a \in Int, NEW b \in Nat \ {0}, NEW c \in Nat \ {0}
    PROVE  (a \div b) \div c = a \div (b * c)
OBVIOUS

(* A number from its lowest digit and those above.                         *)
IsDigits(q, b, p, t, u, r) == q = b * (p * t + u) + r

LEMMA DigitsApart ==
    ASSUME NEW q \in Int, NEW b \in Nat \ {0}, NEW p \in Nat \ {0},
           NEW t \in Int, NEW u \in 0..(p - 1), NEW r \in 0..(b - 1),
           IsDigits(q, b, p, t, u, r)
    PROVE  q % (b * p) = u * b + r
<1>1. q = (b * p) * t + (u * b + r)
  BY DEF IsDigits
<1>2. PICK v \in Nat : p = u + 1 + v
  <2>1. p - 1 - u \in Nat /\ p = u + 1 + (p - 1 - u)
    OBVIOUS
  <2> QED
    BY <2>1
<1>3. b * p = b * u + b + b * v /\ b * v \in Nat /\ b * u \in Nat
  BY <1>2
<1>4. u * b + r \in 0..(b * p - 1) /\ b * p \in Nat \ {0}
  BY <1>3
<1>5. PICK m \in Nat \ {0} : m = b * p
  BY <1>4
<1>6. PICK x \in 0..(m - 1) : x = u * b + r
  BY <1>4, <1>5
<1>7. q = m * t + x
  BY <1>1, <1>5, <1>6
<1>8. q % m = x
  BY <1>7, DivisionUnique
<1> QED
  BY <1>5, <1>6, <1>8

----------------------------------------------------------------------------
(* Powers of the base.                                                     *)

LEMMA Widths ==
    /\ Base \in Nat \ {0} /\ 16 < Base /\ Base % 2 = 0
    /\ W16 \in 2..W64 /\ W32 \in 2..W64 /\ W64 \in Nat
  BY WidthAssumption

LEMMA PowerFacts ==
    /\ Power[0] = 1
    /\ \A k \in 1..W64 : Power[k] = Base * Power[k - 1]
    /\ \A k \in 0..W64 : Power[k] \in Nat \ {0}
<1> DEFINE S == Nat \ {0}
           op == [x \in (1..W64) \X S |-> Base * x[2]]
<1>1. op \in [(1..W64) \X S -> S]
  BY Widths
<1>2. \A k \in 1..W64, p \in S : op[<<k, p>>] = Base * p
  OBVIOUS
<1> HIDE DEF op
<1>3. PICK f \in [0..W64 -> S] : Iterate(f, 1, W64, op)
  <2>1. 1 \in S /\ W64 \in Nat
    BY Widths
  <2> HIDE DEF S
  <2> QED
    BY <1>1, <2>1, Iterates
<1>4. \A k \in 0..W64 : f[k] = IF k = 0 THEN 1 ELSE Base * f[k - 1]
  <2> SUFFICES ASSUME NEW k \in 0..W64
               PROVE  f[k] = IF k = 0 THEN 1 ELSE Base * f[k - 1]
    OBVIOUS
  <2>1. k = 0 => f[k] = 1
    BY <1>3 DEF Iterate
  <2>2. ASSUME k # 0 PROVE f[k] = Base * f[k - 1]
    <3>1. k \in 1..W64 /\ k - 1 \in 0..W64
      BY <2>2, Widths
    <3>2. f[k] = op[<<k, f[k - 1]>>]
      BY <1>3, <3>1 DEF Iterate
    <3> QED
      BY <1>2, <1>3, <3>1, <3>2
  <2> QED
    BY <2>1, <2>2
<1>5. f = [k \in 0..W64 |-> IF k = 0 THEN 1 ELSE Base * f[k - 1]]
  <2>1. f = [k \in 0..W64 |-> f[k]]
    BY <1>3
  <2> QED
    BY <1>4, <2>1
<1>6. Power = [k \in 0..W64 |-> IF k = 0 THEN 1 ELSE Base * Power[k - 1]]
  BY <1>5 DEF Power
<1>7. Power[0] = 1
  BY <1>6, Widths
<1>8. ASSUME NEW k \in 1..W64 PROVE Power[k] = Base * Power[k - 1]
  <2>1. k \in 0..W64 /\ k # 0
    BY Widths
  <2> QED
    BY <1>6, <2>1
<1> DEFINE P == {k \in 0..W64 : Power[k] \in Nat \ {0}}
<1>9. 0 \in P
  BY <1>7, Widths
<1>10. ASSUME NEW k \in 1..W64, k - 1 \in P PROVE k \in P
  <2>1. Power[k - 1] \in Nat \ {0}
    BY <1>10
  <2> QED
    BY <1>8, <2>1, Widths
<1> HIDE DEF P
<1>11. \A k \in 0..W64 : k \in P
  BY <1>9, <1>10, Widths, Induction
<1> QED
  BY <1>7, <1>8, <1>11 DEF P
----------------------------------------------------------------------------
(* Bytes of integers.                                                      *)

LEMMA PowerStep ==
    ASSUME NEW w \in 0..W64, NEW k \in 1..w
    PROVE  /\ k \in 1..W64 /\ k - 1 \in 0..W64 /\ w - k \in 0..W64 /\ w - (k - 1) \in 1..W64
           /\ w \in Nat /\ k \in Nat /\ (w - (k - 1)) - 1 = w - k
  BY Widths

(* What is above one more digit.                                           *)
LEMMA OneDigitLess ==
    ASSUME NEW n \in Int, NEW w \in 0..W64, NEW k \in 1..w
    PROVE  (n \div Power[w - k]) \div Base = n \div Power[w - (k - 1)]
<1>1. PICK p \in Nat \ {0} : p = Power[w - k]
  BY PowerStep, PowerFacts
<1>2. Power[w - (k - 1)] = Base * p
  BY <1>1, PowerStep, PowerFacts
<1>3. (n \div p) \div Base = n \div (p * Base)
  BY Widths, DivisionTwice
<1>4. p * Base = Base * p
  BY Widths
<1> QED
  BY <1>1, <1>2, <1>3, <1>4

LEMMA BigFacts ==
    ASSUME NEW n \in Int, NEW w \in 0..W64
    PROVE  /\ Big(n, w) \in Seq(Bytes) /\ Len(Big(n, w)) = w
           /\ \A k \in 1..w : Big(n, w)[k] = (n \div Power[w - k]) % Base
<1>1. \A k \in 1..w : (n \div Power[w - k]) % Base \in Bytes
  <2> SUFFICES ASSUME NEW k \in 1..w PROVE (n \div Power[w - k]) % Base \in Bytes
    OBVIOUS
  <2>1. PICK p \in Nat \ {0} : p = Power[w - k]
    BY PowerStep, PowerFacts
  <2>2. PICK q \in Int : q = n \div p
    BY Division
  <2>3. q % Base \in 0..(Base - 1)
    BY Widths, Division
  <2> QED
    BY <2>1, <2>2, <2>3 DEF Bytes
<1>2. w \in Nat
  BY Widths
<1>3. PICK b : b = [k \in 1..w |-> (n \div Power[w - k]) % Base]
  OBVIOUS
<1>4. b \in [1..w -> Bytes] /\ \A k \in 1..w : b[k] = (n \div Power[w - k]) % Base
  BY <1>1, <1>3
<1>5. b \in Seq(Bytes)
  BY <1>2, <1>4, SeqDef
<1>6. Len(b) = w
  BY <1>2, <1>4, <1>5, LenProperties
<1> QED
  BY <1>3, <1>4, <1>5, <1>6 DEF Big

(* The number that bytes are, digit by digit.                              *)
LEMMA NumberFacts ==
    ASSUME NEW b \in Seq(Bytes), NEW n \in Nat, n = Len(b)
    PROVE  \E f : /\ f[0] = 0
                  /\ \A k \in 1..n : f[k] = f[k - 1] * Base + b[k]
                  /\ \A k \in 0..n : f[k] \in Nat
                  /\ f[n] = FromBig(b)
<1>1. \A k \in 1..n : b[k] \in Nat
  <2>1. \A k \in 1..n : b[k] \in Bytes
    BY ElementOfSeq
  <2>2. Bytes \subseteq Nat
    BY Widths DEF Bytes
  <2> QED
    BY <2>1, <2>2
<1> DEFINE op == [x \in (1..n) \X Nat |-> x[2] * Base + b[x[1]]]
<1>2. op \in [(1..n) \X Nat -> Nat]
  BY <1>1, Widths
<1>3. \A k \in 1..n, v \in Nat : op[<<k, v>>] = v * Base + b[k]
  OBVIOUS
<1> HIDE DEF op
<1>4. PICK f \in [0..n -> Nat] : Iterate(f, 0, n, op)
  BY <1>2, Iterates
<1>5. f[0] = 0
  BY <1>4 DEF Iterate
<1>6. ASSUME NEW k \in 1..n PROVE f[k] = f[k - 1] * Base + b[k]
  <2>1. k - 1 \in 0..n
    OBVIOUS
  <2>2. f[k] = op[<<k, f[k - 1]>>] /\ f[k - 1] \in Nat
    BY <1>4, <2>1 DEF Iterate
  <2> QED
    BY <1>3, <2>2
<1> DEFINE Step(g) == [k \in 0..n |-> IF k = 0 THEN 0 ELSE g[k - 1] * Base + b[k]]
<1>7. f = Step(f)
  <2>1. f = [k \in 0..n |-> f[k]]
    BY <1>4
  <2>2. \A k \in 0..n : f[k] = IF k = 0 THEN 0 ELSE f[k - 1] * Base + b[k]
    BY <1>5, <1>6
  <2> QED
    BY <2>1, <2>2
<1>8. PICK g : g = CHOOSE h : h = Step(h)
  OBVIOUS
<1>9. g = Step(g) /\ FromBig(b) = g[n]
  BY <1>7, <1>8 DEF FromBig
<1>10. g[0] = 0
  BY <1>9
<1>11. ASSUME NEW k \in 1..n PROVE g[k] = g[k - 1] * Base + b[k]
  <2>1. k \in 0..n /\ k # 0
    OBVIOUS
  <2> QED
    BY <1>9, <2>1
<1> DEFINE P == {k \in 0..n : g[k] \in Nat}
<1>12. 0 \in P
  BY <1>10
<1>13. ASSUME NEW k \in 1..n, k - 1 \in P PROVE k \in P
  <2>1. PICK v \in Nat : v = g[k - 1]
    BY <1>13
  <2>2. v * Base + b[k] \in Nat
    BY <1>1, Widths
  <2> QED
    BY <1>11, <2>1, <2>2
<1> HIDE DEF P, Step
<1>14. \A k \in 0..n : k \in P
  BY <1>12, <1>13, Induction
<1>15. \A k \in 0..n : g[k] \in Nat
  BY <1>14 DEF P
<1> QED
  BY <1>9, <1>10, <1>11, <1>15

(* From a number to its bytes and back: what is left of it is what fits.   *)
LEMMA NumberOfBytes ==
    ASSUME NEW n \in Int, NEW w \in 0..W64
    PROVE  FromBig(Big(n, w)) = n % Power[w]
<1>1. PICK b : b = Big(n, w)
  OBVIOUS
<1>2. /\ b \in Seq(Bytes) /\ w = Len(b) /\ w \in Nat
      /\ \A k \in 1..w : b[k] = (n \div Power[w - k]) % Base
  <2>1. w \in Nat
    BY Widths
  <2> QED
    BY <1>1, <2>1, BigFacts
<1>3. PICK f : /\ f[0] = 0
               /\ \A k \in 1..w : f[k] = f[k - 1] * Base + b[k]
               /\ f[w] = FromBig(b)
  BY <1>2, NumberFacts
<1> DEFINE P == {k \in 0..w : f[k] = (n \div Power[w - k]) % Power[k]}
<1>4. 0 \in P
  <2>1. PICK q \in Int : q = n \div Power[w]
    BY PowerFacts, Division
  <2>2. q % 1 = 0
    OBVIOUS
  <2>3. w - 0 = w /\ Power[0] = 1
    BY PowerFacts, <1>2
  <2> QED
    BY <1>2, <1>3, <2>1, <2>2, <2>3
<1>5. ASSUME NEW k \in 1..w, k - 1 \in P PROVE k \in P
  <2>1. PICK q \in Int : q = n \div Power[w - k]
    BY PowerStep, PowerFacts, Division
  <2>2. q \div Base = n \div Power[w - (k - 1)]
    BY <2>1, OneDigitLess
  <2>3. PICK p \in Nat \ {0} : p = Power[k - 1]
    BY PowerStep, PowerFacts
  <2>4. Power[k] = Base * p
    BY <2>3, PowerStep, PowerFacts
  <2>5. PICK d \in Int, r \in 0..(Base - 1) : q = Base * d + r /\ d = q \div Base /\ r = q % Base
    BY Widths, Division
  <2>6. PICK t \in Int, u \in 0..(p - 1) : d = p * t + u /\ u = d % p
    BY Division
  <2>7. q % (Base * p) = u * Base + r
    <3>1. IsDigits(q, Base, p, t, u, r)
      BY <2>5, <2>6 DEF IsDigits
    <3>2. Base \in Nat \ {0}
      BY Widths
    <3> QED
      BY <3>1, <3>2, DigitsApart, SMTT(60)
  <2>8. f[k - 1] = u
    BY <1>5, <2>2, <2>3, <2>5, <2>6
  <2>9. b[k] = r
    BY <1>2, <2>1, <2>5
  <2>10. f[k] = u * Base + r
    BY <1>3, <2>8, <2>9
  <2>11. f[k] = q % Power[k]
    BY <2>4, <2>7, <2>10
  <2> QED
    BY <2>1, <2>11, <1>2
<1> HIDE DEF P
<1>6. \A k \in 0..w : k \in P
  BY <1>2, <1>4, <1>5, Induction
<1>7. f[w] = (n \div Power[w - w]) % Power[w]
  BY <1>2, <1>6 DEF P
<1>8. n \div 1 = n /\ w - w = 0 /\ Power[0] = 1
  BY PowerFacts, <1>2
<1> QED
  BY <1>1, <1>3, <1>7, <1>8

(* From bytes to their number and back.                                    *)
LEMMA BytesOfNumber ==
    ASSUME NEW b \in Seq(Bytes), NEW w \in 0..W64, Len(b) = w
    PROVE  FromBig(b) \in Nat /\ Big(FromBig(b), w) = b
<1>1. w \in Nat
  BY Widths
<1>2. PICK f : /\ \A k \in 1..w : f[k] = f[k - 1] * Base + b[k]
               /\ \A k \in 0..w : f[k] \in Nat
               /\ f[w] = FromBig(b)
  BY <1>1, NumberFacts
<1>3. PICK n \in Nat : n = f[w]
  BY <1>1, <1>2
<1>4. \A k \in 1..w : b[k] \in 0..(Base - 1)
  <2>1. \A k \in 1..w : b[k] \in Bytes
    BY ElementOfSeq
  <2> QED
    BY <2>1 DEF Bytes
<1>5. ASSUME NEW k \in 1..w
      PROVE  f[k] \div Base = f[k - 1] /\ f[k] % Base = b[k]
  <2>1. PICK q \in Nat : q = f[k - 1]
    BY <1>2
  <2>2. PICK r \in 0..(Base - 1) : r = b[k]
    BY <1>4
  <2>3. PICK a \in Nat : a = f[k]
    BY <1>2
  <2>4. a = Base * q + r
    BY <1>2, <2>1, <2>2, <2>3, Widths
  <2>5. a \div Base = q /\ a % Base = r
    BY <2>4, Widths, DivisionUnique
  <2> QED
    BY <2>1, <2>2, <2>3, <2>5
<1> DEFINE P == {j \in 0..w : n \div Power[j] = f[w - j]}
<1>6. 0 \in P
  <2>1. n \div 1 = n /\ w - 0 = w /\ Power[0] = 1
    BY <1>1, PowerFacts
  <2> QED
    BY <1>1, <1>3, <2>1
<1>7. ASSUME NEW j \in 1..w, j - 1 \in P PROVE j \in P
  <2>1. PICK k \in 1..w : k = w - (j - 1)
    BY <1>1
  <2>2. j = w - (k - 1) /\ j - 1 = w - k /\ k - 1 = w - j
    BY <1>1, <2>1
  <2>3. n \div Power[j] = (n \div Power[w - k]) \div Base
    <3>1. (n \div Power[w - k]) \div Base = n \div Power[w - (k - 1)]
      <4>1. n \in Int
        OBVIOUS
      <4> QED
        BY <4>1, OneDigitLess, Zenon
    <3> QED
      BY <2>2, <3>1
  <2>4. n \div Power[w - k] = f[k]
    BY <1>7, <2>1, <2>2
  <2>5. n \div Power[j] = f[w - j]
    BY <1>5, <2>2, <2>3, <2>4
  <2> QED
    BY <1>1, <2>5
<1> HIDE DEF P
<1>8. \A j \in 0..w : j \in P
  BY <1>1, <1>6, <1>7, Induction
<1>9. PICK c : c = Big(n, w)
  OBVIOUS
<1>10. c \in Seq(Bytes) /\ Len(c) = w /\ \A k \in 1..w : c[k] = (n \div Power[w - k]) % Base
  BY <1>9, BigFacts
<1>11. ASSUME NEW k \in 1..w PROVE c[k] = b[k]
  <2>1. w - k \in 0..w /\ w - (w - k) = k
    BY <1>1
  <2>2. n \div Power[w - k] = f[k]
    BY <1>8, <2>1 DEF P
  <2> QED
    BY <1>5, <1>10, <2>2
<1>12. c = b
  BY <1>1, <1>10, <1>11, SeqEqual
<1> QED
  BY <1>2, <1>3, <1>9, <1>12

LEMMA ReverseFacts ==
    ASSUME NEW b \in Seq(Bytes), NEW w \in Nat, Len(b) = w
    PROVE  /\ Reverse(b) \in Seq(Bytes) /\ Len(Reverse(b)) = w
           /\ Reverse(Reverse(b)) = b
<1>1. PICK c : c = [i \in 1..w |-> b[(w - i) + 1]]
  OBVIOUS
<1>2. \A i \in 1..w : (w - i) + 1 \in 1..w /\ (w - ((w - i) + 1)) + 1 = i
  OBVIOUS
<1>3. \A i \in 1..w : b[i] \in Bytes
  BY ElementOfSeq
<1>4. c \in [1..w -> Bytes] /\ \A i \in 1..w : c[i] = b[(w - i) + 1]
  BY <1>1, <1>2, <1>3
<1>5. c \in Seq(Bytes)
  BY <1>4, SeqDef
<1>6. Len(c) = w
  BY <1>4, <1>5, LenProperties
<1>7. PICK d : d = [i \in 1..w |-> c[(w - i) + 1]]
  OBVIOUS
<1>8. \A i \in 1..w : d[i] = b[i]
  BY <1>2, <1>4, <1>7
<1>9. b \in [1..w -> Bytes]
  BY LenProperties
<1>10. d = b
  BY <1>7, <1>8, <1>9
<1> QED
  BY <1>1, <1>5, <1>6, <1>7, <1>10 DEF Reverse

(* _bswap, and the bytes of the host, put the highest digit first.         *)
LEMMA HostOfSwap ==
    ASSUME NEW n \in Int, NEW w \in 0..W64
    PROVE  Host(Swap(n, w), w) = Big(n, w)
<1>1. w \in Nat
  BY Widths
<1>2. PICK b \in Seq(Bytes) : b = Big(n, w) /\ Len(b) = w
  BY BigFacts
<1>3. PICK c \in Seq(Bytes) : c = Reverse(b) /\ Len(c) = w /\ Reverse(c) = b
  BY <1>1, <1>2, ReverseFacts
<1>4. Big(FromBig(c), w) = c
  BY <1>3, BytesOfNumber
<1> QED
  BY <1>2, <1>3, <1>4 DEF Host, Swap

LEMMA SwapOfHost ==
    ASSUME NEW b \in Seq(Bytes), NEW w \in 0..W64, Len(b) = w
    PROVE  Swap(FromHost(b), w) = FromBig(b)
<1>1. w \in Nat
  BY Widths
<1>2. PICK c \in Seq(Bytes) : c = Reverse(b) /\ Len(c) = w /\ Reverse(c) = b
  BY <1>1, ReverseFacts
<1>3. Big(FromBig(c), w) = c
  BY <1>2, BytesOfNumber
<1> QED
  BY <1>2, <1>3 DEF Host, Swap, FromHost
----------------------------------------------------------------------------
(* Integer types.                                                          *)

Integer == Signed \cup Unsigned

LEMMA TypeFacts ==
    /\ Types = Integer \cup {"NULL", "BOOL", "BUFFER", "STRING"}
    /\ "BOOL" \notin Integer /\ "NULL" \notin Integer
    /\ "BUFFER" \notin Integer /\ "STRING" \notin Integer
    /\ Size["NULL"] = 0 /\ Size["BOOL"] = 1 /\ Size["UINT32"] = W32
    /\ \A t \in Integer : Size[t] \in 1..W64
<1>1. Integer = {"INT8", "INT16", "INT32", "INT64", "UINT8", "UINT16", "UINT32", "UINT64"}
  BY DEF Integer, Signed, Unsigned
<1>2. Types = {"NULL", "BOOL", "INT8", "UINT8", "INT16", "UINT16", "INT32", "UINT32",
               "INT64", "UINT64", "BUFFER", "STRING"}
  BY DEF Types, Code
<1>3. \A t \in Integer : Size[t] \in {1, W16, W32, W64}
  BY <1>1 DEF Size
<1>4. \A t \in Integer : Size[t] \in 1..W64
  BY <1>3, Widths
<1>5. Size["NULL"] = 0 /\ Size["BOOL"] = 1 /\ Size["UINT32"] = W32
  BY DEF Size
<1> QED
  BY <1>1, <1>2, <1>4, <1>5

LEMMA BelowFacts ==
    ASSUME NEW t \in Integer \cup {"BOOL"}
    PROVE  \E h \in Nat \ {0} : Below(t) = 2 * h /\ Below(t) \div 2 = h
<1>1. Size[t] \in 1..W64
  BY TypeFacts, Widths
<1>2. PICK k \in 1..W64 : k = Size[t]
  BY <1>1
<1>3. PICK p \in Nat \ {0} : p = Power[k - 1]
  <2>1. k - 1 \in 0..W64
    BY Widths
  <2> QED
    BY <2>1, PowerFacts
<1>4. Below(t) = Base * p
  BY <1>2, <1>3, PowerFacts DEF Below
<1>5. PICK g \in Nat \ {0} : Base = 2 * g
  <2>1. Base = 2 * (Base \div 2) + (Base % 2) /\ Base \div 2 \in Int
    BY Widths
  <2>2. PICK g \in Int : Base = 2 * g
    BY <2>1, Widths
  <2>3. g \in Nat \ {0}
    BY <2>2, Widths
  <2> QED
    BY <2>2, <2>3
<1>6. PICK h \in Nat \ {0} : h = g * p
  OBVIOUS
<1>7. Below(t) = 2 * h
  BY <1>4, <1>5, <1>6
<1> QED
  BY <1>7

LEMMA WrapNumbers ==
    ASSUME NEW t \in Integer, NEW n \in Int
    PROVE  /\ Wrap(t, n) \in Numbers(t)
           /\ n \in Numbers(t) => Wrap(t, n) = n
           /\ Wrap(t, n % Below(t)) = Wrap(t, n)
           /\ Numbers(t) \subseteq Int
<1>1. PICK h \in Nat \ {0} : Below(t) = 2 * h /\ Below(t) \div 2 = h
  BY BelowFacts
<1>2. PICK m \in Nat \ {0} : m = 2 * h
  OBVIOUS
<1>3. PICK low \in 0..(m - 1) : low = n % m
  BY Division
<1>4. low % m = low
  OBVIOUS
<1>5. \A x \in Int : Wrap(t, x) = IF t \in Signed /\ x % m >= h THEN (x % m) - m ELSE x % m
  BY <1>1, <1>2 DEF Wrap
<1>6. Numbers(t) = IF t \in Signed THEN (-h)..(h - 1) ELSE 0..(m - 1)
  BY <1>1, <1>2 DEF Numbers
<1>7. Wrap(t, n) = IF t \in Signed /\ low >= h THEN low - m ELSE low
  BY <1>3, <1>5
<1>8. Wrap(t, n) \in Numbers(t)
  BY <1>2, <1>6, <1>7
<1>9. ASSUME n \in Numbers(t) PROVE Wrap(t, n) = n
  <2>1. CASE n >= 0
    <3>1. n \in 0..(m - 1)
      BY <1>2, <1>6, <1>9, <2>1
    <3>2. n % m = n
      BY <3>1
    <3> QED
      BY <1>2, <1>3, <1>6, <1>7, <1>9, <3>2
  <2>2. CASE n < 0
    <3>1. t \in Signed /\ n \in (-h)..(-1)
      BY <1>6, <1>9, <2>2
    <3>2. n + m \in 0..(m - 1) /\ n = m * (-1) + (n + m)
      BY <1>2, <3>1
    <3>3. n % m = n + m
      BY <3>2, DivisionUnique
    <3> QED
      BY <1>2, <1>3, <1>7, <3>1, <3>3
  <2> QED
    BY <2>1, <2>2
<1>10. Wrap(t, low) = Wrap(t, n)
  BY <1>4, <1>5, <1>7
<1> QED
  BY <1>1, <1>2, <1>3, <1>6, <1>8, <1>9, <1>10
----------------------------------------------------------------------------
(* Buffers, and what variable_serialize leaves in one.                     *)

LEMMA BufferSetIs ==
    ASSUME NEW b \in Seq(Bytes), NEW data \in Seq(Bytes)
    PROVE  BufferSet(b, data) = data
<1>1. PICK n \in Nat : n = Len(data)
  BY LenProperties
<1>2. PICK c : c = SetSize(b, n)
  OBVIOUS
<1>3. DOMAIN c = 1..n
  BY <1>2 DEF SetSize
<1>4. PICK d : d = Overwrite(c, 0, data)
  OBVIOUS
<1>5. d = [i \in 1..n |-> IF i \in (0 + 1)..(0 + n) THEN data[i - 0] ELSE c[i]]
  BY <1>1, <1>3, <1>4 DEF Overwrite
<1>6. \A i \in 1..n : d[i] = data[i]
  <2>1. \A i \in 1..n : i \in (0 + 1)..(0 + n) /\ i - 0 = i
    OBVIOUS
  <2> QED
    BY <1>5, <2>1
<1>7. data \in [1..n -> Bytes]
  BY <1>1, LenProperties
<1>8. d = data
  BY <1>5, <1>6, <1>7
<1> QED
  BY <1>1, <1>2, <1>4, <1>8 DEF BufferSet

LEMMA BufferSetDataIs ==
    ASSUME NEW b \in Seq(Bytes), NEW data \in Seq(Bytes), NEW n, n = Len(b)
    PROVE  BufferSetData(b, n, data) = b \o data
<1>1. n \in Nat
  BY LenProperties
<1>2. PICK m \in Nat : m = Len(data)
  BY LenProperties
<1>3. PICK c : c = IF n + m > n THEN SetSize(b, n + m) ELSE b
  OBVIOUS
<1>4. DOMAIN c = 1..(n + m) /\ \A i \in 1..n : c[i] = b[i]
  <2>1. CASE m > 0
    <3>1. c = [i \in 1..(n + m) |-> IF i <= n THEN b[i] ELSE 0]
      BY <1>1, <1>3, <2>1 DEF SetSize
    <3>2. \A i \in 1..n : i \in 1..(n + m) /\ i <= n
      BY <1>1
    <3> QED
      BY <3>1, <3>2
  <2>2. CASE m = 0
    <3>1. c = b /\ n + m = n
      BY <1>1, <1>3, <2>2
    <3> QED
      BY <3>1, LenProperties
  <2> QED
    BY <2>1, <2>2
<1>5. PICK d : d = Overwrite(c, n, data)
  OBVIOUS
<1>6. d = [i \in 1..(n + m) |-> IF i \in (n + 1)..(n + m) THEN data[i - n] ELSE c[i]]
  BY <1>2, <1>4, <1>5 DEF Overwrite
<1>7. PICK e \in Seq(Bytes) : e = b \o data
  BY ConcatProperties
<1>8. Len(e) = n + m /\ \A i \in 1..(n + m) : e[i] = IF i <= n THEN b[i] ELSE data[i - n]
  BY <1>2, <1>7, ConcatProperties
<1>9. \A i \in 1..(n + m) : d[i] = e[i]
  <2> SUFFICES ASSUME NEW i \in 1..(n + m) PROVE d[i] = e[i]
    OBVIOUS
  <2>1. CASE i <= n
    <3>1. i \in 1..n /\ i \notin (n + 1)..(n + m)
      BY <1>1, <2>1
    <3> QED
      BY <1>4, <1>6, <1>8, <2>1, <3>1
  <2>2. CASE ~(i <= n)
    <3>1. i \in (n + 1)..(n + m)
      BY <1>1, <2>2
    <3> QED
      BY <1>6, <1>8, <2>2, <3>1
  <2> QED
    BY <2>1, <2>2
<1>10. e \in [1..(n + m) -> Bytes]
  BY <1>7, <1>8, LenProperties
<1>11. d = e
  BY <1>6, <1>9, <1>10
<1>12. BufferSetData(b, n, data) = Overwrite(c, n, data)
  BY <1>2, <1>3 DEF BufferSetData
<1> QED
  BY <1>5, <1>7, <1>11, <1>12

(* One call, or two.                                                       *)
LEMMA SerializeIs ==
    ASSUME NEW b, NEW writes, NEW n \in 0..2, Len(writes) = n
    PROVE  Serialize(b, writes) =
               IF n = 0 THEN b
               ELSE IF n = 1 THEN Write(b, writes[1])
               ELSE Write(Write(b, writes[1]), writes[2])
<1>1. PICK one : one = Write(b, writes[1])
  OBVIOUS
<1>2. PICK two : two = Write(one, writes[2])
  OBVIOUS
<1> DEFINE Run(f) == [k \in 0..n |-> IF k = 0 THEN b ELSE Write(f[k - 1], writes[k])]
           f0 == [k \in 0..n |-> IF k = 0 THEN b ELSE IF k = 1 THEN one ELSE two]
<1>3. f0 = Run(f0)
  <2> SUFFICES ASSUME NEW k \in 0..n
               PROVE  (IF k = 0 THEN b ELSE IF k = 1 THEN one ELSE two)
                      = (IF k = 0 THEN b ELSE Write(f0[k - 1], writes[k]))
    OBVIOUS
  <2>1. CASE k = 0
    BY <2>1
  <2>2. CASE k = 1
    <3>1. f0[k - 1] = b
      BY <2>2
    <3> HIDE DEF f0
    <3> QED
      BY <1>1, <2>2, <3>1
  <2>3. CASE k = 2
    <3>1. f0[k - 1] = one
      BY <2>3
    <3> HIDE DEF f0
    <3> QED
      BY <1>2, <2>3, <3>1
  <2> QED
    BY <2>1, <2>2, <2>3
<1>4. PICK g : g = CHOOSE f : f = Run(f)
  OBVIOUS
<1>5. g = Run(g)
  BY <1>3, <1>4
<1>6. Serialize(b, writes) = g[n]
  BY <1>4 DEF Serialize
<1>7. g[0] = b
  BY <1>5
<1>8. n > 0 => g[1] = one
  <2> HAVE n > 0
  <2>1. 1 \in 0..n /\ 1 - 1 = 0
    OBVIOUS
  <2>2. g[1] = Write(g[1 - 1], writes[1])
    BY <1>5, <2>1
  <2> QED
    BY <1>1, <1>7, <2>1, <2>2
<1>9. n = 2 => g[2] = two
  <2> HAVE n = 2
  <2>1. 2 \in 0..n /\ 2 - 1 = 1
    OBVIOUS
  <2>2. g[2] = Write(g[2 - 1], writes[2])
    BY <1>5, <2>1
  <2> QED
    BY <1>2, <1>8, <2>1, <2>2
<1> QED
  BY <1>1, <1>2, <1>6, <1>7, <1>8, <1>9

(* What a message is as bytes: after the type, if it is sent with it.      *)
Good == {m \in Messages : Sendable(m)}
Count(m) == Big(Len(m.bytes), W32)
Body(m) == IF m.type = "BUFFER" THEN Count(m) \o m.bytes ELSE Payload(Sent(m))
Text(m) == IF m.prefix THEN <<Code[m.type]>> \o Body(m) ELSE Body(m)

LEMMA SentFacts ==
    ASSUME NEW m \in Messages
    PROVE  /\ m.type \in Types /\ m.bytes \in Seq(Bytes) /\ m.num \in Int
           /\ m.prefix \in BOOLEAN
           /\ Len(m.bytes) \in Nat /\ Len(m.bytes) < Below("UINT32")
           /\ Sent(m).type = m.type /\ Sent(m).bytes = m.bytes
           /\ m.type \in Integer => Sent(m).num \in Numbers(m.type) /\ Sent(m).num \in Int
           /\ m.type = "BOOL" => Sent(m).num \in {0, 1}
           /\ m.type \notin Integer \cup {"BOOL"} => Sent(m).num = 0
           /\ m.type \notin {"STRING", "BUFFER"} => m.bytes = <<>>
<1>1. /\ m \in [type : Types, num : Int, bytes : Seq(Bytes), prefix : BOOLEAN]
      /\ m.type \notin {"STRING", "BUFFER"} => m.bytes = <<>>
      /\ Len(m.bytes) < Below("UINT32")
  BY MessageAssumption
<1>2. m.type \in Types /\ m.bytes \in Seq(Bytes) /\ m.num \in Int /\ m.prefix \in BOOLEAN
  BY <1>1
<1>3. Sent(m).type = m.type /\ Sent(m).bytes = m.bytes
  BY DEF Sent, Variable
<1>4. ASSUME m.type \in Integer PROVE Sent(m).num \in Numbers(m.type) /\ Sent(m).num \in Int
  <2>1. Sent(m).num = Wrap(m.type, m.num)
    BY <1>4, TypeFacts DEF Sent, Variable, Integer
  <2> QED
    BY <1>2, <1>4, <2>1, WrapNumbers
<1>5. m.type = "BOOL" => Sent(m).num \in {0, 1}
  BY DEF Sent, Variable
<1>6. m.type \notin Integer \cup {"BOOL"} => Sent(m).num = 0
  BY DEF Sent, Variable, Integer
<1>7. Len(m.bytes) \in Nat
  BY <1>2, LenProperties
<1> QED
  BY <1>1, <1>2, <1>3, <1>4, <1>5, <1>6, <1>7

LEMMA CodeByte == \A t \in Types : Code[t] \in Bytes
<1>1. \A t \in Types : Code[t] \in 0..16
  BY DEF Types, Code
<1> QED
  BY <1>1, Widths DEF Bytes

(* An integer is sent with its highest digit first.                        *)
LEMMA PayloadFacts ==
    ASSUME NEW m \in Messages
    PROVE  /\ m.type \in Integer => Payload(Sent(m)) = Big(Sent(m).num, Size[m.type])
           /\ m.type = "BOOL" => Payload(Sent(m)) = <<Sent(m).num>>
           /\ m.type = "STRING" => Payload(Sent(m)) = Append(m.bytes, 0)
           /\ m.type = "NULL" => Payload(Sent(m)) = <<>>
           /\ Payload(Sent(m)) \in Seq(Bytes)
<1>1. PICK t \in Types : t = m.type /\ t = Sent(m).type
  BY SentFacts
<1>2. ASSUME t \in Integer
      PROVE  Payload(Sent(m)) = Big(Sent(m).num, Size[t]) /\ Payload(Sent(m)) \in Seq(Bytes)
  <2>1. PICK n \in Int : n = Sent(m).num
    BY <1>1, <1>2, SentFacts
  <2>2. PICK w \in 0..W64 : w = Size[t]
    BY <1>2, TypeFacts, Widths
  <2>3. Host(Swap(n, w), w) = Big(n, w)
    BY HostOfSwap
  <2>4. Payload(Sent(m)) = Host(Swap(n, w), w)
    BY <1>1, <1>2, <2>1, <2>2, TypeFacts DEF Payload, Integer
  <2> QED
    BY <2>1, <2>2, <2>3, <2>4, BigFacts
<1>3. ASSUME t = "BOOL" PROVE Payload(Sent(m)) = <<Sent(m).num>> /\ Payload(Sent(m)) \in Seq(Bytes)
  <2>1. Payload(Sent(m)) = <<Sent(m).num>>
    BY <1>1, <1>3, TypeFacts DEF Payload, Integer
  <2>2. {0, 1} \subseteq Bytes
    BY Widths DEF Bytes
  <2>3. PICK x \in Bytes : x = Sent(m).num
    BY <1>1, <1>3, <2>2, SentFacts
  <2>4. <<x>> \in Seq(Bytes)
    OBVIOUS
  <2> QED
    BY <2>1, <2>3, <2>4
<1>4. ASSUME t = "STRING" PROVE Payload(Sent(m)) = Append(m.bytes, 0) /\ Payload(Sent(m)) \in Seq(Bytes)
  <2>1. Payload(Sent(m)) = Append(m.bytes, 0)
    BY <1>1, <1>4, TypeFacts, SentFacts DEF Payload, Integer
  <2>2. 0 \in Bytes
    BY Widths DEF Bytes
  <2> QED
    BY <2>1, <2>2, SentFacts, AppendProperties
<1>5. ASSUME t \in {"NULL", "BUFFER"} PROVE Payload(Sent(m)) = m.bytes
  BY <1>1, <1>5, TypeFacts, SentFacts DEF Payload, Integer
<1>6. m.bytes \in Seq(Bytes) /\ (t = "NULL" => m.bytes = <<>>)
  BY <1>1, SentFacts
<1>7. t \in Integer \cup {"BOOL", "STRING", "NULL", "BUFFER"}
  BY TypeFacts
<1> QED
  BY <1>1, <1>2, <1>3, <1>4, <1>5, <1>6, <1>7, TypeFacts

LEMMA BodyFacts ==
    ASSUME NEW m \in Messages
    PROVE  /\ Count(m) \in Seq(Bytes) /\ Len(Count(m)) = W32
           /\ Body(m) \in Seq(Bytes) /\ Text(m) \in Seq(Bytes)
<1>1. Count(m) \in Seq(Bytes) /\ Len(Count(m)) = W32
  <2>1. W32 \in 0..W64 /\ Len(m.bytes) \in Int
    BY Widths, SentFacts
  <2> QED
    BY <2>1, BigFacts DEF Count
<1>2. Count(m) \o m.bytes \in Seq(Bytes)
  BY <1>1, SentFacts, ConcatProperties
<1>3. Body(m) \in Seq(Bytes)
  BY <1>2, PayloadFacts DEF Body
<1>4. PICK c \in Bytes : c = Code[m.type]
  BY CodeByte, SentFacts
<1>5. <<c>> \in Seq(Bytes)
  OBVIOUS
<1>6. <<c>> \o Body(m) \in Seq(Bytes)
  BY <1>3, <1>5, ConcatProperties
<1> QED
  BY <1>1, <1>3, <1>4, <1>6 DEF Text

(* A Buffer is left with a message, whatever it held.                      *)
LEMMA WriteIs ==
    ASSUME NEW b \in Seq(Bytes), NEW data \in Seq(Bytes)
    PROVE  /\ Write(b, Set(data)) = data
           /\ \A n : n = Len(b) => Write(b, SetData(n, data)) = b \o data
<1>1. Write(b, Set(data)) = data
  BY BufferSetIs DEF Write, Set
<1>2. ASSUME NEW n, n = Len(b) PROVE Write(b, SetData(n, data)) = b \o data
  BY <1>2, BufferSetDataIs DEF Write, SetData
<1> QED
  BY <1>1, <1>2

LEMMA CountIs ==
    ASSUME NEW m \in Messages
    PROVE  Host(Swap(Len(Sent(m).bytes), W32), W32) = Count(m)
<1>1. W32 \in 0..W64 /\ Len(m.bytes) \in Int
  BY Widths, SentFacts
<1> QED
  BY <1>1, SentFacts, HostOfSwap DEF Count

LEMMA WritesAre ==
    ASSUME NEW m \in Good
    PROVE  LET writes == Writes(Sent(m), m.prefix)
           IN  IF m.type = "BUFFER"
               THEN writes = <<Set(Count(m)), SetData(W32, m.bytes)>> /\ ~m.prefix
               ELSE IF m.prefix THEN writes = <<Set(<<Code[m.type]>>), SetData(1, Body(m))>>
               ELSE writes = <<Set(Body(m))>>
<1>1. m \in Messages /\ (m.prefix => m.type # "BUFFER")
  BY DEF Good, Sendable
<1>2. Sent(m).type = m.type /\ Sent(m).bytes = m.bytes
  BY <1>1, SentFacts
<1>3. CASE m.type = "BUFFER"
  <2>1. PICK two : two = <<Set(Count(m)), SetData(W32, m.bytes)>>
    OBVIOUS
  <2>2. Writes(Sent(m), m.prefix) = <<>> \o two
    BY <1>1, <1>2, <1>3, <2>1, CountIs DEF Writes
  <2>3. PICK x, y : x = Set(Count(m)) /\ y = SetData(W32, m.bytes)
    OBVIOUS
  <2>4. <<x, y>> \in Seq({x, y})
    OBVIOUS
  <2>5. <<>> \o <<x, y>> = <<x, y>>
    BY <2>4, ConcatEmptySeq
  <2> QED
    BY <1>1, <1>3, <2>1, <2>2, <2>3, <2>5
<1>4. CASE m.type # "BUFFER"
  BY <1>2, <1>4 DEF Writes, Body
<1> QED
  BY <1>3, <1>4

LEMMA SerializeText ==
    ASSUME NEW m \in Good, NEW b \in Seq(Bytes)
    PROVE  /\ Serialize(b, Writes(Sent(m), m.prefix)) = Text(m)
           /\ \A done \in 0..(Len(Writes(Sent(m), m.prefix)) - 1) :
                  Serialize(b, SubSeq(Writes(Sent(m), m.prefix), 1, done)) \in Seq(Bytes)
<1>1. PICK writes : writes = Writes(Sent(m), m.prefix)
  OBVIOUS
<1>2. m \in Messages
  BY DEF Good
<1>3. Body(m) \in Seq(Bytes) /\ Count(m) \in Seq(Bytes) /\ Len(Count(m)) = W32 /\ m.bytes \in Seq(Bytes)
  BY <1>2, BodyFacts, SentFacts
<1>4. PICK first : first = <<Code[m.type]>>
  OBVIOUS
<1>5. first \in Seq(Bytes) /\ Len(first) = 1
  <2>1. PICK c \in Bytes : c = Code[m.type]
    BY <1>2, CodeByte, SentFacts
  <2> QED
    BY <1>4, <2>1
<1>6. ASSUME NEW x, NEW y, NEW dx \in Seq(Bytes), NEW dy \in Seq(Bytes), NEW n,
             x = Set(dx), y = SetData(n, dy), n = Len(dx), writes = <<x, y>>
      PROVE  /\ Serialize(b, writes) = dx \o dy
             /\ \A done \in 0..(Len(writes) - 1) : Serialize(b, SubSeq(writes, 1, done)) \in Seq(Bytes)
  <2>1. Len(writes) = 2 /\ writes[1] = x /\ writes[2] = y
    BY <1>6
  <2>2. Write(b, x) = dx /\ Write(dx, y) = dx \o dy
    BY <1>6, WriteIs
  <2>3. Serialize(b, writes) = Write(Write(b, writes[1]), writes[2])
    BY <2>1, SerializeIs
  <2>4. ASSUME NEW done \in 0..(Len(writes) - 1)
        PROVE  Serialize(b, SubSeq(writes, 1, done)) \in Seq(Bytes)
    <3>1. PICK part : part = SubSeq(writes, 1, done)
      OBVIOUS
    <3>2. Len(part) = done /\ (done = 1 => part[1] = x) /\ done \in 0..1
      BY <1>6, <2>1, <3>1
    <3>3. PICK w \in 0..2 : w = done
      BY <3>2
    <3>4. Serialize(b, part) = IF w = 0 THEN b ELSE IF w = 1 THEN Write(b, part[1])
                              ELSE Write(Write(b, part[1]), part[2])
      BY <3>2, <3>3, SerializeIs
    <3> QED
      BY <2>2, <3>1, <3>2, <3>3, <3>4
  <2> QED
    BY <2>1, <2>2, <2>3, <2>4
<1>7. CASE m.type = "BUFFER"
  <2>1. writes = <<Set(Count(m)), SetData(W32, m.bytes)>> /\ ~m.prefix
    BY <1>1, <1>7, WritesAre
  <2>2. Text(m) = Count(m) \o m.bytes
    BY <1>7, <2>1 DEF Text, Body
  <2> QED
    BY <1>1, <1>3, <1>6, <2>1, <2>2
<1>8. CASE m.type # "BUFFER" /\ m.prefix
  <2>1. writes = <<Set(first), SetData(1, Body(m))>>
    BY <1>1, <1>4, <1>8, WritesAre
  <2>2. Text(m) = first \o Body(m)
    BY <1>4, <1>8 DEF Text
  <2> QED
    BY <1>1, <1>3, <1>5, <1>6, <2>1, <2>2
<1>9. CASE m.type # "BUFFER" /\ ~m.prefix
  <2>1. writes = <<Set(Body(m))>>
    BY <1>1, <1>9, WritesAre
  <2>2. PICK x : x = Set(Body(m))
    OBVIOUS
  <2>3. Len(writes) = 1 /\ writes[1] = x
    BY <2>1, <2>2
  <2>4. Serialize(b, writes) = Body(m)
    BY <1>3, <2>2, <2>3, SerializeIs, WriteIs
  <2>5. Text(m) = Body(m)
    BY <1>9 DEF Text
  <2>6. ASSUME NEW done \in 0..(Len(writes) - 1)
        PROVE  Serialize(b, SubSeq(writes, 1, done)) \in Seq(Bytes)
    <3>1. PICK part : part = SubSeq(writes, 1, done)
      OBVIOUS
    <3>2. Len(part) = 0
      BY <2>1, <2>3, <3>1
    <3>3. Serialize(b, part) = b
      <4>1. PICK n \in 0..2 : n = 0
        OBVIOUS
      <4>2. Len(part) = n
        BY <3>2, <4>1
      <4> QED
        BY <4>1, <4>2, SerializeIs
    <3> QED
      BY <3>1, <3>3
  <2> QED
    BY <1>1, <2>4, <2>5, <2>6
<1> QED
  BY <1>7, <1>8, <1>9
----------------------------------------------------------------------------
(* variable_new_deserialize_type, on the first bytes of what was written.  *)

Agrees(data, text) == \A i \in 1..Len(data) : i <= Len(text) => data[i] = text[i]

LEMMA AllOfIt ==
    ASSUME NEW data \in Seq(Bytes), NEW text \in Seq(Bytes), Agrees(data, text),
           NEW n \in Nat, n = Len(text), n <= Len(data)
    PROVE  SubSeq(data, 1, n) = text
<1>1. \A i \in 1..n : i \in 1..Len(data) /\ data[i] = text[i] /\ data[i] \in Bytes
  <2>1. \A i \in 1..n : i \in 1..Len(data)
    BY LenProperties
  <2> QED
    BY <2>1, ElementOfSeq DEF Agrees
<1>2. PICK c : c = SubSeq(data, 1, n)
  OBVIOUS
<1>3. c \in Seq(Bytes) /\ Len(c) = n /\ \A i \in 1..n : c[i] = data[i]
  <2>1. /\ SubSeq(data, 1, n) \in Seq(Bytes)
        /\ Len(SubSeq(data, 1, n)) = IF 1 <= n THEN n - 1 + 1 ELSE 0
        /\ \A i \in 1..(n - 1 + 1) : SubSeq(data, 1, n)[i] = data[1 + i - 1]
    BY <1>1, SubSeqProperties
  <2>2. n - 1 + 1 = n /\ \A i \in 1..n : 1 + i - 1 = i
    OBVIOUS
  <2> QED
    BY <1>2, <2>1, <2>2
<1>4. \A i \in 1..n : c[i] = text[i]
  BY <1>1, <1>3
<1> QED
  BY <1>2, <1>3, <1>4, SeqEqual

(* The result is the variable, or that more is needed.                     *)
Reads(r, m, text, data) ==
    /\ r.size \in Nat
    /\ r.ok => r.size = Len(text) /\ r.size <= Len(data) /\ r.variable = Sent(m)

LEMMA SentIs ==
    ASSUME NEW m \in Messages
    PROVE  Sent(m) = [type |-> m.type, num |-> Sent(m).num, bytes |-> m.bytes]
  BY DEF Sent, Variable

LEMMA ReadsNothing ==
    ASSUME NEW m, NEW text, NEW data, NEW n \in Nat
    PROVE  Reads(Failed(n), m, text, data)
  BY DEF Reads, Failed

LEMMA ReadsIt ==
    ASSUME NEW m, NEW text, NEW data, NEW n \in Nat, NEW v,
           n = Len(text), n <= Len(data), v = Sent(m)
    PROVE  Reads(Made(n, v), m, text, data)
  BY DEF Reads, Made

LEMMA IntegerRead ==
    ASSUME NEW m \in Messages, NEW data \in Seq(Bytes), m.type \in Integer,
           Agrees(data, Body(m)), NEW n, n = Len(data)
    PROVE  Reads(DeserializeType(m.type, n, data), m, Body(m), data)
<1>1. PICK t \in Integer : t = m.type
  OBVIOUS
<1>2. t \notin {"NULL", "BOOL", "BUFFER", "STRING"}
  BY TypeFacts
<1>3. PICK w \in 0..W64 : w = Size[t] /\ w \in Nat
  BY TypeFacts, Widths
<1>4. n \in Nat
  BY LenProperties
<1>5. PICK x \in Int : x = Sent(m).num /\ x \in Numbers(t)
  BY <1>1, SentFacts
<1>6. Body(m) = Big(x, w)
  BY <1>1, <1>2, <1>3, <1>5, PayloadFacts DEF Body
<1>7. Body(m) \in Seq(Bytes) /\ Len(Body(m)) = w
  BY <1>6, BigFacts
<1>8. Needed(t, n, data) = w
  BY <1>2, <1>3 DEF Needed
<1>9. CASE n < w
  <2>1. DeserializeType(t, n, data) = Failed(w)
    BY <1>2, <1>8, <1>9 DEF DeserializeType
  <2> QED
    BY <1>1, <1>3, <2>1, ReadsNothing
<1>10. CASE w <= n
  <2>1. SubSeq(data, 1, w) = Body(m)
    BY <1>3, <1>7, <1>10, AllOfIt
  <2>2. FromBig(SubSeq(data, 1, w)) = x % Below(t)
    BY <1>3, <1>6, <2>1, NumberOfBytes DEF Below
  <2>3. Wrap(t, x % Below(t)) = x
    BY <1>5, WrapNumbers
  <2>4. Parsed(t, w, data) = Variable(t, x % Below(t), <<>>)
    BY <1>2, <2>2 DEF Parsed
  <2>5. Variable(t, x % Below(t), <<>>) = [type |-> t, num |-> x, bytes |-> <<>>]
    BY <1>2, <2>3 DEF Variable, Integer
  <2>6. Sent(m) = [type |-> t, num |-> x, bytes |-> <<>>]
    BY <1>1, <1>2, <1>5, SentIs, SentFacts
  <2>7. DeserializeType(t, n, data) = Made(w, Parsed(t, w, data))
    <3>1. ~(n < w)
      BY <1>3, <1>4, <1>10
    <3> QED
      BY <1>2, <1>8, <3>1 DEF DeserializeType
  <2> QED
    BY <1>1, <1>3, <1>7, <1>10, <2>4, <2>5, <2>6, <2>7, ReadsIt
<1> QED
  BY <1>3, <1>4, <1>9, <1>10

LEMMA BooleanRead ==
    ASSUME NEW m \in Messages, NEW data \in Seq(Bytes), m.type = "BOOL",
           Agrees(data, Body(m)), NEW n, n = Len(data)
    PROVE  Reads(DeserializeType(m.type, n, data), m, Body(m), data)
<1>1. PICK t : t = "BOOL"
  OBVIOUS
<1>2. n \in Nat /\ Size[t] = 1
  BY <1>1, LenProperties, TypeFacts
<1>3. PICK x \in {0, 1} : x = Sent(m).num
  BY SentFacts
<1>4. x \in Bytes
  BY <1>3, Widths DEF Bytes
<1>5. PICK text \in Seq(Bytes) : text = <<x>>
  <2>1. PICK y \in Bytes : y = x
    BY <1>4
  <2>2. <<y>> \in Seq(Bytes)
    OBVIOUS
  <2> QED
    BY <2>1, <2>2
<1>6. Body(m) = text /\ Len(text) = 1 /\ text[1] = x
  BY <1>3, <1>5, PayloadFacts DEF Body
<1>7. Needed(t, n, data) = 1
  BY <1>1, <1>2 DEF Needed
<1>8. DeserializeType(t, n, data) \in {Failed(1), Made(1, Parsed(t, 1, data))}
      /\ (n < 1 => DeserializeType(t, n, data) = Failed(1))
  BY <1>1, <1>7 DEF DeserializeType
<1>9. CASE n < 1
  BY <1>1, <1>8, <1>9, ReadsNothing
<1>10. CASE 1 <= n
  <2>1. SubSeq(data, 1, 1) = text
    BY <1>6, <1>10, AllOfIt
  <2>2. PICK f : f[0] = 0 /\ (\A k \in 1..1 : f[k] = f[k - 1] * Base + text[k]) /\ f[1] = FromBig(text)
    BY <1>6, NumberFacts
  <2>3. f[1] = x
    <3>1. f[1] = f[1 - 1] * Base + text[1] /\ 1 - 1 = 0
      BY <2>2
    <3> QED
      BY <1>4, <1>6, <2>2, <3>1, Widths DEF Bytes
  <2>4. Parsed(t, 1, data) = Variable(t, x, <<>>)
    BY <1>1, <2>1, <2>2, <2>3 DEF Parsed
  <2>5. Variable(t, x, <<>>) = [type |-> t, num |-> x, bytes |-> <<>>]
    BY <1>1, <1>3 DEF Variable
  <2>6. Sent(m) = [type |-> t, num |-> x, bytes |-> <<>>]
    BY <1>1, <1>3, SentIs, SentFacts
  <2>7. Reads(Made(1, Parsed(t, 1, data)), m, text, data)
    BY <1>6, <1>10, <2>4, <2>5, <2>6, ReadsIt
  <2>8. Reads(Failed(1), m, text, data)
    BY ReadsNothing
  <2> QED
    BY <1>1, <1>6, <1>8, <2>7, <2>8
<1> QED
  BY <1>2, <1>9, <1>10

LEMMA NullRead ==
    ASSUME NEW m \in Messages, NEW data \in Seq(Bytes), m.type = "NULL",
           NEW n, n = Len(data)
    PROVE  Reads(DeserializeType(m.type, n, data), m, Body(m), data)
<1>1. PICK t : t = "NULL"
  OBVIOUS
<1>2. n \in Nat /\ Size[t] = 0
  BY <1>1, LenProperties, TypeFacts
<1>3. Body(m) = <<>>
  BY PayloadFacts DEF Body
<1>4. Needed(t, n, data) = 0
  BY <1>1, <1>2 DEF Needed
<1>5. DeserializeType(t, n, data) = Made(0, Parsed(t, 0, data))
  BY <1>1, <1>2, <1>4 DEF DeserializeType
<1>6. Parsed(t, 0, data) = [type |-> t, num |-> 0, bytes |-> <<>>]
  BY <1>1 DEF Parsed, NoVariable, Variable, Signed, Unsigned
<1>7. Sent(m) = [type |-> t, num |-> 0, bytes |-> <<>>]
  <2>1. t \notin Integer \cup {"BOOL"} /\ t \notin {"STRING", "BUFFER"}
    BY <1>1, TypeFacts
  <2> QED
    BY <1>1, <2>1, SentIs, SentFacts
<1>8. Len(Body(m)) = 0
  BY <1>3
<1> QED
  BY <1>1, <1>2, <1>5, <1>6, <1>7, <1>8, ReadsIt

(* Where a string ends: at the NUL that was sent, if it has come.          *)
LEMMA NulFacts ==
    ASSUME NEW data \in Seq(Bytes), NEW text \in Seq(Bytes), NEW k \in Nat, Len(text) = k + 1,
           text[k + 1] = 0, \A i \in 1..k : text[i] # 0, Agrees(data, text),
           NEW n \in Nat, n = Len(data)
    PROVE  Nul(n, data) = IF n <= k THEN n + 1 ELSE k + 1
<1> DEFINE Is(s) == /\ s \in 1..(n + 1) /\ (s <= n => data[s] = 0)
                    /\ \A r \in 1..(s - 1) : data[r] # 0
<1>1. \A i \in 1..n : i <= k + 1 => data[i] = text[i]
  BY DEF Agrees
<1>2. PICK e : e = IF n <= k THEN n + 1 ELSE k + 1
  OBVIOUS
<1>3. Is(e)
  <2>1. CASE n <= k
    <3>1. e = n + 1 /\ \A r \in 1..n : r <= k + 1 /\ r \in 1..k
      BY <1>2, <2>1
    <3>2. \A r \in 1..n : data[r] # 0
      BY <1>1, <3>1
    <3>3. e - 1 = n /\ ~(e <= n) /\ e \in 1..(n + 1)
      BY <3>1
    <3> QED
      BY <3>2, <3>3
  <2>2. CASE ~(n <= k)
    <3>1. e = k + 1 /\ e \in 1..(n + 1) /\ e \in 1..n /\ e - 1 = k
      BY <1>2, <2>2
    <3>2. data[e] = 0
      BY <1>1, <3>1
    <3>3. \A r \in 1..k : r \in 1..n /\ r <= k + 1
      BY <2>2
    <3>4. \A r \in 1..k : data[r] # 0
      BY <1>1, <3>3
    <3> QED
      BY <3>1, <3>2, <3>4
  <2> QED
    BY <2>1, <2>2
<1>4. ASSUME NEW s, Is(s) PROVE s = e
  <2>1. s \in 1..(n + 1) /\ e \in 1..(n + 1)
    BY <1>3, <1>4
  <2>2. ASSUME s < e PROVE FALSE
    <3>1. s \in 1..(e - 1) /\ s <= n
      BY <2>1, <2>2
    <3> QED
      BY <1>3, <1>4, <3>1
  <2>3. ASSUME e < s PROVE FALSE
    <3>1. e \in 1..(s - 1) /\ e <= n
      BY <2>1, <2>3
    <3> QED
      BY <1>3, <1>4, <3>1
  <2> QED
    BY <2>1, <2>2, <2>3
<1>5. PICK c : c = CHOOSE s : Is(s)
  OBVIOUS
<1>6. c = e
  BY <1>3, <1>4, <1>5
<1>7. Nul(n, data) = c
  BY <1>5 DEF Nul
<1> QED
  BY <1>2, <1>6, <1>7

LEMMA StringRead ==
    ASSUME NEW m \in Messages, NEW data \in Seq(Bytes), m.type = "STRING",
           Agrees(data, Body(m)), NEW n, n = Len(data)
    PROVE  Reads(DeserializeType(m.type, n, data), m, Body(m), data)
<1>1. PICK t : t = "STRING"
  OBVIOUS
<1>2. n \in Nat
  BY LenProperties
<1>3. PICK k \in Nat : k = Len(m.bytes)
  BY SentFacts
<1>4. m.bytes \in Seq(Bytes) /\ 0 \in Bytes
  BY SentFacts, Widths DEF Bytes
<1>5. PICK text \in Seq(Bytes) : text = Append(m.bytes, 0)
  BY <1>4, AppendProperties
<1>6. /\ Len(text) = k + 1 /\ text[k + 1] = 0
      /\ \A i \in 1..k : text[i] = m.bytes[i]
  BY <1>3, <1>4, <1>5, AppendProperties
<1>7. \A i \in 1..k : text[i] # 0
  <2>1. DOMAIN m.bytes = 1..k
    BY <1>3, <1>4, LenProperties
  <2>2. \A i \in DOMAIN m.bytes : m.bytes[i] # 0
    BY MessageAssumption
  <2> QED
    BY <1>6, <2>1, <2>2
<1>8. Body(m) = text
  BY <1>1, <1>5, PayloadFacts DEF Body
<1>9. PICK s \in Nat : s = Nul(n, data) /\ s = IF n <= k THEN n + 1 ELSE k + 1
  <2>1. Nul(n, data) = IF n <= k THEN n + 1 ELSE k + 1
    BY <1>2, <1>6, <1>7, <1>8, NulFacts
  <2> QED
    BY <1>2, <2>1
<1>10. Needed(t, n, data) = s
  BY <1>1, <1>9 DEF Needed
<1>11. CASE s >= n
  <2>1. DeserializeType(t, n, data) = Failed(n)
    BY <1>1, <1>10, <1>11 DEF DeserializeType
  <2> QED
    BY <1>1, <1>2, <2>1, ReadsNothing
<1>12. CASE s < n
  <2>1. s = k + 1 /\ k <= n /\ s <= n /\ s - 1 = k
    BY <1>2, <1>9, <1>12
  <2>2. DeserializeType(t, n, data) = Made(s, Parsed(t, s, data))
    <3>1. ~(s >= n) /\ ~(n < s)
      BY <1>2, <1>12
    <3> QED
      BY <1>1, <1>10, <3>1 DEF DeserializeType
  <2>3. Agrees(data, m.bytes)
    BY <1>3, <1>6, <1>8 DEF Agrees
  <2>4. SubSeq(data, 1, k) = m.bytes
    BY <1>3, <1>4, <2>1, <2>3, AllOfIt
  <2>5. Parsed(t, s, data) = Variable(t, 0, m.bytes)
    BY <1>1, <2>1, <2>4 DEF Parsed
  <2>6. Variable(t, 0, m.bytes) = [type |-> t, num |-> 0, bytes |-> m.bytes]
    BY <1>1 DEF Variable, Signed, Unsigned
  <2>7. Sent(m) = [type |-> t, num |-> 0, bytes |-> m.bytes]
    <3>1. t \notin Integer \cup {"BOOL"}
      BY <1>1, TypeFacts
    <3> QED
      BY <1>1, <3>1, SentIs, SentFacts
  <2> QED
    BY <1>1, <1>6, <1>8, <2>1, <2>2, <2>5, <2>6, <2>7, ReadsIt
<1> QED
  BY <1>2, <1>9, <1>11, <1>12

(* A buffer: its size is what the four bytes before it tell.               *)
LEMMA BufferRead ==
    ASSUME NEW m \in Messages, NEW data \in Seq(Bytes), m.type = "BUFFER",
           Agrees(data, Body(m)), NEW n, n = Len(data)
    PROVE  Reads(DeserializeType(m.type, n, data), m, Body(m), data)
<1>1. PICK t : t = "BUFFER"
  OBVIOUS
<1>2. n \in Nat
  BY LenProperties
<1>3. PICK w \in 0..W64 : w = W32 /\ w \in Nat
  BY Widths
<1>4. PICK k \in Nat : k = Len(m.bytes) /\ k < Power[w]
  BY <1>3, SentFacts, TypeFacts DEF Below
<1>5. PICK count \in Seq(Bytes) : count = Count(m) /\ Len(count) = w /\ count = Big(k, w)
  BY <1>3, <1>4, BodyFacts DEF Count
<1>6. PICK rest \in Seq(Bytes) : rest = m.bytes /\ Len(rest) = k
  BY <1>4, SentFacts
<1>7. PICK text \in Seq(Bytes) : text = Body(m) /\ text = count \o rest
  BY <1>1, <1>5, <1>6, BodyFacts DEF Body
<1>8. /\ Len(text) = w + k
      /\ \A i \in 1..w : text[i] = count[i]
      /\ \A i \in 1..k : text[w + i] = rest[i]
  <2>1. /\ Len(count \o rest) = Len(count) + Len(rest)
        /\ \A i \in 1..(Len(count) + Len(rest)) :
               (count \o rest)[i] = IF i <= Len(count) THEN count[i] ELSE rest[i - Len(count)]
    BY ConcatProperties
  <2>2. \A i \in 1..w : i \in 1..(w + k) /\ i <= w
    BY <1>3, <1>4
  <2>3. \A i \in 1..k : w + i \in 1..(w + k) /\ ~(w + i <= w) /\ w + i - w = i
    BY <1>3, <1>4
  <2>4. /\ Len(text) = w + k
        /\ \A i \in 1..(w + k) : text[i] = IF i <= w THEN count[i] ELSE rest[i - w]
    BY <1>5, <1>6, <1>7, <2>1
  <2>5. \A i \in 1..w : text[i] = count[i]
    BY <2>2, <2>4
  <2>6. ASSUME NEW i \in 1..k PROVE text[w + i] = rest[i]
    <3>1. PICK j : j = w + i /\ j \in 1..(w + k) /\ ~(j <= w) /\ j - w = i
      BY <2>3
    <3> QED
      BY <2>4, <3>1
  <2> QED
    BY <2>4, <2>5, <2>6
<1>9. CASE n < w
  <2>1. DeserializeType(t, n, data) = Failed(w)
    BY <1>1, <1>3, <1>9 DEF DeserializeType, Needed
  <2> QED
    BY <1>1, <1>3, <2>1, ReadsNothing
<1>10. CASE w <= n
  <2>1. SubSeq(data, 1, w) = count
    <3>1. Agrees(data, count)
      BY <1>3, <1>4, <1>5, <1>7, <1>8 DEF Agrees
    <3> QED
      BY <1>3, <1>5, <1>10, <3>1, AllOfIt
  <2>2. Swap(FromHost(count), w) = k
    <3>1. Swap(FromHost(count), w) = FromBig(count)
      BY <1>5, SwapOfHost
    <3>2. FromBig(count) = k % Power[w]
      BY <1>4, <1>5, NumberOfBytes
    <3>3. PICK p \in Nat \ {0} : p = Power[w]
      BY PowerFacts
    <3>4. k % p = k
      <4>1. k < p
        BY <1>4, <3>3
      <4>2. k \in 0..(p - 1)
        BY <4>1
      <4> QED
        BY <4>2
    <3>5. FromBig(count) = k % p
      BY <3>2, <3>3
    <3> QED
      BY <3>1, <3>4, <3>5
  <2>3. PICK s \in Nat : s = w + k
    BY <1>3, <1>4
  <2>4. Needed(t, n, data) = s
    <3>1. ~(n < w)
      BY <1>2, <1>3, <1>10
    <3> QED
      BY <1>1, <1>3, <2>1, <2>2, <2>3, <3>1 DEF Needed
  <2>5. CASE n < s
    <3>1. DeserializeType(t, n, data) = Failed(s)
      BY <1>1, <2>4, <2>5 DEF DeserializeType
    <3> QED
      BY <1>1, <3>1, ReadsNothing
  <2>6. CASE s <= n
    <3>1. DeserializeType(t, n, data) = Made(s, Parsed(t, s, data))
      <4>1. ~(n < s)
        BY <1>2, <2>6
      <4> QED
        BY <1>1, <2>4, <4>1 DEF DeserializeType
    <3>2. SubSeq(data, w + 1, s) = rest
      <4>1. PICK d : d = SubSeq(data, w + 1, s)
        OBVIOUS
      <4>2. \A i \in (w + 1)..s : i \in 1..Len(data)
        BY <1>2, <1>3, <2>6
      <4>3. \A i \in (w + 1)..s : data[i] \in Bytes
        BY <4>2, ElementOfSeq
      <4>4. /\ SubSeq(data, w + 1, s) \in Seq(Bytes)
            /\ Len(SubSeq(data, w + 1, s)) = IF w + 1 <= s THEN s - (w + 1) + 1 ELSE 0
            /\ \A i \in 1..(s - (w + 1) + 1) : SubSeq(data, w + 1, s)[i] = data[w + 1 + i - 1]
        BY <4>2, <4>3, <1>3, <2>3, SubSeqProperties
      <4>5. s - (w + 1) + 1 = k /\ (~(w + 1 <= s) => k = 0) /\ \A i \in 1..k : w + 1 + i - 1 = w + i
        BY <1>3, <1>4, <2>3
      <4>6. d \in Seq(Bytes) /\ Len(d) = k /\ \A i \in 1..k : d[i] = data[w + i]
        BY <4>1, <4>4, <4>5
      <4>7. \A i \in 1..k : data[w + i] = text[w + i]
        <5>1. \A i \in 1..k : w + i \in 1..Len(data) /\ w + i <= Len(text)
          BY <1>2, <1>3, <1>4, <1>8, <2>3, <2>6
        <5> QED
          BY <5>1, <1>7 DEF Agrees
      <4>8. \A i \in 1..k : d[i] = rest[i]
        BY <4>6, <4>7, <1>8
      <4> QED
        BY <1>6, <4>1, <4>6, <4>8, SeqEqual
    <3>3. Parsed(t, s, data) = Variable(t, 0, rest)
      BY <1>1, <1>3, <3>2 DEF Parsed
    <3>4. Variable(t, 0, rest) = [type |-> t, num |-> 0, bytes |-> rest]
      BY <1>1 DEF Variable, Signed, Unsigned
    <3>5. Sent(m) = [type |-> t, num |-> 0, bytes |-> rest]
      <4>1. t \notin Integer \cup {"BOOL"}
        BY <1>1, TypeFacts
      <4> QED
        BY <1>1, <1>6, <4>1, SentIs, SentFacts
    <3>6. s = Len(Body(m)) /\ s <= Len(data)
      BY <1>7, <1>8, <2>3, <2>6
    <3>7. Parsed(t, s, data) = Sent(m)
      BY <3>3, <3>4, <3>5
    <3> QED
      BY <1>1, <3>1, <3>6, <3>7, ReadsIt
  <2> QED
    BY <1>2, <2>3, <2>5, <2>6
<1> QED
  BY <1>2, <1>3, <1>9, <1>10

LEMMA BodyRead ==
    ASSUME NEW m \in Messages, NEW data \in Seq(Bytes),
           Agrees(data, Body(m)), NEW n, n = Len(data)
    PROVE  Reads(DeserializeType(m.type, n, data), m, Body(m), data)
<1>1. m.type \in Integer \cup {"NULL", "BOOL", "BUFFER", "STRING"}
  BY SentFacts, TypeFacts
<1> QED
  BY <1>1, IntegerRead, BooleanRead, NullRead, StringRead, BufferRead

(* With the type in front of it.                                           *)
LEMMA CodesDiffer == \A t \in Types, u \in Types : Code[t] = Code[u] => t = u
  BY DEF Types, Code

LEMMA OneMore ==
    ASSUME NEW t, NEW n, NEW data, NEW r, r = DeserializeType(t, n, data)
    PROVE  LET q == [r EXCEPT !.size = @ + 1]
           IN  q.ok = r.ok /\ q.variable = r.variable /\ q.size = r.size + 1
<1>1. PICK o, z, v : r = [ok |-> o, size |-> z, variable |-> v]
  BY DEF DeserializeType, Failed, Made
<1> QED
  BY <1>1

LEMMA TextRead ==
    ASSUME NEW m \in Good, NEW data \in Seq(Bytes), Agrees(data, Text(m)), NEW n, n = Len(data)
    PROVE  Reads(IF m.prefix THEN Deserialize(n, data) ELSE DeserializeType(m.type, n, data),
                 m, Text(m), data)
<1>1. m \in Messages /\ n \in Nat
  BY LenProperties DEF Good
<1>2. CASE ~m.prefix
  BY <1>1, <1>2, BodyRead DEF Text
<1>3. CASE m.prefix /\ n < 1
  <2>1. Deserialize(n, data) = Failed(n)
    BY <1>3 DEF Deserialize
  <2> QED
    BY <1>1, <1>3, <2>1, ReadsNothing
<1>4. CASE m.prefix /\ 1 <= n
  <2>1. PICK t \in Types : t = m.type
    BY <1>1, SentFacts
  <2>2. PICK c \in Bytes : c = Code[t]
    BY CodeByte
  <2>3. PICK first \in Seq(Bytes) : first = <<c>> /\ Len(first) = 1 /\ first[1] = c
    <3>1. <<c>> \in Seq(Bytes) /\ Len(<<c>>) = 1 /\ <<c>>[1] = c
      OBVIOUS
    <3> QED
      BY <3>1
  <2>4. PICK body \in Seq(Bytes) : body = Body(m)
    BY <1>1, BodyFacts
  <2>5. PICK text \in Seq(Bytes) : text = Text(m) /\ text = first \o body
    BY <1>1, <1>4, <2>1, <2>2, <2>3, <2>4, BodyFacts DEF Text
  <2>6. PICK b \in Nat : b = Len(body)
    BY LenProperties
  <2>7. /\ Len(text) = b + 1
        /\ \A i \in 1..(b + 1) : text[i] = IF i <= 1 THEN c ELSE body[i - 1]
    <3>1. /\ Len(first \o body) = Len(first) + Len(body)
          /\ \A i \in 1..(Len(first) + Len(body)) :
                 (first \o body)[i] = IF i <= Len(first) THEN first[i] ELSE body[i - Len(first)]
      BY ConcatProperties
    <3>2. /\ Len(text) = 1 + b
          /\ \A i \in 1..(1 + b) : text[i] = IF i <= 1 THEN first[i] ELSE body[i - 1]
      BY <2>3, <2>5, <2>6, <3>1
    <3>3. \A i \in 1..(1 + b) : i <= 1 => i = 1
      OBVIOUS
    <3> QED
      BY <2>3, <2>6, <3>2, <3>3
  <2>8. data[1] = c
    <3>1. PICK i \in 1..(b + 1) : i = 1
      BY <2>6
    <3>2. i \in 1..Len(data) /\ i <= Len(text)
      BY <1>1, <1>4, <2>7, <3>1
    <3>3. data[i] = text[i]
      BY <2>5, <3>2 DEF Agrees
    <3> QED
      BY <2>7, <3>1, <3>3
  <2>9. PICK k \in Nat : k = n - 1 /\ n = k + 1
    <3>1. 1 <= n
      BY <1>4
    <3>2. n - 1 \in Nat /\ n = n - 1 + 1
      BY <1>1, <3>1
    <3> QED
      BY <3>2
  <2>10. PICK tail \in Seq(Bytes) : tail = Tail(data) /\ Len(tail) = k /\ \A i \in 1..k : tail[i] = data[i + 1]
    <3>1. data # <<>>
      BY <1>1, <1>4, EmptySeq
    <3>2. /\ Tail(data) \in Seq(Bytes)
          /\ Len(Tail(data)) = Len(data) - 1
          /\ \A i \in 1..Len(Tail(data)) : Tail(data)[i] = data[i + 1]
      BY <3>1, HeadTailProperties
    <3> QED
      BY <2>9, <3>2
  <2>11. Agrees(tail, body)
    <3>1. \A i \in 1..k : i <= b => tail[i] = body[i]
      <4> SUFFICES ASSUME NEW i \in 1..k, i <= b PROVE tail[i] = body[i]
        OBVIOUS
      <4>1. PICK j : /\ j = i + 1 /\ j \in 1..(k + 1) /\ j \in 1..(b + 1)
                     /\ j <= b + 1 /\ ~(j <= 1) /\ j - 1 = i
        OBVIOUS
      <4>2. data[j] = text[j]
        BY <2>5, <2>7, <2>9, <4>1 DEF Agrees
      <4> QED
        BY <2>7, <2>10, <4>1, <4>2
    <3> QED
      BY <2>6, <2>10, <3>1 DEF Agrees
  <2>12. PICK r : r = DeserializeType(t, k, tail)
    OBVIOUS
  <2>13. Reads(r, m, body, tail)
    BY <1>1, <2>1, <2>4, <2>10, <2>11, <2>12, BodyRead
  <2>14. PICK q : q = [r EXCEPT !.size = @ + 1]
    OBVIOUS
  <2>15. q.ok = r.ok /\ q.variable = r.variable /\ q.size = r.size + 1
    BY <2>12, <2>14, OneMore
  <2>16. Deserialize(n, data) = q
    <3>1. (CHOOSE u \in Types : Code[u] = data[1]) = t
      BY <2>2, <2>8, CodesDiffer
    <3>2. ~(n < 1) /\ ~(\A u \in Types : Code[u] # data[1])
      BY <1>1, <1>4, <2>2, <2>8
    <3> QED
      BY <2>9, <2>10, <2>12, <2>14, <3>1, <3>2 DEF Deserialize
  <2>17. Reads(q, m, text, data)
    <3>1. r.size \in Nat /\ (r.ok => r.size = b /\ r.size <= k /\ r.variable = Sent(m))
      BY <2>6, <2>10, <2>13 DEF Reads
    <3>2. q.size \in Nat
      BY <2>15, <3>1
    <3>3. ASSUME q.ok PROVE q.size = Len(text) /\ q.size <= Len(data) /\ q.variable = Sent(m)
      <4>1. r.size = b /\ r.size <= k /\ r.variable = Sent(m)
        BY <2>15, <3>1, <3>3
      <4>2. q.size = Len(text)
        BY <2>7, <2>15, <4>1
      <4>3. q.size <= Len(data)
        BY <1>1, <2>9, <2>15, <3>1, <4>1
      <4> QED
        BY <2>15, <4>1, <4>2, <4>3
    <3> QED
      BY <3>2, <3>3 DEF Reads
  <2> QED
    BY <1>4, <2>5, <2>16, <2>17
<1> QED
  BY <1>1, <1>2, <1>3, <1>4
----------------------------------------------------------------------------
(* Sequences of bytes, one after the other.                                *)

Flattens(f, q, n) == f[0] = <<>> /\ \A k \in 1..n : f[k] = f[k - 1] \o q[k]

LEMMA FlattenFacts ==
    ASSUME NEW S, NEW q \in Seq(Seq(S)), NEW n \in Nat, n = Len(q)
    PROVE  \E f : /\ Flattens(f, q, n)
                  /\ \A k \in 0..n : f[k] \in Seq(S)
                  /\ f[n] = FlattenSeq(q)
<1>1. \A k \in 1..n : q[k] \in Seq(S)
  BY ElementOfSeq
<1> DEFINE op == [x \in (1..n) \X Seq(S) |-> x[2] \o q[x[1]]]
<1>2. op \in [(1..n) \X Seq(S) -> Seq(S)]
  BY <1>1, ConcatProperties
<1>3. \A k \in 1..n, v \in Seq(S) : op[<<k, v>>] = v \o q[k]
  OBVIOUS
<1> HIDE DEF op
<1>4. <<>> \in Seq(S)
  BY EmptySeq
<1>5. PICK f \in [0..n -> Seq(S)] : Iterate(f, <<>>, n, op)
  BY <1>2, <1>4, Iterates
<1>6. f[0] = <<>>
  BY <1>5 DEF Iterate
<1>7. ASSUME NEW k \in 1..n PROVE f[k] = f[k - 1] \o q[k]
  <2>1. k - 1 \in 0..n
    OBVIOUS
  <2>2. f[k] = op[<<k, f[k - 1]>>] /\ f[k - 1] \in Seq(S)
    BY <1>5, <2>1 DEF Iterate
  <2> QED
    BY <1>3, <2>2
<1>8. CASE n = 0
  <2>1. q = <<>> /\ FlattenSeq(q) = q
    BY <1>8, EmptySeq DEF FlattenSeq
  <2> QED
    BY <1>5, <1>6, <1>8, <2>1 DEF Flattens
<1>9. CASE n # 0
  <2> DEFINE Step(g) == [k \in 1..n |-> IF k = 1 THEN q[k] ELSE g[k - 1] \o q[k]]
             e == [k \in 1..n |-> f[k]]
  <2>1. e = Step(e)
    <3>1. ASSUME NEW k \in 1..n PROVE f[k] = IF k = 1 THEN q[k] ELSE e[k - 1] \o q[k]
      <4>1. CASE k = 1
        <5>1. k - 1 = 0
          BY <4>1
        <5>2. PICK x \in Seq(S) : x = q[k]
          BY <1>1
        <5>3. <<>> \o x = x
          BY ConcatEmptySeq
        <5> QED
          BY <1>6, <1>7, <4>1, <5>1, <5>2, <5>3
      <4>2. CASE k # 1
        <5>1. k - 1 \in 1..n
          BY <4>2
        <5> QED
          BY <1>7, <4>2, <5>1
      <4> QED
        BY <4>1, <4>2
    <3> QED
      BY <3>1
  <2>2. PICK g : g = CHOOSE h : h = Step(h)
    OBVIOUS
  <2>3. g = Step(g) /\ FlattenSeq(q) = g[n]
    BY <1>9, <2>1, <2>2 DEF FlattenSeq
  <2>4. ASSUME NEW k \in 1..n PROVE g[k] = IF k = 1 THEN q[k] ELSE g[k - 1] \o q[k]
    BY <2>3
  <2> DEFINE P == {k \in 0..n : k = 0 \/ g[k] = f[k]}
  <2>5. 0 \in P
    OBVIOUS
  <2>6. ASSUME NEW k \in 1..n, k - 1 \in P PROVE k \in P
    <3>1. CASE k = 1
      <4>1. k - 1 = 0
        BY <3>1
      <4>2. PICK x \in Seq(S) : x = q[k]
        BY <1>1
      <4>3. <<>> \o x = x
        BY ConcatEmptySeq
      <4>4. g[k] = f[k]
        BY <1>6, <1>7, <2>4, <3>1, <4>1, <4>2, <4>3
      <4> QED
        BY <4>4
    <3>2. CASE k # 1
      <4>1. k - 1 # 0 /\ g[k - 1] = f[k - 1]
        BY <2>6, <3>2
      <4>2. g[k] = f[k]
        BY <1>7, <2>4, <3>2, <4>1
      <4> QED
        BY <4>2
    <3> QED
      BY <3>1, <3>2
  <2> HIDE DEF P, Step, e
  <2>7. \A k \in 0..n : k \in P
    BY <2>5, <2>6, Induction
  <2>8. n \in P
    BY <2>7
  <2>9. g[n] = f[n]
    BY <1>9, <2>8 DEF P
  <2> QED
    BY <1>5, <1>6, <1>7, <2>3, <2>9 DEF Flattens
<1> QED
  BY <1>8, <1>9

LEMMA FlattenAppend ==
    ASSUME NEW S, NEW q \in Seq(Seq(S)), NEW x \in Seq(S)
    PROVE  FlattenSeq(Append(q, x)) = FlattenSeq(q) \o x
<1>1. PICK n \in Nat : n = Len(q)
  BY LenProperties
<1>2. PICK p \in Seq(Seq(S)) : p = Append(q, x)
  BY AppendProperties
<1>3. Len(p) = n + 1 /\ p[n + 1] = x /\ \A k \in 1..n : p[k] = q[k]
  BY <1>1, <1>2, AppendProperties
<1>4. PICK f : Flattens(f, q, n) /\ f[n] = FlattenSeq(q)
  BY <1>1, FlattenFacts
<1>5. PICK m \in Nat : m = n + 1
  OBVIOUS
<1>6. PICK g : Flattens(g, p, m) /\ g[m] = FlattenSeq(p)
  BY <1>3, <1>5, FlattenFacts
<1> DEFINE P == {k \in 0..n : g[k] = f[k]}
<1>7. 0 \in P
  BY <1>4, <1>6 DEF Flattens
<1>8. ASSUME NEW k \in 1..n, k - 1 \in P PROVE k \in P
  <2>1. k \in 1..m /\ k \in 0..n
    BY <1>5
  <2>2. g[k - 1] = f[k - 1]
    BY <1>8
  <2>3. g[k] = f[k]
    BY <1>3, <1>4, <1>6, <2>1, <2>2 DEF Flattens
  <2> QED
    BY <2>1, <2>3
<1> HIDE DEF P
<1>9. \A k \in 0..n : k \in P
  BY <1>7, <1>8, Induction
<1>10. g[n] = f[n]
  BY <1>9 DEF P
<1>11. g[m] = g[m - 1] \o p[m] /\ m - 1 = n
  <2>1. PICK j \in 1..m : j = m /\ j - 1 = n
    BY <1>5
  <2>2. g[j] = g[j - 1] \o p[j]
    BY <1>6 DEF Flattens
  <2> QED
    BY <2>1, <2>2
<1> QED
  BY <1>2, <1>3, <1>4, <1>5, <1>6, <1>10, <1>11

LEMMA FlattenTail ==
    ASSUME NEW S, NEW q \in Seq(Seq(S)), q # <<>>
    PROVE  /\ FlattenSeq(q) = q[1] \o FlattenSeq(Tail(q))
           /\ FlattenSeq(Tail(q)) \in Seq(S)
<1>1. PICK m \in Nat : m = Len(q) /\ m # 0
  BY LenProperties, EmptySeq
<1>2. PICK n \in Nat : n = m - 1 /\ m = n + 1
  <2>1. m - 1 \in Nat /\ m = m - 1 + 1
    BY <1>1
  <2> QED
    BY <2>1
<1>3. PICK p \in Seq(Seq(S)) : p = Tail(q)
  BY HeadTailProperties
<1>4. Len(p) = n /\ \A k \in 1..n : p[k] = q[k + 1]
  BY <1>1, <1>2, <1>3, HeadTailProperties
<1>5. PICK f : Flattens(f, q, m) /\ f[m] = FlattenSeq(q)
  BY <1>1, FlattenFacts
<1>6. PICK g : Flattens(g, p, n) /\ g[n] = FlattenSeq(p) /\ \A k \in 0..n : g[k] \in Seq(S)
  BY <1>4, FlattenFacts
<1>7. PICK x \in Seq(S) : x = q[1]
  <2>1. 1 \in 1..Len(q)
    BY <1>1
  <2> QED
    BY <2>1, ElementOfSeq
<1>8. \A k \in 1..n : p[k] \in Seq(S)
  BY <1>4, ElementOfSeq
<1> DEFINE P == {k \in 0..n : f[k + 1] = x \o g[k]}
<1>9. 0 \in P
  <2>1. f[1] = f[1 - 1] \o q[1] /\ 1 - 1 = 0
    <3>1. PICK j \in 1..m : j = 1
      BY <1>1
    <3>2. f[j] = f[j - 1] \o q[j]
      BY <1>5 DEF Flattens
    <3> QED
      BY <3>1, <3>2
  <2>2. <<>> \o x = x /\ x \o <<>> = x
    BY ConcatEmptySeq
  <2>3. 0 + 1 = 1 /\ 0 \in 0..n
    OBVIOUS
  <2> QED
    BY <1>5, <1>6, <1>7, <2>1, <2>2, <2>3 DEF Flattens
<1>10. ASSUME NEW k \in 1..n, k - 1 \in P PROVE k \in P
  <2>1. k + 1 \in 1..m /\ k + 1 - 1 = k /\ k - 1 + 1 = k /\ k \in 0..n /\ k - 1 \in 0..n
    BY <1>2
  <2>2. f[k] = x \o g[k - 1]
    BY <1>10, <2>1
  <2>3. f[k + 1] = f[k] \o q[k + 1]
    <3>1. PICK j \in 1..m : j = k + 1 /\ j - 1 = k
      BY <2>1
    <3>2. f[j] = f[j - 1] \o q[j]
      BY <1>5 DEF Flattens
    <3> QED
      BY <3>1, <3>2
  <2>4. g[k] = g[k - 1] \o p[k] /\ p[k] = q[k + 1]
    BY <1>4, <1>6 DEF Flattens
  <2>5. (x \o g[k - 1]) \o p[k] = x \o (g[k - 1] \o p[k])
    <3>1. PICK u \in Seq(S) : u = g[k - 1]
      BY <1>6, <2>1
    <3>2. PICK v \in Seq(S) : v = p[k]
      BY <1>8
    <3>3. (x \o u) \o v = x \o (u \o v)
      BY ConcatAssociative
    <3> QED
      BY <3>1, <3>2, <3>3
  <2>6. f[k + 1] = x \o g[k]
    BY <2>2, <2>3, <2>4, <2>5
  <2> QED
    BY <2>1, <2>6
<1> HIDE DEF P
<1>11. \A k \in 0..n : k \in P
  BY <1>9, <1>10, Induction
<1>12. n \in P
  BY <1>11
<1>13. f[n + 1] = x \o g[n] /\ g[n] \in Seq(S)
  <2>1. n \in 0..n
    OBVIOUS
  <2> QED
    BY <1>6, <1>12, <2>1 DEF P
<1> QED
  BY <1>2, <1>3, <1>5, <1>6, <1>7, <1>13

(* Bytes moved from one end to the other, and taken off at the front.      *)
FirstPart(s, n) == SubSeq(s, 1, n)
After(s, n) == SubSeq(s, n + 1, Len(s))

LEMMA Moved ==
    ASSUME NEW S, NEW a \in Seq(S), NEW w \in Seq(S), NEW n \in 1..Len(w)
    PROVE  /\ FirstPart(w, n) \in Seq(S) /\ After(w, n) \in Seq(S)
           /\ a \o FirstPart(w, n) \in Seq(S)
           /\ (a \o FirstPart(w, n)) \o After(w, n) = a \o w
<1>1. PICK k \in Nat : k = Len(w)
  BY LenProperties
<1>2. n \in 1..k /\ n \in Int /\ n + 1 \in Int
  BY <1>1
<1>3. \A i \in 1..k : w[i] \in S
  BY <1>1, ElementOfSeq
<1>4. PICK u \in Seq(S) : u = SubSeq(w, 1, n)
  <2>1. PICK m \in Int : m = 1
    OBVIOUS
  <2>2. \A i \in m..n : w[i] \in S
    BY <1>2, <1>3, <2>1
  <2>3. SubSeq(w, m, n) \in Seq(S)
    BY <1>2, <2>2, SubSeqProperties
  <2> QED
    BY <2>1, <2>3
<1>5. PICK v \in Seq(S) : v = SubSeq(w, n + 1, k)
  <2>1. PICK m \in Int : m = n + 1
    BY <1>2
  <2>2. \A i \in m..k : w[i] \in S
    BY <1>2, <1>3, <2>1
  <2>3. SubSeq(w, m, k) \in Seq(S)
    BY <2>2, SubSeqProperties
  <2> QED
    BY <2>1, <2>3
<1>6. u \o v = w
  <2>1. PICK one \in 1..(Len(w) + 1) : one = 1 /\ one - 1 = 0
    BY <1>1
  <2>2. n \in (one - 1)..Len(w) /\ Len(w) \in n..Len(w)
    BY <1>1, <1>2, <2>1
  <2>3. SubSeq(w, one, n) \o SubSeq(w, n + 1, Len(w)) = SubSeq(w, one, Len(w))
    BY <2>2, ConcatAdjacentSubSeq
  <2> QED
    BY <1>1, <1>4, <1>5, <2>1, <2>3, SubSeqFull
<1>7. (a \o u) \o v = a \o (u \o v)
  BY ConcatAssociative, SMTT(30)
<1>8. a \o u \in Seq(S)
  <2>1. \A s \in Seq(S), r \in Seq(S) : s \o r \in Seq(S)
    BY ConcatProperties
  <2> QED
    BY <2>1
<1> QED
  BY <1>1, <1>4, <1>5, <1>6, <1>7, <1>8 DEF FirstPart, After

Joined(a, w, t, rest) == a \o w = t \o rest

LEMMA TakenOff ==
    ASSUME NEW S, NEW a \in Seq(S), NEW w \in Seq(S), NEW t \in Seq(S), NEW rest \in Seq(S),
           Joined(a, w, t, rest)
    PROVE  /\ Agrees(a, t)
           /\ Len(t) <= Len(a) =>
                  /\ After(a, Len(t)) \in Seq(S)
                  /\ After(a, Len(t)) \o w = rest
<1>1. PICK na \in Nat, nw \in Nat, nt \in Nat, nr \in Nat :
          na = Len(a) /\ nw = Len(w) /\ nt = Len(t) /\ nr = Len(rest)
  BY LenProperties
<1>2. PICK all \in Seq(S) : all = a \o w /\ all = t \o rest
  <2>1. a \o w \in Seq(S)
    BY ConcatProperties
  <2> QED
    BY <2>1 DEF Joined
<1>3. /\ Len(all) = na + nw
      /\ \A i \in 1..(na + nw) : all[i] = IF i <= na THEN a[i] ELSE w[i - na]
  <2>1. /\ Len(a \o w) = Len(a) + Len(w)
        /\ \A i \in 1..(Len(a) + Len(w)) :
               (a \o w)[i] = IF i <= Len(a) THEN a[i] ELSE w[i - Len(a)]
    BY ConcatProperties
  <2> QED
    BY <1>1, <1>2, <2>1
<1>4. /\ Len(all) = nt + nr
      /\ \A i \in 1..(nt + nr) : all[i] = IF i <= nt THEN t[i] ELSE rest[i - nt]
  <2>1. /\ Len(t \o rest) = Len(t) + Len(rest)
        /\ \A i \in 1..(Len(t) + Len(rest)) :
               (t \o rest)[i] = IF i <= Len(t) THEN t[i] ELSE rest[i - Len(t)]
    BY ConcatProperties
  <2> QED
    BY <1>1, <1>2, <2>1
<1>5. na + nw = nt + nr
  BY <1>3, <1>4
<1>6. ASSUME NEW i \in 1..na, i <= nt PROVE a[i] = t[i]
  <2>1. i \in 1..(na + nw) /\ i \in 1..(nt + nr) /\ i <= na
    BY <1>6
  <2> QED
    BY <1>3, <1>4, <1>6, <2>1
<1>7. ASSUME nt <= na
      PROVE  SubSeq(a, nt + 1, na) \in Seq(S) /\ SubSeq(a, nt + 1, na) \o w = rest
  <2>1. PICK l \in Nat : l = na - nt /\ na = nt + l /\ nr = l + nw
    <3>1. na - nt \in Nat /\ na = nt + (na - nt) /\ nr = (na - nt) + nw
      BY <1>5, <1>7
    <3> QED
      BY <3>1
  <2>2. PICK u : u = SubSeq(a, nt + 1, na)
    OBVIOUS
  <2>3. u \in Seq(S) /\ Len(u) = l /\ \A i \in 1..l : u[i] = a[nt + i]
    <3>1. \A i \in (nt + 1)..na : i \in 1..Len(a)
      BY <1>1
    <3>2. \A i \in (nt + 1)..na : a[i] \in S
      BY <3>1, ElementOfSeq
    <3>3. /\ SubSeq(a, nt + 1, na) \in Seq(S)
          /\ Len(SubSeq(a, nt + 1, na)) = IF nt + 1 <= na THEN na - (nt + 1) + 1 ELSE 0
          /\ \A i \in 1..(na - (nt + 1) + 1) : SubSeq(a, nt + 1, na)[i] = a[nt + 1 + i - 1]
      BY <3>2, SubSeqProperties
    <3>4. na - (nt + 1) + 1 = l /\ (~(nt + 1 <= na) => l = 0) /\ \A i \in 1..l : nt + 1 + i - 1 = nt + i
      BY <2>1
    <3> QED
      BY <2>2, <3>3, <3>4
  <2>4. PICK v \in Seq(S) : v = u \o w
    BY <2>3, ConcatProperties
  <2>5. /\ Len(v) = nr
        /\ \A i \in 1..nr : v[i] = IF i <= l THEN u[i] ELSE w[i - l]
    <3>1. /\ Len(u \o w) = Len(u) + Len(w)
          /\ \A i \in 1..(Len(u) + Len(w)) :
                 (u \o w)[i] = IF i <= Len(u) THEN u[i] ELSE w[i - Len(u)]
      BY <2>3, ConcatProperties
    <3> QED
      BY <1>1, <2>1, <2>3, <2>4, <3>1
  <2>6. ASSUME NEW i \in 1..nr PROVE v[i] = rest[i]
    <3>1. PICK j : j = nt + i /\ j \in 1..(nt + nr) /\ ~(j <= nt) /\ j - nt = i
      OBVIOUS
    <3>2. all[j] = rest[i]
      BY <1>4, <3>1
    <3>3. j \in 1..(na + nw)
      BY <1>5, <3>1
    <3>4. CASE i <= l
      <4>1. j <= na /\ i \in 1..l
        BY <2>1, <3>1, <3>4
      <4>2. all[j] = a[j]
        BY <1>3, <3>3, <4>1
      <4> QED
        BY <2>3, <2>5, <3>1, <3>2, <3>4, <4>1, <4>2
    <3>5. CASE ~(i <= l)
      <4>1. ~(j <= na) /\ j - na = i - l
        BY <2>1, <3>1, <3>5
      <4>2. all[j] = w[i - l]
        BY <1>3, <3>3, <4>1
      <4> QED
        BY <2>5, <3>2, <3>5, <4>2
    <3> QED
      BY <3>4, <3>5
  <2>7. v = rest
    BY <1>1, <2>5, <2>6, SeqEqual
  <2> QED
    BY <2>2, <2>3, <2>4, <2>7
<1> QED
  BY <1>1, <1>6, <1>7 DEF After, Agrees

(* A function of each element of a sequence.                               *)
Mapped(f, p) == [k \in DOMAIN p |-> f[p[k]]]
Maps(f, S, T) == \A x \in S : f[x] \in T

LEMMA MappedIs ==
    ASSUME NEW S, NEW T, NEW f, Maps(f, S, T), NEW p \in Seq(S)
    PROVE  /\ Mapped(f, p) \in Seq(T)
           /\ Len(Mapped(f, p)) = Len(p)
           /\ \A k \in 1..Len(p) : Mapped(f, p)[k] = f[p[k]]
<1>1. PICK n \in Nat : n = Len(p) /\ DOMAIN p = 1..n
  BY LenProperties
<1>2. \A k \in 1..n : f[p[k]] \in T
  BY <1>1, ElementOfSeq DEF Maps
<1>3. PICK q : q = Mapped(f, p)
  OBVIOUS
<1>4. q = [k \in 1..n |-> f[p[k]]]
  BY <1>1, <1>3 DEF Mapped
<1>5. q \in [1..n -> T] /\ \A k \in 1..n : q[k] = f[p[k]]
  BY <1>2, <1>4
<1>6. q \in Seq(T)
  BY <1>5, SeqDef
<1>7. Len(q) = n
  BY <1>5, <1>6, LenProperties
<1> QED
  BY <1>1, <1>3, <1>5, <1>6, <1>7

LEMMA MappedFacts ==
    ASSUME NEW S, NEW T, NEW f, Maps(f, S, T), NEW p \in Seq(S)
    PROVE  /\ \A x \in S : Mapped(f, Append(p, x)) = Append(Mapped(f, p), f[x])
           /\ p # <<>> => /\ Mapped(f, p) # <<>>
                          /\ Mapped(f, p)[1] = f[Head(p)]
                          /\ Mapped(f, Tail(p)) = Tail(Mapped(f, p))
<1>1. PICK n \in Nat : n = Len(p)
  BY LenProperties
<1>2. PICK q \in Seq(T) : q = Mapped(f, p) /\ Len(q) = n /\ \A k \in 1..n : q[k] = f[p[k]]
  <2>1. /\ Mapped(f, p) \in Seq(T)
        /\ Len(Mapped(f, p)) = Len(p)
        /\ \A k \in 1..Len(p) : Mapped(f, p)[k] = f[p[k]]
    BY MappedIs
  <2> QED
    BY <1>1, <2>1
<1>3. ASSUME NEW x \in S PROVE Mapped(f, Append(p, x)) = Append(q, f[x])
  <2>1. PICK a \in Seq(S) : a = Append(p, x)
    BY AppendProperties
  <2>2. PICK m \in Nat : m = n + 1
    OBVIOUS
  <2>3. Len(a) = m /\ a[m] = x /\ \A k \in 1..n : a[k] = p[k]
    BY <1>1, <2>1, <2>2, AppendProperties
  <2>4. PICK b \in Seq(T) : b = Mapped(f, a) /\ Len(b) = m /\ \A k \in 1..m : b[k] = f[a[k]]
    <3>1. /\ Mapped(f, a) \in Seq(T)
          /\ Len(Mapped(f, a)) = Len(a)
          /\ \A k \in 1..Len(a) : Mapped(f, a)[k] = f[a[k]]
      BY MappedIs
    <3> QED
      BY <2>3, <3>1
  <2>5. PICK y \in T : y = f[x]
    BY DEF Maps
  <2>6. PICK c \in Seq(T) : c = Append(q, y)
    BY AppendProperties
  <2>7. Len(c) = m /\ c[m] = y /\ \A k \in 1..n : c[k] = q[k]
    BY <1>2, <2>2, <2>6, AppendProperties
  <2>8. ASSUME NEW k \in 1..m PROVE b[k] = c[k]
    <3>1. k = m \/ k \in 1..n
      BY <2>2
    <3>2. CASE k = m
      <4>1. b[k] = f[a[m]] /\ a[m] = x
        BY <2>3, <2>4, <3>2
      <4> QED
        BY <2>5, <2>7, <3>2, <4>1
    <3>3. CASE k \in 1..n
      <4>1. b[k] = f[a[k]] /\ a[k] = p[k]
        BY <2>3, <2>4, <3>3
      <4> QED
        BY <1>2, <2>7, <3>3, <4>1
    <3> QED
      BY <3>1, <3>2, <3>3
  <2>9. b = c
    BY <2>4, <2>7, <2>8, SeqEqual
  <2> QED
    BY <2>1, <2>4, <2>5, <2>6, <2>9
<1>4. ASSUME p # <<>>
      PROVE  q # <<>> /\ q[1] = f[Head(p)] /\ Mapped(f, Tail(p)) = Tail(q)
  <2>1. n # 0
    BY <1>1, <1>4, EmptySeq
  <2>2. q # <<>>
    BY <1>2, <2>1, EmptySeq
  <2>3. PICK a \in Seq(S) : a = Tail(p)
    BY <1>4, HeadTailProperties
  <2>4. PICK m \in Nat : m = n - 1
    BY <2>1
  <2>5. Len(a) = m /\ \A k \in 1..m : a[k] = p[k + 1]
    BY <1>1, <1>4, <2>3, <2>4, HeadTailProperties
  <2>6. PICK b \in Seq(T) : b = Mapped(f, a) /\ Len(b) = m /\ \A k \in 1..m : b[k] = f[a[k]]
    <3>1. /\ Mapped(f, a) \in Seq(T)
          /\ Len(Mapped(f, a)) = Len(a)
          /\ \A k \in 1..Len(a) : Mapped(f, a)[k] = f[a[k]]
      BY MappedIs
    <3> QED
      BY <2>5, <3>1
  <2>7. PICK c \in Seq(T) : c = Tail(q)
    BY <2>2, HeadTailProperties
  <2>8. Len(c) = m /\ \A k \in 1..m : c[k] = q[k + 1]
    BY <1>2, <2>2, <2>4, <2>7, HeadTailProperties
  <2>9. ASSUME NEW k \in 1..m PROVE b[k] = c[k]
    <3>1. PICK j \in 1..n : j = k + 1
      BY <2>4
    <3>2. q[j] = f[p[j]]
      BY <1>2
    <3> QED
      BY <2>5, <2>6, <2>8, <3>1, <3>2
  <2>10. b = c
    BY <2>6, <2>8, <2>9, SeqEqual
  <2>11. q[1] = f[Head(p)]
    <3>1. PICK j \in 1..n : j = 1
      BY <2>1
    <3>2. q[j] = f[p[j]]
      BY <1>2
    <3> QED
      BY <3>1, <3>2
  <2> QED
    BY <2>2, <2>3, <2>6, <2>7, <2>10, <2>11
<1> QED
  BY <1>2, <1>3, <1>4

LEMMA NothingMapped ==
    ASSUME NEW S, NEW T, NEW f, Maps(f, S, T)
    PROVE  Mapped(f, <<>>) = <<>>
<1>1. PICK p \in Seq(S) : p = <<>> /\ Len(p) = 0
  <2>1. <<>> \in Seq(S) /\ Len(<<>>) = 0
    BY EmptySeq
  <2> QED
    BY <2>1
<1>2. /\ Mapped(f, p) \in Seq(T)
      /\ Len(Mapped(f, p)) = Len(p)
      /\ \A k \in 1..Len(p) : Mapped(f, p)[k] = f[p[k]]
  BY MappedIs
<1> QED
  BY <1>1, <1>2, EmptySeq

LEMMA AloneFacts == \A m \in Good : Alone[m] = Text(m) /\ Alone[m] \in Seq(Bytes)
<1> SUFFICES ASSUME NEW m \in Good PROVE Alone[m] = Text(m) /\ Alone[m] \in Seq(Bytes)
  OBVIOUS
<1>1. m \in Messages
  BY DEF Good
<1>2. PICK b \in Seq(Bytes) : b = <<>>
  BY EmptySeq
<1>3. Serialize(b, Writes(Sent(m), m.prefix)) = Text(m)
  BY SerializeText
<1>4. Alone[m] = Text(m)
  BY <1>1, <1>2, <1>3 DEF Alone
<1> QED
  BY <1>1, <1>4, BodyFacts
----------------------------------------------------------------------------
(* Reading a variable as another type.                                     *)

LEMMA ConvertFacts ==
    ASSUME NEW v, v.type \in Types, v.type \in Integer => v.num \in Numbers(v.type),
           NEW t \in AsTypes, CanGetAs(v, t), Readable(v, t)
    PROVE  /\ t \in Types
           /\ t \in Integer => v.num \in Numbers(t)
           /\ Variable(t, v.num, v.bytes) = [type |-> t, num |-> v.num, bytes |-> v.bytes]
<1>1. t \in Integer \cup {"BOOL"} /\ t \in Types
  BY WidthAssumption, TypeFacts DEF Integer
<1>2. CASE t = "BOOL"
  <2>1. v.num \in {0, 1}
    BY <1>2 DEF Readable
  <2>2. Variable(t, v.num, v.bytes) = [type |-> t, num |-> v.num, bytes |-> v.bytes]
    BY <1>2, <2>1 DEF Variable
  <2> QED
    BY <1>1, <1>2, <2>2, TypeFacts
<1>3. CASE t \in Integer
  <2>1. v.num \in Numbers(t)
    <3>1. CASE t = v.type
      BY <1>3, <3>1
    <3>2. CASE v.type \in ConvertedFrom(t) /\ InRange(v, t) /\ t # "INT64"
      BY <3>2 DEF InRange
    <3>3. CASE v.type \in ConvertedFrom(t) /\ t = "INT64"
      <4>1. v.type = "UINT64" /\ v.type \in Integer /\ v.type \notin Signed /\ t \in Signed
        BY <3>3 DEF ConvertedFrom, Integer, Signed, Unsigned
      <4>2. PICK h \in Nat \ {0} : Below(t) \div 2 = h
        BY <1>3, BelowFacts
      <4>3. PICK g \in Nat : Below(v.type) = g
        <5>1. PICK u \in Integer : u = v.type
          BY <4>1
        <5>2. PICK e \in Nat \ {0} : Below(u) = 2 * e
          BY BelowFacts
        <5> QED
          BY <5>1, <5>2
      <4>4. v.num \in 0..(g - 1)
        BY <4>1, <4>3 DEF Numbers
      <4>5. v.num < h
        BY <3>3, <4>2 DEF Readable
      <4>6. v.num \in (-h)..(h - 1)
        BY <4>4, <4>5
      <4> QED
        BY <4>1, <4>2, <4>6 DEF Numbers
    <3> QED
      BY <3>1, <3>2, <3>3 DEF CanGetAs
  <2>2. PICK x \in Int : x = v.num /\ x \in Numbers(t)
    BY <1>3, <2>1, WrapNumbers
  <2>3. Wrap(t, x) = x
    BY <1>3, <2>2, WrapNumbers
  <2>4. Variable(t, x, v.bytes) = [type |-> t, num |-> x, bytes |-> v.bytes]
    BY <1>3, <2>3, TypeFacts DEF Variable, Integer
  <2> QED
    BY <1>1, <2>1, <2>2, <2>4
<1> QED
  BY <1>1, <1>2, <1>3
----------------------------------------------------------------------------
(* The bytes on their way are those of the messages pending.               *)

StreamInv == TypeOK /\ pending \in Seq(Good) /\ Framed

(* What is received is the first message pending, and nothing of the rest. *)
LEMMA ResultIs ==
    ASSUME StreamInv, pending # <<>>
    PROVE  /\ Head(pending) \in Good
           /\ Reads(Result, Head(pending), Text(Head(pending)), inbox)
           /\ \E rest \in Seq(Bytes) :
                  /\ rest = FlattenSeq(Mapped(Alone, Tail(pending)))
                  /\ inbox \o wire = Text(Head(pending)) \o rest
<1>1. /\ inbox \in Seq(Bytes) /\ wire \in Seq(Bytes) /\ pending \in Seq(Good)
      /\ inbox \o wire = FlattenSeq(Mapped(Alone, pending))
  BY DEF StreamInv, TypeOK, Framed, Mapped
<1>2. PICK m \in Good : m = Head(pending)
  BY <1>1, HeadTailProperties
<1>3. PICK text \in Seq(Bytes) : text = Text(m) /\ text = Alone[m]
  BY AloneFacts
<1>4. Maps(Alone, Good, Seq(Bytes))
  BY AloneFacts DEF Maps
<1>5. PICK q \in Seq(Seq(Bytes)) : q = Mapped(Alone, pending)
  BY <1>1, <1>4, MappedIs
<1>6. q # <<>> /\ q[1] = text /\ Tail(q) = Mapped(Alone, Tail(pending))
  BY <1>1, <1>2, <1>3, <1>4, <1>5, MappedFacts
<1>7. PICK rest \in Seq(Bytes) : rest = FlattenSeq(Tail(q)) /\ FlattenSeq(q) = text \o rest
  BY <1>6, FlattenTail
<1>8. inbox \o wire = text \o rest
  BY <1>1, <1>5, <1>7
<1>9. Agrees(inbox, text)
  <2>1. PICK a \in Seq(Bytes), w \in Seq(Bytes) : a = inbox /\ w = wire
    BY <1>1
  <2>2. Joined(a, w, text, rest)
    BY <1>8, <2>1 DEF Joined
  <2>3. Agrees(a, text)
    BY <2>2, TakenOff, SMTT(30)
  <2> QED
    BY <2>1, <2>3
<1>10. Reads(Result, m, text, inbox)
  BY <1>1, <1>2, <1>3, <1>9, TextRead DEF Result
<1> QED
  BY <1>2, <1>3, <1>6, <1>7, <1>8, <1>10

LEMMA AloneMaps == Maps(Alone, Good, Seq(Bytes))
  BY AloneFacts DEF Maps

LEMMA FramedIs == Framed <=> inbox \o wire = FlattenSeq(Mapped(Alone, pending))
  BY DEF Framed, Mapped

LEMMA NoneFlattened == FlattenSeq(Mapped(Alone, <<>>)) = <<>>
<1>1. Mapped(Alone, <<>>) = <<>>
  BY AloneMaps, NothingMapped
<1>2. FlattenSeq(<<>>) = <<>>
  BY DEF FlattenSeq
<1> QED
  BY <1>1, <1>2

LEMMA InitInv == Init => StreamInv
<1> SUFFICES ASSUME Init PROVE StreamInv
  OBVIOUS
<1>1. \A S : <<>> \in Seq(S)
  BY EmptySeq
<1>2. TypeOK
  <2>1. variable.type = "NULL" /\ variable.bytes = <<>>
    BY DEF Init, NoVariable, Variable
  <2>2. "NULL" \in Types /\ "NULL" \notin Integer
    BY TypeFacts
  <2> QED
    BY <1>1, <2>1, <2>2 DEF Init, TypeOK, Integer
<1>3. Framed
  <2>1. FlattenSeq(Mapped(Alone, <<>>)) = <<>>
    BY NoneFlattened
  <2>2. inbox \o wire = <<>>
    <3>1. <<>> \in Seq(Bytes)
      BY <1>1
    <3>2. <<>> \o <<>> = <<>>
      BY <3>1, ConcatEmptySeq
    <3> QED
      BY <3>2 DEF Init
  <2> QED
    BY <2>1, <2>2, FramedIs DEF Init
<1> QED
  BY <1>1, <1>2, <1>3 DEF StreamInv, Init

(* What a call of variable_serialize adds to the connection.               *)
LEMMA SendInv ==
    ASSUME StreamInv, NEW m \in Messages, Send(m)
    PROVE  StreamInv'
<1>1. m \in Good
  BY DEF Send, Good
<1>2. /\ buffer \in Seq(Bytes) /\ wire \in Seq(Bytes) /\ inbox \in Seq(Bytes)
      /\ pending \in Seq(Good) /\ TypeOK
  BY DEF StreamInv, TypeOK
<1>3. PICK text \in Seq(Bytes) : text = Text(m) /\ text = Alone[m]
  BY <1>1, AloneFacts
<1>4. buffer' = text /\ wire' = wire \o text /\ pending' = Append(pending, m)
      /\ UNCHANGED <<inbox, need, variable>>
  BY <1>1, <1>2, <1>3, SerializeText DEF Send
<1>5. wire \o text \in Seq(Bytes)
  BY <1>2, ConcatProperties
<1>6. Append(pending, m) \in Seq(Good)
  BY <1>1, <1>2, AppendProperties
<1>7. Append(pending, m) \in Seq(Messages)
  BY <1>2, AppendProperties DEF TypeOK
<1>8. TypeOK'
  BY <1>2, <1>4, <1>5, <1>7 DEF TypeOK
<1>9. Framed'
  <2>1. PICK q \in Seq(Seq(Bytes)) : q = Mapped(Alone, pending)
    BY <1>2, AloneMaps, MappedIs
  <2>2. Mapped(Alone, Append(pending, m)) = Append(q, text)
    BY <1>1, <1>2, <1>3, <2>1, AloneMaps, MappedFacts
  <2>3. FlattenSeq(Append(q, text)) = FlattenSeq(q) \o text
    BY FlattenAppend
  <2>4. inbox \o wire = FlattenSeq(q)
    BY <2>1, FramedIs DEF StreamInv
  <2>5. inbox \o (wire \o text) = (inbox \o wire) \o text
    BY <1>2, ConcatAssociative, SMTT(30)
  <2>6. inbox' \o wire' = FlattenSeq(Mapped(Alone, pending'))
    BY <1>4, <2>2, <2>3, <2>4, <2>5
  <2> QED
    BY <2>6 DEF Framed, Mapped
<1> QED
  BY <1>4, <1>6, <1>8, <1>9 DEF StreamInv

LEMMA SendFailsInv ==
    ASSUME StreamInv, NEW m \in Messages, SendFails(m)
    PROVE  StreamInv'
<1>1. m \in Good /\ buffer \in Seq(Bytes)
  BY DEF SendFails, Good, StreamInv, TypeOK
<1>2. buffer' \in Seq(Bytes)
  BY <1>1, SerializeText DEF SendFails
<1>3. UNCHANGED <<wire, inbox, need, variable, pending>>
  BY DEF SendFails
<1>4. TypeOK'
  BY <1>2, <1>3 DEF StreamInv, TypeOK
<1>5. Framed'
  BY <1>3 DEF StreamInv, Framed
<1> QED
  BY <1>3, <1>4, <1>5 DEF StreamInv

LEMMA DeliverInv ==
    ASSUME StreamInv, Deliver
    PROVE  StreamInv'
<1>1. /\ wire \in Seq(Bytes) /\ inbox \in Seq(Bytes)
  BY DEF StreamInv, TypeOK
<1>2. PICK n \in 1..Len(wire) : /\ inbox' = inbox \o SubSeq(wire, 1, n)
                                /\ wire' = SubSeq(wire, n + 1, Len(wire))
  BY DEF Deliver
<1>3. UNCHANGED <<buffer, need, variable, pending>>
  BY DEF Deliver
<1>4. inbox' \in Seq(Bytes) /\ wire' \in Seq(Bytes) /\ inbox' \o wire' = inbox \o wire
  <2>1. PICK a \in Seq(Bytes), w \in Seq(Bytes) : a = inbox /\ w = wire
    BY <1>1
  <2>2. PICK k \in 1..Len(w) : k = n
    BY <2>1
  <2>3. /\ After(w, k) \in Seq(Bytes) /\ a \o FirstPart(w, k) \in Seq(Bytes)
        /\ (a \o FirstPart(w, k)) \o After(w, k) = a \o w
    BY Moved, SMTT(30)
  <2> QED
    BY <1>2, <2>1, <2>2, <2>3, Zenon DEF FirstPart, After
<1>5. TypeOK'
  BY <1>3, <1>4 DEF StreamInv, TypeOK
<1>6. Framed'
  BY <1>3, <1>4 DEF StreamInv, Framed
<1> QED
  BY <1>3, <1>5, <1>6 DEF StreamInv

(* Exactly its bytes are taken off.                                        *)
LEMMA ReceiveInv ==
    ASSUME StreamInv, Receive
    PROVE  StreamInv' /\ variable' = Sent(Head(pending))
<1>1. /\ wire \in Seq(Bytes) /\ inbox \in Seq(Bytes) /\ pending \in Seq(Good) /\ pending # <<>>
      /\ pending \in Seq(Messages) /\ buffer \in Seq(Bytes)
  BY DEF StreamInv, TypeOK, Receive
<1>2. PICK m \in Good : m = Head(pending) /\ Reads(Result, m, Text(m), inbox)
  BY <1>1, ResultIs
<1>3. PICK rest \in Seq(Bytes) : /\ rest = FlattenSeq(Mapped(Alone, Tail(pending)))
                                 /\ inbox \o wire = Text(m) \o rest
  BY <1>1, <1>2, ResultIs
<1>4. m \in Messages
  BY DEF Good
<1>5. PICK text \in Seq(Bytes) : text = Text(m)
  BY <1>4, BodyFacts
<1>6. /\ variable' = Result.variable /\ inbox' = SubSeq(inbox, Result.size + 1, Len(inbox))
      /\ Result.ok /\ pending' = Tail(pending) /\ need' = 0 /\ UNCHANGED <<buffer, wire>>
  BY DEF Receive
<1>7. Result.size = Len(text) /\ Len(text) <= Len(inbox) /\ Result.variable = Sent(m)
  BY <1>2, <1>5, <1>6 DEF Reads
<1>8. inbox' \in Seq(Bytes) /\ inbox' \o wire = rest
  <2>1. PICK a \in Seq(Bytes), w \in Seq(Bytes) : a = inbox /\ w = wire
    BY <1>1
  <2>2. a \o w = text \o rest /\ Len(text) <= Len(a)
    BY <1>3, <1>5, <1>7, <2>1
  <2>3. Joined(a, w, text, rest)
    BY <2>2 DEF Joined
  <2>4. After(a, Len(text)) \in Seq(Bytes) /\ After(a, Len(text)) \o w = rest
    BY <2>2, <2>3, TakenOff, SMTT(30)
  <2> QED
    BY <1>6, <1>7, <2>1, <2>4 DEF After
<1>9. Tail(pending) \in Seq(Good) /\ Tail(pending) \in Seq(Messages)
  BY <1>1, HeadTailProperties
<1>10. TypeOK'
  <2>1. /\ Sent(m).type \in Types /\ Sent(m).bytes \in Seq(Bytes)
        /\ Sent(m).type \in Integer => Sent(m).num \in Numbers(Sent(m).type)
    BY <1>4, SentFacts
  <2>2. variable' = Sent(m)
    BY <1>6, <1>7
  <2> QED
    BY <1>1, <1>6, <1>8, <1>9, <2>1, <2>2 DEF TypeOK, Integer
<1>11. Framed'
  BY <1>3, <1>6, <1>8 DEF Framed, Mapped
<1> QED
  BY <1>2, <1>6, <1>7, <1>9, <1>10, <1>11 DEF StreamInv

LEMMA AskForMoreInv ==
    ASSUME StreamInv, AskForMore
    PROVE  StreamInv'
<1>1. pending # <<>> /\ UNCHANGED <<buffer, wire, inbox, variable, pending>>
      /\ need' = IF Result.size > Len(inbox) THEN Result.size ELSE Len(inbox) + 1
  BY DEF AskForMore
<1>2. Result.size \in Nat
  BY <1>1, ResultIs DEF Reads
<1>3. inbox \in Seq(Bytes)
  BY DEF StreamInv, TypeOK
<1>4. Len(inbox) \in Nat
  BY <1>3, LenProperties
<1>5. need' \in Nat
  BY <1>1, <1>2, <1>4
<1>6. TypeOK'
  BY <1>1, <1>5 DEF StreamInv, TypeOK
<1>7. Framed'
  BY <1>1 DEF StreamInv, Framed
<1> QED
  BY <1>1, <1>6, <1>7 DEF StreamInv

LEMMA ConvertInv ==
    ASSUME StreamInv, NEW t \in AsTypes, Convert(t)
    PROVE  StreamInv' /\ Content(variable') = Content(variable)
<1>1. /\ variable.type \in Types /\ variable.bytes \in Seq(Bytes)
      /\ variable.type \in Integer => variable.num \in Numbers(variable.type)
  BY DEF StreamInv, TypeOK, Integer
<1>2. PICK v : v = variable
  OBVIOUS
<1>3. CanGetAs(v, t) /\ Readable(v, t) /\ variable' = Variable(t, v.num, v.bytes)
      /\ UNCHANGED <<buffer, wire, inbox, need, pending>>
  BY <1>2 DEF Convert
<1>4. /\ t \in Types
      /\ t \in Integer => v.num \in Numbers(t)
      /\ variable' = [type |-> t, num |-> v.num, bytes |-> v.bytes]
  BY <1>1, <1>2, <1>3, ConvertFacts
<1>5. TypeOK'
  BY <1>1, <1>2, <1>3, <1>4 DEF StreamInv, TypeOK, Integer
<1>6. Framed'
  BY <1>3 DEF StreamInv, Framed
<1>7. Content(variable') = Content(variable)
  BY <1>2, <1>4 DEF Content
<1> QED
  BY <1>3, <1>5, <1>6, <1>7 DEF StreamInv

LEMMA DisconnectInv ==
    ASSUME StreamInv, Disconnect
    PROVE  StreamInv'
<1>1. wire' = <<>> /\ inbox' = <<>> /\ need' = 0 /\ pending' = <<>> /\ UNCHANGED <<buffer, variable>>
  BY DEF Disconnect
<1>2. \A S : <<>> \in Seq(S)
  BY EmptySeq
<1>3. TypeOK'
  BY <1>1, <1>2 DEF StreamInv, TypeOK
<1>4. FlattenSeq(Mapped(Alone, <<>>)) = <<>>
  BY NoneFlattened
<1>5. <<>> \o <<>> = <<>>
  <2>1. <<>> \in Seq(Bytes)
    BY <1>2
  <2> QED
    BY <2>1, ConcatEmptySeq
<1>6. Framed'
  BY <1>1, <1>4, <1>5 DEF Framed, Mapped
<1> QED
  BY <1>1, <1>2, <1>3, <1>6 DEF StreamInv

LEMMA StreamStep == StreamInv /\ [Next]_vars => StreamInv'
<1> SUFFICES ASSUME StreamInv, [Next]_vars PROVE StreamInv'
  OBVIOUS
<1>1. CASE \E m \in Messages : Send(m)
  BY <1>1, SendInv
<1>2. CASE \E m \in Messages : SendFails(m)
  BY <1>2, SendFailsInv
<1>3. CASE Deliver
  BY <1>3, DeliverInv
<1>4. CASE Receive
  BY <1>4, ReceiveInv
<1>5. CASE AskForMore
  BY <1>5, AskForMoreInv
<1>6. CASE \E t \in AsTypes : Convert(t)
  BY <1>6, ConvertInv
<1>7. CASE Disconnect
  BY <1>7, DisconnectInv
<1>8. CASE UNCHANGED vars
  <2>1. UNCHANGED <<buffer, wire, inbox, need, variable, pending>>
    BY <1>8 DEF vars
  <2>2. TypeOK'
    BY <2>1 DEF StreamInv, TypeOK
  <2>3. Framed'
    BY <2>1 DEF StreamInv, Framed
  <2> QED
    BY <2>1, <2>2, <2>3 DEF StreamInv
<1> QED
  BY <1>1, <1>2, <1>3, <1>4, <1>5, <1>6, <1>7, <1>8 DEF Next

LEMMA StreamInvAlways == Spec => []StreamInv
<1>1. Init => StreamInv
  BY InitInv
<1>2. StreamInv /\ [Next]_vars => StreamInv'
  BY StreamStep
<1> QED
  BY <1>1, <1>2, PTL DEF Spec

(* The receiver's variable has a value of its type, whatever it was sent   *)
(* as and whatever it has been read as.                                    *)
THEOREM StreamTypeCorrect == Spec => []TypeOK
<1>1. StreamInv => TypeOK
  BY DEF StreamInv
<1> QED
  BY <1>1, StreamInvAlways, PTL

(* The bytes between sender and receiver are those of the messages         *)
(* pending, whatever their values, for every width and base: nothing that  *)
(* a Buffer held before is left in it, the size and the order of the bytes *)
(* are those the receiver expects, and a message is taken off whole.       *)
THEOREM FramedAlways == Spec => []Framed
<1>1. StreamInv => Framed
  BY DEF StreamInv
<1> QED
  BY <1>1, StreamInvAlways, PTL
----------------------------------------------------------------------------
(* Both ends see a queue of values.                                        *)

LEMMA MeantFacts ==
    /\ \A m \in Messages : Meant[m] = Content(Sent(m)) /\ Meant[m] \in Range(Meant)
    /\ Maps(Meant, Good, Range(Meant))
<1>1. \A m \in Messages : Meant[m] = Content(Sent(m))
  BY DEF Meant
<1>2. DOMAIN Meant = Messages
  BY DEF Meant
<1>3. \A m \in Messages : Meant[m] \in Range(Meant)
  BY <1>2 DEF Range
<1> QED
  BY <1>1, <1>3 DEF Maps, Good

LEMMA ChannelInit == Init => Channel!Init
<1> SUFFICES ASSUME Init PROVE Channel!Init
  OBVIOUS
<1>1. pending = <<>> /\ variable = NoVariable
  BY DEF Init
<1>2. [k \in DOMAIN pending |-> Meant[pending[k]]] = <<>>
  <2>1. Mapped(Meant, <<>>) = <<>>
    BY MeantFacts, NothingMapped
  <2> QED
    BY <1>1, <2>1 DEF Mapped
<1> QED
  BY <1>1, <1>2 DEF Channel!Init

LEMMA ChannelStep ==
    ASSUME StreamInv, [Next]_vars
    PROVE  [Channel!Next]_(Channel!vars)
<1> DEFINE queue == [k \in DOMAIN pending |-> Meant[pending[k]]]
           last == Content(variable)
<1>1. pending \in Seq(Good) /\ queue = Mapped(Meant, pending) /\ queue' = Mapped(Meant, pending')
  BY DEF StreamInv, Mapped
<1>2. CASE UNCHANGED <<pending, variable>>
  BY <1>2 DEF Channel!vars
<1>3. ASSUME NEW m \in Messages, Send(m) PROVE Channel!Send(Meant[m]) /\ Meant[m] \in Range(Meant)
  <2>1. m \in Good /\ pending' = Append(pending, m) /\ variable' = variable
    BY <1>3 DEF Send, Good
  <2>2. Mapped(Meant, Append(pending, m)) = Append(Mapped(Meant, pending), Meant[m])
    BY <1>1, <2>1, MeantFacts, MappedFacts
  <2>3. queue' = Append(queue, Meant[m])
    BY <1>1, <2>1, <2>2
  <2> QED
    BY <2>1, <2>3, MeantFacts DEF Channel!Send
<1>4. CASE Receive
  <2>1. pending # <<>> /\ pending' = Tail(pending)
    BY <1>4 DEF Receive
  <2>2. PICK m \in Good : m = Head(pending)
    BY <1>1, <2>1, HeadTailProperties
  <2>3. /\ Mapped(Meant, pending) # <<>>
        /\ Mapped(Meant, pending)[1] = Meant[m]
        /\ Mapped(Meant, Tail(pending)) = Tail(Mapped(Meant, pending))
    BY <1>1, <2>1, <2>2, MeantFacts, MappedFacts
  <2>4. queue # <<>> /\ queue[1] = Meant[m] /\ queue' = Tail(queue)
    BY <1>1, <2>1, <2>3
  <2>5. last' = Meant[m]
    BY <1>4, <2>2, ReceiveInv, MeantFacts DEF Good
  <2>6. Head(queue) = queue[1]
    OBVIOUS
  <2>7. Channel!Receive
    BY <2>4, <2>5, <2>6 DEF Channel!Receive
  <2> QED
    BY <2>7 DEF Channel!Next
<1>5. ASSUME NEW t \in AsTypes, Convert(t) PROVE UNCHANGED Channel!vars
  <2>1. pending' = pending
    BY <1>5 DEF Convert
  <2>2. last' = last
    BY <1>5, ConvertInv
  <2> QED
    BY <2>1, <2>2 DEF Channel!vars
<1>6. CASE Disconnect
  <2>1. pending' = <<>> /\ variable' = variable
    BY <1>6 DEF Disconnect
  <2>2. queue' = <<>>
    BY <1>1, <2>1, MeantFacts, NothingMapped
  <2>3. Channel!Lose
    BY <2>1, <2>2 DEF Channel!Lose
  <2> QED
    BY <2>3 DEF Channel!Next
<1>7. CASE \E m \in Messages : Send(m)
  BY <1>3, <1>7 DEF Channel!Next
<1>8. CASE \/ \E m \in Messages : SendFails(m)
           \/ Deliver \/ AskForMore \/ UNCHANGED vars
  <2>1. UNCHANGED <<pending, variable>>
    BY <1>8 DEF SendFails, Deliver, AskForMore, vars
  <2> QED
    BY <1>2, <2>1
<1>9. CASE \E t \in AsTypes : Convert(t)
  BY <1>5, <1>9
<1> QED
  BY <1>4, <1>6, <1>7, <1>8, <1>9 DEF Next

(* A value sent, cut into pieces and read as any type that has room for it *)
(* is the value that was sent, and arrives once and in its turn.           *)
THEOREM ChannelRefined == Spec => IsChannel
<1>1. Init => Channel!Init
  BY ChannelInit
<1>2. StreamInv /\ [Next]_vars => [Channel!Next]_(Channel!vars)
  BY ChannelStep
<1> QED
  BY <1>1, <1>2, StreamInvAlways, PTL DEF Spec, IsChannel, Channel!Spec
----------------------------------------------------------------------------
(* Blocks that own blocks: Kids are those that each has the address of,    *)
(* Used those that are not free, Roots those that no block owns.           *)

(* Whoever follows addresses comes to an end.                              *)
Ends(K) == \A S \in SUBSET Blocks : S # {} => \E b \in S : K[b] \cap S = {}

IsForest(K, Used, Roots) ==
    /\ Used \subseteq Blocks /\ Roots \subseteq Used
    /\ \A a \in Blocks : K[a] \subseteq Used
    /\ \A a \in Blocks : a \notin Used => K[a] = {}
    /\ \A a \in Blocks, c \in Blocks, b \in Used : b \in K[a] /\ b \in K[c] => a = c
    /\ \A a \in Blocks, r \in Roots : r \notin K[a]
    /\ \A u \in Used : u \in Roots \/ \E a \in Blocks : u \in K[a]
    /\ Ends(K)

(* Blocks are allocated: nobody has their addresses yet.                   *)
LEMMA ForestGrows ==
    ASSUME NEW K, NEW Used, NEW Roots, IsForest(K, Used, Roots),
           NEW P \in SUBSET Blocks, P \cap Used = {}
    PROVE  IsForest(K, Used \cup P, Roots \cup P)
BY DEF IsForest

Supplanted(K, L, Used, v, P, X) ==
    /\ v \notin P /\ v \notin X /\ X \subseteq Used /\ K[v] \subseteq X
    /\ \A a \in X : K[a] \subseteq X
    /\ \A x \in X : \E a \in X \cup {v} : x \in K[a]
    /\ \A a \in Blocks : L[a] = IF a \in X THEN {} ELSE IF a = v THEN P ELSE K[a]

(* What a root owns is freed, with all that is beneath, and roots put in   *)
(* its place.                                                              *)
LEMMA ForestReplaced ==
    ASSUME NEW K, NEW Used, NEW Roots, IsForest(K, Used, Roots),
           NEW v \in Roots, NEW P \in SUBSET Roots,
           NEW X, NEW L, Supplanted(K, L, Used, v, P, X)
    PROVE  IsForest(L, Used \ X, Roots \ P)
<1> USE DEF Supplanted
<1>1. /\ Used \subseteq Blocks /\ Roots \subseteq Used
      /\ \A a \in Blocks : K[a] \subseteq Used
      /\ \A a \in Blocks : a \notin Used => K[a] = {}
      /\ \A a \in Blocks, c \in Blocks, b \in Used : b \in K[a] /\ b \in K[c] => a = c
      /\ \A a \in Blocks, r \in Roots : r \notin K[a]
      /\ \A u \in Used : u \in Roots \/ \E a \in Blocks : u \in K[a]
  BY DEF IsForest
<1>2. Ends(K)
  BY DEF IsForest
<1>3. \A x \in X : x \notin Roots
  BY <1>1
<1>4. \A a \in Blocks, x \in X : x \in K[a] => a \in X \cup {v}
  BY <1>1
<1>5. Used \ X \subseteq Blocks /\ Roots \ P \subseteq Used \ X
  BY <1>1, <1>3
<1>6. ASSUME NEW a \in Blocks
      PROVE  L[a] \subseteq Used \ X /\ (a \notin Used \ X => L[a] = {})
  BY <1>1, <1>3, <1>4
<1>7. ASSUME NEW a \in Blocks, NEW c \in Blocks, NEW b \in Used \ X, b \in L[a], b \in L[c]
      PROVE  a = c
  BY <1>1, <1>3, <1>7
<1>8. ASSUME NEW a \in Blocks, NEW r \in Roots \ P
      PROVE  r \notin L[a]
  BY <1>1, <1>8
<1>9. ASSUME NEW u \in Used \ X
      PROVE  u \in Roots \ P \/ \E a \in Blocks : u \in L[a]
  <2>1. CASE u \in P
    BY <1>1, <2>1
  <2>2. CASE u \notin P /\ u \notin Roots
    <3>1. PICK a \in Blocks : u \in K[a]
      BY <1>1, <2>2
    <3>2. a \notin X /\ a # v
      BY <1>9, <3>1
    <3> QED
      BY <3>1, <3>2
  <2> QED
    BY <2>1, <2>2
<1>10. Ends(L)
  <2>1. SUFFICES ASSUME NEW S \in SUBSET Blocks, S # {}
                 PROVE  \E b \in S : L[b] \cap S = {}
    BY DEF Ends
  <2>2. CASE S \ (X \cup {v}) # {}
    <3>1. PICK b \in S \ (X \cup {v}) : K[b] \cap (S \ (X \cup {v})) = {}
      BY <1>2, <2>2 DEF Ends
    <3>2. ASSUME NEW c \in K[b] \cap S
          PROVE  FALSE
      BY <1>1, <1>4, <3>1, <3>2
    <3> QED
      BY <3>1, <3>2
  <2>3. CASE S \ (X \cup {v}) = {}
    BY <2>1, <2>3
  <2> QED
    BY <2>2, <2>3
<1> QED
  BY <1>5, <1>6, <1>7, <1>8, <1>9, <1>10 DEF IsForest

Pruned(K, L, Used, n, b, X) ==
    /\ n \in Used /\ n \notin X /\ X \subseteq Used /\ b \in X /\ b \in K[n]
    /\ \A a \in X : K[a] \subseteq X
    /\ \A x \in X : x = b \/ \E a \in X : x \in K[a]
    /\ \A a \in Blocks :
           L[a] = IF a \in X THEN {} ELSE IF a = n THEN K[n] \ {b} ELSE K[a]

(* A block is taken from its owner, and freed with all that is beneath.    *)
LEMMA ForestRemoved ==
    ASSUME NEW K, NEW Used, NEW Roots, IsForest(K, Used, Roots),
           NEW n, NEW b, NEW X, NEW L, Pruned(K, L, Used, n, b, X)
    PROVE  IsForest(L, Used \ X, Roots)
<1> USE DEF Pruned
<1>1. /\ Used \subseteq Blocks /\ Roots \subseteq Used
      /\ \A a \in Blocks : K[a] \subseteq Used
      /\ \A a \in Blocks : a \notin Used => K[a] = {}
      /\ \A a \in Blocks, c \in Blocks, d \in Used : d \in K[a] /\ d \in K[c] => a = c
      /\ \A a \in Blocks, r \in Roots : r \notin K[a]
      /\ \A u \in Used : u \in Roots \/ \E a \in Blocks : u \in K[a]
  BY DEF IsForest
<1>2. \A x \in X : x \notin Roots
  BY <1>1
<1>3. \A a \in Blocks, x \in X : x \in K[a] => a \in X \/ (a = n /\ x = b)
  BY <1>1
<1>4. Used \ X \subseteq Blocks /\ Roots \subseteq Used \ X
  BY <1>1, <1>2
<1>5. ASSUME NEW a \in Blocks
      PROVE  L[a] \subseteq Used \ X /\ (a \notin Used \ X => L[a] = {}) /\ L[a] \subseteq K[a]
  BY <1>1, <1>3
<1>6. ASSUME NEW a \in Blocks, NEW c \in Blocks, NEW d \in Used \ X, d \in L[a], d \in L[c]
      PROVE  a = c
  BY <1>1, <1>5, <1>6
<1>7. ASSUME NEW a \in Blocks, NEW r \in Roots
      PROVE  r \notin L[a]
  BY <1>1, <1>5
<1>8. ASSUME NEW u \in Used \ X
      PROVE  u \in Roots \/ \E a \in Blocks : u \in L[a]
  <2>1. CASE u \notin Roots
    <3>1. PICK a \in Blocks : u \in K[a]
      BY <1>1, <2>1
    <3>2. a \notin X /\ u # b
      BY <1>8, <3>1
    <3> QED
      BY <3>1, <3>2
  <2> QED
    BY <2>1
<1>9. Ends(L)
  <2>1. SUFFICES ASSUME NEW S \in SUBSET Blocks, S # {}
                 PROVE  \E d \in S : L[d] \cap S = {}
    BY DEF Ends
  <2>2. PICK d \in S : K[d] \cap S = {}
    BY <2>1 DEF IsForest, Ends
  <2> QED
    BY <1>5, <2>2
<1> QED
  BY <1>4, <1>5, <1>6, <1>7, <1>8, <1>9 DEF IsForest

(* Some roots are freed, with all that is beneath.                         *)
LEMMA ForestDeleted ==
    ASSUME NEW K, NEW Used, NEW Roots, IsForest(K, Used, Roots),
           NEW T \in SUBSET Roots, NEW X \in SUBSET Used, T \subseteq X,
           \A a \in X : K[a] \subseteq X,
           \A x \in X : x \in T \/ \E a \in X : x \in K[a],
           NEW L, \A a \in Blocks : L[a] = IF a \in X THEN {} ELSE K[a]
    PROVE  IsForest(L, Used \ X, Roots \ T)
<1>1. /\ Used \subseteq Blocks /\ Roots \subseteq Used
      /\ \A a \in Blocks : K[a] \subseteq Used
      /\ \A a \in Blocks : a \notin Used => K[a] = {}
      /\ \A a \in Blocks, c \in Blocks, d \in Used : d \in K[a] /\ d \in K[c] => a = c
      /\ \A a \in Blocks, r \in Roots : r \notin K[a]
      /\ \A u \in Used : u \in Roots \/ \E a \in Blocks : u \in K[a]
  BY DEF IsForest
<1>2. \A x \in X : x \in Roots => x \in T
  BY <1>1
<1>3. \A a \in Blocks, x \in X : x \in K[a] => a \in X
  BY <1>1
<1>4. Used \ X \subseteq Blocks /\ Roots \ T \subseteq Used \ X
  BY <1>1, <1>2
<1>5. ASSUME NEW a \in Blocks
      PROVE  L[a] \subseteq Used \ X /\ (a \notin Used \ X => L[a] = {}) /\ L[a] \subseteq K[a]
  BY <1>1, <1>3
<1>6. ASSUME NEW a \in Blocks, NEW c \in Blocks, NEW d \in Used \ X, d \in L[a], d \in L[c]
      PROVE  a = c
  BY <1>1, <1>5, <1>6
<1>7. ASSUME NEW a \in Blocks, NEW r \in Roots \ T
      PROVE  r \notin L[a]
  BY <1>1, <1>5
<1>8. ASSUME NEW u \in Used \ X
      PROVE  u \in Roots \ T \/ \E a \in Blocks : u \in L[a]
  <2>1. CASE u \notin Roots
    <3>1. PICK a \in Blocks : u \in K[a]
      BY <1>1, <2>1
    <3>2. a \notin X
      BY <1>8, <3>1
    <3> QED
      BY <3>1, <3>2
  <2> QED
    BY <2>1
<1>9. Ends(L)
  <2>1. SUFFICES ASSUME NEW S \in SUBSET Blocks, S # {}
                 PROVE  \E d \in S : L[d] \cap S = {}
    BY DEF Ends
  <2>2. PICK d \in S : K[d] \cap S = {}
    BY <2>1 DEF IsForest, Ends
  <2> QED
    BY <1>5, <2>2
<1> QED
  BY <1>4, <1>5, <1>6, <1>7, <1>8, <1>9 DEF IsForest

(* A root is given to a block that is beneath another root.                *)
LEMMA ForestGiven ==
    ASSUME NEW K, NEW Used, NEW Roots, IsForest(K, Used, Roots),
           NEW n \in Used, NEW r \in Roots,
           NEW Z, n \in Z, r \notin Z, \A a \in Blocks : K[a] \cap Z # {} => a \in Z,
           NEW L, \A a \in Blocks : L[a] = IF a = n THEN K[n] \cup {r} ELSE K[a]
    PROVE  IsForest(L, Used, Roots \ {r})
<1>1. /\ Used \subseteq Blocks /\ Roots \subseteq Used
      /\ \A a \in Blocks : K[a] \subseteq Used
      /\ \A a \in Blocks : a \notin Used => K[a] = {}
      /\ \A a \in Blocks, c \in Blocks, d \in Used : d \in K[a] /\ d \in K[c] => a = c
      /\ \A a \in Blocks, d \in Roots : d \notin K[a]
      /\ \A u \in Used : u \in Roots \/ \E a \in Blocks : u \in K[a]
  BY DEF IsForest
<1>2. ASSUME NEW a \in Blocks
      PROVE  L[a] \subseteq Used /\ (a \notin Used => L[a] = {})
  BY <1>1
<1>3. ASSUME NEW a \in Blocks, NEW c \in Blocks, NEW d \in Used, d \in L[a], d \in L[c]
      PROVE  a = c
  BY <1>1, <1>3
<1>4. ASSUME NEW a \in Blocks, NEW d \in Roots \ {r}
      PROVE  d \notin L[a]
  BY <1>1
<1>5. ASSUME NEW u \in Used
      PROVE  u \in Roots \ {r} \/ \E a \in Blocks : u \in L[a]
  <2>1. CASE u = r
    BY <1>1, <2>1
  <2>2. CASE u # r /\ u \notin Roots
    <3>1. PICK a \in Blocks : u \in K[a]
      BY <1>1, <2>2
    <3> QED
      BY <3>1
  <2> QED
    BY <2>1, <2>2
<1>6. Ends(L)
  <2>1. SUFFICES ASSUME NEW S \in SUBSET Blocks, S # {}
                 PROVE  \E d \in S : L[d] \cap S = {}
    BY DEF Ends
  <2>2. CASE r \in S
    <3>1. PICK d \in S \ Z : K[d] \cap (S \ Z) = {}
      BY <2>2 DEF IsForest, Ends
    <3>2. K[d] \cap Z = {} /\ d # n
      BY <3>1
    <3> QED
      BY <3>1, <3>2
  <2>3. CASE r \notin S
    <3>1. PICK d \in S : K[d] \cap S = {}
      BY <2>1 DEF IsForest, Ends
    <3> QED
      BY <2>3, <3>1
  <2> QED
    BY <2>2, <2>3
<1> QED
  BY <1>1, <1>2, <1>3, <1>4, <1>5, <1>6 DEF IsForest
----------------------------------------------------------------------------
(* What is freed with a block: all that can be come to from it.            *)

IsBeneath(h, f) == f = [b \in Blocks |-> UNION {{c} \cup f[c] : c \in Children(h, b)}]

LEMMA BeneathIs ==
    ASSUME NEW h
    PROVE  Beneath(h) = CHOOSE f : IsBeneath(h, f)
BY DEF Beneath, IsBeneath

Kids(h) == [b \in Blocks |-> Children(h, b)]

(* Such a function exists, whatever the blocks hold: that of what is in    *)
(* every set of blocks that has the kids, and the kids of its own.         *)
Closed(K, S) == \A a \in S : K[a] \subseteq S
Reach(K, b) == {x \in Blocks : \A S \in SUBSET Blocks : K[b] \subseteq S /\ Closed(K, S) => x \in S}

LEMMA ReachFacts ==
    ASSUME NEW K, \A a \in Blocks : K[a] \subseteq Blocks, NEW b \in Blocks
    PROVE  Reach(K, b) = UNION {{c} \cup Reach(K, c) : c \in K[b]}
<1> DEFINE T == UNION {{c} \cup Reach(K, c) : c \in K[b]}
<1>1. ASSUME NEW a \in Blocks
      PROVE  K[a] \subseteq Reach(K, a)
  BY DEF Reach
<1>2. ASSUME NEW a \in Blocks, NEW x \in Reach(K, a)
      PROVE  K[x] \subseteq Reach(K, a)
  BY DEF Reach, Closed
<1>3. T \in SUBSET Blocks
  BY DEF Reach
<1>4. K[b] \subseteq T
  OBVIOUS
<1>5. Closed(K, T)
  <2>1. SUFFICES ASSUME NEW x \in T
                 PROVE  K[x] \subseteq T
    BY DEF Closed
  <2>2. PICK c \in K[b] : x \in {c} \cup Reach(K, c)
    OBVIOUS
  <2>3. c \in Blocks /\ K[x] \subseteq Reach(K, c)
    BY <1>1, <1>2, <2>2
  <2> QED
    BY <2>3
<1>6. ASSUME NEW c \in K[b]
      PROVE  {c} \cup Reach(K, c) \subseteq Reach(K, b)
  <2>1. c \in Reach(K, b)
    BY <1>1
  <2>2. ASSUME NEW x \in Reach(K, c)
        PROVE  x \in Reach(K, b)
    <3>1. SUFFICES ASSUME NEW S \in SUBSET Blocks, K[b] \subseteq S, Closed(K, S)
                   PROVE  x \in S
      BY DEF Reach
    <3>2. K[c] \subseteq S
      BY <3>1 DEF Closed
    <3> QED
      BY <3>1, <3>2 DEF Reach
  <2> QED
    BY <2>1, <2>2
<1>7. Reach(K, b) \subseteq T
  BY <1>3, <1>4, <1>5 DEF Reach
<1>8. T \subseteq Reach(K, b)
  BY <1>6
<1> QED
  BY <1>7, <1>8

LEMMA BeneathEquation ==
    ASSUME NEW h, \A a \in Blocks : Children(h, a) \subseteq Blocks
    PROVE  \E f : /\ f = Beneath(h)
                  /\ \A b \in Blocks : f[b] = UNION {{c} \cup f[c] : c \in Children(h, b)}
<1>1. PICK K : K = Kids(h)
  OBVIOUS
<1>2. \A a \in Blocks : K[a] = Children(h, a) /\ K[a] \subseteq Blocks
  BY <1>1 DEF Kids
<1>3. PICK g : g = [b \in Blocks |-> Reach(K, b)]
  OBVIOUS
<1>4. IsBeneath(h, g)
  <2>1. ASSUME NEW b \in Blocks
        PROVE  g[b] = UNION {{c} \cup g[c] : c \in Children(h, b)}
    <3>1. \A c \in K[b] : g[c] = Reach(K, c)
      BY <1>2, <1>3
    <3>2. g[b] = UNION {{c} \cup Reach(K, c) : c \in K[b]}
      BY <1>2, <1>3, ReachFacts
    <3> QED
      BY <1>2, <3>1, <3>2
  <2>2. g = [b \in Blocks |-> g[b]]
    BY <1>3
  <2> QED
    BY <2>1, <2>2 DEF IsBeneath
<1>5. PICK f : f = Beneath(h)
  OBVIOUS
<1>6. f = [b \in Blocks |-> UNION {{c} \cup f[c] : c \in Children(h, b)}]
  <2>1. IsBeneath(h, f)
    BY <1>4, <1>5, BeneathIs, Zenon
  <2> QED
    BY <2>1, Zenon DEF IsBeneath
<1>7. ASSUME NEW b \in Blocks
      PROVE  f[b] = UNION {{c} \cup f[c] : c \in Children(h, b)}
  BY <1>6, Zenon
<1> QED
  BY <1>5, <1>7

(* In a forest, it is closed, and all of it is owned within.               *)
LEMMA BeneathFacts ==
    ASSUME NEW h, NEW Used, NEW Roots, IsForest(Kids(h), Used, Roots), NEW v \in Blocks
    PROVE  \E B \in SUBSET Used :
               /\ B = Beneath(h)[v]
               /\ Children(h, v) \subseteq B /\ \A a \in B : Children(h, a) \subseteq B
               /\ \A x \in B : \E a \in B \cup {v} : x \in Children(h, a)
               /\ v \notin B
               /\ \A x \in B : x \notin Roots
<1>1. PICK K : K = Kids(h)
  OBVIOUS
<1>2. /\ \A a \in Blocks : K[a] = Children(h, a) /\ K[a] \subseteq Used
      /\ Used \subseteq Blocks /\ Roots \subseteq Used /\ Ends(K)
      /\ \A a \in Blocks, r \in Roots : r \notin K[a]
  BY <1>1 DEF Kids, IsForest
<1>3. PICK f : /\ f = Beneath(h)
               /\ \A b \in Blocks : f[b] = UNION {{c} \cup f[c] : c \in Children(h, b)}
  BY <1>2, BeneathEquation
<1>4. \A b \in Blocks : f[b] = UNION {{c} \cup f[c] : c \in K[b]}
  BY <1>2, <1>3
<1>5. \A b \in Blocks : f[b] \subseteq Used
  <2> DEFINE S == {b \in Blocks : ~(f[b] \subseteq Used)}
  <2>1. SUFFICES ASSUME S # {}
                 PROVE  FALSE
    OBVIOUS
  <2>2. PICK b \in S : K[b] \cap S = {}
    BY <1>2, <2>1 DEF Ends
  <2>3. \A c \in K[b] : {c} \cup f[c] \subseteq Used
    BY <1>2, <2>2
  <2> QED
    BY <1>4, <2>2, <2>3
<1>6. \A b \in Blocks : \A x \in f[b] : f[x] \subseteq f[b]
  <2> DEFINE S == {b \in Blocks : \E x \in f[b] : ~(f[x] \subseteq f[b])}
  <2>1. SUFFICES ASSUME S # {}
                 PROVE  FALSE
    OBVIOUS
  <2>2. PICK b \in S : K[b] \cap S = {}
    BY <1>2, <2>1 DEF Ends
  <2>3. PICK x \in f[b] : ~(f[x] \subseteq f[b])
    BY <2>2
  <2>4. PICK c \in K[b] : x \in {c} \cup f[c]
    BY <1>4, <2>2, <2>3
  <2>5. c \in Blocks /\ f[c] \subseteq f[b]
    BY <1>2, <1>4, <2>2, <2>4
  <2>6. f[x] \subseteq f[c]
    BY <2>2, <2>4, <2>5
  <2> QED
    BY <2>3, <2>5, <2>6
<1>7. \A b \in Blocks : K[b] \subseteq f[b]
  BY <1>4
<1>8. \A b \in Blocks : b \notin f[b]
  <2> DEFINE S == {b \in Blocks : b \in f[b]}
  <2>1. SUFFICES ASSUME S # {}
                 PROVE  FALSE
    OBVIOUS
  <2>2. PICK b \in S : K[b] \cap S = {}
    BY <1>2, <2>1 DEF Ends
  <2>3. PICK c \in K[b] : b \in {c} \cup f[c]
    BY <1>4, <2>2
  <2>4. c \in Blocks /\ c \in f[b]
    BY <1>2, <1>7, <2>2, <2>3
  <2>5. c \in f[c]
    BY <1>6, <2>3, <2>4
  <2> QED
    BY <2>2, <2>3, <2>4, <2>5
<1>9. \A b \in Blocks : \A x \in f[b] : \E a \in f[b] \cup {b} : x \in K[a]
  <2> DEFINE S == {b \in Blocks : ~(\A x \in f[b] : \E a \in f[b] \cup {b} : x \in K[a])}
  <2>1. SUFFICES ASSUME S # {}
                 PROVE  FALSE
    OBVIOUS
  <2>2. PICK b \in S : K[b] \cap S = {}
    BY <1>2, <2>1 DEF Ends
  <2>3. PICK x \in f[b] : \A a \in f[b] \cup {b} : x \notin K[a]
    BY <2>2
  <2>4. PICK c \in K[b] : x \in {c} \cup f[c]
    BY <1>4, <2>2, <2>3
  <2>5. x # c /\ c \in Blocks /\ c \in f[b] /\ f[c] \subseteq f[b]
    BY <1>2, <1>6, <1>7, <2>2, <2>3, <2>4
  <2>6. \E a \in f[c] \cup {c} : x \in K[a]
    BY <2>2, <2>4, <2>5
  <2> QED
    BY <2>3, <2>5, <2>6
<1> DEFINE B == f[v]
<1>10. B \in SUBSET Used /\ B \subseteq Blocks
  BY <1>2, <1>5
<1>11. Children(h, v) \subseteq B /\ \A a \in B : Children(h, a) \subseteq B
  BY <1>2, <1>6, <1>7, <1>10
<1>12. \A x \in B : \E a \in B \cup {v} : x \in Children(h, a)
  BY <1>2, <1>9, <1>10
<1>13. \A x \in B : x \notin Roots
  BY <1>2, <1>10, <1>12
<1>14. B = Beneath(h)[v] /\ v \notin B
  BY <1>3, <1>8
<1> QED
  BY <1>10, <1>11, <1>12, <1>13, <1>14

(* What is not among those that a set of blocks has for owners and roots   *)
(* has nothing of it beneath.                                              *)
LEMMA BeneathApart ==
    ASSUME NEW h, NEW Used, NEW Roots, IsForest(Kids(h), Used, Roots), NEW v \in Blocks,
           NEW O, v \notin O, \A a \in Blocks : \A b \in Children(h, a) : b \in O => a \in O
    PROVE  Beneath(h)[v] \cap O = {}
<1>1. PICK K : K = Kids(h)
  OBVIOUS
<1>2. /\ \A a \in Blocks : K[a] = Children(h, a) /\ K[a] \subseteq Blocks
      /\ Ends(K)
  BY <1>1 DEF Kids, IsForest
<1>3. PICK f : /\ f = Beneath(h)
               /\ \A b \in Blocks : f[b] = UNION {{c} \cup f[c] : c \in Children(h, b)}
  BY <1>2, BeneathEquation
<1> DEFINE S == {b \in Blocks : b \notin O /\ f[b] \cap O # {}}
<1>4. SUFFICES ASSUME S # {}
               PROVE  FALSE
  BY <1>3
<1>5. PICK b \in S : K[b] \cap S = {}
  BY <1>2, <1>4 DEF Ends
<1>6. PICK x \in f[b] : x \in O
  BY <1>5
<1>7. PICK c \in K[b] : x \in {c} \cup f[c]
  BY <1>2, <1>3, <1>5, <1>6
<1>8. c \in Blocks /\ c \notin O
  BY <1>2, <1>5, <1>7
<1> QED
  BY <1>5, <1>6, <1>7, <1>8
----------------------------------------------------------------------------
(* What the blocks hold, and what the functions under way have.            *)

Texts == Contents \cup Names
StringCells == [block : {"string"}, text : Texts]
Fields == [key : Keys, value : Blocks]
MutatorCells == [block : {"mutator"}, entries : Seq(Fields)]
VariableCells == [block : {"variable"}, type : {"INT", "STRING", "COMPOUND"},
                  content : Contents \cup {NULL}, string : Blocks \cup {NULL},
                  members : Blocks \cup {NULL}]
Cells == {Unused} \cup StringCells \cup MutatorCells \cup VariableCells

Linked(h, b) ==
    /\ h[b].block = "variable" =>
           /\ h[b].string # NULL => h[h[b].string].block = "string"
           /\ h[b].members # NULL => h[h[b].members].block = "mutator"
           /\ h[b].type = "INT" => h[b].content \in Contents
           /\ h[b].type = "STRING" => h[b].string # NULL
           /\ h[b].type = "COMPOUND" => h[b].members # NULL
    /\ h[b].block = "mutator" =>
           /\ \A i \in DOMAIN h[b].entries : h[h[b].entries[i].value].block = "variable"
           /\ \A i, j \in DOMAIN h[b].entries :
                  (\/ h[b].entries[i].key = h[b].entries[j].key
                   \/ h[b].entries[i].value = h[b].entries[j].value) => i = j
HeapTyped(h) == h \in [Blocks -> Cells] /\ \A b \in Blocks : Linked(h, b)

Given == [key : Keys \cup {NULL}, value : Scalars]
Copied == [key : Keys \cup {NULL}, from : Blocks]
Frames == [kind : {"compound", "variables", "copy", "into"}, slot : Slots \cup {NULL},
           v : Blocks, n : Blocks, name : Blocks \cup {NULL},
           todo : Seq(Given) \cup Seq(Copied), made : Blocks \cup {NULL}]

(* Of the functions under way the last one only has a member to set; those *)
(* before have taken out what their member would replace.                  *)
FrameIs(h, sl, frame, i, last) ==
    /\ h[frame.n].block = "mutator"
    /\ h[frame.v].block = "variable"
    /\ frame.kind # "into" => h[frame.v].members = frame.n
    /\ frame.kind = "into" => /\ i = 1 /\ sl[frame.slot] = frame.v
                              /\ h[frame.v].type = "COMPOUND"
                              /\ frame.name # NULL => h[frame.name].block = "string"
    /\ i = 1 => frame.slot \in Slots /\ (frame.kind # "into" => sl[frame.slot] = NULL)
    /\ ~last => frame.made = NULL
    /\ frame.made # NULL => h[frame.made].block = "variable"
    /\ ~last \/ frame.made # NULL =>
           /\ frame.todo # <<>> /\ Head(frame.todo).key # NULL
           /\ ~Has(h, frame.n, Head(frame.todo).key)
    /\ IF frame.kind = "compound" THEN frame.todo \in Seq(Given)
       ELSE frame.todo \in Seq(Copied)

StackRight ==
    /\ stack \in Seq(Frames)
    /\ failing \in BOOLEAN
    /\ failing => stack # <<>> /\ Top.made = NULL
    /\ \A i \in DOMAIN stack : FrameIs(heap, slots, stack[i], i, i = Len(stack))

PointersRight ==
    /\ slots \in [Slots -> Blocks \cup {NULL}]
    /\ \A s \in Slots : slots[s] # NULL => heap[slots[s]].block = "variable"
    /\ lost \subseteq Blocks
    /\ \A l \in lost : heap[l].block = "variable"

(* What is copied is beneath the variables of the program.                 *)
IsKept(O) ==
    /\ \A a \in O : Children(heap, a) \subseteq O
    /\ \A x \in O : \/ \E s \in Slots : slots[s] = x
                    \/ \E a \in O : x \in Children(heap, a)
    /\ \A i \in DOMAIN stack : stack[i].kind # "compound" =>
           \A j \in DOMAIN stack[i].todo :
               stack[i].todo[j].from \in O /\ heap[stack[i].todo[j].from].block = "variable"
SourcesKept == stack # <<>> => \E O \in SUBSET Blocks : IsKept(O)

UsedBlocks(h) == {b \in Blocks : h[b] # Unused}
Held == {b \in Blocks : Holders(b) # {}}
OneHolder == \A b \in Blocks : \A o \in Holders(b), p \in Holders(b) : o = p

MemoryInv ==
    /\ HeapTyped(heap) /\ StackRight /\ PointersRight /\ SourcesKept /\ OneHolder
    /\ IsForest(Kids(heap), UsedBlocks(heap), Held)
----------------------------------------------------------------------------
(* Cells.                                                                  *)

LEMMA NullFacts == NULL \notin Blocks /\ NULL \notin Keys /\ Blocks \subseteq Nat
BY MemoryAssumption DEF Blocks

LEMMA CellFacts ==
    ASSUME NEW h, HeapTyped(h), NEW b \in Blocks
    PROVE  /\ h[b].block \in {"none", "string", "mutator", "variable"}
           /\ h[b] = Unused <=> h[b].block = "none"
           /\ h[b].block = "string" => h[b].text \in Texts
           /\ h[b].block = "mutator" => h[b].entries \in Seq(Fields)
           /\ h[b].block = "variable" =>
                  /\ h[b].type \in {"INT", "STRING", "COMPOUND"}
                  /\ h[b].string \in Blocks \cup {NULL} /\ h[b].members \in Blocks \cup {NULL}
           /\ Linked(h, b)
<1>1. h[b] \in Cells /\ Linked(h, b)
  BY DEF HeapTyped
<1>2. h[b] \in {Unused} \cup StringCells \cup MutatorCells \cup VariableCells
  BY <1>1 DEF Cells
<1>3. CASE h[b] = Unused
  BY <1>1, <1>3 DEF Unused
<1>4. CASE h[b] \in StringCells
  BY <1>1, <1>4 DEF StringCells, Unused
<1>5. CASE h[b] \in MutatorCells
  BY <1>1, <1>5 DEF MutatorCells, Unused
<1>6. CASE h[b] \in VariableCells
  BY <1>1, <1>6 DEF VariableCells, Unused
<1> QED
  BY <1>2, <1>3, <1>4, <1>5, <1>6

LEMMA CellIs ==
    ASSUME NEW h, HeapTyped(h), NEW b \in Blocks
    PROVE  /\ h[b].block = "string" => h[b] \in StringCells
           /\ h[b].block = "mutator" => h[b] \in MutatorCells
           /\ h[b].block = "variable" => h[b] \in VariableCells
<1>1. h[b] \in {Unused} \cup StringCells \cup MutatorCells \cup VariableCells
  BY DEF HeapTyped, Cells
<1>2. CASE h[b] = Unused
  BY <1>2 DEF Unused
<1>3. CASE h[b] \in StringCells
  BY <1>3 DEF StringCells
<1>4. CASE h[b] \in MutatorCells
  BY <1>4 DEF MutatorCells
<1>5. CASE h[b] \in VariableCells
  BY <1>5 DEF VariableCells
<1> QED
  BY <1>1, <1>2, <1>3, <1>4, <1>5

(* The blocks that one has the address of.                                 *)
LEMMA ChildIs ==
    ASSUME NEW h, NEW a
    PROVE  /\ h[a].block = "variable" => Children(h, a) = {h[a].string, h[a].members} \ {NULL}
           /\ h[a].block = "mutator" =>
                  Children(h, a) = {h[a].entries[i].value : i \in DOMAIN h[a].entries}
           /\ h[a].block \notin {"variable", "mutator"} => Children(h, a) = {}
<1>1. CASE h[a].block = "mutator"
  <2>1. Children(h, a) = {e.value : e \in ToSet(h[a].entries)}
    BY <1>1 DEF Children
  <2>2. ToSet(h[a].entries) = {h[a].entries[i] : i \in DOMAIN h[a].entries}
    BY DEF ToSet
  <2> QED
    BY <1>1, <2>1, <2>2
<1>2. CASE h[a].block # "mutator"
  BY <1>2 DEF Children
<1> QED
  BY <1>1, <1>2

LEMMA ChildrenSame ==
    ASSUME NEW h, NEW g, NEW a, g[a] = h[a]
    PROVE  Children(g, a) = Children(h, a)
BY DEF Children

LEMMA LinkedKept ==
    ASSUME NEW h, HeapTyped(h), NEW g, NEW a \in Blocks, g[a] = h[a],
           \A c \in Children(h, a) : g[c].block = h[c].block
    PROVE  Linked(g, a)
<1>1. Linked(h, a)
  BY DEF HeapTyped
<1>2. CASE h[a].block = "variable"
  <2>1. Children(h, a) = {h[a].string, h[a].members} \ {NULL}
    BY <1>2, ChildIs
  <2> QED
    BY <1>1, <1>2, <2>1 DEF Linked
<1>3. CASE h[a].block = "mutator"
  <2>1. Children(h, a) = {h[a].entries[i].value : i \in DOMAIN h[a].entries}
    BY <1>3, ChildIs
  <2> QED
    BY <1>1, <1>3, <2>1 DEF Linked
<1> QED
  BY <1>2, <1>3 DEF Linked

----------------------------------------------------------------------------
(* Allocation.                                                             *)

LEMMA LowestIs ==
    ASSUME NEW S \in SUBSET Nat, S # {}
    PROVE  Min(S) \in S
<1>1. \E x \in S : \A y \in S : x <= y
  BY Smallest
<1> QED
  BY <1>1, Zenon DEF Min

LEMMA RoomFacts ==
    /\ IsFiniteSet(Free) /\ Cardinality(Free) \in Nat
    /\ Cardinality(Free) >= 1 => NewVariable \in Free
    /\ Cardinality(Free) >= 2 => NewPart \in Free /\ NewPart # NewVariable
    /\ Cardinality(Free) >= 3 =>
           NewName \in Free /\ NewName # NewVariable /\ NewName # NewPart
<1>1. Free \subseteq Blocks /\ Blocks \subseteq Nat
  BY NullFacts DEF Free
<1>2. IsFiniteSet(Blocks)
  BY MemoryAssumption, FS_Interval DEF Blocks
<1>3. IsFiniteSet(Free) /\ Cardinality(Free) \in Nat
  BY <1>1, <1>2, FS_Subset, FS_CardinalityType
<1>4. ASSUME Cardinality(Free) >= 1
      PROVE  NewVariable \in Free
  <2>1. Free # {}
    BY <1>3, <1>4, FS_EmptySet
  <2> QED
    BY <1>1, <2>1, LowestIs DEF NewVariable
<1>5. ASSUME Cardinality(Free) >= 2
      PROVE  /\ NewPart \in Free /\ NewPart # NewVariable
             /\ IsFiniteSet(Free \ {NewVariable})
             /\ Cardinality(Free \ {NewVariable}) = Cardinality(Free) - 1
  <2>1. NewVariable \in Free
    BY <1>3, <1>4, <1>5
  <2>2. /\ IsFiniteSet(Free \ {NewVariable})
        /\ Cardinality(Free \ {NewVariable}) = Cardinality(Free) - 1
    BY <1>3, <2>1, FS_RemoveElement
  <2>3. Free \ {NewVariable} # {}
    BY <1>3, <1>5, <2>2, FS_EmptySet
  <2>4. NewPart \in Free \ {NewVariable}
    BY <1>1, <2>3, LowestIs DEF NewPart
  <2> QED
    BY <2>2, <2>4
<1>6. ASSUME Cardinality(Free) >= 3
      PROVE  NewName \in Free /\ NewName # NewVariable /\ NewName # NewPart
  <2>1. /\ NewPart \in Free \ {NewVariable} /\ IsFiniteSet(Free \ {NewVariable})
        /\ Cardinality(Free \ {NewVariable}) = Cardinality(Free) - 1
    BY <1>3, <1>5, <1>6
  <2>2. Cardinality((Free \ {NewVariable}) \ {NewPart}) = Cardinality(Free \ {NewVariable}) - 1
    BY <2>1, FS_RemoveElement
  <2>3. (Free \ {NewVariable}) \ {NewPart} = Free \ {NewVariable, NewPart}
    OBVIOUS
  <2>4. Cardinality(Free \ {NewVariable, NewPart}) = Cardinality(Free) - 2
    BY <1>3, <2>1, <2>2, <2>3
  <2>5. Free \ {NewVariable, NewPart} # {}
    BY <1>3, <1>6, <2>4, FS_EmptySet
  <2>6. NewName \in Free \ {NewVariable, NewPart}
    BY <1>1, <2>5, LowestIs DEF NewName
  <2> QED
    BY <2>6
<1> QED
  BY <1>3, <1>4, <1>5, <1>6

ValueRight(value) ==
    /\ value.type \in {"INT", "STRING", "COMPOUND"}
    /\ value.type = "INT" => value.x \in Contents
    /\ value.type = "STRING" => value.x \in Texts
    /\ value.type = "COMPOUND" => value.x \in Texts \cup {NULL}

(* The new blocks are a variable and its parts, P.                         *)
IsAllocated(h, P, value) ==
    /\ h \in [Blocks -> Cells]
    /\ NewVariable \in Blocks \ P /\ heap[NewVariable] = Unused
    /\ P \subseteq Blocks /\ \A p \in P : heap[p] = Unused
    /\ \A b \in Blocks : b \notin P /\ b # NewVariable => h[b] = heap[b]
    /\ h[NewVariable].block = "variable" /\ h[NewVariable].type = value.type
    /\ P = {h[NewVariable].string, h[NewVariable].members} \ {NULL}
    /\ Linked(h, NewVariable)
    /\ \A p \in P : h[p].block = "string" \/ h[p] = MutatorOf(<<>>)
    /\ value.type = "COMPOUND" =>
           /\ h[NewVariable].members = NewPart /\ NewPart \in P /\ h[NewPart] = MutatorOf(<<>>)
           /\ h[NewVariable].string = NULL \/ h[h[NewVariable].string].block = "string"

LEMMA CellsMade ==
    /\ \A x \in Contents : VariableOf("INT", x, NULL, NULL) \in Cells
    /\ \A p \in Blocks : VariableOf("STRING", NULL, p, NULL) \in Cells
    /\ \A q \in Blocks \cup {NULL}, p \in Blocks : VariableOf("COMPOUND", NULL, q, p) \in Cells
    /\ MutatorOf(<<>>) \in Cells
    /\ \A x \in Texts : StringOf(x) \in Cells
<1>1. /\ \A x \in Contents : VariableOf("INT", x, NULL, NULL) \in VariableCells
      /\ \A p \in Blocks : VariableOf("STRING", NULL, p, NULL) \in VariableCells
      /\ \A q \in Blocks \cup {NULL}, p \in Blocks : VariableOf("COMPOUND", NULL, q, p) \in VariableCells
  BY DEF VariableOf, VariableCells
<1>2. MutatorOf(<<>>) \in MutatorCells
  BY DEF MutatorOf, MutatorCells
<1>3. \A x \in Texts : StringOf(x) \in StringCells
  BY DEF StringOf, StringCells
<1> QED
  BY <1>1, <1>2, <1>3 DEF Cells

LEMMA AllocShape ==
    ASSUME HeapTyped(heap), NEW value, ValueRight(value), HasRoom(value)
    PROVE  \E P : IsAllocated(HeapWith(value), P, value)
<1>1. heap \in [Blocks -> Cells] /\ NULL \notin Blocks
  BY NullFacts DEF HeapTyped
<1>2. BlocksOf(value) <= Cardinality(Free) /\ Cardinality(Free) \in Nat
  BY RoomFacts DEF HasRoom
<1>3. PICK v, p, q, h : v = NewVariable /\ p = NewPart /\ q = NewName /\ h = HeapWith(value)
  OBVIOUS
<1>4. \A b \in Free : b \in Blocks /\ heap[b] = Unused
  BY DEF Free
<1>5. CASE value.type = "INT"
  <2>1. v \in Free
    BY <1>2, <1>3, <1>5, RoomFacts DEF BlocksOf
  <2>2. h = [heap EXCEPT ![v] = VariableOf("INT", value.x, NULL, NULL)]
    BY <1>3, <1>5 DEF HeapWith
  <2>3. /\ h \in [Blocks -> Cells] /\ h[v] = VariableOf("INT", value.x, NULL, NULL)
        /\ \A b \in Blocks : b # v => h[b] = heap[b]
    BY <1>1, <1>4, <1>5, <2>1, <2>2, CellsMade DEF ValueRight
  <2>4. Linked(h, v)
    BY <1>5, <2>3 DEF Linked, VariableOf, ValueRight
  <2>5. IsAllocated(h, {}, value)
    BY <1>3, <1>4, <1>5, <2>1, <2>3, <2>4 DEF IsAllocated, VariableOf
  <2> QED
    BY <1>3, <2>5
<1>6. CASE value.type = "STRING"
  <2>1. v \in Free /\ p \in Free /\ p # v
    BY <1>2, <1>3, <1>6, RoomFacts DEF BlocksOf
  <2>2. h = [heap EXCEPT ![v] = VariableOf("STRING", NULL, p, NULL), ![p] = StringOf(value.x)]
    BY <1>3, <1>6 DEF HeapWith
  <2>3. /\ h \in [Blocks -> Cells] /\ h[v] = VariableOf("STRING", NULL, p, NULL)
        /\ h[p] = StringOf(value.x)
        /\ \A b \in Blocks : b \notin {v, p} => h[b] = heap[b]
    BY <1>1, <1>4, <1>6, <2>1, <2>2, CellsMade DEF ValueRight
  <2>4. p # NULL
    BY <1>1, <1>4, <2>1
  <2>5. Linked(h, v) /\ h[p].block = "string"
    BY <2>3, <2>4 DEF Linked, VariableOf, StringOf
  <2>6. IsAllocated(h, {p}, value)
    BY <1>3, <1>4, <1>6, <2>1, <2>3, <2>4, <2>5 DEF IsAllocated, VariableOf
  <2> QED
    BY <1>3, <2>6
<1>7. CASE value.type = "COMPOUND" /\ value.x = NULL
  <2>1. v \in Free /\ p \in Free /\ p # v
    BY <1>2, <1>3, <1>7, RoomFacts DEF BlocksOf
  <2>2. h = [heap EXCEPT ![v] = VariableOf("COMPOUND", NULL, NULL, p), ![p] = MutatorOf(<<>>)]
    BY <1>3, <1>7 DEF HeapWith
  <2>3. /\ h \in [Blocks -> Cells] /\ h[v] = VariableOf("COMPOUND", NULL, NULL, p)
        /\ h[p] = MutatorOf(<<>>)
        /\ \A b \in Blocks : b \notin {v, p} => h[b] = heap[b]
    BY <1>1, <1>4, <2>1, <2>2, CellsMade
  <2>4. p # NULL
    BY <1>1, <1>4, <2>1
  <2>5. Linked(h, v)
    BY <2>3, <2>4 DEF Linked, VariableOf, MutatorOf
  <2>6. IsAllocated(h, {p}, value)
    BY <1>3, <1>4, <1>7, <2>1, <2>3, <2>4, <2>5 DEF IsAllocated, VariableOf
  <2> QED
    BY <1>3, <2>6
<1>8. CASE value.type = "COMPOUND" /\ value.x # NULL
  <2>1. v \in Free /\ p \in Free /\ p # v /\ q \in Free /\ q # v /\ q # p
    BY <1>2, <1>3, <1>8, RoomFacts DEF BlocksOf
  <2>2. h = [heap EXCEPT ![v] = VariableOf("COMPOUND", NULL, q, p), ![p] = MutatorOf(<<>>),
                         ![q] = StringOf(value.x)]
    BY <1>3, <1>8 DEF HeapWith
  <2>3. /\ h \in [Blocks -> Cells] /\ h[v] = VariableOf("COMPOUND", NULL, q, p)
        /\ h[p] = MutatorOf(<<>>) /\ h[q] = StringOf(value.x)
        /\ \A b \in Blocks : b \notin {v, p, q} => h[b] = heap[b]
    BY <1>1, <1>4, <1>8, <2>1, <2>2, CellsMade DEF ValueRight
  <2>4. p # NULL /\ q # NULL
    BY <1>1, <1>4, <2>1
  <2>5. Linked(h, v) /\ h[q].block = "string"
    BY <2>3, <2>4 DEF Linked, VariableOf, MutatorOf, StringOf
  <2>6. IsAllocated(h, {p, q}, value)
    BY <1>3, <1>4, <1>8, <2>1, <2>3, <2>4, <2>5 DEF IsAllocated, VariableOf
  <2> QED
    BY <1>3, <2>6
<1> QED
  BY <1>5, <1>6, <1>7, <1>8 DEF ValueRight

(* Nothing else changes, and the variable is a new root.                   *)
LEMMA AllocFacts ==
    ASSUME HeapTyped(heap), NEW Roots, IsForest(Kids(heap), UsedBlocks(heap), Roots),
           NEW value, ValueRight(value), HasRoom(value)
    PROVE  \E h, P : /\ h = HeapWith(value) /\ IsAllocated(h, P, value)
                     /\ HeapTyped(h)
                     /\ UsedBlocks(h) = UsedBlocks(heap) \cup (P \cup {NewVariable})
                     /\ Children(h, NewVariable) = P /\ \A p \in P : Children(h, p) = {}
                     /\ IsForest(Kids(h), UsedBlocks(h), Roots \cup {NewVariable})
<1>1. PICK h, P : h = HeapWith(value) /\ IsAllocated(h, P, value)
  BY AllocShape
<1>2. PICK v : v = NewVariable
  OBVIOUS
<1>3. /\ h \in [Blocks -> Cells] /\ v \in Blocks \ P /\ heap[v] = Unused
      /\ P \subseteq Blocks /\ \A p \in P : heap[p] = Unused
      /\ \A b \in Blocks : b \notin P /\ b # v => h[b] = heap[b]
      /\ h[v].block = "variable" /\ P = {h[v].string, h[v].members} \ {NULL}
      /\ Linked(h, v) /\ \A p \in P : h[p].block = "string" \/ h[p] = MutatorOf(<<>>)
  BY <1>1, <1>2 DEF IsAllocated
<1>4. \A p \in P : Children(h, p) = {} /\ Linked(h, p) /\ h[p] # Unused
  <2>1. SUFFICES ASSUME NEW p \in P
                 PROVE  Children(h, p) = {} /\ Linked(h, p) /\ h[p] # Unused
    OBVIOUS
  <2>2. CASE h[p].block = "string"
    BY <2>2, ChildIs DEF Linked, Unused
  <2>3. CASE h[p] = MutatorOf(<<>>)
    BY <2>3, ChildIs DEF Linked, Unused, MutatorOf
  <2> QED
    BY <1>3, <2>2, <2>3
<1>5. Children(h, v) = P /\ h[v] # Unused
  BY <1>3, ChildIs DEF Unused
<1>6. \A b \in Blocks : Kids(heap)[b] = Children(heap, b) /\ Kids(h)[b] = Children(h, b)
  BY DEF Kids
<1>7. /\ \A a \in Blocks : Children(heap, a) \subseteq UsedBlocks(heap)
      /\ \A a \in Blocks : a \notin UsedBlocks(heap) => Children(heap, a) = {}
      /\ Roots \subseteq UsedBlocks(heap)
  BY <1>6 DEF IsForest
<1>8. \A b \in Blocks : b \notin P /\ b # v => Linked(h, b) /\ Children(h, b) = Children(heap, b)
  <2>1. SUFFICES ASSUME NEW b \in Blocks, b \notin P, b # v
                 PROVE  Linked(h, b) /\ Children(h, b) = Children(heap, b)
    OBVIOUS
  <2>2. h[b] = heap[b]
    BY <1>3, <2>1
  <2>3. \A c \in Children(heap, b) : h[c].block = heap[c].block
    BY <1>3, <1>7 DEF UsedBlocks
  <2> QED
    BY <2>2, <2>3, LinkedKept, ChildrenSame
<1>9. HeapTyped(h)
  BY <1>3, <1>4, <1>8 DEF HeapTyped
<1>10. UsedBlocks(h) = UsedBlocks(heap) \cup (P \cup {v})
  BY <1>3, <1>4, <1>5 DEF UsedBlocks
<1>11. PICK K, L, N, U : /\ K = Kids(heap) /\ L = Kids(h) /\ N = P \cup {v}
                         /\ U = UsedBlocks(heap)
  OBVIOUS
<1>12. IsForest(K, U \cup N, Roots \cup N)
  <2>1. N \in SUBSET Blocks /\ N \cap U = {}
    BY <1>3, <1>11 DEF UsedBlocks
  <2>2. IsForest(K, U, Roots)
    BY <1>11
  <2> QED
    BY <2>1, <2>2, ForestGrows
<1>13. IsForest(L, U \cup N, Roots \cup {v})
  <2>1. \A p \in N : Children(heap, p) = {}
    BY <1>3, <1>7, <1>11 DEF UsedBlocks
  <2>2. K[v] = {}
    BY <1>3, <1>6, <1>11, <2>1
  <2>3. \A a \in Blocks : L[a] = IF a \in {} THEN {} ELSE IF a = v THEN P ELSE K[a]
    <3>1. \A a \in Blocks : L[a] = Children(h, a) /\ K[a] = Children(heap, a)
      BY <1>6, <1>11
    <3>2. \A a \in P : Children(h, a) = {} /\ Children(heap, a) = {} /\ a # v
      BY <1>3, <1>4, <1>11, <2>1
    <3>3. Children(h, v) = P
      BY <1>5
    <3>4. \A a \in Blocks : a \notin P /\ a # v => Children(h, a) = Children(heap, a)
      BY <1>8
    <3> QED
      BY <3>1, <3>2, <3>3, <3>4
  <2>4. PICK Q : Q = Roots \cup N
    OBVIOUS
  <2>5. v \in Q /\ P \in SUBSET Q /\ v \notin P /\ IsForest(K, U \cup N, Q)
    BY <1>3, <1>11, <1>12, <2>4
  <2>6. PICK E : E = {}
    OBVIOUS
  <2>7. /\ E \in SUBSET (U \cup N) /\ v \notin E /\ K[v] \subseteq E
        /\ \A a \in E : K[a] \subseteq E
        /\ \A x \in E : \E a \in E \cup {v} : x \in K[a]
        /\ \A a \in Blocks : L[a] = IF a \in E THEN {} ELSE IF a = v THEN P ELSE K[a]
    BY <2>2, <2>3, <2>6
  <2>8. IsForest(L, (U \cup N) \ E, Q \ P)
    BY <2>5, <2>7, ForestReplaced DEF Supplanted
  <2>9. Q \ P = Roots \cup {v} /\ (U \cup N) \ E = U \cup N
    BY <1>3, <1>7, <1>11, <2>4, <2>6 DEF UsedBlocks
  <2> QED
    BY <2>8, <2>9
<1>14. IsForest(Kids(h), UsedBlocks(h), Roots \cup {v})
  BY <1>10, <1>11, <1>13
<1> QED
  BY <1>1, <1>2, <1>4, <1>5, <1>9, <1>10, <1>14
----------------------------------------------------------------------------
(* Release.                                                                *)

(* A set of blocks that has, with a block, the one that owns it.           *)
Upward(h, O) == \A a \in Blocks : \A b \in Children(h, a) : b \in O => a \in O

(* Of the roots, those in D are in X.  The rest is what they own, or an    *)
(* entry of m and what it owns.                                            *)
Frees(h, X, R, D, m) ==
    /\ X \subseteq UsedBlocks(h)
    /\ \A x \in X : x \in R => x \in D
    /\ \A x \in X : x \in D \/ h[x].block = "variable" \/ \E a \in X : x \in Children(h, a)
    /\ \A O \in SUBSET Blocks : Upward(h, O) /\ O \cap D = {} /\ m \notin O => X \cap O = {}

LEMMA ForestKids ==
    ASSUME NEW h, NEW U, NEW R, IsForest(Kids(h), U, R)
    PROVE  /\ U \subseteq Blocks /\ R \subseteq U
           /\ \A a \in Blocks : Children(h, a) \subseteq U
           /\ \A a \in Blocks : a \notin U => Children(h, a) = {}
           /\ \A a, c \in Blocks : \A b \in U : b \in Children(h, a) /\ b \in Children(h, c) => a = c
           /\ \A a \in Blocks, r \in R : r \notin Children(h, a)
           /\ \A u \in U : u \in R \/ \E a \in Blocks : u \in Children(h, a)
<1>1. PICK K : K = Kids(h)
  OBVIOUS
<1>2. \A a \in Blocks : K[a] = Children(h, a)
  BY <1>1 DEF Kids
<1> QED
  BY <1>1, <1>2 DEF IsForest

MayDelete(h, R, T, v) ==
    /\ HeapTyped(h) /\ IsForest(Kids(h), UsedBlocks(h), R)
    /\ T \subseteq R /\ v \in T /\ \A t \in T : t # v => Children(h, t) = {}

IsDeleted(h, g, R, T, X) ==
    /\ g = Without(h, X)
    /\ HeapTyped(g) /\ IsForest(Kids(g), UsedBlocks(g), R \ T)
    /\ Frees(h, X, R, T, NULL)
    /\ \A a \in Blocks : g[a] = IF a \in X THEN Unused ELSE h[a]

(* Variables are deleted.                                                  *)
LEMMA DeletedFacts ==
    ASSUME NEW h, NEW R, NEW T, NEW v, MayDelete(h, R, T, v)
    PROVE  \E X, g : X = T \cup Beneath(h)[v] /\ IsDeleted(h, g, R, T, X)
<1>0. /\ HeapTyped(h) /\ IsForest(Kids(h), UsedBlocks(h), R)
      /\ T \subseteq R /\ v \in T /\ \A t \in T : t # v => Children(h, t) = {}
  BY DEF MayDelete
<1>1. PICK U, K : U = UsedBlocks(h) /\ K = Kids(h)
  OBVIOUS
<1>2. /\ U \subseteq Blocks /\ R \subseteq U
      /\ \A a \in Blocks : Children(h, a) \subseteq U
      /\ \A a, c \in Blocks : \A b \in U : b \in Children(h, a) /\ b \in Children(h, c) => a = c
      /\ \A a \in Blocks, r \in R : r \notin Children(h, a)
  BY <1>0, <1>1, ForestKids
<1>3. v \in Blocks
  BY <1>0, <1>2
<1>4. PICK B \in SUBSET U : /\ B = Beneath(h)[v]
                            /\ Children(h, v) \subseteq B
                            /\ \A a \in B : Children(h, a) \subseteq B
                            /\ \A x \in B : \E a \in B \cup {v} : x \in Children(h, a)
                            /\ v \notin B /\ \A x \in B : x \notin R
  BY <1>0, <1>1, <1>3, BeneathFacts
<1>5. PICK X, g : X = T \cup B /\ g = Without(h, X)
  OBVIOUS
<1>6. /\ X \in SUBSET U /\ T \subseteq X /\ X \subseteq Blocks
      /\ \A a \in X : Children(h, a) \subseteq X
      /\ \A x \in X : x \in T \/ \E a \in X : x \in Children(h, a)
      /\ \A x \in X : x \in R => x \in T
  BY <1>0, <1>2, <1>4, <1>5
<1>7. \A a \in Blocks : g[a] = IF a \in X THEN Unused ELSE h[a]
  BY <1>5 DEF Without
<1>8. \A a \in Blocks : Children(g, a) = IF a \in X THEN {} ELSE Children(h, a)
  <2>1. SUFFICES ASSUME NEW a \in Blocks
                 PROVE  Children(g, a) = IF a \in X THEN {} ELSE Children(h, a)
    OBVIOUS
  <2>2. CASE a \in X
    BY <1>7, <2>2, ChildIs DEF Unused
  <2>3. CASE a \notin X
    BY <1>7, <2>3, ChildrenSame
  <2> QED
    BY <2>2, <2>3
<1>9. HeapTyped(g)
  <2>1. \A a \in Blocks : h[a] \in Cells
    BY <1>0 DEF HeapTyped
  <2>2. g \in [Blocks -> Cells]
    BY <1>5, <2>1 DEF Without, Cells
  <2>3. ASSUME NEW a \in Blocks
        PROVE  Linked(g, a)
    <3>1. CASE a \in X
      BY <1>7, <3>1 DEF Linked, Unused
    <3>2. CASE a \notin X
      <4>1. \A c \in Children(h, a) : c \in Blocks /\ c \notin X
        BY <1>0, <1>2, <1>6, <3>2
      <4>2. g[a] = h[a] /\ \A c \in Children(h, a) : g[c].block = h[c].block
        BY <1>7, <3>2, <4>1
      <4> QED
        BY <1>0, <4>2, LinkedKept
    <3> QED
      BY <3>1, <3>2
  <2> QED
    BY <2>2, <2>3 DEF HeapTyped
<1>10. UsedBlocks(g) = U \ X
  BY <1>1, <1>7 DEF UsedBlocks
<1>11. IsForest(Kids(g), UsedBlocks(g), R \ T)
  <2>1. PICK L : L = Kids(g)
    OBVIOUS
  <2>2. \A a \in Blocks : K[a] = Children(h, a) /\ L[a] = Children(g, a)
    BY <1>1, <2>1 DEF Kids
  <2>3. /\ \A a \in Blocks : L[a] = IF a \in X THEN {} ELSE K[a]
        /\ \A a \in X : K[a] \subseteq X
        /\ \A x \in X : x \in T \/ \E a \in X : x \in K[a]
    <3>1. \A a \in Blocks : L[a] = IF a \in X THEN {} ELSE K[a]
      BY <1>8, <2>2
    <3>2. \A a \in X : K[a] = Children(h, a)
      BY <1>6, <2>2
    <3> QED
      BY <1>6, <3>1, <3>2
  <2>4. IsForest(L, U \ X, R \ T)
    BY <1>0, <1>1, <1>6, <2>3, ForestDeleted
  <2> QED
    BY <1>10, <2>1, <2>4
<1>12. Frees(h, X, R, T, NULL)
  <2>1. ASSUME NEW O \in SUBSET Blocks, Upward(h, O), O \cap T = {}
        PROVE  X \cap O = {}
    <3>1. v \notin O /\ \A a \in Blocks : \A b \in Children(h, a) : b \in O => a \in O
      BY <1>0, <2>1 DEF Upward
    <3>2. Beneath(h)[v] \cap O = {}
      BY <1>0, <1>1, <1>3, <3>1, BeneathApart
    <3> QED
      BY <1>0, <1>4, <1>5, <2>1, <3>2
  <2>2. \A x \in X : x \in T \/ h[x].block = "variable" \/ \E a \in X : x \in Children(h, a)
    BY <1>6
  <2> QED
    BY <1>1, <1>6, <2>1, <2>2 DEF Frees
<1>13. X = T \cup Beneath(h)[v]
  BY <1>4, <1>5
<1> QED
  BY <1>5, <1>7, <1>9, <1>11, <1>12, <1>13 DEF IsDeleted

Singly(e) ==
    \A j, k \in DOMAIN e : e[j].key = e[k].key \/ e[j].value = e[k].value => j = k

TakenOut(e, i, r) ==
    /\ r \in Seq(Fields)
    /\ \A j \in DOMAIN r : \E k \in DOMAIN e : k # i /\ r[j] = e[k]
    /\ \A k \in DOMAIN e : k # i => \E j \in DOMAIN r : r[j] = e[k]
    /\ Singly(r)

(* A member is deleted, and its entry with it.                             *)
LEMMA EntryRemoved ==
    ASSUME NEW e \in Seq(Fields), NEW i \in DOMAIN e,
           Singly(e)
    PROVE  TakenOut(e, i, RemoveAt(e, i))
<1> DEFINE r == RemoveAt(e, i)
<1>1. /\ i \in 1..Len(e) /\ Len(e) \in Nat /\ DOMAIN e = 1..Len(e)
  OBVIOUS
<1>2. /\ r \in Seq(Fields) /\ Len(r) = Len(e) - 1
      /\ \A j \in 1..(Len(e) - 1) : r[j] = IF j < i THEN e[j] ELSE e[j + 1]
  BY <1>1, RemoveAtProperties
<1> HIDE DEF r
<1>3. DOMAIN r = 1..(Len(e) - 1)
  BY <1>2
<1>4. ASSUME NEW j \in DOMAIN r
      PROVE  \E k \in DOMAIN e : k # i /\ r[j] = e[k]
  <2>1. CASE j < i
    BY <1>1, <1>2, <1>3, <2>1
  <2>2. CASE ~(j < i)
    <3>1. j + 1 \in DOMAIN e /\ j + 1 # i /\ r[j] = e[j + 1]
      BY <1>1, <1>2, <1>3, <2>2
    <3> QED
      BY <3>1
  <2> QED
    BY <2>1, <2>2
<1>5. ASSUME NEW k \in DOMAIN e, k # i
      PROVE  \E j \in DOMAIN r : r[j] = e[k]
  <2>1. CASE k < i
    BY <1>1, <1>2, <1>3, <2>1
  <2>2. CASE k > i
    <3>1. k - 1 \in DOMAIN r /\ r[k - 1] = e[k]
      BY <1>1, <1>2, <1>3, <2>2
    <3> QED
      BY <3>1
  <2> QED
    BY <1>1, <1>5, <2>1, <2>2
<1>6. ASSUME NEW j \in DOMAIN r, NEW k \in DOMAIN r,
             r[j].key = r[k].key \/ r[j].value = r[k].value
      PROVE  j = k
  <2> USE DEF Singly
  <2>1. PICK p \in DOMAIN e : r[j] = e[p] /\ p = IF j < i THEN j ELSE j + 1
    BY <1>1, <1>2, <1>3
  <2>2. PICK q \in DOMAIN e : r[k] = e[q] /\ q = IF k < i THEN k ELSE k + 1
    BY <1>1, <1>2, <1>3
  <2>3. p = q
    BY <1>6, <2>1, <2>2
  <2> QED
    BY <1>1, <1>3, <2>1, <2>2, <2>3
<1>7. TakenOut(e, i, r)
  BY <1>2, <1>4, <1>5, <1>6 DEF Singly, TakenOut
<1> QED
  BY <1>7 DEF r

IsRemoved(h, g, X, n, key) ==
    /\ n \notin X
    /\ \A a \in Blocks : a # n => g[a] = IF a \in X THEN Unused ELSE h[a]
    /\ g[n].block = "mutator" /\ ~Has(g, n, key)
    /\ \A k : Has(g, n, k) => Has(h, n, k)

LEMMA FormerRemoved ==
    ASSUME NEW h, HeapTyped(h), NEW R, IsForest(Kids(h), UsedBlocks(h), R),
           NEW n \in Blocks, h[n].block = "mutator", NEW key, Has(h, n, key)
    PROVE  \E X, g : /\ g = WithoutFormer(h, n, key) /\ HeapTyped(g)
                     /\ IsForest(Kids(g), UsedBlocks(g), R)
                     /\ Frees(h, X, R, {}, n) /\ IsRemoved(h, g, X, n, key)
<1>1. PICK U, K, e, i : /\ U = UsedBlocks(h) /\ K = Kids(h) /\ e = h[n].entries
                        /\ i = PositionOf(h, n, key)
  OBVIOUS
<1>2. i \in DOMAIN e /\ e[i].key = key
  BY <1>1, Zenon DEF Has, PositionOf, Entries
<1>3. /\ e \in Seq(Fields)
      /\ Singly(e)
      /\ \A j \in DOMAIN e : h[e[j].value].block = "variable"
  BY <1>1, CellFacts DEF Linked, Singly
<1>4. PICK r, b : r = RemoveAt(e, i) /\ b = e[i].value
  OBVIOUS
<1>5. /\ r \in Seq(Fields)
      /\ \A j \in DOMAIN r : \E k \in DOMAIN e : k # i /\ r[j] = e[k]
      /\ \A k \in DOMAIN e : k # i => \E j \in DOMAIN r : r[j] = e[k]
      /\ Singly(r)
  BY <1>2, <1>3, <1>4, EntryRemoved DEF TakenOut
<1>6. /\ U \subseteq Blocks /\ R \subseteq U
      /\ \A a \in Blocks : Children(h, a) \subseteq U
      /\ \A a, c \in Blocks : \A d \in U : d \in Children(h, a) /\ d \in Children(h, c) => a = c
      /\ \A a \in Blocks, d \in R : d \notin Children(h, a)
  BY <1>1, ForestKids
<1>7. Children(h, n) = {e[j].value : j \in DOMAIN e}
  BY <1>1, ChildIs
<1>8. b \in Children(h, n) /\ b \in U /\ b \in Blocks /\ n \in U /\ h[b].block = "variable"
  <2>1. n \in U
    BY <1>1 DEF UsedBlocks, Unused
  <2> QED
    BY <1>2, <1>3, <1>4, <1>6, <1>7, <2>1
<1>9. PICK B \in SUBSET U : /\ B = Beneath(h)[b]
                            /\ Children(h, b) \subseteq B
                            /\ \A a \in B : Children(h, a) \subseteq B
                            /\ \A x \in B : \E a \in B \cup {b} : x \in Children(h, a)
                            /\ b \notin B /\ \A x \in B : x \notin R
  BY <1>1, <1>8, BeneathFacts
<1>10. n \notin {b} \cup B
  <2>1. PICK f : /\ f = Beneath(h)
                 /\ \A a \in Blocks : f[a] = UNION {{c} \cup f[c] : c \in Children(h, a)}
    BY <1>6, BeneathEquation
  <2>2. {b} \cup B \subseteq f[n]
    BY <1>8, <1>9, <2>1
  <2>3. n \notin f[n]
    BY <1>1, <2>1, BeneathFacts
  <2> QED
    BY <2>2, <2>3
<1>11. PICK X, g : X = {b} \cup B /\ g = [Without(h, X) EXCEPT ![n] = MutatorOf(r)]
  OBVIOUS
<1>12. g = WithoutFormer(h, n, key)
  BY <1>1, <1>4, <1>9, <1>11 DEF WithoutFormer, Entries, Deleted
<1>13. /\ X \in SUBSET U /\ b \in X /\ X \subseteq Blocks /\ n \notin X
       /\ \A a \in X : Children(h, a) \subseteq X
       /\ \A x \in X : x = b \/ \E a \in X : x \in Children(h, a)
       /\ \A x \in X : x \notin R
  BY <1>6, <1>8, <1>9, <1>10, <1>11
<1>14. /\ \A a \in Blocks : a # n => g[a] = IF a \in X THEN Unused ELSE h[a]
       /\ g[n] = MutatorOf(r)
  BY <1>11 DEF Without
<1>15. /\ \A a \in Blocks : a # n => Children(g, a) = IF a \in X THEN {} ELSE Children(h, a)
       /\ Children(g, n) = Children(h, n) \ {b}
  <2>1. ASSUME NEW a \in X, a # n
        PROVE  Children(g, a) = {}
    BY <1>13, <1>14, <2>1, ChildIs DEF Unused
  <2>2. ASSUME NEW a \in Blocks \ X, a # n
        PROVE  Children(g, a) = Children(h, a)
    BY <1>14, <2>2, ChildrenSame
  <2>3. g[n].block = "mutator" /\ g[n].entries = r
    BY <1>14 DEF MutatorOf
  <2>4. Children(g, n) = {r[j].value : j \in DOMAIN r}
    BY <2>3, ChildIs
  <2>5. {r[j].value : j \in DOMAIN r} = {e[j].value : j \in DOMAIN e} \ {b}
    <3>1. ASSUME NEW j \in DOMAIN r
          PROVE  \E k \in DOMAIN e : r[j].value = e[k].value /\ e[k].value # b
      BY <1>2, <1>3, <1>4, <1>5 DEF Singly
    <3>2. ASSUME NEW k \in DOMAIN e, e[k].value # b
          PROVE  \E j \in DOMAIN r : r[j].value = e[k].value
      BY <1>4, <1>5, <3>2
    <3> QED
      BY <3>1, <3>2
  <2> QED
    BY <1>7, <2>1, <2>2, <2>4, <2>5
<1>16. HeapTyped(g)
  <2>1. \A a \in Blocks : h[a] \in Cells
    BY DEF HeapTyped
  <2>2. MutatorOf(r) \in Cells /\ Unused \in Cells
    BY <1>5 DEF MutatorOf, MutatorCells, Cells
  <2>3. g \in [Blocks -> Cells]
    BY <1>11, <2>1, <2>2 DEF Without
  <2>4. ASSUME NEW a \in Blocks, NEW c \in Children(h, a), a \notin X, a # n \/ c # b
        PROVE  c \in Blocks /\ c \notin X /\ g[c].block = h[c].block
    <3>1. c \in Blocks /\ c \notin X
      BY <1>6, <1>8, <1>13, <2>4
    <3>2. CASE c = n
      BY <1>14, <3>1, <3>2 DEF MutatorOf
    <3>3. CASE c # n
      BY <1>14, <3>1, <3>3
    <3> QED
      BY <3>1, <3>2, <3>3
  <2>5. ASSUME NEW a \in Blocks
        PROVE  Linked(g, a)
    <3>1. CASE a \in X
      <4>1. g[a] = Unused
        BY <1>13, <1>14, <3>1
      <4> QED
        BY <4>1 DEF Linked, Unused
    <3>2. CASE a \notin X /\ a # n
      <4>1. g[a] = h[a] /\ \A c \in Children(h, a) : g[c].block = h[c].block
        BY <1>14, <2>4, <3>2
      <4> QED
        BY <4>1, LinkedKept
    <3>3. CASE a = n
      <4>1. g[a].block = "mutator" /\ g[a].entries = r
        BY <1>14, <3>3 DEF MutatorOf
      <4>2. ASSUME NEW j \in DOMAIN r
            PROVE  g[r[j].value].block = "variable"
        <5>1. PICK k \in DOMAIN e : k # i /\ r[j] = e[k]
          BY <1>5
        <5>2. e[k].value \in Children(h, n) /\ e[k].value # b
          BY <1>2, <1>3, <1>4, <1>7, <5>1 DEF Singly
        <5>3. g[e[k].value].block = h[e[k].value].block
          BY <1>13, <2>4, <5>2
        <5> QED
          BY <1>3, <5>1, <5>3
      <4> QED
        BY <1>5, <4>1, <4>2 DEF Linked, Singly
    <3> QED
      BY <3>1, <3>2, <3>3
  <2> QED
    BY <2>3, <2>5 DEF HeapTyped
<1>17. UsedBlocks(g) = U \ X
  <2>1. g[n] # Unused
    BY <1>14 DEF MutatorOf, Unused
  <2> QED
    BY <1>1, <1>8, <1>13, <1>14, <2>1 DEF UsedBlocks
<1>18. IsForest(Kids(g), UsedBlocks(g), R)
  <2>1. PICK L : L = Kids(g)
    OBVIOUS
  <2>2. \A a \in Blocks : K[a] = Children(h, a) /\ L[a] = Children(g, a)
    BY <1>1, <2>1 DEF Kids
  <2>3. \A a \in Blocks : L[a] = IF a \in X THEN {} ELSE IF a = n THEN K[n] \ {b} ELSE K[a]
    BY <1>13, <1>15, <2>2
  <2>4. /\ \A a \in X : K[a] \subseteq X
        /\ \A x \in X : x = b \/ \E a \in X : x \in K[a]
        /\ b \in K[n]
    <3>1. \A a \in X : K[a] = Children(h, a)
      BY <1>13, <2>2
    <3> QED
      BY <1>8, <1>13, <2>2, <3>1
  <2>5. IsForest(K, U, R) /\ Pruned(K, L, U, n, b, X)
    BY <1>1, <1>8, <1>13, <2>3, <2>4 DEF Pruned
  <2>6. IsForest(L, U \ X, R)
    BY <2>5, ForestRemoved
  <2> QED
    BY <1>17, <2>1, <2>6
<1>19. Frees(h, X, R, {}, n)
  <2>1. ASSUME NEW O \in SUBSET Blocks, Upward(h, O), n \notin O
        PROVE  X \cap O = {}
    <3>1. b \notin O /\ \A a \in Blocks : \A d \in Children(h, a) : d \in O => a \in O
      BY <1>8, <2>1 DEF Upward
    <3>2. Beneath(h)[b] \cap O = {}
      BY <1>1, <1>8, <3>1, BeneathApart
    <3> QED
      BY <1>9, <1>11, <3>1, <3>2
  <2>2. \A x \in X : h[x].block = "variable" \/ \E a \in X : x \in Children(h, a)
    BY <1>8, <1>13
  <2> QED
    BY <1>1, <1>13, <2>1, <2>2 DEF Frees
<1>20. IsRemoved(h, g, X, n, key)
  <2>1. g[n].block = "mutator" /\ g[n].entries = r
    BY <1>14 DEF MutatorOf
  <2>2. ~Has(g, n, key)
    <3>1. SUFFICES ASSUME NEW j \in DOMAIN r, r[j].key = key
                   PROVE  FALSE
      BY <2>1 DEF Has, Entries
    <3>2. PICK k \in DOMAIN e : k # i /\ r[j] = e[k]
      BY <1>5
    <3> QED
      BY <1>2, <1>3, <3>1, <3>2 DEF Singly
  <2>3. ASSUME NEW k, Has(g, n, k)
        PROVE  Has(h, n, k)
    <3>1. PICK j \in DOMAIN r : r[j].key = k
      BY <2>1, <2>3 DEF Has, Entries
    <3>2. PICK p \in DOMAIN e : r[j] = e[p]
      BY <1>5
    <3> QED
      BY <1>1, <3>1, <3>2 DEF Has, Entries
  <2> QED
    BY <1>13, <1>14, <2>1, <2>2, <2>3 DEF IsRemoved
<1> QED
  BY <1>12, <1>16, <1>18, <1>19, <1>20, Zenon

(* When there is none, there is nothing to delete.                         *)
LEMMA RemovedFacts ==
    ASSUME NEW h, HeapTyped(h), NEW R, IsForest(Kids(h), UsedBlocks(h), R),
           NEW n \in Blocks, h[n].block = "mutator", NEW key
    PROVE  \E X, g : /\ g = WithoutFormer(h, n, key) /\ HeapTyped(g)
                     /\ IsForest(Kids(g), UsedBlocks(g), R)
                     /\ Frees(h, X, R, {}, n) /\ IsRemoved(h, g, X, n, key)
<1>1. CASE Has(h, n, key)
  BY <1>1, FormerRemoved
<1>2. CASE ~Has(h, n, key)
  <2>1. h = WithoutFormer(h, n, key)
    BY <1>2 DEF WithoutFormer
  <2>2. IsRemoved(h, h, {}, n, key)
    BY <1>2 DEF IsRemoved
  <2>3. Frees(h, {}, R, {}, n)
    BY DEF Frees
  <2> QED
    BY <2>1, <2>2, <2>3, Zenon
<1> QED
  BY <1>1, <1>2

(* The parts of a new variable stay, and not the variable.                 *)
LEMMA PartsFacts ==
    ASSUME HeapTyped(heap), NEW R, IsForest(Kids(heap), UsedBlocks(heap), R),
           NEW value, ValueRight(value), HasRoom(value)
    PROVE  \E h, P, g : /\ h = HeapWith(value) /\ IsAllocated(h, P, value)
                        /\ g = [h EXCEPT ![NewVariable] = Unused]
                        /\ HeapTyped(g) /\ UsedBlocks(g) = UsedBlocks(heap) \cup P
                        /\ \A b \in Blocks : Children(g, b) = Children(heap, b)
                        /\ \A p \in P : g[p] = h[p]
                        /\ IsForest(Kids(g), UsedBlocks(g), R \cup P)
<1>1. PICK h, P : h = HeapWith(value) /\ IsAllocated(h, P, value) /\ HeapTyped(h)
                  /\ UsedBlocks(h) = UsedBlocks(heap) \cup (P \cup {NewVariable})
                  /\ \A p \in P : Children(h, p) = {}
  BY AllocFacts, Zenon
<1>2. PICK v, g : v = NewVariable /\ g = [h EXCEPT ![v] = Unused]
  OBVIOUS
<1>3. /\ h \in [Blocks -> Cells] /\ v \in Blocks \ P /\ heap[v] = Unused
      /\ P \subseteq Blocks /\ \A p \in P : heap[p] = Unused
      /\ \A b \in Blocks : b \notin P /\ b # v => h[b] = heap[b]
  BY <1>1, <1>2 DEF IsAllocated
<1>4. /\ g \in [Blocks -> Cells] /\ g[v] = Unused
      /\ \A b \in Blocks : b # v => g[b] = h[b]
      /\ \A p \in P : g[p] = h[p]
      /\ \A b \in Blocks : b \notin P => g[b] = heap[b]
  BY <1>2, <1>3 DEF Cells
<1>5. /\ \A a \in Blocks : Children(heap, a) \subseteq UsedBlocks(heap)
      /\ \A a \in Blocks : a \notin UsedBlocks(heap) => Children(heap, a) = {}
      /\ R \subseteq UsedBlocks(heap)
  BY ForestKids
<1>6. \A p \in P : Children(g, p) = {} /\ Children(heap, p) = {}
  <2>1. \A p \in P : p \in Blocks /\ p \notin UsedBlocks(heap)
    BY <1>3 DEF UsedBlocks
  <2>2. \A p \in P : Children(g, p) = Children(h, p)
    BY <1>4, ChildrenSame
  <2> QED
    BY <1>1, <1>5, <2>1, <2>2
<1>7. \A b \in Blocks : Children(g, b) = Children(heap, b)
  <2>1. \A b \in Blocks : b \notin P => Children(g, b) = Children(heap, b)
    BY <1>4, ChildrenSame
  <2> QED
    BY <1>6, <2>1
<1>8. HeapTyped(g)
  <2>1. ASSUME NEW b \in Blocks
        PROVE  Linked(g, b)
    <3>1. CASE b \in P
      <4>1. g[b] = h[b] /\ \A c \in Children(h, b) : g[c].block = h[c].block
        BY <1>1, <1>4, <3>1
      <4> QED
        BY <1>1, <4>1, LinkedKept
    <3>2. CASE b \notin P
      <4>1. \A c \in Children(heap, b) : c \in Blocks /\ c \notin P
        BY <1>3, <1>5 DEF UsedBlocks
      <4>2. g[b] = heap[b] /\ \A c \in Children(heap, b) : g[c].block = heap[c].block
        BY <1>4, <3>2, <4>1
      <4> QED
        BY <4>2, LinkedKept
    <3> QED
      BY <3>1, <3>2
  <2> QED
    BY <1>4, <2>1 DEF HeapTyped
<1>9. UsedBlocks(g) = UsedBlocks(heap) \cup P
  <2>1. \A b \in Blocks : b \in UsedBlocks(h) <=> h[b] # Unused
    BY DEF UsedBlocks
  <2>2. \A p \in P : g[p] # Unused
    BY <1>1, <1>3, <1>4, <2>1
  <2> QED
    BY <1>3, <1>4, <2>2 DEF UsedBlocks
<1>10. IsForest(Kids(g), UsedBlocks(g), R \cup P)
  <2>1. PICK K, U : K = Kids(heap) /\ U = UsedBlocks(heap)
    OBVIOUS
  <2>2. Kids(g) = K
    BY <1>7, <2>1 DEF Kids
  <2>3. IsForest(K, U, R) /\ P \in SUBSET Blocks /\ P \cap U = {}
    BY <1>3, <2>1 DEF UsedBlocks
  <2>4. IsForest(K, U \cup P, R \cup P)
    BY <2>3, ForestGrows
  <2> QED
    BY <1>9, <2>1, <2>2, <2>4
<1>11. g = [h EXCEPT ![NewVariable] = Unused] /\ \A p \in P : g[p] = h[p]
  BY <1>2, <1>4
<1> QED
  BY <1>1, <1>7, <1>8, <1>9, <1>10, <1>11, Zenon

MayReplace(h, R, w, P, cell, k, U, Q, g) ==
    /\ HeapTyped(h) /\ IsForest(Kids(h), UsedBlocks(h), R)
    /\ w \in R /\ P \subseteq R /\ w \notin P /\ h[w].block = "variable"
    /\ cell \in VariableCells /\ P = {cell.string, cell.members} \ {NULL}
    /\ cell.string # NULL => h[cell.string].block = "string"
    /\ cell.members # NULL => h[cell.members].block = "mutator"
    /\ cell.type = "INT" => cell.content \in Contents
    /\ cell.type = "STRING" => cell.string # NULL
    /\ cell.type = "COMPOUND" => cell.members # NULL
    /\ \A a \in Blocks : Children(k, a) = Children(h, a)
    /\ U \subseteq UsedBlocks(h) /\ IsForest(Kids(k), U, Q)
    /\ g \in [Blocks -> Cells]
    /\ \A a \in Blocks : g[a] = IF a = w THEN cell
                                ELSE IF a \in Beneath(k)[w] THEN Unused ELSE h[a]

IsReplaced(h, R, w, P, cell, g) ==
    /\ HeapTyped(g) /\ IsForest(Kids(g), UsedBlocks(g), R \ P)
    /\ \A r \in R : r # w => g[r] = h[r]
    /\ g[w] = cell

(* Roots take the place of what is beneath another one.                    *)
LEMMA ReplacedFacts ==
    ASSUME NEW h, NEW R, NEW w, NEW P, NEW cell, NEW k, NEW U, NEW Q, NEW g,
           MayReplace(h, R, w, P, cell, k, U, Q, g)
    PROVE  IsReplaced(h, R, w, P, cell, g)
<1>0. /\ HeapTyped(h) /\ IsForest(Kids(h), UsedBlocks(h), R)
      /\ w \in R /\ P \subseteq R /\ w \notin P /\ h[w].block = "variable"
      /\ cell \in VariableCells /\ P = {cell.string, cell.members} \ {NULL}
      /\ cell.string # NULL => h[cell.string].block = "string"
      /\ cell.members # NULL => h[cell.members].block = "mutator"
      /\ cell.type = "INT" => cell.content \in Contents
      /\ cell.type = "STRING" => cell.string # NULL
      /\ cell.type = "COMPOUND" => cell.members # NULL
      /\ \A a \in Blocks : Children(k, a) = Children(h, a)
      /\ U \subseteq UsedBlocks(h) /\ IsForest(Kids(k), U, Q)
      /\ g \in [Blocks -> Cells]
      /\ \A a \in Blocks : g[a] = IF a = w THEN cell
                                  ELSE IF a \in Beneath(k)[w] THEN Unused ELSE h[a]
  BY DEF MayReplace
<1>1. /\ UsedBlocks(h) \subseteq Blocks /\ R \subseteq UsedBlocks(h)
      /\ \A a \in Blocks : Children(h, a) \subseteq UsedBlocks(h)
      /\ \A a, c \in Blocks : \A b \in UsedBlocks(h) :
             b \in Children(h, a) /\ b \in Children(h, c) => a = c
      /\ \A a \in Blocks, r \in R : r \notin Children(h, a)
  BY <1>0, ForestKids
<1>2. w \in Blocks
  BY <1>0, <1>1
<1>3. PICK X \in SUBSET U : /\ X = Beneath(k)[w]
                            /\ Children(k, w) \subseteq X
                            /\ \A a \in X : Children(k, a) \subseteq X
                            /\ \A x \in X : \E a \in X \cup {w} : x \in Children(k, a)
                            /\ w \notin X
                            /\ \A x \in X : x \notin Q
  BY <1>0, <1>2, BeneathFacts
<1>4. /\ X \in SUBSET UsedBlocks(h) /\ X \subseteq Blocks /\ w \notin X
      /\ Children(h, w) \subseteq X /\ \A a \in X : Children(h, a) \subseteq X
      /\ \A x \in X : \E a \in X \cup {w} : x \in Children(h, a)
  BY <1>0, <1>1, <1>2, <1>3
<1>5. \A x \in X : x \notin R
  BY <1>0, <1>1, <1>2, <1>4
<1>6. /\ g[w] = cell /\ \A a \in X : g[a] = Unused
      /\ \A a \in Blocks : a # w /\ a \notin X => g[a] = h[a]
  BY <1>0, <1>2, <1>3, <1>4
<1>7. cell.block = "variable" /\ cell.string \in Blocks \cup {NULL}
      /\ cell.members \in Blocks \cup {NULL}
  BY <1>0 DEF VariableCells
<1>8. /\ \A a \in X : Children(g, a) = {} /\ Linked(g, a)
      /\ Children(g, w) = P
      /\ \A a \in Blocks : a # w /\ a \notin X => Children(g, a) = Children(h, a)
  <2>1. ASSUME NEW a \in X
        PROVE  Children(g, a) = {} /\ Linked(g, a)
    BY <1>6, ChildIs DEF Unused, Linked
  <2>2. Children(g, w) = P
    BY <1>0, <1>6, <1>7, ChildIs
  <2>3. ASSUME NEW a \in Blocks, a # w, a \notin X
        PROVE  Children(g, a) = Children(h, a)
    BY <1>6, <2>3, ChildrenSame
  <2> QED
    BY <2>1, <2>2, <2>3
<1>9. \A a \in Blocks : a # w /\ a \notin X => Linked(g, a)
  <2>1. SUFFICES ASSUME NEW a \in Blocks, a # w, a \notin X
                 PROVE  Linked(g, a)
    OBVIOUS
  <2>2. \A c \in Children(h, a) : c \in Blocks /\ c \notin X /\ c # w
    BY <1>0, <1>1, <1>2, <1>4, <2>1
  <2>3. \A c \in Children(h, a) : g[c].block = h[c].block
    BY <1>6, <2>2
  <2> QED
    BY <1>0, <1>6, <2>1, <2>3, LinkedKept
<1>10. Linked(g, w)
  <2>1. P \subseteq Blocks /\ \A p \in P : p \notin X /\ p # w
    BY <1>0, <1>1, <1>5
  <2>2. \A p \in P : g[p] = h[p]
    BY <1>6, <2>1
  <2>3. /\ cell.string # NULL => g[cell.string].block = "string"
        /\ cell.members # NULL => g[cell.members].block = "mutator"
    BY <1>0, <2>2
  <2> QED
    BY <1>0, <1>6, <1>7, <2>3 DEF Linked
<1>11. HeapTyped(g)
  BY <1>0, <1>8, <1>9, <1>10 DEF HeapTyped
<1>12. UsedBlocks(g) = UsedBlocks(h) \ X
  <2>1. w \in UsedBlocks(h) /\ g[w] # Unused
    BY <1>0, <1>1, <1>6, <1>7 DEF Unused
  <2> QED
    BY <1>4, <1>6, <2>1 DEF UsedBlocks
<1>13. IsForest(Kids(g), UsedBlocks(g), R \ P)
  <2>1. PICK K, L, V : K = Kids(h) /\ L = Kids(g) /\ V = UsedBlocks(h)
    OBVIOUS
  <2>2. \A a \in Blocks : K[a] = Children(h, a) /\ L[a] = Children(g, a)
    BY <2>1 DEF Kids
  <2>3. \A a \in Blocks : L[a] = IF a \in X THEN {} ELSE IF a = w THEN P ELSE K[a]
    <3>1. ASSUME NEW a \in Blocks
          PROVE  L[a] = IF a \in X THEN {} ELSE IF a = w THEN P ELSE K[a]
      <4>1. CASE a \in X
        BY <1>8, <2>2, <4>1
      <4>2. CASE a = w
        BY <1>4, <1>8, <2>2, <4>2
      <4>3. CASE a # w /\ a \notin X
        BY <1>8, <2>2, <4>3
      <4> QED
        BY <4>1, <4>2, <4>3
    <3> QED
      BY <3>1
  <2>4. /\ \A a \in X : K[a] \subseteq X
        /\ \A x \in X : \E a \in X \cup {w} : x \in K[a]
        /\ K[w] \subseteq X
    <3>1. \A a \in X \cup {w} : K[a] = Children(h, a)
      BY <1>2, <1>4, <2>2
    <3> QED
      BY <1>4, <3>1
  <2>5. IsForest(K, V, R) /\ Supplanted(K, L, V, w, P, X)
    BY <1>0, <1>4, <2>1, <2>3, <2>4 DEF Supplanted
  <2>6. IsForest(L, V \ X, R \ P)
    BY <1>0, <2>5, ForestReplaced
  <2> QED
    BY <1>12, <2>1, <2>6
<1>14. \A r \in R : r # w => g[r] = h[r]
  BY <1>1, <1>5, <1>6
<1> QED
  BY <1>6, <1>11, <1>13, <1>14 DEF IsReplaced
----------------------------------------------------------------------------
(* Who has a block: of the functions, by their frames.                     *)

OfFrame(frame, i, b) ==
    (IF frame.kind # "into" /\ frame.v = b THEN {<<"frame", i>>} ELSE {})
    \cup (IF frame.kind = "into" /\ (frame.n = b \/ frame.name = b) THEN {<<"parts", i>>} ELSE {})
    \cup (IF frame.made = b THEN {<<"made", i>>} ELSE {})
OfStack(st, b) == UNION {OfFrame(st[i], i, b) : i \in DOMAIN st}
OfSlots(sl, b) == {<<"slot", s>> : s \in {t \in Slots : sl[t] = b}}
OfLost(lo, b) == {<<"lost", l>> : l \in lo \cap {b}}

LEMMA HoldersFacts ==
    ASSUME NEW sl, NEW lo, NEW st, NEW b
    PROVE  {<<"slot", s>> : s \in {t \in Slots : sl[t] = b}}
           \cup {<<"lost", l>> : l \in lo \cap {b}}
           \cup {<<"frame", i>> : i \in {j \in DOMAIN st : st[j].kind # "into" /\ st[j].v = b}}
           \cup {<<"parts", i>> : i \in {j \in DOMAIN st :
                    st[j].kind = "into" /\ b \in {st[j].n, st[j].name}}}
           \cup {<<"made", i>> : i \in {j \in DOMAIN st : st[j].made = b}}
           = OfSlots(sl, b) \cup OfLost(lo, b) \cup OfStack(st, b)
<1> DEFINE F == {<<"frame", i>> : i \in {j \in DOMAIN st : st[j].kind # "into" /\ st[j].v = b}}
           P == {<<"parts", i>> : i \in {j \in DOMAIN st :
                    st[j].kind = "into" /\ b \in {st[j].n, st[j].name}}}
           M == {<<"made", i>> : i \in {j \in DOMAIN st : st[j].made = b}}
<1>1. ASSUME NEW o \in OfStack(st, b)
      PROVE  o \in F \cup P \cup M
  <2>1. PICK i \in DOMAIN st : o \in OfFrame(st[i], i, b)
    BY DEF OfStack
  <2> QED
    BY <2>1 DEF OfFrame
<1>2. ASSUME NEW o \in F \cup P \cup M
      PROVE  o \in OfStack(st, b)
  <2>1. PICK i \in DOMAIN st : o \in OfFrame(st[i], i, b)
    BY DEF OfFrame
  <2> QED
    BY <2>1 DEF OfStack
<1>3. F \cup P \cup M = OfStack(st, b)
  BY <1>1, <1>2
<1> QED
  BY <1>3 DEF OfSlots, OfLost

LEMMA HoldersAre ==
    ASSUME NEW b
    PROVE  Holders(b) = OfSlots(slots, b) \cup OfLost(lost, b) \cup OfStack(stack, b)
BY HoldersFacts DEF Holders

LEMMA HoldersBecome ==
    ASSUME NEW b
    PROVE  Holders(b)' = OfSlots(slots', b) \cup OfLost(lost', b) \cup OfStack(stack', b)
BY HoldersFacts DEF Holders

LEMMA OwnersOfFrame ==
    ASSUME NEW frame, NEW i, NEW b
    PROVE  \A o \in OfFrame(frame, i, b) : o[2] = i /\ o[1] \in {"frame", "parts", "made"}
BY DEF OfFrame

LEMMA StackTop ==
    ASSUME NEW st \in Seq(Frames), st # <<>>
    PROVE  /\ Len(st) \in Nat /\ Len(st) >= 1 /\ DOMAIN st = 1..Len(st)
           /\ Last(st) = st[Len(st)] /\ Last(st) \in Frames
           /\ Front(st) \in Seq(Frames) /\ Len(Front(st)) = Len(st) - 1
           /\ DOMAIN Front(st) = 1..(Len(st) - 1)
           /\ \A i \in 1..(Len(st) - 1) : Front(st)[i] = st[i]
<1>1. Len(st) \in Nat /\ DOMAIN st = 1..Len(st) /\ st \in [1..Len(st) -> Frames]
  BY LenProperties
<1>2. Len(st) >= 1
  BY <1>1, EmptySeq
<1>3. /\ Front(st) \in Seq(Frames) /\ Len(Front(st)) = Len(st) - 1
      /\ \A i \in 1..(Len(st) - 1) : Front(st)[i] = st[i]
  <2>1. SubSeq(st, 1, Len(st) - 1) \in Seq(Frames)
    BY <1>1, <1>2, SubSeqProperties
  <2>2. /\ Len(SubSeq(st, 1, Len(st) - 1)) = Len(st) - 1
        /\ \A i \in 1..(Len(st) - 1) : SubSeq(st, 1, Len(st) - 1)[i] = st[i]
    BY <1>1, <1>2
  <2> QED
    BY <2>1, <2>2 DEF Front
<1>4. DOMAIN Front(st) = 1..(Len(st) - 1)
  BY <1>3
<1> QED
  BY <1>1, <1>2, <1>3, <1>4 DEF Last

IsGrown(st, f, t) ==
    /\ t \in Seq(Frames) /\ Len(t) = Len(st) + 1 /\ t # <<>>
    /\ Len(st) \in Nat /\ DOMAIN st = 1..Len(st) /\ DOMAIN t = 1..(Len(st) + 1)
    /\ \A i \in 1..Len(st) : t[i] = st[i]
    /\ t[Len(st) + 1] = f
    /\ \A b : OfStack(t, b) = OfStack(st, b) \cup OfFrame(f, Len(st) + 1, b)

LEMMA StackGrown ==
    ASSUME NEW st \in Seq(Frames), NEW f \in Frames
    PROVE  IsGrown(st, f, Append(st, f))
<1>0. PICK t : t = Append(st, f)
  OBVIOUS
<1>1. /\ t \in Seq(Frames) /\ Len(t) = Len(st) + 1 /\ t # <<>>
      /\ \A i \in 1..Len(st) : t[i] = st[i]
      /\ t[Len(st) + 1] = f
  BY <1>0, AppendProperties
<1>2. Len(st) \in Nat /\ DOMAIN st = 1..Len(st) /\ DOMAIN t = 1..(Len(st) + 1)
  BY <1>1
<1>3. ASSUME NEW b
      PROVE  OfStack(t, b) = OfStack(st, b) \cup OfFrame(f, Len(st) + 1, b)
  <2>1. ASSUME NEW o \in OfStack(t, b)
        PROVE  o \in OfStack(st, b) \cup OfFrame(f, Len(st) + 1, b)
    <3>1. PICK i \in DOMAIN t : o \in OfFrame(t[i], i, b)
      BY DEF OfStack
    <3>2. CASE i \in DOMAIN st
      BY <1>1, <1>2, <3>1, <3>2 DEF OfStack
    <3>3. CASE i \notin DOMAIN st
      <4>1. i = Len(st) + 1
        BY <1>2, <3>3
      <4> QED
        BY <1>1, <3>1, <4>1
    <3> QED
      BY <3>2, <3>3
  <2>2. ASSUME NEW o \in OfStack(st, b)
        PROVE  o \in OfStack(t, b)
    <3>1. PICK i \in DOMAIN st : o \in OfFrame(st[i], i, b)
      BY DEF OfStack
    <3>2. i \in DOMAIN t /\ t[i] = st[i]
      BY <1>1, <1>2
    <3> QED
      BY <3>1, <3>2 DEF OfStack
  <2>3. OfFrame(f, Len(st) + 1, b) \subseteq OfStack(t, b)
    <3>1. Len(st) + 1 \in DOMAIN t /\ t[Len(st) + 1] = f
      BY <1>1, <1>2
    <3> QED
      BY <3>1 DEF OfStack
  <2> QED
    BY <2>1, <2>2, <2>3
<1> QED
  BY <1>0, <1>1, <1>2, <1>3 DEF IsGrown

(* A frame other than the last is as before.                               *)
LEMMA StackOfFront ==
    ASSUME NEW st \in Seq(Frames), st # <<>>, NEW b
    PROVE  /\ OfStack(st, b) = OfStack(Front(st), b) \cup OfFrame(Last(st), Len(st), b)
           /\ \A o \in OfStack(Front(st), b) : o[2] # Len(st)
           /\ \A o \in OfStack(st, b) : o[1] \in {"frame", "parts", "made"}
<1>1. /\ Len(st) \in Nat /\ Len(st) >= 1 /\ DOMAIN st = 1..Len(st)
      /\ Last(st) = st[Len(st)]
      /\ DOMAIN Front(st) = 1..(Len(st) - 1)
      /\ \A i \in 1..(Len(st) - 1) : Front(st)[i] = st[i]
  BY StackTop
<1>2. ASSUME NEW o \in OfStack(st, b)
      PROVE  /\ o \in OfStack(Front(st), b) \cup OfFrame(Last(st), Len(st), b)
             /\ o[1] \in {"frame", "parts", "made"}
  <2>1. PICK i \in DOMAIN st : o \in OfFrame(st[i], i, b)
    BY DEF OfStack
  <2>2. CASE i = Len(st)
    BY <1>1, <2>1, <2>2, OwnersOfFrame
  <2>3. CASE i # Len(st)
    <3>1. i \in DOMAIN Front(st) /\ Front(st)[i] = st[i]
      BY <1>1, <2>3
    <3> QED
      BY <2>1, <3>1, OwnersOfFrame DEF OfStack
  <2> QED
    BY <2>2, <2>3
<1>3. ASSUME NEW o \in OfStack(Front(st), b)
      PROVE  o \in OfStack(st, b) /\ o[2] # Len(st)
  <2>1. PICK i \in DOMAIN Front(st) : o \in OfFrame(Front(st)[i], i, b)
    BY DEF OfStack
  <2>2. i \in DOMAIN st /\ Front(st)[i] = st[i] /\ i # Len(st)
    BY <1>1
  <2> QED
    BY <2>1, <2>2, OwnersOfFrame DEF OfStack
<1>4. OfFrame(Last(st), Len(st), b) \subseteq OfStack(st, b)
  <2>1. Len(st) \in DOMAIN st
    BY <1>1
  <2> QED
    BY <1>1, <2>1 DEF OfStack
<1> QED
  BY <1>2, <1>3, <1>4

(* Blocks come to a holder of their own, or to none.                       *)
LEMMA HoldersMoved ==
    ASSUME OneHolder, NEW D \in SUBSET Blocks, NEW G \in SUBSET Blocks, D \cap G = {},
           \A b \in Blocks : b \notin D /\ b \notin G => Holders(b)' = Holders(b),
           \A b \in D : Holders(b)' = {},
           \A b \in G : \E o : Holders(b)' = {o}
    PROVE  OneHolder' /\ Held' = (Held \ D) \cup G
<1>1. ASSUME NEW b \in Blocks, NEW o \in Holders(b)', NEW p \in Holders(b)'
      PROVE  o = p
  BY <1>1 DEF OneHolder
<1>2. OneHolder'
  BY <1>1 DEF OneHolder
<1>3. ASSUME NEW b \in Blocks
      PROVE  Holders(b)' # {} <=> (Holders(b) # {} /\ b \notin D) \/ b \in G
  OBVIOUS
<1> QED
  BY <1>2, <1>3 DEF Held
----------------------------------------------------------------------------
(* What survives a step.                                                   *)

LEMMA SlotHolds ==
    ASSUME NEW b
    PROVE  /\ \A s \in Slots : slots[s] = b => <<"slot", s>> \in Holders(b)
           /\ b \in lost => <<"lost", b>> \in Holders(b)
           /\ \A i \in DOMAIN stack : OfFrame(stack[i], i, b) \subseteq Holders(b)
<1>1. Holders(b) = OfSlots(slots, b) \cup OfLost(lost, b) \cup OfStack(stack, b)
  BY HoldersAre
<1>2. \A i \in DOMAIN stack : OfFrame(stack[i], i, b) \subseteq OfStack(stack, b)
  BY DEF OfStack
<1> QED
  BY <1>1, <1>2 DEF OfSlots, OfLost

LEMMA FrameOwn ==
    ASSUME MemoryInv, NEW i \in DOMAIN stack, NEW f, f = stack[i]
    PROVE  /\ f \in Frames /\ FrameIs(heap, slots, f, i, i = Len(stack))
           /\ f.kind # "into" => /\ <<"frame", i>> \in Holders(f.v)
                                 /\ f.n \in Children(heap, f.v)
           /\ f.kind = "into" => /\ <<"slot", f.slot>> \in Holders(f.v) /\ f.slot \in Slots
                                 /\ <<"parts", i>> \in Holders(f.n)
                                 /\ f.name # NULL => <<"parts", i>> \in Holders(f.name)
           /\ f.made # NULL => <<"made", i>> \in Holders(f.made)
<1>1. stack \in Seq(Frames) /\ FrameIs(heap, slots, f, i, i = Len(stack))
  BY DEF MemoryInv, StackRight
<1>2. f \in Frames
  BY <1>1
<1>3. \A b : OfFrame(f, i, b) \subseteq Holders(b)
  BY SlotHolds
<1>4. ASSUME f.kind # "into"
      PROVE  <<"frame", i>> \in Holders(f.v) /\ f.n \in Children(heap, f.v)
  <2>1. <<"frame", i>> \in OfFrame(f, i, f.v)
    BY <1>4 DEF OfFrame
  <2>2. heap[f.v].block = "variable" /\ heap[f.v].members = f.n /\ f.n \in Blocks
    BY <1>1, <1>2, <1>4 DEF FrameIs, Frames
  <2>3. f.n \in Children(heap, f.v)
    BY <2>2, ChildIs, NullFacts
  <2> QED
    BY <1>3, <2>1, <2>3
<1>5. ASSUME f.kind = "into"
      PROVE  /\ <<"slot", f.slot>> \in Holders(f.v) /\ f.slot \in Slots
             /\ <<"parts", i>> \in Holders(f.n)
             /\ f.name # NULL => <<"parts", i>> \in Holders(f.name)
  <2>1. slots[f.slot] = f.v /\ f.slot \in Slots
    BY <1>1, <1>5 DEF FrameIs
  <2>2. <<"parts", i>> \in OfFrame(f, i, f.n) /\ <<"parts", i>> \in OfFrame(f, i, f.name)
    BY <1>5 DEF OfFrame
  <2> QED
    BY <1>3, <2>1, <2>2, SlotHolds
<1>6. <<"made", i>> \in OfFrame(f, i, f.made)
  BY DEF OfFrame
<1> QED
  BY <1>1, <1>2, <1>3, <1>4, <1>5, <1>6

(* A holder that is known is the only one.                                 *)
LEMMA HeldBy ==
    ASSUME MemoryInv, NEW b \in Blocks, NEW o, o \in Holders(b)
    PROVE  Holders(b) = {o} /\ b \in Held /\ b \in UsedBlocks(heap)
<1>1. b \in Held /\ Holders(b) = {o}
  BY DEF MemoryInv, OneHolder, Held
<1>2. Held \subseteq UsedBlocks(heap)
  BY ForestKids DEF MemoryInv
<1> QED
  BY <1>1, <1>2

SparesFrame(X, D, m, g, f) ==
    /\ Frees(heap, X, Held, D, m)
    /\ \A a \in UsedBlocks(heap) : a \notin X /\ a # m => g[a] = heap[a]
    /\ m \in Blocks => heap[m].block = "mutator" /\ g[m].block = "mutator" /\ m \notin X
    /\ f.v \notin D /\ f.n \notin D /\ f.made \notin D /\ (f.kind = "into" => f.name \notin D)
    /\ f.n = m => \A key : Has(g, m, key) => Has(heap, m, key)

LEMMA FrameKept ==
    ASSUME MemoryInv, NEW i \in DOMAIN stack, NEW f,
           f = stack[i] \/ f = [stack[i] EXCEPT !.made = NULL],
           NEW X, NEW D, NEW m, NEW g, SparesFrame(X, D, m, g, f)
    PROVE  FrameIs(g, slots, f, i, i = Len(stack))
<1>0. /\ Frees(heap, X, Held, D, m)
      /\ \A a \in UsedBlocks(heap) : a \notin X /\ a # m => g[a] = heap[a]
      /\ m \in Blocks => heap[m].block = "mutator" /\ g[m].block = "mutator" /\ m \notin X
      /\ f.v \notin D /\ f.n \notin D /\ f.made \notin D /\ (f.kind = "into" => f.name \notin D)
      /\ f.n = m => \A key : Has(g, m, key) => Has(heap, m, key)
  BY DEF SparesFrame
<1>1. /\ f \in Frames /\ FrameIs(heap, slots, f, i, i = Len(stack))
      /\ f.kind # "into" => /\ <<"frame", i>> \in Holders(f.v)
                            /\ f.n \in Children(heap, f.v)
      /\ f.kind = "into" => /\ <<"slot", f.slot>> \in Holders(f.v)
                            /\ <<"parts", i>> \in Holders(f.n)
                            /\ f.name # NULL => <<"parts", i>> \in Holders(f.name)
      /\ f.made # NULL => <<"made", i>> \in Holders(f.made)
  <2>1. PICK w : w = stack[i]
    OBVIOUS
  <2>2. /\ w \in Frames /\ FrameIs(heap, slots, w, i, i = Len(stack))
        /\ w.kind # "into" => /\ <<"frame", i>> \in Holders(w.v)
                              /\ w.n \in Children(heap, w.v)
        /\ w.kind = "into" => /\ <<"slot", w.slot>> \in Holders(w.v)
                              /\ <<"parts", i>> \in Holders(w.n)
                              /\ w.name # NULL => <<"parts", i>> \in Holders(w.name)
        /\ w.made # NULL => <<"made", i>> \in Holders(w.made)
    BY <2>1, FrameOwn
  <2>3. CASE f = w
    BY <2>2, <2>3
  <2>4. CASE f = [w EXCEPT !.made = NULL]
    <3>1. /\ f \in Frames /\ f.kind = w.kind /\ f.v = w.v /\ f.n = w.n /\ f.name = w.name
          /\ f.slot = w.slot /\ f.todo = w.todo /\ f.made = NULL
      BY <2>2, <2>4 DEF Frames
    <3>2. FrameIs(heap, slots, f, i, i = Len(stack))
      <4>1. PICK last : last = (i = Len(stack))
        OBVIOUS
      <4>2. FrameIs(heap, slots, w, i, last)
        BY <2>2, <4>1
      <4>3. FrameIs(heap, slots, f, i, last)
        BY <3>1, <4>2 DEF FrameIs
      <4> QED
        BY <4>1, <4>3
    <3> QED
      BY <2>2, <3>1, <3>2
  <2> QED
    BY <2>1, <2>3, <2>4
<1>2. /\ f.v \in Blocks /\ f.n \in Blocks /\ f.name \in Blocks \cup {NULL}
      /\ f.made \in Blocks \cup {NULL} /\ f.kind \in {"compound", "variables", "copy", "into"}
  BY <1>0, <1>1 DEF Frames
<1>3. /\ X \subseteq UsedBlocks(heap)
      /\ \A x \in X : x \in Held => x \in D
      /\ \A x \in X : x \in D \/ heap[x].block = "variable" \/ \E a \in X : x \in Children(heap, a)
  BY <1>0 DEF Frees
<1>4. /\ UsedBlocks(heap) \subseteq Blocks
      /\ \A a \in Blocks : Children(heap, a) \subseteq UsedBlocks(heap)
      /\ \A a, c \in Blocks : \A b \in UsedBlocks(heap) :
             b \in Children(heap, a) /\ b \in Children(heap, c) => a = c
  BY <1>0, ForestKids DEF MemoryInv
<1>5. ASSUME NEW b \in Blocks, b \notin D, NEW o, o \in Holders(b)
      PROVE  b \notin X /\ b \in UsedBlocks(heap)
  BY <1>0, <1>3, <1>5, HeldBy
<1>6. f.v \notin X /\ f.v \in UsedBlocks(heap)
  <2>1. CASE f.kind = "into"
    BY <1>0, <1>1, <1>2, <1>5, <2>1
  <2>2. CASE f.kind # "into"
    BY <1>0, <1>1, <1>2, <1>5, <2>2
  <2> QED
    BY <1>0, <2>1, <2>2
<1>7. f.n \notin X /\ f.n \in UsedBlocks(heap) /\ heap[f.n].block = "mutator"
  <2>1. heap[f.n].block = "mutator"
    BY <1>0, <1>1 DEF FrameIs
  <2>2. CASE f.kind = "into"
    BY <1>0, <1>1, <1>2, <1>5, <2>1, <2>2
  <2>3. CASE f.kind # "into"
    <3>1. f.n \in Children(heap, f.v) /\ f.n \in UsedBlocks(heap) /\ f.n \notin D
      BY <1>0, <1>1, <1>2, <1>4, <2>3
    <3>2. ASSUME f.n \in X
          PROVE  FALSE
      <4>1. PICK a \in X : f.n \in Children(heap, a)
        BY <1>0, <1>3, <2>1, <3>1, <3>2
      <4>2. a = f.v
        BY <1>0, <1>2, <1>3, <1>4, <3>1, <4>1
      <4> QED
        BY <1>0, <1>6, <4>1, <4>2
    <3> QED
      BY <1>0, <2>1, <3>1, <3>2
  <2> QED
    BY <1>0, <2>2, <2>3
<1>8. f.made # NULL => f.made \notin X /\ f.made \in UsedBlocks(heap)
                       /\ heap[f.made].block = "variable"
  BY <1>0, <1>1, <1>2, <1>5 DEF FrameIs
<1>9. f.kind = "into" /\ f.name # NULL => f.name \notin X /\ f.name \in UsedBlocks(heap)
                                          /\ heap[f.name].block = "string"
  BY <1>0, <1>1, <1>2, <1>5 DEF FrameIs
<1>10. ASSUME NEW a \in UsedBlocks(heap), a \notin X, heap[a].block # "mutator"
       PROVE  g[a] = heap[a]
  BY <1>0, <1>4, <1>10
<1>11. heap[f.v].block = "variable"
  BY <1>0, <1>1 DEF FrameIs
<1>12. g[f.v] = heap[f.v]
  BY <1>0, <1>6, <1>10, <1>11
<1>13. f.made # NULL => g[f.made] = heap[f.made]
  BY <1>0, <1>8, <1>10
<1>14. f.kind = "into" /\ f.name # NULL => g[f.name] = heap[f.name]
  BY <1>0, <1>9, <1>10
<1>15. g[f.n].block = "mutator" /\ \A key : Has(g, f.n, key) => Has(heap, f.n, key)
  <2>1. CASE f.n = m
    BY <1>0, <1>2, <2>1
  <2>2. CASE f.n # m
    BY <1>0, <1>7, <2>2 DEF Has, Entries
  <2> QED
    BY <1>0, <2>1, <2>2
<1> QED
  BY <1>0, <1>1, <1>12, <1>13, <1>14, <1>15 DEF FrameIs

LEMMA PointersKept ==
    ASSUME MemoryInv, NEW X, NEW D, NEW m, Frees(heap, X, Held, D, m),
           NEW g, \A a \in UsedBlocks(heap) : a \notin X /\ a # m => g[a] = heap[a],
           m \in Blocks => heap[m].block = "mutator",
           NEW b \in Blocks, NEW o, o \in Holders(b), b \notin D, heap[b].block = "variable"
    PROVE  g[b].block = "variable"
<1>1. b \notin X /\ b \in UsedBlocks(heap)
  BY HeldBy DEF Frees
<1> QED
  BY <1>1

(* What is kept has the program for owner.                                 *)
LEMMA KeptFacts ==
    ASSUME MemoryInv, NEW O \in SUBSET Blocks, IsKept(O)
    PROVE  /\ Upward(heap, O) /\ O \subseteq UsedBlocks(heap)
           /\ \A b \in O : \A o \in Holders(b) : o[1] = "slot"
           /\ \A i \in DOMAIN stack : stack[i].n \notin O /\ stack[i].made \notin O
<1>1. /\ UsedBlocks(heap) \subseteq Blocks /\ Held \subseteq UsedBlocks(heap)
      /\ \A a \in Blocks : Children(heap, a) \subseteq UsedBlocks(heap)
      /\ \A a, c \in Blocks : \A b \in UsedBlocks(heap) :
             b \in Children(heap, a) /\ b \in Children(heap, c) => a = c
      /\ \A a \in Blocks, r \in Held : r \notin Children(heap, a)
  BY ForestKids DEF MemoryInv
<1>2. \A x \in O : \/ \E s \in Slots : slots[s] = x
                   \/ \E a \in O : x \in Children(heap, a)
  BY DEF IsKept
<1>3. ASSUME NEW x \in O, NEW s \in Slots, slots[s] = x
      PROVE  x \in Held /\ Holders(x) = {<<"slot", s>>}
  BY <1>3, SlotHolds, HeldBy
<1>4. Upward(heap, O)
  <2>1. SUFFICES ASSUME NEW a \in Blocks, NEW b \in Children(heap, a), b \in O
                 PROVE  a \in O
    BY DEF Upward
  <2>2. b \in UsedBlocks(heap) /\ b \notin Held
    BY <1>1, <2>1
  <2>3. PICK c \in O : b \in Children(heap, c)
    BY <1>2, <1>3, <2>1, <2>2
  <2> QED
    BY <1>1, <2>1, <2>2, <2>3
<1>5. O \subseteq UsedBlocks(heap)
  BY <1>1, <1>2, <1>3
<1>6. ASSUME NEW b \in O, NEW o \in Holders(b)
      PROVE  o[1] = "slot"
  <2>1. b \in Held
    BY <1>6 DEF Held
  <2>2. PICK s \in Slots : slots[s] = b
    BY <1>1, <1>2, <2>1
  <2>3. o = <<"slot", s>>
    BY <1>3, <1>6, <2>2
  <2> QED
    BY <2>3
<1>7. ASSUME NEW i \in DOMAIN stack
      PROVE  stack[i].n \notin O /\ stack[i].made \notin O
  <2>1. PICK f : f = stack[i]
    OBVIOUS
  <2>2. /\ f \in Frames
        /\ f.kind # "into" => /\ <<"frame", i>> \in Holders(f.v)
                              /\ f.n \in Children(heap, f.v)
        /\ f.kind = "into" => <<"parts", i>> \in Holders(f.n)
        /\ f.made # NULL => <<"made", i>> \in Holders(f.made)
    BY <2>1, FrameOwn
  <2>3. f.v \in Blocks
    BY <2>2 DEF Frames
  <2>4. ASSUME NEW t, t # "slot", NEW b, <<t, i>> \in Holders(b)
        PROVE  b \notin O
    <3>1. <<t, i>>[1] # "slot"
      BY <2>4
    <3> QED
      BY <1>6, <2>4, <3>1
  <2>5. f.n \notin O
    <3>1. CASE f.kind = "into"
      BY <2>2, <2>4, <3>1
    <3>2. CASE f.kind # "into"
      <4>1. f.v \notin O
        BY <2>2, <2>4, <3>2
      <4> QED
        BY <1>4, <2>2, <2>3, <3>2, <4>1 DEF Upward
    <3> QED
      BY <3>1, <3>2
  <2>6. f.made \notin O
    BY <2>2, <2>4, NullFacts
  <2> QED
    BY <2>1, <2>5, <2>6
<1> QED
  BY <1>4, <1>5, <1>6, <1>7

LEMMA KeptStep ==
    ASSUME MemoryInv, NEW O \in SUBSET Blocks, IsKept(O),
           NEW X, NEW D, NEW m, Frees(heap, X, Held, D, m), D \cap O = {}, m \notin O,
           \A a \in UsedBlocks(heap) : a \notin X /\ a # m => heap'[a] = heap[a],
           slots' = slots,
           \A i \in DOMAIN stack' : stack'[i].kind # "compound" =>
               \A j \in DOMAIN stack'[i].todo :
                   /\ stack'[i].todo[j].from \in O
                   /\ heap[stack'[i].todo[j].from].block = "variable"
    PROVE  IsKept(O)'
<1>1. Upward(heap, O) /\ O \subseteq UsedBlocks(heap)
  BY KeptFacts
<1>2. X \cap O = {}
  BY <1>1 DEF Frees
<1>3. \A a \in O : heap'[a] = heap[a]
  BY <1>1, <1>2
<1>4. \A a \in O : Children(heap', a) = Children(heap, a)
  BY <1>3, ChildrenSame
<1>5. /\ \A a \in O : Children(heap, a) \subseteq O
      /\ \A x \in O : \/ \E s \in Slots : slots[s] = x
                      \/ \E a \in O : x \in Children(heap, a)
  BY DEF IsKept
<1>6. /\ \A a \in O : Children(heap', a) \subseteq O
      /\ \A x \in O : \/ \E s \in Slots : slots'[s] = x
                      \/ \E a \in O : x \in Children(heap', a)
  BY <1>4, <1>5
<1>7. \A i \in DOMAIN stack' : stack'[i].kind # "compound" =>
          \A j \in DOMAIN stack'[i].todo :
              /\ stack'[i].todo[j].from \in O
              /\ heap'[stack'[i].todo[j].from].block = "variable"
  BY <1>3
<1> QED
  BY <1>6, <1>7 DEF IsKept

(* Blocks that are made and then not freed make no difference.             *)
MakesAndFrees(R, h, P, value, X, n) ==
    /\ HeapTyped(heap) /\ IsForest(Kids(heap), UsedBlocks(heap), R)
    /\ IsAllocated(h, P, value)
    /\ Children(h, NewVariable) = P /\ \A p \in P : Children(h, p) = {}
    /\ IsForest(Kids(h), UsedBlocks(h), R \cup {NewVariable})
    /\ n \in UsedBlocks(heap) /\ Frees(h, X, R \cup {NewVariable}, {}, n)

LEMMA FreesOfOld ==
    ASSUME NEW R, NEW h, NEW P, NEW value, NEW X, NEW n, MakesAndFrees(R, h, P, value, X, n)
    PROVE  Frees(heap, X, R, {}, n) /\ NewVariable \notin X /\ X \cap P = {}
<1>0. /\ HeapTyped(heap) /\ IsForest(Kids(heap), UsedBlocks(heap), R)
      /\ IsAllocated(h, P, value)
      /\ Children(h, NewVariable) = P /\ \A p \in P : Children(h, p) = {}
      /\ IsForest(Kids(h), UsedBlocks(h), R \cup {NewVariable})
      /\ n \in UsedBlocks(heap) /\ Frees(h, X, R \cup {NewVariable}, {}, n)
  BY DEF MakesAndFrees
<1>1. PICK v : v = NewVariable
  OBVIOUS
<1>2. /\ v \in Blocks \ P /\ heap[v] = Unused
      /\ P \subseteq Blocks /\ \A p \in P : heap[p] = Unused
      /\ \A b \in Blocks : b \notin P /\ b # v => h[b] = heap[b]
      /\ \A p \in P : h[p].block = "string" \/ h[p] = MutatorOf(<<>>)
  BY <1>0, <1>1 DEF IsAllocated
<1>3. /\ X \subseteq UsedBlocks(h)
      /\ \A x \in X : x \notin R \cup {v}
      /\ \A x \in X : h[x].block = "variable" \/ \E a \in X : x \in Children(h, a)
      /\ \A O \in SUBSET Blocks : Upward(h, O) /\ n \notin O => X \cap O = {}
  BY <1>0, <1>1 DEF Frees
<1>4. /\ UsedBlocks(h) \subseteq Blocks
      /\ \A a, c \in Blocks : \A b \in UsedBlocks(h) :
             b \in Children(h, a) /\ b \in Children(h, c) => a = c
  BY <1>0, ForestKids
<1>5. /\ UsedBlocks(heap) \subseteq Blocks
      /\ \A a \in Blocks : Children(heap, a) \subseteq UsedBlocks(heap)
  BY <1>0, ForestKids
<1>6. v \notin X
  BY <1>3
<1>7. ASSUME NEW x \in X, x \in P
      PROVE  FALSE
  <2>1. h[x].block # "variable"
    BY <1>2, <1>7 DEF MutatorOf
  <2>2. PICK a \in X : x \in Children(h, a)
    BY <1>3, <2>1
  <2>3. x \in Children(h, v) /\ x \in UsedBlocks(h) /\ a \in Blocks
    BY <1>0, <1>1, <1>3, <1>4, <1>7, <2>2
  <2>4. a = v
    BY <1>2, <1>4, <2>2, <2>3
  <2> QED
    BY <1>6, <2>4
<1>8. \A x \in X : x \in Blocks /\ x # v /\ x \notin P
  BY <1>3, <1>4, <1>6, <1>7
<1>9. \A x \in X : h[x] = heap[x] /\ Children(h, x) = Children(heap, x)
  BY <1>2, <1>8, ChildrenSame
<1>10. X \subseteq UsedBlocks(heap)
  <2>1. \A x \in X : h[x] # Unused
    BY <1>3 DEF UsedBlocks
  <2> QED
    BY <1>8, <1>9, <2>1 DEF UsedBlocks
<1>11. \A x \in X : heap[x].block = "variable" \/ \E a \in X : x \in Children(heap, a)
  BY <1>3, <1>9
<1>12. ASSUME NEW O \in SUBSET Blocks, Upward(heap, O), n \notin O
       PROVE  X \cap O = {}
  <2>1. PICK Z : Z = O \cap UsedBlocks(heap)
    OBVIOUS
  <2>2. Upward(h, Z)
    <3>1. SUFFICES ASSUME NEW a \in Blocks, NEW b \in Children(h, a), b \in Z
                   PROVE  a \in Z
      BY DEF Upward
    <3>2. b \in Blocks /\ b \in O /\ heap[b] # Unused
      BY <2>1, <3>1 DEF UsedBlocks
    <3>3. b \notin P
      BY <1>2, <3>2
    <3>4. a # v /\ a \notin P
      BY <1>0, <1>1, <3>1, <3>3
    <3>5. h[a] = heap[a] /\ Children(h, a) = Children(heap, a)
      BY <1>2, <3>4, ChildrenSame
    <3>6. a \in O
      BY <1>12, <3>1, <3>2, <3>5 DEF Upward
    <3>7. heap[a] # Unused
      BY <3>1, <3>5, ChildIs DEF Unused
    <3> QED
      BY <2>1, <3>6, <3>7 DEF UsedBlocks
  <2>3. Z \in SUBSET Blocks /\ n \notin Z
    BY <1>0, <1>12, <2>1
  <2> QED
    BY <1>0, <1>3, <1>10, <2>1, <2>2, <2>3
<1>13. Frees(heap, X, R, {}, n)
  BY <1>3, <1>10, <1>11, <1>12 DEF Frees
<1> QED
  BY <1>1, <1>6, <1>7, <1>13

(* What a copy is made of.                                                 *)
LEMMA SourceFacts ==
    ASSUME HeapTyped(heap), NEW v \in Blocks, heap[v].block = "variable"
    PROVE  /\ ValueRight(Source(v)) /\ Source(v).todo \in Seq(Copied)
           /\ \A j \in DOMAIN Source(v).todo :
                  \E m \in Children(heap, v) :
                      /\ Source(v).todo[j].from \in Children(heap, m)
                      /\ heap[Source(v).todo[j].from].block = "variable"
<1>1. /\ heap[v].type \in {"INT", "STRING", "COMPOUND"}
      /\ heap[v].string \in Blocks \cup {NULL} /\ heap[v].members \in Blocks \cup {NULL}
      /\ Linked(heap, v)
  BY CellFacts
<1>2. TextOf(v) \in Texts \cup {NULL} /\ (heap[v].string # NULL => TextOf(v) \in Texts)
  <2>1. CASE heap[v].string = NULL
    BY <2>1 DEF TextOf
  <2>2. CASE heap[v].string # NULL
    <3>1. heap[v].string \in Blocks /\ heap[heap[v].string].block = "string"
      BY <1>1, <2>2 DEF Linked
    <3>2. heap[heap[v].string].text \in Texts
      BY <3>1, CellFacts
    <3> QED
      BY <2>2, <3>2 DEF TextOf
  <2> QED
    BY <2>1, <2>2
<1>3. ValueRight(Source(v))
  BY <1>1, <1>2 DEF ValueRight, Source, Linked
<1>4. Source(v).todo = Todo(v)
  BY DEF Source
<1>5. CASE heap[v].type # "COMPOUND"
  <2>1. EntriesOf(v) = <<>>
    BY <1>5 DEF EntriesOf
  <2>2. Todo(v) = <<>>
    BY <2>1 DEF Todo
  <2> QED
    BY <1>3, <1>4, <2>2
<1>6. CASE heap[v].type = "COMPOUND"
  <2>1. PICK m : m = heap[v].members
    OBVIOUS
  <2>2. m \in Blocks /\ heap[m].block = "mutator" /\ m \in Children(heap, v)
    BY <1>1, <1>6, <2>1, ChildIs DEF Linked
  <2>3. PICK e : e = heap[m].entries
    OBVIOUS
  <2>4. EntriesOf(v) = e
    BY <1>6, <2>1, <2>3 DEF EntriesOf
  <2>5. /\ e \in Seq(Fields) /\ \A j \in DOMAIN e : heap[e[j].value].block = "variable"
        /\ Children(heap, m) = {e[j].value : j \in DOMAIN e}
    BY <2>2, <2>3, CellFacts, ChildIs DEF Linked
  <2>6. Todo(v) = [j \in DOMAIN e |-> [key |-> e[j].key, from |-> e[j].value]]
    BY <2>4 DEF Todo
  <2>7. \A j \in DOMAIN e : e[j].key \in Keys /\ e[j].value \in Blocks
    <3>1. \A j \in DOMAIN e : e[j] \in Fields
      BY <2>5
    <3> QED
      BY <3>1 DEF Fields
  <2>8. Todo(v) \in Seq(Copied)
    <3>1. \A j \in DOMAIN e : [key |-> e[j].key, from |-> e[j].value] \in Copied
      BY <2>7 DEF Copied
    <3>2. DOMAIN e = 1..Len(e) /\ Len(e) \in Nat
      BY <2>5
    <3> QED
      BY <2>6, <3>1, <3>2
  <2>9. \A j \in DOMAIN Todo(v) : Todo(v)[j].from = e[j].value /\ j \in DOMAIN e
    BY <2>6
  <2> QED
    BY <1>3, <1>4, <2>2, <2>5, <2>8, <2>9
<1> QED
  BY <1>5, <1>6
----------------------------------------------------------------------------
(* Steps that allocate.                                                    *)

LEMMA ValuesRight ==
    /\ \A value \in Scalars : ValueRight(value)
    /\ \A value \in Empties : ValueRight(value) /\ value.type = "COMPOUND"
BY DEF Scalars, Empties, Value, ValueRight, Texts

LEMMA InvFacts ==
    ASSUME MemoryInv
    PROVE  /\ HeapTyped(heap) /\ IsForest(Kids(heap), UsedBlocks(heap), Held)
           /\ UsedBlocks(heap) \subseteq Blocks /\ Held \subseteq UsedBlocks(heap)
           /\ stack \in Seq(Frames) /\ slots \in [Slots -> Blocks \cup {NULL}]
           /\ \A b \in Blocks : b \notin Held => Holders(b) = {}
           /\ \A b \in Blocks : heap[b] = Unused => b \notin Held /\ b \notin UsedBlocks(heap)
<1>1. /\ HeapTyped(heap) /\ IsForest(Kids(heap), UsedBlocks(heap), Held)
      /\ stack \in Seq(Frames) /\ slots \in [Slots -> Blocks \cup {NULL}]
  BY DEF MemoryInv, StackRight, PointersRight
<1>2. UsedBlocks(heap) \subseteq Blocks /\ Held \subseteq UsedBlocks(heap)
  BY <1>1, ForestKids
<1>3. \A b \in Blocks : heap[b] = Unused => b \notin UsedBlocks(heap)
  BY DEF UsedBlocks
<1> QED
  BY <1>1, <1>2, <1>3 DEF Held

IsNew(h, P, value) ==
    /\ IsAllocated(h, P, value) /\ HeapTyped(h)
    /\ NewVariable \in Blocks /\ NewVariable \notin UsedBlocks(heap)
    /\ \A a \in UsedBlocks(heap) : h[a] = heap[a]

LEMMA NewFacts ==
    ASSUME MemoryInv, NEW value, ValueRight(value), HasRoom(value)
    PROVE  \E h, P : /\ h = HeapWith(value) /\ IsNew(h, P, value)
                     /\ Children(h, NewVariable) = P /\ \A p \in P : Children(h, p) = {}
                     /\ IsForest(Kids(h), UsedBlocks(h), Held \cup {NewVariable})
<1>1. HeapTyped(heap) /\ IsForest(Kids(heap), UsedBlocks(heap), Held)
  BY InvFacts
<1>2. PICK h, P : /\ h = HeapWith(value) /\ IsAllocated(h, P, value)
                  /\ HeapTyped(h)
                  /\ Children(h, NewVariable) = P /\ \A p \in P : Children(h, p) = {}
                  /\ IsForest(Kids(h), UsedBlocks(h), Held \cup {NewVariable})
  BY <1>1, AllocFacts, Zenon
<1>3. /\ NewVariable \in Blocks /\ NewVariable \notin UsedBlocks(heap)
      /\ \A a \in UsedBlocks(heap) : h[a] = heap[a]
  <2>1. /\ NewVariable \in Blocks /\ heap[NewVariable] = Unused
        /\ P \subseteq Blocks /\ \A p \in P : heap[p] = Unused
        /\ \A b \in Blocks : b \notin P /\ b # NewVariable => h[b] = heap[b]
    BY <1>2 DEF IsAllocated
  <2> QED
    BY <2>1 DEF UsedBlocks
<1>4. IsNew(h, P, value)
  BY <1>2, <1>3 DEF IsNew
<1> QED
  BY <1>2, <1>4, Zenon

(* The new variable has a holder.                                          *)
LEMMA NewHeld ==
    ASSUME MemoryInv, NEW value, ValueRight(value), HasRoom(value), heap' = HeapWith(value),
           NEW o, \A b \in Blocks : Holders(b)' = IF b = NewVariable THEN {o} ELSE Holders(b)
    PROVE  /\ OneHolder' /\ Held' = Held \cup {NewVariable}
           /\ IsForest(Kids(heap'), UsedBlocks(heap'), Held')
           /\ \E P : IsNew(heap', P, value)
<1>1. PICK P : /\ IsNew(heap', P, value)
               /\ IsForest(Kids(heap'), UsedBlocks(heap'), Held \cup {NewVariable})
  BY NewFacts, Zenon
<1>2. NewVariable \in Blocks
  BY <1>1 DEF IsNew
<1>3. OneHolder' /\ Held' = (Held \ {}) \cup {NewVariable}
  <2>1. OneHolder
    BY DEF MemoryInv
  <2>2. PICK D, G : D = {} /\ G = {NewVariable}
    OBVIOUS
  <2>3. /\ D \in SUBSET Blocks /\ G \in SUBSET Blocks /\ D \cap G = {}
        /\ \A b \in Blocks : b \notin D /\ b \notin G => Holders(b)' = Holders(b)
        /\ \A b \in D : Holders(b)' = {}
        /\ \A b \in G : Holders(b)' = {o}
    BY <1>2, <2>2
  <2> QED
    BY <2>1, <2>2, <2>3, HoldersMoved
<1> QED
  BY <1>1, <1>3

(* A slot is given a new variable.                                         *)
GiveSlot(s, value) ==
    /\ Idle /\ slots[s] = NULL /\ HasRoom(value)
    /\ heap' = HeapWith(value) /\ slots' = [slots EXCEPT ![s] = NewVariable]
    /\ UNCHANGED <<stack, failing, lost>>

LEMMA PointersNew ==
    ASSUME MemoryInv, NEW h, \A a \in UsedBlocks(heap) : h[a] = heap[a]
    PROVE  /\ \A s \in Slots : slots[s] # NULL => h[slots[s]].block = "variable"
           /\ \A l \in lost : h[l].block = "variable"
<1>1. /\ slots \in [Slots -> Blocks \cup {NULL}]
      /\ \A s \in Slots : slots[s] # NULL => heap[slots[s]].block = "variable"
      /\ lost \subseteq Blocks /\ \A l \in lost : heap[l].block = "variable"
  BY DEF MemoryInv, PointersRight
<1>2. ASSUME NEW b \in Blocks, heap[b].block = "variable"
      PROVE  b \in UsedBlocks(heap)
  BY <1>2 DEF UsedBlocks, Unused
<1> QED
  BY <1>1, <1>2

LEMMA GiveSlotStep ==
    ASSUME MemoryInv, NEW s \in Slots, NEW value, ValueRight(value), GiveSlot(s, value)
    PROVE  MemoryInv'
<1>1. /\ stack = <<>> /\ slots[s] = NULL /\ HasRoom(value)
      /\ heap' = HeapWith(value) /\ slots' = [slots EXCEPT ![s] = NewVariable]
      /\ stack' = stack /\ failing' = failing /\ lost' = lost
  BY DEF GiveSlot, Idle
<1>2. PICK P : IsNew(heap', P, value)
  BY <1>1, NewFacts, Zenon
<1>3. PICK v : v = NewVariable
  OBVIOUS
<1>4. /\ v \in Blocks /\ v \notin UsedBlocks(heap) /\ HeapTyped(heap')
      /\ \A a \in UsedBlocks(heap) : heap'[a] = heap[a]
      /\ heap'[v].block = "variable"
  BY <1>2, <1>3 DEF IsNew, IsAllocated
<1>5. slots \in [Slots -> Blocks \cup {NULL}] /\ Holders(v) = {}
  BY <1>4, InvFacts
<1>6. ASSUME NEW b \in Blocks
      PROVE  Holders(b)' = IF b = v THEN {<<"slot", s>>} ELSE Holders(b)
  <2>1. OfSlots(slots', b) = OfSlots(slots, b) \cup (IF b = v THEN {<<"slot", s>>} ELSE {})
    BY <1>1, <1>3, <1>5, NullFacts DEF OfSlots
  <2>2. Holders(b)' = Holders(b) \cup (IF b = v THEN {<<"slot", s>>} ELSE {})
    BY <1>1, <2>1, HoldersAre, HoldersBecome
  <2> QED
    BY <1>5, <2>2
<1>7. OneHolder' /\ IsForest(Kids(heap'), UsedBlocks(heap'), Held')
  BY <1>1, <1>3, <1>6, NewHeld
<1>8. PointersRight'
  <2>1. lost \subseteq Blocks
    BY DEF MemoryInv, PointersRight
  <2>2. \A t \in Slots : slots'[t] # NULL => heap'[slots'[t]].block = "variable"
    BY <1>1, <1>3, <1>4, <1>5, PointersNew
  <2>3. \A l \in lost : heap'[l].block = "variable"
    BY <1>4, PointersNew
  <2>4. slots' \in [Slots -> Blocks \cup {NULL}]
    BY <1>1, <1>3, <1>4, <1>5
  <2> QED
    BY <1>1, <2>1, <2>2, <2>3, <2>4 DEF PointersRight
<1>9. StackRight'
  <2>1. failing \in BOOLEAN /\ stack \in Seq(Frames) /\ ~failing
    BY <1>1 DEF MemoryInv, StackRight
  <2>2. stack' = <<>> /\ stack' \in Seq(Frames) /\ failing' \in BOOLEAN /\ ~failing'
    BY <1>1, <2>1
  <2> QED
    BY <2>2 DEF StackRight
<1>10. SourcesKept'
  BY <1>1 DEF SourcesKept
<1> QED
  BY <1>4, <1>7, <1>8, <1>9, <1>10 DEF MemoryInv

(* What the program has, with all that is beneath.                         *)
LEMMA SourcesOf ==
    ASSUME MemoryInv
    PROVE  \E O \in SUBSET Blocks :
               /\ \A a \in O : Children(heap, a) \subseteq O
               /\ \A x \in O : \/ \E s \in Slots : slots[s] = x
                               \/ \E a \in O : x \in Children(heap, a)
               /\ \A s \in InUse : slots[s] \in O /\ slots[s] \in Blocks
                                   /\ heap[slots[s]].block = "variable"
<1>1. PICK f : f = Beneath(heap)
  OBVIOUS
<1>2. /\ IsForest(Kids(heap), UsedBlocks(heap), Held) /\ UsedBlocks(heap) \subseteq Blocks
      /\ slots \in [Slots -> Blocks \cup {NULL}]
  BY InvFacts
<1>3. \A v \in Blocks : /\ f[v] \subseteq Blocks /\ Children(heap, v) \subseteq f[v]
                        /\ \A a \in f[v] : Children(heap, a) \subseteq f[v]
                        /\ \A x \in f[v] : \E a \in f[v] \cup {v} : x \in Children(heap, a)
  <2>1. SUFFICES ASSUME NEW v \in Blocks
                 PROVE  /\ f[v] \subseteq Blocks /\ Children(heap, v) \subseteq f[v]
                        /\ \A a \in f[v] : Children(heap, a) \subseteq f[v]
                        /\ \A x \in f[v] : \E a \in f[v] \cup {v} : x \in Children(heap, a)
    OBVIOUS
  <2>2. PICK B \in SUBSET UsedBlocks(heap) :
            /\ B = Beneath(heap)[v]
            /\ Children(heap, v) \subseteq B /\ \A a \in B : Children(heap, a) \subseteq B
            /\ \A x \in B : \E a \in B \cup {v} : x \in Children(heap, a)
            /\ v \notin B
            /\ \A x \in B : x \notin Held
    BY <1>2, BeneathFacts
  <2> QED
    BY <1>1, <1>2, <2>2
<1>4. \A s \in InUse : s \in Slots /\ slots[s] \in Blocks /\ heap[slots[s]].block = "variable"
  BY <1>2 DEF InUse, MemoryInv, PointersRight
<1>5. PICK O : O = UNION {{slots[s]} \cup f[slots[s]] : s \in InUse}
  OBVIOUS
<1>6. O \in SUBSET Blocks
  BY <1>3, <1>4, <1>5
<1>7. \A a \in O : Children(heap, a) \subseteq O
  <2>1. SUFFICES ASSUME NEW a \in O
                 PROVE  Children(heap, a) \subseteq O
    OBVIOUS
  <2>2. PICK s \in InUse : a \in {slots[s]} \cup f[slots[s]]
    BY <1>5
  <2>3. Children(heap, a) \subseteq f[slots[s]]
    BY <1>3, <1>4, <2>2
  <2> QED
    BY <1>5, <2>3
<1>8. ASSUME NEW x \in O
      PROVE  \/ \E s \in Slots : slots[s] = x
             \/ \E a \in O : x \in Children(heap, a)
  <2>1. PICK s \in InUse : x \in {slots[s]} \cup f[slots[s]]
    BY <1>5
  <2>2. CASE x = slots[s]
    BY <1>4, <2>2
  <2>3. CASE x \in f[slots[s]]
    <3>1. PICK a \in f[slots[s]] \cup {slots[s]} : x \in Children(heap, a)
      BY <1>3, <1>4, <2>3
    <3>2. a \in O
      BY <1>5, <3>1
    <3> QED
      BY <3>1, <3>2
  <2> QED
    BY <2>1, <2>2, <2>3
<1>9. \A s \in InUse : slots[s] \in O /\ slots[s] \in Blocks
                         /\ heap[slots[s]].block = "variable"
  BY <1>4, <1>5
<1> QED
  BY <1>6, <1>7, <1>8, <1>9

FreesNothing == Frees(heap, {}, Held, {}, NULL)

LEMMA NothingFreed == FreesNothing
BY DEF Frees, FreesNothing

TodoRight(kind, todo) ==
    /\ kind = "compound" => todo \in Seq(Given)
    /\ kind # "compound" =>
           /\ todo \in Seq(Copied)
           /\ \A j \in DOMAIN todo :
                  /\ heap[todo[j].from].block = "variable"
                  /\ \A O : (\A t \in InUse : slots[t] \in O)
                            /\ (\A a \in O : Children(heap, a) \subseteq O)
                                => todo[j].from \in O

(* A function with members starts.                                         *)
LEMMA BeginStep ==
    ASSUME MemoryInv, NEW kind, kind \in {"compound", "variables", "copy"}, NEW s \in Slots,
           NEW value, ValueRight(value), value.type = "COMPOUND", NEW todo,
           Begin(kind, s, value, todo),
           TodoRight(kind, todo)
    PROVE  MemoryInv'
<1>1. /\ stack = <<>> /\ slots[s] = NULL /\ HasRoom(value) /\ heap' = HeapWith(value)
      /\ stack' = <<Frame(kind, s, NewVariable, NewPart, NULL, todo)>>
      /\ slots' = slots /\ failing' = failing /\ lost' = lost
  BY DEF Begin, Idle
<1>2. PICK P : IsNew(heap', P, value)
  BY <1>1, NewFacts, Zenon
<1>3. PICK v, p, f : v = NewVariable /\ p = NewPart
                     /\ f = Frame(kind, s, NewVariable, NewPart, NULL, todo)
  OBVIOUS
<1>4. /\ v \in Blocks /\ v \notin UsedBlocks(heap) /\ HeapTyped(heap')
      /\ \A a \in UsedBlocks(heap) : heap'[a] = heap[a]
      /\ heap'[v].block = "variable" /\ heap'[v].members = p
      /\ p \in Blocks /\ heap'[p] = MutatorOf(<<>>)
  BY <1>2, <1>3 DEF IsNew, IsAllocated
<1>5. /\ stack' = <<f>> /\ f.kind = kind /\ f.slot = s /\ f.v = v /\ f.n = p
      /\ f.name = NULL /\ f.todo = todo /\ f.made = NULL
  BY <1>1, <1>3 DEF Frame
<1>6. f \in Frames
  <2>1. todo \in Seq(Given) \cup Seq(Copied)
    BY DEF TodoRight
  <2> QED
    BY <1>3, <1>4, <2>1 DEF Frames, Frame
<1>7. stack' \in Seq(Frames) /\ Len(stack') = 1 /\ DOMAIN stack' = {1} /\ stack'[1] = f
  BY <1>5, <1>6
<1>8. ASSUME NEW b \in Blocks
      PROVE  Holders(b)' = IF b = v THEN {<<"frame", 1>>} ELSE Holders(b)
  <2>1. OfStack(stack, b) = {}
    BY <1>1 DEF OfStack
  <2>2. OfStack(stack', b) = OfFrame(f, 1, b)
    BY <1>7 DEF OfStack
  <2>3. OfFrame(f, 1, b) = IF b = v THEN {<<"frame", 1>>} ELSE {}
    BY <1>5, NullFacts DEF OfFrame
  <2>4. Holders(b) = OfSlots(slots, b) \cup OfLost(lost, b)
    BY <2>1, HoldersAre
  <2>5. Holders(b)' = OfSlots(slots, b) \cup OfLost(lost, b) \cup OfFrame(f, 1, b)
    BY <1>1, <2>2, HoldersBecome
  <2>6. b = v => Holders(b) = {}
    BY <1>4, InvFacts
  <2> QED
    BY <2>3, <2>4, <2>5, <2>6
<1>9. OneHolder' /\ IsForest(Kids(heap'), UsedBlocks(heap'), Held')
  BY <1>1, <1>3, <1>8, NewHeld
<1>10. PointersRight'
  BY <1>1, <1>4, PointersNew DEF MemoryInv, PointersRight
<1>11. StackRight'
  <2>1. failing \in BOOLEAN /\ ~failing
    BY <1>1 DEF MemoryInv, StackRight
  <2>2. FrameIs(heap', slots', f, 1, TRUE)
    <3>1. heap'[p].block = "mutator"
      BY <1>4 DEF MutatorOf
    <3>2. IF f.kind = "compound" THEN f.todo \in Seq(Given) ELSE f.todo \in Seq(Copied)
      BY <1>5 DEF TodoRight
    <3>3. f.kind # "into"
      BY <1>5
    <3> QED
      BY <1>1, <1>4, <1>5, <3>1, <3>2, <3>3 DEF FrameIs
  <2>3. \A i \in DOMAIN stack' : FrameIs(heap', slots', stack'[i], i, i = Len(stack'))
    BY <1>7, <2>2
  <2> QED
    BY <1>1, <1>7, <2>1, <2>3 DEF StackRight
<1>12. SourcesKept'
  <2>1. PICK O \in SUBSET Blocks :
            /\ \A a \in O : Children(heap, a) \subseteq O
            /\ \A x \in O : \/ \E t \in Slots : slots[t] = x
                            \/ \E a \in O : x \in Children(heap, a)
            /\ \A t \in InUse : slots[t] \in O
    BY SourcesOf
  <2>2. IsKept(O)
    BY <1>1, <2>1 DEF IsKept
  <2>3. \A i \in DOMAIN stack' : stack'[i].kind # "compound" =>
            \A j \in DOMAIN stack'[i].todo :
                /\ stack'[i].todo[j].from \in O
                /\ heap[stack'[i].todo[j].from].block = "variable"
    BY <1>5, <1>7, <2>1 DEF TodoRight
  <2>4. PICK X, m : X = {} /\ m = NULL
    OBVIOUS
  <2>5. Frees(heap, X, Held, X, m) /\ X \cap O = {} /\ m \notin O
    BY <2>4, NothingFreed, NullFacts DEF FreesNothing
  <2>6. IsKept(O)'
    BY <1>1, <1>4, <2>2, <2>3, <2>5, KeptStep
  <2> QED
    BY <2>6 DEF SourcesKept
<1> QED
  BY <1>4, <1>9, <1>10, <1>11, <1>12 DEF MemoryInv
----------------------------------------------------------------------------
(* Steps on a variable of the program.                                     *)

LEMMA HoldersSame ==
    ASSUME MemoryInv, UNCHANGED <<slots, lost, stack>>
    PROVE  OneHolder' /\ Held' = Held
<1>1. \A b \in Blocks : Holders(b)' = Holders(b)
  BY HoldersAre, HoldersBecome
<1> QED
  BY <1>1 DEF MemoryInv, OneHolder, Held

(* Between two calls.                                                      *)
LEMMA IdleStep ==
    ASSUME MemoryInv, stack' = <<>>, ~failing, failing' = failing, lost' = lost,
           slots' \in [Slots -> Blocks \cup {NULL}],
           \A s \in Slots : slots'[s] # NULL => heap'[slots'[s]].block = "variable",
           \A l \in lost : heap'[l].block = "variable",
           HeapTyped(heap'), OneHolder', IsForest(Kids(heap'), UsedBlocks(heap'), Held')
    PROVE  MemoryInv'
<1>1. PointersRight'
  BY DEF PointersRight, MemoryInv
<1>2. StackRight'
  <2>1. failing \in BOOLEAN
    BY DEF MemoryInv, StackRight
  <2>2. <<>> \in Seq(Frames)
    OBVIOUS
  <2>3. stack' = <<>> /\ stack' \in Seq(Frames) /\ failing' \in BOOLEAN /\ ~failing'
    BY <2>1, <2>2
  <2> QED
    BY <2>3 DEF StackRight
<1>3. SourcesKept'
  BY DEF SourcesKept
<1> QED
  BY <1>1, <1>2, <1>3 DEF MemoryInv

LEMMA SlotFacts ==
    ASSUME MemoryInv, NEW s \in Slots, slots[s] # NULL
    PROVE  /\ slots[s] \in Blocks /\ slots[s] \in Held /\ slots[s] \in UsedBlocks(heap)
           /\ heap[slots[s]].block = "variable"
           /\ Holders(slots[s]) = {<<"slot", s>>}
<1>1. slots[s] \in Blocks /\ heap[slots[s]].block = "variable"
  BY DEF MemoryInv, PointersRight
<1>2. <<"slot", s>> \in Holders(slots[s])
  BY SlotHolds
<1> QED
  BY <1>1, <1>2, HeldBy

LEMMA LostFacts ==
    ASSUME MemoryInv, NEW l \in lost
    PROVE  /\ l \in Blocks /\ l \in Held /\ l \in UsedBlocks(heap)
           /\ heap[l].block = "variable"
           /\ Holders(l) = {<<"lost", l>>}
<1>1. l \in Blocks /\ heap[l].block = "variable"
  BY DEF MemoryInv, PointersRight
<1>2. <<"lost", l>> \in Holders(l)
  BY SlotHolds
<1> QED
  BY <1>1, <1>2, HeldBy

(* The new contents are a root until they have an owner.                   *)
LEMMA SetToStep ==
    ASSUME MemoryInv, Idle, NEW s \in InUse, NEW value, ValueRight(value), SetTo(s, value)
    PROVE  MemoryInv'
<1>1. /\ HasRoom(value) /\ slots' = slots /\ stack' = stack /\ lost' = lost
      /\ failing' = failing /\ stack = <<>>
  BY DEF SetTo, Idle
<1>2. /\ HeapTyped(heap) /\ IsForest(Kids(heap), UsedBlocks(heap), Held)
      /\ Held \subseteq UsedBlocks(heap) /\ UsedBlocks(heap) \subseteq Blocks
  BY InvFacts
<1>3. PICK h, P, g : /\ h = HeapWith(value) /\ IsAllocated(h, P, value)
                     /\ g = [h EXCEPT ![NewVariable] = Unused]
                     /\ HeapTyped(g) /\ UsedBlocks(g) = UsedBlocks(heap) \cup P
                     /\ \A b \in Blocks : Children(g, b) = Children(heap, b)
                     /\ \A p \in P : g[p] = h[p]
                     /\ IsForest(Kids(g), UsedBlocks(g), Held \cup P)
  BY <1>1, <1>2, PartsFacts
<1>4. PICK v, w, cell : v = NewVariable /\ w = slots[s] /\ cell = h[v]
  OBVIOUS
<1>5. /\ h \in [Blocks -> Cells] /\ v \in Blocks \ P /\ heap[v] = Unused
      /\ P \subseteq Blocks /\ \A p \in P : heap[p] = Unused
      /\ \A b \in Blocks : b \notin P /\ b # v => h[b] = heap[b]
      /\ cell.block = "variable" /\ P = {cell.string, cell.members} \ {NULL}
      /\ Linked(h, v)
  BY <1>3, <1>4 DEF IsAllocated
<1>6. /\ s \in Slots /\ slots[s] # NULL /\ w \in Blocks /\ w \in Held /\ w \in UsedBlocks(heap)
      /\ heap[w].block = "variable"
  <2>1. s \in Slots /\ slots[s] # NULL
    BY DEF InUse
  <2> QED
    BY <1>4, <2>1, SlotFacts
<1>7. w # v /\ w \notin P
  BY <1>5, <1>6 DEF UsedBlocks
<1>8. heap' = [[Without(h, Beneath(heap)[w]) EXCEPT ![w] = cell] EXCEPT ![v] = Unused]
  BY <1>3, <1>4 DEF SetTo, Replaced
<1>9. \A a \in Blocks : heap'[a] = IF a = w THEN cell
                                   ELSE IF a \in Beneath(heap)[w] THEN Unused ELSE g[a]
  <2>1. \A a \in Blocks : g[a] = IF a = v THEN Unused ELSE h[a]
    BY <1>3, <1>4, <1>5
  <2> QED
    BY <1>5, <1>6, <1>7, <1>8, <2>1 DEF Without
<1>10. cell \in VariableCells
  <2>1. cell \in Cells
    BY <1>4, <1>5
  <2> QED
    BY <1>5, <2>1 DEF Cells, Unused, StringCells, MutatorCells
<1>11. heap' \in [Blocks -> Cells]
  <2>1. cell \in Cells /\ \A a \in Blocks : h[a] \in Cells
    BY <1>5, <1>4
  <2>2. Unused \in Cells
    BY DEF Cells
  <2> QED
    BY <1>8, <2>1, <2>2 DEF Without
<1>12. MayReplace(g, Held \cup P, w, P, cell, heap, UsedBlocks(heap), Held, heap')
  <2>1. g[w].block = "variable"
    BY <1>3, <1>4, <1>5, <1>6, <1>7
  <2>2. /\ cell.string # NULL => g[cell.string].block = "string"
        /\ cell.members # NULL => g[cell.members].block = "mutator"
        /\ cell.type = "INT" => cell.content \in Contents
        /\ cell.type = "STRING" => cell.string # NULL
        /\ cell.type = "COMPOUND" => cell.members # NULL
    BY <1>3, <1>4, <1>5 DEF Linked
  <2> QED
    BY <1>2, <1>3, <1>5, <1>6, <1>7, <1>9, <1>10, <1>11, <2>1, <2>2 DEF MayReplace
<1>13. /\ HeapTyped(heap') /\ IsForest(Kids(heap'), UsedBlocks(heap'), (Held \cup P) \ P)
       /\ \A r \in Held \cup P : r # w => heap'[r] = g[r]
       /\ heap'[w] = cell
  <2>1. IsReplaced(g, Held \cup P, w, P, cell, heap')
    BY <1>12, ReplacedFacts
  <2> QED
    BY <2>1 DEF IsReplaced
<1>14. (Held \cup P) \ P = Held
  BY <1>2, <1>5 DEF UsedBlocks
<1>15. OneHolder' /\ Held' = Held
  BY <1>1, HoldersSame
<1>16. ASSUME NEW r \in Held, heap[r].block = "variable"
       PROVE  heap'[r].block = "variable"
  <2>1. r \in Blocks /\ r # v /\ r \notin P
    BY <1>2, <1>5 DEF UsedBlocks
  <2>2. g[r] = heap[r]
    BY <1>3, <1>4, <1>5, <2>1
  <2> QED
    BY <1>5, <1>13, <1>16, <2>2
<1>17. \A t \in Slots : slots[t] # NULL => heap'[slots[t]].block = "variable"
  BY <1>16, SlotFacts
<1>18. \A l \in lost : heap'[l].block = "variable"
  BY <1>16, LostFacts
<1>19. slots \in [Slots -> Blocks \cup {NULL}] /\ ~failing
  BY <1>1 DEF MemoryInv, PointersRight, StackRight
<1> QED
  BY <1>1, <1>13, <1>14, <1>15, <1>17, <1>18, <1>19, IdleStep

(* The parts of the copy are made first.                                   *)
IntoBegins(s, value) ==
    LET made == HeapWith(value)
        parts == made[NewVariable]
    IN  /\ heap[slots[s]].type = "COMPOUND" /\ HasRoom(value)
        /\ heap' = [made EXCEPT ![NewVariable] = Unused]
        /\ stack' = <<Frame("into", s, slots[s], parts.members, parts.string, value.todo)>>
        /\ UNCHANGED <<slots, failing, lost>>

LEMMA IntoStep ==
    ASSUME MemoryInv, Idle, NEW s \in InUse, NEW value, ValueRight(value),
           value.type = "COMPOUND", TodoRight("into", value.todo), IntoBegins(s, value)
    PROVE  MemoryInv'
<1>0. PICK made, parts :
          /\ heap[slots[s]].type = "COMPOUND" /\ HasRoom(value)
          /\ made = HeapWith(value) /\ parts = made[NewVariable]
          /\ heap' = [made EXCEPT ![NewVariable] = Unused]
          /\ stack' = <<Frame("into", s, slots[s], parts.members, parts.string, value.todo)>>
          /\ slots' = slots /\ failing' = failing /\ lost' = lost
  BY DEF IntoBegins
<1>1. /\ HeapTyped(heap) /\ IsForest(Kids(heap), UsedBlocks(heap), Held)
      /\ Held \subseteq UsedBlocks(heap) /\ UsedBlocks(heap) \subseteq Blocks /\ stack = <<>>
  BY InvFacts DEF Idle
<1>2. /\ s \in Slots /\ slots[s] \in Held /\ slots[s] \in UsedBlocks(heap)
      /\ slots[s] \in Blocks /\ heap[slots[s]].block = "variable"
  <2>1. s \in Slots /\ slots[s] # NULL
    BY DEF InUse
  <2> QED
    BY <2>1, SlotFacts
<1>3. value.todo \in Seq(Copied)
  BY DEF TodoRight
<1>4. PICK h, P, g : /\ h = HeapWith(value) /\ IsAllocated(h, P, value)
                     /\ g = [h EXCEPT ![NewVariable] = Unused]
                     /\ HeapTyped(g) /\ UsedBlocks(g) = UsedBlocks(heap) \cup P
                     /\ \A b \in Blocks : Children(g, b) = Children(heap, b)
                     /\ \A p \in P : g[p] = h[p]
                     /\ IsForest(Kids(g), UsedBlocks(g), Held \cup P)
  <2>1. /\ HeapTyped(heap) /\ IsForest(Kids(heap), UsedBlocks(heap), Held)
        /\ ValueRight(value) /\ HasRoom(value)
    BY <1>0, <1>1, <1>3
  <2> QED
    BY <2>1, PartsFacts
<1>5. PICK v, n, q, f : /\ v = NewVariable /\ n = parts.members /\ q = parts.string
                        /\ f = Frame("into", s, slots[s], n, q, value.todo)
  OBVIOUS
<1>6. /\ h \in [Blocks -> Cells] /\ v \in Blocks \ P /\ heap[v] = Unused
      /\ P \subseteq Blocks /\ \A p \in P : heap[p] = Unused
      /\ \A b \in Blocks : b \notin P /\ b # v => h[b] = heap[b]
      /\ P = {q, n} \ {NULL} /\ n \in P /\ h[n] = MutatorOf(<<>>)
      /\ q = NULL \/ h[q].block = "string"
  BY <1>0, <1>4, <1>5 DEF IsAllocated
<1>7. heap' = g /\ stack' = <<f>>
      /\ slots' = slots /\ failing' = failing /\ lost' = lost /\ heap[slots[s]].type = "COMPOUND"
  BY <1>0, <1>4, <1>5
<1>8. /\ f.kind = "into" /\ f.slot = s /\ f.v = slots[s] /\ f.n = n /\ f.name = q
      /\ f.todo = value.todo /\ f.made = NULL
  BY <1>5 DEF Frame
<1>9. q \in Blocks \cup {NULL} /\ n \in Blocks /\ n # NULL
  BY <1>6, NullFacts
<1>10. f \in Frames
  BY <1>2, <1>3, <1>5, <1>9 DEF Frames, Frame
<1>11. stack' \in Seq(Frames) /\ Len(stack') = 1 /\ DOMAIN stack' = {1} /\ stack'[1] = f
  BY <1>7, <1>10
<1>12. \A a \in UsedBlocks(heap) : g[a] = heap[a]
  BY <1>1, <1>4, <1>5, <1>6 DEF UsedBlocks
<1>13. ASSUME NEW b \in Blocks
       PROVE  Holders(b)' = IF b \in P THEN {<<"parts", 1>>} ELSE Holders(b)
  <2>1. OfStack(stack, b) = {}
    BY <1>1 DEF OfStack
  <2>2. OfStack(stack', b) = OfFrame(f, 1, b)
    BY <1>11 DEF OfStack
  <2>3. OfFrame(f, 1, b) = IF b \in P THEN {<<"parts", 1>>} ELSE {}
    BY <1>6, <1>8, NullFacts DEF OfFrame
  <2>4. Holders(b) = OfSlots(slots, b) \cup OfLost(lost, b)
    BY <2>1, HoldersAre
  <2>5. Holders(b)' = OfSlots(slots, b) \cup OfLost(lost, b) \cup OfFrame(f, 1, b)
    BY <1>7, <2>2, HoldersBecome
  <2>6. b \in P => Holders(b) = {}
    BY <1>6, InvFacts
  <2> QED
    BY <2>3, <2>4, <2>5, <2>6
<1>14. OneHolder' /\ Held' = (Held \ {}) \cup P
  <2>1. OneHolder
    BY DEF MemoryInv
  <2>2. PICK D : D = {}
    OBVIOUS
  <2>3. /\ D \in SUBSET Blocks /\ P \in SUBSET Blocks /\ D \cap P = {}
        /\ \A b \in Blocks : b \notin D /\ b \notin P => Holders(b)' = Holders(b)
        /\ \A b \in D : Holders(b)' = {}
        /\ \A b \in P : Holders(b)' = {<<"parts", 1>>}
    BY <1>6, <1>13, <2>2
  <2> QED
    BY <2>1, <2>2, <2>3, HoldersMoved
<1>15. IsForest(Kids(heap'), UsedBlocks(heap'), Held')
  <2>1. Held' = Held \cup P
    BY <1>14
  <2> QED
    BY <1>4, <1>7, <2>1
<1>16. PointersRight'
  BY <1>7, <1>12, PointersNew DEF MemoryInv, PointersRight
<1>17. StackRight'
  <2>1. failing' \in BOOLEAN /\ ~failing'
    BY <1>1, <1>7 DEF MemoryInv, StackRight
  <2>2. g[n].block = "mutator" /\ (q # NULL => g[q].block = "string")
    BY <1>4, <1>6 DEF MutatorOf
  <2>3. g[slots[s]] = heap[slots[s]]
    BY <1>2, <1>12
  <2>4. FrameIs(g, slots, f, 1, TRUE)
    BY <1>2, <1>3, <1>7, <1>8, <2>2, <2>3 DEF FrameIs
  <2>5. \A i \in DOMAIN stack' : FrameIs(heap', slots', stack'[i], i, i = Len(stack'))
    BY <1>7, <1>11, <2>4
  <2> QED
    BY <1>11, <2>1, <2>5 DEF StackRight
<1>18. SourcesKept'
  <2>1. PICK O \in SUBSET Blocks :
            /\ \A a \in O : Children(heap, a) \subseteq O
            /\ \A x \in O : \/ \E u \in Slots : slots[u] = x
                            \/ \E a \in O : x \in Children(heap, a)
            /\ \A u \in InUse : slots[u] \in O
    BY SourcesOf
  <2>2. IsKept(O)
    BY <1>1, <2>1 DEF IsKept
  <2>3. \A i \in DOMAIN stack' : stack'[i].kind # "compound" =>
            \A j \in DOMAIN stack'[i].todo :
                /\ stack'[i].todo[j].from \in O
                /\ heap[stack'[i].todo[j].from].block = "variable"
    BY <1>8, <1>11, <2>1 DEF TodoRight
  <2>4. PICK X, m : X = {} /\ m = NULL
    OBVIOUS
  <2>5. Frees(heap, X, Held, X, m) /\ X \cap O = {} /\ m \notin O
    BY <2>4, NothingFreed, NullFacts DEF FreesNothing
  <2>6. IsKept(O)'
    BY <1>7, <1>12, <2>2, <2>3, <2>5, KeptStep
  <2> QED
    BY <2>6 DEF SourcesKept
<1> QED
  BY <1>4, <1>7, <1>14, <1>15, <1>16, <1>17, <1>18 DEF MemoryInv

LEMMA VariableDeleteStep ==
    ASSUME MemoryInv, NEW s \in Slots, VariableDelete(s)
    PROVE  MemoryInv'
<1>1. /\ stack = <<>> /\ slots[s] # NULL
      /\ heap' = Deleted(heap, slots[s]) /\ slots' = [slots EXCEPT ![s] = NULL]
      /\ stack' = stack /\ failing' = failing /\ lost' = lost
  BY DEF VariableDelete, Idle, InUse
<1>2. PICK w, T : w = slots[s] /\ T = {w}
  OBVIOUS
<1>3. /\ HeapTyped(heap) /\ IsForest(Kids(heap), UsedBlocks(heap), Held)
      /\ slots \in [Slots -> Blocks \cup {NULL}]
  BY InvFacts
<1>4. w \in Blocks /\ w \in Held /\ Holders(w) = {<<"slot", s>>}
  BY <1>1, <1>2, SlotFacts
<1>5. PICK X, g : /\ X = T \cup Beneath(heap)[w] /\ g = Without(heap, X)
                  /\ HeapTyped(g) /\ IsForest(Kids(g), UsedBlocks(g), Held \ T)
                  /\ Frees(heap, X, Held, T, NULL)
                  /\ \A a \in Blocks : g[a] = IF a \in X THEN Unused ELSE heap[a]
  <2>1. MayDelete(heap, Held, T, w)
    BY <1>2, <1>3, <1>4 DEF MayDelete
  <2>2. PICK X, g : X = T \cup Beneath(heap)[w] /\ IsDeleted(heap, g, Held, T, X)
    BY <2>1, DeletedFacts
  <2> QED
    BY <2>2 DEF IsDeleted
<1>6. heap' = g
  BY <1>1, <1>2, <1>5 DEF Deleted
<1>7. ASSUME NEW b \in Blocks
      PROVE  Holders(b)' = IF b \in T THEN {} ELSE Holders(b)
  <2>1. OfSlots(slots', b) = OfSlots(slots, b) \ (IF b = w THEN {<<"slot", s>>} ELSE {})
    <3>1. \A t \in Slots : slots'[t] = IF t = s THEN NULL ELSE slots[t]
      BY <1>1, <1>3
    <3>2. \A t \in Slots : <<"slot", t>> = <<"slot", s>> => t = s
      OBVIOUS
    <3>3. b # NULL
      BY NullFacts
    <3>4. ASSUME NEW o
          PROVE  o \in OfSlots(slots', b)
                     <=> o \in OfSlots(slots, b) /\ ~(b = w /\ o = <<"slot", s>>)
      BY <1>2, <3>1, <3>2, <3>3 DEF OfSlots
    <3> QED
      BY <3>4
  <2>2. Holders(b) = OfSlots(slots, b) \cup OfLost(lost, b)
    <3>1. OfStack(stack, b) = {}
      BY <1>1 DEF OfStack
    <3> QED
      BY <3>1, HoldersAre
  <2>3. Holders(b)' = OfSlots(slots', b) \cup OfLost(lost, b)
    <3>1. OfStack(stack', b) = {}
      BY <1>1 DEF OfStack
    <3> QED
      BY <1>1, <3>1, HoldersBecome
  <2>4. <<"slot", s>> \notin OfLost(lost, b)
    BY DEF OfLost
  <2> QED
    BY <1>2, <1>4, <2>1, <2>2, <2>3, <2>4
<1>8. OneHolder' /\ Held' = (Held \ T) \cup {}
  <2>1. OneHolder
    BY DEF MemoryInv
  <2>2. PICK G : G = {}
    OBVIOUS
  <2>3. /\ T \in SUBSET Blocks /\ G \in SUBSET Blocks /\ T \cap G = {}
        /\ \A b \in Blocks : b \notin T /\ b \notin G => Holders(b)' = Holders(b)
        /\ \A b \in T : Holders(b)' = {}
        /\ \A b \in G : \E o : Holders(b)' = {o}
    BY <1>2, <1>4, <1>7, <2>2
  <2> QED
    BY <2>1, <2>2, <2>3, HoldersMoved
<1>9. IsForest(Kids(heap'), UsedBlocks(heap'), Held')
  <2>1. Held' = Held \ T
    BY <1>8
  <2> QED
    BY <1>5, <1>6, <2>1
<1>10. ASSUME NEW b \in Blocks, NEW o, o \in Holders(b), b # w, heap[b].block = "variable"
       PROVE  heap'[b].block = "variable"
  <2>1. b \in Held /\ b \notin T
    BY <1>2, <1>10, HeldBy
  <2>2. b \notin X
    BY <1>5, <2>1 DEF Frees
  <2> QED
    BY <1>5, <1>6, <1>10, <2>2
<1>11. ASSUME NEW t \in Slots, slots'[t] # NULL
       PROVE  heap'[slots'[t]].block = "variable"
  <2>1. t # s /\ slots'[t] = slots[t]
    BY <1>1, <1>3, <1>11
  <2>2. Holders(slots[t]) = {<<"slot", t>>} /\ slots[t] \in Blocks
        /\ heap[slots[t]].block = "variable"
    BY <1>11, <2>1, SlotFacts
  <2>3. slots[t] # w
    <3>1. <<"slot", t>> # <<"slot", s>>
      BY <2>1
    <3> QED
      BY <1>4, <2>2, <3>1
  <2> QED
    BY <1>10, <2>1, <2>2, <2>3
<1>12. ASSUME NEW l \in lost
       PROVE  heap'[l].block = "variable"
  <2>1. Holders(l) = {<<"lost", l>>} /\ l \in Blocks /\ heap[l].block = "variable"
    BY LostFacts
  <2>2. l # w
    <3>1. <<"lost", l>> # <<"slot", s>>
      OBVIOUS
    <3> QED
      BY <1>4, <2>1, <3>1
  <2> QED
    BY <1>10, <2>1, <2>2
<1>13. slots' \in [Slots -> Blocks \cup {NULL}]
  BY <1>1, <1>3
<1>14. ~failing
  BY <1>1 DEF MemoryInv, StackRight
<1> QED
  BY <1>1, <1>5, <1>6, <1>8, <1>9, <1>11, <1>12, <1>13, <1>14, IdleStep

(* The calls of the program.                                               *)
LEMMA CallStep ==
    ASSUME MemoryInv, NEW s \in Slots,
           \/ VariableNew(s) \/ VariableNewCompound(s) \/ VariableNewCompoundVariables(s)
           \/ VariableNewCopy(s) \/ VariableCopy(s) \/ VariableSetType(s) \/ VariableDelete(s)
    PROVE  MemoryInv'
<1>1. HeapTyped(heap)
  BY DEF MemoryInv
<1>2. \A t \in InUse : slots[t] \in Blocks /\ heap[slots[t]].block = "variable"
  BY SlotFacts DEF InUse
<1>3. ASSUME NEW t \in InUse, NEW kind, kind # "compound"
      PROVE  ValueRight(Source(slots[t])) /\ TodoRight(kind, Source(slots[t]).todo)
  <2>1. PICK v : v = slots[t]
    OBVIOUS
  <2>2. /\ ValueRight(Source(v)) /\ Source(v).todo \in Seq(Copied)
        /\ \A j \in DOMAIN Source(v).todo :
               \E m \in Children(heap, v) :
                   /\ Source(v).todo[j].from \in Children(heap, m)
                   /\ heap[Source(v).todo[j].from].block = "variable"
    BY <1>1, <1>2, <2>1, SourceFacts
  <2>3. ASSUME NEW j \in DOMAIN Source(v).todo, NEW O, \A u \in InUse : slots[u] \in O,
               \A a \in O : Children(heap, a) \subseteq O
        PROVE  Source(v).todo[j].from \in O
    <3>1. PICK m \in Children(heap, v) : Source(v).todo[j].from \in Children(heap, m)
      BY <2>2
    <3>2. v \in O /\ m \in O
      BY <2>1, <2>3, <3>1
    <3> QED
      BY <2>3, <3>1, <3>2
  <2> QED
    BY <1>3, <2>1, <2>2, <2>3 DEF TodoRight
<1>4. CASE VariableNew(s)
  <2>1. PICK value \in Scalars \cup Empties : GiveSlot(s, value)
    BY <1>4 DEF VariableNew, GiveSlot
  <2> QED
    BY <2>1, ValuesRight, GiveSlotStep
<1>5. CASE VariableNewCompound(s)
  <2>1. PICK value \in Empties, args \in ArgsOf([key : Keys \cup {NULL}, value : Scalars]) :
            Begin("compound", s, value, args)
    BY <1>5 DEF VariableNewCompound
  <2>2. args \in Seq(Given)
    <3>1. PICK n \in 1..MaxMembers : args \in [1..n -> [key : Keys \cup {NULL}, value : Scalars]]
      BY DEF ArgsOf
    <3>2. args \in [1..n -> Given]
      BY <3>1 DEF Given
    <3> QED
      BY <3>2
  <2>3. TodoRight("compound", args)
    BY <2>2 DEF TodoRight
  <2> QED
    BY <2>1, <2>3, ValuesRight, BeginStep
<1>6. CASE VariableNewCompoundVariables(s)
  <2>1. PICK value \in Empties :
            \E args \in ArgsOf([key : Keys \cup {NULL}, from : {slots[t] : t \in InUse}]) :
                Begin("variables", s, value, args)
    BY <1>6 DEF VariableNewCompoundVariables
  <2>2. PICK args \in ArgsOf([key : Keys \cup {NULL}, from : {slots[t] : t \in InUse}]) :
            Begin("variables", s, value, args)
    BY <2>1
  <2>3. PICK n \in 1..MaxMembers :
            args \in [1..n -> [key : Keys \cup {NULL}, from : {slots[t] : t \in InUse}]]
    BY DEF ArgsOf
  <2>4. \A j \in 1..n : /\ args[j] \in Copied
                        /\ \E t \in InUse : args[j].from = slots[t]
    BY <1>2, <2>3 DEF Copied
  <2>5. args \in Seq(Copied) /\ DOMAIN args = 1..n
    BY <2>3, <2>4
  <2>6. TodoRight("variables", args)
    BY <1>2, <2>4, <2>5 DEF TodoRight
  <2> QED
    BY <2>2, <2>6, ValuesRight, BeginStep
<1>7. CASE VariableNewCopy(s)
  <2>1. PICK t \in InUse :
            IF Source(slots[t]).type = "COMPOUND"
            THEN Begin("copy", s, Source(slots[t]), Source(slots[t]).todo)
            ELSE GiveSlot(s, Source(slots[t]))
    BY <1>7 DEF VariableNewCopy, GiveSlot
  <2>2. PICK value : value = Source(slots[t])
    OBVIOUS
  <2>3. ValueRight(value) /\ TodoRight("copy", value.todo)
    BY <1>3, <2>2
  <2>4. CASE value.type = "COMPOUND"
    BY <2>1, <2>2, <2>3, <2>4, BeginStep
  <2>5. CASE value.type # "COMPOUND"
    BY <2>1, <2>2, <2>3, <2>5, GiveSlotStep
  <2> QED
    BY <2>4, <2>5
<1>8. CASE VariableCopy(s)
  <2>1. Idle /\ s \in InUse
    BY <1>8 DEF VariableCopy
  <2>2. PICK t \in InUse :
            IF Source(slots[t]).type # "COMPOUND" THEN SetTo(s, Source(slots[t]))
            ELSE IntoBegins(s, Source(slots[t]))
    BY <1>8 DEF VariableCopy, IntoBegins
  <2>3. PICK value : value = Source(slots[t])
    OBVIOUS
  <2>4. ValueRight(value) /\ TodoRight("into", value.todo)
    BY <1>3, <2>3
  <2>5. CASE value.type = "COMPOUND"
    BY <2>1, <2>2, <2>3, <2>4, <2>5, IntoStep
  <2>6. CASE value.type # "COMPOUND"
    BY <2>1, <2>2, <2>3, <2>4, <2>6, SetToStep
  <2> QED
    BY <2>5, <2>6
<1>9. CASE VariableSetType(s)
  <2>1. PICK value \in Scalars \cup Empties : SetTo(s, value) /\ Idle /\ s \in InUse
    BY <1>9 DEF VariableSetType
  <2> QED
    BY <2>1, ValuesRight, SetToStep
<1>10. CASE VariableDelete(s)
  BY <1>10, VariableDeleteStep
<1> QED
  BY <1>4, <1>5, <1>6, <1>7, <1>8, <1>9, <1>10
----------------------------------------------------------------------------
(* Steps of the function at the top of the stack.                          *)

LEMMA TopFacts ==
    ASSUME MemoryInv, stack # <<>>
    PROVE  /\ Len(stack) \in Nat /\ Len(stack) >= 1 /\ DOMAIN stack = 1..Len(stack)
           /\ Len(stack) \in DOMAIN stack /\ Top = stack[Len(stack)] /\ Top \in Frames
           /\ FrameIs(heap, slots, Top, Len(stack), TRUE)
           /\ \A i \in 1..(Len(stack) - 1) : FrameIs(heap, slots, stack[i], i, FALSE)
           /\ \E O \in SUBSET Blocks : IsKept(O)
           /\ failing \in BOOLEAN
<1>1. stack \in Seq(Frames) /\ failing \in BOOLEAN
      /\ \A i \in DOMAIN stack : FrameIs(heap, slots, stack[i], i, i = Len(stack))
  BY DEF MemoryInv, StackRight
<1>2. /\ Len(stack) \in Nat /\ Len(stack) >= 1 /\ DOMAIN stack = 1..Len(stack)
      /\ Top = stack[Len(stack)] /\ Top \in Frames
  BY <1>1, StackTop DEF Top
<1>3. Len(stack) \in DOMAIN stack
  BY <1>2
<1>4. FrameIs(heap, slots, Top, Len(stack), TRUE)
  <2>1. FrameIs(heap, slots, stack[Len(stack)], Len(stack), Len(stack) = Len(stack))
    BY <1>1, <1>3
  <2>2. (Len(stack) = Len(stack)) = TRUE
    OBVIOUS
  <2> QED
    BY <1>2, <2>1, <2>2
<1>5. ASSUME NEW i \in 1..(Len(stack) - 1)
      PROVE  FrameIs(heap, slots, stack[i], i, FALSE)
  <2>0. PICK k, D : k = Len(stack) /\ D = DOMAIN stack
    OBVIOUS
  <2>1. i \in D /\ i # k
    <3>1. k \in Nat /\ D = 1..k /\ i \in 1..(k - 1)
      BY <1>2, <2>0
    <3> QED
      BY <3>1
  <2>2. FrameIs(heap, slots, stack[i], i, i = Len(stack))
    BY <1>1, <2>0, <2>1
  <2> QED
    BY <2>0, <2>1, <2>2 DEF FrameIs
<1>6. \E O \in SUBSET Blocks : IsKept(O)
  BY DEF MemoryInv, SourcesKept
<1> QED
  BY <1>1, <1>2, <1>3, <1>4, <1>5, <1>6

(* No other function fills its mutator.                                    *)
LEMMA FramesApart ==
    ASSUME MemoryInv, stack # <<>>, NEW j \in 1..(Len(stack) - 1)
    PROVE  stack[j].n # Top.n
<1>1. PICK f, n, i, w : f = Top /\ n = f.n /\ i = Len(stack) /\ w = stack[j]
  OBVIOUS
<1>2. i \in Nat /\ i >= 1 /\ DOMAIN stack = 1..i /\ f = stack[i] /\ i \in DOMAIN stack
  BY <1>1, TopFacts
<1>3. j \in DOMAIN stack /\ j # i
  BY <1>1, <1>2
<1>4. /\ w \in Frames /\ f \in Frames
      /\ w.kind # "into" => <<"frame", j>> \in Holders(w.v) /\ w.n \in Children(heap, w.v)
      /\ w.kind = "into" => <<"parts", j>> \in Holders(w.n)
      /\ f.kind # "into" => <<"frame", i>> \in Holders(f.v) /\ n \in Children(heap, f.v)
      /\ f.kind = "into" => <<"parts", i>> \in Holders(n)
  BY <1>1, <1>2, <1>3, FrameOwn
<1>5. w.v \in Blocks /\ w.n \in Blocks /\ f.v \in Blocks /\ n \in Blocks
  BY <1>1, <1>4 DEF Frames
<1>6. /\ \A a \in Blocks : Children(heap, a) \subseteq UsedBlocks(heap)
      /\ \A a, c \in Blocks : \A b \in UsedBlocks(heap) :
             b \in Children(heap, a) /\ b \in Children(heap, c) => a = c
      /\ \A a \in Blocks, b \in Held : b \notin Children(heap, a)
  BY InvFacts, ForestKids
<1>7. ASSUME NEW a, NEW c, j # i
      PROVE  <<a, j>> # <<c, i>>
  BY <1>7
<1>8. CASE w.kind = "into" /\ f.kind = "into"
  <2>1. Holders(w.n) = {<<"parts", j>>} /\ Holders(n) = {<<"parts", i>>}
    BY <1>4, <1>5, <1>8, HeldBy
  <2> QED
    BY <1>1, <1>3, <1>7, <2>1
<1>9. CASE w.kind = "into" /\ f.kind # "into"
  <2>1. w.n \in Held
    BY <1>4, <1>5, <1>9, HeldBy
  <2> QED
    BY <1>1, <1>4, <1>5, <1>6, <1>9, <2>1
<1>10. CASE w.kind # "into" /\ f.kind = "into"
  <2>1. n \in Held
    BY <1>4, <1>5, <1>10, HeldBy
  <2> QED
    BY <1>1, <1>4, <1>5, <1>6, <1>10, <2>1
<1>11. CASE w.kind # "into" /\ f.kind # "into"
  <2>1. Holders(w.v) = {<<"frame", j>>} /\ Holders(f.v) = {<<"frame", i>>}
    BY <1>4, <1>5, <1>11, HeldBy
  <2>2. w.v # f.v
    BY <1>3, <1>7, <2>1
  <2> QED
    BY <1>1, <1>4, <1>5, <1>6, <1>11, <2>2
<1> QED
  BY <1>8, <1>9, <1>10, <1>11

(* What a step frees: blocks that only the last function has, and beneath. *)
Survives(X, D, m, g) ==
    /\ Frees(heap, X, Held, D, m)
    /\ \A a \in UsedBlocks(heap) : a \notin X /\ a # m => g[a] = heap[a]
    /\ m \in Blocks => m = Top.n /\ m \notin X /\ heap[m].block = "mutator"
                       /\ g[m].block = "mutator"
    /\ \A d \in D : d \in Held /\ \A o \in Holders(d) : o[1] # "slot" /\ o[2] = Len(stack)

LEMMA FrontSurvives ==
    ASSUME MemoryInv, stack # <<>>, NEW X, NEW D, NEW m, NEW g, Survives(X, D, m, g),
           NEW j \in 1..(Len(stack) - 1)
    PROVE  FrameIs(g, slots, stack[j], j, FALSE)
<1>1. PICK i, w : i = Len(stack) /\ w = stack[j]
  OBVIOUS
<1>2. j \in DOMAIN stack /\ j # i
  <2>1. i \in Nat /\ DOMAIN stack = 1..i
    BY <1>1, TopFacts
  <2> QED
    BY <1>1, <2>1
<1>3. /\ w \in Frames
      /\ w.kind # "into" => <<"frame", j>> \in Holders(w.v) /\ w.n \in Children(heap, w.v)
      /\ w.kind = "into" => /\ <<"slot", w.slot>> \in Holders(w.v)
                            /\ <<"parts", j>> \in Holders(w.n)
                            /\ w.name # NULL => <<"parts", j>> \in Holders(w.name)
      /\ w.made # NULL => <<"made", j>> \in Holders(w.made)
  BY <1>1, <1>2, FrameOwn
<1>4. w.v \in Blocks /\ w.n \in Blocks
  BY <1>3 DEF Frames
<1>5. /\ Frees(heap, X, Held, D, m)
      /\ \A a \in UsedBlocks(heap) : a \notin X /\ a # m => g[a] = heap[a]
      /\ m \in Blocks => m = Top.n /\ m \notin X /\ heap[m].block = "mutator"
                         /\ g[m].block = "mutator"
      /\ \A d \in D : d \in Held /\ \A o \in Holders(d) : o[1] # "slot" /\ o[2] = i
  BY <1>1 DEF Survives
<1>6. \A d \in D : d \in Blocks /\ d # NULL
  BY <1>5, NullFacts DEF Held
<1>7. ASSUME NEW b, NEW a, <<a, j>> \in Holders(b)
      PROVE  b \notin D
  <2>1. <<a, j>>[2] = j
    OBVIOUS
  <2> QED
    BY <1>2, <1>5, <1>7, <2>1
<1>8. ASSUME NEW b, NEW t, <<"slot", t>> \in Holders(b)
      PROVE  b \notin D
  <2>1. <<"slot", t>>[1] = "slot"
    OBVIOUS
  <2> QED
    BY <1>5, <1>8, <2>1
<1>9. w.v \notin D
  BY <1>3, <1>7, <1>8
<1>10. w.n \notin D
  <2>1. CASE w.kind = "into"
    BY <1>3, <1>7, <2>1
  <2>2. CASE w.kind # "into"
    <3>1. \A b \in Held : b \notin Children(heap, w.v)
      BY <1>4, InvFacts, ForestKids
    <3> QED
      BY <1>3, <1>5, <2>2, <3>1
  <2> QED
    BY <2>1, <2>2
<1>11. w.made \notin D
  BY <1>3, <1>6, <1>7
<1>12. w.kind = "into" => w.name \notin D
  BY <1>3, <1>6, <1>7
<1>13. w.n # m
  BY <1>1, <1>4, <1>5, FramesApart
<1>14. SparesFrame(X, D, m, g, w)
  BY <1>5, <1>9, <1>10, <1>11, <1>12, <1>13 DEF SparesFrame
<1>15. FrameIs(g, slots, w, j, j = Len(stack))
  BY <1>1, <1>2, <1>14, FrameKept
<1> QED
  BY <1>1, <1>2, <1>15 DEF FrameIs

LEMMA PointersSurvive ==
    ASSUME MemoryInv, NEW X, NEW D, NEW m, Survives(X, D, m, heap'),
           slots' = slots,
           \A l \in lost' : \/ l \in lost /\ l \notin D
                            \/ l \in Blocks /\ heap'[l].block = "variable"
    PROVE  PointersRight'
<1>1. /\ Frees(heap, X, Held, D, m)
      /\ \A a \in UsedBlocks(heap) : a \notin X /\ a # m => heap'[a] = heap[a]
      /\ m \in Blocks => heap[m].block = "mutator"
      /\ \A d \in D : d \in Held /\ \A o \in Holders(d) : o[1] # "slot"
  BY DEF Survives
<1>2. ASSUME NEW s \in Slots, slots[s] # NULL
      PROVE  heap'[slots[s]].block = "variable"
  <2>1. /\ slots[s] \in Blocks /\ heap[slots[s]].block = "variable"
        /\ Holders(slots[s]) = {<<"slot", s>>}
    BY <1>2, SlotFacts
  <2>2. <<"slot", s>>[1] = "slot" /\ <<"slot", s>> \in Holders(slots[s])
    BY <2>1
  <2>3. slots[s] \notin D
    BY <1>1, <2>2
  <2>4. PICK b, o : b = slots[s] /\ o = <<"slot", s>>
    OBVIOUS
  <2>5. b \in Blocks /\ o \in Holders(b) /\ b \notin D /\ heap[b].block = "variable"
    BY <2>1, <2>2, <2>3, <2>4
  <2>6. /\ Frees(heap, X, Held, D, m)
        /\ \A a \in UsedBlocks(heap) : a \notin X /\ a # m => heap'[a] = heap[a]
        /\ m \in Blocks => heap[m].block = "mutator"
    BY <1>1
  <2>7. heap'[b].block = "variable"
    BY <2>5, <2>6, PointersKept
  <2> QED
    BY <2>4, <2>7
<1>3. ASSUME NEW l \in lost, l \notin D
      PROVE  heap'[l].block = "variable"
  <2>1. l \in Blocks /\ heap[l].block = "variable" /\ <<"lost", l>> \in Holders(l)
    BY LostFacts
  <2> QED
    BY <1>1, <1>3, <2>1, PointersKept
<1>4. slots \in [Slots -> Blocks \cup {NULL}] /\ lost \subseteq Blocks
  BY DEF MemoryInv, PointersRight
<1>5. /\ \A l \in lost' : heap'[l].block = "variable"
      /\ lost' \subseteq Blocks
  BY <1>3, <1>4
<1> QED
  BY <1>2, <1>4, <1>5 DEF PointersRight

LEMMA SourcesSurvive ==
    ASSUME MemoryInv, stack # <<>>, NEW X, NEW D, NEW m, Survives(X, D, m, heap'),
           slots' = slots,
           \A O \in SUBSET Blocks : IsKept(O) =>
               \A i \in DOMAIN stack' : stack'[i].kind # "compound" =>
                   \A j \in DOMAIN stack'[i].todo :
                       /\ stack'[i].todo[j].from \in O
                       /\ heap[stack'[i].todo[j].from].block = "variable"
    PROVE  SourcesKept'
<1>1. PICK O \in SUBSET Blocks : IsKept(O)
  BY TopFacts
<1>2. /\ \A b \in O : \A o \in Holders(b) : o[1] = "slot"
      /\ \A i \in DOMAIN stack : stack[i].n \notin O
  BY <1>1, KeptFacts
<1>3. /\ Frees(heap, X, Held, D, m)
      /\ \A a \in UsedBlocks(heap) : a \notin X /\ a # m => heap'[a] = heap[a]
      /\ m \in Blocks => m = Top.n
      /\ \A d \in D : d \in Held /\ \A o \in Holders(d) : o[1] # "slot"
  BY DEF Survives
<1>4. D \cap O = {}
  <2>1. ASSUME NEW d \in D, d \in O
        PROVE  FALSE
    <3>1. PICK o : o \in Holders(d)
      BY <1>3, <2>1 DEF Held
    <3> QED
      BY <1>2, <1>3, <2>1, <3>1
  <2> QED
    BY <2>1
<1>5. m \notin O
  <2>1. Len(stack) \in DOMAIN stack /\ Top = stack[Len(stack)]
    BY TopFacts
  <2>2. Top.n \notin O
    BY <1>2, <2>1
  <2> QED
    BY <1>3, <2>2
<1>6. IsKept(O)'
  BY <1>1, <1>3, <1>4, <1>5, KeptStep
<1> QED
  BY <1>6 DEF SourcesKept

LEMMA StackSurvives ==
    ASSUME MemoryInv, stack # <<>>, NEW X, NEW D, NEW m, Survives(X, D, m, heap'),
           slots' = slots, stack' \in Seq(Frames), failing' \in BOOLEAN,
           failing' => stack' # <<>> /\ Top'.made = NULL,
           \A j \in DOMAIN stack' :
               \/ j \in 1..(Len(stack) - 1) /\ stack'[j] = stack[j] /\ j # Len(stack')
               \/ FrameIs(heap', slots, stack'[j], j, j = Len(stack'))
    PROVE  StackRight'
<1>1. ASSUME NEW j \in DOMAIN stack'
      PROVE  FrameIs(heap', slots', stack'[j], j, j = Len(stack'))
  <2>1. CASE FrameIs(heap', slots, stack'[j], j, j = Len(stack'))
    BY <2>1
  <2>2. CASE j \in 1..(Len(stack) - 1) /\ stack'[j] = stack[j] /\ j # Len(stack')
    <3>1. FrameIs(heap', slots, stack[j], j, FALSE)
      BY <2>2, FrontSurvives
    <3> QED
      BY <2>2, <3>1 DEF FrameIs
  <2> QED
    BY <2>1, <2>2
<1> QED
  BY <1>1 DEF StackRight

(* Its frame changes.                                                      *)
LEMMA TopBecomes ==
    ASSUME MemoryInv, stack # <<>>, NEW f \in Frames, stack' = PopTo(f)
    PROVE  /\ stack' \in Seq(Frames) /\ stack' # <<>> /\ Len(stack') = Len(stack)
           /\ DOMAIN stack' = DOMAIN stack
           /\ \A i \in 1..(Len(stack) - 1) : stack'[i] = stack[i]
           /\ stack'[Len(stack)] = f /\ Top' = f
           /\ \A b : /\ OfStack(stack', b) = OfStack(Front(stack), b) \cup OfFrame(f, Len(stack), b)
                     /\ OfStack(stack, b) = OfStack(Front(stack), b) \cup OfFrame(Top, Len(stack), b)
                     /\ \A o \in OfStack(Front(stack), b) : o[2] # Len(stack)
                     /\ \A o \in OfStack(stack, b) : o[1] \in {"frame", "parts", "made"}
<1>1. stack \in Seq(Frames)
  BY InvFacts
<1>2. PICK r : r = Front(stack)
  OBVIOUS
<1>3. /\ Len(stack) \in Nat /\ Len(stack) >= 1 /\ DOMAIN stack = 1..Len(stack)
      /\ r \in Seq(Frames) /\ Len(r) = Len(stack) - 1
      /\ \A i \in 1..(Len(stack) - 1) : r[i] = stack[i]
  BY <1>1, <1>2, StackTop
<1>4. IsGrown(r, f, stack')
  <2>1. r \in Seq(Frames) /\ f \in Frames
    BY <1>3
  <2>2. stack' = Append(r, f)
    BY <1>2 DEF PopTo
  <2>3. IsGrown(r, f, Append(r, f))
    BY <2>1, StackGrown
  <2> QED
    BY <2>2, <2>3
<1>5. /\ stack' \in Seq(Frames) /\ Len(stack') = Len(r) + 1 /\ stack' # <<>>
      /\ DOMAIN stack' = 1..(Len(r) + 1)
      /\ \A i \in 1..Len(r) : stack'[i] = r[i]
      /\ stack'[Len(r) + 1] = f
      /\ \A b : OfStack(stack', b) = OfStack(r, b) \cup OfFrame(f, Len(r) + 1, b)
  BY <1>4 DEF IsGrown
<1>6. Len(r) + 1 = Len(stack)
  BY <1>3
<1>7. Top' = f
  <2>1. stack'[Len(stack')] = f
    BY <1>5
  <2> QED
    BY <2>1 DEF Top, Last
<1>8. \A b : /\ OfStack(stack, b) = OfStack(Front(stack), b) \cup OfFrame(Top, Len(stack), b)
             /\ \A o \in OfStack(Front(stack), b) : o[2] # Len(stack)
             /\ \A o \in OfStack(stack, b) : o[1] \in {"frame", "parts", "made"}
  BY <1>1, StackOfFront DEF Top
<1> QED
  BY <1>2, <1>3, <1>5, <1>6, <1>7, <1>8

(* A member is set: its block has an owner.                                *)
LEMMA SetMemberStep ==
    ASSUME MemoryInv, SetMember
    PROVE  MemoryInv'
<1>1. PICK f, n, r, m, i : /\ f = Top /\ n = f.n /\ r = f.made /\ m = Head(f.todo)
                           /\ i = Len(stack)
  OBVIOUS
<1>2. /\ stack # <<>> /\ ~failing /\ r # NULL
      /\ heap' = [heap EXCEPT ![n].entries = Append(@, [key |-> m.key, value |-> r])]
      /\ stack' = PopTo([f EXCEPT !.made = NULL, !.todo = Tail(@)])
      /\ slots' = slots /\ failing' = failing /\ lost' = lost
  BY <1>1 DEF SetMember, Working, Idle, Member
<1>3. /\ HeapTyped(heap) /\ IsForest(Kids(heap), UsedBlocks(heap), Held)
      /\ UsedBlocks(heap) \subseteq Blocks /\ Held \subseteq UsedBlocks(heap)
      /\ \A b \in Blocks : heap[b] = Unused => b \notin Held /\ b \notin UsedBlocks(heap)
  BY InvFacts
<1>4. /\ i \in Nat /\ i >= 1 /\ i \in DOMAIN stack /\ DOMAIN stack = 1..i
      /\ f = stack[i] /\ f \in Frames /\ FrameIs(heap, slots, f, i, TRUE)
  BY <1>1, <1>2, TopFacts
<1>5. /\ f.v \in Blocks /\ n \in Blocks /\ r \in Blocks /\ f.name \in Blocks \cup {NULL}
      /\ f.todo \in Seq(Given) \cup Seq(Copied)
      /\ f.kind \in {"compound", "variables", "copy", "into"} /\ f.slot \in Slots \cup {NULL}
  BY <1>1, <1>2, <1>4 DEF Frames
<1>6. /\ heap[n].block = "mutator" /\ heap[r].block = "variable" /\ heap[f.v].block = "variable"
      /\ f.todo # <<>> /\ m.key # NULL /\ ~Has(heap, n, m.key)
  BY <1>1, <1>2, <1>4 DEF FrameIs
<1>7. m.key \in Keys
  <2>1. CASE f.todo \in Seq(Given)
    <3>1. m \in Given
      BY <1>1, <1>6, <2>1
    <3> QED
      BY <1>6, <3>1 DEF Given
  <2>2. CASE f.todo \in Seq(Copied)
    <3>1. m \in Copied
      BY <1>1, <1>6, <2>2
    <3> QED
      BY <1>6, <3>1 DEF Copied
  <2> QED
    BY <1>5, <2>1, <2>2
<1>8. /\ f.kind # "into" => /\ <<"frame", i>> \in Holders(f.v)
                            /\ n \in Children(heap, f.v)
      /\ f.kind = "into" => <<"parts", i>> \in Holders(n)
      /\ <<"made", i>> \in Holders(r)
  BY <1>1, <1>2, <1>4, FrameOwn
<1>9. r \in Held /\ r \in UsedBlocks(heap) /\ Holders(r) = {<<"made", i>>}
  BY <1>5, <1>8, HeldBy
<1>10. PICK e, z : e = heap[n].entries /\ z = [key |-> m.key, value |-> r]
  OBVIOUS
<1>11. /\ e \in Seq(Fields) /\ Singly(e)
       /\ \A j \in DOMAIN e : heap[e[j].value].block = "variable"
       /\ Children(heap, n) = {e[j].value : j \in DOMAIN e}
       /\ heap[n] \in MutatorCells
  BY <1>3, <1>5, <1>6, <1>10, CellFacts, CellIs, ChildIs DEF Linked, Singly
<1>12. z \in Fields /\ z.key = m.key /\ z.value = r
  BY <1>5, <1>7, <1>10 DEF Fields
<1>13. PICK d, g : d = Append(e, z) /\ g = [heap EXCEPT ![n] = MutatorOf(d)]
  OBVIOUS
<1>14. /\ d \in Seq(Fields) /\ Len(d) = Len(e) + 1 /\ DOMAIN d = 1..(Len(e) + 1)
       /\ DOMAIN e = 1..Len(e) /\ Len(e) \in Nat
       /\ \A j \in 1..Len(e) : d[j] = e[j]
       /\ d[Len(e) + 1] = z
  BY <1>11, <1>12, <1>13, AppendProperties
<1>15. /\ \A a \in Blocks : heap[a] \in Cells
       /\ heap \in [Blocks -> Cells]
  BY <1>3 DEF HeapTyped
<1>16. heap' = g
  <2>1. heap[n] = MutatorOf(e)
    BY <1>10, <1>11 DEF MutatorCells, MutatorOf
  <2>2. [heap[n] EXCEPT !.entries = d] = MutatorOf(d)
    BY <2>1 DEF MutatorOf
  <2>3. heap' = [heap EXCEPT ![n] = [heap[n] EXCEPT !.entries = d]]
    BY <1>2, <1>10, <1>13
  <2> QED
    BY <1>13, <2>2, <2>3
<1>17. /\ g \in [Blocks -> Cells] /\ g[n] = MutatorOf(d)
       /\ \A a \in Blocks : a # n => g[a] = heap[a]
  <2>1. MutatorOf(d) \in Cells
    BY <1>14 DEF MutatorOf, MutatorCells, Cells
  <2> QED
    BY <1>5, <1>13, <1>15, <2>1
<1>18. g[n].block = "mutator" /\ g[n].entries = d
  BY <1>17 DEF MutatorOf
<1>19. /\ \A a \in Blocks : a # n => Children(g, a) = Children(heap, a)
       /\ Children(g, n) = Children(heap, n) \cup {r}
  <2>1. \A a \in Blocks : a # n => Children(g, a) = Children(heap, a)
    BY <1>17, ChildrenSame
  <2>2. Children(g, n) = {d[j].value : j \in DOMAIN d}
    BY <1>18, ChildIs
  <2>3. ASSUME NEW x
        PROVE  x \in {d[j].value : j \in DOMAIN d} <=> x \in {e[j].value : j \in DOMAIN e} \cup {r}
    <3>1. ASSUME NEW j \in DOMAIN d, x = d[j].value
          PROVE  x \in {e[k].value : k \in DOMAIN e} \cup {r}
      <4>1. CASE j \in 1..Len(e)
        BY <1>14, <3>1, <4>1
      <4>2. CASE j \notin 1..Len(e)
        <5>1. j = Len(e) + 1
          BY <1>14, <3>1, <4>2
        <5> QED
          BY <1>12, <1>14, <3>1, <5>1
      <4> QED
        BY <4>1, <4>2
    <3>2. ASSUME NEW j \in DOMAIN e, x = e[j].value
          PROVE  \E k \in DOMAIN d : x = d[k].value
      <4>1. j \in DOMAIN d /\ d[j] = e[j]
        BY <1>14
      <4> QED
        BY <3>2, <4>1
    <3>3. r = d[Len(e) + 1].value /\ Len(e) + 1 \in DOMAIN d
      BY <1>12, <1>14
    <3> QED
      BY <3>1, <3>2, <3>3
  <2> QED
    BY <1>11, <2>1, <2>2, <2>3
<1>20. /\ \A a \in Blocks : Children(heap, a) \subseteq UsedBlocks(heap)
       /\ \A a, c \in Blocks : \A b \in UsedBlocks(heap) :
              b \in Children(heap, a) /\ b \in Children(heap, c) => a = c
       /\ \A a \in Blocks, b \in Held : b \notin Children(heap, a)
  BY <1>3, ForestKids
<1>21. HeapTyped(g)
  <2>1. \A a \in Blocks : g[a].block = heap[a].block
    BY <1>6, <1>17, <1>18
  <2>2. ASSUME NEW a \in Blocks
        PROVE  Linked(g, a)
    <3>1. CASE a # n
      <4>1. \A c \in Children(heap, a) : g[c].block = heap[c].block
        BY <1>3, <1>20, <2>1
      <4> QED
        BY <1>3, <1>17, <3>1, <4>1, LinkedKept
    <3>2. CASE a = n
      <4>1. ASSUME NEW j \in DOMAIN d
            PROVE  g[d[j].value].block = "variable"
        <5>1. CASE j \in 1..Len(e)
          <6>0. j \in DOMAIN e /\ e[j] \in Fields
            BY <1>11, <1>14, <5>1
          <6>1. d[j] = e[j] /\ e[j].value \in Blocks /\ heap[e[j].value].block = "variable"
            BY <1>11, <1>14, <5>1, <6>0 DEF Fields
          <6> QED
            BY <2>1, <6>1
        <5>2. CASE j \notin 1..Len(e)
          <6>1. d[j] = z
            BY <1>14, <4>1, <5>2
          <6> QED
            BY <1>5, <1>6, <1>12, <2>1, <6>1
        <5> QED
          BY <5>1, <5>2
      <4>2. \A j \in DOMAIN e : e[j].key # m.key /\ e[j].value # r
        <5>1. \A j \in DOMAIN e : e[j].value \in Children(heap, n)
          BY <1>11
        <5>2. r \notin Children(heap, n)
          BY <1>5, <1>9, <1>20
        <5> QED
          BY <1>6, <1>10, <5>1, <5>2 DEF Has, Entries
      <4>3. ASSUME NEW j \in DOMAIN d, NEW k \in DOMAIN d,
                   d[j].key = d[k].key \/ d[j].value = d[k].value
            PROVE  j = k
        <5>1. CASE j \in 1..Len(e) /\ k \in 1..Len(e)
          BY <1>11, <1>14, <4>3, <5>1 DEF Singly
        <5>2. CASE j \in 1..Len(e) /\ k \notin 1..Len(e)
          <6>1. d[j] = e[j] /\ d[k] = z /\ j \in DOMAIN e
            BY <1>14, <4>3, <5>2
          <6> QED
            BY <1>12, <4>2, <4>3, <6>1
        <5>3. CASE j \notin 1..Len(e) /\ k \in 1..Len(e)
          <6>1. d[k] = e[k] /\ d[j] = z /\ k \in DOMAIN e
            BY <1>14, <4>3, <5>3
          <6> QED
            BY <1>12, <4>2, <4>3, <6>1
        <5>4. CASE j \notin 1..Len(e) /\ k \notin 1..Len(e)
          BY <1>14, <4>3, <5>4
        <5> QED
          BY <5>1, <5>2, <5>3, <5>4
      <4> QED
        BY <1>18, <3>2, <4>1, <4>3 DEF Linked
    <3> QED
      BY <3>1, <3>2
  <2> QED
    BY <1>17, <2>2 DEF HeapTyped
<1>22. UsedBlocks(g) = UsedBlocks(heap) /\ n \in UsedBlocks(heap)
  BY <1>5, <1>6, <1>17, <1>18 DEF UsedBlocks, Unused
<1>23. PICK Z : Z = IF f.kind = "into" THEN {n} ELSE {n, f.v}
  OBVIOUS
<1>24. n \in Z /\ r \notin Z /\ \A a \in Blocks : Children(heap, a) \cap Z # {} => a \in Z
  <2>1. r # n
    BY <1>6
  <2>2. CASE f.kind = "into"
    <3>1. n \in Held
      BY <1>5, <1>8, <2>2, HeldBy
    <3> QED
      BY <1>20, <1>23, <2>1, <2>2, <3>1
  <2>3. CASE f.kind # "into"
    <3>1. f.v \in Held /\ Holders(f.v) = {<<"frame", i>>}
      BY <1>5, <1>8, <2>3, HeldBy
    <3>2. <<"frame", i>> # <<"made", i>>
      OBVIOUS
    <3>3. r # f.v
      BY <1>9, <3>1, <3>2
    <3>4. \A a \in Blocks : n \in Children(heap, a) => a = f.v
      BY <1>5, <1>8, <1>20, <2>3
    <3> QED
      BY <1>20, <1>23, <2>1, <2>3, <3>1, <3>3, <3>4
  <2> QED
    BY <2>2, <2>3
<1>25. IsForest(Kids(g), UsedBlocks(g), Held \ {r})
  <2>1. PICK K, L, U : K = Kids(heap) /\ L = Kids(g) /\ U = UsedBlocks(heap)
    OBVIOUS
  <2>2. \A a \in Blocks : K[a] = Children(heap, a) /\ L[a] = Children(g, a)
    BY <2>1 DEF Kids
  <2>3. \A a \in Blocks : L[a] = IF a = n THEN K[n] \cup {r} ELSE K[a]
    BY <1>5, <1>19, <2>2
  <2>4. \A a \in Blocks : K[a] \cap Z # {} => a \in Z
    BY <1>24, <2>2
  <2>5. IsForest(K, U, Held) /\ n \in U /\ r \in Held
    BY <1>3, <1>9, <1>22, <2>1
  <2>6. IsForest(L, U, Held \ {r})
    BY <1>24, <2>3, <2>4, <2>5, ForestGiven
  <2> QED
    BY <1>22, <2>1, <2>6
<1>26. PICK t : t = [f EXCEPT !.made = NULL, !.todo = Tail(@)]
  OBVIOUS
<1>27. /\ t.made = NULL /\ t.todo = Tail(f.todo) /\ t.kind = f.kind /\ t.v = f.v /\ t.n = n
       /\ t.name = f.name /\ t.slot = f.slot
  BY <1>1, <1>4, <1>26 DEF Frames
<1>28. Tail(f.todo) \in Seq(Given) \cup Seq(Copied)
  BY <1>5, <1>6
<1>29. t \in Frames
  BY <1>4, <1>26, <1>28 DEF Frames
<1>30. /\ stack' \in Seq(Frames) /\ stack' # <<>> /\ Len(stack') = i
       /\ DOMAIN stack' = DOMAIN stack
       /\ \A j \in 1..(i - 1) : stack'[j] = stack[j]
       /\ stack'[i] = t /\ Top' = t
       /\ \A b : /\ OfStack(stack', b) = OfStack(Front(stack), b) \cup OfFrame(t, i, b)
                 /\ OfStack(stack, b) = OfStack(Front(stack), b) \cup OfFrame(f, i, b)
                 /\ \A o \in OfStack(Front(stack), b) : o[2] # i
                 /\ \A o \in OfStack(stack, b) : o[1] \in {"frame", "parts", "made"}
  BY <1>1, <1>2, <1>26, <1>29, TopBecomes
<1>31. ASSUME NEW b \in Blocks
       PROVE  Holders(b)' = IF b = r THEN {} ELSE Holders(b)
  <2>1. OfFrame(t, i, b) = OfFrame(f, i, b) \ {<<"made", i>>}
    BY <1>1, <1>27, NullFacts DEF OfFrame
  <2>2. Holders(b)' = Holders(b) \ {<<"made", i>>}
    <3>1. Holders(b) = OfSlots(slots, b) \cup OfLost(lost, b) \cup OfStack(stack, b)
      BY HoldersAre
    <3>2. Holders(b)' = OfSlots(slots, b) \cup OfLost(lost, b) \cup OfStack(stack', b)
      BY <1>2, HoldersBecome
    <3>3. <<"made", i>> \notin OfSlots(slots, b) /\ <<"made", i>> \notin OfLost(lost, b)
      BY DEF OfSlots, OfLost
    <3>4. <<"made", i>> \notin OfStack(Front(stack), b)
      <4>1. <<"made", i>>[2] = i
        OBVIOUS
      <4> QED
        BY <1>30, <4>1
    <3> QED
      BY <1>30, <2>1, <3>1, <3>2, <3>3, <3>4
  <2>3. b # r => <<"made", i>> \notin Holders(b)
    <3>1. <<"made", i>> \in Holders(b) => <<"made", i>> \in OfFrame(f, i, b)
      <4>1. <<"made", i>>[2] = i /\ <<"made", i>>[1] = "made"
        OBVIOUS
      <4>2. <<"made", i>> \notin OfSlots(slots, b) /\ <<"made", i>> \notin OfLost(lost, b)
        BY DEF OfSlots, OfLost
      <4> QED
        BY <1>30, <4>1, <4>2, HoldersAre
    <3> QED
      BY <1>1, <3>1 DEF OfFrame
  <2> QED
    BY <1>9, <2>2, <2>3
<1>32. OneHolder' /\ Held' = (Held \ {r}) \cup {}
  <2>1. OneHolder
    BY DEF MemoryInv
  <2>2. PICK D, G : D = {r} /\ G = {}
    OBVIOUS
  <2>3. /\ D \in SUBSET Blocks /\ G \in SUBSET Blocks /\ D \cap G = {}
        /\ \A b \in Blocks : b \notin D /\ b \notin G => Holders(b)' = Holders(b)
        /\ \A b \in D : Holders(b)' = {}
        /\ \A b \in G : \E o : Holders(b)' = {o}
    BY <1>5, <1>31, <2>2
  <2> QED
    BY <2>1, <2>2, <2>3, HoldersMoved
<1>33. IsForest(Kids(heap'), UsedBlocks(heap'), Held')
  <2>1. Held' = Held \ {r}
    BY <1>32
  <2> QED
    BY <1>16, <1>25, <2>1
<1>34. PICK X : X = {}
  OBVIOUS
<1>35. Frees(heap, X, Held, X, n)
  BY <1>34 DEF Frees
<1>36. PointersRight'
  <2>1. \A a \in Blocks : heap'[a].block = heap[a].block
    BY <1>6, <1>16, <1>17, <1>18
  <2> QED
    BY <1>2, <2>1 DEF MemoryInv, PointersRight
<1>37. StackRight'
  <2>1. ASSUME NEW j \in 1..(i - 1)
        PROVE  FrameIs(heap', slots', stack'[j], j, FALSE)
    <3>1. PICK w : w = stack[j] /\ j \in DOMAIN stack /\ j # i
      BY <1>4
    <3>2. /\ w \in Frames /\ FrameIs(heap, slots, w, j, j = i)
          /\ w.kind # "into" => /\ <<"frame", j>> \in Holders(w.v)
                                /\ w.n \in Children(heap, w.v)
          /\ w.kind = "into" => <<"parts", j>> \in Holders(w.n)
      BY <1>1, <3>1, FrameOwn
    <3>3. w.n # n
      BY <1>1, <1>2, <3>1, FramesApart
    <3>4. FrameIs(g, slots, w, j, j = Len(stack))
      <4>1. SparesFrame(X, X, n, g, w)
        BY <1>3, <1>6, <1>17, <1>18, <1>34, <1>35, <3>3 DEF SparesFrame
      <4> QED
        BY <3>1, <4>1, FrameKept
    <3>5. (j = Len(stack)) = FALSE
      BY <1>1, <3>1
    <3> QED
      BY <1>2, <1>16, <1>30, <3>1, <3>4, <3>5
  <2>2. FrameIs(heap', slots', t, i, TRUE)
    <3>1. FrameIs(heap, slots, f, i, TRUE)
      BY <1>4
    <3>2. g[f.v] = heap[f.v]
      BY <1>5, <1>6, <1>17
    <3>3. f.kind = "into" /\ f.name # NULL => g[f.name] = heap[f.name]
      BY <1>5, <1>6, <1>17, <3>1 DEF FrameIs
    <3>4. IF t.kind = "compound" THEN t.todo \in Seq(Given) ELSE t.todo \in Seq(Copied)
      BY <1>6, <1>27, <3>1 DEF FrameIs
    <3> QED
      BY <1>1, <1>2, <1>16, <1>18, <1>27, <3>1, <3>2, <3>3, <3>4 DEF FrameIs
  <2>3. ASSUME NEW j \in DOMAIN stack'
        PROVE  FrameIs(heap', slots', stack'[j], j, j = Len(stack'))
    <3>1. CASE j = i
      <4>1. (j = Len(stack')) = TRUE
        BY <1>30, <3>1
      <4> QED
        BY <1>30, <2>2, <3>1, <4>1
    <3>2. CASE j # i
      <4>1. (j = Len(stack')) = FALSE /\ j \in 1..(i - 1)
        BY <1>4, <1>30, <3>2
      <4> QED
        BY <2>1, <4>1
    <3> QED
      BY <3>1, <3>2
  <2>4. failing' \in BOOLEAN /\ ~failing'
    BY <1>2, TopFacts
  <2> QED
    BY <1>30, <2>3, <2>4 DEF StackRight
<1>38. SourcesKept'
  <2>1. PICK O \in SUBSET Blocks : IsKept(O)
    BY <1>2, TopFacts
  <2>2. n \notin O
    BY <1>1, <1>4, <2>1, KeptFacts
  <2>3. ASSUME NEW j \in DOMAIN stack', stack'[j].kind # "compound", NEW k \in DOMAIN stack'[j].todo
        PROVE  /\ stack'[j].todo[k].from \in O
               /\ heap[stack'[j].todo[k].from].block = "variable"
    <3>1. \A l \in DOMAIN stack : stack[l].kind # "compound" =>
              \A p \in DOMAIN stack[l].todo :
                  stack[l].todo[p].from \in O /\ heap[stack[l].todo[p].from].block = "variable"
      BY <2>1 DEF IsKept
    <3>2. CASE j = i
      <4>1. k + 1 \in DOMAIN f.todo /\ Tail(f.todo)[k] = f.todo[k + 1]
        <5>1. k \in DOMAIN Tail(f.todo)
          BY <1>27, <1>30, <2>3, <3>2
        <5>2. PICK q : q = f.todo
          OBVIOUS
        <5>3. q \in Seq(Given) \/ q \in Seq(Copied)
          BY <1>5, <5>2
        <5>4. \A Q : q \in Seq(Q) => k + 1 \in DOMAIN q /\ Tail(q)[k] = q[k + 1]
          BY <1>6, <5>1, <5>2
        <5> QED
          BY <5>2, <5>3, <5>4
      <4>2. stack'[j].todo = Tail(f.todo) /\ f.kind # "compound"
        BY <1>27, <1>30, <2>3, <3>2
      <4> QED
        BY <1>4, <3>1, <4>1, <4>2
    <3>3. CASE j # i
      <4>1. j \in DOMAIN stack /\ stack'[j] = stack[j]
        BY <1>4, <1>30, <3>3
      <4> QED
        BY <2>3, <3>1, <4>1
    <3> QED
      BY <3>2, <3>3
  <2>4. \A a \in UsedBlocks(heap) : a \notin X /\ a # n => heap'[a] = heap[a]
    BY <1>3, <1>16, <1>17
  <2>5. X \cap O = {}
    BY <1>34
  <2>6. IsKept(O)'
    BY <1>2, <1>35, <2>1, <2>2, <2>3, <2>4, <2>5, KeptStep
  <2> QED
    BY <2>6 DEF SourcesKept
<1> QED
  BY <1>16, <1>21, <1>32, <1>33, <1>36, <1>37, <1>38 DEF MemoryInv

(* A former member is deleted, and there is no other in its place.         *)
LEMMA MemberFailsStep ==
    ASSUME MemoryInv, MemberFails
    PROVE  MemoryInv'
<1>1. PICK f, n, i, key : f = Top /\ n = f.n /\ i = Len(stack) /\ key = Member.key
  OBVIOUS
<1>2. /\ stack # <<>> /\ f.made = NULL /\ slots' = slots /\ stack' = stack /\ lost' = lost
      /\ failing' = TRUE
      /\ heap' = IF key = NULL THEN heap ELSE WithoutFormer(heap, n, key)
  BY <1>1 DEF MemberFails, Working, Idle
<1>3. HeapTyped(heap) /\ IsForest(Kids(heap), UsedBlocks(heap), Held)
      /\ UsedBlocks(heap) \subseteq Blocks /\ stack \in Seq(Frames)
  BY InvFacts
<1>4. /\ i \in Nat /\ i >= 1 /\ i \in DOMAIN stack /\ DOMAIN stack = 1..i
      /\ f = stack[i] /\ f \in Frames /\ FrameIs(heap, slots, f, i, TRUE)
  BY <1>1, <1>2, TopFacts
<1>5. n \in Blocks /\ heap[n].block = "mutator"
  BY <1>1, <1>4 DEF Frames, FrameIs
<1>6. PICK X : /\ HeapTyped(heap') /\ IsForest(Kids(heap'), UsedBlocks(heap'), Held)
               /\ Frees(heap, X, Held, {}, n) /\ n \notin X
               /\ \A a \in Blocks : a # n /\ a \notin X => heap'[a] = heap[a]
               /\ heap'[n].block = "mutator" /\ \A k : Has(heap', n, k) => Has(heap, n, k)
  <2>1. CASE key = NULL
    <3>1. Frees(heap, {}, Held, {}, n)
      BY DEF Frees
    <3> QED
      BY <1>2, <1>3, <1>5, <2>1, <3>1
  <2>2. CASE key # NULL
    <3>1. PICK X, g : /\ g = WithoutFormer(heap, n, key) /\ HeapTyped(g)
                      /\ IsForest(Kids(g), UsedBlocks(g), Held)
                      /\ Frees(heap, X, Held, {}, n) /\ IsRemoved(heap, g, X, n, key)
      BY <1>3, <1>5, RemovedFacts, Zenon
    <3>2. heap' = g
      BY <1>2, <2>2, <3>1
    <3> QED
      BY <3>1, <3>2 DEF IsRemoved
  <2> QED
    BY <2>1, <2>2
<1>7. Survives(X, {}, n, heap')
  BY <1>1, <1>3, <1>5, <1>6 DEF Survives
<1>8. OneHolder' /\ Held' = Held
  BY <1>2, HoldersSame
<1>9. PointersRight'
  BY <1>2, <1>7, PointersSurvive
<1>10. FrameIs(heap', slots, f, i, TRUE)
  <2>1. SparesFrame(X, {}, n, heap', f)
    BY <1>3, <1>5, <1>6 DEF SparesFrame
  <2>2. FrameIs(heap', slots, f, i, i = Len(stack))
    BY <1>4, <2>1, FrameKept
  <2> QED
    BY <1>1, <2>2 DEF FrameIs
<1>11. StackRight'
  <2>1. ASSUME NEW j \in DOMAIN stack'
        PROVE  \/ j \in 1..(Len(stack) - 1) /\ stack'[j] = stack[j] /\ j # Len(stack')
               \/ FrameIs(heap', slots, stack'[j], j, j = Len(stack'))
    <3>1. CASE j = i
      BY <1>1, <1>2, <1>4, <1>10, <3>1 DEF FrameIs
    <3>2. CASE j # i
      BY <1>1, <1>2, <1>4, <3>2
    <3> QED
      BY <3>1, <3>2
  <2>2. Top' = f
    BY <1>1, <1>2 DEF Top
  <2> QED
    BY <1>2, <1>3, <1>7, <2>1, <2>2, StackSurvives
<1>12. SourcesKept'
  BY <1>2, <1>7, SourcesSurvive DEF IsKept
<1> QED
  BY <1>6, <1>8, <1>9, <1>11, <1>12 DEF MemoryInv

(* The member that was to be set has no function any more.                 *)
MadeTaken(f, r, t) ==
    /\ f = Top /\ r = f.made /\ r # NULL /\ t \in Frames
    /\ t.kind = f.kind /\ t.v = f.v /\ t.n = f.n /\ t.name = f.name /\ t.made = NULL
    /\ stack' = PopTo(t) /\ slots' = slots

LEMMA MadeFacts ==
    ASSUME MemoryInv, stack # <<>>, NEW f, NEW r, NEW t, MadeTaken(f, r, t)
    PROVE  /\ r \in Blocks /\ r \in Held /\ Holders(r) = {<<"made", Len(stack)>>}
           /\ heap[r].block = "variable"
           /\ \A b \in Blocks : b # r =>
                  Holders(b)' = OfSlots(slots, b) \cup OfLost(lost', b) \cup OfStack(stack, b)
           /\ Holders(r)' = OfLost(lost', r)
<1>1. /\ f = Top /\ r = f.made /\ r # NULL /\ t \in Frames
      /\ t.kind = f.kind /\ t.v = f.v /\ t.n = f.n /\ t.name = f.name /\ t.made = NULL
      /\ stack' = PopTo(t) /\ slots' = slots
  BY DEF MadeTaken
<1>2. PICK i, o : i = Len(stack) /\ o = <<"made", i>>
  OBVIOUS
<1>3. /\ i \in DOMAIN stack /\ f = stack[i] /\ f \in Frames /\ FrameIs(heap, slots, f, i, TRUE)
  BY <1>1, <1>2, TopFacts
<1>4. r \in Blocks /\ heap[r].block = "variable"
  BY <1>1, <1>3 DEF Frames, FrameIs
<1>5. o \in Holders(r)
  BY <1>1, <1>2, <1>3, FrameOwn
<1>6. Holders(r) = {o} /\ r \in Held
  BY <1>4, <1>5, HeldBy
<1>7. \A b : /\ OfStack(stack', b) = OfStack(Front(stack), b) \cup OfFrame(t, i, b)
             /\ OfStack(stack, b) = OfStack(Front(stack), b) \cup OfFrame(f, i, b)
             /\ \A p \in OfStack(Front(stack), b) : p[2] # i
  BY <1>1, <1>2, TopBecomes
<1>8. ASSUME NEW b \in Blocks
      PROVE  /\ OfStack(stack', b) = OfStack(stack, b) \ {o}
             /\ b # r => o \notin OfStack(stack, b)
  <2>1. OfFrame(t, i, b) = OfFrame(f, i, b) \ {o}
    BY <1>1, <1>2, NullFacts DEF OfFrame
  <2>2. o \notin OfStack(Front(stack), b)
    <3>1. o[2] = i
      BY <1>2
    <3> QED
      BY <1>7, <3>1
  <2>3. b # r => o \notin OfFrame(f, i, b)
    BY <1>1, <1>2 DEF OfFrame
  <2> QED
    BY <1>7, <2>1, <2>2, <2>3
<1>9. \A b \in Blocks : o \notin OfSlots(slots, b) /\ o \notin OfLost(lost, b)
  BY <1>2 DEF OfSlots, OfLost
<1>10. Holders(r) = OfSlots(slots, r) \cup OfLost(lost, r) \cup OfStack(stack, r)
  BY HoldersAre
<1>11. OfSlots(slots, r) = {} /\ OfStack(stack, r) \subseteq {o}
  BY <1>4, <1>6, <1>9, <1>10
<1>12. ASSUME NEW b \in Blocks
       PROVE  Holders(b)' = OfSlots(slots, b) \cup OfLost(lost', b) \cup (OfStack(stack, b) \ {o})
  BY <1>1, <1>8, HoldersBecome
<1>13. Holders(r)' = OfLost(lost', r)
  BY <1>4, <1>11, <1>12
<1>14. \A b \in Blocks : b # r =>
           Holders(b)' = OfSlots(slots, b) \cup OfLost(lost', b) \cup OfStack(stack, b)
  BY <1>8, <1>12
<1> QED
  BY <1>2, <1>4, <1>6, <1>13, <1>14

(* The blocks in D go, with those beneath: X.                              *)
GoesOn(X, D) ==
    /\ Survives(X, D, NULL, heap') /\ HeapTyped(heap') /\ OneHolder'
    /\ IsForest(Kids(heap'), UsedBlocks(heap'), Held')
    /\ \A l \in lost' : \/ l \in lost /\ l \notin D
                        \/ l \in Blocks /\ heap'[l].block = "variable"

LEMMA SetFailsStep ==
    ASSUME MemoryInv, SetFails
    PROVE  MemoryInv'
<1>1. PICK f, r, i, t : /\ f = Top /\ r = f.made /\ i = Len(stack)
                        /\ t = [f EXCEPT !.made = NULL]
  OBVIOUS
<1>2. /\ stack # <<>> /\ r # NULL /\ stack' = PopTo(t) /\ failing' = TRUE /\ slots' = slots
      /\ \/ lost' = lost \cup {r} /\ heap' = heap
         \/ heap' = Deleted(heap, r) /\ lost' = lost
  BY <1>1 DEF SetFails, Working, Idle
<1>3. /\ HeapTyped(heap) /\ IsForest(Kids(heap), UsedBlocks(heap), Held)
      /\ UsedBlocks(heap) \subseteq Blocks /\ OneHolder
  BY InvFacts DEF MemoryInv
<1>4. /\ i \in Nat /\ i >= 1 /\ i \in DOMAIN stack /\ DOMAIN stack = 1..i
      /\ f = stack[i] /\ f \in Frames /\ FrameIs(heap, slots, f, i, TRUE)
  BY <1>1, <1>2, TopFacts
<1>5. /\ t \in Frames /\ t.made = NULL /\ t.todo = f.todo /\ t.kind = f.kind /\ t.v = f.v
      /\ t.n = f.n /\ t.name = f.name /\ t.slot = f.slot
  BY <1>1, <1>4 DEF Frames
<1>6. MadeTaken(f, r, t)
  BY <1>1, <1>2, <1>5 DEF MadeTaken
<1>7. /\ r \in Blocks /\ r \in Held /\ Holders(r) = {<<"made", i>>} /\ heap[r].block = "variable"
      /\ \A b \in Blocks : b # r =>
             Holders(b)' = OfSlots(slots, b) \cup OfLost(lost', b) \cup OfStack(stack, b)
      /\ Holders(r)' = OfLost(lost', r)
  BY <1>1, <1>2, <1>6, MadeFacts
<1>8. /\ stack' \in Seq(Frames) /\ stack' # <<>> /\ Len(stack') = i /\ DOMAIN stack' = DOMAIN stack
      /\ \A j \in 1..(i - 1) : stack'[j] = stack[j]
      /\ stack'[i] = t /\ Top' = t
  BY <1>1, <1>2, <1>5, TopBecomes
<1>9. PICK X, D : GoesOn(X, D) /\ D \subseteq {r}
  <2>1. NULL \notin Blocks
    BY NullFacts
  <2>2. CASE lost' = lost \cup {r} /\ heap' = heap
    <3>1. PICK X, G : X = {} /\ G = {r}
      OBVIOUS
    <3>2. Survives(X, X, NULL, heap')
      BY <2>1, <2>2, <3>1, NothingFreed DEF Survives, FreesNothing
    <3>3. \A b \in Blocks : b # r => Holders(b)' = Holders(b)
      <4>1. \A b \in Blocks : b # r => OfLost(lost', b) = OfLost(lost, b)
        BY <2>2 DEF OfLost
      <4> QED
        BY <1>7, <4>1, HoldersAre
    <3>4. Holders(r)' = {<<"lost", r>>}
      BY <1>7, <2>2 DEF OfLost
    <3>5. /\ X \in SUBSET Blocks /\ G \in SUBSET Blocks /\ X \cap G = {}
          /\ \A b \in Blocks : b \notin X /\ b \notin G => Holders(b)' = Holders(b)
          /\ \A b \in X : Holders(b)' = {}
          /\ \A b \in G : \E o : Holders(b)' = {o}
      BY <1>7, <3>1, <3>3, <3>4
    <3>6. OneHolder' /\ Held' = (Held \ X) \cup G
      BY <1>3, <3>5, HoldersMoved
    <3>7. Held' = Held
      BY <1>7, <3>1, <3>6
    <3>8. IsForest(Kids(heap'), UsedBlocks(heap'), Held')
      BY <1>3, <2>2, <3>7
    <3>9. GoesOn(X, X)
      <4>1. HeapTyped(heap')
        BY <1>3, <2>2
      <4>2. \A l \in lost' : \/ l \in lost /\ l \notin X
                             \/ l \in Blocks /\ heap'[l].block = "variable"
        BY <1>7, <2>2, <3>1
      <4> QED
        BY <3>2, <3>6, <3>8, <4>1, <4>2 DEF GoesOn
    <3>10. X \subseteq {r}
      BY <3>1
    <3> QED
      BY <3>9, <3>10, Zenon
  <2>3. CASE heap' = Deleted(heap, r) /\ lost' = lost
    <3>1. PICK T, G : T = {r} /\ G = {}
      OBVIOUS
    <3>2. MayDelete(heap, Held, T, r)
      BY <1>3, <1>7, <3>1 DEF MayDelete
    <3>3. PICK X, g : X = T \cup Beneath(heap)[r] /\ IsDeleted(heap, g, Held, T, X)
      BY <3>2, DeletedFacts
    <3>4. /\ heap' = g /\ HeapTyped(heap') /\ Frees(heap, X, Held, T, NULL)
          /\ IsForest(Kids(heap'), UsedBlocks(heap'), Held \ T)
          /\ \A a \in Blocks : heap'[a] = IF a \in X THEN Unused ELSE heap[a]
      BY <2>3, <3>1, <3>3 DEF IsDeleted, Deleted
    <3>5. Survives(X, T, NULL, heap')
      <4>1. \A o \in Holders(r) : o[1] # "slot" /\ o[2] = i
        BY <1>7
      <4> QED
        BY <1>1, <1>3, <1>7, <2>1, <3>1, <3>4, <4>1 DEF Survives
    <3>6. Holders(r)' = {}
      <4>1. <<"lost", r>> # <<"made", i>>
        OBVIOUS
      <4>2. r \notin lost
        BY <1>7, <4>1, SlotHolds
      <4> QED
        BY <1>7, <2>3, <4>2 DEF OfLost
    <3>7. \A b \in Blocks : b # r => Holders(b)' = Holders(b)
      BY <1>7, <2>3, HoldersAre
    <3>8. /\ T \in SUBSET Blocks /\ G \in SUBSET Blocks /\ T \cap G = {}
          /\ \A b \in Blocks : b \notin T /\ b \notin G => Holders(b)' = Holders(b)
          /\ \A b \in T : Holders(b)' = {}
          /\ \A b \in G : \E o : Holders(b)' = {o}
      BY <1>7, <3>1, <3>6, <3>7
    <3>9. OneHolder' /\ Held' = (Held \ T) \cup G
      BY <1>3, <3>8, HoldersMoved
    <3>10. Held' = Held \ T
      BY <3>1, <3>9
    <3>11. r \notin lost
      <4>1. <<"lost", r>> # <<"made", i>>
        OBVIOUS
      <4> QED
        BY <1>7, <4>1, SlotHolds
    <3>12. IsForest(Kids(heap'), UsedBlocks(heap'), Held')
      BY <3>4, <3>10
    <3>13. GoesOn(X, T)
      <4>1. \A l \in lost' : l \in lost /\ l \notin T
        BY <2>3, <3>1, <3>11
      <4> QED
        BY <3>4, <3>5, <3>9, <3>12, <4>1 DEF GoesOn
    <3>14. T \subseteq {r}
      BY <3>1
    <3> QED
      BY <3>13, <3>14, Zenon
  <2> QED
    BY <1>2, <2>2, <2>3
<1>10. PointersRight'
  BY <1>2, <1>9, PointersSurvive DEF GoesOn
<1>11. FrameIs(heap', slots, t, i, TRUE)
  <2>1. SparesFrame(X, D, NULL, heap', t)
    <3>1. \A d \in D : d = r /\ d # NULL
      BY <1>2, <1>9
    <3>2. t.v # r /\ t.n # r
      <4>1. heap[f.n].block = "mutator"
        BY <1>4 DEF FrameIs
      <4>2. ASSUME f.v = r
            PROVE  FALSE
        <5>1. f.kind # "into" => <<"frame", i>> \in Holders(r)
          BY <1>4, <4>2, FrameOwn
        <5>2. f.kind = "into" => <<"slot", f.slot>> \in Holders(r)
          BY <1>4, <4>2, FrameOwn
        <5>3. <<"frame", i>> # <<"made", i>> /\ <<"slot", f.slot>> # <<"made", i>>
          OBVIOUS
        <5> QED
          BY <1>7, <5>1, <5>2, <5>3
      <4> QED
        BY <1>5, <1>7, <4>1, <4>2
    <3>3. t.kind = "into" => t.name # r
      <4>1. f.kind = "into" /\ f.name # NULL => heap[f.name].block = "string"
        BY <1>4 DEF FrameIs
      <4> QED
        BY <1>2, <1>5, <1>7, <4>1
    <3>4. /\ Frees(heap, X, Held, D, NULL)
          /\ \A a \in UsedBlocks(heap) : a \notin X /\ a # NULL => heap'[a] = heap[a]
      BY <1>9 DEF GoesOn, Survives
    <3> QED
      BY <1>5, <3>1, <3>2, <3>3, <3>4, NullFacts, TopFacts, <1>2 DEF SparesFrame, Frames
  <2>2. FrameIs(heap', slots, t, i, i = Len(stack))
    BY <1>1, <1>4, <2>1, FrameKept
  <2> QED
    BY <1>1, <2>2 DEF FrameIs
<1>12. StackRight'
  <2>1. ASSUME NEW j \in DOMAIN stack'
        PROVE  \/ j \in 1..(Len(stack) - 1) /\ stack'[j] = stack[j] /\ j # Len(stack')
               \/ FrameIs(heap', slots, stack'[j], j, j = Len(stack'))
    <3>1. CASE j = i
      BY <1>8, <1>11, <3>1 DEF FrameIs
    <3>2. CASE j # i
      BY <1>1, <1>4, <1>8, <3>2
    <3> QED
      BY <3>1, <3>2
  <2> QED
    BY <1>2, <1>5, <1>8, <1>9, <2>1, StackSurvives DEF GoesOn
<1>13. SourcesKept'
  <2>1. ASSUME NEW O \in SUBSET Blocks, IsKept(O), NEW j \in DOMAIN stack',
               stack'[j].kind # "compound", NEW k \in DOMAIN stack'[j].todo
        PROVE  /\ stack'[j].todo[k].from \in O
               /\ heap[stack'[j].todo[k].from].block = "variable"
    <3>1. stack'[j].kind = stack[j].kind /\ stack'[j].todo = stack[j].todo /\ j \in DOMAIN stack
      <4>1. CASE j = i
        BY <1>4, <1>5, <1>8, <4>1
      <4>2. CASE j # i
        BY <1>4, <1>8, <4>2
      <4> QED
        BY <4>1, <4>2
    <3> QED
      BY <2>1, <3>1 DEF IsKept
  <2> QED
    BY <1>2, <1>9, <2>1, SourcesSurvive DEF GoesOn
<1> QED
  BY <1>9, <1>10, <1>12, <1>13 DEF GoesOn, MemoryInv

(* The last function returns: what it had it has no more.                  *)
LeftBy(f) == IF f.kind = "into" THEN {f.n, f.name} \ {NULL} ELSE {f.v}

IsTaken(T) ==
    /\ T \subseteq Held /\ T \subseteq Blocks
    /\ \A b \in T : \A o \in Holders(b) : o[1] # "slot" /\ o[2] = Len(stack)
    /\ \A b \in T : OfSlots(slots, b) = {} /\ OfLost(lost, b) = {}
                    /\ OfStack(Front(stack), b) = {}
    /\ \A b \in Blocks : b \notin T => OfStack(stack, b) = OfStack(Front(stack), b)

LEMMA FrameTaken ==
    ASSUME MemoryInv, stack # <<>>, Top.made = NULL
    PROVE  IsTaken(LeftBy(Top))
<1>0. PICK T : T = LeftBy(Top)
  OBVIOUS
<1>1. PICK f, i : f = Top /\ i = Len(stack)
  OBVIOUS
<1>2. i \in DOMAIN stack /\ f = stack[i] /\ f \in Frames /\ stack \in Seq(Frames)
  BY <1>1, TopFacts, InvFacts
<1>3. PICK c : c = IF f.kind = "into" THEN "parts" ELSE "frame"
  OBVIOUS
<1>4. \A b \in T : b \in Blocks /\ <<c, i>> \in Holders(b)
  <2>1. f.n \in Blocks /\ f.v \in Blocks /\ f.name \in Blocks \cup {NULL}
    BY <1>2 DEF Frames
  <2>2. /\ f.kind # "into" => <<"frame", i>> \in Holders(f.v)
        /\ f.kind = "into" => /\ <<"parts", i>> \in Holders(f.n)
                              /\ f.name # NULL => <<"parts", i>> \in Holders(f.name)
    BY <1>2, FrameOwn
  <2> QED
    BY <1>0, <1>1, <1>3, <2>1, <2>2 DEF LeftBy
<1>5. \A b \in T : Holders(b) = {<<c, i>>} /\ b \in Held
  BY <1>4, HeldBy
<1>6. c # "slot" /\ c # "lost" /\ <<c, i>>[1] = c /\ <<c, i>>[2] = i
  BY <1>3
<1>7. \A b : /\ OfStack(stack, b) = OfStack(Front(stack), b) \cup OfFrame(f, i, b)
             /\ \A o \in OfStack(Front(stack), b) : o[2] # i
  BY <1>1, <1>2, StackOfFront DEF Top
<1>8. ASSUME NEW b \in T
      PROVE  OfSlots(slots, b) = {} /\ OfLost(lost, b) = {} /\ OfStack(Front(stack), b) = {}
  <2>1. Holders(b) = OfSlots(slots, b) \cup OfLost(lost, b) \cup OfStack(stack, b)
    BY HoldersAre
  <2>2. \A o \in OfSlots(slots, b) : o[1] = "slot"
    BY DEF OfSlots
  <2>3. \A o \in OfLost(lost, b) : o[1] = "lost"
    BY DEF OfLost
  <2>4. \A o \in Holders(b) : o[1] # "slot" /\ o[1] # "lost" /\ o[2] = i
    BY <1>5, <1>6
  <2> QED
    BY <1>7, <2>1, <2>2, <2>3, <2>4
<1>9. ASSUME NEW b \in Blocks, b \notin T
      PROVE  OfFrame(f, i, b) = {}
  BY <1>0, <1>1, <1>9, NullFacts DEF OfFrame, LeftBy
<1>10. \A b \in T : \A o \in Holders(b) : o[1] # "slot" /\ o[2] = i
  BY <1>5, <1>6
<1> QED
  <2>1. T \subseteq Held /\ T \subseteq Blocks
    BY <1>4, <1>5
  <2>2. \A b \in Blocks : b \notin T => OfStack(stack, b) = OfStack(Front(stack), b)
    BY <1>7, <1>9
  <2>3. IsTaken(T)
    BY <1>1, <1>8, <1>10, <2>1, <2>2 DEF IsTaken
  <2> QED
    BY <1>0, <2>3

LEMMA FailStep ==
    ASSUME MemoryInv, Fail
    PROVE  MemoryInv'
<1>1. PICK f, i, T, v : /\ f = Top /\ i = Len(stack)
                        /\ T = LeftBy(f)
                        /\ v = IF f.kind = "into" THEN f.n ELSE f.v
  OBVIOUS
<1>2. /\ failing /\ slots' = slots /\ lost' = lost /\ stack' = Front(stack)
      /\ failing' = (i > 1) /\ heap' = Without(heap, OwnedBy(f))
  BY <1>1 DEF Fail
<1>3. stack # <<>> /\ f.made = NULL
  BY <1>1, <1>2 DEF MemoryInv, StackRight
<1>4. /\ HeapTyped(heap) /\ IsForest(Kids(heap), UsedBlocks(heap), Held)
      /\ UsedBlocks(heap) \subseteq Blocks /\ OneHolder /\ stack \in Seq(Frames)
  BY InvFacts DEF MemoryInv
<1>5. /\ i \in Nat /\ i >= 1 /\ i \in DOMAIN stack /\ DOMAIN stack = 1..i
      /\ f = stack[i] /\ f \in Frames /\ FrameIs(heap, slots, f, i, TRUE)
      /\ \A j \in 1..(i - 1) : FrameIs(heap, slots, stack[j], j, FALSE)
  BY <1>1, <1>3, TopFacts
<1>6. /\ T \subseteq Held /\ T \subseteq Blocks
      /\ \A b \in T : \A o \in Holders(b) : o[1] # "slot" /\ o[2] = Len(stack)
      /\ \A b \in T : OfSlots(slots, b) = {} /\ OfLost(lost, b) = {}
                      /\ OfStack(Front(stack), b) = {}
      /\ \A b \in Blocks : b \notin T => OfStack(stack, b) = OfStack(Front(stack), b)
  BY <1>1, <1>3, FrameTaken DEF IsTaken
<1>7. f.n \in Blocks /\ f.v \in Blocks /\ v \in T
  BY <1>1, <1>5, NullFacts DEF Frames, LeftBy
<1>8. OwnedBy(f) = T \cup Beneath(heap)[v]
  BY <1>1, <1>7 DEF OwnedBy, LeftBy
<1>9. MayDelete(heap, Held, T, v)
  <2>1. ASSUME NEW t \in T, t # v
        PROVE  Children(heap, t) = {}
    <3>1. t \in Blocks /\ heap[t].block = "string"
      BY <1>1, <1>5, <1>6, <2>1 DEF FrameIs, LeftBy
    <3> QED
      BY <3>1, ChildIs
  <2> QED
    BY <1>4, <1>6, <1>7, <2>1 DEF MayDelete
<1>10. PICK X, g : X = T \cup Beneath(heap)[v] /\ IsDeleted(heap, g, Held, T, X)
  BY <1>9, DeletedFacts
<1>11. /\ HeapTyped(heap') /\ Frees(heap, X, Held, T, NULL)
       /\ IsForest(Kids(heap'), UsedBlocks(heap'), Held \ T)
       /\ \A a \in Blocks : heap'[a] = IF a \in X THEN Unused ELSE heap[a]
  BY <1>2, <1>8, <1>10 DEF IsDeleted
<1>12. Survives(X, T, NULL, heap')
  BY <1>4, <1>6, <1>11, NullFacts DEF Survives
<1>13. ASSUME NEW b \in Blocks
       PROVE  Holders(b)' = IF b \in T THEN {} ELSE Holders(b)
  <2>1. Holders(b) = OfSlots(slots, b) \cup OfLost(lost, b) \cup OfStack(stack, b)
    BY HoldersAre
  <2>2. Holders(b)' = OfSlots(slots, b) \cup OfLost(lost, b) \cup OfStack(Front(stack), b)
    BY <1>2, HoldersBecome
  <2>3. CASE b \in T
    BY <1>6, <2>2, <2>3
  <2>4. CASE b \notin T
    BY <1>6, <2>1, <2>2, <2>4
  <2> QED
    BY <2>3, <2>4
<1>14. OneHolder' /\ Held' = (Held \ T) \cup {}
  <2>1. PICK G : G = {}
    OBVIOUS
  <2>2. /\ T \in SUBSET Blocks /\ G \in SUBSET Blocks /\ T \cap G = {}
        /\ \A b \in Blocks : b \notin T /\ b \notin G => Holders(b)' = Holders(b)
        /\ \A b \in T : Holders(b)' = {}
        /\ \A b \in G : \E o : Holders(b)' = {o}
    BY <1>6, <1>13, <2>1
  <2> QED
    BY <1>4, <2>1, <2>2, HoldersMoved
<1>15. IsForest(Kids(heap'), UsedBlocks(heap'), Held')
  <2>1. Held' = Held \ T
    BY <1>14
  <2> QED
    BY <1>11, <2>1
<1>16. PointersRight'
  <2>1. \A l \in lost : l \notin T
    <3>1. \A l \in lost : <<"lost", l>> \in OfLost(lost, l)
      BY DEF OfLost
    <3> QED
      BY <1>6, <3>1
  <2> QED
    BY <1>2, <1>12, <2>1, PointersSurvive
<1>17. /\ stack' \in Seq(Frames) /\ Len(stack') = i - 1 /\ DOMAIN stack' = 1..(i - 1)
       /\ \A j \in 1..(i - 1) : stack'[j] = stack[j]
  <2>1. PICK r : r = Front(stack)
    OBVIOUS
  <2>2. /\ r \in Seq(Frames) /\ Len(r) = i - 1 /\ DOMAIN r = 1..(i - 1)
        /\ \A j \in 1..(i - 1) : r[j] = stack[j]
    BY <1>1, <1>3, <1>4, <2>1, StackTop
  <2> QED
    BY <1>2, <2>1, <2>2
<1>18. StackRight'
  <2>1. ASSUME NEW j \in DOMAIN stack'
        PROVE  \/ j \in 1..(Len(stack) - 1) /\ stack'[j] = stack[j] /\ j # Len(stack')
               \/ FrameIs(heap', slots, stack'[j], j, j = Len(stack'))
    <3>1. CASE j = i - 1
      <4>1. FrameIs(heap', slots, stack[j], j, FALSE)
        BY <1>1, <1>3, <1>12, <1>17, FrontSurvives
      <4> QED
        BY <1>17, <3>1, <4>1 DEF FrameIs
    <3>2. CASE j # i - 1
      BY <1>1, <1>17, <3>2
    <3> QED
      BY <3>1, <3>2
  <2>2. failing' => stack' # <<>> /\ Top'.made = NULL
    <3>1. SUFFICES ASSUME i > 1
                   PROVE  stack' # <<>> /\ Top'.made = NULL
      BY <1>2
    <3>2. i - 1 \in 1..(i - 1) /\ i - 1 \in Nat /\ i - 1 # 0
      BY <1>5, <3>1
    <3>3. stack' # <<>>
      BY <1>17, <3>2
    <3>4. Top' = stack[i - 1]
      BY <1>17, <3>2 DEF Top, Last
    <3>5. stack[i - 1].made = NULL
      BY <1>5, <3>2 DEF FrameIs
    <3> QED
      BY <3>3, <3>4, <3>5
  <2>3. failing' \in BOOLEAN
    BY <1>2
  <2> QED
    BY <1>2, <1>3, <1>12, <1>17, <2>1, <2>2, <2>3, StackSurvives
<1>19. SourcesKept'
  <2>1. ASSUME NEW O \in SUBSET Blocks, IsKept(O), NEW j \in DOMAIN stack',
               stack'[j].kind # "compound", NEW k \in DOMAIN stack'[j].todo
        PROVE  /\ stack'[j].todo[k].from \in O
               /\ heap[stack'[j].todo[k].from].block = "variable"
    <3>1. j \in DOMAIN stack /\ stack'[j] = stack[j]
      BY <1>5, <1>17
    <3> QED
      BY <2>1, <3>1 DEF IsKept
  <2> QED
    BY <1>2, <1>3, <1>12, <2>1, SourcesSurvive
<1> QED
  BY <1>11, <1>14, <1>15, <1>16, <1>18, <1>19 DEF MemoryInv

(* A function returns to the one that copies the compound around it.       *)
GivesMade(r, k, v, b) ==
    OfStack([r EXCEPT ![k].made = v], b)
        = OfStack(r, b) \cup (IF b = v THEN {<<"made", k>>} ELSE {})

LEMMA MadeGiven ==
    ASSUME NEW r \in Seq(Frames), NEW k \in DOMAIN r, r[k].made = NULL, NEW v \in Blocks,
           NEW b \in Blocks
    PROVE  GivesMade(r, k, v, b)
<1>1. PICK t, w : t = [r EXCEPT ![k].made = v] /\ w = [r[k] EXCEPT !.made = v]
  OBVIOUS
<1>2. r[k] \in Frames
  OBVIOUS
<1>3. DOMAIN t = DOMAIN r /\ t[k] = w /\ \A j \in DOMAIN r : j # k => t[j] = r[j]
  BY <1>1
<1>4. /\ w.kind = r[k].kind /\ w.v = r[k].v /\ w.n = r[k].n /\ w.name = r[k].name /\ w.made = v
  BY <1>1, <1>2 DEF Frames
<1>5. OfFrame(w, k, b) = OfFrame(r[k], k, b) \cup (IF b = v THEN {<<"made", k>>} ELSE {})
  BY <1>4, NullFacts DEF OfFrame
<1>6. ASSUME NEW o
      PROVE  o \in OfStack(t, b) <=> \E j \in DOMAIN r : o \in OfFrame(t[j], j, b)
  BY <1>3 DEF OfStack
<1>7. ASSUME NEW o
      PROVE  o \in OfStack(r, b) <=> \E j \in DOMAIN r : o \in OfFrame(r[j], j, b)
  BY DEF OfStack
<1>8. ASSUME NEW o \in OfStack(t, b)
      PROVE  o \in OfStack(r, b) \cup (IF b = v THEN {<<"made", k>>} ELSE {})
  <2>1. PICK j \in DOMAIN r : o \in OfFrame(t[j], j, b)
    BY <1>6
  <2>2. CASE j = k
    <3>1. o \in OfFrame(w, k, b)
      BY <1>3, <2>1, <2>2
    <3>2. o \in OfFrame(r[k], k, b) => o \in OfStack(r, b)
      BY <1>7
    <3> QED
      BY <1>5, <3>1, <3>2
  <2>3. CASE j # k
    BY <1>3, <1>7, <2>1, <2>3
  <2> QED
    BY <2>2, <2>3
<1>9. ASSUME NEW o \in OfStack(r, b)
      PROVE  o \in OfStack(t, b)
  <2>1. PICK j \in DOMAIN r : o \in OfFrame(r[j], j, b)
    BY <1>7
  <2>2. CASE j = k
    <3>1. o \in OfFrame(t[k], k, b)
      BY <1>3, <1>5, <2>1, <2>2
    <3> QED
      BY <1>6, <3>1
  <2>3. CASE j # k
    BY <1>3, <1>6, <2>1, <2>3
  <2> QED
    BY <2>2, <2>3
<1>10. b = v => <<"made", k>> \in OfStack(t, b)
  <2>1. b = v => <<"made", k>> \in OfFrame(t[k], k, b)
    BY <1>3, <1>5
  <2> QED
    BY <1>6, <2>1
<1> QED
  BY <1>1, <1>8, <1>9, <1>10 DEF GivesMade

LEMMA ReturnToCopyStep ==
    ASSUME MemoryInv, Return, Len(stack) > 1
    PROVE  MemoryInv'
<1>1. PICK f, i, T, v, r : /\ f = Top /\ i = Len(stack) /\ T = LeftBy(f) /\ v = f.v
                           /\ r = Front(stack)
  OBVIOUS
<1>2. /\ stack # <<>> /\ ~failing /\ f.made = NULL /\ i > 1
      /\ stack' = [r EXCEPT ![i - 1].made = v] /\ heap' = heap /\ slots' = slots
      /\ failing' = failing /\ lost' = lost
  BY <1>1 DEF Return, Working, Idle
<1>3. /\ HeapTyped(heap) /\ IsForest(Kids(heap), UsedBlocks(heap), Held)
      /\ UsedBlocks(heap) \subseteq Blocks /\ OneHolder /\ stack \in Seq(Frames)
  BY InvFacts DEF MemoryInv
<1>4. /\ i \in Nat /\ i >= 1 /\ i \in DOMAIN stack /\ DOMAIN stack = 1..i
      /\ f = stack[i] /\ f \in Frames /\ FrameIs(heap, slots, f, i, TRUE)
      /\ \A j \in 1..(i - 1) : FrameIs(heap, slots, stack[j], j, FALSE)
      /\ failing \in BOOLEAN
  BY <1>1, <1>2, TopFacts
<1>5. f.kind # "into" /\ T = {v} /\ v \in Blocks /\ heap[v].block = "variable"
  BY <1>1, <1>2, <1>4 DEF FrameIs, LeftBy, Frames
<1>6. IsTaken(T)
  BY <1>1, <1>2, FrameTaken
<1>7. /\ v \in Held /\ OfSlots(slots, v) = {} /\ OfLost(lost, v) = {} /\ OfStack(r, v) = {}
      /\ \A b \in Blocks : b # v => OfStack(stack, b) = OfStack(r, b)
  BY <1>1, <1>5, <1>6 DEF IsTaken
<1>8. /\ r \in Seq(Frames) /\ Len(r) = i - 1 /\ DOMAIN r = 1..(i - 1)
      /\ \A j \in 1..(i - 1) : r[j] = stack[j]
  BY <1>1, <1>2, <1>3, StackTop
<1>9. PICK k, w : k = i - 1 /\ w = [r[k] EXCEPT !.made = v]
  OBVIOUS
<1>10. /\ k \in 1..(i - 1) /\ k \in DOMAIN r /\ r[k] = stack[k] /\ r[k] \in Frames /\ k \in Nat
       /\ k # 0 /\ FrameIs(heap, slots, r[k], k, FALSE) /\ r[k].made = NULL
  <2>1. k \in 1..(i - 1) /\ k \in Nat /\ k # 0
    BY <1>2, <1>4, <1>9
  <2>2. k \in DOMAIN r /\ r[k] = stack[k] /\ FrameIs(heap, slots, stack[k], k, FALSE)
    BY <1>4, <1>8, <2>1
  <2>3. r[k] \in Frames
    BY <1>8, <2>2
  <2> QED
    BY <2>1, <2>2, <2>3 DEF FrameIs
<1>11. /\ w \in Frames /\ w.kind = r[k].kind /\ w.v = r[k].v /\ w.n = r[k].n
       /\ w.name = r[k].name /\ w.slot = r[k].slot /\ w.todo = r[k].todo /\ w.made = v
  BY <1>5, <1>9, <1>10 DEF Frames
<1>12. /\ stack' = [r EXCEPT ![k].made = v] /\ stack' = [r EXCEPT ![k] = w]
  BY <1>2, <1>9, <1>10
<1>13. /\ stack' \in Seq(Frames) /\ Len(stack') = k /\ DOMAIN stack' = 1..k /\ stack' # <<>>
       /\ stack'[k] = w /\ \A j \in 1..(i - 1) : j # k => stack'[j] = stack[j]
  <2>1. stack' \in Seq(Frames) /\ Len(stack') = Len(r) /\ DOMAIN stack' = DOMAIN r
    BY <1>8, <1>10, <1>11, <1>12
  <2>2. stack'[k] = w /\ \A j \in DOMAIN r : j # k => stack'[j] = r[j]
    BY <1>10, <1>12
  <2> QED
    BY <1>8, <1>9, <1>10, <2>1, <2>2
<1>14. ASSUME NEW b \in Blocks
       PROVE  Holders(b)' = IF b = v THEN {<<"made", k>>} ELSE Holders(b)
  <2>1. OfStack(stack', b) = OfStack(r, b) \cup (IF b = v THEN {<<"made", k>>} ELSE {})
    <3>1. GivesMade(r, k, v, b)
      BY <1>5, <1>8, <1>10, MadeGiven
    <3> QED
      BY <1>12, <3>1 DEF GivesMade
  <2>2. Holders(b) = OfSlots(slots, b) \cup OfLost(lost, b) \cup OfStack(stack, b)
    BY HoldersAre
  <2>3. Holders(b)' = OfSlots(slots, b) \cup OfLost(lost, b) \cup OfStack(stack', b)
    BY <1>2, HoldersBecome
  <2>4. CASE b = v
    BY <1>7, <2>1, <2>3, <2>4
  <2>5. CASE b # v
    BY <1>7, <2>1, <2>2, <2>3, <2>5
  <2> QED
    BY <2>4, <2>5
<1>15. OneHolder' /\ Held' = Held
  <2>1. PICK D : D = {}
    OBVIOUS
  <2>2. /\ D \in SUBSET Blocks /\ T \in SUBSET Blocks /\ D \cap T = {}
        /\ \A b \in Blocks : b \notin D /\ b \notin T => Holders(b)' = Holders(b)
        /\ \A b \in D : Holders(b)' = {}
        /\ \A b \in T : Holders(b)' = {<<"made", k>>}
    BY <1>5, <1>14, <2>1
  <2>3. OneHolder' /\ Held' = (Held \ D) \cup T
    BY <1>3, <2>2, HoldersMoved
  <2> QED
    BY <1>5, <1>7, <2>1, <2>3
<1>16. PICK X : X = {}
  OBVIOUS
<1>17. Survives(X, X, NULL, heap')
  BY <1>2, <1>16, NothingFreed, NullFacts DEF Survives, FreesNothing
<1>18. PointersRight'
  BY <1>2, <1>16, <1>17, PointersSurvive
<1>19. FrameIs(heap', slots, w, k, TRUE)
  BY <1>2, <1>5, <1>10, <1>11 DEF FrameIs
<1>20. StackRight'
  <2>1. ASSUME NEW j \in DOMAIN stack'
        PROVE  \/ j \in 1..(Len(stack) - 1) /\ stack'[j] = stack[j] /\ j # Len(stack')
               \/ FrameIs(heap', slots, stack'[j], j, j = Len(stack'))
    <3>1. CASE j = k
      BY <1>13, <1>19, <3>1 DEF FrameIs
    <3>2. CASE j # k
      BY <1>1, <1>9, <1>13, <3>2
    <3> QED
      BY <3>1, <3>2
  <2>2. failing' \in BOOLEAN /\ ~failing'
    BY <1>2, <1>4
  <2> QED
    BY <1>2, <1>13, <1>17, <2>1, <2>2, StackSurvives
<1>21. SourcesKept'
  <2>1. ASSUME NEW O \in SUBSET Blocks, IsKept(O), NEW j \in DOMAIN stack',
               stack'[j].kind # "compound", NEW p \in DOMAIN stack'[j].todo
        PROVE  /\ stack'[j].todo[p].from \in O
               /\ heap[stack'[j].todo[p].from].block = "variable"
    <3>1. j \in DOMAIN stack /\ stack'[j].kind = stack[j].kind /\ stack'[j].todo = stack[j].todo
      <4>1. j \in 1..(i - 1) /\ j \in DOMAIN stack
        BY <1>4, <1>9, <1>13
      <4>2. CASE j = k
        BY <1>10, <1>11, <1>13, <4>1, <4>2
      <4>3. CASE j # k
        BY <1>13, <4>1, <4>3
      <4> QED
        BY <4>1, <4>2, <4>3
    <3> QED
      BY <2>1, <3>1 DEF IsKept
  <2> QED
    BY <1>2, <1>17, <2>1, SourcesSurvive
<1>22. IsForest(Kids(heap'), UsedBlocks(heap'), Held') /\ HeapTyped(heap')
  BY <1>2, <1>3, <1>15
<1> QED
  BY <1>15, <1>18, <1>20, <1>21, <1>22 DEF MemoryInv

NobodyOf(st) == \A b : OfStack(st, b) = {}

LEMMA FrontEmpty ==
    ASSUME NEW st \in Seq(Frames), st # <<>>, Len(st) = 1
    PROVE  NobodyOf(Front(st))
<1>1. DOMAIN Front(st) = 1..(Len(st) - 1)
  BY StackTop
<1>2. DOMAIN Front(st) = {}
  BY <1>1
<1> QED
  BY <1>2 DEF OfStack, NobodyOf

(* It returns to the program.                                              *)
LEMMA ReturnOfSlotStep ==
    ASSUME MemoryInv, Return, ~(Len(stack) > 1), Top.kind # "into"
    PROVE  MemoryInv'
<1>1. PICK f, i, T, v, s : /\ f = Top /\ i = Len(stack) /\ T = LeftBy(f) /\ v = f.v
                           /\ s = f.slot
  OBVIOUS
<1>2. /\ stack # <<>> /\ ~failing /\ f.made = NULL /\ ~(i > 1) /\ f.kind # "into"
      /\ stack' = <<>> /\ slots' = [slots EXCEPT ![s] = v] /\ heap' = heap
      /\ failing' = failing /\ lost' = lost
  BY <1>1 DEF Return, Working, Idle
<1>3. /\ HeapTyped(heap) /\ IsForest(Kids(heap), UsedBlocks(heap), Held)
      /\ OneHolder /\ stack \in Seq(Frames) /\ slots \in [Slots -> Blocks \cup {NULL}]
  BY InvFacts DEF MemoryInv
<1>4. /\ i = 1 /\ f \in Frames /\ FrameIs(heap, slots, f, i, TRUE)
  <2>1. /\ i \in Nat /\ i >= 1 /\ f \in Frames /\ FrameIs(heap, slots, f, i, TRUE)
    BY <1>1, <1>2, TopFacts
  <2>2. ~(i > 1)
    BY <1>2
  <2>3. i = 1
    BY <2>1, <2>2
  <2> QED
    BY <2>1, <2>3
<1>5. /\ T = {v} /\ v \in Blocks /\ heap[v].block = "variable"
      /\ s \in Slots /\ slots[s] = NULL
  BY <1>1, <1>2, <1>4 DEF FrameIs, LeftBy, Frames
<1>7. /\ v \in Held /\ OfSlots(slots, v) = {} /\ OfLost(lost, v) = {}
      /\ \A b \in Blocks : b # v => OfStack(stack, b) = {}
  <2>1. IsTaken(T)
    BY <1>1, <1>2, FrameTaken
  <2>2. \A b : OfStack(Front(stack), b) = {}
    BY <1>1, <1>2, <1>3, <1>4, FrontEmpty DEF NobodyOf
  <2> QED
    BY <1>5, <2>1, <2>2 DEF IsTaken
<1>8. ASSUME NEW b \in Blocks
      PROVE  Holders(b)' = IF b = v THEN {<<"slot", s>>} ELSE Holders(b)
  <2>1. OfSlots(slots', b) = OfSlots(slots, b) \cup (IF b = v THEN {<<"slot", s>>} ELSE {})
    BY <1>2, <1>3, <1>5, NullFacts DEF OfSlots
  <2>2. OfStack(stack', b) = {}
    BY <1>2 DEF OfStack
  <2>3. Holders(b) = OfSlots(slots, b) \cup OfLost(lost, b) \cup OfStack(stack, b)
    BY HoldersAre
  <2>4. Holders(b)' = OfSlots(slots', b) \cup OfLost(lost, b) \cup OfStack(stack', b)
    BY <1>2, HoldersBecome
  <2>5. CASE b = v
    BY <1>7, <2>1, <2>2, <2>4, <2>5
  <2>6. CASE b # v
    BY <1>7, <2>1, <2>2, <2>3, <2>4, <2>6
  <2> QED
    BY <2>5, <2>6
<1>9. OneHolder' /\ Held' = Held
  <2>1. PICK D : D = {}
    OBVIOUS
  <2>2. /\ D \in SUBSET Blocks /\ T \in SUBSET Blocks /\ D \cap T = {}
        /\ \A b \in Blocks : b \notin D /\ b \notin T => Holders(b)' = Holders(b)
        /\ \A b \in D : Holders(b)' = {}
        /\ \A b \in T : Holders(b)' = {<<"slot", s>>}
    BY <1>5, <1>8, <2>1
  <2>3. OneHolder' /\ Held' = (Held \ D) \cup T
    BY <1>3, <2>2, HoldersMoved
  <2> QED
    BY <1>5, <1>7, <2>1, <2>3
<1>10. IsForest(Kids(heap'), UsedBlocks(heap'), Held') /\ HeapTyped(heap')
  BY <1>2, <1>3, <1>9
<1>11. /\ slots' \in [Slots -> Blocks \cup {NULL}]
       /\ \A t \in Slots : slots'[t] # NULL => heap'[slots'[t]].block = "variable"
       /\ \A l \in lost : heap'[l].block = "variable"
  BY <1>2, <1>3, <1>5 DEF MemoryInv, PointersRight
<1> QED
  BY <1>2, <1>9, <1>10, <1>11, IdleStep

LEMMA ReturnOfCopyStep ==
    ASSUME MemoryInv, Return, ~(Len(stack) > 1), Top.kind = "into"
    PROVE  MemoryInv'
<1>1. PICK f, i, T, w, cell : /\ f = Top /\ i = Len(stack) /\ T = LeftBy(f) /\ w = f.v
                              /\ cell = VariableOf(heap[w].type, NULL, f.name, f.n)
  OBVIOUS
<1>2. /\ stack # <<>> /\ ~failing /\ f.made = NULL /\ ~(i > 1) /\ f.kind = "into"
      /\ stack' = <<>> /\ slots' = slots /\ heap' = Replaced(heap, w, cell)
      /\ failing' = failing /\ lost' = lost
  BY <1>1 DEF Return, Working, Idle
<1>3. /\ HeapTyped(heap) /\ IsForest(Kids(heap), UsedBlocks(heap), Held)
      /\ UsedBlocks(heap) \subseteq Blocks /\ Held \subseteq UsedBlocks(heap)
      /\ OneHolder /\ stack \in Seq(Frames) /\ slots \in [Slots -> Blocks \cup {NULL}]
  BY InvFacts DEF MemoryInv
<1>4. /\ i = 1 /\ f \in Frames /\ FrameIs(heap, slots, f, i, TRUE) /\ i \in DOMAIN stack
      /\ f = stack[i]
  <2>1. /\ i \in Nat /\ i >= 1 /\ f \in Frames /\ FrameIs(heap, slots, f, i, TRUE)
        /\ i \in DOMAIN stack /\ f = stack[i]
    BY <1>1, <1>2, TopFacts
  <2>2. ~(i > 1)
    BY <1>2
  <2>3. i = 1
    BY <2>1, <2>2
  <2> QED
    BY <2>1, <2>3
<1>5. /\ T = {f.n, f.name} \ {NULL} /\ w \in Blocks /\ f.n \in Blocks
      /\ f.name \in Blocks \cup {NULL}
      /\ heap[w].block = "variable" /\ heap[w].type = "COMPOUND"
      /\ heap[f.n].block = "mutator" /\ (f.name # NULL => heap[f.name].block = "string")
  BY <1>1, <1>2, <1>4 DEF FrameIs, LeftBy, Frames
<1>6. w \in Held
  <2>1. <<"slot", f.slot>> \in Holders(w)
    BY <1>1, <1>2, <1>4, FrameOwn
  <2> QED
    BY <1>5, <2>1, HeldBy
<1>7. /\ T \subseteq Held /\ T \subseteq Blocks
      /\ \A b \in T : OfSlots(slots, b) = {} /\ OfLost(lost, b) = {}
      /\ \A b \in Blocks : b \notin T => OfStack(stack, b) = {}
  <2>1. IsTaken(T)
    BY <1>1, <1>2, FrameTaken
  <2>2. \A b : OfStack(Front(stack), b) = {}
    BY <1>1, <1>2, <1>3, <1>4, FrontEmpty DEF NobodyOf
  <2> QED
    BY <2>1, <2>2 DEF IsTaken
<1>8. /\ cell \in VariableCells /\ cell.type = "COMPOUND" /\ cell.string = f.name
      /\ cell.members = f.n /\ cell.block = "variable"
  BY <1>1, <1>5 DEF VariableOf, VariableCells
<1>9. \A a \in Blocks : heap'[a] = IF a = w THEN cell
                                   ELSE IF a \in Beneath(heap)[w] THEN Unused ELSE heap[a]
  BY <1>2, <1>5 DEF Replaced, Without
<1>10. heap' \in [Blocks -> Cells]
  <2>1. cell \in Cells /\ Unused \in Cells /\ \A a \in Blocks : heap[a] \in Cells
    BY <1>3, <1>8 DEF Cells, HeapTyped
  <2> QED
    BY <1>2, <2>1 DEF Replaced, Without
<1>11. MayReplace(heap, Held, w, T, cell, heap, UsedBlocks(heap), Held, heap')
  <2>1. w \notin T /\ T = {cell.string, cell.members} \ {NULL}
    BY <1>5, <1>8
  <2>2. f.n # NULL
    BY <1>5, NullFacts
  <2> QED
    BY <1>3, <1>5, <1>6, <1>7, <1>8, <1>9, <1>10, <2>1, <2>2 DEF MayReplace
<1>12. /\ HeapTyped(heap') /\ IsForest(Kids(heap'), UsedBlocks(heap'), Held \ T)
       /\ \A r \in Held : r # w => heap'[r] = heap[r]
       /\ heap'[w] = cell
  <2>1. IsReplaced(heap, Held, w, T, cell, heap')
    BY <1>11, ReplacedFacts
  <2> QED
    BY <2>1 DEF IsReplaced
<1>13. ASSUME NEW b \in Blocks
       PROVE  Holders(b)' = IF b \in T THEN {} ELSE Holders(b)
  <2>1. OfStack(stack', b) = {}
    BY <1>2 DEF OfStack
  <2>2. Holders(b) = OfSlots(slots, b) \cup OfLost(lost, b) \cup OfStack(stack, b)
    BY HoldersAre
  <2>3. Holders(b)' = OfSlots(slots, b) \cup OfLost(lost, b) \cup OfStack(stack', b)
    BY <1>2, HoldersBecome
  <2>4. CASE b \in T
    BY <1>7, <2>1, <2>3, <2>4
  <2>5. CASE b \notin T
    BY <1>7, <2>1, <2>2, <2>3, <2>5
  <2> QED
    BY <2>4, <2>5
<1>14. OneHolder' /\ Held' = (Held \ T) \cup {}
  <2>1. PICK G : G = {}
    OBVIOUS
  <2>2. /\ T \in SUBSET Blocks /\ G \in SUBSET Blocks /\ T \cap G = {}
        /\ \A b \in Blocks : b \notin T /\ b \notin G => Holders(b)' = Holders(b)
        /\ \A b \in T : Holders(b)' = {}
        /\ \A b \in G : \E o : Holders(b)' = {o}
    BY <1>7, <1>13, <2>1
  <2> QED
    BY <1>3, <2>1, <2>2, HoldersMoved
<1>15. IsForest(Kids(heap'), UsedBlocks(heap'), Held')
  <2>1. Held' = Held \ T
    BY <1>14
  <2> QED
    BY <1>12, <2>1
<1>16. ASSUME NEW r \in Held, heap[r].block = "variable"
       PROVE  heap'[r].block = "variable"
  BY <1>8, <1>12, <1>16
<1>17. \A t \in Slots : slots'[t] # NULL => heap'[slots'[t]].block = "variable"
  BY <1>2, <1>16, SlotFacts
<1>18. \A l \in lost : heap'[l].block = "variable"
  BY <1>16, LostFacts
<1>19. slots' \in [Slots -> Blocks \cup {NULL}]
  BY <1>2, <1>3
<1> QED
  BY <1>2, <1>12, <1>14, <1>15, <1>17, <1>18, <1>19, IdleStep

LEMMA ReturnStep ==
    ASSUME MemoryInv, Return
    PROVE  MemoryInv'
<1>1. CASE Len(stack) > 1
  BY <1>1, ReturnToCopyStep
<1>2. CASE ~(Len(stack) > 1) /\ Top.kind # "into"
  BY <1>2, ReturnOfSlotStep
<1>3. CASE ~(Len(stack) > 1) /\ Top.kind = "into"
  BY <1>3, ReturnOfCopyStep
<1> QED
  BY <1>1, <1>2, <1>3

(* A member is made, and the former one deleted.                           *)
IsMade(X, P, value, key) ==
    /\ HeapTyped(heap') /\ IsForest(Kids(heap'), UsedBlocks(heap'), Held \cup {NewVariable})
    /\ Survives(X, {}, Top.n, heap') /\ IsNew(HeapWith(value), P, value)
    /\ heap'[NewVariable] = HeapWith(value)[NewVariable]
    /\ \A p \in P : heap'[p] = HeapWith(value)[p]
    /\ ~Has(heap', Top.n, key) /\ \A k : Has(heap', Top.n, k) => Has(heap, Top.n, k)

LEMMA MakeFacts ==
    ASSUME MemoryInv, stack # <<>>, NEW value, ValueRight(value), HasRoom(value), NEW key,
           heap' = WithoutFormer(HeapWith(value), Top.n, key)
    PROVE  \E X, P : IsMade(X, P, value, key)
<1>1. PICK n, v : n = Top.n /\ v = NewVariable
  OBVIOUS
<1>2. HeapTyped(heap) /\ IsForest(Kids(heap), UsedBlocks(heap), Held)
      /\ UsedBlocks(heap) \subseteq Blocks
  BY InvFacts
<1>3. n \in Blocks /\ heap[n].block = "mutator"
  <2>1. Top \in Frames /\ FrameIs(heap, slots, Top, Len(stack), TRUE)
    BY TopFacts
  <2> QED
    BY <1>1, <2>1 DEF Frames, FrameIs
<1>4. n \in UsedBlocks(heap)
  BY <1>3 DEF UsedBlocks, Unused
<1>5. PICK h, P : /\ h = HeapWith(value) /\ IsNew(h, P, value)
                  /\ Children(h, NewVariable) = P /\ \A p \in P : Children(h, p) = {}
                  /\ IsForest(Kids(h), UsedBlocks(h), Held \cup {NewVariable})
  BY NewFacts, Zenon
<1>6. /\ IsAllocated(h, P, value) /\ HeapTyped(h) /\ v \in Blocks /\ v \notin UsedBlocks(heap)
      /\ \A a \in UsedBlocks(heap) : h[a] = heap[a]
  BY <1>1, <1>5 DEF IsNew
<1>7. P \subseteq Blocks /\ \A p \in P : p \notin UsedBlocks(heap)
  BY <1>6 DEF IsAllocated, UsedBlocks
<1>8. h[n] = heap[n]
  BY <1>4, <1>6
<1>9. PICK X, g : /\ g = WithoutFormer(h, n, key) /\ HeapTyped(g)
                  /\ IsForest(Kids(g), UsedBlocks(g), Held \cup {NewVariable})
                  /\ Frees(h, X, Held \cup {NewVariable}, {}, n) /\ IsRemoved(h, g, X, n, key)
  <2>1. h[n].block = "mutator"
    BY <1>3, <1>8
  <2> QED
    BY <1>3, <1>5, <1>6, <2>1, RemovedFacts, Zenon
<1>10. Frees(heap, X, Held, {}, n) /\ v \notin X /\ X \cap P = {}
  <2>1. MakesAndFrees(Held, h, P, value, X, n)
    BY <1>2, <1>4, <1>5, <1>6, <1>9 DEF MakesAndFrees
  <2> QED
    BY <1>1, <2>1, FreesOfOld
<1>11. heap' = g
  BY <1>1, <1>5, <1>9
<1>12. /\ n \notin X
       /\ \A a \in Blocks : a # n => g[a] = IF a \in X THEN Unused ELSE h[a]
       /\ g[n].block = "mutator" /\ ~Has(g, n, key)
       /\ \A k : Has(g, n, k) => Has(h, n, k)
  BY <1>9 DEF IsRemoved
<1>13. \A a \in UsedBlocks(heap) : a \notin X /\ a # n => g[a] = heap[a]
  BY <1>2, <1>6, <1>12
<1>14. g[v] = h[v] /\ \A p \in P : g[p] = h[p]
  <2>1. v # n /\ \A p \in P : p # n
    BY <1>4, <1>6, <1>7
  <2> QED
    BY <1>6, <1>7, <1>10, <1>12, <2>1
<1>15. \A k : Has(g, n, k) => Has(heap, n, k)
  BY <1>8, <1>12 DEF Has, Entries
<1>16. Survives(X, {}, n, g)
  BY <1>1, <1>3, <1>10, <1>12, <1>13 DEF Survives
<1>17. IsMade(X, P, value, key)
  <2>1. HeapTyped(heap') /\ IsForest(Kids(heap'), UsedBlocks(heap'), Held \cup {NewVariable})
    BY <1>9, <1>11
  <2>2. /\ Survives(X, {}, Top.n, heap') /\ IsNew(HeapWith(value), P, value)
        /\ heap'[NewVariable] = HeapWith(value)[NewVariable]
        /\ \A p \in P : heap'[p] = HeapWith(value)[p]
    BY <1>1, <1>5, <1>11, <1>14, <1>16
  <2>3. ~Has(heap', Top.n, key) /\ \A k : Has(heap', Top.n, k) => Has(heap, Top.n, k)
    BY <1>1, <1>11, <1>12, <1>15
  <2> QED
    BY <2>1, <2>2, <2>3 DEF IsMade
<1> QED
  BY <1>17

LEMMA ScalarsFacts == \A w \in Scalars : w.type # "COMPOUND"
BY DEF Scalars, Value

(* Of what a member is made.                                               *)
LEMMA MemberFacts ==
    ASSUME MemoryInv, stack # <<>>, Top.todo # <<>>, NEW value,
           value = IF Top.kind = "compound" THEN Member.value ELSE Source(Member.from)
    PROVE  /\ ValueRight(value)
           /\ value.type = "COMPOUND" =>
                  /\ value.todo \in Seq(Copied)
                  /\ \A O \in SUBSET Blocks : IsKept(O) =>
                         \A j \in DOMAIN value.todo :
                             /\ value.todo[j].from \in O
                             /\ heap[value.todo[j].from].block = "variable"
<1>1. PICK f, i, q : f = Top /\ i = Len(stack) /\ q = f.todo
  OBVIOUS
<1>2. /\ i \in DOMAIN stack /\ f = stack[i] /\ f \in Frames /\ FrameIs(heap, slots, f, i, TRUE)
      /\ \E O \in SUBSET Blocks : IsKept(O)
  BY <1>1, TopFacts
<1>3. Member = Head(q) /\ q # <<>>
  BY <1>1 DEF Member
<1>4. CASE f.kind = "compound"
  <2>1. q \in Seq(Given)
    BY <1>1, <1>2, <1>4 DEF FrameIs
  <2>2. Head(q) \in Given
    BY <1>3, <2>1
  <2>3. Head(q).value \in Scalars /\ value = Head(q).value
    BY <1>1, <1>3, <1>4, <2>2 DEF Given
  <2>4. ValueRight(value) /\ value \in Scalars
    BY <2>3, ValuesRight
  <2>5. value.type # "COMPOUND"
    BY <2>4, ScalarsFacts, Zenon
  <2> QED
    BY <2>4, <2>5
<1>5. CASE f.kind # "compound"
  <2>1. q \in Seq(Copied)
    BY <1>1, <1>2, <1>5 DEF FrameIs
  <2>2. Head(q) = q[1] /\ 1 \in DOMAIN q /\ q[1] \in Copied
    BY <1>3, <2>1
  <2>3. PICK x : x = q[1].from
    OBVIOUS
  <2>4. x \in Blocks /\ value = Source(x)
    BY <1>1, <1>3, <1>5, <2>2, <2>3 DEF Copied
  <2>5. \A O \in SUBSET Blocks : IsKept(O) => x \in O /\ heap[x].block = "variable"
    BY <1>1, <1>2, <1>5, <2>2, <2>3 DEF IsKept
  <2>6. heap[x].block = "variable"
    BY <1>2, <2>5
  <2>7. /\ ValueRight(value) /\ value.todo \in Seq(Copied)
        /\ \A j \in DOMAIN value.todo :
               \E m \in Children(heap, x) :
                   /\ value.todo[j].from \in Children(heap, m)
                   /\ heap[value.todo[j].from].block = "variable"
    <3>1. HeapTyped(heap)
      BY InvFacts
    <3>2. x \in Blocks
      BY <2>4
    <3>3. /\ ValueRight(Source(x)) /\ Source(x).todo \in Seq(Copied)
          /\ \A j \in DOMAIN Source(x).todo :
                 \E m \in Children(heap, x) :
                     /\ Source(x).todo[j].from \in Children(heap, m)
                     /\ heap[Source(x).todo[j].from].block = "variable"
      BY <2>6, <3>1, <3>2, SourceFacts, Zenon
    <3> QED
      BY <2>4, <3>3, Zenon
  <2>8. ASSUME NEW O \in SUBSET Blocks, IsKept(O), NEW j \in DOMAIN value.todo
        PROVE  /\ value.todo[j].from \in O
               /\ heap[value.todo[j].from].block = "variable"
    <3>1. x \in O /\ \A a \in O : Children(heap, a) \subseteq O
      BY <2>5, <2>8 DEF IsKept
    <3> QED
      BY <2>7, <3>1
  <2> QED
    BY <2>7, <2>8
<1> QED
  BY <1>4, <1>5

MemberBegins ==
    /\ stack # <<>> /\ ~failing /\ Top.made = NULL /\ Top.todo # <<>> /\ Member.key # NULL
    /\ slots' = slots /\ failing' = failing /\ lost' = lost

(* The function that makes the member goes on with it.                     *)
LEMMA TopKept ==
    ASSUME MemoryInv, MemberBegins, NEW value, NEW X, NEW P, IsMade(X, P, value, Member.key),
           NEW t \in Frames, t = Top \/ t = [Top EXCEPT !.made = NewVariable],
           NEW last \in BOOLEAN, ~last => t = Top
    PROVE  FrameIs(heap', slots, t, Len(stack), last)
<1>1. PICK f, n, i, key, v : /\ f = Top /\ n = f.n /\ i = Len(stack) /\ key = Member.key
                             /\ v = NewVariable
  OBVIOUS
<1>2. stack # <<>> /\ f.made = NULL /\ f.todo # <<>> /\ key # NULL /\ key = Head(f.todo).key
  BY <1>1 DEF MemberBegins, Member
<1>3. /\ i \in Nat /\ i \in DOMAIN stack /\ f = stack[i] /\ f \in Frames
      /\ FrameIs(heap, slots, f, i, TRUE)
  BY <1>1, <1>2, TopFacts
<1>4. n \in Blocks /\ heap[n].block = "mutator"
  BY <1>1, <1>3 DEF Frames, FrameIs
<1>5. /\ Survives(X, {}, n, heap') /\ IsNew(HeapWith(value), P, value)
      /\ heap'[v] = HeapWith(value)[v]
      /\ ~Has(heap', n, key) /\ \A k : Has(heap', n, k) => Has(heap, n, k)
  BY <1>1 DEF IsMade
<1>6. heap'[v].block = "variable" /\ v \in Blocks
  <2>1. HeapWith(value)[v].block = "variable" /\ v \in Blocks
    BY <1>1, <1>5 DEF IsNew, IsAllocated
  <2> QED
    BY <1>5, <2>1
<1>7. SparesFrame(X, {}, n, heap', f)
  <2>1. /\ Frees(heap, X, Held, {}, n)
        /\ \A a \in UsedBlocks(heap) : a \notin X /\ a # n => heap'[a] = heap[a]
        /\ n \notin X /\ heap'[n].block = "mutator"
    BY <1>4, <1>5 DEF Survives
  <2> QED
    BY <1>4, <1>5, <2>1 DEF SparesFrame
<1>8. FrameIs(heap', slots, f, i, i = Len(stack))
  BY <1>3, <1>7, FrameKept
<1>9. FrameIs(heap', slots, f, i, TRUE)
  BY <1>1, <1>8 DEF FrameIs
<1>10. FrameIs(heap', slots, f, i, FALSE)
  BY <1>1, <1>2, <1>5, <1>9 DEF FrameIs
<1>11. CASE t = f
  BY <1>1, <1>9, <1>10, <1>11
<1>12. CASE t = [f EXCEPT !.made = v] /\ last
  <2>1. /\ t.made = v /\ t.todo = f.todo /\ t.kind = f.kind /\ t.v = f.v
        /\ t.n = f.n /\ t.name = f.name /\ t.slot = f.slot
    BY <1>3, <1>12 DEF Frames
  <2>2. FrameIs(heap', slots, t, i, TRUE)
    BY <1>1, <1>2, <1>5, <1>6, <1>9, <2>1 DEF FrameIs
  <2> QED
    BY <1>1, <1>12, <2>2
<1> QED
  BY <1>1, <1>11, <1>12

(* The member has a holder.                                                *)
LEMMA MemberHeld ==
    ASSUME MemoryInv, NEW value, NEW X, NEW P, NEW key, IsMade(X, P, value, key), NEW o,
           \A b \in Blocks : Holders(b)' = IF b = NewVariable THEN {o} ELSE Holders(b)
    PROVE  OneHolder' /\ IsForest(Kids(heap'), UsedBlocks(heap'), Held')
<1>1. /\ NewVariable \in Blocks
      /\ IsForest(Kids(heap'), UsedBlocks(heap'), Held \cup {NewVariable})
  BY DEF IsMade, IsNew
<1>2. OneHolder' /\ Held' = (Held \ {}) \cup {NewVariable}
  <2>1. OneHolder
    BY DEF MemoryInv
  <2>2. PICK D, G : D = {} /\ G = {NewVariable}
    OBVIOUS
  <2>3. /\ D \in SUBSET Blocks /\ G \in SUBSET Blocks /\ D \cap G = {}
        /\ \A b \in Blocks : b \notin D /\ b \notin G => Holders(b)' = Holders(b)
        /\ \A b \in D : Holders(b)' = {}
        /\ \A b \in G : Holders(b)' = {o}
    BY <1>1, <2>2
  <2> QED
    BY <2>1, <2>2, <2>3, HoldersMoved
<1>3. Held' = Held \cup {NewVariable}
  BY <1>2
<1> QED
  BY <1>1, <1>2, <1>3

(* It is still to be set.                                                  *)
LEMMA MemberMadeStep ==
    ASSUME MemoryInv, MemberBegins, NEW value, NEW X, NEW P, IsMade(X, P, value, Member.key),
           stack' = PopTo([Top EXCEPT !.made = NewVariable])
    PROVE  MemoryInv'
<1>1. PICK f, i, v, t : /\ f = Top /\ i = Len(stack) /\ v = NewVariable
                        /\ t = [f EXCEPT !.made = v]
  OBVIOUS
<1>2. /\ stack # <<>> /\ f.made = NULL /\ stack' = PopTo(t)
      /\ slots' = slots /\ failing' = failing /\ lost' = lost /\ ~failing
  BY <1>1 DEF MemberBegins
<1>3. /\ i \in Nat /\ i >= 1 /\ i \in DOMAIN stack /\ DOMAIN stack = 1..i
      /\ f = stack[i] /\ f \in Frames /\ failing \in BOOLEAN
  BY <1>1, <1>2, TopFacts
<1>4. /\ v \in Blocks /\ v \notin UsedBlocks(heap) /\ HeapTyped(heap')
      /\ Survives(X, {}, Top.n, heap')
  BY <1>1 DEF IsMade, IsNew
<1>5. /\ t \in Frames /\ t.made = v /\ t.todo = f.todo /\ t.kind = f.kind /\ t.v = f.v
      /\ t.n = f.n /\ t.name = f.name /\ t.slot = f.slot
  BY <1>1, <1>3, <1>4 DEF Frames
<1>6. /\ stack' \in Seq(Frames) /\ stack' # <<>> /\ Len(stack') = i /\ DOMAIN stack' = DOMAIN stack
      /\ \A j \in 1..(i - 1) : stack'[j] = stack[j]
      /\ stack'[i] = t /\ Top' = t
  BY <1>1, <1>2, <1>5, TopBecomes
<1>7. FrameIs(heap', slots, t, i, TRUE)
  BY <1>1, <1>5, TopKept
<1>8. ASSUME NEW b \in Blocks
      PROVE  Holders(b)' = IF b = v THEN {<<"made", i>>} ELSE Holders(b)
  <2>1. /\ OfStack(stack', b) = OfStack(Front(stack), b) \cup OfFrame(t, i, b)
        /\ OfStack(stack, b) = OfStack(Front(stack), b) \cup OfFrame(f, i, b)
    BY <1>1, <1>2, <1>5, TopBecomes
  <2>2. OfFrame(t, i, b) = OfFrame(f, i, b) \cup (IF b = v THEN {<<"made", i>>} ELSE {})
    <3>1. f.made # b
      BY <1>2, NullFacts
    <3> QED
      BY <1>5, <3>1 DEF OfFrame
  <2>3. Holders(b)' = Holders(b) \cup (IF b = v THEN {<<"made", i>>} ELSE {})
    <3>1. Holders(b) = OfSlots(slots, b) \cup OfLost(lost, b) \cup OfStack(stack, b)
      BY HoldersAre
    <3>2. Holders(b)' = OfSlots(slots, b) \cup OfLost(lost, b) \cup OfStack(stack', b)
      BY <1>2, HoldersBecome
    <3> QED
      BY <2>1, <2>2, <3>1, <3>2
  <2>4. b = v => Holders(b) = {}
    BY <1>4, InvFacts
  <2> QED
    BY <2>3, <2>4
<1>9. OneHolder' /\ IsForest(Kids(heap'), UsedBlocks(heap'), Held')
  <2>1. PICK o : o = <<"made", i>>
    OBVIOUS
  <2>2. \A b \in Blocks : Holders(b)' = IF b = NewVariable THEN {o} ELSE Holders(b)
    BY <1>1, <1>8, <2>1
  <2> QED
    BY <2>2, MemberHeld
<1>10. PointersRight'
  <2>1. \A l \in lost' : l \in lost /\ l \notin {}
    BY <1>2
  <2> QED
    BY <1>2, <1>4, <2>1, PointersSurvive
<1>11. StackRight'
  <2>1. ASSUME NEW j \in DOMAIN stack'
        PROVE  \/ j \in 1..(Len(stack) - 1) /\ stack'[j] = stack[j] /\ j # Len(stack')
               \/ FrameIs(heap', slots, stack'[j], j, j = Len(stack'))
    <3>1. CASE j = i
      BY <1>6, <1>7, <3>1 DEF FrameIs
    <3>2. CASE j # i
      BY <1>1, <1>3, <1>6, <3>2
    <3> QED
      BY <3>1, <3>2
  <2> QED
    BY <1>2, <1>3, <1>4, <1>6, <2>1, StackSurvives
<1>12. SourcesKept'
  <2>1. ASSUME NEW O \in SUBSET Blocks, IsKept(O), NEW j \in DOMAIN stack',
               stack'[j].kind # "compound", NEW k \in DOMAIN stack'[j].todo
        PROVE  /\ stack'[j].todo[k].from \in O
               /\ heap[stack'[j].todo[k].from].block = "variable"
    <3>1. stack'[j].kind = stack[j].kind /\ stack'[j].todo = stack[j].todo /\ j \in DOMAIN stack
      <4>1. CASE j = i
        BY <1>3, <1>5, <1>6, <4>1
      <4>2. CASE j # i
        BY <1>3, <1>6, <4>2
      <4> QED
        BY <4>1, <4>2
    <3> QED
      BY <2>1, <3>1 DEF IsKept
  <2> QED
    BY <1>2, <1>4, <2>1, SourcesSurvive
<1> QED
  BY <1>4, <1>9, <1>10, <1>11, <1>12 DEF MemoryInv

CopiesKept(todo) ==
    /\ todo \in Seq(Copied)
    /\ \A O \in SUBSET Blocks : IsKept(O) =>
           \A j \in DOMAIN todo : todo[j].from \in O /\ heap[todo[j].from].block = "variable"

(* It is a compound: another function copies its members.                  *)
LEMMA MemberCopiedStep ==
    ASSUME MemoryInv, MemberBegins, NEW value, NEW X, NEW P, IsMade(X, P, value, Member.key),
           value.type = "COMPOUND", NEW todo, CopiesKept(todo),
           stack' = Append(stack, Frame("copy", NULL, NewVariable, NewPart, NULL, todo))
    PROVE  MemoryInv'
<1>1. PICK i, v, w, p : /\ i = Len(stack) /\ v = NewVariable /\ p = NewPart
                        /\ w = Frame("copy", NULL, v, p, NULL, todo)
  OBVIOUS
<1>2. /\ stack # <<>> /\ stack' = Append(stack, w) /\ Top.made = NULL
      /\ slots' = slots /\ failing' = failing /\ lost' = lost /\ ~failing
  BY <1>1 DEF MemberBegins
<1>3. /\ i \in Nat /\ i >= 1 /\ DOMAIN stack = 1..i /\ Top = stack[i] /\ Top \in Frames
      /\ failing \in BOOLEAN /\ stack \in Seq(Frames)
  BY <1>1, <1>2, TopFacts, InvFacts
<1>4. /\ v \in Blocks /\ v \notin UsedBlocks(heap) /\ HeapTyped(heap')
      /\ Survives(X, {}, Top.n, heap')
      /\ IsAllocated(HeapWith(value), P, value)
      /\ heap'[v] = HeapWith(value)[v] /\ \A x \in P : heap'[x] = HeapWith(value)[x]
  BY <1>1 DEF IsMade, IsNew
<1>5. /\ heap'[v].block = "variable" /\ heap'[v].members = p /\ p \in Blocks
      /\ heap'[p].block = "mutator"
  <2>1. PICK h : h = HeapWith(value)
    OBVIOUS
  <2>2. /\ h[v].block = "variable" /\ h[v].members = p /\ p \in P /\ h[p] = MutatorOf(<<>>)
        /\ P \subseteq Blocks
    BY <1>1, <1>4, <2>1 DEF IsAllocated
  <2> QED
    BY <1>4, <2>1, <2>2 DEF MutatorOf
<1>6. /\ w \in Frames /\ w.kind = "copy" /\ w.v = v /\ w.n = p /\ w.made = NULL
      /\ w.todo = todo /\ todo \in Seq(Copied)
  BY <1>1, <1>4, <1>5 DEF Frame, Frames, CopiesKept
<1>7. /\ stack' \in Seq(Frames) /\ Len(stack') = i + 1 /\ stack' # <<>>
      /\ DOMAIN stack' = 1..(i + 1)
      /\ \A j \in 1..i : stack'[j] = stack[j]
      /\ stack'[i + 1] = w
      /\ \A b : OfStack(stack', b) = OfStack(stack, b) \cup OfFrame(w, i + 1, b)
  <2>1. IsGrown(stack, w, Append(stack, w))
    BY <1>3, <1>6, StackGrown
  <2>2. IsGrown(stack, w, stack')
    BY <1>2, <2>1
  <2> QED
    BY <1>1, <2>2 DEF IsGrown
<1>8. FrameIs(heap', slots, w, i + 1, TRUE)
  <2>1. i + 1 # 1
    BY <1>3
  <2> QED
    BY <1>5, <1>6, <2>1 DEF FrameIs
<1>9. FrameIs(heap', slots, Top, i, FALSE)
  BY <1>1, <1>3, TopKept
<1>10. Top'.made = NULL
  BY <1>6, <1>7 DEF Top, Last
<1>11. ASSUME NEW b \in Blocks
       PROVE  Holders(b)' = IF b = v THEN {<<"frame", i + 1>>} ELSE Holders(b)
  <2>1. OfFrame(w, i + 1, b) = IF b = v THEN {<<"frame", i + 1>>} ELSE {}
    <3>1. w.made # b
      BY <1>6, NullFacts
    <3> QED
      BY <1>6, <3>1 DEF OfFrame
  <2>2. OfStack(stack', b) = OfStack(stack, b) \cup OfFrame(w, i + 1, b)
    BY <1>7
  <2>3. Holders(b)' = Holders(b) \cup (IF b = v THEN {<<"frame", i + 1>>} ELSE {})
    <3>1. Holders(b) = OfSlots(slots, b) \cup OfLost(lost, b) \cup OfStack(stack, b)
      BY HoldersAre
    <3>2. Holders(b)' = OfSlots(slots, b) \cup OfLost(lost, b) \cup OfStack(stack', b)
      BY <1>2, HoldersBecome
    <3> QED
      BY <2>1, <2>2, <3>1, <3>2
  <2>4. b = v => Holders(b) = {}
    BY <1>4, InvFacts
  <2> QED
    BY <2>3, <2>4
<1>12. OneHolder' /\ IsForest(Kids(heap'), UsedBlocks(heap'), Held')
  <2>1. PICK o : o = <<"frame", i + 1>>
    OBVIOUS
  <2>2. \A b \in Blocks : Holders(b)' = IF b = NewVariable THEN {o} ELSE Holders(b)
    BY <1>1, <1>11, <2>1
  <2> QED
    BY <2>2, MemberHeld
<1>13. PointersRight'
  <2>1. \A l \in lost' : l \in lost /\ l \notin {}
    BY <1>2
  <2> QED
    BY <1>2, <1>4, <2>1, PointersSurvive
<1>14. StackRight'
  <2>1. ASSUME NEW j \in DOMAIN stack'
        PROVE  \/ j \in 1..(Len(stack) - 1) /\ stack'[j] = stack[j] /\ j # Len(stack')
               \/ FrameIs(heap', slots, stack'[j], j, j = Len(stack'))
    <3>1. CASE j = i + 1
      BY <1>7, <1>8, <3>1 DEF FrameIs
    <3>2. CASE j = i
      <4>1. stack'[j] = Top /\ j # Len(stack')
        BY <1>3, <1>7, <3>2
      <4> QED
        BY <1>9, <3>2, <4>1 DEF FrameIs
    <3>3. CASE j # i /\ j # i + 1
      <4>1. j \in 1..(i - 1) /\ j \in 1..i
        BY <1>3, <1>7, <3>3
      <4> QED
        BY <1>1, <1>7, <3>3, <4>1
    <3> QED
      BY <3>1, <3>2, <3>3
  <2> QED
    BY <1>2, <1>3, <1>4, <1>7, <1>10, <2>1, StackSurvives
<1>15. SourcesKept'
  <2>1. ASSUME NEW O \in SUBSET Blocks, IsKept(O), NEW j \in DOMAIN stack',
               stack'[j].kind # "compound", NEW k \in DOMAIN stack'[j].todo
        PROVE  /\ stack'[j].todo[k].from \in O
               /\ heap[stack'[j].todo[k].from].block = "variable"
    <3>1. CASE j = i + 1
      <4>1. stack'[j].todo = todo
        BY <1>6, <1>7, <3>1
      <4> QED
        BY <2>1, <4>1 DEF CopiesKept
    <3>2. CASE j # i + 1
      <4>1. j \in DOMAIN stack /\ stack'[j] = stack[j]
        BY <1>3, <1>7, <3>2
      <4> QED
        BY <2>1, <4>1 DEF IsKept
    <3> QED
      BY <3>1, <3>2
  <2> QED
    BY <1>2, <1>4, <2>1, SourcesSurvive
<1> QED
  BY <1>4, <1>12, <1>13, <1>14, <1>15 DEF MemoryInv

LEMMA MakeMemberStep ==
    ASSUME MemoryInv, MakeMember
    PROVE  MemoryInv'
<1>1. PICK value : value = IF Top.kind = "compound" THEN Member.value ELSE Source(Member.from)
  OBVIOUS
<1>2. /\ MemberBegins /\ HasRoom(value)
      /\ heap' = WithoutFormer(HeapWith(value), Top.n, Member.key)
      /\ stack' = IF value.type = "COMPOUND"
                  THEN Append(stack, Frame("copy", NULL, NewVariable, NewPart, NULL, value.todo))
                  ELSE PopTo([Top EXCEPT !.made = NewVariable])
  BY <1>1 DEF MakeMember, MemberBegins, Working, Idle
<1>3. stack # <<>> /\ Top.todo # <<>>
  BY <1>2 DEF MemberBegins
<1>4. /\ ValueRight(value)
      /\ value.type = "COMPOUND" =>
             /\ value.todo \in Seq(Copied)
             /\ \A O \in SUBSET Blocks : IsKept(O) =>
                    \A j \in DOMAIN value.todo :
                        /\ value.todo[j].from \in O
                        /\ heap[value.todo[j].from].block = "variable"
  BY <1>1, <1>3, MemberFacts
<1>5. value.type = "COMPOUND" => CopiesKept(value.todo)
  BY <1>4 DEF CopiesKept
<1>6. PICK key : key = Member.key
  OBVIOUS
<1>7. PICK X, P : IsMade(X, P, value, key)
  <2>1. heap' = WithoutFormer(HeapWith(value), Top.n, key)
    BY <1>2, <1>6
  <2>2. \E X, P : IsMade(X, P, value, key)
    BY <1>2, <1>3, <1>4, <2>1, MakeFacts
  <2> QED
    BY <2>2, Zenon
<1>8. IsMade(X, P, value, Member.key)
  BY <1>6, <1>7
<1>9. CASE value.type = "COMPOUND"
  <2>1. PICK todo : todo = value.todo
    OBVIOUS
  <2>2. stack' = Append(stack, Frame("copy", NULL, NewVariable, NewPart, NULL, todo))
    BY <1>2, <1>9, <2>1
  <2>3. CopiesKept(todo)
    BY <1>5, <1>9, <2>1
  <2> QED
    BY <1>2, <1>8, <1>9, <2>2, <2>3, MemberCopiedStep
<1>10. CASE value.type # "COMPOUND"
  <2>1. stack' = PopTo([Top EXCEPT !.made = NewVariable])
    BY <1>2, <1>10
  <2> QED
    BY <1>2, <1>8, <2>1, MemberMadeStep
<1> QED
  BY <1>9, <1>10
----------------------------------------------------------------------------
(* Every behaviour.                                                        *)

LEMMA InitFacts ==
    ASSUME MemoryInit
    PROVE  MemoryInv
<1>1. /\ heap = [b \in Blocks |-> Unused] /\ slots = [s \in Slots |-> NULL]
      /\ stack = <<>> /\ failing = FALSE /\ lost = {}
  BY DEF MemoryInit
<1>2. \A b \in Blocks : heap[b] = Unused /\ heap[b].block = "none"
  BY <1>1 DEF Unused
<1>3. HeapTyped(heap)
  BY <1>1, <1>2 DEF HeapTyped, Cells, Linked
<1>4. StackRight
  <2>1. <<>> \in Seq(Frames)
    OBVIOUS
  <2>2. stack = <<>> /\ stack \in Seq(Frames) /\ failing \in BOOLEAN /\ ~failing
    BY <1>1, <2>1
  <2> QED
    BY <2>2 DEF StackRight
<1>5. PointersRight
  BY <1>1 DEF PointersRight
<1>6. SourcesKept
  BY <1>1 DEF SourcesKept
<1>7. ASSUME NEW b \in Blocks
      PROVE  Holders(b) = {}
  <2>1. OfSlots(slots, b) = {}
    BY <1>1, NullFacts DEF OfSlots
  <2>2. OfLost(lost, b) = {}
    BY <1>1 DEF OfLost
  <2>3. OfStack(stack, b) = {}
    BY <1>1 DEF OfStack
  <2> QED
    BY <2>1, <2>2, <2>3, HoldersAre
<1>8. OneHolder /\ Held = {}
  BY <1>7 DEF OneHolder, Held
<1>9. UsedBlocks(heap) = {}
  BY <1>2 DEF UsedBlocks
<1>10. IsForest(Kids(heap), {}, {})
  <2>1. \A b \in Blocks : Children(heap, b) = {}
    BY <1>2, ChildIs
  <2>2. PICK K : K = Kids(heap)
    OBVIOUS
  <2>3. \A b \in Blocks : K[b] = {}
    BY <2>1, <2>2 DEF Kids
  <2> QED
    BY <2>2, <2>3 DEF IsForest, Ends
<1> QED
  BY <1>3, <1>4, <1>5, <1>6, <1>8, <1>9, <1>10 DEF MemoryInv

LEMMA StutterStep ==
    ASSUME MemoryInv, UNCHANGED memoryVars
    PROVE  MemoryInv'
<1>1. UNCHANGED <<heap, slots, stack, failing, lost>>
  BY DEF memoryVars
<1>2. OneHolder' /\ Held' = Held
  BY <1>1, HoldersSame
<1>3. HeapTyped(heap') /\ IsForest(Kids(heap'), UsedBlocks(heap'), Held')
  BY <1>1, <1>2 DEF MemoryInv
<1>4. StackRight'
  BY <1>1 DEF MemoryInv, StackRight, Top
<1>5. PointersRight'
  BY <1>1 DEF MemoryInv, PointersRight
<1>6. SourcesKept'
  <2>1. \A O : IsKept(O)' <=> IsKept(O)
    BY <1>1 DEF IsKept
  <2> QED
    BY <1>1, <2>1 DEF MemoryInv, SourcesKept
<1> QED
  BY <1>2, <1>3, <1>4, <1>5, <1>6 DEF MemoryInv

LEMMA NextStep ==
    ASSUME MemoryInv, [MemoryNext]_memoryVars
    PROVE  MemoryInv'
<1>1. ASSUME NEW s \in Slots,
             \/ VariableNew(s) \/ VariableNewCompound(s) \/ VariableNewCompoundVariables(s)
             \/ VariableNewCopy(s) \/ VariableCopy(s) \/ VariableSetType(s) \/ VariableDelete(s)
      PROVE  MemoryInv'
  BY <1>1, CallStep
<1>2. CASE MakeMember
  BY <1>2, MakeMemberStep
<1>3. CASE MemberFails
  BY <1>3, MemberFailsStep
<1>4. CASE SetMember
  BY <1>4, SetMemberStep
<1>5. CASE SetFails
  BY <1>5, SetFailsStep
<1>6. CASE Return
  BY <1>6, ReturnStep
<1>7. CASE Fail
  BY <1>7, FailStep
<1>8. CASE UNCHANGED memoryVars
  BY <1>8, StutterStep
<1> QED
  BY <1>1, <1>2, <1>3, <1>4, <1>5, <1>6, <1>7, <1>8 DEF MemoryNext

(* Where a block has the address of b.                                     *)
OfBlock(a, b) ==
    (IF heap[a].block = "variable" /\ heap[a].string = b THEN {<<"name", a>>} ELSE {})
    \cup (IF heap[a].block = "variable" /\ heap[a].members = b THEN {<<"members", a>>} ELSE {})
    \cup (IF heap[a].block = "mutator"
          THEN {<<"entry", a, i>> : i \in {j \in DOMAIN heap[a].entries : heap[a].entries[j].value = b}}
          ELSE {})

LEMMA WithinIs ==
    ASSUME NEW b
    PROVE  Within(b) = UNION {OfBlock(a, b) : a \in Blocks}
BY DEF Within, OfBlock

(* At most at one place.                                                   *)
LEMMA OfBlockIs ==
    ASSUME HeapTyped(heap), NEW a \in Blocks, NEW b \in Blocks
    PROVE  /\ b \notin Children(heap, a) => OfBlock(a, b) = {}
           /\ b \in Children(heap, a) => \E o : OfBlock(a, b) = {o}
<1>1. Linked(heap, a) /\ b # NULL
  BY NullFacts DEF HeapTyped
<1>2. CASE heap[a].block = "variable"
  <2>1. Children(heap, a) = {heap[a].string, heap[a].members} \ {NULL}
    BY <1>2, ChildIs
  <2>2. /\ heap[a].string = b => heap[b].block = "string"
        /\ heap[a].members = b => heap[b].block = "mutator"
    BY <1>1, <1>2 DEF Linked
  <2>3. OfBlock(a, b) = (IF heap[a].string = b THEN {<<"name", a>>} ELSE {})
                        \cup (IF heap[a].members = b THEN {<<"members", a>>} ELSE {})
    BY <1>2 DEF OfBlock
  <2>4. ~(heap[a].string = b /\ heap[a].members = b)
    BY <2>2
  <2>5. CASE heap[a].string = b
    <3>1. OfBlock(a, b) = {<<"name", a>>} /\ b \in Children(heap, a)
      BY <1>1, <2>1, <2>3, <2>4, <2>5
    <3> QED
      BY <3>1
  <2>6. CASE heap[a].members = b
    <3>1. OfBlock(a, b) = {<<"members", a>>} /\ b \in Children(heap, a)
      BY <1>1, <2>1, <2>3, <2>4, <2>6
    <3> QED
      BY <3>1
  <2>7. CASE heap[a].string # b /\ heap[a].members # b
    BY <2>1, <2>3, <2>7
  <2> QED
    BY <2>5, <2>6, <2>7
<1>3. CASE heap[a].block = "mutator"
  <2>1. PICK e : e = heap[a].entries
    OBVIOUS
  <2>2. Children(heap, a) = {e[i].value : i \in DOMAIN e}
    BY <1>3, <2>1, ChildIs
  <2>3. \A i, j \in DOMAIN e : e[i].value = e[j].value => i = j
    BY <1>1, <1>3, <2>1 DEF Linked
  <2>4. OfBlock(a, b) = {<<"entry", a, i>> : i \in {j \in DOMAIN e : e[j].value = b}}
    BY <1>3, <2>1 DEF OfBlock
  <2>5. CASE b \in Children(heap, a)
    <3>1. PICK i \in DOMAIN e : e[i].value = b
      BY <2>2, <2>5
    <3>2. {j \in DOMAIN e : e[j].value = b} = {i}
      BY <2>3, <3>1
    <3>3. OfBlock(a, b) = {<<"entry", a, i>>}
      BY <2>4, <3>2
    <3> QED
      BY <2>5, <3>3
  <2>6. CASE b \notin Children(heap, a)
    BY <2>2, <2>4, <2>6
  <2> QED
    BY <2>5, <2>6
<1>4. CASE heap[a].block \notin {"variable", "mutator"}
  <2>1. Children(heap, a) = {}
    BY <1>4, ChildIs
  <2>2. OfBlock(a, b) = {}
    BY <1>4 DEF OfBlock
  <2> QED
    BY <2>1, <2>2
<1> QED
  BY <1>2, <1>3, <1>4

LEMMA InvOwned ==
    ASSUME MemoryInv
    PROVE  Owned
<1>1. ASSUME NEW b \in Blocks
      PROVE  Cardinality(Owners(b)) = IF heap[b] = Unused THEN 0 ELSE 1
  <2>1. /\ HeapTyped(heap) /\ IsForest(Kids(heap), UsedBlocks(heap), Held)
        /\ b \notin Held => Holders(b) = {}
        /\ heap[b] = Unused => b \notin Held /\ b \notin UsedBlocks(heap)
    BY InvFacts
  <2>2. /\ \A a \in Blocks : Children(heap, a) \subseteq UsedBlocks(heap)
        /\ \A a, c \in Blocks : \A x \in UsedBlocks(heap) :
               x \in Children(heap, a) /\ x \in Children(heap, c) => a = c
        /\ \A a \in Blocks, r \in Held : r \notin Children(heap, a)
        /\ \A u \in UsedBlocks(heap) : u \in Held \/ \E a \in Blocks : u \in Children(heap, a)
    BY <2>1, ForestKids
  <2>3. Owners(b) = Holders(b) \cup UNION {OfBlock(a, b) : a \in Blocks}
    BY WithinIs DEF Owners
  <2>4. \A a \in Blocks : /\ b \notin Children(heap, a) => OfBlock(a, b) = {}
                          /\ b \in Children(heap, a) => \E o : OfBlock(a, b) = {o}
    BY <2>1, OfBlockIs
  <2>5. CASE heap[b] = Unused
    <3>1. \A a \in Blocks : OfBlock(a, b) = {}
      BY <2>1, <2>2, <2>4, <2>5
    <3>2. Owners(b) = {}
      BY <2>1, <2>3, <2>5, <3>1
    <3> QED
      BY <2>5, <3>2, FS_EmptySet
  <2>6. CASE b \in Held
    <3>1. \A a \in Blocks : OfBlock(a, b) = {}
      BY <2>2, <2>4, <2>6
    <3>2. Owners(b) = Holders(b)
      BY <2>3, <3>1
    <3>3. PICK o : o \in Holders(b)
      BY <2>6 DEF Held
    <3>4. Owners(b) = {o}
      BY <3>2, <3>3, HeldBy
    <3>5. Cardinality({o}) = 1
      BY FS_Singleton
    <3> QED
      BY <2>1, <2>6, <3>4, <3>5
  <2>7. CASE heap[b] # Unused /\ b \notin Held
    <3>1. b \in UsedBlocks(heap)
      BY <2>7 DEF UsedBlocks
    <3>2. PICK a \in Blocks : b \in Children(heap, a)
      BY <2>2, <2>7, <3>1
    <3>3. \A c \in Blocks : c # a => OfBlock(c, b) = {}
      BY <2>2, <2>4, <3>1, <3>2
    <3>4. PICK o : OfBlock(a, b) = {o}
      BY <2>4, <3>2
    <3>5. Owners(b) = {o}
      BY <2>1, <2>3, <2>7, <3>3, <3>4
    <3>6. Cardinality({o}) = 1
      BY FS_Singleton
    <3> QED
      BY <2>7, <3>5, <3>6
  <2> QED
    BY <2>5, <2>6, <2>7
<1> QED
  BY <1>1 DEF Owned

(* Every block in use has one owner, and nothing that is owned has been    *)
(* freed, wherever an allocation fails in the middle of nested members.    *)
THEOREM OwnedAlways == MemorySpec => []Owned
<1>1. MemoryInit => MemoryInv
  BY InitFacts
<1>2. MemoryInv /\ [MemoryNext]_memoryVars => MemoryInv'
  BY NextStep
<1>3. MemoryInv => Owned
  BY InvOwned
<1> QED
  BY <1>1, <1>2, <1>3, PTL DEF MemorySpec
=============================================================================
