--------------------------- MODULE IndexKeyProofs ----------------------------
(***************************************************************************)
(* Proofs about IndexKey, for keys of any size, ints of one to four bytes  *)
(* and doubles of any width: CompareTo is a strict total order, so that a  *)
(* B+ tree may be ordered by it; keys that start with an int come in the   *)
(* order of their ints; doubles keep the order of their values, except     *)
(* that the two zeros get two keys.                                        *)
(***************************************************************************)
EXTENDS IndexKey, TLAPS, WellFoundedInduction

Keys == [1..KeySize -> Byte]

-----------------------------------------------------------------------------
(* The order of the keys.                                                  *)

LEMMA KeyBytes ==
  ASSUME NEW k \in Keys
  PROVE  /\ DOMAIN k = 1..KeySize
         /\ \A i \in 1..KeySize : i \in Nat /\ k[i] \in Int /\ 0 <= k[i] /\ k[i] <= 255
<1>1. DOMAIN k = 1..KeySize /\ \A i \in 1..KeySize : k[i] \in 0..255
  BY DEF Keys, Byte
<1>2. \A i \in 1..KeySize : i \in Nat
  BY KeyAssumption
<1>3. \A b \in 0..255 : b \in Int /\ 0 <= b /\ b <= 255
  OBVIOUS
<1> QED BY <1>1, <1>2, <1>3

\* Two different keys have a first byte where they differ.
LEMMA FirstDifference ==
  ASSUME NEW k \in Keys, NEW l \in Keys, k # l
  PROVE  \E i \in 1..KeySize : k[i] # l[i] /\ \A j \in 1..(i - 1) : k[j] = l[j]
<1> DEFINE T == {i \in Nat : i \in 1..KeySize /\ k[i] # l[i]}
<1>1. T # {} /\ T \subseteq Nat
  <2>1. PICK i \in 1..KeySize : k[i] # l[i]
    <3> HIDE DEF T
    <3>1. /\ k = [i \in 1..KeySize |-> k[i]]
          /\ l = [i \in 1..KeySize |-> l[i]]
      BY DEF Keys
    <3> QED BY <3>1, Zenon
  <2>2. i \in T
    BY <2>1, KeyAssumption
  <2> QED BY <2>2
<1>2. PICK i \in T : \A j \in T : ~ (<<j, i>> \in OpToRel(<, Nat))
  <2> HIDE DEF T
  <2> QED BY <1>1, NatLessThanWellFounded, WFMin
<1>3. \A j \in T : ~ (j < i)
  BY <1>2 DEF OpToRel
<1>4. \A j \in 1..(i - 1) : k[j] = l[j]
  BY <1>3, KeyAssumption
<1> QED BY <1>4

\* No key is less than itself.
LEMMA KeyLessIrreflexive ==
  ASSUME NEW k \in Keys
  PROVE  ~ KeyLess(k, k)
<1>1. ASSUME NEW i \in DOMAIN k PROVE ~ (k[i] < k[i])
  <2>1. k[i] \in Int
    BY KeyBytes
  <2> QED BY <2>1
<1> QED BY <1>1 DEF KeyLess

LEMMA KeyLessTransitive ==
  ASSUME NEW k \in Keys, NEW l \in Keys, NEW m \in Keys,
         KeyLess(k, l), KeyLess(l, m)
  PROVE  KeyLess(k, m)
<1>1. PICK a \in 1..KeySize : k[a] < l[a] /\ \A j \in 1..(a - 1) : k[j] = l[j]
  BY DEF KeyLess, Keys
<1>2. PICK b \in 1..KeySize : l[b] < m[b] /\ \A j \in 1..(b - 1) : l[j] = m[j]
  BY DEF KeyLess, Keys
<1> DEFINE c == IF a <= b THEN a ELSE b
<1>3. c \in 1..KeySize /\ \A j \in 1..(c - 1) : k[j] = m[j]
  BY <1>1, <1>2, KeyAssumption
<1>4. k[c] < m[c]
  <2>1. CASE a < b  BY <1>1, <1>2, <2>1, KeyBytes
  <2>2. CASE b < a  BY <1>1, <1>2, <2>2, KeyBytes
  <2>3. CASE a = b  BY <1>1, <1>2, <2>3, KeyBytes
  <2> QED BY <2>1, <2>2, <2>3, KeyAssumption
<1> QED BY <1>3, <1>4 DEF KeyLess, Keys

LEMMA KeyLessTotal ==
  ASSUME NEW k \in Keys, NEW l \in Keys, k # l
  PROVE  KeyLess(k, l) \/ KeyLess(l, k)
<1>1. PICK i \in 1..KeySize : k[i] # l[i] /\ \A j \in 1..(i - 1) : k[j] = l[j]
  BY FirstDifference
<1>2. k[i] < l[i] \/ l[i] < k[i]
  BY <1>1, KeyBytes
<1> QED BY <1>1, <1>2 DEF KeyLess, Keys

\* The six comparisons of IndexKey are those of a strict total order: exactly
\* one of k < l, k = l and l < k, and < is transitive.  The binary searches
\* and the leaf order of the B+ tree rest on it.
THEOREM KeysTotallyOrdered ==
  ASSUME NEW k \in Keys, NEW l \in Keys
  PROVE  /\ CompareTo(k, l) = 0 <=> k = l
         /\ CompareTo(k, l) = -1 <=> CompareTo(l, k) = 1
         /\ \A m \in Keys : CompareTo(k, l) = -1 /\ CompareTo(l, m) = -1
                              => CompareTo(k, m) = -1
<1>1. ~ (KeyLess(k, l) /\ KeyLess(l, k))
  BY KeyLessTransitive, KeyLessIrreflexive
<1>2. k = l => ~ KeyLess(k, l)
  BY KeyLessIrreflexive
<1>3. k # l => KeyLess(k, l) \/ KeyLess(l, k)
  BY KeyLessTotal
<1>4. \A m \in Keys : KeyLess(k, l) /\ KeyLess(l, m) => KeyLess(k, m)
  BY KeyLessTransitive
<1> QED BY <1>1, <1>2, <1>3, <1>4 DEF CompareTo

\* The bounds of the open ranges: no key is below Min() or above Max().
THEOREM BoundsEncloseKeys ==
  ASSUME NEW k \in Keys
  PROVE  ~ KeyLess(k, MinKey) /\ ~ KeyLess(MaxKey, k)
<1>1. /\ DOMAIN k = 1..KeySize /\ DOMAIN MaxKey = 1..KeySize
      /\ \A i \in 1..KeySize : MinKey[i] = 0 /\ MaxKey[i] = 255
  BY KeyBytes DEF MinKey, MaxKey
<1>2. ASSUME NEW i \in 1..KeySize
      PROVE  ~ (k[i] < MinKey[i]) /\ ~ (MaxKey[i] < k[i])
  <2>1. k[i] \in Int /\ 0 <= k[i] /\ k[i] <= 255
    BY KeyBytes
  <2> QED BY <1>1, <2>1
<1> QED BY <1>1, <1>2 DEF KeyLess

-----------------------------------------------------------------------------
(* Ints.                                                                   *)

\* The byte of a pattern that WriteValue(int) writes at place i.
ByteAt(bits, i) == (bits \div Weight(i)) % 256

Patterns == 0..(2 * SignBit - 1)

LEMMA SignBitValue == SignBit \in Nat \ {0}
BY KeyAssumption, SMT DEF SignBit, Weight

\* Flipping the sign bit shifts the ints to the patterns.
LEMMA FlippedPattern ==
  ASSUME NEW n \in IntRange
  PROVE  FlipSign(TwosComplement(n), SignBit) = n + SignBit /\ n + SignBit \in Patterns
BY SignBitValue DEF IntRange, FlipSign, TwosComplement, Patterns

LEMMA ByteInRange ==
  ASSUME NEW bits \in Nat, NEW i \in 1..IntBytes
  PROVE  ByteAt(bits, i) \in Byte
BY KeyAssumption, SMT DEF ByteAt, Weight, Byte

\* The bytes of a pattern down to place i, as a number.
Upper(bits, i) == bits \div Weight(i)

LEMMA Weights ==
  /\ \A i \in 1..IntBytes : Weight(i) \in {1, 256, 65536, 16777216}
  /\ \A i \in 2..IntBytes : /\ Weight(i) \in {1, 256, 65536}
                            /\ Weight(i - 1) = 256 * Weight(i)
  /\ Weight(IntBytes) = 1
  /\ Weight(1) \in Nat
BY KeyAssumption, SMT DEF Weight

LEMMA UpperIsNat ==
  ASSUME NEW bits \in Nat, NEW i \in 1..IntBytes
  PROVE  Upper(bits, i) \in Nat
<1>1. /\ bits \div 1 \in Nat /\ bits \div 256 \in Nat
      /\ bits \div 65536 \in Nat /\ bits \div 16777216 \in Nat
  BY SMT
<1> QED BY <1>1, Weights, SMT DEF Upper

\* Byte i is what Upper(bits, i) has more than Upper(bits, i - 1).
LEMMA UpperSteps ==
  ASSUME NEW bits \in Nat, NEW i \in 2..IntBytes
  PROVE  Upper(bits, i) = 256 * Upper(bits, i - 1) + ByteAt(bits, i)
<1>1. /\ bits \div 256 = (bits \div 1) \div 256
      /\ bits \div 65536 = (bits \div 256) \div 256
      /\ bits \div 16777216 = (bits \div 65536) \div 256
  BY SMT
<1>2. Upper(bits, i - 1) = Upper(bits, i) \div 256
  <2>1. CASE Weight(i) = 1
    <3>1. Weight(i - 1) = 256
      BY <2>1, Weights, SMT
    <3> QED BY <1>1, <2>1, <3>1 DEF Upper
  <2>2. CASE Weight(i) = 256
    <3>1. Weight(i - 1) = 65536
      BY <2>2, Weights, SMT
    <3> QED BY <1>1, <2>2, <3>1, SMT DEF Upper
  <2>3. CASE Weight(i) = 65536
    <3>1. Weight(i - 1) = 16777216
      BY <2>3, Weights, SMT
    <3> QED BY <1>1, <2>3, <3>1, SMT DEF Upper
  <2> QED BY <2>1, <2>2, <2>3, Weights
<1>3. Upper(bits, i) \in Nat
  BY UpperIsNat, KeyAssumption
<1>4. \A n \in Nat : n = 256 * (n \div 256) + (n % 256)
  BY SMT
<1> QED BY <1>2, <1>3, <1>4 DEF ByteAt, Upper

LEMMA FirstUpper ==
  ASSUME NEW bits \in Patterns
  PROVE  ByteAt(bits, 1) = Upper(bits, 1)
<1>1. 2 * SignBit = 256 * Weight(1) /\ Weight(1) \in {1, 256, 65536, 16777216}
  BY Weights, KeyAssumption DEF SignBit
<1>2. bits \in Nat /\ bits < 256 * Weight(1)
  BY <1>1, SMT DEF Patterns
<1>3. Upper(bits, 1) \in 0..255
  <2>1. /\ bits < 256 => bits \div 1 \in 0..255
        /\ bits < 65536 => bits \div 256 \in 0..255
        /\ bits < 16777216 => bits \div 65536 \in 0..255
        /\ bits < 4294967296 => bits \div 16777216 \in 0..255
    BY <1>2, SMT
  <2> QED BY <1>1, <1>2, <2>1, SMT DEF Upper
<1>4. \A n \in 0..255 : n % 256 = n
  BY SMT
<1> QED BY <1>3, <1>4 DEF ByteAt, Upper

LEMMA UpperMonotone ==
  ASSUME NEW m \in Nat, NEW n \in Nat, m < n, NEW i \in 1..IntBytes
  PROVE  Upper(m, i) <= Upper(n, i)
<1>1. /\ m \div 1 <= n \div 1 /\ m \div 256 <= n \div 256
      /\ m \div 65536 <= n \div 65536 /\ m \div 16777216 <= n \div 16777216
  BY SMT
<1> QED BY <1>1, Weights, SMT DEF Upper

\* Two patterns are in the order of the first byte where they differ: it is
\* the first place where their upper bytes differ as numbers.
LEMMA FirstByteDecides ==
  ASSUME NEW m \in Patterns, NEW n \in Patterns, m < n
  PROVE  \E i \in 1..IntBytes : /\ ByteAt(m, i) < ByteAt(n, i)
                                /\ \A j \in 1..(i - 1) : ByteAt(m, j) = ByteAt(n, j)
<1>1. m \in Nat /\ n \in Nat
  BY SignBitValue DEF Patterns
<1>2. Upper(m, IntBytes) = m /\ Upper(n, IntBytes) = n
  BY <1>1, Weights, SMT DEF Upper
<1> DEFINE T == {i \in Nat : i \in 1..IntBytes /\ Upper(m, i) # Upper(n, i)}
<1>3. IntBytes \in T
  BY <1>1, <1>2, KeyAssumption
<1>4. PICK i \in T : \A j \in T : ~ (<<j, i>> \in OpToRel(<, Nat))
  <2>1. T \subseteq Nat /\ T # {}
    BY <1>3
  <2> HIDE DEF T
  <2> QED BY <2>1, NatLessThanWellFounded, WFMin
<1>5. i \in 1..IntBytes /\ Upper(m, i) # Upper(n, i)
  OBVIOUS
<1>6. \A j \in 1..(i - 1) : j \in 1..IntBytes /\ Upper(m, j) = Upper(n, j)
  <2>1. \A j \in T : ~ (j < i)
    BY <1>4 DEF OpToRel
  <2> QED BY <1>5, <2>1, KeyAssumption
<1>7. \A j \in 1..(i - 1) : ByteAt(m, j) = ByteAt(n, j)
  BY <1>6 DEF ByteAt, Upper
<1>8. Upper(m, i) < Upper(n, i)
  BY <1>1, <1>5, UpperMonotone, UpperIsNat
<1>9. ByteAt(m, i) < ByteAt(n, i)
  <2>1. CASE i = 1
    BY <1>8, <2>1, FirstUpper
  <2>2. CASE i # 1
    <3>1. i \in 2..IntBytes /\ i - 1 \in 1..(i - 1)
      BY <1>5, <2>2, KeyAssumption
    <3>2. Upper(m, i - 1) = Upper(n, i - 1) /\ Upper(m, i - 1) \in Nat
      BY <1>1, <1>6, <3>1, UpperIsNat
    <3>3. /\ Upper(m, i) = 256 * Upper(m, i - 1) + ByteAt(m, i)
          /\ Upper(n, i) = 256 * Upper(n, i - 1) + ByteAt(n, i)
      BY <1>1, <3>1, UpperSteps
    <3>4. ByteAt(m, i) \in 0..255 /\ ByteAt(n, i) \in 0..255
      BY <1>1, <1>5, ByteInRange DEF Byte
    <3> DEFINE u == Upper(m, i - 1)
               v == ByteAt(m, i)
               w == ByteAt(n, i)
    <3>5. u \in Nat /\ v \in Int /\ w \in Int /\ 256 * u + v < 256 * u + w
      BY <1>8, <3>2, <3>3, <3>4
    <3>6. v < w
      <4> HIDE DEF u, v, w
      <4> QED BY <3>5
    <3> QED BY <3>6
  <2> QED BY <2>1, <2>2
<1> QED BY <1>5, <1>7, <1>9

\* What IntBytesOf writes for an int, in terms of its pattern.
LEMMA IntBytesAreBytes ==
  ASSUME NEW n \in IntRange
  PROVE  /\ IntBytesOf(n) = [i \in 1..IntBytes |-> ByteAt(n + SignBit, i)]
         /\ IntBytesOf(n) \in Seq(Byte) /\ Len(IntBytesOf(n)) = IntBytes
<1>1. IntBytesOf(n) = [i \in 1..IntBytes |-> ByteAt(n + SignBit, i)]
  BY FlippedPattern DEF IntBytesOf, ByteAt
<1>2. n + SignBit \in Nat
  BY FlippedPattern, SignBitValue DEF Patterns
<1>3. \A i \in 1..IntBytes : ByteAt(n + SignBit, i) \in Byte
  BY <1>2, ByteInRange
<1>4. IntBytes \in Nat
  BY KeyAssumption
<1>5. IntBytesOf(n) \in [1..IntBytes -> Byte]
  BY <1>1, <1>3
<1>6. IntBytesOf(n) \in Seq(Byte)
  BY <1>4, <1>5
<1> QED BY <1>1, <1>4, <1>5, <1>6

LEMMA PaddedIsKey ==
  ASSUME NEW bytes \in Seq(Byte)
  PROVE  Padded(bytes) \in Keys
<1>1. \A i \in 1..KeySize : i <= Len(bytes) => bytes[i] \in Byte
  BY KeyAssumption
<1>2. 0 \in Byte
  BY DEF Byte
<1>3. \A i \in 1..KeySize : (IF i <= Len(bytes) THEN bytes[i] ELSE 0) \in Byte
  BY <1>1, <1>2
<1> QED BY <1>3 DEF Padded, Keys

\* The bytes of a first int stand at the start of the key whatever follows.
LEMMA IntComesFirst ==
  ASSUME NEW n \in IntRange, NEW x \in Seq(Byte), IntBytes <= KeySize
  PROVE  /\ Padded(IntBytesOf(n) \o x) \in Keys
         /\ \A i \in 1..IntBytes :
              Padded(IntBytesOf(n) \o x)[i] = ByteAt(n + SignBit, i)
<1> DEFINE b == IntBytesOf(n)
<1>1. b \in Seq(Byte) /\ Len(b) = IntBytes
  BY IntBytesAreBytes
<1>2. \A i \in 1..IntBytes : b[i] = ByteAt(n + SignBit, i)
  BY IntBytesAreBytes
<1>3. /\ b \o x \in Seq(Byte)
      /\ \A i \in 1..IntBytes : i <= Len(b \o x) /\ (b \o x)[i] = b[i]
  <2> HIDE DEF b
  <2> QED BY <1>1, KeyAssumption
<1>4. \A i \in 1..IntBytes : i \in 1..KeySize
  BY KeyAssumption
<1>5. \A i \in 1..IntBytes : Padded(b \o x)[i] = b[i]
  <2> HIDE DEF b
  <2> QED BY <1>3, <1>4 DEF Padded
<1> QED BY <1>2, <1>3, <1>5, PaddedIsKey

LEMMA SmallerIntSmallerKey ==
  ASSUME NEW m \in IntRange, NEW n \in IntRange, m < n, IntBytes <= KeySize,
         NEW x \in Seq(Byte), NEW y \in Seq(Byte)
  PROVE  KeyLess(Padded(IntBytesOf(m) \o x), Padded(IntBytesOf(n) \o y))
<1>1. /\ m + SignBit \in Patterns /\ n + SignBit \in Patterns
      /\ m + SignBit < n + SignBit
  <2>1. m \in Int /\ n \in Int /\ SignBit \in Int
    BY SignBitValue DEF IntRange
  <2> QED BY <2>1, FlippedPattern
<1>2. PICK i \in 1..IntBytes :
        /\ ByteAt(m + SignBit, i) < ByteAt(n + SignBit, i)
        /\ \A j \in 1..(i - 1) : ByteAt(m + SignBit, j) = ByteAt(n + SignBit, j)
  BY <1>1, FirstByteDecides
<1> DEFINE k == Padded(IntBytesOf(m) \o x)
           l == Padded(IntBytesOf(n) \o y)
<1>3. /\ k \in Keys
      /\ \A j \in 1..IntBytes : k[j] = ByteAt(m + SignBit, j)
      /\ \A j \in 1..IntBytes : l[j] = ByteAt(n + SignBit, j)
  BY IntComesFirst
<1>4. i \in 1..KeySize /\ \A j \in 1..(i - 1) : j \in 1..IntBytes
  BY KeyAssumption
<1>5. k[i] < l[i] /\ \A j \in 1..(i - 1) : k[j] = l[j]
  <2> HIDE DEF k, l
  <2> QED BY <1>2, <1>3, <1>4
<1>6. i \in DOMAIN k
  BY <1>3, <1>4, KeyBytes
<1> QED BY <1>5, <1>6 DEF KeyLess

\* Keys whose first column is an int or a boolean are in the order of those
\* ints whatever the columns behind hold: WriteValue(int) keeps the order and
\* tells any two ints apart, and a range scan on the first column of an index
\* meets exactly the ints of the range.
THEOREM IntKeysOrdered ==
  ASSUME NEW m \in IntRange, NEW n \in IntRange, IntBytes <= KeySize,
         NEW x \in Seq(Byte), NEW y \in Seq(Byte),
         NEW k, k = Padded(IntBytesOf(m) \o x),
         NEW l, l = Padded(IntBytesOf(n) \o y)
  PROVE  /\ m < n => KeyLess(k, l)
         /\ k = l => m = n
         /\ KeyLess(k, l) => m <= n
<1>1. m < n => KeyLess(k, l)
  BY SmallerIntSmallerKey
<1>2. n < m => KeyLess(l, k)
  BY SmallerIntSmallerKey
<1>3. k \in Keys /\ l \in Keys
  BY IntComesFirst
<1>4. m \in Int /\ n \in Int
  BY SignBitValue DEF IntRange
<1>5. ~ (KeyLess(k, l) /\ KeyLess(l, k)) /\ (k = l => ~ KeyLess(k, l) /\ ~ KeyLess(l, k))
  BY <1>3, KeyLessTransitive, KeyLessIrreflexive
<1> QED BY <1>1, <1>2, <1>4, <1>5

-----------------------------------------------------------------------------
(* Doubles.                                                                *)

\* What an IEEE pattern stands for in an order-preserving way: its magnitude
\* bits, negated under a sign bit.  Both zeros are 0.
SignedMagnitude(bits, sign) == IF bits >= sign THEN sign - bits ELSE bits

\* WriteValue(double) keeps the order of the values and tells any two apart,
\* with one exception that follows from it being one to one on the patterns:
\* the patterns of 0.0 and -0.0, equal as values, get different keys, next to
\* each other.
THEOREM DoubleBitsOrdered ==
  ASSUME NEW sign \in Nat \ {0},
         NEW a \in 0..(2 * sign - 1), NEW b \in 0..(2 * sign - 1)
  PROVE  /\ DoubleBits(a, sign) \in 0..(2 * sign - 1)
         /\ SignedMagnitude(a, sign) < SignedMagnitude(b, sign)
              => DoubleBits(a, sign) < DoubleBits(b, sign)
         /\ DoubleBits(a, sign) = DoubleBits(b, sign) => a = b
         /\ SignedMagnitude(a, sign) = SignedMagnitude(b, sign) /\ a # b
              => {a, b} = {0, sign} /\ {DoubleBits(a, sign), DoubleBits(b, sign)}
                                          = {sign - 1, sign}
<1>1. /\ DoubleBits(a, sign) \in 0..(2 * sign - 1)
      /\ SignedMagnitude(a, sign) < SignedMagnitude(b, sign)
           => DoubleBits(a, sign) < DoubleBits(b, sign)
      /\ DoubleBits(a, sign) = DoubleBits(b, sign) => a = b
  BY DEF DoubleBits, SignedMagnitude, FlipSign
<1>2. ASSUME SignedMagnitude(a, sign) = SignedMagnitude(b, sign), a # b
      PROVE  (a = 0 /\ b = sign) \/ (a = sign /\ b = 0)
  BY <1>2 DEF SignedMagnitude
<1>3. DoubleBits(0, sign) = sign /\ DoubleBits(sign, sign) = sign - 1
  BY DEF DoubleBits, FlipSign
<1> QED BY <1>1, <1>2, <1>3

-----------------------------------------------------------------------------
(* Collisions.                                                             *)

\* The recursion of WrittenBytes, for a key of one column.
LEMMA OneValueWritten ==
  ASSUME NEW v
  PROVE  WrittenBytes(<<v>>) = << >> \o ValueBytes(v)
<1> DEFINE step(f) == [n \in 0..1 |-> IF n = 0 THEN << >>
                                      ELSE f[n - 1] \o ValueBytes(<<v>>[n])]
           g == [n \in 0..1 |-> IF n = 0 THEN << >> ELSE << >> \o ValueBytes(v)]
           upTo == CHOOSE f : f = step(f)
<1>1. Len(<<v>>) = 1 /\ <<v>>[1] = v /\ 0 \in 0..1 /\ 1 \in 0..1 /\ 1 # 0 /\ 1 - 1 = 0
  OBVIOUS
<1>2. g = step(g)
  <2>1. \A n \in 0..1 : n = 0 \/ n = 1
    OBVIOUS
  <2>2. g[0] = << >> /\ g[1] = << >> \o ValueBytes(v)
    BY <1>1, Zenon
  <2>3. \A n \in 0..1 : step(g)[n] = g[n]
    BY <1>1, <2>1, <2>2, Zenon
  <2>4. QED
    BY <2>3, Zenon
<1>3. upTo = step(upTo)
  BY <1>2, Zenon
<1>4. upTo[0] = << >> /\ upTo[1] = upTo[0] \o ValueBytes(v)
  BY <1>1, <1>3, Zenon
<1>5. WrittenBytes(<<v>>) = upTo[1]
  BY <1>1, Zenon DEF WrittenBytes
<1>6. QED
  BY <1>4, <1>5, Zenon

\* A key that only zero bytes are written to is Min().
LEMMA ZeroBytesAreMin ==
  ASSUME NEW bytes \in Seq(Byte), \A i \in 1..Len(bytes) : bytes[i] = 0
  PROVE  Padded(bytes) = MinKey
<1>1. \A i \in 1..KeySize : i <= Len(bytes) => i \in 1..Len(bytes)
  BY KeyAssumption
<1>2. QED
  BY <1>1 DEF Padded, MinKey

LEMMA OneValueOfZeros ==
  ASSUME NEW v, ValueBytes(v) \in Seq(Byte),
         \A i \in 1..Len(ValueBytes(v)) : ValueBytes(v)[i] = 0
  PROVE  KeyOf(<<v>>) = MinKey
<1> DEFINE bytes == ValueBytes(v)
<1> HIDE DEF bytes
<1>1. << >> \o bytes = bytes
  BY DEF bytes
<1>2. WrittenBytes(<<v>>) = bytes
  BY <1>1, OneValueWritten DEF bytes
<1>3. Padded(bytes) = MinKey
  BY ZeroBytesAreMin DEF bytes
<1>4. QED
  BY <1>2, <1>3 DEF KeyOf

\* The constructor writes one zero byte for a NULL and no byte for an empty
\* string, and the rest of the key stays zero: the key of either is Min().
\* Every scan that is open below (v < x, v <= x) meets a NULL, and an index on
\* a string column cannot tell it from the empty string.
THEOREM NullKeyIsMin ==
  KeyOf(<<Null>>) = MinKey /\ KeyOf(<<StrVal(<< >>)>>) = MinKey
<1>1. KeyOf(<<Null>>) = MinKey
  <2>1. ValueBytes(Null) = <<0>>
    BY DEF ValueBytes, Null, Value
  <2>2. <<0>> \in Seq(Byte) /\ Len(<<0>>) = 1 /\ \A i \in 1..1 : <<0>>[i] = 0
    BY DEF Byte
  <2>3. QED
    BY <2>1, <2>2, OneValueOfZeros
<1>2. KeyOf(<<StrVal(<< >>)>>) = MinKey
  <2> DEFINE empty == StrVal(<< >>)
  <2>1. empty.type = "str" /\ empty.text = << >>
    BY DEF StrVal, Value
  <2>2. ValueBytes(empty) = [i \in DOMAIN << >> |-> Code[<< >>[i]]]
    BY <2>1 DEF ValueBytes
  <2>3. ValueBytes(empty) = << >>
    BY <2>2
  <2>4. << >> \in Seq(Byte) /\ \A i \in 1..Len(<< >>) : << >>[i] = 0
    OBVIOUS
  <2> HIDE DEF empty
  <2>5. KeyOf(<<empty>>) = MinKey
    BY <2>3, <2>4, OneValueOfZeros
  <2>6. QED
    BY <2>5 DEF empty
<1>3. QED
  BY <1>1, <1>2

\* And so is the key of the smallest int, in a column that has room for one:
\* INT_MIN and NULL are the same to an index.
THEOREM SmallestIntIsNull == KeyOf(<<IntVal(-SignBit)>>) = KeyOf(<<Null>>)
<1>1. -SignBit \in IntRange /\ -SignBit + SignBit = 0
  BY SignBitValue DEF IntRange
<1>2. IntBytesOf(-SignBit) = [i \in 1..IntBytes |-> ByteAt(0, i)]
  BY <1>1, IntBytesAreBytes
<1>3. \A i \in 1..IntBytes : ByteAt(0, i) = 0
  BY KeyAssumption, SMT DEF ByteAt, Weight
<1>4. IntBytesOf(-SignBit) \in Seq(Byte) /\ Len(IntBytesOf(-SignBit)) = IntBytes
  BY <1>1, IntBytesAreBytes
<1>5. ValueBytes(IntVal(-SignBit)) = IntBytesOf(-SignBit)
  BY DEF ValueBytes, IntVal, Value
<1>6. KeyOf(<<IntVal(-SignBit)>>) = MinKey
  BY <1>2, <1>3, <1>4, <1>5, OneValueOfZeros
<1>7. QED
  BY <1>6, NullKeyIsMin
=============================================================================
