------------------------------- MODULE IndexKey ------------------------------
(***************************************************************************)
(* Class IndexKey: how the values of the indexed columns become a string   *)
(* of bytes of fixed size, and how two such strings compare.  The indexes  *)
(* know rows only by it: what it orders or identifies differently from     *)
(* the values is found differently through an index and through a scan.    *)
(***************************************************************************)
EXTENDS Values

CONSTANTS
  IntBytes,  \* bytes of an int: 4 in the code
  KeySize    \* bytes of a key: 128 in the code

ASSUME KeyAssumption == IntBytes \in 1..4 /\ KeySize \in Nat \ {0}

Byte == 0..255

\* The weight of a byte of an int, the most significant first.
Weight(i) == <<16777216, 65536, 256, 1>>[4 - IntBytes + i]

\* The sign bit as a number, and the ints that have IntBytes bytes.
SignBit == 128 * Weight(1)
IntRange == (-SignBit)..(SignBit - 1)

\* static_cast<uint32_t>: the two's complement pattern of an int.
TwosComplement(n) == IF n < 0 THEN n + 2 * SignBit ELSE n

FlipSign(bits, sign) == IF bits >= sign THEN bits - sign ELSE bits + sign

\* Mutant of IntBytesOf: the sign bit is left alone.
PlainIntBytes(n) == [i \in 1..IntBytes |-> (TwosComplement(n) \div Weight(i)) % 256]

\* WriteValue(int): sign bit flipped, big-endian.
IntBytesOf(n) ==
  LET bits == FlipSign(TwosComplement(n), SignBit)
  IN  [i \in 1..IntBytes |-> (bits \div Weight(i)) % 256]

\* WriteValue(double), on the bit pattern of an IEEE double whose sign bit has
\* the weight sign: a negative one has all its bits flipped, another its sign.
DoubleBits(bits, sign) ==
  IF bits >= sign THEN 2 * sign - 1 - bits ELSE FlipSign(bits, sign)

\* What the constructor writes for one value.  NULL is one zero byte; strings
\* are neither terminated nor tagged.  Values of float columns are not
\* enumerated by the runs.
ValueBytes(v) ==
  CASE v.type \in {"int", "bool"} -> IntBytesOf(v.num)
    [] v.type = "str"             -> [i \in DOMAIN v.text |-> Code[v.text[i]]]
    [] v.type = "null"            -> <<0>>

\* The bytes written for a sequence of values, one after the other.
WrittenBytes(values) ==
  LET upTo[n \in 0..Len(values)] ==
        IF n = 0 THEN << >> ELSE upTo[n - 1] \o ValueBytes(values[n])
  IN  upTo[Len(values)]

\* The constructor throws when the bytes do not fit.
Overflows(values) == Len(WrittenBytes(values)) > KeySize

\* The rest of the key stays zero.
Padded(bytes) == [i \in 1..KeySize |-> IF i <= Len(bytes) THEN bytes[i] ELSE 0]

KeyOf(values) == Padded(WrittenBytes(values))

MinKey == [i \in 1..KeySize |-> 0]
MaxKey == [i \in 1..KeySize |-> 255]

\* CompareTo: the first byte that differs decides.
KeyLess(k, l) ==
  \E i \in DOMAIN k : k[i] < l[i] /\ \A j \in 1..(i - 1) : k[j] = l[j]

CompareTo(k, l) == IF KeyLess(k, l) THEN -1 ELSE IF k = l THEN 0 ELSE 1
=============================================================================
