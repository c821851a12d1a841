--------------------------------- MODULE Ssz ---------------------------------
(* What this code uses of the ethereum_ssz crate: little-endian integers and  *)
(* lists, of items of one length and of items that need offsets. A decoder    *)
(* gives the set of the values it accepts the bytes as: one value, or none.   *)
EXTENDS Integers, SequencesExt

CONSTANT Radix   \* the number of values of a byte

ASSUME RadixAssumption == Radix \in 2..256

Byte == 0..Radix - 1

(* What a byte counts for after so many others.                               *)
Weight[i \in 0..8] == IF i = 0 THEN 1 ELSE Radix * Weight[i - 1]

LittleEndian(n, width) == [i \in 1..width |-> (n \div Weight[i - 1]) % Radix]

(* A larger number loses its upper digits, as a cast to u32 does.             *)
U32(n) == LittleEndian(n, 4)

U64(n) == LittleEndian(n, 8)

(* The integer of a width that starts after the first at bytes: the number of *)
(* its uppermost bytes, one more at a time.                                   *)
IntegerAt(bytes, at, width) ==
  LET upper[i \in 0..width] ==
        IF i = 0 THEN 0 ELSE bytes[at + width + 1 - i] + Radix * upper[i - 1]
  IN  upper[width]

U32At(bytes, at) == IntegerAt(bytes, at, 4)

U64At(bytes, at) == IntegerAt(bytes, at, 8)

(* bytes[from..to]                                                            *)
Slice(bytes, from, to) == SubSeq(bytes, from + 1, to)

IsSlice(bytes, from, to) == from <= to /\ to <= Len(bytes)

-------------------------------------------------------------------------------
(* All items decoded, or the list refused.                                    *)
AllDecoded(items) ==
  IF \E i \in DOMAIN items : items[i] = {} THEN {}
  ELSE {[i \in DOMAIN items |-> CHOOSE v \in items[i] : TRUE]}

DecodeInteger(bytes, width) == IF Len(bytes) = width THEN {IntegerAt(bytes, 0, width)} ELSE {}

DecodeArray(bytes, length) == IF Len(bytes) = length THEN {bytes} ELSE {}

(* The bytes of the items of a list whose items all have one length; the last *)
(* may be short.                                                              *)
FixedItems(bytes, length) ==
  LET chunks == (Len(bytes) + length - 1) \div length
      End(i) == IF i * length <= Len(bytes) THEN i * length ELSE Len(bytes)
  IN  [i \in 1..chunks |-> Slice(bytes, (i - 1) * length, End(i))]

EncodeVariableList(items) ==
  LET begin[i \in 1..Len(items)] ==
        IF i = 1 THEN 4 * Len(items) ELSE begin[i - 1] + Len(items[i - 1])
  IN  FlattenSeq([i \in 1..Len(items) |-> U32(begin[i])]) \o FlattenSeq(items)

(* The bytes of the items of a list with offsets, or none: the first offset   *)
(* gives the number of items; no offset points before its predecessor, or     *)
(* past the end.                                                              *)
VariableItems(bytes) ==
  LET first  == U32At(bytes, 0)
      n      == first \div 4
      offset == [i \in 1..n + 1 |-> IF i <= n THEN U32At(bytes, 4 * (i - 1)) ELSE Len(bytes)]
  IN  IF bytes = << >> THEN {<< >>}
      ELSE IF Len(bytes) < 4 THEN {}
      ELSE IF first < 4 \/ first % 4 # 0 \/ first > Len(bytes) THEN {}
      ELSE IF \E i \in 1..n : offset[i] > offset[i + 1] THEN {}
      ELSE {[i \in 1..n |-> Slice(bytes, offset[i], offset[i + 1])]}
===============================================================================
