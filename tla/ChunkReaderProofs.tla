--------------------------- MODULE ChunkReaderProofs ---------------------------
(* The extraction of chunks from the output stream of the message hash, for   *)
(* every alphabet, every number of chunks and every stream.                   *)
EXTENDS ChunkReader, FiniteSetTheorems, TLAPS

-------------------------------------------------------------------------------
(* Powers of two, quotients and bits.                                         *)

(* Powers by a name of their own, which the solvers take as it is.            *)
Pow(n) == 2^n

LEMMA PowersOfTwo ==
  /\ \A n \in 0..16 : Pow(n) \in Nat \ {0}
  /\ \A n \in 0..15 : Pow(n + 1) = 2 * Pow(n)
  /\ Pow(0) = 1 /\ Pow(8) = 256 /\ Pow(16) = 65536
<1>1. /\ Pow(0) = 1 /\ Pow(1) = 2 /\ Pow(2) = 4 /\ Pow(3) = 8 /\ Pow(4) = 16
      /\ Pow(5) = 32 /\ Pow(6) = 64 /\ Pow(7) = 128 /\ Pow(8) = 256
  BY DEF Pow
<1>2. /\ Pow(9) = 512 /\ Pow(10) = 1024 /\ Pow(11) = 2048 /\ Pow(12) = 4096
      /\ Pow(13) = 8192 /\ Pow(14) = 16384 /\ Pow(15) = 32768 /\ Pow(16) = 65536
  BY DEF Pow
<1>3. ASSUME NEW n \in 0..15
      PROVE  Pow(n) \in Nat \ {0} /\ Pow(n + 1) = 2 * Pow(n)
  <2>1. \/ n = 0 \/ n = 1 \/ n = 2 \/ n = 3 \/ n = 4 \/ n = 5 \/ n = 6 \/ n = 7
        \/ n = 8 \/ n = 9 \/ n = 10 \/ n = 11 \/ n = 12 \/ n = 13 \/ n = 14 \/ n = 15
    OBVIOUS
  <2> QED BY <1>1, <1>2, <2>1
<1>4. ASSUME NEW n \in 0..16 PROVE n \in 0..15 \/ n = 16 OBVIOUS
<1> QED BY <1>1, <1>2, <1>3, <1>4

LEMMA PowNat == ASSUME NEW n \in 0..16 PROVE Pow(n) \in Nat \ {0}
BY PowersOfTwo

LEMMA PowersAdd == \A a, b \in 0..8 : Pow(a + b) = Pow(a) * Pow(b)
<1> SUFFICES ASSUME NEW a \in 0..8, NEW b \in 0..8 PROVE Pow(a + b) = Pow(a) * Pow(b)
  OBVIOUS
<1> DEFINE x == Pow(a)
<1>1. x \in Nat BY PowersOfTwo
<1> HIDE DEF x
<1>2. ASSUME NEW n \in 0..7, Pow(a + n) = Pow(n) * x
      PROVE  Pow(a + (n + 1)) = Pow(n + 1) * x
  <2>1. a + n \in 0..15 /\ n \in 0..15 /\ (a + n) + 1 = a + (n + 1) OBVIOUS
  <2>2. Pow(a + (n + 1)) = 2 * Pow(a + n) /\ Pow(n + 1) = 2 * Pow(n)
    BY <2>1, PowersOfTwo
  <2>3. Pow(n) \in Nat BY PowersOfTwo
  <2>4. 2 * (Pow(n) * x) = (2 * Pow(n)) * x BY <1>1, <2>3
  <2> QED BY <1>2, <2>2, <2>4
<1>3. Pow(a + 0) = Pow(0) * x
  <2>1. a + 0 = a OBVIOUS
  <2> QED BY <1>1, <2>1, PowersOfTwo DEF x
<1>4. Pow(a + 1) = Pow(1) * x BY <1>2, <1>3
<1>5. Pow(a + 2) = Pow(2) * x BY <1>2, <1>4
<1>6. Pow(a + 3) = Pow(3) * x BY <1>2, <1>5
<1>7. Pow(a + 4) = Pow(4) * x BY <1>2, <1>6
<1>8. Pow(a + 5) = Pow(5) * x BY <1>2, <1>7
<1>9. Pow(a + 6) = Pow(6) * x BY <1>2, <1>8
<1>10. Pow(a + 7) = Pow(7) * x BY <1>2, <1>9
<1>11. Pow(a + 8) = Pow(8) * x BY <1>2, <1>10
<1>12. \/ b = 0 \/ b = 1 \/ b = 2 \/ b = 3 \/ b = 4
       \/ b = 5 \/ b = 6 \/ b = 7 \/ b = 8
  OBVIOUS
<1>13. Pow(a + b) = Pow(b) * x
  BY <1>3, <1>4, <1>5, <1>6, <1>7, <1>8, <1>9, <1>10, <1>11, <1>12
<1>14. Pow(b) \in Nat BY PowersOfTwo
<1>15. Pow(b) * x = x * Pow(b) BY <1>1, <1>14
<1> QED BY <1>13, <1>15 DEF x

(* The quotient is the one number that fits.                                  *)
LEMMA QuotientFits ==
  ASSUME NEW x \in Int, NEW q \in Nat \ {0}
  PROVE  /\ x \div q \in Int /\ x % q \in 0..q - 1
         /\ x = (x \div q) * q + (x % q)
         /\ \A b \in Int, r \in 0..q - 1 : x = b * q + r => x \div q = b /\ x % q = r
<1>1. /\ x \div q \in Int /\ x % q \in 0..q - 1
      /\ x = (x \div q) * q + (x % q)
  OBVIOUS
<1>2. ASSUME NEW b \in Int, NEW r \in 0..q - 1, x = b * q + r
      PROVE  x \div q = b /\ x % q = r
  <2> DEFINE a == x \div q
             s == x % q
  <2>1. a \in Int /\ s \in 0..q - 1 /\ x = a * q + s BY <1>1
  <2> HIDE DEF a, s
  <2>2. r \in Int /\ s \in Int /\ 0 <= r /\ 0 <= s /\ r < q /\ s < q BY <2>1
  <2>3. a * q \in Int /\ b * q \in Int BY <2>1
  <2>4. a < b + 1
    <3> SUFFICES ASSUME b + 1 <= a PROVE FALSE BY <2>1
    <3>1. (b + 1) * q <= a * q BY <2>1
    <3>2. (b + 1) * q = b * q + q OBVIOUS
    <3> QED BY <3>1, <3>2, <2>1, <2>2, <2>3, <1>2
  <2>5. b < a + 1
    <3> SUFFICES ASSUME a + 1 <= b PROVE FALSE BY <2>1
    <3>1. (a + 1) * q <= b * q BY <2>1
    <3>2. (a + 1) * q = a * q + q BY <2>1
    <3> QED BY <3>1, <3>2, <2>1, <2>2, <2>3, <1>2
  <2>6. a = b BY <2>1, <2>4, <2>5
  <2>7. r = s BY <1>2, <2>1, <2>2, <2>3, <2>6
  <2> QED BY <2>6, <2>7 DEF a, s
<1> QED BY <1>1, <1>2

LEMMA QuotientParts ==
  ASSUME NEW x \in Int, NEW q \in Nat \ {0}
  PROVE  x \div q \in Int /\ x % q \in 0..q - 1 /\ x = (x \div q) * q + (x % q)
BY QuotientFits

LEMMA QuotientIs ==
  ASSUME NEW q \in Nat \ {0}, NEW b \in Int, NEW r \in 0..q - 1, NEW x \in Int,
         x = b * q + r
  PROVE  x \div q = b /\ x % q = r
BY QuotientFits

(* A multiple of the divisor counts on its own.                               *)
LEMMA QuotientOfSum ==
  ASSUME NEW b \in Nat, NEW r \in Nat, NEW q \in Nat \ {0}
  PROVE  (b * q + r) \div q = b + r \div q
<1> DEFINE d == r \div q
           m == r % q
<1>1. d \in Int /\ m \in 0..q - 1 /\ r = d * q + m BY QuotientFits
<1> HIDE DEF d, m
<1>2. (b + d) * q = b * q + d * q BY <1>1
<1>3. m \in Int /\ d * q \in Int /\ b * q \in Nat /\ b + d \in Int BY <1>1
<1>4. b * q + r = (b + d) * q + m BY <1>1, <1>2, <1>3
<1>5. b * q + r \in Int BY <1>3
<1>6. (b * q + r) \div q = b + d BY <1>1, <1>3, <1>4, <1>5, QuotientFits
<1> QED BY <1>6 DEF d

(* One division after another is a division by the product.                   *)
LEMMA QuotientOfQuotient ==
  ASSUME NEW x \in Nat, NEW p \in Nat \ {0}, NEW q \in Nat \ {0}
  PROVE  (x \div p) \div q = x \div (p * q)
<1> DEFINE a == x \div p
           r == x % p
           d == a \div q
           m == a % q
<1>1. a \in Int /\ r \in 0..p - 1 /\ x = a * p + r BY QuotientFits
<1> HIDE DEF a, r
<1>2. d \in Int /\ m \in 0..q - 1 /\ a = d * q + m BY <1>1, QuotientFits
<1> HIDE DEF d, m
<1> DEFINE s == m * p + r
<1>3. s \in 0..p * q - 1
  <2>1. m \in Nat /\ m <= q - 1 /\ r \in Nat /\ r <= p - 1 /\ q - 1 \in Nat
    BY <1>1, <1>2
  <2>2. m * p \in Nat /\ m * p <= (q - 1) * p BY <2>1
  <2>3. (q - 1) * p = p * q - p /\ p * q \in Nat OBVIOUS
  <2> QED BY <2>1, <2>2, <2>3
<1>4. x = d * (p * q) + s
  <2>1. m \in Int /\ r \in Int BY <1>1, <1>2
  <2>2. (d * q + m) * p = d * (p * q) + m * p BY <1>2, <2>1
  <2>3. d * (p * q) \in Int /\ m * p \in Int BY <1>2, <2>1
  <2> QED BY <1>1, <1>2, <2>1, <2>2, <2>3
<1>5. p * q \in Nat \ {0} OBVIOUS
<1> HIDE DEF s
<1>6. x \div (p * q) = d BY <1>2, <1>3, <1>4, <1>5, QuotientFits
<1> QED BY <1>6 DEF d, a

LEMMA ModEven ==
  ASSUME NEW y \in Int, NEW d \in Int
  PROVE  (2 * y + d) % 2 = d % 2
OBVIOUS

LEMMA BitOf == \A x, n : Bit(x, n) = (x \div Pow(n)) % 2
BY DEF Bit, Pow

(* What is added above a bit does not change it.                              *)
LEMMA BitBelow ==
  ASSUME NEW k \in 0..8, NEW j \in 0..k - 1, NEW b \in Nat, NEW r \in Nat
  PROVE  Bit(b * Pow(k) + r, j) = Bit(r, j)
<1> DEFINE p == Pow(j)
           m == Pow(k - j - 1)
           w == Pow(k)
<1>1. p \in Nat \ {0} /\ m \in Nat /\ w = p * (2 * m)
  <2>1. j \in 0..8 /\ k - j \in 0..8 /\ k - j - 1 \in 0..15
        /\ k - j - 1 + 1 = k - j /\ j + (k - j) = k
    OBVIOUS
  <2>2. w = p * Pow(k - j) BY <2>1, PowersAdd
  <2>3. Pow(k - j) = 2 * m BY <2>1, PowersOfTwo
  <2>4. p \in Nat \ {0} /\ m \in Nat BY <2>1, PowersOfTwo
  <2> QED BY <2>2, <2>3, <2>4
<1> HIDE DEF p, m, w
<1> DEFINE c == 2 * (b * m)
           d == r \div p
<1>2. b * m \in Nat /\ c \in Nat BY <1>1
<1>3. b * w = c * p BY <1>1
<1>4. d \in Int BY <1>1, QuotientFits
<1>5. d % 2 = (c + d) % 2
  <2> HIDE DEF d
  <2> QED BY <1>2, <1>4, ModEven
<1> HIDE DEF c
<1>6. (c * p + r) \div p = c + d BY <1>1, <1>2, QuotientOfSum
<1>7. (b * w + r) \div p = c + d BY <1>3, <1>6
<1> QED BY <1>5, <1>7, BitOf DEF p, w, d

(* A shift to the right moves every bit.                                      *)
LEMMA BitShifted ==
  ASSUME NEW k \in 0..8, NEW j \in 0..8, NEW x \in Nat
  PROVE  Bit(x \div Pow(k), j) = Bit(x, k + j)
<1>1. Pow(k) \in Nat \ {0} /\ Pow(j) \in Nat \ {0} BY PowersOfTwo
<1>2. Pow(k + j) = Pow(k) * Pow(j) BY PowersAdd
<1>3. (x \div Pow(k)) \div Pow(j) = x \div (Pow(k) * Pow(j))
  BY <1>1, QuotientOfQuotient
<1> QED BY <1>2, <1>3, BitOf

(* What is added above the bits in use keeps its own bits there.              *)
LEMMA BitAbove ==
  ASSUME NEW k \in 0..8, NEW j \in 0..8, NEW b \in Nat, NEW r \in 0..Pow(k) - 1
  PROVE  Bit(b * Pow(k) + r, k + j) = Bit(b, j)
<1> DEFINE w == Pow(k)
<1>1. w \in Nat \ {0} BY PowersOfTwo
<1>2. r \in 0..w - 1 OBVIOUS
<1> HIDE DEF w
<1>3. b * w \in Nat /\ r \in Nat /\ b * w + r \in Nat BY <1>1, <1>2
<1>4. (b * w + r) \div w = b
  <2> DEFINE x == b * w + r
  <2>1. x \in Int /\ b \in Int /\ x = b * w + r BY <1>3
  <2> HIDE DEF x
  <2>2. x \div w = b BY <1>1, <1>2, <2>1, QuotientFits
  <2> QED BY <2>2 DEF x
<1>5. Bit((b * w + r) \div w, j) = Bit(b * w + r, k + j)
  BY <1>3, BitShifted DEF w
<1> QED BY <1>4, <1>5 DEF w

-------------------------------------------------------------------------------
(* The reservoir and the chunks.                                              *)

(* The number of bits of a chunk.                                             *)
LEMMA BitsOfChunk ==
  ASSUME BASE \in Bases, IsPowerOfTwo
  PROVE  bits_per_chunk \in 1..8 /\ BASE = Pow(bits_per_chunk)
<1>1. PICK k \in 0..8 : BASE = Pow(k) BY DEF IsPowerOfTwo, Pow
<1>2. bits_per_chunk \in 0..8 /\ BASE = Pow(bits_per_chunk)
  BY <1>1 DEF bits_per_chunk, Pow
<1>3. bits_per_chunk # 0
  <2>1. BASE \in 2..256 BY BasesAssumption
  <2> SUFFICES ASSUME bits_per_chunk = 0 PROVE FALSE OBVIOUS
  <2>2. BASE = Pow(0) BY <1>2
  <2> QED BY <2>1, <2>2, PowersOfTwo
<1> QED BY <1>2, <1>3


(* A bit of the bytes read.                                                   *)
BitIn(bytes, n) == Bit(bytes[1 + (n \div 8)], n % 8)

(* The bits of the reservoir are those of the bytes read from a place to the  *)
(* end.                                                                       *)
Follows(p, bytes, res, bits) ==
  /\ res \in 0..Pow(bits) - 1
  /\ p + bits = 8 * Len(bytes)
  /\ \A j \in 0..bits - 1 : Bit(res, j) = BitIn(bytes, p + j)

(* Every chunk is the group of bits at its place.                             *)
Groups(k, chunk, bytes) ==
  \A i \in 1..Len(chunk), j \in 0..k - 1 :
    Bit(chunk[i], j) = BitIn(bytes, (i - 1) * k + j)

LEMMA Appended ==
  ASSUME NEW S, NEW s \in Seq(S), NEW x \in S
  PROVE  /\ Append(s, x) \in Seq(S) /\ Len(s) \in Nat /\ Len(Append(s, x)) = Len(s) + 1
         /\ \A i \in 1..Len(s) : Append(s, x)[i] = s[i]
         /\ Append(s, x)[Len(s) + 1] = x
OBVIOUS

(* The bits read stay, and those of the next byte follow them.                *)
LEMMA BitsOfNextByte ==
  ASSUME NEW bytes \in Seq(0..255), NEW byte \in 0..255
  PROVE  /\ \A n \in 0..8 * Len(bytes) - 1 :
              BitIn(Append(bytes, byte), n) = BitIn(bytes, n)
         /\ \A i \in 0..7 : BitIn(Append(bytes, byte), 8 * Len(bytes) + i) = Bit(byte, i)
<1> DEFINE L == Len(bytes)
           next == Append(bytes, byte)
<1>1. L \in Nat /\ (\A i \in 1..L : next[i] = bytes[i]) /\ next[L + 1] = byte
  BY Appended
<1> HIDE DEF L, next
<1>2. ASSUME NEW n \in 0..8 * L - 1
      PROVE  BitIn(next, n) = BitIn(bytes, n)
  <2>1. 1 + (n \div 8) \in 1..L BY <1>1
  <2> QED BY <1>1, <2>1 DEF BitIn
<1>3. ASSUME NEW i \in 0..7
      PROVE  BitIn(next, 8 * L + i) = Bit(byte, i)
  <2>1. (8 * L + i) \div 8 = L /\ (8 * L + i) % 8 = i BY <1>1
  <2>2. 1 + ((8 * L + i) \div 8) = L + 1 BY <1>1, <2>1
  <2> QED BY <1>1, <2>1, <2>2 DEF BitIn
<1> QED BY <1>2, <1>3 DEF L, next

LEMMA SmallRemainder ==
  ASSUME NEW q \in Nat \ {0}, NEW x \in 0..q - 1
  PROVE  x % q = x
<1>1. x \in Int /\ 0 \in Int /\ x = 0 * q + x OBVIOUS
<1> QED BY <1>1, QuotientFits

LEMMA ByteWeight ==
  ASSUME NEW bits \in 0..7
  PROVE  /\ Pow(bits) \in Nat \ {0}
         /\ Pow(bits + 8) = Pow(bits) * 256
         /\ Pow(bits + 8) < Pow(16) /\ Pow(16) \in Nat \ {0}
<1>1. bits \in 0..8 /\ bits \in 0..16 /\ 8 \in 0..8 /\ 16 \in 0..16 OBVIOUS
<1>2. Pow(bits) \in Nat \ {0} /\ Pow(16) \in Nat \ {0} BY <1>1, PowersOfTwo
<1>3. Pow(bits + 8) = Pow(bits) * Pow(8) BY <1>1, PowersAdd
<1>4. Pow(8) = 256 BY PowersOfTwo
<1>5. \A n \in 8..15 : Pow(n) < Pow(n + 1) /\ Pow(n) \in Nat /\ Pow(n + 1) \in Nat
  <2> SUFFICES ASSUME NEW n \in 8..15
               PROVE  Pow(n) < Pow(n + 1) /\ Pow(n) \in Nat /\ Pow(n + 1) \in Nat
    OBVIOUS
  <2>1. n \in 0..15 /\ n \in 0..16 OBVIOUS
  <2>2. Pow(n) \in Nat \ {0} /\ Pow(n + 1) = 2 * Pow(n) BY <2>1, PowersOfTwo
  <2> QED BY <2>2
<1>6. /\ Pow(8) < Pow(9) /\ Pow(9) < Pow(10) /\ Pow(10) < Pow(11) /\ Pow(11) < Pow(12)
      /\ Pow(12) < Pow(13) /\ Pow(13) < Pow(14) /\ Pow(14) < Pow(15) /\ Pow(15) < Pow(16)
      /\ Pow(8) \in Nat /\ Pow(9) \in Nat /\ Pow(10) \in Nat /\ Pow(11) \in Nat
      /\ Pow(12) \in Nat /\ Pow(13) \in Nat /\ Pow(14) \in Nat /\ Pow(15) \in Nat
  BY <1>5
<1>7. /\ Pow(8) < Pow(16) /\ Pow(9) < Pow(16) /\ Pow(10) < Pow(16)
      /\ Pow(11) < Pow(16) /\ Pow(12) < Pow(16) /\ Pow(13) < Pow(16)
      /\ Pow(14) < Pow(16) /\ Pow(15) < Pow(16)
  BY <1>2, <1>6
<1>8. \/ bits + 8 = 8 \/ bits + 8 = 9 \/ bits + 8 = 10 \/ bits + 8 = 11
      \/ bits + 8 = 12 \/ bits + 8 = 13 \/ bits + 8 = 14 \/ bits + 8 = 15
  OBVIOUS
<1>9. Pow(bits + 8) < Pow(16) BY <1>7, <1>8
<1> QED BY <1>2, <1>3, <1>4, <1>9

LEMMA ByteAbove ==
  ASSUME NEW w \in Nat \ {0}, NEW b \in 0..255, NEW r \in 0..w - 1
  PROVE  b * w \in Nat /\ b * w + r \in 0..w * 256 - 1
<1>1. b * w \in Nat OBVIOUS
<1>2. (255 - b) * w \in Nat
  <2>1. 255 - b \in Nat OBVIOUS
  <2> QED BY <2>1
<1>3. (255 - b) * w = 255 * w - b * w OBVIOUS
<1>4. 255 * w \in Nat /\ w * 256 = 255 * w + w OBVIOUS
<1> DEFINE x == b * w
           y == 255 * w
           z == w * 256
<1>5. x \in Nat /\ y \in Nat /\ y - x \in Nat /\ z = y + w BY <1>1, <1>2, <1>3, <1>4
<1> HIDE DEF x, y, z
<1>6. x + r \in 0..z - 1 BY <1>5
<1> QED BY <1>1, <1>6 DEF x, z

(* A byte put above at most seven bits loses none of its own in 16, and mixes *)
(* none with those there.                                                     *)
LEMMA ByteReserved ==
  ASSUME NEW bits \in 0..7, NEW bytes \in Seq(0..255), NEW byte \in 0..255,
         NEW p \in Nat, NEW res, Follows(p, bytes, res, bits)
  PROVE  Follows(p, Append(bytes, byte), (res + byte * 2^bits) % 2^16, bits + 8)
<1> DEFINE w == Pow(bits)
           sum == byte * w + res
           L == Len(bytes)
<1>1. w \in Nat \ {0} /\ Pow(bits + 8) = w * 256 /\ w * 256 < Pow(16)
      /\ Pow(16) \in Nat \ {0}
  BY ByteWeight
<1>2. /\ res \in 0..w - 1 /\ p + bits = 8 * L
      /\ \A j \in 0..bits - 1 : Bit(res, j) = BitIn(bytes, p + j)
  BY DEF Follows
<1>3. L \in Nat BY Appended
<1>4. byte * 2^bits = byte * w /\ 2^16 = Pow(16) BY DEF Pow
<1> HIDE DEF w, L
<1>5. byte * w \in Nat /\ sum \in 0..w * 256 - 1 BY <1>1, <1>2, ByteAbove
<1>6. (res + byte * 2^bits) % 2^16 = sum
  <2>1. res + byte * w = sum BY <1>2, <1>5
  <2> HIDE DEF sum
  <2>2. sum \in 0..Pow(16) - 1
    <3> DEFINE y == w * 256
               z == Pow(16)
    <3>1. y \in Int /\ z \in Int /\ y < z /\ sum \in 0..y - 1 BY <1>1, <1>5
    <3> HIDE DEF y, z
    <3> QED BY <3>1 DEF z
  <2>3. sum % Pow(16) = sum BY <1>1, <2>2, SmallRemainder
  <2> QED BY <1>4, <2>1, <2>3
<1>7. ASSUME NEW j \in 0..bits + 8 - 1
      PROVE  Bit(sum, j) = BitIn(Append(bytes, byte), p + j)
  <2>1. CASE j < bits
    <3>1. j \in 0..bits - 1 /\ p + j \in 0..8 * L - 1 BY <1>2, <1>3, <2>1
    <3>2. Bit(sum, j) = Bit(res, j)
      <4>1. bits \in 0..8 /\ byte \in Nat /\ res \in Nat BY <1>1, <1>2
      <4> QED BY <3>1, <4>1, BitBelow DEF w
    <3>3. BitIn(Append(bytes, byte), p + j) = BitIn(bytes, p + j)
      BY <3>1, BitsOfNextByte DEF L
    <3> QED BY <1>2, <3>1, <3>2, <3>3
  <2>2. CASE j >= bits
    <3> DEFINE i == j - bits
    <3>1. i \in 0..7 /\ bits + i = j /\ 8 * L + i = p + j BY <1>2, <1>3, <2>2
    <3>2. Bit(sum, bits + i) = Bit(byte, i)
      <4>1. bits \in 0..8 /\ byte \in Nat /\ i \in 0..8 BY <3>1
      <4> QED BY <1>2, <4>1, BitAbove DEF w
    <3>3. BitIn(Append(bytes, byte), 8 * L + i) = Bit(byte, i)
      BY <3>1, BitsOfNextByte DEF L
    <3> QED BY <3>1, <3>2, <3>3
  <2> QED BY <2>1, <2>2
<1>8. Len(Append(bytes, byte)) = L + 1 BY Appended DEF L
<1>9. p + (bits + 8) = 8 * (L + 1) BY <1>2, <1>3
<1> HIDE DEF sum
<1>10. sum \in 0..Pow(bits + 8) - 1 BY <1>1, <1>5
<1> DEFINE next == Append(bytes, byte)
           n    == bits + 8
<1>11. /\ sum \in 0..Pow(n) - 1
       /\ p + n = 8 * Len(next)
       /\ \A j \in 0..n - 1 : Bit(sum, j) = BitIn(next, p + j)
  BY <1>7, <1>8, <1>9, <1>10
<1> HIDE DEF next, n
<1>12. Follows(p, next, sum, n) BY <1>11 DEF Follows
<1> QED BY <1>6, <1>12 DEF next, n

LEMMA LenProperty == ASSUME NEW S, NEW s \in Seq(S) PROVE Len(s) \in Nat
OBVIOUS

LEMMA QuotientNat ==
  ASSUME NEW x \in Nat, NEW q \in Nat \ {0}
  PROVE  x \div q \in Nat
<1> DEFINE a == x \div q
           r == x % q
<1>1. a \in Int /\ r \in 0..q - 1 /\ x = a * q + r BY QuotientFits
<1> HIDE DEF a, r
<1>2. a * q \in Int /\ r \in Int /\ r < q BY <1>1
<1>3. 0 <= a
  <2> SUFFICES ASSUME a <= -1 PROVE FALSE BY <1>1
  <2>1. (-1 - a) * q \in Nat
    <3>1. -1 - a \in Nat BY <1>1
    <3> QED BY <3>1
  <2>2. (-1 - a) * q = -q - a * q BY <1>1
  <2> QED BY <1>1, <1>2, <2>1, <2>2
<1> QED BY <1>1, <1>3 DEF a

(* The bits of the first n groups.                                            *)
LEMMA PlaceBelow ==
  ASSUME NEW n \in Nat, NEW k \in Nat \ {0}, NEW l \in Nat, n * k <= l,
         NEW i \in 1..n, NEW j \in 0..k - 1
  PROVE  (i - 1) * k + j \in 0..l - 1
<1>1. i - 1 \in Nat /\ n - i \in Nat OBVIOUS
<1>2. (i - 1) * k \in Nat /\ (n - i) * k \in Nat BY <1>1
<1>3. (n - i) * k = n * k - (i - 1) * k - k OBVIOUS
<1> QED BY <1>2, <1>3

(* Shifting a group of bits out of the reservoir leaves those that follow it. *)
LEMMA BitsShiftedOut ==
  ASSUME NEW k \in 1..8, NEW bits \in k..k + 7, NEW bytes \in Seq(0..255),
         NEW p \in Nat, NEW res, Follows(p, bytes, res, bits)
  PROVE  Follows(p + k, bytes, res \div Pow(k), bits - k)
<1> DEFINE m == bits - k
           w == Pow(k)
           v == Pow(m)
           L == Len(bytes)
           q == res \div w
<1>1. m \in 0..7 /\ m \in 0..8 /\ k \in 0..8 /\ k \in 0..16 /\ m \in 0..16 /\ m + k = bits
  OBVIOUS
<1>2. w \in Nat \ {0} /\ v \in Nat \ {0} /\ Pow(bits) = v * w
  <2>1. w \in Nat \ {0} BY <1>1, PowNat
  <2>2. v \in Nat \ {0} BY <1>1, PowNat
  <2>3. Pow(m + k) = v * w BY <1>1, PowersAdd
  <2> QED BY <1>1, <2>1, <2>2, <2>3
<1>3. /\ res \in 0..v * w - 1 /\ p + bits = 8 * L
      /\ \A j \in 0..bits - 1 : Bit(res, j) = BitIn(bytes, p + j)
  BY <1>2 DEF Follows
<1>4. L \in Nat BY LenProperty
<1> HIDE DEF w, v, L
<1>5. v * w \in Nat /\ res \in Nat BY <1>2, <1>3
<1>6. q \in 0..v - 1
  <2> DEFINE r == res % w
  <2>1. q \in Int /\ r \in 0..w - 1 /\ res = q * w + r
    <3>1. res \in Int BY <1>5
    <3> QED BY <1>2, <3>1, QuotientParts
  <2> HIDE DEF q, r
  <2>2. q * w \in Int /\ r \in Int /\ 0 <= r /\ r < w BY <1>2, <2>1
  <2>3. q < v
    <3> SUFFICES ASSUME v <= q PROVE FALSE BY <1>2, <2>1
    <3>1. q - v \in Nat BY <1>2, <2>1
    <3>2. (q - v) * w \in Nat BY <1>2, <3>1
    <3>3. (q - v) * w = q * w - v * w BY <1>2, <2>1
    <3> QED BY <1>3, <1>5, <2>1, <2>2, <3>2, <3>3
  <2>4. 0 <= q
    <3> SUFFICES ASSUME q <= -1 PROVE FALSE BY <2>1
    <3>1. -1 - q \in Nat BY <2>1
    <3>2. (-1 - q) * w \in Nat BY <1>2, <3>1
    <3>3. (-1 - q) * w = -w - q * w BY <1>2, <2>1
    <3> QED BY <1>2, <1>5, <2>1, <2>2, <3>2, <3>3
  <2> QED BY <1>2, <2>1, <2>3, <2>4
<1>7. ASSUME NEW j \in 0..m - 1 PROVE Bit(q, j) = BitIn(bytes, (p + k) + j)
  <2>1. j \in 0..8 /\ k + j \in 0..bits - 1 /\ p + (k + j) = (p + k) + j
    BY <1>1
  <2>2. Bit(q, j) = Bit(res, k + j) BY <1>1, <1>5, <2>1, BitShifted DEF w
  <2> QED BY <1>3, <2>1, <2>2
<1>8. (p + k) + m = 8 * L BY <1>1, <1>3, <1>4
<1> HIDE DEF q, m
<1>9. Follows(p + k, bytes, q, m) BY <1>6, <1>7, <1>8 DEF Follows, v, L
<1> QED BY <1>9 DEF q, m, w

(* The next byte leaves the groups as they are.                               *)
LEMMA GroupsStay ==
  ASSUME NEW k \in 1..8, NEW chunk, Len(chunk) \in Nat, NEW bytes \in Seq(0..255),
         NEW byte \in 0..255, Groups(k, chunk, bytes), Len(chunk) * k <= 8 * Len(bytes)
  PROVE  Groups(k, chunk, Append(bytes, byte))
<1> DEFINE n == Len(chunk)
           L == Len(bytes)
           next == Append(bytes, byte)
<1>1. n \in Nat /\ L \in Nat /\ n * k <= 8 * L BY LenProperty
<1>2. ASSUME NEW i \in 1..n, NEW j \in 0..k - 1
      PROVE  Bit(chunk[i], j) = BitIn(next, (i - 1) * k + j)
  <2>1. (i - 1) * k + j \in 0..8 * L - 1 BY <1>1, PlaceBelow
  <2>2. BitIn(next, (i - 1) * k + j) = BitIn(bytes, (i - 1) * k + j)
    BY <2>1, BitsOfNextByte
  <2> QED BY <2>2 DEF Groups
<1> QED BY <1>2 DEF Groups

(* The lowest bits of the reservoir are the next group.                       *)
LEMMA GroupPushed ==
  ASSUME NEW k \in 1..8, NEW bits \in k..k + 7, NEW bytes \in Seq(0..255),
         NEW S, NEW chunk \in Seq(S), NEW res, Groups(k, chunk, bytes),
         Follows(Len(chunk) * k, bytes, res, bits), res % Pow(k) \in S
  PROVE  Groups(k, Append(chunk, res % Pow(k)), bytes)
<1> DEFINE n == Len(chunk)
           w == Pow(k)
           next == Append(chunk, res % w)
<1>1. /\ n \in Nat /\ Len(next) = n + 1 /\ (\A i \in 1..n : next[i] = chunk[i])
      /\ next[n + 1] = res % w
  BY Appended
<1>2. w \in Nat \ {0} /\ Pow(bits) \in Nat
  <2>1. k \in 0..16 /\ bits \in 0..16 OBVIOUS
  <2>2. w \in Nat \ {0} BY <2>1, PowNat
  <2>3. Pow(bits) \in Nat \ {0} BY <2>1, PowNat
  <2> QED BY <2>2, <2>3
<1>3. res \in Nat /\ \A j \in 0..bits - 1 : Bit(res, j) = BitIn(bytes, n * k + j)
  BY <1>2 DEF Follows
<1> HIDE DEF next, n, w
<1>4. ASSUME NEW j \in 0..k - 1 PROVE Bit(res % w, j) = Bit(res, j)
  <2> DEFINE b == res \div w
             r == res % w
  <2>1. b \in Int /\ r \in 0..w - 1 /\ res = b * w + r
    <3>1. res \in Int BY <1>3
    <3> QED BY <1>2, <3>1, QuotientParts
  <2>2. b \in Nat BY <1>2, <1>3, <2>1, QuotientNat
  <2> HIDE DEF b, r
  <2>3. r \in Nat /\ k \in 0..8 BY <1>2, <2>1
  <2>4. Bit(b * w + r, j) = Bit(r, j) BY <2>2, <2>3, BitBelow DEF w
  <2> QED BY <2>1, <2>4 DEF r
<1>5. ASSUME NEW i \in 1..n + 1, NEW j \in 0..k - 1
      PROVE  Bit(next[i], j) = BitIn(bytes, (i - 1) * k + j)
  <2>1. CASE i \in 1..n
    <3>1. Bit(chunk[i], j) = BitIn(bytes, (i - 1) * k + j) BY <2>1 DEF Groups, n
    <3> QED BY <1>1, <2>1, <3>1
  <2>2. CASE i = n + 1
    <3>1. i - 1 = n /\ j \in 0..bits - 1 BY <1>1, <2>2
    <3> QED BY <1>1, <1>3, <1>4, <2>2, <3>1
  <2> QED BY <1>1, <2>1, <2>2
<1> QED BY <1>1, <1>5 DEF Groups, next, w

-------------------------------------------------------------------------------
(* The steps of the reader.                                                   *)

(* The number of chunks shifted out of the reservoir.                         *)
TakenOf(chunk) == IF Len(chunk) = DIMENSION THEN DIMENSION - 1 ELSE Len(chunk)

(* The invariant of a power-of-two alphabet, of the values of the variables.  *)
PowerInv(k, chunk, bytes, res, bits) ==
  /\ bits \in 0..k + 7
  /\ Len(chunk) = DIMENSION => bits >= k
  /\ Follows(TakenOf(chunk) * k, bytes, res, bits)
  /\ Groups(k, chunk, bytes)

LEMMA PowerInvOfState ==
  IsPowerOfTwo =>
    (ReservoirIsStream /\ ChunksAreBitGroups <=>
       PowerInv(bits_per_chunk, chunks, read, reservoir, available_bits))
<1> SUFFICES ASSUME IsPowerOfTwo
             PROVE  ReservoirIsStream /\ ChunksAreBitGroups <=>
                      PowerInv(bits_per_chunk, chunks, read, reservoir, available_bits)
  OBVIOUS
<1>1. \A n : StreamBit(n) = BitIn(read, n) BY DEF StreamBit, BitIn
<1>2. Taken = TakenOf(chunks) BY DEF Taken, TakenOf, Complete
<1>3. ChunksAreBitGroups <=> Groups(bits_per_chunk, chunks, read)
  BY <1>1 DEF ChunksAreBitGroups, Groups
<1>4. ReservoirIsStream <=>
        /\ available_bits \in 0..bits_per_chunk + 7
        /\ Len(chunks) = DIMENSION => available_bits >= bits_per_chunk
        /\ Follows(TakenOf(chunks) * bits_per_chunk, read, reservoir, available_bits)
  BY <1>1, <1>2 DEF ReservoirIsStream, Follows, Complete, Pow
<1> QED BY <1>3, <1>4 DEF PowerInv

LEMMA SameAlphabet ==
  BASE' = BASE => /\ IsPowerOfTwo' <=> IsPowerOfTwo
                  /\ bits_per_chunk' = bits_per_chunk
BY DEF IsPowerOfTwo, bits_per_chunk

(* Nothing read, nothing held.                                                *)
LEMMA PowerInvInit ==
  ASSUME NEW k \in 1..8
  PROVE  PowerInv(k, << >>, << >>, 0, 0)
<1>1. Len(<< >>) = 0 /\ DIMENSION # 0 BY DimensionAssumption
<1>2. TakenOf(<< >>) = 0 BY <1>1 DEF TakenOf
<1>3. 0 * k = 0 /\ 0 \in 0..Pow(0) - 1 BY PowersOfTwo
<1>4. Follows(0, << >>, 0, 0) BY <1>1, <1>3 DEF Follows
<1>5. Groups(k, << >>, << >>) BY <1>1 DEF Groups
<1> QED BY <1>1, <1>2, <1>3, <1>4, <1>5 DEF PowerInv

LEMMA PowerInvByte ==
  ASSUME NEW k \in 1..8, NEW S, NEW chunk \in Seq(S), NEW bytes \in Seq(0..255),
         NEW byte \in 0..255, NEW res, NEW bits, PowerInv(k, chunk, bytes, res, bits),
         Len(chunk) # DIMENSION, bits < k
  PROVE  PowerInv(k, chunk, Append(bytes, byte), (res + byte * 2^bits) % 2^16, bits + 8)
<1> DEFINE n == Len(chunk)
           L == Len(bytes)
           p == n * k
<1>1. n \in Nat /\ L \in Nat BY LenProperty
<1>2. TakenOf(chunk) = n BY DEF TakenOf
<1>3. bits \in 0..7 /\ bits + 8 \in 0..k + 7 BY DEF PowerInv
<1>4. Follows(p, bytes, res, bits) /\ Groups(k, chunk, bytes) BY <1>2 DEF PowerInv
<1>5. p \in Nat BY <1>1
<1>6. p <= 8 * L
  <2>1. p + bits = 8 * L BY <1>4 DEF Follows
  <2> HIDE DEF p, L
  <2> QED BY <1>1, <1>3, <1>5, <2>1
<1>7. Groups(k, chunk, Append(bytes, byte)) BY <1>1, <1>4, <1>6, GroupsStay
<1> HIDE DEF p
<1>8. Follows(p, Append(bytes, byte), (res + byte * 2^bits) % 2^16, bits + 8)
  BY <1>3, <1>4, <1>5, ByteReserved
<1> QED BY <1>2, <1>3, <1>7, <1>8 DEF PowerInv, p

LEMMA PowerInvPush ==
  ASSUME NEW k \in 1..8, NEW S, NEW chunk \in Seq(S), NEW bytes \in Seq(0..255),
         NEW res, NEW bits, PowerInv(k, chunk, bytes, res, bits),
         Len(chunk) < DIMENSION, bits >= k, res % Pow(k) \in S
  PROVE  LET next == Append(chunk, res % Pow(k))
         IN  IF Len(next) = DIMENSION THEN PowerInv(k, next, bytes, res, bits)
             ELSE PowerInv(k, next, bytes, res \div Pow(k), bits - k)
<1> DEFINE next == Append(chunk, res % Pow(k))
           n == Len(chunk)
           p == n * k
<1>1. n \in Nat /\ Len(next) = n + 1 BY Appended
<1>2. TakenOf(chunk) = n BY <1>1, DimensionAssumption DEF TakenOf
<1>3. bits \in k..k + 7 BY DEF PowerInv
<1>4. Follows(p, bytes, res, bits) /\ Groups(k, chunk, bytes) BY <1>2 DEF PowerInv
<1>5. p \in Nat BY <1>1
<1>6. Groups(k, next, bytes) BY <1>3, <1>4, GroupPushed
<1> HIDE DEF next, n
<1>7. CASE Len(next) = DIMENSION
  <2>1. TakenOf(next) = n BY <1>1, <1>7 DEF TakenOf
  <2>2. PowerInv(k, next, bytes, res, bits) BY <1>3, <1>4, <1>6, <2>1 DEF PowerInv
  <2> QED BY <1>7, <2>2 DEF next
<1>8. CASE Len(next) # DIMENSION
  <2>1. TakenOf(next) * k = p + k BY <1>1, <1>8 DEF TakenOf
  <2> HIDE DEF p
  <2>2. Follows(p + k, bytes, res \div Pow(k), bits - k)
    BY <1>3, <1>4, <1>5, BitsShiftedOut
  <2>3. bits - k \in 0..k + 7 BY <1>3
  <2>4. PowerInv(k, next, bytes, res \div Pow(k), bits - k)
    BY <1>6, <1>8, <2>1, <2>2, <2>3 DEF PowerInv
  <2> QED BY <1>8, <2>4 DEF next
<1> QED BY <1>7, <1>8

LEMMA InitReaderInv == Init => ReaderInv
<1> SUFFICES ASSUME Init PROVE ReaderInv OBVIOUS
<1>1. /\ BASE \in Bases /\ chunks = << >> /\ unread = 0 /\ reservoir = 0
      /\ available_bits = 0 /\ read = << >>
  BY DEF Init
<1>2. /\ chunks \in Seq(0..BASE - 1) /\ read \in Seq(StreamBytes) /\ Len(chunks) = 0
      /\ Len(chunks) <= DIMENSION /\ unread \in 0..BlockLen
  BY <1>1, DimensionAssumption, BlockLenAssumption
<1>3. ASSUME IsPowerOfTwo PROVE ReservoirIsStream /\ ChunksAreBitGroups
  <2>1. bits_per_chunk \in 1..8 BY <1>1, <1>3, BitsOfChunk
  <2>2. PowerInv(bits_per_chunk, chunks, read, reservoir, available_bits)
    BY <1>1, <2>1, PowerInvInit
  <2> QED BY <1>3, <2>2, PowerInvOfState
<1> QED BY <1>1, <1>2, <1>3 DEF ReaderInv

LEMMA SeqOfLarger ==
  ASSUME NEW S, NEW T, S \subseteq T, NEW s \in Seq(S)
  PROVE  s \in Seq(T)
<1>1. Len(s) \in Nat /\ s \in [1..Len(s) -> S] OBVIOUS
<1>2. s \in [1..Len(s) -> T] BY <1>1
<1> QED BY <1>1, <1>2

(* What the invariant says of an alphabet that is a power of two.             *)
LEMMA PowerFacts ==
  ReaderInv /\ IsPowerOfTwo =>
    /\ bits_per_chunk \in 1..8 /\ BASE = Pow(bits_per_chunk) /\ BASE \in 2..256
    /\ chunks \in Seq(0..BASE - 1) /\ read \in Seq(0..255)
    /\ PowerInv(bits_per_chunk, chunks, read, reservoir, available_bits)
<1> SUFFICES ASSUME ReaderInv, IsPowerOfTwo
             PROVE  /\ bits_per_chunk \in 1..8 /\ BASE = Pow(bits_per_chunk) /\ BASE \in 2..256
                    /\ chunks \in Seq(0..BASE - 1) /\ read \in Seq(0..255)
                    /\ PowerInv(bits_per_chunk, chunks, read, reservoir, available_bits)
  OBVIOUS
<1>1. BASE \in Bases /\ ReservoirIsStream /\ ChunksAreBitGroups /\ chunks \in Seq(0..BASE - 1)
      /\ read \in Seq(StreamBytes)
  BY DEF ReaderInv
<1>2. bits_per_chunk \in 1..8 /\ BASE = Pow(bits_per_chunk) BY <1>1, BitsOfChunk
<1>3. BASE \in 2..256 BY <1>1, BasesAssumption
<1>4. read \in Seq(0..255) BY <1>1, StreamAssumption, SeqOfLarger
<1>5. PowerInv(bits_per_chunk, chunks, read, reservoir, available_bits)
  BY <1>1, PowerInvOfState
<1> QED BY <1>1, <1>2, <1>3, <1>4, <1>5

LEMMA PowerInvNext ==
  IsPowerOfTwo' /\ PowerInv(bits_per_chunk', chunks', read', reservoir', available_bits')
    => ReservoirIsStream' /\ ChunksAreBitGroups'
<1> SUFFICES ASSUME IsPowerOfTwo',
                    PowerInv(bits_per_chunk', chunks', read', reservoir', available_bits')
             PROVE  ReservoirIsStream' /\ ChunksAreBitGroups'
  OBVIOUS
<1>1. \A n : StreamBit(n)' = BitIn(read', n) BY DEF StreamBit, BitIn
<1>2. Taken' = TakenOf(chunks') BY DEF Taken, TakenOf, Complete
<1>3. /\ available_bits' \in 0..bits_per_chunk' + 7
      /\ Len(chunks') = DIMENSION => available_bits' >= bits_per_chunk'
      /\ Follows(TakenOf(chunks') * bits_per_chunk', read', reservoir', available_bits')
      /\ Groups(bits_per_chunk', chunks', read')
  BY DEF PowerInv
<1>4. ChunksAreBitGroups' BY <1>1, <1>3 DEF ChunksAreBitGroups, Groups, StreamBit, BitIn
<1>5. ReservoirIsStream'
  BY <1>1, <1>2, <1>3 DEF ReservoirIsStream, Follows, Complete, Pow, StreamBit, BitIn
<1> QED BY <1>4, <1>5

LEMMA ReserveKeeps ==
  ASSUME ReaderInv, NEW byte \in StreamBytes, ReserveByte(byte)
  PROVE  ReaderInv'
<1> DEFINE k == bits_per_chunk
<1>1. /\ IsPowerOfTwo /\ ~Complete /\ Drained /\ unread > 0
      /\ unread' = unread - 1 /\ read' = Append(read, byte) /\ BASE' = BASE
      /\ reservoir' = (reservoir + byte * 2^available_bits) % 2^16
      /\ available_bits' = available_bits + 8 /\ chunks' = chunks
  BY DEF ReserveByte, NextByte
<1>2. /\ k \in 1..8 /\ BASE = Pow(k) /\ chunks \in Seq(0..BASE - 1) /\ read \in Seq(0..255)
      /\ PowerInv(k, chunks, read, reservoir, available_bits)
  BY <1>1, PowerFacts
<1>3. IsPowerOfTwo' /\ bits_per_chunk' = k BY <1>1, SameAlphabet
<1>4. available_bits < k /\ Len(chunks) # DIMENSION BY <1>1 DEF Drained, Complete
<1>5. byte \in 0..255 BY StreamAssumption, SMTT(30)
<1>6. PowerInv(k, chunks', read', reservoir', available_bits')
  <2> HIDE DEF k
  <2> QED BY <1>1, <1>2, <1>4, <1>5, PowerInvByte
<1>7. ReservoirIsStream' /\ ChunksAreBitGroups' BY <1>3, <1>6, PowerInvNext
<1>8. /\ BASE' \in Bases /\ chunks' \in Seq(0..BASE' - 1) /\ Len(chunks') <= DIMENSION
      /\ unread' \in 0..BlockLen /\ read' \in Seq(StreamBytes)
  BY <1>1, BlockLenAssumption DEF ReaderInv
<1> QED BY <1>3, <1>7, <1>8 DEF ReaderInv

LEMMA PushKeeps ==
  ASSUME ReaderInv, PushBits
  PROVE  ReaderInv'
<1> DEFINE k == bits_per_chunk
           chunk == reservoir % BASE
<1>1. /\ IsPowerOfTwo /\ ~Complete /\ ~Drained
      /\ chunks' = Append(chunks, chunk) /\ BASE' = BASE
      /\ IF Len(chunks') = DIMENSION
         THEN reservoir' = reservoir /\ available_bits' = available_bits
         ELSE reservoir' = reservoir \div BASE /\ available_bits' = available_bits - k
      /\ unread' = unread /\ read' = read
  BY DEF PushBits
<1>2. /\ k \in 1..8 /\ BASE = Pow(k) /\ BASE \in 2..256
      /\ chunks \in Seq(0..BASE - 1) /\ read \in Seq(0..255)
      /\ PowerInv(k, chunks, read, reservoir, available_bits)
  BY <1>1, PowerFacts
<1>3. IsPowerOfTwo' /\ bits_per_chunk' = k BY <1>1, SameAlphabet
<1>4. /\ Len(chunks) < DIMENSION /\ Len(chunks) \in Nat /\ Len(chunks) + 1 <= DIMENSION
      /\ available_bits >= k /\ reservoir \in Int
  <2>1. Len(chunks) \in Nat BY <1>2, LenProperty
  <2>2. Len(chunks) <= DIMENSION /\ Len(chunks) # DIMENSION BY <1>1 DEF ReaderInv, Complete
  <2>3. available_bits \in Int /\ reservoir \in Int
    BY <1>1 DEF ReaderInv, ReservoirIsStream
  <2>4. available_bits >= k BY <1>1, <1>2, <2>3 DEF Drained
  <2> QED BY <2>1, <2>2, <2>3, <2>4, DimensionAssumption
<1>5. chunk \in 0..BASE - 1
  <2>1. k \in 0..16 BY <1>2
  <2>2. BASE \in Nat \ {0} BY <1>2, <2>1, PowNat
  <2> QED BY <1>4, <2>2, QuotientParts
<1>6. PowerInv(k, chunks', read', reservoir', available_bits')
  <2> DEFINE S == 0..BASE - 1
  <2>1. chunks \in Seq(S) /\ reservoir % Pow(k) \in S BY <1>2, <1>5
  <2> HIDE DEF k, S
  <2>2. LET next == Append(chunks, reservoir % Pow(k))
        IN  IF Len(next) = DIMENSION
            THEN PowerInv(k, next, read, reservoir, available_bits)
            ELSE PowerInv(k, next, read, reservoir \div Pow(k), available_bits - k)
    BY <1>2, <1>4, <2>1, PowerInvPush
  <2> QED BY <1>1, <1>2, <2>2
<1>7. ReservoirIsStream' /\ ChunksAreBitGroups' BY <1>3, <1>6, PowerInvNext
<1>8. chunks' \in Seq(0..BASE' - 1) /\ Len(chunks') <= DIMENSION
  <2> HIDE DEF chunk
  <2>1. Append(chunks, chunk) \in Seq(0..BASE - 1) /\ Len(Append(chunks, chunk)) = Len(chunks) + 1
    BY <1>2, <1>5, Appended
  <2> QED BY <1>1, <1>4, <2>1
<1>9. BASE' \in Bases /\ unread' \in 0..BlockLen /\ read' \in Seq(StreamBytes)
  BY <1>1 DEF ReaderInv
<1> QED BY <1>3, <1>7, <1>8, <1>9 DEF ReaderInv

LEMMA SampleKeeps ==
  ASSUME ReaderInv, NEW byte \in StreamBytes, SampleByte(byte)
  PROVE  ReaderInv'
<1>1. /\ ~IsPowerOfTwo /\ ~Complete /\ unread > 0
      /\ unread' = unread - 1 /\ read' = Append(read, byte) /\ BASE' = BASE
      /\ chunks' = IF Accepted(byte) THEN Append(chunks, byte % BASE) ELSE chunks
      /\ reservoir' = reservoir /\ available_bits' = available_bits
  BY DEF SampleByte, NextByte
<1>2. ~IsPowerOfTwo' BY <1>1, SameAlphabet
<1>3. byte % BASE \in 0..BASE - 1
  <2>1. BASE \in 2..256 /\ byte \in 0..255
    BY BasesAssumption, StreamAssumption DEF ReaderInv
  <2>2. BASE \in Nat \ {0} /\ byte \in Int BY <2>1
  <2> QED BY <2>2, QuotientParts
<1>4. chunks \in Seq(0..BASE - 1) /\ Len(chunks) \in Nat /\ Len(chunks) + 1 <= DIMENSION
  <2>1. chunks \in Seq(0..BASE - 1) /\ Len(chunks) <= DIMENSION /\ Len(chunks) # DIMENSION
    BY <1>1 DEF ReaderInv, Complete
  <2>2. Len(chunks) \in Nat BY <2>1, LenProperty
  <2> QED BY <2>1, <2>2, DimensionAssumption
<1>5. chunks' \in Seq(0..BASE' - 1) /\ Len(chunks') <= DIMENSION
  <2> DEFINE c == byte % BASE
  <2> HIDE DEF c
  <2>1. Append(chunks, c) \in Seq(0..BASE - 1) /\ Len(Append(chunks, c)) = Len(chunks) + 1
    BY <1>3, <1>4, Appended DEF c
  <2>2. chunks' = Append(chunks, c) \/ chunks' = chunks BY <1>1 DEF c
  <2>3. Len(chunks) <= DIMENSION BY DEF ReaderInv
  <2> QED BY <1>1, <1>4, <2>1, <2>2, <2>3
<1>6. /\ BASE' \in Bases /\ unread' \in 0..BlockLen /\ read' \in Seq(StreamBytes)
      /\ reservoir' = 0 /\ available_bits' = 0
  BY <1>1, BlockLenAssumption DEF ReaderInv
<1> QED BY <1>2, <1>5, <1>6 DEF ReaderInv

(* A step that leaves chunks, reservoir and stream alone.                     *)
LEMMA OthersKeep ==
  ASSUME ReaderInv, unread' \in 0..BlockLen,
         UNCHANGED <<BASE, chunks, reservoir, available_bits, read>>
  PROVE  ReaderInv'
<1>1. BASE' = BASE /\ chunks' = chunks /\ reservoir' = reservoir
      /\ available_bits' = available_bits /\ read' = read
  OBVIOUS
<1>2. (IsPowerOfTwo' <=> IsPowerOfTwo) /\ bits_per_chunk' = bits_per_chunk
  BY <1>1, SameAlphabet
<1>3. ASSUME IsPowerOfTwo' PROVE ReservoirIsStream' /\ ChunksAreBitGroups'
  <2>1. PowerInv(bits_per_chunk, chunks, read, reservoir, available_bits)
    BY <1>2, <1>3, PowerFacts
  <2>2. PowerInv(bits_per_chunk', chunks', read', reservoir', available_bits')
    BY <1>1, <1>2, <2>1
  <2> QED BY <1>3, <2>2, PowerInvNext
<1> QED BY <1>1, <1>2, <1>3 DEF ReaderInv

LEMMA NextReaderInv == ReaderInv /\ [Next]_vars => ReaderInv'
<1> SUFFICES ASSUME ReaderInv, [Next]_vars PROVE ReaderInv' OBVIOUS
<1>1. CASE FillBlock
  <2>1. unread' \in 0..BlockLen BY <1>1, BlockLenAssumption DEF FillBlock
  <2> QED BY <1>1, <2>1, OthersKeep DEF FillBlock
<1>2. CASE PushBits BY <1>2, PushKeeps
<1>3. ASSUME NEW byte \in StreamBytes, ReserveByte(byte) PROVE ReaderInv'
  BY <1>3, ReserveKeeps
<1>4. ASSUME NEW byte \in StreamBytes, SampleByte(byte) PROVE ReaderInv'
  BY <1>4, SampleKeeps
<1>5. CASE UNCHANGED vars
  <2>1. unread' \in 0..BlockLen BY <1>5 DEF ReaderInv, vars
  <2> QED BY <1>5, <2>1, OthersKeep DEF vars
<1> QED BY <1>1, <1>2, <1>3, <1>4, <1>5 DEF Next

(* The inductive invariant: at every step the reservoir holds exactly the     *)
(* bits of the stream between the chunks taken and the last byte read.        *)
THEOREM ReaderInvariant == Spec => []ReaderInv
BY InitReaderInv, NextReaderInv, PTL DEF Spec

-------------------------------------------------------------------------------
(* The properties.                                                            *)

(* The reservoir of 16 bits never drops a bit of a byte and never holds one   *)
(* that it does not count, for every alphabet (apply: reservoir |= byte <<    *)
(* available_bits).                                                           *)
THEOREM ReservoirNeverOverflows == Spec => []ReservoirFits
<1>1. ReaderInv => ReservoirFits
  <2> SUFFICES ASSUME ReaderInv PROVE ReservoirFits OBVIOUS
  <2>1. CASE IsPowerOfTwo
    <3>1. /\ bits_per_chunk \in 1..8
          /\ PowerInv(bits_per_chunk, chunks, read, reservoir, available_bits)
      BY <2>1, PowerFacts
    <3>2. available_bits \in 0..bits_per_chunk + 7 /\ reservoir \in 0..Pow(available_bits) - 1
      BY <3>1 DEF PowerInv, Follows
    <3>3. available_bits \in 0..16 BY <3>1, <3>2
    <3>4. Pow(available_bits) \in Nat \ {0} BY <3>3, PowNat
    <3>5. reservoir < Pow(available_bits) BY <3>2, <3>4
    <3>6. Drained => available_bits + 8 <= 16 BY <2>1, <3>1, <3>2 DEF Drained
    <3> QED BY <3>5, <3>6 DEF ReservoirFits, Pow
  <2>2. CASE ~IsPowerOfTwo
    <3>1. reservoir = 0 /\ available_bits = 0 BY <2>2 DEF ReaderInv
    <3>2. 0 < 2^0 OBVIOUS
    <3> QED BY <3>1, <3>2 DEF ReservoirFits
  <2> QED BY <2>1, <2>2
<1> QED BY <1>1, ReaderInvariant, PTL

(* The chunks of a power-of-two alphabet are disjoint, consecutive groups of  *)
(* the bits of the stream (message_hash/blake3.rs: "Disjoint groups of        *)
(* uniform bits are independent uniform chunks").                             *)
THEOREM ChunksAreGroups == Spec => []ChunksAreBitGroups
<1>1. ReaderInv => ChunksAreBitGroups BY DEF ReaderInv, ChunksAreBitGroups
<1> QED BY <1>1, ReaderInvariant, PTL

(* A complete answer has taken no byte of the stream that holds none of its   *)
(* bits (apply leaves the loop with the last chunk).                          *)
THEOREM ReadsNoByteMore == Spec => []ReadsNoMore
<1>1. ReaderInv => ReadsNoMore
  <2> SUFFICES ASSUME ReaderInv, IsPowerOfTwo, Complete
               PROVE  Len(read) = (DIMENSION * bits_per_chunk + 7) \div 8
    BY DEF ReadsNoMore
  <2> DEFINE k == bits_per_chunk
             L == Len(read)
             p == (DIMENSION - 1) * k
             q == DIMENSION * k
  <2>1. /\ k \in 1..8 /\ read \in Seq(0..255)
        /\ PowerInv(k, chunks, read, reservoir, available_bits)
    BY PowerFacts
  <2>2. L \in Nat BY <2>1, LenProperty
  <2>3. available_bits \in k..k + 7 /\ p + available_bits = 8 * L
    BY <2>1 DEF PowerInv, Follows, TakenOf, Complete
  <2>4. p \in Nat /\ q = p + k BY <2>1, DimensionAssumption
  <2> HIDE DEF p, q, k, L
  <2>5. q \in Nat /\ q <= 8 * L /\ 8 * L <= q + 7 BY <2>1, <2>2, <2>3, <2>4
  <2>6. (q + 7) \div 8 = L BY <2>2, <2>5
  <2> QED BY <2>6 DEF q, k, L
<1> QED BY <1>1, ReaderInvariant, PTL

(* Of the bytes a rejecting alphabet accepts, as many give one chunk as       *)
(* another (apply: acceptance_limit).                                         *)
THEOREM RejectionUniform == Spec => []RejectionIsUniform
<1>1. ReaderInv => RejectionIsUniform
  <2> SUFFICES ASSUME BASE \in 2..256, NEW c \in 0..BASE - 1
               PROVE  Cardinality({byte \in 0..255 : Accepted(byte) /\ byte % BASE = c})
                        = 256 \div BASE
    BY BasesAssumption DEF ReaderInv, RejectionIsUniform
  <2> DEFINE q == 256 \div BASE
             m == 256 % BASE
             T == {byte \in 0..255 : Accepted(byte) /\ byte % BASE = c}
             S == 0..q - 1
             f == [i \in S |-> i * BASE + c]
  <2>1. BASE \in Nat \ {0} /\ 256 \in Int /\ 256 \in Nat /\ c \in Nat /\ c < BASE OBVIOUS
  <2>2. q \in Nat /\ m \in 0..BASE - 1 /\ 256 = q * BASE + m
    BY <2>1, QuotientParts, QuotientNat
  <2>3. acceptance_limit = q * BASE
    <3> HIDE DEF q
    <3>1. q * BASE \in Nat /\ m \in Int BY <2>1, <2>2
    <3>2. acceptance_limit = 256 - m BY DEF acceptance_limit
    <3> HIDE DEF m
    <3> QED BY <2>2, <3>1, <3>2
  <2> HIDE DEF q, m
  <2>4. ASSUME NEW i \in S PROVE i * BASE + c \in T /\ (i * BASE + c) \div BASE = i
    <3> DEFINE b == i * BASE + c
    <3>1. i \in Nat /\ q - 1 - i \in Nat BY <2>2
    <3>2. i * BASE \in Nat /\ (q - 1 - i) * BASE \in Nat /\ q * BASE \in Nat BY <2>1, <2>2, <3>1
    <3>3. (q - 1 - i) * BASE = q * BASE - BASE - i * BASE BY <2>1, <2>2, <3>1
    <3>4. b \in Nat /\ b < q * BASE BY <2>1, <3>2, <3>3
    <3>5. b <= 255 BY <2>1, <2>2, <3>2, <3>4
    <3>6. b \in Int /\ i \in Int /\ c \in 0..BASE - 1 /\ b = i * BASE + c BY <3>1, <3>4
    <3> HIDE DEF b
    <3>7. b \div BASE = i /\ b % BASE = c BY <2>1, <3>6, QuotientIs
    <3>8. b \in 0..255 BY <3>4, <3>5
    <3>9. Accepted(b) BY <2>3, <3>4 DEF Accepted
    <3> QED BY <3>7, <3>8, <3>9 DEF b
  <2>5. ASSUME NEW b \in T PROVE \E i \in S : i * BASE + c = b
    <3> DEFINE i == b \div BASE
    <3>1. b \in 0..255 /\ b % BASE = c /\ b < q * BASE BY <2>3 DEF Accepted
    <3>2. b \in Int /\ b \in Nat BY <3>1
    <3>3. i \in Int /\ b = i * BASE + c BY <2>1, <3>1, <3>2, QuotientParts
    <3>4. i \in Nat BY <2>1, <3>2, QuotientNat
    <3> HIDE DEF i
    <3>5. i < q
      <4> SUFFICES ASSUME q <= i PROVE FALSE BY <2>2, <3>4
      <4>1. i - q \in Nat BY <2>2, <3>4
      <4>2. (i - q) * BASE \in Nat BY <2>1, <4>1
      <4>3. (i - q) * BASE = i * BASE - q * BASE BY <2>1, <2>2, <3>4
      <4>4. i * BASE \in Nat /\ q * BASE \in Nat BY <2>1, <2>2, <3>4
      <4> QED BY <2>1, <3>1, <3>2, <3>3, <4>2, <4>3, <4>4
    <3>6. i \in S BY <2>2, <3>4, <3>5
    <3> QED BY <3>3, <3>6
  <2>6. f \in Bijection(S, T)
    <3> HIDE DEF T, S
    <3>1. f \in [S -> T] BY <2>4
    <3>2. ASSUME NEW a \in S, NEW b \in S, f[a] = f[b] PROVE a = b
      <4>1. f[a] = a * BASE + c /\ f[b] = b * BASE + c OBVIOUS
      <4>2. f[a] \div BASE = a /\ f[b] \div BASE = b BY <2>4, <4>1
      <4> QED BY <3>2, <4>2
    <3>3. \A b \in T : \E i \in S : f[i] = b BY <2>5
    <3> HIDE DEF f
    <3> QED BY <3>1, <3>2, <3>3, Zenon
         DEF Bijection, Injection, Surjection, IsInjective
  <2>7. IsFiniteSet(S) /\ Cardinality(S) = q
    <3>1. 0 \in Int /\ q - 1 \in Int BY <2>2
    <3>2. IsFiniteSet(0..q - 1)
          /\ Cardinality(0..q - 1) = IF 0 > q - 1 THEN 0 ELSE (q - 1) - 0 + 1
      BY <3>1, FS_Interval
    <3> QED BY <2>2, <3>2
  <2>8. Cardinality(T) = q
    <3> HIDE DEF S, T, f
    <3>1. ExistsBijection(S, T) BY <2>6 DEF ExistsBijection
    <3> QED BY <2>7, <3>1, FS_Bijection
  <2> QED BY <2>8 DEF q, T
<1> QED BY <1>1, ReaderInvariant, PTL
================================================================================
