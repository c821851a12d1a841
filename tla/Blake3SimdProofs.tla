--------------------------- MODULE Blake3SimdProofs ---------------------------
(* Four hashes at once are the four scalar hashes, for all keys, parameters,  *)
(* epochs, indices, values and numbers of steps.                              *)
EXTENDS Blake3Simd, SequenceTheorems, TLAPS

(* A vector: a word in every lane.                                            *)
Vectors == [Lanes -> U32]

LEMMA FourLanes ==
  /\ Lanes = {1, 2, 3, 4}
  /\ \A S, p : p \in [Lanes -> S] => p[1] \in S /\ p[2] \in S /\ p[3] \in S /\ p[4] \in S
  /\ \A S : \A w, x, y, z \in S :
       LET p == <<w, x, y, z>>
       IN  p \in [Lanes -> S] /\ p[1] = w /\ p[2] = x /\ p[3] = y /\ p[4] = z
  BY DEF Lanes

(* The bounds are kept from the solvers, which would list the numbers between.*)
IsHalf(n) == n \in Nat /\ n < Half16

LEMMA U16Numbers == \A n : n \in U16 <=> IsHalf(n)
<1> Half16 \in Nat BY DEF Half16
<1> QED BY DEF U16, IsHalf

LEMMA Halves ==
  ASSUME NEW w \in U32
  PROVE  w = <<w[1], w[2]>> /\ IsHalf(w[1]) /\ IsHalf(w[2])
<1>1. w = <<w[1], w[2]>> /\ w[1] \in U16 /\ w[2] \in U16 BY DEF U32
<1> QED BY <1>1, U16Numbers

LEMMA HalvesOf == ASSUME NEW a, IsHalf(a), NEW b, IsHalf(b) PROVE <<a, b>> \in U32
<1>1. a \in U16 /\ b \in U16 BY U16Numbers
<1> QED BY <1>1 DEF U32

LEMMA Remainder == ASSUME NEW x \in Nat PROVE IsHalf(x % Half16) /\ x \div Half16 \in Nat
  BY DEF IsHalf, Half16

LEMMA AddWord == ASSUME NEW a \in U32, NEW b \in U32 PROVE Add(a, b) \in U32
<1> DEFINE lo == a[1] + b[1]
           hi == a[2] + b[2] + lo \div Half16
<1>1. a[1] \in Nat /\ a[2] \in Nat /\ b[1] \in Nat /\ b[2] \in Nat BY Halves DEF IsHalf
<1>2. lo \in Nat BY <1>1
<1>3. IsHalf(lo % Half16) /\ lo \div Half16 \in Nat BY <1>2, Remainder
<1>4. hi \in Nat
  <2> HIDE DEF lo
  <2> QED BY <1>1, <1>3
<1>5. IsHalf(hi % Half16) BY <1>4, Remainder
<1>6. Add(a, b) = <<lo % Half16, hi % Half16>> BY DEF Add
<1> HIDE DEF lo, hi
<1> QED BY <1>3, <1>5, <1>6, HalvesOf

LEMMA BitOfSum ==
  ASSUME NEW a \in Nat, NEW b \in Nat, NEW d \in Nat \ {0}
  PROVE  ((a \div d) + (b \div d)) % 2 \in {0, 1}
<1> DEFINE x == a \div d
           y == b \div d
<1>1. x \in Nat /\ y \in Nat OBVIOUS
<1> HIDE DEF x, y
<1>2. (x + y) % 2 \in {0, 1} BY <1>1
<1> QED BY <1>2 DEF x, y

LEMMA XorHalfType ==
  ASSUME NEW a, IsHalf(a), NEW b, IsHalf(b)
  PROVE  IsHalf(XorHalf(a, b))
<1> DEFINE Differ(n) == ((a \div 2^n) + (b \div 2^n)) % 2
           ByteFrom(n) ==
             Differ(n) + 2 * Differ(n + 1) + 4 * Differ(n + 2) + 8 * Differ(n + 3)
               + 16 * Differ(n + 4) + 32 * Differ(n + 5) + 64 * Differ(n + 6)
               + 128 * Differ(n + 7)
<1>1. a \in Nat /\ b \in Nat BY DEF IsHalf
<1>2. ASSUME NEW n, 2^n \in Nat \ {0} PROVE Differ(n) \in {0, 1}
  <2> DEFINE d == 2^n
  <2>1. d \in Nat \ {0} BY <1>2
  <2> HIDE DEF d
  <2>2. ((a \div d) + (b \div d)) % 2 \in {0, 1} BY <1>1, <2>1, BitOfSum
  <2> QED BY <2>2 DEF d
<1>3. XorHalf(a, b) = ByteFrom(0) + 256 * ByteFrom(8) BY DEF XorHalf
<1> HIDE DEF Differ
<1>4. ASSUME NEW n \in Nat, \A i \in n..n + 7 : Differ(i) \in {0, 1}
      PROVE  ByteFrom(n) \in Nat /\ ByteFrom(n) < 256
  <2>1. /\ n \in n..n + 7 /\ n + 1 \in n..n + 7 /\ n + 2 \in n..n + 7 /\ n + 3 \in n..n + 7
        /\ n + 4 \in n..n + 7 /\ n + 5 \in n..n + 7 /\ n + 6 \in n..n + 7 /\ n + 7 \in n..n + 7
    OBVIOUS
  <2>2. /\ Differ(n) \in {0, 1} /\ Differ(n + 1) \in {0, 1} /\ Differ(n + 2) \in {0, 1}
        /\ Differ(n + 3) \in {0, 1} /\ Differ(n + 4) \in {0, 1} /\ Differ(n + 5) \in {0, 1}
        /\ Differ(n + 6) \in {0, 1} /\ Differ(n + 7) \in {0, 1}
    BY <1>4, <2>1
  <2> QED BY <2>2
<1>5. ASSUME NEW i \in 0..15 PROVE Differ(i) \in {0, 1}
  <2>1. /\ 2^0 \in Nat \ {0} /\ 2^1 \in Nat \ {0} /\ 2^2 \in Nat \ {0} /\ 2^3 \in Nat \ {0}
        /\ 2^4 \in Nat \ {0} /\ 2^5 \in Nat \ {0} /\ 2^6 \in Nat \ {0} /\ 2^7 \in Nat \ {0}
    OBVIOUS
  <2>2. /\ 2^8 \in Nat \ {0} /\ 2^9 \in Nat \ {0} /\ 2^10 \in Nat \ {0} /\ 2^11 \in Nat \ {0}
        /\ 2^12 \in Nat \ {0} /\ 2^13 \in Nat \ {0} /\ 2^14 \in Nat \ {0} /\ 2^15 \in Nat \ {0}
    OBVIOUS
  <2>3. i \in {0, 1, 2, 3, 4, 5, 6, 7} \/ i \in {8, 9, 10, 11, 12, 13, 14, 15} OBVIOUS
  <2>4. CASE i \in {0, 1, 2, 3, 4, 5, 6, 7} BY <1>2, <2>1, <2>4
  <2>5. CASE i \in {8, 9, 10, 11, 12, 13, 14, 15} BY <1>2, <2>2, <2>5
  <2> QED BY <2>3, <2>4, <2>5
<1>6. /\ ByteFrom(0) \in Nat /\ ByteFrom(0) < 256
      /\ ByteFrom(8) \in Nat /\ ByteFrom(8) < 256
  <2>1. \A i \in 0..0 + 7 : Differ(i) \in {0, 1} BY <1>5
  <2>2. \A i \in 8..8 + 7 : Differ(i) \in {0, 1} BY <1>5
  <2> HIDE DEF ByteFrom
  <2> QED BY <1>4, <2>1, <2>2
<1> HIDE DEF ByteFrom
<1> QED BY <1>3, <1>6 DEF IsHalf, Half16

LEMMA XorWord == ASSUME NEW a \in U32, NEW b \in U32 PROVE Xor2(a, b) \in U32
<1>1. IsHalf(a[1]) /\ IsHalf(a[2]) /\ IsHalf(b[1]) /\ IsHalf(b[2]) BY Halves
<1> QED BY <1>1, HalvesOf, XorHalfType DEF Xor2

-------------------------------------------------------------------------------
(* What is common to both codes has one meaning.                              *)
LEMMA SameHalf16 == ASSUME NEW lane PROVE Scalar(lane)!Half16 = Half16
  BY DEF Scalar!Half16, Half16

LEMMA SameAdd ==
  ASSUME NEW lane, NEW a, NEW b
  PROVE  Scalar(lane)!Add(a, b) = Add(a, b)
  BY SameHalf16 DEF Scalar!Add, Add

LEMMA SameXorHalf ==
  ASSUME NEW lane, NEW a, NEW b
  PROVE  Scalar(lane)!XorHalf(a, b) = XorHalf(a, b)
  BY DEF Scalar!XorHalf, XorHalf

LEMMA SameXor ==
  ASSUME NEW lane, NEW a, NEW b
  PROVE  Scalar(lane)!Xor2(a, b) = Xor2(a, b)
  BY SameXorHalf DEF Scalar!Xor2, Xor2

LEMMA SameRotate ==
  ASSUME NEW lane, NEW a, NEW n
  PROVE  Scalar(lane)!RotateRight(a, n) = RotateRight(a, n)
  BY SameHalf16 DEF Scalar!RotateRight, RotateRight

LEMMA SameFromBytes ==
  ASSUME NEW lane, NEW b, NEW i
  PROVE  Scalar(lane)!FromBytes(b, i) = FromBytes(b, i)
  BY DEF Scalar!FromBytes, FromBytes

LEMMA SameToBytes ==
  ASSUME NEW lane, NEW w
  PROVE  Scalar(lane)!ToBytes(w) = ToBytes(w)
  BY DEF Scalar!ToBytes, ToBytes

LEMMA SameBytesOf ==
  ASSUME NEW lane, NEW words
  PROVE  Scalar(lane)!BytesOf(words) = BytesOf(words)
  BY SameToBytes DEF Scalar!BytesOf, BytesOf

LEMMA SameIV == ASSUME NEW lane PROVE Scalar(lane)!IV = IV BY DEF Scalar!IV, IV

-------------------------------------------------------------------------------
(* The instructions, lane by lane.                                            *)
LEMMA AddLane ==
  ASSUME NEW p \in Vectors, NEW q \in Vectors
  PROVE  /\ vaddq_u32(p, q) \in Vectors
         /\ \A lane \in Lanes : vaddq_u32(p, q)[lane] = Add(p[lane], q[lane])
<1>1. \A lane \in Lanes : Add(p[lane], q[lane]) \in U32 BY AddWord DEF Vectors
<1>2. vaddq_u32(p, q) = [lane \in Lanes |-> Add(p[lane], q[lane])]
  BY DEF vaddq_u32, Lanes
<1> QED BY <1>1, <1>2 DEF Vectors

LEMMA XorLane ==
  ASSUME NEW p \in Vectors, NEW q \in Vectors
  PROVE  /\ veorq_u32(p, q) \in Vectors
         /\ \A lane \in Lanes : veorq_u32(p, q)[lane] = Xor2(p[lane], q[lane])
<1>1. \A lane \in Lanes : Xor2(p[lane], q[lane]) \in U32 BY XorWord DEF Vectors
<1>2. veorq_u32(p, q) = [lane \in Lanes |-> Xor2(p[lane], q[lane])]
  BY DEF veorq_u32, Lanes
<1> QED BY <1>1, <1>2 DEF Vectors

LEMMA Rotate16Lane ==
  ASSUME NEW p \in Vectors
  PROVE  /\ rotate_right_16(p) \in Vectors
         /\ \A lane \in Lanes : rotate_right_16(p)[lane] = RotateRight(p[lane], 16)
<1> DEFINE Rev(w) == <<w[2], w[1]>>
<1>1. ASSUME NEW w \in U32 PROVE Rev(w) \in U32 /\ RotateRight(w, 16) = Rev(w)
  <2>1. w[1] \in Nat /\ w[2] \in Nat /\ IsHalf(w[1]) /\ IsHalf(w[2]) BY Halves DEF IsHalf
  <2>2. 16 % 16 = 0 /\ 2^0 = 1 /\ Half16 \div 1 = Half16 BY DEF Half16
  <2>3. RotateRight(w, 16) =
          <<w[2] \div 1 + (w[1] % 1) * Half16, w[1] \div 1 + (w[2] % 1) * Half16>>
    BY <2>2 DEF RotateRight
  <2>4. ASSUME NEW x \in Nat, NEW y \in Nat PROVE x \div 1 + (y % 1) * Half16 = x
    BY <2>4 DEF Half16
  <2> QED BY <2>1, <2>3, <2>4, HalvesOf
<1> HIDE DEF Rev
<1>2. rotate_right_16(p) = [lane \in Lanes |-> Rev(p[lane])]
  BY DEF rotate_right_16, vrev32q_u16, Lanes, Rev
<1> QED BY <1>1, <1>2 DEF Vectors

(* What a shift to the left leaves of a half.                                 *)
LEMMA LowBits ==
  ASSUME NEW w \in Nat
  PROVE  /\ ((w * 16) % Half16) \div 16 = w % 4096
         /\ ((w * 512) % Half16) \div 512 = w % 128
<1>1. ((w * 16) % 65536) \div 16 = w % 4096 OBVIOUS
<1>2. ((w * 512) % 65536) \div 512 = w % 128 OBVIOUS
<1> QED BY <1>1, <1>2 DEF Half16

LEMMA Rotate12Lane ==
  ASSUME NEW p \in Vectors
  PROVE  /\ rotate_right_12(p) \in Vectors
         /\ \A lane \in Lanes : rotate_right_12(p)[lane] = RotateRight(p[lane], 12)
<1> DEFINE F(x, y) == x \div 4096 + (y % 4096) * 16
           R(w) == <<F(w[1], w[2]), F(w[2], w[1])>>
           Z(w) == <<0, (w[1] * 16) % Half16>>
           S(z, w) == <<F(w[1], w[2]), w[2] \div 4096 + (z[2] \div 16) * 16>>
<1>1. /\ 2^12 = 4096 /\ 12 % 16 = 12 /\ 2^(20 - 16) = 16 /\ Half16 \div 4096 = 16
  BY DEF Half16
<1>2. ASSUME NEW w \in U32 PROVE R(w) \in U32 /\ RotateRight(w, 12) = R(w) /\ S(Z(w), w) = R(w)
  <2>1. w[1] \in Nat /\ w[2] \in Nat /\ w[1] < 65536 /\ w[2] < 65536 BY Halves DEF IsHalf, Half16
  <2>2. ASSUME NEW x \in Nat, NEW y \in Nat, x < 65536
        PROVE  IsHalf(F(x, y))
    <3>1. x \div 4096 \in Nat /\ x \div 4096 < 16 BY <2>2
    <3>2. y % 4096 \in Nat /\ y % 4096 < 4096 OBVIOUS
    <3> DEFINE q == x \div 4096
               r == y % 4096
    <3> HIDE DEF q, r
    <3>3. q \in Nat /\ q < 16 /\ r \in Nat /\ r < 4096 BY <3>1, <3>2 DEF q, r
    <3>4. q + r * 16 \in Nat /\ q + r * 16 < 65536 BY <3>3
    <3> QED BY <3>4 DEF IsHalf, Half16, q, r
  <2>3. R(w) \in U32
    <3> HIDE DEF F
    <3>1. IsHalf(F(w[1], w[2])) /\ IsHalf(F(w[2], w[1])) BY <2>1, <2>2
    <3> QED BY <3>1, HalvesOf
  <2>4. RotateRight(w, 12) = R(w) BY <1>1 DEF RotateRight
  <2>5. Z(w)[2] \div 16 = w[1] % 4096 BY <2>1, LowBits
  <2> QED BY <2>3, <2>4, <2>5
<1>3. vshlq_n_u32(p, 20) = [lane \in Lanes |-> Z(p[lane])] BY <1>1 DEF vshlq_n_u32, Lanes
<1>4. rotate_right_12(p) = [lane \in Lanes |-> S(vshlq_n_u32(p, 20)[lane], p[lane])]
  BY <1>1 DEF rotate_right_12, vsriq_n_u32, Lanes
<1> HIDE DEF R, S, Z
<1> QED BY <1>2, <1>3, <1>4 DEF Vectors

LEMMA Rotate7Lane ==
  ASSUME NEW p \in Vectors
  PROVE  /\ rotate_right_7(p) \in Vectors
         /\ \A lane \in Lanes : rotate_right_7(p)[lane] = RotateRight(p[lane], 7)
<1> DEFINE F(x, y) == x \div 128 + (y % 128) * 512
           R(w) == <<F(w[1], w[2]), F(w[2], w[1])>>
           Z(w) == <<0, (w[1] * 512) % Half16>>
           S(z, w) == <<F(w[1], w[2]), w[2] \div 128 + (z[2] \div 512) * 512>>
<1>1. /\ 2^7 = 128 /\ 7 % 16 = 7 /\ 2^(25 - 16) = 512 /\ Half16 \div 128 = 512
  BY DEF Half16
<1>2. ASSUME NEW w \in U32 PROVE R(w) \in U32 /\ RotateRight(w, 7) = R(w) /\ S(Z(w), w) = R(w)
  <2>1. w[1] \in Nat /\ w[2] \in Nat /\ w[1] < 65536 /\ w[2] < 65536 BY Halves DEF IsHalf, Half16
  <2>2. ASSUME NEW x \in Nat, NEW y \in Nat, x < 65536
        PROVE  IsHalf(F(x, y))
    <3>1. x \div 128 \in Nat /\ x \div 128 < 512 BY <2>2
    <3>2. y % 128 \in Nat /\ y % 128 < 128 OBVIOUS
    <3> DEFINE q == x \div 128
               r == y % 128
    <3> HIDE DEF q, r
    <3>3. q \in Nat /\ q < 512 /\ r \in Nat /\ r < 128 BY <3>1, <3>2 DEF q, r
    <3>4. q + r * 512 \in Nat /\ q + r * 512 < 65536 BY <3>3
    <3> QED BY <3>4 DEF IsHalf, Half16, q, r
  <2>3. R(w) \in U32
    <3> HIDE DEF F
    <3>1. IsHalf(F(w[1], w[2])) /\ IsHalf(F(w[2], w[1])) BY <2>1, <2>2
    <3> QED BY <3>1, HalvesOf
  <2>4. RotateRight(w, 7) = R(w) BY <1>1 DEF RotateRight
  <2>5. Z(w)[2] \div 512 = w[1] % 128 BY <2>1, LowBits
  <2> QED BY <2>3, <2>4, <2>5
<1>3. vshlq_n_u32(p, 25) = [lane \in Lanes |-> Z(p[lane])] BY <1>1 DEF vshlq_n_u32, Lanes
<1>4. rotate_right_7(p) = [lane \in Lanes |-> S(vshlq_n_u32(p, 25)[lane], p[lane])]
  BY <1>1 DEF rotate_right_7, vsriq_n_u32, Lanes
<1> HIDE DEF R, S, Z
<1> QED BY <1>2, <1>3, <1>4 DEF Vectors

(* An array is a sequence of its length.                                      *)
LEMMA ArrayLen ==
  ASSUME NEW S, NEW n \in Nat, NEW a \in [1..n -> S]
  PROVE  a \in Seq(S) /\ Len(a) = n
  BY IsASeq, LenProperties

LEMMA Rotate8Lane ==
  ASSUME NEW p \in Vectors
  PROVE  /\ rotate_right_8(p) \in Vectors
         /\ \A lane \in Lanes : rotate_right_8(p)[lane] = RotateRight(p[lane], 8)
<1> DEFINE F(x, y) == x \div 256 + (y % 256) * 256
           R(w) == <<F(w[1], w[2]), F(w[2], w[1])>>
           bytes == BytesOf(p)
<1>1. 2^8 = 256 /\ 8 % 16 = 8 /\ Half16 \div 256 = 256 BY DEF Half16
<1>2. ASSUME NEW w \in U32 PROVE R(w) \in U32 /\ RotateRight(w, 8) = R(w)
  <2>1. w[1] \in Nat /\ w[2] \in Nat /\ w[1] < 65536 /\ w[2] < 65536 BY Halves DEF IsHalf, Half16
  <2>2. ASSUME NEW x \in Nat, NEW y \in Nat, x < 65536
        PROVE  IsHalf(F(x, y))
    <3>1. x \div 256 \in Nat /\ x \div 256 < 256 BY <2>2
    <3>2. y % 256 \in Nat /\ y % 256 < 256 OBVIOUS
    <3> DEFINE q == x \div 256
               r == y % 256
    <3> HIDE DEF q, r
    <3>3. q \in Nat /\ q < 256 /\ r \in Nat /\ r < 256 BY <3>1, <3>2 DEF q, r
    <3>4. q + r * 256 \in Nat /\ q + r * 256 < 65536 BY <3>3
    <3> QED BY <3>4 DEF IsHalf, Half16, q, r
  <2>3. R(w) \in U32
    <3> HIDE DEF F
    <3>1. IsHalf(F(w[1], w[2])) /\ IsHalf(F(w[2], w[1])) BY <2>1, <2>2
    <3> QED BY <3>1, HalvesOf
  <2> QED BY <1>1, <2>3 DEF RotateRight
<1>3. Len(p) = 4 BY ArrayLen DEF Vectors, Lanes
<1>4. ASSUME NEW k \in 1..16
      PROVE  bytes[k] = ToBytes(p[1 + ((k - 1) \div 4)])[1 + ((k - 1) % 4)]
  BY <1>3 DEF BytesOf
<1>5. ASSUME NEW i \in 0..3, NEW j \in 0..3 PROVE bytes[4 * i + j + 1] = ToBytes(p[i + 1])[j + 1]
  <2> DEFINE k == 4 * i + j + 1
  <2>1. k \in 1..16 /\ 1 + ((k - 1) \div 4) = i + 1 /\ 1 + ((k - 1) % 4) = j + 1 OBVIOUS
  <2> HIDE DEF bytes, k
  <2>2. bytes[k] = ToBytes(p[1 + ((k - 1) \div 4)])[1 + ((k - 1) % 4)] BY <1>4, <2>1
  <2>3. bytes[k] = ToBytes(p[i + 1])[j + 1] BY <2>1, <2>2
  <2> QED BY <2>3 DEF k
<1> HIDE DEF bytes
<1>6. ASSUME NEW i \in 0..3
      PROVE  /\ bytes[4 * i + 1] = p[i + 1][1] % 256 /\ bytes[4 * i + 2] = p[i + 1][1] \div 256
             /\ bytes[4 * i + 3] = p[i + 1][2] % 256 /\ bytes[4 * i + 4] = p[i + 1][2] \div 256
  <2>1. /\ 4 * i + 0 + 1 = 4 * i + 1 /\ 4 * i + 1 + 1 = 4 * i + 2 /\ 4 * i + 2 + 1 = 4 * i + 3
        /\ 4 * i + 3 + 1 = 4 * i + 4 /\ 0 + 1 = 1 /\ 1 + 1 = 2 /\ 2 + 1 = 3 /\ 3 + 1 = 4
    OBVIOUS
  <2>2. /\ bytes[4 * i + 1] = ToBytes(p[i + 1])[1] /\ bytes[4 * i + 2] = ToBytes(p[i + 1])[2]
        /\ bytes[4 * i + 3] = ToBytes(p[i + 1])[3] /\ bytes[4 * i + 4] = ToBytes(p[i + 1])[4]
    BY <1>5, <2>1
  <2> QED BY <2>2 DEF ToBytes
<1> DEFINE At(k) == bytes[ROTATE_BYTES[k] + 1]
           Picked(i) == <<At(4 * i + 1) + 256 * At(4 * i + 2), At(4 * i + 3) + 256 * At(4 * i + 4)>>
<1>7. rotate_right_8(p) = <<Picked(0), Picked(1), Picked(2), Picked(3)>>
  <2>1. \A k \in 1..16 : ROTATE_BYTES[k] < 16 BY DEF ROTATE_BYTES
  <2> HIDE DEF bytes
  <2> QED BY <2>1 DEF rotate_right_8, vqtbl1q_u8, bytes
<1>8. ASSUME NEW i \in 0..3 PROVE Picked(i) = R(p[i + 1])
  <2>1. /\ At(4 * i + 1) = bytes[4 * i + 2] /\ At(4 * i + 2) = bytes[4 * i + 3]
        /\ At(4 * i + 3) = bytes[4 * i + 4] /\ At(4 * i + 4) = bytes[4 * i + 1]
    <3>1. i = 0 \/ i = 1 \/ i = 2 \/ i = 3 OBVIOUS
    <3> QED BY <3>1 DEF ROTATE_BYTES
  <2>2. p[i + 1] \in U32
    <3>1. i + 1 \in Lanes BY DEF Lanes
    <3> QED BY <3>1 DEF Vectors
  <2>3. p[i + 1][1] \in Nat /\ p[i + 1][2] \in Nat BY <2>2, Halves DEF IsHalf
  <2> DEFINE x == p[i + 1][1]
             y == p[i + 1][2]
  <2> HIDE DEF x, y
  <2>4. x \div 256 + 256 * (y % 256) = F(x, y) /\ y \div 256 + 256 * (x % 256) = F(y, x)
    BY <2>3 DEF x, y
  <2>5. /\ bytes[4 * i + 1] = x % 256 /\ bytes[4 * i + 2] = x \div 256
        /\ bytes[4 * i + 3] = y % 256 /\ bytes[4 * i + 4] = y \div 256
    BY <1>6 DEF x, y
  <2> HIDE DEF At, F
  <2>6. Picked(i) = <<F(x, y), F(y, x)>> BY <2>1, <2>4, <2>5
  <2> QED BY <2>6 DEF x, y
<1> HIDE DEF Picked, R
<1>9. rotate_right_8(p) = [lane \in Lanes |-> R(p[lane])]
  <2>1. /\ Picked(0) = R(p[1]) /\ Picked(1) = R(p[2])
        /\ Picked(2) = R(p[3]) /\ Picked(3) = R(p[4])
    BY <1>8
  <2> QED BY <1>7, <2>1 DEF Lanes
<1> QED BY <1>2, <1>9 DEF Vectors

-------------------------------------------------------------------------------
(* The compression function, lane by lane.                                    *)
Places == 1..16

States == [Places -> Vectors]

LaneOf(s, lane) == [i \in 1..16 |-> s[i][lane]]

(* The halves of g.                                                           *)
LEMMA FirstHalfLane ==
  ASSUME NEW v, v[1] \in Vectors, v[2] \in Vectors, v[3] \in Vectors, v[4] \in Vectors,
         NEW x \in Vectors
  PROVE  LET w == FirstHalf(v, x)
         IN  /\ w[1] \in Vectors /\ w[2] \in Vectors /\ w[3] \in Vectors /\ w[4] \in Vectors
             /\ \A l \in Lanes :
                  <<w[1][l], w[2][l], w[3][l], w[4][l]>>
                    = Scalar(l)!HalfG(<<v[1][l], v[2][l], v[3][l], v[4][l]>>, x[l], 16, 12)
<1> DEFINE va == vaddq_u32(vaddq_u32(v[1], v[2]), x)
           vd == rotate_right_16(veorq_u32(v[4], va))
           vc == vaddq_u32(v[3], vd)
           vb == rotate_right_12(veorq_u32(v[2], vc))
<1>1. FirstHalf(v, x) = <<va, vb, vc, vd>> BY Zenon DEF FirstHalf
<1>2. va \in Vectors /\ \A l \in Lanes : va[l] = Add(Add(v[1][l], v[2][l]), x[l])
  BY AddLane
<1> HIDE DEF va
<1>3. vd \in Vectors /\ \A l \in Lanes : vd[l] = RotateRight(Xor2(v[4][l], va[l]), 16)
  BY <1>2, XorLane, Rotate16Lane
<1> HIDE DEF vd
<1>4. vc \in Vectors /\ \A l \in Lanes : vc[l] = Add(v[3][l], vd[l]) BY <1>3, AddLane
<1> HIDE DEF vc
<1>5. vb \in Vectors /\ \A l \in Lanes : vb[l] = RotateRight(Xor2(v[2][l], vc[l]), 12)
  BY <1>4, XorLane, Rotate12Lane
<1> HIDE DEF vb
<1>6. ASSUME NEW l \in Lanes
      PROVE  <<va[l], vb[l], vc[l], vd[l]>>
               = Scalar(l)!HalfG(<<v[1][l], v[2][l], v[3][l], v[4][l]>>, x[l], 16, 12)
  <2> DEFINE a == Scalar(l)!Add(Scalar(l)!Add(v[1][l], v[2][l]), x[l])
             d == Scalar(l)!RotateRight(Scalar(l)!Xor2(v[4][l], a), 16)
             c == Scalar(l)!Add(v[3][l], d)
             b == Scalar(l)!RotateRight(Scalar(l)!Xor2(v[2][l], c), 12)
  <2>1. Scalar(l)!HalfG(<<v[1][l], v[2][l], v[3][l], v[4][l]>>, x[l], 16, 12) = <<a, b, c, d>>
    BY DEF Scalar!HalfG
  <2>2. a = va[l] BY <1>2, SameAdd
  <2> HIDE DEF a
  <2>3. d = vd[l] BY <1>3, <2>2, SameXor, SameRotate
  <2> HIDE DEF d
  <2>4. c = vc[l] BY <1>4, <2>3, SameAdd
  <2> HIDE DEF c
  <2>5. b = vb[l] BY <1>5, <2>4, SameXor, SameRotate
  <2> HIDE DEF b
  <2> QED BY <2>1, <2>2, <2>3, <2>4, <2>5
<1> QED BY <1>1, <1>2, <1>3, <1>4, <1>5, <1>6

LEMMA SecondHalfLane ==
  ASSUME NEW v, v[1] \in Vectors, v[2] \in Vectors, v[3] \in Vectors, v[4] \in Vectors,
         NEW x \in Vectors
  PROVE  LET w == SecondHalf(v, x)
         IN  /\ w[1] \in Vectors /\ w[2] \in Vectors /\ w[3] \in Vectors /\ w[4] \in Vectors
             /\ \A l \in Lanes :
                  <<w[1][l], w[2][l], w[3][l], w[4][l]>>
                    = Scalar(l)!HalfG(<<v[1][l], v[2][l], v[3][l], v[4][l]>>, x[l], 8, 7)
<1> DEFINE va == vaddq_u32(vaddq_u32(v[1], v[2]), x)
           vd == rotate_right_8(veorq_u32(v[4], va))
           vc == vaddq_u32(v[3], vd)
           vb == rotate_right_7(veorq_u32(v[2], vc))
<1>1. SecondHalf(v, x) = <<va, vb, vc, vd>> BY Zenon DEF SecondHalf
<1>2. va \in Vectors /\ \A l \in Lanes : va[l] = Add(Add(v[1][l], v[2][l]), x[l])
  BY AddLane
<1> HIDE DEF va
<1>3. vd \in Vectors /\ \A l \in Lanes : vd[l] = RotateRight(Xor2(v[4][l], va[l]), 8)
  BY <1>2, XorLane, Rotate8Lane
<1> HIDE DEF vd
<1>4. vc \in Vectors /\ \A l \in Lanes : vc[l] = Add(v[3][l], vd[l]) BY <1>3, AddLane
<1> HIDE DEF vc
<1>5. vb \in Vectors /\ \A l \in Lanes : vb[l] = RotateRight(Xor2(v[2][l], vc[l]), 7)
  BY <1>4, XorLane, Rotate7Lane
<1> HIDE DEF vb
<1>6. ASSUME NEW l \in Lanes
      PROVE  <<va[l], vb[l], vc[l], vd[l]>>
               = Scalar(l)!HalfG(<<v[1][l], v[2][l], v[3][l], v[4][l]>>, x[l], 8, 7)
  <2> DEFINE a == Scalar(l)!Add(Scalar(l)!Add(v[1][l], v[2][l]), x[l])
             d == Scalar(l)!RotateRight(Scalar(l)!Xor2(v[4][l], a), 8)
             c == Scalar(l)!Add(v[3][l], d)
             b == Scalar(l)!RotateRight(Scalar(l)!Xor2(v[2][l], c), 7)
  <2>1. Scalar(l)!HalfG(<<v[1][l], v[2][l], v[3][l], v[4][l]>>, x[l], 8, 7) = <<a, b, c, d>>
    BY DEF Scalar!HalfG
  <2>2. a = va[l] BY <1>2, SameAdd
  <2> HIDE DEF a
  <2>3. d = vd[l] BY <1>3, <2>2, SameXor, SameRotate
  <2> HIDE DEF d
  <2>4. c = vc[l] BY <1>4, <2>3, SameAdd
  <2> HIDE DEF c
  <2>5. b = vb[l] BY <1>5, <2>4, SameXor, SameRotate
  <2> HIDE DEF b
  <2> QED BY <2>1, <2>2, <2>3, <2>4, <2>5
<1> QED BY <1>1, <1>2, <1>3, <1>4, <1>5, <1>6

LEMMA PlacedLane ==
  ASSUME NEW s, NEW a, NEW b, NEW c, NEW d, NEW w, NEW l, NEW z,
         s \in States, a \in Places, b \in Places, c \in Places, d \in Places, l \in Lanes,
         w[1] \in Vectors, w[2] \in Vectors, w[3] \in Vectors, w[4] \in Vectors,
         z[1] = w[1][l], z[2] = w[2][l], z[3] = w[3][l], z[4] = w[4][l]
  PROVE  /\ Placed(s, a, b, c, d, w) \in States
         /\ LaneOf(Placed(s, a, b, c, d, w), l) = Scalar(l)!Placed(LaneOf(s, l), a, b, c, d, z)
<1> DEFINE u == LaneOf(s, l)
<1>1. Placed(s, a, b, c, d, w) \in States BY DEF Placed, States
<1>3. LaneOf(Placed(s, a, b, c, d, w), l)
        = [u EXCEPT ![a] = z[1], ![b] = z[2], ![c] = z[3], ![d] = z[4]]
  BY DEF Placed, LaneOf, States, Places
<1> HIDE DEF u
<1>4. Scalar(l)!Placed(u, a, b, c, d, z)
        = [u EXCEPT ![a] = z[1], ![b] = z[2], ![c] = z[3], ![d] = z[4]]
  BY DEF Scalar!Placed
<1> QED BY <1>1, <1>3, <1>4 DEF u

(* The scalar code's g.                                                       *)
LEMMA ScalarG ==
  ASSUME NEW l, NEW s, NEW a, NEW b, NEW c, NEW d, NEW x, NEW y
  PROVE  Scalar(l)!G(s, a, b, c, d, x, y)
           = Scalar(l)!Placed(s, a, b, c, d,
               Scalar(l)!HalfG(Scalar(l)!HalfG(<<s[a], s[b], s[c], s[d]>>, x, 16, 12), y, 8, 7))
  BY Zenon DEF Scalar!G

LEMMA GLane ==
  ASSUME NEW s, NEW a, NEW b, NEW c, NEW d, NEW x, NEW y, NEW l,
         s \in States, a \in Places, b \in Places, c \in Places, d \in Places,
         x \in Vectors, y \in Vectors, l \in Lanes
  PROVE  /\ g(s, a, b, c, d, x, y) \in States
         /\ LaneOf(g(s, a, b, c, d, x, y), l)
              = Scalar(l)!G(LaneOf(s, l), a, b, c, d, x[l], y[l])
<1> DEFINE q == <<s[a], s[b], s[c], s[d]>>
           v == FirstHalf(q, x)
           w == SecondHalf(v, y)
           t == Placed(s, a, b, c, d, w)
           u == LaneOf(s, l)
           h == Scalar(l)!HalfG(<<u[a], u[b], u[c], u[d]>>, x[l], 16, 12)
           z == Scalar(l)!HalfG(h, y[l], 8, 7)
<1> HIDE DEF q, v, w, t, u, h, z
<1>1. /\ q[1] = s[a] /\ q[2] = s[b] /\ q[3] = s[c] /\ q[4] = s[d]
      /\ q[1] \in Vectors /\ q[2] \in Vectors /\ q[3] \in Vectors /\ q[4] \in Vectors
  <2>1. s[a] \in Vectors /\ s[b] \in Vectors /\ s[c] \in Vectors /\ s[d] \in Vectors
    BY DEF States
  <2>2. q = <<s[a], s[b], s[c], s[d]>> BY DEF q
  <2>3. q[1] = s[a] /\ q[2] = s[b] /\ q[3] = s[c] /\ q[4] = s[d] BY <2>2
  <2> QED BY <2>1, <2>3
<1>2. g(s, a, b, c, d, x, y) = t BY Zenon DEF g, t, w, v, q
<1>3. u[a] = q[1][l] /\ u[b] = q[2][l] /\ u[c] = q[3][l] /\ u[d] = q[4][l]
  BY <1>1 DEF LaneOf, Places, u
<1>4. Scalar(l)!G(u, a, b, c, d, x[l], y[l]) = Scalar(l)!Placed(u, a, b, c, d, z)
  BY Zenon, ScalarG DEF h, z
<1>5. /\ v[1] \in Vectors /\ v[2] \in Vectors /\ v[3] \in Vectors /\ v[4] \in Vectors
      /\ <<v[1][l], v[2][l], v[3][l], v[4][l]>>
           = Scalar(l)!HalfG(<<q[1][l], q[2][l], q[3][l], q[4][l]>>, x[l], 16, 12)
  BY <1>1, FirstHalfLane DEF v
<1>6. h = <<v[1][l], v[2][l], v[3][l], v[4][l]>> BY <1>3, <1>5 DEF h
<1>7. /\ w[1] \in Vectors /\ w[2] \in Vectors /\ w[3] \in Vectors /\ w[4] \in Vectors
      /\ <<w[1][l], w[2][l], w[3][l], w[4][l]>>
           = Scalar(l)!HalfG(<<v[1][l], v[2][l], v[3][l], v[4][l]>>, y[l], 8, 7)
  BY <1>5, SecondHalfLane DEF w
<1>8. z = <<w[1][l], w[2][l], w[3][l], w[4][l]>> BY <1>6, <1>7 DEF z
<1>9. z[1] = w[1][l] /\ z[2] = w[2][l] /\ z[3] = w[3][l] /\ z[4] = w[4][l] BY <1>8
<1>10. t \in States /\ LaneOf(t, l) = Scalar(l)!Placed(u, a, b, c, d, z)
  BY <1>7, <1>9, PlacedLane DEF t, u
<1> QED BY <1>2, <1>4, <1>10 DEF u

(* The order of the message words. The scalar code permutes the words after   *)
(* every round; the table has the powers of the permutation.                  *)
Schedules == [1..16 -> 0..15]

LEMMA ScheduleType == MSG_SCHEDULE \in [1..7 -> Schedules]
<1>1. /\ MSG_SCHEDULE[1] \in Schedules /\ MSG_SCHEDULE[2] \in Schedules
      /\ MSG_SCHEDULE[3] \in Schedules /\ MSG_SCHEDULE[4] \in Schedules
      /\ MSG_SCHEDULE[5] \in Schedules /\ MSG_SCHEDULE[6] \in Schedules
      /\ MSG_SCHEDULE[7] \in Schedules
  BY DEF MSG_SCHEDULE, Schedules
<1> QED BY <1>1 DEF MSG_SCHEDULE

LEMMA ScheduleSteps ==
  ASSUME NEW r \in 1..6, NEW i \in 1..16
  PROVE  /\ MSG_SCHEDULE[r + 1][i] = MSG_SCHEDULE[r][Scalar(1)!Permutation[i]]
<1>1. r = 1 \/ r = 2 \/ r = 3 \/ r = 4 \/ r = 5 \/ r = 6 OBVIOUS
<1> QED BY <1>1 DEF MSG_SCHEDULE, Scalar!Permutation

LEMMA FirstSchedule == \A i \in 1..16 : MSG_SCHEDULE[1][i] = i - 1
  BY DEF MSG_SCHEDULE

(* Both halves of a round are those of each lane, on its lane's words.        *)
LEMMA ColumnsLane ==
  ASSUME NEW s, NEW schedule, NEW l, NEW w, s \in States, l \in Lanes,
         \A i \in 1..16 : /\ Scheduled(schedule, i) \in Vectors
                          /\ w[i] = Scheduled(schedule, i)[l]
  PROVE  /\ Columns(s, schedule) \in States
         /\ LaneOf(Columns(s, schedule), l) = Scalar(l)!Columns(LaneOf(s, l), w)
<1> DEFINE M(i) == Scheduled(schedule, i)
           s1 == g(s, 1, 5, 9, 13, M(1), M(2))
           s2 == g(s1, 2, 6, 10, 14, M(3), M(4))
           s3 == g(s2, 3, 7, 11, 15, M(5), M(6))
           s4 == g(s3, 4, 8, 12, 16, M(7), M(8))
           t1 == Scalar(l)!G(LaneOf(s, l), 1, 5, 9, 13, w[1], w[2])
           t2 == Scalar(l)!G(t1, 2, 6, 10, 14, w[3], w[4])
           t3 == Scalar(l)!G(t2, 3, 7, 11, 15, w[5], w[6])
           t4 == Scalar(l)!G(t3, 4, 8, 12, 16, w[7], w[8])
<1>1. Columns(s, schedule) = s4 BY Zenon DEF Columns
<1>2. Scalar(l)!Columns(LaneOf(s, l), w) = t4 BY Zenon DEF Scalar!Columns
<1>3. \A i \in 1..16 : M(i) \in Vectors /\ w[i] = M(i)[l] OBVIOUS
<1> HIDE DEF M, s4, t4, s3, t3, s2, t2, s1, t1
<1>4. \A i \in 1..16 : i \in Places BY DEF Places
<1>5. s1 \in States /\ LaneOf(s1, l) = t1
  <2>1. 1 \in Places /\ 5 \in Places /\ 9 \in Places /\ 13 \in Places BY <1>4
  <2>2. /\ M(1) \in Vectors /\ M(2) \in Vectors
        /\ w[1] = M(1)[l] /\ w[2] = M(2)[l]
    BY <1>3
  <2> QED BY <2>1, <2>2, GLane DEF s1, t1
<1>6. s2 \in States /\ LaneOf(s2, l) = t2
  <2>1. 2 \in Places /\ 6 \in Places /\ 10 \in Places /\ 14 \in Places BY <1>4
  <2>2. /\ M(3) \in Vectors /\ M(4) \in Vectors
        /\ w[3] = M(3)[l] /\ w[4] = M(4)[l]
    BY <1>3
  <2> QED BY <1>5, <2>1, <2>2, GLane DEF s2, t2
<1>7. s3 \in States /\ LaneOf(s3, l) = t3
  <2>1. 3 \in Places /\ 7 \in Places /\ 11 \in Places /\ 15 \in Places BY <1>4
  <2>2. /\ M(5) \in Vectors /\ M(6) \in Vectors
        /\ w[5] = M(5)[l] /\ w[6] = M(6)[l]
    BY <1>3
  <2> QED BY <1>6, <2>1, <2>2, GLane DEF s3, t3
<1>8. s4 \in States /\ LaneOf(s4, l) = t4
  <2>1. 4 \in Places /\ 8 \in Places /\ 12 \in Places /\ 16 \in Places BY <1>4
  <2>2. /\ M(7) \in Vectors /\ M(8) \in Vectors
        /\ w[7] = M(7)[l] /\ w[8] = M(8)[l]
    BY <1>3
  <2> QED BY <1>7, <2>1, <2>2, GLane DEF s4, t4
<1> QED BY <1>1, <1>2, <1>8

LEMMA DiagonalsLane ==
  ASSUME NEW s, NEW schedule, NEW l, NEW w, s \in States, l \in Lanes,
         \A i \in 1..16 : /\ Scheduled(schedule, i) \in Vectors
                          /\ w[i] = Scheduled(schedule, i)[l]
  PROVE  /\ Diagonals(s, schedule) \in States
         /\ LaneOf(Diagonals(s, schedule), l) = Scalar(l)!Diagonals(LaneOf(s, l), w)
<1> DEFINE M(i) == Scheduled(schedule, i)
           s1 == g(s, 1, 6, 11, 16, M(9), M(10))
           s2 == g(s1, 2, 7, 12, 13, M(11), M(12))
           s3 == g(s2, 3, 8, 9, 14, M(13), M(14))
           s4 == g(s3, 4, 5, 10, 15, M(15), M(16))
           t1 == Scalar(l)!G(LaneOf(s, l), 1, 6, 11, 16, w[9], w[10])
           t2 == Scalar(l)!G(t1, 2, 7, 12, 13, w[11], w[12])
           t3 == Scalar(l)!G(t2, 3, 8, 9, 14, w[13], w[14])
           t4 == Scalar(l)!G(t3, 4, 5, 10, 15, w[15], w[16])
<1>1. Diagonals(s, schedule) = s4 BY Zenon DEF Diagonals
<1>2. Scalar(l)!Diagonals(LaneOf(s, l), w) = t4 BY Zenon DEF Scalar!Diagonals
<1>3. \A i \in 1..16 : M(i) \in Vectors /\ w[i] = M(i)[l] OBVIOUS
<1> HIDE DEF M, s4, t4, s3, t3, s2, t2, s1, t1
<1>4. \A i \in 1..16 : i \in Places BY DEF Places
<1>5. s1 \in States /\ LaneOf(s1, l) = t1
  <2>1. 1 \in Places /\ 6 \in Places /\ 11 \in Places /\ 16 \in Places BY <1>4
  <2>2. /\ M(9) \in Vectors /\ M(10) \in Vectors
        /\ w[9] = M(9)[l] /\ w[10] = M(10)[l]
    BY <1>3
  <2> QED BY <2>1, <2>2, GLane DEF s1, t1
<1>6. s2 \in States /\ LaneOf(s2, l) = t2
  <2>1. 2 \in Places /\ 7 \in Places /\ 12 \in Places /\ 13 \in Places BY <1>4
  <2>2. /\ M(11) \in Vectors /\ M(12) \in Vectors
        /\ w[11] = M(11)[l] /\ w[12] = M(12)[l]
    BY <1>3
  <2> QED BY <1>5, <2>1, <2>2, GLane DEF s2, t2
<1>7. s3 \in States /\ LaneOf(s3, l) = t3
  <2>1. 3 \in Places /\ 8 \in Places /\ 9 \in Places /\ 14 \in Places BY <1>4
  <2>2. /\ M(13) \in Vectors /\ M(14) \in Vectors
        /\ w[13] = M(13)[l] /\ w[14] = M(14)[l]
    BY <1>3
  <2> QED BY <1>6, <2>1, <2>2, GLane DEF s3, t3
<1>8. s4 \in States /\ LaneOf(s4, l) = t4
  <2>1. 4 \in Places /\ 5 \in Places /\ 10 \in Places /\ 15 \in Places BY <1>4
  <2>2. /\ M(15) \in Vectors /\ M(16) \in Vectors
        /\ w[15] = M(15)[l] /\ w[16] = M(16)[l]
    BY <1>3
  <2> QED BY <1>7, <2>1, <2>2, GLane DEF s4, t4
<1> QED BY <1>1, <1>2, <1>8

LEMMA RoundedLane ==
  ASSUME NEW s \in States, NEW schedule \in Schedules, message \in [1..16 -> Vectors],
         NEW l \in Lanes, NEW w, \A i \in 1..16 : w[i] = Scheduled(schedule, i)[l]
  PROVE  /\ Rounded(s, schedule) \in States
         /\ LaneOf(Rounded(s, schedule), l) = Scalar(l)!Mixed(LaneOf(s, l), w)
<1> DEFINE t == Columns(s, schedule)
           u == Scalar(l)!Columns(LaneOf(s, l), w)
<1>1. Rounded(s, schedule) = Diagonals(t, schedule) BY Zenon DEF Rounded
<1>2. Scalar(l)!Mixed(LaneOf(s, l), w) = Scalar(l)!Diagonals(u, w) BY Zenon DEF Scalar!Mixed
<1>3. \A i \in 1..16 : /\ Scheduled(schedule, i) \in Vectors
                        /\ w[i] = Scheduled(schedule, i)[l]
  BY DEF Scheduled, Schedules
<1> HIDE DEF t, u
<1>4. t \in States /\ LaneOf(t, l) = u BY <1>3, ColumnsLane DEF t, u
<1>5. /\ Diagonals(t, schedule) \in States
      /\ LaneOf(Diagonals(t, schedule), l) = Scalar(l)!Diagonals(u, w)
  BY <1>3, <1>4, DiagonalsLane
<1> QED BY <1>1, <1>2, <1>5

-------------------------------------------------------------------------------
(* The inputs.                                                                *)
CallInv ==
  /\ call \in Calls
  /\ step \in 0..Steps - 1
  /\ call.kind = "chain" => values \in [Lanes -> Hash]

LEMMA Bytes == \A n : n \in U8 <=> n \in Nat /\ n < 256
  BY DEF U8

LEMMA WordBytes ==
  ASSUME NEW w \in U32
  PROVE  ToBytes(w) \in [1..4 -> U8]
<1>1. /\ w[1] \in Nat /\ w[2] \in Nat /\ w[1] < 65536 /\ w[2] < 65536
  BY Halves DEF IsHalf, Half16
<1>2. ASSUME NEW x \in Nat, x < 65536
      PROVE  /\ x % 256 \in Nat /\ x % 256 < 256 /\ x \div 256 \in Nat /\ x \div 256 < 256
  BY <1>2
<1>3. /\ w[1] % 256 \in U8 /\ w[1] \div 256 \in U8 /\ w[2] % 256 \in U8 /\ w[2] \div 256 \in U8
  BY <1>1, <1>2, Bytes
<1> QED BY <1>3 DEF ToBytes

LEMMA BytesWord ==
  ASSUME NEW b, NEW i \in Nat, \A k \in 1..4 : b[i + k] \in U8
  PROVE  FromBytes(b, i) \in U32
<1>1. ASSUME NEW x \in U8, NEW y \in U8 PROVE IsHalf(x + 256 * y)
  <2>1. x \in Nat /\ x < 256 /\ y \in Nat /\ y < 256 BY Bytes
  <2> QED BY <2>1 DEF IsHalf, Half16
<1>2. IsHalf(b[i + 1] + 256 * b[i + 2]) /\ IsHalf(b[i + 3] + 256 * b[i + 4]) BY <1>1
<1> QED BY <1>2, HalvesOf DEF FromBytes

(* Arrays one after the other.                                                *)
Arrays(S, n) == [1..n -> S]

Cat(a, b) == a \o b

LEMMA ArraysLen ==
  ASSUME NEW S, NEW n, NEW a, n \in Nat, a \in Arrays(S, n)
  PROVE  a \in Seq(S) /\ Len(a) = n /\ \A i \in 1..n : a[i] \in S
  BY ArrayLen DEF Arrays

LEMMA SeqArray == ASSUME NEW S, NEW a \in Seq(S) PROVE a \in Arrays(S, Len(a)) /\ Len(a) \in Nat
  BY LenProperties DEF Arrays

LEMMA JoinedType ==
  ASSUME NEW S, NEW a, NEW b, NEW m, NEW n,
         m \in Nat, n \in Nat, a \in Arrays(S, m), b \in Arrays(S, n)
  PROVE  Cat(a, b) \in Arrays(S, m + n)
<1>1. a \in Seq(S) /\ Len(a) = m /\ b \in Seq(S) /\ Len(b) = n BY ArraysLen
<1>2. a \o b \in Seq(S) /\ Len(a \o b) = m + n BY <1>1, ConcatProperties
<1>3. a \o b \in [1..m + n -> S] BY <1>2, LenProperties
<1> QED BY <1>3 DEF Cat, Arrays

LEMMA JoinedLeft ==
  ASSUME NEW S, NEW a, NEW b, NEW m, NEW n,
         m \in Nat, n \in Nat, a \in Arrays(S, m), b \in Arrays(S, n)
  PROVE  \A i \in 1..m : Cat(a, b)[i] = a[i]
<1>1. a \in Seq(S) /\ Len(a) = m /\ b \in Seq(S) /\ Len(b) = n BY ArraysLen
<1> DEFINE c == a \o b
<1>2. \A i \in 1..m + n : c[i] = IF i <= m THEN a[i] ELSE b[i - m]
  BY <1>1, ConcatProperties
<1>3. Cat(a, b) = c BY DEF Cat
<1> HIDE DEF c
<1> QED BY <1>2, <1>3

LEMMA JoinedRight ==
  ASSUME NEW S, NEW a, NEW b, NEW m, NEW n,
         m \in Nat, n \in Nat, a \in Arrays(S, m), b \in Arrays(S, n)
  PROVE  \A i \in m + 1..m + n : Cat(a, b)[i] = b[i - m]
<1>1. a \in Seq(S) /\ Len(a) = m /\ b \in Seq(S) /\ Len(b) = n BY ArraysLen
<1> DEFINE c == a \o b
<1>2. \A i \in 1..m + n : c[i] = IF i <= m THEN a[i] ELSE b[i - m]
  BY <1>1, ConcatProperties
<1>3. Cat(a, b) = c BY DEF Cat
<1> HIDE DEF c
<1> QED BY <1>2, <1>3

LEMMA HashArray == \A h \in Hash : h \in Arrays(U8, 32) BY DEF Hash, Arrays

LEMMA CallTypes ==
  ASSUME CallInv, NEW l \in Lanes
  PROVE  /\ call.epochs[l] \in U32
         /\ call.kind \in {"prf", "chain"}
         /\ call.kind = "prf" => call.key \in Hash /\ call.index \in U32 \X U32
         /\ call.kind = "chain" =>
              /\ call.parameter \in Hash /\ call.starts \in [Lanes -> Hash]
              /\ call.chain_index \in U8
              /\ call.start_position \in Nat /\ call.steps \in Nat
              /\ call.start_position + call.steps <= 255
              /\ step \in Nat /\ step < call.steps
<1>1. call \in Calls /\ step \in 0..Steps - 1 BY DEF CallInv
<1>2. CASE call.kind = "prf" BY <1>1, <1>2, CallsAssumption
<1>3. CASE call.kind = "chain"
  <2>1. call.steps \in 1..(255 - call.start_position) /\ call.start_position \in 0..254
    BY <1>1, <1>3, CallsAssumption
  <2>2. step \in Nat /\ step < call.steps BY <1>1, <1>3, <2>1 DEF Steps
  <2>3. call.start_position \in Nat /\ call.steps \in Nat /\ call.start_position + call.steps <= 255
    BY <2>1
  <2> QED BY <1>1, <1>3, <2>2, <2>3, CallsAssumption
<1> QED BY <1>1, <1>2, <1>3, CallsAssumption

(* What the scalar hash of a lane is fed, what it starts from, and its flag.  *)
ScalarInput(l) == ScalarHash(l).bytes

ScalarKey == IF call.kind = "prf" THEN call.key ELSE CHAIN_CONTEXT_KEY

LEMMA ScalarHashParts ==
  ASSUME NEW l
  PROVE  /\ ScalarHash(l).key = ScalarKey
         /\ ScalarHash(l).mode = IF call.kind = "prf" THEN 16 ELSE 64
         /\ call.kind = "prf" =>
              ScalarInput(l) = CHAIN_START_TAG \o Le32(call.epochs[l]) \o Le64(call.index)
         /\ call.kind # "prf" =>
              ScalarInput(l) = call.parameter \o Le32(call.epochs[l])
                \o <<call.chain_index, call.start_position + step + 1>> \o values[l]
  BY DEF ScalarInput, ScalarKey, ScalarHash, get_domain_element, ChainStep, Keyed, Derived,
         KEYED_HASH, DERIVE_KEY_MATERIAL

(* The arrays of fixed size hold the pieces the scalar code hashes.           *)
LEMMA DomainInputLane ==
  ASSUME CallInv, call.kind = "prf", NEW l \in Lanes
  PROVE  LET n == Len(CHAIN_START_TAG) + 12
             in == ScalarInput(l)
             array == get_domain_elements_4(call)[l]
         IN  /\ n \in Nat /\ n <= 64 /\ Len(in) = n /\ Len(array) = n
             /\ \A i \in 1..n : in[i] \in U8 /\ array[i] = in[i]
<1> DEFINE tag == CHAIN_START_TAG
           T == Len(tag)
           n == T + 12
           e == Le32(call.epochs[l])
           j == Le64(call.index)
           in == ScalarInput(l)
           array == get_domain_elements_4(call)[l]
<1>1. T \in Nat /\ T + 12 <= 64 /\ tag \in Arrays(U8, T) BY TagAssumption, SeqArray
<1>2. e \in Arrays(U8, 4) BY CallTypes, WordBytes DEF Le32, Arrays
<1>3. j \in Arrays(U8, 8)
  <2>1. call.index[1] \in U32 /\ call.index[2] \in U32 BY CallTypes
  <2> DEFINE low == ToBytes(call.index[1])
             high == ToBytes(call.index[2])
  <2>2. low \in Arrays(U8, 4) /\ high \in Arrays(U8, 4) BY <2>1, WordBytes DEF Arrays
  <2>3. j = Cat(low, high) BY DEF Le64, Cat
  <2> HIDE DEF low, high, j
  <2>4. Cat(low, high) \in Arrays(U8, 4 + 4) BY <2>2, JoinedType
  <2> QED BY <2>3, <2>4
<1>4. in = Cat(Cat(tag, e), j) BY ScalarHashParts DEF Cat
<1>5. array = [i \in 1..n |->
                 CASE i <= T -> tag[i]
                   [] T < i /\ i <= T + 4 -> e[i - T]
                   [] i > T + 4 -> j[i - (T + 4)]]
  <2>1. (T + 4) + 8 = n BY <1>1
  <2> HIDE DEF e, j, n
  <2> QED BY <2>1 DEF get_domain_elements_4, e, j
<1> HIDE DEF tag, T, e, j, in, array
<1> DEFINE k == T + 4
           te == Cat(tag, e)
           tej == Cat(te, j)
<1>6. k \in Nat BY <1>1
<1>7. /\ te \in Arrays(U8, k)
      /\ \A i \in 1..T : te[i] = tag[i]
      /\ \A i \in T + 1..k : te[i] = e[i - T]
  <2>1. te \in Arrays(U8, T + 4) BY <1>1, <1>2, JoinedType
  <2>2. \A i \in 1..T : te[i] = tag[i] BY <1>1, <1>2, JoinedLeft
  <2>3. \A i \in T + 1..T + 4 : te[i] = e[i - T] BY <1>1, <1>2, JoinedRight
  <2> QED BY <2>1, <2>2, <2>3
<1>8. n = k + 8 /\ in = tej BY <1>1, <1>4
<1> HIDE DEF n, k, te
<1>9. /\ tej \in Arrays(U8, n)
      /\ \A i \in 1..k : tej[i] = te[i]
      /\ \A i \in k + 1..n : tej[i] = j[i - k]
  <2>1. tej \in Arrays(U8, k + 8) BY <1>3, <1>6, <1>7, JoinedType
  <2>2. \A i \in 1..k : tej[i] = te[i] BY <1>3, <1>6, <1>7, JoinedLeft
  <2>3. \A i \in k + 1..k + 8 : tej[i] = j[i - k] BY <1>3, <1>6, <1>7, JoinedRight
  <2> QED BY <1>8, <2>1, <2>2, <2>3
<1> HIDE DEF tej
<1>10. n \in Nat /\ n <= 64 /\ n = T + 12 BY <1>1 DEF n
<1>11. ASSUME NEW i \in 1..n PROVE in[i] \in U8 /\ array[i] = in[i]
  <2>1. in[i] \in U8 BY <1>8, <1>9, <1>10, ArraysLen
  <2>2. CASE i <= T
    <3>1. i \in 1..T /\ i \in 1..k BY <1>1, <1>10, <2>2 DEF k
    <3>2. in[i] = tag[i] BY <1>7, <1>8, <1>9, <3>1
    <3>3. array[i] = tag[i] BY <1>1, <1>5, <1>10, <2>2
    <3> QED BY <2>1, <3>2, <3>3
  <2>3. CASE T < i /\ i <= T + 4
    <3>1. i \in T + 1..k /\ i \in 1..k /\ ~(i <= T) BY <1>1, <1>10, <2>3 DEF k
    <3>2. in[i] = e[i - T] BY <1>7, <1>8, <1>9, <3>1
    <3>3. array[i] = e[i - T] BY <1>1, <1>5, <1>10, <2>3, <3>1
    <3> QED BY <2>1, <3>2, <3>3
  <2>4. CASE i > T + 4
    <3>1. i \in k + 1..n /\ ~(i <= T) /\ ~(i <= T + 4) BY <1>1, <1>10, <2>4 DEF k
    <3>2. in[i] = j[i - k] BY <1>8, <1>9, <3>1
    <3>3. array[i] = j[i - k] BY <1>5, <2>4, <3>1 DEF k
    <3> QED BY <2>1, <3>2, <3>3
  <2> QED BY <1>1, <1>10, <2>2, <2>3, <2>4
<1>12. array \in Arrays(U8, n) BY <1>5, <1>11 DEF Arrays
<1>13. Len(in) = n /\ Len(array) = n BY <1>8, <1>9, <1>10, <1>12, ArraysLen
<1> QED BY <1>10, <1>11, <1>13 DEF n, T, tag, in, array

LEMMA ChainInputLane ==
  ASSUME CallInv, call.kind = "chain", NEW l \in Lanes
  PROVE  LET in == ScalarInput(l)
             array == chain_4_inputs(call, step, values)[l]
         IN  /\ Len(in) = 70
             /\ \A i \in 1..70 : in[i] \in U8 /\ array[i] = in[i]
<1> DEFINE p == call.parameter
           e == Le32(call.epochs[l])
           position == call.start_position + step + 1
           q == <<call.chain_index, position>>
           h == values[l]
           in == ScalarInput(l)
           array == chain_4_inputs(call, step, values)[l]
<1>1. p \in Arrays(U8, 32) BY CallTypes, HashArray
<1>2. e \in Arrays(U8, 4) BY CallTypes, WordBytes DEF Le32, Arrays
<1>3. position \in U8 /\ Position(call, step) = position
  <2>1. position \in Nat /\ position < 256 BY CallTypes
  <2> QED BY <2>1, Bytes DEF Position
<1>4. q \in Arrays(U8, 2) BY <1>3, CallTypes DEF Arrays
<1>5. h \in Arrays(U8, 32) BY HashArray DEF CallInv
<1>6. in = Cat(Cat(Cat(p, e), q), h) BY ScalarHashParts DEF Cat
<1>7. array = [i \in 1..70 |->
                 CASE i <= 32      -> p[i]
                   [] i \in 33..36 -> e[i - 32]
                   [] i = 37       -> q[1]
                   [] i = 38       -> q[2]
                   [] i \in 39..70 -> h[i - 38]]
  <2>1. q[1] = call.chain_index /\ q[2] = Position(call, step) BY <1>3
  <2> HIDE DEF e, q
  <2> QED BY <2>1 DEF chain_4_inputs, e
<1> HIDE DEF p, e, q, h, in, array
<1> DEFINE pe == Cat(p, e)
           peq == Cat(pe, q)
           peqh == Cat(peq, h)
<1>8. /\ pe \in Arrays(U8, 32 + 4)
      /\ \A i \in 1..32 : pe[i] = p[i]
      /\ \A i \in 32 + 1..32 + 4 : pe[i] = e[i - 32]
  <2>1. pe \in Arrays(U8, 32 + 4) BY <1>1, <1>2, JoinedType
  <2>2. \A i \in 1..32 : pe[i] = p[i] BY <1>1, <1>2, JoinedLeft
  <2>3. \A i \in 32 + 1..32 + 4 : pe[i] = e[i - 32] BY <1>1, <1>2, JoinedRight
  <2> QED BY <2>1, <2>2, <2>3
<1> HIDE DEF pe
<1>9. /\ peq \in Arrays(U8, 36 + 2)
      /\ \A i \in 1..36 : peq[i] = pe[i]
      /\ \A i \in 36 + 1..36 + 2 : peq[i] = q[i - 36]
  <2>1. pe \in Arrays(U8, 36) BY <1>8
  <2>2. peq \in Arrays(U8, 36 + 2) BY <1>4, <2>1, JoinedType
  <2>3. \A i \in 1..36 : peq[i] = pe[i] BY <1>4, <2>1, JoinedLeft
  <2>4. \A i \in 36 + 1..36 + 2 : peq[i] = q[i - 36] BY <1>4, <2>1, JoinedRight
  <2> QED BY <2>2, <2>3, <2>4
<1> HIDE DEF peq
<1>10. /\ peqh \in Arrays(U8, 38 + 32)
       /\ \A i \in 1..38 : peqh[i] = peq[i]
       /\ \A i \in 38 + 1..38 + 32 : peqh[i] = h[i - 38]
  <2>1. peq \in Arrays(U8, 38) BY <1>9
  <2>2. peqh \in Arrays(U8, 38 + 32) BY <1>5, <2>1, JoinedType
  <2>3. \A i \in 1..38 : peqh[i] = peq[i] BY <1>5, <2>1, JoinedLeft
  <2>4. \A i \in 38 + 1..38 + 32 : peqh[i] = h[i - 38] BY <1>5, <2>1, JoinedRight
  <2> QED BY <2>2, <2>3, <2>4
<1>11. in = peqh BY <1>6 DEF pe, peq
<1> HIDE DEF peqh
<1>12. ASSUME NEW i \in 1..70 PROVE in[i] \in U8 /\ array[i] = in[i]
  <2>1. in[i] \in U8 BY <1>10, <1>11 DEF Arrays
  <2>2. CASE i <= 32
    <3>1. in[i] = p[i] BY <1>8, <1>9, <1>10, <1>11, <2>2
    <3> QED BY <1>7, <2>1, <2>2, <3>1
  <2>3. CASE i \in 33..36
    <3>1. in[i] = e[i - 32] BY <1>8, <1>9, <1>10, <1>11, <2>3
    <3> QED BY <1>7, <2>1, <2>3, <3>1
  <2>4. CASE i = 37
    <3>1. in[i] = q[1] BY <1>9, <1>10, <1>11, <2>4
    <3> QED BY <1>7, <2>1, <2>4, <3>1
  <2>5. CASE i = 38
    <3>1. in[i] = q[2] BY <1>9, <1>10, <1>11, <2>5
    <3> QED BY <1>7, <2>1, <2>5, <3>1
  <2>6. CASE i \in 39..70
    <3>1. in[i] = h[i - 38] BY <1>10, <1>11, <2>6
    <3> QED BY <1>7, <2>1, <2>6, <3>1
  <2> QED BY <2>2, <2>3, <2>4, <2>5, <2>6
<1>13. Len(in) = 70
  <2>1. in \in [1..70 -> U8] BY <1>10, <1>11 DEF Arrays
  <2> QED BY <2>1, ArrayLen
<1> QED BY <1>12, <1>13 DEF in, array

LEMMA PrfBlock ==
  ASSUME CallInv, call.kind = "prf", NEW l \in Lanes
  PROVE  Scalar(l)!LastBlock(0) /\ Scalar(l)!BlockLen(0) = Len(CHAIN_START_TAG) + 12
<1> DEFINE n == Len(ScalarInput(l))
<1>1. n \in Nat /\ n <= 64 /\ n = Len(CHAIN_START_TAG) + 12 BY DomainInputLane
<1>2. Scalar(l)!LastBlock(0) <=> n <= 64 * (0 + 1) BY DEF Scalar!LastBlock, ScalarInput
<1>3. Scalar(l)!BlockLen(0) = IF Scalar(l)!LastBlock(0) THEN n - 64 * 0 ELSE 64
  BY DEF Scalar!BlockLen, ScalarInput
<1> HIDE DEF n
<1> QED BY <1>1, <1>2, <1>3

LEMMA ChainBlocks ==
  ASSUME CallInv, call.kind = "chain", NEW l \in Lanes
  PROVE  /\ ~Scalar(l)!LastBlock(0) /\ Scalar(l)!BlockLen(0) = 64
         /\ Scalar(l)!LastBlock(1) /\ Scalar(l)!BlockLen(1) = 6
<1>1. Len(ScalarInput(l)) = 70 BY ChainInputLane
<1>2. ~Scalar(l)!LastBlock(0) /\ Scalar(l)!LastBlock(1) BY <1>1 DEF Scalar!LastBlock, ScalarInput
<1> QED BY <1>1, <1>2 DEF Scalar!BlockLen, ScalarInput

LEMMA FirstBlocksLane ==
  ASSUME CallInv, NEW l \in Lanes, NEW k \in 1..64
  PROVE  LET byte == FirstBlocks(call, step, values)[l][k]
         IN  byte \in U8 /\ byte = Scalar(l)!Padded(0)[k]
<1> DEFINE in == ScalarInput(l)
           bl == Scalar(l)!BlockLen(0)
<1>1. Scalar(l)!Padded(0)[k] = IF k <= bl THEN in[64 * 0 + k] ELSE 0
  BY DEF Scalar!Padded, ScalarInput
<1>2. 64 * 0 + k = k /\ 0 \in U8 BY Bytes
<1>3. CASE call.kind = "prf"
  <2> DEFINE array == get_domain_elements_4(call)
  <2>1. FirstBlocks(call, step, values)[l][k] = IF k <= Len(array[l]) THEN array[l][k] ELSE 0
    <3>1. FirstBlocks(call, step, values) = PaddedBlocks(array) BY <1>3 DEF FirstBlocks
    <3> HIDE DEF array
    <3> QED BY <3>1 DEF PaddedBlocks, BLOCK_LEN
  <2>2. /\ bl \in Nat /\ Len(array[l]) = bl /\ \A i \in 1..bl : in[i] \in U8 /\ array[l][i] = in[i]
    BY <1>3, PrfBlock, DomainInputLane
  <2> HIDE DEF array, in, bl
  <2>3. k \in Nat /\ k >= 1 OBVIOUS
  <2>4. CASE k <= bl
    <3>1. k \in 1..bl BY <2>2, <2>3, <2>4
    <3>2. in[k] \in U8 /\ array[l][k] = in[k] BY <2>2, <3>1
    <3>3. FirstBlocks(call, step, values)[l][k] = in[k] BY <2>1, <2>2, <2>4, <3>2
    <3>4. Scalar(l)!Padded(0)[k] = in[k] BY <1>1, <1>2, <2>4
    <3> QED BY <3>2, <3>3, <3>4
  <2>5. CASE ~(k <= bl)
    <3>1. FirstBlocks(call, step, values)[l][k] = 0 BY <2>1, <2>2, <2>5
    <3>2. Scalar(l)!Padded(0)[k] = 0 BY <1>1, <2>5
    <3> QED BY <1>2, <3>1, <3>2
  <2> QED BY <2>4, <2>5
<1>4. CASE call.kind = "chain"
  <2> DEFINE array == chain_4_inputs(call, step, values)
  <2>1. bl = 64 /\ \A i \in 1..70 : in[i] \in U8 /\ array[l][i] = in[i]
    BY <1>4, ChainBlocks, ChainInputLane
  <2>2. FirstBlocks(call, step, values)[l] = SubSeq(array[l], 1, 64)
    <3>1. FirstBlocks(call, step, values) = [lane \in Lanes |-> SubSeq(array[lane], 1, BLOCK_LEN)]
      BY <1>4 DEF FirstBlocks
    <3> HIDE DEF array
    <3> QED BY <3>1 DEF BLOCK_LEN
  <2> HIDE DEF array, in, bl
  <2>3. \A i \in 1..64 : array[l][i] \in U8 BY <2>1
  <2>4. SubSeq(array[l], 1, 64)[k] = array[l][1 + k - 1] BY <2>3, SubSeqProperties
  <2>5. 1 + k - 1 = k /\ k \in 1..70 OBVIOUS
  <2> QED BY <1>1, <1>2, <2>1, <2>2, <2>4, <2>5
<1> QED BY <1>3, <1>4, CallTypes

LEMMA LastBlocksLane ==
  ASSUME CallInv, call.kind = "chain", NEW l \in Lanes, NEW k \in 1..64
  PROVE  LET arrays == chain_4_inputs(call, step, values)
             blocks == PaddedBlocks([lane \in Lanes |-> SubSeq(arrays[lane], BLOCK_LEN + 1, 70)])
         IN  blocks[l][k] \in U8 /\ blocks[l][k] = Scalar(l)!Padded(1)[k]
<1> DEFINE in == ScalarInput(l)
           array == chain_4_inputs(call, step, values)
           tail == [lane \in Lanes |-> SubSeq(array[lane], BLOCK_LEN + 1, 70)]
           blocks == PaddedBlocks(tail)
           bl == Scalar(l)!BlockLen(1)
<1>1. Scalar(l)!Padded(1)[k] = IF k <= bl THEN in[64 * 1 + k] ELSE 0
  BY DEF Scalar!Padded, ScalarInput
<1>2. bl = 6 BY ChainBlocks
<1>3. \A i \in 1..70 : in[i] \in U8 /\ array[l][i] = in[i] BY ChainInputLane
<1> HIDE DEF array, in, bl
<1>4. tail[l] = SubSeq(array[l], 65, 70) BY DEF BLOCK_LEN
<1> HIDE DEF tail
<1>5. blocks[l][k] = IF k <= Len(tail[l]) THEN tail[l][k] ELSE 0 BY DEF PaddedBlocks, BLOCK_LEN
<1> HIDE DEF blocks
<1>6. \A i \in 65..70 : array[l][i] \in U8 BY <1>3
<1>7. Len(tail[l]) = 6 /\ \A i \in 1..6 : tail[l][i] = array[l][65 + i - 1]
  BY <1>4, <1>6, SubSeqProperties
<1>8. ASSUME k <= 6 PROVE blocks[l][k] \in U8 /\ blocks[l][k] = Scalar(l)!Padded(1)[k]
  <2>1. 65 + k - 1 = 64 * 1 + k /\ 64 * 1 + k \in 1..70 /\ k \in 1..6 BY <1>8
  <2>2. blocks[l][k] = array[l][65 + k - 1] BY <1>5, <1>7, <1>8, <2>1
  <2>3. Scalar(l)!Padded(1)[k] = in[64 * 1 + k] BY <1>1, <1>2, <1>8
  <2>4. in[64 * 1 + k] \in U8 /\ array[l][64 * 1 + k] = in[64 * 1 + k] BY <1>3, <2>1
  <2> QED BY <2>1, <2>2, <2>3, <2>4
<1>9. ASSUME ~(k <= 6) PROVE blocks[l][k] \in U8 /\ blocks[l][k] = Scalar(l)!Padded(1)[k]
  <2>1. blocks[l][k] = 0 BY <1>5, <1>7, <1>9
  <2>2. Scalar(l)!Padded(1)[k] = 0 BY <1>1, <1>2, <1>9
  <2>3. 0 \in U8 BY Bytes
  <2> QED BY <2>1, <2>2, <2>3
<1> QED BY <1>8, <1>9 DEF blocks, tail, array

-------------------------------------------------------------------------------
(* What a compression starts from, and what it gives.                         *)
LEMMA SameBytes ==
  ASSUME NEW a, NEW b, NEW i \in Nat, \A k \in 1..4 : a[i + k] = b[i + k]
  PROVE  FromBytes(a, i) = FromBytes(b, i)
  BY DEF FromBytes

LEMMA WordsLane ==
  ASSUME NEW blocks, \A l \in Lanes : \A k \in 1..64 : blocks[l][k] \in U8
  PROVE  words4(blocks) \in [1..16 -> Vectors]
<1>1. ASSUME NEW l \in Lanes, NEW k \in 1..16 PROVE FromBytes(blocks[l], 4 * (k - 1)) \in U32
  <2>1. 4 * (k - 1) \in Nat /\ \A j \in 1..4 : 4 * (k - 1) + j \in 1..64 OBVIOUS
  <2> QED BY <2>1, BytesWord
<1> QED BY <1>1 DEF words4, Vectors

LEMMA MessageLane ==
  ASSUME NEW blocks, NEW msg, msg = words4(blocks), NEW l \in Lanes, NEW i,
         \A k \in 1..64 : blocks[l][k] = Scalar(l)!Padded(i)[k]
  PROVE  [k \in 1..16 |-> msg[MSG_SCHEDULE[1][k] + 1][l]] = Scalar(l)!Words(i)
<1> DEFINE bytes == Scalar(l)!Padded(i)
<1>1. Scalar(l)!Words(i) = [k \in 1..16 |-> FromBytes(bytes, 4 * (k - 1))]
  BY SameFromBytes DEF Scalar!Words
<1> HIDE DEF bytes
<1>2. ASSUME NEW k \in 1..16
      PROVE  msg[MSG_SCHEDULE[1][k] + 1][l] = FromBytes(bytes, 4 * (k - 1))
  <2>1. 4 * (k - 1) \in Nat /\ \A j \in 1..4 : 4 * (k - 1) + j \in 1..64 OBVIOUS
  <2>2. FromBytes(blocks[l], 4 * (k - 1)) = FromBytes(bytes, 4 * (k - 1))
    BY <2>1, SameBytes DEF bytes
  <2>3. MSG_SCHEDULE[1][k] + 1 = k BY FirstSchedule
  <2> QED BY <2>2, <2>3 DEF words4
<1> QED BY <1>1, <1>2

LEMMA SplatLane ==
  ASSUME NEW w \in U32
  PROVE  Splat(w) \in Vectors /\ \A l \in Lanes : Splat(w)[l] = w
  BY DEF Splat, Vectors, Lanes

LEMMA IVWords == IV[1] \in U32 /\ IV[2] \in U32 /\ IV[3] \in U32 /\ IV[4] \in U32
<1>1. /\ IsHalf(IV[1][1]) /\ IsHalf(IV[1][2]) /\ IsHalf(IV[2][1]) /\ IsHalf(IV[2][2])
      /\ IsHalf(IV[3][1]) /\ IsHalf(IV[3][2]) /\ IsHalf(IV[4][1]) /\ IsHalf(IV[4][2])
  BY DEF IV, IsHalf, Half16
<1>2. /\ IV[1] = <<IV[1][1], IV[1][2]>> /\ IV[2] = <<IV[2][1], IV[2][2]>>
      /\ IV[3] = <<IV[3][1], IV[3][2]>> /\ IV[4] = <<IV[4][1], IV[4][2]>>
  BY DEF IV
<1> QED BY <1>1, <1>2, HalvesOf

LEMMA LoadedLane ==
  ASSUME NEW chain \in [1..8 -> Vectors], NEW len, IsHalf(len), NEW flags, IsHalf(flags),
         NEW l \in Lanes, NEW i, Scalar(l)!BlockLen(i) = len, Scalar(l)!Flags(i) = flags,
         NEW c, \A k \in 1..8 : c[k] = chain[k][l]
  PROVE  /\ CompressState(chain, len, flags) \in States
         /\ LaneOf(CompressState(chain, len, flags), l) = Scalar(l)!Loaded(c, i)
<1> DEFINE zero == <<0, 0>>
           y == <<len, 0>>
           z == <<flags, 0>>
           rest == <<Splat(IV[1]), Splat(IV[2]), Splat(IV[3]), Splat(IV[4]),
                     Splat(zero), Splat(zero), Splat(y), Splat(z)>>
           t == CompressState(chain, len, flags)
<1>1. zero \in U32 /\ y \in U32 /\ z \in U32
  <2>1. IsHalf(0) BY DEF IsHalf, Half16
  <2> QED BY <2>1, HalvesOf
<1>2. t = Cat(chain, rest) BY DEF CompressState, Cat
<1>3. Scalar(l)!Loaded(c, i) =
        [k \in 1..16 |-> CASE k <= 8      -> c[k]
                           [] k \in 9..12  -> IV[k - 8]
                           [] k \in 13..14 -> zero
                           [] k = 15       -> y
                           [] k = 16       -> z]
  BY SameIV DEF Scalar!Loaded
<1> HIDE DEF zero, y, z, t
<1>4. rest \in Arrays(Vectors, 8) BY <1>1, IVWords, SplatLane DEF Arrays
<1>5. /\ rest[1][l] = IV[1] /\ rest[2][l] = IV[2] /\ rest[3][l] = IV[3] /\ rest[4][l] = IV[4]
      /\ rest[5][l] = zero /\ rest[6][l] = zero /\ rest[7][l] = y /\ rest[8][l] = z
  BY <1>1, IVWords, SplatLane
<1> HIDE DEF rest
<1>6. chain \in Arrays(Vectors, 8) BY DEF Arrays
<1>7. /\ t \in Arrays(Vectors, 8 + 8)
      /\ \A k \in 1..8 : t[k] = chain[k]
      /\ \A k \in 8 + 1..8 + 8 : t[k] = rest[k - 8]
  <2>1. Cat(chain, rest) \in Arrays(Vectors, 8 + 8) BY <1>4, <1>6, JoinedType
  <2>2. \A k \in 1..8 : Cat(chain, rest)[k] = chain[k] BY <1>4, <1>6, JoinedLeft
  <2>3. \A k \in 8 + 1..8 + 8 : Cat(chain, rest)[k] = rest[k - 8] BY <1>4, <1>6, JoinedRight
  <2> QED BY <1>2, <2>1, <2>2, <2>3
<1>8. t \in States BY <1>7 DEF States, Places, Arrays
<1> DEFINE C(k) == c[k]
           I(k) == IV[k - 8]
<1>9. ASSUME NEW k \in 1..16
      PROVE  t[k][l] = CASE k <= 8      -> C(k)
                         [] k \in 9..12  -> I(k)
                         [] k \in 13..14 -> zero
                         [] k = 15       -> y
                         [] k = 16       -> z
  <2>1. CASE k \in 1..8
    <3>1. t[k][l] = C(k) BY <1>7, <2>1
    <3> HIDE DEF C, I
    <3> QED BY <2>1, <3>1
  <2>2. CASE k \in 9..12
    <3>1. t[k][l] = rest[k - 8][l] BY <1>7, <2>2
    <3>2. k = 9 \/ k = 10 \/ k = 11 \/ k = 12 BY <2>2
    <3>3. t[k][l] = I(k) BY <1>5, <3>1, <3>2
    <3> HIDE DEF C, I
    <3> QED BY <2>2, <3>3
  <2>3. CASE k \in 13..14
    <3>1. t[k][l] = rest[k - 8][l] BY <1>7, <2>3
    <3>2. k = 13 \/ k = 14 BY <2>3
    <3>3. t[k][l] = zero BY <1>5, <3>1, <3>2
    <3> QED BY <2>3, <3>3
  <2>4. CASE k = 15
    <3>1. t[k][l] = y BY <1>5, <1>7, <2>4
    <3> QED BY <2>4, <3>1
  <2>5. CASE k = 16
    <3>1. t[k][l] = z BY <1>5, <1>7, <2>5
    <3> QED BY <2>5, <3>1
  <2> QED BY <2>1, <2>2, <2>3, <2>4, <2>5
<1>10. LaneOf(t, l) = [k \in 1..16 |-> t[k][l]] BY DEF LaneOf
<1> QED BY <1>3, <1>8, <1>9, <1>10 DEF t

LEMMA ChainingLane ==
  ASSUME state \in States
  PROVE  /\ ChainingValues \in [1..8 -> Vectors]
         /\ \A l \in Lanes : \A k \in 1..8 :
              ChainingValues[k][l] = Scalar(l)!Output(LaneOf(state, l))[k]
<1>1. ASSUME NEW k \in 1..8
      PROVE  ChainingValues[k] \in Vectors
             /\ \A l \in Lanes : ChainingValues[k][l] = Xor2(state[k][l], state[k + 8][l])
  <2>1. k \in Places /\ k + 8 \in Places BY DEF Places
  <2>2. state[k] \in Vectors /\ state[k + 8] \in Vectors BY <2>1 DEF States
  <2> QED BY <2>2, XorLane DEF ChainingValues
<1>2. ASSUME NEW l \in Lanes, NEW k \in 1..8
      PROVE  Scalar(l)!Output(LaneOf(state, l))[k] = Xor2(state[k][l], state[k + 8][l])
  <2> DEFINE u == LaneOf(state, l)
  <2>1. u[k] = state[k][l] /\ u[k + 8] = state[k + 8][l] BY DEF LaneOf
  <2> HIDE DEF u
  <2>2. Scalar(l)!Output(u)[k] = Xor2(u[k], u[k + 8]) BY SameXor DEF Scalar!Output
  <2> QED BY <2>1, <2>2 DEF u
<1>3. ChainingValues = [k \in 1..8 |-> ChainingValues[k]] BY DEF ChainingValues
<1> QED BY <1>1, <1>2, <1>3

LEMMA DigestLane ==
  ASSUME state \in States
  PROVE  /\ Transposed(ChainingValues) \in [Lanes -> Hash]
         /\ \A l \in Lanes : Transposed(ChainingValues)[l] = Scalar(l)!Digest
<1> DEFINE out(l) == [word \in 1..8 |-> ChainingValues[word][l]]
<1>1. ASSUME NEW l \in Lanes PROVE out(l) \in [1..8 -> U32]
  BY ChainingLane DEF Vectors
<1>2. ASSUME NEW l \in Lanes, NEW words \in [1..8 -> U32] PROVE BytesOf(words) \in Hash
  <2>1. Len(words) = 8 BY ArrayLen
  <2>2. ASSUME NEW k \in 1..32 PROVE ToBytes(words[1 + ((k - 1) \div 4)])[1 + ((k - 1) % 4)] \in U8
    <3> DEFINE i == 1 + ((k - 1) \div 4)
               j == 1 + ((k - 1) % 4)
    <3>1. i \in 1..8 /\ j \in 1..4 OBVIOUS
    <3> HIDE DEF i, j
    <3>2. words[i] \in U32 BY <3>1
    <3>3. ToBytes(words[i]) \in [1..4 -> U8] BY <3>2, WordBytes
    <3>4. ToBytes(words[i])[j] \in U8 BY <3>1, <3>3
    <3> QED BY <3>4 DEF i, j
  <2>3. 4 * 8 = 32 OBVIOUS
  <2> QED BY <2>1, <2>2, <2>3 DEF BytesOf, Hash
<1>3. ASSUME NEW l \in Lanes PROVE out(l) = Scalar(l)!Output(LaneOf(state, l))
  <2> DEFINE u == LaneOf(state, l)
  <2>1. \A k \in 1..8 : out(l)[k] = Scalar(l)!Output(u)[k] BY ChainingLane
  <2> HIDE DEF u
  <2>2. Scalar(l)!Output(u) = [k \in 1..8 |-> Scalar(l)!Output(u)[k]] BY DEF Scalar!Output
  <2> QED BY <2>1, <2>2 DEF u
<1>4. \A l \in Lanes : Scalar(l)!Digest = BytesOf(Scalar(l)!Output(LaneOf(state, l)))
  BY SameBytesOf DEF Scalar!Digest, LaneOf
<1>5. Transposed(ChainingValues) = [l \in Lanes |-> BytesOf(out(l))] BY DEF Transposed
<1> HIDE DEF out
<1> QED BY <1>1, <1>2, <1>3, <1>4, <1>5

(* The words of the key of a lane's hash.                                     *)
KeyWords == [word \in 1..8 |-> FromBytes(ScalarKey, 4 * (word - 1))]

LEMMA KeyLane ==
  ASSUME CallInv
  PROVE  /\ Splatted(ScalarKey) \in [1..8 -> Vectors]
         /\ \A l \in Lanes : \A k \in 1..8 : KeyWords[k] = Splatted(ScalarKey)[k][l]
<1> USE DEF KeyWords
<1>1. ScalarKey \in Hash
  <2>1. 1 \in Lanes BY DEF Lanes
  <2> QED BY <2>1, CallTypes, ContextKeyAssumption DEF ScalarKey
<1> DEFINE w(k) == FromBytes(ScalarKey, 4 * (k - 1))
<1>2. ASSUME NEW k \in 1..8 PROVE w(k) \in U32
  <2>1. 4 * (k - 1) \in Nat /\ \A j \in 1..4 : 4 * (k - 1) + j \in 1..32 OBVIOUS
  <2> QED BY <1>1, <2>1, BytesWord DEF Hash
<1> HIDE DEF w
<1>3. \A k \in 1..8 : Splat(w(k)) \in Vectors /\ \A l \in Lanes : Splat(w(k))[l] = w(k)
  BY <1>2, SplatLane
<1> QED BY <1>3 DEF Splatted, w

LEMMA FirstStateLane ==
  ASSUME CallInv, NEW l \in Lanes
  PROVE  /\ FirstState(call) \in States
         /\ LaneOf(FirstState(call), l) = Scalar(l)!Loaded(KeyWords, 0)
<1> DEFINE len == IF call.kind = "prf" THEN Len(CHAIN_START_TAG) + 12 ELSE 64
           flags == IF call.kind = "prf" THEN 27 ELSE 65
<1>1. FirstState(call) = CompressState(Splatted(ScalarKey), len, flags)
  <2>1. CASE call.kind = "prf"
    <3>1. 1 \in Lanes BY DEF Lanes
    <3>2. Len(get_domain_elements_4(call)[1]) = len BY <2>1, <3>1, DomainInputLane
    <3>3. KEYED_HASH + CHUNK_START + CHUNK_END + ROOT = flags
      BY <2>1 DEF KEYED_HASH, CHUNK_START, CHUNK_END, ROOT
    <3> HIDE DEF len, flags
    <3> QED BY <2>1, <3>2, <3>3 DEF FirstState, ScalarKey
  <2>2. CASE call.kind # "prf"
    <3>1. DERIVE_KEY_MATERIAL + CHUNK_START = flags
      BY <2>2 DEF DERIVE_KEY_MATERIAL, CHUNK_START
    <3> QED BY <2>2, <3>1 DEF FirstState, ScalarKey, BLOCK_LEN
  <2> QED BY <2>1, <2>2
<1>2. IsHalf(len) /\ IsHalf(flags)
  <2>1. Len(CHAIN_START_TAG) + 12 \in Nat /\ Len(CHAIN_START_TAG) + 12 <= 64
    BY TagAssumption, LenProperties
  <2> QED BY <2>1 DEF IsHalf, Half16
<1>3. Scalar(l)!BlockLen(0) = len BY CallTypes, PrfBlock, ChainBlocks
<1>4. Scalar(l)!Flags(0) = flags
  <2>1. CASE call.kind = "prf"
    <3>1. Scalar(l)!LastBlock(0) BY <2>1, PrfBlock
    <3>2. ScalarHash(l).mode = 16 BY <2>1, ScalarHashParts
    <3> QED BY <2>1, <3>1, <3>2
            DEF Scalar!Flags, Scalar!ChunkStart, Scalar!ChunkEnd, Scalar!RootFlag
  <2>2. CASE call.kind = "chain"
    <3>1. ~Scalar(l)!LastBlock(0) BY <2>2, ChainBlocks
    <3>2. ScalarHash(l).mode = 64 BY <2>2, ScalarHashParts
    <3> QED BY <2>2, <3>1, <3>2
            DEF Scalar!Flags, Scalar!ChunkStart, Scalar!ChunkEnd, Scalar!RootFlag
  <2> QED BY <2>1, <2>2, CallTypes
<1> HIDE DEF len, flags
<1> QED BY <1>1, <1>2, <1>3, <1>4, KeyLane, LoadedLane

-------------------------------------------------------------------------------
(* The steps.                                                                 *)

(* The state is typed, and every compression starts from what is given.       *)
SimdInv ==
  /\ CallInv
  /\ block \in 0..Blocks - 1
  /\ round \in 0..7
  /\ state \in States
  /\ message \in [1..16 -> Vectors]

(* A step of the call is to begin.                                            *)
Fresh ==
  /\ block = 0
  /\ round = 0
  /\ message = words4(FirstBlocks(call, step, values))
  /\ state = FirstState(call)

LEMMA FreshInv == CallInv /\ Fresh => SimdInv
<1> SUFFICES ASSUME CallInv, Fresh PROVE SimdInv OBVIOUS
<1>1. block \in 0..Blocks - 1 /\ round \in 0..7 BY DEF Fresh, Blocks
<1>2. 1 \in Lanes BY DEF Lanes
<1>3. state \in States BY <1>2, FirstStateLane DEF Fresh
<1>4. message \in [1..16 -> Vectors]
  <2> DEFINE blocks == FirstBlocks(call, step, values)
  <2>1. \A l \in Lanes : \A k \in 1..64 : blocks[l][k] \in U8 BY FirstBlocksLane
  <2>2. message = words4(blocks) BY DEF Fresh
  <2> HIDE DEF blocks
  <2> QED BY <2>1, <2>2, WordsLane
<1> QED BY <1>1, <1>3, <1>4 DEF SimdInv

(* The words of a lane, before a round.                                       *)
RoundWords(l) ==
  [i \in 1..16 |-> Scheduled(MSG_SCHEDULE[IF round < 7 THEN round + 1 ELSE 7], i)[l]]

AllStarted == \A l \in Lanes : Scalar(l)!Started

LEMMA FreshStarted == CallInv /\ Fresh => AllStarted
<1> SUFFICES ASSUME CallInv, Fresh, NEW l \in Lanes PROVE Scalar(l)!Started
  BY DEF AllStarted
<1>1. block = 0 /\ round = 0 BY DEF Fresh
<1>2. LaneOf(state, l) = Scalar(l)!Loaded(KeyWords, 0) BY FirstStateLane DEF Fresh
<1>3. RoundWords(l) = Scalar(l)!Words(0)
  <2> DEFINE blocks == FirstBlocks(call, step, values)
             w == [k \in 1..16 |-> message[MSG_SCHEDULE[1][k] + 1][l]]
  <2>1. \A k \in 1..64 : blocks[l][k] = Scalar(l)!Padded(0)[k] BY FirstBlocksLane
  <2>2. message = words4(blocks) BY DEF Fresh
  <2> HIDE DEF blocks
  <2>3. w = Scalar(l)!Words(0) BY <2>1, <2>2, MessageLane
  <2>4. RoundWords(l) = w
    <3>1. (IF round < 7 THEN round + 1 ELSE 7) = 1 BY <1>1
    <3> QED BY <3>1 DEF RoundWords, Scheduled
  <2> QED BY <2>3, <2>4
<1>4. [word \in 1..8 |-> FromBytes(ScalarHash(l).key, 4 * (word - 1))] = KeyWords
  BY ScalarHashParts DEF KeyWords
<1> QED BY <1>1, <1>2, <1>3, <1>4 DEF Scalar!Started, LaneOf, RoundWords

LEMMA InitFresh == Init => CallInv /\ Fresh
<1> SUFFICES ASSUME Init PROVE CallInv /\ Fresh OBVIOUS
<1>1. call \in Calls /\ step = 0 BY DEF Init
<1>2. CASE call.kind = "prf"
  <2>1. call.kind # "chain" BY <1>2
  <2>2. 0 \in 0..Steps - 1 BY <2>1 DEF Steps
  <2> QED BY <1>1, <2>1, <2>2 DEF Init, CallInv, Fresh
<1>3. CASE call.kind = "chain"
  <2>1. call.steps \in 1..(255 - call.start_position) /\ call.start_position \in 0..254
        /\ call.starts \in [Lanes -> Hash]
    BY <1>1, <1>3, CallsAssumption
  <2>2. 0 \in 0..Steps - 1 BY <1>3, <2>1 DEF Steps
  <2> QED BY <1>1, <1>3, <2>1, <2>2 DEF Init, CallInv, Fresh
<1> QED BY <1>1, <1>2, <1>3, CallsAssumption

LEMMA NextStepFresh == SimdInv /\ NextStep => (CallInv /\ Fresh)'
<1> SUFFICES ASSUME SimdInv, NextStep PROVE (CallInv /\ Fresh)' OBVIOUS
<1>1. /\ call' = call /\ step' = step + 1 /\ block' = 0 /\ round' = 0
      /\ values' = Transposed(ChainingValues)
  BY DEF NextStep
<1>2. message' = words4(FirstBlocks(call, step + 1, values')) /\ state' = FirstState(call)
  BY DEF NextStep
<1>3. Fresh' BY <1>1, <1>2 DEF Fresh
<1>4. call \in Calls /\ step \in 0..Steps - 1 /\ step + 1 < Steps
  BY DEF SimdInv, CallInv, NextStep
<1>5. Steps \in Nat
  <2>1. 1 \in Lanes BY DEF Lanes
  <2> QED BY <2>1, CallTypes DEF Steps, SimdInv
<1>6. Steps' = Steps BY <1>1 DEF Steps
<1>7. step' \in 0..Steps' - 1 BY <1>1, <1>4, <1>5, <1>6
<1>8. values' \in [Lanes -> Hash] BY <1>1, DigestLane DEF SimdInv
<1> QED BY <1>1, <1>3, <1>4, <1>7, <1>8 DEF CallInv

(* What the hash of a lane starts from is fixed by the call and its step.     *)
LEMMA SameHash ==
  ASSUME call' = call, step' = step, values' = values, NEW l
  PROVE  ScalarHash(l)' = ScalarHash(l)
  BY DEF ScalarHash

LEMMA RoundLane ==
  ASSUME SimdInv, Round4, NEW l \in Lanes
  PROVE  state' \in States /\ Scalar(l)!Round
<1>1. /\ round \in 0..6 /\ round' = round + 1 /\ block' = block
      /\ state' = Rounded(state, MSG_SCHEDULE[round + 1])
      /\ call' = call /\ step' = step /\ values' = values /\ message' = message
  BY DEF SimdInv, Round4
<1>2. state \in States /\ message \in [1..16 -> Vectors] BY DEF SimdInv
<1> DEFINE r == round + 1
           w == RoundWords(l)
<1>3. r \in 1..7 /\ MSG_SCHEDULE[r] \in Schedules BY <1>1, ScheduleType
<1>4. \A i \in 1..16 : w[i] = Scheduled(MSG_SCHEDULE[r], i)[l]
  <2>1. (IF round < 7 THEN round + 1 ELSE 7) = r BY <1>1
  <2> HIDE DEF r
  <2> QED BY <2>1 DEF RoundWords
<1>5. /\ Rounded(state, MSG_SCHEDULE[r]) \in States
      /\ LaneOf(Rounded(state, MSG_SCHEDULE[r]), l) = Scalar(l)!Mixed(LaneOf(state, l), w)
  <2> HIDE DEF r, w
  <2> QED BY <1>2, <1>3, <1>4, RoundedLane
<1>6. w' = IF round < 6 THEN Scalar(l)!Permuted(w) ELSE w
  <2>1. CASE round < 6
    <3>1. r \in 1..6 /\ (IF round' < 7 THEN round' + 1 ELSE 7) = r + 1 BY <1>1, <2>1
    <3>2. w' = [i \in 1..16 |-> message[MSG_SCHEDULE[r + 1][i] + 1][l]]
      <4> HIDE DEF r
      <4> QED BY <1>1, <3>1 DEF RoundWords, Scheduled
    <3> DEFINE pi == Scalar(l)!Permutation
    <3>3. \A i \in 1..16 : pi[i] \in 1..16 /\ pi[i] = Scalar(1)!Permutation[i]
      BY DEF Scalar!Permutation
    <3>4. Scalar(l)!Permuted(w) = [i \in 1..16 |-> w[pi[i]]] BY DEF Scalar!Permuted
    <3> HIDE DEF pi, w, r
    <3>5. ASSUME NEW i \in 1..16 PROVE message[MSG_SCHEDULE[r + 1][i] + 1][l] = w[pi[i]]
      <4>1. MSG_SCHEDULE[r + 1][i] = MSG_SCHEDULE[r][pi[i]] BY <3>1, <3>3, ScheduleSteps
      <4>2. w[pi[i]] = message[MSG_SCHEDULE[r][pi[i]] + 1][l] BY <1>4, <3>3 DEF Scheduled
      <4> QED BY <4>1, <4>2
    <3> QED BY <2>1, <3>2, <3>4, <3>5
  <2>2. CASE ~(round < 6)
    <3>1. /\ (IF round' < 7 THEN round' + 1 ELSE 7) = 7
          /\ (IF round < 7 THEN round + 1 ELSE 7) = 7
      BY <1>1, <2>2
    <3> QED BY <1>1, <2>2, <3>1 DEF RoundWords, Scheduled
  <2> QED BY <2>1, <2>2
<1>7. ScalarHash(l)' = ScalarHash(l)
  BY <1>1, SameHash
<1>8. LaneOf(state, l)' = Scalar(l)!Mixed(LaneOf(state, l), w)
  BY <1>1, <1>5 DEF LaneOf
<1> QED BY <1>1, <1>5, <1>6, <1>7, <1>8 DEF Scalar!Round, LaneOf, RoundWords

LEMMA LastBlocksStep ==
  ASSUME SimdInv, LastBlocks, NEW l \in Lanes
  PROVE  /\ state' \in States /\ message' \in [1..16 -> Vectors]
         /\ Scalar(l)!NextBlock
<1> DEFINE arrays == chain_4_inputs(call, step, values)
           blocks == PaddedBlocks([lane \in Lanes |-> SubSeq(arrays[lane], BLOCK_LEN + 1, 70)])
<1>1. /\ round = 7 /\ block + 1 < Blocks /\ block' = block + 1 /\ round' = 0
      /\ call' = call /\ step' = step /\ values' = values
      /\ message' = words4(blocks)
      /\ state' = CompressState(ChainingValues, 6, DERIVE_KEY_MATERIAL + CHUNK_END + ROOT)
  BY DEF LastBlocks
<1>2. CallInv /\ state \in States /\ block \in 0..Blocks - 1 BY DEF SimdInv
<1>3. call.kind = "chain" /\ block = 0 BY <1>1, <1>2 DEF Blocks
<1>4. \A lane \in Lanes : \A k \in 1..64 :
        blocks[lane][k] \in U8 /\ blocks[lane][k] = Scalar(lane)!Padded(1)[k]
  BY <1>2, <1>3, LastBlocksLane
<1> HIDE DEF blocks
<1>5. message' \in [1..16 -> Vectors] BY <1>1, <1>4, WordsLane
<1>6. RoundWords(l)' = Scalar(l)!Words(1)
  <2> DEFINE w == [k \in 1..16 |-> message'[MSG_SCHEDULE[1][k] + 1][l]]
  <2>1. w = Scalar(l)!Words(1) BY <1>1, <1>4, MessageLane
  <2>2. (IF round' < 7 THEN round' + 1 ELSE 7) = 1 BY <1>1
  <2>3. RoundWords(l)' = w BY <2>2 DEF RoundWords, Scheduled
  <2> QED BY <2>1, <2>3
<1>7. /\ ~Scalar(l)!LastBlock(0) /\ Scalar(l)!LastBlock(1) /\ Scalar(l)!BlockLen(1) = 6
  BY <1>2, <1>3, ChainBlocks
<1>8. Scalar(l)!Flags(1) = 74
  <2>1. ScalarHash(l).mode = 64 BY <1>3, ScalarHashParts
  <2> QED BY <1>7, <2>1 DEF Scalar!Flags, Scalar!ChunkStart, Scalar!ChunkEnd, Scalar!RootFlag
<1>9. DERIVE_KEY_MATERIAL + CHUNK_END + ROOT = 74
  BY DEF DERIVE_KEY_MATERIAL, CHUNK_END, ROOT
<1>10. /\ state' \in States
       /\ LaneOf(state', l) = Scalar(l)!Loaded(Scalar(l)!Output(LaneOf(state, l)), 1)
  <2> DEFINE c == Scalar(l)!Output(LaneOf(state, l))
  <2>1. ChainingValues \in [1..8 -> Vectors] /\ \A k \in 1..8 : c[k] = ChainingValues[k][l]
    BY <1>2, ChainingLane
  <2>2. IsHalf(6) /\ IsHalf(74) BY DEF IsHalf, Half16
  <2> HIDE DEF c
  <2>3. /\ CompressState(ChainingValues, 6, 74) \in States
        /\ LaneOf(CompressState(ChainingValues, 6, 74), l) = Scalar(l)!Loaded(c, 1)
    BY <1>7, <1>8, <2>1, <2>2, LoadedLane
  <2> QED BY <1>1, <1>9, <2>3 DEF c
<1>11. ScalarHash(l)' = ScalarHash(l)
  BY <1>1, SameHash
<1>12. LaneOf(state, l)' = LaneOf(state', l) BY DEF LaneOf
<1>13. 0 + 1 = 1 OBVIOUS
<1> QED
  BY <1>1, <1>3, <1>5, <1>6, <1>7, <1>10, <1>11, <1>12, <1>13
     DEF Scalar!NextBlock, LaneOf, RoundWords

LEMMA HashedFinished ==
  ASSUME SimdInv, Hashed, NEW l \in Lanes
  PROVE  Scalar(l)!Finished
<1>1. CallInv /\ round = 7 /\ block + 1 = Blocks /\ block \in 0..Blocks - 1
  BY DEF SimdInv, Hashed
<1>2. CASE call.kind = "prf"
  <2>1. call.kind # "chain" BY <1>2
  <2>2. block = 0 BY <1>1, <2>1 DEF Blocks
  <2> QED BY <1>1, <1>2, <2>2, PrfBlock DEF Scalar!Finished
<1>3. CASE call.kind = "chain"
  <2>1. block = 1 BY <1>1, <1>3 DEF Blocks
  <2> QED BY <1>1, <1>3, <2>1, ChainBlocks DEF Scalar!Finished
<1> QED BY <1>1, <1>2, <1>3, CallTypes

(* What a step of the call is to a lane.                                      *)
LaneStep == \A lane \in Lanes : [Scalar(lane)!Next]_(Scalar(lane)!vars)

LEMMA FreshPrime == (CallInv /\ Fresh)' => SimdInv' /\ AllStarted'
<1>1. CallInv /\ Fresh => SimdInv /\ AllStarted BY FreshInv, FreshStarted
<1> QED BY <1>1, PTL

LEMMA StepLane == SimdInv /\ [Next]_vars => SimdInv' /\ LaneStep
<1> SUFFICES ASSUME SimdInv, [Next]_vars PROVE SimdInv' /\ LaneStep OBVIOUS
<1>1. CASE Round4
  <2>1. 1 \in Lanes BY DEF Lanes
  <2>2. /\ round' \in 0..7 /\ block' = block /\ message' = message
        /\ call' = call /\ step' = step /\ values' = values
    BY <1>1 DEF SimdInv, Round4
  <2>3. SimdInv' BY <1>1, <2>1, <2>2, RoundLane DEF SimdInv, CallInv, Steps, Blocks
  <2>4. \A l \in Lanes : Scalar(l)!Next BY <1>1, RoundLane DEF Scalar!Next
  <2> QED BY <2>3, <2>4 DEF LaneStep
<1>2. CASE LastBlocks
  <2>1. 1 \in Lanes BY DEF Lanes
  <2>2. /\ round' = 0 /\ block' = block + 1 /\ block + 1 < Blocks
        /\ call' = call /\ step' = step /\ values' = values
    BY <1>2 DEF LastBlocks
  <2>3. block' \in 0..Blocks' - 1 BY <2>2 DEF SimdInv, Blocks
  <2>4. SimdInv' BY <1>2, <2>1, <2>2, <2>3, LastBlocksStep DEF SimdInv, CallInv, Steps
  <2>5. \A l \in Lanes : Scalar(l)!Next BY <1>2, LastBlocksStep DEF Scalar!Next
  <2> QED BY <2>4, <2>5 DEF LaneStep
<1>3. CASE NextStep
  <2>1. SimdInv' /\ AllStarted' BY <1>3, NextStepFresh, FreshPrime
  <2>2. \A l \in Lanes : Scalar(l)!Finished BY <1>3, HashedFinished DEF NextStep
  <2>3. \A l \in Lanes : Scalar(l)!Next
    BY <2>1, <2>2 DEF AllStarted, Scalar!Next, Scalar!NextHash
  <2> QED BY <2>1, <2>3 DEF LaneStep
<1>4. CASE Return \/ UNCHANGED vars
  <2>1. /\ call' = call /\ step' = step /\ values' = values /\ block' = block
        /\ round' = round /\ state' = state /\ message' = message
    BY <1>4 DEF Return, vars
  <2>2. SimdInv' BY <2>1 DEF SimdInv, CallInv, Steps, Blocks
  <2>3. ASSUME NEW l \in Lanes PROVE UNCHANGED Scalar(l)!vars
    <3>1. ScalarHash(l)' = ScalarHash(l)
      BY <2>1, SameHash
    <3>2. LaneOf(state, l)' = LaneOf(state, l) BY <2>1 DEF LaneOf
    <3>3. RoundWords(l)' = RoundWords(l) BY <2>1 DEF RoundWords, Scheduled
    <3> QED BY <2>1, <3>1, <3>2, <3>3 DEF Scalar!vars, LaneOf, RoundWords
  <2> QED BY <2>2, <2>3 DEF LaneStep
<1> QED BY <1>1, <1>2, <1>3, <1>4 DEF Next

(* All the vectors hold 32-bit words, the values of a chain are hashes, and   *)
(* the counters stay in their bounds, whatever the calls.                     *)
THEOREM SimdInvariant == Spec => []SimdInv
<1>1. Init => SimdInv BY InitFresh, FreshInv
<1>2. SimdInv /\ [Next]_vars => SimdInv' BY StepLane
<1> QED BY <1>1, <1>2, PTL DEF Spec

(* For every key, parameter, epoch, index, value and number of steps each     *)
(* lane of the helpers goes through the steps of the scalar hash of the bytes *)
(* the scalar functions feed it.                                              *)
THEOREM LanesAreScalarHolds == Spec => LanesAreScalar
<1>1. Init => \A lane \in Lanes : Scalar(lane)!Started
  BY InitFresh, FreshStarted DEF AllStarted
<1>2. SimdInv /\ [Next]_vars => [\A lane \in Lanes : [Scalar(lane)!Next]_(Scalar(lane)!vars)]_vars
  BY StepLane DEF LaneStep
<1> QED BY <1>1, <1>2, SimdInvariant, PTL DEF Spec, LanesAreScalar

(* What the helpers hand on and return are the scalar hashes, lane by lane.   *)
THEOREM DigestsAreScalarHolds == Spec => []DigestsAreScalar
<1>1. SimdInv => DigestsAreScalar BY DigestLane DEF SimdInv, DigestsAreScalar
<1> QED BY <1>1, SimdInvariant, PTL

-------------------------------------------------------------------------------
(* The transcripts.                                                           *)

LEMMA SameArray ==
  ASSUME NEW S, NEW n, NEW a, NEW b, n \in Nat, a \in Arrays(S, n), b \in Arrays(S, n),
         \A i \in 1..n : a[i] = b[i]
  PROVE  a = b
<1> DEFINE I == 1..n
<1>1. a \in [I -> S] /\ b \in [I -> S] /\ \A i \in I : a[i] = b[i] BY DEF Arrays
<1> HIDE DEF I
<1> QED BY <1>1

(* Pieces of the same length in front are equal, and so is what follows.      *)
LEMMA CatHead ==
  ASSUME NEW S, NEW a, NEW b, NEW c, NEW d, NEW m, NEW n, NEW k,
         m \in Nat, n \in Nat, k \in Nat, a \in Arrays(S, m), c \in Arrays(S, m),
         b \in Arrays(S, n), d \in Arrays(S, k), Cat(a, b) = Cat(c, d)
  PROVE  a = c
<1>1. \A i \in 1..m : Cat(a, b)[i] = a[i] BY JoinedLeft
<1>2. \A i \in 1..m : Cat(c, d)[i] = c[i] BY JoinedLeft
<1>3. \A i \in 1..m : a[i] = c[i] BY <1>1, <1>2
<1> QED BY <1>3 DEF Arrays

LEMMA CatTail ==
  ASSUME NEW S, NEW a, NEW b, NEW c, NEW d, NEW m, NEW n, NEW k,
         m \in Nat, n \in Nat, k \in Nat, a \in Arrays(S, m), c \in Arrays(S, m),
         b \in Arrays(S, n), d \in Arrays(S, k), Cat(a, b) = Cat(c, d)
  PROVE  n = k /\ b = d
<1>1. Cat(a, b) \in Arrays(S, m + n) /\ Cat(c, d) \in Arrays(S, m + k) BY JoinedType
<1>2. Len(Cat(a, b)) = m + n /\ Len(Cat(c, d)) = m + k BY <1>1, ArraysLen
<1>3. n = k BY <1>2
<1>4. \A i \in m + 1..m + n : Cat(a, b)[i] = b[i - m] BY JoinedRight
<1>5. \A i \in m + 1..m + k : Cat(c, d)[i] = d[i - m] BY JoinedRight
<1>6. ASSUME NEW i \in 1..n PROVE b[i] = d[i]
  <2>1. m + i \in m + 1..m + n /\ (m + i) - m = i OBVIOUS
  <2> QED BY <1>3, <1>4, <1>5, <2>1
<1> QED BY <1>3, <1>6 DEF Arrays

LEMMA SameWord ==
  ASSUME NEW v, NEW w, v \in U32, w \in U32, Le32(v) = Le32(w)
  PROVE  v = w
<1>1. /\ v[1] \in Nat /\ v[2] \in Nat /\ w[1] \in Nat /\ w[2] \in Nat
      /\ v = <<v[1], v[2]>> /\ w = <<w[1], w[2]>>
  BY Halves DEF IsHalf, U32
<1>2. /\ v[1] % 256 = w[1] % 256 /\ v[1] \div 256 = w[1] \div 256
      /\ v[2] % 256 = w[2] % 256 /\ v[2] \div 256 = w[2] \div 256
  BY DEF Le32, ToBytes
<1>3. \A x, y \in Nat : x % 256 = y % 256 /\ x \div 256 = y \div 256 => x = y OBVIOUS
<1>4. v[1] = w[1] /\ v[2] = w[2] BY <1>1, <1>2, <1>3
<1> QED BY <1>1, <1>4

LEMMA WordArray == ASSUME NEW w, w \in U32 PROVE Le32(w) \in Arrays(U8, 4)
  BY WordBytes DEF Le32, Arrays

LEMMA LongArray ==
  ASSUME NEW n, n \in U64
  PROVE  /\ Le64(n) = Cat(Le32(n[1]), Le32(n[2]))
         /\ Le64(n) \in Arrays(U8, 8)
<1>1. n[1] \in U32 /\ n[2] \in U32 BY DEF U64
<1>2. Le64(n) = Cat(Le32(n[1]), Le32(n[2])) BY DEF Le64, Le32, Cat
<1>3. Cat(Le32(n[1]), Le32(n[2])) \in Arrays(U8, 4 + 4) BY <1>1, WordArray, JoinedType
<1> QED BY <1>2, <1>3

LEMMA SameLong ==
  ASSUME NEW p, NEW q, p \in U64, q \in U64, Le64(p) = Le64(q)
  PROVE  p = q
<1>1. /\ p[1] \in U32 /\ p[2] \in U32 /\ q[1] \in U32 /\ q[2] \in U32
      /\ p = <<p[1], p[2]>> /\ q = <<q[1], q[2]>>
  BY DEF U64
<1>2. Cat(Le32(p[1]), Le32(p[2])) = Cat(Le32(q[1]), Le32(q[2])) BY LongArray
<1>3. /\ Le32(p[1]) \in Arrays(U8, 4) /\ Le32(p[2]) \in Arrays(U8, 4)
      /\ Le32(q[1]) \in Arrays(U8, 4) /\ Le32(q[2]) \in Arrays(U8, 4)
  BY <1>1, WordArray
<1>4. Le32(p[1]) = Le32(q[1]) /\ Le32(p[2]) = Le32(q[2]) BY <1>2, <1>3, CatHead, CatTail
<1> QED BY <1>1, <1>4, SameWord

(* The inputs of a tree hash lie next to each other, each 32 bytes long.      *)
LEMMA ConcatenatedArray ==
  ASSUME NEW hs, hs \in Seq(Hash)
  PROVE  Len(hs) \in Nat /\ Concatenated(hs) \in Arrays(U8, 32 * Len(hs))
<1>1. Len(hs) \in Nat /\ \A k \in 1..Len(hs) : hs[k] \in [1..32 -> U8]
  BY LenProperties DEF Hash
<1>2. ASSUME NEW i \in 1..32 * Len(hs)
      PROVE  hs[1 + ((i - 1) \div 32)][1 + ((i - 1) % 32)] \in U8
  <2>1. 1 + ((i - 1) \div 32) \in 1..Len(hs) /\ 1 + ((i - 1) % 32) \in 1..32 BY <1>1
  <2> QED BY <1>1, <2>1
<1> QED BY <1>1, <1>2 DEF Concatenated, Arrays

LEMMA ConcatenatedByte ==
  ASSUME NEW hs, hs \in Seq(Hash), NEW k \in 1..Len(hs), NEW j \in 1..32
  PROVE  Concatenated(hs)[32 * (k - 1) + j] = hs[k][j]
<1>1. Len(hs) \in Nat BY LenProperties
<1> DEFINE i == 32 * (k - 1) + j
<1>2. i \in 1..32 * Len(hs) BY <1>1
<1>3. (i - 1) \div 32 = k - 1 /\ (i - 1) % 32 = j - 1 BY <1>1
<1> HIDE DEF i
<1>4. 1 + ((i - 1) \div 32) = k /\ 1 + ((i - 1) % 32) = j BY <1>1, <1>3
<1>5. Concatenated(hs)[i] = hs[1 + ((i - 1) \div 32)][1 + ((i - 1) % 32)]
  BY <1>2 DEF Concatenated
<1>6. Concatenated(hs)[i] = hs[k][j] BY <1>4, <1>5
<1> QED BY <1>6 DEF i

LEMMA SameInputs ==
  ASSUME NEW p, NEW q, p \in Seq(Hash), q \in Seq(Hash), 32 * Len(p) = 32 * Len(q),
         Concatenated(p) = Concatenated(q)
  PROVE  p = q
<1>1. Len(p) = Len(q) /\ Len(p) \in Nat BY LenProperties
<1>2. ASSUME NEW k \in 1..Len(p) PROVE p[k] = q[k]
  <2>1. p[k] \in Arrays(U8, 32) /\ q[k] \in Arrays(U8, 32) BY <1>1, ElementOfSeq, HashArray
  <2>2. ASSUME NEW j \in 1..32 PROVE p[k][j] = q[k][j]
    <3>1. Concatenated(p)[32 * (k - 1) + j] = p[k][j] BY ConcatenatedByte
    <3>2. Concatenated(q)[32 * (k - 1) + j] = q[k][j] BY <1>1, ConcatenatedByte
    <3> QED BY <3>1, <3>2
  <2> QED BY <2>1, <2>2, SameArray
<1> QED BY <1>1, <1>2, SeqEqual

(* What is fed to the hasher in each use, as arrays one after the other.      *)
StartBytes(x) == Cat(Cat(CHAIN_START_TAG, Le32(x.epoch)), Le64(x.index))

RandomnessBytes(x) ==
  Cat(Cat(Cat(SIGNING_RANDOMNESS_TAG, Le32(x.epoch)), x.message), Le64(x.counter))

StepBytes(x) ==
  Cat(Cat(Cat(x.parameter, Le32(x.epoch)), <<x.chain_index, x.position>>), x.value)

TreeBytes(x) ==
  Cat(Cat(Cat(Cat(x.parameter, <<x.level>>), Le32(x.position)),
          Le32(CountWord(Len(x.inputs)))), Concatenated(x.inputs))

TreeKey(x) == IF x.level = 0 THEN TREE_LEAF_CONTEXT_KEY ELSE TREE_NODE_CONTEXT_KEY

MessageBytes(x) == Cat(Cat(Cat(x.parameter, Le32(x.epoch)), x.randomness), x.message)

LEMMA StartTranscript ==
  ASSUME NEW x, x \in ChainStartCalls
  PROVE  Transcript(x) = Keyed(x.key, StartBytes(x))
<1>1. x.use = "chain start" BY DEF ChainStartCalls
<1>2. Transcript(x) = get_domain_element(x.key, x.epoch, x.index)
  BY <1>1 DEF Transcript
<1> QED BY <1>2 DEF get_domain_element, StartBytes, Cat

LEMMA RandomnessTranscript ==
  ASSUME NEW x, x \in RandomnessCalls
  PROVE  Transcript(x) = Keyed(x.key, RandomnessBytes(x))
<1>1. x.use = "randomness" BY DEF RandomnessCalls
<1>2. Transcript(x) = get_randomness(x.key, x.epoch, x.message, x.counter)
  BY <1>1 DEF Transcript
<1> QED BY <1>2 DEF get_randomness, RandomnessBytes, Cat

LEMMA StepTranscript ==
  ASSUME NEW x, x \in ChainStepCalls
  PROVE  Transcript(x) = Derived(CHAIN_CONTEXT_KEY, StepBytes(x))
<1>1. x.use = "chain step" BY DEF ChainStepCalls
<1>2. Transcript(x) = ChainStep(x.parameter, x.epoch, x.chain_index, x.position, x.value)
  BY <1>1 DEF Transcript
<1> QED BY <1>2 DEF ChainStep, StepBytes, Cat

LEMMA TreeTranscript ==
  ASSUME NEW x, x \in TreeCalls
  PROVE  Transcript(x) = Derived(TreeKey(x), TreeBytes(x))
<1>1. x.use = "tree" BY DEF TreeCalls
<1>2. Transcript(x) = TreeHash(x.parameter, x.level, x.position, x.inputs)
  BY <1>1 DEF Transcript
<1> QED BY <1>2 DEF TreeHash, initialized_tree_hasher, TreeKey, TreeBytes, Cat

LEMMA MessageTranscript ==
  ASSUME NEW x, x \in MessageCalls
  PROVE  Transcript(x) = Derived(MESSAGE_CONTEXT_KEY, MessageBytes(x))
<1>1. x.use = "message" BY DEF MessageCalls
<1>2. Transcript(x) = MessageHash(x.parameter, x.epoch, x.randomness, x.message)
  BY <1>1 DEF Transcript
<1> QED BY <1>2 DEF MessageHash, MessageBytes, Cat

LEMMA SameKeyed ==
  ASSUME NEW k, NEW l, NEW a, NEW b, Keyed(k, a) = Keyed(l, b)
  PROVE  k = l /\ a = b
  BY DEF Keyed

LEMMA SameDerived ==
  ASSUME NEW k, NEW l, NEW a, NEW b, Derived(k, a) = Derived(l, b)
  PROVE  k = l /\ a = b
  BY DEF Derived

LEMMA ModesDiffer == ASSUME NEW k, NEW l, NEW a, NEW b PROVE Keyed(k, a) # Derived(l, b)
  BY DEF Keyed, Derived, KEYED_HASH, DERIVE_KEY_MATERIAL

LEMMA ChainStartSeparate ==
  ASSUME NEW c, NEW d, c \in ChainStartCalls, d \in ChainStartCalls, Transcript(c) = Transcript(d)
  PROVE  c = d
<1> DEFINE T == Len(CHAIN_START_TAG)
           te(x) == Cat(CHAIN_START_TAG, Le32(x.epoch))
<1>1. T \in Nat /\ CHAIN_START_TAG \in Arrays(U8, T) BY TagAssumption, SeqArray
<1>2. /\ c.epoch \in U32 /\ d.epoch \in U32 /\ c.index \in U64 /\ d.index \in U64
      /\ c = [use |-> "chain start", key |-> c.key, epoch |-> c.epoch, index |-> c.index]
      /\ d = [use |-> "chain start", key |-> d.key, epoch |-> d.epoch, index |-> d.index]
  BY DEF ChainStartCalls
<1>3. c.key = d.key /\ Cat(te(c), Le64(c.index)) = Cat(te(d), Le64(d.index))
  <2>1. Keyed(c.key, StartBytes(c)) = Keyed(d.key, StartBytes(d)) BY StartTranscript
  <2>2. c.key = d.key /\ StartBytes(c) = StartBytes(d) BY <2>1, SameKeyed
  <2> QED BY <2>2 DEF StartBytes
<1>4. Le32(c.epoch) \in Arrays(U8, 4) /\ Le32(d.epoch) \in Arrays(U8, 4) BY <1>2, WordArray
<1>5. Le64(c.index) \in Arrays(U8, 8) /\ Le64(d.index) \in Arrays(U8, 8) BY <1>2, LongArray
<1>6. te(c) \in Arrays(U8, T + 4) /\ te(d) \in Arrays(U8, T + 4) BY <1>1, <1>4, JoinedType
<1>7. T + 4 \in Nat BY <1>1
<1>8. te(c) = te(d) => Le32(c.epoch) = Le32(d.epoch) BY <1>1, <1>4, CatTail
<1> HIDE DEF T, te
<1>9. te(c) = te(d) /\ Le64(c.index) = Le64(d.index) BY <1>3, <1>5, <1>6, <1>7, CatHead, CatTail
<1>10. c.epoch = d.epoch /\ c.index = d.index BY <1>2, <1>8, <1>9, SameWord, SameLong
<1> QED BY <1>2, <1>3, <1>10

LEMMA RandomnessSeparate ==
  ASSUME NEW c, NEW d, c \in RandomnessCalls, d \in RandomnessCalls, Transcript(c) = Transcript(d)
  PROVE  c = d
<1> DEFINE T == Len(SIGNING_RANDOMNESS_TAG)
           te(x) == Cat(SIGNING_RANDOMNESS_TAG, Le32(x.epoch))
           tem(x) == Cat(te(x), x.message)
<1>1. T \in Nat /\ SIGNING_RANDOMNESS_TAG \in Arrays(U8, T) BY TagAssumption, SeqArray
<1>2. /\ c.epoch \in U32 /\ d.epoch \in U32 /\ c.counter \in U64 /\ d.counter \in U64
      /\ c.message \in Arrays(U8, 32) /\ d.message \in Arrays(U8, 32)
      /\ c = [use |-> "randomness", key |-> c.key, epoch |-> c.epoch, message |-> c.message,
              counter |-> c.counter]
      /\ d = [use |-> "randomness", key |-> d.key, epoch |-> d.epoch, message |-> d.message,
              counter |-> d.counter]
  BY DEF RandomnessCalls, Hash, Arrays
<1>3. c.key = d.key /\ Cat(tem(c), Le64(c.counter)) = Cat(tem(d), Le64(d.counter))
  <2>1. Keyed(c.key, RandomnessBytes(c)) = Keyed(d.key, RandomnessBytes(d))
    BY RandomnessTranscript
  <2>2. c.key = d.key /\ RandomnessBytes(c) = RandomnessBytes(d) BY <2>1, SameKeyed
  <2> QED BY <2>2 DEF RandomnessBytes
<1>4. Le32(c.epoch) \in Arrays(U8, 4) /\ Le32(d.epoch) \in Arrays(U8, 4) BY <1>2, WordArray
<1>5. Le64(c.counter) \in Arrays(U8, 8) /\ Le64(d.counter) \in Arrays(U8, 8) BY <1>2, LongArray
<1>6. te(c) \in Arrays(U8, T + 4) /\ te(d) \in Arrays(U8, T + 4) BY <1>1, <1>4, JoinedType
<1>7. T + 4 \in Nat /\ T + 4 + 32 \in Nat BY <1>1
<1>8. te(c) = te(d) => Le32(c.epoch) = Le32(d.epoch) BY <1>1, <1>4, CatTail
<1> HIDE DEF T, te
<1>9. tem(c) \in Arrays(U8, T + 4 + 32) /\ tem(d) \in Arrays(U8, T + 4 + 32)
  BY <1>2, <1>6, <1>7, JoinedType
<1>10. tem(c) = tem(d) => te(c) = te(d) /\ c.message = d.message
  BY <1>2, <1>6, <1>7, CatHead, CatTail
<1> HIDE DEF tem
<1>11. tem(c) = tem(d) /\ Le64(c.counter) = Le64(d.counter)
  BY <1>3, <1>5, <1>7, <1>9, CatHead, CatTail
<1>12. c.epoch = d.epoch /\ c.message = d.message /\ c.counter = d.counter
  BY <1>2, <1>8, <1>10, <1>11, SameWord, SameLong
<1> QED BY <1>2, <1>3, <1>12

LEMMA ChainStepSeparate ==
  ASSUME NEW c, NEW d, c \in ChainStepCalls, d \in ChainStepCalls, Transcript(c) = Transcript(d)
  PROVE  c = d
<1> DEFINE pe(x) == Cat(x.parameter, Le32(x.epoch))
           q(x) == <<x.chain_index, x.position>>
           peq(x) == Cat(pe(x), q(x))
<1>1. ASSUME NEW x, x \in ChainStepCalls
      PROVE  /\ x.epoch \in U32 /\ Le32(x.epoch) \in Arrays(U8, 4)
             /\ x.parameter \in Arrays(U8, 32) /\ x.value \in Arrays(U8, 32)
             /\ q(x) \in Arrays(U8, 2)
             /\ x = [use |-> "chain step", parameter |-> x.parameter, epoch |-> x.epoch,
                     chain_index |-> x.chain_index, position |-> x.position, value |-> x.value]
  <2>1. /\ x.epoch \in U32 /\ x.parameter \in Hash /\ x.value \in Hash
        /\ x.chain_index \in U8 /\ x.position \in U8
    BY <1>1 DEF ChainStepCalls
  <2>2. x = [use |-> "chain step", parameter |-> x.parameter, epoch |-> x.epoch,
             chain_index |-> x.chain_index, position |-> x.position, value |-> x.value]
    BY <1>1 DEF ChainStepCalls
  <2>3. q(x) \in Arrays(U8, 2) BY <2>1 DEF Arrays
  <2> HIDE DEF q
  <2> QED BY <2>1, <2>2, <2>3, WordArray, HashArray
<1>2. q(c) = q(d) => c.chain_index = d.chain_index /\ c.position = d.position OBVIOUS
<1>3. Cat(peq(c), c.value) = Cat(peq(d), d.value)
  <2>1. Derived(CHAIN_CONTEXT_KEY, StepBytes(c)) = Derived(CHAIN_CONTEXT_KEY, StepBytes(d))
    BY StepTranscript
  <2>2. StepBytes(c) = StepBytes(d) BY <2>1, SameDerived
  <2> QED BY <2>2 DEF StepBytes
<1> HIDE DEF q
<1>4. /\ c.parameter \in Arrays(U8, 32) /\ d.parameter \in Arrays(U8, 32)
      /\ Le32(c.epoch) \in Arrays(U8, 4) /\ Le32(d.epoch) \in Arrays(U8, 4)
      /\ q(c) \in Arrays(U8, 2) /\ q(d) \in Arrays(U8, 2)
      /\ c.value \in Arrays(U8, 32) /\ d.value \in Arrays(U8, 32)
  BY <1>1
<1>5. ASSUME pe(c) = pe(d) PROVE c.parameter = d.parameter /\ Le32(c.epoch) = Le32(d.epoch)
  <2>1. c.parameter = d.parameter BY <1>4, <1>5, CatHead
  <2>2. Le32(c.epoch) = Le32(d.epoch) BY <1>4, <1>5, CatTail
  <2> QED BY <2>1, <2>2
<1>6. pe(c) \in Arrays(U8, 36) /\ pe(d) \in Arrays(U8, 36)
  <2>1. pe(c) \in Arrays(U8, 32 + 4) /\ pe(d) \in Arrays(U8, 32 + 4) BY <1>4, JoinedType
  <2> HIDE DEF pe
  <2> QED BY <2>1
<1> HIDE DEF pe
<1>7. ASSUME peq(c) = peq(d) PROVE pe(c) = pe(d) /\ q(c) = q(d)
  <2>1. pe(c) = pe(d) BY <1>4, <1>6, <1>7, CatHead
  <2>2. q(c) = q(d) BY <1>4, <1>6, <1>7, CatTail
  <2> QED BY <2>1, <2>2
<1>8. peq(c) \in Arrays(U8, 38) /\ peq(d) \in Arrays(U8, 38)
  <2>1. peq(c) \in Arrays(U8, 36 + 2) /\ peq(d) \in Arrays(U8, 36 + 2)
    BY <1>4, <1>6, JoinedType
  <2> HIDE DEF peq
  <2> QED BY <2>1
<1> HIDE DEF peq
<1>9. peq(c) = peq(d) BY <1>3, <1>4, <1>8, CatHead
<1>10. c.value = d.value BY <1>3, <1>4, <1>8, CatTail
<1>11. c.epoch \in U32 /\ d.epoch \in U32 BY <1>1
<1>12. c.parameter = d.parameter /\ c.epoch = d.epoch
  BY <1>5, <1>7, <1>9, <1>11, SameWord
<1>13. c.chain_index = d.chain_index /\ c.position = d.position BY <1>2, <1>7, <1>9
<1>14. /\ c = [use |-> "chain step", parameter |-> c.parameter, epoch |-> c.epoch,
               chain_index |-> c.chain_index, position |-> c.position, value |-> c.value]
       /\ d = [use |-> "chain step", parameter |-> d.parameter, epoch |-> d.epoch,
               chain_index |-> d.chain_index, position |-> d.position, value |-> d.value]
  BY <1>1
<1> QED BY <1>10, <1>12, <1>13, <1>14

LEMMA TreeSeparate ==
  ASSUME NEW c, NEW d, c \in TreeCalls, d \in TreeCalls, Transcript(c) = Transcript(d)
  PROVE  c = d
<1> DEFINE pl(x) == Cat(x.parameter, <<x.level>>)
           pln(x) == Cat(pl(x), Le32(x.position))
           plnc(x) == Cat(pln(x), Le32(CountWord(Len(x.inputs))))
           all(x) == Concatenated(x.inputs)
<1>1. ASSUME NEW x, x \in TreeCalls
      PROVE  /\ x.parameter \in Arrays(U8, 32)
             /\ x.position \in U32 /\ Le32(x.position) \in Arrays(U8, 4)
             /\ <<x.level>> \in Arrays(U8, 1)
             /\ x.inputs \in Seq(Hash) /\ Len(x.inputs) \in Nat
             /\ all(x) \in Arrays(U8, 32 * Len(x.inputs))
             /\ x = [use |-> "tree", parameter |-> x.parameter, level |-> x.level,
                     position |-> x.position, inputs |-> x.inputs]
  <2>1. x.position \in U32 /\ x.parameter \in Hash /\ x.level \in U8 /\ x.inputs \in Seq(Hash)
    BY <1>1 DEF TreeCalls
  <2>2. x = [use |-> "tree", parameter |-> x.parameter, level |-> x.level,
             position |-> x.position, inputs |-> x.inputs]
    BY <1>1 DEF TreeCalls
  <2>3. <<x.level>> \in Arrays(U8, 1) BY <2>1 DEF Arrays
  <2>4. Len(x.inputs) \in Nat /\ all(x) \in Arrays(U8, 32 * Len(x.inputs))
    BY <2>1, ConcatenatedArray
  <2> HIDE DEF all
  <2> QED BY <2>1, <2>2, <2>3, <2>4, WordArray, HashArray
<1>2. ASSUME NEW n \in Nat PROVE Le32(CountWord(n)) \in Arrays(U8, 4)
  <2>1. Half16 \in Nat \ {0} BY DEF Half16
  <2>2. n \div Half16 \in Nat BY <2>1, Remainder
  <2>3. IsHalf(n % Half16) /\ IsHalf((n \div Half16) % Half16) BY <2>2, Remainder
  <2>4. CountWord(n) \in U32 BY <2>3, HalvesOf DEF CountWord
  <2> QED BY <2>4, WordArray
<1>3. <<c.level>> = <<d.level>> => c.level = d.level OBVIOUS
<1>4. Cat(plnc(c), all(c)) = Cat(plnc(d), all(d))
  <2>1. Derived(TreeKey(c), TreeBytes(c)) = Derived(TreeKey(d), TreeBytes(d)) BY TreeTranscript
  <2>2. TreeBytes(c) = TreeBytes(d) BY <2>1, SameDerived
  <2> QED BY <2>2 DEF TreeBytes
<1>5. /\ c.parameter \in Arrays(U8, 32) /\ d.parameter \in Arrays(U8, 32)
      /\ <<c.level>> \in Arrays(U8, 1) /\ <<d.level>> \in Arrays(U8, 1)
      /\ Le32(c.position) \in Arrays(U8, 4) /\ Le32(d.position) \in Arrays(U8, 4)
  BY <1>1
<1>6. ASSUME pl(c) = pl(d) PROVE c.parameter = d.parameter /\ c.level = d.level
  <2>1. c.parameter = d.parameter BY <1>5, <1>6, CatHead
  <2>2. <<c.level>> = <<d.level>> BY <1>5, <1>6, CatTail
  <2> QED BY <1>3, <2>1, <2>2
<1>7. pl(c) \in Arrays(U8, 33) /\ pl(d) \in Arrays(U8, 33)
  <2>1. pl(c) \in Arrays(U8, 32 + 1) /\ pl(d) \in Arrays(U8, 32 + 1) BY <1>5, JoinedType
  <2> HIDE DEF pl
  <2> QED BY <2>1
<1> HIDE DEF pl
<1>8. ASSUME pln(c) = pln(d) PROVE pl(c) = pl(d) /\ Le32(c.position) = Le32(d.position)
  <2>1. pl(c) = pl(d) BY <1>5, <1>7, <1>8, CatHead
  <2>2. Le32(c.position) = Le32(d.position) BY <1>5, <1>7, <1>8, CatTail
  <2> QED BY <2>1, <2>2
<1>9. pln(c) \in Arrays(U8, 37) /\ pln(d) \in Arrays(U8, 37)
  <2>1. pln(c) \in Arrays(U8, 33 + 4) /\ pln(d) \in Arrays(U8, 33 + 4) BY <1>5, <1>7, JoinedType
  <2> HIDE DEF pln
  <2> QED BY <2>1
<1> HIDE DEF pln
<1>10. /\ Le32(CountWord(Len(c.inputs))) \in Arrays(U8, 4)
       /\ Le32(CountWord(Len(d.inputs))) \in Arrays(U8, 4)
  BY <1>1, <1>2
<1>11. plnc(c) \in Arrays(U8, 41) /\ plnc(d) \in Arrays(U8, 41)
  <2>1. plnc(c) \in Arrays(U8, 37 + 4) /\ plnc(d) \in Arrays(U8, 37 + 4)
    BY <1>9, <1>10, JoinedType
  <2> HIDE DEF plnc
  <2> QED BY <2>1
<1>12. plnc(c) = plnc(d) => pln(c) = pln(d) BY <1>9, <1>10, CatHead
<1> HIDE DEF plnc, all
<1> DEFINE m == 32 * Len(c.inputs)
           n == 32 * Len(d.inputs)
<1>13. m \in Nat /\ n \in Nat /\ all(c) \in Arrays(U8, m) /\ all(d) \in Arrays(U8, n)
  <2>1. all(c) \in Arrays(U8, m) /\ all(d) \in Arrays(U8, n) BY <1>1
  <2>2. Len(c.inputs) \in Nat /\ Len(d.inputs) \in Nat BY <1>1
  <2> QED BY <2>1, <2>2
<1>14. c.inputs \in Seq(Hash) /\ d.inputs \in Seq(Hash) /\ c.position \in U32 /\ d.position \in U32
  BY <1>1
<1> HIDE DEF m, n
<1>15. plnc(c) = plnc(d) BY <1>4, <1>11, <1>13, CatHead
<1>16. m = n /\ all(c) = all(d) BY <1>4, <1>11, <1>13, CatTail
<1>17. c.inputs = d.inputs BY <1>14, <1>16, SameInputs DEF all, m, n
<1>18. c.parameter = d.parameter /\ c.level = d.level /\ c.position = d.position
  BY <1>6, <1>8, <1>12, <1>14, <1>15, SameWord
<1>19. /\ c = [use |-> "tree", parameter |-> c.parameter, level |-> c.level,
               position |-> c.position, inputs |-> c.inputs]
       /\ d = [use |-> "tree", parameter |-> d.parameter, level |-> d.level,
               position |-> d.position, inputs |-> d.inputs]
  BY <1>1
<1> QED BY <1>17, <1>18, <1>19

LEMMA MessageSeparate ==
  ASSUME NEW c, NEW d, c \in MessageCalls, d \in MessageCalls, Transcript(c) = Transcript(d)
  PROVE  c = d
<1> DEFINE pe(x) == Cat(x.parameter, Le32(x.epoch))
           per(x) == Cat(pe(x), x.randomness)
<1>1. ASSUME NEW x, x \in MessageCalls
      PROVE  /\ x.epoch \in U32 /\ Le32(x.epoch) \in Arrays(U8, 4)
             /\ x.parameter \in Arrays(U8, 32) /\ x.randomness \in Arrays(U8, 32)
             /\ x.message \in Arrays(U8, 32)
             /\ x = [use |-> "message", parameter |-> x.parameter, epoch |-> x.epoch,
                     randomness |-> x.randomness, message |-> x.message]
  BY <1>1, WordArray, HashArray DEF MessageCalls
<1>2. Cat(per(c), c.message) = Cat(per(d), d.message)
  <2>1. Derived(MESSAGE_CONTEXT_KEY, MessageBytes(c)) = Derived(MESSAGE_CONTEXT_KEY, MessageBytes(d))
    BY MessageTranscript
  <2>2. MessageBytes(c) = MessageBytes(d) BY <2>1, SameDerived
  <2> QED BY <2>2 DEF MessageBytes
<1>3. pe(c) \in Arrays(U8, 32 + 4) /\ pe(d) \in Arrays(U8, 32 + 4) BY <1>1, JoinedType
<1>4. pe(c) = pe(d) => c.parameter = d.parameter /\ Le32(c.epoch) = Le32(d.epoch)
  BY <1>1, CatHead, CatTail
<1> HIDE DEF pe
<1>5. pe(c) \in Arrays(U8, 36) /\ pe(d) \in Arrays(U8, 36) BY <1>3
<1>6. per(c) \in Arrays(U8, 36 + 32) /\ per(d) \in Arrays(U8, 36 + 32) BY <1>1, <1>5, JoinedType
<1>7. per(c) = per(d) => pe(c) = pe(d) /\ c.randomness = d.randomness
  BY <1>1, <1>5, CatHead, CatTail
<1> HIDE DEF per
<1>8. per(c) \in Arrays(U8, 68) /\ per(d) \in Arrays(U8, 68) BY <1>6
<1>9. per(c) = per(d) /\ c.message = d.message BY <1>1, <1>2, <1>8, CatHead, CatTail
<1>10. c.parameter = d.parameter /\ c.epoch = d.epoch /\ c.randomness = d.randomness
  BY <1>1, <1>4, <1>7, <1>9, SameWord
<1> QED BY <1>1, <1>9, <1>10

(* The two uses of the pseudorandom function differ in their tags.            *)
LEMMA TagsSeparate ==
  ASSUME NEW c, NEW d, c \in ChainStartCalls, d \in RandomnessCalls
  PROVE  Transcript(c) # Transcript(d)
<1> DEFINE T == Len(CHAIN_START_TAG)
           U == Len(SIGNING_RANDOMNESS_TAG)
           te == Cat(CHAIN_START_TAG, Le32(c.epoch))
           ue == Cat(SIGNING_RANDOMNESS_TAG, Le32(d.epoch))
           uem == Cat(ue, d.message)
<1>1. /\ T \in Nat /\ CHAIN_START_TAG \in Arrays(U8, T)
      /\ U \in Nat /\ SIGNING_RANDOMNESS_TAG \in Arrays(U8, U)
  BY TagAssumption, SeqArray
<1>2. PICK i \in 1..T : i <= U /\ CHAIN_START_TAG[i] # SIGNING_RANDOMNESS_TAG[i]
  BY TagAssumption
<1>3. /\ Le32(c.epoch) \in Arrays(U8, 4) /\ Le64(c.index) \in Arrays(U8, 8)
      /\ Le32(d.epoch) \in Arrays(U8, 4) /\ Le64(d.counter) \in Arrays(U8, 8)
      /\ d.message \in Arrays(U8, 32)
  BY WordArray, LongArray, HashArray DEF ChainStartCalls, RandomnessCalls
<1>4. te \in Arrays(U8, T + 4) /\ te[i] = CHAIN_START_TAG[i]
  <2>1. te \in Arrays(U8, T + 4) BY <1>1, <1>3, JoinedType
  <2>2. \A j \in 1..T : te[j] = CHAIN_START_TAG[j] BY <1>1, <1>3, JoinedLeft
  <2> QED BY <1>2, <2>1, <2>2
<1>5. ue \in Arrays(U8, U + 4) /\ ue[i] = SIGNING_RANDOMNESS_TAG[i]
  <2>1. ue \in Arrays(U8, U + 4) BY <1>1, <1>3, JoinedType
  <2>2. \A j \in 1..U : ue[j] = SIGNING_RANDOMNESS_TAG[j] BY <1>1, <1>3, JoinedLeft
  <2>3. i \in 1..U BY <1>1, <1>2
  <2> QED BY <2>1, <2>2, <2>3
<1> HIDE DEF te, ue, T, U
<1>6. /\ T + 4 \in Nat /\ U + 4 \in Nat /\ U + 4 + 32 \in Nat
      /\ i \in 1..T + 4 /\ i \in 1..U + 4 /\ i \in 1..U + 4 + 32
  BY <1>1, <1>2
<1>7. uem \in Arrays(U8, U + 4 + 32) /\ uem[i] = ue[i]
  BY <1>3, <1>5, <1>6, JoinedType, JoinedLeft
<1> HIDE DEF uem
<1>8. Cat(te, Le64(c.index))[i] = te[i] BY <1>3, <1>4, <1>6, JoinedLeft
<1>9. Cat(uem, Le64(d.counter))[i] = uem[i] BY <1>3, <1>6, <1>7, JoinedLeft
<1>10. Cat(te, Le64(c.index)) # Cat(uem, Le64(d.counter))
  BY <1>2, <1>4, <1>5, <1>7, <1>8, <1>9
<1>11. StartBytes(c) # RandomnessBytes(d)
  BY <1>10 DEF StartBytes, RandomnessBytes, te, ue, uem
<1>12. Keyed(c.key, StartBytes(c)) # Keyed(d.key, RandomnessBytes(d)) BY <1>11, SameKeyed
<1> QED BY <1>12, StartTranscript, RandomnessTranscript

(* The mode, the context and the tag tell the use.                            *)
LEMMA UsesSeparate ==
  ASSUME NEW c, NEW d, c \in HashCalls, d \in HashCalls, Transcript(c) = Transcript(d)
  PROVE  \/ c \in ChainStartCalls /\ d \in ChainStartCalls
         \/ c \in RandomnessCalls /\ d \in RandomnessCalls
         \/ c \in ChainStepCalls /\ d \in ChainStepCalls
         \/ c \in TreeCalls /\ d \in TreeCalls
         \/ c \in MessageCalls /\ d \in MessageCalls
<1> DEFINE keyed == ChainStartCalls \cup RandomnessCalls
<1>1. ASSUME NEW x, x \in keyed PROVE \E k, a : Transcript(x) = Keyed(k, a)
  BY <1>1, StartTranscript, RandomnessTranscript
<1>2. ASSUME NEW x, x \in ChainStepCalls PROVE \E a : Transcript(x) = Derived(CHAIN_CONTEXT_KEY, a)
  BY <1>2, StepTranscript
<1>3. ASSUME NEW x, x \in TreeCalls
      PROVE  \E k, a : /\ k \in {TREE_LEAF_CONTEXT_KEY, TREE_NODE_CONTEXT_KEY}
                       /\ Transcript(x) = Derived(k, a)
  <2>1. TreeKey(x) \in {TREE_LEAF_CONTEXT_KEY, TREE_NODE_CONTEXT_KEY} BY DEF TreeKey
  <2>2. Transcript(x) = Derived(TreeKey(x), TreeBytes(x)) BY <1>3, TreeTranscript
  <2> QED BY <2>1, <2>2
<1>4. ASSUME NEW x, x \in MessageCalls PROVE \E a : Transcript(x) = Derived(MESSAGE_CONTEXT_KEY, a)
  BY <1>4, MessageTranscript
<1>5. /\ c \in keyed \/ c \in ChainStepCalls \/ c \in TreeCalls \/ c \in MessageCalls
      /\ d \in keyed \/ d \in ChainStepCalls \/ d \in TreeCalls \/ d \in MessageCalls
  BY DEF HashCalls
<1>6. c \in keyed /\ d \in keyed =>
        \/ c \in ChainStartCalls /\ d \in ChainStartCalls
        \/ c \in RandomnessCalls /\ d \in RandomnessCalls
  BY TagsSeparate
<1> HIDE DEF keyed
<1>7. \/ c \in keyed /\ d \in keyed
      \/ c \in ChainStepCalls /\ d \in ChainStepCalls
      \/ c \in TreeCalls /\ d \in TreeCalls
      \/ c \in MessageCalls /\ d \in MessageCalls
  BY <1>1, <1>2, <1>3, <1>4, <1>5, SameDerived, ModesDiffer, ContextKeyAssumption
<1> QED BY <1>6, <1>7

(* Two calls of the hash function, in the same use or in different ones, are  *)
(* fed the same bytes under the same key only if they are the same call: the  *)
(* epochs, indices, positions, levels and counts that apply, get_randomness   *)
(* and get_domain_element put in front leave no two readings of an input.     *)
THEOREM TranscriptsSeparateHolds == TranscriptsSeparate
<1> SUFFICES ASSUME NEW c \in HashCalls, NEW d \in HashCalls, Transcript(c) = Transcript(d)
             PROVE  c = d
  BY UsesAssumption DEF TranscriptsSeparate
<1> QED
  BY UsesSeparate, ChainStartSeparate, RandomnessSeparate, ChainStepSeparate, TreeSeparate,
     MessageSeparate
===============================================================================
