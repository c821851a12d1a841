------------------------------- MODULE Word32 -------------------------------
(* 32-bit words, wider than the integers TLC computes with: a word is the     *)
(* pair of its 16-bit halves, the low one first; a byte is a number.          *)
EXTENDS Integers, Sequences

U8 == 0..255

Half16 == 65536

U16 == 0..Half16 - 1

U32 == U16 \X U16

Add(a, b) ==
  LET lo == a[1] + b[1]
  IN  <<lo % Half16, (a[2] + b[2] + lo \div Half16) % Half16>>

(* One where the halves differ in a bit, bit by bit and byte by byte.         *)
XorHalf(a, b) ==
  LET Differ(n) == ((a \div 2^n) + (b \div 2^n)) % 2
      ByteFrom(n) ==
        Differ(n) + 2 * Differ(n + 1) + 4 * Differ(n + 2) + 8 * Differ(n + 3)
          + 16 * Differ(n + 4) + 32 * Differ(n + 5) + 64 * Differ(n + 6) + 128 * Differ(n + 7)
  IN  ByteFrom(0) + 256 * ByteFrom(8)

Xor2(a, b) == <<XorHalf(a[1], b[1]), XorHalf(a[2], b[2])>>

(* The bits of a 32-bit word moved right by n, those that fall out back in on *)
(* the left.                                                                  *)
RotateRight(a, n) ==
  LET w == IF n < 16 THEN a ELSE <<a[2], a[1]>>
      d == 2^(n % 16)
      u == Half16 \div d
  IN  <<w[1] \div d + (w[2] % d) * u, w[2] \div d + (w[1] % d) * u>>

FromBytes(b, i) == <<b[i + 1] + 256 * b[i + 2], b[i + 3] + 256 * b[i + 4]>>

ToBytes(w) == <<w[1] % 256, w[1] \div 256, w[2] % 256, w[2] \div 256>>

(* The little-endian bytes of a sequence of words.                            *)
BytesOf(words) ==
  [k \in 1..(4 * Len(words)) |->
     ToBytes(words[1 + ((k - 1) \div 4)])[1 + ((k - 1) % 4)]]
=============================================================================
