-------------------------------- MODULE Blake3 --------------------------------
(* BLAKE3 of inputs that fit one chunk, as the blake3 crate computes it: the  *)
(* scalar hash the lanes of blake3_simd have to agree with. Written from the  *)
(* definition of BLAKE3, with its one permutation of the message words.       *)
EXTENDS Integers, Sequences, Word32

VARIABLES
  key,     \* the eight words the hash starts from
  mode,    \* the flag of the mode: keyed hash or key derivation
  input,   \* the bytes to hash
  block,   \* the number of the block being compressed
  round,   \* the rounds it has been through
  v,       \* the sixteen words of the compression
  m        \* the message words, in the order of the next round

vars == <<key, mode, input, block, round, v, m>>

IV == <<<<\hE667, \h6A09>>, <<\hAE85, \hBB67>>, <<\hF372, \h3C6E>>, <<\hF53A, \hA54F>>>>

ChunkStart == 1
ChunkEnd   == 2
RootFlag   == 8

-------------------------------------------------------------------------------
(* One of the two halves of G, on four words: its rotations are p and q.      *)
HalfG(w, x, p, q) ==
  LET a == Add(Add(w[1], w[2]), x)
      d == RotateRight(Xor2(w[4], a), p)
      c == Add(w[3], d)
  IN  <<a, RotateRight(Xor2(w[2], c), q), c, d>>

Placed(s, a, b, c, d, w) == [s EXCEPT ![a] = w[1], ![b] = w[2], ![c] = w[3], ![d] = w[4]]

G(s, a, b, c, d, x, y) ==
  Placed(s, a, b, c, d, HalfG(HalfG(<<s[a], s[b], s[c], s[d]>>, x, 16, 12), y, 8, 7))

Columns(s, w) ==
  LET s1 == G(s,  1, 5,  9, 13, w[1], w[2])
      s2 == G(s1, 2, 6, 10, 14, w[3], w[4])
      s3 == G(s2, 3, 7, 11, 15, w[5], w[6])
  IN  G(s3, 4, 8, 12, 16, w[7], w[8])

Diagonals(s, w) ==
  LET s1 == G(s,  1, 6, 11, 16, w[9],  w[10])
      s2 == G(s1, 2, 7, 12, 13, w[11], w[12])
      s3 == G(s2, 3, 8,  9, 14, w[13], w[14])
  IN  G(s3, 4, 5, 10, 15, w[15], w[16])

Mixed(s, w) == Diagonals(Columns(s, w), w)

Permutation == <<3, 7, 4, 11, 8, 1, 5, 14, 2, 12, 13, 6, 10, 15, 16, 9>>

Permuted(w) == [i \in 1..16 |-> w[Permutation[i]]]

Output(s) == [i \in 1..8 |-> Xor2(s[i], s[i + 8])]

-------------------------------------------------------------------------------
LastBlock(i) == Len(input) <= 64 * (i + 1)

BlockLen(i) == IF LastBlock(i) THEN Len(input) - 64 * i ELSE 64

Padded(i) ==
  [k \in 1..64 |-> IF k <= BlockLen(i) THEN input[64 * i + k] ELSE 0]

Words(i) == LET bytes == Padded(i) IN [k \in 1..16 |-> FromBytes(bytes, 4 * (k - 1))]

Flags(i) ==
  mode + (IF i = 0 THEN ChunkStart ELSE 0)
       + (IF LastBlock(i) THEN ChunkEnd + RootFlag ELSE 0)

Loaded(chain, i) ==
  [k \in 1..16 |-> CASE k <= 8      -> chain[k]
                     [] k \in 9..12  -> IV[k - 8]
                     [] k \in 13..14 -> <<0, 0>>
                     [] k = 15       -> <<BlockLen(i), 0>>
                     [] k = 16       -> <<Flags(i), 0>>]

(* A hash begins.                                                             *)
Started ==
  /\ block = 0
  /\ round = 0
  /\ v = Loaded(key, 0)
  /\ m = Words(0)

Round ==
  /\ round < 7
  /\ round' = round + 1
  /\ v' = Mixed(v, m)
  /\ m' = IF round < 6 THEN Permuted(m) ELSE m
  /\ UNCHANGED <<key, mode, input, block>>

NextBlock ==
  /\ round = 7
  /\ ~LastBlock(block)
  /\ block' = block + 1
  /\ round' = 0
  /\ v' = Loaded(Output(v), block + 1)
  /\ m' = Words(block + 1)
  /\ UNCHANGED <<key, mode, input>>

Finished == round = 7 /\ LastBlock(block)

Digest == BytesOf(Output(v))

(* Any other hash may follow.                                                 *)
NextHash == Finished /\ Started'

Next == Round \/ NextBlock \/ NextHash

Spec == Started /\ [][Next]_vars
===============================================================================
