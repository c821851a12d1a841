------------------------------ MODULE Blake3Simd ------------------------------
(* One call of the SIMD helpers on AArch64, from its arguments to the four    *)
(* hashes it returns: keyed_hash_4, as Blake3Prf::get_domain_elements_4 calls *)
(* it, or chain_4. A vector holds one word of each of four independent hashes *)
(* and every step works on the four lanes at once. Arrays start at 1; the     *)
(* indices in MSG_SCHEDULE and ROTATE_BYTES are the code's, from 0.           *)
EXTENDS Integers, Sequences, Transcripts

CONSTANT Calls   \* the calls: records of a kind and its arguments

VARIABLES
  call,      \* the call under way
  step,      \* the steps of the chains taken before this one
  values,    \* the lanes' values before this step
  block,     \* the number of compressions of this step that are over
  round,     \* the rounds the current compression has been through
  state,     \* its sixteen vectors
  message,   \* the sixteen vectors of the blocks' words
  result     \* the hashes returned, <<>> before

vars == <<call, step, values, block, round, state, message, result>>

Lanes == 1..4

(* A chain has a step to take, and its positions fit a byte.                  *)
ASSUME CallsAssumption ==
  \A c \in Calls :
    /\ c.epochs \in [Lanes -> U32]
    /\ \/ /\ c.kind = "prf"
          /\ c.key \in Hash
          /\ c.index \in U32 \X U32
       \/ /\ c.kind = "chain"
          /\ c.parameter \in Hash /\ c.starts \in [Lanes -> Hash]
          /\ c.chain_index \in U8
          /\ c.start_position \in 0..254 /\ c.steps \in 1..(255 - c.start_position)

-------------------------------------------------------------------------------
(* The instructions.                                                          *)

Splat(w) == <<w, w, w, w>>

vaddq_u32(p, q) == <<Add(p[1], q[1]), Add(p[2], q[2]), Add(p[3], q[3]), Add(p[4], q[4])>>

veorq_u32(p, q) ==
  <<Xor2(p[1], q[1]), Xor2(p[2], q[2]), Xor2(p[3], q[3]), Xor2(p[4], q[4])>>

(* The halves of every word change places.                                    *)
vrev32q_u16(p) ==
  LET Rev(w) == <<w[2], w[1]>> IN <<Rev(p[1]), Rev(p[2]), Rev(p[3]), Rev(p[4])>>

(* Every word moved left by n, from 16 to 31.                                 *)
vshlq_n_u32(p, n) ==
  LET Shl(w) == <<0, (w[1] * 2^(n - 16)) % Half16>>
  IN  <<Shl(p[1]), Shl(p[2]), Shl(p[3]), Shl(p[4])>>

(* Every word of q moved right by n, from 1 to 15; the n bits this frees are  *)
(* those of p.                                                                *)
vsriq_n_u32(p, q, n) ==
  LET d == 2^n
      u == Half16 \div d
      Sri(a, b) == <<(b[1] \div d) + (b[2] % d) * u, (b[2] \div d) + (a[2] \div u) * u>>
  IN  <<Sri(p[1], q[1]), Sri(p[2], q[2]), Sri(p[3], q[3]), Sri(p[4], q[4])>>

(* The sixteen bytes of a vector picked by a table of indices.                *)
vqtbl1q_u8(p, table) ==
  LET bytes == BytesOf(p)
      At(i) == IF table[i] < 16 THEN bytes[table[i] + 1] ELSE 0
      Word(i) == <<At(i) + 256 * At(i + 1), At(i + 2) + 256 * At(i + 3)>>
  IN  <<Word(1), Word(5), Word(9), Word(13)>>

-------------------------------------------------------------------------------
(* The compression function.                                                  *)

rotate_right_16(p) == vrev32q_u16(p)

rotate_right_12(p) == vsriq_n_u32(vshlq_n_u32(p, 20), p, 12)

(* Faulty: the bytes move left.                                               *)
ROTATE_BYTES_LEFT == <<3, 0, 1, 2, 7, 4, 5, 6, 11, 8, 9, 10, 15, 12, 13, 14>>

ROTATE_BYTES == <<1, 2, 3, 0, 5, 6, 7, 4, 9, 10, 11, 8, 13, 14, 15, 12>>

rotate_right_8(p) == vqtbl1q_u8(p, ROTATE_BYTES)

rotate_right_7(p) == vsriq_n_u32(vshlq_n_u32(p, 25), p, 7)

(* The two halves of g, on va, vb, vc and vd.                                 *)
FirstHalf(v, x) ==
  LET va == vaddq_u32(vaddq_u32(v[1], v[2]), x)
      vd == rotate_right_16(veorq_u32(v[4], va))
      vc == vaddq_u32(v[3], vd)
  IN  <<va, rotate_right_12(veorq_u32(v[2], vc)), vc, vd>>

SecondHalf(v, y) ==
  LET va == vaddq_u32(vaddq_u32(v[1], v[2]), y)
      vd == rotate_right_8(veorq_u32(v[4], va))
      vc == vaddq_u32(v[3], vd)
  IN  <<va, rotate_right_7(veorq_u32(v[2], vc)), vc, vd>>

Placed(s, a, b, c, d, v) == [s EXCEPT ![a] = v[1], ![b] = v[2], ![c] = v[3], ![d] = v[4]]

g(s, a, b, c, d, x, y) ==
  Placed(s, a, b, c, d, SecondHalf(FirstHalf(<<s[a], s[b], s[c], s[d]>>, x), y))

MSG_SCHEDULE ==
  << << 0,  1,  2,  3,  4,  5,  6,  7,  8,  9, 10, 11, 12, 13, 14, 15>>,
     << 2,  6,  3, 10,  7,  0,  4, 13,  1, 11, 12,  5,  9, 14, 15,  8>>,
     << 3,  4, 10, 12, 13,  2,  7, 14,  6,  5,  9,  0, 11, 15,  8,  1>>,
     <<10,  7, 12,  9, 14,  3, 13, 15,  4,  0, 11,  2,  5,  8,  1,  6>>,
     <<12, 13,  9, 11, 15, 10, 14,  8,  7,  2,  5,  3,  0,  1,  6,  4>>,
     << 9, 14, 11,  5,  8, 12, 15,  1, 13,  3,  0, 10,  2,  6,  4,  7>>,
     <<11, 15,  5,  0,  1,  9,  8,  6, 14, 10,  2, 12,  3,  4,  7, 13>> >>

Scheduled(schedule, i) == message[schedule[i] + 1]

Columns(s, schedule) ==
  LET M(i) == Scheduled(schedule, i)
      s1 == g(s,  1, 5,  9, 13, M(1), M(2))
      s2 == g(s1, 2, 6, 10, 14, M(3), M(4))
      s3 == g(s2, 3, 7, 11, 15, M(5), M(6))
  IN  g(s3, 4, 8, 12, 16, M(7), M(8))

Diagonals(s, schedule) ==
  LET M(i) == Scheduled(schedule, i)
      s1 == g(s,  1, 6, 11, 16, M(9),  M(10))
      s2 == g(s1, 2, 7, 12, 13, M(11), M(12))
      s3 == g(s2, 3, 8,  9, 14, M(13), M(14))
  IN  g(s3, 4, 5, 10, 15, M(15), M(16))

Rounded(s, schedule) == Diagonals(Columns(s, schedule), schedule)

BLOCK_LEN == 64

(* The first half of the table: the part that is used.                        *)
IV == <<<<\hE667, \h6A09>>, <<\hAE85, \hBB67>>, <<\hF372, \h3C6E>>, <<\hF53A, \hA54F>>>>

CHUNK_START == 1
CHUNK_END   == 2
ROOT        == 8

words4(blocks) ==
  [word \in 1..16 |-> [lane \in Lanes |-> FromBytes(blocks[lane], 4 * (word - 1))]]

CompressState(chaining_values, block_len, flags) ==
  chaining_values \o
    <<Splat(IV[1]), Splat(IV[2]), Splat(IV[3]), Splat(IV[4]),
      Splat(<<0, 0>>), Splat(<<0, 0>>), Splat(<<block_len, 0>>), Splat(<<flags, 0>>)>>

ChainingValues == [i \in 1..8 |-> veorq_u32(state[i], state[i + 8])]

Splatted(key) == [word \in 1..8 |-> Splat(FromBytes(key, 4 * (word - 1)))]

(* Faulty: two whole vectors are taken for the output of a lane.              *)
Untransposed(vectors) ==
  [lane \in Lanes |-> BytesOf(vectors[2 * lane - 1] \o vectors[2 * lane])]

(* The output of each lane: the vectors transposed, in bytes.                 *)
Transposed(vectors) ==
  [lane \in Lanes |-> BytesOf([word \in 1..8 |-> vectors[word][lane]])]

-------------------------------------------------------------------------------
(* The inputs, written into arrays of fixed size.                             *)

(* Faulty: the index in big-endian order.                                     *)
DomainElementsBigEndian(c) ==
  LET epoch_start == Len(CHAIN_START_TAG)
      index_start == epoch_start + 4
  IN  [lane \in Lanes |->
        [i \in 1..(index_start + 8) |->
           CASE i <= epoch_start -> CHAIN_START_TAG[i]
             [] epoch_start < i /\ i <= index_start -> Le32(c.epochs[lane])[i - epoch_start]
             [] i > index_start -> Le64(c.index)[index_start + 9 - i]]]

get_domain_elements_4(c) ==
  LET epoch_start == Len(CHAIN_START_TAG)
      index_start == epoch_start + 4
  IN  [lane \in Lanes |->
        [i \in 1..(index_start + 8) |->
           CASE i <= epoch_start -> CHAIN_START_TAG[i]
             [] epoch_start < i /\ i <= index_start -> Le32(c.epochs[lane])[i - epoch_start]
             [] i > index_start -> Le64(c.index)[i - index_start]]]

Position(c, s) == (c.start_position + s + 1) % 256

chain_4_inputs(c, s, vals) ==
  [lane \in Lanes |->
    [i \in 1..70 |->
       CASE i <= 32           -> c.parameter[i]
         [] i \in 33..36      -> Le32(c.epochs[lane])[i - 32]
         [] i = 37            -> c.chain_index
         [] i = 38            -> Position(c, s)
         [] i \in 39..70      -> vals[lane][i - 38]]]

PaddedBlocks(bytes) ==
  [lane \in Lanes |-> [i \in 1..BLOCK_LEN |-> IF i <= Len(bytes[lane]) THEN bytes[lane][i] ELSE 0]]

(* The first blocks of a call's step: all of the input of keyed_hash, the     *)
(* first 64 bytes of that of hash_derive_key_material_70.                     *)
FirstBlocks(c, s, vals) ==
  IF c.kind = "prf"
  THEN PaddedBlocks(get_domain_elements_4(c))
  ELSE [lane \in Lanes |-> SubSeq(chain_4_inputs(c, s, vals)[lane], 1, BLOCK_LEN)]

FirstState(c) ==
  IF c.kind = "prf"
  THEN CompressState(Splatted(c.key), Len(get_domain_elements_4(c)[1]),
                     KEYED_HASH + CHUNK_START + CHUNK_END + ROOT)
  ELSE CompressState(Splatted(CHAIN_CONTEXT_KEY), BLOCK_LEN, DERIVE_KEY_MATERIAL + CHUNK_START)

-------------------------------------------------------------------------------
Init ==
  /\ call \in Calls
  /\ step = 0
  /\ values = IF call.kind = "chain" THEN call.starts ELSE <<>>
  /\ block = 0
  /\ round = 0
  /\ message = words4(FirstBlocks(call, 0, values))
  /\ state = FirstState(call)
  /\ result = <<>>

Steps == IF call.kind = "chain" THEN call.steps ELSE 1

Blocks == IF call.kind = "chain" THEN 2 ELSE 1

(* A round of compress4.                                                      *)
Round4 ==
  /\ round < 7
  /\ round' = round + 1
  /\ state' = Rounded(state, MSG_SCHEDULE[round + 1])
  /\ UNCHANGED <<call, step, values, block, message, result>>

(* The second compression of hash_derive_key_material_70: the last six bytes. *)
LastBlocks ==
  /\ round = 7 /\ block + 1 < Blocks
  /\ block' = block + 1
  /\ round' = 0
  /\ message' = words4(PaddedBlocks(
       [lane \in Lanes |-> SubSeq(chain_4_inputs(call, step, values)[lane], BLOCK_LEN + 1, 70)]))
  /\ state' = CompressState(ChainingValues, 6, DERIVE_KEY_MATERIAL + CHUNK_END + ROOT)
  /\ UNCHANGED <<call, step, values, result>>

Hashed == round = 7 /\ block + 1 = Blocks /\ result = <<>>

(* The loop of chain_4 goes on with the values hashed.                        *)
NextStep ==
  /\ Hashed /\ step + 1 < Steps
  /\ step' = step + 1
  /\ values' = Transposed(ChainingValues)
  /\ block' = 0
  /\ round' = 0
  /\ message' = words4(FirstBlocks(call, step + 1, values'))
  /\ state' = FirstState(call)
  /\ UNCHANGED <<call, result>>

Return ==
  /\ Hashed /\ step + 1 = Steps
  /\ result' = Transposed(ChainingValues)
  /\ UNCHANGED <<call, step, values, block, round, state, message>>

Next == Round4 \/ LastBlocks \/ NextStep \/ Return

Spec == Init /\ [][Next]_vars

-------------------------------------------------------------------------------
(* What the scalar code hashes in the place of a lane.                        *)
ScalarHash(lane) ==
  IF call.kind = "prf"
  THEN get_domain_element(call.key, call.epochs[lane], call.index)
  ELSE ChainStep(call.parameter, call.epochs[lane], call.chain_index,
                 call.start_position + step + 1, values[lane])

Scalar(lane) == INSTANCE Blake3 WITH
  key   <- [word \in 1..8 |-> FromBytes(ScalarHash(lane).key, 4 * (word - 1))],
  mode  <- ScalarHash(lane).mode,
  input <- ScalarHash(lane).bytes,
  v     <- [i \in 1..16 |-> state[i][lane]],
  m     <- [i \in 1..16 |-> Scheduled(MSG_SCHEDULE[IF round < 7 THEN round + 1 ELSE 7], i)[lane]]

(* Every lane implements the scalar hash, Scalar(lane)!Spec, of the bytes the *)
(* scalar functions would hash in its place, whatever the other lanes hold:   *)
(* instructions, schedule, flags, lengths and array offsets all agree.        *)
LanesAreScalar ==
  /\ \A lane \in Lanes : Scalar(lane)!Started
  /\ [][\A lane \in Lanes : [Scalar(lane)!Next]_(Scalar(lane)!vars)]_vars

(* The outputs a step hands to the next one, and to the caller, are the       *)
(* scalar hashes: each lane gets its own, with its words in order.            *)
DigestsAreScalar ==
  Hashed => \A lane \in Lanes : Transposed(ChainingValues)[lane] = Scalar(lane)!Digest
===============================================================================
