---------------------------- MODULE MCBlake3Simd ----------------------------
(* Calls with the arguments of the repository's own known answers, and of its *)
(* tests of both batched functions against the scalar ones.                   *)
EXTENDS Blake3Simd

Bytes32(b) == [i \in 1..32 |-> b]

E32(n) == <<n % 65536, n \div 65536>>

MaxU32 == <<65535, 65535>>

(* "leansig-v1/prf-chain-start"                                               *)
MCTag == <<108, 101, 97, 110, 115, 105, 103, 45, 118, 49, 47, 112, 114, 102, 45, 99,
           104, 97, 105, 110, 45, 115, 116, 97, 114, 116>>

(* "leansig-v1/prf-signing-randomness"                                        *)
MCRandomnessTag ==
  <<108, 101, 97, 110, 115, 105, 103, 45, 118, 49, 47, 112, 114, 102, 45, 115, 105,
    103, 110, 105, 110, 103, 45, 114, 97, 110, 100, 111, 109, 110, 101, 115, 115>>

(* The keys derived from the contexts, of chains, leaves, nodes and messages. *)
MCContextKey ==
  <<245, 207, 0, 26, 167, 23, 158, 158, 98, 238, 53, 185, 44, 142, 59, 228,
    53, 135, 46, 210, 244, 147, 211, 139, 233, 142, 148, 162, 28, 165, 135, 114>>

MCLeafKey ==
  <<210, 109, 51, 83, 42, 127, 213, 86, 214, 113, 241, 140, 8, 123, 171, 86,
    55, 90, 188, 155, 254, 45, 133, 248, 216, 67, 221, 178, 50, 207, 54, 247>>

MCNodeKey ==
  <<133, 213, 14, 64, 116, 8, 145, 23, 107, 246, 89, 9, 207, 149, 6, 126,
    6, 234, 253, 131, 147, 26, 251, 133, 98, 141, 233, 104, 48, 230, 154, 131>>

MCMessageKey ==
  <<119, 134, 93, 143, 217, 57, 78, 235, 230, 26, 209, 148, 181, 157, 1, 252,
    228, 189, 216, 46, 146, 63, 143, 59, 40, 183, 14, 59, 250, 152, 252, 155>>

(* The known answer of prf/blake3.rs, for epoch 3 and index 4.                *)
PrfAnswer ==
  <<32, 218, 144, 129, 118, 17, 106, 65, 19, 162, 247, 228, 198, 2, 64, 89,
    134, 144, 192, 54, 27, 162, 204, 206, 143, 110, 102, 104, 126, 89, 128, 233>>

(* The known answer of tweak_hash/blake3.rs, for epoch 0, chain 0, position 1.*)
ChainAnswer ==
  <<219, 40, 57, 253, 160, 141, 22, 108, 64, 173, 2, 216, 86, 17, 150, 174,
    167, 111, 74, 196, 201, 129, 193, 97, 129, 233, 158, 41, 255, 39, 50, 217>>

PrfCall ==
  [kind |-> "prf", key |-> Bytes32(7), epochs |-> <<E32(2), E32(3), E32(131072), MaxU32>>,
   index |-> <<E32(4), E32(0)>>]

ChainCall ==
  [kind |-> "chain", parameter |-> Bytes32(1), epochs |-> <<MaxU32, E32(1), E32(0), E32(7)>>,
   chain_index |-> 0, start_position |-> 0, steps |-> 1,
   starts |-> <<Bytes32(9), Bytes32(3), Bytes32(2), Bytes32(255)>>]

(* Of batched_domains_match_scalar.                                           *)
TestPrfCall ==
  [kind |-> "prf", key |-> Bytes32(17), epochs |-> <<E32(0), E32(1), E32(123456), MaxU32>>,
   index |-> <<MaxU32, E32(0)>>]

(* Of simd_chain_matches_scalar.                                              *)
TestCall(index, start, count) ==
  [kind |-> "chain", parameter |-> Bytes32(11),
   epochs |-> <<E32(0), E32(1), E32(123456), MaxU32>>,
   chain_index |-> index, start_position |-> start, steps |-> count,
   starts |-> [lane \in 1..4 |-> [i \in 1..32 |-> ((lane - 1) * 37 + i - 1) % 256]]]

MCCalls ==
  {PrfCall, TestPrfCall, ChainCall, TestCall(17, 3, 2), TestCall(255, 127, 2), TestCall(0, 252, 3)}

-------------------------------------------------------------------------------
(* The calls whose answers the tests of prf, tweak_hash and message_hash fix, *)
(* each with the bytes they expect. The message hash of that test reads its   *)
(* chunks off the bytes below 252, modulo 7.                                  *)
StartCall == [use |-> "chain start", key |-> Bytes32(7), epoch |-> E32(3), index |-> <<E32(4), E32(0)>>]

RandomnessCall ==
  [use |-> "randomness", key |-> Bytes32(7), epoch |-> E32(3), message |-> Bytes32(9),
   counter |-> <<E32(4), E32(0)>>]

StepCall ==
  [use |-> "chain step", parameter |-> Bytes32(1), epoch |-> E32(0), chain_index |-> 0,
   position |-> 1, value |-> Bytes32(2)]

LeafCall ==
  [use |-> "tree", parameter |-> Bytes32(1), level |-> 0, position |-> E32(0),
   inputs |-> <<Bytes32(2), Bytes32(2), Bytes32(2)>>]

NodeCall ==
  [use |-> "tree", parameter |-> Bytes32(1), level |-> 1, position |-> E32(0),
   inputs |-> <<Bytes32(2), Bytes32(2)>>]

MessageCall ==
  [use |-> "message", parameter |-> Bytes32(1), epoch |-> E32(4), randomness |-> Bytes32(2),
   message |-> Bytes32(3)]

(* Calls of every use that differ in one field, or whose fields begin with    *)
(* what another call's fields end with. A leaf may have the two inputs of a   *)
(* node.                                                                      *)
MCWords == {E32(0), E32(256)}

MCUses ==
  [use: {"chain start"}, key: {Bytes32(1)}, epoch: MCWords, index: MCWords \X MCWords]
    \cup [use: {"randomness"}, key: {Bytes32(1)}, epoch: MCWords, message: {Bytes32(0), Bytes32(1)},
          counter: {<<E32(256), E32(0)>>}]
    \cup [use: {"chain step"}, parameter: {Bytes32(1)}, epoch: MCWords, chain_index: {0, 1},
          position: {0, 1}, value: {Bytes32(0)}]
    \cup [use: {"tree"}, parameter: {Bytes32(1)}, level: {0, 1, 2}, position: MCWords,
          inputs: {<<Bytes32(0), Bytes32(1)>>, <<Bytes32(1), Bytes32(0)>>}]
    \cup [use: {"tree"}, parameter: {Bytes32(1)}, level: {0}, position: MCWords,
          inputs: {<<Bytes32(0)>>, <<Bytes32(0), Bytes32(0), Bytes32(0)>>}]
    \cup [use: {"message"}, parameter: {Bytes32(1)}, epoch: MCWords,
          randomness: {Bytes32(0), Bytes32(1)}, message: {Bytes32(0), Bytes32(1)}]

RandomnessAnswer ==
  <<237, 23, 122, 244, 23, 242, 56, 163, 59, 240, 132, 71, 68, 254, 73, 116,
    94, 104, 5, 163, 225, 79, 141, 216, 247, 123, 225, 189, 36, 136, 85, 51>>

LeafAnswer ==
  <<80, 192, 76, 19, 104, 99, 102, 42, 233, 244, 114, 174, 3, 196, 250, 244,
    1, 87, 16, 36, 247, 248, 247, 53, 201, 137, 6, 105, 103, 209, 149, 157>>

NodeAnswer ==
  <<14, 206, 168, 62, 24, 19, 170, 61, 111, 225, 113, 70, 81, 75, 20, 122,
    238, 170, 105, 68, 5, 139, 136, 239, 144, 175, 159, 61, 23, 76, 19, 32>>

MessageAnswer == <<5, 4, 4, 6, 5, 0, 3, 4, 4, 6, 4, 0, 5, 1, 2, 5>>

(* BLAKE3 of a transcript, run to its end.                                    *)
Hasher(t) == INSTANCE Blake3 WITH
  key <- [word \in 1..8 |-> FromBytes(t.key, 4 * (word - 1))],
  mode <- t.mode, input <- t.bytes, block <- 0, round <- 0, v <- <<>>, m <- <<>>

Compressed(t, chain, i) ==
  LET at[r \in 0..7] ==
        IF r = 0 THEN [s |-> Hasher(t)!Loaded(chain, i), w |-> Hasher(t)!Words(i)]
        ELSE [s |-> Hasher(t)!Mixed(at[r - 1].s, at[r - 1].w),
              w |-> Hasher(t)!Permuted(at[r - 1].w)]
  IN  Hasher(t)!Output(at[7].s)

DigestOf(t) ==
  LET last == (Len(t.bytes) - 1) \div 64
      after[i \in 0..last] ==
        Compressed(t, IF i = 0 THEN [word \in 1..8 |-> FromBytes(t.key, 4 * (word - 1))]
                      ELSE after[i - 1], i)
  IN  BytesOf(after[last])

Answers ==
  {<<StartCall, PrfAnswer>>, <<RandomnessCall, RandomnessAnswer>>, <<StepCall, ChainAnswer>>,
   <<LeafCall, LeafAnswer>>, <<NodeCall, NodeAnswer>>, <<MessageCall, MessageAnswer>>}

ChunksOf(digest) ==
  LET accepted == SelectSeq(digest, LAMBDA b : b < 252)
  IN  [i \in 1..Len(MessageAnswer) |-> accepted[i] % 7]

(* The hash of each of those calls is the one its test expects, or yields the *)
(* chunks it expects.                                                         *)
TestAnswers ==
  \A a \in Answers :
    LET digest == DigestOf(Transcript(a[1]))
    IN  IF a[1] = MessageCall THEN ChunksOf(digest) = a[2] ELSE digest = a[2]

(* What is returned for the arguments the repository's tests fix the answers  *)
(* of is what those tests expect, in the lane that was given them; and so are *)
(* the hashes of the transcripts, of every use of the hash function.          *)
KnownAnswers ==
  result # <<>> =>
    /\ call = PrfCall => result[2] = PrfAnswer
    /\ call = ChainCall => result[3] = ChainAnswer
    /\ TestAnswers
=============================================================================
