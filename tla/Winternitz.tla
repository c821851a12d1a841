------------------------------ MODULE Winternitz ------------------------------
(* The one-time signature of an epoch: hash chains that are walked as far as  *)
(* the entries of a codeword say, and the target-sum encoding that turns a    *)
(* message into a codeword. The message hash is a constant.                   *)
EXTENDS HashTree, Functions, FiniteSetsExt

CONSTANTS
  U8Range,              \* number of values of the u8 that holds a position
  Base,                 \* w: the entries of a codeword are in 0..Base - 1
  Dimension,            \* v: the number of chains
  TargetSum,
  MaxTries,             \* how often sign tries new randomness
  SIMD_LANES,           \* the epochs whose chains are walked together
  MessageHash(_, _, _)  \* the chunks of a message, randomness and epoch

ASSUME U8Assumption == U8Range \in Nat
ASSUME BaseAssumption == Base \in 2..U8Range
ASSUME DimensionAssumption == Dimension \in 1..U8Range
ASSUME TargetSumAssumption == TargetSum \in 0..Dimension * (Base - 1)
ASSUME MaxTriesAssumption == MaxTries \in Nat
ASSUME LanesAssumption == SIMD_LANES \in Nat \ {0}

Chunks == [1..Dimension -> 0..Base - 1]

ChainTweak(epoch, chain_index, position) ==
  [epoch |-> epoch, chain_index |-> chain_index, position |-> position]

(* The pseudorandom function: starts of chains, and the randomness of an      *)
(* attempt.                                                                   *)
DomainElement(epoch, index) == [epoch |-> epoch, index |-> index]

Randomness(epoch, message, counter) ==
  [epoch |-> epoch, message |-> message, counter |-> counter]

(* Positions in a chain are u8.                                               *)
Chain(epoch, chain_index, from, steps, start) ==
  LET at[j \in 0..steps] ==
        IF j = 0 THEN start
        ELSE Apply(ChainTweak(epoch, chain_index, (from + j) % U8Range), <<at[j - 1]>>)
  IN  at[steps]

(* chain_4: the same chain of several epochs, a step of all at a time.        *)
Chain4(epochs, chain_index, start_position, steps, starts) ==
  LET at[s \in 0..steps] ==
        IF s = 0 THEN starts
        ELSE [lane \in 1..SIMD_LANES |->
                Apply(ChainTweak(epochs[lane], chain_index, (start_position + s) % U8Range),
                      <<at[s - 1][lane]>>)]
  IN  at[steps]

(* The leaf of an epoch: the ends of all its chains, hashed.                  *)
TreeLeaf(epoch) ==
  Apply(TreeTweak(0, epoch),
        [i \in 1..Dimension |->
           Chain(epoch, i - 1, 0, Base - 1, DomainElement(epoch, i - 1))])

BatchLeaves(epochs) ==
  LET ends == [i \in 1..Dimension |->
                 Chain4(epochs, i - 1, 0, Base - 1,
                        [lane \in 1..SIMD_LANES |-> DomainElement(epochs[lane], i - 1)])]
  IN  [lane \in 1..SIMD_LANES |->
         Apply(TreeTweak(0, epochs[lane]), [i \in 1..Dimension |-> ends[i][lane]])]

(* The epochs are taken in batches; those of the last one, when it is not     *)
(* full, one by one.                                                          *)
ComputeTreeLeaves(epochs) ==
  LET batches  == (Len(epochs) + SIMD_LANES - 1) \div SIMD_LANES
      batch(b) == SubSeq(epochs, (b - 1) * SIMD_LANES + 1,
                         Min({b * SIMD_LANES, Len(epochs)}))
  IN  FlattenSeq([b \in 1..batches |->
         IF Len(batch(b)) = SIMD_LANES THEN BatchLeaves(batch(b))
         ELSE [k \in 1..Len(batch(b)) |-> TreeLeaf(batch(b)[k])]])

-------------------------------------------------------------------------------
ChunkSum(x) == FoldFunction(+, 0, x)

(* Faulty: a sum below the target will do.                                    *)
AtMostTargetSum(x) == ChunkSum(x) <= TargetSum

IsCodeword(x) == ChunkSum(x) = TargetSum

(* The attempts at which the retry loop of sign would find a codeword.        *)
GoodAttempts(epoch, message) ==
  {a \in 0..MaxTries - 1 :
     IsCodeword(MessageHash(message, Randomness(epoch, message, a), epoch))}

(* The loop stops at the first.                                               *)
SigningRandomness(epoch, message) ==
  Randomness(epoch, message, Min(GoodAttempts(epoch, message)))

ChainHashes(epoch, x) ==
  [i \in 1..Dimension |-> Chain(epoch, i - 1, 0, x[i], DomainElement(epoch, i - 1))]

(* What verify makes of the hashes of a signature.                            *)
ChainEnds(epoch, x, hashes) ==
  [i \in 1..Dimension |-> Chain(epoch, i - 1, x[i], Base - 1 - x[i], hashes[i])]
===============================================================================
