------------------------------ MODULE Transcripts ------------------------------
(* What is hashed, byte by byte, in every use the code makes of BLAKE3: the   *)
(* starts of chains and the signing randomness (prf), the steps of chains,    *)
(* the leaves and the inner nodes of the tree (tweak_hash) and the message.   *)
(* A use is a keyed hash, or a hash derived from a context of its own.        *)
EXTENDS Integers, Sequences, Word32

CONSTANTS
  CHAIN_START_TAG,         \* the bytes that separate the two uses
  SIGNING_RANDOMNESS_TAG,  \* of the pseudorandom function
  CHAIN_CONTEXT_KEY,       \* the keys derived from the contexts
  TREE_LEAF_CONTEXT_KEY,
  TREE_NODE_CONTEXT_KEY,
  MESSAGE_CONTEXT_KEY,
  Uses                     \* calls whose transcripts are compared

Hash == [1..32 -> U8]

(* A 64-bit number is the pair of its 32-bit halves, the low one first.       *)
U64 == U32 \X U32

(* keyed_hash asserts that its input fits one block. Neither tag begins with  *)
(* the other.                                                                 *)
ASSUME TagAssumption ==
  /\ CHAIN_START_TAG \in Seq(U8) /\ Len(CHAIN_START_TAG) + 4 + 8 <= 64
  /\ SIGNING_RANDOMNESS_TAG \in Seq(U8)
  /\ \E i \in 1..Len(CHAIN_START_TAG) :
       i <= Len(SIGNING_RANDOMNESS_TAG) /\ CHAIN_START_TAG[i] # SIGNING_RANDOMNESS_TAG[i]

ASSUME ContextKeyAssumption ==
  /\ {CHAIN_CONTEXT_KEY, TREE_LEAF_CONTEXT_KEY, TREE_NODE_CONTEXT_KEY, MESSAGE_CONTEXT_KEY}
       \subseteq Hash
  /\ CHAIN_CONTEXT_KEY \notin {TREE_LEAF_CONTEXT_KEY, TREE_NODE_CONTEXT_KEY, MESSAGE_CONTEXT_KEY}
  /\ TREE_LEAF_CONTEXT_KEY \notin {TREE_NODE_CONTEXT_KEY, MESSAGE_CONTEXT_KEY}
  /\ TREE_NODE_CONTEXT_KEY # MESSAGE_CONTEXT_KEY

-------------------------------------------------------------------------------
Le32(word) == ToBytes(word)

Le64(number) == ToBytes(number[1]) \o ToBytes(number[2])

(* The flags of the two modes.                                                *)
KEYED_HASH          == 16
DERIVE_KEY_MATERIAL == 64

(* A hasher: what it starts from and all it has been fed.                     *)
Keyed(key, bytes) == [mode |-> KEYED_HASH, key |-> key, bytes |-> bytes]

Derived(context_key, bytes) ==
  [mode |-> DERIVE_KEY_MATERIAL, key |-> context_key, bytes |-> bytes]

get_domain_element(key, epoch, index) ==
  Keyed(key, CHAIN_START_TAG \o Le32(epoch) \o Le64(index))

get_randomness(key, epoch, message, counter) ==
  Keyed(key, SIGNING_RANDOMNESS_TAG \o Le32(epoch) \o message \o Le64(counter))

ChainStep(parameter, epoch, chain_index, position, value) ==
  Derived(CHAIN_CONTEXT_KEY,
          parameter \o Le32(epoch) \o <<chain_index, position>> \o value)

(* A count as u32.                                                            *)
CountWord(n) == <<n % Half16, (n \div Half16) % Half16>>

Concatenated(values) ==
  [i \in 1..32 * Len(values) |-> values[1 + ((i - 1) \div 32)][1 + ((i - 1) % 32)]]

(* Faulty: the level is left out.                                             *)
LevelUnhashed(parameter, level, position, input_count) ==
  parameter \o Le32(position) \o Le32(CountWord(input_count))

initialized_tree_hasher(parameter, level, position, input_count) ==
  parameter \o <<level>> \o Le32(position) \o Le32(CountWord(input_count))

TreeHash(parameter, level, position, inputs) ==
  Derived(IF level = 0 THEN TREE_LEAF_CONTEXT_KEY ELSE TREE_NODE_CONTEXT_KEY,
          initialized_tree_hasher(parameter, level, position, Len(inputs))
            \o Concatenated(inputs))

MessageHash(parameter, epoch, randomness, message) ==
  Derived(MESSAGE_CONTEXT_KEY, parameter \o Le32(epoch) \o randomness \o message)

-------------------------------------------------------------------------------
(* The calls of all of these. Inner nodes have two inputs.                    *)
ChainStartCalls == [use: {"chain start"}, key: Hash, epoch: U32, index: U64]

RandomnessCalls == [use: {"randomness"}, key: Hash, epoch: U32, message: Hash, counter: U64]

ChainStepCalls ==
  [use: {"chain step"}, parameter: Hash, epoch: U32, chain_index: U8, position: U8, value: Hash]

TreeCalls ==
  {c \in [use: {"tree"}, parameter: Hash, level: U8, position: U32, inputs: Seq(Hash)] :
     c.level = 0 \/ Len(c.inputs) = 2}

MessageCalls == [use: {"message"}, parameter: Hash, epoch: U32, randomness: Hash, message: Hash]

HashCalls == ChainStartCalls \cup RandomnessCalls \cup ChainStepCalls \cup TreeCalls \cup MessageCalls

Transcript(c) ==
  CASE c.use = "chain start" -> get_domain_element(c.key, c.epoch, c.index)
    [] c.use = "randomness"  -> get_randomness(c.key, c.epoch, c.message, c.counter)
    [] c.use = "chain step"  -> ChainStep(c.parameter, c.epoch, c.chain_index, c.position, c.value)
    [] c.use = "tree"        -> TreeHash(c.parameter, c.level, c.position, c.inputs)
    [] c.use = "message"     -> MessageHash(c.parameter, c.epoch, c.randomness, c.message)

ASSUME UsesAssumption == Uses \subseteq HashCalls

(* The transcripts of different calls are different: one use cannot be        *)
(* mistaken for another, one place or input for another, nor the end of one   *)
(* input for the start of the next. This is what lets the trees and chains of *)
(* HashTree and Winternitz stand for the hashes by the terms they come from.  *)
TranscriptsSeparate ==
  \A c, d \in Uses : Transcript(c) = Transcript(d) => c = d
===============================================================================
