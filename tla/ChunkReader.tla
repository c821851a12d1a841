----------------------------- MODULE ChunkReader -----------------------------
(* How Blake3MessageHash::apply turns the output stream of BLAKE3 into the    *)
(* chunks the target-sum encoding counts: a block of bytes at a time, and for *)
(* a power-of-two alphabet through a reservoir of 16 bits. The bytes of the   *)
(* stream are any of a set.                                                   *)
EXTENDS Integers, Sequences, FiniteSets

CONSTANTS
  Bases,        \* BASE of the instantiations
  DIMENSION,    \* the chunks to produce
  BlockLen,     \* the bytes read from the stream at once; 64 in the code
  StreamBytes,  \* the bytes the stream may hold
  MaxRead       \* bound: the bytes consumed

VARIABLES
  BASE,            \* of this instantiation; it never changes
  chunks,
  unread,          \* the bytes of the block not looked at yet
  reservoir,
  available_bits,  \* the bits of the reservoir that are the stream's
  read             \* the bytes consumed so far: history only

vars == <<BASE, chunks, unread, reservoir, available_bits, read>>

ASSUME BasesAssumption == Bases \subseteq 2..256
ASSUME DimensionAssumption == DIMENSION \in Nat \ {0}
ASSUME BlockLenAssumption == BlockLen \in Nat \ {0}
ASSUME StreamAssumption == StreamBytes \subseteq 0..255
ASSUME MaxReadAssumption == MaxRead \in Nat

-------------------------------------------------------------------------------
IsPowerOfTwo == \E k \in 0..8 : BASE = 2^k

bits_per_chunk == CHOOSE k \in 0..8 : BASE = 2^k

acceptance_limit == 256 - (256 % BASE)

(* Faulty: the limit itself is accepted.                                      *)
AcceptedInclusive(byte) == byte <= acceptance_limit

Accepted(byte) == byte < acceptance_limit

Complete == Len(chunks) = DIMENSION

Init ==
  /\ BASE \in Bases
  /\ chunks = <<>>
  /\ unread = 0
  /\ reservoir = 0
  /\ available_bits = 0
  /\ read = <<>>

(* Faulty: a last whole chunk stays in the reservoir.                         *)
DrainedButOne == IsPowerOfTwo => available_bits <= bits_per_chunk

(* Every chunk the reservoir holds has been taken out of it.                  *)
Drained == IsPowerOfTwo => available_bits < bits_per_chunk

FillBlock ==
  /\ ~Complete /\ Drained /\ unread = 0
  /\ unread' = BlockLen
  /\ UNCHANGED <<BASE, chunks, reservoir, available_bits, read>>

NextByte(byte) ==
  /\ ~Complete /\ Drained /\ unread > 0
  /\ Len(read) < MaxRead
  /\ unread' = unread - 1
  /\ read' = Append(read, byte)
  /\ UNCHANGED BASE

(* Faulty: the byte takes the place of the bits still in the reservoir.       *)
ReserveByteOnly(byte) ==
  /\ IsPowerOfTwo
  /\ NextByte(byte)
  /\ reservoir' = (byte * 2^available_bits) % 2^16
  /\ available_bits' = available_bits + 8
  /\ UNCHANGED chunks

(* The byte goes above the bits still in the reservoir, which are all below   *)
(* 2^available_bits: the bitwise or is a sum. What a u16 cannot hold is lost. *)
ReserveByte(byte) ==
  /\ IsPowerOfTwo
  /\ NextByte(byte)
  /\ reservoir' = (reservoir + byte * 2^available_bits) % 2^16
  /\ available_bits' = available_bits + 8
  /\ UNCHANGED chunks

(* Faulty: the bits pushed stay in the reservoir.                             *)
PushBitsUnshifted ==
  /\ IsPowerOfTwo
  /\ ~Complete /\ ~Drained
  /\ chunks' = Append(chunks, reservoir % BASE)
  /\ available_bits' = available_bits - bits_per_chunk
  /\ UNCHANGED <<BASE, unread, reservoir, read>>

(* The loop is left with the last chunk, before the reservoir is shifted.     *)
PushBits ==
  /\ IsPowerOfTwo
  /\ ~Complete /\ ~Drained
  /\ chunks' = Append(chunks, reservoir % BASE)
  /\ IF Len(chunks') = DIMENSION
     THEN UNCHANGED <<reservoir, available_bits>>
     ELSE /\ reservoir' = reservoir \div BASE
          /\ available_bits' = available_bits - bits_per_chunk
  /\ UNCHANGED <<BASE, unread, read>>

(* The other alphabets: a byte is a chunk or is rejected.                     *)
SampleByte(byte) ==
  /\ ~IsPowerOfTwo
  /\ NextByte(byte)
  /\ chunks' = IF Accepted(byte) THEN Append(chunks, byte % BASE) ELSE chunks
  /\ UNCHANGED <<reservoir, available_bits>>

Next ==
  \/ FillBlock
  \/ PushBits
  \/ \E byte \in StreamBytes : ReserveByte(byte) \/ SampleByte(byte)

Spec == Init /\ [][Next]_vars

(* The loop runs on.                                                          *)
FairSpec == Spec /\ WF_vars(Next)

-------------------------------------------------------------------------------
Bit(x, n) == (x \div 2^n) % 2

StreamBit(n) == Bit(read[1 + (n \div 8)], n % 8)

(* The chunks of a power-of-two alphabet are disjoint groups of consecutive   *)
(* bits of the stream, across the borders of bytes and blocks, and no bit     *)
(* between them is left out: uniform bits make uniform, independent chunks.   *)
ChunksAreBitGroups ==
  IsPowerOfTwo =>
    \A i \in 1..Len(chunks), j \in 0..bits_per_chunk - 1 :
      Bit(chunks[i], j) = StreamBit((i - 1) * bits_per_chunk + j)

(* The reservoir always has room for a whole byte, and holds nothing above    *)
(* the bits it counts: no byte of the stream is cut off or mixed with another.*)
ReservoirFits ==
  /\ reservoir < 2^available_bits
  /\ Drained => available_bits + 8 <= 16

(* A uniform byte makes a uniform chunk in the other alphabets too: every     *)
(* chunk comes from equally many of the bytes that are accepted.              *)
RejectionIsUniform ==
  Complete /\ ~IsPowerOfTwo =>
    \A c \in 0..BASE - 1 :
      Cardinality({byte \in 0..255 : Accepted(byte) /\ byte % BASE = c}) = 256 \div BASE

Returned ==
  IsPowerOfTwo => Complete /\ Len(read) = (DIMENSION * bits_per_chunk + 7) \div 8

(* A power-of-two alphabet rejects nothing: its chunks are always completed,  *)
(* by the bytes that hold their bits and none after them.                     *)
ReadsWhatItNeeds == <>[]Returned

(* No byte is read that holds no bit of a chunk.                              *)
ReadsNoMore ==
  IsPowerOfTwo /\ Complete => Len(read) = (DIMENSION * bits_per_chunk + 7) \div 8

(* The chunks that have left the reservoir: the last one is pushed from it    *)
(* and stays.                                                                 *)
Taken == IF Complete THEN DIMENSION - 1 ELSE Len(chunks)

(* The reservoir holds the bits of the stream that follow those taken, up to  *)
(* the last one read.                                                         *)
ReservoirIsStream ==
  /\ available_bits \in 0..bits_per_chunk + 7
  /\ Complete => available_bits >= bits_per_chunk
  /\ reservoir \in 0..2^available_bits - 1
  /\ Taken * bits_per_chunk + available_bits = 8 * Len(read)
  /\ \A j \in 0..available_bits - 1 :
       Bit(reservoir, j) = StreamBit(Taken * bits_per_chunk + j)

(* What every step keeps.                                                     *)
ReaderInv ==
  /\ BASE \in Bases
  /\ chunks \in Seq(0..BASE - 1) /\ Len(chunks) <= DIMENSION
  /\ unread \in 0..BlockLen
  /\ read \in Seq(StreamBytes)
  /\ IF IsPowerOfTwo THEN ReservoirIsStream /\ ChunksAreBitGroups
     ELSE reservoir = 0 /\ available_bits = 0
===============================================================================
