------------------------------- MODULE KeyFile -------------------------------
(* The canonical SSZ encodings of the secret key, the public key and a        *)
(* signature, kept in a file that may be cut short, lengthened or changed in  *)
(* one byte before it is read again. Offsets and lengths are the code's; a    *)
(* hash has HASH_LENGTH bytes.                                                *)
EXTENDS SecretKey, Ssz

CONSTANTS
  HASH_LENGTH,   \* 32 in the code
  Values,        \* what may be written: records of a kind and its data
  Tails          \* what the file may hold beyond what was written

VARIABLES
  value,    \* what was written
  bytes,    \* the file
  fault,    \* what happened to the file
  read,     \* whether the file has been read
  loaded    \* the value it was read as: none, if it was refused

vars == <<value, bytes, fault, read, loaded>>

ASSUME HashLengthAssumption == HASH_LENGTH \in Nat \ {0}
ASSUME OffsetAssumption == U32Range = Weight[4]

U64Range == Weight[8]

-------------------------------------------------------------------------------
(* What there is to write: structs whose fields have the widths of the code's.*)
Hashes == [1..HASH_LENGTH -> Byte]

U64Number == 0..U64Range - 1

Layers == [start_index: U64Number, nodes: Seq(Hashes)]

SubTrees == [depth: U64Number, lowest_layer: U64Number, layers: Seq(Layers)]

Openings == [co_path: Seq(Hashes)]

Signatures == [path: Openings, rho: Hashes, hashes: Seq(Hashes)]

PublicKeys == [root: Hashes, parameter: Hashes]

KeysInBytes ==
  [prf_key: Hashes, parameter: Hashes,
   activation_epoch: U64Number, num_active_epochs: U64Number,
   left_bottom_tree_index: U64Number,
   top_tree: SubTrees, left_bottom_tree: SubTrees, right_bottom_tree: SubTrees,
   used_epochs: Seq(Epoch)]

(* The value of a decoder that a slice out of range ends in a panic.          *)
Panicked == [panicked |-> TRUE]

DecodeHash(b) == DecodeArray(b, HASH_LENGTH)

DecodeHashes(b) ==
  LET items == FixedItems(b, HASH_LENGTH)
  IN  AllDecoded([i \in DOMAIN items |-> DecodeHash(items[i])])

-------------------------------------------------------------------------------
(* HashTreeLayer, HashSubTree and HashTreeOpening.                            *)

(* Faulty: the offset of the list of nodes is not counted.                    *)
LayerBytesLenNoOffset(layer) == 8 + HASH_LENGTH * Len(layer.nodes)

LayerBytesLen(layer) == 8 + 4 + HASH_LENGTH * Len(layer.nodes)

EncodeLayer(layer) == U64(layer.start_index) \o U32(12) \o FlattenSeq(layer.nodes)

(* Faulty: the offset is not looked at.                                       *)
DecodeLayerAnyOffset(b) ==
  IF Len(b) < 12 THEN {}
  ELSE {[start_index |-> U64At(b, 0), nodes |-> nodes] :
          nodes \in DecodeHashes(Slice(b, 12, Len(b)))}

DecodeLayer(b) ==
  IF Len(b) < 12 \/ U32At(b, 8) # 12 THEN {}
  ELSE {[start_index |-> U64At(b, 0), nodes |-> nodes] :
          nodes \in DecodeHashes(Slice(b, 12, Len(b)))}

DecodeLayers(b) ==
  UNION {AllDecoded([i \in DOMAIN items |-> DecodeLayer(items[i])]) : items \in VariableItems(b)}

SubTreeBytesLen(tree) ==
  LET len[l \in 0..Len(tree.layers)] ==
        IF l = 0 THEN 8 + 8 + 4 ELSE len[l - 1] + 4 + LayerBytesLen(tree.layers[l])
  IN  len[Len(tree.layers)]

EncodeSubTree(tree) ==
  U64(tree.depth) \o U64(tree.lowest_layer) \o U32(20)
    \o EncodeVariableList([l \in 1..Len(tree.layers) |-> EncodeLayer(tree.layers[l])])

DecodeSubTree(b) ==
  IF Len(b) < 20 \/ U32At(b, 16) # 20 THEN {}
  ELSE {[depth |-> U64At(b, 0), lowest_layer |-> U64At(b, 8), layers |-> layers] :
          layers \in DecodeLayers(Slice(b, 20, Len(b)))}

OpeningBytesLen(opening) == 4 + HASH_LENGTH * Len(opening.co_path)

EncodeOpening(opening) == U32(4) \o FlattenSeq(opening.co_path)

DecodeOpening(b) ==
  IF Len(b) < 4 \/ U32At(b, 0) # 4 THEN {}
  ELSE {[co_path |-> nodes] : nodes \in DecodeHashes(Slice(b, 4, Len(b)))}

-------------------------------------------------------------------------------
(* GeneralizedXMSSSignature                                                   *)

SignatureFixedSize == 4 + HASH_LENGTH + 4

SignatureBytesLen(sig) ==
  SignatureFixedSize + OpeningBytesLen(sig.path) + HASH_LENGTH * Len(sig.hashes)

EncodeSignature(sig) ==
  U32(SignatureFixedSize) \o sig.rho
    \o U32(SignatureFixedSize + OpeningBytesLen(sig.path))
    \o EncodeOpening(sig.path) \o FlattenSeq(sig.hashes)

SignatureOffsetsOrdered(offset_path, offset_hashes, len) ==
  offset_path <= offset_hashes /\ offset_hashes <= len

DecodeSignature(b) ==
  LET offset_path   == U32At(b, 0)
      offset_hashes == U32At(b, 4 + HASH_LENGTH)
  IN  IF Len(b) < SignatureFixedSize THEN {}
      ELSE IF offset_path # SignatureFixedSize THEN {}
      ELSE IF ~SignatureOffsetsOrdered(offset_path, offset_hashes, Len(b)) THEN {}
      ELSE IF ~IsSlice(b, offset_path, offset_hashes) THEN {Panicked}
      ELSE {[path |-> path, rho |-> Slice(b, 4, 4 + HASH_LENGTH), hashes |-> hashes] :
              path \in DecodeOpening(Slice(b, offset_path, offset_hashes)),
              hashes \in DecodeHashes(Slice(b, offset_hashes, Len(b)))}

-------------------------------------------------------------------------------
(* GeneralizedXMSSPublicKey                                                   *)

EncodePublicKey(pk) == pk.root \o pk.parameter

DecodePublicKey(b) ==
  IF Len(b) # 2 * HASH_LENGTH THEN {}
  ELSE {[root |-> Slice(b, 0, HASH_LENGTH), parameter |-> Slice(b, HASH_LENGTH, Len(b))]}

-------------------------------------------------------------------------------
(* GeneralizedXMSSSecretKey                                                   *)

SecretKeyFixedSize == 2 * HASH_LENGTH + 8 + 8 + 4 + 8 + 4 + 4 + 4

SecretKeyBytesLen(k) ==
  SecretKeyFixedSize + SubTreeBytesLen(k.top_tree) + SubTreeBytesLen(k.left_bottom_tree)
    + SubTreeBytesLen(k.right_bottom_tree) + 4 * Len(k.used_epochs)

EncodeSecretKey(k) ==
  LET offset_top_tree     == SecretKeyFixedSize
      offset_left_bottom  == offset_top_tree + SubTreeBytesLen(k.top_tree)
      offset_right_bottom == offset_left_bottom + SubTreeBytesLen(k.left_bottom_tree)
      offset_used_epochs  == offset_right_bottom + SubTreeBytesLen(k.right_bottom_tree)
  IN  k.prf_key \o k.parameter
        \o U64(k.activation_epoch) \o U64(k.num_active_epochs)
        \o U32(offset_top_tree) \o U64(k.left_bottom_tree_index)
        \o U32(offset_left_bottom) \o U32(offset_right_bottom) \o U32(offset_used_epochs)
        \o EncodeSubTree(k.top_tree)
        \o EncodeSubTree(k.left_bottom_tree) \o EncodeSubTree(k.right_bottom_tree)
        \o FlattenSeq([i \in 1..Len(k.used_epochs) |-> U32(k.used_epochs[i])])

(* The offsets of the four variable parts, and the end of the last.           *)
Offsets(b) ==
  LET pos == 2 * HASH_LENGTH
  IN  <<U32At(b, pos + 16), U32At(b, pos + 28), U32At(b, pos + 32), U32At(b, pos + 36), Len(b)>>

(* Faulty: the last offset is not compared with the end.                      *)
OffsetsOrderedButLast(o) == \A i \in 1..3 : o[i] <= o[i + 1]

OffsetsOrdered(o) == \A i \in 1..4 : o[i] <= o[i + 1]

(* The sums and the product of the checks that follow stay inside u64.        *)
NoOverflow(k) ==
  /\ k.activation_epoch + k.num_active_epochs < U64Range
  /\ k.left_bottom_tree_index * C < U64Range
  /\ k.left_bottom_tree_index * C + 2 * C < U64Range

(* Faulty: the last chunk may be short.                                       *)
DecodeUsedEpochsShort(b) ==
  LET items == FixedItems(b, 4)
  IN  AllDecoded([i \in DOMAIN items |-> {IntegerAt(items[i], 0, Len(items[i]))}])

DecodeUsedEpochs(b) ==
  LET items == FixedItems(b, 4)
  IN  AllDecoded([i \in DOMAIN items |-> DecodeInteger(items[i], 4)])

SecretKeysRead(b, o) ==
  LET pos     == 2 * HASH_LENGTH
      Part(i) == Slice(b, o[i], o[i + 1])
  IN  {[prf_key |-> Slice(b, 0, HASH_LENGTH), parameter |-> Slice(b, HASH_LENGTH, pos),
        activation_epoch |-> U64At(b, pos), num_active_epochs |-> U64At(b, pos + 8),
        left_bottom_tree_index |-> U64At(b, pos + 20),
        top_tree |-> top, left_bottom_tree |-> left, right_bottom_tree |-> right,
        used_epochs |-> used] :
          top \in DecodeSubTree(Part(1)), left \in DecodeSubTree(Part(2)),
          right \in DecodeSubTree(Part(3)), used \in DecodeUsedEpochs(Part(4))}

DecodeSecretKey(b) ==
  IF Len(b) < SecretKeyFixedSize THEN {}
  ELSE LET o == Offsets(b)
       IN  IF o[1] # SecretKeyFixedSize \/ ~OffsetsOrdered(o) THEN {}
           ELSE IF \E i \in 1..4 : ~IsSlice(b, o[i], o[i + 1]) THEN {Panicked}
           ELSE {k \in SecretKeysRead(b, o) : NoOverflow(k) /\ Decodable(k)}

-------------------------------------------------------------------------------
(* Serializable                                                               *)

ToBytes(v) ==
  CASE v.kind = "secret key" -> EncodeSecretKey(v.data)
    [] v.kind = "public key" -> EncodePublicKey(v.data)
    [] v.kind = "signature"  -> EncodeSignature(v.data)

FromBytes(kind, b) ==
  CASE kind = "secret key" -> DecodeSecretKey(b)
    [] kind = "public key" -> DecodePublicKey(b)
    [] kind = "signature"  -> DecodeSignature(b)

BytesLen(v) ==
  CASE v.kind = "secret key" -> SecretKeyBytesLen(v.data)
    [] v.kind = "public key" -> 2 * HASH_LENGTH
    [] v.kind = "signature"  -> SignatureBytesLen(v.data)

(* The last of the offsets and the largest, which has to fit a u32; what      *)
(* stands behind it may be longer.                                            *)
LastOffset(v) ==
  CASE v.kind = "secret key" -> SecretKeyBytesLen(v.data) - 4 * Len(v.data.used_epochs)
    [] v.kind = "public key" -> 0
    [] v.kind = "signature"  -> SignatureFixedSize + OpeningBytesLen(v.data.path)

(* What to_bytes is asked to write. A key is in a state that its own decoder  *)
(* takes, as every key is that the methods make: Reloadable in XmssKey.       *)
Writable(v) ==
  /\ \/ v.kind = "secret key" /\ v.data \in KeysInBytes
        /\ NoOverflow(v.data) /\ Decodable(v.data)
     \/ v.kind = "public key" /\ v.data \in PublicKeys
     \/ v.kind = "signature" /\ v.data \in Signatures
  /\ LastOffset(v) < U32Range

ASSUME ValuesAssumption == \A v \in Values : Writable(v)
ASSUME TailsAssumption == Tails \subseteq Seq(Byte)

Init ==
  /\ value \in Values
  /\ bytes = ToBytes(value)
  /\ fault = "none"
  /\ read = FALSE
  /\ loaded = {}

Damage(kind, b) ==
  /\ ~read /\ fault = "none"
  /\ fault' = kind
  /\ bytes' = b
  /\ UNCHANGED <<value, read, loaded>>

(* The write stopped half-way, or the file lost its end.                      *)
Cut == \E n \in 0..Len(bytes) - 1 : Damage("cut", SubSeq(bytes, 1, n))

(* The file had been longer.                                                  *)
Lengthen == \E tail \in Tails : Damage("lengthened", bytes \o tail)

Change ==
  \E i \in DOMAIN bytes, b \in Byte :
    b # bytes[i] /\ Damage("changed", [bytes EXCEPT ![i] = b])

Load ==
  /\ ~read
  /\ read' = TRUE
  /\ loaded' = FromBytes(value.kind, bytes)
  /\ UNCHANGED <<value, bytes, fault>>

Next == Cut \/ Lengthen \/ Change \/ Load

Spec == Init /\ [][Next]_vars

-------------------------------------------------------------------------------
(* How the file relates to what was written, and what was read to the file.   *)
FileInv ==
  /\ value \in Values /\ bytes \in Seq(Byte)
  /\ fault = "none" => bytes = ToBytes(value)
  /\ fault = "cut" =>
       \E n \in 0..Len(ToBytes(value)) - 1 : bytes = SubSeq(ToBytes(value), 1, n)
  /\ loaded = IF read THEN FromBytes(value.kind, bytes) ELSE {}

(* What was written is what is read, and ssz_bytes_len, which places every    *)
(* offset, announces the length the encoding turns out to have.               *)
RoundTrip ==
  read /\ fault = "none" => loaded = {value.data} /\ Len(bytes) = BytesLen(value)

(* The encoding is canonical: bytes that are accepted, damaged ones included, *)
(* are the encoding of the value they are taken for, and no two files hold    *)
(* the same value.                                                            *)
Canonical ==
  \A v \in loaded \ {Panicked} : ToBytes([kind |-> value.kind, data |-> v]) = bytes

(* Offsets read from a file never slice it out of range: a damaged key is     *)
(* refused with an error, not with a panic.                                   *)
NeverPanics == Panicked \notin loaded

IsProperPrefixOf(s, t) == Len(s) < Len(t) /\ s = SubSeq(t, 1, Len(s))

(* A file that lost its end is refused, or has lost nothing but the last used *)
(* epochs of a key or the last hashes of a signature, which verify counts.    *)
(* The former makes spent epochs look fresh: the decoder cannot tell, and the *)
(* owner has to replace the file as a whole.                                  *)
CutLosesOnlyTheEnd ==
  fault = "cut" =>
    \A v \in loaded :
      \/ /\ value.kind = "secret key"
         /\ v = [value.data EXCEPT !.used_epochs = v.used_epochs]
         /\ IsProperPrefixOf(v.used_epochs, value.data.used_epochs)
      \/ /\ value.kind = "signature"
         /\ v = [value.data EXCEPT !.hashes = v.hashes]
         /\ IsProperPrefixOf(v.hashes, value.data.hashes)
===============================================================================
