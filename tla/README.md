# A TLA+ model of LeanSig with BLAKE3

LeanSig is a stateful hash-based signature scheme: a generalized XMSS whose leaves are Winternitz
one-time keys under a target-sum encoding. Its secret key changes with every signature, and its
security rests on that state: each epoch must be signed at most once. These modules model the
state, the algorithms around it and the program that generates keys; TLC checks them on small
instances, TLAPS proves the safety properties for every lifetime and every input. `PROJECT.json`
relates every definition to the source lines it stands for. Paths below are relative to the
repository's `src/`; GX is `signature/generalized_xmss.rs`, HT is `symmetric/tweak_hash_tree.rs`.

## The system

| Component | State | Operations | Model |
|---|---|---|---|
| Secret key (GX) | activation interval, top tree, two bottom trees, index of the left one, used epochs | `sign`, `advance_preparation` (both `&mut self`), `key_gen`, save and load | `SecretKey`, `XmssKey`, `Ascending` |
| Activation interval (GX) | none | `expand_activation_time` | `ActivationInterval` |
| Key generation (GX) | stack of one call; rayon workers | asserts, expansion, two kept trees, the others in parallel, top tree | `KeyGen` |
| Sparse Merkle tree (HT) | layers of nodes | `new_subtree`, `new_top_tree`, `new_bottom_tree`, `path`, `combined_path`, `hash_tree_verify` | `HashTree` |
| One-time signatures (`tweak_hash.rs`, `inc_encoding/target_sum.rs`) | none | chains, encoding, retry loop, leaves in batches | `Winternitz` |
| Verification (GX) | none | `verify` | `LeanSig` |
| Custody of the key | key file, unreleased signature | save, release, crash, reload, restore a copy | `KeyCustody` (external program) |
| `bin/keygen_lifetime32.rs` | arguments, two files | parse, generate, write | `KeygenTool` |
| Message hash (`message_hash/blake3.rs`, MH) | block and bit reservoir of one call | `apply`: chunks from the output stream | `ChunkReader`, its input in `Transcripts`; a constant in `LeanSig` |
| PRF, tweakable hash (`prf/blake3.rs`, `tweak_hash/blake3.rs`) | none | BLAKE3 calls | `Transcripts`, byte by byte; symbolic in `HashTree` and `Winternitz` |
| SIMD batches (`tweak_hash/blake3_simd.rs`) | registers of one call | `keyed_hash_4`, `chain_4` | `Word32`, `Blake3` (external), `Blake3Simd` |
| SSZ layout (GX, HT) | none | encode, decode, `ssz_bytes_len` | `Ssz` (external), `KeyFile`; the structural checks also in `XmssKey` (`Decodable`) |
| Instantiations, `main.rs`, `perf.rs`, benches | none | | not modelled |

Interaction. `key_gen` calls `expand_activation_time`, builds every bottom tree from the PRF key,
keeps two and the roots of all, and puts the top tree over the roots. `sign` checks the epoch
against the activation interval and the window of the two bottom trees, looks it up among the used
epochs, joins a path from the right bottom tree and the top tree, retries encodings, walks the
chains and only then records the epoch. `advance_preparation` drops the left tree, rebuilds the
next, and forgets the used epochs of the tree that is gone. The owner saves and loads the key and
must save it before a signature is released (`signature.rs:65`).

What is hard:

* The list of used epochs is cut at every slide, extended at a position computed long before, and
  searched by a binary search that needs it sorted. It has to agree with the signatures ever made
  over any sequence of calls, including failed ones and loads that check nothing.
* Three pieces of the key (window index, two trees, used epochs) are updated together and never
  compared; a rebuilt tree must be the one the public key committed to.
* Boundaries: bottom-tree alignment, the end of the lifetime, the end of `u32`, the parity of the
  first and last node of every layer of a padded tree.
* Bytes from outside: the decoders slice a file by numbers they have just read from it.
* Two programs for one function: batches of lanes against single hashes. The NEON form is compiled
  on AArch64 only, and the workflow file (`.github/workflows/rust.yml`) runs on no such machine.
* A 16-bit reservoir that bytes enter and chunks of another width leave, across blocks.
* Several actors: rayon's workers in `key_gen`; the owner's process, its file and crashes;
  invocations of the key generation program that share files.

Properties that make each part correct are named in the sections on runs and proofs below.
`PROJECT.json` lists the hazards one by one.

## Modules

| Module | What it is |
|---|---|
| `Ascending` | Sorting with removal of duplicates, binary search, and retain, on sequences of epochs, without recursion. |
| `ActivationInterval` | `expand_activation_time` in modular `usize` arithmetic, `key_gen`'s asserts on its arguments. `C` is the size and the number of bottom trees. |
| `SecretKey` | The key as a record and each method as a function of it. Trees are known by their index, the top tree by the indices of the roots under it. |
| `OneTimeLedger` | Abstract specification: a growing ledger with one message per epoch, and a window that slides forward by `C`. |
| `XmssKey` | State machine of one key: key, signatures issued, last answer. One action per outcome of `sign` and of `advance_preparation`, and one for each kind of reload. |
| `KeyGen` | State machine of one call of `key_gen`, one action per stage and per worker's result. |
| `HashTree` | Merkle trees over symbolic nodes: a node is the term it was computed from. |
| `Winternitz` | Chains, target-sum code, retry loop, leaves in batches of lanes; the message hash is a constant operator. |
| `LeanSig` | `SecretKey` with the real trees of `HashTree` and `Winternitz` in it, and `verify`. Implements `XmssKey`. |
| `KeyCustody` | `XmssKey` with a file, crashes, and a signature that waits to be released. |
| `KeygenTool` | Any number of invocations of `keygen_lifetime32`; every file-system call is a step. |
| `ChunkReader` | State machine of one call of the message hash: blocks, reservoir, rejection. |
| `Word32` | 32-bit words as two halves, since TLC's integers are signed. |
| `Transcripts` | The bytes, key and mode of every hash the code makes: chain starts, signing randomness, chain steps, leaves, inner nodes, messages. |
| `Blake3` | Scalar BLAKE3 of one chunk, keyed or deriving key material, a round per step. External: the `blake3` crate. |
| `Blake3Simd` | One call of `keyed_hash_4` or `chain_4` on AArch64, instruction by instruction, a round of four lanes per step. |
| `Ssz` | Integers and lists of the `ethereum_ssz` crate. External. |
| `KeyFile` | Encodings of keys, trees, openings and signatures, and a file that is damaged before it is read. |
| `MC...` | Constants for TLC. |
| `...Proofs` | Theorems and their proofs. |

Layers: `OneTimeLedger` <- `XmssKey` <- `LeanSig` are related by refinement (properties
`ImplementsLedger` and `ImplementsXmssKey`); `KeyGen` returns the initial key of `XmssKey`
(`KeyAsSpecified`); `KeyCustody` composes `XmssKey` with an owner. `Blake3` <- `Blake3Simd` is a
refinement too, four times over: each lane implements the scalar hash (`LanesAreScalar`), and the
digests are `Scalar(lane)!Digest`. `KeyFile` uses the structural checks of `SecretKey`, and the
trees of `HashTree` in its instance.

### State and actions

`sign` and `advance_preparation` hold the key exclusively, so each is one step; the outcomes of
`sign` are separate actions in the order of its early returns. From the look-up on, every outcome
includes the sort and the removal of duplicates, since they stay done when `sign` fails. The retry
loop is deterministic (randomness comes from the key, epoch, message and attempt), so whether it
succeeds is a constant relation `Encodable` in `XmssKey`, and computed from the message hash in
`LeanSig`. `binary_search` promises a position only for sorted input: `InsertPositions` gives the
one right position there and any position elsewhere. `SaveAndLoad` applies the decoder's structural
checks to the key as it stands; `LoadUnchecked` stands for the derived serde formats, which take
the used epochs in any order and any number of times, and is in `UncheckedSpec` only.

`KeyGen` follows the call line by line; any failed assert leads to `Panicked`. A worker's result is
a step, so the trees are finished in every order, and the call goes on when no tree of the range
handed to the workers is left, however long that range is. `Collect` keeps its order, as `collect`
on an indexed parallel iterator does.

In `HashTree` hashing is free of collisions by construction, the public parameter is left out, and
random padding is a term that names its generator, layer and side; bottom trees share one seed, as
in the code. `verify` is that of a release build: its `debug_assert`s are not modelled. `LeanSig`
has a variable `view`, a function of the key and the signatures, which the refinement mapping
reads; it saves TLC from computing the mapping again at each use.

`LeanSig` computes the leaves of a bottom tree as `compute_tree_leaves` does: as many full batches
of `SIMD_LANES` epochs as there are, all chains of a batch by `Chain4`, and the rest of the epochs
one by one. In that module a lane hashes as the scalar code does; that it really does, on the
machine that has its own code for it, is what `Blake3Simd` checks. There a vector is four words,
every instruction used is an operator on vectors, and a step is one round of `compress4`, the second
block of a chain input, the next step of the chain or the return. The scalar code's bytes are those
of `Transcripts`. `Blake3` is written from what the BLAKE3 paper defines and the crate computes,
without looking at the vectors; its initial state and each of its rounds must be what every lane
goes through. Without AArch64 both functions call the scalar crate once a lane, so nothing is left
to compare.

`ChunkReader` has one action per place where the loop of `apply` may turn: a block is filled, a byte
enters the reservoir, a chunk leaves it, or, for alphabets that are no power of two, a byte is taken
or rejected. The reservoir keeps its 16 bits. `read` records the stream for the properties only.

In `KeyFile` bytes are digits of base `Radix`; widths, offsets and fixed sizes are the code's,
except that a hash has `HASH_LENGTH` bytes. A decoder gives a set of at most one value, and
`Panicked` where the code would slice out of range. The file may be cut anywhere, be followed by
other bytes, or have one byte changed; it is damaged once and read once.

`KeyCustody` is modelled from what the documentation of `sign` asks of its caller. The write of the
file is atomic; a crash may come at any point and loses the memory. The owner asks for one
signature at a time. `KeygenTool` splits `write_key` at every file-system call, lets each fail, and
lets an invocation be killed anywhere. `create_new` is atomic, as the operating system makes it.
All invocations share the two files: those with one prefix do, and also those whose prefixes differ
only behind the last dot, which `with_extension` replaces.

## Runs

| Run | Instance | Checks |
|---|---|---|
| `XmssKey` | `C = 4` (sixteen epochs, four bottom trees), four activation requests, seven epochs at both sides of each boundary, two messages | `TypeOK`, `OneSignaturePerEpoch`, `Reloadable`, `SignaturesOpen`, `PathAvailable`, `UsedIsIssued`, `RefusalsTruthful`, `WindowSlides`, `ImplementsLedger` |
| `XmssKeyUnchecked` | lifetime fills `u32`; unchecked loads of lists up to `MaxLoaded = 4`; `AdvancePreparation` fair | `OneSignaturePerEpoch`, `SignNormalises`, `EveryEpochPrepared` |
| `KeyGen` | `C = 8`, up to six workers' trees, requests on both sides of every boundary | `ValidRequestServed`, `KeyCoversRequest`, `SmallestCover`, `RootsInPlace`, `KeyAsSpecified` |
| `KeyGenDepthTwo` | `C = 2` | violates `ValidRequestServed` |
| `KeyGenNarrowUsize` | `C = 4`, `usize` of sixteen values | violates `ValidRequestServed` |
| `KeyCustody` | `C = 4`, three epochs, crashes, copies and restores at any time | `OneReleasedPerEpoch`, `ReleasedOnDisk`, `DiskLoads`, `OneReleasedPerLine` |
| `LeanSig` | depth four, a lifetime that fills `u32`, two chains of three values that fill `u8`, codewords of sum two, three requests (one top tree padded at both sides) | `VerifiesExactly`, `OneCodewordPerEpoch`, `WindowCommitted`, `ImplementsXmssKey` |
| `Blake3Simd` | six calls: the arguments of the repository's known answers and of its tests of both functions against the scalar ones, epochs 0 and 2^32 - 1, up to three steps, the last chain index and last position; for the uses that are not batched, the calls of the repository's known answers; forty-four calls of all uses to tell apart | `KnownAnswers`, `DigestsAreScalar`, `TranscriptsSeparate`, `LanesAreScalar` |
| `ChunkReader` | eight alphabets, five chunks, blocks of two bytes, five byte values | `ChunksAreBitGroups`, `ReservoirFits`, `RejectionIsUniform`, `ReadsWhatItNeeds` |
| `KeyFile` | three keys of sixteen epochs, a public key, a signature; every cut, every changed byte | `RoundTrip`, `Canonical`, `NeverPanics`, `CutLosesOnlyTheEnd` |
| `KeygenTool` | two invocations, files present or not before | `NothingOverwritten`, `PublicHasSecret`, `SuccessMeansPair` |
| `KeygenToolOptIn` | every count up to one past the lifetime | violates `FullLifetimeConfirmed` |

Bounds. `C = 4` is the smallest half tree for which the code runs (see the first finding). With four
bottom trees the window of two slides twice, so that a tree is first ahead, then on the right, on
the left and gone, which is all a tree can go through; requests that need rounding, widening to two
trees and moving back from the end of the lifetime are among the initial keys. Epochs to sign are
those next to boundaries, where the comparisons of the code differ. Two messages make two
signatures for one epoch distinguishable. `MaxLoaded = 4` is one more than the number of used
epochs it takes to make an unsorted list with a repetition that a binary search misses. The bounds
of the other modules:

* `LeanSig`, `U8Range = 3` and `U32Range = 16`: the alphabet is the widest its positions allow, as base
  256 is in a `u8`, so a chain ends at the last position there is; the lifetime is all of `u32`, so
  that the last windows put the boundary between their trees within one tree of its end.
* `LeanSig`, `SIMD_LANES = 3`: a tree of four leaves has one full batch and a tail of one, so both
  loops run. With the code's four lanes it would have a batch and no tail.
* `ChunkReader`: five chunks of three or seven bits cross the borders of bytes and of two-byte blocks
  and leave bits over; alphabets of 3, 7 and 200 reject bytes, 128 and 256 are the widest. The five
  byte values include the acceptance limits of three (255) and of seven (252). `MaxRead = 5` bounds
  the bytes, which is all a power of two needs; the others may be cut off in the middle of a run of
  rejections.
* `KeyFile`, `Radix = 8`, hashes of two bytes: a `u64` of small value and a `u32` fit TLC's integers,
  while offsets still reach far behind the end of the file. The keys have used epochs in neither
  tree and in both, and a top tree with and without padding.
* `Blake3Simd` computes with real words; its inputs are few because the code has no branch on data,
  so that a wrong schedule, rotation or offset shows with any input that is not symmetric. The
  theorems cover all inputs. `KnownAnswers` also hashes the repository's test calls of every use in
  `Transcripts` and compares with the digests its tests expect. `TranscriptsSeparate` takes calls that
  differ in one argument, or whose neighbouring arguments begin and end with the same bytes; the
  theorem takes all calls.

Every run explores all reachable states of its instance.

Deadlock is checked in all runs but those of `KeyGen`, `KeygenTool`, `ChunkReader`, `KeyFile` and
`Blake3Simd`, which end.

### Fairness

`XmssKeyUnchecked` assumes weak fairness of `AdvancePreparation` alone: the owner who waits for an
epoch calls it in a loop, as the test template does (`signature.rs:113`). Nothing is assumed of
`sign` or of loads, which may come in between at any time. `ChunkReader` assumes that the loop runs
on. It then ends for alphabets that are powers of two; for the others nothing is claimed, as a
stream may be rejected for as long as one likes, if ever less probably. Of `KeyGen` no
progress is claimed, and no fairness assumed.

### Findings

1. `KeyGenDepthTwo`: the compile-time asserts of `key_gen` admit `LOG_LIFETIME = 2` ("must be at
   least 2", GX:596), but `new_bottom_tree` asserts a depth of more than two (HT:301). Every call
   of `key_gen` with that parameter panics (`DepthTwoServesNone`, proved for every request).
2. `KeyGenNarrowUsize`: the comment at GX:605 has the validation done in `u64` "so a 2^32 lifetime
   does not truncate on 32-bit targets", but the expansion computes `1usize << LOG_LIFETIME`
   (GX:480). On such a target every valid request panics (`NarrowUsizeServesNone`).
3. `KeygenToolOptIn`: a full-lifetime run is said to require `--allow-full-lifetime`
   (`KEYGEN_BENCHMARKS.md:60`, `bin/keygen_lifetime32.rs:34`), but the guard looks at the requested
   count only. A count within one bottom tree of the lifetime is rounded up to all of it.

## Proofs

`tlapm` proves these for all values of the constants, from the named assumptions of the modules. Key
life assumes `C >= 2`, a `u32` that holds the lifetime, and `WideUsize`: a `usize` in which the end
of the interval does not wrap before it is moved back. Key generation assumes the same of `usize`,
and `C > 2`; the two violated runs above show that neither can be dropped there. `LeanSig` assumes
besides an even depth of at most 32 and `C = 2^Half`, as `expand_activation_time` computes it;
alphabets of two values to as many as a `u8` has, no more chains than that and a target sum a
codeword can have, all three of which `encode` asserts (`U8Range` stands for 256 there); any number of
lanes; and of the message hash only that it yields a chunk for every chain, which is what
`ChunkReader` is about. `ChunkReader` assumes an alphabet of 2 to 256
values, bytes that are bytes, and blocks and answers that are not empty. `KeyFile` assumes a byte of
2 to 256 values, hashes of at least one byte, a `u32` of four bytes, and values that can be written
(`Writable`): numbers within the widths of their fields, the last offset within a `u32`, since
`ssz_append` casts it without a look, and keys in a state their decoder takes, as `AlwaysReloadable`
says the methods leave them. `Blake3Simd` assumes of a call what the types in the code say: 32 bytes
in a key, a parameter and a value, a `u32` for an epoch, a `u64` (two words) for an index; a tag
short enough for the input to fit one block, which `keyed_hash` asserts; and, of a chain, that it
has a step to take and positions that fit a byte, as `compute_tree_leaves` takes them from an
alphabet of at most 256 values. `Transcripts` assumes two tags that differ at some place both have,
and four different keys of contexts (the contexts differ, the keys are BLAKE3 hashes of them), and
of `Uses`, the calls compared, only that they are calls.

* `SecretKeyProofs`: what sorting, retaining, searching and inserting do to sets and order
  (`Ascending`); `ExpandCovers` and `ExpandSmallest`, by linear arithmetic over multiples of `C`;
  what each method does to a key of the right shape (`KeyShape`).
* `XmssKeyProofs`: `KeyInvariant` and `CheckedInvariant`, and from them all safety properties of
  the runs `XmssKey` and `XmssKeyUnchecked`, the action property and the refinement of
  `OneTimeLedger`. All but `AlwaysReloadable` hold for `UncheckedSpec` too. What is left of
  `EveryEpochPrepared` without fairness: a slide is possible exactly while an active epoch is ahead
  (`AdvanceAvailable`), and each one counts for every epoch ahead (`SlidesCount`). And for the key
  with its owner, `CustodyInvariant` and the four properties of the run `KeyCustody`.
* `KeyGenProofs`: `KeyGenInvariant` and the safety properties of the run `KeyGen`; a bound on the
  steps of a call, whatever the order of its workers (`BoundedCall`); and the first two findings, for
  every request.
* `KeygenToolProofs`: `ToolInvariant` and the three properties of the run `KeygenTool`, for any number
  of invocations.
* `LeanSigProofs`: first the trees and the one-time signatures as functions. A path through a bottom
  tree and a top tree leads to the root from its own leaf and place only (`PathVerifiesOnly`), for
  any depth and any interval, padding included, and nothing else of any length verifies there
  (`OnePathVerifies`); batches of lanes give every epoch its own leaf
  (`BatchIsLeaves`, `LeavesOneByOne`); a signature's hashes lead to the ends of the chains for the
  codeword it was made from and no other (`EndsMeet`); no codeword lies above another
  (`Incomparable`). Then the whole: the asserts of `new_subtree` hold for every tree (`TreesFit`),
  the invariant `LeanSigInv`, the three invariants of the run `LeanSig`, what `verify` accepts
  (`AcceptsOwnOnly`, `NoOtherFromAbove`), and that `LeanSig` implements `XmssKey` and
  `OneTimeLedger`.
* `ChunkReaderProofs`: the invariant `ReaderInv`, the three invariants of the run `ChunkReader`, and
  that a complete answer has read no byte it did not need (`ReadsNoByteMore`).
* `KeyFileProofs`: the invariant `FileInv` and the four invariants of the run `KeyFile`, for values and
  files of any size.
* `Blake3SimdProofs`: the invariant `SimdInv`, that every lane implements the scalar hash
  (`LanesAreScalarHolds`), and that the hashes handed on and returned are the scalar digests
  (`DigestsAreScalarHolds`), whatever the arguments; and that no two hash calls of the code have one
  transcript (`TranscriptsSeparateHolds`).

The inductive invariant of the key. `OneSignaturePerEpoch` alone is not inductive, as used epochs
are forgotten. `KeyInv` adds: used epochs are exactly the signed ones inside the window
(`UsedIsIssued`), and no signature lies ahead of the window (`NoneAhead`). An epoch behind the
window was signed with the list as it was then and can never be signed again, because the window
only moves forward; one inside is in the list; one ahead has no signature. `KeyShape` ties index,
trees and intervals together, so that a slide drops exactly the epochs that leave the window and the
path always exists. `UsedAscending`, which an unchecked load breaks and the next look-up restores,
is separate, and gives `Reloadable`.

The inductive invariant of `key_gen`. `KeyGenInv` says stage by stage that past the asserts the
request is valid and the interval its expansion, that the two kept trees come first, and that no
worker finishes a tree twice. At the join all trees of the range are finished, none twice; in the
order of the range they are the roots `RootsInPlace` asks for.

The inductive invariant of custody. `KeyInv` is of no use once the process may crash: the key then
goes back behind signatures `sign` has returned, and `UsedIsIssued` no longer holds. `CustodyInv`
speaks of each copy of the key instead, the one in memory, the file and the backup, and of the
signatures released before it: `Keeps(k, sigs)` says that the epochs of `sigs` inside the window of
`k` are used in `k`, that none lies ahead of it, and that they are all different. `sign` keeps it
for the signatures in `line` and the one pending, a slide keeps it, `Release` moves it to the file
because the file then equals the memory, and a crash or a restore only puts one copy in the place of
another. Lemmas of `SecretKeyProofs` do the rest.

The inductive invariant of the key generation program. `HasItsFiles(p)` says which files invocation
`p` has at each place of `write_key`. Another invocation cannot disturb it: it only makes files that
are not there, and only completes one that is its own.

The inductive invariant of the whole scheme. `VerifiesExactly` speaks of signatures made under
earlier windows, so `LeanSigInv` says what they are without speaking of the past: each is what
`sign` makes for its epoch and message under the one top tree (`SignaturesMade`), whichever of the
two bottom trees it came from. That needs `KeyOfTrees`: the key is a key of `XmssKey` with the
trees put in its indices' places, and its top tree is the one `key_gen` built over an interval. So
`advance_preparation` rebuilds the tree that was committed to, and the methods of `XmssKey` and
those here do the same to the index and the used epochs, which is also the refinement. `SignedOnce`
is the argument of `KeyInv` again. `SignaturesVerify` then follows from `PathVerifiesOnly` and
`EndsMeet`, `OneCodewordSigned` from `SignedOnce` and `Incomparable`. TLC has checked `LeanSigInv`
on the instance of the run.

What `verify` accepts. `VerifiesExactly` is about the signatures that were made; `AcceptedExactly` is
about every sequence of digests there is. `HashTreeVerify` climbs as many levels as it was given
hashes, and the tweak of the root tells how many those were; from there the proof comes back down
(`LadderDescends`): under each node on the way, which was hashed from two children, the value and
the hash beside it must be those two. So the path is the one of the epoch (`OnePathVerifies`), at
its end is the leaf of a bottom tree and no padding (`EndsOnlyFrom`), and the chain ends in it are
those of the epoch, which leaves one value per chain. Then a second signature for a signed epoch is
either the first one or has, by `Incomparable`, a lower value in some chain (`NoOtherFromAbove`),
and a lower value cannot be had by hashing on from the one that was given away. All this is about
symbolic hashes: it says that nothing is left to hope for but a collision or an inverse of one.

Induction over data. The library's induction theorems cannot be used here, so the lemmas on layers,
chains, sums, digits and lists rest on one of our own (`Induction`, in `LeanSigProofs` and
`KeyFileProofs`): a set of numbers that holds zero and the successor of each of its members holds
them all, because below a number left out the members left out could be moved into fewer places.
Sums over a function are taken from the definition of the fold, one index after another.

The inductive invariant of the reader. `ReaderInv` says where in the stream the reader is: the bits
of the reservoir are the bits of the stream from the end of the chunks taken to the last byte read.
The last chunk is pushed but not shifted out (`Taken`), which is why the loop may stop there. A byte
goes above at most seven bits, so that fifteen of the sixteen are enough. The bound is proved with
powers of two by name and the three facts about bits it takes (`BitBelow`, `BitShifted`,
`BitAbove`).

The file. `FileInv` only says that what was read is what the decoder makes of the bytes there are;
the rest is about encoders and decoders, as functions. Each struct has two lemmas. `Read...`: its
decoder takes its encoding for one value, the one encoded. `Write...`: bytes that its decoder takes
are the encoding of the value it returns. They rest on the same pair for integers (digits to a
number and back), for lists of one length (`FixedOfJoin`, `JoinOfFixed`) and for lists with offsets
(`ReadList`, `WriteList`), where the pieces between the offsets are joined again (`JoinOfSlices`) or
cut out again (`SlicesOfJoin`). That no two files hold one value follows from `Write...`, that no
slice is out of range from the order of the offsets (`OffsetsInside`). For a file that was cut,
`StandsInCut` says that what stands before the cut is still there: all offsets are, so the parts
before the last are whole, and the last is a list of one length, of which whole items are left
(`FixedPrefix`).

The lanes. `SimdInv` types the registers: words in every lane, values that are hashes, counters in
their bounds. From there the proof goes up as the code does. `Rotate16Lane` to `Rotate7Lane`,
`AddLane` and `XorLane` say what an instruction does to one lane: a shuffle of halves, a shift with
insertion and a table of bytes are all rotations. `FirstHalfLane` and `SecondHalfLane` make them the
two halves of `g`, `GLane` the whole, `RoundedLane` a round; no lane reads another. The scalar code
permutes its words after each round, and the rows of `MSG_SCHEDULE` are the powers of that
permutation (`ScheduleSteps`). The inputs: what is written into arrays at fixed offsets is the
pieces the scalar functions feed one after another (`DomainInputLane`, `ChainInputLane`), in one
block or in two (`FirstBlocksLane`, `LastBlocksLane`); constants, lengths and flags are those of
that input (`LoadedLane`), and the transposed output is the digest of the lane (`DigestLane`). A
step of `chain_4` that begins is a scalar hash that begins (`FreshStarted`), at the start of the
call and after every step.

The transcripts. Nothing in the bytes says where one argument ends and the next begins, so that two
calls might hash the same. `TranscriptsSeparateHolds` says they never do, for all arguments and all
six uses. Keyed and derived hashes differ in a flag; the derived ones in the key of their context, so
a leaf is no inner node, a node no chain value and neither a message; the two keyed uses in a byte of
their tags, at a place both have. Within one use all fields but the last have one length and are
read back from the front (`CatHead`, `CatTail`), and the inputs of a leaf, of which there may be any
number, are cut at every 32nd byte (`SameInputs`). With a BLAKE3 without collisions the hash of a
call then stands for the call and all its arguments, which is what `HashTree` and `Winternitz` take
for granted when they write a hash as the term it came from. Keys and parameters are left out there:
in one key there is one of each.

Only model-checked:

* `EveryEpochPrepared` and `ReadsWhatItNeeds`: liveness is out of the prover's reach. The safety half
  of each is proved: `AdvanceAvailable` with `SlidesCount`, and `ReadsNoByteMore`. What stays with TLC
  is that the steps in question are enabled and that fairness makes them happen.
* `KnownAnswers`: digests of single inputs, with all their bytes, are to be computed, not proved.

## Not modelled

* Instantiations (`instantiations_blake3.rs`): type aliases and numbers, which are the constants of the
  modules; the traits have no code of their own.
* `main.rs`, `perf.rs`, benches: timing and printing.
* Sampling of keys and parameters, and cryptographic strength. Trees and chains hash symbolically,
  without collisions; the bytes hashed are in `Transcripts`.
* BLAKE3 outputs of more than one block and inputs of more than one chunk, which the batched functions
  never have. The output stream that the message hash reads is any stream.
* The formats of the derived serde implementations, except that they check nothing on load.
* A write of the key that is not atomic. `CutLosesOnlyTheEnd` shows what it would cost: `used_epochs`
  is the last part of the encoding and its length is that of the rest of the file, so a file cut
  between two used epochs loads, with the later ones forgotten. The owner has to replace the file as
  a whole, which is what `KeyCustody` takes for granted.
* `sign` may be interrupted by a panic only at an assert, and those of the paths never fire
  (`AlwaysAvailable`, `RefinesXmssKey`, `TreesFit`).

## Plan

Done, in this order: activation interval and key life with its ledger; key generation; custody; the
key generation program; trees, chains and verification; proofs of the first three; message hash,
SSZ encodings, leaves in batches, the NEON form of both hashes; proofs about custody, the key
generation program, trees, chains, the whole scheme, the message hash, the SSZ encodings and the
NEON form of both hashes; the transcripts of all hashes and their separation; what `verify` accepts,
the scheme as a ledger, the safety halves of the two liveness properties, the bound on a call of
`key_gen`, and the first two findings for
every request.

Nothing of the plan is left. The loop of the test template (`signature.rs:113`), which calls
`advance_preparation` while the epoch is not prepared and at most as often as the epoch is large,
has no state of its own and no module: by `AdvanceAvailable` its bound is never what stops it short
of an epoch that can be reached, and by `SlidesCount` each turn brings it one slide nearer.
