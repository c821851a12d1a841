-------------------------------- MODULE LeanSig --------------------------------
(* The signature scheme end to end: a secret key with its real trees, the     *)
(* signatures it returns and their verification under the public root. It     *)
(* implements XmssKey, where a tree is only known by its index.               *)
EXTENDS SecretKey, Winternitz

CONSTANTS
  Request,     \* the pairs of an epoch and a count key_gen may be asked for
  SignEpoch,   \* the epochs the owner asks signatures for
  Message      \* the messages to sign

ASSUME HalfTreeAssumption == C = 2^Half
ASSUME SignEpochAssumption == SignEpoch \subseteq Epoch
ASSUME RequestAssumption == \A r \in Request : r[1] \in Nat /\ r[2] \in Nat
(* usize is wide enough for the end of the interval before it is clipped.     *)
ASSUME WideUsize == UsizeRange > Lifetime + 2 * C
(* The message hash yields a chunk for every chain, whatever it is given.     *)
ASSUME MessageHashAssumption ==
  \A m, n \in Message, e \in SignEpoch, a \in 0..MaxTries - 1, f \in Epoch :
    MessageHash(m, Randomness(e, n, a), f) \in Chunks

VARIABLES
  sk,       \* the key: SecretKey's record, with trees for their indices
  root,     \* the public key
  issued,   \* the signatures sign has returned, with what they are for
  reply,    \* what the last call answered
  view      \* the key and the signatures as XmssKey sees them: a function of
            \* sk and issued, kept so that it is computed once in a state

vars == <<sk, root, issued, reply, view>>

Answer(outcome, e) == [outcome |-> outcome, epoch |-> e]

-------------------------------------------------------------------------------
(* bottom_tree_from_prf_key, for every index.                                 *)
BottomTrees ==
  [t \in 0..C - 1 |-> NewBottomTree(t, ComputeTreeLeaves([k \in 1..C |-> t * C + k - 1]))]

(* The top tree over an interval of bottom trees, padded with numbers from    *)
(* the caller's generator.                                                    *)
TopTree(first, after) ==
  NewTopTree("rng", first, [p \in 1..after - first |-> Root(BottomTrees[first + p - 1])])

(* A key with the trees that its indices stand for.                           *)
WithTrees(k, top) ==
  [k EXCEPT !.top_tree = top,
            !.left_bottom_tree = BottomTrees[@],
            !.right_bottom_tree = BottomTrees[@]]

(* The key of an interval of bottom trees.                                    *)
KeyWithTrees(i) == WithTrees(KeyFor(i), TopTree(i.first, i.after))

(* A place in the lowest layer of the top tree holds the root of a bottom     *)
(* tree.                                                                      *)
CommittedAt(top, t, node) ==
  /\ InLowestLayer(top, t)
  /\ top.layers[1].nodes[t - top.layers[1].start_index + 1] = node

(* The key as XmssKey sees it: every tree by its index, the top tree by those *)
(* of the bottom trees whose roots it holds.                                  *)
Indices(k) ==
  [k EXCEPT !.top_tree = {t \in 0..C - 1 : CommittedAt(@, t, Root(BottomTrees[t]))},
            !.left_bottom_tree = BottomTreeIndex(@),
            !.right_bottom_tree = BottomTreeIndex(@)]

(* The bottom trees a signature carries the path of.                          *)
OpenedTrees(s) ==
  {t \in 0..C - 1 : /\ s.epoch \in Leaves(t)
                    /\ Path(BottomTrees[t], s.epoch) = SubSeq(s.sig.path, 1, Half)}

View(k, signatures) ==
  [key    |-> Indices(k),
   issued |-> UNION {{[epoch |-> s.epoch, message |-> s.message, tree |-> t] :
                        t \in OpenedTrees(s)} : s \in signatures}]

-------------------------------------------------------------------------------
Init ==
  /\ \E r \in Request : /\ ValidRequest(r[1], r[2])
                        /\ sk = KeyWithTrees(Expand(r[1], r[2]))
  /\ root = Root(sk.top_tree)
  /\ issued = {}
  /\ reply = Answer("KeyGen", 0)
  /\ view = View(sk, issued)

Signable(e) == InActivation(sk, e) /\ Prepared(sk, e)

SignRefused(e) ==
  /\ ~Signable(e)
  /\ reply' = Answer(IF InActivation(sk, e) THEN "EpochNotPrepared"
                     ELSE "EpochOutsideActivation", e)
  /\ UNCHANGED <<sk, root, issued>>

SignAlreadyUsed(e) ==
  /\ Signable(e)
  /\ InsertPositions(Sorted(sk).used_epochs, e) = {}
  /\ sk' = Sorted(sk)
  /\ reply' = Answer("EpochAlreadyUsed", e)
  /\ UNCHANGED <<root, issued>>

Unused(e) == Signable(e) /\ InsertPositions(Sorted(sk).used_epochs, e) # {}

PathExists(e) == PathsExist(sk.top_tree, BottomTree(sk, e), e)

(* The path comes before the retry loop: its asserts would fire even for a    *)
(* message that has no codeword.                                              *)
SignEncodingFails(e, m) ==
  /\ Unused(e)
  /\ GoodAttempts(e, m) = {}
  /\ sk' = Sorted(sk)
  /\ reply' = Answer(IF PathExists(e) THEN "EncodingAttemptsExceeded"
                     ELSE "Panicked", e)
  /\ UNCHANGED <<root, issued>>

NewSignature(e, m) ==
  LET rho == SigningRandomness(e, m)
  IN  [path   |-> CombinedPath(sk.top_tree, BottomTree(sk, e), e),
       rho    |-> rho,
       hashes |-> ChainHashes(e, MessageHash(m, rho, e))]

SignOk(e, m) ==
  /\ Unused(e)
  /\ GoodAttempts(e, m) # {}
  /\ IF PathExists(e)
     THEN /\ \E p \in InsertPositions(Sorted(sk).used_epochs, e) :
               sk' = Consume(Sorted(sk), p, e)
          /\ issued' = issued \cup
               {[epoch |-> e, message |-> m, sig |-> NewSignature(e, m)]}
          /\ reply' = Answer("Ok", e)
     ELSE /\ sk' = Sorted(sk)
          /\ reply' = Answer("Panicked", e)
          /\ UNCHANGED issued
  /\ UNCHANGED root

Sign(e, m) ==
  \/ SignRefused(e)
  \/ SignAlreadyUsed(e)
  \/ SignEncodingFails(e, m)
  \/ SignOk(e, m)

(* Faulty: the tree that is rebuilt is the one next to the left one.          *)
RebuiltTreeNext(k) == BottomTrees[k.left_bottom_tree_index + 1]

RebuiltTree(k) == BottomTrees[k.left_bottom_tree_index + 2]

AdvancePreparation ==
  IF CanAdvance(sk)
  THEN /\ sk' = [Advanced(sk) EXCEPT !.right_bottom_tree = RebuiltTree(sk)]
       /\ reply' = Answer("Advanced", 0)
       /\ UNCHANGED <<root, issued>>
  ELSE /\ reply' = Answer("NothingToAdvance", 0)
       /\ UNCHANGED <<sk, root, issued>>

Next ==
  /\ \/ \E e \in SignEpoch, m \in Message : Sign(e, m)
     \/ AdvancePreparation
  /\ view' = View(sk', issued')

Spec == Init /\ [][Next]_vars

-------------------------------------------------------------------------------
(* verify, under the public root.                                             *)
Verify(e, m, sig) ==
  LET x == MessageHash(m, sig.rho, e)
  IN  /\ e < Lifetime
      /\ Len(sig.hashes) = Dimension
      /\ IsCodeword(x)
      /\ HashTreeVerify(root, e, ChainEnds(e, x, sig.hashes), sig.path)

(* The codeword a signature was made from.                                    *)
Codeword(s) == MessageHash(s.message, s.sig.rho, s.epoch)

(* Whatever the window has done since, a signature verifies for its epoch and *)
(* message; and it verifies for nothing else, unless another message hashes   *)
(* to the same codeword there.                                                *)
VerifiesExactly ==
  \A s \in issued, e \in 0..U32Range - 1, m \in Message :
    Verify(e, m, s.sig) <=>
      e = s.epoch /\ MessageHash(m, s.sig.rho, e) = Codeword(s)

(* How far down its chains the signatures for an epoch reach: walking on from *)
(* there gives the chain values of the codeword that was signed, and of no    *)
(* other. It takes both one signature per epoch and codewords of one sum.     *)
OneCodewordPerEpoch ==
  \A s \in issued : \A y \in Chunks :
    /\ IsCodeword(y)
    /\ \A i \in 1..Dimension :
         \E t \in issued : t.epoch = s.epoch /\ Codeword(t)[i] <= y[i]
    => y = Codeword(s)

(* The bottom trees in the window are those the public root commits to: what  *)
(* advance_preparation builds again from the pseudorandom function is the     *)
(* tree key_gen had built and thrown away.                                    *)
WindowCommitted ==
  /\ CommittedAt(sk.top_tree, sk.left_bottom_tree_index, Root(sk.left_bottom_tree))
  /\ CommittedAt(sk.top_tree, sk.left_bottom_tree_index + 1,
                 Root(sk.right_bottom_tree))

(* The key is the one XmssKey describes with a tree for every index: each     *)
(* bottom tree is what the pseudorandom function gives for its index, the top *)
(* tree is the one key_gen built, and the public key is its root.             *)
KeyOfTrees ==
  /\ view = View(sk, issued)
  /\ root = Root(sk.top_tree)
  /\ view.key \in SecretKeys /\ KeyShape(view.key)
  /\ \E first, after \in 0..C :
       /\ first + 2 <= after /\ view.key.top_tree = first..after - 1
       /\ sk = WithTrees(view.key, TopTree(first, after))

(* What sign returns for an epoch and a message under a top tree.             *)
SignatureOf(top, e, m) ==
  LET rho == SigningRandomness(e, m)
  IN  [epoch   |-> e,
       message |-> m,
       sig     |-> [path   |-> CombinedPath(top, BottomTrees[e \div C], e),
                    rho    |-> rho,
                    hashes |-> ChainHashes(e, MessageHash(m, rho, e))]]

(* Every signature is the one sign makes for its epoch and message, whatever  *)
(* the window was then, in a bottom tree the public key commits to.           *)
SignaturesMade ==
  \A s \in issued :
    /\ s.epoch \in SignEpoch /\ s.message \in Message
    /\ GoodAttempts(s.epoch, s.message) # {}
    /\ s.epoch \div C \in view.key.top_tree
    /\ s = SignatureOf(sk.top_tree, s.epoch, s.message)

(* The past needs no memory, as the window does not come back to it.          *)
SignedOnce ==
  /\ \A s, t \in issued : s.epoch = t.epoch => s = t
  /\ UsedEpochs(sk) = {s.epoch : s \in issued} \cap PreparedInterval(sk)
  /\ \A s \in issued : s.epoch < PreparedEnd(sk)

(* What every step keeps.                                                     *)
LeanSigInv == KeyOfTrees /\ SignaturesMade /\ SignedOnce

Key == INSTANCE XmssKey WITH
  sk <- view.key,
  issued <- view.issued,
  Encodable <- {em \in SignEpoch \X Message : GoodAttempts(em[1], em[2]) # {}},
  MaxLoaded <- 0

(* With its trees, its chains and its encoding the key still is one that      *)
(* XmssKey describes: no assert on a path ever fires.                         *)
ImplementsXmssKey == Key!Spec
================================================================================
