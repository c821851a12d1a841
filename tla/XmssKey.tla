------------------------------- MODULE XmssKey --------------------------------
(* One secret key in the hands of its owner: key_gen, and then sign,          *)
(* advance_preparation and a save and load of the key in any order. sign and  *)
(* advance_preparation take &mut self, so each is one step.                   *)
EXTENDS SecretKey

CONSTANTS
  Request,     \* the pairs of an epoch and a count key_gen may be asked for
  SignEpoch,   \* the epochs the owner asks signatures for
  Message,     \* the messages to sign
  Encodable,   \* the epochs and messages whose retry loop finds a codeword
  MaxLoaded    \* longest used_epochs that LoadUnchecked makes

ASSUME SignEpochAssumption == SignEpoch \subseteq Epoch
ASSUME RequestAssumption == \A r \in Request : r[1] \in Nat /\ r[2] \in Nat
ASSUME EncodableAssumption == Encodable \subseteq SignEpoch \X Message
ASSUME MaxLoadedAssumption == MaxLoaded \in Nat
(* usize is wide enough for the end of the interval before it is clipped.     *)
ASSUME WideUsize == UsizeRange > Lifetime + 2 * C

VARIABLES
  sk,       \* the key in memory
  issued,   \* the signatures sign has returned
  reply     \* what the last call answered

vars == <<sk, issued, reply>>

Outcome == {"KeyGen", "Ok", "EpochOutsideActivation", "EpochNotPrepared",
            "EpochAlreadyUsed", "EncodingAttemptsExceeded", "Advanced",
            "NothingToAdvance", "Loaded", "BytesInvalid"}

(* A signature names the bottom tree whose path it carries.                   *)
Signature(e, m, t) == [epoch |-> e, message |-> m, tree |-> t]

Answer(outcome, e) == [outcome |-> outcome, epoch |-> e]

Init ==
  /\ \E r \in Request : /\ ValidRequest(r[1], r[2])
                        /\ sk = KeyFor(Expand(r[1], r[2]))
  /\ issued = {}
  /\ reply = Answer("KeyGen", 0)

-------------------------------------------------------------------------------
SignOutsideActivation(e) ==
  /\ ~InActivation(sk, e)
  /\ reply' = Answer("EpochOutsideActivation", e)
  /\ UNCHANGED <<sk, issued>>

(* Faulty: the window is looked at before the activation interval.            *)
SignNotPreparedFirst(e) ==
  /\ ~Prepared(sk, e)
  /\ reply' = Answer("EpochNotPrepared", e)
  /\ UNCHANGED <<sk, issued>>

SignNotPrepared(e) ==
  /\ InActivation(sk, e)
  /\ ~Prepared(sk, e)
  /\ reply' = Answer("EpochNotPrepared", e)
  /\ UNCHANGED <<sk, issued>>

(* From here on used_epochs has been sorted, whatever sign returns.           *)
Signable(e) == InActivation(sk, e) /\ Prepared(sk, e)

SignAlreadyUsed(e) ==
  /\ Signable(e)
  /\ InsertPositions(Sorted(sk).used_epochs, e) = {}
  /\ reply' = Answer("EpochAlreadyUsed", e)
  /\ sk' = Sorted(sk)
  /\ UNCHANGED issued

(* Faulty: the epoch is recorded before the retry loop.                       *)
SignEncodingBurns(e, m) ==
  /\ Signable(e)
  /\ <<e, m>> \notin Encodable
  /\ \E p \in InsertPositions(Sorted(sk).used_epochs, e) :
       sk' = Consume(Sorted(sk), p, e)
  /\ reply' = Answer("EncodingAttemptsExceeded", e)
  /\ UNCHANGED issued

(* Randomness is derived from the key, the epoch, the message and the count   *)
(* of attempts, so a retry loop that fails fails on every call.               *)
SignEncodingFails(e, m) ==
  /\ Signable(e)
  /\ InsertPositions(Sorted(sk).used_epochs, e) # {}
  /\ <<e, m>> \notin Encodable
  /\ reply' = Answer("EncodingAttemptsExceeded", e)
  /\ sk' = Sorted(sk)
  /\ UNCHANGED issued

SignOk(e, m) ==
  /\ Signable(e)
  /\ <<e, m>> \in Encodable
  /\ \E p \in InsertPositions(Sorted(sk).used_epochs, e) :
       sk' = Consume(Sorted(sk), p, e)
  /\ issued' = issued \cup {Signature(e, m, BottomTree(sk, e))}
  /\ reply' = Answer("Ok", e)

Sign(e, m) ==
  \/ SignOutsideActivation(e)
  \/ SignNotPrepared(e)
  \/ SignAlreadyUsed(e)
  \/ SignEncodingFails(e, m)
  \/ SignOk(e, m)

-------------------------------------------------------------------------------
AdvancePreparation ==
  /\ CanAdvance(sk)
  /\ sk' = Advanced(sk)
  /\ reply' = Answer("Advanced", 0)
  /\ UNCHANGED issued

NothingToAdvance ==
  /\ ~CanAdvance(sk)
  /\ reply' = Answer("NothingToAdvance", 0)
  /\ UNCHANGED <<sk, issued>>

(* The key is encoded and the bytes decoded again; a refusal leaves the owner *)
(* with bytes no decoder takes.                                               *)
SaveAndLoad ==
  /\ reply' = Answer(IF Decodable(sk) THEN "Loaded" ELSE "BytesInvalid", 0)
  /\ UNCHANGED <<sk, issued>>

Next ==
  \/ \E e \in SignEpoch, m \in Message : Sign(e, m)
  \/ AdvancePreparation
  \/ NothingToAdvance
  \/ SaveAndLoad

Spec == Init /\ [][Next]_vars

(* The derived serde formats carry used_epochs as it stands in the file: the  *)
(* same epochs, but in any order and any number of times.                     *)
LoadUnchecked ==
  \E used \in BoundedSeq(UsedEpochs(sk), MaxLoaded) :
    /\ Range(used) = UsedEpochs(sk)
    /\ sk' = [sk EXCEPT !.used_epochs = used]
    /\ reply' = Answer("Loaded", 0)
    /\ UNCHANGED issued

UncheckedSpec == Init /\ [][Next \/ LoadUnchecked]_vars

(* The owner keeps advancing until the window has reached the epochs of       *)
(* interest, as the loop of the signature scheme's test template does.        *)
FairSpec == UncheckedSpec /\ WF_vars(AdvancePreparation)

-------------------------------------------------------------------------------
(* Types of the key, of the signatures returned and of the last answer.       *)
TypeOK ==
  /\ sk \in SecretKeys
  /\ issued \subseteq [epoch: SignEpoch, message: Message, tree: Nat]
  /\ reply \in [outcome: Outcome, epoch: Nat]

(* "A key may sign once per epoch": sign never returns two signatures for one *)
(* epoch, whatever slides, retries, saves and loads come between the calls.   *)
OneSignaturePerEpoch ==
  \A s, t \in issued : s.epoch = t.epoch => s = t

(* Every key the methods can produce passes the checks of its own decoder, so *)
(* a saved key is never refused when it is loaded.                            *)
Reloadable == Decodable(sk)

(* Every signature carries the path of its own epoch's leaf, in a bottom tree *)
(* the public root commits to: verify would recompute the root from it.       *)
SignaturesOpen ==
  \A s \in issued : PathDefined(sk, s.tree, s.epoch)

(* No assert of combined_path can fire: for every epoch of the window, the    *)
(* bottom tree sign picks for it holds its leaf.                              *)
PathAvailable ==
  \A e \in PreparedInterval(sk) : PathDefined(sk, BottomTree(sk, e), e)

(* Inside the window the list of used epochs is exactly what was signed: a    *)
(* call that fails does not burn its epoch, one that succeeds always does.    *)
UsedIsIssued ==
  UsedEpochs(sk) = {s.epoch : s \in issued} \cap PreparedInterval(sk)

(* sign says EpochAlreadyUsed only of an epoch it returned a signature for,   *)
(* and EpochNotPrepared only of one that lies in the activation interval and  *)
(* outside the window.                                                        *)
RefusalsTruthful ==
  /\ reply.outcome = "EpochAlreadyUsed" =>
       \E s \in issued : s.epoch = reply.epoch
  /\ reply.outcome = "EpochNotPrepared" =>
       reply.epoch \in ActivationIntervalOf(sk) \ PreparedInterval(sk)

(* sign leaves the vector canonical even when an unchecked load did not: any  *)
(* answer that follows the look-up of the epoch leaves a key the canonical    *)
(* decoder takes.                                                             *)
SignNormalises ==
  reply.outcome \in {"Ok", "EpochAlreadyUsed", "EncodingAttemptsExceeded"} =>
    Decodable(sk)

(* The window only slides forward, by one bottom tree at a time, inside an    *)
(* activation interval and under a top tree that never change, and the tree   *)
(* that was on the right is kept as the left one.                             *)
WindowSlides ==
  [][/\ ActivationIntervalOf(sk') = ActivationIntervalOf(sk)
     /\ sk'.top_tree = sk.top_tree
     /\ PreparedStart(sk') \in {PreparedStart(sk), PreparedStart(sk) + C}
     /\ PreparedStart(sk') # PreparedStart(sk) =>
          sk'.left_bottom_tree = sk.right_bottom_tree]_vars

(* The leaves of bottom tree t are active, and have been in the window.       *)
ActiveTree(t) ==
  /\ sk.activation_epoch <= C * t
  /\ C * t + C <= sk.activation_epoch + sk.num_active_epochs

Reached(t) == t <= sk.right_bottom_tree

(* An owner who keeps calling advance_preparation sees every active epoch     *)
(* come into the window: the end of the interval is reached, not short of it. *)
EveryEpochPrepared ==
  \A t \in 0..C - 1 : ActiveTree(t) ~> Reached(t)

(* No signature is ahead of the window.                                       *)
NoneAhead == \A s \in issued : s.epoch < PreparedEnd(sk)

(* What every step keeps, an unchecked load included: the key has its shape,  *)
(* and what is remembered in used_epochs is what was signed. The past needs   *)
(* no memory, as the window does not come back to it.                         *)
KeyInv ==
  /\ TypeOK
  /\ KeyShape(sk)
  /\ UsedIsIssued
  /\ NoneAhead
  /\ OneSignaturePerEpoch
  /\ SignaturesOpen

(* What the steps of Next keep besides.                                       *)
UsedAscending == StrictlyAscending(sk.used_epochs)

Ledger == INSTANCE OneTimeLedger WITH
  ledger <- {<<s.epoch, s.message>> : s \in issued},
  start  <- PreparedStart(sk),
  last   <- ActivationEnd(sk)

(* The key implements the one-time ledger.                                    *)
ImplementsLedger == Ledger!Spec
===============================================================================
