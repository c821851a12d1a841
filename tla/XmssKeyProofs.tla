---------------------------- MODULE XmssKeyProofs -----------------------------
(* The invariants of XmssKey hold for half trees of any size, any requests,   *)
(* epochs and messages. Everything but the order of used_epochs is proved of  *)
(* UncheckedSpec, which has every behaviour of Spec. The invariants of        *)
(* KeyCustody, the key and its file, are at the end.                          *)
EXTENDS KeyCustody, SecretKeyProofs

(* Only the assumptions a step needs are visible in it.                       *)
LEMMA SignEpochs ==
  /\ SignEpoch \subseteq Epoch /\ SignEpoch \subseteq Nat
  /\ SignEpoch \subseteq Int
  BY SignEpochAssumption, U32Assumption DEF Epoch

LEMMA InitKeyInv == Init => KeyInv /\ UsedAscending
<1> SUFFICES ASSUME Init PROVE KeyInv /\ UsedAscending OBVIOUS
<1>1. PICK r \in Request : /\ ValidRequest(r[1], r[2])
                           /\ sk = KeyFor(Expand(r[1], r[2]))
  BY DEF Init
<1>2. issued = {} /\ reply = Answer("KeyGen", 0) BY DEF Init
<1>3. r[1] \in Nat /\ r[2] \in Nat BY RequestAssumption
<1> DEFINE i == Expand(r[1], r[2])
<1>4. i.first \in Nat /\ i.after \in Nat /\ i.first + 2 <= i.after /\ i.after <= C
  <2>1. UsizeRange > Lifetime + 2 * C BY WideUsize
  <2> QED BY <1>1, <1>3, <2>1, ExpandCovers DEF Covers
<1> HIDE DEF i
<1>5. sk = KeyFor(i) BY <1>1 DEF i
<1>6. /\ sk \in SecretKeys /\ KeyShape(sk)
      /\ sk.used_epochs = << >> /\ UsedEpochs(sk) = {}
  BY <1>4, <1>5, GeneratedKey
<1>7. TypeOK BY <1>2, <1>6 DEF TypeOK, Answer, Outcome
<1>8. UsedIsIssued BY <1>2, <1>6 DEF UsedIsIssued
<1>9. NoneAhead /\ OneSignaturePerEpoch /\ SignaturesOpen
  BY <1>2 DEF NoneAhead, OneSignaturePerEpoch, SignaturesOpen
<1>10. UsedAscending
  <2>1. DOMAIN << >> = {} OBVIOUS
  <2> QED BY <1>6, <2>1 DEF UsedAscending, StrictlyAscending
<1> QED BY <1>6, <1>7, <1>8, <1>9, <1>10 DEF KeyInv

(* A step that leaves the signatures and the window alone keeps the           *)
(* invariant, whatever it does to the order of the used epochs.               *)
LEMMA QuietStep ==
  ASSUME KeyInv, sk' \in SecretKeys, KeyShape(sk'),
         UsedEpochs(sk') = UsedEpochs(sk),
         PreparedStart(sk') = PreparedStart(sk),
         PreparedEnd(sk') = PreparedEnd(sk),
         sk'.top_tree = sk.top_tree,
         issued' = issued, reply' \in [outcome: Outcome, epoch: Nat]
  PROVE  KeyInv'
<1>1. TypeOK' BY DEF KeyInv, TypeOK
<1>2. PreparedInterval(sk') = PreparedInterval(sk) BY DEF PreparedInterval
<1>3. UsedIsIssued' BY <1>2 DEF KeyInv, UsedIsIssued
<1>4. NoneAhead' BY DEF KeyInv, NoneAhead
<1>5. OneSignaturePerEpoch' BY DEF KeyInv, OneSignaturePerEpoch
<1>6. SignaturesOpen' BY DEF KeyInv, SignaturesOpen, PathDefined
<1> QED BY <1>1, <1>3, <1>4, <1>5, <1>6 DEF KeyInv

(* A signature is only returned for an epoch that has none: in the window,    *)
(* the list of used epochs remembers them all.                                *)
LEMMA SignOkStep ==
  ASSUME KeyInv, NEW e \in SignEpoch, NEW m \in Message, SignOk(e, m)
  PROVE  /\ KeyInv' /\ UsedAscending'
         /\ \A s \in issued : s.epoch # e
         /\ e \in PreparedInterval(sk)
         /\ PreparedStart(sk') = PreparedStart(sk)
         /\ ActivationEnd(sk') = ActivationEnd(sk)
         /\ sk'.activation_epoch = sk.activation_epoch
         /\ sk'.top_tree = sk.top_tree
<1> DEFINE k == Sorted(sk)
           t == BottomTree(sk, e)
<1>1. /\ sk \in SecretKeys /\ KeyShape(sk)
      /\ issued \subseteq [epoch: SignEpoch, message: Message, tree: Nat]
  BY DEF KeyInv, TypeOK
<1>2. /\ k \in SecretKeys /\ StrictlyAscending(k.used_epochs)
      /\ UsedEpochs(k) = UsedEpochs(sk) /\ KeyShape(k)
      /\ PreparedStart(k) = PreparedStart(sk) /\ PreparedEnd(k) = PreparedEnd(sk)
      /\ ActivationEnd(k) = ActivationEnd(sk)
      /\ k.activation_epoch = sk.activation_epoch /\ k.top_tree = sk.top_tree
  BY <1>1, SortedKey
<1>3. e \in Epoch /\ e \in Int /\ e \in Nat BY SignEpochs
<1>4. PICK p \in InsertPositions(k.used_epochs, e) : sk' = Consume(k, p, e)
  BY DEF SignOk
<1>5. e \in PreparedInterval(sk) BY DEF SignOk, Signable, Prepared
<1>6. issued' = issued \cup {Signature(e, m, t)} /\ reply' = Answer("Ok", e)
  BY DEF SignOk
<1> HIDE DEF k, t
<1>7. /\ sk' \in SecretKeys /\ StrictlyAscending(sk'.used_epochs)
      /\ UsedEpochs(sk') = UsedEpochs(sk) \cup {e} /\ KeyShape(sk')
      /\ PreparedStart(sk') = PreparedStart(sk)
      /\ PreparedEnd(sk') = PreparedEnd(sk)
      /\ ActivationEnd(sk') = ActivationEnd(sk)
      /\ sk'.activation_epoch = sk.activation_epoch
      /\ sk'.top_tree = sk.top_tree
  BY <1>2, <1>3, <1>4, ConsumedKey
<1>8. e \notin UsedEpochs(sk)
  <2>1. k.used_epochs \in Seq(Epoch) /\ Epoch \subseteq Int
    BY <1>2, Numbers DEF SecretKeys
  <2>2. InsertPositions(k.used_epochs, e) = {} <=> e \in Range(k.used_epochs)
    BY <1>2, <1>3, <2>1, InsertPositionExists
  <2>3. e \notin Range(k.used_epochs) BY <1>4, <2>2
  <2>4. e \notin UsedEpochs(k) BY <2>3 DEF UsedEpochs
  <2> QED BY <1>2, <2>4
<1>9. \A s \in issued : s.epoch # e
  BY <1>5, <1>8 DEF KeyInv, UsedIsIssued
<1>10. PathDefined(sk, t, e) /\ t \in Nat BY <1>1, <1>5, PickedTree DEF t
<1> DEFINE new == Signature(e, m, t)
<1>11. new.epoch = e /\ new.tree = t /\ new.message = m BY DEF Signature
<1>12. TypeOK'
  <2>1. new \in [epoch: SignEpoch, message: Message, tree: Nat]
    BY <1>10 DEF Signature
  <2>2. reply' \in [outcome: Outcome, epoch: Nat]
    BY <1>3, <1>6 DEF Answer, Outcome
  <2> QED BY <1>1, <1>6, <1>7, <2>1, <2>2 DEF TypeOK
<1> HIDE DEF new
<1>13. issued' = issued \cup {new} BY <1>6 DEF new
<1>14. PreparedInterval(sk') = PreparedInterval(sk)
  BY <1>7 DEF PreparedInterval
<1>15. UsedIsIssued'
  <2>1. {s.epoch : s \in issued'} = {s.epoch : s \in issued} \cup {e}
    BY <1>11, <1>13
  <2>2. UsedEpochs(sk) = {s.epoch : s \in issued} \cap PreparedInterval(sk)
    BY DEF KeyInv, UsedIsIssued
  <2> QED BY <1>5, <1>7, <1>14, <2>1, <2>2 DEF UsedIsIssued
<1>16. NoneAhead'
  <2>1. e < PreparedEnd(sk)
    BY <1>1, <1>5, KeyTypes DEF PreparedInterval
  <2> QED BY <1>7, <1>11, <1>13, <2>1 DEF KeyInv, NoneAhead
<1>17. OneSignaturePerEpoch'
  BY <1>9, <1>11, <1>13 DEF KeyInv, OneSignaturePerEpoch
<1>18. SignaturesOpen'
  BY <1>7, <1>10, <1>11, <1>13 DEF KeyInv, SignaturesOpen, PathDefined
<1>19. KeyInv' BY <1>7, <1>12, <1>15, <1>16, <1>17, <1>18 DEF KeyInv
<1> QED BY <1>5, <1>7, <1>9, <1>19 DEF UsedAscending

(* A slide only forgets epochs the window cannot come back to.                *)
LEMMA AdvanceStep ==
  ASSUME KeyInv, AdvancePreparation
  PROVE  /\ KeyInv'
         /\ UsedAscending => UsedAscending'
<1>1. /\ sk \in SecretKeys /\ KeyShape(sk)
      /\ issued \subseteq [epoch: SignEpoch, message: Message, tree: Nat]
  BY DEF KeyInv, TypeOK
<1>2. /\ CanAdvance(sk) /\ sk' = Advanced(sk) /\ issued' = issued
      /\ reply' = Answer("Advanced", 0)
  BY DEF AdvancePreparation
<1>3. /\ sk' \in SecretKeys /\ KeyShape(sk')
      /\ StrictlyAscending(sk.used_epochs) => StrictlyAscending(sk'.used_epochs)
      /\ PreparedStart(sk') = PreparedStart(sk) + C
      /\ UsedEpochs(sk') = {e \in UsedEpochs(sk) : e >= PreparedStart(sk')}
      /\ sk'.top_tree = sk.top_tree
  BY <1>1, <1>2, AdvancedKey
<1>4. /\ PreparedStart(sk) \in Int /\ C \in Nat
      /\ PreparedEnd(sk) = PreparedStart(sk) + 2 * C
      /\ PreparedEnd(sk') = PreparedStart(sk') + 2 * C
  BY <1>1, <1>3, KeyTypes, Numbers
<1>5. \A s \in issued : s.epoch \in Int BY <1>1, SignEpochs
<1>6. TypeOK' BY <1>1, <1>2, <1>3 DEF TypeOK, Answer, Outcome
<1>7. \A s \in issued : s.epoch < PreparedEnd(sk) BY DEF KeyInv, NoneAhead
<1>8. NoneAhead' BY <1>2, <1>3, <1>4, <1>5, <1>7 DEF NoneAhead
<1>9. UsedIsIssued'
  <2> DEFINE E == {s.epoch : s \in issued}
  <2>1. UsedEpochs(sk) = E \cap PreparedInterval(sk)
    BY DEF KeyInv, UsedIsIssued
  <2>2. \A e \in E : e \in Int /\ e < PreparedEnd(sk) BY <1>5, <1>7
  <2> HIDE DEF E
  <2>3. ASSUME NEW e \in E
        PROVE  e \in PreparedInterval(sk) /\ e >= PreparedStart(sk')
                 <=> e \in PreparedInterval(sk')
    <3>1. e \in Int /\ e < PreparedEnd(sk) BY <2>2
    <3> QED BY <1>3, <1>4, <3>1 DEF PreparedInterval
  <2>4. UsedEpochs(sk') = E \cap PreparedInterval(sk') BY <1>3, <2>1, <2>3
  <2> QED BY <1>2, <2>4 DEF UsedIsIssued, E
<1>10. OneSignaturePerEpoch' BY <1>2 DEF KeyInv, OneSignaturePerEpoch
<1>11. SignaturesOpen' BY <1>2, <1>3 DEF KeyInv, SignaturesOpen, PathDefined
<1>12. KeyInv' BY <1>3, <1>6, <1>8, <1>9, <1>10, <1>11 DEF KeyInv
<1> QED BY <1>3, <1>12 DEF UsedAscending

(* The invariant is inductive, and so is the order of the list under the      *)
(* steps of Next.                                                             *)
LEMMA NextKeyInv ==
  /\ KeyInv /\ [Next \/ LoadUnchecked]_vars => KeyInv'
  /\ KeyInv /\ UsedAscending /\ [Next]_vars => UsedAscending'
<1> SUFFICES ASSUME KeyInv, [Next \/ LoadUnchecked]_vars
             PROVE  /\ KeyInv'
                    /\ UsedAscending /\ [Next]_vars => UsedAscending'
  BY DEF Next
<1> DEFINE Kept == KeyInv' /\ (UsedAscending => UsedAscending')
<1>1. sk \in SecretKeys /\ KeyShape(sk) /\ reply \in [outcome: Outcome, epoch: Nat]
  BY DEF KeyInv, TypeOK
<1>2. ASSUME NEW o \in Outcome, NEW e \in Nat
      PROVE  Answer(o, e) \in [outcome: Outcome, epoch: Nat]
  BY DEF Answer
<1>3. ASSUME UNCHANGED <<sk, issued>>, reply' \in [outcome: Outcome, epoch: Nat]
      PROVE  Kept
  <2>1. KeyInv' BY <1>1, <1>3, QuietStep
  <2> QED BY <1>3, <2>1 DEF UsedAscending
<1>4. ASSUME sk' = Sorted(sk), issued' = issued,
             reply' \in [outcome: Outcome, epoch: Nat]
      PROVE  Kept
  <2>1. /\ sk' \in SecretKeys /\ StrictlyAscending(sk'.used_epochs)
        /\ UsedEpochs(sk') = UsedEpochs(sk) /\ KeyShape(sk')
        /\ PreparedStart(sk') = PreparedStart(sk)
        /\ PreparedEnd(sk') = PreparedEnd(sk) /\ sk'.top_tree = sk.top_tree
    BY <1>1, <1>4, SortedKey
  <2>2. KeyInv' BY <1>4, <2>1, QuietStep
  <2> QED BY <2>1, <2>2 DEF UsedAscending
<1>5. ASSUME NEW e \in SignEpoch, NEW m \in Message, Sign(e, m)
      PROVE  Kept
  <2>1. e \in Nat BY SignEpochs
  <2>2. CASE SignOutsideActivation(e)
    <3>1. reply' \in [outcome: Outcome, epoch: Nat]
      BY <1>2, <2>1, <2>2 DEF SignOutsideActivation, Outcome
    <3> QED BY <1>3, <2>2, <3>1 DEF SignOutsideActivation
  <2>3. CASE SignNotPrepared(e)
    <3>1. reply' \in [outcome: Outcome, epoch: Nat]
      BY <1>2, <2>1, <2>3 DEF SignNotPrepared, Outcome
    <3> QED BY <1>3, <2>3, <3>1 DEF SignNotPrepared
  <2>4. CASE SignAlreadyUsed(e)
    <3>1. reply' \in [outcome: Outcome, epoch: Nat]
      BY <1>2, <2>1, <2>4 DEF SignAlreadyUsed, Outcome
    <3> QED BY <1>4, <2>4, <3>1 DEF SignAlreadyUsed
  <2>5. CASE SignEncodingFails(e, m)
    <3>1. reply' \in [outcome: Outcome, epoch: Nat]
      BY <1>2, <2>1, <2>5 DEF SignEncodingFails, Outcome
    <3> QED BY <1>4, <2>5, <3>1 DEF SignEncodingFails
  <2>6. CASE SignOk(e, m) BY <2>6, SignOkStep
  <2> QED BY <1>5, <2>2, <2>3, <2>4, <2>5, <2>6 DEF Sign
<1>6. CASE AdvancePreparation BY <1>6, AdvanceStep
<1>7. CASE NothingToAdvance
  <2>1. reply' \in [outcome: Outcome, epoch: Nat]
    BY <1>2, <1>7 DEF NothingToAdvance, Outcome
  <2> QED BY <1>3, <1>7, <2>1 DEF NothingToAdvance
<1>8. CASE SaveAndLoad
  <2>1. reply' \in [outcome: Outcome, epoch: Nat]
    BY <1>2, <1>8 DEF SaveAndLoad, Outcome
  <2> QED BY <1>3, <1>8, <2>1 DEF SaveAndLoad
<1>9. CASE UNCHANGED vars
  BY <1>1, <1>3, <1>9 DEF vars
<1>10. ASSUME LoadUnchecked
       PROVE  KeyInv'
  <2>1. PICK used \in BoundedSeq(UsedEpochs(sk), MaxLoaded) :
          /\ Range(used) = UsedEpochs(sk)
          /\ sk' = [sk EXCEPT !.used_epochs = used]
          /\ reply' = Answer("Loaded", 0) /\ issued' = issued
    BY <1>10 DEF LoadUnchecked
  <2>2. used \in Seq(Epoch)
    <3>1. PICK n \in 0..MaxLoaded : used \in [1..n -> UsedEpochs(sk)]
      BY <2>1 DEF BoundedSeq, SeqOf
    <3>2. UsedEpochs(sk) \subseteq Epoch BY <1>1, KeyTypes
    <3>3. n \in Nat /\ used \in [1..n -> Epoch]
      BY <3>1, <3>2, MaxLoadedAssumption
    <3> QED BY <3>3
  <2>3. /\ sk' \in SecretKeys /\ sk'.used_epochs = used
        /\ sk'.activation_epoch = sk.activation_epoch
        /\ sk'.num_active_epochs = sk.num_active_epochs
        /\ sk'.top_tree = sk.top_tree
        /\ sk'.left_bottom_tree_index = sk.left_bottom_tree_index
        /\ sk'.left_bottom_tree = sk.left_bottom_tree
        /\ sk'.right_bottom_tree = sk.right_bottom_tree
    BY <1>1, <2>1, <2>2 DEF SecretKeys
  <2>4. UsedEpochs(sk') = UsedEpochs(sk) BY <2>1, <2>3 DEF UsedEpochs
  <2>5. KeyShape(sk') BY <1>1, <2>3 DEF KeyShape
  <2>6. /\ PreparedStart(sk') = PreparedStart(sk)
        /\ PreparedEnd(sk') = PreparedEnd(sk)
    BY <2>3 DEF PreparedStart, PreparedEnd
  <2>7. reply' \in [outcome: Outcome, epoch: Nat]
    BY <1>2, <2>1 DEF Outcome
  <2> QED BY <2>1, <2>3, <2>4, <2>5, <2>6, <2>7, QuietStep
<1>11. [Next]_vars => Kept
  BY <1>5, <1>6, <1>7, <1>8, <1>9 DEF Next
<1> QED BY <1>10, <1>11

-------------------------------------------------------------------------------
(* The invariant holds of every behaviour, unchecked loads included.          *)
THEOREM KeyInvariant == UncheckedSpec => []KeyInv
<1>1. Init => KeyInv BY InitKeyInv
<1>2. KeyInv /\ [Next \/ LoadUnchecked]_vars => KeyInv' BY NextKeyInv
<1> QED BY <1>1, <1>2, PTL DEF UncheckedSpec

(* Spec is the case without unchecked loads; there the list stays in order.   *)
THEOREM CheckedInvariant == Spec => [](KeyInv /\ UsedAscending)
<1>1. Init => KeyInv /\ UsedAscending BY InitKeyInv
<1>2. KeyInv /\ UsedAscending /\ [Next]_vars => (KeyInv /\ UsedAscending)'
  <2>1. [Next]_vars => [Next \/ LoadUnchecked]_vars OBVIOUS
  <2> QED BY <2>1, NextKeyInv
<1> QED BY <1>1, <1>2, PTL DEF Spec

(* Every key, signature and answer is of its type.                            *)
THEOREM TypeCorrect == Spec => []TypeOK
<1>1. KeyInv /\ UsedAscending => TypeOK BY DEF KeyInv
<1> QED BY <1>1, CheckedInvariant, PTL

(* sign returns at most one signature for an epoch, even for a key that came  *)
(* through a format that does not check the order of used_epochs.             *)
THEOREM OneSignature == UncheckedSpec => []OneSignaturePerEpoch
<1>1. KeyInv => OneSignaturePerEpoch BY DEF KeyInv
<1> QED BY <1>1, KeyInvariant, PTL

(* A key whose list is in order is one its decoder takes.                     *)
LEMMA LawfulDecodable == ASSUME KeyInv, UsedAscending PROVE Reloadable
<1>1. sk \in SecretKeys /\ KeyShape(sk) /\ StrictlyAscending(sk.used_epochs)
  BY DEF KeyInv, TypeOK, UsedAscending
<1>2. UsedEpochs(sk) \subseteq PreparedInterval(sk)
  BY DEF KeyInv, UsedIsIssued
<1> QED BY <1>1, <1>2, DecodableKey DEF Reloadable

(* A key is never refused by its own decoder.                                 *)
THEOREM AlwaysReloadable == Spec => []Reloadable
<1>1. KeyInv /\ UsedAscending => Reloadable BY LawfulDecodable
<1> QED BY <1>1, CheckedInvariant, PTL

(* Every answer that follows the look-up of an epoch leaves a key its decoder *)
(* takes, whatever order used_epochs was loaded in.                           *)
THEOREM Normalises == UncheckedSpec => []SignNormalises
<1> DEFINE Past == reply.outcome \in {"Ok", "EpochAlreadyUsed",
                                      "EncodingAttemptsExceeded"}
<1>1. Init => (Past => UsedAscending) BY DEF Init, Answer
<1>2. KeyInv /\ (Past => UsedAscending) /\ [Next \/ LoadUnchecked]_vars
        => (Past => UsedAscending)'
  <2> SUFFICES ASSUME KeyInv, Past => UsedAscending,
                      [Next \/ LoadUnchecked]_vars, Past'
               PROVE  UsedAscending'
    OBVIOUS
  <2>1. sk \in SecretKeys BY DEF KeyInv, TypeOK
  <2>2. ASSUME sk' = Sorted(sk) PROVE UsedAscending'
    BY <2>1, <2>2, SortedKey DEF UsedAscending
  <2>3. ASSUME NEW e \in SignEpoch, NEW m \in Message, Sign(e, m)
        PROVE  UsedAscending'
    <3>1. CASE SignOutsideActivation(e)
      BY <3>1 DEF SignOutsideActivation, Answer
    <3>2. CASE SignNotPrepared(e) BY <3>2 DEF SignNotPrepared, Answer
    <3>3. CASE SignAlreadyUsed(e) BY <2>2, <3>3 DEF SignAlreadyUsed
    <3>4. CASE SignEncodingFails(e, m) BY <2>2, <3>4 DEF SignEncodingFails
    <3>5. CASE SignOk(e, m) BY <3>5, SignOkStep
    <3> QED BY <2>3, <3>1, <3>2, <3>3, <3>4, <3>5 DEF Sign
  <2>4. ~AdvancePreparation BY DEF AdvancePreparation, Answer
  <2>5. ~NothingToAdvance BY DEF NothingToAdvance, Answer
  <2>6. ~SaveAndLoad BY DEF SaveAndLoad, Answer
  <2>7. ~LoadUnchecked BY DEF LoadUnchecked, Answer
  <2>8. CASE UNCHANGED vars BY <2>8 DEF vars, UsedAscending
  <2> QED BY <2>3, <2>4, <2>5, <2>6, <2>7, <2>8 DEF Next
<1>3. KeyInv /\ (Past => UsedAscending) => SignNormalises
  <2> SUFFICES ASSUME KeyInv, UsedAscending PROVE Decodable(sk)
    BY DEF SignNormalises
  <2> QED BY LawfulDecodable DEF Reloadable
<1> QED BY <1>1, <1>2, <1>3, KeyInvariant, PTL DEF UncheckedSpec

(* Every signature returned has its leaf in a tree below the public root.     *)
THEOREM AlwaysOpen == UncheckedSpec => []SignaturesOpen
<1>1. KeyInv => SignaturesOpen BY DEF KeyInv
<1> QED BY <1>1, KeyInvariant, PTL

(* No assert of combined_path can fire for an epoch of the window.            *)
THEOREM AlwaysAvailable == UncheckedSpec => []PathAvailable
<1>1. KeyInv => PathAvailable
  BY PickedTree DEF KeyInv, TypeOK, PathAvailable
<1> QED BY <1>1, KeyInvariant, PTL

(* Inside the window, used_epochs is exactly what was signed.                 *)
THEOREM UsedExactly == UncheckedSpec => []UsedIsIssued
<1>1. KeyInv => UsedIsIssued BY DEF KeyInv
<1> QED BY <1>1, KeyInvariant, PTL

(* The refusals of sign say the truth.                                        *)
THEOREM TruthfulRefusals == UncheckedSpec => []RefusalsTruthful
<1>1. Init => RefusalsTruthful BY DEF Init, Answer, RefusalsTruthful
<1>2. KeyInv /\ RefusalsTruthful /\ [Next \/ LoadUnchecked]_vars
        => RefusalsTruthful'
  <2> SUFFICES ASSUME KeyInv, RefusalsTruthful, [Next \/ LoadUnchecked]_vars
               PROVE  RefusalsTruthful'
    OBVIOUS
  <2>1. ASSUME NEW e \in SignEpoch, NEW m \in Message, Sign(e, m)
        PROVE  RefusalsTruthful'
    <3>1. CASE SignOutsideActivation(e)
      BY <3>1 DEF SignOutsideActivation, Answer, RefusalsTruthful
    <3>2. CASE SignNotPrepared(e)
      BY <3>2 DEF SignNotPrepared, Answer, RefusalsTruthful, InActivation, Prepared
    <3>3. CASE SignAlreadyUsed(e)
      <4>1. sk \in SecretKeys BY DEF KeyInv, TypeOK
      <4> DEFINE k == Sorted(sk)
      <4>2. /\ k \in SecretKeys /\ StrictlyAscending(k.used_epochs)
            /\ UsedEpochs(k) = UsedEpochs(sk)
        BY <4>1, SortedKey
      <4>3. InsertPositions(k.used_epochs, e) = {} BY <3>3 DEF SignAlreadyUsed
      <4> HIDE DEF k
      <4>4. k.used_epochs \in Seq(Epoch) /\ Epoch \subseteq Int /\ e \in Int
        BY <4>2, Numbers, SignEpochs DEF SecretKeys
      <4>5. e \in UsedEpochs(k)
        BY <4>2, <4>3, <4>4, InsertPositionExists DEF UsedEpochs
      <4>6. \E s \in issued : s.epoch = e
        BY <4>2, <4>5 DEF KeyInv, UsedIsIssued
      <4> QED BY <3>3, <4>6 DEF SignAlreadyUsed, Answer, RefusalsTruthful
    <3>4. CASE SignEncodingFails(e, m)
      BY <3>4 DEF SignEncodingFails, Answer, RefusalsTruthful
    <3>5. CASE SignOk(e, m) BY <3>5 DEF SignOk, Answer, RefusalsTruthful
    <3> QED BY <2>1, <3>1, <3>2, <3>3, <3>4, <3>5 DEF Sign
  <2>2. CASE AdvancePreparation
    BY <2>2 DEF AdvancePreparation, Answer, RefusalsTruthful
  <2>3. CASE NothingToAdvance
    BY <2>3 DEF NothingToAdvance, Answer, RefusalsTruthful
  <2>4. CASE SaveAndLoad BY <2>4 DEF SaveAndLoad, Answer, RefusalsTruthful
  <2>5. CASE LoadUnchecked BY <2>5 DEF LoadUnchecked, Answer, RefusalsTruthful
  <2>6. CASE UNCHANGED vars BY <2>6 DEF vars, RefusalsTruthful
  <2> QED BY <2>1, <2>2, <2>3, <2>4, <2>5, <2>6 DEF Next
<1> QED BY <1>1, <1>2, KeyInvariant, PTL DEF UncheckedSpec

(* What one step does to the window and to the signatures.                    *)
LEMMA StepCases ==
  ASSUME KeyInv, [Next \/ LoadUnchecked]_vars
  PROVE  \/ /\ issued' = issued
            /\ PreparedStart(sk') = PreparedStart(sk)
            /\ ActivationEnd(sk') = ActivationEnd(sk)
            /\ sk'.activation_epoch = sk.activation_epoch
            /\ sk'.top_tree = sk.top_tree
         \/ AdvancePreparation
         \/ \E e \in SignEpoch, m \in Message : SignOk(e, m)
<1> DEFINE Same == /\ issued' = issued
                   /\ PreparedStart(sk') = PreparedStart(sk)
                   /\ ActivationEnd(sk') = ActivationEnd(sk)
                   /\ sk'.activation_epoch = sk.activation_epoch
                   /\ sk'.top_tree = sk.top_tree
<1>1. sk \in SecretKeys BY DEF KeyInv, TypeOK
<1>2. ASSUME sk' = sk, issued' = issued PROVE Same BY <1>2
<1>3. ASSUME sk' = Sorted(sk), issued' = issued PROVE Same
  BY <1>1, <1>3, SortedKey
<1>4. ASSUME NEW e \in SignEpoch, NEW m \in Message, Sign(e, m)
      PROVE  Same \/ SignOk(e, m)
  <2>1. CASE SignOutsideActivation(e) BY <1>2, <2>1 DEF SignOutsideActivation
  <2>2. CASE SignNotPrepared(e) BY <1>2, <2>2 DEF SignNotPrepared
  <2>3. CASE SignAlreadyUsed(e) BY <1>3, <2>3 DEF SignAlreadyUsed
  <2>4. CASE SignEncodingFails(e, m) BY <1>3, <2>4 DEF SignEncodingFails
  <2> QED BY <1>4, <2>1, <2>2, <2>3, <2>4 DEF Sign
<1>5. ASSUME LoadUnchecked PROVE Same
  BY <1>1, <1>5 DEF LoadUnchecked, SecretKeys, PreparedStart, ActivationEnd
<1>6. ASSUME NothingToAdvance PROVE Same BY <1>2, <1>6 DEF NothingToAdvance
<1>7. ASSUME SaveAndLoad PROVE Same BY <1>2, <1>7 DEF SaveAndLoad
<1>8. ASSUME UNCHANGED vars PROVE Same BY <1>2, <1>8 DEF vars
<1> HIDE DEF Same
<1>9. Same \/ AdvancePreparation \/ \E e \in SignEpoch, m \in Message : SignOk(e, m)
  <2>1. CASE \E e \in SignEpoch, m \in Message : Sign(e, m)
    <3>1. PICK e \in SignEpoch, m \in Message : Sign(e, m) BY <2>1
    <3>2. Same \/ SignOk(e, m) BY <1>4, <3>1
    <3> QED BY <3>2
  <2>2. CASE AdvancePreparation BY <2>2
  <2>3. CASE NothingToAdvance BY <1>6, <2>3
  <2>4. CASE SaveAndLoad BY <1>7, <2>4
  <2>5. CASE LoadUnchecked BY <1>5, <2>5
  <2>6. CASE UNCHANGED vars BY <1>8, <2>6
  <2> QED BY <2>1, <2>2, <2>3, <2>4, <2>5, <2>6 DEF Next
<1> QED BY <1>9 DEF Same

(* The window slides by one bottom tree at a time and never back.             *)
THEOREM SlidesForward == UncheckedSpec => WindowSlides
<1> DEFINE Step ==
      /\ ActivationIntervalOf(sk') = ActivationIntervalOf(sk)
      /\ sk'.top_tree = sk.top_tree
      /\ PreparedStart(sk') \in {PreparedStart(sk), PreparedStart(sk) + C}
      /\ PreparedStart(sk') # PreparedStart(sk) =>
           sk'.left_bottom_tree = sk.right_bottom_tree
<1>1. KeyInv /\ [Next \/ LoadUnchecked]_vars => [Step]_vars
  <2> SUFFICES ASSUME KeyInv, [Next \/ LoadUnchecked]_vars PROVE Step
    OBVIOUS
  <2>1. sk \in SecretKeys /\ KeyShape(sk) BY DEF KeyInv, TypeOK
  <2>2. CASE AdvancePreparation
    <3>1. CanAdvance(sk) /\ sk' = Advanced(sk)
      BY <2>2 DEF AdvancePreparation
    <3>2. /\ PreparedStart(sk') = PreparedStart(sk) + C
          /\ ActivationEnd(sk') = ActivationEnd(sk)
          /\ sk'.activation_epoch = sk.activation_epoch
          /\ sk'.top_tree = sk.top_tree
          /\ sk'.left_bottom_tree = sk.right_bottom_tree
      BY <2>1, <3>1, AdvancedKey
    <3> QED BY <3>2 DEF ActivationIntervalOf
  <2>3. ASSUME NEW e \in SignEpoch, NEW m \in Message, SignOk(e, m) PROVE Step
    <3>1. /\ PreparedStart(sk') = PreparedStart(sk)
          /\ ActivationEnd(sk') = ActivationEnd(sk)
          /\ sk'.activation_epoch = sk.activation_epoch
          /\ sk'.top_tree = sk.top_tree
      BY <2>3, SignOkStep
    <3> QED BY <3>1 DEF ActivationIntervalOf
  <2>4. ASSUME PreparedStart(sk') = PreparedStart(sk),
               ActivationEnd(sk') = ActivationEnd(sk),
               sk'.activation_epoch = sk.activation_epoch,
               sk'.top_tree = sk.top_tree
        PROVE  Step
    BY <2>4 DEF ActivationIntervalOf
  <2> HIDE DEF Step
  <2> QED BY <2>2, <2>3, <2>4, StepCases
<1> QED BY <1>1, KeyInvariant, PTL DEF UncheckedSpec, WindowSlides

(* The key implements the one-time ledger: a signature is an entry for an     *)
(* epoch of the window that has none, a slide of the key a slide of the       *)
(* window, and every other step changes nothing the ledger sees.              *)
THEOREM Refinement == UncheckedSpec => ImplementsLedger
<1> DEFINE L(i) == {<<s.epoch, s.message>> : s \in i}
<1>1. Init => Ledger!Init
  <2> SUFFICES ASSUME Init PROVE Ledger!Init OBVIOUS
  <2>1. KeyInv BY InitKeyInv
  <2>2. sk \in SecretKeys /\ KeyShape(sk) BY <2>1 DEF KeyInv, TypeOK
  <2>3. /\ PreparedStart(sk) \in Nat /\ ActivationEnd(sk) \in Nat
        /\ PreparedStart(sk) + 2 * C <= ActivationEnd(sk)
    <3>1. /\ PreparedStart(sk) \in Int /\ ActivationEnd(sk) \in Int
          /\ sk.activation_epoch \in Int
          /\ PreparedEnd(sk) = PreparedStart(sk) + 2 * C
      BY <2>2, KeyTypes
    <3>2. /\ 0 <= sk.activation_epoch
          /\ sk.activation_epoch <= PreparedStart(sk)
          /\ PreparedEnd(sk) <= ActivationEnd(sk)
      BY <2>2, ShapeBounds
    <3> QED BY <3>1, <3>2, Numbers
  <2>4. L(issued) = {} BY DEF Init
  <2> QED BY <2>3, <2>4 DEF Ledger!Init
<1>2. KeyInv /\ [Next \/ LoadUnchecked]_vars => [Ledger!Next]_(Ledger!vars)
  <2> SUFFICES ASSUME KeyInv, [Next \/ LoadUnchecked]_vars
               PROVE  [Ledger!Next]_(Ledger!vars)
    OBVIOUS
  <2>1. sk \in SecretKeys /\ KeyShape(sk) BY DEF KeyInv, TypeOK
  <2>2. CASE AdvancePreparation
    <3>1. CanAdvance(sk) /\ sk' = Advanced(sk) /\ issued' = issued
      BY <2>2 DEF AdvancePreparation
    <3>2. /\ PreparedStart(sk') = PreparedStart(sk) + C
          /\ ActivationEnd(sk') = ActivationEnd(sk)
      BY <2>1, <3>1, AdvancedKey
    <3>3. PreparedStart(sk) + 3 * C <= ActivationEnd(sk)
      BY <3>1 DEF CanAdvance, PreparedStart
    <3>4. Ledger!Slide BY <3>1, <3>2, <3>3 DEF Ledger!Slide
    <3> QED BY <3>4 DEF Ledger!Next
  <2>3. ASSUME NEW e \in SignEpoch, NEW m \in Message, SignOk(e, m)
        PROVE  Ledger!Next
    <3>1. /\ \A s \in issued : s.epoch # e
          /\ e \in PreparedInterval(sk)
          /\ PreparedStart(sk') = PreparedStart(sk)
          /\ ActivationEnd(sk') = ActivationEnd(sk)
      BY <2>3, SignOkStep
    <3>2. e \in Ledger!Window
      <4> DEFINE a == PreparedStart(sk)
      <4>1. a \in Int /\ PreparedEnd(sk) = a + 2 * C BY <2>1, KeyTypes
      <4>2. PreparedInterval(sk) = a..PreparedEnd(sk) - 1
        BY DEF PreparedInterval
      <4>3. Ledger!Window = a..(a + 2 * C - 1) BY DEF Ledger!Window
      <4> HIDE DEF a
      <4> QED BY <3>1, <4>1, <4>2, <4>3, CAssumption
    <3>3. \A s \in L(issued) : s[1] # e BY <3>1
    <3>4. L(issued') = L(issued) \cup {<<e, m>>}
      <4> DEFINE new == Signature(e, m, BottomTree(sk, e))
      <4>1. new.epoch = e /\ new.message = m BY DEF Signature
      <4>2. issued' = issued \cup {new} BY <2>3 DEF SignOk
      <4> HIDE DEF new
      <4> QED BY <4>1, <4>2
    <3>5. Ledger!Sign(e, m) BY <3>1, <3>2, <3>3, <3>4 DEF Ledger!Sign
    <3> QED BY <3>2, <3>5 DEF Ledger!Next
  <2>4. ASSUME issued' = issued, PreparedStart(sk') = PreparedStart(sk),
               ActivationEnd(sk') = ActivationEnd(sk)
        PROVE  UNCHANGED Ledger!vars
    BY <2>4 DEF Ledger!vars
  <2> QED BY <2>2, <2>3, <2>4, StepCases
<1> QED BY <1>1, <1>2, KeyInvariant, PTL
        DEF UncheckedSpec, ImplementsLedger, Ledger!Spec
-------------------------------------------------------------------------------
(* Getting an epoch ready: the safety half of EveryEpochPrepared.             *)

(* The slides it takes until epoch e has come into the window.                *)
Slides(start, e) == IF e < start + 2 * C THEN 0 ELSE ((e - start) \div C) - 1

SlidesTo(k, e) == Slides(PreparedStart(k), e)

(* Some active epoch lies ahead of the window.                                *)
EpochAhead(k) == \E e \in ActivationIntervalOf(k) : e >= PreparedEnd(k)

(* The early return of advance_preparation is taken exactly when there is no  *)
(* tree left to prepare.                                                      *)
LEMMA AdvancesToTheEnd ==
  ASSUME NEW k \in SecretKeys, KeyShape(k)
  PROVE  CanAdvance(k) <=> EpochAhead(k)
<1> DEFINE left == k.left_bottom_tree_index
<1>1. PICK first \in 0..C, after \in 0..C :
        /\ k.activation_epoch = first * C
        /\ k.num_active_epochs = (after - first) * C
  BY DEF KeyShape
<1>2. first \in Int /\ after \in Int /\ left \in Nat /\ C \in Nat /\ C >= 2
  BY <1>1, Numbers DEF SecretKeys
<1>3. PreparedEnd(k) = left * C + 2 * C BY DEF PreparedEnd, PreparedStart
<1>4. CanAdvance(k) <=> left * C + 3 * C <= ActivationEnd(k) BY DEF CanAdvance
<1>5. ActivationEnd(k) = k.activation_epoch + k.num_active_epochs
  BY DEF ActivationEnd
<1>6. ActivationIntervalOf(k) = k.activation_epoch..ActivationEnd(k) - 1
  BY DEF ActivationIntervalOf
<1>7. k.activation_epoch <= PreparedStart(k) /\ PreparedStart(k) = left * C
  BY ShapeBounds DEF PreparedStart
<1> HIDE DEF left
<1>8. /\ first * C \in Int /\ after * C \in Int /\ left * C \in Int
      /\ (after - first) * C = after * C - first * C
  BY <1>2, MulC, MulOrder
<1>9. ActivationEnd(k) = after * C BY <1>1, <1>5, <1>8
<1>10. ASSUME CanAdvance(k) PROVE EpochAhead(k)
  <2>1. PreparedEnd(k) \in ActivationIntervalOf(k)
    <3>1. left * C + 3 * C <= after * C BY <1>4, <1>9, <1>10
    <3>2. first * C <= left * C BY <1>1, <1>7
    <3> QED BY <1>1, <1>2, <1>3, <1>6, <1>8, <1>9, <3>1, <3>2
  <2>2. PreparedEnd(k) >= PreparedEnd(k) BY KeyTypes
  <2> QED BY <2>1, <2>2 DEF EpochAhead
<1>11. ASSUME EpochAhead(k) PROVE CanAdvance(k)
  <2>1. PICK e \in ActivationIntervalOf(k) : e >= PreparedEnd(k)
    BY <1>11 DEF EpochAhead
  <2>2. left * C + 2 * C < after * C
    BY <1>1, <1>2, <1>3, <1>6, <1>8, <1>9, <2>1
  <2>3. /\ left + 2 \in Int /\ (left + 2) * C = left * C + 2 * C
        /\ left + 3 \in Int /\ (left + 3) * C = left * C + 3 * C
    BY <1>2, MulC
  <2>4. left + 2 < after BY <1>2, <2>2, <2>3, MulOrder
  <2>5. (left + 3) * C <= after * C BY <1>2, <2>3, <2>4, MulOrder
  <2> QED BY <1>4, <1>9, <2>3, <2>5
<1> QED BY <1>10, <1>11

(* The slides that are left, before and after one.                            *)
LEMMA SlidesLeft ==
  ASSUME NEW start \in Nat, NEW e \in Nat
  PROVE  /\ Slides(start, e) \in 0..e
         /\ Slides(start, e) = 0 <=> e < start + 2 * C
         /\ Slides(start + C, e) =
              IF Slides(start, e) > 0 THEN Slides(start, e) - 1 ELSE Slides(start, e)
<1>1. C \in Nat /\ C >= 2 BY Numbers
<1>2. CASE e < start + 2 * C
  <2>1. Slides(start, e) = 0 BY <1>2 DEF Slides
  <2>2. e < (start + C) + 2 * C BY <1>1, <1>2
  <2>3. Slides(start + C, e) = 0 BY <2>2 DEF Slides
  <2> QED BY <1>2, <2>1, <2>3
<1>3. CASE ~(e < start + 2 * C)
  <2> DEFINE q == (e - start) \div C
  <2>1. e - start \in Nat BY <1>1, <1>3
  <2>2. q \in Nat /\ q * C <= e - start /\ e - start < q * C + C
    BY <2>1, DivC
  <2>3. q <= e - start /\ ((e - start) - C) \div C = q - 1
    BY <2>1, CAssumption
  <2>4. Slides(start, e) = q - 1 BY <1>3 DEF Slides
  <2>5. Slides(start + C, e) =
          IF e < (start + C) + 2 * C THEN 0 ELSE ((e - (start + C)) \div C) - 1
    BY DEF Slides
  <2>6. e - (start + C) = (e - start) - C BY <1>1
  <2> HIDE DEF q
  <2>7. q * C \in Int /\ (q + 1) * C = q * C + C BY <2>2, MulC
  <2>8. q >= 2
    <3>1. 2 * C < (q + 1) * C BY <1>1, <1>3, <2>1, <2>2, <2>7
    <3> QED BY <2>2, <3>1, MulOrder
  <2>9. e < (start + C) + 2 * C <=> q = 2
    <3>1. ASSUME q = 2 PROVE e < (start + C) + 2 * C
      BY <1>1, <2>1, <2>2, <3>1
    <3>2. ASSUME q # 2 PROVE ~(e < (start + C) + 2 * C)
      <4>1. 3 * C <= q * C BY <2>2, <2>8, <3>2, MulOrder
      <4> QED BY <1>1, <2>1, <2>2, <2>7, <4>1
    <3> QED BY <3>1, <3>2
  <2>10. Slides(start + C, e) = q - 2
    BY <2>2, <2>3, <2>5, <2>6, <2>9
  <2> QED BY <1>3, <2>2, <2>3, <2>4, <2>8, <2>10
<1> QED BY <1>2, <1>3

(* The ends of the window as the numbers they are.                            *)
LEMMA WindowNumbers ==
  ASSUME NEW k \in SecretKeys, KeyShape(k)
  PROVE  PreparedStart(k) \in Nat /\ PreparedEnd(k) = PreparedStart(k) + 2 * C
<1>1. 0 <= k.activation_epoch /\ k.activation_epoch <= PreparedStart(k)
  BY ShapeBounds
<1>2. /\ k.activation_epoch \in Int /\ PreparedStart(k) \in Int
      /\ PreparedEnd(k) = PreparedStart(k) + 2 * C
  BY KeyTypes
<1> QED BY <1>1, <1>2

(* advance_preparation answers that there is nothing to prepare when no       *)
(* active epoch is ahead of the window, and only then; an epoch is never      *)
(* further away than its own number, the bound of the test template's loop.   *)
THEOREM AdvanceAvailable ==
  UncheckedSpec => [](/\ CanAdvance(sk) <=> EpochAhead(sk)
                      /\ \A e \in Nat : /\ SlidesTo(sk, e) \in 0..e
                                        /\ SlidesTo(sk, e) = 0 <=> e < PreparedEnd(sk))
<1>1. KeyInv => /\ CanAdvance(sk) <=> EpochAhead(sk)
                /\ \A e \in Nat : /\ SlidesTo(sk, e) \in 0..e
                                  /\ SlidesTo(sk, e) = 0 <=> e < PreparedEnd(sk)
  <2> SUFFICES ASSUME KeyInv
               PROVE  /\ CanAdvance(sk) <=> EpochAhead(sk)
                      /\ \A e \in Nat : /\ SlidesTo(sk, e) \in 0..e
                                        /\ SlidesTo(sk, e) = 0 <=> e < PreparedEnd(sk)
    OBVIOUS
  <2>1. sk \in SecretKeys /\ KeyShape(sk) BY DEF KeyInv, TypeOK
  <2>2. CanAdvance(sk) <=> EpochAhead(sk) BY <2>1, AdvancesToTheEnd
  <2>3. PreparedStart(sk) \in Nat /\ PreparedEnd(sk) = PreparedStart(sk) + 2 * C
    BY <2>1, WindowNumbers
  <2>4. \A e \in Nat : /\ SlidesTo(sk, e) \in 0..e
                       /\ SlidesTo(sk, e) = 0 <=> e < PreparedEnd(sk)
    BY <2>3, SlidesLeft DEF SlidesTo
  <2> QED BY <2>2, <2>4
<1> QED BY <1>1, KeyInvariant, PTL

(* Every slide brings every epoch ahead of the window one slide nearer, and   *)
(* nothing else, no failed signature and no load, takes any of them back.     *)
EverySlideCounts ==
  [][\A e \in Nat :
       SlidesTo(sk', e) = IF AdvancePreparation /\ SlidesTo(sk, e) > 0
                            THEN SlidesTo(sk, e) - 1
                            ELSE SlidesTo(sk, e)]_vars

THEOREM SlidesCount == UncheckedSpec => EverySlideCounts
<1> DEFINE Step == \A e \in Nat :
      SlidesTo(sk', e) = IF AdvancePreparation /\ SlidesTo(sk, e) > 0
                           THEN SlidesTo(sk, e) - 1
                           ELSE SlidesTo(sk, e)
<1>1. KeyInv /\ [Next \/ LoadUnchecked]_vars => [Step]_vars
  <2> SUFFICES ASSUME KeyInv, [Next \/ LoadUnchecked]_vars PROVE Step
    OBVIOUS
  <2>1. sk \in SecretKeys /\ KeyShape(sk) BY DEF KeyInv, TypeOK
  <2>2. PreparedStart(sk) \in Nat /\ C \in Nat /\ C >= 2
    BY <2>1, WindowNumbers, Numbers
  <2>3. ASSUME AdvancePreparation
        PROVE  PreparedStart(sk') = PreparedStart(sk) + C
    <3>1. CanAdvance(sk) /\ sk' = Advanced(sk)
      BY <2>3 DEF AdvancePreparation
    <3> QED BY <2>1, <3>1, AdvancedKey
  <2>4. CASE AdvancePreparation
    <3>1. \A e \in Nat : SlidesTo(sk', e) =
            IF SlidesTo(sk, e) > 0 THEN SlidesTo(sk, e) - 1 ELSE SlidesTo(sk, e)
      BY <2>2, <2>3, <2>4, SlidesLeft DEF SlidesTo
    <3> QED BY <2>4, <3>1
  <2>5. ASSUME PreparedStart(sk') = PreparedStart(sk) PROVE Step
    <3>1. ~AdvancePreparation BY <2>2, <2>3, <2>5
    <3>2. \A e \in Nat : SlidesTo(sk', e) = SlidesTo(sk, e)
      BY <2>5 DEF SlidesTo
    <3> QED BY <3>1, <3>2
  <2>6. ASSUME NEW e \in SignEpoch, NEW m \in Message, SignOk(e, m) PROVE Step
    <3>1. PreparedStart(sk') = PreparedStart(sk) BY <2>6, SignOkStep
    <3> QED BY <2>5, <3>1
  <2> HIDE DEF Step
  <2> QED BY <2>4, <2>5, <2>6, StepCases
<1> QED BY <1>1, KeyInvariant, PTL DEF UncheckedSpec, EverySlideCounts

-------------------------------------------------------------------------------
(* What an owner who persists the key before releasing a signature is sure    *)
(* of, for half trees of any size and crashes, copies and restores in any     *)
(* order. The invariants of XmssKey are of no use here: a crash takes the key *)
(* back behind signatures that sign has already returned. What is kept is     *)
(* that each copy of the key accounts for the signatures released before it.  *)

(* A copy of the key that is safe with some signatures is safe with fewer.    *)
LEMMA KeepsFewer ==
  ASSUME NEW k, NEW S, NEW T, T \subseteq S, Keeps(k, S)
  PROVE  Keeps(k, T)
BY DEF Keeps

(* A key fresh from key_gen has no signature to account for.                  *)
LEMMA KeepsNone == Init => Keeps(sk, {})
<1> SUFFICES ASSUME Init PROVE Keeps(sk, {}) OBVIOUS
<1>1. KeyInv /\ UsedAscending BY InitKeyInv
<1>2. sk \in SecretKeys /\ KeyShape(sk) BY <1>1 DEF KeyInv, TypeOK
<1>3. StrictlyAscending(sk.used_epochs) BY <1>1 DEF UsedAscending
<1>4. UsedEpochs(sk) \subseteq PreparedInterval(sk) BY <1>1 DEF KeyInv, UsedIsIssued
<1> QED BY <1>2, <1>3, <1>4 DEF Keeps

(* Every copy the owner holds is one from_bytes takes.                        *)
LEMMA KeepsDecodable ==
  ASSUME NEW k, NEW S, Keeps(k, S)
  PROVE  Decodable(k)
BY DecodableKey DEF Keeps

(* Sorting the used epochs changes nothing the account depends on.            *)
LEMMA SortedKeeps ==
  ASSUME NEW k, NEW S, Keeps(k, S)
  PROVE  Keeps(Sorted(k), S)
<1>1. k \in SecretKeys /\ KeyShape(k) BY DEF Keeps
<1>2. /\ Sorted(k) \in SecretKeys /\ KeyShape(Sorted(k))
      /\ StrictlyAscending(Sorted(k).used_epochs)
      /\ UsedEpochs(Sorted(k)) = UsedEpochs(k)
      /\ PreparedStart(Sorted(k)) = PreparedStart(k)
      /\ PreparedEnd(Sorted(k)) = PreparedEnd(k)
  BY <1>1, SortedKey
<1>3. PreparedInterval(Sorted(k)) = PreparedInterval(k) BY <1>2 DEF PreparedInterval
<1> QED BY <1>2, <1>3 DEF Keeps

(* A signature is returned only for an epoch that none of those kept is for,  *)
(* and the key then keeps it too.                                             *)
LEMMA SignOkKeeps ==
  ASSUME NEW S, Keeps(sk, S), NEW e \in SignEpoch, NEW m \in Message, SignOk(e, m)
  PROVE  Keeps(sk', S \cup {Signature(e, m, BottomTree(sk, e))})
<1> DEFINE k == Sorted(sk)
           new == Signature(e, m, BottomTree(sk, e))
<1>1. sk \in SecretKeys /\ KeyShape(sk) BY DEF Keeps
<1>2. /\ k \in SecretKeys /\ StrictlyAscending(k.used_epochs) /\ KeyShape(k)
      /\ UsedEpochs(k) = UsedEpochs(sk)
      /\ PreparedStart(k) = PreparedStart(sk) /\ PreparedEnd(k) = PreparedEnd(sk)
  BY <1>1, SortedKey
<1>3. e \in Epoch /\ e \in Int BY SignEpochs
<1>4. PICK p \in InsertPositions(k.used_epochs, e) : sk' = Consume(k, p, e)
  BY DEF SignOk
<1>5. e \in PreparedInterval(sk) BY DEF SignOk, Signable, Prepared
<1>6. BottomTree(sk, e) \in Nat BY <1>1, <1>5, PickedTree
<1>7. new \in [epoch: SignEpoch, message: Message, tree: Nat] /\ new.epoch = e
  BY <1>6 DEF Signature
<1> HIDE DEF k, new
<1>8. /\ sk' \in SecretKeys /\ StrictlyAscending(sk'.used_epochs) /\ KeyShape(sk')
      /\ UsedEpochs(sk') = UsedEpochs(sk) \cup {e}
      /\ PreparedStart(sk') = PreparedStart(sk) /\ PreparedEnd(sk') = PreparedEnd(sk)
  BY <1>2, <1>3, <1>4, ConsumedKey
<1>9. PreparedInterval(sk') = PreparedInterval(sk) BY <1>8 DEF PreparedInterval
<1>10. e \notin UsedEpochs(sk)
  <2>1. k.used_epochs \in Seq(Epoch) /\ Epoch \subseteq Int
    BY <1>2, Numbers DEF SecretKeys
  <2>2. InsertPositions(k.used_epochs, e) = {} <=> e \in Range(k.used_epochs)
    BY <1>2, <1>3, <2>1, InsertPositionExists
  <2>3. e \notin Range(k.used_epochs) BY <1>4, <2>2
  <2> QED BY <1>2, <2>3 DEF UsedEpochs
<1>11. \A s \in S : s.epoch # e BY <1>5, <1>10 DEF Keeps
<1>12. e < PreparedEnd(sk) BY <1>1, <1>5, KeyTypes DEF PreparedInterval
<1> DEFINE T == S \cup {new}
<1>13. {s.epoch : s \in T} = {s.epoch : s \in S} \cup {e} BY <1>7
<1>14. \A s \in T : s.epoch < PreparedEnd(sk') BY <1>7, <1>8, <1>12 DEF Keeps
<1>15. \A s, t \in T : s.epoch = t.epoch => s = t BY <1>7, <1>11 DEF Keeps
<1>16. T \subseteq [epoch: SignEpoch, message: Message, tree: Nat] BY <1>7 DEF Keeps
<1> HIDE DEF T
<1>17. {s.epoch : s \in T} \cap PreparedInterval(sk') \subseteq UsedEpochs(sk')
  BY <1>8, <1>9, <1>13 DEF Keeps
<1>18. UsedEpochs(sk') \subseteq PreparedInterval(sk')
  BY <1>5, <1>8, <1>9 DEF Keeps
<1>19. Keeps(sk', T) BY <1>8, <1>14, <1>15, <1>16, <1>17, <1>18 DEF Keeps
<1> QED BY <1>19 DEF T, new

(* A slide forgets only epochs the window cannot come back to.                *)
LEMMA AdvancedKeeps ==
  ASSUME NEW k, NEW S, Keeps(k, S), CanAdvance(k)
  PROVE  Keeps(Advanced(k), S)
<1> DEFINE n == Advanced(k)
           E == {s.epoch : s \in S}
<1>1. k \in SecretKeys /\ KeyShape(k) BY DEF Keeps
<1>2. /\ n \in SecretKeys /\ KeyShape(n) /\ StrictlyAscending(n.used_epochs)
      /\ PreparedStart(n) = PreparedStart(k) + C
      /\ UsedEpochs(n) = {e \in UsedEpochs(k) : e >= PreparedStart(n)}
  BY <1>1, AdvancedKey DEF Keeps
<1> HIDE DEF n
<1>3. /\ PreparedStart(k) \in Int /\ C \in Nat
      /\ PreparedEnd(k) = PreparedStart(k) + 2 * C
      /\ PreparedEnd(n) = PreparedStart(n) + 2 * C
  BY <1>1, <1>2, KeyTypes, Numbers
<1>4. \A s \in S : s.epoch \in Int /\ s.epoch < PreparedEnd(k)
  BY SignEpochs DEF Keeps
<1>5. \A s \in S : s.epoch < PreparedEnd(n) BY <1>2, <1>3, <1>4
<1>6. \A e \in UsedEpochs(k) : e \in Int /\ e < PreparedEnd(k)
  BY <1>1, <1>3, KeyTypes DEF Keeps, PreparedInterval
<1>7. UsedEpochs(n) \subseteq PreparedInterval(n)
  BY <1>2, <1>3, <1>6 DEF PreparedInterval
<1>8. E \cap PreparedInterval(n) \subseteq UsedEpochs(n)
  <2>1. \A e \in E : e \in Int /\ e < PreparedEnd(k) BY <1>4
  <2>2. E \cap PreparedInterval(k) \subseteq UsedEpochs(k) BY DEF Keeps
  <2> HIDE DEF E
  <2>3. ASSUME NEW e \in E, e \in PreparedInterval(n)
        PROVE  e \in PreparedInterval(k) /\ e >= PreparedStart(n)
    BY <1>2, <1>3, <2>1, <2>3 DEF PreparedInterval
  <2> QED BY <1>2, <2>2, <2>3
<1> QED BY <1>2, <1>5, <1>7, <1>8 DEF Keeps, n

(* A call of sign, whatever it answers: the key goes on keeping what it kept, *)
(* and the signature returned, if there is one.                               *)
LEMMA SignKeeps ==
  ASSUME NEW S, Keeps(sk, S), NEW e \in SignEpoch, NEW m \in Message, Sign(e, m)
  PROVE  /\ reply'.outcome # "BytesInvalid"
         /\ Keeps(sk', S \cup IF reply'.outcome = "Ok"
                              THEN {Signature(e, m, BottomTree(sk, e))} ELSE {})
<1> DEFINE Refused == reply'.outcome \notin {"Ok", "BytesInvalid"} /\ Keeps(sk', S)
<1>1. CASE SignOutsideActivation(e)
  <2> Refused BY <1>1 DEF SignOutsideActivation, Answer
  <2> QED OBVIOUS
<1>2. CASE SignNotPrepared(e)
  <2> Refused BY <1>2 DEF SignNotPrepared, Answer
  <2> QED OBVIOUS
<1>3. CASE SignAlreadyUsed(e)
  <2> Refused BY <1>3, SortedKeeps DEF SignAlreadyUsed, Answer
  <2> QED OBVIOUS
<1>4. CASE SignEncodingFails(e, m)
  <2> Refused BY <1>4, SortedKeeps DEF SignEncodingFails, Answer
  <2> QED OBVIOUS
<1>5. CASE SignOk(e, m)
  <2>1. reply'.outcome = "Ok" BY <1>5 DEF SignOk, Answer
  <2> QED BY <1>5, <2>1, SignOkKeeps
<1> QED BY <1>1, <1>2, <1>3, <1>4, <1>5 DEF Sign

-------------------------------------------------------------------------------
LEMMA InitCustodyInv == CustodyInit => CustodyInv
<1> SUFFICES ASSUME CustodyInit PROVE CustodyInv OBVIOUS
<1>1. /\ Init /\ disk = sk /\ pending = {} /\ released = {} /\ line = {}
      /\ backup = [key |-> sk, line |-> {}]
  BY DEF CustodyInit
<1>2. Keeps(sk, {}) BY <1>1, KeepsNone
<1>3. backup.key = sk /\ backup.line = {} /\ line \cup pending = {} BY <1>1
<1>4. reply.outcome # "BytesInvalid" BY <1>1 DEF Init, Answer
<1> QED BY <1>1, <1>2, <1>3, <1>4 DEF CustodyInv

LEMMA NextCustodyInv ==
  ASSUME CustodyInv, [CustodyNext]_custodyVars
  PROVE  CustodyInv'
<1>1. /\ Keeps(sk, line \cup pending) /\ Keeps(disk, line)
      /\ Keeps(backup.key, backup.line)
      /\ reply.outcome # "BytesInvalid"
      /\ ~restored => released = line
  BY DEF CustodyInv
<1>2. CASE CallSign
  <2>1. PICK e \in SignEpoch, m \in Message :
          /\ Sign(e, m)
          /\ pending' = IF reply'.outcome = "Ok"
                        THEN {Signature(e, m, BottomTree(sk, e))} ELSE {}
    BY <1>2 DEF CallSign
  <2>2. /\ pending = {} /\ disk' = disk /\ released' = released /\ line' = line
        /\ backup' = backup /\ restored' = restored
    BY <1>2 DEF CallSign
  <2>3. Keeps(sk, line) BY <1>1, KeepsFewer
  <2>4. reply'.outcome # "BytesInvalid" /\ Keeps(sk', line' \cup pending')
    BY <2>1, <2>2, <2>3, SignKeeps
  <2> QED BY <1>1, <2>2, <2>4 DEF CustodyInv
<1>3. CASE CallAdvance
  <2>1. /\ CanAdvance(sk) /\ sk' = Advanced(sk) /\ reply' = Answer("Advanced", 0)
        /\ disk' = disk /\ pending' = pending /\ released' = released
        /\ line' = line /\ backup' = backup /\ restored' = restored
    BY <1>3 DEF CallAdvance, AdvancePreparation
  <2>2. Keeps(sk', line \cup pending) BY <1>1, <2>1, AdvancedKeeps
  <2>3. reply'.outcome # "BytesInvalid" BY <2>1 DEF Answer
  <2> QED BY <1>1, <2>1, <2>2, <2>3 DEF CustodyInv
<1>4. CASE Persist
  <2>1. /\ disk' = sk /\ sk' = sk /\ reply' = reply /\ pending' = pending
        /\ released' = released /\ line' = line /\ backup' = backup
        /\ restored' = restored
    BY <1>4 DEF Persist, vars
  <2>2. Keeps(sk, line) BY <1>1, KeepsFewer
  <2> QED BY <1>1, <2>1, <2>2 DEF CustodyInv
<1>5. CASE Release
  <2>1. /\ disk = sk /\ disk' = disk /\ sk' = sk /\ reply' = reply
        /\ released' = released \cup pending /\ line' = line \cup pending
        /\ pending' = {} /\ backup' = backup /\ restored' = restored
    BY <1>5 DEF Release, vars
  <2>2. line' \cup pending' = line \cup pending BY <2>1
  <2>3. ASSUME ~restored' PROVE released' = line'
    <3>1. ~restored BY <2>1, <2>3
    <3>2. released = line BY <1>1, <3>1
    <3> QED BY <2>1, <3>2
  <2> QED BY <1>1, <2>1, <2>2, <2>3 DEF CustodyInv
<1>6. CASE CrashAndLoad
  <2>1. /\ sk' = disk /\ disk' = disk /\ pending' = {} /\ released' = released
        /\ line' = line /\ backup' = backup /\ restored' = restored
        /\ reply' = Answer(IF Decodable(disk) THEN "Loaded" ELSE "BytesInvalid", 0)
    BY <1>6 DEF CrashAndLoad
  <2>2. Decodable(disk) BY <1>1, KeepsDecodable
  <2>3. reply'.outcome # "BytesInvalid" BY <2>1, <2>2 DEF Answer
  <2>4. line' \cup pending' = line BY <2>1
  <2> QED BY <1>1, <2>1, <2>3, <2>4 DEF CustodyInv
<1>7. CASE TakeBackup
  <2>1. /\ backup' = [key |-> disk, line |-> line] /\ sk' = sk /\ reply' = reply
        /\ disk' = disk /\ pending' = pending /\ released' = released
        /\ line' = line /\ restored' = restored
    BY <1>7 DEF TakeBackup, vars
  <2>2. backup'.key = disk /\ backup'.line = line BY <2>1
  <2> QED BY <1>1, <2>1, <2>2 DEF CustodyInv
<1>8. CASE RestoreBackup
  <2>1. /\ sk' = backup.key /\ disk' = backup.key /\ line' = backup.line
        /\ reply' = Answer("Loaded", 0) /\ pending' = {} /\ restored' = TRUE
        /\ backup' = backup
    BY <1>8 DEF RestoreBackup
  <2>2. line' \cup pending' = backup.line BY <2>1
  <2>3. reply'.outcome # "BytesInvalid" BY <2>1 DEF Answer
  <2> QED BY <1>1, <2>1, <2>2, <2>3 DEF CustodyInv
<1>9. CASE UNCHANGED custodyVars
  BY <1>1, <1>9 DEF custodyVars, vars, CustodyInv
<1> QED BY <1>2, <1>3, <1>4, <1>5, <1>6, <1>7, <1>8, <1>9 DEF CustodyNext

(* Memory, file and copy each account for the signatures released before      *)
(* them, at whatever moments the process crashes.                             *)
THEOREM CustodyInvariant == CustodySpec => []CustodyInv
<1>1. CustodyInv /\ [CustodyNext]_custodyVars => CustodyInv' BY NextCustodyInv
<1> QED BY <1>1, InitCustodyInv, PTL DEF CustodySpec

(* An owner who persists the key before the release, and never restores a     *)
(* copy, never releases two signatures for one epoch.                         *)
THEOREM ReleasedOnce == CustodySpec => []OneReleasedPerEpoch
<1>1. CustodyInv => OneReleasedPerEpoch
  <2> SUFFICES ASSUME CustodyInv, ~restored,
                      NEW s \in released, NEW t \in released, s.epoch = t.epoch
               PROVE  s = t
    BY DEF OneReleasedPerEpoch
  <2>1. released = line /\ Keeps(disk, line) BY DEF CustodyInv
  <2> QED BY <2>1 DEF Keeps
<1> QED BY <1>1, CustodyInvariant, PTL

(* The file remembers every released epoch its window still holds.            *)
THEOREM DiskRemembers == CustodySpec => []ReleasedOnDisk
<1>1. CustodyInv => ReleasedOnDisk BY DEF CustodyInv, Keeps, ReleasedOnDisk
<1> QED BY <1>1, CustodyInvariant, PTL

(* A crash never leaves a file that from_bytes refuses.                       *)
THEOREM DiskAlwaysLoads == CustodySpec => []DiskLoads
<1>1. CustodyInv => DiskLoads BY KeepsDecodable DEF CustodyInv, DiskLoads
<1> QED BY <1>1, CustodyInvariant, PTL

(* Even an owner who restores copies never releases two signatures for one    *)
(* epoch on the line of states that leads to the present key.                 *)
THEOREM ReleasedOncePerLine == CustodySpec => []OneReleasedPerLine
<1>1. CustodyInv => OneReleasedPerLine BY DEF CustodyInv, Keeps, OneReleasedPerLine
<1> QED BY <1>1, CustodyInvariant, PTL
===============================================================================
