------------------------------ MODULE SecretKey -------------------------------
(* The secret key of the generalized XMSS scheme as a value, and what each    *)
(* of its methods computes from it. Key material is left out: a bottom tree   *)
(* is known by its index, the top tree by the indices of the bottom trees     *)
(* whose roots it was built from.                                             *)
EXTENDS ActivationInterval, Ascending, SequencesExt

CONSTANT U32Range   \* number of values of the u32 that holds an epoch

ASSUME U32Assumption == U32Range \in Nat /\ Lifetime <= U32Range

Epoch == 0..U32Range - 1

SecretKeys ==
  [activation_epoch: Nat, num_active_epochs: Nat, top_tree: SUBSET Nat,
   left_bottom_tree_index: Nat, left_bottom_tree: Nat, right_bottom_tree: Nat,
   used_epochs: Seq(Epoch)]

(* Faulty: the bounds of the interval subtracted the wrong way round.         *)
KeyForReversed(i) ==
  [activation_epoch       |-> i.first * C,
   num_active_epochs      |-> (i.first - i.after) * C,
   top_tree               |-> i.first..i.after - 1,
   left_bottom_tree_index |-> i.first,
   left_bottom_tree       |-> i.first,
   right_bottom_tree      |-> i.first + 1,
   used_epochs            |-> << >>]

(* key_gen, for an expanded interval of bottom trees.                         *)
KeyFor(i) ==
  [activation_epoch       |-> i.first * C,
   num_active_epochs      |-> (i.after - i.first) * C,
   top_tree               |-> i.first..i.after - 1,
   left_bottom_tree_index |-> i.first,
   left_bottom_tree       |-> i.first,
   right_bottom_tree      |-> i.first + 1,
   used_epochs            |-> << >>]

-------------------------------------------------------------------------------
ActivationEnd(k) == k.activation_epoch + k.num_active_epochs

ActivationIntervalOf(k) == k.activation_epoch..ActivationEnd(k) - 1

PreparedStart(k) == k.left_bottom_tree_index * C

PreparedEnd(k) == PreparedStart(k) + 2 * C

PreparedInterval(k) == PreparedStart(k)..PreparedEnd(k) - 1

UsedEpochs(k) == Range(k.used_epochs)

-------------------------------------------------------------------------------
(* Faulty: the end of the window after the step is one tree, or one epoch,    *)
(* off.                                                                       *)
CanAdvanceTooFar(k) == k.left_bottom_tree_index * C + 2 * C <= ActivationEnd(k)

CanAdvanceTooShort(k) == k.left_bottom_tree_index * C + 3 * C < ActivationEnd(k)

(* Faulty: the new tree replaces the right one, which is not kept.            *)
AdvancedDroppingRight(k) ==
  LET left == k.left_bottom_tree_index + 1
  IN  [k EXCEPT !.right_bottom_tree = left + 1,
                !.left_bottom_tree_index = left,
                !.used_epochs = RetainFrom(@, left * C)]

(* Faulty: both trees are replaced in one step.                               *)
AdvancedByTwo(k) ==
  LET left == k.left_bottom_tree_index + 2
  IN  [k EXCEPT !.left_bottom_tree = left,
                !.right_bottom_tree = left + 1,
                !.left_bottom_tree_index = left,
                !.used_epochs = RetainFrom(@, left * C)]

(* advance_preparation: when the next bottom tree is active it becomes the    *)
(* right one, and the epochs of the tree that is dropped are forgotten.       *)
CanAdvance(k) == k.left_bottom_tree_index * C + 3 * C <= ActivationEnd(k)

Advanced(k) ==
  LET left == k.left_bottom_tree_index + 1
  IN  [k EXCEPT !.left_bottom_tree = k.right_bottom_tree,
                !.right_bottom_tree = k.left_bottom_tree_index + 2,
                !.left_bottom_tree_index = left,
                !.used_epochs = RetainFrom(@, left * C)]

-------------------------------------------------------------------------------
(* sign: the checks in the order they are made, and what a signature takes    *)
(* from the key.                                                              *)
InActivation(k, e) == e \in ActivationIntervalOf(k)

Prepared(k, e) == e \in PreparedInterval(k)

Sorted(k) == [k EXCEPT !.used_epochs = SortDedup(@)]

(* Faulty: the epoch goes to the end of the list.                             *)
ConsumeAtEnd(k, p, e) == [k EXCEPT !.used_epochs = Append(@, e)]

Consume(k, p, e) == [k EXCEPT !.used_epochs = InsertAt(@, p, e)]

(* The boundary is computed in u64 and cast to u32.                           *)
Boundary(k) == (k.left_bottom_tree_index * C + C) % U32Range

(* Faulty: the first epoch of the right tree is looked for in the left one.   *)
BottomTreeInclusive(k, e) ==
  IF e <= Boundary(k) THEN k.left_bottom_tree ELSE k.right_bottom_tree

BottomTree(k, e) ==
  IF e < Boundary(k) THEN k.left_bottom_tree ELSE k.right_bottom_tree

Leaves(t) == t * C..t * C + C - 1

(* What the asserts of combined_path ask, less the random padding the top     *)
(* tree may hold at its ends: the position is a leaf of the bottom tree, and  *)
(* the bottom tree one of those the top tree was built from.                  *)
PathDefined(k, t, e) == e \in Leaves(t) /\ t \in k.top_tree

-------------------------------------------------------------------------------
(* The structural checks of the canonical decoder on an encoded key.          *)
Decodable(k) ==
  /\ k.activation_epoch <= PreparedStart(k)
  /\ PreparedEnd(k) <= ActivationEnd(k)
  /\ \A i \in 1..Len(k.used_epochs) - 1 :
       k.used_epochs[i] < k.used_epochs[i + 1]
  /\ UsedEpochs(k) \subseteq ActivationIntervalOf(k) \cap PreparedInterval(k)

-------------------------------------------------------------------------------
(* How the parts of every key the methods produce fit together: the window    *)
(* starts at a bottom tree and lies in the activation interval, the two trees *)
(* are those of the window, and the top tree has one root for every bottom    *)
(* tree of the activation interval.                                           *)
KeyShape(k) ==
  \E first, after \in 0..C :
    /\ first <= k.left_bottom_tree_index
    /\ k.left_bottom_tree_index + 2 <= after
    /\ k.activation_epoch = first * C
    /\ k.num_active_epochs = (after - first) * C
    /\ k.top_tree = first..after - 1
    /\ k.left_bottom_tree = k.left_bottom_tree_index
    /\ k.right_bottom_tree = k.left_bottom_tree_index + 1
===============================================================================
