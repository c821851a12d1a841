-------------------------------- MODULE KeyGen --------------------------------
(* One call of key_gen: its asserts, the two bottom trees it keeps, the rest  *)
(* of the bottom trees built by rayon's workers in any order, and the top     *)
(* tree over the roots. A failed assert ends the call in a panic.             *)
EXTENDS SecretKey

CONSTANT Request   \* the pairs of an epoch and a count key_gen is called with

ASSUME RequestAssumption == \A r \in Request : r[1] \in Nat /\ r[2] \in Nat

VARIABLES
  pc,         \* what key_gen does next
  request,    \* its arguments
  interval,   \* the first bottom tree and the one after the last
  roots,      \* roots_of_bottom_trees, each the index of its tree
  finished,   \* what the workers have built, in the order they finished
  key         \* the key it returns

vars == <<pc, request, interval, roots, finished, key>>

NoInterval == [first |-> 0, after |-> 0]
NoKey == [activation_epoch |-> 0]

Init ==
  /\ pc = "Validate"
  /\ request \in Request
  /\ interval = NoInterval
  /\ roots = << >>
  /\ finished = << >>
  /\ key = NoKey

Panic == pc' = "Panicked" /\ UNCHANGED <<request, interval, roots, finished, key>>

-------------------------------------------------------------------------------
(* The checked sum in u64 and the two asserts on it.                          *)
Validate ==
  /\ pc = "Validate"
  /\ IF ValidRequest(request[1], request[2])
     THEN pc' = "Expand" /\ UNCHANGED <<request, interval, roots, finished, key>>
     ELSE Panic

(* A count of bottom trees below two fails the assert on it, and one that has *)
(* wrapped below zero is more than Vec::with_capacity can allocate.           *)
ExpandRequest ==
  LET i == Expand(request[1], request[2])
  IN  /\ pc = "Expand"
      /\ IF i.first + 2 <= i.after
         THEN /\ pc' = "Left"
              /\ interval' = i
              /\ UNCHANGED <<request, roots, finished, key>>
         ELSE Panic

(* new_bottom_tree asserts that the depth, 2 log C, is more than two.         *)
DeepEnough == C > 2

(* The two trees the key keeps are built before the others.                   *)
BuildKept(here, next, tree) ==
  /\ pc = here
  /\ IF DeepEnough
     THEN /\ pc' = next
          /\ roots' = Append(roots, tree)
          /\ UNCHANGED <<request, interval, finished, key>>
     ELSE Panic

BuildLeft == BuildKept("Left", "Right", interval.first)
BuildRight == BuildKept("Right", "Parallel", interval.first + 1)

ParallelTrees == interval.first + 2..interval.after - 1

(* One worker is done with one tree.                                          *)
BuildInParallel(t) ==
  /\ pc = "Parallel"
  /\ t \in ParallelTrees \ Range(finished)
  /\ finished' = Append(finished, t)
  /\ UNCHANGED <<pc, request, interval, roots, key>>

(* Faulty: the roots are taken as they come.                                  *)
AsFinished(s) == s

(* collect on an indexed parallel iterator keeps the order of the range, not  *)
(* the one the workers finished in.                                           *)
Collect(s) == SortDedup(s)

(* The call goes on when no tree of the range is left.                        *)
Join ==
  /\ pc = "Parallel"
  /\ ParallelTrees \subseteq Range(finished)
  /\ roots' = roots \o Collect(finished)
  /\ pc' = "TopTree"
  /\ UNCHANGED <<request, interval, finished, key>>

(* Faulty: the requested epoch, not the expanded one, goes into the key.      *)
AssembleRequested(first) ==
  [activation_epoch       |-> request[1],
   num_active_epochs      |-> (interval.after - first) * C,
   top_tree               |-> Range(roots),
   left_bottom_tree_index |-> first,
   left_bottom_tree       |-> roots[1],
   right_bottom_tree      |-> roots[2],
   used_epochs            |-> << >>]

Assemble(first) ==
  [activation_epoch       |-> first * C,
   num_active_epochs      |-> (interval.after - first) * C,
   top_tree               |-> Range(roots),
   left_bottom_tree_index |-> first,
   left_bottom_tree       |-> roots[1],
   right_bottom_tree      |-> roots[2],
   used_epochs            |-> << >>]

(* new_top_tree asserts that the roots fit into the layer, which has C places.*)
BuildTopTree ==
  /\ pc = "TopTree"
  /\ IF interval.first + Len(roots) <= C
     THEN /\ key' = Assemble(interval.first)
          /\ pc' = "Done"
          /\ UNCHANGED <<request, interval, roots, finished>>
     ELSE Panic

Next ==
  \/ Validate
  \/ ExpandRequest
  \/ BuildLeft
  \/ BuildRight
  \/ \E t \in ParallelTrees : BuildInParallel(t)
  \/ Join
  \/ BuildTopTree

Spec == Init /\ [][Next]_vars

-------------------------------------------------------------------------------
(* A panic is the caller's fault: every request that passes key_gen's own     *)
(* checks is served, whatever lifetime and target its asserts allow.          *)
ValidRequestServed ==
  pc = "Panicked" => ~ValidRequest(request[1], request[2])

(* The key can sign at every epoch that was asked for, and has the two bottom *)
(* trees it keeps inside its activation interval.                             *)
KeyCoversRequest ==
  pc = "Done" =>
    /\ request[1]..request[1] + request[2] - 1 \subseteq ActivationIntervalOf(key)
    /\ PreparedInterval(key) \subseteq ActivationIntervalOf(key)

(* No interval of at least two whole bottom trees that contains the request   *)
(* is shorter than the one chosen, so rounding never costs a tree too many.   *)
SmallestCover ==
  pc = "Done" =>
    \A first, after \in 0..C :
      Covers([first |-> first, after |-> after], request[1], request[2]) =>
        interval.after - interval.first <= after - first

(* In the lowest layer of the top tree each root stands at the place of its   *)
(* tree, however the workers raced: a path into the layer finds the sibling.  *)
RootsInPlace ==
  pc \in {"TopTree", "Done"} =>
    roots = [p \in 1..interval.after - interval.first |-> interval.first + p - 1]

(* What key_gen returns is the key XmssKey starts from.                       *)
KeyAsSpecified ==
  pc = "Done" => key = KeyFor(Expand(request[1], request[2]))

(* What every step keeps, stage by stage: past the asserts the request is     *)
(* valid and the interval its expansion; the two kept trees come first in     *)
(* roots; and no tree is finished twice.                                      *)
Stages == {"Validate", "Expand", "Left", "Right", "Parallel", "TopTree", "Done",
           "Panicked"}

TypeOK ==
  /\ pc \in Stages
  /\ request \in Request
  /\ interval \in [first: Nat, after: Nat]
  /\ roots \in Seq(Nat) /\ finished \in Seq(Nat)
  /\ key \in {NoKey} \cup SecretKeys

Requested ==
  /\ pc \notin {"Validate", "Panicked"} => ValidRequest(request[1], request[2])
  /\ pc \in {"Left", "Right", "Parallel", "TopTree", "Done"} =>
       interval = Expand(request[1], request[2])

KeptFirst ==
  /\ pc \in {"Validate", "Expand", "Left"} => roots = << >>
  /\ pc = "Right" => roots = <<interval.first>>
  /\ pc = "Parallel" => roots = <<interval.first, interval.first + 1>>

FinishedOnce ==
  /\ pc \in {"Validate", "Expand", "Left", "Right"} => finished = << >>
  /\ pc = "Parallel" => /\ Range(finished) \subseteq ParallelTrees
                        /\ Cardinality(Range(finished)) = Len(finished)

KeyGenInv ==
  /\ TypeOK
  /\ Requested
  /\ KeptFirst
  /\ FinishedOnce
  /\ RootsInPlace
  /\ ValidRequestServed
  /\ KeyAsSpecified
===============================================================================
