------------------------------- MODULE HashTree -------------------------------
(* The sparse Merkle tree over all epochs, split into one top tree and many   *)
(* bottom trees. Hashing is symbolic: a node is the term it was computed      *)
(* from, so two nodes are equal only if they were computed alike. The public  *)
(* parameter is the same everywhere and left out.                             *)
EXTENDS Integers, Sequences, SequencesExt

CONSTANT Depth   \* LOG_LIFETIME

ASSUME DepthAssumption == Depth \in 2..32 /\ Depth % 2 = 0

Half == Depth \div 2

TreeTweak(level, position) == [level |-> level, position |-> position]

Apply(tweak, inputs) == [tweak |-> tweak, inputs |-> inputs]

(* rand_domain: the value drawn for one place of the tree.                    *)
RandDomain(rng, level, place) == [rng |-> rng, level |-> level, place |-> place]

-------------------------------------------------------------------------------
(* A layer begins with a left child and ends with a right one.                *)
Padded(rng, level, nodes, start) ==
  LET end   == start + Len(nodes) - 1
      front == IF start % 2 = 1 THEN <<RandDomain(rng, level, "front")>> ELSE << >>
      back  == IF end % 2 = 0 THEN <<RandDomain(rng, level, "back")>> ELSE << >>
  IN  [start_index |-> start - Len(front), nodes |-> front \o nodes \o back]

(* The parents of consecutive pairs of children.                              *)
ComputeTreeLayer(level, parent_start, children) ==
  [i \in 1..Len(children) \div 2 |->
     Apply(TreeTweak(level, parent_start + i - 1),
           <<children[2 * i - 1], children[2 * i]>>)]

(* new_subtree asserts this of its arguments.                                 *)
Fits(lowest, start, nodes) ==
  lowest < Depth /\ start + Len(nodes) <= 2^(Depth - lowest)

(* The layer above another.                                                   *)
ParentLayer(rng, level, prev) ==
  LET parent_start == prev.start_index \div 2
  IN  Padded(rng, level, ComputeTreeLayer(level, parent_start, prev.nodes), parent_start)

(* The layers from the lowest one up to the root.                             *)
NewSubtree(rng, lowest, start, nodes) ==
  LET layer[level \in lowest..Depth] ==
        IF level = lowest THEN Padded(rng, level, nodes, start)
        ELSE ParentLayer(rng, level, layer[level - 1])
  IN  [layers |-> [k \in 1..Depth + 1 - lowest |-> layer[lowest + k - 1]]]

NewTopTree(rng, start, roots) == NewSubtree(rng, Half, start, roots)

(* Faulty: the root is taken from the place it has in a tree of even index.   *)
BottomRootEven(nodes, t) == nodes[1]

(* Padding may have moved the root of an odd tree by one.                     *)
BottomRoot(nodes, t) == nodes[(t % 2) + 1]

(* The tree is built up to the root of the whole, then cut off above its own. *)
(* The random numbers come from a seed of its own.                            *)
NewBottomTree(t, leafs) ==
  LET whole == NewSubtree("seed 0", 0, t * 2^Half, leafs)
      root  == BottomRoot(whole.layers[Half + 1].nodes, t)
  IN  [layers |-> Append(SubSeq(whole.layers, 1, Half),
                         [start_index |-> t, nodes |-> <<root>>])]

Root(tree) == Last(tree.layers).nodes[1]

-------------------------------------------------------------------------------
InLowestLayer(tree, position) ==
  LET lowest == tree.layers[1]
  IN  position \in lowest.start_index..lowest.start_index + Len(lowest.nodes) - 1

(* position ^ 1                                                               *)
Sibling(position) == IF position % 2 = 0 THEN position + 1 ELSE position - 1

(* The sibling at every layer but the last. The layers that a path climbs all *)
(* have two nodes or more.                                                    *)
Path(tree, position) ==
  [l \in 1..Len(tree.layers) - 1 |->
     LET layer == tree.layers[l]
     IN  layer.nodes[Sibling(position \div 2^(l - 1)) - layer.start_index + 1]]

BottomTreeIndex(bottom) == bottom.layers[1].start_index \div 2^Half

(* The asserts of combined_path and of the two calls of path it makes.        *)
PathsExist(top, bottom, position) ==
  /\ bottom.layers[1].start_index % 2^Half = 0
  /\ InLowestLayer(bottom, position)
  /\ InLowestLayer(top, BottomTreeIndex(bottom))

CombinedPath(top, bottom, position) ==
  Path(bottom, position) \o Path(top, BottomTreeIndex(bottom))

-------------------------------------------------------------------------------
(* The children are put in the order the bits of the position give.           *)
HashTreeVerify(root, position, leaf, co_path) ==
  LET depth == Len(co_path)
      node[l \in 0..depth] ==
        IF l = 0 THEN Apply(TreeTweak(0, position), leaf)
        ELSE LET child == position \div 2^(l - 1)
             IN  Apply(TreeTweak(l, child \div 2),
                       IF child % 2 = 0 THEN <<node[l - 1], co_path[l]>>
                       ELSE <<co_path[l], node[l - 1]>>)
  IN  depth <= 32 /\ position < 2^depth /\ node[depth] = root
===============================================================================
