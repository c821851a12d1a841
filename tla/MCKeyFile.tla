------------------------------- MODULE MCKeyFile -------------------------------
(* Keys as key_gen makes them for a lifetime of sixteen epochs, with the used *)
(* epochs of a few signatures, their public keys and a signature. Bytes have  *)
(* eight values, so that a u32 and a u64 stay within TLC's integers and an    *)
(* offset can still point far behind the end; a hash has two.                 *)
EXTENDS KeyFile, HashTree

Hash(n) == [j \in 1..HASH_LENGTH |-> (n * 3 + j) % Radix]

(* A tree of HashTree, with its two numbers, and its nodes in bytes.          *)
InBytes(tree, lowest) ==
  [depth        |-> Depth,
   lowest_layer |-> lowest,
   layers       |-> [l \in 1..Len(tree.layers) |->
                       [start_index |-> tree.layers[l].start_index,
                        nodes |-> [n \in 1..Len(tree.layers[l].nodes) |-> Hash(5 * l + n)]]]]

BottomTreeOf(t) == NewBottomTree(t, [k \in 1..C |-> t * C + k - 1])

KeyOf(i, used) ==
  LET k == KeyFor(i)
  IN  [prf_key |-> Hash(0), parameter |-> Hash(1),
       activation_epoch       |-> k.activation_epoch,
       num_active_epochs      |-> k.num_active_epochs,
       left_bottom_tree_index |-> k.left_bottom_tree_index,
       top_tree          |->
         InBytes(NewTopTree("rng", i.first, [p \in 1..i.after - i.first |-> p]), Half),
       left_bottom_tree  |-> InBytes(BottomTreeOf(i.first), 0),
       right_bottom_tree |-> InBytes(BottomTreeOf(i.first + 1), 0),
       used_epochs       |-> used]

MCSignature ==
  [path |-> [co_path |-> [l \in 1..Depth |-> Hash(l)]], rho |-> Hash(6),
   hashes |-> <<Hash(1), Hash(4), Hash(2)>>]

MCValues ==
  {[kind |-> "secret key", data |-> KeyOf(Expand(0, 16), <<0, 3, 5>>)],
   [kind |-> "secret key", data |-> KeyOf(Expand(5, 3), <<>>)],
   [kind |-> "secret key", data |-> KeyOf(Expand(5, 8), <<4, 11>>)],
   [kind |-> "public key", data |-> [root |-> Hash(2), parameter |-> Hash(1)]],
   [kind |-> "signature", data |-> MCSignature]}

(* A byte, a hash, and an epoch of a window.                                  *)
MCTails == {<<0>>, <<7, 7>>, <<7, 0, 0, 0>>}
================================================================================
