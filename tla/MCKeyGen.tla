------------------------------- MODULE MCKeyGen -------------------------------
(* Small instances of KeyGen. C = 8 is LOG_LIFETIME = 6: up to six bottom     *)
(* trees for the workers.                                                     *)
EXTENDS KeyGen

(* Epochs and counts on both sides of every boundary: of a tree, of two       *)
(* trees, of the last trees and of the lifetime.                              *)
MCRequest ==
  {0, 1, 7, 8, 9, 47, 48, 55, 56, 57, 63, 64}
    \X {0, 1, 2, 7, 8, 9, 15, 16, 17, 56, 57, 63, 64}

(* Every request a lifetime of C * C can be asked for.                        *)
MCAllRequests == (0..C * C) \X (0..C * C)
===============================================================================
