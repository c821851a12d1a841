------------------------------- MODULE MCLeanSig -------------------------------
(* Small instances of LeanSig: a tree of depth four over sixteen epochs, two  *)
(* chains of three values and codewords of sum two: <<0, 2>>, <<1, 1>> and    *)
(* <<2, 0>>.                                                                  *)
EXTENDS LeanSig

CONSTANTS m1, m2

(* One key for the whole lifetime; one for the bottom trees 1 and 2, whose    *)
(* top tree is padded on both sides; one for 1, 2 and 3.                      *)
MCRequest == {<<0, 16>>, <<5, 3>>, <<5, 8>>}

(* Both sides of a boundary, the first epochs of trees that are rebuilt, and *)
(* the last epoch of the lifetime, which is the last a u32 can name.          *)
MCSignEpoch == {3, 4, 7, 8, 12, 15}

MCMessage == {m1, m2}

(* m1 finds a codeword at the first, second or third attempt, depending on    *)
(* the epoch. m2 has one at epochs 4 and 7 only; with the randomness of a     *)
(* signature for m1 it hashes to the same codeword as m1 there.               *)
MCMessageHash(m, rho, e) ==
  IF m = m1 THEN <<(e + rho.counter) % 3, (2 + e + rho.counter) % 3>>
  ELSE <<(e + rho.counter) % 3, (e + 2 * rho.counter) % 3>>
================================================================================
