------------------------------ MODULE Ascending ------------------------------
(* The three things the code does to a vector of epochs: sort_unstable        *)
(* followed by dedup, binary_search for a position to insert at, and retain.  *)
(* Everything is written without recursion, so that it can be proved about.   *)
EXTENDS Integers, Sequences, FiniteSets, Functions

StrictlyAscending(s) == \A i, j \in DOMAIN s : i < j => s[i] < s[j]

Below(S, i) == {j \in S : j < i}

(* The k-th smallest member of the finite set of integers S.                  *)
Nth(S, k) == CHOOSE i \in S : Cardinality(Below(S, i)) = k - 1

(* The members of S, smallest first.                                          *)
Enumerate(S) == [k \in 1..Cardinality(S) |-> Nth(S, k)]

(* Faulty: the vector is looked up as it came.                                *)
Unsorted(s) == s

SortDedup(s) == Enumerate(Range(s))

(* Faulty: the first epoch of the window is dropped with those before it.     *)
RetainAfter(s, lo) ==
  LET kept == Enumerate({i \in DOMAIN s : s[i] > lo})
  IN  [k \in DOMAIN kept |-> s[kept[k]]]

(* Faulty: nothing is dropped.                                                *)
RetainAll(s, lo) == s

(* The elements of s that are at least lo, in the order they have in s.       *)
RetainFrom(s, lo) ==
  LET kept == Enumerate({i \in DOMAIN s : s[i] >= lo})
  IN  [k \in DOMAIN kept |-> s[kept[k]]]

NonDescending(s) == \A i, j \in DOMAIN s : i < j => s[i] <= s[j]

(* slice::binary_search promises a position only for a sorted slice: there    *)
(* Err(p) is the one place that keeps it sorted; elsewhere any place may come *)
(* back. Positions count from 1.                                              *)
InsertPositions(s, e) ==
  {p \in 1..Len(s) + 1 :
     NonDescending(s) => /\ \A i \in 1..p - 1 : s[i] < e
                         /\ \A i \in p..Len(s) : s[i] > e}
==============================================================================
