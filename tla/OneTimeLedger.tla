---------------------------- MODULE OneTimeLedger -----------------------------
(* What a one-time signer promises, with no key, tree or list of used epochs: *)
(* a ledger of what was signed, which only grows and holds one message per    *)
(* epoch, and a window of epochs open for signing that slides forward in      *)
(* steps of C inside an interval fixed at the start.                          *)
EXTENDS Integers

CONSTANTS C, Message

VARIABLES
  ledger,   \* the pairs of an epoch and a message that were signed
  start,    \* the first epoch of the window
  last      \* the epoch after the last the signer will ever open

vars == <<ledger, start, last>>

Window == start..start + 2 * C - 1

Init ==
  /\ ledger = {}
  /\ start \in Nat /\ last \in Nat
  /\ start + 2 * C <= last

Sign(e, m) ==
  /\ e \in Window
  /\ \A s \in ledger : s[1] # e
  /\ ledger' = ledger \cup {<<e, m>>}
  /\ UNCHANGED <<start, last>>

Slide ==
  /\ start + 3 * C <= last
  /\ start' = start + C
  /\ UNCHANGED <<ledger, last>>

Next == Slide \/ \E e \in Window, m \in Message : Sign(e, m)

Spec == Init /\ [][Next]_vars
===============================================================================
