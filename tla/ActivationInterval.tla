-------------------------- MODULE ActivationInterval --------------------------
(* expand_activation_time: the requested activation interval, rounded out to  *)
(* whole bottom trees. A tree of lifetime 2^LOG_LIFETIME is split in two      *)
(* halves; C is the number of leaves of a bottom tree, 2^(LOG_LIFETIME / 2),  *)
(* which is also the number of bottom trees. usize arithmetic is modular.     *)
EXTENDS Integers

CONSTANTS
  C,           \* epochs per bottom tree
  UsizeRange   \* number of values of the target's usize

ASSUME CAssumption == C \in Nat /\ C >= 2
ASSUME UsizeAssumption == UsizeRange \in Nat /\ UsizeRange > C

Lifetime == C * C

Wrap(x) == x % UsizeRange

(* x & !(c - 1)                                                               *)
AlignDown(x) == (x \div C) * C

(* 1usize << LOG_LIFETIME: a shift by the width of the type has its amount    *)
(* masked to zero.                                                            *)
UsizeLifetime == IF Lifetime < UsizeRange THEN Lifetime ELSE 1

(* The asserts of key_gen on its arguments, made in u64.                      *)
ValidRequest(epoch, count) == epoch + count <= Lifetime /\ count > 0

(* Faulty: the end is rounded down, or out by one tree when it is aligned.    *)
AlignedEndDown(epoch, count) == AlignDown(Wrap(epoch + count))

AlignedEndPast(epoch, count) == AlignDown(Wrap(Wrap(epoch + count) + C))

(* The aligned interval that contains the request and spans two bottom trees, *)
(* before it is moved back inside the lifetime.                               *)
AlignedEnd(epoch, count) == AlignDown(Wrap(Wrap(epoch + count) + C - 1))

TwoTreesEnd(epoch, count) ==
  LET start == AlignDown(epoch)
      end   == AlignedEnd(epoch, count)
  IN  IF Wrap(end - start) < 2 * C THEN Wrap(start + 2 * C) ELSE end

(* Faulty: an end beyond the lifetime is cut off and the start left alone.    *)
ExpandClipped(epoch, count) ==
  LET start == AlignDown(epoch)
      end   == TwoTreesEnd(epoch, count)
  IN  [first |-> start \div C,
       after |-> (IF end <= UsizeLifetime THEN end ELSE UsizeLifetime) \div C]

(* The first bottom tree and the one after the last.                          *)
Expand(epoch, count) ==
  LET start    == AlignDown(epoch)
      end      == TwoTreesEnd(epoch, count)
      duration == Wrap(end - start)
      interval == IF end <= UsizeLifetime THEN [start |-> start, end |-> end]
                  ELSE [start |-> IF duration > UsizeLifetime THEN 0
                                  ELSE AlignDown(UsizeLifetime - duration),
                        end   |-> UsizeLifetime]
  IN  [first |-> interval.start \div C, after |-> interval.end \div C]

(* What key_gen needs of the expansion.                                       *)
Covers(i, epoch, count) ==
  /\ i.first + 2 <= i.after /\ i.after <= C
  /\ i.first * C <= epoch /\ epoch + count <= i.after * C
===============================================================================
