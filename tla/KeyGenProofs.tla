----------------------------- MODULE KeyGenProofs -----------------------------
(* key_gen, for half trees of any size but the smallest, on a target whose    *)
(* usize holds the lifetime: every valid request is served by the smallest    *)
(* interval that covers it, and the roots stand in the order of their trees   *)
(* in whatever order the workers finish.                                      *)
EXTENDS KeyGen, SecretKeyProofs, FiniteSetTheorems

(* Sorting the distinct numbers of an interval counts it up.                  *)
LEMMA EnumerateInterval ==
  ASSUME NEW a \in Int, NEW b \in Int, a <= b + 1
  PROVE  Enumerate(a..b) = [k \in 1..b - a + 1 |-> a + k - 1]
<1>1. Cardinality(a..b) = b - a + 1 BY FS_Interval
<1>2. ASSUME NEW k \in 1..b - a + 1
      PROVE  Nth(a..b, k) = a + k - 1
  <2>1. ASSUME NEW i \in a..b
        PROVE  Cardinality(Below(a..b, i)) = i - a
    <3>1. Below(a..b, i) = a..i - 1 BY DEF Below
    <3>2. i - 1 \in Int /\ i >= a OBVIOUS
    <3>3. Cardinality(a..i - 1) = IF a > i - 1 THEN 0 ELSE (i - 1) - a + 1
      BY <3>2, FS_Interval
    <3> QED BY <3>1, <3>2, <3>3
  <2>2. a + k - 1 \in a..b OBVIOUS
  <2>3. \A i \in a..b : Cardinality(Below(a..b, i)) = k - 1 <=> i = a + k - 1
    BY <2>1
  <2> QED BY <2>2, <2>3 DEF Nth
<1> QED BY <1>1, <1>2 DEF Enumerate

(* When all workers are done, the trees finished are those of the range.      *)
LEMMA AllFinished ==
  ASSUME NEW a \in Nat, NEW b \in Nat, NEW s \in Seq(Nat),
         a <= b, Range(s) = a..b - 1
  PROVE  Collect(s) = [k \in 1..b - a |-> a + k - 1]
<1>1. Enumerate(a..b - 1) = [k \in 1..(b - 1) - a + 1 |-> a + k - 1]
  BY EnumerateInterval
<1>2. (b - 1) - a + 1 = b - a OBVIOUS
<1> QED BY <1>1, <1>2 DEF Collect, SortDedup

(* A sequence has finitely many values, and an Append adds the one.           *)
LEMMA RangeAppend ==
  ASSUME NEW s \in Seq(Nat), NEW t \in Nat
  PROVE  /\ IsFiniteSet(Range(s))
         /\ \A x : x \in Range(Append(s, t)) <=> x \in Range(s) \/ x = t
<1>1. /\ Len(s) \in Nat /\ DOMAIN s = 1..Len(s) /\ s \in [1..Len(s) -> Nat]
  BY LenProperties
<1>2. IsFiniteSet(Range(s))
  <2>1. s \in Surjection(1..Len(s), Range(s)) BY <1>1 DEF Surjection, Range
  <2>2. IsFiniteSet(1..Len(s)) BY <1>1, FS_Interval
  <2> QED BY <2>1, <2>2, FS_Surjection
<1> DEFINE u == Append(s, t)
<1>3. /\ DOMAIN u = 1..Len(s) + 1 /\ u[Len(s) + 1] = t
      /\ \A i \in 1..Len(s) : u[i] = s[i]
  BY <1>1
<1> HIDE DEF u
<1>4. ASSUME NEW x PROVE x \in Range(u) <=> x \in Range(s) \/ x = t
  <2>1. x \in Range(u) <=> \E i \in 1..Len(s) + 1 : u[i] = x
    BY <1>3 DEF Range
  <2>2. x \in Range(s) <=> \E i \in 1..Len(s) : s[i] = x BY <1>1 DEF Range
  <2>3. \A i \in 1..Len(s) + 1 : i \in 1..Len(s) \/ i = Len(s) + 1 BY <1>1
  <2>4. Len(s) + 1 \in 1..Len(s) + 1 /\ 1..Len(s) \subseteq 1..Len(s) + 1
    BY <1>1
  <2> QED BY <1>3, <2>1, <2>2, <2>3, <2>4
<1> QED BY <1>2, <1>4 DEF u

(* One more root at the end of a list of distinct ones.                       *)
LEMMA OneMore ==
  ASSUME NEW s \in Seq(Nat), NEW t \in Nat, t \notin Range(s),
         Cardinality(Range(s)) = Len(s)
  PROVE  Cardinality(Range(Append(s, t))) = Len(Append(s, t))
<1>1. Range(Append(s, t)) = Range(s) \cup {t} BY RangeAppend
<1>2. IsFiniteSet(Range(s)) BY RangeAppend
<1>3. Cardinality(Range(s) \cup {t}) = Len(s) + 1 BY <1>2, FS_AddElement
<1>4. Len(Append(s, t)) = Len(s) + 1 OBVIOUS
<1> QED BY <1>1, <1>3, <1>4

LEMMA AppendOne ==
  ASSUME NEW x \in Nat, NEW y \in Nat
  PROVE  Append(<<x>>, y) = <<x, y>>
<1> DEFINE s == <<x>>
           t == <<x, y>>
<1>1. s \in Seq(Nat) /\ Len(s) = 1 /\ s[1] = x OBVIOUS
<1>2. t \in Seq(Nat) /\ Len(t) = 2 /\ t[1] = x /\ t[2] = y OBVIOUS
<1> HIDE DEF s, t
<1>3. /\ Append(s, y) \in Seq(Nat) /\ Len(Append(s, y)) = 2
      /\ Append(s, y)[1] = x /\ Append(s, y)[2] = y
  <2>1. /\ Append(s, y) \in Seq(Nat) /\ Len(Append(s, y)) = Len(s) + 1
        /\ \A i \in 1..Len(s) : Append(s, y)[i] = s[i]
        /\ Append(s, y)[Len(s) + 1] = y
    BY <1>1, AppendProperties, ZenonT(60)
  <2> QED BY <1>1, <2>1
<1>4. \A i \in 1..2 : i = 1 \/ i = 2 OBVIOUS
<1>5. Append(s, y) = t BY <1>2, <1>3, <1>4, SeqEqual
<1> QED BY <1>5 DEF s, t

(* The two kept roots followed by the others in order are all in order.       *)
LEMMA JoinedRoots ==
  ASSUME NEW a \in Nat, NEW b \in Nat, a + 2 <= b
  PROVE  LET r == <<a, a + 1>> \o [k \in 1..b - (a + 2) |-> (a + 2) + k - 1]
         IN  r = [p \in 1..b - a |-> a + p - 1] /\ r \in Seq(Nat)
<1> DEFINE r == <<a, a + 1>> \o [k \in 1..b - (a + 2) |-> (a + 2) + k - 1]
           n == b - (a + 2)
           u == <<a, a + 1>>
           v == [k \in 1..n |-> (a + 2) + k - 1]
<1>1. n \in Nat /\ b - a = n + 2 OBVIOUS
<1> HIDE DEF n
<1>2. u \in Seq(Nat) /\ Len(u) = 2 /\ u[1] = a /\ u[2] = a + 1 OBVIOUS
<1>3. \A k \in 1..n : (a + 2) + k - 1 \in Nat BY <1>1
<1>4. v \in Seq(Nat) /\ Len(v) = n /\ \A k \in 1..n : v[k] = (a + 2) + k - 1
  BY <1>1, <1>3
<1>5. r = u \o v BY DEF n
<1> HIDE DEF u, v, r
<1>6. /\ r \in Seq(Nat) /\ Len(r) = 2 + n
      /\ \A p \in 1..2 + n : r[p] = IF p <= 2 THEN u[p] ELSE v[p - 2]
  <2>1. u \in Seq(Nat) /\ v \in Seq(Nat) BY <1>2, <1>4
  <2>2. /\ u \o v \in Seq(Nat) /\ Len(u \o v) = Len(u) + Len(v)
        /\ \A p \in 1..Len(u) + Len(v) :
             (u \o v)[p] = IF p <= Len(u) THEN u[p] ELSE v[p - Len(u)]
    BY <2>1, ConcatProperties
  <2> QED BY <1>2, <1>4, <1>5, <2>2
<1>7. DOMAIN r = 1..2 + n /\ r \in [1..2 + n -> Nat] BY <1>6, LenProperties
<1>8. ASSUME NEW p \in 1..2 + n PROVE r[p] = a + p - 1
  <2>1. CASE p = 1 BY <1>1, <1>2, <1>6, <2>1
  <2>2. CASE p = 2 BY <1>1, <1>2, <1>6, <2>2
  <2>3. CASE p > 2
    <3>1. p - 2 \in 1..n BY <1>1, <2>3
    <3>2. ~(p <= 2) BY <1>1, <2>3
    <3>3. r[p] = v[p - 2] BY <1>6, <3>2
    <3>4. v[p - 2] = (a + 2) + (p - 2) - 1 BY <1>4, <3>1
    <3>5. p \in Int BY <1>1
    <3>6. (a + 2) + (p - 2) - 1 = a + p - 1 BY <3>5
    <3> QED BY <3>3, <3>4, <3>6
  <2> QED BY <1>1, <2>1, <2>2, <2>3
<1>9. 1..b - a = 1..2 + n BY <1>1
<1>10. r = [p \in 1..b - a |-> a + p - 1] /\ r \in Seq(Nat)
  BY <1>6, <1>7, <1>8, <1>9
<1> QED BY <1>10 DEF r

(* The roots in order, seen from the key that is made of them.                *)
LEMMA CountedRoots ==
  ASSUME NEW a \in Nat, NEW b \in Nat, a + 2 <= b, NEW r,
         r = [p \in 1..b - a |-> a + p - 1]
  PROVE  /\ Len(r) = b - a /\ r[1] = a /\ r[2] = a + 1
         /\ Range(r) = a..b - 1
<1>1. b - a \in Nat /\ 1 \in 1..b - a /\ 2 \in 1..b - a OBVIOUS
<1>2. Len(r) = b - a /\ r[1] = a /\ r[2] = a + 1 BY <1>1
<1>3. ASSUME NEW x PROVE x \in Range(r) <=> x \in a..b - 1
  <2>1. x \in Range(r) <=> \E p \in 1..b - a : x = a + p - 1 BY DEF Range
  <2>2. ASSUME x \in a..b - 1 PROVE \E p \in 1..b - a : x = a + p - 1
    <3>1. x - a + 1 \in 1..b - a /\ x = a + (x - a + 1) - 1 BY <2>2
    <3> QED BY <3>1
  <2>3. ASSUME NEW p \in 1..b - a PROVE a + p - 1 \in a..b - 1 OBVIOUS
  <2> QED BY <2>1, <2>2, <2>3
<1>4. Range(r) = a..b - 1 BY <1>3
<1> QED BY <1>2, <1>4

-------------------------------------------------------------------------------
(* The expansion of a valid request, in the types of the invariant.           *)
LEMMA Expanded ==
  ASSUME UsizeRange > Lifetime + 2 * C, NEW r \in Request,
         ValidRequest(r[1], r[2])
  PROVE  LET i == Expand(r[1], r[2])
         IN  /\ i \in [first: Nat, after: Nat]
             /\ i.first + 2 <= i.after /\ i.after <= C
             /\ Covers(i, r[1], r[2])
<1> DEFINE i == Expand(r[1], r[2])
<1>1. r[1] \in Nat /\ r[2] \in Nat BY RequestAssumption
<1>2. i.first \in Nat /\ i.after \in Nat /\ Covers(i, r[1], r[2])
  BY <1>1, ExpandCovers
<1>3. \E f, a : i = [first |-> f, after |-> a] BY DEF Expand
<1>4. i = [first |-> i.first, after |-> i.after]
  <2> HIDE DEF i
  <2> QED BY <1>3
<1> HIDE DEF i
<1>5. i \in [first: Nat, after: Nat] BY <1>2, <1>4
<1>6. i.first + 2 <= i.after /\ i.after <= C BY <1>2 DEF Covers
<1> QED BY <1>2, <1>5, <1>6 DEF i

LEMMA InitKeyGenInv == Init => KeyGenInv
<1> SUFFICES ASSUME Init PROVE KeyGenInv OBVIOUS
<1>1. TypeOK BY DEF Init, TypeOK, Stages, NoInterval
<1> QED BY <1>1 DEF Init, KeyGenInv, Requested, KeptFirst, FinishedOnce,
                     RootsInPlace, ValidRequestServed, KeyAsSpecified

(* Every step keeps the invariant.                                            *)
LEMMA NextKeyGenInv ==
  ASSUME UsizeRange > Lifetime + 2 * C, C > 2, KeyGenInv, [Next]_vars
  PROVE  KeyGenInv'
<1> DEFINE i == Expand(request[1], request[2])
           a == interval.first
           b == interval.after
<1> USE DEF KeyGenInv
<1>1. /\ pc \in Stages /\ request \in Request
      /\ interval \in [first: Nat, after: Nat]
      /\ roots \in Seq(Nat) /\ finished \in Seq(Nat)
      /\ key \in {NoKey} \cup SecretKeys
      /\ a \in Nat /\ b \in Nat
  BY DEF TypeOK
<1>2. ASSUME ValidRequest(request[1], request[2])
      PROVE  /\ i \in [first: Nat, after: Nat]
             /\ i.first + 2 <= i.after /\ i.after <= C
  BY <1>1, <1>2, Expanded
<1>3. ASSUME pc \in {"Left", "Right", "Parallel", "TopTree", "Done"}
      PROVE  /\ ValidRequest(request[1], request[2])
             /\ interval = i /\ a + 2 <= b /\ b <= C
  <2>1. ValidRequest(request[1], request[2]) /\ interval = i
    BY <1>3 DEF Requested
  <2> HIDE DEF i
  <2> QED BY <1>2, <2>1
<1> HIDE DEF i
<1>4. CASE Validate
  <2>1. CASE ValidRequest(request[1], request[2])
    BY <1>1, <1>4, <2>1 DEF Validate, TypeOK, Stages, Requested, KeptFirst,
         FinishedOnce, RootsInPlace, ValidRequestServed, KeyAsSpecified
  <2>2. CASE ~ValidRequest(request[1], request[2])
    BY <1>1, <1>4, <2>2 DEF Validate, Panic, TypeOK, Stages, Requested,
         KeptFirst, FinishedOnce, RootsInPlace, ValidRequestServed,
         KeyAsSpecified
  <2> QED BY <2>1, <2>2
<1>5. CASE ExpandRequest
  <2>1. pc = "Expand" /\ ValidRequest(request[1], request[2])
    BY <1>5 DEF ExpandRequest, Requested
  <2>2. /\ pc' = "Left" /\ interval' = i
        /\ UNCHANGED <<request, roots, finished, key>>
    BY <1>2, <1>5, <2>1 DEF ExpandRequest, i
  <2>3. interval' \in [first: Nat, after: Nat] BY <1>2, <2>1, <2>2
  <2> QED BY <1>1, <2>1, <2>2, <2>3 DEF TypeOK, Stages, Requested, KeptFirst,
         FinishedOnce, RootsInPlace, ValidRequestServed, KeyAsSpecified, i
<1>6. CASE BuildLeft
  <2>1. /\ pc = "Left" /\ pc' = "Right" /\ roots' = Append(roots, a)
        /\ UNCHANGED <<request, interval, finished, key>>
    BY <1>6 DEF BuildLeft, BuildKept, DeepEnough
  <2>2. roots = << >> /\ finished = << >> BY <2>1 DEF KeptFirst, FinishedOnce
  <2>3. roots' = <<a>> /\ roots' \in Seq(Nat) BY <1>1, <2>1, <2>2
  <2> QED BY <1>1, <2>1, <2>2, <2>3 DEF TypeOK, Stages, Requested, KeptFirst,
         FinishedOnce, RootsInPlace, ValidRequestServed, KeyAsSpecified
<1>7. CASE BuildRight
  <2>1. /\ pc = "Right" /\ pc' = "Parallel" /\ roots' = Append(roots, a + 1)
        /\ UNCHANGED <<request, interval, finished, key>>
    BY <1>7 DEF BuildRight, BuildKept, DeepEnough
  <2>2. roots = <<a>> /\ finished = << >> BY <2>1 DEF KeptFirst, FinishedOnce
  <2>3. roots' = <<a, a + 1>> /\ roots' \in Seq(Nat)
    <3> HIDE DEF a, b
    <3>1. a \in Nat /\ a + 1 \in Nat BY <1>1
    <3>2. Append(<<a>>, a + 1) = <<a, a + 1>> BY <3>1, AppendOne
    <3>3. <<a, a + 1>> \in Seq(Nat) BY <3>1
    <3> QED BY <2>1, <2>2, <3>2, <3>3
  <2>4. Range(<< >>) = {} /\ Len(<< >>) = 0 /\ Cardinality({}) = 0
    BY FS_EmptySet DEF Range
  <2>5. FinishedOnce' BY <2>1, <2>2, <2>4 DEF FinishedOnce
  <2> QED BY <1>1, <2>1, <2>3, <2>5 DEF TypeOK, Stages, Requested, KeptFirst,
         RootsInPlace, ValidRequestServed, KeyAsSpecified
<1>8. ASSUME NEW t \in ParallelTrees, BuildInParallel(t)
      PROVE  KeyGenInv'
  <2>1. /\ pc = "Parallel" /\ t \notin Range(finished)
        /\ finished' = Append(finished, t)
        /\ UNCHANGED <<pc, request, interval, roots, key>>
    BY <1>8 DEF BuildInParallel
  <2>2. t \in Nat BY <1>1, <1>8 DEF ParallelTrees
  <2>3. finished' \in Seq(Nat) BY <1>1, <2>1, <2>2
  <2>4. /\ Range(finished) \subseteq ParallelTrees
        /\ Cardinality(Range(finished)) = Len(finished)
    BY <2>1 DEF FinishedOnce
  <2>5. Range(finished') \subseteq ParallelTrees
    BY <1>1, <1>8, <2>1, <2>2, <2>4, RangeAppend
  <2>6. Cardinality(Range(finished')) = Len(finished')
    BY <1>1, <2>1, <2>2, <2>4, OneMore
  <2>7. ParallelTrees' = ParallelTrees BY <2>1 DEF ParallelTrees
  <2>8. FinishedOnce' BY <2>1, <2>5, <2>6, <2>7 DEF FinishedOnce
  <2> QED BY <1>1, <2>1, <2>3, <2>8 DEF TypeOK, Stages, Requested, KeptFirst,
         RootsInPlace, ValidRequestServed, KeyAsSpecified
<1>9. CASE Join
  <2>1. /\ pc = "Parallel" /\ pc' = "TopTree"
        /\ ParallelTrees \subseteq Range(finished)
        /\ roots' = roots \o Collect(finished)
        /\ UNCHANGED <<request, interval, finished, key>>
    BY <1>9 DEF Join
  <2>2. a + 2 <= b BY <1>3, <2>1
  <2>3. Range(finished) = (a + 2)..b - 1 BY <2>1 DEF FinishedOnce, ParallelTrees
  <2>4. roots = <<a, a + 1>> BY <2>1 DEF KeptFirst
  <2> HIDE DEF a, b
  <2>5. Collect(finished) = [k \in 1..b - (a + 2) |-> (a + 2) + k - 1]
    <3> DEFINE c == a + 2
    <3>1. c \in Nat /\ c <= b BY <1>1, <2>2
    <3>2. Range(finished) = c..b - 1 BY <2>3
    <3> HIDE DEF c
    <3>3. Collect(finished) = [k \in 1..b - c |-> c + k - 1]
      BY <1>1, <3>1, <3>2, AllFinished
    <3> QED BY <3>3 DEF c
  <2>6. roots' = [p \in 1..b - a |-> a + p - 1] /\ roots' \in Seq(Nat)
    <3>1. roots' = <<a, a + 1>>
                     \o [k \in 1..b - (a + 2) |-> (a + 2) + k - 1]
      BY <2>1, <2>4, <2>5
    <3> QED BY <1>1, <2>2, <3>1, JoinedRoots
  <2>8. RootsInPlace' BY <2>1, <2>6 DEF RootsInPlace, a, b
  <2> QED BY <1>1, <2>1, <2>6, <2>8 DEF TypeOK, Stages, Requested, KeptFirst,
         FinishedOnce, ValidRequestServed, KeyAsSpecified
<1>10. CASE BuildTopTree
  <2>1. pc = "TopTree" BY <1>10 DEF BuildTopTree
  <2>2. ValidRequest(request[1], request[2]) /\ interval = i
        /\ a + 2 <= b /\ b <= C
    BY <1>3, <2>1
  <2>3. roots = [p \in 1..b - a |-> a + p - 1] BY <2>1 DEF RootsInPlace
  <2>4. Len(roots) = b - a /\ roots[1] = a /\ roots[2] = a + 1
        /\ Range(roots) = a..b - 1
    <3> HIDE DEF a, b
    <3> QED BY <1>1, <2>2, <2>3, CountedRoots
  <2>5. a + Len(roots) <= C
    <3> HIDE DEF a, b
    <3> QED BY <1>1, <2>2, <2>4, CAssumption
  <2>6. /\ pc' = "Done" /\ key' = Assemble(a)
        /\ UNCHANGED <<request, interval, roots, finished>>
    BY <1>10, <2>5 DEF BuildTopTree
  <2>7. Assemble(a) = KeyFor(interval) BY <2>4 DEF Assemble, KeyFor
  <2>8. KeyFor(interval) \in SecretKeys BY <1>1, <2>2, GeneratedKey
  <2> QED BY <1>1, <2>1, <2>2, <2>6, <2>7, <2>8 DEF TypeOK, Stages, Requested,
         KeptFirst, FinishedOnce, RootsInPlace, ValidRequestServed,
         KeyAsSpecified, i
<1>11. CASE UNCHANGED vars
  BY <1>11 DEF vars, TypeOK, Requested, KeptFirst, FinishedOnce, ParallelTrees,
       RootsInPlace, ValidRequestServed, KeyAsSpecified
<1> QED BY <1>4, <1>5, <1>6, <1>7, <1>8, <1>9, <1>10, <1>11 DEF Next

-------------------------------------------------------------------------------
(* key_gen keeps its invariant: no assert fails on a valid request, the key   *)
(* is the one XmssKey starts from, and the roots are in the order of their    *)
(* trees, whatever the workers do.                                            *)
THEOREM KeyGenInvariant ==
  ASSUME UsizeRange > Lifetime + 2 * C, C > 2
  PROVE  Spec => []KeyGenInv
<1>1. Init => KeyGenInv BY InitKeyGenInv
<1>2. KeyGenInv /\ [Next]_vars => KeyGenInv' BY NextKeyGenInv
<1> QED BY <1>1, <1>2, PTL DEF Spec

(* Every request that passes key_gen's checks is served.                      *)
THEOREM Serves ==
  ASSUME UsizeRange > Lifetime + 2 * C, C > 2
  PROVE  Spec => []ValidRequestServed
<1>1. KeyGenInv => ValidRequestServed BY DEF KeyGenInv
<1> QED BY <1>1, KeyGenInvariant, PTL

(* The roots of the bottom trees stand in the top tree in their order.        *)
THEOREM RootsOrdered ==
  ASSUME UsizeRange > Lifetime + 2 * C, C > 2
  PROVE  Spec => []RootsInPlace
<1>1. KeyGenInv => RootsInPlace BY DEF KeyGenInv
<1> QED BY <1>1, KeyGenInvariant, PTL

(* key_gen returns the key XmssKey starts from.                               *)
THEOREM ReturnsKeyFor ==
  ASSUME UsizeRange > Lifetime + 2 * C, C > 2
  PROVE  Spec => []KeyAsSpecified
<1>1. KeyGenInv => KeyAsSpecified BY DEF KeyGenInv
<1> QED BY <1>1, KeyGenInvariant, PTL

(* No shorter interval of whole bottom trees would have done.                 *)
THEOREM ExpandsLeast ==
  ASSUME UsizeRange > Lifetime + 2 * C, C > 2
  PROVE  Spec => []SmallestCover
<1>1. KeyGenInv => SmallestCover
  <2> SUFFICES ASSUME KeyGenInv, pc = "Done",
                      NEW first \in 0..C, NEW after \in 0..C,
                      Covers([first |-> first, after |-> after],
                             request[1], request[2])
               PROVE  interval.after - interval.first <= after - first
    BY DEF SmallestCover
  <2>1. /\ interval = Expand(request[1], request[2])
        /\ ValidRequest(request[1], request[2])
    BY DEF KeyGenInv, Requested
  <2>2. request[1] \in Nat /\ request[2] \in Nat
    BY RequestAssumption DEF KeyGenInv, TypeOK
  <2>3. first \in Int /\ after \in Int BY CAssumption
  <2> QED BY <2>1, <2>2, <2>3, ExpandSmallest
<1> QED BY <1>1, KeyGenInvariant, PTL

(* Every epoch asked for can be signed at, and the window is active.          *)
THEOREM CoversRequest ==
  ASSUME UsizeRange > Lifetime + 2 * C, C > 2
  PROVE  Spec => []KeyCoversRequest
<1>1. KeyGenInv => KeyCoversRequest
  <2> SUFFICES ASSUME KeyGenInv, pc = "Done"
               PROVE  /\ request[1]..request[1] + request[2] - 1
                           \subseteq ActivationIntervalOf(key)
                      /\ PreparedInterval(key) \subseteq ActivationIntervalOf(key)
    BY DEF KeyCoversRequest
  <2> DEFINE i == Expand(request[1], request[2])
             n == i.after - i.first
  <2>1. key = KeyFor(i) /\ ValidRequest(request[1], request[2])
    BY DEF KeyGenInv, KeyAsSpecified, Requested
  <2>2. request \in Request /\ request[1] \in Nat /\ request[2] \in Nat
    BY RequestAssumption DEF KeyGenInv, TypeOK
  <2>3. /\ i \in [first: Nat, after: Nat] /\ i.first + 2 <= i.after
        /\ i.after <= C /\ Covers(i, request[1], request[2])
    BY <2>1, <2>2, Expanded
  <2> HIDE DEF i
  <2>4. i.first * C <= request[1] /\ request[1] + request[2] <= i.after * C
    BY <2>3 DEF Covers
  <2>5. key \in SecretKeys /\ KeyShape(key) BY <2>1, <2>3, GeneratedKey
  <2>6. key.activation_epoch = i.first * C /\ key.num_active_epochs = n * C
    BY <2>1 DEF KeyFor
  <2>7. i.first * C + n * C = i.after * C
    <3>1. n * C = i.after * C - i.first * C BY <2>3, MulOrder
    <3>2. i.after * C \in Int /\ i.first * C \in Int BY <2>3, MulC
    <3> QED BY <3>1, <3>2
  <2>8. ActivationIntervalOf(key) = i.first * C..i.after * C - 1
    BY <2>6, <2>7 DEF ActivationIntervalOf, ActivationEnd
  <2>9. i.after * C \in Int /\ i.first * C \in Int BY <2>3, MulC
  <2>10. request[1]..request[1] + request[2] - 1
           \subseteq i.first * C..i.after * C - 1
    BY <2>2, <2>4, <2>9
  <2> QED BY <2>5, <2>8, <2>10, ShapeBounds
<1> QED BY <1>1, KeyGenInvariant, PTL
-------------------------------------------------------------------------------
(* How long a call may take, and what becomes of the requests that the        *)
(* theorems above leave out.                                                  *)

(* The steps until the call ends, at most.                                    *)
StepsLeft ==
  CASE pc = "Validate"             -> C + 4
    [] pc = "Expand"               -> C + 3
    [] pc = "Left"                 -> C + 2
    [] pc = "Right"                -> C + 1
    [] pc = "Parallel"             -> interval.after - interval.first - Len(finished)
    [] pc = "TopTree"              -> 1
    [] pc \in {"Done", "Panicked"} -> 0

Ended == pc \in {"Done", "Panicked"}

(* What is still to be built when the workers are at work.                    *)
LEMMA WorkLeft ==
  ASSUME UsizeRange > Lifetime + 2 * C, KeyGenInv, pc = "Parallel"
  PROVE  LET n == interval.after - (interval.first + 2)
         IN  /\ interval.first \in Nat /\ interval.after \in Nat
             /\ interval.after <= C
             /\ Len(finished) \in Nat /\ Len(finished) <= n
             /\ Len(finished) = n <=> ParallelTrees \subseteq Range(finished)
<1> DEFINE a == interval.first
           b == interval.after
           n == b - (a + 2)
<1>1. /\ request \in Request /\ finished \in Seq(Nat)
      /\ ValidRequest(request[1], request[2])
      /\ interval = Expand(request[1], request[2])
  BY DEF KeyGenInv, TypeOK, Requested
<1>2. a \in Nat /\ b \in Nat /\ a + 2 <= b /\ b <= C
  <2> DEFINE i == Expand(request[1], request[2])
  <2>1. i \in [first: Nat, after: Nat] /\ i.first + 2 <= i.after /\ i.after <= C
    BY <1>1, Expanded
  <2> HIDE DEF i
  <2>2. interval = i BY <1>1 DEF i
  <2> QED BY <2>1, <2>2
<1>3. /\ Range(finished) \subseteq ParallelTrees
      /\ Cardinality(Range(finished)) = Len(finished)
  BY DEF KeyGenInv, FinishedOnce
<1>4. ParallelTrees = a + 2..b - 1 BY DEF ParallelTrees
<1> HIDE DEF a, b
<1>5. IsFiniteSet(ParallelTrees) /\ Cardinality(ParallelTrees) = n
  <2>1. a + 2 \in Int /\ b - 1 \in Int BY <1>2
  <2>2. /\ IsFiniteSet(a + 2..b - 1)
        /\ Cardinality(a + 2..b - 1) =
             IF a + 2 > b - 1 THEN 0 ELSE (b - 1) - (a + 2) + 1
    BY <2>1, FS_Interval
  <2> QED BY <1>2, <1>4, <2>2
<1>6. Len(finished) \in Nat BY <1>1
<1>7. Cardinality(Range(finished)) <= Cardinality(ParallelTrees)
  BY <1>3, <1>5, FS_Subset
<1>8. Len(finished) = n => ParallelTrees \subseteq Range(finished)
  BY <1>3, <1>5, FS_Subset
<1>9. ParallelTrees \subseteq Range(finished) => Len(finished) = n
  <2> SUFFICES ASSUME ParallelTrees \subseteq Range(finished)
               PROVE  Len(finished) = n
    OBVIOUS
  <2>1. Range(finished) = ParallelTrees BY <1>3
  <2> QED BY <1>3, <1>5, <2>1
<1>10. Len(finished) <= n BY <1>3, <1>5, <1>7
<1> QED BY <1>2, <1>6, <1>8, <1>9, <1>10 DEF a, b

LEMMA StepsLeftBounds ==
  ASSUME UsizeRange > Lifetime + 2 * C, KeyGenInv
  PROVE  StepsLeft \in 0..C + 4 /\ (StepsLeft = 0 <=> Ended)
<1>1. pc \in Stages BY DEF KeyGenInv, TypeOK
<1>2. C \in Nat /\ C >= 2 BY CAssumption
<1>3. CASE pc = "Parallel"
  <2>1. StepsLeft = interval.after - interval.first - Len(finished)
    BY <1>3 DEF StepsLeft
  <2>2. /\ interval.first \in Nat /\ interval.after \in Nat
        /\ interval.after <= C /\ Len(finished) \in Nat
        /\ Len(finished) <= interval.after - (interval.first + 2)
    BY <1>3, WorkLeft
  <2>3. ~Ended BY <1>3 DEF Ended
  <2>4. StepsLeft \in 2..C BY <1>2, <2>1, <2>2
  <2> QED BY <1>2, <2>3, <2>4
<1>4. CASE pc # "Parallel"
  BY <1>1, <1>2, <1>4 DEF StepsLeft, Stages, Ended
<1> QED BY <1>3, <1>4

(* Every step of the call, a worker's included, is one fewer.                 *)
LEMMA StepsFall ==
  ASSUME UsizeRange > Lifetime + 2 * C, C > 2, KeyGenInv, Next
  PROVE  StepsLeft' < StepsLeft
<1>1. C \in Nat BY CAssumption
<1>2. KeyGenInv' BY NextKeyGenInv
<1>3. CASE Validate
  <2>1. pc = "Validate" /\ pc' \in {"Expand", "Panicked"}
    BY <1>3 DEF Validate, Panic
  <2> QED BY <1>1, <2>1 DEF StepsLeft
<1>4. CASE ExpandRequest
  <2>1. pc = "Expand" /\ pc' \in {"Left", "Panicked"}
    BY <1>4 DEF ExpandRequest, Panic
  <2> QED BY <1>1, <2>1 DEF StepsLeft
<1>5. CASE BuildLeft
  <2>1. pc = "Left" /\ pc' \in {"Right", "Panicked"}
    BY <1>5 DEF BuildLeft, BuildKept, Panic
  <2> QED BY <1>1, <2>1 DEF StepsLeft
<1>6. CASE BuildRight
  <2>1. pc = "Right" /\ pc' \in {"Parallel", "Panicked"}
    BY <1>6 DEF BuildRight, BuildKept, Panic
  <2>2. StepsLeft = C + 1 BY <2>1 DEF StepsLeft
  <2>3. CASE pc' = "Panicked"
    <3>1. StepsLeft' = 0 BY <2>3 DEF StepsLeft
    <3> QED BY <1>1, <2>2, <3>1
  <2>4. CASE pc' = "Parallel"
    <3>1. /\ pc = "Right" /\ finished = << >>
          /\ finished' = finished /\ interval' = interval
      BY <1>6, <2>1, <2>4 DEF BuildRight, BuildKept, Panic, KeyGenInv, FinishedOnce
    <3>2. /\ request \in Request /\ ValidRequest(request[1], request[2])
          /\ interval = Expand(request[1], request[2])
      BY <2>1 DEF KeyGenInv, TypeOK, Requested
    <3>3. interval.first \in Nat /\ interval.after \in Nat /\ interval.after <= C
      <4> DEFINE i == Expand(request[1], request[2])
      <4>1. i \in [first: Nat, after: Nat] /\ i.after <= C BY <3>2, Expanded
      <4> HIDE DEF i
      <4>2. interval = i BY <3>2 DEF i
      <4> QED BY <4>1, <4>2
    <3>4. StepsLeft' = interval.after - interval.first - Len(<< >>)
      BY <2>4, <3>1 DEF StepsLeft
    <3>5. Len(<< >>) = 0 OBVIOUS
    <3> QED BY <1>1, <2>2, <3>3, <3>4, <3>5
  <2> QED BY <2>1, <2>3, <2>4
<1>7. ASSUME NEW t \in ParallelTrees, BuildInParallel(t)
      PROVE  StepsLeft' < StepsLeft
  <2>1. /\ pc = "Parallel" /\ pc' = "Parallel" /\ interval' = interval
        /\ finished' = Append(finished, t)
    BY <1>7 DEF BuildInParallel
  <2>2. finished \in Seq(Nat) BY DEF KeyGenInv, TypeOK
  <2>3. interval.first \in Nat /\ interval.after \in Nat /\ Len(finished) \in Nat
    BY <2>1, WorkLeft
  <2>4. t \in Nat BY <1>7, <2>3 DEF ParallelTrees
  <2>5. Len(finished') = Len(finished) + 1 BY <2>1, <2>2, <2>4
  <2>6. StepsLeft = interval.after - interval.first - Len(finished)
    BY <2>1 DEF StepsLeft
  <2>7. StepsLeft' = interval.after - interval.first - Len(finished')
    BY <2>1 DEF StepsLeft
  <2> QED BY <2>3, <2>5, <2>6, <2>7
<1>8. CASE Join
  <2>1. /\ pc = "Parallel" /\ pc' = "TopTree"
        /\ Len(finished) = interval.after - (interval.first + 2)
    BY <1>8, WorkLeft DEF Join
  <2>2. interval.first \in Nat /\ interval.after \in Nat /\ Len(finished) \in Nat
    BY <2>1, WorkLeft
  <2>3. StepsLeft = interval.after - interval.first - Len(finished)
    BY <2>1 DEF StepsLeft
  <2>4. StepsLeft' = 1 BY <2>1 DEF StepsLeft
  <2> QED BY <2>1, <2>2, <2>3, <2>4
<1>9. CASE BuildTopTree
  <2>1. pc = "TopTree" /\ pc' \in {"Done", "Panicked"}
    BY <1>9 DEF BuildTopTree, Panic
  <2>2. StepsLeft = 1 /\ StepsLeft' = 0 BY <2>1 DEF StepsLeft
  <2> QED BY <2>2
<1> QED BY <1>3, <1>4, <1>5, <1>6, <1>7, <1>8, <1>9 DEF Next

(* A call takes at most C + 4 steps, however the workers share the trees, and *)
(* has none left only when it has returned or panicked.                       *)
THEOREM BoundedCall ==
  ASSUME UsizeRange > Lifetime + 2 * C, C > 2
  PROVE  Spec => /\ [](StepsLeft \in 0..C + 4 /\ (StepsLeft = 0 <=> Ended))
                 /\ [][StepsLeft' < StepsLeft]_vars
<1>1. KeyGenInv => StepsLeft \in 0..C + 4 /\ (StepsLeft = 0 <=> Ended)
  BY StepsLeftBounds
<1>2. KeyGenInv /\ [Next]_vars => [StepsLeft' < StepsLeft]_vars BY StepsFall
<1> QED BY <1>1, <1>2, KeyGenInvariant, PTL DEF Spec

(* With a bottom tree of depth two, which the compile-time checks admit,      *)
(* no request gets past the first tree: the finding of KeyGenDepthTwo is not  *)
(* about some requests only.                                                  *)
THEOREM DepthTwoServesNone ==
  ASSUME C = 2
  PROVE  Spec => [](pc \in {"Validate", "Expand", "Left", "Panicked"})
<1> DEFINE I == pc \in {"Validate", "Expand", "Left", "Panicked"}
<1>1. Init => I BY DEF Init
<1>2. I /\ [Next]_vars => I'
  <2> SUFFICES ASSUME I, [Next]_vars PROVE I' OBVIOUS
  <2>1. ~DeepEnough BY DEF DeepEnough
  <2>2. CASE Validate BY <2>2 DEF Validate, Panic
  <2>3. CASE ExpandRequest BY <2>3 DEF ExpandRequest, Panic
  <2>4. CASE BuildLeft BY <2>1, <2>4 DEF BuildLeft, BuildKept, Panic
  <2>5. CASE BuildRight BY <2>5 DEF BuildRight, BuildKept
  <2>6. CASE \E t \in ParallelTrees : BuildInParallel(t)
    BY <2>6 DEF BuildInParallel
  <2>7. CASE Join BY <2>7 DEF Join
  <2>8. CASE BuildTopTree BY <2>8 DEF BuildTopTree
  <2>9. CASE UNCHANGED vars BY <2>9 DEF vars
  <2> QED BY <2>2, <2>3, <2>4, <2>5, <2>6, <2>7, <2>8, <2>9 DEF Next
<1> QED BY <1>1, <1>2, PTL DEF Spec

(* Where the lifetime does not fit usize, the expansion of every request is   *)
(* empty.                                                                     *)
LEMMA NarrowExpansion ==
  ASSUME Lifetime >= UsizeRange, NEW e \in Nat, NEW n \in Nat
  PROVE  Expand(e, n).first \in Nat /\ Expand(e, n).after = 0
<1> DEFINE start    == AlignDown(e)
           end      == TwoTreesEnd(e, n)
           duration == Wrap(end - start)
<1>1. C \in Nat /\ C >= 2 /\ UsizeRange \in Nat /\ UsizeRange > C
  BY CAssumption, UsizeAssumption
<1>2. UsizeLifetime = 1
  <2>1. Lifetime \in Nat BY <1>1 DEF Lifetime
  <2> QED BY <1>1, <2>1 DEF UsizeLifetime
<1>3. start \in Nat BY DivC, MulC DEF AlignDown
<1>4. \A x \in Int : Wrap(x) \in Nat BY <1>1 DEF Wrap
<1>5. end \in Nat
  <2>1. Wrap(e + n) \in Nat BY <1>4
  <2>2. Wrap(Wrap(e + n) + C - 1) \in Nat BY <1>1, <1>4, <2>1
  <2>3. AlignedEnd(e, n) \in Nat BY <2>2, DivC, MulC DEF AlignedEnd, AlignDown
  <2>4. Wrap(start + 2 * C) \in Nat BY <1>1, <1>3, <1>4
  <2> HIDE DEF start
  <2> QED BY <2>3, <2>4 DEF TwoTreesEnd, start
<1>6. duration \in Nat
  <2> HIDE DEF start, end
  <2> QED BY <1>3, <1>4, <1>5
<1> DEFINE interval0 ==
      IF end <= UsizeLifetime THEN [start |-> start, end |-> end]
      ELSE [start |-> IF duration > UsizeLifetime THEN 0
                      ELSE AlignDown(UsizeLifetime - duration),
            end   |-> UsizeLifetime]
<1>7. Expand(e, n) = [first |-> interval0.start \div C, after |-> interval0.end \div C]
  BY DEF Expand
<1> HIDE DEF start, end, duration
<1>8. interval0.start \in Nat
  <2>1. CASE end <= UsizeLifetime BY <1>3, <2>1
  <2>2. CASE ~(end <= UsizeLifetime) /\ duration > UsizeLifetime BY <2>2
  <2>3. CASE ~(end <= UsizeLifetime) /\ ~(duration > UsizeLifetime)
    <3>1. UsizeLifetime - duration \in Nat BY <1>2, <1>6, <2>3
    <3>2. AlignDown(UsizeLifetime - duration) \in Nat
      BY <3>1, DivC, MulC DEF AlignDown
    <3> QED BY <2>3, <3>2
  <2> QED BY <2>1, <2>2, <2>3
<1>9. interval0.end \in 0..1 BY <1>2, <1>5
<1> HIDE DEF interval0
<1>10. interval0.end \div C = 0
  BY <1>1, <1>9
<1>11. interval0.start \div C \in Nat BY <1>8, DivC
<1> QED BY <1>7, <1>10, <1>11

(* On a target whose usize does not hold the lifetime no request gets past    *)
(* the expansion: the finding of KeyGenNarrowUsize is about every request.    *)
THEOREM NarrowUsizeServesNone ==
  ASSUME Lifetime >= UsizeRange
  PROVE  Spec => [](pc \in {"Validate", "Expand", "Panicked"})
<1> DEFINE I == pc \in {"Validate", "Expand", "Panicked"} /\ request \in Request
<1>1. Init => I BY DEF Init
<1>2. I /\ [Next]_vars => I'
  <2> SUFFICES ASSUME I, [Next]_vars PROVE I' OBVIOUS
  <2>1. request[1] \in Nat /\ request[2] \in Nat BY RequestAssumption
  <2>2. CASE Validate BY <2>2 DEF Validate, Panic
  <2>3. CASE ExpandRequest
    <3> DEFINE i == Expand(request[1], request[2])
    <3>1. i.first \in Nat /\ i.after = 0 BY <2>1, NarrowExpansion
    <3>2. ~(i.first + 2 <= i.after)
      <4> HIDE DEF i
      <4> QED BY <3>1
    <3>3. Panic BY <2>3, <3>2 DEF ExpandRequest
    <3> QED BY <3>3 DEF Panic
  <2>4. CASE BuildLeft BY <2>4 DEF BuildLeft, BuildKept
  <2>5. CASE BuildRight BY <2>5 DEF BuildRight, BuildKept
  <2>6. CASE \E t \in ParallelTrees : BuildInParallel(t)
    BY <2>6 DEF BuildInParallel
  <2>7. CASE Join BY <2>7 DEF Join
  <2>8. CASE BuildTopTree BY <2>8 DEF BuildTopTree
  <2>9. CASE UNCHANGED vars BY <2>9 DEF vars
  <2> QED BY <2>2, <2>3, <2>4, <2>5, <2>6, <2>7, <2>8, <2>9 DEF Next
<1> QED BY <1>1, <1>2, PTL DEF Spec
===============================================================================
