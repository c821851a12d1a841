----------------------------- MODULE LeanSigProofs -----------------------------
(* The signature scheme, for trees of any depth, chains of any length and     *)
(* number, any epochs, messages and requests, and any message hash that       *)
(* yields a chunk for every chain. First what the trees, the chains and the   *)
(* encoding compute: a path leads from its leaf to the root and from no other *)
(* leaf, a chain can be walked on from any place, and codewords of one sum    *)
(* are incomparable. Then the scheme end to end.                              *)
EXTENDS LeanSig, SecretKeyProofs, FiniteSetTheorems, SequenceTheorems, TLAPS

(* The natural numbers have no proper subset that holds zero and, with a      *)
(* number, the next: below a number left out, moving every number left out    *)
(* one down would be an injection into a set with one member less.            *)
LEMMA Induction ==
  ASSUME NEW S \in SUBSET Nat, 0 \in S, \A n \in S : n + 1 \in S
  PROVE  S = Nat
<1>1. SUFFICES ASSUME NEW t \in Nat, t \notin S
               PROVE  FALSE
  OBVIOUS
<1> DEFINE B == (0..t) \ S
           f == [x \in B |-> x - 1]
<1>2. IsFiniteSet(B) /\ Cardinality(B) \in Nat
  <2>1. IsFiniteSet(0..t) BY FS_Interval
  <2>2. B \in SUBSET (0..t) OBVIOUS
  <2> QED BY <2>1, <2>2, FS_Subset, FS_CardinalityType
<1>3. IsFiniteSet(B \ {t}) /\ Cardinality(B \ {t}) = Cardinality(B) - 1
  <2>1. t \in B BY <1>1
  <2> HIDE DEF B
  <2> QED BY <1>2, <2>1, FS_RemoveElement
<1>4. \A x \in B : x - 1 \in B \ {t} OBVIOUS
<1>5. f \in Injection(B, B \ {t}) BY <1>4, SMT DEF Injection, IsInjective
<1>6. Cardinality(B) <= Cardinality(B \ {t})
  <2> HIDE DEF B, f
  <2> QED BY <1>3, <1>5, FS_Injection
<1> QED BY <1>2, <1>3, <1>6

(* Powers of two, up to that of the deepest tree.                             *)
LEMMA Powers ==
  \A n \in 0..32 : 2^n \in Nat \ {0} /\ (n < 32 => 2^(n + 1) = 2 * 2^n)
<1> SUFFICES ASSUME NEW n \in 0..32
             PROVE  2^n \in Nat \ {0} /\ (n < 32 => 2^(n + 1) = 2 * 2^n)
  OBVIOUS
<1>1. CASE n \in 0..7
  <2> n = 0 => 2^n = 1 /\ 2^(n + 1) = 2 OBVIOUS
  <2> n = 1 => 2^n = 2 /\ 2^(n + 1) = 4 OBVIOUS
  <2> n = 2 => 2^n = 4 /\ 2^(n + 1) = 8 OBVIOUS
  <2> n = 3 => 2^n = 8 /\ 2^(n + 1) = 16 OBVIOUS
  <2> n = 4 => 2^n = 16 /\ 2^(n + 1) = 32 OBVIOUS
  <2> n = 5 => 2^n = 32 /\ 2^(n + 1) = 64 OBVIOUS
  <2> n = 6 => 2^n = 64 /\ 2^(n + 1) = 128 OBVIOUS
  <2> n = 7 => 2^n = 128 /\ 2^(n + 1) = 256 OBVIOUS
  <2> n = 0 \/ n = 1 \/ n = 2 \/ n = 3
       \/ n = 4 \/ n = 5 \/ n = 6 \/ n = 7
    BY <1>1
  <2> QED OBVIOUS
<1>2. CASE n \in 8..15
  <2> n = 8 => 2^n = 256 /\ 2^(n + 1) = 512 OBVIOUS
  <2> n = 9 => 2^n = 512 /\ 2^(n + 1) = 1024 OBVIOUS
  <2> n = 10 => 2^n = 1024 /\ 2^(n + 1) = 2048 OBVIOUS
  <2> n = 11 => 2^n = 2048 /\ 2^(n + 1) = 4096 OBVIOUS
  <2> n = 12 => 2^n = 4096 /\ 2^(n + 1) = 8192 OBVIOUS
  <2> n = 13 => 2^n = 8192 /\ 2^(n + 1) = 16384 OBVIOUS
  <2> n = 14 => 2^n = 16384 /\ 2^(n + 1) = 32768 OBVIOUS
  <2> n = 15 => 2^n = 32768 /\ 2^(n + 1) = 65536 OBVIOUS
  <2> n = 8 \/ n = 9 \/ n = 10 \/ n = 11
       \/ n = 12 \/ n = 13 \/ n = 14 \/ n = 15
    BY <1>2
  <2> QED OBVIOUS
<1>3. CASE n \in 16..23
  <2> n = 16 => 2^n = 65536 /\ 2^(n + 1) = 131072 OBVIOUS
  <2> n = 17 => 2^n = 131072 /\ 2^(n + 1) = 262144 OBVIOUS
  <2> n = 18 => 2^n = 262144 /\ 2^(n + 1) = 524288 OBVIOUS
  <2> n = 19 => 2^n = 524288 /\ 2^(n + 1) = 1048576 OBVIOUS
  <2> n = 20 => 2^n = 1048576 /\ 2^(n + 1) = 2097152 OBVIOUS
  <2> n = 21 => 2^n = 2097152 /\ 2^(n + 1) = 4194304 OBVIOUS
  <2> n = 22 => 2^n = 4194304 /\ 2^(n + 1) = 8388608 OBVIOUS
  <2> n = 23 => 2^n = 8388608 /\ 2^(n + 1) = 16777216 OBVIOUS
  <2> n = 16 \/ n = 17 \/ n = 18 \/ n = 19
       \/ n = 20 \/ n = 21 \/ n = 22 \/ n = 23
    BY <1>3
  <2> QED OBVIOUS
<1>4. CASE n \in 24..31
  <2> n = 24 => 2^n = 16777216 /\ 2^(n + 1) = 33554432 OBVIOUS
  <2> n = 25 => 2^n = 33554432 /\ 2^(n + 1) = 67108864 OBVIOUS
  <2> n = 26 => 2^n = 67108864 /\ 2^(n + 1) = 134217728 OBVIOUS
  <2> n = 27 => 2^n = 134217728 /\ 2^(n + 1) = 268435456 OBVIOUS
  <2> n = 28 => 2^n = 268435456 /\ 2^(n + 1) = 536870912 OBVIOUS
  <2> n = 29 => 2^n = 536870912 /\ 2^(n + 1) = 1073741824 OBVIOUS
  <2> n = 30 => 2^n = 1073741824 /\ 2^(n + 1) = 2147483648 OBVIOUS
  <2> n = 31 => 2^n = 2147483648 /\ 2^(n + 1) = 4294967296 OBVIOUS
  <2> n = 24 \/ n = 25 \/ n = 26 \/ n = 27
       \/ n = 28 \/ n = 29 \/ n = 30 \/ n = 31
    BY <1>4
  <2> QED OBVIOUS
<1>5. CASE n = 32
  <2> 2^n = 4294967296 BY <1>5
  <2> QED BY <1>5
<1> QED BY <1>1, <1>2, <1>3, <1>4, <1>5

(* The quotient is the one number that fits.                                  *)
LEMMA Quotient ==
  ASSUME NEW x \in Int, NEW q \in Nat \ {0}
  PROVE  /\ x \div q \in Int
         /\ (x \div q) * q <= x /\ x < (x \div q) * q + q
         /\ \A b \in Int : b * q <= x /\ x < b * q + q => x \div q = b
<1>1. /\ x \div q \in Int
      /\ (x \div q) * q <= x /\ x < (x \div q) * q + q
  OBVIOUS
<1>2. ASSUME NEW b \in Int, b * q <= x /\ x < b * q + q
      PROVE  x \div q = b
  <2> DEFINE a == x \div q
  <2>1. a \in Int /\ a * q <= x /\ x < a * q + q BY <1>1
  <2> HIDE DEF a
  <2>2. a < b + 1 
    <3> SUFFICES ASSUME b + 1 <= a PROVE FALSE BY <2>1
    <3>1. (b + 1) * q <= a * q BY <2>1
    <3>2. (b + 1) * q = b * q + q OBVIOUS
    <3> QED BY <3>1, <3>2, <2>1, <1>2
  <2>3. b < a + 1
    <3> SUFFICES ASSUME a + 1 <= b PROVE FALSE BY <2>1
    <3>1. (a + 1) * q <= b * q BY <2>1
    <3>2. (a + 1) * q = a * q + q BY <2>1
    <3> QED BY <3>1, <3>2, <2>1, <1>2
  <2> QED BY <2>1, <2>2, <2>3 DEF a
<1> QED BY <1>1, <1>2

(* Dividing by a power of two takes one halving after another.                *)
LEMMA Halving ==
  ASSUME NEW x \in Nat, NEW l \in 0..31
  PROVE  /\ x \div 2^l \in Nat
         /\ x \div 2^(l + 1) = (x \div 2^l) \div 2
<1> DEFINE q == 2^l
           a == x \div q
           b == a \div 2
<1>0. l \in 0..32 /\ l < 32 OBVIOUS
<1>1. q \in Nat \ {0} /\ 2^(l + 1) = 2 * q BY <1>0, Powers
<1> HIDE DEF q
<1>2. a \in Int /\ a * q <= x /\ x < a * q + q BY <1>1, Quotient
<1>3. a \in Nat
  <2> HIDE DEF a
  <2> SUFFICES ASSUME a + 1 <= 0 PROVE FALSE BY <1>2
  <2>1. (a + 1) * q <= 0 * q BY <1>1, <1>2
  <2>2. (a + 1) * q = a * q + q BY <1>1, <1>2
  <2> QED BY <1>1, <1>2, <2>1, <2>2
<1> HIDE DEF a
<1>4. b \in Nat /\ 2 * b <= a /\ a <= 2 * b + 1 BY <1>3
<1> HIDE DEF b
<1>5. /\ (2 * b) * q <= a * q /\ a * q <= (2 * b + 1) * q
      /\ (2 * b) * q = b * (2 * q) /\ (2 * b + 1) * q = b * (2 * q) + q
  BY <1>1, <1>3, <1>4
<1>6. b * (2 * q) \in Int /\ a * q \in Int BY <1>1, <1>3, <1>4
<1>7. b * (2 * q) <= x /\ x < b * (2 * q) + 2 * q
  BY <1>1, <1>2, <1>5, <1>6
<1>8. x \div (2 * q) = b
  <2>1. 2 * q \in Nat \ {0} BY <1>1
  <2> QED BY <2>1, <1>4, <1>7, Quotient
<1> QED BY <1>1, <1>3, <1>8 DEF a, b, q

-------------------------------------------------------------------------------
(* Sequences of anything: what the values are is left open.                   *)
IsSeq(s) == s \in Seq(Range(s))

(* A sequence is a function on an interval that starts with one.              *)
LEMMA SeqFunction ==
  ASSUME NEW s, IsSeq(s)
  PROVE  Len(s) \in Nat /\ DOMAIN s = 1..Len(s) /\ s = [i \in 1..Len(s) |-> s[i]]
BY LenProperties DEF IsSeq

LEMMA FunctionSeq ==
  ASSUME NEW n \in Nat, NEW s, s = [i \in 1..n |-> s[i]]
  PROVE  IsSeq(s) /\ Len(s) = n
<1>1. DOMAIN s = 1..n OBVIOUS
<1>2. \A i \in 1..n : s[i] \in Range(s) BY <1>1 DEF Range
<1>3. s \in [1..n -> Range(s)] BY <1>2
<1>4. s \in Seq(Range(s)) BY <1>3, SeqDef
<1>5. 1..Len(s) = 1..n /\ Len(s) \in Nat BY <1>1, <1>4, LenProperties
<1>6. Len(s) = n
  <2>1. n \in 1..n => n <= Len(s) BY <1>5
  <2>2. Len(s) \in 1..Len(s) => Len(s) <= n BY <1>5
  <2> QED BY <1>5, <2>1, <2>2
<1> QED BY <1>4, <1>6 DEF IsSeq

(* Concatenation, on sequences of anything.                                   *)
LEMMA SeqConcat ==
  ASSUME NEW s, NEW t, IsSeq(s), IsSeq(t)
  PROVE  /\ IsSeq(s \o t) /\ Len(s \o t) = Len(s) + Len(t)
         /\ \A i \in 1..Len(s) : (s \o t)[i] = s[i]
         /\ \A i \in 1..Len(t) : (s \o t)[Len(s) + i] = t[i]
<1> DEFINE S == Range(s) \cup Range(t)
           u == s \o t
<1>1. s \in Seq(S) /\ t \in Seq(S) BY SeqMonotonic DEF IsSeq
<1>2. Len(s) \in Nat /\ Len(t) \in Nat BY SeqFunction
<1> HIDE DEF S
<1>3. /\ u \in Seq(S) /\ Len(u) = Len(s) + Len(t)
      /\ \A i \in 1..Len(s) + Len(t) :
           u[i] = IF i <= Len(s) THEN s[i] ELSE t[i - Len(s)]
  BY <1>1, ConcatProperties
<1> HIDE DEF u
<1>4. u = [i \in 1..Len(s) + Len(t) |-> u[i]] BY <1>3, LenProperties
<1>5. IsSeq(u) BY <1>2, <1>4, FunctionSeq
<1>6. \A i \in 1..Len(s) : u[i] = s[i] BY <1>2, <1>3
<1>7. \A i \in 1..Len(t) : u[Len(s) + i] = t[i]
  <2> SUFFICES ASSUME NEW i \in 1..Len(t) PROVE u[Len(s) + i] = t[i] OBVIOUS
  <2>1. /\ Len(s) + i \in 1..Len(s) + Len(t)
        /\ ~(Len(s) + i <= Len(s)) /\ (Len(s) + i) - Len(s) = i
    BY <1>2
  <2> QED BY <1>3, <2>1
<1> QED BY <1>3, <1>5, <1>6, <1>7 DEF u

LEMMA SeqOne == ASSUME NEW x PROVE IsSeq(<<x>>) /\ Len(<<x>>) = 1 /\ <<x>>[1] = x
<1>1. <<x>> = [i \in 1..1 |-> <<x>>[i]] OBVIOUS
<1> QED BY <1>1, FunctionSeq

LEMMA SeqNone == IsSeq(<< >>) /\ Len(<< >>) = 0
<1>1. << >> = [i \in 1..0 |-> << >>[i]] OBVIOUS
<1> QED BY <1>1, FunctionSeq

-------------------------------------------------------------------------------
(* The places of a layer, and the node at one of them.                        *)
Places(layer) == layer.start_index..layer.start_index + Len(layer.nodes) - 1

At(layer, p) == layer.nodes[p - layer.start_index + 1]

(* Every node of a layer has its sibling beside it.                           *)
Paired(layer) ==
  /\ layer.start_index \in Nat /\ layer.start_index % 2 = 0
  /\ IsSeq(layer.nodes) /\ Len(layer.nodes) % 2 = 0 /\ Len(layer.nodes) > 0

(* A node of padding is a number drawn at random.                             *)
IsPadding(node) == \E rng, level, place : node = RandDomain(rng, level, place)

(* The nodes keep their places, the others are padding, and there is at most  *)
(* one of those at each end.                                                  *)
LEMMA PaddedLayer ==
  ASSUME NEW rng, NEW level, NEW nodes, NEW start \in Nat,
         IsSeq(nodes), Len(nodes) > 0
  PROVE  LET layer == Padded(rng, level, nodes, start)
         IN  /\ Paired(layer)
             /\ layer.start_index = 2 * (start \div 2)
             /\ start..start + Len(nodes) - 1 \subseteq Places(layer)
             /\ \A p \in start..start + Len(nodes) - 1 :
                  At(layer, p) = nodes[p - start + 1]
             /\ \A p \in Places(layer) \ (start..start + Len(nodes) - 1) :
                  IsPadding(At(layer, p))
<1> DEFINE end   == start + Len(nodes) - 1
           front == IF start % 2 = 1 THEN <<RandDomain(rng, level, "front")>> ELSE << >>
           back  == IF end % 2 = 0 THEN <<RandDomain(rng, level, "back")>> ELSE << >>
           all   == front \o nodes \o back
           layer == Padded(rng, level, nodes, start)
<1>1. Len(nodes) \in Nat /\ end \in Nat BY SeqFunction
<1>2. /\ IsSeq(front) /\ Len(front) = start % 2 /\ start % 2 \in {0, 1}
      /\ start % 2 = 1 => IsPadding(front[1])
  BY SeqOne, SeqNone DEF IsPadding
<1>3. /\ IsSeq(back) /\ Len(back) = 1 - (end % 2) /\ end % 2 \in {0, 1}
      /\ end % 2 = 0 => IsPadding(back[1])
  BY <1>1, SeqOne, SeqNone DEF IsPadding
<1>4. layer = [start_index |-> start - Len(front), nodes |-> all] BY DEF Padded
<1> HIDE DEF front, back, end, layer
<1> DEFINE f == front \o nodes
<1>5. /\ IsSeq(f) /\ Len(f) = Len(front) + Len(nodes)
      /\ \A i \in 1..Len(front) : f[i] = front[i]
      /\ \A i \in 1..Len(nodes) : f[Len(front) + i] = nodes[i]
  BY <1>2, SeqConcat
<1>a. all = f \o back OBVIOUS
<1> HIDE DEF f, all
<1>6. /\ IsSeq(all) /\ Len(all) = Len(f) + Len(back)
      /\ \A i \in 1..Len(f) : all[i] = f[i]
      /\ \A i \in 1..Len(back) : all[Len(f) + i] = back[i]
  <2>1. IsSeq(f) /\ IsSeq(back) BY <1>3, <1>5
  <2> QED BY ONLY <1>a, <2>1, SeqConcat
<1>7. /\ layer.start_index = start - (start % 2) /\ layer.nodes = all
      /\ layer.start_index = 2 * (start \div 2)
      /\ Len(all) = (start % 2) + Len(nodes) + (1 - (end % 2))
  BY <1>1, <1>2, <1>3, <1>4, <1>5, <1>6
<1>8. Paired(layer)
  <2>1. layer.start_index \in Nat /\ layer.start_index % 2 = 0 BY <1>7
  <2>2. Len(all) > 0 /\ Len(all) % 2 = 0 BY <1>1, <1>2, <1>3, <1>7 DEF end
  <2> QED BY <1>6, <1>7, <2>1, <2>2 DEF Paired
<1>9. start..end \subseteq Places(layer) BY <1>1, <1>2, <1>3, <1>7 DEF Places, end
<1>10. ASSUME NEW p \in start..end PROVE At(layer, p) = nodes[p - start + 1]
  <2> DEFINE i == p - start + 1
  <2>1. i \in 1..Len(nodes) /\ Len(front) + i \in 1..Len(f)
    BY <1>1, <1>2, <1>5 DEF end
  <2>2. p - layer.start_index + 1 = Len(front) + i BY <1>1, <1>2, <1>7
  <2> HIDE DEF i
  <2>3. all[Len(front) + i] = nodes[i] BY <1>5, <1>6, <2>1
  <2> QED BY <1>7, <2>2, <2>3 DEF At, i
<1>11. ASSUME NEW p \in Places(layer), p \notin start..end PROVE IsPadding(At(layer, p))
  <2>1. CASE p < start
    <3>1. start % 2 = 1 /\ p - layer.start_index + 1 = 1
      BY <1>2, <1>7, <2>1 DEF Places
    <3>2. all[1] = front[1]
      <4>1. 1 \in 1..Len(front) /\ 1 \in 1..Len(f) BY <1>1, <1>2, <1>5, <3>1
      <4> QED BY <1>5, <1>6, <4>1
    <3> QED BY <1>2, <1>7, <3>1, <3>2 DEF At
  <2>2. CASE p > end
    <3>0. p \in layer.start_index..layer.start_index + Len(all) - 1
      BY <1>7 DEF Places
    <3>3. layer.start_index + Len(all) - 1 = end + (1 - (end % 2))
      BY <1>1, <1>2, <1>3, <1>7 DEF end
    <3>4. p <= end + (1 - (end % 2)) /\ p \in Int
      BY <1>1, <1>3, <1>7, <3>0, <3>3
    <3>5. end % 2 = 0 /\ p = end + 1 BY <1>1, <1>3, <2>2, <3>4
    <3>1. end % 2 = 0 /\ p - layer.start_index + 1 = Len(f) + 1
      BY <1>1, <1>2, <1>5, <1>7, <3>5 DEF end
    <3>2. all[Len(f) + 1] = back[1]
      <4>1. 1 \in 1..Len(back) BY <1>3, <3>1
      <4> QED BY <1>6, <4>1
    <3> QED BY <1>3, <1>7, <3>1, <3>2 DEF At
  <2> QED BY <1>1, <1>7, <1>11, <2>1, <2>2 DEF Places
<1> QED BY <1>7, <1>8, <1>9, <1>10, <1>11 DEF end, layer

-------------------------------------------------------------------------------
(* A node that was hashed at a place: its tweak says where.                   *)
IsHashed(level, position, node) ==
  \E inputs : node = Apply(TreeTweak(level, position), inputs)

(* A layer and the one above: the hash of a node and its sibling is at the    *)
(* place of their parent.                                                     *)
Parents(level, prev, next) ==
  \A p \in Places(prev) :
    /\ Sibling(p) \in Places(prev) /\ p \div 2 \in Places(next)
    /\ At(next, p \div 2) =
         Apply(TreeTweak(level, p \div 2),
               IF p % 2 = 0 THEN <<At(prev, p), At(prev, Sibling(p))>>
               ELSE <<At(prev, Sibling(p)), At(prev, p)>>)

(* A node that is not padding has its children in the layer below.            *)
Children(prev, next) ==
  \A p \in Nat : p \div 2 \in Places(next) =>
    IsPadding(At(next, p \div 2)) \/ p \in Places(prev)

(* What is not padding was hashed for its place.                              *)
Tweaked(level, layer) ==
  \A p \in Places(layer) :
    IsPadding(At(layer, p)) \/ IsHashed(level, p, At(layer, p))

(* What compute_tree_layer and the padding make of a layer.                   *)
LEMMA ParentLayerProperties ==
  ASSUME NEW rng, NEW level, NEW prev, Paired(prev)
  PROVE  LET next == ParentLayer(rng, level, prev)
         IN  /\ Paired(next)
             /\ next.start_index = 2 * ((prev.start_index \div 2) \div 2)
             /\ Parents(level, prev, next)
             /\ Children(prev, next)
             /\ Tweaked(level, next)
<1> DEFINE start == prev.start_index \div 2
           nodes == ComputeTreeLayer(level, start, prev.nodes)
           next  == ParentLayer(rng, level, prev)
           n     == Len(prev.nodes) \div 2
<1>1. /\ prev.start_index \in Nat /\ prev.start_index = 2 * start /\ start \in Nat
      /\ IsSeq(prev.nodes) /\ Len(prev.nodes) \in Nat
      /\ Len(prev.nodes) = 2 * n /\ n \in Nat /\ n > 0
  <2>1. /\ prev.start_index \in Nat /\ prev.start_index % 2 = 0
        /\ IsSeq(prev.nodes) /\ Len(prev.nodes) % 2 = 0 /\ Len(prev.nodes) > 0
    BY DEF Paired
  <2>2. Len(prev.nodes) \in Nat BY <2>1, SeqFunction
  <2>3. prev.start_index = 2 * start /\ start \in Nat BY <2>1
  <2>5. \A m \in Nat : m % 2 = 0 /\ m > 0 =>
          m = 2 * (m \div 2) /\ m \div 2 \in Nat /\ m \div 2 > 0
    OBVIOUS
  <2>4. Len(prev.nodes) = 2 * n /\ n \in Nat /\ n > 0 BY <2>1, <2>2, <2>5
  <2> QED BY <2>1, <2>2, <2>3, <2>4
<1> HIDE DEF start, n
<1>2. nodes = [i \in 1..n |-> Apply(TreeTweak(level, start + i - 1),
                                    <<prev.nodes[2 * i - 1], prev.nodes[2 * i]>>)]
  BY DEF ComputeTreeLayer, n
<1>3. IsSeq(nodes) /\ Len(nodes) = n
  <2> HIDE DEF nodes
  <2>1. nodes = [i \in 1..n |-> nodes[i]] BY <1>2
  <2> QED BY <1>1, <2>1, FunctionSeq
<1>4. next = Padded(rng, level, nodes, start) BY DEF ParentLayer, start
<1> HIDE DEF nodes, next
<1>5. /\ Paired(next) /\ next.start_index = 2 * (start \div 2)
      /\ start..start + n - 1 \subseteq Places(next)
      /\ \A p \in start..start + n - 1 : At(next, p) = nodes[p - start + 1]
      /\ \A p \in Places(next) \ (start..start + n - 1) : IsPadding(At(next, p))
  <2> DEFINE p0 == Padded(rng, level, nodes, start)
  <2>1. /\ Paired(p0) /\ p0.start_index = 2 * (start \div 2)
        /\ start..start + Len(nodes) - 1 \subseteq Places(p0)
        /\ \A p \in start..start + Len(nodes) - 1 : At(p0, p) = nodes[p - start + 1]
        /\ \A p \in Places(p0) \ (start..start + Len(nodes) - 1) : IsPadding(At(p0, p))
    BY <1>1, <1>3, PaddedLayer
  <2> QED BY <1>3, <1>4, <2>1
<1>6. ASSUME NEW q \in start..start + n - 1
      PROVE  At(next, q) = Apply(TreeTweak(level, q),
                                 <<At(prev, 2 * q), At(prev, 2 * q + 1)>>)
  <2> DEFINE i == q - start + 1
  <2>1. /\ i \in 1..n /\ start + i - 1 = q
        /\ 2 * q - prev.start_index + 1 = 2 * i - 1
        /\ (2 * q + 1) - prev.start_index + 1 = 2 * i
    BY <1>1
  <2> HIDE DEF i
  <2>2. At(prev, 2 * q) = prev.nodes[2 * i - 1] /\ At(prev, 2 * q + 1) = prev.nodes[2 * i]
    BY <2>1 DEF At
  <2>3. nodes[i] = Apply(TreeTweak(level, q), <<At(prev, 2 * q), At(prev, 2 * q + 1)>>)
    BY <1>2, <2>1, <2>2
  <2> QED BY <1>5, <2>3 DEF i
<1>7. ASSUME NEW p \in Places(prev)
      PROVE  /\ Sibling(p) \in Places(prev) /\ p \div 2 \in start..start + n - 1
             /\ At(next, p \div 2) =
                  Apply(TreeTweak(level, p \div 2),
                        IF p % 2 = 0 THEN <<At(prev, p), At(prev, Sibling(p))>>
                        ELSE <<At(prev, Sibling(p)), At(prev, p)>>)
  <2>1. p \in 2 * start..2 * start + 2 * n - 1 BY <1>1 DEF Places
  <2>2. p \div 2 \in start..start + n - 1 BY <1>1, <2>1
  <2>3. CASE p % 2 = 0
    <3>1. p = 2 * (p \div 2) /\ Sibling(p) = 2 * (p \div 2) + 1
      BY <1>1, <2>1, <2>3 DEF Sibling
    <3>2. Sibling(p) \in Places(prev) BY <1>1, <2>1, <2>2, <3>1 DEF Places
    <3> QED BY <1>6, <2>2, <2>3, <3>1, <3>2
  <2>4. CASE p % 2 # 0
    <3>1. p = 2 * (p \div 2) + 1 /\ Sibling(p) = 2 * (p \div 2)
      BY <1>1, <2>1, <2>4 DEF Sibling
    <3>2. Sibling(p) \in Places(prev) BY <1>1, <2>1, <2>2, <3>1 DEF Places
    <3> QED BY <1>6, <2>2, <2>4, <3>1, <3>2
  <2> QED BY <2>3, <2>4
<1>8. Parents(level, prev, next) BY <1>5, <1>7 DEF Parents
<1>9. Tweaked(level, next) BY <1>5, <1>6 DEF Tweaked, IsHashed
<1>10. ASSUME NEW p \in Nat, p \div 2 \in Places(next), ~IsPadding(At(next, p \div 2))
       PROVE  p \in Places(prev)
  <2>1. p \div 2 \in start..start + n - 1 BY <1>5, <1>10
  <2>2. p \in 2 * start..2 * start + 2 * n - 1 BY <1>1, <2>1
  <2> QED BY <1>1, <2>2 DEF Places
<1>11. Children(prev, next) BY <1>10 DEF Children
<1> QED BY <1>5, <1>8, <1>9, <1>11 DEF start, next

-------------------------------------------------------------------------------
(* The recursion of new_subtree, up to a layer.                               *)
LayersUpTo(layer, rng, lowest, start, nodes, top) ==
  layer = [level \in lowest..top |->
             IF level = lowest THEN Padded(rng, level, nodes, start)
             ELSE ParentLayer(rng, level, layer[level - 1])]

LEMMA LayersExist ==
  ASSUME NEW rng, NEW lowest \in 0..Depth, NEW start, NEW nodes
  PROVE  \E layer : LayersUpTo(layer, rng, lowest, start, nodes, Depth)
<1> DEFINE S == {n \in Nat : \E layer : LayersUpTo(layer, rng, lowest, start, nodes, lowest + n)}
<1>0. lowest \in Nat /\ Depth \in Nat BY DepthAssumption
<1>1. 0 \in S
  <2> DEFINE f == [level \in lowest..lowest |-> Padded(rng, level, nodes, start)]
  <2>1. LayersUpTo(f, rng, lowest, start, nodes, lowest + 0) BY <1>0 DEF LayersUpTo
  <2> QED BY <2>1
<1>2. ASSUME NEW n \in S PROVE n + 1 \in S
  <2>1. PICK f : LayersUpTo(f, rng, lowest, start, nodes, lowest + n) BY <1>2
  <2>2. n \in Nat OBVIOUS
  <2> DEFINE top == lowest + n + 1
             g   == [level \in lowest..top |->
                       IF level = top THEN ParentLayer(rng, level, f[level - 1])
                       ELSE f[level]]
  <2>3. top \in Nat /\ lowest <= top - 1 /\ top - 1 = lowest + n BY <1>0, <2>2
  <2> HIDE DEF top
  <2>4. ASSUME NEW level \in lowest..top
        PROVE  g[level] = IF level = lowest THEN Padded(rng, level, nodes, start)
                          ELSE ParentLayer(rng, level, g[level - 1])
    <3>1. level # lowest => level - 1 \in lowest..top - 1 /\ g[level - 1] = f[level - 1]
      BY <1>0, <2>3
    <3>2. CASE level = top BY <1>0, <2>3, <3>1, <3>2
    <3>3. CASE level # top
      <4>1. level \in lowest..lowest + n BY <1>0, <2>3, <3>3
      <4> QED BY <2>1, <3>1, <3>3, <4>1 DEF LayersUpTo
    <3> QED BY <3>2, <3>3
  <2>5. g = [level \in lowest..top |-> g[level]] OBVIOUS
  <2> HIDE DEF g
  <2>6. LayersUpTo(g, rng, lowest, start, nodes, top) BY <2>4, <2>5 DEF LayersUpTo
  <2>7. top = lowest + (n + 1) BY <1>0, <2>2 DEF top
  <2> QED BY <2>2, <2>6, <2>7
<1>3. S = Nat
  <2> HIDE DEF S
  <2>1. S \in SUBSET Nat BY DEF S
  <2> QED BY <1>1, <1>2, <2>1, Induction
<1>4. Depth - lowest \in S /\ lowest + (Depth - lowest) = Depth
  <2> HIDE DEF S
  <2> QED BY <1>0, <1>3
<1> QED BY <1>4

(* What is known of the layers of a tree: those of odd places are filled up   *)
(* to pairs, the layer above holds the hashes of the pairs of the one below,  *)
(* and the first place is that of the lowest layer, halved.                   *)
Ladder(layers, lowest, start) ==
  /\ \A k \in 1..Len(layers) :
       /\ Paired(layers[k])
       /\ layers[k].start_index = 2 * ((start \div 2^(k - 1)) \div 2)
  /\ \A k \in 1..Len(layers) - 1 :
       /\ Parents(lowest + k, layers[k], layers[k + 1])
       /\ Children(layers[k], layers[k + 1])
       /\ Tweaked(lowest + k, layers[k + 1])

LEMMA SubtreeLayers ==
  ASSUME NEW rng, NEW lowest \in 0..Depth - 1, NEW start \in Nat,
         NEW nodes, IsSeq(nodes), Len(nodes) > 0
  PROVE  LET layers == NewSubtree(rng, lowest, start, nodes).layers
         IN  /\ IsSeq(layers) /\ Len(layers) = Depth + 1 - lowest
             /\ layers[1] = Padded(rng, lowest, nodes, start)
             /\ Ladder(layers, lowest, start)
<1> DEFINE layers == NewSubtree(rng, lowest, start, nodes).layers
           layer  == CHOOSE f : LayersUpTo(f, rng, lowest, start, nodes, Depth)
           n      == Depth + 1 - lowest
<1>0. lowest \in Nat /\ Depth \in Nat /\ Depth <= 32 /\ n \in Nat /\ n > 1
  BY DepthAssumption
<1>1. LayersUpTo(layer, rng, lowest, start, nodes, Depth)
  BY <1>0, LayersExist
<1>2. layers = [k \in 1..n |-> layer[lowest + k - 1]]
  BY DEF NewSubtree, LayersUpTo
<1> HIDE DEF layers, layer, n
<1>3. IsSeq(layers) /\ Len(layers) = n
  <2>1. layers = [k \in 1..n |-> layers[k]] BY <1>2
  <2> QED BY <1>0, <2>1, FunctionSeq
<1>4. layers[1] = Padded(rng, lowest, nodes, start)
  <2>1. 1 \in 1..n /\ lowest + 1 - 1 = lowest /\ lowest \in lowest..Depth
    BY <1>0 DEF n
  <2> QED BY <1>1, <1>2, <2>1 DEF LayersUpTo
<1>5. ASSUME NEW k \in 1..n - 1
      PROVE  layers[k + 1] = ParentLayer(rng, lowest + k, layers[k])
  <2>1. /\ k + 1 \in 1..n /\ k \in 1..n /\ lowest + (k + 1) - 1 = lowest + k
        /\ lowest + k \in lowest..Depth /\ lowest + k # lowest
        /\ (lowest + k) - 1 = lowest + k - 1
    BY <1>0 DEF n
  <2>2. layers[k + 1] = layer[lowest + k] /\ layers[k] = layer[lowest + k - 1]
    BY <1>2, <2>1
  <2> QED BY <1>1, <2>1, <2>2 DEF LayersUpTo
<1> DEFINE Even(k) == 2 * ((start \div 2^k) \div 2)
           S == {k \in Nat : k < n => /\ Paired(layers[k + 1])
                                      /\ layers[k + 1].start_index = Even(k)}
<1>6. 0 \in S
  <2>1. Paired(layers[1]) /\ layers[1].start_index = 2 * (start \div 2)
    BY <1>4, PaddedLayer, ZenonT(60)
  <2>2. start \div 2^0 = start
    <3>1. 2^0 = 1 OBVIOUS
    <3> QED BY <3>1
  <2> QED BY <2>1, <2>2
<1>7. ASSUME NEW k \in S PROVE k + 1 \in S
  <2>1. k \in Nat OBVIOUS
  <2> SUFFICES ASSUME k + 1 < n
               PROVE  /\ Paired(layers[(k + 1) + 1])
                      /\ layers[(k + 1) + 1].start_index = Even(k + 1)
    BY <2>1
  <2>2. k + 1 \in 1..n - 1 /\ k \in 0..31 /\ k < n BY <1>0, <2>1 DEF n
  <2>3. Paired(layers[k + 1]) /\ layers[k + 1].start_index = Even(k) BY <1>7, <2>2
  <2>4. /\ Paired(layers[(k + 1) + 1])
        /\ layers[(k + 1) + 1].start_index = 2 * ((layers[k + 1].start_index \div 2) \div 2)
    BY <1>5, <2>2, <2>3, ParentLayerProperties
  <2>5. start \div 2^k \in Nat /\ start \div 2^(k + 1) = (start \div 2^k) \div 2
    BY <2>2, Halving
  <2>6. Even(k) \div 2 = start \div 2^(k + 1)
    <3> DEFINE a == start \div 2^k
    <3>1. a \in Nat /\ start \div 2^(k + 1) = a \div 2 BY <2>5
    <3> HIDE DEF a
    <3>2. (2 * (a \div 2)) \div 2 = a \div 2 BY <3>1
    <3> QED BY <3>1, <3>2 DEF a
  <2> QED BY <2>3, <2>4, <2>6
<1>8. S = Nat
  <2> HIDE DEF S
  <2>1. S \in SUBSET Nat BY DEF S
  <2> QED BY <1>6, <1>7, <2>1, Induction
<1>9. ASSUME NEW k \in 1..n
      PROVE  Paired(layers[k]) /\ layers[k].start_index = Even(k - 1)
  <2>1. k - 1 \in Nat /\ k - 1 < n /\ (k - 1) + 1 = k BY <1>0
  <2>2. k - 1 \in S BY <1>8, <2>1
  <2> QED BY <2>1, <2>2
<1>10. ASSUME NEW k \in 1..n - 1
       PROVE  /\ Parents(lowest + k, layers[k], layers[k + 1])
              /\ Children(layers[k], layers[k + 1])
              /\ Tweaked(lowest + k, layers[k + 1])
  <2>1. k \in 1..n BY <1>0
  <2> QED BY <1>5, <1>9, <2>1, ParentLayerProperties
<1>11. Ladder(layers, lowest, start) BY <1>3, <1>9, <1>10 DEF Ladder
<1> QED BY <1>3, <1>4, <1>11 DEF layers, n

-------------------------------------------------------------------------------
(* Terms are equal only if they were computed alike.                          *)
LEMMA ApplyInjective ==
  ASSUME NEW t, NEW i, NEW u, NEW j, Apply(t, i) = Apply(u, j)
  PROVE  t = u /\ i = j
<1>1. Apply(t, i).tweak = t /\ Apply(t, i).inputs = i BY DEF Apply
<1>2. Apply(u, j).tweak = u /\ Apply(u, j).inputs = j BY DEF Apply
<1> QED BY <1>1, <1>2

LEMMA TweakInjective ==
  ASSUME NEW l, NEW p, NEW m, NEW q, TreeTweak(l, p) = TreeTweak(m, q)
  PROVE  l = m /\ p = q
<1>1. TreeTweak(l, p).level = l /\ TreeTweak(l, p).position = p BY DEF TreeTweak
<1>2. TreeTweak(m, q).level = m /\ TreeTweak(m, q).position = q BY DEF TreeTweak
<1> QED BY <1>1, <1>2

(* What was hashed is not padding.                                            *)
LEMMA HashedNoPadding ==
  ASSUME NEW l, NEW p, NEW x, IsHashed(l, p, x)
  PROVE  ~IsPadding(x)
<1> SUFFICES ASSUME IsPadding(x) PROVE FALSE OBVIOUS
<1>1. PICK i : x = Apply(TreeTweak(l, p), i) BY DEF IsHashed
<1>2. PICK rng, level, place : x = RandDomain(rng, level, place) BY DEF IsPadding
<1>3. DOMAIN x = {"tweak", "inputs"} BY <1>1 DEF Apply
<1>4. DOMAIN x = {"rng", "level", "place"} BY <1>2 DEF RandDomain
<1> QED BY <1>3, <1>4

(* A node that was hashed at a place differs from padding, and from what was  *)
(* hashed at another.                                                         *)
LEMMA HashedDiffers ==
  ASSUME NEW l, NEW p, NEW q, NEW x, NEW y, IsHashed(l, p, x), p # q,
         IsPadding(y) \/ IsHashed(l, q, y)
  PROVE  x # y
<1>1. PICK i : x = Apply(TreeTweak(l, p), i) BY DEF IsHashed
<1>2. CASE IsPadding(y) BY <1>2, HashedNoPadding
<1>3. CASE IsHashed(l, q, y)
  <2>1. PICK j : y = Apply(TreeTweak(l, q), j) BY <1>3 DEF IsHashed
  <2> QED BY <1>1, <2>1, ApplyInjective, TweakInjective
<1> QED BY <1>2, <1>3

(* The layers of a tree as a position climbs them: values go from a node to   *)
(* the one it is hashed into, with the entry of the path at its other side.   *)
Climbs(value, path, lowest, position) ==
  \A l \in 1..Len(path) :
    LET child == position \div 2^(l - 1)
    IN  /\ value[l] = Apply(TreeTweak(lowest + l, child \div 2),
                            IF child % 2 = 0 THEN <<value[l - 1], path[l]>>
                            ELSE <<path[l], value[l - 1]>>)
        /\ value[l - 1] # path[l]

(* Every position of the lowest layer climbs a tree of the kind new_subtree   *)
(* makes; the tree may be cut off at any layer.                               *)
LEMMA LadderClimbs ==
  ASSUME NEW layers, NEW lowest \in Nat, NEW start,
         Ladder(layers, lowest, start), Len(layers) \in 2..33,
         Tweaked(lowest, layers[1]), NEW position \in Places(layers[1]),
         IsHashed(lowest, position, At(layers[1], position)),
         NEW path, Len(path) \in 1..Len(layers) - 1,
         \A l \in 1..Len(path) :
           path[l] = At(layers[l], Sibling(position \div 2^(l - 1)))
  PROVE  LET value == [l \in 0..Len(layers) - 1 |-> At(layers[l + 1], position \div 2^l)]
         IN  /\ Climbs(value, path, lowest, position)
             /\ \A l \in 0..Len(layers) - 1 :
                  /\ position \div 2^l \in Places(layers[l + 1])
                  /\ IsHashed(lowest + l, position \div 2^l, value[l])
<1>0. \A l \in 0..Len(layers) - 2 : l \in 0..31
  <2>1. \A m \in 2..33 : \A l \in 0..m - 2 : l \in 0..31 OBVIOUS
  <2> QED BY <2>1
<1> DEFINE n == Len(layers)
           p(l) == position \div 2^l
           value == [l \in 0..n - 1 |-> At(layers[l + 1], p(l))]
           S == {l \in Nat : l < n => /\ p(l) \in Places(layers[l + 1])
                                      /\ IsHashed(lowest + l, p(l), At(layers[l + 1], p(l)))}
<1>1. position \in Nat
  <2>1. 1 \in 1..Len(layers) OBVIOUS
  <2>2. Paired(layers[1]) BY <2>1 DEF Ladder
  <2>3. layers[1].start_index \in Nat BY <2>2 DEF Paired
  <2> QED BY <2>3 DEF Places
<1>2. p(0) = position
  <2>1. 2^0 = 1 OBVIOUS
  <2> QED BY <1>1, <2>1
<1>3. \A l \in 0..n - 2 : p(l) \in Nat /\ p(l + 1) = p(l) \div 2
  <2> TAKE l \in 0..n - 2
  <2>1. l \in 0..31 BY <1>0
  <2> QED BY <1>1, <2>1, Halving
<1> HIDE DEF p
<1>4. ASSUME NEW l \in 0..n - 2, p(l) \in Places(layers[l + 1])
      PROVE  /\ Sibling(p(l)) \in Places(layers[l + 1])
             /\ p(l + 1) \in Places(layers[l + 2])
             /\ At(layers[l + 2], p(l + 1)) =
                  Apply(TreeTweak(lowest + (l + 1), p(l) \div 2),
                        IF p(l) % 2 = 0
                        THEN <<At(layers[l + 1], p(l)), At(layers[l + 1], Sibling(p(l)))>>
                        ELSE <<At(layers[l + 1], Sibling(p(l))), At(layers[l + 1], p(l))>>)
  <2>1. l + 1 \in 1..Len(layers) - 1 /\ (l + 1) + 1 = l + 2 OBVIOUS
  <2>2. Parents(lowest + (l + 1), layers[l + 1], layers[l + 2]) BY <2>1 DEF Ladder
  <2> QED BY <1>3, <1>4, <2>2 DEF Parents
<1>5. 0 \in S
  <2>1. lowest + 0 = lowest OBVIOUS
  <2> QED BY <1>2, <2>1
<1>6. ASSUME NEW l \in S PROVE l + 1 \in S
  <2>1. l \in Nat OBVIOUS
  <2> SUFFICES ASSUME l + 1 < n
               PROVE  /\ p(l + 1) \in Places(layers[(l + 1) + 1])
                      /\ IsHashed(lowest + (l + 1), p(l + 1), At(layers[(l + 1) + 1], p(l + 1)))
    BY <2>1
  <2>2. l \in 0..n - 2 /\ l < n /\ (l + 1) + 1 = l + 2 BY <2>1
  <2>3. p(l) \in Places(layers[l + 1]) BY <2>2, <1>6
  <2> QED BY <1>3, <1>4, <2>2, <2>3 DEF IsHashed
<1>7. S = Nat
  <2> HIDE DEF S
  <2>1. S \in SUBSET Nat BY DEF S
  <2> QED BY <1>5, <1>6, <2>1, Induction
<1>8. ASSUME NEW l \in 0..n - 1
      PROVE  /\ p(l) \in Places(layers[l + 1])
             /\ IsHashed(lowest + l, p(l), value[l]) /\ value[l] = At(layers[l + 1], p(l))
  <2>1. l \in Nat /\ l < n OBVIOUS
  <2>2. l \in S
    <3> HIDE DEF S
    <3> QED BY <1>7, <2>1
  <2>3. p(l) \in Places(layers[l + 1]) /\ IsHashed(lowest + l, p(l), At(layers[l + 1], p(l)))
    BY <2>1, <2>2
  <2> QED BY <2>3
<1>9. ASSUME NEW l \in 1..Len(path)
      PROVE  /\ value[l] = Apply(TreeTweak(lowest + l, p(l - 1) \div 2),
                                 IF p(l - 1) % 2 = 0 THEN <<value[l - 1], path[l]>>
                                 ELSE <<path[l], value[l - 1]>>)
             /\ value[l - 1] # path[l]
  <2> DEFINE m == l - 1
  <2>1. /\ m \in 0..n - 2 /\ m \in 0..n - 1 /\ m + 1 = l /\ m + 2 = l + 1
        /\ l \in 0..n - 1 /\ m \in Nat
    OBVIOUS
  <2>2. path[l] = At(layers[m + 1], Sibling(p(m))) BY <2>1 DEF p
  <2> HIDE DEF m, value
  <2>3. /\ p(m) \in Places(layers[m + 1]) /\ IsHashed(lowest + m, p(m), value[m])
        /\ value[m] = At(layers[m + 1], p(m))
    BY <2>1, <1>8
  <2>4. value[l] = At(layers[m + 2], p(m + 1)) BY <1>8, <2>1
  <2>5. value[l] = Apply(TreeTweak(lowest + l, p(m) \div 2),
                         IF p(m) % 2 = 0 THEN <<value[m], path[l]>>
                         ELSE <<path[l], value[m]>>)
    BY <1>4, <2>1, <2>2, <2>3, <2>4
  <2>6. Tweaked(lowest + m, layers[m + 1])
    <3>1. CASE m = 0
      <4>1. lowest + 0 = lowest /\ 0 + 1 = 1 OBVIOUS
      <4> QED BY <3>1, <4>1
    <3>2. CASE m # 0
      <4>1. m \in 1..Len(layers) - 1 /\ m - 1 \in Nat /\ m \in 1..n - 1 BY <2>1, <3>2
      <4> QED BY <4>1 DEF Ladder
    <3> QED BY <3>1, <3>2
  <2>7. Sibling(p(m)) \in Places(layers[m + 1]) BY <1>4, <2>1, <2>3
  <2>8. IsPadding(path[l]) \/ IsHashed(lowest + m, Sibling(p(m)), path[l])
    BY <2>2, <2>6, <2>7 DEF Tweaked
  <2>9. Sibling(p(m)) # p(m)
    <3>1. p(m) \in Nat BY <1>3, <2>1
    <3> QED BY <3>1 DEF Sibling
  <2>10. value[m] # path[l] BY <2>3, <2>8, <2>9, HashedDiffers
  <2> QED BY <2>5, <2>10 DEF m
<1> HIDE DEF value
<1>10. Climbs(value, path, lowest, position) BY <1>9 DEF Climbs, p
<1> QED BY <1>8, <1>10 DEF value, p

(* What hash_tree_verify makes of any path: values that go up alike.          *)
Hashes(node, path, lowest, position) ==
  \A l \in 1..Len(path) :
    LET child == position \div 2^(l - 1)
    IN  node[l] = Apply(TreeTweak(lowest + l, child \div 2),
                        IF child % 2 = 0 THEN <<node[l - 1], path[l]>>
                        ELSE <<path[l], node[l - 1]>>)

(* Going down the layers of a tree from its root, hash by hash, one comes by  *)
(* no padding and ends at a node of the lowest layer.                         *)
LEMMA LadderDescends ==
  ASSUME NEW layers, NEW lowest \in Nat, NEW start,
         Ladder(layers, lowest, start), Len(layers) \in 2..33,
         NEW position \in Nat, NEW node, NEW path, Len(path) = Len(layers) - 1,
         Hashes(node, path, lowest, position),
         position \div 2^Len(path) \in Places(layers[Len(layers)]),
         node[Len(path)] = At(layers[Len(layers)], position \div 2^Len(path))
  PROVE  position \in Places(layers[1]) /\ node[0] = At(layers[1], position)
<1> DEFINE n    == Len(layers)
           d    == Len(path)
           p(l) == position \div 2^l
           Met(l) == p(l) \in Places(layers[l + 1]) /\ node[l] = At(layers[l + 1], p(l))
<1>1. d \in Nat /\ d \in 1..32 /\ n = d + 1
  <2>1. \A m \in 2..33 : m - 1 \in Nat /\ m - 1 \in 1..32 /\ m = (m - 1) + 1 OBVIOUS
  <2> QED BY <2>1
<1>2. \A l \in 1..d : /\ l - 1 \in 0..31 /\ (l - 1) + 1 = l
                      /\ p(l - 1) \in Nat /\ p(l) = p(l - 1) \div 2
  <2>1. \A m \in 1..32 : \A l \in 1..m : l - 1 \in 0..31 /\ (l - 1) + 1 = l OBVIOUS
  <2>2. \A l \in 1..d : l - 1 \in 0..31 /\ (l - 1) + 1 = l BY <1>1, <2>1
  <2> QED BY <2>2, Halving
<1>3. Met(d) BY <1>1
<1>4. ASSUME NEW l \in 1..d, Met(l) PROVE Met(l - 1)
  <2>1. /\ Parents(lowest + l, layers[l], layers[l + 1])
        /\ Children(layers[l], layers[l + 1])
    <3>1. l \in 1..Len(layers) - 1 BY <1>1
    <3> QED BY <3>1 DEF Ladder
  <2> DEFINE c == p(l - 1)
             x == IF c % 2 = 0 THEN <<node[l - 1], path[l]>> ELSE <<path[l], node[l - 1]>>
             y == IF c % 2 = 0 THEN <<At(layers[l], c), At(layers[l], Sibling(c))>>
                  ELSE <<At(layers[l], Sibling(c)), At(layers[l], c)>>
  <2>2. c \in Nat /\ p(l) = c \div 2 /\ (l - 1) + 1 = l BY <1>2
  <2>3. node[l] = Apply(TreeTweak(lowest + l, c \div 2), x) BY DEF Hashes
  <2> HIDE DEF p, c
  <2>4. c \div 2 \in Places(layers[l + 1]) /\ node[l] = At(layers[l + 1], c \div 2)
    BY <1>4, <2>2
  <2>5. ~IsPadding(At(layers[l + 1], c \div 2))
    <3>1. IsHashed(lowest + l, c \div 2, node[l]) BY <2>3 DEF IsHashed
    <3> QED BY <2>4, <3>1, HashedNoPadding
  <2>6. c \in Places(layers[l]) BY <2>1, <2>2, <2>4, <2>5 DEF Children
  <2>7. At(layers[l + 1], c \div 2) = Apply(TreeTweak(lowest + l, c \div 2), y)
    BY <2>1, <2>6 DEF Parents
  <2>8. x = y
    <3> HIDE DEF x, y
    <3> QED BY <2>3, <2>4, <2>7, ApplyInjective
  <2>9. node[l - 1] = At(layers[l], c) BY <2>8
  <2> QED BY <2>2, <2>6, <2>9 DEF c
<1> HIDE DEF Met, d, n
<1> DEFINE S == {m \in Nat : m <= d => Met(d - m)}
<1>5. 0 \in S
  <2>1. d - 0 = d BY <1>1
  <2> QED BY <1>3, <2>1
<1>6. ASSUME NEW m \in S PROVE m + 1 \in S
  <2>1. m \in Nat OBVIOUS
  <2> SUFFICES ASSUME m + 1 <= d PROVE Met(d - (m + 1)) BY <2>1
  <2>2. d - m \in 1..d /\ (d - m) - 1 = d - (m + 1) /\ m <= d BY <1>1, <2>1
  <2>3. Met(d - m) BY <1>6, <2>2
  <2> QED BY <1>4, <2>2, <2>3
<1>7. d \in S
  <2> HIDE DEF S
  <2>1. S \in SUBSET Nat BY DEF S
  <2> QED BY <1>1, <1>5, <1>6, <2>1, Induction
<1>8. Met(0)
  <2>1. d <= d /\ d - d = 0 BY <1>1
  <2> QED BY <1>7, <2>1
<1>9. p(0) = position /\ 0 + 1 = 1
  <2>1. 2^0 = 1 OBVIOUS
  <2> QED BY <2>1
<1> QED BY <1>8, <1>9 DEF Met

-------------------------------------------------------------------------------
(* The two halves of a tree.                                                  *)
LEMMA Halves == Half \in 1..16 /\ Depth = 2 * Half /\ Depth \in 2..32
BY DepthAssumption DEF Half

(* The leaves of a bottom tree.                                               *)
Width == 2^Half

LEMMA WidthEven == Width \in Nat \ {0} /\ Width % 2 = 0
<1>1. /\ Half - 1 \in 0..32 /\ Half - 1 < 32 /\ (Half - 1) + 1 = Half BY Halves
<1>2. 2^(Half - 1) \in Nat /\ 2^Half = 2 * 2^(Half - 1) BY <1>1, Powers
<1>3. \A m \in Nat : (2 * m) % 2 = 0 OBVIOUS
<1>4. Half \in 0..32 BY Halves
<1>5. 2^Half \in Nat \ {0} BY <1>4, Powers
<1> QED BY <1>2, <1>3, <1>5 DEF Width

LEMMA PowerOfHalves == Width * Width = 2^Depth
<1>1. Half \in 1..16 /\ Depth = 2 * Half BY Halves
<1>2. \A h \in 1..16 : 2^h * 2^h = 2^(2 * h)
  <2> SUFFICES ASSUME NEW h \in 1..16 PROVE 2^h * 2^h = 2^(2 * h) OBVIOUS
  <2>1. CASE h = 1 BY <2>1
  <2>2. CASE h = 2 BY <2>2
  <2>3. CASE h = 3 BY <2>3
  <2>4. CASE h = 4 BY <2>4
  <2>5. CASE h = 5 BY <2>5
  <2>6. CASE h = 6 BY <2>6
  <2>7. CASE h = 7 BY <2>7
  <2>8. CASE h = 8 BY <2>8
  <2>9. CASE h = 9 BY <2>9
  <2>10. CASE h = 10 BY <2>10
  <2>11. CASE h = 11 BY <2>11
  <2>12. CASE h = 12 BY <2>12
  <2>13. CASE h = 13 BY <2>13
  <2>14. CASE h = 14 BY <2>14
  <2>15. CASE h = 15 BY <2>15
  <2>16. CASE h = 16 BY <2>16
  <2> QED BY <2>1, <2>2, <2>3, <2>4, <2>5, <2>6, <2>7, <2>8, <2>9, <2>10, <2>11, <2>12, <2>13,
            <2>14, <2>15, <2>16
<1> QED BY <1>1, <1>2 DEF Width

(* The sibling at every layer that a path climbs.                             *)
LEMMA PathProperties ==
  ASSUME NEW tree, Len(tree.layers) \in Nat \ {0}, NEW position
  PROVE  /\ IsSeq(Path(tree, position)) /\ Len(Path(tree, position)) = Len(tree.layers) - 1
         /\ \A l \in 1..Len(tree.layers) - 1 :
              Path(tree, position)[l] = At(tree.layers[l], Sibling(position \div 2^(l - 1)))
<1> DEFINE path == Path(tree, position)
           n    == Len(tree.layers) - 1
<1>1. path = [l \in 1..n |-> At(tree.layers[l], Sibling(position \div 2^(l - 1)))]
  BY DEF Path, At
<1> HIDE DEF path
<1>2. n \in Nat OBVIOUS
<1>3. path = [l \in 1..n |-> path[l]] BY <1>1
<1>4. IsSeq(path) /\ Len(path) = n BY <1>2, <1>3, FunctionSeq
<1>5. \A l \in 1..n : path[l] = At(tree.layers[l], Sibling(position \div 2^(l - 1)))
  BY <1>1
<1> QED BY <1>4, <1>5 DEF path

(* Nodes hashed for consecutive places.                                       *)
HashedFrom(level, start, nodes) ==
  /\ IsSeq(nodes) /\ Len(nodes) > 0
  /\ \A k \in 1..Len(nodes) : IsHashed(level, start + k - 1, nodes[k])

(* A layer that holds them and padding.                                       *)
Holds(layer, level, start, nodes) ==
  /\ Tweaked(level, layer)
  /\ \A p \in Places(layer) : \A x : IsHashed(level, p, x) /\ At(layer, p) = x =>
       p \in start..start + Len(nodes) - 1
  /\ \A k \in 1..Len(nodes) :
       start + k - 1 \in Places(layer) /\ At(layer, start + k - 1) = nodes[k]

LEMMA LowestLayer ==
  ASSUME NEW rng, NEW lowest, NEW start \in Nat, NEW nodes, HashedFrom(lowest, start, nodes)
  PROVE  Holds(Padded(rng, lowest, nodes, start), lowest, start, nodes)
<1>0. /\ IsSeq(nodes) /\ Len(nodes) > 0
      /\ \A k \in 1..Len(nodes) : IsHashed(lowest, start + k - 1, nodes[k])
  BY DEF HashedFrom
<1> DEFINE layer == Padded(rng, lowest, nodes, start)
<1>1. /\ start..start + Len(nodes) - 1 \subseteq Places(layer)
      /\ \A p \in start..start + Len(nodes) - 1 : At(layer, p) = nodes[p - start + 1]
      /\ \A p \in Places(layer) \ (start..start + Len(nodes) - 1) : IsPadding(At(layer, p))
  BY <1>0, PaddedLayer
<1> HIDE DEF layer
<1>2. Len(nodes) \in Nat BY <1>0, SeqFunction
<1>3. ASSUME NEW p \in start..start + Len(nodes) - 1
      PROVE  IsHashed(lowest, p, At(layer, p))
  <2> DEFINE k == p - start + 1
  <2>1. k \in 1..Len(nodes) /\ start + k - 1 = p BY <1>2
  <2> HIDE DEF k
  <2>2. IsHashed(lowest, p, nodes[k]) BY <1>0, <2>1
  <2> QED BY <1>1, <2>2 DEF k
<1>4. Tweaked(lowest, layer) BY <1>1, <1>3 DEF Tweaked
<1>5. ASSUME NEW p \in Places(layer), NEW x, IsHashed(lowest, p, x), At(layer, p) = x
      PROVE  p \in start..start + Len(nodes) - 1
  <2> SUFFICES ASSUME p \notin start..start + Len(nodes) - 1 PROVE FALSE OBVIOUS
  <2>1. IsPadding(x) BY <1>1, <1>5
  <2> QED BY <1>5, <2>1, HashedNoPadding
<1>6. ASSUME NEW k \in 1..Len(nodes)
      PROVE  start + k - 1 \in Places(layer) /\ At(layer, start + k - 1) = nodes[k]
  <2> DEFINE p == start + k - 1
  <2>1. p \in start..start + Len(nodes) - 1 /\ p - start + 1 = k BY <1>2
  <2> HIDE DEF p
  <2>2. p \in Places(layer) /\ At(layer, p) = nodes[k] BY <1>1, <2>1
  <2> QED BY <2>2 DEF p
<1> QED BY <1>4, <1>5, <1>6 DEF layer, Holds

(* The leaves of bottom tree t, hashed for their places.                      *)
LeafNodes(t, leafs) ==
  HashedFrom(0, t * Width, leafs) /\ Len(leafs) = Width

(* A path leads from a node of the lowest layer to the root.                  *)
Leads(tree, lowest, position, node) ==
  LET path == Path(tree, position)
  IN  /\ InLowestLayer(tree, position) /\ IsSeq(path) /\ Len(path) = Half
      /\ \E value : /\ value[0] = node /\ value[Half] = Root(tree)
                    /\ Climbs(value, path, lowest, position)

(* A bottom tree starts at its first leaf, and a path leads from every leaf   *)
(* to its root, which was hashed for the place the tree has among its like.   *)
LEMMA BottomTreeProperties ==
  ASSUME NEW t \in Nat, NEW leafs, LeafNodes(t, leafs)
  PROVE  LET tree == NewBottomTree(t, leafs)
         IN  /\ BottomTreeIndex(tree) = t /\ tree.layers[1].start_index % Width = 0
             /\ IsHashed(Half, t, Root(tree))
             /\ \A k \in 1..Width : Leads(tree, 0, t * Width + k - 1, leafs[k])
<1> DEFINE tree  == NewBottomTree(t, leafs)
           q     == Width
           start == t * q
           whole == NewSubtree("seed 0", 0, start, leafs)
           above == whole.layers[Half + 1]
           apex  == BottomRoot(above.nodes, t)
           top   == [start_index |-> t, nodes |-> <<apex>>]
<1>1. q \in Nat \ {0} /\ q % 2 = 0 BY WidthEven
<1>0. /\ HashedFrom(0, start, leafs) /\ IsSeq(leafs) /\ Len(leafs) = q
      /\ \A k \in 1..q : IsHashed(0, start + k - 1, leafs[k])
  BY DEF LeafNodes, HashedFrom
<1>2. tree.layers = Append(SubSeq(whole.layers, 1, Half), top)
  BY DEF NewBottomTree, Width
<1> HIDE DEF q, tree
<1>3. /\ start \in Nat /\ 2 * (start \div 2) = start
      /\ start % q = 0 /\ start \div q = t
  <2>1. PICK m \in Nat : q = 2 * m BY <1>1
  <2>2. start = 2 * (t * m) /\ t * m \in Nat BY <2>1
  <2>3. start \div q = t
    <3>1. start \in Int /\ t * q <= start /\ start < t * q + q BY <1>1
    <3> HIDE DEF start
    <3> QED BY <1>1, <3>1, Quotient
  <2>4. start % q = 0
    <3>1. start \in Nat /\ t * q = start BY <1>1
    <3> HIDE DEF start
    <3>2. t * q = start => start = (start \div q) * q BY <2>3
    <3>3. start % q = start - (start \div q) * q BY <1>1, <3>1
    <3>4. (start \div q) * q \in Int BY <3>1, <3>2
    <3> QED BY <3>1, <3>2, <3>3, <3>4
  <2> QED BY <2>2, <2>3, <2>4
<1> HIDE DEF start
<1>4. /\ IsSeq(whole.layers) /\ Len(whole.layers) = Depth + 1
      /\ whole.layers[1] = Padded("seed 0", 0, leafs, start)
      /\ Ladder(whole.layers, 0, start)
  <2>1. 0 \in 0..Depth - 1 /\ Len(leafs) > 0 /\ start \in Nat
    BY <1>0, <1>1, <1>3, Halves
  <2>2. Depth + 1 - 0 = Depth + 1 BY Halves
  <2> QED BY <1>0, <2>1, <2>2, SubtreeLayers
<1> HIDE DEF whole, top
<1>5. /\ Len(tree.layers) = Half + 1 /\ tree.layers[Half + 1] = top
      /\ \A l \in 1..Half : tree.layers[l] = whole.layers[l]
  <2> DEFINE S == Range(whole.layers) \cup {top}
             cut == SubSeq(whole.layers, 1, Half)
  <2>1. \A l \in 1..Half : whole.layers[l] \in S
    <3>1. DOMAIN whole.layers = 1..Depth + 1 BY <1>4, SeqFunction
    <3> QED BY <3>1, Halves DEF Range
  <2>2. /\ cut \in Seq(S) /\ Len(cut) = Half
        /\ \A l \in 1..Half : cut[l] = whole.layers[l]
    <3> HIDE DEF S
    <3>1. 1 \in Int /\ Half \in Int /\ 1 <= Half /\ Half - 1 + 1 = Half BY Halves
    <3>2. /\ cut \in Seq(S) /\ Len(cut) = IF 1 <= Half THEN Half - 1 + 1 ELSE 0
          /\ \A l \in 1..Half - 1 + 1 : cut[l] = whole.layers[1 + l - 1]
      BY <2>1, <3>1, SubSeqProperties
    <3>3. \A l \in 1..Half : 1 + l - 1 = l BY Halves
    <3> QED BY <3>1, <3>2, <3>3
  <2>3. top \in S OBVIOUS
  <2> HIDE DEF S, cut
  <2>4. /\ Len(Append(cut, top)) = Len(cut) + 1
        /\ \A l \in 1..Len(cut) : Append(cut, top)[l] = cut[l]
        /\ Append(cut, top)[Len(cut) + 1] = top
    BY <2>2, <2>3, AppendProperties
  <2> QED BY <1>2, <2>2, <2>4 DEF cut
<1>6. Root(tree) = apex
  <2>1. Last(tree.layers) = top BY <1>5 DEF Last
  <2> QED BY <2>1 DEF Root, top
<1>7. /\ Tweaked(0, whole.layers[1])
      /\ \A k \in 1..q : /\ start + k - 1 \in Places(whole.layers[1])
                         /\ At(whole.layers[1], start + k - 1) = leafs[k]
  <2>1. 0 \in 0..Depth - 1 /\ Len(leafs) > 0 /\ start \in Nat
    BY <1>0, <1>1, <1>3, Halves
  <2>2. Holds(whole.layers[1], 0, start, leafs) BY <1>0, <1>4, <2>1, LowestLayer
  <2> QED BY <1>0, <2>2 DEF Holds
<1>8. whole.layers[1].start_index = start
  <2>1. Len(leafs) > 0 /\ start \in Nat /\ 2 * (start \div 2) = start
    BY <1>0, <1>1, <1>3
  <2> DEFINE p0 == Padded("seed 0", 0, leafs, start)
  <2>2. p0.start_index = 2 * (start \div 2) BY <1>0, <2>1, PaddedLayer, ZenonT(60)
  <2> HIDE DEF p0
  <2> QED BY <1>4, <2>1, <2>2 DEF p0
<1>9. tree.layers[1] = whole.layers[1] BY <1>5, Halves
<1>10. BottomTreeIndex(tree) = t /\ tree.layers[1].start_index % q = 0
  BY <1>3, <1>8, <1>9 DEF BottomTreeIndex, q, Width
<1>11. above.start_index = 2 * (t \div 2)
  <2>1. Half + 1 \in 1..Depth + 1 /\ (Half + 1) - 1 = Half BY Halves
  <2> QED BY <1>3, <1>4, <2>1 DEF Ladder, q, Width
<1>12. At(above, t) = apex
  <2>1. t - 2 * (t \div 2) = t % 2 OBVIOUS
  <2> QED BY <1>11, <2>1 DEF At, BottomRoot
<1> HIDE DEF above, apex
<1>13. ASSUME NEW k \in 1..q
       PROVE  LET position == start + k - 1
                  path     == Path(tree, position)
              IN  /\ InLowestLayer(tree, position)
                  /\ IsSeq(path) /\ Len(path) = Half
                  /\ IsHashed(Half, t, apex)
                  /\ \E value : /\ value[0] = leafs[k] /\ value[Half] = apex
                                /\ Climbs(value, path, 0, position)
  <2> DEFINE position == start + k - 1
             path     == Path(tree, position)
             value    == [l \in 0..Len(whole.layers) - 1 |->
                            At(whole.layers[l + 1], position \div 2^l)]
  <2>1. position \in Nat /\ t * q <= position /\ position < t * q + q
    BY <1>1, <1>3 DEF start
  <2>2. position \div q = t
    <3> HIDE DEF position
    <3> QED BY <1>1, <2>1, Quotient
  <2>3. position \in Places(whole.layers[1]) /\ At(whole.layers[1], position) = leafs[k]
    BY <1>7
  <2>4. InLowestLayer(tree, position) BY <1>9, <2>3 DEF InLowestLayer, Places
  <2>5. /\ IsSeq(path) /\ Len(path) = Half
        /\ \A l \in 1..Half : path[l] = At(tree.layers[l], Sibling(position \div 2^(l - 1)))
    <3>0. Len(tree.layers) = Half + 1 BY <1>5
    <3>1. Len(tree.layers) \in Nat \ {0} /\ Len(tree.layers) - 1 = Half BY <3>0, Halves
    <3> HIDE DEF position
    <3> QED BY <3>1, PathProperties
  <2>6. IsHashed(0, position, At(whole.layers[1], position)) BY <1>0, <2>3
  <2> HIDE DEF position, path
  <2>7. /\ Climbs(value, path, 0, position)
        /\ \A l \in 0..Depth : IsHashed(0 + l, position \div 2^l, value[l])
    <3>1. /\ 0 \in Nat /\ Len(whole.layers) \in 2..33
          /\ Len(path) \in 1..Len(whole.layers) - 1 /\ Len(whole.layers) - 1 = Depth
      <4>1. Len(whole.layers) = Depth + 1 /\ Len(path) = Half BY <1>4, <2>5
      <4> QED BY <4>1, Halves
    <3>2. \A l \in 1..Len(path) : path[l] = At(whole.layers[l], Sibling(position \div 2^(l - 1)))
      BY <1>5, <2>5
    <3> QED BY <1>4, <1>7, <2>3, <2>6, <3>1, <3>2, LadderClimbs
  <2>8. value[0] = leafs[k] /\ value[Half] = apex
    <3>1. 0 \in 0..Len(whole.layers) - 1 /\ Half \in 0..Len(whole.layers) - 1
      <4>1. Len(whole.layers) = Depth + 1 BY <1>4
      <4> QED BY <4>1, Halves
    <3>2. position \div 2^0 = position
      <4>1. 2^0 = 1 OBVIOUS
      <4> QED BY <2>1, <4>1
    <3>3. value[0] = At(whole.layers[1], position) BY <3>1, <3>2
    <3>4. value[Half] = At(above, t) BY <2>2, <3>1 DEF q, above, Width
    <3> QED BY <1>12, <2>3, <3>3, <3>4
  <2>9. IsHashed(Half, t, apex)
    <3>1. Half \in 0..Depth /\ 0 + Half = Half BY Halves
    <3>2. IsHashed(Half, position \div 2^Half, value[Half]) BY <2>7, <3>1
    <3> QED BY <2>2, <2>8, <3>2 DEF q, Width
  <2> HIDE DEF value
  <2>10. \E v : v[0] = leafs[k] /\ v[Half] = apex /\ Climbs(v, path, 0, position)
    BY <2>7, <2>8
  <2> QED BY <2>4, <2>5, <2>9, <2>10 DEF position, path
<1>14. IsHashed(Half, t, apex)
  <2>1. 1 \in 1..q BY <1>1
  <2> QED BY <1>13, <2>1
<1>15. \A k \in 1..q : Leads(tree, 0, start + k - 1, leafs[k])
  BY <1>6, <1>13 DEF Leads
<1> QED BY <1>6, <1>10, <1>14, <1>15 DEF tree, start, q

(* hash_tree_verify gets to the root of a top tree from the places of its     *)
(* bottom trees only.                                                         *)
OnlyFrom(top, trees) ==
  \A position \in 0..Width - 1 : \A node, path :
    /\ Len(path) = Half /\ Hashes(node, path, Half, position)
    /\ IsHashed(Half, position, node[0]) /\ node[Half] = Root(top)
    => position \in trees

(* The top tree over roots that were hashed for their places.                 *)
LEMMA TopTreeProperties ==
  ASSUME NEW rng, NEW first \in Nat, NEW roots, HashedFrom(Half, first, roots),
         first + Len(roots) <= Width
  PROVE  LET top == NewTopTree(rng, first, roots)
         IN  /\ Holds(top.layers[1], Half, first, roots)
             /\ \A k \in 1..Len(roots) : Leads(top, Half, first + k - 1, roots[k])
             /\ OnlyFrom(top, first..first + Len(roots) - 1)
<1> DEFINE top    == NewTopTree(rng, first, roots)
           layers == top.layers
<1>0. IsSeq(roots) /\ Len(roots) > 0 /\ Len(roots) \in Nat
  BY SeqFunction DEF HashedFrom
<1>1. /\ IsSeq(layers) /\ Len(layers) = Half + 1
      /\ layers[1] = Padded(rng, Half, roots, first)
      /\ Ladder(layers, Half, first)
  <2>1. Half \in 0..Depth - 1 /\ Depth + 1 - Half = Half + 1 BY Halves
  <2> QED BY <1>0, <2>1, SubtreeLayers DEF NewTopTree
<1> HIDE DEF top
<1>2. Holds(layers[1], Half, first, roots) BY <1>1, LowestLayer
<1>3. Width \in Nat \ {0} BY WidthEven
<1>4. Root(top) = At(layers[Half + 1], 0) /\ 0 \in Places(layers[Half + 1])
  <2>1. layers[Half + 1].start_index = 0
    <3>1. Half + 1 \in 1..Half + 1 /\ (Half + 1) - 1 = Half BY Halves
    <3>2. layers[Half + 1].start_index = 2 * ((first \div Width) \div 2)
      BY <1>1, <3>1 DEF Ladder, Width
    <3>3. first \div Width = 0
      <4>1. 0 * Width <= first /\ first < 0 * Width + Width BY <1>0, <1>3
      <4> QED BY <1>3, <4>1, Quotient
    <3> QED BY <3>2, <3>3
  <2>2. Last(layers) = layers[Half + 1] BY <1>1 DEF Last
  <2>3. 0 \in Places(layers[Half + 1])
    <3>1. Half + 1 \in 1..Half + 1 BY Halves
    <3>2. IsSeq(layers[Half + 1].nodes) /\ Len(layers[Half + 1].nodes) > 0
      BY <1>1, <3>1 DEF Ladder, Paired
    <3>3. Len(layers[Half + 1].nodes) \in Nat BY <3>2, SeqFunction
    <3> QED BY <2>1, <3>2, <3>3 DEF Places
  <2> QED BY <2>1, <2>2, <2>3 DEF Root, At
<1>5. ASSUME NEW k \in 1..Len(roots)
      PROVE  Leads(top, Half, first + k - 1, roots[k])
  <2> DEFINE position == first + k - 1
             path     == Path(top, position)
             value    == [l \in 0..Len(layers) - 1 |-> At(layers[l + 1], position \div 2^l)]
  <2>1. position \in Nat /\ 0 * Width <= position /\ position < 0 * Width + Width
    BY <1>0, <1>3
  <2>2. position \div Width = 0
    <3> HIDE DEF position
    <3> QED BY <1>3, <2>1, Quotient
  <2>3. position \in Places(layers[1]) /\ At(layers[1], position) = roots[k]
    BY <1>2 DEF Holds
  <2>4. IsHashed(Half, position, At(layers[1], position)) BY <2>3 DEF HashedFrom
  <2>5. Tweaked(Half, layers[1]) BY <1>2 DEF Holds
  <2>6. /\ IsSeq(path) /\ Len(path) = Half
        /\ \A l \in 1..Half : path[l] = At(layers[l], Sibling(position \div 2^(l - 1)))
    <3>0. Len(layers) = Half + 1 BY <1>1
    <3>1. Len(layers) \in Nat \ {0} /\ Len(layers) - 1 = Half BY <3>0, Halves
    <3> HIDE DEF position
    <3> QED BY <3>1, PathProperties
  <2> HIDE DEF position, path
  <2>7. Climbs(value, path, Half, position)
    <3>1. /\ Half \in Nat /\ Len(layers) \in 2..33
          /\ Len(path) \in 1..Len(layers) - 1
      <4>1. Len(layers) = Half + 1 /\ Len(path) = Half BY <1>1, <2>6
      <4> QED BY <4>1, Halves
    <3>2. \A l \in 1..Len(path) : path[l] = At(layers[l], Sibling(position \div 2^(l - 1)))
      BY <2>6
    <3> QED BY <1>1, <2>3, <2>4, <2>5, <3>1, <3>2, LadderClimbs
  <2>8. value[0] = roots[k] /\ value[Half] = Root(top)
    <3>1. 0 \in 0..Len(layers) - 1 /\ Half \in 0..Len(layers) - 1
      <4>1. Len(layers) = Half + 1 BY <1>1
      <4> QED BY <4>1, Halves
    <3>2. position \div 2^0 = position
      <4>1. 2^0 = 1 OBVIOUS
      <4> QED BY <2>1, <4>1
    <3>3. value[0] = At(layers[1], position) BY <3>1, <3>2
    <3>4. value[Half] = At(layers[Half + 1], 0) BY <2>2, <3>1 DEF Width
    <3> QED BY <1>4, <2>3, <3>3, <3>4
  <2>9. InLowestLayer(top, position) BY <2>3 DEF InLowestLayer, Places
  <2> HIDE DEF value
  <2>10. \E v : v[0] = roots[k] /\ v[Half] = Root(top) /\ Climbs(v, path, Half, position)
    BY <2>7, <2>8
  <2> QED BY <2>6, <2>9, <2>10 DEF Leads, position, path
<1>6. ASSUME NEW position \in 0..Width - 1, NEW node, NEW path, Len(path) = Half,
             Hashes(node, path, Half, position), IsHashed(Half, position, node[0]),
             node[Half] = Root(top)
      PROVE  position \in first..first + Len(roots) - 1
  <2>1. position \in Nat /\ 0 * Width <= position /\ position < 0 * Width + Width
    BY <1>3
  <2>2. position \div 2^Half = 0 BY <1>3, <2>1, Quotient DEF Width
  <2>3. Len(layers) = Half + 1 /\ Half + 1 \in 2..33 /\ (Half + 1) - 1 = Half /\ Half \in Nat
    BY <1>1, Halves
  <2>4. position \in Places(layers[1]) /\ node[0] = At(layers[1], position)
    <3> DEFINE rungs == layers
    <3>1. /\ Ladder(rungs, Half, first) /\ Len(rungs) \in 2..33
          /\ Len(path) = Len(rungs) - 1 /\ rungs[Len(rungs)] = layers[Half + 1]
      BY <1>1, <1>6, <2>3
    <3>2. /\ position \div 2^Len(path) \in Places(rungs[Len(rungs)])
          /\ node[Len(path)] = At(rungs[Len(rungs)], position \div 2^Len(path))
      BY <1>4, <1>6, <2>2, <3>1
    <3> HIDE DEF rungs
    <3>3. position \in Places(rungs[1]) /\ node[0] = At(rungs[1], position)
      BY <1>6, <2>1, <2>3, <3>1, <3>2, LadderDescends
    <3> QED BY <3>3 DEF rungs
  <2> QED BY <1>2, <1>6, <2>4 DEF Holds
<1>7. OnlyFrom(top, first..first + Len(roots) - 1) BY <1>6 DEF OnlyFrom
<1> QED BY <1>2, <1>5, <1>7 DEF top

(* Dividing by two powers of two, one after the other.                        *)
LEMMA DivDiv ==
  ASSUME NEW x \in Nat, NEW a \in 0..32, NEW b \in 0..32, a + b <= 32
  PROVE  x \div 2^(a + b) = (x \div 2^a) \div 2^b
<1> DEFINE y == x \div 2^a
           S == {n \in Nat : a + n <= 32 => x \div 2^(a + n) = y \div 2^n}
<1>1. y \in Nat
  <2>1. 2^a \in Nat \ {0} BY Powers
  <2>2. ASSUME NEW q \in Nat \ {0} PROVE x \div q \in Nat
    <3>1. x \div q \in Int /\ (x \div q) * q + q > x BY Quotient
    <3> DEFINE z == x \div q
    <3> HIDE DEF z
    <3>2. z \in Int /\ z * q + q > 0 BY <3>1 DEF z
    <3>3. SUFFICES ASSUME z + 1 <= 0 PROVE FALSE BY <3>2 DEF z
    <3>4. (z + 1) * q <= 0 * q BY <3>2, <3>3
    <3>5. (z + 1) * q = z * q + q BY <3>2
    <3> QED BY <3>2, <3>4, <3>5
  <2> QED BY <2>1, <2>2
<1> HIDE DEF y
<1>2. 0 \in S
  <2>1. 2^0 = 1 OBVIOUS
  <2>2. y \div 2^0 = y BY <1>1, <2>1
  <2>3. a + 0 = a OBVIOUS
  <2> QED BY <2>2, <2>3 DEF y
<1>3. ASSUME NEW n \in S PROVE n + 1 \in S
  <2>1. n \in Nat OBVIOUS
  <2> SUFFICES ASSUME a + (n + 1) <= 32
               PROVE  x \div 2^(a + (n + 1)) = y \div 2^(n + 1)
    BY <2>1
  <2>2. a + n \in 0..31 /\ n \in 0..31 /\ a + (n + 1) = (a + n) + 1 BY <2>1
  <2>3. x \div 2^((a + n) + 1) = (x \div 2^(a + n)) \div 2 BY <2>2, Halving
  <2>4. y \div 2^(n + 1) = (y \div 2^n) \div 2 BY <1>1, <2>2, Halving
  <2>5. x \div 2^(a + n) = y \div 2^n BY <1>3, <2>2
  <2> QED BY <2>2, <2>3, <2>4, <2>5
<1>4. b \in S
  <2> HIDE DEF S
  <2>1. S \in SUBSET Nat BY DEF S
  <2>2. b \in Nat OBVIOUS
  <2> QED BY <1>2, <1>3, <2>1, <2>2, Induction
<1> QED BY <1>4 DEF y

(* The two paths one after the other lead from a leaf of the bottom tree to   *)
(* the root of the top tree.                                                  *)
LEMMA CombinedLeads ==
  ASSUME NEW top, NEW bottom, NEW position \in Nat, NEW node,
         Leads(bottom, 0, position, node),
         BottomTreeIndex(bottom) = position \div Width,
         Leads(top, Half, position \div Width, Root(bottom))
  PROVE  LET path == CombinedPath(top, bottom, position)
         IN  /\ IsSeq(path) /\ Len(path) = Depth
             /\ \A l \in 1..Half : path[l] = Path(bottom, position)[l]
             /\ \E value : /\ value[0] = node /\ value[Depth] = Root(top)
                           /\ Climbs(value, path, 0, position)
<1> DEFINE t == position \div Width
           p == Path(bottom, position)
           q == Path(top, t)
<1>1. CombinedPath(top, bottom, position) = p \o q BY DEF CombinedPath
<1>2. PICK v : /\ IsSeq(p) /\ Len(p) = Half
               /\ v[0] = node /\ v[Half] = Root(bottom) /\ Climbs(v, p, 0, position)
  BY DEF Leads
<1>3. PICK w : /\ IsSeq(q) /\ Len(q) = Half
               /\ w[0] = Root(bottom) /\ w[Half] = Root(top) /\ Climbs(w, q, Half, t)
  BY DEF Leads
<1> HIDE DEF p, q
<1> DEFINE path  == p \o q
           value == [l \in 0..Depth |-> IF l <= Half THEN v[l] ELSE w[l - Half]]
<1>4. /\ IsSeq(path) /\ Len(path) = Half + Half
      /\ \A l \in 1..Half : path[l] = p[l]
      /\ \A l \in 1..Half : path[Half + l] = q[l]
  BY <1>2, <1>3, SeqConcat
<1> HIDE DEF path
<1>5. Len(path) = Depth BY <1>4, Halves
<1>6. value[0] = node /\ value[Depth] = Root(top)
  <2>1. /\ 0 \in 0..Depth /\ 0 <= Half /\ Depth \in 0..Depth
        /\ ~(Depth <= Half) /\ Depth - Half = Half
    BY Halves
  <2> QED BY <1>2, <1>3, <2>1
<1>7. \A l \in 0..Half : value[l] = v[l] /\ value[Half + l] = w[l]
  <2> TAKE l \in 0..Half
  <2>1. l \in 0..Depth /\ l <= Half /\ Half + l \in 0..Depth /\ (Half + l) - Half = l
    BY Halves
  <2>2. Half + l <= Half => l = 0 BY Halves
  <2> QED BY <1>2, <1>3, <2>1, <2>2
<1> HIDE DEF value
<1>8. ASSUME NEW l \in 1..Len(path)
      PROVE  LET child == position \div 2^(l - 1)
             IN  /\ value[l] = Apply(TreeTweak(0 + l, child \div 2),
                                     IF child % 2 = 0 THEN <<value[l - 1], path[l]>>
                                     ELSE <<path[l], value[l - 1]>>)
                 /\ value[l - 1] # path[l]
  <2>1. CASE l <= Half
    <3>1. l \in 1..Half /\ l \in 0..Half /\ l - 1 \in 0..Half BY <2>1, Halves
    <3>2. value[l] = v[l] /\ value[l - 1] = v[l - 1] /\ path[l] = p[l]
      BY <1>4, <1>7, <3>1
    <3> QED BY <1>2, <3>1, <3>2 DEF Climbs
  <2>2. CASE ~(l <= Half)
    <3> DEFINE m == l - Half
    <3>1. /\ m \in 1..Half /\ m \in 0..Half /\ m - 1 \in 0..Half
          /\ Half + m = l /\ Half + (m - 1) = l - 1 /\ 0 + l = l
          /\ m - 1 \in 0..32 /\ Half \in 0..32 /\ Half + (m - 1) <= 32
      BY <1>5, <2>2, Halves
    <3> HIDE DEF m
    <3>2. value[l] = w[m] /\ value[l - 1] = w[m - 1] /\ path[l] = q[m]
      BY <1>4, <1>7, <3>1
    <3>3. position \div 2^(l - 1) = t \div 2^(m - 1) BY <3>1, DivDiv DEF Width
    <3>4. LET child == t \div 2^(m - 1)
          IN  /\ w[m] = Apply(TreeTweak(Half + m, child \div 2),
                              IF child % 2 = 0 THEN <<w[m - 1], q[m]>>
                              ELSE <<q[m], w[m - 1]>>)
              /\ w[m - 1] # q[m]
      BY <1>3, <3>1 DEF Climbs
    <3> HIDE DEF t
    <3> QED BY <3>1, <3>2, <3>3, <3>4
  <2> QED BY <2>1, <2>2
<1>9. Climbs(value, path, 0, position) BY <1>8 DEF Climbs
<1>10. \E x : x[0] = node /\ x[Depth] = Root(top) /\ Climbs(x, path, 0, position)
  BY <1>6, <1>9
<1> QED BY <1>1, <1>4, <1>5, <1>10 DEF path, p

-------------------------------------------------------------------------------
(* The recursion of hash_tree_verify, up to a level.                          *)
Climbed(node, position, leaf, co_path, top) ==
  node = [l \in 0..top |->
            IF l = 0 THEN Apply(TreeTweak(0, position), leaf)
            ELSE LET child == position \div 2^(l - 1)
                 IN  Apply(TreeTweak(l, child \div 2),
                           IF child % 2 = 0 THEN <<node[l - 1], co_path[l]>>
                           ELSE <<co_path[l], node[l - 1]>>)]

LEMMA ClimbedExists ==
  ASSUME NEW position, NEW leaf, NEW co_path, NEW depth \in Nat
  PROVE  \E node : Climbed(node, position, leaf, co_path, depth)
<1> DEFINE S == {n \in Nat : \E node : Climbed(node, position, leaf, co_path, n)}
           Up(l, below) == LET child == position \div 2^(l - 1)
                           IN  Apply(TreeTweak(l, child \div 2),
                                     IF child % 2 = 0 THEN <<below, co_path[l]>>
                                     ELSE <<co_path[l], below>>)
<1>0. \A node, n : Climbed(node, position, leaf, co_path, n) <=>
        node = [l \in 0..n |-> IF l = 0 THEN Apply(TreeTweak(0, position), leaf)
                               ELSE Up(l, node[l - 1])]
  BY DEF Climbed
<1> HIDE DEF Up
<1>1. 0 \in S
  <2> DEFINE f == [l \in 0..0 |-> Apply(TreeTweak(0, position), leaf)]
  <2>1. f = [l \in 0..0 |-> IF l = 0 THEN Apply(TreeTweak(0, position), leaf)
                            ELSE Up(l, f[l - 1])]
    OBVIOUS
  <2> QED BY <1>0, <2>1
<1>2. ASSUME NEW n \in S PROVE n + 1 \in S
  <2>1. PICK f : Climbed(f, position, leaf, co_path, n) BY <1>2
  <2>2. n \in Nat OBVIOUS
  <2> DEFINE g == [l \in 0..n + 1 |-> IF l = n + 1 THEN Up(l, f[l - 1]) ELSE f[l]]
  <2>3. ASSUME NEW l \in 0..n + 1
        PROVE  g[l] = IF l = 0 THEN Apply(TreeTweak(0, position), leaf)
                      ELSE Up(l, g[l - 1])
    <3>1. l # 0 => l - 1 \in 0..n + 1 /\ l - 1 # n + 1 BY <2>2
    <3>2. l # 0 => g[l - 1] = f[l - 1] BY <3>1
    <3>3. CASE l = n + 1 BY <2>2, <3>2, <3>3
    <3>4. CASE l # n + 1
      <4>1. l \in 0..n BY <2>2, <3>4
      <4>2. f[l] = IF l = 0 THEN Apply(TreeTweak(0, position), leaf) ELSE Up(l, f[l - 1])
        BY <1>0, <2>1, <4>1
      <4> QED BY <3>2, <3>4, <4>2
    <3> QED BY <3>3, <3>4
  <2>4. g = [l \in 0..n + 1 |-> g[l]] OBVIOUS
  <2> HIDE DEF g
  <2>5. g = [l \in 0..n + 1 |-> IF l = 0 THEN Apply(TreeTweak(0, position), leaf)
                                ELSE Up(l, g[l - 1])]
    BY <2>3, <2>4
  <2>6. Climbed(g, position, leaf, co_path, n + 1) BY <1>0, <2>5
  <2> QED BY <2>2, <2>6
<1>3. depth \in S
  <2> HIDE DEF S
  <2>1. S \in SUBSET Nat BY DEF S
  <2> QED BY <1>1, <1>2, <2>1, Induction
<1> QED BY <1>3

(* Verification is a climb that ends in the root.                             *)
LEMMA VerifyClimbs ==
  ASSUME NEW apex, NEW position, NEW leaf, NEW co_path, Len(co_path) \in 0..32
  PROVE  \E node : /\ Climbed(node, position, leaf, co_path, Len(co_path))
                   /\ HashTreeVerify(apex, position, leaf, co_path) <=>
                        position < 2^Len(co_path) /\ node[Len(co_path)] = apex
<1>1. Len(co_path) \in Nat /\ Len(co_path) <= 32
  <2>1. \A d \in 0..32 : d \in Nat /\ d <= 32 OBVIOUS
  <2> QED BY <2>1
<1> DEFINE node == CHOOSE f : Climbed(f, position, leaf, co_path, Len(co_path))
<1>2. Climbed(node, position, leaf, co_path, Len(co_path)) BY <1>1, ClimbedExists
<1>3. HashTreeVerify(apex, position, leaf, co_path) <=>
        Len(co_path) <= 32 /\ position < 2^Len(co_path) /\ node[Len(co_path)] = apex
  BY DEF HashTreeVerify, Climbed
<1> HIDE DEF node
<1> QED BY <1>1, <1>2, <1>3

LEMMA VerifiedLength ==
  ASSUME NEW apex, NEW position, NEW leaf, NEW co_path,
         HashTreeVerify(apex, position, leaf, co_path)
  PROVE  Len(co_path) <= 32
<1> DEFINE node == CHOOSE f : Climbed(f, position, leaf, co_path, Len(co_path))
<1>1. HashTreeVerify(apex, position, leaf, co_path) <=>
        Len(co_path) <= 32 /\ position < 2^Len(co_path) /\ node[Len(co_path)] = apex
  BY DEF HashTreeVerify, Climbed
<1> HIDE DEF node
<1> QED BY <1>1

(* A path leads from a leaf at a position to a root.                          *)
PathFrom(path, position, leaf, public) ==
  /\ Len(path) \in 1..32 /\ position \in Nat /\ position < 2^Len(path)
  /\ \E value : /\ value[0] = Apply(TreeTweak(0, position), leaf)
                /\ value[Len(path)] = public
                /\ Climbs(value, path, 0, position)

(* hash_tree_verify: a path that leads from a leaf to the root verifies for   *)
(* that leaf at that position, and for no other leaf and no other position:   *)
(* the two would have to meet, and below the place where they do a node would *)
(* be its own sibling.                                                        *)
THEOREM PathVerifiesOnly ==
  ASSUME NEW path, NEW position, NEW leaf, NEW public,
         PathFrom(path, position, leaf, public), NEW e \in Nat, NEW other
  PROVE  HashTreeVerify(public, e, other, path) <=> e = position /\ other = leaf
<1> SUFFICES ASSUME Len(path) \in 1..32, position \in Nat, position < 2^Len(path),
                    NEW value, value[0] = Apply(TreeTweak(0, position), leaf),
                    value[Len(path)] = public, Climbs(value, path, 0, position)
             PROVE  HashTreeVerify(value[Len(path)], e, other, path) <=>
                      e = position /\ other = leaf
  BY DEF PathFrom
<1>0. \A m \in 1..32 : m \in Nat /\ m > 0 /\ m \in 0..32 OBVIOUS
<1>1. Len(path) \in Nat /\ Len(path) \in 0..32 /\ Len(path) > 0 BY <1>0
<1>9. \A l \in 1..Len(path) : l - 1 \in 0..31 /\ (l - 1) + 1 = l
  <2>1. \A m \in 1..32 : \A l \in 1..m : l - 1 \in 0..31 /\ (l - 1) + 1 = l OBVIOUS
  <2> QED BY <2>1
<1> DEFINE d == Len(path)
<1>2. 2^d \in Nat \ {0} BY <1>1, Powers
<1>3. PICK node : /\ Climbed(node, e, other, path, d)
                  /\ HashTreeVerify(value[d], e, other, path) <=>
                       e < 2^d /\ node[d] = value[d]
  BY <1>1, VerifyClimbs
<1> HIDE DEF d
<1>4. node[0] = Apply(TreeTweak(0, e), other)
  <2>1. 0 \in 0..d BY <1>1 DEF d
  <2> QED BY <1>3, <2>1 DEF Climbed
<1> DEFINE Up(l, child, below) == Apply(TreeTweak(l, child \div 2),
                                        IF child % 2 = 0 THEN <<below, path[l]>>
                                        ELSE <<path[l], below>>)
<1>5. ASSUME NEW l \in 1..d
      PROVE  node[l] = Up(l, e \div 2^(l - 1), node[l - 1])
  <2>1. l \in 0..d /\ l # 0 BY <1>1 DEF d
  <2> QED BY <1>3, <2>1 DEF Climbed
<1>6. ASSUME NEW l \in 1..d
      PROVE  /\ value[l] = Up(l, position \div 2^(l - 1), value[l - 1])
             /\ value[l - 1] # path[l]
  <2>1. 0 + l = l /\ l \in 1..Len(path) BY DEF d
  <2> QED BY <2>1 DEF Climbs
<1> HIDE DEF Up
<1>7. ASSUME e = position, other = leaf
      PROVE  HashTreeVerify(value[d], e, other, path)
  <2> DEFINE S == {n \in Nat : n <= d => node[n] = value[n]}
  <2>1. 0 \in S BY <1>4, <1>7
  <2>2. ASSUME NEW n \in S PROVE n + 1 \in S
    <3>1. n \in Nat OBVIOUS
    <3> SUFFICES ASSUME n + 1 <= d PROVE node[n + 1] = value[n + 1] BY <3>1
    <3>2. n + 1 \in 1..d /\ (n + 1) - 1 = n /\ n <= d BY <1>1, <3>1 DEF d
    <3>3. node[n] = value[n] BY <2>2, <3>2
    <3>4. /\ node[n + 1] = Up(n + 1, e \div 2^n, node[n])
          /\ value[n + 1] = Up(n + 1, position \div 2^n, value[n])
      BY <1>5, <1>6, <3>2
    <3> QED BY <1>7, <3>3, <3>4
  <2>3. d \in S
    <3> HIDE DEF S
    <3>1. S \in SUBSET Nat BY DEF S
    <3>2. d \in Nat BY <1>1 DEF d
    <3> QED BY <2>1, <2>2, <3>1, <3>2, Induction
  <2>4. node[d] = value[d]
    <3>1. d <= d BY <1>1 DEF d
    <3> QED BY <2>3, <3>1
  <2> QED BY <1>3, <1>7, <2>4 DEF d
<1>8. ASSUME HashTreeVerify(value[d], e, other, path)
      PROVE  e = position /\ other = leaf
  <2> DEFINE Met(l) == node[l] = value[l] /\ e \div 2^l = position \div 2^l
             S == {n \in Nat : n <= d => Met(d - n)}
  <2>1. e < 2^d /\ node[d] = value[d] BY <1>3, <1>8
  <2>2. Met(d)
    <3> DEFINE q == 2^d
    <3>1. q \in Nat \ {0} /\ e < q /\ position < q BY <1>2, <2>1 DEF d
    <3> HIDE DEF q
    <3>2. 0 * q <= e /\ e < 0 * q + q /\ 0 * q <= position /\ position < 0 * q + q
      BY <3>1
    <3>3. e \div q = 0 /\ position \div q = 0 BY <3>1, <3>2, Quotient
    <3> QED BY <2>1, <3>3 DEF q
  <2>3. ASSUME NEW l \in 1..d, Met(l) PROVE Met(l - 1)
    <3> DEFINE a == e \div 2^(l - 1)
               b == position \div 2^(l - 1)
    <3>1. a \in Nat /\ b \in Nat /\ e \div 2^l = a \div 2 /\ position \div 2^l = b \div 2
      <4>1. l - 1 \in 0..31 /\ (l - 1) + 1 = l BY <1>9 DEF d
      <4> QED BY <4>1, Halving
    <3>2. node[l] = Up(l, a, node[l - 1]) /\ value[l] = Up(l, b, value[l - 1])
      BY <1>5, <1>6
    <3> HIDE DEF a, b
    <3>3. a \div 2 = b \div 2 BY <2>3, <3>1
    <3>4. (IF a % 2 = 0 THEN <<node[l - 1], path[l]>> ELSE <<path[l], node[l - 1]>>) =
            (IF b % 2 = 0 THEN <<value[l - 1], path[l]>> ELSE <<path[l], value[l - 1]>>)
      <4>1. Up(l, a, node[l - 1]) = Up(l, b, value[l - 1]) BY <2>3, <3>2
      <4> QED BY <4>1, ApplyInjective DEF Up
    <3>5. a % 2 = 0 <=> b % 2 = 0 BY <1>6, <3>4
    <3>6. node[l - 1] = value[l - 1] BY <3>4, <3>5
    <3>7. a = b BY <3>1, <3>3, <3>5
    <3> QED BY <3>6, <3>7 DEF a, b
  <2>4. 0 \in S
    <3>1. d - 0 = d BY <1>1 DEF d
    <3> QED BY <2>2, <3>1
  <2> HIDE DEF Met
  <2>5. ASSUME NEW n \in S PROVE n + 1 \in S
    <3>1. n \in Nat OBVIOUS
    <3> SUFFICES ASSUME n + 1 <= d PROVE Met(d - (n + 1)) BY <3>1
    <3>2. d - n \in 1..d /\ (d - n) - 1 = d - (n + 1) /\ n <= d BY <1>1, <3>1 DEF d
    <3>3. Met(d - n) BY <2>5, <3>2
    <3> QED BY <2>3, <3>2, <3>3
  <2>6. d \in S
    <3> HIDE DEF S
    <3>1. S \in SUBSET Nat BY DEF S
    <3>2. d \in Nat BY <1>1 DEF d
    <3> QED BY <2>4, <2>5, <3>1, <3>2, Induction
  <2>7. Met(0)
    <3>1. d <= d /\ d - d = 0 BY <1>1 DEF d
    <3> QED BY <2>6, <3>1
  <2>8. e = position
    <3>1. 2^0 = 1 OBVIOUS
    <3> QED BY <2>7, <3>1 DEF Met
  <2>9. Apply(TreeTweak(0, e), other) = Apply(TreeTweak(0, position), leaf)
    BY <1>4, <2>7 DEF Met
  <2> QED BY <2>8, <2>9, ApplyInjective
<1> QED BY <1>7, <1>8 DEF d

-------------------------------------------------------------------------------
(* Verification seen as such a climb.                                          *)
LEMMA VerifyHashes ==
  ASSUME NEW public, NEW e \in Nat, NEW leaf, NEW path, Len(path) \in 0..32
  PROVE  \E node : /\ node[0] = Apply(TreeTweak(0, e), leaf)
                   /\ Hashes(node, path, 0, e)
                   /\ HashTreeVerify(public, e, leaf, path) <=>
                        e < 2^Len(path) /\ node[Len(path)] = public
<1> DEFINE d == Len(path)
<1>1. d \in 0..32 /\ d \in Nat
  <2>1. \A n \in 0..32 : n \in Nat OBVIOUS
  <2> QED BY <2>1
<1>2. PICK node : /\ Climbed(node, e, leaf, path, d)
                  /\ HashTreeVerify(public, e, leaf, path) <=>
                       e < 2^d /\ node[d] = public
  BY VerifyClimbs
<1> HIDE DEF d
<1>3. node[0] = Apply(TreeTweak(0, e), leaf)
  <2>1. 0 \in 0..d BY <1>1
  <2> QED BY <1>2, <2>1 DEF Climbed
<1>4. ASSUME NEW l \in 1..d
      PROVE  LET child == e \div 2^(l - 1)
             IN  node[l] = Apply(TreeTweak(0 + l, child \div 2),
                                 IF child % 2 = 0 THEN <<node[l - 1], path[l]>>
                                 ELSE <<path[l], node[l - 1]>>)
  <2>1. l \in 0..d /\ l # 0 /\ 0 + l = l BY <1>1
  <2> QED BY <1>2, <2>1 DEF Climbed
<1>5. Hashes(node, path, 0, e) BY <1>4 DEF Hashes, d
<1> QED BY <1>2, <1>3, <1>5 DEF d

(* The other way round: a path that verifies for a position that a path leads *)
(* from to the root is that path. The tweak of the root tells how long it is, *)
(* and every node on the way down which value it was hashed with.             *)
THEOREM OnePathVerifies ==
  ASSUME NEW path, NEW position, NEW leaf, NEW public, IsSeq(path),
         PathFrom(path, position, leaf, public),
         NEW other, NEW co, IsSeq(co), HashTreeVerify(public, position, other, co)
  PROVE  co = path /\ other = leaf
<1> SUFFICES ASSUME Len(path) \in 1..32, position \in Nat, position < 2^Len(path),
                    NEW value, value[0] = Apply(TreeTweak(0, position), leaf),
                    value[Len(path)] = public, Climbs(value, path, 0, position)
             PROVE  co = path /\ other = leaf
  BY DEF PathFrom
<1> DEFINE d == Len(path)
           n == Len(co)
<1>1. d \in Nat /\ d > 0 /\ d \in 0..32
  <2>1. \A m \in 1..32 : m \in Nat /\ m > 0 /\ m \in 0..32 OBVIOUS
  <2> QED BY <2>1
<1>2. n \in Nat /\ n \in 0..32
  <2>1. n \in Nat BY SeqFunction
  <2>2. n <= 32 BY VerifiedLength
  <2> HIDE DEF n
  <2> QED BY <2>1, <2>2
<1>3. PICK node : /\ node[0] = Apply(TreeTweak(0, position), other)
                  /\ Hashes(node, co, 0, position) /\ node[n] = public
  BY <1>2, VerifyHashes
<1> HIDE DEF d, n
<1> DEFINE Up(l, child, below, beside) ==
             Apply(TreeTweak(l, child \div 2),
                   IF child % 2 = 0 THEN <<below, beside>> ELSE <<beside, below>>)
<1>4. ASSUME NEW l \in 1..n
      PROVE  node[l] = Up(l, position \div 2^(l - 1), node[l - 1], co[l])
  <2>1. 0 + l = l /\ l \in 1..Len(co) BY <1>2 DEF n
  <2> QED BY <1>3, <2>1 DEF Hashes
<1>5. ASSUME NEW l \in 1..d
      PROVE  value[l] = Up(l, position \div 2^(l - 1), value[l - 1], path[l])
  <2>1. 0 + l = l /\ l \in 1..Len(path) BY <1>1 DEF d
  <2> QED BY <2>1 DEF Climbs
<1>6. n = d
  <2>1. \E x, q : node[n] = Apply(TreeTweak(n, q), x)
    <3>1. CASE n = 0 BY <1>3, <3>1
    <3>2. CASE n # 0
      <4>1. n \in 1..n BY <1>2, <3>2
      <4> QED BY <1>4, <4>1
    <3> QED BY <3>1, <3>2
  <2>2. \E x, q : value[d] = Apply(TreeTweak(d, q), x)
    <3>1. d \in 1..d BY <1>1
    <3> QED BY <1>5, <3>1
  <2>3. node[n] = value[d] BY <1>3 DEF d
  <2>4. PICK x, q, y, r : Apply(TreeTweak(n, q), x) = Apply(TreeTweak(d, r), y)
    BY <2>1, <2>2, <2>3
  <2>5. TreeTweak(n, q) = TreeTweak(d, r) BY <2>4, ApplyInjective
  <2> QED BY <2>5, TweakInjective
<1>7. ASSUME NEW l \in 1..d, node[l] = value[l]
      PROVE  node[l - 1] = value[l - 1] /\ co[l] = path[l]
  <2> DEFINE a == position \div 2^(l - 1)
  <2>1. Up(l, a, node[l - 1], co[l]) = Up(l, a, value[l - 1], path[l])
    BY <1>4, <1>5, <1>6, <1>7
  <2> HIDE DEF a
  <2>2. (IF a % 2 = 0 THEN <<node[l - 1], co[l]>> ELSE <<co[l], node[l - 1]>>) =
          (IF a % 2 = 0 THEN <<value[l - 1], path[l]>> ELSE <<path[l], value[l - 1]>>)
    BY <2>1, ApplyInjective
  <2> QED BY <2>2
<1> HIDE DEF Up
<1> DEFINE Met(l) == node[l] = value[l]
           S == {m \in Nat : m <= d => Met(d - m)}
<1>8. 0 \in S
  <2>1. d - 0 = d BY <1>1
  <2> QED BY <1>3, <1>6, <2>1 DEF d
<1>9. \A l \in 1..d : Met(l) => Met(l - 1) BY <1>7
<1> HIDE DEF Met
<1>10. ASSUME NEW m \in S PROVE m + 1 \in S
  <2>1. m \in Nat OBVIOUS
  <2> SUFFICES ASSUME m + 1 <= d PROVE Met(d - (m + 1)) BY <2>1
  <2>2. d - m \in 1..d /\ (d - m) - 1 = d - (m + 1) /\ m <= d BY <1>1, <2>1
  <2>3. Met(d - m) BY <1>10, <2>2
  <2> QED BY <1>9, <2>2, <2>3
<1>11. S = Nat
  <2> HIDE DEF S
  <2>1. S \in SUBSET Nat BY DEF S
  <2> QED BY <1>8, <1>10, <2>1, Induction
<1>12. \A l \in 0..d : Met(l)
  <2> TAKE l \in 0..d
  <2>1. d - l \in Nat /\ d - l <= d /\ d - (d - l) = l BY <1>1
  <2>2. d - l \in S
    <3> HIDE DEF S
    <3> QED BY <1>11, <2>1
  <2> QED BY <2>1, <2>2
<1>13. other = leaf
  <2>1. node[0] = value[0]
    <3>1. 0 \in 0..d BY <1>1
    <3> QED BY <1>12, <3>1 DEF Met
  <2> QED BY <1>3, <2>1, ApplyInjective
<1>14. co = path
  <2>1. \A l \in 1..d : co[l] = path[l]
    <3> TAKE l \in 1..d
    <3>1. l \in 0..d BY <1>1
    <3> QED BY <1>7, <1>12, <3>1 DEF Met
  <2>2. co = [l \in 1..d |-> co[l]] /\ path = [l \in 1..d |-> path[l]]
    BY <1>6, SeqFunction DEF d, n
  <2> QED BY <2>1, <2>2
<1> QED BY <1>13, <1>14

-------------------------------------------------------------------------------
(* The recursion of a chain, up to a step.                                    *)
Walked(at, epoch, chain_index, from, start, steps) ==
  at = [j \in 0..steps |->
          IF j = 0 THEN start
          ELSE Apply(ChainTweak(epoch, chain_index, (from + j) % U8Range), <<at[j - 1]>>)]

LEMMA WalkedExists ==
  ASSUME NEW epoch, NEW chain_index, NEW from, NEW start, NEW steps \in Nat
  PROVE  \E at : Walked(at, epoch, chain_index, from, start, steps)
<1> DEFINE S == {n \in Nat : \E at : Walked(at, epoch, chain_index, from, start, n)}
           Step(j, x) == Apply(ChainTweak(epoch, chain_index, (from + j) % U8Range), <<x>>)
<1>0. \A at, n : Walked(at, epoch, chain_index, from, start, n) <=>
        at = [j \in 0..n |-> IF j = 0 THEN start ELSE Step(j, at[j - 1])]
  BY DEF Walked
<1> HIDE DEF Step
<1>1. 0 \in S
  <2> DEFINE f == [j \in 0..0 |-> start]
  <2>1. f = [j \in 0..0 |-> IF j = 0 THEN start ELSE Step(j, f[j - 1])] OBVIOUS
  <2> QED BY <1>0, <2>1
<1>2. ASSUME NEW n \in S PROVE n + 1 \in S
  <2>1. PICK f : Walked(f, epoch, chain_index, from, start, n) BY <1>2
  <2>2. n \in Nat OBVIOUS
  <2> DEFINE g == [j \in 0..n + 1 |-> IF j = n + 1 THEN Step(j, f[j - 1]) ELSE f[j]]
  <2>3. ASSUME NEW j \in 0..n + 1
        PROVE  g[j] = IF j = 0 THEN start ELSE Step(j, g[j - 1])
    <3>1. j # 0 => j - 1 \in 0..n + 1 /\ j - 1 # n + 1 BY <2>2
    <3>2. j # 0 => g[j - 1] = f[j - 1] BY <3>1
    <3>3. CASE j = n + 1 BY <2>2, <3>2, <3>3
    <3>4. CASE j # n + 1
      <4>1. j \in 0..n BY <2>2, <3>4
      <4>2. f[j] = IF j = 0 THEN start ELSE Step(j, f[j - 1]) BY <1>0, <2>1, <4>1
      <4> QED BY <3>2, <3>4, <4>2
    <3> QED BY <3>3, <3>4
  <2>4. g = [j \in 0..n + 1 |-> g[j]] OBVIOUS
  <2> HIDE DEF g
  <2>5. g = [j \in 0..n + 1 |-> IF j = 0 THEN start ELSE Step(j, g[j - 1])]
    BY <2>3, <2>4
  <2>6. Walked(g, epoch, chain_index, from, start, n + 1) BY <1>0, <2>5
  <2> QED BY <2>2, <2>6
<1>3. steps \in S
  <2> HIDE DEF S
  <2>1. S \in SUBSET Nat BY DEF S
  <2> QED BY <1>1, <1>2, <2>1, Induction
<1> QED BY <1>3

(* A walk is the same however far it goes on.                                 *)
LEMMA WalkedAlike ==
  ASSUME NEW epoch, NEW chain_index, NEW from, NEW start,
         NEW n \in Nat, NEW m \in Nat, NEW a, NEW b,
         Walked(a, epoch, chain_index, from, start, n),
         Walked(b, epoch, chain_index, from, start, m)
  PROVE  \A k \in Nat : k <= n /\ k <= m => a[k] = b[k]
<1> DEFINE S == {k \in Nat : k <= n /\ k <= m => a[k] = b[k]}
           Step(j, x) == Apply(ChainTweak(epoch, chain_index, (from + j) % U8Range), <<x>>)
<1>0. /\ a = [j \in 0..n |-> IF j = 0 THEN start ELSE Step(j, a[j - 1])]
      /\ b = [j \in 0..m |-> IF j = 0 THEN start ELSE Step(j, b[j - 1])]
  BY DEF Walked
<1> HIDE DEF Step
<1>1. 0 \in S
  <2>1. 0 \in 0..n /\ 0 \in 0..m OBVIOUS
  <2>2. a[0] = start /\ b[0] = start BY <1>0, <2>1
  <2> QED BY <2>2
<1>2. ASSUME NEW k \in S PROVE k + 1 \in S
  <2>1. k \in Nat OBVIOUS
  <2> SUFFICES ASSUME k + 1 <= n, k + 1 <= m PROVE a[k + 1] = b[k + 1] BY <2>1
  <2>2. /\ k + 1 \in 0..n /\ k + 1 \in 0..m /\ k + 1 # 0 /\ (k + 1) - 1 = k
        /\ k <= n /\ k <= m
    BY <2>1
  <2>3. a[k] = b[k] BY <1>2, <2>2
  <2>4. a[k + 1] = Step(k + 1, a[k]) /\ b[k + 1] = Step(k + 1, b[k]) BY <1>0, <2>2
  <2> QED BY <2>3, <2>4
<1>3. S = Nat
  <2> HIDE DEF S
  <2>1. S \in SUBSET Nat BY DEF S
  <2> QED BY <1>1, <1>2, <2>1, Induction
<1> QED BY <1>3

(* A chain that is walked no step is where it started; walked on by a step,   *)
(* it is hashed once more.                                                    *)
OneMoreStep(epoch, chain_index, from, start, n, m) ==
  Chain(epoch, chain_index, from, m, start) =
    Apply(ChainTweak(epoch, chain_index, (from + m) % U8Range),
          <<Chain(epoch, chain_index, from, n, start)>>)

LEMMA ChainSteps ==
  ASSUME NEW epoch, NEW chain_index, NEW from, NEW start
  PROVE  /\ Chain(epoch, chain_index, from, 0, start) = start
         /\ \A n \in Nat : OneMoreStep(epoch, chain_index, from, start, n, n + 1)
<1> DEFINE Walk(n) == CHOOSE at : Walked(at, epoch, chain_index, from, start, n)
<1>1. ASSUME NEW n \in Nat
      PROVE  /\ Walked(Walk(n), epoch, chain_index, from, start, n)
             /\ Chain(epoch, chain_index, from, n, start) = Walk(n)[n]
  <2>1. Walked(Walk(n), epoch, chain_index, from, start, n) BY WalkedExists
  <2>2. Chain(epoch, chain_index, from, n, start) = Walk(n)[n] BY DEF Chain, Walked
  <2> QED BY <2>1, <2>2
<1> HIDE DEF Walk
<1>2. Chain(epoch, chain_index, from, 0, start) = start
  <2>1. 0 \in 0..0 /\ 0 \in Nat OBVIOUS
  <2>2. Walked(Walk(0), epoch, chain_index, from, start, 0) BY <1>1, <2>1
  <2>3. Walk(0)[0] = start BY <2>1, <2>2 DEF Walked
  <2> QED BY <1>1, <2>1, <2>3
<1>3. ASSUME NEW n \in Nat
      PROVE  OneMoreStep(epoch, chain_index, from, start, n, n + 1)
  <2>1. n + 1 \in Nat /\ n + 1 \in 0..n + 1 /\ n + 1 # 0 /\ (n + 1) - 1 = n OBVIOUS
  <2>2. Walked(Walk(n + 1), epoch, chain_index, from, start, n + 1) BY <1>1, <2>1
  <2>3. Walk(n + 1)[n + 1] =
          Apply(ChainTweak(epoch, chain_index, (from + (n + 1)) % U8Range), <<Walk(n + 1)[n]>>)
    BY <2>1, <2>2 DEF Walked
  <2>4. Walk(n + 1)[n] = Walk(n)[n]
    <3>1. n <= n + 1 /\ n <= n OBVIOUS
    <3>2. Walked(Walk(n), epoch, chain_index, from, start, n) BY <1>1
    <3> QED BY <2>1, <2>2, <3>1, <3>2, WalkedAlike
  <2> QED BY <1>1, <2>1, <2>3, <2>4 DEF OneMoreStep
<1> QED BY <1>2, <1>3

(* A chain can be walked in two goes.                                         *)
LEMMA ChainSplit ==
  ASSUME NEW epoch, NEW chain_index, NEW from \in Nat, NEW start,
         NEW a \in Nat, NEW b \in Nat
  PROVE  Chain(epoch, chain_index, from, a + b, start) =
           Chain(epoch, chain_index, from + a, b,
                 Chain(epoch, chain_index, from, a, start))
<1> DEFINE mid == Chain(epoch, chain_index, from, a, start)
           S == {n \in Nat : Chain(epoch, chain_index, from, a + n, start) =
                               Chain(epoch, chain_index, from + a, n, mid)}
<1>1. 0 \in S
  <2>1. a + 0 = a OBVIOUS
  <2>2. Chain(epoch, chain_index, from + a, 0, mid) = mid BY ChainSteps
  <2> QED BY <2>1, <2>2
<1> HIDE DEF mid
<1>2. ASSUME NEW n \in S PROVE n + 1 \in S
  <2>1. n \in Nat /\ a + n \in Nat /\ a + (n + 1) = (a + n) + 1
        /\ from + ((a + n) + 1) = (from + a) + (n + 1)
    OBVIOUS
  <2> DEFINE m == n + 1
             g == a + n
             h == g + 1
  <2>2. m \in Nat /\ m = n + 1 /\ g \in Nat /\ h \in Nat /\ h = g + 1
        /\ a + m = h /\ from + h = (from + a) + m
    BY <2>1
  <2>3. Chain(epoch, chain_index, from, g, start) = Chain(epoch, chain_index, from + a, n, mid)
    BY <1>2
  <2> HIDE DEF m, g, h
  <2>4. OneMoreStep(epoch, chain_index, from, start, g, h)
    BY <2>2, ChainSteps
  <2>5. OneMoreStep(epoch, chain_index, from + a, mid, n, m)
    BY <2>1, <2>2, ChainSteps
  <2>6. Chain(epoch, chain_index, from, a + m, start) =
          Chain(epoch, chain_index, from + a, m, mid)
    BY <2>2, <2>3, <2>4, <2>5 DEF OneMoreStep
  <2> QED BY <2>2, <2>6 DEF m
<1>3. b \in S
  <2> HIDE DEF S
  <2>1. S \in SUBSET Nat BY DEF S
  <2> QED BY <1>1, <1>2, <2>1, Induction
<1> QED BY <1>3 DEF mid

(* Chains that end alike started alike.                                       *)
LEMMA ChainInjective ==
  ASSUME NEW epoch, NEW chain_index, NEW from \in Nat, NEW n \in Nat, NEW x, NEW y,
         Chain(epoch, chain_index, from, n, x) = Chain(epoch, chain_index, from, n, y)
  PROVE  x = y
<1> DEFINE S == {k \in Nat : Chain(epoch, chain_index, from, k, x) =
                               Chain(epoch, chain_index, from, k, y) => x = y}
<1>1. 0 \in S BY ChainSteps
<1>2. ASSUME NEW k \in S PROVE k + 1 \in S
  <2>1. k \in Nat OBVIOUS
  <2> SUFFICES ASSUME Chain(epoch, chain_index, from, k + 1, x) =
                        Chain(epoch, chain_index, from, k + 1, y)
               PROVE  x = y
    BY <2>1
  <2> DEFINE m == k + 1
             t == ChainTweak(epoch, chain_index, (from + m) % U8Range)
             u == Chain(epoch, chain_index, from, k, x)
             v == Chain(epoch, chain_index, from, k, y)
  <2>2. Apply(t, <<u>>) = Apply(t, <<v>>)
    <3>1. m \in Nat /\ m = k + 1 BY <2>1
    <3>2. Chain(epoch, chain_index, from, m, x) = Chain(epoch, chain_index, from, m, y)
      OBVIOUS
    <3> HIDE DEF m
    <3>3. /\ Chain(epoch, chain_index, from, m, x) = Apply(t, <<u>>)
          /\ Chain(epoch, chain_index, from, m, y) = Apply(t, <<v>>)
      <4>1. /\ OneMoreStep(epoch, chain_index, from, x, k, m)
            /\ OneMoreStep(epoch, chain_index, from, y, k, m)
        BY <2>1, <3>1, ChainSteps
      <4> QED BY <4>1 DEF OneMoreStep
    <3> QED BY <3>2, <3>3
  <2> HIDE DEF t, u, v
  <2>3. <<u>> = <<v>> BY <2>2, ApplyInjective
  <2>4. u = v BY <2>3
  <2> QED BY <1>2, <2>4 DEF u, v
<1>3. n \in S
  <2> HIDE DEF S
  <2>1. S \in SUBSET Nat BY SMTT(30) DEF S
  <2> QED BY <1>1, <1>2, <2>1, Induction
<1> QED BY <1>3

(* The value of a chain of an epoch after so many steps.                      *)
ChainValue(epoch, chain_index, n) ==
  Chain(epoch, chain_index, 0, n, DomainElement(epoch, chain_index))

(* Positions are u8, and a chain has no more values than a u8: they all       *)
(* differ.                                                                    *)
LEMMA ChainDistinct ==
  ASSUME NEW epoch, NEW chain_index, NEW a \in 0..U8Range - 1, NEW b \in 0..U8Range - 1,
         ChainValue(epoch, chain_index, a) = ChainValue(epoch, chain_index, b)
  PROVE  a = b
<1> DEFINE V(n) == ChainValue(epoch, chain_index, n)
<1>1. ASSUME NEW n \in 1..U8Range - 1
      PROVE  \E x : V(n) = Apply(ChainTweak(epoch, chain_index, n), x)
  <2>1. n - 1 \in Nat /\ (n - 1) + 1 = n /\ (0 + n) % U8Range = n
    <3>1. n \in Nat /\ n < U8Range /\ 0 + n = n BY U8Assumption
    <3> QED BY <3>1, U8Assumption, SMTT(30)
  <2> DEFINE start == DomainElement(epoch, chain_index)
  <2>2. OneMoreStep(epoch, chain_index, 0, start, n - 1, n)
    <3>1. OneMoreStep(epoch, chain_index, 0, start, n - 1, (n - 1) + 1)
      BY <2>1, ChainSteps
    <3> QED BY <2>1, <3>1
  <2> QED BY <2>1, <2>2 DEF ChainValue, OneMoreStep
<1>2. V(0) = DomainElement(epoch, chain_index) BY ChainSteps DEF ChainValue
<1> HIDE DEF V
<1>3. ASSUME NEW n \in 1..U8Range - 1 PROVE V(n) # V(0)
  <2>1. PICK x : V(n) = Apply(ChainTweak(epoch, chain_index, n), x) BY <1>1
  <2>2. DOMAIN V(n) = {"tweak", "inputs"} BY <2>1 DEF Apply
  <2>3. DOMAIN V(0) = {"epoch", "index"} BY <1>2 DEF DomainElement
  <2> QED BY <2>2, <2>3
<1>4. ASSUME NEW n \in 1..U8Range - 1, NEW m \in 1..U8Range - 1, V(n) = V(m) PROVE n = m
  <2>1. PICK x : V(n) = Apply(ChainTweak(epoch, chain_index, n), x) BY <1>1
  <2>2. PICK y : V(m) = Apply(ChainTweak(epoch, chain_index, m), y) BY <1>1
  <2>3. ChainTweak(epoch, chain_index, n) = ChainTweak(epoch, chain_index, m)
    <3>1. Apply(ChainTweak(epoch, chain_index, n), x) =
            Apply(ChainTweak(epoch, chain_index, m), y)
      BY <1>4, <2>1, <2>2
    <3> QED BY <3>1, ApplyInjective
  <2>4. /\ ChainTweak(epoch, chain_index, n).position = n
        /\ ChainTweak(epoch, chain_index, m).position = m
    BY DEF ChainTweak
  <2> QED BY <2>3, <2>4
<1>5. V(a) = V(b) BY DEF V
<1>6. (a = 0 \/ a \in 1..U8Range - 1) /\ (b = 0 \/ b \in 1..U8Range - 1) BY U8Assumption
<1>7. CASE a = 0 BY <1>3, <1>5, <1>6, <1>7
<1>8. CASE b = 0 BY <1>3, <1>5, <1>6, <1>8
<1> QED BY <1>4, <1>5, <1>6, <1>7, <1>8

(* The ends of all chains of an epoch, which its leaf is the hash of.         *)
Ends(epoch) == [i \in 1..Dimension |-> ChainValue(epoch, i - 1, Base - 1)]

LEMMA LeafOfEnds ==
  \A epoch : TreeLeaf(epoch) = Apply(TreeTweak(0, epoch), Ends(epoch))
BY DEF TreeLeaf, Ends, ChainValue

(* An entry of a codeword is a place in a chain.                              *)
LEMMA ChunkEntries ==
  ASSUME NEW x \in Chunks
  PROVE  /\ \A i \in 1..Dimension :
              /\ x[i] \in Nat /\ x[i] \in 0..U8Range - 1
              /\ (Base - 1) - x[i] \in Nat /\ x[i] + ((Base - 1) - x[i]) = Base - 1
         /\ x = [i \in 1..Dimension |-> x[i]]
<1>1. x \in [1..Dimension -> 0..Base - 1] BY DEF Chunks
<1>2. \A m \in 0..Base - 1 : /\ m \in Nat /\ m \in 0..U8Range - 1
                             /\ (Base - 1) - m \in Nat /\ m + ((Base - 1) - m) = Base - 1
  BY BaseAssumption, U8Assumption
<1> QED BY <1>1, <1>2

(* Walking on from the hashes of a signature leads to the ends of the chains  *)
(* for the codeword that was signed, and for no other.                        *)
THEOREM EndsMeet ==
  ASSUME NEW epoch, NEW x \in Chunks, NEW y \in Chunks
  PROVE  ChainEnds(epoch, y, ChainHashes(epoch, x)) = Ends(epoch) <=> y = x
<1> DEFINE ends   == ChainEnds(epoch, y, ChainHashes(epoch, x))
           B      == Base - 1
           V(i, n) == ChainValue(epoch, i - 1, n)
           W(i)   == Chain(epoch, i - 1, y[i], B - y[i], V(i, x[i]))
<1>1. /\ ends = [i \in 1..Dimension |-> W(i)]
      /\ Ends(epoch) = [i \in 1..Dimension |-> V(i, B)]
  BY DEF ChainEnds, ChainHashes, Ends, ChainValue
<1>2. /\ \A i \in 1..Dimension : /\ x[i] \in 0..U8Range - 1 /\ y[i] \in 0..U8Range - 1 /\ y[i] \in Nat
                                 /\ B - y[i] \in Nat /\ y[i] + (B - y[i]) = B
      /\ x = [i \in 1..Dimension |-> x[i]] /\ y = [i \in 1..Dimension |-> y[i]]
  BY ChunkEntries
<1>3. ASSUME NEW i \in 1..Dimension
      PROVE  V(i, B) = Chain(epoch, i - 1, y[i], B - y[i], V(i, y[i]))
  <2>1. /\ y[i] \in Nat /\ B - y[i] \in Nat /\ y[i] + (B - y[i]) = B
        /\ 0 \in Nat /\ 0 + y[i] = y[i]
    <3> HIDE DEF B
    <3>1. y[i] \in Nat /\ B - y[i] \in Nat /\ y[i] + (B - y[i]) = B BY <1>2, SMTT(30)
    <3> QED BY <3>1
  <2> HIDE DEF B
  <2> QED BY <2>1, ChainSplit DEF ChainValue
<1> HIDE DEF V, ends, B
<1>4. ASSUME NEW i \in 1..Dimension, W(i) = V(i, B) PROVE x[i] = y[i]
  <2>1. y[i] \in Nat /\ B - y[i] \in Nat BY <1>2
  <2>2. V(i, x[i]) = V(i, y[i]) BY <1>3, <1>4, <2>1, ChainInjective
  <2> QED BY <1>2, <2>2, ChainDistinct DEF V
<1>5. ASSUME ends = Ends(epoch) PROVE y = x
  <2>1. \A i \in 1..Dimension : W(i) = V(i, B) BY <1>1, <1>5
  <2>2. \A i \in 1..Dimension : x[i] = y[i] BY <1>4, <2>1
  <2> QED BY <1>2, <2>2
<1>6. ASSUME y = x PROVE ends = Ends(epoch)
  <2>1. \A i \in 1..Dimension : W(i) = V(i, B) BY <1>3, <1>6
  <2> QED BY <1>1, <2>1
<1> QED BY <1>5, <1>6 DEF ends

-------------------------------------------------------------------------------
(* A lane of a batch is the chain of its epoch.                               *)
LEMMA LaneIsChain ==
  ASSUME NEW epochs, NEW chain_index, NEW from, NEW steps \in Nat,
         NEW starts, NEW lane \in 1..SIMD_LANES
  PROVE  Chain4(epochs, chain_index, from, steps, starts)[lane] =
           Chain(epochs[lane], chain_index, from, steps, starts[lane])
<1> DEFINE Alone(l, s) == Chain(epochs[l], chain_index, from, s, starts[l])
           Step(l, s, x) == Apply(ChainTweak(epochs[l], chain_index, (from + s) % U8Range), <<x>>)
           Together(at) == at = [s \in 0..steps |->
                                   IF s = 0 THEN starts
                                   ELSE [l \in 1..SIMD_LANES |-> Step(l, s, at[s - 1][l])]]
           chosen == CHOOSE at : Together(at)
<1>1. Chain4(epochs, chain_index, from, steps, starts) = chosen[steps] BY DEF Chain4
<1>2. ASSUME NEW l, NEW s \in Nat
      PROVE  Alone(l, 0) = starts[l] /\ Alone(l, s + 1) = Step(l, s + 1, Alone(l, s))
  <2>1. OneMoreStep(epochs[l], chain_index, from, starts[l], s, s + 1) BY ChainSteps
  <2>2. Alone(l, 0) = starts[l] BY ChainSteps
  <2> QED BY <2>1, <2>2 DEF OneMoreStep
<1> HIDE DEF Alone, Step
<1>3. \E at : Together(at)
  <2> DEFINE f == [s \in 0..steps |->
                     IF s = 0 THEN starts ELSE [l \in 1..SIMD_LANES |-> Alone(l, s)]]
  <2>1. ASSUME NEW s \in 1..steps, NEW l \in 1..SIMD_LANES
        PROVE  Alone(l, s) = Step(l, s, f[s - 1][l])
    <3>1. s - 1 \in Nat /\ (s - 1) + 1 = s /\ s - 1 \in 0..steps OBVIOUS
    <3>2. f[s - 1][l] = Alone(l, s - 1)
      <4>1. CASE s - 1 = 0
        <5>1. f[s - 1] = starts BY <3>1, <4>1
        <5> QED BY <1>2, <4>1, <5>1
      <4>2. CASE s - 1 # 0 BY <3>1, <4>2
      <4> QED BY <4>1, <4>2
    <3>3. Alone(l, s) = Step(l, s, Alone(l, s - 1)) BY <1>2, <3>1
    <3> QED BY <3>2, <3>3
  <2>2. \A s \in 0..steps : s # 0 => s \in 1..steps OBVIOUS
  <2>3. Together(f) BY <2>1, <2>2
  <2> QED BY <2>3
<1>4. Together(chosen) BY <1>3
<1> DEFINE S == {s \in Nat : s <= steps => chosen[s][lane] = Alone(lane, s)}
<1> HIDE DEF chosen
<1>5. 0 \in S
  <2>1. 0 \in 0..steps OBVIOUS
  <2>2. chosen[0] = starts BY <1>4, <2>1
  <2> QED BY <1>2, <2>2
<1>6. ASSUME NEW s \in S PROVE s + 1 \in S
  <2>1. s \in Nat OBVIOUS
  <2> SUFFICES ASSUME s + 1 <= steps PROVE chosen[s + 1][lane] = Alone(lane, s + 1) BY <2>1
  <2>2. s <= steps /\ s + 1 \in 0..steps /\ s + 1 # 0 /\ (s + 1) - 1 = s BY <2>1
  <2>3. chosen[s + 1] = [l \in 1..SIMD_LANES |-> Step(l, s + 1, chosen[s][l])]
    BY <1>4, <2>2
  <2>4. chosen[s][lane] = Alone(lane, s) BY <1>6, <2>2
  <2> QED BY <1>2, <2>1, <2>3, <2>4
<1>7. steps \in S
  <2> HIDE DEF S
  <2>1. S \in SUBSET Nat BY DEF S
  <2> QED BY <1>5, <1>6, <2>1, Induction
<1>8. chosen[steps][lane] = Alone(lane, steps) BY <1>7
<1> QED BY <1>1, <1>8 DEF Alone

(* The leaves of a batch are those of its epochs one by one.                  *)
THEOREM BatchIsLeaves ==
  ASSUME NEW epochs
  PROVE  BatchLeaves(epochs) = [lane \in 1..SIMD_LANES |-> TreeLeaf(epochs[lane])]
<1> DEFINE Starts(i) == [l \in 1..SIMD_LANES |-> DomainElement(epochs[l], i - 1)]
           Four(i) == Chain4(epochs, i - 1, 0, Base - 1, Starts(i))
<1>1. BatchLeaves(epochs) =
        [lane \in 1..SIMD_LANES |->
           Apply(TreeTweak(0, epochs[lane]), [i \in 1..Dimension |-> Four(i)[lane]])]
  BY DEF BatchLeaves
<1>2. ASSUME NEW lane \in 1..SIMD_LANES, NEW i \in 1..Dimension
      PROVE  Four(i)[lane] = Chain(epochs[lane], i - 1, 0, Base - 1,
                                   DomainElement(epochs[lane], i - 1))
  <2>1. Base - 1 \in Nat BY BaseAssumption, U8Assumption
  <2>2. Starts(i)[lane] = DomainElement(epochs[lane], i - 1) OBVIOUS
  <2> DEFINE starts == Starts(i)
  <2>3. Chain4(epochs, i - 1, 0, Base - 1, starts)[lane] =
          Chain(epochs[lane], i - 1, 0, Base - 1, starts[lane])
    <3> HIDE DEF starts
    <3> QED BY <2>1, LaneIsChain
  <2> QED BY <2>2, <2>3
<1> HIDE DEF Four
<1> QED BY <1>1, <1>2 DEF TreeLeaf

(* A part of a sequence, from after one place to another.                     *)
Segment(F, a, b) == [k \in 1..b - a |-> F[a + k]]

IsCut(parts, F, cut, n) ==
  /\ parts = [b \in 1..n |-> parts[b]]
  /\ cut[0] = 0 /\ \A b \in 0..n : cut[b] \in Nat
  /\ \A b \in 1..n : /\ cut[b - 1] <= cut[b]
                     /\ parts[b] = Segment(F, cut[b - 1], cut[b])

(* Putting the parts of a sequence together again.                            *)
LEMMA Flattened ==
  ASSUME NEW n \in Nat \ {0}, NEW parts, NEW F, NEW cut, IsCut(parts, F, cut, n)
  PROVE  FlattenSeq(parts) = [k \in 1..cut[n] |-> F[k]]
<1> USE DEF IsCut
<1> DEFINE Upto(m)  == [k \in 1..m |-> F[k]]
           Flat(f)  == f = [i \in 1..n |-> IF i = 1 THEN parts[i] ELSE f[i - 1] \o parts[i]]
           chosen   == CHOOSE f : Flat(f)
<1>1. FlattenSeq(parts) = chosen[n]
  <2>1. Len(parts) = n BY FunctionSeq
  <2> QED BY <2>1 DEF FlattenSeq
<1>2. ASSUME NEW m \in Nat PROVE IsSeq(Upto(m)) /\ Len(Upto(m)) = m
  <2>1. Upto(m) = [k \in 1..m |-> Upto(m)[k]] OBVIOUS
  <2> HIDE DEF Upto
  <2> QED BY <2>1, FunctionSeq
<1>3. ASSUME NEW a \in Nat, NEW b \in Nat, a <= b
      PROVE  Upto(a) \o Segment(F, a, b) = Upto(b)
  <2> DEFINE t == Segment(F, a, b)
             u == Upto(a) \o t
  <2>1. IsSeq(t) /\ Len(t) = b - a
    <3>1. t = [k \in 1..b - a |-> t[k]] BY DEF Segment
    <3>2. b - a \in Nat BY <1>3
    <3> HIDE DEF t
    <3> QED BY <3>1, <3>2, FunctionSeq
  <2>2. /\ IsSeq(u) /\ Len(u) = b
        /\ \A k \in 1..a : u[k] = Upto(a)[k]
        /\ \A k \in 1..b - a : u[a + k] = t[k]
    <3>1. IsSeq(Upto(a)) /\ Len(Upto(a)) = a /\ a + (b - a) = b BY <1>2
    <3> HIDE DEF t, Upto
    <3> QED BY <2>1, <3>1, SeqConcat
  <2>3. u = [k \in 1..b |-> u[k]] BY <2>2, SeqFunction
  <2>4. ASSUME NEW k \in 1..b PROVE u[k] = F[k]
    <3>1. CASE k <= a
      <4>1. k \in 1..a BY <3>1
      <4> QED BY <2>2, <4>1
    <3>2. CASE ~(k <= a)
      <4>1. k - a \in 1..b - a /\ a + (k - a) = k BY <3>2
      <4>2. u[a + (k - a)] = t[k - a] BY <2>2, <4>1
      <4>3. t[k - a] = F[a + (k - a)] BY <4>1 DEF Segment
      <4> QED BY <4>1, <4>2, <4>3
    <3> QED BY <3>1, <3>2
  <2> HIDE DEF u
  <2> QED BY <2>3, <2>4 DEF u, t
<1>4. parts[1] = Upto(cut[1])
  <2>1. 1 \in 1..n /\ 1 - 1 = 0 /\ 1 \in 0..n OBVIOUS
  <2>2. cut[1] - 0 = cut[1] /\ \A k \in 1..cut[1] : 0 + k = k BY <2>1
  <2>3. parts[1] = Segment(F, 0, cut[1]) BY <2>1
  <2> QED BY <2>2, <2>3 DEF Segment
<1>5. ASSUME NEW i \in 1..n, i # 1 PROVE Upto(cut[i - 1]) \o parts[i] = Upto(cut[i])
  <2>1. i - 1 \in 0..n /\ i \in 0..n BY <1>5
  <2> HIDE DEF Upto
  <2>2. cut[i - 1] \in Nat /\ cut[i] \in Nat /\ cut[i - 1] <= cut[i] BY <2>1
  <2>3. Upto(cut[i - 1]) \o Segment(F, cut[i - 1], cut[i]) = Upto(cut[i])
    BY <1>3, <2>2
  <2> QED BY <2>3
<1> HIDE DEF Upto
<1>6. \E f : Flat(f)
  <2> DEFINE f == [i \in 1..n |-> Upto(cut[i])]
  <2>1. ASSUME NEW i \in 1..n
        PROVE  f[i] = IF i = 1 THEN parts[i] ELSE f[i - 1] \o parts[i]
    <3>1. i # 1 => i - 1 \in 1..n OBVIOUS
    <3> QED BY <1>4, <1>5, <3>1
  <2>2. Flat(f) BY <2>1
  <2> QED BY <2>2
<1>7. Flat(chosen) BY <1>6
<1> HIDE DEF chosen
<1> DEFINE S == {i \in Nat : i < n => chosen[i + 1] = Upto(cut[i + 1])}
<1>8. 0 \in S
  <2>1. 0 + 1 = 1 /\ 1 \in 1..n OBVIOUS
  <2>2. chosen[1] = parts[1] BY <1>7, <2>1
  <2> QED BY <1>4, <2>1, <2>2
<1>9. ASSUME NEW i \in S PROVE i + 1 \in S
  <2>1. i \in Nat OBVIOUS
  <2> SUFFICES ASSUME i + 1 < n PROVE chosen[(i + 1) + 1] = Upto(cut[(i + 1) + 1]) BY <2>1
  <2> DEFINE m == (i + 1) + 1
  <2>2. i < n /\ m \in 1..n /\ m # 1 /\ m - 1 = i + 1 BY <2>1
  <2>3. chosen[i + 1] = Upto(cut[i + 1]) BY <1>9, <2>2
  <2> HIDE DEF m
  <2>4. chosen[m] = chosen[m - 1] \o parts[m] BY <1>7, <2>2
  <2> QED BY <1>5, <2>2, <2>3, <2>4 DEF m
<1>10. n - 1 \in S
  <2> HIDE DEF S
  <2>1. S \in SUBSET Nat BY DEF S
  <2>2. n - 1 \in Nat OBVIOUS
  <2> QED BY <1>8, <1>9, <2>1, <2>2, Induction
<1>11. n - 1 < n /\ (n - 1) + 1 = n OBVIOUS
<1>12. chosen[n] = Upto(cut[n]) BY <1>10, <1>11
<1> QED BY <1>1, <1>12 DEF Upto

(* The batches that cover a sequence: all but the last are full.              *)
LEMMA Batches ==
  ASSUME NEW n \in Nat \ {0}, NEW L \in Nat \ {0}
  PROVE  LET q == (n + L - 1) \div L
         IN  /\ q \in Nat \ {0} /\ n <= q * L
             /\ \A b \in 1..q : /\ (b - 1) * L \in Nat /\ (b - 1) * L < n
                                /\ b * L = (b - 1) * L + L
<1> DEFINE x == n + L - 1
           q == x \div L
<1>1. x \in Nat /\ L <= x OBVIOUS
<1>2. q \in Int /\ q * L <= x /\ x < q * L + L
  <2> HIDE DEF x
  <2> QED BY <1>1, Quotient
<1> HIDE DEF q
<1>3. n <= q * L BY <1>2
<1>4. q \in Nat \ {0}
  <2> SUFFICES ASSUME q <= 0 PROVE FALSE BY <1>2
  <2>1. q * L <= 0 * L /\ 0 * L = 0 /\ q * L \in Int BY <1>2
  <2> QED BY <1>3, <2>1
<1>5. ASSUME NEW b \in 1..q
      PROVE  /\ (b - 1) * L \in Nat /\ (b - 1) * L < n
             /\ b * L = (b - 1) * L + L
  <2>1. b - 1 \in Nat /\ b - 1 <= q - 1 /\ b = (b - 1) + 1 BY <1>4
  <2> DEFINE a == b - 1
  <2>2. a \in Nat /\ a <= q - 1 /\ b = a + 1 BY <2>1
  <2> HIDE DEF a
  <2>3. a * L \in Nat BY <2>2
  <2>4. a * L <= (q - 1) * L BY <1>4, <2>2
  <2>5. (q - 1) * L = q * L - L BY <1>4
  <2>6. (a + 1) * L = a * L + L BY <2>2
  <2>7. a * L < n BY <1>2, <2>3, <2>4, <2>5
  <2> QED BY <2>2, <2>3, <2>6, <2>7 DEF a
<1> QED BY <1>3, <1>4, <1>5 DEF q

LEMMA MinOfTwo ==
  ASSUME NEW a \in Int, NEW b \in Int
  PROVE  Min({a, b}) = IF a <= b THEN a ELSE b
<1>1. CASE a <= b
  <2>1. a \in {a, b} /\ \A y \in {a, b} : a <= y BY <1>1
  <2>2. \A x \in {a, b} : (\A y \in {a, b} : x <= y) => x = a BY <1>1
  <2> QED BY <1>1, <2>1, <2>2 DEF Min
<1>2. CASE ~(a <= b)
  <2>1. b \in {a, b} /\ \A y \in {a, b} : b <= y BY <1>2
  <2>2. \A x \in {a, b} : (\A y \in {a, b} : x <= y) => x = b BY <1>2
  <2> QED BY <1>2, <2>1, <2>2 DEF Min
<1> QED BY <1>1, <1>2

(* A part of a sequence of anything.                                          *)
LEMMA Part ==
  ASSUME NEW s, IsSeq(s), NEW a \in Nat, NEW b \in Nat, a <= b, b <= Len(s)
  PROVE  SubSeq(s, a + 1, b) = Segment(s, a, b) /\ Len(SubSeq(s, a + 1, b)) = b - a
<1> DEFINE t == SubSeq(s, a + 1, b)
           S == Range(s)
<1>1. Len(s) \in Nat /\ DOMAIN s = 1..Len(s) BY SeqFunction
<1>2. \A i \in a + 1..b : s[i] \in S BY <1>1 DEF Range
<1>3. a + 1 \in Int /\ b \in Int OBVIOUS
<1> HIDE DEF S
<1>4. /\ t \in Seq(S) /\ Len(t) = IF a + 1 <= b THEN b - (a + 1) + 1 ELSE 0
      /\ \A i \in 1..b - (a + 1) + 1 : t[i] = s[a + 1 + i - 1]
  BY <1>2, <1>3, SubSeqProperties
<1> HIDE DEF t
<1>5. Len(t) = b - a /\ b - a \in Nat BY <1>4
<1>6. t = [i \in 1..b - a |-> t[i]] BY <1>4, <1>5, LenProperties
<1>7. ASSUME NEW i \in 1..b - a PROVE t[i] = s[a + i]
  <2>1. i \in 1..b - (a + 1) + 1 /\ a + 1 + i - 1 = a + i OBVIOUS
  <2> QED BY <1>4, <2>1
<1> QED BY <1>5, <1>6, <1>7 DEF t, Segment

(* Taking the epochs in batches gives each of them its own leaf, whatever the *)
(* number of lanes and whether or not the last batch is full.                 *)
THEOREM LeavesOneByOne ==
  ASSUME NEW epochs, IsSeq(epochs), Len(epochs) > 0
  PROVE  ComputeTreeLeaves(epochs) = [k \in 1..Len(epochs) |-> TreeLeaf(epochs[k])]
<1> DEFINE n == Len(epochs)
           L == SIMD_LANES
           F == [k \in 1..n |-> TreeLeaf(epochs[k])]
           q == (n + L - 1) \div L
           stop(b)  == Min({b * L, n})
           batch(b) == SubSeq(epochs, (b - 1) * L + 1, stop(b))
           part(b)  == IF Len(batch(b)) = L THEN BatchLeaves(batch(b))
                       ELSE [k \in 1..Len(batch(b)) |-> TreeLeaf(batch(b)[k])]
           parts == [b \in 1..q |-> part(b)]
<1>1. n \in Nat \ {0} /\ L \in Nat \ {0}
  <2>1. Len(epochs) \in Nat BY SeqFunction
  <2> QED BY <2>1, LanesAssumption
<1>2. ComputeTreeLeaves(epochs) = FlattenSeq(parts) BY DEF ComputeTreeLeaves
<1> HIDE DEF n, L
<1>3. /\ q \in Nat \ {0} /\ n <= q * L
      /\ \A b \in 1..q : /\ (b - 1) * L \in Nat /\ (b - 1) * L < n
                         /\ b * L = (b - 1) * L + L
  BY <1>1, Batches
<1> HIDE DEF q
<1> DEFINE cut == [b \in 0..q |-> IF b = 0 THEN 0 ELSE stop(b)]
<1>4. ASSUME NEW b \in 1..q
      PROVE  /\ stop(b) \in Nat /\ (b - 1) * L <= stop(b) /\ stop(b) <= n
             /\ stop(b) = n \/ stop(b) = b * L
  <2> DEFINE lo == (b - 1) * L
             hi == b * L
  <2>1. lo \in Nat /\ lo < n /\ hi = lo + L BY <1>3
  <2> HIDE DEF lo, hi
  <2>2. Min({hi, n}) = IF hi <= n THEN hi ELSE n
    <3>1. hi \in Int /\ n \in Int BY <1>1, <2>1
    <3> QED BY <3>1, MinOfTwo
  <2>3. /\ Min({hi, n}) \in Nat /\ lo <= Min({hi, n}) /\ Min({hi, n}) <= n
        /\ Min({hi, n}) = n \/ Min({hi, n}) = hi
    BY <1>1, <2>1, <2>2
  <2> QED BY <2>3 DEF lo, hi
<1>5. stop(q) = n
  <2> DEFINE hi == q * L
  <2>1. hi \in Int /\ n \in Int /\ n <= hi BY <1>1, <1>3
  <2> HIDE DEF hi
  <2>2. Min({hi, n}) = n BY <2>1, MinOfTwo
  <2> QED BY <2>2 DEF hi
<1>6. ASSUME NEW b \in 1..q PROVE cut[b] = stop(b) /\ cut[b - 1] = (b - 1) * L
  <2>1. b \in 0..q /\ b # 0 /\ b - 1 \in 0..q BY <1>3
  <2>2. CASE b - 1 = 0
    <3>1. 0 * L = 0 BY <1>1
    <3> QED BY <2>1, <2>2, <3>1
  <2>3. CASE b - 1 # 0
    <3> DEFINE a == b - 1
    <3>1. a \in 1..q /\ a \in 0..q /\ a # 0 BY <2>1, <2>3
    <3>2. a * L < n BY <1>3
    <3> HIDE DEF a
    <3>3. a * L \in Int /\ n \in Int BY <1>1, <3>1
    <3>4. Min({a * L, n}) = a * L BY <3>2, <3>3, MinOfTwo
    <3>5. cut[a] = a * L BY <3>1, <3>4
    <3>6. cut[b] = stop(b) BY <2>1
    <3> HIDE DEF cut
    <3> QED BY <3>5, <3>6 DEF a
  <2> QED BY <2>2, <2>3
<1>7. ASSUME NEW b \in 1..q
      PROVE  parts[b] = Segment(F, (b - 1) * L, stop(b))
  <2> DEFINE lo == (b - 1) * L
             hi == stop(b)
  <2>1. lo \in Nat /\ hi \in Nat /\ lo <= hi /\ hi <= n BY <1>3, <1>4
  <2> DEFINE s == SubSeq(epochs, lo + 1, hi)
  <2>2. parts[b] = IF Len(s) = L THEN BatchLeaves(s)
                   ELSE [k \in 1..Len(s) |-> TreeLeaf(s[k])]
    OBVIOUS
  <2> HIDE DEF lo, hi, parts
  <2>3. s = Segment(epochs, lo, hi) /\ Len(s) = hi - lo BY <2>1, Part DEF n
  <2> HIDE DEF s
  <2>4. parts[b] = [k \in 1..hi - lo |-> TreeLeaf(s[k])]
    <3>1. CASE Len(s) = L BY <2>2, <2>3, <3>1, BatchIsLeaves DEF L
    <3>2. CASE Len(s) # L BY <2>2, <2>3, <3>2
    <3> QED BY <3>1, <3>2
  <2>5. ASSUME NEW k \in 1..hi - lo PROVE TreeLeaf(s[k]) = F[lo + k]
    <3>1. lo + k \in 1..n BY <1>1, <2>1
    <3>2. s[k] = epochs[lo + k] BY <2>3 DEF Segment
    <3> QED BY <3>1, <3>2
  <2> HIDE DEF F
  <2>6. parts[b] = Segment(F, lo, hi) BY <2>4, <2>5 DEF Segment
  <2> QED BY <2>6 DEF lo, hi
<1>8. parts = [b \in 1..q |-> parts[b]] OBVIOUS
<1>9. cut[0] = 0 BY <1>3
<1> HIDE DEF F, parts, stop, batch, part
<1>10. \A b \in 0..q : cut[b] \in Nat
  <2> TAKE b \in 0..q
  <2>1. CASE b = 0 BY <1>9, <2>1
  <2>2. CASE b # 0
    <3>1. b \in 1..q BY <1>3, <2>2
    <3> HIDE DEF cut
    <3> QED BY <1>4, <1>6, <3>1
  <2> QED BY <2>1, <2>2
<1> HIDE DEF cut
<1>11. \A b \in 1..q : /\ cut[b - 1] <= cut[b]
                       /\ parts[b] = Segment(F, cut[b - 1], cut[b])
  BY <1>4, <1>6, <1>7
<1>12. FlattenSeq(parts) = [k \in 1..cut[q] |-> F[k]]
  <2>1. IsCut(parts, F, cut, q) BY <1>8, <1>9, <1>10, <1>11 DEF IsCut
  <2> QED BY <1>3, <2>1, Flattened
<1>13. cut[q] = n
  <2>1. q \in 1..q BY <1>3
  <2> QED BY <1>5, <1>6, <2>1
<1>14. [k \in 1..n |-> F[k]] = F BY DEF F
<1> QED BY <1>2, <1>12, <1>13, <1>14 DEF F, n

-------------------------------------------------------------------------------
(* The recursion of a sum over the subsets of a finite set.                   *)
Totals(total, x, S) ==
  total = [T \in SUBSET S |->
             IF T = {} THEN 0
             ELSE LET i == CHOOSE i \in T : TRUE IN x[i] + total[T \ {i}]]

Chosen(T) == CHOOSE i \in T : TRUE

Small(S, n) == {T \in SUBSET S : Cardinality(T) <= n}

LEMMA SmallSubsets ==
  ASSUME NEW S, IsFiniteSet(S)
  PROVE  /\ Small(S, 0) = {{}} /\ Small(S, Cardinality(S)) = SUBSET S
         /\ \A n \in Nat : /\ Small(S, n) \subseteq Small(S, n + 1) /\ {} \in Small(S, n)
                          /\ \A T \in Small(S, n + 1) : T # {} =>
                               Chosen(T) \in T /\ T \ {Chosen(T)} \in Small(S, n)
<1>1. ASSUME NEW T \in SUBSET S
      PROVE  /\ Cardinality(T) \in Nat /\ Cardinality(T) <= Cardinality(S)
             /\ Cardinality(T) = 0 <=> T = {}
             /\ T # {} => /\ Chosen(T) \in T
                         /\ Cardinality(T \ {Chosen(T)}) = Cardinality(T) - 1
  <2>1. IsFiniteSet(T) /\ Cardinality(T) <= Cardinality(S) BY FS_Subset
  <2>2. Cardinality(T) \in Nat /\ (Cardinality(T) = 0 <=> T = {})
    BY <2>1, FS_CardinalityType, FS_EmptySet
  <2>3. ASSUME T # {}
        PROVE  Chosen(T) \in T /\ Cardinality(T \ {Chosen(T)}) = Cardinality(T) - 1
    <3>1. Chosen(T) \in T BY <2>3 DEF Chosen
    <3> QED BY <2>1, <3>1, FS_RemoveElement
  <2> QED BY <2>1, <2>2, <2>3
<1>2. {} \in SUBSET S /\ Cardinality({}) = 0 BY FS_EmptySet
<1>3. ASSUME NEW n \in Nat
      PROVE  Small(S, n) \subseteq Small(S, n + 1) /\ {} \in Small(S, n)
  <2>1. ASSUME NEW T \in Small(S, n) PROVE T \in Small(S, n + 1)
    <3>1. T \in SUBSET S /\ Cardinality(T) <= n BY DEF Small
    <3>2. Cardinality(T) \in Nat BY <1>1, <3>1
    <3>3. Cardinality(T) <= n + 1 BY <3>1, <3>2
    <3> QED BY <3>1, <3>3 DEF Small
  <2>2. {} \in Small(S, n) BY <1>2 DEF Small
  <2> QED BY <2>1, <2>2
<1>4. ASSUME NEW n \in Nat, NEW T \in Small(S, n + 1), T # {}
      PROVE  Chosen(T) \in T /\ T \ {Chosen(T)} \in Small(S, n)
  <2>1. T \in SUBSET S /\ Cardinality(T) <= n + 1 BY <1>4 DEF Small
  <2>2. /\ Chosen(T) \in T /\ Cardinality(T) \in Nat
        /\ Cardinality(T \ {Chosen(T)}) = Cardinality(T) - 1
    BY <1>1, <1>4, <2>1
  <2>3. Cardinality(T \ {Chosen(T)}) <= n BY <2>1, <2>2
  <2>4. T \ {Chosen(T)} \in SUBSET S BY <2>1
  <2> QED BY <2>2, <2>3, <2>4 DEF Small
<1>5. Small(S, 0) = {{}}
  <2>1. ASSUME NEW T \in Small(S, 0) PROVE T = {}
    <3>1. T \in SUBSET S /\ Cardinality(T) <= 0 BY DEF Small
    <3>2. Cardinality(T) \in Nat BY <1>1, <3>1
    <3>3. Cardinality(T) = 0 BY <3>1, <3>2
    <3> QED BY <1>1, <3>1, <3>3
  <2>2. {} \in Small(S, 0) BY <1>2 DEF Small
  <2> QED BY <2>1, <2>2
<1>6. Small(S, Cardinality(S)) = SUBSET S BY <1>1 DEF Small
<1> QED BY <1>3, <1>4, <1>5, <1>6

LEMMA TotalsExist ==
  ASSUME NEW x, NEW S, IsFiniteSet(S)
  PROVE  \E total : Totals(total, x, S)
<1> DEFINE Right(f, n) == f = [T \in Small(S, n) |->
                                IF T = {} THEN 0 ELSE x[Chosen(T)] + f[T \ {Chosen(T)}]]
           N == {n \in Nat : \E f : Right(f, n)}
<1>1. 0 \in N
  <2> DEFINE f == [T \in Small(S, 0) |-> 0]
  <2>1. \A T \in Small(S, 0) : T = {} BY SmallSubsets
  <2>2. Right(f, 0) BY <2>1
  <2> QED BY <2>2
<1>2. ASSUME NEW n \in N PROVE n + 1 \in N
  <2>1. PICK f : Right(f, n) BY <1>2
  <2>2. n \in Nat OBVIOUS
  <2>3. /\ Small(S, n) \subseteq Small(S, n + 1) /\ {} \in Small(S, n)
        /\ \A T \in Small(S, n + 1) : T # {} =>
             Chosen(T) \in T /\ T \ {Chosen(T)} \in Small(S, n)
    BY <2>2, SmallSubsets
  <2> DEFINE m == n + 1
             g == [T \in Small(S, m) |-> IF T \in Small(S, n) THEN f[T]
                                        ELSE x[Chosen(T)] + f[T \ {Chosen(T)}]]
  <2> HIDE DEF m
  <2>4. ASSUME NEW T \in Small(S, m)
        PROVE  g[T] = IF T = {} THEN 0 ELSE x[Chosen(T)] + g[T \ {Chosen(T)}]
    <3> DEFINE U == T \ {Chosen(T)}
    <3>1. T # {} => U \in Small(S, n) /\ U \in Small(S, m) BY <2>3 DEF m
    <3>2. T # {} => g[U] = f[U]
      <4> HIDE DEF U
      <4> QED BY <3>1
    <3>3. CASE T \in Small(S, n)
      <4>1. f[T] = IF T = {} THEN 0 ELSE x[Chosen(T)] + f[U] BY <2>1, <3>3
      <4>2. g[T] = f[T] BY <3>3
      <4> HIDE DEF g
      <4> QED BY <3>2, <4>1, <4>2 DEF U
    <3>4. CASE T \notin Small(S, n)
      <4>1. T # {} BY <2>3, <3>4
      <4>2. g[T] = x[Chosen(T)] + f[U] BY <3>4
      <4> HIDE DEF g
      <4> QED BY <3>2, <4>1, <4>2 DEF U
    <3> QED BY <3>3, <3>4
  <2>5. g = [T \in Small(S, m) |-> g[T]] OBVIOUS
  <2> HIDE DEF g
  <2>6. Right(g, m) BY <2>4, <2>5
  <2> QED BY <2>2, <2>6 DEF m
<1>3. Cardinality(S) \in N
  <2> HIDE DEF N
  <2>1. N \in SUBSET Nat BY DEF N
  <2>2. Cardinality(S) \in Nat BY FS_CardinalityType
  <2> QED BY <1>1, <1>2, <2>1, <2>2, Induction
<1>4. PICK f : Right(f, Cardinality(S)) BY <1>3
<1>5. Totals(f, x, S) BY <1>4, SmallSubsets DEF Totals, Chosen
<1> QED BY <1>5

LEMMA SumIsTotal ==
  ASSUME NEW x, NEW S, DOMAIN x = S
  PROVE  ChunkSum(x) = (CHOOSE total : Totals(total, x, S))[S]
BY DEF ChunkSum, FoldFunction, FoldFunctionOnSet, MapThenFoldSet, Totals

(* Of two codewords of one sum neither is below the other: who walks on the   *)
(* chains of a signature gets to no other codeword.                           *)
THEOREM Incomparable ==
  ASSUME NEW x \in Chunks, NEW y \in Chunks,
         \A i \in 1..Dimension : x[i] <= y[i], ChunkSum(x) = ChunkSum(y)
  PROVE  x = y
<1> DEFINE S  == 1..Dimension
           tx == CHOOSE total : Totals(total, x, S)
           ty == CHOOSE total : Totals(total, y, S)
<1>1. /\ DOMAIN x = S /\ DOMAIN y = S
      /\ \A i \in S : x[i] \in Nat /\ y[i] \in Nat /\ x[i] <= y[i]
      /\ x = [i \in S |-> x[i]] /\ y = [i \in S |-> y[i]]
  BY ChunkEntries DEF Chunks
<1>2. IsFiniteSet(S) BY DimensionAssumption, U8Assumption, FS_Interval
<1>3. tx[S] = ty[S] BY <1>1, SumIsTotal
<1>4. Totals(tx, x, S) /\ Totals(ty, y, S) BY <1>2, TotalsExist
<1> HIDE DEF S, tx, ty
<1> DEFINE Lower(T) == /\ tx[T] \in Nat /\ ty[T] \in Nat /\ tx[T] <= ty[T]
                       /\ tx[T] = ty[T] => \A i \in T : x[i] = y[i]
           N == {n \in Nat : \A T \in Small(S, n) : Lower(T)}
<1>5. Lower({})
  <2>1. {} \in SUBSET S OBVIOUS
  <2>2. tx[{}] = 0 /\ ty[{}] = 0 BY <1>4, <2>1 DEF Totals
  <2> QED BY <2>2
<1>6. 0 \in N
  <2>1. \A T \in Small(S, 0) : T = {} BY <1>2, SmallSubsets
  <2> HIDE DEF Lower
  <2> QED BY <1>5, <2>1
<1>7. ASSUME NEW n \in N PROVE n + 1 \in N
  <2>1. n \in Nat /\ \A T \in Small(S, n) : Lower(T) OBVIOUS
  <2>2. ASSUME NEW T \in Small(S, n + 1) PROVE Lower(T)
    <3>1. CASE T = {} BY <1>5, <3>1
    <3>2. CASE T # {}
      <4> DEFINE i == Chosen(T)
                 U == T \ {i}
      <4>1. T \in SUBSET S BY DEF Small
      <4>2. i \in T /\ U \in Small(S, n) BY <1>2, <2>1, <3>2, SmallSubsets
      <4>3. tx[T] = x[i] + tx[U] /\ ty[T] = y[i] + ty[U]
        BY <1>4, <3>2, <4>1 DEF Totals, Chosen
      <4>4. \A j \in T : j = i \/ j \in U OBVIOUS
      <4> HIDE DEF i, U
      <4>5. x[i] \in Nat /\ y[i] \in Nat /\ x[i] <= y[i] BY <1>1, <4>1, <4>2
      <4>6. Lower(U) BY <2>1, <4>2
      <4>7. tx[T] \in Nat /\ ty[T] \in Nat /\ tx[T] <= ty[T] BY <4>3, <4>5, <4>6
      <4>8. tx[T] = ty[T] => x[i] = y[i] /\ tx[U] = ty[U] BY <4>3, <4>5, <4>6
      <4> QED BY <4>4, <4>6, <4>7, <4>8
    <3> QED BY <3>1, <3>2
  <2> HIDE DEF Lower
  <2> QED BY <2>1, <2>2
<1>8. Cardinality(S) \in N
  <2> HIDE DEF N
  <2>1. N \in SUBSET Nat BY DEF N
  <2>2. Cardinality(S) \in Nat BY <1>2, FS_CardinalityType
  <2> QED BY <1>6, <1>7, <2>1, <2>2, Induction
<1>9. Lower(S)
  <2>1. S \in Small(S, Cardinality(S)) BY <1>2, SmallSubsets
  <2> HIDE DEF Lower
  <2> QED BY <1>8, <2>1
<1> QED BY <1>1, <1>3, <1>9

-------------------------------------------------------------------------------
(* The scheme end to end.                                                     *)

(* The bottom trees are as wide as the top tree.                              *)
LEMMA SizeOfHalves ==
  /\ C = Width /\ C \in Nat /\ C >= 2
  /\ C * C = 2^Depth /\ Lifetime = 2^Depth /\ Lifetime <= U32Range
  /\ U32Range \in Nat
<1>1. C = Width BY HalfTreeAssumption DEF Width
<1>2. Width * Width = 2^Depth BY PowerOfHalves
<1> QED BY <1>1, <1>2, CAssumption, U32Assumption DEF Lifetime

(* The leaves of a bottom tree, from the first.                               *)
LEMMA EpochsOfTree ==
  ASSUME NEW t \in 0..C - 1
  PROVE  /\ t * C \in Nat
         /\ \A e : e \in Leaves(t) <=> \E k \in 1..C : e = t * C + k - 1
         /\ \A e \in Leaves(t) : e \in Nat /\ e \div C = t /\ e < 2^Depth
<1>1. t \in Nat /\ t + 1 <= C /\ C \in Nat /\ C >= 2 BY SizeOfHalves
<1>2. t * C \in Nat /\ (t + 1) * C = t * C + C /\ (t + 1) * C <= C * C
  BY <1>1, MulC, MulOrder
<1> DEFINE a == t * C
<1>3. Leaves(t) = a..a + C - 1 BY DEF Leaves
<1>4. a \in Nat /\ a + C <= 2^Depth /\ 2^Depth \in Nat
  BY <1>2, SizeOfHalves, Halves, Powers
<1>5. \A e \in Int : a <= e /\ e < a + C => e \div C = t
  BY <1>1, Quotient
<1> HIDE DEF a
<1>6. ASSUME NEW e \in Leaves(t)
      PROVE  e \in Nat /\ e \div C = t /\ e < 2^Depth
  <2>1. e \in Nat /\ a <= e /\ e < a + C BY <1>1, <1>3, <1>4
  <2>2. e < 2^Depth
    <3> DEFINE w == 2^Depth
    <3> HIDE DEF w
    <3>1. a + C <= w /\ w \in Nat BY <1>4 DEF w
    <3>2. e < w BY <1>1, <1>4, <2>1, <3>1
    <3> QED BY <3>2 DEF w
  <2> QED BY <1>5, <2>1, <2>2
<1>7. ASSUME NEW e
      PROVE  e \in Leaves(t) <=> \E k \in 1..C : e = a + k - 1
  <2>1. ASSUME NEW k \in 1..C PROVE a + k - 1 \in a..a + C - 1
    BY <1>1, <1>4
  <2>2. ASSUME e \in a..a + C - 1 PROVE \E k \in 1..C : e = a + k - 1
    <3>1. e - a + 1 \in 1..C /\ e = a + (e - a + 1) - 1 BY <1>1, <1>4, <2>2
    <3> QED BY <3>1
  <2> QED BY <1>3, <2>1, <2>2
<1> QED BY <1>4, <1>6, <1>7 DEF a

(* The asserts of new_subtree hold for every tree of key_gen: a bottom tree,  *)
(* which it builds in the whole tree first, and a top tree over any interval  *)
(* of bottom trees.                                                           *)
THEOREM TreesFit ==
  /\ \A t \in 0..C - 1 :
       Fits(0, t * 2^Half, ComputeTreeLeaves([k \in 1..C |-> t * C + k - 1]))
  /\ \A first, after \in 0..C :
       first + 2 <= after =>
         Fits(Half, first, [p \in 1..after - first |-> Root(BottomTrees[first + p - 1])])
<1>1. Half \in 1..16 /\ Depth = 2 * Half BY Halves
<1>2. C = 2^Half /\ C \in Nat /\ C >= 2 /\ C * C = 2^Depth
  BY SizeOfHalves, HalfTreeAssumption
<1>3. 0 < Depth /\ Half < Depth /\ Depth - 0 = Depth /\ Depth - Half = Half BY <1>1
<1>4. ASSUME NEW t \in 0..C - 1
      PROVE  Fits(0, t * 2^Half, ComputeTreeLeaves([k \in 1..C |-> t * C + k - 1]))
  <2> DEFINE epochs == [k \in 1..C |-> t * C + k - 1]
  <2>1. IsSeq(epochs) /\ Len(epochs) = C /\ Len(epochs) > 0
    <3>1. epochs = [k \in 1..C |-> epochs[k]] OBVIOUS
    <3> HIDE DEF epochs
    <3> QED BY <1>2, <3>1, FunctionSeq
  <2> HIDE DEF epochs
  <2>2. ComputeTreeLeaves(epochs) = [k \in 1..C |-> TreeLeaf(epochs[k])]
    BY <1>2, <2>1, LeavesOneByOne
  <2>3. Len(ComputeTreeLeaves(epochs)) = C
    BY <1>2, <2>2, FunctionSeq
  <2>4. t \in Nat /\ t + 1 <= C BY <1>2
  <2>5. t * C \in Nat /\ (t + 1) * C = t * C + C /\ (t + 1) * C <= C * C
    BY <1>2, <2>4, MulC, MulOrder
  <2>6. t * C + C <= C * C BY <2>5
  <2>7. t * 2^Half + Len(ComputeTreeLeaves(epochs)) <= 2^(Depth - 0)
    BY <1>2, <1>3, <2>3, <2>6
  <2>8. Fits(0, t * 2^Half, ComputeTreeLeaves(epochs)) BY <1>3, <2>7 DEF Fits
  <2> QED BY <2>8 DEF epochs
<1>5. ASSUME NEW first \in 0..C, NEW after \in 0..C, first + 2 <= after
      PROVE  Fits(Half, first, [p \in 1..after - first |-> Root(BottomTrees[first + p - 1])])
  <2> DEFINE roots == [p \in 1..after - first |-> Root(BottomTrees[first + p - 1])]
  <2>1. after - first \in Nat BY <1>2, <1>5
  <2>2. Len(roots) = after - first
    <3>1. roots = [p \in 1..after - first |-> roots[p]] OBVIOUS
    <3> HIDE DEF roots
    <3> QED BY <2>1, <3>1, FunctionSeq
  <2> HIDE DEF roots
  <2>3. first + Len(roots) <= C
    <3>1. first \in Nat /\ after \in Nat /\ after <= C BY <1>2
    <3> QED BY <1>2, <2>2, <3>1
  <2>4. Fits(Half, first, roots) BY <1>2, <1>3, <2>3 DEF Fits
  <2> QED BY <2>4 DEF roots
<1> QED BY <1>4, <1>5

(* bottom_tree_from_prf_key: a bottom tree knows its index, its root was      *)
(* hashed for the place of that index in the top tree, and a path leads to it *)
(* from the leaf of every epoch of the tree.                                  *)
LEMMA BuiltTrees ==
  ASSUME NEW t \in 0..C - 1
  PROVE  LET tree == BottomTrees[t]
         IN  /\ BottomTreeIndex(tree) = t
             /\ tree.layers[1].start_index % 2^Half = 0
             /\ IsHashed(Half, t, Root(tree))
             /\ \A e \in Leaves(t) : Leads(tree, 0, e, TreeLeaf(e))
<1> DEFINE epochs == [k \in 1..C |-> t * C + k - 1]
           leafs  == ComputeTreeLeaves(epochs)
           tree   == BottomTrees[t]
<1>1. tree = NewBottomTree(t, leafs) BY DEF BottomTrees
<1>2. C \in Nat /\ C > 0 /\ C = Width /\ t \in Nat BY SizeOfHalves
<1>3. /\ IsSeq(epochs) /\ Len(epochs) = C
      /\ \A k \in 1..C : epochs[k] = t * C + k - 1
  <2>1. epochs = [k \in 1..C |-> epochs[k]] OBVIOUS
  <2>2. \A k \in 1..C : epochs[k] = t * C + k - 1 OBVIOUS
  <2> HIDE DEF epochs
  <2> QED BY <1>2, <2>1, <2>2, FunctionSeq
<1> HIDE DEF epochs
<1>4. leafs = [k \in 1..C |-> TreeLeaf(epochs[k])]
  BY <1>2, <1>3, LeavesOneByOne
<1> HIDE DEF leafs, tree
<1>5. IsSeq(leafs) /\ Len(leafs) = C /\ \A k \in 1..C : leafs[k] = TreeLeaf(epochs[k])
  BY <1>2, <1>4, FunctionSeq
<1>6. \A e : IsHashed(0, e, TreeLeaf(e)) BY LeafOfEnds DEF IsHashed
<1>7. LeafNodes(t, leafs)
  <2>1. \A k \in 1..C : IsHashed(0, t * C + k - 1, leafs[k])
    <3>1. \A k \in 1..C : IsHashed(0, epochs[k], leafs[k]) BY <1>5, <1>6
    <3> QED BY <1>3, <3>1
  <2> QED BY <1>2, <1>5, <2>1 DEF LeafNodes, HashedFrom
<1>8. /\ BottomTreeIndex(tree) = t /\ tree.layers[1].start_index % Width = 0
      /\ IsHashed(Half, t, Root(tree))
      /\ \A k \in 1..Width : Leads(tree, 0, t * Width + k - 1, leafs[k])
  BY <1>1, <1>2, <1>7, BottomTreeProperties
<1>9. ASSUME NEW e \in Leaves(t) PROVE Leads(tree, 0, e, TreeLeaf(e))
  <2>1. PICK k \in 1..C : e = t * C + k - 1 BY EpochsOfTree
  <2>2. leafs[k] = TreeLeaf(e) BY <1>3, <1>5, <2>1
  <2>3. Leads(tree, 0, e, leafs[k]) BY <1>2, <1>8, <2>1
  <2> QED BY <2>2, <2>3
<1> QED BY <1>8, <1>9 DEF tree, Width

(* The bottom trees whose roots a top tree holds.                             *)
RootsIn(top) == {t \in 0..C - 1 : CommittedAt(top, t, Root(BottomTrees[t]))}

(* key_gen's top tree commits to the roots of the bottom trees it was made    *)
(* from, each at the place of its index, and to those of no others: padding   *)
(* is not taken for a root, nor for anything that was hashed.                 *)
LEMMA BuiltTopTree ==
  ASSUME NEW first \in Nat, NEW after \in Nat, first + 2 <= after, after <= C
  PROVE  LET top == TopTree(first, after)
         IN  /\ RootsIn(top) = first..after - 1
             /\ \A t \in first..after - 1 :
                  Leads(top, Half, t, Root(BottomTrees[t]))
             /\ OnlyFrom(top, first..after - 1)
<1> DEFINE n     == after - first
           roots == [p \in 1..n |-> Root(BottomTrees[first + p - 1])]
           top   == TopTree(first, after)
<1>1. top = NewTopTree("rng", first, roots) BY DEF TopTree
<1>2. n \in Nat /\ n > 0 /\ first + n <= Width /\ first + n - 1 = after - 1
  BY SizeOfHalves
<1>3. \A p \in 1..n : first + p - 1 \in 0..C - 1 /\ first + p - 1 \in first..after - 1
  BY SizeOfHalves
<1>4. \A t \in first..after - 1 :
        /\ t - first + 1 \in 1..n /\ first + (t - first + 1) - 1 = t
        /\ t \in 0..C - 1
  BY SizeOfHalves
<1>5. /\ IsSeq(roots) /\ Len(roots) = n
      /\ \A p \in 1..n : roots[p] = Root(BottomTrees[first + p - 1])
  <2>1. roots = [p \in 1..n |-> roots[p]] OBVIOUS
  <2>2. \A p \in 1..n : roots[p] = Root(BottomTrees[first + p - 1]) OBVIOUS
  <2> HIDE DEF roots, n
  <2> QED BY <1>2, <2>1, <2>2, FunctionSeq
<1> HIDE DEF n, roots, top
<1>6. \A t \in 0..C - 1 : IsHashed(Half, t, Root(BottomTrees[t])) BY BuiltTrees
<1>7. HashedFrom(Half, first, roots)
  BY <1>2, <1>3, <1>5, <1>6 DEF HashedFrom
<1>8. /\ Holds(top.layers[1], Half, first, roots)
      /\ \A p \in 1..n : Leads(top, Half, first + p - 1, roots[p])
      /\ OnlyFrom(top, first..after - 1)
  <2> DEFINE made == NewTopTree("rng", first, roots)
  <2>1. /\ Holds(made.layers[1], Half, first, roots)
        /\ \A p \in 1..Len(roots) : Leads(made, Half, first + p - 1, roots[p])
        /\ OnlyFrom(made, first..first + Len(roots) - 1)
    BY <1>2, <1>5, <1>7, TopTreeProperties
  <2> HIDE DEF made
  <2>2. top = made BY <1>1 DEF made
  <2> QED BY <1>2, <1>5, <2>1, <2>2
<1>9. ASSUME NEW t \in first..after - 1
      PROVE  /\ Leads(top, Half, t, Root(BottomTrees[t]))
             /\ t \in Places(top.layers[1])
             /\ At(top.layers[1], t) = Root(BottomTrees[t])
  <2>1. PICK p \in 1..n : first + p - 1 = t BY <1>4
  <2>2. roots[p] = Root(BottomTrees[t]) BY <1>5, <2>1
  <2>3. /\ first + p - 1 \in Places(top.layers[1])
        /\ At(top.layers[1], first + p - 1) = roots[p]
    BY <1>5, <1>8 DEF Holds
  <2> QED BY <1>8, <2>1, <2>2, <2>3
<1>10. ASSUME NEW t \in 0..C - 1
       PROVE  CommittedAt(top, t, Root(BottomTrees[t])) <=>
                t \in Places(top.layers[1]) /\ At(top.layers[1], t) = Root(BottomTrees[t])
  BY DEF CommittedAt, InLowestLayer, Places, At
<1>11. ASSUME NEW t \in 0..C - 1, CommittedAt(top, t, Root(BottomTrees[t]))
       PROVE  t \in first..after - 1
  <2>1. t \in first..first + Len(roots) - 1
    BY <1>6, <1>8, <1>10, <1>11 DEF Holds
  <2> QED BY <1>2, <1>5, <2>1
<1>12. RootsIn(top) = first..after - 1
  BY <1>4, <1>9, <1>10, <1>11 DEF RootsIn
<1> QED BY <1>8, <1>9, <1>12 DEF top

-------------------------------------------------------------------------------
(* A key is a record of seven fields.                                         *)
KeyOf(epoch, count, top, index, left, right, used) ==
  [activation_epoch       |-> epoch,
   num_active_epochs      |-> count,
   top_tree               |-> top,
   left_bottom_tree_index |-> index,
   left_bottom_tree       |-> left,
   right_bottom_tree      |-> right,
   used_epochs            |-> used]

LEMMA KeyRecord ==
  ASSUME NEW k \in SecretKeys
  PROVE  k = KeyOf(k.activation_epoch, k.num_active_epochs, k.top_tree,
                   k.left_bottom_tree_index, k.left_bottom_tree,
                   k.right_bottom_tree, k.used_epochs)
BY DEF SecretKeys, KeyOf

(* Putting trees in for indices, and the methods, on such a record.           *)
LEMMA RecordTrees ==
  \A a, b, s, i, l, r, u, top :
    WithTrees(KeyOf(a, b, s, i, l, r, u), top) =
      KeyOf(a, b, top, i, BottomTrees[l], BottomTrees[r], u)
<1> SUFFICES ASSUME NEW a, NEW b, NEW s, NEW i, NEW l, NEW r, NEW u, NEW top
             PROVE  WithTrees(KeyOf(a, b, s, i, l, r, u), top) =
                      KeyOf(a, b, top, i, BottomTrees[l], BottomTrees[r], u)
  OBVIOUS
<1> DEFINE k == KeyOf(a, b, s, i, l, r, u)
           x == BottomTrees[l]
           y == BottomTrees[r]
<1>1. k.left_bottom_tree = l /\ k.right_bottom_tree = r BY DEF KeyOf
<1>2. WithTrees(k, top) = [k EXCEPT !.top_tree = top, !.left_bottom_tree = x,
                                    !.right_bottom_tree = y]
  BY <1>1 DEF WithTrees
<1> HIDE DEF x, y
<1> QED BY <1>2 DEF KeyOf, x, y

LEMMA RecordIndices ==
  \A a, b, s, i, l, r, u :
    Indices(KeyOf(a, b, s, i, l, r, u)) =
      KeyOf(a, b, RootsIn(s), i, BottomTreeIndex(l), BottomTreeIndex(r), u)
<1> SUFFICES ASSUME NEW a, NEW b, NEW s, NEW i, NEW l, NEW r, NEW u
             PROVE  Indices(KeyOf(a, b, s, i, l, r, u)) =
                      KeyOf(a, b, RootsIn(s), i, BottomTreeIndex(l), BottomTreeIndex(r), u)
  OBVIOUS
<1> DEFINE k == KeyOf(a, b, s, i, l, r, u)
<1>1. k.top_tree = s /\ k.left_bottom_tree = l /\ k.right_bottom_tree = r
  BY DEF KeyOf
<1>2. Indices(k) = [k EXCEPT !.top_tree = RootsIn(s),
                             !.left_bottom_tree = BottomTreeIndex(l),
                             !.right_bottom_tree = BottomTreeIndex(r)]
  BY <1>1 DEF Indices, RootsIn
<1> QED BY <1>2 DEF KeyOf

LEMMA RecordSorted ==
  \A a, b, s, i, l, r, u :
    Sorted(KeyOf(a, b, s, i, l, r, u)) = KeyOf(a, b, s, i, l, r, SortDedup(u))
BY DEF Sorted, KeyOf

LEMMA RecordConsume ==
  \A a, b, s, i, l, r, u, p, e :
    Consume(KeyOf(a, b, s, i, l, r, u), p, e) =
      KeyOf(a, b, s, i, l, r, InsertAt(u, p, e))
BY DEF Consume, KeyOf

LEMMA RecordAdvanced ==
  \A a, b, s, i, l, r, u :
    LET k == KeyOf(a, b, s, i, l, r, u)
    IN  /\ Advanced(k) = KeyOf(a, b, s, i + 1, r, i + 2, RetainFrom(u, (i + 1) * C))
        /\ RebuiltTree(k) = BottomTrees[i + 2]
<1> SUFFICES ASSUME NEW a, NEW b, NEW s, NEW i, NEW l, NEW r, NEW u
             PROVE  LET k == KeyOf(a, b, s, i, l, r, u)
                    IN  /\ Advanced(k) = KeyOf(a, b, s, i + 1, r, i + 2,
                                               RetainFrom(u, (i + 1) * C))
                        /\ RebuiltTree(k) = BottomTrees[i + 2]
  OBVIOUS
<1>1. Advanced(KeyOf(a, b, s, i, l, r, u)) =
        KeyOf(a, b, s, i + 1, r, i + 2, RetainFrom(u, (i + 1) * C))
  <2> DEFINE k == KeyOf(a, b, s, i, l, r, u)
             w == RetainFrom(u, (i + 1) * C)
  <2>1. k.left_bottom_tree_index = i /\ k.right_bottom_tree = r /\ k.used_epochs = u
    BY DEF KeyOf
  <2>2. Advanced(k) = [k EXCEPT !.left_bottom_tree = r, !.right_bottom_tree = i + 2,
                                !.left_bottom_tree_index = i + 1, !.used_epochs = w]
    BY <2>1 DEF Advanced
  <2> HIDE DEF w
  <2> QED BY <2>2 DEF KeyOf, w
<1>2. RebuiltTree(KeyOf(a, b, s, i, l, r, u)) = BottomTrees[i + 2]
  BY DEF RebuiltTree, KeyOf
<1> QED BY <1>1, <1>2

LEMMA RecordRight ==
  \A a, b, s, i, l, r, u, t :
    [KeyOf(a, b, s, i, l, r, u) EXCEPT !.right_bottom_tree = t] =
      KeyOf(a, b, s, i, l, t, u)
BY DEF KeyOf

LEMMA TreesPutIn ==
  ASSUME NEW k \in SecretKeys, NEW top
  PROVE  LET full == WithTrees(k, top)
         IN  /\ full = KeyOf(k.activation_epoch, k.num_active_epochs, top,
                             k.left_bottom_tree_index, BottomTrees[k.left_bottom_tree],
                             BottomTrees[k.right_bottom_tree], k.used_epochs)
             /\ Sorted(full) = WithTrees(Sorted(k), top)
             /\ \A p, e : Consume(full, p, e) = WithTrees(Consume(k, p, e), top)
             /\ [Advanced(full) EXCEPT !.right_bottom_tree = RebuiltTree(full)] =
                  WithTrees(Advanced(k), top)
<1>1. PICK a, b, s, i, l, r, u : k = KeyOf(a, b, s, i, l, r, u) BY KeyRecord
<1>2. /\ k.activation_epoch = a /\ k.num_active_epochs = b
      /\ k.left_bottom_tree_index = i /\ k.left_bottom_tree = l
      /\ k.right_bottom_tree = r /\ k.used_epochs = u
  BY <1>1 DEF KeyOf
<1> DEFINE full == WithTrees(k, top)
<1>3. full = KeyOf(a, b, top, i, BottomTrees[l], BottomTrees[r], u)
  BY <1>1, RecordTrees
<1> HIDE DEF full
<1>4. Sorted(full) = WithTrees(Sorted(k), top)
  <2>1. Sorted(full) = KeyOf(a, b, top, i, BottomTrees[l], BottomTrees[r], SortDedup(u))
    BY <1>3, RecordSorted
  <2>2. Sorted(k) = KeyOf(a, b, s, i, l, r, SortDedup(u)) BY <1>1, RecordSorted
  <2> QED BY <2>1, <2>2, RecordTrees
<1>5. ASSUME NEW p, NEW e
      PROVE  Consume(full, p, e) = WithTrees(Consume(k, p, e), top)
  <2>1. Consume(full, p, e) =
          KeyOf(a, b, top, i, BottomTrees[l], BottomTrees[r], InsertAt(u, p, e))
    BY <1>3, RecordConsume
  <2>2. Consume(k, p, e) = KeyOf(a, b, s, i, l, r, InsertAt(u, p, e))
    BY <1>1, RecordConsume
  <2> QED BY <2>1, <2>2, RecordTrees
<1>6. [Advanced(full) EXCEPT !.right_bottom_tree = RebuiltTree(full)] =
        WithTrees(Advanced(k), top)
  <2> DEFINE w == RetainFrom(u, (i + 1) * C)
  <2>1. Advanced(k) = KeyOf(a, b, s, i + 1, r, i + 2, w) BY <1>1, RecordAdvanced
  <2>2. /\ Advanced(full) = KeyOf(a, b, top, i + 1, BottomTrees[r], i + 2, w)
        /\ RebuiltTree(full) = BottomTrees[i + 2]
    BY <1>3, RecordAdvanced
  <2> HIDE DEF w
  <2>3. [Advanced(full) EXCEPT !.right_bottom_tree = RebuiltTree(full)] =
          KeyOf(a, b, top, i + 1, BottomTrees[r], BottomTrees[i + 2], w)
    BY <2>2, RecordRight
  <2> QED BY <2>1, <2>3, RecordTrees
<1> QED BY <1>2, <1>3, <1>4, <1>5, <1>6 DEF full

(* It changes nothing that the methods look at but the trees, and commutes    *)
(* with what they do to the key.                                              *)
LEMMA SameMethods ==
  ASSUME NEW k \in SecretKeys, NEW top
  PROVE  LET full == WithTrees(k, top)
         IN  /\ full.top_tree = top
             /\ full.left_bottom_tree_index = k.left_bottom_tree_index
             /\ full.left_bottom_tree = BottomTrees[k.left_bottom_tree]
             /\ full.right_bottom_tree = BottomTrees[k.right_bottom_tree]
             /\ full.used_epochs = k.used_epochs
             /\ PreparedInterval(full) = PreparedInterval(k)
             /\ PreparedStart(full) = PreparedStart(k)
             /\ PreparedEnd(full) = PreparedEnd(k)
             /\ ActivationEnd(full) = ActivationEnd(k)
             /\ ActivationIntervalOf(full) = ActivationIntervalOf(k)
             /\ UsedEpochs(full) = UsedEpochs(k)
             /\ CanAdvance(full) = CanAdvance(k)
             /\ \A e : BottomTree(full, e) = BottomTrees[BottomTree(k, e)]
             /\ Sorted(full) = WithTrees(Sorted(k), top)
             /\ \A p, e : Consume(full, p, e) = WithTrees(Consume(k, p, e), top)
<1> DEFINE full == WithTrees(k, top)
<1>1. full = KeyOf(k.activation_epoch, k.num_active_epochs, top,
                   k.left_bottom_tree_index, BottomTrees[k.left_bottom_tree],
                   BottomTrees[k.right_bottom_tree], k.used_epochs)
  BY TreesPutIn
<1>2. Sorted(full) = WithTrees(Sorted(k), top) BY TreesPutIn
<1>3. \A p, e : Consume(full, p, e) = WithTrees(Consume(k, p, e), top)
  BY TreesPutIn
<1> HIDE DEF full
<1>4. /\ full.top_tree = top
      /\ full.left_bottom_tree_index = k.left_bottom_tree_index
      /\ full.left_bottom_tree = BottomTrees[k.left_bottom_tree]
      /\ full.right_bottom_tree = BottomTrees[k.right_bottom_tree]
      /\ full.used_epochs = k.used_epochs
      /\ full.activation_epoch = k.activation_epoch
      /\ full.num_active_epochs = k.num_active_epochs
  BY <1>1 DEF KeyOf
<1>5. /\ PreparedInterval(full) = PreparedInterval(k)
      /\ PreparedStart(full) = PreparedStart(k)
      /\ PreparedEnd(full) = PreparedEnd(k)
      /\ ActivationEnd(full) = ActivationEnd(k)
      /\ ActivationIntervalOf(full) = ActivationIntervalOf(k)
      /\ UsedEpochs(full) = UsedEpochs(k)
      /\ CanAdvance(full) = CanAdvance(k)
  BY <1>4 DEF PreparedInterval, PreparedEnd, PreparedStart, ActivationIntervalOf,
              ActivationEnd, UsedEpochs, CanAdvance
<1>6. \A e : BottomTree(full, e) = BottomTrees[BottomTree(k, e)]
  BY <1>4 DEF BottomTree, Boundary
<1> QED BY <1>2, <1>3, <1>4, <1>5, <1>6 DEF full

(* The tree that advance_preparation rebuilds is the next one.                *)
LEMMA AdvancedTrees ==
  ASSUME NEW k \in SecretKeys, NEW top
  PROVE  LET full == WithTrees(k, top)
         IN  [Advanced(full) EXCEPT !.right_bottom_tree = RebuiltTree(full)] =
               WithTrees(Advanced(k), top)
BY TreesPutIn

(* A full key, of which only the indices of the trees are looked at.          *)
LEMMA IndicesOfTrees ==
  ASSUME NEW k \in SecretKeys, KeyShape(k), NEW top,
         RootsIn(top) = k.top_tree
  PROVE  Indices(WithTrees(k, top)) = k
<1>1. PICK first \in 0..C, after \in 0..C :
        /\ first <= k.left_bottom_tree_index
        /\ k.left_bottom_tree_index + 2 <= after
        /\ k.left_bottom_tree = k.left_bottom_tree_index
        /\ k.right_bottom_tree = k.left_bottom_tree_index + 1
  BY DEF KeyShape
<1>2. k.left_bottom_tree \in 0..C - 1 /\ k.right_bottom_tree \in 0..C - 1
  BY <1>1, Numbers DEF SecretKeys
<1>3. /\ BottomTreeIndex(BottomTrees[k.left_bottom_tree]) = k.left_bottom_tree
      /\ BottomTreeIndex(BottomTrees[k.right_bottom_tree]) = k.right_bottom_tree
  BY <1>2, BuiltTrees
<1>4. WithTrees(k, top) =
        KeyOf(k.activation_epoch, k.num_active_epochs, top,
              k.left_bottom_tree_index, BottomTrees[k.left_bottom_tree],
              BottomTrees[k.right_bottom_tree], k.used_epochs)
  BY TreesPutIn
<1>5. Indices(WithTrees(k, top)) =
        KeyOf(k.activation_epoch, k.num_active_epochs, RootsIn(top),
              k.left_bottom_tree_index,
              BottomTreeIndex(BottomTrees[k.left_bottom_tree]),
              BottomTreeIndex(BottomTrees[k.right_bottom_tree]), k.used_epochs)
  BY <1>4, RecordIndices
<1> QED BY <1>3, <1>5, KeyRecord

-------------------------------------------------------------------------------
(* The path of an epoch goes through its own bottom tree to the root of the   *)
(* top tree, and none of the asserts on the way fires.                        *)
LEMMA PathOfEpoch ==
  ASSUME NEW top, NEW t \in 0..C - 1, Leads(top, Half, t, Root(BottomTrees[t])),
         NEW e \in Leaves(t)
  PROVE  LET path == CombinedPath(top, BottomTrees[t], e)
         IN  /\ PathsExist(top, BottomTrees[t], e)
             /\ IsSeq(path) /\ Len(path) = Depth
             /\ SubSeq(path, 1, Half) = Path(BottomTrees[t], e)
             /\ \E value : /\ value[0] = TreeLeaf(e) /\ value[Depth] = Root(top)
                           /\ Climbs(value, path, 0, e)
<1> DEFINE bottom == BottomTrees[t]
           path   == CombinedPath(top, bottom, e)
           below  == Path(bottom, e)
<1>1. /\ BottomTreeIndex(bottom) = t /\ bottom.layers[1].start_index % 2^Half = 0
      /\ Leads(bottom, 0, e, TreeLeaf(e))
  BY BuiltTrees
<1>2. e \in Nat /\ e \div Width = t
  <2>1. e \in Nat /\ e \div C = t BY EpochsOfTree
  <2> QED BY <2>1, SizeOfHalves
<1> HIDE DEF bottom
<1>3. /\ IsSeq(path) /\ Len(path) = Depth
      /\ \A l \in 1..Half : path[l] = below[l]
      /\ \E value : /\ value[0] = TreeLeaf(e) /\ value[Depth] = Root(top)
                    /\ Climbs(value, path, 0, e)
  BY <1>1, <1>2, CombinedLeads DEF bottom
<1>4. InLowestLayer(bottom, e) /\ InLowestLayer(top, t)
  BY <1>1 DEF Leads
<1>5. PathsExist(top, bottom, e) BY <1>1, <1>4 DEF PathsExist
<1>6. IsSeq(below) /\ Len(below) = Half BY <1>1 DEF Leads
<1> HIDE DEF path, below
<1>7. SubSeq(path, 1, Half) = below
  <2>1. below = [l \in 1..Half |-> below[l]] BY <1>6, SeqFunction
  <2>2. Half \in Nat /\ Half <= Len(path) /\ 1..Half \subseteq 1..Len(path)
    BY <1>3, Halves
  <2>3. SubSeq(path, 1, Half) = [l \in 1..Half |-> path[l]]
    <3>1. path \in Seq(Range(path)) BY <1>3 DEF IsSeq
    <3>2. SubSeq(path, 1, Half) = [l \in 1..(1 + Half - 1) |-> path[l + 1 - 1]]
      BY <3>1, <2>2, SMT
    <3>3. 1 + Half - 1 = Half /\ \A l \in 1..Half : l + 1 - 1 = l BY <2>2
    <3> QED BY <3>2, <3>3
  <2> QED BY <1>3, <2>1, <2>3
<1> QED BY <1>3, <1>5, <1>7 DEF path, below, bottom

(* No leaf belongs to two trees, so a signature opens one.                    *)
LEMMA SignatureOpens ==
  ASSUME NEW top, NEW t \in 0..C - 1, Leads(top, Half, t, Root(BottomTrees[t])),
         NEW s, s.epoch \in Leaves(t),
         s.sig.path = CombinedPath(top, BottomTrees[t], s.epoch)
  PROVE  OpenedTrees(s) = {t}
<1> DEFINE e == s.epoch
<1>1. Path(BottomTrees[t], e) = SubSeq(s.sig.path, 1, Half)
  <2>1. SubSeq(CombinedPath(top, BottomTrees[t], e), 1, Half) = Path(BottomTrees[t], e)
    BY PathOfEpoch
  <2> QED BY <2>1
<1>2. \A u \in 0..C - 1 : e \in Leaves(u) => u = t
  <2>1. e \div C = t BY EpochsOfTree
  <2>2. \A u \in 0..C - 1 : e \in Leaves(u) => e \div C = u BY EpochsOfTree
  <2> QED BY <2>1, <2>2
<1> QED BY <1>1, <1>2 DEF OpenedTrees

(* The tree sign picks for an epoch of the window holds its leaf.             *)
LEMMA TreeOfEpoch ==
  ASSUME NEW k \in SecretKeys, KeyShape(k), NEW e \in PreparedInterval(k)
  PROVE  LET t == BottomTree(k, e)
         IN  /\ t \in k.top_tree /\ t \in 0..C - 1
             /\ e \in Leaves(t) /\ e \div C = t
<1> DEFINE t == BottomTree(k, e)
<1>1. t \in k.top_tree /\ e \in Leaves(t) BY PickedTree DEF PathDefined
<1> HIDE DEF t
<1>2. PICK first \in 0..C, after \in 0..C : k.top_tree = first..after - 1
  BY DEF KeyShape
<1>3. t \in 0..C - 1 BY <1>1, <1>2, SizeOfHalves
<1>4. e \div C = t BY <1>1, <1>3, EpochsOfTree
<1> QED BY <1>1, <1>3, <1>4 DEF t

(* What the invariant says of the key.                                        *)
Rooted(top, trees) ==
  \A t \in trees : t \in 0..C - 1 /\ Leads(top, Half, t, Root(BottomTrees[t]))

LEMMA KeyFacts ==
  ASSUME KeyOfTrees
  PROVE  /\ view.key \in SecretKeys /\ KeyShape(view.key)
         /\ view = View(sk, issued) /\ root = Root(sk.top_tree)
         /\ sk = WithTrees(view.key, sk.top_tree)
         /\ RootsIn(sk.top_tree) = view.key.top_tree
         /\ Rooted(sk.top_tree, view.key.top_tree)
         /\ view.key.top_tree # {} /\ OnlyFrom(sk.top_tree, view.key.top_tree)
<1>1. PICK first \in 0..C, after \in 0..C :
        /\ first + 2 <= after /\ view.key.top_tree = first..after - 1
        /\ sk = WithTrees(view.key, TopTree(first, after))
  BY DEF KeyOfTrees
<1>2. view.key \in SecretKeys /\ KeyShape(view.key)
  BY DEF KeyOfTrees
<1> DEFINE top == TopTree(first, after)
           k   == view.key
<1>3. first \in Nat /\ after \in Nat /\ after <= C BY SizeOfHalves
<1>4. /\ RootsIn(top) = first..after - 1
      /\ \A t \in first..after - 1 : Leads(top, Half, t, Root(BottomTrees[t]))
      /\ OnlyFrom(top, first..after - 1)
  BY <1>1, <1>3, BuiltTopTree
<1>5. \A t \in first..after - 1 : t \in 0..C - 1 BY <1>3, SizeOfHalves
<1> HIDE DEF top, k
<1>6. sk = WithTrees(k, top) /\ k \in SecretKeys BY <1>1, <1>2 DEF k, top
<1>7. sk.top_tree = top BY <1>6, SameMethods
<1>8. k.top_tree = first..after - 1 BY <1>1 DEF k
<1>9. RootsIn(top) = k.top_tree /\ Rooted(top, k.top_tree) /\ OnlyFrom(top, k.top_tree)
  BY <1>4, <1>5, <1>8 DEF Rooted
<1>11. k.top_tree # {}
  <2>1. first \in first..after - 1 BY <1>1, <1>3
  <2> QED BY <1>8, <2>1
<1>10. view = View(sk, issued) /\ root = Root(sk.top_tree)
  BY DEF KeyOfTrees
<1> QED BY <1>2, <1>6, <1>7, <1>9, <1>10, <1>11 DEF k

(* sign and advance_preparation look at the key as XmssKey's do.              *)
LEMMA SameKey ==
  ASSUME KeyOfTrees
  PROVE  /\ sk.left_bottom_tree_index = view.key.left_bottom_tree_index
         /\ sk.left_bottom_tree = BottomTrees[view.key.left_bottom_tree]
         /\ sk.right_bottom_tree = BottomTrees[view.key.right_bottom_tree]
         /\ sk.used_epochs = view.key.used_epochs
         /\ PreparedInterval(sk) = PreparedInterval(view.key)
         /\ PreparedEnd(sk) = PreparedEnd(view.key)
         /\ ActivationIntervalOf(sk) = ActivationIntervalOf(view.key)
         /\ UsedEpochs(sk) = UsedEpochs(view.key)
         /\ CanAdvance(sk) = CanAdvance(view.key)
         /\ \A e : BottomTree(sk, e) = BottomTrees[BottomTree(view.key, e)]
         /\ Sorted(sk) = WithTrees(Sorted(view.key), sk.top_tree)
<1> DEFINE k   == view.key
           top == sk.top_tree
<1>1. k \in SecretKeys /\ sk = WithTrees(k, top) BY KeyFacts
<1> HIDE DEF k, top
<1> QED BY <1>1, SameMethods DEF k

(* For an epoch of the window, sign finds a path, and what it returns is the  *)
(* signature of the epoch.                                                    *)
LEMMA SignedInWindow ==
  ASSUME KeyOfTrees, NEW e \in PreparedInterval(sk), NEW m
  PROVE  /\ PathExists(e)
         /\ [epoch |-> e, message |-> m, sig |-> NewSignature(e, m)] =
              SignatureOf(sk.top_tree, e, m)
         /\ e \div C = BottomTree(view.key, e)
         /\ e \div C \in view.key.top_tree
         /\ OpenedTrees(SignatureOf(sk.top_tree, e, m)) = {BottomTree(view.key, e)}
<1> DEFINE k   == view.key
           top == sk.top_tree
           t   == BottomTree(k, e)
<1>1. k \in SecretKeys /\ KeyShape(k) /\ Rooted(top, k.top_tree) BY KeyFacts
<1>2. e \in PreparedInterval(k) /\ BottomTree(sk, e) = BottomTrees[t] BY SameKey
<1> HIDE DEF k
<1>3. t \in k.top_tree /\ t \in 0..C - 1 /\ e \in Leaves(t) /\ e \div C = t
  BY <1>1, <1>2, TreeOfEpoch
<1> HIDE DEF t, top
<1>4. Leads(top, Half, t, Root(BottomTrees[t])) BY <1>1, <1>3 DEF Rooted
<1>5. PathsExist(top, BottomTrees[t], e) BY <1>3, <1>4, PathOfEpoch
<1>6. PathExists(e) BY <1>2, <1>5 DEF PathExists, top
<1> DEFINE s == SignatureOf(top, e, m)
<1>7. [epoch |-> e, message |-> m, sig |-> NewSignature(e, m)] = s
  BY <1>2, <1>3 DEF SignatureOf, NewSignature, top
<1>8. s.epoch = e /\ s.sig.path = CombinedPath(top, BottomTrees[t], e)
  BY <1>3 DEF SignatureOf
<1> HIDE DEF s
<1>9. OpenedTrees(s) = {t}
  <2>1. s.epoch \in Leaves(t) /\ s.sig.path = CombinedPath(top, BottomTrees[t], s.epoch)
    BY <1>3, <1>8
  <2> QED BY <1>3, <1>4, <2>1, SignatureOpens
<1> QED BY <1>3, <1>6, <1>7, <1>9 DEF s, t, k, top

(* The key after a step under the same top tree.                              *)
LEMMA KeyKept ==
  ASSUME KeyOfTrees, NEW k \in SecretKeys, KeyShape(k),
         k.top_tree = view.key.top_tree,
         sk' = WithTrees(k, sk.top_tree), view' = View(sk', issued'), root' = root
  PROVE  KeyOfTrees' /\ view'.key = k /\ sk'.top_tree = sk.top_tree
<1>1. PICK first \in 0..C, after \in 0..C :
        /\ first + 2 <= after /\ view.key.top_tree = first..after - 1
        /\ sk = WithTrees(view.key, TopTree(first, after))
  BY DEF KeyOfTrees
<1> DEFINE top == TopTree(first, after)
           old == view.key
<1>2. old \in SecretKeys /\ RootsIn(sk.top_tree) = old.top_tree
      /\ root = Root(sk.top_tree)
  BY KeyFacts
<1> HIDE DEF top, old
<1>3. sk = WithTrees(old, top) BY <1>1 DEF top, old
<1>4. sk.top_tree = top BY <1>2, <1>3, SameMethods
<1>5. sk' = WithTrees(k, top) BY <1>4
<1>6. sk'.top_tree = top BY <1>5, SameMethods
<1>7. RootsIn(top) = k.top_tree BY <1>2, <1>4 DEF old
<1>8. Indices(sk') = k BY <1>5, <1>7, IndicesOfTrees
<1>9. view'.key = k BY <1>8 DEF View
<1>10. /\ first + 2 <= after /\ view'.key.top_tree = first..after - 1
       /\ sk' = WithTrees(view'.key, TopTree(first, after))
  BY <1>1, <1>5, <1>9 DEF top, old
<1>11. root' = Root(sk'.top_tree) BY <1>2, <1>4, <1>6
<1>12. KeyOfTrees' BY <1>9, <1>10, <1>11 DEF KeyOfTrees
<1> QED BY <1>4, <1>6, <1>9, <1>12

-------------------------------------------------------------------------------
LEMMA SignEpochs == SignEpoch \subseteq Epoch /\ SignEpoch \subseteq Nat
BY SignEpochAssumption, U32Assumption DEF Epoch

LEMMA InitLeanSigInv == Init => LeanSigInv
<1> SUFFICES ASSUME Init PROVE LeanSigInv OBVIOUS
<1>1. PICK r \in Request : /\ ValidRequest(r[1], r[2])
                           /\ sk = KeyWithTrees(Expand(r[1], r[2]))
  BY DEF Init
<1>2. issued = {} /\ root = Root(sk.top_tree) /\ view = View(sk, issued)
  BY DEF Init
<1> DEFINE i   == Expand(r[1], r[2])
           k   == KeyFor(i)
           top == TopTree(i.first, i.after)
<1>3. i.first \in Nat /\ i.after \in Nat /\ i.first + 2 <= i.after /\ i.after <= C
  <2>1. UsizeRange > Lifetime + 2 * C BY WideUsize
  <2>2. r[1] \in Nat /\ r[2] \in Nat BY RequestAssumption
  <2> QED BY <1>1, <2>1, <2>2, ExpandCovers DEF Covers
<1>4. sk = WithTrees(k, top) BY <1>1 DEF KeyWithTrees
<1> HIDE DEF i
<1>5. k \in SecretKeys /\ KeyShape(k) /\ UsedEpochs(k) = {}
  BY <1>3, GeneratedKey
<1>6. k.top_tree = i.first..i.after - 1 BY DEF KeyFor
<1>7. RootsIn(top) = k.top_tree BY <1>3, <1>6, BuiltTopTree
<1> HIDE DEF k
<1>8. Indices(sk) = k /\ UsedEpochs(sk) = {}
  <2>1. Indices(sk) = k BY <1>4, <1>5, <1>7, IndicesOfTrees
  <2>2. UsedEpochs(sk) = {} BY <1>4, <1>5, SameMethods
  <2> QED BY <2>1, <2>2
<1>9. view.key = k BY <1>2, <1>8 DEF View
<1>10. KeyOfTrees
  <2>1. i.first \in 0..C /\ i.after \in 0..C BY <1>3, SizeOfHalves
  <2>2. sk = WithTrees(view.key, TopTree(i.first, i.after)) BY <1>4, <1>9
  <2> QED BY <1>2, <1>3, <1>5, <1>6, <1>9, <2>1, <2>2 DEF KeyOfTrees
<1>11. SignaturesMade /\ SignedOnce
  BY <1>2, <1>8 DEF SignaturesMade, SignedOnce
<1> QED BY <1>10, <1>11 DEF LeanSigInv

(* A call that returns no signature and does not move the window keeps the    *)
(* invariant: it leaves the key alone or sorts the list of used epochs.       *)
LEMMA QuietStep ==
  ASSUME LeanSigInv, sk' = sk \/ sk' = Sorted(sk),
         issued' = issued, root' = root, view' = View(sk', issued')
  PROVE  /\ LeanSigInv' /\ view'.issued = view.issued
         /\ sk' = sk => view'.key = view.key
         /\ sk' = Sorted(sk) => view'.key = Sorted(view.key)
<1> DEFINE old == view.key
<1>1. KeyOfTrees /\ SignaturesMade /\ SignedOnce BY DEF LeanSigInv
<1>2. /\ old \in SecretKeys /\ KeyShape(old) /\ view = View(sk, issued)
      /\ sk = WithTrees(old, sk.top_tree)
  BY <1>1, KeyFacts
<1>3. /\ PreparedInterval(sk) = PreparedInterval(old)
      /\ PreparedEnd(sk) = PreparedEnd(old) /\ UsedEpochs(sk) = UsedEpochs(old)
      /\ Sorted(sk) = WithTrees(Sorted(old), sk.top_tree)
  BY <1>1, SameKey
<1> HIDE DEF old
<1>4. /\ Sorted(old) \in SecretKeys /\ KeyShape(Sorted(old))
      /\ UsedEpochs(Sorted(old)) = UsedEpochs(old)
      /\ PreparedStart(Sorted(old)) = PreparedStart(old)
      /\ PreparedEnd(Sorted(old)) = PreparedEnd(old)
      /\ Sorted(old).top_tree = old.top_tree
  BY <1>2, SortedKey
<1>5. view'.issued = view.issued BY <1>2 DEF View
<1>6. ASSUME NEW k \in SecretKeys, KeyShape(k), k.top_tree = old.top_tree,
             UsedEpochs(k) = UsedEpochs(old), PreparedStart(k) = PreparedStart(old),
             PreparedEnd(k) = PreparedEnd(old), sk' = WithTrees(k, sk.top_tree)
      PROVE  LeanSigInv' /\ view'.key = k
  <2>1. KeyOfTrees' /\ view'.key = k /\ sk'.top_tree = sk.top_tree
    BY <1>1, <1>6, KeyKept DEF old
  <2>2. /\ PreparedInterval(sk') = PreparedInterval(k)
        /\ PreparedEnd(sk') = PreparedEnd(k) /\ UsedEpochs(sk') = UsedEpochs(k)
    BY <1>6, SameMethods
  <2>3. PreparedInterval(k) = PreparedInterval(old) BY <1>6 DEF PreparedInterval
  <2>4. SignaturesMade' BY <1>1, <1>6, <2>1 DEF SignaturesMade, old
  <2>5. SignedOnce' BY <1>1, <1>3, <1>6, <2>2, <2>3 DEF SignedOnce
  <2> QED BY <2>1, <2>4, <2>5 DEF LeanSigInv
<1>7. CASE sk' = sk
  <2>1. LeanSigInv' /\ view'.key = old BY <1>2, <1>6, <1>7
  <2>2. sk' = Sorted(sk) => view'.key = Sorted(old)
    <3> SUFFICES ASSUME sk' = Sorted(sk) PROVE view'.key = Sorted(old) OBVIOUS
    <3> QED BY <1>3, <1>4, <1>6
  <2> QED BY <1>5, <2>1, <2>2 DEF old
<1>8. CASE sk' = Sorted(sk)
  <2>1. LeanSigInv' /\ view'.key = Sorted(old) BY <1>3, <1>4, <1>6, <1>8
  <2>2. sk' = sk => view'.key = old
    <3> SUFFICES ASSUME sk' = sk PROVE view'.key = old OBVIOUS
    <3> QED BY <1>2, <1>6
  <2> QED BY <1>5, <2>1, <2>2 DEF old
<1> QED BY <1>7, <1>8

(* A slide builds the tree that comes next again, and forgets only epochs the *)
(* window cannot come back to.                                                *)
LEMMA SlideStep ==
  ASSUME LeanSigInv, CanAdvance(sk),
         sk' = [Advanced(sk) EXCEPT !.right_bottom_tree = RebuiltTree(sk)],
         issued' = issued, root' = root, view' = View(sk', issued')
  PROVE  LeanSigInv' /\ view'.issued = view.issued /\ view'.key = Advanced(view.key)
<1> DEFINE old == view.key
           k   == Advanced(old)
           top == sk.top_tree
<1>1. KeyOfTrees /\ SignaturesMade /\ SignedOnce BY DEF LeanSigInv
<1>2. /\ old \in SecretKeys /\ KeyShape(old) /\ view = View(sk, issued)
      /\ sk = WithTrees(old, top)
  BY <1>1, KeyFacts
<1>3. /\ PreparedInterval(sk) = PreparedInterval(old)
      /\ PreparedEnd(sk) = PreparedEnd(old) /\ UsedEpochs(sk) = UsedEpochs(old)
      /\ CanAdvance(old)
  BY <1>1, SameKey
<1> HIDE DEF old
<1>4. /\ k \in SecretKeys /\ KeyShape(k) /\ k.top_tree = old.top_tree
      /\ PreparedStart(k) = PreparedStart(old) + C
      /\ UsedEpochs(k) = {e \in UsedEpochs(old) : e >= PreparedStart(k)}
  BY <1>2, <1>3, AdvancedKey
<1>5. sk' = WithTrees(k, top)
  <2> HIDE DEF top
  <2> QED BY <1>2, AdvancedTrees
<1> HIDE DEF k
<1>6. KeyOfTrees' /\ view'.key = k /\ sk'.top_tree = sk.top_tree
  <2>1. k.top_tree = view.key.top_tree BY <1>4 DEF old
  <2> QED BY <1>1, <1>4, <1>5, <2>1, KeyKept
<1>7. /\ PreparedInterval(sk') = PreparedInterval(k)
      /\ PreparedEnd(sk') = PreparedEnd(k) /\ UsedEpochs(sk') = UsedEpochs(k)
  BY <1>4, <1>5, SameMethods
<1>8. view'.issued = view.issued BY <1>2 DEF View
<1>9. SignaturesMade' BY <1>1, <1>4, <1>6 DEF SignaturesMade, old
<1>10. \A s \in issued : s.epoch \in Int /\ s.epoch < PreparedEnd(old)
  BY <1>1, <1>3, SignEpochs DEF SignaturesMade, SignedOnce
<1>11. /\ PreparedStart(old) \in Int /\ C \in Nat
       /\ PreparedEnd(old) = PreparedStart(old) + 2 * C
       /\ PreparedEnd(k) = PreparedStart(k) + 2 * C
  BY <1>2, <1>4, KeyTypes, SizeOfHalves
<1>12. \A s \in issued' : s.epoch < PreparedEnd(sk')
  BY <1>4, <1>7, <1>10, <1>11
<1>13. UsedEpochs(sk') = {s.epoch : s \in issued'} \cap PreparedInterval(sk')
  <2> DEFINE E == {s.epoch : s \in issued}
  <2>1. UsedEpochs(old) = E \cap PreparedInterval(old)
    BY <1>1, <1>3 DEF SignedOnce
  <2>2. \A e \in E : e \in Int /\ e < PreparedEnd(old) BY <1>10
  <2> HIDE DEF E
  <2>3. ASSUME NEW e \in E
        PROVE  e \in PreparedInterval(old) /\ e >= PreparedStart(k)
                 <=> e \in PreparedInterval(k)
    <3>1. e \in Int /\ e < PreparedEnd(old) BY <2>2
    <3> QED BY <1>4, <1>11, <3>1 DEF PreparedInterval
  <2>4. UsedEpochs(k) = E \cap PreparedInterval(k) BY <1>4, <2>1, <2>3
  <2> QED BY <1>7, <2>4 DEF E
<1>14. SignedOnce' BY <1>1, <1>12, <1>13 DEF SignedOnce
<1> QED BY <1>6, <1>8, <1>9, <1>14 DEF LeanSigInv, k, old

(* A signature is only returned for an epoch that has none, and it is the one *)
(* of that epoch and message under the public key's trees.                    *)
LEMMA SignedStep ==
  ASSUME LeanSigInv, NEW e \in SignEpoch, NEW m \in Message, Signable(e),
         GoodAttempts(e, m) # {}, NEW p \in InsertPositions(Sorted(sk).used_epochs, e),
         sk' = Consume(Sorted(sk), p, e),
         issued' = issued \cup {[epoch |-> e, message |-> m, sig |-> NewSignature(e, m)]},
         root' = root, view' = View(sk', issued')
  PROVE  /\ LeanSigInv'
         /\ view'.key = Consume(Sorted(view.key), p, e)
         /\ view'.issued = view.issued \cup
              {[epoch |-> e, message |-> m, tree |-> BottomTree(view.key, e)]}
<1> DEFINE old == view.key
           top == sk.top_tree
           srt == Sorted(old)
           k   == Consume(srt, p, e)
           new == SignatureOf(top, e, m)
<1>1. KeyOfTrees /\ SignaturesMade /\ SignedOnce BY DEF LeanSigInv
<1>2. /\ old \in SecretKeys /\ KeyShape(old) /\ view = View(sk, issued)
      /\ sk = WithTrees(old, top)
  BY <1>1, KeyFacts
<1>3. /\ PreparedInterval(sk) = PreparedInterval(old)
      /\ PreparedEnd(sk) = PreparedEnd(old) /\ UsedEpochs(sk) = UsedEpochs(old)
      /\ Sorted(sk) = WithTrees(srt, top)
  BY <1>1, SameKey
<1>4. e \in PreparedInterval(sk) /\ e \in Epoch /\ e \in Int
  BY SignEpochs DEF Signable, Prepared
<1>5. /\ issued' = issued \cup {new} /\ e \div C \in old.top_tree
      /\ OpenedTrees(new) = {BottomTree(old, e)}
  BY <1>1, <1>4, SignedInWindow
<1>6. new.epoch = e /\ new.message = m BY DEF SignatureOf
<1>7. new = SignatureOf(top, new.epoch, new.message) BY <1>6
<1> HIDE DEF old, top, new
<1>8. /\ srt \in SecretKeys /\ StrictlyAscending(srt.used_epochs)
      /\ UsedEpochs(srt) = UsedEpochs(old) /\ KeyShape(srt)
      /\ PreparedStart(srt) = PreparedStart(old) /\ PreparedEnd(srt) = PreparedEnd(old)
      /\ srt.top_tree = old.top_tree
  BY <1>2, SortedKey
<1> HIDE DEF srt
<1>9. p \in InsertPositions(srt.used_epochs, e) /\ sk' = WithTrees(k, top)
  BY <1>3, <1>8, SameMethods
<1>10. /\ k \in SecretKeys /\ KeyShape(k)
       /\ UsedEpochs(k) = UsedEpochs(old) \cup {e}
       /\ PreparedStart(k) = PreparedStart(old) /\ PreparedEnd(k) = PreparedEnd(old)
       /\ k.top_tree = old.top_tree
  BY <1>4, <1>8, <1>9, ConsumedKey
<1> HIDE DEF k
<1>11. KeyOfTrees' /\ view'.key = k /\ sk'.top_tree = top
  BY <1>1, <1>9, <1>10, KeyKept DEF old, top
<1>12. /\ PreparedInterval(sk') = PreparedInterval(old)
       /\ PreparedEnd(sk') = PreparedEnd(old)
       /\ UsedEpochs(sk') = UsedEpochs(old) \cup {e}
  <2>1. /\ PreparedInterval(sk') = PreparedInterval(k)
        /\ PreparedEnd(sk') = PreparedEnd(k) /\ UsedEpochs(sk') = UsedEpochs(k)
    BY <1>9, <1>10, SameMethods
  <2> QED BY <1>10, <2>1 DEF PreparedInterval
<1>13. e \notin UsedEpochs(old)
  <2>1. srt.used_epochs \in Seq(Epoch) /\ Epoch \subseteq Int
    BY <1>8, Numbers DEF SecretKeys
  <2>2. InsertPositions(srt.used_epochs, e) = {} <=> e \in Range(srt.used_epochs)
    BY <1>4, <1>8, <2>1, InsertPositionExists
  <2>3. e \notin Range(srt.used_epochs) BY <1>9, <2>2
  <2>4. e \notin UsedEpochs(srt) BY <2>3 DEF UsedEpochs
  <2> QED BY <1>8, <2>4
<1>14. \A s \in issued : s.epoch # e
  BY <1>1, <1>3, <1>4, <1>13 DEF SignedOnce
<1>15. SignaturesMade'
  <2>1. ASSUME NEW s \in issued
        PROVE  /\ s.epoch \in SignEpoch /\ s.message \in Message
               /\ GoodAttempts(s.epoch, s.message) # {}
               /\ s.epoch \div C \in old.top_tree
               /\ s = SignatureOf(top, s.epoch, s.message)
    BY <1>1 DEF SignaturesMade, old, top
  <2>2. /\ new.epoch \in SignEpoch /\ new.message \in Message
        /\ GoodAttempts(new.epoch, new.message) # {}
        /\ new.epoch \div C \in old.top_tree
        /\ new = SignatureOf(top, new.epoch, new.message)
    BY <1>5, <1>6, <1>7
  <2>3. view'.key.top_tree = old.top_tree BY <1>10, <1>11
  <2> QED BY <1>5, <1>11, <2>1, <2>2, <2>3 DEF SignaturesMade
<1>16. SignedOnce'
  <2>1. {s.epoch : s \in issued'} = {s.epoch : s \in issued} \cup {e}
    BY <1>5, <1>6
  <2>2. UsedEpochs(old) = {s.epoch : s \in issued} \cap PreparedInterval(old)
    BY <1>1, <1>3 DEF SignedOnce
  <2>3. UsedEpochs(sk') = {s.epoch : s \in issued'} \cap PreparedInterval(sk')
    BY <1>3, <1>4, <1>12, <2>1, <2>2
  <2>4. \A s, t \in issued' : s.epoch = t.epoch => s = t
    BY <1>1, <1>5, <1>6, <1>14 DEF SignedOnce
  <2>5. e < PreparedEnd(old)
    BY <1>2, <1>3, <1>4, KeyTypes DEF PreparedInterval
  <2>6. \A s \in issued' : s.epoch < PreparedEnd(sk')
    BY <1>1, <1>3, <1>5, <1>6, <1>12, <2>5 DEF SignedOnce
  <2> QED BY <2>3, <2>4, <2>6 DEF SignedOnce
<1>17. view'.issued = view.issued \cup
         {[epoch |-> e, message |-> m, tree |-> BottomTree(old, e)]}
  <2> DEFINE F(s) == {[epoch |-> s.epoch, message |-> s.message, tree |-> t] :
                        t \in OpenedTrees(s)}
  <2>1. view.issued = UNION {F(s) : s \in issued} BY <1>2 DEF View
  <2>2. view'.issued = UNION {F(s) : s \in issued'} BY DEF View
  <2>3. F(new) = {[epoch |-> e, message |-> m, tree |-> BottomTree(old, e)]}
    BY <1>5, <1>6
  <2> HIDE DEF F
  <2> QED BY <1>5, <2>1, <2>2, <2>3
<1> QED BY <1>11, <1>15, <1>16, <1>17 DEF LeanSigInv, k, srt, old

LEMMA NextLeanSigInv == LeanSigInv /\ [Next]_vars => LeanSigInv'
<1> SUFFICES ASSUME LeanSigInv, [Next]_vars PROVE LeanSigInv' OBVIOUS
<1>1. CASE UNCHANGED vars
  BY <1>1 DEF vars, LeanSigInv, KeyOfTrees, SignaturesMade, SignedOnce
<1>2. CASE Next
  <2>1. view' = View(sk', issued') BY <1>2 DEF Next
  <2>2. ASSUME sk' = sk \/ sk' = Sorted(sk), UNCHANGED <<root, issued>>
        PROVE  LeanSigInv'
    BY <2>1, <2>2, QuietStep
  <2>3. ASSUME NEW e \in SignEpoch, NEW m \in Message, Sign(e, m)
        PROVE  LeanSigInv'
    <3>1. CASE SignRefused(e) BY <2>2, <3>1 DEF SignRefused
    <3>2. CASE SignAlreadyUsed(e) BY <2>2, <3>2 DEF SignAlreadyUsed
    <3>3. CASE SignEncodingFails(e, m) BY <2>2, <3>3 DEF SignEncodingFails
    <3>4. CASE SignOk(e, m) /\ PathExists(e)
      <4>1. PICK p \in InsertPositions(Sorted(sk).used_epochs, e) :
              sk' = Consume(Sorted(sk), p, e)
        BY <3>4 DEF SignOk
      <4>2. /\ Signable(e) /\ GoodAttempts(e, m) # {} /\ root' = root
            /\ issued' = issued \cup
                 {[epoch |-> e, message |-> m, sig |-> NewSignature(e, m)]}
        BY <3>4 DEF SignOk, Unused
      <4> QED BY <2>1, <4>1, <4>2, SignedStep
    <3>5. CASE SignOk(e, m) /\ ~PathExists(e) BY <2>2, <3>5 DEF SignOk
    <3> QED BY <2>3, <3>1, <3>2, <3>3, <3>4, <3>5 DEF Sign
  <2>4. CASE AdvancePreparation
    <3>1. CASE CanAdvance(sk) BY <2>1, <2>4, <3>1, SlideStep DEF AdvancePreparation
    <3>2. CASE ~CanAdvance(sk) BY <2>2, <2>4, <3>2 DEF AdvancePreparation
    <3> QED BY <3>1, <3>2
  <2> QED BY <1>2, <2>3, <2>4 DEF Next
<1> QED BY <1>1, <1>2

(* The inductive invariant: the key is the one XmssKey describes with its     *)
(* trees put in, every signature is the one of its epoch and message under    *)
(* the public key's trees, and no epoch has two.                              *)
THEOREM LeanSigInvariant == Spec => []LeanSigInv
<1>1. Init => LeanSigInv BY InitLeanSigInv
<1>2. LeanSigInv /\ [Next]_vars => LeanSigInv' BY NextLeanSigInv
<1> QED BY <1>1, <1>2, PTL DEF Spec

(* What advance_preparation builds again is the tree that the public root     *)
(* commits to, at its place, for every key and however far it has slid.       *)
THEOREM WindowIsCommitted == Spec => []WindowCommitted
<1>1. LeanSigInv => WindowCommitted
  <2> SUFFICES ASSUME LeanSigInv PROVE WindowCommitted OBVIOUS
  <2> DEFINE k   == view.key
             top == sk.top_tree
             i   == k.left_bottom_tree_index
  <2>1. KeyOfTrees BY DEF LeanSigInv
  <2>2. k \in SecretKeys /\ KeyShape(k) /\ RootsIn(top) = k.top_tree
    BY <2>1, KeyFacts
  <2>3. /\ sk.left_bottom_tree_index = i
        /\ sk.left_bottom_tree = BottomTrees[k.left_bottom_tree]
        /\ sk.right_bottom_tree = BottomTrees[k.right_bottom_tree]
    BY <2>1, SameKey
  <2>4. PICK first \in 0..C, after \in 0..C :
          /\ first <= i /\ i + 2 <= after /\ k.top_tree = first..after - 1
          /\ k.left_bottom_tree = i /\ k.right_bottom_tree = i + 1
    BY <2>2 DEF KeyShape
  <2>5. i \in Nat BY <2>2 DEF SecretKeys
  <2> HIDE DEF i, k, top
  <2>6. i \in k.top_tree /\ i + 1 \in k.top_tree BY <2>4, <2>5
  <2>7. CommittedAt(top, i, Root(BottomTrees[i])) BY <2>2, <2>6 DEF RootsIn
  <2>8. CommittedAt(top, i + 1, Root(BottomTrees[i + 1]))
    <3>1. \A t \in k.top_tree : CommittedAt(top, t, Root(BottomTrees[t]))
      BY <2>2 DEF RootsIn
    <3> QED BY <2>6, <3>1
  <2> QED BY <2>3, <2>4, <2>7, <2>8 DEF WindowCommitted, top
<1> QED BY <1>1, LeanSigInvariant, PTL

-------------------------------------------------------------------------------
(* The retry loop stops at the first attempt that gives a codeword.           *)
LEMMA LeastOf ==
  ASSUME NEW S \in SUBSET Nat, S # {}
  PROVE  Min(S) \in S
<1>1. SUFFICES ASSUME \A m \in S : \E x \in S : ~(m <= x)
               PROVE  FALSE
  <2>1. Min(S) = CHOOSE m \in S : \A x \in S : m <= x BY DEF Min
  <2> QED BY <1>1, <2>1
<1> DEFINE T == {n \in Nat : \A x \in S : n < x}
<1>2. T \in SUBSET Nat OBVIOUS
<1>3. 0 \in T
  <2>1. 0 \notin S BY <1>1
  <2>2. \A x \in S : x \in Nat /\ x # 0 BY <2>1
  <2> QED BY <2>2
<1>4. ASSUME NEW n \in T PROVE n + 1 \in T
  <2>1. n \in Nat /\ \A x \in S : x \in Nat /\ n < x BY <1>4
  <2>2. \A x \in S : n + 1 <= x BY <2>1
  <2>3. n + 1 \notin S BY <1>1, <2>2
  <2>4. \A x \in S : n + 1 < x BY <2>1, <2>2, <2>3
  <2> QED BY <2>1, <2>4
<1> HIDE DEF T
<1>5. T = Nat BY <1>2, <1>3, <1>4, Induction
<1>6. PICK x \in S : x \in T BY <1>5
<1>7. x \in Nat /\ x < x BY <1>6 DEF T
<1> QED BY <1>7

(* The randomness of a signature: it hashes any message to a chunk for every  *)
(* chain, and the signed one to a codeword.                                   *)
LEMMA RandomnessFound ==
  ASSUME NEW e \in SignEpoch, NEW m \in Message, GoodAttempts(e, m) # {}
  PROVE  LET rho == SigningRandomness(e, m)
         IN  /\ IsCodeword(MessageHash(m, rho, e))
             /\ MessageHash(m, rho, e) \in Chunks
             /\ \A n \in Message, f \in Epoch : MessageHash(n, rho, f) \in Chunks
<1> DEFINE A == GoodAttempts(e, m)
           a == Min(A)
<1>1. A \subseteq 0..MaxTries - 1 BY DEF GoodAttempts
<1>2. \A x \in 0..MaxTries - 1 : x \in Nat BY MaxTriesAssumption
<1>3. A \in SUBSET Nat BY <1>1, <1>2
<1>4. a \in A
  <2> HIDE DEF A
  <2> QED BY <1>3, LeastOf DEF A
<1> HIDE DEF a
<1>5. a \in 0..MaxTries - 1 /\ IsCodeword(MessageHash(m, Randomness(e, m, a), e))
  BY <1>4 DEF GoodAttempts
<1>6. SigningRandomness(e, m) = Randomness(e, m, a) BY DEF SigningRandomness, a
<1>7. e \in Epoch BY SignEpochs
<1>8. \A n \in Message, f \in Epoch : MessageHash(n, Randomness(e, m, a), f) \in Chunks
  BY <1>5, MessageHashAssumption
<1> QED BY <1>5, <1>6, <1>7, <1>8

(* What the invariant says of a signature: its path leads from the leaf of    *)
(* its epoch to the public key.                                               *)
LEMMA SignatureFacts ==
  ASSUME LeanSigInv, NEW s \in issued
  PROVE  /\ s.epoch \in SignEpoch /\ s.message \in Message
         /\ s.sig.rho = SigningRandomness(s.epoch, s.message)
         /\ s.sig.hashes = ChainHashes(s.epoch, Codeword(s))
         /\ IsCodeword(Codeword(s)) /\ Codeword(s) \in Chunks
         /\ \A n \in Message, f \in Epoch : MessageHash(n, s.sig.rho, f) \in Chunks
         /\ Len(s.sig.path) = Depth
         /\ s.epoch \in Nat /\ s.epoch < 2^Depth
         /\ \E value : /\ value[0] = TreeLeaf(s.epoch) /\ value[Depth] = root
                       /\ Climbs(value, s.sig.path, 0, s.epoch)
<1> DEFINE e   == s.epoch
           m   == s.message
           top == sk.top_tree
           t   == e \div C
           rho == SigningRandomness(e, m)
<1>1. KeyOfTrees /\ SignaturesMade BY DEF LeanSigInv
<1>2. /\ e \in SignEpoch /\ m \in Message /\ GoodAttempts(e, m) # {}
      /\ t \in view.key.top_tree /\ s = SignatureOf(top, e, m)
  BY <1>1 DEF SignaturesMade
<1>3. Rooted(top, view.key.top_tree) /\ root = Root(top) BY <1>1, KeyFacts
<1>4. t \in 0..C - 1 /\ Leads(top, Half, t, Root(BottomTrees[t]))
  BY <1>2, <1>3 DEF Rooted
<1>5. /\ s.sig.path = CombinedPath(top, BottomTrees[t], e) /\ s.sig.rho = rho
      /\ s.sig.hashes = ChainHashes(e, MessageHash(m, rho, e))
  <2>1. s.sig = SignatureOf(top, e, m).sig BY <1>2
  <2>2. SignatureOf(top, e, m).sig =
          [path |-> CombinedPath(top, BottomTrees[t], e), rho |-> rho,
           hashes |-> ChainHashes(e, MessageHash(m, rho, e))]
    BY DEF SignatureOf
  <2> QED BY <2>1, <2>2
<1>6. Codeword(s) = MessageHash(m, rho, e) BY <1>5 DEF Codeword
<1>7. /\ IsCodeword(MessageHash(m, rho, e)) /\ MessageHash(m, rho, e) \in Chunks
      /\ \A n \in Message, f \in Epoch : MessageHash(n, rho, f) \in Chunks
  BY <1>2, RandomnessFound
<1>8. e \in Leaves(t) /\ e \in Nat /\ e < 2^Depth
  <2>1. e \in Nat BY <1>2, SignEpochs
  <2>2. C \in Nat /\ t * C <= e /\ e < t * C + C BY <2>1, DivC, SizeOfHalves
  <2>3. t * C \in Nat BY <1>4, EpochsOfTree
  <2> DEFINE x == t * C
  <2>4. Leaves(t) = x..x + C - 1 BY DEF Leaves
  <2> HIDE DEF x
  <2>5. x \in Nat /\ x <= e /\ e < x + C BY <2>2, <2>3 DEF x
  <2> HIDE DEF t, e
  <2>6. e \in Leaves(t) BY <2>1, <2>2, <2>4, <2>5
  <2> QED BY <1>4, <2>1, <2>6, EpochsOfTree
<1> HIDE DEF e, m, top, t, rho
<1>9. /\ Len(CombinedPath(top, BottomTrees[t], e)) = Depth
      /\ \E value : /\ value[0] = TreeLeaf(e) /\ value[Depth] = Root(top)
                    /\ Climbs(value, CombinedPath(top, BottomTrees[t], e), 0, e)
  BY <1>4, <1>8, PathOfEpoch
<1> QED BY <1>2, <1>3, <1>5, <1>6, <1>7, <1>8, <1>9 DEF e, m, top, rho

(* For every instance of the scheme, a signature verifies for its epoch and   *)
(* message, at any time after it was made, and for nothing else, unless       *)
(* another message hashes to the signed codeword there.                       *)
THEOREM SignaturesVerify == Spec => []VerifiesExactly
<1>1. LeanSigInv => VerifiesExactly
  <2> SUFFICES ASSUME LeanSigInv, NEW s \in issued, NEW e \in 0..U32Range - 1,
                      NEW m \in Message
               PROVE  Verify(e, m, s.sig) <=>
                        e = s.epoch /\ MessageHash(m, s.sig.rho, e) = Codeword(s)
    BY DEF VerifiesExactly
  <2> DEFINE x    == MessageHash(m, s.sig.rho, e)
             y    == Codeword(s)
             ends == ChainEnds(e, x, s.sig.hashes)
             path == s.sig.path
  <2>1. /\ s.sig.hashes = ChainHashes(s.epoch, y) /\ IsCodeword(y) /\ y \in Chunks
        /\ s.epoch \in Nat /\ s.epoch < 2^Depth /\ Len(path) = Depth
    BY SignatureFacts
  <2>2. x \in Chunks /\ e \in Nat
    <3>1. e \in Epoch /\ e \in Nat BY SizeOfHalves DEF Epoch
    <3>2. \A n \in Message, f \in Epoch : MessageHash(n, s.sig.rho, f) \in Chunks
      BY SignatureFacts
    <3> QED BY <3>1, <3>2
  <2>3. PICK value : /\ value[0] = TreeLeaf(s.epoch) /\ value[Depth] = root
                     /\ Climbs(value, path, 0, s.epoch)
    BY SignatureFacts
  <2>4. value[0] = Apply(TreeTweak(0, s.epoch), Ends(s.epoch)) BY <2>3, LeafOfEnds
  <2> HIDE DEF path, ends
  <2>5. HashTreeVerify(root, e, ends, path) <=> e = s.epoch /\ ends = Ends(s.epoch)
    <3>1. Len(path) \in 1..32 /\ s.epoch < 2^Len(path) /\ value[Len(path)] = root
      BY <2>1, <2>3, Halves
    <3>2. PathFrom(path, s.epoch, Ends(s.epoch), root)
      BY <2>1, <2>3, <2>4, <3>1 DEF PathFrom
    <3> QED BY <2>2, <3>2, PathVerifiesOnly
  <2>6. Len(s.sig.hashes) = Dimension
    <3> DEFINE F(i) == Chain(s.epoch, i - 1, 0, y[i], DomainElement(s.epoch, i - 1))
               h    == s.sig.hashes
    <3>1. h = [i \in 1..Dimension |-> F(i)] BY <2>1 DEF ChainHashes
    <3>2. Dimension \in Nat BY DimensionAssumption, U8Assumption
    <3> HIDE DEF F, h
    <3>3. h = [i \in 1..Dimension |-> h[i]] BY <3>1
    <3>4. Len(h) = Dimension BY <3>2, <3>3, FunctionSeq
    <3> QED BY <3>4 DEF h
  <2>7. Verify(e, m, s.sig) <=>
          e < Lifetime /\ IsCodeword(x) /\ HashTreeVerify(root, e, ends, path)
    BY <2>6 DEF Verify, ends, path
  <2>8. e = s.epoch => (ends = Ends(s.epoch) <=> x = y)
    <3> SUFFICES ASSUME e = s.epoch PROVE ends = Ends(s.epoch) <=> x = y OBVIOUS
    <3> HIDE DEF x, y
    <3>1. ends = ChainEnds(s.epoch, x, ChainHashes(s.epoch, y)) BY <2>1 DEF ends
    <3> QED BY <2>1, <2>2, <3>1, EndsMeet
  <2>9. e = s.epoch => e < Lifetime BY <2>1, SizeOfHalves
  <2> HIDE DEF x, y
  <2>10. Verify(e, m, s.sig) <=> e = s.epoch /\ x = y
    BY <2>1, <2>5, <2>7, <2>8, <2>9
  <2> QED BY <2>10 DEF x, y
<1> QED BY <1>1, LeanSigInvariant, PTL

(* For every instance of the scheme, walking on from the chain values of all  *)
(* the signatures for an epoch gives no codeword but the one that was signed: *)
(* the epoch was used once, and codewords of one sum are incomparable.        *)
THEOREM OneCodewordSigned == Spec => []OneCodewordPerEpoch
<1>1. LeanSigInv => OneCodewordPerEpoch
  <2> SUFFICES ASSUME LeanSigInv, NEW s \in issued, NEW y \in Chunks, IsCodeword(y),
                      \A i \in 1..Dimension :
                        \E t \in issued : t.epoch = s.epoch /\ Codeword(t)[i] <= y[i]
               PROVE  y = Codeword(s)
    BY DEF OneCodewordPerEpoch
  <2>1. \A t \in issued : t.epoch = s.epoch => t = s
    BY DEF LeanSigInv, SignedOnce
  <2> DEFINE x == Codeword(s)
  <2>2. \A i \in 1..Dimension : x[i] <= y[i] BY <2>1
  <2>3. x \in Chunks /\ IsCodeword(x) BY SignatureFacts
  <2> HIDE DEF x
  <2>4. ChunkSum(x) = ChunkSum(y) BY <2>3 DEF IsCodeword
  <2>5. x = y BY <2>2, <2>3, <2>4, Incomparable
  <2> QED BY <2>5 DEF x
<1> QED BY <1>1, LeanSigInvariant, PTL

-------------------------------------------------------------------------------
(* All that verify accepts.                                                   *)

(* The hashes that lead to the ends of the chains are those of the codeword.  *)
LEMMA EndsOnlyFrom ==
  ASSUME NEW epoch, NEW x \in Chunks, NEW hashes, IsSeq(hashes), Len(hashes) = Dimension
  PROVE  ChainEnds(epoch, x, hashes) = Ends(epoch) <=> hashes = ChainHashes(epoch, x)
<1>1. ASSUME hashes = ChainHashes(epoch, x)
      PROVE  ChainEnds(epoch, x, hashes) = Ends(epoch)
  BY <1>1, EndsMeet
<1>2. ASSUME ChainEnds(epoch, x, hashes) = Ends(epoch)
      PROVE  hashes = ChainHashes(epoch, x)
  <2> DEFINE own    == ChainHashes(epoch, x)
             W(i, h) == Chain(epoch, i - 1, x[i], Base - 1 - x[i], h)
             V(i)   == Chain(epoch, i - 1, 0, x[i], DomainElement(epoch, i - 1))
  <2>1. own = [i \in 1..Dimension |-> V(i)] BY DEF ChainHashes
  <2>2. ChainEnds(epoch, x, hashes) = [i \in 1..Dimension |-> W(i, hashes[i])]
    BY DEF ChainEnds
  <2>3. ChainEnds(epoch, x, own) = [i \in 1..Dimension |-> W(i, own[i])]
    BY DEF ChainEnds
  <2>4. ChainEnds(epoch, x, own) = ChainEnds(epoch, x, hashes) BY <1>2, EndsMeet
  <2>5. \A i \in 1..Dimension : x[i] \in Nat /\ Base - 1 - x[i] \in Nat
    BY ChunkEntries
  <2> HIDE DEF own, V
  <2>6. ASSUME NEW i \in 1..Dimension PROVE hashes[i] = own[i]
    <3>1. W(i, hashes[i]) = W(i, own[i])
      <4> HIDE DEF W
      <4> QED BY <2>2, <2>3, <2>4
    <3> QED BY <2>5, <3>1, ChainInjective
  <2>7. hashes = [i \in 1..Dimension |-> hashes[i]] BY SeqFunction
  <2>8. own = [i \in 1..Dimension |-> own[i]] BY <2>1
  <2> QED BY <2>6, <2>7, <2>8 DEF own
<1> QED BY <1>1, <1>2

(* Under the public key a path verifies for an epoch only if the key has a    *)
(* bottom tree for it: the way down from the root passes no padding.          *)
LEMMA VerifiedEpoch ==
  ASSUME KeyOfTrees, NEW e \in Nat, NEW leaf, NEW co, IsSeq(co),
         HashTreeVerify(root, e, leaf, co)
  PROVE  e \div C \in view.key.top_tree
<1> DEFINE top == sk.top_tree
           n   == Len(co)
           q   == e \div Width
<1>1. /\ root = Root(top) /\ Rooted(top, view.key.top_tree)
      /\ view.key.top_tree # {} /\ OnlyFrom(top, view.key.top_tree)
  BY KeyFacts
<1>2. n \in 0..32
  <2>1. n \in Nat /\ n <= 32 BY SeqFunction, VerifiedLength
  <2> HIDE DEF n
  <2> QED BY <2>1
<1>3. PICK node : /\ node[0] = Apply(TreeTweak(0, e), leaf)
                  /\ Hashes(node, co, 0, e) /\ e < 2^n /\ node[n] = root
  BY <1>2, VerifyHashes
<1>4. Half \in 1..16 /\ Depth = 2 * Half /\ Depth = Half + Half /\ Depth \in 2..32 BY Halves
<1> HIDE DEF n, top
<1>5. ASSUME NEW l \in 1..n
      PROVE  LET child == e \div 2^(l - 1)
             IN  node[l] = Apply(TreeTweak(l, child \div 2),
                                 IF child % 2 = 0 THEN <<node[l - 1], co[l]>>
                                 ELSE <<co[l], node[l - 1]>>)
  <2>1. 0 + l = l /\ l \in 1..Len(co) BY <1>2 DEF n
  <2> QED BY <1>3, <2>1 DEF Hashes
<1>6. n = Depth
  <2>1. \E x, p : root = Apply(TreeTweak(n, p), x)
    <3>1. CASE n = 0 BY <1>3, <3>1
    <3>2. CASE n # 0
      <4>1. n \in 1..n BY <1>2, <3>2
      <4> QED BY <1>3, <1>5, <4>1
    <3> QED BY <3>1, <3>2
  <2>2. \E x, p : root = Apply(TreeTweak(Depth, p), x)
    <3>1. PICK t : t \in view.key.top_tree BY <1>1
    <3>2. Leads(top, Half, t, Root(BottomTrees[t])) BY <1>1, <3>1 DEF Rooted
    <3>3. PICK value : /\ Len(Path(top, t)) = Half /\ value[Half] = Root(top)
                       /\ Climbs(value, Path(top, t), Half, t)
      BY <3>2 DEF Leads
    <3>4. Half \in 1..Half /\ Half + Half = Depth BY <1>4
    <3> QED BY <1>1, <3>3, <3>4 DEF Climbs
  <2>3. PICK x, p, y, r : Apply(TreeTweak(n, p), x) = Apply(TreeTweak(Depth, r), y)
    BY <2>1, <2>2
  <2>4. TreeTweak(n, p) = TreeTweak(Depth, r) BY <2>3, ApplyInjective
  <2> QED BY <2>4, TweakInjective
<1>7. q \in 0..Width - 1
  <2>1. e < Width * Width /\ Width \in Nat \ {0} BY <1>3, <1>6, PowerOfHalves, WidthEven
  <2>2. q \in Int /\ q * Width <= e /\ e < q * Width + Width BY <2>1, Quotient
  <2>3. q \in Nat
    <3>1. q = e \div C /\ e \div C \in Nat BY SizeOfHalves, DivC
    <3> QED BY <3>1
  <2> HIDE DEF q
  <2>4. q < Width
    <3> SUFFICES ASSUME Width <= q PROVE FALSE BY <2>1, <2>3
    <3>1. C = Width /\ C * C <= q * C BY <2>3, SizeOfHalves, MulOrder
    <3> DEFINE a == Width * Width
               b == q * Width
    <3>2. a <= b /\ b <= e /\ e < a /\ a \in Int /\ b \in Int BY <2>1, <2>2, <2>3, <3>1
    <3> HIDE DEF a, b
    <3> QED BY <3>2
  <2> QED BY <2>1, <2>3, <2>4
<1> DEFINE value == [l \in 0..Half |-> node[Half + l]]
           path  == [l \in 1..Half |-> co[Half + l]]
<1>8. Len(path) = Half
  <2>1. path = [l \in 1..Half |-> path[l]] OBVIOUS
  <2>2. Half \in Nat BY <1>4
  <2> HIDE DEF path
  <2> QED BY <2>1, <2>2, FunctionSeq
<1>9. ASSUME NEW l \in 1..Half
      PROVE  LET child == q \div 2^(l - 1)
             IN  value[l] = Apply(TreeTweak(Half + l, child \div 2),
                                  IF child % 2 = 0 THEN <<value[l - 1], path[l]>>
                                  ELSE <<path[l], value[l - 1]>>)
  <2> DEFINE m == Half + l
  <2>1. /\ m \in 1..n /\ m - 1 = Half + (l - 1) /\ l \in 0..Half /\ l - 1 \in 0..Half
        /\ l - 1 \in 0..32 /\ Half \in 0..32 /\ Half + (l - 1) <= 32
    BY <1>4, <1>6
  <2>2. e \div 2^(m - 1) = q \div 2^(l - 1)
    <3>1. e \div 2^(Half + (l - 1)) = (e \div 2^Half) \div 2^(l - 1) BY <2>1, DivDiv
    <3> QED BY <2>1, <3>1 DEF Width
  <2>3. value[l] = node[m] /\ value[l - 1] = node[m - 1] /\ path[l] = co[m] BY <2>1
  <2> HIDE DEF m, value, path, q
  <2>4. LET child == e \div 2^(m - 1)
        IN  node[m] = Apply(TreeTweak(m, child \div 2),
                            IF child % 2 = 0 THEN <<node[m - 1], co[m]>>
                            ELSE <<co[m], node[m - 1]>>)
    BY <1>5, <2>1
  <2> QED BY <2>2, <2>3, <2>4 DEF m
<1>10. IsHashed(Half, q, value[0])
  <2>1. /\ Half \in 1..n /\ 0 \in 0..Half /\ Half + 0 = Half
        /\ Half - 1 \in 0..31 /\ (Half - 1) + 1 = Half
    BY <1>4, <1>6
  <2>2. e \div 2^((Half - 1) + 1) = (e \div 2^(Half - 1)) \div 2 BY <2>1, Halving
  <2>3. (e \div 2^(Half - 1)) \div 2 = q BY <2>1, <2>2 DEF Width
  <2>4. \E x : node[Half] = Apply(TreeTweak(Half, (e \div 2^(Half - 1)) \div 2), x)
    BY <1>5, <2>1
  <2> HIDE DEF q
  <2>5. value[0] = node[Half] BY <2>1
  <2> QED BY <2>3, <2>4, <2>5 DEF IsHashed
<1>11. value[Half] = Root(top)
  <2>1. Half \in 0..Half BY <1>4
  <2> QED BY <1>1, <1>3, <1>4, <1>6, <2>1
<1> HIDE DEF value, path, q
<1>12. Hashes(value, path, Half, q) BY <1>8, <1>9 DEF Hashes
<1>13. q \in view.key.top_tree BY <1>1, <1>7, <1>8, <1>10, <1>11, <1>12 DEF OnlyFrom
<1> QED BY <1>13, SizeOfHalves DEF q

(* For an epoch of the key, the one path that verifies.                       *)
LEMMA VerifiedPath ==
  ASSUME KeyOfTrees, NEW e \in Nat, NEW leaf, NEW co, IsSeq(co)
  PROVE  HashTreeVerify(root, e, leaf, co) <=>
           /\ e \div C \in view.key.top_tree
           /\ co = CombinedPath(sk.top_tree, BottomTrees[e \div C], e)
           /\ leaf = Ends(e)
<1> DEFINE top == sk.top_tree
           t   == e \div C
           own == CombinedPath(top, BottomTrees[t], e)
<1>1. root = Root(top) /\ Rooted(top, view.key.top_tree) BY KeyFacts
<1> HIDE DEF top
<1>2. ASSUME t \in view.key.top_tree
      PROVE  IsSeq(own) /\ PathFrom(own, e, Ends(e), root)
  <2>1. t \in 0..C - 1 /\ Leads(top, Half, t, Root(BottomTrees[t]))
    BY <1>1, <1>2 DEF Rooted
  <2>2. e \in Leaves(t)
    <3>1. C \in Nat /\ t * C <= e /\ e < t * C + C BY DivC, SizeOfHalves
    <3>2. t * C \in Nat BY <2>1, EpochsOfTree
    <3> DEFINE x == t * C
    <3>3. Leaves(t) = x..x + C - 1 BY DEF Leaves
    <3> HIDE DEF x
    <3>4. x \in Nat /\ x <= e /\ e < x + C BY <3>1, <3>2 DEF x
    <3> QED BY <3>1, <3>3, <3>4
  <2>3. e < 2^Depth BY <2>1, <2>2, EpochsOfTree
  <2> HIDE DEF t
  <2>4. /\ IsSeq(own) /\ Len(own) = Depth
        /\ \E value : /\ value[0] = TreeLeaf(e) /\ value[Depth] = Root(top)
                      /\ Climbs(value, own, 0, e)
    BY <2>1, <2>2, PathOfEpoch
  <2> HIDE DEF own
  <2>5. Len(own) \in 1..32 /\ e < 2^Len(own) BY <2>3, <2>4, Halves
  <2>6. TreeLeaf(e) = Apply(TreeTweak(0, e), Ends(e)) BY LeafOfEnds
  <2> QED BY <1>1, <2>4, <2>5, <2>6 DEF PathFrom
<1>3. ASSUME HashTreeVerify(root, e, leaf, co)
      PROVE  t \in view.key.top_tree /\ co = own /\ leaf = Ends(e)
  <2>1. t \in view.key.top_tree BY <1>3, VerifiedEpoch
  <2>2. IsSeq(own) /\ PathFrom(own, e, Ends(e), root) BY <1>2, <2>1
  <2> HIDE DEF own, t
  <2> QED BY <1>3, <2>1, <2>2, OnePathVerifies
<1>4. ASSUME t \in view.key.top_tree, co = own, leaf = Ends(e)
      PROVE  HashTreeVerify(root, e, leaf, co)
  <2>1. PathFrom(own, e, Ends(e), root) BY <1>2, <1>4
  <2> HIDE DEF own, t
  <2> QED BY <1>4, <2>1, PathVerifiesOnly
<1> QED BY <1>3, <1>4 DEF own, t, top

(* What verify is given: sequences of digests, and randomness with which the  *)
(* message hashes to a chunk for every chain. All that sign returns is that.  *)
WellFormed(e, m, sig) ==
  IsSeq(sig.path) /\ IsSeq(sig.hashes) /\ MessageHash(m, sig.rho, e) \in Chunks

(* verify accepts, under a public key and for an epoch and a message, exactly *)
(* the signatures that sign would make with some randomness: those of the     *)
(* codeword the message hashes to, with the path of the epoch, in a bottom    *)
(* tree of the key. No path through padding, none of another length and no    *)
(* other hashes are accepted.                                                 *)
AcceptedExactly ==
  \A e \in Epoch : \A m, sig : WellFormed(e, m, sig) =>
    LET x == MessageHash(m, sig.rho, e)
    IN  Verify(e, m, sig) <=>
          /\ e \div C \in view.key.top_tree
          /\ IsCodeword(x)
          /\ sig.path = CombinedPath(sk.top_tree, BottomTrees[e \div C], e)
          /\ sig.hashes = ChainHashes(e, x)

THEOREM AcceptsOwnOnly == Spec => []AcceptedExactly
<1>1. LeanSigInv => AcceptedExactly
  <2> SUFFICES ASSUME LeanSigInv, NEW e \in Epoch, NEW m, NEW sig, WellFormed(e, m, sig)
               PROVE  LET x == MessageHash(m, sig.rho, e)
                      IN  Verify(e, m, sig) <=>
                            /\ e \div C \in view.key.top_tree
                            /\ IsCodeword(x)
                            /\ sig.path = CombinedPath(sk.top_tree, BottomTrees[e \div C], e)
                            /\ sig.hashes = ChainHashes(e, x)
    BY DEF AcceptedExactly
  <2> DEFINE x    == MessageHash(m, sig.rho, e)
             ends == ChainEnds(e, x, sig.hashes)
             own  == CombinedPath(sk.top_tree, BottomTrees[e \div C], e)
  <2>1. IsSeq(sig.path) /\ IsSeq(sig.hashes) /\ x \in Chunks BY DEF WellFormed
  <2>2. e \in Nat BY SizeOfHalves DEF Epoch
  <2>3. KeyOfTrees BY DEF LeanSigInv
  <2>4. Verify(e, m, sig) <=>
          /\ e < Lifetime /\ Len(sig.hashes) = Dimension /\ IsCodeword(x)
          /\ HashTreeVerify(root, e, ends, sig.path)
    BY DEF Verify
  <2> HIDE DEF x, ends, own
  <2>5. HashTreeVerify(root, e, ends, sig.path) <=>
          e \div C \in view.key.top_tree /\ sig.path = own /\ ends = Ends(e)
    BY <2>1, <2>2, <2>3, VerifiedPath DEF own
  <2>6. e \div C \in view.key.top_tree => e < Lifetime
    <3> SUFFICES ASSUME e \div C \in view.key.top_tree PROVE e < Lifetime OBVIOUS
    <3>1. Rooted(sk.top_tree, view.key.top_tree) BY <2>3, KeyFacts
    <3> DEFINE t == e \div C
    <3>2. t \in 0..C - 1 BY <3>1 DEF Rooted
    <3>3. C \in Nat /\ C >= 2 /\ t * C <= e /\ e < t * C + C BY <2>2, DivC, SizeOfHalves
    <3> HIDE DEF t
    <3>4. t + 1 \in Nat /\ t + 1 <= C /\ t \in Nat BY <3>2, <3>3
    <3>5. (t + 1) * C = t * C + C /\ (t + 1) * C <= C * C
      BY <3>3, <3>4, MulC, MulOrder
    <3> DEFINE a == t * C
               b == C * C
    <3>6. a \in Nat /\ a + C <= b /\ e < a + C /\ b \in Nat BY <3>2, <3>3, <3>5, EpochsOfTree
    <3> HIDE DEF a, b
    <3>7. e < b BY <2>2, <3>3, <3>6
    <3> QED BY <3>7 DEF b, Lifetime
  <2>7. Len(sig.hashes) = Dimension =>
          (ends = Ends(e) <=> sig.hashes = ChainHashes(e, x))
    BY <2>1, EndsOnlyFrom DEF ends
  <2>8. sig.hashes = ChainHashes(e, x) => Len(sig.hashes) = Dimension
    <3> DEFINE F(i) == Chain(e, i - 1, 0, x[i], DomainElement(e, i - 1))
               h    == ChainHashes(e, x)
    <3>1. h = [i \in 1..Dimension |-> F(i)] BY DEF ChainHashes
    <3>2. Dimension \in Nat BY DimensionAssumption, U8Assumption
    <3> HIDE DEF F, h
    <3>3. h = [i \in 1..Dimension |-> h[i]] BY <3>1
    <3>4. Len(h) = Dimension BY <3>2, <3>3, FunctionSeq
    <3> QED BY <3>4 DEF h
  <2>9. Verify(e, m, sig) <=>
          /\ e \div C \in view.key.top_tree /\ IsCodeword(x)
          /\ sig.path = own /\ sig.hashes = ChainHashes(e, x)
    BY <2>4, <2>5, <2>6, <2>7, <2>8
  <2> QED BY <2>9 DEF x, own
<1> QED BY <1>1, LeanSigInvariant, PTL

(* Of an epoch that was signed, verify accepts the signature that was made,   *)
(* whole, for a message with its codeword; for any other codeword it wants a  *)
(* chain value from below the one that was given away, which no walking up    *)
(* the chains leads to.                                                       *)
OthersFromBelow ==
  \A s \in issued : \A m, sig : WellFormed(s.epoch, m, sig) =>
    LET x == MessageHash(m, sig.rho, s.epoch)
    IN  Verify(s.epoch, m, sig) =>
          /\ sig.path = s.sig.path
          /\ IF x = Codeword(s) THEN sig.hashes = s.sig.hashes
             ELSE \E i \in 1..Dimension :
                    /\ x[i] < Codeword(s)[i]
                    /\ sig.hashes[i] = ChainValue(s.epoch, i - 1, x[i])

THEOREM NoOtherFromAbove == Spec => []OthersFromBelow
<1>1. LeanSigInv /\ AcceptedExactly => OthersFromBelow
  <2> SUFFICES ASSUME LeanSigInv, AcceptedExactly, NEW s \in issued, NEW m, NEW sig,
                      WellFormed(s.epoch, m, sig), Verify(s.epoch, m, sig)
               PROVE  LET x == MessageHash(m, sig.rho, s.epoch)
                      IN  /\ sig.path = s.sig.path
                          /\ IF x = Codeword(s) THEN sig.hashes = s.sig.hashes
                             ELSE \E i \in 1..Dimension :
                                    /\ x[i] < Codeword(s)[i]
                                    /\ sig.hashes[i] = ChainValue(s.epoch, i - 1, x[i])
    BY DEF OthersFromBelow
  <2> DEFINE x == MessageHash(m, sig.rho, s.epoch)
             y == Codeword(s)
  <2>1. /\ s.epoch \in SignEpoch /\ s.sig.hashes = ChainHashes(s.epoch, y)
        /\ IsCodeword(y) /\ y \in Chunks
    BY SignatureFacts
  <2>2. s.epoch \in Epoch BY <2>1, SignEpochs
  <2>3. /\ IsCodeword(x) /\ sig.hashes = ChainHashes(s.epoch, x)
        /\ sig.path = CombinedPath(sk.top_tree, BottomTrees[s.epoch \div C], s.epoch)
    BY <2>2 DEF AcceptedExactly
  <2>4. x \in Chunks BY DEF WellFormed
  <2> HIDE DEF x, y
  <2>5. sig.path = s.sig.path
    <3> DEFINE own == CombinedPath(sk.top_tree, BottomTrees[s.epoch \div C], s.epoch)
    <3>1. s = SignatureOf(sk.top_tree, s.epoch, s.message)
      BY DEF LeanSigInv, SignaturesMade
    <3>2. SignatureOf(sk.top_tree, s.epoch, s.message).sig.path = own
      BY DEF SignatureOf
    <3> HIDE DEF own
    <3>3. s.sig.path = own BY <3>1, <3>2
    <3> QED BY <2>3, <3>3 DEF own
  <2>6. CASE x = y BY <2>1, <2>3, <2>5, <2>6 DEF x, y
  <2>7. CASE x # y
    <3>1. \E i \in 1..Dimension : x[i] < y[i]
      <4> SUFFICES ASSUME \A i \in 1..Dimension : ~(x[i] < y[i]) PROVE FALSE OBVIOUS
      <4>1. \A i \in 1..Dimension : x[i] \in Nat /\ y[i] \in Nat
        BY <2>1, <2>4, ChunkEntries
      <4>2. \A i \in 1..Dimension : y[i] <= x[i] BY <4>1
      <4>3. ChunkSum(y) = ChunkSum(x) BY <2>1, <2>3 DEF IsCodeword
      <4>4. y = x BY <2>1, <2>4, <4>2, <4>3, Incomparable
      <4> QED BY <2>7, <4>4
    <3>2. PICK i \in 1..Dimension : x[i] < y[i] BY <3>1
    <3>3. sig.hashes[i] = ChainValue(s.epoch, i - 1, x[i])
      BY <2>3 DEF ChainHashes, ChainValue
    <3> QED BY <2>5, <2>7, <3>2, <3>3 DEF x, y
  <2> QED BY <2>6, <2>7
<1> QED BY <1>1, LeanSigInvariant, AcceptsOwnOnly, PTL

-------------------------------------------------------------------------------
(* XmssKey's methods are those of the key with trees.                         *)
LEMMA KeyLists ==
  /\ \A s : Key!SortDedup(s) = SortDedup(s)
  /\ \A s, lo : Key!RetainFrom(s, lo) = RetainFrom(s, lo)
  /\ \A s, e : Key!InsertPositions(s, e) = InsertPositions(s, e)
  /\ \A s, p, e : Key!InsertAt(s, p, e) = InsertAt(s, p, e)
<1>1. \A S, i : Key!Below(S, i) = Below(S, i) BY DEF Key!Below, Below
<1>2. \A S : Key!Cardinality(S) = Cardinality(S) BY DEF Key!Cardinality, Cardinality
<1>3. \A S, k : Key!Nth(S, k) = Nth(S, k) BY <1>1, <1>2 DEF Key!Nth, Nth
<1>4. \A S : Key!Enumerate(S) = Enumerate(S)
  BY <1>2, <1>3 DEF Key!Enumerate, Enumerate
<1>5. \A s : Key!Range(s) = Range(s) BY DEF Key!Range, Range
<1>6. \A s : Key!SortDedup(s) = SortDedup(s)
  BY <1>4, <1>5 DEF Key!SortDedup, SortDedup
<1>7. \A s, lo : Key!RetainFrom(s, lo) = RetainFrom(s, lo)
  BY <1>4 DEF Key!RetainFrom, RetainFrom
<1>8. \A s : Key!NonDescending(s) = NonDescending(s)
  BY DEF Key!NonDescending, NonDescending
<1>9. \A s, e : Key!InsertPositions(s, e) = InsertPositions(s, e)
  BY <1>8 DEF Key!InsertPositions, InsertPositions
<1>10. \A s, p, e : Key!InsertAt(s, p, e) = InsertAt(s, p, e)
  BY DEF Key!InsertAt, InsertAt
<1> QED BY <1>6, <1>7, <1>9, <1>10

LEMMA KeyMethods ==
  /\ \A k : Key!Sorted(k) = Sorted(k)
  /\ \A k, p, e : Key!Consume(k, p, e) = Consume(k, p, e)
  /\ \A k : Key!Advanced(k) = Advanced(k)
BY KeyLists DEF Key!Sorted, Sorted, Key!Consume, Consume, Key!Advanced, Advanced

LEMMA KeyChecks ==
  /\ \A k, e : Key!InActivation(k, e) = InActivation(k, e)
  /\ \A k, e : Key!Prepared(k, e) = Prepared(k, e)
  /\ \A k : Key!CanAdvance(k) = CanAdvance(k)
  /\ \A k, e : Key!BottomTree(k, e) = BottomTree(k, e)
<1>1. \A k : Key!ActivationIntervalOf(k) = ActivationIntervalOf(k)
  BY DEF Key!ActivationIntervalOf, ActivationIntervalOf, Key!ActivationEnd, ActivationEnd
<1>2. \A k : Key!PreparedInterval(k) = PreparedInterval(k)
  BY DEF Key!PreparedInterval, PreparedInterval, Key!PreparedEnd, PreparedEnd,
         Key!PreparedStart, PreparedStart
<1>3. \A k : Key!CanAdvance(k) = CanAdvance(k)
  BY DEF Key!CanAdvance, CanAdvance, Key!ActivationEnd, ActivationEnd
<1>4. \A k, e : Key!BottomTree(k, e) = BottomTree(k, e)
  BY DEF Key!BottomTree, BottomTree, Key!Boundary, Boundary
<1> QED BY <1>1, <1>2, <1>3, <1>4 DEF Key!InActivation, InActivation, Key!Prepared, Prepared

LEMMA KeyGenerated ==
  /\ \A e, n : Key!Expand(e, n) = Expand(e, n)
  /\ \A e, n : Key!ValidRequest(e, n) = ValidRequest(e, n)
  /\ \A i : Key!KeyFor(i) = KeyFor(i)
<1>1. \A e, n : Key!Expand(e, n) = Expand(e, n)
  BY DEF Key!Expand, Expand, Key!AlignDown, AlignDown, Key!TwoTreesEnd, TwoTreesEnd,
         Key!AlignedEnd, AlignedEnd, Key!Wrap, Wrap, Key!UsizeLifetime, UsizeLifetime,
         Key!Lifetime, Lifetime
<1>2. \A e, n : Key!ValidRequest(e, n) = ValidRequest(e, n)
  BY DEF Key!ValidRequest, ValidRequest, Key!Lifetime, Lifetime
<1>3. \A i : Key!KeyFor(i) = KeyFor(i) BY DEF Key!KeyFor, KeyFor
<1> QED BY <1>1, <1>2, <1>3

(* With its trees, its chains and its encoding the key implements XmssKey,    *)
(* whatever the constants: no assert on a path ever fires, and a signature is *)
(* returned, and its epoch recorded, exactly when XmssKey says so.            *)
THEOREM RefinesXmssKey == Spec => ImplementsXmssKey
<1>1. Init => Key!Init
  <2> SUFFICES ASSUME Init PROVE Key!Init OBVIOUS
  <2>1. PICK r \in Request : /\ ValidRequest(r[1], r[2])
                             /\ sk = KeyWithTrees(Expand(r[1], r[2]))
    BY DEF Init
  <2> DEFINE i == Expand(r[1], r[2])
             k == KeyFor(i)
  <2>2. i.first \in Nat /\ i.after \in Nat /\ i.first + 2 <= i.after /\ i.after <= C
    <3>1. UsizeRange > Lifetime + 2 * C BY WideUsize
    <3>2. r[1] \in Nat /\ r[2] \in Nat BY RequestAssumption
    <3> QED BY <2>1, <3>1, <3>2, ExpandCovers DEF Covers
  <2> HIDE DEF i
  <2>3. sk = WithTrees(k, TopTree(i.first, i.after)) BY <2>1 DEF KeyWithTrees, i
  <2>4. k \in SecretKeys /\ KeyShape(k) BY <2>2, GeneratedKey
  <2>5. RootsIn(TopTree(i.first, i.after)) = k.top_tree
    BY <2>2, BuiltTopTree DEF KeyFor
  <2> HIDE DEF k
  <2>6. Indices(sk) = k BY <2>3, <2>4, <2>5, IndicesOfTrees
  <2>7. view.key = k /\ view.issued = {} BY <2>6 DEF Init, View
  <2>8. /\ Key!ValidRequest(r[1], r[2])
        /\ view.key = Key!KeyFor(Key!Expand(r[1], r[2]))
    BY <2>1, <2>7, KeyGenerated DEF k, i
  <2>9. reply = Key!Answer("KeyGen", 0) BY DEF Init, Answer, Key!Answer
  <2> QED BY <2>7, <2>8, <2>9 DEF Key!Init
<1>2. LeanSigInv /\ [Next]_vars => [Key!Next]_(Key!vars)
  <2> SUFFICES ASSUME LeanSigInv, [Next]_vars PROVE [Key!Next]_(Key!vars) OBVIOUS
  <2>1. CASE UNCHANGED vars BY <2>1 DEF vars, Key!vars
  <2>2. CASE Next
    <3> DEFINE k == view.key
    <3>1. view' = View(sk', issued') BY <2>2 DEF Next
    <3>2. KeyOfTrees BY DEF LeanSigInv
    <3>3. /\ sk.used_epochs = k.used_epochs
          /\ ActivationIntervalOf(sk) = ActivationIntervalOf(k)
          /\ PreparedInterval(sk) = PreparedInterval(k)
          /\ CanAdvance(sk) = CanAdvance(k)
      BY <3>2, SameKey
    <3>4. Sorted(sk).used_epochs = Sorted(k).used_epochs
      <4>1. k \in SecretKeys /\ Sorted(sk) = WithTrees(Sorted(k), sk.top_tree)
        BY <3>2, KeyFacts, SameKey
      <4>2. Sorted(k) \in SecretKeys BY <4>1, SortedKey
      <4> QED BY <4>1, <4>2, SameMethods
    <3>5. ASSUME NEW e
          PROVE  /\ InActivation(sk, e) <=> Key!InActivation(k, e)
                 /\ Prepared(sk, e) <=> Key!Prepared(k, e)
                 /\ Signable(e) <=> Key!Signable(e)
                 /\ InsertPositions(Sorted(sk).used_epochs, e) =
                      Key!InsertPositions(Key!Sorted(k).used_epochs, e)
      BY <3>3, <3>4, KeyChecks, KeyMethods, KeyLists
         DEF InActivation, Prepared, Signable, Key!Signable
    <3>6. ASSUME sk' = sk, UNCHANGED <<root, issued>>
          PROVE  UNCHANGED <<view.key, view.issued>>
      BY <3>1, <3>6, QuietStep
    <3>7. ASSUME sk' = Sorted(sk), UNCHANGED <<root, issued>>
          PROVE  view'.key = Key!Sorted(view.key) /\ view'.issued = view.issued
      BY <3>1, <3>7, QuietStep, KeyMethods
    <3> HIDE DEF k
    <3>8. ASSUME NEW e \in SignEpoch, NEW m \in Message, Sign(e, m)
          PROVE  Key!Sign(e, m)
      <4>1. CASE SignRefused(e)
        <5>1. UNCHANGED <<view.key, view.issued>> BY <3>6, <4>1 DEF SignRefused
        <5>2. CASE InActivation(sk, e)
          <6>1. Key!InActivation(view.key, e) /\ ~Key!Prepared(view.key, e)
            BY <3>5, <4>1, <5>2 DEF SignRefused, Signable, k
          <6>2. reply' = Key!Answer("EpochNotPrepared", e)
            BY <4>1, <5>2 DEF SignRefused, Answer, Key!Answer
          <6> QED BY <5>1, <6>1, <6>2 DEF Key!Sign, Key!SignNotPrepared
        <5>3. CASE ~InActivation(sk, e)
          <6>1. ~Key!InActivation(view.key, e) BY <3>5, <5>3 DEF k
          <6>2. reply' = Key!Answer("EpochOutsideActivation", e)
            BY <4>1, <5>3 DEF SignRefused, Answer, Key!Answer
          <6> QED BY <5>1, <6>1, <6>2 DEF Key!Sign, Key!SignOutsideActivation
        <5> QED BY <5>2, <5>3
      <4>2. CASE SignAlreadyUsed(e)
        <5>1. view'.key = Key!Sorted(view.key) /\ view'.issued = view.issued
          BY <3>7, <4>2 DEF SignAlreadyUsed
        <5>2. /\ Key!Signable(e)
              /\ Key!InsertPositions(Key!Sorted(view.key).used_epochs, e) = {}
          BY <3>5, <4>2 DEF SignAlreadyUsed, k
        <5>3. reply' = Key!Answer("EpochAlreadyUsed", e)
          BY <4>2 DEF SignAlreadyUsed, Answer, Key!Answer
        <5> QED BY <5>1, <5>2, <5>3 DEF Key!Sign, Key!SignAlreadyUsed
      <4>3. ASSUME Unused(e)
            PROVE  /\ Key!Signable(e) /\ PathExists(e)
                   /\ Key!InsertPositions(Key!Sorted(view.key).used_epochs, e) # {}
        <5>1. Signable(e) /\ InsertPositions(Sorted(sk).used_epochs, e) # {}
          BY <4>3 DEF Unused
        <5>2. e \in PreparedInterval(sk) BY <5>1 DEF Signable, Prepared
        <5>3. PathExists(e) BY <3>2, <5>2, SignedInWindow
        <5> QED BY <3>5, <5>1, <5>3 DEF k
      <4>4. CASE SignEncodingFails(e, m)
        <5>1. view'.key = Key!Sorted(view.key) /\ view'.issued = view.issued
          BY <3>7, <4>4 DEF SignEncodingFails
        <5>2. /\ Key!Signable(e) /\ PathExists(e)
              /\ Key!InsertPositions(Key!Sorted(view.key).used_epochs, e) # {}
          BY <4>3, <4>4 DEF SignEncodingFails
        <5>3. reply' = Key!Answer("EncodingAttemptsExceeded", e)
          BY <4>4, <5>2 DEF SignEncodingFails, Answer, Key!Answer
        <5>4. GoodAttempts(e, m) = {} BY <4>4 DEF SignEncodingFails
        <5>5. <<e, m>> \notin
                {em \in SignEpoch \X Message : GoodAttempts(em[1], em[2]) # {}}
          BY <5>4
        <5> QED BY <5>1, <5>2, <5>3, <5>5 DEF Key!Sign, Key!SignEncodingFails
      <4>5. CASE SignOk(e, m)
        <5>1. Unused(e) /\ GoodAttempts(e, m) # {} BY <4>5 DEF SignOk
        <5>2. Key!Signable(e) /\ PathExists(e) BY <4>3, <5>1
        <5>3. PICK p \in InsertPositions(Sorted(sk).used_epochs, e) :
                sk' = Consume(Sorted(sk), p, e)
          BY <4>5, <5>2 DEF SignOk
        <5>4. /\ issued' = issued \cup
                   {[epoch |-> e, message |-> m, sig |-> NewSignature(e, m)]}
              /\ reply' = Answer("Ok", e) /\ root' = root
          BY <4>5, <5>2 DEF SignOk
        <5>5. /\ view'.key = Consume(Sorted(view.key), p, e)
              /\ view'.issued = view.issued \cup
                   {[epoch |-> e, message |-> m, tree |-> BottomTree(view.key, e)]}
          BY <3>1, <5>1, <5>3, <5>4, SignedStep DEF Unused
        <5>6. p \in Key!InsertPositions(Key!Sorted(view.key).used_epochs, e)
          BY <3>5, <5>3 DEF k
        <5>7. view'.key = Key!Consume(Key!Sorted(view.key), p, e)
          BY <5>5, KeyMethods
        <5>8. view'.issued = view.issued \cup
                {Key!Signature(e, m, Key!BottomTree(view.key, e))}
          BY <5>5, KeyChecks DEF Key!Signature
        <5>9. reply' = Key!Answer("Ok", e) BY <5>4 DEF Answer, Key!Answer
        <5>10. <<e, m>> \in
                 {em \in SignEpoch \X Message : GoodAttempts(em[1], em[2]) # {}}
          BY <5>1
        <5> QED BY <5>2, <5>6, <5>7, <5>8, <5>9, <5>10 DEF Key!Sign, Key!SignOk
      <4> QED BY <3>8, <4>1, <4>2, <4>4, <4>5 DEF Sign
    <3>9. CASE AdvancePreparation
      <4>1. CASE CanAdvance(sk)
        <5>1. view'.issued = view.issued /\ view'.key = Advanced(view.key)
          BY <3>1, <3>9, <4>1, SlideStep DEF AdvancePreparation
        <5>2. Key!CanAdvance(view.key) BY <3>3, <4>1, KeyChecks DEF k
        <5>3. view'.key = Key!Advanced(view.key) BY <5>1, KeyMethods
        <5>4. reply' = Key!Answer("Advanced", 0)
          BY <3>9, <4>1 DEF AdvancePreparation, Answer, Key!Answer
        <5>5. Key!AdvancePreparation
          BY <5>1, <5>2, <5>3, <5>4 DEF Key!AdvancePreparation
        <5> QED BY <5>5 DEF Key!Next
      <4>2. CASE ~CanAdvance(sk)
        <5>1. UNCHANGED <<view.key, view.issued>>
          BY <3>6, <3>9, <4>2 DEF AdvancePreparation
        <5>2. ~Key!CanAdvance(view.key) BY <3>3, <4>2, KeyChecks DEF k
        <5>3. reply' = Key!Answer("NothingToAdvance", 0)
          BY <3>9, <4>2 DEF AdvancePreparation, Answer, Key!Answer
        <5>4. Key!NothingToAdvance BY <5>1, <5>2, <5>3 DEF Key!NothingToAdvance
        <5> QED BY <5>4 DEF Key!Next
      <4> QED BY <4>1, <4>2
    <3> QED BY <2>2, <3>8, <3>9 DEF Next, Key!Next
  <2> QED BY <2>1, <2>2
<1> QED BY <1>1, <1>2, LeanSigInvariant, PTL
        DEF Spec, ImplementsXmssKey, Key!Spec

-------------------------------------------------------------------------------
(* The ledger, from below.                                                    *)

(* What the owner of a key with trees knows of it: the pairs of an epoch and  *)
(* a message of the signatures returned, whatever they consist of.            *)
Book == INSTANCE OneTimeLedger WITH
  ledger <- {<<s.epoch, s.message>> : s \in issued},
  start  <- PreparedStart(sk),
  last   <- ActivationEnd(sk)

LEMMA InitBook == Init => Book!Init
<1> SUFFICES ASSUME Init PROVE Book!Init OBVIOUS
<1>1. LeanSigInv BY InitLeanSigInv
<1> DEFINE k == view.key
<1>2. k \in SecretKeys /\ KeyShape(k) /\ sk = WithTrees(k, sk.top_tree)
  BY <1>1, KeyFacts DEF LeanSigInv
<1> HIDE DEF k
<1>3. PreparedStart(sk) = PreparedStart(k) /\ ActivationEnd(sk) = ActivationEnd(k)
  BY <1>2, SameMethods
<1>4. /\ PreparedStart(k) \in Nat /\ ActivationEnd(k) \in Nat
      /\ PreparedStart(k) + 2 * C <= ActivationEnd(k)
  <2>1. /\ PreparedStart(k) \in Int /\ ActivationEnd(k) \in Int
        /\ k.activation_epoch \in Int /\ C \in Nat
        /\ PreparedEnd(k) = PreparedStart(k) + 2 * C
    BY <1>2, KeyTypes, SizeOfHalves
  <2>2. /\ 0 <= k.activation_epoch /\ k.activation_epoch <= PreparedStart(k)
        /\ PreparedEnd(k) <= ActivationEnd(k)
    BY <1>2, ShapeBounds
  <2> QED BY <2>1, <2>2
<1>5. {<<s.epoch, s.message>> : s \in issued} = {} BY DEF Init
<1> QED BY <1>3, <1>4, <1>5 DEF Book!Init

(* A signature, with its path and its chains, is an entry for an epoch of the *)
(* window that has none; a slide moves the window; nothing else shows.        *)
LEMMA NextBook == LeanSigInv /\ LeanSigInv' /\ [Next]_vars => [Book!Next]_(Book!vars)
<1> SUFFICES ASSUME LeanSigInv, LeanSigInv', [Next]_vars
             PROVE  [Book!Next]_(Book!vars)
  OBVIOUS
<1> DEFINE k == view.key
           L(i) == {<<s.epoch, s.message>> : s \in i}
<1>1. /\ KeyOfTrees /\ k \in SecretKeys /\ KeyShape(k)
      /\ sk = WithTrees(k, sk.top_tree)
  BY KeyFacts DEF LeanSigInv
<1> HIDE DEF k
<1>2. /\ PreparedStart(sk) = PreparedStart(k) /\ ActivationEnd(sk) = ActivationEnd(k)
      /\ PreparedInterval(sk) = PreparedInterval(k) /\ CanAdvance(sk) = CanAdvance(k)
  BY <1>1, SameMethods
<1>3. /\ PreparedStart(sk') = PreparedStart(view'.key)
      /\ ActivationEnd(sk') = ActivationEnd(view'.key)
  <2>1. PICK first \in 0..C, after \in 0..C :
          /\ view'.key \in SecretKeys
          /\ sk' = WithTrees(view'.key, TopTree(first, after))
    BY DEF LeanSigInv, KeyOfTrees
  <2> DEFINE new == view'.key
             top == TopTree(first, after)
  <2>2. new \in SecretKeys /\ sk' = WithTrees(new, top) BY <2>1
  <2> HIDE DEF new, top
  <2>3. PreparedStart(sk') = PreparedStart(new) /\ ActivationEnd(sk') = ActivationEnd(new)
    BY <2>2, SameMethods
  <2> QED BY <2>3 DEF new
<1>4. /\ PreparedStart(Sorted(k)) = PreparedStart(k)
      /\ ActivationEnd(Sorted(k)) = ActivationEnd(k)
      /\ Sorted(k) \in SecretKeys /\ StrictlyAscending(Sorted(k).used_epochs)
  BY <1>1, SortedKey
<1>5. CASE UNCHANGED vars BY <1>5 DEF vars, Book!vars
<1>6. CASE Next
  <2>1. view' = View(sk', issued') BY <1>6 DEF Next
  <2>2. ASSUME sk' = sk \/ sk' = Sorted(sk), UNCHANGED <<root, issued>>
        PROVE  UNCHANGED Book!vars
    <3>1. view'.key = k \/ view'.key = Sorted(k) BY <2>1, <2>2, QuietStep DEF k
    <3>2. PreparedStart(sk') = PreparedStart(sk) /\ ActivationEnd(sk') = ActivationEnd(sk)
      BY <1>2, <1>3, <1>4, <3>1
    <3> QED BY <2>2, <3>2 DEF Book!vars
  <2>3. ASSUME NEW e \in SignEpoch, NEW m \in Message, SignOk(e, m), PathExists(e)
        PROVE  Book!Next
    <3>1. PICK p \in InsertPositions(Sorted(sk).used_epochs, e) :
            sk' = Consume(Sorted(sk), p, e)
      BY <2>3 DEF SignOk
    <3>2. /\ Signable(e) /\ GoodAttempts(e, m) # {} /\ root' = root
          /\ issued' = issued \cup
               {[epoch |-> e, message |-> m, sig |-> NewSignature(e, m)]}
      BY <2>3 DEF SignOk, Unused
    <3>3. view'.key = Consume(Sorted(k), p, e) BY <2>1, <3>1, <3>2, SignedStep DEF k
    <3>4. p \in InsertPositions(Sorted(k).used_epochs, e)
      <4>1. Sorted(sk) = WithTrees(Sorted(k), sk.top_tree) BY <1>1, SameKey DEF k
      <4>2. Sorted(sk).used_epochs = Sorted(k).used_epochs BY <1>4, <4>1, SameMethods
      <4> QED BY <3>1, <4>2
    <3>5. e \in Epoch BY SignEpochs
    <3>6. PreparedStart(sk') = PreparedStart(sk) /\ ActivationEnd(sk') = ActivationEnd(sk)
      BY <1>2, <1>3, <1>4, <3>3, <3>4, <3>5, ConsumedKey
    <3>7. e \in PreparedInterval(sk) BY <3>2 DEF Signable, Prepared
    <3>8. e \in Book!Window
      <4>1. PreparedInterval(sk) = PreparedStart(sk)..PreparedEnd(sk) - 1
        BY DEF PreparedInterval
      <4>2. PreparedEnd(sk) = PreparedStart(sk) + 2 * C BY DEF PreparedEnd
      <4>3. Book!Window = PreparedStart(sk)..PreparedStart(sk) + 2 * C - 1
        BY DEF Book!Window
      <4>4. PreparedStart(sk) \in Int /\ C \in Int BY <1>1, <1>2, KeyTypes, SizeOfHalves
      <4>5. PreparedEnd(sk) - 1 = PreparedStart(sk) + 2 * C - 1 BY <4>2, <4>4
      <4> QED BY <3>7, <4>1, <4>3, <4>5
    <3> DEFINE new == [epoch |-> e, message |-> m, sig |-> NewSignature(e, m)]
    <3>9. new.epoch = e /\ new.message = m /\ issued' = issued \cup {new} BY <3>2
    <3> HIDE DEF new
    <3>10. \A s \in issued : s.epoch # e
      <4>1. UsedEpochs(sk) = UsedEpochs(Sorted(k)) BY <1>1, SameMethods, SortedKey
      <4>2. Sorted(k).used_epochs \in Seq(Epoch) /\ Epoch \subseteq Int /\ e \in Int
        BY <1>4, <3>5, KeyTypes, Numbers
      <4>3. InsertPositions(Sorted(k).used_epochs, e) = {}
              <=> e \in Range(Sorted(k).used_epochs)
        BY <1>4, <4>2, InsertPositionExists
      <4>4. e \notin UsedEpochs(sk) BY <3>4, <4>1, <4>3 DEF UsedEpochs
      <4> QED BY <3>7, <4>4 DEF LeanSigInv, SignedOnce
    <3>11. \A s \in L(issued) : s[1] # e BY <3>10
    <3>12. L(issued') = L(issued) \cup {<<e, m>>} BY <3>9
    <3>13. Book!Sign(e, m) BY <3>6, <3>8, <3>11, <3>12 DEF Book!Sign
    <3> QED BY <3>8, <3>13 DEF Book!Next
  <2>4. CASE AdvancePreparation /\ CanAdvance(sk)
    <3>1. view'.key = Advanced(k) /\ issued' = issued
      BY <2>1, <2>4, SlideStep DEF AdvancePreparation, k
    <3>2. /\ PreparedStart(sk') = PreparedStart(sk) + C
          /\ ActivationEnd(sk') = ActivationEnd(sk)
      BY <1>1, <1>2, <1>3, <2>4, <3>1, AdvancedKey
    <3>3. PreparedStart(sk) + 3 * C <= ActivationEnd(sk)
      BY <2>4 DEF CanAdvance, PreparedStart
    <3>4. Book!Slide BY <3>1, <3>2, <3>3 DEF Book!Slide
    <3> QED BY <3>4 DEF Book!Next
  <2>5. CASE AdvancePreparation /\ ~CanAdvance(sk) BY <2>2, <2>5 DEF AdvancePreparation
  <2>6. ASSUME NEW e \in SignEpoch, NEW m \in Message, Sign(e, m)
        PROVE  [Book!Next]_(Book!vars)
    <3>1. CASE SignRefused(e) BY <2>2, <3>1 DEF SignRefused
    <3>2. CASE SignAlreadyUsed(e) BY <2>2, <3>2 DEF SignAlreadyUsed
    <3>3. CASE SignEncodingFails(e, m) BY <2>2, <3>3 DEF SignEncodingFails
    <3>4. CASE SignOk(e, m) /\ PathExists(e) BY <2>3, <3>4
    <3>5. CASE SignOk(e, m) /\ ~PathExists(e) BY <2>2, <3>5 DEF SignOk
    <3> QED BY <2>6, <3>1, <3>2, <3>3, <3>4, <3>5 DEF Sign
  <2> QED BY <1>6, <2>4, <2>5, <2>6 DEF Next
<1> QED BY <1>5, <1>6

(* The whole scheme, real trees and chains included, is a one-time ledger for *)
(* its owner: one message per epoch, in a window that only slides forward     *)
(* inside an interval fixed by key_gen.                                       *)
THEOREM RefinesLedger == Spec => Book!Spec
<1>1. Init => Book!Init BY InitBook
<1>2. LeanSigInv /\ LeanSigInv' /\ [Next]_vars => [Book!Next]_(Book!vars) BY NextBook
<1> QED BY <1>1, <1>2, LeanSigInvariant, PTL DEF Spec, Book!Spec
===============================================================================
