--------------------------- MODULE SecretKeyProofs ----------------------------
(* What each method does to a key of the right shape, whatever the size of    *)
(* the half trees, the activation interval and the epochs used so far.        *)
EXTENDS SecretKey, SequencesExt, FiniteSetTheorems, SequenceTheorems, TLAPS

-------------------------------------------------------------------------------
(* What the operators of Ascending return, for every vector of integers.      *)

(* The number of members below i tells the members of a finite set apart and  *)
(* orders them.                                                               *)
LEMMA BelowIncreases ==
  ASSUME NEW S, S \subseteq Int, IsFiniteSet(S)
  PROVE  \A i, j \in S :
           /\ Cardinality(Below(S, i)) \in 0..Cardinality(S) - 1
           /\ i < j => Cardinality(Below(S, i)) < Cardinality(Below(S, j))
<1> SUFFICES ASSUME NEW i \in S, NEW j \in S
             PROVE  /\ Cardinality(Below(S, i)) \in 0..Cardinality(S) - 1
                    /\ i < j => Cardinality(Below(S, i)) < Cardinality(Below(S, j))
  OBVIOUS
<1>1. ASSUME NEW T, T \subseteq S, i \in T, NEW U, U \subseteq T, i \notin U
      PROVE  /\ Cardinality(U) \in Nat /\ Cardinality(T) \in Nat
             /\ Cardinality(U) < Cardinality(T)
  <2>1. IsFiniteSet(T) BY <1>1, FS_Subset
  <2>2. IsFiniteSet(T \ {i}) /\ Cardinality(T \ {i}) = Cardinality(T) - 1
    BY <1>1, <2>1, FS_RemoveElement
  <2>3. U \in SUBSET (T \ {i}) BY <1>1
  <2>4. IsFiniteSet(U) /\ Cardinality(U) <= Cardinality(T \ {i})
    BY <2>2, <2>3, FS_Subset
  <2> QED BY <2>1, <2>2, <2>4, FS_CardinalityType
<1>2. Below(S, i) \subseteq S /\ i \notin Below(S, i) BY DEF Below
<1>3. Cardinality(Below(S, i)) \in 0..Cardinality(S) - 1 BY <1>1, <1>2
<1>4. ASSUME i < j PROVE Cardinality(Below(S, i)) < Cardinality(Below(S, j))
  <2>1. Below(S, j) \subseteq S /\ i \in Below(S, j) BY <1>4 DEF Below
  <2>2. Below(S, i) \subseteq Below(S, j)
    <3>1. ASSUME NEW x \in S, x < i PROVE x < j
      <4>1. x \in Int /\ i \in Int /\ j \in Int OBVIOUS
      <4> QED BY <1>4, <3>1, <4>1
    <3> QED BY <3>1 DEF Below
  <2> QED BY <1>1, <1>2, <2>1, <2>2
<1> QED BY <1>3, <1>4

(* Nth is what its name says: every rank is taken.                            *)
LEMMA NthProperties ==
  ASSUME NEW S, S \subseteq Int, IsFiniteSet(S), NEW k \in 1..Cardinality(S)
  PROVE  Nth(S, k) \in S /\ Cardinality(Below(S, Nth(S, k))) = k - 1
<1>1. Cardinality(S) \in Nat BY FS_CardinalityType
<1>0. \A i, j \in S :
        /\ Cardinality(Below(S, i)) \in 0..Cardinality(S) - 1
        /\ i < j => Cardinality(Below(S, i)) < Cardinality(Below(S, j))
  BY BelowIncreases
<1> DEFINE n == Cardinality(S)
           T == (0..n - 1) \ {k - 1}
           f == [i \in S |-> Cardinality(Below(S, i))]
<1>2. SUFFICES ASSUME \A i \in S : Cardinality(Below(S, i)) # k - 1
               PROVE  FALSE
  BY DEF Nth
<1>3. f \in [S -> T] BY <1>2, <1>0
<1>4. IsFiniteSet(0..n - 1) /\ Cardinality(0..n - 1) = n
  <2>1. n \in Nat BY <1>1
  <2> HIDE DEF n
  <2>2. 0 \in Int /\ n - 1 \in Int BY <2>1
  <2>3. /\ IsFiniteSet(0..n - 1)
        /\ Cardinality(0..n - 1) = IF 0 > n - 1 THEN 0 ELSE (n - 1) - 0 + 1
    BY <2>2, FS_Interval
  <2> QED BY <2>1, <2>3
<1>5. IsFiniteSet(T) /\ Cardinality(T) < n
  <2>1. k - 1 \in 0..n - 1 BY <1>1
  <2> HIDE DEF n
  <2>2. IsFiniteSet(T) /\ Cardinality(T) = n - 1
    BY <1>4, <2>1, FS_RemoveElement
  <2> QED BY <1>1, <2>2 DEF n
<1>6. PICK x, y \in S : x # y /\ f[x] = f[y]
  <2> HIDE DEF f, T
  <2> QED BY <1>3, <1>5, FS_PigeonHole
<1>7. x \in Int /\ y \in Int OBVIOUS
<1>8. x < y \/ y < x BY <1>6, <1>7
<1>9. Cardinality(Below(S, x)) = Cardinality(Below(S, y)) BY <1>6
<1>10. Cardinality(Below(S, x)) \in Int BY <1>1, <1>0
<1> QED BY <1>8, <1>9, <1>10, <1>0

(* Enumerate lists every member of a finite set of integers once, smallest    *)
(* first.                                                                     *)
LEMMA EnumerateProperties ==
  ASSUME NEW S, S \subseteq Int, IsFiniteSet(S)
  PROVE  /\ Enumerate(S) \in Seq(S)
         /\ DOMAIN Enumerate(S) = 1..Cardinality(S)
         /\ StrictlyAscending(Enumerate(S))
         /\ \A i \in S : \E k \in DOMAIN Enumerate(S) : Enumerate(S)[k] = i
<1> DEFINE n == Cardinality(S)
<1>1. n \in Nat BY FS_CardinalityType
<1>0. \A i, j \in S :
        /\ Cardinality(Below(S, i)) \in 0..Cardinality(S) - 1
        /\ i < j => Cardinality(Below(S, i)) < Cardinality(Below(S, j))
  BY BelowIncreases
<1>2. DOMAIN Enumerate(S) = 1..n BY DEF Enumerate
<1>3. \A k \in 1..n : /\ Enumerate(S)[k] \in S
                      /\ Cardinality(Below(S, Enumerate(S)[k])) = k - 1
  BY NthProperties DEF Enumerate
<1>4. Enumerate(S) \in [1..n -> S] BY NthProperties DEF Enumerate
<1>5. Enumerate(S) \in Seq(S) BY <1>1, <1>4
<1>6. StrictlyAscending(Enumerate(S))
  <2> SUFFICES ASSUME NEW i \in 1..n, NEW j \in 1..n, i < j
               PROVE  Enumerate(S)[i] < Enumerate(S)[j]
    BY <1>2 DEF StrictlyAscending
  <2> DEFINE a == Enumerate(S)[i]
             b == Enumerate(S)[j]
  <2>1. a \in S /\ b \in S /\ a \in Int /\ b \in Int BY <1>3
  <2>2. Cardinality(Below(S, a)) < Cardinality(Below(S, b))
    <3>1. i - 1 < j - 1 OBVIOUS
    <3>2. Cardinality(Below(S, a)) = i - 1 /\ Cardinality(Below(S, b)) = j - 1
      BY <1>3
    <3> QED BY <3>1, <3>2
  <2>3. ~(b < a) /\ a # b
    <3> HIDE DEF a, b
    <3>1. Cardinality(Below(S, a)) \in Int /\ Cardinality(Below(S, b)) \in Int
      BY <2>1, <1>0
    <3> QED BY <2>1, <2>2, <3>1, <1>0
  <2> HIDE DEF a, b
  <2>4. a < b BY <2>1, <2>3
  <2> QED BY <2>4 DEF a, b
<1>7. ASSUME NEW i \in S
      PROVE  \E k \in 1..n : Enumerate(S)[k] = i
  <2> DEFINE k == Cardinality(Below(S, i)) + 1
  <2>1. k \in 1..n BY <1>1, <1>0
  <2> DEFINE a == Enumerate(S)[k]
  <2>2. a \in S /\ Cardinality(Below(S, a)) = Cardinality(Below(S, i))
    BY <1>3, <2>1, <1>0
  <2>3. ~(a < i) /\ ~(i < a)
    <3> HIDE DEF a
    <3> QED BY <2>2, <1>0
  <2>4. a = i
    <3> HIDE DEF a
    <3>1. a \in Int /\ i \in Int BY <2>2
    <3> QED BY <2>3, <3>1
  <2> QED BY <2>1, <2>4
<1> QED BY <1>2, <1>5, <1>6, <1>7

(* sort_unstable and dedup keep the same epochs, each once and in order.      *)
LEMMA SortDedupProperties ==
  ASSUME NEW S, S \subseteq Int, NEW s \in Seq(S)
  PROVE  /\ SortDedup(s) \in Seq(S)
         /\ StrictlyAscending(SortDedup(s))
         /\ Range(SortDedup(s)) = Range(s)
<1>1. /\ Len(s) \in Nat
      /\ DOMAIN s = 1..Len(s)
      /\ s \in [1..Len(s) -> S]
  BY LenProperties
<1>2. Range(s) \subseteq S BY <1>1 DEF Range
<1>3. Range(s) \subseteq Int BY <1>2
<1>4. IsFiniteSet(Range(s))
  <2>1. s \in Surjection(1..Len(s), Range(s)) BY <1>1 DEF Surjection, Range
  <2>2. IsFiniteSet(1..Len(s)) BY <1>1, FS_Interval
  <2> QED BY <2>1, <2>2, FS_Surjection
<1> DEFINE t == SortDedup(s)
<1>5. /\ t \in Seq(Range(s))
      /\ StrictlyAscending(t)
      /\ \A i \in Range(s) : \E k \in DOMAIN t : t[k] = i
  BY <1>3, <1>4, EnumerateProperties DEF SortDedup
<1> HIDE DEF t
<1>6. t \in Seq(S) BY <1>2, <1>5, SeqMonotonic
<1>7. Range(t) = Range(s)
  <2>1. DOMAIN t = 1..Len(t) /\ t \in [1..Len(t) -> Range(s)]
    BY <1>5, LenProperties
  <2>2. Range(t) \subseteq Range(s) BY <2>1 DEF Range
  <2>3. Range(s) \subseteq Range(t) BY <1>5 DEF Range
  <2> QED BY <2>2, <2>3
<1> QED BY <1>5, <1>6, <1>7 DEF t

(* retain keeps exactly the epochs from lo on, in their order.                *)
LEMMA RetainFromProperties ==
  ASSUME NEW S, S \subseteq Int, NEW s \in Seq(S), NEW lo \in Int
  PROVE  /\ RetainFrom(s, lo) \in Seq(S)
         /\ StrictlyAscending(s) => StrictlyAscending(RetainFrom(s, lo))
         /\ Range(RetainFrom(s, lo)) = {x \in Range(s) : x >= lo}
<1> DEFINE K == {i \in DOMAIN s : s[i] >= lo}
           kept == Enumerate(K)
           t == RetainFrom(s, lo)
<1>1. /\ Len(s) \in Nat
      /\ DOMAIN s = 1..Len(s)
      /\ \A i \in DOMAIN s : s[i] \in S
  BY LenProperties
<1>2. IsFiniteSet(K) /\ K \subseteq Int
  <2>1. IsFiniteSet(1..Len(s)) BY <1>1, FS_Interval
  <2>2. K \in SUBSET (1..Len(s)) BY <1>1
  <2> QED BY <2>1, <2>2, FS_Subset
<1>3. /\ kept \in Seq(K)
      /\ StrictlyAscending(kept)
      /\ \A i \in K : \E k \in DOMAIN kept : kept[k] = i
  <2> HIDE DEF K
  <2> QED BY <1>2, EnumerateProperties
<1>4. t = [k \in DOMAIN kept |-> s[kept[k]]] BY DEF RetainFrom
<1> HIDE DEF kept, t
<1>5. /\ Len(kept) \in Nat
      /\ DOMAIN kept = 1..Len(kept)
      /\ \A k \in DOMAIN kept : kept[k] \in K
  <2> HIDE DEF K
  <2> QED BY <1>3, LenProperties
<1>6. t \in [1..Len(kept) -> S] BY <1>1, <1>4, <1>5
<1>7. t \in Seq(S) BY <1>5, <1>6
<1>8. DOMAIN t = DOMAIN kept BY <1>4
<1>9. ASSUME StrictlyAscending(s)
      PROVE  StrictlyAscending(t)
  <2> SUFFICES ASSUME NEW i \in DOMAIN t, NEW j \in DOMAIN t, i < j
               PROVE  t[i] < t[j]
    BY DEF StrictlyAscending
  <2>1. kept[i] < kept[j] BY <1>3, <1>8 DEF StrictlyAscending
  <2>2. kept[i] \in DOMAIN s /\ kept[j] \in DOMAIN s BY <1>5, <1>8
  <2>3. s[kept[i]] < s[kept[j]] BY <1>9, <2>1, <2>2 DEF StrictlyAscending
  <2> QED BY <1>4, <1>8, <2>3
<1>10. Range(t) = {x \in Range(s) : x >= lo}
  <2>1. ASSUME NEW x \in Range(t) PROVE x \in Range(s) /\ x >= lo
    <3>1. PICK k \in DOMAIN kept : x = s[kept[k]] BY <1>4, <1>8 DEF Range
    <3>2. kept[k] \in K BY <1>5
    <3> QED BY <3>1, <3>2 DEF Range
  <2>2. ASSUME NEW x \in Range(s), x >= lo PROVE x \in Range(t)
    <3>1. PICK i \in DOMAIN s : s[i] = x BY DEF Range
    <3>2. i \in K BY <2>2, <3>1
    <3>3. PICK k \in DOMAIN kept : kept[k] = i BY <1>3, <3>2
    <3>4. k \in DOMAIN t /\ t[k] = x BY <1>4, <1>8, <3>1, <3>3
    <3> QED BY <3>4 DEF Range
  <2> QED BY <2>1, <2>2
<1> QED BY <1>7, <1>9, <1>10 DEF t

(* In an ascending vector, a position to insert at exists exactly when the    *)
(* epoch is absent.                                                           *)
LEMMA InsertPositionExists ==
  ASSUME NEW S, S \subseteq Int, NEW s \in Seq(S), StrictlyAscending(s),
         NEW e \in Int
  PROVE  InsertPositions(s, e) = {} <=> e \in Range(s)
<1>1. /\ Len(s) \in Nat
      /\ DOMAIN s = 1..Len(s)
      /\ \A i \in 1..Len(s) : s[i] \in Int
  BY LenProperties
<1>2. NonDescending(s)
  BY <1>1 DEF StrictlyAscending, NonDescending
<1>3. ASSUME e \in Range(s), NEW p \in InsertPositions(s, e) PROVE FALSE
  <2>1. PICK i \in 1..Len(s) : s[i] = e BY <1>1, <1>3 DEF Range
  <2>2. /\ p \in 1..Len(s) + 1
        /\ \A j \in 1..p - 1 : s[j] < e
        /\ \A j \in p..Len(s) : s[j] > e
    BY <1>2, <1>3 DEF InsertPositions
  <2>3. i \in 1..p - 1 \/ i \in p..Len(s) BY <1>1, <2>2
  <2> QED BY <1>1, <2>1, <2>2, <2>3
<1>4. ASSUME e \notin Range(s) PROVE InsertPositions(s, e) # {}
  <2> DEFINE K == {i \in 1..Len(s) : s[i] > e}
             kept == Enumerate(K)
  <2>1. \A i \in 1..Len(s) : s[i] # e BY <1>1, <1>4 DEF Range
  <2>2. CASE K = {}
    <3>1. Len(s) + 1 \in 1..Len(s) + 1 BY <1>1
    <3>2. \A i \in 1..Len(s) : s[i] < e BY <1>1, <2>1, <2>2
    <3>3. Len(s) + 1 \in InsertPositions(s, e)
      BY <1>1, <3>1, <3>2 DEF InsertPositions
    <3> QED BY <3>3
  <2>3. CASE K # {}
    <3>1. IsFiniteSet(K) /\ K \subseteq Int
      <4>1. IsFiniteSet(1..Len(s)) BY <1>1, FS_Interval
      <4> QED BY <4>1, FS_Subset
    <3>2. /\ kept \in Seq(K)
          /\ StrictlyAscending(kept)
          /\ \A i \in K : \E k \in DOMAIN kept : kept[k] = i
      <4> HIDE DEF K
      <4> QED BY <3>1, EnumerateProperties
    <3>3. /\ Len(kept) \in Nat
          /\ DOMAIN kept = 1..Len(kept)
          /\ \A k \in DOMAIN kept : kept[k] \in K
      <4> HIDE DEF K, kept
      <4> QED BY <3>2, LenProperties
    <3> HIDE DEF kept
    <3>4. 1 \in DOMAIN kept
      <4>1. PICK k \in DOMAIN kept : TRUE BY <2>3, <3>2
      <4> QED BY <3>3, <4>1
    <3> DEFINE p == kept[1]
    <3>5. p \in 1..Len(s) /\ s[p] > e BY <3>3, <3>4
    <3>6. ASSUME NEW i \in 1..p - 1 PROVE s[i] < e
      <4>1. i \in 1..Len(s) /\ i < p BY <1>1, <3>5
      <4>2. i \notin K
        <5> SUFFICES ASSUME i \in K PROVE FALSE OBVIOUS
        <5>1. PICK k \in DOMAIN kept : kept[k] = i BY <3>2
        <5>2. k # 1 BY <4>1, <5>1
        <5>3. 1 < k BY <3>3, <5>2
        <5>4. p < i BY <3>2, <3>4, <5>1, <5>3 DEF StrictlyAscending
        <5> QED BY <4>1, <3>5, <5>4
      <4> QED BY <1>1, <2>1, <4>1, <4>2
    <3>7. ASSUME NEW i \in p..Len(s) PROVE s[i] > e
      <4>1. i \in 1..Len(s) /\ (i = p \/ p < i) BY <1>1, <3>5
      <4>2. s[p] <= s[i] BY <1>1, <3>5, <4>1 DEF StrictlyAscending
      <4> QED BY <1>1, <3>5, <4>1, <4>2
    <3>8. p \in InsertPositions(s, e)
      BY <1>1, <3>5, <3>6, <3>7 DEF InsertPositions
    <3> QED BY <3>8
  <2> QED BY <2>2, <2>3
<1> QED BY <1>3, <1>4

(* Inserting at such a position keeps the vector ascending and adds the epoch *)
(* alone.                                                                     *)
LEMMA InsertAtProperties ==
  ASSUME NEW S, NEW s \in Seq(S), NEW e \in S,
         NEW p \in InsertPositions(s, e),
         S \subseteq Int, StrictlyAscending(s)
  PROVE  /\ InsertAt(s, p, e) \in Seq(S)
         /\ StrictlyAscending(InsertAt(s, p, e))
         /\ \A x : x \in Range(InsertAt(s, p, e)) <=> x \in Range(s) \/ x = e
<1>1. /\ Len(s) \in Nat
      /\ DOMAIN s = 1..Len(s)
      /\ \A i \in 1..Len(s) : s[i] \in S /\ s[i] \in Int
  BY LenProperties
<1>2. /\ p \in 1..Len(s) + 1
      /\ \A j \in 1..p - 1 : s[j] < e
      /\ \A j \in p..Len(s) : s[j] > e
  BY <1>1 DEF InsertPositions, StrictlyAscending, NonDescending
<1> DEFINE l == SubSeq(s, 1, p - 1)
           r == SubSeq(s, p, Len(s))
           t == InsertAt(s, p, e)
<1>3. /\ l \in Seq(S) /\ Len(l) = p - 1
      /\ \A i \in 1..p - 1 : l[i] = s[i]
  <2>1. \A i \in 1..p - 1 : s[i] \in S BY <1>1, <1>2
  <2>2. 1 \in Int /\ p - 1 \in Int BY <1>2
  <2>3. /\ l \in Seq(S) /\ Len(l) = IF 1 <= p - 1 THEN (p - 1) - 1 + 1 ELSE 0
        /\ \A i \in 1..(p - 1) - 1 + 1 : l[i] = s[1 + i - 1]
    BY <2>1, <2>2, SubSeqProperties
  <2> QED BY <1>2, <2>3
<1>4. /\ r \in Seq(S) /\ Len(r) = Len(s) - p + 1
      /\ \A i \in 1..Len(s) - p + 1 : r[i] = s[p + i - 1]
  <2>1. \A i \in p..Len(s) : s[i] \in S BY <1>1, <1>2
  <2>2. p \in Int /\ Len(s) \in Int BY <1>1, <1>2
  <2>3. /\ r \in Seq(S)
        /\ Len(r) = IF p <= Len(s) THEN Len(s) - p + 1 ELSE 0
        /\ \A i \in 1..Len(s) - p + 1 : r[i] = s[p + i - 1]
    BY <2>1, <2>2, SubSeqProperties
  <2> QED BY <1>1, <1>2, <2>3
<1>5. t = (l \o <<e>>) \o r BY DEF InsertAt
<1> HIDE DEF l, r, t
<1>6. <<e>> \in Seq(S) /\ Len(<<e>>) = 1 /\ <<e>>[1] = e OBVIOUS
<1>7. /\ l \o <<e>> \in Seq(S) /\ Len(l \o <<e>>) = p
      /\ \A i \in 1..p : (l \o <<e>>)[i] = IF i <= p - 1 THEN s[i] ELSE e
  <2>1. /\ l \o <<e>> \in Seq(S) /\ Len(l \o <<e>>) = Len(l) + Len(<<e>>)
        /\ \A i \in 1..Len(l) + Len(<<e>>) : (l \o <<e>>)[i] =
             IF i <= Len(l) THEN l[i] ELSE <<e>>[i - Len(l)]
    BY <1>3, <1>6, ConcatProperties
  <2>2. Len(l) + Len(<<e>>) = p BY <1>2, <1>3, <1>6
  <2>3. ASSUME NEW i \in 1..p
        PROVE (l \o <<e>>)[i] = IF i <= p - 1 THEN s[i] ELSE e
    <3>1. CASE i <= p - 1 BY <1>2, <1>3, <2>1, <2>2, <3>1
    <3>2. CASE i = p
      <4>1. i - Len(l) = 1 BY <1>2, <1>3, <3>2
      <4>2. ~(i <= Len(l)) BY <1>2, <1>3, <3>2
      <4> QED BY <1>2, <1>6, <2>1, <2>2, <3>2, <4>1, <4>2
    <3>3. i <= p - 1 \/ i = p
      <4>1. p \in Int /\ i \in Int /\ i <= p BY <1>2
      <4> QED BY <4>1
    <3> QED BY <3>1, <3>2, <3>3
  <2> QED BY <2>1, <2>2, <2>3
<1>8. /\ t \in Seq(S) /\ Len(t) = Len(s) + 1
      /\ \A i \in 1..Len(s) + 1 : t[i] =
           IF i <= p - 1 THEN s[i] ELSE IF i = p THEN e ELSE s[i - 1]
  <2>1. /\ t \in Seq(S) /\ Len(t) = p + Len(r)
        /\ \A i \in 1..p + Len(r) : t[i] =
             IF i <= p THEN (l \o <<e>>)[i] ELSE r[i - p]
    BY <1>4, <1>5, <1>7, ConcatProperties
  <2>2. p + Len(r) = Len(s) + 1 BY <1>1, <1>2, <1>4
  <2>3. ASSUME NEW i \in 1..Len(s) + 1
        PROVE  t[i] = IF i <= p - 1 THEN s[i] ELSE IF i = p THEN e ELSE s[i - 1]
    <3>1. CASE i <= p BY <1>1, <1>2, <1>7, <2>1, <2>2, <3>1
    <3>2. CASE i > p
      <4>1. i - p \in 1..Len(s) - p + 1 BY <1>1, <1>2, <3>2
      <4>2. r[i - p] = s[p + (i - p) - 1] BY <1>4, <4>1
      <4>3. p + (i - p) - 1 = i - 1 BY <1>2
      <4> QED BY <1>1, <1>2, <2>1, <2>2, <3>2, <4>2, <4>3
    <3> QED BY <1>1, <1>2, <3>1, <3>2
  <2> QED BY <2>1, <2>2, <2>3
<1>9. DOMAIN t = 1..Len(s) + 1 BY <1>8, LenProperties
<1>10. StrictlyAscending(t)
  <2> SUFFICES ASSUME NEW i \in 1..Len(s) + 1, NEW j \in 1..Len(s) + 1, i < j
               PROVE  t[i] < t[j]
    BY <1>9 DEF StrictlyAscending
  <2>1. \A a, b \in 1..Len(s) : a < b => s[a] < s[b]
    BY <1>1 DEF StrictlyAscending
  <2>2. e \in Int OBVIOUS
  <2>3. CASE j <= p - 1 BY <1>1, <1>2, <1>8, <2>1, <2>3
  <2>4. CASE j = p BY <1>1, <1>2, <1>8, <2>4
  <2>5. CASE j > p /\ i <= p - 1 BY <1>1, <1>2, <1>8, <2>1, <2>5
  <2>6. CASE j > p /\ i = p BY <1>1, <1>2, <1>8, <2>6
  <2>7. CASE j > p /\ i > p BY <1>1, <1>2, <1>8, <2>1, <2>7, SMTT(30)
  <2> QED BY <1>1, <1>2, <2>3, <2>4, <2>5, <2>6, <2>7
<1>11. Range(t) = Range(s) \cup {e}
  <2>1. ASSUME NEW x \in Range(t) PROVE x \in Range(s) \cup {e}
    <3>1. PICK i \in 1..Len(s) + 1 : t[i] = x BY <1>9 DEF Range
    <3>2. CASE i <= p - 1
      <4>1. i \in 1..Len(s) BY <1>1, <1>2, <3>2
      <4>2. x = s[i] BY <1>8, <3>1, <3>2
      <4> QED BY <1>1, <4>1, <4>2 DEF Range
    <3>3. CASE i = p BY <1>1, <1>2, <1>8, <3>1, <3>3
    <3>4. CASE i > p
      <4>1. i - 1 \in 1..Len(s) BY <1>1, <1>2, <3>4
      <4>2. i \in Int /\ p \in Int /\ ~(i <= p - 1) /\ i # p BY <1>2, <3>4
      <4>3. x = s[i - 1] BY <1>8, <3>1, <4>2
      <4> QED BY <1>1, <4>1, <4>3 DEF Range
    <3> QED BY <1>1, <1>2, <3>2, <3>3, <3>4
  <2>2. ASSUME NEW x \in Range(s) PROVE x \in Range(t)
    <3>1. PICK i \in 1..Len(s) : s[i] = x BY <1>1 DEF Range
    <3>2. CASE i <= p - 1
      <4>1. i \in DOMAIN t /\ t[i] = x BY <1>1, <1>2, <1>8, <1>9, <3>1, <3>2
      <4> QED BY <4>1 DEF Range
    <3>3. CASE i > p - 1
      <4>1. i + 1 \in DOMAIN t /\ t[i + 1] = s[i + 1 - 1]
        BY <1>1, <1>2, <1>8, <1>9, <3>1, <3>3
      <4>2. i + 1 - 1 = i OBVIOUS
      <4> QED BY <3>1, <4>1, <4>2 DEF Range
    <3> QED BY <1>1, <1>2, <3>2, <3>3
  <2>3. e \in Range(t)
    <3>1. p \in DOMAIN t /\ t[p] = e BY <1>1, <1>2, <1>8, <1>9
    <3> QED BY <3>1 DEF Range
  <2> QED BY <2>1, <2>2, <2>3
<1> QED BY <1>8, <1>10, <1>11 DEF t

-------------------------------------------------------------------------------
(* expand_activation_time.                                                    *)

(* Division by the size of a bottom tree.                                     *)
LEMMA DivC ==
  ASSUME NEW x \in Nat
  PROVE  /\ x \div C \in Nat
         /\ (x \div C) * C <= x /\ x < (x \div C) * C + C
  BY CAssumption

(* Multiples of C.                                                            *)
LEMMA MulC ==
  ASSUME NEW x \in Int
  PROVE  /\ x * C \in Int
         /\ 0 <= x => 0 <= x * C
         /\ (x + 1) * C = x * C + C
         /\ (x + 2) * C = x * C + 2 * C
         /\ (x + 3) * C = x * C + 3 * C
  BY CAssumption

(* Order between multiples of C is order between the multipliers.             *)
LEMMA MulOrder ==
  ASSUME NEW x \in Int, NEW y \in Int
  PROVE  /\ x <= y <=> x * C <= y * C
         /\ x < y <=> x * C < y * C
         /\ (x - y) * C = x * C - y * C
  BY CAssumption

LEMMA MulDivC ==
  ASSUME NEW x \in Int
  PROVE  (x * C) \div C = x
  BY CAssumption

LEMMA WrapSmall ==
  ASSUME NEW x \in Nat, x < UsizeRange
  PROVE  Wrap(x) = x
  BY UsizeAssumption DEF Wrap

(* What expand_activation_time computes: q is the tree of the first epoch, f  *)
(* the one after the last tree needed.                                        *)
LEMMA ExpandProperties ==
  ASSUME UsizeRange > Lifetime + 2 * C,
         NEW e \in Nat, NEW n \in Nat, ValidRequest(e, n)
  PROVE  /\ Expand(e, n).first \in Nat /\ Expand(e, n).after \in Nat
         /\ Covers(Expand(e, n), e, n)
         /\ \A a, b \in Int :
              a + 2 <= b /\ a * C <= e /\ e + n <= b * C =>
                Expand(e, n).after - Expand(e, n).first <= b - a
<1> USE CAssumption
<1>1. C \in Nat /\ C >= 2 /\ UsizeRange \in Nat /\ Lifetime = C * C
  BY UsizeAssumption DEF Lifetime
<1>2. Lifetime \in Nat /\ 2 * C <= Lifetime /\ C <= Lifetime
  BY <1>1, MulC, MulOrder
<1>3. n > 0 /\ e + n <= Lifetime BY DEF ValidRequest
<1> DEFINE q == e \div C
           x == e + n + C - 1
           d == x \div C
           f == IF d < q + 2 THEN q + 2 ELSE d
<1>4. q \in Nat /\ q * C <= e /\ e < q * C + C BY DivC
<1>5. x \in Nat BY <1>1
<1>6. d \in Nat /\ d * C <= x /\ x < d * C + C
  <2> HIDE DEF x
  <2> QED BY <1>5, DivC
<1>7. q < C
  <2>1. q * C < C * C BY <1>1, <1>3, <1>4
  <2> HIDE DEF q
  <2> QED BY <1>1, <1>4, <2>1, MulC, MulOrder
<1>8. d <= C
  <2>1. (C + 1) * C = C * C + C BY <1>1, MulC, MulOrder
  <2>2. d * C < (C + 1) * C BY <1>1, <1>3, <1>6, <2>1
  <2>3. d < C + 1
    <3> HIDE DEF d
    <3> QED BY <1>1, <1>6, <2>2, MulC, MulOrder
  <2> QED BY <1>1, <1>6, <2>3
<1>9. e + n <= d * C BY <1>1, <1>6
<1>10. q < d
  <2>1. q * C < d * C BY <1>1, <1>3, <1>4, <1>6, <1>9
  <2> HIDE DEF q, d
  <2> QED BY <1>4, <1>6, <2>1, MulC, MulOrder
<1>11. ASSUME NEW a \in Int, NEW b \in Int, a * C <= e, e + n <= b * C
       PROVE  a <= q /\ d <= b
  <2>1. (q + 1) * C = q * C + C BY <1>4, MulC
  <2>2. (b + 1) * C = b * C + C BY MulC
  <2>3. a * C \in Int /\ b * C \in Int /\ q * C \in Int /\ d * C \in Int
    BY <1>4, <1>6, MulC
  <2>4. a * C < (q + 1) * C BY <1>4, <1>11, <2>1, <2>3
  <2>5. d * C < (b + 1) * C BY <1>1, <1>6, <1>11, <2>2, <2>3
  <2> HIDE DEF q, d
  <2>6. a < q + 1 BY <1>4, <2>4, MulOrder
  <2>7. d < b + 1 BY <1>6, <2>5, MulOrder
  <2> QED BY <1>4, <1>6, <2>6, <2>7
<1>12. AlignDown(e) = q * C BY DEF AlignDown
<1>13. AlignedEnd(e, n) = d * C
  <2>1. Wrap(e + n) = e + n
    <3>1. e + n \in Nat /\ e + n < UsizeRange BY <1>1, <1>2, <1>3
    <3> QED BY <3>1, WrapSmall
  <2>2. Wrap(e + n + C - 1) = x
    <3>1. x < UsizeRange BY <1>1, <1>2, <1>3
    <3> QED BY <1>5, <3>1, WrapSmall
  <2> QED BY <2>1, <2>2 DEF AlignedEnd, AlignDown
<1> HIDE DEF q, x, d
<1>14. f \in Nat /\ q + 2 <= f /\ d <= f /\ f <= C + 1 /\ (f <= C \/ f = q + 2)
  BY <1>1, <1>4, <1>6, <1>7, <1>8
<1>15. TwoTreesEnd(e, n) = f * C
  <2>1. Wrap(d * C - q * C) = d * C - q * C
    <3>1. q * C < d * C /\ q * C \in Nat /\ d * C \in Nat
      BY <1>1, <1>4, <1>6, <1>10, MulC, MulOrder
    <3>2. d * C <= C * C BY <1>1, <1>6, <1>8, MulC, MulOrder
    <3>3. d * C - q * C \in Nat /\ d * C - q * C < UsizeRange
      BY <1>1, <1>2, <3>1, <3>2
    <3> QED BY <3>3, WrapSmall
  <2>2. d * C - q * C < 2 * C <=> d < q + 2
    <3>1. (q + 2) * C = q * C + 2 * C BY <1>4, MulC, MulOrder
    <3>2. d < q + 2 <=> d * C < (q + 2) * C BY <1>4, <1>6, MulC, MulOrder
    <3>3. d * C \in Int /\ q * C \in Int /\ 2 * C \in Int
      BY <1>1, <1>4, <1>6, MulC, MulOrder
    <3> QED BY <3>1, <3>2, <3>3
  <2>3. Wrap(q * C + 2 * C) = (q + 2) * C
    <3>1. q * C + 2 * C = (q + 2) * C BY <1>4, MulC, MulOrder
    <3>2. q * C \in Nat /\ q * C < C * C BY <1>1, <1>4, <1>7, MulC, MulOrder
    <3>3. q * C + 2 * C \in Nat /\ q * C + 2 * C < UsizeRange
      BY <1>1, <1>2, <3>2
    <3> QED BY <3>1, <3>3, WrapSmall
  <2> QED BY <1>12, <1>13, <2>1, <2>2, <2>3 DEF TwoTreesEnd
<1>16. UsizeLifetime = C * C BY <1>1, <1>2 DEF UsizeLifetime
<1>17. f = q + 2 \/ f = d BY DEF f
<1> HIDE DEF f
<1>18. ASSUME NEW a \in Int, NEW b \in Int,
              a + 2 <= b, a * C <= e, e + n <= b * C
       PROVE  2 <= b - a /\ f - q <= b - a
  <2>1. a <= q /\ d <= b BY <1>11, <1>18
  <2> QED BY <1>4, <1>6, <1>14, <1>17, <1>18, <2>1
<1>19. CASE f <= C
  <2>1. f * C <= C * C BY <1>1, <1>14, <1>19, MulC, MulOrder
  <2>2. Expand(e, n) = [first |-> (q * C) \div C, after |-> (f * C) \div C]
    BY <1>12, <1>15, <1>16, <2>1 DEF Expand
  <2>3. Expand(e, n) = [first |-> q, after |-> f]
    BY <1>4, <1>14, <2>2, MulDivC
  <2>4. e + n <= f * C
    <3>1. d * C <= f * C BY <1>6, <1>14, MulC, MulOrder
    <3>2. d * C \in Int /\ f * C \in Int BY <1>6, <1>14, MulC, MulOrder
    <3> QED BY <1>9, <3>1, <3>2
  <2>5. Covers(Expand(e, n), e, n)
    BY <1>4, <1>14, <1>19, <2>3, <2>4 DEF Covers
  <2>6. Expand(e, n).first = q /\ Expand(e, n).after = f BY <2>3
  <2> HIDE DEF Expand
  <2>7. ASSUME NEW a \in Int, NEW b \in Int,
               a + 2 <= b /\ a * C <= e /\ e + n <= b * C
        PROVE  Expand(e, n).after - Expand(e, n).first <= b - a
    BY <1>18, <2>6, <2>7
  <2> QED BY <1>4, <1>14, <2>5, <2>6, <2>7
<1>20. CASE f > C
  <2>1. f = C + 1 /\ q = C - 1 BY <1>1, <1>4, <1>14, <1>20
  <2>2. f * C = C * C + C BY <1>1, <2>1, MulC, MulOrder
  <2>3. q * C = C * C - C
    <3>1. (q + 1) * C = q * C + C BY <1>4, MulC, MulOrder
    <3>2. q + 1 = C BY <1>1, <2>1
    <3>3. q * C \in Int /\ C * C \in Int BY <1>1, <1>4, MulC, MulOrder
    <3> QED BY <1>1, <3>1, <3>2, <3>3
  <2>4. ~(f * C <= UsizeLifetime) BY <1>1, <1>2, <1>16, <2>2
  <2>5. Wrap(f * C - q * C) = 2 * C
    <3>1. f * C - q * C = 2 * C BY <1>1, <1>2, <2>2, <2>3
    <3>2. 2 * C \in Nat /\ 2 * C < UsizeRange BY <1>1, <1>2
    <3> QED BY <3>1, <3>2, WrapSmall
  <2>6. ~(2 * C > UsizeLifetime) BY <1>1, <1>2, <1>16
  <2>7. AlignDown(UsizeLifetime - 2 * C) = (C - 2) * C
    <3>1. (C - 2) * C = C * C - 2 * C BY <1>1, MulC, MulOrder
    <3>2. ((C - 2) * C) \div C = C - 2 BY <1>1, MulDivC
    <3> QED BY <1>16, <3>1, <3>2 DEF AlignDown
  <2>8. Expand(e, n) = [first |-> ((C - 2) * C) \div C, after |-> (C * C) \div C]
    BY <1>12, <1>15, <1>16, <2>4, <2>5, <2>6, <2>7 DEF Expand
  <2>9. Expand(e, n) = [first |-> C - 2, after |-> C]
    BY <1>1, <2>8, MulDivC
  <2>10. (C - 2) * C <= e
    <3>1. (C - 2) * C <= q * C BY <1>1, <1>4, <2>1, MulC, MulOrder
    <3>2. (C - 2) * C \in Int /\ q * C \in Int BY <1>1, <1>4, MulC, MulOrder
    <3> QED BY <1>4, <3>1, <3>2
  <2>11. Covers(Expand(e, n), e, n) BY <1>1, <1>3, <2>9, <2>10 DEF Covers
  <2>12. C - (C - 2) = 2 BY <1>1
  <2> QED BY <1>1, <1>18, <2>9, <2>11, <2>12
<1> QED BY <1>1, <1>14, <1>19, <1>20

(* The interval is aligned, holds the request and at least two bottom trees,  *)
(* and does not leave the lifetime: no assert of key_gen that follows the     *)
(* expansion can fail.                                                        *)
THEOREM ExpandCovers ==
  ASSUME UsizeRange > Lifetime + 2 * C,
         NEW e \in Nat, NEW n \in Nat, ValidRequest(e, n)
  PROVE  /\ Expand(e, n).first \in Nat /\ Expand(e, n).after \in Nat
         /\ Covers(Expand(e, n), e, n)
BY ExpandProperties

(* No interval of two or more whole bottom trees that holds the request is    *)
(* shorter than the one expand_activation_time chooses.                       *)
THEOREM ExpandSmallest ==
  ASSUME UsizeRange > Lifetime + 2 * C,
         NEW e \in Nat, NEW n \in Nat, ValidRequest(e, n),
         NEW first \in Int, NEW after \in Int,
         Covers([first |-> first, after |-> after], e, n)
  PROVE  Expand(e, n).after - Expand(e, n).first <= after - first
<1>1. first + 2 <= after /\ first * C <= e /\ e + n <= after * C BY DEF Covers
<1> QED BY <1>1, ExpandProperties

-------------------------------------------------------------------------------
(* The methods.                                                               *)

(* Epochs are integers, and the lifetime is.                                  *)
LEMMA Numbers ==
  /\ C \in Nat /\ C >= 2 /\ U32Range \in Nat /\ C * C <= U32Range
  /\ Epoch \subseteq Int
  BY CAssumption, U32Assumption DEF Epoch, Lifetime

(* The fields of a key and the bounds of its intervals are integers.          *)
LEMMA KeyTypes ==
  ASSUME NEW k \in SecretKeys
  PROVE  /\ k.used_epochs \in Seq(Epoch) /\ UsedEpochs(k) \subseteq Epoch
         /\ k.left_bottom_tree_index \in Nat
         /\ PreparedStart(k) \in Int /\ PreparedEnd(k) \in Int
         /\ ActivationEnd(k) \in Int /\ k.activation_epoch \in Int
         /\ PreparedEnd(k) = PreparedStart(k) + 2 * C
<1>1. k.used_epochs \in Seq(Epoch) /\ k.left_bottom_tree_index \in Nat
  BY DEF SecretKeys
<1>2. UsedEpochs(k) \subseteq Epoch BY <1>1, RangeOfSeq DEF UsedEpochs
<1>3. PreparedStart(k) \in Int BY <1>1, Numbers, MulC, MulOrder DEF PreparedStart
<1>4. k.activation_epoch \in Int /\ ActivationEnd(k) \in Int
  BY DEF SecretKeys, ActivationEnd
<1> QED BY <1>1, <1>2, <1>3, <1>4, Numbers DEF PreparedEnd

(* The window of a key of the right shape is in its activation interval, and  *)
(* the interval in the lifetime.                                              *)
LEMMA ShapeBounds ==
  ASSUME NEW k \in SecretKeys, KeyShape(k)
  PROVE  /\ 0 <= k.activation_epoch /\ k.activation_epoch <= PreparedStart(k)
         /\ PreparedEnd(k) <= ActivationEnd(k) /\ ActivationEnd(k) <= C * C
         /\ PreparedInterval(k) \subseteq ActivationIntervalOf(k)
         /\ k.left_bottom_tree_index + 2 <= C
<1> DEFINE left == k.left_bottom_tree_index
<1>1. PICK first \in 0..C, after \in 0..C :
        /\ first <= left /\ left + 2 <= after
        /\ k.activation_epoch = first * C
        /\ k.num_active_epochs = (after - first) * C
  BY DEF KeyShape
<1>2. first \in Int /\ after \in Int /\ left \in Int /\ C \in Int
  BY <1>1, Numbers DEF SecretKeys
<1> HIDE DEF left
<1>3. /\ first * C <= left * C /\ 0 * C <= first * C
      /\ (left + 2) * C <= after * C /\ after * C <= C * C
      /\ (left + 2) * C = left * C + 2 * C
      /\ (after - first) * C = after * C - first * C
  BY <1>1, <1>2, MulC, MulOrder
<1>4. first * C \in Int /\ after * C \in Int /\ left * C \in Int
  BY <1>2, MulC, MulOrder
<1>5. PreparedStart(k) = left * C /\ PreparedEnd(k) = left * C + 2 * C
  BY DEF PreparedStart, PreparedEnd, left
<1>6. ActivationEnd(k) = after * C BY <1>1, <1>3, <1>4 DEF ActivationEnd
<1>7. /\ 0 <= k.activation_epoch /\ k.activation_epoch <= PreparedStart(k)
      /\ PreparedEnd(k) <= ActivationEnd(k) /\ ActivationEnd(k) <= C * C
  BY <1>1, <1>2, <1>3, <1>4, <1>5, <1>6
<1>8. PreparedInterval(k) \subseteq ActivationIntervalOf(k)
  BY <1>7, KeyTypes DEF PreparedInterval, ActivationIntervalOf
<1>9. left + 2 <= C BY <1>1, <1>2
<1> QED BY <1>7, <1>8, <1>9 DEF left

(* Sorting the list of used epochs changes nothing else.                      *)
LEMMA SortedKey ==
  ASSUME NEW k \in SecretKeys
  PROVE  /\ Sorted(k) \in SecretKeys
         /\ StrictlyAscending(Sorted(k).used_epochs)
         /\ UsedEpochs(Sorted(k)) = UsedEpochs(k)
         /\ KeyShape(k) => KeyShape(Sorted(k))
         /\ PreparedStart(Sorted(k)) = PreparedStart(k)
         /\ PreparedEnd(Sorted(k)) = PreparedEnd(k)
         /\ ActivationEnd(Sorted(k)) = ActivationEnd(k)
         /\ Sorted(k).activation_epoch = k.activation_epoch
         /\ Sorted(k).top_tree = k.top_tree
<1> DEFINE t == SortDedup(k.used_epochs)
<1>1. /\ t \in Seq(Epoch) /\ StrictlyAscending(t)
      /\ Range(t) = Range(k.used_epochs)
  BY KeyTypes, Numbers, SortDedupProperties
<1> HIDE DEF t
<1>2. Sorted(k) = [k EXCEPT !.used_epochs = t] BY DEF Sorted, t
<1>3. Sorted(k) \in SecretKeys /\ Sorted(k).used_epochs = t
  BY <1>1, <1>2 DEF SecretKeys
<1>4. /\ Sorted(k).activation_epoch = k.activation_epoch
      /\ Sorted(k).num_active_epochs = k.num_active_epochs
      /\ Sorted(k).top_tree = k.top_tree
      /\ Sorted(k).left_bottom_tree_index = k.left_bottom_tree_index
      /\ Sorted(k).left_bottom_tree = k.left_bottom_tree
      /\ Sorted(k).right_bottom_tree = k.right_bottom_tree
  BY <1>2 DEF SecretKeys
<1> QED BY <1>1, <1>3, <1>4
        DEF UsedEpochs, KeyShape, PreparedStart, PreparedEnd, ActivationEnd

(* InsertAt on lists of epochs.                                               *)
LEMMA InsertedEpoch ==
  ASSUME NEW s \in Seq(Epoch), StrictlyAscending(s),
         NEW e \in Epoch, NEW p \in InsertPositions(s, e)
  PROVE  /\ InsertAt(s, p, e) \in Seq(Epoch)
         /\ StrictlyAscending(InsertAt(s, p, e))
         /\ Range(InsertAt(s, p, e)) = Range(s) \cup {e}
<1>1. Epoch \subseteq Int BY Numbers
<1> QED BY <1>1, InsertAtProperties

(* Recording an epoch adds it to the list, in its place.                      *)
LEMMA ConsumedKey ==
  ASSUME NEW k \in SecretKeys, StrictlyAscending(k.used_epochs),
         NEW e \in Epoch, NEW p \in InsertPositions(k.used_epochs, e)
  PROVE  /\ Consume(k, p, e) \in SecretKeys
         /\ StrictlyAscending(Consume(k, p, e).used_epochs)
         /\ UsedEpochs(Consume(k, p, e)) = UsedEpochs(k) \cup {e}
         /\ KeyShape(k) => KeyShape(Consume(k, p, e))
         /\ PreparedStart(Consume(k, p, e)) = PreparedStart(k)
         /\ PreparedEnd(Consume(k, p, e)) = PreparedEnd(k)
         /\ ActivationEnd(Consume(k, p, e)) = ActivationEnd(k)
         /\ Consume(k, p, e).activation_epoch = k.activation_epoch
         /\ Consume(k, p, e).top_tree = k.top_tree
<1> DEFINE t == InsertAt(k.used_epochs, p, e)
           n == Consume(k, p, e)
<1>0. k.used_epochs \in Seq(Epoch) BY KeyTypes
<1>1. /\ t \in Seq(Epoch) /\ StrictlyAscending(t)
      /\ Range(t) = Range(k.used_epochs) \cup {e}
  BY <1>0, InsertedEpoch
<1> HIDE DEF t
<1>2. n = [k EXCEPT !.used_epochs = t] BY DEF Consume, t
<1> HIDE DEF n
<1>3. n \in SecretKeys /\ n.used_epochs = t
  BY <1>1, <1>2 DEF SecretKeys
<1>4. /\ n.activation_epoch = k.activation_epoch
      /\ n.num_active_epochs = k.num_active_epochs
      /\ n.top_tree = k.top_tree
      /\ n.left_bottom_tree_index = k.left_bottom_tree_index
      /\ n.left_bottom_tree = k.left_bottom_tree
      /\ n.right_bottom_tree = k.right_bottom_tree
  BY <1>2 DEF SecretKeys
<1>5. /\ n \in SecretKeys /\ StrictlyAscending(n.used_epochs)
      /\ UsedEpochs(n) = UsedEpochs(k) \cup {e}
      /\ KeyShape(k) => KeyShape(n)
      /\ PreparedStart(n) = PreparedStart(k) /\ PreparedEnd(n) = PreparedEnd(k)
      /\ ActivationEnd(n) = ActivationEnd(k)
      /\ n.activation_epoch = k.activation_epoch /\ n.top_tree = k.top_tree
  BY <1>1, <1>3, <1>4
     DEF UsedEpochs, KeyShape, PreparedStart, PreparedEnd, ActivationEnd
<1> QED BY <1>5 DEF n

(* A slide keeps the shape, moves the window by one bottom tree, and forgets  *)
(* exactly the epochs the window has left.                                    *)
LEMMA AdvancedKey ==
  ASSUME NEW k \in SecretKeys, KeyShape(k), CanAdvance(k)
  PROVE  /\ Advanced(k) \in SecretKeys
         /\ KeyShape(Advanced(k))
         /\ StrictlyAscending(k.used_epochs) =>
              StrictlyAscending(Advanced(k).used_epochs)
         /\ PreparedStart(Advanced(k)) = PreparedStart(k) + C
         /\ UsedEpochs(Advanced(k)) =
              {e \in UsedEpochs(k) : e >= PreparedStart(Advanced(k))}
         /\ ActivationEnd(Advanced(k)) = ActivationEnd(k)
         /\ Advanced(k).activation_epoch = k.activation_epoch
         /\ Advanced(k).top_tree = k.top_tree
         /\ Advanced(k).left_bottom_tree = k.right_bottom_tree
<1> DEFINE left == k.left_bottom_tree_index
           t == RetainFrom(k.used_epochs, (left + 1) * C)
           n == Advanced(k)
<1>1. left \in Nat /\ k.used_epochs \in Seq(Epoch) BY DEF SecretKeys
<1>2. (left + 1) * C \in Int /\ (left + 1) * C = left * C + C
  <2> HIDE DEF left
  <2> QED BY <1>1, CAssumption
<1>3. /\ t \in Seq(Epoch)
      /\ StrictlyAscending(k.used_epochs) => StrictlyAscending(t)
      /\ Range(t) = {e \in Range(k.used_epochs) : e >= (left + 1) * C}
  BY <1>1, <1>2, Numbers, RetainFromProperties
<1> HIDE DEF t
<1>4. n = [k EXCEPT !.left_bottom_tree = k.right_bottom_tree,
                    !.right_bottom_tree = left + 2,
                    !.left_bottom_tree_index = left + 1,
                    !.used_epochs = t]
  BY DEF Advanced, t
<1> HIDE DEF n, left
<1>5. /\ n \in SecretKeys
      /\ n.used_epochs = t
      /\ n.left_bottom_tree_index = left + 1
      /\ n.left_bottom_tree = k.right_bottom_tree
      /\ n.right_bottom_tree = left + 2
      /\ n.activation_epoch = k.activation_epoch
      /\ n.num_active_epochs = k.num_active_epochs
      /\ n.top_tree = k.top_tree
  <2>1. left + 1 \in Nat /\ left + 2 \in Nat BY <1>1
  <2>2. k.right_bottom_tree \in Nat BY DEF SecretKeys
  <2>3. n \in SecretKeys BY <1>3, <1>4, <2>1, <2>2 DEF SecretKeys
  <2>4. /\ n.used_epochs = t
        /\ n.left_bottom_tree_index = left + 1
        /\ n.left_bottom_tree = k.right_bottom_tree
        /\ n.right_bottom_tree = left + 2
    BY <1>4 DEF SecretKeys
  <2>5. /\ n.activation_epoch = k.activation_epoch
        /\ n.num_active_epochs = k.num_active_epochs
        /\ n.top_tree = k.top_tree
    BY <1>4 DEF SecretKeys
  <2> QED BY <2>3, <2>4, <2>5
<1>6. PICK first \in 0..C, after \in 0..C :
        /\ first <= left /\ left + 2 <= after
        /\ k.activation_epoch = first * C
        /\ k.num_active_epochs = (after - first) * C
        /\ k.top_tree = first..after - 1
        /\ k.left_bottom_tree = left
        /\ k.right_bottom_tree = left + 1
  BY DEF KeyShape, left
<1>7. first \in Int /\ after \in Int BY <1>6, Numbers
<1>8. left + 3 <= after
  <2>1. (after - first) * C = after * C - first * C /\ after * C \in Int
    BY <1>7, MulC, MulOrder
  <2>2. first * C \in Int BY <1>7, MulC
  <2>3. ActivationEnd(k) = after * C BY <1>6, <2>1, <2>2 DEF ActivationEnd
  <2>4. left * C + 3 * C <= after * C BY <2>3 DEF CanAdvance, left
  <2>5. left + 3 \in Int /\ (left + 3) * C = left * C + 3 * C
    BY <1>1, CAssumption
  <2> QED BY <1>7, <2>4, <2>5, MulOrder
<1>9. KeyShape(n)
  <2>1. /\ first <= left + 1 /\ (left + 1) + 2 <= after
        /\ left + 2 = (left + 1) + 1
    BY <1>1, <1>6, <1>7, <1>8
  <2> QED BY <1>5, <1>6, <2>1 DEF KeyShape
<1>10. PreparedStart(n) = (left + 1) * C /\ PreparedStart(n) = PreparedStart(k) + C
  BY <1>2, <1>5 DEF PreparedStart, left
<1>11. UsedEpochs(n) = {e \in UsedEpochs(k) : e >= PreparedStart(n)}
  BY <1>3, <1>5, <1>10 DEF UsedEpochs
<1>12. ActivationEnd(n) = ActivationEnd(k) BY <1>5 DEF ActivationEnd
<1> QED BY <1>3, <1>5, <1>9, <1>10, <1>11, <1>12 DEF n

(* For every epoch of the window, sign picks a tree that holds its leaf, and  *)
(* that the top tree commits to; the cast of the boundary to u32 loses        *)
(* nothing, even when the lifetime fills u32.                                 *)
LEMMA PickedTree ==
  ASSUME NEW k \in SecretKeys, KeyShape(k), NEW e \in PreparedInterval(k)
  PROVE  /\ PathDefined(k, BottomTree(k, e), e)
         /\ BottomTree(k, e) \in Nat
<1> DEFINE left == k.left_bottom_tree_index
<1>1. PICK first \in 0..C, after \in 0..C :
        /\ first <= left /\ left + 2 <= after
        /\ k.top_tree = first..after - 1
        /\ k.left_bottom_tree = left
        /\ k.right_bottom_tree = left + 1
  BY DEF KeyShape
<1>2. left \in Nat /\ C \in Nat /\ U32Range \in Nat /\ C * C <= U32Range
  BY Numbers DEF SecretKeys
<1>3. PreparedStart(k) = left * C /\ PreparedEnd(k) = left * C + 2 * C
  BY DEF PreparedStart, PreparedEnd
<1> HIDE DEF left
<1>4. left * C \in Int /\ 0 * C <= left * C /\ (left + 1) * C = left * C + C
  BY <1>2, MulC, MulOrder
<1>5. e \in Int /\ left * C <= e /\ e < left * C + 2 * C
  BY <1>2, <1>3, <1>4 DEF PreparedInterval
<1>6. Boundary(k) = left * C + C
  <2>1. PreparedEnd(k) <= C * C
    <3>1. PreparedEnd(k) \in Int /\ ActivationEnd(k) \in Int BY KeyTypes
    <3>2. C * C \in Int BY <1>2, MulC, MulOrder
    <3> QED BY <3>1, <3>2, ShapeBounds
  <2>2. left * C + C \in Nat /\ left * C + C < U32Range
    <3>1. C * C \in Int /\ C >= 2 BY <1>2, MulC, MulOrder, Numbers
    <3> QED BY <1>2, <1>3, <1>4, <2>1, <3>1
  <2> DEFINE b == left * C + C
  <2> HIDE DEF b
  <2>3. b % U32Range = b BY <1>2, <2>2 DEF b
  <2> QED BY <2>3 DEF Boundary, left, b
<1>7. CASE e < left * C + C
  <2>1. BottomTree(k, e) = left BY <1>1, <1>6, <1>7 DEF BottomTree
  <2>2. left \in first..after - 1 BY <1>1, <1>2
  <2>3. e \in Leaves(left) BY <1>2, <1>4, <1>5, <1>7 DEF Leaves
  <2> QED BY <1>1, <1>2, <2>1, <2>2, <2>3 DEF PathDefined
<1>8. CASE ~(e < left * C + C)
  <2>1. BottomTree(k, e) = left + 1 BY <1>1, <1>6, <1>8 DEF BottomTree
  <2>2. left + 1 \in first..after - 1 BY <1>1, <1>2
  <2>3. e \in Leaves(left + 1) BY <1>2, <1>4, <1>5, <1>8 DEF Leaves
  <2> QED BY <1>1, <1>2, <2>1, <2>2, <2>3 DEF PathDefined
<1> QED BY <1>7, <1>8

(* A key of the right shape whose list is in order and inside the window      *)
(* passes the checks of the decoder.                                          *)
LEMMA DecodableKey ==
  ASSUME NEW k \in SecretKeys, KeyShape(k), StrictlyAscending(k.used_epochs),
         UsedEpochs(k) \subseteq PreparedInterval(k)
  PROVE  Decodable(k)
<1>1. /\ k.activation_epoch <= PreparedStart(k)
      /\ PreparedEnd(k) <= ActivationEnd(k)
      /\ UsedEpochs(k) \subseteq ActivationIntervalOf(k) \cap PreparedInterval(k)
  BY ShapeBounds
<1>2. ASSUME NEW i \in 1..Len(k.used_epochs) - 1
      PROVE  k.used_epochs[i] < k.used_epochs[i + 1]
  <2>1. /\ DOMAIN k.used_epochs = 1..Len(k.used_epochs)
        /\ Len(k.used_epochs) \in Nat
    BY KeyTypes, LenProperties
  <2>2. /\ i \in DOMAIN k.used_epochs /\ i + 1 \in DOMAIN k.used_epochs
        /\ i < i + 1
    BY <2>1
  <2> QED BY <2>2 DEF StrictlyAscending
<1> QED BY <1>1, <1>2 DEF Decodable

(* key_gen makes a key of the right shape.                                    *)
LEMMA GeneratedKey ==
  ASSUME NEW i, i.first \in Nat, i.after \in Nat,
         i.first + 2 <= i.after, i.after <= C
  PROVE  /\ KeyFor(i) \in SecretKeys /\ KeyShape(KeyFor(i))
         /\ KeyFor(i).used_epochs = << >> /\ UsedEpochs(KeyFor(i)) = {}
<1> DEFINE n == KeyFor(i)
<1>1. /\ n.activation_epoch = i.first * C
      /\ n.num_active_epochs = (i.after - i.first) * C
      /\ n.top_tree = i.first..i.after - 1
      /\ n.left_bottom_tree_index = i.first
      /\ n.left_bottom_tree = i.first
      /\ n.right_bottom_tree = i.first + 1
      /\ n.used_epochs = << >>
  BY DEF KeyFor
<1>2. i.first * C \in Nat /\ (i.after - i.first) * C \in Nat
  <2>1. ASSUME NEW x \in Nat PROVE x * C \in Nat BY CAssumption
  <2>2. i.first \in Nat /\ i.after - i.first \in Nat OBVIOUS
  <2> QED BY <2>1, <2>2
<1>3. n \in SecretKeys
  <2>1. << >> \in Seq(Epoch) OBVIOUS
  <2>2. i.first..i.after - 1 \in SUBSET Nat OBVIOUS
  <2> QED BY <1>2, <2>1, <2>2 DEF KeyFor, SecretKeys
<1>4. KeyShape(n)
  <2>1. i.first \in 0..C /\ i.after \in 0..C /\ i.first <= i.first
    BY Numbers
  <2> HIDE DEF n
  <2> QED BY <1>1, <2>1 DEF KeyShape
<1>5. UsedEpochs(n) = {}
  <2>1. DOMAIN << >> = {} OBVIOUS
  <2> HIDE DEF n
  <2> QED BY <1>1, <2>1 DEF UsedEpochs, Range
<1> QED BY <1>1, <1>3, <1>4, <1>5
===============================================================================
