----------------------------- MODULE KeyFileProofs -----------------------------
(* What is written is read again, and nothing else is taken for it: for       *)
(* hashes and bytes of any size, and keys, public keys and signatures of any  *)
(* shape that offsets can describe.                                           *)
EXTENDS KeyFile, FiniteSetTheorems, SequenceTheorems, TLAPS

(* The natural numbers have no proper subset that holds zero and, with a      *)
(* number, the next: below a number left out, moving every number left out    *)
(* one down would be an injection into a set with one member less.            *)
LEMMA Induction ==
  ASSUME NEW S \in SUBSET Nat, 0 \in S, \A n \in S : n + 1 \in S
  PROVE  S = Nat
<1>1. SUFFICES ASSUME NEW t \in Nat, t \notin S
               PROVE  FALSE
  OBVIOUS
<1> DEFINE B == (0..t) \ S
           f == [x \in B |-> x - 1]
<1>2. IsFiniteSet(B) /\ Cardinality(B) \in Nat
  <2>1. IsFiniteSet(0..t) BY FS_Interval
  <2>2. B \in SUBSET (0..t) OBVIOUS
  <2> QED BY <2>1, <2>2, FS_Subset, FS_CardinalityType
<1>3. IsFiniteSet(B \ {t}) /\ Cardinality(B \ {t}) = Cardinality(B) - 1
  <2>1. t \in B BY <1>1
  <2> HIDE DEF B
  <2> QED BY <1>2, <2>1, FS_RemoveElement
<1>4. \A x \in B : x - 1 \in B \ {t} OBVIOUS
<1>5. f \in Injection(B, B \ {t}) BY <1>4, SMT DEF Injection, IsInjective
<1>6. Cardinality(B) <= Cardinality(B \ {t})
  <2> HIDE DEF B, f
  <2> QED BY <1>3, <1>5, FS_Injection
<1> QED BY <1>2, <1>3, <1>6

(* A value made in n steps, the same way whatever was made before.            *)
AreSteps(G, n, V) == G \in [1..n -> [V -> V]]

Made(a, G, n, V) ==
  \E f \in [0..n -> V] : f[0] = a /\ \A i \in 1..n : f[i] = G[i][f[i - 1]]

LEMMA StepByStep ==
  ASSUME NEW n, n \in Nat, NEW V, NEW a, a \in V, NEW G, AreSteps(G, n, V)
  PROVE  Made(a, G, n, V)
<1> DEFINE S == {m \in Nat : m <= n => Made(a, G, m, V)}
<1>0. G \in [1..n -> [V -> V]] BY DEF AreSteps
<1>1. 0 \in S
  <2> DEFINE f == [i \in 0..0 |-> a]
  <2>1. f \in [0..0 -> V] /\ f[0] = a /\ 1..0 = {} OBVIOUS
  <2> QED BY <2>1 DEF Made
<1>2. ASSUME NEW m \in S PROVE m + 1 \in S
  <2> SUFFICES ASSUME m + 1 <= n PROVE Made(a, G, m + 1, V) OBVIOUS
  <2>1. m \in Nat /\ m <= n /\ Made(a, G, m, V) OBVIOUS
  <2>2. PICK f \in [0..m -> V] : f[0] = a /\ \A i \in 1..m : f[i] = G[i][f[i - 1]]
    BY <2>1 DEF Made
  <2> DEFINE g == [i \in 0..m + 1 |-> IF i = m + 1 THEN G[m + 1][f[m]] ELSE f[i]]
  <2>3. m + 1 \in 1..n /\ f[m] \in V BY <2>1, <2>2
  <2>4. G[m + 1][f[m]] \in V BY <1>0, <2>3
  <2>5. g \in [0..m + 1 -> V] BY <2>1, <2>2, <2>4
  <2>6. g[0] = a BY <2>1, <2>2
  <2>7. ASSUME NEW i \in 1..m + 1 PROVE g[i] = G[i][g[i - 1]]
    <3>1. CASE i = m + 1
      <4>1. g[i] = G[m + 1][f[m]] /\ g[i - 1] = f[m] BY <2>1, <3>1
      <4> QED BY <3>1, <4>1
    <3>2. CASE i # m + 1
      <4>1. i \in 1..m /\ i - 1 \in 0..m /\ i - 1 # m + 1 BY <2>1, <3>2
      <4>2. g[i] = f[i] /\ g[i - 1] = f[i - 1] BY <2>1, <4>1
      <4> QED BY <2>2, <4>1, <4>2
    <3> QED BY <3>1, <3>2
  <2> QED BY <2>5, <2>6, <2>7 DEF Made
<1>3. S = Nat BY <1>1, <1>2, Induction
<1> QED BY <1>3

-------------------------------------------------------------------------------
(* The quotient is the one number that fits.                                  *)
LEMMA QuotientFits ==
  ASSUME NEW x \in Int, NEW q \in Nat \ {0}
  PROVE  /\ x \div q \in Int /\ x % q \in 0..q - 1
         /\ x = (x \div q) * q + (x % q)
         /\ \A b \in Int, r \in 0..q - 1 : x = b * q + r => x \div q = b /\ x % q = r
<1>1. /\ x \div q \in Int /\ x % q \in 0..q - 1
      /\ x = (x \div q) * q + (x % q)
  OBVIOUS
<1>2. ASSUME NEW b \in Int, NEW r \in 0..q - 1, x = b * q + r
      PROVE  x \div q = b /\ x % q = r
  <2> DEFINE a == x \div q
             s == x % q
  <2>1. a \in Int /\ s \in 0..q - 1 /\ x = a * q + s BY <1>1
  <2> HIDE DEF a, s
  <2>2. r \in Int /\ s \in Int /\ 0 <= r /\ 0 <= s /\ r < q /\ s < q BY <2>1
  <2>3. a * q \in Int /\ b * q \in Int BY <2>1
  <2>4. a < b + 1
    <3> SUFFICES ASSUME b + 1 <= a PROVE FALSE BY <2>1
    <3>1. (b + 1) * q <= a * q BY <2>1
    <3>2. (b + 1) * q = b * q + q OBVIOUS
    <3> QED BY <3>1, <3>2, <2>1, <2>2, <2>3, <1>2
  <2>5. b < a + 1
    <3> SUFFICES ASSUME a + 1 <= b PROVE FALSE BY <2>1
    <3>1. (a + 1) * q <= b * q BY <2>1
    <3>2. (a + 1) * q = a * q + q BY <2>1
    <3> QED BY <3>1, <3>2, <2>1, <2>2, <2>3, <1>2
  <2>6. a = b BY <2>1, <2>4, <2>5
  <2>7. r = s BY <1>2, <2>1, <2>2, <2>3, <2>6
  <2> QED BY <2>6, <2>7 DEF a, s
<1> QED BY <1>1, <1>2

LEMMA QuotientParts ==
  ASSUME NEW x \in Int, NEW q \in Nat \ {0}
  PROVE  x \div q \in Int /\ x % q \in 0..q - 1 /\ x = (x \div q) * q + (x % q)
BY QuotientFits

LEMMA QuotientIs ==
  ASSUME NEW q \in Nat \ {0}, NEW b \in Int, NEW r \in 0..q - 1, NEW x \in Int,
         x = b * q + r
  PROVE  x \div q = b /\ x % q = r
BY QuotientFits

(* One division after another is a division by the product.                   *)
LEMMA QuotientOfQuotient ==
  ASSUME NEW x \in Nat, NEW p \in Nat \ {0}, NEW q \in Nat \ {0}
  PROVE  (x \div p) \div q = x \div (p * q)
<1> DEFINE a == x \div p
           r == x % p
           d == a \div q
           m == a % q
<1>1. a \in Int /\ r \in 0..p - 1 /\ x = a * p + r BY QuotientFits
<1> HIDE DEF a, r
<1>2. d \in Int /\ m \in 0..q - 1 /\ a = d * q + m BY <1>1, QuotientFits
<1> HIDE DEF d, m
<1> DEFINE s == m * p + r
<1>3. s \in 0..p * q - 1
  <2>1. m \in Nat /\ m <= q - 1 /\ r \in Nat /\ r <= p - 1 /\ q - 1 \in Nat
    BY <1>1, <1>2
  <2>2. m * p \in Nat /\ m * p <= (q - 1) * p BY <2>1
  <2>3. (q - 1) * p = p * q - p /\ p * q \in Nat OBVIOUS
  <2> QED BY <2>1, <2>2, <2>3
<1>4. x = d * (p * q) + s
  <2>1. m \in Int /\ r \in Int BY <1>1, <1>2
  <2>2. (d * q + m) * p = d * (p * q) + m * p BY <1>2, <2>1
  <2>3. d * (p * q) \in Int /\ m * p \in Int BY <1>2, <2>1
  <2> QED BY <1>1, <1>2, <2>1, <2>2, <2>3
<1>5. p * q \in Nat \ {0} OBVIOUS
<1> HIDE DEF s
<1>6. x \div (p * q) = d BY <1>2, <1>3, <1>4, <1>5, QuotientFits
<1> QED BY <1>6 DEF d, a

-------------------------------------------------------------------------------
(* The weight of a byte, and the bytes of a number.                           *)
LEMMA Weights ==
  /\ Weight[0] = 1
  /\ \A i \in 0..8 : Weight[i] \in Nat \ {0}
  /\ \A i \in 1..8 : Weight[i] = Radix * Weight[i - 1]
<1> DEFINE Step(f) == [i \in 0..8 |-> IF i = 0 THEN 1 ELSE Radix * f[i - 1]]
           G == [i \in 1..8 |-> [n \in Nat |-> Radix * n]]
<1>1. Radix \in Nat /\ Radix >= 2 BY RadixAssumption
<1>2. G \in [1..8 -> [Nat -> Nat]] BY <1>1
<1>3. PICK f \in [0..8 -> Nat] : f[0] = 1 /\ \A i \in 1..8 : f[i] = G[i][f[i - 1]]
  <2>1. AreSteps(G, 8, Nat) BY <1>2 DEF AreSteps
  <2>2. 8 \in Nat /\ 1 \in Nat OBVIOUS
  <2> HIDE DEF G
  <2>3. Made(1, G, 8, Nat) BY <2>1, <2>2, StepByStep
  <2> QED BY <2>3 DEF Made
<1>4. f = Step(f)
  <2>1. \A i \in 1..8 : f[i] = Radix * f[i - 1] BY <1>3
  <2> QED BY <1>3, <2>1
<1> HIDE DEF G
<1>5. Weight = CHOOSE g : g = Step(g) BY DEF Weight
<1>6. Weight = Step(Weight) BY <1>4, <1>5
<1>7. Weight[0] = 1 /\ \A i \in 1..8 : Weight[i] = Radix * Weight[i - 1] BY <1>6
<1> DEFINE S == {n \in Nat : n <= 8 => Weight[n] \in Nat \ {0}}
<1>8. S = Nat
  <2>1. 0 \in S BY <1>7
  <2>2. ASSUME NEW n \in S PROVE n + 1 \in S
    <3> SUFFICES ASSUME n + 1 <= 8 PROVE Weight[n + 1] \in Nat \ {0} OBVIOUS
    <3>1. n + 1 \in 1..8 /\ (n + 1) - 1 = n /\ Weight[n] \in Nat \ {0} BY <2>2
    <3>2. Weight[n + 1] = Radix * Weight[n] BY <1>7, <3>1
    <3> QED BY <1>1, <3>1, <3>2
  <2> HIDE DEF S
  <2>3. S \in SUBSET Nat BY DEF S
  <2> QED BY <2>1, <2>2, <2>3, Induction
<1>9. \A i \in 0..8 : i \in S BY <1>8
<1> QED BY <1>7, <1>9

(* The number read from some bytes, with the numbers of its upper bytes.      *)
UpperBytes(b, at, width, upper) ==
  /\ upper \in [0..width -> Nat] /\ upper[0] = 0
  /\ \A i \in 1..width : upper[i] = b[at + width + 1 - i] + Radix * upper[i - 1]

LEMMA IntegerOfBytes ==
  ASSUME NEW b \in Seq(Byte), NEW at \in Nat, NEW width \in Nat, at + width <= Len(b)
  PROVE  \E upper : UpperBytes(b, at, width, upper) /\ IntegerAt(b, at, width) = upper[width]
<1> DEFINE Step(f) == [i \in 0..width |->
                         IF i = 0 THEN 0 ELSE b[at + width + 1 - i] + Radix * f[i - 1]]
           G == [i \in 1..width |-> [n \in Nat |-> b[at + width + 1 - i] + Radix * n]]
<1>1. Radix \in Nat /\ Len(b) \in Nat BY RadixAssumption
<1>2. ASSUME NEW i \in 1..width PROVE b[at + width + 1 - i] \in Nat
  <2>1. at + width + 1 - i \in 1..Len(b) BY <1>1
  <2>2. b[at + width + 1 - i] \in Byte BY <2>1, ElementOfSeq
  <2> QED BY <1>1, <2>2 DEF Byte
<1>3. \A i \in 1..width, n \in Nat : b[at + width + 1 - i] + Radix * n \in Nat
  BY <1>1, <1>2
<1>4. AreSteps(G, width, Nat) BY <1>3 DEF AreSteps
<1>5. Made(0, G, width, Nat)
  <2> HIDE DEF G
  <2> QED BY <1>4, StepByStep
<1>6. PICK f \in [0..width -> Nat] : f[0] = 0 /\ \A i \in 1..width : f[i] = G[i][f[i - 1]]
  <2> HIDE DEF G
  <2> QED BY <1>5 DEF Made
<1>7. f = Step(f)
  <2>1. ASSUME NEW i \in 1..width PROVE f[i] = b[at + width + 1 - i] + Radix * f[i - 1]
    <3>1. f[i] = G[i][f[i - 1]] /\ f[i - 1] \in Nat BY <1>6
    <3>2. G[i] = [n \in Nat |-> b[at + width + 1 - i] + Radix * n] OBVIOUS
    <3> HIDE DEF G
    <3> QED BY <3>1, <3>2
  <2>2. f = [i \in 0..width |-> f[i]] /\ f[0] = 0 BY <1>6
  <2>3. ASSUME NEW i \in 0..width PROVE f[i] = Step(f)[i]
    <3>1. i # 0 => i \in 1..width OBVIOUS
    <3> QED BY <2>1, <2>2, <3>1
  <2>4. Step(f) = [i \in 0..width |-> Step(f)[i]] OBVIOUS
  <2> HIDE DEF Step
  <2> QED BY <2>2, <2>3, <2>4
<1> HIDE DEF G
<1> DEFINE u == CHOOSE g : g = Step(g)
<1>8. IntegerAt(b, at, width) = u[width] BY DEF IntegerAt
<1>9. u = Step(u) BY <1>7
<1> HIDE DEF u
<1>10. /\ u[0] = 0 /\ u = [i \in 0..width |-> u[i]]
       /\ \A i \in 1..width : u[i] = b[at + width + 1 - i] + Radix * u[i - 1]
  <2>1. u[0] = 0 /\ u = [i \in 0..width |-> u[i]] BY <1>9
  <2>2. ASSUME NEW i \in 1..width PROVE u[i] = b[at + width + 1 - i] + Radix * u[i - 1]
    <3>1. i \in 0..width /\ i # 0 OBVIOUS
    <3>2. Step(u)[i] = b[at + width + 1 - i] + Radix * u[i - 1] BY <3>1
    <3> QED BY <1>9, <3>2
  <2> QED BY <2>1, <2>2
<1>11. \A i \in 0..width : u[i] \in Nat
  <2> DEFINE S == {n \in Nat : n <= width => u[n] \in Nat}
  <2>1. 0 \in S BY <1>10
  <2>2. ASSUME NEW n \in S PROVE n + 1 \in S
    <3> SUFFICES ASSUME n + 1 <= width PROVE u[n + 1] \in Nat OBVIOUS
    <3>1. n + 1 \in 1..width /\ (n + 1) - 1 = n /\ u[n] \in Nat BY <2>2
    <3>2. u[n + 1] = b[at + width + 1 - (n + 1)] + Radix * u[n] BY <1>10, <3>1
    <3>3. b[at + width + 1 - (n + 1)] + Radix * u[n] \in Nat BY <1>3, <3>1
    <3> QED BY <3>2, <3>3
  <2>3. S \in SUBSET Nat OBVIOUS
  <2>4. S = Nat
    <3> HIDE DEF S
    <3> QED BY <2>1, <2>2, <2>3, Induction
  <2>5. \A i \in 0..width : i \in S BY <2>4
  <2> QED BY <2>5
<1> QED BY <1>8, <1>10, <1>11 DEF UpperBytes

LEMMA RadixNat == Radix \in Nat \ {0} /\ Radix \in Int /\ Radix >= 2 /\ Byte = 0..Radix - 1
BY RadixAssumption DEF Byte

LEMMA QuotientNat ==
  ASSUME NEW x \in Nat, NEW q \in Nat \ {0}
  PROVE  x \div q \in Nat /\ x = (x \div q) * q + (x % q) /\ x % q \in 0..q - 1
<1> DEFINE a == x \div q
           r == x % q
<1>1. a \in Int /\ r \in 0..q - 1 /\ x = a * q + r BY QuotientParts
<1> HIDE DEF a, r
<1>2. a >= 0
  <2> SUFFICES ASSUME a + 1 <= 0 PROVE FALSE BY <1>1
  <2>1. (a + 1) * q <= 0 BY <1>1
  <2>2. (a + 1) * q = a * q + q /\ a * q \in Int BY <1>1
  <2> QED BY <1>1, <2>1, <2>2
<1> QED BY <1>1, <1>2 DEF a, r

(* The lowest byte of a number, and the number without it.                    *)
LEMMA LowestByte ==
  ASSUME NEW d \in Byte, NEW m \in Nat
  PROVE  (d + Radix * m) \div Radix = m /\ (d + Radix * m) % Radix = d
<1>1. Radix \in Nat \ {0} /\ d \in 0..Radix - 1 /\ m \in Int BY RadixNat
<1>2. Radix * m = m * Radix /\ m * Radix \in Int BY <1>1
<1>3. d + Radix * m = m * Radix + d /\ d + Radix * m \in Int BY <1>1, <1>2
<1> QED BY <1>1, <1>3, QuotientIs

LEMMA NextWeight ==
  ASSUME NEW n \in Nat, NEW i \in 1..8
  PROVE  n \div Weight[i] = (n \div Weight[i - 1]) \div Radix
<1> DEFINE w == Weight[i - 1]
<1>1. w \in Nat \ {0} /\ Weight[i] = Radix * w BY Weights
<1> HIDE DEF w
<1>2. Radix * w = w * Radix /\ Radix \in Nat \ {0} BY <1>1, RadixNat
<1> QED BY <1>1, <1>2, QuotientOfQuotient DEF w

LEMMA WeightNat == ASSUME NEW i \in 0..8 PROVE Weight[i] \in Nat \ {0}
BY Weights

LEMMA SmallQuotient == ASSUME NEW q \in Nat \ {0}, NEW n \in 0..q - 1 PROVE n \div q = 0
<1> DEFINE z == 0
<1>1. z \in Int /\ n \in Int /\ n = z * q + n OBVIOUS
<1> HIDE DEF z
<1>2. n \div q = z BY <1>1, QuotientIs
<1> QED BY <1>2 DEF z

(* A number is read from its bytes.                                           *)
LEMMA BytesOfInteger ==
  ASSUME NEW b \in Seq(Byte), NEW at \in Nat, NEW width \in 0..8, at + width <= Len(b),
         NEW n \in Nat, n < Weight[width],
         \A j \in 1..width : b[at + j] = (n \div Weight[j - 1]) % Radix
  PROVE  IntegerAt(b, at, width) = n
<1>1. PICK u : UpperBytes(b, at, width, u) /\ IntegerAt(b, at, width) = u[width]
  <2>1. width \in Nat OBVIOUS
  <2> QED BY <2>1, IntegerOfBytes
<1>2. /\ u[0] = 0
      /\ \A i \in 1..width : u[i] = b[at + width + 1 - i] + Radix * u[i - 1]
  BY <1>1 DEF UpperBytes
<1> DEFINE S == {i \in Nat : i <= width => u[i] = n \div Weight[width - i]}
<1>3. 0 \in S
  <2>1. Weight[width] \in Nat \ {0} /\ n \in 0..Weight[width] - 1
    <3>1. Weight[width] \in Nat \ {0} BY WeightNat
    <3> QED BY <3>1
  <2>2. n \div Weight[width] = 0
    <3> DEFINE q == Weight[width]
    <3>1. q \in Nat \ {0} /\ n \in 0..q - 1 BY <2>1
    <3> HIDE DEF q
    <3>2. n \div q = 0 BY <3>1, SmallQuotient
    <3> QED BY <3>2 DEF q
  <2> QED BY <1>2, <2>2
<1>4. ASSUME NEW i \in S PROVE i + 1 \in S
  <2> SUFFICES ASSUME i + 1 <= width PROVE u[i + 1] = n \div Weight[width - (i + 1)]
    OBVIOUS
  <2> DEFINE k == width - i
             q == n \div Weight[k - 1]
  <2>1. i \in Nat /\ k \in 1..8 /\ k \in 1..width /\ u[i] = n \div Weight[k] OBVIOUS
  <2>2. u[i + 1] = b[at + width + 1 - (i + 1)] + Radix * u[i] 
    <3>1. i + 1 \in 1..width /\ (i + 1) - 1 = i BY <2>1
    <3> QED BY <1>2, <3>1
  <2>3. at + width + 1 - (i + 1) = at + k BY <2>1
  <2>4. b[at + k] = q % Radix BY <2>1
  <2>5. Weight[k - 1] \in Nat \ {0}
    <3>1. k - 1 \in 0..8 BY <2>1
    <3> QED BY <3>1, WeightNat
  <2>6. u[i] = q \div Radix BY <2>1, NextWeight
  <2>7. q \in Nat BY <2>5, QuotientNat
  <2> HIDE DEF q, k
  <2>8. q = (q \div Radix) * Radix + (q % Radix) /\ q \div Radix \in Nat
        /\ q % Radix \in Int
    <3>1. Radix \in Nat \ {0} BY RadixNat
    <3>2. q = (q \div Radix) * Radix + (q % Radix) /\ q \div Radix \in Nat
          /\ q % Radix \in 0..Radix - 1
      BY <2>7, <3>1, QuotientNat
    <3> QED BY <3>1, <3>2
  <2>9. u[i + 1] = (q % Radix) + Radix * (q \div Radix) BY <2>2, <2>3, <2>4, <2>6
  <2>10. u[i + 1] = q
    <3> DEFINE d == q \div Radix
               r == q % Radix
    <3>1. u[i + 1] = r + Radix * d /\ q = d * Radix + r /\ d \in Nat /\ r \in Int
      BY <2>8, <2>9
    <3> HIDE DEF d, r
    <3> QED BY <3>1, RadixNat
  <2>11. width - (i + 1) = k - 1 BY <2>1 DEF k
  <2> QED BY <2>10, <2>11 DEF q
<1>5. S = Nat
  <2>1. S \in SUBSET Nat OBVIOUS
  <2> HIDE DEF S
  <2> QED BY <1>3, <1>4, <2>1, Induction
<1>6. width \in S BY <1>5
<1>7. u[width] = n \div Weight[0] BY <1>6
<1>8. n \div 1 = n OBVIOUS
<1> QED BY <1>1, <1>7, <1>8, Weights

(* Some bytes are those of the number read from them.                         *)
LEMMA IntegerHasBytes ==
  ASSUME NEW b \in Seq(Byte), NEW at \in Nat, NEW width \in 0..8, at + width <= Len(b)
  PROVE  LET n == IntegerAt(b, at, width)
         IN  /\ n \in Nat /\ n < Weight[width]
             /\ \A j \in 1..width : b[at + j] = (n \div Weight[j - 1]) % Radix
<1> DEFINE n == IntegerAt(b, at, width)
<1>1. PICK u : UpperBytes(b, at, width, u) /\ n = u[width]
  <2>1. width \in Nat OBVIOUS
  <2> QED BY <2>1, IntegerOfBytes
<1> HIDE DEF n
<1>2. /\ u[0] = 0 /\ \A i \in 0..width : u[i] \in Nat
      /\ \A i \in 1..width : u[i] = b[at + width + 1 - i] + Radix * u[i - 1]
  BY <1>1 DEF UpperBytes
<1>3. ASSUME NEW j \in 1..width PROVE b[at + j] \in Byte
  <2>1. Len(b) \in Nat /\ at + j \in 1..Len(b) BY LenProperties
  <2> QED BY <2>1, ElementOfSeq
<1>4. \A i \in 0..width : u[i] < Weight[i]
  <2> DEFINE S == {i \in Nat : i <= width => u[i] < Weight[i]}
  <2>1. 0 \in S BY <1>2, Weights
  <2>2. ASSUME NEW i \in S PROVE i + 1 \in S
    <3> SUFFICES ASSUME i + 1 <= width PROVE u[i + 1] < Weight[i + 1] OBVIOUS
    <3> DEFINE d == b[at + width + 1 - (i + 1)]
               w == Weight[i]
               v == u[i]
    <3>1. i \in 0..7 /\ i \in 0..width /\ i + 1 \in 1..width /\ i + 1 \in 1..8
          /\ (i + 1) - 1 = i /\ v < w
      OBVIOUS
    <3>2. d \in 0..Radix - 1
      <4>1. width - i \in 1..width /\ at + width + 1 - (i + 1) = at + (width - i) BY <3>1
      <4> QED BY <1>3, <4>1, RadixNat
    <3>3. u[i + 1] = d + Radix * v BY <1>2, <3>1
    <3>4. Weight[i + 1] = Radix * w BY <3>1, Weights
    <3>5. w \in Nat \ {0} /\ v \in Nat /\ Radix \in Nat
      <4>1. i \in 0..8 BY <3>1
      <4> QED BY <1>2, <3>1, <4>1, WeightNat, RadixNat
    <3> HIDE DEF d, w, v
    <3>6. v + 1 <= w BY <3>1, <3>5
    <3>7. Radix * (v + 1) <= Radix * w BY <3>5, <3>6
    <3>8. Radix * (v + 1) = Radix * v + Radix /\ Radix * v \in Nat /\ Radix * w \in Nat
      BY <3>5
    <3> QED BY <3>2, <3>3, <3>4, <3>5, <3>7, <3>8
  <2>3. S \in SUBSET Nat OBVIOUS
  <2>4. S = Nat
    <3> HIDE DEF S
    <3> QED BY <2>1, <2>2, <2>3, Induction
  <2>5. \A i \in 0..width : i \in S BY <2>4
  <2> QED BY <2>5
<1>5. n \in Nat /\ n < Weight[width]
  <2>1. width \in 0..width OBVIOUS
  <2> QED BY <1>1, <1>2, <1>4, <2>1
<1>6. ASSUME NEW j \in 1..width
      PROVE  u[width + 1 - j] = b[at + j] + Radix * u[width - j]
  <2>1. width + 1 - j \in 1..width /\ at + width + 1 - (width + 1 - j) = at + j
        /\ (width + 1 - j) - 1 = width - j
    OBVIOUS
  <2> QED BY <1>2, <2>1
<1>7. \A j \in 0..width : n \div Weight[j] = u[width - j]
  <2> DEFINE S == {j \in Nat : j <= width => n \div Weight[j] = u[width - j]}
  <2>1. 0 \in S
    <3>1. n \div 1 = n /\ width - 0 = width BY <1>5
    <3> QED BY <1>1, <3>1, Weights
  <2>2. ASSUME NEW j \in S PROVE j + 1 \in S
    <3> SUFFICES ASSUME j + 1 <= width PROVE n \div Weight[j + 1] = u[width - (j + 1)]
      OBVIOUS
    <3>1. j \in Nat /\ j + 1 \in 1..8 /\ j + 1 \in 1..width /\ (j + 1) - 1 = j
          /\ n \div Weight[j] = u[width - j] /\ width + 1 - (j + 1) = width - j
          /\ width - (j + 1) \in 0..width
      OBVIOUS
    <3>2. n \div Weight[j + 1] = u[width - j] \div Radix BY <1>5, <3>1, NextWeight
    <3>3. u[width - j] = b[at + (j + 1)] + Radix * u[width - (j + 1)] BY <1>6, <3>1
    <3>4. b[at + (j + 1)] \in Byte /\ u[width - (j + 1)] \in Nat BY <1>2, <1>3, <3>1
    <3> QED BY <3>2, <3>3, <3>4, LowestByte
  <2>3. S \in SUBSET Nat OBVIOUS
  <2>4. S = Nat
    <3> HIDE DEF S
    <3> QED BY <2>1, <2>2, <2>3, Induction
  <2>5. \A i \in 0..width : i \in S BY <2>4
  <2> QED BY <2>5
<1>8. ASSUME NEW j \in 1..width PROVE b[at + j] = (n \div Weight[j - 1]) % Radix
  <2>1. j - 1 \in 0..width /\ width - (j - 1) = width + 1 - j /\ width - j \in 0..width
    OBVIOUS
  <2>2. n \div Weight[j - 1] = u[width + 1 - j] BY <1>7, <2>1
  <2>3. b[at + j] \in Byte /\ u[width - j] \in Nat BY <1>2, <1>3, <2>1
  <2> QED BY <1>6, <2>2, <2>3, LowestByte
<1> QED BY <1>5, <1>8 DEF n

-------------------------------------------------------------------------------
(* Parts of a sequence.                                                       *)
LEMMA SliceOf ==
  ASSUME NEW S, NEW s \in Seq(S), NEW from \in Nat, NEW to \in Nat, IsSlice(s, from, to)
  PROVE  /\ Slice(s, from, to) \in Seq(S) /\ Len(Slice(s, from, to)) = to - from
         /\ \A i \in 1..to - from : Slice(s, from, to)[i] = s[from + i]
<1>1. from <= to /\ to <= Len(s) /\ Len(s) \in Nat BY LenProperties DEF IsSlice
<1> DEFINE m == from + 1
<1>2. \A i \in m..to : s[i] \in S
  <2>1. \A i \in m..to : i \in 1..Len(s) BY <1>1
  <2> QED BY <2>1, ElementOfSeq
<1>3. m \in Int /\ to \in Int OBVIOUS
<1> HIDE DEF m
<1>4. /\ SubSeq(s, m, to) \in Seq(S)
      /\ Len(SubSeq(s, m, to)) = IF m <= to THEN to - m + 1 ELSE 0
      /\ \A i \in 1..to - m + 1 : SubSeq(s, m, to)[i] = s[m + i - 1]
  BY <1>2, <1>3, SubSeqProperties
<1>5. /\ Slice(s, from, to) = SubSeq(s, m, to) /\ to - m + 1 = to - from
      /\ (m <= to \/ to = from) /\ \A i \in 1..to - from : m + i - 1 = from + i
  BY <1>1 DEF Slice, m
<1>6. Len(SubSeq(s, m, to)) = to - from
  <2>1. CASE m <= to BY <1>4, <1>5, <2>1
  <2>2. CASE ~(m <= to)
    <3>1. Len(SubSeq(s, m, to)) = 0 BY <1>4, <2>2
    <3>2. to - from = 0 BY <1>5, <2>2
    <3> QED BY <3>1, <3>2
  <2> QED BY <2>1, <2>2
<1>7. \A i \in 1..to - from : SubSeq(s, m, to)[i] = s[from + i]
  <2> SUFFICES ASSUME NEW i \in 1..to - from
               PROVE  SubSeq(s, m, to)[i] = s[from + i]
    OBVIOUS
  <2>1. i \in 1..to - m + 1 /\ m + i - 1 = from + i BY <1>5
  <2> QED BY <1>4, <2>1
<1> QED BY <1>4, <1>5, <1>6, <1>7

LEMMA SliceAll ==
  ASSUME NEW S, NEW s \in Seq(S)
  PROVE  Slice(s, 0, Len(s)) = s /\ Len(s) \in Nat
BY SubSeqFull, LenProperties DEF Slice

LEMMA SliceJoin ==
  ASSUME NEW S, NEW s \in Seq(S), NEW a \in Nat, NEW b \in Nat, NEW c \in Nat,
         a <= b, b <= c, c <= Len(s)
  PROVE  Slice(s, a, b) \o Slice(s, b, c) = Slice(s, a, c)
<1>1. Len(s) \in Nat BY LenProperties
<1>2. a + 1 \in 1..Len(s) + 1 /\ b \in (a + 1) - 1..Len(s) /\ c \in b..Len(s) BY <1>1
<1> QED BY <1>2, ConcatAdjacentSubSeq DEF Slice

LEMMA SliceOfSlice ==
  ASSUME NEW S, NEW s \in Seq(S), NEW a \in Nat, NEW b \in Nat, IsSlice(s, a, b),
         NEW c \in Nat, NEW d \in Nat, c <= d, d <= b - a
  PROVE  Slice(Slice(s, a, b), c, d) = Slice(s, a + c, a + d)
<1> DEFINE t == Slice(s, a, b)
<1>1. a <= b /\ b <= Len(s) /\ Len(s) \in Nat BY LenProperties DEF IsSlice
<1>2. t \in Seq(S) /\ Len(t) = b - a /\ \A i \in 1..b - a : t[i] = s[a + i] BY SliceOf
<1> HIDE DEF t
<1>3. IsSlice(t, c, d) /\ IsSlice(s, a + c, a + d) /\ a + c \in Nat /\ a + d \in Nat
  BY <1>1, <1>2 DEF IsSlice
<1>4. /\ Slice(t, c, d) \in Seq(S) /\ Len(Slice(t, c, d)) = d - c
      /\ \A i \in 1..d - c : Slice(t, c, d)[i] = t[c + i]
  BY <1>2, <1>3, SliceOf
<1>5. /\ Slice(s, a + c, a + d) \in Seq(S)
      /\ Len(Slice(s, a + c, a + d)) = (a + d) - (a + c)
      /\ \A i \in 1..(a + d) - (a + c) : Slice(s, a + c, a + d)[i] = s[(a + c) + i]
  BY <1>3, SliceOf
<1>6. (a + d) - (a + c) = d - c OBVIOUS
<1>7. ASSUME NEW i \in 1..d - c PROVE Slice(t, c, d)[i] = Slice(s, a + c, a + d)[i]
  <2>1. c + i \in 1..b - a /\ a + (c + i) = (a + c) + i OBVIOUS
  <2> QED BY <1>2, <1>4, <1>5, <1>6, <2>1
<1>8. Slice(t, c, d) = Slice(s, a + c, a + d)
  <2>1. Len(Slice(t, c, d)) = Len(Slice(s, a + c, a + d)) BY <1>4, <1>5, <1>6
  <2>2. \A i \in 1..Len(Slice(t, c, d)) : Slice(t, c, d)[i] = Slice(s, a + c, a + d)[i]
    BY <1>4, <1>7
  <2> QED BY <1>4, <1>5, <2>1, <2>2, SeqEqual
<1> QED BY <1>8 DEF t

(* A sequence stands in another, after so many of its elements.               *)
StandsAt(p, s, at) ==
  at \in Nat /\ at + Len(p) <= Len(s) /\ Slice(s, at, at + Len(p)) = p

LEMMA StandsLeft ==
  ASSUME NEW S, NEW s \in Seq(S), NEW t \in Seq(S), NEW p \in Seq(S), NEW at,
         StandsAt(p, s, at)
  PROVE  StandsAt(p, s \o t, at)
<1>1. Len(s) \in Nat /\ Len(t) \in Nat /\ Len(p) \in Nat BY LenProperties
<1>2. at \in Nat /\ at + Len(p) <= Len(s) /\ Slice(s, at, at + Len(p)) = p
  BY DEF StandsAt
<1>3. s \o t \in Seq(S) /\ Len(s \o t) = Len(s) + Len(t) BY ConcatProperties
<1>4. at + Len(p) <= Len(s \o t) BY <1>1, <1>2, <1>3
<1>5. Slice(s \o t, at, at + Len(p)) = Slice(s, at, at + Len(p))
  <2>1. CASE Len(p) = 0
    <3>1. at + Len(p) < at + 1 /\ at + 1 \in Int /\ at + Len(p) \in Int
      BY <1>1, <1>2, <2>1
    <3> QED BY <3>1, SubSeqEmpty DEF Slice
  <2>2. CASE Len(p) # 0
    <3>1. at + 1 \in 1..Len(s) /\ at + Len(p) \in 1..Len(s) BY <1>1, <1>2, <2>2
    <3> QED BY <3>1, SubSeqOfConcat1 DEF Slice
  <2> QED BY <2>1, <2>2
<1> QED BY <1>2, <1>4, <1>5 DEF StandsAt

LEMMA StandsRight ==
  ASSUME NEW S, NEW s \in Seq(S), NEW t \in Seq(S)
  PROVE  StandsAt(t, s \o t, Len(s))
<1> DEFINE u == s \o t
           v == Slice(u, Len(s), Len(s) + Len(t))
<1>1. Len(s) \in Nat /\ Len(t) \in Nat BY LenProperties
<1>2. /\ u \in Seq(S) /\ Len(u) = Len(s) + Len(t)
      /\ \A i \in 1..Len(s) + Len(t) : u[i] = IF i <= Len(s) THEN s[i] ELSE t[i - Len(s)]
  BY ConcatProperties
<1> HIDE DEF u
<1>3. IsSlice(u, Len(s), Len(s) + Len(t)) BY <1>1, <1>2 DEF IsSlice
<1>4. /\ v \in Seq(S) /\ Len(v) = (Len(s) + Len(t)) - Len(s)
      /\ \A i \in 1..(Len(s) + Len(t)) - Len(s) : v[i] = u[Len(s) + i]
  <2>1. Len(s) + Len(t) \in Nat BY <1>1
  <2> QED BY <1>1, <1>2, <1>3, <2>1, SliceOf
<1> HIDE DEF v
<1>5. Len(v) = Len(t) BY <1>1, <1>4
<1>6. ASSUME NEW i \in 1..Len(v) PROVE v[i] = t[i]
  <2>1. /\ i \in 1..(Len(s) + Len(t)) - Len(s) /\ Len(s) + i \in 1..Len(s) + Len(t)
        /\ ~(Len(s) + i <= Len(s)) /\ (Len(s) + i) - Len(s) = i
    BY <1>1, <1>5
  <2> QED BY <1>2, <1>4, <2>1
<1>7. v = t BY <1>4, <1>5, <1>6, SeqEqual
<1> QED BY <1>1, <1>2, <1>7 DEF StandsAt, v, u

-------------------------------------------------------------------------------
(* Integers in their places.                                                  *)
LEMMA LittleEndianBytes ==
  ASSUME NEW n \in Nat, NEW width \in 0..8
  PROVE  /\ LittleEndian(n, width) \in Seq(Byte) /\ Len(LittleEndian(n, width)) = width
         /\ \A j \in 1..width : LittleEndian(n, width)[j] = (n \div Weight[j - 1]) % Radix
<1> DEFINE s == LittleEndian(n, width)
<1>1. s = [j \in 1..width |-> (n \div Weight[j - 1]) % Radix] BY DEF LittleEndian
<1>2. ASSUME NEW j \in 1..width PROVE (n \div Weight[j - 1]) % Radix \in Byte
  <2>1. j - 1 \in 0..8 OBVIOUS
  <2>2. Weight[j - 1] \in Nat \ {0} BY <2>1, WeightNat
  <2>3. n \div Weight[j - 1] \in Nat BY <2>2, QuotientNat
  <2>4. Radix \in Nat \ {0} /\ Byte = 0..Radix - 1 BY RadixNat
  <2> QED BY <2>3, <2>4, QuotientNat
<1>3. s \in [1..width -> Byte] BY <1>1, <1>2
<1>4. width \in Nat OBVIOUS
<1>5. s \in Seq(Byte)
  <2> HIDE DEF s
  <2> QED BY <1>3, <1>4, SeqDef
<1>6. Len(s) = width
  <2> HIDE DEF s
  <2> DEFINE l == Len(s)
  <2>1. l \in Nat /\ 1..l = 1..width BY <1>3, <1>5, LenProperties
  <2> HIDE DEF l
  <2>2. l = width
    <3>1. CASE l < width
      <4>1. width \in 1..width BY <1>4, <2>1, <3>1
      <4> QED BY <2>1, <3>1, <4>1
    <3>2. CASE width < l
      <4>1. l \in 1..l BY <1>4, <2>1, <3>2
      <4> QED BY <1>4, <2>1, <3>2, <4>1
    <3> QED BY <1>4, <2>1, <3>1, <3>2
  <2> QED BY <2>2 DEF l
<1> QED BY <1>1, <1>5, <1>6

LEMMA ReadInteger ==
  ASSUME NEW b \in Seq(Byte), NEW at, NEW width \in 0..8, NEW n \in Nat, n < Weight[width],
         StandsAt(LittleEndian(n, width), b, at)
  PROVE  IntegerAt(b, at, width) = n
<1> DEFINE p == LittleEndian(n, width)
<1>1. /\ p \in Seq(Byte) /\ Len(p) = width
      /\ \A j \in 1..width : p[j] = (n \div Weight[j - 1]) % Radix
  BY LittleEndianBytes
<1> HIDE DEF p
<1>2. at \in Nat /\ at + width <= Len(b) /\ Slice(b, at, at + width) = p /\ width \in Nat
  BY <1>1 DEF StandsAt, p
<1>3. IsSlice(b, at, at + width) /\ at + width \in Nat /\ (at + width) - at = width
  BY <1>2 DEF IsSlice
<1>4. \A j \in 1..(at + width) - at : Slice(b, at, at + width)[j] = b[at + j]
  BY <1>2, <1>3, SliceOf
<1>5. \A j \in 1..width : b[at + j] = (n \div Weight[j - 1]) % Radix
  BY <1>1, <1>2, <1>3, <1>4
<1> QED BY <1>2, <1>5, BytesOfInteger

LEMMA WriteInteger ==
  ASSUME NEW b \in Seq(Byte), NEW at \in Nat, NEW width \in 0..8, at + width <= Len(b)
  PROVE  LET n == IntegerAt(b, at, width)
         IN  n \in Nat /\ n < Weight[width]
             /\ LittleEndian(n, width) = Slice(b, at, at + width)
<1> DEFINE n == IntegerAt(b, at, width)
           p == LittleEndian(n, width)
           s == Slice(b, at, at + width)
<1>1. /\ n \in Nat /\ n < Weight[width]
      /\ \A j \in 1..width : b[at + j] = (n \div Weight[j - 1]) % Radix
  BY IntegerHasBytes
<1> HIDE DEF n
<1>2. /\ p \in Seq(Byte) /\ Len(p) = width
      /\ \A j \in 1..width : p[j] = (n \div Weight[j - 1]) % Radix
  BY <1>1, LittleEndianBytes
<1>3. IsSlice(b, at, at + width) /\ at + width \in Nat /\ (at + width) - at = width
  BY DEF IsSlice
<1>4. /\ s \in Seq(Byte) /\ Len(s) = (at + width) - at
      /\ \A j \in 1..(at + width) - at : s[j] = b[at + j]
  BY <1>3, SliceOf
<1> HIDE DEF p, s
<1>5. Len(p) = Len(s) /\ \A j \in 1..Len(p) : p[j] = s[j] BY <1>1, <1>2, <1>3, <1>4
<1>6. p = s BY <1>2, <1>4, <1>5, SeqEqual
<1> QED BY <1>1, <1>6 DEF n, p, s

LEMMA U32Bytes == ASSUME NEW n \in Nat PROVE U32(n) \in Seq(Byte) /\ Len(U32(n)) = 4
<1>1. 4 \in 0..8 OBVIOUS
<1> QED BY <1>1, LittleEndianBytes DEF U32

LEMMA U64Bytes == ASSUME NEW n \in Nat PROVE U64(n) \in Seq(Byte) /\ Len(U64(n)) = 8
<1>1. 8 \in 0..8 OBVIOUS
<1> QED BY <1>1, LittleEndianBytes DEF U64

LEMMA EpochNat == Epoch \subseteq Nat /\ U64Number \subseteq Nat /\ U32Range \in Nat
<1>1. 4 \in 0..8 /\ 8 \in 0..8 OBVIOUS
<1>2. Weight[4] \in Nat /\ Weight[8] \in Nat BY <1>1, WeightNat
<1>3. U32Range \in Nat /\ U64Range \in Nat BY <1>2, OffsetAssumption DEF U64Range
<1> QED BY <1>3 DEF Epoch, U64Number

LEMMA ReadU32 ==
  ASSUME NEW b \in Seq(Byte), NEW at, NEW n \in Epoch, StandsAt(U32(n), b, at)
  PROVE  U32At(b, at) = n
<1>1. 4 \in 0..8 /\ n \in Nat BY EpochNat
<1>2. n < Weight[4] BY <1>1, OffsetAssumption, EpochNat DEF Epoch
<1>3. StandsAt(LittleEndian(n, 4), b, at) BY DEF U32
<1> QED BY <1>1, <1>2, <1>3, ReadInteger DEF U32At

LEMMA ReadU64 ==
  ASSUME NEW b \in Seq(Byte), NEW at, NEW n \in U64Number, StandsAt(U64(n), b, at)
  PROVE  U64At(b, at) = n
<1>1. 8 \in 0..8 /\ n \in Nat BY EpochNat
<1>2. n < Weight[8]
  <2>1. Weight[8] \in Nat \ {0} BY <1>1, WeightNat
  <2> QED BY <2>1 DEF U64Number, U64Range
<1>3. StandsAt(LittleEndian(n, 8), b, at) BY DEF U64
<1> QED BY <1>1, <1>2, <1>3, ReadInteger DEF U64At

LEMMA WriteU32 ==
  ASSUME NEW b \in Seq(Byte), NEW at \in Nat, at + 4 <= Len(b)
  PROVE  U32At(b, at) \in Epoch /\ U32(U32At(b, at)) = Slice(b, at, at + 4)
<1>1. 4 \in 0..8 OBVIOUS
<1> DEFINE n == IntegerAt(b, at, 4)
<1>2. n \in Nat /\ n < Weight[4] /\ LittleEndian(n, 4) = Slice(b, at, at + 4)
  BY <1>1, WriteInteger
<1> HIDE DEF n
<1>3. n \in Epoch BY <1>2, OffsetAssumption, EpochNat DEF Epoch
<1> QED BY <1>2, <1>3 DEF n, U32At, U32

LEMMA WriteU64 ==
  ASSUME NEW b \in Seq(Byte), NEW at \in Nat, at + 8 <= Len(b)
  PROVE  U64At(b, at) \in U64Number /\ U64(U64At(b, at)) = Slice(b, at, at + 8)
<1>1. 8 \in 0..8 OBVIOUS
<1> DEFINE n == IntegerAt(b, at, 8)
<1>2. n \in Nat /\ n < Weight[8] /\ LittleEndian(n, 8) = Slice(b, at, at + 8)
  BY <1>1, WriteInteger
<1> HIDE DEF n
<1>3. n \in U64Number
  <2>1. Weight[8] \in Nat \ {0} BY <1>1, WeightNat
  <2> QED BY <1>2, <2>1 DEF U64Number, U64Range
<1> QED BY <1>2, <1>3 DEF n, U64At, U64

-------------------------------------------------------------------------------
(* Sequences one after the other.                                             *)
Joined(items, n, f) ==
  f[0] = << >> /\ \A i \in 1..n : f[i] = f[i - 1] \o items[i]

LEMMA Flattening ==
  ASSUME NEW T, NEW items \in Seq(Seq(T))
  PROVE  \E f \in [0..Len(items) -> Seq(T)] :
           Joined(items, Len(items), f) /\ FlattenSeq(items) = f[Len(items)]
<1> DEFINE n == Len(items)
           V == Seq(T)
           G == [i \in 1..n |-> [s \in V |-> s \o items[i]]]
<1>1. n \in Nat /\ \A i \in 1..n : items[i] \in V BY LenProperties, ElementOfSeq
<1>2. \A i \in 1..n, s \in V : s \o items[i] \in V BY <1>1, ConcatProperties
<1>3. PICK f \in [0..n -> V] : f[0] = << >> /\ \A i \in 1..n : f[i] = G[i][f[i - 1]]
  <2>1. << >> \in V BY EmptySeq
  <2>2. AreSteps(G, n, V)
    <3> HIDE DEF n, V
    <3> QED BY <1>2 DEF AreSteps
  <2> HIDE DEF G, n, V
  <2>3. Made(<< >>, G, n, V) BY <1>1, <2>1, <2>2, StepByStep
  <2> QED BY <2>3 DEF Made
<1>4. ASSUME NEW i \in 1..n PROVE f[i] = f[i - 1] \o items[i]
  <2>1. f[i] = G[i][f[i - 1]] /\ f[i - 1] \in V
    <3>1. i - 1 \in 0..n BY <1>1
    <3> HIDE DEF G, n, V
    <3> QED BY <1>3, <3>1
  <2>2. G[i] = [s \in V |-> s \o items[i]] OBVIOUS
  <2> HIDE DEF G, n, V
  <2> QED BY <2>1, <2>2
<1>5. Joined(items, n, f) BY <1>3, <1>4 DEF Joined
<1>f. n # 0 => f[1] = items[1]
  <2> SUFFICES ASSUME n # 0 PROVE f[1] = items[1] OBVIOUS
  <2>1. 1 \in 1..n BY <1>1
  <2> HIDE DEF n
  <2>2. f[1] = f[1 - 1] \o items[1] BY <1>4, <2>1
  <2>3. f[1 - 1] = << >> BY <1>3
  <2>4. << >> \o items[1] = items[1] BY <1>1, <2>1, ConcatEmptySeq
  <2> QED BY <2>2, <2>3, <2>4
<1>6. CASE n = 0
  <2>1. items = << >> BY <1>6, EmptySeq
  <2>2. FlattenSeq(items) = items BY <1>6 DEF FlattenSeq
  <2> QED BY <1>3, <1>5, <1>6, <2>1, <2>2
<1>7. CASE n # 0
  <2> DEFINE Step(g) == [i \in 1..n |-> IF i = 1 THEN items[i] ELSE g[i - 1] \o items[i]]
             g == [i \in 1..n |-> f[i]]
             h == CHOOSE e : e = Step(e)
  <2>1. FlattenSeq(items) = h[n] BY <1>7 DEF FlattenSeq
  <2>2. ASSUME NEW i \in 1..n PROVE g[i] = Step(g)[i]
    <3>1. CASE i = 1
      <4>1. f[1] = items[1] BY <1>7, <1>f
      <4> QED BY <3>1, <4>1
    <3>2. CASE i # 1
      <4>1. i - 1 \in 1..n BY <1>1, <3>2
      <4> QED BY <1>4, <3>2, <4>1
    <3> QED BY <3>1, <3>2
  <2>3. g = Step(g)
    <3>1. Step(g) = [i \in 1..n |-> Step(g)[i]] /\ g = [i \in 1..n |-> g[i]] OBVIOUS
    <3> HIDE DEF Step, g
    <3> QED BY <2>2, <3>1
  <2>4. h = Step(h)
    <3> HIDE DEF Step, g
    <3> QED BY <2>3
  <2> HIDE DEF h, g
  <2>5. h[1] = items[1]
    <3>1. 1 \in 1..n BY <1>1, <1>7
    <3>2. Step(h)[1] = items[1] BY <3>1
    <3> QED BY <2>4, <3>2
  <2>6. ASSUME NEW i \in 1..n, i # 1 PROVE h[i] = h[i - 1] \o items[i]
    <3>1. Step(h)[i] = h[i - 1] \o items[i] BY <2>6
    <3> QED BY <2>4, <3>1
  <2> DEFINE S == {i \in Nat : i + 1 <= n => h[i + 1] = f[i + 1]}
  <2>7. 0 \in S
    <3>1. h[0 + 1] = f[0 + 1] BY <1>7, <1>f, <2>5
    <3> QED BY <3>1
  <2>8. ASSUME NEW i \in S PROVE i + 1 \in S
    <3> SUFFICES ASSUME (i + 1) + 1 <= n PROVE h[(i + 1) + 1] = f[(i + 1) + 1] OBVIOUS
    <3> DEFINE k == (i + 1) + 1
    <3>1. k \in 1..n /\ k # 1 /\ k - 1 = i + 1 /\ h[i + 1] = f[i + 1] BY <1>1
    <3> HIDE DEF k
    <3>2. h[k] = h[k - 1] \o items[k] BY <2>6, <3>1
    <3>3. f[k] = f[k - 1] \o items[k] BY <1>4, <3>1
    <3> QED BY <3>1, <3>2, <3>3 DEF k
  <2>9. S = Nat
    <3>1. S \in SUBSET Nat OBVIOUS
    <3> HIDE DEF S
    <3> QED BY <2>7, <2>8, <3>1, Induction
  <2>10. n - 1 \in S
    <3>1. n - 1 \in Nat BY <1>1, <1>7
    <3> HIDE DEF S
    <3> QED BY <2>9, <3>1
  <2>11. h[n] = f[n]
    <3>1. (n - 1) + 1 = n /\ n <= n BY <1>1
    <3> QED BY <2>10, <3>1
  <2> QED BY <1>5, <2>1, <2>11
<1> QED BY <1>6, <1>7

(* Places that never go back, from the first to the one after the n-th.       *)
Places(o, n) ==
  /\ \A i \in 1..n + 1 : o[i] \in Nat
  /\ \A i \in 1..n : o[i] <= o[i + 1]

LEMMA PlacesBetween ==
  ASSUME NEW n \in Nat, NEW o, Places(o, n)
  PROVE  \A i \in 1..n + 1 : o[1] <= o[i] /\ o[i] <= o[n + 1]
<1>1. /\ \A i \in 1..n + 1 : o[i] \in Nat
      /\ \A i \in 1..n : o[i] <= o[i + 1]
  BY DEF Places
<1> DEFINE S == {i \in Nat : i <= n => o[1] <= o[i + 1]}
           R == {i \in Nat : i <= n => o[n + 1 - i] <= o[n + 1]}
<1>2. 0 \in S
  <2>1. 1 \in 1..n + 1 /\ 0 + 1 = 1 OBVIOUS
  <2>2. o[1] <= o[1] BY <1>1, <2>1
  <2> QED BY <2>1, <2>2
<1>3. ASSUME NEW i \in S PROVE i + 1 \in S
  <2> SUFFICES ASSUME i + 1 <= n PROVE o[1] <= o[(i + 1) + 1] OBVIOUS
  <2>1. i + 1 \in 1..n /\ i + 1 \in 1..n + 1 /\ (i + 1) + 1 \in 1..n + 1
        /\ 1 \in 1..n + 1 /\ o[1] <= o[i + 1]
    OBVIOUS
  <2>2. o[i + 1] <= o[(i + 1) + 1] BY <1>1, <2>1
  <2>3. o[1] \in Nat /\ o[i + 1] \in Nat /\ o[(i + 1) + 1] \in Nat BY <1>1, <2>1
  <2> QED BY <2>1, <2>2, <2>3
<1>4. 0 \in R
  <2>1. n + 1 \in 1..n + 1 /\ n + 1 - 0 = n + 1 OBVIOUS
  <2>2. o[n + 1] <= o[n + 1] BY <1>1, <2>1
  <2> QED BY <2>1, <2>2
<1>5. ASSUME NEW i \in R PROVE i + 1 \in R
  <2> SUFFICES ASSUME i + 1 <= n PROVE o[n + 1 - (i + 1)] <= o[n + 1] OBVIOUS
  <2> DEFINE k == n + 1 - (i + 1)
  <2>1. k \in 1..n /\ k \in 1..n + 1 /\ k + 1 = n + 1 - i /\ k + 1 \in 1..n + 1
        /\ n + 1 \in 1..n + 1 /\ o[n + 1 - i] <= o[n + 1]
    OBVIOUS
  <2> HIDE DEF k
  <2>2. o[k] <= o[k + 1] BY <1>1, <2>1
  <2>3. o[k] \in Nat /\ o[k + 1] \in Nat /\ o[n + 1] \in Nat BY <1>1, <2>1
  <2>4. o[k + 1] <= o[n + 1] BY <2>1
  <2>5. o[k] <= o[n + 1] BY <2>2, <2>3, <2>4
  <2> QED BY <2>5 DEF k
<1>6. S = Nat /\ R = Nat
  <2>1. S \in SUBSET Nat /\ R \in SUBSET Nat OBVIOUS
  <2> HIDE DEF S, R
  <2> QED BY <1>2, <1>3, <1>4, <1>5, <2>1, Induction
<1> SUFFICES ASSUME NEW i \in 1..n + 1 PROVE o[1] <= o[i] /\ o[i] <= o[n + 1] OBVIOUS
<1>7. i - 1 \in Nat /\ n + 1 - i \in Nat OBVIOUS
<1>8. i - 1 \in S /\ n + 1 - i \in R
  <2> HIDE DEF S, R
  <2> QED BY <1>6, <1>7
<1>9. i - 1 <= n /\ (i - 1) + 1 = i /\ n + 1 - i <= n /\ n + 1 - (n + 1 - i) = i OBVIOUS
<1> QED BY <1>8, <1>9

(* Slices of a sequence between such places, joined again.                    *)
LEMMA JoinOfSlices ==
  ASSUME NEW T, NEW b \in Seq(T), NEW n \in Nat, NEW o, Places(o, n), o[n + 1] <= Len(b),
         NEW items, items = [i \in 1..n |-> Slice(b, o[i], o[i + 1])]
  PROVE  /\ items \in Seq(Seq(T)) /\ Len(items) = n
         /\ FlattenSeq(items) = Slice(b, o[1], o[n + 1])
<1>1. /\ \A i \in 1..n + 1 : o[i] \in Nat
      /\ \A i \in 1..n : o[i] <= o[i + 1]
  BY DEF Places
<1>2. \A i \in 1..n + 1 : o[1] <= o[i] /\ o[i] <= o[n + 1] BY PlacesBetween
<1>3. Len(b) \in Nat BY LenProperties
<1>4. ASSUME NEW i \in 1..n
      PROVE  /\ Slice(b, o[i], o[i + 1]) \in Seq(T)
             /\ Len(Slice(b, o[i], o[i + 1])) = o[i + 1] - o[i]
  <2>1. i \in 1..n + 1 /\ i + 1 \in 1..n + 1 /\ n + 1 \in 1..n + 1 OBVIOUS
  <2>2. o[i] \in Nat /\ o[i + 1] \in Nat /\ o[i] <= o[i + 1] /\ o[i + 1] <= o[n + 1]
        /\ o[n + 1] \in Nat
    BY <1>1, <1>2, <2>1
  <2>3. IsSlice(b, o[i], o[i + 1]) BY <1>3, <2>2 DEF IsSlice
  <2> QED BY <2>2, <2>3, SliceOf, ZenonT(60)
<1>5. items \in [1..n -> Seq(T)] BY <1>4
<1>6. items \in Seq(Seq(T)) /\ Len(items) = n
  <2> DEFINE V == Seq(T)
  <2>1. items \in [1..n -> V] BY <1>5
  <2> HIDE DEF V
  <2>2. items \in Seq(V) /\ Len(items) = n BY <2>1
  <2> QED BY <2>2 DEF V
<1>7. PICK f \in [0..n -> Seq(T)] : Joined(items, n, f) /\ FlattenSeq(items) = f[n]
  BY <1>6, Flattening
<1>8. f[0] = << >> /\ \A i \in 1..n : f[i] = f[i - 1] \o items[i] BY <1>7 DEF Joined
<1> DEFINE S == {i \in Nat : i <= n => f[i] = Slice(b, o[1], o[i + 1])}
<1>9. 0 \in S
  <2>1. 1 \in 1..n + 1 OBVIOUS
  <2>2. o[1] \in Nat /\ o[1] + 1 \in Int /\ o[1] < o[1] + 1 BY <1>1, <2>1
  <2>3. Slice(b, o[1], o[1]) = << >> BY <2>2, SubSeqEmpty DEF Slice
  <2> QED BY <1>8, <2>3
<1>10. ASSUME NEW i \in S PROVE i + 1 \in S
  <2> SUFFICES ASSUME i + 1 <= n PROVE f[i + 1] = Slice(b, o[1], o[(i + 1) + 1]) OBVIOUS
  <2> DEFINE k == i + 1
  <2>1. k \in 1..n /\ k \in 1..n + 1 /\ k + 1 \in 1..n + 1 /\ 1 \in 1..n + 1
        /\ n + 1 \in 1..n + 1 /\ k - 1 = i /\ f[i] = Slice(b, o[1], o[k])
    OBVIOUS
  <2> HIDE DEF k
  <2>2. f[k] = f[i] \o Slice(b, o[k], o[k + 1])
    <3>1. f[k] = f[k - 1] \o items[k] BY <1>8, <2>1
    <3>2. items[k] = Slice(b, o[k], o[k + 1]) BY <2>1
    <3> QED BY <2>1, <3>1, <3>2
  <2>3. o[1] \in Nat /\ o[k] \in Nat /\ o[k + 1] \in Nat /\ o[n + 1] \in Nat BY <1>1, <2>1
  <2>4. o[1] <= o[k] /\ o[k] <= o[k + 1] /\ o[k + 1] <= o[n + 1] BY <1>1, <1>2, <2>1
  <2>5. o[k + 1] <= Len(b) BY <1>3, <2>3, <2>4
  <2>6. f[k] = Slice(b, o[1], o[k + 1])
    <3>1. Slice(b, o[1], o[k]) \o Slice(b, o[k], o[k + 1]) = Slice(b, o[1], o[k + 1])
      BY <2>3, <2>4, <2>5, SliceJoin
    <3> QED BY <2>1, <2>2, <3>1
  <2> QED BY <2>6 DEF k
<1>11. S = Nat
  <2>1. S \in SUBSET Nat OBVIOUS
  <2> HIDE DEF S
  <2> QED BY <1>9, <1>10, <2>1, Induction
<1>12. f[n] = Slice(b, o[1], o[n + 1])
  <2>1. n \in S BY <1>11
  <2>2. n <= n OBVIOUS
  <2> QED BY <2>1, <2>2
<1> QED BY <1>6, <1>7, <1>12

(* Sequences that are joined stand where those before them end.               *)
LEMMA SlicesOfJoin ==
  ASSUME NEW T, NEW items \in Seq(Seq(T)), NEW o, o[1] = 0,
         \A i \in 1..Len(items) : o[i + 1] = o[i] + Len(items[i])
  PROVE  /\ FlattenSeq(items) \in Seq(T)
         /\ Places(o, Len(items)) /\ Len(FlattenSeq(items)) = o[Len(items) + 1]
         /\ \A i \in 1..Len(items) : StandsAt(items[i], FlattenSeq(items), o[i])
<1> DEFINE n == Len(items)
<1>1. n \in Nat BY LenProperties
<1>2. \A i \in 1..n : items[i] \in Seq(T) /\ Len(items[i]) \in Nat
  BY ElementOfSeq, LenProperties
<1>3. PICK f \in [0..n -> Seq(T)] : Joined(items, n, f) /\ FlattenSeq(items) = f[n]
  BY Flattening
<1>4. /\ f[0] = << >> /\ \A i \in 1..n : f[i] = f[i - 1] \o items[i]
      /\ \A i \in 0..n : f[i] \in Seq(T)
  BY <1>3 DEF Joined
<1>5. \A i \in 1..n : o[i + 1] = o[i] + Len(items[i]) OBVIOUS
<1> HIDE DEF n
<1> DEFINE Good(i) == /\ Len(f[i]) = o[i + 1] /\ o[i + 1] \in Nat
                      /\ \A j \in 1..i : o[j] \in Nat /\ StandsAt(items[j], f[i], o[j])
           S == {i \in Nat : i <= n => Good(i)}
<1>6. Good(0)
  <2>1. Len(<< >>) = 0 /\ 0 + 1 = 1 /\ 1..0 = {} OBVIOUS
  <2> QED BY <1>4, <2>1
<1>7. ASSUME NEW i \in Nat, Good(i), i + 1 <= n PROVE Good(i + 1)
  <2> DEFINE k == i + 1
  <2>1. k \in 1..n /\ i \in 0..n /\ k \in 0..n /\ k - 1 = i BY <1>1, <1>7
  <2>2. Len(f[i]) = o[k] /\ o[k] \in Nat
        /\ \A j \in 1..i : o[j] \in Nat /\ StandsAt(items[j], f[i], o[j])
    BY <1>7
  <2>3. \A j \in 1..k : j \in 1..n /\ (j \in 1..i \/ j = k) BY <1>1, <2>1
  <2> HIDE DEF k, Good
  <2>4. f[k] = f[i] \o items[k] BY <1>4, <2>1
  <2>5. f[i] \in Seq(T) /\ items[k] \in Seq(T) /\ Len(items[k]) \in Nat BY <1>2, <1>4, <2>1
  <2>6. Len(f[k]) = o[k + 1] /\ o[k + 1] \in Nat
    <3>1. Len(f[k]) = Len(f[i]) + Len(items[k]) BY <2>4, <2>5, ConcatProperties
    <3>2. o[k + 1] = o[k] + Len(items[k]) BY <1>5, <2>1
    <3> QED BY <2>2, <2>5, <3>1, <3>2
  <2>7. ASSUME NEW j \in 1..k PROVE o[j] \in Nat /\ StandsAt(items[j], f[k], o[j])
    <3>1. CASE j \in 1..i
      <4>1. StandsAt(items[j], f[i], o[j]) /\ o[j] \in Nat BY <2>2, <3>1
      <4>2. items[j] \in Seq(T) BY <1>2, <2>3
      <4> QED BY <2>4, <2>5, <4>1, <4>2, StandsLeft
    <3>2. CASE j = k
      <4>1. StandsAt(items[k], f[i] \o items[k], Len(f[i])) BY <2>5, StandsRight
      <4> QED BY <2>2, <2>4, <3>2, <4>1
    <3> QED BY <2>3, <3>1, <3>2
  <2> QED BY <2>6, <2>7 DEF Good, k
<1> HIDE DEF Good
<1>8. 0 \in S BY <1>6
<1>9. ASSUME NEW i \in S PROVE i + 1 \in S
  <2> SUFFICES ASSUME i + 1 <= n PROVE Good(i + 1) OBVIOUS
  <2>1. i \in Nat /\ Good(i) BY <1>1
  <2> QED BY <1>7, <2>1
<1>10. S = Nat
  <2>1. S \in SUBSET Nat OBVIOUS
  <2> HIDE DEF S
  <2> QED BY <1>8, <1>9, <2>1, Induction
<1>11. Good(n)
  <2>1. n \in S BY <1>1, <1>10
  <2>2. n <= n BY <1>1
  <2> QED BY <2>1, <2>2
<1>12. /\ Len(f[n]) = o[n + 1] /\ o[n + 1] \in Nat
       /\ \A j \in 1..n : o[j] \in Nat /\ StandsAt(items[j], f[n], o[j])
  BY <1>11 DEF Good
<1>13. Places(o, n)
  <2>1. ASSUME NEW i \in 1..n + 1 PROVE o[i] \in Nat
    <3>1. i \in 1..n \/ i = n + 1 BY <1>1
    <3> QED BY <1>12, <3>1
  <2>2. ASSUME NEW i \in 1..n PROVE o[i] <= o[i + 1]
    <3>1. o[i + 1] = o[i] + Len(items[i]) /\ o[i] \in Nat /\ Len(items[i]) \in Nat
      BY <1>2, <1>5, <1>12
    <3> QED BY <3>1
  <2> QED BY <2>1, <2>2 DEF Places
<1>14. n \in 0..n BY <1>1
<1>15. FlattenSeq(items) \in Seq(T) BY <1>3, <1>4, <1>14
<1> QED BY <1>3, <1>12, <1>13, <1>15 DEF n

-------------------------------------------------------------------------------
(* Lists whose items all have one length.                                     *)
LEMMA OneValueEach ==
  ASSUME NEW n, NEW x, x = [i \in 1..n |-> x[i]], NEW d, d = [i \in 1..n |-> {x[i]}]
  PROVE  AllDecoded(d) = {x}
<1>1. DOMAIN d = 1..n /\ \A i \in 1..n : d[i] = {x[i]} OBVIOUS
<1>2. \A i \in 1..n : (CHOOSE v \in d[i] : TRUE) = x[i] BY <1>1
<1>3. [i \in DOMAIN d |-> CHOOSE v \in d[i] : TRUE] = x BY <1>1, <1>2
<1>4. ~ \E i \in DOMAIN d : d[i] = {} BY <1>1
<1> QED BY <1>3, <1>4 DEF AllDecoded

LEMMA ValueOfEach ==
  ASSUME NEW n, NEW d, DOMAIN d = 1..n, NEW v, v \in AllDecoded(d)
  PROVE  v = [i \in 1..n |-> v[i]] /\ \A i \in 1..n : v[i] \in d[i]
<1>1. ~ \E i \in DOMAIN d : d[i] = {} BY DEF AllDecoded
<1>2. v = [i \in 1..n |-> CHOOSE y \in d[i] : TRUE] BY <1>1 DEF AllDecoded
<1>3. \A i \in 1..n : (CHOOSE y \in d[i] : TRUE) \in d[i] BY <1>1
<1> QED BY <1>2, <1>3

LEMMA FixedOfJoin ==
  ASSUME NEW h \in Nat \ {0}, NEW items \in Seq(Seq(Byte)),
         \A i \in 1..Len(items) : Len(items[i]) = h
  PROVE  /\ FlattenSeq(items) \in Seq(Byte) /\ Len(FlattenSeq(items)) = h * Len(items)
         /\ FixedItems(FlattenSeq(items), h) = items
         /\ \A i \in 1..Len(items) :
              /\ i * h <= Len(FlattenSeq(items))
              /\ Slice(FlattenSeq(items), (i - 1) * h, i * h) = items[i]
<1> DEFINE n == Len(items)
           o == [i \in 1..n + 1 |-> (i - 1) * h]
           b == FlattenSeq(items)
<1>1. n \in Nat /\ items = [i \in 1..n |-> items[i]] BY LenProperties
<1>2. \A i \in 1..n : Len(items[i]) = h OBVIOUS
<1> HIDE DEF n
<1>3. o[1] = 0 /\ o[n + 1] = n * h
  <2>1. 1 \in 1..n + 1 /\ n + 1 \in 1..n + 1 /\ (n + 1) - 1 = n /\ 1 - 1 = 0 BY <1>1
  <2>2. o[1] = 0 * h /\ o[n + 1] = n * h BY <2>1
  <2> QED BY <2>2
<1>4. ASSUME NEW i \in 1..n PROVE o[i] = (i - 1) * h /\ o[i + 1] = o[i] + Len(items[i])
  <2>1. i \in 1..n + 1 /\ i + 1 \in 1..n + 1 /\ (i + 1) - 1 = i BY <1>1
  <2>2. o[i] = (i - 1) * h /\ o[i + 1] = i * h BY <2>1
  <2>3. (i - 1) * h + h = i * h OBVIOUS
  <2> QED BY <1>2, <2>2, <2>3
<1> HIDE DEF o, b
<1>5. /\ b \in Seq(Byte) /\ Len(b) = o[n + 1]
      /\ \A i \in 1..n : StandsAt(items[i], b, o[i])
  BY <1>3, <1>4, SlicesOfJoin DEF n, b
<1>6. Len(b) = n * h /\ n * h \in Nat BY <1>1, <1>3, <1>5
<1>7. (Len(b) + h - 1) \div h = n
  <2>1. Len(b) + h - 1 = n * h + (h - 1) /\ Len(b) + h - 1 \in Int /\ h - 1 \in 0..h - 1
        /\ n \in Int
    BY <1>1, <1>6
  <2> QED BY <2>1, QuotientIs
<1>8. ASSUME NEW i \in 1..n
      PROVE  /\ i * h <= Len(b)
             /\ Slice(b, (i - 1) * h, i * h) = items[i]
  <2>1. i \in Nat /\ n - i \in Nat BY <1>1
  <2>2. (n - i) * h \in Nat /\ i * h \in Nat BY <2>1
  <2>3. (n - i) * h = n * h - i * h BY <1>1, <2>1
  <2>4. (i - 1) * h + h = i * h BY <2>1
  <2>5. Slice(b, o[i], o[i] + Len(items[i])) = items[i] BY <1>5 DEF StandsAt
  <2>6. Slice(b, (i - 1) * h, (i - 1) * h + h) = items[i] BY <1>2, <1>4, <2>5
  <2> QED BY <1>6, <2>2, <2>3, <2>4, <2>6
<1>9. FixedItems(b, h) = [i \in 1..n |-> items[i]]
  <2>1. FixedItems(b, h) =
          [i \in 1..n |-> Slice(b, (i - 1) * h, IF i * h <= Len(b) THEN i * h ELSE Len(b))]
    BY <1>7 DEF FixedItems
  <2>2. \A i \in 1..n :
          Slice(b, (i - 1) * h, IF i * h <= Len(b) THEN i * h ELSE Len(b)) = items[i]
    BY <1>8
  <2> QED BY <2>1, <2>2
<1>10. n * h = h * n BY <1>1
<1> QED BY <1>1, <1>5, <1>6, <1>8, <1>9, <1>10 DEF n, b

LEMMA JoinOfFixed ==
  ASSUME NEW h \in Nat \ {0}, NEW b \in Seq(Byte),
         NEW items, items = FixedItems(b, h), \A i \in DOMAIN items : Len(items[i]) = h
  PROVE  /\ items \in Seq(Seq(Byte)) /\ DOMAIN items = 1..Len(items)
         /\ FlattenSeq(items) = b /\ Len(b) = h * Len(items)
<1> DEFINE L == Len(b)
           x == L + h - 1
           n == x \div h
           End(i) == IF i * h <= L THEN i * h ELSE L
           o == [i \in 1..n + 1 |-> (i - 1) * h]
<1>1. L \in Nat /\ x \in Nat BY LenProperties
<1>2. items = [i \in 1..n |-> Slice(b, (i - 1) * h, End(i))] BY DEF FixedItems
<1>3. n \in Nat /\ x = n * h + (x % h) /\ x % h \in 0..h - 1
  <2> HIDE DEF x
  <2> QED BY <1>1, QuotientNat
<1>4. L <= n * h /\ n * h < L + h /\ n * h \in Nat
  <2> DEFINE r == x % h
  <2>1. L + h - 1 = n * h + r /\ r \in 0..h - 1 BY <1>3
  <2> HIDE DEF r, n, L
  <2>2. n * h \in Nat BY <1>3
  <2> QED BY <1>1, <2>1, <2>2
<1> HIDE DEF n, x, L
<1>5. n * h = L
  <2>1. CASE n = 0
    <3>1. n * h = 0 BY <2>1
    <3> QED BY <1>1, <1>4, <3>1
  <2>2. CASE n # 0
    <3> SUFFICES ASSUME L < n * h PROVE FALSE BY <1>1, <1>4
    <3>1. n \in 1..n /\ n - 1 \in Nat BY <1>3, <2>2
    <3>2. Len(items[n]) = h BY <1>2, <3>1
    <3>3. items[n] = Slice(b, (n - 1) * h, L)
      <4>1. ~(n * h <= L) BY <1>1, <1>4
      <4> QED BY <1>2, <3>1, <4>1
    <3>4. (n - 1) * h = n * h - h /\ (n - 1) * h \in Nat BY <1>3, <3>1
    <3>5. IsSlice(b, (n - 1) * h, L)
      <4>1. (n - 1) * h <= L BY <1>1, <1>4, <3>4
      <4>2. L <= L BY <1>1
      <4> QED BY <4>1, <4>2 DEF IsSlice, L
    <3>6. Len(items[n]) = L - (n - 1) * h BY <1>1, <3>3, <3>4, <3>5, SliceOf
    <3> QED BY <1>1, <1>4, <3>2, <3>4, <3>6
  <2> QED BY <2>1, <2>2
<1>6. ASSUME NEW i \in 1..n + 1 PROVE o[i] = (i - 1) * h /\ o[i] \in Nat
  <2>1. i - 1 \in Nat BY <1>3
  <2>2. (i - 1) * h \in Nat BY <2>1
  <2> QED BY <2>2
<1>7. o[1] = 0 /\ o[n + 1] = L
  <2>1. 1 \in 1..n + 1 /\ n + 1 \in 1..n + 1 /\ (n + 1) - 1 = n /\ 1 - 1 = 0 BY <1>3
  <2>2. o[1] = 0 * h /\ o[n + 1] = n * h BY <1>6, <2>1
  <2> QED BY <1>5, <2>2
<1>8. ASSUME NEW i \in 1..n
      PROVE  /\ o[i] = (i - 1) * h /\ o[i + 1] = i * h /\ o[i] <= o[i + 1]
             /\ End(i) = i * h
  <2>1. i \in 1..n + 1 /\ i + 1 \in 1..n + 1 /\ (i + 1) - 1 = i /\ i \in Nat /\ n - i \in Nat
    BY <1>3
  <2>2. o[i] = (i - 1) * h /\ o[i + 1] = i * h BY <1>6, <2>1
  <2>3. (i - 1) * h = i * h - h /\ i * h \in Nat BY <2>1
  <2>4. (n - i) * h \in Nat /\ (n - i) * h = n * h - i * h BY <1>3, <2>1
  <2>5. i * h <= L BY <1>5, <1>1, <2>3, <2>4
  <2> QED BY <2>2, <2>3, <2>5
<1>9. Places(o, n) BY <1>6, <1>8 DEF Places
<1>10. items = [i \in 1..n |-> Slice(b, o[i], o[i + 1])]
  <2>1. \A i \in 1..n : Slice(b, (i - 1) * h, End(i)) = Slice(b, o[i], o[i + 1]) BY <1>8
  <2> QED BY <1>2, <2>1
<1> HIDE DEF o, End
<1>11. o[n + 1] <= Len(b)
  <2>1. L <= L BY <1>1
  <2> QED BY <1>7, <2>1 DEF L
<1>12. /\ items \in Seq(Seq(Byte)) /\ Len(items) = n
       /\ FlattenSeq(items) = Slice(b, o[1], o[n + 1])
  BY <1>3, <1>9, <1>10, <1>11, JoinOfSlices
<1>13. FlattenSeq(items) = b BY <1>7, <1>12, SliceAll DEF L
<1>14. n * h = h * n BY <1>3
<1>15. DOMAIN items = 1..n BY <1>10
<1> QED BY <1>5, <1>12, <1>13, <1>14, <1>15 DEF L

-------------------------------------------------------------------------------
(* Hashes.                                                                    *)
LEMMA LenIs ==
  ASSUME NEW T, NEW n \in Nat, NEW s \in [1..n -> T]
  PROVE  s \in Seq(T) /\ Len(s) = n
OBVIOUS

LEMMA HashBytes ==
  ASSUME NEW h \in Hashes
  PROVE  h \in Seq(Byte) /\ Len(h) = HASH_LENGTH
BY LenIs, HashLengthAssumption DEF Hashes

LEMMA BytesHash ==
  ASSUME NEW s \in Seq(Byte), Len(s) = HASH_LENGTH
  PROVE  s \in Hashes
BY LenProperties DEF Hashes

LEMMA SeqOfItems ==
  ASSUME NEW S, NEW T, S \subseteq T, NEW s \in Seq(S)
  PROVE  s \in Seq(T) /\ DOMAIN s = 1..Len(s) /\ s = [i \in 1..Len(s) |-> s[i]]
BY SeqMonotonic, LenProperties

LEMMA ReadHashes ==
  ASSUME NEW nodes \in Seq(Hashes)
  PROVE  /\ FlattenSeq(nodes) \in Seq(Byte)
         /\ Len(FlattenSeq(nodes)) = HASH_LENGTH * Len(nodes)
         /\ DecodeHashes(FlattenSeq(nodes)) = {nodes}
<1> DEFINE n == Len(nodes)
           b == FlattenSeq(nodes)
           d == [i \in 1..n |-> DecodeHash(nodes[i])]
<1>1. \A i \in 1..n : nodes[i] \in Seq(Byte) /\ Len(nodes[i]) = HASH_LENGTH
  BY ElementOfSeq, HashBytes
<1>2. nodes \in Seq(Seq(Byte)) /\ DOMAIN nodes = 1..n /\ nodes = [i \in 1..n |-> nodes[i]]
  <2>1. Hashes \subseteq Seq(Byte) BY HashBytes
  <2> QED BY <2>1, SeqOfItems
<1>3. /\ b \in Seq(Byte) /\ Len(b) = HASH_LENGTH * n
      /\ FixedItems(b, HASH_LENGTH) = nodes
  BY <1>1, <1>2, HashLengthAssumption, FixedOfJoin
<1> HIDE DEF n, b
<1>4. DecodeHashes(b) = AllDecoded(d) BY <1>2, <1>3 DEF DecodeHashes
<1>5. d = [i \in 1..n |-> {nodes[i]}] BY <1>1 DEF DecodeHash, DecodeArray
<1>6. AllDecoded(d) = {nodes}
  <2> HIDE DEF d
  <2> QED BY <1>2, <1>5, OneValueEach
<1> QED BY <1>3, <1>4, <1>6 DEF n, b

LEMMA WriteHashes ==
  ASSUME NEW b \in Seq(Byte), NEW nodes, nodes \in DecodeHashes(b)
  PROVE  /\ nodes \in Seq(Hashes) /\ FlattenSeq(nodes) = b
         /\ Len(b) = HASH_LENGTH * Len(nodes)
<1> DEFINE items == FixedItems(b, HASH_LENGTH)
           n == (Len(b) + HASH_LENGTH - 1) \div HASH_LENGTH
           d == [i \in DOMAIN items |-> DecodeHash(items[i])]
<1>1. DOMAIN items = 1..n BY DEF FixedItems
<1>2. nodes \in AllDecoded(d) BY DEF DecodeHashes
<1>3. DOMAIN d = 1..n BY <1>1
<1> HIDE DEF n
<1>4. nodes = [i \in 1..n |-> nodes[i]] /\ \A i \in 1..n : nodes[i] \in d[i]
  <2> HIDE DEF d
  <2> QED BY <1>2, <1>3, ValueOfEach
<1>5. ASSUME NEW i \in 1..n PROVE nodes[i] = items[i] /\ Len(items[i]) = HASH_LENGTH
  <2>1. nodes[i] \in DecodeHash(items[i]) BY <1>1, <1>4
  <2> HIDE DEF items
  <2> QED BY <2>1 DEF DecodeHash, DecodeArray
<1>6. items = [i \in 1..n |-> items[i]] BY <1>1 DEF FixedItems
<1> HIDE DEF items
<1>7. nodes = items BY <1>4, <1>5, <1>6
<1>8. /\ items \in Seq(Seq(Byte)) /\ DOMAIN items = 1..Len(items)
      /\ FlattenSeq(items) = b /\ Len(b) = HASH_LENGTH * Len(items)
  <2>1. items = FixedItems(b, HASH_LENGTH) BY DEF items
  <2> QED BY <1>1, <1>5, <2>1, HashLengthAssumption, JoinOfFixed
<1>9. ASSUME NEW i \in 1..Len(items) PROVE items[i] \in Hashes
  <2>1. items[i] \in Seq(Byte) /\ Len(items[i]) = HASH_LENGTH
    BY <1>1, <1>5, <1>8, ElementOfSeq
  <2> QED BY <2>1, BytesHash
<1>10. items \in Seq(Hashes)
  <2>1. Len(items) \in Nat /\ items = [i \in 1..Len(items) |-> items[i]]
    BY <1>8, LenProperties
  <2>2. items \in [1..Len(items) -> Hashes] BY <1>9, <2>1
  <2> QED BY <2>1, <2>2, LenIs
<1> QED BY <1>7, <1>8, <1>10

-------------------------------------------------------------------------------
(* Bytes after bytes, and bytes cut in two.                                   *)
LEMMA Extended ==
  ASSUME NEW s \in Seq(Byte), NEW t \in Seq(Byte)
  PROVE  /\ s \o t \in Seq(Byte) /\ Len(s \o t) = Len(s) + Len(t)
         /\ StandsAt(t, s \o t, Len(s))
         /\ \A p \in Seq(Byte), at \in Nat : StandsAt(p, s, at) => StandsAt(p, s \o t, at)
BY ConcatProperties, StandsLeft, StandsRight

LEMMA StandsAlone == ASSUME NEW s \in Seq(Byte) PROVE StandsAt(s, s, 0)
BY SliceAll DEF StandsAt

LEMMA CutAt ==
  ASSUME NEW b \in Seq(Byte), NEW m \in Nat, NEW n \in Nat, m <= n, n <= Len(b)
  PROVE  /\ Slice(b, 0, m) \o Slice(b, m, n) = Slice(b, 0, n)
         /\ Slice(b, m, n) \in Seq(Byte) /\ Len(Slice(b, m, n)) = n - m
<1>1. Len(b) \in Nat /\ 0 \in Nat /\ 0 <= m BY LenProperties
<1>2. IsSlice(b, m, n) BY DEF IsSlice
<1> QED BY <1>1, <1>2, SliceJoin, SliceOf

LEMMA SmallOffsets == U32Range >= 16 /\ U32Range \in Nat
<1>1. Weight[1] = Radix * Weight[0]
  <2>1. 1 \in 1..8 /\ 1 - 1 = 0 OBVIOUS
  <2> QED BY <2>1, Weights
<1>2. Weight[2] = Radix * Weight[1]
  <2>1. 2 \in 1..8 /\ 2 - 1 = 1 OBVIOUS
  <2> QED BY <2>1, Weights
<1>3. Weight[3] = Radix * Weight[2]
  <2>1. 3 \in 1..8 /\ 3 - 1 = 2 OBVIOUS
  <2> QED BY <2>1, Weights
<1>4. Weight[4] = Radix * Weight[3]
  <2>1. 4 \in 1..8 /\ 4 - 1 = 3 OBVIOUS
  <2> QED BY <2>1, Weights
<1>5. ASSUME NEW w \in Nat PROVE Radix * w >= 2 * w
  <2>1. Radix - 2 \in Nat /\ (Radix - 2) * w \in Nat BY RadixNat
  <2>2. (Radix - 2) * w = Radix * w - 2 * w /\ Radix * w \in Nat BY RadixNat
  <2> QED BY <2>1, <2>2
<1>6. /\ Weight[0] = 1 /\ Weight[1] \in Nat /\ Weight[2] \in Nat
      /\ Weight[3] \in Nat /\ Weight[4] \in Nat
  BY Weights
<1>7. Weight[1] >= 2 BY <1>1, <1>5, <1>6
<1>8. Weight[2] >= 4 BY <1>2, <1>5, <1>6, <1>7
<1>9. Weight[3] >= 8 BY <1>3, <1>5, <1>6, <1>8
<1>10. Weight[4] >= 16 BY <1>4, <1>5, <1>6, <1>9
<1> QED BY <1>6, <1>10, OffsetAssumption

-------------------------------------------------------------------------------
(* HashTreeLayer                                                              *)
LEMMA ReadLayer ==
  ASSUME NEW layer \in Layers
  PROVE  /\ EncodeLayer(layer) \in Seq(Byte)
         /\ Len(EncodeLayer(layer)) = LayerBytesLen(layer)
         /\ DecodeLayer(EncodeLayer(layer)) = {layer}
<1> DEFINE s == layer.start_index
           nodes == layer.nodes
           f == FlattenSeq(nodes)
           a == U64(s)
           b == a \o U32(12)
           c == b \o f
<1>1. s \in U64Number /\ s \in Nat /\ nodes \in Seq(Hashes)
      /\ layer = [start_index |-> s, nodes |-> nodes]
  BY EpochNat DEF Layers
<1>2. 12 \in Epoch /\ 12 \in Nat BY SmallOffsets DEF Epoch
<1>3. EncodeLayer(layer) = c BY DEF EncodeLayer
<1>4. /\ f \in Seq(Byte) /\ Len(f) = HASH_LENGTH * Len(nodes) /\ DecodeHashes(f) = {nodes}
  BY <1>1, ReadHashes
<1> HIDE DEF s, nodes, f
<1>5. a \in Seq(Byte) /\ Len(a) = 8 /\ StandsAt(U64(s), a, 0)
  BY <1>1, U64Bytes, StandsAlone
<1>6. U32(12) \in Seq(Byte) /\ Len(U32(12)) = 4 BY <1>2, U32Bytes
<1> HIDE DEF a
<1>7. b \in Seq(Byte) /\ Len(b) = 12 /\ StandsAt(U64(s), b, 0) /\ StandsAt(U32(12), b, 8)
  <2> DEFINE p == U32(12)
             q == U64(s)
  <2>1. q \in Seq(Byte) /\ 0 \in Nat /\ p \in Seq(Byte) /\ Len(p) = 4 /\ StandsAt(q, a, 0)
    BY <1>5, <1>6 DEF a
  <2>2. b = a \o p OBVIOUS
  <2> HIDE DEF b, p, q
  <2>3. /\ b \in Seq(Byte) /\ Len(b) = Len(a) + Len(p)
        /\ StandsAt(p, b, Len(a)) /\ StandsAt(q, b, 0)
    BY <1>5, <2>1, <2>2, Extended
  <2>4. Len(b) = 12 /\ StandsAt(p, b, 8) BY <1>5, <2>1, <2>3
  <2> QED BY <2>3, <2>4 DEF p, q
<1> HIDE DEF b
<1>8. /\ c \in Seq(Byte) /\ Len(c) = 12 + Len(f) /\ StandsAt(f, c, 12)
      /\ StandsAt(U64(s), c, 0) /\ StandsAt(U32(12), c, 8)
  <2>1. U64(s) \in Seq(Byte) /\ 0 \in Nat /\ 8 \in Nat BY <1>5 DEF a
  <2> QED BY <1>4, <1>6, <1>7, <2>1, Extended
<1> HIDE DEF c
<1>9. U64At(c, 0) = s BY <1>1, <1>8, ReadU64
<1>10. U32At(c, 8) = 12 BY <1>2, <1>8, ReadU32
<1>11. Slice(c, 12, Len(c)) = f BY <1>8 DEF StandsAt
<1>12. ~(Len(c) < 12) BY <1>4, <1>8, LenProperties
<1>13. DecodeLayer(c) = {[start_index |-> s, nodes |-> x] : x \in {nodes}}
  BY <1>4, <1>9, <1>10, <1>11, <1>12 DEF DecodeLayer
<1>14. DecodeLayer(c) = {layer} BY <1>1, <1>13
<1>15. Len(c) = LayerBytesLen(layer)
  <2>1. LayerBytesLen(layer) = 8 + 4 + HASH_LENGTH * Len(nodes)
    BY DEF LayerBytesLen, nodes
  <2>2. HASH_LENGTH * Len(nodes) \in Nat BY <1>4, LenProperties
  <2> QED BY <1>4, <1>8, <2>1, <2>2
<1> QED BY <1>3, <1>8, <1>14, <1>15

LEMMA WriteLayer ==
  ASSUME NEW b \in Seq(Byte), NEW layer, layer \in DecodeLayer(b)
  PROVE  layer \in Layers /\ EncodeLayer(layer) = b
<1>1. Len(b) \in Nat /\ 12 <= Len(b) /\ U32At(b, 8) = 12
  <2>1. Len(b) \in Nat BY LenProperties
  <2> QED BY <2>1 DEF DecodeLayer
<1>2. PICK nodes \in DecodeHashes(Slice(b, 12, Len(b))) :
             layer = [start_index |-> U64At(b, 0), nodes |-> nodes]
  BY <1>1 DEF DecodeLayer
<1> DEFINE s == U64At(b, 0)
           f == Slice(b, 12, Len(b))
<1>3. s \in U64Number /\ U64(s) = Slice(b, 0, 8)
  <2>1. 0 \in Nat /\ 0 + 8 = 8 /\ 0 + 8 <= Len(b) BY <1>1
  <2> QED BY <2>1, WriteU64
<1>4. U32(12) = Slice(b, 8, 12)
  <2>1. 8 \in Nat /\ 8 + 4 = 12 /\ 8 + 4 <= Len(b) BY <1>1
  <2> QED BY <1>1, <2>1, WriteU32
<1>5. f \in Seq(Byte) /\ Slice(b, 0, 12) \o f = Slice(b, 0, Len(b))
  <2>1. 12 \in Nat /\ Len(b) <= Len(b) BY <1>1
  <2> QED BY <1>1, <2>1, CutAt
<1>6. nodes \in Seq(Hashes) /\ FlattenSeq(nodes) = f
  <2> HIDE DEF f
  <2>1. nodes \in DecodeHashes(f) BY DEF f
  <2> QED BY <1>5, <2>1, WriteHashes
<1>7. Slice(b, 0, 8) \o Slice(b, 8, 12) = Slice(b, 0, 12)
  <2>1. 8 \in Nat /\ 12 \in Nat /\ 8 <= 12 OBVIOUS
  <2> QED BY <1>1, <2>1, CutAt
<1> HIDE DEF s, f
<1>8. layer.start_index = s /\ layer.nodes = nodes BY <1>2 DEF s
<1>9. EncodeLayer(layer) = (U64(s) \o U32(12)) \o FlattenSeq(nodes)
  BY <1>8 DEF EncodeLayer
<1>10. EncodeLayer(layer) = b
  BY <1>3, <1>4, <1>5, <1>6, <1>7, <1>9, SliceAll
<1>11. layer \in Layers BY <1>2, <1>3, <1>6 DEF Layers, s
<1> QED BY <1>10, <1>11

-------------------------------------------------------------------------------
(* Lists with offsets: where each item starts, and where the last one ends.   *)
Starts(items, o) ==
  /\ o[1] = 4 * Len(items)
  /\ \A i \in 1..Len(items) + 1 : o[i] \in Nat
  /\ \A i \in 1..Len(items) : o[i + 1] = o[i] + Len(items[i])

LEMMA StartsExist ==
  ASSUME NEW items \in Seq(Seq(Byte))
  PROVE  \E o : Starts(items, o)
<1> DEFINE n == Len(items)
           G == [i \in 1..n |-> [x \in Nat |-> x + Len(items[i])]]
<1>1. n \in Nat /\ \A i \in 1..n : Len(items[i]) \in Nat BY LenProperties, ElementOfSeq
<1> HIDE DEF n
<1>2. AreSteps(G, n, Nat) BY <1>1 DEF AreSteps
<1>3. 4 * n \in Nat BY <1>1
<1>4. PICK f \in [0..n -> Nat] : f[0] = 4 * n /\ \A i \in 1..n : f[i] = G[i][f[i - 1]]
  <2> DEFINE a == 4 * n
  <2> HIDE DEF G, a
  <2>1. Made(a, G, n, Nat) BY <1>1, <1>2, <1>3, StepByStep DEF a
  <2> QED BY <2>1 DEF Made, a
<1>5. ASSUME NEW i \in 1..n PROVE f[i] = f[i - 1] + Len(items[i])
  <2>1. f[i] = G[i][f[i - 1]] /\ f[i - 1] \in Nat
    <3>1. i - 1 \in 0..n BY <1>1
    <3> HIDE DEF G
    <3> QED BY <1>4, <3>1
  <2>2. G[i] = [x \in Nat |-> x + Len(items[i])] OBVIOUS
  <2> HIDE DEF G
  <2> QED BY <2>1, <2>2
<1> DEFINE o == [i \in 1..n + 1 |-> f[i - 1]]
<1>6. ASSUME NEW i \in 1..n + 1 PROVE o[i] = f[i - 1] /\ o[i] \in Nat
  <2>1. i - 1 \in 0..n BY <1>1
  <2> QED BY <2>1
<1>7. o[1] = 4 * n
  <2>1. 1 \in 1..n + 1 /\ 1 - 1 = 0 BY <1>1
  <2>2. o[1] = f[1 - 1] BY <1>6, <2>1
  <2> QED BY <1>4, <2>1, <2>2
<1>8. ASSUME NEW i \in 1..n PROVE o[i + 1] = o[i] + Len(items[i])
  <2>1. i \in 1..n + 1 /\ i + 1 \in 1..n + 1 /\ (i + 1) - 1 = i BY <1>1
  <2>2. o[i + 1] = f[(i + 1) - 1] /\ o[i] = f[i - 1] BY <1>6, <2>1
  <2> QED BY <1>5, <2>1, <2>2
<1> HIDE DEF o
<1>9. Starts(items, o) BY <1>6, <1>7, <1>8 DEF Starts, n
<1> QED BY <1>9

LEMMA EncodedList ==
  ASSUME NEW items \in Seq(Seq(Byte)), NEW o, Starts(items, o)
  PROVE  EncodeVariableList(items)
           = FlattenSeq([i \in 1..Len(items) |-> U32(o[i])]) \o FlattenSeq(items)
<1> DEFINE n == Len(items)
           Step(g) == [i \in 1..n |-> IF i = 1 THEN 4 * n ELSE g[i - 1] + Len(items[i - 1])]
           f == [i \in 1..n |-> o[i]]
           h == CHOOSE g : g = Step(g)
<1>1. n \in Nat BY LenProperties
<1>2. o[1] = 4 * n /\ \A i \in 1..n : o[i + 1] = o[i] + Len(items[i]) BY DEF Starts
<1>3. EncodeVariableList(items)
        = FlattenSeq([i \in 1..n |-> U32(h[i])]) \o FlattenSeq(items)
  BY DEF EncodeVariableList
<1> HIDE DEF n
<1>4. ASSUME NEW i \in 1..n PROVE f[i] = Step(f)[i]
  <2>1. CASE i = 1 BY <1>2, <2>1
  <2>2. CASE i # 1
    <3>1. i - 1 \in 1..n /\ (i - 1) + 1 = i BY <1>1, <2>2
    <3>2. o[(i - 1) + 1] = o[i - 1] + Len(items[i - 1]) BY <1>2, <3>1
    <3> QED BY <2>2, <3>1, <3>2
  <2> QED BY <2>1, <2>2
<1>5. f = Step(f)
  <2>1. Step(f) = [i \in 1..n |-> Step(f)[i]] /\ f = [i \in 1..n |-> f[i]] OBVIOUS
  <2> HIDE DEF Step, f
  <2> QED BY <1>4, <2>1
<1>6. h = Step(h)
  <2> HIDE DEF Step, f
  <2> QED BY <1>5
<1> HIDE DEF h
<1>7. n # 0 => h[1] = 4 * n
  <2> SUFFICES ASSUME n # 0 PROVE h[1] = 4 * n OBVIOUS
  <2>1. 1 \in 1..n BY <1>1
  <2>2. Step(h)[1] = 4 * n BY <2>1
  <2> QED BY <1>6, <2>2
<1>8. ASSUME NEW i \in 1..n, i # 1 PROVE h[i] = h[i - 1] + Len(items[i - 1])
  <2>1. Step(h)[i] = h[i - 1] + Len(items[i - 1]) BY <1>8
  <2> QED BY <1>6, <2>1
<1> DEFINE S == {i \in Nat : i + 1 <= n => h[i + 1] = o[i + 1]}
<1>9. 0 \in S BY <1>1, <1>2, <1>7
<1>10. ASSUME NEW i \in S PROVE i + 1 \in S
  <2> SUFFICES ASSUME (i + 1) + 1 <= n PROVE h[(i + 1) + 1] = o[(i + 1) + 1] OBVIOUS
  <2> DEFINE k == i + 1
  <2>1. k \in 1..n /\ k + 1 \in 1..n /\ k + 1 # 1 /\ (k + 1) - 1 = k /\ h[k] = o[k]
    BY <1>1
  <2> HIDE DEF k
  <2>2. h[k + 1] = h[(k + 1) - 1] + Len(items[(k + 1) - 1]) BY <1>8, <2>1
  <2>3. o[k + 1] = o[k] + Len(items[k]) BY <1>2, <2>1
  <2> QED BY <2>1, <2>2, <2>3 DEF k
<1>11. S = Nat
  <2>1. S \in SUBSET Nat OBVIOUS
  <2> HIDE DEF S
  <2> QED BY <1>9, <1>10, <2>1, Induction
<1>12. ASSUME NEW i \in 1..n PROVE h[i] = o[i]
  <2>1. i - 1 \in S
    <3>1. i - 1 \in Nat OBVIOUS
    <3> HIDE DEF S
    <3> QED BY <1>11, <3>1
  <2>2. (i - 1) + 1 = i /\ i <= n OBVIOUS
  <2> QED BY <2>1, <2>2
<1>13. [i \in 1..n |-> U32(h[i])] = [i \in 1..n |-> U32(o[i])] BY <1>12
<1> QED BY <1>3, <1>13 DEF n

LEMMA StandsAfter ==
  ASSUME NEW s \in Seq(Byte), NEW t \in Seq(Byte), NEW p \in Seq(Byte), NEW at, StandsAt(p, t, at)
  PROVE  StandsAt(p, s \o t, Len(s) + at)
<1> DEFINE u == s \o t
           a == Len(s)
           e == Len(s) + Len(t)
<1>1. u \in Seq(Byte) /\ Len(u) = e /\ a \in Nat /\ Len(t) \in Nat /\ Len(p) \in Nat
  BY Extended, LenProperties
<1>2. at \in Nat /\ at + Len(p) <= Len(t) /\ Slice(t, at, at + Len(p)) = p BY DEF StandsAt
<1>3. Slice(u, a, e) = t BY StandsRight DEF StandsAt
<1> HIDE DEF u
<1>4. e \in Nat /\ IsSlice(u, a, e) /\ at + Len(p) \in Nat /\ at <= at + Len(p)
      /\ at + Len(p) <= e - a
  BY <1>1, <1>2 DEF IsSlice
<1> HIDE DEF a, e
<1>5. Slice(Slice(u, a, e), at, at + Len(p)) = Slice(u, a + at, a + (at + Len(p)))
  BY <1>1, <1>2, <1>4, SliceOfSlice
<1>6. a + (at + Len(p)) = (a + at) + Len(p) /\ a + at \in Nat /\ (a + at) + Len(p) <= e
  BY <1>1, <1>2, <1>4
<1> QED BY <1>1, <1>2, <1>3, <1>5, <1>6 DEF StandsAt, u, a

(* The bytes of the offsets, and those of the items behind them.              *)
LEMMA ListBytes ==
  ASSUME NEW items \in Seq(Seq(Byte)), NEW o, Starts(items, o)
  PROVE  LET n == Len(items)
             e == EncodeVariableList(items)
         IN  /\ e \in Seq(Byte) /\ Len(e) = o[n + 1] /\ n \in Nat /\ Places(o, n)
             /\ o[1] = 4 * n
             /\ \A i \in 1..n : /\ items[i] \in Seq(Byte)
                                /\ o[i + 1] = o[i] + Len(items[i])
                                /\ StandsAt(U32(o[i]), e, 4 * (i - 1))
                                /\ StandsAt(items[i], e, o[i])
<1> DEFINE n == Len(items)
           e == EncodeVariableList(items)
           heads == [i \in 1..n |-> U32(o[i])]
           k == [i \in 1..n + 1 |-> 4 * (i - 1)]
           m == [i \in 1..n + 1 |-> o[i] - 4 * n]
           H == FlattenSeq(heads)
           P == FlattenSeq(items)
<1>1. n \in Nat /\ \A i \in 1..n : items[i] \in Seq(Byte) /\ Len(items[i]) \in Nat
  BY LenProperties, ElementOfSeq
<1>2. /\ o[1] = 4 * n
      /\ \A i \in 1..n + 1 : o[i] \in Nat
      /\ \A i \in 1..n : o[i + 1] = o[i] + Len(items[i])
  BY DEF Starts
<1>3. e = H \o P BY EncodedList
<1> HIDE DEF n, e
<1>4. ASSUME NEW i \in 1..n PROVE U32(o[i]) \in Seq(Byte) /\ Len(U32(o[i])) = 4
  <2>1. i \in 1..n + 1 BY <1>1
  <2> QED BY <1>2, <2>1, U32Bytes
<1>5. heads \in Seq(Seq(Byte)) /\ Len(heads) = n
  <2> DEFINE T == Seq(Byte)
  <2>1. heads \in [1..n -> T] BY <1>4
  <2> HIDE DEF T, heads
  <2> QED BY <1>1, <2>1, LenIs DEF T
<1>6. k[1] = 0 /\ k[n + 1] = 4 * n
  <2>1. 1 \in 1..n + 1 /\ n + 1 \in 1..n + 1 /\ (n + 1) - 1 = n BY <1>1
  <2> QED BY <2>1
<1>7. ASSUME NEW i \in 1..n
      PROVE  k[i + 1] = k[i] + Len(heads[i]) /\ k[i] = 4 * (i - 1) /\ heads[i] = U32(o[i])
  <2>1. i \in 1..n + 1 /\ i + 1 \in 1..n + 1 BY <1>1
  <2>2. k[i + 1] = 4 * ((i + 1) - 1) /\ k[i] = 4 * (i - 1) BY <2>1
  <2>3. heads[i] = U32(o[i]) /\ Len(heads[i]) = 4 BY <1>4
  <2> HIDE DEF k, heads
  <2> QED BY <2>2, <2>3
<1> HIDE DEF k, heads, H
<1>8. /\ H \in Seq(Byte) /\ Len(H) = 4 * n
      /\ \A i \in 1..n : StandsAt(U32(o[i]), H, 4 * (i - 1))
  <2>1. \A i \in 1..Len(heads) : k[i + 1] = k[i] + Len(heads[i]) BY <1>5, <1>7
  <2>2. /\ H \in Seq(Byte) /\ Len(H) = k[Len(heads) + 1]
        /\ \A i \in 1..Len(heads) : StandsAt(heads[i], H, k[i])
    BY <1>5, <1>6, <2>1, SlicesOfJoin DEF H
  <2> QED BY <1>5, <1>6, <1>7, <2>2
<1>9. m[1] = 0 /\ m[n + 1] = o[n + 1] - 4 * n
  <2>1. 1 \in 1..n + 1 /\ n + 1 \in 1..n + 1 BY <1>1
  <2>2. m[1] = o[1] - 4 * n /\ m[n + 1] = o[n + 1] - 4 * n BY <2>1
  <2> QED BY <1>1, <1>2, <2>2
<1>10. ASSUME NEW i \in 1..n
       PROVE  m[i + 1] = m[i] + Len(items[i]) /\ m[i] = o[i] - 4 * n
  <2>1. i \in 1..n + 1 /\ i + 1 \in 1..n + 1 BY <1>1
  <2>2. m[i + 1] = o[i + 1] - 4 * n /\ m[i] = o[i] - 4 * n BY <2>1
  <2>3. o[i] \in Nat /\ o[i + 1] = o[i] + Len(items[i]) /\ Len(items[i]) \in Nat
    BY <1>1, <1>2, <2>1
  <2> QED BY <1>1, <2>2, <2>3
<1> HIDE DEF m, P
<1>11. /\ P \in Seq(Byte) /\ Len(P) = o[n + 1] - 4 * n
       /\ \A i \in 1..n : StandsAt(items[i], P, o[i] - 4 * n)
  <2>1. /\ P \in Seq(Byte) /\ Len(P) = m[n + 1]
        /\ \A i \in 1..n : StandsAt(items[i], P, m[i])
    BY <1>9, <1>10, SlicesOfJoin DEF P, n
  <2> QED BY <1>9, <1>10, <2>1
<1>12. e \in Seq(Byte) /\ Len(e) = o[n + 1]
  <2>1. n + 1 \in 1..n + 1 BY <1>1
  <2>2. o[n + 1] \in Nat BY <1>2, <2>1
  <2>3. e \in Seq(Byte) /\ Len(e) = Len(H) + Len(P) BY <1>3, <1>8, <1>11, Extended
  <2> QED BY <1>1, <1>8, <1>11, <2>2, <2>3
<1>13. ASSUME NEW i \in 1..n
       PROVE  StandsAt(U32(o[i]), e, 4 * (i - 1)) /\ StandsAt(items[i], e, o[i])
  <2>1. i \in 1..n + 1 BY <1>1
  <2>2. o[i] \in Nat BY <1>2, <2>1
  <2>3. StandsAt(U32(o[i]), e, 4 * (i - 1))
    BY <1>3, <1>4, <1>8, <1>11, StandsLeft
  <2>4. StandsAt(items[i], e, Len(H) + (o[i] - 4 * n))
    BY <1>1, <1>3, <1>8, <1>11, StandsAfter
  <2>5. Len(H) + (o[i] - 4 * n) = o[i] BY <1>1, <1>8, <2>2
  <2> QED BY <2>3, <2>4, <2>5
<1>14. Places(o, n)
  <2>1. ASSUME NEW i \in 1..n PROVE o[i] <= o[i + 1]
    <3>1. i \in 1..n + 1 BY <1>1
    <3>2. o[i] \in Nat /\ o[i + 1] = o[i] + Len(items[i]) /\ Len(items[i]) \in Nat
      BY <1>1, <1>2, <3>1
    <3> QED BY <3>2
  <2> QED BY <1>2, <2>1 DEF Places
<1> QED BY <1>1, <1>2, <1>12, <1>13, <1>14 DEF n, e

(* A list is read from its bytes, if they are few enough for offsets.         *)
LEMMA ReadList ==
  ASSUME NEW items \in Seq(Seq(Byte)), NEW o, Starts(items, o),
         o[Len(items) + 1] \in Epoch
  PROVE  VariableItems(EncodeVariableList(items)) = {items}
<1> DEFINE n == Len(items)
           e == EncodeVariableList(items)
<1>1. /\ e \in Seq(Byte) /\ Len(e) = o[n + 1] /\ n \in Nat /\ Places(o, n)
      /\ o[1] = 4 * n
      /\ \A i \in 1..n : /\ items[i] \in Seq(Byte)
                         /\ o[i + 1] = o[i] + Len(items[i])
                         /\ StandsAt(U32(o[i]), e, 4 * (i - 1))
                         /\ StandsAt(items[i], e, o[i])
  BY ListBytes
<1>2. /\ \A i \in 1..n + 1 : o[i] \in Nat
      /\ \A i \in 1..n : o[i] <= o[i + 1]
  BY <1>1 DEF Places
<1>3. items = [i \in 1..n |-> items[i]] BY LenProperties
<1>4. o[n + 1] \in Epoch /\ o[n + 1] \in Nat /\ o[n + 1] < U32Range
  BY EpochNat DEF Epoch
<1> HIDE DEF n, e
<1>5. CASE n = 0
  <2>1. Len(e) = 0 BY <1>1, <1>5
  <2>2. e = << >> BY <1>1, <2>1, EmptySeq
  <2>3. items = << >> BY <1>3, <1>5, EmptySeq DEF n
  <2> QED BY <2>2, <2>3 DEF VariableItems, e
<1>6. CASE n # 0
  <2>1. \A i \in 1..n + 1 : o[1] <= o[i] /\ o[i] <= o[n + 1] BY <1>1, PlacesBetween
  <2>2. ASSUME NEW i \in 1..n PROVE U32At(e, 4 * (i - 1)) = o[i]
    <3>1. i \in 1..n + 1 /\ n + 1 \in 1..n + 1 BY <1>1
    <3>2. o[i] \in Nat /\ o[i] <= o[n + 1] BY <1>2, <2>1, <3>1
    <3>3. o[i] \in Epoch BY <1>4, <3>2, EpochNat DEF Epoch
    <3> QED BY <1>1, <3>3, ReadU32
  <2> DEFINE first == U32At(e, 0)
             c == first \div 4
             offset == [i \in 1..c + 1 |-> IF i <= c THEN U32At(e, 4 * (i - 1)) ELSE Len(e)]
  <2>3. first = 4 * n
    <3>1. 1 \in 1..n /\ 4 * (1 - 1) = 0 BY <1>1, <1>6
    <3>2. U32At(e, 4 * (1 - 1)) = o[1] BY <2>2, <3>1
    <3> QED BY <1>1, <3>1, <3>2
  <2> HIDE DEF first
  <2>4. c = n /\ first % 4 = 0 /\ ~(first < 4) BY <1>1, <1>6, <2>3
  <2>5. ~(first > Len(e)) /\ ~(Len(e) < 4)
    <3>1. n + 1 \in 1..n + 1 BY <1>1
    <3>2. o[1] <= o[n + 1] BY <2>1, <3>1
    <3> QED BY <1>1, <1>4, <1>6, <2>3, <3>2
  <2>6. e # << >>
    <3>1. Len(<< >>) = 0 OBVIOUS
    <3> QED BY <2>5, <3>1
  <2> HIDE DEF c
  <2>7. ASSUME NEW i \in 1..n PROVE offset[i] = o[i] /\ offset[i + 1] = o[i + 1]
    <3>1. i \in 1..c + 1 /\ i + 1 \in 1..c + 1 /\ i <= c BY <1>1, <2>4
    <3>2. offset[i] = o[i] BY <2>2, <3>1
    <3>3. CASE i + 1 <= c
      <4>1. i + 1 \in 1..n BY <1>1, <2>4, <3>3
      <4>2. offset[i + 1] = U32At(e, 4 * ((i + 1) - 1)) BY <3>1, <3>3
      <4> QED BY <2>2, <3>2, <4>1, <4>2
    <3>4. CASE ~(i + 1 <= c)
      <4>1. offset[i + 1] = Len(e) BY <3>1, <3>4
      <4>2. i + 1 = n + 1 BY <1>1, <2>4, <3>4
      <4> QED BY <1>1, <3>2, <4>1, <4>2
    <3> QED BY <3>3, <3>4
  <2>8. ASSUME NEW i \in 1..n
        PROVE  ~(offset[i] > offset[i + 1]) /\ Slice(e, offset[i], offset[i + 1]) = items[i]
    <3>1. i \in 1..n + 1 /\ i + 1 \in 1..n + 1 BY <1>1
    <3>2. o[i] \in Nat /\ o[i + 1] \in Nat /\ o[i] <= o[i + 1] BY <1>2, <3>1
    <3>3. Slice(e, o[i], o[i + 1]) = items[i] BY <1>1 DEF StandsAt
    <3> HIDE DEF offset
    <3> QED BY <2>7, <3>2, <3>3
  <2>9. VariableItems(e) = {[i \in 1..c |-> Slice(e, offset[i], offset[i + 1])]}
    <3>1. ~ \E i \in 1..c : offset[i] > offset[i + 1] BY <2>4, <2>8
    <3> QED BY <2>4, <2>5, <2>6, <3>1 DEF VariableItems, first, c
  <2>10. [i \in 1..c |-> Slice(e, offset[i], offset[i + 1])] = [i \in 1..n |-> items[i]]
    <3> HIDE DEF offset
    <3> QED BY <2>4, <2>8
  <2> QED BY <1>3, <2>9, <2>10 DEF e
<1> QED BY <1>5, <1>6

(* Bytes that are read as a list are those of that list.                      *)
LEMMA WriteList ==
  ASSUME NEW b \in Seq(Byte), NEW items, items \in VariableItems(b)
  PROVE  /\ items \in Seq(Seq(Byte)) /\ items = [i \in 1..Len(items) |-> items[i]]
         /\ EncodeVariableList(items) = b
<1> DEFINE first == U32At(b, 0)
           n == first \div 4
           o == [i \in 1..n + 1 |-> IF i <= n THEN U32At(b, 4 * (i - 1)) ELSE Len(b)]
<1>0. Len(b) \in Nat BY LenProperties
<1>1. CASE b = << >>
  <2>1. items = << >> BY <1>1 DEF VariableItems
  <2>2. items \in Seq(Seq(Byte)) /\ Len(items) = 0 BY <2>1, EmptySeq
  <2>3. PICK s : Starts(items, s) BY <2>2, StartsExist
  <2>4. /\ EncodeVariableList(items) \in Seq(Byte)
        /\ Len(EncodeVariableList(items)) = s[Len(items) + 1]
        /\ s[1] = 4 * Len(items)
    BY <2>2, <2>3, ListBytes
  <2>5. Len(EncodeVariableList(items)) = 0 BY <2>2, <2>4
  <2>6. EncodeVariableList(items) = b BY <1>1, <2>4, <2>5, EmptySeq
  <2> QED BY <2>2, <2>6, LenProperties
<1>2. CASE b # << >>
  <2>1. Len(b) >= 4
    <3> SUFFICES ASSUME Len(b) < 4 PROVE FALSE BY <1>0
    <3> QED BY <1>2 DEF VariableItems
  <2>2. first \in Nat
    <3>1. 0 \in Nat /\ 0 + 4 <= Len(b) BY <2>1, <1>0
    <3> QED BY <3>1, WriteU32, EpochNat
  <2>3. ~(first < 4 \/ first % 4 # 0 \/ first > Len(b))
    <3>1. ~(Len(b) < 4) BY <1>0, <2>1
    <3> QED BY <1>2, <3>1 DEF VariableItems
  <2>4. ~ \E i \in 1..n : o[i] > o[i + 1]
    <3>1. ~(Len(b) < 4) BY <1>0, <2>1
    <3> QED BY <1>2, <2>3, <3>1 DEF VariableItems
  <2>5. items = [i \in 1..n |-> Slice(b, o[i], o[i + 1])]
    <3>1. ~(Len(b) < 4) BY <1>0, <2>1
    <3> QED BY <1>2, <2>3, <2>4, <3>1 DEF VariableItems
  <2>6. n \in Nat /\ n # 0 /\ first = 4 * n /\ 4 * n <= Len(b)
    <3>1. first % 4 = 0 /\ first >= 4 /\ first <= Len(b) BY <1>0, <2>2, <2>3
    <3> HIDE DEF first
    <3> QED BY <1>0, <2>2, <3>1
  <2> HIDE DEF n
  <2>7. ASSUME NEW i \in 1..n
        PROVE  /\ o[i] = U32At(b, 4 * (i - 1)) /\ o[i] \in Nat
               /\ U32(o[i]) = Slice(b, 4 * (i - 1), 4 * i)
    <3>1. i \in 1..n + 1 /\ i <= n /\ 4 * (i - 1) \in Nat /\ 4 * (i - 1) + 4 = 4 * i
          /\ 4 * (i - 1) + 4 <= Len(b)
      BY <1>0, <2>6
    <3>2. o[i] = U32At(b, 4 * (i - 1)) BY <3>1
    <3>3. /\ U32At(b, 4 * (i - 1)) \in Epoch
          /\ U32(U32At(b, 4 * (i - 1))) = Slice(b, 4 * (i - 1), 4 * (i - 1) + 4)
      BY <3>1, WriteU32
    <3> QED BY <3>1, <3>2, <3>3, EpochNat
  <2>8. o[n + 1] = Len(b)
    <3>1. n + 1 \in 1..n + 1 /\ ~(n + 1 <= n) BY <2>6
    <3> QED BY <3>1
  <2>9. o[1] = 4 * n
    <3>1. 1 \in 1..n /\ 4 * (1 - 1) = 0 BY <2>6
    <3>2. o[1] = U32At(b, 4 * (1 - 1)) BY <2>7, <3>1
    <3> QED BY <2>6, <3>1, <3>2
  <2> HIDE DEF o
  <2>10. Places(o, n)
    <3>1. ASSUME NEW i \in 1..n + 1 PROVE o[i] \in Nat
      <4>1. i \in 1..n \/ i = n + 1 BY <2>6
      <4> QED BY <1>0, <2>7, <2>8, <4>1
    <3>2. ASSUME NEW i \in 1..n PROVE o[i] <= o[i + 1]
      <4>1. i \in 1..n + 1 /\ i + 1 \in 1..n + 1 BY <2>6
      <4>2. o[i] \in Nat /\ o[i + 1] \in Nat BY <3>1, <4>1
      <4> QED BY <2>4, <4>2
    <3> QED BY <3>1, <3>2 DEF Places
  <2>11. o[n + 1] <= Len(b) BY <1>0, <2>8
  <2>12. /\ items \in Seq(Seq(Byte)) /\ Len(items) = n
         /\ \A i \in 1..n : Len(items[i]) = o[i + 1] - o[i]
         /\ FlattenSeq(items) = Slice(b, o[1], o[n + 1])
    <3>1. n \in Nat BY <2>6
    <3> HIDE DEF first
    <3>2. /\ items \in Seq(Seq(Byte)) /\ Len(items) = n
          /\ FlattenSeq(items) = Slice(b, o[1], o[n + 1])
      BY <2>5, <2>10, <2>11, <3>1, JoinOfSlices
    <3>3. ASSUME NEW i \in 1..n PROVE Len(items[i]) = o[i + 1] - o[i]
      <4>1. \A j \in 1..n + 1 : o[1] <= o[j] /\ o[j] <= o[n + 1]
        BY <2>10, <3>1, PlacesBetween
      <4>2. i \in 1..n + 1 /\ i + 1 \in 1..n + 1 BY <2>6
      <4>3. o[i] \in Nat /\ o[i + 1] \in Nat /\ o[i] <= o[i + 1]
        BY <2>10, <4>2 DEF Places
      <4>4. IsSlice(b, o[i], o[i + 1]) BY <2>8, <4>1, <4>2, <4>3 DEF IsSlice
      <4>5. Len(Slice(b, o[i], o[i + 1])) = o[i + 1] - o[i] BY <4>3, <4>4, SliceOf
      <4>6. items[i] = Slice(b, o[i], o[i + 1]) BY <2>5
      <4> QED BY <4>5, <4>6
    <3> QED BY <3>2, <3>3
  <2>13. Starts(items, o)
    <3>1. ASSUME NEW i \in 1..n PROVE o[i + 1] = o[i] + Len(items[i])
      <4>1. i \in 1..n + 1 /\ i + 1 \in 1..n + 1 BY <2>6
      <4>2. o[i] \in Nat /\ o[i + 1] \in Nat BY <2>10, <4>1 DEF Places
      <4>3. Len(items[i]) = o[i + 1] - o[i] BY <2>12
      <4> QED BY <4>2, <4>3
    <3> QED BY <2>9, <2>10, <2>12, <3>1 DEF Starts, Places
  <2> DEFINE heads == [i \in 1..n |-> U32(o[i])]
             k == [i \in 1..n + 1 |-> 4 * (i - 1)]
  <2>14. k[1] = 0 /\ k[n + 1] = 4 * n
    <3>1. 1 \in 1..n + 1 /\ n + 1 \in 1..n + 1 /\ (n + 1) - 1 = n BY <2>6
    <3> QED BY <3>1
  <2>15. Places(k, n)
    <3>1. ASSUME NEW i \in 1..n + 1 PROVE k[i] \in Nat OBVIOUS
    <3>2. ASSUME NEW i \in 1..n PROVE k[i] <= k[i + 1]
      <4>1. i \in 1..n + 1 /\ i + 1 \in 1..n + 1 BY <2>6
      <4>2. k[i] = 4 * (i - 1) /\ k[i + 1] = 4 * ((i + 1) - 1) BY <4>1
      <4> QED BY <4>2
    <3> HIDE DEF k
    <3> QED BY <3>1, <3>2 DEF Places
  <2>16. heads = [i \in 1..n |-> Slice(b, k[i], k[i + 1])]
    <3>1. ASSUME NEW i \in 1..n PROVE U32(o[i]) = Slice(b, k[i], k[i + 1])
      <4>1. i \in 1..n + 1 /\ i + 1 \in 1..n + 1 /\ (i + 1) - 1 = i BY <2>6
      <4>2. k[i] = 4 * (i - 1) /\ k[i + 1] = 4 * i BY <4>1
      <4> HIDE DEF k
      <4> QED BY <2>7, <4>2
    <3> HIDE DEF k
    <3> QED BY <3>1
  <2> HIDE DEF heads, k
  <2>17. FlattenSeq(heads) = Slice(b, 0, 4 * n)
    <3>1. k[n + 1] <= Len(b) BY <2>6, <2>14
    <3>2. FlattenSeq(heads) = Slice(b, k[1], k[n + 1])
      BY <2>6, <2>15, <2>16, <3>1, JoinOfSlices
    <3> QED BY <2>14, <3>2
  <2>18. Slice(b, 0, 4 * n) \o Slice(b, 4 * n, Len(b)) = Slice(b, 0, Len(b))
    <3>1. 4 * n \in Nat /\ Len(b) <= Len(b) BY <1>0, <2>6
    <3> QED BY <1>0, <2>6, <3>1, CutAt
  <2>19. EncodeVariableList(items) = FlattenSeq(heads) \o FlattenSeq(items)
    BY <2>12, <2>13, EncodedList DEF heads
  <2>20. EncodeVariableList(items) = b
    BY <2>8, <2>9, <2>12, <2>17, <2>18, <2>19, SliceAll
  <2> QED BY <2>5, <2>12, <2>20
<1> QED BY <1>1, <1>2

-------------------------------------------------------------------------------
(* HashSubTree                                                                *)
EncodedLayers(layers) == [l \in 1..Len(layers) |-> EncodeLayer(layers[l])]

LEMMA LayersInBytes ==
  ASSUME NEW layers \in Seq(Layers)
  PROVE  /\ EncodedLayers(layers) \in Seq(Seq(Byte))
         /\ Len(EncodedLayers(layers)) = Len(layers) /\ Len(layers) \in Nat
         /\ \A l \in 1..Len(layers) :
              /\ EncodedLayers(layers)[l] = EncodeLayer(layers[l])
              /\ Len(EncodedLayers(layers)[l]) = LayerBytesLen(layers[l])
              /\ layers[l] \in Layers
<1> DEFINE n == Len(layers)
           items == EncodedLayers(layers)
           T == Seq(Byte)
<1>1. n \in Nat /\ \A l \in 1..n : layers[l] \in Layers BY LenProperties, ElementOfSeq
<1>2. items = [l \in 1..n |-> EncodeLayer(layers[l])] BY DEF EncodedLayers
<1> HIDE DEF n, items
<1>3. ASSUME NEW l \in 1..n
      PROVE  items[l] = EncodeLayer(layers[l]) /\ items[l] \in T
             /\ Len(items[l]) = LayerBytesLen(layers[l])
  BY <1>1, <1>2, ReadLayer
<1> HIDE DEF T
<1>4. items \in [1..n -> T] BY <1>2, <1>3
<1>5. items \in Seq(T) /\ Len(items) = n BY <1>1, <1>4, LenIs
<1> QED BY <1>1, <1>3, <1>5 DEF T, n, items

(* The sum of the lengths of the layers is where the last of them ends.       *)
LEMMA SumOfLayers ==
  ASSUME NEW tree, NEW layers \in Seq(Layers), tree.layers = layers,
         NEW o, Starts(EncodedLayers(layers), o)
  PROVE  SubTreeBytesLen(tree) = 20 + o[Len(layers) + 1]
<1> DEFINE n == Len(layers)
           items == EncodedLayers(layers)
           Step(g) == [l \in 0..n |->
                         IF l = 0 THEN 8 + 8 + 4 ELSE g[l - 1] + 4 + LayerBytesLen(layers[l])]
           f == [l \in 0..n |-> 20 + 4 * l + (o[l + 1] - 4 * n)]
           h == CHOOSE g : g = Step(g)
<1>1. /\ items \in Seq(Seq(Byte)) /\ Len(items) = n /\ n \in Nat
      /\ \A l \in 1..n : Len(items[l]) = LayerBytesLen(layers[l])
  BY LayersInBytes
<1>2. SubTreeBytesLen(tree) = h[n] BY DEF SubTreeBytesLen
<1>3. /\ o[1] = 4 * n
      /\ \A l \in 1..n + 1 : o[l] \in Nat
      /\ \A l \in 1..n : o[l + 1] = o[l] + LayerBytesLen(layers[l])
  BY <1>1 DEF Starts
<1> HIDE DEF n, items
<1>4. ASSUME NEW l \in 0..n PROVE f[l] = Step(f)[l]
  <2>1. CASE l = 0
    <3>1. f[l] = 20 + 4 * 0 + (o[0 + 1] - 4 * n) BY <2>1
    <3>2. f[l] = 20 BY <1>1, <1>3, <3>1
    <3> QED BY <2>1, <3>2
  <2>2. CASE l # 0
    <3>1. l \in 1..n /\ l \in 1..n + 1 /\ l + 1 \in 1..n + 1 /\ l - 1 \in 0..n
          /\ (l - 1) + 1 = l
      BY <1>1, <2>2
    <3>2. /\ f[l] = 20 + 4 * l + (o[l + 1] - 4 * n)
          /\ f[l - 1] = 20 + 4 * (l - 1) + (o[l] - 4 * n)
      BY <3>1
    <3>3. Step(f)[l] = f[l - 1] + 4 + LayerBytesLen(layers[l]) BY <2>2, <3>1
    <3>4. /\ o[l + 1] = o[l] + LayerBytesLen(layers[l]) /\ o[l] \in Nat
          /\ LayerBytesLen(layers[l]) \in Nat
      <4>1. items[l] \in Seq(Byte) /\ LayerBytesLen(layers[l]) = Len(items[l])
        BY <1>1, <3>1, ElementOfSeq
      <4> QED BY <1>3, <3>1, <4>1, LenProperties
    <3> HIDE DEF f, Step
    <3> QED BY <1>1, <3>1, <3>2, <3>3, <3>4
  <2> QED BY <2>1, <2>2
<1>5. f = Step(f)
  <2>1. Step(f) = [l \in 0..n |-> Step(f)[l]] /\ f = [l \in 0..n |-> f[l]] OBVIOUS
  <2> HIDE DEF Step, f
  <2> QED BY <1>4, <2>1
<1>6. h = Step(h)
  <2> HIDE DEF Step, f
  <2> QED BY <1>5
<1> HIDE DEF h
<1>7. h[0] = 20
  <2>1. 0 \in 0..n BY <1>1
  <2>2. Step(h)[0] = 20 BY <2>1
  <2> HIDE DEF Step
  <2> QED BY <1>6, <2>2
<1>8. ASSUME NEW l \in 1..n PROVE h[l] = h[l - 1] + 4 + LayerBytesLen(layers[l])
  <2>1. l \in 0..n /\ l # 0 OBVIOUS
  <2>2. Step(h)[l] = h[l - 1] + 4 + LayerBytesLen(layers[l]) BY <2>1
  <2> QED BY <1>6, <2>2
<1> DEFINE S == {l \in Nat : l <= n => h[l] = f[l]}
<1>9. f[0] = 20
  <2>1. 0 \in 0..n BY <1>1
  <2>2. f[0] = 20 + 4 * 0 + (o[0 + 1] - 4 * n) BY <2>1
  <2> QED BY <1>1, <1>3, <2>2
<1>10. ASSUME NEW l \in 1..n PROVE f[l] = f[l - 1] + 4 + LayerBytesLen(layers[l])
  <2>1. l \in 0..n /\ l # 0 OBVIOUS
  <2>2. Step(f)[l] = f[l - 1] + 4 + LayerBytesLen(layers[l]) BY <2>1
  <2> HIDE DEF f, Step
  <2> QED BY <1>4, <2>1, <2>2
<1>11. 0 \in S BY <1>7, <1>9
<1>12. ASSUME NEW l \in S PROVE l + 1 \in S
  <2> SUFFICES ASSUME l + 1 <= n PROVE h[l + 1] = f[l + 1] OBVIOUS
  <2>1. l + 1 \in 1..n /\ (l + 1) - 1 = l /\ h[l] = f[l] BY <1>1
  <2> HIDE DEF f
  <2> QED BY <1>8, <1>10, <2>1
<1>13. S = Nat
  <2>1. S \in SUBSET Nat OBVIOUS
  <2> HIDE DEF S
  <2> QED BY <1>11, <1>12, <2>1, Induction
<1>14. h[n] = f[n]
  <2>1. n \in S BY <1>1, <1>13
  <2>2. n <= n BY <1>1
  <2> QED BY <2>1, <2>2
<1>15. f[n] = 20 + o[n + 1]
  <2>1. n \in 0..n /\ n + 1 \in 1..n + 1 BY <1>1
  <2>2. f[n] = 20 + 4 * n + (o[n + 1] - 4 * n) BY <2>1
  <2>3. o[n + 1] \in Nat BY <1>3, <2>1
  <2> HIDE DEF f
  <2> QED BY <1>1, <2>2, <2>3
<1> QED BY <1>2, <1>14, <1>15 DEF n

LEMMA ReadLayers ==
  ASSUME NEW layers \in Seq(Layers), NEW o, Starts(EncodedLayers(layers), o),
         o[Len(layers) + 1] \in Epoch
  PROVE  DecodeLayers(EncodeVariableList(EncodedLayers(layers))) = {layers}
<1> DEFINE n == Len(layers)
           items == EncodedLayers(layers)
           b == EncodeVariableList(items)
           d == [i \in 1..n |-> DecodeLayer(items[i])]
<1>1. /\ items \in Seq(Seq(Byte)) /\ Len(items) = n /\ n \in Nat
      /\ \A l \in 1..n : items[l] = EncodeLayer(layers[l]) /\ layers[l] \in Layers
  BY LayersInBytes
<1>2. DOMAIN items = 1..n /\ layers = [l \in 1..n |-> layers[l]]
  BY LenProperties DEF EncodedLayers
<1>3. VariableItems(b) = {items}
  <2>1. o[Len(items) + 1] \in Epoch BY <1>1
  <2> HIDE DEF items
  <2> QED BY <1>1, <2>1, ReadList DEF items
<1> HIDE DEF n, items, b
<1>4. DecodeLayers(b) = AllDecoded(d) BY <1>2, <1>3 DEF DecodeLayers
<1>5. d = [l \in 1..n |-> {layers[l]}]
  <2>1. \A l \in 1..n : DecodeLayer(items[l]) = {layers[l]} BY <1>1, ReadLayer
  <2> QED BY <2>1
<1> HIDE DEF d
<1>6. AllDecoded(d) = {layers} BY <1>2, <1>5, OneValueEach
<1> QED BY <1>4, <1>6 DEF b, items

LEMMA WriteLayers ==
  ASSUME NEW b \in Seq(Byte), NEW layers, layers \in DecodeLayers(b)
  PROVE  layers \in Seq(Layers) /\ EncodeVariableList(EncodedLayers(layers)) = b
<1>1. PICK items \in VariableItems(b) :
             layers \in AllDecoded([i \in DOMAIN items |-> DecodeLayer(items[i])])
  BY DEF DecodeLayers
<1> DEFINE n == Len(items)
           d == [i \in DOMAIN items |-> DecodeLayer(items[i])]
<1>2. /\ items \in Seq(Seq(Byte)) /\ items = [i \in 1..n |-> items[i]]
      /\ EncodeVariableList(items) = b
  BY WriteList
<1>3. n \in Nat /\ DOMAIN items = 1..n /\ \A i \in 1..n : items[i] \in Seq(Byte)
  BY <1>2, LenProperties, ElementOfSeq
<1> HIDE DEF n
<1>4. layers = [i \in 1..n |-> layers[i]] /\ \A i \in 1..n : layers[i] \in d[i]
  <2>1. layers \in AllDecoded(d) /\ DOMAIN d = 1..n BY <1>1, <1>3
  <2> HIDE DEF d
  <2> QED BY <2>1, ValueOfEach
<1>5. ASSUME NEW i \in 1..n PROVE layers[i] \in Layers /\ EncodeLayer(layers[i]) = items[i]
  <2>1. layers[i] \in DecodeLayer(items[i]) BY <1>3, <1>4
  <2> QED BY <1>3, <2>1, WriteLayer
<1>6. layers \in Seq(Layers) /\ Len(layers) = n
  <2>1. layers \in [1..n -> Layers] BY <1>4, <1>5
  <2> QED BY <1>3, <2>1, LenIs
<1>7. EncodedLayers(layers) = items BY <1>2, <1>5, <1>6 DEF EncodedLayers
<1> QED BY <1>2, <1>6, <1>7

LEMMA EncodedSubTree ==
  ASSUME NEW tree
  PROVE  EncodeSubTree(tree)
           = ((U64(tree.depth) \o U64(tree.lowest_layer)) \o U32(20))
               \o EncodeVariableList(EncodedLayers(tree.layers))
BY DEF EncodeSubTree, EncodedLayers

(* Where the parts of an encoded tree stand.                                  *)
LEMMA SubTreeParts ==
  ASSUME NEW tree \in SubTrees
  PROVE  LET e == EncodeSubTree(tree)
             b == EncodeVariableList(EncodedLayers(tree.layers))
         IN  /\ e \in Seq(Byte) /\ Len(e) = SubTreeBytesLen(tree)
             /\ b \in Seq(Byte) /\ Len(e) = 20 + Len(b) /\ Slice(e, 20, Len(e)) = b
             /\ StandsAt(U64(tree.depth), e, 0) /\ StandsAt(U64(tree.lowest_layer), e, 8)
             /\ StandsAt(U32(20), e, 16)
<1> DEFINE x == U64(tree.depth)
           y == U64(tree.lowest_layer)
           z == U32(20)
           b == EncodeVariableList(EncodedLayers(tree.layers))
           xy == x \o y
           xyz == xy \o z
           e == xyz \o b
<1>1. tree.depth \in Nat /\ tree.lowest_layer \in Nat /\ tree.layers \in Seq(Layers)
  BY EpochNat DEF SubTrees
<1>2. /\ x \in Seq(Byte) /\ Len(x) = 8 /\ y \in Seq(Byte) /\ Len(y) = 8
      /\ z \in Seq(Byte) /\ Len(z) = 4
  <2>1. 20 \in Nat OBVIOUS
  <2> QED BY <1>1, <2>1, U32Bytes, U64Bytes
<1>3. PICK o : Starts(EncodedLayers(tree.layers), o)
  BY <1>1, LayersInBytes, StartsExist
<1>4. b \in Seq(Byte) /\ Len(b) = o[Len(tree.layers) + 1]
  <2>1. EncodedLayers(tree.layers) \in Seq(Seq(Byte))
        /\ Len(EncodedLayers(tree.layers)) = Len(tree.layers)
    BY <1>1, LayersInBytes
  <2> QED BY <1>3, <2>1, ListBytes
<1>5. SubTreeBytesLen(tree) = 20 + Len(b) BY <1>1, <1>3, <1>4, SumOfLayers
<1>6. EncodeSubTree(tree) = e BY EncodedSubTree
<1> HIDE DEF x, y, z, b
<1>7. StandsAt(x, x, 0) BY <1>2, StandsAlone
<1>8. xy \in Seq(Byte) /\ Len(xy) = 16 /\ StandsAt(x, xy, 0) /\ StandsAt(y, xy, 8)
  <2>1. /\ xy \in Seq(Byte) /\ Len(xy) = Len(x) + Len(y) /\ StandsAt(y, xy, Len(x))
        /\ StandsAt(x, xy, 0)
    BY <1>2, <1>7, Extended, StandsLeft
  <2> HIDE DEF xy
  <2> QED BY <1>2, <2>1
<1> HIDE DEF xy
<1>9. /\ xyz \in Seq(Byte) /\ Len(xyz) = 20
      /\ StandsAt(x, xyz, 0) /\ StandsAt(y, xyz, 8) /\ StandsAt(z, xyz, 16)
  <2>1. /\ xyz \in Seq(Byte) /\ Len(xyz) = Len(xy) + Len(z) /\ StandsAt(z, xyz, Len(xy))
        /\ StandsAt(x, xyz, 0) /\ StandsAt(y, xyz, 8)
    BY <1>2, <1>8, Extended, StandsLeft
  <2> HIDE DEF xyz
  <2> QED BY <1>2, <1>8, <2>1
<1> HIDE DEF xyz
<1>10. /\ e \in Seq(Byte) /\ Len(e) = 20 + Len(b) /\ StandsAt(b, e, 20)
       /\ StandsAt(x, e, 0) /\ StandsAt(y, e, 8) /\ StandsAt(z, e, 16)
  <2>1. /\ e \in Seq(Byte) /\ Len(e) = Len(xyz) + Len(b) /\ StandsAt(b, e, Len(xyz))
        /\ StandsAt(x, e, 0) /\ StandsAt(y, e, 8) /\ StandsAt(z, e, 16)
    BY <1>2, <1>4, <1>9, Extended, StandsLeft
  <2> HIDE DEF e
  <2> QED BY <1>9, <2>1
<1> HIDE DEF e
<1>11. Slice(e, 20, Len(e)) = b BY <1>10 DEF StandsAt
<1> QED BY <1>4, <1>5, <1>6, <1>10, <1>11 DEF b, x, y, z

LEMMA ReadSubTree ==
  ASSUME NEW tree \in SubTrees, SubTreeBytesLen(tree) \in Epoch
  PROVE  DecodeSubTree(EncodeSubTree(tree)) = {tree}
<1> DEFINE e == EncodeSubTree(tree)
           layers == tree.layers
           b == EncodeVariableList(EncodedLayers(layers))
<1>1. /\ e \in Seq(Byte) /\ Len(e) = SubTreeBytesLen(tree)
      /\ b \in Seq(Byte) /\ Len(e) = 20 + Len(b) /\ Slice(e, 20, Len(e)) = b
      /\ StandsAt(U64(tree.depth), e, 0) /\ StandsAt(U64(tree.lowest_layer), e, 8)
      /\ StandsAt(U32(20), e, 16)
  BY SubTreeParts
<1>2. tree.depth \in U64Number /\ tree.lowest_layer \in U64Number /\ layers \in Seq(Layers)
      /\ tree = [depth |-> tree.depth, lowest_layer |-> tree.lowest_layer, layers |-> layers]
  BY DEF SubTrees
<1>3. PICK o : Starts(EncodedLayers(layers), o)
  BY <1>2, LayersInBytes, StartsExist
<1>4. Len(b) = o[Len(layers) + 1]
  BY <1>2, <1>3, LayersInBytes, ListBytes
<1> HIDE DEF e, b, layers
<1>5. Len(b) \in Nat /\ Len(b) \in Epoch /\ 20 \in Epoch
  BY <1>1, EpochNat, LenProperties DEF Epoch
<1>6. DecodeLayers(b) = {layers} BY <1>2, <1>3, <1>4, <1>5, ReadLayers DEF b
<1>7. U64At(e, 0) = tree.depth /\ U64At(e, 8) = tree.lowest_layer /\ U32At(e, 16) = 20
  BY <1>1, <1>2, <1>5, ReadU64, ReadU32
<1>8. ~(Len(e) < 20) BY <1>1, <1>5
<1>9. DecodeSubTree(e)
        = {[depth |-> tree.depth, lowest_layer |-> tree.lowest_layer, layers |-> l] :
             l \in {layers}}
  BY <1>1, <1>6, <1>7, <1>8 DEF DecodeSubTree
<1> QED BY <1>2, <1>9 DEF e

LEMMA WriteSubTree ==
  ASSUME NEW b \in Seq(Byte), NEW tree, tree \in DecodeSubTree(b)
  PROVE  tree \in SubTrees /\ EncodeSubTree(tree) = b /\ Len(b) = SubTreeBytesLen(tree)
<1>1. Len(b) \in Nat /\ 20 <= Len(b) /\ U32At(b, 16) = 20
  <2>1. Len(b) \in Nat BY LenProperties
  <2> QED BY <2>1 DEF DecodeSubTree
<1>2. PICK layers \in DecodeLayers(Slice(b, 20, Len(b))) :
             tree = [depth |-> U64At(b, 0), lowest_layer |-> U64At(b, 8), layers |-> layers]
  BY <1>1 DEF DecodeSubTree
<1> DEFINE x == U64At(b, 0)
           y == U64At(b, 8)
           f == Slice(b, 20, Len(b))
<1>3. x \in U64Number /\ U64(x) = Slice(b, 0, 8)
  <2>1. 0 \in Nat /\ 0 + 8 = 8 /\ 0 + 8 <= Len(b) BY <1>1
  <2> QED BY <2>1, WriteU64
<1>4. y \in U64Number /\ U64(y) = Slice(b, 8, 16)
  <2>1. 8 \in Nat /\ 8 + 8 = 16 /\ 8 + 8 <= Len(b) BY <1>1
  <2> QED BY <2>1, WriteU64
<1>5. U32(20) = Slice(b, 16, 20)
  <2>1. 16 \in Nat /\ 16 + 4 = 20 /\ 16 + 4 <= Len(b) BY <1>1
  <2> QED BY <1>1, <2>1, WriteU32
<1>6. f \in Seq(Byte) /\ Slice(b, 0, 20) \o f = Slice(b, 0, Len(b))
  <2>1. 20 \in Nat /\ Len(b) <= Len(b) BY <1>1
  <2> QED BY <1>1, <2>1, CutAt
<1>7. layers \in Seq(Layers) /\ EncodeVariableList(EncodedLayers(layers)) = f
  <2> HIDE DEF f
  <2>1. layers \in DecodeLayers(f) BY DEF f
  <2> QED BY <1>6, <2>1, WriteLayers
<1>8. Slice(b, 0, 8) \o Slice(b, 8, 16) = Slice(b, 0, 16)
  <2>1. 8 \in Nat /\ 16 \in Nat /\ 8 <= 16 /\ 16 <= Len(b) BY <1>1
  <2> QED BY <2>1, CutAt
<1>9. Slice(b, 0, 16) \o Slice(b, 16, 20) = Slice(b, 0, 20)
  <2>1. 16 \in Nat /\ 20 \in Nat /\ 16 <= 20 OBVIOUS
  <2> QED BY <1>1, <2>1, CutAt
<1> HIDE DEF x, y, f
<1>10. tree.depth = x /\ tree.lowest_layer = y /\ tree.layers = layers
  BY <1>2 DEF x, y
<1>11. EncodeSubTree(tree)
         = ((U64(x) \o U64(y)) \o U32(20)) \o EncodeVariableList(EncodedLayers(layers))
  BY <1>10, EncodedSubTree
<1>12. EncodeSubTree(tree) = b
  BY <1>3, <1>4, <1>5, <1>6, <1>7, <1>8, <1>9, <1>11, SliceAll
<1>13. tree \in SubTrees BY <1>2, <1>3, <1>4, <1>7 DEF SubTrees, x, y
<1> QED BY <1>12, <1>13, SubTreeParts

-------------------------------------------------------------------------------
(* The used epochs.                                                           *)
EncodedEpochs(used) == [i \in 1..Len(used) |-> U32(used[i])]

LEMMA EpochsInBytes ==
  ASSUME NEW used \in Seq(Epoch)
  PROVE  /\ EncodedEpochs(used) \in Seq(Seq(Byte)) /\ Len(EncodedEpochs(used)) = Len(used)
         /\ Len(used) \in Nat
         /\ \A i \in 1..Len(used) : /\ EncodedEpochs(used)[i] = U32(used[i])
                                    /\ Len(EncodedEpochs(used)[i]) = 4
                                    /\ used[i] \in Epoch
<1> DEFINE n == Len(used)
           items == EncodedEpochs(used)
           T == Seq(Byte)
<1>1. n \in Nat /\ \A i \in 1..n : used[i] \in Epoch BY LenProperties, ElementOfSeq
<1>2. items = [i \in 1..n |-> U32(used[i])] BY DEF EncodedEpochs
<1> HIDE DEF n, items
<1>3. ASSUME NEW i \in 1..n
      PROVE  items[i] = U32(used[i]) /\ items[i] \in T /\ Len(items[i]) = 4
  <2>1. used[i] \in Nat BY <1>1, EpochNat
  <2> QED BY <1>2, <2>1, U32Bytes
<1> HIDE DEF T
<1>4. items \in [1..n -> T] BY <1>2, <1>3
<1>5. items \in Seq(T) /\ Len(items) = n BY <1>1, <1>4, LenIs
<1> QED BY <1>1, <1>3, <1>5 DEF T, n, items

LEMMA ReadUsedEpochs ==
  ASSUME NEW used \in Seq(Epoch)
  PROVE  LET b == FlattenSeq(EncodedEpochs(used))
         IN  /\ b \in Seq(Byte) /\ Len(b) = 4 * Len(used)
             /\ DecodeUsedEpochs(b) = {used}
<1> DEFINE n == Len(used)
           items == EncodedEpochs(used)
           b == FlattenSeq(items)
           d == [i \in 1..n |-> DecodeInteger(items[i], 4)]
<1>1. /\ items \in Seq(Seq(Byte)) /\ Len(items) = n /\ n \in Nat
      /\ \A i \in 1..n : items[i] = U32(used[i]) /\ Len(items[i]) = 4 /\ used[i] \in Epoch
  BY EpochsInBytes
<1>2. DOMAIN items = 1..n /\ used = [i \in 1..n |-> used[i]]
  BY LenProperties DEF EncodedEpochs
<1>3. b \in Seq(Byte) /\ Len(b) = 4 * n /\ FixedItems(b, 4) = items
  <2>1. 4 \in Nat \ {0} OBVIOUS
  <2> HIDE DEF items
  <2> QED BY <1>1, <2>1, FixedOfJoin
<1> HIDE DEF n, items, b
<1>4. DecodeUsedEpochs(b) = AllDecoded(d) BY <1>2, <1>3 DEF DecodeUsedEpochs
<1>5. ASSUME NEW i \in 1..n PROVE DecodeInteger(items[i], 4) = {used[i]}
  <2>1. U32(used[i]) \in Seq(Byte)
    <3>1. used[i] \in Nat BY <1>1, EpochNat
    <3> QED BY <3>1, U32Bytes
  <2>2. U32At(items[i], 0) = used[i] BY <1>1, <2>1, StandsAlone, ReadU32
  <2> QED BY <1>1, <2>2 DEF DecodeInteger, U32At
<1>6. d = [i \in 1..n |-> {used[i]}] BY <1>5
<1> HIDE DEF d
<1>7. AllDecoded(d) = {used} BY <1>2, <1>6, OneValueEach
<1> QED BY <1>3, <1>4, <1>7 DEF n, items, b

LEMMA WriteUsedEpochs ==
  ASSUME NEW b \in Seq(Byte), NEW used, used \in DecodeUsedEpochs(b)
  PROVE  /\ used \in Seq(Epoch) /\ FlattenSeq(EncodedEpochs(used)) = b
         /\ Len(b) = 4 * Len(used)
<1> DEFINE items == FixedItems(b, 4)
           n == (Len(b) + 4 - 1) \div 4
           d == [i \in DOMAIN items |-> DecodeInteger(items[i], 4)]
<1>1. DOMAIN items = 1..n BY DEF FixedItems
<1>2. used \in AllDecoded(d) BY DEF DecodeUsedEpochs
<1>3. DOMAIN d = 1..n BY <1>1
<1> HIDE DEF n
<1>4. used = [i \in 1..n |-> used[i]] /\ \A i \in 1..n : used[i] \in d[i]
  <2> HIDE DEF d
  <2> QED BY <1>2, <1>3, ValueOfEach
<1>5. ASSUME NEW i \in 1..n PROVE used[i] = U32At(items[i], 0) /\ Len(items[i]) = 4
  <2>1. used[i] \in DecodeInteger(items[i], 4) BY <1>1, <1>4
  <2> HIDE DEF items
  <2> QED BY <2>1 DEF DecodeInteger, U32At
<1>6. items = [i \in 1..n |-> items[i]] BY <1>1 DEF FixedItems
<1>7. /\ items \in Seq(Seq(Byte)) /\ DOMAIN items = 1..Len(items)
      /\ FlattenSeq(items) = b /\ Len(b) = 4 * Len(items)
  <2>1. items = FixedItems(b, 4) /\ 4 \in Nat \ {0} OBVIOUS
  <2> HIDE DEF items
  <2> QED BY <1>1, <1>5, <2>1, JoinOfFixed
<1> HIDE DEF items
<1>8. n = Len(items) /\ n \in Nat
  <2>1. Len(items) \in Nat BY <1>7, LenProperties
  <2>2. \A i \in 1..n : items[i] \in Seq(Byte) BY <1>1, <1>7, ElementOfSeq
  <2>3. n \in Nat BY QuotientNat, LenProperties DEF n
  <2> QED BY <1>1, <1>7, <2>1, <2>3
<1>9. ASSUME NEW i \in 1..n PROVE used[i] \in Epoch /\ U32(used[i]) = items[i]
  <2>1. items[i] \in Seq(Byte) BY <1>7, <1>8, ElementOfSeq
  <2>2. 0 \in Nat /\ 0 + 4 = 4 /\ 0 + 4 <= Len(items[i]) BY <1>5
  <2>3. U32At(items[i], 0) \in Epoch /\ U32(U32At(items[i], 0)) = Slice(items[i], 0, 4)
    BY <2>1, <2>2, WriteU32
  <2> QED BY <1>5, <2>1, <2>3, SliceAll
<1>10. used \in Seq(Epoch) /\ Len(used) = n
  <2>1. used \in [1..n -> Epoch] BY <1>4, <1>9
  <2> QED BY <1>8, <2>1, LenIs
<1>11. EncodedEpochs(used) = items BY <1>6, <1>9, <1>10 DEF EncodedEpochs
<1> QED BY <1>7, <1>8, <1>10, <1>11

-------------------------------------------------------------------------------
(* HashTreeOpening                                                            *)
LEMMA ReadOpening ==
  ASSUME NEW opening \in Openings
  PROVE  /\ EncodeOpening(opening) \in Seq(Byte)
         /\ Len(EncodeOpening(opening)) = OpeningBytesLen(opening)
         /\ DecodeOpening(EncodeOpening(opening)) = {opening}
<1> DEFINE nodes == opening.co_path
           f == FlattenSeq(nodes)
           p == U32(4)
           c == p \o f
<1>1. nodes \in Seq(Hashes) /\ opening = [co_path |-> nodes] BY DEF Openings
<1>2. 4 \in Epoch /\ 4 \in Nat BY SmallOffsets DEF Epoch
<1>3. EncodeOpening(opening) = c BY DEF EncodeOpening
<1>4. /\ f \in Seq(Byte) /\ Len(f) = HASH_LENGTH * Len(nodes) /\ DecodeHashes(f) = {nodes}
  BY <1>1, ReadHashes
<1>5. p \in Seq(Byte) /\ Len(p) = 4 /\ StandsAt(p, p, 0)
  BY <1>2, U32Bytes, StandsAlone
<1> HIDE DEF f, p
<1>6. /\ c \in Seq(Byte) /\ Len(c) = Len(p) + Len(f) /\ StandsAt(f, c, Len(p))
      /\ StandsAt(p, c, 0)
  <2>1. 0 \in Nat OBVIOUS
  <2> QED BY <1>4, <1>5, <2>1, Extended
<1> HIDE DEF c
<1>7. Len(c) = 4 + Len(f) /\ StandsAt(f, c, 4) BY <1>5, <1>6
<1>8. U32At(c, 0) = 4 BY <1>2, <1>6, ReadU32 DEF p
<1>9. Slice(c, 4, Len(c)) = f BY <1>7 DEF StandsAt
<1>10. ~(Len(c) < 4) BY <1>4, <1>7, LenProperties
<1>11. DecodeOpening(c) = {[co_path |-> x] : x \in {nodes}}
  BY <1>4, <1>8, <1>9, <1>10 DEF DecodeOpening
<1>12. DecodeOpening(c) = {opening} BY <1>1, <1>11
<1>13. Len(c) = OpeningBytesLen(opening) BY <1>4, <1>7 DEF OpeningBytesLen
<1> QED BY <1>3, <1>6, <1>12, <1>13

LEMMA WriteOpening ==
  ASSUME NEW b \in Seq(Byte), NEW opening, opening \in DecodeOpening(b)
  PROVE  opening \in Openings /\ EncodeOpening(opening) = b
<1>1. Len(b) \in Nat /\ 4 <= Len(b) /\ U32At(b, 0) = 4
  <2>1. Len(b) \in Nat BY LenProperties
  <2> QED BY <2>1 DEF DecodeOpening
<1>2. PICK nodes \in DecodeHashes(Slice(b, 4, Len(b))) : opening = [co_path |-> nodes]
  BY <1>1 DEF DecodeOpening
<1> DEFINE f == Slice(b, 4, Len(b))
<1>3. U32(4) = Slice(b, 0, 4)
  <2>1. 0 \in Nat /\ 0 + 4 = 4 /\ 0 + 4 <= Len(b) BY <1>1
  <2> QED BY <1>1, <2>1, WriteU32
<1>4. f \in Seq(Byte) /\ Slice(b, 0, 4) \o f = Slice(b, 0, Len(b))
  <2>1. 4 \in Nat /\ Len(b) <= Len(b) BY <1>1
  <2> QED BY <1>1, <2>1, CutAt
<1>5. nodes \in Seq(Hashes) /\ FlattenSeq(nodes) = f
  <2>1. nodes \in DecodeHashes(f) OBVIOUS
  <2> HIDE DEF f
  <2> QED BY <1>4, <2>1, WriteHashes
<1> HIDE DEF f
<1>6. EncodeOpening(opening) = U32(4) \o FlattenSeq(nodes) BY <1>2 DEF EncodeOpening
<1>7. EncodeOpening(opening) = b BY <1>3, <1>4, <1>5, <1>6, SliceAll
<1> QED BY <1>2, <1>5, <1>7 DEF Openings

-------------------------------------------------------------------------------
(* GeneralizedXMSSPublicKey                                                   *)
LEMMA ReadPublicKey ==
  ASSUME NEW pk \in PublicKeys
  PROVE  /\ EncodePublicKey(pk) \in Seq(Byte) /\ Len(EncodePublicKey(pk)) = 2 * HASH_LENGTH
         /\ DecodePublicKey(EncodePublicKey(pk)) = {pk}
<1> DEFINE r == pk.root
           p == pk.parameter
           c == r \o p
           h == HASH_LENGTH
<1>1. r \in Hashes /\ p \in Hashes /\ pk = [root |-> r, parameter |-> p] BY DEF PublicKeys
<1>2. r \in Seq(Byte) /\ Len(r) = h /\ p \in Seq(Byte) /\ Len(p) = h /\ StandsAt(r, r, 0)
  BY <1>1, HashBytes, StandsAlone
<1>3. EncodePublicKey(pk) = c BY DEF EncodePublicKey
<1> HIDE DEF r, p
<1>4. /\ c \in Seq(Byte) /\ Len(c) = Len(r) + Len(p) /\ StandsAt(p, c, Len(r))
      /\ StandsAt(r, c, 0)
  <2>1. 0 \in Nat OBVIOUS
  <2> QED BY <1>2, <2>1, Extended
<1> HIDE DEF c
<1>5. Len(c) = 2 * h /\ h + h = 2 * h /\ 0 + h = h BY <1>2, <1>4, HashLengthAssumption
<1>6. Slice(c, 0, h) = r /\ Slice(c, h, Len(c)) = p BY <1>2, <1>4, <1>5 DEF StandsAt
<1>7. DecodePublicKey(c) = {pk} BY <1>1, <1>5, <1>6 DEF DecodePublicKey
<1> QED BY <1>3, <1>4, <1>5, <1>7

LEMMA WritePublicKey ==
  ASSUME NEW b \in Seq(Byte), NEW pk, pk \in DecodePublicKey(b)
  PROVE  pk \in PublicKeys /\ EncodePublicKey(pk) = b
<1> DEFINE h == HASH_LENGTH
<1>1. Len(b) = 2 * h /\ pk = [root |-> Slice(b, 0, h), parameter |-> Slice(b, h, Len(b))]
  BY DEF DecodePublicKey
<1>2. h \in Nat /\ 0 \in Nat /\ 0 <= h /\ h <= Len(b) /\ Len(b) \in Nat /\ Len(b) - h = h
      /\ h - 0 = h /\ Len(b) <= Len(b)
  BY <1>1, HashLengthAssumption
<1>3. /\ Slice(b, 0, h) \o Slice(b, h, Len(b)) = Slice(b, 0, Len(b))
      /\ Slice(b, h, Len(b)) \in Seq(Byte) /\ Len(Slice(b, h, Len(b))) = h
  BY <1>2, CutAt
<1>4. Slice(b, 0, h) \in Seq(Byte) /\ Len(Slice(b, 0, h)) = h BY <1>2, CutAt
<1>5. pk \in PublicKeys BY <1>1, <1>3, <1>4, BytesHash DEF PublicKeys
<1>6. EncodePublicKey(pk) = b BY <1>1, <1>3, SliceAll DEF EncodePublicKey
<1> QED BY <1>5, <1>6

-------------------------------------------------------------------------------
(* Pieces, one after the other, and the places where each of them starts.     *)
LEMMA FivePieces ==
  ASSUME NEW p \in Seq(Seq(Byte)), Len(p) = 5
  PROVE  FlattenSeq(p)
           = p[1] \o p[2] \o p[3] \o p[4] \o p[5]
<1>1. PICK f \in [0..Len(p) -> Seq(Byte)] :
             Joined(p, Len(p), f) /\ FlattenSeq(p) = f[Len(p)]
  BY Flattening
<1>2. f[0] = << >> /\ \A i \in 1..5 : f[i] = f[i - 1] \o p[i] BY <1>1 DEF Joined
<1>3. f[1] = p[1]
  <2>1. 1 \in 1..5 /\ 1 - 1 = 0 OBVIOUS
  <2>2. p[1] \in Seq(Byte) BY <2>1, ElementOfSeq
  <2>3. f[1] = << >> \o p[1] BY <1>2, <2>1
  <2> QED BY <2>2, <2>3, ConcatEmptySeq
<1>4. f[2] = f[1] \o p[2]
  <2>1. 2 \in 1..5 /\ 2 - 1 = 1 OBVIOUS
  <2> QED BY <1>2, <2>1
<1>5. f[3] = f[2] \o p[3]
  <2>1. 3 \in 1..5 /\ 3 - 1 = 2 OBVIOUS
  <2> QED BY <1>2, <2>1
<1>6. f[4] = f[3] \o p[4]
  <2>1. 4 \in 1..5 /\ 4 - 1 = 3 OBVIOUS
  <2> QED BY <1>2, <2>1
<1>7. f[5] = f[4] \o p[5]
  <2>1. 5 \in 1..5 /\ 5 - 1 = 4 OBVIOUS
  <2> QED BY <1>2, <2>1, SMTT(30)
<1> QED BY <1>1, <1>3, <1>4, <1>5, <1>6, <1>7

LEMMA ThirteenPieces ==
  ASSUME NEW p \in Seq(Seq(Byte)), Len(p) = 13
  PROVE  FlattenSeq(p)
           = p[1] \o p[2] \o p[3] \o p[4] \o p[5] \o p[6] \o p[7]
             \o p[8] \o p[9] \o p[10] \o p[11] \o p[12] \o p[13]
<1>1. PICK f \in [0..Len(p) -> Seq(Byte)] :
             Joined(p, Len(p), f) /\ FlattenSeq(p) = f[Len(p)]
  BY Flattening
<1>2. f[0] = << >> /\ \A i \in 1..13 : f[i] = f[i - 1] \o p[i] BY <1>1 DEF Joined
<1>3. f[1] = p[1]
  <2>1. 1 \in 1..13 /\ 1 - 1 = 0 OBVIOUS
  <2>2. p[1] \in Seq(Byte) BY <2>1, ElementOfSeq
  <2>3. f[1] = << >> \o p[1] BY <1>2, <2>1
  <2> QED BY <2>2, <2>3, ConcatEmptySeq
<1>4. f[2] = f[1] \o p[2]
  <2>1. 2 \in 1..13 /\ 2 - 1 = 1 OBVIOUS
  <2> QED BY <1>2, <2>1
<1>5. f[3] = f[2] \o p[3]
  <2>1. 3 \in 1..13 /\ 3 - 1 = 2 OBVIOUS
  <2> QED BY <1>2, <2>1
<1>6. f[4] = f[3] \o p[4]
  <2>1. 4 \in 1..13 /\ 4 - 1 = 3 OBVIOUS
  <2> QED BY <1>2, <2>1
<1>7. f[5] = f[4] \o p[5]
  <2>1. 5 \in 1..13 /\ 5 - 1 = 4 OBVIOUS
  <2> QED BY <1>2, <2>1
<1>8. f[6] = f[5] \o p[6]
  <2>1. 6 \in 1..13 /\ 6 - 1 = 5 OBVIOUS
  <2> QED BY <1>2, <2>1
<1>9. f[7] = f[6] \o p[7]
  <2>1. 7 \in 1..13 /\ 7 - 1 = 6 OBVIOUS
  <2> QED BY <1>2, <2>1
<1>10. f[8] = f[7] \o p[8]
  <2>1. 8 \in 1..13 /\ 8 - 1 = 7 OBVIOUS
  <2> QED BY <1>2, <2>1
<1>11. f[9] = f[8] \o p[9]
  <2>1. 9 \in 1..13 /\ 9 - 1 = 8 OBVIOUS
  <2> QED BY <1>2, <2>1
<1>12. f[10] = f[9] \o p[10]
  <2>1. 10 \in 1..13 /\ 10 - 1 = 9 OBVIOUS
  <2> QED BY <1>2, <2>1
<1>13. f[11] = f[10] \o p[11]
  <2>1. 11 \in 1..13 /\ 11 - 1 = 10 OBVIOUS
  <2> QED BY <1>2, <2>1
<1>14. f[12] = f[11] \o p[12]
  <2>1. 12 \in 1..13 /\ 12 - 1 = 11 OBVIOUS
  <2> QED BY <1>2, <2>1
<1>15. f[13] = f[12] \o p[13]
  <2>1. 13 \in 1..13 /\ 13 - 1 = 12 OBVIOUS
  <2> QED BY <1>2, <2>1
<1> QED BY <1>1, <1>3, <1>4, <1>5, <1>6, <1>7, <1>8, <1>9, <1>10, <1>11, <1>12, <1>13, <1>14, <1>15


-------------------------------------------------------------------------------
(* GeneralizedXMSSSignature                                                   *)
SignaturePieces(sig) ==
  <<U32(SignatureFixedSize), sig.rho, U32(SignatureFixedSize + OpeningBytesLen(sig.path)),
    EncodeOpening(sig.path), FlattenSeq(sig.hashes)>>

LEMMA PieceProduct == ASSUME NEW h \in Nat, NEW n \in Nat PROVE h * n \in Nat
OBVIOUS

LEMMA LengthOfOpening ==
  ASSUME NEW opening \in Openings
  PROVE  OpeningBytesLen(opening) \in Nat
BY ReadOpening, LenProperties

LEMMA SignatureParts ==
  ASSUME NEW sig \in Signatures
  PROVE  LET e  == EncodeSignature(sig)
             oh == SignatureFixedSize + OpeningBytesLen(sig.path)
         IN  /\ e \in Seq(Byte) /\ Len(e) = SignatureBytesLen(sig)
             /\ SignatureFixedSize \in Nat /\ oh \in Nat
             /\ SignatureFixedSize <= oh /\ oh <= Len(e)
             /\ StandsAt(U32(SignatureFixedSize), e, 0)
             /\ StandsAt(sig.rho, e, 4)
             /\ StandsAt(U32(oh), e, 4 + HASH_LENGTH)
             /\ StandsAt(EncodeOpening(sig.path), e, SignatureFixedSize)
             /\ Slice(e, SignatureFixedSize, oh) = EncodeOpening(sig.path)
             /\ StandsAt(FlattenSeq(sig.hashes), e, oh)
             /\ Slice(e, oh, Len(e)) = FlattenSeq(sig.hashes)
<1> DEFINE h == HASH_LENGTH
           F == SignatureFixedSize
           l == OpeningBytesLen(sig.path)
           m == h * Len(sig.hashes)
           p == SignaturePieces(sig)
           o == <<0, 4, 4 + h, F, F + l, F + l + m>>
           e == EncodeSignature(sig)
<1>1. sig.path \in Openings /\ sig.rho \in Hashes /\ sig.hashes \in Seq(Hashes)
  BY DEF Signatures
<1>2. h \in Nat /\ F = 8 + h /\ F \in Nat
  BY HashLengthAssumption DEF SignatureFixedSize
<1>3. l \in Nat /\ m \in Nat
  <2>1. Len(sig.hashes) \in Nat BY <1>1, LenProperties
  <2> QED BY <1>1, <1>2, <2>1, LengthOfOpening, PieceProduct
<1> HIDE DEF h, F, l, m
<1>4. /\ p[1] = U32(F) /\ p[1] \in Seq(Byte) /\ Len(p[1]) = 4
      /\ p[2] = sig.rho /\ p[2] \in Seq(Byte) /\ Len(p[2]) = h
      /\ p[3] = U32(F + l) /\ p[3] \in Seq(Byte) /\ Len(p[3]) = 4
  <2>1. F + l \in Nat BY <1>2, <1>3
  <2> QED BY <1>1, <1>2, <2>1, U32Bytes, HashBytes DEF SignaturePieces, h, F, l
<1>5. /\ p[4] = EncodeOpening(sig.path) /\ p[4] \in Seq(Byte) /\ Len(p[4]) = l
      /\ p[5] = FlattenSeq(sig.hashes) /\ p[5] \in Seq(Byte) /\ Len(p[5]) = m
  BY <1>1, ReadOpening, ReadHashes DEF SignaturePieces, h, l, m
<1>6. p \in Seq(Seq(Byte)) /\ Len(p) = 5
  <2> DEFINE T == Seq(Byte)
  <2>1. Len(p) = 5 /\ p = [i \in 1..5 |-> p[i]] BY DEF SignaturePieces
  <2>2. p[1] \in T /\ p[2] \in T /\ p[3] \in T /\ p[4] \in T /\ p[5] \in T BY <1>4, <1>5
  <2> HIDE DEF T, p
  <2>3. \A i \in 1..5 : p[i] \in T
    <3>1. \A i \in 1..5 : i = 1 \/ i = 2 \/ i = 3 \/ i = 4 \/ i = 5 OBVIOUS
    <3> QED BY <2>2, <3>1
  <2>4. p \in [1..5 -> T] BY <2>1, <2>3
  <2> QED BY <2>4, LenIs DEF T
<1>7. e = FlattenSeq(p)
  <2>1. e = p[1] \o p[2] \o p[3] \o p[4] \o p[5] BY DEF SignaturePieces, EncodeSignature
  <2> HIDE DEF e, p
  <2> QED BY <1>6, <2>1, FivePieces
<1> HIDE DEF e, p
<1>8. /\ o[1] = 0 /\ o[2] = 4 /\ o[3] = 4 + h /\ o[4] = F /\ o[5] = F + l /\ o[6] = F + l + m
  OBVIOUS
<1> HIDE DEF o
<1>9. ASSUME NEW i \in 1..Len(p) PROVE o[i + 1] = o[i] + Len(p[i])
  <2>1. i = 1 \/ i = 2 \/ i = 3 \/ i = 4 \/ i = 5 BY <1>6
  <2>2. Len(p[1]) = 4 /\ Len(p[2]) = h /\ Len(p[3]) = 4 /\ Len(p[4]) = l /\ Len(p[5]) = m
    BY <1>4, <1>5
  <2>3. CASE i = 1
    <3>1. o[2] = o[1] + Len(p[1]) BY <1>8, <2>2
    <3> QED BY <2>3, <3>1
  <2>4. CASE i = 2 BY <1>8, <2>2, <2>4
  <2>5. CASE i = 3
    <3>1. F = (4 + h) + 4 BY <1>2
    <3>2. o[4] = o[3] + Len(p[3]) BY <1>8, <2>2, <3>1
    <3> QED BY <2>5, <3>2
  <2>6. CASE i = 4 BY <1>8, <2>2, <2>6
  <2>7. CASE i = 5 BY <1>8, <2>2, <2>7
  <2> QED BY <2>1, <2>3, <2>4, <2>5, <2>6, <2>7
<1>10. /\ e \in Seq(Byte) /\ Len(e) = o[5 + 1]
       /\ \A i \in 1..5 : StandsAt(p[i], e, o[i])
  <2>1. /\ e \in Seq(Byte) /\ Len(e) = o[Len(p) + 1]
        /\ \A i \in 1..Len(p) : StandsAt(p[i], e, o[i])
    BY <1>6, <1>7, <1>8, <1>9, SlicesOfJoin
  <2> QED BY <1>6, <2>1
<1>11. Len(e) = F + l + m BY <1>8, <1>10
<1>12. /\ StandsAt(U32(F), e, 0) /\ StandsAt(sig.rho, e, 4) /\ StandsAt(U32(F + l), e, 4 + h)
       /\ StandsAt(EncodeOpening(sig.path), e, F) /\ StandsAt(FlattenSeq(sig.hashes), e, F + l)
  BY <1>4, <1>5, <1>8, <1>10
<1>13. Slice(e, F, F + l) = EncodeOpening(sig.path)
       /\ Slice(e, F + l, Len(e)) = FlattenSeq(sig.hashes)
  BY <1>5, <1>11, <1>12 DEF StandsAt
<1>14. SignatureBytesLen(sig) = F + l + m BY DEF SignatureBytesLen, F, l, m, h
<1>15. F + l \in Nat /\ F <= F + l /\ F + l <= Len(e) BY <1>2, <1>3, <1>11
<1> QED BY <1>2, <1>10, <1>11, <1>12, <1>13, <1>14, <1>15 DEF e, F, l, h

LEMMA ReadSignature ==
  ASSUME NEW sig \in Signatures, SignatureFixedSize + OpeningBytesLen(sig.path) < U32Range
  PROVE  DecodeSignature(EncodeSignature(sig)) = {sig}
<1> DEFINE e == EncodeSignature(sig)
           F == SignatureFixedSize
           oh == F + OpeningBytesLen(sig.path)
<1>1. /\ e \in Seq(Byte) /\ Len(e) = SignatureBytesLen(sig)
      /\ F \in Nat /\ oh \in Nat /\ F <= oh /\ oh <= Len(e)
      /\ StandsAt(U32(F), e, 0) /\ StandsAt(sig.rho, e, 4)
      /\ StandsAt(U32(oh), e, 4 + HASH_LENGTH)
      /\ Slice(e, F, oh) = EncodeOpening(sig.path)
      /\ Slice(e, oh, Len(e)) = FlattenSeq(sig.hashes)
  BY SignatureParts
<1>2. /\ sig.path \in Openings /\ sig.rho \in Hashes /\ sig.hashes \in Seq(Hashes)
      /\ sig = [path |-> sig.path, rho |-> sig.rho, hashes |-> sig.hashes]
  BY DEF Signatures
<1> HIDE DEF e, F, oh
<1>3. Len(e) \in Nat /\ oh < U32Range BY <1>1, LenProperties DEF F, oh
<1>4. F \in Epoch /\ oh \in Epoch BY <1>1, <1>3, EpochNat DEF Epoch
<1>5. U32At(e, 0) = F /\ U32At(e, 4 + HASH_LENGTH) = oh BY <1>1, <1>4, ReadU32
<1>6. Slice(e, 4, 4 + HASH_LENGTH) = sig.rho BY <1>1, <1>2, HashBytes, SMTT(30) DEF StandsAt
<1>7. DecodeOpening(EncodeOpening(sig.path)) = {sig.path} BY <1>2, ReadOpening
<1>8. DecodeHashes(FlattenSeq(sig.hashes)) = {sig.hashes} BY <1>2, ReadHashes
<1>9. ~(Len(e) < F) /\ IsSlice(e, F, oh) /\ SignatureOffsetsOrdered(F, oh, Len(e))
  BY <1>1, <1>3 DEF IsSlice, SignatureOffsetsOrdered
<1>10. DecodeSignature(e) = {[path |-> path, rho |-> sig.rho, hashes |-> hashes] :
                               path \in {sig.path}, hashes \in {sig.hashes}}
  BY <1>1, <1>5, <1>6, <1>7, <1>8, <1>9 DEF DecodeSignature, F
<1> QED BY <1>2, <1>10 DEF e

(* Pieces that are cut out of a file are what the file consists of.           *)
LEMMA FiveCut ==
  ASSUME NEW b \in Seq(Byte), NEW o, Places(o, 5), o[1] = 0, o[6] = Len(b)
  PROVE  Slice(b, o[1], o[2]) \o Slice(b, o[2], o[3]) \o Slice(b, o[3], o[4])
           \o Slice(b, o[4], o[5]) \o Slice(b, o[5], o[6]) = b
<1> DEFINE p == [i \in 1..5 |-> Slice(b, o[i], o[i + 1])]
<1>1. p[1] = Slice(b, o[1], o[2]) /\ p[2] = Slice(b, o[2], o[3]) /\ p[3] = Slice(b, o[3], o[4])
  OBVIOUS
<1>2. p[4] = Slice(b, o[4], o[5]) /\ p[5] = Slice(b, o[5], o[6]) OBVIOUS
<1>3. Len(b) \in Nat /\ o[5 + 1] <= Len(b) BY LenProperties
<1>4. p \in Seq(Seq(Byte)) /\ Len(p) = 5 /\ FlattenSeq(p) = Slice(b, o[1], o[5 + 1])
  <2> DEFINE n == 5
  <2>1. p = [i \in 1..n |-> Slice(b, o[i], o[i + 1])] /\ n \in Nat OBVIOUS
  <2>2. Places(o, n) /\ o[n + 1] <= Len(b) BY <1>3
  <2> HIDE DEF p, n
  <2>3. p \in Seq(Seq(Byte)) /\ Len(p) = n /\ FlattenSeq(p) = Slice(b, o[1], o[n + 1])
    BY <2>1, <2>2, JoinOfSlices
  <2> QED BY <2>3 DEF n
<1> HIDE DEF p
<1>5. FlattenSeq(p) = b BY <1>4, SliceAll
<1>6. FlattenSeq(p) = p[1] \o p[2] \o p[3] \o p[4] \o p[5] BY <1>4, FivePieces
<1> QED BY <1>1, <1>2, <1>5, <1>6

LEMMA AcceptedSignature ==
  ASSUME NEW b \in Seq(Byte), NEW sig, sig \in DecodeSignature(b)
  PROVE  LET h  == HASH_LENGTH
             F  == SignatureFixedSize
             oh == U32At(b, 4 + h)
         IN  /\ F <= Len(b) /\ U32At(b, 0) = F /\ F <= oh /\ oh <= Len(b)
             /\ \E path \in DecodeOpening(Slice(b, F, oh)),
                   hashes \in DecodeHashes(Slice(b, oh, Len(b))) :
                  sig = [path |-> path, rho |-> Slice(b, 4, 4 + h), hashes |-> hashes]
<1> DEFINE h == HASH_LENGTH
           F == SignatureFixedSize
           oh == U32At(b, 4 + h)
<1>1. F <= Len(b)
  <2>1. ~(Len(b) < F) BY DEF DecodeSignature
  <2>2. F \in Nat /\ Len(b) \in Nat
    BY HashLengthAssumption, LenProperties DEF SignatureFixedSize
  <2> HIDE DEF F
  <2> QED BY <2>1, <2>2
<1>2. U32At(b, 0) = F /\ F <= oh /\ oh <= Len(b)
  BY DEF DecodeSignature, SignatureOffsetsOrdered
<1>3. IsSlice(b, F, oh) BY <1>2 DEF IsSlice
<1>4. \E path \in DecodeOpening(Slice(b, F, oh)), hashes \in DecodeHashes(Slice(b, oh, Len(b))) :
        sig = [path |-> path, rho |-> Slice(b, 4, 4 + h), hashes |-> hashes]
  BY <1>1, <1>2, <1>3 DEF DecodeSignature
<1> QED BY <1>1, <1>2, <1>4

LEMMA WriteSignature ==
  ASSUME NEW b \in Seq(Byte), NEW sig, sig \in DecodeSignature(b)
  PROVE  sig \in Signatures /\ EncodeSignature(sig) = b
<1> DEFINE h == HASH_LENGTH
           F == SignatureFixedSize
           op == U32At(b, 0)
           oh == U32At(b, 4 + h)
           o == <<0, 4, 4 + h, F, oh, Len(b)>>
<1>1. h \in Nat \ {0} /\ F = 8 + h /\ F \in Nat /\ Len(b) \in Nat
  BY HashLengthAssumption, LenProperties DEF SignatureFixedSize
<1>2. F <= Len(b) BY AcceptedSignature
<1>3. op = F /\ op <= oh /\ oh <= Len(b) BY AcceptedSignature
<1>4. oh \in Epoch /\ oh \in Nat /\ U32(oh) = Slice(b, 4 + h, F)
  <2>1. 4 + h \in Nat /\ (4 + h) + 4 <= Len(b) /\ (4 + h) + 4 = F BY <1>1, <1>2
  <2> HIDE DEF F, h
  <2> QED BY <2>1, WriteU32, EpochNat
<1>5. U32(F) = Slice(b, 0, 4)
  <2>1. 0 \in Nat /\ 0 + 4 = 4 /\ 0 + 4 <= Len(b) BY <1>1, <1>2
  <2>2. U32(op) = Slice(b, 0, 0 + 4) BY <2>1, WriteU32
  <2> HIDE DEF F, op
  <2> QED BY <1>3, <2>1, <2>2
<1>6. PICK path \in DecodeOpening(Slice(b, F, oh)), hashes \in DecodeHashes(Slice(b, oh, Len(b))) :
             sig = [path |-> path, rho |-> Slice(b, 4, 4 + h), hashes |-> hashes]
  BY AcceptedSignature
<1> HIDE DEF h, F, op, oh
<1>7. Slice(b, F, oh) \in Seq(Byte) /\ Len(Slice(b, F, oh)) = oh - F
      /\ Slice(b, oh, Len(b)) \in Seq(Byte)
  <2>1. F <= oh /\ Len(b) <= Len(b) BY <1>1, <1>3
  <2> QED BY <1>1, <1>3, <1>4, <2>1, CutAt
<1>8. path \in Openings /\ EncodeOpening(path) = Slice(b, F, oh) BY <1>7, WriteOpening
<1>9. hashes \in Seq(Hashes) /\ FlattenSeq(hashes) = Slice(b, oh, Len(b))
  BY <1>7, WriteHashes
<1>10. Slice(b, 4, 4 + h) \in Hashes
  <2>1. 4 \in Nat /\ 4 + h \in Nat /\ 4 <= 4 + h /\ 4 + h <= Len(b) /\ (4 + h) - 4 = h
    BY <1>1, <1>2
  <2>2. Slice(b, 4, 4 + h) \in Seq(Byte) /\ Len(Slice(b, 4, 4 + h)) = h BY <2>1, CutAt
  <2> QED BY <2>2, BytesHash DEF h
<1>11. F + OpeningBytesLen(path) = oh
  <2>1. OpeningBytesLen(path) = oh - F BY <1>7, <1>8, ReadOpening
  <2> QED BY <1>1, <1>4, <2>1
<1>12. sig.path = path /\ sig.rho = Slice(b, 4, 4 + h) /\ sig.hashes = hashes BY <1>6
<1>13. EncodeSignature(sig)
         = U32(F) \o sig.rho \o U32(F + OpeningBytesLen(sig.path))
             \o EncodeOpening(sig.path) \o FlattenSeq(sig.hashes)
  BY DEF EncodeSignature, F
<1>14. EncodeSignature(sig)
         = Slice(b, 0, 4) \o Slice(b, 4, 4 + h) \o Slice(b, 4 + h, F)
             \o Slice(b, F, oh) \o Slice(b, oh, Len(b))
  BY <1>4, <1>5, <1>8, <1>9, <1>11, <1>12, <1>13
<1>15. /\ o[1] = 0 /\ o[2] = 4 /\ o[3] = 4 + h /\ o[4] = F /\ o[5] = oh /\ o[6] = Len(b)
  OBVIOUS
<1> HIDE DEF o
<1>16. Places(o, 5)
  <2>1. F <= oh BY <1>3
  <2>2. /\ o[1] \in Nat /\ o[2] \in Nat /\ o[3] \in Nat
        /\ o[4] \in Nat /\ o[5] \in Nat /\ o[6] \in Nat
    BY <1>1, <1>4, <1>15
  <2>3. o[1] <= o[2] /\ o[2] <= o[3] /\ o[3] <= o[4] /\ o[4] <= o[5] /\ o[5] <= o[6]
    BY <1>1, <1>3, <1>4, <1>15, <2>1
  <2>4. \A i \in 1..5 + 1 : i = 1 \/ i = 2 \/ i = 3 \/ i = 4 \/ i = 5 \/ i = 6 OBVIOUS
  <2>5. \A i \in 1..5 + 1 : o[i] \in Nat BY <2>2, <2>4
  <2>6. \A i \in 1..5 : o[i] <= o[i + 1] 
    <3>1. \A i \in 1..5 : i = 1 \/ i = 2 \/ i = 3 \/ i = 4 \/ i = 5 OBVIOUS
    <3> QED BY <2>3, <3>1
  <2> QED BY <2>5, <2>6 DEF Places
<1>17. EncodeSignature(sig) = b BY <1>14, <1>15, <1>16, FiveCut
<1>18. sig \in Signatures BY <1>6, <1>8, <1>9, <1>10 DEF Signatures
<1> QED BY <1>17, <1>18

-------------------------------------------------------------------------------
(* GeneralizedXMSSSecretKey                                                   *)
SecretKeyPieces(k) ==
  LET F == SecretKeyFixedSize
      t == SubTreeBytesLen(k.top_tree)
      l == SubTreeBytesLen(k.left_bottom_tree)
      r == SubTreeBytesLen(k.right_bottom_tree)
  IN  <<k.prf_key, k.parameter, U64(k.activation_epoch), U64(k.num_active_epochs),
        U32(F), U64(k.left_bottom_tree_index), U32(F + t), U32(F + t + l), U32(F + t + l + r),
        EncodeSubTree(k.top_tree), EncodeSubTree(k.left_bottom_tree),
        EncodeSubTree(k.right_bottom_tree), FlattenSeq(EncodedEpochs(k.used_epochs))>>

LEMMA EncodedSecretKey ==
  ASSUME NEW k
  PROVE  LET p == SecretKeyPieces(k)
         IN  EncodeSecretKey(k)
               = p[1] \o p[2] \o p[3] \o p[4] \o p[5] \o p[6] \o p[7]
                   \o p[8] \o p[9] \o p[10] \o p[11] \o p[12] \o p[13]
BY DEF EncodeSecretKey, SecretKeyPieces, EncodedEpochs

LEMMA LengthOfSubTree ==
  ASSUME NEW tree \in SubTrees
  PROVE  SubTreeBytesLen(tree) \in Nat
BY SubTreeParts, LenProperties

LEMMA OneOfThirteen ==
  ASSUME NEW i \in 1..13
  PROVE  \/ i = 1 \/ i = 2 \/ i = 3 \/ i = 4 \/ i = 5 \/ i = 6 \/ i = 7
         \/ i = 8 \/ i = 9 \/ i = 10 \/ i = 11 \/ i = 12 \/ i = 13
OBVIOUS

(* Where each piece of an encoded key stands.                                 *)
LEMMA SecretKeyParts ==
  ASSUME NEW k \in KeysInBytes
  PROVE  LET e   == EncodeSecretKey(k)
             h   == HASH_LENGTH
             pos == 2 * h
             F   == SecretKeyFixedSize
             t   == SubTreeBytesLen(k.top_tree)
             l   == SubTreeBytesLen(k.left_bottom_tree)
             r   == SubTreeBytesLen(k.right_bottom_tree)
             u   == 4 * Len(k.used_epochs)
         IN  /\ e \in Seq(Byte) /\ Len(e) = F + t + l + r + u /\ Len(e) = SecretKeyBytesLen(k)
             /\ F = pos + 40 /\ F \in Nat /\ h \in Nat
             /\ t \in Nat /\ l \in Nat /\ r \in Nat /\ u \in Nat
             /\ StandsAt(k.prf_key, e, 0)
             /\ StandsAt(k.parameter, e, h)
             /\ StandsAt(U64(k.activation_epoch), e, pos)
             /\ StandsAt(U64(k.num_active_epochs), e, pos + 8)
             /\ StandsAt(U32(F), e, pos + 16)
             /\ StandsAt(U64(k.left_bottom_tree_index), e, pos + 20)
             /\ StandsAt(U32(F + t), e, pos + 28)
             /\ StandsAt(U32(F + t + l), e, pos + 32)
             /\ StandsAt(U32(F + t + l + r), e, pos + 36)
             /\ StandsAt(EncodeSubTree(k.top_tree), e, F)
             /\ StandsAt(EncodeSubTree(k.left_bottom_tree), e, F + t)
             /\ StandsAt(EncodeSubTree(k.right_bottom_tree), e, F + t + l)
             /\ StandsAt(FlattenSeq(EncodedEpochs(k.used_epochs)), e, F + t + l + r)
<1> DEFINE h   == HASH_LENGTH
           pos == 2 * h
           F   == SecretKeyFixedSize
           t   == SubTreeBytesLen(k.top_tree)
           l   == SubTreeBytesLen(k.left_bottom_tree)
           r   == SubTreeBytesLen(k.right_bottom_tree)
           u   == 4 * Len(k.used_epochs)
           p   == SecretKeyPieces(k)
           e   == EncodeSecretKey(k)
           o   == <<0, h, pos, pos + 8, pos + 16, pos + 20, pos + 28, pos + 32, pos + 36,
                    F, F + t, F + t + l, F + t + l + r, F + t + l + r + u>>
<1>1. /\ k.prf_key \in Hashes /\ k.parameter \in Hashes
      /\ k.activation_epoch \in Nat /\ k.num_active_epochs \in Nat
      /\ k.left_bottom_tree_index \in Nat
      /\ k.top_tree \in SubTrees /\ k.left_bottom_tree \in SubTrees
      /\ k.right_bottom_tree \in SubTrees /\ k.used_epochs \in Seq(Epoch)
  BY EpochNat DEF KeysInBytes
<1>2. h \in Nat /\ pos = h + h /\ F = pos + 40 /\ F \in Nat /\ pos \in Nat
  BY HashLengthAssumption DEF SecretKeyFixedSize
<1>3. t \in Nat /\ l \in Nat /\ r \in Nat /\ u \in Nat
  <2>1. Len(k.used_epochs) \in Nat BY <1>1, LenProperties
  <2> QED BY <1>1, <2>1, LengthOfSubTree
<1>4. SecretKeyBytesLen(k) = F + t + l + r + u BY DEF SecretKeyBytesLen
<1>5. e = p[1] \o p[2] \o p[3] \o p[4] \o p[5] \o p[6] \o p[7]
            \o p[8] \o p[9] \o p[10] \o p[11] \o p[12] \o p[13]
  BY EncodedSecretKey
<1>6. p = [i \in 1..13 |-> p[i]] BY DEF SecretKeyPieces
<1>7. /\ p[1] = k.prf_key /\ p[2] = k.parameter
      /\ p[3] = U64(k.activation_epoch) /\ p[4] = U64(k.num_active_epochs)
      /\ p[5] = U32(F) /\ p[6] = U64(k.left_bottom_tree_index)
      /\ p[7] = U32(F + t) /\ p[8] = U32(F + t + l) /\ p[9] = U32(F + t + l + r)
      /\ p[10] = EncodeSubTree(k.top_tree) /\ p[11] = EncodeSubTree(k.left_bottom_tree)
      /\ p[12] = EncodeSubTree(k.right_bottom_tree)
      /\ p[13] = FlattenSeq(EncodedEpochs(k.used_epochs))
  BY DEF SecretKeyPieces
<1> HIDE DEF h, pos, F, t, l, r, u, p, e
<1>8. /\ p[1] \in Seq(Byte) /\ Len(p[1]) = h /\ p[2] \in Seq(Byte) /\ Len(p[2]) = h
  BY <1>1, <1>7, HashBytes DEF h
<1>9. /\ p[3] \in Seq(Byte) /\ Len(p[3]) = 8 /\ p[4] \in Seq(Byte) /\ Len(p[4]) = 8
      /\ p[6] \in Seq(Byte) /\ Len(p[6]) = 8
  BY <1>1, <1>7, U64Bytes
<1>10. /\ p[5] \in Seq(Byte) /\ Len(p[5]) = 4 /\ p[7] \in Seq(Byte) /\ Len(p[7]) = 4
       /\ p[8] \in Seq(Byte) /\ Len(p[8]) = 4 /\ p[9] \in Seq(Byte) /\ Len(p[9]) = 4
  <2>1. F \in Nat /\ F + t \in Nat /\ F + t + l \in Nat /\ F + t + l + r \in Nat
    BY <1>2, <1>3
  <2> QED BY <1>7, <2>1, U32Bytes
<1>11. /\ p[10] \in Seq(Byte) /\ Len(p[10]) = t /\ p[11] \in Seq(Byte) /\ Len(p[11]) = l
       /\ p[12] \in Seq(Byte) /\ Len(p[12]) = r
  BY <1>1, <1>7, SubTreeParts DEF t, l, r
<1>12. p[13] \in Seq(Byte) /\ Len(p[13]) = u
  BY <1>1, <1>7, ReadUsedEpochs DEF u
<1>13. p \in Seq(Seq(Byte)) /\ Len(p) = 13
  <2> DEFINE T == Seq(Byte)
  <2>1. ASSUME NEW i \in 1..13 PROVE p[i] \in T
    BY <1>8, <1>9, <1>10, <1>11, <1>12, OneOfThirteen
  <2> HIDE DEF T
  <2>2. p \in [1..13 -> T] BY <1>6, <2>1
  <2> QED BY <2>2, LenIs DEF T
<1>14. e = FlattenSeq(p) BY <1>5, <1>13, ThirteenPieces
<1>15. /\ o[1] = 0 /\ o[2] = h /\ o[3] = pos /\ o[4] = pos + 8 /\ o[5] = pos + 16
       /\ o[6] = pos + 20 /\ o[7] = pos + 28 /\ o[8] = pos + 32 /\ o[9] = pos + 36 /\ o[10] = F /\ o[11] = F + t /\ o[12] = F + t + l
       /\ o[13] = F + t + l + r /\ o[14] = F + t + l + r + u
  OBVIOUS
<1> HIDE DEF o
<1>16. ASSUME NEW i \in 1..13 PROVE o[i + 1] = o[i] + Len(p[i])
  <2>1. CASE i = 1
    <3>1. Len(p[1]) = h BY <1>8
    <3>2. o[2] = o[1] + Len(p[1]) BY <1>2, <1>15, <3>1
    <3> QED BY <2>1, <3>2
  <2>2. CASE i = 2
    <3>1. Len(p[2]) = h BY <1>8
    <3>2. o[3] = o[2] + Len(p[2]) BY <1>2, <1>15, <3>1
    <3> QED BY <2>2, <3>2
  <2>3. CASE i = 3
    <3>1. Len(p[3]) = 8 BY <1>9
    <3>2. o[4] = o[3] + Len(p[3]) BY <1>2, <1>15, <3>1
    <3> QED BY <2>3, <3>2
  <2>4. CASE i = 4
    <3>1. Len(p[4]) = 8 BY <1>9
    <3>2. o[5] = o[4] + Len(p[4]) BY <1>2, <1>15, <3>1
    <3> QED BY <2>4, <3>2
  <2>5. CASE i = 5
    <3>1. Len(p[5]) = 4 BY <1>10
    <3>2. o[6] = o[5] + Len(p[5]) BY <1>2, <1>15, <3>1
    <3> QED BY <2>5, <3>2
  <2>6. CASE i = 6
    <3>1. Len(p[6]) = 8 BY <1>9
    <3>2. o[7] = o[6] + Len(p[6]) BY <1>2, <1>15, <3>1
    <3> QED BY <2>6, <3>2
  <2>7. CASE i = 7
    <3>1. Len(p[7]) = 4 BY <1>10
    <3>2. o[8] = o[7] + Len(p[7]) BY <1>2, <1>15, <3>1
    <3> QED BY <2>7, <3>2
  <2>8. CASE i = 8
    <3>1. Len(p[8]) = 4 BY <1>10
    <3>2. o[9] = o[8] + Len(p[8]) BY <1>2, <1>15, <3>1
    <3> QED BY <2>8, <3>2
  <2>9. CASE i = 9
    <3>1. Len(p[9]) = 4 BY <1>10
    <3>2. o[10] = o[9] + Len(p[9]) BY <1>2, <1>15, <3>1
    <3> QED BY <2>9, <3>2
  <2>10. CASE i = 10
    <3>1. Len(p[10]) = t BY <1>11
    <3>2. o[11] = o[10] + Len(p[10]) BY <1>2, <1>15, <3>1
    <3> QED BY <2>10, <3>2
  <2>11. CASE i = 11
    <3>1. Len(p[11]) = l BY <1>11
    <3>2. o[12] = o[11] + Len(p[11]) BY <1>2, <1>15, <3>1
    <3> QED BY <2>11, <3>2
  <2>12. CASE i = 12
    <3>1. Len(p[12]) = r BY <1>11
    <3>2. o[13] = o[12] + Len(p[12]) BY <1>2, <1>15, <3>1
    <3> QED BY <2>12, <3>2
  <2>13. CASE i = 13
    <3>1. Len(p[13]) = u BY <1>12
    <3>2. o[14] = o[13] + Len(p[13]) BY <1>2, <1>15, <3>1
    <3> QED BY <2>13, <3>2
  <2> QED BY <2>1, <2>2, <2>3, <2>4, <2>5, <2>6, <2>7, <2>8, <2>9, <2>10, <2>11, <2>12, <2>13,
             OneOfThirteen
<1>17. e \in Seq(Byte) /\ Len(e) = o[14] /\ \A i \in 1..13 : StandsAt(p[i], e, o[i])
  <2>1. \A i \in 1..Len(p) : o[i + 1] = o[i] + Len(p[i]) BY <1>13, <1>16
  <2>2. /\ e \in Seq(Byte) /\ Len(e) = o[Len(p) + 1]
        /\ \A i \in 1..Len(p) : StandsAt(p[i], e, o[i])
    BY <1>13, <1>14, <1>15, <2>1, SlicesOfJoin
  <2> QED BY <1>13, <2>2
<1>18. /\ StandsAt(p[1], e, o[1]) /\ StandsAt(p[2], e, o[2]) /\ StandsAt(p[3], e, o[3])
       /\ StandsAt(p[4], e, o[4]) /\ StandsAt(p[5], e, o[5]) /\ StandsAt(p[6], e, o[6])
       /\ StandsAt(p[7], e, o[7]) /\ StandsAt(p[8], e, o[8]) /\ StandsAt(p[9], e, o[9])
       /\ StandsAt(p[10], e, o[10]) /\ StandsAt(p[11], e, o[11]) /\ StandsAt(p[12], e, o[12])
       /\ StandsAt(p[13], e, o[13])
  BY <1>17
<1>19. Len(e) = F + t + l + r + u BY <1>15, <1>17
<1>20. /\ StandsAt(k.prf_key, e, 0)
       /\ StandsAt(k.parameter, e, h)
       /\ StandsAt(U64(k.activation_epoch), e, pos)
       /\ StandsAt(U64(k.num_active_epochs), e, pos + 8)
       /\ StandsAt(U32(F), e, pos + 16)
  BY <1>7, <1>15, <1>18
<1>21. /\ StandsAt(U64(k.left_bottom_tree_index), e, pos + 20)
       /\ StandsAt(U32(F + t), e, pos + 28)
       /\ StandsAt(U32(F + t + l), e, pos + 32)
       /\ StandsAt(U32(F + t + l + r), e, pos + 36)
  BY <1>7, <1>15, <1>18
<1>22. /\ StandsAt(EncodeSubTree(k.top_tree), e, F)
       /\ StandsAt(EncodeSubTree(k.left_bottom_tree), e, F + t)
       /\ StandsAt(EncodeSubTree(k.right_bottom_tree), e, F + t + l)
       /\ StandsAt(FlattenSeq(EncodedEpochs(k.used_epochs)), e, F + t + l + r)
  BY <1>7, <1>15, <1>18
<1> QED BY <1>2, <1>3, <1>4, <1>17, <1>19, <1>20, <1>21, <1>22 DEF h, pos, F, t, l, r, u, e

LEMMA StandsInCut ==
  ASSUME NEW b \in Seq(Byte), NEW p \in Seq(Byte), NEW at, StandsAt(p, b, at),
         NEW n \in Nat, n <= Len(b), at + Len(p) <= n
  PROVE  StandsAt(p, Slice(b, 0, n), at)
<1>1. at \in Nat /\ Len(p) \in Nat /\ Slice(b, at, at + Len(p)) = p
  BY LenProperties DEF StandsAt
<1>2. 0 \in Nat /\ 0 <= n /\ n - 0 = n /\ at <= at + Len(p) /\ at + Len(p) \in Nat
      /\ at + Len(p) <= n - 0
  BY <1>1
<1>3. IsSlice(b, 0, n) BY <1>2 DEF IsSlice
<1>4. Slice(Slice(b, 0, n), at, at + Len(p)) = Slice(b, 0 + at, 0 + (at + Len(p)))
  BY <1>1, <1>2, <1>3, SliceOfSlice
<1>5. 0 + at = at /\ 0 + (at + Len(p)) = at + Len(p) BY <1>1
<1>6. Len(Slice(b, 0, n)) = n BY <1>2, CutAt
<1> QED BY <1>1, <1>2, <1>4, <1>5, <1>6 DEF StandsAt

(* The end of a file that was cut is the beginning of the piece cut through.  *)
LEMMA EndOfCut ==
  ASSUME NEW b \in Seq(Byte), NEW p \in Seq(Byte), NEW at, StandsAt(p, b, at),
         NEW n \in Nat, at <= n, n <= at + Len(p)
  PROVE  Slice(Slice(b, 0, n), at, n) = Slice(p, 0, n - at)
<1>1. at \in Nat /\ Len(p) \in Nat /\ Slice(b, at, at + Len(p)) = p
      /\ at + Len(p) <= Len(b) /\ Len(b) \in Nat
  BY LenProperties DEF StandsAt
<1> DEFINE e == at + Len(p)
           m == n - at
<1>2. e \in Nat /\ m \in Nat /\ at <= e /\ e <= Len(b) /\ n <= Len(b) /\ m <= e - at
  BY <1>1
<1>3. IsSlice(b, at, e) BY <1>2 DEF IsSlice
<1>4. IsSlice(b, 0, n) /\ 0 \in Nat /\ n <= n - 0 BY <1>2 DEF IsSlice
<1>5. at + 0 = at /\ at + m = n /\ 0 + at = at /\ 0 + n = n BY <1>1
<1> HIDE DEF m
<1>6. Slice(Slice(b, at, e), 0, m) = Slice(b, at + 0, at + m)
  <2>1. 0 <= m BY <1>2
  <2> HIDE DEF e
  <2> QED BY <1>1, <1>2, <1>3, <1>4, <2>1, SliceOfSlice
<1>7. Slice(Slice(b, 0, n), at, n) = Slice(b, 0 + at, 0 + n)
  BY <1>1, <1>4, SliceOfSlice
<1> QED BY <1>1, <1>5, <1>6, <1>7 DEF m

(* The fixed part of a key that is still there is read as it was written, and *)
(* so are the trees behind it that are still there.                           *)
LEMMA SecretKeyHead ==
  ASSUME NEW k \in KeysInBytes, SecretKeyBytesLen(k) - 4 * Len(k.used_epochs) < U32Range,
         NEW n \in Nat, SecretKeyFixedSize <= n, n <= Len(EncodeSecretKey(k)),
         NEW b, b = Slice(EncodeSecretKey(k), 0, n)
  PROVE  LET h   == HASH_LENGTH
             pos == 2 * h
             o1  == SecretKeyFixedSize
             o2  == o1 + SubTreeBytesLen(k.top_tree)
             o3  == o2 + SubTreeBytesLen(k.left_bottom_tree)
             o4  == o3 + SubTreeBytesLen(k.right_bottom_tree)
             f   == FlattenSeq(EncodedEpochs(k.used_epochs))
         IN  /\ b \in Seq(Byte) /\ Len(b) = n
             /\ Offsets(b) = <<o1, o2, o3, o4, n>>
             /\ o1 \in Nat /\ o2 \in Nat /\ o3 \in Nat /\ o4 \in Nat
             /\ o1 <= o2 /\ o2 <= o3 /\ o3 <= o4 /\ n <= o4 + Len(f)
             /\ Slice(b, 0, h) = k.prf_key /\ Slice(b, h, pos) = k.parameter
             /\ U64At(b, pos) = k.activation_epoch
             /\ U64At(b, pos + 8) = k.num_active_epochs
             /\ U64At(b, pos + 20) = k.left_bottom_tree_index
             /\ SubTreeBytesLen(k.top_tree) \in Epoch
             /\ SubTreeBytesLen(k.left_bottom_tree) \in Epoch
             /\ SubTreeBytesLen(k.right_bottom_tree) \in Epoch
             /\ o4 <= n => /\ Slice(b, o1, o2) = EncodeSubTree(k.top_tree)
                           /\ Slice(b, o2, o3) = EncodeSubTree(k.left_bottom_tree)
                           /\ Slice(b, o3, o4) = EncodeSubTree(k.right_bottom_tree)
                           /\ Slice(b, o4, n) = Slice(f, 0, n - o4)
<1> DEFINE h   == HASH_LENGTH
           pos == 2 * h
           e   == EncodeSecretKey(k)
           t   == SubTreeBytesLen(k.top_tree)
           l   == SubTreeBytesLen(k.left_bottom_tree)
           r   == SubTreeBytesLen(k.right_bottom_tree)
           u   == 4 * Len(k.used_epochs)
           f   == FlattenSeq(EncodedEpochs(k.used_epochs))
           o1  == SecretKeyFixedSize
           o2  == o1 + t
           o3  == o2 + l
           o4  == o3 + r
<1>1. /\ e \in Seq(Byte) /\ Len(e) = o4 + u /\ Len(e) = SecretKeyBytesLen(k)
      /\ o1 = pos + 40 /\ o1 \in Nat /\ h \in Nat
      /\ t \in Nat /\ l \in Nat /\ r \in Nat /\ u \in Nat
      /\ StandsAt(k.prf_key, e, 0) /\ StandsAt(k.parameter, e, h)
      /\ StandsAt(U64(k.activation_epoch), e, pos)
      /\ StandsAt(U64(k.num_active_epochs), e, pos + 8)
      /\ StandsAt(U32(o1), e, pos + 16)
      /\ StandsAt(U64(k.left_bottom_tree_index), e, pos + 20)
      /\ StandsAt(U32(o2), e, pos + 28) /\ StandsAt(U32(o3), e, pos + 32)
      /\ StandsAt(U32(o4), e, pos + 36)
      /\ StandsAt(EncodeSubTree(k.top_tree), e, o1)
      /\ StandsAt(EncodeSubTree(k.left_bottom_tree), e, o2)
      /\ StandsAt(EncodeSubTree(k.right_bottom_tree), e, o3)
      /\ StandsAt(f, e, o4)
  BY SecretKeyParts
<1>2. /\ k.prf_key \in Hashes /\ k.parameter \in Hashes
      /\ k.activation_epoch \in U64Number /\ k.num_active_epochs \in U64Number
      /\ k.left_bottom_tree_index \in U64Number
      /\ k.top_tree \in SubTrees /\ k.left_bottom_tree \in SubTrees
      /\ k.right_bottom_tree \in SubTrees /\ k.used_epochs \in Seq(Epoch)
  BY DEF KeysInBytes
<1>3. h \in Nat /\ pos = h + h /\ pos \in Nat BY HashLengthAssumption
<1>4. /\ o1 \in Nat /\ t \in Nat /\ l \in Nat /\ r \in Nat /\ u \in Nat
      /\ o2 \in Nat /\ o3 \in Nat /\ o4 \in Nat /\ o1 <= o2 /\ o2 <= o3 /\ o3 <= o4
      /\ Len(e) = o4 + u
  <2>1. o1 \in Nat /\ t \in Nat /\ l \in Nat /\ r \in Nat /\ u \in Nat /\ Len(e) = o4 + u
    BY <1>1
  <2> HIDE DEF o1, t, l, r, u, e
  <2> QED BY <2>1
<1>5. f \in Seq(Byte) /\ Len(f) = u BY <1>2, ReadUsedEpochs
<1>6. /\ EncodeSubTree(k.top_tree) \in Seq(Byte) /\ Len(EncodeSubTree(k.top_tree)) = t
      /\ EncodeSubTree(k.left_bottom_tree) \in Seq(Byte)
      /\ Len(EncodeSubTree(k.left_bottom_tree)) = l
      /\ EncodeSubTree(k.right_bottom_tree) \in Seq(Byte)
      /\ Len(EncodeSubTree(k.right_bottom_tree)) = r
  BY <1>2, SubTreeParts
<1>7. o4 < U32Range /\ U32Range \in Nat
  <2>1. Len(e) - u < U32Range BY <1>1
  <2>2. U32Range \in Nat BY EpochNat
  <2> HIDE DEF e, u, o4
  <2> QED BY <1>4, <2>1, <2>2
<1>8. t \in Epoch /\ l \in Epoch /\ r \in Epoch
  <2> HIDE DEF e, t, l, r, o1, u
  <2>1. t <= o4 /\ l <= o4 /\ r <= o4 BY <1>4
  <2> QED BY <1>4, <1>7, <2>1 DEF Epoch
<1>9. o1 \in Epoch /\ o2 \in Epoch /\ o3 \in Epoch /\ o4 \in Epoch
  <2> HIDE DEF e, o1, o2, o3, o4, u
  <2>1. o1 <= o4 /\ o2 <= o4 /\ o3 <= o4 /\ o4 <= o4 BY <1>4
  <2> QED BY <1>4, <1>7, <2>1 DEF Epoch
<1> HIDE DEF h, pos, e, t, l, r, u, f
<1>10. b \in Seq(Byte) /\ Len(b) = n /\ n <= Len(e)
  <2>1. b = Slice(e, 0, n) /\ n <= Len(e) BY DEF e
  <2>2. 0 \in Nat /\ 0 <= n /\ n - 0 = n OBVIOUS
  <2> QED BY <1>1, <2>1, <2>2, CutAt, ZenonT(60)
<1>11. ASSUME NEW p \in Seq(Byte), NEW at, StandsAt(p, e, at), at + Len(p) <= n
       PROVE  StandsAt(p, b, at)
  BY <1>1, <1>10, <1>11, StandsInCut DEF e
<1> HIDE DEF o1
<1>12. o1 = pos + 40 /\ o1 <= n BY <1>1 DEF o1
<1>13. Slice(b, 0, h) = k.prf_key
  <2>1. k.prf_key \in Seq(Byte) /\ Len(k.prf_key) = h /\ 0 + h = h /\ h <= n
    BY <1>2, <1>3, <1>12, HashBytes DEF h
  <2>2. StandsAt(k.prf_key, b, 0) BY <1>1, <1>11, <2>1
  <2> QED BY <2>1, <2>2 DEF StandsAt
<1>14. Slice(b, h, pos) = k.parameter
  <2>1. k.parameter \in Seq(Byte) /\ Len(k.parameter) = h /\ h + h = pos /\ pos <= n
    BY <1>2, <1>3, <1>12, HashBytes DEF h
  <2>2. StandsAt(k.parameter, b, h) BY <1>1, <1>11, <2>1
  <2> QED BY <2>1, <2>2 DEF StandsAt
<1>15. ASSUME NEW x \in U64Number, NEW at \in Nat, StandsAt(U64(x), e, at), at + 8 <= n
       PROVE  U64At(b, at) = x
  <2>1. U64(x) \in Seq(Byte) /\ Len(U64(x)) = 8
    <3>1. x \in Nat BY EpochNat
    <3> QED BY <3>1, U64Bytes
  <2>2. StandsAt(U64(x), b, at) BY <1>11, <1>15, <2>1
  <2> QED BY <1>10, <2>2, ReadU64
<1>16. ASSUME NEW x \in Epoch, NEW at \in Nat, StandsAt(U32(x), e, at), at + 4 <= n
       PROVE  U32At(b, at) = x
  <2>1. U32(x) \in Seq(Byte) /\ Len(U32(x)) = 4
    <3>1. x \in Nat BY EpochNat
    <3> QED BY <3>1, U32Bytes
  <2>2. StandsAt(U32(x), b, at) BY <1>11, <1>16, <2>1
  <2> QED BY <1>10, <2>2, ReadU32
<1>17. /\ U64At(b, pos) = k.activation_epoch /\ U64At(b, pos + 8) = k.num_active_epochs
       /\ U64At(b, pos + 20) = k.left_bottom_tree_index
  <2>1. /\ pos + 8 \in Nat /\ pos + 20 \in Nat
        /\ pos + 8 <= n /\ (pos + 8) + 8 <= n /\ (pos + 20) + 8 <= n
    BY <1>3, <1>12
  <2> QED BY <1>1, <1>2, <1>3, <1>15, <2>1
<1>18. /\ U32At(b, pos + 16) = o1 /\ U32At(b, pos + 28) = o2
       /\ U32At(b, pos + 32) = o3 /\ U32At(b, pos + 36) = o4
  <2>1. /\ pos + 16 \in Nat /\ pos + 28 \in Nat /\ pos + 32 \in Nat /\ pos + 36 \in Nat
        /\ (pos + 16) + 4 <= n /\ (pos + 28) + 4 <= n /\ (pos + 32) + 4 <= n
        /\ (pos + 36) + 4 <= n
    BY <1>3, <1>12
  <2>2. /\ StandsAt(U32(o1), e, pos + 16) /\ StandsAt(U32(o2), e, pos + 28)
        /\ StandsAt(U32(o3), e, pos + 32) /\ StandsAt(U32(o4), e, pos + 36)
    BY <1>1 DEF o1
  <2> HIDE DEF o1, o2, o3, o4
  <2> QED BY <1>9, <1>16, <2>1, <2>2 DEF o1
<1>19. Offsets(b) = <<o1, o2, o3, o4, n>>
  <2> HIDE DEF o1, o2, o3, o4
  <2> QED BY <1>10, <1>18 DEF Offsets, pos, h
<1>20. n <= o4 + Len(f)
  <2>1. Len(e) = o4 + u BY <1>1 DEF o1
  <2> QED BY <1>5, <1>10, <2>1
<1>21. ASSUME o4 <= n
       PROVE  /\ Slice(b, o1, o2) = EncodeSubTree(k.top_tree)
              /\ Slice(b, o2, o3) = EncodeSubTree(k.left_bottom_tree)
              /\ Slice(b, o3, o4) = EncodeSubTree(k.right_bottom_tree)
              /\ Slice(b, o4, n) = Slice(f, 0, n - o4)
  <2>1. o1 \in Nat /\ o2 <= n /\ o3 <= n
    <3> HIDE DEF o2, o3, o4
    <3> QED BY <1>4, <1>21 DEF o1
  <2>2. StandsAt(EncodeSubTree(k.top_tree), b, o1)
    <3>1. o1 + Len(EncodeSubTree(k.top_tree)) = o2 BY <1>6
    <3>2. StandsAt(EncodeSubTree(k.top_tree), e, o1) BY <1>1 DEF o1
    <3> HIDE DEF o1, o2
    <3> QED BY <1>6, <1>11, <2>1, <3>1, <3>2
  <2>3. StandsAt(EncodeSubTree(k.left_bottom_tree), b, o2)
    <3>1. o2 + Len(EncodeSubTree(k.left_bottom_tree)) = o3 BY <1>6
    <3>2. StandsAt(EncodeSubTree(k.left_bottom_tree), e, o2) BY <1>1 DEF o1
    <3> HIDE DEF o2, o3
    <3> QED BY <1>6, <1>11, <2>1, <3>1, <3>2
  <2>4. StandsAt(EncodeSubTree(k.right_bottom_tree), b, o3)
    <3>1. o3 + Len(EncodeSubTree(k.right_bottom_tree)) = o4 BY <1>6
    <3>2. StandsAt(EncodeSubTree(k.right_bottom_tree), e, o3) BY <1>1 DEF o1
    <3> HIDE DEF o3, o4
    <3> QED BY <1>6, <1>11, <1>21, <3>1, <3>2
  <2>5. /\ Slice(b, o1, o2) = EncodeSubTree(k.top_tree)
        /\ Slice(b, o2, o3) = EncodeSubTree(k.left_bottom_tree)
        /\ Slice(b, o3, o4) = EncodeSubTree(k.right_bottom_tree)
    BY <1>6, <2>2, <2>3, <2>4 DEF StandsAt
  <2>6. StandsAt(f, e, o4) BY <1>1 DEF o1
  <2>7. b = Slice(e, 0, n) BY DEF e
  <2> HIDE DEF o2, o3, o4
  <2>8. Slice(b, o4, n) = Slice(f, 0, n - o4)
    BY <1>1, <1>5, <1>20, <1>21, <2>6, <2>7, EndOfCut
  <2> QED BY <2>5, <2>8
<1>22. o1 \in Nat BY <1>1 DEF o1
<1> QED BY <1>4, <1>8, <1>10, <1>13, <1>14, <1>17, <1>19, <1>20, <1>21, <1>22
        DEF h, pos, t, l, r, f, o1

LEMMA ReadSecretKey ==
  ASSUME NEW k \in KeysInBytes, SecretKeyBytesLen(k) - 4 * Len(k.used_epochs) < U32Range,
         NoOverflow(k), Decodable(k)
  PROVE  DecodeSecretKey(EncodeSecretKey(k)) = {k}
<1> DEFINE h   == HASH_LENGTH
           pos == 2 * h
           b   == EncodeSecretKey(k)
           n   == Len(b)
           o1  == SecretKeyFixedSize
           o2  == o1 + SubTreeBytesLen(k.top_tree)
           o3  == o2 + SubTreeBytesLen(k.left_bottom_tree)
           o4  == o3 + SubTreeBytesLen(k.right_bottom_tree)
           f   == FlattenSeq(EncodedEpochs(k.used_epochs))
           o   == <<o1, o2, o3, o4, n>>
<1>1. b \in Seq(Byte) /\ n \in Nat /\ n <= n /\ o1 <= n /\ b = Slice(b, 0, n)
  <2>1. /\ b \in Seq(Byte) /\ o1 \in Nat
        /\ n = o1 + SubTreeBytesLen(k.top_tree) + SubTreeBytesLen(k.left_bottom_tree)
                 + SubTreeBytesLen(k.right_bottom_tree) + 4 * Len(k.used_epochs)
        /\ SubTreeBytesLen(k.top_tree) \in Nat /\ SubTreeBytesLen(k.left_bottom_tree) \in Nat
        /\ SubTreeBytesLen(k.right_bottom_tree) \in Nat /\ 4 * Len(k.used_epochs) \in Nat
    BY SecretKeyParts
  <2>2. n \in Nat /\ b = Slice(b, 0, n) BY <2>1, SliceAll, LenProperties
  <2> HIDE DEF b, n, o1
  <2> QED BY <2>1, <2>2
<1>2. /\ Len(b) = n /\ Offsets(b) = o
      /\ o1 \in Nat /\ o2 \in Nat /\ o3 \in Nat /\ o4 \in Nat
      /\ o1 <= o2 /\ o2 <= o3 /\ o3 <= o4 /\ n <= o4 + Len(f)
      /\ Slice(b, 0, h) = k.prf_key /\ Slice(b, h, pos) = k.parameter
      /\ U64At(b, pos) = k.activation_epoch
      /\ U64At(b, pos + 8) = k.num_active_epochs
      /\ U64At(b, pos + 20) = k.left_bottom_tree_index
      /\ SubTreeBytesLen(k.top_tree) \in Epoch
      /\ SubTreeBytesLen(k.left_bottom_tree) \in Epoch
      /\ SubTreeBytesLen(k.right_bottom_tree) \in Epoch
      /\ o4 <= n => /\ Slice(b, o1, o2) = EncodeSubTree(k.top_tree)
                    /\ Slice(b, o2, o3) = EncodeSubTree(k.left_bottom_tree)
                    /\ Slice(b, o3, o4) = EncodeSubTree(k.right_bottom_tree)
                    /\ Slice(b, o4, n) = Slice(f, 0, n - o4)
  BY <1>1, SecretKeyHead
<1>3. n = o4 + Len(f) /\ f \in Seq(Byte) /\ DecodeUsedEpochs(f) = {k.used_epochs}
  <2>1. k.used_epochs \in Seq(Epoch) BY DEF KeysInBytes
  <2>2. f \in Seq(Byte) /\ Len(f) = 4 * Len(k.used_epochs)
        /\ DecodeUsedEpochs(f) = {k.used_epochs}
    BY <2>1, ReadUsedEpochs
  <2>3. n = o4 + 4 * Len(k.used_epochs) BY SecretKeyParts
  <2> QED BY <2>2, <2>3
<1>4. /\ k = [prf_key |-> k.prf_key, parameter |-> k.parameter,
              activation_epoch |-> k.activation_epoch,
              num_active_epochs |-> k.num_active_epochs,
              left_bottom_tree_index |-> k.left_bottom_tree_index,
              top_tree |-> k.top_tree, left_bottom_tree |-> k.left_bottom_tree,
              right_bottom_tree |-> k.right_bottom_tree, used_epochs |-> k.used_epochs]
      /\ k.top_tree \in SubTrees /\ k.left_bottom_tree \in SubTrees
      /\ k.right_bottom_tree \in SubTrees
  BY DEF KeysInBytes
<1>5. /\ DecodeSubTree(EncodeSubTree(k.top_tree)) = {k.top_tree}
      /\ DecodeSubTree(EncodeSubTree(k.left_bottom_tree)) = {k.left_bottom_tree}
      /\ DecodeSubTree(EncodeSubTree(k.right_bottom_tree)) = {k.right_bottom_tree}
  BY <1>2, <1>4, ReadSubTree
<1> HIDE DEF h, pos, b, n, o1, o2, o3, o4, f
<1>6. Len(f) \in Nat /\ o4 <= n /\ n - o4 = Len(f)
  <2>1. Len(f) \in Nat BY <1>3, LenProperties
  <2> QED BY <1>2, <1>3, <2>1
<1>7. Slice(b, o4, n) = f BY <1>2, <1>3, <1>6, SliceAll
<1>8. o[1] = o1 /\ o[2] = o2 /\ o[3] = o3 /\ o[4] = o4 /\ o[5] = n OBVIOUS
<1> HIDE DEF o
<1>9. ASSUME NEW i \in 1..4 PROVE o[i] <= o[i + 1] /\ o[i + 1] <= n
  <2>1. o1 <= o2 /\ o2 <= o3 /\ o3 <= o4 /\ o4 <= n /\ n <= n /\ o2 <= n /\ o3 <= n
    BY <1>1, <1>2, <1>6
  <2>2. i = 1 \/ i = 2 \/ i = 3 \/ i = 4 OBVIOUS
  <2>3. CASE i = 1 BY <1>8, <2>1, <2>3
  <2>4. CASE i = 2 BY <1>8, <2>1, <2>4
  <2>5. CASE i = 3 BY <1>8, <2>1, <2>5
  <2>6. CASE i = 4 BY <1>8, <2>1, <2>6
  <2> QED BY <2>2, <2>3, <2>4, <2>5, <2>6
<1>10. OffsetsOrdered(o) /\ \A i \in 1..4 : IsSlice(b, o[i], o[i + 1])
  BY <1>2, <1>9 DEF OffsetsOrdered, IsSlice
<1>11. /\ Slice(b, o[1], o[1 + 1]) = EncodeSubTree(k.top_tree)
       /\ Slice(b, o[2], o[2 + 1]) = EncodeSubTree(k.left_bottom_tree)
       /\ Slice(b, o[3], o[3 + 1]) = EncodeSubTree(k.right_bottom_tree)
       /\ Slice(b, o[4], o[4 + 1]) = f
  BY <1>2, <1>6, <1>7, <1>8
<1>12. SecretKeysRead(b, o)
         = {[prf_key |-> k.prf_key, parameter |-> k.parameter,
             activation_epoch |-> k.activation_epoch,
             num_active_epochs |-> k.num_active_epochs,
             left_bottom_tree_index |-> k.left_bottom_tree_index,
             top_tree |-> top, left_bottom_tree |-> left, right_bottom_tree |-> right,
             used_epochs |-> used] :
               top \in {k.top_tree}, left \in {k.left_bottom_tree},
               right \in {k.right_bottom_tree}, used \in {k.used_epochs}}
  BY <1>2, <1>3, <1>5, <1>11 DEF SecretKeysRead, h, pos
<1>13. SecretKeysRead(b, o) = {k} BY <1>4, <1>12
<1>14. ~(Len(b) < SecretKeyFixedSize) /\ o[1] = SecretKeyFixedSize
  <2>1. ~(n < o1)
    BY <1>1, <1>2
  <2> QED BY <1>2, <1>8, <2>1 DEF o1
<1>15. DecodeSecretKey(b) = {x \in {k} : NoOverflow(x) /\ Decodable(x)}
  BY <1>2, <1>10, <1>13, <1>14 DEF DecodeSecretKey
<1> QED BY <1>15 DEF b

(* The offsets of a file that has them in order slice it inside its bounds.   *)
LEMMA OffsetsInside ==
  ASSUME NEW b \in Seq(Byte), SecretKeyFixedSize <= Len(b),
         NEW o, o = Offsets(b), OffsetsOrdered(o)
  PROVE  /\ o[1] \in Nat /\ o[2] \in Nat /\ o[3] \in Nat /\ o[4] \in Nat
         /\ o[5] = Len(b) /\ Len(b) \in Nat
         /\ o[1] <= o[2] /\ o[2] <= o[3] /\ o[3] <= o[4] /\ o[4] <= o[5]
         /\ \A i \in 1..4 : IsSlice(b, o[i], o[i + 1])
<1> DEFINE pos == 2 * HASH_LENGTH
<1>1. pos \in Nat /\ pos + 40 <= Len(b) /\ Len(b) \in Nat
  BY HashLengthAssumption, LenProperties DEF SecretKeyFixedSize
<1>2. /\ o[1] = U32At(b, pos + 16) /\ o[2] = U32At(b, pos + 28) /\ o[3] = U32At(b, pos + 32)
      /\ o[4] = U32At(b, pos + 36) /\ o[5] = Len(b)
  BY DEF Offsets
<1> HIDE DEF pos
<1>3. ASSUME NEW at \in Nat, at + 4 <= Len(b) PROVE U32At(b, at) \in Nat
  BY <1>3, WriteU32, EpochNat
<1>4. o[1] \in Nat /\ o[2] \in Nat /\ o[3] \in Nat /\ o[4] \in Nat
  <2>1. /\ pos + 16 \in Nat /\ pos + 28 \in Nat /\ pos + 32 \in Nat /\ pos + 36 \in Nat
        /\ (pos + 16) + 4 <= Len(b) /\ (pos + 28) + 4 <= Len(b) /\ (pos + 32) + 4 <= Len(b)
        /\ (pos + 36) + 4 <= Len(b)
    BY <1>1
  <2> QED BY <1>2, <1>3, <2>1
<1>5. o[1] <= o[2] /\ o[2] <= o[3] /\ o[3] <= o[4] /\ o[4] <= o[5] 
  <2>1. \A i \in 1..4 : o[i] <= o[i + 1] BY DEF OffsetsOrdered
  <2>2. o[1] <= o[1 + 1] /\ o[2] <= o[2 + 1] /\ o[3] <= o[3 + 1] /\ o[4] <= o[4 + 1] BY <2>1
  <2> QED BY <2>2
<1>6. ASSUME NEW i \in 1..4 PROVE IsSlice(b, o[i], o[i + 1])
  <2>1. o[2] <= Len(b) /\ o[3] <= Len(b) /\ o[4] <= Len(b) /\ o[5] <= Len(b)
    BY <1>1, <1>2, <1>4, <1>5
  <2>2. i = 1 \/ i = 2 \/ i = 3 \/ i = 4 OBVIOUS
  <2>3. o[i] <= o[i + 1] BY DEF OffsetsOrdered
  <2>4. CASE i = 1 BY <2>1, <2>3, <2>4 DEF IsSlice
  <2>5. CASE i = 2 BY <2>1, <2>3, <2>5 DEF IsSlice
  <2>6. CASE i = 3 BY <2>1, <2>3, <2>6 DEF IsSlice
  <2>7. CASE i = 4 BY <2>1, <2>3, <2>7 DEF IsSlice
  <2> QED BY <2>2, <2>4, <2>5, <2>6, <2>7
<1> QED BY <1>1, <1>2, <1>4, <1>5, <1>6

LEMMA AcceptedSecretKey ==
  ASSUME NEW b \in Seq(Byte), NEW k, k \in DecodeSecretKey(b),
         NEW o, o = Offsets(b)
  PROVE  /\ SecretKeyFixedSize <= Len(b) /\ o[1] = SecretKeyFixedSize /\ OffsetsOrdered(o)
         /\ k \in SecretKeysRead(b, o) /\ NoOverflow(k) /\ Decodable(k)
<1>1. ~(Len(b) < SecretKeyFixedSize) BY DEF DecodeSecretKey
<1>2. SecretKeyFixedSize <= Len(b)
  <2>1. SecretKeyFixedSize \in Nat /\ Len(b) \in Nat
    BY HashLengthAssumption, LenProperties DEF SecretKeyFixedSize
  <2> QED BY <1>1, <2>1
<1>3. o[1] = SecretKeyFixedSize /\ OffsetsOrdered(o) BY <1>1 DEF DecodeSecretKey
<1>4. \A i \in 1..4 : IsSlice(b, o[i], o[i + 1]) BY <1>2, <1>3, OffsetsInside, SMTT(30)
<1>5. k \in {x \in SecretKeysRead(b, o) : NoOverflow(x) /\ Decodable(x)}
  BY <1>1, <1>3, <1>4 DEF DecodeSecretKey
<1> QED BY <1>2, <1>3, <1>5

LEMMA ThirteenCut ==
  ASSUME NEW b \in Seq(Byte), NEW o, Places(o, 13), o[1] = 0, o[14] = Len(b)
  PROVE  Slice(b, o[1], o[2]) \o Slice(b, o[2], o[3]) \o Slice(b, o[3], o[4])
             \o Slice(b, o[4], o[5]) \o Slice(b, o[5], o[6]) \o Slice(b, o[6], o[7])
             \o Slice(b, o[7], o[8]) \o Slice(b, o[8], o[9]) \o Slice(b, o[9], o[10])
             \o Slice(b, o[10], o[11]) \o Slice(b, o[11], o[12])
             \o Slice(b, o[12], o[13]) \o Slice(b, o[13], o[14])
           = b
<1> DEFINE n == 13
           p == [i \in 1..n |-> Slice(b, o[i], o[i + 1])]
<1>1. Len(b) \in Nat /\ o[n + 1] <= Len(b) /\ n \in Nat BY LenProperties
<1>2. p \in Seq(Seq(Byte)) /\ Len(p) = n /\ FlattenSeq(p) = Slice(b, o[1], o[n + 1])
  <2>1. p = [i \in 1..n |-> Slice(b, o[i], o[i + 1])] /\ Places(o, n) OBVIOUS
  <2> HIDE DEF p, n
  <2> QED BY <1>1, <2>1, JoinOfSlices
<1>3. ASSUME NEW i \in 1..13 PROVE p[i] = Slice(b, o[i], o[i + 1])
  OBVIOUS
<1> HIDE DEF p
<1>4. p[1] = Slice(b, o[1], o[2])
  <2>1. p[1] = Slice(b, o[1], o[1 + 1]) BY <1>3
  <2> QED BY <2>1
<1>5. p[2] = Slice(b, o[2], o[3])
  <2>1. p[2] = Slice(b, o[2], o[2 + 1]) BY <1>3
  <2> QED BY <2>1
<1>6. p[3] = Slice(b, o[3], o[4])
  <2>1. p[3] = Slice(b, o[3], o[3 + 1]) BY <1>3
  <2> QED BY <2>1
<1>7. p[4] = Slice(b, o[4], o[5])
  <2>1. p[4] = Slice(b, o[4], o[4 + 1]) BY <1>3
  <2> QED BY <2>1
<1>8. p[5] = Slice(b, o[5], o[6])
  <2>1. p[5] = Slice(b, o[5], o[5 + 1]) BY <1>3
  <2> QED BY <2>1
<1>9. p[6] = Slice(b, o[6], o[7])
  <2>1. p[6] = Slice(b, o[6], o[6 + 1]) BY <1>3
  <2> QED BY <2>1
<1>10. p[7] = Slice(b, o[7], o[8])
  <2>1. p[7] = Slice(b, o[7], o[7 + 1]) BY <1>3
  <2> QED BY <2>1
<1>11. p[8] = Slice(b, o[8], o[9])
  <2>1. p[8] = Slice(b, o[8], o[8 + 1]) BY <1>3
  <2> QED BY <2>1
<1>12. p[9] = Slice(b, o[9], o[10])
  <2>1. p[9] = Slice(b, o[9], o[9 + 1]) BY <1>3
  <2> QED BY <2>1
<1>13. p[10] = Slice(b, o[10], o[11])
  <2>1. p[10] = Slice(b, o[10], o[10 + 1]) BY <1>3
  <2> QED BY <2>1
<1>14. p[11] = Slice(b, o[11], o[12])
  <2>1. p[11] = Slice(b, o[11], o[11 + 1]) BY <1>3
  <2> QED BY <2>1
<1>15. p[12] = Slice(b, o[12], o[13])
  <2>1. p[12] = Slice(b, o[12], o[12 + 1]) BY <1>3
  <2> QED BY <2>1
<1>16. p[13] = Slice(b, o[13], o[14])
  <2>1. p[13] = Slice(b, o[13], o[13 + 1]) BY <1>3
  <2> QED BY <2>1
<1>17. FlattenSeq(p) = b BY <1>2, SliceAll
<1>18. FlattenSeq(p) = p[1] \o p[2] \o p[3] \o p[4] \o p[5] \o p[6] \o p[7]
                         \o p[8] \o p[9] \o p[10] \o p[11] \o p[12] \o p[13]
  BY <1>2, ThirteenPieces
<1> QED BY <1>4, <1>5, <1>6, <1>7, <1>8, <1>9, <1>10, <1>11, <1>12, <1>13, <1>14, <1>15, <1>16,
           <1>17, <1>18

LEMMA WriteSecretKey ==
  ASSUME NEW b \in Seq(Byte), NEW k, k \in DecodeSecretKey(b)
  PROVE  k \in KeysInBytes /\ EncodeSecretKey(k) = b
<1> DEFINE h   == HASH_LENGTH
           pos == 2 * h
           F   == SecretKeyFixedSize
           n   == Len(b)
           a   == Offsets(b)
           o1  == a[1]
           o2  == a[2]
           o3  == a[3]
           o4  == a[4]
           w   == <<0, h, pos, pos + 8, pos + 16, pos + 20, pos + 28, pos + 32, pos + 36,
                    o1, o2, o3, o4, n>>
<1>1. F <= n /\ o1 = F /\ OffsetsOrdered(a) /\ k \in SecretKeysRead(b, a)
  BY AcceptedSecretKey
<1>2. /\ o1 \in Nat /\ o2 \in Nat /\ o3 \in Nat /\ o4 \in Nat /\ n \in Nat /\ a[5] = n
      /\ o1 <= o2 /\ o2 <= o3 /\ o3 <= o4 /\ o4 <= n
  BY <1>1, OffsetsInside
<1>3. h \in Nat /\ pos \in Nat /\ pos = h + h /\ F = pos + 40
  BY HashLengthAssumption DEF SecretKeyFixedSize
<1>4. PICK top \in DecodeSubTree(Slice(b, o1, o2)), left \in DecodeSubTree(Slice(b, o2, o3)),
           right \in DecodeSubTree(Slice(b, o3, o4)), used \in DecodeUsedEpochs(Slice(b, o4, n)) :
             k = [prf_key |-> Slice(b, 0, h), parameter |-> Slice(b, h, pos),
                  activation_epoch |-> U64At(b, pos), num_active_epochs |-> U64At(b, pos + 8),
                  left_bottom_tree_index |-> U64At(b, pos + 20),
                  top_tree |-> top, left_bottom_tree |-> left, right_bottom_tree |-> right,
                  used_epochs |-> used]
  BY <1>1, <1>2 DEF SecretKeysRead
<1>5. /\ U32At(b, pos + 16) = o1 /\ U32At(b, pos + 28) = o2
      /\ U32At(b, pos + 32) = o3 /\ U32At(b, pos + 36) = o4
  BY DEF Offsets
<1>6. /\ pos + 8 \in Nat /\ pos + 16 \in Nat /\ pos + 20 \in Nat /\ pos + 28 \in Nat
      /\ pos + 32 \in Nat /\ pos + 36 \in Nat /\ pos + 40 <= n /\ h <= pos
  BY <1>1, <1>3
<1> HIDE DEF h, pos, F, n, o1, o2, o3, o4
<1>7. /\ k.prf_key = Slice(b, 0, h) /\ k.parameter = Slice(b, h, pos)
      /\ k.activation_epoch = U64At(b, pos) /\ k.num_active_epochs = U64At(b, pos + 8)
      /\ k.left_bottom_tree_index = U64At(b, pos + 20)
      /\ k.top_tree = top /\ k.left_bottom_tree = left /\ k.right_bottom_tree = right
      /\ k.used_epochs = used
  BY <1>4
<1>8. /\ Slice(b, o1, o2) \in Seq(Byte) /\ Len(Slice(b, o1, o2)) = o2 - o1
      /\ Slice(b, o2, o3) \in Seq(Byte) /\ Len(Slice(b, o2, o3)) = o3 - o2
      /\ Slice(b, o3, o4) \in Seq(Byte) /\ Len(Slice(b, o3, o4)) = o4 - o3
      /\ Slice(b, o4, n) \in Seq(Byte)
  <2>1. o2 <= n /\ o3 <= n /\ n <= n BY <1>2
  <2> QED BY <1>2, <2>1, CutAt DEF n
<1>9. /\ top \in SubTrees /\ EncodeSubTree(top) = Slice(b, o1, o2)
      /\ o1 + SubTreeBytesLen(top) = o2
  <2>1. SubTreeBytesLen(top) = o2 - o1 BY <1>8, WriteSubTree
  <2> QED BY <1>2, <1>8, <2>1, WriteSubTree
<1>10. /\ left \in SubTrees /\ EncodeSubTree(left) = Slice(b, o2, o3)
       /\ o2 + SubTreeBytesLen(left) = o3
  <2>1. SubTreeBytesLen(left) = o3 - o2 BY <1>8, WriteSubTree
  <2> QED BY <1>2, <1>8, <2>1, WriteSubTree
<1>11. /\ right \in SubTrees /\ EncodeSubTree(right) = Slice(b, o3, o4)
       /\ o3 + SubTreeBytesLen(right) = o4
  <2>1. SubTreeBytesLen(right) = o4 - o3 BY <1>8, WriteSubTree
  <2> QED BY <1>2, <1>8, <2>1, WriteSubTree
<1>12. used \in Seq(Epoch) /\ FlattenSeq(EncodedEpochs(used)) = Slice(b, o4, n)
  BY <1>8, WriteUsedEpochs
<1>13. Slice(b, 0, h) \in Hashes /\ Slice(b, h, pos) \in Hashes
  <2>1. 0 \in Nat /\ 0 <= h /\ h <= n /\ pos <= n /\ h - 0 = h /\ pos - h = h
    BY <1>2, <1>3, <1>6
  <2>2. /\ Slice(b, 0, h) \in Seq(Byte) /\ Len(Slice(b, 0, h)) = h
        /\ Slice(b, h, pos) \in Seq(Byte) /\ Len(Slice(b, h, pos)) = h
    BY <1>3, <1>6, <2>1, CutAt DEF n
  <2> QED BY <2>2, BytesHash DEF h
<1>14. ASSUME NEW at \in Nat, NEW end, end = at + 8, end <= n
       PROVE  U64At(b, at) \in U64Number /\ U64(U64At(b, at)) = Slice(b, at, end)
  BY <1>14, WriteU64 DEF n
<1>15. ASSUME NEW at \in Nat, NEW end, end = at + 4, end <= n
       PROVE  U32(U32At(b, at)) = Slice(b, at, end)
  BY <1>15, WriteU32 DEF n
<1>16. /\ U64At(b, pos) \in U64Number /\ U64(U64At(b, pos)) = Slice(b, pos, pos + 8)
       /\ U64At(b, pos + 8) \in U64Number
       /\ U64(U64At(b, pos + 8)) = Slice(b, pos + 8, pos + 16)
       /\ U64At(b, pos + 20) \in U64Number
       /\ U64(U64At(b, pos + 20)) = Slice(b, pos + 20, pos + 28)
  <2>1. /\ pos + 16 = (pos + 8) + 8 /\ pos + 28 = (pos + 20) + 8
        /\ pos + 8 <= n /\ pos + 16 <= n /\ pos + 28 <= n
    BY <1>2, <1>3, <1>6
  <2> QED BY <1>3, <1>6, <1>14, <2>1
<1>17. /\ U32(o1) = Slice(b, pos + 16, pos + 20) /\ U32(o2) = Slice(b, pos + 28, pos + 32)
       /\ U32(o3) = Slice(b, pos + 32, pos + 36) /\ U32(o4) = Slice(b, pos + 36, o1)
  <2>1. /\ pos + 20 = (pos + 16) + 4 /\ pos + 32 = (pos + 28) + 4
        /\ pos + 36 = (pos + 32) + 4 /\ o1 = (pos + 36) + 4
        /\ pos + 20 <= n /\ pos + 32 <= n /\ pos + 36 <= n /\ o1 <= n
    BY <1>1, <1>2, <1>3, <1>6
  <2> QED BY <1>5, <1>6, <1>15, <2>1
<1> DEFINE p == SecretKeyPieces(k)
<1>18. /\ p[1] = k.prf_key /\ p[2] = k.parameter /\ p[3] = U64(k.activation_epoch)
       /\ p[4] = U64(k.num_active_epochs) /\ p[5] = U32(F)
       /\ p[6] = U64(k.left_bottom_tree_index) /\ p[7] = U32(F + SubTreeBytesLen(k.top_tree))
       /\ p[8] = U32(F + SubTreeBytesLen(k.top_tree) + SubTreeBytesLen(k.left_bottom_tree))
       /\ p[9] = U32(F + SubTreeBytesLen(k.top_tree) + SubTreeBytesLen(k.left_bottom_tree)
                       + SubTreeBytesLen(k.right_bottom_tree))
       /\ p[10] = EncodeSubTree(k.top_tree) /\ p[11] = EncodeSubTree(k.left_bottom_tree)
       /\ p[12] = EncodeSubTree(k.right_bottom_tree)
       /\ p[13] = FlattenSeq(EncodedEpochs(k.used_epochs))
  BY DEF SecretKeyPieces, F
<1> HIDE DEF p
<1>19. /\ p[1] = Slice(b, 0, h) /\ p[2] = Slice(b, h, pos) /\ p[3] = Slice(b, pos, pos + 8)
       /\ p[4] = Slice(b, pos + 8, pos + 16) /\ p[6] = Slice(b, pos + 20, pos + 28)
       /\ p[10] = Slice(b, o1, o2) /\ p[11] = Slice(b, o2, o3) /\ p[12] = Slice(b, o3, o4)
       /\ p[13] = Slice(b, o4, n)
  BY <1>7, <1>9, <1>10, <1>11, <1>12, <1>16, <1>18
<1>20. /\ p[5] = Slice(b, pos + 16, pos + 20) /\ p[7] = Slice(b, pos + 28, pos + 32)
       /\ p[8] = Slice(b, pos + 32, pos + 36) /\ p[9] = Slice(b, pos + 36, o1)
  BY <1>1, <1>7, <1>9, <1>10, <1>11, <1>17, <1>18
<1>21. /\ w[1] = 0 /\ w[2] = h /\ w[3] = pos /\ w[4] = pos + 8 /\ w[5] = pos + 16
       /\ w[6] = pos + 20 /\ w[7] = pos + 28 /\ w[8] = pos + 32 /\ w[9] = pos + 36
       /\ w[10] = o1 /\ w[11] = o2 /\ w[12] = o3 /\ w[13] = o4 /\ w[14] = n
  OBVIOUS
<1> HIDE DEF w
<1>22. Places(w, 13)
  <2>1. ASSUME NEW i \in 1..13 PROVE w[i] \in Nat /\ w[i] <= w[i + 1]
    <3>1. CASE i = 1
      <4>1. w[1] \in Nat /\ w[1] <= w[2] BY <1>1, <1>2, <1>3, <1>6, <1>21
      <4> QED BY <3>1, <4>1
    <3>2. CASE i = 2
      <4>1. w[2] \in Nat /\ w[2] <= w[3] BY <1>1, <1>2, <1>3, <1>6, <1>21
      <4> QED BY <3>2, <4>1
    <3>3. CASE i = 3
      <4>1. w[3] \in Nat /\ w[3] <= w[4] BY <1>1, <1>2, <1>3, <1>6, <1>21
      <4> QED BY <3>3, <4>1
    <3>4. CASE i = 4
      <4>1. w[4] \in Nat /\ w[4] <= w[5] BY <1>1, <1>2, <1>3, <1>6, <1>21
      <4> QED BY <3>4, <4>1
    <3>5. CASE i = 5
      <4>1. w[5] \in Nat /\ w[5] <= w[6] BY <1>1, <1>2, <1>3, <1>6, <1>21
      <4> QED BY <3>5, <4>1
    <3>6. CASE i = 6
      <4>1. w[6] \in Nat /\ w[6] <= w[7] BY <1>1, <1>2, <1>3, <1>6, <1>21
      <4> QED BY <3>6, <4>1
    <3>7. CASE i = 7
      <4>1. w[7] \in Nat /\ w[7] <= w[8] BY <1>1, <1>2, <1>3, <1>6, <1>21
      <4> QED BY <3>7, <4>1
    <3>8. CASE i = 8
      <4>1. w[8] \in Nat /\ w[8] <= w[9] BY <1>1, <1>2, <1>3, <1>6, <1>21
      <4> QED BY <3>8, <4>1
    <3>9. CASE i = 9
      <4>1. w[9] \in Nat /\ w[9] <= w[10] BY <1>1, <1>2, <1>3, <1>6, <1>21
      <4> QED BY <3>9, <4>1
    <3>10. CASE i = 10
      <4>1. w[10] \in Nat /\ w[10] <= w[11] BY <1>1, <1>2, <1>3, <1>6, <1>21
      <4> QED BY <3>10, <4>1
    <3>11. CASE i = 11
      <4>1. w[11] \in Nat /\ w[11] <= w[12] BY <1>1, <1>2, <1>3, <1>6, <1>21
      <4> QED BY <3>11, <4>1
    <3>12. CASE i = 12
      <4>1. w[12] \in Nat /\ w[12] <= w[13] BY <1>1, <1>2, <1>3, <1>6, <1>21
      <4> QED BY <3>12, <4>1
    <3>13. CASE i = 13
      <4>1. w[13] \in Nat /\ w[13] <= w[14] BY <1>1, <1>2, <1>3, <1>6, <1>21
      <4> QED BY <3>13, <4>1
    <3> QED BY <3>1, <3>2, <3>3, <3>4, <3>5, <3>6, <3>7, <3>8, <3>9, <3>10, <3>11, <3>12, <3>13,
               OneOfThirteen
  <2>2. ASSUME NEW i \in 1..14 PROVE w[i] \in Nat
    <3>1. i = 14 \/ i \in 1..13 OBVIOUS
    <3>2. w[14] \in Nat BY <1>2, <1>21
    <3> QED BY <2>1, <3>1, <3>2
  <2>3. (\A i \in 1..13 + 1 : w[i] \in Nat) /\ (\A i \in 1..13 : w[i] <= w[i + 1])
    BY <2>1, <2>2
  <2> QED BY <2>3 DEF Places
<1>23. p[1] \o p[2] \o p[3] \o p[4] \o p[5] \o p[6] \o p[7]
         \o p[8] \o p[9] \o p[10] \o p[11] \o p[12] \o p[13] = b
  <2>1. w[1] = 0 /\ w[14] = Len(b) BY <1>21 DEF n
  <2>2. Slice(b, w[1], w[2]) \o Slice(b, w[2], w[3]) \o Slice(b, w[3], w[4])
          \o Slice(b, w[4], w[5]) \o Slice(b, w[5], w[6]) \o Slice(b, w[6], w[7])
          \o Slice(b, w[7], w[8]) \o Slice(b, w[8], w[9]) \o Slice(b, w[9], w[10])
          \o Slice(b, w[10], w[11]) \o Slice(b, w[11], w[12])
          \o Slice(b, w[12], w[13]) \o Slice(b, w[13], w[14]) = b
    BY <1>22, <2>1, ThirteenCut
  <2> QED BY <1>19, <1>20, <1>21, <2>2
<1>24. EncodeSecretKey(k) = b BY <1>23, EncodedSecretKey DEF p
<1>25. k \in KeysInBytes
  BY <1>4, <1>7, <1>9, <1>10, <1>11, <1>12, <1>13, <1>16 DEF KeysInBytes
<1> QED BY <1>24, <1>25

-------------------------------------------------------------------------------
(* A file that was cut short.                                                 *)
LEMMA FixedPrefix ==
  ASSUME NEW h \in Nat \ {0}, NEW x \in Seq(Seq(Byte)), NEW y \in Seq(Seq(Byte)),
         \A i \in 1..Len(x) : Len(x[i]) = h, \A i \in 1..Len(y) : Len(y[i]) = h,
         NEW m \in Nat, m < Len(FlattenSeq(x)), FlattenSeq(y) = Slice(FlattenSeq(x), 0, m)
  PROVE  Len(y) < Len(x) /\ \A i \in 1..Len(y) : y[i] = x[i]
<1> DEFINE X == FlattenSeq(x)
           Y == FlattenSeq(y)
           c == Len(x)
           d == Len(y)
<1>1. c \in Nat /\ d \in Nat BY LenProperties
<1>2. /\ X \in Seq(Byte) /\ Len(X) = h * c
      /\ \A i \in 1..c : i * h <= Len(X) /\ Slice(X, (i - 1) * h, i * h) = x[i]
  BY FixedOfJoin
<1>3. /\ Y \in Seq(Byte) /\ Len(Y) = h * d
      /\ \A i \in 1..d : i * h <= Len(Y) /\ Slice(Y, (i - 1) * h, i * h) = y[i]
  BY FixedOfJoin
<1>4. m < Len(X) /\ Y = Slice(X, 0, m) OBVIOUS
<1> HIDE DEF X, Y, c, d
<1>5. Len(X) \in Nat /\ m <= Len(X) BY <1>2, <1>4, LenProperties
<1>6. Len(Y) = m /\ IsSlice(X, 0, m)
  <2>1. 0 \in Nat /\ 0 <= m /\ m - 0 = m OBVIOUS
  <2> QED BY <1>2, <1>4, <1>5, <2>1, SliceOf DEF IsSlice
<1>7. d < c
  <2> SUFFICES ASSUME ~(d < c) PROVE FALSE OBVIOUS
  <2>1. d - c \in Nat BY <1>1
  <2>2. h * (d - c) \in Nat BY <2>1
  <2>3. h * (d - c) = h * d - h * c BY <1>1
  <2>4. h * d < h * c /\ h * d \in Nat /\ h * c \in Nat BY <1>2, <1>3, <1>4, <1>5, <1>6
  <2> QED BY <2>2, <2>3, <2>4
<1>8. ASSUME NEW i \in 1..d PROVE y[i] = x[i]
  <2> DEFINE a == (i - 1) * h
             z == i * h
  <2>1. i \in Nat /\ i - 1 \in Nat BY <1>1
  <2>2. a \in Nat /\ z \in Nat /\ z = a + h BY <2>1
  <2>3. z <= m /\ Slice(Y, a, z) = y[i] BY <1>3, <1>6
  <2>4. i \in 1..c BY <1>1, <1>7
  <2>5. Slice(X, a, z) = x[i] BY <1>2, <2>4
  <2> HIDE DEF a, z
  <2>6. a <= z /\ z <= m - 0 /\ 0 \in Nat BY <2>2, <2>3
  <2>7. Slice(Slice(X, 0, m), a, z) = Slice(X, 0 + a, 0 + z)
    BY <1>2, <1>6, <2>2, <2>6, SliceOfSlice
  <2>8. 0 + a = a /\ 0 + z = z BY <2>2
  <2> QED BY <1>4, <2>3, <2>5, <2>7, <2>8
<1> QED BY <1>7, <1>8 DEF c, d

LEMMA ProperPrefix ==
  ASSUME NEW T, NEW s \in Seq(T), NEW t \in Seq(T), Len(s) < Len(t),
         \A i \in 1..Len(s) : s[i] = t[i]
  PROVE  IsProperPrefixOf(s, t)
<1> DEFINE n == Len(s)
<1>1. n \in Nat /\ Len(t) \in Nat /\ s = [i \in 1..n |-> s[i]] BY LenProperties
<1>2. 0 \in Nat /\ IsSlice(t, 0, n) /\ n - 0 = n
  <2> HIDE DEF n
  <2>1. n < Len(t) BY DEF n
  <2> QED BY <1>1, <2>1 DEF IsSlice
<1> DEFINE u == Slice(t, 0, n)
<1>3. u \in Seq(T) /\ Len(u) = n /\ \A i \in 1..n : u[i] = t[0 + i]
  <2> HIDE DEF n
  <2>1. /\ u \in Seq(T) /\ Len(u) = n - 0
        /\ \A i \in 1..n - 0 : u[i] = t[0 + i]
    BY <1>1, <1>2, SliceOf
  <2> QED BY <1>2, <2>1
<1>4. u = SubSeq(t, 1, n)
  <2>1. 0 + 1 = 1 OBVIOUS
  <2> QED BY <2>1 DEF Slice
<1> HIDE DEF u
<1>5. \A i \in 1..n : u[i] = s[i]
  <2>1. \A i \in 1..n : 0 + i = i /\ s[i] = t[i] BY <1>1
  <2> QED BY <1>3, <2>1
<1>6. u = s BY <1>3, <1>5, SeqEqual
<1> QED BY <1>4, <1>6 DEF IsProperPrefixOf

LEMMA HashesPrefix ==
  ASSUME NEW x \in Seq(Hashes), NEW y \in Seq(Hashes), NEW m \in Nat,
         m < Len(FlattenSeq(x)), FlattenSeq(y) = Slice(FlattenSeq(x), 0, m)
  PROVE  IsProperPrefixOf(y, x)
<1>1. \A i \in 1..Len(x) : Len(x[i]) = HASH_LENGTH BY ElementOfSeq, HashBytes
<1>2. \A i \in 1..Len(y) : Len(y[i]) = HASH_LENGTH BY ElementOfSeq, HashBytes
<1>3. x \in Seq(Seq(Byte)) /\ y \in Seq(Seq(Byte))
  <2>1. Hashes \subseteq Seq(Byte) BY HashBytes
  <2> QED BY <2>1, SeqMonotonic
<1>4. Len(y) < Len(x) /\ \A i \in 1..Len(y) : y[i] = x[i]
  BY <1>1, <1>2, <1>3, HashLengthAssumption, FixedPrefix
<1> QED BY <1>4, ProperPrefix

LEMMA EpochsPrefix ==
  ASSUME NEW x \in Seq(Epoch), NEW y \in Seq(Epoch), NEW m \in Nat,
         m < Len(FlattenSeq(EncodedEpochs(x))),
         FlattenSeq(EncodedEpochs(y)) = Slice(FlattenSeq(EncodedEpochs(x)), 0, m)
  PROVE  IsProperPrefixOf(y, x)
<1> DEFINE X == EncodedEpochs(x)
           Y == EncodedEpochs(y)
<1>1. /\ X \in Seq(Seq(Byte)) /\ Len(X) = Len(x) /\ Len(x) \in Nat
      /\ \A i \in 1..Len(x) : X[i] = U32(x[i]) /\ Len(X[i]) = 4 /\ x[i] \in Epoch
  BY EpochsInBytes
<1>2. /\ Y \in Seq(Seq(Byte)) /\ Len(Y) = Len(y) /\ Len(y) \in Nat
      /\ \A i \in 1..Len(y) : Y[i] = U32(y[i]) /\ Len(Y[i]) = 4 /\ y[i] \in Epoch
  BY EpochsInBytes
<1>3. m < Len(FlattenSeq(X)) /\ FlattenSeq(Y) = Slice(FlattenSeq(X), 0, m) OBVIOUS
<1> HIDE DEF X, Y
<1>4. Len(Y) < Len(X) /\ \A i \in 1..Len(Y) : Y[i] = X[i]
  <2> DEFINE h == 4
  <2>1. h \in Nat \ {0} OBVIOUS
  <2>2. /\ \A i \in 1..Len(X) : Len(X[i]) = h
        /\ \A i \in 1..Len(Y) : Len(Y[i]) = h
    BY <1>1, <1>2
  <2> HIDE DEF h
  <2> QED BY <1>1, <1>2, <1>3, <2>1, <2>2, FixedPrefix
<1>5. ASSUME NEW n \in Epoch PROVE U32At(U32(n), 0) = n
  <2>1. U32(n) \in Seq(Byte)
    <3>1. n \in Nat BY EpochNat
    <3> QED BY <3>1, U32Bytes
  <2> QED BY <2>1, StandsAlone, ReadU32
<1>6. ASSUME NEW i \in 1..Len(y) PROVE y[i] = x[i]
  <2>1. i \in 1..Len(x) BY <1>1, <1>2, <1>4
  <2>2. U32(y[i]) = U32(x[i]) BY <1>1, <1>2, <1>4, <2>1
  <2>3. U32At(U32(x[i]), 0) = x[i] BY <1>1, <1>5, <2>1
  <2>4. U32At(U32(y[i]), 0) = y[i] BY <1>2, <1>5
  <2> QED BY <2>2, <2>3, <2>4
<1>7. Len(y) < Len(x) BY <1>1, <1>2, <1>4
<1> QED BY <1>6, <1>7, ProperPrefix

LEMMA CutSignature ==
  ASSUME NEW sig \in Signatures, SignatureFixedSize + OpeningBytesLen(sig.path) < U32Range,
         NEW n \in Nat, n < Len(EncodeSignature(sig)),
         NEW b, b = Slice(EncodeSignature(sig), 0, n),
         NEW d, d \in DecodeSignature(b)
  PROVE  d = [sig EXCEPT !.hashes = d.hashes] /\ IsProperPrefixOf(d.hashes, sig.hashes)
<1> DEFINE h  == HASH_LENGTH
           e  == EncodeSignature(sig)
           F  == SignatureFixedSize
           oh == F + OpeningBytesLen(sig.path)
           f  == FlattenSeq(sig.hashes)
           g  == EncodeOpening(sig.path)
<1>1. /\ e \in Seq(Byte) /\ Len(e) = SignatureBytesLen(sig)
      /\ F \in Nat /\ oh \in Nat /\ F <= oh /\ oh <= Len(e)
      /\ StandsAt(sig.rho, e, 4) /\ StandsAt(U32(oh), e, 4 + h)
      /\ StandsAt(g, e, F) /\ StandsAt(f, e, oh)
      /\ Slice(e, F, oh) = g /\ Slice(e, oh, Len(e)) = f
  BY SignatureParts
<1>2. /\ sig.path \in Openings /\ sig.rho \in Hashes /\ sig.hashes \in Seq(Hashes)
      /\ sig = [path |-> sig.path, rho |-> sig.rho, hashes |-> sig.hashes]
  BY DEF Signatures
<1>3. f \in Seq(Byte) /\ g \in Seq(Byte) /\ DecodeOpening(g) = {sig.path}
      /\ F + Len(g) = oh
  BY <1>2, ReadHashes, ReadOpening
<1>4. h \in Nat /\ F = 8 + h BY HashLengthAssumption DEF SignatureFixedSize
<1>5. b = Slice(e, 0, n) /\ n < Len(e) /\ oh < U32Range OBVIOUS
<1> HIDE DEF e, F, f, g, oh
<1>6. b \in Seq(Byte) /\ Len(b) = n /\ Len(e) \in Nat /\ n <= Len(e)
  <2>1. Len(e) \in Nat /\ n <= Len(e) /\ 0 \in Nat /\ 0 <= n /\ n - 0 = n
    BY <1>1, <1>5, LenProperties
  <2> QED BY <1>1, <1>5, <2>1, CutAt
<1>7. F <= Len(b) /\ F <= U32At(b, 4 + h) /\ U32At(b, 4 + h) <= Len(b)
  BY <1>6, AcceptedSignature DEF F
<1>8. U32At(b, 4 + h) = oh
  <2>1. oh \in Epoch BY <1>1, <1>5, <1>6, EpochNat DEF Epoch
  <2>2. U32(oh) \in Seq(Byte) /\ Len(U32(oh)) = 4 BY <1>1, U32Bytes
  <2>3. (4 + h) + 4 <= n BY <1>4, <1>6, <1>7
  <2>4. StandsAt(U32(oh), b, 4 + h) BY <1>1, <1>5, <1>6, <2>2, <2>3, StandsInCut
  <2> QED BY <1>6, <2>1, <2>4, ReadU32
<1>9. Slice(b, 4, 4 + h) = sig.rho
  <2>1. sig.rho \in Seq(Byte) /\ Len(sig.rho) = h BY <1>2, HashBytes
  <2>2. 4 + h <= n BY <1>4, <1>6, <1>7
  <2>3. StandsAt(sig.rho, b, 4) BY <1>1, <1>5, <1>6, <2>1, <2>2, StandsInCut
  <2> QED BY <2>1, <2>3 DEF StandsAt
<1>10. Slice(b, F, oh) = g
  <2>1. oh <= n BY <1>6, <1>7, <1>8
  <2>2. StandsAt(g, b, F) BY <1>1, <1>3, <1>5, <1>6, <2>1, StandsInCut
  <2> QED BY <1>3, <2>2 DEF StandsAt
<1>11. PICK path \in DecodeOpening(Slice(b, F, oh)), hashes \in DecodeHashes(Slice(b, oh, n)) :
              d = [path |-> path, rho |-> Slice(b, 4, 4 + h), hashes |-> hashes]
  BY <1>6, <1>8, AcceptedSignature DEF F
<1>12. path = sig.path BY <1>3, <1>10
<1>13. /\ Slice(b, oh, n) = Slice(f, 0, n - oh) /\ n - oh \in Nat /\ n - oh < Len(f)
       /\ Slice(b, oh, n) \in Seq(Byte)
  <2>1. oh <= n /\ n <= Len(b) BY <1>6, <1>7, <1>8
  <2>2. oh + Len(f) = Len(e)
    <3>1. Len(f) = Len(e) - oh
      <4>1. Len(e) <= Len(e) BY <1>6
      <4> QED BY <1>1, <1>6, <4>1, CutAt
    <3> QED BY <1>1, <1>6, <3>1
  <2>3. Len(f) \in Nat BY <1>3, LenProperties
  <2>4. n <= oh + Len(f) BY <1>6, <2>2
  <2>5. Slice(b, oh, n) = Slice(f, 0, n - oh)
    <3>1. e \in Seq(Byte) /\ f \in Seq(Byte) /\ StandsAt(f, e, oh) BY <1>1, <1>3
    <3>2. Slice(Slice(e, 0, n), oh, n) = Slice(f, 0, n - oh)
      BY <2>1, <2>4, <3>1, EndOfCut
    <3> QED BY <1>5, <3>2
  <2>6. Slice(b, oh, n) \in Seq(Byte) BY <1>1, <1>6, <2>1, CutAt
  <2> QED BY <1>1, <1>5, <1>6, <2>1, <2>2, <2>3, <2>5, <2>6
<1>14. hashes \in Seq(Hashes) /\ FlattenSeq(hashes) = Slice(f, 0, n - oh)
  BY <1>13, WriteHashes
<1>15. IsProperPrefixOf(hashes, sig.hashes)
  BY <1>2, <1>13, <1>14, HashesPrefix DEF f
<1>16. d = [path |-> sig.path, rho |-> sig.rho, hashes |-> hashes] BY <1>9, <1>11, <1>12
<1>17. d = [sig EXCEPT !.hashes = d.hashes]
  <2>1. [sig EXCEPT !.hashes = hashes] = [path |-> sig.path, rho |-> sig.rho, hashes |-> hashes]
    BY <1>2
  <2> QED BY <1>16, <2>1
<1> QED BY <1>15, <1>16, <1>17

LEMMA CutSecretKey ==
  ASSUME NEW k \in KeysInBytes, SecretKeyBytesLen(k) - 4 * Len(k.used_epochs) < U32Range,
         NEW n \in Nat, n < Len(EncodeSecretKey(k)),
         NEW b, b = Slice(EncodeSecretKey(k), 0, n),
         NEW d, d \in DecodeSecretKey(b)
  PROVE  d = [k EXCEPT !.used_epochs = d.used_epochs]
         /\ IsProperPrefixOf(d.used_epochs, k.used_epochs)
<1> DEFINE h   == HASH_LENGTH
           pos == 2 * h
           e   == EncodeSecretKey(k)
           o1  == SecretKeyFixedSize
           o2  == o1 + SubTreeBytesLen(k.top_tree)
           o3  == o2 + SubTreeBytesLen(k.left_bottom_tree)
           o4  == o3 + SubTreeBytesLen(k.right_bottom_tree)
           f   == FlattenSeq(EncodedEpochs(k.used_epochs))
           o   == Offsets(b)
<1>1. e \in Seq(Byte) /\ Len(e) \in Nat /\ Len(e) = o4 + 4 * Len(k.used_epochs)
  BY SecretKeyParts, LenProperties
<1>2. b \in Seq(Byte) /\ Len(b) = n /\ n <= Len(e)
  <2>1. b = Slice(e, 0, n) /\ n < Len(e) OBVIOUS
  <2> HIDE DEF e
  <2>2. n <= Len(e) /\ 0 \in Nat /\ 0 <= n /\ n - 0 = n BY <1>1, <2>1
  <2> QED BY <1>1, <2>1, <2>2, CutAt
<1>3. o1 <= n /\ OffsetsOrdered(o) /\ d \in SecretKeysRead(b, o)
  BY <1>2, AcceptedSecretKey
<1>4. /\ o = <<o1, o2, o3, o4, n>>
      /\ o1 \in Nat /\ o2 \in Nat /\ o3 \in Nat /\ o4 \in Nat
      /\ o1 <= o2 /\ o2 <= o3 /\ o3 <= o4 /\ n <= o4 + Len(f)
      /\ Slice(b, 0, h) = k.prf_key /\ Slice(b, h, pos) = k.parameter
      /\ U64At(b, pos) = k.activation_epoch
      /\ U64At(b, pos + 8) = k.num_active_epochs
      /\ U64At(b, pos + 20) = k.left_bottom_tree_index
      /\ SubTreeBytesLen(k.top_tree) \in Epoch
      /\ SubTreeBytesLen(k.left_bottom_tree) \in Epoch
      /\ SubTreeBytesLen(k.right_bottom_tree) \in Epoch
      /\ o4 <= n => /\ Slice(b, o1, o2) = EncodeSubTree(k.top_tree)
                    /\ Slice(b, o2, o3) = EncodeSubTree(k.left_bottom_tree)
                    /\ Slice(b, o3, o4) = EncodeSubTree(k.right_bottom_tree)
                    /\ Slice(b, o4, n) = Slice(f, 0, n - o4)
  BY <1>2, <1>3, SecretKeyHead
<1>5. f \in Seq(Byte) /\ Len(f) = 4 * Len(k.used_epochs) /\ k.used_epochs \in Seq(Epoch)
      /\ k.top_tree \in SubTrees /\ k.left_bottom_tree \in SubTrees
      /\ k.right_bottom_tree \in SubTrees
  <2>1. k.used_epochs \in Seq(Epoch) BY DEF KeysInBytes
  <2> QED BY <2>1, ReadUsedEpochs DEF KeysInBytes
<1>6. /\ DecodeSubTree(EncodeSubTree(k.top_tree)) = {k.top_tree}
      /\ DecodeSubTree(EncodeSubTree(k.left_bottom_tree)) = {k.left_bottom_tree}
      /\ DecodeSubTree(EncodeSubTree(k.right_bottom_tree)) = {k.right_bottom_tree}
  BY <1>4, <1>5, ReadSubTree
<1>7. n < Len(e) /\ Len(e) = o4 + Len(f) BY <1>1, <1>5
<1>8. k = [prf_key |-> k.prf_key, parameter |-> k.parameter,
           activation_epoch |-> k.activation_epoch,
           num_active_epochs |-> k.num_active_epochs,
           left_bottom_tree_index |-> k.left_bottom_tree_index,
           top_tree |-> k.top_tree, left_bottom_tree |-> k.left_bottom_tree,
           right_bottom_tree |-> k.right_bottom_tree, used_epochs |-> k.used_epochs]
  BY DEF KeysInBytes
<1> HIDE DEF h, pos, e, o1, o2, o3, o4, f, o
<1>9. o[1] = o1 /\ o[2] = o2 /\ o[3] = o3 /\ o[4] = o4 /\ o[5] = n BY <1>4
<1>10. o4 <= n
  <2>1. 4 \in 1..4 /\ 4 + 1 = 5 OBVIOUS
  <2>2. o[4] <= o[5] BY <1>3, <2>1 DEF OffsetsOrdered
  <2> QED BY <1>9, <2>2
<1>11. /\ Slice(b, o[1], o[1 + 1]) = EncodeSubTree(k.top_tree)
       /\ Slice(b, o[2], o[2 + 1]) = EncodeSubTree(k.left_bottom_tree)
       /\ Slice(b, o[3], o[3 + 1]) = EncodeSubTree(k.right_bottom_tree)
       /\ Slice(b, o[4], o[4 + 1]) = Slice(f, 0, n - o4)
  BY <1>4, <1>9, <1>10
<1>12. PICK top \in {k.top_tree}, left \in {k.left_bottom_tree}, right \in {k.right_bottom_tree},
            used \in DecodeUsedEpochs(Slice(f, 0, n - o4)) :
              d = [prf_key |-> k.prf_key, parameter |-> k.parameter,
                   activation_epoch |-> k.activation_epoch,
                   num_active_epochs |-> k.num_active_epochs,
                   left_bottom_tree_index |-> k.left_bottom_tree_index,
                   top_tree |-> top, left_bottom_tree |-> left, right_bottom_tree |-> right,
                   used_epochs |-> used]
  BY <1>3, <1>4, <1>6, <1>11 DEF SecretKeysRead, h, pos
<1>13. Slice(f, 0, n - o4) \in Seq(Byte) /\ n - o4 \in Nat /\ n - o4 < Len(f)
  <2>1. Len(f) \in Nat BY <1>5, LenProperties
  <2>2. n - o4 \in Nat /\ n - o4 < Len(f) /\ n - o4 <= Len(f) /\ 0 \in Nat /\ 0 <= n - o4
    BY <1>4, <1>7, <1>10, <2>1
  <2> QED BY <1>5, <2>2, CutAt
<1>14. used \in Seq(Epoch) /\ FlattenSeq(EncodedEpochs(used)) = Slice(f, 0, n - o4)
  BY <1>13, WriteUsedEpochs
<1>15. IsProperPrefixOf(used, k.used_epochs)
  BY <1>5, <1>13, <1>14, EpochsPrefix DEF f
<1>16. d.used_epochs = used BY <1>12
<1>17. d = [k EXCEPT !.used_epochs = used] BY <1>8, <1>12
<1> QED BY <1>15, <1>16, <1>17

-------------------------------------------------------------------------------
(* What is written, and what is accepted.                                     *)
LEMMA Written ==
  ASSUME NEW v, Writable(v)
  PROVE  /\ ToBytes(v) \in Seq(Byte) /\ Len(ToBytes(v)) = BytesLen(v)
         /\ FromBytes(v.kind, ToBytes(v)) = {v.data}
<1>1. LastOffset(v) < U32Range BY DEF Writable
<1>2. CASE v.kind = "secret key"
  <2>1. v.data \in KeysInBytes /\ NoOverflow(v.data) /\ Decodable(v.data)
    BY <1>2 DEF Writable
  <2>2. /\ BytesLen(v) = SecretKeyBytesLen(v.data) /\ ToBytes(v) = EncodeSecretKey(v.data)
        /\ LastOffset(v) = SecretKeyBytesLen(v.data) - 4 * Len(v.data.used_epochs)
    BY <1>2 DEF BytesLen, ToBytes, LastOffset
  <2>3. FromBytes(v.kind, ToBytes(v)) = DecodeSecretKey(ToBytes(v)) BY <1>2 DEF FromBytes
  <2> QED BY <1>1, <2>1, <2>2, <2>3, ReadSecretKey, SecretKeyParts
<1>3. CASE v.kind = "public key"
  <2>1. v.data \in PublicKeys BY <1>3 DEF Writable
  <2>2. BytesLen(v) = 2 * HASH_LENGTH /\ ToBytes(v) = EncodePublicKey(v.data)
    BY <1>3 DEF BytesLen, ToBytes
  <2>3. FromBytes(v.kind, ToBytes(v)) = DecodePublicKey(ToBytes(v)) BY <1>3 DEF FromBytes
  <2> QED BY <2>1, <2>2, <2>3, ReadPublicKey
<1>4. CASE v.kind = "signature"
  <2>1. v.data \in Signatures BY <1>4 DEF Writable
  <2>2. /\ BytesLen(v) = SignatureBytesLen(v.data) /\ ToBytes(v) = EncodeSignature(v.data)
        /\ LastOffset(v) = SignatureFixedSize + OpeningBytesLen(v.data.path)
    BY <1>4 DEF BytesLen, ToBytes, LastOffset
  <2>3. FromBytes(v.kind, ToBytes(v)) = DecodeSignature(ToBytes(v)) BY <1>4 DEF FromBytes
  <2> QED BY <1>1, <2>1, <2>2, <2>3, ReadSignature, SignatureParts
<1> QED BY <1>2, <1>3, <1>4 DEF Writable

LEMMA NotPanicked ==
  ASSUME NEW d, d \in KeysInBytes \/ d \in PublicKeys \/ d \in Signatures
  PROVE  d # Panicked
<1>1. DOMAIN Panicked = {"panicked"} BY DEF Panicked
<1>2. d \in KeysInBytes => "prf_key" \in DOMAIN d BY DEF KeysInBytes
<1>3. d \in PublicKeys => "root" \in DOMAIN d BY DEF PublicKeys
<1>4. d \in Signatures => "rho" \in DOMAIN d BY DEF Signatures
<1> QED BY <1>1, <1>2, <1>3, <1>4

LEMMA Accepted ==
  ASSUME NEW v, Writable(v), NEW b \in Seq(Byte), NEW d \in FromBytes(v.kind, b)
  PROVE  ToBytes([kind |-> v.kind, data |-> d]) = b /\ d # Panicked
<1> DEFINE w == [kind |-> v.kind, data |-> d]
<1>1. w.kind = v.kind /\ w.data = d OBVIOUS
<1> HIDE DEF w
<1>2. CASE v.kind = "secret key"
  <2>1. d \in DecodeSecretKey(b) BY <1>2 DEF FromBytes
  <2>2. ToBytes(w) = EncodeSecretKey(d) BY <1>1, <1>2 DEF ToBytes
  <2> QED BY <2>1, <2>2, WriteSecretKey, NotPanicked DEF w
<1>3. CASE v.kind = "public key"
  <2>1. d \in DecodePublicKey(b) BY <1>3 DEF FromBytes
  <2>2. ToBytes(w) = EncodePublicKey(d) BY <1>1, <1>3 DEF ToBytes
  <2> QED BY <2>1, <2>2, WritePublicKey, NotPanicked DEF w
<1>4. CASE v.kind = "signature"
  <2>1. d \in DecodeSignature(b) BY <1>4 DEF FromBytes
  <2>2. ToBytes(w) = EncodeSignature(d) BY <1>1, <1>4 DEF ToBytes
  <2> QED BY <2>1, <2>2, WriteSignature, NotPanicked DEF w
<1> QED BY <1>2, <1>3, <1>4 DEF Writable

LEMMA CutLoses ==
  ASSUME NEW v, Writable(v), NEW n \in 0..Len(ToBytes(v)) - 1,
         NEW d \in FromBytes(v.kind, SubSeq(ToBytes(v), 1, n))
  PROVE  \/ /\ v.kind = "secret key"
            /\ d = [v.data EXCEPT !.used_epochs = d.used_epochs]
            /\ IsProperPrefixOf(d.used_epochs, v.data.used_epochs)
         \/ /\ v.kind = "signature"
            /\ d = [v.data EXCEPT !.hashes = d.hashes]
            /\ IsProperPrefixOf(d.hashes, v.data.hashes)
<1> DEFINE e == ToBytes(v)
           b == Slice(e, 0, n)
<1>1. e \in Seq(Byte) /\ Len(e) = BytesLen(v) /\ LastOffset(v) < U32Range
  BY Written DEF Writable
<1>2. n \in Nat /\ n < Len(e)
  <2>1. Len(e) \in Nat BY <1>1, LenProperties
  <2>2. n \in 0..Len(e) - 1 OBVIOUS
  <2> HIDE DEF e
  <2> QED BY <2>1, <2>2
<1>3. b = SubSeq(e, 1, n)
  <2>1. 0 + 1 = 1 OBVIOUS
  <2> QED BY <2>1 DEF Slice
<1>4. d \in FromBytes(v.kind, b) BY <1>3
<1> HIDE DEF b, e
<1>5. CASE v.kind = "secret key"
  <2>1. v.data \in KeysInBytes BY <1>5 DEF Writable
  <2>2. /\ LastOffset(v) = SecretKeyBytesLen(v.data) - 4 * Len(v.data.used_epochs)
        /\ e = EncodeSecretKey(v.data)
    BY <1>5 DEF LastOffset, ToBytes, e
  <2>3. d \in DecodeSecretKey(b) BY <1>4, <1>5 DEF FromBytes
  <2>4. b = Slice(EncodeSecretKey(v.data), 0, n) BY <2>2 DEF b
  <2> QED BY <1>1, <1>2, <1>5, <2>1, <2>2, <2>3, <2>4, CutSecretKey
<1>6. CASE v.kind = "public key"
  <2>1. d \in DecodePublicKey(b) BY <1>4, <1>6 DEF FromBytes
  <2>2. Len(e) = 2 * HASH_LENGTH BY <1>1, <1>6 DEF BytesLen
  <2>3. Len(b) = n
    <3>1. n <= Len(e) /\ 0 \in Nat /\ 0 <= n /\ n - 0 = n BY <1>1, <1>2, LenProperties
    <3> QED BY <1>1, <1>2, <3>1, CutAt DEF b
  <2>4. Len(b) # 2 * HASH_LENGTH BY <1>1, <1>2, <2>2, <2>3, LenProperties
  <2> QED BY <2>1, <2>4 DEF DecodePublicKey
<1>7. CASE v.kind = "signature"
  <2>1. v.data \in Signatures BY <1>7 DEF Writable
  <2>2. /\ LastOffset(v) = SignatureFixedSize + OpeningBytesLen(v.data.path)
        /\ e = EncodeSignature(v.data)
    BY <1>7 DEF LastOffset, ToBytes, e
  <2>3. d \in DecodeSignature(b) BY <1>4, <1>7 DEF FromBytes
  <2>4. b = Slice(EncodeSignature(v.data), 0, n) BY <2>2 DEF b
  <2> QED BY <1>1, <1>2, <1>7, <2>1, <2>2, <2>3, <2>4, CutSignature
<1> QED BY <1>5, <1>6, <1>7 DEF Writable

-------------------------------------------------------------------------------
(* How the file relates to what was written is kept by every step: a file is  *)
(* damaged once, before it is read, and what was read is what it holds.       *)
THEOREM FileInvariant == Spec => []FileInv
<1>1. Init => FileInv
  <2> SUFFICES ASSUME Init PROVE FileInv OBVIOUS
  <2>1. value \in Values /\ bytes = ToBytes(value) /\ fault = "none" /\ read = FALSE
        /\ loaded = {}
    BY DEF Init
  <2>2. bytes \in Seq(Byte) BY <2>1, ValuesAssumption, Written
  <2> QED BY <2>1, <2>2 DEF FileInv
<1>2. FileInv /\ [Next]_vars => FileInv'
  <2> SUFFICES ASSUME FileInv, [Next]_vars PROVE FileInv' OBVIOUS
  <2>1. /\ value \in Values /\ bytes \in Seq(Byte)
        /\ fault = "none" => bytes = ToBytes(value)
        /\ fault = "cut" =>
             \E n \in 0..Len(ToBytes(value)) - 1 : bytes = SubSeq(ToBytes(value), 1, n)
        /\ loaded = IF read THEN FromBytes(value.kind, bytes) ELSE {}
    BY DEF FileInv
  <2>2. CASE Cut
    <3>1. PICK n \in 0..Len(bytes) - 1 : Damage("cut", SubSeq(bytes, 1, n)) BY <2>2 DEF Cut
    <3>2. /\ ~read /\ fault = "none" /\ fault' = "cut" /\ bytes' = SubSeq(bytes, 1, n)
          /\ value' = value /\ read' = read /\ loaded' = loaded
      BY <3>1 DEF Damage
    <3>3. bytes = ToBytes(value) BY <2>1, <3>2
    <3>4. SubSeq(bytes, 1, n) \in Seq(Byte)
      <4>1. Len(bytes) \in Nat BY <2>1, LenProperties
      <4>2. n \in Nat /\ 0 \in Nat /\ 0 <= n /\ n <= Len(bytes) /\ 0 + 1 = 1 BY <4>1
      <4>3. Slice(bytes, 0, n) \in Seq(Byte) BY <2>1, <4>2, CutAt
      <4> QED BY <4>2, <4>3 DEF Slice
    <3> QED BY <2>1, <3>1, <3>2, <3>3, <3>4 DEF FileInv
  <2>3. CASE Lengthen
    <3>1. PICK tail \in Tails : Damage("lengthened", bytes \o tail) BY <2>3 DEF Lengthen
    <3>2. /\ ~read /\ fault' = "lengthened" /\ bytes' = bytes \o tail
          /\ value' = value /\ read' = read /\ loaded' = loaded
      BY <3>1 DEF Damage
    <3>3. bytes \o tail \in Seq(Byte) BY <2>1, TailsAssumption, ConcatProperties
    <3> QED BY <2>1, <3>2, <3>3 DEF FileInv
  <2>4. CASE Change
    <3>1. PICK i \in DOMAIN bytes, b \in Byte : Damage("changed", [bytes EXCEPT ![i] = b])
      BY <2>4 DEF Change
    <3>2. /\ ~read /\ fault' = "changed" /\ bytes' = [bytes EXCEPT ![i] = b]
          /\ value' = value /\ read' = read /\ loaded' = loaded
      BY <3>1 DEF Damage
    <3>3. [bytes EXCEPT ![i] = b] \in Seq(Byte) BY <2>1, LenProperties, ExceptSeq
    <3> QED BY <2>1, <3>2, <3>3 DEF FileInv
  <2>5. CASE Load BY <2>1, <2>5 DEF Load, FileInv
  <2>6. CASE UNCHANGED vars BY <2>1, <2>6 DEF vars, FileInv
  <2> QED BY <2>2, <2>3, <2>4, <2>5, <2>6 DEF Next
<1> QED BY <1>1, <1>2, PTL DEF Spec

(* Every key, public key and signature that the code can write is read back   *)
(* as it was, and ssz_bytes_len is the length of its encoding.                *)
THEOREM RoundTripHolds == Spec => []RoundTrip
<1>1. FileInv => RoundTrip
  <2> SUFFICES ASSUME FileInv, read, fault = "none"
               PROVE  loaded = {value.data} /\ Len(bytes) = BytesLen(value)
    BY DEF RoundTrip
  <2>1. Writable(value) /\ bytes = ToBytes(value) /\ loaded = FromBytes(value.kind, bytes)
    BY ValuesAssumption DEF FileInv
  <2> QED BY <2>1, Written
<1> QED BY <1>1, FileInvariant, PTL

(* Whatever bytes are accepted, from_ssz_bytes takes them for a value whose   *)
(* as_ssz_bytes they are: no two files hold the same key.                     *)
THEOREM CanonicalHolds == Spec => []Canonical
<1>1. FileInv => Canonical
  <2> SUFFICES ASSUME FileInv, NEW d \in loaded
               PROVE  ToBytes([kind |-> value.kind, data |-> d]) = bytes
    BY DEF Canonical
  <2>1. Writable(value) /\ bytes \in Seq(Byte) /\ d \in FromBytes(value.kind, bytes)
    BY ValuesAssumption DEF FileInv
  <2> QED BY <2>1, Accepted
<1> QED BY <1>1, FileInvariant, PTL

(* No file, however damaged, makes a decoder slice it out of its bounds.      *)
THEOREM NeverPanicsHolds == Spec => []NeverPanics
<1>1. FileInv => NeverPanics
  <2> SUFFICES ASSUME FileInv, NEW d \in loaded PROVE d # Panicked
    BY DEF NeverPanics
  <2>1. Writable(value) /\ bytes \in Seq(Byte) /\ d \in FromBytes(value.kind, bytes)
    BY ValuesAssumption DEF FileInv
  <2> QED BY <2>1, Accepted
<1> QED BY <1>1, FileInvariant, PTL

(* A file that was cut short is refused, or has lost nothing but used epochs  *)
(* of a key or hashes of a signature, from their end.                         *)
THEOREM CutLosesOnlyTheEndHolds == Spec => []CutLosesOnlyTheEnd
<1>1. FileInv => CutLosesOnlyTheEnd
  <2> SUFFICES ASSUME FileInv, fault = "cut", NEW d \in loaded
               PROVE  \/ /\ value.kind = "secret key"
                         /\ d = [value.data EXCEPT !.used_epochs = d.used_epochs]
                         /\ IsProperPrefixOf(d.used_epochs, value.data.used_epochs)
                      \/ /\ value.kind = "signature"
                         /\ d = [value.data EXCEPT !.hashes = d.hashes]
                         /\ IsProperPrefixOf(d.hashes, value.data.hashes)
    BY DEF CutLosesOnlyTheEnd
  <2>1. Writable(value) /\ d \in FromBytes(value.kind, bytes)
    BY ValuesAssumption DEF FileInv
  <2>2. PICK n \in 0..Len(ToBytes(value)) - 1 : bytes = SubSeq(ToBytes(value), 1, n)
    BY DEF FileInv
  <2> QED BY <2>1, <2>2, CutLoses
<1> QED BY <1>1, FileInvariant, PTL
================================================================================
