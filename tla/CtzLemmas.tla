----------------------------- MODULE CtzLemmas -----------------------------
(***************************************************************************)
(* The arithmetic of a CTZ skip list: powers of two and the bits of a      *)
(* block index, the closed formulas of the layout, and the hops of a seek. *)
(***************************************************************************)
EXTENDS Ctz, SetInduction, FiniteSetTheorems, TLAPS

----------------------------------------------------------------------------
(* Division by powers of two.                                              *)

\* Quotient and remainder, and that they are the only ones.
LEMMA DivUnique ==
    ASSUME NEW d \in Nat \ {0}, NEW q \in Int, NEW r \in 0 .. d - 1
    PROVE  (d * q + r) \div d = q /\ (d * q + r) % d = r
OBVIOUS
LEMMA DivBetween ==
    ASSUME NEW d \in Nat \ {0}, NEW q \in Int, NEW n \in Int, d * q <= n, n < d * q + d
    PROVE  n \div d = q
<1> DEFINE r == n - d * q
<1>1. r \in 0 .. d - 1
  OBVIOUS
<1> HIDE DEF r
<1>2. (d * q + r) \div d = q
  BY <1>1, DivUnique
<1> QED BY <1>2 DEF r
LEMMA DivMod ==
    ASSUME NEW d \in Nat \ {0}, NEW n \in Int
    PROVE  n \div d \in Int /\ n % d \in 0 .. d - 1 /\ n = d * (n \div d) + (n % d)
OBVIOUS
\* The powers of two that a block index is taken apart with.
LEMMA Powers ==
    ASSUME NEW k \in Bits
    PROVE  /\ 2 ^ k \in Nat \ {0}
           /\ 2 ^ (k + 1) = 2 * 2 ^ k
           /\ 2 ^ (k + 1) \in Nat \ {0}
<1> DEFINE pw == [j \in 0 .. 28 |-> 2 ^ j]
<1>1. /\ pw[0] = 1 /\ pw[1] = 2 /\ pw[2] = 4 /\ pw[3] = 8 /\ pw[4] = 16 /\ pw[5] = 32
      /\ pw[6] = 64 /\ pw[7] = 128 /\ pw[8] = 256 /\ pw[9] = 512 /\ pw[10] = 1024
      /\ pw[11] = 2048 /\ pw[12] = 4096 /\ pw[13] = 8192 /\ pw[14] = 16384
      /\ pw[15] = 32768 /\ pw[16] = 65536 /\ pw[17] = 131072 /\ pw[18] = 262144
      /\ pw[19] = 524288 /\ pw[20] = 1048576 /\ pw[21] = 2097152 /\ pw[22] = 4194304
      /\ pw[23] = 8388608 /\ pw[24] = 16777216 /\ pw[25] = 33554432 /\ pw[26] = 67108864
      /\ pw[27] = 134217728 /\ pw[28] = 268435456
  OBVIOUS
<1>2. pw[k] = 2 ^ k /\ pw[k + 1] = 2 ^ (k + 1)
  BY DEF Bits
<1> HIDE DEF pw
<1>3. \/ k = 0 \/ k = 1 \/ k = 2 \/ k = 3 \/ k = 4 \/ k = 5 \/ k = 6 \/ k = 7 \/ k = 8
      \/ k = 9 \/ k = 10 \/ k = 11 \/ k = 12 \/ k = 13 \/ k = 14 \/ k = 15 \/ k = 16
      \/ k = 17 \/ k = 18 \/ k = 19 \/ k = 20 \/ k = 21 \/ k = 22 \/ k = 23 \/ k = 24
      \/ k = 25 \/ k = 26 \/ k = 27
  BY DEF Bits
<1>4. pw[k] \in Nat \ {0} /\ pw[k + 1] = 2 * pw[k]
  BY <1>1, <1>3
<1> QED BY <1>2, <1>4

\* One bit more: a number divided by the next power, and when the next power
\* divides it.
LEMMA NextPower ==
    ASSUME NEW k \in Bits, NEW n \in Nat
    PROVE  /\ n \div 2 ^ k \in Nat /\ n \div 2 ^ (k + 1) \in Nat
           /\ n \div 2 ^ (k + 1) = (n \div 2 ^ k) \div 2
           /\ n % 2 ^ (k + 1) = 0 <=> n % 2 ^ k = 0 /\ (n \div 2 ^ k) % 2 = 0
<1> DEFINE P == 2 ^ k
           Q == 2 ^ (k + 1)
           q == n \div P
           r == n % P
           a == q \div 2
           s == q % 2
<1>1. P \in Nat \ {0} /\ Q = 2 * P
  BY Powers
<1> HIDE DEF P, Q
<1>2. q \in Int /\ r \in 0 .. P - 1 /\ n = P * q + r
  BY <1>1, DivMod
<1>3. q \in Nat
  <2>1. CASE q < 0
    <3>1. P * q <= P * (-1)
      BY <1>1, <1>2, <2>1
    <3> QED BY <1>1, <1>2, <3>1
  <2> QED BY <1>2, <2>1
<1> HIDE DEF q, r
<1>4. a \in Nat /\ s \in 0 .. 1 /\ q = 2 * a + s
  BY <1>3
<1> HIDE DEF a, s
<1>5. P * s + r \in 0 .. Q - 1
  <2>1. s = 0 \/ s = 1
    BY <1>4
  <2> QED BY <1>1, <1>2, <2>1
<1>6. n = Q * a + (P * s + r)
  <2>1. P * q = P * (2 * a) + P * s
    BY <1>1, <1>4
  <2>2. P * (2 * a) = (2 * P) * a
    BY <1>1, <1>4
  <2> QED BY <1>1, <1>2, <1>4, <2>1, <2>2
<1>7. n \div Q = a /\ n % Q = P * s + r
  <2> DEFINE w == P * s + r
  <2>1. Q \in Nat \ {0} /\ a \in Int /\ w \in 0 .. Q - 1 /\ n = Q * a + w
    BY <1>1, <1>4, <1>5, <1>6
  <2> HIDE DEF w
  <2>2. (Q * a + w) \div Q = a /\ (Q * a + w) % Q = w
    BY <2>1, DivUnique
  <2>3. n \div Q = a /\ n % Q = w
    BY <2>1, <2>2
  <2> QED BY <2>3 DEF w
<1>8. P * s + r = 0 <=> r = 0 /\ s = 0
  <2>1. s = 0 \/ s = 1
    BY <1>4
  <2> QED BY <1>1, <1>2, <2>1
<1> QED BY <1>3, <1>4, <1>7, <1>8 DEF P, Q, q, r, a, s

\* Every block index but 0 has a lowest bit, which trailing_zeros names.
LEMMA LowestBit ==
    ASSUME NEW n \in Nat \ {0}, n < 2 ^ 28
    PROVE  /\ trailing_zeros(n) \in Bits
           /\ n % 2 ^ trailing_zeros(n) = 0
           /\ (n \div 2 ^ trailing_zeros(n)) % 2 = 1
<1> DEFINE S == {k \in Bits : n % 2 ^ (k + 1) # 0}
<1>1. 27 \in S /\ S \subseteq Nat
  BY DEF Bits
<1> HIDE DEF S
<1>2. PICK k \in S : \A j \in S : k <= j
  BY <1>1, LeastNatural
<1>3. k \in Bits /\ n % 2 ^ (k + 1) # 0
  BY DEF S
<1>4. n % 2 ^ k = 0
  <2>1. CASE k = 0
    BY <2>1
  <2>2. CASE k # 0
    <3>1. k - 1 \in Bits /\ k - 1 < k
      BY <1>3, <2>2 DEF Bits
    <3>2. k - 1 \notin S
      BY <1>2, <1>3, <3>1 DEF Bits
    <3>3. n % 2 ^ ((k - 1) + 1) = 0
      BY <3>1, <3>2 DEF S
    <3>4. (k - 1) + 1 = k
      BY <3>1 DEF Bits
    <3> QED BY <3>3, <3>4
  <2> QED BY <2>1, <2>2
<1>5. (n \div 2 ^ k) % 2 = 1
  <2>1. n \div 2 ^ k \in Nat /\ (n \div 2 ^ k) % 2 # 0
    BY <1>3, <1>4, NextPower
  <2> QED BY <2>1
<1> QED BY <1>3, <1>4, <1>5 DEF trailing_zeros

\* The bits of a word, which popcount counts.
Ones(n) == {k \in Bits : (n \div 2 ^ k) % 2 = 1}

\* Below a power that divides n, the bits of n are 0 and those of n - 1 are 1.
LEMMA BitsBelow ==
    ASSUME NEW n \in Nat \ {0}, NEW k \in Bits, n % 2 ^ (k + 1) = 0
    PROVE  /\ n % 2 ^ k = 0
           /\ k \notin Ones(n) /\ k \in Ones(n - 1)
<1> DEFINE P == 2 ^ k
           q == n \div P
<1>1. n % P = 0 /\ q % 2 = 0 /\ q \in Nat /\ P \in Nat \ {0}
  BY NextPower, Powers
<1> HIDE DEF P
<1>2. n = P * q
  BY <1>1, DivMod
<1> HIDE DEF q
<1>3. n - 1 = P * (q - 1) + (P - 1)
  BY <1>1, <1>2
<1>4. (n - 1) \div P = q - 1
  <2>1. P - 1 \in 0 .. P - 1 /\ q - 1 \in Int
    BY <1>1
  <2>2. (P * (q - 1) + (P - 1)) \div P = q - 1
    BY <1>1, <2>1, DivUnique
  <2> QED BY <1>3, <2>2
<1>5. (q - 1) % 2 = 1
  BY <1>1
<1> QED BY <1>1, <1>4, <1>5 DEF P, q, Ones

\* A decrement clears the lowest bit, sets those below and keeps those above.
LEMMA OnesOfPredecessor ==
    ASSUME NEW n \in Nat \ {0}, n < 2 ^ 28
    PROVE  LET t == trailing_zeros(n)
           IN  /\ t \in Ones(n) /\ t \notin Ones(n - 1)
               /\ \A k \in Bits : k < t => k \notin Ones(n) /\ k \in Ones(n - 1)
               /\ \A k \in Bits : k > t => (k \in Ones(n) <=> k \in Ones(n - 1))
<1> DEFINE t == trailing_zeros(n)
<1>1. t \in Bits /\ n % 2 ^ t = 0 /\ (n \div 2 ^ t) % 2 = 1
  BY LowestBit
<1> HIDE DEF t
<1>2. \A k \in Bits : k < t => n % 2 ^ (k + 1) = 0
  <2> DEFINE S == {d \in Nat : d < t => n % 2 ^ (t - d) = 0}
  <2>1. 0 \in S
    BY <1>1 DEF Bits
  <2>2. ASSUME NEW d \in Nat, d \in S PROVE d + 1 \in S
    <3> SUFFICES ASSUME d + 1 < t PROVE n % 2 ^ (t - (d + 1)) = 0
      OBVIOUS
    <3> DEFINE k == t - (d + 1)
    <3>1. k \in Bits /\ k + 1 = t - d /\ d < t
      BY <1>1 DEF Bits
    <3>2. n % 2 ^ (k + 1) = 0
      BY <2>2, <3>1
    <3> HIDE DEF k
    <3>3. n % 2 ^ k = 0
      BY <3>1, <3>2, NextPower
    <3> QED BY <3>3 DEF k
  <2> HIDE DEF S
  <2>3. \A d \in Nat : d \in S
    BY <2>1, <2>2, NatSetInduction
  <2> SUFFICES ASSUME NEW k \in Bits, k < t PROVE n % 2 ^ (k + 1) = 0
    OBVIOUS
  <2>4. t - (k + 1) \in Nat /\ t - (k + 1) < t /\ t - (t - (k + 1)) = k + 1
    BY <1>1 DEF Bits
  <2> QED BY <2>3, <2>4 DEF S
<1>3. \A k \in Bits : k < t => k \notin Ones(n) /\ k \in Ones(n - 1)
  BY <1>2, BitsBelow
<1>4. t \in Ones(n) /\ t \notin Ones(n - 1) /\ n \div 2 ^ (t + 1) = (n - 1) \div 2 ^ (t + 1)
  <2> DEFINE P == 2 ^ t
             q == n \div P
  <2>1. n % P = 0 /\ q % 2 = 1 /\ q \in Nat /\ P \in Nat \ {0}
    BY <1>1, NextPower, Powers
  <2>2. n \div 2 ^ (t + 1) = q \div 2 /\ (n - 1) \div 2 ^ (t + 1) = ((n - 1) \div P) \div 2
    BY <1>1, NextPower
  <2>3. q = n \div P
    OBVIOUS
  <2> HIDE DEF P, q
  <2>4. n = P * q
    BY <2>1, <2>3, DivMod
  <2>5. n - 1 = P * (q - 1) + (P - 1)
    BY <2>1, <2>4
  <2>6. P - 1 \in 0 .. P - 1 /\ q - 1 \in Int
    BY <2>1
  <2>7. (P * (q - 1) + (P - 1)) \div P = q - 1
    BY <2>1, <2>6, DivUnique
  <2>8. (n - 1) \div P = q - 1
    BY <2>5, <2>7
  <2>9. (q - 1) % 2 = 0 /\ (q - 1) \div 2 = q \div 2
    BY <2>1
  <2> QED BY <1>1, <2>1, <2>2, <2>3, <2>8, <2>9 DEF P, Ones
<1>5. \A k \in Bits : k > t => n \div 2 ^ k = (n - 1) \div 2 ^ k
  <2> DEFINE S == {d \in Nat : t + 1 + d \in Bits =>
                       n \div 2 ^ (t + 1 + d) = (n - 1) \div 2 ^ (t + 1 + d)}
  <2>1. 0 \in S
    BY <1>1, <1>4 DEF Bits
  <2>2. ASSUME NEW d \in Nat, d \in S PROVE d + 1 \in S
    <3> SUFFICES ASSUME t + 1 + (d + 1) \in Bits
                 PROVE  n \div 2 ^ (t + 1 + (d + 1)) = (n - 1) \div 2 ^ (t + 1 + (d + 1))
      OBVIOUS
    <3> DEFINE k == t + 1 + d
    <3>1. k \in Bits /\ t + 1 + (d + 1) = k + 1
      BY <1>1 DEF Bits
    <3>2. n \div 2 ^ k = (n - 1) \div 2 ^ k
      BY <2>2, <3>1
    <3> HIDE DEF k
    <3>3. n \div 2 ^ (k + 1) = (n - 1) \div 2 ^ (k + 1)
      BY <3>1, <3>2, NextPower
    <3> QED BY <3>1, <3>3
  <2> HIDE DEF S
  <2>3. \A d \in Nat : d \in S
    BY <2>1, <2>2, NatSetInduction
  <2> SUFFICES ASSUME NEW k \in Bits, k > t PROVE n \div 2 ^ k = (n - 1) \div 2 ^ k
    OBVIOUS
  <2>4. k - (t + 1) \in Nat /\ t + 1 + (k - (t + 1)) = k
    BY <1>1 DEF Bits
  <2> QED BY <2>3, <2>4 DEF S
<1>6. \A k \in Bits : k > t => (k \in Ones(n) <=> k \in Ones(n - 1))
  BY <1>5 DEF Ones
<1> QED BY <1>3, <1>4, <1>6 DEF t

LEMMA BitsFinite == IsFiniteSet(Bits) /\ Cardinality(Bits) = 28
<1> DEFINE a == 0
           b == 27
<1>1. a \in Int /\ b \in Int /\ ~(a > b) /\ b - a + 1 = 28
  OBVIOUS
<1>2. Bits = a .. b
  BY DEF Bits
<1> HIDE DEF a, b
<1>3. IsFiniteSet(a .. b) /\ Cardinality(a .. b) = b - a + 1
  BY <1>1, FS_Interval
<1> QED BY <1>1, <1>2, <1>3

LEMMA PopcountRange == \A a : popcount(a) \in 0 .. 28
<1> TAKE a
<1>1. IsFiniteSet(Bits) /\ Cardinality(Bits) = 28
  BY BitsFinite
<1>2. Ones(a) \in SUBSET Bits
  BY DEF Ones
<1>3. Cardinality(Ones(a)) \in Nat /\ Cardinality(Ones(a)) <= 28
  BY <1>1, <1>2, FS_Subset, FS_CardinalityType
<1> QED BY <1>3 DEF popcount, Ones

LEMMA PopcountZero == popcount(0) = 0
<1>1. \A k \in Bits : 0 \div 2 ^ k = 0
  <2> TAKE k \in Bits
  <2> DEFINE P == 2 ^ k
  <2>1. P \in Nat \ {0}
    BY Powers
  <2> HIDE DEF P
  <2>2. (P * 0 + 0) \div P = 0
    BY <2>1, DivUnique
  <2> QED BY <2>1, <2>2 DEF P
<1>2. Ones(0) = {}
  BY <1>1 DEF Ones
<1> QED BY <1>2, FS_EmptySet DEF popcount, Ones

\* What popcount has to do with trailing_zeros: the sum over the blocks of
\* the one is the other.
LEMMA PopcountStep ==
    ASSUME NEW n \in Nat \ {0}, n < 2 ^ 28
    PROVE  popcount(n) = popcount(n - 1) + 1 - trailing_zeros(n)
<1> DEFINE t == trailing_zeros(n)
           A == Ones(n)
           B == Ones(n - 1)
           low == 0 .. t - 1
<1>1. t \in Bits /\ t \in Nat
  BY LowestBit DEF Bits
<1>2. /\ t \in A /\ t \notin B
      /\ \A k \in Bits : k < t => k \notin A /\ k \in B
      /\ \A k \in Bits : k > t => (k \in A <=> k \in B)
  BY OnesOfPredecessor
<1>3. A \subseteq Bits /\ B \subseteq Bits
  BY DEF Ones
<1> HIDE DEF A, B, t
<1>4. low \subseteq Bits /\ \A k \in Bits : k \in low <=> k < t
  BY <1>1 DEF Bits
<1>5. \A k \in Bits : k < t \/ k = t \/ k > t
  BY <1>1 DEF Bits
<1>6. B \cap low = low /\ A = (B \ low) \cup {t} /\ t \notin B \ low
  <2>1. \A k \in Bits : k \in A <=> (k \in B /\ ~(k < t)) \/ k = t
    BY <1>1, <1>2, <1>5 DEF Bits
  <2> QED BY <1>1, <1>2, <1>3, <1>4, <2>1
<1>7. IsFiniteSet(B) /\ Cardinality(B) \in Nat
  BY <1>3, BitsFinite, FS_Subset, FS_CardinalityType
<1>8. Cardinality(low) = t
  BY <1>1, FS_Interval
<1> HIDE DEF low
<1>9. IsFiniteSet(B \ low) /\ Cardinality(B \ low) = Cardinality(B) - t
  BY <1>6, <1>7, <1>8, FS_Difference
<1>10. Cardinality(A) = Cardinality(B \ low) + 1
  BY <1>6, <1>9, FS_AddElement
<1> QED BY <1>1, <1>7, <1>9, <1>10 DEF A, B, t, popcount, Ones

----------------------------------------------------------------------------
(* Jumps.                                                                  *)

LEMMA PowerOrder ==
    ASSUME NEW k \in 0 .. 28, NEW j \in 0 .. k
    PROVE  /\ 2 ^ j <= 2 ^ k
           /\ 2 ^ j \in Nat \ {0} /\ 2 ^ k \in Nat \ {0}
<1> DEFINE pw == [i \in 0 .. 28 |-> 2 ^ i]
<1>1. \A i \in 0 .. 27 : /\ pw[i] \in Nat \ {0} /\ pw[i + 1] = 2 * pw[i]
  <2> TAKE i \in 0 .. 27
  <2>1. i \in Bits /\ pw[i] = 2 ^ i /\ pw[i + 1] = 2 ^ (i + 1)
    BY DEF Bits
  <2> HIDE DEF pw
  <2> QED BY <2>1, Powers
<1>2. pw[j] = 2 ^ j /\ pw[k] = 2 ^ k
  OBVIOUS
<1> HIDE DEF pw
<1> DEFINE S == {i \in Nat : i <= 28 - j => pw[j + i] \in Nat \ {0} /\ pw[j] <= pw[j + i]
                                            /\ pw[j] \in Nat \ {0}}
<1>3. 0 \in S
  <2>1. CASE j \in 0 .. 27
    BY <1>1, <2>1
  <2>2. CASE j = 28
    <3>1. pw[27] \in Nat \ {0} /\ pw[27 + 1] = 2 * pw[27]
      BY <1>1
    <3> QED BY <2>2, <3>1
  <2> QED BY <2>1, <2>2
<1>4. ASSUME NEW i \in Nat, i \in S PROVE i + 1 \in S
  <2> SUFFICES ASSUME i + 1 <= 28 - j
               PROVE  /\ pw[j + (i + 1)] \in Nat \ {0} /\ pw[j] <= pw[j + (i + 1)]
                      /\ pw[j] \in Nat \ {0}
    OBVIOUS
  <2>1. j + i \in 0 .. 27 /\ j + (i + 1) = (j + i) + 1
    OBVIOUS
  <2>2. pw[(j + i) + 1] = 2 * pw[j + i]
    BY <1>1, <2>1
  <2>3. pw[j + i] \in Nat \ {0} /\ pw[j] <= pw[j + i] /\ pw[j] \in Nat \ {0}
    BY <1>4
  <2> QED BY <2>1, <2>2, <2>3
<1> HIDE DEF S
<1>5. \A i \in Nat : i \in S
  BY <1>3, <1>4, NatSetInduction
<1>6. k - j \in Nat /\ k - j <= 28 - j /\ j + (k - j) = k
  OBVIOUS
<1> QED BY <1>2, <1>5, <1>6 DEF S

\* What a power divides, every lower power divides.
LEMMA DividesBelow ==
    ASSUME NEW n \in Nat, NEW k \in 0 .. 28, n % 2 ^ k = 0, NEW j \in 0 .. k
    PROVE  n % 2 ^ j = 0
<1> DEFINE S == {d \in Nat : d <= k => n % 2 ^ (k - d) = 0}
<1>1. 0 \in S
  OBVIOUS
<1>2. ASSUME NEW d \in Nat, d \in S PROVE d + 1 \in S
  <2> SUFFICES ASSUME d + 1 <= k PROVE n % 2 ^ (k - (d + 1)) = 0
    OBVIOUS
  <2> DEFINE i == k - (d + 1)
  <2>1. i \in Bits /\ i + 1 = k - d /\ d <= k
    BY DEF Bits
  <2>2. n % 2 ^ (i + 1) = 0
    BY <1>2, <2>1
  <2> HIDE DEF i
  <2>3. n % 2 ^ i = 0
    BY <2>1, <2>2, NextPower
  <2> QED BY <2>3 DEF i
<1> HIDE DEF S
<1>3. \A d \in Nat : d \in S
  BY <1>1, <1>2, NatSetInduction
<1>4. k - j \in Nat /\ k - j <= k /\ k - (k - j) = j
  OBVIOUS
<1> QED BY <1>3, <1>4 DEF S

\* A word has as many factors of two as any power that divides it.
LEMMA FactorsOfTwo ==
    ASSUME NEW n \in Nat \ {0}, n < 2 ^ 28, NEW k \in 0 .. 28, n % 2 ^ k = 0
    PROVE  trailing_zeros(n) >= k
<1> DEFINE t == trailing_zeros(n)
<1>1. t \in Bits /\ (n \div 2 ^ t) % 2 = 1
  BY LowestBit
<1> SUFFICES ASSUME t < k PROVE FALSE
  BY <1>1 DEF Bits
<1>2. n % 2 ^ (t + 1) = 0
  <2>1. t + 1 \in 0 .. k
    BY <1>1 DEF Bits
  <2> QED BY <2>1, DividesBelow
<1> HIDE DEF t
<1>3. (n \div 2 ^ t) % 2 = 0
  BY <1>1, <1>2, NextPower
<1> QED BY <1>1, <1>3

\* A hop along a pointer keeps the factors of two that the pointer stands
\* for, and along the last one it gains another.
LEMMA HopFactors ==
    ASSUME NEW x \in Nat \ {0}, x < 2 ^ 28, NEW k \in Bits, k <= trailing_zeros(x),
           NEW y \in Nat \ {0}, y = x - 2 ^ k
    PROVE  /\ trailing_zeros(y) >= k
           /\ k = trailing_zeros(x) => trailing_zeros(y) >= k + 1
<1> DEFINE t == trailing_zeros(x)
           P == 2 ^ k
           q == x \div P
<1>1. t \in Bits /\ x % 2 ^ t = 0 /\ (x \div 2 ^ t) % 2 = 1
  BY LowestBit
<1>2. x % P = 0
  <2>1. k \in 0 .. t /\ t \in 0 .. 28
    BY <1>1 DEF Bits
  <2> QED BY <1>1, <2>1, DividesBelow
<1>3. P \in Nat \ {0} /\ q \in Nat /\ y < 2 ^ 28
  <2>1. P \in Nat \ {0} /\ q \in Nat
    BY Powers, NextPower
  <2> QED BY <2>1
<1>4. k = t => q % 2 = 1
  BY <1>1
<1>5. q = x \div P
  OBVIOUS
<1> HIDE DEF P, q, t
<1>6. x = P * q
  BY <1>2, <1>3, <1>5, DivMod
<1>7. y = P * (q - 1) + 0
  BY <1>3, <1>6 DEF P
<1>8. y \div P = q - 1 /\ y % P = 0
  <2>1. q - 1 \in Int /\ 0 \in 0 .. P - 1
    BY <1>3
  <2>2. (P * (q - 1) + 0) \div P = q - 1 /\ (P * (q - 1) + 0) % P = 0
    BY <1>3, <2>1, DivUnique
  <2> QED BY <1>7, <2>2
<1>9. trailing_zeros(y) >= k
  <2>1. k \in 0 .. 28
    BY DEF Bits
  <2> QED BY <1>3, <1>8, <2>1, FactorsOfTwo DEF P
<1>10. k = t => trailing_zeros(y) >= k + 1
  <2> HAVE k = t
  <2>1. (q - 1) % 2 = 0
    BY <1>3, <1>4
  <2>2. y % 2 ^ (k + 1) = 0
    BY <1>8, <2>1, NextPower DEF P
  <2>3. k + 1 \in 0 .. 28
    BY DEF Bits
  <2> QED BY <1>3, <2>2, <2>3, FactorsOfTwo
<1> QED BY <1>9, <1>10 DEF t

\* The leading bit, which ilog2 names.
LEMMA LeadingBit ==
    ASSUME NEW n \in Nat \ {0}, n < 2 ^ 28
    PROVE  /\ ilog2(n) \in Bits
           /\ 2 ^ ilog2(n) <= n /\ n < 2 ^ (ilog2(n) + 1)
<1> DEFINE S == {k \in Bits : n < 2 ^ (k + 1)}
<1>1. 27 \in S /\ S \subseteq Nat
  BY DEF Bits
<1> HIDE DEF S
<1>2. PICK k \in S : \A j \in S : k <= j
  BY <1>1, LeastNatural
<1>3. k \in Bits /\ n < 2 ^ (k + 1)
  BY DEF S
<1>4. 2 ^ k <= n
  <2>1. CASE k = 0
    BY <2>1
  <2>2. CASE k # 0
    <3>1. k - 1 \in Bits /\ k - 1 < k
      BY <1>3, <2>2 DEF Bits
    <3>2. k - 1 \notin S
      BY <1>2, <1>3, <3>1 DEF Bits
    <3>3. ~(n < 2 ^ ((k - 1) + 1))
      BY <3>1, <3>2 DEF S
    <3>4. (k - 1) + 1 = k
      BY <3>1 DEF Bits
    <3>5. 2 ^ k \in Nat
      BY <1>3, Powers
    <3> QED BY <3>3, <3>4, <3>5
  <2> QED BY <2>1, <2>2
<1>5. \A j \in Bits : n \div 2 ^ j = 1 <=> 2 ^ j <= n /\ n < 2 ^ (j + 1)
  <2> TAKE j \in Bits
  <2> DEFINE P == 2 ^ j
  <2>1. P \in Nat \ {0} /\ 2 ^ (j + 1) = 2 * P
    BY Powers
  <2> HIDE DEF P
  <2>2. n \div P \in Int /\ n % P \in 0 .. P - 1 /\ n = P * (n \div P) + (n % P)
    BY <2>1, DivMod
  <2>3. n \div P = 1 => P <= n /\ n < 2 * P
    BY <2>1, <2>2
  <2>4. P <= n /\ n < 2 * P => n \div P = 1
    <3> SUFFICES ASSUME P <= n, n < 2 * P PROVE n \div P = 1
      OBVIOUS
    <3> DEFINE r == n - P
    <3>1. r \in 0 .. P - 1 /\ n = P * 1 + r
      BY <2>1
    <3> HIDE DEF r
    <3>2. (P * 1 + r) \div P = 1
      BY <2>1, <3>1, DivUnique
    <3> QED BY <3>1, <3>2
  <2> QED BY <2>1, <2>3, <2>4 DEF P
<1> DEFINE Is(j) == j \in Bits /\ n \div 2 ^ j = 1
<1>6. Is(k)
  BY <1>3, <1>4, <1>5
<1>7. ilog2(n) \in Bits /\ n \div 2 ^ ilog2(n) = 1
  BY <1>6 DEF ilog2
<1> QED BY <1>5, <1>7

LEMMA LeadingBitOrder ==
    ASSUME NEW n \in Nat \ {0}, n < 2 ^ 28, NEW m \in 1 .. n
    PROVE  ilog2(m) <= ilog2(n)
<1>0. m \in Nat \ {0} /\ m < 2 ^ 28
  OBVIOUS
<1>1. /\ ilog2(n) \in Bits /\ n < 2 ^ (ilog2(n) + 1)
      /\ ilog2(m) \in Bits /\ 2 ^ ilog2(m) <= m
  BY <1>0, LeadingBit
<1> SUFFICES ASSUME ilog2(m) >= ilog2(n) + 1 PROVE FALSE
  BY <1>1 DEF Bits
<1>2. 2 ^ (ilog2(n) + 1) <= 2 ^ ilog2(m)
  <2>1. ilog2(m) \in 0 .. 28 /\ ilog2(n) + 1 \in 0 .. ilog2(m)
    BY <1>1 DEF Bits
  <2> QED BY <2>1, PowerOrder
<1>3. 2 ^ (ilog2(n) + 1) \in Nat /\ 2 ^ ilog2(m) \in Nat
  BY <1>1, Powers
<1> QED BY <1>1, <1>2, <1>3

\* One hop from block x towards target: along a pointer that x has, never
\* past the target.
LEMMA HopLands ==
    ASSUME NEW target \in Nat, NEW x \in Nat, x < 2 ^ 28, target < x
    PROVE  LET k == jump(x, target)
           IN  /\ k \in Bits /\ k <= trailing_zeros(x) /\ k <= ilog2(x - target)
               /\ 2 ^ k \in Nat \ {0} /\ 2 ^ k <= x - target
               /\ x - 2 ^ k \in target .. x - 1
               /\ k < skip_pointers_in_block(x)
<1> DEFINE k == jump(x, target)
           d == x - target
<1>1. x \in Nat \ {0} /\ d \in Nat \ {0} /\ d < 2 ^ 28
  OBVIOUS
<1> HIDE DEF d
<1>2. /\ trailing_zeros(x) \in Bits /\ ilog2(d) \in Bits /\ 2 ^ ilog2(d) <= d
  BY <1>1, LowestBit, LeadingBit
<1>3. k \in Bits /\ k <= trailing_zeros(x) /\ k <= ilog2(d)
  BY <1>2 DEF jump, Bits, d
<1> HIDE DEF k
<1>4. 2 ^ k \in Nat \ {0} /\ 2 ^ k <= d
  <2>1. 2 ^ k <= 2 ^ ilog2(d) /\ 2 ^ ilog2(d) \in Nat /\ 2 ^ k \in Nat \ {0}
    <3>1. ilog2(d) \in 0 .. 28 /\ k \in 0 .. ilog2(d)
      BY <1>2, <1>3 DEF Bits
    <3> QED BY <3>1, PowerOrder
  <2> QED BY <1>1, <1>2, <2>1
<1>5. k < skip_pointers_in_block(x)
  BY <1>1, <1>2, <1>3 DEF skip_pointers_in_block, Bits
<1> DEFINE P == 2 ^ k
<1> HIDE DEF P
<1>6. x - P \in target .. x - 1
  BY <1>4 DEF P, d
<1> QED BY <1>3, <1>4, <1>5, <1>6 DEF k, d, P

\* How many hops are left at most: while the pointers are too short each hop
\* gains a factor of two, and then each hop takes the leading bit away.
HopsLeft(x, target) ==
    IF x = target THEN 0
    ELSE IF trailing_zeros(x) >= ilog2(x - target) THEN ilog2(x - target) + 1
    ELSE 2 * ilog2(x - target) - trailing_zeros(x) + 1

LEMMA HopGains ==
    ASSUME NEW target \in Nat, NEW x \in Nat, x < 2 ^ 28, target < x
    PROVE  LET y == x - 2 ^ jump(x, target)
           IN  /\ HopsLeft(y, target) \in Nat /\ HopsLeft(x, target) \in Nat
               /\ HopsLeft(y, target) < HopsLeft(x, target)
<1> DEFINE k == jump(x, target)
           P == 2 ^ k
           y == x - P
           d == x - target
           c == y - target
           t == trailing_zeros(x)
           l == ilog2(d)
           u == trailing_zeros(y)
           m == ilog2(c)
<1>0. x \in Nat \ {0} /\ d \in Nat \ {0} /\ d < 2 ^ 28
  OBVIOUS
<1>1. /\ k \in Bits /\ k <= t /\ k <= l
      /\ P \in Nat \ {0} /\ P <= d /\ y \in target .. x - 1
  BY HopLands
<1>2. t \in Bits /\ l \in Bits /\ 2 ^ l <= d /\ d < 2 ^ (l + 1)
  BY <1>0, LowestBit, LeadingBit
<1>3. k = IF l < t THEN l ELSE t
  BY DEF jump
<1>4. y # target => y \in Nat \ {0} /\ y < 2 ^ 28 /\ c \in Nat \ {0} /\ c < 2 ^ 28
  BY <1>1
<1>5. y # target => u \in Bits /\ m \in Bits /\ 2 ^ m <= c
  BY <1>4, LowestBit, LeadingBit
<1>6. y # target => m <= l
  <2>1. c <= d
    BY <1>1
  <2> QED BY <1>0, <1>4, <2>1, LeadingBitOrder
<1>7. y # target => u >= k /\ (k = t => u >= k + 1)
  BY <1>0, <1>1, <1>4, HopFactors
<1>8. y # target /\ k = l => m < k
  <2> SUFFICES ASSUME y # target, k = l, m >= k PROVE FALSE
    BY <1>1, <1>5 DEF Bits
  <2>1. 2 ^ k <= 2 ^ m /\ 2 ^ m \in Nat /\ 2 ^ (k + 1) = 2 * P
    <3> HIDE DEF k, m
    <3>1. m \in 0 .. 28 /\ k \in 0 .. m
      BY <1>1, <1>5 DEF Bits
    <3>2. 2 ^ k <= 2 ^ m /\ 2 ^ m \in Nat
      BY <3>1, PowerOrder
    <3>3. 2 ^ (k + 1) = 2 * 2 ^ k
      BY <1>1, Powers
    <3> QED BY <3>2, <3>3
  <2>2. P <= c /\ d < 2 * P
    BY <1>1, <1>2, <1>4, <1>5, <2>1
  <2>3. c = d - P
    BY <1>1
  <2> HIDE DEF c, d, P
  <2> QED BY <1>0, <1>1, <1>4, <2>2, <2>3
<1>9. HopsLeft(x, target) = IF t >= l THEN l + 1 ELSE 2 * l - t + 1
  BY DEF HopsLeft
<1>10. HopsLeft(y, target) =
           IF y = target THEN 0 ELSE IF u >= m THEN m + 1 ELSE 2 * m - u + 1
  BY DEF HopsLeft
<1> HIDE DEF k, y, c, d, t, l, u, m, P
<1>11. t \in 0 .. 27 /\ l \in 0 .. 27 /\ k \in 0 .. 27
       /\ (y # target => u \in 0 .. 27 /\ m \in 0 .. 27)
  BY <1>1, <1>2, <1>5 DEF Bits
<1>12. /\ HopsLeft(y, target) \in Nat /\ HopsLeft(x, target) \in Nat
       /\ HopsLeft(y, target) < HopsLeft(x, target)
  <2>1. CASE y = target
    BY <1>9, <1>10, <1>11, <2>1
  <2>2. CASE y # target /\ t >= l
    BY <1>3, <1>7, <1>8, <1>9, <1>10, <1>11, <2>2
  <2>3. CASE y # target /\ t < l
    BY <1>3, <1>6, <1>7, <1>9, <1>10, <1>11, <2>3
  <2> QED BY <1>11, <2>1, <2>2, <2>3
<1> QED BY <1>12 DEF y, P, k

----------------------------------------------------------------------------
(* The layout.                                                             *)

\* The byte of the file that block i begins with.
Start(i, size) ==
    IF i = 0 THEN 0 ELSE (size - 2 * PtrSize) * i + PtrSize * (popcount(i - 1) + 2)

LEMMA SkipPointers ==
    ASSUME NEW i \in Nat, i < 2 ^ 28
    PROVE  skip_pointers_in_block(i) \in 0 .. 28
BY LowestBit DEF skip_pointers_in_block, Bits

\* Products of a pointer's size.
LEMMA PtrTimes ==
    ASSUME NEW x \in Int, NEW y \in Int
    PROVE  /\ PtrSize * x \in Int
           /\ PtrSize * (x + y) = PtrSize * x + PtrSize * y
           /\ PtrSize * (x - y) = PtrSize * x - PtrSize * y
           /\ x <= y => PtrSize * x <= PtrSize * y
BY PtrAssumption

\* Every block has room, and the next one begins where it ends.
LEMMA StartStep ==
    ASSUME NEW i \in Nat, i < 2 ^ 28, NEW size \in Nat, size >= 32 * PtrSize
    PROVE  /\ Start(i, size) \in Nat /\ content_bytes_in_block(i, size) \in Nat \ {0}
           /\ Start(i + 1, size) = Start(i, size) + content_bytes_in_block(i, size)
<1> DEFINE p == PtrSize
           b == size - 2 * p
           s == skip_pointers_in_block(i)
<1>1. p \in Nat \ {0} /\ b \in Nat /\ size \in Nat /\ b >= 30 * p
  BY PtrAssumption
<1>2. s \in 0 .. 28 /\ p * s \in Nat /\ p * s <= p * 28
  BY SkipPointers, PtrAssumption
<1>3. popcount(i) \in Nat /\ popcount(i - 1) \in Nat
  BY PopcountRange
<1>4. CASE i = 0
  <2>1. s = 0 /\ popcount(0) = 0
    BY <1>4, PopcountZero DEF skip_pointers_in_block
  <2>2. (i + 1) - 1 = 0 /\ i + 1 # 0 /\ i + 1 = 1
    BY <1>4
  <2>3. Start(i + 1, size) = b * 1 + p * 2
    BY <2>1, <2>2 DEF Start
  <2>4. Start(i, size) = 0 /\ content_bytes_in_block(i, size) = size
    BY <1>1, <1>4, <2>1 DEF Start, content_bytes_in_block
  <2> QED BY <1>1, <2>3, <2>4
<1>5. CASE i # 0
  <2> DEFINE c == popcount(i)
             d == popcount(i - 1)
  <2>1. d = c + s - 2
    BY <1>2, <1>3, <1>5, PopcountStep, LowestBit DEF skip_pointers_in_block, Bits
  <2>2. Start(i, size) = b * i + p * (d + 2)
    BY <1>5 DEF Start
  <2>3. Start(i + 1, size) = b * (i + 1) + p * (c + 2)
    BY DEF Start
  <2>4. content_bytes_in_block(i, size) = size - p * s
    BY DEF content_bytes_in_block
  <2> HIDE DEF s, c, d, b, p
  <2>5. c \in Nat /\ d \in Nat /\ s \in Int
    BY <1>2, <1>3 DEF c, d
  <2>6. /\ p * (d + 2) = p * c + p * s
        /\ p * (c + 2) = p * c + 2 * p
        /\ p * c \in Nat
    BY <1>1, <2>1, <2>5
  <2>7. b * (i + 1) = b * i + b /\ b * i \in Nat
    BY <1>1
  <2>8. size = b + 2 * p
    BY <1>1 DEF b
  <2> QED BY <1>1, <1>2, <2>2, <2>3, <2>4, <2>5, <2>6, <2>7, <2>8
<1> QED BY <1>4, <1>5

\* block_index_at_offset on a byte of block i: the first division is at most
\* one block too high, and the correction is exact.
LEMMA IndexAtOffset ==
    ASSUME NEW i \in Nat, i < 2 ^ 28, NEW size \in Nat, size >= 32 * PtrSize,
           NEW o \in Nat, Start(i, size) <= o, o < Start(i + 1, size)
    PROVE  block_index_at_offset(o, size) =
               <<i, PtrSize * skip_pointers_in_block(i) + o - Start(i, size)>>
<1> DEFINE p == PtrSize
           b == size - 2 * p
           s == skip_pointers_in_block(i)
           c == popcount(i)
           d == popcount(i - 1)
           i0 == o \div b
           e == popcount(i0 - 1)
           j == (o - p * (e + 2)) \div b
<1>1. p \in Nat \ {0} /\ b \in Nat \ {0} /\ b >= 30 * p /\ size = b + 2 * p
  BY PtrAssumption
<1>2. s \in 0 .. 28 /\ c \in 0 .. 28 /\ d \in 0 .. 28 /\ e \in 0 .. 28
  BY SkipPointers, PopcountRange
<1>3. i # 0 => d = c + s - 2
  BY <1>2, PopcountStep, LowestBit DEF skip_pointers_in_block, Bits
<1>4. i = 0 => c = 0 /\ s = 0
  BY PopcountZero DEF skip_pointers_in_block
<1>5. Start(i + 1, size) = b * (i + 1) + p * (c + 2)
  <2>1. i + 1 # 0 /\ (i + 1) - 1 = i
    OBVIOUS
  <2> QED BY <2>1 DEF Start
<1>6. i # 0 => Start(i, size) = b * i + p * (d + 2)
  BY DEF Start
<1>7. i = 0 => Start(i, size) = 0
  BY DEF Start
<1>8. block_index_at_offset(o, size) =
          IF i0 = 0 THEN <<0, o>> ELSE <<j, o - b * j - p * popcount(j)>>
  BY DEF block_index_at_offset
<1>9. i0 \in Int /\ o % b \in 0 .. b - 1 /\ o = b * i0 + (o % b)
  <2> HIDE DEF b
  <2>1. b \in Nat \ {0} /\ o \in Int
    BY <1>1
  <2>2. o \div b \in Int /\ o % b \in 0 .. b - 1 /\ o = b * (o \div b) + (o % b)
    BY <2>1, DivMod, Zenon
  <2> QED BY <2>2
<1>10. /\ p * (c + 2) = p * c + 2 * p /\ p * c \in Nat /\ p * c <= p * 28
       /\ p * (d + 2) = p * d + 2 * p /\ p * d \in Nat /\ p * d <= p * 28
       /\ p * (e + 2) = p * e + 2 * p /\ p * e \in Nat /\ p * e <= p * 28
       /\ p * s \in Nat
       /\ i # 0 => p * d = p * c + p * s - 2 * p
       /\ i = 0 => p * c = 0 /\ p * s = 0
  <2> HIDE DEF p, b, s, c, d, i0, e, j
  <2>1. \A x \in 0 .. 28 : p * (x + 2) = p * x + 2 * p /\ p * x \in Nat /\ p * x <= p * 28
    BY <1>1
  <2>2. i # 0 => p * d = p * c + p * s - 2 * p
    BY <1>1, <1>2, <1>3
  <2>3. i = 0 => p * c = 0 /\ p * s = 0
    BY <1>1, <1>4
  <2> QED BY <1>2, <2>1, <2>2, <2>3
<1>11. b * (i + 1) = b * i + b /\ b * (i + 2) = b * i + 2 * b /\ b * i \in Nat
  BY <1>1
<1>12. j = i => <<j, o - b * j - p * popcount(j)>> = <<i, p * s + o - Start(i, size)>>
  BY <1>1, <1>6, <1>7, <1>10, <1>11
<1>13. \A n \in Nat, x \in Int : b * n <= x /\ x < b * n + b => x \div b = n
  <2> TAKE n \in Nat, x \in Int
  <2> HAVE b * n <= x /\ x < b * n + b
  <2>1. b \in Nat \ {0}
    BY <1>1
  <2> HIDE DEF b
  <2> QED BY <2>1, DivBetween
<1>14. i0 # 0 => e = popcount(i0 - 1)
  OBVIOUS
<1>15. i0 < i + 2
  <2> SUFFICES ASSUME i0 >= i + 2 PROVE FALSE
    BY <1>9
  <2> HIDE DEF p, b, s, c, d, i0, e, j
  <2>1. b * i0 >= b * (i + 2)
    BY <1>1, <1>9
  <2> QED BY <1>1, <1>5, <1>9, <1>10, <1>11, <2>1
<1>16. i0 >= i
  <2> SUFFICES ASSUME i0 <= i - 1 PROVE FALSE
    BY <1>9
  <2> HIDE DEF p, b, s, c, d, i0, e, j
  <2>1. b * i0 <= b * (i - 1) /\ b * (i - 1) = b * i - b
    BY <1>1, <1>9
  <2>2. o < b * i
    BY <1>1, <1>9, <1>11, <2>1
  <2> QED BY <1>1, <1>6, <1>7, <1>9, <1>10, <1>11, <2>2
<1>17. CASE i0 = i
  <2>1. CASE i = 0
    BY <1>7, <1>8, <1>10, <1>17, <2>1
  <2>2. CASE i # 0
    <3>1. e = d
      BY <1>17
    <3> HIDE DEF p, b, s, c, d, i0, e
    <3>2. b * i <= o - p * (e + 2) /\ o - p * (e + 2) < b * i + b /\ o - p * (e + 2) \in Int
      BY <1>1, <1>6, <1>9, <1>10, <1>17, <2>2, <3>1
    <3>3. j = i
      BY <1>13, <3>2
    <3> QED BY <1>8, <1>12, <1>17, <2>2, <3>3 DEF p, s
  <2> QED BY <2>1, <2>2
<1>18. CASE i0 = i + 1
  <2>1. e = c /\ i0 # 0
    BY <1>18
  <2> HIDE DEF p, b, s, c, d, i0, e
  <2>2. b * i <= o - p * (e + 2) /\ o - p * (e + 2) < b * i + b /\ o - p * (e + 2) \in Int
    <3>1. b * i0 = b * i + b
      BY <1>11, <1>18
    <3> QED BY <1>1, <1>5, <1>9, <1>10, <1>11, <2>1, <3>1
  <2>3. j = i
    BY <1>13, <2>2
  <2> QED BY <1>8, <1>12, <2>1, <2>3 DEF p, s
<1> QED BY <1>9, <1>15, <1>16, <1>17, <1>18

----------------------------------------------------------------------------
(* MCCtz: the blocks filled one after the other.                           *)

\* The hops from the head of the chain: they stay on the chain, and there
\* are as many left as HopsLeft says.
LEMMA HopsDescend ==
    ASSUME NEW i \in Nat, i < 2 ^ 28, NEW target \in 0 .. i, NEW N \in Nat, NEW h,
           h = [n \in 0 .. N |->
                   IF n = 0 THEN i
                   ELSE IF h[n - 1] = target THEN target
                   ELSE h[n - 1] - 2 ^ jump(h[n - 1], target)]
    PROVE  \A n \in 0 .. N : /\ h[n] \in target .. i
                             /\ HopsLeft(h[n], target) \in Nat
                             /\ h[n] = target \/ HopsLeft(h[n], target) + n <= HopsLeft(i, target)
<1> DEFINE S == {n \in 0 .. N :
                    /\ h[n] \in target .. i
                    /\ HopsLeft(h[n], target) \in Nat
                    /\ h[n] = target \/ HopsLeft(h[n], target) + n <= HopsLeft(i, target)}
<1>1. h[0] = i /\ \A n \in 1 .. N : h[n] = IF h[n - 1] = target THEN target
                                        ELSE h[n - 1] - 2 ^ jump(h[n - 1], target)
  <2>1. h[0] = i
    OBVIOUS
  <2>2. ASSUME NEW n \in 1 .. N
        PROVE  h[n] = IF h[n - 1] = target THEN target
                      ELSE h[n - 1] - 2 ^ jump(h[n - 1], target)
    <3>1. n \in 0 .. N /\ n # 0
      OBVIOUS
    <3> QED BY <3>1
  <2> QED BY <2>1, <2>2
<1>2. HopsLeft(target, target) = 0
  BY DEF HopsLeft
<1>3. HopsLeft(i, target) \in Nat
  BY <1>2, HopGains
<1>4. 0 \in S
  BY <1>1, <1>3
<1>5. ASSUME NEW n \in 0 .. N - 1, n \in S PROVE n + 1 \in S
  <2> DEFINE x == h[n]
             y == h[n + 1]
  <2>1. x \in target .. i /\ HopsLeft(x, target) \in Nat
        /\ (x = target \/ HopsLeft(x, target) + n <= HopsLeft(i, target))
    BY <1>5
  <2>2. y = IF x = target THEN target ELSE x - 2 ^ jump(x, target)
    <3>1. n + 1 \in 1 .. N /\ (n + 1) - 1 = n
      OBVIOUS
    <3> QED BY <1>1, <3>1
  <2> HIDE DEF x, y
  <2>3. CASE x = target
    <3>1. y = target
      BY <2>2, <2>3
    <3> QED BY <1>2, <3>1 DEF y
  <2>4. CASE x # target
    <3>1. x \in Nat /\ x < 2 ^ 28 /\ target \in Nat /\ target < x
      BY <2>1, <2>4
    <3>2. y = x - 2 ^ jump(x, target)
      BY <2>2, <2>4
    <3>3. y \in target .. x - 1
      BY <3>1, <3>2, HopLands
    <3>4. HopsLeft(y, target) \in Nat /\ HopsLeft(y, target) < HopsLeft(x, target)
      BY <3>1, <3>2, HopGains
    <3> QED BY <1>3, <2>1, <2>4, <3>1, <3>3, <3>4 DEF y
  <2> QED BY <2>3, <2>4
<1> HIDE DEF S
<1>6. \A n \in 0 .. N : n \in S
  BY <1>4, <1>5, UpToInduction
<1> QED BY <1>6 DEF S

\* The hops are well defined: each is computed from the one before.
LEMMA HopsExist ==
    ASSUME NEW i \in Nat, i < 2 ^ 28, NEW target \in 0 .. i, NEW N \in Nat
    PROVE  \E h : h = [n \in 0 .. N |->
                          IF n = 0 THEN i
                          ELSE IF h[n - 1] = target THEN target
                          ELSE h[n - 1] - 2 ^ jump(h[n - 1], target)]
<1> DEFINE A == target .. i
           next(x) == IF x = target THEN target ELSE x - 2 ^ jump(x, target)
           step == [n \in 1 .. N |-> [x \in A |-> next(x)]]
<1>1. \A x \in A : next(x) \in A
  <2> TAKE x \in A
  <2>1. CASE x = target
    BY <2>1
  <2>2. CASE x # target
    <3>1. x \in Nat /\ x < 2 ^ 28 /\ target \in Nat /\ target < x
      BY <2>2
    <3>2. x - 2 ^ jump(x, target) \in target .. x - 1
      BY <3>1, HopLands
    <3> QED BY <2>2, <3>1, <3>2
  <2> QED BY <2>1, <2>2
<1>2. i \in A
  OBVIOUS
<1> HIDE DEF A, next
<1>3. StepsStay(step, N, A)
  BY <1>1 DEF StepsStay
<1>4. \A n \in 1 .. N, x \in A : step[n][x] = next(x)
  OBVIOUS
<1> HIDE DEF step
<1>5. PICK g : /\ g \in [0 .. N -> A]
               /\ g[0] = i
               /\ \A n \in 1 .. N : g[n] = step[n][g[n - 1]]
  <2>1. PICK g : Follows(g, N, A, i, step)
    BY <1>2, <1>3, StepsExist
  <2> QED BY <2>1 DEF Follows
<1>6. \A n \in 0 .. N : g[n] = IF n = 0 THEN i ELSE next(g[n - 1])
  <2> TAKE n \in 0 .. N
  <2>1. CASE n = 0
    BY <1>5, <2>1
  <2>2. CASE n # 0
    <3>1. n \in 1 .. N /\ n - 1 \in 0 .. N
      BY <2>2
    <3>2. g[n - 1] \in A
      BY <1>5, <3>1
    <3> QED BY <1>4, <1>5, <2>2, <3>1, <3>2
  <2> QED BY <2>1, <2>2
<1>7. g = [n \in 0 .. N |-> IF n = 0 THEN i ELSE next(g[n - 1])]
  BY <1>5, <1>6
<1> QED BY <1>7 DEF next

\* At most twice as many hops as the distance has bits.
LEMMA HopsBound ==
    ASSUME NEW i \in Nat, i < 2 ^ 28, NEW target \in 0 .. i
    PROVE  LET bound == IF i = target THEN 0 ELSE 2 * (ilog2(i - target) + 1)
           IN  bound \in 0 .. 56 /\ HopsLeft(i, target) <= bound
<1>1. CASE i = target
  BY <1>1 DEF HopsLeft
<1>2. CASE i # target
  <2>1. i \in Nat \ {0} /\ i - target \in Nat \ {0} /\ i - target < 2 ^ 28
    BY <1>2
  <2>2. ilog2(i - target) \in 0 .. 27 /\ trailing_zeros(i) \in 0 .. 27
    BY <2>1, LowestBit, LeadingBit DEF Bits
  <2> QED BY <1>2, <2>2 DEF HopsLeft
<1> QED BY <1>1, <1>2
=============================================================================
