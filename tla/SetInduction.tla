---------------------------- MODULE SetInduction ----------------------------
(***************************************************************************)
(* Induction over the natural numbers, and the existence of functions that *)
(* are defined by recursion on them, stated about sets and functions: the  *)
(* other proof modules cite these lemmas for a set of their own.           *)
(***************************************************************************)
EXTENDS Integers, TLAPS, WellFoundedInduction

\* Every non-empty set of natural numbers has a least element.
LEMMA LeastNatural ==
    ASSUME NEW S, S \subseteq Nat, S # {}
    PROVE  \E m \in S : \A n \in S : m <= n
<1> DEFINE R == {ss \in Nat \X Nat : ss[1] < ss[2]}
<1>1. IsWellFoundedOn(R, Nat)
  BY NatLessThanWellFounded DEF OpToRel
<1>2. \A y, x \in Nat : <<y, x>> \notin R => x <= y
  OBVIOUS
<1> HIDE DEF R
<1>3. PICK x \in S : \A y \in S : <<y, x>> \notin R
  BY <1>1, WFMin
<1> QED BY <1>2, <1>3

\* Induction on a set.
LEMMA NatSetInduction ==
    ASSUME NEW S, 0 \in S, \A n \in Nat : n \in S => n + 1 \in S
    PROVE  \A n \in Nat : n \in S
<1> SUFFICES ASSUME \E n \in Nat : n \notin S PROVE FALSE
  OBVIOUS
<1> DEFINE T == {n \in Nat : n \notin S}
<1>1. PICK m \in T : \A n \in T : m <= n
  BY LeastNatural
<1>2. m # 0
  OBVIOUS
<1>3. m - 1 \in Nat /\ m - 1 \in S
  BY <1>1, <1>2
<1> QED BY <1>3

\* Induction up to a bound.
LEMMA UpToInduction ==
    ASSUME NEW N \in Nat, NEW S, 0 \in S, \A n \in 0 .. N - 1 : n \in S => n + 1 \in S
    PROVE  \A n \in 0 .. N : n \in S
<1> DEFINE T == {n \in Nat : n <= N => n \in S}
<1>1. 0 \in T /\ \A n \in Nat : n \in T => n + 1 \in T
  OBVIOUS
<1> HIDE DEF T
<1>2. \A n \in Nat : n \in T
  BY <1>1, NatSetInduction
<1> QED BY <1>2 DEF T

\* Among the numbers up to N, some largest one is in S.
LEMMA LargestUpTo ==
    ASSUME NEW N \in Nat, NEW S, S \subseteq 0 .. N, S # {}
    PROVE  \E m \in S : \A n \in S : n <= m
<1> DEFINE T == {n \in Nat : N - n \in S}
<1>1. \A n \in S : N - n \in T
  OBVIOUS
<1>2. T \subseteq Nat /\ T # {}
  BY <1>1
<1>3. PICK d \in T : \A e \in T : d <= e
  BY <1>2, LeastNatural
<1>4. N - d \in S /\ d \in Nat
  BY <1>3
<1>5. ASSUME NEW n \in S PROVE n <= N - d
  <2>1. N - n \in T /\ n \in 0 .. N
    BY <1>1
  <2>2. d <= N - n
    BY <1>3, <2>1
  <2> QED BY <1>4, <2>1, <2>2
<1> QED BY <1>4, <1>5

\* step[n] maps A into A for each of the first N steps.
StepsStay(step, N, A) == \A n \in 1 .. N, x \in A : step[n][x] \in A

\* g is the sequence of elements of A that starts at a and takes those steps.
Follows(g, N, A, a, step) == /\ g \in [0 .. N -> A]
                             /\ g[0] = a
                             /\ \A n \in 1 .. N : g[n] = step[n][g[n - 1]]

\* Recursion: a sequence of N steps from a, each of which stays in A.
LEMMA StepsExist ==
    ASSUME NEW N \in Nat, NEW A, NEW a \in A, NEW step, StepsStay(step, N, A)
    PROVE  \E g : Follows(g, N, A, a, step)
<1> DEFINE Is(g, m) == Follows(g, m, A, a, step)
           S == {m \in 0 .. N : \E g : Is(g, m)}
<1>1. 0 \in S
  <2>1. Is([n \in 0 .. 0 |-> a], 0)
    BY DEF Follows
  <2> HIDE DEF Is
  <2>2. \E g : Is(g, 0)
    BY <2>1
  <2> QED BY <2>2
<1>2. ASSUME NEW m \in 0 .. N - 1, m \in S PROVE m + 1 \in S
  <2>1. PICK g : Is(g, m)
    BY <1>2
  <2> DEFINE h == [n \in 0 .. m + 1 |-> IF n = m + 1 THEN step[m + 1][g[m]] ELSE g[n]]
  <2>2. g[m] \in A /\ m + 1 \in 1 .. N
    BY <2>1 DEF Follows
  <2>3. step[m + 1][g[m]] \in A
    BY <2>2 DEF StepsStay
  <2>4. h \in [0 .. m + 1 -> A]
    BY <2>1, <2>3 DEF Follows
  <2>5. h[0] = a
    BY <2>1 DEF Follows
  <2>6. ASSUME NEW n \in 1 .. m + 1 PROVE h[n] = step[n][h[n - 1]]
    <3>1. CASE n = m + 1
      <4>1. n - 1 = m /\ h[m] = g[m] /\ h[n] = step[m + 1][g[m]]
        BY <3>1
      <4> QED BY <3>1, <4>1
    <3>2. CASE n # m + 1
      <4>1. n \in 1 .. m /\ n - 1 \in 0 .. m /\ n # m + 1 /\ n - 1 # m + 1
        BY <3>2
      <4>2. h[n] = g[n] /\ h[n - 1] = g[n - 1]
        BY <4>1
      <4> QED BY <2>1, <4>1, <4>2 DEF Follows
    <3> QED BY <3>1, <3>2
  <2> HIDE DEF h
  <2>7. Is(h, m + 1)
    BY <2>4, <2>5, <2>6 DEF Follows
  <2> QED BY <2>7
<1> HIDE DEF S
<1>3. \A n \in 0 .. N : n \in S
  BY <1>1, <1>2, UpToInduction
<1>4. N \in S
  BY <1>3
<1> QED BY <1>4 DEF S

\* A function that starts at a and takes those steps is that sequence.
LEMMA RecursionIs ==
    ASSUME NEW N \in Nat, NEW A, NEW a, NEW step, NEW g, Follows(g, N, A, a, step), NEW f,
           f[0] = a, \A n \in 1 .. N : f[n - 1] \in A => f[n] = step[n][f[n - 1]]
    PROVE  \A n \in 0 .. N : f[n] = g[n] /\ f[n] \in A
<1> DEFINE S == {n \in 0 .. N : f[n] = g[n]}
<1>1. 0 \in S
  BY DEF Follows
<1>2. ASSUME NEW n \in 0 .. N - 1, n \in S PROVE n + 1 \in S
  <2>1. n + 1 \in 1 .. N /\ (n + 1) - 1 = n /\ n + 1 \in 0 .. N
    OBVIOUS
  <2>2. f[n] = g[n] /\ g[n] \in A /\ g[n + 1] = step[n + 1][g[n]]
    BY <1>2, <2>1 DEF Follows
  <2>3. f[n + 1] = step[n + 1][f[n]]
    BY <2>1, <2>2
  <2> QED BY <2>1, <2>2, <2>3
<1> HIDE DEF S
<1>3. \A n \in 0 .. N : n \in S
  BY <1>1, <1>2, UpToInduction
<1> QED BY <1>3 DEF S, Follows
=============================================================================
