----------------------------- MODULE CtzProofs -----------------------------
(***************************************************************************)
(* Proofs about the arithmetic of a CTZ skip list, for every block size    *)
(* the code accepts and every offset of a file: the closed formulas of     *)
(* ctz.rs agree with the layout, and a seek arrives.                       *)
(***************************************************************************)
EXTENDS MCCtz, CtzLemmas

\* Where the layout is: the start of a block is the closed formula's.
LayoutInv ==
    /\ bs \in BlockSizes /\ off \in 0 .. MaxOffset /\ index \in Nat
    /\ start = Start(index, bs)
    /\ start <= off /\ off < start + content_bytes_in_block(index, bs)

\* An offset of the run has a block index that 28 bits hold.
LEMMA IndexRange ==
    ASSUME NEW i \in Nat, NEW size \in BlockSizes, NEW o \in 0 .. MaxOffset,
           Start(i, size) <= o
    PROVE  i < 2 ^ 28 /\ size \in Nat /\ size >= 32 * PtrSize
<1> DEFINE p == PtrSize
           b == size - 2 * p
           D == 30 * p
           m == MaxOffset \div D
<1>1. p \in Nat \ {0} /\ size \in Nat /\ size >= 32 * p /\ b >= D
  BY PtrAssumption, LayoutAssumption
<1>2. D \in Nat \ {0} /\ m < 2 ^ 28 /\ MaxOffset \in Nat
  BY <1>1, LayoutAssumption
<1>3. D * i <= MaxOffset
  <2>1. CASE i = 0
    BY <1>2, <2>1
  <2>2. CASE i # 0
    <3>1. popcount(i - 1) \in Nat
      BY PopcountRange
    <3>2. b * i <= Start(i, size)
      BY <1>1, <2>2, <3>1 DEF Start
    <3> HIDE DEF b, D
    <3>3. b \in Int /\ b - D \in Nat
      BY <1>1, <1>2 DEF b
    <3>4. (b - D) * i \in Nat /\ (b - D) * i = b * i - D * i
      BY <1>2, <3>3
    <3>5. b * i \in Int /\ D * i \in Int
      BY <1>2, <3>3
    <3>6. o <= MaxOffset /\ o \in Nat /\ b * i <= o
      <4>1. Start(i, size) \in Int
        BY <1>1, <2>2, <3>1, <3>3 DEF Start, b
      <4> QED BY <1>2, <3>2, <3>5, <4>1
    <3> QED BY <1>2, <3>4, <3>5, <3>6
  <2> QED BY <2>1, <2>2
<1>4. i <= m
  <2> HIDE DEF D, p, b
  <2>1. m \in Int /\ MaxOffset % D \in 0 .. D - 1 /\ MaxOffset = D * m + (MaxOffset % D)
    BY <1>2, DivMod
  <2> HIDE DEF m
  <2>2. CASE i >= m + 1
    <3>1. D * i >= D * (m + 1) /\ D * (m + 1) = D * m + D
      BY <1>2, <2>1, <2>2
    <3> QED BY <1>2, <1>3, <2>1, <3>1
  <2> QED BY <2>1, <2>2
<1>5. m \in Int
  <2> HIDE DEF D
  <2> QED BY <1>2, DivMod
<1> QED BY <1>1, <1>2, <1>4, <1>5

LEMMA LayoutInvariant == Spec => []LayoutInv
<1>1. Init => LayoutInv
  <2> SUFFICES ASSUME Init PROVE LayoutInv
    OBVIOUS
  <2>1. bs \in Nat /\ bs >= 32 * PtrSize /\ 0 < 2 ^ 28 /\ PtrSize \in Nat \ {0}
    BY LayoutAssumption, PtrAssumption DEF Init
  <2>2. content_bytes_in_block(0, bs) \in Nat \ {0} /\ Start(0, bs) = 0
    BY <2>1, StartStep DEF Start
  <2> QED BY <2>2, LayoutAssumption DEF Init, LayoutInv
<1>2. LayoutInv /\ [Next \/ Done]_vars => LayoutInv'
  <2> SUFFICES ASSUME LayoutInv, [Next \/ Done]_vars PROVE LayoutInv'
    OBVIOUS
  <2>1. CASE Next
    <3>1. /\ index < 2 ^ 28 /\ bs \in Nat /\ bs >= 32 * PtrSize /\ off + 1 \in 0 .. MaxOffset
          /\ bs' = bs /\ off' = off + 1
      BY <2>1, IndexRange, LayoutAssumption DEF LayoutInv, Next
    <3>2. /\ start \in Nat /\ content_bytes_in_block(index, bs) \in Nat \ {0}
          /\ Start(index + 1, bs) = start + content_bytes_in_block(index, bs)
      BY <3>1, StartStep DEF LayoutInv
    <3>3. CASE off + 1 < start + content_bytes_in_block(index, bs)
      BY <2>1, <3>1, <3>2, <3>3 DEF LayoutInv, Next
    <3>4. CASE ~(off + 1 < start + content_bytes_in_block(index, bs))
      <4>1. index' = index + 1 /\ start' = off + 1 /\ index + 1 \in Nat
        BY <2>1, <3>4 DEF LayoutInv, Next
      <4>2. start' = Start(index', bs')
        BY <3>1, <3>2, <3>4, <4>1 DEF LayoutInv
      <4>3. index + 1 < 2 ^ 28
        BY <3>1, <4>1, <4>2, IndexRange DEF LayoutInv
      <4>4. content_bytes_in_block(index + 1, bs) \in Nat \ {0}
        BY <3>1, <4>1, <4>3, StartStep
      <4> QED BY <3>1, <4>1, <4>2, <4>4 DEF LayoutInv
    <3> QED BY <3>3, <3>4
  <2>2. CASE Done \/ UNCHANGED vars
    BY <2>2 DEF Done, vars, LayoutInv
  <2> QED BY <2>1, <2>2
<1> QED BY <1>1, <1>2, PTL DEF Spec

\* The invariant places the offset between the starts of two blocks.
LEMMA LayoutPlaces ==
    ASSUME LayoutInv
    PROVE  /\ index \in Nat /\ index < 2 ^ 28 /\ bs \in Nat /\ bs >= 32 * PtrSize /\ off \in Nat
           /\ start = Start(index, bs) /\ Start(index, bs) <= off /\ off < Start(index + 1, bs)
<1>1. index < 2 ^ 28 /\ bs \in Nat /\ bs >= 32 * PtrSize
  BY IndexRange DEF LayoutInv
<1> QED BY <1>1, StartStep DEF LayoutInv

\* block_index_at_offset finds the block and the position that filling the
\* blocks one after the other arrives at, for every block size from the floor
\* on and every offset (ctz.rs, block_index_at_offset).
THEOREM FormulaIsLayout == Spec => []IndexMatchesLayout
<1>1. LayoutInv => IndexMatchesLayout
  BY LayoutPlaces, IndexAtOffset DEF IndexMatchesLayout
<1> QED BY <1>1, LayoutInvariant, PTL

\* A file has exactly the blocks its last byte needs, on both sides of every
\* block boundary (ctz.rs, block_count).
THEOREM CountIsLayout == Spec => []CountMatchesLayout
<1>1. LayoutInv => CountMatchesLayout
  <2> SUFFICES ASSUME LayoutInv PROVE CountMatchesLayout
    OBVIOUS
  <2>1. off \in Nat /\ off + 1 # 0 /\ (off + 1) - 1 = off
    BY LayoutPlaces
  <2>2. block_index_at_offset(off, bs)[1] = index
    BY LayoutPlaces, IndexAtOffset
  <2> QED BY <2>1, <2>2 DEF CountMatchesLayout, block_count
<1> QED BY <1>1, LayoutInvariant, PTL

\* Every descent stays on the chain, uses pointers its blocks have, and ends
\* at the block it looks for in two hops for each bit of the distance
\* (ctz.rs, seek_block).
THEOREM SeekIsLogarithmic == Spec => []SeekArrives
<1>1. LayoutInv => SeekArrives
  <2> SUFFICES ASSUME LayoutInv, NEW target \in 0 .. index
               PROVE  LET hops[n \in 0 .. 2 * 28] ==
                              IF n = 0 THEN index
                              ELSE IF hops[n - 1] = target THEN target
                              ELSE hops[n - 1] - 2 ^ jump(hops[n - 1], target)
                          bound == IF index = target THEN 0
                                   ELSE 2 * (ilog2(index - target) + 1)
                      IN  /\ \A n \in 0 .. bound : hops[n] >= target
                          /\ \A n \in 0 .. bound : hops[n] > target =>
                                  jump(hops[n], target) < skip_pointers_in_block(hops[n])
                          /\ hops[bound] = target
    BY DEF SeekArrives
  <2> DEFINE hops[n \in 0 .. 2 * 28] ==
                 IF n = 0 THEN index
                 ELSE IF hops[n - 1] = target THEN target
                 ELSE hops[n - 1] - 2 ^ jump(hops[n - 1], target)
             bound == IF index = target THEN 0 ELSE 2 * (ilog2(index - target) + 1)
  <2>1. index \in Nat /\ index < 2 ^ 28 /\ target \in 0 .. index
    BY LayoutPlaces
  <2>2. 2 * 28 = 56 /\ 56 \in Nat
    OBVIOUS
  <2>3. \E h : h = [n \in 0 .. 2 * 28 |->
                       IF n = 0 THEN index
                       ELSE IF h[n - 1] = target THEN target
                       ELSE h[n - 1] - 2 ^ jump(h[n - 1], target)]
    <3> DEFINE N == 2 * 28
    <3>1. N \in Nat
      OBVIOUS
    <3> HIDE DEF N
    <3>2. \E h : h = [n \in 0 .. N |->
                         IF n = 0 THEN index
                         ELSE IF h[n - 1] = target THEN target
                         ELSE h[n - 1] - 2 ^ jump(h[n - 1], target)]
      BY <2>1, <3>1, HopsExist
    <3> QED BY <3>2 DEF N
  <2>4. hops = [n \in 0 .. 2 * 28 |->
                   IF n = 0 THEN index
                   ELSE IF hops[n - 1] = target THEN target
                   ELSE hops[n - 1] - 2 ^ jump(hops[n - 1], target)]
    BY <2>3
  <2> HIDE DEF hops
  <2>5. \A n \in 0 .. 56 : /\ hops[n] \in target .. index
                           /\ HopsLeft(hops[n], target) \in Nat
                           /\ \/ hops[n] = target
                              \/ HopsLeft(hops[n], target) + n <= HopsLeft(index, target)
    BY <2>1, <2>2, <2>4, HopsDescend
  <2>6. bound \in 0 .. 56 /\ HopsLeft(index, target) <= bound
    BY <2>1, HopsBound
  <2> HIDE DEF bound
  <2>7. \A n \in 0 .. bound : n \in 0 .. 56
    BY <2>6
  <2>8. \A n \in 0 .. bound : hops[n] > target =>
            jump(hops[n], target) < skip_pointers_in_block(hops[n])
    <3> TAKE n \in 0 .. bound
    <3> HAVE hops[n] > target
    <3> DEFINE x == hops[n]
    <3>1. x \in Nat /\ x < 2 ^ 28 /\ target \in Nat /\ target < x
      BY <2>1, <2>5, <2>7
    <3> HIDE DEF x
    <3>2. jump(x, target) < skip_pointers_in_block(x)
      BY <3>1, HopLands
    <3> QED BY <3>2 DEF x
  <2>9. hops[bound] = target
    <3> DEFINE x == hops[bound]
    <3>1. x \in target .. index /\ HopsLeft(x, target) \in Nat
          /\ (x = target \/ HopsLeft(x, target) + bound <= HopsLeft(index, target))
      BY <2>5, <2>6
    <3>2. x # target => HopsLeft(x, target) > 0
      <4> HAVE x # target
      <4>1. x \in Nat /\ x < 2 ^ 28 /\ target \in Nat /\ target < x
        BY <2>1, <3>1
      <4> HIDE DEF x
      <4>2. \E m \in Nat : m < HopsLeft(x, target)
        BY <4>1, HopGains
      <4> QED BY <3>1, <4>2
    <3>3. HopsLeft(index, target) \in Nat
      <4>1. CASE index = target
        BY <4>1 DEF HopsLeft
      <4>2. CASE index # target
        <5>1. target \in Nat /\ target < index
          BY <2>1, <4>2
        <5> QED BY <2>1, <5>1, HopGains
      <4> QED BY <4>1, <4>2
    <3> HIDE DEF x
    <3>4. x = target
      BY <2>6, <3>1, <3>2, <3>3
    <3> QED BY <3>4 DEF x
  <2>10. \A n \in 0 .. bound : hops[n] >= target
    BY <2>1, <2>5, <2>7
  <2> QED BY <2>8, <2>9, <2>10 DEF hops, bound
<1> QED BY <1>1, LayoutInvariant, PTL
=============================================================================
