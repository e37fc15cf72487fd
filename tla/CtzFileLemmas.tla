--------------------------- MODULE CtzFileLemmas ---------------------------
(***************************************************************************)
(* What the operators of CtzFile compute, for every size of a block, of    *)
(* the device and of a file: where a byte of the file lies, what a seek    *)
(* and a walk along a linked chain of blocks find, what a read returns,    *)
(* and which blocks the allocator hands out; and the type invariant of     *)
(* CtzFile, with what it rests on: the lengths and the offsets in the      *)
(* locals of the call that runs.                                           *)
(***************************************************************************)
EXTENDS CtzFile, CtzLemmas

----------------------------------------------------------------------------
(* Where a byte of the file lies.                                          *)

NP(i)  == skip_pointers_in_block(i)
Idx(o) == block_index_at_offset(o, BlockSize)[1]
Pos(o) == block_index_at_offset(o, BlockSize)[2]

\* g accumulates the contents of the first n blocks.
Sums(g, n) == /\ g \in [0 .. n -> Int]
              /\ g[0] = 0
              /\ \A k \in 1 .. n : g[k] = g[k - 1] + content_bytes_in_block(k - 1, BlockSize)

LEMMA ContentBytes ==
    ASSUME NEW i \in Nat, i < 2 ^ 28
    PROVE  /\ NP(i) \in 0 .. 28
           /\ content_bytes_in_block(i, BlockSize) = BlockSize - NP(i)
           /\ content_bytes_in_block(i, BlockSize) \in Int
<1>1. NP(i) \in 0 .. 28
  BY SkipPointers DEF NP
<1>2. PtrSize = 1 /\ BlockSize \in Nat
  BY FileAssumption
<1> QED BY <1>1, <1>2 DEF content_bytes_in_block, NP

LEMMA SumsExist ==
    ASSUME NEW n \in Nat, n <= 2 ^ 28
    PROVE  \E g : Sums(g, n)
<1> DEFINE step == [k \in 1 .. n |-> [x \in Int |-> x + content_bytes_in_block(k - 1, BlockSize)]]
<1>1. \A k \in 1 .. n : content_bytes_in_block(k - 1, BlockSize) \in Int
  <2> TAKE k \in 1 .. n
  <2>1. k - 1 \in Nat /\ k - 1 < 2 ^ 28
    OBVIOUS
  <2> QED BY <2>1, ContentBytes
<1>2. StepsStay(step, n, Int)
  BY <1>1 DEF StepsStay
<1>3. 0 \in Int
  OBVIOUS
<1>4. \A k \in 1 .. n, x \in Int : step[k][x] = x + content_bytes_in_block(k - 1, BlockSize)
  OBVIOUS
<1> HIDE DEF step
<1>5. PICK g : Follows(g, n, Int, 0, step)
  BY <1>2, <1>3, StepsExist
<1>6. g \in [0 .. n -> Int] /\ g[0] = 0 /\ \A k \in 1 .. n : g[k] = step[k][g[k - 1]]
  BY <1>5 DEF Follows
<1>7. \A k \in 1 .. n : g[k] = g[k - 1] + content_bytes_in_block(k - 1, BlockSize)
  <2> TAKE k \in 1 .. n
  <2>1. k - 1 \in 0 .. n
    OBVIOUS
  <2>2. g[k - 1] \in Int
    BY <1>6, <2>1
  <2> QED BY <1>4, <1>6, <2>2
<1> QED BY <1>6, <1>7 DEF Sums

LEMMA SumsAgree ==
    ASSUME NEW n \in Nat, NEW m \in Nat, n <= m, NEW g, NEW h, Sums(g, n), Sums(h, m)
    PROVE  \A k \in 0 .. n : g[k] = h[k]
<1> DEFINE S == {k \in 0 .. n : g[k] = h[k]}
<1>1. 0 \in S
  BY DEF Sums
<1>2. ASSUME NEW k \in 0 .. n - 1, k \in S PROVE k + 1 \in S
  <2>1. k + 1 \in 1 .. n /\ k + 1 \in 1 .. m /\ (k + 1) - 1 = k
    OBVIOUS
  <2> QED BY <1>2, <2>1 DEF Sums
<1> HIDE DEF S
<1>3. \A k \in 0 .. n : k \in S
  BY <1>1, <1>2, UpToInduction
<1> QED BY <1>3 DEF S

LEMMA StartOfIs ==
    ASSUME NEW n \in Nat, n <= 2 ^ 28, NEW g, Sums(g, n)
    PROVE  \A k \in 0 .. n : StartOf(k) = g[k]
<1> TAKE k \in 0 .. n
<1> DEFINE at[j \in 0 .. k] ==
               IF j = 0 THEN 0 ELSE at[j - 1] + content_bytes_in_block(j - 1, BlockSize)
<1>0. k \in Nat /\ k <= 2 ^ 28 /\ k <= n /\ k \in 0 .. k
  OBVIOUS
<1>1. PICK h : Sums(h, k)
  BY <1>0, SumsExist
<1>2. h = [j \in 0 .. k |-> IF j = 0 THEN 0
                            ELSE h[j - 1] + content_bytes_in_block(j - 1, BlockSize)]
  BY <1>1 DEF Sums
<1>3. at = [j \in 0 .. k |-> IF j = 0 THEN 0
                             ELSE at[j - 1] + content_bytes_in_block(j - 1, BlockSize)]
  BY <1>2
<1> HIDE DEF at
<1> DEFINE S == {j \in 0 .. k : at[j] = g[j]}
<1>4. 0 \in S
  BY <1>3 DEF Sums
<1>5. ASSUME NEW j \in 0 .. k - 1, j \in S PROVE j + 1 \in S
  <2>1. j + 1 \in 1 .. k /\ j + 1 \in 1 .. n /\ (j + 1) - 1 = j /\ j + 1 \in 0 .. k
    OBVIOUS
  <2>2. at[j + 1] = at[j] + content_bytes_in_block(j, BlockSize)
    BY <1>3, <2>1
  <2>3. g[j + 1] = g[j] + content_bytes_in_block(j, BlockSize)
    BY <2>1 DEF Sums
  <2> QED BY <1>5, <2>1, <2>2, <2>3
<1> HIDE DEF S
<1>6. \A j \in 0 .. k : j \in S
  BY <1>0, <1>4, <1>5, UpToInduction
<1>7. at[k] = g[k]
  BY <1>0, <1>6 DEF S
<1> QED BY <1>7 DEF at, StartOf

\* Block i + 1 begins where the contents of block i end.
LEMMA StartOfStep ==
    ASSUME NEW i \in Nat, i < 2 ^ 28
    PROVE  /\ StartOf(0) = 0
           /\ StartOf(i) \in Int /\ StartOf(i + 1) \in Int
           /\ StartOf(i + 1) = StartOf(i) + (BlockSize - NP(i))
<1>0. i + 1 \in Nat /\ i + 1 <= 2 ^ 28 /\ i + 1 \in 1 .. i + 1 /\ (i + 1) - 1 = i
      /\ 0 \in 0 .. i + 1 /\ i \in 0 .. i + 1 /\ i + 1 \in 0 .. i + 1
  OBVIOUS
<1>1. PICK g : Sums(g, i + 1)
  BY <1>0, SumsExist
<1>2. StartOf(0) = g[0] /\ StartOf(i) = g[i] /\ StartOf(i + 1) = g[i + 1]
  BY <1>0, <1>1, StartOfIs
<1>3. g[0] = 0 /\ g[i] \in Int /\ g[i + 1] \in Int
      /\ g[i + 1] = g[i] + content_bytes_in_block(i, BlockSize)
  BY <1>0, <1>1 DEF Sums
<1> QED BY <1>2, <1>3, ContentBytes

LEMMA StartOfZero == StartOf(0) = 0
<1>1. 0 \in Nat /\ 0 < 2 ^ 28
  OBVIOUS
<1> QED BY <1>1, StartOfStep

\* The closed form of where a block begins.
LEMMA StartOfIsStart ==
    ASSUME NEW n \in Nat, n <= 2 ^ 28, BlockSize >= 32
    PROVE  \A i \in 0 .. n : StartOf(i) = Start(i, BlockSize)
<1> DEFINE S == {i \in 0 .. n : StartOf(i) = Start(i, BlockSize)}
<1>0. BlockSize \in Nat /\ PtrSize = 1 /\ BlockSize >= 32 * PtrSize
  BY FileAssumption
<1>1. 0 \in S
  <2>1. StartOf(0) = 0
    BY StartOfZero
  <2>2. Start(0, BlockSize) = 0
    BY DEF Start
  <2> QED BY <1>0, <2>1, <2>2
<1>2. ASSUME NEW i \in 0 .. n - 1, i \in S PROVE i + 1 \in S
  <2>1. i \in Nat /\ i < 2 ^ 28 /\ i + 1 \in 0 .. n
    OBVIOUS
  <2>2. StartOf(i + 1) = StartOf(i) + (BlockSize - NP(i))
    BY <2>1, StartOfStep
  <2>3. Start(i + 1, BlockSize) = Start(i, BlockSize) + (BlockSize - NP(i))
    BY <1>0, <2>1, StartStep, ContentBytes
  <2> QED BY <1>2, <2>1, <2>2, <2>3
<1> HIDE DEF S
<1>3. \A i \in 0 .. n : i \in S
  BY <1>0, <1>1, <1>2, UpToInduction
<1> QED BY <1>3 DEF S

\* A block has at most 28 pointers, so it holds 4 cells at least.
LEMMA StartGrows ==
    ASSUME NEW n \in Nat, n <= 2 ^ 28, BlockSize >= 32
    PROVE  \A i \in 0 .. n : Start(i, BlockSize) \in Nat /\ 4 * i <= Start(i, BlockSize)
<1> DEFINE S == {i \in 0 .. n : Start(i, BlockSize) \in Nat /\ 4 * i <= Start(i, BlockSize)}
<1>0. BlockSize \in Nat /\ BlockSize >= 32 * PtrSize
  BY FileAssumption
<1>1. 0 \in S
  <2>1. Start(0, BlockSize) = 0
    BY DEF Start
  <2> QED BY <1>0, <2>1
<1>2. ASSUME NEW i \in 0 .. n - 1, i \in S PROVE i + 1 \in S
  <2>1. i \in Nat /\ i < 2 ^ 28 /\ i + 1 \in 0 .. n
    OBVIOUS
  <2>2. Start(i + 1, BlockSize) = Start(i, BlockSize) + (BlockSize - NP(i))
    BY <1>0, <2>1, StartStep, ContentBytes
  <2>3. Start(i, BlockSize) \in Nat /\ 4 * i <= Start(i, BlockSize) /\ NP(i) \in 0 .. 28
    BY <1>2, <2>1, ContentBytes
  <2>4. Start(i + 1, BlockSize) \in Nat /\ 4 * (i + 1) <= Start(i + 1, BlockSize)
    BY <1>0, <2>1, <2>2, <2>3
  <2> QED BY <2>1, <2>4
<1> HIDE DEF S
<1>3. \A i \in 0 .. n : i \in S
  BY <1>0, <1>1, <1>2, UpToInduction
<1> QED BY <1>3 DEF S

\* The index arithmetic of ctz.rs is exact whenever a block has 32 cells (the
\* 128 bytes that geometry.rs asks for) and a file at most 2^29 of them (2 GiB):
\* block_index_at_offset names the block that holds the byte and its place behind
\* the pointers, and no block is all pointers.
THEOREM SizesAreExact == BlockSize >= 32 /\ MaxSize <= 2 ^ 29 => SizesFit
<1> SUFFICES ASSUME BlockSize >= 32, MaxSize <= 2 ^ 29, NEW o \in 0 .. MaxSize - 1
             PROVE  /\ Idx(o) \in 0 .. o
                    /\ Idx(o) < 2 ^ 28
                    /\ Pos(o) \in NP(Idx(o)) .. BlockSize - 1
                    /\ o = StartOf(Idx(o)) + Pos(o) - NP(Idx(o))
                    /\ \A i \in 0 .. Idx(o) : NP(i) < BlockSize
  BY DEF SizesFit, Idx, Pos, NP
<1>0. /\ BlockSize \in Nat /\ PtrSize = 1 /\ BlockSize >= 32 * PtrSize
      /\ o \in Nat /\ o < 2 ^ 29
  BY FileAssumption
<1>1. PICK n \in Nat : n = 2 ^ 28
  OBVIOUS
<1>2. 0 < n /\ o < 4 * n
  <2>1. 2 ^ 29 = 536870912 /\ 2 ^ 28 = 268435456
    OBVIOUS
  <2> QED BY <1>0, <1>1, <2>1
<1> DEFINE S == {i \in 0 .. n - 1 : Start(i, BlockSize) <= o}
<1>3. PICK i \in S : \A j \in S : j <= i
  <2>1. Start(0, BlockSize) = 0
    BY DEF Start
  <2>2. n - 1 \in Nat /\ S \subseteq 0 .. n - 1 /\ 0 \in S
    BY <1>0, <1>2, <2>1
  <2> HIDE DEF S
  <2> QED BY <2>2, LargestUpTo
<1>4. /\ i \in Nat /\ i < n /\ i \in 0 .. n /\ i + 1 \in 0 .. n
      /\ Start(i, BlockSize) <= o
      /\ i + 1 < n => ~(Start(i + 1, BlockSize) <= o)
  <2>1. i \in 0 .. n - 1 /\ Start(i, BlockSize) <= o
    OBVIOUS
  <2>2. i + 1 < n => i + 1 \in 0 .. n - 1 /\ i + 1 \notin S
    BY <1>3, <2>1
  <2> QED BY <2>1, <2>2
<1> HIDE DEF S
<1>5. \A j \in 0 .. n : Start(j, BlockSize) \in Nat /\ 4 * j <= Start(j, BlockSize)
                        /\ StartOf(j) = Start(j, BlockSize)
  BY <1>1, StartGrows, StartOfIsStart
<1>6. i \in 0 .. o /\ o < Start(i + 1, BlockSize)
  BY <1>0, <1>2, <1>4, <1>5
<1>7. i < 2 ^ 28
  BY <1>1, <1>4
<1>8. block_index_at_offset(o, BlockSize)
        = <<i, PtrSize * skip_pointers_in_block(i) + o - Start(i, BlockSize)>>
  BY <1>0, <1>4, <1>6, <1>7, IndexAtOffset
<1>9. NP(i) \in 0 .. 28
  BY <1>4, <1>7, ContentBytes
<1>10. Idx(o) = i /\ Pos(o) = NP(i) + o - Start(i, BlockSize)
  BY <1>0, <1>8, <1>9 DEF Idx, Pos, NP
<1>11. Start(i + 1, BlockSize) = Start(i, BlockSize) + (BlockSize - NP(i))
  BY <1>0, <1>4, <1>7, StartStep, ContentBytes
<1>12. \A j \in 0 .. i : NP(j) < BlockSize
  <2> TAKE j \in 0 .. i
  <2>1. j \in Nat /\ j < 2 ^ 28
    BY <1>4, <1>7
  <2>2. NP(j) \in 0 .. 28
    BY <2>1, ContentBytes
  <2> QED BY <1>0, <2>2
<1>13. Pos(o) \in NP(i) .. BlockSize - 1 /\ o = StartOf(i) + Pos(o) - NP(i)
  BY <1>0, <1>4, <1>5, <1>6, <1>9, <1>10, <1>11
<1> QED BY <1>6, <1>7, <1>10, <1>12, <1>13

\* What the sizes assumption says of one byte.
LEMMA Place ==
    ASSUME NEW o \in 0 .. MaxSize - 1
    PROVE  /\ Idx(o) \in 0 .. o /\ Idx(o) \in Nat /\ Idx(o) < 2 ^ 28
           /\ Pos(o) \in Nat /\ NP(Idx(o)) <= Pos(o) /\ Pos(o) < BlockSize
           /\ o = StartOf(Idx(o)) + Pos(o) - NP(Idx(o))
           /\ \A i \in 0 .. Idx(o) : NP(i) \in Nat /\ NP(i) < BlockSize
<1>1. /\ Idx(o) \in 0 .. o /\ Idx(o) < 2 ^ 28
      /\ Pos(o) \in NP(Idx(o)) .. BlockSize - 1
      /\ o = StartOf(Idx(o)) + Pos(o) - NP(Idx(o))
      /\ \A i \in 0 .. Idx(o) : NP(i) < BlockSize
  BY SizesAssumption DEF SizesFit, Idx, Pos, NP
<1>2. MaxSize \in Nat /\ BlockSize \in Nat
  BY FileAssumption
<1>3. \A i \in 0 .. Idx(o) : NP(i) \in Nat
  <2> TAKE i \in 0 .. Idx(o)
  <2>1. i \in Nat /\ i < 2 ^ 28
    BY <1>1, <1>2
  <2> QED BY <2>1, ContentBytes
<1>4. Idx(o) \in 0 .. Idx(o)
  BY <1>1, <1>2
<1> QED BY <1>1, <1>2, <1>3, <1>4

\* Blocks begin one behind the other.
LEMMA StartOrder ==
    ASSUME NEW n \in Nat, n <= 2 ^ 28, NEW i \in 0 .. n - 1,
           \A j \in i + 1 .. n - 1 : NP(j) < BlockSize
    PROVE  StartOf(i) + (BlockSize - NP(i)) <= StartOf(n)
<1> DEFINE S == {d \in 0 .. n - 1 - i : StartOf(i + 1) <= StartOf(i + 1 + d)}
<1>0. n - 1 - i \in Nat /\ i \in Nat /\ i < 2 ^ 28
  OBVIOUS
<1>1. 0 \in S
  <2>1. StartOf(i + 1) \in Int
    BY <1>0, StartOfStep
  <2> QED BY <1>0, <2>1
<1>2. ASSUME NEW d \in 0 .. n - 1 - i - 1, d \in S PROVE d + 1 \in S
  <2> DEFINE j == i + 1 + d
  <2>1. j \in Nat /\ j < 2 ^ 28 /\ j \in i + 1 .. n - 1 /\ i + 1 + (d + 1) = j + 1
    OBVIOUS
  <2>2. StartOf(j) \in Int /\ StartOf(j + 1) = StartOf(j) + (BlockSize - NP(j))
        /\ NP(j) \in Int /\ NP(j) < BlockSize /\ StartOf(i + 1) \in Int
    BY <1>0, <2>1, StartOfStep, ContentBytes
  <2>3. StartOf(i + 1) <= StartOf(j)
    BY <1>2
  <2> HIDE DEF j
  <2>4. StartOf(i + 1) <= StartOf(j + 1)
    BY <2>2, <2>3, FileAssumption
  <2> QED BY <2>1, <2>4
<1> HIDE DEF S
<1>3. \A d \in 0 .. n - 1 - i : d \in S
  BY <1>0, <1>1, <1>2, UpToInduction
<1>4. n - 1 - i \in S /\ i + 1 + (n - 1 - i) = n
  BY <1>0, <1>3
<1>5. StartOf(i + 1) <= StartOf(n)
  BY <1>4 DEF S
<1> QED BY <1>0, <1>5, StartOfStep

\* Bytes lie in the order of the file.
LEMMA PlaceOrder ==
    ASSUME NEW o \in 0 .. MaxSize - 1, NEW q \in 0 .. MaxSize - 1, o <= q
    PROVE  /\ Idx(o) <= Idx(q)
           /\ Idx(o) = Idx(q) => Pos(q) = Pos(o) + (q - o)
<1>0. MaxSize \in Nat /\ BlockSize \in Nat
  BY FileAssumption
<1>1. Idx(o) <= Idx(q)
  <2> SUFFICES ASSUME Idx(q) < Idx(o) PROVE FALSE
    BY <1>0, Place
  <2>1. Idx(q) \in 0 .. Idx(o) - 1 /\ Idx(o) \in Nat /\ Idx(o) <= 2 ^ 28 /\ Idx(q) \in Nat
        /\ Idx(q) < 2 ^ 28
    BY <1>0, Place
  <2>2. \A j \in Idx(q) + 1 .. Idx(o) - 1 : NP(j) < BlockSize
    BY <1>0, <2>1, Place
  <2>3. StartOf(Idx(q)) + (BlockSize - NP(Idx(q))) <= StartOf(Idx(o))
    BY <2>1, <2>2, StartOrder
  <2>4. StartOf(Idx(q)) \in Int /\ StartOf(Idx(o)) \in Int
    BY <2>1, StartOfStep, Place
  <2>5. NP(Idx(q)) \in Int /\ NP(Idx(o)) \in Int
    BY <2>1, ContentBytes, Place
  <2> QED BY <1>0, <2>3, <2>4, <2>5, Place
<1>2. ASSUME Idx(o) = Idx(q) PROVE Pos(q) = Pos(o) + (q - o)
  <2>1. StartOf(Idx(o)) \in Int /\ NP(Idx(o)) \in Int
    BY StartOfStep, ContentBytes, Place
  <2> QED BY <1>0, <1>2, <2>1, Place
<1> QED BY <1>1, <1>2

\* The number of blocks of a file, and where its last block is filled to.
LEMMA Ends ==
    /\ BlockCount(0) = 0
    /\ \A s \in 1 .. MaxSize :
          /\ BlockCount(s) = Idx(s - 1) + 1 /\ EndOf(s) = Pos(s - 1) + 1
          /\ BlockCount(s) \in 1 .. s /\ BlockCount(s) <= 2 ^ 28
          /\ EndOf(s) \in 1 .. BlockSize /\ NP(BlockCount(s) - 1) < EndOf(s)
          /\ StartOf(BlockCount(s)) = s + (BlockSize - EndOf(s))
          /\ \A i \in 0 .. BlockCount(s) - 1 : NP(i) \in Nat /\ NP(i) < BlockSize
<1>0. MaxSize \in Nat /\ BlockSize \in Nat
  BY FileAssumption
<1>1. BlockCount(0) = 0
  BY DEF BlockCount, block_count
<1>2. ASSUME NEW s \in 1 .. MaxSize
      PROVE  /\ BlockCount(s) = Idx(s - 1) + 1 /\ EndOf(s) = Pos(s - 1) + 1
             /\ BlockCount(s) \in 1 .. s /\ BlockCount(s) <= 2 ^ 28
             /\ EndOf(s) \in 1 .. BlockSize /\ NP(BlockCount(s) - 1) < EndOf(s)
             /\ StartOf(BlockCount(s)) = s + (BlockSize - EndOf(s))
             /\ \A i \in 0 .. BlockCount(s) - 1 : NP(i) \in Nat /\ NP(i) < BlockSize
  <2> DEFINE o == s - 1
             i == Idx(o)
  <2>1. o \in 0 .. MaxSize - 1 /\ o + 1 = s /\ o \in Nat
    BY <1>0
  <2>2. BlockCount(s) = i + 1 /\ EndOf(s) = Pos(o) + 1
    BY <2>1 DEF BlockCount, block_count, EndOf, Idx, Pos
  <2>3. /\ i \in 0 .. o /\ i \in Nat /\ i < 2 ^ 28
        /\ Pos(o) \in Nat /\ NP(i) <= Pos(o) /\ Pos(o) < BlockSize
        /\ o = StartOf(i) + Pos(o) - NP(i)
        /\ \A j \in 0 .. i : NP(j) \in Nat /\ NP(j) < BlockSize
    BY <2>1, Place
  <2>4. StartOf(i + 1) = StartOf(i) + (BlockSize - NP(i)) /\ StartOf(i) \in Int
    BY <2>3, StartOfStep
  <2>5. NP(i) \in Nat
    BY <2>3
  <2> HIDE DEF i, o
  <2>6. (i + 1) - 1 = i
    BY <2>3
  <2> QED BY <1>0, <2>1, <2>2, <2>3, <2>4, <2>5, <2>6 DEF o, i
<1> QED BY <1>1, <1>2

\* The bytes before the start of block n are those of the blocks before it.
LEMMA Before ==
    ASSUME NEW o \in 0 .. MaxSize - 1, NEW n \in Nat, n <= 2 ^ 28,
           \A j \in 0 .. n - 1 : NP(j) < BlockSize
    PROVE  (o < StartOf(n)) <=> (Idx(o) < n)
<1> DEFINE i == Idx(o)
<1>0. MaxSize \in Nat /\ BlockSize \in Nat
  BY FileAssumption
<1>1. /\ i \in Nat /\ i < 2 ^ 28 /\ Pos(o) \in Nat /\ NP(i) <= Pos(o) /\ Pos(o) < BlockSize
      /\ o = StartOf(i) + Pos(o) - NP(i)
      /\ \A j \in 0 .. i : NP(j) < BlockSize
      /\ NP(i) \in Int /\ StartOf(i) \in Int
  BY Place, StartOfStep, ContentBytes
<1> HIDE DEF i
<1>2. CASE i < n
  <2>1. StartOf(i) + (BlockSize - NP(i)) <= StartOf(n)
    BY <1>1, <1>2, StartOrder
  <2>2. StartOf(n) \in Int
    <3>1. n - 1 \in Nat /\ n - 1 < 2 ^ 28 /\ (n - 1) + 1 = n
      BY <1>1, <1>2
    <3> QED BY <3>1, StartOfStep
  <2> QED BY <1>0, <1>1, <1>2, <2>1, <2>2 DEF i
<1>3. CASE i >= n
  <2>1. StartOf(n) \in Int /\ NP(n) \in Int
    BY <1>1, <1>3, StartOfStep, ContentBytes
  <2>2. StartOf(n) <= StartOf(i)
    <3>1. CASE i = n
      BY <1>1, <3>1
    <3>2. CASE i > n
      <4>1. n \in 0 .. i - 1 /\ i <= 2 ^ 28 /\ \A j \in n + 1 .. i - 1 : NP(j) < BlockSize
        BY <1>1, <3>2
      <4>2. StartOf(n) + (BlockSize - NP(n)) <= StartOf(i)
        BY <1>1, <4>1, StartOrder
      <4>3. NP(n) < BlockSize
        BY <1>1, <3>2
      <4> QED BY <1>0, <1>1, <2>1, <4>2, <4>3
    <3> QED BY <1>1, <1>3, <3>1, <3>2
  <2> QED BY <1>0, <1>1, <1>3, <2>1, <2>2 DEF i
<1> QED BY <1>1, <1>2, <1>3

\* The bytes of a file lie in its blocks, before its end.
LEMMA Within ==
    ASSUME NEW s \in 1 .. MaxSize, NEW o \in 0 .. s - 1
    PROVE  /\ Idx(o) \in 0 .. BlockCount(s) - 1
           /\ Pos(o) \in 0 .. BlockSize - 1 /\ NP(Idx(o)) <= Pos(o)
           /\ Idx(o) = BlockCount(s) - 1 => Pos(o) < EndOf(s)
<1>0. MaxSize \in Nat /\ BlockSize \in Nat
  BY FileAssumption
<1>1. o \in 0 .. MaxSize - 1 /\ s - 1 \in 0 .. MaxSize - 1 /\ o <= s - 1
  BY <1>0
<1>2. BlockCount(s) = Idx(s - 1) + 1 /\ EndOf(s) = Pos(s - 1) + 1 /\ BlockCount(s) \in Nat
  BY Ends
<1>3. Idx(o) \in Nat /\ Pos(o) \in 0 .. BlockSize - 1 /\ Idx(s - 1) \in Nat /\ Pos(s - 1) \in Nat
      /\ NP(Idx(o)) <= Pos(o)
  BY <1>0, <1>1, Place
<1>4. Idx(o) <= Idx(s - 1) /\ (Idx(o) = Idx(s - 1) => Pos(s - 1) = Pos(o) + ((s - 1) - o))
  BY <1>1, PlaceOrder
<1> QED BY <1>0, <1>1, <1>2, <1>3, <1>4

\* Every cell behind the pointers and before the end holds a byte of the file.
LEMMA PlaceOf ==
    ASSUME NEW s \in 1 .. MaxSize, NEW i \in 0 .. BlockCount(s) - 1,
           NEW y \in NP(i) .. BlockSize - 1, i = BlockCount(s) - 1 => y < EndOf(s)
    PROVE  LET o == StartOf(i) + y - NP(i)
           IN  o \in 0 .. s - 1 /\ Idx(o) = i /\ Pos(o) = y
<1> DEFINE n == BlockCount(s)
           o == StartOf(i) + y - NP(i)
<1>0. MaxSize \in Nat /\ BlockSize \in Nat
  BY FileAssumption
<1>1. /\ n \in Nat /\ n <= 2 ^ 28 /\ EndOf(s) \in 1 .. BlockSize
      /\ StartOf(n) = s + (BlockSize - EndOf(s))
      /\ \A j \in 0 .. n - 1 : NP(j) \in Nat /\ NP(j) < BlockSize
  BY Ends
<1>2. i \in Nat /\ i < 2 ^ 28 /\ i < n /\ NP(i) \in Nat /\ NP(i) < BlockSize
      /\ StartOf(i) \in Int /\ StartOf(0) = 0 /\ y \in Nat /\ NP(i) <= y /\ y < BlockSize
      /\ StartOf(i + 1) = StartOf(i) + (BlockSize - NP(i))
  BY <1>0, <1>1, StartOfStep
<1> HIDE DEF n
<1>3. StartOf(i) >= 0
  <2>1. CASE i = 0
    BY <1>2, <2>1
  <2>2. CASE i # 0
    <3>1. 0 \in 0 .. i - 1 /\ \A j \in 0 + 1 .. i - 1 : NP(j) < BlockSize
      BY <1>1, <1>2, <2>2
    <3>2. StartOf(0) + (BlockSize - NP(0)) <= StartOf(i)
      BY <1>2, <3>1, StartOrder
    <3>3. NP(0) \in Nat /\ NP(0) < BlockSize
      BY <1>1, <1>2
    <3> QED BY <1>0, <1>2, <3>2, <3>3
  <2> QED BY <2>1, <2>2
<1>4. o < s
  <2>1. CASE i = n - 1
    <3>1. i + 1 = n /\ y < EndOf(s)
      BY <1>1, <2>1 DEF n
    <3> QED BY <1>0, <1>1, <1>2, <3>1
  <2>2. CASE i < n - 1
    <3>1. n - 1 \in Nat /\ n - 1 <= 2 ^ 28 /\ i \in 0 .. (n - 1) - 1 /\ (n - 1) + 1 = n
          /\ n - 1 < 2 ^ 28 /\ \A j \in i + 1 .. (n - 1) - 1 : NP(j) < BlockSize
      BY <1>1, <1>2, <2>2
    <3>2. StartOf(i) + (BlockSize - NP(i)) <= StartOf(n - 1)
      BY <3>1, StartOrder
    <3>3. StartOf(n) = StartOf(n - 1) + (BlockSize - NP(n - 1)) /\ StartOf(n - 1) \in Int
      BY <3>1, StartOfStep
    <3>4. NP(n - 1) < EndOf(s) /\ NP(n - 1) \in Nat
      BY <1>1, <3>1, Ends DEF n
    <3> QED BY <1>0, <1>1, <1>2, <3>2, <3>3, <3>4
  <2> QED BY <1>1, <1>2, <2>1, <2>2
<1>5. o \in 0 .. s - 1 /\ o \in 0 .. MaxSize - 1
  BY <1>0, <1>2, <1>3, <1>4
<1> HIDE DEF o
<1>6. (o < StartOf(i)) <=> (Idx(o) < i)
  BY <1>1, <1>2, <1>5, Before
<1>7. (o < StartOf(i + 1)) <=> (Idx(o) < i + 1)
  <2>1. i + 1 \in Nat /\ i + 1 <= 2 ^ 28 /\ \A j \in 0 .. (i + 1) - 1 : NP(j) < BlockSize
    BY <1>1, <1>2
  <2> QED BY <1>5, <2>1, Before
<1>8. StartOf(i) <= o /\ o < StartOf(i + 1)
  BY <1>0, <1>2 DEF o
<1>9. Idx(o) = i /\ o = StartOf(Idx(o)) + Pos(o) - NP(Idx(o)) /\ Pos(o) \in Nat
  <2>1. Idx(o) \in Nat /\ o = StartOf(Idx(o)) + Pos(o) - NP(Idx(o)) /\ Pos(o) \in Nat
    BY <1>5, Place
  <2>2. o \in Int
    BY <1>0, <1>5
  <2> QED BY <1>2, <1>6, <1>7, <1>8, <2>1, <2>2
<1> QED BY <1>2, <1>5, <1>9 DEF o

\* The cells free in the last block of a file of s cells.
Room(s) == IF s = 0 THEN 0 ELSE BlockSize - EndOf(s)

LEMMA RoomIs ==
    ASSUME NEW s \in 0 .. MaxSize
    PROVE  /\ Room(s) \in 0 .. BlockSize
           /\ BlockCount(s) \in 0 .. s /\ BlockCount(s) <= 2 ^ 28
           /\ (BlockCount(s) = 0) <=> (s = 0)
           /\ StartOf(BlockCount(s)) = s + Room(s)
           /\ \A i \in 0 .. BlockCount(s) - 1 : NP(i) \in Nat /\ NP(i) < BlockSize
<1>0. MaxSize \in Nat /\ BlockSize \in Nat
  BY FileAssumption
<1>1. CASE s = 0
  BY <1>0, <1>1, Ends, StartOfStep DEF Room
<1>2. CASE s # 0
  <2>1. s \in 1 .. MaxSize
    BY <1>0, <1>2
  <2> QED BY <1>0, <1>2, <2>1, Ends DEF Room
<1> QED BY <1>1, <1>2

\* What len more cells do to a file of s cells: they fill the room in its last
\* block, and the rest goes to new blocks.
LEMMA Grows ==
    ASSUME NEW s \in 0 .. MaxSize, NEW t \in 0 .. MaxSize, s < t
    PROVE  /\ BlockCount(s) <= BlockCount(t)
           /\ t - s <= Room(s) => BlockCount(t) = BlockCount(s) /\ EndOf(t) = EndOf(s) + (t - s)
           /\ t - s > Room(s) => BlockCount(t) > BlockCount(s)
           /\ \A o \in s .. t - 1 :
                 /\ o - s < Room(s) =>
                        Idx(o) = BlockCount(s) - 1 /\ Pos(o) = EndOf(s) + (o - s)
                 /\ o - s >= Room(s) => Idx(o) >= BlockCount(s)
<1> DEFINE n == BlockCount(s)
           r == Room(s)
<1>0. MaxSize \in Nat /\ BlockSize \in Nat
  BY FileAssumption
<1>1. /\ n \in Nat /\ n <= 2 ^ 28 /\ r \in 0 .. BlockSize /\ StartOf(n) = s + r
      /\ \A j \in 0 .. n - 1 : NP(j) < BlockSize
      /\ (n = 0) <=> (s = 0)
  BY <1>0, RoomIs
<1>2. s = 0 => r = 0
  BY DEF Room
<1>3. t \in 1 .. MaxSize /\ BlockCount(t) = Idx(t - 1) + 1 /\ EndOf(t) = Pos(t - 1) + 1
      /\ BlockCount(t) \in Nat /\ EndOf(t) \in Nat
  BY <1>0, Ends
<1> HIDE DEF n, r
<1>4. ASSUME NEW o \in s .. t - 1
      PROVE  /\ o - s < r => Idx(o) = n - 1 /\ Pos(o) = EndOf(s) + (o - s)
             /\ o - s >= r => Idx(o) >= n
             /\ Idx(o) \in Nat /\ Pos(o) \in Nat
  <2>1. o \in 0 .. MaxSize - 1
    BY <1>0
  <2>2. (o < StartOf(n)) <=> (Idx(o) < n)
    BY <1>1, <2>1, Before
  <2>3. Idx(o) \in Nat /\ Pos(o) \in Nat
    BY <2>1, Place
  <2>4. ASSUME o - s < r PROVE Idx(o) = n - 1 /\ Pos(o) = EndOf(s) + (o - s)
    <3>1. s # 0
      BY <1>0, <1>2, <2>4
    <3>2. s \in 1 .. MaxSize /\ s - 1 \in 0 .. MaxSize - 1 /\ s - 1 <= o
      BY <1>0, <3>1
    <3>3. n = Idx(s - 1) + 1 /\ EndOf(s) = Pos(s - 1) + 1
      BY <3>2, Ends DEF n
    <3>4. Idx(s - 1) <= Idx(o) /\ (Idx(s - 1) = Idx(o) => Pos(o) = Pos(s - 1) + (o - (s - 1)))
      BY <2>1, <3>2, PlaceOrder
    <3>5. Idx(s - 1) \in Nat /\ Pos(s - 1) \in Nat
      BY <3>2, Place
    <3> QED BY <1>0, <1>1, <2>1, <2>2, <2>3, <2>4, <3>2, <3>3, <3>4, <3>5
  <2>5. ASSUME o - s >= r PROVE Idx(o) >= n
    BY <1>0, <1>1, <2>1, <2>2, <2>3, <2>5
  <2> QED BY <2>3, <2>4, <2>5
<1>5. t - 1 \in s .. t - 1
  BY <1>0
<1>6. s # 0 => EndOf(s) \in Nat
  <2>1. s # 0 => s \in 1 .. MaxSize
    BY <1>0
  <2> QED BY <2>1, Ends
<1>7. t - s <= r => BlockCount(t) = n /\ EndOf(t) = EndOf(s) + (t - s)
  <2> SUFFICES ASSUME t - s <= r PROVE BlockCount(t) = n /\ EndOf(t) = EndOf(s) + (t - s)
    OBVIOUS
  <2>1. (t - 1) - s < r /\ r > 0 /\ s # 0
    BY <1>0, <1>1, <1>2
  <2>2. Idx(t - 1) = n - 1 /\ Pos(t - 1) = EndOf(s) + ((t - 1) - s)
    BY <1>4, <1>5, <2>1
  <2> QED BY <1>0, <1>1, <1>3, <1>6, <2>1, <2>2
<1>8. t - s > r => BlockCount(t) > n
  <2> SUFFICES ASSUME t - s > r PROVE BlockCount(t) > n
    OBVIOUS
  <2>1. (t - 1) - s >= r
    BY <1>0, <1>1
  <2>2. Idx(t - 1) >= n /\ Idx(t - 1) \in Nat
    BY <1>4, <1>5, <2>1
  <2> QED BY <1>1, <1>3, <2>2
<1>9. n <= BlockCount(t)
  <2>1. t - s <= r \/ t - s > r
    BY <1>0, <1>1
  <2> QED BY <1>1, <1>3, <1>7, <1>8, <2>1
<1> QED BY <1>4, <1>7, <1>8, <1>9 DEF n, r

\* Where the blocks of a file begin.
LEMMA BlockStarts ==
    ASSUME NEW s \in 1 .. MaxSize, NEW i \in 0 .. BlockCount(s) - 1
    PROVE  /\ i \in Nat /\ i < 2 ^ 28 /\ NP(i) \in Nat /\ NP(i) < BlockSize
           /\ StartOf(i) \in Int /\ StartOf(i) < s
           /\ StartOf(i + 1) = StartOf(i) + (BlockSize - NP(i))
<1> DEFINE m == BlockCount(s)
<1>0. MaxSize \in Nat /\ BlockSize \in Nat /\ 2 ^ 28 \in Nat
  BY FileAssumption
<1>1. /\ m \in Nat /\ m >= 1 /\ m <= 2 ^ 28 /\ EndOf(s) \in Nat /\ NP(m - 1) < EndOf(s)
      /\ StartOf(m) = s + (BlockSize - EndOf(s))
      /\ \A j \in 0 .. m - 1 : NP(j) \in Nat /\ NP(j) < BlockSize
  BY <1>0, Ends
<1> HIDE DEF m
<1>2. i \in Nat /\ i < 2 ^ 28 /\ m - 1 \in Nat /\ m - 1 < 2 ^ 28 /\ i <= m - 1 /\ (m - 1) + 1 = m
  BY <1>0, <1>1 DEF m
<1>3. /\ StartOf(i) \in Int /\ StartOf(i + 1) = StartOf(i) + (BlockSize - NP(i))
      /\ StartOf(m - 1) \in Int /\ StartOf(m) = StartOf(m - 1) + (BlockSize - NP(m - 1))
  BY <1>2, StartOfStep
<1>4. StartOf(m - 1) < s /\ NP(i) \in Nat /\ NP(i) < BlockSize
  BY <1>0, <1>1, <1>2, <1>3
<1>5. StartOf(i) <= StartOf(m - 1)
  <2>1. CASE i = m - 1
    BY <1>3, <2>1
  <2>2. CASE i # m - 1
    <3>1. m - 1 \in Nat /\ m - 1 <= 2 ^ 28 /\ i \in 0 .. (m - 1) - 1
      BY <1>0, <1>2, <2>2
    <3>2. \A j \in i + 1 .. (m - 1) - 1 : NP(j) < BlockSize
      BY <1>1, <1>2
    <3>3. StartOf(i) + (BlockSize - NP(i)) <= StartOf(m - 1)
      BY <3>1, <3>2, StartOrder
    <3> QED BY <1>0, <1>3, <1>4, <3>3
  <2> QED BY <2>1, <2>2
<1> QED BY <1>0, <1>2, <1>3, <1>4, <1>5

\* The blocks that a file gains begin behind the room of its last block.
LEMMA NewBlockStarts ==
    ASSUME NEW s \in 0 .. MaxSize, NEW t \in 1 .. MaxSize, NEW i \in BlockCount(s) .. BlockCount(t) - 1
    PROVE  StartOf(i) >= s + Room(s)
<1>0. MaxSize \in Nat /\ BlockSize \in Nat /\ 2 ^ 28 \in Nat
  BY FileAssumption
<1> DEFINE n == BlockCount(s)
           m == BlockCount(t)
<1>1. n \in Nat /\ StartOf(n) = s + Room(s) /\ Room(s) \in Nat /\ m \in Nat /\ m <= 2 ^ 28
      /\ \A j \in 0 .. m - 1 : NP(j) \in Nat /\ NP(j) < BlockSize
  <2>1. t \in 0 .. MaxSize
    BY <1>0
  <2> QED BY <1>0, <2>1, RoomIs
<1> HIDE DEF n, m
<1>2. i \in Nat /\ n <= i /\ i < m
  BY <1>1 DEF n, m
<1>3. CASE i = n
  BY <1>0, <1>1, <1>3
<1>4. CASE i # n
  <2>1. i <= 2 ^ 28 /\ n \in 0 .. i - 1 /\ n < 2 ^ 28
    BY <1>0, <1>1, <1>2, <1>4
  <2>2. \A j \in n + 1 .. i - 1 : NP(j) < BlockSize
    BY <1>1, <1>2
  <2>3. StartOf(n) + (BlockSize - NP(n)) <= StartOf(i)
    BY <1>2, <2>1, <2>2, StartOrder
  <2>4. NP(n) \in Nat /\ NP(n) < BlockSize /\ StartOf(i) \in Int
    <3>1. n \in 0 .. m - 1 /\ i < 2 ^ 28
      BY <1>0, <1>1, <1>2, <2>1
    <3> QED BY <1>1, <1>2, <3>1, StartOfStep
  <2> QED BY <1>0, <1>1, <2>3, <2>4
<1> QED BY <1>3, <1>4

----------------------------------------------------------------------------
(* Chains.                                                                 *)

Distinct(ch) == \A i, j \in 1 .. Len(ch) : ch[i] = ch[j] => i = j

\* Pointer k of block index i leads to block index i - 2^k, in the first m blocks.
Linked(c, ch, m) ==
    \A i \in 1 .. m : \A k \in 0 .. NP(i - 1) - 1 : c[ch[i]][k + 1] = ch[i - 2 ^ k]

\* The blocks of f are those of ch.
IsChain(c, f, ch) ==
    /\ ch \in Seq(Blocks) /\ Distinct(ch) /\ Len(ch) = BlockCount(f.size)
    /\ f.size > 0 => f.head = ch[Len(ch)]
    /\ Linked(c, ch, Len(ch))

\* The bytes from offset from up to offset to, along ch, are those of the text.
Reads(c, ch, from, to, text) ==
    \A o \in from .. to - 1 : c[ch[Idx(o) + 1]][Pos(o) + 1] = text[o + 1]

\* A block has the pointers its index says, to blocks of the chain.
LEMMA Pointers ==
    ASSUME NEW i \in Nat \ {0}, i < 2 ^ 28
    PROVE  /\ NP(0) = 0 /\ NP(i) \in Nat /\ NP(i) >= 1
           /\ i % 2 = 0 => NP(i) >= 2
           /\ \A k \in 0 .. NP(i) - 1 : k \in Bits /\ 2 ^ k \in 1 .. i
<1> DEFINE t == trailing_zeros(i)
<1>1. t \in Bits /\ i % 2 ^ t = 0 /\ NP(i) = t + 1 /\ NP(0) = 0 /\ t \in Nat /\ t < 28
  BY LowestBit DEF NP, skip_pointers_in_block, Bits
<1>2. 2 ^ t \in Nat \ {0}
  BY <1>1, Powers
<1>3. 2 ^ t <= i
  <2> DEFINE P == 2 ^ t
  <2>0. P \in Nat \ {0} /\ i % P = 0
    BY <1>1, <1>2
  <2> HIDE DEF P, t
  <2>1. i = P * (i \div P) + (i % P) /\ i \div P \in Int /\ P \in Nat \ {0} /\ i % P = 0
    BY <2>0, DivMod
  <2>2. P <= i
    <3>1. i = P * (i \div P)
      BY <2>1
    <3>2. i \div P >= 1
      BY <2>1, <3>1
    <3> DEFINE q == i \div P
    <3>3. q \in Int /\ q >= 1 /\ i = P * q
      BY <2>1, <3>1, <3>2
    <3> HIDE DEF q
    <3> QED BY <2>1, <3>3
  <2> QED BY <2>2 DEF P
<1>4. ASSUME NEW k \in 0 .. NP(i) - 1 PROVE k \in Bits /\ 2 ^ k \in 1 .. i
  <2>1. k \in Bits /\ t \in 0 .. 28 /\ k \in 0 .. t
    BY <1>1 DEF Bits
  <2>2. 2 ^ k <= 2 ^ t /\ 2 ^ k \in Nat \ {0}
    BY <2>1, PowerOrder
  <2> HIDE DEF t
  <2> QED BY <1>2, <1>3, <2>1, <2>2
<1>5. ASSUME i % 2 = 0 PROVE NP(i) >= 2
  <2>0. 2 ^ 1 = 2
    OBVIOUS
  <2>1. i % 2 ^ 1 = 0 /\ 1 \in 0 .. 28
    BY <1>5, <2>0
  <2>2. t >= 1
    BY <2>1, FactorsOfTwo
  <2> QED BY <1>1, <2>2
<1> QED BY <1>1, <1>4, <1>5

\* A hop of a seek uses a pointer of the block.
LEMMA HopPointer ==
    ASSUME NEW target \in Nat, NEW x \in Nat, x < 2 ^ 28, target < x
    PROVE  /\ jump(x, target) \in 0 .. NP(x) - 1 /\ jump(x, target) \in Bits
           /\ 2 ^ jump(x, target) \in Nat
           /\ x - 2 ^ jump(x, target) \in target .. x - 1
<1>1. /\ jump(x, target) \in Bits /\ 2 ^ jump(x, target) \in Nat \ {0}
      /\ jump(x, target) < skip_pointers_in_block(x)
      /\ x - 2 ^ jump(x, target) \in target .. x - 1
  BY HopLands
<1>2. skip_pointers_in_block(x) \in 0 .. 28
  BY SkipPointers
<1>3. ASSUME NEW k \in Bits, NEW n \in 0 .. 28, k < n PROVE k \in 0 .. n - 1
  BY <1>3 DEF Bits
<1> QED BY <1>1, <1>2, <1>3 DEF NP

\* seek_block finds the block of a linked chain.
LEMMA SeekLinked ==
    ASSUME NEW c, NEW ch \in Seq(Blocks), NEW m \in 1 .. Len(ch), m <= 2 ^ 28, Linked(c, ch, m),
           NEW target \in 0 .. m - 1
    PROVE  Seek(c, ch[m], m - 1, target) = ch[target + 1]
<1> DEFINE from == m - 1
           head == ch[m]
           at[n \in 0 .. from] ==
               IF n = 0 THEN [i |-> from, b |-> head]
               ELSE LET x == at[n - 1]
                        k == jump(x.i, target)
                    IN  IF x.i = target THEN x
                        ELSE [i |-> x.i - 2 ^ k, b |-> Ptr(c, x.b, k)]
<1>0. m \in Nat /\ from \in Nat /\ from < 2 ^ 28 /\ target \in 0 .. from /\ target \in Nat
      /\ Len(ch) \in Nat
  OBVIOUS
<1>1. PICK h : h = [n \in 0 .. from |->
                       IF n = 0 THEN from
                       ELSE IF h[n - 1] = target THEN target
                       ELSE h[n - 1] - 2 ^ jump(h[n - 1], target)]
  BY <1>0, HopsExist
<1>2. \A n \in 0 .. from : h[n] \in target .. from
  BY <1>0, <1>1, HopsDescend
<1> DEFINE g == [n \in 0 .. from |-> [i |-> h[n], b |-> ch[h[n] + 1]]]
<1> HIDE DEF from
<1>3. ASSUME NEW n \in 0 .. from, n # 0
      PROVE  g[n] = LET x == g[n - 1]
                        k == jump(x.i, target)
                    IN  IF x.i = target THEN x
                        ELSE [i |-> x.i - 2 ^ k, b |-> Ptr(c, x.b, k)]
  <2> DEFINE p == h[n - 1]
             k == jump(p, target)
  <2>1. n - 1 \in 0 .. from /\ n \in 0 .. from
    BY <1>0, <1>3
  <2>2. g[n] = [i |-> h[n], b |-> ch[h[n] + 1]] /\ g[n - 1] = [i |-> p, b |-> ch[p + 1]]
    BY <2>1
  <2>3. h[n] = IF p = target THEN target ELSE p - 2 ^ k
    BY <1>1, <1>3
  <2>4. p \in target .. from /\ p \in Nat /\ p < 2 ^ 28
    BY <1>0, <1>2, <2>1
  <2> HIDE DEF p, g, at, head
  <2>5. CASE p = target
    BY <2>2, <2>3, <2>5
  <2>6. CASE p # target
    <3>1. target < p
      BY <1>0, <2>4, <2>6
    <3>2. k \in 0 .. NP(p) - 1 /\ k \in Bits /\ 2 ^ k \in Nat
      BY <1>0, <2>4, <3>1, HopPointer
    <3> HIDE DEF k
    <3>3. p + 1 \in 1 .. m /\ (p + 1) - 1 = p /\ (p + 1) - 2 ^ k = (p - 2 ^ k) + 1
      BY <1>0, <2>4, <3>2 DEF from
    <3>4. c[ch[p + 1]][k + 1] = ch[(p - 2 ^ k) + 1]
      BY <3>2, <3>3 DEF Linked
    <3>5. ch[p + 1] \in Blocks
      BY <1>0, <3>3
    <3>6. Ptr(c, ch[p + 1], k) = ch[(p - 2 ^ k) + 1]
      BY <3>4, <3>5 DEF Ptr
    <3>7. g[n] = [i |-> p - 2 ^ k, b |-> Ptr(c, ch[p + 1], k)]
      BY <2>2, <2>3, <2>6, <3>6 DEF k
    <3> QED BY <2>2, <2>6, <3>7 DEF k
  <2> QED BY <2>5, <2>6
<1>4. g[0] = [i |-> from, b |-> head]
  BY <1>0, <1>1 DEF from
<1>5. g = [n \in 0 .. from |->
              IF n = 0 THEN [i |-> from, b |-> head]
              ELSE LET x == g[n - 1]
                       k == jump(x.i, target)
                   IN  IF x.i = target THEN x
                       ELSE [i |-> x.i - 2 ^ k, b |-> Ptr(c, x.b, k)]]
  <2>1. \A n \in 0 .. from : g[n] = IF n = 0 THEN [i |-> from, b |-> head]
              ELSE LET x == g[n - 1]
                       k == jump(x.i, target)
                   IN  IF x.i = target THEN x
                       ELSE [i |-> x.i - 2 ^ k, b |-> Ptr(c, x.b, k)]
    BY <1>3, <1>4
  <2>2. DOMAIN g = 0 .. from /\ g = [n \in DOMAIN g |-> g[n]]
    OBVIOUS
  <2> HIDE DEF g
  <2> QED BY <2>1, <2>2
<1>6. at = [n \in 0 .. from |->
               IF n = 0 THEN [i |-> from, b |-> head]
               ELSE LET x == at[n - 1]
                        k == jump(x.i, target)
                    IN  IF x.i = target THEN x
                        ELSE [i |-> x.i - 2 ^ k, b |-> Ptr(c, x.b, k)]]
  <2> HIDE DEF g, head
  <2> QED BY <1>5
<1> HIDE DEF at
<1> DEFINE S == {n \in 0 .. from : at[n] = g[n]}
<1>7. \A n \in 0 .. from : n \in S
  <2>1. 0 \in S
    BY <1>0, <1>4, <1>6
  <2>2. ASSUME NEW n \in 0 .. from - 1, n \in S PROVE n + 1 \in S
    <3>1. n + 1 \in 0 .. from /\ n + 1 # 0 /\ (n + 1) - 1 = n
      BY <1>0
    <3>2. at[n] = g[n]
      BY <2>2
    <3> HIDE DEF g
    <3> DEFINE Hop(x) == LET k == jump(x.i, target)
                         IN  IF x.i = target THEN x
                             ELSE [i |-> x.i - 2 ^ k, b |-> Ptr(c, x.b, k)]
    <3>4. at[n + 1] = Hop(at[n])
      BY <1>6, <3>1
    <3>5. g[n + 1] = Hop(g[n])
      <4> DEFINE n1 == n + 1
      <4>1. n1 \in 0 .. from /\ n1 # 0
        BY <3>1
      <4> HIDE DEF n1
      <4>2. g[n1] = Hop(g[n1 - 1])
        BY <1>3, <4>1
      <4> QED BY <3>1, <4>2 DEF n1
    <3>3. at[n + 1] = g[n + 1]
      <4> HIDE DEF Hop
      <4> QED BY <3>2, <3>4, <3>5
    <3> QED BY <3>1, <3>3
  <2> HIDE DEF S
  <2> QED BY <1>0, <2>1, <2>2, UpToInduction
<1> DEFINE D == {n \in 0 .. from : h[n] = target \/ h[n] + n <= from}
<1>8. \A n \in 0 .. from : n \in D
  <2>1. 0 \in D
    BY <1>0, <1>1
  <2>2. ASSUME NEW n \in 0 .. from - 1, n \in D PROVE n + 1 \in D
    <3> DEFINE p == h[n]
    <3>1. n + 1 \in 0 .. from /\ n + 1 # 0 /\ (n + 1) - 1 = n /\ n \in 0 .. from
      BY <1>0
    <3>2. h[n + 1] = IF p = target THEN target ELSE p - 2 ^ jump(p, target)
      BY <1>1, <3>1
    <3>3. p \in target .. from /\ p \in Nat /\ p < 2 ^ 28
      BY <1>0, <1>2, <3>1
    <3>4. p = target \/ p + n <= from
      BY <2>2
    <3> HIDE DEF p
    <3>5. p # target => p - 2 ^ jump(p, target) \in target .. p - 1
      <4>1. p # target => target < p
        BY <1>0, <3>3
      <4> QED BY <1>0, <3>3, <4>1, HopLands
    <3> QED BY <1>0, <3>1, <3>2, <3>3, <3>4, <3>5
  <2> HIDE DEF D
  <2> QED BY <1>0, <2>1, <2>2, UpToInduction
<1>9. h[from] = target
  <2>1. from \in 0 .. from /\ from \in D /\ h[from] \in target .. from
    BY <1>0, <1>2, <1>8
  <2> QED BY <1>0, <2>1
<1>10. at[from] = g[from] /\ g[from].b = ch[target + 1]
  <2>1. from \in 0 .. from
    BY <1>0
  <2> QED BY <1>7, <1>9, <2>1
<1> QED BY <1>10 DEF Seek, at, from

\* collect_chain_blocks and walk_ctz_chain find the blocks of a linked chain.
LEMMA ChainLinked ==
    ASSUME NEW c, NEW f, f.size \in 0 .. MaxSize, NEW ch, IsChain(c, f, ch)
    PROVE  Chain(c, f) = ch /\ ChainBlocks(c, f) = ToSet(ch)
<1> DEFINE n == BlockCount(f.size)
           at[j \in 0 .. n - 1] ==
               IF j = 0 THEN f.head
               ELSE IF j = 1 \/ (n - 1 - j) % 2 = 1 THEN Ptr(c, at[j - 1], 0)
               ELSE Ptr(c, at[j - 2], 1)
           g == [j \in 0 .. n - 1 |-> ch[n - j]]
<1>0. /\ n \in Nat /\ n <= 2 ^ 28 /\ ch \in Seq(Blocks) /\ Len(ch) = n
      /\ n > 0 => f.head = ch[n]
      /\ Linked(c, ch, n)
  BY RoomIs, FileAssumption DEF IsChain
<1> HIDE DEF n
<1>1. ASSUME NEW j \in 0 .. n - 1
      PROVE  g[j] = IF j = 0 THEN f.head
                    ELSE IF j = 1 \/ (n - 1 - j) % 2 = 1 THEN Ptr(c, g[j - 1], 0)
                    ELSE Ptr(c, g[j - 2], 1)
  <2>0. g[j] = ch[n - j]
    OBVIOUS
  <2>1. CASE j = 0
    BY <1>0, <2>0, <2>1
  <2>2. CASE j # 0 /\ (j = 1 \/ (n - 1 - j) % 2 = 1)
    <3>1. n - j \in Nat \ {0} /\ n - j < 2 ^ 28 /\ (n - j) + 1 \in 1 .. n
          /\ j - 1 \in 0 .. n - 1 /\ n - (j - 1) = (n - j) + 1
      BY <1>0, <2>2
    <3>2. NP(n - j) \in Nat /\ NP(n - j) >= 1 /\ 0 \in 0 .. NP(n - j) - 1
      BY <3>1, Pointers
    <3>3. ((n - j) + 1) - 1 = n - j /\ 2 ^ 0 = 1
      BY <3>1
    <3>4. c[ch[(n - j) + 1]][0 + 1] = ch[n - j]
      BY <1>0, <3>1, <3>2, <3>3 DEF Linked
    <3>5. g[j - 1] = ch[(n - j) + 1] /\ g[j - 1] \in Blocks
      BY <1>0, <3>1
    <3>6. Ptr(c, g[j - 1], 0) = ch[n - j]
      BY <3>4, <3>5 DEF Ptr
    <3> QED BY <2>0, <2>2, <3>6
  <2>3. CASE j # 0 /\ j # 1 /\ (n - 1 - j) % 2 # 1
    <3> DEFINE q == n + 1 - j
    <3>1. q \in Nat \ {0} /\ q < 2 ^ 28 /\ q + 1 \in 1 .. n
          /\ j - 2 \in 0 .. n - 1 /\ n - (j - 2) = q + 1 /\ (q + 1) - 2 = n - j
      BY <1>0, <2>3
    <3>2. q % 2 = 0
      BY <1>0, <2>3
    <3> HIDE DEF q
    <3>3. NP(q) \in Nat /\ NP(q) >= 2 /\ 1 \in 0 .. NP(q) - 1
      BY <3>1, <3>2, Pointers
    <3>4. (q + 1) - 1 = q /\ 2 ^ 1 = 2
      BY <3>1
    <3>5. c[ch[q + 1]][1 + 1] = ch[(q + 1) - 2 ^ 1]
      BY <1>0, <3>1, <3>3, <3>4 DEF Linked
    <3>6. g[j - 2] = ch[q + 1] /\ g[j - 2] \in Blocks
      BY <1>0, <3>1
    <3>7. Ptr(c, g[j - 2], 1) = ch[n - j]
      BY <3>1, <3>4, <3>5, <3>6 DEF Ptr
    <3> QED BY <2>0, <2>3, <3>7
  <2> QED BY <2>1, <2>2, <2>3
<1>2. g = [j \in 0 .. n - 1 |->
              IF j = 0 THEN f.head
              ELSE IF j = 1 \/ (n - 1 - j) % 2 = 1 THEN Ptr(c, g[j - 1], 0)
              ELSE Ptr(c, g[j - 2], 1)]
  <2>1. DOMAIN g = 0 .. n - 1 /\ g = [j \in DOMAIN g |-> g[j]]
    OBVIOUS
  <2> HIDE DEF g
  <2> QED BY <1>1, <2>1
<1>3. at = [j \in 0 .. n - 1 |->
               IF j = 0 THEN f.head
               ELSE IF j = 1 \/ (n - 1 - j) % 2 = 1 THEN Ptr(c, at[j - 1], 0)
               ELSE Ptr(c, at[j - 2], 1)]
  <2> HIDE DEF g
  <2> QED BY <1>2
<1> HIDE DEF at
<1>4. \A j \in 0 .. n - 1 : at[j] = g[j]
  <2>1. CASE n = 0
    BY <2>1
  <2>2. CASE n # 0
    <3> DEFINE S == {j \in 0 .. n - 1 : at[j] = g[j] /\ (j > 0 => at[j - 1] = g[j - 1])}
    <3>0. n - 1 \in Nat
      BY <1>0, <2>2
    <3>1. 0 \in S
      <4> HIDE DEF g
      <4>1. 0 \in 0 .. n - 1
        BY <3>0
      <4>2. at[0] = f.head /\ g[0] = f.head
        BY <1>1, <1>3, <4>1
      <4> QED BY <4>1, <4>2
    <3>2. ASSUME NEW j \in 0 .. (n - 1) - 1, j \in S PROVE j + 1 \in S
      <4> DEFINE i == j + 1
      <4>1. i \in 0 .. n - 1 /\ i # 0 /\ i - 1 = j /\ (i # 1 => i - 2 = j - 1 /\ j > 0)
        BY <3>0
      <4>2. at[j] = g[j] /\ (j > 0 => at[j - 1] = g[j - 1])
        BY <3>2
      <4> HIDE DEF i, g
      <4>3. at[i - 1] = g[i - 1] /\ (i # 1 => at[i - 2] = g[i - 2])
        BY <4>1, <4>2
      <4>4. at[i] = IF i = 1 \/ (n - 1 - i) % 2 = 1 THEN Ptr(c, at[i - 1], 0)
                    ELSE Ptr(c, at[i - 2], 1)
        BY <1>3, <4>1
      <4>5. g[i] = IF i = 1 \/ (n - 1 - i) % 2 = 1 THEN Ptr(c, g[i - 1], 0)
                   ELSE Ptr(c, g[i - 2], 1)
        BY <1>1, <4>1
      <4>6. at[i] = g[i]
        BY <4>3, <4>4, <4>5
      <4> QED BY <4>1, <4>3, <4>6 DEF i
    <3> HIDE DEF S
    <3>3. \A j \in 0 .. n - 1 : j \in S
      BY <3>0, <3>1, <3>2, UpToInduction
    <3> QED BY <3>3 DEF S
  <2> QED BY <2>1, <2>2
<1>5. Chain(c, f) = [i \in 1 .. n |-> at[n - i]]
  BY DEF Chain, at, n
<1>6. \A i \in 1 .. n : at[n - i] = ch[i]
  <2> TAKE i \in 1 .. n
  <2>1. n - i \in 0 .. n - 1 /\ n - (n - i) = i
    BY <1>0
  <2>2. at[n - i] = g[n - i] /\ g[n - i] = ch[n - (n - i)]
    BY <1>4, <2>1
  <2> QED BY <2>1, <2>2
<1>7. ch = [i \in 1 .. n |-> ch[i]]
  BY <1>0
<1>8. Chain(c, f) = ch
  BY <1>5, <1>6, <1>7
<1> QED BY <1>8 DEF ChainBlocks

\* read_ctz_at reads the text of a linked chain.
LEMMA ContentReads ==
    ASSUME NEW c, NEW f, f.size \in 0 .. MaxSize, NEW ch, IsChain(c, f, ch),
           NEW text \in Seq(Cell), Len(text) = f.size, Reads(c, ch, 0, f.size, text)
    PROVE  Content(c, f) = text
<1> DEFINE n == BlockCount(f.size)
<1>0. /\ n \in Nat /\ n <= 2 ^ 28 /\ ch \in Seq(Blocks) /\ Len(ch) = n
      /\ n > 0 => f.head = ch[n]
      /\ Linked(c, ch, n) /\ f.size \in Nat
  BY RoomIs, FileAssumption DEF IsChain
<1>1. ASSUME NEW o \in 1 .. f.size
      PROVE  (LET p == block_index_at_offset(o - 1, BlockSize)
                  b == Seek(c, f.head, n - 1, p[1])
              IN  IF b \in Blocks THEN c[b][p[2] + 1] ELSE Bad) = text[o]
  <2>1. o - 1 \in 0 .. f.size - 1 /\ f.size \in 1 .. MaxSize /\ (o - 1) + 1 = o
    BY <1>0
  <2>2. Idx(o - 1) \in 0 .. n - 1
    BY <2>1, Within
  <2>3. n \in 1 .. Len(ch) /\ f.head = ch[n]
    BY <1>0, <2>2
  <2> HIDE DEF n
  <2>4. Seek(c, f.head, n - 1, Idx(o - 1)) = ch[Idx(o - 1) + 1]
    BY <1>0, <2>2, <2>3, SeekLinked
  <2>5. ch[Idx(o - 1) + 1] \in Blocks
    BY <1>0, <2>2
  <2>6. c[ch[Idx(o - 1) + 1]][Pos(o - 1) + 1] = text[o]
    BY <2>1 DEF Reads
  <2> QED BY <2>4, <2>5, <2>6 DEF Idx, Pos
<1>2. Content(c, f) = [o \in 1 .. f.size |-> text[o]]
  BY <1>1 DEF Content
<1>3. text = [o \in 1 .. f.size |-> text[o]]
  BY <1>0
<1> QED BY <1>2, <1>3

----------------------------------------------------------------------------
(* The allocator.                                                          *)

LEMMA ToSetIs ==
    ASSUME NEW S, NEW s \in Seq(S)
    PROVE  /\ ToSet(s) = {s[i] : i \in 1 .. Len(s)}
           /\ ToSet(s) \subseteq S
           /\ \A i \in 1 .. Len(s) : s[i] \in ToSet(s)
           /\ \A x \in ToSet(s) : \E i \in 1 .. Len(s) : x = s[i]
BY DEF ToSet

LEMMA SeqSize ==
    ASSUME NEW S, NEW s \in Seq(S)
    PROVE  IsFiniteSet(ToSet(s)) /\ Cardinality(ToSet(s)) <= Len(s)
<1> DEFINE n == Len(s)
           D == 1 .. n
<1>1. n \in Nat
  OBVIOUS
<1>2. s \in Surjection(D, ToSet(s))
  <2>1. s \in [D -> ToSet(s)]
    BY ToSetIs
  <2>2. \A t \in ToSet(s) : \E i \in D : s[i] = t
    BY ToSetIs
  <2> QED BY <2>1, <2>2 DEF Surjection
<1>3. 1 \in Int /\ n \in Int
  BY <1>1
<1> HIDE DEF n
<1>4. IsFiniteSet(D) /\ Cardinality(D) = IF 1 > n THEN 0 ELSE n - 1 + 1
  BY <1>3, FS_Interval
<1>5. Cardinality(D) = n
  BY <1>1, <1>4
<1> HIDE DEF D
<1>6. IsFiniteSet(ToSet(s)) /\ Cardinality(ToSet(s)) <= Cardinality(D)
  BY <1>2, <1>4, FS_Surjection
<1> QED BY <1>5, <1>6 DEF n

LEMMA BlocksFinite ==
    ASSUME NEW F, F \subseteq Blocks
    PROVE  IsFiniteSet(F) /\ Cardinality(F) \in Nat
<1>1. 0 \in Int /\ NumBlocks - 1 \in Int
  BY FileAssumption
<1>2. IsFiniteSet(0 .. NumBlocks - 1)
  BY <1>1, FS_Interval
<1>3. IsFiniteSet(F)
  BY <1>2, FS_Subset DEF Blocks
<1> QED BY <1>3, FS_CardinalityType

\* take_free_blocks: s is the first k of the free blocks F.
Taken(s, F, k) == s \in Seq(F) /\ Len(s) = k /\ Distinct(s)

LEMMA TakeOne ==
    ASSUME NEW F, F \subseteq Blocks, NEW k \in Nat, k < Cardinality(F), NEW s, Taken(s, F, k)
    PROVE  Taken(Append(s, Min(F \ ToSet(s))), F, k + 1)
<1> DEFINE G == F \ ToSet(s)
           b == Min(G)
<1>1. s \in Seq(F) /\ Len(s) = k /\ Distinct(s)
  BY DEF Taken
<1>2. G # {}
  <2> SUFFICES ASSUME F \subseteq ToSet(s) PROVE FALSE
    OBVIOUS
  <2>1. IsFiniteSet(ToSet(s)) /\ Cardinality(ToSet(s)) <= Len(s)
    BY <1>1, SeqSize
  <2>2. Cardinality(F) <= Cardinality(ToSet(s))
    BY <2>1, FS_Subset
  <2>3. Cardinality(F) \in Nat /\ Cardinality(ToSet(s)) \in Nat
    BY <2>1, BlocksFinite, FS_CardinalityType
  <2> QED BY <1>1, <2>1, <2>2, <2>3
<1>3. b \in G
  <2>1. G \subseteq Nat
    <3> HIDE DEF b
    <3>1. \A x \in Blocks : x \in Nat
      BY FileAssumption DEF Blocks
    <3> QED BY <3>1
  <2>2. \E x \in G : \A y \in G : x <= y
    BY <1>2, <2>1, LeastNatural
  <2> HIDE DEF G
  <2> QED BY <2>2 DEF Min
<1> DEFINE u == Append(s, b)
<1>4. b \in F /\ b \notin ToSet(s)
  BY <1>3
<1> HIDE DEF b, G
<1>5. u \in Seq(F) /\ Len(u) = k + 1 /\ u[k + 1] = b /\ \A i \in 1 .. k : u[i] = s[i]
  BY <1>1, <1>4
<1>6. \A i \in 1 .. k : s[i] # b
  BY <1>1, <1>4, ToSetIs
<1> HIDE DEF u
<1>7. Distinct(u)
  <2> SUFFICES ASSUME NEW i \in 1 .. k + 1, NEW j \in 1 .. k + 1, u[i] = u[j] PROVE i = j
    BY <1>5 DEF Distinct
  <2>1. CASE i \in 1 .. k /\ j \in 1 .. k
    BY <1>1, <1>5, <2>1 DEF Distinct
  <2>2. CASE i = k + 1 /\ j \in 1 .. k
    BY <1>5, <1>6, <2>2
  <2>3. CASE j = k + 1 /\ i \in 1 .. k
    BY <1>5, <1>6, <2>3
  <2>4. CASE i = k + 1 /\ j = k + 1
    BY <2>4
  <2> QED BY <2>1, <2>2, <2>3, <2>4
<1> QED BY <1>5, <1>7 DEF Taken, u, b, G

LEMMA TakeAll ==
    ASSUME NEW F, F \subseteq Blocks, NEW n \in Nat, n <= Cardinality(F)
    PROVE  LET lowest[k \in 0 .. n] ==
                   IF k = 0 THEN <<>>
                   ELSE Append(lowest[k - 1], Min(F \ ToSet(lowest[k - 1])))
           IN  Taken(lowest[n], F, n)
<1> DEFINE lowest[k \in 0 .. n] ==
               IF k = 0 THEN <<>>
               ELSE Append(lowest[k - 1], Min(F \ ToSet(lowest[k - 1])))
           A == {s \in Seq(F) : Distinct(s)}
           step == [k \in 1 .. n |-> [s \in A |-> IF Len(s) < n THEN Append(s, Min(F \ ToSet(s)))
                                                  ELSE s]]
<1>0. Cardinality(F) \in Nat
  BY BlocksFinite
<1>1. \A s \in A : Len(s) < n => Taken(Append(s, Min(F \ ToSet(s))), F, Len(s) + 1)
  <2> SUFFICES ASSUME NEW s \in A, Len(s) < n
               PROVE  Taken(Append(s, Min(F \ ToSet(s))), F, Len(s) + 1)
    OBVIOUS
  <2>1. Len(s) \in Nat /\ Len(s) < Cardinality(F)
    BY <1>0
  <2>2. Taken(s, F, Len(s))
    BY DEF Taken
  <2> QED BY <2>1, <2>2, TakeOne
<1>2. StepsStay(step, n, A)
  BY <1>1 DEF StepsStay, Taken
<1>3. <<>> \in A
  BY DEF Distinct
<1>4. \A k \in 1 .. n, s \in A :
         step[k][s] = IF Len(s) < n THEN Append(s, Min(F \ ToSet(s))) ELSE s
  OBVIOUS
<1> HIDE DEF step
<1>5. PICK g : Follows(g, n, A, <<>>, step)
  <2> HIDE DEF A
  <2> QED BY <1>2, <1>3, StepsExist
<1>6. g \in [0 .. n -> A] /\ g[0] = <<>> /\ \A k \in 1 .. n : g[k] = step[k][g[k - 1]]
  BY <1>5 DEF Follows
<1> DEFINE S == {k \in 0 .. n : Taken(g[k], F, k)}
<1>7. \A k \in 0 .. n : k \in S
  <2>1. 0 \in S
    BY <1>6 DEF Taken, Distinct
  <2>2. ASSUME NEW k \in 0 .. n - 1, k \in S PROVE k + 1 \in S
    <3>1. k + 1 \in 1 .. n /\ (k + 1) - 1 = k /\ k \in 0 .. n
      OBVIOUS
    <3>2. Taken(g[k], F, k) /\ g[k] \in A
      BY <1>6, <2>2, <3>1
    <3>3. Len(g[k]) = k
      BY <3>2 DEF Taken
    <3>4. g[k + 1] = Append(g[k], Min(F \ ToSet(g[k])))
      <4>1. g[k + 1] = step[k + 1][g[k]]
        BY <1>6, <3>1
      <4>2. k < n
        BY <3>1
      <4> HIDE DEF A, S
      <4> QED BY <1>4, <3>1, <3>2, <3>3, <4>1, <4>2
    <3>5. Taken(g[k + 1], F, k + 1)
      BY <1>1, <3>2, <3>3, <3>4
    <3> QED BY <3>1, <3>5
  <2> HIDE DEF S
  <2> QED BY <2>1, <2>2, UpToInduction
<1>8. ASSUME NEW k \in 0 .. n
      PROVE  g[k] = IF k = 0 THEN <<>> ELSE Append(g[k - 1], Min(F \ ToSet(g[k - 1])))
  <2>1. CASE k = 0
    BY <1>6, <2>1
  <2>2. CASE k # 0
    <3>1. k \in 1 .. n /\ k - 1 \in 0 .. n
      BY <2>2
    <3>2. Taken(g[k - 1], F, k - 1) /\ g[k - 1] \in A
      BY <1>6, <1>7, <3>1
    <3>3. Len(g[k - 1]) < n
      BY <3>1, <3>2 DEF Taken
    <3> QED BY <1>4, <1>6, <2>2, <3>1, <3>2, <3>3
  <2> QED BY <2>1, <2>2
<1>9. g = [k \in 0 .. n |->
              IF k = 0 THEN <<>> ELSE Append(g[k - 1], Min(F \ ToSet(g[k - 1])))]
  <2>1. DOMAIN g = 0 .. n /\ g = [k \in DOMAIN g |-> g[k]]
    BY <1>6
  <2> QED BY <1>8, <2>1
<1>10. lowest = [k \in 0 .. n |->
              IF k = 0 THEN <<>> ELSE Append(lowest[k - 1], Min(F \ ToSet(lowest[k - 1])))]
  BY <1>9
<1> HIDE DEF lowest
<1> DEFINE T == {k \in 0 .. n : lowest[k] = g[k]}
<1>11. \A k \in 0 .. n : k \in T
  <2>1. 0 \in T
    BY <1>6, <1>10
  <2>2. ASSUME NEW k \in 0 .. n - 1, k \in T PROVE k + 1 \in T
    <3>1. k + 1 \in 0 .. n /\ k + 1 # 0 /\ (k + 1) - 1 = k /\ k \in 0 .. n
      OBVIOUS
    <3>2. lowest[k + 1] = Append(lowest[k], Min(F \ ToSet(lowest[k])))
      BY <1>10, <3>1
    <3>3. g[k + 1] = Append(g[k], Min(F \ ToSet(g[k])))
      BY <1>9, <3>1
    <3> QED BY <2>2, <3>1, <3>2, <3>3
  <2> HIDE DEF T
  <2> QED BY <2>1, <2>2, UpToInduction
<1>12. Taken(lowest[n], F, n)
  BY <1>7, <1>11
<1> QED BY <1>12 DEF lowest

\* What alloc_blocks_cached returns: either n distinct blocks that neither the
\* caller excludes nor the pool holds, all of them in the cache from now on, or
\* nothing.  The pool is the cache, or what a rescan found.
Allotted(a, n, excluded, owned, raw) ==
    /\ a.blocks # <<>> =>
          \E pool : /\ pool \subseteq Blocks
                    /\ \/ cache # None /\ pool = cache
                       \/ /\ PairBlocks \subseteq pool /\ ChainBlocks(cells, owned) \subseteq pool
                          /\ ~raw => ChainBlocks(cells, entry) \subseteq pool
                    /\ Taken(a.blocks, Blocks \ (pool \cup excluded), n)
                    /\ a.cache = pool \cup excluded \cup ToSet(a.blocks)
    /\ a.blocks = <<>> => a.cache \in {None, Blocks}

LEMMA AllocAllots ==
    ASSUME NEW n \in Nat \ {0}, NEW excluded, excluded \subseteq Blocks, NEW owned,
           NEW raw \in BOOLEAN, PairBlocks \subseteq Blocks, cache = None \/ cache \subseteq Blocks
    PROVE  Allotted(Alloc(n, excluded, owned, raw), n, excluded, owned, raw)
<1> DEFINE Free(pool) == Blocks \ (pool \cup excluded)
           hit  == cache # None /\ Cardinality(Free(cache)) >= n
           walked == UNION {ChainBlocks(cells, f) : f \in Named(raw) \cup {owned}}
           pool == IF hit THEN cache ELSE PairBlocks \cup walked
           lowest[k \in 0 .. n] ==
               IF k = 0 THEN <<>>
               ELSE Append(lowest[k - 1], Min(Free(pool) \ ToSet(lowest[k - 1])))
           corrupt == ~hit /\ ~(walked \subseteq Blocks)
           enough == ~corrupt /\ Cardinality(Free(pool)) >= n
           a == [corrupt |-> corrupt,
                 blocks  |-> IF enough THEN lowest[n] ELSE <<>>,
                 cache   |-> IF enough THEN pool \cup excluded \cup ToSet(lowest[n])
                             ELSE IF cache = None THEN None ELSE Blocks]
<1>1. Alloc(n, excluded, owned, raw) = a
  BY DEF Alloc
<1>2. a.blocks = (IF enough THEN lowest[n] ELSE <<>>)
      /\ a.cache = (IF enough THEN pool \cup excluded \cup ToSet(lowest[n])
                    ELSE IF cache = None THEN None ELSE Blocks)
  <2> HIDE DEF lowest, enough, corrupt, pool
  <2> QED OBVIOUS
<1>3. ASSUME enough
      PROVE  Taken(lowest[n], Free(pool), n)
  <2>1. Free(pool) \subseteq Blocks
    OBVIOUS
  <2>2. n <= Cardinality(Free(pool)) /\ n \in Nat
    BY <1>3, <2>1, BlocksFinite
  <2> DEFINE F == Free(pool)
             low[k \in 0 .. n] ==
               IF k = 0 THEN <<>>
               ELSE Append(low[k - 1], Min(F \ ToSet(low[k - 1])))
  <2>3. Taken(low[n], F, n)
    <3> HIDE DEF Free, pool, F
    <3>1. F \subseteq Blocks /\ n <= Cardinality(F) /\ n \in Nat
      BY <2>1, <2>2 DEF F
    <3> QED BY <3>1, TakeAll
  <2> QED BY <2>3
<1>4. ChainBlocks(cells, owned) \subseteq walked /\ (~raw => ChainBlocks(cells, entry) \subseteq walked)
  BY DEF Named
<1>5. enough => pool \subseteq Blocks
  OBVIOUS
<1>6. \/ cache # None /\ pool = cache
      \/ PairBlocks \subseteq pool /\ walked \subseteq pool
  <2> HIDE DEF walked
  <2> QED OBVIOUS
<1> HIDE DEF hit, walked, pool, lowest, corrupt, enough, a
<1>7. ASSUME a.blocks # <<>>
      PROVE  \E p : /\ p \subseteq Blocks
                    /\ \/ cache # None /\ p = cache
                       \/ /\ PairBlocks \subseteq p /\ ChainBlocks(cells, owned) \subseteq p
                          /\ ~raw => ChainBlocks(cells, entry) \subseteq p
                    /\ Taken(a.blocks, Blocks \ (p \cup excluded), n)
                    /\ a.cache = p \cup excluded \cup ToSet(a.blocks)
  <2>1. enough
    BY <1>2, <1>7
  <2>2. a.blocks = lowest[n] /\ a.cache = pool \cup excluded \cup ToSet(a.blocks)
    BY <1>2, <2>1
  <2>3. Taken(a.blocks, Blocks \ (pool \cup excluded), n)
    BY <1>3, <2>1, <2>2
  <2> WITNESS pool
  <2> QED BY <1>4, <1>5, <1>6, <2>1, <2>2, <2>3
<1>8. ASSUME a.blocks = <<>> PROVE a.cache \in {None, Blocks}
  <2>1. CASE enough
    <3>1. lowest[n] = <<>>
      BY <1>2, <1>8, <2>1
    <3>2. Len(lowest[n]) = n
      BY <1>3, <2>1 DEF Taken
    <3> QED BY <3>1, <3>2
  <2>2. CASE ~enough
    BY <1>2, <2>2
  <2> QED BY <2>1, <2>2
<1> QED BY <1>1, <1>7, <1>8 DEF Allotted

----------------------------------------------------------------------------
(* What writes do to a chain.                                              *)

\* The byte at offset o, in cells counted from one.
LEMMA ByteAt ==
    ASSUME NEW s \in 1 .. MaxSize, NEW o \in 0 .. s - 1
    PROVE  /\ Idx(o) + 1 \in 1 .. BlockCount(s) /\ Pos(o) + 1 \in 1 .. BlockSize
           /\ Idx(o) + 1 = BlockCount(s) => Pos(o) + 1 <= EndOf(s)
           /\ Idx(o) \in Nat /\ Pos(o) \in Nat
<1> DEFINE i == Idx(o)
           p == Pos(o)
           m == BlockCount(s)
           q == EndOf(s)
<1>1. i \in 0 .. m - 1 /\ p \in 0 .. BlockSize - 1 /\ (i = m - 1 => p < q)
  BY Within
<1>2. m \in Nat /\ q \in Nat /\ BlockSize \in Nat
  BY Ends, FileAssumption
<1> HIDE DEF i, p, m, q
<1>3. i + 1 \in 1 .. m /\ p + 1 \in 1 .. BlockSize /\ (i + 1 = m => p + 1 <= q) /\ i \in Nat /\ p \in Nat
  BY <1>1, <1>2
<1> QED BY <1>3 DEF i, p, m, q

\* From c to d, the blocks of ch are spared, but for the cells behind the end of f.
Spared(c, d, f, ch) ==
    \A b \in ToSet(ch), x \in 1 .. BlockSize :
        d[b][x] = c[b][x] \/ (f.size > 0 /\ b = f.head /\ x > EndOf(f.size))

\* The numbers of a chain.
LEMMA ChainNumbers ==
    ASSUME NEW c, NEW f, f.size \in 0 .. MaxSize, NEW ch, IsChain(c, f, ch)
    PROVE  /\ ch \in Seq(Blocks) /\ Len(ch) = BlockCount(f.size) /\ Len(ch) \in Nat
           /\ Len(ch) <= 2 ^ 28 /\ f.size \in Nat /\ ((Len(ch) = 0) <=> (f.size = 0))
           /\ \A i \in 1 .. Len(ch) : /\ ch[i] \in ToSet(ch) /\ ch[i] \in Blocks
                                      /\ i - 1 \in Nat /\ i - 1 < 2 ^ 28
                                      /\ NP(i - 1) \in Nat /\ NP(i - 1) < BlockSize
           /\ ToSet(ch) \subseteq Blocks
           /\ f.size > 0 => /\ f.size \in 1 .. MaxSize /\ f.head \in ToSet(ch)
                            /\ f.head = ch[Len(ch)] /\ Len(ch) \in 1 .. Len(ch)
                            /\ EndOf(f.size) \in 1 .. BlockSize /\ NP(Len(ch) - 1) < EndOf(f.size)
<1>0. MaxSize \in Nat /\ 2 ^ 28 \in Nat
  BY FileAssumption
<1>1. ch \in Seq(Blocks) /\ Len(ch) = BlockCount(f.size) /\ Len(ch) \in Nat
  BY DEF IsChain
<1>2. /\ Len(ch) <= 2 ^ 28 /\ ((Len(ch) = 0) <=> (f.size = 0))
      /\ \A i \in 0 .. Len(ch) - 1 : NP(i) \in Nat /\ NP(i) < BlockSize
  BY <1>1, RoomIs
<1>3. ASSUME NEW i \in 1 .. Len(ch)
      PROVE  i - 1 \in Nat /\ i - 1 < 2 ^ 28 /\ NP(i - 1) \in Nat /\ NP(i - 1) < BlockSize
  <2>1. i - 1 \in 0 .. Len(ch) - 1 /\ i - 1 \in Nat /\ i - 1 < 2 ^ 28
    BY <1>0, <1>1, <1>2
  <2> QED BY <1>2, <2>1
<1>4. ToSet(ch) \subseteq Blocks /\ \A i \in 1 .. Len(ch) : ch[i] \in ToSet(ch) /\ ch[i] \in Blocks
  BY <1>1, ToSetIs
<1>5. ASSUME f.size > 0
      PROVE  /\ f.size \in 1 .. MaxSize /\ f.head \in ToSet(ch)
             /\ f.head = ch[Len(ch)] /\ Len(ch) \in 1 .. Len(ch)
             /\ EndOf(f.size) \in 1 .. BlockSize /\ NP(Len(ch) - 1) < EndOf(f.size)
  <2>1. f.size \in 1 .. MaxSize /\ f.head = ch[Len(ch)]
    BY <1>0, <1>5 DEF IsChain
  <2>2. Len(ch) \in 1 .. Len(ch)
    BY <1>1, <1>2, <1>5
  <2>3. EndOf(f.size) \in 1 .. BlockSize /\ NP(Len(ch) - 1) < EndOf(f.size)
    BY <1>1, <2>1, Ends
  <2> QED BY <1>4, <2>1, <2>2, <2>3
<1> QED BY <1>0, <1>1, <1>2, <1>3, <1>4, <1>5

\* A pointer leads to an earlier block.
LEMMA PointsBack ==
    ASSUME NEW i \in Nat, i < 2 ^ 28, NEW k \in 0 .. NP(i) - 1
    PROVE  k \in Nat /\ 2 ^ k \in 1 .. i /\ (i + 1) - 2 ^ k \in 1 .. i
<1>1. i # 0
  BY Pointers
<1>2. i \in Nat \ {0}
  BY <1>1
<1>3. k \in Bits /\ 2 ^ k \in 1 .. i
  BY <1>2, Pointers
<1> DEFINE p == 2 ^ k
<1>4. p \in 1 .. i
  BY <1>3
<1> HIDE DEF p
<1>5. (i + 1) - p \in 1 .. i
  BY <1>4
<1> QED BY <1>3, <1>5 DEF p, Bits

\* A chain outlives what happens elsewhere and behind its end.
LEMMA ChainFrame ==
    ASSUME NEW c, NEW d, NEW f, f.size \in 0 .. MaxSize, NEW ch, IsChain(c, f, ch),
           NEW text, Reads(c, ch, 0, f.size, text), Spared(c, d, f, ch)
    PROVE  IsChain(d, f, ch) /\ Reads(d, ch, 0, f.size, text)
<1> DEFINE n == Len(ch)
<1>1. /\ ch \in Seq(Blocks) /\ n = BlockCount(f.size) /\ n \in Nat
      /\ f.size \in Nat /\ ((n = 0) <=> (f.size = 0))
      /\ \A i \in 1 .. n : /\ ch[i] \in ToSet(ch) /\ i - 1 \in Nat
                           /\ NP(i - 1) \in Nat /\ NP(i - 1) < BlockSize
      /\ f.size > 0 => /\ f.size \in 1 .. MaxSize
                       /\ f.head = ch[n] /\ n \in 1 .. n
                       /\ EndOf(f.size) \in 1 .. BlockSize /\ NP(n - 1) < EndOf(f.size)
  BY ChainNumbers
<1>2. Distinct(ch) /\ Linked(c, ch, n)
  BY DEF IsChain
<1>0. BlockSize \in Nat
  BY FileAssumption
<1> HIDE DEF n
<1>3. ASSUME NEW i \in 1 .. n, NEW x \in 1 .. BlockSize, i = n => x <= EndOf(f.size)
      PROVE  d[ch[i]][x] = c[ch[i]][x]
  <2>1. SUFFICES ASSUME f.size > 0, ch[i] = f.head, x > EndOf(f.size) PROVE FALSE
    BY <1>1 DEF Spared
  <2>2. i = n
    BY <1>1, <1>2, <2>1 DEF Distinct, n
  <2> QED BY <1>1, <1>3, <2>1, <2>2
<1>4. Linked(d, ch, n)
  <2> SUFFICES ASSUME NEW i \in 1 .. n, NEW k \in 0 .. NP(i - 1) - 1
               PROVE  d[ch[i]][k + 1] = ch[i - 2 ^ k]
    BY DEF Linked
  <2>1. c[ch[i]][k + 1] = ch[i - 2 ^ k]
    BY <1>2 DEF Linked
  <2>2. NP(i - 1) \in Nat /\ NP(i - 1) < BlockSize /\ f.size > 0
    BY <1>1
  <2>3. k + 1 \in 1 .. BlockSize /\ k + 1 <= NP(i - 1)
    BY <1>0, <2>2
  <2>4. i = n => k + 1 <= EndOf(f.size)
    BY <1>1, <2>2, <2>3
  <2> QED BY <1>3, <2>1, <2>3, <2>4
<1>5. Reads(d, ch, 0, f.size, text)
  <2> SUFFICES ASSUME NEW o \in 0 .. f.size - 1
               PROVE  d[ch[Idx(o) + 1]][Pos(o) + 1] = text[o + 1]
    BY DEF Reads
  <2>1. c[ch[Idx(o) + 1]][Pos(o) + 1] = text[o + 1]
    BY DEF Reads
  <2>2. f.size \in 1 .. MaxSize
    BY <1>1
  <2>4. Idx(o) + 1 \in 1 .. n /\ Pos(o) + 1 \in 1 .. BlockSize
        /\ (Idx(o) + 1 = n => Pos(o) + 1 <= EndOf(f.size))
    BY <1>1, <2>2, ByteAt
  <2> QED BY <1>3, <2>1, <2>4
<1> QED BY <1>4, <1>5 DEF IsChain, n

\* The first blocks of ch are the chain of g, and hold the first size bytes of the text.
PrefixOf(c, ch, text, size, g) ==
    LET p == SubSeq(ch, 1, BlockCount(size))
    IN  /\ IsChain(c, g, p) /\ Reads(c, p, 0, size, SubSeq(text, 1, size))
        /\ BlockCount(size) \in 1 .. Len(ch) /\ ToSet(p) \subseteq ToSet(ch)
        /\ Len(SubSeq(text, 1, size)) = size

\* The first blocks of a chain are the chain of a file cut short.
LEMMA ChainPrefix ==
    ASSUME NEW c, NEW f, f.size \in 0 .. MaxSize, NEW ch, IsChain(c, f, ch),
           NEW text \in Text, Len(text) = f.size, Reads(c, ch, 0, f.size, text),
           NEW size \in 1 .. f.size, NEW g, g.size = size, g.head = ch[BlockCount(size)]
    PROVE  PrefixOf(c, ch, text, size, g)
<1> DEFINE m == BlockCount(size)
           p == SubSeq(ch, 1, m)
<1>0. MaxSize \in Nat
  BY FileAssumption
<1>1. /\ ch \in Seq(Blocks) /\ Len(ch) = BlockCount(f.size) /\ Len(ch) \in Nat
      /\ \A i \in 1 .. Len(ch) : ch[i] \in ToSet(ch) /\ i - 1 \in Nat /\ i - 1 < 2 ^ 28
  BY ChainNumbers
<1>2. Distinct(ch) /\ Linked(c, ch, Len(ch))
  BY DEF IsChain
<1>3. m \in 1 .. Len(ch) /\ size \in 1 .. MaxSize
  <2>1. size \in 1 .. MaxSize /\ f.size \in 1 .. MaxSize /\ size <= f.size /\ size \in Nat /\ f.size \in Nat
    BY <1>0
  <2>2. m \in Nat /\ m >= 1 /\ BlockCount(f.size) \in Nat
    BY <2>1, Ends
  <2>3. m <= BlockCount(f.size)
    <3>1. CASE size = f.size
      BY <2>2, <3>1
    <3>2. CASE size # f.size
      <4>1. size \in 0 .. MaxSize /\ f.size \in 0 .. MaxSize /\ size < f.size
        BY <2>1, <3>2
      <4> QED BY <4>1, Grows
    <3> QED BY <3>1, <3>2
  <2> QED BY <1>1, <2>1, <2>2, <2>3
<1> HIDE DEF m
<1>4. p \in Seq(Blocks) /\ Len(p) = m /\ \A i \in 1 .. m : p[i] = ch[i] /\ i \in 1 .. Len(ch)
  BY <1>1, <1>3
<1> HIDE DEF p
<1>5. Distinct(p)
  BY <1>2, <1>4 DEF Distinct
<1>6. Linked(c, p, m)
  <2> SUFFICES ASSUME NEW i \in 1 .. m, NEW k \in 0 .. NP(i - 1) - 1
               PROVE  c[p[i]][k + 1] = p[i - 2 ^ k]
    BY DEF Linked
  <2>1. i \in 1 .. Len(ch) /\ p[i] = ch[i]
    BY <1>4
  <2>2. c[ch[i]][k + 1] = ch[i - 2 ^ k]
    BY <1>2, <2>1 DEF Linked
  <2>3. i - 1 \in Nat /\ i - 1 < 2 ^ 28 /\ (i - 1) + 1 = i
    BY <1>1, <2>1
  <2>4. i - 2 ^ k \in 1 .. i - 1
    BY <2>3, PointsBack
  <2>5. i - 2 ^ k \in 1 .. m
    BY <1>3, <2>4
  <2> QED BY <1>4, <2>1, <2>2, <2>5
<1>7. ToSet(p) \subseteq ToSet(ch)
  <2> SUFFICES ASSUME NEW b \in ToSet(p) PROVE b \in ToSet(ch)
    OBVIOUS
  <2>1. PICK i \in 1 .. m : b = p[i]
    BY <1>4, ToSetIs
  <2> QED BY <1>1, <1>4, <2>1
<1>8. IsChain(c, g, p)
  BY <1>3, <1>4, <1>5, <1>6 DEF IsChain, m
<1> DEFINE t == SubSeq(text, 1, size)
<1>9. Len(t) = size /\ \A o \in 1 .. size : t[o] = text[o]
  BY <1>0 DEF Text
<1> HIDE DEF t
<1>10. Reads(c, p, 0, size, t)
  <2> SUFFICES ASSUME NEW o \in 0 .. size - 1
               PROVE  c[p[Idx(o) + 1]][Pos(o) + 1] = t[o + 1]
    BY DEF Reads
  <2>1. o + 1 \in 1 .. size /\ o \in 0 .. f.size - 1
    BY <1>0
  <2>2. c[ch[Idx(o) + 1]][Pos(o) + 1] = text[o + 1]
    BY <2>1 DEF Reads
  <2>3. Idx(o) \in 0 .. m - 1
    BY <1>3, Within DEF m
  <2>4. Idx(o) + 1 \in 1 .. m
    BY <1>3, <2>3
  <2> QED BY <1>4, <1>9, <2>1, <2>2, <2>4
<1> QED BY <1>3, <1>7, <1>8, <1>9, <1>10 DEF PrefixOf, m, p, t

\* Chain ch of f with block b in place of its last one is the chain of g.
Copied(d, f, ch, text, b, g) ==
    LET r == [ch EXCEPT ![Len(ch)] = b]
    IN  /\ IsChain(d, g, r) /\ Reads(d, r, 0, f.size, text)
        /\ ToSet(r) \subseteq ToSet(ch) \cup {b}
        /\ ToSet(ch) \ {f.head} \subseteq ToSet(r) /\ b \in ToSet(r)
        /\ r[Len(ch)] = b

\* A copy of the last block takes its place.
LEMMA ChainReplace ==
    ASSUME NEW c, NEW d, NEW f, f.size \in 1 .. MaxSize, NEW ch, IsChain(c, f, ch),
           NEW text, Reads(c, ch, 0, f.size, text), NEW b \in Blocks, b \notin ToSet(ch),
           \A a \in ToSet(ch), x \in 1 .. BlockSize : d[a][x] = c[a][x],
           \A x \in 1 .. EndOf(f.size) : d[b][x] = c[f.head][x],
           NEW g, g.size = f.size, g.head = b
    PROVE  Copied(d, f, ch, text, b, g)
<1> DEFINE n == Len(ch)
           r == [ch EXCEPT ![n] = b]
<1>0. MaxSize \in Nat /\ BlockSize \in Nat
  BY FileAssumption
<1>1. /\ ch \in Seq(Blocks) /\ n = BlockCount(f.size) /\ n \in Nat /\ f.size > 0
      /\ \A i \in 1 .. n : /\ ch[i] \in ToSet(ch) /\ i - 1 \in Nat /\ i - 1 < 2 ^ 28
                           /\ NP(i - 1) \in Nat /\ NP(i - 1) < BlockSize
      /\ f.head = ch[n] /\ n \in 1 .. n
      /\ EndOf(f.size) \in 1 .. BlockSize /\ NP(n - 1) < EndOf(f.size)
  <2>1. f.size \in 0 .. MaxSize /\ f.size > 0
    BY <1>0
  <2> QED BY <2>1, ChainNumbers
<1>2. Distinct(ch) /\ Linked(c, ch, n)
  BY DEF IsChain
<1> HIDE DEF n
<1>3. r \in Seq(Blocks) /\ Len(r) = n /\ r[n] = b /\ \A i \in 1 .. n : i # n => r[i] = ch[i]
  BY <1>1 DEF n
<1> HIDE DEF r
<1>4. Distinct(r)
  <2> SUFFICES ASSUME NEW i \in 1 .. n, NEW j \in 1 .. n, r[i] = r[j] PROVE i = j
    BY <1>3 DEF Distinct
  <2>1. \A h \in 1 .. n : h # n => r[h] # b
    BY <1>1, <1>3
  <2>2. CASE i = n \/ j = n
    BY <1>3, <2>1, <2>2
  <2>3. CASE i # n /\ j # n
    <3>1. ch[i] = ch[j]
      BY <1>3, <2>3
    <3> QED BY <1>2, <3>1 DEF Distinct, n
  <2> QED BY <2>2, <2>3
<1>5. ASSUME NEW i \in 1 .. n, NEW x \in 1 .. BlockSize, i = n => x <= EndOf(f.size)
      PROVE  d[r[i]][x] = c[ch[i]][x]
  <2>1. CASE i = n
    <3>1. x \in 1 .. EndOf(f.size)
      BY <1>1, <1>5, <2>1
    <3> QED BY <1>1, <1>3, <2>1, <3>1
  <2>2. CASE i # n
    BY <1>1, <1>3, <2>2
  <2> QED BY <2>1, <2>2
<1>6. Linked(d, r, n)
  <2> SUFFICES ASSUME NEW i \in 1 .. n, NEW k \in 0 .. NP(i - 1) - 1
               PROVE  d[r[i]][k + 1] = r[i - 2 ^ k]
    BY DEF Linked
  <2>1. c[ch[i]][k + 1] = ch[i - 2 ^ k]
    BY <1>2 DEF Linked
  <2>2. NP(i - 1) \in Nat /\ NP(i - 1) < BlockSize /\ i - 1 \in Nat /\ i - 1 < 2 ^ 28 /\ (i - 1) + 1 = i
    BY <1>1
  <2>3. k + 1 \in 1 .. BlockSize /\ k + 1 <= NP(i - 1)
    BY <1>0, <2>2
  <2>4. i = n => k + 1 <= EndOf(f.size)
    BY <1>1, <2>2, <2>3
  <2>5. i - 2 ^ k \in 1 .. i - 1
    BY <2>2, PointsBack
  <2>6. i - 2 ^ k \in 1 .. n /\ i - 2 ^ k # n
    <3> DEFINE q == i - 2 ^ k
    <3>1. q \in 1 .. i - 1
      BY <2>5
    <3> HIDE DEF q
    <3>2. q \in 1 .. n /\ q # n
      BY <1>1, <3>1
    <3> QED BY <3>2 DEF q
  <2> QED BY <1>3, <1>5, <2>1, <2>3, <2>4, <2>6
<1>7. Reads(d, r, 0, f.size, text)
  <2> SUFFICES ASSUME NEW o \in 0 .. f.size - 1
               PROVE  d[r[Idx(o) + 1]][Pos(o) + 1] = text[o + 1]
    BY DEF Reads
  <2>1. c[ch[Idx(o) + 1]][Pos(o) + 1] = text[o + 1]
    BY DEF Reads
  <2>4. Idx(o) + 1 \in 1 .. n /\ Pos(o) + 1 \in 1 .. BlockSize
        /\ (Idx(o) + 1 = n => Pos(o) + 1 <= EndOf(f.size))
    BY <1>1, ByteAt
  <2> QED BY <1>5, <2>1, <2>4
<1>8. /\ ToSet(r) \subseteq ToSet(ch) \cup {b} /\ ToSet(ch) \ {f.head} \subseteq ToSet(r)
      /\ b \in ToSet(r)
  <2>1. /\ \A i \in 1 .. n : r[i] \in ToSet(r)
        /\ \A x \in ToSet(r) : \E i \in 1 .. n : x = r[i]
        /\ \A x \in ToSet(ch) : \E i \in 1 .. n : x = ch[i]
    <3>1. \A i \in 1 .. n : r[i] \in ToSet(r)
      BY <1>3, ToSetIs
    <3>2. \A x \in ToSet(r) : \E i \in 1 .. n : x = r[i]
      BY <1>3, ToSetIs
    <3>3. \A x \in ToSet(ch) : \E i \in 1 .. n : x = ch[i]
      BY <1>1, ToSetIs DEF n
    <3> QED BY <3>1, <3>2, <3>3
  <2>2. ToSet(r) \subseteq ToSet(ch) \cup {b}
    <3> SUFFICES ASSUME NEW x \in ToSet(r), x # b PROVE x \in ToSet(ch)
      OBVIOUS
    <3>1. PICK i \in 1 .. n : x = r[i]
      BY <2>1
    <3>2. i # n
      BY <1>3, <3>1
    <3>3. ch[i] \in ToSet(ch) /\ r[i] = ch[i]
      BY <1>1, <1>3, <3>2
    <3> QED BY <3>1, <3>3
  <2>3. ToSet(ch) \ {f.head} \subseteq ToSet(r)
    <3> SUFFICES ASSUME NEW x \in ToSet(ch), x # f.head PROVE x \in ToSet(r)
      OBVIOUS
    <3>1. PICK i \in 1 .. n : x = ch[i]
      BY <2>1
    <3> QED BY <1>1, <1>3, <2>1, <3>1
  <2> QED BY <1>1, <1>3, <2>1, <2>2, <2>3
<1>9. IsChain(d, g, r)
  BY <1>1, <1>3, <1>4, <1>6 DEF IsChain
<1> QED BY <1>3, <1>7, <1>8, <1>9 DEF Copied, n, r

\* A chain and new blocks behind it.
LEMMA JoinedBlocks ==
    ASSUME NEW w \in Seq(Blocks), NEW new \in Seq(Blocks)
    PROVE  /\ w \o new \in Seq(Blocks) /\ Len(w \o new) = Len(w) + Len(new)
           /\ Len(w) \in Nat /\ Len(new) \in Nat
           /\ \A i \in 1 .. Len(w) : (w \o new)[i] = w[i] /\ w[i] \in ToSet(w)
           /\ \A i \in 1 .. Len(new) : (w \o new)[Len(w) + i] = new[i] /\ new[i] \in ToSet(new)
           /\ \A i \in 1 .. Len(w) + Len(new) : i > Len(w) =>
                 i - Len(w) \in 1 .. Len(new) /\ (w \o new)[i] = new[i - Len(w)]
           /\ ToSet(w \o new) = ToSet(w) \cup ToSet(new)
<1> DEFINE u == w \o new
<1>1. u \in Seq(Blocks) /\ Len(u) = Len(w) + Len(new) /\ Len(w) \in Nat /\ Len(new) \in Nat
  OBVIOUS
<1>2. /\ \A i \in 1 .. Len(w) : u[i] = w[i] /\ w[i] \in ToSet(w)
      /\ \A i \in 1 .. Len(new) : u[Len(w) + i] = new[i] /\ new[i] \in ToSet(new)
  BY ToSetIs
<1>3. \A i \in 1 .. Len(w) + Len(new) : i > Len(w) =>
                 i - Len(w) \in 1 .. Len(new) /\ u[i] = new[i - Len(w)]
  OBVIOUS
<1> HIDE DEF u
<1>4. ToSet(u) \subseteq ToSet(w) \cup ToSet(new)
  <2> SUFFICES ASSUME NEW b \in ToSet(u) PROVE b \in ToSet(w) \cup ToSet(new)
    OBVIOUS
  <2>1. PICK i \in 1 .. Len(u) : b = u[i]
    BY <1>1, ToSetIs
  <2>2. CASE i <= Len(w)
    <3>1. i \in 1 .. Len(w)
      BY <1>1, <2>2
    <3> QED BY <1>2, <2>1, <3>1
  <2>3. CASE i > Len(w)
    BY <1>1, <1>2, <1>3, <2>1, <2>3
  <2> QED BY <1>1, <2>2, <2>3
<1>5. ToSet(w) \cup ToSet(new) \subseteq ToSet(u)
  <2>1. ASSUME NEW b \in ToSet(w) PROVE b \in ToSet(u)
    <3>1. PICK i \in 1 .. Len(w) : b = w[i]
      BY ToSetIs
    <3>2. i \in 1 .. Len(u) /\ u[i] = b
      BY <1>1, <1>2, <3>1
    <3> QED BY <1>1, <3>2, ToSetIs
  <2>2. ASSUME NEW b \in ToSet(new) PROVE b \in ToSet(u)
    <3>1. PICK i \in 1 .. Len(new) : b = new[i]
      BY ToSetIs
    <3>2. Len(w) + i \in 1 .. Len(u) /\ u[Len(w) + i] = b
      BY <1>1, <1>2, <3>1
    <3> QED BY <1>1, <3>2, ToSetIs
  <2> QED BY <2>1, <2>2
<1> QED BY <1>1, <1>2, <1>3, <1>4, <1>5 DEF u

LEMMA JoinedDistinct ==
    ASSUME NEW w \in Seq(Blocks), NEW new \in Seq(Blocks), Distinct(w), Distinct(new),
           ToSet(new) \cap ToSet(w) = {}
    PROVE  Distinct(w \o new)
<1> DEFINE u == w \o new
           n == Len(w)
           m == Len(new)
<1>1. /\ Len(u) = n + m /\ n \in Nat /\ m \in Nat
      /\ \A i \in 1 .. n : u[i] = w[i] /\ w[i] \in ToSet(w)
      /\ \A i \in 1 .. n + m : i > n => i - n \in 1 .. m /\ u[i] = new[i - n]
      /\ \A i \in 1 .. m : new[i] \in ToSet(new)
  BY JoinedBlocks
<1> HIDE DEF u
<1> SUFFICES ASSUME NEW i \in 1 .. n + m, NEW j \in 1 .. n + m, u[i] = u[j] PROVE i = j
  BY <1>1 DEF Distinct, u
<1>2. \A x, y \in 1 .. n : w[x] = w[y] => x = y
  BY DEF Distinct
<1>3. \A x, y \in 1 .. m : new[x] = new[y] => x = y
  BY DEF Distinct
<1> HIDE DEF n, m
<1>4. CASE i <= n /\ j <= n
  <2>1. i \in 1 .. n /\ j \in 1 .. n
    BY <1>1, <1>4
  <2> QED BY <1>1, <1>2, <2>1
<1>5. CASE i > n /\ j > n
  <2>1. i - n \in 1 .. m /\ j - n \in 1 .. m /\ new[i - n] = new[j - n]
    BY <1>1, <1>5
  <2>2. i - n = j - n
    BY <1>3, <2>1
  <2> QED BY <1>1, <2>2
<1>6. CASE i <= n /\ j > n
  <2>1. i \in 1 .. n /\ j - n \in 1 .. m
    BY <1>1, <1>6
  <2>2. u[i] \in ToSet(w) /\ u[j] \in ToSet(new)
    BY <1>1, <1>6, <2>1
  <2> QED BY <2>2
<1>7. CASE i > n /\ j <= n
  <2>1. j \in 1 .. n /\ i - n \in 1 .. m
    BY <1>1, <1>7
  <2>2. u[j] \in ToSet(w) /\ u[i] \in ToSet(new)
    BY <1>1, <1>7, <2>1
  <2> QED BY <2>2
<1> QED BY <1>1, <1>4, <1>5, <1>6, <1>7

\* Chain w of f, the data in the room of its last block and in new blocks behind it:
\* the chain of the file g.
LEMMA Assembled ==
    ASSUME NEW c, NEW f, f.size \in 0 .. MaxSize, NEW w, IsChain(c, f, w),
           NEW g, g.size \in 1 .. MaxSize, f.size < g.size,
           NEW fill \in 0 .. Room(f.size), fill = Room(f.size) \/ f.size + fill = g.size,
           NEW new \in Seq(Blocks), Len(new) = BlockCount(g.size) - BlockCount(f.size),
           Distinct(new), ToSet(new) \cap ToSet(w) = {}, NEW want,
           Reads(c, w, 0, f.size, want), Reads(c, w, f.size, f.size + fill, want),
           Linked(c, w \o new, BlockCount(g.size)),
           \A o \in f.size + fill .. g.size - 1 :
              c[(w \o new)[Idx(o) + 1]][Pos(o) + 1] = want[o + 1],
           g.head = IF new # <<>> THEN new[Len(new)] ELSE f.head
    PROVE  IsChain(c, g, w \o new) /\ Reads(c, w \o new, 0, g.size, want)
<1> DEFINE u == w \o new
           n == BlockCount(f.size)
           m == BlockCount(g.size)
<1>0. MaxSize \in Nat /\ BlockSize \in Nat /\ f.size \in Nat /\ g.size \in Nat /\ g.size \in 0 .. MaxSize
  BY FileAssumption
<1>1. /\ w \in Seq(Blocks) /\ Len(w) = n /\ n \in Nat /\ Distinct(w)
      /\ f.size > 0 => f.head = w[n] /\ n \in 1 .. n
      /\ (n = 0) <=> (f.size = 0)
  BY ChainNumbers DEF IsChain
<1>2. m \in Nat /\ m >= 1 /\ Room(f.size) \in Nat
  <2>1. m \in 1 .. g.size
    BY Ends
  <2>2. Room(f.size) \in 0 .. BlockSize
    BY RoomIs
  <2> QED BY <1>0, <2>1, <2>2
<1>3. /\ u \in Seq(Blocks) /\ Len(u) = m
      /\ \A i \in 1 .. n : u[i] = w[i]
      /\ \A i \in 1 .. Len(new) : u[n + i] = new[i]
  <2>1. /\ u \in Seq(Blocks) /\ Len(u) = Len(w) + Len(new)
        /\ \A i \in 1 .. Len(w) : u[i] = w[i]
        /\ \A i \in 1 .. Len(new) : u[Len(w) + i] = new[i]
    <3>1. w \in Seq(Blocks) /\ new \in Seq(Blocks)
      BY <1>1
    <3> QED BY ONLY <3>1, JoinedBlocks
  <2> HIDE DEF n, m, u
  <2> QED BY <1>1, <1>2, <2>1 DEF n, m
<1>4. Distinct(u)
  BY <1>1, JoinedDistinct
<1>5. Len(new) \in Nat /\ Len(new) = m - n /\ (new = <<>> <=> Len(new) = 0)
  OBVIOUS
<1>6. g.head = u[Len(u)]
  <2> HIDE DEF u, n, m
  <2>1. CASE new # <<>>
    <3>1. Len(new) \in 1 .. Len(new) /\ n + Len(new) = m
      BY <1>1, <1>2, <1>5, <2>1
    <3> QED BY <1>3, <2>1, <3>1
  <2>2. CASE new = <<>>
    <3>1. n = m
      BY <1>1, <1>2, <1>5, <2>2
    <3>2. f.size > 0 /\ n \in 1 .. n
      BY <1>0, <1>1, <1>2, <3>1
    <3> QED BY <1>1, <1>3, <2>2, <3>1, <3>2
  <2> QED BY <2>1, <2>2
<1>7. IsChain(c, g, u)
  BY <1>3, <1>4, <1>6 DEF IsChain
<1>8. Reads(c, u, 0, g.size, want)
  <2> SUFFICES ASSUME NEW o \in 0 .. g.size - 1
               PROVE  c[u[Idx(o) + 1]][Pos(o) + 1] = want[o + 1]
    BY DEF Reads
  <2> HIDE DEF u
  <2>1. CASE o < f.size
    <3>1. o \in 0 .. f.size - 1 /\ f.size \in 1 .. MaxSize
      BY <1>0, <2>1
    <3>2. Idx(o) + 1 \in 1 .. n
      BY <3>1, ByteAt
    <3>3. c[w[Idx(o) + 1]][Pos(o) + 1] = want[o + 1]
      BY <3>1 DEF Reads
    <3> QED BY <1>3, <3>2, <3>3
  <2>2. CASE o >= f.size /\ o < f.size + fill
    <3>1. o \in f.size .. (f.size + fill) - 1 /\ o \in f.size .. g.size - 1 /\ o - f.size < Room(f.size)
      BY <1>0, <1>2, <2>2
    <3>2. Idx(o) = n - 1
      BY <1>0, <3>1, Grows
    <3>3. f.size # 0
      BY <1>0, <1>2, <2>2, <3>1 DEF Room
    <3>4. Idx(o) + 1 \in 1 .. n
      BY <1>0, <1>1, <3>2, <3>3
    <3>5. c[w[Idx(o) + 1]][Pos(o) + 1] = want[o + 1]
      BY <3>1 DEF Reads
    <3> QED BY <1>3, <3>4, <3>5
  <2>3. CASE o >= f.size + fill
    <3>1. o \in f.size + fill .. g.size - 1
      BY <1>0, <1>2, <2>3
    <3> QED BY <3>1 DEF u
  <2> QED BY <1>0, <1>2, <2>1, <2>2, <2>3
<1> QED BY <1>7, <1>8


----------------------------------------------------------------------------
(* The inductive invariant.                                                *)

Running == pc \notin {"idle", "commit"}

\* The lengths and the offsets of a call that extends the file.
ExtendOK ==
    /\ job.data # <<>> /\ job.size = job.f.size + Len(job.data)
    /\ job.src = job.f.head
    /\ job.off = IF job.f.size = 0 THEN BlockSize ELSE EndOf(job.f.size)
    /\ job.fill = IF Len(job.data) < Room(job.f.size) THEN Len(job.data) ELSE Room(job.f.size)
    /\ IF job.f.size = 0 THEN job.tail = None ELSE job.tail \in Blocks
    /\ job.tail # job.src => job.fill > 0
    /\ pc = "cow" => job.fill > 0
    /\ pc \in {"cow", "fill"} => job.fill > 0 /\ job.tail = job.src
    /\ pc \in {"cow", "grow"} => job.new = <<>> /\ job.done = 0
    /\ pc \in {"grow", "write"} => job.fill < Len(job.data)
    /\ pc \in {"write", "fill", "sync"} =>
          Len(job.new) = BlockCount(job.size) - BlockCount(job.f.size)
    /\ pc = "write" => job.done < Len(job.new)
    /\ pc \in {"fill", "sync"} => job.done = Len(job.new)

\* Those of a call that cuts it.
ShrinkOK ==
    /\ pc \in {"cow", "sync"}
    /\ job.data = <<>> /\ job.fill = 0 /\ job.new = <<>>
    /\ job.size < job.f.size /\ job.off = EndOf(job.size)
    /\ job.src \in Blocks /\ job.tail \in Blocks

RunOK ==
    /\ (job.f.size = 0) <=> (job.f.head = None)
    /\ (job.call = "append") <=> (handle = None)
    /\ handle # None => job.f = Staged
    /\ job.size > 0 /\ job.size + job.more <= MaxSize
    /\ job.call # "zero" => job.more = 0
    /\ Len(job.want) = job.size
    /\ IF job.call = "shrink" THEN ShrinkOK ELSE ExtendOK

CommitOK ==
    /\ (job.f.size = 0) <=> (job.f.head = None)
    /\ (job.call = "append") <=> (handle = None)
    /\ handle # None => job.f = Staged /\ job.want = staged
    /\ Len(job.want) = job.f.size

Lengths ==
    /\ Len(durable) = entry.size
    /\ handle # None => Len(staged) = handle.size

\* The chain a call leaves behind.
Result == [head |-> IF job.new # <<>> THEN job.new[Len(job.new)] ELSE job.tail,
           size |-> job.size]

\* What holds of the locals of every call, whatever the device holds.
JobOK ==
    /\ TypeOK /\ Lengths
    /\ Running => RunOK
    /\ pc = "commit" => CommitOK

----------------------------------------------------------------------------
(* The types.                                                              *)

LEMMA Constants ==
    /\ BlockSize \in Nat /\ BlockSize > 4 /\ NumBlocks \in Nat /\ NumBlocks >= 2
    /\ MaxSize \in Nat /\ MaxOps \in Nat /\ MaxCrashes \in Nat /\ MaxFaults \in Nat
    /\ MaxTries \in Nat /\ ZeroChunk \in Nat /\ ZeroChunk > 0
    /\ FF \in Cell /\ Bad \in Cell /\ Zero \in Cell /\ Blocks \subseteq Cell /\ Cell \subseteq Int
    /\ 0 \in Blocks /\ 1 \in Blocks
  BY FileAssumption DEF FF, Bad, Zero, Byte, Blocks, Cell

LEMMA RowIsText ==
    ASSUME NEW row \in [1 .. BlockSize -> Cell], NEW off \in 0 .. BlockSize
    PROVE  /\ SubSeq(row, 1, off) \in Text /\ Len(SubSeq(row, 1, off)) = off
           /\ \A i \in 1 .. off : SubSeq(row, 1, off)[i] = row[i]
<1>1. row \in Seq(Cell) /\ Len(row) = BlockSize
  BY Constants
<1> QED BY <1>1, Constants DEF Text

\* A block that is written holds nothing but what it held or was given, erased
\* cells and torn ones.
LEMMA ImageIn ==
    ASSUME NEW S, FF \in S, NEW ptrs \in Seq(S), NEW data \in Seq(S)
    PROVE  Image(ptrs, data) \in [1 .. BlockSize -> S]
<1> SUFFICES ASSUME NEW x \in 1 .. BlockSize
             PROVE  (IF x <= Len(ptrs) THEN ptrs[x]
                     ELSE IF x <= Len(ptrs) + Len(data) THEN data[x - Len(ptrs)] ELSE FF) \in S
  BY DEF Image
<1>1. CASE x <= Len(ptrs)
  BY <1>1
<1>2. CASE x > Len(ptrs) /\ x <= Len(ptrs) + Len(data)
  <2>1. x - Len(ptrs) \in 1 .. Len(data)
    BY <1>2
  <2> QED BY <1>2, <2>1
<1>3. CASE x > Len(ptrs) /\ x > Len(ptrs) + Len(data)
  BY <1>3, Constants
<1> QED BY <1>1, <1>2, <1>3

LEMMA FilledIn ==
    ASSUME NEW S, Bad \in S, NEW b \in Blocks, cells \in [Blocks -> [1 .. BlockSize -> S]],
           NEW off \in Nat, NEW data \in Seq(S)
    PROVE  Filled(b, off, data) \in [1 .. BlockSize -> S]
<1> SUFFICES ASSUME NEW x \in 1 .. BlockSize
             PROVE  (IF x \in off + 1 .. off + Len(data) THEN Prog(cells[b][x], data[x - off])
                     ELSE cells[b][x]) \in S
  BY DEF Filled
<1>1. cells[b][x] \in S
  OBVIOUS
<1>2. CASE x \in off + 1 .. off + Len(data)
  <2>1. x - off \in 1 .. Len(data)
    BY <1>2
  <2>2. data[x - off] \in S
    BY <2>1
  <2> QED BY <1>1, <1>2, <2>2 DEF Prog
<1>3. CASE x \notin off + 1 .. off + Len(data)
  BY <1>1, <1>3
<1> QED BY <1>2, <1>3

LEMMA ImageType ==
    ASSUME NEW ptrs \in Seq(Cell), NEW data \in Seq(Cell)
    PROVE  Image(ptrs, data) \in [1 .. BlockSize -> Cell]
  BY ImageIn, Constants

LEMMA FilledType ==
    ASSUME NEW b \in Blocks, cells \in [Blocks -> [1 .. BlockSize -> Cell]],
           NEW off \in Nat, NEW data \in Seq(Cell)
    PROVE  Filled(b, off, data) \in [1 .. BlockSize -> Cell]
  BY FilledIn, Constants

\* A read returns what the blocks hold, or fails.
LEMMA ContentIn ==
    ASSUME NEW S, Bad \in S, NEW c \in [Blocks -> [1 .. BlockSize -> S]],
           NEW f, f.size \in 0 .. MaxSize
    PROVE  Content(c, f) \in Seq(S)
<1> DEFINE at(o) == LET p == block_index_at_offset(o - 1, BlockSize)
                        b == Seek(c, f.head, BlockCount(f.size) - 1, p[1])
                    IN  IF b \in Blocks THEN c[b][p[2] + 1] ELSE Bad
<1>1. ASSUME NEW o \in 1 .. f.size
      PROVE  at(o) \in S
  <2>1. o - 1 \in 0 .. MaxSize - 1
    BY Constants
  <2>2. Pos(o - 1) \in Nat /\ Pos(o - 1) < BlockSize
    BY <2>1, Place
  <2>3. Pos(o - 1) + 1 \in 1 .. BlockSize
    BY <2>2, Constants
  <2>4. \A b \in Blocks : c[b][Pos(o - 1) + 1] \in S
    BY <2>3
  <2> QED BY <2>4 DEF Pos
<1>2. Content(c, f) = [o \in 1 .. f.size |-> at(o)]
  BY DEF Content
<1> HIDE DEF at
<1>3. Content(c, f) \in [1 .. f.size -> S] /\ f.size \in Nat
  BY <1>1, <1>2, Constants
<1> QED BY <1>3

LEMMA ScrapType == Scrap \in [1 .. BlockSize -> Cell]
  BY Constants DEF Scrap

LEMMA PairType ==
    ASSUME TypeOK
    PROVE  PairBlocks \subseteq Blocks
  BY DEF TypeOK, PairBlocks

\* What the start of an extend leaves in the locals of the call.
LEMMA PlanOK ==
    ASSUME TypeOK, NEW call \in {"write", "zero", "append"}, NEW f \in Files,
           (f.size = 0) <=> (f.head = None), NEW data \in Text, data # <<>>, NEW more \in Nat,
           NEW want \in Text, f.size + Len(data) + more <= MaxSize,
           call # "zero" => more = 0, Plan(call, f, data, more, want)
    PROVE  /\ job' \in Writes /\ job' # None
           /\ pc' \in {"cow", "grow", "fill"}
           /\ job'.call = call /\ job'.f = f /\ job'.data = data /\ job'.want = want
           /\ job'.size > 0 /\ job'.size + job'.more <= MaxSize /\ (call # "zero" => job'.more = 0)
           /\ job'.tail = job'.src /\ job'.new = <<>> /\ job'.ex = {}
           /\ pc' = "cow" <=> job'.fill > 0 /\ ~Clean(f.head, job'.off, job'.fill)
           /\ ExtendOK'
<1> DEFINE n     == BlockCount(f.size)
           off   == IF n = 0 THEN BlockSize ELSE EndOf(f.size)
           fill  == IF Len(data) < BlockSize - off THEN Len(data) ELSE BlockSize - off
           j == [call |-> call, f |-> f, data |-> data, more |-> more, want |-> want,
                   src |-> f.head, off |-> off, fill |-> fill, tail |-> f.head,
                   new |-> <<>>, done |-> 0, own |-> {}, ex |-> {},
                   size |-> f.size + Len(data)]
<1>1. job' = j /\ pc' = IF fill > 0 /\ ~Clean(f.head, off, fill) THEN "cow"
                        ELSE IF fill < Len(data) THEN "grow" ELSE "fill"
  BY DEF Plan
<1>2. f.size \in 0 .. MaxSize /\ f.head \in Blocks \cup {None}
  BY DEF Files
<1>3. n \in Nat /\ ((n = 0) <=> (f.size = 0)) /\ Room(f.size) \in 0 .. BlockSize
  BY <1>2, RoomIs
<1>4. Len(data) \in Nat /\ Len(data) > 0
  BY DEF Text
<1>5. /\ off = IF f.size = 0 THEN BlockSize ELSE EndOf(f.size)
      /\ off \in 0 .. BlockSize /\ BlockSize - off = Room(f.size)
  <2>1. CASE f.size = 0
    BY <1>3, <2>1, Constants DEF Room
  <2>2. CASE f.size # 0
    <3>0. f.size \in 1 .. MaxSize
      BY <1>2, <2>2, Constants
    <3>1. EndOf(f.size) \in 1 .. BlockSize
      BY <3>0, Ends
    <3> QED BY <1>3, <2>2, <3>1, Constants DEF Room
  <2> QED BY <2>1, <2>2
<1> HIDE DEF off, n
<1>6. /\ fill = IF Len(data) < Room(f.size) THEN Len(data) ELSE Room(f.size)
      /\ fill \in 0 .. BlockSize /\ fill <= Len(data)
  BY <1>3, <1>4, <1>5, Constants
<1> HIDE DEF fill
<1>7. f.size + Len(data) \in 1 .. MaxSize /\ f.size + Len(data) + more <= MaxSize
  BY <1>2, <1>4, Constants
<1>8. j \in Writes
  <2>1. <<>> \in Seq(Blocks) /\ {} \in SUBSET Blocks /\ 0 \in Nat
    OBVIOUS
  <2>2. f.size + Len(data) \in 0 .. MaxSize
    BY <1>7, Constants
  <2> QED BY <1>2, <1>5, <1>6, <2>1, <2>2 DEF Writes
<1>9. j # None
  BY <1>8, NoneAssumption
<1> DEFINE p == IF fill > 0 /\ ~Clean(f.head, off, fill) THEN "cow"
                ELSE IF fill < Len(data) THEN "grow" ELSE "fill"
<1>10. /\ p \in {"cow", "grow", "fill"}
       /\ p = "cow" <=> (fill > 0 /\ ~Clean(f.head, off, fill))
       /\ p = "grow" => fill < Len(data)
       /\ p = "fill" => fill > 0 /\ fill = Len(data)
  BY <1>4, <1>6, Constants
<1>11. p = "fill" => BlockCount(f.size + Len(data)) - BlockCount(f.size) = 0
  <2> SUFFICES ASSUME p = "fill" PROVE BlockCount(f.size + Len(data)) = BlockCount(f.size)
    BY <1>3 DEF n
  <2>1. Len(data) <= Room(f.size)
    BY <1>3, <1>4, <1>6, <1>10
  <2>2. f.size \in 0 .. MaxSize /\ f.size + Len(data) \in 0 .. MaxSize
        /\ f.size < f.size + Len(data) /\ (f.size + Len(data)) - f.size = Len(data)
    BY <1>2, <1>4, <1>7, Constants
  <2> QED BY <2>1, <2>2, Grows
<1> HIDE DEF p
<1>12. pc' = p /\ job' = j
  BY <1>1 DEF p
<1>13. /\ j.call = call /\ j.f = f /\ j.data = data /\ j.want = want /\ j.src = f.head
       /\ j.off = off /\ j.fill = fill /\ j.tail = f.head /\ j.new = <<>> /\ j.done = 0
       /\ j.ex = {} /\ j.size = f.size + Len(data) /\ j.more = more
  OBVIOUS
<1> HIDE DEF j
<1>14. ExtendOK'
  <2>1. job'.data # <<>> /\ job'.size = job'.f.size + Len(job'.data) /\ job'.src = job'.f.head
    BY <1>12, <1>13
  <2>2. /\ job'.off = IF job'.f.size = 0 THEN BlockSize ELSE EndOf(job'.f.size)
        /\ job'.fill = IF Len(job'.data) < Room(job'.f.size) THEN Len(job'.data) ELSE Room(job'.f.size)
    BY <1>5, <1>6, <1>12, <1>13
  <2>3. /\ (IF job'.f.size = 0 THEN job'.tail = None ELSE job'.tail \in Blocks)
        /\ job'.tail = job'.src
    BY <1>2, <1>12, <1>13
  <2>4. /\ pc' \in {"cow", "fill"} => job'.fill > 0
        /\ pc' = "grow" => job'.fill < Len(job'.data) /\ pc' # "write" /\ pc' # "sync"
    BY <1>4, <1>6, <1>10, <1>12, <1>13
  <2>5. pc' = "fill" => Len(job'.new) = BlockCount(job'.size) - BlockCount(job'.f.size)
    BY <1>11, <1>12, <1>13
  <2>6. job'.new = <<>> /\ job'.done = 0 /\ Len(job'.new) = 0 /\ pc' \in {"cow", "grow", "fill"}
    BY <1>10, <1>12, <1>13
  <2> QED BY <2>1, <2>2, <2>3, <2>4, <2>5, <2>6 DEF ExtendOK
<1>15. job'.size > 0 /\ job'.size + job'.more <= MaxSize /\ (call # "zero" => job'.more = 0)
  BY <1>7, <1>12, <1>13
<1>16. pc' = "cow" <=> job'.fill > 0 /\ ~Clean(f.head, job'.off, job'.fill)
  BY <1>10, <1>12, <1>13
<1> QED BY <1>8, <1>9, <1>10, <1>12, <1>13, <1>14, <1>15, <1>16

\* TypeOK in two parts: the call that runs, and the rest.
JobTypes ==
    /\ pc \in {"idle", "cow", "grow", "write", "fill", "sync", "commit"}
    /\ (pc = "idle") <=> (job = None)
    /\ pc = "commit" => job \in Commits
    /\ pc \notin {"idle", "commit"} => job \in Writes

RestOK ==
    /\ cells \in [Blocks -> [1 .. BlockSize -> Cell]]
    /\ pair \in Blocks \X Blocks /\ pair[1] # pair[2] /\ rev \in 0 .. Cycle - 1
    /\ entry \in Files /\ ((entry.size = 0) <=> (entry.head = None))
    /\ log \in (SUBSET Files) \X (SUBSET Files)
    /\ \A f \in log[1] \cup log[2] : f.size > 0 /\ f.head # None
    /\ handle \in Handles \cup {None}
    /\ handle # None => ((handle.size = 0) <=> (handle.head = None))
    /\ cache = None \/ cache \subseteq Blocks
    /\ res \in {"ok", "io", "full", "corrupt", "synced"}
    /\ durable \in Text /\ staged \in Text
    /\ ops \in 0 .. MaxOps /\ crashes \in 0 .. MaxCrashes /\ faults \in 0 .. MaxFaults

LEMMA TypeParts == TypeOK <=> RestOK /\ JobTypes
  BY DEF TypeOK, RestOK, JobTypes

LEMMA TypePartsNext == TypeOK' <=> RestOK' /\ JobTypes'
  BY DEF TypeOK, RestOK, JobTypes

LEMMA Idle ==
    ASSUME RestOK', Lengths', pc' = "idle", job' = None
    PROVE  JobOK'
<1>1. JobTypes' /\ ~Running' /\ pc' # "commit"
  BY DEF JobTypes, Running
<1> QED BY <1>1, TypePartsNext DEF JobOK

LEMMA Planned ==
    ASSUME JobOK, NEW call \in {"write", "zero", "append"}, NEW f \in Files,
           (f.size = 0) <=> (f.head = None), NEW data \in Text, data # <<>>, NEW more \in Nat,
           NEW want \in Text, f.size + Len(data) + more <= MaxSize,
           call # "zero" => more = 0, Plan(call, f, data, more, want),
           Len(want) = f.size + Len(data), RestOK', Lengths',
           (call = "append") <=> (handle' = None), handle' # None => f = Staged'
    PROVE  JobOK'
<1> USE DEF JobOK
<1>1. /\ job' \in Writes /\ job' # None
      /\ pc' \in {"cow", "grow", "fill"}
      /\ job'.call = call /\ job'.f = f /\ job'.data = data /\ job'.want = want
      /\ job'.size > 0 /\ job'.size + job'.more <= MaxSize /\ (call # "zero" => job'.more = 0)
      /\ ExtendOK'
  BY PlanOK
<1>2. JobTypes' /\ pc' # "commit"
  BY <1>1 DEF JobTypes
<1>3. RunOK'
  <2>1. Len(job'.want) = job'.size
    BY <1>1 DEF ExtendOK
  <2> QED BY <1>1, <2>1 DEF RunOK
<1> QED BY <1>2, <1>3, TypePartsNext

LEMMA DataText ==
    ASSUME TypeOK, ops < MaxOps, NEW len \in Lens, NEW data \in Data(len)
    PROVE  data \in Text /\ Len(data) = len /\ data # <<>> /\ len \in Nat
<1>1. len \in Nat /\ len > 0
  BY FileAssumption
<1>2. Byte(ops + 1) \in Cell
  BY Constants DEF TypeOK, Cell, Byte, Bad
<1>3. \A v \in Cell : Constant(len, v) \in Seq(Cell) /\ Len(Constant(len, v)) = len
  BY <1>1 DEF Constant
<1>4. PICK v \in Cell : data = Constant(len, v)
  BY <1>2, Constants DEF Data
<1> QED BY <1>1, <1>3, <1>4 DEF Text

LEMMA StagedType ==
    ASSUME TypeOK, handle # None
    PROVE  /\ Staged \in Files /\ ((Staged.size = 0) <=> (Staged.head = None))
           /\ Staged.size = handle.size /\ Staged.head = handle.head
           /\ handle \in Handles /\ handle.size \in 0 .. MaxSize
<1>1. handle \in Handles
  BY DEF TypeOK
<1> QED BY <1>1 DEF TypeOK, Staged, Handles, Files

LEMMA InitTypes == Init => JobOK
<1> SUFFICES ASSUME Init PROVE JobOK
  OBVIOUS
<1>1. cells \in [Blocks -> [1 .. BlockSize -> Cell]]
  BY ScrapType DEF Init
<1>2. Empty \in Files /\ Empty.size = 0 /\ Empty.head = None
  BY Constants DEF Empty, Files
<1>3. pair \in Blocks \X Blocks /\ pair[1] # pair[2]
  BY Constants DEF Init
<1>4. RestOK
  BY <1>1, <1>2, <1>3, Constants DEF Init, RestOK, Text
<1>5. JobTypes /\ ~Running /\ pc # "commit"
  BY DEF Init, JobTypes, Running
<1>6. Lengths
  BY <1>2 DEF Init, Lengths
<1> QED BY <1>4, <1>5, <1>6, TypeParts DEF JobOK

LEMMA Begins ==
    ASSUME TypeOK, NEW call, Begin(call)
    PROVE  ops' \in 0 .. MaxOps /\ ops < MaxOps /\ pc = "idle" /\ res' = "ok" /\ call \in Calls
  BY Constants DEF Begin, TypeOK

LEMMA OpenTypes ==
    ASSUME JobOK, NEW truncate \in BOOLEAN, Open(truncate)
    PROVE  JobOK'
<1> USE DEF JobOK
<1>1. RestOK /\ JobTypes
  BY TypeParts
<1>2. handle' \in Handles /\ ((handle'.size = 0) <=> (handle'.head = None))
  BY <1>1, PairType, Constants DEF Open, RestOK, Handles, Files
<1>3. staged' \in Text
  <2>1. <<>> \in Text
    BY DEF Text
  <2> QED BY <1>1, <2>1 DEF Open, RestOK
<1>4. RestOK'
  BY <1>1, <1>2, <1>3, Begins DEF Open, Begin, RestOK
<1>5. Lengths'
  BY DEF Open, Lengths
<1> QED BY <1>1, <1>4, <1>5, Idle DEF Open, Begin, JobTypes

LEMMA WriteTypes ==
    ASSUME JobOK, NEW len \in Lens, NEW data \in Data(len),
           handle # None => handle.size + len <= MaxSize,
           handle = None => entry.size + len <= MaxSize,
           Write(data) \/ AppendPath(data) \/ Rewrite(data)
    PROVE  JobOK'
<1>0. TypeOK /\ RestOK
  BY TypeParts DEF JobOK
<1>1. ops < MaxOps /\ ops' \in 0 .. MaxOps /\ res' = "ok"
  BY <1>0, Begins DEF Write, AppendPath, Rewrite
<1>2. data \in Text /\ Len(data) = len /\ data # <<>> /\ len \in Nat
  BY <1>0, <1>1, DataText
<1>3. RestOK'
  BY <1>0, <1>1 DEF RestOK, Write, AppendPath, Rewrite
<1>4. /\ staged \o data \in Text /\ Len(staged \o data) = Len(staged) + Len(data)
      /\ durable \o data \in Text /\ Len(durable \o data) = Len(durable) + Len(data)
  BY <1>0, <1>2 DEF RestOK, Text
<1>8. Lengths /\ Lengths'
  BY DEF JobOK, Lengths, Write, AppendPath, Rewrite
<1>5. CASE Write(data)
  <2>1. /\ handle # None /\ handle' = handle
        /\ Plan("write", Staged, data, 0, staged \o data)
    BY <1>5 DEF Write
  <2>2. /\ Staged \in Files /\ ((Staged.size = 0) <=> (Staged.head = None))
        /\ Staged.size + Len(data) + 0 <= MaxSize /\ Staged' = Staged
        /\ Staged.size = Len(staged)
    BY <1>0, <1>2, <1>8, <2>1, StagedType, Constants DEF Staged, Lengths
  <2> QED BY <1>2, <1>3, <1>4, <1>8, <2>1, <2>2, Planned
<1>6. CASE AppendPath(data)
  <2>1. /\ handle = None /\ handle' = handle
        /\ Plan("append", entry, data, 0, durable \o data)
    BY <1>6 DEF AppendPath
  <2>2. /\ entry \in Files /\ ((entry.size = 0) <=> (entry.head = None)) /\ entry.size \in 0 .. MaxSize
        /\ entry.size + Len(data) + 0 <= MaxSize /\ entry.size = Len(durable)
    BY <1>0, <1>2, <1>8, <2>1, Constants DEF RestOK, Files, Lengths
  <2> QED BY <1>2, <1>3, <1>4, <1>8, <2>1, <2>2, Planned
<1>7. CASE Rewrite(data)
  <2>1. /\ handle = None /\ handle' = handle
        /\ Plan("append", Empty, data, 0, data)
    BY <1>7 DEF Rewrite
  <2>2. len <= MaxSize
    <3>1. entry.size \in Nat /\ entry.size + len <= MaxSize
      BY <1>0, <2>1, Constants DEF RestOK, Files
    <3> QED BY <1>2, <3>1, Constants
  <2>3. /\ Empty \in Files /\ ((Empty.size = 0) <=> (Empty.head = None))
        /\ Empty.size + Len(data) + 0 <= MaxSize /\ Len(data) = Empty.size + Len(data)
    BY <1>2, <2>2, Constants DEF Files, Empty
  <2> QED BY <1>2, <1>3, <1>8, <2>1, <2>3, Planned
<1> QED BY <1>5, <1>6, <1>7

\* One chunk of zeros.
LEMMA Zeros ==
    ASSUME NEW count \in Nat, count > 0
    PROVE  LET chunk == IF count < ZeroChunk THEN count ELSE ZeroChunk
               zeros == Constant(chunk, Zero)
           IN  /\ chunk \in 1 .. count /\ count - chunk \in Nat
               /\ zeros \in Text /\ Len(zeros) = chunk /\ zeros # <<>>
<1> DEFINE chunk == IF count < ZeroChunk THEN count ELSE ZeroChunk
<1>1. chunk \in 1 .. count /\ count - chunk \in Nat /\ chunk \in Nat
  BY Constants
<1> HIDE DEF chunk
<1>2. Constant(chunk, Zero) \in Seq(Cell) /\ Len(Constant(chunk, Zero)) = chunk
  BY <1>1, Constants DEF Constant
<1>3. Constant(chunk, Zero) # <<>>
  BY <1>1, <1>2
<1> QED BY <1>1, <1>2, <1>3 DEF chunk, Text

LEMMA ZeroPlanned ==
    ASSUME JobOK, NEW f \in Files, (f.size = 0) <=> (f.head = None),
           NEW count \in Nat, count > 0, f.size + count <= MaxSize, NEW want \in Text,
           Len(want) = f.size,
           ZeroFill(f, count, want), RestOK', Lengths', handle' # None, f = Staged'
    PROVE  JobOK'
<1> DEFINE chunk == IF count < ZeroChunk THEN count ELSE ZeroChunk
           zeros == Constant(chunk, Zero)
<1>1. Plan("zero", f, zeros, count - chunk, want \o zeros)
  BY DEF ZeroFill
<1>2. /\ chunk \in 1 .. count /\ count - chunk \in Nat
      /\ zeros \in Text /\ Len(zeros) = chunk /\ zeros # <<>>
  BY Zeros
<1> HIDE DEF chunk, zeros
<1>3. want \o zeros \in Text /\ Len(want \o zeros) = f.size + Len(zeros)
  BY <1>2 DEF Text
<1>4. f.size + Len(zeros) + (count - chunk) <= MaxSize
  BY <1>2, Constants DEF Files
<1> QED BY <1>1, <1>2, <1>3, <1>4, Planned

LEMMA GrowTypes ==
    ASSUME JobOK, NEW size \in Sizes, Grow(size)
    PROVE  JobOK'
<1>0. TypeOK /\ RestOK
  BY TypeParts DEF JobOK
<1>1. ops' \in 0 .. MaxOps /\ res' = "ok"
  BY <1>0, Begins DEF Grow
<1>2. RestOK'
  BY <1>0, <1>1 DEF RestOK, Grow
<1>3. /\ handle # None /\ handle' = handle /\ size > handle.size
      /\ ZeroFill(Staged, size - handle.size, staged) /\ Staged' = Staged
  BY DEF Grow, Staged
<1>4. size \in 1 .. MaxSize
  BY FileAssumption
<1>5. /\ Staged \in Files /\ ((Staged.size = 0) <=> (Staged.head = None))
      /\ size - handle.size \in Nat /\ size - handle.size > 0
      /\ Staged.size + (size - handle.size) <= MaxSize
  BY <1>0, <1>3, <1>4, StagedType, Constants
<1>6. staged \in Text /\ Len(staged) = Staged.size /\ Lengths'
  BY <1>0, <1>3 DEF RestOK, JobOK, Lengths, Grow, Staged
<1> QED BY <1>2, <1>3, <1>5, <1>6, ZeroPlanned

LEMMA TruncatePathTypes ==
    ASSUME JobOK, NEW size \in Sizes, TruncatePath(size)
    PROVE  JobOK'
<1>0. TypeOK /\ RestOK
  BY TypeParts DEF JobOK
<1>1. ops' \in 0 .. MaxOps /\ res' = "ok"
  BY <1>0, Begins DEF TruncatePath
<1>2. RestOK'
  BY <1>0, <1>1 DEF RestOK, TruncatePath
<1> DEFINE now  == Content(cells, entry)
           data == [i \in 1 .. size |-> IF i <= Len(now) THEN now[i] ELSE Zero]
           want == [i \in 1 .. size |-> IF i <= Len(durable) THEN durable[i] ELSE Zero]
<1>3. handle = None /\ handle' = handle /\ Plan("append", Empty, data, 0, want)
  BY DEF TruncatePath
<1>4. size \in 1 .. MaxSize /\ size \in Nat
  BY FileAssumption
<1>5. want \in Text /\ Len(want) = size
  <2>1. durable \in Seq(Cell)
    BY <1>0 DEF RestOK, Text
  <2>2. \A i \in 1 .. size : (IF i <= Len(durable) THEN durable[i] ELSE Zero) \in Cell
    BY <2>1, Constants
  <2>3. want \in [1 .. size -> Cell]
    BY <2>2
  <2> QED BY <1>4, <2>3 DEF Text
<1>6. now \in Seq(Cell)
  <2>1. entry.size \in 0 .. MaxSize /\ cells \in [Blocks -> [1 .. BlockSize -> Cell]]
    BY <1>0 DEF RestOK, Files
  <2> QED BY <2>1, Constants, ContentIn
<1> HIDE DEF now
<1>7. data \in Text /\ Len(data) = size /\ data # <<>>
  <2>1. \A i \in 1 .. size : (IF i <= Len(now) THEN now[i] ELSE Zero) \in Cell
    BY <1>6, Constants
  <2>2. data \in [1 .. size -> Cell]
    BY <2>1
  <2> QED BY <1>4, <2>2 DEF Text
<1> HIDE DEF data, want
<1>8. /\ Empty \in Files /\ ((Empty.size = 0) <=> (Empty.head = None))
      /\ Empty.size + Len(data) + 0 <= MaxSize /\ Len(want) = Empty.size + Len(data)
  BY <1>4, <1>5, <1>7, Constants DEF Files, Empty
<1>9. Lengths'
  BY DEF JobOK, Lengths, TruncatePath
<1> QED BY <1>2, <1>3, <1>5, <1>7, <1>8, <1>9, Planned

LEMMA HandleTypes ==
    ASSUME JobOK, Clear \/ CleanSync \/ Drop
    PROVE  JobOK'
<1>0. TypeOK /\ RestOK /\ JobTypes
  BY TypeParts DEF JobOK
<1>1. ops' \in 0 .. MaxOps /\ pc' = "idle" /\ job' = None
  BY <1>0, Begins DEF Clear, CleanSync, Drop, Begin, JobTypes, RestOK
<1>2. <<>> \in Text
  BY DEF Text
<1>3. handle # None => handle \in Handles
  BY <1>0 DEF RestOK
<1>7. Lengths
  BY DEF JobOK
<1>4. CASE Clear
  <2>1. handle' \in Handles /\ handle'.size = 0 /\ handle'.head = None
    <3>1. /\ handle \in Handles /\ 0 \in 0 .. MaxSize
          /\ handle' = [handle EXCEPT !.head = None, !.size = 0, !.dirty = TRUE]
      BY <1>3, <1>4, Constants DEF Clear
    <3> QED BY <3>1 DEF Handles
  <2>2. RestOK'
    BY <1>0, <1>1, <1>2, <1>4, <2>1 DEF Clear, Begin, RestOK
  <2>3. Lengths'
    BY <1>4, <1>7, <2>1 DEF Lengths, Clear
  <2> QED BY <1>1, <2>2, <2>3, Idle
<1>5. CASE CleanSync
  <2>2. RestOK'
    BY <1>0, <1>5 DEF CleanSync, RestOK
  <2>3. Lengths'
    BY <1>5, <1>7 DEF Lengths, CleanSync
  <2> QED BY <1>1, <2>2, <2>3, Idle
<1>6. CASE Drop
  <2>2. RestOK'
    BY <1>0, <1>2, <1>6 DEF Drop, RestOK
  <2>3. Lengths'
    BY <1>6, <1>7 DEF Lengths, Drop
  <2> QED BY <1>1, <2>2, <2>3, Idle
<1> QED BY <1>4, <1>5, <1>6

LEMMA SyncTypes ==
    ASSUME JobOK, NEW close \in BOOLEAN, Sync(close)
    PROVE  JobOK'
<1>0. TypeOK /\ RestOK /\ JobTypes
  BY TypeParts DEF JobOK
<1>1. /\ handle # None /\ handle' = handle /\ staged' = staged /\ pc' = "commit"
      /\ job' = [call |-> IF close THEN "close" ELSE "sync", f |-> Staged, want |-> staged]
  BY DEF Sync
<1>2. Staged \in Files /\ ((Staged.size = 0) <=> (Staged.head = None)) /\ Staged' = Staged
  BY <1>0, <1>1, StagedType DEF Staged
<1>3. job' \in Commits /\ job' # None
  <2>1. job' \in Commits
    BY <1>0, <1>1, <1>2 DEF Commits, RestOK
  <2> QED BY <2>1, NoneAssumption
<1>4. RestOK'
  BY <1>0 DEF Sync, RestOK
<1>5. JobTypes' /\ ~Running'
  BY <1>1, <1>3 DEF JobTypes, Running
<1>6. Lengths' /\ CommitOK'
  BY <1>1, <1>2 DEF CommitOK, JobOK, Lengths, Sync, Staged
<1> QED BY <1>4, <1>5, <1>6, TypePartsNext DEF JobOK

\* A file has no more blocks than a longer one.
LEMMA CountOrder ==
    ASSUME NEW s \in 0 .. MaxSize, NEW t \in 0 .. MaxSize, s <= t
    PROVE  BlockCount(s) <= BlockCount(t) /\ BlockCount(s) \in Nat /\ BlockCount(t) \in Nat
<1>1. BlockCount(s) \in Nat /\ BlockCount(t) \in Nat
  BY RoomIs
<1>2. CASE s = t
  BY <1>1, <1>2
<1>3. CASE s < t
  BY <1>1, <1>3, Grows
<1> QED BY <1>2, <1>3, Constants

\* Step k of the walk.
LEMMA ChainLength ==
    ASSUME NEW c, NEW f, NEW k \in 1 .. BlockCount(f.size)
    PROVE  Chain(c, f)[k] \in ChainBlocks(c, f)
<1> DEFINE n == BlockCount(f.size)
           at[j \in 0 .. n - 1] ==
            IF j = 0 THEN f.head
            ELSE IF j = 1 \/ (n - 1 - j) % 2 = 1 THEN Ptr(c, at[j - 1], 0)
            ELSE Ptr(c, at[j - 2], 1)
<1>1. Chain(c, f) = [i \in 1 .. n |-> at[n - i]]
  BY DEF Chain
<1> HIDE DEF at
<1>2. k \in DOMAIN Chain(c, f)
  BY <1>1
<1> HIDE DEF n
<1> QED BY <1>2 DEF ChainBlocks, ToSet

LEMMA ShrinkTypes ==
    ASSUME JobOK, NEW size \in Sizes, Shrink(size)
    PROVE  JobOK'
<1>0. TypeOK /\ RestOK /\ JobTypes
  BY TypeParts DEF JobOK
<1> DEFINE old  == Chain(cells, Staged)[BlockCount(size)]
           want == SubSeq(staged, 1, size)
           own  == ChainBlocks(cells, Staged)
<1>1. /\ handle # None /\ size < handle.size /\ own \subseteq Blocks
      /\ Begin("set_len")
  BY DEF Shrink
<1>2. size \in 1 .. MaxSize /\ size \in 0 .. MaxSize
  BY FileAssumption
<1>3. /\ Staged \in Files /\ Staged.size = handle.size /\ handle \in Handles
      /\ handle.size \in 0 .. MaxSize /\ ((Staged.size = 0) <=> (Staged.head = None))
  BY <1>0, <1>1, StagedType
<1>4. BlockCount(size) \in 1 .. BlockCount(Staged.size)
  <2>1. BlockCount(size) <= BlockCount(handle.size) /\ BlockCount(size) \in Nat
        /\ BlockCount(handle.size) \in Nat
    BY <1>1, <1>2, <1>3, CountOrder, Constants
  <2>2. BlockCount(size) >= 1
    BY <1>2, Ends
  <2> QED BY <1>3, <2>1, <2>2
<1>5. old \in Blocks
  BY <1>1, <1>4, ChainLength
<1>6. EndOf(size) \in 1 .. BlockSize
  BY <1>2, Ends
<1>7. ops' \in 0 .. MaxOps /\ res' = "ok" /\ pc = "idle"
  BY <1>0, <1>1, Begins
<1> HIDE DEF old, own
<1>10. want \in Text /\ Len(want) = size
  <2>1. staged \in Seq(Cell) /\ Len(staged) = handle.size
    BY <1>0, <1>1 DEF RestOK, Text, JobOK, Lengths
  <2> QED BY <1>1, <1>2, <1>3, <2>1, Constants DEF Text
<1> HIDE DEF want
<1>11. Len(durable) = entry.size
  BY DEF JobOK, Lengths
<1>8. CASE EndOf(size) = BlockSize
  <2>1. /\ handle' = [handle EXCEPT !.head = old, !.size = size, !.dirty = TRUE]
        /\ staged' = want /\ job' = job /\ pc' = pc
    BY <1>6, <1>8 DEF Shrink, old, want
  <2>2. handle' \in Handles /\ handle'.size = size /\ handle'.head = old
    BY <1>2, <1>3, <1>5, <2>1 DEF Handles
  <2>3. RestOK'
    BY <1>0, <1>2, <1>5, <1>7, <1>10, <2>1, <2>2, NoneAssumption DEF RestOK, Shrink
  <2>4. Lengths'
    BY <1>10, <1>11, <2>1, <2>2 DEF Lengths, Shrink
  <2> QED BY <1>0, <1>7, <2>1, <2>3, <2>4, Idle DEF JobTypes
<1>9. CASE EndOf(size) < BlockSize
  <2> DEFINE j == [call |-> "shrink", f |-> Staged, data |-> <<>>, more |-> 0,
                         want |-> want, src |-> old, off |-> EndOf(size), fill |-> 0,
                         tail |-> old, new |-> <<>>, done |-> 0, size |-> size,
                         own |-> own, ex |-> {}]
  <2>1. job' = j /\ pc' = "cow" /\ handle' = handle /\ staged' = staged
    BY <1>6, <1>9 DEF Shrink, old, own, want
  <2>2. j \in Writes
    <3>1. /\ <<>> \in Seq(Blocks) /\ <<>> \in Text /\ {} \in SUBSET Blocks /\ 0 \in Nat
          /\ 0 \in 0 .. BlockSize /\ EndOf(size) \in 0 .. BlockSize
      BY <1>6, Constants DEF Text
    <3> QED BY <1>1, <1>2, <1>3, <1>5, <1>10, <3>1 DEF Writes
  <2>3. j # None
    BY <2>2, NoneAssumption
  <2>4. /\ j.call = "shrink" /\ j.f = Staged /\ j.data = <<>> /\ j.more = 0 /\ j.want = want
        /\ j.src = old /\ j.off = EndOf(size) /\ j.fill = 0 /\ j.tail = old /\ j.new = <<>>
        /\ j.done = 0 /\ j.size = size
    OBVIOUS
  <2> HIDE DEF j
  <2>5. RestOK'
    BY <1>0, <1>7, <2>1 DEF RestOK, Shrink
  <2>6. Lengths' /\ Staged' = Staged
    BY <1>11, <2>1 DEF JobOK, Lengths, Shrink, Staged
  <2>7. JobTypes' /\ pc' # "commit"
    BY <2>1, <2>2, <2>3 DEF JobTypes
  <2>8. ShrinkOK'
    BY <1>1, <1>3, <1>5, <2>1, <2>4 DEF ShrinkOK
  <2>9. RunOK'
    BY <1>1, <1>2, <1>3, <1>10, <2>1, <2>4, <2>6, <2>8 DEF RunOK
  <2> QED BY <2>5, <2>6, <2>7, <2>9, TypePartsNext DEF JobOK
<1> QED BY <1>6, <1>8, <1>9, Constants

----------------------------------------------------------------------------
(* The types, for the steps of a call that runs.                           *)

LEMMA JobFields ==
    ASSUME job \in Writes
    PROVE  /\ job.call \in {"write", "zero", "shrink", "append"} /\ job.f \in Files
           /\ job.data \in Text /\ job.more \in Nat /\ job.want \in Text
           /\ job.src \in Blocks \cup {None} /\ job.off \in 0 .. BlockSize
           /\ job.fill \in 0 .. BlockSize /\ job.tail \in Blocks \cup {None}
           /\ job.new \in Seq(Blocks) /\ job.done \in Nat /\ job.own \subseteq Blocks
           /\ job.ex \subseteq Blocks /\ job.size \in 0 .. MaxSize
           /\ job.f.size \in 0 .. MaxSize /\ job.f.head \in Blocks \cup {None}
  BY DEF Writes, Files

LEMMA JobNumbers ==
    ASSUME job \in Writes
    PROVE  /\ job.f.size \in 0 .. MaxSize /\ job.f.size \in Nat
           /\ job.size \in 0 .. MaxSize /\ job.size \in Nat
           /\ job.fill \in Nat /\ job.off \in Nat /\ job.done \in Nat
           /\ job.data \in Seq(Cell) /\ Len(job.data) \in Nat
           /\ job.new \in Seq(Blocks) /\ Len(job.new) \in Nat
           /\ Room(job.f.size) \in 0 .. BlockSize /\ Room(job.f.size) \in Nat
           /\ BlockCount(job.f.size) \in Nat /\ BlockCount(job.size) \in Nat
<1>1. job.f.size \in 0 .. MaxSize /\ job.size \in 0 .. MaxSize
  BY JobFields
<1>2. Room(job.f.size) \in 0 .. BlockSize /\ BlockCount(job.f.size) \in Nat /\ BlockCount(job.size) \in Nat
  BY <1>1, RoomIs
<1>3. job.data \in Seq(Cell) /\ Len(job.data) \in Nat /\ job.new \in Seq(Blocks) /\ Len(job.new) \in Nat
  BY JobFields DEF Text
<1>4. job.fill \in Nat /\ job.off \in Nat /\ job.done \in Nat
  BY JobFields, Constants
<1> QED BY <1>1, <1>2, <1>3, <1>4, Constants

LEMMA Runs ==
    ASSUME JobOK, pc \in {"cow", "grow", "write", "fill", "sync"}
    PROVE  TypeOK /\ RestOK /\ JobTypes /\ Lengths /\ RunOK /\ job \in Writes /\ job # None /\ Running
  BY TypeParts, NoneAssumption DEF JobOK, Running, JobTypes

LEMMA Handed ==
    ASSUME NEW a, NEW n \in Nat \ {0}, NEW excluded, excluded \subseteq Blocks, NEW owned, NEW raw,
           Allotted(a, n, excluded, owned, raw)
    PROVE  /\ a.cache = None \/ a.cache \subseteq Blocks
           /\ a.blocks # <<>> => /\ a.blocks \in Seq(Blocks) /\ Len(a.blocks) = n
                                 /\ a.blocks[1] \in Blocks /\ a.blocks[1] \notin excluded
                                 /\ a.blocks[1] \in ToSet(a.blocks)
                                 /\ ToSet(a.blocks) \subseteq Blocks
<1>1. CASE a.blocks = <<>>
  BY <1>1 DEF Allotted
<1>2. CASE a.blocks # <<>>
  <2>1. PICK pool : /\ pool \subseteq Blocks
                    /\ Taken(a.blocks, Blocks \ (pool \cup excluded), n)
                    /\ a.cache = pool \cup excluded \cup ToSet(a.blocks)
    BY <1>2 DEF Allotted
  <2> DEFINE F == Blocks \ (pool \cup excluded)
  <2>2. a.blocks \in Seq(F) /\ Len(a.blocks) = n
    BY <2>1 DEF Taken
  <2>3. F \subseteq Blocks /\ F \cap excluded = {}
    OBVIOUS
  <2> HIDE DEF F
  <2>4. ToSet(a.blocks) \subseteq F /\ a.blocks[1] \in ToSet(a.blocks)
    BY <2>2, ToSetIs
  <2>5. a.blocks \in Seq(Blocks)
    BY <2>2, <2>3
  <2> QED BY <2>1, <2>2, <2>3, <2>4, <2>5
<1> QED BY <1>1, <1>2

CowEx == IF job.call = "shrink" THEN job.own \cup job.ex ELSE job.ex
CowOwn == IF job.call = "shrink" THEN Empty ELSE job.f

LEMMA CowAllots ==
    ASSUME JobOK, pc = "cow"
    PROVE  /\ Allotted(CowAlloc, 1, CowEx, CowOwn, FALSE) /\ CowEx \subseteq Blocks
           /\ job.src \in Blocks
<1>1. TypeOK /\ RestOK /\ RunOK /\ job \in Writes
  BY Runs
<1>2. job.own \subseteq Blocks /\ job.ex \subseteq Blocks /\ PairBlocks \subseteq Blocks
      /\ (cache = None \/ cache \subseteq Blocks) /\ 1 \in Nat \ {0}
  BY <1>1, JobFields, PairType DEF RestOK
<1>3. job.src \in Blocks
  <2>1. CASE job.call = "shrink"
    BY <1>1, <2>1 DEF RunOK, ShrinkOK
  <2>2. CASE job.call # "shrink"
    <3>1. ExtendOK
      BY <1>1, <2>2 DEF RunOK
    <3>2. job.f.size # 0
      BY <3>1 DEF ExtendOK, Room
    <3> QED BY <3>1, <3>2 DEF ExtendOK
  <2> QED BY <2>1, <2>2
<1>4. CASE job.call = "shrink"
  BY <1>2, <1>3, <1>4, AllocAllots DEF CowAlloc, CowEx, CowOwn
<1>5. CASE job.call # "shrink"
  BY <1>2, <1>3, <1>5, AllocAllots DEF CowAlloc, CowEx, CowOwn
<1> QED BY <1>4, <1>5

GrowCount == BlockCount(job.size) - BlockCount(job.f.size)

LEMMA GrowAllots ==
    ASSUME JobOK, pc = "grow"
    PROVE  /\ GrowCount \in Nat \ {0} /\ job.ex \subseteq Blocks
           /\ Allotted(GrowAlloc, GrowCount, job.ex, Base, FALSE)
           /\ ExtendOK /\ job.call # "shrink"
<1>1. TypeOK /\ RestOK /\ RunOK /\ job \in Writes
  BY Runs
<1>2. job.ex \subseteq Blocks /\ PairBlocks \subseteq Blocks
      /\ (cache = None \/ cache \subseteq Blocks)
      /\ job.size \in 0 .. MaxSize /\ job.f.size \in 0 .. MaxSize /\ job.data \in Seq(Cell)
  BY <1>1, JobFields, PairType DEF RestOK, Text
<1>3. ExtendOK /\ job.call # "shrink"
  BY <1>1 DEF RunOK, ShrinkOK
<1>4. GrowCount \in Nat \ {0}
  <2>1. /\ job.size = job.f.size + Len(job.data) /\ job.fill < Len(job.data)
        /\ job.fill = IF Len(job.data) < Room(job.f.size) THEN Len(job.data) ELSE Room(job.f.size)
    BY <1>3 DEF ExtendOK
  <2>2. Room(job.f.size) \in Nat /\ BlockCount(job.f.size) \in Nat /\ BlockCount(job.size) \in Nat
    BY <1>2, RoomIs
  <2>3. Len(job.data) \in Nat /\ job.f.size \in Nat
    BY <1>2, Constants
  <2>4. Len(job.data) > Room(job.f.size) /\ job.f.size < job.size
        /\ job.size - job.f.size = Len(job.data)
    BY <2>1, <2>2, <2>3
  <2>5. BlockCount(job.size) > BlockCount(job.f.size)
    BY <1>2, <2>4, Grows
  <2> QED BY <2>2, <2>5 DEF GrowCount
<1>5. Allotted(GrowAlloc, GrowCount, job.ex, Base, FALSE)
  BY <1>2, <1>4, AllocAllots DEF GrowAlloc, GrowCount
<1> QED BY <1>2, <1>3, <1>4, <1>5

LEMMA CowWriteTypes ==
    ASSUME JobOK, CowWrite
    PROVE  JobOK'
<1>1. pc = "cow" /\ CowAlloc.blocks # <<>>
  BY DEF CowWrite
<1>2. TypeOK /\ RestOK /\ RunOK /\ Lengths /\ job \in Writes
  BY <1>1, Runs
<1> DEFINE b == CowAlloc.blocks[1]
           kept == SubSeq(cells[job.src], 1, job.off)
           fill == SubSeq(job.data, 1, job.fill)
<1>3. b \in Blocks /\ (CowAlloc.cache = None \/ CowAlloc.cache \subseteq Blocks) /\ job.src \in Blocks
  <2>1. 1 \in Nat \ {0}
    OBVIOUS
  <2> QED BY <1>1, <2>1, CowAllots, Handed
<1> HIDE DEF b
<1>4. /\ cells' = [cells EXCEPT ![b] = Image(kept, fill)]
      /\ job' = [job EXCEPT !.tail = b, !.ex = {}]
      /\ cache' = CowAlloc.cache
      /\ pc' = IF job.fill < Len(job.data) THEN "grow" ELSE "sync"
      /\ UNCHANGED <<Static, handle, res, staged, faults>>
  BY DEF CowWrite, b
<1>5. kept \in Seq(Cell)
  BY <1>2, <1>3, JobFields, RowIsText DEF RestOK, Text
<1>6. job.data \in Seq(Cell) /\ job.fill \in Nat /\ job.fill <= Len(job.data)
      /\ Len(job.data) \in Nat
  <2>1. job.data \in Seq(Cell) /\ job.fill \in Nat /\ Room(job.f.size) \in Nat
    BY <1>2, JobNumbers
  <2>2. CASE job.call = "shrink"
    BY <1>2, <2>1, <2>2 DEF RunOK, ShrinkOK
  <2>3. CASE job.call # "shrink"
    BY <1>2, <2>1, <2>3 DEF RunOK, ExtendOK
  <2> QED BY <2>1, <2>2, <2>3
<1>7. fill \in Seq(Cell)
  BY <1>6
<1>8. Image(kept, fill) \in [1 .. BlockSize -> Cell]
  BY <1>5, <1>7, ImageType
<1> HIDE DEF kept, fill
<1>9. cells' \in [Blocks -> [1 .. BlockSize -> Cell]]
  BY <1>2, <1>3, <1>4, <1>8 DEF RestOK
<1>10. RestOK' /\ Lengths'
  BY <1>2, <1>3, <1>4, <1>9 DEF RestOK, Static, Lengths
<1>11. /\ job' \in Writes /\ job'.tail = b /\ job'.call = job.call /\ job'.f = job.f
       /\ job'.data = job.data /\ job'.more = job.more /\ job'.want = job.want /\ job'.src = job.src
       /\ job'.off = job.off /\ job'.fill = job.fill /\ job'.new = job.new /\ job'.done = job.done
       /\ job'.size = job.size
  BY <1>2, <1>3, <1>4 DEF Writes
<1>12. JobTypes' /\ pc' \in {"grow", "sync"}
  BY <1>4, <1>11, NoneAssumption DEF JobTypes
<1>13. Staged' = Staged
  BY <1>4 DEF Staged
<1>14. CASE job.call = "shrink"
  <2>1. ShrinkOK'
    <3>1. job.data = <<>> /\ job.fill = 0
      BY <1>2, <1>14 DEF RunOK, ShrinkOK
    <3>2. pc' = "sync"
      BY <1>4, <3>1
    <3> QED BY <1>2, <1>3, <1>11, <1>14, <3>2 DEF RunOK, ShrinkOK
  <2>2. RunOK'
    BY <1>2, <1>4, <1>11, <1>13, <1>14, <2>1 DEF RunOK
  <2> QED BY <1>10, <1>12, <2>2, TypePartsNext DEF JobOK
<1>15. CASE job.call # "shrink"
  <2>1. ExtendOK /\ job.fill > 0 /\ job.f.size # 0
    BY <1>1, <1>2, <1>15 DEF RunOK, ExtendOK, Room
  <2>2. pc' = "grow" => job.fill < Len(job.data)
    BY <1>4
  <2>3. pc' = "sync" => Len(job.new) = BlockCount(job.size) - BlockCount(job.f.size)
                        /\ job.done = Len(job.new)
    <3> SUFFICES ASSUME pc' = "sync"
                 PROVE  BlockCount(job.size) = BlockCount(job.f.size)
      <4>1. BlockCount(job.f.size) \in Nat
        BY <1>2, JobFields, RoomIs
      <4>2. job.new = <<>> /\ job.done = 0
        BY <1>1, <2>1 DEF ExtendOK
      <4> QED BY <4>1, <4>2
    <3>1. ~(job.fill < Len(job.data))
      BY <1>4
    <3>2. /\ job.f.size \in 0 .. MaxSize /\ job.size \in 0 .. MaxSize /\ Room(job.f.size) \in Nat
          /\ job.f.size \in Nat
      BY <1>2, JobNumbers
    <3>3. job.size = job.f.size + Len(job.data) /\ Len(job.data) > 0
          /\ job.fill = IF Len(job.data) < Room(job.f.size) THEN Len(job.data) ELSE Room(job.f.size)
      BY <1>6, <2>1 DEF ExtendOK
    <3>4. job.f.size < job.size /\ job.size - job.f.size <= Room(job.f.size)
      BY <1>6, <3>1, <3>2, <3>3
    <3> QED BY <3>2, <3>4, Grows
  <2>4. ExtendOK'
    BY <1>1, <1>3, <1>11, <1>12, <2>1, <2>2, <2>3 DEF ExtendOK
  <2>5. RunOK'
    BY <1>2, <1>4, <1>11, <1>13, <1>15, <2>4 DEF RunOK
  <2> QED BY <1>10, <1>12, <2>5, TypePartsNext DEF JobOK
<1> QED BY <1>14, <1>15

LEMMA TakeBlocksTypes ==
    ASSUME JobOK, TakeBlocks
    PROVE  JobOK'
<1>1. pc = "grow" /\ GrowAlloc.blocks # <<>>
  BY DEF TakeBlocks
<1>2. TypeOK /\ RestOK /\ RunOK /\ Lengths /\ job \in Writes
  BY <1>1, Runs
<1> DEFINE bs == GrowAlloc.blocks
<1>3. /\ bs \in Seq(Blocks) /\ Len(bs) = GrowCount /\ GrowCount \in Nat /\ GrowCount > 0
      /\ (GrowAlloc.cache = None \/ GrowAlloc.cache \subseteq Blocks)
  <2>1. /\ GrowCount \in Nat \ {0} /\ job.ex \subseteq Blocks
        /\ Allotted(GrowAlloc, GrowCount, job.ex, Base, FALSE)
    BY <1>1, GrowAllots
  <2>2. /\ GrowAlloc.cache = None \/ GrowAlloc.cache \subseteq Blocks
        /\ bs \in Seq(Blocks) /\ Len(bs) = GrowCount
    BY <1>1, <2>1, Handed
  <2> QED BY <2>1, <2>2
<1> HIDE DEF bs
<1>4. /\ job' = [job EXCEPT !.new = bs, !.done = 0]
      /\ cache' = GrowAlloc.cache /\ pc' = "write"
      /\ UNCHANGED <<Static, cells, handle, res, staged, faults>>
  BY DEF TakeBlocks, bs
<1>5. /\ job' \in Writes /\ job'.tail = job.tail /\ job'.call = job.call /\ job'.f = job.f
      /\ job'.data = job.data /\ job'.more = job.more /\ job'.want = job.want /\ job'.src = job.src
      /\ job'.off = job.off /\ job'.fill = job.fill /\ job'.new = bs /\ job'.done = 0
      /\ job'.size = job.size
  BY <1>2, <1>3, <1>4 DEF Writes
<1>6. RestOK' /\ Lengths' /\ Staged' = Staged
  BY <1>2, <1>3, <1>4 DEF RestOK, Static, Lengths, Staged
<1>7. JobTypes'
  BY <1>4, <1>5, NoneAssumption DEF JobTypes
<1>8. ExtendOK /\ job.call # "shrink" /\ job.fill < Len(job.data)
  BY <1>1, GrowAllots DEF ExtendOK
<1>9. ExtendOK'
  BY <1>3, <1>4, <1>5, <1>8 DEF ExtendOK, GrowCount
<1>10. RunOK'
  BY <1>2, <1>4, <1>5, <1>6, <1>8, <1>9 DEF RunOK
<1> QED BY <1>4, <1>6, <1>7, <1>10, TypePartsNext DEF JobOK

LEMMA NoSpaceTypes ==
    ASSUME JobOK, NoSpace
    PROVE  JobOK'
<1>1. TypeOK /\ RestOK /\ Lengths
  BY Runs DEF NoSpace
<1>2. cache' = None \/ cache' \subseteq Blocks
  <2>1. CASE pc = "cow" /\ cache' = CowAlloc.cache
    <3>1. 1 \in Nat \ {0}
      OBVIOUS
    <3> QED BY <2>1, <3>1, CowAllots, Handed
  <2>2. CASE pc = "grow" /\ cache' = GrowAlloc.cache
    BY <2>2, GrowAllots, Handed
  <2> QED BY <2>1, <2>2 DEF NoSpace
<1>3. res' \in {"corrupt", "full"} /\ pc' = "idle" /\ job' = None
  BY DEF NoSpace, Fail, Refusal
<1>4. RestOK' /\ Lengths'
  BY <1>1, <1>2, <1>3 DEF NoSpace, RestOK, Lengths, Static
<1> QED BY <1>3, <1>4, Idle

\* The image of a new block.
LEMMA NewImageType ==
    ASSUME JobOK, pc = "write", ToSet(NewPtrs) \subseteq Blocks
    PROVE  /\ NewImage \in [1 .. BlockSize -> Cell]
           /\ NewIndex \in Nat /\ NewIndex < 2 ^ 28 /\ NP(NewIndex) \in Nat
           /\ BlockCount(job.f.size) <= NewIndex /\ NewIndex < BlockCount(job.size)
           /\ NewPtrs \in Seq(Blocks) /\ Len(NewPtrs) = NP(NewIndex)
           /\ StartOf(NewIndex) \in Int /\ StartOf(NewIndex + 1) \in Int
           /\ StartOf(NewIndex) >= job.f.size + job.fill /\ StartOf(NewIndex) < job.size
           /\ StartOf(NewIndex + 1) = StartOf(NewIndex) + (BlockSize - NP(NewIndex))
           /\ NP(NewIndex) < BlockSize
<1>1. RunOK /\ job \in Writes /\ ExtendOK
  BY Runs DEF RunOK, ShrinkOK
<1> DEFINE n == BlockCount(job.f.size)
           m == BlockCount(job.size)
<1>2. /\ n \in Nat /\ m \in Nat /\ m <= 2 ^ 28 /\ job.f.size \in 0 .. MaxSize /\ job.f.size \in Nat
      /\ job.size \in 0 .. MaxSize /\ job.size \in Nat /\ job.done \in Nat
      /\ job.data \in Seq(Cell) /\ Len(job.data) \in Nat
      /\ Room(job.f.size) \in Nat /\ job.fill \in Nat
  BY <1>1, JobNumbers, RoomIs
<1>3. /\ Len(job.new) = m - n /\ job.done < Len(job.new) /\ job.fill < Len(job.data)
      /\ job.size = job.f.size + Len(job.data)
      /\ job.fill = IF Len(job.data) < Room(job.f.size) THEN Len(job.data) ELSE Room(job.f.size)
  BY <1>1 DEF ExtendOK
<1>4. job.fill = Room(job.f.size) /\ NewIndex = n + job.done
  BY <1>2, <1>3 DEF NewIndex
<1> HIDE DEF n, m
<1>5. NewIndex \in Nat /\ n <= NewIndex /\ NewIndex < m
  BY <1>2, <1>3, <1>4
<1>6. job.size \in 1 .. MaxSize /\ NewIndex \in 0 .. m - 1 /\ NewIndex \in n .. m - 1
  BY <1>2, <1>3, <1>5
<1>7. /\ NewIndex < 2 ^ 28 /\ NP(NewIndex) \in Nat /\ NP(NewIndex) < BlockSize
      /\ StartOf(NewIndex) \in Int /\ StartOf(NewIndex) < job.size
      /\ StartOf(NewIndex + 1) = StartOf(NewIndex) + (BlockSize - NP(NewIndex))
      /\ StartOf(NewIndex) >= job.f.size + job.fill
  BY <1>2, <1>4, <1>6, BlockStarts, NewBlockStarts DEF n, m
<1>8. NewPtrs \in Seq(Blocks) /\ Len(NewPtrs) = NP(NewIndex)
  <2>1. DOMAIN NewPtrs = 1 .. NP(NewIndex) /\ NewPtrs = [i \in DOMAIN NewPtrs |-> NewPtrs[i]]
    BY DEF NewPtrs, NP
  <2>2. NewPtrs \in [1 .. NP(NewIndex) -> Blocks]
    BY <2>1 DEF ToSet
  <2> QED BY <1>7, <2>2
<1> DEFINE first == StartOf(NewIndex) - job.f.size
           last  == StartOf(NewIndex + 1) - job.f.size
           to == IF last < Len(job.data) THEN last ELSE Len(job.data)
<1>9. SubSeq(job.data, first + 1, to) \in Seq(Cell)
  <2>0. job.f.size \in Int /\ job.fill \in Nat /\ Len(job.data) \in Nat /\ BlockSize \in Nat
    BY <1>2, Constants
  <2>8. job.size = job.f.size + Len(job.data)
    BY <1>3
  <2>9. /\ StartOf(NewIndex) \in Int /\ StartOf(NewIndex) < job.size
        /\ StartOf(NewIndex) >= job.f.size + job.fill
    BY <1>7
  <2>1. first \in Nat /\ first < Len(job.data)
    BY <2>0, <2>8, <2>9
  <2>2. last \in Int /\ first < last
    BY <1>7, <2>0
  <2> HIDE DEF first, last
  <2>3. to \in Int /\ to <= Len(job.data) /\ first < to
    BY <2>0, <2>1, <2>2
  <2> HIDE DEF to
  <2> QED BY <1>2, <2>1, <2>3
<1>10. NewImage = Image(NewPtrs, SubSeq(job.data, first + 1, to))
  BY DEF NewImage
<1> HIDE DEF first, last, to
<1>11. NewPtrs \in Seq(Cell)
  <2>1. Blocks \subseteq Cell
    BY Constants
  <2> QED BY <1>8, <2>1
<1>12. NewImage \in [1 .. BlockSize -> Cell]
  BY <1>9, <1>10, <1>11, ImageType
<1>13. StartOf(NewIndex + 1) \in Int
  BY <1>7, Constants
<1> QED BY <1>5, <1>7, <1>8, <1>12, <1>13 DEF n, m

LEMMA WriteBlockTypes ==
    ASSUME JobOK, WriteBlock
    PROVE  JobOK'
<1>1. pc = "write" /\ UNCHANGED <<Static, handle, cache, staged, faults>>
  BY DEF WriteBlock
<1>2. TypeOK /\ RestOK /\ RunOK /\ Lengths /\ job \in Writes
  BY <1>1, Runs
<1>3. ExtendOK /\ job.call # "shrink"
  BY <1>1, <1>2 DEF RunOK, ShrinkOK
<1>4. CASE ToSet(NewPtrs) \subseteq Blocks
  <2> DEFINE b == job.new[job.done + 1]
  <2>1. /\ cells' = [cells EXCEPT ![b] = NewImage]
        /\ job' = [job EXCEPT !.done = @ + 1]
        /\ pc' = IF job.done + 1 < Len(job.new) THEN "write"
                 ELSE IF job.fill > 0 /\ job.tail = job.src THEN "fill" ELSE "sync"
        /\ res' = res
    BY <1>4 DEF WriteBlock
  <2>2. b \in Blocks /\ NewImage \in [1 .. BlockSize -> Cell]
    <3>1. job.new \in Seq(Blocks) /\ job.done \in Nat /\ Len(job.new) \in Nat
      BY <1>2, JobNumbers
    <3>2. job.done < Len(job.new)
      BY <1>1, <1>3 DEF ExtendOK
    <3>3. job.done + 1 \in 1 .. Len(job.new)
      BY <3>1, <3>2
    <3> QED BY <1>1, <1>4, <3>1, <3>3, NewImageType
  <2> HIDE DEF b
  <2>3. cells' \in [Blocks -> [1 .. BlockSize -> Cell]]
    BY <1>2, <2>1, <2>2 DEF RestOK
  <2>4. RestOK' /\ Lengths' /\ Staged' = Staged
    BY <1>1, <1>2, <2>1, <2>3 DEF RestOK, Static, Lengths, Staged
  <2>5. /\ job' \in Writes /\ job'.tail = job.tail /\ job'.call = job.call /\ job'.f = job.f
        /\ job'.data = job.data /\ job'.more = job.more /\ job'.want = job.want /\ job'.src = job.src
        /\ job'.off = job.off /\ job'.fill = job.fill /\ job'.new = job.new
        /\ job'.done = job.done + 1 /\ job'.size = job.size
    BY <1>2, <2>1 DEF Writes
  <2>6. /\ JobTypes' /\ pc' \in {"write", "fill", "sync"}
        /\ pc' = "fill" => job.fill > 0 /\ job.tail = job.src
    BY <2>1, <2>5, NoneAssumption DEF JobTypes
  <2>7. IF pc' = "write" THEN job.done + 1 < Len(job.new) ELSE job.done + 1 = Len(job.new)
    <3>1. job.done \in Nat /\ Len(job.new) \in Nat /\ job.done < Len(job.new)
      BY <1>1, <1>2, <1>3, JobNumbers DEF ExtendOK
    <3> QED BY <2>1, <3>1
  <2>8. ExtendOK'
    BY <1>1, <1>3, <2>5, <2>6, <2>7 DEF ExtendOK
  <2>9. RunOK'
    BY <1>1, <1>2, <1>3, <2>4, <2>5, <2>8 DEF RunOK
  <2> QED BY <2>4, <2>6, <2>9, TypePartsNext DEF JobOK
<1>5. CASE ~(ToSet(NewPtrs) \subseteq Blocks)
  <2>1. cells' = cells /\ pc' = "idle" /\ res' = "corrupt" /\ job' = None
    BY <1>5 DEF WriteBlock, Fail
  <2>2. RestOK' /\ Lengths'
    BY <1>1, <1>2, <2>1 DEF RestOK, Lengths, Static
  <2> QED BY <2>1, <2>2, Idle
<1> QED BY <1>4, <1>5

LEMMA WornTypes ==
    ASSUME JobOK, Worn
    PROVE  JobOK'
<1> DEFINE b == IF pc = "cow" THEN CowAlloc.blocks[1] ELSE job.new[job.done + 1]
<1>1. /\ pc \in {"cow", "write"} /\ faults < MaxFaults /\ faults' = faults + 1
      /\ pc = "cow" => CowAlloc.blocks # <<>>
      /\ cells' = [cells EXCEPT ![b] = Scrap]
      /\ UNCHANGED <<Static, handle, staged>>
  BY DEF Worn
<1>2. TypeOK /\ RestOK /\ RunOK /\ Lengths /\ job \in Writes
  BY <1>1, Runs
<1>3. b \in Blocks
  <2>1. CASE pc = "cow"
    <3>1. 1 \in Nat \ {0}
      OBVIOUS
    <3> QED BY <1>1, <2>1, <3>1, CowAllots, Handed
  <2>2. CASE pc = "write"
    <3>1. job.new \in Seq(Blocks) /\ job.done \in Nat /\ Len(job.new) \in Nat
      BY <1>2, JobNumbers
    <3>2. job.done < Len(job.new)
      BY <1>2, <2>2 DEF RunOK, ShrinkOK, ExtendOK
    <3>3. job.done + 1 \in 1 .. Len(job.new)
      BY <3>1, <3>2
    <3> QED BY <2>2, <3>1, <3>3
  <2> QED BY <1>1, <2>1, <2>2
<1>4. cells' \in [Blocks -> [1 .. BlockSize -> Cell]]
  <2> HIDE DEF b
  <2> QED BY <1>1, <1>2, <1>3, ScrapType DEF RestOK
<1>5. faults' \in 0 .. MaxFaults
  BY <1>1, <1>2, Constants DEF RestOK
<1>6. CASE /\ job' = [job EXCEPT !.ex = @ \cup {b}, !.new = <<>>, !.done = 0]
           /\ pc' = IF pc = "cow" THEN "cow" ELSE "grow"
           /\ cache' = None
           /\ res' = res
  <2> HIDE DEF b
  <2>1. RestOK' /\ Lengths' /\ Staged' = Staged
    BY <1>1, <1>2, <1>4, <1>5, <1>6 DEF RestOK, Static, Lengths, Staged
  <2>2. /\ job' \in Writes /\ job'.tail = job.tail /\ job'.call = job.call /\ job'.f = job.f
        /\ job'.data = job.data /\ job'.more = job.more /\ job'.want = job.want /\ job'.src = job.src
        /\ job'.off = job.off /\ job'.fill = job.fill /\ job'.new = <<>>
        /\ job'.done = 0 /\ job'.size = job.size
    <3>1. job.ex \cup {b} \in SUBSET Blocks /\ <<>> \in Seq(Blocks)
      BY <1>2, <1>3, JobFields
    <3> QED BY <1>2, <1>6, <3>1 DEF Writes
  <2>3. JobTypes' /\ pc' \in {"cow", "grow"} /\ (pc' = "cow" <=> pc = "cow")
    BY <1>6, <2>2, NoneAssumption DEF JobTypes
  <2>4. CASE job.call = "shrink"
    <3>1. ShrinkOK'
      BY <1>1, <1>2, <2>2, <2>3, <2>4 DEF RunOK, ShrinkOK
    <3>2. RunOK'
      BY <1>1, <1>2, <2>1, <2>2, <2>4, <3>1 DEF RunOK
    <3> QED BY <2>1, <2>3, <3>2, TypePartsNext DEF JobOK
  <2>5. CASE job.call # "shrink"
    <3>1. ExtendOK'
      BY <1>1, <1>2, <2>2, <2>3, <2>5 DEF RunOK, ExtendOK
    <3>2. RunOK'
      BY <1>1, <1>2, <2>1, <2>2, <2>5, <3>1 DEF RunOK
    <3> QED BY <2>1, <2>3, <3>2, TypePartsNext DEF JobOK
  <2> QED BY <2>4, <2>5
<1>7. CASE /\ Fail("io")
           /\ cache' = IF pc = "cow" THEN CowAlloc.cache ELSE cache
  <2> HIDE DEF b
  <2>1. cache' = None \/ cache' \subseteq Blocks
    <3>1. CASE pc = "cow"
      <4>1. 1 \in Nat \ {0}
        OBVIOUS
      <4> QED BY <1>7, <3>1, <4>1, CowAllots, Handed
    <3>2. CASE pc # "cow"
      BY <1>2, <1>7, <3>2 DEF RestOK
    <3> QED BY <3>1, <3>2
  <2>2. RestOK' /\ Lengths'
    BY <1>1, <1>2, <1>4, <1>5, <1>7, <2>1 DEF RestOK, Static, Lengths, Fail
  <2> QED BY <1>7, <2>2, Idle DEF Fail
<1> QED BY <1>6, <1>7 DEF Worn

\* What may be left in the tail of a file.
LEMMA FillType ==
    ASSUME JobOK, pc = "fill"
    PROVE  /\ job.call # "shrink" /\ ExtendOK /\ job.f.size # 0
           /\ job.tail \in Blocks /\ job.fill > 0 /\ job.fill <= Len(job.data)
           /\ job.off + job.fill <= BlockSize
           /\ Filled(job.tail, job.off, SubSeq(job.data, 1, job.fill)) \in [1 .. BlockSize -> Cell]
           /\ Residues \subseteq [1 .. BlockSize -> Cell]
<1>1. RestOK /\ RunOK /\ job \in Writes
  BY Runs
<1>2. job.call # "shrink" /\ ExtendOK
  BY <1>1 DEF RunOK, ShrinkOK
<1>3. /\ job.fill > 0
      /\ job.fill = IF Len(job.data) < Room(job.f.size) THEN Len(job.data) ELSE Room(job.f.size)
      /\ (IF job.f.size = 0 THEN job.tail = None ELSE job.tail \in Blocks)
      /\ job.off = IF job.f.size = 0 THEN BlockSize ELSE EndOf(job.f.size)
  BY <1>2 DEF ExtendOK
<1>4. /\ job.fill \in Nat /\ Len(job.data) \in Nat /\ Room(job.f.size) \in Nat /\ job.off \in Nat
      /\ job.data \in Seq(Cell) /\ job.f.size \in 0 .. MaxSize /\ job.f.size \in Nat
  BY <1>1, JobNumbers
<1>5. job.f.size # 0 /\ job.fill <= Len(job.data) /\ job.fill <= Room(job.f.size)
  BY <1>3, <1>4 DEF Room
<1>6. job.tail \in Blocks /\ job.off = EndOf(job.f.size) /\ job.off + job.fill <= BlockSize
  BY <1>3, <1>4, <1>5, Constants DEF Room
<1>7. cells \in [Blocks -> [1 .. BlockSize -> Cell]]
  BY <1>1 DEF RestOK
<1>8. SubSeq(job.data, 1, job.fill) \in Seq(Cell)
  BY <1>4, <1>5
<1>9. Filled(job.tail, job.off, SubSeq(job.data, 1, job.fill)) \in [1 .. BlockSize -> Cell]
  BY <1>4, <1>6, <1>7, <1>8, FilledType
<1>10. ASSUME NEW left \in Residues PROVE left \in [1 .. BlockSize -> Cell]
  <2>1. PICK k \in 0 .. job.fill - 1, torn \in {<<>>, <<Bad>>} :
            left = Filled(job.tail, job.off, SubSeq(job.data, 1, k) \o torn)
    BY <1>10 DEF Residues
  <2>2. SubSeq(job.data, 1, k) \in Seq(Cell)
    BY <1>4, <1>5
  <2>3. torn \in Seq(Cell)
    <3>1. Bad \in Cell
      BY Constants
    <3>2. <<>> \in Seq(Cell) /\ <<Bad>> \in Seq(Cell)
      BY <3>1
    <3> QED BY <3>2
  <2>4. SubSeq(job.data, 1, k) \o torn \in Seq(Cell)
    BY <2>2, <2>3
  <2> QED BY <1>4, <1>6, <1>7, <2>1, <2>4, FilledType
<1> QED BY <1>2, <1>3, <1>5, <1>6, <1>9, <1>10

LEMMA FillTypes ==
    ASSUME JobOK, Fill \/ FillErr
    PROVE  JobOK'
<1>1. pc = "fill"
  BY DEF Fill, FillErr
<1>2. TypeOK /\ RestOK /\ RunOK /\ Lengths /\ job \in Writes /\ JobTypes
  BY <1>1, Runs
<1>3. ExtendOK /\ job.call # "shrink" /\ job.tail \in Blocks
  BY <1>1, FillType
<1>4. cells' \in [Blocks -> [1 .. BlockSize -> Cell]]
  <2>1. PICK row \in [1 .. BlockSize -> Cell] : cells' = [cells EXCEPT ![job.tail] = row]
    BY <1>1, FillType DEF Fill, FillErr
  <2> QED BY <1>2, <1>3, <2>1 DEF RestOK
<1>5. CASE Fill
  <2>1. pc' = "sync" /\ job' = job /\ UNCHANGED <<Static, handle, cache, res, staged, faults>>
    BY <1>5 DEF Fill
  <2>2. RestOK' /\ Lengths' /\ Staged' = Staged
    BY <1>2, <1>4, <2>1 DEF RestOK, Lengths, Static, Staged
  <2>3. JobTypes'
    BY <1>1, <1>2, <2>1 DEF JobTypes
  <2>4. ExtendOK'
    BY <1>1, <1>3, <2>1 DEF ExtendOK
  <2>5. RunOK'
    BY <1>2, <1>3, <2>1, <2>2, <2>4 DEF RunOK
  <2> QED BY <2>1, <2>2, <2>3, <2>5, TypePartsNext DEF JobOK
<1>6. CASE FillErr
  <2>1. /\ faults' = faults + 1 /\ faults < MaxFaults /\ Fail("io")
        /\ UNCHANGED <<Static, handle, cache, staged>>
    BY <1>6 DEF FillErr
  <2>2. faults' \in 0 .. MaxFaults
    BY <1>2, <2>1, Constants DEF RestOK
  <2>3. RestOK' /\ Lengths'
    BY <1>2, <1>4, <2>1, <2>2 DEF RestOK, Lengths, Static, Fail
  <2> QED BY <2>1, <2>3, Idle DEF Fail
<1> QED BY <1>5, <1>6

LEMMA SyncErrTypes ==
    ASSUME JobOK, SyncErr
    PROVE  JobOK'
<1>2. TypeOK /\ RestOK /\ Lengths
  BY Runs DEF SyncErr
<1>3. faults' \in 0 .. MaxFaults
  BY <1>2, Constants DEF RestOK, SyncErr
<1>4. RestOK' /\ Lengths'
  BY <1>2, <1>3 DEF RestOK, Lengths, Static, Fail, SyncErr
<1> QED BY <1>4, Idle DEF Fail, SyncErr

LEMMA ResultType ==
    ASSUME JobOK, pc = "sync"
    PROVE  /\ Result \in Files /\ Result.head \in Blocks /\ Result.size = job.size
           /\ job.size \in 1 .. MaxSize /\ job.more \in Nat
           /\ Len(job.want) = job.size /\ job.want \in Text
<1>1. RestOK /\ RunOK /\ job \in Writes
  BY Runs
<1>2. /\ job.size \in 0 .. MaxSize /\ job.size > 0 /\ job.new \in Seq(Blocks) /\ job.size \in Nat
      /\ job.f.size \in 0 .. MaxSize /\ Len(job.new) \in Nat
  BY <1>1, JobNumbers DEF RunOK
<1>3. Result.head \in Blocks
  <2>1. CASE job.new # <<>>
    <3>1. Len(job.new) \in 1 .. Len(job.new)
      BY <1>2, <2>1
    <3> QED BY <1>2, <2>1, <3>1 DEF Result
  <2>2. CASE job.new = <<>>
    <3>1. CASE job.call = "shrink"
      BY <1>1, <2>2, <3>1 DEF RunOK, ShrinkOK, Result
    <3>2. CASE job.call # "shrink"
      <4>1. Len(job.new) = BlockCount(job.size) - BlockCount(job.f.size)
            /\ IF job.f.size = 0 THEN job.tail = None ELSE job.tail \in Blocks
        BY <1>1, <3>2 DEF RunOK, ExtendOK
      <4>2. BlockCount(job.size) \in Nat /\ BlockCount(job.size) # 0
            /\ BlockCount(job.f.size) \in Nat /\ ((BlockCount(job.f.size) = 0) <=> (job.f.size = 0))
        BY <1>2, RoomIs
      <4>3. Len(job.new) = 0
        BY <2>2
      <4>4. job.f.size # 0
        BY <4>1, <4>2, <4>3
      <4> QED BY <2>2, <4>1, <4>4 DEF Result
    <3> QED BY <3>1, <3>2
  <2> QED BY <2>1, <2>2
<1>4. Result.size = job.size /\ Result = [head |-> Result.head, size |-> job.size]
  BY DEF Result
<1>5. Result \in Files
  BY <1>2, <1>3, <1>4 DEF Files
<1>6. job.more \in Nat /\ job.want \in Text /\ Len(job.want) = job.size
  BY <1>1, JobFields DEF RunOK
<1>7. job.size \in 1 .. MaxSize
  BY <1>2, Constants
<1> QED BY <1>3, <1>4, <1>5, <1>6, <1>7

LEMMA ExtendedTypes ==
    ASSUME JobOK, Extended
    PROVE  JobOK'
<1> DEFINE f == Result
           moved(dirty) == [handle EXCEPT !.head = f.head, !.size = job.size, !.dirty = dirty]
<1>1. pc = "sync" /\ UNCHANGED <<Static, cells, cache, faults>>
  BY DEF Extended
<1>2. TypeOK /\ RestOK /\ RunOK /\ Lengths /\ job \in Writes
  BY <1>1, Runs
<1>3. /\ f \in Files /\ f.head \in Blocks /\ f.size = job.size
      /\ job.size \in 1 .. MaxSize /\ job.more \in Nat
      /\ Len(job.want) = job.size /\ job.want \in Text /\ f.head # None /\ f.size # 0
  BY <1>1, ResultType, NoneAssumption
<1>4. job.call # "append" =>
        handle # None /\ \A d \in BOOLEAN : moved(d) \in Handles /\ moved(d).size = job.size
                                            /\ moved(d).head = f.head
  <2> SUFFICES ASSUME job.call # "append", NEW d \in BOOLEAN
               PROVE  handle # None /\ moved(d) \in Handles /\ moved(d).size = job.size
                                            /\ moved(d).head = f.head
    BY <1>2 DEF RunOK
  <2>1. handle \in Handles /\ handle # None
    BY <1>2 DEF RunOK, RestOK
  <2>2. job.size \in 0 .. MaxSize
    BY <1>3
  <2> QED BY <1>3, <2>1, <2>2 DEF Handles
<1>5. f.head = (IF job.new # <<>> THEN job.new[Len(job.new)] ELSE job.tail)
      /\ f = [head |-> f.head, size |-> job.size]
  BY DEF Result
<1> HIDE DEF f
<1>6. CASE /\ job.call \in {"write", "shrink"} \/ (job.call = "zero" /\ job.more = 0)
           /\ handle' = moved(TRUE) /\ staged' = job.want
           /\ pc' = "idle" /\ job' = None /\ res' = "ok"
  <2>1. handle' \in Handles /\ handle'.size = job.size /\ handle'.head = f.head
    BY <1>4, <1>6
  <2>2. RestOK' /\ Lengths'
    BY <1>1, <1>2, <1>3, <1>6, <2>1 DEF RestOK, Lengths, Static
  <2> QED BY <1>6, <2>2, Idle
<1>7. CASE /\ job.call = "zero" /\ job.more > 0
           /\ handle' = moved(handle.dirty) /\ staged' = job.want
           /\ ZeroFill(f, job.more, job.want)
           /\ res' = res
  <2>1. handle' \in Handles /\ handle'.size = job.size /\ handle'.head = f.head
    <3>1. handle.dirty \in BOOLEAN
      BY <1>2, <1>4, <1>7 DEF RestOK, Handles
    <3> QED BY <1>4, <1>7, <3>1
  <2>2. RestOK' /\ Lengths'
    BY <1>1, <1>2, <1>3, <1>7, <2>1 DEF RestOK, Lengths, Static
  <2>3. handle' # None /\ f = Staged'
    BY <1>5, <2>1, NoneAssumption DEF Staged
  <2>4. f.size + job.more <= MaxSize
    BY <1>2, <1>3 DEF RunOK
  <2> QED BY <1>3, <1>7, <2>2, <2>3, <2>4, ZeroPlanned
<1>8. CASE /\ job.call = "append"
           /\ job' = [call |-> "append", f |-> f, want |-> job.want]
           /\ pc' = "commit"
           /\ UNCHANGED <<handle, staged, res>>
  <2>1. job' \in Commits /\ job'.call = "append" /\ job'.f = f /\ job'.want = job.want
    BY <1>3, <1>8 DEF Commits
  <2>2. RestOK' /\ Lengths' /\ handle = None
    BY <1>1, <1>2, <1>8 DEF RestOK, Lengths, Static, RunOK
  <2>3. JobTypes' /\ ~Running'
    BY <1>8, <2>1, NoneAssumption DEF JobTypes, Running
  <2>4. CommitOK'
    BY <1>3, <1>8, <2>1, <2>2 DEF CommitOK
  <2> QED BY <2>2, <2>3, <2>4, TypePartsNext DEF JobOK
<1> QED BY <1>5, <1>6, <1>7, <1>8 DEF Extended

----------------------------------------------------------------------------
(* The types, for the commit and for a crash.                              *)

LEMMA Commits0 ==
    ASSUME JobOK, pc = "commit"
    PROVE  /\ TypeOK /\ RestOK /\ JobTypes /\ Lengths /\ CommitOK /\ job \in Commits
           /\ job.call \in {"sync", "close", "append"} /\ job.f \in Files /\ job.want \in Text
           /\ job.f.size \in 0 .. MaxSize /\ job.f.size \in Nat
           /\ Published \subseteq {f \in Files : f.size > 0 /\ f.head # None}
<1>1. TypeOK /\ RestOK /\ JobTypes /\ Lengths /\ CommitOK
  BY TypeParts DEF JobOK
<1>2. job \in Commits
  BY <1>1 DEF JobTypes
<1>3. job.call \in {"sync", "close", "append"} /\ job.f \in Files /\ job.want \in Text
  BY <1>2 DEF Commits
<1>4. job.f.size \in 0 .. MaxSize /\ job.f.size \in Nat
  BY <1>3, Constants DEF Files
<1>5. Published \subseteq {f \in Files : f.size > 0 /\ f.head # None}
  BY <1>1, <1>3, <1>4 DEF Published, CommitOK
<1> QED BY <1>1, <1>2, <1>3, <1>4, <1>5

\* What the publishing of a chain leaves in the variables of the entry.
LEMMA Landed ==
    ASSUME JobOK, pc = "commit", Land
    PROVE  /\ entry' \in Files /\ ((entry'.size = 0) <=> (entry'.head = None))
           /\ durable' \in Text /\ Len(durable') = entry'.size
  BY Commits0 DEF Land, CommitOK

LEMMA Logs ==
    ASSUME JobOK, pc = "commit",
           log' = [log EXCEPT ![1] = @ \cup Published] \/ log' = <<Published, log[1]>> \/ log' = log
    PROVE  /\ log' \in (SUBSET Files) \X (SUBSET Files)
           /\ \A f \in log'[1] \cup log'[2] : f.size > 0 /\ f.head # None
<1>1. log \in (SUBSET Files) \X (SUBSET Files) /\ \A f \in log[1] \cup log[2] : f.size > 0 /\ f.head # None
  BY Commits0 DEF RestOK
<1>2. Published \in SUBSET Files /\ \A f \in Published : f.size > 0 /\ f.head # None
  BY Commits0
<1>3. log[1] \in SUBSET Files /\ log[2] \in SUBSET Files /\ log = <<log[1], log[2]>>
  BY <1>1
<1> DEFINE A == log[1]
           B == log[2]
           P == Published
<1>4. log' = <<A \cup P, B>> \/ log' = <<P, A>> \/ log' = <<A, B>>
  <2>1. [log EXCEPT ![1] = @ \cup Published] = <<log[1] \cup Published, log[2]>>
    BY <1>3
  <2> QED BY <1>3, <2>1
<1>5. /\ A \in SUBSET Files /\ B \in SUBSET Files /\ P \in SUBSET Files
      /\ \A f \in A \cup B \cup P : f.size > 0 /\ f.head # None
  BY <1>1, <1>2, <1>3
<1> HIDE DEF A, B, P
<1>6. CASE log' = <<A \cup P, B>>
  <2>1. log'[1] = A \cup P /\ log'[2] = B
    BY <1>6
  <2> QED BY <1>5, <1>6, <2>1
<1>7. CASE log' = <<P, A>>
  <2>1. log'[1] = P /\ log'[2] = A
    BY <1>7
  <2> QED BY <1>5, <1>7, <2>1
<1>8. CASE log' = <<A, B>>
  <2>1. log'[1] = A /\ log'[2] = B
    BY <1>8
  <2> QED BY <1>5, <1>8, <2>1
<1> QED BY <1>4, <1>6, <1>7, <1>8

\* The handle behind a commit that returns.
LEMMA CommittedTypes ==
    ASSUME JobOK, pc = "commit", NEW newCache, newCache = None \/ newCache \subseteq Blocks,
           Committed(newCache)
    PROVE  /\ cache' = None \/ cache' \subseteq Blocks
           /\ handle' \in Handles \cup {None}
           /\ handle' # None => /\ ((handle'.size = 0) <=> (handle'.head = None))
                                /\ Len(staged') = handle'.size
           /\ staged' \in Text /\ res' \in {"ok", "synced"} /\ pc' = "idle" /\ job' = None
<1>1. RestOK /\ Lengths /\ CommitOK
  BY Commits0
<1>2. <<>> \in Text
  BY DEF Text
<1>3. CASE job.call = "sync"
  <2>1. handle \in Handles /\ handle # None
    BY <1>1, <1>3 DEF RestOK, CommitOK
  <2>2. handle' = [handle EXCEPT !.dirty = FALSE] /\ staged' = staged
    BY <1>3 DEF Committed
  <2>3. handle' \in Handles /\ handle'.size = handle.size /\ handle'.head = handle.head
    BY <2>1, <2>2 DEF Handles
  <2> QED BY <1>1, <1>3, <2>1, <2>2, <2>3 DEF Committed, RestOK, Lengths
<1>4. CASE job.call # "sync"
  BY <1>2, <1>4 DEF Committed
<1> QED BY <1>3, <1>4

LEMMA RevType == ASSUME RestOK PROVE NextRev \in 0 .. Cycle - 1
<1>1. Cycle \in Nat \ {0}
  <2>1. BlockCycles \in Int
    BY FileAssumption
  <2>2. CASE BlockCycles <= 0
    BY <2>2 DEF Cycle
  <2>3. CASE BlockCycles > 0
    BY <2>1, <2>3 DEF Cycle
  <2> QED BY <2>1, <2>2, <2>3
<1>2. rev \in 0 .. Cycle - 1
  BY DEF RestOK
<1>3. rev + 1 \in Int
  BY <1>1, <1>2
<1> QED BY <1>1, <1>3, DivMod DEF NextRev

LEMMA MoveAllots ==
    ASSUME JobOK, pc = "commit"
    PROVE  /\ Allotted(MoveAlloc, 1, PairBlocks, job.f, TRUE) /\ PairBlocks \subseteq Blocks
           /\ MoveAlloc.cache = None \/ MoveAlloc.cache \subseteq Blocks
           /\ MoveAlloc.blocks # <<>> => /\ MoveAlloc.blocks[1] \in Blocks
                                         /\ MoveAlloc.blocks[1] \notin PairBlocks
<1>1. TypeOK /\ PairBlocks \subseteq Blocks /\ (cache = None \/ cache \subseteq Blocks) /\ 1 \in Nat \ {0}
  BY Commits0, PairType DEF RestOK
<1>2. Allotted(MoveAlloc, 1, PairBlocks, job.f, TRUE)
  BY <1>1, AllocAllots DEF MoveAlloc
<1> QED BY <1>1, <1>2, Handed

LEMMA CommitTypes ==
    ASSUME JobOK, CommitAppend \/ CommitCompact \/ CommitRelocate \/ CommitStale
    PROVE  JobOK'
<1>1. pc = "commit"
  BY DEF CommitAppend, CommitCompact, CommitRelocate, CommitStale
<1>2. RestOK /\ Lengths
  BY <1>1, Commits0
<1>3. PICK newCache : (newCache = None \/ newCache \subseteq Blocks) /\ Committed(newCache)
  BY <1>1, <1>2, MoveAllots DEF CommitAppend, CommitCompact, CommitRelocate, CommitStale, RestOK
<1>4. /\ cache' = None \/ cache' \subseteq Blocks
      /\ handle' \in Handles \cup {None}
      /\ handle' # None => /\ ((handle'.size = 0) <=> (handle'.head = None))
                           /\ Len(staged') = handle'.size
      /\ staged' \in Text /\ res' \in {"ok", "synced"} /\ pc' = "idle" /\ job' = None
  BY <1>1, <1>3, CommittedTypes
<1>5. UNCHANGED <<ops, crashes, faults>>
  BY DEF CommitAppend, CommitCompact, CommitRelocate, CommitStale
<1>6. CASE CommitStale
  <2>1. cells' \in [Blocks -> [1 .. BlockSize -> Cell]]
    BY <1>2, <1>6, ScrapType DEF CommitStale, RestOK
  <2>2. RestOK' /\ Lengths'
    BY <1>2, <1>4, <1>5, <1>6, <2>1 DEF CommitStale, RestOK, Lengths
  <2> QED BY <1>4, <2>2, Idle
<1>7. CASE ~CommitStale
  <2>1. Land /\ cells' = cells
        /\ (log' = [log EXCEPT ![1] = @ \cup Published] \/ log' = <<Published, log[1]>>)
    BY <1>7 DEF CommitAppend, CommitCompact, CommitRelocate
  <2>2. /\ entry' \in Files /\ ((entry'.size = 0) <=> (entry'.head = None))
        /\ durable' \in Text /\ Len(durable') = entry'.size
    BY <1>1, <2>1, Landed
  <2>3. /\ log' \in (SUBSET Files) \X (SUBSET Files)
        /\ \A f \in log'[1] \cup log'[2] : f.size > 0 /\ f.head # None
    BY <1>1, <2>1, Logs
  <2>4. pair' \in Blocks \X Blocks /\ pair'[1] # pair'[2] /\ rev' \in 0 .. Cycle - 1
    <3>1. pair \in Blocks \X Blocks /\ pair[1] # pair[2] /\ rev \in 0 .. Cycle - 1
          /\ NextRev \in 0 .. Cycle - 1
      BY <1>2, RevType DEF RestOK
    <3>2. CASE CommitAppend
      BY <3>1, <3>2 DEF CommitAppend
    <3>3. CASE CommitCompact
      BY <3>1, <3>3 DEF CommitCompact
    <3>4. CASE CommitRelocate
      <4>1. MoveAlloc.blocks[1] \in Blocks /\ MoveAlloc.blocks[1] \notin PairBlocks
        BY <1>1, <3>4, MoveAllots DEF CommitRelocate
      <4>2. pair' = <<MoveAlloc.blocks[1], pair[1]>> /\ rev' = NextRev
        BY <3>4 DEF CommitRelocate
      <4> QED BY <3>1, <4>1, <4>2 DEF PairBlocks
    <3> QED BY <1>7, <3>2, <3>3, <3>4
  <2>5. RestOK'
    BY <1>2, <1>4, <1>5, <2>1, <2>2, <2>3, <2>4 DEF RestOK
  <2>6. Lengths'
    BY <1>4, <2>2 DEF Lengths
  <2> QED BY <1>4, <2>5, <2>6, Idle
<1> QED BY <1>6, <1>7

LEMMA CommitFailTypes ==
    ASSUME JobOK, CommitRefused \/ CommitErr
    PROVE  JobOK'
<1>1. pc = "commit"
  BY DEF CommitRefused, CommitErr
<1>2. RestOK /\ Lengths
  BY <1>1, Commits0
<1>3. cache' = None \/ cache' \subseteq Blocks
  BY <1>1, <1>2, MoveAllots DEF CommitRefused, CommitErr, RestOK
<1>4. /\ pc' = "idle" /\ job' = None /\ res' \in {"corrupt", "full", "io"}
      /\ (handle' = None /\ staged' = <<>>) \/ (handle' = handle /\ staged' = staged)
  BY DEF CommitRefused, CommitErr, Returned, Fail, Refusal
<1>5. /\ log' \in (SUBSET Files) \X (SUBSET Files)
      /\ \A f \in log'[1] \cup log'[2] : f.size > 0 /\ f.head # None
  BY <1>1, Logs DEF CommitRefused, CommitErr
<1>6. /\ entry' \in Files /\ ((entry'.size = 0) <=> (entry'.head = None))
      /\ durable' \in Text /\ Len(durable') = entry'.size
  <2>1. CASE Land
    BY <1>1, <2>1, Landed
  <2>2. CASE UNCHANGED <<entry, durable>>
    BY <1>2, <2>2 DEF RestOK, Lengths
  <2> QED BY <2>1, <2>2 DEF CommitRefused, CommitErr
<1>7. /\ UNCHANGED <<cells, pair, rev, ops, crashes>>
      /\ faults' \in 0 .. MaxFaults
  BY <1>2, Constants DEF CommitRefused, CommitErr, RestOK
<1>8. staged' \in Text
  <2>1. <<>> \in Text
    BY DEF Text
  <2> QED BY <1>2, <1>4, <2>1 DEF RestOK
<1>9. RestOK' /\ Lengths'
  BY <1>2, <1>3, <1>4, <1>5, <1>6, <1>7, <1>8 DEF RestOK, Lengths
<1> QED BY <1>4, <1>9, Idle

LEMMA PowerLossTypes ==
    ASSUME JobOK, PowerLoss
    PROVE  JobOK'
<1>0. RestOK /\ Lengths
  BY TypeParts DEF JobOK
<1>1. /\ handle' = None /\ staged' = <<>> /\ cache' = None
      /\ job' = None /\ pc' = "idle" /\ res' = "ok" /\ UNCHANGED <<pair, rev, ops, faults>>
  BY DEF PowerLoss
<1>2. crashes' \in 0 .. MaxCrashes
  BY <1>0, Constants DEF PowerLoss, RestOK
<1>3. staged' \in Text
  BY <1>1 DEF Text
<1>4. CASE pc = "fill" /\ UNCHANGED <<entry, durable, log>>
           /\ \E left \in Residues : cells' = [cells EXCEPT ![job.tail] = left]
  <2>1. cells' \in [Blocks -> [1 .. BlockSize -> Cell]]
    <3>1. PICK row \in [1 .. BlockSize -> Cell] : cells' = [cells EXCEPT ![job.tail] = row]
      BY <1>4, FillType
    <3>2. job.tail \in Blocks
      BY <1>4, FillType
    <3> QED BY <1>0, <3>1, <3>2 DEF RestOK
  <2>2. RestOK' /\ Lengths'
    BY <1>0, <1>1, <1>2, <1>3, <1>4, <2>1 DEF RestOK, Lengths
  <2> QED BY <1>1, <2>2, Idle
<1>5. CASE pc = "commit" /\ Land /\ cells' = cells /\ log' = [log EXCEPT ![1] = @ \cup Published]
  <2>1. /\ entry' \in Files /\ ((entry'.size = 0) <=> (entry'.head = None))
        /\ durable' \in Text /\ Len(durable') = entry'.size
    BY <1>5, Landed
  <2>2. /\ log' \in (SUBSET Files) \X (SUBSET Files)
        /\ \A f \in log'[1] \cup log'[2] : f.size > 0 /\ f.head # None
    BY <1>5, Logs
  <2>3. RestOK' /\ Lengths'
    BY <1>0, <1>1, <1>2, <1>3, <1>5, <2>1, <2>2 DEF RestOK, Lengths
  <2> QED BY <1>1, <2>3, Idle
<1>6. CASE UNCHANGED <<cells, entry, durable, log>>
  <2>2. RestOK' /\ Lengths'
    BY <1>0, <1>1, <1>2, <1>3, <1>6 DEF RestOK, Lengths
  <2> QED BY <1>1, <2>2, Idle
<1> QED BY <1>4, <1>5, <1>6 DEF PowerLoss

LEMMA JobStep ==
    ASSUME JobOK, [Next]_vars
    PROVE  JobOK'
<1>1. CASE UNCHANGED vars
  BY <1>1 DEF vars, JobOK, TypeOK, Lengths, Running, RunOK, CommitOK, ExtendOK, ShrinkOK, Staged
<1>2. CASE Next
  BY <1>1, <1>2, OpenTypes, WriteTypes, GrowTypes, ShrinkTypes, TruncatePathTypes, HandleTypes,
     SyncTypes, CowWriteTypes, TakeBlocksTypes, NoSpaceTypes, WriteBlockTypes, WornTypes,
     FillTypes, SyncErrTypes, ExtendedTypes, CommitTypes, CommitFailTypes, PowerLossTypes
     DEF Next, Done
<1> QED BY <1>1, <1>2

\* The state of CtzFile has the type it should have, and the lengths and the offsets
\* that the calls of fs.rs and file.rs compute agree with each other.
THEOREM FileTypes == Spec => []TypeOK
<1>1. JobOK => TypeOK
  BY DEF JobOK
<1> QED BY <1>1, InitTypes, JobStep, PTL DEF Spec
=============================================================================
