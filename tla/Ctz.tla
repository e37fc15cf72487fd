-------------------------------- MODULE Ctz --------------------------------
(***************************************************************************)
(* The arithmetic of a CTZ skip list (ctz.rs): how many skip pointers      *)
(* block i of a file starts with, where byte offset off of the file lies,  *)
(* and which pointers lead from the head of the chain to a given block.    *)
(* Sizes are in bytes; a skip pointer takes PtrSize of them.               *)
(***************************************************************************)
EXTENDS Integers, FiniteSets, FiniteSetsExt

CONSTANTS PtrSize

ASSUME PtrAssumption == PtrSize \in Nat \ {0}

\* A file is below 2^31 bytes and a block has 128 at least (geometry.rs), so a
\* block index is below 2^28.
Bits == 0 .. 27

\* u32::trailing_zeros of a non-zero word.
trailing_zeros(i) == CHOOSE k \in Bits : i % 2 ^ k = 0 /\ (i \div 2 ^ k) % 2 = 1

\* u32::ilog2
ilog2(n) == CHOOSE k \in Bits : n \div 2 ^ k = 1

popcount(a) == Cardinality({k \in Bits : (a \div 2 ^ k) % 2 = 1})

\* Mutant: the pointer to the block before is not counted.
skip_pointers_uncounted(index) == IF index = 0 THEN 0 ELSE trailing_zeros(index)

skip_pointers_in_block(index) == IF index = 0 THEN 0 ELSE trailing_zeros(index) + 1

content_bytes_in_block(index, block_size) ==
    block_size - PtrSize * skip_pointers_in_block(index)

\* Mutant: the headers of the blocks before are corrected for once too often.
block_index_overcorrected(offset, block_size) ==
    LET b  == block_size - 2 * PtrSize
        i0 == offset \div b
        i  == (offset - PtrSize * (popcount(i0) + 2)) \div b
    IN  IF i0 = 0 THEN <<0, offset>>
        ELSE <<i, offset - b * i - PtrSize * popcount(i)>>

\* The block that holds byte offset of the file, and where in it, the
\* header counted in.
block_index_at_offset(offset, block_size) ==
    LET b  == block_size - 2 * PtrSize
        i0 == offset \div b
        i  == (offset - PtrSize * (popcount(i0 - 1) + 2)) \div b
    IN  IF i0 = 0 THEN <<0, offset>>
        ELSE <<i, offset - b * i - PtrSize * popcount(i)>>

block_count(size, block_size) ==
    IF size = 0 THEN 0 ELSE block_index_at_offset(size - 1, block_size)[1] + 1

\* Mutant: the largest jump the block has, however close the target is.
jump_too_far(idx, target) == trailing_zeros(idx)

\* seek_block: the exponent of the jump from block idx towards target.
jump(idx, target) ==
    IF ilog2(idx - target) < trailing_zeros(idx) THEN ilog2(idx - target)
    ELSE trailing_zeros(idx)
=============================================================================
