------------------------------- MODULE MCCtz -------------------------------
(***************************************************************************)
(* The closed formulas of Ctz against the layout they stand for: blocks    *)
(* filled one after the other.  The state is a byte offset and a block     *)
(* size; the behaviours visit all of them up to the bounds.                *)
(***************************************************************************)
EXTENDS Ctz

CONSTANTS BlockSizes, MaxOffset

\* The floor of the block size is BLOCK_SIZE_MIN (geometry.rs), 32 pointers of
\* 4 bytes.  An offset is a u32, and below 30 * PtrSize * 2^28 in any case.
ASSUME LayoutAssumption ==
    /\ BlockSizes \subseteq {n \in Nat : n >= 32 * PtrSize}
    /\ MaxOffset \in Nat /\ MaxOffset \div (30 * PtrSize) < 2 ^ 28

VARIABLES off, bs, start, index

vars == <<off, bs, start, index>>

\* The layout, by induction on the offset: block index starts at byte start
\* of the file and the next byte goes there as long as there is room.
Init == off = 0 /\ bs \in BlockSizes /\ start = 0 /\ index = 0

Next ==
    /\ off < MaxOffset
    /\ off' = off + 1
    /\ IF off + 1 < start + content_bytes_in_block(index, bs)
       THEN UNCHANGED <<start, index>>
       ELSE index' = index + 1 /\ start' = off + 1
    /\ UNCHANGED bs

Done == off = MaxOffset /\ UNCHANGED vars

Spec == Init /\ [][Next \/ Done]_vars

\* block_index_at_offset, which divides and counts bits, finds the block
\* and the position that filling the blocks one by one arrives at.
IndexMatchesLayout ==
    block_index_at_offset(off, bs) =
        <<index, PtrSize * skip_pointers_in_block(index) + off - start>>

\* A file whose last byte is at off needs the blocks up to that one: the
\* count is exact on both sides of every block boundary.
CountMatchesLayout == block_count(off + 1, bs) = index + 1

\* Every descent from the head of the chain, whatever block it looks for,
\* jumps along pointers the blocks really have, never past its target, and
\* arrives in at most two hops for each bit of the distance.
SeekArrives ==
    \A target \in 0 .. index :
        LET hops[n \in 0 .. 2 * 28] ==
                IF n = 0 THEN index
                ELSE IF hops[n - 1] = target THEN target
                ELSE hops[n - 1] - 2 ^ jump(hops[n - 1], target)
            bound == IF index = target THEN 0 ELSE 2 * (ilog2(index - target) + 1)
        IN  /\ \A n \in 0 .. bound : hops[n] >= target
            /\ \A n \in 0 .. bound : hops[n] > target =>
                    jump(hops[n], target) < skip_pointers_in_block(hops[n])
            /\ hops[bound] = target
=============================================================================
