------------------------------ MODULE CtzFile ------------------------------
(***************************************************************************)
(* The contents of one file: the CTZ chain that holds them, the streaming  *)
(* extend and the copy-on-write shrink that build the next chain next to   *)
(* the committed one (fs.rs), the File handle that batches several of them *)
(* before one commit (file.rs), and the allocator that must not hand out   *)
(* a block that any of them still needs (alloc.rs).                        *)
(*                                                                         *)
(* A block is a row of cells as wide as a skip pointer.  A cell is erased  *)
(* (FF), holds a block number, or holds a byte of the user's; bytes are    *)
(* chosen so that none of them reads as a block of the device.  Programs   *)
(* only clear bits: see Prog.                                              *)
(*                                                                         *)
(* The entry sits in one metadata pair.  MetaPair shows that a commit on   *)
(* it happens at once, so Commit is one step here; what is kept of the     *)
(* pair is where it is and which chains its two logs name.  Not here:      *)
(* files stored inline (other than the empty one), reads, the cursor of    *)
(* the handle (it is opened for append), and MAX_CTZ_WRITE_BLOCKS.         *)
(***************************************************************************)
EXTENDS Ctz, Sequences, SequencesExt

CONSTANTS BlockSize,       \* cells in a block
          NumBlocks,       \* blocks of the device, less the root pair's
          MaxTries,        \* MAX_BAD_BLOCK_RETRIES
          ZeroChunk,       \* cells in ZERO_CHUNK
          BlockCycles,     \* Storage::BLOCK_CYCLES
          Calls,           \* the calls the user makes
          Lens,            \* how many cells a write adds
          Sizes,           \* the sizes a file is cut or grown to
          MaxSize,         \* bounds of a behaviour
          MaxOps, MaxCrashes, MaxFaults,
          None

ASSUME FileAssumption ==
    /\ PtrSize = 1 /\ BlockSize \in Nat /\ BlockSize > 4
    /\ NumBlocks \in Nat /\ NumBlocks >= 2
    /\ MaxTries \in Nat /\ ZeroChunk \in Nat \ {0}
    /\ BlockCycles \in Int
    /\ Calls \subseteq {"open", "write", "set_len", "append", "rewrite", "truncate"}
    /\ Lens \subseteq Nat \ {0} /\ MaxSize \in Nat /\ Sizes \subseteq 1 .. MaxSize
    /\ MaxOps \in Nat /\ MaxCrashes \in Nat /\ MaxFaults \in Nat

VARIABLES cells,     \* block -> its cells
          pair,      \* the pair of the entry: <<active half, other half>>
          entry,     \* the committed CtzStruct, Empty for no chain
          rev,       \* its revision, modulo the cycle of should_relocate
          log,       \* the chains the tags of either half name
          handle,    \* the open File, or None
          cache,     \* Fs::used_cache
          job,       \* the locals of the call that runs, or None
          pc,        \* where it is: see Plan
          res,       \* how the last call returned
          durable,   \* what a remount must read
          staged,    \* what the handle must read
          ops, crashes, faults    \* counters for the bounds

vars == <<cells, pair, rev, entry, log, handle, cache, job, pc, res, durable,
          staged, ops, crashes, faults>>

Blocks == 0 .. NumBlocks - 1
FF     == -1
Bad    == -2              \* a cell that holds neither the old nor the new value
Byte(n) == NumBlocks + n
Zero   == Byte(0)
Empty  == [head |-> None, size |-> 0]
Scrap  == [x \in 1 .. BlockSize |-> Bad]

\* What a cell holds, the user's text, a CtzStruct, the handle, and the locals
\* of a call that writes or commits.
Cell    == Bad .. Byte(MaxOps)
Text    == Seq(Cell)
Files   == [head : Blocks \cup {None}, size : 0 .. MaxSize]
Handles == [parent : SUBSET Blocks, head : Blocks \cup {None}, size : 0 .. MaxSize,
            dirty : BOOLEAN]
Writes  == [call : {"write", "zero", "shrink", "append"}, f : Files, data : Text,
            more : Nat, want : Text, src : Blocks \cup {None}, off : 0 .. BlockSize,
            fill : 0 .. BlockSize, tail : Blocks \cup {None}, new : Seq(Blocks),
            done : Nat, own : SUBSET Blocks, ex : SUBSET Blocks, size : 0 .. MaxSize]
Commits == [call : {"sync", "close", "append"}, f : Files, want : Text]

ASSUME NoneAssumption ==
    None \notin Blocks /\ None \notin Handles /\ None \notin Writes /\ None \notin Commits

----------------------------------------------------------------------------
(* Reading a chain.                                                        *)

BlockCount(size) == block_count(size, BlockSize)

\* The first cell of block index i behind size cells of a file that ends there.
EndOf(size) == block_index_at_offset(size - 1, BlockSize)[2] + 1

\* Where block index i begins in the file.
StartOf(i) ==
    LET at[k \in 0 .. i] ==
            IF k = 0 THEN 0 ELSE at[k - 1] + content_bytes_in_block(k - 1, BlockSize)
    IN  at[i]

\* The index arithmetic is exact for the sizes of the model, and every block has
\* room behind its pointers.  For the block sizes and the file sizes that the
\* code admits this is a theorem: SizesAreExact in CtzFileLemmas.
SizesFit ==
    \A o \in 0 .. MaxSize - 1 :
        LET p == block_index_at_offset(o, BlockSize)
        IN  /\ p[1] \in 0 .. o
            /\ p[1] < 2 ^ 28
            /\ p[2] \in skip_pointers_in_block(p[1]) .. BlockSize - 1
            /\ o = StartOf(p[1]) + p[2] - skip_pointers_in_block(p[1])
            /\ \A i \in 0 .. p[1] : skip_pointers_in_block(i) < BlockSize

ASSUME SizesAssumption == SizesFit

Ptr(c, b, k) == IF b \in Blocks THEN c[b][k + 1] ELSE None

\* seek_block: from the head, block index from, down to block index target.
Seek(c, head, from, target) ==
    LET at[n \in 0 .. from] ==
            IF n = 0 THEN [i |-> from, b |-> head]
            ELSE LET x == at[n - 1]
                     k == jump(x.i, target)
                 IN  IF x.i = target THEN x
                     ELSE [i |-> x.i - 2 ^ k, b |-> Ptr(c, x.b, k)]
    IN  at[from].b

\* read_ctz_at
Content(c, f) ==
    [o \in 1 .. f.size |->
        LET p == block_index_at_offset(o - 1, BlockSize)
            b == Seek(c, f.head, BlockCount(f.size) - 1, p[1])
        IN  IF b \in Blocks THEN c[b][p[2] + 1] ELSE Bad]

\* collect_chain_blocks and walk_ctz_chain: the chain by index, two blocks
\* to a read where the header has two pointers.
Chain(c, f) ==
    LET n == BlockCount(f.size)
        at[j \in 0 .. n - 1] ==          \* block index n - 1 - j
            IF j = 0 THEN f.head
            ELSE IF j = 1 \/ (n - 1 - j) % 2 = 1 THEN Ptr(c, at[j - 1], 0)
            ELSE Ptr(c, at[j - 2], 1)
    IN  [i \in 1 .. n |-> at[n - i]]

ChainBlocks(c, f) == ToSet(Chain(c, f))

----------------------------------------------------------------------------
(* The allocator.                                                          *)

PairBlocks == {pair[1], pair[2]}

\* The chains a rescan marks: the live one (scan_used_blocks), or every one
\* a tag of either half names (scan_used_with_single_buf).
Named(raw) == IF raw THEN log[1] \cup log[2] ELSE {entry}

\* take_free_blocks, alloc_blocks_cached and alloc_one_block_cached_single_buf:
\* the n lowest free blocks by the cache, or by a rescan that also marks the
\* chain the caller still owns.  blocks is empty when there are not enough, or
\* when a walk leaves the device.
Alloc(n, excluded, owned, raw) ==
    LET Free(pool) == Blocks \ (pool \cup excluded)
        hit  == cache # None /\ Cardinality(Free(cache)) >= n
        walked == UNION {ChainBlocks(cells, f) : f \in Named(raw) \cup {owned}}
        pool == IF hit THEN cache ELSE PairBlocks \cup walked
        lowest[k \in 0 .. n] ==
            IF k = 0 THEN <<>>
            ELSE Append(lowest[k - 1], Min(Free(pool) \ ToSet(lowest[k - 1])))
        corrupt == ~hit /\ ~(walked \subseteq Blocks)
        enough == ~corrupt /\ Cardinality(Free(pool)) >= n
    IN  [corrupt |-> corrupt,
         blocks  |-> IF enough THEN lowest[n] ELSE <<>>,
         cache   |-> IF enough THEN pool \cup excluded \cup ToSet(lowest[n])
                     ELSE IF cache = None THEN None ELSE Blocks]

----------------------------------------------------------------------------
(* The device.                                                             *)

\* A program can clear bits and set none.
Prog(old, new) ==
    IF old = FF \/ new = Zero THEN new
    ELSE IF new = FF \/ old = new \/ old = Zero THEN old
    ELSE Bad

\* A block image: pointers, then data, then erased cells.
Image(ptrs, data) ==
    [x \in 1 .. BlockSize |->
        IF x <= Len(ptrs) THEN ptrs[x]
        ELSE IF x <= Len(ptrs) + Len(data) THEN data[x - Len(ptrs)] ELSE FF]

\* The cells of block b with data programmed behind its first off cells.
Filled(b, off, data) ==
    [x \in 1 .. BlockSize |->
        IF x \in off + 1 .. off + Len(data) THEN Prog(cells[b][x], data[x - off])
        ELSE cells[b][x]]

----------------------------------------------------------------------------
\* should_relocate: (block_cycles + 1) | 1 compactions from one move of the
\* pair to the next.  The directory was used before: any revision may come.
Cycle == IF BlockCycles <= 0 THEN 1 ELSE 2 * ((BlockCycles + 1) \div 2) + 1
NextRev == (rev + 1) % Cycle
ShouldRelocate == BlockCycles > 0 /\ NextRev = 0

Init ==
    /\ cells = [b \in Blocks |-> Scrap]
    /\ pair = <<0, 1>> /\ rev \in 0 .. Cycle - 1
    /\ entry = Empty /\ log = <<{}, {}>>
    /\ handle = None /\ cache = None
    /\ job = None /\ pc = "idle" /\ res = "ok"
    /\ durable = <<>> /\ staged = <<>>
    /\ ops = 0 /\ crashes = 0 /\ faults = 0

Constant(n, v) == [i \in 1 .. n |-> v]

\* What the n-th write writes: bytes of its own, or 0xFF.
Data(len) == {Constant(len, Byte(ops + 1)), Constant(len, FF)}

Begin(call) ==
    /\ pc = "idle" /\ call \in Calls /\ ops < MaxOps
    /\ ops' = ops + 1 /\ res' = "ok"

----------------------------------------------------------------------------
(* stream_ctz_extend, up to the first device write: where the data goes.   *)
(* A tail whose cells behind the end are erased is filled in place, and    *)
(* last; one that is not is copied first ("cow").  The rest goes to new    *)
(* blocks ("grow", then "write" for each).                                 *)

\* Mutant: what lies behind the end of the file is taken to be erased.
CleanAssumed(b, off, fill) == TRUE

Clean(b, off, fill) == \A x \in off + 1 .. off + fill : cells[b][x] = FF

Plan(call, f, data, more, want) ==
    LET n     == BlockCount(f.size)
        off   == IF n = 0 THEN BlockSize ELSE EndOf(f.size)
        fill  == IF Len(data) < BlockSize - off THEN Len(data) ELSE BlockSize - off
    IN  /\ job' = [call |-> call, f |-> f, data |-> data, more |-> more, want |-> want,
                   src |-> f.head, off |-> off, fill |-> fill, tail |-> f.head,
                   new |-> <<>>, done |-> 0, own |-> {}, ex |-> {},
                   size |-> f.size + Len(data)]
        /\ pc' = IF fill > 0 /\ ~Clean(f.head, off, fill) THEN "cow"
                 ELSE IF fill < Len(data) THEN "grow" ELSE "fill"

\* The call returns an error: whatever it wrote is left where it is.
Fail(how) ==
    /\ pc' = "idle" /\ res' = how /\ job' = None

----------------------------------------------------------------------------
(* The calls.                                                              *)

\* Fs::open on an existing entry.  An inline file must be truncated.
Open(truncate) ==
    /\ Begin("open") /\ handle = None
    /\ truncate \/ entry # Empty
    /\ handle' = [parent |-> PairBlocks, head |-> IF truncate THEN None ELSE entry.head,
                  size |-> IF truncate THEN 0 ELSE entry.size, dirty |-> truncate]
    /\ staged' = IF truncate THEN <<>> ELSE durable
    /\ UNCHANGED <<cells, pair, rev, entry, log, cache, job, pc, durable, crashes, faults>>

Staged == [head |-> handle.head, size |-> handle.size]

\* File::write
Write(data) ==
    /\ Begin("write") /\ handle # None
    /\ Plan("write", Staged, data, 0, staged \o data)
    /\ UNCHANGED <<cells, pair, rev, entry, log, handle, cache, durable, staged, crashes, faults>>

\* One chunk of File::set_len's zero fill; more cells follow it.
ZeroFill(f, count, want) ==
    LET chunk == IF count < ZeroChunk THEN count ELSE ZeroChunk
        zeros == Constant(chunk, Zero)
    IN  Plan("zero", f, zeros, count - chunk, want \o zeros)

\* File::set_len above the size, to zero, and shrink_ctz_head for the rest.
Grow(size) ==
    /\ Begin("set_len") /\ handle # None /\ size > handle.size
    /\ ZeroFill(Staged, size - handle.size, staged)
    /\ UNCHANGED <<cells, pair, rev, entry, log, handle, cache, durable, staged, crashes, faults>>

\* Mutant: the handle is not marked.
ClearNotDirty ==
    /\ Begin("set_len") /\ handle # None /\ handle.size > 0
    /\ handle' = [handle EXCEPT !.head = None, !.size = 0]
    /\ staged' = <<>>
    /\ UNCHANGED <<cells, pair, rev, entry, log, cache, job, pc, durable, crashes, faults>>

\* Mutant: the handle keeps the head of the chain it gives up.
ClearKeepsHead ==
    /\ Begin("set_len") /\ handle # None /\ handle.size > 0
    /\ handle' = [handle EXCEPT !.size = 0, !.dirty = TRUE]
    /\ staged' = <<>>
    /\ UNCHANGED <<cells, pair, rev, entry, log, cache, job, pc, durable, crashes, faults>>

Clear ==
    /\ Begin("set_len") /\ handle # None /\ handle.size > 0
    /\ handle' = [handle EXCEPT !.head = None, !.size = 0, !.dirty = TRUE]
    /\ staged' = <<>>
    /\ UNCHANGED <<cells, pair, rev, entry, log, cache, job, pc, durable, crashes, faults>>

Shrink(size) ==
    /\ Begin("set_len") /\ handle # None /\ size > 0 /\ size < handle.size
    /\ ChainBlocks(cells, Staged) \subseteq Blocks     \* or Corrupt, with nothing done
    /\ LET old  == Chain(cells, Staged)[BlockCount(size)]
           want == SubSeq(staged, 1, size)
       IN  \/ /\ EndOf(size) = BlockSize
              /\ handle' = [handle EXCEPT !.head = old, !.size = size, !.dirty = TRUE]
              /\ staged' = want
              /\ UNCHANGED <<job, pc>>
           \/ /\ EndOf(size) < BlockSize
              /\ job' = [call |-> "shrink", f |-> Staged, data |-> <<>>, more |-> 0,
                         want |-> want, src |-> old, off |-> EndOf(size), fill |-> 0,
                         tail |-> old, new |-> <<>>, done |-> 0, size |-> size,
                         own |-> ChainBlocks(cells, Staged), ex |-> {}]
              /\ pc' = "cow"
              /\ UNCHANGED <<handle, staged>>
    /\ UNCHANGED <<cells, pair, rev, entry, log, cache, durable, crashes, faults>>

\* File::sync and File::close.
Sync(close) ==
    /\ pc = "idle" /\ handle # None /\ handle.dirty
    /\ job' = [call |-> IF close THEN "close" ELSE "sync", f |-> Staged, want |-> staged]
    /\ pc' = "commit" /\ res' = "ok"
    /\ UNCHANGED <<cells, pair, rev, entry, log, handle, cache, durable, staged, ops,
                   crashes, faults>>

\* A sync that finds the handle clean.
CleanSync ==
    /\ pc = "idle" /\ handle # None /\ ~handle.dirty /\ res # "synced"
    /\ res' = "synced"
    /\ UNCHANGED <<cells, pair, rev, entry, log, handle, cache, job, pc, durable, staged, ops,
                   crashes, faults>>

Drop ==
    /\ pc = "idle" /\ handle # None
    /\ handle' = None /\ staged' = <<>> /\ res' = "ok"
    /\ UNCHANGED <<cells, pair, rev, entry, log, cache, job, pc, durable, ops, crashes, faults>>

\* append_to_path: a chain is extended, the empty inline file is written anew.
AppendPath(data) ==
    /\ Begin("append") /\ handle = None
    /\ Plan("append", entry, data, 0, durable \o data)
    /\ UNCHANGED <<cells, pair, rev, entry, log, handle, cache, durable, staged, crashes, faults>>

\* write_ctz_to_pair: the chain of a new file, next to the old one.
Rewrite(data) ==
    /\ Begin("rewrite") /\ handle = None
    /\ Plan("append", Empty, data, 0, data)
    /\ UNCHANGED <<cells, pair, rev, entry, log, handle, cache, durable, staged, crashes, faults>>

\* truncate_path: read what stays, pad it with zeros, write it anew.
TruncatePath(size) ==
    /\ Begin("truncate") /\ handle = None /\ size > 0
    /\ LET now  == Content(cells, entry)
           data == [i \in 1 .. size |-> IF i <= Len(now) THEN now[i] ELSE Zero]
           want == [i \in 1 .. size |-> IF i <= Len(durable) THEN durable[i] ELSE Zero]
       IN  Plan("append", Empty, data, 0, want)
    /\ cache' = None
    /\ UNCHANGED <<cells, pair, rev, entry, log, handle, durable, staged, crashes, faults>>

----------------------------------------------------------------------------
(* The device steps of stream_ctz_extend and shrink_ctz_head.              *)

Static == <<pair, rev, entry, log, durable, ops, crashes>>

\* Step 1 of the extend, and the shrink: the kept cells of block src on a
\* fresh block.  A shrink excludes its chain always, an extend on a rescan.
CowAlloc ==
    IF job.call = "shrink"
    THEN Alloc(1, job.own \cup job.ex, Empty, FALSE)
    ELSE Alloc(1, job.ex, job.f, FALSE)

CowWrite ==
    /\ pc = "cow" /\ CowAlloc.blocks # <<>>
    /\ LET b == CowAlloc.blocks[1]
           kept == SubSeq(cells[job.src], 1, job.off)
       IN  /\ cells' = [cells EXCEPT ![b] = Image(kept, SubSeq(job.data, 1, job.fill))]
           /\ job' = [job EXCEPT !.tail = b, !.ex = {}]
    /\ cache' = CowAlloc.cache
    /\ pc' = IF job.fill < Len(job.data) THEN "grow" ELSE "sync"
    /\ UNCHANGED <<Static, handle, res, staged, faults>>

\* Mutant: a rescan does not know the chain that is being extended.
BaseUnnamed == Empty

\* The blocks of the chain that the call keeps while it adds to it.
Base == IF job.f.size = 0 THEN Empty ELSE [head |-> job.tail, size |-> job.f.size]

\* Step 2: all the new blocks at once.
GrowAlloc ==
    Alloc(BlockCount(job.size) - BlockCount(job.f.size), job.ex, Base, FALSE)

TakeBlocks ==
    /\ pc = "grow" /\ GrowAlloc.blocks # <<>>
    /\ job' = [job EXCEPT !.new = GrowAlloc.blocks, !.done = 0]
    /\ cache' = GrowAlloc.cache
    /\ pc' = "write"
    /\ UNCHANGED <<Static, cells, handle, res, staged, faults>>

Refusal(alloc) == IF alloc.corrupt THEN "corrupt" ELSE "full"

NoSpace ==
    /\ \/ pc = "cow" /\ CowAlloc.blocks = <<>>
          /\ cache' = CowAlloc.cache /\ Fail(Refusal(CowAlloc))
       \/ pc = "grow" /\ GrowAlloc.blocks = <<>>
          /\ cache' = GrowAlloc.cache /\ Fail(Refusal(GrowAlloc))
    /\ UNCHANGED <<Static, cells, handle, staged, faults>>

\* The pointers of the next new block, block index NewIndex of the file.
NewIndex == BlockCount(job.f.size) + job.done

NewPtrs ==
    LET n == BlockCount(job.f.size)
        target(k) == NewIndex - 2 ^ (k - 1)
    IN  [k \in 1 .. skip_pointers_in_block(NewIndex) |->
            IF target(k) >= n THEN job.new[target(k) - n + 1]
            ELSE Seek(cells, job.tail, n - 1, target(k))]

\* Its image.
NewImage ==
    LET first == StartOf(NewIndex) - job.f.size
        last  == StartOf(NewIndex + 1) - job.f.size
    IN  Image(NewPtrs,
              SubSeq(job.data, first + 1, IF last < Len(job.data) THEN last ELSE Len(job.data)))

\* Mutant: the retry loop is not left.
WriteBlockRetried ==
    /\ pc = "write"
    /\ cells' = [cells EXCEPT ![job.new[job.done + 1]] = NewImage]
    /\ job' = [job EXCEPT !.done = @ + 1]
    /\ pc' = IF job.done + 1 < Len(job.new) THEN "write" ELSE "grow"
    /\ UNCHANGED <<Static, handle, cache, res, staged, faults>>

\* Behind the last new block comes the fill of the tail, unless it was copied.
\* A seek that leaves the device ends the call.
WriteBlock ==
    /\ pc = "write"
    /\ IF ToSet(NewPtrs) \subseteq Blocks
       THEN /\ cells' = [cells EXCEPT ![job.new[job.done + 1]] = NewImage]
            /\ job' = [job EXCEPT !.done = @ + 1]
            /\ pc' = IF job.done + 1 < Len(job.new) THEN "write"
                     ELSE IF job.fill > 0 /\ job.tail = job.src THEN "fill" ELSE "sync"
            /\ UNCHANGED res
       ELSE UNCHANGED cells /\ Fail("corrupt")
    /\ UNCHANGED <<Static, handle, cache, staged, faults>>

\* An erase or a program that fails, or whose read back disagrees: the block
\* is excluded and all of the call's blocks are taken again.
Worn ==
    /\ pc \in {"cow", "write"} /\ faults < MaxFaults
    /\ pc = "cow" => CowAlloc.blocks # <<>>
    /\ pc = "write" => ToSet(NewPtrs) \subseteq Blocks
    /\ LET b == IF pc = "cow" THEN CowAlloc.blocks[1] ELSE job.new[job.done + 1]
       IN  /\ cells' = [cells EXCEPT ![b] = Scrap]
           /\ \/ /\ Cardinality(job.ex) < MaxTries
                 /\ job' = [job EXCEPT !.ex = @ \cup {b}, !.new = <<>>, !.done = 0]
                 /\ pc' = IF pc = "cow" THEN "cow" ELSE "grow"
                 /\ cache' = None
                 /\ UNCHANGED res
              \/ /\ Cardinality(job.ex) >= MaxTries
                 /\ Fail("io")
                 /\ cache' = IF pc = "cow" THEN CowAlloc.cache ELSE cache
    /\ faults' = faults + 1
    /\ UNCHANGED <<Static, handle, staged>>

\* Step 3: the cells behind the end of the committed tail, in place.
Fill ==
    /\ pc = "fill"
    /\ cells' = [cells EXCEPT ![job.tail] = Filled(job.tail, job.off, SubSeq(job.data, 1, job.fill))]
    /\ pc' = "sync"
    /\ UNCHANGED <<Static, handle, cache, job, res, staged, faults>>

\* What a fill that fails or is cut off leaves: a prefix, or a torn cell after it.
Residues ==
    {Filled(job.tail, job.off, SubSeq(job.data, 1, k) \o torn) :
        k \in 0 .. job.fill - 1, torn \in {<<>>, <<Bad>>}}

\* It cannot move to another block: the new ones point at this one already.
FillErr ==
    /\ pc = "fill" /\ faults < MaxFaults
    /\ \E left \in Residues : cells' = [cells EXCEPT ![job.tail] = left]
    /\ faults' = faults + 1
    /\ Fail("io")
    /\ UNCHANGED <<Static, handle, cache, staged>>

SyncErr ==
    /\ pc = "sync" /\ faults < MaxFaults
    /\ faults' = faults + 1
    /\ Fail("io")
    /\ UNCHANGED <<Static, cells, handle, cache, staged>>

\* Storage::sync succeeds and the call goes on where it was.
Extended ==
    LET head == IF job.new # <<>> THEN job.new[Len(job.new)] ELSE job.tail
        f    == [head |-> head, size |-> job.size]
        moved(dirty) == [handle EXCEPT !.head = head, !.size = job.size, !.dirty = dirty]
    IN  /\ pc = "sync"
        /\ \/ /\ job.call \in {"write", "shrink"} \/ (job.call = "zero" /\ job.more = 0)
              /\ handle' = moved(TRUE) /\ staged' = job.want
              /\ pc' = "idle" /\ job' = None /\ res' = "ok"
           \/ /\ job.call = "zero" /\ job.more > 0
              /\ handle' = moved(handle.dirty) /\ staged' = job.want
              /\ ZeroFill(f, job.more, job.want)
              /\ UNCHANGED res
           \/ /\ job.call = "append"
              /\ job' = [call |-> "append", f |-> f, want |-> job.want]
              /\ pc' = "commit"
              /\ UNCHANGED <<handle, staged, res>>
        /\ UNCHANGED <<Static, cells, cache, faults>>

----------------------------------------------------------------------------
(* commit_update_ctz: one commit that publishes the chain.                 *)

\* The call returns.  A sync drops the allocator's cache.
Committed(newCache) ==
    /\ cache' = IF job.call = "append" THEN newCache ELSE None
    /\ handle' = IF job.call = "sync" THEN [handle EXCEPT !.dirty = FALSE] ELSE None
    /\ staged' = IF job.call = "sync" THEN staged ELSE <<>>
    /\ res' = IF job.call = "append" THEN "ok" ELSE "synced"
    /\ pc' = "idle" /\ job' = None

\* The handle commits to the address it was opened with.
AtLivePair == IF job.call = "append" THEN TRUE ELSE handle.parent = PairBlocks

Published == IF job.f.size = 0 THEN {} ELSE {job.f}

Land ==
    /\ entry' = job.f /\ durable' = job.want

CommitAppend ==
    /\ pc = "commit" /\ AtLivePair
    /\ Land
    /\ log' = [log EXCEPT ![1] = @ \cup Published]
    /\ Committed(cache)
    /\ UNCHANGED <<cells, pair, rev, ops, crashes, faults>>

CommitCompact ==
    /\ pc = "commit" /\ AtLivePair /\ ~ShouldRelocate
    /\ Land
    /\ log' = <<Published, log[1]>>
    /\ pair' = <<pair[2], pair[1]>> /\ rev' = NextRev
    /\ Committed(cache)
    /\ UNCHANGED <<cells, ops, crashes, faults>>

\* Mutant: the chain about to be published is not named to the allocator.
MoveAllocUnnamed == Alloc(1, PairBlocks, Empty, TRUE)

\* A compaction that moves the pair takes its fresh block with one buffer.
MoveAlloc == Alloc(1, PairBlocks, job.f, TRUE)

CommitRelocate ==
    /\ pc = "commit" /\ AtLivePair /\ ShouldRelocate
    /\ MoveAlloc.blocks # <<>>
    /\ Land
    /\ log' = <<Published, log[1]>>
    /\ pair' = <<MoveAlloc.blocks[1], pair[1]>> /\ rev' = NextRev
    /\ Committed(MoveAlloc.cache)
    /\ UNCHANGED <<cells, ops, crashes, faults>>

\* A handle whose pair has moved commits to the block the pair gave up.
CommitStale ==
    /\ pc = "commit" /\ ~AtLivePair
    /\ cells' = [b \in Blocks |-> IF b \in handle.parent \ PairBlocks THEN Scrap ELSE cells[b]]
    /\ Committed(cache)
    /\ UNCHANGED <<pair, rev, entry, log, durable, ops, crashes, faults>>

Returned(how) ==
    /\ Fail(how)
    /\ handle' = IF job.call = "close" THEN None ELSE handle
    /\ staged' = IF job.call = "close" THEN <<>> ELSE staged

\* The allocation of a relocation fails: nothing was written.
CommitRefused ==
    /\ pc = "commit" /\ AtLivePair /\ ShouldRelocate
    /\ MoveAlloc.blocks = <<>>
    /\ Returned(Refusal(MoveAlloc)) /\ cache' = MoveAlloc.cache
    /\ UNCHANGED <<cells, pair, rev, entry, log, durable, ops, crashes, faults>>

\* The device refuses the commit, or its sync: it may be there all the same.
CommitErr ==
    /\ pc = "commit" /\ faults < MaxFaults
    /\ \/ AtLivePair /\ Land /\ log' = [log EXCEPT ![1] = @ \cup Published]
       \/ UNCHANGED <<entry, durable, log>>
    /\ faults' = faults + 1
    /\ Returned("io")
    /\ UNCHANGED <<cells, pair, rev, cache, ops, crashes>>

----------------------------------------------------------------------------
\* The device loses power wherever the call is, and is mounted again.
PowerLoss ==
    /\ crashes < MaxCrashes /\ crashes' = crashes + 1
    /\ \/ /\ pc = "fill"
          /\ \E left \in Residues : cells' = [cells EXCEPT ![job.tail] = left]
          /\ UNCHANGED <<entry, durable, log>>
       \/ /\ pc = "commit" /\ AtLivePair /\ Land
          /\ log' = [log EXCEPT ![1] = @ \cup Published]
          /\ UNCHANGED cells
       \/ UNCHANGED <<cells, entry, durable, log>>
    /\ handle' = None /\ staged' = <<>> /\ cache' = None
    /\ job' = None /\ pc' = "idle" /\ res' = "ok"
    /\ UNCHANGED <<pair, rev, ops, faults>>

Proceed ==
    \/ CowWrite \/ TakeBlocks \/ NoSpace \/ WriteBlock \/ Fill \/ Extended
    \/ CommitAppend \/ CommitCompact \/ CommitRelocate \/ CommitStale \/ CommitRefused

\* The user makes no call.
Done == pc = "idle" /\ UNCHANGED vars

Next ==
    \/ \E truncate \in BOOLEAN : Open(truncate)
    \/ \E len \in Lens : \E data \in Data(len) :
          /\ handle # None => handle.size + len <= MaxSize
          /\ handle = None => entry.size + len <= MaxSize
          /\ Write(data) \/ AppendPath(data) \/ Rewrite(data)
    \/ \E size \in Sizes : Grow(size) \/ Shrink(size) \/ TruncatePath(size)
    \/ Clear \/ Sync(TRUE) \/ Sync(FALSE) \/ CleanSync \/ Drop
    \/ CowWrite \/ TakeBlocks \/ NoSpace \/ WriteBlock \/ Worn \/ Fill \/ FillErr
    \/ SyncErr \/ Extended
    \/ CommitAppend \/ CommitCompact \/ CommitRelocate \/ CommitStale \/ CommitRefused
    \/ CommitErr \/ PowerLoss \/ Done

Spec == Init /\ [][Next]_vars

\* A call that has begun runs on: the code never waits for anyone.  This is
\* WF_vars(Proceed), as Proceed is enabled exactly when a call is running.
FairSpec == Spec /\ ([]<>(pc = "idle") \/ []<><<Proceed>>_vars)

----------------------------------------------------------------------------
(* Properties.                                                             *)

TypeOK ==
    /\ cells \in [Blocks -> [1 .. BlockSize -> Cell]]
    /\ pair \in Blocks \X Blocks /\ pair[1] # pair[2] /\ rev \in 0 .. Cycle - 1
    /\ entry \in Files /\ ((entry.size = 0) <=> (entry.head = None))
    /\ log \in (SUBSET Files) \X (SUBSET Files)
    /\ \A f \in log[1] \cup log[2] : f.size > 0 /\ f.head # None
    /\ handle \in Handles \cup {None}
    /\ handle # None => ((handle.size = 0) <=> (handle.head = None))
    /\ cache = None \/ cache \subseteq Blocks
    /\ pc \in {"idle", "cow", "grow", "write", "fill", "sync", "commit"}
    /\ (pc = "idle") <=> (job = None)
    /\ pc = "commit" => job \in Commits
    /\ pc \notin {"idle", "commit"} => job \in Writes
    /\ res \in {"ok", "io", "full", "corrupt", "synced"}
    /\ durable \in Text /\ staged \in Text
    /\ ops \in 0 .. MaxOps /\ crashes \in 0 .. MaxCrashes /\ faults \in 0 .. MaxFaults

\* What the last commit published reads back unchanged at every moment:
\* through extends that fill its last block in place, through shrinks,
\* dropped handles, calls that fail half way and power cuts, until the
\* next commit replaces it (stream_ctz_extend's "nothing acknowledged is
\* lost").
CommittedIntact == Content(cells, entry) = durable

\* The chain a handle has staged reads as what was written through it, also
\* after calls on it that returned an error.
HandleIntact == (pc = "idle" /\ handle # None) => Content(cells, Staged) = staged

\* No block is both a metadata block and part of a chain that is in use,
\* committed or staged.
MetadataApart ==
    /\ PairBlocks \cap ChainBlocks(cells, entry) = {}
    /\ handle # None => PairBlocks \cap ChainBlocks(cells, Staged) = {}

\* File::sync: "After this returns, a remount sees the file at its in-memory
\* state", whether it had something to commit or not.
SyncIsDurable ==
    (handle # None /\ res = "synced") => Content(cells, entry) = Content(cells, Staged)

\* Error::Corrupt says that the filesystem is beyond repair: no call on one
\* that reads back in full returns it.
NoFalseCorrupt == res # "corrupt"

\* Every call returns: retries are bounded.
CallReturns == pc # "idle" ~> pc = "idle"
=============================================================================
