# TLA+ models of littlefs2-pure

littlefs2-pure is a `no_std` Rust implementation of the littlefs v2 on-disk
format. It promises that a filesystem survives power loss at any moment and
blocks that wear out, on devices where a program can only clear bits. Those
promises depend on the order of flash writes across several blocks, on what a
mount makes of an interrupted sequence, and on an allocator that must not hand
out a block which something not yet committed still needs. Tests reach such
orders one at a time; this directory states them as TLA+ modules, checks them
exhaustively on small instances with TLC, and proves the safety properties of
five of the components for every instance with TLAPS.

Paths below are relative to the repository: `src/fs.rs` and so on.

## 1. The system

| Part | State | Operations | Hard because |
|---|---|---|---|
| Metadata pair (`meta.rs`, `fs.rs`) | two blocks, each a revision and a log of commits | append, compact, evict a worn half, wear relocation | torn programs, torn erases, stale halves, wrapping revisions, silent corruption |
| Directory tree and thread (`fs.rs`) | DirStructs (tree), tails (thread), gstate totals | `mkdir`, `rmdir`, `rename`, `propagate_relocation`, `mount`, `deorphan_sweep` | each operation is several commits on several pairs; a relocation changes addresses others hold |
| Gstate (`gstate.rs`) | XOR of bodies over all pairs | MoveState, RelocateState | totals and deltas; who is counted, and how often |
| Allocator (`alloc.rs`) | a bitmap cached in RAM, rebuilt by scans | cached allocation, two scans, in-flight exclusions | blocks in use that no commit names |
| CTZ skip list (`ctz.rs`) | chain of blocks with skip pointers | index arithmetic, seek | boundaries |
| File contents (`fs.rs`) | the chain of a file | `stream_ctz_extend`, `shrink_ctz_head`, `write_ctz_to_pair`, `truncate_path` | the committed tail block is filled in place before the commit |
| `File` handle (`file.rs`) | head, size, dirty flag, parent pair | `open`, `write`, `set_len`, `sync`, `close`, drop | an uncommitted chain that only RAM knows; cached addresses |
| `NorAlignedStorage` (`nor.rs`) | one dirty window in RAM | `read`, `read_device`, `program`, `erase`, `sync` | errors reported late; verification must not be answered from RAM |
| Directory entries (`dir.rs`, `fs.rs`) | a log of tags: Create/Delete over ids, names, structs, attributes | lookup, listing, `set_attr`, `rename_in_dir`, rebuild of a log | ids are renumbered by every splice; four walkers must agree; sizes decide which path a commit takes |
| Directory split (`fs.rs`) | HardTail continuations | `split_directory_pair`, `program_split_continuation`, `finish_split_lower_half` | several programs before the commit that names them; budget of pairs; worn blocks half way |
| Paths, superblock, geometry, tags, CRC | none or constant | parsing, validation | pure functions |

Calls go `File` -> `Fs` -> commit on a pair -> `Storage`. A commit that
relocates its pair calls back into the commit path for the parent and the thread
predecessor (`propagate_relocation`), which may relocate in turn. There are no
threads: what interleaves with a call is power loss, device failure, and
whatever an earlier call left half done.

`PROJECT.json` lists the hazards line by line, with the property that guards
each.

## 2. Modules

```
AtomicPair   what a pair promises: an atomic, durable register
   ^  refinement (checked by TLC, proved by TLAPS)
MetaPair     one pair, window by window            MetaPairProofs
   :  licence to treat a commit as one step
DirTree      tree, thread, splits, gstate, mount   (commits are steps)
CtzFile      contents of a file, File handle       CtzFileLemmas, CtzFileProofs
   |  EXTENDS
Ctz          skip list arithmetic                  CtzLemmas
   |  EXTENDS
MCCtz        a reference layout, byte by byte      CtzProofs

Directory    what a directory promises: a listing of named entries
   ^  refinement (checked by TLC)
DirLog       one directory's logs, tag by tag      DirLogProofs
             and byte by byte

NorCache     the write cache below all of it       NorCacheProofs

SetInduction induction and recursion, as the proofs use them
```

**MetaPair.** A block is its revision word, the end of its verified commits, the
content they replay to, and how far its cells have been programmed. Everything
the reader concludes (`has_commits`, `erased`, the active half of
`MetadataPair::parse`) is a function of these. `job` holds the locals of
`apply_op_to_pair_inner` and `compact_and_program`; the phases `compact`,
`erase`, `program`, `verify`, `relocate`, `repoint`, `cancel`, `sync` follow the
code, with one program step for each window. The device may fail any call, may
report success and keep wrong bytes, and may lose power in the middle of a
program or an erase; an interrupted erase may leave the old log, a shorter one,
or garbage. Blocks the pair does not own are rewritten by others
(`ReuseFree`), so that a fresh block carries a foreign image.

**DirTree.** A block holds a metadata image: revision, entries, tail, the
MoveState and RelocateState totals, and every pair its log names (the
single-buffer scan follows superseded tags too). `todo` is the call stack of
the commit path: its head is the commit that runs next. Each commit is appended, compacted,
relocated for wear (`WearCommit`, then `CopyFresh` or `CopyFails`) or evicted
from a worn half (`WornHalf`), and each relocation pushes the repointing
commits of `propagate_relocation`, which looks up parent and predecessor first.
A total is a set of bodies and XOR is symmetric difference. `Mount` decodes the
totals, completes a move, cancels a relocation and sweeps, each by commits of
the same kind that power loss can interrupt again.

A directory is a chain of pairs joined by hard tails. A commit whose image
is over half a block is a split: `SplitStart` puts the cuts on `todo`, `SplitCut`
programs one continuation after another on fresh blocks, highest entries
first, `SplitLower` programs the lower part with a hard tail to the first of
them, and only then is anything committed. Each of them has its worn variant
(`SplitCutWorn` tries other blocks, `SplitLowerWorn` relocates the pair), and
`SplitDegrades` writes one block after all when there are no blocks left. Sizes
are weights here (`RangeSize`, `SplitIndex`); `Setups` gives the weight that
makes a split. `MaxCuts` holds the root's floor of free blocks and the
budget of pairs (`MAX_QUEUED_PAIRS` is a field of a setup). Removing a split
directory, stealing the gstate of its whole chain and sweeping an orphaned
chain follow the same chains.

**DirLog.** A directory as its logs: each log is the sequence of its tags, where
its last commit ends, whether the window after it is erased, and whether it
carries gstate and a tail. `SpliceStep`, `Gather`, `Lookup`, `AttrGet`,
`LiveAttrs`, `ListLog` are the walkers of `dir.rs`; `EmitOp` and `EmitRange` are
the two ways tags are written; `OpDsize`, `FinishPadded`, `EmitsFcrc`,
`CanAppend`, `SplitIndex` are the size arithmetic, in bytes. Each call finds its
entry (`Seek`), asks for one commit (`WriteRequest` ...), and `Commits` is the
set of what that commit may become: appended, rebuilt on a fresh block because
the append failed, compacted in place or relocated, cut into parts when there
are pairs for it. A call that fails records why. Power cuts that matter at this level
leave a window that is not erased (`TornAppend`).

**Directory** is the same without ids, logs or bytes: an accepted call changes
the listing by exactly what it asked for, a refused one does not change it.
`DirLog!ImplementsDirectory` is the refinement; `listing`, which the readers
compute from the logs, is the mapping.

**CtzFile.** A block is a row of cells as wide as a pointer: erased, a block
number, or a user's byte. A program can only clear. `Plan` is
`stream_ctz_extend` up to its first write; `cow`, `grow`, `write`, `fill`,
`sync` are its device phases, and `shrink_ctz_head` shares the first. `Alloc` is
the cached allocator with its rescan; a walk or a seek that leaves the device
ends the call with `Error::Corrupt`. Commits are single steps that append,
compact, or relocate the pair. `durable` and `staged` are history variables:
what a remount, and the handle, should read.

**Ctz** keeps the names and formulas of `ctz.rs`. **MCCtz** compares them with
files laid out byte by byte. **NorCache** has one action for each outcome of each
call of `nor.rs`; `want` records what the kernel was told, `sure` what it has
verified on the chip.

A definition whose comment starts with "Mutant" is a plausible wrong version of
the one that follows it. No specification uses it; `PROJECT.json` names, for
each property, the one that must violate it.

## 3. Runs

| Run | Asks | Bounds |
|---|---|---|
| MCMetaPair | pair: types, mountable, erased cells, stale half older, atomic | 3 blocks, 2 windows, revisions mod 8, 1 fault, any number of commits, cuts and wraps |
| MCPairReturns | every commit returns, with several worn blocks | 3 blocks, 1 window, revisions mod 10, 2 faults, 2 tries |
| MCTree | crash atomicity of all operations; relocation cascades among siblings with a worn block; relocation up a path with a cut | setups `Crash` (3 operations, 1 cut), `Cascade` (3 operations, 1 fault), `Nested` (A/B, 2 operations, 1 cut); 2 directories and a file |
| MCTreeSplit | splits: cuts, worn blocks, wear, emptied chains, the root, no blocks left, the budget; relocation with a cut in recovery; mount ends | setups of `SplitSetups`: a block holds 4 entries and splits above 2 (`OneDir`: never); up to 4 directories, 5 operations, 2 cuts, 1 fault, budget of 5 or 6 pairs |
| MCDirLog | all walkers agree, sizes fit, removal lands, a directory is implemented | blocks of 128 bytes, program units of 4, 8 images (2 of them foreign), 3 or 4 calls, up to 3 pairs, 5 names, 6 live entries |
| MCCtz | arithmetic against the layout | block sizes 128, 136, 256; offsets to 1400 |
| MCFileCalls | every call keeps committed contents and metadata apart, and returns | 6 blocks of 5 cells (the device fills up), 3 calls, 1 cut, 1 fault, pair relocates |
| MCFileHandle | handle: committed and staged contents, sync | 8 blocks of 5 cells, 4 calls, 1 cut, 1 fault, no pair relocation |
| MCNorCache | the write cache | 2 blocks of 2 windows of 2 cells, 2 programs, 1 fault, 1 failed read, 1 cut |
| MCHalfOrphanMove (violation) | crash atomicity with relocation and moves | 2 directories and a file, 2 operations, 1 cut, 1 worn block |
| MCSyncStale (violation) | sync with pair relocation | 4 calls and their syncs, no faults |
| MCDirLogFull (violation) | a log past the entries a reader accepts | blocks of 256 bytes, 4 live entries, split above 3 |

The setups of a tree run are its initial states: a run checks all of them, and
each says which names may be made or moved, how large a block is, whether
relocation happens (`cycles`), and how many operations, cuts and faults there
are.

Why these bounds are enough to mean something. A pair needs three blocks for a
relocation; MCPairReturns lets the one candidate wear out and MCPairFaults adds a
fourth block, so that the second candidate succeeds; two windows tell a
commit that starts at a boundary from one that is half there; revisions modulo 8
wrap within a behaviour whose length is not bounded. (The range must exceed
twice the number of faults, as 2^32 does: this is an assumption of the module,
and the proof shows that it suffices.) Two directories give siblings, parent and
child, thread predecessors that are and are not the parent, and moves in each
direction; three operations are what it takes to make, move and remove. With
two entries to half a block a directory of two entries splits at the next one, a full
one is cut twice, and five operations split a directory, empty both parts and
remove it. MCDirLog's 128 bytes are the smallest block the geometry check
admits: a log is full after a few calls, and names and bodies of 2 to 24
bytes reach its end at different offsets. With
`BLOCK_CYCLES` 1 a pair relocates on every third revision, and the initial
states differ in the revisions, so that every subset of pairs can be about to
move. A file of eleven cells (MCFileHandle) has three blocks and so a block with two
skip pointers; MCFileCalls stays with two blocks and fills the device instead. The bounded counters (`ops`, `crashes`, `faults`) bound how often
something happens and never where.

Deadlock is checked in every passing run but MCDirLog, which stops when its
callers have made their calls: the other modules say explicitly where a user may
leave the system alone.

**Fairness.** Nothing obliges a user to make a call. Once a call has begun, the
code runs on without waiting for anyone, and every storage call returns; so the
steps of a call are weakly fair, and no failure or power cut is. A device that lost
power is assumed to be mounted again. In `DirTree` and `CtzFile` weak fairness
is written out (`[]<>~guard \/ []<><<A>>_vars`), with the guard that says when
the action is enabled; TLC evaluates this much faster than `ENABLED`.

### What the runs show

Where the passing runs are restricted, a configuration that lifts the
restriction shows why. Three of these are runs of the project:

* **MCHalfOrphanMove.** A cut between the parent's and the predecessor's commit
  of a relocation leaves the pair reachable at two addresses. `accumulate_gstate`
  counts its MoveState total at both; the next mount may see a move that nobody
  has in flight and delete a live entry. So the setup `Crash` has no
  relocation, and `Nested` no moves of directories.
* **MCSyncStale.** A sync that relocates the parent pair leaves `File::parent`
  behind; the next sync commits to a block nobody reads and returns Ok.
  (MCFileHandle therefore has no pair relocation.)
* **MCDirLogFull.** A reader refuses a log with more than `MAX_LIVE_ENTRIES`
  (256) live entries, and no writer checks that number: the limit of
  `compute_split_index` acts at a compaction only. With blocks of 8 KiB the
  257th small entry is appended, its call returns Ok, and the directory, hence the
  filesystem, can no longer be read. (In smaller blocks the split at half a
  block comes first, as long as there are pairs for it; MCDirLog does not get to
  its limit of six within its calls.)

`PROJECT.json` quotes the sentences they contradict.

### Further configurations

These are kept to be run by hand (`tlc -config X.cfg <module>`). Three pass:
MCPairFaults (four blocks, two faults: 739,510 states) and MCRootPair (the root
pair, which has nowhere to move, with three windows: 157,040 states), what they
ask being also proved in section 4; and MCTreeOneDir (one directory, three
operations, two cuts and a worn block: 146,776 states). The others end in the violation named here, and
each contradicts a sentence of the repository:

| Configuration, module | Violates | What happens, and the sentence it contradicts |
|---|---|---|
| MCNestedRelocation, MCDirTree | OneBodyAtMost | When the parent's commit of a relocation relocates the parent too (`fs.rs:4893`), the totals on flash add up to several RelocateState bodies at a commit boundary, and a mount would decode an address no commit ever named. `gstate.rs:233`: "A non-zero aggregate at mount time indicates a half-completed relocation that `Fs::mount` cancels via a balancing recovery commit on `old_pair`". `CanMount` is not enabled in such a state, since what the code then does depends on the bit patterns of the addresses. |
| MCMovedDirRelocates, MCDirTree | ThreadIsTree | A directory that is being renamed and is relocated by the same cascade has two parents for a moment; `find_parent_in_tree` may repoint the entry that rename deletes next. `fs.rs:4887`: the predecessor "must be re-pointed at `new_pair` to keep the global metadata-pair list consistent". |
| MCHalfOrphanRecovery, MCDirTree | ThreadIsTree | Recovery cancels a relocation by a commit at the outdated address (`fs.rs:5810`), which shares a block with the live pair. If that commit compacts, `relocated_twin_in` no longer recognises the twin and the sweep drops a live pair. `fs.rs:5700`: "Reclaiming instead would permanently drop a live pair from the thread". |
| MCRenameError, MCDirTree | MountLosesNoName | If rename's second commit fails with an error (`fs.rs:3452`) and the handle is used on, ids change under the recorded MoveState and a later mount deletes another entry. `fs.rs:5739`: "recovery runs at mount, before any user operation can renumber it". |
| MCSweepSplits, MCDirTree | NamespaceAtomic | `deorphan_sweep` collects the live tree once (`fs.rs:5645`). Its own un-threading commit clears or repoints a tail, which may force a compaction, which may split the pair; the new continuation is not in the collected tree, and the sweep's next turn drops it with its entries. `fs.rs:5637`: it drops "any pair that is in the thread but not a live tree directory". |
| MCSplitInflight, MCDirTree | NamespaceAtomic | When the lower half of a split meets a worn alternate, the pair is relocated with the continuations excluded (`fs.rs:4830`), but the cascade that follows gets the caller's `inflight` without them (`fs.rs:3749`) and may hand their blocks out again. `fs.rs:410`: "Blocks the allocator must treat as in-use during a commit even though no committed metadata references them yet". |
| MCSplitMove, MCDirTree | NamespaceAtomic | The cascade of a rename's first commit may split the pair the source is in. `propagate_relocation` remaps the source's pair and nothing remaps its id; the Delete is appended at an id the lower half does not have, and the pair can no longer be read. `fs.rs:3448`: "the target address is the source pair's CURRENT location, remapped through any cascade". |
| MCBudgetCuts, MCDirTree | WithinBudget | mkdir reserves two pairs, and the commit's split may cut twice: the forest outgrows what mount can queue. `fs.rs:2902`: "up to two new reachable pairs". |
| MCBudgetRelocates, MCDirTree | WithinBudget | The same with a relocation: mkdir's own commit adds one, and the cascade's commits may split other pairs. `KNOWN_ISSUES.md:85`: the writer "refuses *at write time* to grow the reachable forest past the budget". |
| MCZeroFill, MCCtzFile | SyncIsDurable | A `set_len` that fails between two zero chunks (`file.rs:591`) leaves a longer handle that is not dirty, and sync skips it. `file.rs:603`: "After this returns, a remount sees the file at its in-memory state". MCFileHandle therefore fills in one chunk. |
| MCStaleWalk, MCCtzFile | NoFalseCorrupt | The single-buffer scan walks superseded chains into reused blocks (`alloc.rs:630`) and reports `Error::Corrupt` on an intact filesystem. `alloc.rs:506`: 'a safe over-approximation of "in use"'. |
| MCOldTail, MCCtzFile | HandleIntact | A write that copies the uncommitted tail of a handle names the copy to the allocator and not the original (`fs.rs:2532`). A rescan, on a nearly full device or after a worn block, hands the original out again; if the call then fails, the handle still ends in that block. It takes two device failures: one that leaves residue behind the staged end, so that the tail is copied, and one after the copy. `fs.rs:2541`: "the existing chain (and the tail bytes already packed in step 1) are untouched"; `alloc.rs:697`: "it can never mark a live block as free". |
| MCNorLoadError, MCNorCache | ReadsOwnWrites | A failed read in `load_window` (`nor.rs:140`) may leave another window's bytes in the cache under the old address. `nor.rs:16`: "Reads splice that window in, so a caller sees its own pending bytes". |

## 4. Proofs

### The metadata pair

`MetaPairProofs` proves, for every set of blocks, every content, every number of
windows, retries and faults and every even revision range with
`MaxFaults + 2 < RevMod / 2`:

* `TypeCorrect`, `Mountable`, `ErasedCells`, `StaleIsOlder`: the four invariants
  MCMetaPair checks;
* `Atomic`: `MetaPair` implements `AtomicPair`, initial states and every step
  (`Spec => IsAtomic`).

None of the invariants is inductive. Which half a mount picks is a comparison
of two revision words, so `IInv` says at every
phase of a commit which half wins and by how much. `PairInv`: some half has a
commit and is ahead of the other by at least one and at most `faults + 1`
revisions. `JobInv`: the locals agree with the blocks. A compaction's target is
the losing half, a fresh block is not of the pair, the windows before
`job.pos` and no others are programmed, an image whose program has been
verified is the new one at revision `job.rev`, and the half a relocation evicts
is the loser, or the winner after at least one counted fault. That last clause is
why the distance is bounded by the faults: an evicted active half skips a
revision. `Beats`, `IsDone`, `IsEvictable` are the vocabulary; there is one lemma
for each action (`EraseOkStep`, `ProgramErrStep`, ...), and lemmas for the steps
actions share (`StartCommitFacts`, `WriteFailedFacts`, `AfterWrite`,
`NextWindowFacts`). The refinement reuses `IInv`: `EraseKeepsVisible` and
`WriteVisible` say that only the last clean window of a commit, or the
repointing, changes what a mount reads.

### The write cache

`NorCacheProofs` proves the four invariants of MCNorCache for every geometry and
every number of programs, faults and cuts: `NorTypes`, `NorReadsOwnWrites`,
`NorVerifiedIsDurable`, `NorOnlyCachedPending`. All but the first assume
`ReadsAreClean`, a chip whose failed reads leave the buffer alone; MCNorLoadError
shows that they fail without it. What has to be added to make them inductive is
small and is the point of the adapter's design: the cache never holds an erased
cell where the chip holds a programmed one (`CacheCovers`), and agrees with the
chip on what was verified there (`CacheAgrees`). A flush that tears then leaves
any mixture of old and new and still contradicts nothing that was promised.

### The skip list

`CtzProofs` proves the three invariants of MCCtz for every block size from
`BLOCK_SIZE_MIN` on and every offset of a file (`LayoutAssumption`):
`FormulaIsLayout`, `CountIsLayout`, `SeekIsLogarithmic`. The layout is built by
the steps of the run, so the invariant `LayoutInv` says that the start of the
current block is the closed formula `Start`. `CtzLemmas` has the arithmetic: a
block index is taken apart into its lowest bit and the rest, `StartStep` says
what adding one does to the number of its bits, `IndexAtOffset` that the
division in `block_index_at_offset` needs no second correction. For the descent,
`HopsLeft` is a measure that every jump lowers.

Statements about recursive functions and about all numbers below a bound need an
induction. The library's induction theorems take an operator, which the provers
here cannot instantiate; `SetInduction` states induction about sets instead
(from the well-foundedness of the natural numbers), and the existence of a
recursively defined function as the existence of a sequence of steps
(`StepsExist`). The function-valued recursions of `CtzFile` (`StartOf`, `Seek`,
`Chain`, the `lowest` of `Alloc`) are reasoned about through them.

### The contents of a file

The proofs about `CtzFile` hold for every size of a block, of the device and of
the file, every bound on retries and every number of calls and cuts.

* `CtzFileLemmas`: where a byte lies (`Place`, `Ends`, `Grows`), what a seek and a
  walk find along a linked chain (`SeekLinked`, `ChainLinked`), what a read
  returns (`ContentReads`), which blocks the allocator hands out
  (`AllocAllots`), and how chains are cut, extended and copied (`ChainPrefix`,
  `Assembled`, `ChainReplace`). `SizesAreExact` discharges the assumption
  `SizesAssumption`, which CtzFile makes about its constants, for every block of
  128 bytes or more and every file of up to 2 GiB, all that `geometry.rs` and the
  format admit; TLC evaluates it for the small blocks of the runs. The module
  ends with `FileTypes`, whose invariant `JobOK` ties the offsets and lengths in
  the locals of a call together.
* `CtzFileProofs`: `FileCommittedIntact`, `FileHandleIntact`,
  `FileMetadataApart`, `FileSyncIsDurable`.

The inductive invariant `IInv` says that there are three chains of blocks: `e`,
the committed one, `s`, the one the handle has staged, and `w`, the one the
running call builds. Each is linked, reads as its history variable says, avoids
the pair and is known to the allocator's cache (`Good`). The clauses that make it
inductive are the ones the code's comments argue about. `TailFree`: what lies
behind the end of a staged chain is not committed data, and is erased unless the
tail is a committed block or the device has failed before; so the fill in place
damages nothing. `NewPart`: nobody has the new blocks. `Written`: the new blocks
hold their pointers and data up to `job.done`. `Exposed`: the exception, while a
call has copied a staged tail that no chain known to the allocator contains.
There is one lemma per action (`CowExtendKept`, `WriteBlockKept`, `WornKept`,
...).

`MetadataApart` needs more: while `Exposed`, the staged chain may be
overwritten, and a walk of it reads anything. `Pure` says that no cell of the
device, no data of a call and no handle holds the number of a block of the pair.
`SyncIsDurable` needs `Settled`: a handle that is not dirty has the committed
chain.

The hypotheses are where the code really stops keeping the promise:

* `Sheltered`: where handles are used, the device fails once at most and the
  pair stays where it is (`MaxFaults <= 1`, `BlockCycles <= 0`); for calls by path
  there is no restriction. MCSyncStale shows the failure with a pair that
  moves, MCOldTail the one with two device failures. The second was found by the
  proof: with two failures `IInv` is not inductive at the step where a rescan
  hands out the original of a copied tail.
* `OneChunk`: `set_len` fills in one chunk, or is not called. MCZeroFill shows
  the failure without it.

### The logs of a directory

`DirLogProofs` proves `LogTypes`, `LogAppendFits`, `LogRebuildFits` and
`LogRemoveLands` for every geometry, every length of a name, a struct or an
attribute and every bound on entries and pairs. `DataAssumption` says that
lengths are natural numbers and nothing more about them (and that the model value
`None` is not a log); `ImageAssumption` that a directory starts as a chain of logs
that were programmed, each but the last with its tail, and, if it is said to be
this writer's (`own`), that each of them is `Written`: its commits hold its tags
and deltas, with the forward CRC if the window after them is erased, and it is no
shorter than its rebuild, but for the Create that `format` leaves out of the
superblock's entry. TLC evaluates the assumption for every image of the runs; the
two images in another writer's style are not `own`.

`AppendFits` says that no call fails because an append that `can_append`
admitted cannot be finished. Along the calls this is arithmetic about two
computations the code keeps apart: `OpDsize` adds up what an operation will
take, `EmitOp` writes it. `EmitOpBytes` shows the first to be the bytes of the
second and the closing CRC, operation by operation (for an entry with
attributes this is a sum over the attributes, `NewEntryBytes`); `FinishPaddedIs`
that a commit whose tags and CRC fit ends at a program unit within the block,
with or without the forward CRC. The invariant `LogInv` is needed because the
argument starts from where the last commit ended: every log ends at a program
unit, which an append, a rebuild (`OneCommitType`), each part of a split
(`PartsType`), an eviction and a torn append have to keep.

The types are more than bookkeeping in two places. `SplitIndexType`: the search
for the entry where a directory is cut ends, and within the range
(`ClimbExists`), so that the parts of a split are ranges of its entries.
`ChainAfter`: when a log is replaced by the parts of its split, the last of them
gets the tail the log had, so that the rest of the chain stays reachable. The
walkers are folds of recursive functions over the tags; each has a lemma that
the function exists (`GatherExist`, `AttrWalkExist`, `LiveAttrsExist`,
`FlattenExist`, `KeptExist`) by `StepsExist` of `SetInduction`, and one for what
it returns.

`RebuildFits` and `RemoveLands` are about a rebuild that is not split: an
eviction writes the live set in one piece with a RelocateState that no check
counted, and a removal with no pair left for a split must land in one piece. The
code has no test at either place but the length of the buffer. The inductive
invariant `OwnInv` says that every log a walker can replay is `Owned`: it ends
behind all it holds (`Holds`), and its live set, rebuilt, takes no more bytes
than its tags do. The second half is the work of the proof:

* `LiveBytes` is the size of the rebuild: the sum, over the entries `Gather` finds
  live, of a Create, the NAME and STRUCT of the slot and the attributes the
  backward walk finds. `TagGrows`, and from it `AppendGrows`: a tag appended in its
  place, and so an operation's tags, add at most their own length to that sum. A splice shifts the slots and, in the backward walk, the
  ids, by the same places, so that every other entry keeps its weight; a NAME, a
  STRUCT or an attribute replaces the one before it or adds itself; a Delete takes
  an entry away. An operation lands where `Seek` puts it (`Placed`), which is what
  makes the NAME behind a Create fall on the entry that Create made.
* `WholeBytes`: a rebuild with an operation folded in takes no more than the live
  set and the operation's tags, and a removal takes at least a tag less, the tag
  that pays for the superblock's Create. `RangeGrows`: what a rebuild or a part of
  a split writes is `Owned` again, so that the argument goes on from there.
* `DeltasAfter`: the gstate deltas and the tail a log ends up with are covered by
  those it had and those `can_append` counted. The RelocateState of an eviction is
  not among them. It fits because `can_append` only appends behind an FCRC: the
  log's own FCRC and CCRC, 20 bytes, are what the rebuild leaves out, and a
  RelocateState is 20 bytes (`RebuildTakes`). At the limit the rebuilt commit ends
  exactly at the block's end.

### Only model-checked

* `CommitReturns`, `Remounts`, `CallReturns`: liveness under fairness is outside
  this prover.
* `DirLog`: `ImplementsDirectory`, whose mapping is a listing put together by
  nested folds (what they compute needs an induction over the logs for each way a
  commit can land); and `Replays`, which does not hold for every instance
  (MCDirLogFull).
* `DirTree`: all, its types too. Its invariants are about the faults and cuts a
  setup allows together, and fail where they are allowed together otherwise (the
  configurations of section 3); a proof would have to carry those restrictions
  through breadth-first walks of the tree.

## 5. Not modelled

* Contents stored inline: in `CtzFile` only the empty file is, in `DirLog` inline
  bodies are opaque; `MAX_CTZ_WRITE_BLOCKS`; the 1 KiB stage of a rename's
  attributes.
* Tags, parity and CRCs byte by byte; a CRC is taken to detect every torn or
  corrupted commit.
* mkdir's retry over worn candidates and its failure on a full device (the
  relocations' are modelled).
* Path parsing and name resolution (`DirTree` starts from resolved names),
  superblock and geometry checks, `read_range`, the storage trait: pure, or an
  interface whose contract the device actions state. The Kani harnesses are the
  repository's own proofs.
* Images from outside: every initial state is one the program can reach, except
  two images of MCDirLog that follow the C implementation's habits. A foreign log
  without Create tags can be smaller than its rebuild, so that `RebuildFits` is
  stated for this writer's logs. (The comment at `fs.rs:3806` bounds
  the rebuilt image by BLOCK_SIZE - 8; with the relocation's own RelocateState
  it can be exactly BLOCK_SIZE, which still fits.) A thread closed into a cycle
  (`BrentTailWalk`) is not modelled.
* Orders of a mount that the code leaves to bit patterns: `CanMount` says where.

## 6. Plan

The routine runs are to stay few: a later module's run replaces one whose
question a proof or a larger run has taken over.

1. `CtzFile`: reads at a cursor, inline files and their growth into chains.
2. Proofs: `DirLog`'s refinement, for which the lemmas about what one more tag
   does to `Gather` and to the backward walk (`AppendGrows` and what it rests on)
   are the start; `Replays` where fewer than `MaxLive` entries are live.
   `DirTree`'s allocator (`AllocBy` returns blocks
   outside the scan and the exclusions) and `AlwaysParses`, which needs little
   more than that a commit writes the half a mount does not pick. `CtzFile` with
   handles and several device failures, once the original of a copied tail is
   named to the allocator.
