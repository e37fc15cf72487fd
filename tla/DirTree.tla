------------------------------ MODULE DirTree ------------------------------
(***************************************************************************)
(* The directory tree and the global metadata-pair thread: how one         *)
(* operation of fs.rs becomes a cascade of commits on several pairs, and   *)
(* what Fs::mount makes of a cascade that a power cut or a worn block      *)
(* broke off.                                                              *)
(*                                                                         *)
(* Every commit on one pair is a single step here (MetaPair shows that a   *)
(* mount sees it happen at once); what this module keeps is which block    *)
(* it lands on, because a relocated pair shares one block with the pair    *)
(* it was, and the order of the commits.  The call stack of                *)
(* apply_op_to_pair_inner and propagate_relocation is the sequence todo:   *)
(* its head is the commit that runs next.                                  *)
(*                                                                         *)
(* A gstate body is XORed into totals, so a total is the set of bodies it  *)
(* is made of and XOR is the symmetric difference.                         *)
(*                                                                         *)
(* A directory that outgrows half a block is split over a chain of pairs   *)
(* joined by HardTails.  Sizes count in units: Weight says how many units  *)
(* the tags of an entry take in a compacted block, and a log that still    *)
(* has room, or has not, is a choice of the model.                         *)
(*                                                                         *)
(* Not here: file contents; entries as tags, attributes and renames within *)
(* one directory (DirLog).                                                 *)
(***************************************************************************)
EXTENDS Integers, Sequences, FiniteSets, SequencesExt

CONSTANTS Dirs, Files,     \* the names a user can create
          Setups,          \* the devices and bounds a behaviour starts from
          NumBlocks,       \* Storage::BLOCK_COUNT
          Weight,          \* the size of each name's entry in a compacted block
          None

SuperName == "littlefs"

\* dirs: the directories made before the first operation, each in the one
\* before it (nested) or all in the root; files[i]: the files put into
\* directory i, the root being 0; half, whole: the sizes a compacted pair
\* should and can have; pairs: MAX_QUEUED_PAIRS; cycles:
\* Storage::BLOCK_CYCLES; makes and movable: the names the user creates and
\* renames; carryOn: does the user go on after an error, or remount.
ASSUME TreeAssumption ==
    /\ NumBlocks \in Nat /\ NumBlocks >= 2
    /\ Weight \in [Dirs \cup Files \cup {SuperName} -> Nat \ {0}]
    /\ \A s \in Setups :
          /\ s.dirs \in Seq(Dirs) /\ s.files \in [0 .. Len(s.dirs) -> Seq(Files)]
          /\ s.makes \subseteq Dirs \cup Files /\ s.movable \subseteq Dirs \cup Files
          /\ s.half \in Nat /\ s.whole \in Nat /\ s.half <= s.whole
          /\ s.pairs \in Nat \ {0} /\ s.cycles \in Int /\ s.carryOn \in BOOLEAN /\ s.nested \in BOOLEAN
          /\ s.ops \in Nat /\ s.crashes \in Nat /\ s.faults \in Nat

VARIABLES setup,     \* the member of Setups this behaviour is about
          disk,      \* block -> the metadata image it holds
          todo,      \* the commits still to run, innermost first
          mode,      \* "idle", "busy", "mounting" or "off"
          pm,        \* Fs::pending_move
          cache,     \* Fs::used_cache
          res,       \* how the last call returned
          want,      \* the tree before and after the last operation
          ops, crashes, faults    \* counters for the bounds

vars == <<setup, disk, todo, mode, pm, cache, res, want, ops, crashes, faults>>

Blocks == 0 .. NumBlocks - 1
Root   == <<0, 1>>
Slash  == "/"
MAX_SPLIT_CUTS == 8

----------------------------------------------------------------------------
(* Blocks, pairs and walks.                                                *)

\* rev 0: no verified commit.  hard: the tail is a HardTail.  refs: every
\* pair a tag of the log names, superseded ones included.  ok: the splice
\* tags of the log replay.
Blank == [rev |-> 0, ents |-> <<>>, tail |-> None, hard |-> FALSE, ms |-> {}, rs |-> {},
          refs |-> {}, ok |-> TRUE]

SamePair(p, q) == {p[1], p[2]} = {q[1], q[2]}

BlocksOf(p) == {p[1], p[2]}

\* MetadataPair::parse
Active(d, p) == IF d[p[1]].rev >= d[p[2]].rev THEN p[1] ELSE p[2]

\* Mutant: a compaction rewrites the half it reads from.
OtherSame(p, x) == x

Other(p, x)  == IF x = p[1] THEN p[2] ELSE p[1]
Live(d, p)   == d[Active(d, p)]
Parses(d, p) == Live(d, p).rev > 0

Replace(p, victim, fresh) ==
    <<IF p[1] = victim THEN fresh ELSE p[1], IF p[2] = victim THEN fresh ELSE p[2]>>

Xor(A, B) == (A \ B) \cup (B \ A)

\* The child pairs of an image, in id order.
Children(x) ==
    LET dirs == SelectSeq(x.ents, LAMBDA e : e.dir # None)
    IN  [i \in DOMAIN dirs |-> dirs[i].dir]

AddNew(q, p) == IF p = None \/ \E i \in DOMAIN q : SamePair(q[i], p)
                THEN q ELSE Append(q, p)

\* The breadth-first walk of the pairs below root: by HardTails and live
\* DirStructs (collect_live_tree_pairs), or by any tail and the DirStructs
\* of each pair (accumulate_gstate, find_parent_in_tree, scan_used_blocks).
Walk(d, tails) ==
    LET queue[n \in 0 .. NumBlocks] ==
            IF n = 0 THEN <<Root>>
            ELSE LET q == queue[n - 1]
                 IN  IF n > Len(q) THEN q
                     ELSE LET x == Live(d, q[n])
                          IN  FoldLeft(AddNew, q,
                                 (IF tails \/ x.hard THEN <<x.tail>> ELSE <<>>) \o Children(x))
    IN  queue[NumBlocks]

Tree(d)   == Walk(d, FALSE)
Forest(d) == Walk(d, TRUE)

\* The thread: root and its successive tails (cut off when it cycles).
Thread(d) ==
    LET th[n \in 1 .. NumBlocks] ==
            IF n = 1 THEN <<Root>>
            ELSE LET q == th[n - 1]
                     t == Live(d, q[Len(q)]).tail
                 IN  IF Len(q) < n - 1 \/ t = None THEN q ELSE Append(q, t)
    IN  th[NumBlocks]

\* The pairs of the directory that starts at p: p and its HardTail
\* continuations.
Chain(d, p) ==
    LET ch[n \in 1 .. NumBlocks] ==
            IF n = 1 THEN <<p>>
            ELSE LET q == ch[n - 1]
                     x == Live(d, q[Len(q)])
                 IN  IF Len(q) < n - 1 \/ ~x.hard THEN q ELSE Append(q, x.tail)
    IN  IF Live(d, p).hard THEN ch[NumBlocks] ELSE <<p>>

\* Mutant: the walk starts behind the root.
ThreadPredPastRoot(d, target) ==
    LET th == Thread(d)
        S  == {i \in DOMAIN th : i > 1 /\ Live(d, th[i]).tail = target}
    IN  IF S = {} THEN None ELSE th[Min(S)]

\* find_thread_predecessor
ThreadPred(d, target) ==
    LET th == Thread(d)
        S  == {i \in DOMAIN th : Live(d, th[i]).tail = target}
    IN  IF S = {} THEN None ELSE th[Min(S)]

\* find_parent_in_tree: the first live DirStruct that names target.
Parent(d, target) ==
    LET q == Forest(d)
        Ids(p) == {i \in DOMAIN Live(d, p).ents : Live(d, p).ents[i].dir = target}
        S == {i \in DOMAIN q : Ids(q[i]) # {}}
    IN  IF S = {} THEN None
        ELSE LET p == q[Min(S)] IN [pair |-> p, id |-> Min(Ids(p))]

\* relocated_twin_in: the tree pair that shares a block with stale, and
\* does not have it as its active half.
Twin(d, tree, stale) ==
    LET S == {i \in DOMAIN tree :
                 /\ tree[i] # stale
                 /\ BlocksOf(tree[i]) \cap BlocksOf(stale) # {}
                 /\ LET t == tree[i]
                        shared == IF t[1] \in BlocksOf(stale) THEN t[1] ELSE t[2]
                    IN  Active(d, t) # shared}
    IN  IF S = {} THEN None ELSE tree[Min(S)]

InSeq(q, p) == \E i \in DOMAIN q : SamePair(q[i], p)

\* Mutant: the walk leaves out the root's own contribution.
MoveStatesBelowRoot(d) ==
    FoldLeft(LAMBDA acc, p : Xor(acc, Live(d, p).ms), {}, Tail(Forest(d)))

\* accumulate_gstate
MoveStates(d)     == FoldLeft(LAMBDA acc, p : Xor(acc, Live(d, p).ms), {}, Forest(d))
RelocateStates(d) == FoldLeft(LAMBDA acc, p : Xor(acc, Live(d, p).rs), {}, Forest(d))

----------------------------------------------------------------------------
(* The allocator: the lowest free block by the cached bitmap, or by a      *)
(* rescan when the cache is missing or exhausted.                          *)

\* scan_used_blocks
UsedLive(d) == UNION {BlocksOf(p) : p \in ToSet(Forest(d))}

\* scan_used_with_single_buf: every pair any tag of either half names.
UsedRaw(d) ==
    LET reach[n \in 0 .. NumBlocks] ==
            IF n = 0 THEN {Root}
            ELSE LET R == reach[n - 1]
                 IN  R \cup UNION {d[b].refs : b \in UNION {BlocksOf(p) : p \in R}}
    IN  UNION {BlocksOf(p) : p \in reach[NumBlocks]}

\* Mutant: blocks that are written but not yet named by any commit are free.
AllocByIgnoringInflight(cached, n, excluded, used) ==
    LET Free == Blocks \ used
    IN  IF Cardinality(Free) >= n
        THEN [blocks |-> IF n = 1 THEN <<Min(Free)>> ELSE <<Min(Free), Min(Free \ {Min(Free)})>>,
              cache  |-> None]
        ELSE [blocks |-> <<>>, cache |-> None]

\* take_free_blocks: the n lowest free blocks by the cache, or by the scan
\* when the cache is missing or cannot serve them.  No blocks: OutOfRange.
AllocBy(cached, n, excluded, used) ==
    LET Free(pool) == Blocks \ (pool \cup excluded)
        hit  == cached # None /\ Cardinality(Free(cached)) >= n
        pool == IF hit THEN cached ELSE used
        lowest[k \in 0 .. n] ==
            IF k = 0 THEN <<>>
            ELSE Append(lowest[k - 1], Min(Free(pool) \ ToSet(lowest[k - 1])))
        got  == lowest[n]
    IN  IF Cardinality(Free(pool)) >= n
        THEN [blocks |-> got, cache |-> pool \cup excluded \cup ToSet(got)]
        ELSE [blocks |-> <<>>, cache |-> IF cached = None THEN None ELSE Blocks]

Alloc(n, excluded, used) == AllocBy(cache, n, excluded, used)

----------------------------------------------------------------------------
(* Commits.                                                                *)

NoopOp         == [kind |-> "noop"]
CreateOp(e)    == [kind |-> "create", ent |-> e]
RemoveOp(i)    == [kind |-> "remove", id |-> i]
UpdateDirOp(i, p) == [kind |-> "update", id |-> i, dir |-> p]

Apply(ents, op) ==
    IF op.kind = "create" THEN Append(ents, op.ent)
    ELSE IF op.kind = "remove" /\ op.id \in DOMAIN ents THEN RemoveAt(ents, op.id)
    ELSE IF op.kind = "update" THEN [ents EXCEPT ![op.id].dir = op.dir]
    ELSE ents

\* The arguments of apply_op_to_pair_inner; ms and rs are deltas.  whole:
\* a split was tried and the pair is to be compacted in one piece.
Commit(p, op, ms, rs, infl) ==
    [k |-> "commit", pair |-> p, op |-> op, ms |-> ms, rs |-> rs,
     retail |-> FALSE, tail |-> None, hard |-> FALSE, infl |-> infl, whole |-> FALSE]

CommitTail(p, op, ms, rs, t, hard, infl) ==
    [Commit(p, op, ms, rs, infl) EXCEPT !.retail = TRUE, !.tail = t, !.hard = hard]

\* A new tail of None clears it, which an append cannot do.
Clears(c) == c.retail /\ c.tail = None

\* The pair a tag of op names.
Named(op) == IF op.kind = "update" THEN {op.dir}
             ELSE IF op.kind = "create" THEN {op.ent.dir} ELSE {}

InRange(ents, op) == op.kind = "remove" => op.id \in DOMAIN ents

\* Mutant: the tag holds the delta of this commit and not the new total.
AppendedDelta(c) ==
    LET x == Live(disk, c.pair)
    IN  [x EXCEPT !.ents = Apply(@, c.op), !.ok = @ /\ InRange(x.ents, c.op),
                  !.tail = IF c.retail THEN c.tail ELSE @,
                  !.hard = IF c.retail THEN c.hard ELSE @,
                  !.ms = IF c.ms = {} THEN @ ELSE c.ms,
                  !.rs = IF c.rs = {} THEN @ ELSE c.rs,
                  !.refs = (@ \cup Named(c.op) \cup {c.tail}) \ {None}]

\* The image of pair after commit c, appended to the log in place.
Appended(c) ==
    LET x == Live(disk, c.pair)
    IN  [x EXCEPT !.ents = Apply(@, c.op), !.ok = @ /\ InRange(x.ents, c.op),
                  !.tail = IF c.retail THEN c.tail ELSE @,
                  !.hard = IF c.retail THEN c.hard ELSE @,
                  !.ms = Xor(@, c.ms), !.rs = Xor(@, c.rs),
                  !.refs = (@ \cup Named(c.op) \cup {c.tail}) \ {None}]

\* build_compact_commit: live tags only.
Image(rev, ents, t, hard, ms, rs) ==
    LET x == [Blank EXCEPT !.rev = rev, !.ents = ents, !.tail = t, !.hard = hard,
                           !.ms = ms, !.rs = rs]
    IN  [x EXCEPT !.refs = (ToSet(Children(x)) \cup {t}) \ {None}]

\* The combined sequence a compaction emits: every live slot, None where the
\* operation removes it, and the new entry last.
Slots(c) ==
    LET ents == Live(disk, c.pair).ents
    IN  [i \in DOMAIN ents |->
            IF c.op.kind = "remove" /\ c.op.id = i THEN None
            ELSE IF c.op.kind = "update" /\ c.op.id = i THEN [ents[i] EXCEPT !.dir = c.op.dir]
            ELSE ents[i]]
        \o (IF c.op.kind = "create" THEN <<c.op.ent>> ELSE <<>>)

\* emit_compact_range and compact_range_size over the slots lo .. hi - 1.
Emitted(slots, lo, hi) == SelectSeq(SubSeq(slots, lo + 1, hi), LAMBDA e : e # None)

RangeSize(slots, lo, hi) ==
    FoldLeft(LAMBDA n, e : n + Weight[e.name], 0, Emitted(slots, lo, hi))

\* compute_split_index: what is cut off, hi - 1 downwards, is halved until
\* it fits.  0: no cut is needed.
SplitIndex(slots, hi) ==
    LET at[n \in 0 .. Len(slots)] ==
            IF n = 0 THEN 0
            ELSE LET lo == at[n - 1]
                 IN  IF hi - lo <= 1 \/ RangeSize(slots, lo, hi) <= setup.half
                     THEN lo ELSE lo + (hi - lo) \div 2
    IN  at[Len(slots)]

Fits(c) == RangeSize(Slots(c), 0, Len(Slots(c))) <= setup.whole

\* Mutant: a relocated image does not carry its relocation's body.
CompactedUnmarked(c, extra) ==
    LET y == Appended(c)
    IN  Image(y.rev + 1, Emitted(Slots(c), 0, Len(Slots(c))), y.tail, y.hard, y.ms, y.rs)

\* The pair compacted: one revision on, and the bodies in extra folded into
\* its RelocateState.
Compacted(c, extra) ==
    LET y == Appended(c)
    IN  Image(y.rev + 1, Emitted(Slots(c), 0, Len(Slots(c))), y.tail, y.hard, y.ms,
              Xor(y.rs, extra))

ShouldRelocate(p, rev) ==
    LET m == IF (setup.cycles + 1) % 2 = 0 THEN setup.cycles + 2 ELSE setup.cycles + 1
    IN  p # Root /\ setup.cycles > 0 /\ rev % m = 0

\* Mutant: the call never returns to its caller.
ProceedBusy(rest) == todo' = rest /\ UNCHANGED <<mode, res>>

\* The call in hand returns and the next commit is due.
Proceed(rest) ==
    /\ todo' = rest
    /\ mode' = IF rest = <<>> THEN "idle" ELSE mode
    /\ res'  = IF rest = <<>> /\ mode = "busy" THEN "ok" ELSE res

\* An error: every caller passes it on.  A mount gives no handle.
Fail ==
    /\ todo' = <<>>
    /\ mode' = IF mode = "mounting" THEN "off" ELSE "idle"
    /\ res'  = "err"
    /\ pm' = None

\* propagate_relocation, up to its first commit: the predecessor and the
\* parent are looked up before either is repointed.
Propagate(d, old, new, infl, rest) ==
    LET body   == <<old, new>>
        fresh  == IF old[1] = new[1] THEN new[2] ELSE new[1]
        pred   == ThreadPred(d, old)
        hard   == pred # None /\ Live(d, pred).hard
        parent == Parent(d, old)
        inner  == infl \cup {fresh}
    IN  \/ /\ parent # None
           /\ LET op == UpdateDirOp(parent.id, new)
              IN  IF pred = parent.pair
                  THEN Proceed(<<CommitTail(parent.pair, op, {}, {body}, new, hard, inner)>> \o rest)
                  ELSE Proceed(<<Commit(parent.pair, op, {}, {body}, inner)>>
                               \o (IF pred = None THEN <<>>
                                   ELSE <<CommitTail(pred, NoopOp, {}, {}, new, hard, {})>>)
                               \o rest)
           /\ pm' = IF pm # None /\ pm.pair = old THEN [pm EXCEPT !.pair = new] ELSE pm
        \/ /\ parent = None /\ pred # None
           /\ Proceed(<<CommitTail(pred, NoopOp, {}, {body}, new, hard, inner)>> \o rest)
           /\ pm' = IF pm # None /\ pm.pair = old THEN [pm EXCEPT !.pair = new] ELSE pm
        \/ parent = None /\ pred = None /\ Fail

Head1 == todo[1]
Rest  == SubSeq(todo, 2, Len(todo))
IsCommit == todo # <<>> /\ Head1.k = "commit"

\* How many continuations a split may cut off: bounded by the walks'
\* queues and, for the root, whose chain is never given back, by the free
\* blocks above an eighth of the device.
MaxCuts(c) ==
    LET room  == setup.pairs - Len(Tree(disk))
        free  == NumBlocks - Cardinality(UsedLive(disk))
        floor == NumBlocks \div 8
        fill  == IF free <= floor THEN 0 ELSE (free - floor + 1) \div 2
    IN  Min({MAX_SPLIT_CUTS, IF room < 0 THEN 0 ELSE room}
            \cup (IF c.pair = Root THEN {fill} ELSE {}))

Splits(c) == ~c.whole /\ SplitIndex(Slots(c), Len(Slots(c))) > 0 /\ MaxCuts(c) > 0

\* can_append: the log has room at least for what is live.
CanAppend(c) == ~Clears(c) /\ ~c.whole /\ Fits(c)

AppendCommit ==
    /\ IsCommit
    /\ CanAppend(Head1)
    /\ disk' = [disk EXCEPT ![Active(disk, Head1.pair)] = Appended(Head1)]
    /\ Proceed(Rest)
    /\ UNCHANGED <<pm, cache, want, ops, crashes, faults>>

\* compact_and_program without a split or a relocation.
CompactCommit ==
    /\ IsCommit
    /\ ~Splits(Head1) /\ Fits(Head1)
    /\ LET c == Head1
           act == Active(disk, c.pair)
       IN  /\ ~ShouldRelocate(c.pair, disk[act].rev + 1)
           /\ disk' = [disk EXCEPT ![Other(c.pair, act)] = Compacted(c, {})]
    /\ Proceed(Rest)
    /\ UNCHANGED <<pm, cache, want, ops, crashes, faults>>

\* Neither one block nor a split can take the live set: OutOfRange, before
\* anything is written.
CompactOverflows ==
    /\ IsCommit
    /\ ~Splits(Head1) /\ ~Fits(Head1)
    /\ LET c  == Head1
           al == Alloc(1, BlocksOf(c.pair) \cup c.infl, UsedRaw(disk))
       IN  cache' = IF ShouldRelocate(c.pair, Live(disk, c.pair).rev + 1) THEN al.cache
                    ELSE cache
    /\ Fail
    /\ UNCHANGED <<disk, want, ops, crashes, faults>>

\* A wear relocation: the alternate first, as an anchor.
WearCommit ==
    /\ IsCommit
    /\ LET c   == Head1
           act == Active(disk, c.pair)
           alt == Other(c.pair, act)
           al  == Alloc(1, BlocksOf(c.pair) \cup c.infl, UsedRaw(disk))
       IN  /\ ~Splits(c) /\ Fits(c)
           /\ ShouldRelocate(c.pair, disk[act].rev + 1)
           /\ cache' = al.cache
           /\ \/ /\ al.blocks = <<>>
                 /\ Fail
                 /\ UNCHANGED disk
              \/ /\ al.blocks # <<>>
                 /\ LET new == Replace(c.pair, alt, al.blocks[1])
                    IN  /\ disk' = [disk EXCEPT ![alt] = Compacted(c, {<<c.pair, new>>})]
                        /\ todo' = <<[k |-> "copy", pair |-> c.pair, from |-> alt,
                                      to |-> al.blocks[1], new |-> new, infl |-> c.infl]>> \o Rest
                 /\ UNCHANGED <<mode, res, pm>>
    /\ UNCHANGED <<want, ops, crashes, faults>>

\* Then the fresh block, the same bytes, and the new address.
CopyFresh ==
    /\ todo # <<>> /\ Head1.k = "copy"
    /\ disk' = [disk EXCEPT ![Head1.to] = disk[Head1.from]]
    /\ Propagate(disk', Head1.pair, Head1.new, Head1.infl, Rest)
    /\ UNCHANGED <<cache, want, ops, crashes, faults>>

\* A worn fresh block: the relocation is abandoned, its body cancelled.
CopyFails ==
    /\ todo # <<>> /\ Head1.k = "copy"
    /\ faults < setup.faults
    /\ disk' = [disk EXCEPT ![Head1.to] = Blank]
    /\ todo' = <<Commit(Head1.pair, NoopOp, {}, {<<Head1.pair, Head1.new>>}, Head1.infl)>> \o Rest
    /\ faults' = faults + 1
    /\ UNCHANGED <<mode, res, pm, cache, want, ops, crashes>>

\* A worn half, the active one under an append or the alternate under a
\* compaction, is evicted: the commit lands on a fresh block alone
\* (relocate_compact_to_fresh).  The root cannot move.
WornHalf ==
    /\ IsCommit
    /\ faults < setup.faults
    /\ LET c   == Head1
           act == Active(disk, c.pair)
           alt == Other(c.pair, act)
           al  == Alloc(1, BlocksOf(c.pair) \cup c.infl, UsedRaw(disk))
       IN  \E victim \in {act, alt} :
              /\ IF victim = act THEN CanAppend(c) ELSE ~Splits(c) /\ Fits(c)
              /\ LET d == IF victim = alt THEN [disk EXCEPT ![alt] = Blank] ELSE disk
                 IN  \/ /\ c.pair = Root \/ al.blocks = <<>>
                        /\ disk' = d
                        /\ cache' = IF c.pair = Root THEN cache ELSE al.cache
                        /\ Fail
                     \/ /\ c.pair # Root /\ al.blocks # <<>>
                        /\ LET new == Replace(c.pair, victim, al.blocks[1])
                           IN  /\ disk' = [d EXCEPT ![al.blocks[1]] =
                                                       Compacted(c, {<<c.pair, new>>})]
                               /\ Propagate(disk', c.pair, new, c.infl, Rest)
                        /\ cache' = None
    /\ faults' = faults + 1
    /\ UNCHANGED <<want, ops, crashes>>

----------------------------------------------------------------------------
(* Splits.  A cut item of todo holds the commit c that splits, the end of  *)
(* the portion still to be placed, where the next cut falls, the tail the  *)
(* next continuation inherits, the cuts made and the excluded blocks.      *)

SplitStart ==
    /\ IsCommit
    /\ Splits(Head1)
    /\ LET c == Head1
           n == Len(Slots(c))
           y == Appended(c)
       IN  todo' = <<[k |-> "cut", c |-> c, end |-> n, cut |-> SplitIndex(Slots(c), n),
                      tail |-> y.tail, hard |-> y.hard, cuts |-> 0, max |-> MaxCuts(c),
                      excl |-> BlocksOf(c.pair) \cup c.infl]>> \o Rest
    /\ UNCHANGED <<disk, mode, pm, cache, res, want, ops, crashes, faults>>

\* Out of blocks: the pair is compacted in one piece after all.
SplitDegrades(s) == todo' = <<[s.c EXCEPT !.whole = TRUE]>> \o Rest

\* The two blocks of a continuation, allocated one after the other.
ContBlocks(s) ==
    LET one == AllocBy(cache, 1, s.excl, UsedRaw(disk))
        two == AllocBy(one.cache, 1, s.excl \cup ToSet(one.blocks), UsedRaw(disk))
    IN  IF one.blocks = <<>> THEN one
        ELSE [blocks |-> IF two.blocks = <<>> THEN <<>> ELSE one.blocks \o two.blocks,
              cache  |-> two.cache]

\* Mutant: a later cut may take the blocks of an earlier one.
AfterCutUnexcluded(s, p) ==
    LET next == SplitIndex(Slots(s.c), s.cut)
        more == s.cuts + 1 < s.max /\ next > 0
    IN  [s EXCEPT !.k = IF more THEN "cut" ELSE "lower", !.end = s.cut,
                  !.cut = IF more THEN next ELSE 0,
                  !.tail = p, !.hard = TRUE, !.cuts = @ + 1]

\* The loop of split_directory_pair once continuation p is programmed.
AfterCut(s, p) ==
    LET next == SplitIndex(Slots(s.c), s.cut)
        more == s.cuts + 1 < s.max /\ next > 0
    IN  [s EXCEPT !.k = IF more THEN "cut" ELSE "lower", !.end = s.cut,
                  !.cut = IF more THEN next ELSE 0,
                  !.tail = p, !.hard = TRUE, !.cuts = @ + 1, !.excl = @ \cup BlocksOf(p)]

IsCut == todo # <<>> /\ Head1.k = "cut"

\* program_split_continuation: no commit names the new pair yet.
SplitCut ==
    /\ IsCut
    /\ LET s  == Head1
           al == ContBlocks(s)
           p  == al.blocks
       IN  /\ cache' = al.cache
           /\ \/ p = <<>> /\ SplitDegrades(s) /\ UNCHANGED disk
              \/ /\ p # <<>>
                 /\ disk' = [disk EXCEPT
                       ![p[1]] = Image(1, Emitted(Slots(s.c), s.cut, s.end), s.tail, s.hard, {}, {}),
                       ![p[2]] = Blank]
                 /\ todo' = <<AfterCut(s, p)>> \o Rest
    /\ UNCHANGED <<mode, pm, res, want, ops, crashes, faults>>

\* One of the two blocks is worn: it is excluded and the pair allocated
\* anew.  (Fewer faults than MAX_BAD_BLOCK_RETRIES.)
SplitCutWorn ==
    /\ IsCut /\ faults < setup.faults
    /\ \E worn \in ToSet(ContBlocks(Head1).blocks) :
          /\ disk' = [b \in Blocks |-> IF b \in ToSet(ContBlocks(Head1).blocks) THEN Blank
                                       ELSE disk[b]]
          /\ todo' = <<[Head1 EXCEPT !.excl = @ \cup {worn}]>> \o Rest
    /\ cache' = None
    /\ faults' = faults + 1
    /\ UNCHANGED <<mode, pm, res, want, ops, crashes>>

IsLower == todo # <<>> /\ Head1.k = "lower"

\* Mutant: the lower half keeps the tail of the whole.
LowerUnchained(s, extra) ==
    LET y == Appended(s.c)
    IN  Image(y.rev + 1, Emitted(Slots(s.c), 0, s.end), y.tail, y.hard, y.ms, Xor(y.rs, extra))

\* What stays in the pair: it keeps the gstate and names the last cut.
Lower(s, extra) ==
    LET y == Appended(s.c)
    IN  Image(y.rev + 1, Emitted(Slots(s.c), 0, s.end), s.tail, s.hard, y.ms, Xor(y.rs, extra))

\* finish_split_lower_half: the commit that makes the chain reachable.
\* What stays fits: it was in one block before, and entries do not grow.
SplitLower ==
    /\ IsLower
    /\ LET s   == Head1
           alt == Other(s.c.pair, Active(disk, s.c.pair))
       IN  disk' = [disk EXCEPT ![alt] = Lower(s, {})]
    /\ cache' = None
    /\ Proceed(Rest)
    /\ UNCHANGED <<pm, want, ops, crashes, faults>>

\* The alternate is worn: the lower half goes to a fresh block, and the
\* parent's commit makes both it and the chain reachable.  That commit
\* knows of the blocks its caller excluded and of the fresh one.
SplitLowerWorn ==
    /\ IsLower /\ faults < setup.faults
    /\ LET s   == Head1
           p   == s.c.pair
           alt == Other(p, Active(disk, p))
           d   == [disk EXCEPT ![alt] = Blank]
           al  == Alloc(1, s.excl, UsedRaw(d))
           new == Replace(p, alt, al.blocks[1])
       IN  \/ p = Root /\ Fail /\ disk' = d /\ UNCHANGED cache
           \/ /\ p # Root /\ al.blocks = <<>>
              /\ SplitDegrades(s)
              /\ disk' = d /\ cache' = al.cache /\ UNCHANGED <<mode, res, pm>>
           \/ /\ p # Root /\ al.blocks # <<>>
              /\ disk' = [d EXCEPT ![al.blocks[1]] = Lower(s, {<<p, new>>})]
              /\ Propagate(disk', p, new, s.c.infl, Rest)
              /\ cache' = None
    /\ faults' = faults + 1
    /\ UNCHANGED <<want, ops, crashes>>

----------------------------------------------------------------------------
(* The user's operations.                                                  *)

\* Where seek_entry_in_chain finds name in the directory at p, or None.
Seek(d, p, name) ==
    LET ch == Chain(d, p)
        Ids(q) == {i \in DOMAIN Live(d, q).ents : Live(d, q).ents[i].name = name}
        S == {k \in DOMAIN ch : Ids(ch[k]) # {}}
    IN  IF S = {} THEN None ELSE [pair |-> ch[Min(S)], id |-> Min(Ids(ch[Min(S)]))]

\* Where it says a new entry goes: the last pair of the chain.
LastPair(d, p) == Last(Chain(d, p))

\* list_pair_chain
Listing(d, p) ==
    UNION {ToSet(SelectSeq(Live(d, q).ents, LAMBDA e : e.name # SuperName)) : q \in ToSet(Chain(d, p))}

\* What path resolution reaches: the name and the pair of each directory.
Nodes(d) ==
    LET nodes[n \in 0 .. NumBlocks] ==
            IF n = 0 THEN {<<Slash, Root>>}
            ELSE nodes[n - 1] \cup
                 {<<e.name, e.dir>> : e \in {f \in UNION {Listing(d, q[2]) : q \in nodes[n - 1]} :
                                               f.dir # None}}
    IN  nodes[Cardinality(Dirs)]

\* The tree a user sees: which directory lists which name.
View(d) == UNION {{<<q[1], e.name>> : e \in Listing(d, q[2])} : q \in Nodes(d)}

Idle == mode = "idle" /\ ops < setup.ops /\ (setup.carryOn \/ res # "err")

\* A call starts; new is the tree it is to leave.
Call(items, new) ==
    /\ todo' = items
    /\ mode' = "busy"
    /\ res'  = "none"
    /\ want' = [old |-> View(disk), new |-> new]
    /\ ops'  = ops + 1

\* write_inline_to_pair of a new file.
WriteFile ==
    /\ Idle
    /\ \E q \in Nodes(disk), n \in Files \cap setup.makes :
          /\ Seek(disk, q[2], n) = None
          /\ Call(<<Commit(LastPair(disk, q[2]), CreateOp([name |-> n, dir |-> None]), {}, {}, {})>>,
                  View(disk) \cup {<<q[1], n>>})
    /\ UNCHANGED <<disk, pm, cache, crashes, faults>>

\* remove_from_pair of a file.
RemoveFile ==
    /\ Idle
    /\ \E q \in Nodes(disk), n \in Files :
          LET at == Seek(disk, q[2], n)
          IN  /\ at # None
              /\ Call(<<Commit(at.pair, RemoveOp(at.id), {}, {}, {})>>, View(disk) \ {<<q[1], n>>})
    /\ cache' = None
    /\ UNCHANGED <<disk, pm, crashes, faults>>

\* Mutant: the new directory is counted, a split of its parent is not.
MkdirRoomForOne(d) == Len(Tree(d)) + 1 <= setup.pairs

\* mkdir adds a pair, and its commit may split another off.
MkdirRoom(d) == Len(Tree(d)) + 2 <= setup.pairs

\* mkdir: the new pair takes over the tail of the parent's last pair and
\* becomes its tail.  A worn candidate is excluded, and the next one tried.
Mkdir ==
    /\ Idle
    /\ \E q \in Nodes(disk), n \in Dirs \cap setup.makes :
          LET parent == LastPair(disk, q[2])
              x  == Live(disk, parent)
              im == Image(1, <<>>, x.tail, x.hard, {}, {})
              Made(al, d) ==
                 LET p == al.blocks
                 IN  /\ p # <<>>
                     /\ disk' = [d EXCEPT ![p[1]] = im, ![p[2]] = Blank]
                     /\ cache' = al.cache
                     /\ Call(<<CommitTail(parent, CreateOp([name |-> n, dir |-> p]), {}, {}, p,
                                          FALSE, BlocksOf(p))>>,
                             View(disk) \cup {<<q[1], n>>})
              first == Alloc(2, {}, UsedLive(disk))
          IN  /\ \A v \in View(disk) : v[2] # n
              /\ MkdirRoom(disk)
              /\ \/ Made(first, disk) /\ UNCHANGED faults
                 \/ \E worn \in ToSet(first.blocks) :
                       /\ faults < setup.faults /\ faults' = faults + 1
                       /\ Made(AllocBy(None, 2, {worn}, UsedLive(disk)),
                               [disk EXCEPT ![worn] = Blank])
    /\ UNCHANGED <<pm, crashes>>

\* mkdir at the pair budget or on a full device: OutOfRange.
MkdirRefused ==
    /\ Idle /\ res # "err"
    /\ \E n \in Dirs \cap setup.makes : \A v \in View(disk) : v[2] # n
    /\ ~MkdirRoom(disk) \/ Alloc(2, {}, UsedLive(disk)).blocks = <<>>
    /\ res' = "err"
    /\ cache' = IF MkdirRoom(disk) THEN Alloc(2, {}, UsedLive(disk)).cache ELSE cache
    /\ ops' = ops + 1
    /\ UNCHANGED <<disk, todo, mode, pm, want, crashes, faults>>

Empty(d, p) == Listing(d, p) = {}

\* rmdir of an empty directory: out of the tree, then out of the thread.
Rmdir ==
    /\ Idle
    /\ \E q \in Nodes(disk), n \in Dirs :
          LET at == Seek(disk, q[2], n)
              dir == Live(disk, at.pair).ents[at.id].dir
          IN  /\ at # None
              /\ Empty(disk, dir)
              /\ Call(<<Commit(at.pair, RemoveOp(at.id), {}, {}, {}), [k |-> "unthread", pair |-> dir]>>,
                      View(disk) \ {<<q[1], n>>})
    /\ cache' = None
    /\ UNCHANGED <<disk, pm, crashes, faults>>

\* The directories at and below p.
Below(d, p) ==
    LET sub[n \in 0 .. NumBlocks] ==
            IF n = 0 THEN {p}
            ELSE sub[n - 1] \cup
                 ({e.dir : e \in UNION {Listing(d, q) : q \in sub[n - 1]}} \ {None})
    IN  sub[Cardinality(Dirs)]

\* rename into another directory: a Create there, a Remove here, both
\* carrying the same MoveState body.
Rename ==
    /\ Idle
    /\ \E src, dst \in Nodes(disk), n \in setup.movable :
          LET at   == Seek(disk, src[2], n)
              e    == Live(disk, at.pair).ents[at.id]
              body == <<at.pair, at.id>>
          IN  /\ src[2] # dst[2] /\ at # None
              /\ e.dir # None => dst[2] \notin Below(disk, e.dir)
              /\ Seek(disk, dst[2], n) = None
              /\ Call(<<Commit(LastPair(disk, dst[2]), CreateOp(e), {body}, {}, {}), [k |-> "delete"]>>,
                      (View(disk) \ {<<src[1], n>>}) \cup {<<dst[1], n>>})
              /\ pm' = [pair |-> at.pair, id |-> at.id, delta |-> body]
    /\ cache' = None
    /\ UNCHANGED <<disk, crashes, faults>>

\* The second commit of rename, where the cascade of the first left the
\* source.
RenameDelete ==
    /\ todo # <<>> /\ Head1.k = "delete"
    /\ todo' = <<Commit(pm.pair, RemoveOp(pm.id), {pm.delta}, {}, {})>> \o Rest
    /\ pm' = None
    /\ UNCHANGED <<disk, mode, cache, res, want, ops, crashes, faults>>

\* What a directory adds to the totals, all its pairs together.
ChainMs(ch) == FoldLeft(LAMBDA acc, p : Xor(acc, Live(disk, p).ms), {}, ch)
ChainRs(ch) == FoldLeft(LAMBDA acc, p : Xor(acc, Live(disk, p).rs), {}, ch)

\* Mutant: the dropped pair's gstate goes with it.
StealNothing(pred, dropped) ==
    LET ch == Chain(disk, dropped)
    IN  CommitTail(pred, NoopOp, {}, {}, Live(disk, Last(ch)).tail, FALSE, {})

\* Mutant: the predecessor is pointed at the pair it should skip.
StealAndKeep(pred, dropped) ==
    LET ch == Chain(disk, dropped)
    IN  CommitTail(pred, NoopOp, ChainMs(ch), ChainRs(ch), dropped, FALSE, {})

\* Mutant: the first pair of a chain is dropped alone.
StealHead(pred, dropped) ==
    LET x == Live(disk, dropped)
    IN  CommitTail(pred, NoopOp, x.ms, x.rs, x.tail, FALSE, {})

\* unthread_and_steal: the predecessor skips the dropped directory, all its
\* pairs, and takes over their gstate.
Steal(pred, dropped) ==
    LET ch == Chain(disk, dropped)
    IN  CommitTail(pred, NoopOp, ChainMs(ch), ChainRs(ch), Live(disk, Last(ch)).tail, FALSE, {})

Unthread ==
    /\ todo # <<>> /\ Head1.k = "unthread"
    /\ LET pred == ThreadPred(disk, Head1.pair)
       IN  Proceed((IF pred = None THEN <<>> ELSE <<Steal(pred, Head1.pair)>>) \o Rest)
    /\ UNCHANGED <<disk, pm, cache, want, ops, crashes, faults>>

----------------------------------------------------------------------------
(* Power loss and mount.                                                   *)

\* Power goes between two commits, or inside a compaction or the last
\* commit of a split, which leaves its target erased.
PowerLoss ==
    /\ mode # "off" /\ crashes < setup.crashes
    /\ \/ UNCHANGED disk
       \/ /\ IsCommit \/ IsLower
          /\ LET p == IF IsCommit THEN Head1.pair ELSE Head1.c.pair
             IN  disk' = [disk EXCEPT ![Other(p, Active(disk, p))] = Blank]
    /\ todo' = <<>> /\ mode' = "off" /\ res' = "none" /\ pm' = None /\ cache' = None
    /\ crashes' = crashes + 1
    /\ UNCHANGED <<want, ops, faults>>

\* mount decodes what the aggregate names, a move first, and then sweeps.
\* An aggregate of several bodies decodes to no address in particular.
\* Its walks queue at most setup.pairs pairs.
CanMount ==
    /\ mode = "off"
    /\ Len(Forest(disk)) <= setup.pairs
    /\ Cardinality(MoveStates(disk)) <= 1 /\ Cardinality(RelocateStates(disk)) <= 1

\* Mutant: the sweep alone.
MountUnrecovered ==
    /\ CanMount
    /\ todo' = <<[k |-> "sweep", cur |-> None, tree |-> <<>>, seen |-> <<>>]>>
    /\ mode' = "mounting"
    /\ cache' = None
    /\ UNCHANGED <<disk, pm, res, want, ops, crashes, faults>>

Mount ==
    /\ CanMount
    /\ todo' = SetToSeq({[k |-> "recover", body |-> b] : b \in MoveStates(disk)})
               \o SetToSeq({Commit(b[1], NoopOp, {}, {b}, {}) : b \in RelocateStates(disk)})
               \o <<[k |-> "sweep", cur |-> None, tree |-> <<>>, seen |-> <<>>]>>
    /\ mode' = "mounting"
    /\ cache' = None
    /\ UNCHANGED <<disk, pm, res, want, ops, crashes, faults>>

\* recover_pending_move: the source at its address, or at its twin's.
RecoverMove ==
    /\ todo # <<>> /\ Head1.k = "recover"
    /\ LET src  == Head1.body[1]
           id   == Head1.body[2]
           tree == Tree(disk)
           twin == Twin(disk, tree, src)
           target == IF InSeq(tree, src) \/ twin = None THEN src ELSE twin
       IN  \/ /\ id <= Len(Live(disk, target).ents)
              /\ todo' = <<Commit(target, RemoveOp(id), {Head1.body}, {}, {})>> \o Rest
              /\ UNCHANGED <<mode, res, pm>>
           \/ /\ id > Len(Live(disk, target).ents)
              /\ Fail
    /\ UNCHANGED <<disk, cache, want, ops, crashes, faults>>

\* One turn of deorphan_sweep.  The tree is collected once, at the start.
Sweep ==
    /\ todo # <<>> /\ Head1.k = "sweep"
    /\ LET s    == IF Head1.cur = None
                   THEN [k |-> "sweep", cur |-> Root, tree |-> Tree(disk), seen |-> <<Root>>]
                   ELSE Head1
           next == Live(disk, s.cur).tail
           twin == Twin(disk, s.tree, next)
       IN  \/ /\ next # None => InSeq(s.tree, next) /\ InSeq(s.seen, next)
              /\ Proceed(Rest)
              /\ UNCHANGED cache
           \/ /\ next # None /\ InSeq(s.tree, next) /\ ~InSeq(s.seen, next)
              /\ Proceed(<<[s EXCEPT !.cur = next, !.seen = Append(@, next)]>> \o Rest)
              /\ UNCHANGED cache
           \/ /\ next # None /\ ~InSeq(s.tree, next)
              /\ Proceed(<<IF twin # None THEN CommitTail(s.cur, NoopOp, {}, {}, twin, Live(disk, s.cur).hard, {})
                           ELSE Steal(s.cur, next), s>> \o Rest)
              /\ cache' = None
    /\ UNCHANGED <<disk, pm, want, ops, crashes, faults>>

----------------------------------------------------------------------------
\* format, one mkdir per directory and one write per file, each pair then
\* rewritten 0 or 1 times: the revision decides when it is next relocated.
\* mkdir threads a directory right behind its parent.
Init ==
    /\ setup \in Setups
    /\ \E rw \in [1 .. Len(setup.dirs) -> BOOLEAN] :
       LET n    == Len(setup.dirs)
           P(i) == <<2 * i, 2 * i + 1>>
           E(i) == [name |-> setup.dirs[i], dir |-> P(i)]
           made(i) ==      \* the pair of directory i; 0 is the root
              LET next == IF setup.nested THEN i + 1 ELSE IF i = 0 THEN n ELSE i - 1
                  kids == IF setup.nested /\ i < n THEN <<E(i + 1)>>
                          ELSE IF ~setup.nested /\ i = 0 THEN [k \in 1 .. n |-> E(k)] ELSE <<>>
                  t    == IF next \in 1 .. n THEN P(next) ELSE None
                  fs   == setup.files[i]
              IN  Image(1, (IF i = 0 THEN <<[name |-> SuperName, dir |-> None]>> ELSE <<>>)
                           \o kids \o [k \in DOMAIN fs |-> [name |-> fs[k], dir |-> None]],
                        t, FALSE, {}, {})
       IN  disk = [b \in Blocks |->
                     LET i == b \div 2
                     IN  IF i > n THEN Blank
                         ELSE IF b % 2 = 0 THEN made(i)
                         ELSE IF i > 0 /\ rw[i] THEN [made(i) EXCEPT !.rev = 2]
                         ELSE Blank]
    /\ todo = <<>> /\ mode = "idle" /\ pm = None /\ cache = None /\ res = "none"
    /\ want = [old |-> View(disk), new |-> View(disk)]
    /\ ops = 0 /\ crashes = 0 /\ faults = 0

Step == \/ AppendCommit \/ CompactCommit \/ CompactOverflows
        \/ WearCommit \/ CopyFresh \/ CopyFails \/ WornHalf
        \/ SplitStart \/ SplitCut \/ SplitCutWorn \/ SplitLower \/ SplitLowerWorn
        \/ RenameDelete \/ Unthread \/ RecoverMove \/ Sweep

User == WriteFile \/ RemoveFile \/ Mkdir \/ MkdirRefused \/ Rmdir \/ Rename

\* The user may leave an idle filesystem alone.
NoCall == mode = "idle" /\ UNCHANGED vars

Next == UNCHANGED setup /\ (Step \/ User \/ NoCall \/ PowerLoss \/ Mount)

Spec == Init /\ [][Next]_vars

\* Storage calls return, and a device that lost power is mounted again: the
\* weak fairness of Step and of Mount, with their guards written out.
Fairness ==
    /\ []<>(todo = <<>>) \/ []<><<Step>>_vars
    /\ []<>~CanMount \/ []<><<Mount>>_vars

FairSpec == Spec /\ Fairness

----------------------------------------------------------------------------
(* Properties.                                                             *)

\* Between calls, on a handle whose last call did not fail.
Quiet == mode = "idle" /\ res # "err"

Pairs  == Blocks \X Blocks
Bodies == Pairs \X Pairs

\* Every variable stays in its type, entries and gstate totals included.
TypeOK ==
    /\ DOMAIN disk = Blocks
    /\ \A b \in Blocks :
          /\ disk[b].rev \in Nat
          /\ disk[b].tail \in Pairs \cup {None}
          /\ disk[b].hard => disk[b].tail # None
          /\ \A i \in DOMAIN disk[b].ents :
                /\ disk[b].ents[i].name \in Dirs \cup Files \cup {SuperName}
                /\ disk[b].ents[i].dir \in Pairs \cup {None}
          /\ disk[b].ms \subseteq Pairs \X Nat /\ disk[b].rs \subseteq Bodies
          /\ disk[b].refs \subseteq Pairs
    /\ mode \in {"idle", "busy", "mounting", "off"}
    /\ todo # <<>> <=> mode \in {"busy", "mounting"}
    /\ cache # None => cache \subseteq Blocks
    /\ res \in {"none", "ok", "err"}
    /\ ops \in 0 .. setup.ops /\ crashes \in 0 .. setup.crashes /\ faults \in 0 .. setup.faults

\* Whatever step power is lost at, every pair the tree or the thread names
\* has a half with a verified commit, so that no walk of the next mount
\* (accumulate_gstate, collect_live_tree_pairs) meets Error::Corrupt.
AlwaysParses ==
    \A p \in ToSet(Forest(disk)) : Parses(disk, p) /\ Live(disk, p).ok

\* Each operation is atomic for a user who only sees returned handles: the
\* tree listed after a mount is the one before or the one after the
\* operation that power loss interrupted, and a call that returned Ok has
\* its whole effect (rename shows the entry in one place, never in two).
NamespaceAtomic ==
    Quiet => View(disk) \in IF res = "ok" THEN {want.new} ELSE {want.old, want.new}

\* The gstate is settled between calls: what every reachable pair adds to
\* the MoveState and RelocateState totals cancels out, so that the next
\* mount finds nothing to recover.
GstateSettled == Quiet => MoveStates(disk) = {} /\ RelocateStates(disk) = {}

\* Between calls the thread visits exactly the directories of the tree,
\* each once: rmdir's un-threading, the repointing of a relocated pair's
\* predecessor and the deorphan sweep leave neither an orphan nor a gap.
ThreadIsTree ==
    Quiet => LET th == Thread(disk)
                 tr == Tree(disk)
             IN  ToSet(th) = ToSet(tr) /\ Len(th) = Len(tr)

\* At every instant a power cut could pick, the totals add up to at most
\* one move and one relocation, so that what Gstate::pending_move and
\* pending_relocation decode is a body some commit wrote and not the XOR
\* of several.
OneBodyAtMost ==
    Cardinality(MoveStates(disk)) <= 1 /\ Cardinality(RelocateStates(disk)) <= 1

\* Between calls no block belongs to two directories: relocation, mkdir and
\* the cached bitmap never hand out a block that is still in use.
NoSharedBlock ==
    Quiet => LET tr == Tree(disk)
             IN  \A i, j \in DOMAIN tr : i # j => BlocksOf(tr[i]) \cap BlocksOf(tr[j]) = {}

\* The pair budget holds at every instant a power cut could pick: the tree
\* and the thread together never name more pairs than the walks of a mount
\* can queue, whatever mix of mkdirs and splits, of directories and of the
\* root, led there.
WithinBudget == Len(Forest(disk)) <= setup.pairs

Listed(d) == {v[2] : v \in View(d)}

\* Recovery completes moves and cancels relocations but never makes the
\* last entry of a name disappear: no step of a mount removes a name from
\* the tree altogether.
MountLosesNoName == [][mode = "mounting" => Listed(disk) \subseteq Listed(disk')]_vars

\* Once power stays on, mount returns a handle: recovery and the sweep end,
\* even when their own commits relocate pairs.
Remounts == (mode = "off") ~> (mode = "idle")
=============================================================================
