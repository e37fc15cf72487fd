----------------------------- MODULE MetaPair -----------------------------
(***************************************************************************)
(* One metadata pair at the level of program windows: how a commit is     *)
(* appended to the active half or compacted onto the alternate, how a     *)
(* worn half is evicted, and what a power cut between any two windows     *)
(* leaves behind.  Models apply_op_to_pair_inner, compact_and_program and *)
(* relocate_compact_to_fresh of fs.rs over the reader of meta.rs.          *)
(*                                                                         *)
(* A block is abstracted to four facts the reader can tell apart: its      *)
(* revision word, the end of its verified commits (`committed_end`, in     *)
(* program windows), the content those commits replay to, and how far its  *)
(* cells have been programmed.  `finish_padded` ends every commit on a     *)
(* window boundary and emits an FCRC exactly when a window is left, so     *)
(* "the last commit carries an FCRC" is end < Windows.                     *)
(*                                                                         *)
(* Not here: the directory split (a compaction that does not fit) and the  *)
(* gstate carried by a commit.                                             *)
(***************************************************************************)
EXTENDS Integers

CONSTANTS Blocks,       \* erase blocks this pair can be moved over
          Keys, Vals,   \* directory content: what each key maps to
          Windows,      \* BLOCK_SIZE / PROG_SIZE
          RevMod,       \* revisions are counted modulo this (2^32)
          BlockCycles,  \* Storage::BLOCK_CYCLES
          IsRoot,       \* this is the root pair, which never moves
          MaxTries,     \* MAX_BAD_BLOCK_RETRIES
          MaxFaults,    \* bound on the device faults of one behaviour
          AnyRevs,      \* the revision words foreign or torn writes leave
          None          \* no block

ASSUME PairAssumption ==
    /\ Windows \in Nat \ {0}
    /\ RevMod \in Nat /\ RevMod % 2 = 0
    /\ MaxFaults \in Nat /\ MaxTries \in Nat
    /\ MaxFaults + 2 < RevMod \div 2
    /\ AnyRevs \subseteq 0 .. RevMod - 1
    /\ BlockCycles \in Int
    /\ IsRoot \in BOOLEAN
    /\ None \notin Blocks /\ None \notin [Keys -> Vals]
    /\ Keys # {} /\ Vals # {}
    /\ \E x, y \in Blocks : x # y

VARIABLES blk,      \* block -> what its cells hold
          ref,      \* the pair's address, as its parent's DirStruct has it
          pc,       \* where the running commit is
          job,      \* the locals of the running commit
          result,   \* how the last commit returned
          faults    \* device faults so far (bounded by MaxFaults)

vars == <<blk, ref, pc, job, result, faults>>

----------------------------------------------------------------------------
(* Blocks, revisions, and the reader.                                      *)

Content == [Keys -> Vals]
Rev     == 0 .. RevMod - 1
Half    == RevMod \div 2

BlockImage == [rev: Rev, end: 0 .. Windows, top: 0 .. Windows,
               img: Content \cup {None}]

Pair == [a: Blocks, b: Blocks]

\* An erased block reads as all ones: revision 0xFFFF_FFFF, no commit.
Blank == [rev |-> RevMod - 1, end |-> 0, top |-> 0, img |-> None]

\* u32::wrapping_add(1)
Succ(r) == IF r = RevMod - 1 THEN 0 ELSE r + 1

\* u32::wrapping_sub: how far r is ahead of s.
Dist(r, s) == IF r >= s THEN r - s ELSE r - s + RevMod

\* rev_scmp(r, s) >= 0
AtLeastAsNew(r, s) == Dist(r, s) < Half

HasCommits(x) == x.end > 0

\* Mutant: the newer revision word wins even when nothing follows it.
ActiveNewestOnly(bl, p) ==
    LET primary == IF AtLeastAsNew(bl[p.a].rev, bl[p.b].rev) THEN p.a ELSE p.b
    IN  IF HasCommits(bl[primary]) THEN primary ELSE None

\* MetadataPair::parse: the newer revision, or the other half when that
\* one has no verified commit.  (None: Error::Corrupt.)
Active(bl, p) ==
    LET primary   == IF AtLeastAsNew(bl[p.a].rev, bl[p.b].rev) THEN p.a ELSE p.b
        secondary == IF primary = p.a THEN p.b ELSE p.a
    IN  IF HasCommits(bl[primary]) THEN primary
        ELSE IF HasCommits(bl[secondary]) THEN secondary
        ELSE None

Other(p, x) == IF x = p.a THEN p.b ELSE p.a

\* The content a mount reads now.
Visible == blk[Active(blk, ref)].img

\* Mutant: room after the last commit is taken for erased room.
ErasedUnchecked(x) == HasCommits(x) /\ x.end < Windows

\* MetadataReader::erased: the FCRC of the last commit matches the window
\* that follows it.
Erased(x) == HasCommits(x) /\ x.end < Windows /\ x.top = x.end

\* should_relocate
ShouldRelocate(rev) ==
    LET m == IF (BlockCycles + 1) % 2 = 0 THEN BlockCycles + 2 ELSE BlockCycles + 1
    IN  ~IsRoot /\ BlockCycles > 0 /\ rev % m = 0

\* The new pair address once fresh stands in for victim.
Replace(p, victim, fresh) ==
    [a |-> IF p.a = victim THEN fresh ELSE p.a,
     b |-> IF p.b = victim THEN fresh ELSE p.b]

\* Set, update or remove one entry; None is WriteOp::Noop.
Ops == [key: Keys, val: Vals] \cup {None}
Apply(c, op) == IF op = None THEN c ELSE [c EXCEPT ![op.key] = op.val]

----------------------------------------------------------------------------
(* The locals of a commit.                                                 *)
(*   new   the content the commit installs                                 *)
(*   act, alt   the halves as parsed when the commit started               *)
(*   rev   new_revision          role  which write is under way            *)
(*   tgt   the block it targets  pos   the window to program next          *)
(*   last  its last window       bad   some window landed corrupted        *)
(*   fresh the wear-allocated block, victim the half being replaced        *)
(*   worn  the fresh candidates already rejected                           *)

Roles == {"append", "alt", "fresh", "reloc"}

Job == [new: Content, act: Blocks, alt: Blocks, rev: Rev, role: Roles,
        tgt: Blocks, pos: 1 .. Windows + 1, last: 1 .. Windows, bad: BOOLEAN,
        fresh: Blocks \cup {None}, victim: Blocks, worn: SUBSET Blocks,
        tries: 0 .. MaxTries]

Phases == {"idle", "off", "compact", "erase", "program", "verify",
           "relocate", "repoint", "cancel", "sync"}

Running == pc \notin {"idle", "off"}

\* mkdir and format leave the first half at revision 1 and erase the
\* second.
Init ==
    /\ ref \in {p \in Pair : p.a # p.b}
    /\ \E c \in Content :
          blk = [[x \in Blocks |-> Blank] EXCEPT
                    ![ref.a] = [rev |-> 1, end |-> 1, top |-> 1, img |-> c]]
    /\ pc = "idle"
    /\ job = None
    /\ result = "none"
    /\ faults = 0

----------------------------------------------------------------------------
(* Returning.                                                              *)

Return(r) == pc' = "idle" /\ result' = r /\ job' = None

\* The commit returns an error; the handle stays usable.
ReturnErr == Return("err") /\ UNCHANGED <<blk, ref>>

\* A device call fails: at most MaxFaults times in a behaviour.
Fault == faults < MaxFaults /\ faults' = faults + 1

----------------------------------------------------------------------------
(* apply_op_to_pair_inner.                                                 *)

\* Mutant: a compaction keeps the revision of the half it replaces.
StartCommitSameRev(new, n, clear_tail) ==
    LET act == Active(blk, ref)
        x   == blk[act]
        alt == Other(ref, act)
        can_append == Erased(x) /\ x.end + n <= Windows /\ ~clear_tail
    IN  /\ job' = [new |-> new, act |-> act, alt |-> alt, rev |-> x.rev,
                   role |-> "append", tgt |-> act,
                   pos  |-> IF can_append THEN x.end + 1 ELSE 1,
                   last |-> IF can_append THEN x.end + n ELSE 1,
                   bad |-> FALSE, fresh |-> None, victim |-> alt, worn |-> {},
                   tries |-> 0]
        /\ pc' = IF can_append THEN "program" ELSE "compact"

\* Reads both halves, parses, and appends in place when the window after
\* the last commit is still erased and the commit (n windows) fits;
\* clear_tail forces the compaction.
StartCommit(new, n, clear_tail) ==
    LET act == Active(blk, ref)
        x   == blk[act]
        alt == Other(ref, act)
        can_append == Erased(x) /\ x.end + n <= Windows /\ ~clear_tail
    IN  /\ job' = [new |-> new, act |-> act, alt |-> alt, rev |-> Succ(x.rev),
                   role |-> "append", tgt |-> act,
                   pos  |-> IF can_append THEN x.end + 1 ELSE 1,
                   last |-> IF can_append THEN x.end + n ELSE 1,
                   bad |-> FALSE, fresh |-> None, victim |-> alt, worn |-> {},
                   tries |-> 0]
        /\ pc' = IF can_append THEN "program" ELSE "compact"

BeginCommit ==
    /\ pc = "idle"
    /\ \E op \in Ops, n \in 1 .. Windows, clear_tail \in BOOLEAN :
          StartCommit(Apply(Visible, op), n, clear_tail)
    /\ result' = "none"
    /\ UNCHANGED <<blk, ref, faults>>

\* compact_and_program up to its first device write.  The wear predicate
\* takes the destination first; no free block is OutOfRange, and so is a
\* live set that does not fit one block.
Compact ==
    /\ pc = "compact"
    /\ \/ \E n \in 1 .. Windows,
             f \in IF ShouldRelocate(job.rev)
                   THEN Blocks \ {job.act, job.alt} ELSE {None} :
             job' = [job EXCEPT !.role = "alt", !.tgt = job.alt, !.fresh = f,
                                !.last = n, !.pos = 1, !.bad = FALSE]
          /\ pc' = "erase"
          /\ UNCHANGED <<blk, ref, result>>
       \/ ReturnErr
    /\ UNCHANGED faults

----------------------------------------------------------------------------
(* One erase, program or read back of job.tgt; every role shares them.     *)

\* Mutant: a failed write is tried again on the same cells, without an erase.
WriteFailedRetried ==
    \/ /\ job.role # "fresh"
       /\ job' = [job EXCEPT !.pos = 1, !.bad = FALSE]
       /\ pc' = "program"
       /\ UNCHANGED result
    \/ /\ job.role = "fresh"
       /\ pc' = "cancel" /\ UNCHANGED <<job, result>>

\* The write of job.tgt failed: evict the worn half (the root cannot
\* move), give the wear relocation up, or try the next fresh block.
\* MAX_BAD_BLOCK_RETRIES bounds the last.
WriteFailed ==
    \/ /\ job.role \in {"append", "alt"} /\ ~IsRoot
       /\ job' = [job EXCEPT !.role = "reloc", !.victim = job.tgt]
       /\ pc' = "relocate"
       /\ UNCHANGED result
    \/ /\ job.role \in {"append", "alt"} /\ IsRoot
       /\ Return("err")
    \/ /\ job.role = "fresh"
       /\ pc' = "cancel" /\ UNCHANGED <<job, result>>
    \/ /\ job.role = "reloc" /\ job.tries + 1 < MaxTries
       /\ job' = [job EXCEPT !.tries = @ + 1, !.worn = @ \cup {job.tgt}, !.fresh = None]
       /\ pc' = "relocate"
       /\ UNCHANGED result
    \/ /\ job.role = "reloc" /\ job.tries + 1 >= MaxTries
       /\ Return("err")

EraseOk ==
    /\ pc = "erase"
    /\ blk' = [blk EXCEPT ![job.tgt] = Blank]
    /\ pc' = "program"
    /\ UNCHANGED <<ref, job, result, faults>>

\* What an interrupted or failed erase can leave: nothing changed, an
\* unreadable block, or a shorter log under the old revision word.
TornErase(x) ==
    {x} \cup {[rev |-> r, end |-> 0, top |-> Windows, img |-> None] : r \in AnyRevs}
        \cup {[rev |-> x.rev, end |-> e, top |-> Windows, img |-> c] :
                 e \in 1 .. x.end, c \in Content}

EraseErr ==
    /\ pc = "erase"
    /\ Fault
    /\ \E y \in TornErase(blk[job.tgt]) : blk' = [blk EXCEPT ![job.tgt] = y]
    /\ WriteFailed
    /\ UNCHANGED ref

\* The block after window job.pos took its bytes.  The window is clean
\* only if its cells were erased and nothing was corrupted so far; the
\* last clean window completes the CCRC and makes the commit durable.
Landed(x, clean) ==
    LET lands == clean /\ ~job.bad /\ job.pos = job.last
        first == job.pos = 1
    IN  [rev |-> IF first THEN job.rev ELSE x.rev,
         end |-> IF lands THEN job.last ELSE x.end,
         top |-> IF job.pos > x.top THEN job.pos ELSE x.top,
         img |-> IF lands THEN job.new ELSE x.img]

\* A window that took only some of its bytes, or wrong ones.
Damaged(x) ==
    {[x EXCEPT !.rev = r, !.top = IF job.pos > x.top THEN job.pos ELSE x.top] :
        r \in IF job.pos = 1 THEN AnyRevs \cup {job.rev} ELSE {x.rev}}

\* Mutant: off by one, the program runs a window past its commit.
NextWindowTooFar(bad) ==
    /\ job' = [job EXCEPT !.pos = @ + 1, !.bad = bad]
    /\ pc' = IF job.pos > job.last THEN "verify" ELSE "program"
    /\ UNCHANGED <<ref, result>>

NextWindow(bad) ==
    /\ job' = [job EXCEPT !.pos = @ + 1, !.bad = bad]
    /\ pc' = IF job.pos = job.last THEN "verify" ELSE "program"
    /\ UNCHANGED <<ref, result>>

\* storage.program reaches its next window.
ProgramOk ==
    /\ pc = "program"
    /\ LET clean == job.pos > blk[job.tgt].top
       IN  /\ blk' = [blk EXCEPT ![job.tgt] = Landed(blk[job.tgt], clean)]
           /\ NextWindow(job.bad \/ ~clean)
    /\ UNCHANGED faults

\* The device reports success and lands wrong cells.
ProgramCorrupt ==
    /\ pc = "program"
    /\ Fault
    /\ \E y \in Damaged(blk[job.tgt]) : blk' = [blk EXCEPT ![job.tgt] = y]
    /\ NextWindow(TRUE)

\* storage.program fails; the window may hold all, some or none of it.
ProgramErr ==
    /\ pc = "program"
    /\ Fault
    /\ \E y \in Damaged(blk[job.tgt]) \cup {blk[job.tgt]}
                \cup {Landed(blk[job.tgt], job.pos > blk[job.tgt].top)} :
          blk' = [blk EXCEPT ![job.tgt] = y]
    /\ WriteFailed
    /\ UNCHANGED ref

\* Mutant: the driver's success is believed without reading back.
VerifyUnread ==
    /\ pc = "verify"
    /\ \/ /\ \/ job.role = "append"
             \/ job.role = "alt" /\ job.fresh = None
          /\ pc' = "sync" /\ UNCHANGED job
       \/ /\ job.role = "alt" /\ job.fresh # None
          /\ job' = [job EXCEPT !.role = "fresh", !.tgt = job.fresh, !.victim = job.alt,
                                !.pos = 1]
          /\ pc' = "erase"
       \/ /\ job.role \in {"fresh", "reloc"}
          /\ pc' = "repoint" /\ UNCHANGED job
    /\ UNCHANGED <<blk, ref, result, faults>>

\* verify_programmed read the bytes back and they match.
VerifyOk ==
    /\ pc = "verify" /\ ~job.bad
    /\ \/ /\ \/ job.role = "append"
             \/ job.role = "alt" /\ job.fresh = None
          /\ pc' = "sync" /\ UNCHANGED job
       \/ /\ job.role = "alt" /\ job.fresh # None
          /\ job' = [job EXCEPT !.role = "fresh", !.tgt = job.fresh, !.victim = job.alt,
                                !.pos = 1]
          /\ pc' = "erase"
       \/ /\ job.role \in {"fresh", "reloc"}
          /\ pc' = "repoint" /\ UNCHANGED job
    /\ UNCHANGED <<blk, ref, result, faults>>

\* They do not match, or the read back failed.
VerifyErr ==
    /\ pc = "verify"
    /\ \/ job.bad /\ UNCHANGED faults
       \/ Fault
    /\ WriteFailed
    /\ UNCHANGED <<blk, ref>>

----------------------------------------------------------------------------
(* relocate_compact_to_fresh, propagate_relocation and the rest.           *)

\* The next candidate: the wear-allocated seed first, then any block the
\* allocator may hand out.  None left is OutOfRange, and so is an image
\* that does not fit.
Relocate ==
    /\ pc = "relocate"
    /\ \/ \E n \in 1 .. Windows,
             f \in IF job.fresh # None THEN {job.fresh}
                   ELSE Blocks \ ({ref.a, ref.b} \cup job.worn) :
             job' = [job EXCEPT !.tgt = f, !.fresh = None, !.last = n, !.pos = 1,
                                !.bad = FALSE]
          /\ pc' = "erase"
          /\ UNCHANGED <<blk, ref, result>>
       \/ ReturnErr
    /\ UNCHANGED faults

\* The parent's DirStruct commit installs the new address, or fails.
Repoint ==
    /\ pc = "repoint"
    /\ \/ /\ ref' = Replace(ref, job.victim, job.tgt)
          /\ pc' = "sync"
          /\ UNCHANGED <<blk, job, result>>
       \/ ReturnErr
    /\ UNCHANGED faults

\* The wear relocation was abandoned: a Noop commit on the same pair folds
\* its RelocateState back out.
Cancel ==
    /\ pc = "cancel"
    /\ \E n \in 1 .. Windows : StartCommit(Visible, n, FALSE)
    /\ UNCHANGED <<blk, ref, result, faults>>

Sync ==
    /\ pc = "sync"
    /\ \/ Return("ok") /\ UNCHANGED faults
       \/ Return("err") /\ Fault
    /\ UNCHANGED <<blk, ref>>

----------------------------------------------------------------------------
(* The environment.                                                        *)

\* Power loss.  The call under way may have had any part of its effect.
PowerLoss ==
    /\ pc # "off"
    /\ \/ UNCHANGED blk
       \/ /\ pc = "program"
          /\ \E y \in Damaged(blk[job.tgt]) : blk' = [blk EXCEPT ![job.tgt] = y]
       \/ /\ pc = "erase"
          /\ \E y \in TornErase(blk[job.tgt]) : blk' = [blk EXCEPT ![job.tgt] = y]
    /\ pc' = "off" /\ result' = "none" /\ job' = None
    /\ UNCHANGED <<ref, faults>>

\* Fs::mount finds the pair again; Corrupt when neither half has a commit.
Mount ==
    /\ pc = "off"
    /\ Active(blk, ref) # None
    /\ pc' = "idle"
    /\ UNCHANGED <<blk, ref, job, result, faults>>

\* Other files and directories come and go on the blocks this pair does
\* not own, and leave metadata images of their own revisions behind.
ReuseFree ==
    /\ pc = "idle"
    /\ \E f \in Blocks \ {ref.a, ref.b}, r \in AnyRevs, c \in Content :
          blk' = [blk EXCEPT ![f] = [rev |-> r, end |-> Windows, top |-> Windows, img |-> c]]
    /\ UNCHANGED <<ref, pc, job, result, faults>>

----------------------------------------------------------------------------
Step == \/ Compact \/ EraseOk \/ EraseErr \/ ProgramOk \/ ProgramCorrupt
        \/ ProgramErr \/ VerifyOk \/ VerifyErr \/ Relocate \/ Repoint
        \/ Cancel \/ Sync

Next == BeginCommit \/ Step \/ PowerLoss \/ Mount \/ ReuseFree

Spec == Init /\ [][Next]_vars

\* Every call of the storage driver returns, so a commit that can take its
\* next step takes it; nothing obliges a caller to start one.
FairSpec == Spec /\ WF_vars(Step)

----------------------------------------------------------------------------
(* Properties.                                                             *)

\* Every variable stays in its type; a block has a content exactly when it
\* has a verified commit, and its commits lie in programmed cells.
TypeOK ==
    /\ blk \in [Blocks -> BlockImage]
    /\ \A x \in Blocks : /\ blk[x].end <= blk[x].top
                         /\ blk[x].end = 0 <=> blk[x].img = None
    /\ ref \in Pair /\ ref.a # ref.b
    /\ pc \in Phases
    /\ IF Running THEN job \in Job ELSE job = None
    /\ result \in {"none", "ok", "err"}
    /\ faults \in 0 .. MaxFaults

\* The pair always mounts: whatever window a power cut, a worn cell or a
\* stale image leaves behind, the address the parent holds names a block
\* with a verified commit (MetadataPair::parse never reports Corrupt).
AlwaysMountable == Active(blk, ref) # None

\* A commit programs only cells erased since they were last programmed,
\* which is what Storage::program demands of its caller.
ProgramsErasedCells ==
    pc = "program" => job.pos > blk[job.tgt].top

\* The half that a mount does not pick is either without commits or older
\* than the active half by less than half the revision range, so that the
\* wrapping comparison of rev_scmp never prefers a stale image.
StaleHalfIsOlder ==
    LET act == Active(blk, ref)
        oth == Other(ref, act)
    IN  HasCommits(blk[oth]) =>
            /\ Dist(blk[act].rev, blk[oth].rev) >= 1
            /\ Dist(blk[act].rev, blk[oth].rev) <= faults + 1

\* The pair implements the abstract register: what a mount reads changes
\* in one step from the content before a commit to the content after it,
\* and success is reported only once that step has happened.
Abstract == INSTANCE AtomicPair WITH
                Content  <- Content,
                Idle     <- None,
                content  <- Visible,
                inflight <- IF Running THEN job.new ELSE None

IsAtomic == Abstract!Spec

\* A commit that has started returns, whatever mixture of worn blocks it
\* meets, unless power is lost; in particular the Noop commit that cancels
\* an abandoned relocation does not set off another one for ever.
CommitReturns == Running ~> ~Running
=============================================================================
