-------------------------- MODULE MetaPairProofs --------------------------
(***************************************************************************)
(* Proofs about MetaPair, for every number of blocks, windows, faults and  *)
(* every revision range: the type invariant, the three safety invariants   *)
(* and the step simulation of AtomicPair.                                  *)
(***************************************************************************)
EXTENDS MetaPair, TLAPS

(***************************************************************************)
(* The inductive invariant.  Which half of the pair a mount picks is a     *)
(* comparison of two revision words, so the invariant must say, at every   *)
(* point of a commit, which half wins and by how much.                     *)
(***************************************************************************)

\* x and y are the two halves of the pair.
Halves(p, x, y) == \/ p.a = x /\ p.b = y
                   \/ p.a = y /\ p.b = x

\* Image x wins over image y, and is at most g revisions ahead of it.
Beats(x, y, g) ==
    /\ HasCommits(x)
    /\ HasCommits(y) => /\ Dist(x.rev, y.rev) >= 1
                        /\ Dist(x.rev, y.rev) <= g

\* Some half of the pair is the active one.
PairInv == \E x, y \in Blocks : /\ Halves(ref, x, y)
                                /\ Beats(blk[x], blk[y], faults + 1)

\* For the locals j: block x holds the complete new image; the half j.act
\* still wins over j.alt, by at most g; and block v may be given up, f faults
\* having happened (the active half is only worn when one was counted).
IsDone(bl, j, x) == /\ HasCommits(bl[x])
                    /\ bl[x].rev = j.rev
                    /\ bl[x].img = j.new

IsOld(bl, j, g) == Beats(bl[j.act], bl[j.alt], g)

IsEvictable(bl, f, j, v) ==
    \/ v = j.act /\ IsOld(bl, j, f)
    \/ v = j.alt /\ (IsOld(bl, j, f + 1) \/ IsDone(bl, j, j.alt))

DoneOn(x)    == IsDone(blk, job, x)
Untouched(g) == IsOld(blk, job, g)
Evicting     == IsEvictable(blk, faults, job, job.victim)

\* The role of the write fixes the block it goes to.
RoleInv ==
    /\ job.role = "append" =>
          /\ job.tgt = job.act
          /\ pc \in {"program", "verify"}
          /\ Untouched(IF job.bad THEN faults ELSE faults + 1)
    /\ job.role = "alt" =>
          /\ job.tgt = job.alt
          /\ Untouched(faults + 1) \/ DoneOn(job.alt)
    /\ job.role = "fresh" =>
          /\ job.tgt \notin {ref.a, ref.b}
          /\ job.victim = job.alt /\ DoneOn(job.alt)
    /\ job.role = "reloc" =>
          /\ job.tgt \notin {ref.a, ref.b}
          /\ Evicting

ProgramInv ==
    /\ blk[job.tgt].top = job.pos - 1
    /\ job.pos <= job.last
    /\ job.role # "append" => /\ blk[job.tgt].end = 0
                              /\ job.pos > 1 /\ ~job.bad => blk[job.tgt].rev = job.rev

VerifyInv ==
    ~job.bad => /\ HasCommits(blk[job.tgt])
                /\ blk[job.tgt].img = job.new
                /\ job.role # "append" => blk[job.tgt].rev = job.rev

\* The locals of the running commit agree with the blocks.
JobInv ==
    /\ Running /\ pc # "sync" =>
          /\ Halves(ref, job.act, job.alt)
          /\ HasCommits(blk[job.act])
          /\ job.rev = Succ(blk[job.act].rev)
          /\ job.fresh # None => job.fresh \notin {ref.a, ref.b}
    /\ pc = "compact"  => Untouched(faults + 1)
    /\ pc = "erase"    => /\ RoleInv /\ job.role # "append" /\ job.pos = 1 /\ ~job.bad
                          /\ job.role = "alt" => Untouched(faults + 1)
    /\ pc = "program"  => RoleInv /\ ProgramInv
    /\ pc = "verify"   => RoleInv /\ VerifyInv
    /\ pc = "relocate" => job.role = "reloc" /\ Evicting
    /\ pc = "repoint"  => job.role \in {"fresh", "reloc"} /\ RoleInv /\ DoneOn(job.tgt)
    /\ pc = "cancel"   => DoneOn(job.alt)
    /\ pc = "sync"     => Visible = job.new

IInv == TypeOK /\ PairInv /\ JobInv

----------------------------------------------------------------------------
(* Revisions and the reader.                                               *)

\* Half is half the revision range; the faults of a behaviour cannot carry
\* a stale half that far.
LEMMA HalfFacts == /\ RevMod \in Nat /\ Half \in Nat /\ RevMod = 2 * Half
                   /\ MaxFaults \in Nat /\ MaxFaults + 2 < Half
  BY PairAssumption DEF Half

\* u32::wrapping_add(1) goes one revision ahead (rev_scmp of the two is 1).
LEMMA SuccIsNext == ASSUME NEW r \in Rev
                    PROVE  Succ(r) \in Rev /\ Dist(Succ(r), r) = 1
  BY HalfFacts DEF Succ, Dist, Rev

\* One more revision widens the gap to an older one by one.
LEMMA SuccWidens == ASSUME NEW r \in Rev, NEW s \in Rev, Dist(r, s) < Half
                    PROVE  Dist(Succ(r), s) = Dist(r, s) + 1
  BY HalfFacts DEF Succ, Dist, Rev

\* MetadataPair::parse picks the half that beats the other, in either order.
LEMMA ActiveIs ==
    ASSUME NEW bl, NEW p \in Pair, NEW x \in Blocks, NEW y \in Blocks, NEW g \in Nat,
           bl[x] \in BlockImage, bl[y] \in BlockImage, x # y,
           Halves(p, x, y), Beats(bl[x], bl[y], g), g < Half
    PROVE  Active(bl, p) = x /\ Other(p, x) = y
<1>1. bl[x].rev \in Rev /\ bl[y].rev \in Rev
  BY DEF BlockImage
<1>2. HasCommits(bl[y]) => /\ AtLeastAsNew(bl[x].rev, bl[y].rev)
                           /\ ~AtLeastAsNew(bl[y].rev, bl[x].rev)
  BY <1>1, HalfFacts DEF Beats, AtLeastAsNew, Dist, Rev
<1>3. HasCommits(bl[x])
  BY DEF Beats
<1>4. x # None /\ y # None
  BY PairAssumption
<1>5. CASE p.a = x /\ p.b = y
  BY <1>2, <1>3, <1>5 DEF Active, Other
<1>6. CASE p.a = y /\ p.b = x
  BY <1>2, <1>3, <1>6 DEF Active, Other
<1> QED BY <1>5, <1>6 DEF Halves

----------------------------------------------------------------------------
(* Init.                                                                   *)

LEMMA InitIInv == Init => IInv
<1> SUFFICES ASSUME Init PROVE IInv
  OBVIOUS
<1> USE PairAssumption
<1>1. PICK c \in Content :
         blk = [[x \in Blocks |-> Blank] EXCEPT
                   ![ref.a] = [rev |-> 1, end |-> 1, top |-> 1, img |-> c]]
  BY DEF Init
<1>2. ref \in Pair /\ ref.a # ref.b
  BY DEF Init
<1>3. ref.a \in Blocks /\ ref.b \in Blocks
  BY <1>2 DEF Pair
<1>4. Blank \in BlockImage /\ [rev |-> 1, end |-> 1, top |-> 1, img |-> c] \in BlockImage
  BY HalfFacts DEF Blank, BlockImage, Rev
<1>5. blk \in [Blocks -> BlockImage]
  BY <1>1, <1>4
<1>6. /\ blk[ref.a] = [rev |-> 1, end |-> 1, top |-> 1, img |-> c]
      /\ \A x \in Blocks : x # ref.a => blk[x] = Blank
  BY <1>1, <1>3
<1>7. None \notin Content
  BY DEF Content
<1>8. TypeOK
  BY <1>2, <1>5, <1>6, <1>7 DEF Init, TypeOK, Running, Phases, Blank
<1>9. PairInv
  <2>1. Halves(ref, ref.a, ref.b)
    BY DEF Halves
  <2>2. Beats(blk[ref.a], blk[ref.b], faults + 1)
    BY <1>2, <1>3, <1>6 DEF Beats, HasCommits, Blank
  <2> QED BY <2>1, <2>2, <1>3 DEF PairInv
<1>10. JobInv
  BY DEF Init, JobInv, Running
<1> QED BY <1>8, <1>9, <1>10 DEF IInv

----------------------------------------------------------------------------
(* The steps that leave the two halves alone.                              *)

LEMMA MountStep == IInv /\ Mount => IInv'
<1> SUFFICES ASSUME IInv, Mount PROVE IInv'
  OBVIOUS
<1>1. TypeOK'
  BY DEF IInv, Mount, TypeOK, Running, Phases
<1>2. PairInv'
  BY DEF IInv, Mount, PairInv
<1>3. JobInv'
  BY DEF IInv, Mount, JobInv, Running
<1> QED BY <1>1, <1>2, <1>3 DEF IInv

LEMMA ReuseFreeStep == IInv /\ ReuseFree => IInv'
<1> SUFFICES ASSUME IInv, ReuseFree PROVE IInv'
  OBVIOUS
<1> USE PairAssumption
<1>1. PICK f \in Blocks \ {ref.a, ref.b}, r \in AnyRevs, c \in Content :
         blk' = [blk EXCEPT ![f] =
                    [rev |-> r, end |-> Windows, top |-> Windows, img |-> c]]
  BY DEF ReuseFree
<1>2. pc = "idle" /\ UNCHANGED <<ref, pc, job, result, faults>>
  BY DEF ReuseFree
<1>3. [rev |-> r, end |-> Windows, top |-> Windows, img |-> c] \in BlockImage
  BY HalfFacts DEF BlockImage, Rev
<1>4. None \notin Content
  BY DEF Content
<1>5. TypeOK'
  BY <1>1, <1>2, <1>3, <1>4 DEF IInv, TypeOK, Running, Phases
<1>6. PairInv'
  BY <1>1, <1>2 DEF IInv, TypeOK, PairInv, Halves
<1>7. JobInv'
  BY <1>2 DEF JobInv, Running
<1> QED BY <1>5, <1>6, <1>7 DEF IInv

LEMMA SyncStep == IInv /\ Sync => IInv'
<1> SUFFICES ASSUME IInv, Sync PROVE IInv'
  OBVIOUS
<1>0. /\ UNCHANGED <<blk, ref>> /\ pc' = "idle" /\ job' = None
      /\ result' \in {"ok", "err"}
      /\ faults' = faults \/ (faults < MaxFaults /\ faults' = faults + 1)
  BY DEF Sync, Return, Fault
<1>1. TypeOK'
  BY <1>0, HalfFacts DEF IInv, TypeOK, Running, Phases
<1>2. PairInv'
  <2>1. PICK x \in Blocks, y \in Blocks : Halves(ref, x, y) /\ Beats(blk[x], blk[y], faults + 1)
    BY DEF IInv, PairInv
  <2>2. Beats(blk[x], blk[y], faults' + 1)
    BY <2>1, <1>0, HalfFacts DEF IInv, TypeOK, Beats, Dist, BlockImage, Rev
  <2> QED BY <2>1, <2>2, <1>0 DEF PairInv
<1>3. JobInv'
  BY <1>0 DEF JobInv, Running
<1> QED BY <1>1, <1>2, <1>3 DEF IInv

----------------------------------------------------------------------------
(* Facts the remaining steps share.                                        *)

\* A larger bound on the gap is a weaker claim.
LEMMA BeatsMono ==
    ASSUME NEW x \in BlockImage, NEW y \in BlockImage,
           NEW g \in Nat, NEW h \in Nat, g <= h, Beats(x, y, g)
    PROVE  Beats(x, y, h)
  BY HalfFacts DEF Beats, Dist, BlockImage, Rev

\* The image of the running commit beats the half it succeeds.
LEMMA NewBeatsOld ==
    ASSUME NEW x \in BlockImage, NEW y \in BlockImage, NEW g \in Nat,
           HasCommits(x), x.rev = Succ(y.rev), g >= 1
    PROVE  Beats(x, y, g)
  BY SuccIsNext DEF Beats, BlockImage

\* The halves as PairInv has them.
LEMMA PairFacts ==
    ASSUME TypeOK, PairInv
    PROVE  \E x, y \in Blocks :
              /\ x # y /\ Halves(ref, x, y) /\ Beats(blk[x], blk[y], faults + 1)
              /\ blk[x] \in BlockImage /\ blk[y] \in BlockImage
              /\ Active(blk, ref) = x /\ Other(ref, x) = y
<1>1. PICK x \in Blocks, y \in Blocks : Halves(ref, x, y) /\ Beats(blk[x], blk[y], faults + 1)
  BY DEF PairInv
<1>2. x # y /\ blk[x] \in BlockImage /\ blk[y] \in BlockImage /\ ref \in Pair
  BY <1>1 DEF TypeOK, Halves
<1>3. faults + 1 \in Nat /\ faults + 1 < Half
  BY HalfFacts DEF TypeOK
<1>4. Active(blk, ref) = x /\ Other(ref, x) = y
  BY <1>1, <1>2, <1>3, ActiveIs
<1> QED BY <1>1, <1>2, <1>4

\* Starting a commit: the locals agree with the blocks just read.
LEMMA StartCommitFacts ==
    ASSUME TypeOK, PairInv, NEW new \in Content, NEW n \in 1 .. Windows,
           NEW ct \in BOOLEAN, StartCommit(new, n, ct), UNCHANGED <<blk, ref, faults>>
    PROVE  /\ job' \in Job /\ job'.new = new /\ pc' \in {"program", "compact"}
           /\ PairInv' /\ JobInv'
<1> USE PairAssumption
<1>1. PICK x \in Blocks, y \in Blocks :
              /\ x # y /\ Halves(ref, x, y) /\ Beats(blk[x], blk[y], faults + 1)
              /\ blk[x] \in BlockImage /\ blk[y] \in BlockImage
              /\ Active(blk, ref) = x /\ Other(ref, x) = y
  BY PairFacts
<1> DEFINE can_append == Erased(blk[x]) /\ blk[x].end + n <= Windows /\ ~ct
<1>2. /\ blk[x].rev \in Rev /\ Succ(blk[x].rev) \in Rev
      /\ blk[x].end \in 0 .. Windows /\ HasCommits(blk[x]) /\ blk[x].end > 0
  BY <1>1, SuccIsNext DEF BlockImage, Beats, HasCommits
<1>3. /\ job' = [new |-> new, act |-> x, alt |-> y, rev |-> Succ(blk[x].rev),
                 role |-> "append", tgt |-> x,
                 pos  |-> IF can_append THEN blk[x].end + 1 ELSE 1,
                 last |-> IF can_append THEN blk[x].end + n ELSE 1,
                 bad |-> FALSE, fresh |-> None, victim |-> y, worn |-> {}, tries |-> 0]
      /\ pc' = IF can_append THEN "program" ELSE "compact"
  BY <1>1 DEF StartCommit
<1>4. PairInv'
  BY DEF PairInv
<1>5. job' \in Job
  BY <1>1, <1>2, <1>3 DEF Job, Roles
<1>6. /\ job'.act = x /\ job'.alt = y /\ job'.tgt = x /\ job'.rev = Succ(blk[x].rev)
      /\ job'.role = "append" /\ job'.bad = FALSE /\ job'.fresh = None /\ job'.new = new
  BY <1>3
<1>7. CASE can_append
  <2>1. /\ pc' = "program" /\ job'.pos = blk[x].end + 1 /\ job'.last = blk[x].end + n
        /\ blk[x].top = blk[x].end
    BY <1>3, <1>7 DEF Erased
  <2>2. RoleInv'
    BY <2>1, <1>6, <1>1 DEF RoleInv, Untouched, IsOld
  <2>3. ProgramInv'
    BY <2>1, <1>2, <1>6 DEF ProgramInv
  <2> QED BY <2>1, <2>2, <2>3, <1>1, <1>2, <1>4, <1>5, <1>6 DEF JobInv
<1>8. CASE ~can_append
  <2>1. pc' = "compact"
    BY <1>3, <1>8
  <2> QED BY <2>1, <1>1, <1>2, <1>4, <1>5, <1>6 DEF JobInv, Untouched, IsOld
<1> QED BY <1>7, <1>8

LEMMA BeginCommitStep == IInv /\ BeginCommit => IInv'
<1> SUFFICES ASSUME IInv, BeginCommit PROVE IInv'
  OBVIOUS
<1>1. PICK op \in Ops, n \in 1 .. Windows, ct \in BOOLEAN :
         StartCommit(Apply(Visible, op), n, ct)
  BY DEF BeginCommit
<1>2. UNCHANGED <<blk, ref, faults>> /\ result' = "none"
  BY DEF BeginCommit
<1>3. Visible \in Content
  <2>1. PICK x \in Blocks : Active(blk, ref) = x /\ HasCommits(blk[x]) /\ blk[x] \in BlockImage
    BY PairFacts DEF IInv, Beats
  <2> QED BY <2>1 DEF IInv, TypeOK, Visible, HasCommits, BlockImage
<1>4. Apply(Visible, op) \in Content
  BY <1>3 DEF Apply, Ops, Content
<1>5. /\ job' \in Job /\ pc' \in {"program", "compact"} /\ PairInv' /\ JobInv'
  BY <1>1, <1>2, <1>4, StartCommitFacts DEF IInv
<1>6. TypeOK'
  BY <1>2, <1>5 DEF IInv, TypeOK, Running, Phases
<1> QED BY <1>5, <1>6 DEF IInv

LEMMA CancelStep == IInv /\ Cancel => IInv' /\ Visible = job.new /\ job'.new = job.new
<1> SUFFICES ASSUME IInv, Cancel PROVE IInv' /\ Visible = job.new /\ job'.new = job.new
  OBVIOUS
<1>1. PICK n \in 1 .. Windows : StartCommit(Visible, n, FALSE)
  BY DEF Cancel
<1>2. UNCHANGED <<blk, ref, faults, result>> /\ pc = "cancel"
  BY DEF Cancel
<1>3. /\ Halves(ref, job.act, job.alt) /\ DoneOn(job.alt) /\ job.rev = Succ(blk[job.act].rev)
      /\ job \in Job /\ ref \in Pair /\ ref.a # ref.b
  BY <1>2 DEF IInv, JobInv, Running, TypeOK
<1>4. /\ job.act \in Blocks /\ job.alt \in Blocks /\ job.act # job.alt /\ job.new \in Content
      /\ blk[job.act] \in BlockImage /\ blk[job.alt] \in BlockImage
  BY <1>3 DEF IInv, TypeOK, Job, Halves
<1>5. Beats(blk[job.alt], blk[job.act], 1)
  BY <1>3, <1>4, NewBeatsOld DEF DoneOn, IsDone
<1>6. Halves(ref, job.alt, job.act)
  BY <1>3 DEF Halves
<1>7. Active(blk, ref) = job.alt
  BY <1>3, <1>4, <1>5, <1>6, HalfFacts, ActiveIs
<1>8. Visible = job.new
  BY <1>7, <1>3 DEF Visible, DoneOn, IsDone
<1>9. /\ job' \in Job /\ job'.new = job.new
      /\ pc' \in {"program", "compact"} /\ PairInv' /\ JobInv'
  BY <1>1, <1>2, <1>4, <1>8, StartCommitFacts DEF IInv
<1>10. TypeOK'
  BY <1>2, <1>9 DEF IInv, TypeOK, Running, Phases
<1> QED BY <1>8, <1>9, <1>10 DEF IInv

----------------------------------------------------------------------------
(* Leaving a write.                                                        *)

\* What every point of a commit before its address is installed shares.
LEMMA RunningFacts ==
    ASSUME IInv, Running, pc # "sync"
    PROVE  /\ job \in Job /\ ref \in Pair /\ ref.a # ref.b
           /\ job.act \in Blocks /\ job.alt \in Blocks /\ job.act # job.alt
           /\ job.tgt \in Blocks /\ job.rev \in Rev /\ job.new \in Content
           /\ job.pos \in 1 .. Windows + 1 /\ job.last \in 1 .. Windows
           /\ job.bad \in BOOLEAN /\ job.role \in Roles
           /\ Halves(ref, job.act, job.alt)
           /\ {ref.a, ref.b} = {job.act, job.alt}
           /\ HasCommits(blk[job.act])
           /\ job.rev = Succ(blk[job.act].rev)
           /\ \A x \in Blocks : blk[x] \in BlockImage
           /\ faults \in Nat /\ faults + 1 \in Nat /\ faults + 2 < Half
<1>1. job \in Job /\ ref \in Pair /\ ref.a # ref.b /\ \A x \in Blocks : blk[x] \in BlockImage
  BY DEF IInv, TypeOK
<1>2. Halves(ref, job.act, job.alt) /\ HasCommits(blk[job.act]) /\ job.rev = Succ(blk[job.act].rev)
  BY DEF IInv, JobInv
<1>3. {ref.a, ref.b} = {job.act, job.alt} /\ job.act # job.alt
  BY <1>1, <1>2 DEF Halves
<1>4. faults \in Nat /\ faults + 1 \in Nat /\ faults + 2 < Half
  BY HalfFacts DEF IInv, TypeOK
<1> QED BY <1>1, <1>2, <1>3, <1>4 DEF Job

\* A pair with one half that may be given up is a good pair.
LEMMA EvictablePair ==
    ASSUME IInv, Running, pc # "sync", NEW bl, NEW f \in Nat, NEW v,
           bl[job.act] \in BlockImage, bl[job.alt] \in BlockImage,
           bl[job.act].rev = blk[job.act].rev, HasCommits(bl[job.act]),
           IsEvictable(bl, f, job, v)
    PROVE  \E x, y \in Blocks : Halves(ref, x, y) /\ Beats(bl[x], bl[y], f + 1)
<1>1. CASE IsOld(bl, job, f) \/ IsOld(bl, job, f + 1)
  <2>1. Beats(bl[job.act], bl[job.alt], f + 1)
    BY <1>1, BeatsMono, f + 1 \in Nat, f <= f + 1 DEF IsOld
  <2> QED BY <2>1, RunningFacts
<1>2. CASE IsDone(bl, job, job.alt)
  <2>1. Beats(bl[job.alt], bl[job.act], f + 1)
    BY <1>2, RunningFacts, NewBeatsOld, f + 1 \in Nat, f + 1 >= 1 DEF IsDone
  <2>2. Halves(ref, job.alt, job.act)
    BY RunningFacts DEF Halves
  <2> QED BY <2>1, <2>2, RunningFacts
<1> QED BY <1>1, <1>2 DEF IsEvictable

\* A failed write: the worn half can be evicted, and every way out of
\* WriteFailed keeps the invariant.
LEMMA WriteFailedFacts ==
    ASSUME IInv, pc \in {"erase", "program", "verify"}, WriteFailed,
           ref' = ref, faults' \in 0 .. MaxFaults,
           blk' \in [Blocks -> BlockImage],
           \A x \in Blocks : /\ blk'[x].end <= blk'[x].top
                             /\ blk'[x].end = 0 <=> blk'[x].img = None,
           blk'[job.act].rev = blk[job.act].rev, HasCommits(blk'[job.act]),
           job.role = "append" => job.tgt = job.act /\ IsEvictable(blk', faults', job, job.act),
           job.role = "alt" => job.tgt = job.alt /\ IsEvictable(blk', faults', job, job.alt),
           job.role = "fresh" => IsDone(blk', job, job.alt),
           job.role = "reloc" => IsEvictable(blk', faults', job, job.victim)
    PROVE  IInv'
<1> USE PairAssumption
<1>0. /\ Running /\ pc # "sync" /\ faults' \in Nat /\ job \in Job
      /\ blk'[job.act] \in BlockImage /\ blk'[job.alt] \in BlockImage
  BY RunningFacts DEF Running
<1>1. \E v : IsEvictable(blk', faults', job, v)
  BY RunningFacts, <1>0 DEF Roles, IsEvictable
<1>2. PairInv'
  BY <1>0, <1>1, EvictablePair DEF PairInv
<1>3. CASE Return("err")
  <2>1. TypeOK'
    BY <1>3 DEF IInv, TypeOK, Return, Running, Phases
  <2>2. JobInv'
    BY <1>3 DEF JobInv, Return, Running
  <2> QED BY <1>2, <2>1, <2>2 DEF IInv
<1>4. CASE /\ job.role \in {"append", "alt"}
           /\ job' = [job EXCEPT !.role = "reloc", !.victim = job.tgt]
           /\ pc' = "relocate" /\ result' = result
  <2>1. /\ job' \in Job /\ job'.role = "reloc" /\ job'.victim = job.tgt
        /\ job'.act = job.act /\ job'.alt = job.alt /\ job'.rev = job.rev
        /\ job'.new = job.new /\ job'.fresh = job.fresh
    BY <1>4, <1>0, RunningFacts DEF Job, Roles
  <2>2. IsEvictable(blk', faults', job, job.tgt)
    BY <1>4
  <2>3. Evicting'
    BY <2>1, <2>2 DEF Evicting, IsEvictable, IsOld, IsDone
  <2>4. TypeOK'
    BY <1>4, <2>1 DEF IInv, TypeOK, Running, Phases
  <2>5. JobInv'
    BY <1>0, <1>4, <2>1, <2>3, RunningFacts DEF IInv, JobInv
  <2> QED BY <1>2, <2>4, <2>5 DEF IInv
<1>5. CASE job.role = "fresh" /\ pc' = "cancel" /\ UNCHANGED <<job, result>>
  <2>1. TypeOK'
    BY <1>0, <1>5 DEF IInv, TypeOK, Running, Phases
  <2>2. JobInv'
    BY <1>0, <1>5, RunningFacts DEF IInv, JobInv, DoneOn, IsDone
  <2> QED BY <1>2, <2>1, <2>2 DEF IInv
<1>6. CASE /\ job.role = "reloc" /\ job.tries + 1 < MaxTries
           /\ job' = [job EXCEPT !.tries = @ + 1, !.worn = @ \cup {job.tgt}, !.fresh = None]
           /\ pc' = "relocate" /\ result' = result
  <2>0. job.tries + 1 \in 0 .. MaxTries /\ job.worn \cup {job.tgt} \in SUBSET Blocks
    BY <1>6, <1>0 DEF Job
  <2>1. /\ job' \in Job /\ job'.role = "reloc" /\ job'.victim = job.victim
        /\ job'.act = job.act /\ job'.alt = job.alt /\ job'.rev = job.rev
        /\ job'.new = job.new /\ job'.fresh = None
    BY <1>6, <1>0, <2>0, Zenon DEF Job
  <2>2. Evicting'
    BY <2>1, <1>6 DEF Evicting, IsEvictable, IsOld, IsDone
  <2>3. TypeOK'
    BY <1>6, <2>1 DEF IInv, TypeOK, Running, Phases
  <2>4. JobInv'
    BY <1>0, <1>6, <2>1, <2>2, RunningFacts DEF IInv, JobInv
  <2> QED BY <1>2, <2>3, <2>4 DEF IInv
<1> QED BY <1>3, <1>4, <1>5, <1>6 DEF WriteFailed

----------------------------------------------------------------------------
(* The steps of the commit.                                                *)

LEMMA CompactStep == IInv /\ Compact => IInv'
<1> SUFFICES ASSUME IInv, Compact PROVE IInv'
  OBVIOUS
<1> USE PairAssumption
<1>0. pc = "compact" /\ Running /\ pc # "sync" /\ faults' = faults /\ UNCHANGED <<blk, ref>>
  BY DEF Compact, Running, ReturnErr
<1>1. PairInv'
  BY <1>0 DEF IInv, PairInv
<1>2. CASE ReturnErr
  <2>1. TypeOK'
    BY <1>0, <1>2 DEF IInv, TypeOK, ReturnErr, Return, Running, Phases
  <2>2. JobInv'
    BY <1>2 DEF JobInv, ReturnErr, Return, Running
  <2> QED BY <1>1, <2>1, <2>2 DEF IInv
<1>3. ASSUME NEW n \in 1 .. Windows,
             NEW f \in IF ShouldRelocate(job.rev)
                      THEN Blocks \ {job.act, job.alt} ELSE {None},
             job' = [job EXCEPT !.role = "alt", !.tgt = job.alt, !.fresh = f,
                                !.last = n, !.pos = 1, !.bad = FALSE],
             pc' = "erase", result' = result
      PROVE  IInv'
  <2>1. f \in Blocks \cup {None} /\ (f # None => f \notin {ref.a, ref.b})
    BY <1>0, <1>3, RunningFacts
  <2>2. 1 \in 1 .. Windows + 1 /\ "alt" \in Roles
    BY DEF Roles
  <2>3. /\ job' \in Job /\ job'.role = "alt" /\ job'.tgt = job.alt /\ job'.fresh = f
        /\ job'.pos = 1 /\ job'.bad = FALSE /\ job'.act = job.act /\ job'.alt = job.alt
        /\ job'.rev = job.rev /\ job'.new = job.new
    BY <1>0, <1>3, <2>1, <2>2, RunningFacts, Zenon DEF Job
  <2>4. TypeOK'
    BY <1>0, <1>3, <2>3 DEF IInv, TypeOK, Running, Phases
  <2>5. JobInv'
    BY <1>0, <1>3, <2>1, <2>3, RunningFacts
       DEF IInv, JobInv, RoleInv, Untouched, IsOld
  <2> QED BY <1>1, <2>4, <2>5 DEF IInv
<1> QED BY <1>2, <1>3 DEF Compact

LEMMA RelocateStep == IInv /\ Relocate => IInv'
<1> SUFFICES ASSUME IInv, Relocate PROVE IInv'
  OBVIOUS
<1> USE PairAssumption
<1>0. pc = "relocate" /\ Running /\ pc # "sync" /\ faults' = faults /\ UNCHANGED <<blk, ref>>
  BY DEF Relocate, Running, ReturnErr
<1>1. PairInv'
  BY <1>0 DEF IInv, PairInv
<1>2. CASE ReturnErr
  <2>1. TypeOK'
    BY <1>0, <1>2 DEF IInv, TypeOK, ReturnErr, Return, Running, Phases
  <2>2. JobInv'
    BY <1>2 DEF JobInv, ReturnErr, Return, Running
  <2> QED BY <1>1, <2>1, <2>2 DEF IInv
<1>3. ASSUME NEW n \in 1 .. Windows,
             NEW f \in IF job.fresh # None THEN {job.fresh}
                      ELSE Blocks \ ({ref.a, ref.b} \cup job.worn),
             job' = [job EXCEPT !.tgt = f, !.fresh = None, !.last = n, !.pos = 1,
                                !.bad = FALSE],
             pc' = "erase", result' = result
      PROVE  IInv'
  <2>1. f \in Blocks /\ f \notin {ref.a, ref.b}
    BY <1>0, <1>3, RunningFacts DEF IInv, JobInv, Job
  <2>2. 1 \in 1 .. Windows + 1
    OBVIOUS
  <2>3. /\ job' \in Job /\ job'.role = job.role /\ job'.tgt = f /\ job'.fresh = None
        /\ job'.pos = 1 /\ job'.bad = FALSE /\ job'.act = job.act /\ job'.alt = job.alt
        /\ job'.rev = job.rev /\ job'.new = job.new /\ job'.victim = job.victim
    BY <1>0, <1>3, <2>1, <2>2, RunningFacts, Zenon DEF Job
  <2>4. TypeOK'
    BY <1>0, <1>3, <2>3 DEF IInv, TypeOK, Running, Phases
  <2>5. job.role = "reloc" /\ Evicting
    BY <1>0 DEF IInv, JobInv
  <2>6. Evicting'
    BY <1>0, <2>3, <2>5 DEF Evicting, IsEvictable, IsOld, IsDone
  <2>7. JobInv'
    BY <1>0, <1>3, <2>1, <2>3, <2>5, <2>6, RunningFacts DEF JobInv, RoleInv
  <2> QED BY <1>1, <2>4, <2>7 DEF IInv
<1> QED BY <1>2, <1>3 DEF Relocate

\* A block image that satisfies the type invariant's side conditions.
Sound(x) == /\ x \in BlockImage
            /\ x.end <= x.top
            /\ x.end = 0 <=> x.img = None

\* What an interrupted erase leaves is a sound image that wins against
\* nothing the old image did not win against.
LEMMA TornEraseFacts ==
    ASSUME NEW x, Sound(x), NEW y \in TornErase(x)
    PROVE  Sound(y) /\ (HasCommits(y) => HasCommits(x) /\ y.rev = x.rev)
<1> USE PairAssumption
<1>0. None \notin Content
  BY DEF Content
<1>1. CASE y = x
  BY <1>1
<1>2. ASSUME NEW r \in AnyRevs, y = [rev |-> r, end |-> 0, top |-> Windows, img |-> None]
      PROVE  Sound(y) /\ ~HasCommits(y)
  BY <1>2 DEF Sound, BlockImage, Rev, HasCommits
<1>3. ASSUME NEW e \in 1 .. x.end, NEW c \in Content,
             y = [rev |-> x.rev, end |-> e, top |-> Windows, img |-> c]
      PROVE  Sound(y) /\ HasCommits(x) /\ y.rev = x.rev
  BY <1>0, <1>3 DEF Sound, BlockImage, HasCommits
<1> QED BY <1>1, <1>2, <1>3 DEF TornErase

\* Replacing the image of one block by a sound one keeps TypeOK's part.
LEMMA SoundUpdate ==
    ASSUME TypeOK, NEW t \in Blocks, NEW y, Sound(y), blk' = [blk EXCEPT ![t] = y]
    PROVE  /\ blk' \in [Blocks -> BlockImage]
           /\ \A x \in Blocks : /\ blk'[x].end <= blk'[x].top
                                /\ blk'[x].end = 0 <=> blk'[x].img = None
           /\ blk'[t] = y /\ \A x \in Blocks : x # t => blk'[x] = blk[x]
           /\ Sound(blk[t])
  BY DEF TypeOK, Sound

\* The block a commit writes, other than by an append, is not the active
\* half; a fresh block is neither half.
LEMMA TargetFacts ==
    ASSUME IInv, pc \in {"erase", "program", "verify"}
    PROVE  /\ Running /\ pc # "sync" /\ RoleInv
           /\ job.role = "append" => job.tgt = job.act
           /\ job.role = "alt" => job.tgt = job.alt /\ job.tgt # job.act
           /\ job.role \in {"fresh", "reloc"} => job.tgt # job.act /\ job.tgt # job.alt
<1>1. Running /\ pc # "sync" /\ RoleInv
  BY DEF Running, IInv, JobInv
<1> QED BY <1>1, RunningFacts DEF RoleInv

LEMMA EraseOkStep == IInv /\ EraseOk => IInv'
<1> SUFFICES ASSUME IInv, EraseOk PROVE IInv'
  OBVIOUS
<1> USE PairAssumption
<1>0. pc = "erase" /\ Running /\ pc # "sync" /\ UNCHANGED <<ref, job, result, faults>>
  BY DEF EraseOk, Running
<1>1. Sound(Blank)
  BY HalfFacts DEF Sound, Blank, BlockImage, Rev
<1>2. /\ blk' \in [Blocks -> BlockImage]
      /\ \A x \in Blocks : /\ blk'[x].end <= blk'[x].top
                           /\ blk'[x].end = 0 <=> blk'[x].img = None
      /\ blk'[job.tgt] = Blank /\ \A x \in Blocks : x # job.tgt => blk'[x] = blk[x]
  BY <1>0, <1>1, RunningFacts, SoundUpdate DEF EraseOk, IInv
<1>3. pc' = "program"
  BY DEF EraseOk
<1>4. TypeOK'
  BY <1>0, <1>2, <1>3 DEF IInv, TypeOK, Running, Phases
<1>5. job.role # "append" /\ job.pos = 1 /\ ~job.bad /\ RoleInv
      /\ (job.role = "alt" => Untouched(faults + 1))
  BY <1>0 DEF IInv, JobInv
<1>6. blk'[job.act] = blk[job.act]
  BY <1>0, <1>2, <1>5, TargetFacts, RunningFacts DEF Roles
<1>7. CASE job.role = "alt"
  <2>1. IsOld(blk', job, faults + 1)
    BY <1>0, <1>2, <1>6, <1>7, TargetFacts, RunningFacts
       DEF IsOld, Beats, HasCommits, Blank
  <2>2. RoleInv'
    BY <1>0, <1>3, <1>7, <2>1, TargetFacts DEF RoleInv, Untouched
  <2>3. PairInv'
    BY <1>0, <2>1, RunningFacts DEF PairInv, IsOld
  <2>4. ProgramInv'
    BY <1>0, <1>2, <1>5, RunningFacts DEF ProgramInv, Blank
  <2>5. JobInv'
    BY <1>0, <1>3, <1>6, <2>2, <2>4, RunningFacts DEF IInv, JobInv
  <2> QED BY <1>4, <2>3, <2>5 DEF IInv
<1>8. CASE job.role \in {"fresh", "reloc"}
  <2>1. blk'[job.alt] = blk[job.alt]
    BY <1>0, <1>2, <1>8, TargetFacts, RunningFacts
  <2>2. RoleInv'
    BY <1>0, <1>3, <1>5, <1>6, <1>8, <2>1
       DEF RoleInv, Evicting, DoneOn, IsEvictable, IsOld, IsDone
  <2>3. IsEvictable(blk', faults, job, job.victim)
    BY <1>0, <1>8, <2>2 DEF RoleInv, Evicting, DoneOn, IsEvictable, IsDone
  <2>4. PairInv'
    BY <1>0, <1>2, <1>6, <2>3, RunningFacts, EvictablePair DEF PairInv
  <2>5. ProgramInv'
    BY <1>0, <1>2, <1>5, RunningFacts DEF ProgramInv, Blank
  <2>6. JobInv'
    BY <1>0, <1>3, <1>6, <2>2, <2>5, RunningFacts DEF IInv, JobInv
  <2> QED BY <1>4, <2>4, <2>6 DEF IInv
<1> QED BY <1>0, <1>5, <1>7, <1>8, RunningFacts DEF Roles

LEMMA EraseErrStep == IInv /\ EraseErr => IInv'
<1> SUFFICES ASSUME IInv, EraseErr PROVE IInv'
  OBVIOUS
<1>0. /\ pc = "erase" /\ Running /\ pc # "sync" /\ ref' = ref /\ WriteFailed
      /\ faults < MaxFaults /\ faults' = faults + 1 /\ TypeOK
  BY DEF EraseErr, Running, Fault, IInv
<1>1. PICK y \in TornErase(blk[job.tgt]) : blk' = [blk EXCEPT ![job.tgt] = y]
  BY DEF EraseErr
<1>2. Sound(blk[job.tgt])
  BY <1>0, RunningFacts DEF TypeOK, Sound
<1>3. Sound(y) /\ (HasCommits(y) => HasCommits(blk[job.tgt]) /\ y.rev = blk[job.tgt].rev)
  BY <1>2, TornEraseFacts
<1>4. /\ blk' \in [Blocks -> BlockImage]
      /\ \A x \in Blocks : /\ blk'[x].end <= blk'[x].top
                           /\ blk'[x].end = 0 <=> blk'[x].img = None
      /\ blk'[job.tgt] = y /\ \A x \in Blocks : x # job.tgt => blk'[x] = blk[x]
  BY <1>0, <1>1, <1>3, RunningFacts, SoundUpdate
<1>5. job.role # "append" /\ RoleInv /\ (job.role = "alt" => Untouched(faults + 1))
  BY <1>0 DEF IInv, JobInv
<1>6. blk'[job.act] = blk[job.act]
  BY <1>0, <1>4, <1>5, TargetFacts, RunningFacts DEF Roles
<1>7. faults' \in 0 .. MaxFaults /\ faults' + 1 \in Nat /\ faults + 1 <= faults' + 1 /\ faults <= faults'
      /\ faults' \in Nat
  BY <1>0, RunningFacts, HalfFacts DEF TypeOK
<1>8. job.role = "alt" => job.tgt = job.alt /\ IsEvictable(blk', faults', job, job.alt)
  <2> SUFFICES ASSUME job.role = "alt"
               PROVE  job.tgt = job.alt /\ IsEvictable(blk', faults', job, job.alt)
    OBVIOUS
  <2>1. job.tgt = job.alt
    BY <1>0, TargetFacts
  <2>2. Beats(blk'[job.act], blk'[job.alt], faults + 1)
    BY <1>3, <1>4, <1>5, <1>6, <2>1 DEF Untouched, IsOld, Beats
  <2>3. Beats(blk'[job.act], blk'[job.alt], faults' + 1)
    BY <1>0, <1>4, <1>7, <2>2, RunningFacts, BeatsMono
  <2> QED BY <2>1, <2>3 DEF IsEvictable, IsOld
<1>9. /\ job.role = "fresh" => IsDone(blk', job, job.alt)
      /\ job.role = "reloc" => IsEvictable(blk', faults', job, job.victim)
  <2>1. job.role \in {"fresh", "reloc"} => blk'[job.alt] = blk[job.alt]
    BY <1>0, <1>4, TargetFacts, RunningFacts
  <2>2. job.role = "reloc" => IsEvictable(blk, faults', job, job.victim)
    <3>1. job.role = "reloc" => IsEvictable(blk, faults, job, job.victim)
      BY <1>5 DEF RoleInv, Evicting
    <3> QED BY <1>0, <1>7, <3>1, BeatsMono, RunningFacts DEF IsEvictable, IsOld
  <2> QED BY <1>5, <1>6, <2>1, <2>2 DEF RoleInv, DoneOn, IsDone, IsEvictable, IsOld
<1> QED BY <1>0, <1>4, <1>5, <1>6, <1>7, <1>8, <1>9, RunningFacts, WriteFailedFacts

----------------------------------------------------------------------------
(* Programming one window.                                                 *)

\* The image y after a window: the commit did not complete, or this was its
\* last window and nothing was corrupted.
Wrote(y) ==
    LET x == blk[job.tgt]
    IN  /\ Sound(y)
        /\ job.pos > 1 => y.rev = x.rev
        /\ \/ y.end = x.end /\ y.img = x.img
           \/ /\ ~job.bad /\ job.pos = job.last
              /\ y.end = job.last /\ y.img = job.new
              /\ job.pos = 1 => y.rev = job.rev

LEMMA LandedFacts ==
    ASSUME IInv, pc = "program", NEW clean \in BOOLEAN
    PROVE  LET y == Landed(blk[job.tgt], clean)
           IN  /\ Wrote(y) /\ y.top = job.pos
               /\ job.pos = 1 => y.rev = job.rev
               /\ clean /\ ~job.bad /\ job.pos = job.last => y.end = job.last /\ y.img = job.new
               /\ clean /\ job.pos # job.last => y.end = blk[job.tgt].end
<1> DEFINE x == blk[job.tgt]
           y == Landed(x, clean)
<1>0. Running /\ pc # "sync" /\ ProgramInv
  BY DEF Running, IInv, JobInv
<1>1. Sound(x)
  BY <1>0, RunningFacts DEF IInv, TypeOK, Sound
<1>2. /\ job.pos \in 1 .. Windows /\ job.last \in 1 .. Windows /\ x.top = job.pos - 1
      /\ job.rev \in Rev /\ job.new \in Content
  BY <1>0, RunningFacts, PairAssumption DEF ProgramInv
<1>3. /\ y.rev = IF job.pos = 1 THEN job.rev ELSE x.rev
      /\ y.end = IF clean /\ ~job.bad /\ job.pos = job.last THEN job.last ELSE x.end
      /\ y.top = IF job.pos > x.top THEN job.pos ELSE x.top
      /\ y.img = IF clean /\ ~job.bad /\ job.pos = job.last THEN job.new ELSE x.img
  BY DEF Landed
<1>4. y.top = job.pos
  BY <1>1, <1>2, <1>3 DEF Sound, BlockImage
<1>5. y.rev \in Rev /\ y.end \in 0 .. Windows /\ y.top \in 0 .. Windows /\ y.img \in Content \cup {None}
  BY <1>1, <1>2, <1>3, <1>4 DEF Sound, BlockImage
<1>6. y \in BlockImage
  BY <1>5 DEF BlockImage, Landed
<1>7. y.end <= y.top /\ (y.end = 0 <=> y.img = None)
  BY <1>1, <1>2, <1>3, <1>4, PairAssumption DEF Sound, Content, BlockImage
<1>8. Sound(y)
  BY <1>6, <1>7 DEF Sound
<1> QED BY <1>3, <1>4, <1>8 DEF Wrote

LEMMA DamagedFacts ==
    ASSUME IInv, pc = "program", NEW y \in Damaged(blk[job.tgt])
    PROVE  Wrote(y) /\ y.top = job.pos /\ y.end = blk[job.tgt].end
<1> DEFINE x == blk[job.tgt]
<1>0. Running /\ pc # "sync" /\ ProgramInv
  BY DEF Running, IInv, JobInv
<1>1. Sound(x)
  BY <1>0, RunningFacts DEF IInv, TypeOK, Sound
<1>2. job.pos \in 1 .. Windows /\ x.top = job.pos - 1 /\ job.rev \in Rev
  BY <1>0, RunningFacts, PairAssumption DEF ProgramInv
<1>3. PICK r \in IF job.pos = 1 THEN AnyRevs \cup {job.rev} ELSE {x.rev} :
         y = [x EXCEPT !.rev = r, !.top = IF job.pos > x.top THEN job.pos ELSE x.top]
  BY DEF Damaged
<1>4. r \in Rev /\ (job.pos > 1 => r = x.rev)
  BY <1>1, <1>2, <1>3, PairAssumption DEF Sound, BlockImage, Rev
<1>5. (IF job.pos > x.top THEN job.pos ELSE x.top) = job.pos /\ job.pos \in 0 .. Windows
  BY <1>1, <1>2 DEF Sound, BlockImage
<1>6. y \in BlockImage /\ y.rev = r /\ y.top = job.pos /\ y.end = x.end /\ y.img = x.img
  BY <1>1, <1>3, <1>4, <1>5, Zenon DEF Sound, BlockImage
<1>7. Sound(y)
  BY <1>1, <1>2, <1>6 DEF Sound, BlockImage
<1> QED BY <1>4, <1>6, <1>7 DEF Wrote

\* After any window, each role's claim about the two halves still holds.
LEMMA AfterWrite ==
    ASSUME IInv, pc = "program", NEW y, Wrote(y), blk' = [blk EXCEPT ![job.tgt] = y]
    PROVE  /\ blk' \in [Blocks -> BlockImage]
           /\ \A x \in Blocks : /\ blk'[x].end <= blk'[x].top
                                /\ blk'[x].end = 0 <=> blk'[x].img = None
           /\ blk'[job.tgt] = y
           /\ blk'[job.act].rev = blk[job.act].rev /\ HasCommits(blk'[job.act])
           /\ job.role = "append" => IsOld(blk', job, IF job.bad THEN faults ELSE faults + 1)
           /\ job.role = "alt" => IsOld(blk', job, faults + 1) \/ IsDone(blk', job, job.alt)
           /\ job.role = "fresh" => IsDone(blk', job, job.alt)
           /\ job.role = "reloc" => IsEvictable(blk', faults, job, job.victim)
           /\ \E x, z \in Blocks : Halves(ref, x, z) /\ Beats(blk'[x], blk'[z], faults + 1)
<1> USE PairAssumption
<1>0. Running /\ pc # "sync" /\ ProgramInv /\ RoleInv /\ TypeOK
  BY DEF Running, IInv, JobInv
<1>1. /\ blk' \in [Blocks -> BlockImage]
      /\ \A x \in Blocks : /\ blk'[x].end <= blk'[x].top
                           /\ blk'[x].end = 0 <=> blk'[x].img = None
      /\ blk'[job.tgt] = y /\ \A x \in Blocks : x # job.tgt => blk'[x] = blk[x]
      /\ Sound(blk[job.tgt])
  BY <1>0, RunningFacts, SoundUpdate DEF Wrote
<1>2. blk'[job.act] \in BlockImage /\ blk'[job.alt] \in BlockImage
  BY <1>0, <1>1, RunningFacts
<1>3. CASE job.role = "append"
  <2>1. job.tgt = job.act /\ blk'[job.alt] = blk[job.alt] /\ blk'[job.act] = y
    BY <1>0, <1>1, <1>3, TargetFacts, RunningFacts
  <2>2. job.pos > 1
    BY <1>0, <1>1, <2>1, RunningFacts DEF ProgramInv, HasCommits, Sound, BlockImage
  <2>3. y.rev = blk[job.act].rev /\ HasCommits(y)
    BY <1>0, <2>1, <2>2, RunningFacts DEF Wrote, HasCommits
  <2>4. IsOld(blk', job, IF job.bad THEN faults ELSE faults + 1)
    BY <1>0, <1>3, <2>1, <2>3 DEF RoleInv, Untouched, IsOld, Beats
  <2>5. Beats(blk'[job.act], blk'[job.alt], faults + 1)
    BY <1>0, <1>2, <2>4, RunningFacts, BeatsMono, faults <= faults + 1 DEF IsOld
  <2> QED BY <1>0, <1>1, <1>3, <2>1, <2>3, <2>4, <2>5, RunningFacts
<1>4. CASE job.role # "append"
  <2>1. blk'[job.act] = blk[job.act] /\ blk[job.tgt].end = 0 /\ job.role \in Roles
    BY <1>0, <1>1, <1>4, TargetFacts, RunningFacts DEF ProgramInv, Roles
  <2>2. HasCommits(blk'[job.act]) /\ blk'[job.act].rev = blk[job.act].rev
    BY <1>0, <2>1, RunningFacts
  <2>3. CASE job.role = "alt"
    <3>1. job.tgt = job.alt
      BY <1>0, <2>3, TargetFacts
    <3>2. IsOld(blk', job, faults + 1) \/ IsDone(blk', job, job.alt)
      <4>1. CASE y.end = 0
        BY <1>1, <2>2, <3>1, <4>1 DEF IsOld, Beats, HasCommits
      <4>2. CASE y.end # 0
        <5>1. y.end = job.last /\ y.img = job.new /\ ~job.bad
          BY <2>1, <4>2 DEF Wrote
        <5>2. y.rev = job.rev
          BY <1>0, <1>4, <2>1, <4>2, <5>1, RunningFacts DEF Wrote, ProgramInv
        <5>3. HasCommits(y)
          BY <1>0, <5>1, RunningFacts DEF HasCommits
        <5> QED BY <1>1, <3>1, <5>1, <5>2, <5>3 DEF IsDone
      <4> QED BY <4>1, <4>2
    <3>3. IsEvictable(blk', faults, job, job.alt)
      BY <3>2 DEF IsEvictable
    <3>4. \E x, z \in Blocks : Halves(ref, x, z) /\ Beats(blk'[x], blk'[z], faults + 1)
      BY <1>0, <1>2, <2>2, <3>3, EvictablePair, RunningFacts
    <3> QED BY <1>1, <2>2, <2>3, <3>2, <3>4
  <2>4. CASE job.role \in {"fresh", "reloc"}
    <3>1. blk'[job.alt] = blk[job.alt]
      BY <1>0, <1>1, <2>4, TargetFacts, RunningFacts
    <3>2. /\ job.role = "fresh" => IsDone(blk', job, job.alt) /\ job.victim = job.alt
          /\ job.role = "reloc" => IsEvictable(blk', faults, job, job.victim)
      BY <1>0, <2>1, <3>1
         DEF RoleInv, DoneOn, Evicting, IsDone, IsOld, IsEvictable
    <3>3. IsEvictable(blk', faults, job, job.victim)
      BY <2>4, <3>2 DEF IsEvictable
    <3>4. \E x, z \in Blocks : Halves(ref, x, z) /\ Beats(blk'[x], blk'[z], faults + 1)
      BY <1>0, <1>2, <2>2, <3>3, EvictablePair, RunningFacts
    <3> QED BY <1>1, <2>2, <2>4, <3>2, <3>4
  <2> QED BY <1>4, <2>1, <2>3, <2>4 DEF Roles
<1> QED BY <1>3, <1>4

\* More faults make a half no less evictable.
LEMMA EvictableMono ==
    ASSUME NEW bl, NEW j, NEW v, NEW f \in Nat, NEW h \in Nat, f <= h,
           bl[j.act] \in BlockImage, bl[j.alt] \in BlockImage, IsEvictable(bl, f, j, v)
    PROVE  IsEvictable(bl, h, j, v)
<1>1. f + 1 \in Nat /\ h + 1 \in Nat /\ f + 1 <= h + 1
  OBVIOUS
<1> QED BY <1>1, BeatsMono DEF IsEvictable, IsOld

\* Moving to the next window, or to the read back after the last one.
LEMMA NextWindowFacts ==
    ASSUME IInv, pc = "program", NEW y, Wrote(y), y.top = job.pos,
           blk' = [blk EXCEPT ![job.tgt] = y], NEW bad \in BOOLEAN, NextWindow(bad),
           \/ bad = job.bad /\ faults' = faults
           \/ bad = TRUE /\ faults' = faults + 1 /\ faults' <= MaxFaults,
           ~bad => /\ job.pos = 1 => y.rev = job.rev
                   /\ job.pos = job.last => y.end = job.last /\ y.img = job.new,
           job.pos # job.last => y.end = blk[job.tgt].end
    PROVE  IInv'
<1> USE PairAssumption
<1>0. /\ Running /\ pc # "sync" /\ ProgramInv /\ RoleInv /\ TypeOK
      /\ ref' = ref /\ result' = result
      /\ pc' = IF job.pos = job.last THEN "verify" ELSE "program"
  BY DEF Running, IInv, JobInv, NextWindow
<1>1. job.pos \in 1 .. Windows /\ job.pos + 1 \in 1 .. Windows + 1 /\ job.pos <= job.last
      /\ job.last \in 1 .. Windows
  BY <1>0, RunningFacts DEF ProgramInv
<1>2. job' = [job EXCEPT !.pos = job.pos + 1, !.bad = bad]
  BY DEF NextWindow
<1>3. /\ job' \in Job /\ job'.pos = job.pos + 1 /\ job'.bad = bad
      /\ job'.new = job.new /\ job'.act = job.act /\ job'.alt = job.alt
      /\ job'.rev = job.rev /\ job'.role = job.role /\ job'.tgt = job.tgt
      /\ job'.last = job.last /\ job'.fresh = job.fresh /\ job'.victim = job.victim
  BY <1>0, <1>1, <1>2, RunningFacts, Zenon DEF Job
<1>4. /\ blk' \in [Blocks -> BlockImage]
      /\ \A x \in Blocks : /\ blk'[x].end <= blk'[x].top
                           /\ blk'[x].end = 0 <=> blk'[x].img = None
      /\ blk'[job.tgt] = y
      /\ blk'[job.act].rev = blk[job.act].rev /\ HasCommits(blk'[job.act])
      /\ job.role = "append" => IsOld(blk', job, IF job.bad THEN faults ELSE faults + 1)
      /\ job.role = "alt" => IsOld(blk', job, faults + 1) \/ IsDone(blk', job, job.alt)
      /\ job.role = "fresh" => IsDone(blk', job, job.alt)
      /\ job.role = "reloc" => IsEvictable(blk', faults, job, job.victim)
      /\ \E x, z \in Blocks : Halves(ref, x, z) /\ Beats(blk'[x], blk'[z], faults + 1)
  BY AfterWrite
<1>5. /\ faults \in Nat /\ faults' \in Nat /\ faults' \in 0 .. MaxFaults /\ faults <= faults'
      /\ faults + 1 \in Nat /\ faults' + 1 \in Nat /\ faults + 1 <= faults' + 1
      /\ (IF job.bad THEN faults ELSE faults + 1) \in Nat
      /\ (IF bad THEN faults' ELSE faults' + 1) \in Nat
      /\ (IF job.bad THEN faults ELSE faults + 1) <= (IF bad THEN faults' ELSE faults' + 1)
  BY <1>0, RunningFacts DEF TypeOK
<1>6. blk'[job.act] \in BlockImage /\ blk'[job.alt] \in BlockImage
  BY <1>0, <1>4, RunningFacts
<1>7. TypeOK'
  BY <1>0, <1>3, <1>4, <1>5 DEF TypeOK, Running, Phases
<1>8. PairInv'
  <2>1. PICK x \in Blocks, z \in Blocks : Halves(ref, x, z) /\ Beats(blk'[x], blk'[z], faults + 1)
    BY <1>4
  <2>2. Beats(blk'[x], blk'[z], faults' + 1)
    BY <1>4, <1>5, <2>1, BeatsMono
  <2> QED BY <1>0, <2>1, <2>2 DEF PairInv
<1>9. RoleInv'
  <2>1. job.role = "append" => IsOld(blk', job, IF bad THEN faults' ELSE faults' + 1)
    BY <1>4, <1>5, <1>6, BeatsMono DEF IsOld
  <2>2. job.role = "alt" => IsOld(blk', job, faults' + 1) \/ IsDone(blk', job, job.alt)
    BY <1>4, <1>5, <1>6, BeatsMono DEF IsOld
  <2>3. job.role = "reloc" => IsEvictable(blk', faults', job, job.victim)
    BY <1>4, <1>5, <1>6, EvictableMono
  <2>4. /\ (IsOld(blk', job, IF bad THEN faults' ELSE faults' + 1) =>
               Untouched(IF job.bad THEN faults ELSE faults + 1)')
        /\ (IsOld(blk', job, faults' + 1) => Untouched(faults + 1)')
        /\ (IsDone(blk', job, job.alt) => DoneOn(job.alt)')
        /\ (IsEvictable(blk', faults', job, job.victim) => Evicting')
    BY <1>3 DEF Untouched, DoneOn, Evicting, IsEvictable, IsOld, IsDone
  <2>5. pc' \in {"program", "verify"} /\ ref' = ref
    BY <1>0
  <2>6. /\ job.role = "append" => job.tgt = job.act
        /\ job.role = "alt" => job.tgt = job.alt
        /\ job.role = "fresh" => job.tgt \notin {ref.a, ref.b} /\ job.victim = job.alt
        /\ job.role = "reloc" => job.tgt \notin {ref.a, ref.b}
    BY <1>0 DEF RoleInv
  <2> QED BY <1>3, <1>4, <2>1, <2>2, <2>3, <2>4, <2>5, <2>6 DEF RoleInv
<1>10. CASE job.pos # job.last
  <2>1. pc' = "program" /\ job.pos < job.last
    BY <1>0, <1>1, <1>10
  <2>2. ProgramInv'
    <3>1. blk'[job'.tgt].top = job'.pos - 1 /\ job'.pos <= job'.last
      BY <1>1, <1>3, <1>4, <2>1
    <3>2. job.role # "append" => blk'[job.tgt].end = 0
      BY <1>0, <1>4, <1>10 DEF ProgramInv
    <3>3. job.role # "append" /\ ~bad => blk'[job.tgt].rev = job.rev
      BY <1>0, <1>1, <1>4 DEF ProgramInv, Wrote
    <3> QED BY <1>3, <3>1, <3>2, <3>3 DEF ProgramInv
  <2>3. JobInv'
    BY <1>0, <1>3, <1>4, <1>9, <2>1, <2>2, RunningFacts DEF IInv, JobInv
  <2> QED BY <1>7, <1>8, <2>3 DEF IInv
<1>11. CASE job.pos = job.last
  <2>1. pc' = "verify"
    BY <1>0, <1>11
  <2>2. VerifyInv'
    <3>1. ~bad => blk'[job.tgt].end = job.last /\ blk'[job.tgt].img = job.new
      BY <1>4, <1>11
    <3>2. ~bad /\ job.role # "append" => blk'[job.tgt].rev = job.rev
      BY <1>0, <1>1, <1>4 DEF ProgramInv, Wrote
    <3>3. ~bad => HasCommits(blk'[job.tgt])
      BY <1>1, <3>1 DEF HasCommits
    <3> QED BY <1>3, <3>1, <3>2, <3>3 DEF VerifyInv
  <2>3. JobInv'
    BY <1>0, <1>3, <1>4, <1>9, <2>1, <2>2, RunningFacts DEF IInv, JobInv
  <2> QED BY <1>7, <1>8, <2>3 DEF IInv
<1> QED BY <1>10, <1>11

LEMMA ProgramOkStep == IInv /\ ProgramOk => IInv'
<1> SUFFICES ASSUME IInv, ProgramOk PROVE IInv'
  OBVIOUS
<1> DEFINE clean == job.pos > blk[job.tgt].top
           y == Landed(blk[job.tgt], clean)
<1>0. /\ pc = "program" /\ faults' = faults /\ NextWindow(job.bad \/ ~clean)
      /\ blk' = [blk EXCEPT ![job.tgt] = y]
  BY DEF ProgramOk
<1>1. Running /\ pc # "sync" /\ ProgramInv
  BY <1>0 DEF IInv, JobInv, Running
<1>2. clean = TRUE
  BY <1>1, RunningFacts DEF ProgramInv
<1>3. NextWindow(job.bad)
  <2>1. (job.bad \/ ~clean) = job.bad
    BY <1>1, <1>2, RunningFacts
  <2> QED BY <1>0, <2>1
<1>4. job.bad \in BOOLEAN
  BY <1>1, RunningFacts
<1>5. /\ Wrote(y) /\ y.top = job.pos
      /\ job.pos = 1 => y.rev = job.rev
      /\ ~job.bad /\ job.pos = job.last => y.end = job.last /\ y.img = job.new
      /\ job.pos # job.last => y.end = blk[job.tgt].end
  BY <1>0, <1>2, LandedFacts
<1> HIDE DEF y
<1> QED BY <1>0, <1>3, <1>4, <1>5, NextWindowFacts

LEMMA ProgramCorruptStep == IInv /\ ProgramCorrupt => IInv'
<1> SUFFICES ASSUME IInv, ProgramCorrupt PROVE IInv'
  OBVIOUS
<1>0. /\ pc = "program" /\ faults' = faults + 1 /\ faults < MaxFaults /\ NextWindow(TRUE)
  BY DEF ProgramCorrupt, Fault
<1>1. PICK y \in Damaged(blk[job.tgt]) : blk' = [blk EXCEPT ![job.tgt] = y]
  BY DEF ProgramCorrupt
<1>2. Wrote(y) /\ y.top = job.pos /\ y.end = blk[job.tgt].end
  BY <1>0, DamagedFacts
<1>3. faults' <= MaxFaults
  BY <1>0, HalfFacts DEF IInv, TypeOK
<1> QED BY <1>0, <1>1, <1>2, <1>3, NextWindowFacts

LEMMA ProgramErrStep == IInv /\ ProgramErr => IInv'
<1> SUFFICES ASSUME IInv, ProgramErr PROVE IInv'
  OBVIOUS
<1>0. /\ pc = "program" /\ faults' = faults + 1 /\ faults < MaxFaults /\ WriteFailed
      /\ ref' = ref /\ Running /\ pc # "sync" /\ RoleInv /\ TypeOK
  BY DEF ProgramErr, Fault, IInv, JobInv, Running
<1>1. PICK y \in Damaged(blk[job.tgt]) \cup {blk[job.tgt]}
                \cup {Landed(blk[job.tgt], job.pos > blk[job.tgt].top)} :
          blk' = [blk EXCEPT ![job.tgt] = y]
  BY DEF ProgramErr
<1>2. Wrote(y)
  <2>1. CASE y = blk[job.tgt]
    <3>1. Sound(y)
      BY <1>0, <2>1, RunningFacts DEF TypeOK, Sound
    <3> QED BY <2>1, <3>1 DEF Wrote
  <2>2. CASE y = Landed(blk[job.tgt], job.pos > blk[job.tgt].top)
    <3>1. (job.pos > blk[job.tgt].top) = TRUE
      BY <1>0, RunningFacts DEF IInv, JobInv, ProgramInv
    <3> QED BY <1>0, <2>2, <3>1, LandedFacts
  <2> QED BY <1>0, <1>1, <2>1, <2>2, DamagedFacts
<1>3. /\ blk' \in [Blocks -> BlockImage]
      /\ \A x \in Blocks : /\ blk'[x].end <= blk'[x].top
                           /\ blk'[x].end = 0 <=> blk'[x].img = None
      /\ blk'[job.act].rev = blk[job.act].rev /\ HasCommits(blk'[job.act])
      /\ job.role = "append" => IsOld(blk', job, IF job.bad THEN faults ELSE faults + 1)
      /\ job.role = "alt" => IsOld(blk', job, faults + 1) \/ IsDone(blk', job, job.alt)
      /\ job.role = "fresh" => IsDone(blk', job, job.alt)
      /\ job.role = "reloc" => IsEvictable(blk', faults, job, job.victim)
  BY <1>0, <1>1, <1>2, AfterWrite
<1>4. /\ faults \in Nat /\ faults' \in Nat /\ faults' \in 0 .. MaxFaults /\ faults <= faults'
      /\ faults + 1 \in Nat /\ faults' + 1 \in Nat /\ faults + 1 <= faults' + 1
      /\ (IF job.bad THEN faults ELSE faults + 1) \in Nat
      /\ (IF job.bad THEN faults ELSE faults + 1) <= faults'
  BY <1>0, RunningFacts, HalfFacts DEF TypeOK
<1>5. blk'[job.act] \in BlockImage /\ blk'[job.alt] \in BlockImage
  BY <1>0, <1>3, RunningFacts
<1>6. job.role = "append" => job.tgt = job.act /\ IsEvictable(blk', faults', job, job.act)
  BY <1>0, <1>3, <1>4, <1>5, BeatsMono DEF RoleInv, IsEvictable, IsOld
<1>7. job.role = "alt" => job.tgt = job.alt /\ IsEvictable(blk', faults', job, job.alt)
  BY <1>0, <1>3, <1>4, <1>5, BeatsMono DEF RoleInv, IsEvictable, IsOld
<1>8. job.role = "reloc" => IsEvictable(blk', faults', job, job.victim)
  BY <1>3, <1>4, <1>5, EvictableMono
<1> QED BY <1>0, <1>3, <1>4, <1>6, <1>7, <1>8, WriteFailedFacts

----------------------------------------------------------------------------
(* Reading back, and the end of the commit.                                *)

LEMMA VerifyErrStep == IInv /\ VerifyErr => IInv'
<1> SUFFICES ASSUME IInv, VerifyErr PROVE IInv'
  OBVIOUS
<1>0. /\ pc = "verify" /\ WriteFailed /\ ref' = ref /\ blk' = blk
      /\ Running /\ pc # "sync" /\ RoleInv /\ TypeOK
  BY DEF VerifyErr, IInv, JobInv, Running
<1>1. /\ faults \in Nat /\ faults' \in Nat /\ faults' \in 0 .. MaxFaults /\ faults <= faults'
      /\ faults + 1 \in Nat /\ faults' + 1 \in Nat /\ faults + 1 <= faults' + 1
      /\ (IF job.bad THEN faults ELSE faults + 1) \in Nat
      /\ (IF job.bad THEN faults ELSE faults + 1) <= faults'
  <2>1. faults \in 0 .. MaxFaults /\ MaxFaults \in Nat
    BY <1>0, HalfFacts DEF TypeOK
  <2>2. CASE job.bad /\ faults' = faults
    BY <2>1, <2>2
  <2>3. CASE faults' = faults + 1 /\ faults < MaxFaults
    BY <2>1, <2>3
  <2> QED BY <2>2, <2>3 DEF VerifyErr, Fault
<1>2. blk[job.act] \in BlockImage /\ blk[job.alt] \in BlockImage
  BY <1>0, RunningFacts
<1>3. job.role = "append" => job.tgt = job.act /\ IsEvictable(blk', faults', job, job.act)
  BY <1>0, <1>1, <1>2, BeatsMono DEF RoleInv, Untouched, IsEvictable, IsOld
<1>4. job.role = "alt" => job.tgt = job.alt /\ IsEvictable(blk', faults', job, job.alt)
  BY <1>0, <1>1, <1>2, BeatsMono DEF RoleInv, Untouched, DoneOn, IsEvictable, IsOld
<1>5. job.role = "fresh" => IsDone(blk', job, job.alt)
  BY <1>0 DEF RoleInv, DoneOn
<1>6. job.role = "reloc" => IsEvictable(blk', faults', job, job.victim)
  <2>1. job.role = "reloc" => IsEvictable(blk, faults, job, job.victim)
    BY <1>0 DEF RoleInv, Evicting
  <2> QED BY <1>0, <1>1, <1>2, <2>1, EvictableMono
<1>7. /\ blk' \in [Blocks -> BlockImage]
      /\ \A x \in Blocks : /\ blk'[x].end <= blk'[x].top
                           /\ blk'[x].end = 0 <=> blk'[x].img = None
      /\ blk'[job.act].rev = blk[job.act].rev /\ HasCommits(blk'[job.act])
  BY <1>0, RunningFacts DEF TypeOK
<1> QED BY <1>0, <1>1, <1>3, <1>4, <1>5, <1>6, <1>7, WriteFailedFacts

LEMMA VerifyOkStep == IInv /\ VerifyOk => IInv'
<1> SUFFICES ASSUME IInv, VerifyOk PROVE IInv'
  OBVIOUS
<1> DEFINE Again == [job EXCEPT !.role = "fresh", !.tgt = job.fresh, !.victim = job.alt,
                                !.pos = 1]
<1>a. \/ /\ job.role = "append" \/ (job.role = "alt" /\ job.fresh = None)
         /\ pc' = "sync" /\ UNCHANGED job
      \/ /\ job.role = "alt" /\ job.fresh # None
         /\ job' = Again /\ pc' = "erase"
      \/ job.role \in {"fresh", "reloc"} /\ pc' = "repoint" /\ UNCHANGED job
  BY Zenon DEF VerifyOk
<1> USE PairAssumption
<1>0. /\ pc = "verify" /\ ~job.bad /\ UNCHANGED <<blk, ref, result, faults>>
      /\ Running /\ pc # "sync" /\ RoleInv /\ VerifyInv /\ TypeOK
  BY DEF VerifyOk, IInv, JobInv, Running
<1>1. PairInv'
  BY <1>0 DEF IInv, PairInv
<1>2. HasCommits(blk[job.tgt]) /\ blk[job.tgt].img = job.new
      /\ (job.role # "append" => blk[job.tgt].rev = job.rev)
  BY <1>0 DEF VerifyInv
<1>3. CASE /\ job.role = "append" \/ (job.role = "alt" /\ job.fresh = None)
           /\ pc' = "sync" /\ UNCHANGED job
  <2>1. Active(blk, ref) = job.tgt
    <3>1. CASE job.role = "append"
      <4>1. job.tgt = job.act /\ Beats(blk[job.act], blk[job.alt], faults + 1)
        BY <1>0, <3>1 DEF RoleInv, Untouched, IsOld
      <4> QED BY <1>0, <4>1, RunningFacts, ActiveIs, HalfFacts
    <3>2. CASE job.role = "alt"
      <4>1. job.tgt = job.alt
        BY <1>0, <3>2 DEF RoleInv
      <4>2. Beats(blk[job.alt], blk[job.act], 1)
        BY <1>0, <1>2, <3>2, <4>1, NewBeatsOld, RunningFacts
      <4>3. Halves(ref, job.alt, job.act)
        BY <1>0, RunningFacts DEF Halves
      <4> QED BY <1>0, <4>1, <4>2, <4>3, RunningFacts, ActiveIs, HalfFacts
    <3> QED BY <1>3, <3>1, <3>2
  <2>2. Visible' = job'.new
    BY <1>0, <1>2, <1>3, <2>1 DEF Visible
  <2>3. TypeOK'
    BY <1>0, <1>3 DEF TypeOK, Running, Phases
  <2>4. JobInv'
    BY <1>3, <2>2 DEF JobInv
  <2> QED BY <1>1, <2>3, <2>4 DEF IInv
<1>4. CASE /\ job.role = "alt" /\ job.fresh # None
           /\ job' = Again /\ pc' = "erase"
  <2>1. job.fresh \in Blocks /\ job.fresh \notin {ref.a, ref.b}
    BY <1>0, <1>4, RunningFacts DEF IInv, JobInv, Job
  <2>2. 1 \in 1 .. Windows + 1 /\ "fresh" \in Roles
    BY DEF Roles
  <2>3. /\ job' \in Job /\ job'.role = "fresh" /\ job'.tgt = job.fresh
        /\ job'.fresh = job.fresh /\ job'.victim = job.alt /\ job'.pos = 1
        /\ job'.bad = job.bad /\ job'.act = job.act /\ job'.alt = job.alt
        /\ job'.rev = job.rev /\ job'.new = job.new
    BY <1>0, <1>4, <2>1, <2>2, RunningFacts, Zenon DEF Job
  <2>4. TypeOK'
    BY <1>0, <1>4, <2>3 DEF TypeOK, Running, Phases
  <2>5. IsDone(blk, job, job.alt)
    BY <1>0, <1>2, <1>4 DEF IsDone, RoleInv
  <2>6. RoleInv'
    BY <1>0, <2>1, <2>3, <2>5 DEF RoleInv, DoneOn, IsDone
  <2>7. JobInv'
    BY <1>0, <1>4, <2>1, <2>3, <2>6, RunningFacts DEF JobInv
  <2> QED BY <1>1, <2>4, <2>7 DEF IInv
<1>5. CASE job.role \in {"fresh", "reloc"} /\ pc' = "repoint" /\ UNCHANGED job
  <2>1. DoneOn(job.tgt)
    BY <1>2, <1>5 DEF DoneOn, IsDone
  <2>2. TypeOK'
    BY <1>0, <1>5 DEF TypeOK, Running, Phases
  <2>3. RoleInv'
    BY <1>0, <1>5 DEF RoleInv, DoneOn, Evicting
  <2>4. DoneOn(job.tgt)'
    BY <1>0, <1>5, <2>1 DEF DoneOn
  <2>5. JobInv'
    BY <1>0, <1>5, <2>3, <2>4, RunningFacts DEF IInv, JobInv
  <2> QED BY <1>1, <2>2, <2>5 DEF IInv
<1> HIDE DEF Again
<1> QED BY <1>a, <1>3, <1>4, <1>5

LEMMA RepointStep == IInv /\ Repoint => IInv'
<1> SUFFICES ASSUME IInv, Repoint PROVE IInv'
  OBVIOUS
<1>0. /\ pc = "repoint" /\ faults' = faults /\ blk' = blk
      /\ Running /\ pc # "sync" /\ RoleInv /\ TypeOK /\ DoneOn(job.tgt)
      /\ job.role \in {"fresh", "reloc"}
  BY DEF Repoint, ReturnErr, IInv, JobInv, Running
<1>1. CASE ReturnErr
  <2>1. TypeOK'
    BY <1>0, <1>1 DEF TypeOK, ReturnErr, Return, Running, Phases
  <2>2. JobInv'
    BY <1>1 DEF JobInv, ReturnErr, Return, Running
  <2>3. PairInv'
    BY <1>0, <1>1 DEF IInv, PairInv, ReturnErr
  <2> QED BY <2>1, <2>2, <2>3 DEF IInv
<1>2. CASE /\ ref' = Replace(ref, job.victim, job.tgt)
           /\ pc' = "sync" /\ UNCHANGED <<blk, job, result>>
  <2>1. job.tgt # job.act /\ job.tgt # job.alt /\ job.tgt \in Blocks
    BY <1>0, RunningFacts DEF RoleInv
  <2>2. \/ job.victim = job.act /\ Untouched(faults)
        \/ job.victim = job.alt
    BY <1>0 DEF RoleInv, Evicting, IsEvictable, Untouched
  <2> DEFINE kept == IF job.victim = job.act THEN job.alt ELSE job.act
  <2>3. kept \in Blocks /\ kept # job.tgt
    BY <1>0, <2>1, RunningFacts
  <2>4. ref' \in Pair /\ Halves(ref', job.tgt, kept) /\ ref'.a # ref'.b
    BY <1>0, <1>2, <2>1, <2>2, RunningFacts DEF Halves, Replace, Pair
  <2>5. Beats(blk[job.tgt], blk[kept], faults + 1)
    <3>1. CASE kept = job.act
      <4>1. blk[job.tgt] \in BlockImage /\ blk[job.act] \in BlockImage
            /\ HasCommits(blk[job.tgt]) /\ blk[job.tgt].rev = Succ(blk[job.act].rev)
            /\ faults + 1 \in Nat /\ faults + 1 >= 1
        BY <1>0, <2>1, RunningFacts DEF DoneOn, IsDone
      <4>2. Beats(blk[job.tgt], blk[job.act], faults + 1)
        BY <4>1, NewBeatsOld
      <4> QED BY <3>1, <4>2
    <3>2. CASE job.victim = job.act /\ kept = job.alt
      <4>1. IsOld(blk, job, faults)
        BY <1>0, <2>2, <3>2, RunningFacts DEF Untouched
      <4>2. /\ HasCommits(blk[job.tgt]) /\ blk[job.tgt].rev = Succ(blk[job.act].rev)
            /\ blk[job.act].rev \in Rev /\ blk[job.alt].rev \in Rev
        BY <1>0, RunningFacts DEF DoneOn, IsDone, BlockImage
      <4>3. ASSUME HasCommits(blk[job.alt])
            PROVE  /\ Dist(blk[job.tgt].rev, blk[job.alt].rev) >= 1
                   /\ Dist(blk[job.tgt].rev, blk[job.alt].rev) <= faults + 1
        <5>1. /\ Dist(blk[job.act].rev, blk[job.alt].rev) >= 1
              /\ Dist(blk[job.act].rev, blk[job.alt].rev) <= faults
          BY <4>1, <4>3 DEF IsOld, Beats
        <5>2. Dist(blk[job.act].rev, blk[job.alt].rev) \in Int
          BY <4>2, HalfFacts DEF Dist, Rev
        <5>3. Dist(blk[job.act].rev, blk[job.alt].rev) < Half
          BY <1>0, <5>1, <5>2, RunningFacts, HalfFacts
        <5>4. Dist(blk[job.tgt].rev, blk[job.alt].rev)
                = Dist(blk[job.act].rev, blk[job.alt].rev) + 1
          BY <4>2, <5>3, SuccWidens
        <5> QED BY <1>0, <5>1, <5>2, <5>4, RunningFacts
      <4>4. Beats(blk[job.tgt], blk[job.alt], faults + 1)
        BY <4>2, <4>3 DEF Beats
      <4> QED BY <3>2, <4>4
    <3> QED BY <3>1, <3>2
  <2>6. PairInv'
    BY <1>0, <1>2, <2>1, <2>3, <2>4, <2>5 DEF PairInv
  <2>7. TypeOK'
    BY <1>0, <1>2, <2>4 DEF TypeOK, Running, Phases
  <2>8. Active(blk, ref') = job.tgt
    BY <1>0, <2>1, <2>3, <2>4, <2>5, RunningFacts, ActiveIs, HalfFacts
  <2>9. Visible' = job'.new
    BY <1>0, <1>2, <2>8 DEF Visible, DoneOn, IsDone
  <2>10. JobInv'
    BY <1>2, <2>9 DEF JobInv
  <2> QED BY <2>6, <2>7, <2>10 DEF IInv
<1> QED BY <1>1, <1>2 DEF Repoint

LEMMA PowerLossStep == IInv /\ PowerLoss => IInv'
<1> SUFFICES ASSUME IInv, PowerLoss PROVE IInv'
  OBVIOUS
<1>0. pc' = "off" /\ result' = "none" /\ job' = None /\ UNCHANGED <<ref, faults>> /\ TypeOK
  BY DEF PowerLoss, IInv
<1>1. JobInv'
  BY <1>0 DEF JobInv, Running
<1>2. ASSUME /\ blk' \in [Blocks -> BlockImage]
             /\ \A x \in Blocks : /\ blk'[x].end <= blk'[x].top
                                  /\ blk'[x].end = 0 <=> blk'[x].img = None
      PROVE  TypeOK'
  BY <1>0, <1>2 DEF TypeOK, Running, Phases
<1>3. CASE blk' = blk
  BY <1>0, <1>1, <1>2, <1>3 DEF IInv, TypeOK, PairInv
<1>4. ASSUME pc = "program", NEW y \in Damaged(blk[job.tgt]), blk' = [blk EXCEPT ![job.tgt] = y]
      PROVE  IInv'
  <2>1. Wrote(y)
    BY <1>4, DamagedFacts
  <2>2. PairInv' /\ TypeOK'
    BY <1>0, <1>2, <1>4, <2>1, AfterWrite DEF PairInv
  <2> QED BY <1>1, <2>2 DEF IInv
<1>5. ASSUME pc = "erase", NEW y \in TornErase(blk[job.tgt]), blk' = [blk EXCEPT ![job.tgt] = y]
      PROVE  IInv'
  <2>1. Running /\ pc # "sync" /\ RoleInv /\ job.role # "append"
        /\ (job.role = "alt" => Untouched(faults + 1))
    BY <1>5 DEF Running, IInv, JobInv
  <2>2. Sound(blk[job.tgt])
    BY <1>0, <2>1, RunningFacts DEF TypeOK, Sound
  <2>3. Sound(y) /\ (HasCommits(y) => HasCommits(blk[job.tgt]) /\ y.rev = blk[job.tgt].rev)
    BY <1>5, <2>2, TornEraseFacts
  <2>4. /\ blk' \in [Blocks -> BlockImage]
        /\ \A x \in Blocks : /\ blk'[x].end <= blk'[x].top
                             /\ blk'[x].end = 0 <=> blk'[x].img = None
        /\ blk'[job.tgt] = y /\ \A x \in Blocks : x # job.tgt => blk'[x] = blk[x]
    BY <1>0, <1>5, <2>1, <2>3, RunningFacts, SoundUpdate
  <2>5. blk'[job.act] = blk[job.act]
    BY <1>5, <2>1, <2>4, TargetFacts, RunningFacts DEF Roles
  <2>6. \E v : IsEvictable(blk', faults, job, v)
    <3>1. CASE job.role = "alt"
      <4>1. Beats(blk'[job.act], blk'[job.alt], faults + 1)
        BY <1>5, <2>1, <2>3, <2>4, <2>5, <3>1, TargetFacts DEF Untouched, IsOld, Beats
      <4> QED BY <4>1 DEF IsEvictable, IsOld
    <3>2. CASE job.role \in {"fresh", "reloc"}
      <4>1. blk'[job.alt] = blk[job.alt]
        BY <1>5, <2>1, <2>4, <3>2, TargetFacts, RunningFacts
      <4>2. IsEvictable(blk, faults, job, job.victim)
        BY <2>1, <3>2 DEF RoleInv, Evicting, DoneOn, IsEvictable
      <4> QED BY <2>5, <4>1, <4>2 DEF IsEvictable, IsOld, IsDone
    <3> QED BY <2>1, <3>1, <3>2, RunningFacts DEF Roles
  <2>7. PairInv'
    BY <1>0, <2>1, <2>4, <2>5, <2>6, RunningFacts, EvictablePair DEF PairInv
  <2> QED BY <1>1, <1>2, <2>4, <2>7 DEF IInv
<1> QED BY <1>3, <1>4, <1>5 DEF PowerLoss

----------------------------------------------------------------------------
(* The invariants.                                                         *)

LEMMA NextIInv == IInv /\ [Next]_vars => IInv'
<1> SUFFICES ASSUME IInv, [Next]_vars PROVE IInv'
  OBVIOUS
<1>1. CASE UNCHANGED vars
  BY <1>1 DEF vars, IInv, TypeOK, PairInv, JobInv, RoleInv, ProgramInv, VerifyInv,
              Running, DoneOn, Untouched, Evicting, Visible
<1>2. CASE Step
  BY <1>2, CompactStep, EraseOkStep, EraseErrStep, ProgramOkStep, ProgramCorruptStep,
     ProgramErrStep, VerifyOkStep, VerifyErrStep, RelocateStep, RepointStep, CancelStep,
     SyncStep DEF Step
<1> QED BY <1>1, <1>2, BeginCommitStep, PowerLossStep, MountStep, ReuseFreeStep DEF Next

LEMMA SpecIInv == Spec => []IInv
  BY InitIInv, NextIInv, PTL DEF Spec

\* Every variable of the pair keeps its type in every behaviour.
THEOREM TypeCorrect == Spec => []TypeOK
<1>1. IInv => TypeOK
  BY DEF IInv
<1> QED BY <1>1, SpecIInv, PTL

\* A mount always finds a verified commit on one of the two blocks the
\* parent names: MetadataPair::parse never returns Corrupt, whatever power
\* cuts, worn blocks and stale images came before.
THEOREM Mountable == Spec => []AlwaysMountable
<1>1. IInv => AlwaysMountable
  BY PairFacts, PairAssumption DEF IInv, AlwaysMountable
<1> QED BY <1>1, SpecIInv, PTL

\* can_append and the erase before every compaction keep the caller's side
\* of the Storage::program contract: only erased cells are programmed.
THEOREM ErasedCells == Spec => []ProgramsErasedCells
<1>1. IInv => ProgramsErasedCells
  <2> SUFFICES ASSUME IInv, pc = "program" PROVE job.pos > blk[job.tgt].top
    BY DEF ProgramsErasedCells
  <2>1. Running /\ pc # "sync" /\ ProgramInv
    BY DEF IInv, JobInv, Running
  <2> QED BY <2>1, RunningFacts DEF ProgramInv
<1> QED BY <1>1, SpecIInv, PTL

\* The half a mount does not pick is empty or older by 1 up to faults + 1
\* revisions, so rev_scmp is never asked about revisions half the range apart.
THEOREM StaleIsOlder == Spec => []StaleHalfIsOlder
<1>1. IInv => StaleHalfIsOlder
  BY PairFacts DEF IInv, StaleHalfIsOlder, Beats
<1> QED BY <1>1, SpecIInv, PTL

----------------------------------------------------------------------------
(* The pair implements the atomic register.                                *)

\* Which half is active depends on the images of the two halves only.
LEMMA SameHalves ==
    ASSUME TypeOK, PairInv, NEW bl, bl[ref.a] = blk[ref.a], bl[ref.b] = blk[ref.b]
    PROVE  bl[Active(bl, ref)].img = Visible
<1>1. Active(blk, ref) = ref.a \/ Active(blk, ref) = ref.b
  BY PairFacts DEF Halves
<1>2. Active(bl, ref) = Active(blk, ref)
  BY DEF Active
<1> QED BY <1>1, <1>2 DEF Visible

\* The same by the names the running commit has for the halves.
LEMMA ActiveHalf ==
    ASSUME IInv, Running, pc # "sync", NEW bl, NEW g \in Nat, g < Half,
           bl[job.act] \in BlockImage, bl[job.alt] \in BlockImage
    PROVE  /\ Beats(bl[job.act], bl[job.alt], g) => Active(bl, ref) = job.act
           /\ Beats(bl[job.alt], bl[job.act], g) => Active(bl, ref) = job.alt
<1>1. /\ ref \in Pair /\ job.act \in Blocks /\ job.alt \in Blocks /\ job.act # job.alt
      /\ Halves(ref, job.act, job.alt) /\ Halves(ref, job.alt, job.act)
  BY RunningFacts DEF Halves
<1>2. Beats(bl[job.act], bl[job.alt], g) => Active(bl, ref) = job.act
  BY <1>1, ActiveIs
<1>3. Beats(bl[job.alt], bl[job.act], g) => Active(bl, ref) = job.alt
  BY <1>1, ActiveIs
<1> QED BY <1>2, <1>3

\* Erasing a block, completely or not, does not change what a mount reads.
LEMMA EraseKeepsVisible ==
    ASSUME IInv, pc = "erase", NEW y, Sound(y), ref' = ref,
           HasCommits(y) => HasCommits(blk[job.tgt]) /\ y.rev = blk[job.tgt].rev,
           blk' = [blk EXCEPT ![job.tgt] = y]
    PROVE  Visible' = Visible
<1>0. /\ Running /\ pc # "sync" /\ RoleInv /\ job.role # "append" /\ TypeOK /\ PairInv
      /\ job.role = "alt" => Untouched(faults + 1)
  BY DEF Running, IInv, JobInv
<1>1. /\ blk' \in [Blocks -> BlockImage] /\ blk'[job.tgt] = y
      /\ \A x \in Blocks : x # job.tgt => blk'[x] = blk[x]
  BY <1>0, RunningFacts, SoundUpdate
<1>2. blk'[job.act] = blk[job.act]
  BY <1>0, <1>1, TargetFacts, RunningFacts DEF Roles
<1>3. CASE job.role = "alt"
  <2>1. Beats(blk[job.act], blk[job.alt], faults + 1)
    BY <1>0, <1>3 DEF Untouched, IsOld
  <2>2. Beats(blk'[job.act], blk'[job.alt], faults + 1)
    BY <1>0, <1>1, <1>2, <1>3, <2>1, TargetFacts DEF Beats
  <2>3. /\ blk'[job.act] \in BlockImage /\ blk'[job.alt] \in BlockImage
        /\ blk[job.act] \in BlockImage /\ blk[job.alt] \in BlockImage
        /\ faults + 1 \in Nat /\ faults + 1 < Half
    BY <1>0, <1>1, RunningFacts, HalfFacts
  <2>4. Active(blk, ref) = job.act /\ Active(blk', ref) = job.act
    BY <1>0, <2>1, <2>2, <2>3, ActiveHalf
  <2> QED BY <1>2, <2>4 DEF Visible
<1>4. CASE job.role \in {"fresh", "reloc"}
  <2>1. blk'[ref.a] = blk[ref.a] /\ blk'[ref.b] = blk[ref.b]
    BY <1>0, <1>1, <1>4, TargetFacts, RunningFacts DEF Halves
  <2> QED BY <1>0, <2>1, SameHalves DEF Visible
<1> QED BY <1>0, <1>3, <1>4, RunningFacts DEF Roles

\* Programming a window changes what a mount reads to the new content or
\* not at all.
LEMMA WriteVisible ==
    ASSUME IInv, pc = "program", NEW y, Wrote(y), ref' = ref,
           blk' = [blk EXCEPT ![job.tgt] = y]
    PROVE  /\ Visible' = Visible \/ Visible' = job.new
           /\ y.end = blk[job.tgt].end /\ y.img = blk[job.tgt].img => Visible' = Visible
<1>0. Running /\ pc # "sync" /\ RoleInv /\ ProgramInv /\ TypeOK /\ PairInv
  BY DEF Running, IInv, JobInv
<1>1. /\ blk' \in [Blocks -> BlockImage] /\ blk'[job.tgt] = y
      /\ blk'[job.act].rev = blk[job.act].rev /\ HasCommits(blk'[job.act])
      /\ job.role = "append" => IsOld(blk', job, IF job.bad THEN faults ELSE faults + 1)
      /\ job.role = "alt" => IsOld(blk', job, faults + 1) \/ IsDone(blk', job, job.alt)
  BY AfterWrite
<1>2. \A x \in Blocks : x # job.tgt => blk'[x] = blk[x]
  BY <1>0 DEF TypeOK
<1>3. /\ blk'[job.act] \in BlockImage /\ blk'[job.alt] \in BlockImage
      /\ blk[job.act] \in BlockImage /\ blk[job.alt] \in BlockImage
      /\ faults + 1 \in Nat /\ faults + 1 < Half /\ 1 < Half
  BY <1>0, <1>1, RunningFacts, HalfFacts
<1>4. CASE job.role = "append"
  <2>1. /\ job.tgt = job.act
        /\ Beats(blk[job.act], blk[job.alt], IF job.bad THEN faults ELSE faults + 1)
        /\ Beats(blk'[job.act], blk'[job.alt], IF job.bad THEN faults ELSE faults + 1)
        /\ (IF job.bad THEN faults ELSE faults + 1) \in Nat
        /\ (IF job.bad THEN faults ELSE faults + 1) < Half
    BY <1>0, <1>1, <1>4, RunningFacts, HalfFacts DEF RoleInv, Untouched, IsOld
  <2>2. Active(blk, ref) = job.act /\ Active(blk', ref) = job.act
    BY <1>0, <1>3, <2>1, ActiveHalf
  <2> QED BY <1>1, <2>1, <2>2 DEF Visible, Wrote
<1>5. CASE job.role = "alt"
  <2>1. job.tgt = job.alt /\ blk'[job.act] = blk[job.act]
    BY <1>0, <1>2, <1>5, TargetFacts, RunningFacts
  <2>2. Beats(blk[job.act], blk[job.alt], 1)
    BY <1>0, <1>5, <2>1, RunningFacts DEF ProgramInv, Beats, HasCommits
  <2>3. Active(blk, ref) = job.act
    BY <1>0, <1>3, <2>2, ActiveHalf
  <2>4. CASE IsOld(blk', job, faults + 1)
    <3>1. Active(blk', ref) = job.act
      BY <1>0, <1>3, <2>4, ActiveHalf DEF IsOld
    <3> QED BY <2>1, <2>3, <3>1 DEF Visible
  <2>5. CASE ~IsOld(blk', job, faults + 1)
    <3>1. IsDone(blk', job, job.alt) /\ y.end # 0
      BY <1>1, <1>5, <2>1, <2>5 DEF IsOld, Beats, HasCommits
    <3>2. blk[job.tgt].end = 0
      BY <1>0, <1>5 DEF ProgramInv
    <3>3. Beats(blk'[job.alt], blk'[job.act], 1)
      BY <1>0, <1>1, <1>3, <3>1, RunningFacts, NewBeatsOld DEF IsDone
    <3>4. Active(blk', ref) = job.alt
      BY <1>0, <1>3, <3>3, ActiveHalf
    <3> QED BY <1>1, <2>1, <3>1, <3>2, <3>4 DEF Visible, IsDone
  <2> QED BY <2>4, <2>5
<1>6. CASE job.role \in {"fresh", "reloc"}
  <2>1. blk'[ref.a] = blk[ref.a] /\ blk'[ref.b] = blk[ref.b]
    BY <1>0, <1>2, <1>6, TargetFacts, RunningFacts DEF Halves
  <2> QED BY <1>0, <2>1, SameHalves DEF Visible
<1> QED BY <1>0, <1>4, <1>5, <1>6, RunningFacts DEF Roles

\* The abstract variables, as the refinement mapping has them.
inflight == IF Running THEN job.new ELSE None

\* A step that leaves all three alone, and the ways to leave a commit.
LEMMA Stutters ==
    ASSUME Visible' = Visible, inflight' = inflight, result' = result
    PROVE  [Abstract!Next]_(Abstract!avars)
  BY DEF Abstract!avars, inflight

LEMMA Installs ==
    ASSUME IInv, Running, Running', job'.new = job.new, result' = result,
           Visible' = Visible \/ Visible' = job.new
    PROVE  [Abstract!Next]_(Abstract!avars)
<1>1. job.new \in Content /\ job.new # None
  BY PairAssumption DEF IInv, TypeOK, Job, Content
<1>2. inflight = job.new /\ inflight' = job.new
  BY DEF inflight
<1>3. CASE Visible' = Visible
  BY <1>2, <1>3, Stutters
<1>4. CASE Visible' = job.new
  BY <1>1, <1>2, <1>4 DEF Abstract!Next, Abstract!Install, inflight
<1> QED BY <1>3, <1>4

LEMMA Fails ==
    ASSUME IInv, Running, Return("err"), Visible' = Visible \/ Visible' = job.new
    PROVE  [Abstract!Next]_(Abstract!avars)
<1>1. job.new \in Content /\ job.new # None
  BY PairAssumption DEF IInv, TypeOK, Job, Content
<1>2. ~Running' /\ result' = "err"
  BY DEF Return, Running
<1> QED BY <1>1, <1>2 DEF Abstract!Next, Abstract!Fail

\* However a failed write goes on, it is a step of the register.
LEMMA WriteFailedSimulates ==
    ASSUME IInv, pc \in {"erase", "program", "verify"}, WriteFailed,
           Visible' = Visible \/ Visible' = job.new
    PROVE  [Abstract!Next]_(Abstract!avars)
<1>0. Running /\ pc # "sync" /\ job \in Job
  BY DEF Running, IInv, TypeOK
<1>1. CASE Return("err")
  BY <1>0, <1>1, Fails
<1>2. CASE ~Return("err")
  <2>1. Running' /\ result' = result
    BY <1>2 DEF WriteFailed, Running
  <2>2. \/ job' = [job EXCEPT !.role = "reloc", !.victim = job.tgt]
        \/ job' = job
        \/ job' = [job EXCEPT !.tries = @ + 1, !.worn = @ \cup {job.tgt}, !.fresh = None]
    BY <1>2, Zenon DEF WriteFailed
  <2>3. job'.new = job.new
    BY <1>0, <2>2, Zenon DEF Job
  <2> QED BY <1>0, <2>1, <2>3, Installs
<1> QED BY <1>1, <1>2

LEMMA InitSimulates == Init => Abstract!Init
<1> SUFFICES ASSUME Init PROVE Abstract!Init
  OBVIOUS
<1>1. IInv
  BY InitIInv
<1>2. Visible \in Content
  <2>1. PICK x \in Blocks : Active(blk, ref) = x /\ HasCommits(blk[x]) /\ blk[x] \in BlockImage
    BY <1>1, PairFacts DEF IInv, Beats
  <2> QED BY <1>1, <2>1 DEF IInv, TypeOK, Visible, HasCommits, BlockImage
<1>3. ~Running /\ result = "none"
  BY DEF Init, Running
<1> QED BY <1>2, <1>3 DEF Abstract!Init

LEMMA StepSimulates == IInv /\ IInv' /\ [Next]_vars => [Abstract!Next]_(Abstract!avars)
<1> SUFFICES ASSUME IInv, IInv', [Next]_vars PROVE [Abstract!Next]_(Abstract!avars)
  OBVIOUS
<1>0. TypeOK /\ PairInv
  BY DEF IInv
<1>1. CASE UNCHANGED vars
  <2>1. Visible' = Visible /\ inflight' = inflight /\ result' = result
    BY <1>1 DEF vars, Visible, inflight, Running
  <2> QED BY <2>1, Stutters
<1>2. CASE BeginCommit
  <2>1. PICK op \in Ops, n \in 1 .. Windows, ct \in BOOLEAN :
           StartCommit(Apply(Visible, op), n, ct)
    BY <1>2 DEF BeginCommit
  <2>2. UNCHANGED <<blk, ref, faults>> /\ result' = "none" /\ ~Running
    BY <1>2 DEF BeginCommit, Running
  <2>3. Visible \in Content
    <3>1. PICK x \in Blocks : Active(blk, ref) = x /\ HasCommits(blk[x]) /\ blk[x] \in BlockImage
      BY <1>0, PairFacts DEF Beats
    <3> QED BY <1>0, <3>1 DEF TypeOK, Visible, HasCommits, BlockImage
  <2>4. Apply(Visible, op) \in Content
    BY <2>3 DEF Apply, Ops, Content
  <2>5. job'.new = Apply(Visible, op) /\ pc' \in {"program", "compact"}
    BY <1>0, <2>1, <2>2, <2>4, StartCommitFacts
  <2>6. Running' /\ Visible' = Visible
    BY <2>2, <2>5 DEF Running, Visible
  <2>7. Abstract!Begin(Apply(Visible, op))
    BY <2>2, <2>5, <2>6 DEF Abstract!Begin
  <2> QED BY <2>4, <2>7 DEF Abstract!Next
<1>3. CASE Compact \/ Relocate
  <2>0. pc \in {"compact", "relocate"} /\ Running /\ UNCHANGED <<blk, ref>> /\ job \in Job
    BY <1>0, <1>3 DEF Compact, Relocate, ReturnErr, Running, TypeOK
  <2>1. Visible' = Visible
    BY <2>0 DEF Visible
  <2>2. CASE ReturnErr
    BY <2>0, <2>1, <2>2, Fails DEF ReturnErr
  <2>3. CASE ~ReturnErr
    <3>1. pc' = "erase" /\ result' = result /\ Running'
      BY <1>3, <2>3 DEF Compact, Relocate, Running
    <3>2. job'.new = job.new
      BY <1>3, <2>0, <2>3, Zenon DEF Compact, Relocate, Job
    <3> QED BY <2>0, <2>1, <3>1, <3>2, Installs
  <2> QED BY <2>2, <2>3
<1>4. CASE EraseOk
  <2>0. pc = "erase" /\ Running /\ Running' /\ UNCHANGED <<ref, job, result>>
        /\ blk' = [blk EXCEPT ![job.tgt] = Blank]
    BY <1>4 DEF EraseOk, Running
  <2>1. Sound(Blank) /\ ~HasCommits(Blank)
    BY HalfFacts, PairAssumption DEF Sound, Blank, BlockImage, Rev, HasCommits
  <2>2. Visible' = Visible
    BY <2>0, <2>1, EraseKeepsVisible
  <2> QED BY <2>0, <2>2, Installs
<1>5. CASE EraseErr
  <2>0. pc = "erase" /\ Running /\ pc # "sync" /\ ref' = ref /\ WriteFailed
    BY <1>5 DEF EraseErr, Running
  <2>1. PICK y \in TornErase(blk[job.tgt]) : blk' = [blk EXCEPT ![job.tgt] = y]
    BY <1>5 DEF EraseErr
  <2>2. Sound(blk[job.tgt])
    BY <1>0, <2>0, RunningFacts DEF TypeOK, Sound
  <2>3. Visible' = Visible
    BY <2>0, <2>1, <2>2, TornEraseFacts, EraseKeepsVisible
  <2> QED BY <2>0, <2>3, WriteFailedSimulates
<1>6. CASE ProgramOk \/ ProgramCorrupt
  <2>0. pc = "program" /\ Running /\ pc # "sync" /\ job \in Job
    BY <1>0, <1>6 DEF ProgramOk, ProgramCorrupt, Running, TypeOK
  <2>1. PICK b : NextWindow(b)
    BY <1>6 DEF ProgramOk, ProgramCorrupt
  <2>2. Running' /\ result' = result /\ ref' = ref
    BY <2>1 DEF NextWindow, Running
  <2>3. job'.new = job.new
    BY <2>0, <2>1, Zenon DEF NextWindow, Job
  <2>4. PICK y : Wrote(y) /\ blk' = [blk EXCEPT ![job.tgt] = y]
    <3>1. (job.pos > blk[job.tgt].top) = TRUE
      BY <2>0, RunningFacts DEF IInv, JobInv, ProgramInv
    <3> QED BY <1>6, <2>0, <3>1, LandedFacts, DamagedFacts DEF ProgramOk, ProgramCorrupt
  <2> QED BY <2>0, <2>2, <2>3, <2>4, WriteVisible, Installs
<1>7. CASE ProgramErr
  <2>0. pc = "program" /\ Running /\ pc # "sync" /\ ref' = ref /\ WriteFailed
    BY <1>7 DEF ProgramErr, Running
  <2>1. (job.pos > blk[job.tgt].top) = TRUE
    BY <2>0, RunningFacts DEF IInv, JobInv, ProgramInv
  <2>2. Sound(blk[job.tgt])
    BY <1>0, <2>0, RunningFacts DEF TypeOK, Sound
  <2>3. PICK y : Wrote(y) /\ blk' = [blk EXCEPT ![job.tgt] = y]
    <3>1. Wrote(blk[job.tgt])
      BY <2>2 DEF Wrote
    <3> QED BY <1>7, <2>0, <2>1, <3>1, LandedFacts, DamagedFacts DEF ProgramErr
  <2> QED BY <2>0, <2>3, WriteVisible, WriteFailedSimulates
<1>8. CASE VerifyOk
  <2>0. pc = "verify" /\ Running /\ UNCHANGED <<blk, ref, result>> /\ job \in Job
        /\ pc' \in {"sync", "erase", "repoint"}
    BY <1>0, <1>8 DEF VerifyOk, Running, TypeOK
  <2>1. job'.new = job.new
    BY <1>8, <2>0, Zenon DEF VerifyOk, Job
  <2>2. Visible' = Visible /\ Running'
    BY <2>0 DEF Visible, Running
  <2> QED BY <2>0, <2>1, <2>2, Installs
<1>9. CASE VerifyErr
  <2>0. pc = "verify" /\ WriteFailed /\ Visible' = Visible
    BY <1>9 DEF VerifyErr, Visible
  <2> QED BY <2>0, WriteFailedSimulates
<1>10. CASE Repoint
  <2>0. pc = "repoint" /\ Running
    BY <1>10 DEF Repoint, Running
  <2>1. CASE ReturnErr
    <3>1. Visible' = Visible
      BY <2>1 DEF ReturnErr, Visible
    <3> QED BY <2>0, <2>1, <3>1, Fails DEF ReturnErr
  <2>2. CASE ~ReturnErr
    <3>1. pc' = "sync" /\ UNCHANGED <<job, result>> /\ Running'
      BY <1>10, <2>2 DEF Repoint, Running
    <3>2. Visible' = job.new
      BY <3>1 DEF IInv, JobInv
    <3> QED BY <2>0, <3>1, <3>2, Installs
  <2> QED BY <2>1, <2>2
<1>11. CASE Cancel
  <2>1. job'.new = job.new
    BY <1>11, CancelStep
  <2>2. pc = "cancel" /\ Running /\ UNCHANGED <<blk, ref, result>> /\ pc' \in {"program", "compact"}
    BY <1>11 DEF Cancel, StartCommit, Running
  <2>3. Visible' = Visible /\ Running'
    BY <2>2 DEF Visible, Running
  <2> QED BY <2>1, <2>2, <2>3, Installs
<1>12. CASE Sync
  <2>0. pc = "sync" /\ Running /\ Visible' = Visible /\ Visible = job.new
    BY <1>12 DEF Sync, Running, Visible, IInv, JobInv
  <2>1. job.new # None
    BY <1>0, <2>0, PairAssumption DEF TypeOK, Job, Content
  <2>2. CASE Return("err")
    BY <2>0, <2>2, Fails
  <2>3. CASE Return("ok")
    <3>1. ~Running' /\ result' = "ok"
      BY <2>3 DEF Return, Running
    <3>2. Abstract!Acknowledge
      BY <2>0, <2>1, <3>1 DEF Abstract!Acknowledge
    <3> QED BY <3>2 DEF Abstract!Next
  <2> QED BY <1>12, <2>2, <2>3 DEF Sync
<1>13. CASE PowerLoss
  <2>1. ~Running' /\ result' = "none" /\ ref' = ref
    BY <1>13 DEF PowerLoss, Running
  <2>2. Visible' = Visible
    <3>1. CASE blk' = blk
      BY <2>1, <3>1 DEF Visible
    <3>2. ASSUME pc = "program", NEW y \in Damaged(blk[job.tgt]),
                 blk' = [blk EXCEPT ![job.tgt] = y]
          PROVE  Visible' = Visible
      <4>1. Wrote(y) /\ y.end = blk[job.tgt].end /\ y.img = blk[job.tgt].img
        <5>1. PICK r : y = [blk[job.tgt] EXCEPT !.rev = r,
                              !.top = IF job.pos > blk[job.tgt].top THEN job.pos ELSE blk[job.tgt].top]
          BY <3>2 DEF Damaged
        <5>2. blk[job.tgt] \in BlockImage
          BY <3>2, RunningFacts DEF Running
        <5>3. y.img = blk[job.tgt].img
          BY <5>1, <5>2, Zenon DEF BlockImage
        <5> QED BY <3>2, <5>3, DamagedFacts
      <4> QED BY <2>1, <3>2, <4>1, WriteVisible
    <3>3. ASSUME pc = "erase", NEW y \in TornErase(blk[job.tgt]),
                 blk' = [blk EXCEPT ![job.tgt] = y]
          PROVE  Visible' = Visible
      <4>1. Running /\ pc # "sync"
        BY <3>3 DEF Running
      <4>2. Sound(blk[job.tgt])
        BY <1>0, <4>1, RunningFacts DEF TypeOK, Sound
      <4> QED BY <2>1, <3>3, <4>2, TornEraseFacts, EraseKeepsVisible
    <3> QED BY <1>13, <3>1, <3>2, <3>3 DEF PowerLoss
  <2> QED BY <2>1, <2>2 DEF Abstract!Next, Abstract!Crash
<1>14. CASE Mount
  <2>1. Visible' = Visible /\ inflight' = inflight /\ result' = result
    BY <1>14 DEF Mount, Visible, inflight, Running
  <2> QED BY <2>1, Stutters
<1>15. CASE ReuseFree
  <2>1. /\ UNCHANGED <<ref, pc, job, result>>
        /\ blk'[ref.a] = blk[ref.a] /\ blk'[ref.b] = blk[ref.b]
    BY <1>0, <1>15 DEF ReuseFree, TypeOK, Pair
  <2>2. Visible' = Visible
    BY <1>0, <2>1, SameHalves DEF Visible
  <2>3. inflight' = inflight
    BY <2>1 DEF inflight, Running
  <2> QED BY <2>1, <2>2, <2>3, Stutters
<1> QED BY <1>1, <1>2, <1>3, <1>4, <1>5, <1>6, <1>7, <1>8, <1>9, <1>10, <1>11, <1>12,
           <1>13, <1>14, <1>15 DEF Next, Step

\* The pair implements AtomicPair: under the mapping content <- Visible,
\* inflight <- the running commit's new content, every step of a commit, of
\* a relocation, of a power cut or of the neighbours is a step of an atomic
\* durable register.
THEOREM Atomic == Spec => IsAtomic
<1>1. Init => Abstract!Init
  BY InitSimulates
<1>2. IInv /\ IInv' /\ [Next]_vars => [Abstract!Next]_(Abstract!avars)
  BY StepSimulates
<1> QED BY <1>1, <1>2, SpecIInv, PTL DEF Spec, IsAtomic, Abstract!Spec

=============================================================================
