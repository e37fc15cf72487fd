--------------------------- MODULE NorCacheProofs ---------------------------
(***************************************************************************)
(* Proofs about NorCache, for every number of blocks, windows and cells    *)
(* and every number of programs, faults and power cuts: the four           *)
(* invariants that MCNorCache checks.                                      *)
(***************************************************************************)
EXTENDS NorCache, TLAPS

(***************************************************************************)
(* The inductive invariant.  A flush writes And(flash, cache), and a flush *)
(* that fails leaves any mixture of that and what was there.  Two facts    *)
(* make this harmless: the cache never holds an erased cell where the chip *)
(* holds a programmed one, and it agrees with the chip on what was         *)
(* verified there.                                                         *)
(***************************************************************************)

\* A cell programmed on the chip is programmed in the cached window.
CacheCovers ==
    cached # None => \A c \in Cells : flash[cached][c] = 0 => cache[c] = 0

\* Pending bytes never disagree with a verified cell.
CacheAgrees ==
    \A x \in sure : x[1] = cached => cache[x[2]] = x[3]

IInv ==
    /\ TypeOK /\ CacheCovers /\ CacheAgrees
    /\ ReadsOwnWrites /\ VerifiedIsDurable /\ OnlyCachedPending

\* A failed read leaves the buffer it was given alone.  The further
\* configuration MCNorLoadError shows what happens without this.
ReadsAreClean == ~Clobbers
----------------------------------------------------------------------------
(* Rows.                                                                   *)

\* Merging two rows gives a row, with a cell programmed where either has it
\* so (program and the chip: a program clears bits).
LEMMA AndIsRow ==
    ASSUME NEW r \in Row, NEW s \in Row
    PROVE  /\ And(r, s) \in Row
           /\ \A c \in Cells : And(r, s)[c] = IF r[c] = 0 \/ s[c] = 0 THEN 0 ELSE 1
BY DEF And, Row

\* A torn program of a row leaves a row, each cell the old or the new one.
LEMMA TornIsRow ==
    ASSUME NEW old \in Row, NEW row \in Row, NEW r \in Torn(old, row)
    PROVE  /\ r \in Row
           /\ \A c \in Cells : r[c] = old[c] \/ r[c] = And(old, row)[c]
BY DEF Torn

LEMMA ErasedIsRow == Erased \in Row /\ \A c \in Cells : Erased[c] = 1
BY DEF Erased, Row

\* The chip after a program of the cached window: a row there, the rest as
\* it was.
LEMMA FlashWritten ==
    ASSUME flash \in [Windows -> Row], cached \in Windows, NEW r \in Row,
           flash' = [flash EXCEPT ![cached] = r]
    PROVE  /\ flash' \in [Windows -> Row]
           /\ flash'[cached] = r
           /\ \A w \in Windows : w # cached => flash'[w] = flash[w]
OBVIOUS

----------------------------------------------------------------------------
(* Flushes.                                                                *)

\* The pending window is written as it stands: the cache covers the chip.
LEMMA PendingIsTheUnion ==
    ASSUME TypeOK, CacheCovers, dirty
    PROVE  /\ cached \in Windows /\ And(flash[cached], cache) = cache
<1>1. cached \in Windows /\ flash[cached] \in Row /\ cache \in Row
  BY DEF TypeOK
<1>2. \A c \in Cells : flash[cached][c] = 0 => cache[c] = 0
  BY DEF TypeOK, CacheCovers
<1>3. And(flash[cached], cache) \in Row
  BY <1>1, AndIsRow
<1>4. \A c \in Cells : And(flash[cached], cache)[c] = cache[c]
  BY <1>1, <1>2, AndIsRow DEF Row
<1> QED BY <1>1, <1>3, <1>4 DEF Row

\* What FlushOk leaves.
LEMMA FlushOkLeaves ==
    ASSUME TypeOK, CacheCovers, FlushOk
    PROVE  /\ flash' \in [Windows -> Row]
           /\ dirty => cached \in Windows /\ flash'[cached] = cache
           /\ \A w \in Windows : ~(dirty /\ w = cached) => flash'[w] = flash[w]
<1>1. CASE dirty
  <2>1. flash' = [flash EXCEPT ![cached] = And(flash[cached], cache)]
    BY <1>1 DEF FlushOk
  <2>2. cached \in Windows /\ And(flash[cached], cache) = cache /\ cache \in Row
    BY <1>1, PendingIsTheUnion DEF TypeOK
  <2>3. flash' = [flash EXCEPT ![cached] = cache]
    BY <2>1, <2>2
  <2> QED BY <1>1, <2>2, <2>3, FlashWritten DEF TypeOK
<1>2. CASE ~dirty
  BY <1>2 DEF FlushOk, TypeOK
<1> QED BY <1>1, <1>2

\* What a torn write of the pending window leaves: a row there, in which
\* every cell is the old one or the pending one.
LEMMA TornLeaves ==
    ASSUME TypeOK, CacheCovers, dirty,
           NEW r \in Torn(flash[cached], cache), flash' = [flash EXCEPT ![cached] = r]
    PROVE  /\ cached \in Windows /\ r \in Row
           /\ flash' \in [Windows -> Row] /\ flash'[cached] = r
           /\ \A w \in Windows : w # cached => flash'[w] = flash[w]
           /\ \A c \in Cells : r[c] = flash[cached][c] \/ r[c] = cache[c]
<1>1. cached \in Windows /\ And(flash[cached], cache) = cache
  BY PendingIsTheUnion
<1>2. flash[cached] \in Row /\ cache \in Row /\ flash \in [Windows -> Row]
  BY <1>1 DEF TypeOK
<1>3. r \in Row /\ \A c \in Cells : r[c] = flash[cached][c] \/ r[c] = cache[c]
  BY <1>1, <1>2, TornIsRow
<1> QED BY <1>1, <1>2, <1>3, FlashWritten

\* Verified cells survive a flush, whole or torn: chip and cache agree there.
LEMMA VerifiedSurvives ==
    ASSUME TypeOK, CacheAgrees, VerifiedIsDurable,
           \A w \in Windows, c \in Cells :
              \/ flash'[w][c] = flash[w][c]
              \/ w = cached /\ flash'[w][c] = cache[c]
    PROVE  \A x \in sure : flash'[x[1]][x[2]] = x[3]
BY DEF TypeOK, CacheAgrees, VerifiedIsDurable
----------------------------------------------------------------------------
(* Types.                                                                  *)

LEMMA FlushTypes ==
    ASSUME TypeOK, FlushOk \/ FlushCorrupt \/ FlushErr
    PROVE  /\ flash' \in [Windows -> Row]
           /\ want' \in [Windows -> [Cells -> {0, 1, Lost}]]
<1>1. dirty => cached \in Windows /\ flash[cached] \in Row /\ cache \in Row
  BY DEF TypeOK
<1>2. CASE FlushOk
  <2>1. dirty => And(flash[cached], cache) \in Row
    BY <1>1, AndIsRow
  <2> QED BY <1>1, <1>2, <2>1 DEF FlushOk, TypeOK
<1>3. CASE FlushCorrupt
  <2>1. PICK r \in Torn(flash[cached], cache) :
           /\ flash' = [flash EXCEPT ![cached] = r]
           /\ want' = [want EXCEPT ![cached] =
                         [c \in Cells |-> IF r[c] = And(flash[cached], cache)[c]
                                          THEN @[c] ELSE Lost]]
    BY <1>3 DEF FlushCorrupt
  <2>2. dirty /\ r \in Row
    BY <1>1, <1>3, TornIsRow DEF FlushCorrupt
  <2> QED BY <1>1, <2>1, <2>2 DEF TypeOK
<1>4. CASE FlushErr
  <2>1. PICK r \in Torn(flash[cached], cache) : flash' = [flash EXCEPT ![cached] = r]
    BY <1>4 DEF FlushErr
  <2>2. dirty /\ r \in Row
    BY <1>1, <1>4, TornIsRow DEF FlushErr
  <2> QED BY <1>1, <1>4, <2>1, <2>2 DEF TypeOK, FlushErr
<1> QED BY <1>2, <1>3, <1>4

\* The window a program call touches next, and the rest of its data.
LEMMA JobTypes ==
    ASSUME TypeOK, job # <<>>
    PROVE  /\ job[1][1] \in Windows /\ job[1][2] \in Row
           /\ Tail(job) \in Seq(Windows \X Row)
<1>1. job \in Seq(Windows \X Row)
  BY DEF TypeOK
<1>2. job[1] \in Windows \X Row /\ Tail(job) \in Seq(Windows \X Row)
  BY <1>1
<1> QED BY <1>2

\* Every step keeps the types, and a pending window keeps its target ("dirty
\* cache must have a target").
LEMMA TypeStep ==
    TypeOK /\ [Next]_vars => TypeOK'
<1> SUFFICES ASSUME TypeOK, [Next]_vars PROVE TypeOK'
  OBVIOUS
<1>e. <<>> \in Seq(Windows \X Row)
  OBVIOUS
<1>1. CASE ProgramCall
  <2>1. PICK b \in Blocks, first \in 0 .. NumWindows - 1, n \in 1 .. 2 :
          /\ first + n <= NumWindows
          /\ \E rows \in [1 .. n -> Row \ {Erased}] :
                job' = [i \in 1 .. n |-> <<<<b, first + i - 1>>, rows[i]>>]
    BY <1>1 DEF ProgramCall
  <2>2. PICK rows \in [1 .. n -> Row \ {Erased}] :
                job' = [i \in 1 .. n |-> <<<<b, first + i - 1>>, rows[i]>>]
    BY <2>1
  <2>3. \A i \in 1 .. n : <<<<b, first + i - 1>>, rows[i]>> \in Windows \X Row
    BY <2>1, <2>2, NorAssumption DEF Windows
  <2>4. job' \in Seq(Windows \X Row)
    BY <2>2, <2>3
  <2> QED BY <1>1, <2>4 DEF ProgramCall, TypeOK
<1>2. CASE Merge
  <2>1. job[1][1] \in Windows /\ job[1][2] \in Row /\ job' \in Seq(Windows \X Row)
    BY <1>2, JobTypes DEF Merge
  <2>2. cache' \in Row
    BY <1>2, <2>1, AndIsRow DEF Merge, TypeOK
  <2>3. want' \in [Windows -> [Cells -> {0, 1, Lost}]]
    BY <1>2, <2>1 DEF Merge, TypeOK
  <2>4. cached' \in Windows /\ dirty' \in BOOLEAN /\ cached' # None
    BY <1>2, <2>1, NorAssumption DEF Merge, TypeOK, Holds, Windows
  <2>5. sure' \subseteq Windows \X Cells \X {0, 1} /\ flash' = flash
    BY <1>2 DEF Merge, TypeOK
  <2> QED BY <2>1, <2>2, <2>3, <2>4, <2>5 DEF TypeOK
<1>3. CASE Switch \/ SwitchCorrupt
  <2>1. /\ flash' \in [Windows -> Row]
        /\ want' \in [Windows -> [Cells -> {0, 1, Lost}]]
    BY <1>3, FlushTypes DEF Switch, SwitchCorrupt
  <2>2. job[1][1] \in Windows
    BY <1>3, JobTypes DEF Switch, SwitchCorrupt
  <2> QED BY <1>3, <2>1, <2>2 DEF Switch, SwitchCorrupt, TypeOK
<1>4. CASE SwitchErr \/ FlushFails
  <2>1. /\ flash' \in [Windows -> Row]
        /\ want' \in [Windows -> [Cells -> {0, 1, Lost}]]
    BY <1>4, FlushTypes DEF SwitchErr, FlushFails
  <2> QED BY <1>4, <1>e, <2>1 DEF SwitchErr, FlushFails, FlushErr, TypeOK
<1>5. CASE LoadErr
  <2>1. /\ flash' \in [Windows -> Row]
        /\ want' \in [Windows -> [Cells -> {0, 1, Lost}]]
    BY <1>5, FlushTypes DEF LoadErr
  <2>2. cache' \in Row
    BY <1>5, JobTypes DEF LoadErr, TypeOK
  <2> QED BY <1>5, <1>e, <2>1, <2>2 DEF LoadErr, TypeOK
<1>6. ASSUME NEW w \in Windows, ReadDevice(w) PROVE TypeOK'
  <2>1. /\ flash' \in [Windows -> Row]
        /\ want' \in [Windows -> [Cells -> {0, 1, Lost}]]
    BY <1>6, FlushTypes DEF ReadDevice, TypeOK
  <2>2. \A c \in Cells : flash'[w][c] \in {0, 1}
    BY <2>1 DEF Row
  <2>3. sure' \subseteq Windows \X Cells \X {0, 1}
    BY <1>6, <2>2 DEF ReadDevice, TypeOK
  <2> QED BY <1>6, <2>1, <2>3 DEF ReadDevice, TypeOK
<1>7. ASSUME NEW b \in Blocks, Erase(b) \/ EraseErr(b) PROVE TypeOK'
  <2>1. /\ flash' \in [Windows -> Row]
        /\ want' \in [Windows -> [Cells -> {0, 1, Lost}]]
    BY <1>7, ErasedIsRow DEF Erase, EraseErr, TypeOK, Erased, Unknown
  <2> QED BY <1>7, <2>1 DEF Erase, EraseErr, TypeOK
<1>8. CASE Sync
  <2>1. /\ flash' \in [Windows -> Row]
        /\ want' \in [Windows -> [Cells -> {0, 1, Lost}]]
    BY <1>8, FlushTypes DEF Sync
  <2> QED BY <1>8, <2>1 DEF Sync, TypeOK
<1>9. CASE PowerLoss
  <2>1. flash' \in [Windows -> Row]
    <3>1. CASE dirty
      <4>1. PICK r \in Torn(flash[cached], cache) : flash' = [flash EXCEPT ![cached] = r]
        BY <1>9, <3>1 DEF PowerLoss
      <4>2. cached \in Windows /\ flash[cached] \in Row /\ cache \in Row
        BY <3>1 DEF TypeOK
      <4>3. r \in Row
        BY <4>2, TornIsRow
      <4> QED BY <4>1, <4>2, <4>3 DEF TypeOK
    <3>2. CASE ~dirty
      BY <1>9, <3>2 DEF PowerLoss, TypeOK
    <3> QED BY <3>1, <3>2
  <2>2. want' \in [Windows -> [Cells -> {0, 1, Lost}]]
    BY <1>9 DEF PowerLoss, TypeOK
  <2> QED BY <1>9, <1>e, <2>1, <2>2, ErasedIsRow DEF PowerLoss, TypeOK
<1>10. CASE UNCHANGED vars
  BY <1>10 DEF vars, TypeOK
<1> QED BY <1>1, <1>2, <1>3, <1>4, <1>5, <1>6, <1>7, <1>8, <1>9, <1>10 DEF Next
----------------------------------------------------------------------------
(* The steps.                                                              *)

LEMMA StepProgramCall ==
    ASSUME IInv, ProgramCall, TypeOK'
    PROVE  IInv'
BY DEF IInv, ProgramCall, CacheCovers, CacheAgrees, ReadsOwnWrites, View,
       VerifiedIsDurable, OnlyCachedPending

LEMMA StepMerge ==
    ASSUME IInv, Merge, TypeOK'
    PROVE  IInv'
<1> DEFINE w == job[1][1]
           d == job[1][2]
<1>1. w \in Windows /\ d \in Row /\ cached = w /\ cache \in Row
  BY JobTypes DEF IInv, Merge, Holds, TypeOK
<1>2. \A c \in Cells : cache'[c] = IF cache[c] = 0 \/ d[c] = 0 THEN 0 ELSE 1
  BY <1>1, AndIsRow DEF Merge
<1>3. flash' = flash /\ cached' = w /\ dirty' = TRUE
  BY <1>1 DEF Merge
<1>4. \A v \in Windows, c \in Cells :
         want'[v][c] = IF v = w /\ d[c] = 0 THEN 0 ELSE want[v][c]
  BY <1>1 DEF Merge, IInv, TypeOK
<1>5. CacheCovers'
  BY <1>1, <1>2, <1>3 DEF IInv, CacheCovers
<1>6. CacheAgrees'
  <2> SUFFICES ASSUME NEW x \in sure', x[1] = cached'
               PROVE  cache'[x[2]] = x[3]
    BY DEF CacheAgrees
  <2>1. x \in sure /\ d[x[2]] = 1 /\ x[2] \in Cells /\ x[3] \in {0, 1}
    BY <1>1, <1>3 DEF Merge, IInv, TypeOK
  <2>2. cache[x[2]] = x[3]
    BY <1>1, <1>3, <2>1 DEF IInv, CacheAgrees
  <2> QED BY <1>2, <2>1, <2>2
<1>7. ReadsOwnWrites'
  <2> SUFFICES ASSUME NEW v \in Windows, NEW c \in Cells, want'[v][c] # Lost
               PROVE  View(v)'[c] = want'[v][c]
    BY DEF ReadsOwnWrites
  <2>1. CASE v # w
    BY <1>1, <1>3, <1>4, <2>1 DEF IInv, ReadsOwnWrites, View
  <2>2. CASE v = w /\ d[c] = 0
    BY <1>2, <1>3, <1>4, <2>2 DEF View
  <2>3. CASE v = w /\ d[c] # 0
    <3>1. cache[c] = want[w][c] /\ cache[c] \in {0, 1}
      BY <1>1, <1>4, <2>3 DEF IInv, ReadsOwnWrites, View, Row
    <3> QED BY <1>2, <1>3, <1>4, <2>3, <3>1 DEF View
  <2> QED BY <2>1, <2>2, <2>3
<1>8. VerifiedIsDurable'
  BY <1>3 DEF IInv, VerifiedIsDurable, Merge
<1>9. OnlyCachedPending'
  BY <1>1, <1>3, <1>4 DEF IInv, OnlyCachedPending
<1> QED BY <1>5, <1>6, <1>7, <1>8, <1>9 DEF IInv

\* A flush that went well and cleared dirty, with the window held or another
\* one read into the cache.
LEMMA AfterFlushOk ==
    ASSUME IInv, FlushOk, TypeOK', dirty' = FALSE, sure' = sure,
           \/ cached' = cached /\ cache' = cache
           \/ cached' \in Windows /\ cache' = flash'[cached']
    PROVE  IInv'
<1>1. /\ flash' \in [Windows -> Row]
      /\ dirty => cached \in Windows /\ flash'[cached] = cache
      /\ \A w \in Windows : ~(dirty /\ w = cached) => flash'[w] = flash[w]
  BY FlushOkLeaves DEF IInv
<1>2. want' = want
  BY DEF FlushOk
<1>3. OnlyCachedPending'
  <2> SUFFICES ASSUME NEW w \in Windows, NEW c \in Cells, want[w][c] # Lost
               PROVE  flash'[w][c] = want[w][c]
    BY <1>2 DEF OnlyCachedPending
  <2>1. CASE dirty /\ w = cached
    BY <1>1, <2>1 DEF IInv, ReadsOwnWrites, View
  <2>2. CASE ~(dirty /\ w = cached)
    BY <1>1, <2>2 DEF IInv, OnlyCachedPending
  <2> QED BY <2>1, <2>2
<1>4. VerifiedIsDurable'
  <2>1. \A x \in sure : flash'[x[1]][x[2]] = x[3]
    BY <1>1, VerifiedSurvives DEF IInv
  <2> QED BY <2>1 DEF VerifiedIsDurable
<1>5. CASE cached' = cached /\ cache' = cache
  <2>1. CacheCovers'
    BY <1>1, <1>5 DEF IInv, CacheCovers, TypeOK
  <2>2. CacheAgrees'
    BY <1>5 DEF IInv, CacheAgrees
  <2>3. ReadsOwnWrites'
    BY <1>1, <1>2, <1>5 DEF IInv, ReadsOwnWrites, View
  <2> QED BY <1>3, <1>4, <2>1, <2>2, <2>3 DEF IInv
<1>6. CASE cached' \in Windows /\ cache' = flash'[cached']
  <2>1. CacheCovers' /\ CacheAgrees'
    BY <1>4, <1>6 DEF CacheCovers, CacheAgrees, VerifiedIsDurable
  <2>2. ReadsOwnWrites'
    BY <1>3, <1>6 DEF OnlyCachedPending, ReadsOwnWrites, View
  <2> QED BY <1>3, <1>4, <2>1, <2>2 DEF IInv
<1> QED BY <1>5, <1>6
\* What a flush leaves that the chip accepted and did not keep.
LEMMA CorruptLeaves ==
    ASSUME TypeOK, CacheCovers, FlushCorrupt
    PROVE  /\ dirty /\ cached \in Windows
           /\ flash' \in [Windows -> Row]
           /\ \A w \in Windows : w # cached => flash'[w] = flash[w]
           /\ \A c \in Cells : flash'[cached][c] = flash[cached][c] \/ flash'[cached][c] = cache[c]
           /\ \A w \in Windows, c \in Cells :
                 want'[w][c] # Lost => /\ want'[w][c] = want[w][c]
                                       /\ w = cached => flash'[cached][c] = cache[c]
<1>1. dirty /\ cached \in Windows /\ And(flash[cached], cache) = cache
  BY PendingIsTheUnion DEF FlushCorrupt
<1>2. PICK r \in Torn(flash[cached], cache) :
         /\ flash' = [flash EXCEPT ![cached] = r]
         /\ want' = [want EXCEPT ![cached] =
                       [c \in Cells |-> IF r[c] = And(flash[cached], cache)[c]
                                        THEN @[c] ELSE Lost]]
  BY DEF FlushCorrupt
<1>3. /\ flash' \in [Windows -> Row] /\ flash'[cached] = r
      /\ \A w \in Windows : w # cached => flash'[w] = flash[w]
      /\ \A c \in Cells : r[c] = flash[cached][c] \/ r[c] = cache[c]
  BY <1>1, <1>2, TornLeaves
<1>4. \A w \in Windows, c \in Cells :
         want'[w][c] # Lost => /\ want'[w][c] = want[w][c]
                               /\ w = cached => r[c] = And(flash[cached], cache)[c]
  BY <1>1, <1>2 DEF TypeOK
<1> QED BY <1>1, <1>3, <1>4

\* The same behind a flush that the chip accepted and did not keep: what it
\* did not keep is lost to the kernel.
LEMMA AfterFlushCorrupt ==
    ASSUME IInv, FlushCorrupt, TypeOK', dirty' = FALSE, sure' = sure,
           \/ cached' = cached /\ cache' = cache
           \/ cached' \in Windows /\ cache' = flash'[cached']
    PROVE  IInv'
<1>2. /\ dirty /\ cached \in Windows
      /\ \A w \in Windows : w # cached => flash'[w] = flash[w]
      /\ \A c \in Cells : flash'[cached][c] = flash[cached][c] \/ flash'[cached][c] = cache[c]
      /\ \A w \in Windows, c \in Cells :
            want'[w][c] # Lost => /\ want'[w][c] = want[w][c]
                                  /\ w = cached => flash'[cached][c] = cache[c]
  BY CorruptLeaves DEF IInv
<1>4. OnlyCachedPending'
  <2> SUFFICES ASSUME NEW w \in Windows, NEW c \in Cells, want'[w][c] # Lost
               PROVE  flash'[w][c] = want'[w][c]
    BY DEF OnlyCachedPending
  <2>1. CASE w = cached
    BY <1>2, <2>1 DEF IInv, ReadsOwnWrites, View
  <2>2. CASE w # cached
    BY <1>2, <2>2 DEF IInv, OnlyCachedPending
  <2> QED BY <2>1, <2>2
<1>5. VerifiedIsDurable'
  <2>1. \A x \in sure : flash'[x[1]][x[2]] = x[3]
    BY <1>2, VerifiedSurvives DEF IInv
  <2> QED BY <2>1 DEF VerifiedIsDurable
<1>6. CASE cached' = cached /\ cache' = cache
  <2>1. CacheCovers'
    BY <1>2, <1>6 DEF IInv, CacheCovers
  <2>2. CacheAgrees'
    BY <1>6 DEF IInv, CacheAgrees
  <2>3. ReadsOwnWrites'
    BY <1>2, <1>6 DEF IInv, ReadsOwnWrites, View
  <2> QED BY <1>4, <1>5, <2>1, <2>2, <2>3 DEF IInv
<1>7. CASE cached' \in Windows /\ cache' = flash'[cached']
  <2>1. CacheCovers' /\ CacheAgrees'
    BY <1>5, <1>7 DEF CacheCovers, CacheAgrees, VerifiedIsDurable
  <2>2. ReadsOwnWrites'
    BY <1>4, <1>7 DEF OnlyCachedPending, ReadsOwnWrites, View
  <2> QED BY <1>4, <1>5, <2>1, <2>2 DEF IInv
<1> QED BY <1>6, <1>7

\* Behind a flush that failed no window is held, and what was pending in the
\* one that was is lost.
LEMMA AfterFlushErr ==
    ASSUME IInv, FlushErr, TypeOK', sure' = sure
    PROVE  IInv'
<1>0. dirty /\ cached' = None /\ dirty' = FALSE
  BY DEF FlushErr
<1>1. PICK r \in Torn(flash[cached], cache) : flash' = [flash EXCEPT ![cached] = r]
  BY DEF FlushErr
<1>2. /\ cached \in Windows /\ r \in Row
      /\ flash' \in [Windows -> Row] /\ flash'[cached] = r
      /\ \A w \in Windows : w # cached => flash'[w] = flash[w]
      /\ \A c \in Cells : r[c] = flash[cached][c] \/ r[c] = cache[c]
  BY <1>0, <1>1, TornLeaves DEF IInv
<1>3. \A w \in Windows, c \in Cells :
         want'[w][c] # Lost => /\ want'[w][c] = want[w][c]
                               /\ w = cached => cache[c] = flash[cached][c]
  BY <1>2 DEF FlushErr, IInv, TypeOK
<1>4. OnlyCachedPending'
  <2> SUFFICES ASSUME NEW w \in Windows, NEW c \in Cells, want'[w][c] # Lost
               PROVE  flash'[w][c] = want'[w][c]
    BY DEF OnlyCachedPending
  <2>1. CASE w = cached
    BY <1>2, <1>3, <2>1 DEF IInv, ReadsOwnWrites, View
  <2>2. CASE w # cached
    BY <1>2, <1>3, <2>2 DEF IInv, OnlyCachedPending
  <2> QED BY <2>1, <2>2
<1>5. VerifiedIsDurable'
  <2>1. \A x \in sure : flash'[x[1]][x[2]] = x[3]
    BY <1>2, VerifiedSurvives DEF IInv
  <2> QED BY <2>1 DEF VerifiedIsDurable
<1>6. None \notin Windows
  BY NorAssumption DEF Windows
<1>7. CacheCovers' /\ CacheAgrees'
  BY <1>0, <1>6 DEF IInv, TypeOK, CacheCovers, CacheAgrees
<1>8. ReadsOwnWrites'
  BY <1>0, <1>4, <1>6 DEF OnlyCachedPending, ReadsOwnWrites, View
<1> QED BY <1>4, <1>5, <1>7, <1>8 DEF IInv

\* What a read of the chip confirms holds on the chip, and in the cache when
\* the window is the cached one; and the kernel was never told otherwise.
LEMMA StepReadDevice ==
    ASSUME IInv, NEW w \in Windows, ReadDevice(w), TypeOK'
    PROVE  IInv'
<1> DEFINE seen == {x \in Cells : flash'[w][x] = want[w][x]}
<1>0. /\ cached' = cached /\ cache' = cache
      /\ sure' = sure \cup {<<w, c, want[w][c]>> : c \in seen}
  BY DEF ReadDevice
<1>1. /\ CacheCovers' /\ ReadsOwnWrites' /\ OnlyCachedPending'
      /\ \A x \in sure : flash'[x[1]][x[2]] = x[3]
  <2>1. CASE dirty /\ cached = w /\ FlushOk
    <3>1. /\ flash' \in [Windows -> Row] /\ flash'[cached] = cache /\ want' = want
          /\ \A v \in Windows : v # cached => flash'[v] = flash[v]
      BY <2>1, FlushOkLeaves DEF IInv, FlushOk
    <3>2. CacheCovers' /\ dirty' = FALSE
      BY <1>0, <2>1, <3>1 DEF CacheCovers, ReadDevice
    <3>3. ReadsOwnWrites'
      BY <1>0, <3>1 DEF IInv, ReadsOwnWrites, View
    <3>4. OnlyCachedPending'
      BY <3>1, <3>2 DEF IInv, OnlyCachedPending, ReadsOwnWrites, View
    <3>5. \A x \in sure : flash'[x[1]][x[2]] = x[3]
      BY <3>1, VerifiedSurvives DEF IInv
    <3> QED BY <3>2, <3>3, <3>4, <3>5
  <2>2. CASE dirty /\ cached = w /\ FlushCorrupt
    <3>2. /\ dirty /\ cached \in Windows
          /\ \A v \in Windows : v # cached => flash'[v] = flash[v]
          /\ \A c \in Cells : flash'[cached][c] = flash[cached][c] \/ flash'[cached][c] = cache[c]
          /\ \A v \in Windows, c \in Cells :
                want'[v][c] # Lost => /\ want'[v][c] = want[v][c]
                                      /\ v = cached => flash'[cached][c] = cache[c]
      BY <2>2, CorruptLeaves DEF IInv
    <3>4. CacheCovers' /\ dirty' = FALSE
      BY <1>0, <2>2, <3>2 DEF IInv, CacheCovers, ReadDevice
    <3>5. ReadsOwnWrites'
      BY <1>0, <3>2 DEF IInv, ReadsOwnWrites, View
    <3>6. OnlyCachedPending'
      BY <3>2, <3>4 DEF IInv, OnlyCachedPending, ReadsOwnWrites, View
    <3>7. \A x \in sure : flash'[x[1]][x[2]] = x[3]
      BY <3>2, VerifiedSurvives DEF IInv
    <3> QED BY <3>4, <3>5, <3>6, <3>7
  <2>3. CASE ~(dirty /\ cached = w)
    BY <1>0, <2>3 DEF ReadDevice, IInv, CacheCovers, ReadsOwnWrites, View,
                      OnlyCachedPending, VerifiedIsDurable
  <2> QED BY <2>1, <2>2, <2>3 DEF ReadDevice
<1>2. VerifiedIsDurable'
  <2> SUFFICES ASSUME NEW x \in sure' PROVE flash'[x[1]][x[2]] = x[3]
    BY DEF VerifiedIsDurable
  <2>1. CASE x \in sure
    BY <1>1, <2>1
  <2>2. CASE x \in {<<w, c, want[w][c]>> : c \in seen}
    BY <2>2
  <2> QED BY <1>0, <2>1, <2>2
<1>3. CacheAgrees'
  <2> SUFFICES ASSUME NEW x \in sure', x[1] = cached PROVE cache[x[2]] = x[3]
    BY <1>0 DEF CacheAgrees
  <2>1. CASE x \in sure
    BY <2>1 DEF IInv, CacheAgrees
  <2>2. ASSUME NEW c \in seen, x = <<w, c, want[w][c]>> PROVE cache[x[2]] = x[3]
    <3>1. flash'[w][c] \in {0, 1} /\ cached = w
      BY <2>2 DEF TypeOK, Row
    <3>2. want[w][c] # Lost
      BY <2>2, <3>1, NorAssumption
    <3> QED BY <2>2, <3>1, <3>2 DEF IInv, ReadsOwnWrites, View
  <2> QED BY <1>0, <2>1, <2>2
<1> QED BY <1>1, <1>2, <1>3 DEF IInv

\* An erase drops the pending window of its block.
LEMMA StepErase ==
    ASSUME IInv, NEW b \in Blocks, Erase(b) \/ EraseErr(b), TypeOK'
    PROVE  IInv'
<1>1. None \notin Windows
  BY NorAssumption DEF Windows
<1>2. \/ cached' = None /\ dirty' = FALSE
      \/ /\ cached' = cached /\ dirty' = dirty
         /\ cached \in Windows => cached[1] # b
  BY DEF Erase, EraseErr, IInv, TypeOK, Windows
<1>3. /\ cache' = cache
      /\ sure' = {x \in sure : x[1][1] # b}
  BY DEF Erase, EraseErr
<1>4. \A w \in Windows : w[1] # b => flash'[w] = flash[w] /\ want'[w] = want[w]
  BY DEF Erase, EraseErr
<1>5. \A w \in Windows, c \in Cells :
         w[1] = b /\ want'[w][c] # Lost => want'[w][c] = flash'[w][c]
  BY DEF Erase, EraseErr, Unknown, Erased
<1>6. CacheCovers' /\ CacheAgrees'
  BY <1>1, <1>2, <1>3, <1>4 DEF IInv, TypeOK, CacheCovers, CacheAgrees
<1>7. OnlyCachedPending'
  <2> SUFFICES ASSUME NEW w \in Windows, NEW c \in Cells,
                      want'[w][c] # Lost, ~(dirty' /\ cached' = w)
               PROVE  flash'[w][c] = want'[w][c]
    BY DEF OnlyCachedPending
  <2>1. CASE w[1] = b
    BY <1>5, <2>1
  <2>2. CASE w[1] # b
    <3>1. want[w][c] # Lost /\ ~(dirty /\ cached = w)
      BY <1>1, <1>2, <1>4, <2>2 DEF Erase, EraseErr
    <3> QED BY <1>4, <2>2, <3>1 DEF IInv, OnlyCachedPending
  <2> QED BY <2>1, <2>2
<1>8. ReadsOwnWrites'
  BY <1>1, <1>2, <1>3, <1>4, <1>5, <1>7 DEF IInv, TypeOK, ReadsOwnWrites, View, OnlyCachedPending
<1>9. VerifiedIsDurable'
  BY <1>3, <1>4 DEF IInv, TypeOK, VerifiedIsDurable
<1> QED BY <1>6, <1>7, <1>8, <1>9 DEF IInv

\* Power is lost in the middle of a write of the pending window, or not.
LEMMA StepPowerLoss ==
    ASSUME IInv, PowerLoss, TypeOK'
    PROVE  IInv'
<1>0. None \notin Windows /\ cached' = None /\ dirty' = FALSE /\ sure' = sure
  BY NorAssumption DEF PowerLoss, Windows
<1>1. \A w \in Windows, c \in Cells :
         \/ flash'[w][c] = flash[w][c]
         \/ w = cached /\ flash'[w][c] = cache[c]
  <2>1. CASE dirty
    <3>1. PICK r \in Torn(flash[cached], cache) : flash' = [flash EXCEPT ![cached] = r]
      BY <2>1 DEF PowerLoss
    <3> QED BY <2>1, <3>1, TornLeaves DEF IInv
  <2>2. CASE ~dirty
    BY <2>2 DEF PowerLoss
  <2> QED BY <2>1, <2>2
<1>2. VerifiedIsDurable'
  <2>1. \A x \in sure : flash'[x[1]][x[2]] = x[3]
    BY <1>1, VerifiedSurvives DEF IInv
  <2> QED BY <1>0, <2>1 DEF VerifiedIsDurable
<1>3. \A w \in Windows, c \in Cells : want'[w][c] # Lost => flash'[w][c] = want'[w][c]
  BY DEF PowerLoss
<1>4. ReadsOwnWrites' /\ OnlyCachedPending'
  BY <1>0, <1>3 DEF ReadsOwnWrites, View, OnlyCachedPending
<1>5. CacheCovers' /\ CacheAgrees'
  BY <1>0 DEF CacheCovers, CacheAgrees, IInv, TypeOK
<1> QED BY <1>2, <1>4, <1>5 DEF IInv

----------------------------------------------------------------------------
(* The invariant.                                                          *)

LEMMA InitIInv == Init => IInv
<1> SUFFICES ASSUME Init PROVE IInv
  OBVIOUS
<1>1. Erased \in Row
  BY ErasedIsRow
<1>2. TypeOK
  <2>1. <<>> \in Seq(Windows \X Row)
    OBVIOUS
  <2> QED BY <1>1, <2>1 DEF Init, TypeOK, Erased
<1>3. CacheCovers /\ CacheAgrees /\ VerifiedIsDurable
  BY DEF Init, CacheCovers, CacheAgrees, VerifiedIsDurable
<1>4. ReadsOwnWrites /\ OnlyCachedPending
  <2>1. None \notin Windows
    BY NorAssumption DEF Windows
  <2> QED BY <2>1 DEF Init, ReadsOwnWrites, View, OnlyCachedPending
<1> QED BY <1>2, <1>3, <1>4 DEF IInv

\* One case for each action.
LEMMA StepIInv ==
    ReadsAreClean /\ IInv /\ [Next]_vars => IInv'
<1> SUFFICES ASSUME ReadsAreClean, IInv, [Next]_vars PROVE IInv'
  OBVIOUS
<1>0. TypeOK'
  BY TypeStep DEF IInv
<1>1. CASE ProgramCall
  BY <1>0, <1>1, StepProgramCall
<1>2. CASE Merge
  BY <1>0, <1>2, StepMerge
<1>3. CASE Switch \/ SwitchCorrupt
  <2>1. job[1][1] \in Windows
    BY <1>3, JobTypes DEF Switch, SwitchCorrupt, IInv
  <2> QED BY <1>0, <1>3, <2>1, AfterFlushOk, AfterFlushCorrupt DEF Switch, SwitchCorrupt
<1>4. CASE SwitchErr \/ FlushFails
  BY <1>0, <1>4, AfterFlushErr DEF SwitchErr, FlushFails
<1>5. CASE LoadErr
  BY <1>0, <1>5, AfterFlushOk DEF LoadErr, ReadsAreClean
<1>6. ASSUME NEW w \in Windows, ReadDevice(w) PROVE IInv'
  BY <1>0, <1>6, StepReadDevice
<1>7. ASSUME NEW b \in Blocks, Erase(b) \/ EraseErr(b) PROVE IInv'
  BY <1>0, <1>7, StepErase
<1>8. CASE Sync
  BY <1>0, <1>8, AfterFlushOk, AfterFlushCorrupt DEF Sync
<1>9. CASE PowerLoss
  BY <1>0, <1>9, StepPowerLoss
<1>10. CASE UNCHANGED vars
  BY <1>0, <1>10 DEF vars, IInv, CacheCovers, CacheAgrees, ReadsOwnWrites, View,
                     VerifiedIsDurable, OnlyCachedPending
<1> QED BY <1>1, <1>2, <1>3, <1>4, <1>5, <1>6, <1>7, <1>8, <1>9, <1>10 DEF Next

\* Every state of the adapter is well typed and a pending window has a
\* target, whatever a failed read does to the buffer (nor.rs, flush).
THEOREM NorTypes == Spec => []TypeOK
<1>1. Init => TypeOK
  BY InitIInv DEF IInv
<1> QED BY <1>1, TypeStep, PTL DEF Spec

LEMMA NorInvariant == ReadsAreClean /\ Spec => []IInv
<1>1. ReadsAreClean => ReadsAreClean'
  BY DEF ReadsAreClean
<1> QED BY <1>1, InitIInv, StepIInv, PTL DEF Spec

\* A cell whose programs and erases returned Ok reads as they left it, on
\* every chip whose failed reads leave their buffer alone (nor.rs, read).
THEOREM NorReadsOwnWrites == ReadsAreClean /\ Spec => []ReadsOwnWrites
<1>1. IInv => ReadsOwnWrites
  BY DEF IInv
<1> QED BY <1>1, NorInvariant, PTL

\* A cell that read_device confirmed stays on the chip through switches,
\* failed flushes and power cuts (nor.rs, read_device and flush).
THEOREM NorVerifiedIsDurable == ReadsAreClean /\ Spec => []VerifiedIsDurable
<1>1. IInv => VerifiedIsDurable
  BY DEF IInv
<1> QED BY <1>1, NorInvariant, PTL

\* Nothing but the cached window is ever pending, so a sync makes everything
\* durable (nor.rs, load_window and sync).
THEOREM NorOnlyCachedPending == ReadsAreClean /\ Spec => []OnlyCachedPending
<1>1. IInv => OnlyCachedPending
  BY DEF IInv
<1> QED BY <1>1, NorInvariant, PTL
=============================================================================
