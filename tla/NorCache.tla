------------------------------ MODULE NorCache ------------------------------
(***************************************************************************)
(* NorAlignedStorage (nor.rs): the adapter between the kernel, which       *)
(* programs byte ranges, and a chip that programs whole windows.  It holds *)
(* one window in RAM, merges programs into it, writes it out when another  *)
(* window is touched, and answers reads with it.                           *)
(*                                                                         *)
(* A cell is one bit: 1 erased, 0 programmed.  A program clears bits and   *)
(* sets none, so merging is the minimum.                                   *)
(***************************************************************************)
EXTENDS Integers, Sequences, FiniteSets

CONSTANTS Blocks,          \* erase blocks
          NumWindows,      \* windows in a block
          Cells,           \* cells in a window
          Clobbers,        \* may a read that fails have filled its buffer
          MaxPrograms, MaxFaults, MaxReadFaults, MaxCrashes,   \* bounds
          None, Lost

ASSUME NorAssumption ==
    /\ NumWindows \in Nat \ {0} /\ Clobbers \in BOOLEAN /\ MaxPrograms \in Nat /\ MaxFaults \in Nat
    /\ MaxReadFaults \in Nat /\ MaxCrashes \in Nat
    /\ None \notin Blocks \X (0 .. NumWindows - 1) /\ Lost \notin {0, 1}

VARIABLES flash,     \* window -> the cells of the chip
          cached,    \* cached_block and cached_off: a window, or None
          cache,     \* the cells of the cached window
          dirty,     \* was the cache modified since it was loaded
          job,       \* what is left of a program call: <<window, data>> ...
          want,      \* window -> what the kernel was told it holds, or Lost
          sure,      \* <<window, cell, bit>>: confirmed by a read of the chip
          ok,        \* did the last call return Ok
          programs, faults, readFaults, crashes    \* counters for the bounds

vars == <<flash, cached, cache, dirty, job, want, sure, ok,
          programs, faults, readFaults, crashes>>

Windows == Blocks \X (0 .. NumWindows - 1)
Row     == [Cells -> {0, 1}]
Erased  == [c \in Cells |-> 1]
Unknown == [c \in Cells |-> Lost]

And(r, s) == [c \in Cells |-> IF r[c] = 0 \/ s[c] = 0 THEN 0 ELSE 1]

Init ==
    /\ flash = [w \in Windows |-> Erased]
    /\ cached = None /\ cache = Erased /\ dirty = FALSE
    /\ job = <<>>
    /\ want = [w \in Windows |-> Erased]
    /\ sure = {} /\ ok = TRUE
    /\ programs = 0 /\ faults = 0 /\ readFaults = 0 /\ crashes = 0

----------------------------------------------------------------------------
(* The chip, as the Storage trait has it.                                  *)

\* A program of row over old that fails: any of its cells may have landed.
Torn(old, row) == {r \in Row : \A c \in Cells : r[c] = old[c] \/ r[c] = And(old, row)[c]}

----------------------------------------------------------------------------
(* flush: dirty is cleared first, and a window that cannot be written is   *)
(* dropped.  What the kernel put there is lost to it with the error.       *)

FlushOk ==
    /\ flash' = IF dirty THEN [flash EXCEPT ![cached] = And(@, cache)] ELSE flash
    /\ UNCHANGED <<want, faults>>

\* The chip accepts the window and keeps something else of it.
FlushCorrupt ==
    /\ dirty /\ faults < MaxFaults /\ faults' = faults + 1
    /\ \E r \in Torn(flash[cached], cache) :
          /\ r # And(flash[cached], cache)
          /\ flash' = [flash EXCEPT ![cached] = r]
          /\ want' = [want EXCEPT ![cached] =
                        [c \in Cells |-> IF r[c] = And(flash[cached], cache)[c]
                                         THEN @[c] ELSE Lost]]

FlushErr ==
    /\ dirty /\ faults < MaxFaults /\ faults' = faults + 1
    /\ \E r \in Torn(flash[cached], cache) : flash' = [flash EXCEPT ![cached] = r]
    /\ want' = [want EXCEPT ![cached] =
                  [c \in Cells |-> IF cache[c] = flash[cached][c] THEN @[c] ELSE Lost]]
    /\ cached' = None /\ dirty' = FALSE

----------------------------------------------------------------------------
(* program: one step for each window of the range.                         *)

\* The kernel programs cells of one block that are erased.
ProgramCall ==
    /\ job = <<>> /\ programs < MaxPrograms /\ programs' = programs + 1
    /\ \E b \in Blocks, first \in 0 .. NumWindows - 1, n \in 1 .. 2 :
          /\ first + n <= NumWindows
          /\ \E rows \in [1 .. n -> Row \ {Erased}] :
                /\ \A i \in 1 .. n, c \in Cells :
                      rows[i][c] = 0 => want[<<b, first + i - 1>>][c] = 1
                /\ job' = [i \in 1 .. n |-> <<<<b, first + i - 1>>, rows[i]>>]
    /\ UNCHANGED <<flash, cached, cache, dirty, want, sure, ok, faults, readFaults, crashes>>

Holds(w) == cached = w

\* Mutant: the window is read again although it is held.
MergeReloaded ==
    /\ job # <<>> /\ Holds(job[1][1])
    /\ cache' = And(flash[cached], job[1][2]) /\ dirty' = TRUE
    /\ want' = [want EXCEPT ![job[1][1]] = [c \in Cells |-> IF job[1][2][c] = 0 THEN 0 ELSE @[c]]]
    /\ sure' = {x \in sure : x[1] = job[1][1] => job[1][2][x[2]] = 1}
    /\ job' = Tail(job) /\ ok' = TRUE
    /\ UNCHANGED <<flash, cached, programs, faults, readFaults, crashes>>

\* load_window finds the window in RAM: the pending bytes stay.
Merge ==
    /\ job # <<>> /\ Holds(job[1][1])
    /\ cache' = And(cache, job[1][2]) /\ dirty' = TRUE
    /\ want' = [want EXCEPT ![job[1][1]] = [c \in Cells |-> IF job[1][2][c] = 0 THEN 0 ELSE @[c]]]
    /\ sure' = {x \in sure : x[1] = job[1][1] => job[1][2][x[2]] = 1}
    /\ job' = Tail(job) /\ ok' = TRUE
    /\ UNCHANGED <<flash, cached, programs, faults, readFaults, crashes>>

\* load_window flushes, reads the other window, and the data is merged.
Switch ==
    LET w == job[1][1]
    IN  /\ job # <<>> /\ ~Holds(w)
        /\ FlushOk
        /\ cached' = w /\ cache' = flash'[w] /\ dirty' = FALSE
        /\ UNCHANGED <<job, sure, ok, programs, readFaults, crashes>>

SwitchCorrupt ==
    LET w == job[1][1]
    IN  /\ job # <<>> /\ ~Holds(w)
        /\ FlushCorrupt
        /\ cached' = w /\ cache' = flash'[w] /\ dirty' = FALSE
        /\ UNCHANGED <<job, sure, ok, programs, readFaults, crashes>>

\* The flush of the window before fails: the error is this program's.
SwitchErr ==
    /\ job # <<>> /\ ~Holds(job[1][1])
    /\ FlushErr
    /\ job' = <<>> /\ ok' = FALSE
    /\ UNCHANGED <<cache, sure, programs, readFaults, crashes>>

\* The read of the other window fails, behind a flush that went well.  The
\* buffer it reads into is the cache, whose window is still the one before.
LoadErr ==
    /\ job # <<>> /\ ~Holds(job[1][1])
    /\ readFaults < MaxReadFaults /\ readFaults' = readFaults + 1
    /\ FlushOk
    /\ dirty' = FALSE
    /\ cache' \in {cache} \cup IF Clobbers THEN {flash[job[1][1]]} ELSE {}
    /\ job' = <<>> /\ ok' = FALSE
    /\ UNCHANGED <<cached, sure, programs, crashes>>

----------------------------------------------------------------------------
(* The other calls.                                                        *)

\* read
View(w) == IF cached = w THEN cache ELSE flash[w]

\* Mutant: the pending window is not written before the chip is asked.
ReadDeviceUnflushed(w) ==
    /\ job = <<>>
    /\ sure' = sure \cup {<<w, c, View(w)[c]>> : c \in {x \in Cells : View(w)[x] = want[w][x]}}
    /\ ok' = TRUE
    /\ UNCHANGED <<flash, cached, cache, dirty, job, want, programs, faults, readFaults, crashes>>

\* read_device of one window: the overlapping pending bytes are flushed and
\* the chip answers.  The kernel trusts the cells that read as it left them.
ReadDevice(w) ==
    /\ job = <<>>
    /\ IF dirty /\ cached = w
       THEN (FlushOk \/ FlushCorrupt) /\ dirty' = FALSE
       ELSE UNCHANGED <<flash, want, dirty, faults>>
    /\ sure' = sure \cup {<<w, c, want[w][c]>> : c \in {x \in Cells : flash'[w][x] = want[w][x]}}
    /\ ok' = TRUE
    /\ UNCHANGED <<cached, cache, job, programs, readFaults, crashes>>

\* Mutant: a pending window of the block stays pending without a target.
EraseKeepsDirty(b) ==
    /\ job = <<>>
    /\ IF cached # None /\ cached \in {b} \X (0 .. NumWindows - 1)
       THEN cached' = None ELSE UNCHANGED cached
    /\ flash' = [w \in Windows |-> IF w[1] = b THEN Erased ELSE flash[w]]
    /\ want' = [w \in Windows |-> IF w[1] = b THEN Erased ELSE want[w]]
    /\ sure' = {x \in sure : x[1][1] # b}
    /\ ok' = TRUE
    /\ UNCHANGED <<cache, dirty, job, programs, faults, readFaults, crashes>>

\* erase, of a block: a pending window of it is dropped.
Erase(b) ==
    /\ job = <<>>
    /\ IF cached # None /\ cached \in {b} \X (0 .. NumWindows - 1)
       THEN cached' = None /\ dirty' = FALSE ELSE UNCHANGED <<cached, dirty>>
    /\ flash' = [w \in Windows |-> IF w[1] = b THEN Erased ELSE flash[w]]
    /\ want' = [w \in Windows |-> IF w[1] = b THEN Erased ELSE want[w]]
    /\ sure' = {x \in sure : x[1][1] # b}
    /\ ok' = TRUE
    /\ UNCHANGED <<cache, job, programs, faults, readFaults, crashes>>

EraseErr(b) ==
    /\ job = <<>> /\ faults < MaxFaults /\ faults' = faults + 1
    /\ IF cached # None /\ cached \in {b} \X (0 .. NumWindows - 1)
       THEN cached' = None /\ dirty' = FALSE ELSE UNCHANGED <<cached, dirty>>
    /\ want' = [w \in Windows |-> IF w[1] = b THEN Unknown ELSE want[w]]
    /\ sure' = {x \in sure : x[1][1] # b}
    /\ ok' = FALSE
    /\ UNCHANGED <<flash, cache, job, programs, readFaults, crashes>>

\* Mutant: the window is dropped instead of written.
SyncDropping ==
    /\ job = <<>>
    /\ cached' = None /\ dirty' = FALSE
    /\ ok' = TRUE
    /\ UNCHANGED <<flash, cache, job, want, sure, programs, faults, readFaults, crashes>>

\* sync and into_inner
Sync ==
    /\ job = <<>>
    /\ FlushOk \/ FlushCorrupt
    /\ dirty' = FALSE /\ ok' = TRUE
    /\ UNCHANGED <<cached, cache, job, sure, programs, readFaults, crashes>>

\* A flush that fails inside read_device or sync.
FlushFails ==
    /\ job = <<>>
    /\ FlushErr
    /\ ok' = FALSE
    /\ UNCHANGED <<cache, job, sure, programs, readFaults, crashes>>

\* Power is lost: what was pending is gone, or was just being written.
PowerLoss ==
    /\ crashes < MaxCrashes /\ crashes' = crashes + 1
    /\ IF dirty
       THEN \E r \in Torn(flash[cached], cache) : flash' = [flash EXCEPT ![cached] = r]
       ELSE UNCHANGED flash
    /\ want' = [w \in Windows |-> [c \in Cells |->
                  IF want[w][c] = flash'[w][c] THEN want[w][c] ELSE Lost]]
    /\ cached' = None /\ cache' = Erased /\ dirty' = FALSE
    /\ job' = <<>> /\ ok' = TRUE
    /\ UNCHANGED <<sure, programs, faults, readFaults>>

Next ==
    \/ ProgramCall \/ Merge \/ Switch \/ SwitchCorrupt \/ SwitchErr \/ LoadErr
    \/ \E w \in Windows : ReadDevice(w)
    \/ \E b \in Blocks : Erase(b) \/ EraseErr(b)
    \/ Sync \/ FlushFails \/ PowerLoss

Spec == Init /\ [][Next]_vars

----------------------------------------------------------------------------
(* Properties.                                                             *)

TypeOK ==
    /\ flash \in [Windows -> Row] /\ cache \in Row
    /\ cached \in Windows \cup {None} /\ dirty \in BOOLEAN
    /\ dirty => cached # None          \* flush: "dirty cache must have a target"
    /\ want \in [Windows -> [Cells -> {0, 1, Lost}]]
    /\ sure \subseteq Windows \X Cells \X {0, 1}
    /\ job \in Seq(Windows \X Row)

\* "Reads splice that window in, so a caller sees its own pending bytes":
\* whatever the order of programs, window switches, errors and erases, a
\* cell whose program and erase calls returned Ok reads as they left it.
ReadsOwnWrites ==
    \A w \in Windows, c \in Cells : want[w][c] # Lost => View(w)[c] = want[w][c]

\* A cell that verify_programmed has seen on the chip is not lost again: it
\* stays as it was through programs of its neighbours, window switches,
\* errors and power cuts, until it is programmed itself or erased.
VerifiedIsDurable == \A x \in sure : flash[x[1]][x[2]] = x[3]

\* A window without pending bytes is on the chip as the kernel believes it
\* is, and nothing but the one cached window is ever pending: a sync, which
\* leaves none, makes everything durable.
OnlyCachedPending ==
    \A w \in Windows, c \in Cells :
        (want[w][c] # Lost /\ ~(dirty /\ cached = w)) => flash[w][c] = want[w][c]
=============================================================================
