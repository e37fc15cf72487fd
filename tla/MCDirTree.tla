----------------------------- MODULE MCDirTree -----------------------------
(* Instances of DirTree for TLC.                                           *)
EXTENDS DirTree, TLC

Unit == [n \in Dirs \cup Files \cup {SuperName} |-> 1]

\* No files to start with.
Bare(n) == [i \in 0 .. n |-> <<>>]

Names == Dirs \cup Files

\* Two sibling directories: every operation, power lost once, no relocation.
Crash == [dirs |-> <<"A", "B">>, nested |-> FALSE, files |-> Bare(2), makes |-> Names,
          movable |-> Names, half |-> 100, whole |-> 200, pairs |-> 32, cycles |-> 0, carryOn |-> FALSE, ops |-> 3, crashes |-> 1, faults |-> 0]

\* Relocations among siblings, a worn block, no power loss.
Cascade == [Crash EXCEPT !.movable = {"f"}, !.cycles = 1, !.crashes = 0, !.faults = 1]

\* Relocations up a path, power lost once.
Nested == [Crash EXCEPT !.nested = TRUE, !.movable = {"f"}, !.cycles = 1, !.ops = 2]

TreeSetups == {Crash, Cascade, Nested}

\* One directory: relocations, a worn block, and power lost again in the
\* recovery.
OneDir == [dirs |-> <<"A">>, nested |-> FALSE, files |-> Bare(1), makes |-> {"A", "f"},
           movable |-> {"A", "f"}, half |-> 100, whole |-> 200, pairs |-> 32, cycles |-> 1, carryOn |-> FALSE, ops |-> 2, crashes |-> 2, faults |-> 1]

\* Directories of two entries, half a block: the next entry splits them.
\* Power lost once.
Split == [dirs |-> <<"A">>, nested |-> FALSE, files |-> (0 :> <<>> @@ 1 :> <<"f", "g">>),
          makes |-> {"h"}, movable |-> {"f"}, half |-> 2, whole |-> 4, pairs |-> 5, cycles |-> 0, carryOn |-> FALSE,
          ops |-> 3, crashes |-> 1, faults |-> 0]

SplitMkdir == [Split EXCEPT !.makes = {"B", "C"}, !.ops = 2]

\* A split directory is emptied and removed.
SplitEmptied == [Split EXCEPT !.movable = {}, !.ops = 5]

\* A split with a worn block, and power lost again in the recovery.
SplitWorn == [Split EXCEPT !.ops = 1, !.crashes = 2, !.faults = 1]

\* Splits among wear relocations.
SplitWear == [Split EXCEPT !.movable = {}, !.cycles = 1, !.crashes = 0]

\* A full block: two cuts, on a device that has just the blocks for them,
\* so that a worn block leaves none.
SplitTwice == [Split EXCEPT !.dirs = <<"A", "B", "C">>, !.nested = TRUE, !.makes = {"i"},
                 !.movable = {}, !.pairs = 6, !.ops = 1, !.faults = 1,
                 !.files = (0 :> <<>> @@ 1 :> <<"f", "g", "h">> @@ 2 :> <<>> @@ 3 :> <<"f">>)]

\* The root splits, or a worn block stops it.
SplitRoot == [Split EXCEPT !.files = (0 :> <<"f">> @@ 1 :> <<"g">>), !.movable = {},
                 !.ops = 2, !.faults = 1]

\* Up to the budget of pairs.
Budget == [Split EXCEPT !.dirs = <<"A", "B">>, !.nested = TRUE, !.files = Bare(2),
              !.makes = {"C", "D"}, !.movable = {}, !.crashes = 0]

SplitSetups == {OneDir, Split, SplitMkdir, SplitEmptied, SplitWorn, SplitWear, SplitTwice, SplitRoot, Budget}

\* One directory and one call more: a configuration of its own, for its size.
OneDirLonger == {[OneDir EXCEPT !.ops = 3]}

\* Instances that a stated intent of the code does not survive.
HalfOrphanMove     == {[Crash EXCEPT !.ops = 2, !.faults = 1]}
HalfOrphanRecovery == {[Nested EXCEPT !.nested = FALSE, !.ops = 1]}
MovedDirRelocates  == {[Cascade EXCEPT !.movable = Names, !.ops = 2]}
NestedRelocation   == {[Cascade EXCEPT !.ops = 2]}
RenameError        == {[Crash EXCEPT !.movable = {"f"}, !.carryOn = TRUE, !.faults = 1]}
FullDir            == [Split EXCEPT !.dirs = <<"A", "B">>, !.nested = TRUE, !.movable = {}, !.ops = 1,
                         !.files = (0 :> <<>> @@ 1 :> <<"f", "g", "h">> @@ 2 :> <<>>)]
SweepSplits        == {[FullDir EXCEPT !.makes = {}]}
SplitInflight      == {[SplitRoot EXCEPT !.files = (0 :> <<"f">> @@ 1 :> <<"g", "h">>),
                                         !.makes = {"i"}, !.ops = 1, !.crashes = 0]}
SplitMove          == {[SplitRoot EXCEPT !.makes = {}, !.movable = {"f"}, !.ops = 1, !.crashes = 0,
                                         !.cycles = 1]}
BudgetCuts         == {[FullDir EXCEPT !.makes = {"C"}, !.crashes = 0]}
BudgetRelocates    == {[Budget EXCEPT !.cycles = 1]}
=============================================================================
