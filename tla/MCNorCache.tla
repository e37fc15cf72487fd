---------------------------- MODULE MCNorCache ----------------------------
(* NorCache with two blocks of two windows of two cells.                   *)
EXTENDS NorCache, TLC

Perms == Permutations(Blocks) \cup Permutations(Cells)
=============================================================================
