---------------------------- MODULE MCMetaPair ----------------------------
(* Instances of MetaPair for TLC.                                          *)
EXTENDS MetaPair, TLC

\* No action orders or computes with blocks or values: each is
\* interchangeable with the others.
Symmetry == Permutations(Blocks) \cup Permutations(Vals)
=============================================================================
