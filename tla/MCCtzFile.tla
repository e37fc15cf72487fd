----------------------------- MODULE MCCtzFile -----------------------------
(* CtzFile with blocks of five cells: the first blocks of a file hold      *)
(* five, four and three cells of it (block_index_at_offset is exact up to  *)
(* there; with the 32 cells of the smallest block the code accepts it is    *)
(* exact as far as MCCtz looks).                                           *)
EXTENDS CtzFile

PathCalls   == {"append", "rewrite", "truncate"}
HandleCalls == {"open", "write", "set_len"}
WriteCalls  == {"open", "write"}
AnyCalls    == PathCalls \cup HandleCalls
=============================================================================
