--------------------------- MODULE MCSharedWallet ---------------------------
(* SharedWallet for TLC.  Fresh chooses among positions that differ in     *)
(* nothing, so that positions, like calls, may be permuted.                *)
EXTENDS SharedWallet, TLC

Symmetry == Permutations(Position) \cup Permutations(Call)
=============================================================================
