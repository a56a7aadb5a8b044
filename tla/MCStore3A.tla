----------------------------- MODULE MCStore3A -----------------------------
(* Small instances of Store3A for TLC.                                     *)
EXTENDS Store3AInv, TLC

BlockSymmetry == Permutations(Blocks)

=============================================================================
