---------------------------- MODULE MCKillCancel ----------------------------
(* Small instances of KillCancel for TLC. *)
EXTENDS KillCancel, TLC

Symmetry == Permutations(Orders)
=============================================================================
