---------------------------- MODULE MCKillSwitch ----------------------------
(* Small instances of KillSwitch for TLC. *)
EXTENDS KillSwitch, TLC

Symmetry == Permutations(Callers) \cup Permutations(Inodes)
=============================================================================
