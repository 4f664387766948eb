---------------------------- MODULE MCWinFilter ----------------------------
(* Model values for WinFilter. *)
EXTENDS WinFilter, TLC

VolumeSymmetry == Permutations(Volumes)
=============================================================================
