-------------------------- MODULE MCDirtyTracking --------------------------
(* DirtyTracking with symmetric writers, for TLC.                          *)
EXTENDS DirtyTracking, TLC

WriterSymmetry == Permutations(Writers)
=============================================================================
