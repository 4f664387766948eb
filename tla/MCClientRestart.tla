--------------------------- MODULE MCClientRestart ---------------------------
(* ClientRestart with the bitmaps that TLC tries.                          *)
EXTENDS ClientRestart

SomeFirst == {b \in SUBSET Grains : b \cap FirstWord # {}}
NonEmpty  == SUBSET Grains \ {{}}
=============================================================================
