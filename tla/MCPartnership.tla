--------------------------- MODULE MCPartnership ---------------------------
(* Partnership with the descriptors that the bound on connections needs.   *)
EXTENDS Partnership

MCFds == 0 .. MaxConns
=============================================================================
