----------------------------- MODULE MCGeometry -----------------------------
(* Geometry with sizes for the client that differ from the server's.       *)
EXTENDS Geometry

OtherSizes == {Sizes, [grain |-> 3, chunk |-> 1]}
=============================================================================
