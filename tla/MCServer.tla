------------------------------ MODULE MCServer ------------------------------
(* Three sessions on two end points, so that one end point is used again. *)
EXTENDS Server

MCSessions == 1 .. 3
=============================================================================
