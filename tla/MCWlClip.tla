------------------------------ MODULE MCWlClip ------------------------------
(* The copier's bytes fit and may be read in pieces, the other client's do *)
(* not fit; it does up to two things, in either order with all the rest.   *)
EXTENDS WlClip
=============================================================================
