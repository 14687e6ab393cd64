----------------------------- MODULE MCWlBuffers -----------------------------
(* Two sizes, the two buffers the programs have, and a window dragged      *)
(* twice after the size it is first told: a third pool is built while      *)
(* releases of the first are on their way.                                 *)
EXTENDS WlBuffers

MCSizes == {"small", "large"}
MCFirst == "small"
=============================================================================
