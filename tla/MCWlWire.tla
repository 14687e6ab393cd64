------------------------------ MODULE MCWlWire ------------------------------
(* Messages longer than the socket's room and events as long as inbuf.     *)
EXTENDS WlWire
=============================================================================
