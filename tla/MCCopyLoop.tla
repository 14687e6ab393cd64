----------------------------- MODULE MCCopyLoop -----------------------------
(* Pages of three and eight offsets: files shorter than a page, a page and *)
(* a piece, the last two lengths whose offsets can all be sent, and the    *)
(* first two whose cannot.                                                 *)
EXTENDS CopyLoop

MCSizes == 0..9
=============================================================================
