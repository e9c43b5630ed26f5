---------------------------- MODULE MCMultiBuffer ----------------------------
(* Values for model checking MultiBuffer. *)
EXTENDS MultiBuffer
MCLengths == 0 .. 5
=============================================================================
