------------------------- MODULE MCSemSingleConsumer -------------------------
(* Values for model checking SemSingleConsumer. *)
EXTENDS SemSingleConsumer
MCItems == {-1, 1, 5}
=============================================================================
