--------------------------- MODULE MCMutexProdCons ---------------------------
(* Values for model checking MutexProdCons. *)
EXTENDS MutexProdCons
MCItems == {-1, 1, 4}
=============================================================================
