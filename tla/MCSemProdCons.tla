---------------------------- MODULE MCSemProdCons ----------------------------
(* Values for model checking SemProdCons. *)
EXTENDS SemProdCons
MCItems == {-1, 0, 1, 3}
=============================================================================
