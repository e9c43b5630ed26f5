---------------------------- MODULE MCShmMessages ----------------------------
(* Values for model checking ShmMessages. *)
EXTENDS ShmMessages
CONSTANTS c1, c2
Two == {c1, c2}
=============================================================================
