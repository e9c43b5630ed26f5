----------------------------- MODULE MCRecordLock -----------------------------
(* Values for model checking RecordLock. *)
EXTENDS RecordLock
CONSTANTS p1, p2
Two == {p1, p2}
MCNumbers == {1}
MCGarbage == {-3, 7}
=============================================================================
