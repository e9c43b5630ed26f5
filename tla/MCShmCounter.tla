----------------------------- MODULE MCShmCounter -----------------------------
(* Values for model checking ShmCounter. *)
EXTENDS ShmCounter
CONSTANTS c1, c2, s1, s2
TwoClients == {c1, c2}
TwoServers == {s1, s2}
=============================================================================
