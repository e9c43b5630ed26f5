---------------------------- MODULE MCFileServers ----------------------------
(* Values for model checking FileServers. *)
EXTENDS FileServers
CONSTANTS c1, c2, server
MCClients == {c1, c2}
MCLines == {NoNewline, NoPath, NoFile, 0, 3}
=============================================================================
