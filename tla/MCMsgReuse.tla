------------------------------ MODULE MCMsgReuse ------------------------------
(* Values for model checking MsgReuse. *)
EXTENDS MsgReuse
CONSTANTS c1, c2, c3
MCClients == {c1, c2, c3}
\* The clients are alike, so their files come in the order of the lengths.  One
\* at most has lines, more than fit into a queue; the others get one message
\* with the end behind it, or the end alone.
MCFiles == {f \in [MCClients -> {-1, 0, 3}] :
              f[c1] =< f[c2] /\ f[c2] =< f[c3] /\ f[c2] =< 0}
=============================================================================
