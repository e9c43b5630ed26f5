----------------------------- MODULE AnswerService -----------------------------
(***************************************************************************)
(* What a server that answers path names with files promises its clients,  *)
(* without queues, children, signals or restarts: a client asks once, its  *)
(* request is taken up at most once, and from then on the lines of its     *)
(* answer reach it in order and each of them once, whatever happens to the *)
(* others.  MsgReuse implements it.                                        *)
(***************************************************************************)
EXTENDS Integers, Sequences

CONSTANTS Clients, Line

VARIABLES answer,    \* what each client is to be told, a sequence of lines, fixed
          stage,     \* how far each client is
          serving,   \* the clients whose request was taken up
          sent,      \* what was sent to each: lines, and the end of the answer
          printed    \* the lines that each has printed
vars == <<answer, stage, serving, sent, printed>>

Init == /\ answer \in [Clients -> Seq(Line)]
        /\ stage = [c \in Clients |-> "idle"] /\ serving = {}
        /\ sent = [c \in Clients |-> 0] /\ printed = [c \in Clients |-> <<>>]

Becomes(c, from, to) == stage[c] \in from /\ stage' = [stage EXCEPT ![c] = to]

Ask(c) == /\ Becomes(c, {"idle"}, "waiting")
          /\ UNCHANGED <<answer, serving, sent, printed>>

\* a request need not be taken up: its server may end
TakeUp(c) == /\ stage[c] # "idle" /\ c \notin serving
             /\ serving' = serving \cup {c}
             /\ UNCHANGED <<answer, stage, sent, printed>>

Tell(c) == /\ c \in serving /\ sent[c] =< Len(answer[c])
           /\ sent' = [sent EXCEPT ![c] = @ + 1]
           /\ UNCHANGED <<answer, stage, serving, printed>>

Show(c) == LET n == Len(printed[c]) + 1 IN
            /\ stage[c] = "waiting" /\ n =< Len(answer[c]) /\ n =< sent[c]
            /\ printed' = [printed EXCEPT ![c] = Append(@, answer[c][n])]
            /\ UNCHANGED <<answer, stage, serving, sent>>

Finish(c) == /\ Becomes(c, {"waiting"}, "done")
             /\ sent[c] = Len(answer[c]) + 1 /\ printed[c] = answer[c]
             /\ UNCHANGED <<answer, serving, sent, printed>>

Die(c) == /\ Becomes(c, {"waiting", "done"}, "gone")
          /\ UNCHANGED <<answer, serving, sent, printed>>

Next == \E c \in Clients : Ask(c) \/ TakeUp(c) \/ Tell(c) \/ Show(c) \/ Finish(c) \/ Die(c)
Spec == Init /\ [][Next]_vars
=============================================================================
