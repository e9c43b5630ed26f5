------------------------------- MODULE MsgReuse -------------------------------
(***************************************************************************)
(* 6_chapter/server-reuse.c and client-reuse.c over System V message       *)
(* queues: requests go into one well-known queue, each client makes a      *)
(* private queue for the answer.  The server forks a child per request,    *)
(* which sends the lines of the file and an empty message; sig_chld reaps  *)
(* the children while the parent waits in msgrcv.                          *)
(*                                                                         *)
(* The queues outlive every process.  The server may end in err_sys and is *)
(* then started again, up to MaxRuns times; a client may be killed.        *)
(* A line of the file of client c is the message <<c, k>>, the error text  *)
(* "can't open" is <<c, 0>>.                                               *)
(***************************************************************************)
EXTENDS Integers, Sequences, FiniteSets, SequencesExt

CONSTANTS Clients,
          QMax,       \* messages a queue holds
          Files,      \* the files considered: each client's, by its length
                      \* in lines, -1 for a missing one
          MaxRuns     \* how often the server is started (bound)

ASSUME QMaxAssumption  == QMax \in Nat \ {0} /\ MaxRuns \in Nat \ {0}
ASSUME FilesAssumption == Files \subseteq [Clients -> Nat \cup {-1}] /\ IsFiniteSet(Clients)

Bogus == "bogus"             \* a request without a blank in it
End   == <<"end", 0>>        \* the 0-length message

\* a client is neither of the two
ASSUME NamesAssumption == {Bogus, "end"} \cap Clients = {}

VARIABLES lines,                 \* the file each client asks for, fixed
          queue,                 \* the well-known queue
          answers,               \* the private queues, by client
          removed,               \* private queues that are no more
          spc, errno, sigchld,   \* the parent; sigchld: SIGCHLD is pending
          req, runs,             \* the request in mesg, the runs so far
          children,              \* the children, in the order of the forks
          cpc, printed           \* the clients

parent == <<spc, errno, sigchld, req, runs>>
client == <<cpc, printed>>
queues == <<queue, answers, removed>>
vars   == <<lines, queues, parent, children, client>>

Pids == DOMAIN children
Answer(c) == IF lines[c] = -1 THEN << <<c, 0>> >> ELSE [k \in 1 .. lines[c] |-> <<c, k>>]

SLabels  == {"recv", "failed", "fork", "exit"}
ChLabels == {"send", "zombie", "gone"}
CLabels  == {"send", "recv", "remove", "exit", "killed"}

\* the queue may still hold a request of another program
Init ==
  /\ lines \in Files
  /\ queue \in {<<>>, <<Bogus>>} /\ answers = [c \in Clients |-> <<>>] /\ removed = {}
  /\ spc = "recv" /\ errno = "" /\ sigchld = FALSE /\ req = Bogus /\ runs = 1
  /\ children = <<>>
  /\ cpc = [c \in Clients |-> "send"] /\ printed = [c \in Clients |-> <<>>]

-----------------------------------------------------------------------------
(* The parent *)

\* without the continue after "bogus request"
RecvBogus ==
  /\ spc = "recv" /\ queue # <<>>
  /\ req' = Head(queue) /\ queue' = Tail(queue)
  /\ spc' = "fork"
  /\ UNCHANGED <<lines, answers, removed, errno, sigchld, runs, children, client>>

\* msgrcv returns a request; a bogus one is only reported
Recv ==
  /\ spc = "recv" /\ queue # <<>>
  /\ req' = Head(queue) /\ queue' = Tail(queue)
  /\ spc' = IF req' = Bogus THEN "recv" ELSE "fork"
  /\ UNCHANGED <<lines, answers, removed, errno, sigchld, runs, children, client>>

Fork ==
  /\ spc = "fork" /\ spc' = "recv"
  /\ children' = Append(children, [pc |-> "send", to |-> req, sent |-> 0, mine |-> TRUE])
  /\ UNCHANGED <<lines, queues, errno, sigchld, req, runs, client>>

Mine(S) == {k \in Pids : children[k].mine /\ children[k].pc \in S}

\* if for while: one child is waited for
ReapOne ==
  children' = IF Mine({"zombie"}) = {} THEN children
              ELSE [children EXCEPT ![CHOOSE k \in Mine({"zombie"}) : TRUE].pc = "gone"]

\* waitpid until no child has ended; with no child left it sets errno
Reap ==
  children' = [k \in Pids |-> IF k \in Mine({"zombie"})
                              THEN [children[k] EXCEPT !.pc = "gone"] ELSE children[k]]

\* sig_chld runs.  It may have interrupted a blocked msgrcv, which then returns
\* -1, errno set when the handler is over; elsewhere it may change errno.
SigChld ==
  /\ sigchld /\ spc # "exit" /\ sigchld' = FALSE
  /\ Reap
  /\ \/ spc = "recv" /\ spc' = "failed" /\ errno' = "EINTR"
     \/ /\ errno' = IF Mine({"send"}) = {} THEN "ECHILD" ELSE errno
        /\ UNCHANGED spc
  /\ UNCHANGED <<lines, queues, req, runs, client>>

\* Mesg_recv tries again after EINTR only; err_sys ends the parent, and its
\* children are no longer waited for by it
Retry ==
  /\ spc = "failed"
  /\ \/ errno = "EINTR" /\ spc' = "recv" /\ UNCHANGED <<sigchld, children>>
     \/ /\ errno # "EINTR" /\ spc' = "exit" /\ sigchld' = FALSE
        /\ children' = [k \in Pids |-> [children[k] EXCEPT !.mine = FALSE]]
  /\ UNCHANGED <<lines, queues, errno, req, runs, client>>

\* somebody starts the server again: msgget finds the old queue
Restart ==
  /\ spc = "exit" /\ runs < MaxRuns
  /\ spc' = "recv" /\ runs' = runs + 1 /\ errno' = "" /\ req' = Bogus
  /\ UNCHANGED <<lines, queues, sigchld, children, client>>

Server == Recv \/ Fork \/ SigChld \/ Retry

-----------------------------------------------------------------------------
(* A child *)

\* what the child sends next
Message(ch) == LET a == Answer(ch.to) IN IF ch.sent < Len(a) THEN a[ch.sent + 1] ELSE End

\* Mesg_send blocks while the queue is full, and fails without it; after the
\* empty message, or the failure, the child exits
ChildDies(k) ==
  /\ children' = [children EXCEPT ![k].pc = "zombie"]
  /\ sigchld' = IF children[k].mine THEN TRUE ELSE sigchld

\* the empty message is forgotten when the file cannot be opened
ChildNoEnd(k) ==
  LET ch == children[k] IN
  /\ ch.pc = "send"
  /\ \/ /\ ch.to \in removed /\ ChildDies(k) /\ UNCHANGED answers
     \/ /\ ch.to \notin removed /\ Len(answers[ch.to]) < QMax
        /\ answers' = [answers EXCEPT ![ch.to] = Append(@, Message(ch))]
        /\ IF Message(ch) = End \/ lines[ch.to] = -1
           THEN ChildDies(k)
           ELSE children' = [children EXCEPT ![k].sent = @ + 1] /\ UNCHANGED sigchld
  /\ UNCHANGED <<lines, queue, removed, spc, errno, req, runs, client>>

\* the child looks at the request the parent has now
ChildSharesRequest(k) ==
  LET ch == children[k]
      m  == IF ch.sent < Len(Answer(ch.to)) THEN Message(ch) ELSE End
      to == IF req = Bogus THEN ch.to ELSE req IN
  /\ ch.pc = "send" /\ to \notin removed /\ Len(answers[to]) < QMax
  /\ answers' = [answers EXCEPT ![to] = Append(@, m)]
  /\ IF m = End THEN ChildDies(k)
     ELSE children' = [children EXCEPT ![k].sent = @ + 1] /\ UNCHANGED sigchld
  /\ UNCHANGED <<lines, queue, removed, spc, errno, req, runs, client>>

Child(k) ==
  LET ch == children[k] IN
  /\ ch.pc = "send"
  /\ \/ /\ ch.to \in removed /\ ChildDies(k) /\ UNCHANGED answers
     \/ /\ ch.to \notin removed /\ Len(answers[ch.to]) < QMax
        /\ answers' = [answers EXCEPT ![ch.to] = Append(@, Message(ch))]
        /\ IF Message(ch) = End
           THEN ChildDies(k)
           ELSE children' = [children EXCEPT ![k].sent = @ + 1] /\ UNCHANGED sigchld
  /\ UNCHANGED <<lines, queue, removed, spc, errno, req, runs, client>>

-----------------------------------------------------------------------------
(* A client *)

CGoto(c, from, to) == cpc[c] = from /\ cpc' = [cpc EXCEPT ![c] = to]

\* the request into the well-known queue, which may be full
Send(c) ==
  /\ CGoto(c, "send", "recv") /\ Len(queue) < QMax
  /\ queue' = Append(queue, c)
  /\ UNCHANGED <<lines, answers, removed, parent, children, printed>>

\* Mesg_recv and write, until the empty message
Receive(c) ==
  /\ answers[c] # <<>>
  /\ answers' = [answers EXCEPT ![c] = Tail(@)]
  /\ IF Head(answers[c]) = End
     THEN CGoto(c, "recv", "remove") /\ UNCHANGED printed
     ELSE CGoto(c, "recv", "recv") /\ printed' = [printed EXCEPT ![c] = Append(@, Head(answers[c]))]
  /\ UNCHANGED <<lines, queue, removed, parent, children>>

\* IPC_RMID of the private queue
RemoveQueue(c) ==
  /\ CGoto(c, "remove", "exit") /\ removed' = removed \cup {c}
  /\ UNCHANGED <<lines, queue, answers, parent, children, printed>>

\* a client is killed; its private queue stays
Kill(c) ==
  /\ cpc[c] \in {"recv", "remove"}
  /\ cpc' = [cpc EXCEPT ![c] = "killed"]
  /\ UNCHANGED <<lines, queues, parent, children, printed>>

Client(c) == Send(c) \/ Receive(c) \/ RemoveQueue(c)

-----------------------------------------------------------------------------
Step == Server \/ (\E k \in Pids : Child(k)) \/ (\E c \in Clients : Client(c))
Next == Step \/ Restart \/ \E c \in Clients : Kill(c)

(* As long as some process can run, one does; nobody need be killed, and nobody
   need start the server again. *)
Spec == Init /\ [][Next]_vars /\ WF_vars(Step)

-----------------------------------------------------------------------------
(* Properties *)

\* Every variable keeps its type, no queue holds more than it can, and every
\* client is served by one child at most.
TypeOK ==
  /\ lines \in Files /\ removed \subseteq Clients
  /\ queue \in Seq(Clients \cup {Bogus}) /\ Len(queue) =< QMax
  /\ \A c \in Clients :
       Len(answers[c]) =< QMax /\ ToSet(answers[c]) \subseteq ToSet(Answer(c)) \cup {End}
  /\ spc \in SLabels /\ errno \in {"", "EINTR", "ECHILD"} /\ sigchld \in BOOLEAN
  /\ req \in Clients \cup {Bogus} /\ runs \in 1 .. MaxRuns
  /\ \A k \in Pids : /\ children[k].pc \in ChLabels /\ children[k].to \in Clients
                     /\ children[k].sent \in 0 .. Len(Answer(children[k].to))
                     /\ \A j \in Pids : children[j].to = children[k].to => j = k
  /\ cpc \in [Clients -> CLabels] /\ \A c \in Clients : printed[c] \in Seq(Clients \X Nat)

\* A client prints its own file, line by line from the first on, or the error
\* text, and ends with the whole of it: whatever the other children send
\* meanwhile, and although its server may have gone in between.
OwnAnswer ==
  \A c \in Clients :
    /\ IsPrefix(printed[c], Answer(c))
    /\ cpc[c] \in {"remove", "exit"} => printed[c] = Answer(c)

\* While the server runs, a child that has ended is reaped or the signal that
\* will reap it is pending, although several ends make one signal.
NoZombieForgotten ==
  spc # "exit" /\ Mine({"zombie"}) # {} => sigchld

\* Every client that is not killed gets its answer, in spite of killed clients
\* and full queues, unless the server ends and nobody starts it again: the next
\* server answers what the last one left in the queue.
Served ==
  \/ <>[](\A c \in Clients : cpc[c] \in {"exit", "killed"})
  \/ <>[](spc = "exit")

\* "parent just loops around": the server does not end.
ParentLoops == spc # "exit"
=============================================================================
