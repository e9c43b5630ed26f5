------------------------------ MODULE FileServers ------------------------------
(***************************************************************************)
(* The programs that ask for a file by its path name and print what comes  *)
(* back: 4_chapter_server.c and 4_chapter_client.c over pipes and FIFOs,   *)
(* 6_chapter/server-simple.c and client-simple.c over two message queues.  *)
(* They are one conversation over six channels, the mode:                  *)
(*   pipe       test_pipe: the parent asks, the child answers              *)
(*   stream     test_stream: the child asks, framed messages over pipes    *)
(*   related    two FIFOs, parent and child                                *)
(*   unrelated  two FIFOs, two programs started independently              *)
(*   multi      a well-known FIFO, a FIFO per client, an iterative server  *)
(*   queues     two System V message queues                                *)
(*                                                                         *)
(* "req" is the channel of the requests, c that of the answers to client c.*)
(* A process is the sequence of operations it has yet to do; <<>> is dead. *)
(* A chunk of the file of client c is <<c, k>>, "can't open" is <<c, 0>>,  *)
(* the 0-length message behind it <<c, -1>>; a reader sees no owner.       *)
(* Every process may be killed; the iterative server is started again.     *)
(***************************************************************************)
EXTENDS Integers, Sequences, FiniteSets, SequencesExt

CONSTANTS Clients, Server,
          Lines,      \* lengths of files, with NoFile, NoPath, NoNewline
          Capacity,   \* units a channel holds
          MaxRuns     \* how often the iterative server is started (bound)

NoFile == -1          \* a path name that cannot be opened
NoPath == -2          \* an empty line
NoNewline == -3       \* the last line of an input that does not end in a newline

ASSUME ProcsAssumption ==
  Clients # {} /\ ({Server, "req", "old"} \cap Clients) = {}   \* clients are none of these
ASSUME BoundAssumption ==
  {Capacity, MaxRuns} \subseteq Nat \ {0} /\ Lines \subseteq Nat \cup {NoFile, NoPath, NoNewline}

VARIABLES mode, path,         \* the programs run, what is asked for: fixed
          names, data,        \* FIFOs and queues that exist, channel contents
          ends, waiting,      \* open ends, blocked calls of open
          todo,               \* what each process has yet to do
          to, sent, runs,     \* the server: whose request, chunks written, its runs
          printed, fate       \* history: outputs, what befell the processes

fixed == <<mode, path>>
vars  == <<fixed, names, data, ends, waiting, todo, to, sent, runs, printed, fate>>

Procs == Clients \cup {Server}
Chans == {"req"} \cup Clients
Only  == CHOOSE c \in Clients : TRUE     \* the client, where there is one
Old   == "old"                           \* an earlier run, or nobody
IsEnd(unit) == unit[2] = -1              \* the 0-length message

Piped    == mode \in {"pipe", "stream"}
Messages == mode \in {"stream", "queues"}
Kept     == mode = "queues"

-----------------------------------------------------------------------------
(* The programs.  What they close just before they end is closed by exit. *)

TestPipe(p) ==
  IF p = Server THEN <<"close_unused", "read", "answer", "exit">>
                ELSE <<"close_unused", "send", "receive", "wait", "exit">>
TestStream(p) ==
  IF p = Server THEN <<"close_unused", "read", "answer", "wait", "exit">>
                ELSE <<"close_unused", "send", "receive", "exit">>
Related(p) ==
  IF p = Server THEN <<"open_req", "open_ans", "read", "answer", "exit">>
                ELSE <<"open_req", "open_ans", "send", "receive", "wait",
                       "unlink_req", "unlink_ans", "exit">>
UnrelatedServer == <<"make_req", "make_ans", "open_req", "open_ans", "read", "answer", "exit">>
UnrelatedClient == <<"open_req", "open_ans", "send", "receive",
                     "unlink_req", "unlink_ans", "exit">>
MultiLoop   == <<"read", "open_ans", "answer", "close_ans">>
MultiServer == <<"make_req", "open_req", "open_dummy", "read", "open_ans", "answer", "close_ans">>
MultiClient == <<"make_ans", "open_req", "send", "open_ans", "receive", "unlink_ans", "exit">>
QueueServer == <<"make_req", "make_ans", "read", "answer", "exit">>
QueueClient == <<"open_req", "open_ans", "send", "receive", "unlink_ans", "unlink_req", "exit">>

Program(p) ==
  CASE mode = "pipe" -> TestPipe(p)
    [] mode = "stream" -> TestStream(p)
    [] mode = "related" -> Related(p)
    [] mode = "unrelated" -> IF p = Server THEN UnrelatedServer ELSE UnrelatedClient
    [] mode = "multi" -> IF p = Server THEN MultiServer ELSE MultiClient
    [] mode = "queues" -> IF p = Server THEN QueueServer ELSE QueueClient

\* what an earlier run may have left: queues outlive everybody, FIFOs are emptied
Left(ch, units) == IF Kept /\ ch \in names THEN BoundedSeq(units, Capacity) ELSE {<<>>}

\* FIFOs and queues of earlier runs may exist, the queues with messages: requests
\* and answers, whole or in part (any line of them is <<Old, 0>>).  path[Old] is
\* what such a request asks for, or what a failed read leaves for a path name.
\* Only readline looks for a newline.  Behind a process id an empty path is one
\* that cannot be opened, and left out here.
Init ==
  /\ mode \in {"pipe", "stream", "related", "unrelated", "multi", "queues"}
  /\ path \in [Clients \cup {Old} -> Lines]
  /\ \A c \in Clients : IF mode = "multi" THEN path[c] # NoPath
                                        ELSE path[c] = path[Only] /\ path[c] # NoNewline
  /\ path[Old] # NoNewline /\ (mode \in {"pipe", "stream", "multi"} => path[Old] = NoFile)
  /\ names \in CASE mode \in {"unrelated", "queues"} -> SUBSET {"req", Only}
                 [] mode = "multi" -> SUBSET {"req"}
                 [] OTHER -> {{"req", Only}}
  /\ \E q \in Left("req", {Old}), a \in Left(Only, {<<Old, 0>>, <<Old, -1>>}) :
       /\ path[Old] = NoPath => q # <<>>
       /\ data = [ch \in Chans |-> CASE ch = "req" -> q [] ch = Only -> a [] OTHER -> <<>>]
  /\ ends = [ch \in Chans |-> LET p == IF Piped /\ ch \in names THEN {Only, Server} ELSE {}
                              IN  [r |-> p, w |-> p]]
  /\ waiting = {}
  /\ todo = [p \in Procs |-> IF mode = "multi" \/ p \in {Only, Server} THEN Program(p) ELSE <<>>]
  /\ to = Old /\ sent = 0 /\ runs = 1
  /\ printed = [c \in Clients |-> <<>>] /\ fate = {}

-----------------------------------------------------------------------------
(* Processes *)

At(p, op) == todo[p] # <<>> /\ Head(todo[p]) = op /\ waiting \cap ({p} \X Chans) = {}
Goto(p, program) == todo' = [todo EXCEPT ![p] = program]
Done(p) == Goto(p, Tail(todo[p]))

\* what happens to a process is remembered
Befalls(p, what) == fate' = fate \cup {<<p, what>>}

\* SIGPIPE, or err_sys
Dies(p) == Goto(p, <<"exit">>) /\ Befalls(p, "died")

\* closing an end; what is in a pipe or FIFO goes with the last of its ends
Close(closed) ==
  /\ ends' = [ch \in Chans |-> [e \in {"r", "w"} |-> ends[ch][e] \ {p \in Procs : <<p, ch, e>> \in closed}]]
  /\ data' = [ch \in Chans |-> IF Kept \/ ends'[ch]["r"] \cup ends'[ch]["w"] # {}
                               THEN data[ch] ELSE <<>>]

\* the ends of the other side, inherited from the fork
CloseUnused(p) ==
  /\ At(p, "close_unused") /\ Done(p)
  /\ Close(IF p = Server THEN {<<p, "req", "w">>, <<p, Only, "r">>}
                         ELSE {<<p, "req", "r">>, <<p, Only, "w">>})
  /\ UNCHANGED <<fixed, names, waiting, to, sent, runs, printed, fate>>

\* waitpid(childpid)
Wait(p) ==
  /\ At(p, "wait") /\ Done(p)
  /\ \A q \in Procs \ {p} : todo[q] = <<>>
  /\ UNCHANGED <<fixed, names, data, ends, waiting, to, sent, runs, printed, fate>>

Exit(p) ==
  /\ At(p, "exit") /\ Done(p)
  /\ Close({p} \X Chans \X {"r", "w"})
  /\ UNCHANGED <<fixed, names, waiting, to, sent, runs, printed, fate>>

\* Killed where others wait for it: before an open has met its other side, with
\* its request made and the answer to come, as the server that clients wait for.
Amid(p) ==
  LET ToDo(op) == op \in ToSet(todo[p]) IN
  \/ mode \in {"related", "unrelated"} /\ (ToDo("open_ans") \/ waiting \cap ({p} \X Chans) # {})
  \/ mode = "multi"  /\ (p = Server \/ (ToDo("receive") /\ ~ToDo("send")))
  \/ mode = "queues" /\ (p = Server \/ ToDo("receive"))
Kill(p) ==
  /\ todo[p] \notin {<<>>, <<"exit">>}
  /\ Goto(p, <<"exit">>)
  /\ waiting' = waiting \ ({p} \X Chans)
  /\ fate' = fate \cup {<<p, "killed">>} \cup IF Amid(p) THEN {<<p, "amid">>} ELSE {}
  /\ UNCHANGED <<fixed, names, data, ends, to, sent, runs, printed>>

Restart ==
  /\ mode = "multi" /\ todo[Server] = <<>> /\ runs < MaxRuns
  /\ Goto(Server, Program(Server)) /\ to' = Old /\ sent' = 0 /\ runs' = runs + 1
  /\ UNCHANGED <<fixed, names, data, ends, waiting, printed, fate>>

-----------------------------------------------------------------------------
(* Names *)

\* the channel the server answers on
Reply == IF mode = "multi" THEN to ELSE Only

\* mkfifo, "OK if already exists"; msgget(IPC_CREAT) also opens
Make(p) ==
  /\ \E ch \in Chans, e \in {"r", "w"} :
       /\ \/ At(p, "make_req") /\ ch = "req" /\ e = "r"
          \/ At(p, "make_ans") /\ ch = (IF p = Server THEN Only ELSE p) /\ e = "w"
       /\ names' = names \cup {ch}
       /\ ends' = IF Kept THEN [ends EXCEPT ![ch][e] = @ \cup {p}] ELSE ends
  /\ Done(p)
  /\ UNCHANGED <<fixed, data, waiting, to, sent, runs, printed, fate>>

\* unlink, msgctl(IPC_RMID): open FIFOs live on, a queue does not
Unlink(p) ==
  /\ \E ch \in Chans :
       /\ \/ At(p, "unlink_req") /\ ch = "req"
          \/ At(p, "unlink_ans") /\ ch = p
       /\ names' = names \ {ch}
       /\ data' = IF Kept THEN [data EXCEPT ![ch] = <<>>] ELSE data
  /\ Done(p)
  /\ UNCHANGED <<fixed, ends, waiting, to, sent, runs, printed, fate>>

\* Opening one end of a FIFO blocks until somebody opens the other.  Without
\* the name the descriptor is -1, which only the iterative server looks at.
Opens(p, ch, e) ==
  LET other == ends[ch][IF e = "r" THEN "w" ELSE "r"] IN
  \/ /\ ch \in names /\ Done(p)
     /\ ends' = [ends EXCEPT ![ch][e] = @ \cup {p}]
     /\ waiting' = (waiting \ (other \X {ch})) \cup
                   IF other = {} /\ ~Kept THEN {<<p, ch>>} ELSE {}
     /\ UNCHANGED <<to, fate>>
  \/ /\ ch \notin names /\ Befalls(p, "missed")
     /\ IF p = Server /\ mode = "multi" THEN Goto(p, MultiLoop) /\ to' = Old
                                         ELSE Done(p) /\ UNCHANGED to
     /\ UNCHANGED <<ends, waiting>>

\* the dummy write end of the well-known FIFO is not opened
OpenNoDummy(p) ==
  /\ \/ At(p, "open_req") /\ Opens(p, "req", IF p = Server THEN "r" ELSE "w")
     \/ At(p, "open_dummy") /\ Done(p) /\ UNCHANGED <<ends, waiting, to, fate>>
     \/ At(p, "open_ans") /\ (IF p = Server THEN Opens(p, Reply, "w") ELSE Opens(p, p, "r"))
  /\ UNCHANGED <<fixed, names, data, sent, runs, printed>>

Open(p) ==
  /\ \/ At(p, "open_req") /\ Opens(p, "req", IF p = Server THEN "r" ELSE "w")
     \/ At(p, "open_dummy") /\ Opens(p, "req", "w")
     \/ At(p, "open_ans") /\ (IF p = Server THEN Opens(p, Reply, "w") ELSE Opens(p, p, "r"))
  /\ UNCHANGED <<fixed, names, data, sent, runs, printed>>

-----------------------------------------------------------------------------
(* Requests and answers *)

\* a write that ends its process: SIGPIPE, or a queue that is not there
Breaks(p, ch) ==
  IF Kept THEN p \notin ends[ch]["w"] \/ ch \notin names
          ELSE p \in ends[ch]["w"] /\ ends[ch]["r"] = {}
\* a write to descriptor -1, whose result nobody looks at
Lost(p, ch) == ~Kept /\ p \notin ends[ch]["w"]
Puts(p, ch, unit) ==
  /\ ~Breaks(p, ch) /\ ~Lost(p, ch) /\ Len(data[ch]) < Capacity
  /\ data' = [data EXCEPT ![ch] = Append(@, unit)]

\* a write of no bytes: the path name without its newline, not preceded by a
\* process id or a header
NoBytes(c) == path[c] = NoPath /\ mode \in {"pipe", "related", "unrelated"}

Send(c) ==
  /\ At(c, "send")
  /\ IF NoBytes(c) \/ Lost(c, "req") THEN Done(c) /\ UNCHANGED <<data, fate>>
     ELSE \/ Breaks(c, "req") /\ Dies(c) /\ UNCHANGED data
          \/ Puts(c, "req", c) /\ Done(c) /\ UNCHANGED fate
  /\ UNCHANGED <<fixed, names, ends, waiting, to, sent, runs, printed>>

\* nothing will come any more: end of file, or no valid descriptor or queue
Eof(p, ch)     == p \in ends[ch]["r"] /\ ~Kept /\ data[ch] = <<>> /\ ends[ch]["w"] = {}
BadRead(p, ch) == p \notin ends[ch]["r"] \/ (Kept /\ ch \notin names)

\* The server reads a path name.  A line without a newline is not the end of
\* readline: the next request is read on to it, and the whole is taken for a
\* request of the first client.  At the end of file the server quits; an error
\* is taken for a path name.  (The iterative server, whose FIFO nobody removes,
\* meets no error.)
Read ==
  /\ At(Server, "read") /\ sent' = 0
  /\ \/ /\ ~BadRead(Server, "req") /\ data["req"] # <<>>
        /\ to' = (IF to = Old THEN Head(data["req"]) ELSE to)
        /\ data' = [data EXCEPT !["req"] = Tail(@)]
        /\ CASE path[Head(data["req"])] = NoNewline -> UNCHANGED todo
             [] Messages /\ path[to'] = NoPath -> Goto(Server, <<"exit">>)
             [] OTHER -> Done(Server)
     \/ Eof(Server, "req") /\ Goto(Server, <<"exit">>) /\ UNCHANGED <<to, data>>
     \/ BadRead(Server, "req") /\ to' = Old /\ Done(Server) /\ UNCHANGED data
  /\ UNCHANGED <<fixed, names, ends, waiting, runs, printed, fate>>

FileOf(x) == IF path[x] < 0 THEN << <<x, 0>> >> ELSE [k \in 1 .. path[x] |-> <<x, k>>]
Answer(x) == FileOf(x) \o IF Messages THEN << <<x, -1>> >> ELSE <<>>

\* what is sent is the file without the empty message
AnswerNoEnd ==
  /\ At(Server, "answer")
  /\ IF sent = Len(FileOf(to)) THEN Done(Server) /\ UNCHANGED <<data, sent, fate>>
     ELSE \/ Breaks(Server, Reply) /\ Dies(Server) /\ UNCHANGED <<data, sent>>
          \/ Lost(Server, Reply) /\ sent' = sent + 1 /\ UNCHANGED <<data, todo, fate>>
          \/ Puts(Server, Reply, FileOf(to)[sent + 1]) /\ sent' = sent + 1 /\ UNCHANGED <<todo, fate>>
  /\ UNCHANGED <<fixed, names, ends, waiting, to, runs, printed>>

Answers ==
  /\ At(Server, "answer")
  /\ IF sent = Len(Answer(to)) THEN Done(Server) /\ UNCHANGED <<data, sent, fate>>
     ELSE \/ Breaks(Server, Reply) /\ Dies(Server) /\ UNCHANGED <<data, sent>>
          \/ Lost(Server, Reply) /\ sent' = sent + 1 /\ UNCHANGED <<data, todo, fate>>
          \/ Puts(Server, Reply, Answer(to)[sent + 1]) /\ sent' = sent + 1 /\ UNCHANGED <<todo, fate>>
  /\ UNCHANGED <<fixed, names, ends, waiting, to, runs, printed>>

\* close(writefifo), and the loop goes on
CloseAns ==
  /\ At(Server, "close_ans") /\ Goto(Server, MultiLoop) /\ to' = Old /\ sent' = 0
  /\ Close({<<Server, to, "w">>})
  /\ UNCHANGED <<fixed, names, waiting, runs, printed, fate>>

\* Nothing comes any more: Mesg_recv dies of an error, read just ends the loop.
NothingComes(c) ==
  /\ \/ BadRead(c, c) /\ Kept /\ Dies(c)
     \/ ((BadRead(c, c) /\ ~Kept) \/ Eof(c, c)) /\ Done(c) /\ UNCHANGED fate
  /\ UNCHANGED <<data, printed>>
\* what it takes is of an earlier run, and it cannot know
Takes(c) ==
  /\ data[c] # <<>> /\ data' = [data EXCEPT ![c] = Tail(@)]
  /\ IF Head(data[c])[1] = Old THEN Befalls(c, "misled") ELSE UNCHANGED fate
Prints(c) == printed' = [printed EXCEPT ![c] = Append(@, Head(data[c]))]

\* the empty message is printed, too: >= 0 for > 0
ReceiveEnd(c) ==
  /\ At(c, "receive")
  /\ \/ NothingComes(c)
     \/ ~BadRead(c, c) /\ Takes(c) /\ Prints(c) /\ UNCHANGED todo
  /\ UNCHANGED <<fixed, names, ends, waiting, to, sent, runs>>

\* the client does not wait for what is not there yet
ReceiveNoWait(c) ==
  /\ At(c, "receive")
  /\ \/ data[c] = <<>> /\ Done(c) /\ UNCHANGED <<data, printed, fate>>
     \/ /\ Takes(c)
        /\ IF IsEnd(Head(data[c])) THEN Done(c) /\ UNCHANGED printed ELSE Prints(c) /\ UNCHANGED todo
  /\ UNCHANGED <<fixed, names, ends, waiting, to, sent, runs>>

\* read and write, until the end of file or the empty message
Receive(c) ==
  /\ At(c, "receive")
  /\ \/ NothingComes(c)
     \/ /\ ~BadRead(c, c) /\ Takes(c)
        /\ IF IsEnd(Head(data[c])) THEN Done(c) /\ UNCHANGED printed ELSE Prints(c) /\ UNCHANGED todo
  /\ UNCHANGED <<fixed, names, ends, waiting, to, sent, runs>>

-----------------------------------------------------------------------------
Process(p) == CloseUnused(p) \/ Make(p) \/ Open(p) \/ Unlink(p) \/ Wait(p) \/ Exit(p)
Step == \/ \E p \in Procs : Process(p)
        \/ \E c \in Clients : Send(c) \/ Receive(c)
        \/ Read \/ Answers \/ CloseAns
Next == Step \/ Restart \/ \E p \in Procs : Kill(p)

(* As long as some process can run, one does; nobody need be killed or *)
(* started again.                                                      *)
Spec == Init /\ [][Next]_vars /\ WF_vars(Step)

-----------------------------------------------------------------------------
(* Properties *)

Befell(what) == {p \in Procs : <<p, what>> \in fate}

\* Every variable keeps its type, no channel holds more than it can, no more
\* is sent than there is, and what is printed are chunks of files.
TypeOK ==
  /\ path \in [Clients \cup {Old} -> Lines] /\ names \subseteq Chans
  /\ \A ch \in Chans : Len(data[ch]) =< Capacity /\ ends[ch] \in [r : SUBSET Procs, w : SUBSET Procs]
  /\ waiting \subseteq Procs \X Chans
  /\ \A p \in Procs : \E k \in 0 .. Len(Program(p)) :
       todo[p] \in {SubSeq(Program(p), k + 1, Len(Program(p))), <<"exit">>}
  /\ to \in Clients \cup {Old} /\ sent \in 0 .. Len(Answer(to)) /\ runs \in 1 .. MaxRuns
  /\ \A c \in Clients : ToSet(printed[c]) \subseteq (Clients \cup {Old}) \X Nat
  /\ fate \subseteq Procs \X {"killed", "amid", "died", "missed", "misled"}

\* A client prints the chunks of its own file from the first on.  When it comes
\* to the end of the answer, that is the end of the file, unless the server was
\* ended before; in no channel can it tell the one from the other.  What an
\* earlier run left in the queues, and only that, may come before, or instead.
OwnAnswer ==
  \A c \in Clients :
    /\ c \in Befell("misled") => Kept \/ Befell("missed") # {}
    /\ \E old \in 0 .. Len(printed[c]) :
         /\ \A k \in 1 .. old : printed[c][k][1] = Old /\ c \in Befell("misled")
         /\ IsPrefix(SubSeq(printed[c], old + 1, Len(printed[c])), FileOf(c))
    /\ \/ mode # "multi" /\ c # Only
       \/ "receive" \in ToSet(todo[c])
       \/ c \in Befell("killed") \cup Befell("died") \cup Befell("misled")
       \/ Befell("missed") # {}
       \/ Server \in Befell("killed") \cup Befell("died")
       \/ Messages /\ path[c] = NoPath
       \/ printed[c] = FileOf(c)

\* dummyfd "never used": the iterative server holds its own FIFO open for
\* writing, and therefore never meets its end, whichever clients come and go.
ServerStays ==
  mode = "multi" /\ todo[Server] \in {<<>>, <<"exit">>} =>
    Server \in Befell("killed") \cup Befell("died")

\* Everybody ends, the iterative server waits for requests; but every request
\* without a newline can cost one client its answer, this one or the next.
\* Exceptions: an empty line, of which nothing is sent or nothing comes back; a
\* client that was started before the names were there, or that deletes the
\* queues on an answer of an earlier run; a process killed where others wait
\* for it, as nobody does over pipes, or over two FIFOs once both are open.
Finished ==
  /\ Cardinality({c \in Clients : todo[c] # <<>>}) =< Cardinality({c \in Clients : path[c] = NoNewline})
  /\ \/ todo[Server] = <<>>
     \/ mode = "multi" /\ Head(todo[Server]) \in {"open_dummy", "read"}
Excused ==
  \/ path[Only] = NoPath /\ mode \notin {"stream", "multi"}
  \/ path[Old] = NoPath
  \/ \E what \in {"missed", "misled", "amid"} : Befell(what) # {}
Ends == <>[]Finished \/ <>Excused
=============================================================================
