---------------------------- MODULE MsgReuseProofs ----------------------------
(***************************************************************************)
(* Proofs about MsgReuse, for any number of clients, any files, queues of  *)
(* any size and any number of starts of the server.                        *)
(***************************************************************************)
EXTENDS MsgReuse, TLAPS

\* What is in a private queue, and what a child is.
Units  == (Clients \X Nat) \cup {End}
Child0 == [pc : ChLabels, to : Clients, sent : Nat, mine : BOOLEAN]

\* How many lines the answer has, how many were printed, how many units wait.
Size(c)  == Len(Answer(c))
Got(c)   == Len(printed[c])
Under(c) == Len(answers[c])

\* The units of an answer: its lines, then the empty message.
Unit(c, j) == IF j =< Size(c) THEN Answer(c)[j] ELSE End

Types ==
  /\ lines \in Files /\ removed \subseteq Clients
  /\ queue \in Seq(Clients \cup {Bogus}) /\ Len(queue) =< QMax
  /\ answers \in [Clients -> Seq(Units)] /\ \A c \in Clients : Under(c) =< QMax
  /\ printed \in [Clients -> Seq(Clients \X Nat)] /\ cpc \in [Clients -> CLabels]
  /\ spc \in SLabels /\ errno \in {"", "EINTR", "ECHILD"} /\ sigchld \in BOOLEAN
  /\ req \in Clients \cup {Bogus} /\ runs \in 1 .. MaxRuns
  /\ children \in Seq(Child0)

\* A request is in the well-known queue, then with the parent, then with one
\* child: never at two places, and only after its client has sent it.
Once(q)    == \A a, b \in 1 .. Len(q) : q[a] = q[b] /\ q[a] # Bogus => a = b
In(q, c)   == \E j \in 1 .. Len(q) : q[j] = c
InQueue(c) == In(queue, c)
NoChild(c) == \A k \in Pids : children[k].to # c
Requests ==
  /\ Once(queue)
  /\ \A c \in Clients : InQueue(c) => NoChild(c) /\ cpc[c] # "send"
  /\ spc = "fork" => req \in Clients /\ ~InQueue(req) /\ NoChild(req) /\ cpc[req] # "send"
  /\ \A k, j \in Pids : children[k].to = children[j].to => k = j

\* What was printed and what waits in the private queue is, in order, what the
\* child has sent; the empty message was taken by nobody before the end.
InOrder(c) ==
  /\ Got(c) =< Size(c)
  /\ \A j \in 1 .. Got(c) : printed[c][j] = Unit(c, j)
  /\ \A j \in 1 .. Under(c) : answers[c][j] = Unit(c, Got(c) + j)

Untouched(c) == /\ Got(c) = 0 /\ Under(c) = 0
                /\ cpc[c] \in {"send", "recv", "killed"} /\ c \notin removed
Sending(c, n) == /\ Got(c) + Under(c) = n /\ n =< Size(c)
                 /\ cpc[c] \in {"recv", "killed"} /\ c \notin removed
Sent(c) == \/ /\ Got(c) + Under(c) = Size(c) + 1
              /\ cpc[c] \in {"recv", "killed"} /\ c \notin removed
           \/ Got(c) = Size(c) /\ Under(c) = 0 /\ cpc[c] \in {"remove", "exit", "killed"}

Deliveries ==
  /\ \A c \in Clients : InOrder(c)
  /\ \A c \in Clients : NoChild(c) => Untouched(c)
  /\ \A k \in Pids : LET ch == children[k] IN
                     IF ch.pc = "send" THEN Sending(ch.to, ch.sent)
                                       ELSE Sent(ch.to) /\ ch.sent =< Size(ch.to)

\* A parent that runs is told of its ended children; one that has ended has none.
Zombies ==
  /\ NoZombieForgotten
  /\ spc = "exit" => \A k \in Pids : ~children[k].mine

IInv == Types /\ Requests /\ Deliveries /\ Zombies

-----------------------------------------------------------------------------
(* Sequences and answers *)

\* What Append does to a queue.
LEMMA AppendSeq ==
  ASSUME NEW S, NEW q \in Seq(S), NEW x \in S
  PROVE  /\ Append(q, x) \in Seq(S) /\ Len(Append(q, x)) = Len(q) + 1
         /\ \A j \in 1 .. Len(q) : Append(q, x)[j] = q[j]
         /\ Append(q, x)[Len(q) + 1] = x
OBVIOUS

\* What Head and Tail do to it.
LEMMA TailSeq ==
  ASSUME NEW S, NEW q \in Seq(S), q # <<>>
  PROVE  /\ Len(q) >= 1 /\ Head(q) = q[1] /\ Head(q) \in S
         /\ Tail(q) \in Seq(S) /\ Len(Tail(q)) = Len(q) - 1
         /\ \A j \in 1 .. Len(q) - 1 : Tail(q)[j] = q[j + 1]
OBVIOUS

\* Two sequences of the same elements are one.
LEMMA SameSeq ==
  ASSUME NEW S, NEW p \in Seq(S), NEW q \in Seq(S), Len(p) = Len(q),
         \A j \in 1 .. Len(p) : p[j] = q[j]
  PROVE  p = q
OBVIOUS

\* The lengths are numbers.
LEMMA Lengths ==
  ASSUME Types, NEW c \in Clients
  PROVE  /\ answers[c] \in Seq(Units) /\ printed[c] \in Seq(Clients \X Nat)
         /\ Got(c) \in Nat /\ Under(c) \in Nat
<1>1. answers[c] \in Seq(Units)
  BY DEF Types
<1>2. printed[c] \in Seq(Clients \X Nat)
  BY DEF Types
<1> QED BY <1>1, <1>2 DEF Got, Under

\* An answer is a sequence of lines, none of them the empty message.
LEMMA AnswerLines ==
  ASSUME Types, NEW c \in Clients
  PROVE  /\ Answer(c) \in Seq(Clients \X Nat) /\ Size(c) \in Nat
         /\ \A j \in 1 .. Size(c) : Answer(c)[j] \in Clients \X Nat
<1>1. lines[c] \in Nat \cup {-1}
  BY FilesAssumption DEF Types
<1>2. CASE lines[c] = -1
  BY <1>2 DEF Answer, Size
<1>3. CASE lines[c] \in Nat
  <2>1. Answer(c) = [k \in 1 .. lines[c] |-> <<c, k>>]
    BY <1>3 DEF Answer
  <2>2. Answer(c) \in Seq(Clients \X Nat)
    BY <1>3, <2>1
  <2> QED BY <2>2 DEF Size
<1> QED BY <1>1, <1>2, <1>3

\* A unit is the empty message when the lines are over, and only then.
LEMMA UnitType ==
  ASSUME Types, NEW c \in Clients, NEW j \in Nat \ {0}
  PROVE  /\ Unit(c, j) \in Units /\ (Unit(c, j) = End <=> j > Size(c))
         /\ j =< Size(c) => Unit(c, j) \in Clients \X Nat
<1>1. End \notin Clients \X Nat
  BY NamesAssumption DEF End
<1> QED BY <1>1, AnswerLines DEF Unit, Units

\* The children are numbered in the order of the forks.
LEMMA ChildrenType ==
  ASSUME Types
  PROVE  /\ Pids = 1 .. Len(children) /\ Len(children) \in Nat
         /\ \A k \in Pids : /\ children[k] \in Child0
                            /\ children[k].pc \in ChLabels /\ children[k].to \in Clients
                            /\ children[k].sent \in Nat /\ children[k].mine \in BOOLEAN
<1>1. children \in Seq(Child0)
  BY DEF Types
<1>2. Pids = 1 .. Len(children) /\ Len(children) \in Nat
  BY <1>1 DEF Pids
<1>3. \A k \in Pids : children[k] \in Child0
  BY <1>1, <1>2
<1> QED BY <1>2, <1>3 DEF Child0

\* A child sends the unit after those it has sent.
LEMMA MessageUnit ==
  ASSUME Types, NEW k \in Pids, children[k].sent =< Size(children[k].to)
  PROVE  Message(children[k]) = Unit(children[k].to, children[k].sent + 1)
<1>1. children[k].to \in Clients /\ children[k].sent \in Nat
  BY ChildrenType
<1>2. Size(children[k].to) \in Nat
  BY <1>1, AnswerLines
<1> QED BY <1>1, <1>2 DEF Message, Unit, Size

-----------------------------------------------------------------------------
(* What steps do to the children *)

\* No child is made, none serves another client.
Kept == Pids' = Pids /\ \A k \in Pids : children'[k].to = children[k].to

\* A fork makes one more child, which has sent nothing.
LEMMA ForkChild ==
  ASSUME Types, req \in Clients, Fork
  PROVE  \E n : /\ children' \in Seq(Child0) /\ n \notin Pids /\ Pids' = Pids \cup {n}
                /\ \A k \in Pids : children'[k] = children[k]
                /\ children'[n] = [pc |-> "send", to |-> req, sent |-> 0, mine |-> TRUE]
<1> DEFINE ch == [pc |-> "send", to |-> req, sent |-> 0, mine |-> TRUE]
<1>1. children \in Seq(Child0) /\ ch \in Child0 /\ children' = Append(children, ch)
  BY DEF Types, Fork, Child0, ChLabels
<1> HIDE DEF ch
<1>2. /\ children' \in Seq(Child0) /\ Len(children') = Len(children) + 1
      /\ \A j \in 1 .. Len(children) : children'[j] = children[j]
      /\ children'[Len(children) + 1] = ch
  BY <1>1, AppendSeq
<1>3. Pids = 1 .. Len(children) /\ Pids' = 1 .. Len(children')
  BY <1>1, <1>2 DEF Pids
<1> WITNESS Len(children) + 1
<1> QED BY <1>1, <1>2, <1>3 DEF ch

\* sig_chld reaps what has ended of the parent's own children.
LEMMA ReapChildren ==
  ASSUME Types, Reap
  PROVE  /\ children' \in Seq(Child0) /\ Kept
         /\ \A k \in Pids : /\ children'[k].sent = children[k].sent
                            /\ children'[k].mine = children[k].mine
                            /\ children'[k].pc = IF children[k].mine /\ children[k].pc = "zombie"
                                                 THEN "gone" ELSE children[k].pc
<1> DEFINE f == [k \in Pids |-> IF k \in Mine({"zombie"})
                                THEN [children[k] EXCEPT !.pc = "gone"] ELSE children[k]]
<1>1. children' = f
  BY DEF Reap
<1>2. \A k \in Pids : k \in Mine({"zombie"}) <=> children[k].mine /\ children[k].pc = "zombie"
  BY DEF Mine
<1>3. \A k \in Pids : f[k] \in Child0
  BY ChildrenType DEF Child0, ChLabels
<1>4. f \in Seq(Child0) /\ DOMAIN f = Pids
  BY <1>3, ChildrenType
<1>5. Kept
  BY <1>1, <1>4, ChildrenType DEF Kept, Pids, Child0
<1> QED BY <1>1, <1>2, <1>4, <1>5, ChildrenType DEF Child0

\* A parent that ends leaves its children.
LEMMA OrphanChildren ==
  ASSUME Types, children' = [k \in Pids |-> [children[k] EXCEPT !.mine = FALSE]]
  PROVE  /\ children' \in Seq(Child0) /\ Kept
         /\ \A k \in Pids : /\ children'[k].sent = children[k].sent
                            /\ children'[k].pc = children[k].pc
                            /\ children'[k].mine = FALSE
<1> DEFINE f == [k \in Pids |-> [children[k] EXCEPT !.mine = FALSE]]
<1>1. children' = f
  OBVIOUS
<1>2. \A k \in Pids : f[k] \in Child0
  BY ChildrenType DEF Child0
<1>3. f \in Seq(Child0) /\ DOMAIN f = Pids
  BY <1>2, ChildrenType
<1>4. Kept
  BY <1>1, <1>3, ChildrenType DEF Kept, Pids, Child0
<1> QED BY <1>1, <1>3, <1>4, ChildrenType DEF Child0

\* What a child sends, it sends to its client, which has not gone.
LEMMA ChildSends ==
  ASSUME Types, Deliveries, NEW k \in Pids, Child(k)
  PROVE  LET ch == children[k]
             c  == children[k].to IN
         /\ c \in Clients /\ ch.pc = "send" /\ ch.sent =< Size(c) /\ Sending(c, ch.sent)
         /\ Under(c) < QMax
         /\ answers' = [answers EXCEPT ![c] = Append(answers[c], Unit(c, ch.sent + 1))]
         /\ IF ch.sent < Size(c)
            THEN children' = [children EXCEPT ![k].sent = ch.sent + 1] /\ UNCHANGED sigchld
            ELSE ChildDies(k)
         /\ UNCHANGED <<lines, queue, removed, spc, errno, req, runs, client>>
<1> DEFINE ch == children[k]
           c  == children[k].to
<1>1. c \in Clients /\ ch.sent \in Nat /\ ch.pc = "send"
  BY ChildrenType DEF Child
<1>2. Sending(c, ch.sent) /\ ch.sent =< Size(c) /\ c \notin removed
  BY <1>1 DEF Deliveries, Sending
<1>3. Message(ch) = Unit(c, ch.sent + 1)
  BY <1>2, MessageUnit
<1>4. Size(c) \in Nat /\ (Unit(c, ch.sent + 1) = End <=> ~(ch.sent < Size(c)))
  BY <1>1, UnitType, AnswerLines
<1> QED BY <1>1, <1>2, <1>3, <1>4 DEF Child, Under

\* A child that sends, or ends, changes nothing else of the children.
LEMMA OneChild ==
  ASSUME Types, NEW k \in Pids,
         \/ children' = [children EXCEPT ![k].sent = children[k].sent + 1]
         \/ children' = [children EXCEPT ![k].pc = "zombie"]
  PROVE  /\ children' \in Seq(Child0) /\ Kept
         /\ \A j \in Pids : /\ j # k => children'[j] = children[j]
                            /\ children'[j].mine = children[j].mine
         /\ \/ children'[k].sent = children[k].sent + 1 /\ children'[k].pc = children[k].pc
            \/ children'[k].sent = children[k].sent /\ children'[k].pc = "zombie"
<1> DEFINE x == [children[k] EXCEPT !.sent = children[k].sent + 1]
           y == [children[k] EXCEPT !.pc = "zombie"]
<1>1. /\ x \in Child0 /\ x.to = children[k].to /\ x.mine = children[k].mine
      /\ x.sent = children[k].sent + 1 /\ x.pc = children[k].pc
      /\ y \in Child0 /\ y.to = children[k].to /\ y.mine = children[k].mine
      /\ y.sent = children[k].sent /\ y.pc = "zombie"
  BY ChildrenType DEF Child0, ChLabels
<1>2. \/ children' = [children EXCEPT ![k] = x]
      \/ children' = [children EXCEPT ![k] = y]
  OBVIOUS
<1> HIDE DEF x, y
<1>3. children \in Seq(Child0) /\ Pids = 1 .. Len(children) /\ Len(children) \in Nat
  BY ChildrenType DEF Types
<1>4. PICK z \in {x, y} : children' = [children EXCEPT ![k] = z]
  BY <1>2
<1>5. z \in Child0
  BY <1>1
<1>6. /\ children' \in Seq(Child0) /\ Pids' = Pids /\ children'[k] = z
      /\ \A j \in Pids : j # k => children'[j] = children[j]
  BY <1>3, <1>4, <1>5 DEF Pids
<1> QED BY <1>1, <1>4, <1>6 DEF Kept

-----------------------------------------------------------------------------
(* Types *)

\* The program starts well typed.
LEMMA InitTypes == Init => Types
<1> SUFFICES ASSUME Init PROVE Types
  OBVIOUS
<1>1. /\ queue \in {<<>>, <<Bogus>>} /\ children = <<>> /\ runs = 1
      /\ answers = [c \in Clients |-> <<>>] /\ printed = [c \in Clients |-> <<>>]
  BY DEF Init
<1>2. queue \in Seq(Clients \cup {Bogus}) /\ Len(queue) =< 1 /\ Len(queue) \in Nat
  <2>1. CASE queue = <<>>
    BY <2>1
  <2>2. CASE queue = <<Bogus>>
    <3>1. <<Bogus>> \in Seq(Clients \cup {Bogus}) /\ Len(<<Bogus>>) = 1
      OBVIOUS
    <3> QED BY <2>2, <3>1
  <2> QED BY <1>1, <2>1, <2>2
<1>3. <<>> \in Seq(Units) /\ <<>> \in Seq(Clients \X Nat) /\ <<>> \in Seq(Child0) /\ Len(<<>>) = 0
  OBVIOUS
<1>4. answers \in [Clients -> Seq(Units)] /\ printed \in [Clients -> Seq(Clients \X Nat)]
  BY <1>1, <1>3
<1>5. QMax \in Nat /\ 1 =< QMax /\ runs \in 1 .. MaxRuns
  BY <1>1, QMaxAssumption
<1>6. \A c \in Clients : Under(c) =< QMax
  BY <1>1, <1>3, <1>5 DEF Under
<1>7. Len(queue) =< QMax
  BY <1>2, <1>5
<1> QED BY <1>1, <1>2, <1>3, <1>4, <1>5, <1>6, <1>7 DEF Init, Types, CLabels, SLabels

\* Steps of the server, and its new start.
Servers == Server \/ Restart

\* Steps of the server keep the types.
LEMMA ServerTypes ==
  ASSUME Types, Requests, Servers
  PROVE  Types'
<1>1. CASE Recv
  <2>1. /\ queue \in Seq(Clients \cup {Bogus}) /\ queue # <<>> /\ Len(queue) =< QMax
        /\ Len(queue) \in Nat /\ QMax \in Nat
    <3>1. queue \in Seq(Clients \cup {Bogus}) /\ Len(queue) =< QMax
      BY DEF Types
    <3> QED BY <1>1, <3>1, QMaxAssumption DEF Recv
  <2>2. /\ Head(queue) \in Clients \cup {Bogus} /\ Tail(queue) \in Seq(Clients \cup {Bogus})
        /\ Len(Tail(queue)) = Len(queue) - 1
    BY <2>1, TailSeq
  <2>3. Len(queue') =< QMax
    BY <1>1, <2>1, <2>2 DEF Recv
  <2> QED BY <1>1, <2>2, <2>3 DEF Recv, Types, client, SLabels, Under
<1>2. CASE Fork
  <2>1. req \in Clients
    BY <1>2 DEF Fork, Requests
  <2>2. children' \in Seq(Child0)
    BY <1>2, <2>1, ForkChild
  <2> QED BY <1>2, <2>2 DEF Fork, Types, queues, client, SLabels, Under
<1>3. CASE SigChld
  <2>1. children' \in Seq(Child0)
    BY <1>3, ReapChildren DEF SigChld
  <2> QED BY <1>3, <2>1 DEF SigChld, Types, queues, client, SLabels, Under
<1>4. CASE Retry
  <2>1. children' \in Seq(Child0)
    BY <1>4, OrphanChildren DEF Retry, Types
  <2> QED BY <1>4, <2>1 DEF Retry, Types, queues, client, SLabels, Under
<1>5. CASE Restart
  <2>1. runs' \in 1 .. MaxRuns
    <3>1. runs \in 1 .. MaxRuns /\ runs < MaxRuns /\ runs' = runs + 1
      BY <1>5 DEF Restart, Types
    <3> QED BY <3>1, QMaxAssumption
  <2> QED BY <1>5, <2>1 DEF Restart, Types, queues, client, SLabels, Under
<1> QED BY <1>1, <1>2, <1>3, <1>4, <1>5 DEF Servers, Server

\* What Append and Tail do to the private queue of one client.
LEMMA PrivateQueue ==
  ASSUME Types, NEW c \in Clients, NEW q \in Seq(Units),
         answers' = [answers EXCEPT ![c] = q]
  PROVE  /\ answers' \in [Clients -> Seq(Units)] /\ answers'[c] = q /\ Under(c)' = Len(q)
         /\ \A d \in Clients : d # c => answers'[d] = answers[d] /\ Under(d)' = Under(d)
BY DEF Types, Under

\* Steps of a child keep them.
LEMMA ChildTypes ==
  ASSUME Types, Deliveries, NEW k \in Pids, Child(k)
  PROVE  Types'
<1> DEFINE ch == children[k]
           c  == children[k].to
           u  == Unit(c, ch.sent + 1)
<1>1. /\ c \in Clients /\ ch.sent \in Nat /\ Under(c) < QMax /\ Under(c) \in Nat
      /\ QMax \in Nat /\ u \in Units /\ answers[c] \in Seq(Units)
      /\ answers' = [answers EXCEPT ![c] = Append(answers[c], u)]
      /\ UNCHANGED <<lines, queue, removed, spc, errno, req, runs, client>>
  <2>1. c \in Clients /\ ch.sent \in Nat
    BY ChildrenType
  <2>2. u \in Units
    BY <2>1, UnitType
  <2> QED BY <2>1, <2>2, ChildSends, Lengths, QMaxAssumption
<1>2. children' \in Seq(Child0) /\ sigchld' \in BOOLEAN
  BY ChildSends, OneChild DEF ChildDies, Types
<1> HIDE DEF u
<1>3. Append(answers[c], u) \in Seq(Units) /\ Len(Append(answers[c], u)) = Under(c) + 1
  BY <1>1, AppendSeq DEF Under
<1>4. answers' \in [Clients -> Seq(Units)] /\ \A d \in Clients : Under(d)' =< QMax
  <2>1. \A d \in Clients : Under(d) =< QMax /\ Under(d) \in Nat
    BY Lengths DEF Types
  <2>2. PICK e \in Clients, q \in Seq(Units) :
          answers' = [answers EXCEPT ![e] = q] /\ Len(q) = Under(e) + 1 /\ Under(e) < QMax
    BY <1>1, <1>3
  <2>3. /\ answers' \in [Clients -> Seq(Units)] /\ Under(e)' = Len(q)
        /\ \A d \in Clients : d # e => Under(d)' = Under(d)
    BY <2>2, PrivateQueue
  <2>4. QMax \in Nat /\ Under(e) \in Nat
    BY <1>1, <2>1
  <2> HIDE DEF ch, c
  <2>5. ASSUME NEW d \in Clients PROVE Under(d)' =< QMax
    <3>1. Under(e)' =< QMax
      BY <2>2, <2>3, <2>4
    <3> QED BY <2>1, <2>3, <3>1
  <2> QED BY <2>3, <2>5
<1> QED BY <1>1, <1>2, <1>4 DEF Types, client

\* What Receive does to its client: it prints the next line, or ends.
LEMMA Receives ==
  ASSUME Types, Deliveries, NEW c \in Clients, Receive(c)
  PROVE  /\ cpc[c] = "recv" /\ Under(c) >= 1 /\ Got(c) =< Size(c)
         /\ Types' /\ Under(c)' = Under(c) - 1
         /\ \A j \in 1 .. Under(c) - 1 : answers'[c][j] = answers[c][j + 1]
         /\ \/ Got(c) = Size(c) /\ cpc' = [cpc EXCEPT ![c] = "remove"] /\ UNCHANGED printed
            \/ /\ Got(c) < Size(c) /\ UNCHANGED cpc /\ Got(c)' = Got(c) + 1
               /\ \A j \in 1 .. Got(c) : printed'[c][j] = printed[c][j]
               /\ printed'[c][Got(c) + 1] = Unit(c, Got(c) + 1)
         /\ \A d \in Clients : d # c => answers'[d] = answers[d] /\ printed'[d] = printed[d]
         /\ UNCHANGED <<lines, queue, removed, parent, children>>
<1> DEFINE q == answers[c]
           u == Unit(c, Got(c) + 1)
<1>0. /\ q \in Seq(Units) /\ q # <<>> /\ printed[c] \in Seq(Clients \X Nat)
      /\ Got(c) \in Nat /\ Under(c) \in Nat /\ Size(c) \in Nat /\ QMax \in Nat
      /\ answers' = [answers EXCEPT ![c] = Tail(q)] /\ cpc[c] = "recv"
      /\ UNCHANGED <<lines, queue, removed, parent, children>>
  BY Lengths, AnswerLines, QMaxAssumption DEF Receive, CGoto
<1>1. /\ Len(q) >= 1 /\ Head(q) = q[1] /\ Tail(q) \in Seq(Units) /\ Len(Tail(q)) = Len(q) - 1
      /\ \A j \in 1 .. Len(q) - 1 : Tail(q)[j] = q[j + 1]
  BY <1>0, TailSeq
<1>2. Got(c) =< Size(c) /\ Head(q) = u
  <2>1. Got(c) =< Size(c) /\ 1 \in 1 .. Under(c) /\ q[1] = Unit(c, Got(c) + 1)
    BY <1>1, Lengths DEF Deliveries, InOrder, Under
  <2> QED BY <1>1, <2>1
<1>3. (u = End <=> ~(Got(c) < Size(c))) /\ (Got(c) < Size(c) => u \in Clients \X Nat)
  BY <1>0, <1>2, UnitType
<1>4. /\ answers' \in [Clients -> Seq(Units)] /\ answers'[c] = Tail(q)
      /\ Under(c)' = Under(c) - 1 /\ Under(c) = Len(q)
      /\ \A d \in Clients : d # c => answers'[d] = answers[d] /\ Under(d)' = Under(d)
  BY <1>0, <1>1, PrivateQueue DEF Under
<1>5. \A d \in Clients : Under(d)' =< QMax
  <2>1. \A d \in Clients : Under(d) =< QMax /\ Under(d) \in Nat
    BY Lengths DEF Types
  <2> HIDE DEF q
  <2> QED BY <1>0, <1>1, <1>4, <2>1
<1> HIDE DEF u
<1>6. CASE ~(Got(c) < Size(c))
  <2>1. cpc' = [cpc EXCEPT ![c] = "remove"] /\ UNCHANGED printed
    BY <1>2, <1>3, <1>6 DEF Receive, CGoto
  <2>2. Types'
    BY <1>0, <1>4, <1>5, <2>1 DEF Types, parent, CLabels
  <2> QED BY <1>0, <1>1, <1>2, <1>4, <1>6, <2>1, <2>2
<1>7. CASE Got(c) < Size(c)
  <2>1. printed' = [printed EXCEPT ![c] = Append(printed[c], u)] /\ cpc' = cpc
    <3>1. printed' = [printed EXCEPT ![c] = Append(printed[c], Head(q))]
          /\ cpc' = [cpc EXCEPT ![c] = "recv"]
      BY <1>2, <1>3, <1>7 DEF Receive, CGoto
    <3> QED BY <1>0, <1>2, <3>1 DEF Types
  <2>2. /\ Append(printed[c], u) \in Seq(Clients \X Nat)
        /\ Len(Append(printed[c], u)) = Got(c) + 1
        /\ \A j \in 1 .. Got(c) : Append(printed[c], u)[j] = printed[c][j]
        /\ Append(printed[c], u)[Got(c) + 1] = u
    BY <1>0, <1>3, <1>7, AppendSeq DEF Got
  <2>3. /\ printed' \in [Clients -> Seq(Clients \X Nat)]
        /\ printed'[c] = Append(printed[c], u) /\ Got(c)' = Got(c) + 1
        /\ \A d \in Clients : d # c => printed'[d] = printed[d]
    BY <2>1, <2>2 DEF Types, Got
  <2>4. Types'
    BY <1>0, <1>4, <1>5, <2>1, <2>3 DEF Types, parent
  <2>5. /\ \A j \in 1 .. Got(c) : printed'[c][j] = printed[c][j]
        /\ printed'[c][Got(c) + 1] = Unit(c, Got(c) + 1)
    BY <2>2, <2>3 DEF u
  <2> QED BY <1>0, <1>1, <1>2, <1>4, <1>7, <2>1, <2>3, <2>4, <2>5
<1> QED BY <1>6, <1>7

\* Steps of a client keep the types.
LEMMA ClientTypes ==
  ASSUME Types, Deliveries, NEW c \in Clients, Client(c) \/ Kill(c)
  PROVE  Types'
<1>1. CASE Send(c)
  <2>1. queue \in Seq(Clients \cup {Bogus}) /\ Len(queue) < QMax /\ QMax \in Nat
    BY <1>1, QMaxAssumption DEF Types, Send
  <2>2. /\ queue' \in Seq(Clients \cup {Bogus}) /\ Len(queue') = Len(queue) + 1
        /\ Len(queue) \in Nat
    <3>1. queue' = Append(queue, c)
      BY <1>1 DEF Send
    <3> QED BY <2>1, <3>1, AppendSeq
  <2>3. Len(queue') =< QMax
    BY <2>1, <2>2
  <2>4. cpc' \in [Clients -> CLabels]
    BY <1>1 DEF Types, Send, CGoto, CLabels
  <2> QED BY <1>1, <2>2, <2>3, <2>4 DEF Types, Send, parent, Under
<1>2. CASE Receive(c)
  BY <1>2, Receives
<1>3. CASE RemoveQueue(c)
  BY <1>3 DEF Types, RemoveQueue, CGoto, CLabels, parent, Under
<1>4. CASE Kill(c)
  BY <1>4 DEF Types, Kill, CLabels, parent, queues, Under
<1> QED BY <1>1, <1>2, <1>3, <1>4 DEF Client

-----------------------------------------------------------------------------
(* Requests *)

\* A request that is taken is in the queue no more.
LEMMA TakeRequest ==
  ASSUME NEW q \in Seq(Clients \cup {Bogus}), q # <<>>, Once(q)
  PROVE  /\ Once(Tail(q)) /\ In(q, Head(q))
         /\ \A c \in Clients : In(Tail(q), c) => In(q, c)
         /\ Head(q) # Bogus => ~In(Tail(q), Head(q))
<1>1. /\ Len(q) >= 1 /\ Head(q) = q[1] /\ Len(Tail(q)) = Len(q) - 1 /\ Len(q) \in Nat
      /\ \A j \in 1 .. Len(q) - 1 : Tail(q)[j] = q[j + 1]
  BY TailSeq
<1>2. \A j \in 1 .. Len(q) - 1 : j + 1 \in 1 .. Len(q) /\ j + 1 # 1
  BY <1>1
<1>3. 1 \in 1 .. Len(q)
  BY <1>1
<1>4. Once(Tail(q))
  <2>1. SUFFICES ASSUME NEW a \in 1 .. Len(q) - 1, NEW b \in 1 .. Len(q) - 1,
                        q[a + 1] = q[b + 1], q[a + 1] # Bogus
                 PROVE  a = b
    BY <1>1 DEF Once
  <2>2. a + 1 = b + 1
    BY <1>2, <2>1 DEF Once
  <2> QED BY <1>1, <2>2
<1>5. \A c \in Clients : In(Tail(q), c) => In(q, c)
  BY <1>1, <1>2 DEF In
<1>6. Head(q) # Bogus => ~In(Tail(q), Head(q))
  BY <1>1, <1>2, <1>3 DEF In, Once
<1> QED BY <1>1, <1>3, <1>4, <1>5, <1>6 DEF In

\* A request that is added is the only one of its client.
LEMMA AddRequest ==
  ASSUME NEW q \in Seq(Clients \cup {Bogus}), Once(q), NEW c \in Clients, ~In(q, c)
  PROVE  Once(Append(q, c)) /\ \A d \in Clients : In(Append(q, c), d) => In(q, d) \/ d = c
<1> DEFINE r == Append(q, c)
           n == Len(q)
<1>1. /\ Len(r) = n + 1 /\ \A j \in 1 .. n : r[j] = q[j]
      /\ r[n + 1] = c /\ n \in Nat
  BY AppendSeq
<1> HIDE DEF r, n
<1>2. \A j \in 1 .. n + 1 : j \in 1 .. n \/ j = n + 1
  BY <1>1
<1>3. \A j \in 1 .. n : q[j] # c
  BY DEF In, n
<1>4. \A a, b \in 1 .. n : q[a] = q[b] /\ q[a] # Bogus => a = b
  BY DEF Once, n
<1>5. Once(r)
  BY <1>1, <1>2, <1>3, <1>4 DEF Once
<1>6. \A d \in Clients : In(r, d) => In(q, d) \/ d = c
  BY <1>1, <1>2 DEF In, n
<1> QED BY <1>5, <1>6 DEF r

\* No client is served by another child when no child is made.
LEMMA KeptChildren ==
  ASSUME Kept
  PROVE  /\ \A c \in Clients : NoChild(c)' <=> NoChild(c)
         /\ (\A k, j \in Pids : children[k].to = children[j].to => k = j)
              => (\A k, j \in Pids : children[k].to = children[j].to => k = j)'
BY DEF Kept, NoChild

\* Nothing happens to the requests, but that some client has gone on.
LEMMA SameRequests ==
  ASSUME Requests, Kept, queue' = queue, spc' = "fork" => spc = "fork" /\ req' = req,
         \A c \in Clients : cpc[c] # "send" => cpc'[c] # "send"
  PROVE  Requests'
BY KeptChildren DEF Requests, InQueue

\* The program starts without a request of its own.
LEMMA InitRequests == Init => Requests
<1> SUFFICES ASSUME Init PROVE Requests
  OBVIOUS
<1>1. children = <<>> /\ spc = "recv" /\ queue \in {<<>>, <<Bogus>>}
  BY DEF Init
<1>2. Pids = {}
  BY <1>1 DEF Pids
<1>3. \A c \in Clients : c # Bogus
  BY NamesAssumption
<1>4. CASE queue = <<>>
  BY <1>1, <1>2, <1>4 DEF Requests, Once, InQueue, In, NoChild
<1>5. CASE queue = <<Bogus>>
  <2>1. Len(<<Bogus>>) = 1 /\ <<Bogus>>[1] = Bogus
    OBVIOUS
  <2>2. \A j \in 1 .. 1 : j = 1
    OBVIOUS
  <2> QED BY <1>1, <1>2, <1>3, <1>5, <2>1, <2>2 DEF Requests, Once, InQueue, In
<1> QED BY <1>1, <1>4, <1>5

\* Steps of the server hand a request on.
LEMMA ServerRequests ==
  ASSUME Types, Requests, Servers
  PROVE  Requests'
<1>1. CASE Recv
  <2>1. queue \in Seq(Clients \cup {Bogus}) /\ queue # <<>> /\ Once(queue)
    BY <1>1 DEF Types, Requests, Recv
  <2>2. /\ Once(queue)' /\ InQueue(req') /\ req' \in Clients \cup {Bogus}
        /\ \A c \in Clients : InQueue(c)' => InQueue(c)
        /\ req' # Bogus => ~In(queue', req')
    BY <1>1, <2>1, TakeRequest, TailSeq DEF Recv, InQueue
  <2>3. children' = children /\ cpc' = cpc /\ (spc' = "fork" => req' # Bogus)
    BY <1>1 DEF Recv, client
  <2>4. ASSUME NEW c \in Clients
        PROVE  (NoChild(c)' <=> NoChild(c)) /\ (InQueue(c) => NoChild(c) /\ cpc[c] # "send")
    BY <2>3 DEF NoChild, Pids, Requests
  <2>5. (\A k, j \in Pids : children[k].to = children[j].to => k = j)'
    BY <2>3 DEF Requests, Pids
  <2>6. spc' = "fork" => /\ req' \in Clients /\ ~In(queue', req')
                         /\ NoChild(req)' /\ cpc'[req'] # "send"
    <3>1. SUFFICES ASSUME spc' = "fork", req' \in Clients
                   PROVE  NoChild(req)' /\ cpc'[req'] # "send"
      BY <2>2, <2>3
    <3>2. PICK c \in Clients : c = req'
      BY <3>1
    <3>3. NoChild(c)' /\ cpc'[c] # "send"
      BY <2>2, <2>3, <2>4, <3>2
    <3> QED BY <3>2, <3>3 DEF NoChild
  <2> QED BY <2>2, <2>3, <2>4, <2>5, <2>6 DEF Requests, InQueue, NoChild
<1>2. CASE Fork
  <2>1. /\ req \in Clients /\ ~InQueue(req) /\ NoChild(req) /\ cpc[req] # "send"
        /\ queue' = queue /\ cpc' = cpc /\ spc' = "recv"
    BY <1>2 DEF Fork, Requests, queues, client
  <2>2. PICK n : /\ children' \in Seq(Child0) /\ n \notin Pids /\ Pids' = Pids \cup {n}
                 /\ \A k \in Pids : children'[k] = children[k]
                 /\ children'[n] = [pc |-> "send", to |-> req, sent |-> 0, mine |-> TRUE]
    BY <1>2, <2>1, ForkChild
  <2>3. \A c \in Clients : NoChild(c) /\ c # req => NoChild(c)'
    BY <2>2 DEF NoChild
  <2>4. (\A k, j \in Pids : children[k].to = children[j].to => k = j)'
    BY <2>1, <2>2 DEF Requests, NoChild
  <2> QED BY <2>1, <2>3, <2>4 DEF Requests, InQueue
<1>3. CASE SigChld
  BY <1>3, ReapChildren, SameRequests DEF SigChld, queues, client
<1>4. CASE Retry
  <2>1. Kept
    BY <1>4, OrphanChildren DEF Retry, Kept, Pids
  <2> QED BY <1>4, <2>1, SameRequests DEF Retry, queues, client
<1>5. CASE Restart
  BY <1>5, SameRequests DEF Restart, queues, client, Kept, Pids
<1> QED BY <1>1, <1>2, <1>3, <1>4, <1>5 DEF Servers, Server

\* A client that has not sent its request has no child.
LEMMA SenderUnknown ==
  ASSUME Deliveries, NEW c \in Clients, cpc[c] = "send"
  PROVE  NoChild(c)
BY DEF Deliveries, NoChild, Sending, Sent

\* Steps of the others leave the requests where they are, or add one.
LEMMA OtherRequests ==
  ASSUME Types, Requests, Deliveries,
         \/ \E k \in Pids : Child(k)
         \/ \E c \in Clients : Client(c) \/ Kill(c)
  PROVE  Requests'
<1>1. ASSUME NEW k \in Pids, Child(k) PROVE Requests'
  <2>1. Kept
    BY <1>1, ChildSends, OneChild DEF ChildDies
  <2> QED BY <1>1, <2>1, SameRequests DEF Child, client
<1>2. ASSUME NEW c \in Clients, Send(c) PROVE Requests'
  <2>1. /\ cpc[c] = "send" /\ cpc' = [cpc EXCEPT ![c] = "recv"] /\ queue' = Append(queue, c)
        /\ children' = children /\ spc' = spc /\ req' = req
    BY <1>2 DEF Send, CGoto, parent
  <2>2. NoChild(c) /\ ~InQueue(c) /\ (spc = "fork" => req # c)
    BY <2>1, SenderUnknown DEF Requests
  <2>3. Once(queue)' /\ \A d \in Clients : InQueue(d)' => InQueue(d) \/ d = c
    BY <2>1, <2>2, AddRequest DEF Types, Requests, InQueue
  <2>4. \A d \in Clients : /\ NoChild(d)' <=> NoChild(d)
                           /\ cpc[d] # "send" \/ d = c => cpc'[d] # "send"
    BY <2>1 DEF NoChild, Pids, Types
  <2>5. (\A k, j \in Pids : children[k].to = children[j].to => k = j)'
    BY <2>1 DEF Requests, Pids
  <2>6. spc' = "fork" => /\ req \in Clients /\ ~InQueue(req) /\ NoChild(req)
                         /\ cpc[req] # "send" /\ req # c
    BY <2>1, <2>2 DEF Requests
  <2>7. ASSUME spc' = "fork"
        PROVE  req' \in Clients /\ ~In(queue', req') /\ NoChild(req)' /\ cpc'[req'] # "send"
    <3>1. PICK d \in Clients : d = req'
      BY <2>1, <2>6, <2>7
    <3>2. NoChild(d)' /\ ~In(queue', d) /\ cpc'[d] # "send"
      BY <2>1, <2>3, <2>4, <2>6, <2>7, <3>1 DEF InQueue
    <3> QED BY <3>1, <3>2 DEF NoChild
  <2>8. \A d \in Clients : InQueue(d)' => NoChild(d)' /\ cpc'[d] # "send"
    BY <2>2, <2>3, <2>4 DEF Requests
  <2> QED BY <2>3, <2>5, <2>7, <2>8 DEF Requests, InQueue, NoChild
<1>3. ASSUME NEW c \in Clients, Receive(c) \/ RemoveQueue(c) \/ Kill(c) PROVE Requests'
  <2>1. /\ queue' = queue /\ children' = children /\ spc' = spc /\ req' = req
        /\ \E l \in CLabels \ {"send"} : cpc' = [cpc EXCEPT ![c] = l]
    BY <1>3 DEF Receive, RemoveQueue, Kill, CGoto, CLabels, parent, queues
  <2>2. Kept /\ \A d \in Clients : cpc[d] # "send" => cpc'[d] # "send"
    BY <2>1 DEF Kept, Pids, Types
  <2> QED BY <2>1, <2>2, SameRequests
<1> QED BY <1>1, <1>2, <1>3 DEF Client

-----------------------------------------------------------------------------
(* Deliveries *)

\* What a step leaves alone of the answer of one client.
Same(c) == /\ lines' = lines /\ printed'[c] = printed[c] /\ answers'[c] = answers[c]
           /\ cpc'[c] = cpc[c] /\ (c \in removed' <=> c \in removed)

\* Then the delivery is where it was.
LEMMA SameDelivery ==
  ASSUME NEW c, Same(c)
  PROVE  /\ (InOrder(c) => InOrder(c)') /\ (Untouched(c) => Untouched(c)')
         /\ \A n : Sending(c, n) => Sending(c, n)'
         /\ (Sent(c) => Sent(c)') /\ Size(c)' = Size(c)
BY DEF Same, InOrder, Untouched, Sending, Sent, Got, Under, Unit, Size, Answer

\* The sizes and the units depend on the file alone.
LEMMA SameUnits ==
  ASSUME lines' = lines, NEW c, NEW j
  PROVE  Size(c)' = Size(c) /\ Unit(c, j)' = Unit(c, j)
BY DEF Size, Unit, Answer

\* Nothing is delivered, and no child stops sending.
LEMMA SameDeliveries ==
  ASSUME Types, Deliveries, Kept, \A c \in Clients : Same(c),
         \A k \in Pids : /\ children'[k].sent = children[k].sent
                         /\ children'[k].pc = "send" <=> children[k].pc = "send"
  PROVE  Deliveries'
<1>1. \A c \in Clients : InOrder(c)' /\ (NoChild(c)' => Untouched(c)')
  BY SameDelivery, KeptChildren DEF Deliveries
<1>2. ASSUME NEW k \in Pids'
      PROVE  IF children'[k].pc = "send" THEN Sending(children[k].to, children[k].sent)'
             ELSE Sent(children[k].to)' /\ children'[k].sent =< Size(children[k].to)'
  <2>1. PICK c \in Clients, n \in Nat : /\ c = children[k].to /\ c = children'[k].to
                                        /\ n = children[k].sent /\ n = children'[k].sent
    BY ChildrenType DEF Kept
  <2>2. /\ children'[k].pc = "send" => Sending(c, n)
        /\ children'[k].pc # "send" => Sent(c) /\ n =< Size(c)
    BY <2>1 DEF Kept, Deliveries
  <2>3. /\ children'[k].pc = "send" => Sending(c, n)'
        /\ children'[k].pc # "send" => Sent(c)' /\ n =< Size(c)'
    BY <2>2, SameDelivery
  <2>4. (Sending(children[k].to, children[k].sent)' <=> Sending(c, n)')
        /\ (Sent(children[k].to)' <=> Sent(c)') /\ Size(children[k].to)' = Size(c)'
    BY <2>1
  <2> QED BY <2>1, <2>3, <2>4
<1> QED BY <1>1, <1>2 DEF Deliveries

\* Before the program starts nothing is delivered.
LEMMA InitDeliveries == Init => Deliveries
<1> SUFFICES ASSUME Init PROVE Deliveries
  OBVIOUS
<1>1. Types /\ children = <<>> /\ removed = {}
  BY InitTypes DEF Init
<1>2. \A c \in Clients : answers[c] = <<>> /\ printed[c] = <<>> /\ cpc[c] = "send"
  BY DEF Init
<1>3. \A c \in Clients : Got(c) = 0 /\ Under(c) = 0 /\ Size(c) \in Nat
  BY <1>1, <1>2, AnswerLines DEF Got, Under
<1>4. \A c \in Clients : InOrder(c) /\ Untouched(c)
  BY <1>1, <1>2, <1>3 DEF InOrder, Untouched
<1>5. Pids = {}
  BY <1>1 DEF Pids
<1> QED BY <1>4, <1>5 DEF Deliveries

\* Steps of the server deliver nothing; a new child starts with the first unit.
LEMMA ServerDeliveries ==
  ASSUME Types, Requests, Deliveries, Servers
  PROVE  Deliveries'
<1>1. CASE Recv
  BY <1>1, SameDeliveries DEF Recv, client, Same, Kept, Pids
<1>2. CASE Fork
  <2>1. /\ req \in Clients /\ NoChild(req) /\ cpc[req] # "send"
        /\ \A c \in Clients : Same(c)
    BY <1>2 DEF Fork, Requests, Same, queues, client
  <2>2. PICK n : /\ children' \in Seq(Child0) /\ n \notin Pids /\ Pids' = Pids \cup {n}
                 /\ \A k \in Pids : children'[k] = children[k]
                 /\ children'[n] = [pc |-> "send", to |-> req, sent |-> 0, mine |-> TRUE]
    BY <1>2, <2>1, ForkChild
  <2>3. \A c \in Clients : NoChild(c)' => NoChild(c)
    BY <2>2 DEF NoChild
  <2>4. \A c \in Clients : InOrder(c)' /\ (NoChild(c)' => Untouched(c)')
    BY <2>1, <2>3, SameDelivery DEF Deliveries
  <2>5. Sending(req, 0)
    BY <2>1, AnswerLines DEF Deliveries, Untouched, Sending
  <2>6. PICK r \in Clients : r = req /\ r = children'[n].to /\ Sending(r, 0)'
    BY <2>1, <2>2, <2>5, SameDelivery
  <2>7. children'[n].pc = "send" /\ children'[n].sent = 0
    BY <2>2
  <2>8. ASSUME NEW k \in Pids
        PROVE  (LET ch == children[k] IN
                IF ch.pc = "send" THEN Sending(ch.to, ch.sent)
                                  ELSE Sent(ch.to) /\ ch.sent =< Size(ch.to))'
    <3>1. PICK c \in Clients, m \in Nat, l \in ChLabels :
            /\ c = children[k].to /\ c = children'[k].to /\ m = children[k].sent
            /\ m = children'[k].sent /\ l = children[k].pc /\ l = children'[k].pc
      BY <2>2, ChildrenType
    <3>2. IF l = "send" THEN Sending(c, m) ELSE Sent(c) /\ m =< Size(c)
      BY <3>1 DEF Deliveries
    <3>3. IF l = "send" THEN Sending(c, m)' ELSE Sent(c)' /\ m =< Size(c)'
      BY <2>1, <3>2, SameDelivery
    <3> QED BY <3>1, <3>3
  <2>9. Sending(children[n].to, children[n].sent)'
    BY <2>6, <2>7
  <2> QED BY <2>2, <2>4, <2>7, <2>8, <2>9 DEF Deliveries
<1>3. CASE SigChld
  <2>1. \A c \in Clients : Same(c)
    BY <1>3 DEF SigChld, Same, queues, client
  <2> QED BY <1>3, <2>1, ReapChildren, SameDeliveries DEF SigChld
<1>4. CASE Retry
  <2>1. \A c \in Clients : Same(c)
    BY <1>4 DEF Retry, Same, queues, client
  <2>2. Kept /\ \A k \in Pids : /\ children'[k].sent = children[k].sent
                                /\ children'[k].pc = children[k].pc
    BY <1>4, OrphanChildren DEF Retry, Kept, Pids
  <2> QED BY <2>1, <2>2, SameDeliveries
<1>5. CASE Restart
  BY <1>5, SameDeliveries DEF Restart, queues, client, Same, Kept, Pids
<1> QED BY <1>1, <1>2, <1>3, <1>4, <1>5 DEF Servers, Server

\* Only the delivery of one client changes, and that of its child.
LEMMA OneDelivery ==
  ASSUME Types, Deliveries, Kept, NEW c \in Clients, InOrder(c)', NoChild(c) => Untouched(c)',
         \A d \in Clients : d # c => Same(d),
         \A k \in Pids : children[k].to # c => children'[k] = children[k],
         \A k \in Pids : children[k].to = c =>
            \E n \in Nat : /\ children'[k].sent = n
                           /\ IF children'[k].pc = "send" THEN Sending(c, n)'
                                                          ELSE Sent(c)' /\ n =< Size(c)'
  PROVE  Deliveries'
<1>1. \A d \in Clients : InOrder(d)' /\ (NoChild(d)' => Untouched(d)')
  BY SameDelivery, KeptChildren DEF Deliveries
<1>2. ASSUME NEW k \in Pids
      PROVE  (LET ch == children[k] IN
              IF ch.pc = "send" THEN Sending(ch.to, ch.sent)
                                ELSE Sent(ch.to) /\ ch.sent =< Size(ch.to))'
  <2>1. CASE children[k].to = c
    <3>1. PICK n \in Nat : /\ children'[k].sent = n /\ children'[k].to = c
                           /\ IF children'[k].pc = "send" THEN Sending(c, n)'
                                                          ELSE Sent(c)' /\ n =< Size(c)'
      BY <2>1 DEF Kept
    <3> QED BY <3>1
  <2>2. CASE children[k].to # c
    <3>1. PICK d \in Clients, m \in Nat, l \in ChLabels :
            /\ d = children[k].to /\ d = children'[k].to /\ m = children[k].sent
            /\ m = children'[k].sent /\ l = children[k].pc /\ l = children'[k].pc /\ d # c
      BY <2>2, ChildrenType
    <3>2. IF l = "send" THEN Sending(d, m) ELSE Sent(d) /\ m =< Size(d)
      BY <3>1 DEF Deliveries
    <3>3. IF l = "send" THEN Sending(d, m)' ELSE Sent(d)' /\ m =< Size(d)'
      BY <3>1, <3>2, SameDelivery
    <3> QED BY <3>1, <3>3
  <2> QED BY <2>1, <2>2
<1> QED BY <1>1, <1>2 DEF Deliveries, Kept

\* A child sends the next unit, and has sent them all when it ends.
LEMMA ChildDeliveries ==
  ASSUME Types, Requests, Deliveries, NEW k \in Pids, Child(k)
  PROVE  Deliveries'
<1>1. PICK c \in Clients, n \in Nat :
        /\ children[k].to = c /\ children[k].sent = n /\ children[k].pc = "send"
        /\ n =< Size(c) /\ Sending(c, n)
        /\ answers' = [answers EXCEPT ![c] = Append(answers[c], Unit(c, n + 1))]
        /\ IF n < Size(c)
           THEN children' = [children EXCEPT ![k].sent = n + 1] /\ UNCHANGED sigchld
           ELSE ChildDies(k)
        /\ UNCHANGED <<lines, queue, removed, spc, errno, req, runs, client>>
  BY ChildSends, ChildrenType
<1>2. /\ Kept /\ \A j \in Pids : j # k => children'[j] = children[j]
      /\ IF n < Size(c) THEN children'[k].sent = n + 1 /\ children'[k].pc = "send"
                        ELSE children'[k].sent = n /\ children'[k].pc = "zombie"
  <2>1. CASE n < Size(c)
    <3>1. children' = [children EXCEPT ![k].sent = children[k].sent + 1]
      BY <1>1, <2>1
    <3>2. Kept /\ \A j \in Pids : j # k => children'[j] = children[j]
      BY <3>1, OneChild
    <3>3. children'[k].sent = n + 1 /\ children'[k].pc = "send"
      BY <1>1, <3>1, ChildrenType DEF Child0
    <3> QED BY <2>1, <3>2, <3>3
  <2>2. CASE ~(n < Size(c))
    <3>1. children' = [children EXCEPT ![k].pc = "zombie"]
      BY <1>1, <2>2 DEF ChildDies
    <3>2. Kept /\ \A j \in Pids : j # k => children'[j] = children[j]
      BY <3>1, OneChild
    <3>3. children'[k].sent = n /\ children'[k].pc = "zombie"
      BY <1>1, <3>1, ChildrenType DEF Child0
    <3> QED BY <2>2, <3>2, <3>3
  <2> QED BY <2>1, <2>2
<1>3. /\ answers[c] \in Seq(Units) /\ Got(c) \in Nat /\ Under(c) \in Nat /\ Size(c) \in Nat
      /\ Unit(c, n + 1) \in Units
  BY Lengths, AnswerLines, UnitType
<1>4. /\ Under(c)' = Under(c) + 1 /\ \A j \in 1 .. Under(c) : answers'[c][j] = answers[c][j]
      /\ answers'[c][Under(c) + 1] = Unit(c, n + 1)
      /\ \A d \in Clients : d # c => answers'[d] = answers[d]
  <2> DEFINE q == Append(answers[c], Unit(c, n + 1))
  <2>1. /\ q \in Seq(Units) /\ Len(q) = Under(c) + 1
        /\ \A j \in 1 .. Under(c) : q[j] = answers[c][j]
        /\ q[Under(c) + 1] = Unit(c, n + 1)
    BY <1>3, AppendSeq DEF Under
  <2> HIDE DEF q
  <2>2. answers' = [answers EXCEPT ![c] = q]
    BY <1>1 DEF q
  <2> QED BY <2>1, <2>2, PrivateQueue
<1>5. /\ Got(c)' = Got(c) /\ Size(c)' = Size(c) /\ \A j : Unit(c, j)' = Unit(c, j)
      /\ printed' = printed /\ cpc' = cpc /\ removed' = removed
  BY <1>1, SameUnits DEF client, Got
<1>6. Got(c) + Under(c) = n /\ cpc[c] \in {"recv", "killed"} /\ c \notin removed
  BY <1>1 DEF Sending
<1>7. InOrder(c)'
  <2>1. /\ Got(c) =< Size(c) /\ \A j \in 1 .. Got(c) : printed[c][j] = Unit(c, j)
        /\ \A j \in 1 .. Under(c) : answers[c][j] = Unit(c, Got(c) + j)
    BY DEF Deliveries, InOrder
  <2>2. \A j \in 1 .. Under(c) + 1 : j \in 1 .. Under(c) \/ j = Under(c) + 1
    BY <1>3
  <2>3. n + 1 = Got(c) + (Under(c) + 1)
    BY <1>3, <1>6
  <2>4. \A j \in 1 .. Under(c) + 1 : answers'[c][j] = Unit(c, Got(c) + j)
    BY <1>4, <2>1, <2>2, <2>3
  <2> QED BY <1>4, <1>5, <2>1, <2>4 DEF InOrder
<1>8. \A d \in Clients : d # c => Same(d)
  BY <1>1, <1>4, <1>5 DEF Same
<1>9. \A j \in Pids : children[j].to = c => j = k
  BY <1>1 DEF Requests
<1>10. ~NoChild(c)
  BY <1>1 DEF NoChild
<1>11. CASE n < Size(c)
  <2>1. Sending(c, n + 1)'
    BY <1>3, <1>4, <1>5, <1>6, <1>11 DEF Sending
  <2> QED BY <1>1, <1>2, <1>7, <1>8, <1>9, <1>10, <1>11, <2>1, OneDelivery
<1>12. CASE ~(n < Size(c))
  <2>1. Sent(c)' /\ n =< Size(c)'
    BY <1>1, <1>3, <1>4, <1>5, <1>6, <1>12 DEF Sent
  <2> QED BY <1>1, <1>2, <1>7, <1>8, <1>9, <1>10, <1>12, <2>1, OneDelivery
<1> QED BY <1>11, <1>12

\* A step of a client that is in keeping with every stage its child can be at.
LEMMA OwnDelivery ==
  ASSUME Types, Deliveries, children' = children, NEW c \in Clients, InOrder(c)',
         Untouched(c) => Untouched(c)', \A n \in Nat : Sending(c, n) => Sending(c, n)',
         Sent(c) => Sent(c)', Size(c)' = Size(c), \A d \in Clients : d # c => Same(d)
  PROVE  Deliveries'
<1>1. Kept
  BY DEF Kept, Pids
<1>2. NoChild(c) => Untouched(c)'
  BY DEF Deliveries
<1>3. ASSUME NEW k \in Pids, children[k].to = c
      PROVE  \E n \in Nat : /\ children'[k].sent = n
                            /\ IF children'[k].pc = "send" THEN Sending(c, n)'
                                                           ELSE Sent(c)' /\ n =< Size(c)'
  <2>1. PICK n \in Nat : children[k].sent = n /\ children'[k].sent = n
    BY ChildrenType
  <2>2. IF children[k].pc = "send" THEN Sending(c, n) ELSE Sent(c) /\ n =< Size(c)
    BY <1>3, <2>1 DEF Deliveries
  <2>3. IF children'[k].pc = "send" THEN Sending(c, n)' ELSE Sent(c)' /\ n =< Size(c)'
    BY <2>2
  <2> QED BY <2>1, <2>3
<1> QED BY <1>1, <1>2, <1>3, OneDelivery

\* Steps of a client take the next unit, or leave the queues alone.
LEMMA ClientDeliveries ==
  ASSUME Types, Deliveries, NEW c \in Clients, Client(c) \/ Kill(c)
  PROVE  Deliveries'
<1>0. /\ Got(c) \in Nat /\ Under(c) \in Nat /\ Size(c) \in Nat /\ InOrder(c)
      /\ cpc \in [Clients -> CLabels]
  BY Lengths, AnswerLines DEF Deliveries, Types
<1>1. CASE Receive(c)
  <2>1. /\ cpc[c] = "recv" /\ Under(c) >= 1 /\ Got(c) =< Size(c) /\ Under(c)' = Under(c) - 1
        /\ \A j \in 1 .. Under(c) - 1 : answers'[c][j] = answers[c][j + 1]
        /\ \/ Got(c) = Size(c) /\ cpc' = [cpc EXCEPT ![c] = "remove"] /\ UNCHANGED printed
           \/ /\ Got(c) < Size(c) /\ UNCHANGED cpc /\ Got(c)' = Got(c) + 1
              /\ \A j \in 1 .. Got(c) : printed'[c][j] = printed[c][j]
              /\ printed'[c][Got(c) + 1] = Unit(c, Got(c) + 1)
        /\ \A d \in Clients : d # c => answers'[d] = answers[d] /\ printed'[d] = printed[d]
        /\ children' = children /\ lines' = lines /\ removed' = removed
    BY <1>1, Receives
  <2>2. Size(c)' = Size(c) /\ \A j : Unit(c, j)' = Unit(c, j)
    BY <2>1, SameUnits
  <2>3. ~Untouched(c) /\ \A d \in Clients : d # c => Same(d)
    BY <1>0, <2>1 DEF Untouched, Same
  <2>4. /\ \A j \in 1 .. Got(c) : printed[c][j] = Unit(c, j)
        /\ \A j \in 1 .. Under(c) - 1 : answers'[c][j] = Unit(c, Got(c) + (j + 1))
    <3>1. \A j \in 1 .. Under(c) : answers[c][j] = Unit(c, Got(c) + j)
      BY <1>0 DEF InOrder
    <3>2. \A j \in 1 .. Under(c) - 1 : j + 1 \in 1 .. Under(c)
      BY <1>0
    <3> QED BY <1>0, <2>1, <3>1, <3>2 DEF InOrder
  <2>5. CASE Got(c) = Size(c)
    <3>1. cpc'[c] = "remove" /\ printed' = printed /\ Got(c)' = Got(c)
      BY <1>0, <2>1, <2>5 DEF Got
    <3>2. \A n \in Nat : ~Sending(c, n)
      BY <1>0, <2>1, <2>5 DEF Sending
    <3>3. Sent(c) => Sent(c)'
      BY <1>0, <2>1, <2>2, <2>5, <3>1 DEF Sent
    <3>4. Sent(c) => Under(c) = 1
      BY <1>0, <2>1, <2>5 DEF Sent
    <3>5. ~NoChild(c)
      BY <2>3 DEF Deliveries
    <3>6. Sent(c)
      BY <3>2, <3>5, ChildrenType DEF NoChild, Deliveries
    <3>7. Under(c)' = 0
      BY <2>1, <3>4, <3>6
    <3>8. InOrder(c)'
      BY <2>1, <2>2, <2>4, <3>1, <3>7 DEF InOrder
    <3> QED BY <2>1, <2>2, <2>3, <3>2, <3>3, <3>8, OwnDelivery
  <2>6. CASE Got(c) < Size(c)
    <3>1. /\ cpc' = cpc /\ Got(c)' = Got(c) + 1
          /\ \A j \in 1 .. Got(c) : printed'[c][j] = printed[c][j]
          /\ printed'[c][Got(c) + 1] = Unit(c, Got(c) + 1)
      BY <1>0, <2>1, <2>6
    <3>2. \A j \in 1 .. Got(c) + 1 : j \in 1 .. Got(c) \/ j = Got(c) + 1
      BY <1>0
    <3>3. \A j \in 1 .. Got(c) + 1 : printed'[c][j] = Unit(c, j)
      BY <2>4, <3>1, <3>2
    <3>4. \A j \in 1 .. Under(c) - 1 : Got(c) + (j + 1) = (Got(c) + 1) + j
      BY <1>0
    <3>5. \A j \in 1 .. Under(c) - 1 : answers'[c][j] = Unit(c, (Got(c) + 1) + j)
      BY <2>4, <3>4
    <3>6. InOrder(c)'
      <4>1. Got(c) + 1 =< Size(c)
        BY <1>0, <2>6
      <4> QED BY <2>1, <2>2, <3>1, <3>3, <3>5, <4>1 DEF InOrder
    <3>7. \A n \in Nat : Sending(c, n) => Sending(c, n)'
      BY <1>0, <2>1, <2>2, <3>1 DEF Sending
    <3>8. Sent(c) => Sent(c)'
      BY <1>0, <2>1, <2>2, <2>6, <3>1 DEF Sent
    <3> QED BY <2>1, <2>2, <2>3, <3>6, <3>7, <3>8, OwnDelivery
  <2> QED BY <1>0, <2>1, <2>5, <2>6
<1>2. CASE Send(c) \/ RemoveQueue(c) \/ Kill(c)
  <2>1. /\ children' = children /\ lines' = lines /\ printed' = printed /\ answers' = answers
        /\ \/ cpc[c] = "send" /\ cpc' = [cpc EXCEPT ![c] = "recv"] /\ removed' = removed
           \/ cpc[c] = "remove" /\ cpc' = [cpc EXCEPT ![c] = "exit"]
              /\ removed' = removed \cup {c}
           \/ cpc[c] \in {"recv", "remove"} /\ cpc' = [cpc EXCEPT ![c] = "killed"]
              /\ removed' = removed
    BY <1>2 DEF Send, RemoveQueue, Kill, CGoto, parent, queues
  <2>2. /\ Size(c)' = Size(c) /\ Got(c)' = Got(c) /\ Under(c)' = Under(c)
        /\ \A j : Unit(c, j)' = Unit(c, j)
    BY <2>1, SameUnits DEF Got, Under
  <2>3. InOrder(c)'
    BY <1>0, <2>1, <2>2 DEF InOrder
  <2>4. \A d \in Clients : d # c => Same(d)
    BY <1>0, <2>1 DEF Same
  <2>5. \/ cpc[c] = "send" /\ cpc'[c] = "recv" /\ removed' = removed
        \/ cpc[c] = "remove" /\ cpc'[c] = "exit"
        \/ cpc[c] \in {"recv", "remove"} /\ cpc'[c] = "killed" /\ removed' = removed
    BY <1>0, <2>1
  <2>6. Untouched(c) => Untouched(c)'
    BY <2>2, <2>5 DEF Untouched
  <2>7. \A n \in Nat : Sending(c, n) => Sending(c, n)'
    BY <2>2, <2>5 DEF Sending
  <2>8. Sent(c) => Sent(c)'
    BY <2>2, <2>5 DEF Sent
  <2> QED BY <2>1, <2>2, <2>3, <2>4, <2>6, <2>7, <2>8, OwnDelivery
<1> QED BY <1>1, <1>2 DEF Client

-----------------------------------------------------------------------------
(* Ended children *)

\* A parent that runs has an ended child that no signal tells of.
LEMMA ZombieChild ==
  /\ NoZombieForgotten <=>
       (spc # "exit" /\ (\E k \in Pids : children[k].mine /\ children[k].pc = "zombie") => sigchld)
  /\ NoZombieForgotten' <=>
       (spc # "exit" /\ (\E k \in Pids : children[k].mine /\ children[k].pc = "zombie") => sigchld)'
BY DEF NoZombieForgotten, Mine

\* No child is forgotten as long as nothing happens to the children.
LEMMA NoneEnds ==
  ASSUME Zombies, spc' = spc, sigchld' = sigchld, Pids' = Pids, children' = children
  PROVE  Zombies'
<1>1. NoZombieForgotten'
  BY ZombieChild DEF Zombies
<1>2. (spc = "exit" => \A k \in Pids : ~children[k].mine)'
  BY DEF Zombies
<1> QED BY <1>1, <1>2 DEF Zombies

\* Every step keeps the zombies known.
LEMMA StepZombies ==
  ASSUME Types, Requests, Deliveries, Zombies, Next
  PROVE  Zombies'
<1>1. CASE Recv
  <2>1. /\ children' = children /\ sigchld' = sigchld /\ spc # "exit" /\ spc' # "exit"
    BY <1>1 DEF Recv
  <2>2. NoZombieForgotten'
    BY <2>1, ZombieChild DEF Zombies, Pids
  <2> QED BY <2>1, <2>2 DEF Zombies
<1>2. CASE Fork
  <2>1. PICK n : /\ children' \in Seq(Child0) /\ n \notin Pids /\ Pids' = Pids \cup {n}
                 /\ \A k \in Pids : children'[k] = children[k]
                 /\ children'[n] = [pc |-> "send", to |-> req, sent |-> 0, mine |-> TRUE]
    BY <1>2, ForkChild DEF Fork, Requests
  <2>2. sigchld' = sigchld /\ spc # "exit" /\ spc' # "exit" /\ children'[n].pc # "zombie"
    <3>1. children'[n].pc = "send"
      BY <2>1
    <3> QED BY <1>2, <3>1 DEF Fork
  <2>3. NoZombieForgotten'
    BY <2>1, <2>2, ZombieChild DEF Zombies
  <2> QED BY <2>2, <2>3 DEF Zombies
<1>3. CASE SigChld
  <2>1. /\ Kept /\ spc # "exit" /\ spc' # "exit"
        /\ \A k \in Pids : children'[k].mine => children'[k].pc # "zombie"
    BY <1>3, ReapChildren DEF SigChld
  <2>2. NoZombieForgotten'
    BY <2>1, ZombieChild DEF Kept
  <2> QED BY <2>1, <2>2 DEF Zombies
<1>4. CASE Retry
  <2>1. CASE errno = "EINTR"
    <3>1. children' = children /\ sigchld' = sigchld /\ spc # "exit" /\ spc' # "exit"
      BY <1>4, <2>1 DEF Retry
    <3>2. NoZombieForgotten'
      BY <3>1, ZombieChild DEF Zombies, Pids
    <3> QED BY <3>1, <3>2 DEF Zombies
  <2>2. CASE errno # "EINTR"
    <3>1. spc' = "exit" /\ Kept /\ \A k \in Pids : children'[k].mine = FALSE
      BY <1>4, <2>2, OrphanChildren DEF Retry
    <3> QED BY <3>1 DEF Zombies, NoZombieForgotten, Kept
  <2> QED BY <2>1, <2>2
<1>5. CASE Restart
  <2>1. /\ children' = children /\ spc = "exit" /\ spc' # "exit"
        /\ \A k \in Pids : ~children[k].mine
    BY <1>5 DEF Restart, Zombies
  <2>2. NoZombieForgotten'
    BY <2>1, ZombieChild DEF Pids
  <2> QED BY <2>1, <2>2 DEF Zombies
<1>6. ASSUME NEW k \in Pids, Child(k) PROVE Zombies'
  <2>1. /\ spc' = spc /\ Kept /\ \A j \in Pids : children'[j].mine = children[j].mine
        /\ \A j \in Pids : j # k => children'[j] = children[j]
    BY <1>6, ChildSends, OneChild DEF ChildDies
  <2>2. \/ sigchld' = sigchld /\ children'[k].pc = children[k].pc
        \/ sigchld' = IF children[k].mine THEN TRUE ELSE sigchld
    <3>1. CASE children[k].sent < Size(children[k].to)
      <4>1. /\ children' = [children EXCEPT ![k].sent = children[k].sent + 1]
            /\ sigchld' = sigchld
        BY <1>6, <3>1, ChildSends
      <4>2. children'[k].pc = children[k].pc
        BY <4>1, ChildrenType DEF Child0
      <4> QED BY <4>1, <4>2
    <3>2. CASE ~(children[k].sent < Size(children[k].to))
      BY <1>6, <3>2, ChildSends DEF ChildDies
    <3> QED BY <3>1, <3>2
  <2>3. NoZombieForgotten'
    BY <2>1, <2>2, ZombieChild DEF Zombies, Kept
  <2> QED BY <2>1, <2>3 DEF Zombies, Kept
<1>7. ASSUME NEW c \in Clients, Client(c) \/ Kill(c) PROVE Zombies'
  <2>1. children' = children /\ sigchld' = sigchld /\ spc' = spc
    BY <1>7 DEF Client, Send, Receive, RemoveQueue, Kill, parent
  <2>2. Pids' = Pids
    BY <2>1 DEF Pids
  <2> QED BY <2>1, <2>2, NoneEnds
<1> QED BY <1>1, <1>2, <1>3, <1>4, <1>5, <1>6, <1>7 DEF Next, Step, Server

-----------------------------------------------------------------------------
(* The invariant *)

\* Every step keeps the four parts.
LEMMA StepInv ==
  ASSUME IInv, Next
  PROVE  IInv'
<1>0. Types /\ Requests /\ Deliveries /\ Zombies
  BY DEF IInv
<1>1. CASE Servers
  BY <1>0, <1>1, ServerTypes, ServerRequests, ServerDeliveries, StepZombies DEF IInv
<1>2. CASE \E k \in Pids : Child(k)
  BY <1>0, <1>2, ChildTypes, OtherRequests, ChildDeliveries, StepZombies DEF IInv
<1>3. CASE \E c \in Clients : Client(c) \/ Kill(c)
  BY <1>0, <1>3, ClientTypes, OtherRequests, ClientDeliveries, StepZombies DEF IInv
<1> QED BY <1>1, <1>2, <1>3 DEF Next, Step, Servers

\* A step that changes nothing keeps them.
LEMMA StutterInv ==
  ASSUME IInv, UNCHANGED vars
  PROVE  IInv'
<1>0. /\ Types /\ Requests /\ Deliveries /\ Zombies
      /\ UNCHANGED <<lines, queue, answers, removed, spc, errno, sigchld, req, runs>>
      /\ UNCHANGED <<children, cpc, printed>>
  BY DEF IInv, vars, queues, parent, client
<1>1. Types'
  BY <1>0 DEF Types, Under
<1>2. Kept /\ \A c \in Clients : Same(c)
  BY <1>0 DEF Kept, Same, Pids
<1>3. Requests'
  BY <1>0, <1>2, SameRequests
<1>4. Deliveries'
  BY <1>0, <1>2, SameDeliveries
<1>5. Zombies'
  <2>1. Pids' = Pids
    BY <1>0 DEF Pids
  <2> QED BY <1>0, <2>1, NoneEnds
<1> QED BY <1>1, <1>3, <1>4, <1>5 DEF IInv

\* The initial states satisfy them.
LEMMA InitInv == Init => IInv
<1> SUFFICES ASSUME Init PROVE IInv
  OBVIOUS
<1>1. children = <<>> /\ spc = "recv"
  BY DEF Init
<1>2. Pids = {}
  BY <1>1 DEF Pids
<1>3. Zombies
  BY <1>1, <1>2, ZombieChild DEF Zombies
<1> QED BY <1>3, InitTypes, InitRequests, InitDeliveries DEF IInv

\* Requests are handed on one by one and answers sent in order, whoever is
\* killed, waits for a full queue, or starts the server again: IInv holds always.
THEOREM ReuseInvariant == Spec => []IInv
<1>1. IInv /\ [Next]_vars => IInv'
  BY StepInv, StutterInv
<1> QED BY <1>1, InitInv, PTL DEF Spec

\* Every private queue holds units of the answer of its client.
LEMMA QueuedUnits ==
  ASSUME Types, Deliveries, NEW c \in Clients
  PROVE  ToSet(answers[c]) \subseteq ToSet(Answer(c)) \cup {End}
<1>1. /\ answers[c] \in Seq(Units) /\ Answer(c) \in Seq(Clients \X Nat)
      /\ Got(c) \in Nat /\ Under(c) \in Nat /\ Size(c) \in Nat
  BY Lengths, AnswerLines
<1>2. \A j \in 1 .. Under(c) : answers[c][j] = Unit(c, Got(c) + j)
  BY DEF Deliveries, InOrder
<1>3. ASSUME NEW j \in 1 .. Under(c)
      PROVE  answers[c][j] \in ToSet(Answer(c)) \cup {End}
  <2> DEFINE i == Got(c) + j
  <2>1. CASE i =< Size(c)
    <3>1. i \in 1 .. Size(c)
      BY <1>1, <2>1
    <3>2. answers[c][j] = Answer(c)[i] /\ i \in DOMAIN Answer(c)
      BY <1>1, <1>2, <2>1, <3>1 DEF Unit, Size
    <3> QED BY <3>2 DEF ToSet
  <2>2. CASE ~(i =< Size(c))
    BY <1>2, <2>2 DEF Unit
  <2> QED BY <2>1, <2>2
<1>4. DOMAIN answers[c] = 1 .. Under(c)
  BY <1>1 DEF Under
<1> QED BY <1>3, <1>4 DEF ToSet

\* TypeOK holds at every step: in particular no queue holds more than QMax
\* messages, no client is served by two children, and no child sends a line its
\* file does not have.
THEOREM ReuseTypeCorrect == Spec => []TypeOK
<1>1. ASSUME IInv PROVE TypeOK
  <2>0. Types /\ Requests /\ Deliveries
    BY <1>1 DEF IInv
  <2>1. ASSUME NEW c \in Clients
        PROVE  /\ Len(answers[c]) =< QMax /\ ToSet(answers[c]) \subseteq ToSet(Answer(c)) \cup {End}
               /\ printed[c] \in Seq(Clients \X Nat)
    BY <2>0, QueuedUnits DEF Types, Under
  <2>2. ASSUME NEW k \in Pids
        PROVE  /\ children[k].pc \in ChLabels /\ children[k].to \in Clients
               /\ children[k].sent \in 0 .. Len(Answer(children[k].to))
               /\ \A j \in Pids : children[j].to = children[k].to => j = k
    <3>1. PICK c \in Clients, n \in Nat : c = children[k].to /\ n = children[k].sent
      BY <2>0, ChildrenType
    <3>2. n =< Size(c) /\ Size(c) \in Nat
      BY <2>0, <3>1, AnswerLines DEF Deliveries, Sending
    <3>3. n \in 0 .. Size(c)
      BY <3>2
    <3> QED BY <2>0, <3>1, <3>3, ChildrenType DEF Requests, Size
  <2> QED BY <2>0, <2>1, <2>2 DEF Types, TypeOK
<1> QED BY <1>1, ReuseInvariant, PTL

\* OwnAnswer holds at every step: whatever the other children send meanwhile,
\* and although the queues outlive a server that ends, what a client prints is a
\* beginning of its own answer, and all of it when the client removes its queue.
THEOREM OwnAnswerGiven == Spec => []OwnAnswer
<1>1. ASSUME IInv PROVE OwnAnswer
  <2>0. Types /\ Deliveries
    BY <1>1 DEF IInv
  <2>1. SUFFICES ASSUME NEW c \in Clients
                 PROVE  /\ IsPrefix(printed[c], Answer(c))
                        /\ cpc[c] \in {"remove", "exit"} => printed[c] = Answer(c)
    BY DEF OwnAnswer
  <2>2. /\ printed[c] \in Seq(Clients \X Nat) /\ Answer(c) \in Seq(Clients \X Nat)
        /\ Got(c) \in Nat /\ Size(c) \in Nat /\ Under(c) \in Nat
    BY <2>0, Lengths, AnswerLines
  <2>3. Got(c) =< Size(c) /\ \A j \in 1 .. Got(c) : printed[c][j] = Answer(c)[j]
    <3>1. Got(c) =< Size(c) /\ \A j \in 1 .. Got(c) : printed[c][j] = Unit(c, j)
      BY <2>0 DEF Deliveries, InOrder
    <3>2. \A j \in 1 .. Got(c) : j =< Size(c)
      BY <2>2, <3>1
    <3> QED BY <3>1, <3>2 DEF Unit
  <2>4. IsPrefix(printed[c], Answer(c))
    BY <2>2, <2>3 DEF IsPrefix, Got, Size
  <2>5. ASSUME cpc[c] \in {"remove", "exit"} PROVE printed[c] = Answer(c)
    <3>1. ~Untouched(c) /\ \A n : ~Sending(c, n)
      BY <2>5 DEF Untouched, Sending
    <3>2. PICK k \in Pids : children[k].to = c
      BY <2>0, <3>1 DEF Deliveries, NoChild
    <3>3. Sent(c)
      BY <2>0, <3>1, <3>2 DEF Deliveries
    <3>4. Got(c) = Size(c)
      BY <2>5, <3>3 DEF Sent
    <3> QED BY <2>2, <2>3, <3>4, SameSeq DEF Got, Size
  <2> QED BY <2>4, <2>5
<1> QED BY <1>1, ReuseInvariant, PTL

\* NoZombieForgotten holds at every step: sig_chld's loop reaps every child that
\* has ended, so that many ends may share one signal.
THEOREM NoneForgotten == Spec => []NoZombieForgotten
<1>1. IInv => NoZombieForgotten
  BY DEF IInv, Zombies
<1> QED BY <1>1, ReuseInvariant, PTL

-----------------------------------------------------------------------------
(* What the clients are promised *)

\* What a client's answer looks like from outside: how far the client is, whose
\* requests were taken up, and how many units each client was sent.
Stage(c) == CASE cpc[c] = "send"                -> "idle"
              [] cpc[c] = "recv"                -> "waiting"
              [] cpc[c] \in {"remove", "exit"}  -> "done"
              [] cpc[c] = "killed"              -> "gone"
ChildOf(c) == CHOOSE k \in Pids : children[k].to = c
Posted(c)  == IF NoChild(c) THEN 0
              ELSE IF children[ChildOf(c)].pc = "send" THEN children[ChildOf(c)].sent
              ELSE Size(c) + 1
Service == INSTANCE AnswerService WITH
             Line    <- Clients \X Nat,
             answer  <- [c \in Clients |-> Answer(c)],
             stage   <- [c \in Clients |-> Stage(c)],
             serving <- {c \in Clients : ~NoChild(c)},
             sent    <- [c \in Clients |-> Posted(c)]

\* What was sent to a client is what its child has sent, or the whole answer.
LEMMA PostedByChild ==
  ASSUME NEW c, NEW k \in Pids, children[k].to = c, \A j \in Pids : children[j].to = c => j = k
  PROVE  /\ ~NoChild(c)
         /\ Posted(c) = IF children[k].pc = "send" THEN children[k].sent ELSE Size(c) + 1
<1>1. ChildOf(c) = k
  BY DEF ChildOf
<1> QED BY <1>1 DEF Posted, NoChild

\* The same after a step.
LEMMA PostedByChildNext ==
  ASSUME NEW c, NEW k \in Pids', children'[k].to = c,
         \A j \in Pids' : children'[j].to = c => j = k
  PROVE  /\ ~NoChild(c)'
         /\ Posted(c)' = IF children'[k].pc = "send" THEN children'[k].sent ELSE Size(c)' + 1
<1>1. ChildOf(c)' = k
  BY DEF ChildOf
<1> QED BY <1>1 DEF Posted, NoChild

\* Files do not change.
LEMMA SameAnswer ==
  ASSUME lines' = lines, NEW c
  PROVE  Answer(c)' = Answer(c) /\ Size(c)' = Size(c)
BY DEF Answer, Size

\* A step sends nothing to a client whose child stays as it is.
LEMMA SamePosted ==
  ASSUME Requests, Kept, lines' = lines, NEW c \in Clients,
         \A k \in Pids : children[k].to = c =>
            /\ children'[k].sent = children[k].sent
            /\ children'[k].pc = "send" <=> children[k].pc = "send"
  PROVE  Posted(c)' = Posted(c) /\ (NoChild(c)' <=> NoChild(c))
<1>1. NoChild(c)' <=> NoChild(c)
  BY KeptChildren
<1>2. CASE NoChild(c)
  BY <1>1, <1>2 DEF Posted
<1>3. CASE ~NoChild(c)
  <2>1. PICK k \in Pids : children[k].to = c
    BY <1>3 DEF NoChild
  <2>2. \A j \in Pids : children[j].to = c => j = k
    BY <2>1 DEF Requests
  <2>3. k \in Pids' /\ children'[k].to = c /\ \A j \in Pids' : children'[j].to = c => j = k
    BY <2>1, <2>2 DEF Kept
  <2>4. Posted(c) = IF children[k].pc = "send" THEN children[k].sent ELSE Size(c) + 1
    BY <2>1, <2>2, PostedByChild
  <2>5. Posted(c)' = IF children'[k].pc = "send" THEN children'[k].sent ELSE Size(c)' + 1
    BY <2>3, PostedByChildNext
  <2> QED BY <1>1, <2>1, <2>4, <2>5, SameAnswer
<1> QED BY <1>2, <1>3

\* A client whose queue is not empty was sent more than it has printed, and the
\* end of the answer when it has printed all of it.
LEMMA PostedAhead ==
  ASSUME Types, Requests, Deliveries, NEW c \in Clients, Under(c) >= 1, cpc[c] = "recv"
  PROVE  /\ Posted(c) \in Nat /\ Got(c) + 1 =< Posted(c)
         /\ Got(c) = Size(c) => Posted(c) = Size(c) + 1
<1>0. Got(c) \in Nat /\ Under(c) \in Nat /\ Size(c) \in Nat /\ Got(c) =< Size(c)
  BY Lengths, AnswerLines DEF Deliveries, InOrder
<1>1. PICK k \in Pids : children[k].to = c
  BY <1>0 DEF Deliveries, Untouched, NoChild
<1>2. Posted(c) = IF children[k].pc = "send" THEN children[k].sent ELSE Size(c) + 1
  BY <1>1, PostedByChild DEF Requests
<1>3. children[k].pc = "send" => Got(c) + Under(c) = children[k].sent /\ children[k].sent =< Size(c)
  BY <1>1 DEF Deliveries, Sending
<1>4. children[k].sent \in Nat
  BY ChildrenType
<1> QED BY <1>0, <1>2, <1>3, <1>4

\* A step nobody outside can see.
Hidden == /\ \A c \in Clients : /\ Stage(c)' = Stage(c) /\ Posted(c)' = Posted(c)
                                /\ NoChild(c)' <=> NoChild(c)
          /\ lines' = lines /\ printed' = printed

LEMMA HiddenStep == Hidden => UNCHANGED Service!vars
<1> SUFFICES ASSUME Hidden PROVE UNCHANGED Service!vars
  OBVIOUS
<1>1. [c \in Clients |-> Answer(c)]' = [c \in Clients |-> Answer(c)]
  BY SameAnswer DEF Hidden
<1>2. [c \in Clients |-> Stage(c)]' = [c \in Clients |-> Stage(c)]
  BY DEF Hidden
<1>3. {c \in Clients : ~NoChild(c)}' = {c \in Clients : ~NoChild(c)}
  BY DEF Hidden
<1>4. [c \in Clients |-> Posted(c)]' = [c \in Clients |-> Posted(c)]
  BY DEF Hidden
<1> QED BY <1>1, <1>2, <1>3, <1>4 DEF Service!vars, Hidden

\* The server takes a request up when it forks; all else it does is hidden.
LEMMA ServerServes ==
  ASSUME IInv, IInv', Servers
  PROVE  UNCHANGED Service!vars \/ \E c \in Clients : Service!TakeUp(c)
<1>0. Types /\ Requests /\ Deliveries /\ Requests'
  BY DEF IInv
<1>1. /\ lines' = lines /\ printed' = printed /\ cpc' = cpc
      /\ \A c \in Clients : Stage(c)' = Stage(c)
  <2>1. CASE Recv \/ Fork \/ SigChld \/ Retry
    BY <2>1 DEF Recv, Fork, SigChld, Retry, client, queues, Stage
  <2>2. CASE Restart
    <3>1. UNCHANGED <<lines, client>>
      BY <2>2, Zenon DEF Restart
    <3> QED BY <3>1 DEF client, Stage
  <2> QED BY <2>1, <2>2 DEF Servers, Server
<1>2. CASE ~Fork
  <2>1. Kept /\ \A k \in Pids : /\ children'[k].sent = children[k].sent
                                /\ children'[k].pc = "send" <=> children[k].pc = "send"
    <3>1. CASE children' = children
      BY <3>1 DEF Kept, Pids
    <3>2. CASE SigChld
      BY <1>0, <3>2, ReapChildren DEF SigChld
    <3>3. CASE Retry
      BY <1>0, <3>1, <3>3, OrphanChildren DEF Retry
    <3>4. Restart => children' = children
      BY Zenon DEF Restart
    <3> QED BY <1>2, <3>1, <3>2, <3>3, <3>4 DEF Servers, Server, Recv
  <2>2. \A c \in Clients : Posted(c)' = Posted(c) /\ (NoChild(c)' <=> NoChild(c))
    BY <1>0, <1>1, <2>1, SamePosted
  <2> QED BY <1>1, <2>2, HiddenStep DEF Hidden
<1>3. CASE Fork
  <2>1. PICK c \in Clients : c = req
    BY <1>0, <1>3 DEF Fork, Requests
  <2>2. NoChild(c) /\ Stage(c) # "idle"
    <3>1. NoChild(req) /\ cpc[req] # "send"
      BY <1>0, <1>3 DEF Fork, Requests
    <3>2. cpc \in [Clients -> CLabels]
      BY <1>0 DEF Types
    <3> QED BY <2>1, <3>1, <3>2 DEF Stage, CLabels
  <2>3. PICK n : /\ children' \in Seq(Child0) /\ n \notin Pids /\ Pids' = Pids \cup {n}
                 /\ \A k \in Pids : children'[k] = children[k]
                 /\ children'[n] = [pc |-> "send", to |-> req, sent |-> 0, mine |-> TRUE]
    BY <1>0, <1>3, <2>1, ForkChild
  <2>4. ~NoChild(c)' /\ Posted(c)' = Posted(c)
    <3>1. children'[n].to = c /\ children'[n].pc = "send" /\ children'[n].sent = 0
      BY <2>1, <2>3
    <3>2. \A j \in Pids' : children'[j].to = c => j = n
      BY <2>2, <2>3 DEF NoChild
    <3>3. ~NoChild(c)' /\ Posted(c)' = 0
      BY <2>3, <3>1, <3>2, PostedByChildNext
    <3> QED BY <2>2, <3>3 DEF Posted
  <2>5. ASSUME NEW d \in Clients, d # c
        PROVE  Posted(d)' = Posted(d) /\ (NoChild(d)' <=> NoChild(d))
    <3>1. NoChild(d)' <=> NoChild(d)
      BY <2>1, <2>3, <2>5 DEF NoChild
    <3>2. CASE NoChild(d)
      BY <3>1, <3>2 DEF Posted
    <3>3. CASE ~NoChild(d)
      <4>1. PICK k \in Pids : children[k].to = d
        BY <3>3 DEF NoChild
      <4>2. /\ k \in Pids' /\ children'[k] = children[k]
            /\ \A j \in Pids : children[j].to = d => j = k
            /\ \A j \in Pids' : children'[j].to = d => j = k
        BY <1>0, <2>1, <2>3, <2>5, <4>1 DEF Requests
      <4>3. Posted(d) = IF children[k].pc = "send" THEN children[k].sent ELSE Size(d) + 1
        BY <4>1, <4>2, PostedByChild
      <4>4. Posted(d)' = IF children'[k].pc = "send" THEN children'[k].sent ELSE Size(d)' + 1
        BY <4>1, <4>2, PostedByChildNext
      <4> QED BY <1>1, <3>1, <4>2, <4>3, <4>4, SameAnswer
    <3> QED BY <3>2, <3>3
  <2>6. {d \in Clients : ~NoChild(d)}' = {d \in Clients : ~NoChild(d)} \cup {c}
    BY <2>4, <2>5
  <2>7. [d \in Clients |-> Posted(d)]' = [d \in Clients |-> Posted(d)]
    BY <2>4, <2>5
  <2>8. /\ [d \in Clients |-> Answer(d)]' = [d \in Clients |-> Answer(d)]
        /\ [d \in Clients |-> Stage(d)]' = [d \in Clients |-> Stage(d)]
    BY <1>1, SameAnswer
  <2>9. Service!TakeUp(c)
    BY <1>1, <2>2, <2>6, <2>7, <2>8 DEF Service!TakeUp
  <2> QED BY <2>9
<1> QED BY <1>2, <1>3

\* A child tells its client the next unit.
LEMMA ChildServes ==
  ASSUME IInv, IInv', NEW k \in Pids, Child(k)
  PROVE  \E c \in Clients : Service!Tell(c)
<1>0. Types /\ Requests /\ Deliveries /\ Requests'
  BY DEF IInv
<1>1. PICK c \in Clients, n \in Nat :
        /\ children[k].to = c /\ children[k].sent = n /\ children[k].pc = "send" /\ n =< Size(c)
        /\ IF n < Size(c)
           THEN children' = [children EXCEPT ![k].sent = n + 1]
           ELSE children' = [children EXCEPT ![k].pc = "zombie"]
        /\ lines' = lines /\ cpc' = cpc /\ printed' = printed
  <2>1. LET ch == children[k]
            c  == children[k].to IN
        /\ c \in Clients /\ ch.pc = "send" /\ ch.sent =< Size(c) /\ ch.sent \in Nat
        /\ IF ch.sent < Size(c)
           THEN children' = [children EXCEPT ![k].sent = ch.sent + 1]
           ELSE children' = [children EXCEPT ![k].pc = "zombie"]
        /\ UNCHANGED <<lines, client>>
    BY <1>0, ChildSends, ChildrenType DEF ChildDies
  <2> QED BY <2>1 DEF client
<1>2. /\ Kept /\ \A j \in Pids : j # k => children'[j] = children[j]
      /\ IF n < Size(c) THEN children'[k].sent = n + 1 /\ children'[k].pc = "send"
                        ELSE children'[k].pc = "zombie"
  <2>1. CASE n < Size(c)
    <3>1. children' = [children EXCEPT ![k].sent = children[k].sent + 1]
      BY <1>1, <2>1
    <3>2. Kept /\ \A j \in Pids : j # k => children'[j] = children[j]
      BY <1>0, <3>1, OneChild
    <3>3. children'[k].sent = n + 1 /\ children'[k].pc = "send"
      BY <1>0, <1>1, <3>1, ChildrenType DEF Child0
    <3> QED BY <2>1, <3>2, <3>3
  <2>2. CASE ~(n < Size(c))
    <3>1. children' = [children EXCEPT ![k].pc = "zombie"]
      BY <1>1, <2>2
    <3>2. Kept /\ \A j \in Pids : j # k => children'[j] = children[j]
      BY <1>0, <3>1, OneChild
    <3>3. children'[k].pc = "zombie"
      BY <1>0, <3>1, ChildrenType DEF Child0
    <3> QED BY <2>2, <3>2, <3>3
  <2> QED BY <2>1, <2>2
<1>3. /\ Size(c) \in Nat /\ Size(c)' = Size(c)
      /\ k \in Pids' /\ children'[k].to = c
      /\ \A j \in Pids : children[j].to = c => j = k
      /\ \A j \in Pids' : children'[j].to = c => j = k
  BY <1>0, <1>1, <1>2, AnswerLines, SameAnswer DEF Kept, Requests
<1>4. Posted(c) = n /\ ~NoChild(c)
  BY <1>1, <1>3, PostedByChild
<1>5. Posted(c)' = n + 1 /\ ~NoChild(c)'
  <2>1. /\ ~NoChild(c)'
        /\ Posted(c)' = IF children'[k].pc = "send" THEN children'[k].sent ELSE Size(c)' + 1
    BY <1>3, PostedByChildNext
  <2> QED BY <1>1, <1>2, <1>3, <2>1
<1>6. \A d \in Clients : d # c => Posted(d)' = Posted(d) /\ (NoChild(d)' <=> NoChild(d))
  BY <1>0, <1>1, <1>2, SamePosted
<1>7. [d \in Clients |-> Posted(d)]'
        = [[d \in Clients |-> Posted(d)] EXCEPT ![c] = Posted(c) + 1]
  BY <1>4, <1>5, <1>6
<1>8. {d \in Clients : ~NoChild(d)}' = {d \in Clients : ~NoChild(d)}
  BY <1>4, <1>5, <1>6
<1>9. /\ [d \in Clients |-> Answer(d)]' = [d \in Clients |-> Answer(d)]
      /\ [d \in Clients |-> Stage(d)]' = [d \in Clients |-> Stage(d)]
  BY <1>1, SameAnswer DEF Stage
<1>10. Posted(c) =< Len(Answer(c))
  BY <1>1, <1>4 DEF Size
<1>11. Service!Tell(c)
  BY <1>1, <1>4, <1>7, <1>8, <1>9, <1>10 DEF Service!Tell
<1> QED BY <1>11

\* A client asks, prints the next line, comes to the end, or is killed; that it
\* removes its queue is hidden.
LEMMA ClientServed ==
  ASSUME IInv, IInv', NEW c \in Clients, Client(c) \/ Kill(c)
  PROVE  \/ UNCHANGED Service!vars
         \/ \E d \in Clients : Service!Ask(d) \/ Service!Show(d) \/ Service!Finish(d) \/ Service!Die(d)
<1>0. /\ Types /\ Requests /\ Deliveries /\ cpc \in [Clients -> CLabels]
      /\ printed \in [Clients -> Seq(Clients \X Nat)]
  <2>1. Types /\ Requests /\ Deliveries
    BY DEF IInv
  <2>2. cpc \in [Clients -> CLabels] /\ printed \in [Clients -> Seq(Clients \X Nat)]
    BY <2>1 DEF Types
  <2> QED BY <2>1, <2>2
<1>1. lines' = lines /\ children' = children
  BY DEF Client, Send, Receive, RemoveQueue, Kill, parent, queues
<1>2. \A d \in Clients : Posted(d)' = Posted(d) /\ (NoChild(d)' <=> NoChild(d))
  <2>1. Kept
    BY <1>1 DEF Kept, Pids
  <2> QED BY <1>0, <1>1, <2>1, SamePosted
<1>3. /\ [d \in Clients |-> Answer(d)]' = [d \in Clients |-> Answer(d)]
      /\ [d \in Clients |-> Posted(d)]' = [d \in Clients |-> Posted(d)]
      /\ {d \in Clients : ~NoChild(d)}' = {d \in Clients : ~NoChild(d)}
  BY <1>1, <1>2, SameAnswer
<1>4. ASSUME NEW l \in CLabels, cpc' = [cpc EXCEPT ![c] = l]
      PROVE  /\ Stage(c)' = IF l = "send" THEN "idle" ELSE IF l = "recv" THEN "waiting"
                            ELSE IF l = "killed" THEN "gone" ELSE "done"
             /\ [d \in Clients |-> Stage(d)]'
                  = [[d \in Clients |-> Stage(d)] EXCEPT ![c] = Stage(c)']
  <2>1. cpc'[c] = l /\ \A d \in Clients : d # c => cpc'[d] = cpc[d]
    BY <1>0, <1>4
  <2>2. \A d \in Clients : d # c => Stage(d)' = Stage(d)
    BY <2>1 DEF Stage
  <2>3. Stage(c)' = IF l = "send" THEN "idle" ELSE IF l = "recv" THEN "waiting"
                    ELSE IF l = "killed" THEN "gone" ELSE "done"
    BY <2>1 DEF Stage, CLabels
  <2> QED BY <2>2, <2>3
<1>5. CASE Send(c)
  <2>1. cpc' = [cpc EXCEPT ![c] = "recv"] /\ printed' = printed /\ Stage(c) = "idle"
    BY <1>5 DEF Send, CGoto, Stage
  <2>2. [d \in Clients |-> Stage(d)]' = [[d \in Clients |-> Stage(d)] EXCEPT ![c] = "waiting"]
    BY <1>4, <2>1 DEF CLabels
  <2> QED BY <1>3, <2>1, <2>2 DEF Service!Ask, Service!Becomes
<1>6. CASE Kill(c)
  <2>1. /\ cpc' = [cpc EXCEPT ![c] = "killed"] /\ printed' = printed
        /\ Stage(c) \in {"waiting", "done"}
    BY <1>6 DEF Kill, Stage
  <2>2. [d \in Clients |-> Stage(d)]' = [[d \in Clients |-> Stage(d)] EXCEPT ![c] = "gone"]
    BY <1>4, <2>1 DEF CLabels
  <2> QED BY <1>3, <2>1, <2>2 DEF Service!Die, Service!Becomes
<1>7. CASE RemoveQueue(c)
  <2>1. cpc' = [cpc EXCEPT ![c] = "exit"] /\ printed' = printed /\ Stage(c) = "done"
    BY <1>7 DEF RemoveQueue, CGoto, Stage
  <2>2. \A d \in Clients : Stage(d)' = Stage(d)
    <3>1. Stage(c)' = "done"
      BY <1>4, <2>1 DEF CLabels
    <3>2. \A d \in Clients : d # c => cpc'[d] = cpc[d]
      BY <1>0, <2>1
    <3> QED BY <2>1, <3>1, <3>2 DEF Stage
  <2> QED BY <1>1, <1>2, <2>1, <2>2, HiddenStep DEF Hidden
<1>8. CASE Receive(c)
  <2>0. /\ Got(c) \in Nat /\ Under(c) \in Nat /\ Size(c) \in Nat
        /\ answers[c] \in Seq(Units) /\ printed[c] \in Seq(Clients \X Nat)
        /\ Answer(c) \in Seq(Clients \X Nat)
    BY <1>0, Lengths, AnswerLines
  <2>1. /\ cpc[c] = "recv" /\ answers[c] # <<>> /\ Stage(c) = "waiting"
        /\ IF Head(answers[c]) = End
           THEN cpc' = [cpc EXCEPT ![c] = "remove"] /\ UNCHANGED printed
           ELSE /\ cpc' = [cpc EXCEPT ![c] = "recv"]
                /\ printed' = [printed EXCEPT ![c] = Append(@, Head(answers[c]))]
    BY <1>8 DEF Receive, CGoto, Stage
  <2>2. Under(c) >= 1 /\ Head(answers[c]) = answers[c][1]
    BY <2>0, <2>1, TailSeq DEF Under
  <2>3. /\ Got(c) =< Size(c) /\ \A j \in 1 .. Got(c) : printed[c][j] = Unit(c, j)
        /\ Head(answers[c]) = Unit(c, Got(c) + 1)
    <3>1. 1 \in 1 .. Under(c)
      BY <2>0, <2>2
    <3> QED BY <1>0, <2>2, <3>1 DEF Deliveries, InOrder
  <2>4. Head(answers[c]) = End <=> Got(c) + 1 > Size(c)
    BY <1>0, <2>0, <2>3, UnitType
  <2>5. /\ Posted(c) \in Nat /\ Got(c) + 1 =< Posted(c)
        /\ Got(c) = Size(c) => Posted(c) = Size(c) + 1
    BY <1>0, <2>1, <2>2, PostedAhead
  <2>6. CASE Got(c) = Size(c)
    <3>1. Posted(c) = Len(Answer(c)) + 1 /\ printed[c] = Answer(c)
      <4>1. \A j \in 1 .. Got(c) : printed[c][j] = Answer(c)[j]
        BY <2>0, <2>3 DEF Unit
      <4> QED BY <2>0, <2>5, <2>6, <4>1, SameSeq DEF Got, Size
    <3>2. cpc' = [cpc EXCEPT ![c] = "remove"] /\ printed' = printed
      BY <2>0, <2>1, <2>4, <2>6
    <3>3. [d \in Clients |-> Stage(d)]' = [[d \in Clients |-> Stage(d)] EXCEPT ![c] = "done"]
      BY <1>4, <3>2 DEF CLabels
    <3> QED BY <1>3, <2>1, <3>1, <3>2, <3>3 DEF Service!Finish, Service!Becomes
  <2>7. CASE Got(c) # Size(c)
    <3>1. Got(c) + 1 =< Size(c) /\ Head(answers[c]) = Answer(c)[Got(c) + 1]
      BY <2>0, <2>3, <2>7 DEF Unit
    <3>2. /\ cpc' = [cpc EXCEPT ![c] = "recv"]
          /\ printed' = [printed EXCEPT ![c] = Append(printed[c], Answer(c)[Got(c) + 1])]
      BY <2>0, <2>1, <2>4, <3>1
    <3>3. [d \in Clients |-> Stage(d)]' = [d \in Clients |-> Stage(d)]
      <4>1. cpc' = cpc
        BY <1>0, <2>1, <3>2
      <4> QED BY <4>1 DEF Stage
    <3>4. Len(printed[c]) + 1 =< Len(Answer(c)) /\ Len(printed[c]) + 1 =< Posted(c)
      BY <2>5, <3>1 DEF Got, Size
    <3>5. printed' = [printed EXCEPT ![c] = Append(printed[c], Answer(c)[Len(printed[c]) + 1])]
      BY <3>2 DEF Got
    <3> QED BY <1>3, <2>1, <3>3, <3>4, <3>5 DEF Service!Show
  <2> QED BY <2>6, <2>7
<1> QED BY <1>5, <1>6, <1>7, <1>8 DEF Client

\* Nobody has asked at the start.
LEMMA InitService == Init => Service!Init
<1> SUFFICES ASSUME Init PROVE Service!Init
  OBVIOUS
<1>1. /\ children = <<>> /\ printed = [c \in Clients |-> <<>>]
      /\ cpc = [c \in Clients |-> "send"]
  BY DEF Init
<1>0. Types
  BY InitTypes
<1>2. \A c \in Clients : Answer(c) \in Seq(Clients \X Nat)
  BY <1>0, AnswerLines
<1>3. \A c \in Clients : NoChild(c) /\ Posted(c) = 0 /\ Stage(c) = "idle"
  BY <1>1 DEF NoChild, Pids, Posted, Stage
<1> QED BY <1>1, <1>2, <1>3 DEF Service!Init

\* Every step of the processes is one of the service, or hidden.
LEMMA StepService ==
  ASSUME IInv, IInv', [Next]_vars
  PROVE  [Service!Next]_(Service!vars)
<1>1. CASE Servers
  BY <1>1, ServerServes DEF Service!Next
<1>2. CASE \E k \in Pids : Child(k)
  BY <1>2, ChildServes DEF Service!Next
<1>3. CASE \E c \in Clients : Client(c) \/ Kill(c)
  BY <1>3, ClientServed DEF Service!Next
<1>4. CASE UNCHANGED vars
  <2>1. UNCHANGED <<lines, children, cpc, printed>>
    BY <1>4 DEF vars, client
  <2>2. \A c \in Clients : /\ Stage(c)' = Stage(c) /\ Posted(c)' = Posted(c)
                           /\ NoChild(c)' <=> NoChild(c)
    BY <2>1 DEF Stage, Posted, ChildOf, NoChild, Pids, Size, Answer
  <2> QED BY <2>1, <2>2, HiddenStep DEF Hidden
<1> QED BY <1>1, <1>2, <1>3, <1>4 DEF Next, Step, Servers

\* The forking server and its clients implement the service: each request is
\* taken up at most once and its answer told in order and once, through queues
\* that outlive every process, kills, interrupted calls and new starts.
THEOREM ServesEachOnce == Spec => Service!Spec
<1>1. IInv /\ IInv' /\ [Next]_vars => [Service!Next]_(Service!vars)
  BY StepService
<1> QED BY <1>1, InitService, ReuseInvariant, PTL DEF Spec, Service!Spec

=============================================================================
