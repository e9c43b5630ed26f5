----------------------------- MODULE ShmMessages -----------------------------
(***************************************************************************)
(* 13-chapter-server.c (server_2) and 13-chapter-client.c (client_2): some *)
(* clients send messages to one server through a ring of NMESG slots in    *)
(* shared memory, guarded by semaphores that live in it.  A client that    *)
(* finds the ring full drops its message and counts it in noverflow.       *)
(*                                                                         *)
(* A client may start at any time.  "Shared memory that server must        *)
(* create" it meets missing, or as an earlier run has left it: then it     *)
(* crashes, or what it does is not seen here; zeroed; or with some of the  *)
(* semaphores initialised.  A zeroed semaphore is one of value 0, and who  *)
(* sleeps on it may sleep through sem_init and later posts: the count of   *)
(* sleepers starts anew.  A post that counts a sleeper may wake a deaf one *)
(* instead, which then is counted out in its place.                        *)
(*                                                                         *)
(* A message is <<pid, i>>; offset stands for the slot whose msgoff it is. *)
(* strcpy is two steps: between them the slot holds a torn text.           *)
(***************************************************************************)
EXTENDS Integers, Sequences, FiniteSets, SequencesExt

CONSTANTS NMESG,      \* slots of the ring
          Clients,    \* the clients that may be started
          NLoop       \* argv[2] of each client: the messages it sends

ASSUME NMESGAssumption == NMESG \in Nat \ {0}
ASSUME NLoopAssumption == NLoop \in Nat
ASSUME ClientsAssumption == IsFiniteSet(Clients) /\ "server" \notin Clients

VARIABLES started,                            \* the clients started, fixed
          sem,                                \* the four semaphores
          nput, noverflow, msgdata,           \* struct shmstruct
          cpc, i, offset,                     \* per client
          spc, index, temp, lastnoverflow,    \* the server
          deaf,                               \* asleep on noverflowmutex, uncounted
          printed, erased    \* history: what it has printed, the posts it has erased

client == <<cpc, i, offset>>
server == <<spc, index, temp, lastnoverflow, printed, erased>>
vars   == <<started, sem, deaf, nput, noverflow, msgdata, client, server>>

Slots == 0 .. NMESG - 1
Empty == <<"empty", 0>>      \* zeroed shared memory
Torn  == <<"torn", 0>>
Texts == (Clients \X (0 .. NLoop - 1)) \cup {Empty, Torn}
SemNames == {"mutex", "nempty", "nstored", "noverflowmutex"}
CLabels == {"open", "trywait", "wait_noverflow", "overflow", "post_noverflow", "wait_mutex",
            "reserve", "post_mutex", "copy", "copying", "post_nstored", "exit"}
SLabels == {"create", "init_mutex", "init_nempty", "init_nstored", "init_noverflow",
            "wait_nstored", "wait_mutex", "print", "post_mutex", "post_nempty",
            "wait_noverflow", "read_noverflow", "post_noverflow", "report"}

SemWait(s) == sem[s] > 0 /\ sem' = [sem EXCEPT ![s] = @ - 1]
SemInit(s, value) == sem' = [sem EXCEPT ![s] = value]
SemPost(s) == sem' = [sem EXCEPT ![s] = @ + 1]

\* off by one: > for >=
Next1Greater(k) == IF k + 1 > NMESG THEN 0 ELSE k + 1

Next1(k) == IF k + 1 >= NMESG THEN 0 ELSE k + 1    \* circular buffer

\* noverflowmutex is the one that clients may sleep on before its sem_init
Waiting == {c \in Clients : cpc[c] = "wait_noverflow"}
             \cup {p \in {"server"} : spc = "wait_noverflow"}
PostNoverflow ==
  /\ SemPost("noverflowmutex")
  /\ deaf' \in {deaf} \cup {(deaf \ {p}) \cup {q} : p \in deaf, q \in Waiting \ deaf}

Init ==
  /\ started \in SUBSET Clients
  /\ sem = [s \in SemNames |-> 0]
  /\ nput = 0 /\ noverflow = 0 /\ msgdata = [k \in Slots |-> Empty]
  /\ cpc = [c \in Clients |-> IF c \in started THEN "open" ELSE "exit"]
  /\ i = [c \in Clients |-> 0] /\ offset = [c \in Clients |-> 0]
  /\ spc = "create" /\ index = 0 /\ temp = 0 /\ lastnoverflow = 0
  /\ deaf = {} /\ printed = <<>> /\ erased = 0

-----------------------------------------------------------------------------
(* client_2, the body of its loop *)

CGoto(c, from, to) == cpc[c] = from /\ cpc' = [cpc EXCEPT ![c] = to]

\* shm_open and mmap
Open(c) ==
  /\ CGoto(c, "open", IF spc # "create" /\ NLoop > 0 THEN "trywait" ELSE "exit")
  /\ UNCHANGED <<started, sem, nput, noverflow, msgdata, i, offset, deaf, server>>

\* the next round of the for loop, or exit(0)
NextRound(c, from) ==
  /\ CGoto(c, from, IF i[c] + 1 < NLoop THEN "trywait" ELSE "exit")
  /\ i' = [i EXCEPT ![c] = @ + 1]

\* sem_trywait: EAGAIN when the value is zero
TryWait(c) ==
  /\ \/ sem["nempty"] > 0 /\ CGoto(c, "trywait", "wait_mutex") /\ SemWait("nempty")
     \/ sem["nempty"] = 0 /\ CGoto(c, "trywait", "wait_noverflow") /\ UNCHANGED sem
  /\ UNCHANGED <<started, nput, noverflow, msgdata, i, offset, deaf, server>>

\* the message is dropped without being counted
DropSilently(c) ==
  /\ c \notin deaf
  /\ \/ /\ CGoto(c, "wait_noverflow", "overflow") /\ SemWait("noverflowmutex")
        /\ UNCHANGED <<i, noverflow, deaf>>
     \/ /\ CGoto(c, "overflow", "post_noverflow")
        /\ UNCHANGED <<sem, i, noverflow, deaf>>
     \/ /\ NextRound(c, "post_noverflow") /\ PostNoverflow
        /\ UNCHANGED noverflow
  /\ UNCHANGED <<started, nput, msgdata, offset, server>>

CountOverflow(c) ==
  /\ c \notin deaf
  /\ \/ /\ CGoto(c, "wait_noverflow", "overflow") /\ SemWait("noverflowmutex")
        /\ UNCHANGED <<i, noverflow, deaf>>
     \/ /\ CGoto(c, "overflow", "post_noverflow") /\ noverflow' = noverflow + 1
        /\ UNCHANGED <<sem, i, deaf>>
     \/ /\ NextRound(c, "post_noverflow") /\ PostNoverflow
        /\ UNCHANGED noverflow
  /\ UNCHANGED <<started, nput, msgdata, offset, server>>

\* the slot after the one reserved
ReserveNextSlot(c) ==
  /\ \/ /\ CGoto(c, "wait_mutex", "reserve") /\ SemWait("mutex")
        /\ UNCHANGED <<nput, offset>>
     \/ /\ CGoto(c, "reserve", "post_mutex")
        /\ nput' = Next1(nput) /\ offset' = [offset EXCEPT ![c] = nput']
        /\ UNCHANGED sem
     \/ /\ CGoto(c, "post_mutex", "copy") /\ SemPost("mutex")
        /\ UNCHANGED <<nput, offset>>
  /\ UNCHANGED <<started, noverflow, msgdata, i, deaf, server>>

Reserve(c) ==
  /\ \/ /\ CGoto(c, "wait_mutex", "reserve") /\ SemWait("mutex")
        /\ UNCHANGED <<nput, offset>>
     \/ /\ CGoto(c, "reserve", "post_mutex")
        /\ offset' = [offset EXCEPT ![c] = nput] /\ nput' = Next1(nput)
        /\ UNCHANGED sem
     \/ /\ CGoto(c, "post_mutex", "copy") /\ SemPost("mutex")
        /\ UNCHANGED <<nput, offset>>
  /\ UNCHANGED <<started, noverflow, msgdata, i, deaf, server>>

\* strcpy, outside the mutex
Copy(c) ==
  /\ \/ /\ CGoto(c, "copy", "copying")
        /\ msgdata' = [msgdata EXCEPT ![offset[c]] = Torn]
     \/ /\ CGoto(c, "copying", "post_nstored")
        /\ msgdata' = [msgdata EXCEPT ![offset[c]] = <<c, i[c]>>]
  /\ UNCHANGED <<started, sem, nput, noverflow, i, offset, deaf, server>>

PostStored(c) ==
  /\ NextRound(c, "post_nstored") /\ SemPost("nstored")
  /\ UNCHANGED <<started, nput, noverflow, msgdata, offset, deaf, server>>

Client(c) == \/ Open(c) \/ TryWait(c) \/ CountOverflow(c) \/ Reserve(c) \/ Copy(c) \/ PostStored(c)

-----------------------------------------------------------------------------
(* server_2, its start and its for ever loop *)

SGoto(from, to) == spc = from /\ spc' = to

\* shm_unlink to ftruncate: from here on clients map this memory, zeroed
Create ==
  /\ SGoto("create", "init_mutex")
  /\ UNCHANGED <<started, sem, nput, noverflow, msgdata, client,
                 index, temp, lastnoverflow, deaf, printed, erased>>

\* sem_init puts a value over whatever is there, and wakes nobody
InitSems ==
  /\ \/ SGoto("init_mutex", "init_nempty") /\ SemInit("mutex", 1) /\ UNCHANGED <<deaf, erased>>
     \/ SGoto("init_nempty", "init_nstored") /\ SemInit("nempty", NMESG) /\ UNCHANGED <<deaf, erased>>
     \/ /\ SGoto("init_nstored", "init_noverflow") /\ SemInit("nstored", 0)
        /\ erased' = sem["nstored"] /\ UNCHANGED deaf
     \/ /\ SGoto("init_noverflow", "wait_nstored") /\ SemInit("noverflowmutex", 1)
        /\ deaf' \in SUBSET Waiting /\ UNCHANGED erased
  /\ UNCHANGED <<started, nput, noverflow, msgdata, client, index, temp, lastnoverflow, printed>>

ServerTake ==
  /\ \/ /\ SGoto("wait_nstored", "wait_mutex") /\ SemWait("nstored")
        /\ UNCHANGED <<index, printed>>
     \/ /\ SGoto("wait_mutex", "print") /\ SemWait("mutex")
        /\ UNCHANGED <<index, printed>>
     \/ /\ SGoto("print", "post_mutex")
        /\ printed' = Append(printed, msgdata[index]) /\ index' = Next1(index)
        /\ UNCHANGED sem
  /\ UNCHANGED <<started, nput, noverflow, msgdata, client, temp, lastnoverflow, deaf, erased>>

\* the slot is not given back
ServerKeepSlot ==
  /\ \/ SGoto("post_mutex", "post_nempty") /\ SemPost("mutex")
     \/ SGoto("post_nempty", "wait_noverflow") /\ UNCHANGED sem
  /\ UNCHANGED <<started, nput, noverflow, msgdata, client,
                 index, temp, lastnoverflow, deaf, printed, erased>>

ServerRelease ==
  /\ \/ SGoto("post_mutex", "post_nempty") /\ SemPost("mutex")
     \/ SGoto("post_nempty", "wait_noverflow") /\ SemPost("nempty")
  /\ UNCHANGED <<started, nput, noverflow, msgdata, client,
                 index, temp, lastnoverflow, deaf, printed, erased>>

\* the mutex of the counter is not released
ServerOverflowLocked ==
  /\ \/ /\ SGoto("wait_noverflow", "read_noverflow") /\ SemWait("noverflowmutex")
        /\ UNCHANGED <<temp, lastnoverflow>>
     \/ /\ SGoto("read_noverflow", "report") /\ temp' = noverflow
        /\ UNCHANGED <<sem, lastnoverflow>>
     \/ /\ SGoto("report", "wait_nstored") /\ lastnoverflow' = temp
        /\ UNCHANGED <<sem, temp>>
  /\ UNCHANGED <<started, nput, noverflow, msgdata, client, index, deaf, printed, erased>>

\* "don't printf while mutex held"
ServerOverflow ==
  /\ \/ /\ SGoto("wait_noverflow", "read_noverflow") /\ SemWait("noverflowmutex")
        /\ "server" \notin deaf
        /\ UNCHANGED <<temp, lastnoverflow, deaf>>
     \/ /\ SGoto("read_noverflow", "post_noverflow") /\ temp' = noverflow
        /\ UNCHANGED <<sem, lastnoverflow, deaf>>
     \/ /\ SGoto("post_noverflow", "report") /\ PostNoverflow
        /\ UNCHANGED <<temp, lastnoverflow>>
     \/ /\ SGoto("report", "wait_nstored") /\ lastnoverflow' = temp
        /\ UNCHANGED <<sem, temp, deaf>>
  /\ UNCHANGED <<started, nput, noverflow, msgdata, client, index, printed, erased>>

Server == Create \/ InitSems \/ ServerTake \/ ServerRelease \/ ServerOverflow

Next == Server \/ \E c \in Clients : Client(c)

(* As long as some process can run, one does: nobody spins. *)
Spec == Init /\ [][Next]_vars /\ WF_vars(Next)

-----------------------------------------------------------------------------
(* Properties *)

At(L) == Cardinality({c \in Clients : cpc[c] \in L})
Server1(L) == IF spc \in L THEN 1 ELSE 0

\* Every variable keeps its C type; indices stay inside the ring.
TypeOK ==
  /\ started \subseteq Clients
  /\ sem \in [SemNames -> Nat]
  /\ nput \in Slots /\ noverflow \in Nat /\ msgdata \in [Slots -> Texts]
  /\ cpc \in [Clients -> CLabels] /\ i \in [Clients -> 0 .. NLoop]
  /\ offset \in [Clients -> Slots]
  /\ spc \in SLabels /\ index \in Slots /\ temp \in Nat /\ lastnoverflow \in Nat
  /\ deaf \subseteq started \cup {"server"} /\ printed \in Seq(Texts) /\ erased \in 0 .. NMESG

\* From its sem_init on, no semaphore loses or invents a slot or a mutex,
\* however early the clients came: each slot is free, in a client's hands,
\* stored, in the server's hands, or stored so early that sem_init erased it.
TokenAccounting ==
  /\ spc \notin {"create", "init_mutex", "init_nempty"} =>
       sem["nempty"] + sem["nstored"] + erased
         + At({"wait_mutex", "reserve", "post_mutex", "copy", "copying", "post_nstored"})
         + Server1({"wait_mutex", "print", "post_mutex", "post_nempty"}) = NMESG
  /\ spc \notin {"create", "init_mutex"} =>
       sem["mutex"] + At({"reserve", "post_mutex"}) + Server1({"print", "post_mutex"}) = 1
  /\ spc \notin {"create", "init_mutex", "init_nempty", "init_nstored", "init_noverflow"} =>
       sem["noverflowmutex"] + At({"overflow", "post_noverflow"})
         + Server1({"read_noverflow", "post_noverflow"}) = 1

\* Nobody has anything left to do, but for those whom sem_init left asleep.
ClientsEnded == \A c \in Clients \ deaf : cpc[c] = "exit"
Quiet == ClientsEnded /\ spc = "wait_nstored" /\ sem["nstored"] = 0

Sent == UNION {{c} \X (0 .. i[c] - 1) : c \in started}

\* When everything is quiet, each message was printed, counted as an overflow
\* or erased by sem_init, as far as numbers go, and the rest of the ring is free.
NumbersAddUp ==
  Quiet => /\ Len(printed) + noverflow + erased = Cardinality(Sent)
           /\ sem["nempty"] = NMESG - erased

\* A single client's messages are printed whole, once and in the order it sent
\* them: its strcpy, made outside the mutex, always precedes the post.  Unless
\* sem_init has erased one: from then on the server is slots behind.
SingleClientInOrder ==
  Cardinality(started) = 1 /\ erased = 0 =>
    \A k \in DOMAIN printed :
      /\ printed[k] \in Sent
      /\ k > 1 => printed[k - 1][2] < printed[k][2]

\* Every client ends and the server prints what is stored: a full ring makes a
\* client drop a message, never wait.  Of those that sleep through sem_init, or
\* take the place of one that does, the server may be one: the clients still end.
Drained == <>[](Quiet \/ (ClientsEnded /\ "server" \in deaf))

\* "#overflows by senders": a message that several clients send to the one
\* server is printed once, or it is one of the overflows.  (None was erased.)
DeliveredOrCounted ==
  Quiet /\ erased = 0 => /\ ToSet(printed) \subseteq Sent
                         /\ IsInjective(printed)
=============================================================================
