------------------------------ MODULE ShmCounter ------------------------------
(***************************************************************************)
(* 13-chapter-server.c (server_1) and 13-chapter-client.c (client_1): each *)
(* client adds ShmLoop times one to the counter in shared memory, under a  *)
(* named semaphore.  server_1 only makes the two objects; run again, it    *)
(* unlinks both names and makes new objects, while clients go on using the *)
(* old ones.  The server does so in two steps, a client opens the names in *)
(* two steps: it may meet one object of each run.                          *)
(*                                                                         *)
(* An object is named after the run of the server that made it.  Nothing   *)
(* is checked by a client: without a name shm_open and mmap fail, and the  *)
(* access to the counter ends the process; sem_open fails, and the calls   *)
(* on what it returned fail at once.                                       *)
(*                                                                         *)
(* CounterProofs extends RecordLock and this module: what both would name  *)
(* alike has names of its own here (round for i, ShmLoop for nloop).       *)
(***************************************************************************)
EXTENDS Integers, FiniteSets

CONSTANTS Clients, Servers,   \* the processes, each a run of a program
          ShmLoop,            \* argv[3] of the clients
          NoObject            \* no object

ASSUME ShmLoopAssumption == ShmLoop \in Nat
ASSUME RunsAssumption    == NoObject \notin Servers /\ IsFiniteSet(Clients \cup Servers)

VARIABLES shmname, semname,        \* the objects the two names stand for
          count, value,            \* the counter of each shm, value of each sem
          spc,                     \* the servers
          cpc, ptr, mutex,         \* the clients, what they opened,
          round, reg,              \* their i, count being incremented
          quiet, done              \* history

names   == <<shmname, semname>>
objects == <<count, value>>
client  == <<cpc, ptr, mutex, round, reg, done>>
counterVars == <<names, objects, spc, client, quiet>>

SLabels == {"start", "unlinked_shm", "made_shm", "unlinked_sem", "exit"}
CLabels == {"start", "open_sem", "wait", "read", "write", "post", "exit", "crashed"}

CounterInit ==
  /\ shmname = NoObject /\ semname = NoObject
  /\ count = [s \in Servers |-> 0] /\ value = [s \in Servers |-> 0]
  /\ spc = [s \in Servers |-> "start"]
  /\ cpc = [c \in Clients |-> "start"]
  /\ ptr = [c \in Clients |-> NoObject] /\ mutex = [c \in Clients |-> NoObject]
  /\ round = [c \in Clients |-> 0] /\ reg = [c \in Clients |-> 0]
  /\ quiet = [c \in Clients |-> TRUE] /\ done = [s \in Servers |-> 0]

-----------------------------------------------------------------------------
(* server_1.  Open, ftruncate and mmap are one step: to a client that comes *)
(* in between, the memory is as unusable as without a name.                 *)

SGoto(s, from, to) == spc[s] = from /\ spc' = [spc EXCEPT ![s] = to]

\* the old name is kept: O_EXCL then fails, and nobody looks
UnlinkShmNot(s) ==
  /\ SGoto(s, "start", "unlinked_shm")
  /\ UNCHANGED <<names, objects>>

UnlinkShm(s) ==
  /\ SGoto(s, "start", "unlinked_shm") /\ shmname' = NoObject
  /\ UNCHANGED <<semname, objects>>

\* O_CREAT | O_EXCL: a name that another run has just made stays
MakeShm(s) ==
  /\ SGoto(s, "unlinked_shm", "made_shm")
  /\ shmname' = IF shmname = NoObject THEN s ELSE shmname
  /\ UNCHANGED <<semname, objects>>

UnlinkSem(s) ==
  /\ SGoto(s, "made_shm", "unlinked_sem") /\ semname' = NoObject
  /\ UNCHANGED <<shmname, objects>>

\* the semaphore is made with the value 0
MakeSemZero(s) ==
  /\ SGoto(s, "unlinked_sem", "exit")
  /\ semname' = IF semname = NoObject THEN s ELSE semname
  /\ UNCHANGED <<shmname, objects>>

MakeSem(s) ==
  /\ SGoto(s, "unlinked_sem", "exit")
  /\ semname' = IF semname = NoObject THEN s ELSE semname
  /\ value' = IF semname = NoObject THEN [value EXCEPT ![s] = 1] ELSE value
  /\ UNCHANGED <<shmname, count>>

\* a client that opens the names meanwhile is disturbed
Server(s) ==
  /\ UnlinkShm(s) \/ MakeShm(s) \/ UnlinkSem(s) \/ MakeSem(s)
  /\ quiet' = [c \in Clients |-> quiet[c] /\ cpc[c] # "open_sem"]
  /\ UNCHANGED client

-----------------------------------------------------------------------------
(* client_1 *)

CGoto(c, from, to) == cpc[c] = from /\ cpc' = [cpc EXCEPT ![c] = to]

\* shm_open and mmap, then sem_open and the head of the loop
Open(c) ==
  /\ \/ /\ CGoto(c, "start", "open_sem") /\ ptr' = [ptr EXCEPT ![c] = shmname]
        /\ quiet' = [quiet EXCEPT ![c] = \A s \in Servers : spc[s] \in {"start", "exit"}]
        /\ UNCHANGED mutex
     \/ /\ CGoto(c, "open_sem", IF 0 < ShmLoop THEN "wait" ELSE "exit")
        /\ mutex' = [mutex EXCEPT ![c] = semname]
        /\ UNCHANGED <<ptr, quiet>>
  /\ UNCHANGED <<names, objects, spc, round, reg, done>>

\* sem_wait(mutex)
Wait(c) ==
  /\ CGoto(c, "wait", "read")
  /\ \/ mutex[c] = NoObject /\ UNCHANGED value
     \/ mutex[c] # NoObject /\ value[mutex[c]] > 0
        /\ value' = [value EXCEPT ![mutex[c]] = @ - 1]
  /\ UNCHANGED <<names, count, spc, ptr, mutex, round, reg, quiet, done>>

\* ptr->count++ reads and writes the counter; without memory the process ends
\* here, with the semaphore
Increment(c) ==
  /\ \/ /\ ptr[c] # NoObject /\ CGoto(c, "read", "write")
        /\ reg' = [reg EXCEPT ![c] = count[ptr[c]]]
        /\ UNCHANGED <<count, done>>
     \/ /\ ptr[c] = NoObject /\ CGoto(c, "read", "crashed")
        /\ UNCHANGED <<count, reg, done>>
     \/ /\ CGoto(c, "write", "post")
        /\ count' = [count EXCEPT ![ptr[c]] = reg[c] + 1]
        /\ done' = [done EXCEPT ![ptr[c]] = @ + 1]
        /\ UNCHANGED reg
  /\ UNCHANGED <<names, value, spc, ptr, mutex, round, quiet>>

\* one round too many: =< for <
PostOnceMore(c) ==
  /\ CGoto(c, "post", IF round[c] + 1 =< ShmLoop THEN "wait" ELSE "exit")
  /\ round' = [round EXCEPT ![c] = @ + 1]
  /\ value' = IF mutex[c] = NoObject THEN value ELSE [value EXCEPT ![mutex[c]] = @ + 1]
  /\ UNCHANGED <<names, count, spc, ptr, mutex, reg, quiet, done>>

\* sem_post(mutex), and the head of the loop
Post(c) ==
  /\ CGoto(c, "post", IF round[c] + 1 < ShmLoop THEN "wait" ELSE "exit")
  /\ round' = [round EXCEPT ![c] = @ + 1]
  /\ value' = IF mutex[c] = NoObject THEN value ELSE [value EXCEPT ![mutex[c]] = @ + 1]
  /\ UNCHANGED <<names, count, spc, ptr, mutex, reg, quiet, done>>

Client(c) == Open(c) \/ Wait(c) \/ Increment(c) \/ Post(c)

CounterNext == \/ \E s \in Servers : Server(s)
        \/ \E c \in Clients : Client(c)

(* As long as some process can run, one does. *)
CounterSpec == CounterInit /\ [][CounterNext]_counterVars /\ WF_counterVars(CounterNext)

-----------------------------------------------------------------------------
(* Properties *)

\* Every variable keeps its C type, no semaphore drops below zero, the loop
\* index keeps its range.
CounterTypeOK ==
  /\ {shmname, semname} \subseteq Servers \cup {NoObject}
  /\ count \in [Servers -> Nat] /\ value \in [Servers -> 0 .. 1]
  /\ done \in [Servers -> Nat]
  /\ spc \in [Servers -> SLabels] /\ cpc \in [Clients -> CLabels]
  /\ ptr \in [Clients -> Servers \cup {NoObject}]
  /\ mutex \in [Clients -> Servers \cup {NoObject}]
  /\ round \in [Clients -> 0 .. ShmLoop] /\ reg \in [Clients -> Nat]
  /\ quiet \in [Clients -> BOOLEAN]

\* However often server_1 is run again, also twice at the same time: a counter
\* all of whose clients opened both names while no server ran loses no
\* increment.  (Clients that opened them during a run may share the memory and
\* not the semaphore.)
CountExact ==
  \A s \in Servers :
    (\A c \in Clients : ptr[c] = s => quiet[c]) => count[s] = done[s]

\* When no client opens the names during a run of the server, every client
\* that found the objects makes its rounds; none waits for a semaphore that
\* nobody will post.
ClientsEnd ==
  \/ <>[](\A c \in Clients :
             cpc[c] = "exit" \/ (cpc[c] = "crashed" /\ mutex[c] = NoObject))
  \/ <>(\E c \in Clients : ~quiet[c])
=============================================================================
