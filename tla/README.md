# Formal models of unix-programing

The repository is one author's working-through of *UNIX Network Programming,
volume 2*: about thirty small C programs in which threads and processes
exchange items, counters, files and messages by every interprocess
communication mechanism of the book.  Each program is a few dozen lines; what
can go wrong in it is the order in which those lines of several threads or
processes meet.  That is what these modules model.

Paths below are relative to `src/unix-programing/unix-programing/`.

## 1. Inventory

| Part | State it keeps | Operations | How the actors interact |
|---|---|---|---|
| `10-chapter.c`, test 3 (`produce_3`, `consume_3`) | ring `buff[NBUFF]`, `nput`/`nputval`, `nget`/`ngetval`; semaphores `mutex`, `nempty`, `nstored`; a counter per thread | put, take, quit (which posts extra tokens), create, join | threads, shared memory, named semaphores that outlive the process |
| `10-chapter.c`, tests 1 and 2 (`produce_1/2`, `consume_1/2`) | the same ring; the consumer's index is private | put, take, quit | the same |
| `10-chapter.c`, test 4 (`produce_4`, `consume_4`) | `NBUFF` buffers with their byte counts, a file descriptor | read into a buffer, write it out, announce the end | two threads, buffers used outside the mutex |
| `7-chapter.c`, tests 1-3 | array `buff`, `nput`/`nval` under one mutex; `nready` and a condition variable under another | put, signal, poll, wait, take | threads |
| `13-chapter-server.c`/`-client.c`, pair 2 | in shared memory: a ring of `NMESG` texts, `nput`, `noverflow`, four semaphores | send or drop a message; print one, report overflows | processes over shared memory; clients come and go |
| the same files, pair 1 | a counter in shared memory, a named semaphore | (re)create, increment | processes |
| `9-chapter/` | a number in a file | increment under an `fcntl` lock, or without | processes, advisory locks |
| `6_chapter/` simple | two message queues | send a path name, answer with a file and an empty message | one client process, one server process |
| `6_chapter/` reuse | one well-known queue, a private queue per client | as above; the server forks a child per request | processes, `SIGCHLD` |
| `6_chapter/` msg* | none of their own | create, send, receive, delete a queue | command-line tools |
| `4_chapter_*.c` | pipes, FIFOs | path name one way, file contents the other; framing of messages over a pipe | processes, blocking opens |
| `unpipc.c`, `unpipc.h` | none | `readline`, `Signal`, `sig_chld`, `min`, error functions, `px_ipc_name` | a library |
| `16-chapter/` | none (a squaring service) | stubs generated by `rpcgen` | the RPC library |

What makes each correct, and what is hard about it:

* **Producers and consumers.** Items 0, 1, 2, ... pass through a finite buffer
  in order and once each; the programs end exactly when there is somebody to
  take and somebody to put.  The hard part is *ending*: in test 3 of chapter 10
  producers that quit post tokens that stand for no item, consumers hand them
  on to each other, and the two kinds of token must never be mistaken.
* **Buffers used outside a mutex** (test 4 of chapter 10, `consume_3` of
  chapter 7, `client_2`): safe where a counting semaphore or a counter names
  *which* buffer is ready, unsafe where it only says *how many* are.
* **Lost wakeups, polling** (chapter 7): the signal precedes the increment.
* **What outlives a process**: semaphore names, queues, FIFOs, shared memory.
  A run that was killed leaves them behind.
* **Requests and answers** (chapters 4 and 6): interrupted system calls,
  a client that dies, an answer that is too long.

`PROJECT.json` lists the components, the hazards with their lines and the
properties that would catch each of them.

## 2. The modules

| Module | Models | Read with |
|---|---|---|
| `BoundedBuffer` | the promise all the producer/consumer programs make: items 0 .. limit-1 pass through a buffer of `Capacity` places in order | - |
| `AnswerService` | the promise a file server makes: each request is taken up at most once, its answer told in order and once | - |
| `SemProdCons` | `10-chapter.c`, test 3 | `MCSemProdCons`, `sem_mpmc.cfg`, `sem_stale.cfg` |
| `Counting` | lemmas about counting threads and rounds, rings and windows | TLAPS |
| `SemProdConsProofs` | the theorems about `SemProdCons` | TLAPS |
| `SemSingleConsumer` | `10-chapter.c`, tests 1 and 2 | `MCSemSingleConsumer`, `sem_single.cfg` |
| `SemSingleConsumerProofs` | the theorems about `SemSingleConsumer` | TLAPS |
| `MultiBuffer` | `10-chapter.c`, test 4 | `MCMultiBuffer`, `multibuf.cfg` |
| `MutexProdCons` | `7-chapter.c`, tests 1-3 | `MCMutexProdCons`, `mutex_cond.cfg` |
| `MutexProdConsProofs` | the theorems about `MutexProdCons` | TLAPS |
| `ShmMessages` | `server_2` with several `client_2` | `MCShmMessages`, `shm_messages*.cfg` |
| `ShmMessagesProofs` | the theorems about `ShmMessages` | TLAPS |
| `ShmCounter` | `server_1`, run more than once, with several `client_1` | `MCShmCounter`, `shm_counter.cfg` |
| `RecordLock` | `9-chapter-1.c` and `9-chapter-2.c`, any number of each | `MCRecordLock`, `record_lock.cfg` |
| `CounterProofs` | the theorems about `RecordLock` and `ShmCounter` | TLAPS |
| `FileServers` | `test_pipe`, `test_stream` and the FIFO programs of `4_chapter_*.c`, `6_chapter/server-simple.c` with `client-simple.c` | `MCFileServers`, `file_servers.cfg` |
| `FileProofs` | the theorems about `MultiBuffer` and `FileServers` | TLAPS |
| `MsgReuse` | `6_chapter/server-reuse.c` with several `client-reuse.c`, and `sig_chld` | `MCMsgReuse`, `msg_reuse*.cfg` |
| `MsgReuseProofs` | the theorems about `MsgReuse` | TLAPS |

Two proof modules speak of two programs each and extend both of their modules.
Names that the two would share are therefore told apart: those of `MultiBuffer`
begin with Copy (`CopyInit`, `CopySpec`, `CopyTypeOK`), those of `ShmCounter`
with Counter, and its `round` is the client's `i`, its `ShmLoop` the client's
`nloop`.

### How state and actions correspond to the code

Otherwise variables carry the names of the C variables they stand for.  Each thread or
process has a *label* (`ppc[p]` for producers, `cpc` for consumers, `main` for
the main thread), which names the statement it executes next.  The granularity:

* a call that may block or that other threads can see (a semaphore operation, a
  lock, a read of the file) is a step of its own;
* the statements between two such calls are one step when they are executed
  under a mutex and touch only what it protects, and are split where the
  interesting order is *inside* the critical section (store, then advance;
  the two halves of `strcpy`);
* statements that touch only the thread's own variables go with the preceding
  call.

The arguments of a program (`atoi(argv[k])`, so any integer) are chosen in
`Init` and never changed: one run covers all of them.  Comparisons that only
print an error message (`10-chapter.c:239`, `7-chapter.c:220`) are steps that
change nothing; `NoError` (in chapter 10 `Implements`, and the theorem
`NeverError`) says that they never find anything.

`Stale` in `SemProdCons` is the set of semaphore names an earlier, killed run
has left behind.  `sem_open(O_CREAT | O_EXCL)` then returns `SEM_FAILED`, which
the program never looks at; every later operation on it fails at once, so a
wait is a step that changes nothing.  That is the behaviour of macOS, for
which the programs are written (`10-chapter.c:85`); where `SEM_FAILED` is a
null pointer the program may crash instead.  With a stale `mutex` the
statements of two threads interleave freely, at a finer grain than these
steps; the run that uses it finds its violation at this coarser grain already.

The programs of *processes* add what a process brings with it:

* `RecordLock`.  `Lock`, `Read`, `Write` and `Unlock` are the four parts of a
  round; `unlocked` is the set of processes that run the program without locks.
  `Kill` may happen between any two of them and drops the lock, because the
  kernel does.  `file` is the number `sscanf` would read, `None` when there is
  none; then `seqno` keeps its old value, which at first is any of `Garbage`.
* `ShmCounter`.  An object is named after the run of `server_1` that made it,
  so the old and the new counter and semaphore live side by side.  `ptr` and
  `mutex` are what a client got from `mmap` and `sem_open`; a client without
  memory crashes at `ptr->count++`, which is two steps, a read and a write.
* `ShmMessages`.  `sem` holds the values of the four semaphores, zero until
  `InitSems` comes to them.  A client maps the memory whenever it likes (`Open`):
  before `ftruncate` it gets none of this server's.  `erased` counts the posts
  that `sem_init(nstored, 0)` wipes out.  `deaf` are those who sleep on
  `noverflowmutex` without being counted as sleepers, because `sem_init` has
  reset that count; a post wakes only as many as it counts, and may wake a
  deaf one in the place of another (`PostNoverflow`), the server included.
  POSIX leaves all of this undefined; it is what a semaphore that is a value
  and a count of sleepers does.
* `FileServers`.  Six programs (`mode`) are one conversation: a request from a
  client, the file back.  A program is the sequence of its system calls, and
  `todo[p]` is the rest of it; what a call does depends on what channels are in
  that mode.  `ends[ch]` says who has which end of a pipe or FIFO open, so that
  end of file, `SIGPIPE` and the loss of what is in a FIFO follow from it;
  for a queue it says who has its identifier.  `waiting` are the calls of
  `open` that still miss the other end.  `Exit` closes what is open; `Kill`
  leads to it at any point; `Restart` starts the iterative server again.
  `names` and `data` may start with what an earlier run has left: in the queues
  any sequence of requests, which may name any file or none, and of answers,
  whole or in part, a lone empty message included.  Every unit says in the model
  whose it is, which no reader sees.  `NoNewline` is a last line of a client's
  input without a newline: `readline` reads on into the next request, and the
  two make one path name of the first client.  `fate` remembers what befell each
  process, because who may be left waiting depends on it.
* `MsgReuse`.  A queue is a sequence of at most `QMax` messages; a send into a
  full one waits.  `children` is the sequence of forked children.  `sigchld` is
  the pending signal (one, however many children ended).  `SigChld` runs the
  handler at any step of the parent; in `recv` it may have interrupted a blocked
  `msgrcv`, which takes the parent to `failed` with `errno` set, and the test of
  `errno` is a step of its own (`Retry`), so another signal fits in between.
  `Restart` is somebody starting the server again, after `err_sys` ended it.
* `MultiBuffer` is one process, but its file may fail it: a `read` returns the
  next chunk, the end of the file, or, open or not, an error (`ReadResults`).

## 3. Runs

| Run | Question | Instance | Result |
|---|---|---|---|
| `sem_mpmc` | is test 3 a bounded buffer that ends? | 2 slots, up to 2 threads of each kind, items -1, 0, 1, 3; thread arguments 0, 1, 3 | 6 properties hold (75 373 states) |
| `sem_stale` | what if names were left behind? | 2 slots, one thread of each kind, all names stale | `NoOverwrite` fails: finding |
| `sem_single` | do tests 1 and 2 end without the extra tokens? | 2 slots, up to 3 producers | 4 properties hold (21 789 states) |
| `multibuf` | are the buffers kept apart outside the mutex? | 3 buffers, files of 0 to 5 chunks, the file opened or not, any read may fail | 4 properties hold (31 938 states) |
| `mutex_cond` | is any wakeup lost, any item read too early? | 3 items of the array, up to 3 producers, all three tests | 6 properties hold (71 109 states) |
| `shm_messages` | are slots, mutexes and numbers kept, also for clients that come before the server is ready? | 2 slots, up to 2 clients, 3 messages each | 5 properties hold (768 118 states) |
| `record_lock` | which increments are lost? | 2 processes, with or without locks, 3 rounds each, a file with and without a number | 4 properties hold (41 724 states) |
| `shm_counter` | what does a second start of the server do to the clients? | 2 runs of the server, 2 clients, 2 rounds each | 3 properties hold (130 279 states) |
| `msg_reuse` | is everybody answered, with the right file? | 3 clients, queues of 2 messages, files empty or missing, one of them perhaps of 3 lines, 2 runs of the server | 4 properties hold (957 698 states) |
| `file_servers` | does everybody get the right file and end, over whatever channel and whoever is killed? | 2 clients (1 but for the FIFO server), channels of 2 units, files of 0 and 3 chunks, missing ones, empty path names, lines without a newline, everything that fits into the queues left by an earlier run, 2 runs of the FIFO server | 4 properties hold (539 045 states) |
| `msg_reuse_ends` | does the server "just loop around"? | the same, one run of the server | `ParentLoops` fails: finding |
| `shm_messages_lost` | is every message printed or counted? | 2 slots, 2 clients, 1 message each | `DeliveredOrCounted` fails: finding |

Why the bounds are enough.  A ring of two slots wraps around, is empty, partly
full and full, and is overtaken by three items; `MAXNTHREADS` is cut by an
argument of 3 (or 4) so that `min` matters; the items include a negative
number, none, fewer than the slots and more than the slots.  Two threads of
each kind give every order of two tokens; a third adds only symmetric copies of
the second (the proofs of section 5 make that precise for `SemProdCons`).
Nothing in these models needs an artificial counter bound: `nput` stops at
`nitems` by the code's own test.

For the processes: three rounds instead of 100 are the fewest in which one
process can write back, after all other rounds, a number it read at the very
beginning, and have another do the same to it (that is how all but two
increments can get lost).  A file of three lines and its end do not
fit into a queue of two.  The forking server ends only when two of its children
have, so a third client is needed for a request that is still in the queue then:
the second run of the server takes it up, or, when there is none, `Served` holds
by its second part.  The clients of `MsgReuse` are alike, so their files are
given in the order of their lengths.  `MaxRuns` is the one artificial bound: the
server is started at most so often.  Two runs of `server_1` are enough for every mixture of an old
and a new object.  In `FileServers`, `Capacity` 2 is what a pipe, FIFO or queue
holds; a file of three chunks blocks its writer, an empty one ends the answer
before it began.  `MaxRuns` 2 lets the FIFO server be killed with a request
read, and be started while clients of its first run still write.

Deadlock checking is off in every configuration because each program really
may stop: it exits, or it blocks for ever with arguments for which nobody can
wake it (`Completes` says which), or, for `server_2`, it waits for a next
message.  In `FileServers` a process may wait for one that is not there.  What
must *not* block is stated as a liveness property instead.

### Findings

* `sem_stale`: the result of `sem_open(O_CREAT | O_EXCL)` is ignored
  (`10-chapter.c:264`), so a run after a killed one runs without
  synchronisation, against "wait for at least 1 empty slot" (`:201`).
* `shm_messages_lost`: `client_2` copies its message after releasing the mutex
  (`13-chapter-client.c:102`).  With two clients, `nstored` counts ready slots
  without saying which; the server can print an unwritten slot and skip the
  message, which is then neither among "the actual messages" nor among the
  "#overflows by senders" (`13-chapter-server.c:24`, `:21`).
* `msg_reuse_ends`: `sig_chld` does not save `errno`, and its last `waitpid`
  sets it to `ECHILD` when no child is left (`unpipc.c:190`).  When a second
  child ends between the interrupted `msgrcv` and the test in `Mesg_recv`
  (`6_chapter/server-reuse.c:119`), `err_sys` ends the server, against "parent
  just loops around" (`:94`).  Clients waiting for the answer to a request in
  the queue wait until it is started again.

That `9-chapter-2.c` loses increments is no finding: it is what the program was
written to show (`9-chapter-2.c:18`), and `FinalRange` says how many.

## 4. Properties and fairness

Each module states one type invariant (`TypeOK`; among other things, no
semaphore goes below zero, and the indices of rings and loops stay in theirs),
and then what could be wrong:

* **Accounting** (`TokenAccounting`, `ReadyAccounting`): an equation between
  the value of each semaphore or counter and the number of threads at the
  labels that hold one of its tokens.  These are the real invariants of the
  programs; a post too many or too few breaks them at once, long before
  anything is overwritten.
* **The data** (`NoError`, `NoOverwrite`, `NoSharedBuffer`, `OutputIsFile`,
  `SingleClientInOrder`, `OwnAnswer`): nobody reads what was not written, or
  writes what was not read, and an answer is the file that was asked for.  In
  `FileServers`, where an earlier run may have left anything in the queues,
  `OwnAnswer` says that only there may foreign units come, before the client's
  own or in their place, and that a client which met none, and whose server was
  not ended, has printed its whole file when it has come to the end.
* **Counters** (`LockedExact`, `FinalRange`, `CountExact`): what a counter holds
  against how often it was incremented, a history variable of the model
  (`written`, `done`).  `CountExact` speaks of counters all of whose clients
  opened both names while no server ran (`quiet`); without that restriction it
  is false, because the second of two clients may get the old memory and the
  new semaphore, or the other way round.
* **Signals** (`NoZombieForgotten`): a child that has ended is reaped, or the
  signal that will reap it is pending.
* **The end** (`CountsAddUp`, `NumbersAddUp`, the last part of each accounting
  invariant): when the program exits, or everything is quiet, the counts it
  prints add up.
* **What holds a server up** (`ServerStays`): the iterative FIFO server ends
  only when it is killed, or by `SIGPIPE` for a client that died, because of the
  descriptor it never uses.
* **Refinement** (`Implements`): with the ring or array mapped to the sequence
  of items between the two indices, the program is a `BoundedBuffer`.  That the
  forking server and its clients are an `AnswerService` is proved (section 5).
* **Liveness** (`Termination`, `Drained`, `Ends`, `ClientsEnd`, `Served`): every thread ends, for exactly the arguments for which that is possible, and
  the copier of test 4 unless reads fail again and again for ever
  (`10-chapter.c:333` takes an error for data).  Every client of the forking
  server that is not killed gets its answer, unless the server ends and nobody
  starts it again (`Served`).  `Ends` of `FileServers` says that everybody ends,
  but for one client for each request without a newline, and lists when others
  may be left waiting (`Excused`): after an empty line, now or in a request left
  in the queue; after a client that came before the names existed, or took a
  message of an earlier run; after a process killed where others wait for it
  (`Amid`): before both FIFOs are open; the FIFO server or the server of the
  queues at any time; a client of the former between its request and the end of
  its answer, the client of the latter at any time before that end.  Any other
  kill leaves nobody behind, and over pipes no kill does.

Fairness is as weak as the program allows.  All modules but `MutexProdCons`
assume only that of `Next` (in `RecordLock`, `MsgReuse` and `FileServers` that
of `Step`, without the kills and the starts of a server, which need not happen): as long as
some thread can run, the scheduler runs one.  No loop in them spins, but for the
failing reads of `MultiBuffer`, so this is enough; in particular no
fairness among the waiters of a semaphore is assumed, which POSIX does not
promise.  `MutexProdCons` is different, because `consume_wait_2` polls: there
every thread is scheduled (weak fairness per thread), and a mutex that becomes
free again and again is not withheld from one thread for ever (strong fairness
of the lock operations).  Spurious wakeups are allowed and never required.

## 5. What is proved

Every theorem below is proved for every value of the constants that satisfies
the named assumptions of its module (`NBUFFAssumption` and the like: numbers
where the code has numbers, finite sets where it has processes or threads).
`MsgReuse` also assumes that no client is called like the two special messages
(`NamesAssumption`), `FileServers` that none is called like the server, the
well-known channel or an earlier run (`ProcsAssumption`).  Nothing else is assumed, but for `Stale = {}` where it is
written out.

| Module | Theorem | Statement |
|---|---|---|
| `SemProdConsProofs` | `TypeCorrect` | `Spec => []TypeOK`, also with stale names |
| | `TokensAccounted` | `Stale = {} => (Spec => []TokenAccounting)` |
| | `RingInvariant` | `Stale = {} => (Spec => []IInv)` |
| | `NeverOverwrites`, `NeverError` | the same for `NoOverwrite`, `NoError` |
| | `FinalCounts` | the same for `CountsAddUp` |
| | `ImplementsBuffer` | `Stale = {} => (Spec => Implements)` |
| `SemSingleConsumerProofs` | `TypeCorrect`, `SingleInvariant` | `Spec => []TypeOK`, `Spec => []IInv` |
| | `TokensReturned` | `Spec => []TokenAccounting` |
| | `SingleImplementsBuffer` | `Spec => Implements` |
| `FileProofs` | `BuffersTypeCorrect`, `BuffersInvariant` | `CopySpec => []CopyTypeOK`, `CopySpec => []CopyInv` |
| | `NeverShared` | `CopySpec => []NoSharedBuffer` |
| | `CopiesFile` | `CopySpec => []OutputIsFile` |
| | `FileTypes`, `FilesInvariant` | `Spec => []TypeOK`, `Spec => []IInv` of `FileServers` |
| | `AnswersOwn` | `Spec => []OwnAnswer` |
| | `ServerForever` | `Spec => []ServerStays` |
| `MutexProdConsProofs` | `MutexTypeCorrect`, `MutexInvariant` | `Spec => []TypeOK`, `Spec => []IInv` |
| | `ConsumerFindsItem` | `Spec => []NoError` |
| | `NeverSleepsOverItem` | `Spec => []NoLostWakeup` |
| | `ReadyCounts` | `Spec => []ReadyAccounting` |
| | `MutexImplementsBuffer` | `Spec => Implements` |
| `ShmMessagesProofs` | `MessagesTypeCorrect`, `MessagesInvariant` | `Spec => []TypeOK`, `Spec => []IInv` |
| | `SlotsAccounted` | `Spec => []TokenAccounting` |
| | `MessagesAddUp` | `Spec => []NumbersAddUp` |
| | `PrintedInOrder` | `Spec => []SingleClientInOrder` |
| `CounterProofs` | `RecordTypeCorrect` | `Spec => []TypeOK` of `RecordLock` |
| | `NoLostIncrement` | `Spec => []LockedExact` |
| | `TwoIncrementsLeft` | `Spec => []FinalRange` |
| | `CounterTypeCorrect`, `CounterExact` | `CounterSpec => []CounterTypeOK`, `CounterSpec => []CountExact` |
| `MsgReuseProofs` | `ReuseTypeCorrect`, `ReuseInvariant` | `Spec => []TypeOK`, `Spec => []IInv` |
| | `OwnAnswerGiven` | `Spec => []OwnAnswer` |
| | `NoneForgotten` | `Spec => []NoZombieForgotten` |
| | `ServesEachOnce` | `Spec => Service!Spec`, the `AnswerService` that clients see |

The inductive invariant of each module is called `IInv` (`CopyInv` for
`MultiBuffer`, `ShmInv` for `ShmCounter`), and TLC has checked each on the instance of its module's run
before it was proved, but for the parts that say that some sequence or function
exists (`Flows` and `Outputs` of `FileServers`, `Offsets` of `MultiBuffer`),
which it cannot enumerate.

### Counting

The programs' correctness is mostly accounting, so the lemmas they share are in
a module of their own, `Counting`.  `Number(S, pc, L)` is how many members of
the finite set `S` are at a label of `L`; a step of one of them from label `a`
to label `b` changes it by the membership of `a` and `b` in `L` and by nothing
else.  A sum of the counters of all threads is written as the number of pairs
of a thread and one of its rounds (`Rounds`); a step of one counter adds one
pair.  With these lemmas, each equation between semaphores, labels and counters
is preserved by arithmetic, one step per action.  `Counting` also holds what the
rings need to know of `%` (two indices less than a ring apart fall into
different slots) and the window of items between two indices.

### Producers and consumers over semaphores

**`SemProdCons`.**  Neither `NoOverwrite` nor `NoError` is inductive: that a
producer about to store finds a free slot depends on every token in every other
thread's hands.  The inductive invariant `IInv` therefore has five parts:

1. `TypeOK`;
2. `TokenAccounting`: `mutex` + holders = 1; `nempty` + claimants + stored
   items + consumers that have not posted yet = `NBUFF`; `nstored` + consumers
   that took a token + producers that have not posted yet = stored items +
   producers that quit;
3. `InStep`: values and indices agree, consumers are behind producers;
4. `TestsHold`: what a thread learnt from `nput >= nitems` or `nget >= nitems`
   under the mutex still holds when it acts on it;
5. `RingContents`: the slots between `nget` and `nput` hold those numbers.

Two consequences of the equations do the rest: at most one thread is inside the
mutex, and a thread that has passed its test has a slot (producer) or an item
(consumer) of its own.  The consumer's case is the subtle one, because a token
of `nstored` may come from a producer that quit: then `nput >= nitems` by
`TestsHold`, and a consumer past its test has `nget < nitems`, so there is an
item all the same.  The refinement proof maps each step to one of
`BoundedBuffer` or to a stutter.

What the program prints at the end needs three more parts (`FinalInv`): the
threads created and joined so far (`Threaded`), how far threads of one kind get
when there are none of the other (`OtherKind`), and that every item put or taken
is in a count or will be counted by the thread that has it (`Sums`).

**`SemSingleConsumer`.**  The same plan for two programs at once.  `OfTest`
separates them: `produce_1` runs alone and has its index to itself, `produce_2`
keeps index and value in step.  At the end all tokens are back, because every
thread has returned and the equations leave nowhere else for them to be.

**`MultiBuffer`.**  Both threads use their buffer outside the mutex, so no lock
keeps them apart.  What does is the distance between their indices (`Stored`),
which the semaphores account for: it is 0 or all of the ring, and the indices
are the same, only while one of the two is not at a buffer.  `Ring` says so.
What the buffers in between hold depends on which of the reads failed, so
`Offsets(f)` speaks of a function: `f[k]` is the offset of the file descriptor
when the `k`-th of them was read, and a failed read has left it where it was.
It leads from what has been written to where the descriptor is now; `JustRead`
is the same for a buffer not yet announced.  So reads and writes are the chunks
of the file in order, with errors between them that print nothing.

### Mutexes and the condition variable

**`MutexProdCons`.**  `Holders` says who is where while it holds which mutex.
The consumer's read of `buff[i]` outside every mutex is safe by `Contents` (the
array holds the items put so far) and `Index` (it has seen `nput`, or taken one
of `nready`, beyond its index).  For `nready`, raised in another order than the
items were stored, `Counts` is the equation between it, the producers that
still have to announce and `nput`.  `NoLostWakeup` is inductive with one fact
more (`Wakeups`): while the consumer sleeps, no producer is between its signal
and its increment, because both are made under the mutex that the consumer held
when it looked and gave up by going to sleep.

### Shared memory

**`ShmMessages`.**  Here the program's own start is part of what happens:
`Zeroed` says that nobody has come past a semaphore that `sem_init` has not
reached yet.  Then each of the three equations of `TokenAccounting` holds from
its own `sem_init` on, with the posts wiped out by it as one more term
(`erased`).  `Sums` counts messages by the pair of client and number.
`SingleClientInOrder` is a fact about the ring with one client alone
(`InOrder`): the slot it was given is the next one that the server will come
to, because the posts cannot overtake each other.

**`ShmCounter`** (in `CounterProofs`).  `CountExact` rests on what a run of
`server_1` does first: it removes the name of the memory.  So, once a client
has opened both names while no server ran, whoever opens the same memory later
finds the same semaphore (`Current`), and all such clients of one counter have
one semaphore (`Pairs`); that no object comes back under its name, because a
run makes each only once, is part of `Stages`.  `Exclusion` lets one of them in
at a time, and `Exact` says that whoever is between read and write has read what
is still there.

### Record locks

`TypeOK` needs one strengthening, `RoundsLeft`: only a process that has not
ended increments its loop index.  `LockedExact` is not inductive, because what
`Write` puts into the file depends on a number read three steps earlier.
`InSection` supplies it: a locking process is between `Lock` and the end of
`Unlock` exactly while it holds the lock, and at `Write` its `seqno` is the
successor of what is *now* in the file.  That this survives the steps of the
others is what the lock is for: two processes at `Read` or `Write` would both
be the holder.  A kill only takes a process out of its section.

`FinalRange` speaks of the order of all the reads and writes of a run, when some
processes do not lock.  Its invariant `RangeInv` has three parts.
`RoundsWritten`: what was written is what the loop indices say.  `Bounds`: file
and `seqno` are between the start and the start plus what was written, and a
number that is written in a second or later round is two increments above the
start at least, because its process has read after its own first write.
`LastRound` is the lower bound: as long as nobody is killed, there are two
increments in the file or some process still has a number to write, and the
last number of a process is one of a later round than its first.

### Message queues

**`MsgReuse`.**  `OwnAnswer` needs to know where a request is, and where each
message of an answer.  `Requests`: a request is in the well-known queue, then
with the parent, then with exactly one child; this survives the end of the
server, which can only lose it.  `Deliveries`: for each client, what was printed
followed by what waits in its queue is, in order, what its child has sent
(`InOrder`); without a child it is nothing (`Untouched`), while the child sends
it is as many units as the child has sent (`Sending`), after that all of them
(`Sent`).  A client that has taken the empty message has therefore taken all
lines before it, whoever else is served, killed or started meanwhile.
`Zombies` is `NoZombieForgotten` with the fact that a parent that has ended has
no children.

`ServesEachOnce` hides all of the machinery.  What was sent to a client is read
off its child (`Posted`); the clients whose request was taken up are those with a
child; a client that has taken the empty message is done.  Then a fork is
`TakeUp`, a send of a child `Tell`, and the signals, restarts and removals of
queues are stutters.  That nobody is taken up twice, and that a client which
finds a message has been sent more than it printed (`PostedAhead`), are
`Requests` and `Deliveries` again.

### Pipes, FIFOs and queues

**`FileServers`.**  The six programs are data: `todo[p]` is the rest of a
program.  So the invariant first says that it *is* a rest of it (`Programs`), and
everything else refers to which calls are still in it (`Rest(p)`); since no
program makes a call twice, that is as good as a program counter and the same
for all six.  None of the three properties is inductive:

* `TypeOK` bounds `sent` by the length of the answer to `to`, which has to be
  that of the request last read.
* `ServerStays` depends on the descriptor the server never uses.  `Multi` says
  that a live server which is past `open_dummy` has the write end of its own
  FIFO, so that it never reads an end of file.
* `OwnAnswer` depends on everything that has been in a channel.

`Requests` follows a request from its client into the channel and to the server,
once each; `Reading` is a server that has read a request without a newline and
reads on.  `Holds` says who may have which end of a channel open, and who must,
as long as nobody has missed anything.  `Meets` is the rendezvous: an `open`
that has returned has found the other end open.  `Flows` is the heart: what a
client has printed followed by what waits in its channel is, in this order, any
sequence of units of an earlier run (`Lefts`, which is empty but for the
queues) and the beginning of one answer (`Upto`), the client's own or one to a
request of nobody.  While the server is at that answer the beginning is as long as what it
has sent, or still empty, when what it writes reaches nobody.  `Outputs`
keeps of this what stays true for a client that has gone.  `Delivered` then adds
that with nobody killed an end of file is not read too early: when the server
has finished, or has closed its end, the whole answer is in the channel or
printed.  `Complete` is what a client knows when it is past `receive`.
That a client which took a unit of an earlier run is `Misled`, and is so only
over queues or when a name was missing, is part of `Outputs`; since an empty
message prints nothing, it is the taking and not the printing that counts.

The proof goes through the calls one by one.  All modes share the lemmas and are
told apart only where their channels behave differently: a pipe is there from
the start, an `open` of a FIFO waits, and a queue outlives everybody.  In `Exit`
what matters is which ends close, and that what is in a FIFO is lost with the
last of them.

### Only model-checked

* Liveness (`Termination`, `Drained`, `Ends`, `ClientsEnd`, `Served`) and with it
  the fairness that it rests on: the temporal prover has no rules for `ENABLED`.

Every invariant of the passing runs is also proved.  Conversely, the inductive
invariants, `NoError` of `SemProdCons` and the refinement `ServesEachOnce` are
proved and no run repeats them; TLC has checked them on the instances of their
modules' runs.

## 6. Not modelled

Bytes within a chunk of a file, a message or a number; formatting and logging;
signals other than through their effect on a call; `Px_ipc_name` (it only
builds a path); a `sem_init` or `fork` that fails, an `open` of the counted file
that fails, a `write` that puts out less than it was asked to; a client killed
while it holds a semaphore (nothing recovers from it); `server_2` started
again (its old clients keep the old memory and meet nobody).

Semaphore names of a killed run are modelled for test 3 of chapter 10 only
(`Stale`).  Tests 1 and 2 (`10-chapter.c:78-83`, `:164-169`) and test 4
(`:380-385`) open theirs in the same way and meet the same `SEM_FAILED`; the
models of these start without such names.  `ShmMessages` takes it that
`sem_init` works, as on Linux; the comment at `10-chapter.c:85-88` says that on
macOS it does not.

`client-reuse` started before the server has ever made the well-known queue:
`msgget` returns -1 and `Mesg_send` ends the client (`client-reuse.c:35`).
In `MsgReuse` the queue is always there.  A `fork` that fails there loses a
request (`server-reuse.c:71`).

Of chapter 4: `test_popen`, which hands the work to the shell and `cat`; a
request longer than `PIPE_BUF`, which another client's may split
(`4_chapter_client.c:79`); a line that fills `readline`'s buffer
(`unpipc.c:41`); the bytes of a line one by one, so that the FIFO server
is killed between two lines and not within one; a path name that two requests
run together by a missing newline happen to make, which is taken not to exist;
an end of file on the client's standard input, where it looks
at an uninitialised buffer; a request without a blank, which no client sends
(`4_chapter_server.c:194`); a process id used again after a client that died.

The command-line tools of `6_chapter/` are one system call each.  The RPC
programs are stubs generated by `rpcgen` around a stateless function; the
multi-threaded variant's sources do not fit together (its `server.c` implements
the thread-safe stub interface, the generated files beside it are of the other
kind).

## 7. Plan

Done, in this order: `BoundedBuffer`, `SemProdCons` and its proofs,
`SemSingleConsumer`, `MultiBuffer`, `MutexProdCons`, `ShmMessages`,
`RecordLock` and its proofs, `ShmCounter`, `MsgReuse`, `FileServers`, the
start-up of `server_2` in `ShmMessages`, the proofs of the other modules,
those of `FileServers` last, and `AnswerService` with the proof that `MsgReuse`
implements it.

What could come next: that the programs of `FileServers` implement
`AnswerService` too.  They do not as it stands.  Over queues a client may print
what an earlier program has left, and over pipes and FIFOs it takes an answer
that a killed server has cut short for the whole one; so either the abstract
service has to allow both, or the statement is about runs without them.
