----------------------------- MODULE SemProdCons -----------------------------
(***************************************************************************)
(* 10-chapter.c, test_multi_producer_multi_consumer: nproducers threads    *)
(* run produce_3 and nconsumers threads run consume_3 over one ring of     *)
(* NBUFF ints, synchronised by the Posix named semaphores mutex, nempty    *)
(* and nstored, while the main thread creates and joins them.              *)
(*                                                                         *)
(* A step is one semaphore call, or the code a thread runs between two of  *)
(* them, the store and the increments of produce_3 being two steps.  The   *)
(* label of a thread (ppc, cpc) names what it does next.                   *)
(***************************************************************************)
EXTENDS Integers, FiniteSets

CONSTANTS NBUFF,         \* places of the ring
          MAXNTHREADS,   \* most threads of each kind
          Items,         \* the values of atoi(argv[1]) considered
          Threads,       \* the values of atoi(argv[2]) and atoi(argv[3])
          Stale          \* semaphore names an earlier, killed run has left

SemNames == {"mutex", "nempty", "nstored"}

ASSUME NBUFFAssumption   == NBUFF \in Nat \ {0}
ASSUME ThreadsAssumption == MAXNTHREADS \in Nat \ {0} /\ Threads \subseteq Int
ASSUME ItemsAssumption   == Items \subseteq Int
ASSUME StaleAssumption   == Stale \subseteq SemNames

VARIABLES nitems, nproducers, nconsumers,     \* read-only after the start
          sem,                                \* value of each semaphore
          buff, nput, nputval, nget, ngetval, \* struct shared
          ppc, cpc,                           \* labels of the threads
          prodcount, conscount,               \* *((int *) arg) of each thread
          main, i                             \* main thread: phase, loop index

args      == <<nitems, nproducers, nconsumers>>
ring      == <<buff, nput, nputval, nget, ngetval>>
producers == <<ppc, prodcount>>
consumers == <<cpc, conscount>>
mainvars  == <<main, i>>
vars      == <<args, sem, ring, producers, consumers, mainvars>>

Tids == 0 .. MAXNTHREADS - 1

PLabels == {"unborn", "wait_nempty", "wait_mutex", "test", "store", "advance",
            "post_mutex", "post_nstored", "count",
            "quit_nstored", "quit_nempty", "quit_mutex", "returned"}
CLabels == {"unborn", "wait_nstored", "wait_mutex", "test", "fetch", "advance",
            "post_mutex", "post_nempty", "count",
            "quit_nstored", "quit_mutex", "returned"}

-----------------------------------------------------------------------------
(* Semaphores.  sem_open(O_CREAT | O_EXCL) of a name that still exists      *)
(* returns SEM_FAILED, which nobody checks: every later sem_wait and        *)
(* sem_post of that name fails (EBADF) and returns at once.                 *)

SemInitNempty1 == [mutex |-> 1, nempty |-> NBUFF + 1, nstored |-> 0]

SemInit == [mutex |-> 1, nempty |-> NBUFF, nstored |-> 0]

SemWait(s) == \/ s \notin Stale /\ sem[s] > 0 /\ sem' = [sem EXCEPT ![s] = @ - 1]
              \/ s \in Stale /\ UNCHANGED sem

SemPost(s) == sem' = IF s \in Stale THEN sem ELSE [sem EXCEPT ![s] = @ + 1]

Min2(a, b) == IF a < b THEN a ELSE b

(* Lines 257-269: the arguments are read, the semaphores opened; struct     *)
(* shared is zeroed storage.                                                *)
Init ==
  /\ nitems \in Items
  /\ nproducers \in {Min2(a, MAXNTHREADS) : a \in Threads}
  /\ nconsumers \in {Min2(a, MAXNTHREADS) : a \in Threads}
  /\ sem = SemInit
  /\ buff = [k \in 0 .. NBUFF - 1 |-> 0]
  /\ nput = 0 /\ nputval = 0 /\ nget = 0 /\ ngetval = 0
  /\ ppc = [p \in Tids |-> "unborn"] /\ prodcount = [p \in Tids |-> 0]
  /\ cpc = [c \in Tids |-> "unborn"] /\ conscount = [c \in Tids |-> 0]
  /\ main = "create_p" /\ i = 0

-----------------------------------------------------------------------------
(* produce_3 *)

PGoto(p, from, to) == ppc[p] = from /\ ppc' = [ppc EXCEPT ![p] = to]
OnlyProducer == UNCHANGED <<args, consumers, mainvars>>

ProducerWait(p) ==
  /\ \/ PGoto(p, "wait_nempty", "wait_mutex") /\ SemWait("nempty")
     \/ PGoto(p, "wait_mutex", "test") /\ SemWait("mutex")
  /\ UNCHANGED <<ring, prodcount>> /\ OnlyProducer

\* one item too many: > for >=
ProducerTestGreater(p) ==
  /\ PGoto(p, "test", IF nput > nitems THEN "quit_nstored" ELSE "store")
  /\ UNCHANGED <<sem, ring, prodcount>> /\ OnlyProducer

ProducerTest(p) ==
  /\ PGoto(p, "test", IF nput >= nitems THEN "quit_nstored" ELSE "store")
  /\ UNCHANGED <<sem, ring, prodcount>> /\ OnlyProducer

ProducerStore(p) ==
  /\ PGoto(p, "store", "advance")
  /\ buff' = [buff EXCEPT ![nput % NBUFF] = nputval]
  /\ UNCHANGED <<sem, nput, nputval, nget, ngetval, prodcount>> /\ OnlyProducer

ProducerAdvance(p) ==
  /\ PGoto(p, "advance", "post_mutex")
  /\ nput' = nput + 1 /\ nputval' = nputval + 1
  /\ UNCHANGED <<sem, buff, nget, ngetval, prodcount>> /\ OnlyProducer

\* the slot's semaphore posted in place of the item's
ProducerPostNempty(p) ==
  /\ \/ PGoto(p, "post_mutex", "post_nstored") /\ SemPost("mutex")
     \/ PGoto(p, "post_nstored", "count") /\ SemPost("nempty")
  /\ UNCHANGED <<ring, prodcount>> /\ OnlyProducer

ProducerPost(p) ==
  /\ \/ PGoto(p, "post_mutex", "post_nstored") /\ SemPost("mutex")
     \/ PGoto(p, "post_nstored", "count") /\ SemPost("nstored")
  /\ UNCHANGED <<ring, prodcount>> /\ OnlyProducer

ProducerCount(p) ==
  /\ PGoto(p, "count", "wait_nempty")
  /\ prodcount' = [prodcount EXCEPT ![p] = @ + 1]
  /\ UNCHANGED <<sem, ring>> /\ OnlyProducer

\* produce_2's way out: no post of nstored
ProducerQuitSilently(p) ==
  /\ \/ PGoto(p, "quit_nstored", "quit_nempty") /\ UNCHANGED sem
     \/ PGoto(p, "quit_nempty", "quit_mutex") /\ SemPost("nempty")
     \/ PGoto(p, "quit_mutex", "returned") /\ SemPost("mutex")
  /\ UNCHANGED <<ring, prodcount>> /\ OnlyProducer

ProducerQuit(p) ==
  /\ \/ PGoto(p, "quit_nstored", "quit_nempty") /\ SemPost("nstored")
     \/ PGoto(p, "quit_nempty", "quit_mutex") /\ SemPost("nempty")
     \/ PGoto(p, "quit_mutex", "returned") /\ SemPost("mutex")
  /\ UNCHANGED <<ring, prodcount>> /\ OnlyProducer

Producer(p) == \/ ProducerWait(p) \/ ProducerTest(p) \/ ProducerStore(p)
               \/ ProducerAdvance(p) \/ ProducerPost(p) \/ ProducerCount(p)
               \/ ProducerQuit(p)

-----------------------------------------------------------------------------
(* consume_3.  The comparison at "fetch" only prints: NoError below says    *)
(* that it never does.                                                      *)

CGoto(c, from, to) == cpc[c] = from /\ cpc' = [cpc EXCEPT ![c] = to]
OnlyConsumer == UNCHANGED <<args, producers, mainvars>>

ConsumerWait(c) ==
  /\ \/ CGoto(c, "wait_nstored", "wait_mutex") /\ SemWait("nstored")
     \/ CGoto(c, "wait_mutex", "test") /\ SemWait("mutex")
  /\ UNCHANGED <<ring, conscount>> /\ OnlyConsumer

ConsumerTest(c) ==
  /\ CGoto(c, "test", IF nget >= nitems THEN "quit_nstored" ELSE "fetch")
  /\ UNCHANGED <<sem, ring, conscount>> /\ OnlyConsumer

ConsumerFetch(c) ==
  /\ CGoto(c, "fetch", "advance")
  /\ UNCHANGED <<sem, ring, conscount>> /\ OnlyConsumer

ConsumerAdvance(c) ==
  /\ CGoto(c, "advance", "post_mutex")
  /\ nget' = nget + 1 /\ ngetval' = ngetval + 1
  /\ UNCHANGED <<sem, buff, nput, nputval, conscount>> /\ OnlyConsumer

ConsumerPost(c) ==
  /\ \/ CGoto(c, "post_mutex", "post_nempty") /\ SemPost("mutex")
     \/ CGoto(c, "post_nempty", "count") /\ SemPost("nempty")
  /\ UNCHANGED <<ring, conscount>> /\ OnlyConsumer

ConsumerCount(c) ==
  /\ CGoto(c, "count", "wait_nstored")
  /\ conscount' = [conscount EXCEPT ![c] = @ + 1]
  /\ UNCHANGED <<sem, ring>> /\ OnlyConsumer

ConsumerQuit(c) ==
  /\ \/ CGoto(c, "quit_nstored", "quit_mutex") /\ SemPost("nstored")
     \/ CGoto(c, "quit_mutex", "returned") /\ SemPost("mutex")
  /\ UNCHANGED <<ring, conscount>> /\ OnlyConsumer

Consumer(c) == \/ ConsumerWait(c) \/ ConsumerTest(c) \/ ConsumerFetch(c)
               \/ ConsumerAdvance(c) \/ ConsumerPost(c) \/ ConsumerCount(c)
               \/ ConsumerQuit(c)

-----------------------------------------------------------------------------
(* The main thread: two loops of pthread_create, two of pthread_join.       *)

CreateProducer ==
  /\ main = "create_p" /\ i < nproducers
  /\ PGoto(i, "unborn", "wait_nempty")
  /\ prodcount' = [prodcount EXCEPT ![i] = 0]
  /\ i' = i + 1
  /\ UNCHANGED <<args, sem, ring, consumers, main>>

CreateConsumer ==
  /\ main = "create_c" /\ i < nconsumers
  /\ CGoto(i, "unborn", "wait_nstored")
  /\ conscount' = [conscount EXCEPT ![i] = 0]
  /\ i' = i + 1
  /\ UNCHANGED <<args, sem, ring, producers, main>>

\* pthread_join without waiting for the thread
JoinNoWait ==
  /\ \/ main = "join_p" /\ i < nproducers
     \/ main = "join_c" /\ i < nconsumers
  /\ i' = i + 1
  /\ UNCHANGED <<args, sem, ring, producers, consumers, main>>

Join ==
  /\ \/ main = "join_p" /\ i < nproducers /\ ppc[i] = "returned"
     \/ main = "join_c" /\ i < nconsumers /\ cpc[i] = "returned"
  /\ i' = i + 1
  /\ UNCHANGED <<args, sem, ring, producers, consumers, main>>

\* a loop goes on where the one before it has ended: i = 0 is missing
NextLoopOn ==
  /\ \/ main = "create_p" /\ i >= nproducers /\ main' = "create_c"
     \/ main = "create_c" /\ i >= nconsumers /\ main' = "join_p"
     \/ main = "join_p"   /\ i >= nproducers /\ main' = "join_c"
     \/ main = "join_c"   /\ i >= nconsumers /\ main' = "exit"
  /\ UNCHANGED <<i, args, sem, ring, producers, consumers>>

\* a for loop ends; after the last one the names are unlinked and exit(0) called
NextLoop ==
  /\ \/ main = "create_p" /\ i >= nproducers /\ main' = "create_c"
     \/ main = "create_c" /\ i >= nconsumers /\ main' = "join_p"
     \/ main = "join_p"   /\ i >= nproducers /\ main' = "join_c"
     \/ main = "join_c"   /\ i >= nconsumers /\ main' = "exit"
  /\ i' = 0
  /\ UNCHANGED <<args, sem, ring, producers, consumers>>

Main == CreateProducer \/ CreateConsumer \/ Join \/ NextLoop

Next == Main \/ \E t \in Tids : Producer(t) \/ Consumer(t)

(* Weak fairness of the whole program: as long as some thread can run, the  *)
(* scheduler runs one.  No loop of the program spins, so nothing stronger   *)
(* is needed, in particular no fairness among the waiters of a semaphore.   *)
Spec == Init /\ [][Next]_vars /\ WF_vars(Next)

-----------------------------------------------------------------------------
(* Properties *)

Count(pc, L) == Cardinality({t \in Tids : pc[t] \in L})
P(L) == Count(ppc, L)     \* how many producers are at a label in L
C(L) == Count(cpc, L)     \* how many consumers are at a label in L

\* Every variable keeps its C type, and the one index of the main thread's four
\* loops, in tid_produce, tid_consume and the counts, stays below the number of
\* threads of the loop it is in.
TypeOK ==
  /\ nitems \in Int /\ nproducers \in Int /\ nconsumers \in Int
  /\ nproducers =< MAXNTHREADS /\ nconsumers =< MAXNTHREADS
  /\ sem \in [SemNames -> Nat]
  /\ buff \in [0 .. NBUFF - 1 -> Int]
  /\ nput \in Nat /\ nputval \in Nat /\ nget \in Nat /\ ngetval \in Nat
  /\ ppc \in [Tids -> PLabels] /\ cpc \in [Tids -> CLabels]
  /\ prodcount \in [Tids -> Nat] /\ conscount \in [Tids -> Nat]
  /\ main \in {"create_p", "create_c", "join_p", "join_c", "exit"} /\ i \in Nat
  /\ i # 0 => i =< IF main \in {"create_p", "join_p"} THEN nproducers ELSE nconsumers

\* The mutex is free or held by exactly one thread.
PHolding == {"test", "store", "advance", "post_mutex",
             "quit_nstored", "quit_nempty", "quit_mutex"}
CHolding == {"test", "fetch", "advance", "post_mutex",
             "quit_nstored", "quit_mutex"}
MutexTokens == sem["mutex"] + P(PHolding) + C(CHolding) = 1

\* Every place of the ring is free (counted by nempty), claimed by a producer
\* that has not filled it yet, filled, or emptied by a consumer that has not
\* posted nempty yet.
PClaiming == {"wait_mutex", "test", "store", "advance",
              "quit_nstored", "quit_nempty"}
CFreeing  == {"post_mutex", "post_nempty"}
SlotTokens == sem["nempty"] + P(PClaiming) + (nput - nget) + C(CFreeing) = NBUFF

\* Every token of nstored stands for a filled place or for a producer that has
\* quit (the post "let consumers terminate" of produce_3), and consumers hand
\* the latter on.
PStoring  == {"post_mutex", "post_nstored"}
PQuitting == {"quit_nempty", "quit_mutex", "returned"}
CTaking   == {"wait_mutex", "test", "fetch", "advance", "quit_nstored"}
ItemTokens ==
  sem["nstored"] + C(CTaking) + P(PStoring) = (nput - nget) + P(PQuitting)

\* The three semaphores of produce_3 and consume_3 account exactly for the
\* threads and the ring at every step, the extra tokens of the threads that
\* end included.
TokenAccounting == MutexTokens /\ SlotTokens /\ ItemTokens

\* A producer about to store has a free place: it overwrites no item that was
\* not consumed ("wait for at least 1 empty slot").
NoOverwrite ==
  \A p \in Tids : ppc[p] = "store" => nput - nget < NBUFF

\* A consumer past its test finds an item, and the item is the next one: the
\* message "error: buff[%d] = %d" is never printed, although tokens that
\* stand for no item are in circulation.
NoError ==
  \A c \in Tids : cpc[c] = "fetch" =>
    nget < nput /\ buff[nget % NBUFF] = ngetval

\* The two counters of each end agree, the consumers are behind the producers,
\* and the producers stop at nitems.
InStep == /\ nputval = nput /\ ngetval = nget
          /\ nget =< nput /\ (nput = 0 \/ nput =< nitems)

\* What a thread has found out under the mutex still holds when it acts on it.
TestsHold ==
  /\ \A p \in Tids : ppc[p] \in {"store", "advance"} => nput < nitems
  /\ \A p \in Tids : ppc[p] \in {"quit_nstored"} \cup PQuitting => nput >= nitems
  /\ \A c \in Tids : cpc[c] \in {"fetch", "advance"} => nget < nitems

\* The places between nget and nput hold the items of those numbers, and so
\* does the place a producer has just filled.
RingContents ==
  /\ \A k \in nget .. nput - 1 : buff[k % NBUFF] = k
  /\ \A p \in Tids : ppc[p] = "advance" => buff[nput % NBUFF] = nput

\* The inductive invariant: the ring is exactly the window of items that the
\* semaphores account for, at every step of every thread.
IInv == TypeOK /\ TokenAccounting /\ InStep /\ TestsHold /\ RingContents

\* The rounds that the threads have counted: as many as the counts add up to.
Counted(counts) == UNION {{t} \X (0 .. counts[t] - 1) : t \in Tids}

\* The program ends for these arguments only.
Completes == \/ nproducers =< 0 /\ nconsumers =< 0
             \/ nproducers > 0 /\ (nconsumers > 0 \/ nitems < NBUFF)

\* When the program exits, every item has been produced once and consumed
\* once, and the counts it has printed add up to that; it never exits with
\* arguments for which some thread must still be blocked.
CountsAddUp ==
  main = "exit" =>
    /\ Completes
    /\ Cardinality(Counted(prodcount)) = nput /\ Cardinality(Counted(conscount)) = nget
    /\ nproducers > 0 => nput = (IF nitems > 0 THEN nitems ELSE 0)
    /\ nconsumers > 0 => nget = nput

\* The ring and its two indices are a bounded buffer of NBUFF places: items
\* leave in the order they entered.
Contents == [k \in 1 .. nput - nget |-> buff[(nget + k - 1) % NBUFF]]
Buffer == INSTANCE BoundedBuffer WITH
            Capacity <- NBUFF, limit <- nitems, added <- nput, taken <- nget,
            buf <- Contents
Implements == Buffer!Spec

\* With at least one thread of each kind (or few enough items) every thread
\* ends: no consumer is left waiting for an item that never comes.
Termination == Completes ~> main = "exit"
=============================================================================
