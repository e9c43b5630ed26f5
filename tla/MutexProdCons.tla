---------------------------- MODULE MutexProdCons ----------------------------
(***************************************************************************)
(* 7-chapter.c: several producers fill an array of nitems ints under a     *)
(* mutex, one consumer checks it.  The program is one of three tests:      *)
(*   1  the consumer starts when every producer has ended;                 *)
(*   2  it starts at once and polls nput under the mutex;                  *)
(*   3  it sleeps on a condition variable until nready says there is one.  *)
(* A step is one pthread call or the code between two of them; struct      *)
(* shared (tests 1, 2) and struct put (test 3) are the same variables.     *)
(***************************************************************************)
EXTENDS Integers, FiniteSets

CONSTANTS MAXNITEMS, MAXNTHREADS,
          Items, Threads      \* the values of atoi(argv[1]), atoi(argv[2])

ASSUME MAXNITEMSAssumption == MAXNITEMS \in Nat \ {0}
ASSUME ThreadsAssumption   == MAXNTHREADS \in Nat \ {0} /\ Threads \subseteq Int
ASSUME ItemsAssumption     == Items \subseteq Int

VARIABLES test, nitems, nthreads,             \* read-only after the start
          mutex, buff, nput, nval,            \* struct shared, or buff and put
          nready_mutex, nready,               \* struct nready, test 3
          ppc, count, cpc, ci,                \* ci: the consumer's i
          main, i                             \* main thread: phase, loop index

args  == <<test, nitems, nthreads>>
put   == <<buff, nput, nval>>
ready == <<nready_mutex, nready>>
producers == <<ppc, count>>
consumer  == <<cpc, ci>>
mainvars  == <<main, i>>
vars == <<args, mutex, put, ready, producers, consumer, mainvars>>

Tids == 0 .. MAXNTHREADS - 1
Consumer == MAXNTHREADS           \* the consumer's thread, as a mutex holder
Free     == MAXNTHREADS + 1       \* nobody's

PLabels == {"unborn", "lock", "test", "store", "advance", "unlock", "lock_nready",
            "signal", "post", "unlock_nready", "count", "quit", "returned"}
CLabels == {"unborn", "lock", "poll", "unlock_ready", "unlock_retry",
            "while", "waiting", "relock", "take", "unlock", "compare", "returned"}

Min2(a, b) == IF a < b THEN a ELSE b

Init ==
  /\ test \in 1 .. 3
  /\ nitems \in {Min2(a, MAXNITEMS) : a \in Items}
  /\ nthreads \in {Min2(a, MAXNTHREADS) : a \in Threads}
  /\ mutex = Free /\ nready_mutex = Free /\ nready = 0
  /\ buff = [k \in 0 .. MAXNITEMS - 1 |-> 0] /\ nput = 0 /\ nval = 0
  /\ ppc = [p \in Tids |-> "unborn"] /\ count = [p \in Tids |-> 0]
  /\ cpc = "unborn" /\ ci = 0
  /\ main = "create_p" /\ i = 0

-----------------------------------------------------------------------------
(* produce_1, produce_2, produce_3 *)

PGoto(p, from, to) == ppc[p] = from /\ ppc' = [ppc EXCEPT ![p] = to]
OnlyProducer == UNCHANGED <<args, mainvars>>

ProducerLock(p) ==
  /\ \/ /\ PGoto(p, "lock", "test")
        /\ mutex = Free /\ mutex' = p /\ UNCHANGED nready_mutex
     \/ /\ PGoto(p, "lock_nready", "signal")
        /\ nready_mutex = Free /\ nready_mutex' = p /\ UNCHANGED mutex
  /\ UNCHANGED <<put, nready, count, consumer>> /\ OnlyProducer

ProducerTest(p) ==
  /\ PGoto(p, "test", IF nput >= nitems THEN "quit" ELSE "store")
  /\ UNCHANGED <<mutex, put, ready, count, consumer>> /\ OnlyProducer

ProducerStore(p) ==
  /\ PGoto(p, "store", "advance")
  /\ buff' = [buff EXCEPT ![nput] = nval]
  /\ UNCHANGED <<mutex, nput, nval, ready, count, consumer>> /\ OnlyProducer

ProducerAdvance(p) ==
  /\ PGoto(p, "advance", "unlock")
  /\ nput' = nput + 1 /\ nval' = nval + 1
  /\ UNCHANGED <<mutex, buff, ready, count, consumer>> /\ OnlyProducer

ProducerUnlock(p) ==
  /\ \/ PGoto(p, "unlock", IF test = 3 THEN "lock_nready" ELSE "count")
     \/ PGoto(p, "quit", "returned")
  /\ mutex' = Free
  /\ UNCHANGED <<put, ready, count, consumer>> /\ OnlyProducer

\* the signal only if the count was not zero
ProducerSignalInverted(p) ==
  /\ PGoto(p, "signal", "post")
  /\ cpc' = IF nready # 0 /\ cpc = "waiting" THEN "relock" ELSE cpc
  /\ UNCHANGED <<mutex, put, ready, count, ci>> /\ OnlyProducer

\* pthread_cond_signal wakes the consumer if it waits
ProducerSignal(p) ==
  /\ PGoto(p, "signal", "post")
  /\ cpc' = IF nready = 0 /\ cpc = "waiting" THEN "relock" ELSE cpc
  /\ UNCHANGED <<mutex, put, ready, count, ci>> /\ OnlyProducer

\* nready as a flag
ProducerPostFlag(p) ==
  /\ \/ PGoto(p, "post", "unlock_nready") /\ nready' = 1 /\ UNCHANGED nready_mutex
     \/ PGoto(p, "unlock_nready", "count") /\ nready_mutex' = Free /\ UNCHANGED nready
  /\ UNCHANGED <<mutex, put, count, consumer>> /\ OnlyProducer

ProducerPost(p) ==
  /\ \/ PGoto(p, "post", "unlock_nready") /\ nready' = nready + 1 /\ UNCHANGED nready_mutex
     \/ PGoto(p, "unlock_nready", "count") /\ nready_mutex' = Free /\ UNCHANGED nready
  /\ UNCHANGED <<mutex, put, count, consumer>> /\ OnlyProducer

ProducerCount(p) ==
  /\ PGoto(p, "count", "lock")
  /\ count' = [count EXCEPT ![p] = @ + 1]
  /\ UNCHANGED <<mutex, put, ready, consumer>> /\ OnlyProducer

Producer(p) == \/ ProducerLock(p) \/ ProducerTest(p) \/ ProducerStore(p)
               \/ ProducerAdvance(p) \/ ProducerUnlock(p) \/ ProducerSignal(p)
               \/ ProducerPost(p) \/ ProducerCount(p)

-----------------------------------------------------------------------------
(* consume_1, consume_2 with consume_wait_2, consume_3.  The comparison at  *)
(* "compare" only prints: NoError below says that it never does.            *)

CGoto(from, to) == cpc = from /\ cpc' = to

\* where a round of the for loop begins, or the thread ends
LoopHead(n) == IF n >= nitems THEN "returned"
               ELSE IF test = 1 THEN "compare" ELSE "lock"

\* if for while: nready is not tested again after the wait
ConsumerLockIf ==
  /\ \/ /\ test = 2 /\ CGoto("lock", "poll")
        /\ mutex = Free /\ mutex' = Consumer /\ UNCHANGED nready_mutex
     \/ /\ test = 3 /\ (CGoto("lock", "while") \/ CGoto("relock", "take"))
        /\ nready_mutex = Free /\ nready_mutex' = Consumer /\ UNCHANGED mutex
  /\ UNCHANGED <<args, put, nready, producers, ci, mainvars>>

ConsumerLock ==
  /\ \/ /\ test = 2 /\ CGoto("lock", "poll")
        /\ mutex = Free /\ mutex' = Consumer /\ UNCHANGED nready_mutex
     \/ /\ test = 3 /\ (CGoto("lock", "while") \/ CGoto("relock", "while"))
        /\ nready_mutex = Free /\ nready_mutex' = Consumer /\ UNCHANGED mutex
  /\ UNCHANGED <<args, put, nready, producers, ci, mainvars>>

\* off by one: the item being stored is taken for stored
ConsumerPollEarly ==
  /\ \/ CGoto("poll", IF ci =< nput THEN "unlock_ready" ELSE "unlock_retry")
        /\ UNCHANGED mutex
     \/ CGoto("unlock_ready", "compare") /\ mutex' = Free
     \/ CGoto("unlock_retry", "lock") /\ mutex' = Free
  /\ UNCHANGED <<args, put, ready, producers, ci, mainvars>>

ConsumerPoll ==
  /\ \/ CGoto("poll", IF ci < nput THEN "unlock_ready" ELSE "unlock_retry")
        /\ UNCHANGED mutex
     \/ CGoto("unlock_ready", "compare") /\ mutex' = Free
     \/ CGoto("unlock_retry", "lock") /\ mutex' = Free
  /\ UNCHANGED <<args, put, ready, producers, ci, mainvars>>

\* pthread_cond_wait releases the mutex and sleeps in one step
ConsumerWait ==
  /\ \/ nready = 0 /\ CGoto("while", "waiting") /\ nready_mutex' = Free
     \/ nready # 0 /\ CGoto("while", "take") /\ UNCHANGED nready_mutex
  /\ UNCHANGED <<args, mutex, put, nready, producers, ci, mainvars>>

ConsumerTake ==
  /\ \/ CGoto("take", "unlock") /\ nready' = nready - 1 /\ UNCHANGED nready_mutex
     \/ CGoto("unlock", "compare") /\ nready_mutex' = Free /\ UNCHANGED nready
  /\ UNCHANGED <<args, mutex, put, producers, ci, mainvars>>

ConsumerCompare ==
  /\ CGoto("compare", LoopHead(ci + 1))
  /\ ci' = ci + 1
  /\ UNCHANGED <<args, mutex, put, ready, producers, mainvars>>

\* POSIX lets pthread_cond_wait return without a signal
SpuriousWakeup ==
  /\ CGoto("waiting", "relock")
  /\ UNCHANGED <<args, mutex, put, ready, producers, ci, mainvars>>

ConsumerStep == ConsumerLock \/ ConsumerPoll \/ ConsumerWait \/ ConsumerTake
                \/ ConsumerCompare

-----------------------------------------------------------------------------
(* The main thread *)

CreateProducer ==
  /\ main = "create_p" /\ i < nthreads
  /\ PGoto(i, "unborn", "lock")
  /\ count' = [count EXCEPT ![i] = 0]
  /\ i' = i + 1
  /\ UNCHANGED <<args, mutex, put, ready, consumer, main>>

CreateConsumer ==
  /\ main = "create_c"
  /\ CGoto("unborn", LoopHead(0))
  /\ main' = IF test = 1 THEN "join_c" ELSE "join_p"
  /\ UNCHANGED <<args, mutex, put, ready, producers, ci, i>>

JoinProducer ==
  /\ main = "join_p" /\ i < nthreads /\ ppc[i] = "returned"
  /\ i' = i + 1
  /\ UNCHANGED <<args, mutex, put, ready, producers, consumer, main>>

\* test 1 starts its consumer before the join, as test 2 does
NextLoopEarly ==
  /\ \/ main = "create_p" /\ i >= nthreads /\ main' = "create_c"
     \/ main = "join_p" /\ i >= nthreads /\ main' = "join_c"
     \/ main = "join_c" /\ cpc = "returned" /\ main' = "exit"
  /\ i' = 0
  /\ UNCHANGED <<args, mutex, put, ready, producers, consumer>>

\* a for loop ends, or the consumer is joined
NextLoop ==
  /\ \/ /\ main = "create_p" /\ i >= nthreads
        /\ main' = IF test = 1 THEN "join_p" ELSE "create_c"
     \/ /\ main = "join_p" /\ i >= nthreads
        /\ main' = IF test = 1 THEN "create_c" ELSE "join_c"
     \/ main = "join_c" /\ cpc = "returned" /\ main' = "exit"
  /\ i' = 0
  /\ UNCHANGED <<args, mutex, put, ready, producers, consumer>>

Main == CreateProducer \/ CreateConsumer \/ JoinProducer \/ NextLoop

Next == \/ Main \/ ConsumerStep \/ SpuriousWakeup
        \/ \E p \in Tids : Producer(p)

(* Every thread that can run does, and a mutex that becomes free again and  *)
(* again is not withheld from one thread for ever: consume_wait_2 polls, so *)
(* without the latter it could keep the producers out of their mutex.       *)
Fairness == /\ WF_vars(Main) /\ WF_vars(ConsumerStep) /\ SF_vars(ConsumerLock)
            /\ \A p \in Tids : WF_vars(Producer(p)) /\ SF_vars(ProducerLock(p))
Spec == Init /\ [][Next]_vars /\ Fairness

-----------------------------------------------------------------------------
(* Properties *)

\* Every variable keeps its C type, and no item is stored outside the array.
TypeOK ==
  /\ test \in 1 .. 3 /\ nitems \in Int /\ nthreads \in Int
  /\ nitems =< MAXNITEMS /\ nthreads =< MAXNTHREADS
  /\ mutex \in Tids \cup {Consumer, Free}
  /\ nready_mutex \in Tids \cup {Consumer, Free} /\ nready \in Nat
  /\ buff \in [0 .. MAXNITEMS - 1 -> Int] /\ nput \in 0 .. MAXNITEMS /\ nval \in Nat
  /\ ppc \in [Tids -> PLabels] /\ count \in [Tids -> Nat]
  /\ cpc \in CLabels /\ ci \in Nat
  /\ main \in {"create_p", "create_c", "join_p", "join_c", "exit"} /\ i \in Nat

\* The consumer looks at buff[i] outside every mutex, and yet it finds item i
\* there while no producer writes the same place.  (Test 1 without a producer
\* compares an array nobody filled.)
NoError ==
  cpc = "compare" /\ nthreads > 0 =>
    /\ buff[ci] = ci
    /\ \A p \in Tids : ppc[p] \in {"store", "advance"} => nput # ci

\* The program ends for these arguments only: polling or sleeping for items
\* nobody will produce takes for ever.
Completes == test = 1 \/ nthreads > 0 \/ nitems =< 0

\* The rounds that the threads have counted: as many as the counts add up to.
Counted(counts) == UNION {{t} \X (0 .. counts[t] - 1) : t \in Tids}

\* nready, raised outside put.mutex and possibly in another order than the
\* items were stored, counts what is stored, not yet announced and not yet
\* taken.  When the program exits every item was produced once, and the counts
\* it has printed add up to that.
ReadyAccounting ==
  /\ test = 3 =>
       nready + ci + (IF cpc \in {"unlock", "compare"} THEN 1 ELSE 0)
         + Cardinality({p \in Tids : ppc[p] \in {"unlock", "lock_nready", "signal", "post"}})
         = nput
  /\ main = "exit" =>
       /\ Completes
       /\ Cardinality(Counted(count)) = nput
       /\ nthreads > 0 => nput = (IF nitems > 0 THEN nitems ELSE 0)
       /\ test # 1 => ci = nput

\* The consumer never sleeps while there is something to take, although
\* produce_3 signals only when nready is zero, and before it raises it.
NoLostWakeup == cpc = "waiting" => nready = 0

\* The array is a bounded buffer as large as the items: they reach the
\* consumer in order.  (The consumer of test 1 without a producer takes nothing:
\* there is nothing.)
Taken == IF nthreads > 0 THEN ci ELSE 0
Inside == [k \in 1 .. nput - Taken |-> buff[Taken + k - 1]]
Buffer == INSTANCE BoundedBuffer WITH
            Capacity <- MAXNITEMS, limit <- nitems, added <- nput, taken <- Taken,
            buf <- Inside
Implements == Buffer!Spec

\* Every thread ends, whatever wakes up when.
Termination == Completes ~> main = "exit"
=============================================================================
