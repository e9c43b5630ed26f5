-------------------------- MODULE SemSingleConsumer --------------------------
(***************************************************************************)
(* 10-chapter.c, the two programs with one consumer that counts its items: *)
(*   1  test_single_producer_comsumr: one thread runs produce_1, whose     *)
(*      loop index is the number of the item (nput stands for that i);     *)
(*   2  test_multi_producer_single_consumer: nproducers threads run        *)
(*      produce_2, sharing nput and nputval.                               *)
(* consume_1 and consume_2 are the same thread.  Unlike produce_3,         *)
(* produce_2 gives back no token of nstored when it ends.                  *)
(* A step is a semaphore call with the private code that follows it, or    *)
(* the code between two calls.                                             *)
(***************************************************************************)
EXTENDS Integers, FiniteSets

CONSTANTS NBUFF, MAXNTHREADS,
          Items, Threads     \* the values of atoi(argv[1]), atoi(argv[2])

ASSUME NBUFFAssumption   == NBUFF \in Nat \ {0}
ASSUME ThreadsAssumption == MAXNTHREADS \in Nat \ {0} /\ Threads \subseteq Int
ASSUME ItemsAssumption   == Items \subseteq Int

VARIABLES test, nitems, nproducers,   \* read-only after the start
          sem, buff, nput, nputval,   \* struct shared
          ppc, count,                 \* the producers
          cpc, ci,                    \* the consumer, ci its i
          main, i                     \* main thread: phase, loop index

args     == <<test, nitems, nproducers>>
ring     == <<buff, nput, nputval>>
producers == <<ppc, count>>
consumer == <<cpc, ci>>
mainvars == <<main, i>>
vars     == <<args, sem, ring, producers, consumer, mainvars>>

Tids     == 0 .. MAXNTHREADS - 1
SemNames == {"mutex", "nempty", "nstored"}
PLabels  == {"unborn", "wait_nempty", "wait_mutex", "test", "store", "advance",
             "post_mutex", "post_nstored", "quit_nempty", "quit_mutex", "returned"}
CLabels  == {"unborn", "wait_nstored", "wait_mutex", "compare",
             "post_mutex", "post_nempty", "returned"}

SemWait(s) == sem[s] > 0 /\ sem' = [sem EXCEPT ![s] = @ - 1]
SemPost(s) == sem' = [sem EXCEPT ![s] = @ + 1]

Min2(a, b) == IF a < b THEN a ELSE b

Init ==
  /\ test \in 1 .. 2
  /\ nitems \in Items
  /\ nproducers \in IF test = 1 THEN {1} ELSE {Min2(a, MAXNTHREADS) : a \in Threads}
  /\ sem = [mutex |-> 1, nempty |-> NBUFF, nstored |-> 0]
  /\ buff = [k \in 0 .. NBUFF - 1 |-> 0] /\ nput = 0 /\ nputval = 0
  /\ ppc = [p \in Tids |-> "unborn"] /\ count = [p \in Tids |-> 0]
  /\ cpc = "unborn" /\ ci = 0
  /\ main = "create_p" /\ i = 0

-----------------------------------------------------------------------------
(* produce_1 and produce_2 *)

PGoto(p, from, to) == ppc[p] = from /\ ppc' = [ppc EXCEPT ![p] = to]
OnlyProducer == UNCHANGED <<args, consumer, mainvars>>

\* where a round begins: produce_1 tests its index first
PLoop(k) == IF test = 1 /\ k >= nitems THEN "returned" ELSE "wait_nempty"

ProducerWait(p) ==
  /\ \/ PGoto(p, "wait_nempty", "wait_mutex") /\ SemWait("nempty")
     \/ /\ PGoto(p, "wait_mutex", IF test = 1 THEN "store" ELSE "test")
        /\ SemWait("mutex")
  /\ UNCHANGED <<ring, count>> /\ OnlyProducer

ProducerTest(p) ==
  /\ PGoto(p, "test", IF nput >= nitems THEN "quit_nempty" ELSE "store")
  /\ UNCHANGED <<sem, ring, count>> /\ OnlyProducer

ProducerStore(p) ==
  /\ PGoto(p, "store", IF test = 1 THEN "post_mutex" ELSE "advance")
  /\ buff' = [buff EXCEPT ![nput % NBUFF] = IF test = 1 THEN nput ELSE nputval]
  /\ UNCHANGED <<sem, nput, nputval, count>> /\ OnlyProducer

\* the value is not advanced with the index
ProducerAdvanceIndex(p) ==
  /\ PGoto(p, "advance", "post_mutex")
  /\ nput' = nput + 1
  /\ UNCHANGED <<sem, buff, nputval, count>> /\ OnlyProducer

ProducerAdvance(p) ==
  /\ PGoto(p, "advance", "post_mutex")
  /\ nput' = nput + 1 /\ nputval' = nputval + 1
  /\ UNCHANGED <<sem, buff, count>> /\ OnlyProducer

ProducerPost(p) ==
  /\ \/ /\ PGoto(p, "post_mutex", "post_nstored") /\ SemPost("mutex")
        /\ UNCHANGED <<ring, count>>
     \/ /\ test = 1
        /\ PGoto(p, "post_nstored", PLoop(nput + 1)) /\ SemPost("nstored")
        /\ nput' = nput + 1
        /\ UNCHANGED <<buff, nputval, count>>
     \/ /\ test = 2
        /\ PGoto(p, "post_nstored", "wait_nempty") /\ SemPost("nstored")
        /\ count' = [count EXCEPT ![p] = @ + 1]
        /\ UNCHANGED ring
  /\ OnlyProducer

\* the token for the place that stays free is kept: the next producer blocks
ProducerQuitKeeping(p) ==
  /\ \/ PGoto(p, "quit_nempty", "quit_mutex") /\ UNCHANGED sem
     \/ PGoto(p, "quit_mutex", "returned") /\ SemPost("mutex")
  /\ UNCHANGED <<ring, count>> /\ OnlyProducer

ProducerQuit(p) ==
  /\ \/ PGoto(p, "quit_nempty", "quit_mutex") /\ SemPost("nempty")
     \/ PGoto(p, "quit_mutex", "returned") /\ SemPost("mutex")
  /\ UNCHANGED <<ring, count>> /\ OnlyProducer

Producer(p) == \/ ProducerWait(p) \/ ProducerTest(p) \/ ProducerStore(p)
               \/ ProducerAdvance(p) \/ ProducerPost(p) \/ ProducerQuit(p)

-----------------------------------------------------------------------------
(* consume_1 and consume_2.  The comparison only prints; that it finds    *)
(* item ci where it looks is part of Implements.                            *)

CGoto(from, to) == cpc = from /\ cpc' = to
CLoop(k) == IF k >= nitems THEN "returned" ELSE "wait_nstored"

ConsumerStep ==
  /\ \/ CGoto("wait_nstored", "wait_mutex") /\ SemWait("nstored")
     \/ CGoto("wait_mutex", "compare") /\ SemWait("mutex")
     \/ CGoto("compare", "post_mutex") /\ UNCHANGED sem
     \/ CGoto("post_mutex", "post_nempty") /\ SemPost("mutex")
  /\ UNCHANGED <<args, ring, producers, ci, mainvars>>

ConsumerRound ==
  /\ CGoto("post_nempty", CLoop(ci + 1)) /\ SemPost("nempty")
  /\ ci' = ci + 1
  /\ UNCHANGED <<args, ring, producers, mainvars>>

-----------------------------------------------------------------------------
(* The main thread *)

\* one thread too many: <= for <
CreateOneMore ==
  /\ main = "create_p" /\ i =< nproducers
  /\ PGoto(i, "unborn", PLoop(0))
  /\ i' = i + 1
  /\ UNCHANGED <<args, sem, ring, count, consumer, main>>

CreateProducer ==
  /\ main = "create_p" /\ i < nproducers
  /\ PGoto(i, "unborn", PLoop(0))
  /\ i' = i + 1
  /\ UNCHANGED <<args, sem, ring, count, consumer, main>>

CreateConsumer ==
  /\ main = "create_p" /\ i >= nproducers
  /\ CGoto("unborn", CLoop(0))
  /\ main' = "join_p" /\ i' = 0
  /\ UNCHANGED <<args, sem, ring, producers, ci>>

Join ==
  /\ main = "join_p"
  /\ \/ i < nproducers /\ ppc[i] = "returned" /\ i' = i + 1 /\ UNCHANGED main
     \/ i >= nproducers /\ cpc = "returned" /\ main' = "exit" /\ UNCHANGED i
  /\ UNCHANGED <<args, sem, ring, producers, consumer>>

Main == CreateProducer \/ CreateConsumer \/ Join

Next == Main \/ ConsumerStep \/ ConsumerRound \/ \E p \in Tids : Producer(p)

(* As long as some thread can run, the scheduler runs one: no loop spins.   *)
Spec == Init /\ [][Next]_vars /\ WF_vars(Next)

-----------------------------------------------------------------------------
(* Properties *)

P(L) == Cardinality({p \in Tids : ppc[p] \in L})
C(L) == IF cpc \in L THEN 1 ELSE 0

\* Items stored, and items looked at: both are counted before the tokens that
\* announce them are posted.
Added == IF test = 1 THEN nput + P({"post_mutex", "post_nstored"}) ELSE nput
Taken == ci + C({"post_mutex", "post_nempty"})

\* Every variable keeps its C type, and the main thread's index in tid_produce
\* and the counts stays below the number of producers.
TypeOK ==
  /\ test \in 1 .. 2 /\ nitems \in Int /\ nproducers \in Int
  /\ nproducers =< MAXNTHREADS
  /\ sem \in [SemNames -> Nat] /\ buff \in [0 .. NBUFF - 1 -> Int]
  /\ nput \in Nat /\ nputval \in Nat
  /\ ppc \in [Tids -> PLabels] /\ count \in [Tids -> Nat]
  /\ cpc \in CLabels /\ ci \in Nat
  /\ main \in {"create_p", "join_p", "exit"} /\ i \in Nat /\ (i # 0 => i =< nproducers)

\* Without producers the consumer waits for items for ever.
Completes == nproducers > 0 \/ nitems =< 0

\* The rounds that the threads have counted: as many as the counts add up to.
Counted(counts) == UNION {{t} \X (0 .. counts[t] - 1) : t \in Tids}

\* Labels at which a producer holds the mutex, has claimed a place that is not
\* yet an item, and has stored an item that is not yet announced.
PHolding  == {"test", "store", "advance", "post_mutex", "quit_nempty", "quit_mutex"}
PClaiming == {"wait_mutex", "test", "store", "advance", "quit_nempty"}
PStoring  == {"post_mutex", "post_nstored"}

\* The same for the consumer: it holds the mutex, has looked at an item whose
\* place is not yet free, has taken the token of an item it has yet to look at.
CHolding == {"compare", "post_mutex"}
CFreeing == {"post_mutex", "post_nempty"}
CTaking  == {"wait_mutex", "compare"}

MutexTokens == sem["mutex"] + C(CHolding) + P(PHolding) = 1
SlotTokens  == sem["nempty"] + P(PClaiming) + (Added - Taken) + C(CFreeing) = NBUFF
ItemTokens  == sem["nstored"] + C(CTaking) + P(PStoring) = Added - Taken

AllDone ==
  /\ Completes /\ (nproducers > 0 => nput = ci) /\ ci = (IF nitems > 0 THEN nitems ELSE 0)
  /\ test = 2 => Cardinality(Counted(count)) = nput
  /\ sem = [mutex |-> 1, nempty |-> NBUFF, nstored |-> 0]

\* The three semaphores account for every place of the ring, every item and
\* the mutex at every step.  When the program ends every item has been produced
\* and consumed, the counts add up, and although no extra token helped anybody
\* to end, all tokens are back where they began.
TokenAccounting == MutexTokens /\ SlotTokens /\ ItemTokens /\ (main = "exit" => AllDone)

\* The items stored and not looked at, oldest first.
Contents == [k \in 1 .. Added - Taken |-> buff[(Taken + k - 1) % NBUFF]]

\* Both programs are a bounded buffer of NBUFF places.
Buffer == INSTANCE BoundedBuffer WITH
            Capacity <- NBUFF, limit <- nitems, added <- Added, taken <- Taken,
            buf <- Contents
Implements == Buffer!Spec

\* Every thread ends, the producers without a farewell to the consumer.
Termination == Completes ~> main = "exit"
=============================================================================
