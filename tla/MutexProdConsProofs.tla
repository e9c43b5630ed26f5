------------------------- MODULE MutexProdConsProofs -------------------------
(***************************************************************************)
(* Proofs about MutexProdCons, for its three tests and every number of     *)
(* items, threads and places.                                              *)
(***************************************************************************)
EXTENDS MutexProdCons, Counting, SequenceTheorems

-----------------------------------------------------------------------------
(* The inductive invariant *)

InPut   == {"test", "store", "advance", "unlock", "quit"}
InReady == {"signal", "post", "unlock_nready"}
CInPut   == {"poll", "unlock_ready", "unlock_retry"}
CInReady == {"while", "take", "unlock"}

\* The holder of each mutex is the thread that is between its lock and its
\* unlock.
Holders ==
  /\ \A p \in Tids : /\ ppc[p] \in InPut <=> mutex = p
                     /\ ppc[p] \in InReady <=> nready_mutex = p
  /\ cpc \in CInPut <=> mutex = Consumer
  /\ cpc \in CInReady <=> nready_mutex = Consumer

\* Each test uses its own part of the code.
Tests ==
  /\ (\E p \in Tids : ppc[p] \in InReady \cup {"lock_nready"}) => test = 3
  /\ cpc \in CInPut => test = 2
  /\ cpc \in CInReady \cup {"waiting", "relock"} => test = 3
  /\ cpc = "lock" => test # 1
  /\ test # 3 => nready = 0

\* What a producer has found out under the mutex still holds when it acts on
\* it, and the array holds the items put so far.
Contents ==
  /\ nval = nput /\ (nput = 0 \/ nput =< nitems)
  /\ \A p \in Tids : ppc[p] \in {"store", "advance"} => nput < nitems
  /\ \A p \in Tids : ppc[p] \in {"quit", "returned"} => nput >= nitems
  /\ \A k \in 0 .. MAXNITEMS - 1 : k < nput => buff[k] = k
  /\ \A p \in Tids : ppc[p] = "advance" => buff[nput] = nput

\* The threads created and joined.
Joined == main \in {"join_c", "exit"} \/ (test = 1 /\ main = "create_c")
Threaded ==
  /\ i = 0 \/ i =< nthreads
  /\ main \in {"create_p", "create_c"} \/ (test = 1 /\ main = "join_p") <=> cpc = "unborn"
  /\ \A p \in Tids : ppc[p] = "unborn" <=> p >= (IF main = "create_p" THEN i ELSE nthreads)
  /\ main = "create_c" => i = 0
  /\ main = "join_p" => \A p \in Tids : p < i => ppc[p] = "returned"
  /\ Joined => \A p \in Tids : p < nthreads => ppc[p] = "returned"
  /\ main = "exit" => cpc = "returned"

\* The consumer's index.
Index ==
  /\ ci = 0 \/ ci =< nitems
  /\ cpc = "unborn" => ci = 0
  /\ cpc = "returned" => ci >= nitems
  /\ cpc \notin {"unborn", "returned"} => ci < nitems
  /\ cpc = "compare" => test # 2 \/ ci < nput
  /\ cpc = "unlock_ready" => ci < nput
  /\ test = 2 => ci =< nput

\* The producers that nready does not yet know of, those that have not counted
\* their round yet, and what nready counts.
Announcing == {"unlock", "lock_nready", "signal", "post"}
Counting1  == Announcing \cup {"unlock_nready", "count"}
Counts ==
  /\ test = 3 => nready + ci + (IF cpc \in {"unlock", "compare"} THEN 1 ELSE 0)
                   + Number(Tids, ppc, Announcing) = nput
  /\ IsFiniteSet(Counted(count))
  /\ Cardinality(Counted(count)) + Number(Tids, ppc, Counting1) = nput
  /\ \A p \in Tids : ppc[p] = "unborn" => count[p] = 0

\* While the consumer sleeps, nobody has passed the signal and not yet raised
\* nready; and it takes only what is there.
Wakeups ==
  /\ cpc = "waiting" => nready = 0 /\ \A p \in Tids : ppc[p] # "post"
  /\ cpc = "take" => nready > 0

IInv == /\ TypeOK /\ Holders /\ Tests /\ Contents /\ Threaded
        /\ Index /\ Counts /\ Wakeups

-----------------------------------------------------------------------------
(* The steps, part by part of the invariant *)

\* A thread being created is one of the threads.
LEMMA CreatedTid ==
  ASSUME TypeOK, i < nthreads
  PROVE  i \in Tids
BY ThreadsAssumption DEF TypeOK, Tids

\* There are finitely many threads.
LEMMA FiniteTids == IsFiniteSet(Tids)
BY FS_Interval, ThreadsAssumption DEF Tids

\* A producer that stores does so inside the array.
LEMMA StoreInside ==
  ASSUME TypeOK, Contents, NEW p \in Tids, ppc[p] \in {"store", "advance"}
  PROVE  nput \in 0 .. MAXNITEMS - 1 /\ nput < nitems
BY MAXNITEMSAssumption DEF TypeOK, Contents

\* Where a round of the consumer begins.
LEMMA LoopLabels ==
  ASSUME NEW n
  PROVE  \/ LoopHead(n) = "returned" /\ n >= nitems
         \/ LoopHead(n) = "compare" /\ ~(n >= nitems) /\ test = 1
         \/ LoopHead(n) = "lock" /\ ~(n >= nitems) /\ test # 1
BY DEF LoopHead

\* No step leaves the types: no item is stored outside the array.
LEMMA TypeOKKept ==
  ASSUME IInv, Next
  PROVE  TypeOK'
<1>0. TypeOK /\ Contents /\ Wakeups
  BY DEF IInv
<1> USE DEF TypeOK, PLabels, CLabels, PGoto, CGoto, OnlyProducer, args, put, ready, producers, consumer, mainvars
<1>1. ASSUME NEW p \in Tids, Producer(p)
      PROVE  TypeOK'
  <2>1. CASE ProducerLock(p)
    BY <1>0, <2>1 DEF ProducerLock
  <2>2. CASE ProducerTest(p)
    BY <1>0, <2>2 DEF ProducerTest
  <2>3. CASE ProducerStore(p)
    <3>1. nput \in 0 .. MAXNITEMS - 1
      BY <1>0, <2>3, StoreInside DEF ProducerStore
    <3>2. buff' \in [0 .. MAXNITEMS - 1 -> Int]
      BY <1>0, <2>3, <3>1 DEF ProducerStore
    <3> QED BY <1>0, <2>3, <3>2 DEF ProducerStore
  <2>4. CASE ProducerAdvance(p)
    <3>1. nput < nitems /\ nitems \in Int /\ nitems =< MAXNITEMS /\ MAXNITEMS \in Nat
      BY <1>0, <2>4, MAXNITEMSAssumption DEF ProducerAdvance, Contents
    <3> QED BY <1>0, <2>4, <3>1 DEF ProducerAdvance
  <2>5. CASE ProducerUnlock(p)
    BY <1>0, <2>5 DEF ProducerUnlock
  <2>6. CASE ProducerSignal(p)
    BY <1>0, <2>6 DEF ProducerSignal
  <2>7. CASE ProducerPost(p)
    BY <1>0, <2>7 DEF ProducerPost
  <2>8. CASE ProducerCount(p)
    BY <1>0, <2>8 DEF ProducerCount
  <2> QED BY <1>1, <2>1, <2>2, <2>3, <2>4, <2>5, <2>6, <2>7, <2>8 DEF Producer
<1>2. CASE ConsumerStep \/ SpuriousWakeup
  <2>1. CASE ConsumerLock
    BY <1>0, <2>1 DEF ConsumerLock
  <2>2. CASE ConsumerPoll
    BY <1>0, <2>2 DEF ConsumerPoll
  <2>3. CASE ConsumerWait
    BY <1>0, <2>3 DEF ConsumerWait
  <2>4. CASE ConsumerTake
    BY <1>0, <2>4 DEF ConsumerTake, Wakeups
  <2>5. CASE ConsumerCompare
    BY <1>0, <2>5 DEF ConsumerCompare, LoopHead
  <2>6. CASE SpuriousWakeup
    BY <1>0, <2>6 DEF SpuriousWakeup
  <2> QED BY <1>2, <2>1, <2>2, <2>3, <2>4, <2>5, <2>6 DEF ConsumerStep
<1>3. CASE Main
  <2>1. CASE CreateProducer
    BY <1>0, <2>1, CreatedTid DEF CreateProducer
  <2>2. CASE CreateConsumer
    BY <1>0, <2>2 DEF CreateConsumer, LoopHead
  <2>3. CASE JoinProducer
    BY <1>0, <2>3 DEF JoinProducer
  <2>4. CASE NextLoop
    BY <1>0, <2>4 DEF NextLoop
  <2> QED BY <1>3, <2>1, <2>2, <2>3, <2>4 DEF Main
<1> QED BY <1>1, <1>2, <1>3 DEF Next

\* A mutex has the holder it should have.
LEMMA HoldersKept ==
  ASSUME IInv, Next
  PROVE  Holders'
<1>0. TypeOK /\ Holders /\ Tests /\ Threaded
  BY DEF IInv
<1>a. /\ ppc \in [Tids -> PLabels] /\ cpc \in CLabels
      /\ Consumer \notin Tids /\ Free \notin Tids /\ Free # Consumer
  BY <1>0, ThreadsAssumption DEF TypeOK, Tids, Consumer, Free
<1> USE DEF Holders, InPut, InReady, CInPut, CInReady, PGoto, CGoto, OnlyProducer, args, put, ready, producers, consumer, mainvars
<1>1. ASSUME NEW p \in Tids, Producer(p)
      PROVE  Holders'
  <2>1. CASE ProducerLock(p)
    BY <1>0, <1>a, <2>1 DEF ProducerLock
  <2>2. CASE ProducerTest(p)
    BY <1>0, <1>a, <2>2 DEF ProducerTest
  <2>3. CASE ProducerStore(p)
    BY <1>0, <1>a, <2>3 DEF ProducerStore
  <2>4. CASE ProducerAdvance(p)
    BY <1>0, <1>a, <2>4 DEF ProducerAdvance
  <2>5. CASE ProducerUnlock(p)
    BY <1>0, <1>a, <2>5 DEF ProducerUnlock
  <2>6. CASE ProducerSignal(p)
    BY <1>0, <1>a, <2>6 DEF ProducerSignal
  <2>7. CASE ProducerPost(p)
    BY <1>0, <1>a, <2>7 DEF ProducerPost
  <2>8. CASE ProducerCount(p)
    BY <1>0, <1>a, <2>8 DEF ProducerCount
  <2> QED BY <1>1, <2>1, <2>2, <2>3, <2>4, <2>5, <2>6, <2>7, <2>8 DEF Producer
<1>2. CASE ConsumerStep \/ SpuriousWakeup
  <2>1. CASE ConsumerLock
    BY <1>0, <1>a, <2>1 DEF ConsumerLock
  <2>2. CASE ConsumerPoll
    BY <1>0, <1>a, <2>2 DEF ConsumerPoll
  <2>3. CASE ConsumerWait
    BY <1>0, <1>a, <2>3 DEF ConsumerWait
  <2>4. CASE ConsumerTake
    BY <1>0, <1>a, <2>4 DEF ConsumerTake
  <2>5. CASE ConsumerCompare
    BY <1>0, <1>a, <2>5, LoopLabels DEF ConsumerCompare
  <2>6. CASE SpuriousWakeup
    BY <1>0, <1>a, <2>6 DEF SpuriousWakeup
  <2> QED BY <1>2, <2>1, <2>2, <2>3, <2>4, <2>5, <2>6 DEF ConsumerStep
<1>3. CASE Main
  <2>1. CASE CreateProducer
    BY <1>0, <1>a, <2>1 DEF CreateProducer
  <2>2. CASE CreateConsumer
    BY <1>0, <1>a, <2>2, LoopLabels DEF CreateConsumer
  <2>3. CASE JoinProducer
    BY <1>0, <1>a, <2>3 DEF JoinProducer
  <2>4. CASE NextLoop
    BY <1>0, <1>a, <2>4 DEF NextLoop
  <2> QED BY <1>3, <2>1, <2>2, <2>3, <2>4 DEF Main
<1> QED BY <1>1, <1>2, <1>3 DEF Next

\* Each test keeps to its part of the code.
LEMMA TestsKept ==
  ASSUME IInv, Next
  PROVE  Tests'
<1>0. TypeOK /\ Holders /\ Tests /\ Contents /\ Threaded /\ Index /\ Wakeups
  BY DEF IInv
<1>a. /\ ppc \in [Tids -> PLabels] /\ cpc \in CLabels /\ Consumer \notin Tids
      /\ nput \in Nat /\ nready \in Nat /\ ci \in Nat /\ nitems \in Int /\ test \in Int
  BY <1>0, ThreadsAssumption, MAXNITEMSAssumption DEF TypeOK, Tids, Consumer
<1> USE DEF Tests, InPut, InReady, CInPut, CInReady, PGoto, CGoto, OnlyProducer, args, put, ready, producers, consumer, mainvars
<1>1. ASSUME NEW p \in Tids, Producer(p)
      PROVE  Tests'
  <2>1. CASE ProducerLock(p)
    BY <1>0, <1>a, <2>1 DEF ProducerLock
  <2>2. CASE ProducerTest(p)
    BY <1>0, <1>a, <2>2 DEF ProducerTest
  <2>3. CASE ProducerStore(p)
    BY <1>0, <1>a, <2>3 DEF ProducerStore
  <2>4. CASE ProducerAdvance(p)
    BY <1>0, <1>a, <2>4 DEF ProducerAdvance
  <2>5. CASE ProducerUnlock(p)
    BY <1>0, <1>a, <2>5 DEF ProducerUnlock
  <2>6. CASE ProducerSignal(p)
    BY <1>0, <1>a, <2>6 DEF ProducerSignal
  <2>7. CASE ProducerPost(p)
    BY <1>0, <1>a, <2>7 DEF ProducerPost
  <2>8. CASE ProducerCount(p)
    BY <1>0, <1>a, <2>8 DEF ProducerCount
  <2> QED BY <1>1, <2>1, <2>2, <2>3, <2>4, <2>5, <2>6, <2>7, <2>8 DEF Producer
<1>2. CASE ConsumerStep \/ SpuriousWakeup
  <2>1. CASE ConsumerLock
    BY <1>0, <1>a, <2>1 DEF ConsumerLock
  <2>2. CASE ConsumerPoll
    BY <1>0, <1>a, <2>2 DEF ConsumerPoll
  <2>3. CASE ConsumerWait
    BY <1>0, <1>a, <2>3 DEF ConsumerWait
  <2>4. CASE ConsumerTake
    BY <1>0, <1>a, <2>4 DEF ConsumerTake
  <2>5. CASE ConsumerCompare
    BY <1>0, <1>a, <2>5, LoopLabels DEF ConsumerCompare
  <2>6. CASE SpuriousWakeup
    BY <1>0, <1>a, <2>6 DEF SpuriousWakeup
  <2> QED BY <1>2, <2>1, <2>2, <2>3, <2>4, <2>5, <2>6 DEF ConsumerStep
<1>3. CASE Main
  <2>1. CASE CreateProducer
    BY <1>0, <1>a, <2>1 DEF CreateProducer
  <2>2. CASE CreateConsumer
    BY <1>0, <1>a, <2>2, LoopLabels DEF CreateConsumer
  <2>3. CASE JoinProducer
    BY <1>0, <1>a, <2>3 DEF JoinProducer
  <2>4. CASE NextLoop
    BY <1>0, <1>a, <2>4 DEF NextLoop
  <2> QED BY <1>3, <2>1, <2>2, <2>3, <2>4 DEF Main
<1> QED BY <1>1, <1>2, <1>3 DEF Next

\* Only the producer that holds the mutex changes the array and its length.
LEMMA ContentsKept ==
  ASSUME IInv, Next
  PROVE  Contents'
<1>0. TypeOK /\ Holders /\ Tests /\ Contents /\ Threaded /\ Index /\ Wakeups
  BY DEF IInv
<1>a. /\ ppc \in [Tids -> PLabels] /\ cpc \in CLabels /\ Consumer \notin Tids
      /\ nput \in Nat /\ nready \in Nat /\ ci \in Nat /\ nitems \in Int /\ test \in Int
  BY <1>0, ThreadsAssumption, MAXNITEMSAssumption DEF TypeOK, Tids, Consumer
<1> USE DEF Contents, Holders, InPut, PGoto, CGoto, OnlyProducer, args, put, ready, producers, consumer, mainvars
<1>1. ASSUME NEW p \in Tids, Producer(p)
      PROVE  Contents'
  <2>1. CASE ProducerLock(p)
    BY <1>0, <1>a, <2>1 DEF ProducerLock
  <2>2. CASE ProducerTest(p)
    BY <1>0, <1>a, <2>2 DEF ProducerTest
  <2>3. CASE ProducerStore(p)
    <3>1. nput \in 0 .. MAXNITEMS - 1
      BY <1>0, <2>3, StoreInside DEF ProducerStore
    <3>2. buff \in [0 .. MAXNITEMS - 1 -> Int]
      BY <1>0 DEF TypeOK
    <3>3. /\ buff'[nput] = nput
          /\ \A k \in 0 .. MAXNITEMS - 1 : k # nput => buff'[k] = buff[k]
      BY <1>0, <2>3, <3>1, <3>2 DEF ProducerStore
    <3> QED BY <1>0, <1>a, <2>3, <3>3 DEF ProducerStore
  <2>4. CASE ProducerAdvance(p)
    BY <1>0, <1>a, <2>4 DEF ProducerAdvance
  <2>5. CASE ProducerUnlock(p)
    BY <1>0, <1>a, <2>5 DEF ProducerUnlock
  <2>6. CASE ProducerSignal(p)
    BY <1>0, <1>a, <2>6 DEF ProducerSignal
  <2>7. CASE ProducerPost(p)
    BY <1>0, <1>a, <2>7 DEF ProducerPost
  <2>8. CASE ProducerCount(p)
    BY <1>0, <1>a, <2>8 DEF ProducerCount
  <2> QED BY <1>1, <2>1, <2>2, <2>3, <2>4, <2>5, <2>6, <2>7, <2>8 DEF Producer
<1>2. CASE ConsumerStep \/ SpuriousWakeup
  <2>1. CASE ConsumerLock
    BY <1>0, <1>a, <2>1 DEF ConsumerLock
  <2>2. CASE ConsumerPoll
    BY <1>0, <1>a, <2>2 DEF ConsumerPoll
  <2>3. CASE ConsumerWait
    BY <1>0, <1>a, <2>3 DEF ConsumerWait
  <2>4. CASE ConsumerTake
    BY <1>0, <1>a, <2>4 DEF ConsumerTake
  <2>5. CASE ConsumerCompare
    BY <1>0, <1>a, <2>5, LoopLabels DEF ConsumerCompare
  <2>6. CASE SpuriousWakeup
    BY <1>0, <1>a, <2>6 DEF SpuriousWakeup
  <2> QED BY <1>2, <2>1, <2>2, <2>3, <2>4, <2>5, <2>6 DEF ConsumerStep
<1>3. CASE Main
  <2>1. CASE CreateProducer
    BY <1>0, <1>a, <2>1 DEF CreateProducer
  <2>2. CASE CreateConsumer
    BY <1>0, <1>a, <2>2, LoopLabels DEF CreateConsumer
  <2>3. CASE JoinProducer
    BY <1>0, <1>a, <2>3 DEF JoinProducer
  <2>4. CASE NextLoop
    BY <1>0, <1>a, <2>4 DEF NextLoop
  <2> QED BY <1>3, <2>1, <2>2, <2>3, <2>4 DEF Main
<1> QED BY <1>1, <1>2, <1>3 DEF Next

\* The consumer looks at no item that is not there.
LEMMA IndexKept ==
  ASSUME IInv, Next
  PROVE  Index'
<1>0. TypeOK /\ Holders /\ Tests /\ Contents /\ Threaded /\ Index /\ Wakeups
  BY DEF IInv
<1>a. /\ ppc \in [Tids -> PLabels] /\ cpc \in CLabels /\ Consumer \notin Tids
      /\ nput \in Nat /\ nready \in Nat /\ ci \in Nat /\ nitems \in Int /\ test \in Int
  BY <1>0, ThreadsAssumption, MAXNITEMSAssumption DEF TypeOK, Tids, Consumer
<1> USE DEF Index, PGoto, CGoto, OnlyProducer, args, put, ready, producers, consumer, mainvars
<1>1. ASSUME NEW p \in Tids, Producer(p)
      PROVE  Index'
  <2>1. CASE ProducerLock(p)
    BY <1>0, <1>a, <2>1 DEF ProducerLock
  <2>2. CASE ProducerTest(p)
    BY <1>0, <1>a, <2>2 DEF ProducerTest
  <2>3. CASE ProducerStore(p)
    BY <1>0, <1>a, <2>3 DEF ProducerStore
  <2>4. CASE ProducerAdvance(p)
    BY <1>0, <1>a, <2>4 DEF ProducerAdvance
  <2>5. CASE ProducerUnlock(p)
    BY <1>0, <1>a, <2>5 DEF ProducerUnlock
  <2>6. CASE ProducerSignal(p)
    BY <1>0, <1>a, <2>6 DEF ProducerSignal
  <2>7. CASE ProducerPost(p)
    BY <1>0, <1>a, <2>7 DEF ProducerPost
  <2>8. CASE ProducerCount(p)
    BY <1>0, <1>a, <2>8 DEF ProducerCount
  <2> QED BY <1>1, <2>1, <2>2, <2>3, <2>4, <2>5, <2>6, <2>7, <2>8 DEF Producer
<1>2. CASE ConsumerStep \/ SpuriousWakeup
  <2>1. CASE ConsumerLock
    BY <1>0, <1>a, <2>1 DEF ConsumerLock
  <2>2. CASE ConsumerPoll
    BY <1>0, <1>a, <2>2 DEF ConsumerPoll
  <2>3. CASE ConsumerWait
    BY <1>0, <1>a, <2>3 DEF ConsumerWait
  <2>4. CASE ConsumerTake
    BY <1>0, <1>a, <2>4 DEF ConsumerTake, Tests, CInReady
  <2>5. CASE ConsumerCompare
    BY <1>0, <1>a, <2>5, LoopLabels DEF ConsumerCompare
  <2>6. CASE SpuriousWakeup
    BY <1>0, <1>a, <2>6 DEF SpuriousWakeup
  <2> QED BY <1>2, <2>1, <2>2, <2>3, <2>4, <2>5, <2>6 DEF ConsumerStep
<1>3. CASE Main
  <2>1. CASE CreateProducer
    BY <1>0, <1>a, <2>1 DEF CreateProducer
  <2>2. CASE CreateConsumer
    BY <1>0, <1>a, <2>2, LoopLabels DEF CreateConsumer
  <2>3. CASE JoinProducer
    BY <1>0, <1>a, <2>3 DEF JoinProducer
  <2>4. CASE NextLoop
    BY <1>0, <1>a, <2>4 DEF NextLoop
  <2> QED BY <1>3, <2>1, <2>2, <2>3, <2>4 DEF Main
<1> QED BY <1>1, <1>2, <1>3 DEF Next

\* The signal comes before nready is raised, under the same mutex.
LEMMA WakeupsKept ==
  ASSUME IInv, Next
  PROVE  Wakeups'
<1>0. TypeOK /\ Holders /\ Tests /\ Contents /\ Threaded /\ Index /\ Wakeups
  BY DEF IInv
<1>a. /\ ppc \in [Tids -> PLabels] /\ cpc \in CLabels /\ Consumer \notin Tids
      /\ nput \in Nat /\ nready \in Nat /\ ci \in Nat /\ nitems \in Int /\ test \in Int
  BY <1>0, ThreadsAssumption, MAXNITEMSAssumption DEF TypeOK, Tids, Consumer
<1> USE DEF Wakeups, Holders, InPut, InReady, CInPut, CInReady, PGoto, CGoto, OnlyProducer, args, put, ready, producers, consumer, mainvars
<1>1. ASSUME NEW p \in Tids, Producer(p)
      PROVE  Wakeups'
  <2>1. CASE ProducerLock(p)
    BY <1>0, <1>a, <2>1 DEF ProducerLock
  <2>2. CASE ProducerTest(p)
    BY <1>0, <1>a, <2>2 DEF ProducerTest
  <2>3. CASE ProducerStore(p)
    BY <1>0, <1>a, <2>3 DEF ProducerStore
  <2>4. CASE ProducerAdvance(p)
    BY <1>0, <1>a, <2>4 DEF ProducerAdvance
  <2>5. CASE ProducerUnlock(p)
    BY <1>0, <1>a, <2>5 DEF ProducerUnlock
  <2>6. CASE ProducerSignal(p)
    BY <1>0, <1>a, <2>6 DEF ProducerSignal
  <2>7. CASE ProducerPost(p)
    BY <1>0, <1>a, <2>7 DEF ProducerPost
  <2>8. CASE ProducerCount(p)
    BY <1>0, <1>a, <2>8 DEF ProducerCount
  <2> QED BY <1>1, <2>1, <2>2, <2>3, <2>4, <2>5, <2>6, <2>7, <2>8 DEF Producer
<1>2. CASE ConsumerStep \/ SpuriousWakeup
  <2>1. CASE ConsumerLock
    BY <1>0, <1>a, <2>1 DEF ConsumerLock
  <2>2. CASE ConsumerPoll
    BY <1>0, <1>a, <2>2 DEF ConsumerPoll
  <2>3. CASE ConsumerWait
    BY <1>0, <1>a, <2>3 DEF ConsumerWait
  <2>4. CASE ConsumerTake
    BY <1>0, <1>a, <2>4 DEF ConsumerTake
  <2>5. CASE ConsumerCompare
    BY <1>0, <1>a, <2>5, LoopLabels DEF ConsumerCompare
  <2>6. CASE SpuriousWakeup
    BY <1>0, <1>a, <2>6 DEF SpuriousWakeup
  <2> QED BY <1>2, <2>1, <2>2, <2>3, <2>4, <2>5, <2>6 DEF ConsumerStep
<1>3. CASE Main
  <2>1. CASE CreateProducer
    BY <1>0, <1>a, <2>1 DEF CreateProducer
  <2>2. CASE CreateConsumer
    BY <1>0, <1>a, <2>2, LoopLabels DEF CreateConsumer
  <2>3. CASE JoinProducer
    BY <1>0, <1>a, <2>3 DEF JoinProducer
  <2>4. CASE NextLoop
    BY <1>0, <1>a, <2>4 DEF NextLoop
  <2> QED BY <1>3, <2>1, <2>2, <2>3, <2>4 DEF Main
<1> QED BY <1>1, <1>2, <1>3 DEF Next

\* Threads are created and joined in the order of their indices.
LEMMA ThreadedKept ==
  ASSUME IInv, Next
  PROVE  Threaded'
<1>0. TypeOK /\ Holders /\ Tests /\ Contents /\ Threaded /\ Index /\ Wakeups
  BY DEF IInv
<1>a. /\ ppc \in [Tids -> PLabels] /\ cpc \in CLabels /\ Consumer \notin Tids
      /\ nput \in Nat /\ nready \in Nat /\ ci \in Nat /\ nitems \in Int /\ test \in Int
  BY <1>0, ThreadsAssumption, MAXNITEMSAssumption DEF TypeOK, Tids, Consumer
<1>b. Tids = 0 .. MAXNTHREADS - 1 /\ i \in Nat /\ nthreads \in Int
  BY <1>0 DEF TypeOK, Tids
<1> USE DEF Threaded, Joined, PGoto, CGoto, OnlyProducer, args, put, ready, producers, consumer, mainvars
<1>1. ASSUME NEW p \in Tids, Producer(p)
      PROVE  Threaded'
  <2>1. CASE ProducerLock(p)
    BY <1>0, <1>a, <1>b, <2>1 DEF ProducerLock
  <2>2. CASE ProducerTest(p)
    BY <1>0, <1>a, <1>b, <2>2 DEF ProducerTest
  <2>3. CASE ProducerStore(p)
    BY <1>0, <1>a, <1>b, <2>3 DEF ProducerStore
  <2>4. CASE ProducerAdvance(p)
    BY <1>0, <1>a, <1>b, <2>4 DEF ProducerAdvance
  <2>5. CASE ProducerUnlock(p)
    BY <1>0, <1>a, <1>b, <2>5 DEF ProducerUnlock
  <2>6. CASE ProducerSignal(p)
    BY <1>0, <1>a, <1>b, <2>6 DEF ProducerSignal
  <2>7. CASE ProducerPost(p)
    BY <1>0, <1>a, <1>b, <2>7 DEF ProducerPost
  <2>8. CASE ProducerCount(p)
    BY <1>0, <1>a, <1>b, <2>8 DEF ProducerCount
  <2> QED BY <1>1, <2>1, <2>2, <2>3, <2>4, <2>5, <2>6, <2>7, <2>8 DEF Producer
<1>2. CASE ConsumerStep \/ SpuriousWakeup
  <2>1. CASE ConsumerLock
    BY <1>0, <1>a, <1>b, <2>1 DEF ConsumerLock
  <2>2. CASE ConsumerPoll
    BY <1>0, <1>a, <1>b, <2>2 DEF ConsumerPoll
  <2>3. CASE ConsumerWait
    BY <1>0, <1>a, <1>b, <2>3 DEF ConsumerWait
  <2>4. CASE ConsumerTake
    BY <1>0, <1>a, <1>b, <2>4 DEF ConsumerTake
  <2>5. CASE ConsumerCompare
    BY <1>0, <1>a, <2>5, LoopLabels DEF ConsumerCompare
  <2>6. CASE SpuriousWakeup
    BY <1>0, <1>a, <1>b, <2>6 DEF SpuriousWakeup
  <2> QED BY <1>2, <2>1, <2>2, <2>3, <2>4, <2>5, <2>6 DEF ConsumerStep
<1>3. CASE Main
  <2>1. CASE CreateProducer
    BY <1>0, <1>a, <1>b, <2>1 DEF CreateProducer
  <2>2. CASE CreateConsumer
    <3>1. main = "create_c" /\ cpc' # "unborn" /\ UNCHANGED <<test, nthreads, ppc, i>>
      BY <2>2, LoopLabels DEF CreateConsumer
    <3>2. CASE test = 1 /\ main' = "join_c"
      BY <1>0, <1>b, <3>1, <3>2
    <3>3. CASE test # 1 /\ main' = "join_p"
      BY <1>0, <1>b, <3>1, <3>3
    <3> QED BY <2>2, <3>2, <3>3 DEF CreateConsumer
  <2>3. CASE JoinProducer
    BY <1>0, <1>a, <1>b, <2>3 DEF JoinProducer
  <2>4. CASE NextLoop
    BY <1>0, <1>a, <1>b, <2>4 DEF NextLoop
  <2> QED BY <1>3, <2>1, <2>2, <2>3, <2>4 DEF Main
<1> QED BY <1>1, <1>2, <1>3 DEF Next


\* What the move of a producer does to the numbers of producers at labels.
LEMMA ProducerMoves ==
  ASSUME TypeOK, NEW p \in Tids, NEW from, NEW to, PGoto(p, from, to), NEW L
  PROVE  Number(Tids, ppc, L)' = Number(Tids, ppc, L) - Member(from, L) + Member(to, L)
<1>1. Moves(Tids, ppc, ppc', p, from, to)
  BY DEF TypeOK, PGoto, Moves
<1>2. Number(Tids, ppc', L) = Number(Tids, ppc, L) - Member(from, L) + Member(to, L)
  BY <1>1, NumberMove, FiniteTids
<1> QED BY <1>2

\* Which labels the two sets hold, the sets left unexpanded.
LEMMA CountLabels ==
  /\ \A l : l \in Announcing <=> \/ l = "unlock" \/ l = "lock_nready"
                               \/ l = "signal" \/ l = "post"
  /\ \A l : l \in Counting1 <=> \/ l = "unlock" \/ l = "lock_nready" \/ l = "signal"
                              \/ l = "post" \/ l = "unlock_nready" \/ l = "count"
BY DEF Announcing, Counting1

\* A round that a producer counts is one more of those counted.
LEMMA CountRound ==
  ASSUME TypeOK, NEW p \in Tids, count' = [count EXCEPT ![p] = count[p] + 1],
         IsFiniteSet(Counted(count))
  PROVE  /\ IsFiniteSet(Counted(count)')
         /\ Cardinality(Counted(count)') = Cardinality(Counted(count)) + 1
<1>1. EndsRound(Tids, count, count', p)
  BY DEF TypeOK, EndsRound
<1>2. Counted(count) = Rounds(Tids, count) /\ Counted(count)' = Rounds(Tids, count')
  BY DEF Counted, Rounds
<1>3. /\ IsFiniteSet(Rounds(Tids, count'))
      /\ Cardinality(Rounds(Tids, count')) = Cardinality(Rounds(Tids, count)) + 1
  BY <1>1, <1>2, RoundsStep
<1> QED BY <1>2, <1>3

\* What is stored is announced once, counted once and taken once.
LEMMA CountsKept ==
  ASSUME IInv, Next
  PROVE  Counts'
<1>0. TypeOK /\ Holders /\ Tests /\ Threaded /\ Counts
  BY DEF IInv
<1>a. /\ Number(Tids, ppc, Announcing) \in Nat /\ Number(Tids, ppc, Counting1) \in Nat
      /\ ppc \in [Tids -> PLabels] /\ count \in [Tids -> Nat]
      /\ nput \in Nat /\ nready \in Nat /\ ci \in Nat /\ test \in Int
      /\ Cardinality(Counted(count)) \in Nat
  BY <1>0, NumberType, FiniteTids, FS_CardinalityType DEF TypeOK, Counts
<1>b. ASSUME NEW p \in Tids, NEW from, NEW to, PGoto(p, from, to)
      PROVE  /\ Number(Tids, ppc, Announcing)' = Number(Tids, ppc, Announcing)
                    - Member(from, Announcing) + Member(to, Announcing)
             /\ Number(Tids, ppc, Counting1)' = Number(Tids, ppc, Counting1)
                    - Member(from, Counting1) + Member(to, Counting1)
             /\ ppc'[p] = to /\ \A q \in Tids : q # p => ppc'[q] = ppc[q]
  <2>1. ppc'[p] = to /\ \A q \in Tids : q # p => ppc'[q] = ppc[q]
    BY <1>a, <1>b DEF PGoto
  <2> QED BY <1>0, <1>b, <2>1, ProducerMoves
<1>c. ASSUME UNCHANGED count
      PROVE  Counted(count)' = Counted(count)
  BY <1>c DEF Counted
<1>d. ASSUME UNCHANGED ppc
      PROVE  /\ Number(Tids, ppc, Announcing)' = Number(Tids, ppc, Announcing)
             /\ Number(Tids, ppc, Counting1)' = Number(Tids, ppc, Counting1)
  BY <1>d
<1> USE DEF Counts, Member, CGoto, OnlyProducer, args, put, ready, producers, consumer, mainvars
<1>1. ASSUME NEW p \in Tids, Producer(p)
      PROVE  Counts'
  <2>1. CASE ProducerLock(p)
    BY <1>0, <1>a, <1>b, <1>c, <1>d, CountLabels, <2>1 DEF ProducerLock
  <2>2. CASE ProducerTest(p)
    BY <1>0, <1>a, <1>b, <1>c, <1>d, CountLabels, <2>2 DEF ProducerTest
  <2>3. CASE ProducerStore(p)
    BY <1>0, <1>a, <1>b, <1>c, <1>d, CountLabels, <2>3 DEF ProducerStore
  <2>4. CASE ProducerAdvance(p)
    <3>1. PGoto(p, "advance", "unlock") /\ nput' = nput + 1
          /\ UNCHANGED <<test, nready, ci, cpc, count>>
      BY <2>4 DEF ProducerAdvance
    <3>2. /\ Number(Tids, ppc, Announcing)' = Number(Tids, ppc, Announcing) + 1
          /\ Number(Tids, ppc, Counting1)' = Number(Tids, ppc, Counting1) + 1
          /\ ppc'[p] # "unborn" /\ \A q \in Tids : q # p => ppc'[q] = ppc[q]
      BY <1>a, <1>b, <3>1, CountLabels
    <3> QED BY <1>0, <1>a, <1>c, <3>1, <3>2
  <2>5. CASE ProducerUnlock(p)
    BY <1>0, <1>a, <1>b, <1>c, <1>d, CountLabels, <2>5 DEF ProducerUnlock
  <2>6. CASE ProducerSignal(p)
    BY <1>0, <1>a, <1>b, <1>c, <1>d, CountLabels, <2>6 DEF ProducerSignal
  <2>7. CASE ProducerPost(p)
    BY <1>0, <1>a, <1>b, <1>c, <1>d, CountLabels, <2>7 DEF ProducerPost
  <2>8. CASE ProducerCount(p)
    <3>1. PGoto(p, "count", "lock") /\ count' = [count EXCEPT ![p] = count[p] + 1]
          /\ UNCHANGED <<test, nput, nready, ci, cpc>>
      BY <2>8 DEF ProducerCount
    <3>2. /\ Number(Tids, ppc, Announcing)' = Number(Tids, ppc, Announcing)
          /\ Number(Tids, ppc, Counting1)' = Number(Tids, ppc, Counting1) - 1
          /\ ppc'[p] # "unborn" /\ \A q \in Tids : q # p => ppc'[q] = ppc[q]
      BY <1>a, <1>b, <3>1, CountLabels
    <3>3. /\ IsFiniteSet(Counted(count)) /\ Cardinality(Counted(count)) \in Nat
          /\ IsFiniteSet(Counted(count)')
          /\ Cardinality(Counted(count)') = Cardinality(Counted(count)) + 1
      BY <1>0, <1>a, <3>1, CountRound DEF Counts
    <3>4. \A q \in Tids : q # p => count'[q] = count[q]
      BY <1>a, <3>1
    <3> QED BY <1>0, <1>a, <3>1, <3>2, <3>3, <3>4
  <2> QED BY <1>1, <2>1, <2>2, <2>3, <2>4, <2>5, <2>6, <2>7, <2>8 DEF Producer
<1>2. CASE ConsumerStep \/ SpuriousWakeup
  <2>1. CASE ConsumerLock
    BY <1>0, <1>a, <1>b, <1>c, <1>d, CountLabels, <2>1 DEF ConsumerLock
  <2>2. CASE ConsumerPoll
    BY <1>0, <1>a, <1>c, <1>d, <2>2 DEF ConsumerPoll, Tests, CInPut
  <2>3. CASE ConsumerWait
    BY <1>0, <1>a, <1>b, <1>c, <1>d, CountLabels, <2>3 DEF ConsumerWait
  <2>4. CASE ConsumerTake
    BY <1>0, <1>a, <1>b, <1>c, <1>d, CountLabels, <2>4 DEF ConsumerTake
  <2>5. CASE ConsumerCompare
    BY <1>0, <1>a, <2>5, LoopLabels DEF ConsumerCompare
  <2>6. CASE SpuriousWakeup
    BY <1>0, <1>a, <1>b, <1>c, <1>d, CountLabels, <2>6 DEF SpuriousWakeup
  <2> QED BY <1>2, <2>1, <2>2, <2>3, <2>4, <2>5, <2>6 DEF ConsumerStep
<1>3. CASE Main
  <2>1. CASE CreateProducer
    <3>1. i \in Tids /\ PGoto(i, "unborn", "lock") /\ ppc[i] = "unborn"
          /\ count' = [count EXCEPT ![i] = 0] /\ UNCHANGED <<test, nput, nready, ci, cpc>>
      BY <1>0, <2>1, CreatedTid DEF CreateProducer, PGoto
    <3>2. count' = count
      BY <1>0, <1>a, <3>1
    <3> QED BY <1>0, <1>a, <1>b, <1>c, <3>1, <3>2, CountLabels
  <2>2. CASE CreateConsumer
    BY <1>0, <1>a, <2>2, LoopLabels DEF CreateConsumer
  <2>3. CASE JoinProducer
    BY <1>0, <1>a, <1>b, <1>c, <1>d, CountLabels, <2>3 DEF JoinProducer
  <2>4. CASE NextLoop
    BY <1>0, <1>a, <1>b, <1>c, <1>d, CountLabels, <2>4 DEF NextLoop
  <2> QED BY <1>3, <2>1, <2>2, <2>3, <2>4 DEF Main
<1> QED BY <1>1, <1>2, <1>3 DEF Next

-----------------------------------------------------------------------------
(* The theorems *)

\* Nobody has been created at the start, and everything is zero.
LEMMA InitIInv == Init => IInv
<1> SUFFICES ASSUME Init PROVE IInv
  OBVIOUS
<1>1. /\ test \in 1 .. 3 /\ nitems \in Int /\ nthreads \in Int
      /\ nitems =< MAXNITEMS /\ nthreads =< MAXNTHREADS
      /\ MAXNITEMS \in Nat /\ MAXNTHREADS \in Nat /\ MAXNTHREADS > 0
      /\ mutex = Free /\ nready_mutex = Free /\ nready = 0 /\ nput = 0 /\ nval = 0
      /\ buff = [k \in 0 .. MAXNITEMS - 1 |-> 0] /\ ci = 0 /\ i = 0
      /\ ppc = [p \in Tids |-> "unborn"] /\ count = [p \in Tids |-> 0]
      /\ cpc = "unborn" /\ main = "create_p"
  <2>1. /\ \A a \in Items : Min2(a, MAXNITEMS) \in Int /\ Min2(a, MAXNITEMS) =< MAXNITEMS
        /\ \A a \in Threads : /\ Min2(a, MAXNTHREADS) \in Int
                              /\ Min2(a, MAXNTHREADS) =< MAXNTHREADS
    BY MAXNITEMSAssumption, ThreadsAssumption, ItemsAssumption DEF Min2
  <2> QED BY <2>1, MAXNITEMSAssumption, ThreadsAssumption DEF Init
<1>2. TypeOK
  BY <1>1 DEF TypeOK, PLabels, CLabels
<1>3. Holders
  BY <1>1 DEF Holders, InPut, InReady, CInPut, CInReady, Consumer, Free, Tids
<1>4. Tests
  BY <1>1 DEF Tests, InReady, CInPut, CInReady
<1>5. Contents
  BY <1>1 DEF Contents
<1>6. Threaded
  BY <1>1 DEF Threaded, Joined, Tids
<1>7. Index /\ Wakeups
  BY <1>1 DEF Index, Wakeups
<1>8. Counts
  <2>1. /\ \A p \in Tids : ppc[p] \notin Announcing /\ ppc[p] \notin Counting1
    BY <1>1, CountLabels
  <2>2. Number(Tids, ppc, Announcing) = 0 /\ Number(Tids, ppc, Counting1) = 0
    BY <2>1, NumberType, NumberPositive, FiniteTids
  <2>3. Counted(count) = Rounds(Tids, count) /\ \A p \in Tids : count[p] = 0
    BY <1>1 DEF Counted, Rounds
  <2>4. IsFiniteSet(Counted(count)) /\ Cardinality(Counted(count)) = 0
    BY <2>3, RoundsInit
  <2> QED BY <1>1, <2>2, <2>4 DEF Counts
<1> QED BY <1>2, <1>3, <1>4, <1>5, <1>6, <1>7, <1>8 DEF IInv

\* Every step, and stuttering, keeps the invariant.
LEMMA NextIInv == IInv /\ [Next]_vars => IInv'
<1> SUFFICES ASSUME IInv, [Next]_vars PROVE IInv'
  OBVIOUS
<1>1. CASE Next
  <2>1. TypeOK' /\ Holders' /\ Tests' /\ Contents'
    BY <1>1, TypeOKKept, HoldersKept, TestsKept, ContentsKept
  <2>2. Threaded' /\ Index' /\ Counts' /\ Wakeups'
    BY <1>1, ThreadedKept, IndexKept, CountsKept, WakeupsKept
  <2> QED BY <2>1, <2>2 DEF IInv
<1>2. CASE UNCHANGED vars
  BY <1>2 DEF vars, args, put, ready, producers, consumer, mainvars, IInv, TypeOK, Holders,
     Tests, Contents, Threaded, Joined, Index, Counts, Counted, Wakeups
<1> QED BY <1>1, <1>2

\* Both mutexes, the array, nready, the threads and the counts agree at every
\* step of each of the three tests.
THEOREM MutexInvariant == Spec => []IInv
BY InitIInv, NextIInv, PTL DEF Spec

\* No item is stored outside the array, nready does not fall below zero.
THEOREM MutexTypeCorrect == Spec => []TypeOK
BY MutexInvariant, PTL DEF IInv

\* Once somebody produces, the consumer is behind the producers, and ahead of
\* it is an item when it compares.
LEMMA ConsumerBehind ==
  ASSUME IInv, nthreads > 0
  PROVE  ci =< nput /\ (cpc = "compare" => ci < nput)
<1>1. /\ TypeOK /\ Tests /\ Contents /\ Threaded /\ Index /\ Counts
      /\ nput \in Nat /\ ci \in Nat /\ nready \in Nat /\ nitems \in Int /\ nthreads \in Int
      /\ Number(Tids, ppc, Announcing) \in Nat
  BY NumberType, FiniteTids, MAXNITEMSAssumption DEF IInv, TypeOK
<1>2. CASE test = 1
  <2>1. CASE cpc = "unborn"
    BY <1>1, <2>1 DEF Index
  <2>2. CASE cpc # "unborn"
    <3>1. Joined
      BY <1>1, <1>2, <2>2 DEF Threaded, Joined, TypeOK
    <3>2. 0 \in Tids
      BY ThreadsAssumption DEF Tids
    <3>3. ppc[0] = "returned"
      BY <1>1, <3>1, <3>2 DEF Threaded
    <3>4. nput >= nitems
      BY <1>1, <3>2, <3>3 DEF Contents
    <3> QED BY <1>1, <3>4 DEF Index
  <2> QED BY <2>1, <2>2
<1>3. CASE test = 2
  BY <1>1, <1>3 DEF Index
<1>4. CASE test = 3
  BY <1>1, <1>4 DEF Counts
<1> QED BY <1>1, <1>2, <1>3, <1>4 DEF TypeOK

\* The consumer reads buff[i] outside every mutex; whichever test it is, item i
\* is there and no producer is writing that place.
THEOREM ConsumerFindsItem == Spec => []NoError
<1>1. IInv => NoError
  <2> SUFFICES ASSUME IInv, cpc = "compare", nthreads > 0
               PROVE  /\ buff[ci] = ci
                      /\ \A p \in Tids : ppc[p] \in {"store", "advance"} => nput # ci
    BY DEF NoError
  <2>1. ci < nput /\ ci \in Nat /\ nput \in 0 .. MAXNITEMS
    BY ConsumerBehind DEF IInv, TypeOK
  <2> QED BY <2>1, MAXNITEMSAssumption DEF IInv, Contents
<1> QED BY <1>1, MutexInvariant, PTL

\* The consumer of test 3 sleeps only while nready is zero, although the signal
\* is sent only when it is zero, and before it is raised.
THEOREM NeverSleepsOverItem == Spec => []NoLostWakeup
BY MutexInvariant, PTL DEF IInv, Wakeups, NoLostWakeup

\* When the program ends, everybody has.
LEMMA AtExit ==
  ASSUME IInv, main = "exit"
  PROVE  /\ Completes /\ Cardinality(Counted(count)) = nput
         /\ nthreads > 0 => nput = (IF nitems > 0 THEN nitems ELSE 0)
         /\ test # 1 => ci = nput
<1>1. /\ TypeOK /\ Tests /\ Contents /\ Threaded /\ Index /\ Counts /\ test \in 1 .. 3
      /\ nput \in Nat /\ ci \in Nat /\ nready \in Nat /\ nitems \in Int /\ nthreads \in Int
      /\ Number(Tids, ppc, Announcing) \in Nat /\ Number(Tids, ppc, Counting1) \in Nat
      /\ Cardinality(Counted(count)) \in Nat
  BY NumberType, FiniteTids, FS_CardinalityType, MAXNITEMSAssumption
     DEF IInv, TypeOK, Counts
<1>2. \A p \in Tids : ppc[p] \in {"unborn", "returned"}
  <2>1. ASSUME NEW p \in Tids PROVE ppc[p] \in {"unborn", "returned"}
    <3>1. p \in Int
      BY DEF Tids
    <3> QED BY <1>1, <3>1 DEF Threaded, Joined
  <2> QED BY <2>1
<1>3. Number(Tids, ppc, Counting1) = 0
  BY <1>1, <1>2, NumberPositive, FiniteTids, CountLabels
<1>4. Cardinality(Counted(count)) = nput
  BY <1>1, <1>3 DEF Counts
<1>5. cpc = "returned" /\ ci >= nitems /\ (ci = 0 \/ ci =< nitems)
  BY <1>1 DEF Threaded, Index
<1>6. CASE nthreads > 0
  <2>1. 0 \in Tids /\ ppc[0] = "returned"
    BY <1>1, <1>6, ThreadsAssumption DEF Threaded, Joined, Tids
  <2>2. nput >= nitems /\ (nput = 0 \/ nput =< nitems)
    BY <1>1, <2>1 DEF Contents
  <2> QED BY <1>1, <1>4, <1>5, <1>6, <2>2 DEF Completes
<1>7. CASE ~(nthreads > 0)
  <2>1. Counted(count) = {}
    <3>1. ASSUME NEW p \in Tids PROVE count[p] = 0
      <4>1. p \in Int /\ p >= nthreads
        BY <1>1, <1>7 DEF Tids
      <4> QED BY <1>1, <4>1 DEF Threaded, Counts
    <3>2. Counted(count) = Rounds(Tids, count)
      BY DEF Counted, Rounds
    <3> QED BY <3>1, <3>2, RoundsInit
  <2>2. nput = 0
    BY <1>4, <2>1, FS_EmptySet
  <2>3. test = 1 \/ ci =< nput
    BY <1>1 DEF Index, Counts
  <2> QED BY <1>1, <1>4, <1>5, <1>7, <2>2, <2>3 DEF Completes
<1> QED BY <1>6, <1>7

\* nready counts what is stored, announced and not yet taken; at the end every
\* item was produced once, and the printed counts add up to that.
THEOREM ReadyCounts == Spec => []ReadyAccounting
<1>1. IInv => ReadyAccounting
  <2> SUFFICES ASSUME IInv PROVE ReadyAccounting
    OBVIOUS
  <2>1. Number(Tids, ppc, Announcing) =
          Cardinality({p \in Tids : ppc[p] \in {"unlock", "lock_nready", "signal", "post"}})
    BY DEF Number, Those, Announcing
  <2>2. Counts
    BY DEF IInv
  <2> QED BY <2>1, <2>2, AtExit DEF Counts, ReadyAccounting
<1> QED BY <1>1, MutexInvariant, PTL

-----------------------------------------------------------------------------
(* The program implements BoundedBuffer *)

\* The items taken are behind those put.
LEMMA TakenBehind ==
  ASSUME IInv
  PROVE  /\ Taken \in Nat /\ nput \in Nat /\ Taken =< nput
         /\ Inside = Window(Taken, nput)
<1>1. Taken \in Nat /\ nput \in Nat /\ nput =< MAXNITEMS /\ Taken =< nput
  BY ConsumerBehind, MAXNITEMSAssumption DEF IInv, TypeOK, Taken
<1>2. ASSUME NEW k \in 1 .. nput - Taken
      PROVE  buff[Taken + k - 1] = Taken + k - 1
  <2>1. Taken + k - 1 \in 0 .. MAXNITEMS - 1 /\ Taken + k - 1 < nput
    BY <1>1, MAXNITEMSAssumption
  <2> QED BY <2>1 DEF IInv, Contents
<1> QED BY <1>1, <1>2 DEF Window, Inside

\* The buffer starts empty.
LEMMA BufferInit == Init => Buffer!Init
<1> SUFFICES ASSUME Init PROVE Buffer!Init
  OBVIOUS
<1>1. nput = 0 /\ ci = 0 /\ Taken = 0
  BY DEF Init, Taken
<1>2. nitems \in Int
  BY InitIInv DEF IInv, TypeOK
<1> QED BY <1>1, <1>2 DEF Buffer!Init, Inside

\* Advancing nput is Put, the comparison of a round is Get, and no other step
\* shows in the buffer.
LEMMA BufferStep ==
  ASSUME IInv, IInv', [Next]_vars
  PROVE  [Buffer!Next]_Buffer!vars
<1>1. /\ Taken \in Nat /\ nput \in Nat /\ Taken =< nput
      /\ Inside = Window(Taken, nput) /\ Inside' = Window(Taken', nput')
  <2>1. (Inside = Window(Taken, nput))'
    BY TakenBehind, PTL
  <2> QED BY <2>1, TakenBehind DEF Window
<1>2. CASE UNCHANGED <<nitems, nthreads, nput, ci>>
  BY <1>1, <1>2 DEF Buffer!vars, Taken
<1>3. ASSUME NEW p \in Tids, ProducerAdvance(p)
      PROVE  Buffer!Put
  <2>1. /\ nput' = nput + 1 /\ Taken' = Taken /\ nitems' = nitems /\ ppc[p] = "advance"
    BY <1>3 DEF ProducerAdvance, PGoto, OnlyProducer, args, consumer, Taken
  <2>2. nput < nitems /\ nput - Taken < MAXNITEMS
    BY <1>1, <2>1, StoreInside, MAXNITEMSAssumption DEF IInv
  <2> QED BY <1>1, <2>1, <2>2, WindowSeq DEF Buffer!Put
<1>4. ASSUME ConsumerCompare, nthreads > 0
      PROVE  Buffer!Get
  <2>1. /\ Taken' = Taken + 1 /\ nput' = nput /\ nitems' = nitems /\ cpc = "compare"
        /\ Taken = ci
    BY <1>4 DEF ConsumerCompare, CGoto, args, put, Taken
  <2>2. Taken < nput
    BY <1>4, <2>1, ConsumerBehind
  <2> QED BY <1>1, <2>1, <2>2, WindowSeq DEF Buffer!Get
<1>5. ASSUME ConsumerCompare, ~(nthreads > 0)
      PROVE  UNCHANGED <<nitems, nput, Taken>>
  BY <1>5 DEF ConsumerCompare, args, put, Taken
<1>6. CASE Next
  <2>1. CASE Main
    BY <1>2, <2>1 DEF Main, CreateProducer, CreateConsumer, JoinProducer, NextLoop, args, put,
       consumer
  <2>2. ASSUME NEW p \in Tids, Producer(p)
        PROVE  UNCHANGED <<nitems, nthreads, nput, ci>> \/ ProducerAdvance(p)
    BY <2>2 DEF Producer, ProducerLock, ProducerTest, ProducerStore, ProducerUnlock,
       ProducerSignal, ProducerPost, ProducerCount, OnlyProducer, args, put, consumer
  <2>3. CASE ConsumerStep \/ SpuriousWakeup
    <3>1. UNCHANGED <<nitems, nthreads, nput, ci>> \/ ConsumerCompare
      BY <2>3 DEF ConsumerStep, SpuriousWakeup, ConsumerLock, ConsumerPoll, ConsumerWait,
         ConsumerTake, args, put
    <3>2. UNCHANGED <<nitems, nput, Taken>> => UNCHANGED Buffer!vars
      BY <1>1 DEF Buffer!vars
    <3> QED BY <1>2, <1>4, <1>5, <3>1, <3>2 DEF Buffer!Next
  <2> QED BY <1>2, <1>3, <1>6, <2>1, <2>2, <2>3 DEF Next, Buffer!Next
<1>7. CASE UNCHANGED vars
  BY <1>2, <1>7 DEF vars, args, put, consumer
<1> QED BY <1>6, <1>7

\* Each of the three tests behaves as a bounded buffer: the items reach the
\* consumer in the order they were put, each once.
THEOREM MutexImplementsBuffer == Spec => Implements
<1>1. Init => Buffer!Init
  BY BufferInit
<1>2. IInv /\ IInv' /\ [Next]_vars => [Buffer!Next]_Buffer!vars
  BY BufferStep
<1> QED BY <1>1, <1>2, MutexInvariant, PTL DEF Spec, Implements, Buffer!Spec
=============================================================================
