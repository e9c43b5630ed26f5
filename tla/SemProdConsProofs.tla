-------------------------- MODULE SemProdConsProofs --------------------------
(***************************************************************************)
(* Proofs about SemProdCons, for every NBUFF, every number of threads and  *)
(* of items.  The semaphores are taken to be opened: Stale = {}.           *)
(***************************************************************************)
EXTENDS SemProdCons, Counting

-----------------------------------------------------------------------------
(* Counting the threads at a set of labels: the lemmas of Counting, for Count *)

\* There are finitely many threads.
LEMMA FiniteTids == IsFiniteSet(Tids)
BY FS_Interval, ThreadsAssumption DEF Tids

\* Count is the number of Counting.
LEMMA CountNumber ==
  ASSUME NEW pc, NEW L
  PROVE  Count(pc, L) = Number(Tids, pc, L)
BY DEF Count, Number, Those

\* It is a natural number.
LEMMA CountType ==
  ASSUME NEW pc, NEW L
  PROVE  Count(pc, L) \in Nat
BY FiniteTids, CountNumber, NumberType

\* It is positive exactly when some thread is there.
LEMMA CountPositive ==
  ASSUME NEW pc, NEW L
  PROVE  Count(pc, L) > 0 <=> \E t \in Tids : pc[t] \in L
BY FiniteTids, CountNumber, NumberPositive

\* Where at most one thread is, any two threads are the same.
LEMMA CountUnique ==
  ASSUME NEW pc, NEW L, Count(pc, L) =< 1,
         NEW t \in Tids, NEW u \in Tids, pc[t] \in L, pc[u] \in L
  PROVE  t = u
BY FiniteTids, CountNumber, NumberUnique

-----------------------------------------------------------------------------
(* Type correctness *)

\* SemWait and SemPost leave natural numbers in the semaphores.
LEMMA SemType ==
  ASSUME sem \in [SemNames -> Nat], NEW s \in SemNames, SemWait(s) \/ SemPost(s)
  PROVE  sem' \in [SemNames -> Nat]
BY DEF SemWait, SemPost

\* A step of a producer keeps the types.
LEMMA ProducerType ==
  ASSUME TypeOK, NEW p \in Tids, Producer(p)
  PROVE  TypeOK'
<1> USE DEF TypeOK, PGoto, OnlyProducer, args, ring, producers, consumers,
            mainvars, PLabels
<1>0. {"mutex", "nempty", "nstored"} \subseteq SemNames
  BY DEF SemNames
<1>1. CASE ProducerWait(p)
  BY <1>0, <1>1, SemType DEF ProducerWait
<1>2. CASE ProducerTest(p)
  BY <1>2 DEF ProducerTest
<1>3. CASE ProducerStore(p)
  <2>1. nput % NBUFF \in 0 .. NBUFF - 1
    BY ModRange, NBUFFAssumption
  <2> QED BY <1>3, <2>1 DEF ProducerStore
<1>4. CASE ProducerAdvance(p)
  BY <1>4 DEF ProducerAdvance
<1>5. CASE ProducerPost(p)
  BY <1>0, <1>5, SemType DEF ProducerPost
<1>6. CASE ProducerCount(p)
  BY <1>6 DEF ProducerCount
<1>7. CASE ProducerQuit(p)
  BY <1>0, <1>7, SemType DEF ProducerQuit
<1> QED BY <1>1, <1>2, <1>3, <1>4, <1>5, <1>6, <1>7 DEF Producer

\* A step of a consumer keeps the types.
LEMMA ConsumerType ==
  ASSUME TypeOK, NEW c \in Tids, Consumer(c)
  PROVE  TypeOK'
<1> USE DEF TypeOK, CGoto, OnlyConsumer, args, ring, producers, consumers,
            mainvars, CLabels
<1>0. {"mutex", "nempty", "nstored"} \subseteq SemNames
  BY DEF SemNames
<1>1. CASE ConsumerWait(c)
  BY <1>0, <1>1, SemType DEF ConsumerWait
<1>2. CASE ConsumerTest(c)
  BY <1>2 DEF ConsumerTest
<1>3. CASE ConsumerFetch(c)
  BY <1>3 DEF ConsumerFetch
<1>4. CASE ConsumerAdvance(c)
  BY <1>4 DEF ConsumerAdvance
<1>5. CASE ConsumerPost(c)
  BY <1>0, <1>5, SemType DEF ConsumerPost
<1>6. CASE ConsumerCount(c)
  BY <1>6 DEF ConsumerCount
<1>7. CASE ConsumerQuit(c)
  BY <1>0, <1>7, SemType DEF ConsumerQuit
<1> QED BY <1>1, <1>2, <1>3, <1>4, <1>5, <1>6, <1>7 DEF Consumer

\* The index of a thread being created is that of a thread.
LEMMA CreatedTid ==
  ASSUME TypeOK, CreateProducer \/ CreateConsumer
  PROVE  i \in Tids
BY ThreadsAssumption DEF TypeOK, CreateProducer, CreateConsumer, Tids

\* A step of the main thread keeps the types.
LEMMA MainType ==
  ASSUME TypeOK, Main
  PROVE  TypeOK'
<1> USE DEF TypeOK, PGoto, CGoto, args, ring, producers, consumers, PLabels, CLabels
<1>1. CASE CreateProducer
  BY <1>1, CreatedTid DEF CreateProducer
<1>2. CASE CreateConsumer
  BY <1>2, CreatedTid DEF CreateConsumer
<1>3. CASE Join
  BY <1>3 DEF Join
<1>4. CASE NextLoop
  BY <1>4 DEF NextLoop
<1> QED BY <1>1, <1>2, <1>3, <1>4 DEF Main

\* The program starts well typed.
LEMMA InitType == Init => TypeOK
BY NBUFFAssumption, ThreadsAssumption, ItemsAssumption
   DEF Init, TypeOK, Min2, SemInit, SemNames, PLabels, CLabels

\* Every step, and stuttering, keeps the types.
LEMMA NextType == TypeOK /\ [Next]_vars => TypeOK'
<1> SUFFICES ASSUME TypeOK, [Next]_vars PROVE TypeOK'
  OBVIOUS
<1>1. CASE Next
  BY <1>1, MainType, ProducerType, ConsumerType DEF Next
<1>2. CASE UNCHANGED vars
  BY <1>2 DEF TypeOK, vars, args, ring, producers, consumers, mainvars
<1> QED BY <1>1, <1>2

\* Whatever names an earlier run has left, no semaphore falls below zero and
\* no thread leaves its code: produce_3 and consume_3 are type correct.
THEOREM TypeCorrect == Spec => []TypeOK
BY InitType, NextType, PTL DEF Spec

-----------------------------------------------------------------------------
(* Accounting of the semaphores' tokens *)

\* The four counts of producers are numbers.
LEMMA PCounts == /\ P(PHolding) \in Nat /\ P(PClaiming) \in Nat
                 /\ P(PStoring) \in Nat /\ P(PQuitting) \in Nat
BY CountType DEF P

\* The three counts of consumers are numbers.
LEMMA CCounts == C(CHolding) \in Nat /\ C(CFreeing) \in Nat /\ C(CTaking) \in Nat
BY CountType DEF C

\* What a move of a producer does to the counts.
LEMMA PMove ==
  ASSUME TypeOK, NEW p \in Tids, NEW from, NEW to, PGoto(p, from, to), NEW L
  PROVE  P(L)' = P(L) - Member(from, L) + Member(to, L)
<1>1. Moves(Tids, ppc, ppc', p, from, to)
  BY DEF TypeOK, PGoto, Moves
<1>2. Number(Tids, ppc', L) = Number(Tids, ppc, L) - Member(from, L) + Member(to, L)
  BY <1>1, NumberMove, FiniteTids
<1>3. P(L)' = Number(Tids, ppc', L) /\ P(L) = Number(Tids, ppc, L)
  BY DEF P, Count, Number, Those
<1> QED BY <1>1, <1>2, <1>3

\* What a move of a consumer does to the counts.
LEMMA CMove ==
  ASSUME TypeOK, NEW c \in Tids, NEW from, NEW to, CGoto(c, from, to), NEW L
  PROVE  C(L)' = C(L) - Member(from, L) + Member(to, L)
<1>1. Moves(Tids, cpc, cpc', c, from, to)
  BY DEF TypeOK, CGoto, Moves
<1>2. Number(Tids, cpc', L) = Number(Tids, cpc, L) - Member(from, L) + Member(to, L)
  BY <1>1, NumberMove, FiniteTids
<1>3. C(L)' = Number(Tids, cpc', L) /\ C(L) = Number(Tids, cpc, L)
  BY DEF C, Count, Number, Those
<1> QED BY <1>1, <1>2, <1>3

\* Threads that do not move do not change a count.
LEMMA PStay == ASSUME UNCHANGED ppc, NEW L PROVE P(L)' = P(L)
BY DEF P, Count

\* Threads that do not move do not change a count.
LEMMA CStay == ASSUME UNCHANGED cpc, NEW L PROVE C(L)' = C(L)
BY DEF C, Count

\* Which labels the sets of the accounts hold, the sets left unexpanded.
LEMMA PSets ==
  /\ \A l : l \in PHolding <=> \/ l = "test" \/ l = "store" \/ l = "advance"
                               \/ l = "post_mutex" \/ l = "quit_nstored"
                               \/ l = "quit_nempty" \/ l = "quit_mutex"
  /\ \A l : l \in PClaiming <=> \/ l = "wait_mutex" \/ l = "test" \/ l = "store"
                                \/ l = "advance" \/ l = "quit_nstored"
                                \/ l = "quit_nempty"
  /\ \A l : l \in PStoring <=> l = "post_mutex" \/ l = "post_nstored"
  /\ \A l : l \in PQuitting <=> \/ l = "quit_nempty" \/ l = "quit_mutex"
                                \/ l = "returned"
BY DEF PHolding, PClaiming, PStoring, PQuitting

\* The same for the consumers.
LEMMA CSets ==
  /\ \A l : l \in CHolding <=> \/ l = "test" \/ l = "fetch" \/ l = "advance"
                               \/ l = "post_mutex" \/ l = "quit_nstored"
                               \/ l = "quit_mutex"
  /\ \A l : l \in CFreeing <=> l = "post_mutex" \/ l = "post_nempty"
  /\ \A l : l \in CTaking <=> \/ l = "wait_mutex" \/ l = "test" \/ l = "fetch"
                              \/ l = "advance" \/ l = "quit_nstored"
BY DEF CHolding, CFreeing, CTaking

\* A step of a producer keeps the accounts.
LEMMA ProducerTokens ==
  ASSUME Stale = {}, TypeOK, TokenAccounting, NEW p \in Tids, Producer(p)
  PROVE  TokenAccounting'
<1>0. /\ sem \in [{"mutex", "nempty", "nstored"} -> Nat]
      /\ nput \in Nat /\ nget \in Nat /\ NBUFF \in Nat
  BY NBUFFAssumption DEF TypeOK, SemNames
<1>1. UNCHANGED cpc
  BY DEF Producer, ProducerWait, ProducerTest, ProducerStore, ProducerAdvance,
     ProducerPost, ProducerCount, ProducerQuit, OnlyProducer, consumers
<1>2. /\ C(CHolding)' = C(CHolding) /\ C(CFreeing)' = C(CFreeing)
      /\ C(CTaking)' = C(CTaking)
  BY <1>1, CStay
<1>3. ASSUME NEW from, NEW to, PGoto(p, from, to)
      PROVE  /\ P(PHolding)' = P(PHolding) - Member(from, PHolding)
                                           + Member(to, PHolding)
             /\ P(PClaiming)' = P(PClaiming) - Member(from, PClaiming)
                                             + Member(to, PClaiming)
             /\ P(PStoring)' = P(PStoring) - Member(from, PStoring)
                                           + Member(to, PStoring)
             /\ P(PQuitting)' = P(PQuitting) - Member(from, PQuitting)
                                             + Member(to, PQuitting)
  BY <1>3, PMove
<1> USE PCounts, CCounts, PSets DEF Member, TokenAccounting, MutexTokens, SlotTokens,
        ItemTokens, ring
<1>4. CASE ProducerWait(p)
  BY <1>0, <1>2, <1>3, <1>4 DEF ProducerWait, SemWait
<1>5. CASE ProducerTest(p)
  BY <1>0, <1>2, <1>3, <1>5 DEF ProducerTest
<1>6. CASE ProducerStore(p)
  BY <1>0, <1>2, <1>3, <1>6 DEF ProducerStore
<1>7. CASE ProducerAdvance(p)
  BY <1>0, <1>2, <1>3, <1>7 DEF ProducerAdvance
<1>8. CASE ProducerPost(p)
  BY <1>0, <1>2, <1>3, <1>8 DEF ProducerPost, SemPost
<1>9. CASE ProducerCount(p)
  BY <1>0, <1>2, <1>3, <1>9 DEF ProducerCount
<1>10. CASE ProducerQuit(p)
  BY <1>0, <1>2, <1>3, <1>10 DEF ProducerQuit, SemPost
<1> QED BY <1>4, <1>5, <1>6, <1>7, <1>8, <1>9, <1>10 DEF Producer

\* A step of a consumer keeps the accounts.
LEMMA ConsumerTokens ==
  ASSUME Stale = {}, TypeOK, TokenAccounting, NEW c \in Tids, Consumer(c)
  PROVE  TokenAccounting'
<1>0. /\ sem \in [{"mutex", "nempty", "nstored"} -> Nat]
      /\ nput \in Nat /\ nget \in Nat /\ NBUFF \in Nat
  BY NBUFFAssumption DEF TypeOK, SemNames
<1>1. UNCHANGED ppc
  BY DEF Consumer, ConsumerWait, ConsumerTest, ConsumerFetch, ConsumerAdvance,
     ConsumerPost, ConsumerCount, ConsumerQuit, OnlyConsumer, producers
<1>2. /\ P(PHolding)' = P(PHolding) /\ P(PClaiming)' = P(PClaiming)
      /\ P(PStoring)' = P(PStoring) /\ P(PQuitting)' = P(PQuitting)
  BY <1>1, PStay
<1>3. ASSUME NEW from, NEW to, CGoto(c, from, to)
      PROVE  /\ C(CHolding)' = C(CHolding) - Member(from, CHolding)
                                           + Member(to, CHolding)
             /\ C(CFreeing)' = C(CFreeing) - Member(from, CFreeing)
                                           + Member(to, CFreeing)
             /\ C(CTaking)' = C(CTaking) - Member(from, CTaking)
                                         + Member(to, CTaking)
  BY <1>3, CMove
<1> USE PCounts, CCounts, CSets DEF Member, TokenAccounting, MutexTokens, SlotTokens,
        ItemTokens, ring
<1>4. CASE ConsumerWait(c)
  BY <1>0, <1>2, <1>3, <1>4 DEF ConsumerWait, SemWait
<1>5. CASE ConsumerTest(c)
  BY <1>0, <1>2, <1>3, <1>5 DEF ConsumerTest
<1>6. CASE ConsumerFetch(c)
  BY <1>0, <1>2, <1>3, <1>6 DEF ConsumerFetch
<1>7. CASE ConsumerAdvance(c)
  BY <1>0, <1>2, <1>3, <1>7 DEF ConsumerAdvance
<1>8. CASE ConsumerPost(c)
  BY <1>0, <1>2, <1>3, <1>8 DEF ConsumerPost, SemPost
<1>9. CASE ConsumerCount(c)
  BY <1>0, <1>2, <1>3, <1>9 DEF ConsumerCount
<1>10. CASE ConsumerQuit(c)
  BY <1>0, <1>2, <1>3, <1>10 DEF ConsumerQuit, SemPost
<1> QED BY <1>4, <1>5, <1>6, <1>7, <1>8, <1>9, <1>10 DEF Consumer

\* Creating and joining threads leaves the accounts alone: a thread is born
\* outside every set that counts.
LEMMA MainTokens ==
  ASSUME TypeOK, TokenAccounting, Main
  PROVE  TokenAccounting'
<1> USE PCounts, CCounts DEF TokenAccounting, MutexTokens, SlotTokens,
        ItemTokens, ring, producers, consumers
<1>1. CASE CreateProducer
  <2>1. i \in Tids /\ PGoto(i, "unborn", "wait_nempty") /\ UNCHANGED <<sem, ring, cpc>>
    BY <1>1, CreatedTid DEF CreateProducer
  <2>2. /\ P(PHolding)' = P(PHolding) /\ P(PClaiming)' = P(PClaiming)
        /\ P(PStoring)' = P(PStoring) /\ P(PQuitting)' = P(PQuitting)
    BY <2>1, PMove, PSets DEF Member
  <2>3. /\ C(CHolding)' = C(CHolding) /\ C(CFreeing)' = C(CFreeing)
        /\ C(CTaking)' = C(CTaking)
    BY <2>1, CStay
  <2> QED BY <2>1, <2>2, <2>3
<1>2. CASE CreateConsumer
  <2>1. i \in Tids /\ CGoto(i, "unborn", "wait_nstored") /\ UNCHANGED <<sem, ring, ppc>>
    BY <1>2, CreatedTid DEF CreateConsumer
  <2>2. /\ P(PHolding)' = P(PHolding) /\ P(PClaiming)' = P(PClaiming)
        /\ P(PStoring)' = P(PStoring) /\ P(PQuitting)' = P(PQuitting)
    BY <2>1, PStay
  <2>3. /\ C(CHolding)' = C(CHolding) /\ C(CFreeing)' = C(CFreeing)
        /\ C(CTaking)' = C(CTaking)
    BY <2>1, CMove, CSets DEF Member
  <2> QED BY <2>1, <2>2, <2>3
<1>3. CASE Join \/ NextLoop
  <2>1. UNCHANGED <<sem, ring, ppc, cpc>>
    BY <1>3 DEF Join, NextLoop
  <2>2. /\ P(PHolding)' = P(PHolding) /\ P(PClaiming)' = P(PClaiming)
        /\ P(PStoring)' = P(PStoring) /\ P(PQuitting)' = P(PQuitting)
        /\ C(CHolding)' = C(CHolding) /\ C(CFreeing)' = C(CFreeing)
        /\ C(CTaking)' = C(CTaking)
    BY <2>1, PStay, CStay
  <2> QED BY <2>1, <2>2
<1> QED BY <1>1, <1>2, <1>3 DEF Main

\* At the start no thread exists and the tokens are those of sem_open.
LEMMA InitTokens == Init => TokenAccounting
<1> SUFFICES ASSUME Init PROVE TokenAccounting
  OBVIOUS
<1>1. ASSUME NEW L, "unborn" \notin L PROVE P(L) = 0 /\ C(L) = 0
  <2>1. \A t \in Tids : ppc[t] \notin L /\ cpc[t] \notin L
    BY <1>1 DEF Init
  <2>2. P(L) \in Nat /\ C(L) \in Nat
    BY CountType DEF P, C
  <2> QED BY <2>1, <2>2, CountPositive DEF P, C
<1>2. /\ P(PHolding) = 0 /\ P(PClaiming) = 0 /\ P(PStoring) = 0 /\ P(PQuitting) = 0
      /\ C(CHolding) = 0 /\ C(CFreeing) = 0 /\ C(CTaking) = 0
  BY <1>1, PSets, CSets
<1> QED
  BY <1>2, NBUFFAssumption
     DEF Init, SemInit, TokenAccounting, MutexTokens, SlotTokens, ItemTokens

\* Every step, and stuttering, keeps the accounts.
LEMMA NextTokens ==
  ASSUME Stale = {}, TypeOK, TokenAccounting, [Next]_vars
  PROVE  TokenAccounting'
<1>1. CASE Next
  BY <1>1, MainTokens, ProducerTokens, ConsumerTokens DEF Next
<1>2. CASE UNCHANGED vars
  BY <1>2 DEF vars, ring, producers, consumers, TokenAccounting, MutexTokens,
     SlotTokens, ItemTokens, P, C, Count
<1> QED BY <1>1, <1>2

\* At every step of produce_3 and consume_3, whatever the interleaving, the
\* three semaphores account for every place, item and thread.
THEOREM TokensAccounted ==
  ASSUME Stale = {}
  PROVE  Spec => []TokenAccounting
<1>1. Init => TypeOK /\ TokenAccounting
  BY InitType, InitTokens
<1>2. TypeOK /\ TokenAccounting /\ [Next]_vars => (TypeOK /\ TokenAccounting)'
  BY NextType, NextTokens
<1> QED BY <1>1, <1>2, PTL DEF Spec

-----------------------------------------------------------------------------
(* The ring *)

\* Two threads that hold the mutex are the same producer or the same consumer.
LEMMA OneHolder ==
  ASSUME TypeOK, TokenAccounting
  PROVE  /\ \A p, q \in Tids : ppc[p] \in PHolding /\ ppc[q] \in PHolding => p = q
         /\ \A c, d \in Tids : cpc[c] \in CHolding /\ cpc[d] \in CHolding => c = d
         /\ \A p, c \in Tids : ~(ppc[p] \in PHolding /\ cpc[c] \in CHolding)
<1>1. P(PHolding) \in Nat /\ C(CHolding) \in Nat /\ P(PHolding) + C(CHolding) =< 1
  BY PCounts, CCounts DEF TypeOK, TokenAccounting, MutexTokens, SemNames
<1>2. ASSUME NEW p \in Tids, NEW q \in Tids, ppc[p] \in PHolding, ppc[q] \in PHolding
      PROVE  p = q
  BY <1>1, <1>2, CountUnique DEF P
<1>3. ASSUME NEW c \in Tids, NEW d \in Tids, cpc[c] \in CHolding, cpc[d] \in CHolding
      PROVE  c = d
  BY <1>1, <1>3, CountUnique DEF C
<1>4. ASSUME NEW p \in Tids, NEW c \in Tids, ppc[p] \in PHolding, cpc[c] \in CHolding
      PROVE  FALSE
  <2>1. P(PHolding) > 0 /\ C(CHolding) > 0
    BY <1>4, CountPositive DEF P, C
  <2> QED BY <1>1, <2>1
<1> QED BY <1>2, <1>3, <1>4

\* A producer that has claimed a place finds one free.
LEMMA FreePlace ==
  ASSUME IInv, NEW p \in Tids, ppc[p] \in {"store", "advance"}
  PROVE  nput - nget < NBUFF
<1>1. P(PClaiming) > 0
  BY CountPositive, PSets DEF P
<1>2. sem["nempty"] \in Nat /\ nput \in Nat /\ nget \in Nat
  BY DEF IInv, TypeOK, SemNames
<1>3. sem["nempty"] + P(PClaiming) + (nput - nget) + C(CFreeing) = NBUFF
  BY DEF IInv, TokenAccounting, SlotTokens
<1> QED
  BY <1>1, <1>2, <1>3, PCounts, CCounts, NBUFFAssumption

\* A consumer past its test finds an item: either its token stands for one, or
\* a producer has quit, and then nitems of them have been put.
LEMMA ItemThere ==
  ASSUME IInv, NEW c \in Tids, cpc[c] \in {"fetch", "advance"}
  PROVE  nget < nput
<1>0. nput \in Nat /\ nget \in Nat /\ nitems \in Int /\ nget < nitems
  BY DEF IInv, TypeOK, TestsHold
<1>1. C(CTaking) > 0
  BY CountPositive, CSets DEF C
<1>2. (nput - nget) + P(PQuitting) > 0
  BY <1>0, <1>1, PCounts, CCounts DEF IInv, TypeOK, TokenAccounting, ItemTokens, SemNames
<1>3. CASE P(PQuitting) > 0
  <2>1. PICK p \in Tids : ppc[p] \in PQuitting
    BY <1>3, CountPositive DEF P
  <2>2. nput >= nitems
    BY <2>1 DEF IInv, TestsHold
  <2> QED BY <1>0, <2>2
<1> QED BY <1>0, <1>2, <1>3, PCounts

RingInv == InStep /\ TestsHold /\ RingContents

\* A step of a producer keeps the ring right.
LEMMA ProducerRing ==
  ASSUME IInv, NEW p \in Tids, Producer(p)
  PROVE  RingInv'
<1> USE DEF RingInv, InStep, TestsHold, RingContents
<1>0. /\ TypeOK /\ TokenAccounting /\ RingInv
      /\ nput \in Nat /\ nget \in Nat /\ nitems \in Int
      /\ ppc \in [Tids -> PLabels] /\ NBUFF \in Nat \ {0}
      /\ buff \in [0 .. NBUFF - 1 -> Int]
  BY NBUFFAssumption DEF IInv, TypeOK
<1>1. ASSUME NEW q \in Tids, q # p, ppc[p] \in PHolding
      PROVE  ppc[q] \notin PHolding
  BY <1>0, <1>1, OneHolder
<1>2. UNCHANGED <<nitems, nget, ngetval, cpc>>
  BY DEF Producer, ProducerWait, ProducerTest, ProducerStore, ProducerAdvance,
     ProducerPost, ProducerCount, ProducerQuit, OnlyProducer, args, ring, consumers
<1>3. CASE ProducerWait(p) \/ ProducerPost(p) \/ ProducerCount(p) \/ ProducerQuit(p)
  <2>1. /\ UNCHANGED <<buff, nput, nputval>>
        /\ \A q \in Tids : q # p => ppc'[q] = ppc[q]
        /\ ppc'[p] \notin {"store", "advance", "quit_nstored"}
        /\ ppc'[p] \in PQuitting => ppc[p] \in {"quit_nstored"} \cup PQuitting
    BY <1>0, <1>3, PSets DEF ProducerWait, ProducerPost, ProducerCount, ProducerQuit,
       PGoto, ring
  <2> QED BY <1>0, <1>2, <2>1
<1>4. CASE ProducerTest(p)
  <2>1. /\ UNCHANGED <<buff, nput, nputval>>
        /\ \A q \in Tids : q # p => ppc'[q] = ppc[q]
        /\ ppc'[p] = IF nput >= nitems THEN "quit_nstored" ELSE "store"
    BY <1>0, <1>4 DEF ProducerTest, PGoto, ring
  <2> QED BY <1>0, <1>2, <2>1, PSets
<1>5. CASE ProducerStore(p)
  <2>1. /\ UNCHANGED <<nput, nputval>>
        /\ ppc[p] = "store" /\ ppc'[p] = "advance"
        /\ \A q \in Tids : q # p => ppc'[q] = ppc[q]
        /\ buff' = [buff EXCEPT ![nput % NBUFF] = nput]
    BY <1>0, <1>5 DEF ProducerStore, PGoto
  <2>2. nput % NBUFF \in 0 .. NBUFF - 1
    BY <1>0, ModRange
  <2>3. buff'[nput % NBUFF] = nput
    BY <1>0, <2>1, <2>2
  <2>4. ASSUME NEW k \in nget .. nput - 1 PROVE buff'[k % NBUFF] = k
    <3>1. nput - nget < NBUFF
      BY <2>1, FreePlace
    <3>2. k \in Int /\ nput \in Int /\ k < nput /\ nput - k < NBUFF
      BY <1>0, <3>1
    <3>3. k % NBUFF # nput % NBUFF
      BY <1>0, <3>2, ModDistinct, Zenon
    <3>4. k % NBUFF \in 0 .. NBUFF - 1
      BY <1>0, <3>2, ModRange
    <3> QED BY <1>0, <2>1, <2>2, <3>3, <3>4
  <2> QED BY <1>0, <1>2, <2>1, <2>3, <2>4, PSets
<1>6. CASE ProducerAdvance(p)
  <2>1. /\ nput' = nput + 1 /\ nputval' = nputval + 1 /\ UNCHANGED buff
        /\ ppc[p] = "advance" /\ ppc'[p] = "post_mutex"
        /\ \A q \in Tids : q # p => ppc'[q] = ppc[q]
    BY <1>0, <1>6 DEF ProducerAdvance, PGoto
  <2>2. \A q \in Tids : ppc'[q] \notin {"store", "advance"}
    BY <1>1, <2>1, PSets
  <2>3. nput < nitems /\ buff[nput % NBUFF] = nput
    BY <1>0, <2>1
  <2>4. ASSUME NEW k \in nget .. nput PROVE buff[k % NBUFF] = k
    BY <1>0, <2>3
  <2>5. \A q \in Tids : ppc'[q] \in {"quit_nstored"} \cup PQuitting => nput' >= nitems
    BY <1>0, <2>1, PSets
  <2> QED BY <1>0, <1>2, <2>1, <2>2, <2>3, <2>4, <2>5
<1> QED BY <1>3, <1>4, <1>5, <1>6 DEF Producer

\* A step of a consumer keeps the ring right.
LEMMA ConsumerRing ==
  ASSUME IInv, NEW c \in Tids, Consumer(c)
  PROVE  RingInv'
<1> USE DEF RingInv, InStep, TestsHold, RingContents
<1>0. /\ TypeOK /\ TokenAccounting /\ RingInv
      /\ nput \in Nat /\ nget \in Nat /\ nitems \in Int
      /\ cpc \in [Tids -> CLabels]
  BY DEF IInv, TypeOK
<1>1. UNCHANGED <<nitems, buff, nput, nputval, ppc>>
  BY DEF Consumer, ConsumerWait, ConsumerTest, ConsumerFetch, ConsumerAdvance,
     ConsumerPost, ConsumerCount, ConsumerQuit, OnlyConsumer, args, ring, producers
<1>2. CASE ConsumerWait(c) \/ ConsumerPost(c) \/ ConsumerCount(c) \/ ConsumerQuit(c)
  <2>1. /\ UNCHANGED <<nget, ngetval>>
        /\ \A d \in Tids : d # c => cpc'[d] = cpc[d]
        /\ cpc'[c] \notin {"fetch", "advance"}
    BY <1>0, <1>2 DEF ConsumerWait, ConsumerPost, ConsumerCount, ConsumerQuit, CGoto, ring
  <2> QED BY <1>0, <1>1, <2>1
<1>3. CASE ConsumerTest(c) \/ ConsumerFetch(c)
  <2>1. /\ UNCHANGED <<nget, ngetval>>
        /\ \A d \in Tids : d # c => cpc'[d] = cpc[d]
        /\ cpc'[c] \in {"fetch", "advance"} => nget < nitems
    BY <1>0, <1>3 DEF ConsumerTest, ConsumerFetch, CGoto, ring
  <2> QED BY <1>0, <1>1, <2>1
<1>4. CASE ConsumerAdvance(c)
  <2>1. /\ nget' = nget + 1 /\ ngetval' = ngetval + 1
        /\ cpc[c] = "advance" /\ cpc'[c] = "post_mutex"
        /\ \A d \in Tids : d # c => cpc'[d] = cpc[d]
    BY <1>0, <1>4 DEF ConsumerAdvance, CGoto
  <2>2. nget < nput
    BY <2>1, ItemThere
  <2>3. \A d \in Tids : cpc'[d] \notin {"fetch", "advance"}
    BY <1>0, <2>1, OneHolder, CSets
  <2> QED BY <1>0, <1>1, <2>1, <2>2, <2>3
<1> QED BY <1>2, <1>3, <1>4 DEF Consumer

\* Creating and joining threads leaves the ring alone.
LEMMA MainRing ==
  ASSUME IInv, Main
  PROVE  RingInv'
<1> USE DEF RingInv, InStep, TestsHold, RingContents
<1>1. /\ TypeOK /\ RingInv /\ ppc \in [Tids -> PLabels] /\ cpc \in [Tids -> CLabels]
  BY DEF IInv, TypeOK
<1>2. UNCHANGED <<nitems, ring>>
  BY DEF Main, CreateProducer, CreateConsumer, Join, NextLoop, args
<1>3. /\ \A p \in Tids : ppc'[p] = ppc[p] \/ ppc'[p] = "wait_nempty"
      /\ \A c \in Tids : cpc'[c] = cpc[c] \/ cpc'[c] = "wait_nstored"
  BY <1>1 DEF Main, CreateProducer, CreateConsumer, Join, NextLoop, PGoto, CGoto,
     producers, consumers
<1> QED BY <1>1, <1>2, <1>3, PSets DEF ring

\* The inductive invariant holds at the start.
LEMMA InitIInv == Init => IInv
<1> SUFFICES ASSUME Init PROVE IInv
  OBVIOUS
<1>1. TypeOK /\ TokenAccounting
  BY InitType, InitTokens
<1>2. InStep /\ TestsHold /\ RingContents
  BY PSets DEF Init, InStep, TestsHold, RingContents
<1> QED BY <1>1, <1>2 DEF IInv

\* Every step, and stuttering, keeps it.
LEMMA NextIInv ==
  ASSUME Stale = {}, IInv, [Next]_vars
  PROVE  IInv'
<1>1. TypeOK' /\ TokenAccounting'
  BY NextType, NextTokens DEF IInv
<1>2. RingInv'
  <2>1. CASE Next
    BY <2>1, MainRing, ProducerRing, ConsumerRing DEF Next
  <2>2. CASE UNCHANGED vars
    BY <2>2 DEF vars, args, ring, producers, consumers, IInv, RingInv, InStep,
       TestsHold, RingContents
  <2> QED BY <2>1, <2>2
<1> QED BY <1>1, <1>2 DEF IInv, RingInv

\* The ring, its indices and the three semaphores agree at every step of the
\* program, for every NBUFF and every number of items and threads.
THEOREM RingInvariant ==
  ASSUME Stale = {}
  PROVE  Spec => []IInv
<1>1. Init => IInv
  BY InitIInv
<1>2. IInv /\ [Next]_vars => IInv'
  BY NextIInv
<1> QED BY <1>1, <1>2, PTL DEF Spec

\* produce_3 never overwrites an item that was not consumed.
THEOREM NeverOverwrites ==
  ASSUME Stale = {}
  PROVE  Spec => []NoOverwrite
<1>1. IInv => NoOverwrite
  BY FreePlace DEF NoOverwrite
<1> QED BY <1>1, RingInvariant, PTL

\* consume_3 never prints its error message.
THEOREM NeverError ==
  ASSUME Stale = {}
  PROVE  Spec => []NoError
<1>1. IInv => NoError
  <2> SUFFICES ASSUME IInv, NEW c \in Tids, cpc[c] = "fetch"
               PROVE  nget < nput /\ buff[nget % NBUFF] = ngetval
    BY DEF NoError
  <2>1. nget < nput
    BY ItemThere
  <2> QED BY <2>1 DEF IInv, TypeOK, InStep, RingContents
<1> QED BY <1>1, RingInvariant, PTL

-----------------------------------------------------------------------------
(* The program implements BoundedBuffer *)

\* The places of the ring between nget and nput hold the items of that window.
LEMMA ContentsWindow == IInv => Contents = Window(nget, nput)
<1> SUFFICES ASSUME IInv PROVE Contents = Window(nget, nput)
  OBVIOUS
<1>1. nput \in Nat /\ nget \in Nat /\ \A k \in nget .. nput - 1 : buff[k % NBUFF] = k
  BY DEF IInv, TypeOK, RingContents
<1>2. ASSUME NEW k \in 1 .. nput - nget
      PROVE  buff[(nget + k - 1) % NBUFF] = nget + k - 1
  <2>1. nget + k - 1 \in nget .. nput - 1
    BY <1>1
  <2> QED BY <1>1, <2>1
<1> QED BY <1>2 DEF Contents, Window

\* The buffer starts empty.
LEMMA BufferInit == Init => Buffer!Init
<1> SUFFICES ASSUME Init PROVE Buffer!Init
  OBVIOUS
<1>1. nput = 0 /\ nget = 0 /\ nitems \in Int
  BY ItemsAssumption DEF Init
<1>2. Contents = <<>>
  BY <1>1 DEF Contents
<1> QED BY <1>1, <1>2 DEF Buffer!Init

\* Advancing nput is Put, advancing nget is Get, and no other step, the store
\* into the ring included, shows in the buffer.
LEMMA BufferStep ==
  ASSUME IInv, IInv', [Next]_vars
  PROVE  [Buffer!Next]_Buffer!vars
<1>1. /\ nput \in Nat /\ nget \in Nat /\ nget =< nput
      /\ Contents = Window(nget, nput) /\ Contents' = Window(nget', nput')
  <2>1. (Contents = Window(nget, nput))'
    BY ContentsWindow, PTL
  <2> QED BY <2>1, ContentsWindow DEF IInv, TypeOK, InStep, Window
<1>2. CASE UNCHANGED <<nitems, nput, nget>>
  BY <1>1, <1>2 DEF Buffer!vars
<1>3. ASSUME NEW p \in Tids, ProducerAdvance(p)
      PROVE  Buffer!Put
  <2>1. /\ nput' = nput + 1 /\ nget' = nget /\ nitems' = nitems
        /\ ppc[p] = "advance"
    BY <1>3 DEF ProducerAdvance, PGoto, OnlyProducer, args
  <2>2. nput < nitems /\ nput - nget < NBUFF
    BY <2>1, FreePlace DEF IInv, TestsHold
  <2> QED BY <1>1, <2>1, <2>2, WindowSeq DEF Buffer!Put
<1>4. ASSUME NEW c \in Tids, ConsumerAdvance(c)
      PROVE  Buffer!Get
  <2>1. /\ nget' = nget + 1 /\ nput' = nput /\ nitems' = nitems
        /\ cpc[c] = "advance"
    BY <1>4 DEF ConsumerAdvance, CGoto, OnlyConsumer, args
  <2>2. nget < nput
    BY <2>1, ItemThere
  <2> QED BY <1>1, <2>1, <2>2, WindowSeq DEF Buffer!Get
<1>5. CASE Next
  <2>1. CASE Main
    BY <1>2, <2>1 DEF Main, CreateProducer, CreateConsumer, Join, NextLoop, args, ring
  <2>2. ASSUME NEW p \in Tids, Producer(p)
        PROVE  UNCHANGED <<nitems, nput, nget>> \/ ProducerAdvance(p)
    BY <2>2 DEF Producer, ProducerWait, ProducerTest, ProducerStore, ProducerPost,
       ProducerCount, ProducerQuit, OnlyProducer, args, ring
  <2>3. ASSUME NEW c \in Tids, Consumer(c)
        PROVE  UNCHANGED <<nitems, nput, nget>> \/ ConsumerAdvance(c)
    BY <2>3 DEF Consumer, ConsumerWait, ConsumerTest, ConsumerFetch, ConsumerPost,
       ConsumerCount, ConsumerQuit, OnlyConsumer, args, ring
  <2> QED BY <1>2, <1>3, <1>4, <1>5, <2>1, <2>2, <2>3 DEF Next, Buffer!Next
<1>6. CASE UNCHANGED vars
  BY <1>2, <1>6 DEF vars, args, ring
<1> QED BY <1>5, <1>6

\* The program behaves as a bounded buffer: items leave in the order they
\* entered, each once, and never more than NBUFF are inside.
THEOREM ImplementsBuffer ==
  ASSUME Stale = {}
  PROVE  Spec => Implements
<1>1. Init => Buffer!Init
  BY BufferInit
<1>2. IInv /\ IInv' /\ [Next]_vars => [Buffer!Next]_Buffer!vars
  BY BufferStep
<1> QED BY <1>1, <1>2, RingInvariant, PTL DEF Spec, Implements, Buffer!Spec

-----------------------------------------------------------------------------
(* The final counts.  They rest on what the main thread has created and      *)
(* joined, on what a thread of one kind says of those of the other, and on   *)
(* the sums of the counts.                                                   *)

\* The threads created, joined, and those that may run.
Threaded ==
  /\ main = "create_p" => i = 0 \/ i =< nproducers
  /\ main = "create_c" => i = 0 \/ i =< nconsumers
  /\ \A p \in Tids : ppc[p] = "unborn" <=> p >= (IF main = "create_p" THEN i ELSE nproducers)
  /\ \A c \in Tids : cpc[c] = "unborn" <=>
       \/ main = "create_p"
       \/ c >= (IF main = "create_c" THEN i ELSE nconsumers)
  /\ main = "join_p" => \A p \in Tids : p < i => ppc[p] = "returned"
  /\ main \in {"join_c", "exit"} => \A p \in Tids : p < nproducers => ppc[p] = "returned"
  /\ main = "join_c" => \A c \in Tids : c < i => cpc[c] = "returned"
  /\ main = "exit" => \A c \in Tids : c < nconsumers => cpc[c] = "returned"

\* Without producers nothing is put and no consumer gets past its first wait;
\* without consumers nothing is taken, and producers quit only while the ring
\* has a place left.
OtherKind ==
  /\ nproducers =< 0 => nput = 0
  /\ nconsumers =< 0 => nget = 0
  /\ \A c \in Tids : cpc[c] \notin {"unborn", "wait_nstored"} => nproducers > 0
  /\ \A c \in Tids : cpc[c] \in {"quit_nstored", "quit_mutex", "returned"} => nget >= nitems
  /\ nconsumers =< 0 => \A p \in Tids : ppc[p] \in {"quit_nstored"} \cup PQuitting => nput < NBUFF

\* Each item put or taken is in a count, or its thread is about to count it.
PUncounted == {"post_mutex", "post_nstored", "count"}
CUncounted == {"post_mutex", "post_nempty", "count"}
Sums ==
  /\ IsFiniteSet(Counted(prodcount)) /\ IsFiniteSet(Counted(conscount))
  /\ Cardinality(Counted(prodcount)) + P(PUncounted) = nput
  /\ Cardinality(Counted(conscount)) + C(CUncounted) = nget
  /\ \A p \in Tids : ppc[p] = "unborn" => prodcount[p] = 0
  /\ \A c \in Tids : cpc[c] = "unborn" => conscount[c] = 0

FinalInv == Threaded /\ OtherKind /\ Sums

\* What every step of a producer leaves alone, and where it may go.
LEMMA ProducerFrame ==
  ASSUME TypeOK, NEW p \in Tids, Producer(p)
  PROVE  /\ UNCHANGED <<nitems, nproducers, nconsumers, nget, cpc, conscount, main, i>>
         /\ ppc[p] \notin {"unborn", "returned"} /\ ppc'[p] # "unborn"
         /\ \A q \in Tids : q # p => ppc'[q] = ppc[q]
<1> USE DEF PGoto, OnlyProducer, args, ring, consumers, mainvars
<1>0. ppc \in [Tids -> PLabels]
  BY DEF TypeOK
<1>1. CASE ProducerWait(p)
  BY <1>0, <1>1 DEF ProducerWait
<1>2. CASE ProducerTest(p)
  BY <1>0, <1>2 DEF ProducerTest
<1>3. CASE ProducerStore(p)
  BY <1>0, <1>3 DEF ProducerStore
<1>4. CASE ProducerAdvance(p)
  BY <1>0, <1>4 DEF ProducerAdvance
<1>5. CASE ProducerPost(p)
  BY <1>0, <1>5 DEF ProducerPost
<1>6. CASE ProducerCount(p)
  BY <1>0, <1>6 DEF ProducerCount
<1>7. CASE ProducerQuit(p)
  BY <1>0, <1>7 DEF ProducerQuit
<1> QED BY <1>1, <1>2, <1>3, <1>4, <1>5, <1>6, <1>7 DEF Producer

\* The same for a consumer.
LEMMA ConsumerFrame ==
  ASSUME TypeOK, NEW c \in Tids, Consumer(c)
  PROVE  /\ UNCHANGED <<nitems, nproducers, nconsumers, nput, ppc, prodcount, main, i>>
         /\ cpc[c] \notin {"unborn", "returned"} /\ cpc'[c] # "unborn"
         /\ \A d \in Tids : d # c => cpc'[d] = cpc[d]
<1> USE DEF CGoto, OnlyConsumer, args, ring, producers, mainvars
<1>0. cpc \in [Tids -> CLabels]
  BY DEF TypeOK
<1>1. CASE ConsumerWait(c)
  BY <1>0, <1>1 DEF ConsumerWait
<1>2. CASE ConsumerTest(c)
  BY <1>0, <1>2 DEF ConsumerTest
<1>3. CASE ConsumerFetch(c)
  BY <1>0, <1>3 DEF ConsumerFetch
<1>4. CASE ConsumerAdvance(c)
  BY <1>0, <1>4 DEF ConsumerAdvance
<1>5. CASE ConsumerPost(c)
  BY <1>0, <1>5 DEF ConsumerPost
<1>6. CASE ConsumerCount(c)
  BY <1>0, <1>6 DEF ConsumerCount
<1>7. CASE ConsumerQuit(c)
  BY <1>0, <1>7 DEF ConsumerQuit
<1> QED BY <1>1, <1>2, <1>3, <1>4, <1>5, <1>6, <1>7 DEF Consumer

\* Threads are created and joined in the order of their indices.
LEMMA ThreadedKept ==
  ASSUME TypeOK, Threaded, Next
  PROVE  Threaded'
<1> USE DEF Threaded
<1>0. /\ i \in Nat /\ nproducers \in Int /\ nconsumers \in Int /\ Tids = 0 .. MAXNTHREADS - 1
      /\ MAXNTHREADS \in Nat /\ nproducers =< MAXNTHREADS /\ nconsumers =< MAXNTHREADS
      /\ ppc \in [Tids -> PLabels] /\ cpc \in [Tids -> CLabels]
  BY ThreadsAssumption DEF TypeOK, Tids
<1>1. ASSUME NEW p \in Tids, Producer(p)
      PROVE  Threaded'
  BY <1>0, <1>1, ProducerFrame
<1>2. ASSUME NEW c \in Tids, Consumer(c)
      PROVE  Threaded'
  BY <1>0, <1>2, ConsumerFrame
<1>3. CASE Main
  <2> USE DEF PGoto, CGoto, args, producers, consumers
  <2>1. CASE CreateProducer
    BY <1>0, <2>1 DEF CreateProducer
  <2>2. CASE CreateConsumer
    BY <1>0, <2>2 DEF CreateConsumer
  <2>3. CASE Join
    BY <1>0, <2>3 DEF Join
  <2>4. CASE NextLoop
    BY <1>0, <2>4 DEF NextLoop
  <2> QED BY <1>3, <2>1, <2>2, <2>3, <2>4 DEF Main
<1> QED BY <1>1, <1>2, <1>3 DEF Next

\* A thread that runs was created: there are threads of its kind.
LEMMA SomeOfKind ==
  ASSUME TypeOK, Threaded
  PROVE  /\ \A p \in Tids : ppc[p] # "unborn" => nproducers > 0
         /\ \A c \in Tids : cpc[c] # "unborn" => nconsumers > 0
BY DEF TypeOK, Threaded, Tids

\* What each kind says of the other stays true.
LEMMA OtherKindKept ==
  ASSUME Stale = {}, IInv, Threaded, OtherKind, Next
  PROVE  OtherKind'
<1> USE DEF OtherKind
<1>0. /\ TypeOK /\ nproducers \in Int /\ nconsumers \in Int /\ nitems \in Int
      /\ nput \in Nat /\ nget \in Nat /\ NBUFF \in Nat
      /\ ppc \in [Tids -> PLabels] /\ cpc \in [Tids -> CLabels]
      /\ sem \in [{"mutex", "nempty", "nstored"} -> Nat]
  BY NBUFFAssumption DEF IInv, TypeOK, SemNames
<1>1. ASSUME NEW p \in Tids, Producer(p)
      PROVE  OtherKind'
  <2>1. /\ UNCHANGED <<nitems, nproducers, nconsumers, nget, cpc>> /\ nproducers > 0
        /\ \A q \in Tids : q # p => ppc'[q] = ppc[q]
    BY <1>0, <1>1, ProducerFrame, SomeOfKind
  <2>2. nput' = nput \/ (nput' = nput + 1 /\ ppc[p] = "advance" /\ ppc'[p] = "post_mutex")
    BY <1>0, <1>1 DEF Producer, ProducerWait, ProducerTest, ProducerStore, ProducerAdvance,
       ProducerPost, ProducerCount, ProducerQuit, PGoto, ring
  <2>3. ASSUME nconsumers =< 0, NEW q \in Tids, ppc'[q] \in {"quit_nstored"} \cup PQuitting
        PROVE  nput' < NBUFF
    <3>1. CASE ppc[q] \in {"quit_nstored"} \cup PQuitting
      <4>1. nput < NBUFF /\ nput >= nitems
        BY <2>3, <3>1 DEF IInv, TestsHold
      <4>2. ppc[p] = "advance" => nput < nitems
        BY DEF IInv, TestsHold
      <4> QED BY <1>0, <2>2, <4>1, <4>2
    <3>2. CASE ppc[q] \notin {"quit_nstored"} \cup PQuitting
      <4>1. q = p /\ ppc[p] = "test" /\ nput' = nput
        BY <1>0, <1>1, <2>1, <2>3, <3>2, PSets DEF Producer, ProducerWait, ProducerTest,
           ProducerStore, ProducerAdvance, ProducerPost, ProducerCount, ProducerQuit, PGoto, ring
      <4>2. P(PClaiming) > 0
        BY <4>1, CountPositive, PSets DEF P
      <4>3. sem["nempty"] + P(PClaiming) + (nput - nget) + C(CFreeing) = NBUFF /\ nget = 0
        BY <2>3 DEF IInv, TokenAccounting, SlotTokens
      <4> QED BY <1>0, <4>1, <4>2, <4>3, PCounts, CCounts
    <3> QED BY <3>1, <3>2
  <2> QED BY <1>0, <2>1, <2>2, <2>3
<1>2. ASSUME NEW c \in Tids, Consumer(c)
      PROVE  OtherKind'
  <2>1. /\ UNCHANGED <<nitems, nproducers, nconsumers, nput, ppc>> /\ nconsumers > 0
        /\ \A d \in Tids : d # c => cpc'[d] = cpc[d]
    BY <1>0, <1>2, ConsumerFrame, SomeOfKind
  <2>2. /\ nget' \in Nat /\ nget' >= nget
        /\ cpc'[c] \in {"quit_nstored", "quit_mutex", "returned"} => nget' >= nitems
    BY <1>0, <1>2 DEF Consumer, ConsumerWait, ConsumerTest, ConsumerFetch, ConsumerAdvance,
       ConsumerPost, ConsumerCount, ConsumerQuit, CGoto, ring
  <2>3. CASE nproducers > 0
    BY <1>0, <2>1, <2>2, <2>3
  <2>4. CASE ~(nproducers > 0)
    <3>1. cpc[c] = "wait_nstored" /\ sem["nstored"] > 0
      BY <1>0, <1>2, <2>4, ConsumerFrame DEF Consumer, ConsumerWait, ConsumerTest,
         ConsumerFetch, ConsumerAdvance, ConsumerPost, ConsumerCount, ConsumerQuit, CGoto, SemWait
    <3>2. sem["nstored"] + C(CTaking) + P(PStoring) = (nput - nget) + P(PQuitting)
      BY DEF IInv, TokenAccounting, ItemTokens
    <3>3. nput = 0
      BY <1>0, <2>4
    <3>4. P(PQuitting) > 0
      BY <1>0, <3>1, <3>2, <3>3, PCounts, CCounts
    <3>5. PICK p \in Tids : ppc[p] \in PQuitting
      BY <3>4, CountPositive DEF P
    <3>6. nproducers > 0
      BY <1>0, <3>5, SomeOfKind, PSets
    <3> QED BY <2>4, <3>6
  <2> QED BY <2>3, <2>4
<1>3. CASE Main
  <2>1. UNCHANGED <<nitems, nproducers, nconsumers, nput, nget>>
    BY <1>3 DEF Main, CreateProducer, CreateConsumer, Join, NextLoop, args, ring
  <2>2. /\ \A p \in Tids : ppc'[p] = ppc[p] \/ ppc'[p] = "wait_nempty"
        /\ \A c \in Tids : cpc'[c] = cpc[c] \/ cpc'[c] = "wait_nstored"
    BY <1>0, <1>3 DEF Main, CreateProducer, CreateConsumer, Join, NextLoop, PGoto, CGoto,
       producers, consumers
  <2> QED BY <1>0, <2>1, <2>2, PSets
<1> QED BY <1>1, <1>2, <1>3 DEF Next

\* A round that a thread counts is one more of those counted.
LEMMA CountRound ==
  ASSUME NEW f \in [Tids -> Nat], NEW g, NEW t \in Tids, g = [f EXCEPT ![t] = f[t] + 1],
         IsFiniteSet(Counted(f))
  PROVE  /\ IsFiniteSet(Counted(g))
         /\ Cardinality(Counted(g)) = Cardinality(Counted(f)) + 1
<1>1. EndsRound(Tids, f, g, t)
  BY DEF EndsRound
<1>2. Counted(f) = Rounds(Tids, f) /\ Counted(g) = Rounds(Tids, g)
  BY DEF Counted, Rounds
<1> QED BY <1>1, <1>2, RoundsStep

\* A producer's step and the sum of the producers' counts.
LEMMA ProducerSums ==
  ASSUME TypeOK, Sums, NEW p \in Tids, Producer(p)
  PROVE  Sums'
<1>0. /\ nput \in Nat /\ nget \in Nat /\ ppc \in [Tids -> PLabels]
      /\ prodcount \in [Tids -> Nat] /\ P(PUncounted) \in Nat /\ C(CUncounted) \in Nat
      /\ IsFiniteSet(Counted(prodcount)) /\ Cardinality(Counted(prodcount)) \in Nat
  BY CountType, FS_CardinalityType DEF TypeOK, P, C, Sums
<1>1. /\ UNCHANGED <<nget, cpc, conscount>> /\ ppc[p] # "unborn" /\ ppc'[p] # "unborn"
      /\ \A q \in Tids : q # p => ppc'[q] = ppc[q]
  BY <1>0, ProducerFrame
<1>2. C(CUncounted)' = C(CUncounted) /\ Counted(conscount)' = Counted(conscount)
  BY <1>1, CStay DEF Counted
<1>3. \A l : l \in PUncounted <=> l = "post_mutex" \/ l = "post_nstored" \/ l = "count"
  BY DEF PUncounted
<1>4. ASSUME NEW from, NEW to, PGoto(p, from, to)
      PROVE  P(PUncounted)' = P(PUncounted) - Member(from, PUncounted) + Member(to, PUncounted)
  BY <1>4, PMove
<1>5. CASE ProducerCount(p)
  <2>1. /\ PGoto(p, "count", "wait_nempty") /\ nput' = nput
        /\ prodcount' = [prodcount EXCEPT ![p] = prodcount[p] + 1]
    BY <1>5 DEF ProducerCount, ring
  <2>2. P(PUncounted)' = P(PUncounted) - 1
    BY <1>0, <1>3, <1>4, <2>1 DEF Member
  <2>3. /\ IsFiniteSet(Counted(prodcount)')
        /\ Cardinality(Counted(prodcount)') = Cardinality(Counted(prodcount)) + 1
    <3>1. /\ IsFiniteSet(Counted(prodcount'))
          /\ Cardinality(Counted(prodcount')) = Cardinality(Counted(prodcount)) + 1
      BY <1>0, <2>1, CountRound
    <3> QED BY <3>1 DEF Counted
  <2>4. \A q \in Tids : q # p => prodcount'[q] = prodcount[q]
    BY <1>0, <2>1
  <2> QED BY <1>0, <1>1, <1>2, <2>1, <2>2, <2>3, <2>4 DEF Sums
<1>6. CASE ~ProducerCount(p)
  <2>1. UNCHANGED prodcount
    BY <1>6 DEF Producer, ProducerWait, ProducerTest, ProducerStore, ProducerAdvance,
       ProducerPost, ProducerQuit
  <2>2. Counted(prodcount)' = Counted(prodcount)
    BY <2>1 DEF Counted
  <2>3. nput' - nput = P(PUncounted)' - P(PUncounted) /\ nput' \in Nat /\ P(PUncounted)' \in Nat
    BY <1>0, <1>3, <1>4, <1>6 DEF Producer, ProducerWait, ProducerTest, ProducerStore,
       ProducerAdvance, ProducerPost, ProducerQuit, Member, ring
  <2> QED BY <1>0, <1>1, <1>2, <2>1, <2>2, <2>3 DEF Sums
<1> QED BY <1>5, <1>6

\* A consumer's step and the sum of the consumers' counts.
LEMMA ConsumerSums ==
  ASSUME TypeOK, Sums, NEW c \in Tids, Consumer(c)
  PROVE  Sums'
<1>0. /\ nput \in Nat /\ nget \in Nat /\ cpc \in [Tids -> CLabels]
      /\ conscount \in [Tids -> Nat] /\ P(PUncounted) \in Nat /\ C(CUncounted) \in Nat
      /\ IsFiniteSet(Counted(conscount)) /\ Cardinality(Counted(conscount)) \in Nat
  BY CountType, FS_CardinalityType DEF TypeOK, P, C, Sums
<1>1. /\ UNCHANGED <<nput, ppc, prodcount>> /\ cpc[c] # "unborn" /\ cpc'[c] # "unborn"
      /\ \A d \in Tids : d # c => cpc'[d] = cpc[d]
  BY <1>0, ConsumerFrame
<1>2. P(PUncounted)' = P(PUncounted) /\ Counted(prodcount)' = Counted(prodcount)
  BY <1>1, PStay DEF Counted
<1>3. \A l : l \in CUncounted <=> l = "post_mutex" \/ l = "post_nempty" \/ l = "count"
  BY DEF CUncounted
<1>4. ASSUME NEW from, NEW to, CGoto(c, from, to)
      PROVE  C(CUncounted)' = C(CUncounted) - Member(from, CUncounted) + Member(to, CUncounted)
  BY <1>4, CMove
<1>5. CASE ConsumerCount(c)
  <2>1. /\ CGoto(c, "count", "wait_nstored") /\ nget' = nget
        /\ conscount' = [conscount EXCEPT ![c] = conscount[c] + 1]
    BY <1>5 DEF ConsumerCount, ring
  <2>2. C(CUncounted)' = C(CUncounted) - 1
    BY <1>0, <1>3, <1>4, <2>1 DEF Member
  <2>3. /\ IsFiniteSet(Counted(conscount)')
        /\ Cardinality(Counted(conscount)') = Cardinality(Counted(conscount)) + 1
    <3>1. /\ IsFiniteSet(Counted(conscount'))
          /\ Cardinality(Counted(conscount')) = Cardinality(Counted(conscount)) + 1
      BY <1>0, <2>1, CountRound
    <3> QED BY <3>1 DEF Counted
  <2>4. \A d \in Tids : d # c => conscount'[d] = conscount[d]
    BY <1>0, <2>1
  <2> QED BY <1>0, <1>1, <1>2, <2>1, <2>2, <2>3, <2>4 DEF Sums
<1>6. CASE ~ConsumerCount(c)
  <2>1. UNCHANGED conscount
    BY <1>6 DEF Consumer, ConsumerWait, ConsumerTest, ConsumerFetch, ConsumerAdvance,
       ConsumerPost, ConsumerQuit
  <2>2. Counted(conscount)' = Counted(conscount)
    BY <2>1 DEF Counted
  <2>3. nget' - nget = C(CUncounted)' - C(CUncounted) /\ nget' \in Nat /\ C(CUncounted)' \in Nat
    BY <1>0, <1>3, <1>4, <1>6 DEF Consumer, ConsumerWait, ConsumerTest, ConsumerFetch,
       ConsumerAdvance, ConsumerPost, ConsumerQuit, Member, ring
  <2> QED BY <1>0, <1>1, <1>2, <2>1, <2>2, <2>3 DEF Sums
<1> QED BY <1>5, <1>6

\* Creating a thread sets a count to zero that is zero.
LEMMA MainSums ==
  ASSUME TypeOK, Sums, Main
  PROVE  Sums'
<1>0. /\ ppc \in [Tids -> PLabels] /\ cpc \in [Tids -> CLabels]
      /\ prodcount \in [Tids -> Nat] /\ conscount \in [Tids -> Nat]
      /\ P(PUncounted) \in Nat /\ C(CUncounted) \in Nat
  BY CountType DEF TypeOK, P, C
<1>1. /\ UNCHANGED <<nput, nget, prodcount, conscount>>
      /\ \A p \in Tids : ppc'[p] = "unborn" => ppc[p] = "unborn"
      /\ \A c \in Tids : cpc'[c] = "unborn" => cpc[c] = "unborn"
  <2>1. CASE CreateProducer
    <3>1. i \in Tids /\ ppc[i] = "unborn"
      BY <2>1, CreatedTid DEF CreateProducer, PGoto
    <3>2. prodcount' = prodcount
      BY <1>0, <2>1, <3>1 DEF CreateProducer, Sums
    <3> QED BY <1>0, <2>1, <3>1, <3>2 DEF CreateProducer, PGoto, consumers, ring
  <2>2. CASE CreateConsumer
    <3>1. i \in Tids /\ cpc[i] = "unborn"
      BY <2>2, CreatedTid DEF CreateConsumer, CGoto
    <3>2. conscount' = conscount
      BY <1>0, <2>2, <3>1 DEF CreateConsumer, Sums
    <3> QED BY <1>0, <2>2, <3>1, <3>2 DEF CreateConsumer, CGoto, producers, ring
  <2>3. CASE Join \/ NextLoop
    BY <2>3 DEF Join, NextLoop, producers, consumers, ring
  <2> QED BY <2>1, <2>2, <2>3 DEF Main
<1>2. P(PUncounted)' = P(PUncounted) /\ C(CUncounted)' = C(CUncounted)
  <2>1. CASE CreateProducer
    <3>1. i \in Tids /\ PGoto(i, "unborn", "wait_nempty") /\ UNCHANGED cpc
      BY <2>1, CreatedTid DEF CreateProducer, consumers
    <3>2. P(PUncounted)' = P(PUncounted) - Member("unborn", PUncounted)
                             + Member("wait_nempty", PUncounted)
      BY <3>1, PMove
    <3> QED BY <1>0, <3>1, <3>2, CStay DEF Member, PUncounted
  <2>2. CASE CreateConsumer
    <3>1. i \in Tids /\ CGoto(i, "unborn", "wait_nstored") /\ UNCHANGED ppc
      BY <2>2, CreatedTid DEF CreateConsumer, producers
    <3>2. C(CUncounted)' = C(CUncounted) - Member("unborn", CUncounted)
                             + Member("wait_nstored", CUncounted)
      BY <3>1, CMove
    <3> QED BY <1>0, <3>1, <3>2, PStay DEF Member, CUncounted
  <2>3. CASE Join \/ NextLoop
    BY <2>3, PStay, CStay DEF Join, NextLoop, producers, consumers
  <2> QED BY <2>1, <2>2, <2>3 DEF Main
<1>3. Counted(prodcount)' = Counted(prodcount) /\ Counted(conscount)' = Counted(conscount)
  BY <1>1 DEF Counted
<1> QED BY <1>1, <1>2, <1>3 DEF Sums

\* At the start nothing is created, put or counted.
LEMMA InitFinal == Init => FinalInv
<1> SUFFICES ASSUME Init PROVE FinalInv
  OBVIOUS
<1>1. /\ nproducers \in Int /\ nconsumers \in Int /\ nput = 0 /\ nget = 0 /\ i = 0
      /\ main = "create_p" /\ ppc = [p \in Tids |-> "unborn"] /\ cpc = [c \in Tids |-> "unborn"]
      /\ prodcount = [p \in Tids |-> 0] /\ conscount = [c \in Tids |-> 0]
  BY InitType DEF Init, TypeOK
<1>2. Threaded
  BY <1>1 DEF Threaded, Tids
<1>3. OtherKind
  BY <1>1, PSets DEF OtherKind
<1>4. Sums
  <2>1. P(PUncounted) = 0 /\ C(CUncounted) = 0
    BY <1>1, CountType, CountPositive DEF P, C, PUncounted, CUncounted
  <2>2. /\ Counted(prodcount) = Rounds(Tids, prodcount)
        /\ Counted(conscount) = Rounds(Tids, conscount)
    BY DEF Counted, Rounds
  <2> QED BY <1>1, <2>1, <2>2, RoundsInit DEF Sums
<1> QED BY <1>2, <1>3, <1>4 DEF FinalInv

\* Every step, and stuttering, keeps what the final counts rest on.
LEMMA NextFinal ==
  ASSUME Stale = {}, IInv, FinalInv, [Next]_vars
  PROVE  FinalInv'
<1>1. CASE Next
  <2>1. Threaded' /\ OtherKind'
    BY <1>1, ThreadedKept, OtherKindKept DEF FinalInv, IInv
  <2>2. Sums'
    BY <1>1, ProducerSums, ConsumerSums, MainSums DEF FinalInv, IInv, Next
  <2> QED BY <2>1, <2>2 DEF FinalInv
<1>2. CASE UNCHANGED vars
  BY <1>2 DEF vars, args, ring, producers, consumers, mainvars, FinalInv, Threaded, OtherKind,
     Sums, Counted, P, C, Count
<1> QED BY <1>1, <1>2

\* When the program exits, the counts add up.
LEMMA AtExit ==
  ASSUME IInv, FinalInv, main = "exit"
  PROVE  /\ Completes
         /\ Cardinality(Counted(prodcount)) = nput /\ Cardinality(Counted(conscount)) = nget
         /\ nproducers > 0 => nput = (IF nitems > 0 THEN nitems ELSE 0)
         /\ nconsumers > 0 => nget = nput
<1>1. /\ Threaded /\ OtherKind /\ Sums /\ InStep /\ TestsHold
      /\ nproducers \in Int /\ nconsumers \in Int /\ nitems \in Int
      /\ nput \in Nat /\ nget \in Nat /\ NBUFF \in Nat
      /\ Cardinality(Counted(prodcount)) \in Nat /\ Cardinality(Counted(conscount)) \in Nat
  BY NBUFFAssumption, FS_CardinalityType DEF IInv, TypeOK, FinalInv, Sums
<1>2. \A t \in Tids : ppc[t] \in {"unborn", "returned"} /\ cpc[t] \in {"unborn", "returned"}
  BY <1>1 DEF Threaded, Tids
<1>3. P(PUncounted) = 0 /\ C(CUncounted) = 0
  BY <1>2, CountType, CountPositive DEF P, C, PUncounted, CUncounted
<1>4. 0 \in Tids
  BY ThreadsAssumption DEF Tids
<1>5. ASSUME nproducers > 0
      PROVE  ppc[0] = "returned" /\ nput >= nitems
  BY <1>1, <1>4, <1>5, PSets DEF Threaded, TestsHold
<1>6. ASSUME nconsumers > 0
      PROVE  nget >= nitems /\ nproducers > 0
  BY <1>1, <1>4, <1>6 DEF Threaded, OtherKind
<1>7. Completes
  <2>1. CASE nproducers > 0 /\ ~(nconsumers > 0)
    <3>1. nput < NBUFF /\ nput >= nitems
      BY <1>1, <1>4, <1>5, <2>1, PSets DEF OtherKind
    <3> QED BY <1>1, <2>1, <3>1 DEF Completes
  <2> QED BY <1>1, <1>6, <2>1 DEF Completes
<1> QED BY <1>1, <1>3, <1>5, <1>6, <1>7 DEF Sums, InStep

\* When the program exits, every item has been produced once and consumed once,
\* the counts it has printed add up to that, and no thread is left blocked: for
\* every number of items and threads of either kind.
THEOREM FinalCounts ==
  ASSUME Stale = {}
  PROVE  Spec => []CountsAddUp
<1>1. Init => IInv /\ FinalInv
  BY InitIInv, InitFinal
<1>2. IInv /\ FinalInv /\ [Next]_vars => (IInv /\ FinalInv)'
  BY NextIInv, NextFinal
<1>3. IInv /\ FinalInv => CountsAddUp
  BY AtExit DEF CountsAddUp
<1> QED BY <1>1, <1>2, <1>3, PTL DEF Spec
=============================================================================
