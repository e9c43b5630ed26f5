----------------------- MODULE SemSingleConsumerProofs -----------------------
(***************************************************************************)
(* Proofs about SemSingleConsumer, for both programs, every NBUFF and      *)
(* every number of producers and of items.                                 *)
(***************************************************************************)
EXTENDS SemSingleConsumer, Counting

\* The threads created and joined so far, and that only they run.
Threaded ==
  /\ main = "create_p" => i = 0 \/ i =< nproducers
  /\ \A p \in Tids : ppc[p] = "unborn" <=> p >= (IF main = "create_p" THEN i ELSE nproducers)
  /\ cpc = "unborn" <=> main = "create_p"
  /\ main = "join_p" => \A p \in Tids : p < i => ppc[p] = "returned"
  /\ main = "exit" => /\ \A p \in Tids : p < nproducers => ppc[p] = "returned"
                      /\ cpc = "returned"

\* produce_1 runs alone, has no code for the shared index, and its own starts at
\* 0; produce_2 keeps index and value the same, and may run in no copy at all.
OfTest ==
  /\ test = 1 => /\ nproducers = 1
                 /\ \A p \in Tids : ppc[p] \notin {"test", "advance", "quit_nempty", "quit_mutex"}
                 /\ nput = 0 \/ \E p \in Tids : ppc[p] # "unborn"
  /\ test = 2 => nputval = nput
  /\ nproducers =< 0 => nput = 0

\* What a thread has found by a test stays true: nobody else moves nput between
\* a producer's test and its use, and nput never decreases.
InRound == {"wait_nempty", "wait_mutex", "store", "post_mutex", "post_nstored"}
PLeaving == {"quit_nempty", "quit_mutex", "returned"}
TestsHold ==
  /\ \A p \in Tids : /\ ppc[p] \in {"store", "advance"} => nput < nitems
                     /\ test = 1 /\ ppc[p] \in InRound => nput < nitems
                     /\ ppc[p] \in PLeaving => nput >= nitems
  /\ nput = 0 \/ nput =< nitems
  /\ cpc \notin {"unborn", "returned"} => ci < nitems
  /\ cpc = "returned" => ci >= nitems
  /\ cpc = "unborn" => ci = 0
  /\ ci = 0 \/ ci =< nitems

\* The places from Taken up to Added hold these items, and produce_2's next
\* place the next one before the index is advanced.
RingContents ==
  /\ \A k \in Taken .. Added - 1 : buff[k % NBUFF] = k
  /\ \A p \in Tids : ppc[p] = "advance" => buff[nput % NBUFF] = nput

\* Each item produce_2 has put is in a count, or its thread will count it.
Sums ==
  /\ IsFiniteSet(Counted(count))
  /\ test = 2 => Cardinality(Counted(count)) + P(PStoring) = nput

Tokens == MutexTokens /\ SlotTokens /\ ItemTokens

IInv == TypeOK /\ Tokens /\ Threaded /\ OfTest /\ TestsHold /\ RingContents /\ Sums

-----------------------------------------------------------------------------
(* Counting the producers at a set of labels *)

\* There are finitely many threads.
LEMMA FiniteTids == IsFiniteSet(Tids)
BY FS_Interval, ThreadsAssumption DEF Tids

\* P is the number of Counting, a natural number.
LEMMA PType ==
  ASSUME NEW L
  PROVE  P(L) = Number(Tids, ppc, L) /\ P(L) \in Nat
<1>1. P(L) = Number(Tids, ppc, L)
  BY DEF P, Number, Those
<1> QED BY <1>1, FiniteTids, NumberType

\* It is positive exactly when some producer is there.
LEMMA PPositive ==
  ASSUME NEW L
  PROVE  P(L) > 0 <=> \E p \in Tids : ppc[p] \in L
BY FiniteTids, PType, NumberPositive

\* What a move of a producer does to a number.
LEMMA PMove ==
  ASSUME TypeOK, NEW p \in Tids, NEW from, NEW to, PGoto(p, from, to), NEW L
  PROVE  P(L)' = P(L) - Member(from, L) + Member(to, L)
<1>1. Moves(Tids, ppc, ppc', p, from, to)
  BY DEF TypeOK, PGoto, Moves
<1>2. Number(Tids, ppc', L) = Number(Tids, ppc, L) - Member(from, L) + Member(to, L)
  BY <1>1, NumberMove, FiniteTids
<1>3. P(L)' = Number(Tids, ppc', L) /\ P(L) = Number(Tids, ppc, L)
  BY DEF P, Number, Those
<1> QED BY <1>2, <1>3

\* Producers that do not move do not change a number.
LEMMA PStay == ASSUME UNCHANGED ppc, NEW L PROVE P(L)' = P(L)
BY DEF P

\* What a move of the consumer does to its count.
LEMMA CMove ==
  ASSUME NEW from, NEW to, CGoto(from, to), NEW L
  PROVE  C(L) = Member(from, L) /\ C(L)' = Member(to, L)
BY DEF C, CGoto, Member

\* A consumer that does not move does not change its count.
LEMMA CStay == ASSUME UNCHANGED cpc, NEW L PROVE C(L)' = C(L)
BY DEF C

\* Its count is none or one.
LEMMA CType == ASSUME NEW L PROVE C(L) \in 0 .. 1
BY DEF C

\* Which labels the sets of the accounts hold, the sets left unexpanded.
LEMMA PSets ==
  /\ \A l : l \in PHolding <=> \/ l = "test" \/ l = "store" \/ l = "advance"
                               \/ l = "post_mutex" \/ l = "quit_nempty" \/ l = "quit_mutex"
  /\ \A l : l \in PClaiming <=> \/ l = "wait_mutex" \/ l = "test" \/ l = "store"
                                \/ l = "advance" \/ l = "quit_nempty"
  /\ \A l : l \in PStoring <=> l = "post_mutex" \/ l = "post_nstored"
  /\ \A l : l \in InRound <=> \/ l = "wait_nempty" \/ l = "wait_mutex" \/ l = "store"
                              \/ l = "post_mutex" \/ l = "post_nstored"
  /\ \A l : l \in PLeaving <=> l = "quit_nempty" \/ l = "quit_mutex" \/ l = "returned"
BY DEF PHolding, PClaiming, PStoring, InRound, PLeaving

\* The same for the consumer.
LEMMA CSets ==
  /\ \A l : l \in CHolding <=> l = "compare" \/ l = "post_mutex"
  /\ \A l : l \in CFreeing <=> l = "post_mutex" \/ l = "post_nempty"
  /\ \A l : l \in CTaking <=> l = "wait_mutex" \/ l = "compare"
BY DEF CHolding, CFreeing, CTaking

-----------------------------------------------------------------------------
(* Type correctness *)

\* SemWait and SemPost leave natural numbers in the semaphores.
LEMMA SemType ==
  ASSUME sem \in [SemNames -> Nat], NEW s \in SemNames, SemWait(s) \/ SemPost(s)
  PROVE  sem' \in [SemNames -> Nat]
BY DEF SemWait, SemPost

\* The index of a producer being created is that of a thread.
LEMMA CreatedTid ==
  ASSUME TypeOK, CreateProducer
  PROVE  i \in Tids
BY ThreadsAssumption DEF TypeOK, CreateProducer, Tids

\* Every step, and stuttering, keeps the types.
LEMMA NextType == TypeOK /\ [Next]_vars => TypeOK'
<1> SUFFICES ASSUME TypeOK, [Next]_vars PROVE TypeOK'
  OBVIOUS
<1> USE DEF TypeOK, PGoto, CGoto, OnlyProducer, args, ring, producers, consumer, mainvars
<1>0. {"mutex", "nempty", "nstored"} \subseteq SemNames
  BY DEF SemNames
<1>1. ASSUME NEW k PROVE PLoop(k) \in PLabels /\ CLoop(k) \in CLabels
  BY DEF PLoop, CLoop, PLabels, CLabels
<1>2. ASSUME NEW p \in Tids, ProducerWait(p) PROVE TypeOK'
  BY <1>0, <1>2, SemType DEF ProducerWait, PLabels
<1>3. ASSUME NEW p \in Tids, ProducerTest(p) PROVE TypeOK'
  BY <1>3 DEF ProducerTest, PLabels
<1>4. ASSUME NEW p \in Tids, ProducerStore(p) PROVE TypeOK'
  <2>1. nput % NBUFF \in 0 .. NBUFF - 1
    BY ModRange, NBUFFAssumption
  <2> QED BY <1>4, <2>1 DEF ProducerStore, PLabels
<1>5. ASSUME NEW p \in Tids, ProducerAdvance(p) PROVE TypeOK'
  BY <1>5 DEF ProducerAdvance, PLabels
<1>6. ASSUME NEW p \in Tids, ProducerPost(p) PROVE TypeOK'
  <2>1. ppc' \in [Tids -> PLabels]
    <3>1. {"wait_nempty", "post_nstored"} \subseteq PLabels
      BY DEF PLabels
    <3> QED BY <1>1, <1>6, <3>1 DEF ProducerPost
  <2>2. sem' \in [SemNames -> Nat]
    BY <1>0, <1>6, SemType DEF ProducerPost
  <2> QED BY <1>6, <2>1, <2>2 DEF ProducerPost
<1>7. ASSUME NEW p \in Tids, ProducerQuit(p) PROVE TypeOK'
  BY <1>0, <1>7, SemType DEF ProducerQuit, PLabels
<1>8. CASE ConsumerStep
  BY <1>0, <1>8, SemType DEF ConsumerStep, CLabels
<1>9. CASE ConsumerRound
  <2>1. cpc' \in CLabels
    BY <1>1, <1>9 DEF ConsumerRound
  <2> QED BY <1>0, <1>9, <2>1, SemType DEF ConsumerRound
<1>10. CASE Main
  <2>1. CASE CreateProducer
    BY <1>1, <2>1, CreatedTid DEF CreateProducer
  <2>2. CASE CreateConsumer
    BY <1>1, <2>2 DEF CreateConsumer
  <2>3. CASE Join
    BY <2>3 DEF Join
  <2> QED BY <1>10, <2>1, <2>2, <2>3 DEF Main
<1>11. CASE UNCHANGED vars
  BY <1>11 DEF vars
<1> QED BY <1>2, <1>3, <1>4, <1>5, <1>6, <1>7, <1>8, <1>9, <1>10, <1>11
        DEF Next, Producer

\* The program starts well typed.
LEMMA InitType == Init => TypeOK
<1> SUFFICES ASSUME Init PROVE TypeOK
  OBVIOUS
<1>1. nproducers \in Int /\ nproducers =< MAXNTHREADS
  <2>1. CASE test = 1
    BY <2>1, ThreadsAssumption DEF Init
  <2>2. CASE test = 2
    BY <2>2, ThreadsAssumption DEF Init, Min2
  <2> QED BY <2>1, <2>2 DEF Init
<1>2. sem \in [SemNames -> Nat] /\ nitems \in Int
  BY NBUFFAssumption, ItemsAssumption DEF Init, SemNames
<1> QED BY <1>1, <1>2, NBUFFAssumption DEF Init, TypeOK, PLabels, CLabels

\* produce_1, produce_2 and their consumer never leave their code, and no
\* semaphore of theirs falls below zero.
THEOREM TypeCorrect == Spec => []TypeOK
BY InitType, NextType, PTL DEF Spec

-----------------------------------------------------------------------------
(* Accounting of the semaphores' tokens *)

\* The five counts are numbers.
LEMMA Counts ==
  /\ P(PHolding) \in Nat /\ P(PClaiming) \in Nat /\ P(PStoring) \in Nat
  /\ C(CHolding) \in 0 .. 1 /\ C(CFreeing) \in 0 .. 1 /\ C(CTaking) \in 0 .. 1
BY PType, CType

\* What the accounts are made of.
LEMMA Numbers ==
  ASSUME TypeOK
  PROVE  /\ sem["mutex"] \in Nat /\ sem["nempty"] \in Nat /\ sem["nstored"] \in Nat
         /\ nput \in Nat /\ ci \in Nat /\ nitems \in Int /\ NBUFF \in Nat \ {0}
         /\ Added \in Nat /\ Taken \in Nat
BY Counts, NBUFFAssumption DEF TypeOK, SemNames, Added, Taken, PStoring, CFreeing

\* Added and Taken in terms of the counts.
LEMMA Accounts ==
  /\ Added = IF test = 1 THEN nput + P(PStoring) ELSE nput
  /\ Taken = ci + C(CFreeing)
  /\ Added' = IF test' = 1 THEN nput' + P(PStoring)' ELSE nput'
  /\ Taken' = ci' + C(CFreeing)'
BY DEF Added, Taken, PStoring, CFreeing

\* What a step adds to the three semaphores, and to the three counts.
SemMoves(m, e, n) ==
  sem'["mutex"] = sem["mutex"] + m /\ sem'["nempty"] = sem["nempty"] + e
    /\ sem'["nstored"] = sem["nstored"] + n
PMoves(h, c, s) ==
  P(PHolding)' = P(PHolding) + h /\ P(PClaiming)' = P(PClaiming) + c
    /\ P(PStoring)' = P(PStoring) + s

\* A semaphore call changes one semaphore by one.
LEMMA SemCall ==
  ASSUME TypeOK
  PROVE  /\ SemWait("mutex") => SemMoves(-1, 0, 0)
         /\ SemWait("nempty") => SemMoves(0, -1, 0)
         /\ SemPost("mutex") => SemMoves(1, 0, 0)
         /\ SemPost("nempty") => SemMoves(0, 1, 0)
         /\ SemPost("nstored") => SemMoves(0, 0, 1)
         /\ UNCHANGED sem => SemMoves(0, 0, 0)
BY DEF TypeOK, SemNames, SemWait, SemPost, SemMoves

\* The accounts stay right when a producer's move and its semaphore call match.
LEMMA Balance ==
  ASSUME TypeOK, Tokens, UNCHANGED <<cpc, ci>>,
         NEW h \in -1 .. 1, NEW c \in -1 .. 1, NEW s \in -1 .. 1,
         NEW m \in -1 .. 1, NEW e \in -1 .. 1, NEW n \in -1 .. 1, NEW a \in 0 .. 1,
         PMoves(h, c, s), SemMoves(m, e, n), Added' = Added + a,
         m + h = 0, e + c + a = 0, n + s = a
  PROVE  Tokens'
<1>1. /\ C(CHolding)' = C(CHolding) /\ C(CFreeing)' = C(CFreeing)
      /\ C(CTaking)' = C(CTaking)
  BY CStay
<1>2. Taken' = Taken
  BY <1>1, Accounts
<1>3. /\ sem["mutex"] \in Nat /\ sem["nempty"] \in Nat /\ sem["nstored"] \in Nat
      /\ Added \in Nat /\ Taken \in Nat /\ NBUFF \in Nat
  BY Numbers
<1> USE <1>3, Counts DEF PMoves, SemMoves
<1>4. MutexTokens'
  BY <1>1 DEF Tokens, MutexTokens
<1>5. SlotTokens'
  BY <1>1, <1>2 DEF Tokens, SlotTokens
<1>6. ItemTokens'
  BY <1>1, <1>2 DEF Tokens, ItemTokens
<1> QED BY <1>4, <1>5, <1>6 DEF Tokens

\* Where a round of a producer begins, or it has returned.
LEMMA PLoopLabel == \A k : PLoop(k) = "wait_nempty" \/ PLoop(k) = "returned"
BY DEF PLoop

\* A step of a producer keeps the accounts.
LEMMA ProducerTokens ==
  ASSUME TypeOK, Tokens, OfTest, NEW p \in Tids, Producer(p)
  PROVE  Tokens'
<1>0. test = 1 => ~PGoto(p, "advance", "post_mutex")
  BY DEF OfTest, PGoto
<1>1. UNCHANGED <<test, cpc, ci>> /\ nput \in Nat /\ P(PStoring) \in Nat
  BY Counts, Numbers DEF Producer, ProducerWait, ProducerTest, ProducerStore, ProducerAdvance,
     ProducerPost, ProducerQuit, OnlyProducer, consumer, args
<1>2. ASSUME NEW from, NEW to, PGoto(p, from, to)
      PROVE  PMoves(Member(to, PHolding) - Member(from, PHolding),
                    Member(to, PClaiming) - Member(from, PClaiming),
                    Member(to, PStoring) - Member(from, PStoring))
  <2>1. ASSUME NEW L PROVE P(L) \in Nat /\ Member(from, L) \in Nat /\ Member(to, L) \in Nat
    BY PType DEF Member
  <2>2. /\ P(PHolding)' = P(PHolding) - Member(from, PHolding) + Member(to, PHolding)
        /\ P(PClaiming)' = P(PClaiming) - Member(from, PClaiming) + Member(to, PClaiming)
        /\ P(PStoring)' = P(PStoring) - Member(from, PStoring) + Member(to, PStoring)
    BY <1>2, PMove
  <2> QED BY <2>1, <2>2 DEF PMoves
<1>3. ASSUME NEW s \in -1 .. 1, NEW a \in 0 .. 1, P(PStoring)' = P(PStoring) + s,
             IF test = 1 THEN nput' = nput + a - s ELSE nput' = nput + a
      PROVE  Added' = Added + a
  BY <1>1, <1>3, Accounts
<1> USE DEF Member, PMoves
<1>4. CASE ProducerWait(p)
  <2>1. CASE PGoto(p, "wait_nempty", "wait_mutex") /\ SemWait("nempty")
    <3>1. PMoves(0, 1, 0) /\ SemMoves(0, -1, 0)
      BY <1>2, <2>1, PSets, SemCall
    <3>2. Added' = Added + 0
      BY <1>1, <1>3, <1>4, <2>1, <3>1 DEF ProducerWait, ring
    <3> QED BY <1>1, <3>1, <3>2, Balance
  <2>2. CASE PGoto(p, "wait_mutex", IF test = 1 THEN "store" ELSE "test") /\ SemWait("mutex")
    <3>1. PMoves(1, 0, 0) /\ SemMoves(-1, 0, 0)
      BY <1>2, <2>2, PSets, SemCall
    <3>2. Added' = Added + 0
      BY <1>1, <1>3, <1>4, <2>2, <3>1 DEF ProducerWait, ring
    <3> QED BY <1>1, <3>1, <3>2, Balance
  <2> QED BY <1>4, <2>1, <2>2 DEF ProducerWait
<1>5. CASE ProducerTest(p)
  <2>1. PMoves(0, 0, 0) /\ SemMoves(0, 0, 0)
    BY <1>2, <1>5, PSets, SemCall DEF ProducerTest
  <2>2. Added' = Added + 0
    BY <1>1, <1>3, <1>5, <2>1 DEF ProducerTest, ring
  <2> QED BY <1>1, <2>1, <2>2, Balance
<1>6. CASE ProducerStore(p)
  <2>1. CASE test = 1 /\ PGoto(p, "store", "post_mutex") /\ UNCHANGED sem
    <3>1. PMoves(0, -1, 1) /\ SemMoves(0, 0, 0)
      BY <1>2, <2>1, PSets, SemCall
    <3>2. Added' = Added + 1
      BY <1>1, <1>3, <1>6, <2>1, <3>1 DEF ProducerStore, ring
    <3> QED BY <1>1, <3>1, <3>2, Balance
  <2>2. CASE test # 1 /\ PGoto(p, "store", "advance") /\ UNCHANGED sem
    <3>1. PMoves(0, 0, 0) /\ SemMoves(0, 0, 0)
      BY <1>2, <2>2, PSets, SemCall
    <3>2. Added' = Added + 0
      BY <1>1, <1>3, <1>6, <2>2, <3>1 DEF ProducerStore, ring
    <3> QED BY <1>1, <3>1, <3>2, Balance
  <2> QED BY <1>6, <2>1, <2>2 DEF ProducerStore
<1>7. CASE ProducerAdvance(p)
  <2>1. PMoves(0, -1, 1) /\ SemMoves(0, 0, 0)
    BY <1>2, <1>7, PSets, SemCall DEF ProducerAdvance
  <2>2. Added' = Added + 1
    BY <1>1, <1>3, <1>7, <2>1, <1>0 DEF ProducerAdvance, ring
  <2> QED BY <1>1, <2>1, <2>2, Balance
<1>8. CASE ProducerPost(p)
  <2>1. CASE PGoto(p, "post_mutex", "post_nstored") /\ SemPost("mutex") /\ nput' = nput
    <3>1. PMoves(-1, 0, 0) /\ SemMoves(1, 0, 0)
      BY <1>2, <2>1, PSets, SemCall
    <3>2. Added' = Added + 0
      BY <1>1, <1>3, <1>8, <2>1, <3>1 DEF ProducerPost, ring
    <3> QED BY <1>1, <3>1, <3>2, Balance
  <2>2. CASE test = 1 /\ PGoto(p, "post_nstored", PLoop(nput + 1)) /\ SemPost("nstored") /\ nput' = nput + 1
    <3>1. PMoves(0, 0, -1) /\ SemMoves(0, 0, 1)
      BY <1>2, <2>2, PSets, SemCall, PLoopLabel
    <3>2. Added' = Added + 0
      BY <1>1, <1>3, <1>8, <2>2, <3>1 DEF ProducerPost, ring
    <3> QED BY <1>1, <3>1, <3>2, Balance
  <2>3. CASE test = 2 /\ PGoto(p, "post_nstored", "wait_nempty") /\ SemPost("nstored") /\ nput' = nput
    <3>1. PMoves(0, 0, -1) /\ SemMoves(0, 0, 1)
      BY <1>2, <2>3, PSets, SemCall
    <3>2. Added' = Added + 0
      BY <1>1, <1>3, <1>8, <2>3, <3>1 DEF ProducerPost, ring
    <3> QED BY <1>1, <3>1, <3>2, Balance
  <2> QED BY <1>8, <2>1, <2>2, <2>3 DEF ProducerPost, ring
<1>9. CASE ProducerQuit(p)
  <2>1. CASE PGoto(p, "quit_nempty", "quit_mutex") /\ SemPost("nempty")
    <3>1. PMoves(0, -1, 0) /\ SemMoves(0, 1, 0)
      BY <1>2, <2>1, PSets, SemCall
    <3>2. Added' = Added + 0
      BY <1>1, <1>3, <1>9, <2>1, <3>1 DEF ProducerQuit, ring
    <3> QED BY <1>1, <3>1, <3>2, Balance
  <2>2. CASE PGoto(p, "quit_mutex", "returned") /\ SemPost("mutex")
    <3>1. PMoves(-1, 0, 0) /\ SemMoves(1, 0, 0)
      BY <1>2, <2>2, PSets, SemCall
    <3>2. Added' = Added + 0
      BY <1>1, <1>3, <1>9, <2>2, <3>1 DEF ProducerQuit, ring
    <3> QED BY <1>1, <3>1, <3>2, Balance
  <2> QED BY <1>9, <2>1, <2>2 DEF ProducerQuit
<1> QED BY <1>4, <1>5, <1>6, <1>7, <1>8, <1>9 DEF Producer

\* A step of the consumer keeps the accounts.
LEMMA ConsumerTokens ==
  ASSUME TypeOK, Tokens, ConsumerStep \/ ConsumerRound
  PROVE  Tokens'
<1>0. /\ sem \in [{"mutex", "nempty", "nstored"} -> Nat]
      /\ nput \in Nat /\ ci \in Nat /\ NBUFF \in Nat /\ test \in 1 .. 2
  BY NBUFFAssumption DEF TypeOK, SemNames
<1>1. UNCHANGED <<test, nput, ppc>>
  BY DEF ConsumerStep, ConsumerRound, args, ring, producers
<1>2. /\ P(PHolding)' = P(PHolding) /\ P(PClaiming)' = P(PClaiming)
      /\ P(PStoring)' = P(PStoring)
  BY <1>1, PStay
<1>3. ASSUME NEW from, NEW to, CGoto(from, to)
      PROVE  /\ C(CHolding) = Member(from, CHolding) /\ C(CHolding)' = Member(to, CHolding)
             /\ C(CFreeing) = Member(from, CFreeing) /\ C(CFreeing)' = Member(to, CFreeing)
             /\ C(CTaking) = Member(from, CTaking) /\ C(CTaking)' = Member(to, CTaking)
  BY <1>3, CMove
<1> USE Counts, CSets, Accounts
        DEF Member, Tokens, MutexTokens, SlotTokens, ItemTokens
<1>4. CASE ConsumerStep
  BY <1>0, <1>1, <1>2, <1>3, <1>4 DEF ConsumerStep, SemWait, SemPost
<1>5. CASE ConsumerRound
  <2>1. CLoop(ci + 1) \in {"wait_nstored", "returned"}
    BY DEF CLoop
  <2> QED BY <1>0, <1>1, <1>2, <1>3, <1>5, <2>1 DEF ConsumerRound, SemPost
<1> QED BY <1>4, <1>5

\* Creating and joining threads leaves every number of the accounts alone: a
\* thread is born outside every set that counts.
LEMMA MainAccounts ==
  ASSUME TypeOK, Main
  PROVE  /\ UNCHANGED <<sem, nput, ci>> /\ Added' = Added /\ Taken' = Taken
         /\ P(PHolding)' = P(PHolding) /\ P(PClaiming)' = P(PClaiming)
         /\ P(PStoring)' = P(PStoring)
         /\ C(CHolding)' = C(CHolding) /\ C(CFreeing)' = C(CFreeing)
         /\ C(CTaking)' = C(CTaking)
<1>1. UNCHANGED <<test, sem, nput, ci>>
  BY DEF Main, CreateProducer, CreateConsumer, Join, args, ring, producers, consumer
<1>2. /\ P(PHolding)' = P(PHolding) /\ P(PClaiming)' = P(PClaiming)
      /\ P(PStoring)' = P(PStoring)
  <2>1. CASE CreateProducer
    <3>1. i \in Tids /\ PGoto(i, "unborn", PLoop(0)) /\ PLoop(0) \in {"wait_nempty", "returned"}
      BY <2>1, CreatedTid DEF CreateProducer, PLoop
    <3> QED BY <3>1, PMove, PSets, Counts DEF Member
  <2>2. CASE CreateConsumer \/ Join
    BY <2>2, PStay DEF CreateConsumer, Join, producers
  <2> QED BY <2>1, <2>2 DEF Main
<1>3. /\ C(CHolding)' = C(CHolding) /\ C(CFreeing)' = C(CFreeing)
      /\ C(CTaking)' = C(CTaking)
  <2>1. CASE CreateConsumer
    <3>1. CGoto("unborn", CLoop(0)) /\ CLoop(0) \in {"wait_nstored", "returned"}
      BY <2>1 DEF CreateConsumer, CLoop
    <3> QED BY <3>1, CMove, CSets DEF Member
  <2>2. CASE CreateProducer \/ Join
    BY <2>2, CStay DEF CreateProducer, Join, consumer
  <2> QED BY <2>1, <2>2 DEF Main
<1>4. Added' = Added /\ Taken' = Taken
  BY <1>1, <1>2, <1>3, Accounts
<1> QED BY <1>1, <1>2, <1>3, <1>4

\* So they stay right.
LEMMA MainTokens ==
  ASSUME TypeOK, Tokens, Main
  PROVE  Tokens'
BY MainAccounts DEF Tokens, MutexTokens, SlotTokens, ItemTokens

\* At the start no thread exists and the tokens are those of sem_init.
LEMMA InitTokens == Init => Tokens
<1> SUFFICES ASSUME Init PROVE Tokens
  OBVIOUS
<1>1. ASSUME NEW L, "unborn" \notin L PROVE P(L) = 0 /\ C(L) = 0
  <2>1. ~ \E p \in Tids : ppc[p] \in L
    BY <1>1 DEF Init
  <2> QED BY <1>1, <2>1, PPositive, PType DEF Init, C
<1>2. /\ P(PHolding) = 0 /\ P(PClaiming) = 0 /\ P(PStoring) = 0
      /\ C(CHolding) = 0 /\ C(CFreeing) = 0 /\ C(CTaking) = 0
  BY <1>1, PSets, CSets
<1>3. Added = 0 /\ Taken = 0
  BY <1>2, Accounts DEF Init
<1> QED BY <1>2, <1>3, NBUFFAssumption DEF Init, Tokens, MutexTokens, SlotTokens, ItemTokens

-----------------------------------------------------------------------------
(* Threads and tests *)

\* What every step of a producer leaves alone, and where it may go.
LEMMA ProducerFrame ==
  ASSUME TypeOK, NEW p \in Tids, Producer(p)
  PROVE  /\ UNCHANGED <<test, nitems, nproducers, cpc, ci, main, i>>
         /\ ppc[p] \notin {"unborn", "returned"} /\ ppc'[p] # "unborn"
         /\ \A q \in Tids : q # p => ppc'[q] = ppc[q]
<1> USE DEF PGoto, OnlyProducer, args, consumer, mainvars
<1>0. ppc \in [Tids -> PLabels]
  BY DEF TypeOK
<1>1. CASE ProducerWait(p)
  BY <1>0, <1>1 DEF ProducerWait
<1>2. CASE ProducerTest(p)
  BY <1>0, <1>2 DEF ProducerTest
<1>3. CASE ProducerStore(p)
  BY <1>0, <1>3 DEF ProducerStore
<1>4. CASE ProducerAdvance(p)
  BY <1>0, <1>4 DEF ProducerAdvance
<1>5. CASE ProducerPost(p)
  BY <1>0, <1>5, PLoopLabel DEF ProducerPost
<1>6. CASE ProducerQuit(p)
  BY <1>0, <1>6 DEF ProducerQuit
<1> QED BY <1>1, <1>2, <1>3, <1>4, <1>5, <1>6 DEF Producer

\* The same for the consumer.
LEMMA ConsumerFrame ==
  ASSUME ConsumerStep \/ ConsumerRound
  PROVE  /\ UNCHANGED <<args, ring, producers, mainvars>>
         /\ cpc \notin {"unborn", "returned"} /\ cpc' # "unborn"
BY DEF ConsumerStep, ConsumerRound, CGoto, CLoop

\* Threads are created and joined in the order of their indices.
LEMMA ThreadedKept ==
  ASSUME TypeOK, Threaded, Next
  PROVE  Threaded'
<1> USE DEF Threaded
<1>0. /\ i \in Nat /\ nproducers \in Int /\ Tids = 0 .. MAXNTHREADS - 1
      /\ MAXNTHREADS \in Nat /\ nproducers =< MAXNTHREADS /\ ppc \in [Tids -> PLabels]
  BY ThreadsAssumption DEF TypeOK, Tids
<1>1. ASSUME NEW p \in Tids, Producer(p)
      PROVE  Threaded'
  BY <1>0, <1>1, ProducerFrame
<1>2. CASE ConsumerStep \/ ConsumerRound
  BY <1>0, <1>2, ConsumerFrame DEF args, producers, mainvars
<1>3. CASE Main
  <2> USE DEF PGoto, CGoto, args, producers, consumer
  <2>1. CASE CreateProducer
    BY <1>0, <2>1, PLoopLabel DEF CreateProducer
  <2>2. CASE CreateConsumer
    BY <1>0, <2>2 DEF CreateConsumer, CLoop
  <2>3. CASE Join
    BY <1>0, <2>3 DEF Join
  <2> QED BY <1>3, <2>1, <2>2, <2>3 DEF Main
<1> QED BY <1>1, <1>2, <1>3 DEF Next

\* produce_1 is one thread.
LEMMA Sole ==
  ASSUME TypeOK, Threaded, OfTest, test = 1,
         NEW p \in Tids, NEW q \in Tids, ppc[p] # "unborn", ppc[q] # "unborn"
  PROVE  p = q
<1>1. i \in Nat /\ nproducers = 1 /\ p \in Nat /\ q \in Nat
  BY ThreadsAssumption DEF TypeOK, OfTest, Tids
<1>2. p < 1 /\ q < 1
  BY <1>1 DEF Threaded
<1> QED BY <1>1, <1>2

\* Two producers that hold the mutex are the same, and the consumer is none.
LEMMA OneHolder ==
  ASSUME TypeOK, Tokens, NEW p \in Tids, NEW q \in Tids,
         ppc[p] \in PHolding, ppc[q] \in PHolding
  PROVE  p = q
<1>1. P(PHolding) =< 1
  BY Numbers, Counts DEF Tokens, MutexTokens
<1> QED BY <1>1, PType, FiniteTids, NumberUnique

\* What each program keeps of its own stays true.
LEMMA OfTestKept ==
  ASSUME TypeOK, Threaded, OfTest, Next
  PROVE  OfTest'
<1> USE DEF OfTest
<1>0. /\ ppc \in [Tids -> PLabels] /\ nput \in Nat /\ nputval \in Nat /\ test \in 1 .. 2
      /\ nproducers \in Int /\ i \in Nat
  BY DEF TypeOK
<1>1. ASSUME NEW p \in Tids, Producer(p)
      PROVE  OfTest'
  <2>1. nproducers > 0
    BY <1>0, <1>1, ProducerFrame, ThreadsAssumption DEF Threaded, Tids
  <2>2. test = 2 => nputval' - nput' = nputval - nput /\ nput' \in Nat /\ nputval' \in Nat
    BY <1>0, <1>1 DEF Producer, ProducerWait, ProducerTest, ProducerStore, ProducerAdvance,
       ProducerPost, ProducerQuit, ring
  <2>3. test = 1 => ppc'[p] \notin {"test", "advance", "quit_nempty", "quit_mutex"}
    BY <1>0, <1>1, PLoopLabel DEF Producer, ProducerWait, ProducerTest, ProducerStore,
       ProducerAdvance, ProducerPost, ProducerQuit, PGoto
  <2> QED BY <1>0, <1>1, <2>1, <2>2, <2>3, ProducerFrame
<1>2. CASE ConsumerStep \/ ConsumerRound
  BY <1>0, <1>2, ConsumerFrame DEF args, ring, producers
<1>3. CASE Main
  <2>1. UNCHANGED <<args, ring>>
    BY <1>3 DEF Main, CreateProducer, CreateConsumer, Join
  <2>2. \A p \in Tids : ppc'[p] = ppc[p] \/ ppc'[p] \in {"wait_nempty", "returned"}
    BY <1>0, <1>3, PLoopLabel DEF Main, CreateProducer, CreateConsumer, Join, PGoto, producers
  <2> QED BY <1>0, <2>1, <2>2 DEF args, ring
<1> QED BY <1>1, <1>2, <1>3 DEF Next

\* What the tests have found stays true.
LEMMA TestsHoldKept ==
  ASSUME TypeOK, Tokens, Threaded, OfTest, TestsHold, Next
  PROVE  TestsHold'
<1> USE DEF TestsHold
<1>0. /\ ppc \in [Tids -> PLabels] /\ nput \in Nat /\ test \in 1 .. 2
      /\ nitems \in Int /\ ci \in Nat
  BY DEF TypeOK
<1>1. ASSUME NEW p \in Tids, Producer(p)
      PROVE  TestsHold'
  <2>1. /\ UNCHANGED <<test, nitems, nproducers, cpc, ci, main, i>>
        /\ ppc[p] \notin {"unborn", "returned"} /\ ppc'[p] # "unborn"
        /\ \A q \in Tids : q # p => ppc'[q] = ppc[q]
    BY <1>1, ProducerFrame
  <2>2. \/ nput' = nput
        \/ /\ nput' = nput + 1 /\ nput < nitems
           /\ \A q \in Tids : q # p => /\ ppc[q] \notin {"store", "advance"}
                                       /\ ~(test = 1 /\ ppc[q] \in InRound)
    <3>1. CASE ppc[p] = "advance" /\ nput' = nput + 1
      <4>1. test = 2
        BY <1>0, <3>1 DEF OfTest
      <4>2. \A q \in Tids : q # p => ppc[q] \notin {"store", "advance"}
        BY <3>1, OneHolder, PSets
      <4> QED BY <3>1, <4>1, <4>2
    <3>2. CASE test = 1 /\ ppc[p] = "post_nstored" /\ nput' = nput + 1
      <4>1. \A q \in Tids : q # p => ppc[q] = "unborn"
        BY <2>1, <3>2, Sole
      <4> QED BY <3>2, <4>1, PSets
    <3>3. \/ nput' = nput
          \/ ppc[p] = "advance" /\ nput' = nput + 1
          \/ test = 1 /\ ppc[p] = "post_nstored" /\ nput' = nput + 1
      BY <1>1 DEF Producer, ProducerWait, ProducerTest, ProducerStore, ProducerAdvance,
         ProducerPost, ProducerQuit, PGoto, ring
    <3> QED BY <3>1, <3>2, <3>3
  <2>3. /\ ppc'[p] \in {"store", "advance"} => nput' < nitems
        /\ test = 1 /\ ppc'[p] \in InRound => nput' < nitems
        /\ ppc'[p] \in PLeaving => nput' >= nitems
    <3> USE PSets DEF PGoto, ring
    <3>1. CASE ProducerWait(p)
      BY <1>0, <3>1 DEF ProducerWait
    <3>2. CASE ProducerTest(p)
      BY <1>0, <3>2 DEF ProducerTest, OfTest
    <3>3. CASE ProducerStore(p)
      BY <1>0, <3>3 DEF ProducerStore
    <3>4. CASE ProducerAdvance(p)
      BY <1>0, <3>4 DEF ProducerAdvance, OfTest
    <3>5. CASE ProducerPost(p)
      BY <1>0, <3>5 DEF ProducerPost, PLoop
    <3>6. CASE ProducerQuit(p)
      BY <1>0, <3>6 DEF ProducerQuit, OfTest
    <3> QED BY <1>1, <3>1, <3>2, <3>3, <3>4, <3>5, <3>6 DEF Producer
  <2> QED BY <1>0, <2>1, <2>2, <2>3
<1>2. CASE ConsumerStep \/ ConsumerRound
  BY <1>0, <1>2 DEF ConsumerStep, ConsumerRound, CGoto, CLoop, args, ring, producers
<1>3. CASE Main
  <2>1. UNCHANGED <<args, ring, ci>>
    BY <1>3 DEF Main, CreateProducer, CreateConsumer, Join, consumer
  <2>2. \/ cpc' = cpc
        \/ cpc = "unborn" /\ cpc' = CLoop(0)
    BY <1>3 DEF Main, CreateProducer, CreateConsumer, Join, CGoto, consumer
  <2>3. \A p \in Tids : \/ ppc'[p] = ppc[p]
                        \/ ppc[p] = "unborn" /\ ppc'[p] = PLoop(0)
    BY <1>0, <1>3 DEF Main, CreateProducer, CreateConsumer, Join, PGoto, producers
  <2>4. test = 1 => nput = 0 \/ \A p \in Tids : ppc'[p] = ppc[p]
    <3>1. CASE test = 1 /\ CreateProducer
      <4>1. i \in Nat /\ i < 1 /\ main = "create_p"
        BY <3>1 DEF CreateProducer, OfTest, TypeOK
      <4>2. \A p \in Tids : ppc[p] = "unborn"
        BY <4>1 DEF Threaded, Tids
      <4> QED BY <3>1, <4>2 DEF OfTest
    <3>2. CASE ~CreateProducer
      BY <1>3, <3>2 DEF Main, CreateConsumer, Join, producers
    <3> QED BY <3>1, <3>2
  <2> QED BY <1>0, <2>1, <2>2, <2>3, <2>4, PSets DEF args, ring, CLoop, PLoop
<1> QED BY <1>1, <1>2, <1>3 DEF Next

-----------------------------------------------------------------------------
(* The ring *)

\* The step that puts an item: produce_1 counts it when it is stored, produce_2
\* when the index is advanced.
PutStep(p) == (test = 1 /\ ProducerStore(p)) \/ ProducerAdvance(p)

\* It adds an item, and no other step of a producer does.
LEMMA ProducerAdds ==
  ASSUME TypeOK, OfTest, NEW p \in Tids, Producer(p)
  PROVE  Taken' = Taken /\ Added' = IF PutStep(p) THEN Added + 1 ELSE Added
<1>0. UNCHANGED <<test, cpc, ci>> /\ nput \in Nat /\ test \in 1 .. 2 /\ P(PStoring) \in Nat
  BY ProducerFrame, Counts DEF TypeOK
<1>1. Taken' = Taken
  BY <1>0, CStay, Accounts
<1>2. ASSUME NEW from, NEW to, PGoto(p, from, to)
      PROVE  P(PStoring)' = P(PStoring) - Member(from, PStoring) + Member(to, PStoring)
  BY <1>2, PMove
<1>3. test = 1 => ~PGoto(p, "advance", "post_mutex")
  BY DEF OfTest, PGoto
<1>4. ProducerStore(p) => ~ProducerAdvance(p)
  BY DEF ProducerStore, ProducerAdvance, PGoto
<1> USE <1>0, PSets DEF Member, ring
<1>5. CASE ProducerAdvance(p)
  BY <1>2, <1>3, <1>5, Accounts, <1>1 DEF ProducerAdvance, PutStep
<1>6. CASE ProducerStore(p)
  BY <1>1, <1>2, <1>4, <1>6, Accounts DEF ProducerStore, PutStep
<1>7. CASE ~ProducerAdvance(p) /\ ~ProducerStore(p)
  <2>1. Added' = Added
    <3>1. CASE ProducerWait(p)
      BY <1>2, <3>1, Accounts DEF ProducerWait
    <3>2. CASE ProducerTest(p)
      BY <1>2, <3>2, Accounts DEF ProducerTest
    <3>3. CASE ProducerPost(p)
      BY <1>2, <3>3, Accounts, PLoopLabel DEF ProducerPost
    <3>4. CASE ProducerQuit(p)
      BY <1>2, <3>4, Accounts DEF ProducerQuit
    <3> QED BY <1>7, <3>1, <3>2, <3>3, <3>4 DEF Producer
  <2> QED BY <1>1, <1>7, <2>1 DEF PutStep
<1> QED BY <1>5, <1>6, <1>7

\* Comparing an item takes it, and no other step of the consumer does.
LEMMA ConsumerTakes ==
  ASSUME TypeOK, ConsumerStep \/ ConsumerRound
  PROVE  Added' = Added /\ Taken' = IF cpc = "compare" THEN Taken + 1 ELSE Taken
<1>1. UNCHANGED <<test, nput, ppc>>
  BY ConsumerFrame DEF args, ring, producers
<1>2. Added' = Added
  BY <1>1, PStay, Accounts
<1>3. ci \in Nat
  BY DEF TypeOK
<1>4. Taken' = IF cpc = "compare" THEN Taken + 1 ELSE Taken
  BY <1>3, CSets, Accounts DEF ConsumerStep, ConsumerRound, CGoto, CLoop, C
<1> QED BY <1>2, <1>4

\* A producer that has claimed a place finds one free.
LEMMA FreePlace ==
  ASSUME TypeOK, Tokens, NEW p \in Tids, ppc[p] \in {"store", "advance"}
  PROVE  Added - Taken < NBUFF
<1>1. P(PClaiming) > 0
  BY PPositive, PSets
<1> QED BY <1>1, Numbers, Counts DEF Tokens, SlotTokens

\* Nothing is taken that was not put.
LEMMA InOrder ==
  ASSUME TypeOK, Tokens
  PROVE  Taken =< Added /\ (cpc = "compare" => Taken < Added)
BY Numbers, Counts, CSets DEF Tokens, ItemTokens, C

\* Before a producer stores or advances, the next item is number nput.
LEMMA NextItem ==
  ASSUME TypeOK, Threaded, OfTest, NEW p \in Tids, ppc[p] \in {"store", "advance"}
  PROVE  Added = nput
<1>1. CASE test = 1
  <2>1. \A q \in Tids : q # p => ppc[q] = "unborn"
    BY <1>1, Sole
  <2>2. ~(P(PStoring) > 0)
    BY <2>1, PPositive, PSets
  <2>3. P(PStoring) = 0
    BY <2>2, Counts
  <2> QED BY <1>1, <2>3, Numbers, Accounts
<1>2. CASE test # 1
  BY <1>2, Accounts
<1> QED BY <1>1, <1>2

\* What is in the ring stays right.
LEMMA RingKept ==
  ASSUME TypeOK, Tokens, Threaded, OfTest, RingContents, Next
  PROVE  RingContents'
<1> USE DEF RingContents
<1>0. /\ Added \in Nat /\ Taken \in Nat /\ nput \in Nat /\ NBUFF \in Nat \ {0} /\ Taken =< Added
      /\ ppc \in [Tids -> PLabels] /\ buff \in [0 .. NBUFF - 1 -> Int] /\ test \in 1 .. 2
  BY Numbers, InOrder DEF TypeOK
<1>1. ASSUME NEW p \in Tids, ProducerStore(p)
      PROVE  RingContents'
  <2>1. /\ ppc[p] = "store" /\ nput' = nput
        /\ buff' = [buff EXCEPT ![nput % NBUFF] = nput]
        /\ \A q \in Tids : q # p => ppc'[q] = ppc[q]
    <3>1. (IF test = 1 THEN nput ELSE nputval) = nput
      BY <1>0 DEF OfTest
    <3> QED BY <1>0, <1>1, <3>1 DEF ProducerStore, PGoto
  <2>2. nput % NBUFF \in 0 .. NBUFF - 1
    BY <1>0, ModRange
  <2>3. buff'[nput % NBUFF] = nput
    BY <1>0, <2>1, <2>2
  <2>4. Added = nput /\ Added - Taken < NBUFF
    BY <2>1, NextItem, FreePlace
  <2>5. ASSUME NEW k \in Taken .. Added - 1 PROVE buff'[k % NBUFF] = k
    <3>1. k \in Int /\ nput \in Int /\ k < nput /\ nput - k < NBUFF
      BY <1>0, <2>4
    <3>2. k % NBUFF # nput % NBUFF
      BY <1>0, <3>1, ModDistinct, Zenon
    <3>3. k % NBUFF \in 0 .. NBUFF - 1
      BY <1>0, <3>1, ModRange
    <3> QED BY <1>0, <2>1, <2>2, <3>2, <3>3
  <2>6. Taken' = Taken /\ (Added' = Added \/ Added' = Added + 1)
    BY <1>1, ProducerAdds DEF Producer
  <2>7. \A k \in Taken' .. Added' - 1 : buff'[k % NBUFF] = k
    BY <1>0, <2>3, <2>4, <2>5, <2>6
  <2> QED BY <2>1, <2>3, <2>7
<1>2. ASSUME NEW p \in Tids, ProducerAdvance(p)
      PROVE  RingContents'
  <2>1. ppc[p] = "advance" /\ ppc'[p] = "post_mutex" /\ UNCHANGED buff
    BY <1>0, <1>2 DEF ProducerAdvance, PGoto
  <2>2. Added = nput /\ Taken' = Taken /\ Added' = Added + 1
    BY <1>2, <2>1, NextItem, ProducerAdds DEF Producer, PutStep
  <2>3. \A q \in Tids : ppc'[q] # "advance"
    <3>1. \A q \in Tids : q # p => ppc[q] # "advance"
      BY <2>1, OneHolder, PSets
    <3> QED BY <1>2, <2>1, <3>1, ProducerFrame DEF Producer
  <2>4. ASSUME NEW k \in Taken .. Added PROVE buff[k % NBUFF] = k
    <3>1. buff[nput % NBUFF] = nput
      BY <2>1
    <3>2. k = nput \/ k \in Taken .. Added - 1
      BY <1>0, <2>2
    <3> QED BY <3>1, <3>2
  <2> QED BY <1>0, <2>1, <2>2, <2>3, <2>4
<1>3. ASSUME NEW p \in Tids, Producer(p), ~ProducerStore(p), ~ProducerAdvance(p)
      PROVE  RingContents'
  <2>1. Taken' = Taken /\ Added' = Added
    BY <1>3, ProducerAdds DEF PutStep
  <2>2. /\ UNCHANGED buff /\ ppc'[p] # "advance"
        /\ test = 1 \/ nput' = nput
    BY <1>0, <1>3, PLoopLabel DEF Producer, ProducerWait, ProducerTest, ProducerPost,
       ProducerQuit, PGoto, ring
  <2>3. test = 1 => \A q \in Tids : ppc[q] # "advance"
    BY DEF OfTest
  <2> QED BY <1>0, <1>3, <2>1, <2>2, <2>3, ProducerFrame
<1>4. CASE ConsumerStep \/ ConsumerRound
  <2>1. UNCHANGED <<ring, producers>>
    BY <1>4, ConsumerFrame
  <2>2. Added' = Added /\ (Taken' = Taken \/ Taken' = Taken + 1)
    BY <1>4, ConsumerTakes
  <2> QED BY <1>0, <2>1, <2>2 DEF ring, producers
<1>5. CASE Main
  <2>1. UNCHANGED <<test, ring>> /\ \A p \in Tids : ppc'[p] # "advance" \/ ppc'[p] = ppc[p]
    BY <1>0, <1>5, PLoopLabel DEF Main, CreateProducer, CreateConsumer, Join, PGoto, args,
       producers
  <2>2. Added' = Added /\ Taken' = Taken
    BY <1>5, MainAccounts
  <2> QED BY <1>0, <2>1, <2>2 DEF ring
<1> QED BY <1>1, <1>2, <1>3, <1>4, <1>5 DEF Next

-----------------------------------------------------------------------------
(* The sum of the producers' counts *)

\* Each item is counted after its producer has announced it.
LEMMA SumsKept ==
  ASSUME TypeOK, OfTest, Sums, Next
  PROVE  Sums'
<1> USE DEF Sums
<1>0. /\ nput \in Nat /\ count \in [Tids -> Nat] /\ P(PStoring) \in Nat /\ test \in 1 .. 2
      /\ IsFiniteSet(Counted(count)) /\ Cardinality(Counted(count)) \in Nat
  BY Counts, FS_CardinalityType DEF TypeOK
<1>1. ASSUME NEW p \in Tids, Producer(p), UNCHANGED count
      PROVE  Sums'
  <2>1. test' = test /\ Counted(count)' = Counted(count)
    BY <1>1, ProducerFrame DEF Counted
  <2>2. CASE test = 1
    BY <2>1, <2>2
  <2>3. CASE test = 2
    <3>1. nput' - nput = P(PStoring)' - P(PStoring) /\ nput' \in Nat /\ P(PStoring)' \in Nat
      <4>1. ASSUME NEW from, NEW to, PGoto(p, from, to)
            PROVE  P(PStoring)' = P(PStoring) - Member(from, PStoring) + Member(to, PStoring)
        BY <4>1, PMove
      <4>2. ~(count' = [count EXCEPT ![p] = count[p] + 1])
        BY <1>0, <1>1
      <4> QED BY <1>0, <1>1, <2>3, <4>1, <4>2, PSets DEF Member, Producer, ProducerWait,
                 ProducerTest, ProducerStore, ProducerAdvance, ProducerPost, ProducerQuit, ring
    <3> QED BY <1>0, <2>1, <2>3, <3>1
  <2> QED BY <1>0, <2>2, <2>3
<1>2. ASSUME NEW p \in Tids, Producer(p), ~UNCHANGED count
      PROVE  Sums'
  <2>1. /\ test = 2 /\ test' = 2 /\ nput' = nput /\ PGoto(p, "post_nstored", "wait_nempty")
        /\ count' = [count EXCEPT ![p] = count[p] + 1]
    BY <1>2 DEF Producer, ProducerWait, ProducerTest, ProducerStore, ProducerAdvance,
       ProducerPost, ProducerQuit, OnlyProducer, args, ring
  <2>2. P(PStoring)' = P(PStoring) - 1
    BY <1>0, <2>1, PMove, PSets DEF Member
  <2>3. /\ IsFiniteSet(Counted(count'))
        /\ Cardinality(Counted(count')) = Cardinality(Counted(count)) + 1
    <3>1. EndsRound(Tids, count, count', p)
      BY <1>0, <2>1 DEF EndsRound
    <3>2. Counted(count) = Rounds(Tids, count) /\ Counted(count') = Rounds(Tids, count')
      BY DEF Counted, Rounds
    <3> QED BY <1>0, <3>1, <3>2, RoundsStep
  <2>4. Counted(count)' = Counted(count')
    BY DEF Counted
  <2> QED BY <1>0, <2>1, <2>2, <2>3, <2>4
<1>3. CASE ConsumerStep \/ ConsumerRound
  BY <1>3, ConsumerFrame, PStay DEF args, ring, producers, Counted
<1>4. CASE Main
  <2>1. UNCHANGED <<test, nput, count>> /\ P(PStoring)' = P(PStoring)
    BY <1>4, MainAccounts DEF Main, CreateProducer, CreateConsumer, Join, args, producers
  <2> QED BY <2>1 DEF Counted
<1> QED BY <1>1, <1>2, <1>3, <1>4 DEF Next

-----------------------------------------------------------------------------
(* The inductive invariant *)

\* It holds at the start.
LEMMA InitIInv == Init => IInv
<1> SUFFICES ASSUME Init PROVE IInv
  OBVIOUS
<1>1. TypeOK /\ Tokens
  BY InitType, InitTokens
<1>2. /\ test \in 1 .. 2 /\ nput = 0 /\ nputval = 0 /\ ci = 0 /\ i = 0 /\ main = "create_p"
      /\ ppc = [p \in Tids |-> "unborn"] /\ count = [p \in Tids |-> 0] /\ cpc = "unborn"
      /\ test = 1 => nproducers = 1
  BY DEF Init
<1>3. Threaded
  BY <1>2 DEF Threaded, Tids
<1>4. OfTest /\ TestsHold
  BY <1>1, <1>2, PSets DEF OfTest, TestsHold, TypeOK
<1>5. P(PStoring) = 0 /\ C(CFreeing) = 0
  <2>1. ~(P(PStoring) > 0)
    BY <1>2, PPositive, PSets
  <2> QED BY <1>2, <2>1, Counts, CSets DEF C
<1>6. RingContents
  <2>1. Added = 0 /\ Taken = 0
    BY <1>2, <1>5, Accounts
  <2> QED BY <1>2, <2>1 DEF RingContents
<1>7. Sums
  <2>1. Counted(count) = Rounds(Tids, count)
    BY DEF Counted, Rounds
  <2> QED BY <1>2, <1>5, <2>1, RoundsInit DEF Sums
<1> QED BY <1>1, <1>3, <1>4, <1>6, <1>7 DEF IInv

\* Every step, and stuttering, keeps it.
LEMMA NextIInv == IInv /\ [Next]_vars => IInv'
<1> SUFFICES ASSUME IInv, [Next]_vars PROVE IInv'
  OBVIOUS
<1>1. TypeOK'
  BY NextType DEF IInv
<1>2. CASE Next
  <2> USE DEF IInv
  <2>1. Tokens'
    BY <1>2, MainTokens, ProducerTokens, ConsumerTokens DEF Next
  <2>2. Threaded' /\ OfTest'
    BY <1>2, ThreadedKept, OfTestKept
  <2>3. TestsHold' /\ RingContents' /\ Sums'
    BY <1>2, TestsHoldKept, RingKept, SumsKept
  <2> QED BY <1>1, <2>1, <2>2, <2>3
<1>3. CASE UNCHANGED vars
  <2>1. /\ UNCHANGED <<args, sem, ring, producers, consumer, mainvars>>
    BY <1>3 DEF vars
  <2>2. /\ P(PHolding)' = P(PHolding) /\ P(PClaiming)' = P(PClaiming)
        /\ P(PStoring)' = P(PStoring)
        /\ C(CHolding)' = C(CHolding) /\ C(CFreeing)' = C(CFreeing)
        /\ C(CTaking)' = C(CTaking)
    BY <2>1, PStay, CStay DEF producers, consumer
  <2>3. Added' = Added /\ Taken' = Taken
    BY <2>1, <2>2, Accounts DEF args, ring, consumer
  <2> QED BY <1>1, <2>1, <2>2, <2>3
          DEF IInv, args, ring, producers, consumer, mainvars, Tokens, MutexTokens, SlotTokens,
              ItemTokens, Threaded, OfTest, TestsHold, RingContents, Sums, Counted
<1> QED BY <1>2, <1>3

\* The threads, the ring, the three semaphores and the counts agree at every
\* step of both programs.
THEOREM SingleInvariant == Spec => []IInv
BY InitIInv, NextIInv, PTL DEF Spec

\* When the program has ended every thread has returned.
LEMMA AtExit ==
  ASSUME IInv, main = "exit"
  PROVE  AllDone
<1>0. /\ nput \in Nat /\ ci \in Nat /\ nitems \in Int /\ nproducers \in Int /\ NBUFF \in Nat
      /\ sem \in [SemNames -> Nat] /\ test \in 1 .. 2 /\ cpc = "returned"
      /\ Tokens /\ Threaded /\ OfTest /\ TestsHold /\ Sums
  BY Numbers DEF IInv, TypeOK, Threaded
<1>1. \A p \in Tids : ppc[p] \in {"unborn", "returned"}
  BY <1>0 DEF Threaded, Tids
<1>2. /\ P(PHolding) = 0 /\ P(PClaiming) = 0 /\ P(PStoring) = 0
      /\ C(CHolding) = 0 /\ C(CFreeing) = 0 /\ C(CTaking) = 0
  <2>1. ~(P(PHolding) > 0) /\ ~(P(PClaiming) > 0) /\ ~(P(PStoring) > 0)
    BY <1>1, PPositive, PSets
  <2> QED BY <1>0, <2>1, Counts, CSets DEF C
<1>3. Added = nput /\ Taken = ci
  BY <1>0, <1>2, Accounts
<1>4. ci >= nitems /\ (ci = 0 \/ ci =< nitems) /\ (nput = 0 \/ nput =< nitems)
  BY <1>0 DEF TestsHold
<1>5. ASSUME nproducers > 0 PROVE nput >= nitems
  <2>1. 0 \in Tids
    BY ThreadsAssumption DEF Tids
  <2>2. ppc[0] = "returned"
    BY <1>0, <1>5, <2>1 DEF Threaded
  <2> QED BY <1>0, <2>1, <2>2, PSets DEF TestsHold
<1>6. /\ sem["mutex"] = 1 /\ sem["nempty"] + (nput - ci) = NBUFF /\ sem["nstored"] = nput - ci
  BY <1>0, <1>2, <1>3, Numbers DEF Tokens, MutexTokens, SlotTokens, ItemTokens, IInv
<1>7. nproducers =< 0 => nput = 0
  BY <1>0 DEF OfTest
<1>8. nput = ci /\ (nproducers > 0 \/ nitems =< 0)
  BY <1>0, <1>4, <1>5, <1>6, <1>7, Numbers DEF IInv
<1>9. sem = [mutex |-> 1, nempty |-> NBUFF, nstored |-> 0]
  BY <1>0, <1>6, <1>8 DEF SemNames
<1>10. test = 2 => Cardinality(Counted(count)) = nput
  BY <1>0, <1>2, FS_CardinalityType DEF Sums
<1> QED BY <1>0, <1>4, <1>8, <1>9, <1>10 DEF AllDone, Completes

\* Whatever the interleaving of the producers, the consumer and the main
\* thread, the three semaphores account for every place, item and thread, and
\* when either program ends every item was produced and consumed, the counts
\* add up, and the semaphores are as they began.
THEOREM TokensReturned == Spec => []TokenAccounting
<1>1. IInv => TokenAccounting
  BY AtExit DEF IInv, Tokens, TokenAccounting
<1> QED BY <1>1, SingleInvariant, PTL

-----------------------------------------------------------------------------
(* Both programs implement BoundedBuffer *)

\* The places of the ring between Taken and Added hold the items of that window.
LEMMA ContentsWindow == IInv => Contents = Window(Taken, Added)
<1> SUFFICES ASSUME IInv PROVE Contents = Window(Taken, Added)
  OBVIOUS
<1>1. Added \in Nat /\ Taken \in Nat /\ \A k \in Taken .. Added - 1 : buff[k % NBUFF] = k
  BY Numbers DEF IInv, RingContents
<1>2. ASSUME NEW k \in 1 .. Added - Taken
      PROVE  buff[(Taken + k - 1) % NBUFF] = Taken + k - 1
  <2>1. Taken + k - 1 \in Taken .. Added - 1
    BY <1>1
  <2> QED BY <1>1, <2>1
<1> QED BY <1>2 DEF Contents, Window

\* The buffer starts empty.
LEMMA BufferInit == Init => Buffer!Init
<1> SUFFICES ASSUME Init PROVE Buffer!Init
  OBVIOUS
<1>1. nitems \in Int
  BY ItemsAssumption DEF Init
<1>2. Added = 0 /\ Taken = 0
  <2>1. ~(P(PStoring) > 0)
    BY PPositive, PSets DEF Init
  <2> QED BY <2>1, Counts, CSets, Accounts DEF Init, C
<1>3. Contents = <<>>
  BY <1>2 DEF Contents
<1> QED BY <1>1, <1>2, <1>3 DEF Buffer!Init

\* A step that puts an item is Put, comparing one is Get, and no other step
\* shows in the buffer.
LEMMA BufferStep ==
  ASSUME IInv, IInv', [Next]_vars
  PROVE  [Buffer!Next]_Buffer!vars
<1>0. TypeOK /\ Tokens /\ Threaded /\ OfTest /\ TestsHold
  BY DEF IInv
<1>1. /\ Added \in Nat /\ Taken \in Nat /\ Taken =< Added
      /\ Contents = Window(Taken, Added) /\ Contents' = Window(Taken', Added')
  <2>1. (Contents = Window(Taken, Added))'
    BY ContentsWindow, PTL
  <2> QED BY <1>0, <2>1, ContentsWindow, Numbers, InOrder DEF Window
<1>2. CASE nitems' = nitems /\ Added' = Added /\ Taken' = Taken
  BY <1>1, <1>2 DEF Buffer!vars
<1>3. ASSUME NEW p \in Tids, Producer(p), PutStep(p)
      PROVE  Buffer!Put
  <2>1. nitems' = nitems /\ Taken' = Taken /\ Added' = Added + 1
    BY <1>0, <1>3, ProducerFrame, ProducerAdds
  <2>2. ppc[p] \in {"store", "advance"}
    BY <1>3 DEF PutStep, ProducerStore, ProducerAdvance, PGoto
  <2>3. Added < nitems /\ Added - Taken < NBUFF
    BY <1>0, <2>2, NextItem, FreePlace DEF TestsHold
  <2> QED BY <1>1, <2>1, <2>3, WindowSeq DEF Buffer!Put
<1>4. ASSUME ConsumerStep \/ ConsumerRound, cpc = "compare"
      PROVE  Buffer!Get
  <2>1. nitems' = nitems /\ Taken' = Taken + 1 /\ Added' = Added
    BY <1>0, <1>4, ConsumerFrame, ConsumerTakes DEF args
  <2>2. Taken < Added
    BY <1>0, <1>4, InOrder
  <2> QED BY <1>1, <2>1, <2>2, WindowSeq DEF Buffer!Get
<1>5. CASE Next
  <2>1. CASE Main
    <3>1. nitems' = nitems
      BY <2>1 DEF Main, CreateProducer, CreateConsumer, Join, args
    <3> QED BY <1>0, <1>2, <2>1, <3>1, MainAccounts
  <2>2. ASSUME NEW p \in Tids, Producer(p), ~PutStep(p)
        PROVE  nitems' = nitems /\ Added' = Added /\ Taken' = Taken
    BY <1>0, <2>2, ProducerFrame, ProducerAdds
  <2>3. ASSUME ConsumerStep \/ ConsumerRound, cpc # "compare"
        PROVE  nitems' = nitems /\ Added' = Added /\ Taken' = Taken
    BY <1>0, <2>3, ConsumerFrame, ConsumerTakes DEF args
  <2> QED BY <1>2, <1>3, <1>4, <1>5, <2>1, <2>2, <2>3 DEF Next, Buffer!Next
<1>6. CASE UNCHANGED vars
  <2>1. P(PStoring)' = P(PStoring) /\ C(CFreeing)' = C(CFreeing)
    BY <1>6, PStay, CStay DEF vars, producers, consumer
  <2> QED BY <1>2, <1>6, <2>1, Accounts DEF vars, args, ring, consumer
<1> QED BY <1>5, <1>6

\* Both programs behave as a bounded buffer of NBUFF places: the consumer looks
\* at the items in the order in which they were put, at each of them once.
THEOREM SingleImplementsBuffer == Spec => Implements
<1>1. IInv /\ IInv' /\ [Next]_vars => [Buffer!Next]_Buffer!vars
  BY BufferStep
<1> QED BY <1>1, BufferInit, SingleInvariant, PTL DEF Spec, Implements, Buffer!Spec
=============================================================================
