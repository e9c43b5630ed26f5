-------------------------- MODULE ShmMessagesProofs --------------------------
(***************************************************************************)
(* Proofs about ShmMessages, for every size of the ring, every set of      *)
(* clients, whichever of them are started and whenever they come: also     *)
(* before the server has initialised the semaphores, or any one of them.   *)
(***************************************************************************)
EXTENDS ShmMessages, Counting

-----------------------------------------------------------------------------
(* The inductive invariant *)

\* Clients and server with a slot, with mutex, with noverflowmutex.
Holding  == {"wait_mutex", "reserve", "post_mutex", "copy", "copying", "post_nstored"}
SHolding == {"wait_mutex", "print", "post_mutex", "post_nempty"}
Locking  == {"reserve", "post_mutex"}
SLocking == {"print", "post_mutex"}
Counted  == {"overflow", "post_noverflow"}
SCounted == {"read_noverflow", "post_noverflow"}

\* Clients that have been given their slot, or have just counted an overflow.
Reserved == {"post_mutex", "copy", "copying", "post_nstored"}
Done     == {"post_noverflow"}

\* The server before the sem_init of mutex, nempty, nstored, noverflowmutex.
NoMutex    == {"create", "init_mutex"}
NoEmpty    == NoMutex \cup {"init_nempty"}
NoStored   == NoEmpty \cup {"init_nstored"}
NoOverflow == NoStored \cup {"init_noverflow"}

\* A semaphore not yet initialised is zero: nobody has come past it.
Zeroed ==
  /\ spc \in NoMutex => sem["mutex"] = 0
  /\ spc \in NoEmpty => /\ sem["nempty"] = 0 /\ sem["nstored"] = 0
                        /\ \A c \in Clients : cpc[c] \notin Holding
  /\ spc \in NoStored => erased = 0
  /\ spc \in NoOverflow => /\ sem["noverflowmutex"] = 0
                           /\ \A c \in Clients : cpc[c] \notin Counted

\* A client that runs has been started and has a message left to send; who
\* sleeps unseen by a semaphore is at the one sem_wait where that happens.
Running ==
  /\ \A c \in Clients : /\ cpc[c] # "exit" => c \in started
                        /\ cpc[c] = "open" => i[c] = 0
                        /\ cpc[c] \notin {"open", "exit"} => i[c] < NLoop
  /\ deaf \subseteq Waiting

\* The messages posted and not printed: those of the semaphore, and the one
\* that the server has waited for.
Stored == sem["nstored"] + Server1({"wait_mutex", "print"})

Printed == Len(printed)

\* A message sent is stored, printed, erased or counted as an overflow; the
\* overflow is counted just before the message is done with.
Sums ==
  /\ IsFiniteSet(Sent)
  /\ Cardinality(Sent) + At(Done) = Stored + Printed + noverflow + erased

\* The slot k slots after the server's.
Place(k) == IF index + k >= NMESG THEN index + k - NMESG ELSE index + k

\* The k-th message posted, printed or still in the ring.
Message(k) == IF k =< Printed THEN printed[k] ELSE msgdata[Place(k - Printed - 1)]
Posted == 1 .. Printed + Stored

\* The client c alone fills the ring in the order in which the server prints.
InOrder(c) ==
  /\ \A k \in Posted : \E m \in 0 .. i[c] - 1 : Message(k) = <<c, m>>
  /\ \A k \in Posted : k > 1 => Message(k - 1)[2] < Message(k)[2]
  /\ cpc[c] \notin Reserved => nput = Place(Stored)
  /\ cpc[c] \in Reserved => /\ offset[c] = Place(Stored) /\ nput = Place(Stored + 1)
  /\ cpc[c] = "post_nstored" => msgdata[offset[c]] = <<c, i[c]>>

Alone(c) == started = {c} /\ erased = 0

\* TokenAccounting, semaphore by semaphore.
SlotTokens ==
  spc \notin NoEmpty =>
    sem["nempty"] + sem["nstored"] + erased + At(Holding) + Server1(SHolding) = NMESG
MutexTokens ==
  spc \notin NoMutex => sem["mutex"] + At(Locking) + Server1(SLocking) = 1
OverflowTokens ==
  spc \notin NoOverflow => sem["noverflowmutex"] + At(Counted) + Server1(SCounted) = 1

IInv == /\  TypeOK /\ Zeroed /\ Running /\ TokenAccounting /\ Sums
        /\ \A c \in Clients : Alone(c) => InOrder(c)

-----------------------------------------------------------------------------
(* Counting the clients *)

\* At is the number of Counting.
LEMMA AtNumber ==
  ASSUME NEW L
  PROVE  At(L) = Number(Clients, cpc, L) /\ At(L) \in Nat
<1>1. At(L) = Number(Clients, cpc, L)
  BY DEF At, Number, Those
<1> QED BY <1>1, NumberType, ClientsAssumption

\* It is zero exactly when no client is there.
LEMMA AtZero ==
  ASSUME NEW L
  PROVE  At(L) = 0 <=> \A c \in Clients : cpc[c] \notin L
<1>1. At(L) > 0 <=> \E c \in Clients : cpc[c] \in L
  BY AtNumber, NumberPositive, ClientsAssumption
<1> QED BY <1>1, AtNumber

\* What a move of a client does to it.
LEMMA AtMove ==
  ASSUME TypeOK, NEW c \in Clients, NEW from, NEW to, CGoto(c, from, to), NEW L
  PROVE  At(L)' = At(L) - Member(from, L) + Member(to, L)
<1>1. Moves(Clients, cpc, cpc', c, from, to)
  BY DEF TypeOK, CGoto, Moves
<1>2. Number(Clients, cpc', L) = Number(Clients, cpc, L) - Member(from, L) + Member(to, L)
  BY <1>1, NumberMove, ClientsAssumption
<1>3. At(L) = Number(Clients, cpc, L) /\ At(L)' = Number(Clients, cpc', L)
  BY DEF At, Number, Those
<1> QED BY <1>2, <1>3

\* Clients that do not move do not change it.
LEMMA AtStay == ASSUME UNCHANGED cpc, NEW L PROVE At(L)' = At(L)
BY DEF At

\* Which labels the sets hold, the sets left unexpanded.
LEMMA Labels ==
  /\ \A l : l \in Holding <=> \/ l = "wait_mutex" \/ l = "reserve" \/ l = "post_mutex"
                              \/ l = "copy" \/ l = "copying" \/ l = "post_nstored"
  /\ \A l : l \in Locking <=> l = "reserve" \/ l = "post_mutex"
  /\ \A l : l \in Counted <=> l = "overflow" \/ l = "post_noverflow"
  /\ \A l : l \in Done <=> l = "post_noverflow"
BY DEF Holding, Locking, Counted, Done

\* How often each label counts for them.
LEMMA Members ==
  /\ \A l : Member(l, Holding) = IF \/ l = "wait_mutex" \/ l = "reserve" \/ l = "post_mutex"
                                    \/ l = "copy" \/ l = "copying" \/ l = "post_nstored"
                                 THEN 1 ELSE 0
  /\ \A l : Member(l, Locking) = IF l = "reserve" \/ l = "post_mutex" THEN 1 ELSE 0
  /\ \A l : Member(l, Counted) = IF l = "overflow" \/ l = "post_noverflow" THEN 1 ELSE 0
  /\ \A l : Member(l, Done) = IF l = "post_noverflow" THEN 1 ELSE 0
BY Labels DEF Member

\* The accounts with their sets named, before and after a step.
LEMMA Accounts ==
  /\ TokenAccounting <=> SlotTokens /\ MutexTokens /\ OverflowTokens
  /\ TokenAccounting' <=> SlotTokens' /\ MutexTokens' /\ OverflowTokens'
<1>1. /\ NoEmpty = {"create", "init_mutex", "init_nempty"}
      /\ NoOverflow = {"create", "init_mutex", "init_nempty", "init_nstored", "init_noverflow"}
  BY DEF NoOverflow, NoStored, NoEmpty, NoMutex
<1>2. TokenAccounting <=> SlotTokens /\ MutexTokens /\ OverflowTokens
  BY <1>1 DEF TokenAccounting, SlotTokens, MutexTokens, OverflowTokens, Holding, SHolding,
              Locking, SLocking, Counted, SCounted, NoMutex
<1>3. TokenAccounting' <=> SlotTokens' /\ MutexTokens' /\ OverflowTokens'
  BY <1>1 DEF TokenAccounting, SlotTokens, MutexTokens, OverflowTokens, Holding, SHolding,
              Locking, SLocking, Counted, SCounted, NoMutex
<1> QED BY <1>2, <1>3

-----------------------------------------------------------------------------
(* What the steps have in common *)

\* What the types say, in a form the steps use.
LEMMA Types ==
  ASSUME TypeOK
  PROVE  /\ NMESG \in Nat /\ NMESG > 0 /\ NLoop \in Nat
         /\ nput \in 0 .. NMESG - 1 /\ index \in 0 .. NMESG - 1
         /\ msgdata \in [0 .. NMESG - 1 -> Texts] /\ cpc \in [Clients -> CLabels]
         /\ i \in [Clients -> 0 .. NLoop] /\ offset \in [Clients -> 0 .. NMESG - 1]
         /\ printed \in Seq(Texts) /\ Printed \in Nat /\ Stored \in Nat
BY NMESGAssumption, NLoopAssumption DEF TypeOK, SemNames, Slots, Stored, Server1, Printed

\* The numbers of the accounts.
Numeric ==
  /\ NMESG \in Nat /\ erased \in Nat /\ noverflow \in Nat
  /\ sem["mutex"] \in Nat /\ sem["nempty"] \in Nat /\ sem["nstored"] \in Nat
  /\ sem["noverflowmutex"] \in Nat
  /\ At(Holding) \in Nat /\ At(Locking) \in Nat /\ At(Counted) \in Nat
  /\ At(Done) \in Nat

\* They are natural numbers, and the accounts add up.
LEMMA Numbers ==
  ASSUME IInv
  PROVE  Numeric /\ SlotTokens /\ MutexTokens /\ OverflowTokens
<1>1. Numeric
  BY NMESGAssumption, AtNumber DEF IInv, TypeOK, SemNames, Numeric
<1>2. SlotTokens /\ MutexTokens /\ OverflowTokens
  BY Accounts DEF IInv
<1> QED BY <1>1, <1>2

\* What a client's step does to the counts of clients.
LEMMA ClientMove ==
  ASSUME IInv, NEW c \in Clients
  PROVE  \A from, to : CGoto(c, from, to) =>
         /\ At(Holding)' = At(Holding) - Member(from, Holding) + Member(to, Holding)
         /\ At(Locking)' = At(Locking) - Member(from, Locking) + Member(to, Locking)
         /\ At(Counted)' = At(Counted) - Member(from, Counted) + Member(to, Counted)
         /\ At(Done)' = At(Done) - Member(from, Done) + Member(to, Done)
BY AtMove DEF IInv

\* While a client moves, a process that sleeps unseen goes on sleeping.
LEMMA ClientDeaf ==
  ASSUME TypeOK, NEW c \in Clients, NEW from, NEW to, CGoto(c, from, to),
         UNCHANGED spc, deaf' \subseteq Waiting \ {c}
  PROVE  deaf' \subseteq Waiting'
BY DEF TypeOK, CGoto, Waiting

\* While the server moves, a client that sleeps unseen goes on sleeping.
LEMMA ServerDeaf ==
  ASSUME UNCHANGED cpc, deaf' \subseteq Waiting \ {"server"}
  PROVE  deaf' \subseteq Waiting'
BY DEF Waiting

\* What sem_post may do to the sleepers that are not counted.
LEMMA PostDeaf ==
  ASSUME deaf \subseteq Waiting, PostNoverflow
  PROVE  deaf' \subseteq Waiting
BY DEF PostNoverflow

\* The sleepers are clients that were started, or the server.
LEMMA WaitingType ==
  ASSUME Running
  PROVE  Waiting \subseteq started \cup {"server"}
BY DEF Running, Waiting

\* Sent is the set of rounds of Counting.
LEMMA SentRounds == Sent = Rounds(started, i)
BY DEF Sent, Rounds

\* A client that ends a round has sent one message more.
LEMMA SentGrows ==
  ASSUME TypeOK, IsFiniteSet(Sent), NEW c \in started, UNCHANGED started,
         i' = [i EXCEPT ![c] = @ + 1]
  PROVE  IsFiniteSet(Sent)' /\ Cardinality(Sent)' = Cardinality(Sent) + 1
<1>1. Sent = Rounds(started, i) /\ Sent' = Rounds(started, i')
  BY DEF Sent, Rounds
<1>2. EndsRound(started, i, i', c)
  BY DEF TypeOK, EndsRound
<1> QED BY <1>1, <1>2, RoundsStep

\* The sum without a round that ends.
LEMMA SentStays == ASSUME UNCHANGED <<started, i>> PROVE Sent' = Sent
BY DEF Sent

\* A step leaves the ring alone, and what the client c knows of it; it may end
\* a round of c.
RingStays ==
  UNCHANGED <<started, nput, msgdata, offset, index, printed, erased, Stored>>
KeepsPlace(c) ==
  /\ \/ i' = i
     \/ i[c] \in Nat /\ i'[c] = i[c] + 1 /\ cpc'[c] # "post_nstored"
  /\ cpc'[c] \in Reserved <=> cpc[c] \in Reserved
  /\ cpc'[c] = "post_nstored" => cpc[c] = "post_nstored"

\* Such a step keeps the order of c's messages.
LEMMA OrderStays ==
  ASSUME NEW c, Alone(c) => InOrder(c), RingStays, KeepsPlace(c)
  PROVE  (Alone(c) => InOrder(c))'
<1>1. /\ UNCHANGED <<Alone(c), Printed, Posted, nput, offset, msgdata>>
      /\ \A k : Place(k)' = Place(k) /\ Message(k)' = Message(k)
  BY DEF RingStays, Alone, Printed, Posted, Place, Message
<1>2. \A m : m \in 0 .. i[c] - 1 => m \in 0 .. i'[c] - 1
  BY DEF KeepsPlace
<1> QED BY <1>1, <1>2 DEF InOrder, RingStays, KeepsPlace

\* When c is a client that runs, there is no other whose order counts.
LEMMA ClientOrder ==
  ASSUME IInv, NEW c \in Clients, c \in started, RingStays, KeepsPlace(c)
  PROVE  \A d \in Clients : (Alone(d) => InOrder(d))'
<1>1. \A d \in Clients : Alone(d)' => d = c
  BY DEF Alone, RingStays
<1> QED BY <1>1, OrderStays DEF IInv

\* A step of the server keeps what every client knows.
LEMMA ServerOrder ==
  ASSUME IInv, RingStays, UNCHANGED <<i, cpc>>
  PROVE  \A d \in Clients : (Alone(d) => InOrder(d))'
<1>1. \A d \in Clients : KeepsPlace(d)
  BY DEF KeepsPlace
<1> QED BY <1>1, OrderStays DEF IInv

\* The numbers of the sum.
LEMMA SumNumbers ==
  ASSUME IInv
  PROVE  /\ Cardinality(Sent) \in Nat /\ IsFiniteSet(Sent) /\ Stored \in Nat
         /\ Printed \in Nat /\ noverflow \in Nat /\ erased \in Nat /\ At(Done) \in Nat
         /\ Cardinality(Sent) + At(Done) = Stored + Printed + noverflow + erased
BY FS_CardinalityType, Types, Numbers DEF IInv, Sums, Numeric

-----------------------------------------------------------------------------
(* Places of the ring *)

\* A place is a slot.
LEMMA PlaceType ==
  ASSUME TypeOK, NEW k \in 0 .. NMESG
  PROVE  Place(k) \in 0 .. NMESG - 1
BY Types DEF Place

\* Places less than a ring apart are different.
LEMMA PlaceDistinct ==
  ASSUME TypeOK, NEW j \in 0 .. NMESG - 1, NEW k \in 0 .. NMESG - 1, j # k
  PROVE  Place(j) # Place(k)
BY Types DEF Place

\* The circular step of the client moves on by one place.
LEMMA PlaceNext ==
  ASSUME TypeOK, NEW k \in 0 .. NMESG - 1
  PROVE  Next1(Place(k)) = Place(k + 1)
BY Types DEF Place, Next1

\* A client with a slot: the messages stored do not fill the ring.
LEMMA Room ==
  ASSUME IInv, NEW c \in Clients, cpc[c] \in Holding
  PROVE  Stored \in 0 .. NMESG - 1
<1>1. At(Holding) > 0
  <2>1. At(Holding) # 0
    BY AtZero
  <2> QED BY <2>1, AtNumber
<1>2. spc \notin NoEmpty
  BY DEF IInv, Zeroed
<1>3. Numeric /\ SlotTokens
  BY Numbers
<1> QED BY <1>1, <1>2, <1>3 DEF Numeric, SlotTokens, Stored, Server1, SHolding

-----------------------------------------------------------------------------
(* The steps of a client *)

\* A client moves and waits for or posts what its labels hold: nothing else.
SemStep(c, from, to) ==
  /\ CGoto(c, from, to) /\ from # "exit" /\ to \in CLabels \ {"open"}
  /\ to # "exit" => i[c] < NLoop
  /\ to # "post_nstored" /\ (from \in Reserved <=> to \in Reserved)
  /\ sem' \in [SemNames -> Nat] /\ sem'["nstored"] = sem["nstored"]
  /\ sem'["nempty"] = sem["nempty"] + Member(from, Holding) - Member(to, Holding)
  /\ sem'["mutex"] = sem["mutex"] + Member(from, Locking) - Member(to, Locking)
  /\ sem'["noverflowmutex"] = sem["noverflowmutex"]
                                + Member(from, Counted) - Member(to, Counted)
  /\ Member(from, Done) = Member(to, Done) /\ c \notin deaf
  /\ UNCHANGED <<started, nput, noverflow, msgdata, i, offset, deaf, spc,
                 index, temp, lastnoverflow, printed, erased>>

\* Such a step keeps the invariant.
LEMMA SemStepKeeps ==
  ASSUME IInv, NEW c \in Clients, NEW from, NEW to, SemStep(c, from, to)
  PROVE  IInv'
<1> USE DEF SemStep
<1>1. Numeric /\ SlotTokens /\ MutexTokens /\ OverflowTokens
  BY Numbers
<1>2. /\ cpc \in [Clients -> CLabels] /\ cpc[c] = from /\ cpc' = [cpc EXCEPT ![c] = to]
      /\ TypeOK /\ c \in started
  BY DEF CGoto, IInv, TypeOK, Running
<1>3. TypeOK'
  BY <1>2 DEF TypeOK
<1>4. Zeroed'
  <2>1. /\ Member(from, Holding) = 0 /\ Member(to, Holding) = 1 => sem["nempty"] > 0
        /\ Member(from, Counted) = 0 /\ Member(to, Counted) = 1 => sem["noverflowmutex"] > 0
        /\ Member(from, Holding) = Member(to, Holding) => sem'["nempty"] = sem["nempty"]
        /\ Member(from, Locking) = Member(to, Locking) => sem'["mutex"] = sem["mutex"]
        /\ Member(from, Counted) = Member(to, Counted)
             => sem'["noverflowmutex"] = sem["noverflowmutex"]
    BY <1>1, Members DEF Numeric, SemNames
  <2>2. \A l : l \in Locking => l \in Holding
    BY Labels
  <2> QED BY <1>2, <2>1, <2>2 DEF IInv, Zeroed, Member, NoMutex, NoEmpty, NoStored, NoOverflow
<1>5. Running'
  <2>1. deaf' \subseteq Waiting'
    BY <1>2, ClientDeaf DEF IInv, Running
  <2> QED BY <1>2, <2>1 DEF IInv, Running
<1>6. SlotTokens' /\ MutexTokens' /\ OverflowTokens'
  BY <1>1, ClientMove, Members
     DEF Numeric, SlotTokens, MutexTokens, OverflowTokens, Server1
<1>7. Sums'
  <2>1. At(Done)' = At(Done)
    BY <1>1, ClientMove, Members DEF Numeric
  <2> QED BY <2>1, SentStays DEF IInv, Sums, Stored, Printed, Server1
<1>8. \A d \in Clients : (Alone(d) => InOrder(d))'
  <2>1. RingStays
    BY DEF RingStays, Stored, Server1
  <2>2. KeepsPlace(c)
    BY <1>2 DEF KeepsPlace
  <2> QED BY <1>2, <2>1, <2>2, ClientOrder
<1> QED BY <1>3, <1>4, <1>5, <1>6, <1>7, <1>8, Accounts DEF IInv

\* Opening the shared memory.
LEMMA OpenKeeps ==
  ASSUME IInv, NEW c \in Clients, Open(c)
  PROVE  IInv'
<1>1. /\ UNCHANGED <<started, sem, nput, noverflow, msgdata, i, offset, deaf, spc,
                     index, temp, lastnoverflow, printed, erased>>
      /\ \/ CGoto(c, "open", "trywait") /\ NLoop > 0
         \/ CGoto(c, "open", "exit")
  BY DEF Open, CGoto, server
<1>2. c \notin deaf /\ i[c] = 0 /\ sem \in [SemNames -> Nat]
  BY <1>1, ClientsAssumption DEF IInv, Running, Waiting, CGoto, TypeOK
<1>3. SemStep(c, "open", "trywait") \/ SemStep(c, "open", "exit")
  BY <1>1, <1>2, Numbers, Members DEF SemStep, Numeric, CLabels, Reserved
<1> QED BY <1>3, SemStepKeeps

\* The test for a free slot.
LEMMA TryWaitKeeps ==
  ASSUME IInv, NEW c \in Clients, TryWait(c)
  PROVE  IInv'
<1>1. /\ UNCHANGED <<started, nput, noverflow, msgdata, i, offset, deaf, spc,
                     index, temp, lastnoverflow, printed, erased>>
      /\ \/ /\ CGoto(c, "trywait", "wait_mutex") /\ sem["nempty"] > 0
            /\ sem' = [sem EXCEPT !["nempty"] = sem["nempty"] - 1]
         \/ CGoto(c, "trywait", "wait_noverflow") /\ sem' = sem
  BY DEF TryWait, SemWait, server
<1>2. c \notin deaf /\ i[c] < NLoop /\ sem \in [SemNames -> Nat]
  BY <1>1, ClientsAssumption DEF IInv, Running, Waiting, CGoto, TypeOK
<1>3. SemStep(c, "trywait", "wait_mutex") \/ SemStep(c, "trywait", "wait_noverflow")
  BY <1>1, <1>2, Numbers, Members DEF SemStep, Numeric, CLabels, Reserved, SemNames
<1> QED BY <1>3, SemStepKeeps

\* A message dropped, and counted.
LEMMA CountKeeps ==
  ASSUME IInv, NEW c \in Clients, CountOverflow(c), cpc[c] = "overflow"
  PROVE  IInv'
<1>1. /\ UNCHANGED <<started, sem, nput, msgdata, i, offset, deaf, spc,
                     index, temp, lastnoverflow, printed, erased>>
      /\ CGoto(c, "overflow", "post_noverflow") /\ noverflow' = noverflow + 1
  BY DEF CountOverflow, CGoto, NextRound, server
<1>2. /\ cpc \in [Clients -> CLabels] /\ cpc' = [cpc EXCEPT ![c] = "post_noverflow"]
      /\ TypeOK /\ c \in started /\ i[c] < NLoop
  BY <1>1 DEF CGoto, IInv, TypeOK, Running
<1>3. Numeric /\ SlotTokens /\ MutexTokens /\ OverflowTokens
  BY Numbers
<1>4. TypeOK'
  BY <1>1, <1>2 DEF TypeOK, CLabels
<1>5. Zeroed'
  BY <1>1, <1>2, Labels DEF IInv, Zeroed
<1>6. Running'
  <2>1. deaf' \subseteq Waiting'
    BY <1>1, <1>2, ClientDeaf, ClientsAssumption DEF IInv, Running, Waiting
  <2> QED BY <1>1, <1>2, <2>1 DEF IInv, Running
<1>7. SlotTokens' /\ MutexTokens' /\ OverflowTokens'
  BY <1>1, <1>3, ClientMove, Members
     DEF Numeric, SlotTokens, MutexTokens, OverflowTokens, Server1
<1>8. Sums'
  <2>1. Sent' = Sent /\ Stored' = Stored /\ Printed' = Printed
    BY <1>1, SentStays DEF Stored, Server1, Printed
  <2>2. At(Done)' = At(Done) + 1
    BY <1>1, <1>3, ClientMove, Members DEF Numeric
  <2> QED BY <1>1, <2>1, <2>2, SumNumbers DEF Sums
<1>9. \A d \in Clients : (Alone(d) => InOrder(d))'
  <2>1. RingStays
    BY <1>1 DEF RingStays, Stored, Server1
  <2>2. KeepsPlace(c)
    BY <1>1, <1>2 DEF KeepsPlace, Reserved, CGoto
  <2> QED BY <1>2, <2>1, <2>2, ClientOrder
<1> QED BY <1>4, <1>5, <1>6, <1>7, <1>8, <1>9, Accounts DEF IInv

\* The post of noverflowmutex, with which the round ends.
LEMMA OverflowPostKeeps ==
  ASSUME IInv, NEW c \in Clients, CountOverflow(c), cpc[c] = "post_noverflow"
  PROVE  IInv'
<1>1. /\ UNCHANGED <<started, nput, noverflow, msgdata, offset, spc,
                     index, temp, lastnoverflow, printed, erased>>
      /\ NextRound(c, "post_noverflow") /\ PostNoverflow
  BY DEF CountOverflow, CGoto, NextRound, server
<1>2. PICK to \in {"trywait", "exit"} :
        /\ CGoto(c, "post_noverflow", to) /\ cpc' = [cpc EXCEPT ![c] = to]
        /\ to # "exit" => i[c] + 1 < NLoop
  BY <1>1 DEF NextRound, CGoto
<1>3. /\ cpc \in [Clients -> CLabels] /\ i \in [Clients -> 0 .. NLoop]
      /\ i' = [i EXCEPT ![c] = i[c] + 1] /\ TypeOK /\ c \in started /\ i[c] < NLoop
      /\ sem \in [SemNames -> Nat]
  BY <1>1 DEF NextRound, IInv, TypeOK, Running
<1>4. /\ sem' = [sem EXCEPT !["noverflowmutex"] = sem["noverflowmutex"] + 1]
      /\ deaf' \subseteq Waiting /\ c \notin deaf' /\ deaf' \subseteq started \cup {"server"}
  BY <1>1, <1>3, PostDeaf, WaitingType, ClientsAssumption
     DEF IInv, Running, Waiting, PostNoverflow, SemPost
<1>5. Numeric /\ SlotTokens /\ MutexTokens /\ OverflowTokens
  BY Numbers
<1>6. /\ sem' \in [SemNames -> Nat] /\ sem'["nempty"] = sem["nempty"]
      /\ sem'["mutex"] = sem["mutex"] /\ sem'["nstored"] = sem["nstored"]
      /\ sem'["noverflowmutex"] = sem["noverflowmutex"] + 1
  BY <1>3, <1>4 DEF SemNames
<1>7. TypeOK'
  <2>1. i' \in [Clients -> 0 .. NLoop]
    BY <1>3, NLoopAssumption
  <2> QED BY <1>1, <1>2, <1>3, <1>4, <1>6, <2>1 DEF TypeOK, CLabels
<1>8. Zeroed'
  BY <1>1, <1>2, <1>3, <1>6, Labels DEF IInv, Zeroed
<1>9. Running'
  <2>1. deaf' \subseteq Waiting'
    BY <1>1, <1>2, <1>3, <1>4, ClientDeaf
  <2>2. \A d \in Clients : d # c => i'[d] = i[d] /\ cpc'[d] = cpc[d]
    BY <1>2, <1>3
  <2>3. i'[c] = i[c] + 1 /\ cpc'[c] = to
    BY <1>2, <1>3
  <2> QED BY <1>1, <1>2, <1>3, <2>1, <2>2, <2>3 DEF IInv, Running
<1>10. SlotTokens' /\ MutexTokens' /\ OverflowTokens'
  <2>1. /\ At(Holding)' = At(Holding) /\ At(Locking)' = At(Locking)
        /\ At(Counted)' = At(Counted) - 1
    BY <1>2, <1>5, ClientMove, Members DEF Numeric
  <2> QED BY <1>1, <1>5, <1>6, <2>1
          DEF Numeric, SlotTokens, MutexTokens, OverflowTokens, Server1
<1>11. Sums'
  <2>1. Stored' = Stored /\ Printed' = Printed /\ noverflow' = noverflow /\ erased' = erased
    BY <1>1, <1>6 DEF Stored, Server1, Printed
  <2>2. At(Done)' = At(Done) - 1
    BY <1>2, <1>5, ClientMove, Members DEF Numeric
  <2>3. IsFiniteSet(Sent)' /\ Cardinality(Sent)' = Cardinality(Sent) + 1
    BY <1>1, <1>3, SentGrows, SumNumbers
  <2> QED BY <2>1, <2>2, <2>3, SumNumbers DEF Sums
<1>12. \A d \in Clients : (Alone(d) => InOrder(d))'
  <2>1. RingStays
    BY <1>1, <1>6 DEF RingStays, Stored, Server1
  <2>2. KeepsPlace(c)
    BY <1>2, <1>3, NLoopAssumption DEF KeepsPlace, Reserved
  <2> QED BY <1>3, <2>1, <2>2, ClientOrder
<1> QED BY <1>7, <1>8, <1>9, <1>10, <1>11, <1>12, Accounts DEF IInv

\* The overflow of a message, from sem_wait to sem_post.
LEMMA OverflowKeeps ==
  ASSUME IInv, NEW c \in Clients, CountOverflow(c)
  PROVE  IInv'
<1>1. CASE cpc[c] = "wait_noverflow"
  <2>1. /\ UNCHANGED <<started, nput, noverflow, msgdata, i, offset, deaf, spc,
                       index, temp, lastnoverflow, printed, erased>>
        /\ CGoto(c, "wait_noverflow", "overflow") /\ sem["noverflowmutex"] > 0
        /\ sem' = [sem EXCEPT !["noverflowmutex"] = sem["noverflowmutex"] - 1]
        /\ c \notin deaf
    BY <1>1 DEF CountOverflow, CGoto, NextRound, SemWait, server
  <2>2. i[c] < NLoop /\ sem \in [SemNames -> Nat]
    BY <1>1 DEF IInv, Running, TypeOK
  <2>3. SemStep(c, "wait_noverflow", "overflow")
    BY <2>1, <2>2, Numbers, Members DEF SemStep, Numeric, CLabels, Reserved, SemNames
  <2> QED BY <2>3, SemStepKeeps
<1>2. cpc[c] \in {"wait_noverflow", "overflow", "post_noverflow"}
  BY DEF CountOverflow, CGoto, NextRound
<1> QED BY <1>1, <1>2, CountKeeps, OverflowPostKeeps

\* The reservation of a slot, under mutex.
LEMMA ReserveSlotKeeps ==
  ASSUME IInv, NEW c \in Clients, Reserve(c), cpc[c] = "reserve"
  PROVE  IInv'
<1>1. /\ UNCHANGED <<started, sem, noverflow, msgdata, i, deaf, spc,
                     index, temp, lastnoverflow, printed, erased>>
      /\ CGoto(c, "reserve", "post_mutex") /\ nput' = Next1(nput)
      /\ offset' = [offset EXCEPT ![c] = nput]
  BY DEF Reserve, CGoto, server
<1>2. /\ cpc \in [Clients -> CLabels] /\ cpc' = [cpc EXCEPT ![c] = "post_mutex"]
      /\ TypeOK /\ c \in started /\ i[c] < NLoop
  BY <1>1 DEF CGoto, IInv, TypeOK, Running
<1>3. Numeric /\ SlotTokens /\ MutexTokens /\ OverflowTokens
  BY Numbers
<1>4. TypeOK'
  <2>1. Next1(nput) \in 0 .. NMESG - 1
    BY <1>2, Types DEF Next1
  <2> QED BY <1>1, <1>2, <2>1 DEF TypeOK, CLabels, Slots
<1>5. Zeroed'
  BY <1>1, <1>2, Labels DEF IInv, Zeroed
<1>6. Running'
  <2>1. deaf' \subseteq Waiting'
    BY <1>1, <1>2, ClientDeaf, ClientsAssumption DEF IInv, Running, Waiting
  <2> QED BY <1>1, <1>2, <2>1 DEF IInv, Running
<1>7. SlotTokens' /\ MutexTokens' /\ OverflowTokens'
  BY <1>1, <1>3, ClientMove, Members
     DEF Numeric, SlotTokens, MutexTokens, OverflowTokens, Server1
<1>8. Sums'
  <2>1. Sent' = Sent /\ Stored' = Stored /\ Printed' = Printed
    BY <1>1, SentStays DEF Stored, Server1, Printed
  <2>2. At(Done)' = At(Done)
    BY <1>1, <1>3, ClientMove, Members DEF Numeric
  <2> QED BY <1>1, <2>1, <2>2, SumNumbers DEF Sums
<1>9. \A d \in Clients : (Alone(d) => InOrder(d))'
  <2>1. \A d \in Clients : Alone(d)' => d = c /\ Alone(c)
    BY <1>1, <1>2 DEF Alone
  <2> SUFFICES ASSUME Alone(c) PROVE InOrder(c)'
    BY <2>1
  <2>2. Stored \in 0 .. NMESG - 1
    BY <1>1, Room, Labels DEF CGoto
  <2>3. nput = Place(Stored) /\ nput' = Place(Stored + 1)
    BY <1>1, <1>2, <2>2, PlaceNext DEF IInv, InOrder, CGoto, Reserved
  <2>4. offset'[c] = nput /\ cpc'[c] = "post_mutex"
    BY <1>1, <1>2, Types
  <2>5. /\ Posted' = Posted /\ Stored' = Stored
        /\ \A k : Place(k)' = Place(k) /\ Message(k)' = Message(k)
    BY <1>1 DEF Printed, Posted, Place, Message, Stored, Server1
  <2> QED BY <1>1, <2>3, <2>4, <2>5 DEF IInv, InOrder, Reserved
<1> QED BY <1>4, <1>5, <1>6, <1>7, <1>8, <1>9, Accounts DEF IInv

\* The reservation, from sem_wait to sem_post.
LEMMA ReserveKeeps ==
  ASSUME IInv, NEW c \in Clients, Reserve(c)
  PROVE  IInv'
<1>1. CASE cpc[c] # "reserve"
  <2>1. /\ UNCHANGED <<started, nput, noverflow, msgdata, i, offset, deaf, spc,
                       index, temp, lastnoverflow, printed, erased>>
        /\ \/ /\ CGoto(c, "wait_mutex", "reserve") /\ sem["mutex"] > 0
              /\ sem' = [sem EXCEPT !["mutex"] = sem["mutex"] - 1]
           \/ /\ CGoto(c, "post_mutex", "copy")
              /\ sem' = [sem EXCEPT !["mutex"] = sem["mutex"] + 1]
    BY <1>1 DEF Reserve, CGoto, SemWait, SemPost, server
  <2>2. c \notin deaf /\ i[c] < NLoop /\ sem \in [SemNames -> Nat]
    BY <2>1, ClientsAssumption DEF IInv, Running, Waiting, CGoto, TypeOK
  <2>3. SemStep(c, "wait_mutex", "reserve") \/ SemStep(c, "post_mutex", "copy")
    BY <2>1, <2>2, Numbers, Members DEF SemStep, Numeric, CLabels, Reserved, SemNames
  <2> QED BY <2>3, SemStepKeeps
<1> QED BY <1>1, ReserveSlotKeeps

\* The copy of the message, outside mutex, into a slot that is not stored.
LEMMA CopyKeeps ==
  ASSUME IInv, NEW c \in Clients, Copy(c)
  PROVE  IInv'
<1>1. /\ UNCHANGED <<started, sem, nput, noverflow, i, offset, deaf, spc,
                     index, temp, lastnoverflow, printed, erased>>
      /\ \/ CGoto(c, "copy", "copying") /\ msgdata' = [msgdata EXCEPT ![offset[c]] = Torn]
         \/ /\ CGoto(c, "copying", "post_nstored")
            /\ msgdata' = [msgdata EXCEPT ![offset[c]] = <<c, i[c]>>]
  BY DEF Copy, server
<1>2. /\ cpc \in [Clients -> CLabels] /\ cpc[c] \in {"copy", "copying"}
      /\ \/ cpc' = [cpc EXCEPT ![c] = "copying"]
         \/ cpc' = [cpc EXCEPT ![c] = "post_nstored"]
      /\ TypeOK /\ c \in started /\ i[c] < NLoop
  BY <1>1 DEF CGoto, IInv, TypeOK, Running
<1>3. Numeric /\ SlotTokens /\ MutexTokens /\ OverflowTokens
  BY Numbers
<1>4. TypeOK'
  <2>1. Torn \in Texts /\ <<c, i[c]>> \in Texts
    BY <1>2, Types DEF Texts
  <2>2. msgdata' \in [Slots -> Texts]
    BY <1>1, <2>1, <1>2 DEF TypeOK
  <2> QED BY <1>1, <1>2, <2>2 DEF TypeOK, CLabels
<1>5. Zeroed'
  BY <1>1, <1>2, Labels DEF IInv, Zeroed
<1>6. Running'
  <2>1. deaf' \subseteq Waiting'
    BY <1>1, <1>2, ClientDeaf, ClientsAssumption DEF IInv, Running, Waiting
  <2> QED BY <1>1, <1>2, <2>1 DEF IInv, Running
<1>7. SlotTokens' /\ MutexTokens' /\ OverflowTokens'
  BY <1>1, <1>3, ClientMove, Members
     DEF Numeric, SlotTokens, MutexTokens, OverflowTokens, Server1
<1>8. Sums'
  <2>1. Sent' = Sent /\ Stored' = Stored /\ Printed' = Printed
    BY <1>1, SentStays DEF Stored, Server1, Printed
  <2>2. At(Done)' = At(Done)
    BY <1>1, <1>3, ClientMove, Members DEF Numeric
  <2> QED BY <1>1, <2>1, <2>2, SumNumbers DEF Sums
<1>9. \A d \in Clients : (Alone(d) => InOrder(d))'
  <2>1. \A d \in Clients : Alone(d)' => d = c /\ Alone(c)
    BY <1>1, <1>2 DEF Alone
  <2> SUFFICES ASSUME Alone(c) PROVE InOrder(c)'
    BY <2>1
  <2>2. Stored \in 0 .. NMESG - 1
    BY <1>2, Room, Labels
  <2>3. offset[c] = Place(Stored) /\ nput = Place(Stored + 1) /\ offset[c] \in 0 .. NMESG - 1
    BY <1>2, Types DEF IInv, InOrder, Reserved
  <2>4. /\ Posted' = Posted /\ Stored' = Stored /\ \A k : Place(k)' = Place(k)
    BY <1>1 DEF Printed, Posted, Place, Stored, Server1
  <2>5. ASSUME NEW k \in Posted PROVE Message(k)' = Message(k)
    <3>1. CASE k =< Printed
      BY <1>1, <3>1 DEF Message, Printed
    <3>2. CASE ~(k =< Printed)
      <4>1. k - Printed - 1 \in 0 .. NMESG - 1 /\ k - Printed - 1 # Stored
        BY <1>2, <2>2, <3>2, Types DEF Posted
      <4>2. Place(k - Printed - 1) # offset[c]
        BY <1>2, <2>2, <2>3, <4>1, PlaceDistinct
      <4>3. msgdata'[Place(k - Printed - 1)] = msgdata[Place(k - Printed - 1)]
        BY <1>1, <1>2, <4>1, <4>2, PlaceType, Types
      <4> QED BY <1>1, <2>4, <3>2, <4>3 DEF Message, Printed
    <3> QED BY <3>1, <3>2
  <2>6. cpc'[c] = "post_nstored" => msgdata'[offset[c]] = <<c, i[c]>>
    BY <1>1, <1>2, <2>3, Types DEF CGoto
  <2>7. cpc'[c] \in Reserved
    BY <1>2 DEF Reserved
  <2>8. \A k \in Posted : k > 1 => k - 1 \in Posted
    BY <1>2, Types DEF Posted
  <2> QED BY <1>1, <2>3, <2>4, <2>5, <2>6, <2>7, <2>8 DEF IInv, InOrder
<1> QED BY <1>4, <1>5, <1>6, <1>7, <1>8, <1>9, Accounts DEF IInv

\* The post of nstored, with which the round ends: one message more.
LEMMA PostStoredKeeps ==
  ASSUME IInv, NEW c \in Clients, PostStored(c)
  PROVE  IInv'
<1>1. /\ UNCHANGED <<started, nput, noverflow, msgdata, offset, deaf, spc,
                     index, temp, lastnoverflow, printed, erased>>
      /\ NextRound(c, "post_nstored") /\ SemPost("nstored")
  BY DEF PostStored, server
<1>2. PICK to \in {"trywait", "exit"} :
        /\ CGoto(c, "post_nstored", to) /\ cpc' = [cpc EXCEPT ![c] = to]
        /\ to # "exit" => i[c] + 1 < NLoop
  BY <1>1 DEF NextRound, CGoto
<1>3. /\ cpc \in [Clients -> CLabels] /\ i \in [Clients -> 0 .. NLoop]
      /\ cpc[c] = "post_nstored" /\ i' = [i EXCEPT ![c] = i[c] + 1]
      /\ TypeOK /\ c \in started /\ i[c] < NLoop /\ sem \in [SemNames -> Nat]
  BY <1>1 DEF NextRound, CGoto, IInv, TypeOK, Running
<1>4. /\ sem' \in [SemNames -> Nat] /\ sem'["nempty"] = sem["nempty"]
      /\ sem'["mutex"] = sem["mutex"] /\ sem'["nstored"] = sem["nstored"] + 1
      /\ sem'["noverflowmutex"] = sem["noverflowmutex"]
  BY <1>1, <1>3 DEF SemNames, SemPost
<1>5. Numeric /\ SlotTokens /\ MutexTokens /\ OverflowTokens
  BY Numbers
<1>6. i'[c] = i[c] + 1 /\ cpc'[c] = to /\ i[c] \in Nat
  BY <1>2, <1>3, NLoopAssumption
<1>7. TypeOK'
  <2>1. i' \in [Clients -> 0 .. NLoop]
    BY <1>3, NLoopAssumption
  <2> QED BY <1>1, <1>2, <1>3, <1>4, <2>1 DEF TypeOK, CLabels
<1>8. Zeroed'
  BY <1>1, <1>2, <1>3, <1>4, Labels DEF IInv, Zeroed
<1>9. Running'
  <2>1. deaf' \subseteq Waiting'
    BY <1>1, <1>2, <1>3, ClientDeaf, ClientsAssumption DEF IInv, Running, Waiting
  <2>2. \A d \in Clients : d # c => i'[d] = i[d] /\ cpc'[d] = cpc[d]
    BY <1>2, <1>3
  <2> QED BY <1>1, <1>2, <1>3, <1>6, <2>1, <2>2 DEF IInv, Running
<1>10. SlotTokens' /\ MutexTokens' /\ OverflowTokens'
  <2>1. /\ At(Holding)' = At(Holding) - 1 /\ At(Locking)' = At(Locking)
        /\ At(Counted)' = At(Counted)
    BY <1>2, <1>5, ClientMove, Members DEF Numeric
  <2> QED BY <1>1, <1>4, <1>5, <2>1
          DEF Numeric, SlotTokens, MutexTokens, OverflowTokens, Server1
<1>11. Stored' = Stored + 1 /\ Printed' = Printed
  BY <1>1, <1>4, <1>5 DEF Numeric, Stored, Server1, Printed
<1>12. Sums'
  <2>1. At(Done)' = At(Done)
    BY <1>2, <1>5, ClientMove, Members DEF Numeric
  <2>2. IsFiniteSet(Sent)' /\ Cardinality(Sent)' = Cardinality(Sent) + 1
    BY <1>1, <1>3, SentGrows, SumNumbers
  <2> QED BY <1>1, <1>11, <2>1, <2>2, SumNumbers DEF Sums
<1>13. \A d \in Clients : (Alone(d) => InOrder(d))'
  <2>1. \A d \in Clients : Alone(d)' => d = c /\ Alone(c)
    BY <1>1, <1>3 DEF Alone
  <2> SUFFICES ASSUME Alone(c) PROVE InOrder(c)'
    BY <2>1
  <2>2. /\ offset[c] = Place(Stored) /\ nput = Place(Stored + 1)
        /\ msgdata[offset[c]] = <<c, i[c]>>
        /\ \A k \in Posted : \E m \in 0 .. i[c] - 1 : Message(k) = <<c, m>>
        /\ \A k \in Posted : k > 1 => Message(k - 1)[2] < Message(k)[2]
    BY <1>3 DEF IInv, InOrder, Reserved
  <2>3. \A k : Place(k)' = Place(k) /\ Message(k)' = Message(k)
    BY <1>1 DEF Printed, Place, Message
  <2> DEFINE n == Printed + Stored + 1
  <2>4. /\ n \in Nat /\ Posted = 1 .. n - 1 /\ Posted' = 1 .. n
    <3>1. Printed \in Nat /\ Stored \in Nat
      BY <1>3, Types
    <3> QED BY <1>11, <3>1 DEF Posted
  <2>5. Message(n) = <<c, i[c]>>
    <3>1. ~(n =< Printed) /\ n - Printed - 1 = Stored
      BY <1>3, Types
    <3> QED BY <2>2, <3>1 DEF Message
  <2> HIDE DEF n
  <2>6. \A k \in 1 .. n : \E m \in 0 .. i'[c] - 1 : Message(k) = <<c, m>>
    <3>1. ASSUME NEW k \in 1 .. n - 1
          PROVE  \E m \in 0 .. i'[c] - 1 : Message(k) = <<c, m>>
      BY <1>6, <2>2, <2>4
    <3>2. \E m \in 0 .. i'[c] - 1 : Message(n) = <<c, m>>
      BY <1>6, <2>5
    <3> QED BY <2>4, <3>1, <3>2
  <2>7. \A k \in 1 .. n : k > 1 => Message(k - 1)[2] < Message(k)[2]
    <3>1. ASSUME NEW k \in 1 .. n - 1, k > 1
          PROVE  Message(k - 1)[2] < Message(k)[2]
      BY <2>2, <2>4, <3>1
    <3>2. ASSUME n > 1
          PROVE  Message(n - 1)[2] < Message(n)[2]
      <4>1. PICK m \in 0 .. i[c] - 1 : Message(n - 1) = <<c, m>>
        BY <2>2, <2>4, <3>2
      <4> QED BY <1>6, <2>5, <4>1
    <3> QED BY <2>4, <3>1, <3>2
  <2>8. cpc'[c] \notin Reserved /\ cpc'[c] # "post_nstored"
    BY <1>2, <1>6 DEF Reserved
  <2> QED BY <1>1, <1>11, <2>2, <2>3, <2>4, <2>6, <2>7, <2>8 DEF InOrder
<1> QED BY <1>7, <1>8, <1>9, <1>10, <1>12, <1>13, Accounts DEF IInv

\* Every step of a client keeps the invariant.
LEMMA ClientKeeps == ASSUME IInv, NEW c \in Clients, Client(c) PROVE IInv'
BY OpenKeeps, TryWaitKeeps, OverflowKeeps, ReserveKeeps, CopyKeeps, PostStoredKeeps
   DEF Client

-----------------------------------------------------------------------------
(* The steps of the server *)

\* The server moves on, and neither takes, stores, sends nor erases a message.
ServerStep(from, to) ==
  /\ SGoto(from, to) /\ from \in SLabels /\ to \in SLabels
  /\ RingStays /\ UNCHANGED <<i, cpc, noverflow>>

\* What such a step leaves alone.
LEMMA ServerStepKeeps ==
  ASSUME IInv, NEW from, NEW to, ServerStep(from, to),
         deaf' \subseteq Waiting, "server" \notin deaf'
  PROVE  /\ Running' /\ Sums' /\ \A d \in Clients : (Alone(d) => InOrder(d))'
         /\ At(Holding)' = At(Holding) /\ At(Locking)' = At(Locking)
         /\ At(Counted)' = At(Counted) /\ deaf' \subseteq started \cup {"server"}
<1>1. UNCHANGED <<started, nput, msgdata, offset, index, printed, erased, Stored, i, cpc, noverflow>>
  BY DEF ServerStep, RingStays
<1>2. Running'
  <2>1. deaf' \subseteq Waiting'
    BY <1>1, ServerDeaf
  <2> QED BY <1>1, <2>1 DEF IInv, Running
<1>3. Sums'
  <2>1. Sent' = Sent /\ At(Done)' = At(Done) /\ Printed' = Printed
    BY <1>1, SentStays, AtStay DEF Printed
  <2> QED BY <1>1, <2>1 DEF IInv, Sums
<1>4. \A d \in Clients : (Alone(d) => InOrder(d))'
  BY <1>1, ServerOrder DEF ServerStep
<1>5. /\ At(Holding)' = At(Holding) /\ At(Locking)' = At(Locking)
      /\ At(Counted)' = At(Counted)
  BY <1>1, AtStay
<1>6. deaf' \subseteq started \cup {"server"}
  BY WaitingType DEF IInv
<1> QED BY <1>2, <1>3, <1>4, <1>5, <1>6

\* Making the shared memory.
LEMMA CreateKeeps ==
  ASSUME IInv, Create
  PROVE  IInv'
<1>1. /\ UNCHANGED <<started, sem, nput, noverflow, msgdata, cpc, i, offset,
                     index, temp, lastnoverflow, deaf, printed, erased>>
      /\ spc = "create" /\ spc' = "init_mutex"
  BY DEF Create, SGoto, client
<1>2. ServerStep("create", "init_mutex") /\ deaf' \subseteq Waiting /\ "server" \notin deaf'
  <2>1. Stored' = Stored
    BY <1>1 DEF Stored, Server1
  <2> QED BY <1>1, <2>1, ClientsAssumption
          DEF ServerStep, RingStays, SGoto, SLabels, IInv, Running, Waiting
<1>3. Numeric /\ SlotTokens /\ MutexTokens /\ OverflowTokens
  BY Numbers
<1>4. TypeOK'
  BY <1>1 DEF IInv, TypeOK, SLabels
<1>5. Zeroed'
  BY <1>1 DEF IInv, Zeroed, NoMutex, NoEmpty, NoStored, NoOverflow
<1>6. SlotTokens' /\ MutexTokens' /\ OverflowTokens'
  BY <1>1 DEF SlotTokens, MutexTokens, OverflowTokens, NoMutex, NoEmpty, NoStored, NoOverflow
<1> QED BY <1>2, <1>4, <1>5, <1>6, ServerStepKeeps, Accounts DEF IInv

\* Before its sem_init a semaphore counts nobody.
LEMMA NobodyYet ==
  ASSUME IInv
  PROVE  /\ spc \in NoEmpty => At(Holding) = 0 /\ At(Locking) = 0
         /\ spc \in NoOverflow => At(Counted) = 0
<1>1. \A l : l \in Locking => l \in Holding
  BY Labels
<1> QED BY <1>1, AtZero DEF IInv, Zeroed

\* sem_init of mutex and of nempty.
LEMMA InitFirstKeeps ==
  ASSUME IInv, InitSems, spc \in NoEmpty
  PROVE  IInv'
<1>1. /\ UNCHANGED <<started, nput, noverflow, msgdata, cpc, i, offset, index, temp,
                     lastnoverflow, deaf, printed, erased>>
      /\ \/ /\ spc = "init_mutex" /\ spc' = "init_nempty"
            /\ sem' = [sem EXCEPT !["mutex"] = 1]
         \/ /\ spc = "init_nempty" /\ spc' = "init_nstored"
            /\ sem' = [sem EXCEPT !["nempty"] = NMESG]
  BY DEF InitSems, SemInit, SGoto, client, NoEmpty, NoMutex
<1>2. /\ TypeOK /\ sem' \in [SemNames -> Nat]
      /\ sem'["nstored"] = sem["nstored"] /\ sem'["noverflowmutex"] = sem["noverflowmutex"]
      /\ spc = "init_mutex" => sem'["mutex"] = 1 /\ sem'["nempty"] = sem["nempty"]
      /\ spc = "init_nempty" => sem'["nempty"] = NMESG /\ sem'["mutex"] = sem["mutex"]
  BY <1>1, NMESGAssumption DEF IInv, TypeOK, SemNames
<1>3. /\ ServerStep("init_mutex", "init_nempty") \/ ServerStep("init_nempty", "init_nstored")
      /\ deaf' \subseteq Waiting /\ "server" \notin deaf'
  <2>1. Stored' = Stored
    BY <1>1, <1>2 DEF Stored, Server1
  <2> QED BY <1>1, <2>1, ClientsAssumption
          DEF ServerStep, RingStays, SGoto, SLabels, IInv, Running, Waiting
<1>4. Numeric /\ SlotTokens /\ MutexTokens /\ OverflowTokens
  BY Numbers
<1>5. TypeOK'
  BY <1>1, <1>2 DEF TypeOK, SLabels
<1>6. Zeroed'
  BY <1>1, <1>2 DEF IInv, Zeroed, NoMutex, NoEmpty, NoStored, NoOverflow
<1>7. SlotTokens' /\ MutexTokens' /\ OverflowTokens'
  <2>1. At(Holding)' = 0 /\ At(Locking)' = 0
    BY <1>1, NobodyYet, AtStay
  <2>2. spc' \in NoOverflow /\ (spc = "init_mutex" => spc' \in NoEmpty) /\ spc \notin {"create"}
    BY <1>1 DEF NoMutex, NoEmpty, NoStored, NoOverflow
  <2>3. Server1(SHolding)' = 0 /\ Server1(SLocking)' = 0 /\ Server1(SLocking) = 0
    BY <1>1 DEF Server1, SHolding, SLocking
  <2>4. spc = "init_nempty" => sem["mutex"] = 1 /\ sem["nstored"] = 0 /\ erased = 0
    BY <1>4, <2>3, NobodyYet
       DEF IInv, Zeroed, MutexTokens, NoMutex, NoEmpty, NoStored, Numeric
  <2> QED BY <1>1, <1>2, <1>4, <2>1, <2>2, <2>3, <2>4
          DEF SlotTokens, MutexTokens, OverflowTokens, Numeric
<1> QED BY <1>3, <1>5, <1>6, <1>7, ServerStepKeeps, Accounts DEF IInv

\* sem_init of nstored: what was posted before is erased.
LEMMA InitStoredKeeps ==
  ASSUME IInv, InitSems, spc = "init_nstored"
  PROVE  IInv'
<1>1. /\ UNCHANGED <<started, nput, noverflow, msgdata, cpc, i, offset, index, temp,
                     lastnoverflow, deaf, printed>>
      /\ spc' = "init_noverflow" /\ erased' = sem["nstored"]
      /\ sem' = [sem EXCEPT !["nstored"] = 0]
  BY DEF InitSems, SemInit, SGoto, client
<1>2. /\ TypeOK /\ sem' \in [SemNames -> Nat] /\ sem'["nstored"] = 0
      /\ sem'["noverflowmutex"] = sem["noverflowmutex"]
      /\ sem'["mutex"] = sem["mutex"] /\ sem'["nempty"] = sem["nempty"]
  BY <1>1 DEF IInv, TypeOK, SemNames
<1>3. Numeric /\ SlotTokens /\ MutexTokens /\ OverflowTokens
  BY Numbers
<1>4. erased = 0 /\ sem["nempty"] + sem["nstored"] + At(Holding) = NMESG
  <2>1. spc \notin NoEmpty /\ spc \in NoStored /\ Server1(SHolding) = 0
    BY DEF NoMutex, NoEmpty, NoStored, Server1, SHolding
  <2> QED BY <1>3, <2>1 DEF IInv, Zeroed, Numeric, SlotTokens
<1>5. /\ At(Holding)' = At(Holding) /\ At(Locking)' = At(Locking)
      /\ At(Counted)' = At(Counted) /\ At(Done)' = At(Done)
  BY <1>1, AtStay
<1>6. TypeOK'
  <2>1. erased' \in 0 .. NMESG
    BY <1>1, <1>3, <1>4 DEF Numeric
  <2> QED BY <1>1, <1>2, <2>1 DEF TypeOK, SLabels
<1>7. Zeroed'
  BY <1>1, <1>2 DEF IInv, Zeroed, NoMutex, NoEmpty, NoStored, NoOverflow
<1>8. Running'
  <2>1. deaf' \subseteq Waiting'
    BY <1>1, ClientsAssumption DEF IInv, Running, Waiting
  <2> QED BY <1>1, <2>1 DEF IInv, Running
<1>9. SlotTokens' /\ MutexTokens' /\ OverflowTokens'
  <2>1. /\ Server1(SHolding)' = 0 /\ Server1(SLocking)' = 0 /\ Server1(SLocking) = 0
        /\ spc' \in NoOverflow /\ spc \notin NoMutex
    BY <1>1 DEF Server1, SHolding, SLocking, NoMutex, NoEmpty, NoStored, NoOverflow
  <2> QED BY <1>1, <1>2, <1>3, <1>4, <1>5, <2>1
          DEF SlotTokens, MutexTokens, OverflowTokens, Numeric
<1>10. Stored = sem["nstored"] /\ Stored' = 0
  BY <1>1, <1>2, <1>3 DEF Stored, Server1, Numeric
<1>11. Sums'
  <2>1. Sent' = Sent /\ Printed' = Printed
    BY <1>1, SentStays DEF Printed
  <2> QED BY <1>1, <1>4, <1>5, <1>10, <2>1, SumNumbers DEF Sums
<1>12. \A d \in Clients : (Alone(d) => InOrder(d))'
  <2>1. CASE sem["nstored"] # 0
    BY <1>1, <2>1 DEF Alone
  <2>2. CASE sem["nstored"] = 0
    <3>1. RingStays /\ UNCHANGED <<i, cpc>>
      BY <1>1, <1>4, <1>10, <2>2 DEF RingStays
    <3> QED BY <3>1, ServerOrder
  <2> QED BY <2>1, <2>2
<1> QED BY <1>6, <1>7, <1>8, <1>9, <1>11, <1>12, Accounts DEF IInv

\* sem_init of noverflowmutex: who sleeps on it may go on sleeping.
LEMMA InitOverflowKeeps ==
  ASSUME IInv, InitSems, spc = "init_noverflow"
  PROVE  IInv'
<1>1. /\ UNCHANGED <<started, nput, noverflow, msgdata, cpc, i, offset, index, temp,
                     lastnoverflow, printed, erased>>
      /\ spc' = "wait_nstored" /\ deaf' \subseteq Waiting
      /\ sem' = [sem EXCEPT !["noverflowmutex"] = 1]
  BY DEF InitSems, SemInit, SGoto, client
<1>2. /\ TypeOK /\ sem' \in [SemNames -> Nat] /\ sem'["nstored"] = sem["nstored"]
      /\ sem'["noverflowmutex"] = 1
      /\ sem'["mutex"] = sem["mutex"] /\ sem'["nempty"] = sem["nempty"]
  BY <1>1 DEF IInv, TypeOK, SemNames
<1>3. /\ ServerStep("init_noverflow", "wait_nstored") /\ "server" \notin deaf'
  <2>1. Stored' = Stored
    BY <1>1, <1>2 DEF Stored, Server1
  <2> QED BY <1>1, <2>1, ClientsAssumption DEF ServerStep, RingStays, SGoto, SLabels, Waiting
<1>4. Numeric /\ SlotTokens /\ MutexTokens /\ OverflowTokens
  BY Numbers
<1>5. /\ Running' /\ Sums' /\ \A d \in Clients : (Alone(d) => InOrder(d))'
      /\ At(Holding)' = At(Holding) /\ At(Locking)' = At(Locking)
      /\ At(Counted)' = At(Counted) /\ deaf' \subseteq started \cup {"server"}
  BY <1>1, <1>3, ServerStepKeeps
<1>6. TypeOK'
  BY <1>1, <1>2, <1>5 DEF TypeOK, SLabels
<1>7. Zeroed'
  BY <1>1 DEF Zeroed, NoMutex, NoEmpty, NoStored, NoOverflow
<1>8. SlotTokens' /\ MutexTokens' /\ OverflowTokens'
  <2>1. /\ Server1(SHolding)' = 0 /\ Server1(SLocking)' = 0 /\ Server1(SCounted)' = 0
        /\ Server1(SHolding) = 0 /\ Server1(SLocking) = 0
        /\ spc \in NoOverflow /\ spc \notin NoMutex /\ spc \notin NoEmpty
    BY <1>1 DEF Server1, SHolding, SLocking, SCounted, NoMutex, NoEmpty, NoStored, NoOverflow
  <2> QED BY <1>1, <1>2, <1>4, <1>5, <2>1, NobodyYet
          DEF SlotTokens, MutexTokens, OverflowTokens, Numeric
<1> QED BY <1>5, <1>6, <1>7, <1>8, Accounts DEF IInv

\* A step of the server's loop that waits for or posts what its labels hold.
LoopStep(from, to) ==
  /\ ServerStep(from, to) /\ from \notin NoOverflow /\ to \notin NoOverflow
  /\ sem' \in [SemNames -> Nat] /\ temp' \in Nat /\ lastnoverflow' \in Nat
  /\ sem'["nempty"] + sem'["nstored"] + Member(to, SHolding)
       = sem["nempty"] + sem["nstored"] + Member(from, SHolding)
  /\ sem'["mutex"] + Member(to, SLocking) = sem["mutex"] + Member(from, SLocking)
  /\ sem'["noverflowmutex"] + Member(to, SCounted)
       = sem["noverflowmutex"] + Member(from, SCounted)
  /\ deaf' \subseteq Waiting /\ "server" \notin deaf'

\* Such a step keeps the invariant.
LEMMA LoopStepKeeps ==
  ASSUME IInv, NEW from, NEW to, LoopStep(from, to)
  PROVE  IInv'
<1> USE DEF LoopStep
<1>1. /\ UNCHANGED <<started, nput, noverflow, msgdata, cpc, i, offset, index, printed, erased>>
      /\ spc = from /\ spc' = to /\ to \in SLabels
  BY DEF ServerStep, RingStays, SGoto
<1>2. Numeric /\ SlotTokens /\ MutexTokens /\ OverflowTokens
  BY Numbers
<1>3. /\ Running' /\ Sums' /\ \A d \in Clients : (Alone(d) => InOrder(d))'
      /\ At(Holding)' = At(Holding) /\ At(Locking)' = At(Locking)
      /\ At(Counted)' = At(Counted) /\ deaf' \subseteq started \cup {"server"}
  BY ServerStepKeeps
<1>4. TypeOK'
  BY <1>1, <1>3 DEF IInv, TypeOK
<1>5. \A l : l \in NoMutex \/ l \in NoEmpty \/ l \in NoStored => l \in NoOverflow
  BY DEF NoMutex, NoEmpty, NoStored, NoOverflow
<1>6. Zeroed'
  BY <1>1, <1>5 DEF Zeroed
<1>7. SlotTokens' /\ MutexTokens' /\ OverflowTokens'
  <2>1. \A L : Server1(L) = Member(from, L) /\ Server1(L)' = Member(to, L)
    BY <1>1 DEF Server1, Member
  <2>2. /\ Member(from, SHolding) \in Nat /\ Member(to, SHolding) \in Nat
        /\ Member(from, SLocking) \in Nat /\ Member(to, SLocking) \in Nat
        /\ Member(from, SCounted) \in Nat /\ Member(to, SCounted) \in Nat
    BY DEF Member
  <2>3. /\ sem'["nempty"] \in Nat /\ sem'["nstored"] \in Nat /\ sem'["mutex"] \in Nat
        /\ sem'["noverflowmutex"] \in Nat
    BY DEF SemNames
  <2> QED BY <1>1, <1>2, <1>3, <1>5, <2>1, <2>2, <2>3
          DEF SlotTokens, MutexTokens, OverflowTokens, Numeric
<1> QED BY <1>3, <1>4, <1>6, <1>7, Accounts DEF IInv

\* Which labels of the server the accounts count.
LEMMA SMembers ==
  /\ \A l : Member(l, SHolding) = IF \/ l = "wait_mutex" \/ l = "print" \/ l = "post_mutex"
                                     \/ l = "post_nempty" THEN 1 ELSE 0
  /\ \A l : Member(l, SLocking) = IF l = "print" \/ l = "post_mutex" THEN 1 ELSE 0
  /\ \A l : Member(l, SCounted) = IF l = "read_noverflow" \/ l = "post_noverflow" THEN 1 ELSE 0
BY DEF Member, SHolding, SLocking, SCounted

\* The server sleeps unseen at no other label than its wait for noverflowmutex.
LEMMA ServerAwake ==
  ASSUME IInv, spc # "wait_noverflow" \/ "server" \notin deaf
  PROVE  deaf \subseteq Waiting /\ "server" \notin deaf
BY ClientsAssumption DEF IInv, Running, Waiting

\* The wait for a message and for mutex.
LEMMA TakeKeeps ==
  ASSUME IInv, ServerTake, spc # "print"
  PROVE  IInv'
<1>1. /\ UNCHANGED <<started, nput, noverflow, msgdata, cpc, i, offset, index, temp,
                     lastnoverflow, deaf, printed, erased>>
      /\ \/ /\ spc = "wait_nstored" /\ spc' = "wait_mutex" /\ sem["nstored"] > 0
            /\ sem' = [sem EXCEPT !["nstored"] = sem["nstored"] - 1]
         \/ /\ spc = "wait_mutex" /\ spc' = "print" /\ sem["mutex"] > 0
            /\ sem' = [sem EXCEPT !["mutex"] = sem["mutex"] - 1]
  BY DEF ServerTake, SemWait, SGoto, client
<1>2. Numeric
  BY Numbers
<1>3. /\ sem' \in [SemNames -> Nat] /\ sem'["nempty"] = sem["nempty"]
      /\ sem'["noverflowmutex"] = sem["noverflowmutex"]
      /\ spc = "wait_nstored" => /\ sem'["nstored"] = sem["nstored"] - 1
                                 /\ sem'["mutex"] = sem["mutex"]
      /\ spc = "wait_mutex" => /\ sem'["nstored"] = sem["nstored"]
                               /\ sem'["mutex"] = sem["mutex"] - 1
  BY <1>1, <1>2 DEF IInv, TypeOK, SemNames, Numeric
<1>4. Stored' = Stored
  BY <1>1, <1>2, <1>3 DEF Stored, Server1, Numeric
<1>5. ServerStep("wait_nstored", "wait_mutex") \/ ServerStep("wait_mutex", "print")
  BY <1>1, <1>4 DEF ServerStep, RingStays, SGoto, SLabels
<1>6. LoopStep("wait_nstored", "wait_mutex") \/ LoopStep("wait_mutex", "print")
  <2>1. temp' \in Nat /\ lastnoverflow' \in Nat /\ deaf' \subseteq Waiting /\ "server" \notin deaf'
    BY <1>1, ServerAwake DEF IInv, TypeOK
  <2>2. {"wait_nstored", "wait_mutex", "print"} \cap NoOverflow = {}
    BY DEF NoMutex, NoEmpty, NoStored, NoOverflow
  <2> QED BY <1>1, <1>2, <1>3, <1>5, <2>1, <2>2, SMembers DEF LoopStep, Numeric, ServerStep, SGoto
<1> QED BY <1>6, LoopStepKeeps

\* The posts of mutex and of nempty.
LEMMA ReleaseKeeps ==
  ASSUME IInv, ServerRelease
  PROVE  IInv'
<1>1. /\ UNCHANGED <<started, nput, noverflow, msgdata, cpc, i, offset, index, temp,
                     lastnoverflow, deaf, printed, erased>>
      /\ \/ /\ spc = "post_mutex" /\ spc' = "post_nempty"
            /\ sem' = [sem EXCEPT !["mutex"] = sem["mutex"] + 1]
         \/ /\ spc = "post_nempty" /\ spc' = "wait_noverflow"
            /\ sem' = [sem EXCEPT !["nempty"] = sem["nempty"] + 1]
  BY DEF ServerRelease, SemPost, SGoto, client
<1>2. Numeric
  BY Numbers
<1>3. /\ sem' \in [SemNames -> Nat] /\ sem'["nstored"] = sem["nstored"]
      /\ sem'["noverflowmutex"] = sem["noverflowmutex"]
      /\ spc = "post_mutex" => /\ sem'["nempty"] = sem["nempty"]
                               /\ sem'["mutex"] = sem["mutex"] + 1
      /\ spc = "post_nempty" => /\ sem'["nempty"] = sem["nempty"] + 1
                                /\ sem'["mutex"] = sem["mutex"]
  BY <1>1, <1>2 DEF IInv, TypeOK, SemNames, Numeric
<1>4. Stored' = Stored
  BY <1>1, <1>2, <1>3 DEF Stored, Server1, Numeric
<1>5. ServerStep("post_mutex", "post_nempty") \/ ServerStep("post_nempty", "wait_noverflow")
  BY <1>1, <1>4 DEF ServerStep, RingStays, SGoto, SLabels
<1>6. LoopStep("post_mutex", "post_nempty") \/ LoopStep("post_nempty", "wait_noverflow")
  <2>1. temp' \in Nat /\ lastnoverflow' \in Nat /\ deaf' \subseteq Waiting /\ "server" \notin deaf'
    BY <1>1, ServerAwake DEF IInv, TypeOK
  <2>2. {"post_mutex", "post_nempty", "wait_noverflow"} \cap NoOverflow = {}
    BY DEF NoMutex, NoEmpty, NoStored, NoOverflow
  <2> QED BY <1>1, <1>2, <1>3, <1>5, <2>1, <2>2, SMembers DEF LoopStep, Numeric, ServerStep, SGoto
<1> QED BY <1>6, LoopStepKeeps

\* The look at the overflow count.
LEMMA ServerOverflowKeeps ==
  ASSUME IInv, ServerOverflow
  PROVE  IInv'
<1>1. /\ UNCHANGED <<started, nput, noverflow, msgdata, cpc, i, offset, index, printed, erased>>
      /\ temp' \in {temp, noverflow} /\ lastnoverflow' \in {lastnoverflow, temp}
      /\ \/ /\ spc = "wait_noverflow" /\ spc' = "read_noverflow"
            /\ sem["noverflowmutex"] > 0 /\ "server" \notin deaf /\ deaf' = deaf
            /\ sem' = [sem EXCEPT !["noverflowmutex"] = sem["noverflowmutex"] - 1]
         \/ /\ spc = "read_noverflow" /\ spc' = "post_noverflow"
            /\ deaf' = deaf /\ sem' = sem
         \/ /\ spc = "post_noverflow" /\ spc' = "report" /\ PostNoverflow
            /\ sem' = [sem EXCEPT !["noverflowmutex"] = sem["noverflowmutex"] + 1]
         \/ spc = "report" /\ spc' = "wait_nstored" /\ deaf' = deaf /\ sem' = sem
  BY DEF ServerOverflow, SemWait, SemPost, SGoto, client, PostNoverflow
<1>2. Numeric
  BY Numbers
<1>3. /\ sem' \in [SemNames -> Nat] /\ sem'["nstored"] = sem["nstored"]
      /\ sem'["nempty"] = sem["nempty"] /\ sem'["mutex"] = sem["mutex"]
      /\ spc = "wait_noverflow" => sem'["noverflowmutex"] = sem["noverflowmutex"] - 1
      /\ spc = "post_noverflow" => sem'["noverflowmutex"] = sem["noverflowmutex"] + 1
      /\ spc \in {"read_noverflow", "report"} =>
           sem'["noverflowmutex"] = sem["noverflowmutex"]
  BY <1>1, <1>2 DEF IInv, TypeOK, SemNames, Numeric
<1>4. Stored' = Stored
  BY <1>1, <1>2, <1>3 DEF Stored, Server1, Numeric
<1>5. PICK from \in SLabels, to \in SLabels :
        spc = from /\ spc' = to /\ ServerStep(from, to)
  <2>1. spc \in SLabels /\ spc' \in SLabels
    BY <1>1 DEF SLabels
  <2>2. PICK from \in SLabels, to \in SLabels : spc = from /\ spc' = to
    BY <2>1
  <2>3. ServerStep(from, to)
    BY <1>1, <1>4, <2>2 DEF ServerStep, RingStays, SGoto
  <2> QED BY <2>2, <2>3
<1>6. temp' \in Nat /\ lastnoverflow' \in Nat /\ deaf' \subseteq Waiting /\ "server" \notin deaf'
  <2>1. temp' \in Nat /\ lastnoverflow' \in Nat
    BY <1>1 DEF IInv, TypeOK
  <2>2. CASE deaf' = deaf
    <3>1. spc # "wait_noverflow" \/ "server" \notin deaf
      BY <1>1
    <3> QED BY <2>1, <2>2, <3>1, ServerAwake
  <2>3. CASE spc = "post_noverflow" /\ PostNoverflow
    <3>1. deaf' \subseteq Waiting
      BY <2>3, PostDeaf DEF IInv, Running
    <3>2. "server" \notin Waiting
      BY <2>3, ClientsAssumption DEF Waiting
    <3> QED BY <2>1, <3>1, <3>2
  <2> QED BY <1>1, <2>1, <2>2, <2>3
<1>7. LoopStep(from, to)
  <2>1. from \notin NoOverflow /\ to \notin NoOverflow
    BY <1>1, <1>5 DEF NoMutex, NoEmpty, NoStored, NoOverflow
  <2> QED BY <1>1, <1>2, <1>3, <1>5, <1>6, <2>1, SMembers DEF LoopStep, Numeric
<1> QED BY <1>7, LoopStepKeeps

\* The printing of a message moves it from the ring to the output.
LEMMA PrintKeeps ==
  ASSUME IInv, ServerTake, spc = "print"
  PROVE  IInv'
<1>1. /\ UNCHANGED <<started, sem, nput, noverflow, msgdata, cpc, i, offset, temp,
                     lastnoverflow, deaf, erased>>
      /\ spc' = "post_mutex" /\ index' = Next1(index)
  BY DEF ServerTake, SGoto, client
<1>2. Numeric /\ SlotTokens /\ MutexTokens /\ OverflowTokens
  BY Numbers
<1>3. TypeOK /\ spc \notin NoOverflow /\ spc' \notin NoOverflow
  BY <1>1 DEF IInv, NoMutex, NoEmpty, NoStored, NoOverflow
<1>4. /\ At(Holding)' = At(Holding) /\ At(Locking)' = At(Locking)
      /\ At(Counted)' = At(Counted) /\ At(Done)' = At(Done)
  BY <1>1, AtStay
<1>5. /\ Stored = sem["nstored"] + 1 /\ Stored' = Stored - 1
      /\ Stored \in 1 .. NMESG
  <2>1. Stored = sem["nstored"] + 1 /\ Stored' = sem["nstored"]
    BY <1>1, <1>2 DEF Stored, Server1, Numeric
  <2>2. spc \notin NoEmpty /\ Server1(SHolding) = 1
    BY <1>3 DEF NoStored, NoOverflow, Server1, SHolding
  <2> QED BY <1>2, <2>1, <2>2 DEF SlotTokens, Numeric
<1>6. /\ Printed \in Nat /\ Printed' = Printed + 1 /\ printed' \in Seq(Texts)
      /\ \A k \in 1 .. Printed : printed'[k] = printed[k]
      /\ printed'[Printed + 1] = msgdata[index]
  <2>1. msgdata[index] \in Texts /\ printed \in Seq(Texts)
    BY <1>3, Types
  <2>2. printed' = Append(printed, msgdata[index])
    BY DEF ServerTake, SGoto
  <2> QED BY <2>1, <2>2 DEF Printed
<1>7. TypeOK'
  <2>1. index' \in Slots
    BY <1>1, <1>3, Types DEF Next1, Slots
  <2> QED BY <1>1, <1>3, <1>6, <2>1 DEF TypeOK, SLabels
<1>8. Zeroed'
  BY <1>3 DEF Zeroed, NoMutex, NoEmpty, NoStored, NoOverflow
<1>9. Running'
  <2>1. deaf' \subseteq Waiting'
    BY <1>1, ServerAwake, ServerDeaf
  <2> QED BY <1>1, <2>1 DEF IInv, Running
<1>10. SlotTokens' /\ MutexTokens' /\ OverflowTokens'
  <2>1. /\ Server1(SHolding)' = Server1(SHolding) /\ Server1(SLocking)' = Server1(SLocking)
        /\ Server1(SCounted)' = Server1(SCounted)
        /\ spc \notin NoMutex /\ spc \notin NoEmpty
    BY <1>1, <1>3 DEF Server1, SHolding, SLocking, SCounted, NoEmpty, NoStored, NoOverflow
  <2> QED BY <1>1, <1>2, <1>3, <1>4, <2>1 DEF SlotTokens, MutexTokens, OverflowTokens
<1>11. Sums'
  <2>1. Sent' = Sent
    BY <1>1, SentStays
  <2>2. Printed' = Printed + 1
    BY <1>6
  <2> QED BY <1>1, <1>4, <1>5, <2>1, <2>2, SumNumbers DEF Sums
<1>12. NMESG \in Nat \ {0} /\ index \in 0 .. NMESG - 1
  BY <1>3, Types
<1>13. Posted' = Posted /\ \A k \in Posted : Message(k)' = Message(k)
  <2>1. Posted' = Posted
    BY <1>5, <1>6 DEF Posted
  <2>2. ASSUME NEW k \in Posted PROVE Message(k)' = Message(k)
    <3>1. CASE k =< Printed
      BY <1>6, <2>2, <3>1 DEF Posted, Message
    <3>2. CASE k = Printed + 1
      <4>1. Place(0) = index
        BY <1>3, Types DEF Place
      <4>2. Message(k) = msgdata[index] /\ Message(k)' = msgdata[index]
        BY <1>6, <3>2, <4>1 DEF Message
      <4> QED BY <4>2
    <3>3. CASE k > Printed + 1
      <4>1. /\ Printed \in Nat /\ Printed' = Printed + 1 /\ Stored =< NMESG
            /\ k \in 1 .. Printed + Stored
        BY <1>5, <1>6, <2>2 DEF Posted
      <4>2. Place(k - Printed - 1)' = Place(k - Printed - 1)
        BY <1>1, <1>5, <1>12, <3>3, <4>1 DEF Place, Next1
      <4>3. /\ Message(k) = msgdata[Place(k - Printed - 1)]
            /\ Message(k)' = msgdata[Place(k - Printed - 1)']
        BY <1>1, <3>3, <4>1 DEF Message
      <4> QED BY <4>2, <4>3
    <3> QED BY <1>6, <3>1, <3>2, <3>3 DEF Posted
  <2> QED BY <2>1, <2>2
<1>14. \A d \in Clients : (Alone(d) => InOrder(d))'
  <2> SUFFICES ASSUME NEW d \in Clients, Alone(d) PROVE InOrder(d)'
    BY <1>1 DEF Alone
  <2>1. Place(Stored)' = Place(Stored)
    BY <1>1, <1>5, <1>12 DEF Place, Next1
  <2>2. cpc[d] \in Reserved => Place(Stored + 1)' = Place(Stored + 1)
    <3>1. cpc[d] \in Reserved => Stored \in 0 .. NMESG - 1
      BY Room, Labels DEF Reserved
    <3> QED BY <1>1, <1>5, <1>12, <3>1 DEF Place, Next1
  <2>3. \A k \in Posted : k > 1 => k - 1 \in Posted
    BY <1>3, Types DEF Posted
  <2> QED BY <1>1, <1>13, <2>1, <2>2, <2>3 DEF IInv, InOrder
<1> QED BY <1>7, <1>8, <1>9, <1>10, <1>11, <1>14, Accounts DEF IInv

\* Every step of the server keeps the invariant.
LEMMA ServerKeeps == ASSUME IInv, Server PROVE IInv'
<1>1. InitSems => spc \in NoEmpty \/ spc = "init_nstored" \/ spc = "init_noverflow"
  BY DEF InitSems, SGoto, NoEmpty, NoMutex
<1> QED BY <1>1, CreateKeeps, InitFirstKeeps, InitStoredKeeps, InitOverflowKeeps, TakeKeeps,
           PrintKeeps, ReleaseKeeps, ServerOverflowKeeps DEF Server

-----------------------------------------------------------------------------
(* The invariant and what follows from it *)

\* Nothing is initialised, sent or reserved at the start.
LEMMA InitIInv == ASSUME Init PROVE IInv
<1> USE DEF Init
<1>1. \A c \in Clients : cpc[c] \in {"open", "exit"} /\ i[c] = 0 /\ offset[c] = 0
  OBVIOUS
<1>2. TypeOK
  BY NMESGAssumption, NLoopAssumption
     DEF TypeOK, SemNames, Slots, Texts, Empty, CLabels, SLabels
<1>3. /\ sem["mutex"] = 0 /\ sem["nempty"] = 0 /\ sem["nstored"] = 0
      /\ sem["noverflowmutex"] = 0
  BY DEF SemNames
<1>4. \A c \in Clients : /\ cpc[c] \notin Holding /\ cpc[c] \notin Counted
                         /\ cpc[c] \notin Done /\ cpc[c] \notin Reserved
                         /\ cpc[c] # "post_nstored"
  BY <1>1, Labels DEF Reserved
<1>5. spc \in NoMutex /\ spc \in NoEmpty /\ spc \in NoStored /\ spc \in NoOverflow
  BY DEF NoMutex, NoEmpty, NoStored, NoOverflow
<1>6. Zeroed
  BY <1>3, <1>4 DEF Zeroed
<1>7. Running
  BY <1>1 DEF Running
<1>8. SlotTokens /\ MutexTokens /\ OverflowTokens
  BY <1>5 DEF SlotTokens, MutexTokens, OverflowTokens
<1>9. Printed = 0 /\ Stored = 0
  BY <1>3 DEF Printed, Stored, Server1
<1>10. Sums
  <2>1. \A c \in started : i[c] = 0
    OBVIOUS
  <2>2. Sent = {} /\ IsFiniteSet(Sent) /\ Cardinality(Sent) = 0
    BY <2>1, SentRounds, RoundsInit
  <2>3. At(Done) = 0
    BY <1>4, AtZero
  <2> QED BY <1>9, <2>2, <2>3 DEF Sums
<1>11. \A c \in Clients : InOrder(c)
  <2>1. Posted = {} /\ Place(0) = 0
    BY <1>9, NMESGAssumption DEF Posted, Place
  <2> QED BY <1>4, <1>9, <2>1 DEF InOrder
<1> QED BY <1>2, <1>6, <1>7, <1>8, <1>10, <1>11, Accounts DEF IInv

\* Every step, and stuttering, keeps the invariant.
LEMMA NextIInv == ASSUME IInv, [Next]_vars PROVE IInv'
<1>1. CASE Next
  BY <1>1, ClientKeeps, ServerKeeps DEF Next
<1>2. CASE UNCHANGED vars
  <2>1. UNCHANGED <<started, sem, nput, noverflow, msgdata, cpc, i, offset, spc, index,
                    temp, lastnoverflow, deaf, printed, erased>>
    BY <1>2 DEF vars, client, server
  <2>2. TypeOK' /\ Zeroed' /\ Running' /\ TokenAccounting'
    BY <2>1 DEF IInv, TypeOK, Zeroed, Running, Waiting, TokenAccounting, At, Server1
  <2>3. Sums'
    BY <2>1 DEF IInv, Sums, Sent, Stored, Printed, At, Server1
  <2>4. RingStays
    BY <2>1 DEF RingStays, Stored, Server1
  <2>5. \A d \in Clients : (Alone(d) => InOrder(d))'
    BY <2>1, <2>4, ServerOrder
  <2> QED BY <2>2, <2>3, <2>5 DEF IInv
<1> QED BY <1>1, <1>2

\* The inductive invariant of server_2 and its clients.
THEOREM MessagesInvariant == Spec => []IInv
BY InitIInv, NextIInv, PTL DEF Spec

\* No semaphore falls below zero and no index leaves the ring, whenever the
\* clients come: also before the server has initialised anything.
THEOREM MessagesTypeCorrect == Spec => []TypeOK
<1>1. IInv => TypeOK
  BY DEF IInv
<1> QED BY <1>1, MessagesInvariant, PTL

\* No slot of the ring is lost or given to two: the semaphores account for all
\* of them, for the mutex and for that of the counter, however early the clients.
THEOREM SlotsAccounted == Spec => []TokenAccounting
<1>1. IInv => TokenAccounting
  BY DEF IInv
<1> QED BY <1>1, MessagesInvariant, PTL

\* When all is quiet every message has been printed, counted or erased, and
\* what is not erased of the ring is free.
THEOREM MessagesAddUp == Spec => []NumbersAddUp
<1>1. ASSUME IInv, Quiet
      PROVE  /\ Len(printed) + noverflow + erased = Cardinality(Sent)
             /\ sem["nempty"] = NMESG - erased
  <2>1. spc = "wait_nstored" /\ sem["nstored"] = 0
    BY <1>1 DEF Quiet
  <2>2. \A c \in Clients : cpc[c] \in {"exit", "wait_noverflow"}
    BY <1>1 DEF Quiet, ClientsEnded, IInv, Running, Waiting
  <2>3. At(Done) = 0 /\ At(Holding) = 0
    BY <2>2, AtZero, Labels
  <2>4. Stored = 0 /\ Server1(SHolding) = 0 /\ spc \notin NoEmpty
    BY <2>1 DEF Stored, Server1, SHolding, NoEmpty, NoMutex
  <2>5. Printed + noverflow + erased = Cardinality(Sent)
    BY <1>1, <2>3, <2>4, SumNumbers
  <2>6. Numeric /\ SlotTokens
    BY <1>1, Numbers
  <2>7. sem["nempty"] = NMESG - erased
    BY <2>1, <2>3, <2>4, <2>6 DEF Numeric, SlotTokens
  <2> QED BY <2>5, <2>7 DEF Printed
<1>2. IInv => NumbersAddUp
  BY <1>1 DEF NumbersAddUp
<1> QED BY <1>2, MessagesInvariant, PTL

\* Unless sem_init has erased a message, what a single client sends is printed
\* whole, once and in order, although its strcpy is made outside the mutex.
THEOREM PrintedInOrder == Spec => []SingleClientInOrder
<1>1. ASSUME IInv, Cardinality(started) = 1, erased = 0, NEW k \in DOMAIN printed
      PROVE  /\ printed[k] \in Sent
             /\ k > 1 => printed[k - 1][2] < printed[k][2]
  <2>1. PICK c : started = {c}
    <3>1. IsFiniteSet(started)
      BY <1>1, ClientsAssumption, FS_Subset DEF IInv, TypeOK
    <3>2. PICK c : c \in started
      BY <1>1, FS_EmptySet
    <3>3. IsFiniteSet(started \ {c}) /\ Cardinality(started \ {c}) = 0
      BY <1>1, <3>1, <3>2, FS_RemoveElement
    <3>4. started \ {c} = {}
      BY <3>3, FS_EmptySet
    <3> QED BY <3>2, <3>4
  <2>2. c \in Clients /\ InOrder(c)
    BY <1>1, <2>1 DEF IInv, TypeOK, Alone
  <2>3. /\ Printed \in Nat /\ Stored \in Nat /\ k \in 1 .. Printed
    BY <1>1, Types DEF IInv, Printed
  <2>4. \A j \in 1 .. Printed : j \in Posted /\ Message(j) = printed[j]
    BY <2>3 DEF Posted, Message
  <2>5. PICK m \in 0 .. i[c] - 1 : printed[k] = <<c, m>>
    BY <2>2, <2>3, <2>4 DEF InOrder
  <2>6. printed[k] \in Sent
    BY <2>1, <2>5 DEF Sent
  <2>7. ASSUME k > 1 PROVE printed[k - 1][2] < printed[k][2]
    <3>1. k - 1 \in 1 .. Printed /\ k \in Posted
      BY <2>3, <2>4, <2>7
    <3> QED BY <2>2, <2>3, <2>4, <2>7, <3>1 DEF InOrder
  <2> QED BY <2>6, <2>7
<1>2. IInv => SingleClientInOrder
  BY <1>1 DEF SingleClientInOrder
<1> QED BY <1>2, MessagesInvariant, PTL
=============================================================================
