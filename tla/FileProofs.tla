------------------------------ MODULE FileProofs ------------------------------
(***************************************************************************)
(* Proofs about the programs that hand on a file: MultiBuffer, for every   *)
(* NBUFF and every length of the file, whichever reads of it fail, and     *)
(* FileServers, for every set of clients, every file, every capacity of a  *)
(* channel, everything that may be left in the queues and any number of    *)
(* restarts, in all six modes.                                             *)
(*                                                                         *)
(* The threads of MultiBuffer use their buffer outside the mutex.  What    *)
(* keeps them apart is the distance between their indices, Stored, which   *)
(* the semaphores account for: it is all of the ring only while neither is *)
(* at a buffer.  The offsets of fd before each stored buffer lead from the *)
(* output to the offset it has now, over failed reads as over good ones.   *)
(*                                                                         *)
(* In FileServers nothing but the places of the processes in their         *)
(* programs says how far a conversation has come.  The invariant relates   *)
(* them (Rest, what is yet to do) to the open ends, to the requests and,   *)
(* through the sequence of what has come out of a channel and what is      *)
(* still in it, to the answer.  What an earlier run left is told from it   *)
(* by the owner of each part, which no client can see.                     *)
(***************************************************************************)
EXTENDS MultiBuffer, FileServers, SequenceTheorems, TLAPS

-----------------------------------------------------------------------------
(* Multiple buffers: the inductive invariant *)

One(b) == IF b THEN 1 ELSE 0

PHolding == {"wait_mutex", "post_mutex", "read", "test", "post_nstored", "post_eof"}
CHolding == {"wait_mutex", "post_mutex", "test", "write", "post_nempty", "returned"}

\* Each buffer is free, stored or in the hands of a thread; the last one that
\* produce_4 announces, the end of the file, stays with consume_4.
BufferTokens == sem["nempty"] + sem["nstored"] + One(ppc \in PHolding)
                  + One(cpc \in CHolding) = NBUFF

\* The mutex is free or held by one thread.
MutexToken == sem["mutex"] + One(ppc = "post_mutex") + One(cpc = "post_mutex") = 1

\* The buffers filled and not yet written: those announced or about to be, and
\* the one in consume_4's hands, but for the announcement of the end.
Stored == sem["nstored"] + One(ppc = "post_nstored")
            + One(cpc \in {"wait_mutex", "post_mutex", "test", "write", "returned"})
            - One(ppc = "returned")

\* The place k places after slot a.
SlotAfter(a, k) == IF a + k >= NBUFF THEN a + k - NBUFF ELSE a + k

\* consume_4's index follows produce_4's.
Ring ==
  /\ Stored \in 0 .. NBUFF
  /\ pi = SlotAfter(ci, Stored)

\* The k-th stored buffer is what a read from offset f[k] returned, and f[k + 1]
\* the offset it left: a failed read leaves it where it was.  They lead from what
\* has been written to the offset of fd.
Moves(f, k) ==
  LET n == buff[SlotAfter(ci, k)] IN
  \/ n = Err /\ f[k + 1] = f[k]
  \/ n = f[k] + 1 /\ f[k + 1] = f[k] + 1
Offsets(f) ==
  /\ f[0] = Len(out)
  /\ \A k \in 0 .. NBUFF - 1 : k < Stored => Moves(f, k)
  /\ pos = f[Stored] + One(ppc = "test" /\ buff[pi] > 0)

\* What produce_4 has just read.
JustRead ==
  /\ ppc = "test" => buff[pi] \in {Err, 0, pos}
  /\ ppc = "test" /\ buff[pi] = 0 => opened /\ pos = chunks
  /\ ppc \in {"post_eof", "returned"} => buff[pi] = 0 /\ opened /\ pos = chunks

\* consume_4 leaves only at the end of the file, and writes nothing else.
BothEnds ==
  /\ cpc = "write" => buff[ci] # 0
  /\ cpc = "returned" => ppc = "returned" /\ Stored = 0
  /\ main = "exit" => ppc = "returned" /\ cpc = "returned"

CopyInv ==
  /\ CopyTypeOK /\ BufferTokens /\ MutexToken /\ Ring /\ JustRead /\ BothEnds
  /\ \E f \in [0 .. NBUFF -> Nat] : Offsets(f)
  /\ \A k \in DOMAIN out : out[k] = k

-----------------------------------------------------------------------------
(* Places of the ring *)

\* A place is a slot.
LEMMA PlaceType ==
  ASSUME NEW a \in Slots, NEW k \in 0 .. NBUFF
  PROVE  SlotAfter(a, k) \in Slots
BY NBUFFAssumption DEF SlotAfter, Slots

\* Places less than a ring apart are different.
LEMMA PlaceDistinct ==
  ASSUME NEW a \in Slots, NEW j \in 0 .. NBUFF - 1, NEW k \in 0 .. NBUFF - 1, j < k
  PROVE  SlotAfter(a, j) # SlotAfter(a, k)
BY NBUFFAssumption DEF SlotAfter, Slots

\* Slot a itself is as far away as a whole ring is.
LEMMA PlaceEnds ==
  ASSUME NEW a \in Slots
  PROVE  SlotAfter(a, 0) = a /\ SlotAfter(a, NBUFF) = a
BY NBUFFAssumption DEF SlotAfter, Slots

\* The circular step moves on by one place, from either end.
LEMMA PlaceNext ==
  ASSUME NEW a \in Slots, NEW k \in 0 .. NBUFF - 1
  PROVE  /\ NextSlot(a) \in Slots
         /\ NextSlot(SlotAfter(a, k)) = SlotAfter(a, k + 1)
         /\ SlotAfter(NextSlot(a), k) = SlotAfter(a, k + 1)
BY NBUFFAssumption DEF SlotAfter, Slots, NextSlot

-----------------------------------------------------------------------------
(* The steps *)

\* What the invariant says of the types, in a form the steps use.
LEMMA CopyTypes ==
  ASSUME CopyInv
  PROVE  /\ NBUFF \in Nat /\ NBUFF > 0 /\ chunks \in Nat /\ opened \in BOOLEAN /\ pos \in Nat
         /\ sem \in [SemNames -> Nat]
         /\ sem["mutex"] \in Nat /\ sem["nempty"] \in Nat /\ sem["nstored"] \in Nat
         /\ pi \in Slots /\ ci \in Slots /\ buff \in [Slots -> Err .. chunks]
         /\ Len(out) \in Nat /\ out \in Seq(1 .. chunks)
         /\ Stored \in Int /\ Stored >= 0 /\ Stored =< NBUFF
BY NBUFFAssumption DEF CopyInv, CopyTypeOK, Ring, SemNames

LEMMA BufferTypes ==
  ASSUME CopyInv
  PROVE  Stored \in 0 .. NBUFF /\ buff[pi] \in Int /\ buff[ci] \in Int
BY CopyTypes DEF Err

\* A step that changes neither the ring nor what the threads know of it.
LEMMA RingUnchanged ==
  ASSUME CopyInv, UNCHANGED <<file, buff, pi, ci, pos, out>>, Stored' = Stored,
         ppc' = "test" <=> ppc = "test"
  PROVE  /\ Ring' /\ (\A k \in DOMAIN out : out[k] = k)'
         /\ (\E f \in [0 .. NBUFF -> Nat] : Offsets(f))'
<1>1. Ring' /\ (\A k \in DOMAIN out : out[k] = k)'
  BY DEF CopyInv, Ring, SlotAfter
<1>2. PICK f \in [0 .. NBUFF -> Nat] : Offsets(f)
  BY DEF CopyInv
<1>3. Offsets(f)'
  BY <1>2 DEF Offsets, Moves, SlotAfter, One
<1> QED BY <1>1, <1>3

\* sem_wait and sem_post of the producer.
LEMMA ProducerSemKeeps ==
  ASSUME CopyInv, ProducerSem
  PROVE  CopyInv'
<1>0. /\ UNCHANGED <<chunks, opened, buff, pi, ci, pos, out, cpc, main>>
      /\ \/ /\ ppc = "wait_nempty" /\ ppc' = "wait_mutex" /\ sem["nempty"] > 0
            /\ sem' = [sem EXCEPT !["nempty"] = @ - 1]
         \/ /\ ppc = "wait_mutex" /\ ppc' = "post_mutex" /\ sem["mutex"] > 0
            /\ sem' = [sem EXCEPT !["mutex"] = @ - 1]
         \/ /\ ppc = "post_mutex" /\ ppc' = "read"
            /\ sem' = [sem EXCEPT !["mutex"] = @ + 1]
         \/ /\ ppc = "post_nstored" /\ ppc' = "wait_nempty"
            /\ sem' = [sem EXCEPT !["nstored"] = @ + 1]
         \/ /\ ppc = "post_eof" /\ ppc' = "returned"
            /\ sem' = [sem EXCEPT !["nstored"] = @ + 1]
  BY DEF ProducerSem, PGoto, SemWait, SemPost, file, consumer
<1>1. sem \in [{"mutex", "nempty", "nstored"} -> Nat]
  BY CopyTypes DEF SemNames
<1>2. sem' \in [SemNames -> Nat] /\ ppc' \in PLabels
  BY <1>0, <1>1 DEF SemNames, PLabels
<1>3. CopyTypeOK'
  BY <1>0, <1>2 DEF CopyInv, CopyTypeOK, Slots
<1>9. MutexToken'
  <2>1. MutexToken
    BY DEF CopyInv
  <2> QED BY <1>0, <1>1, <2>1, CopyTypes DEF MutexToken, One
<1>4. BufferTokens'
  <2>1. BufferTokens
    BY DEF CopyInv
  <2> QED BY <1>0, <1>1, <2>1, CopyTypes DEF BufferTokens, PHolding, One
<1>5. Stored' = Stored
  BY <1>0, <1>1 DEF Stored, One
<1>6. Ring' /\ (\A k \in DOMAIN out : out[k] = k)' /\ (\E f \in [0 .. NBUFF -> Nat] : Offsets(f))'
  BY <1>0, <1>5, RingUnchanged DEF file
<1>7. JustRead'
  BY <1>0, <1>5 DEF CopyInv, JustRead
<1>8. BothEnds'
  BY <1>0, <1>5 DEF CopyInv, BothEnds
<1> QED BY <1>3, <1>4, <1>6, <1>7, <1>8, <1>9 DEF CopyInv

\* A buffer in produce_4's hands is not stored: the ring is not full.
LEMMA RoomForOne ==
  ASSUME CopyInv, ppc \in {"read", "test"}
  PROVE  /\ Stored < NBUFF
         /\ \A k \in 0 .. NBUFF - 1 : k < Stored => SlotAfter(ci, k) # pi
<1>1. Stored < NBUFF
  <2>1. /\ sem["nempty"] \in Nat /\ sem["nstored"] \in Nat /\ NBUFF \in Nat
        /\ sem["nempty"] + sem["nstored"] + 1 + One(cpc \in CHolding) = NBUFF
    BY CopyTypes DEF CopyInv, BufferTokens, PHolding, One
  <2> QED BY <2>1 DEF CHolding, Stored, One
<1>2. pi = SlotAfter(ci, Stored) /\ Stored \in 0 .. NBUFF - 1
  BY <1>1, CopyTypes DEF CopyInv, Ring
<1> QED BY <1>1, <1>2, PlaceDistinct, CopyTypes

\* A buffer in consume_4's hands is stored, or the end of the file.
LEMMA SomethingStored ==
  ASSUME CopyInv, cpc \in {"test", "write"}
  PROVE  \/ Stored > 0 /\ buff[ci] \in {Err, Len(out) + 1} /\ buff[ci] # 0
         \/ Stored = 0 /\ ppc = "returned" /\ buff[ci] = 0
<1>1. CASE Stored > 0
  <2>1. PICK f \in [0 .. NBUFF -> Nat] : Offsets(f)
    BY DEF CopyInv
  <2>2. 0 \in 0 .. NBUFF - 1 /\ SlotAfter(ci, 0) = ci
    BY PlaceEnds, CopyTypes
  <2>3. Moves(f, 0) /\ f[0] = Len(out)
    BY <1>1, <2>1, <2>2 DEF Offsets
  <2>4. buff[ci] \in {Err, Len(out) + 1}
    BY <2>2, <2>3 DEF Moves
  <2> QED BY <1>1, <2>4, CopyTypes DEF Err
<1>2. CASE Stored = 0
  <2>1. ppc = "returned"
    BY <1>2, CopyTypes DEF Stored, One
  <2>2. pi = ci
    BY <1>2, PlaceEnds, CopyTypes DEF CopyInv, Ring
  <2> QED BY <1>2, <2>1, <2>2 DEF CopyInv, JustRead
<1> QED BY <1>1, <1>2, CopyTypes

\* Filling a buffer.
LEMMA ReadBlockKeeps ==
  ASSUME CopyInv, ReadBlock
  PROVE  CopyInv'
<1>a. PICK n \in ReadResults : Fills(n)
  BY DEF ReadBlock
<1>0. /\ UNCHANGED <<chunks, opened, sem, pi, ci, out, cpc, main>>
      /\ ppc = "read" /\ ppc' = "test"
      /\ buff' = [buff EXCEPT ![pi] = n]
      /\ pos' = IF n > 0 THEN pos + 1 ELSE pos
  BY <1>a DEF Fills, PGoto, file, consumer
<1>1. /\ n \in Err .. chunks /\ pos \in 0 .. chunks
      /\ \/ n = Err
         \/ n = pos + 1 /\ pos < chunks
         \/ n = 0 /\ opened /\ pos = chunks
  BY CopyTypes DEF ReadResults, Err, CopyInv, CopyTypeOK
<1>2. /\ buff' \in [Slots -> Err .. chunks] /\ buff'[pi] = n
      /\ \A k \in Slots : k # pi => buff'[k] = buff[k]
  BY <1>0, <1>1, CopyTypes
<1>3. CopyTypeOK'
  BY <1>0, <1>1, <1>2, CopyTypes DEF CopyInv, CopyTypeOK, Slots, PLabels, Err
<1>4. BufferTokens'
  BY <1>0 DEF CopyInv, BufferTokens, PHolding, One
<1>5. MutexToken'
  BY <1>0 DEF CopyInv, MutexToken, One
<1>6. Stored' = Stored
  BY <1>0 DEF Stored, One
<1>7. Ring'
  BY <1>0, <1>6 DEF CopyInv, Ring, SlotAfter
<1>8. JustRead'
  BY <1>0, <1>1, <1>2, CopyTypes, BufferTypes DEF JustRead, Err
<1>10. (\E f \in [0 .. NBUFF -> Nat] : Offsets(f))'
  <2>1. PICK f \in [0 .. NBUFF -> Nat] : Offsets(f)
    BY DEF CopyInv
  <2>2. ASSUME NEW k \in 0 .. NBUFF - 1, k < Stored
        PROVE  Moves(f, k)'
    <3>1. SlotAfter(ci, k) \in Slots /\ SlotAfter(ci, k) # pi
      BY <1>0, <2>2, RoomForOne, PlaceType, CopyTypes
    <3>2. buff'[SlotAfter(ci, k)] = buff[SlotAfter(ci, k)] /\ Moves(f, k)
      BY <1>2, <2>1, <2>2, <3>1 DEF Offsets
    <3> QED BY <1>0, <3>2 DEF Moves, SlotAfter
  <2>3. pos' = f[Stored] + One(buff'[pi] > 0)
    <3>1. pos = f[Stored]
      <4>1. f[Stored] \in Nat /\ pos = f[Stored] + 0
        BY <1>0, <2>1, CopyTypes, BufferTypes DEF Offsets, One
      <4> QED BY <4>1
    <3> QED BY <1>0, <1>1, <1>2, <3>1, CopyTypes, BufferTypes DEF One, Err
  <2>4. Offsets(f)'
    BY <1>0, <1>6, <2>1, <2>2, <2>3 DEF Offsets, One
  <2> QED BY <1>0, <2>4
<1>9. BothEnds'
  <2>1. cpc = "write" => ci # pi
    BY <1>0, SomethingStored, RoomForOne, PlaceEnds, CopyTypes
  <2> QED BY <1>0, <1>2, <1>6, <2>1, CopyTypes DEF CopyInv, BothEnds
<1> QED BY <1>0, <1>3, <1>4, <1>5, <1>7, <1>8, <1>9, <1>10 DEF CopyInv

\* The test of what was read, and the step to the next buffer.
LEMMA TestEofKeeps ==
  ASSUME CopyInv, TestEof
  PROVE  CopyInv'
<1>0. /\ UNCHANGED <<chunks, opened, sem, buff, pos, ci, out, cpc, main>>
      /\ ppc = "test"
      /\ \/ buff[pi] = 0 /\ ppc' = "post_eof" /\ pi' = pi
         \/ buff[pi] # 0 /\ ppc' = "post_nstored" /\ pi' = NextSlot(pi)
  BY DEF TestEof, PGoto, file, consumer
<1>1. /\ Stored < NBUFF /\ pi = SlotAfter(ci, Stored) /\ NextSlot(pi) \in Slots
      /\ NextSlot(pi) = SlotAfter(ci, Stored + 1)
  <2>1. pi = SlotAfter(ci, Stored) /\ Stored < NBUFF /\ Stored \in 0 .. NBUFF - 1
    BY <1>0, RoomForOne, CopyTypes DEF CopyInv, Ring
  <2> QED BY <2>1, PlaceNext, CopyTypes
<1>2. CopyTypeOK'
  BY <1>0, <1>1 DEF CopyInv, CopyTypeOK, Slots, PLabels
<1>3. BufferTokens'
  BY <1>0 DEF CopyInv, BufferTokens, PHolding, One
<1>4. MutexToken'
  BY <1>0 DEF CopyInv, MutexToken, One
<1>5. PICK f \in [0 .. NBUFF -> Nat] : Offsets(f)
  BY DEF CopyInv
<1>6. CASE buff[pi] = 0
  <2>1. Stored' = Stored
    BY <1>0, <1>6 DEF Stored, One
  <2>2. Ring'
    BY <1>0, <1>6, <2>1 DEF CopyInv, Ring, SlotAfter
  <2>3. JustRead'
    BY <1>0, <1>6 DEF CopyInv, JustRead
  <2>4. BothEnds'
    BY <1>0, <1>6, <2>1 DEF CopyInv, BothEnds
  <2>5. Offsets(f)'
    BY <1>0, <1>5, <1>6, <2>1 DEF Offsets, Moves, SlotAfter, One
  <2> QED BY <1>0, <1>2, <1>3, <1>4, <2>2, <2>3, <2>4, <2>5 DEF CopyInv
<1>7. CASE buff[pi] # 0
  <2>1. Stored' = Stored + 1
    BY <1>0, <1>7, CopyTypes DEF Stored, One
  <2>2. Ring'
    <3>1. Stored + 1 \in 0 .. NBUFF
      BY <1>1, CopyTypes
    <3>2. pi' = SlotAfter(ci', Stored + 1)
      BY <1>0, <1>1, <1>7 DEF SlotAfter
    <3> QED BY <2>1, <3>1, <3>2 DEF Ring, SlotAfter
  <2>3. JustRead'
    BY <1>0, <1>7 DEF JustRead
  <2>4. BothEnds'
    BY <1>0, <1>7, <2>1, CopyTypes DEF CopyInv, BothEnds
  <2>5. PICK h : h = Stored /\ h \in 0 .. NBUFF - 1 /\ h + 1 \in 0 .. NBUFF /\ NBUFF \in Nat
    BY <1>1, CopyTypes, BufferTypes
  <2>6. PICK g \in [0 .. NBUFF -> Nat] : g[h + 1] = pos /\ \A k \in 0 .. NBUFF : k # h + 1 => g[k] = f[k]
    <3>1. [f EXCEPT ![h + 1] = pos] \in [0 .. NBUFF -> Nat]
      BY <1>5, <2>5, CopyTypes
    <3> QED BY <1>5, <2>5, <3>1
  <2>7. ASSUME NEW k \in 0 .. NBUFF - 1, k < h + 1
        PROVE  Moves(g, k)'
    <3>1. UNCHANGED <<buff, ci>> /\ k \in 0 .. NBUFF /\ k # h + 1 /\ g[k] = f[k]
      BY <1>0, <2>5, <2>6, <2>7
    <3>2. CASE k < h
      <4>1. k + 1 \in 0 .. NBUFF /\ k + 1 # h + 1 /\ Moves(f, k)
        BY <1>5, <2>5, <3>2 DEF Offsets
      <4> QED BY <2>6, <3>1, <4>1 DEF Moves, SlotAfter
    <3>3. CASE k = h
      <4>1. /\ f[h] \in Nat /\ pos = f[h] + One(buff[pi] > 0) /\ buff[pi] \in {Err, 0, pos}
            /\ pi = SlotAfter(ci, h)
        BY <1>0, <1>1, <1>5, <2>5 DEF Offsets, CopyInv, JustRead
      <4>2. \/ buff[pi] = Err /\ pos = f[h]
            \/ buff[pi] = f[h] + 1 /\ pos = f[h] + 1
        BY <1>7, <4>1, CopyTypes, BufferTypes DEF One, Err
      <4>3. g[h + 1] = pos /\ g[h] = f[h]
        BY <2>6, <3>1, <3>3
      <4> QED BY <3>1, <3>3, <4>1, <4>2, <4>3 DEF Moves, SlotAfter
    <3>4. k < h \/ k = h
      BY <2>5, <2>7
    <3> QED BY <3>2, <3>3, <3>4
  <2>8. Offsets(g)'
    <3>1. g[0] = Len(out)
      BY <1>5, <2>5, <2>6 DEF Offsets
    <3>2. pos = g[h + 1] + 0
      BY <2>6, CopyTypes
    <3>3. One(ppc' = "test" /\ buff'[pi'] > 0) = 0
      BY <1>0, <1>7 DEF One
    <3> QED BY <1>0, <2>1, <2>5, <2>7, <3>1, <3>2, <3>3 DEF Offsets
  <2> QED BY <1>0, <1>2, <1>3, <1>4, <2>2, <2>3, <2>4, <2>6, <2>8 DEF CopyInv
<1> QED BY <1>6, <1>7

\* sem_wait and sem_post of the consumer.
LEMMA ConsumerSemKeeps ==
  ASSUME CopyInv, ConsumerSem
  PROVE  CopyInv'
<1>0. /\ UNCHANGED <<chunks, opened, buff, pi, ci, pos, out, ppc, main>>
      /\ \/ /\ cpc = "wait_nstored" /\ cpc' = "wait_mutex" /\ sem["nstored"] > 0
            /\ sem' = [sem EXCEPT !["nstored"] = @ - 1]
         \/ /\ cpc = "wait_mutex" /\ cpc' = "post_mutex" /\ sem["mutex"] > 0
            /\ sem' = [sem EXCEPT !["mutex"] = @ - 1]
         \/ /\ cpc = "post_mutex" /\ cpc' = "test"
            /\ sem' = [sem EXCEPT !["mutex"] = @ + 1]
         \/ /\ cpc = "post_nempty" /\ cpc' = "wait_nstored"
            /\ sem' = [sem EXCEPT !["nempty"] = @ + 1]
  BY DEF ConsumerSem, CGoto, SemWait, SemPost, file, producer
<1>1. sem \in [{"mutex", "nempty", "nstored"} -> Nat]
  BY CopyTypes DEF SemNames
<1>2. sem' \in [SemNames -> Nat] /\ cpc' \in CLabels
  BY <1>0, <1>1 DEF SemNames, CLabels
<1>3. CopyTypeOK'
  BY <1>0, <1>2 DEF CopyInv, CopyTypeOK, Slots
<1>4. MutexToken'
  <2>1. MutexToken
    BY DEF CopyInv
  <2> QED BY <1>0, <1>1, <2>1, CopyTypes DEF MutexToken, One
<1>5. BufferTokens'
  <2>1. BufferTokens
    BY DEF CopyInv
  <2> QED BY <1>0, <1>1, <2>1, CopyTypes DEF BufferTokens, CHolding, One
<1>6. Stored' = Stored
  BY <1>0, <1>1 DEF Stored, One
<1>7. Ring' /\ (\A k \in DOMAIN out : out[k] = k)' /\ (\E f \in [0 .. NBUFF -> Nat] : Offsets(f))'
  BY <1>0, <1>6, RingUnchanged DEF file
<1>8. JustRead'
  BY <1>0 DEF CopyInv, JustRead
<1>9. BothEnds'
  BY <1>0, <1>6 DEF CopyInv, BothEnds
<1> QED BY <1>3, <1>4, <1>5, <1>7, <1>8, <1>9 DEF CopyInv

\* The consumer's test for the end of the file.
LEMMA ConsumerTestKeeps ==
  ASSUME CopyInv, ConsumerTest
  PROVE  CopyInv'
<1>0. /\ UNCHANGED <<chunks, opened, sem, buff, pi, ci, pos, out, ppc, main>>
      /\ cpc = "test"
      /\ cpc' = IF buff[ci] = 0 THEN "returned" ELSE "write"
  BY DEF ConsumerTest, CGoto, file, producer
<1>1. CopyTypeOK'
  BY <1>0 DEF CopyInv, CopyTypeOK, Slots, CLabels
<1>2. MutexToken'
  BY <1>0 DEF CopyInv, MutexToken, One
<1>3. BufferTokens'
  BY <1>0 DEF CopyInv, BufferTokens, CHolding, One
<1>4. Stored' = Stored
  BY <1>0 DEF Stored, One
<1>5. Ring' /\ (\A k \in DOMAIN out : out[k] = k)' /\ (\E f \in [0 .. NBUFF -> Nat] : Offsets(f))'
  BY <1>0, <1>4, RingUnchanged DEF file
<1>6. JustRead'
  BY <1>0 DEF CopyInv, JustRead
<1>7. BothEnds'
  BY <1>0, <1>4, SomethingStored DEF CopyInv, BothEnds
<1> QED BY <1>1, <1>2, <1>3, <1>5, <1>6, <1>7 DEF CopyInv

\* Writing a buffer, and the step to the next one.
LEMMA WriteKeeps ==
  ASSUME CopyInv, Write
  PROVE  CopyInv'
<1>0. /\ UNCHANGED <<chunks, opened, sem, buff, pi, pos, ppc, main>>
      /\ cpc = "write" /\ cpc' = "post_nempty" /\ ci' = NextSlot(ci)
      /\ out' = IF buff[ci] = Err THEN out ELSE Append(out, buff[ci])
  BY DEF Write, CGoto, file, producer
<1>1. Stored > 0 /\ buff[ci] \in {Err, Len(out) + 1} /\ buff[ci] # 0
  BY <1>0, SomethingStored DEF CopyInv, BothEnds
<1>2. Stored' = Stored - 1
  BY <1>0, CopyTypes DEF Stored, One
<1>3. /\ ci' \in Slots
      /\ \A k \in 0 .. NBUFF - 1 : SlotAfter(ci', k) = SlotAfter(ci, k + 1)
  BY <1>0, PlaceNext, CopyTypes
<1>4. /\ buff[ci] = Err => out' = out
      /\ buff[ci] # Err => /\ out' = Append(out, Len(out) + 1) /\ Len(out) + 1 \in 1 .. chunks
                          /\ Len(out') = Len(out) + 1 /\ buff[ci] = Len(out) + 1
      /\ out' \in Seq(1 .. chunks)
  <2>1. CASE buff[ci] # Err
    <3>1. buff[ci] = Len(out) + 1 /\ Len(out) + 1 \in 1 .. chunks
      BY <1>1, <2>1, CopyTypes DEF Err
    <3>2. out' = Append(out, Len(out) + 1)
      BY <1>0, <2>1, <3>1
    <3> QED BY <2>1, <3>1, <3>2, AppendProperties, CopyTypes
  <2>2. CASE buff[ci] = Err
    BY <1>0, <2>2, CopyTypes
  <2> QED BY <2>1, <2>2
<1>5. CopyTypeOK'
  BY <1>0, <1>3, <1>4 DEF CopyInv, CopyTypeOK, Slots, CLabels
<1>6. MutexToken'
  BY <1>0 DEF CopyInv, MutexToken, One
<1>7. BufferTokens'
  BY <1>0 DEF CopyInv, BufferTokens, CHolding, One
<1>8. Ring'
  <2>1. Stored' \in 0 .. NBUFF /\ Stored - 1 \in 0 .. NBUFF - 1
    BY <1>1, <1>2, CopyTypes
  <2> QED BY <1>0, <1>2, <1>3, <2>1, CopyTypes DEF CopyInv, Ring
<1>9. JustRead'
  BY <1>0 DEF CopyInv, JustRead
<1>12. (\E f \in [0 .. NBUFF -> Nat] : Offsets(f))'
  <2>1. PICK f \in [0 .. NBUFF -> Nat] : Offsets(f)
    BY DEF CopyInv
  <2>2. PICK h : h = Stored /\ h \in 1 .. NBUFF /\ h - 1 = Stored' /\ NBUFF \in Nat
    BY <1>1, <1>2, CopyTypes, BufferTypes
  <2> DEFINE g == [k \in 0 .. NBUFF |-> IF k < NBUFF THEN f[k + 1] ELSE 0]
  <2>3. g \in [0 .. NBUFF -> Nat] /\ \A k \in 0 .. NBUFF - 1 : g[k] = f[k + 1]
    <3>1. \A k \in 0 .. NBUFF : k < NBUFF => k + 1 \in 0 .. NBUFF
      BY <2>2
    <3>2. \A k \in 0 .. NBUFF - 1 : k \in 0 .. NBUFF /\ k < NBUFF
      BY <2>2
    <3> QED BY <3>1, <3>2
  <2> HIDE DEF g
  <2>4. g[0] = Len(out')
    <3>1. 0 \in 0 .. NBUFF - 1 /\ 0 < h /\ 0 + 1 = 1
      BY <2>2
    <3>2. Moves(f, 0) /\ f[0] = Len(out) /\ SlotAfter(ci, 0) = ci
      BY <2>1, <2>2, <3>1, PlaceEnds, CopyTypes DEF Offsets
    <3>3. CASE buff[ci] = Err
      <4>1. Err # Len(out) + 1
        BY CopyTypes DEF Err
      <4> QED BY <1>4, <2>3, <3>1, <3>2, <3>3, <4>1 DEF Moves
    <3>4. CASE buff[ci] # Err
      BY <1>4, <2>3, <3>1, <3>2, <3>4 DEF Moves
    <3> QED BY <3>3, <3>4
  <2>5. ASSUME NEW k \in 0 .. NBUFF - 1, k < Stored'
        PROVE  Moves(g, k)'
    <3>1. k + 1 \in 0 .. NBUFF - 1 /\ k + 1 < h
      BY <2>2, <2>5
    <3>2. Moves(f, k + 1) /\ g[k] = f[k + 1] /\ g[k + 1] = f[(k + 1) + 1]
      BY <2>1, <2>2, <2>3, <3>1 DEF Offsets
    <3>3. buff' = buff /\ SlotAfter(ci, k)' = SlotAfter(ci, k + 1)
      BY <1>0, <1>3 DEF SlotAfter
    <3> QED BY <3>2, <3>3 DEF Moves
  <2>6. pos' = g[Stored'] + One(ppc' = "test" /\ buff'[pi'] > 0)
    <3>1. h - 1 \in 0 .. NBUFF - 1 /\ (h - 1) + 1 = h
      BY <2>2
    <3> QED BY <1>0, <2>1, <2>2, <2>3, <3>1 DEF Offsets
  <2>7. Offsets(g)'
    BY <2>4, <2>5, <2>6 DEF Offsets
  <2> QED BY <2>3, <2>7
<1>10. BothEnds'
  BY <1>0, <1>1, <1>2, CopyTypes DEF CopyInv, BothEnds
<1>11. \A k \in DOMAIN out' : out'[k] = k
  <2>1. CASE buff[ci] # Err
    <3>1. /\ out \in Seq(1 .. chunks) /\ Len(out) + 1 \in 1 .. chunks
          /\ out' = Append(out, Len(out) + 1) /\ Len(out) \in Nat
      BY <1>4, <2>1, CopyTypes
    <3>4. \A k \in 1 .. Len(out) : out[k] = k
      <4>1. \A k \in DOMAIN out : out[k] = k
        BY DEF CopyInv
      <4> QED BY <4>1, <3>1
    <3>2. Len(out') = Len(out) + 1 /\ DOMAIN out' = 1 .. Len(out')
      BY <1>4, <2>1
    <3>3. ASSUME NEW k \in 1 .. Len(out) + 1
          PROVE  out'[k] = k
      BY <3>1, <3>3, <3>4
    <3> QED BY <3>1, <3>2, <3>3
  <2>2. CASE buff[ci] = Err
    BY <1>4, <2>2 DEF CopyInv
  <2> QED BY <2>1, <2>2
<1> QED BY <1>5, <1>6, <1>7, <1>8, <1>9, <1>10, <1>11, <1>12 DEF CopyInv

\* Creating and joining the threads.
LEMMA MainKeeps ==
  ASSUME CopyInv, Main
  PROVE  CopyInv'
<1>0. /\ UNCHANGED <<chunks, opened, sem, buff, pi, pos, ci, out>>
      /\ \/ ppc = "unborn" /\ ppc' = "wait_nempty" /\ cpc' = cpc /\ main' = "create_c"
         \/ cpc = "unborn" /\ cpc' = "wait_nstored" /\ ppc' = ppc /\ main' = "join"
         \/ /\ ppc = "returned" /\ cpc = "returned" /\ ppc' = ppc /\ cpc' = cpc
            /\ main' = "exit"
  BY DEF Main, PGoto, CGoto, file
<1>1. CopyTypeOK'
  BY <1>0 DEF CopyInv, CopyTypeOK, Slots, PLabels, CLabels
<1>2. MutexToken'
  BY <1>0 DEF CopyInv, MutexToken, One
<1>3. BufferTokens'
  BY <1>0 DEF CopyInv, BufferTokens, PHolding, CHolding, One
<1>4. Stored' = Stored
  BY <1>0 DEF Stored, One
<1>5. Ring' /\ (\A k \in DOMAIN out : out[k] = k)' /\ (\E f \in [0 .. NBUFF -> Nat] : Offsets(f))'
  BY <1>0, <1>4, RingUnchanged DEF file
<1>6. JustRead'
  BY <1>0 DEF CopyInv, JustRead
<1>7. BothEnds'
  BY <1>0, <1>4 DEF CopyInv, BothEnds
<1> QED BY <1>1, <1>2, <1>3, <1>5, <1>6, <1>7 DEF CopyInv

-----------------------------------------------------------------------------
(* The theorems *)

\* It holds of the zeroed buffers at the start.
LEMMA InitIInv == CopyInit => CopyInv
<1> SUFFICES ASSUME CopyInit PROVE CopyInv
  OBVIOUS
<1>1. /\ chunks \in Nat /\ opened \in BOOLEAN /\ pos = 0 /\ pi = 0 /\ ci = 0
      /\ sem = [mutex |-> 1, nempty |-> NBUFF, nstored |-> 0]
      /\ buff = [k \in Slots |-> 0] /\ ppc = "unborn" /\ cpc = "unborn"
      /\ out = <<>> /\ main = "create_p" /\ NBUFF \in Nat /\ NBUFF > 0
  BY LengthsAssumption, NBUFFAssumption DEF CopyInit
<1>2. CopyTypeOK
  BY <1>1 DEF CopyTypeOK, SemNames, Slots, PLabels, CLabels, Err
<1>3. Stored = 0 /\ BufferTokens /\ MutexToken
  BY <1>1 DEF Stored, BufferTokens, MutexToken, PHolding, CHolding, One
<1>4. Ring
  BY <1>1, <1>3 DEF Ring, SlotAfter
<1>5. JustRead /\ BothEnds
  BY <1>1 DEF JustRead, BothEnds
<1>6. \E f \in [0 .. NBUFF -> Nat] : Offsets(f)
  <2> DEFINE f == [k \in 0 .. NBUFF |-> 0]
  <2>1. f \in [0 .. NBUFF -> Nat] /\ 0 \in 0 .. NBUFF /\ f[0] = 0 /\ Len(out) = 0
    BY <1>1
  <2>2. \A k \in 0 .. NBUFF - 1 : ~(k < 0)
    BY <1>1
  <2> HIDE DEF f
  <2>3. Offsets(f)
    BY <1>1, <1>3, <2>1, <2>2 DEF Offsets, One
  <2> QED BY <2>1, <2>3
<1> QED BY <1>1, <1>2, <1>3, <1>4, <1>5, <1>6 DEF CopyInv

\* Every step, and stuttering, keeps it.
LEMMA NextIInv == CopyInv /\ [CopyNext]_copyVars => CopyInv'
<1> SUFFICES ASSUME CopyInv, [CopyNext]_copyVars PROVE CopyInv'
  OBVIOUS
<1>1. CASE CopyNext
  BY <1>1, MainKeeps, ProducerSemKeeps, ReadBlockKeeps, TestEofKeeps, ConsumerSemKeeps,
     ConsumerTestKeeps, WriteKeeps DEF CopyNext
<1>2. CASE UNCHANGED copyVars
  <2>1. UNCHANGED <<file, buff, pi, ci, pos, out, ppc, cpc, sem, main, chunks, opened>> /\ Stored' = Stored
    BY <1>2 DEF copyVars, file, producer, consumer, Stored, One
  <2>2. Ring' /\ (\A k \in DOMAIN out : out[k] = k)' /\ (\E f \in [0 .. NBUFF -> Nat] : Offsets(f))'
    BY <2>1, RingUnchanged
  <2>3. CopyTypeOK' /\ BufferTokens' /\ MutexToken' /\ JustRead' /\ BothEnds'
    BY <2>1 DEF CopyInv, CopyTypeOK, BufferTokens, MutexToken, JustRead, BothEnds, One, Slots
  <2> QED BY <2>2, <2>3 DEF CopyInv
<1> QED BY <1>1, <1>2

\* The distance of the two indices, the semaphores, the buffers in between and
\* the file's offset agree at every step of produce_4 and consume_4.
THEOREM BuffersInvariant == CopySpec => []CopyInv
BY InitIInv, NextIInv, PTL DEF CopySpec

\* The indices stay in the ring, the semaphores do not fall below zero.
THEOREM BuffersTypeCorrect == CopySpec => []CopyTypeOK
BY BuffersInvariant, PTL DEF CopyInv

\* Reader and writer never use the same buffer at the same time, although they
\* use it outside the mutex, for every number of buffers.
THEOREM NeverShared == CopySpec => []NoSharedBuffer
<1>1. CopyInv => NoSharedBuffer
  <2> SUFFICES ASSUME CopyInv, ppc \in {"read", "test"}, cpc \in {"test", "write"}
               PROVE  pi # ci
    BY DEF NoSharedBuffer
  <2>1. Stored > 0
    BY SomethingStored
  <2> QED BY <2>1, RoomForOne, PlaceEnds, CopyTypes
<1> QED BY <1>1, BuffersInvariant, PTL

\* What is written is the file, in order, and the whole of it when the program
\* ends: the file of any length, through any number of buffers.
THEOREM CopiesFile == CopySpec => []OutputIsFile
<1>1. CopyInv => OutputIsFile
  <2> SUFFICES ASSUME CopyInv PROVE OutputIsFile
    OBVIOUS
  <2>1. Len(out) =< chunks
    <3>0. out \in Seq(1 .. chunks) /\ Len(out) \in Nat /\ chunks \in Nat /\ \A k \in DOMAIN out : out[k] = k
      BY CopyTypes DEF CopyInv
    <3>1. /\ Len(out) \in Nat /\ chunks \in Nat
          /\ \A k \in 1 .. Len(out) : out[k] \in 1 .. chunks /\ out[k] = k
      BY <3>0
    <3>2. CASE Len(out) = 0
      BY <3>1, <3>2
    <3>3. CASE Len(out) # 0
      <4>1. Len(out) \in 1 .. Len(out)
        BY <3>1, <3>3
      <4>2. Len(out) \in 1 .. chunks
        BY <3>1, <4>1
      <4> QED BY <3>1, <4>2
    <3> QED BY <3>2, <3>3
  <2>2. ASSUME main = "exit" PROVE opened /\ Len(out) = chunks
    <3>1. ppc = "returned" /\ Stored = 0 /\ opened /\ pos = chunks
      BY <2>2 DEF CopyInv, BothEnds, JustRead
    <3>2. PICK f \in [0 .. NBUFF -> Nat] : Offsets(f)
      BY DEF CopyInv
    <3>3. pos = f[0] + 0 /\ f[0] = Len(out)
      BY <3>1, <3>2 DEF Offsets, One
    <3> QED BY <3>1, <3>3, CopyTypes
  <2> QED BY <2>1, <2>2 DEF CopyInv, OutputIsFile
<1> QED BY <1>1, BuffersInvariant, PTL

-----------------------------------------------------------------------------
(* Sequences. *)

Elems(P, k) == {P[i] : i \in k + 1 .. Len(P)}

LEMMA SuffixFacts ==
  ASSUME NEW S, NEW P \in Seq(S), NEW k \in 0 .. Len(P), NEW s, s = SubSeq(P, k + 1, Len(P))
  PROVE  /\ ToSet(s) = Elems(P, k)
         /\ s = <<>> <=> k = Len(P)
         /\ k < Len(P) => Head(s) = P[k + 1] /\ Tail(s) = SubSeq(P, (k + 1) + 1, Len(P))
<1>0. PICK n : n = Len(P) /\ n \in Nat /\ k \in 0 .. n
  BY LenProperties
<1>1. s \in Seq(S) /\ Len(s) = n - k /\ \A i \in 1 .. n - k : s[i] = P[k + i]
  BY <1>0
<1>2. DOMAIN s = 1 .. n - k
  BY <1>1
<1>3. ToSet(s) = Elems(P, k)
  <2>1. ASSUME NEW i \in k + 1 .. n PROVE \E j \in 1 .. n - k : s[j] = P[i]
    <3>1. i - k \in 1 .. n - k /\ k + (i - k) = i
      BY <1>0
    <3> QED  BY <1>1, <3>1
  <2>2. ASSUME NEW i \in 1 .. n - k PROVE \E j \in k + 1 .. n : s[i] = P[j]
    <3>1. k + i \in k + 1 .. n
      BY <1>0
    <3> QED  BY <1>1, <3>1
  <2>3. Elems(P, k) = {P[i] : i \in k + 1 .. n} /\ ToSet(s) = {s[i] : i \in 1 .. n - k}
    BY <1>0, <1>2 DEF Elems, ToSet
  <2>4. \A x \in Elems(P, k) : x \in ToSet(s)
    BY <2>1, <2>3
  <2>5. \A x \in ToSet(s) : x \in Elems(P, k)
    BY <2>2, <2>3
  <2> QED  BY <2>4, <2>5, Zenon
<1>4. s = <<>> <=> k = Len(P)
  <2>1. s = <<>> => Len(s) = 0
    BY EmptySeq
  <2>2. Len(s) = 0 => s = <<>>
    BY <1>1, EmptySeq
  <2> QED  BY <1>0, <1>1, <2>1, <2>2
<1>5. ASSUME k < Len(P) PROVE Head(s) = P[k + 1] /\ Tail(s) = SubSeq(P, (k + 1) + 1, Len(P))
  <2>1. k + 1 \in 1 .. Len(P) /\ Len(P) \in k + 1 .. Len(P)
    BY <1>0, <1>5
  <2> QED  BY <2>1, HeadTailOfSubSeq
<1> QED  BY <1>3, <1>4, <1>5

Upto(l, a, m) == l \o SubSeq(a, 1, m)

LEMMA UptoType ==
  ASSUME NEW S, NEW l \in Seq(S), NEW a \in Seq(S), NEW m \in 0 .. Len(a)
  PROVE  /\ SubSeq(a, 1, m) \in Seq(S) /\ Len(SubSeq(a, 1, m)) = m
         /\ \A i \in 1 .. m : SubSeq(a, 1, m)[i] = a[i]
         /\ Upto(l, a, m) \in Seq(S) /\ Len(Upto(l, a, m)) = Len(l) + m
         /\ \A i \in 1 .. Len(l) : Upto(l, a, m)[i] = l[i]
         /\ \A i \in 1 .. m : Upto(l, a, m)[Len(l) + i] = a[i]
<1>0. PICK n, j : n = Len(a) /\ j = Len(l) /\ n \in Nat /\ j \in Nat /\ m \in 0 .. n
  BY LenProperties
<1>1. \A i \in 1 .. m : a[i] \in S
  BY <1>0, ElementOfSeq
<1>2. SubSeq(a, 1, m) \in Seq(S) /\ Len(SubSeq(a, 1, m)) = IF 1 <= m THEN m - 1 + 1 ELSE 0
  BY <1>0, <1>1, SubSeqProperties
<1>3. \A i \in 1 .. m - 1 + 1 : SubSeq(a, 1, m)[i] = a[1 + i - 1]
  BY <1>0, <1>1, SubSeqProperties
<1>4. Len(SubSeq(a, 1, m)) = m /\ \A i \in 1 .. m : SubSeq(a, 1, m)[i] = a[i]
  <2>1. Len(SubSeq(a, 1, m)) = m /\ m - 1 + 1 = m /\ \A i \in 1 .. m : 1 + i - 1 = i
    BY <1>0, <1>2
  <2> QED  BY <1>3, <2>1
<1> DEFINE t == SubSeq(a, 1, m)
<1> HIDE DEF t
<1>5. t \in Seq(S) /\ Len(t) = m /\ \A i \in 1 .. m : t[i] = a[i]
  BY <1>2, <1>4 DEF t
<1>6. l \o t \in Seq(S) /\ Len(l \o t) = j + m
  BY <1>0, <1>5, ConcatProperties
<1>7. \A i \in 1 .. j + m : (l \o t)[i] = IF i <= j THEN l[i] ELSE t[i - j]
  BY <1>0, <1>5, ConcatProperties
<1>8. \A i \in 1 .. j : (l \o t)[i] = l[i]
  <2>1. \A i \in 1 .. j : i \in 1 .. j + m /\ i <= j
    BY <1>0
  <2> QED  BY <1>7, <2>1
<1>9. \A i \in 1 .. m : (l \o t)[j + i] = a[i]
  <2>1. ASSUME NEW i \in 1 .. m PROVE j + i \in 1 .. j + m /\ ~(j + i <= j) /\ (j + i) - j = i
    BY <1>0
  <2>2. ASSUME NEW i \in 1 .. m PROVE (l \o t)[j + i] = t[i]
    BY <1>7, <2>1
  <2> QED  BY <1>5, <2>2
<1> QED  BY <1>0, <1>2, <1>4, <1>6, <1>8, <1>9 DEF Upto, t

LEMMA UptoOnly ==
  ASSUME NEW S, NEW a \in Seq(S), NEW m \in 0 .. Len(a)
  PROVE  /\ Upto(<<>>, a, m) \in Seq(S) /\ Len(Upto(<<>>, a, m)) = m
         /\ \A i \in 1 .. m : Upto(<<>>, a, m)[i] = a[i]
<1>1. SubSeq(a, 1, m) \in Seq(S) /\ Len(SubSeq(a, 1, m)) = m /\ \A i \in 1 .. m : SubSeq(a, 1, m)[i] = a[i]
  <2>1. <<>> \in Seq(S)
    BY EmptySeq
  <2> QED  BY <2>1, UptoType
<1>2. <<>> \o SubSeq(a, 1, m) = SubSeq(a, 1, m)
  BY <1>1, ConcatEmptySeq
<1> QED  BY <1>1, <1>2 DEF Upto

LEMMA UptoNone ==
  ASSUME NEW S, NEW l \in Seq(S), NEW a
  PROVE  Upto(l, a, 0) = l
<1>1. SubSeq(a, 1, 0) = <<>>
  BY SubSeqEmpty
<1> QED  BY <1>1, ConcatEmptySeq DEF Upto

LEMMA UptoAll ==
  ASSUME NEW S, NEW a \in Seq(S)
  PROVE  Upto(<<>>, a, Len(a)) = a
BY SubSeqFull, ConcatEmptySeq DEF Upto

LEMMA UptoGrows ==
  ASSUME NEW S, NEW l \in Seq(S), NEW a \in Seq(S), NEW m \in 0 .. Len(a), m # Len(a)
  PROVE  Append(Upto(l, a, m), a[m + 1]) = Upto(l, a, m + 1)
<1>0. PICK n : n = Len(a) /\ n \in Nat /\ m \in 0 .. n /\ m # n
  BY LenProperties
<1>1. m + 1 \in 1 .. n /\ (m + 1) - 1 = m /\ 1 \in 1 .. n /\ m + 1 \in 0 .. n
  BY <1>0
<1>2. a[m + 1] \in S
  BY <1>0, <1>1, ElementOfSeq
<1>3. SubSeq(a, 1, m + 1) = SubSeq(a, 1, (m + 1) - 1) \o <<a[m + 1]>>
  BY <1>0, <1>1, SubSeqRecursiveSecond
<1>4. SubSeq(a, 1, m) \in Seq(S) /\ Upto(l, a, m) \in Seq(S)
  BY UptoType
<1>5. <<a[m + 1]>> \in Seq(S)
  BY <1>2
<1>6. Append(Upto(l, a, m), a[m + 1]) = Upto(l, a, m) \o <<a[m + 1]>>
  BY <1>2, <1>4, AppendIsConcat
<1>7. (l \o SubSeq(a, 1, m)) \o <<a[m + 1]>> = l \o (SubSeq(a, 1, m) \o <<a[m + 1]>>)
  <2> DEFINE t == SubSeq(a, 1, m)
             u == <<a[m + 1]>>
  <2>1. t \in Seq(S) /\ u \in Seq(S)
    BY <1>4, <1>5
  <2> HIDE DEF t, u
  <2>2. (l \o t) \o u = l \o (t \o u)
    BY <2>1, ConcatAssociative
  <2> QED  BY <2>2 DEF t, u
<1> QED  BY <1>1, <1>3, <1>6, <1>7 DEF Upto

\* a unit read moves from the channel to the output
LEMMA FlowMoves ==
  ASSUME NEW S, NEW p \in Seq(S), NEW d \in Seq(S), d # <<>>
  PROVE  Append(p, Head(d)) \o Tail(d) = p \o d
<1>0. PICK n : n = Len(d) /\ n \in Nat /\ n >= 1
  BY EmptySeq
<1>1. Head(d) \in S /\ Tail(d) \in Seq(S) /\ Head(d) = d[1]
  BY HeadTailProperties
<1>2. SubSeq(d, 1, n) = <<d[1]>> \o SubSeq(d, 1 + 1, n)
  <2>1. 1 \in 1 .. n /\ n \in 1 .. n
    BY <1>0
  <2> QED  BY <1>0, <2>1, SubSeqRecursiveFirst
<1>3. SubSeq(d, 1, n) = d /\ SubSeq(d, 2, n) = Tail(d) /\ 1 + 1 = 2
  BY <1>0, SubSeqFull, TailIsSubSeq
<1>4. d = <<Head(d)>> \o Tail(d)
  BY <1>1, <1>2, <1>3
<1>5. Append(p, Head(d)) = p \o <<Head(d)>>
  BY <1>1, AppendIsConcat
<1>6. (p \o <<Head(d)>>) \o Tail(d) = p \o (<<Head(d)>> \o Tail(d))
  <2>1. <<Head(d)>> \in Seq(S)
    BY <1>1
  <2> QED  BY <1>1, <2>1, ConcatAssociative
<1> QED  BY <1>4, <1>5, <1>6

\* a unit written comes last
LEMMA FlowGrows ==
  ASSUME NEW S, NEW p \in Seq(S), NEW d \in Seq(S), NEW u \in S
  PROVE  p \o Append(d, u) = Append(p \o d, u)
<1>1. <<u>> \in Seq(S) /\ p \o d \in Seq(S)
  BY ConcatProperties
<1>2. Append(d, u) = d \o <<u>> /\ Append(p \o d, u) = (p \o d) \o <<u>>
  BY <1>1, AppendIsConcat
<1>3. (p \o d) \o <<u>> = p \o (d \o <<u>>)
  BY <1>1, ConcatAssociative
<1> QED  BY <1>2, <1>3

\* what has come out is a prefix of what has been put in
LEMMA FlowPrefix ==
  ASSUME NEW S, NEW p \in Seq(S), NEW d \in Seq(S)
  PROVE  /\ Len(p) <= Len(p \o d)
         /\ \A i \in 1 .. Len(p) : p[i] = (p \o d)[i]
<1>0. PICK j, n : j = Len(p) /\ n = Len(d) /\ j \in Nat /\ n \in Nat
  BY LenProperties
<1>1. Len(p \o d) = j + n /\ \A i \in 1 .. j + n : (p \o d)[i] = IF i <= j THEN p[i] ELSE d[i - j]
  BY <1>0, ConcatProperties
<1>2. \A i \in 1 .. j : i \in 1 .. j + n /\ i <= j
  BY <1>0
<1>3. j <= j + n
  BY <1>0
<1> QED  BY <1>0, <1>1, <1>2, <1>3

\* the channel is emptied: the output is the beginning of the answer
LEMMA FlowCut ==
  ASSUME NEW S, NEW p \in Seq(S), NEW d \in Seq(S), NEW a \in Seq(S), NEW m \in 0 .. Len(a),
         p \o d = Upto(<<>>, a, m)
  PROVE  Len(p) \in 0 .. m /\ p \o <<>> = Upto(<<>>, a, Len(p))
<1>e. <<>> \in Seq(S) /\ Len(<<>>) = 0
  BY EmptySeq
<1>0. PICK n : n = Len(a) /\ n \in Nat /\ m \in 0 .. n
  BY LenProperties
<1>1. Len(Upto(<<>>, a, m)) = m /\ \A i \in 1 .. m : Upto(<<>>, a, m)[i] = a[i]
  BY UptoOnly
<1>2. \A i \in 1 .. m : Upto(<<>>, a, m)[i] = a[i]
  BY <1>1
<1>3. Len(p) \in Nat /\ Len(p) <= m
  BY <1>0, <1>1, FlowPrefix, LenProperties
<1>4. PICK j : j = Len(p) /\ j \in 0 .. m /\ j \in 0 .. n
  BY <1>0, <1>3
<1>5. \A i \in 1 .. j : p[i] = a[i]
  <2>1. \A i \in 1 .. j : i \in 1 .. m
    BY <1>0, <1>4
  <2> QED  BY <1>2, <1>4, <2>1, FlowPrefix
<1>6. Upto(<<>>, a, j) \in Seq(S) /\ Len(Upto(<<>>, a, j)) = j /\ \A i \in 1 .. j : Upto(<<>>, a, j)[i] = a[i]
  BY <1>0, <1>4, UptoOnly
<1>8. p = Upto(<<>>, a, j)
  <2> DEFINE v == Upto(<<>>, a, j)
  <2> HIDE DEF v
  <2>1. v \in Seq(S) /\ Len(p) = Len(v) /\ \A i \in 1 .. Len(p) : p[i] = v[i]
    BY <1>4, <1>5, <1>6 DEF v
  <2>2. p = v
    BY <2>1, SeqEqual
  <2> QED  BY <2>2 DEF v
<1> QED  BY <1>4, <1>8, ConcatEmptySeq
Modes == {"pipe", "stream", "related", "unrelated", "multi", "queues"}
Units == (Clients \cup {Old}) \X Nat
Parts == (Clients \cup {Old}) \X (Nat \cup {-1})

\* what process p has yet to do, as a set: no program does anything twice
Rest(p)  == ToSet(todo[p])
Tails(P) == {SubSeq(P, k + 1, Len(P)) : k \in 0 .. Len(P)}
Runs(p)  == mode = "multi" \/ p \in {Only, Server}

Missed  == \E p \in Procs : <<p, "missed">> \in fate
Hurt(p) == <<p, "killed">> \in fate \/ <<p, "died">> \in fate
Misled(c) == <<c, "misled">> \in fate

\* the server has read a request and not answered it yet, or not quite
Answering == "answer" \in Rest(Server) /\ "read" \notin Rest(Server)

Programs ==
  /\ DOMAIN todo = Procs
  /\ \A p \in Procs : todo[p] \in Tails(Program(p)) \cup {<<"exit">>}
  /\ \A p \in Procs : ~Runs(p) => todo[p] = <<>>
Channels ==
  /\ DOMAIN data = Chans
  /\ data["req"] \in Seq(Clients \cup {Old})
  /\ \A c \in Clients : data[c] \in Seq(Parts)
  /\ \A ch \in Chans : Len(data[ch]) =< Capacity
Types ==
  /\ mode \in Modes /\ path \in [Clients \cup {Old} -> Lines]
  /\ \A c \in Clients : path[c] = NoNewline => mode = "multi"
  /\ path[Old] # NoNewline
  /\ names \subseteq Chans
  /\ Channels
  /\ ends \in [Chans -> [{"r", "w"} -> SUBSET Procs]]
  /\ waiting \subseteq Procs \X Chans
  /\ Programs
  /\ to \in Clients \cup {Old} /\ sent \in 0 .. Len(Answer(to)) /\ runs \in 1 .. MaxRuns
  /\ printed \in [Clients -> Seq(Units)]
  /\ fate \subseteq Procs \X {"killed", "amid", "died", "missed", "misled"}

\* Requests.  A request is made once; the iterative server is asked by clients only,
\* and reads on behind a request without a newline.
Unasked(c) == "send" \in Rest(c)
Asked(c)   == \E k \in DOMAIN data["req"] : data["req"][k] = c
Reading(c) == "read" \in Rest(Server) /\ to = c
NotYet(c)  == IF mode = "multi" THEN Unasked(c) \/ Asked(c) \/ Reading(c) ELSE "read" \in Rest(Server)
Requests ==
  /\ \A c \in Clients : Unasked(c) => ~Asked(c)
  /\ \A c \in Clients : Asked(c) => Runs(c)
  /\ \A j, k \in DOMAIN data["req"] : data["req"][j] = data["req"][k] /\ data["req"][j] # Old => j = k
  /\ ~Kept => ~Asked(Old)
  /\ ~Kept /\ Answering /\ to = Old => Missed
  /\ to \in Clients => /\ Runs(to)
                       /\ "answer" \in Rest(Server) => ~Unasked(to) /\ ~Asked(to)
                       /\ "read" \in Rest(Server) => mode = "multi"
  /\ Answering /\ "open_ans" \in Rest(Server) => sent = 0

\* The iterative server.
Live(p) == \E op \in Rest(p) : op # "exit"
Multi ==
  mode = "multi" =>
    /\ ~Live(Server) => Hurt(Server)
    /\ Live(Server) =>
         /\ "make_req" \notin Rest(Server) => "req" \in names
         /\ "open_req" \notin Rest(Server) => Server \in ends["req"]["r"]
         /\ "open_dummy" \notin Rest(Server) => Server \in ends["req"]["w"]
         /\ "read" \notin Rest(Server) => to \in Clients

\* Who holds which end.
Holds ==
  /\ ~Piped =>
       /\ ends["req"]["r"] \subseteq {Server}
       /\ ends["req"]["w"] \subseteq Clients \cup IF mode = "multi" THEN {Server} ELSE {}
       /\ \A c \in Clients : ends[c]["r"] \subseteq {c} /\ ends[c]["w"] \subseteq {Server}
  /\ \A c \in Clients :
       /\ c \in ends["req"]["w"] => Runs(c) /\ "open_req" \notin Rest(c)
       /\ c \in ends[c]["r"] => "open_ans" \notin Rest(c)
       /\ ~Kept /\ ~Missed /\ "receive" \in Rest(c) =>
            /\ "open_req" \notin Rest(c) => c \in ends["req"]["w"]
            /\ "open_ans" \notin Rest(c) => c \in ends[c]["r"]
  /\ ~Kept /\ ~Missed =>
       /\ mode # "multi" /\ "read" \in Rest(Server) /\ "open_req" \notin Rest(Server) => Server \in ends["req"]["r"]
       /\ "open_ans" \notin Rest(Server) /\ Live(Server) => Server \in ends[Reply]["w"]

\* An open of one end returns when the other has been opened.
Meets ==
  ~Kept /\ ~Missed =>
    /\ /\ mode # "multi" /\ "read" \in Rest(Server) /\ "open_req" \notin Rest(Server)
       /\ <<Server, "req">> \notin waiting
       => "open_req" \notin Rest(Only)
    /\ "open_ans" \notin Rest(Server) /\ Live(Server) /\ <<Server, Reply>> \notin waiting
       => "open_ans" \notin Rest(Reply)

\* What has come out of, and is still in, the channel of client c: what an earlier
\* run left, and the beginning of an answer.
Lefts == {l \in Seq(Parts) : \A i \in 1 .. Len(l) : l[i][1] = Old}

Silent(c) == ~Kept /\ Server \notin ends[c]["w"] /\ "open_ans" \notin Rest(Server)
Story(l, x, m) ==
  /\ l # <<>> => Kept
  /\ x = Old /\ m > 0 => Kept \/ Missed
Flow(c, l, x, m) ==
  /\ printed[c] \o data[c] = Upto(l, Answer(x), m)
  /\ NotYet(c) => m = 0
  /\ Answering /\ Reply = c => \/ x = to /\ m = sent /\ (sent > 0 => Kept \/ Server \in ends[c]["w"])
                               \/ m = 0 /\ Silent(c)
Flows ==
  \A c \in Clients : "receive" \in Rest(c) =>
    \E l \in Lefts, x \in {c, Old} : \E m \in 0 .. Len(Answer(x)) : Story(l, x, m) /\ Flow(c, l, x, m)

\* What a client has printed is the beginning of such a story.
Outputs ==
  \A c \in Clients :
    /\ \E l \in Lefts, x \in {c, Old} : \E m \in 0 .. Len(Answer(x)) :
         Story(l, x, m) /\ IsPrefix(printed[c], Upto(l, Answer(x), m))
    /\ \A k \in 1 .. Len(printed[c]) : printed[c][k][1] = Old => Misled(c)
    /\ Misled(c) => Kept \/ Missed

Fine(c) ==
  /\ Runs(c) /\ ~Missed /\ ~Hurt(c) /\ ~Hurt(Server)
  /\ ~(Messages /\ path[c] = NoPath)

Delivered ==
  \A c \in Clients : Fine(c) /\ ~Kept /\ "receive" \in Rest(c) =>
    /\ "answer" \notin Rest(Server) /\ Reply = c =>
         printed[c] \o data[c] = Answer(c) /\ "open_ans" \notin Rest(c)
    /\ "open_ans" \notin Rest(c) /\ <<c, c>> \notin waiting =>
         Server \in ends[c]["w"] \/ printed[c] \o data[c] = Answer(c)

Complete ==
  \A c \in Clients : Fine(c) /\ "receive" \notin Rest(c) => Misled(c) \/ printed[c] = FileOf(c)

IInv == /\ Types /\ Requests /\ Multi /\ Holds /\ Meets
        /\ Flows /\ Outputs /\ Delivered /\ Complete

-----------------------------------------------------------------------------
(* The programs: what is left to do when an operation comes next. *)

Operations == {"close_unused", "make_req", "make_ans", "open_req", "open_dummy", "open_ans", "send", "receive",
               "read", "answer", "close_ans", "wait", "unlink_req", "unlink_ans", "exit"}
Opening == {"make_req", "make_ans", "open_req", "open_dummy", "open_ans", "unlink_req", "unlink_ans"}

ClientPlan(R) ==
  /\ R \cap {"make_req", "open_dummy", "read", "answer", "close_ans"} = {}
  /\ R # {} => "exit" \in R
  /\ R \cap {"send", "open_req", "open_ans"} # {} => "receive" \in R
  /\ Piped => R \cap Opening = {}
  /\ ~Piped => "close_unused" \notin R
  /\ mode = "multi" => "unlink_req" \notin R
  /\ "make_ans" \in R => mode = "multi" /\ "open_ans" \in R

ClientPlace(h, R) ==
  /\ h \in R
  /\ h = "receive" => R \cap {"close_unused", "make_ans", "open_req", "open_ans", "send"} = {}
  /\ h = "send" => R \cap {"close_unused", "make_ans", "open_req"} = {}
  /\ h \in {"wait", "unlink_req", "unlink_ans", "exit"} => "receive" \notin R
  /\ h = "exit" => R = {"exit"}

ServerPlan(R) ==
  /\ R \cap {"send", "receive", "unlink_req", "unlink_ans"} = {}
  /\ Piped => R \cap Opening = {}
  /\ ~Piped => "close_unused" \notin R
  /\ mode = "multi" => R \cap {"make_ans", "wait"} = {} /\ ("exit" \in R => R = {"exit"})
  /\ mode # "multi" => R \cap {"open_dummy", "close_ans"} = {} /\ (R # {} => "exit" \in R)
  /\ "read" \in R => "answer" \in R /\ (mode = "multi" => "open_ans" \in R)
  /\ "open_ans" \in R => "answer" \in R /\ (mode # "multi" => "read" \in R)
  /\ R \cap {"make_req", "make_ans", "open_req", "open_dummy", "close_unused"} # {} => "read" \in R
  /\ mode = "multi" /\ "answer" \in R => "close_ans" \in R

ServerPlace(h, R) ==
  /\ h \in R
  /\ h = "read" => R \cap {"make_req", "make_ans", "open_req", "open_dummy", "close_unused"} = {}
                   /\ (mode # "multi" => "open_ans" \notin R)
  /\ h = "answer" => R \cap {"open_ans", "read"} = {}
  /\ h = "open_ans" => R \cap {"make_req", "open_req", "open_dummy"} = {} /\ (mode = "multi" => "read" \notin R)
  /\ h = "open_req" => "make_req" \notin R
  /\ h = "open_dummy" => R \cap {"make_req", "open_req"} = {}
  /\ h = "wait" => R \cap {"read", "answer"} = {}
  /\ h = "close_ans" => R = {"close_ans"}
  /\ h = "exit" => R = {"exit"}

\* the operations of P are all different, and it is a plan with places from k on
Planned(P, k, Plan(_), Place(_, _)) ==
  /\ Plan(Elems(P, k))
  /\ k < Len(P) => Place(P[k + 1], Elems(P, k)) /\ Elems(P, k + 1) = Elems(P, k) \ {P[k + 1]}

LEMMA PipePlans ==
  ASSUME mode = "pipe", NEW c \in Clients
  PROVE  /\ TestPipe(Server) \in Seq(Operations) /\ TestPipe(c) \in Seq(Operations)
         /\ \A k \in 0 .. Len(TestPipe(Server)) : Planned(TestPipe(Server), k, ServerPlan, ServerPlace)
         /\ \A k \in 0 .. Len(TestPipe(c)) : Planned(TestPipe(c), k, ClientPlan, ClientPlace)
<1>1. c # Server
  BY ProcsAssumption
<1>2. TestPipe(Server) \in Seq(Operations) /\ TestPipe(c) \in Seq(Operations)
  BY <1>1 DEF Operations, TestPipe
<1>3. ASSUME NEW k \in 0 .. Len(TestPipe(Server)) PROVE Planned(TestPipe(Server), k, ServerPlan, ServerPlace)
  BY DEF Planned, TestPipe, Elems, ServerPlan, ServerPlace, Piped, Opening
<1>4. ASSUME NEW k \in 0 .. Len(TestPipe(c)) PROVE Planned(TestPipe(c), k, ClientPlan, ClientPlace)
  BY <1>1 DEF Planned, TestPipe, Elems, ClientPlan, ClientPlace, Piped, Opening
<1> QED  BY <1>2, <1>3, <1>4

LEMMA StreamPlans ==
  ASSUME mode = "stream", NEW c \in Clients
  PROVE  /\ TestStream(Server) \in Seq(Operations) /\ TestStream(c) \in Seq(Operations)
         /\ \A k \in 0 .. Len(TestStream(Server)) : Planned(TestStream(Server), k, ServerPlan, ServerPlace)
         /\ \A k \in 0 .. Len(TestStream(c)) : Planned(TestStream(c), k, ClientPlan, ClientPlace)
<1>1. c # Server
  BY ProcsAssumption
<1>2. TestStream(Server) \in Seq(Operations) /\ TestStream(c) \in Seq(Operations)
  BY <1>1 DEF Operations, TestStream
<1>3. ASSUME NEW k \in 0 .. Len(TestStream(Server)) PROVE Planned(TestStream(Server), k, ServerPlan, ServerPlace)
  BY DEF Planned, TestStream, Elems, ServerPlan, ServerPlace, Piped, Opening
<1>4. ASSUME NEW k \in 0 .. Len(TestStream(c)) PROVE Planned(TestStream(c), k, ClientPlan, ClientPlace)
  BY <1>1 DEF Planned, TestStream, Elems, ClientPlan, ClientPlace, Piped, Opening
<1> QED  BY <1>2, <1>3, <1>4

LEMMA RelatedPlans ==
  ASSUME mode = "related", NEW c \in Clients
  PROVE  /\ Related(Server) \in Seq(Operations) /\ Related(c) \in Seq(Operations)
         /\ \A k \in 0 .. Len(Related(Server)) : Planned(Related(Server), k, ServerPlan, ServerPlace)
         /\ \A k \in 0 .. Len(Related(c)) : Planned(Related(c), k, ClientPlan, ClientPlace)
<1>1. c # Server
  BY ProcsAssumption
<1>2. Related(Server) \in Seq(Operations) /\ Related(c) \in Seq(Operations)
  BY <1>1 DEF Operations, Related
<1>3. ASSUME NEW k \in 0 .. Len(Related(Server)) PROVE Planned(Related(Server), k, ServerPlan, ServerPlace)
  BY DEF Planned, Related, Elems, ServerPlan, ServerPlace, Piped, Opening
<1>4. ASSUME NEW k \in 0 .. Len(Related(c)) PROVE Planned(Related(c), k, ClientPlan, ClientPlace)
  BY <1>1 DEF Planned, Related, Elems, ClientPlan, ClientPlace, Piped, Opening
<1> QED  BY <1>2, <1>3, <1>4

LEMMA UnrelatedPlans ==
  ASSUME mode = "unrelated", NEW c \in Clients
  PROVE  /\ UnrelatedServer \in Seq(Operations) /\ UnrelatedClient \in Seq(Operations)
         /\ \A k \in 0 .. Len(UnrelatedServer) : Planned(UnrelatedServer, k, ServerPlan, ServerPlace)
         /\ \A k \in 0 .. Len(UnrelatedClient) : Planned(UnrelatedClient, k, ClientPlan, ClientPlace)
<1>1. c # Server
  BY ProcsAssumption
<1>2. UnrelatedServer \in Seq(Operations) /\ UnrelatedClient \in Seq(Operations)
  BY <1>1 DEF Operations, UnrelatedServer, UnrelatedClient
<1>3. ASSUME NEW k \in 0 .. Len(UnrelatedServer) PROVE Planned(UnrelatedServer, k, ServerPlan, ServerPlace)
  BY DEF Planned, UnrelatedServer, UnrelatedClient, Elems, ServerPlan, ServerPlace, Piped, Opening
<1>4. ASSUME NEW k \in 0 .. Len(UnrelatedClient) PROVE Planned(UnrelatedClient, k, ClientPlan, ClientPlace)
  BY <1>1 DEF Planned, UnrelatedServer, UnrelatedClient, Elems, ClientPlan, ClientPlace, Piped, Opening
<1> QED  BY <1>2, <1>3, <1>4

LEMMA MultiPlans ==
  ASSUME mode = "multi", NEW c \in Clients
  PROVE  /\ MultiServer \in Seq(Operations) /\ MultiClient \in Seq(Operations)
         /\ \A k \in 0 .. Len(MultiServer) : Planned(MultiServer, k, ServerPlan, ServerPlace)
         /\ \A k \in 0 .. Len(MultiClient) : Planned(MultiClient, k, ClientPlan, ClientPlace)
<1>1. c # Server
  BY ProcsAssumption
<1>2. MultiServer \in Seq(Operations) /\ MultiClient \in Seq(Operations)
  BY <1>1 DEF Operations, MultiServer, MultiClient
<1>3. ASSUME NEW k \in 0 .. Len(MultiServer) PROVE Planned(MultiServer, k, ServerPlan, ServerPlace)
  BY DEF Planned, MultiServer, MultiClient, Elems, ServerPlan, ServerPlace, Piped, Opening
<1>4. ASSUME NEW k \in 0 .. Len(MultiClient) PROVE Planned(MultiClient, k, ClientPlan, ClientPlace)
  BY <1>1 DEF Planned, MultiServer, MultiClient, Elems, ClientPlan, ClientPlace, Piped, Opening
<1> QED  BY <1>2, <1>3, <1>4

LEMMA QueuePlans ==
  ASSUME mode = "queues", NEW c \in Clients
  PROVE  /\ QueueServer \in Seq(Operations) /\ QueueClient \in Seq(Operations)
         /\ \A k \in 0 .. Len(QueueServer) : Planned(QueueServer, k, ServerPlan, ServerPlace)
         /\ \A k \in 0 .. Len(QueueClient) : Planned(QueueClient, k, ClientPlan, ClientPlace)
<1>1. c # Server
  BY ProcsAssumption
<1>2. QueueServer \in Seq(Operations) /\ QueueClient \in Seq(Operations)
  BY <1>1 DEF Operations, QueueServer, QueueClient
<1>3. ASSUME NEW k \in 0 .. Len(QueueServer) PROVE Planned(QueueServer, k, ServerPlan, ServerPlace)
  BY DEF Planned, QueueServer, QueueClient, Elems, ServerPlan, ServerPlace, Piped, Opening
<1>4. ASSUME NEW k \in 0 .. Len(QueueClient) PROVE Planned(QueueClient, k, ClientPlan, ClientPlace)
  BY <1>1 DEF Planned, QueueServer, QueueClient, Elems, ClientPlan, ClientPlace, Piped, Opening
<1> QED  BY <1>2, <1>3, <1>4

-----------------------------------------------------------------------------
(* What a process has yet to do. *)

LEMMA TailsFacts ==
  ASSUME NEW P \in Seq(Operations), NEW s \in Tails(P)
  PROVE  \E k \in 0 .. Len(P) :
           /\ ToSet(s) = Elems(P, k)
           /\ s # <<>> => /\ k < Len(P) /\ Head(s) = P[k + 1]
                          /\ Tail(s) \in Tails(P) /\ ToSet(Tail(s)) = Elems(P, k + 1)
<1>1. PICK k \in 0 .. Len(P) : s = SubSeq(P, k + 1, Len(P))
  BY DEF Tails
<1>2. /\ ToSet(s) = Elems(P, k)
      /\ s = <<>> <=> k = Len(P)
      /\ k < Len(P) => Head(s) = P[k + 1] /\ Tail(s) = SubSeq(P, (k + 1) + 1, Len(P))
  BY <1>1, SuffixFacts
<1>3. PICK n : n = Len(P) /\ n \in Nat /\ k \in 0 .. n
  BY LenProperties
<1>4. ASSUME s # <<>> PROVE /\ k < Len(P) /\ Head(s) = P[k + 1]
                            /\ Tail(s) \in Tails(P) /\ ToSet(Tail(s)) = Elems(P, k + 1)
  <2>1. k < n /\ k + 1 \in 0 .. n
    BY <1>2, <1>3, <1>4
  <2>2. Tail(s) = SubSeq(P, (k + 1) + 1, Len(P)) /\ Head(s) = P[k + 1]
    BY <1>2, <1>3, <2>1
  <2>3. ToSet(Tail(s)) = Elems(P, k + 1)
    <3> DEFINE j == k + 1
               t == Tail(s)
    <3>1. j \in 0 .. Len(P) /\ t = SubSeq(P, j + 1, Len(P))
      BY <1>3, <2>1, <2>2
    <3> HIDE DEF j, t
    <3>2. ToSet(t) = Elems(P, j)
      BY <3>1, SuffixFacts
    <3> QED  BY <3>2 DEF j, t
  <2>4. Tail(s) \in Tails(P)
    BY <1>3, <2>1, <2>2 DEF Tails
  <2> QED  BY <1>3, <2>1, <2>2, <2>3, <2>4
<1> QED  BY <1>2, <1>4

LEMMA ExitFacts ==
  ASSUME NEW P \in Seq(Operations)
  PROVE  /\ ToSet(<<"exit">>) = {"exit"} /\ <<"exit">> # <<>> /\ Head(<<"exit">>) = "exit"
         /\ Tail(<<"exit">>) = <<>> /\ Tail(<<"exit">>) \in Tails(P) /\ ToSet(<<>>) = {}
<1>1. Tail(<<"exit">>) = <<>>
  OBVIOUS
<1>2. SubSeq(P, Len(P) + 1, Len(P)) = <<>> /\ Len(P) \in 0 .. Len(P)
  <2>1. PICK n : n = Len(P) /\ n \in Nat
    BY LenProperties
  <2>2. n < n + 1 /\ n \in 0 .. n /\ n \in Int /\ n + 1 \in Int
    BY <2>1
  <2> QED  BY <2>1, <2>2, SubSeqEmpty
<1>3. <<>> \in Tails(P)
  BY <1>2 DEF Tails
<1>4. ToSet(<<"exit">>) = {"exit"} /\ ToSet(<<>>) = {} /\ <<"exit">> # <<>> /\ Head(<<"exit">>) = "exit"
  BY DEF ToSet
<1> QED  BY <1>1, <1>3, <1>4

ToDo(s, P) ==
  s # <<>> => Tail(s) \in Tails(P) /\ ToSet(Tail(s)) = ToSet(s) \ {Head(s)}

LEMMA ServerToDo ==
  ASSUME NEW P \in Seq(Operations), NEW s \in Tails(P) \cup {<<"exit">>},
         \A k \in 0 .. Len(P) : Planned(P, k, ServerPlan, ServerPlace)
  PROVE  /\ ServerPlan(ToSet(s)) /\ ToDo(s, P)
         /\ s # <<>> => ServerPlace(Head(s), ToSet(s))
<1>1. CASE s \in Tails(P)
  <2>1. PICK k \in 0 .. Len(P) :
           /\ ToSet(s) = Elems(P, k)
           /\ s # <<>> => /\ k < Len(P) /\ Head(s) = P[k + 1]
                          /\ Tail(s) \in Tails(P) /\ ToSet(Tail(s)) = Elems(P, k + 1)
    BY <1>1, TailsFacts
  <2> QED  BY <2>1 DEF Planned, ToDo
<1>2. CASE s = <<"exit">>
  <2>1. ServerPlan({"exit"}) /\ ServerPlace("exit", {"exit"})
    BY DEF ServerPlan, ServerPlace, Opening
  <2> QED  BY <1>2, <2>1, ExitFacts DEF ToDo
<1> QED  BY <1>1, <1>2

LEMMA ClientToDo ==
  ASSUME NEW P \in Seq(Operations), NEW s \in Tails(P) \cup {<<"exit">>},
         \A k \in 0 .. Len(P) : Planned(P, k, ClientPlan, ClientPlace)
  PROVE  /\ ClientPlan(ToSet(s)) /\ ToDo(s, P)
         /\ s # <<>> => ClientPlace(Head(s), ToSet(s))
<1>1. CASE s \in Tails(P)
  <2>1. PICK k \in 0 .. Len(P) :
           /\ ToSet(s) = Elems(P, k)
           /\ s # <<>> => /\ k < Len(P) /\ Head(s) = P[k + 1]
                          /\ Tail(s) \in Tails(P) /\ ToSet(Tail(s)) = Elems(P, k + 1)
    BY <1>1, TailsFacts
  <2> QED  BY <2>1 DEF Planned, ToDo
<1>2. CASE s = <<"exit">>
  <2>1. ClientPlan({"exit"}) /\ ClientPlace("exit", {"exit"})
    BY DEF ClientPlan, ClientPlace, Opening
  <2> QED  BY <1>2, <2>1, ExitFacts DEF ToDo
<1> QED  BY <1>1, <1>2

LEMMA ServerProgram ==
  ASSUME mode \in Modes
  PROVE  /\ Program(Server) \in Seq(Operations)
         /\ \A k \in 0 .. Len(Program(Server)) : Planned(Program(Server), k, ServerPlan, ServerPlace)
<1>0. PICK c \in Clients : TRUE
  BY ProcsAssumption
<1>1. CASE mode = "pipe"
  <2>1. Program(Server) = TestPipe(Server)
    BY <1>1 DEF Program
  <2> QED  BY <1>1, <2>1, PipePlans
<1>2. CASE mode = "stream"
  <2>1. Program(Server) = TestStream(Server)
    BY <1>2 DEF Program
  <2> QED  BY <1>2, <2>1, StreamPlans
<1>3. CASE mode = "related"
  <2>1. Program(Server) = Related(Server)
    BY <1>3 DEF Program
  <2> QED  BY <1>3, <2>1, RelatedPlans
<1>4. CASE mode = "unrelated"
  <2>1. Program(Server) = UnrelatedServer
    BY <1>4 DEF Program
  <2> QED  BY <1>4, <2>1, UnrelatedPlans
<1>5. CASE mode = "multi"
  <2>1. Program(Server) = MultiServer
    BY <1>5 DEF Program
  <2> QED  BY <1>5, <2>1, MultiPlans
<1>6. CASE mode = "queues"
  <2>1. Program(Server) = QueueServer
    BY <1>6 DEF Program
  <2> QED  BY <1>6, <2>1, QueuePlans
<1> QED  BY <1>1, <1>2, <1>3, <1>4, <1>5, <1>6 DEF Modes

LEMMA ClientProgram ==
  ASSUME mode \in Modes, NEW c \in Clients
  PROVE  /\ Program(c) \in Seq(Operations)
         /\ \A k \in 0 .. Len(Program(c)) : Planned(Program(c), k, ClientPlan, ClientPlace)
<1>0. c # Server
  BY ProcsAssumption
<1>1. CASE mode = "pipe"
  <2>1. Program(c) = TestPipe(c)
    BY <1>1 DEF Program
  <2> QED  BY <1>1, <2>1, PipePlans
<1>2. CASE mode = "stream"
  <2>1. Program(c) = TestStream(c)
    BY <1>2 DEF Program
  <2> QED  BY <1>2, <2>1, StreamPlans
<1>3. CASE mode = "related"
  <2>1. Program(c) = Related(c)
    BY <1>3 DEF Program
  <2> QED  BY <1>3, <2>1, RelatedPlans
<1>4. CASE mode = "unrelated"
  <2>1. Program(c) = UnrelatedClient
    BY <1>0, <1>4 DEF Program
  <2> QED  BY <1>4, <2>1, UnrelatedPlans
<1>5. CASE mode = "multi"
  <2>1. Program(c) = MultiClient
    BY <1>0, <1>5 DEF Program
  <2> QED  BY <1>5, <2>1, MultiPlans
<1>6. CASE mode = "queues"
  <2>1. Program(c) = QueueClient
    BY <1>0, <1>6 DEF Program
  <2> QED  BY <1>6, <2>1, QueuePlans
<1> QED  BY <1>1, <1>2, <1>3, <1>4, <1>5, <1>6 DEF Modes

LEMMA Plans ==
  ASSUME Types
  PROVE  /\ ServerPlan(Rest(Server))
         /\ \A op : At(Server, op) => ServerPlace(op, Rest(Server))
         /\ \A c \in Clients : ClientPlan(Rest(c))
         /\ \A c \in Clients : \A op : At(c, op) => ClientPlace(op, Rest(c))
         /\ \A p \in Procs : ToDo(todo[p], Program(p))
<1>1. /\ ServerPlan(ToSet(todo[Server])) /\ ToDo(todo[Server], Program(Server))
      /\ todo[Server] # <<>> => ServerPlace(Head(todo[Server]), ToSet(todo[Server]))
  <2>1. todo[Server] \in Tails(Program(Server)) \cup {<<"exit">>} /\ mode \in Modes
    BY DEF Types, Programs, Procs
  <2> QED  BY <2>1, ServerProgram, ServerToDo
<1>2. ASSUME NEW c \in Clients
      PROVE /\ ClientPlan(ToSet(todo[c])) /\ ToDo(todo[c], Program(c))
            /\ todo[c] # <<>> => ClientPlace(Head(todo[c]), ToSet(todo[c]))
  <2>1. todo[c] \in Tails(Program(c)) \cup {<<"exit">>} /\ mode \in Modes
    BY DEF Types, Programs, Procs
  <2> QED  BY <2>1, ClientProgram, ClientToDo
<1> QED  BY <1>1, <1>2 DEF At, Rest, Procs

-----------------------------------------------------------------------------
(* Steps. *)

LEMMA ChansFacts ==
  /\ "req" \in Chans /\ Clients \subseteq Chans /\ "req" \notin Clients
  /\ Server \in Procs /\ Clients \subseteq Procs /\ Server \notin Clients
  /\ Old \notin Clients
BY ProcsAssumption DEF Chans, Procs, Old

LEMMA OnlyType == Only \in Clients
BY ProcsAssumption DEF Only

LEMMA Fixed ==
  ASSUME mode' = mode, path' = path
  PROVE  /\ \A p : Program(p)' = Program(p) /\ Runs(p)' = Runs(p)
         /\ \A c : FileOf(c)' = FileOf(c) /\ Answer(c)' = Answer(c)
         /\ Kept' = Kept /\ Piped' = Piped /\ Messages' = Messages
BY DEF Program, Runs, FileOf, Answer, Kept, Piped, Messages

\* process p does op, and nobody else does anything
Does(p, op) ==
  /\ op \in Rest(p) /\ Rest(p)' = Rest(p) \ {op}
  /\ \A q \in Procs : q # p => Rest(q)' = Rest(q)

Stops(p) ==
  /\ Rest(p)' = {"exit"}
  /\ \A q \in Procs : q # p => Rest(q)' = Rest(q)

LEMMA GotoRuns ==
  ASSUME Types, mode' = mode, path' = path, NEW p \in Procs, Runs(p), NEW s, Goto(p, s),
         s \in Tails(Program(p)) \cup {<<"exit">>}
  PROVE  /\ Rest(p)' = ToSet(s)
         /\ \A q \in Procs : q # p => Rest(q)' = Rest(q)
         /\ Programs'
<1>1. todo' = [todo EXCEPT ![p] = s] /\ DOMAIN todo = Procs
  BY DEF Goto, Types, Programs
<1>2. DOMAIN todo' = Procs /\ todo'[p] = s /\ \A q \in Procs : q # p => todo'[q] = todo[q]
  BY <1>1
<1>3. \A q : Program(q)' = Program(q) /\ Runs(q)' = Runs(q)
  BY Fixed
<1>4. Programs'
  <2>1. \A q \in Procs : todo'[q] \in Tails(Program(q)) \cup {<<"exit">>} /\ (~Runs(q) => todo'[q] = <<>>)
    BY <1>2 DEF Types, Programs
  <2> QED  BY <1>2, <1>3, <2>1 DEF Programs
<1> QED  BY <1>2, <1>4 DEF Rest

LEMMA DoneDoes ==
  ASSUME Types, mode' = mode, path' = path, NEW p \in Procs, NEW op, At(p, op), Done(p)
  PROVE  Does(p, op) /\ Runs(p) /\ Programs'
<1>1. todo[p] # <<>> /\ Head(todo[p]) = op /\ ToDo(todo[p], Program(p))
  BY Plans DEF At
<1>2. Runs(p)
  BY <1>1 DEF Types, Programs
<1>3. Tail(todo[p]) \in Tails(Program(p)) /\ ToSet(Tail(todo[p])) = Rest(p) \ {op}
  BY <1>1 DEF ToDo, Rest
<1>4. op \in Rest(p)
  BY Plans DEF ServerPlace, ClientPlace, Procs
<1>5. Goto(p, Tail(todo[p]))
  BY DEF Done
<1> QED  BY <1>2, <1>3, <1>4, <1>5, GotoRuns DEF Does

LEMMA GotoExit ==
  ASSUME Types, mode' = mode, path' = path, NEW p \in Procs, todo[p] # <<>>, Goto(p, <<"exit">>)
  PROVE  Stops(p) /\ Runs(p) /\ Programs'
<1>1. Runs(p)
  BY DEF Types, Programs
<1>2. ToSet(<<"exit">>) = {"exit"}
  BY DEF ToSet
<1> QED  BY <1>1, <1>2, GotoRuns DEF Stops

(* What a step leaves alone. *)

Mono == mode' = mode /\ path' = path /\ fate \subseteq fate'
Stay(c) == (printed[c] \o data[c])' = printed[c] \o data[c]
Shrink == \A c \in Clients : Rest(c)' \subseteq Rest(c) \cup {"exit"}

LEMMA MonoFacts ==
  ASSUME Mono
  PROVE  /\ \A p : Program(p)' = Program(p) /\ Runs(p)' = Runs(p)
         /\ \A c : FileOf(c)' = FileOf(c) /\ Answer(c)' = Answer(c)
         /\ Kept' = Kept /\ Piped' = Piped /\ Messages' = Messages
         /\ Missed => Missed' /\ \A p : Hurt(p) => Hurt(p)'
         /\ \A c : Fine(c)' => Fine(c)
         /\ \A l, x, m : Story(l, x, m) => Story(l, x, m)'
<1>1. /\ \A p : Program(p)' = Program(p) /\ Runs(p)' = Runs(p)
      /\ \A c : FileOf(c)' = FileOf(c) /\ Answer(c)' = Answer(c)
      /\ Kept' = Kept /\ Piped' = Piped /\ Messages' = Messages
  BY Fixed DEF Mono
<1>2. Missed => Missed' /\ \A p : Hurt(p) => Hurt(p)'
  BY DEF Mono, Missed, Hurt
<1>3. \A c : Fine(c)' => Fine(c)
  BY <1>1 DEF Fine, Mono, Missed, Hurt
<1>4. \A l, x, m : Story(l, x, m) => Story(l, x, m)'
  BY <1>1, <1>2 DEF Story
<1> QED  BY <1>1, <1>2, <1>3, <1>4

LEMMA RequestsKept ==
  ASSUME Requests, Mono, Shrink, Answering' => Answering,
         Answering' /\ "open_ans" \in Rest(Server)' => "open_ans" \in Rest(Server),
         Rest(Server)' \subseteq Rest(Server) \cup {"exit"} \/ to' = Old,
         data'["req"] \in {data["req"], <<>>}, Answering' => to' = to /\ sent' = sent,
         to' \in {to, Old}
  PROVE  Requests'
<1>1. \A c : Asked(c)' => Asked(c)
  BY DEF Asked
<1>2. \A j, k \in DOMAIN data'["req"] : data'["req"][j] = data'["req"][k] /\ data'["req"][j] # Old => j = k
  BY DEF Requests
<1>3. /\ \A c \in Clients : Unasked(c)' => ~Asked(c)'
      /\ \A c \in Clients : Asked(c)' => Runs(c)'
      /\ ~Kept' => ~Asked(Old)'
  BY <1>1, MonoFacts DEF Requests, Shrink, Unasked
<1>4. /\ ~Kept' /\ Answering' /\ to' = Old => Missed'
      /\ Answering' /\ "open_ans" \in Rest(Server)' => sent' = 0
  BY MonoFacts DEF Requests
<1>5. ASSUME NEW c \in Clients, to' = c
      PROVE  /\ Runs(c)'
             /\ "answer" \in Rest(Server)' => ~Unasked(c)' /\ ~Asked(c)'
             /\ "read" \in Rest(Server)' => mode' = "multi"
  <2>1. to = c /\ to' # Old
    BY <1>5, ChansFacts
  <2>2. \A o \in {"answer", "read"} : o \in Rest(Server)' => o \in Rest(Server)
    BY <2>1
  <2>3. (Unasked(c)' => Unasked(c)) /\ (Asked(c)' => Asked(c)) /\ mode' = mode /\ Runs(c)' = Runs(c)
    BY <2>1, MonoFacts DEF Shrink, Unasked, Asked, Mono
  <2>4. /\ Runs(c)
        /\ "answer" \in Rest(Server) => ~Unasked(c) /\ ~Asked(c)
        /\ "read" \in Rest(Server) => mode = "multi"
    BY <2>1 DEF Requests
  <2> QED  BY <2>2, <2>3, <2>4
<1> QED  BY <1>2, <1>3, <1>4, <1>5 DEF Requests

LEMMA MultiKept ==
  ASSUME Multi, Mono, Rest(Server)' = Rest(Server), to' = to, "req" \in names => "req" \in names',
         \A e \in {"r", "w"} : Server \in ends["req"][e] => Server \in ends'["req"][e]
  PROVE  Multi'
<1>1. (Hurt(Server) => Hurt(Server)') /\ mode' = mode
  BY DEF Mono, Hurt
<1>2. Live(Server)' = Live(Server)
  BY DEF Live
<1> QED  BY <1>1, <1>2 DEF Multi

\* once the server has read, or opened what it answers on, that is a client's
LEMMA ReplyType ==
  ASSUME Types, Multi, NEW op \in Rest(Server), op # "exit",
         "read" \notin Rest(Server) \/ "open_ans" \notin Rest(Server)
  PROVE  Reply \in Clients
<1>1. mode = "multi" => "read" \notin Rest(Server)
  BY Plans DEF ServerPlan
<1>2. mode = "multi" => to \in Clients
  BY <1>1 DEF Multi, Live
<1> QED  BY <1>2, OnlyType DEF Reply

LEMMA MeetsKept ==
  ASSUME Types, Multi, Meets, Mono, Shrink,
         \A ch : <<Server, ch>> \in waiting => <<Server, ch>> \in waiting',
         Rest(Server)' \subseteq Rest(Server) \cup {"exit"},
         "open_req" \in Rest(Server) => "open_req" \in Rest(Server)' \/ "read" \notin Rest(Server)',
         "open_ans" \in Rest(Server) => "open_ans" \in Rest(Server)' \/ ~Live(Server)',
         to' = to
  PROVE  Meets'
<1>1. Live(Server)' => Live(Server)
  BY DEF Live
<1>2. Reply' = Reply /\ Only \in Clients /\ mode' = mode
  BY OnlyType DEF Reply, Mono
<1>3. ASSUME ~Kept', ~Missed', mode' # "multi", "read" \in Rest(Server)', "open_req" \notin Rest(Server)',
             <<Server, "req">> \notin waiting'
      PROVE  "open_req" \notin Rest(Only)'
  <2>1. ~Kept /\ ~Missed /\ "read" \in Rest(Server) /\ "open_req" \notin Rest(Server)
    BY <1>3, MonoFacts
  <2>2. "open_req" \notin Rest(Only)
    BY <1>2, <1>3, <2>1 DEF Meets
  <2> QED  BY <1>2, <2>2 DEF Shrink
<1>4. ASSUME ~Kept', ~Missed', "open_ans" \notin Rest(Server)', Live(Server)', <<Server, Reply>> \notin waiting'
      PROVE  "open_ans" \notin Rest(Reply)'
  <2>1. ~Kept /\ ~Missed /\ "open_ans" \notin Rest(Server) /\ Live(Server)
    BY <1>1, <1>4, MonoFacts
  <2>2. "open_ans" \notin Rest(Reply)
    BY <1>2, <1>4, <2>1 DEF Meets
  <2>3. Reply \in Clients
    BY <2>1, ReplyType DEF Live
  <2> QED  BY <1>2, <2>2, <2>3 DEF Shrink
<1> QED  BY <1>2, <1>3, <1>4 DEF Meets

LEMMA FlowKept ==
  ASSUME Flows, Mono, NEW c \in Clients, Stay(c),
         "receive" \in Rest(c)' => "receive" \in Rest(c),
         NotYet(c)' => NotYet(c),
         Answering' => Answering /\ to' = to /\ sent' = sent,
         Answering' /\ Reply = c => /\ Server \in ends[c]["w"] => Server \in ends'[c]["w"]
                                    /\ Silent(c) => Silent(c)'
  PROVE  "receive" \in Rest(c)' =>
           \E l \in Lefts, x \in {c, Old} : \E m \in 0 .. Len(Answer(x)) : Story(l, x, m)' /\ Flow(c, l, x, m)'
<1> SUFFICES ASSUME "receive" \in Rest(c)'
             PROVE  \E l \in Lefts, x \in {c, Old} : \E m \in 0 .. Len(Answer(x)) : Story(l, x, m)' /\ Flow(c, l, x, m)'
  OBVIOUS
<1>1. PICK l \in Lefts, x \in {c, Old} : \E m \in 0 .. Len(Answer(x)) : Story(l, x, m) /\ Flow(c, l, x, m)
  BY DEF Flows
<1>2. PICK m \in 0 .. Len(Answer(x)) : Story(l, x, m) /\ Flow(c, l, x, m)
  BY <1>1
<1>3. Story(l, x, m)'
  BY <1>2, MonoFacts
<1>4. Flow(c, l, x, m)'
  <2>1. (printed[c] \o data[c])' = Upto(l, Answer(x)', m)
    BY <1>2, MonoFacts DEF Flow, Stay
  <2>2. NotYet(c)' => m = 0
    BY <1>2 DEF Flow
  <2>3. Answering' /\ Reply' = c => \/ x = to' /\ m = sent' /\ (sent' > 0 => Kept' \/ Server \in ends'[c]["w"])
                                    \/ m = 0 /\ Silent(c)'
    <3>1. Answering' /\ Reply' = c => Answering /\ Reply = c /\ to' = to /\ sent' = sent
      BY DEF Mono, Reply
    <3>2. ASSUME Answering', Reply' = c
          PROVE  \/ x = to' /\ m = sent' /\ (sent' > 0 => Kept' \/ Server \in ends'[c]["w"])
                 \/ m = 0 /\ Silent(c)'
      <4>1. \/ x = to /\ m = sent /\ (sent > 0 => Kept \/ Server \in ends[c]["w"])
            \/ m = 0 /\ Silent(c)
        BY <1>2, <3>1, <3>2 DEF Flow
      <4>2. Kept' = Kept
        BY MonoFacts
      <4>3. /\ Server \in ends[c]["w"] => Server \in ends'[c]["w"]
            /\ Silent(c) => Silent(c)'
        BY <3>1, <3>2
      <4> QED  BY <3>1, <3>2, <4>1, <4>2, <4>3
    <3> QED  BY <3>2
  <2> QED  BY <2>1, <2>2, <2>3 DEF Flow
<1> QED  BY <1>3, <1>4

LEMMA FlowsNext ==
  ASSUME Mono, \A c \in Clients : "receive" \in Rest(c)' =>
           \E l \in Lefts, x \in {c, Old} : \E m \in 0 .. Len(Answer(x)) : Story(l, x, m)' /\ Flow(c, l, x, m)'
  PROVE  Flows'
BY MonoFacts DEF Flows, Lefts

LEMMA OutputsKept ==
  ASSUME Outputs, Mono, printed' = printed,
         \A c \in Clients : Misled(c)' => Misled(c) \/ (Kept \/ Missed)'
  PROVE  Outputs'
<1> SUFFICES ASSUME NEW c \in Clients
             PROVE  /\ \E l \in Lefts, x \in {c, Old} : \E m \in 0 .. Len(Answer(x)') :
                         Story(l, x, m)' /\ IsPrefix(printed'[c], Upto(l, Answer(x)', m))
                    /\ \A k \in 1 .. Len(printed'[c]) : printed'[c][k][1] = Old => Misled(c)'
                    /\ Misled(c)' => (Kept \/ Missed)'
  BY DEF Outputs, Lefts
<1>1. PICK l \in Lefts, x \in {c, Old} : \E m \in 0 .. Len(Answer(x)) :
             Story(l, x, m) /\ IsPrefix(printed[c], Upto(l, Answer(x), m))
  BY DEF Outputs
<1>2. Answer(x)' = Answer(x) /\ \A m : Story(l, x, m) => Story(l, x, m)'
  BY MonoFacts
<1>3. (Misled(c) => Misled(c)') /\ (Kept \/ Missed => (Kept \/ Missed)')
  BY MonoFacts DEF Misled, Mono
<1>4. /\ \A k \in 1 .. Len(printed[c]) : printed[c][k][1] = Old => Misled(c)
      /\ Misled(c) => Kept \/ Missed
  BY DEF Outputs
<1> QED  BY <1>1, <1>2, <1>3, <1>4

LEMMA DeliveredKept ==
  ASSUME Delivered, Mono, Shrink, to' = to \/ "answer" \in Rest(Server)',
         \A c \in Clients : Fine(c)' /\ ~Kept /\ "receive" \in Rest(c)' =>
           /\ "open_ans" \in Rest(c) \/ Stay(c)
           /\ Server \in ends[c]["w"] => Server \in ends'[c]["w"] \/ printed[c] \o data[c] = Answer(c),
         \A c \in Clients : "open_ans" \in Rest(c) => "open_ans" \in Rest(c)' \/ "receive" \notin Rest(c)',
         "answer" \in Rest(Server) => "answer" \in Rest(Server)' \/ Hurt(Server)',
         \A c \in Clients : Fine(c)' /\ <<c, c>> \in waiting => <<c, c>> \in waiting'
  PROVE  Delivered'
<1> SUFFICES ASSUME NEW c \in Clients, Fine(c)', ~Kept', "receive" \in Rest(c)'
             PROVE  /\ "answer" \notin Rest(Server)' /\ Reply' = c =>
                         (printed[c] \o data[c])' = Answer(c)' /\ "open_ans" \notin Rest(c)'
                    /\ "open_ans" \notin Rest(c)' /\ <<c, c>> \notin waiting' =>
                         Server \in ends'[c]["w"] \/ (printed[c] \o data[c])' = Answer(c)'
  BY DEF Delivered
<1>1. Fine(c) /\ ~Kept /\ "receive" \in Rest(c) /\ Answer(c)' = Answer(c) /\ ~Hurt(Server)'
  BY MonoFacts DEF Shrink, Fine
<1>2. "open_ans" \in Rest(c) <=> "open_ans" \in Rest(c)'
  BY DEF Shrink
<1>3. "answer" \notin Rest(Server)' => Reply' = Reply
  BY DEF Reply, Mono
<1> QED  BY <1>1, <1>2, <1>3 DEF Delivered, Stay

LEMMA CompleteKept ==
  ASSUME Complete, Mono, printed' = printed,
         \A c \in Clients : "receive" \in Rest(c) => "receive" \in Rest(c)' \/ Hurt(c)'
  PROVE  Complete'
<1>1. \A c \in Clients : Misled(c) => Misled(c)'
  BY DEF Misled, Mono
<1> QED  BY <1>1, MonoFacts DEF Complete, Fine

\* ends are closed at most
LEMMA HoldsKept ==
  ASSUME Holds, Mono, Shrink,
         \A ch \in Chans, e \in {"r", "w"} : ends'[ch][e] \subseteq ends[ch][e],
         ~Missed' => \A c \in Clients : "receive" \in Rest(c)' =>
           /\ "open_req" \in Rest(c) => "open_req" \in Rest(c)'
           /\ "open_ans" \in Rest(c) => "open_ans" \in Rest(c)'
           /\ c \in ends["req"]["w"] => c \in ends'["req"]["w"]
           /\ c \in ends[c]["r"] => c \in ends'[c]["r"],
         ~Missed' /\ mode # "multi" /\ "read" \in Rest(Server)' /\ "open_req" \notin Rest(Server)' =>
           /\ "read" \in Rest(Server) /\ "open_req" \notin Rest(Server)
           /\ Server \in ends["req"]["r"] => Server \in ends'["req"]["r"],
         ~Kept /\ ~Missed' /\ Live(Server)' /\ "open_ans" \notin Rest(Server)' =>
           /\ to' = to \/ mode # "multi"
           /\ Live(Server) /\ "open_ans" \notin Rest(Server)
           /\ Server \in ends[Reply]["w"] => Server \in ends'[Reply]["w"]
  PROVE  Holds'
<1>0. "req" \in Chans /\ Clients \subseteq Chans
  BY DEF Chans
<1>1. /\ Kept' = Kept /\ Piped' = Piped /\ mode' = mode /\ (Missed => Missed')
      /\ \A p : Runs(p)' = Runs(p)
      /\ to' = to \/ mode # "multi" => Reply' = Reply
  BY MonoFacts DEF Mono, Reply
<1>2. ~Piped' =>
       /\ ends'["req"]["r"] \subseteq {Server}
       /\ ends'["req"]["w"] \subseteq Clients \cup IF mode' = "multi" THEN {Server} ELSE {}
       /\ \A c \in Clients : ends'[c]["r"] \subseteq {c} /\ ends'[c]["w"] \subseteq {Server}
  <2> SUFFICES ASSUME ~Piped PROVE
         /\ ends'["req"]["r"] \subseteq {Server}
         /\ ends'["req"]["w"] \subseteq Clients \cup IF mode = "multi" THEN {Server} ELSE {}
         /\ \A c \in Clients : ends'[c]["r"] \subseteq {c} /\ ends'[c]["w"] \subseteq {Server}
    BY <1>1
  <2>1. ends'["req"]["r"] \subseteq ends["req"]["r"] /\ ends'["req"]["w"] \subseteq ends["req"]["w"]
    BY <1>0
  <2>2. \A c \in Clients : ends'[c]["r"] \subseteq ends[c]["r"] /\ ends'[c]["w"] \subseteq ends[c]["w"]
    BY <1>0
  <2> QED  BY <2>1, <2>2 DEF Holds
<1>3. ASSUME NEW c \in Clients
      PROVE  /\ c \in ends'["req"]["w"] => Runs(c)' /\ "open_req" \notin Rest(c)'
             /\ c \in ends'[c]["r"] => "open_ans" \notin Rest(c)'
             /\ ~Kept /\ ~Missed' /\ "receive" \in Rest(c)' =>
                  /\ "open_req" \notin Rest(c)' => c \in ends'["req"]["w"]
                  /\ "open_ans" \notin Rest(c)' => c \in ends'[c]["r"]
  <2>1. (c \in ends'["req"]["w"] => c \in ends["req"]["w"]) /\ (c \in ends'[c]["r"] => c \in ends[c]["r"])
    BY <1>0
  <2>2. \A o : o \in Rest(c)' => o = "exit" \/ o \in Rest(c)
    BY DEF Shrink
  <2> QED  BY <1>1, <2>1, <2>2 DEF Holds
<1>4. ~Kept' /\ ~Missed' /\ mode' # "multi" /\ "read" \in Rest(Server)' /\ "open_req" \notin Rest(Server)'
      => Server \in ends'["req"]["r"]
  BY <1>1 DEF Holds
<1>5. ~Kept' /\ ~Missed' /\ "open_ans" \notin Rest(Server)' /\ Live(Server)' => Server \in ends'[Reply']["w"]
  BY <1>1 DEF Holds
<1> QED  BY <1>1, <1>2, <1>3, <1>4, <1>5 DEF Holds

-----------------------------------------------------------------------------
(* Every action keeps the invariant. *)

LEMMA DoesFacts ==
  ASSUME NEW p \in Procs, NEW op, Does(p, op)
  PROVE  /\ Shrink
         /\ Rest(Server)' \subseteq Rest(Server)
         /\ p # Server => Rest(Server)' = Rest(Server)
         /\ \A o : o # op \/ p # Server => (o \in Rest(Server)' <=> o \in Rest(Server))
         /\ \A c \in Clients : \A o : o # op \/ p # c => (o \in Rest(c)' <=> o \in Rest(c))
         /\ op # "read" \/ p # Server => (Answering' => Answering)
         /\ op \notin Rest(p)'
<1>1. Server \in Procs /\ Clients \subseteq Procs
  BY DEF Procs
<1> QED  BY <1>1 DEF Does, Rest, Shrink, Answering

LEMMA StopsFacts ==
  ASSUME NEW p \in Procs, Stops(p)
  PROVE  /\ Shrink
         /\ Rest(Server)' \subseteq Rest(Server) \cup {"exit"}
         /\ p # Server => Rest(Server)' = Rest(Server)
         /\ p = Server => Rest(Server)' = {"exit"}
         /\ \A c \in Clients : IF c = p THEN Rest(c)' = {"exit"} ELSE Rest(c)' = Rest(c)
         /\ Answering' => Answering
<1>1. Server \in Procs /\ Clients \subseteq Procs
  BY DEF Procs
<1> QED  BY <1>1 DEF Stops, Rest, Shrink, Answering

\* nothing is read or written, no FIFO is opened and none closed
LEMMA QuietKeeps ==
  ASSUME IInv, NEW p \in Procs, NEW op, At(p, op), Does(p, op), Mono,
         op \in {"wait", "make_req", "make_ans", "unlink_req", "unlink_ans", "send"},
         UNCHANGED <<waiting, to, sent, printed>>, \A c \in Clients : NotYet(c)' => NotYet(c),
         \A c \in Clients : "receive" \in Rest(c)' => Stay(c),
         ~Kept => ends' = ends, \A c \in Clients : Server \in ends[c]["w"] => Server \in ends'[c]["w"],
         fate' \subseteq fate \cup Procs \X {"killed", "amid", "died", "missed"}
  PROVE  Meets' /\ Flows' /\ Outputs' /\ Delivered' /\ Complete'
<1>1. /\ Shrink
      /\ Rest(Server)' \subseteq Rest(Server)
      /\ \A o : o # op \/ p # Server => (o \in Rest(Server)' <=> o \in Rest(Server))
      /\ \A c \in Clients : \A o : o # op \/ p # c => (o \in Rest(c)' <=> o \in Rest(c))
      /\ Answering' => Answering
  BY DoesFacts
<1>2. /\ "open_ans" \in Rest(Server)' <=> "open_ans" \in Rest(Server)
      /\ "open_req" \in Rest(Server)' <=> "open_req" \in Rest(Server)
      /\ "answer" \in Rest(Server)' <=> "answer" \in Rest(Server)
      /\ "read" \in Rest(Server)' <=> "read" \in Rest(Server)
  BY <1>1
<1>3. \A c \in Clients : /\ "receive" \in Rest(c)' <=> "receive" \in Rest(c)
                         /\ "open_ans" \in Rest(c)' <=> "open_ans" \in Rest(c)
  BY <1>1
<1>5. Meets'
  BY <1>1, <1>2, MeetsKept DEF IInv
<1>6. Flows'
  <2>1. ASSUME NEW c \in Clients, "receive" \in Rest(c)'
        PROVE  \E l \in Lefts, x \in {c, Old} : \E m \in 0 .. Len(Answer(x)) : Story(l, x, m)' /\ Flow(c, l, x, m)'
    <3>1. Silent(c) => Silent(c)'
      BY <1>2, MonoFacts DEF Silent
    <3> QED  BY <1>1, <1>3, <2>1, <3>1, FlowKept DEF IInv
  <2> QED  BY <2>1, FlowsNext
<1>7. Outputs'
  <2>1. \A c \in Clients : Misled(c)' => Misled(c)
    BY DEF Misled
  <2> QED  BY <2>1, OutputsKept DEF IInv
<1>8. Delivered'
  BY <1>1, <1>2, <1>3, DeliveredKept DEF IInv
<1>9. Complete'
  BY <1>3, CompleteKept DEF IInv
<1> QED  BY <1>5, <1>6, <1>7, <1>8, <1>9

\* nothing is asked
LEMMA QuietAsks ==
  ASSUME IInv, NEW p \in Procs, NEW op, Does(p, op), Mono, op # "read" \/ p # Server,
         UNCHANGED <<to, sent>>, data'["req"] \in {data["req"], <<>>}
  PROVE  Requests' /\ \A c \in Clients : NotYet(c)' => NotYet(c)
<1>1. Shrink /\ Rest(Server)' \subseteq Rest(Server) /\ (Answering' => Answering)
  BY DoesFacts
<1>2. Requests'
  BY <1>1, RequestsKept DEF IInv
<1>3. \A c \in Clients : (Unasked(c)' => Unasked(c)) /\ (Asked(c)' => Asked(c))
  BY <1>1 DEF Shrink, Unasked, Asked
<1> QED  BY <1>1, <1>2, <1>3 DEF NotYet, Reading, Mono

\* process p is killed, or ends at a failing write
LEMMA StopKeeps ==
  ASSUME IInv, NEW p \in Procs, Stops(p), Programs', Mono, Hurt(p)',
         UNCHANGED <<names, data, ends, to, sent, runs, printed>>,
         waiting' \in {waiting, waiting \ ({p} \X Chans)}, \A c \in Clients : Misled(c)' => Misled(c),
         fate' \subseteq Procs \X {"killed", "amid", "died", "missed", "misled"}
  PROVE  IInv'
<1>1. /\ Shrink
      /\ Rest(Server)' \subseteq Rest(Server) \cup {"exit"}
      /\ p # Server => Rest(Server)' = Rest(Server)
      /\ p = Server => Rest(Server)' = {"exit"}
      /\ \A c \in Clients : IF c = p THEN Rest(c)' = {"exit"} ELSE Rest(c)' = Rest(c)
      /\ Answering' => Answering
  BY StopsFacts
<1>2. (Live(Server)' => Live(Server)) /\ (p = Server => ~Live(Server)')
  BY <1>1 DEF Live
<1>3. \A q, ch : q # p /\ <<q, ch>> \in waiting => <<q, ch>> \in waiting'
  OBVIOUS
<1>4. Types'
  BY MonoFacts DEF IInv, Types, Channels, Mono
<1>5. Requests'
  BY <1>1, RequestsKept DEF IInv
<1>6. Multi'
  <2>1. CASE p = Server
    BY <1>2, <2>1 DEF Multi
  <2>2. CASE p # Server
    BY <1>1, <2>2, MultiKept DEF IInv
  <2> QED  BY <2>1, <2>2
<1>7. Holds'
  BY <1>1, <1>2, HoldsKept DEF IInv
<1>8. Meets'
  <2>1. CASE p = Server
    BY <1>1, <1>2, <2>1 DEF Meets
  <2>2. CASE p # Server
    BY <1>1, <1>3, <2>2, MeetsKept DEF IInv
  <2> QED  BY <2>1, <2>2
<1>9. Flows'
  <2>1. ASSUME NEW c \in Clients, "receive" \in Rest(c)'
        PROVE  \E l \in Lefts, x \in {c, Old} : \E m \in 0 .. Len(Answer(x)) : Story(l, x, m)' /\ Flow(c, l, x, m)'
    <3>1. NotYet(c)' => NotYet(c)
      BY <1>1 DEF NotYet, Reading, Mono, Unasked, Asked
    <3>2. Answering' /\ Reply = c => (Silent(c) => Silent(c)')
      BY <1>1, MonoFacts DEF Silent, Answering
    <3> QED  BY <1>1, <2>1, <3>1, <3>2, FlowKept DEF IInv, Stay
  <2> QED  BY <2>1, FlowsNext
<1>10. Outputs'
  BY OutputsKept DEF IInv
<1>11. Delivered'
  <2>1. \A c \in Clients : Fine(c)' => c # p
    BY DEF Fine
  <2>2. p = Server => Hurt(Server)'
    BY DEF Hurt
  <2>3. \A c \in Clients : Fine(c)' /\ <<c, c>> \in waiting => <<c, c>> \in waiting'
    BY <1>3, <2>1
  <2>4. \A c \in Clients : Stay(c) /\ (Server \in ends[c]["w"] => Server \in ends'[c]["w"])
    BY DEF Stay
  <2>5. \A c \in Clients : "open_ans" \in Rest(c) => "open_ans" \in Rest(c)' \/ "receive" \notin Rest(c)'
    BY <1>1
  <2>6. "answer" \in Rest(Server) => "answer" \in Rest(Server)' \/ Hurt(Server)'
    BY <1>1, <2>2
  <2> QED  BY <1>1, <2>3, <2>4, <2>5, <2>6, DeliveredKept DEF IInv
<1>12. Complete'
  BY <1>1, CompleteKept DEF IInv
<1> QED  BY <1>4, <1>5, <1>6, <1>7, <1>8, <1>9, <1>10, <1>11, <1>12 DEF IInv

LEMMA WaitKeeps ==
  ASSUME IInv, NEW p \in Procs, Wait(p)
  PROVE  IInv'
<1>0. UNCHANGED <<fixed, names, data, ends, waiting, to, sent, runs, printed, fate>> /\ At(p, "wait") /\ Done(p)
  BY DEF Wait
<1>1. Does(p, "wait") /\ Programs' /\ Mono
  BY <1>0, DoneDoes DEF IInv, fixed, Mono
<1>2. Types'
  BY <1>0, <1>1, MonoFacts DEF IInv, Types, fixed, Channels
<1>3. Requests' /\ Meets' /\ Flows' /\ Outputs' /\ Delivered' /\ Complete'
  BY <1>0, <1>1, QuietAsks, QuietKeeps DEF IInv, Stay
<1>4. Multi'
  <2>1. mode = "multi" => p # Server
    BY <1>0, Plans DEF ServerPlan, ServerPlace, IInv
  <2>2. p # Server => Rest(Server)' = Rest(Server)
    BY <1>1, DoesFacts
  <2>3. mode # "multi" => Multi'
    BY <1>0 DEF Multi, fixed
  <2> QED  BY <1>0, <1>1, <2>1, <2>2, <2>3, MultiKept DEF IInv
<1>5. Holds'
  <2>1. Live(Server)' => Live(Server)
    BY <1>1, DoesFacts DEF Live
  <2> QED  BY <1>0, <1>1, <2>1, DoesFacts, HoldsKept DEF IInv
<1> QED  BY <1>2, <1>3, <1>4, <1>5 DEF IInv

LEMMA EndsExcept ==
  ASSUME ends \in [Chans -> [{"r", "w"} -> SUBSET Procs]], NEW f \in Chans, NEW e \in {"r", "w"}, NEW p \in Procs,
         ends' = [ends EXCEPT ![f][e] = ends[f][e] \cup {p}]
  PROVE  /\ ends' \in [Chans -> [{"r", "w"} -> SUBSET Procs]]
         /\ ends'[f][e] = ends[f][e] \cup {p}
         /\ \A ch \in Chans, d \in {"r", "w"} : ch # f \/ d # e => ends'[ch][d] = ends[ch][d]
OBVIOUS

LEMMA MakeKeeps ==
  ASSUME IInv, NEW p \in Procs, Make(p)
  PROVE  IInv'
<1>0. PICK f \in Chans, e \in {"r", "w"} :
         /\ \/ At(p, "make_req") /\ f = "req" /\ e = "r"
            \/ At(p, "make_ans") /\ f = (IF p = Server THEN Only ELSE p) /\ e = "w"
         /\ names' = names \cup {f}
         /\ ends' = IF Kept THEN [ends EXCEPT ![f][e] = ends[f][e] \cup {p}] ELSE ends
  BY DEF Make
<1>1. UNCHANGED <<fixed, data, waiting, to, sent, runs, printed, fate>> /\ Done(p)
  BY DEF Make
<1>2. PICK op \in {"make_req", "make_ans"} : At(p, op) /\ (op = "make_req" <=> f = "req")
  <2>1. CASE At(p, "make_req") /\ f = "req" /\ e = "r"
    BY <2>1
  <2>2. CASE At(p, "make_ans") /\ f = (IF p = Server THEN Only ELSE p) /\ e = "w"
    <3>1. f # "req"
      BY <2>2, ChansFacts, OnlyType DEF Procs
    <3> QED  BY <2>2, <3>1
  <2> QED  BY <1>0, <2>1, <2>2
<1>3. Does(p, op) /\ Programs' /\ Mono
  BY <1>1, <1>2, DoneDoes DEF IInv, fixed, Mono
<1>4. /\ p = Server => ServerPlace(op, Rest(p)) /\ ServerPlan(Rest(p))
      /\ p \in Clients => ClientPlace(op, Rest(p)) /\ ClientPlan(Rest(p))
  BY <1>2, Plans DEF IInv
<1>5. /\ ~Piped /\ (op = "make_req" => p = Server)
      /\ p # Server => p \in Clients /\ mode = "multi" /\ ~Kept
      /\ mode = "multi" => (op = "make_req" <=> p = Server)
  BY <1>2, <1>4 DEF ServerPlan, ServerPlace, ClientPlan, ClientPlace, Opening, Procs, Kept
<1>6. ends' \in [Chans -> [{"r", "w"} -> SUBSET Procs]]
  BY <1>0, EndsExcept DEF IInv, Types
<1>7. /\ ~Kept => ends' = ends
      /\ Kept => /\ p = Server /\ ends'[f][e] = ends[f][e] \cup {Server}
                 /\ \A ch \in Chans, d \in {"r", "w"} : ch # f \/ d # e => ends'[ch][d] = ends[ch][d]
  BY <1>0, <1>5, EndsExcept DEF IInv, Types
<1>8. Types'
  BY <1>0, <1>1, <1>3, <1>6, MonoFacts DEF IInv, Types, fixed, Channels
<1>9. Requests' /\ Meets' /\ Flows' /\ Outputs' /\ Delivered' /\ Complete'
  <2>1. \A c \in Clients : Server \in ends[c]["w"] => Server \in ends'[c]["w"]
    <3>1. \A c \in Clients : ends[c]["w"] \subseteq ends'[c]["w"]
      BY <1>7, ChansFacts
    <3> QED  BY <3>1
  <2> QED  BY <1>1, <1>2, <1>3, <1>7, <2>1, QuietAsks, QuietKeeps DEF Stay
<1>10. Multi'
  <2>1. CASE mode # "multi"
    BY <2>1, <1>3 DEF Multi, Mono
  <2>2. CASE mode = "multi" /\ p # Server
    <3>1. Rest(Server)' = Rest(Server)
      BY <1>3, <2>2, DoesFacts
    <3> QED  BY <1>0, <1>1, <1>3, <1>7, <2>2, <3>1, MultiKept DEF IInv, Kept
  <2>3. CASE mode = "multi" /\ p = Server
    <3>1. "read" \in Rest(Server) /\ op = "make_req" /\ Rest(Server)' = Rest(Server) \ {"make_req"} /\ "make_req" \in Rest(Server)
      BY <1>3, <1>4, <1>5, <2>3 DEF ServerPlan, ServerPlace, Does
    <3>2. "read" \in Rest(Server)' /\ Live(Server) /\ Live(Server)'
      BY <3>1 DEF Live
    <3>3. ends' = ends /\ "req" \in names' /\ mode' = mode
      BY <1>0, <1>2, <1>3, <1>7, <2>3, <3>1 DEF Kept, Mono
    <3> QED  BY <2>3, <3>1, <3>2, <3>3 DEF IInv, Multi
  <2> QED  BY <2>1, <2>2, <2>3
<1>11. Holds'
  <2>1. Live(Server)' => Live(Server)
    BY <1>3, DoesFacts DEF Live
  <2>2. CASE ~Kept
    <3>1. \A ch \in Chans, d \in {"r", "w"} : ends'[ch][d] \subseteq ends[ch][d]
      BY <1>7, <2>2
    <3> QED  BY <1>1, <1>3, <1>7, <2>1, <2>2, <3>1, DoesFacts, HoldsKept DEF IInv
  <2>3. CASE Kept
    <3>1. ends'["req"]["r"] \subseteq {Server} /\ ends'["req"]["w"] = ends["req"]["w"]
      BY <1>0, <1>5, <1>7, <2>3, ChansFacts, OnlyType DEF IInv, Holds
    <3>2. \A c \in Clients : ends'[c]["r"] = ends[c]["r"] /\ ends'[c]["w"] \subseteq {Server}
      BY <1>0, <1>5, <1>7, <2>3, ChansFacts, OnlyType DEF IInv, Holds
    <3>3. Kept' /\ ~Piped' /\ mode' = mode
      BY <1>3, <1>5, <2>3 DEF Mono, Kept, Piped
    <3>4. \A c \in Clients : (c \in ends["req"]["w"] => Runs(c)' /\ "open_req" \notin Rest(c)') /\ (c \in ends[c]["r"] => "open_ans" \notin Rest(c)')
      <4>1. \A c \in Clients, o \in {"open_req", "open_ans"} : o \in Rest(c)' => o \in Rest(c)
        BY <1>3, DoesFacts
      <4> QED  BY <4>1, <1>3, <1>5, MonoFacts DEF IInv, Holds
    <3> QED  BY <1>5, <3>1, <3>2, <3>3, <3>4 DEF IInv, Holds
  <2> QED  BY <2>2, <2>3
<1> QED  BY <1>8, <1>9, <1>10, <1>11 DEF IInv

LEMMA UnlinkKeeps ==
  ASSUME IInv, NEW p \in Procs, Unlink(p)
  PROVE  IInv'
<1>0. PICK f \in Chans :
         /\ \/ At(p, "unlink_req") /\ f = "req"
            \/ At(p, "unlink_ans") /\ f = p
         /\ names' = names \ {f}
         /\ data' = IF Kept THEN [data EXCEPT ![f] = <<>>] ELSE data
  BY DEF Unlink
<1>1. UNCHANGED <<fixed, ends, waiting, to, sent, runs, printed, fate>> /\ Done(p)
  BY DEF Unlink
<1>2. PICK op \in {"unlink_req", "unlink_ans"} : At(p, op) /\ (op = "unlink_req" => f = "req") /\ (op = "unlink_ans" => f = p)
  BY <1>0
<1>3. Does(p, op) /\ Programs' /\ Mono
  BY <1>1, <1>2, DoneDoes DEF IInv, fixed, Mono
<1>4. p \in Clients /\ "receive" \notin Rest(p) /\ (mode = "multi" => op = "unlink_ans")
  <2>1. p # Server
    BY <1>2, Plans DEF IInv, ServerPlan, ServerPlace
  <2>2. p \in Clients
    BY <2>1 DEF Procs
  <2> QED  BY <1>2, <2>2, Plans DEF IInv, ClientPlan, ClientPlace
<1>5. \A ch \in Chans : data'[ch] = IF ch = f /\ Kept THEN <<>> ELSE data[ch]
  BY <1>0 DEF IInv, Types, Channels
<1>6. Channels' /\ names' \subseteq Chans
  <2>1. DOMAIN data' = Chans
    BY <1>0 DEF IInv, Types, Channels
  <2>2. \A S : <<>> \in Seq(S)
    OBVIOUS
  <2>3. data'["req"] \in Seq(Clients \cup {Old}) /\ \A c \in Clients : data'[c] \in Seq(Parts)
    BY <1>5, <2>2, ChansFacts DEF IInv, Types, Channels
  <2>4. \A ch \in Chans : Len(data'[ch]) =< Capacity
    <3>1. Len(<<>>) =< Capacity
      BY EmptySeq, BoundAssumption
    <3> QED  BY <1>5, <3>1 DEF IInv, Types, Channels
  <2> QED  BY <1>0, <2>1, <2>3, <2>4 DEF IInv, Types, Channels
<1>7. Types'
  BY <1>1, <1>3, <1>6, MonoFacts DEF IInv, Types, fixed
<1>8. Requests' /\ Meets' /\ Flows' /\ Outputs' /\ Delivered' /\ Complete'
  <2>1. data'["req"] \in {data["req"], <<>>}
    BY <1>5, ChansFacts
  <2>2. ASSUME NEW c \in Clients, "receive" \in Rest(c)' PROVE Stay(c)
    <3>1. "receive" \in Rest(c)
      BY <1>3, <2>2, DoesFacts
    <3>2. data'[c] = data[c]
      BY <1>2, <1>4, <1>5, <3>1, ChansFacts
    <3> QED  BY <1>1, <3>2 DEF Stay
  <2> QED  BY <1>1, <1>2, <1>3, <2>1, <2>2, QuietAsks, QuietKeeps
<1>9. Multi'
  <2>1. Rest(Server)' = Rest(Server)
    BY <1>3, <1>4, ChansFacts, DoesFacts
  <2>2. mode = "multi" => ("req" \in names => "req" \in names')
    BY <1>0, <1>2, <1>4, ChansFacts
  <2>3. mode # "multi" => Multi'
    BY <1>3 DEF Multi, Mono
  <2> QED  BY <1>1, <1>3, <2>1, <2>2, <2>3, MultiKept DEF IInv
<1>10. Holds'
  <2>1. Live(Server)' => Live(Server)
    BY <1>3, DoesFacts DEF Live
  <2> QED  BY <1>1, <1>3, <2>1, DoesFacts, HoldsKept DEF IInv
<1> QED  BY <1>7, <1>8, <1>9, <1>10 DEF IInv

LEMMA FileShape ==
  ASSUME path \in [Clients \cup {Old} -> Lines], NEW x \in Clients \cup {Old}
  PROVE  /\ FileOf(x) \in Seq(Units) /\ Len(FileOf(x)) \in Nat
         /\ \A k \in 1 .. Len(FileOf(x)) : FileOf(x)[k][1] = x
<1>1. CASE path[x] < 0
  <2>1. FileOf(x) = << <<x, 0>> >>
    BY <1>1 DEF FileOf
  <2>2. <<x, 0>> \in Units
    BY DEF Units
  <2>3. FileOf(x) \in Seq(Units) /\ Len(FileOf(x)) = 1 /\ FileOf(x)[1] = <<x, 0>>
    BY <2>1, <2>2
  <2>4. \A k \in 1 .. 1 : k = 1
    OBVIOUS
  <2> QED  BY <2>1, <2>3, <2>4
<1>2. CASE ~(path[x] < 0)
  <2>1. PICK n : n = path[x] /\ n \in Nat
    <3>1. path[x] \in Lines /\ Lines \subseteq Nat \cup {-1, -2, -3}
      BY BoundAssumption DEF NoFile, NoPath, NoNewline
    <3>2. path[x] \in Nat \/ path[x] = -1 \/ path[x] = -2 \/ path[x] = -3
      BY <3>1
    <3>3. ~(path[x] < 0)
      BY <1>2
    <3> HIDE <1>2
    <3> QED  BY <3>2, <3>3
  <2>2. FileOf(x) = [k \in 1 .. n |-> <<x, k>>]
    BY <1>2, <2>1 DEF FileOf
  <2>3. \A k \in 1 .. n : <<x, k>> \in Units
    BY <2>1 DEF Units
  <2>4. FileOf(x) \in [1 .. n -> Units]
    BY <2>2, <2>3
  <2>5. FileOf(x) \in Seq(Units) /\ Len(FileOf(x)) = n
    BY <2>1, <2>4, SeqDef
  <2> QED  BY <2>1, <2>2, <2>5
<1> QED  BY <1>1, <1>2

\* an answer is a file, then perhaps the empty message
LEMMA AnswerShape ==
  ASSUME path \in [Clients \cup {Old} -> Lines], NEW x \in Clients \cup {Old}
  PROVE  /\ Answer(x) \in Seq(Parts)
         /\ ~Messages => Answer(x) = FileOf(x)
         /\ \A k \in 1 .. Len(FileOf(x)) : Answer(x)[k] = FileOf(x)[k]
         /\ Messages => Answer(x)[Len(FileOf(x)) + 1] = <<x, -1>>
         /\ Len(Answer(x)) = IF Messages THEN Len(FileOf(x)) + 1 ELSE Len(FileOf(x))
<1> DEFINE f == FileOf(x)
           e == << <<x, -1>> >>
<1>1. PICK n : n = Len(f) /\ n \in Nat
  BY FileShape
<1>2. f \in Seq(Parts) /\ e \in Seq(Parts) /\ Len(e) = 1 /\ e[1] = <<x, -1>>
  <2>1. FileOf(x) \in Seq(Units) /\ Units \subseteq Parts
    BY FileShape DEF Units, Parts
  <2>2. FileOf(x) \in Seq(Parts)
    BY <2>1, SeqMonotonic
  <2>3. <<x, -1>> \in Parts
    BY DEF Parts
  <2> QED  BY <2>2, <2>3
<1>3. Answer(x) = f \o IF Messages THEN e ELSE <<>>
  BY DEF Answer
<1> HIDE DEF f, e
<1>4. CASE Messages
  <2>1. /\ f \o e \in Seq(Parts) /\ Len(f \o e) = Len(f) + Len(e)
        /\ \A i \in 1 .. Len(f) + Len(e) : (f \o e)[i] = IF i <= Len(f) THEN f[i] ELSE e[i - Len(f)]
    BY <1>2, ConcatProperties
  <2>2. f \o e \in Seq(Parts) /\ Len(f \o e) = n + 1
        /\ \A i \in 1 .. n + 1 : (f \o e)[i] = IF i <= n THEN f[i] ELSE e[i - n]
    BY <1>1, <1>2, <2>1
  <2>3. \A k \in 1 .. n : (f \o e)[k] = f[k]
    <3>1. \A k \in 1 .. n : k \in 1 .. n + 1 /\ k <= n
      BY <1>1
    <3> QED  BY <2>2, <3>1
  <2>4. (f \o e)[n + 1] = <<x, -1>>
    <3>1. n + 1 \in 1 .. n + 1 /\ ~(n + 1 <= n) /\ (n + 1) - n = 1
      BY <1>1
    <3> QED  BY <1>2, <2>2, <3>1
  <2> QED  BY <1>1, <1>3, <1>4, <2>2, <2>3, <2>4 DEF f
<1>5. CASE ~Messages
  <2>1. Answer(x) = f
    BY <1>2, <1>3, <1>5, ConcatEmptySeq
  <2> QED  BY <1>2, <1>5, <2>1 DEF f
<1> QED  BY <1>4, <1>5

LEMMA FileType ==
  ASSUME Types, NEW x \in Clients \cup {Old}
  PROVE  /\ FileOf(x) \in Seq(Units) /\ Len(FileOf(x)) \in Nat
         /\ \A k \in 1 .. Len(FileOf(x)) : FileOf(x)[k][1] = x
BY FileShape DEF Types

LEMMA AnswerType ==
  ASSUME Types, NEW x \in Clients \cup {Old}
  PROVE  /\ Answer(x) \in Seq(Parts)
         /\ ~Messages => Answer(x) = FileOf(x)
         /\ \A k \in 1 .. Len(FileOf(x)) : Answer(x)[k] = FileOf(x)[k]
         /\ Messages => Answer(x)[Len(FileOf(x)) + 1] = <<x, -1>>
         /\ Len(Answer(x)) = IF Messages THEN Len(FileOf(x)) + 1 ELSE Len(FileOf(x))
BY AnswerShape DEF Types

LEMMA AnswerTags ==
  ASSUME Types, NEW x \in Clients \cup {Old}, NEW k \in 1 .. Len(Answer(x))
  PROVE  Answer(x)[k][1] = x
<1>1. PICK n : n = Len(FileOf(x)) /\ n \in Nat
  BY FileType
<1>2. k \in 1 .. n \/ (Messages /\ k = n + 1)
  BY <1>1, AnswerType
<1>3. CASE k \in 1 .. n
  BY <1>1, <1>3, AnswerType, FileType
<1>4. CASE Messages /\ k = n + 1
  BY <1>1, <1>4, AnswerType
<1> QED  BY <1>2, <1>3, <1>4

LEMMA FlowType ==
  ASSUME Types, NEW c \in Clients
  PROVE  /\ printed[c] \in Seq(Parts) /\ printed[c] \in Seq(Units)
         /\ data[c] \in Seq(Parts)
         /\ \A l \in Lefts : l \in Seq(Parts)
<1>1. printed[c] \in Seq(Units) /\ Units \subseteq Parts
  BY DEF Types, Units, Parts
<1>2. printed[c] \in Seq(Parts)
  BY <1>1, SeqMonotonic
<1> QED  BY <1>1, <1>2 DEF Types, Channels, Lefts

\* what was in a pipe or FIFO is gone with its last end
LEMMA ClosedFlow ==
  ASSUME Types, Flows, Mono, NEW c \in Clients, printed' = printed, data'[c] = <<>>, ~Kept,
         "receive" \in Rest(c)' => "receive" \in Rest(c),
         NotYet(c)' => NotYet(c),
         Answering' => Answering /\ to' = to /\ sent' = sent,
         Answering' /\ Reply = c => Server \notin ends[c]["w"] /\ (Silent(c) => Silent(c)')
  PROVE  "receive" \in Rest(c)' =>
           \E l \in Lefts, x \in {c, Old} : \E m \in 0 .. Len(Answer(x)) : Story(l, x, m)' /\ Flow(c, l, x, m)'
<1> SUFFICES ASSUME "receive" \in Rest(c)'
             PROVE  \E l \in Lefts, x \in {c, Old} : \E m \in 0 .. Len(Answer(x)) : Story(l, x, m)' /\ Flow(c, l, x, m)'
  OBVIOUS
<1>1. PICK l \in Lefts, x \in {c, Old} : \E m \in 0 .. Len(Answer(x)) : Story(l, x, m) /\ Flow(c, l, x, m)
  BY DEF Flows
<1>2. PICK m \in 0 .. Len(Answer(x)) : Story(l, x, m) /\ Flow(c, l, x, m)
  BY <1>1
<1>3. l = <<>>
  BY <1>2 DEF Story
<1>4. PICK j : j = Len(printed[c]) /\ j \in 0 .. m /\ printed[c] \o <<>> = Upto(<<>>, Answer(x), j)
  <2>1. printed[c] \o data[c] = Upto(<<>>, Answer(x), m)
    BY <1>2, <1>3 DEF Flow
  <2>2. Answer(x) \in Seq(Parts)
    BY AnswerType
  <2>3. Len(printed[c]) \in 0 .. m /\ printed[c] \o <<>> = Upto(<<>>, Answer(x), Len(printed[c]))
    <3> DEFINE p == printed[c]
               d == data[c]
               a == Answer(x)
    <3>1. p \in Seq(Parts) /\ d \in Seq(Parts) /\ a \in Seq(Parts)
      BY <2>2, FlowType
    <3>2. m \in 0 .. Len(a) /\ p \o d = Upto(<<>>, a, m)
      BY <2>1
    <3> HIDE DEF p, d, a
    <3>3. Len(p) \in 0 .. m /\ p \o <<>> = Upto(<<>>, a, Len(p))
      BY <3>1, <3>2, FlowCut
    <3> QED  BY <3>3 DEF p, a
  <2> QED  BY <2>3
<1>5. j \in 0 .. Len(Answer(x)) /\ j \in Nat /\ m \in Nat /\ j <= m
  <2>1. PICK n : n = Len(Answer(x)) /\ n \in Nat
    BY AnswerType, LenProperties
  <2> QED  BY <1>4, <2>1
<1>6. Story(l, x, j)'
  <2>1. Story(l, x, j)
    BY <1>2, <1>5 DEF Story
  <2> QED  BY <2>1, MonoFacts
<1>7. Flow(c, l, x, j)'
  <2>1. (printed[c] \o data[c])' = Upto(l, Answer(x)', j)
    BY <1>3, <1>4, MonoFacts
  <2>2. NotYet(c)' => j = 0
    <3>1. NotYet(c)' => m = 0
      BY <1>2 DEF Flow
    <3> QED  BY <1>5, <3>1
  <2>3. ASSUME Answering', Reply' = c
        PROVE  \/ x = to' /\ j = sent' /\ (sent' > 0 => Kept' \/ Server \in ends'[c]["w"])
               \/ j = 0 /\ Silent(c)'
    <3>1. Reply = c /\ to' = to /\ sent' = sent /\ Answering /\ Server \notin ends[c]["w"] /\ (Silent(c) => Silent(c)')
      BY <2>3 DEF Mono, Reply
    <3>2. \/ x = to /\ m = sent /\ (sent > 0 => Kept \/ Server \in ends[c]["w"])
          \/ m = 0 /\ Silent(c)
      BY <1>2, <3>1 DEF Flow
    <3>3. sent = m => sent = 0 \/ sent > 0
      BY <1>5
    <3>4. m = 0 => j = 0
      BY <1>5
    <3> QED  BY <3>1, <3>2, <3>3, <3>4
  <2> QED  BY <2>1, <2>2, <2>3 DEF Flow
<1> QED  BY <1>5, <1>6, <1>7

LEMMA CloseFacts ==
  ASSUME Types, mode' = mode, NEW closed, Close(closed)
  PROVE  /\ ends' \in [Chans -> [{"r", "w"} -> SUBSET Procs]]
         /\ \A ch \in Chans, e \in {"r", "w"} : ends'[ch][e] \subseteq ends[ch][e]
         /\ \A ch \in Chans, e \in {"r", "w"} : \A q \in ends[ch][e] : <<q, ch, e>> \notin closed => q \in ends'[ch][e]
         /\ \A ch \in Chans : data'[ch] = data[ch] \/ (data'[ch] = <<>> /\ ~Kept /\ ends'[ch]["r"] = {} /\ ends'[ch]["w"] = {})
         /\ Channels'
<1>1. ends' = [ch \in Chans |-> [e \in {"r", "w"} |-> ends[ch][e] \ {p \in Procs : <<p, ch, e>> \in closed}]]
  BY DEF Close
<1>2. \A ch \in Chans, e \in {"r", "w"} : ends[ch][e] \in SUBSET Procs
  BY DEF Types
<1>3. \A ch \in Chans, e \in {"r", "w"} : ends'[ch][e] = ends[ch][e] \ {p \in Procs : <<p, ch, e>> \in closed}
  BY <1>1
<1>4. ends' \in [Chans -> [{"r", "w"} -> SUBSET Procs]]
  <2>1. \A ch \in Chans : [e \in {"r", "w"} |-> ends[ch][e] \ {p \in Procs : <<p, ch, e>> \in closed}] \in [{"r", "w"} -> SUBSET Procs]
    BY <1>2
  <2> QED  BY <1>1, <2>1
<1>5. data' = [ch \in Chans |-> IF Kept \/ ends'[ch]["r"] \cup ends'[ch]["w"] # {} THEN data[ch] ELSE <<>>]
  BY DEF Close
<1>6. \A ch \in Chans : data'[ch] = data[ch] \/ (data'[ch] = <<>> /\ ~Kept /\ ends'[ch]["r"] = {} /\ ends'[ch]["w"] = {})
  <2>1. \A ch \in Chans : ends'[ch]["r"] \cup ends'[ch]["w"] = {} => ends'[ch]["r"] = {} /\ ends'[ch]["w"] = {}
    OBVIOUS
  <2>2. \A ch \in Chans : data'[ch] = IF Kept \/ ends'[ch]["r"] \cup ends'[ch]["w"] # {} THEN data[ch] ELSE <<>>
    BY <1>5
  <2> HIDE <1>5
  <2> QED  BY <2>1, <2>2
<1>7. Channels'
  <2>1. DOMAIN data' = Chans
    BY <1>5
  <2>2. \A S : <<>> \in Seq(S)
    OBVIOUS
  <2>3. data'["req"] \in Seq(Clients \cup {Old}) /\ \A c \in Clients : data'[c] \in Seq(Parts)
    BY <1>6, <2>2, ChansFacts DEF Types, Channels
  <2>4. \A ch \in Chans : Len(data'[ch]) =< Capacity
    <3>1. Len(<<>>) =< Capacity
      BY EmptySeq, BoundAssumption
    <3> QED  BY <1>6, <3>1 DEF Types, Channels
  <2> QED  BY <2>1, <2>3, <2>4 DEF Channels
<1> QED  BY <1>2, <1>3, <1>4, <1>6, <1>7

\* what the closing of ends leaves as it was, when the rest of the step does
LEMMA ClosingKeeps ==
  ASSUME IInv, NEW closed, Close(closed), Mono, Shrink, UNCHANGED <<waiting, printed, fate>>,
         \/ to' = to /\ sent' = sent /\ Rest(Server)' \subseteq Rest(Server) \cup {"exit"}
         \/ to' = Old /\ {"read", "answer", "open_ans"} \subseteq Rest(Server)',
         Answering' => Answering,
         Answering' /\ "open_ans" \in Rest(Server)' => "open_ans" \in Rest(Server),
         mode # "multi" /\ "read" \in Rest(Server)' =>
           /\ "read" \in Rest(Server) /\ <<Server, "req", "r">> \notin closed
           /\ "open_req" \in Rest(Server) => "open_req" \in Rest(Server)',
         "answer" \in Rest(Server) => "answer" \in Rest(Server)',
         Live(Server)' => Live(Server),
         ~Kept /\ Live(Server)' /\ "open_ans" \notin Rest(Server)' =>
           "open_ans" \notin Rest(Server) /\ <<Server, Reply, "w">> \notin closed,
         \A c \in Clients : \A o \in {"receive", "open_ans", "open_req"} : o \in Rest(c) => o \in Rest(c)',
         \A c \in Clients : "receive" \in Rest(c)' => <<c, c, "r">> \notin closed /\ <<c, "req", "w">> \notin closed,
         \A c \in Clients : <<Server, c, "w">> \in closed =>
           /\ ~(Answering' /\ Reply = c)
           /\ Fine(c) /\ ~Kept /\ "receive" \in Rest(c) => printed[c] \o data[c] = Answer(c)
  PROVE  Requests' /\ Holds' /\ Flows' /\ Outputs' /\ Delivered' /\ Complete'
<1>0. /\ \A ch \in Chans, e \in {"r", "w"} : ends'[ch][e] \subseteq ends[ch][e]
      /\ \A ch \in Chans, e \in {"r", "w"} : \A q \in ends[ch][e] : <<q, ch, e>> \notin closed => q \in ends'[ch][e]
      /\ \A ch \in Chans : data'[ch] = data[ch] \/ (data'[ch] = <<>> /\ ~Kept /\ ends'[ch]["r"] = {} /\ ends'[ch]["w"] = {})
  BY CloseFacts DEF IInv, Mono
<1>1. data'["req"] \in {data["req"], <<>>}
  BY <1>0, ChansFacts
<1>2. \A c \in Clients : \A o \in {"receive", "open_ans", "open_req", "send"} : o \in Rest(c)' => o \in Rest(c)
  BY DEF Shrink
<1>11. Answering' => to' = to /\ sent' = sent
  BY DEF Answering
<1>3. Requests'
  BY <1>1, <1>11, RequestsKept DEF IInv
<1>4. \A c \in Clients : "receive" \in Rest(c)' =>
        /\ c \in ends["req"]["w"] => c \in ends'["req"]["w"]
        /\ c \in ends[c]["r"] => c \in ends'[c]["r"]
  BY <1>0, ChansFacts
<1>5. \A c \in Clients : <<Server, c, "w">> \notin closed => (Server \in ends[c]["w"] => Server \in ends'[c]["w"])
  BY <1>0, ChansFacts
<1>6. Holds'
  <2>1. ~Kept /\ Live(Server)' /\ "open_ans" \notin Rest(Server)' => "open_ans" \notin Rest(Server) /\ Reply \in Clients
    BY ReplyType DEF IInv, Live
  <2>2. mode # "multi" /\ "read" \in Rest(Server)' /\ "open_req" \notin Rest(Server)' =>
           /\ "read" \in Rest(Server) /\ "open_req" \notin Rest(Server)
           /\ Server \in ends["req"]["r"] => Server \in ends'["req"]["r"]
    BY <1>0, ChansFacts
  <2> QED  BY <1>0, <1>4, <1>5, <2>1, <2>2, HoldsKept DEF IInv
<1>7. Flows'
  <2>1. ASSUME NEW c \in Clients, "receive" \in Rest(c)'
        PROVE  \E l \in Lefts, x \in {c, Old} : \E m \in 0 .. Len(Answer(x)) : Story(l, x, m)' /\ Flow(c, l, x, m)'
    <3>1. NotYet(c)' => NotYet(c)
      <4>1. (Unasked(c)' => Unasked(c)) /\ (Asked(c)' => Asked(c)) /\ mode' = mode
        BY <1>1, <1>2 DEF Unasked, Asked, Mono
      <4>2. Reading(c)' => Reading(c)
        BY ChansFacts DEF Reading
      <4> QED  BY <4>1, <4>2 DEF NotYet
    <3>2. Answering' /\ Reply = c => /\ Server \in ends[c]["w"] => Server \in ends'[c]["w"]
                                     /\ Silent(c) => Silent(c)'
      <4>1. Server \notin ends[c]["w"] => Server \notin ends'[c]["w"]
        BY <1>0, ChansFacts
      <4>2. Kept' = Kept
        BY MonoFacts
      <4> QED  BY <1>5, <4>1, <4>2 DEF Silent
    <3>3. CASE data'[c] = data[c]
      <4>1. Stay(c)
        BY <3>3 DEF Stay
      <4> QED  BY <1>2, <1>11, <2>1, <3>1, <3>2, <4>1, FlowKept DEF IInv
    <3>4. CASE data'[c] # data[c]
      <4>1. data'[c] = <<>> /\ ~Kept /\ ends'[c]["w"] = {}
        BY <1>0, <3>4, ChansFacts
      <4>2. Answering' /\ Reply = c => Server \notin ends[c]["w"] /\ (Silent(c) => Silent(c)')
        BY <3>2, <4>1
      <4> QED  BY <1>2, <1>11, <2>1, <3>1, <4>1, <4>2, ClosedFlow DEF IInv
    <3> QED  BY <3>3, <3>4
  <2> QED  BY <2>1, FlowsNext
<1>8. Outputs'
  <2>1. \A c \in Clients : Misled(c)' => Misled(c)
    BY DEF Misled
  <2> QED  BY <2>1, OutputsKept DEF IInv
<1>9. Delivered'
  <2>1. ASSUME NEW c \in Clients, Fine(c)', ~Kept, "receive" \in Rest(c)'
        PROVE  /\ "open_ans" \in Rest(c) \/ Stay(c)
               /\ Server \in ends[c]["w"] => Server \in ends'[c]["w"] \/ printed[c] \o data[c] = Answer(c)
    <3>1. Fine(c) /\ "receive" \in Rest(c) /\ ~Missed
      BY <1>2, <2>1, MonoFacts DEF Fine
    <3>2. "open_ans" \notin Rest(c) => c \in ends'[c]["r"]
      BY <1>4, <2>1, <3>1 DEF IInv, Holds
    <3>3. c \in ends'[c]["r"] => data'[c] = data[c]
      BY <1>0, ChansFacts
    <3>4. "open_ans" \in Rest(c) \/ Stay(c)
      BY <3>2, <3>3 DEF Stay
    <3> QED  BY <1>5, <2>1, <3>1, <3>4
  <2> QED  BY <1>2, <2>1, DeliveredKept DEF IInv
<1>10. Complete'
  BY CompleteKept DEF IInv
<1> QED  BY <1>3, <1>6, <1>7, <1>8, <1>9, <1>10

LEMMA CloseUnusedKeeps ==
  ASSUME IInv, NEW p \in Procs, CloseUnused(p)
  PROVE  IInv'
<1> DEFINE closed == IF p = Server THEN {<<p, "req", "w">>, <<p, Only, "r">>}
                                   ELSE {<<p, "req", "r">>, <<p, Only, "w">>}
<1>0. At(p, "close_unused") /\ Done(p) /\ Close(closed)
      /\ UNCHANGED <<fixed, names, waiting, to, sent, runs, printed, fate>>
  BY DEF CloseUnused
<1>1. Does(p, "close_unused") /\ Programs' /\ Mono /\ Runs(p)
  BY <1>0, DoneDoes DEF IInv, fixed, Mono
<1>2. Piped /\ mode # "multi" /\ ~Kept /\ "open_ans" \notin Rest(Server) /\ "receive" \notin Rest(Server)
      /\ (p = Server => "read" \in Rest(Server))
  <2>1. "close_unused" \in Rest(p)
    BY <1>1 DEF Does
  <2> QED  BY <2>1, Plans DEF IInv, ServerPlan, ClientPlan, Opening, Procs, Piped, Kept
<1>3. /\ Shrink
      /\ \A o : o # "close_unused" => (o \in Rest(Server)' <=> o \in Rest(Server))
      /\ \A c \in Clients : \A o : o # "close_unused" => (o \in Rest(c)' <=> o \in Rest(c))
      /\ Rest(Server)' \subseteq Rest(Server)
  BY <1>1, DoesFacts
<1>4. Answering' <=> Answering
  BY <1>3 DEF Answering
<1>5. Live(Server)' => Live(Server)
  BY <1>3 DEF Live
<1>6. /\ <<Server, Reply, "w">> \notin closed
      /\ \A c \in Clients : <<c, c, "r">> \notin closed /\ <<c, "req", "w">> \notin closed /\ <<Server, c, "w">> \notin closed
  <2>1. Reply = Only /\ Only \in Clients
    BY <1>2, OnlyType DEF Reply
  <2>2. CASE p = Server
    BY <2>1, <2>2, ChansFacts
  <2>3. CASE p # Server
    BY <2>1, <2>3, ChansFacts
  <2> QED  BY <2>2, <2>3
<1>11. <<Server, "req", "r">> \notin closed
  <2>1. p = Server => <<Server, "req", "r">> \notin closed
    BY OnlyType, ChansFacts
  <2>2. p # Server => <<Server, "req", "r">> \notin closed
    OBVIOUS
  <2> QED  BY <2>1, <2>2
<1> HIDE DEF closed
<1>7. Requests' /\ Holds' /\ Flows' /\ Outputs' /\ Delivered' /\ Complete'
  BY <1>0, <1>1, <1>2, <1>3, <1>4, <1>5, <1>6, <1>11, ClosingKeeps
<1>8. Types'
  <2>1. ends' \in [Chans -> [{"r", "w"} -> SUBSET Procs]] /\ Channels'
    BY <1>0, <1>1, CloseFacts DEF IInv, Mono
  <2> QED  BY <1>0, <1>1, <2>1, MonoFacts DEF IInv, Types, fixed
<1>9. Multi'
  BY <1>1, <1>2 DEF Multi, Mono
<1>10. Meets'
  BY <1>0, <1>1, <1>3, MeetsKept DEF IInv
<1> QED  BY <1>7, <1>8, <1>9, <1>10 DEF IInv

LEMMA ExitKeeps ==
  ASSUME IInv, NEW p \in Procs, Exit(p)
  PROVE  IInv'
<1> DEFINE closed == {p} \X Chans \X {"r", "w"}
<1>0. At(p, "exit") /\ Done(p) /\ Close(closed)
      /\ UNCHANGED <<fixed, names, waiting, to, sent, runs, printed, fate>>
  BY DEF Exit
<1>1. Does(p, "exit") /\ Programs' /\ Mono /\ Runs(p)
  BY <1>0, DoneDoes DEF IInv, fixed, Mono
<1>2. Rest(p) = {"exit"} /\ Rest(p)' = {}
  <2>1. Rest(p) = {"exit"}
    BY <1>0, Plans DEF IInv, ServerPlace, ClientPlace, Procs
  <2> QED  BY <1>1, <2>1 DEF Does
<1>3. /\ Shrink
      /\ \A o : o # "exit" => (o \in Rest(Server)' <=> o \in Rest(Server))
      /\ \A c \in Clients : \A o : o # "exit" => (o \in Rest(c)' <=> o \in Rest(c))
      /\ Rest(Server)' \subseteq Rest(Server)
  BY <1>1, DoesFacts
<1>4. Answering' <=> Answering
  BY <1>3 DEF Answering
<1>5. Live(Server)' <=> Live(Server)
  BY <1>3 DEF Live
<1>6. \A q, ch, e : <<q, ch, e>> \in closed => q = p
  OBVIOUS
<1>7. p = Server => ~Live(Server) /\ ~Answering
  BY <1>2 DEF Live, Answering
<1>8. \A c \in Clients : "receive" \in Rest(c)' => <<c, c, "r">> \notin closed /\ <<c, "req", "w">> \notin closed
  BY <1>2, <1>6
<1>9. ASSUME NEW c \in Clients, <<Server, c, "w">> \in closed
      PROVE  /\ ~(Answering' /\ Reply = c)
             /\ Fine(c) /\ ~Kept /\ "receive" \in Rest(c) => printed[c] \o data[c] = Answer(c)
  <2>1. p = Server /\ Rest(Server) = {"exit"}
    BY <1>2, <1>6, <1>9
  <2>2. ASSUME Fine(c), ~Kept, "receive" \in Rest(c) PROVE printed[c] \o data[c] = Answer(c)
    <3>1. mode # "multi"
      BY <1>7, <2>1, <2>2 DEF IInv, Multi, Fine
    <3>2. c = Only /\ Reply = Only
      BY <2>2, <3>1, ChansFacts DEF Fine, Runs, Reply
    <3>3. "answer" \notin Rest(Server)
      BY <2>1
    <3> QED  BY <2>2, <3>2, <3>3 DEF IInv, Delivered
  <2> QED  BY <1>4, <1>7, <2>1, <2>2
<1> HIDE DEF closed
<1>10. Requests' /\ Holds' /\ Flows' /\ Outputs' /\ Delivered' /\ Complete'
  <2>1. Live(Server)' => <<Server, Reply, "w">> \notin closed
    BY <1>5, <1>6, <1>7
  <2>2. "read" \in Rest(Server)' => <<Server, "req", "r">> \notin closed
    BY <1>2, <1>6
  <2> QED  BY <1>0, <1>1, <1>3, <1>4, <1>5, <1>8, <1>9, <2>1, <2>2, ClosingKeeps
<1>11. Types'
  <2>1. ends' \in [Chans -> [{"r", "w"} -> SUBSET Procs]] /\ Channels'
    BY <1>0, <1>1, CloseFacts DEF IInv, Mono
  <2> QED  BY <1>0, <1>1, <2>1, MonoFacts DEF IInv, Types, fixed
<1>12. Multi'
  <2>1. CASE p = Server
    <3>1. Hurt(Server) => Hurt(Server)'
      BY <1>1 DEF Mono, Hurt
    <3> QED  BY <1>1, <1>5, <1>7, <2>1, <3>1 DEF IInv, Multi, Mono
  <2>2. CASE p # Server
    <3>1. Rest(Server)' = Rest(Server)
      BY <1>1, <2>2, DoesFacts
    <3>2. \A e \in {"r", "w"} : Server \in ends["req"][e] => Server \in ends'["req"][e]
      <4>1. \A ch \in Chans, e \in {"r", "w"} : \A q \in ends[ch][e] : <<q, ch, e>> \notin closed => q \in ends'[ch][e]
        BY <1>0, <1>1, CloseFacts DEF IInv, Mono
      <4> QED  BY <1>6, <2>2, <4>1, ChansFacts
    <3> QED  BY <1>0, <1>1, <3>1, <3>2, MultiKept DEF IInv
  <2> QED  BY <2>1, <2>2
<1>13. Meets'
  BY <1>0, <1>1, <1>3, MeetsKept DEF IInv
<1> QED  BY <1>10, <1>11, <1>12, <1>13 DEF IInv

LEMMA LoopFacts ==
  ASSUME mode = "multi"
  PROVE  MultiLoop \in Tails(Program(Server)) /\ ToSet(MultiLoop) = {"read", "open_ans", "answer", "close_ans"}
<1>1. Program(Server) = MultiServer
  BY DEF Program
<1>2. Len(MultiServer) = 7 /\ SubSeq(MultiServer, 3 + 1, 7) = MultiLoop
  <2>1. MultiServer \in Seq(Operations) /\ Len(MultiServer) = 7 /\ MultiLoop \in Seq(Operations) /\ Len(MultiLoop) = 4
    BY DEF MultiServer, MultiLoop, Operations
  <2> DEFINE s == SubSeq(MultiServer, 4, 7)
  <2>2. s \in Seq(Operations) /\ Len(s) = 4 /\ \A i \in 1 .. 4 : s[i] = MultiServer[3 + i]
    <3>1. \A i \in 4 .. 7 : MultiServer[i] \in Operations
      BY DEF MultiServer, Operations
    <3>2. /\ s \in Seq(Operations) /\ Len(s) = IF 4 <= 7 THEN 7 - 4 + 1 ELSE 0
          /\ \A i \in 1 .. 7 - 4 + 1 : s[i] = MultiServer[4 + i - 1]
      BY <3>1, SubSeqProperties
    <3>3. \A i \in 1 .. 4 : i \in 1 .. 7 - 4 + 1 /\ 4 + i - 1 = 3 + i
      OBVIOUS
    <3> HIDE DEF s
    <3>4. (4 <= 7 /\ 7 - 4 + 1 = 4)
      OBVIOUS
    <3> QED  BY <3>2, <3>3, <3>4
  <2>3. \A i \in 1 .. 4 : MultiServer[3 + i] = MultiLoop[i]
    BY DEF MultiServer, MultiLoop
  <2> HIDE DEF s
  <2>4. s = MultiLoop
    BY <2>1, <2>2, <2>3, SeqEqual
  <2> QED  BY <2>1, <2>4 DEF s
<1>3. MultiLoop \in Tails(MultiServer)
  <2>1. 3 \in 0 .. 7
    OBVIOUS
  <2> QED  BY <1>2, <2>1 DEF Tails
<1> QED  BY <1>1, <1>3 DEF MultiLoop, ToSet

\* the server has no request before it
LEMMA ToNobody ==
  ASSUME Types, Mono, to' = Old, sent' = 0
  PROVE  to' \in Clients \cup {Old} /\ sent' \in 0 .. Len(Answer(to))'
<1>1. Answer(Old) \in Seq(Parts)
  BY AnswerType
<1>2. 0 \in 0 .. Len(Answer(Old))
  BY <1>1, LenProperties
<1>3. Answer(to)' = Answer(Old)
  BY DEF Answer, FileOf, Messages, Mono
<1> QED  BY <1>2, <1>3

LEMMA CloseAnsKeeps ==
  ASSUME IInv, CloseAns
  PROVE  IInv'
<1> DEFINE closed == {<<Server, to, "w">>}
<1>0. At(Server, "close_ans") /\ Goto(Server, MultiLoop) /\ Close(closed)
      /\ to' = Old /\ sent' = 0 /\ UNCHANGED <<fixed, names, waiting, runs, printed, fate>>
  BY DEF CloseAns
<1>1. Rest(Server) = {"close_ans"} /\ mode = "multi" /\ ~Kept /\ ~Piped /\ todo[Server] # <<>>
  BY <1>0, Plans DEF IInv, ServerPlan, ServerPlace, Kept, Piped, At
<1>2. MultiLoop \in Tails(Program(Server)) /\ ToSet(MultiLoop) = {"read", "open_ans", "answer", "close_ans"}
  BY <1>1, LoopFacts
<1>3. /\ Rest(Server)' = {"read", "open_ans", "answer", "close_ans"}
      /\ \A q \in Procs : q # Server => Rest(q)' = Rest(q)
      /\ Programs' /\ Mono
  BY <1>0, <1>1, <1>2, GotoRuns, ChansFacts DEF IInv, fixed, Mono, Runs
<1>4. /\ \A c \in Clients : Rest(c)' = Rest(c)
      /\ Shrink /\ ~Answering' /\ ~Answering /\ Live(Server) /\ Live(Server)' /\ Reply = to
  BY <1>1, <1>3, ChansFacts DEF Shrink, Answering, Live, Reply
<1>5. \A q, ch, e : <<q, ch, e>> \in closed => q = Server /\ ch = to /\ e = "w"
  OBVIOUS
<1>6. to \in Clients
  BY <1>1, <1>4 DEF IInv, Multi
<1> HIDE DEF closed
<1>7. Requests' /\ Holds' /\ Flows' /\ Outputs' /\ Delivered' /\ Complete'
  <2>1. \A c \in Clients : <<c, c, "r">> \notin closed /\ <<c, "req", "w">> \notin closed
    BY <1>5, ChansFacts
  <2>2. \A c \in Clients : <<Server, c, "w">> \in closed =>
          (Fine(c) /\ ~Kept /\ "receive" \in Rest(c) => printed[c] \o data[c] = Answer(c))
    <3>1. \A c \in Clients : <<Server, c, "w">> \in closed => c = to
      BY <1>5
    <3>2. "answer" \notin Rest(Server)
      BY <1>1
    <3> QED  BY <1>4, <3>1, <3>2 DEF IInv, Delivered
  <2> QED  BY <1>0, <1>1, <1>3, <1>4, <2>1, <2>2, ClosingKeeps
<1>8. Types'
  <2>1. ends' \in [Chans -> [{"r", "w"} -> SUBSET Procs]] /\ Channels'
    BY <1>0, <1>3, CloseFacts DEF IInv, Mono
  <2>2. to' \in Clients \cup {Old} /\ sent' \in 0 .. Len(Answer(to))'
    BY <1>0, <1>3, ToNobody DEF IInv
  <2> QED  BY <1>0, <1>3, <2>1, <2>2, MonoFacts DEF IInv, Types, fixed
<1>9. Multi'
  <2>1. \A e \in {"r", "w"} : Server \in ends["req"][e] => Server \in ends'["req"][e]
    <3>1. \A ch \in Chans, e \in {"r", "w"} : \A q \in ends[ch][e] : <<q, ch, e>> \notin closed => q \in ends'[ch][e]
      BY <1>0, <1>3, CloseFacts DEF IInv, Mono
    <3>2. \A e \in {"r", "w"} : <<Server, "req", e>> \notin closed
      BY <1>5, <1>6, ChansFacts
    <3> QED  BY <3>1, <3>2, ChansFacts
  <2>2. "req" \in names /\ Server \in ends["req"]["r"] /\ Server \in ends["req"]["w"]
    BY <1>1, <1>4 DEF IInv, Multi
  <2>3. "req" \in names' /\ Server \in ends'["req"]["r"] /\ Server \in ends'["req"]["w"]
    BY <1>0, <2>1, <2>2
  <2> QED  BY <1>3, <1>4, <2>3 DEF Multi
<1>10. Meets'
  BY <1>1, <1>3 DEF Meets, Mono
<1> QED  BY <1>7, <1>8, <1>9, <1>10 DEF IInv

LEMMA KillKeeps ==
  ASSUME IInv, NEW p \in Procs, Kill(p)
  PROVE  IInv'
<1>0. /\ todo[p] # <<>> /\ Goto(p, <<"exit">>)
      /\ waiting' = waiting \ ({p} \X Chans)
      /\ UNCHANGED <<fixed, names, data, ends, to, sent, runs, printed>>
  BY DEF Kill
<1>1. /\ <<p, "killed">> \in fate' /\ fate \subseteq fate'
      /\ fate' \subseteq fate \cup {<<p, "killed">>, <<p, "amid">>}
  BY DEF Kill
<1>2. Mono /\ Hurt(p)'
  BY <1>0, <1>1 DEF fixed, Mono, Hurt
<1>3. Stops(p) /\ Programs'
  BY <1>0, <1>2, GotoExit DEF IInv, Mono
<1>4. fate' \subseteq Procs \X {"killed", "amid", "died", "missed", "misled"}
  BY <1>1 DEF IInv, Types
<1>5. \A c \in Clients : Misled(c)' => Misled(c)
  BY <1>1 DEF Misled
<1> QED  BY <1>0, <1>2, <1>3, <1>4, <1>5, StopKeeps

LEMMA DiesKeeps ==
  ASSUME IInv, NEW p \in Procs, todo[p] # <<>>, Dies(p),
         UNCHANGED <<fixed, names, data, ends, waiting, to, sent, runs, printed>>
  PROVE  IInv'
<1>1. Goto(p, <<"exit">>) /\ fate' = fate \cup {<<p, "died">>}
  BY DEF Dies, Befalls
<1>2. Mono /\ Hurt(p)'
  BY <1>1 DEF fixed, Mono, Hurt
<1>3. Stops(p) /\ Programs'
  BY <1>1, <1>2, GotoExit DEF IInv, Mono
<1>4. fate' \subseteq Procs \X {"killed", "amid", "died", "missed", "misled"}
  BY <1>1 DEF IInv, Types
<1>5. \A c \in Clients : Misled(c)' => Misled(c)
  BY <1>1 DEF Misled
<1> QED  BY <1>2, <1>3, <1>4, <1>5, StopKeeps

LEMMA RestartKeeps ==
  ASSUME IInv, Restart
  PROVE  IInv'
<1>0. /\ mode = "multi" /\ todo[Server] = <<>> /\ runs < MaxRuns
      /\ Goto(Server, Program(Server)) /\ to' = Old /\ sent' = 0 /\ runs' = runs + 1
      /\ UNCHANGED <<fixed, names, data, ends, waiting, printed, fate>>
  BY DEF Restart
<1>1. Rest(Server) = {} /\ ~Kept
  BY <1>0 DEF Rest, ToSet, Kept
<1>2. Program(Server) \in Tails(Program(Server))
      /\ ToSet(Program(Server)) = {"make_req", "open_req", "open_dummy", "read", "open_ans", "answer", "close_ans"}
  <2>1. Program(Server) = MultiServer
    BY <1>0 DEF Program
  <2>2. MultiServer \in Seq(Operations) /\ Len(MultiServer) = 7
    BY DEF MultiServer, Operations
  <2>3. SubSeq(MultiServer, 0 + 1, 7) = MultiServer
    <3>1. 0 + 1 = 1
      OBVIOUS
    <3> QED  BY <2>2, <3>1, SubSeqFull
  <2>4. MultiServer \in Tails(MultiServer)
    <3>1. 0 \in 0 .. 7
      OBVIOUS
    <3> QED  BY <2>2, <2>3, <3>1 DEF Tails
  <2> QED  BY <2>1, <2>4 DEF MultiServer, ToSet
<1>3. /\ Rest(Server)' = {"make_req", "open_req", "open_dummy", "read", "open_ans", "answer", "close_ans"}
      /\ \A q \in Procs : q # Server => Rest(q)' = Rest(q)
      /\ Programs' /\ Mono
  BY <1>0, <1>2, GotoRuns, ChansFacts DEF IInv, fixed, Mono, Runs
<1>4. /\ \A c \in Clients : Rest(c)' = Rest(c)
      /\ Shrink /\ ~Answering' /\ Live(Server)'
  BY <1>3, ChansFacts DEF Shrink, Answering, Live
<1>5. Types'
  <2>1. runs' \in 1 .. MaxRuns
    <3>1. runs \in 1 .. MaxRuns /\ MaxRuns \in Nat
      BY BoundAssumption DEF IInv, Types
    <3> QED  BY <1>0, <3>1
  <2>2. to' \in Clients \cup {Old} /\ sent' \in 0 .. Len(Answer(to))'
    BY <1>0, <1>3, ToNobody DEF IInv
  <2> QED  BY <1>0, <1>3, <2>1, <2>2, MonoFacts DEF IInv, Types, fixed, Channels
<1>6. Requests'
  BY <1>0, <1>3, <1>4, RequestsKept DEF IInv
<1>7. Multi'
  BY <1>3, <1>4 DEF Multi
<1>8. Holds'
  BY <1>0, <1>3, <1>4, HoldsKept DEF IInv
<1>9. Meets'
  BY <1>0, <1>3 DEF Meets, fixed
<1>10. Flows'
  <2>1. ASSUME NEW c \in Clients, "receive" \in Rest(c)'
        PROVE  \E l \in Lefts, x \in {c, Old} : \E m \in 0 .. Len(Answer(x)) : Story(l, x, m)' /\ Flow(c, l, x, m)'
    <3>1. NotYet(c)' => NotYet(c)
      <4>1. ~Reading(c)'
        BY <1>0, ChansFacts DEF Reading
      <4> QED  BY <1>0, <1>4, <4>1 DEF NotYet, Unasked, Asked, fixed
    <3> QED  BY <1>0, <1>3, <1>4, <2>1, <3>1, FlowKept DEF IInv, Stay
  <2> QED  BY <1>3, <2>1, FlowsNext
<1>11. Outputs'
  <2>1. \A c \in Clients : Misled(c)' => Misled(c)
    BY <1>0 DEF Misled
  <2> QED  BY <1>0, <1>3, <2>1, OutputsKept DEF IInv
<1>12. Delivered'
  BY <1>0, <1>1, <1>3, <1>4, DeliveredKept DEF IInv, Stay
<1>13. Complete'
  BY <1>0, <1>3, <1>4, CompleteKept DEF IInv
<1> QED  BY <1>5, <1>6, <1>7, <1>8, <1>9, <1>10, <1>11, <1>12, <1>13 DEF IInv

LEMMA AppendFacts ==
  ASSUME NEW S, NEW s \in Seq(S), NEW u \in S
  PROVE  /\ Append(s, u) \in Seq(S) /\ Len(Append(s, u)) = Len(s) + 1 /\ Len(s) \in Nat
         /\ \A k \in DOMAIN Append(s, u) : (k \in DOMAIN s /\ Append(s, u)[k] = s[k]) \/ (k = Len(s) + 1 /\ Append(s, u)[k] = u)
<1>1. Len(s) \in Nat /\ DOMAIN s = 1 .. Len(s)
  BY LenProperties
<1>2. /\ Append(s, u) \in Seq(S) /\ Len(Append(s, u)) = Len(s) + 1
      /\ DOMAIN Append(s, u) = 1 .. Len(s) + 1
      /\ \A i \in 1 .. Len(s) : Append(s, u)[i] = s[i]
      /\ Append(s, u)[Len(s) + 1] = u
  BY AppendProperties, LenProperties
<1>3. PICK n : n = Len(s) /\ n \in Nat
  BY <1>1
<1>4. \A k \in 1 .. n + 1 : k \in 1 .. n \/ k = n + 1
  BY <1>3
<1> QED  BY <1>1, <1>2, <1>3, <1>4

\* one more unit in the channel ch
LEMMA PutFacts ==
  ASSUME Types, NEW p, NEW ch \in Chans, NEW u, Puts(p, ch, u),
         ch = "req" => u \in Clients, ch # "req" => u \in Parts
  PROVE  /\ Channels' /\ data'[ch] = Append(data[ch], u) /\ ~Breaks(p, ch) /\ ~Lost(p, ch)
         /\ \A f \in Chans : f # ch => data'[f] = data[f]
<1>1. data' = [data EXCEPT ![ch] = Append(data[ch], u)] /\ ~Breaks(p, ch) /\ ~Lost(p, ch) /\ Len(data[ch]) < Capacity
  BY DEF Puts
<1>2. DOMAIN data = Chans
  BY DEF Types, Channels
<1>3. DOMAIN data' = Chans /\ data'[ch] = Append(data[ch], u) /\ \A f \in Chans : f # ch => data'[f] = data[f]
  BY <1>1, <1>2
<1>4. /\ ch = "req" => data'[ch] \in Seq(Clients \cup {Old}) /\ Len(data'[ch]) = Len(data[ch]) + 1 /\ Len(data[ch]) \in Nat
      /\ ch # "req" => data'[ch] \in Seq(Parts) /\ Len(data'[ch]) = Len(data[ch]) + 1 /\ Len(data[ch]) \in Nat
  <2>1. CASE ch = "req"
    <3>1. data[ch] \in Seq(Clients \cup {Old}) /\ u \in Clients \cup {Old}
      BY <2>1 DEF Types, Channels
    <3>2. Append(data[ch], u) \in Seq(Clients \cup {Old}) /\ Len(Append(data[ch], u)) = Len(data[ch]) + 1 /\ Len(data[ch]) \in Nat
      BY <3>1, AppendFacts
    <3> QED  BY <1>3, <2>1, <3>2
  <2>2. CASE ch # "req"
    <3>1. data[ch] \in Seq(Parts) /\ u \in Parts
      BY <2>2 DEF Types, Channels, Chans
    <3>2. Append(data[ch], u) \in Seq(Parts) /\ Len(Append(data[ch], u)) = Len(data[ch]) + 1 /\ Len(data[ch]) \in Nat
      BY <3>1, AppendFacts
    <3> QED  BY <1>3, <2>2, <3>2
  <2> QED  BY <2>1, <2>2
<1>5. \A f \in Chans : Len(data'[f]) =< Capacity
  <2>1. Len(data'[ch]) =< Capacity
    <3>1. Len(data[ch]) < Capacity /\ Len(data[ch]) \in Nat /\ Capacity \in Nat /\ Len(data'[ch]) = Len(data[ch]) + 1
      BY <1>1, <1>4, BoundAssumption
    <3> HIDE <1>1, <1>3, <1>4
    <3> QED  BY <3>1
  <2> QED  BY <1>3, <2>1 DEF Types, Channels
<1>6. data'["req"] \in Seq(Clients \cup {Old}) /\ \A c \in Clients : data'[c] \in Seq(Parts)
  BY <1>3, <1>4, ChansFacts DEF Types, Channels
<1> QED  BY <1>1, <1>3, <1>5, <1>6 DEF Channels

LEMMA SendKeeps ==
  ASSUME IInv, NEW c \in Clients, Send(c)
  PROVE  IInv'
<1>0. /\ At(c, "send") /\ UNCHANGED <<fixed, names, ends, waiting, to, sent, runs, printed>>
      /\ \/ Done(c) /\ data' = data /\ fate' = fate
         \/ Dies(c) /\ data' = data
         \/ Puts(c, "req", c) /\ Done(c) /\ fate' = fate
  BY DEF Send
<1>1. c \in Procs /\ todo[c] # <<>>
  BY <1>0, ChansFacts DEF At
<1>2. CASE Dies(c) /\ data' = data
  BY <1>0, <1>1, <1>2, DiesKeeps
<1>3. CASE Done(c) /\ fate' = fate /\ (data' = data \/ Puts(c, "req", c))
  <2>1. Does(c, "send") /\ Runs(c) /\ Programs' /\ Mono
    BY <1>0, <1>1, <1>3, DoneDoes DEF IInv, fixed, Mono
  <2>2. Channels' /\ \A d \in Clients : data'[d] = data[d]
    <3>1. Puts(c, "req", c) => Channels' /\ \A d \in Clients : data'[d] = data[d]
      BY PutFacts, ChansFacts DEF IInv
    <3>2. data' = data => Channels'
      BY DEF IInv, Types, Channels
    <3> QED  BY <1>3, <3>1, <3>2
  <2>3. Types'
    BY <1>0, <1>3, <2>1, <2>2, MonoFacts DEF IInv, Types, fixed
  <2>4. Rest(Server)' = Rest(Server) /\ Unasked(c) /\ ~Unasked(c)' /\ Rest(c)' \subseteq Rest(c) /\ \A d \in Clients : d # c => Rest(d)' = Rest(d)
    BY <1>1, <2>1, ChansFacts, DoesFacts DEF Unasked, Does
  <2>5. Multi'
    BY <1>0, <2>1, <2>4, MultiKept DEF IInv
  <2>6. Holds'
    <3>1. Live(Server)' <=> Live(Server)
      BY <2>4 DEF Live
    <3> QED  BY <1>0, <1>1, <2>1, <2>4, <3>1, DoesFacts, HoldsKept DEF IInv
  <2>7. Requests' /\ \A d \in Clients : NotYet(d)' => NotYet(d)
    <3>1. CASE data' = data
      BY <1>0, <1>1, <2>1, <3>1, ChansFacts, QuietAsks
    <3>2. CASE Puts(c, "req", c)
      <4>1. data'["req"] = Append(data["req"], c) /\ data["req"] \in Seq(Clients \cup {Old})
        <5>1. data'["req"] = Append(data["req"], c)
          BY <3>2, PutFacts, ChansFacts DEF IInv
        <5> QED  BY <5>1 DEF IInv, Types, Channels
      <4>2. \A k \in DOMAIN data'["req"] : \/ k \in DOMAIN data["req"] /\ data'["req"][k] = data["req"][k]
                                           \/ k = Len(data["req"]) + 1 /\ data'["req"][k] = c
        BY <4>1, AppendFacts
      <4>3. \A d : Asked(d)' => Asked(d) \/ d = c
        BY <4>2 DEF Asked
      <4>4. ~Asked(c) /\ c # Old
        BY <2>4, ChansFacts DEF IInv, Requests
      <4>5. /\ \A d \in Clients : Unasked(d)' => ~Asked(d)'
            /\ \A d \in Clients : Asked(d)' => Runs(d)'
            /\ ~Kept' => ~Asked(Old)'
        BY <2>1, <2>4, <4>3, <4>4, MonoFacts DEF IInv, Requests, Unasked
      <4>6. \A j, k \in DOMAIN data'["req"] : data'["req"][j] = data'["req"][k] /\ data'["req"][j] # Old => j = k
        <5> SUFFICES ASSUME NEW j \in DOMAIN data'["req"], NEW k \in DOMAIN data'["req"],
                            data'["req"][j] = data'["req"][k], data'["req"][j] # Old
                     PROVE  j = k
          OBVIOUS
        <5>1. \A i \in DOMAIN data["req"] : data["req"][i] # c
          BY <4>4 DEF Asked
        <5> QED  BY <4>2, <5>1 DEF IInv, Requests
      <4>7. \A d \in Clients : NotYet(d)' => NotYet(d)
        BY <1>0, <2>1, <2>4, <4>3 DEF NotYet, Reading, Mono, Unasked
      <4>8. Answering' = Answering
        BY <2>4 DEF Answering
      <4>9. /\ ~Kept' /\ Answering' /\ to' = Old => Missed'
            /\ Answering' /\ "open_ans" \in Rest(Server)' => sent' = 0
        BY <1>0, <2>1, <2>4, <4>8, MonoFacts DEF IInv, Requests
      <4>10. ASSUME NEW d \in Clients, to' = d
             PROVE  /\ Runs(d)'
                    /\ "answer" \in Rest(Server)' => ~Unasked(d)' /\ ~Asked(d)'
                    /\ "read" \in Rest(Server)' => mode' = "multi"
        <5>1. to = d /\ Runs(d)' = Runs(d) /\ mode' = mode
          BY <1>0, <2>1, <4>10, MonoFacts DEF Mono
        <5>2. /\ Runs(d) /\ ("read" \in Rest(Server) => mode = "multi")
              /\ "answer" \in Rest(Server) => ~Unasked(d) /\ ~Asked(d)
          BY <5>1 DEF IInv, Requests
        <5>3. ASSUME "answer" \in Rest(Server) PROVE ~Unasked(d)' /\ ~Asked(d)'
          <6>1. d # c /\ ~Unasked(d) /\ ~Asked(d)
            BY <2>4, <5>2, <5>3
          <6> QED  BY <2>4, <4>3, <6>1 DEF Unasked
        <5> QED  BY <2>4, <5>1, <5>2, <5>3
      <4>11. Requests'
        BY <4>5, <4>6, <4>9, <4>10 DEF Requests
      <4> QED  BY <4>7, <4>11
    <3> QED  BY <1>3, <3>1, <3>2
  <2>8. Meets' /\ Flows' /\ Outputs' /\ Delivered' /\ Complete'
    BY <1>0, <1>1, <1>3, <2>1, <2>2, <2>7, QuietKeeps DEF Stay
  <2> QED  BY <2>3, <2>5, <2>6, <2>7, <2>8 DEF IInv
<1> QED  BY <1>0, <1>2, <1>3

\* process p, next to do op, opens end e of channel f
Opened(p, op, f, e) ==
  \/ op = "open_req" /\ f = "req" /\ e = (IF p = Server THEN "r" ELSE "w")
  \/ op = "open_dummy" /\ f = "req" /\ e = "w" /\ p = Server
  \/ op = "open_ans" /\ p = Server /\ f = Reply /\ e = "w"
  \/ op = "open_ans" /\ p # Server /\ f = p /\ e = "r"

LEMMA OpenFacts ==
  ASSUME IInv, NEW p \in Procs, Open(p)
  PROVE  \E op \in {"open_req", "open_dummy", "open_ans"} : \E f \in Chans, e \in {"r", "w"} :
           /\ At(p, op) /\ Opened(p, op, f, e) /\ Opens(p, f, e)
           /\ p = Server => ServerPlan(Rest(p)) /\ ServerPlace(op, Rest(p))
           /\ p # Server => p \in Clients /\ ClientPlan(Rest(p)) /\ ClientPlace(op, Rest(p))
           /\ UNCHANGED <<fixed, names, data, sent, runs, printed>>
<1>1. UNCHANGED <<fixed, names, data, sent, runs, printed>>
  BY DEF Open
<1>2. /\ \A op : p = Server /\ At(p, op) => ServerPlan(Rest(p)) /\ ServerPlace(op, Rest(p))
      /\ \A op : p # Server /\ At(p, op) => p \in Clients /\ ClientPlan(Rest(p)) /\ ClientPlace(op, Rest(p))
  BY Plans DEF IInv, Procs
<1>3. CASE At(p, "open_req") /\ Opens(p, "req", IF p = Server THEN "r" ELSE "w")
  BY <1>1, <1>2, <1>3, ChansFacts DEF Opened
<1>4. CASE At(p, "open_dummy") /\ Opens(p, "req", "w")
  <2>1. p = Server
    BY <1>2, <1>4 DEF ClientPlan, ClientPlace
  <2> QED  BY <1>1, <1>2, <1>4, <2>1, ChansFacts DEF Opened
<1>5. CASE At(p, "open_ans") /\ (IF p = Server THEN Opens(p, Reply, "w") ELSE Opens(p, p, "r"))
  <2>1. CASE p = Server
    <3>1. "open_ans" \in Rest(Server) /\ (mode = "multi" => "read" \notin Rest(Server))
      BY <1>2, <1>5, <2>1 DEF ServerPlace
    <3>2. Reply \in Clients
      <4>1. mode = "multi" => to \in Clients
        BY <3>1 DEF IInv, Multi, Live
      <4> QED  BY <4>1, OnlyType DEF Reply
    <3> QED  BY <1>1, <1>2, <1>5, <2>1, <3>2, ChansFacts DEF Opened
  <2>2. CASE p # Server
    BY <1>1, <1>2, <1>5, <2>2, ChansFacts DEF Opened
  <2> QED  BY <2>1, <2>2
<1> QED  BY <1>3, <1>4, <1>5 DEF Open

\* the name is not there: descriptor -1
LEMMA MissedKeeps ==
  ASSUME IInv, NEW p \in Procs, NEW op \in {"open_req", "open_dummy", "open_ans"}, NEW f \in Chans, NEW e \in {"r", "w"},
         At(p, op), Opened(p, op, f, e), f \notin names, fate' = fate \cup {<<p, "missed">>},
         IF p = Server /\ mode = "multi" THEN Goto(p, MultiLoop) /\ to' = Old ELSE Done(p) /\ to' = to,
         UNCHANGED <<ends, waiting>>, UNCHANGED <<fixed, names, data, sent, runs, printed>>,
         p = Server => ServerPlan(Rest(p)) /\ ServerPlace(op, Rest(p)),
         p # Server => p \in Clients /\ ClientPlan(Rest(p)) /\ ClientPlace(op, Rest(p))
  PROVE  IInv'
<1>1. Mono /\ Missed' /\ (\A c : ~Fine(c)') /\ fate' \subseteq Procs \X {"killed", "amid", "died", "missed", "misled"}
  BY DEF fixed, Mono, Missed, Fine, IInv, Types
<1>4. \A c \in Clients : Misled(c)' => Misled(c)
  BY DEF Misled
<1>2. CASE p = Server /\ mode = "multi"
  <2>1. op = "open_ans" /\ Live(Server) /\ Rest(Server) \cap {"make_req", "open_req", "open_dummy", "read"} = {}
    <3>1. op \in Rest(Server) /\ Live(Server)
      BY <1>2 DEF ServerPlace, Live
    <3>2. op # "open_ans" => "make_req" \notin Rest(Server) /\ f = "req"
      BY <1>2 DEF ServerPlace, Opened
    <3>3. op = "open_ans"
      BY <1>2, <3>1, <3>2 DEF IInv, Multi
    <3> QED  BY <1>2, <3>1, <3>3 DEF ServerPlace
  <2>2. MultiLoop \in Tails(Program(Server)) /\ ToSet(MultiLoop) = {"read", "open_ans", "answer", "close_ans"}
    BY <1>2, LoopFacts
  <2>3. todo[Server] # <<>> /\ Runs(Server)
    BY <1>2 DEF At, Runs
  <2>4. /\ Rest(Server)' = {"read", "open_ans", "answer", "close_ans"}
        /\ \A q \in Procs : q # Server => Rest(q)' = Rest(q)
        /\ Programs'
    BY <1>1, <1>2, <2>2, <2>3, GotoRuns DEF IInv, Mono
  <2>5. /\ \A c \in Clients : Rest(c)' = Rest(c)
        /\ Shrink /\ ~Answering' /\ Live(Server)'
    BY <2>4, ChansFacts DEF Shrink, Answering, Live
  <2>6. Types'
    <3>1. sent = 0
      <4>1. "answer" \in Rest(Server) /\ "open_ans" \in Rest(Server) /\ "read" \notin Rest(Server)
        BY <1>2, <2>1 DEF ServerPlace, ServerPlan
      <4> QED  BY <4>1 DEF IInv, Requests, Answering
    <3>2. to' \in Clients \cup {Old} /\ sent' \in 0 .. Len(Answer(to))'
      BY <1>1, <1>2, <3>1, ToNobody DEF IInv
    <3> QED  BY <1>1, <2>4, <3>2, MonoFacts DEF IInv, Types, fixed, Channels
  <2>7. Requests'
    BY <1>1, <1>2, <2>4, <2>5, RequestsKept DEF IInv
  <2>8. Multi'
    BY <1>1, <2>1, <2>4, <2>5 DEF IInv, Multi, Mono
  <2>9. Holds'
    BY <1>1, <1>2, <2>4, <2>5, HoldsKept DEF IInv, Mono
  <2>10. Meets'
    BY <1>1 DEF Meets
  <2>11. Flows'
    <3>1. ASSUME NEW c \in Clients, "receive" \in Rest(c)'
          PROVE  \E l \in Lefts, x \in {c, Old} : \E m \in 0 .. Len(Answer(x)) : Story(l, x, m)' /\ Flow(c, l, x, m)'
      <4>1. NotYet(c)' => NotYet(c)
        <5>1. ~Reading(c)'
          BY <1>2, ChansFacts DEF Reading
        <5> QED  BY <1>1, <1>2, <2>5, <5>1 DEF NotYet, Unasked, Asked, Mono
      <4> QED  BY <1>1, <2>5, <3>1, <4>1, FlowKept DEF IInv, Stay
    <3> QED  BY <1>1, <3>1, FlowsNext
  <2>12. Outputs'
    BY <1>1, <1>4, OutputsKept DEF IInv
  <2>13. Delivered' /\ Complete'
    BY <1>1 DEF Delivered, Complete
  <2> QED  BY <2>6, <2>7, <2>8, <2>9, <2>10, <2>11, <2>12, <2>13 DEF IInv
<1>3. CASE ~(p = Server /\ mode = "multi")
  <2>1. Does(p, op) /\ Programs'
    BY <1>1, <1>3, DoneDoes DEF IInv, Mono
  <2>2. /\ Shrink
        /\ Rest(Server)' \subseteq Rest(Server)
        /\ p # Server => Rest(Server)' = Rest(Server)
        /\ \A o : o # op \/ p # Server => (o \in Rest(Server)' <=> o \in Rest(Server))
        /\ \A c \in Clients : \A o : o # op \/ p # c => (o \in Rest(c)' <=> o \in Rest(c))
        /\ Answering' => Answering
    BY <2>1, DoesFacts
  <2>3. Types'
    BY <1>1, <1>3, <2>1, MonoFacts DEF IInv, Types, fixed, Channels
  <2>4. Requests' /\ \A c \in Clients : NotYet(c)' => NotYet(c)
    BY <1>1, <1>3, <2>1, QuietAsks
  <2>5. Multi'
    <3>1. mode # "multi" => Multi'
      BY <1>1 DEF Multi, Mono
    <3> QED  BY <1>1, <1>3, <2>2, <3>1, MultiKept DEF IInv
  <2>6. Holds'
    <3>1. /\ Kept' = Kept /\ Piped' = Piped /\ mode' = mode /\ ends' = ends
          /\ \A c : Runs(c)' = Runs(c)
      BY <1>1, MonoFacts DEF Mono
    <3>2. \A c \in Clients, o \in {"open_req", "open_ans"} : o \in Rest(c)' => o \in Rest(c)
      BY <2>2 DEF Shrink
    <3> QED  BY <1>1, <3>1, <3>2 DEF IInv, Holds
  <2>7. Meets'
    BY <1>1 DEF Meets
  <2>8. Flows'
    <3>1. ASSUME NEW c \in Clients, "receive" \in Rest(c)'
          PROVE  \E l \in Lefts, x \in {c, Old} : \E m \in 0 .. Len(Answer(x)) : Story(l, x, m)' /\ Flow(c, l, x, m)'
      <4>1. "receive" \in Rest(c)
        BY <2>2, <3>1 DEF Shrink
      <4>2. Silent(c) => Silent(c)'
        BY <1>1, <2>2, MonoFacts DEF Silent
      <4> QED  BY <1>1, <1>3, <2>2, <2>4, <3>1, <4>1, <4>2, FlowKept DEF IInv, Stay
    <3> QED  BY <1>1, <3>1, FlowsNext
  <2>9. Outputs'
    BY <1>1, <1>4, OutputsKept DEF IInv
  <2>10. Delivered' /\ Complete'
    BY <1>1 DEF Delivered, Complete
  <2> QED  BY <2>3, <2>4, <2>5, <2>6, <2>7, <2>8, <2>9, <2>10 DEF IInv
<1> QED  BY <1>2, <1>3

LEMMA OpenedKeeps ==
  ASSUME IInv, NEW p \in Procs, NEW op \in {"open_req", "open_dummy", "open_ans"}, NEW f \in Chans, NEW e \in {"r", "w"},
         At(p, op), Opened(p, op, f, e), f \in names, Done(p), fate' = fate,
         ends' = [ends EXCEPT ![f][e] = ends[f][e] \cup {p}],
         waiting' = (waiting \ (ends[f][IF e = "r" THEN "w" ELSE "r"] \X {f})) \cup
                    IF ends[f][IF e = "r" THEN "w" ELSE "r"] = {} /\ ~Kept THEN {<<p, f>>} ELSE {},
         UNCHANGED <<fixed, names, data, to, sent, runs, printed>>,
         p = Server => ServerPlan(Rest(p)) /\ ServerPlace(op, Rest(p)),
         p # Server => p \in Clients /\ ClientPlan(Rest(p)) /\ ClientPlace(op, Rest(p))
  PROVE  IInv'
<1>1. Mono
  BY DEF fixed, Mono
<1>2. Does(p, op) /\ Programs' /\ Runs(p) /\ Runs(p)'
  BY <1>1, DoneDoes, MonoFacts DEF IInv, Mono
<1>3. /\ Shrink
      /\ Rest(Server)' \subseteq Rest(Server)
      /\ p # Server => Rest(Server)' = Rest(Server)
      /\ \A o : o # op \/ p # Server => (o \in Rest(Server)' <=> o \in Rest(Server))
      /\ \A c \in Clients : \A o : o # op \/ p # c => (o \in Rest(c)' <=> o \in Rest(c))
      /\ Answering' => Answering
      /\ op \in Rest(p) /\ op \notin Rest(p)'
  BY <1>2, DoesFacts DEF Does
<1>4. ~Piped /\ (p # Server => op # "open_dummy")
  BY <1>3 DEF ServerPlan, ClientPlan, Opening
<1>5. /\ ends' \in [Chans -> [{"r", "w"} -> SUBSET Procs]]
      /\ ends'[f][e] = ends[f][e] \cup {p}
      /\ \A ch \in Chans, d \in {"r", "w"} : ch # f \/ d # e => ends'[ch][d] = ends[ch][d]
  BY EndsExcept DEF IInv, Types
<1>6. \A ch \in Chans, d \in {"r", "w"} : ends[ch][d] \subseteq ends'[ch][d]
  BY <1>5
<1>7. /\ p = Server => (mode = "multi" \/ op # "open_dummy") /\ (op = "open_ans" => Reply \in Clients)
      /\ op # "open_ans" => f = "req"
  <2>2. op = "open_ans" /\ p = Server => Reply \in Clients
    <3>1. op = "open_ans" /\ p = Server /\ mode = "multi" => to \in Clients
      BY <1>3 DEF ServerPlace, IInv, Multi, Live
    <3> QED  BY <3>1, OnlyType DEF Reply
  <2>3. op = "open_dummy" /\ p = Server => mode = "multi"
    BY <1>3 DEF ServerPlan
  <2> QED  BY <2>2, <2>3, ChansFacts DEF Opened
<1>8. \A q, ch : <<q, ch>> \in waiting /\ <<q, ch>> \notin waiting' =>
        ch = f /\ q \in ends[f][IF e = "r" THEN "w" ELSE "r"]
  OBVIOUS
<1>9. <<p, f>> \notin waiting' => Kept \/ ends[f][IF e = "r" THEN "w" ELSE "r"] # {}
  OBVIOUS
<1>10. /\ \A q : Program(q)' = Program(q) /\ Runs(q)' = Runs(q)
       /\ \A c : FileOf(c)' = FileOf(c) /\ Answer(c)' = Answer(c)
       /\ Kept' = Kept /\ Piped' = Piped /\ Messages' = Messages /\ mode' = mode
       /\ (Missed' <=> Missed) /\ (Hurt(Server)' <=> Hurt(Server)) /\ Reply' = Reply
       /\ \A c : Fine(c)' => Fine(c)
  BY <1>1, MonoFacts DEF Missed, Hurt, Mono, Reply
<1>11. /\ Live(Server)' => Live(Server)
       /\ mode = "multi" => Live(Server)' = Live(Server)
  <2>1. Live(Server)' => Live(Server)
    BY <1>3 DEF Live
  <2>2. mode = "multi" /\ p = Server => "answer" \in Rest(Server)
    BY <1>3 DEF ServerPlan, ServerPlace
  <2>3. mode = "multi" /\ p = Server => Live(Server)'
    BY <1>3, <2>2 DEF Live
  <2>4. p # Server => Live(Server)' = Live(Server)
    BY <1>3 DEF Live
  <2> QED  BY <2>1, <2>3, <2>4
<1>12. \A c \in Clients : Stay(c)
  BY DEF Stay
<1>13. Types'
  <2>1. waiting' \subseteq Procs \X Chans
    BY DEF IInv, Types
  <2> QED  BY <1>1, <1>2, <1>5, <2>1, MonoFacts DEF IInv, Types, fixed, Channels
<1>14. Requests' /\ \A c \in Clients : NotYet(c)' => NotYet(c)
  BY <1>1, <1>2, QuietAsks
<1>15. Multi'
  <2>1. CASE mode # "multi"
    BY <1>10, <2>1 DEF Multi
  <2>2. CASE mode = "multi"
    <3>1. ~Live(Server)' => Hurt(Server)'
      BY <1>10, <1>11, <2>2 DEF IInv, Multi
    <3>2. ASSUME Live(Server)'
          PROVE  /\ "make_req" \notin Rest(Server)' => "req" \in names'
                 /\ "open_req" \notin Rest(Server)' => Server \in ends'["req"]["r"]
                 /\ "open_dummy" \notin Rest(Server)' => Server \in ends'["req"]["w"]
                 /\ "read" \notin Rest(Server)' => to' \in Clients
      <4>1. Live(Server)
        BY <1>11, <3>2
      <4>2. /\ "make_req" \notin Rest(Server)' => "req" \in names'
            /\ "read" \notin Rest(Server)' => to' \in Clients
        BY <1>3, <2>2, <4>1 DEF IInv, Multi
      <4>3. ends["req"]["r"] \subseteq ends'["req"]["r"] /\ ends["req"]["w"] \subseteq ends'["req"]["w"]
        BY <1>6, ChansFacts
      <4>4. "open_req" \notin Rest(Server)' => Server \in ends'["req"]["r"]
        <5>1. p = Server /\ op = "open_req" => Server \in ends'["req"]["r"]
          BY <1>5 DEF Opened
        <5> QED  BY <1>3, <2>2, <4>1, <4>3, <5>1 DEF IInv, Multi
      <4>5. "open_dummy" \notin Rest(Server)' => Server \in ends'["req"]["w"]
        <5>1. p = Server /\ op = "open_dummy" => Server \in ends'["req"]["w"]
          BY <1>5 DEF Opened
        <5> QED  BY <1>3, <2>2, <4>1, <4>3, <5>1 DEF IInv, Multi
      <4> QED  BY <4>2, <4>4, <4>5
    <3> QED  BY <3>1, <3>2 DEF Multi
  <2> QED  BY <2>1, <2>2
<1>16. /\ ends["req"]["r"] \subseteq {Server}
       /\ ends["req"]["w"] \subseteq Clients \cup IF mode = "multi" THEN {Server} ELSE {}
       /\ \A c \in Clients : ends[c]["r"] \subseteq {c} /\ ends[c]["w"] \subseteq {Server}
  BY <1>4 DEF IInv, Holds
<1>17. Holds'
  <2>1. /\ ends'["req"]["r"] \subseteq {Server}
        /\ ends'["req"]["w"] \subseteq Clients \cup IF mode' = "multi" THEN {Server} ELSE {}
    <3>1. ends'["req"]["r"] = ends["req"]["r"] \/ (ends'["req"]["r"] = ends["req"]["r"] \cup {p} /\ p = Server)
      BY <1>5, <1>7, ChansFacts DEF Opened
    <3>2. ends'["req"]["w"] = ends["req"]["w"] \/ (ends'["req"]["w"] = ends["req"]["w"] \cup {p} /\ (p \in Clients \/ mode = "multi"))
      BY <1>5, <1>7, ChansFacts DEF Opened
    <3>3. p \in Clients \/ p = Server
      BY DEF Procs
    <3> QED  BY <1>10, <1>16, <3>1, <3>2, <3>3
  <2>2. ASSUME NEW c \in Clients PROVE ends'[c]["r"] \subseteq {c} /\ ends'[c]["w"] \subseteq {Server}
    <3>1. c # "req" /\ c \in Chans
      BY ChansFacts
    <3>2. ends'[c]["r"] = ends[c]["r"] \/ (ends'[c]["r"] = ends[c]["r"] \cup {p} /\ p = c)
      BY <1>5, <1>7, <3>1 DEF Opened
    <3>3. ends'[c]["w"] = ends[c]["w"] \/ (ends'[c]["w"] = ends[c]["w"] \cup {p} /\ p = Server)
      BY <1>5, <1>7, <3>1 DEF Opened
    <3> QED  BY <1>16, <3>2, <3>3
  <2>3. ASSUME NEW c \in Clients
        PROVE  /\ c \in ends'["req"]["w"] => Runs(c)' /\ "open_req" \notin Rest(c)'
               /\ c \in ends'[c]["r"] => "open_ans" \notin Rest(c)'
               /\ ~Kept' /\ ~Missed' /\ "receive" \in Rest(c)' =>
                    /\ "open_req" \notin Rest(c)' => c \in ends'["req"]["w"]
                    /\ "open_ans" \notin Rest(c)' => c \in ends'[c]["r"]
    <3>1. c # "req" /\ c \in Chans /\ c # Server /\ "req" \in Chans
      BY ChansFacts
    <3>2. \A o : o \in Rest(c)' => o \in Rest(c)
      BY <1>2, <1>3, ChansFacts DEF Does
    <3>3. c \in ends'["req"]["w"] => c \in ends["req"]["w"] \/ (p = c /\ op = "open_req")
      BY <1>5, <1>7, <3>1 DEF Opened
    <3>4. c \in ends'[c]["r"] => c \in ends[c]["r"] \/ (p = c /\ op = "open_ans")
      BY <1>5, <1>7, <3>1 DEF Opened
    <3>5. p = c => (op = "open_req" => c \in ends'["req"]["w"]) /\ (op = "open_ans" => c \in ends'[c]["r"])
      BY <1>5, <3>1 DEF Opened
    <3>6. ends["req"]["w"] \subseteq ends'["req"]["w"] /\ ends[c]["r"] \subseteq ends'[c]["r"]
      BY <1>6, <3>1
    <3>7. /\ c \in ends'["req"]["w"] => Runs(c)' /\ "open_req" \notin Rest(c)'
          /\ c \in ends'[c]["r"] => "open_ans" \notin Rest(c)'
      BY <1>2, <1>3, <1>10, <3>2, <3>3, <3>4 DEF IInv, Holds
    <3>8. ~Kept' /\ ~Missed' /\ "receive" \in Rest(c)' =>
                    /\ "open_req" \notin Rest(c)' => c \in ends'["req"]["w"]
                    /\ "open_ans" \notin Rest(c)' => c \in ends'[c]["r"]
      BY <1>3, <1>10, <3>2, <3>5, <3>6 DEF IInv, Holds
    <3> QED  BY <3>7, <3>8
  <2>4. ~Kept' /\ ~Missed' /\ mode' # "multi" /\ "read" \in Rest(Server)' /\ "open_req" \notin Rest(Server)'
        => Server \in ends'["req"]["r"]
    <3>1. p = Server /\ op = "open_req" => Server \in ends'["req"]["r"]
      BY <1>5 DEF Opened
    <3>2. ends["req"]["r"] \subseteq ends'["req"]["r"]
      BY <1>6, ChansFacts
    <3> QED  BY <1>3, <1>10, <3>1, <3>2 DEF IInv, Holds
  <2>5. ~Kept' /\ ~Missed' /\ "open_ans" \notin Rest(Server)' /\ Live(Server)' => Server \in ends'[Reply']["w"]
    <3>1. p = Server /\ op = "open_ans" => Server \in ends'[Reply]["w"]
      BY <1>5 DEF Opened
    <3>2. ASSUME ~Kept', ~Missed', "open_ans" \notin Rest(Server)', Live(Server)', ~(p = Server /\ op = "open_ans")
          PROVE  Server \in ends'[Reply]["w"]
      <4>1. "open_ans" \notin Rest(Server) /\ Live(Server) /\ ~Kept /\ ~Missed
        BY <1>3, <1>10, <1>11, <3>2
      <4>2. Server \in ends[Reply]["w"] /\ Reply \in Chans
        BY <4>1, ReplyType, ChansFacts DEF IInv, Holds, Live
      <4> QED  BY <1>6, <4>2
    <3> QED  BY <1>10, <3>1, <3>2
  <2> QED  BY <2>1, <2>2, <2>3, <2>4, <2>5 DEF Holds
<1>18. Meets'
  <2>1. ASSUME ~Kept, ~Missed, mode # "multi", "read" \in Rest(Server)', "open_req" \notin Rest(Server)',
               <<Server, "req">> \notin waiting', "open_req" \in Rest(Only)'
        PROVE  FALSE
    <3>1. "read" \in Rest(Server) /\ "open_req" \in Rest(Only) /\ Only \in Clients
      BY <1>2, <1>3, <2>1, OnlyType, ChansFacts DEF Does
    <3>2. \A c \in Clients : Runs(c) => c = Only
      BY <2>1, ChansFacts DEF Runs
    <3>3. CASE p = Server /\ op = "open_req"
      <4>1. f = "req" /\ e = "r"
        BY <3>3 DEF Opened
      <4>2. ends["req"]["w"] # {}
        BY <1>9, <2>1, <3>3, <4>1
      <4>3. PICK c \in Clients : c \in ends["req"]["w"]
        BY <1>16, <2>1, <4>2
      <4>4. Runs(c) /\ "open_req" \notin Rest(c)
        BY <4>3 DEF IInv, Holds
      <4> QED  BY <3>1, <3>2, <4>4
    <3>4. CASE ~(p = Server /\ op = "open_req")
      <4>1. "open_req" \notin Rest(Server)
        BY <1>3, <2>1, <3>4
      <4>2. <<Server, "req">> \in waiting
        BY <2>1, <3>1, <4>1 DEF IInv, Meets
      <4>3. f = "req"
        BY <1>8, <2>1, <4>2
      <4>4. p # Server /\ op = "open_req"
        BY <1>7, <2>1, <3>4, <4>3, ChansFacts DEF Opened
      <4>5. p = Only
        BY <1>2, <3>2, <4>4
      <4> QED  BY <1>3, <2>1, <4>4, <4>5
    <3> QED  BY <3>3, <3>4
  <2>2. ASSUME NEW r \in Clients, r = Reply, ~Kept, ~Missed, "open_ans" \notin Rest(Server)', Live(Server)',
               <<Server, r>> \notin waiting', "open_ans" \in Rest(r)'
        PROVE  FALSE
    <3>1. CASE p = Server /\ op = "open_ans"
      <4>1. f = r /\ e = "w"
        BY <1>7, <2>2, <3>1 DEF Opened
      <4>2. ends[r]["r"] # {}
        BY <1>9, <2>2, <3>1, <4>1
      <4>3. r \in ends[r]["r"]
        BY <1>16, <4>2
      <4>4. "open_ans" \notin Rest(r)
        BY <4>3 DEF IInv, Holds
      <4> QED  BY <1>3, <2>2, <3>1, <4>4, ChansFacts
    <3>2. CASE ~(p = Server /\ op = "open_ans")
      <4>1. "open_ans" \notin Rest(Server) /\ Live(Server)
        BY <1>3, <1>11, <2>2, <3>2
      <4>3. "open_ans" \in Rest(r) /\ ~(p = r /\ op = "open_ans")
        BY <1>2, <1>3, <2>2, ChansFacts DEF Does
      <4>4. <<Server, r>> \in waiting
        BY <2>2, <4>1, <4>3 DEF IInv, Meets
      <4>5. f = r
        BY <1>8, <2>2, <4>4
      <4>6. op = "open_ans" /\ p # Server
        BY <1>7, <3>2, <4>5, ChansFacts
      <4> QED  BY <4>3, <4>5, <4>6 DEF Opened
    <3> QED  BY <3>1, <3>2
  <2>3. Reply' = Reply /\ ("open_ans" \notin Rest(Server)' /\ Live(Server)' /\ ~(p = Server /\ op = "open_ans") => Reply \in Clients)
        /\ (p = Server /\ op = "open_ans" => Reply \in Clients)
    BY <1>3, <1>7, <1>10, <1>11, ReplyType DEF IInv, Live
  <2>4. ~Kept /\ ~Missed /\ "open_ans" \notin Rest(Server)' /\ Live(Server)' /\ <<Server, Reply>> \notin waiting'
        => "open_ans" \notin Rest(Reply)'
    BY <2>2, <2>3 DEF Rest
  <2> QED  BY <1>10, <2>1, <2>4 DEF Meets
<1>19. Flows'
  <2>1. ASSUME NEW c \in Clients, "receive" \in Rest(c)'
        PROVE  \E l \in Lefts, x \in {c, Old} : \E m \in 0 .. Len(Answer(x)) : Story(l, x, m)' /\ Flow(c, l, x, m)'
    <3>1. "receive" \in Rest(c)
      BY <1>3, <2>1 DEF Shrink
    <3>2. Server \in ends[c]["w"] => Server \in ends'[c]["w"]
      BY <1>6, ChansFacts
    <3>3. Silent(c) => Silent(c)'
      <4>1. ASSUME Silent(c), Server \in ends'[c]["w"] PROVE FALSE
        <5>1. c \in Chans /\ c # "req" /\ Server \notin ends[c]["w"] /\ "open_ans" \notin Rest(Server)
          BY <4>1, ChansFacts DEF Silent
        <5>2. f = c /\ e = "w"
          BY <1>5, <4>1, <5>1
        <5>3. p = Server /\ op = "open_ans"
          BY <1>7, <5>1, <5>2 DEF Opened
        <5> QED  BY <1>3, <5>1, <5>3
      <4>2. "open_ans" \in Rest(Server)' => "open_ans" \in Rest(Server)
        BY <1>3
      <4> QED  BY <1>10, <4>1, <4>2 DEF Silent
    <3> QED  BY <1>1, <1>3, <1>12, <1>14, <2>1, <3>1, <3>2, <3>3, FlowKept DEF IInv
  <2> QED  BY <1>1, <2>1, FlowsNext
<1>20. Outputs'
  <2>1. \A c \in Clients : Misled(c)' => Misled(c)
    BY DEF Misled
  <2> QED  BY <1>1, <2>1, OutputsKept DEF IInv
<1>21. Delivered'
  <2> SUFFICES ASSUME NEW c \in Clients, Fine(c)', ~Kept', "receive" \in Rest(c)'
               PROVE  /\ "answer" \notin Rest(Server)' /\ Reply' = c =>
                           (printed[c] \o data[c])' = Answer(c)' /\ "open_ans" \notin Rest(c)'
                      /\ "open_ans" \notin Rest(c)' /\ <<c, c>> \notin waiting' =>
                           Server \in ends'[c]["w"] \/ (printed[c] \o data[c])' = Answer(c)'
    BY DEF Delivered
  <2>1. Fine(c) /\ ~Kept /\ "receive" \in Rest(c) /\ Answer(c)' = Answer(c)
        /\ (printed[c] \o data[c])' = printed[c] \o data[c] /\ c # "req" /\ c \in Chans /\ c # Server
    BY <1>3, <1>10, <1>12, ChansFacts DEF Shrink, Stay
  <2>2. "answer" \notin Rest(Server)' /\ Reply' = c =>
          (printed[c] \o data[c])' = Answer(c)' /\ "open_ans" \notin Rest(c)'
    <3>1. "answer" \in Rest(Server) => "answer" \in Rest(Server)'
      BY <1>3
    <3>2. "open_ans" \in Rest(c)' => "open_ans" \in Rest(c)
      BY <1>3 DEF Shrink
    <3> QED  BY <1>10, <2>1, <3>1, <3>2 DEF IInv, Delivered
  <2>3. ASSUME "open_ans" \notin Rest(c)', <<c, c>> \notin waiting'
        PROVE  Server \in ends'[c]["w"] \/ (printed[c] \o data[c])' = Answer(c)'
    <3>1. CASE p = c /\ op = "open_ans"
      <4>1. f = c /\ e = "r"
        BY <2>1, <3>1 DEF Opened
      <4>2. ends[c]["w"] # {}
        BY <1>9, <2>1, <2>3, <3>1, <4>1
      <4>3. Server \in ends[c]["w"]
        BY <1>16, <4>2
      <4> QED  BY <1>6, <2>1, <4>3
    <3>2. CASE p = Server /\ op = "open_ans" /\ f = c
      BY <1>5, <3>2 DEF Opened
    <3>3. CASE ~(p = c /\ op = "open_ans") /\ ~(p = Server /\ op = "open_ans" /\ f = c)
      <4>1. "open_ans" \notin Rest(c)
        BY <1>3, <2>3, <3>3
      <4>2. f # c
        BY <1>7, <2>1, <3>3 DEF Opened
      <4>3. <<c, c>> \notin waiting
        BY <1>8, <2>3, <4>2
      <4>4. Server \in ends[c]["w"] \/ printed[c] \o data[c] = Answer(c)
        BY <2>1, <4>1, <4>3 DEF IInv, Delivered
      <4>5. ends[c]["w"] \subseteq ends'[c]["w"]
        BY <1>6, <2>1
      <4> QED  BY <2>1, <4>4, <4>5
    <3> QED  BY <3>1, <3>2, <3>3
  <2> QED  BY <2>2, <2>3
<1>22. Complete'
  BY <1>1, <1>3, CompleteKept DEF IInv
<1> QED  BY <1>13, <1>14, <1>15, <1>17, <1>18, <1>19, <1>20, <1>21, <1>22 DEF IInv

LEMMA OpenKeeps ==
  ASSUME IInv, NEW p \in Procs, Open(p)
  PROVE  IInv'
<1>1. PICK op \in {"open_req", "open_dummy", "open_ans"} : \E f \in Chans, e \in {"r", "w"} :
         /\ At(p, op) /\ Opened(p, op, f, e) /\ Opens(p, f, e)
         /\ p = Server => ServerPlan(Rest(p)) /\ ServerPlace(op, Rest(p))
         /\ p # Server => p \in Clients /\ ClientPlan(Rest(p)) /\ ClientPlace(op, Rest(p))
         /\ UNCHANGED <<fixed, names, data, sent, runs, printed>>
  BY OpenFacts
<1>2. PICK f \in Chans, e \in {"r", "w"} :
         /\ At(p, op) /\ Opened(p, op, f, e) /\ Opens(p, f, e)
         /\ p = Server => ServerPlan(Rest(p)) /\ ServerPlace(op, Rest(p))
         /\ p # Server => p \in Clients /\ ClientPlan(Rest(p)) /\ ClientPlace(op, Rest(p))
         /\ UNCHANGED <<fixed, names, data, sent, runs, printed>>
  BY <1>1
<1>3. CASE f \in names
  <2>1. /\ Done(p) /\ fate' = fate /\ to' = to
        /\ ends' = [ends EXCEPT ![f][e] = ends[f][e] \cup {p}]
        /\ waiting' = (waiting \ (ends[f][IF e = "r" THEN "w" ELSE "r"] \X {f})) \cup
                      IF ends[f][IF e = "r" THEN "w" ELSE "r"] = {} /\ ~Kept THEN {<<p, f>>} ELSE {}
    BY <1>2, <1>3 DEF Opens
  <2> QED  BY <1>2, <1>3, <2>1, OpenedKeeps
<1>4. CASE f \notin names
  <2>1. /\ fate' = fate \cup {<<p, "missed">>} /\ UNCHANGED <<ends, waiting>>
        /\ IF p = Server /\ mode = "multi" THEN Goto(p, MultiLoop) /\ to' = Old ELSE Done(p) /\ to' = to
    BY <1>2, <1>4 DEF Opens, Befalls
  <2> QED  BY <1>2, <1>4, <2>1, MissedKeeps
<1> QED  BY <1>3, <1>4

LEMMA AnswersKeeps ==
  ASSUME IInv, Answers
  PROVE  IInv'
<1>0. At(Server, "answer") /\ UNCHANGED <<fixed, names, ends, waiting, to, runs, printed>>
  BY DEF Answers
<1>1. /\ todo[Server] # <<>> /\ (<<Server, Reply>> \notin waiting \/ Reply \notin Chans)
      /\ Rest(Server) \cap {"open_ans", "read"} = {} /\ "answer" \in Rest(Server)
      /\ Answering /\ Live(Server) /\ Reply \in Clients /\ todo[Server] # <<>>
      /\ mode = "multi" => "close_ans" \in Rest(Server)
  <2>1. ServerPlan(Rest(Server)) /\ ServerPlace("answer", Rest(Server))
    BY <1>0, Plans DEF IInv
  <2>2. Rest(Server) \cap {"open_ans", "read"} = {} /\ "answer" \in Rest(Server) /\ (mode = "multi" => "close_ans" \in Rest(Server))
    BY <2>1 DEF ServerPlace, ServerPlan
  <2>3. Reply \in Clients
    BY <2>2, ReplyType DEF IInv
  <2>4. <<Server, Reply>> \notin waiting
    BY <1>0, <2>3, ChansFacts DEF At
  <2> QED  BY <1>0, <2>2, <2>3, <2>4 DEF At, Answering, Live
<1>2. <<Server, Reply>> \notin waiting
  BY <1>1, ChansFacts
<1>3. PICK n : n = Len(Answer(to)) /\ n \in Nat /\ sent \in 0 .. n /\ Answer(to) \in Seq(Parts)
               /\ Len(FileOf(to)) \in Nat
  <2>1. to \in Clients \cup {Old} /\ sent \in 0 .. Len(Answer(to))
    BY DEF IInv, Types
  <2>2. Answer(to) \in Seq(Parts) /\ Len(FileOf(to)) \in Nat
    BY <2>1, AnswerType, FileType DEF IInv
  <2> QED  BY <2>1, <2>2, LenProperties
\* all is written
<1>4. CASE sent = n /\ Done(Server) /\ UNCHANGED <<data, sent, fate>>
  <2>1. Mono /\ Does(Server, "answer") /\ Programs'
    BY <1>0, <1>4, DoneDoes, ChansFacts DEF IInv, fixed, Mono
  <2>2. /\ Shrink /\ Rest(Server)' \subseteq Rest(Server)
        /\ \A o : o # "answer" => (o \in Rest(Server)' <=> o \in Rest(Server))
        /\ \A c \in Clients : Rest(c)' = Rest(c)
        /\ (Answering' => Answering) /\ "answer" \notin Rest(Server)'
    BY <2>1, ChansFacts, DoesFacts DEF Does
  <2>3. (Live(Server)' => Live(Server)) /\ (mode = "multi" => Live(Server)')
    BY <1>1, <2>2 DEF Live
  <2>4. Types'
    BY <1>0, <1>4, <2>1, MonoFacts DEF IInv, Types, fixed, Channels
  <2>5. Requests' /\ \A c \in Clients : NotYet(c)' => NotYet(c)
    BY <1>0, <1>4, <2>1, ChansFacts, QuietAsks
  <2>6. Multi'
    BY <1>0, <1>1, <2>1, <2>2, <2>3 DEF IInv, Multi, Mono
  <2>7. Holds'
    BY <1>0, <2>1, <2>2, <2>3, HoldsKept DEF IInv
  <2>8. Meets'
    BY <1>0, <2>1, <2>2, MeetsKept DEF IInv
  <2>9. Flows'
    <3>1. ~Answering'
      BY <2>2 DEF Answering
    <3>2. ASSUME NEW c \in Clients, "receive" \in Rest(c)'
          PROVE  \E l \in Lefts, x \in {c, Old} : \E m \in 0 .. Len(Answer(x)) : Story(l, x, m)' /\ Flow(c, l, x, m)'
      BY <1>0, <1>4, <2>1, <2>2, <2>5, <3>1, <3>2, FlowKept DEF IInv, Stay
    <3> QED  BY <2>1, <3>2, FlowsNext
  <2>10. Outputs'
    <3>1. \A c \in Clients : Misled(c)' => Misled(c)
      BY <1>4 DEF Misled
    <3> QED  BY <1>0, <2>1, <3>1, OutputsKept DEF IInv
  <2>11. Complete'
    BY <1>0, <2>1, <2>2, CompleteKept DEF IInv
  <2>12. Delivered'
    <3> SUFFICES ASSUME NEW c \in Clients, Fine(c)', ~Kept', "receive" \in Rest(c)'
                 PROVE  /\ "answer" \notin Rest(Server)' /\ Reply' = c =>
                             (printed[c] \o data[c])' = Answer(c)' /\ "open_ans" \notin Rest(c)'
                        /\ "open_ans" \notin Rest(c)' /\ <<c, c>> \notin waiting' =>
                             Server \in ends'[c]["w"] \/ (printed[c] \o data[c])' = Answer(c)'
      BY DEF Delivered
    <3>1. Fine(c) /\ ~Kept /\ "receive" \in Rest(c) /\ Answer(c)' = Answer(c) /\ Rest(c)' = Rest(c)
          /\ (printed[c] \o data[c])' = printed[c] \o data[c] /\ Reply' = Reply /\ ~Missed
      BY <1>0, <1>4, <2>1, <2>2, MonoFacts DEF Fine, Reply, fixed
    <3>2. ASSUME Reply = c PROVE printed[c] \o data[c] = Answer(c) /\ "open_ans" \notin Rest(c)
      <4>1. PICK l \in Lefts, x \in {c, Old} : \E m \in 0 .. Len(Answer(x)) : Story(l, x, m) /\ Flow(c, l, x, m)
        BY <3>1 DEF IInv, Flows
      <4>2. PICK m \in 0 .. Len(Answer(x)) : Story(l, x, m) /\ Flow(c, l, x, m)
        BY <4>1
      <4>3. Server \in ends[c]["w"]
        BY <1>1, <3>1, <3>2 DEF IInv, Holds
      <4>4. x = to /\ m = sent
        BY <1>1, <3>2, <4>2, <4>3 DEF Flow, Silent
      <4>5. x = c /\ l = <<>>
        BY <1>1, <3>1, <4>2, <4>4, <4>1 DEF Story, IInv, Requests
      <4>6. printed[c] \o data[c] = Upto(<<>>, Answer(c), Len(Answer(c)))
        BY <1>3, <1>4, <4>2, <4>4, <4>5 DEF Flow
      <4>7. Upto(<<>>, Answer(c), Len(Answer(c))) = Answer(c)
        BY <1>3, <4>4, <4>5, UptoAll
      <4>8. "open_ans" \notin Rest(c)
        BY <1>1, <1>2, <3>1, <3>2 DEF IInv, Meets
      <4> QED  BY <4>6, <4>7, <4>8
    <3> QED  BY <1>0, <3>1, <3>2 DEF IInv, Delivered
  <2> QED  BY <2>4, <2>5, <2>6, <2>7, <2>8, <2>9, <2>10, <2>11, <2>12 DEF IInv
<1>5. CASE sent # n /\ Dies(Server) /\ UNCHANGED <<data, sent>>
  BY <1>0, <1>1, <1>5, DiesKeeps, ChansFacts
\* one unit is written, perhaps to nowhere
<1>6. CASE sent # n /\ sent' = sent + 1 /\ UNCHANGED <<todo, fate>>
           /\ ((Lost(Server, Reply) /\ data' = data) \/ Puts(Server, Reply, Answer(to)[sent + 1]))
  <2>1. Mono /\ (\A q : Rest(q)' = Rest(q)) /\ Shrink
    BY <1>0, <1>6 DEF fixed, Mono, Rest, Shrink
  <2>2. PICK k : k = sent + 1 /\ k \in 0 .. n /\ k \in 1 .. n /\ k > 0
    BY <1>3, <1>6
  <2>3. Answer(to)[k] \in Parts
    BY <1>3, <2>2, ElementOfSeq
  <2>4. /\ Channels' /\ data'["req"] = data["req"] /\ \A c \in Clients : c # Reply => data'[c] = data[c]
        /\ \/ ~Kept /\ Server \notin ends[Reply]["w"] /\ data'[Reply] = data[Reply]
           \/ data'[Reply] = Append(data[Reply], Answer(to)[k]) /\ (Kept \/ Server \in ends[Reply]["w"])
    <3>1. CASE Lost(Server, Reply) /\ data' = data
      BY <3>1 DEF Lost, IInv, Types, Channels
    <3>2. CASE Puts(Server, Reply, Answer(to)[k])
      <4> DEFINE u == Answer(to)[k]
      <4> HIDE DEF u
      <4>1. Puts(Server, Reply, u) /\ u \in Parts /\ Reply \in Chans /\ Reply # "req"
        BY <1>1, <2>3, <3>2, ChansFacts DEF u
      <4>2. /\ Channels' /\ data'[Reply] = Append(data[Reply], u) /\ ~Lost(Server, Reply)
            /\ \A f \in Chans : f # Reply => data'[f] = data[f]
        BY <4>1, PutFacts DEF IInv
      <4> QED  BY <4>1, <4>2, ChansFacts DEF Lost, u
    <3> QED  BY <1>6, <2>2, <3>1, <3>2
  <2>5. (\A c : Answer(c)' = Answer(c)) /\ Reply' = Reply /\ Answering' = Answering /\ mode' = mode /\ Live(Server)' = Live(Server)
        /\ Kept' = Kept
    BY <1>0, <2>1, MonoFacts DEF Mono, Reply, Answering, Live
  <2>6. Types'
    <3>1. (sent \in 0 .. Len(Answer(to)))'
      BY <1>0, <1>3, <1>6, <2>2, <2>5
    <3>2. Programs'
      BY <1>6, <2>1, MonoFacts DEF IInv, Types, Programs
    <3> QED  BY <1>0, <1>6, <2>1, <2>4, <2>5, <3>1, <3>2, MonoFacts DEF IInv, Types, fixed
  <2>7. Requests'
    <3>1. \A c : Unasked(c)' = Unasked(c) /\ Asked(c)' = Asked(c)
      BY <2>1, <2>4 DEF Unasked, Asked
    <3>2. /\ \A c \in Clients : Unasked(c)' => ~Asked(c)'
          /\ \A c \in Clients : Asked(c)' => Runs(c)'
          /\ \A j, h \in DOMAIN data'["req"] : data'["req"][j] = data'["req"][h] /\ data'["req"][j] # Old => j = h
          /\ ~Kept' => ~Asked(Old)'
          /\ ~Kept' /\ Answering' /\ to' = Old => Missed'
      BY <1>0, <2>1, <2>4, <2>5, <3>1, MonoFacts DEF IInv, Requests
    <3>3. ASSUME NEW c \in Clients, to' = c
          PROVE  /\ Runs(c)'
                 /\ "answer" \in Rest(Server)' => ~Unasked(c)' /\ ~Asked(c)'
                 /\ "read" \in Rest(Server)' => mode' = "multi"
      <4>1. to = c /\ Runs(c)' = Runs(c)
        BY <1>0, <2>1, <3>3, MonoFacts
      <4> QED  BY <2>1, <2>5, <3>1, <4>1 DEF IInv, Requests
    <3>4. ~("open_ans" \in Rest(Server)')
      BY <1>1, <2>1
    <3> QED  BY <3>2, <3>3, <3>4 DEF Requests
  <2>8. Multi'
    BY <1>0, <2>1, <2>5, MultiKept DEF IInv
  <2>9. Holds'
    BY <1>0, <2>1, <2>5, HoldsKept DEF IInv
  <2>10. Meets'
    BY <1>0, <2>1, MeetsKept DEF IInv
  <2>11. Flows'
    <3>0. \A c \in Clients : NotYet(c)' = NotYet(c)
      BY <1>0, <2>1, <2>4 DEF Unasked, Asked, NotYet, Reading, fixed
    <3>1. ASSUME NEW c \in Clients, "receive" \in Rest(c)'
          PROVE  \E l \in Lefts, x \in {c, Old} : \E m \in 0 .. Len(Answer(x)) : Story(l, x, m)' /\ Flow(c, l, x, m)'
      <4>1. PICK l \in Lefts, x \in {c, Old} : \E m \in 0 .. Len(Answer(x)) : Story(l, x, m) /\ Flow(c, l, x, m)
        BY <2>1, <3>1 DEF IInv, Flows
      <4>2. PICK m \in 0 .. Len(Answer(x)) : Story(l, x, m) /\ Flow(c, l, x, m)
        BY <4>1
      <4>3. Story(l, x, m)'
        BY <2>1, <4>2, MonoFacts
      <4>4. CASE c # Reply
        <5>1. (printed[c] \o data[c])' = printed[c] \o data[c]
          BY <1>0, <2>4, <4>4
        <5>2. Flow(c, l, x, m)'
          BY <2>5, <3>0, <4>2, <4>4, <5>1 DEF Flow
        <5> QED  BY <4>3, <5>2
      <4>5. CASE c = Reply /\ ~Kept /\ Server \notin ends[c]["w"] /\ data'[c] = data[c]
        <5>1. Silent(c) /\ Silent(c)'
          BY <1>0, <1>1, <2>1, <2>5, <4>5 DEF Silent
        <5>2. m = 0
          <6>1. (x = to /\ m = sent /\ (sent > 0 => Kept \/ Server \in ends[c]["w"])) \/ m = 0
            BY <1>1, <4>2, <4>5 DEF Flow
          <6>2. sent > 0 \/ sent = 0
            BY <1>3
          <6> QED  BY <4>5, <6>1, <6>2
        <5>3. (printed[c] \o data[c])' = printed[c] \o data[c]
          BY <1>0, <4>5
        <5>4. Flow(c, l, x, m)'
          BY <2>5, <3>0, <4>2, <5>1, <5>2, <5>3 DEF Flow
        <5> QED  BY <4>3, <5>4
      <4>6. CASE c = Reply /\ data'[c] = Append(data[c], Answer(to)[k]) /\ (Kept \/ Server \in ends[c]["w"])
        <5>1. x = to /\ m = sent
          BY <1>1, <4>2, <4>6 DEF Flow, Silent
        <5>2. (printed[c] \o data[c])' = Upto(l, Answer(to), k)
          <6> DEFINE p == printed[c]
                     d == data[c]
                     a == Answer(to)
                     u == a[k]
          <6>1. p \in Seq(Parts) /\ d \in Seq(Parts) /\ a \in Seq(Parts) /\ l \in Seq(Parts)
            BY <1>3, FlowType DEF IInv
          <6>2. u \in Parts /\ sent \in 0 .. Len(a) /\ sent # Len(a) /\ p \o d = Upto(l, a, sent)
            BY <1>3, <1>6, <2>3, <4>2, <5>1 DEF Flow
          <6>3. (printed[c] \o data[c])' = p \o Append(d, u)
            BY <1>0, <4>6
          <6>4. Upto(l, a, k) = Upto(l, Answer(to), k) /\ u = a[k] /\ k = sent + 1
            BY <2>2
          <6> HIDE DEF p, d, a, u
          <6>5. p \o Append(d, u) = Append(p \o d, u)
            <7>1. p \in Seq(Parts) /\ d \in Seq(Parts) /\ u \in Parts
              BY <6>1, <6>2
            <7> QED  BY <7>1, FlowGrows
          <6>6. Append(Upto(l, a, sent), a[sent + 1]) = Upto(l, a, sent + 1)
            BY <6>1, <6>2, UptoGrows
          <6> QED  BY <6>2, <6>3, <6>4, <6>5, <6>6
        <5>3. ~NotYet(c)
          <6>1. mode # "multi" => ~NotYet(c)
            BY <1>1 DEF NotYet
          <6>2. mode = "multi" => c = to
            BY <4>6 DEF Reply
          <6>3. mode = "multi" => ~Unasked(c) /\ ~Asked(c) /\ ~Reading(c)
            BY <1>1, <6>2 DEF IInv, Requests, Reading
          <6> QED  BY <6>1, <6>3 DEF NotYet
        <5>4. Story(l, x, k)'
          <6>1. Story(l, x, k)
            BY <1>1, <2>2, <4>2, <5>1 DEF Story, IInv, Requests
          <6> QED  BY <2>1, <6>1, MonoFacts
        <5>5. Flow(c, l, x, k)'
          BY <1>0, <1>6, <2>2, <2>5, <3>0, <4>6, <5>1, <5>2, <5>3 DEF Flow
        <5>6. k \in 0 .. Len(Answer(x))
          BY <1>3, <2>2, <5>1
        <5> QED  BY <5>4, <5>5, <5>6
      <4> QED  BY <2>4, <4>4, <4>5, <4>6
    <3> QED  BY <2>1, <3>1, FlowsNext
  <2>12. Outputs'
    <3>1. \A c \in Clients : Misled(c)' => Misled(c)
      BY <1>6 DEF Misled
    <3> QED  BY <1>0, <2>1, <3>1, OutputsKept DEF IInv
  <2>13. Complete'
    BY <1>0, <2>1, CompleteKept DEF IInv
  <2>14. Delivered'
    <3> SUFFICES ASSUME NEW c \in Clients, Fine(c)', ~Kept', "receive" \in Rest(c)'
                 PROVE  "open_ans" \notin Rest(c)' /\ <<c, c>> \notin waiting' =>
                             Server \in ends'[c]["w"] \/ (printed[c] \o data[c])' = Answer(c)'
      BY <1>1, <2>1 DEF Delivered
    <3>1. Fine(c) /\ ~Kept /\ "receive" \in Rest(c) /\ ~Missed
      BY <2>1, MonoFacts DEF Fine
    <3>2. c = Reply => Server \in ends[c]["w"]
      BY <1>1, <3>1 DEF IInv, Holds
    <3>3. c # Reply => (printed[c] \o data[c])' = printed[c] \o data[c]
      BY <1>0, <2>4
    <3> QED  BY <1>0, <2>1, <2>5, <3>1, <3>2, <3>3 DEF IInv, Delivered
  <2> QED  BY <2>6, <2>7, <2>8, <2>9, <2>10, <2>11, <2>12, <2>13, <2>14 DEF IInv
<1> QED  BY <1>3, <1>4, <1>5, <1>6 DEF Answers

LEMMA UptoStart ==
  ASSUME NEW S, NEW l \in Seq(S), NEW a \in Seq(S), NEW m \in 0 .. Len(a)
  PROVE  \A i \in 1 .. Len(l) : Upto(l, a, m)[i] = l[i]
BY UptoType

LEMMA ReceiveStops ==
  ASSUME IInv, NEW c \in Clients, At(c, "receive"), Done(c), Mono, printed' = printed,
         UNCHANGED <<fixed, names, ends, waiting, to, sent, runs>>,
         Channels', \A f \in Chans : f # c => data'[f] = data[f],
         fate' \in {fate, fate \cup {<<c, "misled">>}}, Misled(c)' => Kept \/ Missed,
         Fine(c) => Misled(c)' \/ printed[c] = FileOf(c)
  PROVE  IInv'
<1>1. c \in Procs /\ "req" # c /\ c # Server /\ "req" \in Chans /\ Clients \subseteq Chans
  BY ChansFacts
<1>2. Does(c, "receive") /\ Programs'
  BY <1>1, DoneDoes DEF IInv, Mono
<1>3. /\ Shrink
      /\ Rest(Server)' = Rest(Server)
      /\ Rest(c)' \subseteq Rest(c) /\ "receive" \notin Rest(c)'
      /\ \A d \in Clients : d # c => Rest(d)' = Rest(d)
      /\ Answering' <=> Answering
      /\ Live(Server)' <=> Live(Server)
  BY <1>1, <1>2, ChansFacts, DoesFacts DEF Does, Answering, Live
<1>4. "open_ans" \notin Rest(c)
  BY Plans DEF IInv, ClientPlace
<1>5. Types'
  BY <1>1, <1>2, MonoFacts DEF IInv, Types, fixed
<1>6. Requests' /\ \A d \in Clients : NotYet(d)' => NotYet(d)
  BY <1>1, <1>2, QuietAsks
<1>7. Multi'
  BY <1>3, MultiKept DEF IInv
<1>8. Holds'
  BY <1>3, HoldsKept DEF IInv
<1>9. Meets'
  BY <1>3, MeetsKept DEF IInv
<1>10. \A d \in Clients : "receive" \in Rest(d)' => d # c /\ "receive" \in Rest(d) /\ Stay(d)
  BY <1>1, <1>3 DEF Stay
<1>11. Flows'
  <2>1. ASSUME NEW d \in Clients, "receive" \in Rest(d)'
        PROVE  \E l \in Lefts, x \in {d, Old} : \E m \in 0 .. Len(Answer(x)) : Story(l, x, m)' /\ Flow(d, l, x, m)'
    <3>1. Silent(d) => Silent(d)'
      BY <1>3, MonoFacts DEF Silent
    <3> QED  BY <1>3, <1>6, <1>10, <2>1, <3>1, FlowKept DEF IInv
  <2> QED  BY <2>1, FlowsNext
<1>12. Outputs'
  <2>1. \A d \in Clients : Misled(d)' => Misled(d) \/ d = c
    BY DEF Misled
  <2>2. Kept \/ Missed => (Kept \/ Missed)'
    BY MonoFacts
  <2> QED  BY <2>1, <2>2, OutputsKept DEF IInv
<1>13. Delivered'
  BY <1>3, <1>4, <1>10, DeliveredKept DEF IInv
<1>14. Complete'
  <2> SUFFICES ASSUME NEW d \in Clients, Fine(d)', "receive" \notin Rest(d)'
               PROVE  Misled(d)' \/ printed'[d] = FileOf(d)'
    BY DEF Complete
  <2>1. Fine(d) /\ FileOf(d)' = FileOf(d) /\ (Misled(d) => Misled(d)')
    BY MonoFacts DEF Misled, Mono
  <2>2. d # c => "receive" \notin Rest(d)
    BY <1>3
  <2>3. CASE d = c
    BY <2>1, <2>3
  <2>4. CASE d # c
    BY <2>1, <2>2, <2>4 DEF IInv, Complete
  <2> QED  BY <2>3, <2>4
<1> QED  BY <1>5, <1>6, <1>7, <1>8, <1>9, <1>11, <1>12, <1>13, <1>14 DEF IInv

\* what comes out next, when it is of an earlier run and when it is not
LEMMA NextPart ==
  ASSUME Types, NEW c \in Clients, NEW l \in Lefts, NEW x \in {c, Old}, NEW m \in 0 .. Len(Answer(x)),
         printed[c] \o data[c] = Upto(l, Answer(x), m), data[c] # <<>>
  PROVE  /\ Head(data[c])[1] = Old => l # <<>> \/ (x = Old /\ m > 0)
         /\ Head(data[c])[1] # Old /\ (\A k \in 1 .. Len(printed[c]) : printed[c][k][1] # Old)
            => /\ l = <<>> /\ x = c
               /\ Len(printed[c]) + 1 \in 1 .. Len(Answer(c))
               /\ Head(data[c]) = Answer(c)[Len(printed[c]) + 1]
               /\ \A i \in 1 .. Len(printed[c]) : printed[c][i] = Answer(c)[i]
<1> DEFINE p == printed[c]
           d == data[c]
           a == Answer(x)
           u == Upto(l, a, m)
<1>1. p \in Seq(Parts) /\ d \in Seq(Parts) /\ l \in Seq(Parts) /\ a \in Seq(Parts)
  <2>1. x \in Clients \cup {Old}
    OBVIOUS
  <2> QED  BY <2>1, FlowType, AnswerType
<1>2. p \o d = u /\ d # <<>> /\ m \in 0 .. Len(a) /\ x \in {c, Old} /\ c # Old
  BY ProcsAssumption DEF Old
<1>3. \A k \in 1 .. Len(a) : a[k][1] = x
  BY AnswerTags
<1>4. \A k \in 1 .. Len(l) : l[k][1] = Old
  BY DEF Lefts
<1>5. x = c => a = Answer(c)
  OBVIOUS
<1> HIDE DEF p, d, a
<1>6. PICK j, h, b, n : /\ j = Len(p) /\ h = Len(d) /\ b = Len(l) /\ n = Len(a)
                        /\ j \in Nat /\ h \in Nat /\ b \in Nat /\ n \in Nat
  BY <1>1, LenProperties
<1>7. h > 0 /\ m \in 0 .. n
  <2>1. h # 0
    BY <1>1, <1>2, <1>6, EmptySeq
  <2> QED  BY <1>2, <1>6, <2>1
<1>8. /\ Len(u) = j + h /\ \A i \in 1 .. j : u[i] = p[i]
      /\ u[j + 1] = Head(d)
  <2>1. /\ Len(p \o d) = Len(p) + Len(d)
        /\ \A i \in 1 .. Len(p) + Len(d) : (p \o d)[i] = IF i <= Len(p) THEN p[i] ELSE d[i - Len(p)]
    BY <1>1, ConcatProperties
  <2>2. d[1] = Head(d)
    BY <1>1, <1>2, HeadTailProperties
  <2>3. j + 1 \in 1 .. j + h /\ ~(j + 1 <= j) /\ (j + 1) - j = 1 /\ \A i \in 1 .. j : i \in 1 .. j + h /\ i <= j
    BY <1>6, <1>7
  <2> HIDE DEF u
  <2> QED  BY <1>2, <1>6, <2>1, <2>2, <2>3
<1>9. /\ Len(u) = b + m /\ \A i \in 1 .. b : u[i] = l[i]
      /\ \A i \in 1 .. m : u[b + i] = a[i]
  <2>0. l \in Seq(Parts) /\ a \in Seq(Parts) /\ m \in 0 .. Len(a)
    BY <1>1, <1>2
  <2>1. Len(u) = Len(l) + m
    BY <2>0, UptoType
  <2>2. \A i \in 1 .. Len(l) : u[i] = l[i]
    BY <2>0, UptoStart
  <2>3. \A i \in 1 .. m : u[Len(l) + i] = a[i]
    BY <2>0, UptoType
  <2> QED  BY <1>6, <2>1, <2>2, <2>3
<1>10. j + h = b + m
  BY <1>8, <1>9
<1>11. ASSUME Head(d)[1] = Old PROVE l # <<>> \/ (x = Old /\ m > 0)
  <2> SUFFICES ASSUME l = <<>> PROVE x = Old /\ m > 0
    OBVIOUS
  <2>1. b = 0
    BY <1>1, <1>6, EmptySeq
  <2>2. m > 0 /\ j + 1 \in 1 .. m /\ j + 1 \in 1 .. n /\ b + (j + 1) = j + 1
    BY <1>6, <1>7, <1>10, <2>1
  <2>3. Head(d) = a[j + 1]
    BY <1>8, <1>9, <2>2
  <2> QED  BY <1>3, <1>6, <1>11, <2>2, <2>3
<1>12. ASSUME Head(d)[1] # Old, \A k \in 1 .. Len(p) : p[k][1] # Old
       PROVE  /\ l = <<>> /\ x = c /\ Len(p) + 1 \in 1 .. Len(a) /\ Head(d) = a[Len(p) + 1]
              /\ \A i \in 1 .. Len(p) : p[i] = a[i]
  <2>1. l = <<>>
    <3> SUFFICES ASSUME l # <<>> PROVE FALSE
      OBVIOUS
    <3>1. b # 0
      BY <1>1, <1>6, EmptySeq
    <3>2. 1 \in 1 .. b
      BY <1>6, <3>1
    <3>3. u[1][1] = Old
      BY <1>4, <1>6, <1>9, <3>2
    <3>4. CASE j = 0
      <4>1. j + 1 = 1
        BY <3>4
      <4> QED  BY <1>8, <1>12, <3>3, <4>1
    <3>5. CASE j # 0
      <4>1. 1 \in 1 .. j
        BY <1>6, <3>5
      <4> QED  BY <1>6, <1>8, <1>12, <3>3, <4>1
    <3> QED  BY <3>4, <3>5
  <2>2. b = 0
    BY <1>6, <2>1, EmptySeq
  <2>3. j + 1 \in 1 .. m /\ j + 1 \in 1 .. n /\ b + (j + 1) = j + 1
    BY <1>6, <1>7, <1>10, <2>2
  <2>4. Head(d) = a[j + 1]
    BY <1>8, <1>9, <2>3
  <2>5. x = c
    BY <1>2, <1>3, <1>6, <1>12, <2>3, <2>4
  <2>6. \A i \in 1 .. j : i \in 1 .. m /\ b + i = i
    BY <1>6, <2>2, <2>3
  <2>7. \A i \in 1 .. j : p[i] = a[i]
    BY <1>8, <1>9, <2>6
  <2> QED  BY <1>6, <2>1, <2>3, <2>4, <2>5, <2>7
<1> QED  BY <1>5, <1>11, <1>12 DEF p, d

\* at the empty message of its own answer, what has come out is the file
LEMMA EndsFile ==
  ASSUME IInv, NEW c \in Clients, "receive" \in Rest(c), data[c] # <<>>,
         IsEnd(Head(data[c])), Head(data[c])[1] # Old
  PROVE  Misled(c) \/ printed[c] = FileOf(c)
<1> SUFFICES ASSUME ~Misled(c) PROVE printed[c] = FileOf(c)
  OBVIOUS
<1>1. PICK l \in Lefts, x \in {c, Old} : \E m \in 0 .. Len(Answer(x)) : Story(l, x, m) /\ Flow(c, l, x, m)
  BY DEF IInv, Flows
<1>2. PICK m \in 0 .. Len(Answer(x)) : Story(l, x, m) /\ Flow(c, l, x, m)
  BY <1>1
<1>3. Types /\ printed[c] \o data[c] = Upto(l, Answer(x), m)
  BY <1>2 DEF IInv, Flow
<1>4. \A k \in 1 .. Len(printed[c]) : printed[c][k][1] # Old
  BY DEF IInv, Outputs
<1>5. /\ Len(printed[c]) + 1 \in 1 .. Len(Answer(c))
      /\ Head(data[c]) = Answer(c)[Len(printed[c]) + 1]
      /\ \A i \in 1 .. Len(printed[c]) : printed[c][i] = Answer(c)[i]
  BY <1>3, <1>4, NextPart
<1>6. /\ printed[c] \in Seq(Units) /\ FileOf(c) \in Seq(Units)
      /\ \A k \in 1 .. Len(FileOf(c)) : Answer(c)[k] = FileOf(c)[k]
  BY <1>3, FlowType, AnswerType, FileType
<1>7. PICK j, n : j = Len(printed[c]) /\ n = Len(FileOf(c)) /\ j \in Nat /\ n \in Nat /\ j + 1 <= n + 1
  <2>1. Len(FileOf(c)) \in Nat /\ Len(Answer(c)) \in Nat /\ Len(Answer(c)) <= Len(FileOf(c)) + 1
    BY <1>3, AnswerType, FileType
  <2>2. Len(printed[c]) \in Nat
    BY <1>6, LenProperties
  <2>3. Len(printed[c]) + 1 \in 1 .. Len(Answer(c))
    BY <1>5
  <2>4. Len(printed[c]) + 1 <= Len(FileOf(c)) + 1
    BY <2>1, <2>2, <2>3
  <2> QED  BY <2>1, <2>2, <2>4
<1>8. ~(j + 1 \in 1 .. n)
  <2> SUFFICES ASSUME j + 1 \in 1 .. n PROVE FALSE
    OBVIOUS
  <2>1. Head(data[c]) = FileOf(c)[j + 1] /\ FileOf(c)[j + 1] \in Units
    BY <1>5, <1>6, <1>7, ElementOfSeq
  <2>2. Head(data[c])[2] \in Nat
    BY <2>1 DEF Units
  <2> QED  BY <2>2 DEF IsEnd
<1>9. j = n
  BY <1>7, <1>8
<1> QED  BY <1>5, <1>6, <1>7, <1>9, SeqEqual

\* what is of an earlier run comes out of a queue, or after a missed open
LEMMA OldTaken ==
  ASSUME IInv, NEW c \in Clients, "receive" \in Rest(c), data[c] # <<>>, Head(data[c])[1] = Old
  PROVE  Kept \/ Missed
<1>1. PICK l \in Lefts, x \in {c, Old} : \E m \in 0 .. Len(Answer(x)) : Story(l, x, m) /\ Flow(c, l, x, m)
  BY DEF IInv, Flows
<1>2. PICK m \in 0 .. Len(Answer(x)) : Story(l, x, m) /\ Flow(c, l, x, m)
  BY <1>1
<1>3. Types /\ printed[c] \o data[c] = Upto(l, Answer(x), m)
  BY <1>2 DEF IInv, Flow
<1>4. l # <<>> \/ (x = Old /\ m > 0)
  BY <1>3, NextPart
<1> QED  BY <1>2, <1>4 DEF Story

\* what has come out is the beginning of what was put in
LEMMA PrintsMore ==
  ASSUME NEW S, NEW p \in Seq(S), NEW d \in Seq(S), NEW u, p \o d = u
  PROVE  IsPrefix(p, u)
<1>1. /\ Len(p \o d) = Len(p) + Len(d) /\ Len(p) \in Nat /\ Len(d) \in Nat
      /\ \A i \in 1 .. Len(p) + Len(d) : (p \o d)[i] = IF i <= Len(p) THEN p[i] ELSE d[i - Len(p)]
  BY ConcatProperties, LenProperties
<1>2. PICK j, h : j = Len(p) /\ h = Len(d) /\ j \in Nat /\ h \in Nat
  BY <1>1
<1>3. j <= j + h /\ \A i \in 1 .. j : i \in 1 .. j + h /\ i <= j
  BY <1>2
<1>4. \A i \in 1 .. j : u[i] = p[i] /\ p[i] \in S
  BY <1>1, <1>2, <1>3, ElementOfSeq
<1>5. /\ SubSeq(p, 1, j) \in Seq(S) /\ Len(SubSeq(p, 1, j)) = IF 1 <= j THEN j - 1 + 1 ELSE 0
      /\ \A i \in 1 .. j - 1 + 1 : SubSeq(p, 1, j)[i] = p[1 + i - 1]
  BY <1>2, <1>4, SubSeqProperties
<1>6. /\ SubSeq(u, 1, j) \in Seq(S) /\ Len(SubSeq(u, 1, j)) = IF 1 <= j THEN j - 1 + 1 ELSE 0
      /\ \A i \in 1 .. j - 1 + 1 : SubSeq(u, 1, j)[i] = u[1 + i - 1]
  <2>1. \A i \in 1 .. j : u[i] \in S
    BY <1>4
  <2> QED  BY <1>2, <2>1, SubSeqProperties
<1>7. (IF 1 <= j THEN j - 1 + 1 ELSE 0) = j /\ j - 1 + 1 = j /\ \A i \in 1 .. j : 1 + i - 1 = i
  BY <1>2
<1>8. SubSeq(p, 1, j) = SubSeq(u, 1, j)
  <2> DEFINE s == SubSeq(p, 1, j)
             t == SubSeq(u, 1, j)
  <2>1. s \in Seq(S) /\ t \in Seq(S) /\ Len(s) = j /\ Len(t) = j
    BY <1>5, <1>6, <1>7
  <2>2. \A i \in 1 .. j : s[i] = t[i]
    BY <1>4, <1>5, <1>6, <1>7
  <2> HIDE DEF s, t
  <2>3. s = t
    BY <2>1, <2>2, SeqEqual
  <2> QED  BY <2>3 DEF s, t
<1> QED  BY <1>1, <1>2, <1>3, <1>8 DEF IsPrefix

LEMMA ReceiveKeeps ==
  ASSUME IInv, NEW c \in Clients, Receive(c)
  PROVE  IInv'
<1>0. At(c, "receive") /\ UNCHANGED <<fixed, names, ends, waiting, to, sent, runs>>
  BY DEF Receive
<1>1. /\ todo[c] # <<>> /\ <<c, c>> \notin waiting /\ c \in Procs /\ c \in Chans /\ c # "req"
      /\ "receive" \in Rest(c) /\ "open_ans" \notin Rest(c)
  BY <1>0, Plans, ChansFacts DEF At, ClientPlace, IInv
<1>2. CASE BadRead(c, c) /\ Kept /\ Dies(c) /\ UNCHANGED <<data, printed>>
  BY <1>0, <1>1, <1>2, DiesKeeps
<1>3. CASE BadRead(c, c) /\ ~Kept /\ Done(c) /\ UNCHANGED <<data, printed, fate>>
  <2>1. Mono /\ Channels'
    BY <1>0, <1>3 DEF fixed, Mono, IInv, Types, Channels
  <2>2. ~Fine(c) /\ Misled(c)' = Misled(c) /\ (Misled(c) => Kept \/ Missed)
    BY <1>1, <1>3 DEF BadRead, Fine, IInv, Holds, Misled, Outputs
  <2> QED  BY <1>0, <1>3, <2>1, <2>2, ReceiveStops
<1>4. CASE Eof(c, c) /\ Done(c) /\ UNCHANGED <<data, printed, fate>>
  <2>1. Mono /\ Channels'
    BY <1>0, <1>4 DEF fixed, Mono, IInv, Types, Channels
  <2>2. ASSUME Fine(c) PROVE Misled(c) \/ printed[c] = FileOf(c)
    <3>1. printed[c] \o data[c] = Answer(c) /\ data[c] = <<>>
      BY <1>1, <1>4, <2>2 DEF Eof, IInv, Delivered
    <3>2. printed[c] \in Seq(Units) /\ printed[c] \in Seq(Parts)
      BY FlowType DEF IInv
    <3>3. printed[c] = Answer(c)
      BY <3>1, <3>2, ConcatEmptySeq
    <3>4. /\ ~Messages => Answer(c) = FileOf(c)
          /\ Messages => Answer(c)[Len(FileOf(c)) + 1] = <<c, -1>> /\ Len(Answer(c)) = Len(FileOf(c)) + 1
          /\ <<c, -1>> \notin Units /\ Len(FileOf(c)) \in Nat
      BY AnswerType, FileType DEF IInv, Units
    <3>5. ~Messages
      <4>1. \A i \in 1 .. Len(printed[c]) : printed[c][i] \in Units
        BY <3>2, ElementOfSeq
      <4>2. Len(FileOf(c)) + 1 \in 1 .. Len(FileOf(c)) + 1
        BY <3>4
      <4> QED  BY <3>3, <3>4, <4>1, <4>2
    <3> QED  BY <3>3, <3>4, <3>5
  <2>3. Misled(c)' = Misled(c) /\ (Misled(c) => Kept \/ Missed)
    BY <1>4 DEF IInv, Misled, Outputs
  <2> QED  BY <1>0, <1>4, <2>1, <2>2, <2>3, ReceiveStops
<1>5. CASE /\ ~BadRead(c, c) /\ Takes(c)
           /\ IF IsEnd(Head(data[c])) THEN Done(c) /\ UNCHANGED printed ELSE Prints(c) /\ UNCHANGED todo
  <2>0. /\ data[c] # <<>> /\ data' = [data EXCEPT ![c] = Tail(data[c])]
        /\ fate' = IF Head(data[c])[1] = Old THEN fate \cup {<<c, "misled">>} ELSE fate
    BY <1>5 DEF Takes, Befalls
  <2>1. Mono
    BY <1>0, <2>0 DEF fixed, Mono
  <2>8. Misled(c)' => Kept \/ Missed
    BY <1>1, <2>0, OldTaken DEF IInv, Misled, Outputs
  <2>9. /\ \A d \in Clients : d # c => Misled(d)' = Misled(d)
        /\ Head(data[c])[1] = Old => Misled(c)'
    BY <2>0 DEF Misled
  <2>2. data[c] \in Seq(Parts) /\ DOMAIN data = Chans
    BY DEF IInv, Types, Channels
  <2>3. Tail(data[c]) \in Seq(Parts) /\ Head(data[c]) \in Parts /\ Len(Tail(data[c])) <= Capacity
    <3>1. /\ Tail(data[c]) \in Seq(Parts) /\ Head(data[c]) \in Parts
          /\ Len(Tail(data[c])) = Len(data[c]) - 1 /\ Len(data[c]) \in Nat /\ Len(data[c]) <= Capacity /\ Capacity \in Nat
      BY <1>1, <2>0, <2>2, HeadTailProperties, LenProperties, BoundAssumption DEF IInv, Types, Channels
    <3>2. Len(Tail(data[c])) <= Capacity
      <4> HIDE <1>5
      <4> QED  BY <3>1
    <3> QED  BY <3>1, <3>2
  <2>4. /\ DOMAIN data' = Chans /\ data'[c] = Tail(data[c])
        /\ \A f : f # c => data'[f] = data[f]
    BY <1>1, <2>0, <2>2
  <2>5. Channels'
    BY <1>1, <2>3, <2>4 DEF IInv, Types, Channels
  <2>6. CASE IsEnd(Head(data[c]))
    <3>1. Misled(c)' \/ printed[c] = FileOf(c)
      BY <1>1, <2>0, <2>1, <2>6, <2>9, EndsFile DEF Misled, Mono
    <3>2. fate' \in {fate, fate \cup {<<c, "misled">>}} /\ Done(c) /\ printed' = printed
      BY <1>5, <2>0, <2>6
    <3> QED  BY <1>0, <2>1, <2>4, <2>5, <2>8, <3>1, <3>2, ReceiveStops
  <2>7. CASE ~IsEnd(Head(data[c]))
    <3>1. printed' = [printed EXCEPT ![c] = Append(printed[c], Head(data[c]))] /\ todo' = todo
      BY <1>5, <2>7 DEF Prints
    <3>2. printed[c] \in Seq(Units) /\ printed[c] \in Seq(Parts) /\ Head(data[c]) \in Units
      BY <2>3, <2>7, FlowType DEF IInv, IsEnd, Units, Parts
    <3>3. Append(printed[c], Head(data[c])) \in Seq(Units)
      BY <3>2, AppendFacts
    <3>4. /\ printed' \in [Clients -> Seq(Units)] /\ printed'[c] = Append(printed[c], Head(data[c]))
          /\ \A d \in Clients : d # c => printed'[d] = printed[d]
      BY <3>1, <3>3 DEF IInv, Types
    <3>5. \A d \in Clients : Stay(d)
      <4>1. Append(printed[c], Head(data[c])) \o Tail(data[c]) = printed[c] \o data[c]
        BY <2>0, <2>2, <3>2, FlowMoves
      <4> QED  BY <2>4, <3>4, <4>1 DEF Stay
    <3>6. /\ \A q : Rest(q)' = Rest(q)
          /\ Shrink /\ (Answering' <=> Answering) /\ (Live(Server)' <=> Live(Server)) /\ data'["req"] = data["req"]
      BY <1>1, <2>4, <3>1 DEF Rest, Shrink, Answering, Live
    <3>7. Types'
      <4>1. Programs'
        BY <2>1, <3>1, MonoFacts DEF IInv, Types, Programs
      <4> QED  BY <1>0, <1>1, <2>0, <2>1, <2>5, <3>4, <4>1, MonoFacts DEF IInv, Types, fixed
    <3>8. Requests'
      BY <1>0, <2>1, <3>6, RequestsKept DEF IInv
    <3>9. Multi'
      BY <1>0, <2>1, <3>6, MultiKept DEF IInv
    <3>10. Holds'
      BY <1>0, <2>1, <3>6, HoldsKept DEF IInv
    <3>11. Meets'
      BY <1>0, <2>1, <3>6, MeetsKept DEF IInv
    <3>12. Flows'
      <4>1. ASSUME NEW d \in Clients, "receive" \in Rest(d)'
            PROVE  \E l \in Lefts, x \in {d, Old} : \E m \in 0 .. Len(Answer(x)) : Story(l, x, m)' /\ Flow(d, l, x, m)'
        <5>1. NotYet(d)' => NotYet(d)
          BY <1>0, <3>6 DEF NotYet, Unasked, Asked, Reading, fixed
        <5>2. Silent(d) => Silent(d)'
          BY <1>0, <2>1, <3>6, MonoFacts DEF Silent
        <5> QED  BY <1>0, <2>1, <3>5, <3>6, <4>1, <5>1, <5>2, FlowKept DEF IInv
      <4> QED  BY <2>1, <4>1, FlowsNext
    <3>13. Outputs'
      <4>1. ASSUME NEW d \in Clients
            PROVE  \E l \in Lefts, x \in {d, Old} : \E m \in 0 .. Len(Answer(x)) :
                     Story(l, x, m)' /\ IsPrefix(printed'[d], Upto(l, Answer(x), m))
        <5>1. CASE d # c
          <6>1. PICK l \in Lefts, x \in {d, Old} : \E m \in 0 .. Len(Answer(x)) :
                     Story(l, x, m) /\ IsPrefix(printed[d], Upto(l, Answer(x), m))
            BY DEF IInv, Outputs
          <6>2. PICK m \in 0 .. Len(Answer(x)) : Story(l, x, m) /\ IsPrefix(printed[d], Upto(l, Answer(x), m))
            BY <6>1
          <6>3. Story(l, x, m)' /\ printed'[d] = printed[d]
            BY <2>1, <3>4, <5>1, <6>2, MonoFacts
          <6> QED  BY <6>2, <6>3
        <5>2. CASE d = c
          <6>1. PICK l \in Lefts, x \in {c, Old} : \E m \in 0 .. Len(Answer(x)) : Story(l, x, m) /\ Flow(c, l, x, m)
            BY <1>1 DEF IInv, Flows
          <6>2. PICK m \in 0 .. Len(Answer(x)) : Story(l, x, m) /\ Flow(c, l, x, m)
            BY <6>1
          <6>3. Story(l, x, m)'
            BY <2>1, <6>2, MonoFacts
          <6>4. IsPrefix(printed'[c], Upto(l, Answer(x), m))
            <7> DEFINE p == printed'[c]
                       t == Tail(data[c])
                       u == Upto(l, Answer(x), m)
            <7>1. p \in Seq(Parts) /\ t \in Seq(Parts)
              <8>1. p \in Seq(Units) /\ Units \subseteq Parts
                BY <3>3, <3>4 DEF Units, Parts
              <8>2. p \in Seq(Parts)
                BY <8>1, SeqMonotonic
              <8> QED  BY <2>3, <8>2
            <7>2. p \o t = u
              BY <2>4, <3>5, <6>2 DEF Stay, Flow
            <7> HIDE DEF p, t, u
            <7>3. IsPrefix(p, u)
              BY <7>1, <7>2, PrintsMore
            <7> QED  BY <7>3 DEF p, u
          <6> QED  BY <5>2, <6>3, <6>4
        <5> QED  BY <5>1, <5>2
      <4>2. ASSUME NEW d \in Clients, NEW k \in 1 .. Len(printed'[d]), printed'[d][k][1] = Old
            PROVE  Misled(d)'
        <5>1. CASE d # c
          BY <2>9, <3>4, <4>2, <5>1 DEF IInv, Outputs
        <5>2. CASE d = c
          <6> DEFINE p == printed[c]
                     e == Head(data[c])
          <6>1. p \in Seq(Units) /\ e \in Units /\ printed'[c] = Append(p, e)
            BY <3>2, <3>4
          <6>2. (\A i \in 1 .. Len(p) : p[i][1] = Old => Misled(c)) /\ (e[1] = Old => Misled(c)')
            BY <2>9 DEF IInv, Outputs
          <6>3. Misled(c) => Misled(c)'
            BY <2>1 DEF Misled, Mono
          <6> HIDE DEF p, e
          <6>4. PICK j : j = Len(p) /\ j \in Nat
            BY <6>1, LenProperties
          <6>5. Len(Append(p, e)) = j + 1 /\ Append(p, e)[j + 1] = e /\ \A i \in 1 .. j : Append(p, e)[i] = p[i]
            BY <6>1, <6>4, AppendProperties
          <6>6. k \in 1 .. j \/ k = j + 1
            BY <4>2, <5>2, <6>1, <6>4, <6>5
          <6>7. Append(p, e)[k][1] = Old
            BY <4>2, <5>2, <6>1
          <6> QED  BY <5>2, <6>2, <6>3, <6>4, <6>5, <6>6, <6>7
        <5> QED  BY <5>1, <5>2
      <4>3. ASSUME NEW d \in Clients, Misled(d)' PROVE (Kept \/ Missed)'
        <5>1. Kept \/ Missed
          BY <2>8, <2>9, <4>3 DEF IInv, Outputs
        <5> QED  BY <2>1, <5>1, MonoFacts
      <4> QED  BY <2>1, <4>1, <4>2, <4>3, MonoFacts DEF Outputs, Lefts
    <3>14. Delivered'
      BY <1>0, <2>1, <3>5, <3>6, DeliveredKept DEF IInv
    <3>15. Complete'
      <4> SUFFICES ASSUME NEW d \in Clients, Fine(d)', "receive" \notin Rest(d)'
                   PROVE  Misled(d)' \/ printed'[d] = FileOf(d)'
        BY DEF Complete
      <4>1. Fine(d) /\ FileOf(d)' = FileOf(d) /\ "receive" \notin Rest(d) /\ d # c
        BY <1>1, <2>1, <3>6, MonoFacts
      <4>2. Misled(d) => Misled(d)'
        BY <2>1 DEF Misled, Mono
      <4> QED  BY <3>4, <4>1, <4>2 DEF IInv, Complete
    <3> QED  BY <3>7, <3>8, <3>9, <3>10, <3>11, <3>12, <3>13, <3>14, <3>15 DEF IInv
  <2> QED  BY <2>6, <2>7
<1> QED  BY <1>0, <1>2, <1>3, <1>4, <1>5 DEF Receive, NothingComes

\* the answer to x has not begun: nothing but what was left is in the channel
LEMMA NotBegun ==
  ASSUME Types, Flows, NEW c \in Clients, "receive" \in Rest(c), NotYet(c), NEW y \in Clients \cup {Old}
  PROVE  \E l \in Lefts : (l # <<>> => Kept) /\ printed[c] \o data[c] = Upto(l, Answer(y), 0)
<1>1. PICK l \in Lefts, x \in {c, Old} : \E m \in 0 .. Len(Answer(x)) : Story(l, x, m) /\ Flow(c, l, x, m)
  BY DEF Flows
<1>2. printed[c] \o data[c] = Upto(l, Answer(x), 0) /\ (l # <<>> => Kept)
  BY <1>1 DEF Flow, Story
<1>3. l \in Seq(Parts)
  BY FlowType
<1>4. Upto(l, Answer(x), 0) = l /\ Upto(l, Answer(y), 0) = l
  BY <1>3, UptoNone
<1> QED  BY <1>2, <1>4

\* the server reads; then sent = 0
LEMMA ReadFlows ==
  ASSUME Types, Flows, Mono, UNCHANGED <<ends, printed>>, NEW y \in Clients \cup {Old}, y = to', sent' = 0,
         "read" \in Rest(Server),
         \A c \in Clients : Rest(c)' = Rest(c) /\ Stay(c) /\ (NotYet(c)' => NotYet(c)),
         mode = "multi" => y \in Clients /\ NotYet(y),
         mode # "multi" => y \in {Only, Old}
  PROVE  Flows'
<1>1. ASSUME NEW c \in Clients, "receive" \in Rest(c)'
      PROVE  \E l \in Lefts, x \in {c, Old} : \E m \in 0 .. Len(Answer(x)) : Story(l, x, m)' /\ Flow(c, l, x, m)'
  <2>1. "receive" \in Rest(c) /\ (printed[c] \o data[c])' = printed[c] \o data[c] /\ mode' = mode
        /\ \A x : Answer(x)' = Answer(x)
    BY <1>1, MonoFacts DEF Stay, Mono
  <2>2. CASE Reply' = c
    <3>1. NotYet(c) /\ y \in {c, Old}
      BY <2>1, <2>2 DEF Reply, NotYet
    <3>2. PICK l \in Lefts : (l # <<>> => Kept) /\ printed[c] \o data[c] = Upto(l, Answer(y), 0)
      BY <2>1, <3>1, NotBegun
    <3>3. 0 \in 0 .. Len(Answer(y))
      <4>1. Len(Answer(y)) \in Nat
        BY AnswerType, LenProperties
      <4> QED  BY <4>1
    <3>4. Story(l, y, 0)'
      <4>1. Story(l, y, 0)
        BY <3>2 DEF Story
      <4> QED  BY <4>1, MonoFacts
    <3>5. Flow(c, l, y, 0)'
      BY <2>1, <3>2 DEF Flow
    <3> QED  BY <3>1, <3>3, <3>4, <3>5
  <2>3. CASE Reply' # c
    <3>1. PICK l \in Lefts, x \in {c, Old} : \E m \in 0 .. Len(Answer(x)) : Story(l, x, m) /\ Flow(c, l, x, m)
      BY <2>1 DEF Flows
    <3>2. PICK m \in 0 .. Len(Answer(x)) : Story(l, x, m) /\ Flow(c, l, x, m)
      BY <3>1
    <3>3. Flow(c, l, x, m)'
      BY <2>1, <2>3, <3>2 DEF Flow
    <3>4. Story(l, x, m)'
      BY <3>2, MonoFacts
    <3> QED  BY <3>3, <3>4
  <2> QED  BY <2>2, <2>3
<1> QED  BY <1>1, FlowsNext

LEMMA ReadDone ==
  ASSUME IInv, At(Server, "read"), Done(Server), sent' = 0, Channels', NEW y \in Clients \cup {Old}, y = to',
         UNCHANGED <<fixed, names, ends, waiting, runs, printed, fate>>,
         \A c \in Clients : data'[c] = data[c],
         \A c : Asked(c)' => Asked(c),
         \A j, k \in DOMAIN data'["req"] : data'["req"][j] = data'["req"][k] /\ data'["req"][j] # Old => j = k,
         y \in Clients => Runs(y) /\ ~Unasked(y) /\ ~Asked(y)',
         mode = "multi" => y \in Clients /\ NotYet(y),
         y = Old => Kept \/ Missed
  PROVE  IInv'
<1>0. Mono
  BY DEF fixed, Mono
<1>1. Does(Server, "read") /\ Programs'
  BY DoneDoes, ChansFacts DEF IInv, fixed
<1>2. /\ "read" \in Rest(Server) /\ "read" \notin Rest(Server)' /\ "answer" \in Rest(Server) /\ "answer" \in Rest(Server)'
      /\ Rest(Server) \cap {"make_req", "make_ans", "open_req", "open_dummy", "close_unused"} = {}
      /\ (mode # "multi" => "open_ans" \notin Rest(Server)) /\ (mode = "multi" => "open_ans" \in Rest(Server)')
  <2>1. ServerPlan(Rest(Server)) /\ ServerPlace("read", Rest(Server))
    BY Plans DEF IInv
  <2>2. Rest(Server)' = Rest(Server) \ {"read"}
    BY <1>1 DEF Does
  <2> QED  BY <2>1, <2>2 DEF ServerPlan, ServerPlace
<1>3. /\ Shrink /\ Rest(Server)' \subseteq Rest(Server)
      /\ \A o : o # "read" => (o \in Rest(Server)' <=> o \in Rest(Server))
      /\ \A c \in Clients : Rest(c)' = Rest(c)
  BY <1>1, ChansFacts, DoesFacts DEF Does
<1>4. Live(Server) /\ Live(Server)' /\ Answering'
  BY <1>2 DEF Live, Answering
<1>5. \A c \in Clients : Unasked(c)' = Unasked(c) /\ (NotYet(c)' => NotYet(c))
  BY <1>0, <1>2, <1>3 DEF Unasked, NotYet, Reading, Mono
<1>6. Types'
  <2>1. 0 \in 0 .. Len(Answer(y))
    <3>1. Len(Answer(y)) \in Nat
      BY AnswerType, LenProperties DEF IInv
    <3> QED  BY <3>1
  <2> QED  BY <1>0, <1>1, <2>1, MonoFacts DEF IInv, Types, fixed
<1>8. Requests'
  <2>1. /\ \A c \in Clients : Unasked(c)' => ~Asked(c)'
        /\ \A c \in Clients : Asked(c)' => Runs(c)'
        /\ ~Kept' => ~Asked(Old)'
    BY <1>0, <1>5, MonoFacts DEF IInv, Requests
  <2>2. /\ ~Kept' /\ Answering' /\ to' = Old => Missed'
        /\ Answering' /\ "open_ans" \in Rest(Server)' => sent' = 0
    BY <1>0, MonoFacts
  <2>3. ASSUME NEW c \in Clients, to' = c
        PROVE  Runs(c)' /\ ~Unasked(c)' /\ ~Asked(c)'
    BY <1>0, <1>5, <2>3, MonoFacts
  <2> QED  BY <1>2, <2>1, <2>2, <2>3 DEF Requests
<1>9. Multi'
  BY <1>0, <1>2, <1>3, <1>4 DEF IInv, Multi, Mono
<1>10. Holds'
  BY <1>0, <1>2, <1>3, <1>4, HoldsKept DEF IInv
<1>11. Meets'
  <2>1. mode # "multi" => Reply' = Reply
    BY <1>0 DEF Reply, Mono
  <2>2. "open_ans" \notin Rest(Server)' => mode # "multi" /\ "open_ans" \notin Rest(Server)
    BY <1>2
  <2>3. \A c \in Clients : Rest(c)' = Rest(c)
    BY <1>3
  <2>4. mode # "multi" => Reply = Only /\ Only \in Clients
    BY OnlyType DEF Reply
  <2> QED  BY <1>0, <1>2, <1>4, <2>1, <2>2, <2>3, <2>4, MonoFacts DEF IInv, Meets
<1>12. Flows'
  <2>1. \A c \in Clients : Stay(c)
    BY DEF Stay
  <2>2. mode # "multi" => y \in {Only, Old}
    BY ChansFacts DEF Runs
  <2> QED  BY <1>0, <1>2, <1>3, <1>5, <2>1, <2>2, ReadFlows DEF IInv
<1>13. Outputs'
  <2>1. \A c \in Clients : Misled(c)' = Misled(c)
    BY DEF Misled
  <2> QED  BY <1>0, <2>1, OutputsKept DEF IInv
<1>14. Delivered'
  <2> SUFFICES ASSUME NEW c \in Clients, Fine(c)', ~Kept', "receive" \in Rest(c)'
               PROVE  "open_ans" \notin Rest(c)' /\ <<c, c>> \notin waiting' =>
                           Server \in ends'[c]["w"] \/ (printed[c] \o data[c])' = Answer(c)'
    BY <1>2 DEF Delivered
  <2>1. Fine(c) /\ ~Kept /\ "receive" \in Rest(c) /\ Answer(c)' = Answer(c) /\ (printed[c] \o data[c])' = printed[c] \o data[c]
    <3>1. Fine(c) /\ ~Kept /\ Answer(c)' = Answer(c)
      BY <1>0, MonoFacts
    <3>2. "receive" \in Rest(c)
      BY <1>3
    <3>3. data'[c] = data[c] /\ printed' = printed
      OBVIOUS
    <3> QED  BY <3>1, <3>2, <3>3
  <2> QED  BY <1>3, <2>1 DEF IInv, Delivered
<1>15. Complete'
  BY <1>0, <1>3, CompleteKept DEF IInv
<1> QED  BY <1>6, <1>8, <1>9, <1>10, <1>11, <1>12, <1>13, <1>14, <1>15 DEF IInv

\* a line without a newline: the server reads on
LEMMA ReadOnKeeps ==
  ASSUME IInv, At(Server, "read"), UNCHANGED todo, sent' = 0, Channels', NEW y \in Clients, y = to', mode = "multi",
         UNCHANGED <<fixed, names, ends, waiting, runs, printed, fate>>,
         \A c \in Clients : data'[c] = data[c],
         \A c : Asked(c)' => Asked(c),
         \A j, k \in DOMAIN data'["req"] : data'["req"][j] = data'["req"][k] /\ data'["req"][j] # Old => j = k,
         ~Unasked(y), ~Asked(y)', NotYet(y)
  PROVE  IInv'
<1>0. Mono
  BY DEF fixed, Mono
<1>1. \A p : Rest(p)' = Rest(p)
  BY DEF Rest
<1>2. {"read", "answer", "open_ans"} \subseteq Rest(Server)
  <2>1. ServerPlan(Rest(Server)) /\ "read" \in Rest(Server)
    BY Plans DEF IInv, ServerPlace
  <2> QED  BY <2>1 DEF ServerPlan
<1>3. Shrink /\ Live(Server) /\ Live(Server)' /\ ~Answering /\ ~Answering'
  BY <1>1, <1>2 DEF Shrink, Live, Answering
<1>4. \A c \in Clients : Unasked(c)' = Unasked(c) /\ (NotYet(c)' => NotYet(c))
  BY <1>0, <1>1 DEF Unasked, NotYet, Reading, Mono
<1>5. Types'
  <2>1. 0 \in 0 .. Len(Answer(y))
    <3>1. Len(Answer(y)) \in Nat
      BY AnswerType, LenProperties DEF IInv
    <3> QED  BY <3>1
  <2>2. Programs'
    BY <1>0, MonoFacts DEF IInv, Types, Programs
  <2> QED  BY <1>0, <2>1, <2>2, MonoFacts DEF IInv, Types, fixed
<1>6. Requests'
  <2>1. /\ \A c \in Clients : Unasked(c)' => ~Asked(c)'
        /\ \A c \in Clients : Asked(c)' => Runs(c)'
        /\ ~Kept' => ~Asked(Old)'
    BY <1>0, <1>4, MonoFacts DEF IInv, Requests
  <2>2. ASSUME NEW c \in Clients, to' = c
        PROVE  Runs(c)' /\ ~Unasked(c)' /\ ~Asked(c)' /\ mode' = "multi"
    BY <1>0, <1>4, <2>2 DEF Runs, Mono
  <2> QED  BY <1>3, <2>1, <2>2 DEF Requests
<1>7. Multi'
  BY <1>0, <1>1, <1>2, <1>3 DEF IInv, Multi, Mono
<1>8. Holds'
  BY <1>0, <1>1, <1>2, <1>3, HoldsKept DEF IInv
<1>9. Meets'
  BY <1>0, <1>1, <1>2 DEF Meets, Mono
<1>10. Flows'
  <2>1. \A c \in Clients : Stay(c)
    BY DEF Stay
  <2> QED  BY <1>0, <1>1, <1>2, <1>4, <2>1, ReadFlows DEF IInv
<1>11. Outputs'
  <2>1. \A c \in Clients : Misled(c)' = Misled(c)
    BY DEF Misled
  <2> QED  BY <1>0, <2>1, OutputsKept DEF IInv
<1>12. Delivered'
  <2>1. \A c \in Clients : Stay(c)
    BY DEF Stay
  <2> QED  BY <1>0, <1>1, <1>2, <1>3, <2>1, DeliveredKept DEF IInv
<1>13. Complete'
  BY <1>0, <1>1, CompleteKept DEF IInv
<1> QED  BY <1>5, <1>6, <1>7, <1>8, <1>9, <1>10, <1>11, <1>12, <1>13 DEF IInv

\* the server ends without an answer: nobody waits for one
LEMMA ReadEnds ==
  ASSUME IInv, At(Server, "read"), Goto(Server, <<"exit">>), sent' = 0, Channels', NEW y \in Clients \cup {Old}, y = to',
         UNCHANGED <<fixed, names, ends, waiting, runs, printed, fate>>, mode # "multi",
         \A c \in Clients : data'[c] = data[c],
         \A c : Asked(c)' => Asked(c),
         \A j, k \in DOMAIN data'["req"] : data'["req"][j] = data'["req"][k] /\ data'["req"][j] # Old => j = k,
         y \in Clients => Runs(y),
         \A c \in Clients : Fine(c) /\ ~Kept /\ "receive" \in Rest(c) => FALSE
  PROVE  IInv'
<1>0. Mono
  BY DEF fixed, Mono
<1>1. Stops(Server) /\ Programs' /\ "read" \in Rest(Server)
  BY GotoExit, ChansFacts, Plans DEF IInv, fixed, At, ServerPlace
<1>2. /\ Shrink /\ Rest(Server)' = {"exit"} /\ \A c \in Clients : Rest(c)' = Rest(c)
  BY <1>1, ChansFacts, StopsFacts
<1>3. ~Live(Server)' /\ ~Answering' /\ mode' = mode
  BY <1>0, <1>2 DEF Live, Answering, Mono
<1>4. \A c \in Clients : Unasked(c)' = Unasked(c) /\ (NotYet(c)' => NotYet(c))
  BY <1>1, <1>2, <1>3 DEF Unasked, NotYet
<1>5. Types'
  <2>1. 0 \in 0 .. Len(Answer(y))
    <3>1. Len(Answer(y)) \in Nat
      BY AnswerType, LenProperties DEF IInv
    <3> QED  BY <3>1
  <2> QED  BY <1>0, <1>1, <2>1, MonoFacts DEF IInv, Types, fixed
<1>6. Requests'
  <2>1. /\ \A c \in Clients : Unasked(c)' => ~Asked(c)'
        /\ \A c \in Clients : Asked(c)' => Runs(c)'
        /\ ~Kept' => ~Asked(Old)'
    BY <1>0, <1>4, MonoFacts DEF IInv, Requests
  <2>2. ASSUME NEW c \in Clients, to' = c PROVE Runs(c)'
    BY <1>0, <2>2, MonoFacts
  <2> QED  BY <1>2, <1>3, <2>1, <2>2 DEF Requests
<1>7. Multi'
  BY <1>3 DEF Multi
<1>8. Holds'
  BY <1>0, <1>2, <1>3, HoldsKept DEF IInv
<1>9. Meets'
  BY <1>2, <1>3 DEF Meets
<1>10. Flows'
  <2>1. \A c \in Clients : Stay(c)
    BY DEF Stay
  <2>3. y \in {Only, Old}
    BY ChansFacts DEF Runs
  <2> QED  BY <1>0, <1>1, <1>2, <1>4, <2>1, <2>3, ReadFlows DEF IInv
<1>11. Outputs'
  <2>1. \A c \in Clients : Misled(c)' = Misled(c)
    BY DEF Misled
  <2> QED  BY <1>0, <2>1, OutputsKept DEF IInv
<1>12. Delivered'
  <2>1. \A c \in Clients : Fine(c)' /\ ~Kept' /\ "receive" \in Rest(c)' => FALSE
    BY <1>0, <1>2, MonoFacts
  <2> QED  BY <2>1 DEF Delivered
<1>13. Complete'
  BY <1>0, <1>2, CompleteKept DEF IInv
<1> QED  BY <1>5, <1>6, <1>7, <1>8, <1>9, <1>10, <1>11, <1>12, <1>13 DEF IInv

LEMMA ReadKeeps ==
  ASSUME IInv, Read
  PROVE  IInv'
<1>0. At(Server, "read") /\ sent' = 0 /\ UNCHANGED <<fixed, names, ends, waiting, runs, printed, fate>>
  BY DEF Read
<1>1. /\ "read" \in Rest(Server) /\ <<Server, "req">> \notin waiting
      /\ Rest(Server) \cap {"make_req", "open_req", "open_dummy"} = {} /\ Live(Server)
  BY <1>0, Plans, ChansFacts DEF IInv, ServerPlace, At, Live
<1>2. /\ mode = "multi" => Server \in ends["req"]["r"] /\ Server \in ends["req"]["w"]
      /\ ~Kept /\ ~Missed => Server \in ends["req"]["r"]
  BY <1>1 DEF IInv, Multi, Holds
<1>3. CASE /\ ~BadRead(Server, "req") /\ data["req"] # <<>>
           /\ to' = (IF to = Old THEN Head(data["req"]) ELSE to) /\ data' = [data EXCEPT !["req"] = Tail(data["req"])]
           /\ CASE path[Head(data["req"])] = NoNewline -> UNCHANGED todo
                [] Messages /\ path[to'] = NoPath -> Goto(Server, <<"exit">>)
                [] OTHER -> Done(Server)
  <2> DEFINE q == data["req"]
  <2>1. q \in Seq(Clients \cup {Old}) /\ q # <<>> /\ DOMAIN data = Chans
    BY <1>3 DEF IInv, Types, Channels
  <2>2. /\ data'["req"] = Tail(q) /\ DOMAIN data' = Chans /\ \A f : f # "req" => data'[f] = data[f]
    BY <1>3, <2>1, ChansFacts
  <2> HIDE DEF q
  <2>3. /\ Tail(q) \in Seq(Clients \cup {Old}) /\ Len(Tail(q)) = Len(q) - 1 /\ Len(q) \in Nat /\ Len(q) >= 1
        /\ Head(q) = q[1] /\ Head(q) \in Clients \cup {Old}
        /\ \A i \in 1 .. Len(Tail(q)) : Tail(q)[i] = q[i + 1]
        /\ DOMAIN q = 1 .. Len(q) /\ DOMAIN Tail(q) = 1 .. Len(Tail(q))
    <3>1. Len(q) \in Nat /\ Len(q) # 0 /\ DOMAIN q = 1 .. Len(q)
      BY <2>1, EmptySeq, LenProperties
    <3>2. Tail(q) \in Seq(Clients \cup {Old}) /\ Len(Tail(q)) = Len(q) - 1
          /\ Head(q) = q[1] /\ Head(q) \in Clients \cup {Old}
          /\ \A i \in 1 .. Len(Tail(q)) : Tail(q)[i] = q[i + 1]
      BY <2>1, HeadTailProperties
    <3>3. DOMAIN Tail(q) = 1 .. Len(Tail(q))
      BY <3>2, LenProperties
    <3>4. Len(q) >= 1
      BY <3>1
    <3> QED  BY <3>1, <3>2, <3>3, <3>4
  <2>4. PICK n : n = Len(q) /\ n \in Nat /\ n >= 1
    BY <2>3
  <2>5. /\ \A i \in 1 .. n - 1 : i + 1 \in 1 .. n /\ i + 1 # 1 /\ i \in Int
        /\ 1 \in 1 .. n
    BY <2>4
  <2>6. \A k \in DOMAIN Tail(q) : k \in 1 .. n - 1 /\ k + 1 \in DOMAIN q /\ k + 1 # 1 /\ Tail(q)[k] = q[k + 1]
    BY <2>3, <2>4, <2>5
  <2>7. Channels'
    <3>1. Len(q) <= Capacity /\ Capacity \in Nat
      BY BoundAssumption, ChansFacts DEF IInv, Types, Channels, q
    <3>2. n - 1 <= Capacity
      <4>1. n <= Capacity /\ n \in Nat /\ Capacity \in Nat
        BY <2>4, <3>1
      <4> QED  BY <4>1
    <3>3. Len(data'["req"]) <= Capacity
      BY <2>2, <2>3, <2>4, <3>2
    <3> QED  BY <2>2, <2>3, <3>3, ChansFacts DEF IInv, Types, Channels
  <2>8. \A c : Asked(c)' => Asked(c)
    BY <2>2, <2>6 DEF Asked, q
  <2>9. \A j, k \in DOMAIN data'["req"] : data'["req"][j] = data'["req"][k] /\ data'["req"][j] # Old => j = k
    <3> SUFFICES ASSUME NEW j \in DOMAIN Tail(q), NEW k \in DOMAIN Tail(q), Tail(q)[j] = Tail(q)[k], Tail(q)[j] # Old
                 PROVE  j = k
      BY <2>2
    <3>1. j + 1 = k + 1
      BY <2>6 DEF IInv, Requests, q
    <3>2. j \in Int /\ k \in Int
      BY <2>5, <2>6
    <3> QED  BY <3>1, <3>2
  <2>10. PICK x \in Clients \cup {Old}, y \in Clients \cup {Old} :
           x = Head(q) /\ x = q[1] /\ y = to' /\ y = IF to = Old THEN x ELSE to
    BY <1>3, <2>3 DEF q, IInv, Types
  <2>11. /\ Asked(x) /\ (x \in Clients => ~Asked(x)')
    <3>1. 1 \in DOMAIN q /\ q[1] = x
      BY <2>3, <2>4, <2>5, <2>10
    <3>2. Asked(x)
      BY <3>1 DEF Asked, q
    <3>3. ASSUME x # Old, NEW k \in DOMAIN Tail(q), Tail(q)[k] = x PROVE FALSE
      <4>1. k + 1 \in DOMAIN q /\ k + 1 # 1 /\ q[k + 1] = x
        BY <2>6, <3>3
      <4> QED  BY <3>1, <3>3, <4>1 DEF IInv, Requests, q
    <3> QED  BY <2>2, <3>2, <3>3, ChansFacts DEF Asked
  <2>12. \A c \in Clients : data'[c] = data[c]
    BY <2>2, ChansFacts
  <2>13. /\ y \in Clients => Runs(y) /\ ~Unasked(y) /\ ~Asked(y)'
         /\ mode = "multi" => y \in Clients /\ NotYet(y)
         /\ y = Old => Kept
    <3>1. CASE to = Old
      <4>1. x \in Clients => Runs(x) /\ ~Unasked(x)
        BY <2>11 DEF IInv, Requests
      <4>2. x = Old => Kept
        BY <2>11 DEF IInv, Requests
      <4>3. y = x /\ (Kept => mode # "multi")
        BY <2>10, <3>1 DEF Kept
      <4> QED  BY <2>10, <2>11, <4>1, <4>2, <4>3 DEF NotYet
    <3>2. CASE to # Old
      <4>1. y = to /\ y \in Clients
        BY <2>10, <3>2 DEF IInv, Types
      <4>2. "answer" \in Rest(Server)
        BY <1>1, Plans DEF IInv, ServerPlan
      <4>3. Runs(y) /\ ~Unasked(y) /\ ~Asked(y)
        BY <4>1, <4>2 DEF IInv, Requests
      <4> QED  BY <1>1, <2>8, <4>1, <4>3, ChansFacts DEF NotYet, Reading
    <3> QED  BY <3>1, <3>2
  <2>14. CASE path[x] = NoNewline
    <3>1. x \in Clients /\ mode = "multi" /\ ~Messages
      <4>1. x # Old
        BY <2>14 DEF IInv, Types
      <4> QED  BY <2>14, <4>1 DEF IInv, Types, Messages
    <3>3. UNCHANGED todo
      BY <1>3, <2>10, <2>14, <3>1 DEF q
    <3>2. y \in Clients /\ ~Unasked(y) /\ ~Asked(y)' /\ NotYet(y)
      BY <2>13, <3>1
    <3> QED  BY <1>0, <2>7, <2>8, <2>9, <2>10, <2>12, <3>1, <3>2, <3>3, ReadOnKeeps
  <2>15. CASE path[x] # NoNewline /\ Messages /\ path[y] = NoPath
    <3>1. Goto(Server, <<"exit">>) /\ mode # "multi"
      BY <1>3, <2>10, <2>15 DEF Messages, q
    <3>2. ASSUME NEW c \in Clients, Fine(c), ~Kept PROVE FALSE
      <4>1. c = Only /\ y = Only
        BY <2>13, <3>1, <3>2, ChansFacts DEF Fine, Runs
      <4> QED  BY <2>15, <3>2, <4>1 DEF Fine
    <3> QED  BY <1>0, <2>7, <2>8, <2>9, <2>10, <2>12, <2>13, <3>1, <3>2, ReadEnds
  <2>16. CASE path[x] # NoNewline /\ ~(Messages /\ path[y] = NoPath)
    <3>1. Done(Server)
      BY <1>3, <2>10, <2>16 DEF q
    <3> QED  BY <1>0, <2>7, <2>8, <2>9, <2>10, <2>12, <2>13, <3>1, ReadDone
  <2> QED  BY <2>14, <2>15, <2>16
<1>4. CASE Eof(Server, "req") /\ Goto(Server, <<"exit">>) /\ UNCHANGED <<to, data>>
  <2>1. mode # "multi" /\ ends["req"]["w"] = {} /\ ~Kept
    BY <1>2, <1>4 DEF Eof
  <2>2. ASSUME NEW c \in Clients, Fine(c), "receive" \in Rest(c) PROVE FALSE
    <3>1. ~Missed /\ c = Only
      BY <2>1, <2>2, ChansFacts DEF Fine, Runs
    <3>2. "open_req" \in Rest(c)
      BY <2>1, <2>2, <3>1 DEF IInv, Holds
    <3>3. "open_req" \notin Rest(Only)
      BY <1>1, <2>1, <3>1 DEF IInv, Meets
    <3> QED  BY <3>1, <3>2, <3>3
  <2>3. PICK y \in Clients \cup {Old} : y = to /\ y = to'
    BY <1>4 DEF IInv, Types
  <2>4. Channels' /\ (\A c : Asked(c)' => Asked(c)) /\ (y \in Clients => Runs(y))
        /\ \A j, k \in DOMAIN data'["req"] : data'["req"][j] = data'["req"][k] /\ data'["req"][j] # Old => j = k
    BY <1>4, <2>3 DEF IInv, Types, Channels, Asked, Requests
  <2> QED  BY <1>0, <1>4, <2>1, <2>2, <2>3, <2>4, ReadEnds
<1>5. CASE BadRead(Server, "req") /\ to' = Old /\ Done(Server) /\ UNCHANGED data
  <2>1. mode # "multi" /\ (Kept \/ Missed)
    BY <1>2, <1>5 DEF BadRead, Kept
  <2>2. PICK y \in {Old} : y = to'
    BY <1>5
  <2>3. Channels' /\ (\A c : Asked(c)' => Asked(c))
        /\ \A j, k \in DOMAIN data'["req"] : data'["req"][j] = data'["req"][k] /\ data'["req"][j] # Old => j = k
    BY <1>5 DEF IInv, Types, Channels, Asked, Requests
  <2> QED  BY <1>0, <1>5, <2>1, <2>2, <2>3, ChansFacts, ReadDone
<1> QED  BY <1>0, <1>3, <1>4, <1>5 DEF Read

-----------------------------------------------------------------------------
(* The start. *)

\* what is in a program, seen from its beginning
LEMMA StartFacts ==
  ASSUME mode \in Modes
  PROVE  /\ LET R == ToSet(Program(Server)) IN
              /\ {"read", "answer"} \subseteq R
              /\ mode = "multi" => {"make_req", "open_req", "open_dummy", "open_ans"} \subseteq R
              /\ ~Piped /\ ~Kept => {"open_req", "open_ans"} \subseteq R
         /\ \A c \in Clients : LET R == ToSet(Program(c)) IN
              /\ "receive" \in R
              /\ {"open_req", "open_ans"} \subseteq R <=> ~Piped
              /\ Piped => R \cap {"open_req", "open_ans"} = {}
<1>1. \A c \in Clients : c # Server
  BY ProcsAssumption
<1>2. CASE mode = "pipe"
  BY <1>1, <1>2 DEF Program, TestPipe, ToSet, Piped, Kept
<1>3. CASE mode = "stream"
  BY <1>1, <1>3 DEF Program, TestStream, ToSet, Piped, Kept
<1>4. CASE mode = "related"
  BY <1>1, <1>4 DEF Program, Related, ToSet, Piped, Kept
<1>5. CASE mode = "unrelated"
  BY <1>1, <1>5 DEF Program, UnrelatedServer, UnrelatedClient, ToSet, Piped, Kept
<1>6. CASE mode = "multi"
  BY <1>1, <1>6 DEF Program, MultiServer, MultiClient, ToSet, Piped, Kept
<1>7. CASE mode = "queues"
  BY <1>1, <1>7 DEF Program, QueueServer, QueueClient, ToSet, Piped, Kept
<1> QED  BY <1>2, <1>3, <1>4, <1>5, <1>6, <1>7 DEF Modes

LEMMA LeftFacts ==
  ASSUME NEW ch, NEW U, NEW l \in Left(ch, U)
  PROVE  l \in Seq(U) /\ Len(l) <= Capacity /\ (Kept \/ l = <<>>)
<1>1. CASE Kept /\ ch \in names
  <2>1. PICK m \in 0 .. Capacity : l \in [1 .. m -> U]
    BY <1>1 DEF Left, BoundedSeq, SeqOf
  <2>2. m \in Nat /\ m <= Capacity
    BY <2>1, BoundAssumption
  <2>3. Len(l) = m
    BY <2>1, <2>2
  <2>4. l \in Seq(U)
    BY <2>1, <2>2
  <2> QED  BY <1>1, <2>2, <2>3, <2>4
<1>2. CASE ~(Kept /\ ch \in names)
  <2>1. l = <<>>
    BY <1>2 DEF Left
  <2> QED  BY <2>1, BoundAssumption
<1> QED  BY <1>1, <1>2

LEMMA InitTypes ==
  ASSUME Init
  PROVE  Types
<1>1. mode \in Modes /\ path \in [Clients \cup {Old} -> Lines] /\ names \subseteq Chans
  BY OnlyType DEF Init, Modes, Chans
<1>2. (\A c \in Clients : path[c] = NoNewline => mode = "multi") /\ path[Old] # NoNewline
  BY DEF Init
<1>3. Channels
  <2>1. PICK q \in Left("req", {Old}), a \in Left(Only, {<<Old, 0>>, <<Old, -1>>}) :
           data = [ch \in Chans |-> CASE ch = "req" -> q [] ch = Only -> a [] OTHER -> <<>>]
    BY DEF Init
  <2>2. q \in Seq({Old}) /\ Len(q) <= Capacity /\ a \in Seq({<<Old, 0>>, <<Old, -1>>}) /\ Len(a) <= Capacity
    BY LeftFacts
  <2>3. {<<Old, 0>>, <<Old, -1>>} \subseteq Parts /\ {Old} \subseteq Clients \cup {Old}
    BY DEF Parts
  <2>4. Len(<<>>) <= Capacity /\ <<>> \in Seq(Clients \cup {Old}) /\ <<>> \in Seq(Parts)
    BY BoundAssumption
  <2>5. q \in Seq(Clients \cup {Old})
    BY <2>2, <2>3
  <2>6. a \in Seq(Parts)
    <3>1. \A S, T : S \subseteq T => Seq(S) \subseteq Seq(T)
      OBVIOUS
    <3> QED  BY <2>2, <2>3, <3>1, Zenon
  <2>7. /\ DOMAIN data = Chans /\ data["req"] = q
        /\ \A c \in Clients : data[c] = a \/ data[c] = <<>>
    BY <2>1, OnlyType, ChansFacts
  <2> QED  BY <2>2, <2>4, <2>5, <2>6, <2>7 DEF Channels, Chans
<1>4. ends \in [Chans -> [{"r", "w"} -> SUBSET Procs]] /\ waiting \subseteq Procs \X Chans
  <2> DEFINE P(ch) == IF Piped /\ ch \in names THEN {Only, Server} ELSE {}
  <2>1. \A ch \in Chans : P(ch) \in SUBSET Procs
    BY OnlyType DEF Procs
  <2>2. ends = [ch \in Chans |-> [r |-> P(ch), w |-> P(ch)]]
    BY DEF Init
  <2>3. \A S : \A s \in S : [r |-> s, w |-> s] \in [{"r", "w"} -> S]
    OBVIOUS
  <2> HIDE DEF P
  <2>4. ends \in [Chans -> [{"r", "w"} -> SUBSET Procs]]
    BY <2>1, <2>2, <2>3
  <2> QED  BY <2>4 DEF Init
<1>5. Programs
  <2>1. todo = [p \in Procs |-> IF Runs(p) THEN Program(p) ELSE <<>>]
    BY DEF Init, Runs
  <2>2. ASSUME NEW p \in Procs PROVE Program(p) \in Tails(Program(p)) /\ <<>> \in Tails(Program(p))
    <3>1. Program(p) \in Seq(Operations)
      BY <1>1, ServerProgram, ClientProgram DEF Procs
    <3>2. PICK P : P = Program(p)
      OBVIOUS
    <3>3. SubSeq(P, 0 + 1, Len(P)) = P /\ 0 \in 0 .. Len(P)
      <4>1. SubSeq(P, 1, Len(P)) = P /\ Len(P) \in Nat
        BY <3>1, <3>2, SubSeqFull, LenProperties
      <4> QED  BY <4>1
    <3> QED  BY <3>1, <3>2, <3>3, ExitFacts DEF Tails
  <2> QED  BY <2>1, <2>2 DEF Programs
<1>6. to \in Clients \cup {Old} /\ runs \in 1 .. MaxRuns
  BY BoundAssumption DEF Init
<1>7. sent \in 0 .. Len(Answer(to))
  <2>1. to = Old /\ sent = 0
    BY DEF Init
  <2>2. Answer(to) \in Seq(Parts)
    BY <1>1, <2>1, AnswerShape
  <2> QED  BY <2>1, <2>2, LenProperties
<1>8. printed \in [Clients -> Seq(Units)]
  <2>1. <<>> \in Seq(Units)
    OBVIOUS
  <2> QED  BY <2>1 DEF Init
<1>9. fate \subseteq Procs \X {"killed", "amid", "died", "missed", "misled"}
  BY DEF Init
<1> QED  BY <1>1, <1>2, <1>3, <1>4, <1>5, <1>6, <1>7, <1>8, <1>9 DEF Types

LEMMA InitKeeps ==
  ASSUME Init
  PROVE  IInv
<1>0. Types /\ mode \in Modes
  BY InitTypes DEF Types
<1>1. PICK q \in Left("req", {Old}), a \in Left(Only, {<<Old, 0>>, <<Old, -1>>}) :
         data = [ch \in Chans |-> CASE ch = "req" -> q [] ch = Only -> a [] OTHER -> <<>>]
  BY DEF Init
<1>2. /\ data["req"] = q /\ q \in Seq({Old}) /\ (Kept \/ q = <<>>)
      /\ \A c \in Clients : data[c] \in Lefts /\ (Kept \/ data[c] = <<>>)
  <2>1. q \in Seq({Old}) /\ (Kept \/ q = <<>>) /\ a \in Seq({<<Old, 0>>, <<Old, -1>>}) /\ (Kept \/ a = <<>>)
    BY LeftFacts
  <2>2. a \in Seq(Parts) /\ <<>> \in Lefts
    <3>1. \A S, T : S \subseteq T => Seq(S) \subseteq Seq(T)
      OBVIOUS
    <3>2. {<<Old, 0>>, <<Old, -1>>} \subseteq Parts
      BY DEF Parts
    <3>3. <<>> \in Lefts
      <4>1. <<>> \in Seq(Parts) /\ Len(<<>>) = 0
        BY EmptySeq
      <4> QED  BY <4>1 DEF Lefts
    <3> QED  BY <2>1, <3>1, <3>2, <3>3, Zenon
  <2>3. \A i \in 1 .. Len(a) : a[i][1] = Old
    <3>1. \A u \in {<<Old, 0>>, <<Old, -1>>} : u[1] = Old
      OBVIOUS
    <3>2. \A i \in 1 .. Len(a) : a[i] \in {<<Old, 0>>, <<Old, -1>>}
      BY <2>1, ElementOfSeq
    <3> QED  BY <3>1, <3>2, Zenon
  <2>4. data["req"] = q /\ \A c \in Clients : data[c] = a \/ data[c] = <<>>
    BY <1>1, OnlyType, ChansFacts
  <2> QED  BY <2>1, <2>2, <2>3, <2>4 DEF Lefts
<1>3. \A k \in DOMAIN data["req"] : data["req"][k] = Old /\ Kept
  <2>1. \A k \in DOMAIN q : q[k] \in {Old} /\ q # <<>>
    <3>1. DOMAIN q = 1 .. Len(q) /\ (q = <<>> => Len(q) = 0)
      BY <1>2, EmptySeq
    <3> QED  BY <1>2, <3>1, ElementOfSeq
  <2> QED  BY <1>2, <2>1
<1>4. /\ Rest(Server) = ToSet(Program(Server))
      /\ \A c \in Clients : Rest(c) = IF Runs(c) THEN ToSet(Program(c)) ELSE {}
  BY ChansFacts DEF Init, Rest, Runs, ToSet
<1>5. /\ {"read", "answer"} \subseteq Rest(Server)
      /\ mode = "multi" => {"make_req", "open_req", "open_dummy", "open_ans"} \subseteq Rest(Server)
      /\ ~Piped /\ ~Kept => {"open_req", "open_ans"} \subseteq Rest(Server)
      /\ \A c \in Clients : "receive" \in Rest(c) <=> Runs(c)
      /\ \A c \in Clients : Runs(c) /\ ~Piped => {"open_req", "open_ans"} \subseteq Rest(c)
      /\ \A c \in Clients : Runs(c) /\ Piped => Rest(c) \cap {"open_req", "open_ans"} = {}
  BY <1>0, <1>4, StartFacts
<1>6. /\ ~Piped => \A ch \in Chans : ends[ch]["r"] = {} /\ ends[ch]["w"] = {}
      /\ Piped => \A ch \in {"req", Only} : ends[ch]["r"] = {Only, Server} /\ ends[ch]["w"] = {Only, Server}
      /\ Piped => \A ch \in Chans \ {"req", Only} : ends[ch]["r"] = {} /\ ends[ch]["w"] = {}
  <2>1. Piped => names = {"req", Only}
    BY DEF Init, Piped
  <2> QED  BY <2>1, OnlyType, ChansFacts DEF Init
<1>7. Only \in Clients /\ (Piped => mode # "multi" /\ \A c \in Clients : Runs(c) => c = Only)
  BY OnlyType, ChansFacts DEF Piped, Runs
<1>8. ~Answering /\ to = Old /\ Live(Server) /\ (mode # "multi" => Reply = Only)
  BY <1>5 DEF Answering, Init, Live, Reply
<1>9. Requests
  BY <1>3, <1>8, ChansFacts DEF Requests, Unasked, Asked
<1>10. Multi
  BY <1>5, <1>8 DEF Multi
<1>11. Holds
  <2>1. ~Piped => ends["req"]["r"] = {} /\ ends["req"]["w"] = {} /\ \A c \in Clients : ends[c]["r"] = {} /\ ends[c]["w"] = {}
    BY <1>6, ChansFacts
  <2>2. \A c \in Clients : c \in ends["req"]["w"] => Piped /\ c = Only
    BY <1>6, <2>1, ChansFacts
  <2>3. \A c \in Clients : c \in ends[c]["r"] => Piped /\ c = Only
    BY <1>6, <2>1, ChansFacts
  <2>4. Runs(Only)
    BY DEF Runs
  <2>5. /\ ~Kept /\ "open_req" \notin Rest(Server) => Piped
        /\ ~Kept /\ "open_ans" \notin Rest(Server) => Piped
    BY <1>5
  <2>6. \A c \in Clients : "receive" \in Rest(c) /\ ("open_req" \notin Rest(c) \/ "open_ans" \notin Rest(c)) => Piped /\ c = Only
    BY <1>5, <1>7
  <2>7. Piped => Only \in ends["req"]["w"] /\ Server \in ends["req"]["r"] /\ Only \in ends[Only]["r"] /\ Server \in ends[Only]["w"]
    BY <1>6
  <2> QED  BY <1>5, <1>7, <1>8, <2>1, <2>2, <2>3, <2>4, <2>5, <2>6, <2>7 DEF Holds
<1>12. Meets
  BY <1>5, <1>7, <1>8 DEF Meets, Runs
<1>13. \A c \in Clients : printed[c] = <<>>
  BY DEF Init
<1>14. \A c \in Clients, x \in Clients \cup {Old} :
         /\ Answer(x) \in Seq(Parts) /\ 0 \in 0 .. Len(Answer(x))
         /\ \A l \in Lefts : Upto(l, Answer(x), 0) = l
  <2>1. ASSUME NEW c \in Clients, NEW x \in Clients \cup {Old} PROVE Answer(x) \in Seq(Parts) /\ 0 \in 0 .. Len(Answer(x))
    <3>1. Answer(x) \in Seq(Parts) /\ Len(Answer(x)) \in Nat
      BY <1>0, AnswerType, LenProperties
    <3> QED  BY <3>1
  <2>2. \A c \in Clients : \A l \in Lefts : l \in Seq(Parts)
    BY <1>0, FlowType
  <2> QED  BY <2>1, <2>2, UptoNone
<1>15. Flows
  <2> SUFFICES ASSUME NEW c \in Clients, "receive" \in Rest(c)
               PROVE  \E l \in Lefts, x \in {c, Old} : \E m \in 0 .. Len(Answer(x)) : Story(l, x, m) /\ Flow(c, l, x, m)
    BY DEF Flows
  <2>1. PICK l \in Lefts : l = data[c]
    BY <1>2
  <2>2. Story(l, c, 0)
    BY <1>2, <2>1 DEF Story
  <2>3. printed[c] \o data[c] = Upto(l, Answer(c), 0)
    <3>1. <<>> \o l = l
      BY <1>0, FlowType, ConcatEmptySeq
    <3> QED  BY <1>13, <1>14, <2>1, <3>1
  <2>4. Flow(c, l, c, 0)
    BY <1>8, <2>3 DEF Flow
  <2> QED  BY <1>14, <2>2, <2>4
<1>16. Outputs
  <2> SUFFICES ASSUME NEW c \in Clients
               PROVE  \E l \in Lefts, x \in {c, Old} : \E m \in 0 .. Len(Answer(x)) :
                        Story(l, x, m) /\ IsPrefix(printed[c], Upto(l, Answer(x), m))
    <3>1. \A c \in Clients : Len(printed[c]) = 0 /\ ~Misled(c)
      BY <1>13, EmptySeq DEF Init, Misled
    <3> QED  BY <3>1 DEF Outputs
  <2>1. <<>> \in Lefts /\ Story(<<>>, c, 0)
    <3>1. <<>> \in Seq(Parts) /\ Len(<<>>) = 0
      BY EmptySeq
    <3> QED  BY <3>1 DEF Lefts, Story
  <2>2. IsPrefix(<<>>, <<>>)
    BY DEF IsPrefix
  <2>3. IsPrefix(printed[c], Upto(<<>>, Answer(c), 0))
    BY <1>13, <1>14, <2>1, <2>2
  <2> QED  BY <1>14, <2>1, <2>3
<1>17. Delivered
  <2>1. ASSUME NEW c \in Clients, "receive" \in Rest(c), "open_ans" \notin Rest(c) PROVE Server \in ends[c]["w"]
    BY <1>5, <1>6, <1>7, <2>1
  <2> QED  BY <1>5, <2>1 DEF Delivered
<1>18. Complete
  BY <1>5 DEF Complete, Fine
<1> QED  BY <1>0, <1>9, <1>10, <1>11, <1>12, <1>15, <1>16, <1>17, <1>18 DEF IInv

-----------------------------------------------------------------------------
(* Every behaviour. *)

LEMMA StepKeeps ==
  ASSUME IInv, [Next]_vars
  PROVE  IInv'
<1>1. CASE UNCHANGED vars
  <2>1. UNCHANGED <<mode, path, names, data, ends, waiting, todo, to, sent, runs, printed, fate>> /\ Mono
    BY <1>1 DEF vars, fixed, Mono
  <2>2. Shrink /\ \A p : Rest(p)' = Rest(p)
    BY <2>1 DEF Shrink, Rest
  <2>3. Types'
    BY <2>1, MonoFacts DEF IInv, Types, Channels, Programs
  <2>4. /\ \A c \in Clients : NotYet(c)' = NotYet(c) /\ Stay(c)
        /\ Answering' = Answering /\ Live(Server)' = Live(Server) /\ Reply' = Reply
    BY <2>1, <2>2 DEF NotYet, Unasked, Asked, Reading, Stay, Answering, Live, Reply
  <2>5. Requests' /\ Multi' /\ Meets' /\ Outputs' /\ Delivered' /\ Complete' /\ Holds'
    <3>1. Requests'
      BY <2>1, <2>2, <2>4, RequestsKept DEF IInv
    <3>2. Multi' /\ Meets'
      BY <2>1, <2>2, <2>4, MultiKept, MeetsKept DEF IInv
    <3>3. Outputs' /\ Delivered' /\ Complete'
      <4>1. \A c \in Clients : Misled(c)' = Misled(c)
        BY <2>1 DEF Misled
      <4> QED  BY <2>1, <2>2, <2>4, <4>1, OutputsKept, DeliveredKept, CompleteKept DEF IInv
    <3>4. Holds'
      BY <2>1, <2>2, <2>4, HoldsKept DEF IInv
    <3> QED  BY <3>1, <3>2, <3>3, <3>4
  <2>6. Flows'
    <3>1. ASSUME NEW c \in Clients, "receive" \in Rest(c)'
          PROVE  \E l \in Lefts, x \in {c, Old} : \E m \in 0 .. Len(Answer(x)) : Story(l, x, m)' /\ Flow(c, l, x, m)'
      <4>1. Silent(c) => Silent(c)'
        BY <2>1, <2>2, MonoFacts DEF Silent
      <4> QED  BY <2>1, <2>2, <2>4, <3>1, <4>1, FlowKept DEF IInv
    <3> QED  BY <2>1, <3>1, FlowsNext
  <2> QED  BY <2>3, <2>5, <2>6 DEF IInv
<1>2. ASSUME NEW p \in Procs, Process(p) PROVE IInv'
  BY <1>2, CloseUnusedKeeps, MakeKeeps, OpenKeeps, UnlinkKeeps, WaitKeeps, ExitKeeps DEF Process
<1>3. ASSUME NEW c \in Clients, Send(c) \/ Receive(c) PROVE IInv'
  BY <1>3, SendKeeps, ReceiveKeeps
<1>4. CASE Read \/ Answers \/ CloseAns
  BY <1>4, ReadKeeps, AnswersKeeps, CloseAnsKeeps
<1>5. CASE Restart
  BY <1>5, RestartKeeps
<1>6. ASSUME NEW p \in Procs, Kill(p) PROVE IInv'
  BY <1>6, KillKeeps
<1> QED  BY <1>1, <1>2, <1>3, <1>4, <1>5, <1>6 DEF Next, Step

\* The conversation over six channels keeps its invariant, whatever is killed,
\* missed or started again.
THEOREM FilesInvariant == Spec => []IInv
<1>1. Init => IInv
  BY InitKeeps
<1>2. IInv /\ [Next]_vars => IInv'
  BY StepKeeps
<1> QED  BY <1>1, <1>2, PTL DEF Spec

-----------------------------------------------------------------------------
(* What the programs promise. *)

\* what is a prefix of u is u, as far as it goes
LEMMA PrefixFacts ==
  ASSUME NEW S, NEW T, NEW p \in Seq(S), NEW u \in Seq(T), IsPrefix(p, u)
  PROVE  Len(p) <= Len(u) /\ \A i \in 1 .. Len(p) : p[i] = u[i]
<1>1. PICK j, h : j = Len(p) /\ h = Len(u) /\ j \in Nat /\ h \in Nat
  BY LenProperties
<1>2. j <= h /\ SubSeq(p, 1, j) = SubSeq(u, 1, j)
  BY <1>1 DEF IsPrefix
<1>3. /\ \A i \in 1 .. j : p[i] \in S
      /\ \A i \in 1 .. j : u[i] \in T
  <2>1. \A i \in 1 .. j : i \in 1 .. h
    BY <1>1, <1>2
  <2> QED  BY <1>1, <2>1, ElementOfSeq
<1>4. \A i \in 1 .. j - 1 + 1 : SubSeq(p, 1, j)[i] = p[1 + i - 1]
  BY <1>1, <1>3, SubSeqProperties
<1>5. \A i \in 1 .. j - 1 + 1 : SubSeq(u, 1, j)[i] = u[1 + i - 1]
  BY <1>1, <1>3, SubSeqProperties
<1>6. j - 1 + 1 = j /\ \A i \in 1 .. j : 1 + i - 1 = i
  BY <1>1
<1> QED  BY <1>1, <1>2, <1>4, <1>5, <1>6

\* the converse, for what is left of p without its first j elements
LEMMA RestPrefix ==
  ASSUME NEW S, NEW p \in Seq(S), NEW u \in Seq(S), NEW j \in 0 .. Len(p),
         Len(p) - j <= Len(u), \A i \in 1 .. Len(p) - j : p[j + i] = u[i]
  PROVE  IsPrefix(SubSeq(p, j + 1, Len(p)), u)
<1>1. PICK n, h : n = Len(p) /\ h = Len(u) /\ n \in Nat /\ h \in Nat /\ j \in 0 .. n
  BY LenProperties
<1>2. /\ \A i \in j + 1 .. n : p[i] \in S
      /\ \A i \in 1 .. n - j : u[i] \in S
  <2>1. \A i \in j + 1 .. n : i \in 1 .. n
    BY <1>1
  <2>2. \A i \in 1 .. n - j : i \in 1 .. h
    BY <1>1
  <2> QED  BY <1>1, <2>1, <2>2, ElementOfSeq
<1> DEFINE s == SubSeq(p, j + 1, n)
<1>3. s \in Seq(S) /\ Len(s) = n - j /\ \A i \in 1 .. n - j : s[i] = p[j + i]
  <2>1. PICK a : a = j + 1 /\ a \in Nat
    BY <1>1
  <2>2. /\ SubSeq(p, a, n) \in Seq(S) /\ Len(SubSeq(p, a, n)) = IF a <= n THEN n - a + 1 ELSE 0
        /\ \A i \in 1 .. n - a + 1 : SubSeq(p, a, n)[i] = p[a + i - 1]
    BY <1>1, <1>2, <2>1, SubSeqProperties
  <2>3. (IF a <= n THEN n - a + 1 ELSE 0) = n - j /\ n - a + 1 = n - j /\ \A i \in 1 .. n - j : a + i - 1 = j + i
    BY <1>1, <2>1
  <2> QED  BY <2>1, <2>2, <2>3
<1> HIDE DEF s
<1>4. PICK k : k = n - j /\ k \in Nat /\ k <= h
  BY <1>1
<1>5. SubSeq(s, 1, k) = s
  BY <1>3, <1>4, SubSeqFull
<1>6. /\ SubSeq(u, 1, k) \in Seq(S) /\ Len(SubSeq(u, 1, k)) = IF 1 <= k THEN k - 1 + 1 ELSE 0
      /\ \A i \in 1 .. k - 1 + 1 : SubSeq(u, 1, k)[i] = u[1 + i - 1]
  <2>1. \A i \in 1 .. k : u[i] \in S
    BY <1>2, <1>4
  <2> QED  BY <1>4, <2>1, SubSeqProperties
<1>7. (IF 1 <= k THEN k - 1 + 1 ELSE 0) = k /\ k - 1 + 1 = k /\ \A i \in 1 .. k : 1 + i - 1 = i
  BY <1>4
<1>8. SubSeq(u, 1, k) = s
  <2> DEFINE t == SubSeq(u, 1, k)
  <2>1. t \in Seq(S) /\ Len(t) = k /\ \A i \in 1 .. k : t[i] = s[i]
    BY <1>1, <1>3, <1>4, <1>6, <1>7
  <2> HIDE DEF t
  <2>2. t = s
    BY <1>3, <1>4, <2>1, SeqEqual
  <2> QED  BY <2>2 DEF t
<1>9. IsPrefix(s, u)
  BY <1>1, <1>3, <1>4, <1>5, <1>8 DEF IsPrefix
<1> QED  BY <1>1, <1>9 DEF s

\* of what is written, the length, and what comes after l
LEMMA UptoLong ==
  ASSUME NEW S, NEW l \in Seq(S), NEW a \in Seq(S), NEW m \in 0 .. Len(a)
  PROVE  Upto(l, a, m) \in Seq(S) /\ Len(Upto(l, a, m)) = Len(l) + m
BY UptoType

LEMMA UptoLast ==
  ASSUME NEW S, NEW l \in Seq(S), NEW a \in Seq(S), NEW m \in 0 .. Len(a)
  PROVE  \A i \in 1 .. m : Upto(l, a, m)[Len(l) + i] = a[i]
BY UptoType

\* An output is what an earlier run left, then the beginning of a file: the client's
\* own, or the one the earlier run had asked for.
LEMMA OutputShape ==
  ASSUME IInv, NEW c \in Clients
  PROVE  \E j \in 0 .. Len(printed[c]), x \in {c, Old} :
           /\ \A k \in 1 .. j : printed[c][k][1] = Old
           /\ Len(printed[c]) - j <= Len(FileOf(x))
           /\ \A i \in 1 .. Len(printed[c]) - j : printed[c][j + i] = FileOf(x)[i]
<1>1. PICK l \in Lefts, x \in {c, Old} : \E m \in 0 .. Len(Answer(x)) :
             Story(l, x, m) /\ IsPrefix(printed[c], Upto(l, Answer(x), m))
  BY DEF IInv, Outputs
<1>2. PICK m \in 0 .. Len(Answer(x)) : Story(l, x, m) /\ IsPrefix(printed[c], Upto(l, Answer(x), m))
  BY <1>1
<1>3. x \in Clients \cup {Old} /\ Types
  BY DEF IInv
<1>4. /\ printed[c] \in Seq(Units) /\ l \in Seq(Parts)
      /\ Answer(x) \in Seq(Parts) /\ FileOf(x) \in Seq(Units) /\ <<x, -1>> \notin Units
  <2>1. <<x, -1>> \notin Units
    BY DEF Units
  <2> QED  BY <1>3, <2>1, FlowType, AnswerType, FileType
<1>5. PICK n, f, a, b : /\ n = Len(printed[c]) /\ f = Len(FileOf(x)) /\ a = Len(Answer(x)) /\ b = Len(l)
                        /\ n \in Nat /\ f \in Nat /\ a \in Nat /\ b \in Nat /\ m \in 0 .. a
  BY <1>4, LenProperties
<1>6. a = (IF Messages THEN f + 1 ELSE f) /\ (\A k \in 1 .. f : Answer(x)[k] = FileOf(x)[k])
      /\ (Messages => Answer(x)[f + 1] = <<x, -1>>)
  BY <1>3, <1>5, AnswerType
<1>7. /\ n <= b + m
      /\ \A k \in 1 .. n : k <= b => printed[c][k] = l[k]
      /\ \A i \in 1 .. n - b : printed[c][b + i] = Answer(x)[i] /\ i \in 1 .. m
  <2> DEFINE u == Upto(l, Answer(x), m)
  <2>1. /\ u \in Seq(Parts) /\ Len(u) = b + m
        /\ \A i \in 1 .. b : u[i] = l[i]
        /\ \A i \in 1 .. m : u[b + i] = Answer(x)[i]
    <3>1. Answer(x) \in Seq(Parts) /\ m \in 0 .. Len(Answer(x))
      BY <1>4
    <3>2. Upto(l, Answer(x), m) \in Seq(Parts) /\ Len(Upto(l, Answer(x), m)) = Len(l) + m
      BY <1>4, <3>1, UptoLong
    <3>3. \A i \in 1 .. Len(l) : Upto(l, Answer(x), m)[i] = l[i]
      BY <1>4, <3>1, UptoStart
    <3>4. \A i \in 1 .. m : Upto(l, Answer(x), m)[Len(l) + i] = Answer(x)[i]
      BY <1>4, <3>1, UptoLast
    <3> QED  BY <1>5, <3>2, <3>3, <3>4
  <2> HIDE DEF u
  <2>2. IsPrefix(printed[c], u)
    BY <1>2 DEF u
  <2>3. n <= b + m /\ \A i \in 1 .. n : printed[c][i] = u[i]
    <3>1. printed[c] \in Seq(Units) /\ u \in Seq(Parts)
      BY <1>4, <2>1
    <3>2. Len(printed[c]) <= Len(u) /\ \A i \in 1 .. Len(printed[c]) : printed[c][i] = u[i]
      BY <2>2, <3>1, PrefixFacts
    <3> QED  BY <1>5, <2>1, <3>2
  <2>4. \A k \in 1 .. n : k <= b => k \in 1 .. b
    BY <1>5
  <2>5. \A i \in 1 .. n - b : b + i \in 1 .. n /\ i \in 1 .. m
    BY <1>5, <2>3
  <2> QED  BY <2>1, <2>3, <2>4, <2>5
<1>8. \A k \in 1 .. n : printed[c][k] \in Units
  BY <1>4, <1>5, ElementOfSeq
<1>9. \A i \in 1 .. n - b : i <= f /\ printed[c][b + i] = FileOf(x)[i]
  <2>1. ASSUME NEW i \in 1 .. n - b PROVE i <= f
    <3>1. b + i \in 1 .. n /\ i \in 1 .. m /\ i <= a
      BY <1>5, <1>7
    <3>2. Messages => i # f + 1
      BY <1>4, <1>6, <1>7, <1>8, <3>1
    <3>3. CASE Messages
      <4>1. a = f + 1 /\ i # f + 1
        BY <1>6, <3>2, <3>3
      <4> QED  BY <1>5, <3>1, <4>1
    <3>4. CASE ~Messages
      <4>1. a = f
        BY <1>6, <3>4
      <4> QED  BY <3>1, <4>1
    <3> QED  BY <3>3, <3>4
  <2>2. \A i \in 1 .. n - b : i \in 1 .. f
    BY <1>5, <2>1
  <2> QED  BY <1>6, <1>7, <2>1, <2>2
<1>10. n - b <= f
  <2>1. CASE n - b >= 1
    <3>1. n - b \in 1 .. n - b
      BY <1>5, <2>1
    <3> QED  BY <1>9, <3>1
  <2>2. CASE n - b <= 0
    BY <1>5, <2>2
  <2> QED  BY <1>5, <2>1, <2>2
<1>11. \A k \in 1 .. n : k <= b => printed[c][k][1] = Old
  <2>1. \A k \in 1 .. n : k <= b => k \in 1 .. b
    BY <1>5
  <2>2. \A k \in 1 .. b : l[k][1] = Old
    BY <1>5 DEF Lefts
  <2> QED  BY <1>7, <2>1, <2>2
<1>12. CASE b <= n
  <2>1. b \in 0 .. n /\ \A k \in 1 .. b : k \in 1 .. n /\ k <= b
    BY <1>5, <1>12
  <2> QED  BY <1>5, <1>9, <1>10, <1>11, <2>1
<1>13. CASE ~(b <= n)
  <2>1. n \in 0 .. n /\ n - n = 0 /\ 0 <= f /\ (\A k \in 1 .. n : k <= b) /\ \A i \in 1 .. n - n : FALSE
    BY <1>5, <1>13
  <2>2. n - n <= f
    BY <2>1
  <2> QED  BY <1>5, <1>11, <2>1, <2>2
<1> QED  BY <1>12, <1>13

LEMMA OutputOwn ==
  ASSUME IInv, NEW c \in Clients
  PROVE  /\ Misled(c) => Kept \/ Befell("missed") # {}
         /\ \E old \in 0 .. Len(printed[c]) :
              /\ \A k \in 1 .. old : printed[c][k][1] = Old /\ Misled(c)
              /\ IsPrefix(SubSeq(printed[c], old + 1, Len(printed[c])), FileOf(c))
<1>1. PICK j \in 0 .. Len(printed[c]), x \in {c, Old} :
           /\ \A k \in 1 .. j : printed[c][k][1] = Old
           /\ Len(printed[c]) - j <= Len(FileOf(x))
           /\ \A i \in 1 .. Len(printed[c]) - j : printed[c][j + i] = FileOf(x)[i]
  BY OutputShape
<1>2. /\ printed[c] \in Seq(Units) /\ Types /\ x \in Clients \cup {Old}
      /\ FileOf(c) \in Seq(Units)
      /\ \A k \in 1 .. Len(FileOf(x)) : FileOf(x)[k][1] = x
  BY FlowType, FileType DEF IInv
<1>3. PICK n : n = Len(printed[c]) /\ n \in Nat /\ j \in 0 .. n
  BY <1>2, LenProperties
<1>4. PICK f : f = Len(FileOf(x)) /\ f \in Nat /\ n - j <= f /\ Len(FileOf(c)) \in Nat
  BY <1>1, <1>2, <1>3, FileType
<1>5. /\ Misled(c) => Kept \/ Befell("missed") # {}
      /\ \A k \in 1 .. n : printed[c][k][1] = Old => Misled(c)
  <2>1. Missed => Befell("missed") # {}
    BY DEF Befell, Missed
  <2> QED  BY <1>3, <2>1 DEF IInv, Outputs
<1>6. \E old \in 0 .. n : /\ \A k \in 1 .. old : printed[c][k][1] = Old
                          /\ n - old <= Len(FileOf(c))
                          /\ \A i \in 1 .. n - old : printed[c][old + i] = FileOf(c)[i]
  <2>1. CASE x = c
    BY <1>1, <1>3, <2>1
  <2>2. CASE x = Old
    <3>1. ASSUME NEW k \in 1 .. n PROVE printed[c][k][1] = Old
      <4>1. CASE k <= j
        <5>1. k \in 1 .. j
          BY <1>3, <4>1
        <5> QED  BY <1>1, <5>1
      <4>2. CASE ~(k <= j)
        <5>1. PICK i : i = k - j /\ i \in 1 .. n - j /\ j + i = k /\ i \in 1 .. f
          BY <1>3, <1>4, <4>2
        <5>2. printed[c][j + i] = FileOf(x)[i] /\ FileOf(x)[i][1] = Old
          BY <1>1, <1>2, <1>3, <1>4, <2>2, <5>1
        <5> QED  BY <5>1, <5>2
      <4> QED  BY <4>1, <4>2
    <3>2. n \in 0 .. n /\ n - n <= Len(FileOf(c)) /\ \A i \in 1 .. n - n : FALSE
      BY <1>3, <1>4
    <3> QED  BY <3>1, <3>2
  <2> QED  BY <2>1, <2>2
<1>7. PICK old \in 0 .. n : /\ \A k \in 1 .. old : printed[c][k][1] = Old
                            /\ n - old <= Len(FileOf(c))
                            /\ \A i \in 1 .. n - old : printed[c][old + i] = FileOf(c)[i]
  BY <1>6
<1>8. IsPrefix(SubSeq(printed[c], old + 1, n), FileOf(c))
  <2> DEFINE p == printed[c]
             u == FileOf(c)
  <2>1. p \in Seq(Units) /\ u \in Seq(Units) /\ n = Len(p) /\ n - old <= Len(u) /\ \A i \in 1 .. n - old : p[old + i] = u[i]
    BY <1>2, <1>3, <1>7
  <2> HIDE DEF p, u
  <2>2. IsPrefix(SubSeq(p, old + 1, Len(p)), u)
    BY <1>3, <2>1, RestPrefix
  <2> QED  BY <2>1, <2>2 DEF p, u
<1>9. \A k \in 1 .. old : k \in 1 .. n
  BY <1>3
<1>10. \A k \in 1 .. old : printed[c][k][1] = Old /\ Misled(c)
  BY <1>5, <1>7, <1>9
<1> QED  BY <1>3, <1>5, <1>8, <1>10

\* In every mode, for any clients, files, capacity and number of restarts, every
\* variable keeps its type and no process leaves its program.
THEOREM FileTypes == Spec => []TypeOK
<1>1. IInv => TypeOK
  <2> SUFFICES ASSUME IInv PROVE TypeOK
    OBVIOUS
  <2>0. Types /\ Channels /\ Programs /\ mode \in Modes
    BY DEF IInv, Types
  <2>1. \A ch \in Chans : Len(data[ch]) =< Capacity /\ ends[ch] \in [r : SUBSET Procs, w : SUBSET Procs]
    <3>1. \A ch \in Chans : ends[ch] \in [{"r", "w"} -> SUBSET Procs]
      BY <2>0 DEF Types
    <3>2. \A S : \A s \in [{"r", "w"} -> S] : s \in [r : S, w : S]
      OBVIOUS
    <3> QED  BY <2>0, <3>1, <3>2 DEF Channels
  <2>2. ASSUME NEW p \in Procs
        PROVE  \E k \in 0 .. Len(Program(p)) :
                 todo[p] \in {SubSeq(Program(p), k + 1, Len(Program(p))), <<"exit">>}
    <3>1. todo[p] \in Tails(Program(p)) \cup {<<"exit">>}
      BY <2>0 DEF Programs
    <3>2. Program(p) \in Seq(Operations)
      BY <2>0, ServerProgram, ClientProgram DEF Procs
    <3>3. 0 \in 0 .. Len(Program(p))
      <4>1. Len(Program(p)) \in Nat
        BY <3>2, LenProperties
      <4> QED  BY <4>1
    <3> QED  BY <3>1, <3>3 DEF Tails
  <2>3. \A c \in Clients : ToSet(printed[c]) \subseteq (Clients \cup {Old}) \X Nat
    <3>1. \A c \in Clients : printed[c] \in Seq(Units)
      BY <2>0 DEF Types
    <3>2. ASSUME NEW c \in Clients PROVE ToSet(printed[c]) \subseteq Units
      BY <3>1, ElementOfSeq DEF ToSet
    <3> QED  BY <3>2 DEF Units
  <2> QED  BY <2>0, <2>1, <2>2, <2>3 DEF Types, TypeOK
<1> QED  BY <1>1, FilesInvariant, PTL

\* The iterative server never meets the end of its well-known FIFO: it ends only
\* when it is killed, or dies of a client that closed its FIFO.
THEOREM ServerForever == Spec => []ServerStays
<1>1. IInv => ServerStays
  <2> SUFFICES ASSUME IInv, mode = "multi", todo[Server] \in {<<>>, <<"exit">>}
               PROVE  Server \in Befell("killed") \cup Befell("died")
    BY DEF ServerStays
  <2>1. ~Live(Server)
    BY DEF Live, Rest, ToSet
  <2>2. Hurt(Server)
    BY <2>1 DEF IInv, Multi
  <2> QED  BY <2>2, ChansFacts DEF Hurt, Befell
<1> QED  BY <1>1, FilesInvariant, PTL

\* In every mode, whatever is left in the queues: a client prints the beginning of
\* its own file, or first what an earlier run left; and the whole of its file when
\* it has read to the end, nothing befell it or the server, and it has taken nothing
\* of an earlier run.
THEOREM AnswersOwn == Spec => []OwnAnswer
<1>1. IInv => OwnAnswer
  <2> SUFFICES ASSUME IInv, NEW c \in Clients
               PROVE  /\ Misled(c) => Kept \/ Befell("missed") # {}
                      /\ \E old \in 0 .. Len(printed[c]) :
                           /\ \A k \in 1 .. old : printed[c][k][1] = Old /\ Misled(c)
                           /\ IsPrefix(SubSeq(printed[c], old + 1, Len(printed[c])), FileOf(c))
                      /\ \/ mode # "multi" /\ c # Only
                         \/ "receive" \in ToSet(todo[c])
                         \/ c \in Befell("killed") \cup Befell("died") \cup Befell("misled")
                         \/ Befell("missed") # {}
                         \/ Server \in Befell("killed") \cup Befell("died")
                         \/ Messages /\ path[c] = NoPath
                         \/ printed[c] = FileOf(c)
    <3>0. \A x \in Clients : x \in Befell("misled") <=> Misled(x)
      BY DEF Befell, Misled, Procs
    <3> QED  BY <3>0 DEF OwnAnswer
  <2>1. Runs(c) \/ (mode # "multi" /\ c # Only)
    BY DEF Runs
  <2>2. Missed => Befell("missed") # {}
    BY DEF Missed, Befell
  <2>3. /\ Hurt(c) => c \in Befell("killed") \cup Befell("died")
        /\ Hurt(Server) => Server \in Befell("killed") \cup Befell("died")
    BY ChansFacts DEF Hurt, Befell
  <2>5. Misled(c) => c \in Befell("misled")
    BY DEF Befell, Misled, Procs
  <2>4. Fine(c) /\ "receive" \notin ToSet(todo[c]) => Misled(c) \/ printed[c] = FileOf(c)
    BY DEF IInv, Complete, Rest
  <2> QED  BY <2>1, <2>2, <2>3, <2>4, <2>5, OutputOwn DEF Fine
<1> QED  BY <1>1, FilesInvariant, PTL
==============================================================================
