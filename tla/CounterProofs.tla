----------------------------- MODULE CounterProofs -----------------------------
(***************************************************************************)
(* Proofs about the programs that count.  RecordLock, for any number of    *)
(* processes and rounds: no increment is lost as long as everybody locks,  *)
(* whoever is killed; and how many are left when some do not lock.         *)
(* ShmCounter, for any number of clients, rounds and runs of the server:   *)
(* the clients that came while no server ran lose none.                    *)
(***************************************************************************)
EXTENDS RecordLock, ShmCounter, Counting

\* Types, with what keeps the loop index in its range.
TInv == TypeOK /\ RoundsLeft

\* The inductive invariant: what is in the file is what the process in its
\* section counts on, and only the holder of the lock is in its section.
IInv == TInv /\ InSection /\ LockedExact

-----------------------------------------------------------------------------
(* Types *)

\* The initial states have their types and every process a round to do.
LEMMA InitTInv == Init => TInv
<1> SUFFICES ASSUME Init PROVE TInv
  OBVIOUS
<1> USE NLoopAssumption, NumbersAssumption DEF Init
<1>1. {start, file, base} \subseteq Int \cup {None}
  OBVIOUS
<1>2. seqno \in [Procs -> Int]
  OBVIOUS
<1> QED BY <1>1, <1>2 DEF TInv, TypeOK, RoundsLeft, Labels

\* Every step of every process keeps the types, a kill included.
LEMMA NextTInv == TInv /\ [Next]_vars => TInv'
<1> SUFFICES ASSUME TInv, [Next]_vars PROVE TInv'
  OBVIOUS
<1> USE NLoopAssumption, NumbersAssumption DEF TInv, TypeOK, RoundsLeft, Labels, fixed
<1>1. ASSUME NEW p \in Procs, Lock(p) PROVE TInv'
  BY <1>1 DEF Lock, Goto
<1>2. ASSUME NEW p \in Procs, Read(p) PROVE TInv'
  BY <1>2 DEF Read, Goto
<1>3. ASSUME NEW p \in Procs, Write(p) PROVE TInv'
  BY <1>3 DEF Write, Goto
<1>4. ASSUME NEW p \in Procs, Unlock(p) PROVE TInv'
  BY <1>4 DEF Unlock, Goto
<1>5. ASSUME NEW p \in Procs, Kill(p) PROVE TInv'
  BY <1>5 DEF Kill
<1>6. CASE UNCHANGED vars
  BY <1>6 DEF vars
<1> QED BY <1>1, <1>2, <1>3, <1>4, <1>5, <1>6 DEF Next, Step

-----------------------------------------------------------------------------
(* No increment is lost *)

\* At the start nobody is in its section and nothing has been counted.
LEMMA InitIInv == Init => IInv
<1> SUFFICES ASSUME Init PROVE IInv
  OBVIOUS
<1>1. TInv
  BY InitTInv
<1>2. InSection
  BY ProcsAssumption DEF Init, InSection
<1>3. LockedExact
  BY <1>1 DEF Init, LockedExact, TInv, TypeOK
<1> QED BY <1>1, <1>2, <1>3 DEF IInv

\* A step of one process keeps its own section and, because of the lock, that
\* of every other locking process.
LEMMA NextIInv == IInv /\ [Next]_vars => IInv'
<1> SUFFICES ASSUME IInv, [Next]_vars PROVE IInv'
  OBVIOUS
<1>0. TInv /\ TInv'
  BY NextTInv DEF IInv
<1> USE <1>0, ProcsAssumption, NumbersAssumption
    DEF IInv, TInv, TypeOK, InSection, LockedExact, Labels, fixed
<1>1. ASSUME NEW p \in Procs, Lock(p) PROVE InSection' /\ LockedExact'
  BY <1>1 DEF Lock, Goto
<1>2. ASSUME NEW p \in Procs, Read(p) PROVE InSection' /\ LockedExact'
  BY <1>2 DEF Read, Goto
<1>3. ASSUME NEW p \in Procs, Write(p) PROVE InSection' /\ LockedExact'
  <2>1. InSection'
    BY <1>3 DEF Write, Goto
  <2>2. LockedExact'
    BY <1>3 DEF Write, Goto
  <2> QED BY <2>1, <2>2
<1>4. ASSUME NEW p \in Procs, Unlock(p) PROVE InSection' /\ LockedExact'
  BY <1>4 DEF Unlock, Goto
<1>5. ASSUME NEW p \in Procs, Kill(p) PROVE InSection' /\ LockedExact'
  BY <1>5 DEF Kill
<1>6. CASE UNCHANGED vars
  BY <1>6 DEF vars
<1> QED BY <1>1, <1>2, <1>3, <1>4, <1>5, <1>6 DEF Next, Step

-----------------------------------------------------------------------------
(* Theorems *)

\* The loop index of every process stays between 0 and the number of rounds,
\* and seqno, read by sscanf or never set, is always a number.
THEOREM RecordTypeCorrect == Spec => []TypeOK
<1>1. TInv => TypeOK
  BY DEF TInv
<1> QED BY <1>1, InitTInv, NextTInv, PTL DEF Spec

\* While only 9-chapter-1.c is run, the number in the file is the number it
\* began with plus the rounds that were written: my_lock and my_unlock keep
\* the read and the write of a round together for any number of processes, and
\* a process killed in its section leaves nothing half done.
THEOREM NoLostIncrement == Spec => []LockedExact
<1>1. IInv => LockedExact
  BY DEF IInv
<1> QED BY <1>1, InitIInv, NextIInv, PTL DEF Spec

-----------------------------------------------------------------------------
(* How much may be lost without locks *)

\* No process was killed so far.
Alive == \A p \in Procs : pc[p] # "killed"

\* The process has a number to write.
Pending(p) == pc[p] \in {"lock", "read", "write"} \/ (pc[p] = "unlock" /\ i[p] + 1 < NLoop)

\* The rounds that were written: those counted, and those about to be.
RoundsWritten ==
  /\ IsFiniteSet(Rounds(Procs, i))
  /\ Alive => Cardinality(Rounds(Procs, i)) + Number(Procs, pc, {"unlock"}) = written
  /\ \A p \in Procs : /\ i[p] > 0 \/ pc[p] = "unlock" => written > 0
                      /\ pc[p] = "exit" => i[p] = NLoop

\* What is in the file, or will be: at most one more than was written to it,
\* and in a second round at least two.
Bounds ==
  start # None =>
    /\ file # None
    /\ start =< file /\ file =< start + written
    /\ written > 0 => start + 1 =< file
    /\ \A p \in Procs : pc[p] = "write" =>
         /\ start + 1 =< seqno[p] /\ seqno[p] =< start + written + 1
         /\ i[p] > 0 => start + 2 =< seqno[p]
         /\ Procs = {p} => seqno[p] = file + 1
    /\ (\E p \in Procs : Procs = {p}) => file = start + written

\* As long as the file holds less than two increments, somebody has a number
\* to write: the last one written is of the last round of its process.
LastRound ==
  start # None /\ NLoop > 1 /\ Alive /\ Procs # {} =>
    start + 2 =< file \/ \E p \in Procs : Pending(p)

RangeInv == RoundsWritten /\ Bounds /\ LastRound

\* A round that ends is one more of those counted.
LEMMA EndRound ==
  ASSUME TInv, NEW p \in Procs, i' = [i EXCEPT ![p] = i[p] + 1], IsFiniteSet(Rounds(Procs, i))
  PROVE  /\ IsFiniteSet(Rounds(Procs, i'))
         /\ Cardinality(Rounds(Procs, i')) = Cardinality(Rounds(Procs, i)) + 1
<1>1. EndsRound(Procs, i, i', p)
  BY DEF EndsRound, TInv, TypeOK
<1> QED BY <1>1, RoundsStep

\* The rounds written stay those counted or about to be.
LEMMA RoundsKept ==
  ASSUME TInv, RoundsWritten, [Next]_vars
  PROVE  RoundsWritten'
<1> USE NLoopAssumption, ProcsAssumption DEF RoundsWritten
<1>0. /\ pc \in [Procs -> Labels] /\ i \in [Procs -> 0 .. NLoop] /\ written \in Nat
      /\ IsFiniteSet(Rounds(Procs, i)) /\ Cardinality(Rounds(Procs, i)) \in Nat
      /\ \A p \in Procs : pc[p] \notin {"exit", "killed"} => i[p] < NLoop
  BY FS_CardinalityType DEF TInv, TypeOK, RoundsLeft
<1>1. ASSUME NEW p \in Procs, NEW from, NEW to, Goto(p, from, to)
      PROVE  /\ Number(Procs, pc', {"unlock"})
                  = Number(Procs, pc, {"unlock"}) - Member(from, {"unlock"})
                                                  + Member(to, {"unlock"})
             /\ Number(Procs, pc, {"unlock"}) \in Nat
             /\ from # "killed" /\ to # "killed" => Alive' = Alive
  <2>1. Moves(Procs, pc, pc', p, from, to)
    BY <1>0, <1>1 DEF Moves, Goto
  <2>2. ASSUME from # "killed", to # "killed" PROVE Alive' = Alive
    BY <2>1, <2>2 DEF Alive, Moves
  <2> QED BY <2>1, <2>2, NumberMove, NumberType
<1>2. ASSUME NEW p \in Procs, Lock(p) \/ Read(p) PROVE RoundsWritten'
  BY <1>0, <1>1, <1>2 DEF Lock, Read, Goto, Member
<1>3. ASSUME NEW p \in Procs, Write(p) PROVE RoundsWritten'
  <2>1. Goto(p, "write", "unlock") /\ written' = written + 1 /\ i' = i
    BY <1>3 DEF Write
  <2>2. /\ Number(Procs, pc', {"unlock"}) = Number(Procs, pc, {"unlock"}) + 1
        /\ Number(Procs, pc, {"unlock"}) \in Nat /\ Alive' = Alive
    BY <1>1, <2>1 DEF Member
  <2> QED BY <1>0, <2>1, <2>2 DEF Goto
<1>4. ASSUME NEW p \in Procs, Unlock(p) PROVE RoundsWritten'
  <2> DEFINE to == IF i[p] + 1 < NLoop THEN "lock" ELSE "exit"
  <2>1. Goto(p, "unlock", to) /\ i' = [i EXCEPT ![p] = i[p] + 1] /\ written' = written
    BY <1>4 DEF Unlock
  <2>2. to \in {"lock", "exit"} /\ (to = "exit" => i[p] + 1 = NLoop)
    BY <1>0, <2>1 DEF Goto
  <2> HIDE DEF to
  <2>3. /\ Number(Procs, pc', {"unlock"}) = Number(Procs, pc, {"unlock"}) - 1
        /\ Number(Procs, pc, {"unlock"}) \in Nat /\ Alive' = Alive
    BY <1>1, <2>1, <2>2 DEF Member
  <2>4. /\ IsFiniteSet(Rounds(Procs, i'))
        /\ Cardinality(Rounds(Procs, i')) = Cardinality(Rounds(Procs, i)) + 1
    BY <1>0, <2>1, EndRound
  <2>5. \A q \in Procs : /\ i'[q] > 0 \/ pc'[q] = "unlock" => written' > 0
                         /\ pc'[q] = "exit" => i'[q] = NLoop
    BY <1>0, <2>1, <2>2 DEF Goto
  <2> QED BY <1>0, <2>1, <2>3, <2>4, <2>5
<1>5. ASSUME NEW p \in Procs, Kill(p) PROVE RoundsWritten'
  <2>1. ~Alive' /\ UNCHANGED <<i, written>>
    BY <1>0, <1>5 DEF Kill, Alive
  <2> QED BY <1>0, <1>5, <2>1 DEF Kill
<1>6. CASE UNCHANGED vars
  BY <1>6 DEF vars, Alive
<1> QED BY <1>2, <1>3, <1>4, <1>5, <1>6 DEF Next, Step

\* No step takes the file, or what is written to it, beyond the bounds.
LEMMA BoundsKept ==
  ASSUME TInv, RoundsWritten, Bounds, [Next]_vars
  PROVE  Bounds'
<1> USE NLoopAssumption, NumbersAssumption DEF Bounds, fixed
<1>0. /\ pc \in [Procs -> Labels] /\ i \in [Procs -> 0 .. NLoop] /\ written \in Nat
      /\ seqno \in [Procs -> Int] /\ {start, file} \subseteq Int \cup {None}
  BY DEF TInv, TypeOK
<1>1. ASSUME NEW p \in Procs, Lock(p) PROVE Bounds'
  BY <1>0, <1>1 DEF Lock, Goto
<1>2. ASSUME NEW p \in Procs, Read(p) PROVE Bounds'
  <2>1. i[p] > 0 => written > 0
    BY DEF RoundsWritten
  <2> QED BY <1>0, <1>2, <2>1 DEF Read, Goto
<1>3. ASSUME NEW p \in Procs, Write(p) PROVE Bounds'
  BY <1>0, <1>3 DEF Write, Goto
<1>4. ASSUME NEW p \in Procs, Unlock(p) PROVE Bounds'
  BY <1>0, <1>4 DEF Unlock, Goto
<1>5. ASSUME NEW p \in Procs, Kill(p) PROVE Bounds'
  BY <1>0, <1>5 DEF Kill
<1>6. CASE UNCHANGED vars
  BY <1>6 DEF vars
<1> QED BY <1>1, <1>2, <1>3, <1>4, <1>5, <1>6 DEF Next, Step

\* A process that writes in its first round has another one to do, and what
\* any process writes in a later round is at least two more.
LEMMA LastRoundKept ==
  ASSUME TInv, Bounds, LastRound, [Next]_vars
  PROVE  LastRound'
<1> USE NLoopAssumption, NumbersAssumption DEF LastRound, fixed
<1> SUFFICES ASSUME start' # None, NLoop > 1, Alive', Procs # {}
             PROVE  start' + 2 =< file' \/ \E p \in Procs : Pending(p)'
  OBVIOUS
<1>0. /\ pc \in [Procs -> Labels] /\ i \in [Procs -> 0 .. NLoop] /\ written \in Nat
      /\ seqno \in [Procs -> Int] /\ {start, file} \subseteq Int \cup {None}
      /\ start # None /\ start' = start /\ Bounds
      /\ \A p \in Procs : pc[p] \notin {"exit", "killed"} => i[p] < NLoop
  BY DEF TInv, TypeOK, RoundsLeft, Next, Step, Lock, Read, Write, Unlock, Kill, vars
<1>1. Alive
  <2>1. \A p \in Procs : pc[p] = "killed" => pc'[p] = "killed"
    BY <1>0 DEF Next, Step, Lock, Read, Write, Unlock, Kill, Goto, vars
  <2> QED BY <2>1 DEF Alive
<1>2. ASSUME NEW p \in Procs, Lock(p) \/ Read(p) PROVE LastRound'
  BY <1>0, <1>1, <1>2 DEF Lock, Read, Goto, Pending
<1>3. ASSUME NEW p \in Procs, Write(p) PROVE LastRound'
  <2>1. CASE i[p] > 0
    <3>1. start + 2 =< seqno[p] /\ file' = seqno[p]
      BY <1>0, <1>3, <2>1 DEF Bounds, Write, Goto
    <3> QED BY <1>0, <3>1
  <2>2. CASE i[p] = 0
    <3>1. Pending(p)'
      BY <1>0, <1>3, <2>2 DEF Write, Goto, Pending
    <3> QED BY <3>1
  <2> QED BY <1>0, <2>1, <2>2
<1>4. ASSUME NEW p \in Procs, Unlock(p) PROVE LastRound'
  BY <1>0, <1>1, <1>4 DEF Unlock, Goto, Pending
<1>5. ASSUME NEW p \in Procs, Kill(p) PROVE FALSE
  BY <1>0, <1>5 DEF Kill, Alive
<1>6. CASE UNCHANGED vars
  BY <1>0, <1>1, <1>6 DEF vars, Pending
<1> QED BY <1>2, <1>3, <1>4, <1>5, <1>6 DEF Next, Step

\* At the start nothing was written and everybody has a number to write.
LEMMA InitRange == Init => RangeInv
<1> SUFFICES ASSUME Init PROVE RangeInv
  OBVIOUS
<1>0. /\ pc = [p \in Procs |-> "lock"] /\ i = [p \in Procs |-> 0]
      /\ written = 0 /\ file = start /\ start \in Int \cup {None}
  BY NumbersAssumption DEF Init
<1>1. RoundsWritten
  <2>1. Number(Procs, pc, {"unlock"}) = 0
    <3>1. ~ \E p \in Procs : pc[p] \in {"unlock"}
      BY <1>0
    <3> QED BY <3>1, NumberPositive, NumberType, ProcsAssumption
  <2> QED BY <1>0, <2>1, RoundsInit DEF RoundsWritten
<1>2. Bounds
  BY <1>0 DEF Bounds
<1>3. LastRound
  BY <1>0 DEF LastRound, Pending
<1> QED BY <1>1, <1>2, <1>3 DEF RangeInv

\* When all processes have ended, all rounds of all of them were written.
LEMMA AllWritten ==
  ASSUME TInv, RoundsWritten, \A p \in Procs : pc[p] = "exit"
  PROVE  written = NLoop * Cardinality(Procs)
<1> USE NLoopAssumption, ProcsAssumption
<1>0. i \in [Procs -> 0 .. NLoop] /\ written \in Nat
  BY DEF TInv, TypeOK
<1>1. \A p \in Procs : i[p] = NLoop
  BY DEF RoundsWritten
<1>2. Rounds(Procs, i) = Procs \X (0 .. NLoop - 1)
  BY <1>1, RoundsMembers
<1>3. IsFiniteSet(0 .. NLoop - 1) /\ Cardinality(0 .. NLoop - 1) = NLoop
  BY FS_Interval
<1>4. Cardinality(Rounds(Procs, i)) = Cardinality(Procs) * NLoop
  BY <1>2, <1>3, FS_Product
<1>5. Number(Procs, pc, {"unlock"}) = 0
  <2>1. ~ \E p \in Procs : pc[p] \in {"unlock"}
    OBVIOUS
  <2> QED BY <2>1, NumberPositive, NumberType
<1>6. Cardinality(Procs) \in Nat
  BY FS_CardinalityType
<1>7. written = Cardinality(Procs) * NLoop + 0
  BY <1>4, <1>5 DEF RoundsWritten, Alive
<1> QED BY <1>6, <1>7

\* Locks are advisory: whichever of the processes lock, no increment is counted
\* twice, and of all the rounds of all the processes at least two are left,
\* however many are lost to a process that read before another one wrote.
THEOREM TwoIncrementsLeft == Spec => []FinalRange
<1>1. Init => TInv /\ RangeInv
  BY InitTInv, InitRange
<1>2. TInv /\ RangeInv /\ [Next]_vars => (TInv /\ RangeInv)'
  BY NextTInv, RoundsKept, BoundsKept, LastRoundKept DEF RangeInv
<1>3. TInv /\ RangeInv => FinalRange
  <2> SUFFICES ASSUME TInv, RangeInv, \A p \in Procs : pc[p] = "exit", Procs # {}, start # None
               PROVE  FinalRange
    BY DEF FinalRange
  <2> DEFINE all == NLoop * Cardinality(Procs)
             few == IF Cardinality(Procs) = 1 \/ NLoop = 1 THEN NLoop ELSE 2
  <2>1. start \in Int /\ file \in Int /\ NLoop \in Nat \ {0} /\ written \in Nat
    BY NumbersAssumption, NLoopAssumption DEF TInv, TypeOK, RangeInv, Bounds
  <2>2. written = all /\ written > 0
    BY <2>1, AllWritten DEF RangeInv, RoundsWritten
  <2>3. start + few =< file
    <3>1. CASE Cardinality(Procs) = 1
      <4>1. \E p \in Procs : Procs = {p}
        BY <3>1, FS_Singleton, ProcsAssumption
      <4>2. file = start + written /\ few = NLoop /\ all = NLoop
        BY <2>1, <3>1, <4>1 DEF RangeInv, Bounds
      <4> QED BY <2>1, <2>2, <4>2
    <3>2. CASE Cardinality(Procs) # 1 /\ NLoop = 1
      BY <2>1, <2>2, <3>2 DEF RangeInv, Bounds
    <3>3. CASE Cardinality(Procs) # 1 /\ NLoop # 1
      <4>1. \A p \in Procs : ~Pending(p)
        BY DEF Pending
      <4>2. Alive
        BY DEF Alive
      <4> QED BY <2>1, <3>3, <4>1, <4>2 DEF RangeInv, LastRound
    <3> QED BY <3>1, <3>2, <3>3
  <2>4. file =< start + all
    BY <2>1, <2>2 DEF RangeInv, Bounds
  <2> QED BY <2>3, <2>4 DEF FinalRange
<1> QED BY <1>1, <1>2, <1>3, PTL DEF Spec

-----------------------------------------------------------------------------
(***************************************************************************)
(* The counter in shared memory, for any number of clients, of rounds and  *)
(* of runs of server_1.  Its programs share nothing with the record locks. *)
(***************************************************************************)

\* No server runs; a client with the semaphore; a client before its two names.
Idle    == \A s \in Servers : spc[s] \in {"start", "exit"}
Section == {"read", "write", "post"}
Begun   == {"start", "open_sem"}

\* How far a process has come says what it has.
Stages ==
  /\ \A c \in Clients :
       /\ cpc[c] = "start" => ptr[c] = NoObject
       /\ cpc[c] \in Begun => mutex[c] = NoObject /\ round[c] = 0
       /\ cpc[c] \in Section \cup {"wait"} => round[c] < ShmLoop
       /\ cpc[c] \in {"write", "post"} => ptr[c] # NoObject
  /\ \A s \in Servers :
       /\ shmname = s \/ (\E c \in Clients : ptr[c] = s)
            => spc[s] \notin {"start", "unlinked_shm"}
       /\ semname = s \/ (\E c \in Clients : mutex[c] = s) => spc[s] = "exit"
  /\ (\E s \in Servers : spc[s] = "exit") =>
       semname # NoObject \/ \E s \in Servers : spc[s] = "unlinked_sem"

\* A semaphore lets one client in.
Exclusion ==
  \A c \in Clients : cpc[c] \in Section /\ mutex[c] # NoObject =>
    /\ value[mutex[c]] = 0
    /\ \A d \in Clients : cpc[d] \in Section /\ mutex[d] = mutex[c] => d = c

\* A client that opened the names while no server ran: until another run removes
\* the name of its memory, both names stand for what it has.
Current ==
  \A c \in Clients : quiet[c] /\ ptr[c] # NoObject =>
    /\ cpc[c] = "open_sem" => ptr[c] = shmname
    /\ ptr[c] = shmname => Idle /\ (cpc[c] \notin Begun => mutex[c] = semname)

\* Such clients of one counter have one semaphore.
Pairs ==
  \A c \in Clients : quiet[c] /\ ptr[c] # NoObject /\ cpc[c] \notin Begun =>
    /\ mutex[c] # NoObject
    /\ \A d \in Clients : quiet[d] /\ ptr[d] = ptr[c] /\ cpc[d] \notin Begun => mutex[d] = mutex[c]

\* A counter with only such clients is exact, also in the middle of a round.
Quiet(s) == \A c \in Clients : ptr[c] = s => quiet[c]
Exact ==
  \A s \in Servers : Quiet(s) =>
    /\ count[s] = done[s]
    /\ \A c \in Clients : ptr[c] = s /\ cpc[c] = "write" => reg[c] = count[s]

\* The inductive invariant.
ShmInv == CounterTypeOK /\ Stages /\ Exclusion /\ Current /\ Pairs /\ Exact

-----------------------------------------------------------------------------
(* Steps of server_1 *)

\* They touch nothing of the clients, but those opening the names are disturbed.
LEMMA ServerCases ==
  ASSUME NEW s \in Servers, Server(s)
  PROVE  /\ count' = count /\ cpc' = cpc /\ ptr' = ptr /\ mutex' = mutex /\ round' = round
         /\ reg' = reg /\ done' = done
         /\ quiet' = [c \in Clients |-> quiet[c] /\ cpc[c] # "open_sem"]
BY DEF Server, UnlinkShm, MakeShm, UnlinkSem, MakeSem, names,
   objects, client

\* They keep the types.
LEMMA ServerTypes ==
  ASSUME CounterTypeOK, NEW s \in Servers, Server(s)
  PROVE  CounterTypeOK'
<1>1. quiet' \in [Clients -> BOOLEAN]
  BY ServerCases DEF CounterTypeOK
<1>2. {shmname, semname}' \subseteq Servers \cup {NoObject}
  BY DEF CounterTypeOK, Server, UnlinkShm, MakeShm, UnlinkSem,
     MakeSem, objects
<1>3. value' \in [Servers -> 0 .. 1]
  BY DEF CounterTypeOK, Server, UnlinkShm, MakeShm, UnlinkSem,
     MakeSem, objects
<1>4. spc' \in [Servers -> SLabels]
  BY DEF CounterTypeOK, Server, UnlinkShm, MakeShm, UnlinkSem,
     MakeSem, SGoto, SLabels
<1> QED BY <1>1, <1>2, <1>3, <1>4, ServerCases DEF CounterTypeOK

\* A run makes each of its objects once: no client has them before.
LEMMA ServerStages ==
  ASSUME CounterTypeOK, Stages, NEW s \in Servers, Server(s)
  PROVE  Stages'
<1>1. \A c \in Clients :
       (/\ cpc[c] = "start" => ptr[c] = NoObject
        /\ cpc[c] \in Begun => mutex[c] = NoObject /\ round[c] = 0
        /\ cpc[c] \in Section \cup {"wait"} => round[c] < ShmLoop
        /\ cpc[c] \in {"write", "post"} => ptr[c] # NoObject)'
  BY ServerCases DEF Stages
<1>2. ASSUME NEW t \in Servers
      PROVE  /\ shmname' = t \/ (\E c \in Clients : ptr'[c] = t)
                  => spc'[t] \notin {"start", "unlinked_shm"}
             /\ semname' = t \/ (\E c \in Clients : mutex'[c] = t) => spc'[t] = "exit"
  <2>1. CASE UnlinkShm(s)
    BY <2>1, ServerCases, RunsAssumption DEF UnlinkShm, SGoto, objects, Stages,
       CounterTypeOK
  <2>2. CASE MakeShm(s)
    BY <2>2, ServerCases, RunsAssumption DEF MakeShm, SGoto, objects, Stages, CounterTypeOK
  <2>3. CASE UnlinkSem(s)
    BY <2>3, ServerCases, RunsAssumption DEF UnlinkSem, SGoto, objects, Stages,
       CounterTypeOK
  <2>4. CASE MakeSem(s)
    BY <2>4, ServerCases, RunsAssumption DEF MakeSem, SGoto, objects, Stages, CounterTypeOK
  <2> QED BY <2>1, <2>2, <2>3, <2>4 DEF Server
<1>3. ASSUME NEW t \in Servers, spc'[t] = "exit"
      PROVE  semname' # NoObject \/ \E u \in Servers : spc'[u] = "unlinked_sem"
  <2>1. CASE UnlinkShm(s)
    BY <1>3, <2>1, RunsAssumption DEF UnlinkShm, SGoto, objects, Stages, CounterTypeOK
  <2>2. CASE MakeShm(s)
    BY <1>3, <2>2, RunsAssumption DEF MakeShm, SGoto, objects, Stages, CounterTypeOK
  <2>3. CASE UnlinkSem(s)
    BY <1>3, <2>3, RunsAssumption DEF UnlinkSem, SGoto, objects, Stages, CounterTypeOK
  <2>4. CASE MakeSem(s)
    BY <1>3, <2>4, RunsAssumption DEF MakeSem, SGoto, objects, Stages, CounterTypeOK
  <2> QED BY <2>1, <2>2, <2>3, <2>4 DEF Server
<1> QED BY <1>1, <1>2, <1>3 DEF Stages

\* A semaphore that is made has no client yet.
LEMMA ServerExclusion ==
  ASSUME CounterTypeOK, Stages, Exclusion, NEW s \in Servers, Server(s)
  PROVE  Exclusion'
<1>1. \A t \in Servers : value'[t] = value[t] \/ (t = s /\ spc[s] = "unlinked_sem")
  BY DEF Server, UnlinkShm, MakeShm, UnlinkSem, MakeSem,
     objects, SGoto, CounterTypeOK
<1>2. \A c \in Clients : mutex[c] # NoObject => mutex[c] # s \/ spc[s] = "exit"
  BY DEF Stages
<1>3. \A c \in Clients : mutex[c] # NoObject => value'[mutex[c]] = value[mutex[c]]
  BY <1>1, <1>2 DEF CounterTypeOK
<1> QED BY <1>3, ServerCases DEF Exclusion

\* The first step of a run that follows an idle moment removes the name of the
\* memory: nobody opens the old counter after that.
LEMMA ServerCurrent ==
  ASSUME CounterTypeOK, Stages, Current, NEW s \in Servers, Server(s)
  PROVE  Current'
<1> SUFFICES ASSUME NEW c \in Clients, quiet'[c], ptr[c] # NoObject, cpc[c] # "open_sem", quiet[c]
             PROVE  ptr[c] = shmname' => Idle' /\ (cpc[c] \notin Begun => mutex[c] = semname')
  BY ServerCases DEF Current
<1> SUFFICES ASSUME ptr[c] = shmname'
             PROVE  FALSE
  OBVIOUS
<1>1. ptr[c] \in Servers
  BY DEF CounterTypeOK
<1>2. spc[ptr[c]] \notin {"start", "unlinked_shm"}
  BY <1>1 DEF Stages
<1>3. shmname' = shmname /\ spc[s] \notin {"start", "exit"}
  BY <1>1, <1>2, RunsAssumption DEF Server, UnlinkShm, MakeShm, UnlinkSem,
     MakeSem, SGoto, objects
<1> QED BY <1>3 DEF Current, Idle

\* Counters and clients are left alone.
LEMMA ServerKeeps ==
  ASSUME CounterTypeOK, Stages, Pairs, Exact, NEW s \in Servers, Server(s)
  PROVE  Pairs' /\ Exact'
<1>1. \A c \in Clients : quiet'[c] => quiet[c]
  BY ServerCases
<1>2. Pairs'
  BY <1>1, ServerCases DEF Pairs
<1>3. \A t \in Servers : Quiet(t)' => Quiet(t)
  BY <1>1, ServerCases DEF Quiet
<1> QED BY <1>2, <1>3, ServerCases DEF Exact

-----------------------------------------------------------------------------
(* Steps of client_1 *)

\* The two halves of Open.
OpenShm(c) == /\ cpc[c] = "start" /\ cpc' = [cpc EXCEPT ![c] = "open_sem"]
              /\ ptr' = [ptr EXCEPT ![c] = shmname]
              /\ quiet' = [quiet EXCEPT ![c] = Idle]
              /\ UNCHANGED <<mutex, names, objects, spc, round, reg, done>>
OpenSem(c) == /\ cpc[c] = "open_sem"
              /\ cpc' = [cpc EXCEPT ![c] = IF 0 < ShmLoop THEN "wait" ELSE "exit"]
              /\ mutex' = [mutex EXCEPT ![c] = semname]
              /\ UNCHANGED <<ptr, quiet, names, objects, spc, round, reg, done>>

\* Open is one of the two.
LEMMA OpenCases ==
  ASSUME NEW c \in Clients, Open(c)
  PROVE  OpenShm(c) \/ OpenSem(c)
BY DEF Open, OpenShm, OpenSem, CGoto, Idle

\* A client that comes while no server runs finds the pair of names.
LEMMA OpenShmInv ==
  ASSUME ShmInv, NEW c \in Clients, OpenShm(c)
  PROVE  ShmInv'
<1> USE DEF ShmInv
<1>1. CounterTypeOK'
  BY DEF OpenShm, CounterTypeOK, CLabels, Idle, names, objects
<1>2. /\ cpc[c] = "start" /\ cpc'[c] = "open_sem" /\ ptr'[c] = shmname /\ quiet'[c] = Idle
      /\ \A d \in Clients : d # c => cpc'[d] = cpc[d] /\ ptr'[d] = ptr[d] /\ quiet'[d] = quiet[d]
      /\ mutex' = mutex /\ shmname' = shmname /\ semname' = semname /\ count' = count
      /\ value' = value /\ spc' = spc /\ round' = round /\ reg' = reg /\ done' = done
      /\ ptr[c] = NoObject /\ mutex[c] = NoObject /\ round[c] = 0
  BY DEF OpenShm, CounterTypeOK, names, objects, Stages, Begun
<1> HIDE DEF ShmInv
<1>3. CounterTypeOK /\ Stages /\ Exclusion /\ Current /\ Pairs /\ Exact
  BY DEF ShmInv
<1>4. Stages'
  BY <1>2, <1>3 DEF Stages, Begun, Section
<1>5. Exclusion'
  BY <1>2, <1>3 DEF Exclusion, Section
<1>6. Current'
  BY <1>2, <1>3 DEF Current, Begun, Idle
<1>7. Pairs'
  BY <1>2, <1>3 DEF Pairs, Begun
<1>8. Exact'
  <2>1. ASSUME NEW s \in Servers, Quiet(s)' PROVE Quiet(s)
    BY <1>2, <2>1, RunsAssumption DEF Quiet
  <2> QED BY <1>2, <1>3, <2>1 DEF Exact
<1> QED BY <1>1, <1>4, <1>5, <1>6, <1>7, <1>8 DEF ShmInv

\* A client that nobody disturbed gets the semaphore that belongs to its counter.
LEMMA OpenSemInv ==
  ASSUME ShmInv, NEW c \in Clients, OpenSem(c)
  PROVE  ShmInv'
<1>0. CounterTypeOK /\ Stages /\ Exclusion /\ Current /\ Pairs /\ Exact
  BY DEF ShmInv
<1>1. CounterTypeOK'
  BY <1>0 DEF OpenSem, CounterTypeOK, CLabels, names, objects
<1>2. /\ cpc[c] = "open_sem" /\ cpc'[c] \in {"wait", "exit"} /\ (cpc'[c] = "wait" => 0 < ShmLoop)
      /\ mutex'[c] = semname
      /\ \A d \in Clients : d # c => cpc'[d] = cpc[d] /\ mutex'[d] = mutex[d]
      /\ ptr' = ptr /\ quiet' = quiet /\ shmname' = shmname /\ semname' = semname
      /\ count' = count /\ value' = value /\ spc' = spc /\ round' = round /\ reg' = reg /\ done' = done
  BY <1>0 DEF OpenSem, CounterTypeOK, names, objects
<1>3. semname = NoObject \/ spc[semname] = "exit"
  BY <1>0 DEF Stages, CounterTypeOK
<1>4. round[c] = 0
  BY <1>0, <1>2 DEF Stages, Begun
<1>5. Stages'
  BY <1>0, <1>2, <1>3, <1>4 DEF Stages, Begun, Section, CounterTypeOK
<1>6. Exclusion'
  BY <1>0, <1>2 DEF Exclusion, Section
<1>7. Current'
  BY <1>0, <1>2 DEF Current, Begun, Idle
<1>8. ASSUME quiet[c], ptr[c] # NoObject
      PROVE  /\ semname # NoObject
             /\ \A d \in Clients : quiet[d] /\ ptr[d] = ptr[c] /\ cpc[d] \notin Begun
                                     => mutex[d] = semname
  <2>1. ptr[c] = shmname /\ Idle /\ ptr[c] \in Servers
    BY <1>0, <1>2, <1>8 DEF Current, CounterTypeOK
  <2>2. spc[ptr[c]] = "exit"
    BY <1>0, <2>1 DEF Stages, Idle
  <2>3. semname # NoObject
    BY <1>0, <2>1, <2>2 DEF Stages, Idle
  <2> QED BY <1>0, <1>8, <2>1, <2>3 DEF Current
<1>9. Pairs'
  BY <1>0, <1>2, <1>8 DEF Pairs, Begun
<1>10. Exact'
  BY <1>0, <1>2 DEF Exact, Quiet
<1> QED BY <1>1, <1>5, <1>6, <1>7, <1>9, <1>10 DEF ShmInv

\* sem_wait lets one client in.
LEMMA WaitInv ==
  ASSUME ShmInv, NEW c \in Clients, Wait(c)
  PROVE  ShmInv'
<1>0. CounterTypeOK /\ Stages /\ Exclusion /\ Current /\ Pairs /\ Exact
  BY DEF ShmInv
<1>1. CounterTypeOK'
  BY <1>0 DEF Wait, CGoto, CounterTypeOK, CLabels, names
<1>2. /\ cpc[c] = "wait" /\ cpc'[c] = "read"
      /\ \A d \in Clients : d # c => cpc'[d] = cpc[d]
      /\ \A s \in Servers : s # mutex[c] => value'[s] = value[s]
      /\ mutex[c] # NoObject => value[mutex[c]] = 1 /\ value'[mutex[c]] = 0
      /\ ptr' = ptr /\ quiet' = quiet /\ shmname' = shmname /\ semname' = semname
      /\ count' = count /\ mutex' = mutex /\ spc' = spc /\ round' = round /\ reg' = reg /\ done' = done
  BY <1>0 DEF Wait, CGoto, CounterTypeOK, names
<1>3. Stages'
  BY <1>0, <1>2 DEF Stages, Begun, Section
<1>4. Exclusion'
  BY <1>0, <1>2 DEF Exclusion, Section, CounterTypeOK
<1>5. Current'
  BY <1>0, <1>2 DEF Current, Begun, Idle
<1>6. Pairs'
  BY <1>0, <1>2 DEF Pairs, Begun
<1>7. Exact'
  BY <1>0, <1>2 DEF Exact, Quiet
<1> QED BY <1>1, <1>3, <1>4, <1>5, <1>6, <1>7 DEF ShmInv

\* The increment of an undisturbed client reads and writes with nobody else
\* between: whoever else has its counter has its semaphore.
LEMMA IncrementInv ==
  ASSUME ShmInv, NEW c \in Clients, Increment(c)
  PROVE  ShmInv'
<1>0. CounterTypeOK /\ Stages /\ Exclusion /\ Current /\ Pairs /\ Exact
  BY DEF ShmInv
<1>1. CounterTypeOK'
  BY <1>0 DEF Increment, CGoto, CounterTypeOK, CLabels, names, Stages
<1>2. /\ ptr' = ptr /\ quiet' = quiet /\ shmname' = shmname /\ semname' = semname
      /\ value' = value /\ mutex' = mutex /\ spc' = spc /\ round' = round
      /\ cpc[c] \in {"read", "write"} /\ cpc'[c] \in {"write", "post", "crashed"}
      /\ \A d \in Clients : d # c => cpc'[d] = cpc[d] /\ reg'[d] = reg[d]
      /\ cpc'[c] \in {"write", "post"} => ptr[c] # NoObject
      /\ \/ cpc'[c] # "write" /\ count' = count /\ done' = done
         \/ cpc'[c] = "write" /\ count' = count /\ done' = done /\ reg'[c] = count[ptr[c]]
         \/ /\ cpc[c] = "write" /\ cpc'[c] = "post"
            /\ \A s \in Servers : s # ptr[c] => count'[s] = count[s] /\ done'[s] = done[s]
            /\ count'[ptr[c]] = reg[c] + 1 /\ done'[ptr[c]] = done[ptr[c]] + 1
  BY <1>0 DEF Increment, CGoto, CounterTypeOK, names, Stages
<1>3. Stages'
  BY <1>0, <1>2 DEF Stages, Begun, Section
<1>4. Exclusion'
  BY <1>0, <1>2 DEF Exclusion, Section
<1>5. Current'
  BY <1>0, <1>2 DEF Current, Begun, Idle
<1>6. Pairs'
  BY <1>0, <1>2 DEF Pairs, Begun
<1>7. Exact'
  <2>1. SUFFICES ASSUME NEW s \in Servers, Quiet(s)
                 PROVE  /\ count'[s] = done'[s]
                        /\ \A d \in Clients : ptr[d] = s /\ cpc'[d] = "write" => reg'[d] = count'[s]
    BY <1>2 DEF Exact, Quiet
  <2>2. /\ count[s] = done[s]
        /\ \A d \in Clients : ptr[d] = s /\ cpc[d] = "write" => reg[d] = count[s]
    BY <1>0, <2>1 DEF Exact
  <2>3. CASE count' = count /\ done' = done
    BY <1>2, <2>2, <2>3
  <2>4. CASE /\ cpc[c] = "write" /\ cpc'[c] = "post"
             /\ \A t \in Servers : t # ptr[c] => count'[t] = count[t] /\ done'[t] = done[t]
             /\ count'[ptr[c]] = reg[c] + 1 /\ done'[ptr[c]] = done[ptr[c]] + 1
    <3>1. CASE ptr[c] # s
      BY <1>2, <2>2, <2>4, <3>1
    <3>2. CASE ptr[c] = s
      <4>1. count'[s] = done'[s]
        BY <2>2, <2>4, <3>2
      <4>2. ASSUME NEW d \in Clients, ptr[d] = s, cpc[d] = "write" PROVE d = c
        <5>1. s # NoObject /\ quiet[c] /\ quiet[d]
          BY <2>1, <3>2, <4>2, RunsAssumption DEF Quiet
        <5>2. mutex[c] # NoObject /\ mutex[d] = mutex[c]
          BY <1>0, <2>4, <3>2, <4>2, <5>1 DEF Pairs, Begun
        <5> QED BY <1>0, <2>4, <4>2, <5>2 DEF Exclusion, Section
      <4> QED BY <1>2, <2>4, <4>1, <4>2
    <3> QED BY <3>1, <3>2
  <2> QED BY <1>2, <2>3, <2>4
<1> QED BY <1>1, <1>3, <1>4, <1>5, <1>6, <1>7 DEF ShmInv

\* sem_post lets the next one in.
LEMMA PostInv ==
  ASSUME ShmInv, NEW c \in Clients, Post(c)
  PROVE  ShmInv'
<1>0. CounterTypeOK /\ Stages /\ Exclusion /\ Current /\ Pairs /\ Exact
  BY DEF ShmInv
<1>2. /\ ptr' = ptr /\ quiet' = quiet /\ shmname' = shmname /\ semname' = semname
      /\ count' = count /\ mutex' = mutex /\ spc' = spc /\ reg' = reg /\ done' = done
      /\ cpc[c] = "post" /\ cpc'[c] \in {"wait", "exit"}
      /\ cpc'[c] = "wait" => round[c] + 1 < ShmLoop
      /\ round'[c] = round[c] + 1
      /\ \A d \in Clients : d # c => cpc'[d] = cpc[d] /\ round'[d] = round[d]
      /\ \A s \in Servers : s # mutex[c] => value'[s] = value[s]
  BY <1>0 DEF Post, CGoto, CounterTypeOK, names
<1>1. CounterTypeOK'
  <2>1. value' \in [Servers -> 0 .. 1]
    <3>1. CASE mutex[c] = NoObject
      BY <1>0, <3>1 DEF Post, CounterTypeOK
    <3>2. CASE mutex[c] # NoObject
      <4>1. value[mutex[c]] = 0
        BY <1>0, <1>2, <3>2 DEF Exclusion, Section
      <4> QED BY <1>0, <3>2, <4>1 DEF Post, CounterTypeOK
    <3> QED BY <3>1, <3>2
  <2>2. round' \in [Clients -> 0 .. ShmLoop]
    <3>1. round[c] < ShmLoop /\ round[c] \in 0 .. ShmLoop
      BY <1>0, <1>2 DEF Stages, Section, CounterTypeOK
    <3>2. round[c] + 1 \in 0 .. ShmLoop
      BY <3>1, ShmLoopAssumption
    <3> QED BY <1>0, <3>2 DEF Post, CounterTypeOK
  <2>3. cpc' \in [Clients -> CLabels]
    BY <1>0 DEF Post, CGoto, CounterTypeOK, CLabels
  <2> QED BY <1>0, <1>2, <2>1, <2>2, <2>3 DEF CounterTypeOK
<1>3. Stages'
  BY <1>0, <1>2 DEF Stages, Begun, Section
<1>4. Exclusion'
  BY <1>0, <1>2 DEF Exclusion, Section, CounterTypeOK
<1>5. Current'
  BY <1>0, <1>2 DEF Current, Begun, Idle
<1>6. Pairs'
  BY <1>0, <1>2 DEF Pairs, Begun
<1>7. Exact'
  BY <1>0, <1>2 DEF Exact, Quiet
<1> QED BY <1>1, <1>3, <1>4, <1>5, <1>6, <1>7 DEF ShmInv

\* Initially nobody has anything.
LEMMA InitShm == CounterInit => ShmInv
<1> SUFFICES ASSUME CounterInit PROVE ShmInv
  OBVIOUS
<1>1. CounterTypeOK
  BY ShmLoopAssumption, RunsAssumption DEF CounterInit, CounterTypeOK, SLabels, CLabels
<1>2. Stages /\ Exclusion /\ Current /\ Pairs
  BY ShmLoopAssumption, RunsAssumption DEF CounterInit, Stages, Exclusion, Current, Pairs,
     Section, Begun
<1>3. Exact
  BY DEF CounterInit, Exact
<1> QED BY <1>1, <1>2, <1>3 DEF ShmInv

\* Every step keeps the invariant.
LEMMA NextShm == ShmInv /\ [CounterNext]_counterVars => ShmInv'
<1> SUFFICES ASSUME ShmInv, [CounterNext]_counterVars PROVE ShmInv'
  OBVIOUS
<1>1. ASSUME NEW s \in Servers, Server(s) PROVE ShmInv'
  BY <1>1, ServerTypes, ServerStages, ServerExclusion, ServerCurrent,
     ServerKeeps DEF ShmInv
<1>2. ASSUME NEW c \in Clients, Client(c) PROVE ShmInv'
  BY <1>2, OpenCases, OpenShmInv, OpenSemInv, WaitInv, IncrementInv,
     PostInv DEF Client
<1>3. CASE UNCHANGED counterVars
  BY <1>3 DEF ShmInv, counterVars, names, objects, client, CounterTypeOK, Stages,
     Exclusion, Current, Idle,
     Pairs, Exact, Quiet
<1> QED BY <1>1, <1>2, <1>3 DEF CounterNext

-----------------------------------------------------------------------------
(* The theorems about ShmCounter *)

\* Names, objects and indices keep their types, and no semaphore is ever more
\* than 1 or less than 0, however often server_1 is run again.
THEOREM CounterTypeCorrect == CounterSpec => []CounterTypeOK
BY InitShm, NextShm, PTL DEF CounterSpec, ShmInv

\* A counter all of whose clients opened both names while no server ran loses
\* no increment, however many runs of server_1 replace the names meanwhile, two
\* or more of them at the same time.
THEOREM CounterExact == CounterSpec => []CountExact
<1>1. ShmInv => CountExact
  BY DEF ShmInv, Exact, Quiet, CountExact
<1> QED BY <1>1, InitShm, NextShm, PTL DEF CounterSpec
=============================================================================
