------------------------------ MODULE RecordLock ------------------------------
(***************************************************************************)
(* 9-chapter-1.c and 9-chapter-2.c: processes increment the number in one  *)
(* file NLoop times.  The first program takes an fcntl write lock around   *)
(* each round, the second (my_lock_none) does not; the locks are advisory. *)
(*                                                                         *)
(* The file is the number its first line holds.  Nobody truncates it, but  *)
(* a shorter number ends in its own newline, and sscanf reads no further.  *)
(* A file without a number leaves seqno as it is: uninitialised at first.  *)
(* A process may be killed at any point; the kernel then drops its lock.   *)
(***************************************************************************)
EXTENDS Integers, FiniteSets

CONSTANTS Procs,      \* the processes
          NLoop,      \* 100 in the code
          Numbers,    \* numbers the file may hold at the start
          Garbage,    \* what an uninitialised seqno may be
          None        \* neither a process nor a number

ASSUME NLoopAssumption   == NLoop \in Nat \ {0}
ASSUME NumbersAssumption == Numbers \subseteq Int /\ Garbage \subseteq Int /\ None \notin Int
ASSUME ProcsAssumption   == IsFiniteSet(Procs) /\ None \notin Procs

VARIABLES unlocked, start,     \* who runs 9-chapter-2, the file at first: fixed
          file,                \* the number in the file, or None
          holder,              \* who holds the record lock, or None
          pc, i, seqno,        \* per process
          base, written        \* history: what was counted from, and how often

fixed == <<unlocked, start>>
vars  == <<fixed, file, holder, pc, i, seqno, base, written>>

Labels == {"lock", "read", "write", "unlock", "exit", "killed"}

Init ==
  /\ unlocked \in SUBSET Procs
  /\ start \in Numbers \cup {None} /\ file = start /\ base = start /\ written = 0
  /\ holder = None
  /\ pc = [p \in Procs |-> "lock"] /\ i = [p \in Procs |-> 0]
  /\ seqno \in [Procs -> Garbage]

Goto(p, from, to) == pc[p] = from /\ pc' = [pc EXCEPT ![p] = to]

\* F_SETLK for F_SETLKW: the call fails at once and nobody looks
LockNoWait(p) ==
  /\ Goto(p, "lock", "read")
  /\ holder' = IF p \notin unlocked /\ holder = None THEN p ELSE holder
  /\ UNCHANGED <<fixed, file, i, seqno, base, written>>

\* my_lock blocks in F_SETLKW while another process has the lock, my_lock_none
\* does nothing
Lock(p) ==
  /\ Goto(p, "lock", "read")
  /\ \/ p \in unlocked /\ UNCHANGED holder
     \/ p \notin unlocked /\ holder \in {None, p} /\ holder' = p
  /\ UNCHANGED <<fixed, file, i, seqno, base, written>>

Read(p) ==
  /\ Goto(p, "read", "write")
  /\ seqno' = [seqno EXCEPT ![p] = (IF file = None THEN @ ELSE file) + 1]
  /\ UNCHANGED <<fixed, file, holder, i, base, written>>

\* without the second lseek the line is appended, and nobody reads it
WriteNoRewind(p) ==
  /\ Goto(p, "write", "unlock")
  /\ file' = IF file = None THEN seqno[p] ELSE file
  /\ base' = IF file = None THEN seqno[p] - 1 ELSE base
  /\ written' = written + 1
  /\ UNCHANGED <<fixed, holder, i, seqno>>

Write(p) ==
  /\ Goto(p, "write", "unlock")
  /\ file' = seqno[p]
  /\ base' = IF file = None THEN seqno[p] - 1 ELSE base
  /\ written' = written + 1
  /\ UNCHANGED <<fixed, holder, i, seqno>>

\* one round too many: =< for <
UnlockOnceMore(p) ==
  /\ Goto(p, "unlock", IF i[p] + 1 =< NLoop THEN "lock" ELSE "exit")
  /\ holder' = IF holder = p THEN None ELSE holder
  /\ i' = [i EXCEPT ![p] = @ + 1]
  /\ UNCHANGED <<fixed, file, seqno, base, written>>

\* my_unlock or my_unlock_none, and the head of the loop
Unlock(p) ==
  /\ Goto(p, "unlock", IF i[p] + 1 < NLoop THEN "lock" ELSE "exit")
  /\ holder' = IF holder = p THEN None ELSE holder
  /\ i' = [i EXCEPT ![p] = @ + 1]
  /\ UNCHANGED <<fixed, file, seqno, base, written>>

\* a lock that outlives its process, like the semaphores of the other programs
KillKeepsLock(p) ==
  /\ pc[p] \notin {"exit", "killed"}
  /\ pc' = [pc EXCEPT ![p] = "killed"]
  /\ UNCHANGED <<fixed, file, holder, i, seqno, base, written>>

\* a record lock does not outlive its process
Kill(p) ==
  /\ pc[p] \notin {"exit", "killed"}
  /\ pc' = [pc EXCEPT ![p] = "killed"]
  /\ holder' = IF holder = p THEN None ELSE holder
  /\ UNCHANGED <<fixed, file, i, seqno, base, written>>

Step(p) == Lock(p) \/ Read(p) \/ Write(p) \/ Unlock(p)

Next == \E p \in Procs : Step(p) \/ Kill(p)

(* As long as some process can run, one does; nobody need be killed. *)
Fairness == WF_vars(\E p \in Procs : Step(p))
Spec == Init /\ [][Next]_vars /\ Fairness

-----------------------------------------------------------------------------
(* Properties *)

\* Every variable keeps its C type, the loop index its range.
TypeOK ==
  /\ unlocked \subseteq Procs /\ holder \in Procs \cup {None}
  /\ {start, file, base} \subseteq Int \cup {None} /\ written \in Nat
  /\ pc \in [Procs -> Labels] /\ i \in [Procs -> 0 .. NLoop]
  /\ seqno \in [Procs -> Int]

\* Between read and write a locking process has in seqno the successor of what
\* the file holds, and it has the lock; an empty file was not written to.
InSection ==
  /\ \A p \in Procs \ unlocked :
       /\ pc[p] \in {"read", "write", "unlock"} <=> holder = p
       /\ unlocked = {} /\ pc[p] = "write" /\ file # None => seqno[p] = file + 1
  /\ file = None => written = 0

\* A process that has not ended has a round to do.
RoundsLeft == \A p \in Procs : pc[p] \notin {"exit", "killed"} => i[p] < NLoop

\* As long as only the program that locks is run, no increment is ever lost
\* and none is made twice, although any process may be killed between its
\* read and its write, with the lock held.
LockedExact ==
  unlocked = {} /\ file # None => file = base + written

\* Locks are advisory: one program that does not lock makes the others lose
\* increments too ("the final number is not 201").  Never more is counted than
\* was done, and however the processes are scheduled, two increments are left.
FinalRange ==
  (\A p \in Procs : pc[p] = "exit") /\ Procs # {} /\ start # None =>
    LET all == NLoop * Cardinality(Procs)
        few == IF Cardinality(Procs) = 1 \/ NLoop = 1 THEN NLoop ELSE 2
    IN  start + few =< file /\ file =< start + all

\* Every process ends, the killed ones do not stand in the way of the others.
Ends == <>[](\A p \in Procs : pc[p] \in {"exit", "killed"})
=============================================================================
