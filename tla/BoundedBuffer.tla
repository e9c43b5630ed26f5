---------------------------- MODULE BoundedBuffer ----------------------------
(***************************************************************************)
(* What every producer/consumer program of the book promises, without      *)
(* threads, locks or semaphores: the items 0, 1, ..., limit - 1 pass       *)
(* through a buffer of Capacity places, in order, each of them once.       *)
(* SemProdCons (10-chapter.c) and MutexProdCons (7-chapter.c) implement it.*)
(***************************************************************************)
EXTENDS Integers, Sequences

CONSTANT Capacity   \* places, at least one

VARIABLES limit,   \* argument of the program: how many items to pass on
          added,   \* items put into the buffer so far
          buf,     \* the items in the buffer, oldest first
          taken    \* items taken out of the buffer so far
vars == <<limit, added, buf, taken>>

Init == limit \in Int /\ added = 0 /\ buf = <<>> /\ taken = 0

Put == /\ added < limit
       /\ Len(buf) < Capacity
       /\ buf' = Append(buf, added)
       /\ added' = added + 1
       /\ UNCHANGED <<limit, taken>>

Get == /\ buf # <<>>
       /\ Head(buf) = taken
       /\ buf' = Tail(buf)
       /\ taken' = taken + 1
       /\ UNCHANGED <<limit, added>>

Next == Put \/ Get
Spec == Init /\ [][Next]_vars
=============================================================================
