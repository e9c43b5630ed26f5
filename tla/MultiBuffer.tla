----------------------------- MODULE MultiBuffer -----------------------------
(***************************************************************************)
(* 10-chapter.c, test_multi_buffer: produce_4 reads a file into NBUFF      *)
(* buffers, consume_4 writes them to the standard output.  Both fill and   *)
(* empty their buffer outside the mutex; only nempty and nstored keep them *)
(* apart.                                                                  *)
(*                                                                         *)
(* The file is the chunks 1 .. chunks that successive reads return; a      *)
(* buffer holds a chunk, 0 when its n is 0 (the end of the file, and also  *)
(* the zeroed buffers at the start), Err when n is -1.  Any read may fail: *)
(* of a directory each one does, others may be interrupted.                *)
(*                                                                         *)
(* FileProofs extends FileServers and this module: of the names that both  *)
(* need, those of this one begin with Copy.                                *)
(***************************************************************************)
EXTENDS Integers, Sequences, FiniteSets

CONSTANTS NBUFF,     \* buffers in the ring
          Lengths    \* lengths of the file considered, in chunks

ASSUME NBUFFAssumption   == NBUFF \in Nat \ {0}
ASSUME LengthsAssumption == Lengths \subseteq Nat

Err == -1

VARIABLES chunks, opened,   \* the file, and whether open succeeded
          pos,              \* chunks read so far: the offset of fd
          sem, buff,        \* struct shared1
          ppc, pi,          \* produce_4 and its i
          cpc, ci,          \* consume_4 and its i
          out,              \* what has been written
          main              \* the main thread

file     == <<chunks, opened>>
producer == <<ppc, pi, pos>>
consumer == <<cpc, ci, out>>
copyVars == <<file, sem, buff, producer, consumer, main>>

Slots    == 0 .. NBUFF - 1
SemNames == {"mutex", "nempty", "nstored"}
PLabels  == {"unborn", "wait_nempty", "wait_mutex", "post_mutex", "read",
             "test", "post_nstored", "post_eof", "returned"}
CLabels  == {"unborn", "wait_nstored", "wait_mutex", "post_mutex", "test",
             "write", "post_nempty", "returned"}

SemWait(s) == sem[s] > 0 /\ sem' = [sem EXCEPT ![s] = @ - 1]
SemPost(s) == sem' = [sem EXCEPT ![s] = @ + 1]

\* off by one: > for >=
NextSlotGreater(k) == IF k + 1 > NBUFF THEN 0 ELSE k + 1

NextSlot(k) == IF k + 1 >= NBUFF THEN 0 ELSE k + 1    \* circular buffer

\* a failed open is only reported: the threads run all the same
CopyInit ==
  /\ chunks \in Lengths /\ opened \in BOOLEAN /\ pos = 0
  /\ sem = [mutex |-> 1, nempty |-> NBUFF, nstored |-> 0]
  /\ buff = [k \in Slots |-> 0]
  /\ ppc = "unborn" /\ pi = 0 /\ cpc = "unborn" /\ ci = 0
  /\ out = <<>> /\ main = "create_p"

PGoto(from, to) == ppc = from /\ ppc' = to
CGoto(from, to) == cpc = from /\ cpc' = to

ProducerSem ==
  /\ \/ PGoto("wait_nempty", "wait_mutex") /\ SemWait("nempty")
     \/ PGoto("wait_mutex", "post_mutex") /\ SemWait("mutex")
     \/ PGoto("post_mutex", "read") /\ SemPost("mutex")
     \/ PGoto("post_nstored", "wait_nempty") /\ SemPost("nstored")
     \/ PGoto("post_eof", "returned") /\ SemPost("nstored")
  /\ UNCHANGED <<file, buff, pi, pos, consumer, main>>

\* what read may return: the next chunk, or 0 at the end of an opened file; -1
ReadResults == {Err} \cup IF opened THEN {IF pos < chunks THEN pos + 1 ELSE 0} ELSE {}

\* buff[i] is filled outside the mutex
Fills(n) ==
  /\ PGoto("read", "test")
  /\ buff' = [buff EXCEPT ![pi] = n]
  /\ pos' = IF n > 0 THEN pos + 1 ELSE pos
  /\ UNCHANGED <<file, sem, pi, consumer, main>>
ReadBlock == \E n \in ReadResults : Fills(n)
ReadFails == Fills(Err)

\* the end of the file is not announced
TestEofSilently ==
  /\ IF buff[pi] = 0 THEN PGoto("test", "returned") /\ UNCHANGED pi
                     ELSE PGoto("test", "post_nstored") /\ pi' = NextSlot(pi)
  /\ UNCHANGED <<file, sem, buff, pos, consumer, main>>

TestEof ==
  /\ IF buff[pi] = 0 THEN PGoto("test", "post_eof") /\ UNCHANGED pi
                     ELSE PGoto("test", "post_nstored") /\ pi' = NextSlot(pi)
  /\ UNCHANGED <<file, sem, buff, pos, consumer, main>>

\* the buffer is given back before it is written out
ConsumerSemEarly ==
  /\ \/ CGoto("wait_nstored", "wait_mutex") /\ SemWait("nstored")
     \/ CGoto("wait_mutex", "post_mutex") /\ SemWait("mutex")
     \/ /\ CGoto("post_mutex", "test")
        /\ sem' = [sem EXCEPT !["mutex"] = @ + 1, !["nempty"] = @ + 1]
     \/ CGoto("post_nempty", "wait_nstored") /\ UNCHANGED sem
  /\ UNCHANGED <<file, buff, ci, out, producer, main>>

ConsumerSem ==
  /\ \/ CGoto("wait_nstored", "wait_mutex") /\ SemWait("nstored")
     \/ CGoto("wait_mutex", "post_mutex") /\ SemWait("mutex")
     \/ CGoto("post_mutex", "test") /\ SemPost("mutex")
     \/ CGoto("post_nempty", "wait_nstored") /\ SemPost("nempty")
  /\ UNCHANGED <<file, buff, ci, out, producer, main>>

ConsumerTest ==
  /\ CGoto("test", IF buff[ci] = 0 THEN "returned" ELSE "write")
  /\ UNCHANGED <<file, sem, buff, ci, out, producer, main>>

\* the index is moved on before the write
WriteNext ==
  /\ CGoto("write", "post_nempty")
  /\ ci' = NextSlot(ci)
  /\ out' = IF buff[ci'] = Err THEN out ELSE Append(out, buff[ci'])
  /\ UNCHANGED <<file, sem, buff, producer, main>>

\* write refuses a count of -1
Write ==
  /\ CGoto("write", "post_nempty")
  /\ out' = IF buff[ci] = Err THEN out ELSE Append(out, buff[ci])
  /\ ci' = NextSlot(ci)
  /\ UNCHANGED <<file, sem, buff, producer, main>>

Main ==
  /\ \/ /\ main = "create_p" /\ main' = "create_c" /\ PGoto("unborn", "wait_nempty")
        /\ UNCHANGED cpc
     \/ /\ main = "create_c" /\ main' = "join" /\ CGoto("unborn", "wait_nstored")
        /\ UNCHANGED ppc
     \/ /\ main = "join" /\ ppc = "returned" /\ cpc = "returned" /\ main' = "exit"
        /\ UNCHANGED <<ppc, cpc>>
  /\ UNCHANGED <<file, sem, buff, pi, pos, ci, out>>

CopyNext == \/ Main \/ ProducerSem \/ ReadBlock \/ TestEof
        \/ ConsumerSem \/ ConsumerTest \/ Write

(* As long as some thread can run, the scheduler runs one. *)
CopySpec == CopyInit /\ [][CopyNext]_copyVars /\ WF_copyVars(CopyNext)

-----------------------------------------------------------------------------
(* Properties *)

\* Every variable keeps its C type, the indices stay in the ring.
CopyTypeOK ==
  /\ chunks \in Nat /\ opened \in BOOLEAN /\ pos \in 0 .. chunks
  /\ sem \in [SemNames -> Nat] /\ buff \in [Slots -> Err .. chunks]
  /\ ppc \in PLabels /\ pi \in Slots /\ cpc \in CLabels /\ ci \in Slots
  /\ out \in Seq(1 .. chunks) /\ main \in {"create_p", "create_c", "join", "exit"}

\* The two threads never use the same buffer at the same time, although they
\* use it outside the mutex.
NoSharedBuffer ==
  ~(ppc \in {"read", "test"} /\ cpc \in {"test", "write"} /\ pi = ci)

\* The output is the file up to some chunk, in order and without a gap,
\* whichever reads fail in between: produce_4 takes their -1 for a full buffer,
\* of which consume_4 writes nothing.  The program ends only when the output is
\* the whole file.
OutputIsFile ==
  /\ Len(out) =< chunks /\ \A k \in DOMAIN out : out[k] = k
  /\ main = "exit" => opened /\ Len(out) = chunks

\* Both threads end, unless reads fail for ever: without a file, and of a
\* directory, each one does, and produce_4 goes on with the next buffer.
Termination == <>(main = "exit") \/ []<><<ReadFails>>_copyVars
=============================================================================
