------------------------------- MODULE Counting -------------------------------
(***************************************************************************)
(* Counting processes and their rounds: how the number of processes at a   *)
(* set of labels changes when one of them moves, and how the sum of the    *)
(* rounds changes when one of them ends a round.  The accounts of the      *)
(* semaphores' tokens and the final counts rest on these lemmas.  Beside   *)
(* them, the arithmetic of a ring's places and the contents of a buffer,   *)
(* which the refinements of BoundedBuffer need.                            *)
(***************************************************************************)
EXTENDS Integers, Sequences, FiniteSetTheorems, TLAPS

\* The processes of S whose label is in L, and how many they are.
Those(S, f, L)  == {t \in S : f[t] \in L}
Number(S, f, L) == Cardinality(Those(S, f, L))

\* How often the label l counts for the set L.
Member(l, L) == IF l \in L THEN 1 ELSE 0

\* The process t of S, and no other, goes from one label to another.
Moves(S, f, g, t, from, to) ==
  /\ t \in S /\ f[t] = from /\ g[t] = to
  /\ \A u \in S : u # t => g[u] = f[u]

-----------------------------------------------------------------------------
(* Processes at labels *)

\* Those at labels of L are finitely many.
LEMMA NumberType ==
  ASSUME NEW S, IsFiniteSet(S), NEW f, NEW L
  PROVE  IsFiniteSet(Those(S, f, L)) /\ Number(S, f, L) \in Nat
<1>1. IsFiniteSet(Those(S, f, L))
  BY FS_Subset DEF Those
<1> QED BY <1>1, FS_CardinalityType DEF Number

\* A set is one larger than what is left without one of its elements.
LEMMA RemoveOne ==
  ASSUME NEW A, IsFiniteSet(A), NEW t
  PROVE  Cardinality(A) = Cardinality(A \ {t}) + (IF t \in A THEN 1 ELSE 0)
<1>1. Cardinality(A) \in Nat
  BY FS_CardinalityType
<1>2. Cardinality(A \ {t}) = IF t \in A THEN Cardinality(A) - 1 ELSE Cardinality(A)
  BY FS_RemoveElement
<1> QED BY <1>1, <1>2

\* A process that moves leaves the first set and enters the second.
LEMMA NumberMove ==
  ASSUME NEW S, IsFiniteSet(S), NEW f, NEW g, NEW t, NEW from, NEW to,
         Moves(S, f, g, t, from, to), NEW L
  PROVE  Number(S, g, L) = Number(S, f, L) - Member(from, L) + Member(to, L)
<1> DEFINE A == Those(S, f, L)
           B == Those(S, g, L)
<1>1. A \ {t} = B \ {t}
  BY DEF Those, Moves
<1>2. IsFiniteSet(A) /\ IsFiniteSet(B)
  BY NumberType
<1>3. (t \in A <=> from \in L) /\ (t \in B <=> to \in L)
  BY DEF Those, Moves
<1> HIDE DEF A, B
<1>4. Cardinality(A) = Cardinality(A \ {t}) + Member(from, L)
  BY <1>2, <1>3, RemoveOne DEF Member
<1>5. Cardinality(B) = Cardinality(B \ {t}) + Member(to, L)
  BY <1>2, <1>3, RemoveOne DEF Member
<1>6. Cardinality(A \ {t}) \in Nat
  BY <1>2, FS_Subset, FS_CardinalityType
<1> DEFINE n == Cardinality(A \ {t})
<1>7. Cardinality(A) = n + Member(from, L) /\ Cardinality(B) = n + Member(to, L)
  BY <1>1, <1>4, <1>5
<1> HIDE DEF n
<1> QED BY <1>6, <1>7 DEF n, A, B, Number, Member

\* Processes that do not move do not change a number.
LEMMA NumberStay ==
  ASSUME NEW S, NEW f, NEW g, NEW L, \A t \in S : g[t] = f[t]
  PROVE  Number(S, g, L) = Number(S, f, L)
<1>1. Those(S, g, L) = Those(S, f, L)
  BY DEF Those
<1> QED BY <1>1 DEF Number

\* A number is positive exactly when some process is there.
LEMMA NumberPositive ==
  ASSUME NEW S, IsFiniteSet(S), NEW f, NEW L
  PROVE  Number(S, f, L) > 0 <=> \E t \in S : f[t] \in L
<1>1. IsFiniteSet(Those(S, f, L)) /\ Number(S, f, L) \in Nat
  BY NumberType
<1>2. Number(S, f, L) = 0 <=> Those(S, f, L) = {}
  BY <1>1, FS_EmptySet DEF Number
<1> QED BY <1>1, <1>2 DEF Those

\* Where at most one process is, any two are the same.
LEMMA NumberUnique ==
  ASSUME NEW S, IsFiniteSet(S), NEW f, NEW L, Number(S, f, L) =< 1,
         NEW t \in S, NEW u \in S, f[t] \in L, f[u] \in L
  PROVE  t = u
<1> DEFINE A == Those(S, f, L)
<1>1. IsFiniteSet(A) /\ Cardinality(A) \in Nat /\ Cardinality(A) =< 1
  BY NumberType DEF Number
<1>2. t \in A /\ u \in A
  BY DEF Those
<1> HIDE DEF A
<1>3. IsFiniteSet(A \ {t}) /\ Cardinality(A \ {t}) = Cardinality(A) - 1
  BY <1>1, <1>2, FS_RemoveElement
<1>4. Cardinality(A \ {t}) = 0
  BY <1>1, <1>3, FS_CardinalityType
<1>5. A \ {t} = {}
  BY <1>3, <1>4, FS_EmptySet
<1> QED BY <1>2, <1>5

-----------------------------------------------------------------------------
(* Sums of rounds.  The sum of the counts f[t] is the number of the pairs   *)
(* of a process and one of its rounds.                                      *)

Rounds(S, f) == UNION {{t} \X (0 .. f[t] - 1) : t \in S}

\* The process t of S, and no other, ends a round.
EndsRound(S, f, g, t) ==
  /\ t \in S /\ f[t] \in Nat /\ g[t] = f[t] + 1
  /\ \A u \in S : u # t => g[u] = f[u]

\* Which pairs these are.
LEMMA RoundsMembers ==
  ASSUME NEW S, NEW f, NEW x
  PROVE  x \in Rounds(S, f) <=>
           \E t \in S : \E k \in 0 .. f[t] - 1 : x = <<t, k>>
BY DEF Rounds

\* Before the first round there are none.
LEMMA RoundsInit ==
  ASSUME NEW S, NEW f, \A t \in S : f[t] = 0
  PROVE  /\ Rounds(S, f) = {} /\ IsFiniteSet(Rounds(S, f))
         /\ Cardinality(Rounds(S, f)) = 0
<1>1. \A t \in S : 0 .. f[t] - 1 = {}
  OBVIOUS
<1>2. Rounds(S, f) = {}
  BY <1>1, RoundsMembers
<1> QED BY <1>2, FS_EmptySet

\* Each round of a process adds one.
LEMMA RoundsStep ==
  ASSUME NEW S, NEW f, NEW g, NEW t, EndsRound(S, f, g, t), IsFiniteSet(Rounds(S, f))
  PROVE  /\ IsFiniteSet(Rounds(S, g))
         /\ Cardinality(Rounds(S, g)) = Cardinality(Rounds(S, f)) + 1
<1> DEFINE x == <<t, f[t]>>
<1> USE DEF EndsRound
<1>1. x \notin Rounds(S, f)
  <2> SUFFICES ASSUME NEW u \in S, NEW k \in 0 .. f[u] - 1, x = <<u, k>>
               PROVE  FALSE
    BY RoundsMembers
  <2> QED OBVIOUS
<1>2. Rounds(S, g) = Rounds(S, f) \cup {x}
  <2>1. ASSUME NEW y \in Rounds(S, g)
        PROVE  y \in Rounds(S, f) \cup {x}
    <3>1. PICK u \in S : \E k \in 0 .. g[u] - 1 : y = <<u, k>>
      BY RoundsMembers
    <3>2. PICK k \in 0 .. g[u] - 1 : y = <<u, k>>
      BY <3>1
    <3>3. CASE u = t /\ k = f[t]
      BY <3>2, <3>3
    <3>4. CASE ~(u = t /\ k = f[t])
      <4>1. k \in 0 .. f[u] - 1
        BY <3>4
      <4> QED BY <3>2, <4>1, RoundsMembers
    <3> QED BY <3>3, <3>4
  <2>2. ASSUME NEW y \in Rounds(S, f)
        PROVE  y \in Rounds(S, g)
    <3>1. PICK u \in S : \E k \in 0 .. f[u] - 1 : y = <<u, k>>
      BY RoundsMembers
    <3>2. PICK k \in 0 .. f[u] - 1 : y = <<u, k>>
      BY <3>1
    <3>3. k \in 0 .. g[u] - 1
      OBVIOUS
    <3> QED BY <3>2, <3>3, RoundsMembers
  <2>3. x \in Rounds(S, g)
    <3>1. f[t] \in 0 .. g[t] - 1
      OBVIOUS
    <3> QED BY <3>1, RoundsMembers
  <2> QED BY <2>1, <2>2, <2>3
<1> HIDE DEF x
<1> QED BY <1>1, <1>2, FS_AddElement

-----------------------------------------------------------------------------
(* Arithmetic of the ring *)

\* An index taken modulo NBUFF is a place of the ring (buff[nput % NBUFF]).
LEMMA ModRange ==
  ASSUME NEW N \in Nat \ {0}, NEW a \in Int
  PROVE  a % N \in 0 .. N - 1
BY SMT

\* A number is made of its quotient and its remainder.
LEMMA ModDiv ==
  ASSUME NEW N \in Nat \ {0}, NEW a \in Int
  PROVE  a = N * (a \div N) + (a % N) /\ a \div N \in Int
BY SMT

\* Two item numbers less than a ring apart have different places.
LEMMA ModDistinct ==
  ASSUME NEW N \in Nat \ {0}, NEW a \in Int, NEW b \in Int, a < b, b - a < N
  PROVE  a % N # b % N
<1> DEFINE qa == a \div N
           qb == b \div N
<1> SUFFICES ASSUME a % N = b % N PROVE FALSE
  OBVIOUS
<1>1. qa \in Int /\ qb \in Int
  BY ModDiv
<1>2. b - a = N * qb - N * qa
  BY ModDiv
<1> HIDE DEF qa, qb
<1>3. b - a = N * (qb - qa)
  BY <1>1, <1>2, SMT
<1>4. CASE qb - qa =< 0
  <2>1. N * (qb - qa) =< 0
    BY <1>1, <1>4, SMT
  <2> QED BY <2>1, <1>3
<1>5. CASE qb - qa >= 1
  <2>1. N * (qb - qa) >= N
    BY <1>1, <1>5, SMT
  <2> QED BY <2>1, <1>3
<1> QED BY <1>1, <1>4, <1>5, SMT

-----------------------------------------------------------------------------
(* The contents of a buffer *)

\* The items from lo up to hi, hi excluded.
Window(lo, hi) == [k \in 1 .. hi - lo |-> lo + k - 1]

\* They are a sequence; what Append, Head and Tail do to it.
LEMMA WindowSeq ==
  ASSUME NEW lo \in Nat, NEW hi \in Nat, lo =< hi
  PROVE  /\ Window(lo, hi) \in Seq(Int) /\ Len(Window(lo, hi)) = hi - lo
         /\ Append(Window(lo, hi), hi) = Window(lo, hi + 1)
         /\ lo < hi => /\ Window(lo, hi) # <<>>
                       /\ Head(Window(lo, hi)) = lo
                       /\ Tail(Window(lo, hi)) = Window(lo + 1, hi)
<1> USE DEF Window
<1>1. Window(lo, hi) \in Seq(Int) /\ Len(Window(lo, hi)) = hi - lo
  OBVIOUS
<1>2. Append(Window(lo, hi), hi) = Window(lo, hi + 1)
  OBVIOUS
<1>3. ASSUME lo < hi
      PROVE  Window(lo, hi) # <<>> /\ Head(Window(lo, hi)) = lo
  BY <1>3, <1>1
<1>4. ASSUME lo < hi
      PROVE  Tail(Window(lo, hi)) = Window(lo + 1, hi)
  BY <1>4, <1>1
<1> QED BY <1>1, <1>2, <1>3, <1>4
=============================================================================
