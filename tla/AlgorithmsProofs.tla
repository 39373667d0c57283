-------------------------- MODULE AlgorithmsProofs --------------------------
(***************************************************************************)
(* The algorithms and the streams, for every input and not only those of   *)
(* the run: the best match is the best for any number of older elements, a *)
(* frame of any size is rebuilt from an older one of any size, any finite  *)
(* set of changed pixels is sent, and events and packets come out whole.   *)
(*                                                                         *)
(* The loops of the code are folds here, and what a fold computes is       *)
(* proved by induction over its turns: from FoldLeft and MapThenFoldSet,   *)
(* which the models use, to a function from the number of turns to what    *)
(* they made (FoldExists), and then over the numbers (Induction).          *)
(***************************************************************************)
EXTENDS MCAlgorithms, FiniteSetTheorems, SequenceTheorems,
        WellFoundedInduction, TLAPS

-----------------------------------------------------------------------------
(* Sets of numbers, recursion over them, and folds.                        *)

(* Induction, and functions that are defined by recursion over a finite    *)
(* set.  The library's theorems about both take an operator as a           *)
(* parameter, which no prover here can instantiate: here a set stands for  *)
(* what is proved by induction, and a function for what a turn of a        *)
(* recursion does.                                                         *)

(* A set of numbers has a least one.                                       *)
LEMMA LeastOf ==
  ASSUME NEW T \in SUBSET Nat, T # {}
  PROVE  \E x \in T : \A y \in T : x <= y
<1> DEFINE R == OpToRel(<, Nat)
<1>1. IsWellFoundedOn(R, Nat)
  BY NatLessThanWellFounded
<1>2. \E x \in T : \A y \in T : ~ (<<y, x>> \in R)
  <2> HIDE DEF R
  <2> QED BY <1>1, WFMin
<1>3. ASSUME NEW x \in T, NEW y \in T, ~ (<<y, x>> \in R) PROVE x <= y
  BY <1>3 DEF OpToRel
<1> QED BY <1>2, <1>3

(* Induction with a set in place of an operator.                           *)
LEMMA Induction ==
  ASSUME NEW T, 0 \in T, \A n \in Nat : n \in T => n + 1 \in T
  PROVE  Nat \subseteq T
<1>1. SUFFICES ASSUME Nat \ T # {} PROVE FALSE
  OBVIOUS
<1>2. PICK x \in Nat \ T : \A y \in Nat \ T : x <= y
  BY <1>1, LeastOf
<1>3. x - 1 \in Nat /\ x - 1 \in T /\ x # 0
  BY <1>2
<1> QED BY <1>3, <1>2

(* Elements are taken from T one by one: next[T] is the one taken first,   *)
(* and step says what it makes of the outcome for the others.              *)
Recursion(f, D, V, base, next, step) ==
  /\ f \in [D -> V]
  /\ \A T \in D : f[T] = IF T = {} THEN base
                         ELSE step[<<next[T], f[T \ {next[T]}]>>]

(* A definition by recursion over the finite subsets of S, from a set to   *)
(* the set without one of its members, defines a function.                 *)
LEMMA RecursionExists ==
  ASSUME NEW S, IsFiniteSet(S), NEW V, NEW base \in V,
         NEW next \in [(SUBSET S) \ {{}} -> S],
         \A T \in (SUBSET S) \ {{}} : next[T] \in T,
         NEW step \in [S \X V -> V]
  PROVE  \E f : Recursion(f, SUBSET S, V, base, next, step)
<1> DEFINE Upto(n) == {T \in SUBSET S : Cardinality(T) <= n}
           Known == {n \in Nat :
                       \E f : Recursion(f, Upto(n), V, base, next, step)}
<1>1. ASSUME NEW T \in SUBSET S
      PROVE  /\ IsFiniteSet(T) /\ Cardinality(T) \in Nat
             /\ Cardinality(T) = 0 <=> T = {}
             /\ T # {} => /\ T \ {next[T]} \in SUBSET S
                          /\ Cardinality(T \ {next[T]}) = Cardinality(T) - 1
  <2>1. IsFiniteSet(T)
    BY FS_Subset
  <2>2. Cardinality(T) \in Nat
    BY <2>1, FS_CardinalityType
  <2>3. Cardinality(T) = 0 <=> T = {}
    BY <2>1, FS_EmptySet
  <2>4. ASSUME T # {}
        PROVE  Cardinality(T \ {next[T]}) = Cardinality(T) - 1
    <3>1. next[T] \in T
      BY <2>4
    <3> DEFINE x == next[T]
    <3> HIDE DEF x
    <3>2. Cardinality(T \ {x}) = IF x \in T THEN Cardinality(T) - 1
                                 ELSE Cardinality(T)
      BY <2>1, FS_RemoveElement
    <3> QED BY <3>1, <3>2 DEF x
  <2> QED BY <2>1, <2>2, <2>3, <2>4
<1>2. 0 \in Known
  <2> DEFINE f == [T \in Upto(0) |-> base]
  <2>1. \A T \in Upto(0) : T = {}
    <3> SUFFICES ASSUME NEW T \in SUBSET S, Cardinality(T) <= 0
                 PROVE  T = {}
      OBVIOUS
    <3>1. Cardinality(T) \in Nat /\ (Cardinality(T) = 0 <=> T = {})
      BY <1>1, Zenon
    <3>2. Cardinality(T) = 0
      BY <3>1
    <3> QED BY <3>1, <3>2, Zenon
  <2>2. Recursion(f, Upto(0), V, base, next, step)
    BY <2>1 DEF Recursion
  <2> QED BY <2>2
<1>3. ASSUME NEW n \in Nat, n \in Known PROVE n + 1 \in Known
  <2>1. PICK f : Recursion(f, Upto(n), V, base, next, step)
    BY <1>3
  <2> DEFINE g == [T \in Upto(n + 1) |->
                     IF T \in Upto(n) THEN f[T]
                     ELSE step[<<next[T], f[T \ {next[T]}]>>]]
  <2>2. ASSUME NEW T \in Upto(n + 1), T # {}
        PROVE  /\ T \ {next[T]} \in Upto(n) /\ T \ {next[T]} \in Upto(n + 1)
               /\ next[T] \in S
    <3> DEFINE R == T \ {next[T]}
    <3>1. /\ Cardinality(T) \in Nat /\ Cardinality(T) <= n + 1
          /\ R \in SUBSET S /\ Cardinality(R) = Cardinality(T) - 1
      BY <1>1, <2>2
    <3>2. Cardinality(R) <= n /\ Cardinality(R) <= n + 1
      <4> HIDE DEF R
      <4> QED BY <3>1
    <3>3. next[T] \in S
      BY <2>2
    <3> QED BY <3>1, <3>2, <3>3
  <2>3. ASSUME NEW T \in Upto(n + 1), T \notin Upto(n) PROVE T # {}
    <3>1. SUFFICES ASSUME T = {} PROVE FALSE
      OBVIOUS
    <3>2. Cardinality(T) = 0
      BY <3>1, FS_EmptySet, Zenon
    <3> QED BY <2>3, <3>2
  <2>4. g \in [Upto(n + 1) -> V]
    <3> SUFFICES ASSUME NEW T \in Upto(n + 1) PROVE g[T] \in V
      OBVIOUS
    <3>1. CASE T \in Upto(n)
      BY <2>1, <3>1 DEF Recursion
    <3>2. CASE T \notin Upto(n)
      <4>1. T \ {next[T]} \in Upto(n) /\ next[T] \in S
        <5> HIDE DEF Upto
        <5> QED BY <2>2, <2>3, <3>2
      <4>2. f[T \ {next[T]}] \in V
        BY <2>1, <4>1 DEF Recursion
      <4> QED BY <3>2, <4>1, <4>2
    <3> QED BY <3>1, <3>2
  <2>5. ASSUME NEW T \in Upto(n + 1)
        PROVE  g[T] = IF T = {} THEN base
                      ELSE step[<<next[T], g[T \ {next[T]}]>>]
    <3>1. T # {} => g[T \ {next[T]}] = f[T \ {next[T]}]
      <4> HIDE DEF Upto
      <4> QED BY <2>2
    <3>2. CASE T \in Upto(n)
      <4>1. g[T] = f[T]
        BY <3>2
      <4>2. f[T] = IF T = {} THEN base
                   ELSE step[<<next[T], f[T \ {next[T]}]>>]
        <5> HIDE DEF Upto
        <5> QED BY <2>1, <3>2 DEF Recursion
      <4> HIDE DEF g, Upto
      <4> QED BY <3>1, <4>1, <4>2
    <3>3. CASE T \notin Upto(n)
      <4>1. g[T] = step[<<next[T], f[T \ {next[T]}]>>] /\ T # {}
        <5> HIDE DEF Upto
        <5> QED BY <3>3, <2>3
      <4> HIDE DEF g, Upto
      <4> QED BY <3>1, <4>1
    <3> QED BY <3>2, <3>3
  <2> HIDE DEF g
  <2>6. Recursion(g, Upto(n + 1), V, base, next, step)
    BY <2>4, <2>5 DEF Recursion
  <2> HIDE DEF Upto
  <2> QED BY <2>6
<1>4. Cardinality(S) \in Known
  <2> HIDE DEF Known
  <2>1. Nat \subseteq Known
    BY <1>2, <1>3, Induction
  <2> QED BY <2>1, <1>1
<1>5. Upto(Cardinality(S)) = SUBSET S
  BY FS_Subset
<1>6. PICK f : Recursion(f, Upto(Cardinality(S)), V, base, next, step)
  <2> HIDE DEF Upto
  <2> QED BY <1>4
<1>7. Recursion(f, SUBSET S, V, base, next, step)
  <2> HIDE DEF Upto
  <2> QED BY <1>5, <1>6, Zenon
<1> QED BY <1>7

(* The greatest number of a set.                                           *)
LEMMA MaxOfPart ==
  ASSUME NEW n \in Nat, NEW T \in SUBSET (1 .. n), T # {}
  PROVE  Max(T) \in T /\ \A k \in T : k <= Max(T)
<1>1. \E x \in T : \A y \in T : x >= y
  <2> DEFINE R == {r \in Nat : n - r \in T}
  <2>1. PICK k \in T : TRUE
    OBVIOUS
  <2>2. n - k \in Nat /\ n - (n - k) = k
    OBVIOUS
  <2>3. R \in SUBSET Nat /\ R # {}
    BY <2>1, <2>2
  <2>4. PICK r \in R : \A q \in R : r <= q
    BY <2>3, LeastOf
  <2>5. ASSUME NEW y \in T PROVE n - r >= y
    <3>1. n - y \in R
      <4>1. n - (n - y) = y /\ n - y \in Nat
        OBVIOUS
      <4> QED BY <4>1
    <3>2. r <= n - y /\ r \in Nat /\ y \in Nat
      BY <2>4, <3>1
    <3> QED BY <3>2
  <2> QED BY <2>4, <2>5
<1> QED BY <1>1 DEF Max

(* A fold from 1 to n takes them in this order.                            *)
LEMMA MaxOfFirst ==
  ASSUME NEW n \in Nat, n # 0
  PROVE  Max(1 .. n) = n /\ (1 .. n) \ {n} = 1 .. n - 1 /\ 1 .. n # {}
<1>1. 1 .. n \in SUBSET (1 .. n) /\ 1 .. n # {}
  OBVIOUS
<1>2. Max(1 .. n) \in 1 .. n /\ \A k \in 1 .. n : k <= Max(1 .. n)
  BY <1>1, MaxOfPart
<1> QED BY <1>2


(* f gives what folding a part of 1 .. n makes of base.                    *)
Folding(f, n, V, base, step) ==
  /\ f \in [SUBSET (1 .. n) -> V]
  /\ \A T \in SUBSET (1 .. n) :
       f[T] = IF T = {} THEN base ELSE step[<<Max(T), f[T \ {Max(T)}]>>]

(* A fold over 1 .. n is such a recursion: the member it takes last is the *)
(* greatest.                                                               *)
LEMMA FoldExists ==
  ASSUME NEW n \in Nat, NEW V, NEW base \in V,
         NEW step \in [(1 .. n) \X V -> V]
  PROVE  \E f : Folding(f, n, V, base, step)
<1> DEFINE S == 1 .. n
           next == [T \in (SUBSET S) \ {{}} |-> Max(T)]
<1>1. /\ next \in [(SUBSET S) \ {{}} -> S]
      /\ \A T \in (SUBSET S) \ {{}} : next[T] \in T /\ next[T] = Max(T)
  <2>1. ASSUME NEW T \in SUBSET (1 .. n), T # {} PROVE Max(T) \in T
    BY <2>1, MaxOfPart
  <2> QED BY <2>1
<1>2. IsFiniteSet(S)
  BY FS_Interval
<1> HIDE DEF next
<1>3. PICK f : Recursion(f, SUBSET S, V, base, next, step)
  <2>1. step \in [S \X V -> V]
    OBVIOUS
  <2> HIDE DEF S
  <2>2. \A T \in (SUBSET S) \ {{}} : next[T] \in T
    BY <1>1
  <2> QED BY <1>1, <1>2, <2>1, <2>2, RecursionExists
<1>4. ASSUME NEW T \in SUBSET S
      PROVE  f[T] = IF T = {} THEN base
                    ELSE step[<<Max(T), f[T \ {Max(T)}]>>]
  <2>1. f[T] = IF T = {} THEN base
               ELSE step[<<next[T], f[T \ {next[T]}]>>]
    BY <1>3 DEF Recursion
  <2>2. T # {} => next[T] = Max(T)
    BY <1>1
  <2> QED BY <2>1, <2>2
<1> QED BY <1>3, <1>4 DEF Recursion, Folding

(* One turn after the other.                                               *)
LEMMA ByTurns ==
  ASSUME NEW n \in Nat, NEW T, 0 \in T, \A k \in 1 .. n : k - 1 \in T => k \in T
  PROVE  0 .. n \subseteq T
<1> DEFINE R == {k \in Nat : k <= n => k \in T}
<1>1. 0 \in R
  OBVIOUS
<1>2. ASSUME NEW k \in Nat, k \in R PROVE k + 1 \in R
  <2> SUFFICES ASSUME k + 1 <= n PROVE k + 1 \in T
    OBVIOUS
  <2>1. k + 1 \in 1 .. n /\ (k + 1) - 1 = k
    OBVIOUS
  <2> QED BY <1>2, <2>1
<1>3. Nat \subseteq R
  <2> HIDE DEF R
  <2> QED BY <1>1, <1>2, Induction
<1> QED BY <1>3

-----------------------------------------------------------------------------
(* The best match: find_best_match.                                        *)

(* What the search keeps, and what it reads of an older element.           *)
MatchState == [index : Nat, value : Nat, distance : Nat, stop : BOOLEAN]
Elder == [difference : Nat, sent : BOOLEAN]

(* One turn of the search has the right type.                              *)
LEMMA ConsiderIs ==
  ASSUME NEW older, NEW n \in Nat, older \in [1 .. n -> Elder],
         NEW m \in MatchState, NEW i \in 1 .. n
  PROVE  Consider(older, m, i) \in MatchState
<1>1. /\ older[i].difference \in Nat /\ m.distance \in Nat
      /\ older[i].difference + m.distance \in Nat /\ m.distance + 1 \in Nat
  BY DEF Elder, MatchState
<1> DEFINE c == Consider(older, m, i)
<1>2. \/ c = [m EXCEPT !.stop = TRUE] \/ c = m
      \/ c = [m EXCEPT !.index = i,
                       !.value = older[i].difference + m.distance,
                       !.distance = @ + 1]
      \/ c = [m EXCEPT !.distance = @ + 1]
  BY DEF Consider, Difference
<1> HIDE DEF c
<1>3. ASSUME c = [m EXCEPT !.stop = TRUE] \/ c = m PROVE c \in MatchState
  BY <1>3 DEF MatchState
<1>4. ASSUME c = [m EXCEPT !.index = i,
                          !.value = older[i].difference + m.distance,
                          !.distance = @ + 1]
      PROVE  c \in MatchState
  <2>1. c = [index |-> i, value |-> older[i].difference + m.distance,
             distance |-> m.distance + 1, stop |-> m.stop]
    BY <1>4 DEF MatchState
  <2>2. i \in Nat /\ m.stop \in BOOLEAN
    BY DEF MatchState
  <2> QED BY <1>1, <2>1, <2>2 DEF MatchState
<1>5. ASSUME c = [m EXCEPT !.distance = @ + 1] PROVE c \in MatchState
  BY <1>1, <1>5 DEF MatchState
<1>6. c \in MatchState
  BY <1>2, <1>3, <1>4, <1>5
<1> QED BY <1>6 DEF c

(* find_best_match looks at one element after the other.                   *)
LEMMA MatchTurns ==
  ASSUME NEW n \in Nat, NEW older, older \in [1 .. n -> Elder]
  PROVE  \E m \in [0 .. n -> MatchState] :
           /\ m[0] = NoMatch /\ m[n] = BestMatch(older)
           /\ \A k \in 1 .. n : m[k] = Consider(older, m[k - 1], k)
<1> DEFINE places == [i \in DOMAIN older |-> i]
           Turn(f, T) ==
             IF T = {} THEN NoMatch
             ELSE LET i == Max(T)
                  IN  Consider(older, f[T \ {i}], places[i])
           fold == CHOOSE f : f = [T \in SUBSET (DOMAIN places) |-> Turn(f, T)]
           step == [x \in (1 .. n) \X MatchState |-> Consider(older, x[2], x[1])]
<1>1. BestMatch(older) = fold[DOMAIN places]
  BY DEF BestMatch, FoldLeft, MapThenFoldSet
<1>2. DOMAIN places = 1 .. n /\ \A i \in 1 .. n : places[i] = i
  OBVIOUS
<1>3. step \in [(1 .. n) \X MatchState -> MatchState]
  BY ConsiderIs
<1>4. NoMatch \in MatchState
  BY DEF NoMatch, MatchState
<1>5. PICK f : Folding(f, n, MatchState, NoMatch, step)
  <2> HIDE DEF step, fold, places, Turn
  <2> QED BY <1>3, <1>4, FoldExists
<1> HIDE DEF places
<1>6. ASSUME NEW T \in SUBSET (1 .. n) PROVE f[T] = Turn(f, T)
  <2>1. CASE T = {}
    BY <1>5, <2>1 DEF Folding
  <2>2. CASE T # {}
    <3>1. Max(T) \in T
      BY <2>2, MaxOfPart
    <3> DEFINE i == Max(T)
    <3> HIDE DEF i
    <3>2. i \in 1 .. n /\ f[T \ {i}] \in MatchState
      BY <1>5, <3>1 DEF i, Folding
    <3>3. f[T] = step[<<i, f[T \ {i}]>>]
      BY <1>5, <2>2 DEF i, Folding
    <3>4. f[T] = Consider(older, f[T \ {i}], i)
      BY <3>2, <3>3
    <3> QED BY <1>2, <2>2, <3>2, <3>4 DEF i
  <2> QED BY <2>1, <2>2
<1> HIDE DEF step, Turn
<1>7. f = [T \in SUBSET (1 .. n) |-> Turn(f, T)]
  BY <1>5, <1>6 DEF Folding
<1>8. fold = [T \in SUBSET (1 .. n) |-> Turn(fold, T)]
  BY <1>2, <1>7
<1> HIDE DEF fold
<1>9. ASSUME NEW k \in 1 .. n
      PROVE  fold[1 .. k] = Consider(older, fold[1 .. k - 1], k)
  <2>1. Max(1 .. k) = k /\ (1 .. k) \ {k} = 1 .. k - 1 /\ 1 .. k # {}
    <3>1. k \in Nat /\ k # 0
      OBVIOUS
    <3> QED BY <3>1, MaxOfFirst
  <2>2. fold[1 .. k] = Turn(fold, 1 .. k)
    BY <1>8
  <2>3. Turn(fold, 1 .. k) = Consider(older, fold[1 .. k - 1], places[k])
    BY <2>1 DEF Turn
  <2> QED BY <1>2, <2>2, <2>3
<1>10. fold[1 .. 0] = NoMatch
  BY <1>8 DEF Turn
<1> DEFINE m == [k \in 0 .. n |-> fold[1 .. k]]
<1>11. m[0] = NoMatch /\ m[n] = BestMatch(older)
  BY <1>1, <1>2, <1>10
<1>12. ASSUME NEW k \in 1 .. n PROVE m[k] = Consider(older, m[k - 1], k)
  BY <1>9
<1> HIDE DEF m
<1>13. \A k \in 0 .. n : m[k] \in MatchState
  <2> DEFINE T == {k \in 0 .. n : m[k] \in MatchState}
  <2>1. 0 \in T
    BY <1>4, <1>11
  <2>2. \A k \in 1 .. n : k - 1 \in T => k \in T
    BY <1>12, ConsiderIs
  <2>3. 0 .. n \subseteq T
    <3> HIDE DEF T
    <3> QED BY <2>1, <2>2, ByTurns
  <2> QED BY <2>3
<1>14. m \in [0 .. n -> MatchState]
  BY <1>13 DEF m
<1> QED BY <1>11, <1>12, <1>14

(* How many of the older elements before i the client has.                 *)
Age(older, i) == Cardinality({k \in 1 .. i - 1 : older[k].sent})

(* How many of the elements before the i-th the client has.                *)
LEMMA AgeIs ==
  ASSUME NEW n \in Nat, NEW older, older \in [1 .. n -> Elder]
  PROVE  /\ Age(older, 1) = 0
         /\ \A i \in 1 .. n + 1 : Age(older, i) \in Nat
         /\ \A i \in 1 .. n :
              Age(older, i + 1) = IF older[i].sent THEN Age(older, i) + 1
                                  ELSE Age(older, i)
         /\ \A i, k \in 1 .. n + 1 : i <= k => Age(older, i) <= Age(older, k)
<1> DEFINE Sent(i) == {k \in 1 .. i - 1 : older[k].sent}
<1>1. ASSUME NEW i \in 1 .. n + 1
      PROVE  IsFiniteSet(Sent(i)) /\ Age(older, i) \in Nat
  <2>1. Sent(i) \in SUBSET (1 .. i - 1) /\ IsFiniteSet(1 .. i - 1)
    BY FS_Interval
  <2>2. IsFiniteSet(Sent(i))
    <3> HIDE DEF Sent
    <3> QED BY <2>1, FS_Subset
  <2> QED BY <2>2, FS_CardinalityType DEF Age
<1>2. Age(older, 1) = 0
  <2>1. Sent(1) = {}
    OBVIOUS
  <2> QED BY <2>1, FS_EmptySet DEF Age
<1>3. ASSUME NEW i \in 1 .. n
      PROVE  Age(older, i + 1) = IF older[i].sent THEN Age(older, i) + 1
                                 ELSE Age(older, i)
  <2>1. CASE older[i].sent
    <3>1. Sent(i + 1) = Sent(i) \cup {i} /\ i \notin Sent(i)
      BY <2>1
    <3>2. IsFiniteSet(Sent(i))
      <4>1. i \in 1 .. n + 1
        OBVIOUS
      <4> QED BY <1>1, <4>1
    <3> HIDE DEF Sent
    <3>3. Cardinality(Sent(i) \cup {i}) = Cardinality(Sent(i)) + 1
      BY <3>1, <3>2, FS_AddElement
    <3>4. Age(older, i + 1) = Cardinality(Sent(i + 1))
          /\ Age(older, i) = Cardinality(Sent(i))
      BY Zenon DEF Age, Sent
    <3> QED BY <2>1, <3>1, <3>3, <3>4
  <2>2. CASE ~older[i].sent
    <3>1. Sent(i + 1) = Sent(i)
      BY <2>2
    <3> QED BY <2>2, <3>1 DEF Age
  <2> QED BY <2>1, <2>2
<1>4. ASSUME NEW i \in 1 .. n + 1, NEW k \in 1 .. n + 1, i <= k
      PROVE  Age(older, i) <= Age(older, k)
  <2>1. Sent(i) \in SUBSET Sent(k)
    BY <1>4
  <2>2. IsFiniteSet(Sent(k))
    BY <1>1
  <2> HIDE DEF Sent
  <2>3. Cardinality(Sent(i)) <= Cardinality(Sent(k))
    BY <2>1, <2>2, FS_Subset
  <2> QED BY <2>3 DEF Age, Sent
<1> QED BY <1>1, <1>2, <1>3, <1>4

(* After k turns.                                                          *)
BestSoFar(older, m, k) ==
  LET value(i) == older[i].difference + Age(older, i)
      found(i) == m.index # 0 /\ m.value <= value(i)
  IN  /\ m.index # 0 =>
           /\ m.index \in DOMAIN older /\ older[m.index].sent
           /\ m.value = value(m.index)
      /\ ~m.stop =>
           /\ m.distance = Age(older, k + 1)
           /\ \A i \in 1 .. k : older[i].sent => found(i)
      /\ m.stop =>
           \A i \in DOMAIN older :
             older[i].sent /\ value(i) <= MaxMatch => found(i)

(* One more turn: what the search has is the best of one element more.     *)
LEMMA NextBest ==
  ASSUME NEW n \in Nat, NEW older, older \in [1 .. n -> Elder],
         NEW m \in MatchState, NEW k \in 1 .. n, BestSoFar(older, m, k - 1)
  PROVE  BestSoFar(older, Consider(older, m, k), k)
<1> DEFINE a(i) == Age(older, i)
           value(i) == older[i].difference + a(i)
           Stops == m.stop \/ (m.index # 0 /\ m.value <= m.distance)
                           \/ m.distance > MaxMatch
           c == Consider(older, m, k)
<1>1. /\ \A i \in 1 .. n + 1 : a(i) \in Nat
      /\ a(k + 1) = IF older[k].sent THEN a(k) + 1 ELSE a(k)
      /\ \A i \in 1 .. n : k <= i => a(k) <= a(i)
  BY AgeIs
<1>2. \A i \in 1 .. n : older[i].difference \in Nat /\ older[i].sent \in BOOLEAN
  BY DEF Elder
<1>3. /\ m.index \in Nat /\ m.value \in Nat /\ m.distance \in Nat
      /\ m.stop \in BOOLEAN /\ DOMAIN older = 1 .. n /\ MaxMatch \in Nat
  BY MatchingAssumption DEF MatchState
<1> HIDE DEF a
<1>4. /\ m.index # 0 => /\ m.index \in 1 .. n /\ older[m.index].sent
                        /\ m.value = value(m.index)
      /\ ~m.stop => /\ m.distance = a(k)
                    /\ \A i \in 1 .. k - 1 :
                         older[i].sent => m.index # 0 /\ m.value <= value(i)
      /\ m.stop => \A i \in 1 .. n : older[i].sent /\ value(i) <= MaxMatch
                                       => m.index # 0 /\ m.value <= value(i)
  BY <1>3 DEF BestSoFar, a
<1>5. CASE Stops
  <2>1. /\ c.index = m.index /\ c.value = m.value /\ c.stop
    BY <1>5 DEF Consider, MatchState
  <2>2. ASSUME NEW i \in 1 .. n, older[i].sent, value(i) <= MaxMatch
        PROVE  m.index # 0 /\ m.value <= value(i)
    <3>1. CASE m.stop
      BY <1>4, <2>2, <3>1
    <3>2. CASE ~m.stop /\ i < k
      BY <1>4, <2>2, <3>2
    <3>3. CASE ~m.stop /\ k <= i
      <4>1. m.distance <= a(i) /\ a(i) <= value(i)
        BY <1>1, <1>2, <1>4, <3>3
      <4>2. a(i) \in Nat /\ value(i) \in Nat
        BY <1>1, <1>2
      <4> HIDE DEF value
      <4>3. ~ (m.distance > MaxMatch)
        BY <1>3, <2>2, <4>1, <4>2
      <4> QED BY <1>3, <1>5, <3>3, <4>1, <4>2, <4>3
    <3> QED BY <3>1, <3>2, <3>3
  <2> HIDE DEF c
  <2>3. BestSoFar(older, c, k)
    BY <1>3, <1>4, <2>1, <2>2 DEF BestSoFar, a
  <2> QED BY <2>3 DEF c
<1>6. CASE ~Stops /\ ~older[k].sent
  <2>1. c = m /\ ~m.stop
    BY <1>6 DEF Consider
  <2>2. \A i \in 1 .. k : older[i].sent => i \in 1 .. k - 1
    BY <1>6
  <2>3. BestSoFar(older, m, k)
    BY <1>1, <1>3, <1>4, <1>6, <2>1, <2>2 DEF BestSoFar, a
  <2> QED BY <2>1, <2>3
<1>7. CASE ~Stops /\ older[k].sent
  <2> DEFINE better == m.index = 0 \/ value(k) < m.value
  <2>1. /\ c.index = (IF better THEN k ELSE m.index)
        /\ c.value = (IF better THEN value(k) ELSE m.value)
        /\ c.distance = m.distance + 1 /\ ~c.stop
    BY <1>4, <1>7 DEF Consider, Difference, MatchState
  <2>2. \A i \in 1 .. n : value(i) \in Nat
    BY <1>1, <1>2
  <2> HIDE DEF c
  <2>3. c.distance = a(k + 1)
    BY <1>1, <1>4, <1>7, <2>1
  <2>4. ASSUME NEW i \in 1 .. k, older[i].sent
        PROVE  c.index # 0 /\ c.value <= value(i)
    <3>1. CASE i = k
      BY <1>3, <2>1, <2>2, <3>1
    <3>2. CASE i < k
      BY <1>3, <1>4, <1>7, <2>1, <2>2, <2>4, <3>2
    <3> QED BY <3>1, <3>2
  <2>5. c.index # 0 => /\ c.index \in 1 .. n /\ older[c.index].sent
                       /\ c.value = value(c.index)
    BY <1>4, <1>7, <2>1
  <2>6. BestSoFar(older, c, k)
    BY <1>3, <2>1, <2>3, <2>4, <2>5 DEF BestSoFar, a
  <2> QED BY <2>6 DEF c
<1> QED BY <1>2, <1>5, <1>6, <1>7

(* find_best_match stops early, once no later element can be better or the *)
(* rest is too old; it loses nothing by that, however many elements there  *)
(* are.                                                                    *)
THEOREM MatchCorrect ==
  ASSUME NEW older \in Seq(Elder)
  PROVE  MatchIsBest(older)
<1> DEFINE n == Len(older)
<1>1. n \in Nat /\ older \in [1 .. n -> Elder]
  BY LenProperties
<1> HIDE DEF n
<1>2. PICK m \in [0 .. n -> MatchState] :
        /\ m[0] = NoMatch /\ m[n] = BestMatch(older)
        /\ \A k \in 1 .. n : m[k] = Consider(older, m[k - 1], k)
  BY <1>1, MatchTurns
<1> DEFINE T == {k \in 0 .. n : BestSoFar(older, m[k], k)}
<1>3. 0 \in T
  <2>1. BestSoFar(older, NoMatch, 0)
    BY <1>1, AgeIs DEF NoMatch, BestSoFar
  <2> QED BY <1>1, <1>2, <2>1
<1>4. \A k \in 1 .. n : k - 1 \in T => k \in T
  BY <1>1, <1>2, NextBest
<1>5. 0 .. n \subseteq T
  <2> HIDE DEF T
  <2> QED BY <1>1, <1>3, <1>4, ByTurns
<1> DEFINE b == BestMatch(older)
<1>6. b \in MatchState /\ BestSoFar(older, b, n)
  BY <1>1, <1>2, <1>5
<1> HIDE DEF b
<1>7. /\ DOMAIN older = 1 .. n
      /\ \A i \in 1 .. n : Age(older, i) \in Nat /\ older[i].difference \in Nat
      /\ MaxMatch \in Nat /\ b.value \in Nat
  <2>1. \A i \in 1 .. n : Age(older, i) \in Nat
    <3>1. \A i \in 1 .. n : i \in 1 .. n + 1
      BY <1>1
    <3> QED BY <1>1, <3>1, AgeIs
  <2>2. \A i \in 1 .. n : older[i].difference \in Nat
    BY <1>1 DEF Elder
  <2> QED BY <1>1, <1>6, <2>1, <2>2, MatchingAssumption DEF MatchState
<1> DEFINE value(i) == older[i].difference + Age(older, i)
           sent == {i \in DOMAIN older : older[i].sent}
<1>8. b.index # 0 => b.index \in sent /\ b.value = value(b.index)
  BY <1>6 DEF BestSoFar
<1>9. ASSUME NEW i \in sent, value(i) <= MaxMatch
      PROVE  Usable(b) /\ b.value <= value(i)
  <2>1. b.index # 0 /\ b.value <= value(i)
    BY <1>6, <1>7, <1>9 DEF BestSoFar, MatchState
  <2> QED BY <1>7, <1>9, <2>1 DEF Usable
<1> QED BY <1>8, <1>9 DEF MatchIsBest, Age, b

-----------------------------------------------------------------------------
(* Scrolling and the regions of a frame: initFrameRegions.                 *)

(* Frames of a size that initFrameRegions compares.                        *)
IsFrame(f) == f.w \in Nat /\ f.h \in Nat /\ LargeEnough(f)

-----------------------------------------------------------------------------
(* Scrolling.                                                              *)

(* A block that is not too small starts and ends in the source and, with   *)
(* MaxShift lines to spare, in the destination; there are as many lines    *)
(* above BlockDown.                                                        *)
LEMMA BlocksInside ==
  ASSUME NEW src, NEW dst, IsFrame(src), IsFrame(dst), NEW up \in BOOLEAN,
         ~TooSmall(IF up THEN BlockUp(src, dst) ELSE BlockDown(src, dst))
  PROVE  LET b == IF up THEN BlockUp(src, dst) ELSE BlockDown(src, dst)
         IN  /\ b.x \in Nat /\ b.y \in Nat /\ b.w \in Nat /\ b.h \in Nat
             /\ b.x + b.w <= src.w /\ b.x + b.w <= dst.w
             /\ b.y + b.h <= src.h /\ b.y + b.h + MaxShift(src) <= dst.h
             /\ ~up => MaxShift(src) <= b.y
<1>1. /\ src.w \in Nat /\ src.h \in Nat /\ dst.w \in Nat /\ dst.h \in Nat
  BY DEF IsFrame
<1>2. \A n \in Nat : /\ n \div 2 \in Nat /\ n \div 3 \in Nat
                     /\ n \div 5 \in Nat /\ n \div 10 \in Nat
                     /\ n \div 10 + (n \div 2 - n \div 5) <= n
                     /\ n \div 2 + (n \div 2 - n \div 10) <= n
                     /\ n \div 2 <= n /\ n \div 10 <= n \div 2
                     /\ n \div 5 <= n \div 2 /\ n \div 3 <= n \div 2
  OBVIOUS
<1>3. CASE up
  BY <1>1, <1>2, <1>3 DEF BlockUp, Block, Room, MaxShift, TooSmall
<1>4. CASE ~up
  BY <1>1, <1>2, <1>4 DEF BlockDown, Block, Room, MaxShift, TooSmall
<1>5. QED
  BY <1>3, <1>4

(* checkShiftedRegion never reads beyond the pixels of a frame, for which  *)
(* it has but a debug message.                                             *)
THEOREM SamplesInside ==
  ASSUME NEW src, NEW dst, IsFrame(src), IsFrame(dst)
  PROVE  SamplesAreInside(src, dst)
<1> DEFINE Chosen(up) == IF up THEN BlockUp(src, dst) ELSE BlockDown(src, dst)
<1> SUFFICES ASSUME NEW up \in BOOLEAN, NEW shift \in 0 .. MaxShift(src) - 1,
                    ~TooSmall(Chosen(up)), NEW p \in Samples(Chosen(up))
             PROVE  /\ Inside(p, src.w, src.h)
                    /\ Inside(Below(p, IF up THEN shift ELSE -shift),
                              dst.w, dst.h)
  BY DEF SamplesAreInside
<1> DEFINE b == Chosen(up)
<1>1. /\ b.x \in Nat /\ b.y \in Nat /\ b.w \in Nat /\ b.h \in Nat
      /\ b.x + b.w <= src.w /\ b.x + b.w <= dst.w
      /\ b.y + b.h <= src.h /\ b.y + b.h + MaxShift(src) <= dst.h
      /\ ~up => MaxShift(src) <= b.y
  BY BlocksInside
<1>2. /\ p[1] \in b.x .. b.x + b.w - 1
      /\ p[2] \in b.y .. b.y + b.h - 1
  BY DEF Samples
<1>3. /\ src.w \in Nat /\ src.h \in Nat /\ dst.w \in Nat /\ dst.h \in Nat
      /\ MaxShift(src) \in Nat
  BY DEF IsFrame, MaxShift
<1> HIDE DEF b
<1>4. QED
  BY <1>1, <1>2, <1>3 DEF Inside, Below

-----------------------------------------------------------------------------
(* The regions of a frame.                                                 *)

(* The rectangles of a frame, with no negative size.                       *)
Rectangles == [x : Nat, y : Nat, w : Nat, h : Nat]

(* Regions that start in the same line are of the same height.             *)
Aligned(regions) ==
  \A i, k \in 0 .. 8 :
    ~Empty(regions[i]) /\ ~Empty(regions[k]) /\ regions[i].y = regions[k].y
      => regions[i].h = regions[k].h

(* The common region, which lies in the frame.                             *)
IsBase(w, h, base) ==
  /\ w \in Nat /\ h \in Nat /\ base \in Rectangles
  /\ base.x + base.w <= w /\ base.y + base.h <= h

(* Three columns and three lines of regions.                               *)
LEMMA RegionsValue ==
  ASSUME NEW w, NEW h, NEW base, IsBase(w, h, base), NEW i \in 0 .. 8
  PROVE  LET r == RegionsAround(w, h, base)[i]
             right == base.x + base.w
             below == base.y + base.h
         IN  /\ i \in {0, 3, 5} => r.x = 0 /\ r.w = base.x
             /\ i \in {1, 6, 8} => r.x = base.x /\ r.w = base.w
             /\ i \in {2, 4, 7} => r.x = right /\ r.w = w - right
             /\ i \in {0, 1, 2} => r.y = 0 /\ r.h = base.y
             /\ i \in {3, 4, 8} => r.y = base.y /\ r.h = base.h
             /\ i \in {5, 6, 7} => r.y = below /\ r.h = h - below
<1>1. base.x \in Nat /\ base.y \in Nat /\ base.w \in Nat /\ base.h \in Nat
      /\ w \in Nat /\ h \in Nat
  BY DEF IsBase, Rectangles
<1> DEFINE place == << <<1, 1>>, <<1, 2>>, <<1, 3>>, <<2, 1>>, <<2, 3>>,
                      <<3, 1>>, <<3, 2>>, <<3, 3>>, <<2, 2>> >>
           l == Cuts(h, base.y, base.h)[place[i + 1][1]]
           c == Cuts(w, base.x, base.w)[place[i + 1][2]]
<1>2. RegionsAround(w, h, base)[i]
        = [x |-> c[1], y |-> l[1], w |-> c[2], h |-> l[2]]
  BY DEF RegionsAround
<1>3. /\ place[1] = <<1, 1>> /\ place[2] = <<1, 2>> /\ place[3] = <<1, 3>>
      /\ place[4] = <<2, 1>> /\ place[5] = <<2, 3>> /\ place[6] = <<3, 1>>
      /\ place[7] = <<3, 2>> /\ place[8] = <<3, 3>> /\ place[9] = <<2, 2>>
  OBVIOUS
<1> HIDE DEF place
<1>4. /\ i \in {0, 3, 5} => place[i + 1][2] = 1
      /\ i \in {1, 6, 8} => place[i + 1][2] = 2
      /\ i \in {2, 4, 7} => place[i + 1][2] = 3
      /\ i \in {0, 1, 2} => place[i + 1][1] = 1
      /\ i \in {3, 4, 8} => place[i + 1][1] = 2
      /\ i \in {5, 6, 7} => place[i + 1][1] = 3
  BY <1>3
<1>5. LET strip == Cuts(w, base.x, base.w)
      IN  /\ strip[1] = <<0, base.x>> /\ strip[2] = <<base.x, base.w>>
          /\ strip[3] = <<base.x + base.w, w - base.x - base.w>>
  BY DEF Cuts
<1>6. LET strip == Cuts(h, base.y, base.h)
      IN  /\ strip[1] = <<0, base.y>> /\ strip[2] = <<base.y, base.h>>
          /\ strip[3] = <<base.y + base.h, h - base.y - base.h>>
  BY DEF Cuts
<1>7. /\ i \in {0, 3, 5} => c = <<0, base.x>>
      /\ i \in {1, 6, 8} => c = <<base.x, base.w>>
      /\ i \in {2, 4, 7} => c = <<base.x + base.w, w - base.x - base.w>>
  BY <1>4, <1>5
<1>8. /\ i \in {0, 1, 2} => l = <<0, base.y>>
      /\ i \in {3, 4, 8} => l = <<base.y, base.h>>
      /\ i \in {5, 6, 7} => l = <<base.y + base.h, h - base.y - base.h>>
  BY <1>4, <1>6
<1> HIDE DEF l, c
<1>9. QED
  BY <1>1, <1>2, <1>7, <1>8

(* Whatever rectangle the two frames have in common, the regions around it *)
(* cover the frame and do not overlap: no pixel is missing at the client   *)
(* and none is sent twice (find_common_regions' caller, initFrameRegions). *)
THEOREM RegionsTile ==
  ASSUME NEW w, NEW h, NEW base, IsBase(w, h, base)
  PROVE  LET r == RegionsAround(w, h, base) IN Tiles(r, w, h) /\ Aligned(r)
<1> DEFINE r == RegionsAround(w, h, base)
<1>1. base.x \in Nat /\ base.y \in Nat /\ base.w \in Nat /\ base.h \in Nat
      /\ w \in Nat /\ h \in Nat
      /\ base.x + base.w <= w /\ base.y + base.h <= h
  BY DEF IsBase, Rectangles
<1>2. ASSUME NEW i \in 0 .. 8
      PROVE  /\ \/ i \in {0, 3, 5} /\ r[i].x = 0 /\ r[i].w = base.x
                \/ i \in {1, 6, 8} /\ r[i].x = base.x /\ r[i].w = base.w
                \/ /\ i \in {2, 4, 7}
                   /\ r[i].x = base.x + base.w
                   /\ r[i].w = w - (base.x + base.w)
             /\ \/ i \in {0, 1, 2} /\ r[i].y = 0 /\ r[i].h = base.y
                \/ i \in {3, 4, 8} /\ r[i].y = base.y /\ r[i].h = base.h
                \/ /\ i \in {5, 6, 7}
                   /\ r[i].y = base.y + base.h
                   /\ r[i].h = h - (base.y + base.h)
  <2>1. \/ i \in {0, 3, 5} \/ i \in {1, 6, 8} \/ i \in {2, 4, 7}
    OBVIOUS
  <2>2. \/ i \in {0, 1, 2} \/ i \in {3, 4, 8} \/ i \in {5, 6, 7}
    OBVIOUS
  <2>3. QED
    BY <2>1, <2>2, RegionsValue
<1> HIDE DEF r
<1>3. Aligned(r)
  <2>1. ASSUME NEW i \in 0 .. 8, NEW k \in 0 .. 8, r[i].h # 0, r[k].h # 0,
               r[i].y = r[k].y
        PROVE  r[i].h = r[k].h
    <3>1. CASE i \in {0, 1, 2}
      BY <1>1, <1>2, <2>1, <3>1
    <3>2. CASE i \in {3, 4, 8}
      BY <1>1, <1>2, <2>1, <3>2
    <3>3. CASE i \in {5, 6, 7}
      <4>1. /\ r[i].y = base.y + base.h
            /\ r[i].h = h - (base.y + base.h)
        BY <1>2, <3>3
      <4>2. CASE k \in {0, 1, 2}
        <5>1. r[k].y = 0 /\ r[k].h = base.y
          BY <1>2, <4>2
        <5>2. base.y + base.h = 0 /\ base.y # 0
          BY <2>1, <4>1, <5>1
        <5>3. QED
          BY <1>1, <5>2
      <4>3. CASE k \in {3, 4, 8}
        <5>1. r[k].y = base.y /\ r[k].h = base.h
          BY <1>2, <4>3
        <5>2. base.y + base.h = base.y /\ base.h # 0
          BY <2>1, <4>1, <5>1
        <5>3. QED
          BY <1>1, <5>2
      <4>4. CASE k \in {5, 6, 7}
        BY <1>2, <4>1, <4>4
      <4>5. QED
        BY <4>2, <4>3, <4>4
    <3>4. QED
      BY <3>1, <3>2, <3>3
  <2>2. QED
    BY <2>1 DEF Aligned, Empty
<1>4. ASSUME NEW i \in 0 .. 8
      PROVE  /\ r[i].x >= 0 /\ r[i].x + r[i].w <= w
             /\ r[i].y >= 0 /\ r[i].y + r[i].h <= h
  <2>1. \/ r[i].x = 0 /\ r[i].w = base.x
        \/ r[i].x = base.x /\ r[i].w = base.w
        \/ r[i].x = base.x + base.w /\ r[i].w = w - (base.x + base.w)
    BY <1>2
  <2>2. \/ r[i].y = 0 /\ r[i].h = base.y
        \/ r[i].y = base.y /\ r[i].h = base.h
        \/ r[i].y = base.y + base.h /\ r[i].h = h - (base.y + base.h)
    BY <1>2
  <2>3. r[i].x >= 0 /\ r[i].x + r[i].w <= w
    BY <1>1, <2>1
  <2>4. r[i].y >= 0 /\ r[i].y + r[i].h <= h
    BY <1>1, <2>2
  <2>5. QED
    BY <2>3, <2>4
<1>5. ASSUME NEW p \in (0 .. w - 1) \X (0 .. h - 1)
      PROVE  \E i \in 0 .. 8 : \A k \in 0 .. 8 : RegionPixel(r[k], p) <=> k = i
  <2> DEFINE Left == p[1] < base.x
             Right == p[1] >= base.x + base.w
             Above == p[2] < base.y
             Under == p[2] >= base.y + base.h
             i == IF Above THEN IF Left THEN 0 ELSE IF Right THEN 2 ELSE 1
                  ELSE IF Under THEN IF Left THEN 5 ELSE IF Right THEN 7 ELSE 6
                  ELSE IF Left THEN 3 ELSE IF Right THEN 4 ELSE 8
  <2>1. p[1] \in Nat /\ p[2] \in Nat /\ p[1] < w /\ p[2] < h
    BY <1>1
  <2>2. i \in 0 .. 8
    OBVIOUS
  <2>3. ASSUME NEW k \in 0 .. 8 PROVE RegionPixel(r[k], p) <=> k = i
    <3>1. p[1] \in r[k].x .. r[k].x + r[k].w - 1 <=>
            \/ k \in {0, 3, 5} /\ Left
            \/ k \in {1, 6, 8} /\ ~Left /\ ~Right
            \/ k \in {2, 4, 7} /\ Right
      BY <1>1, <1>2, <2>1
    <3>2. p[2] \in r[k].y .. r[k].y + r[k].h - 1 <=>
            \/ k \in {0, 1, 2} /\ Above
            \/ k \in {3, 4, 8} /\ ~Above /\ ~Under
            \/ k \in {5, 6, 7} /\ Under
      BY <1>1, <1>2, <2>1
    <3>3. ~(Left /\ Right) /\ ~(Above /\ Under)
      BY <1>1, <2>1
    <3> HIDE DEF Left, Right, Above, Under
    <3>4. QED
      BY <3>1, <3>2, <3>3 DEF RegionPixel
  <2>4. QED
    BY <2>2, <2>3
<1>6. Tiles(r, w, h)
  BY <1>4, <1>5 DEF Tiles
<1>7. QED
  BY <1>3, <1>6 DEF r

(* Uniting a region with the one before it in its line loses no pixel and  *)
(* covers none twice, and only full neighbours are united.                 *)
THEOREM UniteKeepsTiles ==
  ASSUME NEW w \in Nat, NEW h \in Nat,
         NEW regions \in [0 .. 8 -> Rectangles],
         NEW prev \in -1 .. 8, NEW i \in 0 .. 8, prev < i,
         prev >= 0 => ~Empty(regions[prev]),
         Tiles(regions, w, h), Aligned(regions)
  PROVE  LET s == UniteRegion([regions |-> regions, prev |-> prev], i)
         IN  /\ s.regions \in [0 .. 8 -> Rectangles]
             /\ s.prev \in -1 .. i
             /\ s.prev >= 0 => ~Empty(s.regions[s.prev])
             /\ Tiles(s.regions, w, h) /\ Aligned(s.regions)
<1> DEFINE s == UniteRegion([regions |-> regions, prev |-> prev], i)
           united == [regions EXCEPT ![prev].w = @ + regions[i].w,
                                     ![i].w = 0]
           Adjoins == /\ ~Empty(regions[i]) /\ prev > 0
                     /\ regions[i].y = regions[prev].y
                     /\ regions[prev].x + regions[prev].w = regions[i].x
<1>1. CASE ~Adjoins
  <2>1. s.regions = regions /\ s.prev = (IF Empty(regions[i]) THEN prev ELSE i)
    BY <1>1 DEF UniteRegion
  <2>2. QED
    BY <2>1
<1>2. CASE Adjoins
  <2>1. s.regions = united /\ s.prev = prev
    BY <1>2 DEF UniteRegion
  <2>2. prev \in 0 .. 8 /\ prev # i
    BY <1>2
  <2>3. regions[i].h = regions[prev].h
    BY <1>2, <2>2 DEF Aligned
  <2>4. ASSUME NEW k \in 0 .. 8
        PROVE  /\ united[k] \in Rectangles
               /\ united[k].x = regions[k].x /\ united[k].y = regions[k].y
               /\ united[k].h = regions[k].h
               /\ k = i => united[k].w = 0
               /\ k = prev => united[k].w = regions[prev].w + regions[i].w
               /\ k \notin {i, prev} => united[k].w = regions[k].w
    BY <2>2 DEF Rectangles
  <2>5. united \in [0 .. 8 -> Rectangles]
    BY <2>4
  <2> HIDE DEF united
  <2>6. ASSUME NEW k \in 0 .. 8, ~Empty(united[k])
        PROVE  ~Empty(regions[k]) /\ k # i
    BY <1>2, <2>2, <2>4, <2>6 DEF Empty
  <2>7. ~Empty(united[prev])
    BY <1>2, <2>2, <2>4 DEF Empty, Rectangles
  <2>8. Aligned(united)
    BY <2>4, <2>6 DEF Aligned
  <2>9. ASSUME NEW k \in 0 .. 8, ~Empty(united[k])
        PROVE  /\ united[k].x >= 0 /\ united[k].x + united[k].w <= w
               /\ united[k].y >= 0 /\ united[k].y + united[k].h <= h
    <3>1. CASE k = prev
      BY <1>2, <2>2, <2>4, <3>1 DEF Tiles, Rectangles
    <3>2. CASE k # prev
      BY <2>4, <2>6, <2>9, <3>2 DEF Tiles
    <3>3. QED
      BY <3>1, <3>2
  <2>10. ASSUME NEW p \in (0 .. w - 1) \X (0 .. h - 1)
         PROVE  \E j \in 0 .. 8 :
                  \A k \in 0 .. 8 : RegionPixel(united[k], p) <=> k = j
    <3>1. p[1] \in Nat /\ p[2] \in Nat
      OBVIOUS
    <3>2. ~RegionPixel(united[i], p)
      BY <2>4, <3>1 DEF RegionPixel, Rectangles
    <3>3. RegionPixel(united[prev], p)
            <=> RegionPixel(regions[prev], p) \/ RegionPixel(regions[i], p)
      BY <1>2, <2>2, <2>3, <2>4, <3>1 DEF RegionPixel, Rectangles
    <3>4. ASSUME NEW k \in 0 .. 8, k \notin {i, prev}
          PROVE  RegionPixel(united[k], p) <=> RegionPixel(regions[k], p)
      BY <2>4, <3>4 DEF RegionPixel
    <3>5. PICK j \in 0 .. 8 :
            \A k \in 0 .. 8 : RegionPixel(regions[k], p) <=> k = j
      BY DEF Tiles
    <3>6. CASE j \in {i, prev}
      BY <2>2, <3>2, <3>3, <3>4, <3>5, <3>6
    <3>7. CASE j \notin {i, prev}
      BY <2>2, <3>2, <3>3, <3>4, <3>5, <3>7
    <3>8. QED
      BY <3>6, <3>7
  <2>11. Tiles(united, w, h)
    BY <2>9, <2>10 DEF Tiles
  <2>12. QED
    BY <2>1, <2>2, <2>5, <2>7, <2>8, <2>11
<1>3. QED
  BY <1>1, <1>2

(* The regions while neighbours are united: prev is the last one met that  *)
(* is not empty.                                                           *)
Uniting == [regions : [0 .. 8 -> Rectangles], prev : -1 .. 8]

(* One turn of the uniting has the right type.                             *)
LEMMA UnitingIs ==
  ASSUME NEW s \in Uniting, NEW i \in 0 .. 8
  PROVE  UniteRegion(s, i) \in Uniting
<1> DEFINE r == s.regions
           p == s.prev
           u == [r EXCEPT ![p].w = @ + r[i].w, ![i].w = 0]
<1>1. r \in [0 .. 8 -> Rectangles] /\ p \in -1 .. 8
  BY DEF Uniting
<1>2. CASE p > 0 /\ ~Empty(r[i]) /\ r[i].y = r[p].y /\ r[p].x + r[p].w = r[i].x
  <2>1. UniteRegion(s, i) = [s EXCEPT !.regions = u]
    BY <1>2 DEF UniteRegion
  <2>2. \A k \in 0 .. 8 : u[k] \in Rectangles
    BY <1>1, <1>2 DEF Rectangles
  <2>3. u \in [0 .. 8 -> Rectangles]
    BY <1>1, <2>2
  <2> HIDE DEF u
  <2> QED BY <2>1, <2>3 DEF Uniting
<1>3. CASE ~(p > 0 /\ ~Empty(r[i]) /\ r[i].y = r[p].y /\ r[p].x + r[p].w = r[i].x)
  <2>1. UniteRegion(s, i) = s \/ UniteRegion(s, i) = [s EXCEPT !.prev = i]
    BY <1>3 DEF UniteRegion
  <2> QED BY <2>1 DEF Uniting
<1> QED BY <1>2, <1>3

(* FrameRegions is what the turns of the loop make of the regions around.  *)
LEMMA UniteTurns ==
  ASSUME NEW w, NEW h, NEW base,
         RegionsAround(w, h, base) \in [0 .. 8 -> Rectangles]
  PROVE  \E s \in [0 .. 8 -> Uniting] :
           /\ s[0] = [regions |-> RegionsAround(w, h, base), prev |-> -1]
           /\ s[8].regions = FrameRegions(w, h, base)
           /\ \A k \in 1 .. 8 : s[k] = UniteRegion(s[k - 1], k - 1)
<1> DEFINE first == [regions |-> RegionsAround(w, h, base), prev |-> -1]
           places == [i \in 1 .. 8 |-> i - 1]
           Turn(f, T) ==
             IF T = {} THEN first
             ELSE LET i == Max(T)
                  IN  UniteRegion(f[T \ {i}], places[i])
           fold == CHOOSE f : f = [T \in SUBSET (DOMAIN places) |-> Turn(f, T)]
           step == [x \in (1 .. 8) \X Uniting |-> UniteRegion(x[2], x[1] - 1)]
<1>1. FrameRegions(w, h, base) = fold[DOMAIN places].regions
  BY DEF FrameRegions, FoldLeft, MapThenFoldSet
<1>2. DOMAIN places = 1 .. 8 /\ \A i \in 1 .. 8 : places[i] = i - 1
  OBVIOUS
<1>3. step \in [(1 .. 8) \X Uniting -> Uniting]
  BY UnitingIs
<1>4. first \in Uniting
  BY DEF Uniting
<1>5. PICK f : Folding(f, 8, Uniting, first, step)
  <2> HIDE DEF step, fold, places, Turn, first
  <2> QED BY <1>3, <1>4, FoldExists
<1> HIDE DEF places, first
<1>6. ASSUME NEW T \in SUBSET (1 .. 8) PROVE f[T] = Turn(f, T)
  <2>1. CASE T = {}
    BY <1>5, <2>1 DEF Folding
  <2>2. CASE T # {}
    <3>1. Max(T) \in T
      BY <2>2, MaxOfPart
    <3> DEFINE i == Max(T)
    <3> HIDE DEF i
    <3>2. i \in 1 .. 8 /\ f[T \ {i}] \in Uniting
      BY <1>5, <3>1 DEF i, Folding
    <3>3. f[T] = step[<<i, f[T \ {i}]>>]
      BY <1>5, <2>2 DEF i, Folding
    <3>4. f[T] = UniteRegion(f[T \ {i}], i - 1)
      BY <3>2, <3>3
    <3> QED BY <1>2, <2>2, <3>2, <3>4 DEF i
  <2> QED BY <2>1, <2>2
<1> HIDE DEF step, Turn
<1>7. f = [T \in SUBSET (1 .. 8) |-> Turn(f, T)]
  BY <1>5, <1>6 DEF Folding
<1>8. fold = [T \in SUBSET (1 .. 8) |-> Turn(fold, T)]
  BY <1>2, <1>7
<1> HIDE DEF fold
<1>9. ASSUME NEW k \in 1 .. 8
      PROVE  fold[1 .. k] = UniteRegion(fold[1 .. k - 1], k - 1)
  <2>1. Max(1 .. k) = k /\ (1 .. k) \ {k} = 1 .. k - 1 /\ 1 .. k # {}
    <3>1. k \in Nat /\ k # 0
      OBVIOUS
    <3> QED BY <3>1, MaxOfFirst
  <2>2. fold[1 .. k] = Turn(fold, 1 .. k)
    BY <1>8
  <2>3. Turn(fold, 1 .. k) = UniteRegion(fold[1 .. k - 1], places[k])
    BY <2>1 DEF Turn
  <2> QED BY <1>2, <2>2, <2>3
<1>10. fold[1 .. 0] = first
  BY <1>8 DEF Turn
<1> DEFINE s == [k \in 0 .. 8 |-> fold[1 .. k]]
<1>11. s[0] = first /\ s[8].regions = FrameRegions(w, h, base)
  BY <1>1, <1>2, <1>10
<1>12. ASSUME NEW k \in 1 .. 8 PROVE s[k] = UniteRegion(s[k - 1], k - 1)
  <2>1. s[k] = fold[1 .. k] /\ s[k - 1] = fold[1 .. k - 1]
    OBVIOUS
  <2> HIDE DEF s
  <2> QED BY <1>9, <2>1
<1> HIDE DEF s
<1>13. \A k \in 0 .. 8 : s[k] \in Uniting
  <2> DEFINE T == {k \in 0 .. 8 : s[k] \in Uniting}
  <2>1. 0 \in T
    BY <1>4, <1>11
  <2>2. \A k \in 1 .. 8 : k - 1 \in T => k \in T
    BY <1>12, UnitingIs
  <2>3. 0 .. 8 \subseteq T
    <3> HIDE DEF T
    <3> QED BY <2>1, <2>2, ByTurns
  <2> QED BY <2>3
<1>14. s \in [0 .. 8 -> Uniting]
  BY <1>13 DEF s
<1> QED BY <1>11, <1>12, <1>14 DEF first

(* Whatever rectangle two frames have in common, the regions that are made *)
(* of the frame around it, neighbours united, tile the frame, and the      *)
(* common one is still among them (initFrameRegions).                      *)
THEOREM FrameTiles ==
  ASSUME NEW w, NEW h, NEW base, IsBase(w, h, base)
  PROVE  LET r == FrameRegions(w, h, base) IN Tiles(r, w, h) /\ r[8] = base
<1> DEFINE r == RegionsAround(w, h, base)
<1>1. w \in Nat /\ h \in Nat /\ base \in Rectangles
  BY DEF IsBase
<1>2. r \in [0 .. 8 -> Rectangles] /\ r[8] = base
  <2>1. \A i \in 0 .. 8 : r[i] \in Rectangles
    <3> SUFFICES ASSUME NEW i \in 0 .. 8 PROVE r[i] \in Rectangles
      OBVIOUS
    <3>1. /\ base.x \in Nat /\ base.y \in Nat /\ base.w \in Nat /\ base.h \in Nat
          /\ base.x + base.w \in Nat /\ base.y + base.h \in Nat
          /\ w - (base.x + base.w) \in Nat /\ h - (base.y + base.h) \in Nat
      BY <1>1 DEF IsBase, Rectangles
    <3>2. \/ i \in {0, 3, 5} \/ i \in {1, 6, 8} \/ i \in {2, 4, 7}
      OBVIOUS
    <3>3. \/ i \in {0, 1, 2} \/ i \in {3, 4, 8} \/ i \in {5, 6, 7}
      OBVIOUS
    <3>4. r[i] = [x |-> r[i].x, y |-> r[i].y, w |-> r[i].w, h |-> r[i].h]
      BY DEF RegionsAround
    <3>5. r[i].x \in Nat /\ r[i].y \in Nat /\ r[i].w \in Nat /\ r[i].h \in Nat
      BY <3>1, <3>2, <3>3, RegionsValue
    <3> HIDE DEF r
    <3> QED BY <3>4, <3>5 DEF Rectangles
  <2>2. r \in [0 .. 8 -> Rectangles]
    BY <2>1 DEF RegionsAround
  <2>3. r[8].x = base.x /\ r[8].y = base.y /\ r[8].w = base.w /\ r[8].h = base.h
    BY RegionsValue
  <2> HIDE DEF r
  <2>4. r[8] = base
    BY <1>1, <2>2, <2>3 DEF Rectangles
  <2> QED BY <2>2, <2>4
<1>3. Tiles(r, w, h) /\ Aligned(r)
  BY RegionsTile
<1>4. PICK s \in [0 .. 8 -> Uniting] :
        /\ s[0] = [regions |-> r, prev |-> -1]
        /\ s[8].regions = FrameRegions(w, h, base)
        /\ \A k \in 1 .. 8 : s[k] = UniteRegion(s[k - 1], k - 1)
  BY <1>2, UniteTurns
<1> HIDE DEF r
<1> DEFINE Good(u, k) ==
             /\ u.prev < k
             /\ u.prev >= 0 => ~Empty(u.regions[u.prev])
             /\ Tiles(u.regions, w, h) /\ Aligned(u.regions)
             /\ u.regions[8] = base
           T == {k \in 0 .. 8 : Good(s[k], k)}
<1>5. 0 \in T
  BY <1>2, <1>3, <1>4
<1>6. ASSUME NEW k \in 1 .. 8, k - 1 \in T PROVE k \in T
  <2> DEFINE u == s[k - 1]
             v == UniteRegion([regions |-> u.regions, prev |-> u.prev], k - 1)
  <2>1. u \in Uniting /\ Good(u, k - 1)
    BY <1>6
  <2>2. u = [regions |-> u.regions, prev |-> u.prev]
    BY <2>1 DEF Uniting
  <2>3. s[k] = v
    BY <1>4, <2>2
  <2> HIDE DEF u
  <2>4. /\ v.prev \in -1 .. k - 1 /\ (v.prev >= 0 => ~Empty(v.regions[v.prev]))
        /\ Tiles(v.regions, w, h) /\ Aligned(v.regions)
    <3>1. /\ u.regions \in [0 .. 8 -> Rectangles] /\ u.prev \in -1 .. 8
          /\ k - 1 \in 0 .. 8
      BY <2>1 DEF Uniting
    <3> QED BY <1>1, <2>1, <3>1, UniteKeepsTiles
  <2>5. v.regions[8] = u.regions[8]
    BY <2>1 DEF UniteRegion, Uniting
  <2> HIDE DEF v
  <2> QED BY <2>1, <2>3, <2>4, <2>5
<1>7. 8 \in T
  <2>1. 0 .. 8 \subseteq T
    <3> HIDE DEF T
    <3> QED BY <1>5, <1>6, ByTurns
  <2> QED BY <2>1
<1> QED BY <1>4, <1>7

-----------------------------------------------------------------------------
(* What is copied from the older frame is what the new one has.            *)

(* The extents of a common rectangle around the centre.                    *)
Reach == Nat \cup {-1}
Extents == [left : Reach, right : Reach, top : Reach, down : Reach]

(* The four sides, and the two that each quarter extends to.               *)
Sides == {"left", "right", "top", "down"}
Quarter4 == {<<"right", "down">>, <<"left", "down">>,
             <<"right", "top">>, <<"left", "top">>}

(* Extents that reach no further than others on any side.                  *)
Within(f, e) == \A s \in Sides : f[s] <= e[s]

(* The pixels i columns and j lines off the centre are the same.           *)
Alike(src, dst, shift, q, i, j) ==
  LET at == <<Centre(src)[1] + Sign(q[1]) * i, Centre(src)[2] + Sign(q[2]) * j>>
  IN  src.pix[at] = dst.pix[Below(at, shift)]

(* The first m lines of a quarter are the same as far as e reaches.        *)
LinesAlike(src, dst, shift, q, e, m) ==
  \A i \in 0 .. e[q[1]], j \in 0 .. e[q[2]] :
    j < m => Alike(src, dst, shift, q, i, j)

(* All pixels of a quarter are alike as far as the extents reach.          *)
QuarterAlike(src, dst, shift, q, e) ==
  \A i \in 0 .. e[q[1]], j \in 0 .. e[q[2]] : Alike(src, dst, shift, q, i, j)

(* Every side of the extents is a number, or -1 before the comparison.     *)
LEMMA ExtentsAre ==
  ASSUME NEW e \in Extents
  PROVE  \A s \in Sides : e[s] \in Reach
BY DEF Extents, Sides

(* Reaching no further is transitive.                                      *)
LEMMA WithinTransitive ==
  ASSUME NEW e \in Extents, NEW f \in Extents, NEW g \in Extents,
         Within(e, f), Within(f, g)
  PROVE  Within(e, g)
<1> SUFFICES ASSUME NEW s \in Sides PROVE e[s] <= g[s]
  BY DEF Within
<1>1. e[s] \in Reach /\ f[s] \in Reach /\ g[s] \in Reach
  BY ExtentsAre
<1>2. e[s] <= f[s] /\ f[s] <= g[s]
  BY DEF Within
<1> QED BY <1>1, <1>2 DEF Reach

(* Giving up columns or lines keeps a quarter alike.                       *)
LEMMA AlikeWithin ==
  ASSUME NEW src, NEW dst, NEW shift, NEW q \in Quarter4,
         NEW e \in Extents, NEW f \in Extents, Within(f, e)
  PROVE  /\ \A m \in Nat : LinesAlike(src, dst, shift, q, e, m)
                             => LinesAlike(src, dst, shift, q, f, m)
         /\ QuarterAlike(src, dst, shift, q, e)
              => QuarterAlike(src, dst, shift, q, f)
<1>1. q[1] \in Sides /\ q[2] \in Sides
  BY DEF Quarter4, Sides
<1>2. /\ f[q[1]] \in Reach /\ e[q[1]] \in Reach /\ f[q[1]] <= e[q[1]]
      /\ f[q[2]] \in Reach /\ e[q[2]] \in Reach /\ f[q[2]] <= e[q[2]]
  BY <1>1, ExtentsAre DEF Within
<1>3. 0 .. f[q[1]] \subseteq 0 .. e[q[1]] /\ 0 .. f[q[2]] \subseteq 0 .. e[q[2]]
  BY <1>2 DEF Reach
<1> QED BY <1>3 DEF LinesAlike, QuarterAlike

(* A line that differs ends the columns before its first difference, or    *)
(* the lines before it.                                                    *)
LEMMA LineCompared ==
  ASSUME NEW src, NEW dst, NEW shift, NEW q \in Quarter4,
         NEW e \in Extents, NEW j \in Nat
  PROVE  LET f == CompareLine(src, dst, shift, q[1], q[2], e, j)
         IN  /\ f \in Extents /\ Within(f, e)
             /\ LinesAlike(src, dst, shift, q, e, j)
                  => LinesAlike(src, dst, shift, q, f, j + 1)
<1> DEFINE hor == q[1]
           vert == q[2]
           f == CompareLine(src, dst, shift, hor, vert, e, j)
           differ == {i \in 0 .. e[hor] : ~Alike(src, dst, shift, q, i, j)}
           i == Min(differ)
<1>1. /\ hor \in Sides /\ vert \in Sides /\ hor # vert
  BY DEF Quarter4, Sides
<1>2. e[hor] \in Reach /\ e[vert] \in Reach /\ \A s \in Sides : e[s] \in Reach
  BY <1>1, ExtentsAre
<1>3. f = IF j > e[vert] \/ differ = {} THEN e ELSE Limit(e, hor, vert, i, j)
  BY DEF CompareLine, Alike
<1> HIDE DEF hor, vert
<1>4. Within(e, e)
  BY <1>2 DEF Within, Reach
<1>5. CASE j > e[vert] \/ differ = {}
  <2>1. f = e
    BY <1>3, <1>5
  <2>2. ASSUME LinesAlike(src, dst, shift, q, e, j)
        PROVE  LinesAlike(src, dst, shift, q, e, j + 1)
    <3> SUFFICES ASSUME NEW k \in 0 .. e[hor], NEW l \in 0 .. e[vert], l < j + 1
                 PROVE  Alike(src, dst, shift, q, k, l)
      BY DEF LinesAlike, hor, vert
    <3>1. CASE l < j
      BY <2>2, <3>1 DEF LinesAlike, hor, vert
    <3>2. CASE l = j
      BY <1>2, <1>5, <3>2 DEF Reach
    <3> QED BY <3>1, <3>2
  <2> HIDE DEF f
  <2> QED BY <1>4, <2>1, <2>2 DEF f, hor, vert
<1>6. CASE ~(j > e[vert]) /\ differ # {}
  <2>1. i \in differ /\ \A k \in differ : i <= k
    <3>1. differ \in SUBSET Nat
      BY <1>2 DEF Reach
    <3> HIDE DEF differ
    <3>2. \E x \in differ : \A y \in differ : x <= y
      BY <1>6, <3>1, LeastOf
    <3> QED BY <3>2 DEF Min
  <2>2. i \in 0 .. e[hor] /\ \A k \in 0 .. i - 1 : Alike(src, dst, shift, q, k, j)
    BY <1>2, <2>1 DEF Reach
  <2>3. f = Limit(e, hor, vert, i, j)
    BY <1>3, <1>6
  <2> HIDE DEF differ, f, i
  <2>4. i \in Nat /\ i <= e[hor] /\ i - 1 \in Reach /\ j - 1 \in Reach
    BY <1>2, <2>2 DEF Reach
  <2>5. CASE f = [e EXCEPT ![hor] = i - 1]
    <3>1. f \in Extents /\ \A s \in Sides : f[s] = IF s = hor THEN i - 1 ELSE e[s]
      <4>1. PICK r : r = i - 1
        OBVIOUS
      <4>2. r \in Reach /\ f = [e EXCEPT ![hor] = r]
        BY <2>4, <2>5, <4>1
      <4>3. f \in Extents /\ \A s \in Sides : f[s] = IF s = hor THEN r ELSE e[s]
        BY <1>1, <4>2 DEF Extents, Sides
      <4> QED BY <4>1, <4>3
    <3>2. Within(f, e)
      BY <1>1, <1>2, <2>4, <3>1 DEF Within, Reach
    <3>3. ASSUME LinesAlike(src, dst, shift, q, e, j)
          PROVE  LinesAlike(src, dst, shift, q, f, j + 1)
      <4> SUFFICES ASSUME NEW k \in 0 .. i - 1, NEW l \in 0 .. e[vert], l < j + 1
                   PROVE  Alike(src, dst, shift, q, k, l)
        BY <1>1, <3>1 DEF LinesAlike, hor, vert
      <4>1. CASE l < j
        <5>1. k \in 0 .. e[hor]
          BY <1>2, <2>4 DEF Reach
        <5> QED BY <3>3, <4>1, <5>1 DEF LinesAlike, hor, vert
      <4>2. CASE l = j
        BY <2>2, <4>2
      <4> QED BY <4>1, <4>2
    <3> QED BY <3>1, <3>2, <3>3 DEF f, hor, vert
  <2>6. CASE f = [e EXCEPT ![vert] = j - 1]
    <3>1. f \in Extents /\ \A s \in Sides : f[s] = IF s = vert THEN j - 1 ELSE e[s]
      <4>1. PICK r : r = j - 1
        OBVIOUS
      <4>2. r \in Reach /\ f = [e EXCEPT ![vert] = r]
        BY <2>4, <2>6, <4>1
      <4>3. f \in Extents /\ \A s \in Sides : f[s] = IF s = vert THEN r ELSE e[s]
        BY <1>1, <4>2 DEF Extents, Sides
      <4> QED BY <4>1, <4>3
    <3>2. Within(f, e)
      BY <1>1, <1>2, <1>6, <2>4, <3>1 DEF Within, Reach
    <3>3. ASSUME LinesAlike(src, dst, shift, q, e, j)
          PROVE  LinesAlike(src, dst, shift, q, f, j + 1)
      <4> SUFFICES ASSUME NEW k \in 0 .. e[hor], NEW l \in 0 .. j - 1
                   PROVE  Alike(src, dst, shift, q, k, l)
        BY <1>1, <3>1 DEF LinesAlike, hor, vert
      <4>1. l \in 0 .. e[vert] /\ l < j
        BY <1>2, <1>6 DEF Reach
      <4> QED BY <3>3, <4>1 DEF LinesAlike, hor, vert
    <3> QED BY <3>1, <3>2, <3>3 DEF f, hor, vert
  <2> QED BY <2>3, <2>5, <2>6 DEF Limit
<1> QED BY <1>5, <1>6

(* A quarter is compared line by line, from the centre to the side.        *)
LineByLine(src, dst, shift, q, e, m) ==
  /\ m \in [0 .. e[q[2]] + 1 -> Extents]
  /\ m[0] = e
  /\ m[e[q[2]] + 1] = CompareQuarter(src, dst, shift, e, q)
  /\ \A k \in 1 .. e[q[2]] + 1 :
       m[k] = CompareLine(src, dst, shift, q[1], q[2], m[k - 1], k - 1)

(* A quarter is the outcome of the turns of its loop.                      *)
LEMMA QuarterTurns ==
  ASSUME NEW src, NEW dst, NEW shift, NEW q \in Quarter4, NEW e \in Extents
  PROVE  \E m : LineByLine(src, dst, shift, q, e, m)
<1> DEFINE n == e[q[2]] + 1
           lines == [j \in 1 .. n |-> j]
           Line(f, j) == CompareLine(src, dst, shift, q[1], q[2], f, j - 1)
           Turn(f, T) ==
             IF T = {} THEN e
             ELSE LET i == Max(T) IN Line(f[T \ {i}], lines[i])
           fold == CHOOSE f : f = [T \in SUBSET (DOMAIN lines) |-> Turn(f, T)]
           step == [x \in (1 .. n) \X Extents |-> Line(x[2], x[1])]
<1>1. CompareQuarter(src, dst, shift, e, q) = fold[DOMAIN lines]
  BY DEF CompareQuarter, FoldLeft, MapThenFoldSet
<1>2. n \in Nat
  <2>1. q[2] \in Sides
    BY DEF Quarter4, Sides
  <2>2. e[q[2]] \in Reach
    BY <2>1, ExtentsAre
  <2> QED BY <2>2 DEF Reach
<1> HIDE DEF n
<1>3. DOMAIN lines = 1 .. n /\ \A i \in 1 .. n : lines[i] = i
  OBVIOUS
<1>4. ASSUME NEW j \in 1 .. n, NEW f \in Extents PROVE Line(f, j) \in Extents
  <2>1. j - 1 \in Nat
    OBVIOUS
  <2> QED BY <2>1, LineCompared
<1> HIDE DEF Line
<1>5. step \in [(1 .. n) \X Extents -> Extents]
  BY <1>4
<1>6. PICK f : Folding(f, n, Extents, e, step)
  <2> HIDE DEF step, fold, lines, Turn
  <2> QED BY <1>2, <1>5, FoldExists
<1> HIDE DEF lines
<1>7. ASSUME NEW T \in SUBSET (1 .. n) PROVE f[T] = Turn(f, T)
  <2>1. CASE T = {}
    BY <1>6, <2>1 DEF Folding
  <2>2. CASE T # {}
    <3>1. Max(T) \in T
      BY <1>2, <2>2, MaxOfPart
    <3> DEFINE i == Max(T)
    <3> HIDE DEF i
    <3>2. i \in 1 .. n /\ f[T \ {i}] \in Extents
      BY <1>6, <3>1 DEF i, Folding
    <3>3. f[T] = step[<<i, f[T \ {i}]>>]
      BY <1>6, <2>2 DEF i, Folding
    <3>4. f[T] = Line(f[T \ {i}], i)
      BY <3>2, <3>3
    <3> QED BY <1>3, <2>2, <3>2, <3>4 DEF i
  <2> QED BY <2>1, <2>2
<1> HIDE DEF step, Turn
<1>8. f = [T \in SUBSET (1 .. n) |-> Turn(f, T)]
  BY <1>6, <1>7 DEF Folding
<1>9. fold = [T \in SUBSET (1 .. n) |-> Turn(fold, T)]
  BY <1>3, <1>8
<1> HIDE DEF fold
<1>10. ASSUME NEW k \in 1 .. n PROVE fold[1 .. k] = Line(fold[1 .. k - 1], k)
  <2>1. Max(1 .. k) = k /\ (1 .. k) \ {k} = 1 .. k - 1 /\ 1 .. k # {}
    <3>1. k \in Nat /\ k # 0
      BY <1>2
    <3> QED BY <3>1, MaxOfFirst
  <2>2. fold[1 .. k] = Turn(fold, 1 .. k)
    BY <1>2, <1>9
  <2>3. Turn(fold, 1 .. k) = Line(fold[1 .. k - 1], lines[k])
    BY <2>1 DEF Turn
  <2> QED BY <1>3, <2>2, <2>3
<1>11. fold[1 .. 0] = e
  BY <1>9 DEF Turn
<1> DEFINE m == [k \in 0 .. n |-> fold[1 .. k]]
<1>12. m[0] = e /\ m[n] = CompareQuarter(src, dst, shift, e, q)
  BY <1>1, <1>2, <1>3, <1>11
<1>13. ASSUME NEW k \in 1 .. n PROVE m[k] = Line(m[k - 1], k)
  <2>1. m[k] = fold[1 .. k] /\ m[k - 1] = fold[1 .. k - 1]
    BY <1>2
  <2> HIDE DEF m
  <2> QED BY <1>10, <2>1
<1> HIDE DEF m
<1>14. \A k \in 0 .. n : m[k] \in Extents
  <2> DEFINE T == {k \in 0 .. n : m[k] \in Extents}
  <2>1. 0 \in T
    BY <1>2, <1>12
  <2>2. \A k \in 1 .. n : k - 1 \in T => k \in T
    BY <1>4, <1>13
  <2>3. 0 .. n \subseteq T
    <3> HIDE DEF T
    <3> QED BY <1>2, <2>1, <2>2, ByTurns
  <2> QED BY <2>3
<1>15. m \in [0 .. n -> Extents]
  BY <1>14 DEF m
<1>16. LineByLine(src, dst, shift, q, e, m)
  BY <1>12, <1>13, <1>15 DEF n, Line, LineByLine
<1> QED BY <1>16

(* What is left of a quarter is the same in both frames.                   *)
LEMMA QuarterCompared ==
  ASSUME NEW src, NEW dst, NEW shift, NEW q \in Quarter4, NEW e \in Extents
  PROVE  LET f == CompareQuarter(src, dst, shift, e, q)
         IN  /\ f \in Extents /\ Within(f, e)
             /\ QuarterAlike(src, dst, shift, q, f)
<1>0. PICK m : LineByLine(src, dst, shift, q, e, m)
  BY QuarterTurns
<1> DEFINE n == e[q[2]] + 1
           f == CompareQuarter(src, dst, shift, e, q)
<1>1. /\ m \in [0 .. n -> Extents]
      /\ m[0] = e /\ m[n] = f
      /\ \A k \in 1 .. n :
           m[k] = CompareLine(src, dst, shift, q[1], q[2], m[k - 1], k - 1)
  BY <1>0 DEF LineByLine
<1>2. q[2] \in Sides /\ q[1] \in Sides
  BY DEF Quarter4, Sides
<1>3. n \in Nat /\ \A g \in Extents : g[q[2]] \in Reach
  BY <1>2, ExtentsAre DEF Reach
<1> HIDE DEF n, f
<1> DEFINE Good(g, k) == Within(g, e) /\ LinesAlike(src, dst, shift, q, g, k)
           T == {k \in 0 .. n : Good(m[k], k)}
<1>4. 0 \in T
  <2>1. Within(e, e)
    BY ExtentsAre DEF Within, Reach
  <2>2. LinesAlike(src, dst, shift, q, e, 0)
    <3> SUFFICES ASSUME NEW j \in 0 .. e[q[2]], j < 0 PROVE FALSE
      BY DEF LinesAlike
    <3> QED BY <1>3 DEF Reach
  <2> QED BY <1>1, <1>3, <2>1, <2>2
<1>5. ASSUME NEW k \in 1 .. n, k - 1 \in T PROVE k \in T
  <2> DEFINE g == m[k - 1]
             j == k - 1
             h == CompareLine(src, dst, shift, q[1], q[2], g, j)
  <2>1. g \in Extents /\ j \in Nat /\ j + 1 = k /\ m[k] = h
    <3>1. k - 1 \in 0 .. n /\ k - 1 \in Nat /\ (k - 1) + 1 = k
      BY <1>3
    <3>2. m[k - 1] \in Extents
      BY <1>1, <3>1
    <3>3. m[k] = CompareLine(src, dst, shift, q[1], q[2], m[k - 1], k - 1)
      BY <1>1
    <3> QED BY <3>1, <3>2, <3>3
  <2>2. Within(g, e) /\ LinesAlike(src, dst, shift, q, g, j)
    BY <1>5
  <2> HIDE DEF g, j
  <2>3. h \in Extents /\ Within(h, g) /\ LinesAlike(src, dst, shift, q, h, j + 1)
    BY <2>1, <2>2, LineCompared
  <2> HIDE DEF h
  <2>4. Within(h, e)
    BY <2>1, <2>2, <2>3, WithinTransitive
  <2> QED BY <1>3, <2>1, <2>3, <2>4
<1>6. n \in T
  <2>1. 0 .. n \subseteq T
    <3> HIDE DEF T
    <3> QED BY <1>3, <1>4, <1>5, ByTurns
  <2> QED BY <1>3, <2>1
<1>7. f \in Extents /\ Within(f, e) /\ LinesAlike(src, dst, shift, q, f, n)
  BY <1>1, <1>3, <1>6
<1>8. QuarterAlike(src, dst, shift, q, f)
  <2> SUFFICES ASSUME NEW i \in 0 .. f[q[1]], NEW j \in 0 .. f[q[2]]
               PROVE  Alike(src, dst, shift, q, i, j)
    BY DEF QuarterAlike
  <2>1. f[q[2]] <= e[q[2]]
    BY <1>2, <1>7 DEF Within
  <2>2. j < n
    BY <1>3, <1>7, <2>1 DEF n, Reach
  <2> QED BY <1>7, <2>2 DEF LinesAlike
<1> QED BY <1>7, <1>8 DEF f

(* The four quarters, one after the other.                                 *)
LEMMA EqualityTurns ==
  ASSUME NEW src, NEW dst, NEW shift, WholeExtent(src, dst, shift) \in Extents
  PROVE  LET whole == WholeExtent(src, dst, shift)
             Next1(e, k) == CompareQuarter(src, dst, shift, e, Quarters[k])
         IN  FoldLeft(LAMBDA f, q : CompareQuarter(src, dst, shift, f, q),
                      whole, Quarters)
               = Next1(Next1(Next1(Next1(whole, 1), 2), 3), 4)
<1> DEFINE whole == WholeExtent(src, dst, shift)
           Part(f, k) == CompareQuarter(src, dst, shift, f, Quarters[k])
           Turn(f, T) ==
             IF T = {} THEN whole
             ELSE LET i == Max(T) IN Part(f[T \ {i}], i)
           fold == CHOOSE f : f = [T \in SUBSET (DOMAIN Quarters) |-> Turn(f, T)]
           step == [x \in (1 .. 4) \X Extents |-> Part(x[2], x[1])]
<1>1. FoldLeft(LAMBDA f, q : CompareQuarter(src, dst, shift, f, q),
               whole, Quarters) = fold[DOMAIN Quarters]
  BY DEF FoldLeft, MapThenFoldSet
<1>2. DOMAIN Quarters = 1 .. 4 /\ \A k \in 1 .. 4 : Quarters[k] \in Quarter4
  BY DEF Quarters, Quarter4
<1>3. ASSUME NEW k \in 1 .. 4, NEW f \in Extents PROVE Part(f, k) \in Extents
  BY <1>2, QuarterCompared
<1> HIDE DEF Part, whole
<1>5. step \in [(1 .. 4) \X Extents -> Extents]
  BY <1>3
<1>6. PICK f : Folding(f, 4, Extents, whole, step)
  <2>1. whole \in Extents
    BY DEF whole
  <2> HIDE DEF step, fold, Turn
  <2> QED BY <1>5, <2>1, FoldExists
<1>7. ASSUME NEW T \in SUBSET (1 .. 4) PROVE f[T] = Turn(f, T)
  <2>1. CASE T = {}
    BY <1>6, <2>1 DEF Folding
  <2>2. CASE T # {}
    <3>1. Max(T) \in T
      BY <2>2, MaxOfPart
    <3> DEFINE i == Max(T)
    <3> HIDE DEF i
    <3>2. i \in 1 .. 4 /\ f[T \ {i}] \in Extents
      BY <1>6, <3>1 DEF i, Folding
    <3>3. f[T] = step[<<i, f[T \ {i}]>>]
      BY <1>6, <2>2 DEF i, Folding
    <3>4. f[T] = Part(f[T \ {i}], i)
      BY <3>2, <3>3
    <3> QED BY <2>2, <3>2, <3>4 DEF i
  <2> QED BY <2>1, <2>2
<1> HIDE DEF step, Turn
<1>8. f = [T \in SUBSET (1 .. 4) |-> Turn(f, T)]
  BY <1>6, <1>7 DEF Folding
<1>9. fold = [T \in SUBSET (1 .. 4) |-> Turn(fold, T)]
  BY <1>2, <1>8
<1> HIDE DEF fold
<1>10. ASSUME NEW k \in 1 .. 4 PROVE fold[1 .. k] = Part(fold[1 .. k - 1], k)
  <2>1. Max(1 .. k) = k /\ (1 .. k) \ {k} = 1 .. k - 1 /\ 1 .. k # {}
    <3>1. k \in Nat /\ k # 0
      OBVIOUS
    <3> QED BY <3>1, MaxOfFirst
  <2>2. fold[1 .. k] = Turn(fold, 1 .. k)
    BY <1>9
  <2>3. Turn(fold, 1 .. k) = Part(fold[1 .. k - 1], k)
    BY <2>1 DEF Turn
  <2> QED BY <2>2, <2>3
<1>11. fold[1 .. 0] = whole
  BY <1>9 DEF Turn
<1>12. /\ fold[1 .. 1] = Part(whole, 1)
       /\ fold[1 .. 2] = Part(fold[1 .. 1], 2)
       /\ fold[1 .. 3] = Part(fold[1 .. 2], 3)
       /\ fold[1 .. 4] = Part(fold[1 .. 3], 4)
  BY <1>10, <1>11
<1> QED BY <1>1, <1>2, <1>12 DEF Part, whole

(* The whole of both frames extends to all sides of a centre they share.   *)
LEMMA WholeIsExtent ==
  ASSUME NEW src, NEW dst, IsFrame(src), IsFrame(dst), NEW shift \in Int,
         -shift < MaxShift(src),
         Centre(src)[1] < dst.w, Centre(src)[2] + shift < dst.h
  PROVE  WholeExtent(src, dst, shift) \in Extents
<1> DEFINE c1 == src.w \div 2
           c2 == src.h \div 2
<1>1. /\ src.w \in Nat /\ src.h \in Nat /\ dst.w \in Nat /\ dst.h \in Nat
      /\ src.w > 4 /\ src.h > 4
  BY DEF IsFrame, LargeEnough
<1>2. /\ c1 \in Nat /\ c1 <= src.w - 1 /\ c2 \in Nat /\ c2 <= src.h - 1
      /\ MaxShift(src) \in Nat /\ MaxShift(src) <= c2
  BY <1>1 DEF MaxShift
<1>3. c1 < dst.w /\ c2 + shift < dst.h
  BY DEF Centre
<1>4. Lesser(src.w, dst.w) - 1 - c1 \in Nat
  BY <1>1, <1>2, <1>3 DEF Lesser
<1>5. Lesser(src.h, dst.h - shift) - 1 - c2 \in Nat
  BY <1>1, <1>2, <1>3 DEF Lesser
<1>6. c2 - Larger(0, -shift) \in Nat
  BY <1>1, <1>2 DEF Larger
<1>7. WholeExtent(src, dst, shift)
        = [left |-> c1, right |-> Lesser(src.w, dst.w) - 1 - c1,
           top |-> c2 - Larger(0, -shift),
           down |-> Lesser(src.h, dst.h - shift) - 1 - c2]
  BY DEF WholeExtent, Centre
<1> HIDE DEF c1, c2
<1> QED BY <1>2, <1>4, <1>5, <1>6, <1>7 DEF Extents, Reach

(* The rectangle checkEquality finds lies in both frames, and they are the *)
(* same in all of it.                                                      *)
LEMMA EqualityIs ==
  ASSUME NEW src, NEW dst, IsFrame(src), IsFrame(dst), NEW shift \in Int,
         -shift < MaxShift(src), Equality(src, dst, shift).found
  PROVE  LET r == Equality(src, dst, shift).rect
             base == [r EXCEPT !.y = @ + shift]
         IN  /\ Equality(src, dst, shift).shift = shift
             /\ IsBase(dst.w, dst.h, base)
             /\ \A p \in PixelsOf(dst) :
                  RegionPixel(base, p) =>
                    /\ Inside(Below(p, -shift), src.w, src.h)
                    /\ src.pix[Below(p, -shift)] = dst.pix[p]
<1> DEFINE c1 == Centre(src)[1]
           c2 == Centre(src)[2]
           whole == WholeExtent(src, dst, shift)
           a1 == CompareQuarter(src, dst, shift, whole, Quarters[1])
           a2 == CompareQuarter(src, dst, shift, a1, Quarters[2])
           a3 == CompareQuarter(src, dst, shift, a2, Quarters[3])
           e == CompareQuarter(src, dst, shift, a3, Quarters[4])
           fold == FoldLeft(LAMBDA f, q : CompareQuarter(src, dst, shift, f, q),
                            whole, Quarters)
           w == fold.left + fold.right + 1
           h == fold.top + fold.down + 1
           E == Equality(src, dst, shift)
           r == E.rect
<1>1. E = IF c1 >= dst.w \/ c2 + shift >= dst.h THEN NoCommon
          ELSE IF w < 1 \/ h < 1 THEN NoCommon
          ELSE [found |-> TRUE, shift |-> shift,
                rect |-> [x |-> c1 - fold.left, y |-> c2 - fold.top,
                          w |-> w, h |-> h]]
  BY DEF Equality
<1>2. ~NoCommon.found
  BY DEF NoCommon
<1>3. /\ ~(c1 >= dst.w) /\ ~(c2 + shift >= dst.h) /\ ~(w < 1) /\ ~(h < 1)
      /\ E = [found |-> TRUE, shift |-> shift,
              rect |-> [x |-> c1 - fold.left, y |-> c2 - fold.top,
                        w |-> w, h |-> h]]
  <2> HIDE DEF E, w, h, fold, c1, c2
  <2>1. E.found
    BY DEF E
  <2> QED BY <1>1, <1>2, <2>1
<1>4. /\ src.w \in Nat /\ src.h \in Nat /\ dst.w \in Nat /\ dst.h \in Nat
      /\ src.w > 4 /\ src.h > 4
      /\ c1 \in Nat /\ c2 \in Nat /\ c1 < src.w /\ c2 < src.h
      /\ MaxShift(src) \in Nat /\ MaxShift(src) <= c2
  BY DEF IsFrame, LargeEnough, Centre, MaxShift
<1>5. c1 < dst.w /\ c2 + shift < dst.h
  <2> HIDE DEF E, w, h, fold, c1, c2
  <2> QED BY <1>3, <1>4
<1>6. whole \in Extents
  BY <1>5, WholeIsExtent
<1>7. fold = e
  BY <1>6, EqualityTurns
<1>8. /\ Quarters[1] = <<"right", "down">> /\ Quarters[2] = <<"left", "down">>
      /\ Quarters[3] = <<"right", "top">> /\ Quarters[4] = <<"left", "top">>
      /\ \A k \in 1 .. 4 : Quarters[k] \in Quarter4
  BY DEF Quarters, Quarter4
<1> DEFINE A(k, f) == QuarterAlike(src, dst, shift, Quarters[k], f)
<1>9. /\ e \in Extents /\ Within(e, whole)
      /\ A(1, e) /\ A(2, e) /\ A(3, e) /\ A(4, e)
  <2>1. a1 \in Extents /\ Within(a1, whole) /\ A(1, a1)
    BY <1>6, <1>8, QuarterCompared
  <2> HIDE DEF a1, whole
  <2>2. a2 \in Extents /\ Within(a2, a1) /\ A(2, a2)
    BY <1>8, <2>1, QuarterCompared
  <2> HIDE DEF a2
  <2>3. a3 \in Extents /\ Within(a3, a2) /\ A(3, a3)
    BY <1>8, <2>2, QuarterCompared
  <2> HIDE DEF a3
  <2>4. e \in Extents /\ Within(e, a3) /\ A(4, e)
    BY <1>8, <2>3, QuarterCompared
  <2> HIDE DEF e
  <2>5. Within(e, a2)
    BY <2>2, <2>3, <2>4, WithinTransitive
  <2>6. Within(e, a1)
    BY <2>1, <2>2, <2>4, <2>5, WithinTransitive
  <2>7. Within(e, whole)
    BY <1>6, <2>1, <2>4, <2>6, WithinTransitive
  <2>8. A(1, e)
    BY <1>8, <2>1, <2>4, <2>6, AlikeWithin
  <2>9. A(2, e)
    BY <1>8, <2>2, <2>4, <2>5, AlikeWithin
  <2>10. A(3, e)
    BY <1>8, <2>3, <2>4, AlikeWithin
  <2> QED BY <2>4, <2>7, <2>8, <2>9, <2>10
<1> HIDE DEF e, fold
<1>10. /\ e.left \in Reach /\ e.right \in Reach /\ e.top \in Reach /\ e.down \in Reach
       /\ e.left <= c1 /\ e.right <= Lesser(src.w, dst.w) - 1 - c1
       /\ e.top <= c2 - Larger(0, -shift)
       /\ e.down <= Lesser(src.h, dst.h - shift) - 1 - c2
  BY <1>9 DEF Extents, Within, Sides, WholeExtent
<1> HIDE DEF whole, c1, c2
<1> DEFINE base == [x |-> c1 - e.left, y |-> c2 - e.top + shift,
                    w |-> e.left + e.right + 1, h |-> e.top + e.down + 1]
<1>11. E.shift = shift /\ [r EXCEPT !.y = @ + shift] = base
  BY <1>3, <1>7
<1>12. e.left + e.right + 1 >= 1 /\ e.top + e.down + 1 >= 1
  <2> HIDE DEF E
  <2>1. e.left + e.right + 1 \in Int /\ e.top + e.down + 1 \in Int
    BY <1>10 DEF Reach
  <2> QED BY <1>3, <1>7, <2>1
<1> HIDE DEF w, h
<1>13. IsBase(dst.w, dst.h, base)
  <2>1. c1 - e.left \in Nat /\ e.left + e.right + 1 \in Nat
        /\ (c1 - e.left) + (e.left + e.right + 1) <= dst.w
    BY <1>4, <1>10, <1>12 DEF Reach, Lesser
  <2>2. c2 - e.top + shift \in Nat /\ e.top + e.down + 1 \in Nat
    BY <1>4, <1>10, <1>12 DEF Reach, Larger
  <2>3. (c2 - e.top + shift) + (e.top + e.down + 1) <= dst.h
    BY <1>4, <1>10, <1>12 DEF Reach, Lesser
  <2> QED BY <1>4, <2>1, <2>2, <2>3 DEF IsBase, Rectangles
<1>14. ASSUME NEW p \in PixelsOf(dst), RegionPixel(base, p)
       PROVE  /\ Inside(Below(p, -shift), src.w, src.h)
              /\ src.pix[Below(p, -shift)] = dst.pix[p]
  <2>1. PICK x \in Nat, y \in Nat : p = <<x, y>>
    BY <1>4 DEF PixelsOf
  <2> DEFINE a == x - c1
             b == (y - shift) - c2
  <2>2. /\ a \in Int /\ b \in Int /\ x = c1 + a /\ y - shift = c2 + b
        /\ Below(p, -shift) = <<c1 + a, c2 + b>>
        /\ Below(<<c1 + a, c2 + b>>, shift) = p
    BY <1>4, <2>1 DEF Below
  <2>3. -e.left <= a /\ a <= e.right /\ -e.top <= b /\ b <= e.down
    <3>1. /\ c1 - e.left <= x /\ x <= (c1 - e.left) + (e.left + e.right + 1) - 1
          /\ c2 - e.top + shift <= y
          /\ y <= (c2 - e.top + shift) + (e.top + e.down + 1) - 1
      BY <1>4, <1>10, <1>14, <2>1 DEF RegionPixel, Reach
    <3> QED BY <1>4, <1>10, <3>1 DEF Reach
  <2> HIDE DEF a, b, base
  <2>4. Inside(Below(p, -shift), src.w, src.h)
    <3>1. c1 + a \in Int /\ 0 <= c1 + a /\ c1 + a <= src.w - 1
      BY <1>4, <1>10, <2>2, <2>3 DEF Reach, Lesser
    <3>2. c2 + b \in Int /\ 0 <= c2 + b /\ c2 + b <= src.h - 1
      BY <1>4, <1>10, <2>2, <2>3 DEF Reach, Lesser, Larger
    <3> QED BY <1>4, <2>2, <3>1, <3>2 DEF Inside
  <2>5. src.pix[<<c1 + a, c2 + b>>] = dst.pix[Below(<<c1 + a, c2 + b>>, shift)]
    <3>1. ASSUME NEW q \in Quarter4, QuarterAlike(src, dst, shift, q, e),
                 NEW i \in 0 .. e[q[1]], NEW j \in 0 .. e[q[2]],
                 c1 + Sign(q[1]) * i = c1 + a, c2 + Sign(q[2]) * j = c2 + b
          PROVE  src.pix[<<c1 + a, c2 + b>>]
                   = dst.pix[Below(<<c1 + a, c2 + b>>, shift)]
      BY <3>1 DEF QuarterAlike, Alike, c1, c2
    <3>2. CASE a >= 0 /\ b >= 0
      <4>1. c1 + Sign("right") * a = c1 + a /\ c2 + Sign("down") * b = c2 + b
        BY <1>4, <2>2 DEF Sign
      <4>2. a \in 0 .. e.right /\ b \in 0 .. e.down
        BY <1>10, <2>2, <2>3, <3>2 DEF Reach
      <4> QED BY <1>8, <1>9, <3>1, <4>1, <4>2
    <3>3. CASE a < 0 /\ b >= 0
      <4>1. c1 + Sign("left") * (-a) = c1 + a /\ c2 + Sign("down") * b = c2 + b
        BY <1>4, <2>2 DEF Sign
      <4>2. -a \in 0 .. e.left /\ b \in 0 .. e.down
        BY <1>10, <2>2, <2>3, <3>3 DEF Reach
      <4> QED BY <1>8, <1>9, <3>1, <4>1, <4>2
    <3>4. CASE a >= 0 /\ b < 0
      <4>1. c1 + Sign("right") * a = c1 + a /\ c2 + Sign("top") * (-b) = c2 + b
        BY <1>4, <2>2 DEF Sign
      <4>2. a \in 0 .. e.right /\ -b \in 0 .. e.top
        BY <1>10, <2>2, <2>3, <3>4 DEF Reach
      <4> QED BY <1>8, <1>9, <3>1, <4>1, <4>2
    <3>5. CASE a < 0 /\ b < 0
      <4>1. c1 + Sign("left") * (-a) = c1 + a /\ c2 + Sign("top") * (-b) = c2 + b
        BY <1>4, <2>2 DEF Sign
      <4>2. -a \in 0 .. e.left /\ -b \in 0 .. e.top
        BY <1>10, <2>2, <2>3, <3>5 DEF Reach
      <4> QED BY <1>8, <1>9, <3>1, <4>1, <4>2
    <3> QED BY <2>2, <3>2, <3>3, <3>4, <3>5
  <2> QED BY <2>2, <2>4, <2>5
<1> HIDE DEF base
<1> QED BY <1>11, <1>13, <1>14

(* Content is looked for less than MaxShift lines away.                    *)
LEMMA ShiftsAre ==
  ASSUME NEW src, NEW dst, IsFrame(src)
  PROVE  /\ ScrollUp(src, dst) \in Int /\ ScrollDown(src, dst) \in Int
         /\ ScrollUp(src, dst) # 0 => -ScrollUp(src, dst) < MaxShift(src)
         /\ ScrollDown(src, dst) # 0 => -ScrollDown(src, dst) < MaxShift(src)
<1>1. MaxShift(src) \in Nat
  BY DEF IsFrame, MaxShift
<1>2. ASSUME NEW T \in SUBSET (1 .. MaxShift(src) - 1), T # {}
      PROVE  Min(T) \in 1 .. MaxShift(src) - 1
  <2>1. T \in SUBSET Nat
    OBVIOUS
  <2>2. \E x \in T : \A y \in T : x <= y
    BY <1>2, <2>1, LeastOf
  <2> QED BY <2>2 DEF Min
<1> DEFINE up == {s \in 1 .. MaxShift(src) - 1 :
                    Matches(src, dst, BlockUp(src, dst), s)}
           down == {s \in 1 .. MaxShift(src) - 1 :
                      Matches(src, dst, BlockDown(src, dst), -s)}
<1>3. /\ ScrollUp(src, dst) \in {0, Min(up)} /\ (up = {} => ScrollUp(src, dst) = 0)
      /\ ScrollDown(src, dst) \in {0, -Min(down)}
      /\ (down = {} => ScrollDown(src, dst) = 0)
  BY DEF ScrollUp, ScrollDown
<1>4. up # {} => Min(up) \in 1 .. MaxShift(src) - 1
  BY <1>2
<1>5. down # {} => Min(down) \in 1 .. MaxShift(src) - 1
  BY <1>2
<1> HIDE DEF up, down
<1>6. \A m \in 1 .. MaxShift(src) - 1 :
        m \in Int /\ -m \in Int /\ -m < MaxShift(src) /\ -(-m) < MaxShift(src)
  BY <1>1
<1>7. ScrollUp(src, dst) = 0 \/ ScrollUp(src, dst) \in 1 .. MaxShift(src) - 1
  BY <1>3, <1>4
<1>8. ScrollDown(src, dst) = 0
        \/ \E m \in 1 .. MaxShift(src) - 1 : ScrollDown(src, dst) = -m
  BY <1>3, <1>5
<1> QED BY <1>6, <1>7, <1>8

(* Whatever the two frames are, a frame that is described by an older one  *)
(* comes out right: the common region and the images of the others cover   *)
(* every pixel of it once, and what is copied from the older frame is what *)
(* the new one has there (initFrameRegions).                               *)
THEOREM RebuiltFrame ==
  ASSUME NEW src, NEW dst, IsFrame(src), IsFrame(dst)
  PROVE  FrameIsRebuilt(src, dst)
<1> DEFINE common == FindCommonRegions(src, dst)
           base == [common.rect EXCEPT !.y = @ + common.shift]
<1> SUFFICES ASSUME common.found
             PROVE  /\ Tiles(FrameRegions(dst.w, dst.h, base), dst.w, dst.h)
                    /\ \A p \in PixelsOf(dst) :
                         RegionPixel(FrameRegions(dst.w, dst.h, base)[8], p) =>
                           /\ Inside(Below(p, -common.shift), src.w, src.h)
                           /\ src.pix[Below(p, -common.shift)] = dst.pix[p]
  BY DEF FrameIsRebuilt
<1>1. PICK shift \in Int : common = Equality(src, dst, shift)
                           /\ -shift < MaxShift(src)
  <2>1. ~NoCommon.found
    BY DEF NoCommon
  <2>2. \/ ScrollDown(src, dst) # 0
             /\ common = Equality(src, dst, ScrollDown(src, dst))
        \/ ScrollUp(src, dst) # 0
             /\ common = Equality(src, dst, ScrollUp(src, dst))
    BY <2>1 DEF FindCommonRegions
  <2> HIDE DEF common
  <2> QED BY <2>2, ShiftsAre
<1> HIDE DEF common
<1>2. /\ common.shift = shift
      /\ IsBase(dst.w, dst.h, base)
      /\ \A p \in PixelsOf(dst) :
           RegionPixel(base, p) =>
             /\ Inside(Below(p, -shift), src.w, src.h)
             /\ src.pix[Below(p, -shift)] = dst.pix[p]
  <2>1. -shift < MaxShift(src) /\ Equality(src, dst, shift).found
    BY <1>1
  <2> HIDE DEF base
  <2>2. LET r == Equality(src, dst, shift).rect
            b == [r EXCEPT !.y = @ + shift]
        IN  /\ Equality(src, dst, shift).shift = shift
            /\ IsBase(dst.w, dst.h, b)
            /\ \A p \in PixelsOf(dst) :
                 RegionPixel(b, p) =>
                   /\ Inside(Below(p, -shift), src.w, src.h)
                   /\ src.pix[Below(p, -shift)] = dst.pix[p]
    BY <2>1, EqualityIs
  <2> QED BY <1>1, <2>2 DEF base
<1> HIDE DEF base
<1>3. LET r == FrameRegions(dst.w, dst.h, base)
      IN  Tiles(r, dst.w, dst.h) /\ r[8] = base
  BY <1>2, FrameTiles
<1> QED BY <1>2, <1>3

-----------------------------------------------------------------------------
(* Folds, as the turns of a loop.                                          *)

(* What the turns of a loop from 1 to n make of base.                      *)
TurnedBy(m, n, V, base, step, last) ==
  /\ m \in [0 .. n -> V] /\ m[0] = base /\ m[n] = last
  /\ \A k \in 1 .. n : m[k] = step[<<k, m[k - 1]>>]

(* The value of a fold on a part of 1 .. n, in the form that a recursive   *)
(* function on parts defines it.                                           *)
FoldsTo(f, n, V, base, step, T) ==
  /\ T = {} => f[T] = base
  /\ T # {} => /\ Max(T) \in 1 .. n /\ f[T \ {Max(T)}] \in V
               /\ f[T] = step[<<Max(T), f[T \ {Max(T)}]>>]

(* Folding, for one part.                                                  *)
LEMMA FoldingIs ==
  ASSUME NEW n \in Nat, NEW V, NEW base \in V, NEW step, NEW f,
         Folding(f, n, V, base, step), NEW T \in SUBSET (1 .. n)
  PROVE  FoldsTo(f, n, V, base, step, T)
<1>1. T # {} => Max(T) \in T
  BY MaxOfPart
<1>2. T \ {Max(T)} \in SUBSET (1 .. n)
  OBVIOUS
<1> QED BY <1>1, <1>2 DEF Folding, FoldsTo

(* What is known of a fold before its values are known to lie in V.        *)
FoldBy(fold, n, V, base, step, last) ==
  /\ fold[{}] = base /\ fold[1 .. n] = last
  /\ \A T \in (SUBSET (1 .. n)) \ {{}} :
       fold[T \ {Max(T)}] \in V
         => fold[T] = step[<<Max(T), fold[T \ {Max(T)}]>>]

(* A fold has the turns of a loop.                                         *)
LEMMA FoldTurns ==
  ASSUME NEW n \in Nat, NEW V, NEW base \in V,
         NEW step \in [(1 .. n) \X V -> V], NEW fold, NEW last,
         FoldBy(fold, n, V, base, step, last)
  PROVE  \E m : TurnedBy(m, n, V, base, step, last)
<1>1. ASSUME NEW k \in 1 .. n, fold[1 .. k - 1] \in V
      PROVE  fold[1 .. k] = step[<<k, fold[1 .. k - 1]>>] /\ fold[1 .. k] \in V
  <2>1. Max(1 .. k) = k /\ (1 .. k) \ {k} = 1 .. k - 1 /\ 1 .. k # {}
    <3>1. k \in Nat /\ k # 0
      OBVIOUS
    <3> QED BY <3>1, MaxOfFirst
  <2>2. 1 .. k \in (SUBSET (1 .. n)) \ {{}}
    BY <2>1
  <2>3. fold[1 .. k] = step[<<k, fold[1 .. k - 1]>>]
    BY <1>1, <2>1, <2>2 DEF FoldBy
  <2> QED BY <1>1, <2>3
<1>2. fold[1 .. 0] = base
  <2>1. 1 .. 0 = {}
    OBVIOUS
  <2> QED BY <2>1 DEF FoldBy
<1> DEFINE T == {k \in 0 .. n : fold[1 .. k] \in V}
<1>3. 0 .. n \subseteq T
  <2>1. 0 \in T
    BY <1>2
  <2>2. ASSUME NEW k \in 1 .. n, k - 1 \in T PROVE k \in T
    <3>1. fold[1 .. k - 1] \in V /\ k \in 0 .. n
      BY <2>2
    <3> QED BY <1>1, <3>1
  <2> HIDE DEF T
  <2> QED BY <2>1, <2>2, ByTurns
<1> DEFINE m == [k \in 0 .. n |-> fold[1 .. k]]
<1>4. m \in [0 .. n -> V] /\ m[0] = base /\ m[n] = fold[1 .. n]
  BY <1>2, <1>3
<1>5. \A k \in 1 .. n : m[k] = step[<<k, m[k - 1]>>]
  <2> SUFFICES ASSUME NEW k \in 1 .. n PROVE m[k] = step[<<k, m[k - 1]>>]
    OBVIOUS
  <2>1. k - 1 \in 0 .. n
    OBVIOUS
  <2>2. fold[1 .. k] = step[<<k, fold[1 .. k - 1]>>]
    BY <1>1, <1>3, <2>1
  <2> QED BY <2>1, <2>2
<1> HIDE DEF m
<1>6. fold[1 .. n] = last
  BY DEF FoldBy
<1> QED BY <1>4, <1>5, <1>6 DEF TurnedBy

(* What holds of the empty set, and of a set when it holds of the set      *)
(* without some element of it, holds of every finite set.                  *)
LEMMA PartInduction ==
  ASSUME NEW S, IsFiniteSet(S), NEW Q, {} \in Q,
         \A T \in (SUBSET S) \ {{}} : \E x \in T : T \ {x} \in Q => T \in Q
  PROVE  SUBSET S \subseteq Q
<1> DEFINE Known == {n \in Nat : \A T \in SUBSET S : Cardinality(T) = n => T \in Q}
<1>1. ASSUME NEW T \in SUBSET S
      PROVE  /\ Cardinality(T) \in Nat /\ (Cardinality(T) = 0 <=> T = {})
             /\ \A x \in T : Cardinality(T \ {x}) = Cardinality(T) - 1
  <2>1. IsFiniteSet(T)
    BY FS_Subset
  <2>2. Cardinality(T) \in Nat
    BY <2>1, FS_CardinalityType
  <2>3. Cardinality(T) = 0 <=> T = {}
    BY <2>1, FS_EmptySet
  <2>4. \A x \in T : Cardinality(T \ {x}) = Cardinality(T) - 1
    BY <2>1, FS_RemoveElement
  <2> QED BY <2>2, <2>3, <2>4
<1>2. 0 \in Known
  <2> SUFFICES ASSUME NEW T \in SUBSET S, Cardinality(T) = 0 PROVE T \in Q
    OBVIOUS
  <2>1. T = {}
    BY <1>1
  <2> QED BY <2>1
<1>3. ASSUME NEW n \in Nat, n \in Known PROVE n + 1 \in Known
  <2> SUFFICES ASSUME NEW T \in SUBSET S, Cardinality(T) = n + 1 PROVE T \in Q
    OBVIOUS
  <2>1. T # {}
    BY <1>1
  <2>2. PICK x \in T : T \ {x} \in Q => T \in Q
    BY <2>1
  <2>3. Cardinality(T \ {x}) = n /\ T \ {x} \in SUBSET S
    BY <1>1
  <2>4. T \ {x} \in Q
    BY <1>3, <2>3
  <2> QED BY <2>2, <2>4
<1>4. Nat \subseteq Known
  <2> HIDE DEF Known
  <2> QED BY <1>2, <1>3, Induction
<1> QED BY <1>1, <1>4

(* A finite set of integers has a least and a greatest one.                *)
LEMMA MinMaxOf ==
  ASSUME NEW S \in SUBSET Int, IsFiniteSet(S), S # {}
  PROVE  /\ Min(S) \in S /\ \A y \in S : Min(S) <= y
         /\ Max(S) \in S /\ \A y \in S : y <= Max(S)
<1> DEFINE Low(T) == \E x \in T : \A y \in T : x <= y
           High(T) == \E x \in T : \A y \in T : x >= y
           Q == {T \in SUBSET S : T = {} \/ (Low(T) /\ High(T))}
<1>1. ASSUME NEW T \in SUBSET S, NEW z \in T, T \ {z} \in Q
      PROVE  Low(T) /\ High(T)
  <2>1. CASE T \ {z} = {}
    <3>1. \A y \in T : y = z
      BY <2>1
    <3> QED BY <3>1
  <2>2. CASE T \ {z} # {}
    <3>1. PICK a \in T \ {z} : \A y \in T \ {z} : a <= y
      BY <1>1, <2>2
    <3>2. PICK b \in T \ {z} : \A y \in T \ {z} : b >= y
      BY <1>1, <2>2
    <3>3. Low(T)
      <4>1. CASE a <= z
        BY <3>1, <4>1
      <4>2. CASE z <= a
        BY <3>1, <4>2
      <4> QED BY <4>1, <4>2
    <3>4. High(T)
      <4>1. CASE b >= z
        BY <3>2, <4>1
      <4>2. CASE z >= b
        BY <3>2, <4>2
      <4> QED BY <4>1, <4>2
    <3> QED BY <3>3, <3>4
  <2> QED BY <2>1, <2>2
<1>2. SUBSET S \subseteq Q
  <2>1. {} \in Q
    OBVIOUS
  <2>2. \A T \in (SUBSET S) \ {{}} : \E x \in T : T \ {x} \in Q => T \in Q
    BY <1>1
  <2> HIDE DEF Q
  <2> QED BY <2>1, <2>2, PartInduction
<1>3. Low(S) /\ High(S)
  BY <1>2
<1> QED BY <1>3 DEF Min, Max

-----------------------------------------------------------------------------
(* Painting: the pixels that changed, and the order they are visited in.   *)

(* Any pixels, drawn or not.                                               *)
Pixels == Int \X Int

(* What is changed lies in its bounding box.                               *)
LEMMA BoxIs ==
  ASSUME NEW dirty \in SUBSET Pixels, IsFiniteSet(dirty), dirty # {}
  PROVE  Box(dirty) \in Rects /\ \A p \in dirty : Covers(Box(dirty), p)
<1> DEFINE xs == {p[1] : p \in dirty}
           ys == {p[2] : p \in dirty}
<1>1. xs \in SUBSET Int /\ ys \in SUBSET Int /\ xs # {} /\ ys # {}
  BY DEF Pixels
<1>2. IsFiniteSet(xs)
  <2> DEFINE f == [p \in dirty |-> p[1]]
  <2>1. f \in Surjection(dirty, xs)
    BY DEF Surjection
  <2> QED BY <2>1, FS_Surjection
<1>3. IsFiniteSet(ys)
  <2> DEFINE f == [p \in dirty |-> p[2]]
  <2>1. f \in Surjection(dirty, ys)
    BY DEF Surjection
  <2> QED BY <2>1, FS_Surjection
<1>4. \A p \in dirty : p[1] \in xs /\ p[2] \in ys
  OBVIOUS
<1>5. Box(dirty) = [x1 |-> Min(xs), y1 |-> Min(ys), x2 |-> Max(xs), y2 |-> Max(ys)]
  BY DEF Box
<1> HIDE DEF xs, ys
<1>6. /\ Min(xs) \in Int /\ Max(xs) \in Int /\ \A x \in xs : Min(xs) <= x /\ x <= Max(xs)
      /\ Min(ys) \in Int /\ Max(ys) \in Int /\ \A y \in ys : Min(ys) <= y /\ y <= Max(ys)
  BY <1>1, <1>2, <1>3, MinMaxOf
<1>7. Box(dirty) \in Rects
  BY <1>5, <1>6 DEF Rects
<1>8. ASSUME NEW p \in dirty PROVE Covers(Box(dirty), p)
  <2>1. p[1] \in xs /\ p[2] \in ys
    BY <1>4
  <2>2. p[1] \in Int /\ p[2] \in Int
    BY <1>1, <2>1
  <2>3. p[1] \in Min(xs) .. Max(xs) /\ p[2] \in Min(ys) .. Max(ys)
    BY <1>6, <2>1, <2>2
  <2> QED BY <1>5, <2>3 DEF Covers
<1> QED BY <1>7, <1>8

(* In a quarter one pixel comes before all others.                         *)
LEMMA FirstExists ==
  ASSUME NEW b \in Rects, NEW q \in 0 .. 3,
         NEW T \in SUBSET (Pixels \cap Quarter(b, q)), T # {}
  PROVE  \E p \in T : \A r \in T \ {p} : Before(b, p, r)
<1> DEFINE cx == CentreX(b)
           cy == CentreY(b)
           away(c, m) == IF c > m THEN c - m ELSE m - c
           line(s) == away(s[2], cy)
           column(s) == away(s[1], cx)
<1>1. cx \in Int /\ cy \in Int /\ b.x1 \in Int /\ b.x2 \in Int /\ b.y1 \in Int /\ b.y2 \in Int
  BY DEF CentreX, CentreY, Width, Height, Rects
<1> HIDE DEF cx, cy
<1>2. ASSUME NEW s \in T
      PROVE  s[1] \in Int /\ s[2] \in Int /\ s = <<s[1], s[2]>>
             /\ line(s) \in Nat /\ column(s) \in Nat
  BY <1>1 DEF Pixels
<1>3. ASSUME NEW s \in T, NEW r \in T, line(s) = line(r), column(s) = column(r)
      PROVE  s = r
  <2>1. /\ \/ s[1] <= cx /\ r[1] <= cx
           \/ s[1] > cx /\ r[1] > cx
        /\ \/ s[2] <= cy /\ r[2] <= cy
           \/ s[2] > cy /\ r[2] > cy
    BY <1>1 DEF Quarter, cx, cy
  <2>2. s[1] = r[1] /\ s[2] = r[2]
    BY <1>1, <1>2, <1>3, <2>1
  <2> QED BY <1>2, <2>2
<1> HIDE DEF line, column
<1> DEFINE L == {line(s) : s \in T}
<1>4. PICK p1 \in T : \A r \in T : line(p1) <= line(r)
  <2>1. L \in SUBSET Nat /\ L # {}
    BY <1>2
  <2>2. PICK l \in L : \A m \in L : l <= m
    <3> HIDE DEF L
    <3> QED BY <2>1, LeastOf
  <2> QED BY <2>2
<1> DEFINE U == {s \in T : line(s) = line(p1)}
           C == {column(s) : s \in U}
<1>5. PICK p \in U : \A r \in U : column(p) <= column(r)
  <2>1. C \in SUBSET Nat /\ C # {}
    BY <1>2
  <2>2. PICK l \in C : \A m \in C : l <= m
    <3> HIDE DEF C
    <3> QED BY <2>1, LeastOf
  <2> QED BY <2>2
<1>6. ASSUME NEW r \in T \ {p}
      PROVE  line(p) < line(r) \/ (line(p) = line(r) /\ column(p) < column(r))
  BY <1>2, <1>3, <1>4, <1>5
<1>7. \A r \in T \ {p} : Before(b, p, r)
  BY <1>6 DEF Before, line, column, cx, cy
<1> QED BY <1>5, <1>7

(* A quarter's pixels in order are all of them and no others.              *)
LEMMA InOrderIs ==
  ASSUME NEW b \in Rects, NEW q \in 0 .. 3,
         NEW S \in SUBSET (Pixels \cap Quarter(b, q)), IsFiniteSet(S)
  PROVE  /\ InOrder(b, S) \in Seq(S)
         /\ \A p \in S : \E i \in 1 .. Len(InOrder(b, S)) : InOrder(b, S)[i] = p
<1> DEFINE First(T) == CHOOSE p \in T : \A r \in T \ {p} : Before(b, p, r)
           Turn(f, T) == IF T = {} THEN <<>>
                         ELSE LET p == First(T) IN <<p>> \o f[T \ {p}]
           order == CHOOSE f : f = [T \in SUBSET S |-> Turn(f, T)]
           next == [T \in (SUBSET S) \ {{}} |-> First(T)]
           step == [x \in S \X Seq(S) |-> <<x[1]>> \o x[2]]
<1>1. InOrder(b, S) = order[S]
  BY DEF InOrder
<1>2. ASSUME NEW T \in SUBSET S, T # {} PROVE First(T) \in T
  <2>1. \E p \in T : \A r \in T \ {p} : Before(b, p, r)
    BY <1>2, FirstExists
  <2> QED BY <2>1
<1> HIDE DEF First
<1>3. /\ next \in [(SUBSET S) \ {{}} -> S]
      /\ \A T \in (SUBSET S) \ {{}} : next[T] \in T /\ next[T] = First(T)
  BY <1>2
<1>4. step \in [S \X Seq(S) -> Seq(S)]
      /\ \A x \in S, s \in Seq(S) : step[<<x, s>>] = <<x>> \o s
  OBVIOUS
<1>5. <<>> \in Seq(S)
  OBVIOUS
<1> HIDE DEF next, step
<1>6. PICK f : Recursion(f, SUBSET S, Seq(S), <<>>, next, step)
  BY <1>3, <1>4, <1>5, RecursionExists
<1>7. ASSUME NEW T \in SUBSET S PROVE f[T] = Turn(f, T)
  <2>1. f[T] = IF T = {} THEN <<>> ELSE step[<<next[T], f[T \ {next[T]}]>>]
    BY <1>6 DEF Recursion
  <2>2. CASE T = {}
    BY <2>1, <2>2
  <2>3. CASE T # {}
    <3>1. next[T] \in S /\ next[T] = First(T) /\ f[T \ {next[T]}] \in Seq(S)
      BY <1>3, <1>6, <2>3 DEF Recursion
    <3> QED BY <1>4, <2>1, <2>3, <3>1
  <2> QED BY <2>2, <2>3
<1> HIDE DEF Turn
<1>8. f = [T \in SUBSET S |-> Turn(f, T)]
  BY <1>6, <1>7 DEF Recursion
<1>9. order = [T \in SUBSET S |-> Turn(order, T)]
  BY <1>8
<1> HIDE DEF order
<1> DEFINE Whole(s, T) == s \in Seq(S) /\ \A p \in T : \E i \in 1 .. Len(s) : s[i] = p
           Q == {T \in SUBSET S : Whole(order[T], T)}
<1>10. ASSUME NEW T \in SUBSET S, T # {}, T \ {First(T)} \in Q PROVE T \in Q
  <2>1. PICK p, s : p = First(T) /\ s = order[T \ {p}]
    OBVIOUS
  <2>2. order[T] = <<p>> \o s
    BY <1>9, <1>10, <2>1 DEF Turn
  <2>3. p \in T /\ p \in S /\ Whole(s, T \ {p})
    BY <1>2, <1>10, <2>1
  <2>4. PICK t : t = <<p>> \o s
    OBVIOUS
  <2>5. /\ t \in Seq(S) /\ Len(t) = Len(s) + 1 /\ Len(s) \in Nat /\ t[1] = p
        /\ \A i \in 1 .. Len(s) : t[i + 1] = s[i]
    BY <2>3, <2>4
  <2>6. ASSUME NEW r \in T PROVE \E i \in 1 .. Len(t) : t[i] = r
    <3>1. CASE r = p
      <4>1. 1 \in 1 .. Len(t)
        BY <2>5
      <4> QED BY <2>5, <3>1, <4>1
    <3>2. CASE r # p
      <4>1. PICK i \in 1 .. Len(s) : s[i] = r
        BY <2>3, <3>2
      <4>2. i + 1 \in 1 .. Len(t) /\ t[i + 1] = r
        BY <2>5, <4>1
      <4> QED BY <4>2
    <3> QED BY <3>1, <3>2
  <2> QED BY <2>2, <2>4, <2>5, <2>6
<1>11. {} \in Q
  BY <1>5, <1>9 DEF Turn
<1>12. \A T \in (SUBSET S) \ {{}} : \E x \in T : T \ {x} \in Q => T \in Q
  BY <1>2, <1>10
<1>13. SUBSET S \subseteq Q
  <2> HIDE DEF Q
  <2> QED BY <1>11, <1>12, PartInduction
<1>14. S \in Q
  <2> HIDE DEF Q
  <2> QED BY <1>13
<1>15. order[S] \in Seq(S) /\ \A p \in S : \E i \in 1 .. Len(order[S]) : order[S][i] = p
  <2> DEFINE o == order[S]
  <2> HIDE DEF o
  <2>1. Whole(o, S)
    BY <1>14 DEF o
  <2> QED BY <2>1 DEF o
<1> HIDE DEF Whole, Q
<1> QED BY <1>1, <1>15

(* The elements of two lists one after the other.                          *)
Join(S, s, t, u) ==
  /\ u \in Seq(S) /\ Len(u) = Len(s) + Len(t)
  /\ Len(s) \in Nat /\ Len(t) \in Nat
  /\ \A i \in 1 .. Len(s) : u[i] = s[i]
  /\ \A i \in 1 .. Len(t) : u[Len(s) + i] = t[i]

(* What concatenation does to the places of two sequences.                 *)
LEMMA Joined ==
  ASSUME NEW S, NEW s \in Seq(S), NEW t \in Seq(S)
  PROVE  Join(S, s, t, s \o t)
<1>1. PICK u : u = s \o t
  OBVIOUS
<1>2. /\ u \in Seq(S) /\ Len(u) = Len(s) + Len(t)
      /\ Len(s) \in Nat /\ Len(t) \in Nat
      /\ \A i \in 1 .. Len(s) : u[i] = s[i]
      /\ \A i \in 1 .. Len(t) : u[Len(s) + i] = t[i]
  BY <1>1
<1> QED BY <1>1, <1>2 DEF Join

(* The scan finds every pixel that changed, and nothing else.              *)
LEMMA ScanIs ==
  ASSUME NEW dirty \in SUBSET Pixels, IsFiniteSet(dirty), dirty # {}
  PROVE  LET s == Scan(Box(dirty), dirty)
         IN  s \in Seq(dirty) /\ \A p \in dirty : \E i \in 1 .. Len(s) : s[i] = p
<1> DEFINE b == Box(dirty)
           visit(q) == InOrder(b, dirty \cap Quarter(b, q))
           Has1(t, p) == \E i \in 1 .. Len(t) : t[i] = p
<1>1. b \in Rects /\ \A p \in dirty : Covers(b, p)
  BY BoxIs
<1> HIDE DEF b
<1>2. ASSUME NEW q \in 0 .. 3
      PROVE  /\ visit(q) \in Seq(dirty)
             /\ \A p \in dirty \cap Quarter(b, q) : Has1(visit(q), p)
  <2>1. IsFiniteSet(dirty \cap Quarter(b, q))
    BY FS_Subset
  <2> DEFINE D == dirty \cap Quarter(b, q)
  <2>2. D \in SUBSET (Pixels \cap Quarter(b, q)) /\ D \in SUBSET dirty
    OBVIOUS
  <2> HIDE DEF D
  <2>3. /\ InOrder(b, D) \in Seq(D)
        /\ \A p \in D : \E i \in 1 .. Len(InOrder(b, D)) : InOrder(b, D)[i] = p
    BY <1>1, <2>1, <2>2, InOrderIs DEF D
  <2>4. InOrder(b, D) \in Seq(dirty)
    BY <2>2, <2>3
  <2> QED BY <2>3, <2>4 DEF D
<1>3. ASSUME NEW s \in Seq(dirty), NEW t \in Seq(dirty)
      PROVE  /\ s \o t \in Seq(dirty)
             /\ \A p \in dirty : Has1(s, p) \/ Has1(t, p) => Has1(s \o t, p)
  <2>1. PICK u : u = s \o t
    OBVIOUS
  <2>2. /\ u \in Seq(dirty) /\ Len(u) = Len(s) + Len(t)
        /\ Len(s) \in Nat /\ Len(t) \in Nat
        /\ \A i \in 1 .. Len(s) : u[i] = s[i]
        /\ \A i \in 1 .. Len(t) : u[Len(s) + i] = t[i]
    BY <2>1, Joined DEF Join
  <2>3. ASSUME NEW p, NEW i \in 1 .. Len(s), s[i] = p PROVE Has1(u, p)
    BY <2>2, <2>3
  <2>4. ASSUME NEW p, NEW i \in 1 .. Len(t), t[i] = p PROVE Has1(u, p)
    <3>1. Len(s) + i \in 1 .. Len(u) /\ u[Len(s) + i] = p
      BY <2>2, <2>4
    <3> QED BY <3>1
  <2> QED BY <2>1, <2>2, <2>3, <2>4
<1>4. ASSUME NEW p \in dirty PROVE \E q \in 0 .. 3 : p \in Quarter(b, q)
  <2>1. PICK x \in Int, y \in Int : p = <<x, y>>
    BY DEF Pixels
  <2>2. x \in b.x1 .. b.x2 /\ y \in b.y1 .. b.y2
    BY <1>1, <2>1 DEF Covers
  <2>3. CentreX(b) \in Int /\ CentreY(b) \in Int /\ b.x1 \in Int /\ b.x2 \in Int
        /\ b.y1 \in Int /\ b.y2 \in Int
    BY <1>1 DEF CentreX, CentreY, Width, Height, Rects
  <2>4. x \in b.x1 .. CentreX(b) \/ x \in CentreX(b) + 1 .. b.x2
    BY <2>2, <2>3
  <2>5. y \in b.y1 .. CentreY(b) \/ y \in CentreY(b) + 1 .. b.y2
    BY <2>2, <2>3
  <2>6. 0 % 2 = 0 /\ 1 % 2 = 1 /\ 2 % 2 = 0 /\ 3 % 2 = 1
    OBVIOUS
  <2> QED BY <2>1, <2>4, <2>5, <2>6 DEF Quarter
<1> HIDE DEF visit, Has1
<1>5. PICK s, t, u : s = visit(0) \o visit(1) /\ t = s \o visit(2) /\ u = t \o visit(3)
  OBVIOUS
<1>6. s \in Seq(dirty) /\ t \in Seq(dirty) /\ u \in Seq(dirty)
  BY <1>2, <1>3, <1>5
<1>7. ASSUME NEW p \in dirty PROVE Has1(u, p)
  <2>1. PICK q \in 0 .. 3 : p \in Quarter(b, q)
    BY <1>4
  <2>2. Has1(visit(q), p)
    BY <1>2, <2>1
  <2>3. \A k \in {0, 1, 2, 3} : visit(k) \in Seq(dirty)
    BY <1>2
  <2>4. Has1(visit(0), p) \/ Has1(visit(1), p) => Has1(s, p)
    BY <1>3, <1>5, <2>3
  <2>5. Has1(s, p) \/ Has1(visit(2), p) => Has1(t, p)
    BY <1>3, <1>5, <1>6, <2>3
  <2>6. Has1(t, p) \/ Has1(visit(3), p) => Has1(u, p)
    BY <1>3, <1>5, <1>6, <2>3
  <2>7. q = 0 \/ q = 1 \/ q = 2 \/ q = 3
    OBVIOUS
  <2> QED BY <2>2, <2>4, <2>5, <2>6, <2>7
<1>8. Scan(b, dirty) = u
  BY <1>5 DEF Scan, visit
<1> QED BY <1>6, <1>7, <1>8 DEF Has1, b

-----------------------------------------------------------------------------
(* Painting: the rectangles that are collected.                            *)

(* The rectangle b contains the rectangle r.                               *)
Encloses(b, r) == b.x1 <= r.x1 /\ b.y1 <= r.y1 /\ r.x2 <= b.x2 /\ r.y2 <= b.y2

(* The rectangle around two contains both, and is the least that does.     *)
LEMMA AroundIs ==
  ASSUME NEW r \in Rects, NEW s \in Rects
  PROVE  /\ Around(r, s) \in Rects
         /\ Encloses(Around(r, s), r) /\ Encloses(Around(r, s), s)
         /\ Encloses(s, r) => Around(r, s) = s
         /\ \A b \in Rects : Encloses(b, r) /\ Encloses(b, s)
                               => Encloses(b, Around(r, s))
<1>1. /\ r.x1 \in Int /\ r.x2 \in Int /\ r.y1 \in Int /\ r.y2 \in Int
      /\ s.x1 \in Int /\ s.x2 \in Int /\ s.y1 \in Int /\ s.y2 \in Int
      /\ s = [x1 |-> s.x1, y1 |-> s.y1, x2 |-> s.x2, y2 |-> s.y2]
  BY DEF Rects
<1>2. Around(r, s) = [x1 |-> Least(r.x1, s.x1), y1 |-> Least(r.y1, s.y1),
                      x2 |-> Greatest(r.x2, s.x2), y2 |-> Greatest(r.y2, s.y2)]
  BY DEF Around
<1>3. Around(r, s) \in Rects
  BY <1>1, <1>2 DEF Least, Greatest, Rects
<1>4. Encloses(Around(r, s), r) /\ Encloses(Around(r, s), s)
  BY <1>1, <1>2 DEF Least, Greatest, Encloses
<1>5. ASSUME Encloses(s, r) PROVE Around(r, s) = s
  <2>1. /\ Least(r.x1, s.x1) = s.x1 /\ Least(r.y1, s.y1) = s.y1
        /\ Greatest(r.x2, s.x2) = s.x2 /\ Greatest(r.y2, s.y2) = s.y2
    BY <1>1, <1>5 DEF Encloses, Least, Greatest
  <2> QED BY <1>1, <1>2, <2>1
<1>6. ASSUME NEW b \in Rects, Encloses(b, r), Encloses(b, s)
      PROVE  Encloses(b, Around(r, s))
  BY <1>2, <1>6 DEF Encloses, Least, Greatest
<1> QED BY <1>3, <1>4, <1>5, <1>6

(* Containing is reflexive and transitive, and so is covering through it.  *)
LEMMA EnclosesIs ==
  ASSUME NEW a \in Rects, NEW b \in Rects, NEW c \in Rects
  PROVE  /\ Encloses(a, a)
         /\ Encloses(a, b) /\ Encloses(b, c) => Encloses(a, c)
         /\ \A p : Encloses(a, b) /\ Covers(b, p) => Covers(a, p)
<1>1. /\ a.x1 \in Int /\ a.x2 \in Int /\ a.y1 \in Int /\ a.y2 \in Int
      /\ b.x1 \in Int /\ b.x2 \in Int /\ b.y1 \in Int /\ b.y2 \in Int
      /\ c.x1 \in Int /\ c.x2 \in Int /\ c.y1 \in Int /\ c.y2 \in Int
  BY DEF Rects
<1>2. Encloses(a, a)
  BY <1>1 DEF Encloses
<1>3. Encloses(a, b) /\ Encloses(b, c) => Encloses(a, c)
  BY <1>1 DEF Encloses
<1>4. ASSUME NEW p, Encloses(a, b), Covers(b, p) PROVE Covers(a, p)
  BY <1>1, <1>4 DEF Encloses, Covers
<1> QED BY <1>2, <1>3, <1>4

(* Rectangles in the box that cover the pixels of P.                       *)
CoverIn(list, P, box) ==
  /\ list \in Seq(Rects)
  /\ \A p \in P : \E i \in 1 .. Len(list) : Covers(list[i], p)
  /\ \A i \in 1 .. Len(list) : Encloses(box, list[i])

(* The regions collected so far and the one in use.                        *)
CollectState == [list : Seq(Rects), current : Nat]

(* One more pixel: the list still covers those before, and now this one.   *)
LEMMA CollectIs ==
  ASSUME NEW c \in CollectState, NEW p \in Pixels
  PROVE  /\ Collect(c, p) \in CollectState
         /\ \A P, box : box \in Rects /\ Covers(box, p) /\ CoverIn(c.list, P, box)
                          => CoverIn(Collect(c, p).list, P \cup {p}, box)
<1> DEFINE near == {i \in DOMAIN c.list : CloseTo(c.list[i], p)}
           i == IF c.current \in near THEN c.current ELSE Min(near)
           list == c.list
           n == Len(list)
           new == Collect(c, p).list
           point == Point(p)
<1>1. list \in Seq(Rects) /\ n \in Nat /\ DOMAIN list = 1 .. n
      /\ \A k \in 1 .. n : list[k] \in Rects
  <2>1. list \in Seq(Rects)
    BY DEF CollectState
  <2> HIDE DEF list
  <2> QED BY <2>1
<1>2. /\ p[1] \in Int /\ p[2] \in Int /\ point \in Rects /\ Covers(point, p)
      /\ \A box \in Rects : Covers(box, p) => Encloses(box, point)
  BY DEF Pixels, Point, Rects, Covers, Encloses
<1> HIDE DEF point
<1>3. CASE near = {}
  <2>1. Collect(c, p) = [list |-> Append(list, point), current |-> n + 1]
    BY <1>3 DEF Collect, point
  <2>2. PICK l : l = Append(list, point)
    OBVIOUS
  <2> HIDE DEF list, n
  <2>3. /\ l \in Seq(Rects) /\ Len(l) = n + 1 /\ l[n + 1] = point
        /\ \A k \in 1 .. n : l[k] = list[k]
    BY <1>1, <1>2, <2>2 DEF n
  <2>4. Collect(c, p) = [list |-> l, current |-> n + 1]
    BY <2>1, <2>2
  <2>5. Collect(c, p) \in CollectState
    BY <1>1, <2>3, <2>4 DEF CollectState
  <2>6. ASSUME NEW P, NEW box \in Rects, Covers(box, p), CoverIn(list, P, box)
        PROVE  CoverIn(l, P \cup {p}, box)
    <3>1. n + 1 \in 1 .. Len(l) /\ \A k \in 1 .. n : k \in 1 .. Len(l)
      BY <1>1, <2>3
    <3>2. \A k \in 1 .. Len(l) : k = n + 1 \/ k \in 1 .. n
      BY <1>1, <2>3
    <3>3. \A r \in P \cup {p} : \E k \in 1 .. Len(l) : Covers(l[k], r)
      BY <1>2, <2>3, <2>6, <3>1 DEF CoverIn, n
    <3>4. \A k \in 1 .. Len(l) : Encloses(box, l[k])
      BY <1>2, <2>3, <2>6, <3>2 DEF CoverIn, n
    <3> QED BY <2>3, <3>3, <3>4 DEF CoverIn
  <2> QED BY <2>4, <2>5, <2>6 DEF list
<1>4. CASE near # {}
  <2>1. near \in SUBSET Nat
    BY <1>1
  <2>2. i \in 1 .. n
    <3>1. \E x \in near : \A y \in near : x <= y
      <4> HIDE DEF near
      <4> QED BY <1>4, <2>1, LeastOf
    <3>2. Min(near) \in near
      <4> HIDE DEF near
      <4> QED BY <3>1 DEF Min
    <3>3. \A k \in near : k \in 1 .. n
      BY <1>1
    <3> HIDE DEF near
    <3> QED BY <3>2, <3>3
  <2>3. Collect(c, p) = [list |-> [list EXCEPT ![i] = Around(list[i], point)],
                         current |-> i]
    BY <1>4 DEF Collect, Extended, point
  <2> HIDE DEF list, n, i
  <2>4. PICK l : l = [list EXCEPT ![i] = Around(list[i], point)]
    OBVIOUS
  <2>5. PICK a : a = Around(list[i], point)
    OBVIOUS
  <2>6. /\ a \in Rects /\ Encloses(a, list[i]) /\ Encloses(a, point)
        /\ \A b \in Rects : Encloses(b, list[i]) /\ Encloses(b, point)
                              => Encloses(b, a)
    BY <1>1, <1>2, <2>2, <2>5, AroundIs
  <2>7. /\ l \in Seq(Rects) /\ Len(l) = n /\ l[i] = a
        /\ \A k \in 1 .. n : k # i => l[k] = list[k]
    <3>1. l = [list EXCEPT ![i] = a]
      BY <2>4, <2>5
    <3> QED BY <1>1, <2>2, <2>6, <3>1, ExceptSeq DEF n
  <2>8. Collect(c, p) = [list |-> l, current |-> i]
    BY <2>3, <2>4
  <2>9. Collect(c, p) \in CollectState
    BY <1>1, <2>2, <2>7, <2>8 DEF CollectState
  <2>10. ASSUME NEW P, NEW box \in Rects, Covers(box, p), CoverIn(list, P, box)
         PROVE  CoverIn(l, P \cup {p}, box)
    <3>1. ASSUME NEW r \in P PROVE \E k \in 1 .. Len(l) : Covers(l[k], r)
      <4>1. PICK k \in 1 .. n : Covers(list[k], r)
        BY <2>10 DEF CoverIn, n
      <4>2. k = i => Covers(a, r)
        BY <1>1, <2>6, <4>1, EnclosesIs
      <4> QED BY <2>7, <4>1, <4>2
    <3>2. Covers(l[i], p)
      BY <1>2, <2>6, <2>7, EnclosesIs
    <3>3. ASSUME NEW k \in 1 .. Len(l) PROVE Encloses(box, l[k])
      <4>1. CASE k = i
        BY <1>2, <2>2, <2>6, <2>7, <2>10, <4>1 DEF CoverIn, n
      <4>2. CASE k # i
        BY <2>7, <2>10, <4>2 DEF CoverIn, n
      <4> QED BY <4>1, <4>2
    <3> QED BY <2>2, <2>7, <3>1, <3>2, <3>3 DEF CoverIn
  <2> QED BY <2>8, <2>9, <2>10 DEF list
<1> QED BY <1>3, <1>4

(* Collecting takes one pixel after the other.                             *)
LEMMA CollectTurns ==
  ASSUME NEW s \in Seq(Pixels)
  PROVE  \E m : /\ m \in [0 .. Len(s) -> CollectState] /\ m[0] = NoRegions
                /\ m[Len(s)] = FoldLeft(Collect, NoRegions, s)
                /\ \A k \in 1 .. Len(s) : m[k] = Collect(m[k - 1], s[k])
<1> DEFINE n == Len(s)
           V == CollectState
           Turn(f, T) == IF T = {} THEN NoRegions
                         ELSE LET i == Max(T) IN Collect(f[T \ {i}], s[i])
           fold == CHOOSE f : f = [T \in SUBSET (DOMAIN s) |-> Turn(f, T)]
           step == [x \in (1 .. n) \X V |-> Collect(x[2], s[x[1]])]
<1>1. FoldLeft(Collect, NoRegions, s) = fold[DOMAIN s]
  BY DEF FoldLeft, MapThenFoldSet
<1>2. n \in Nat /\ DOMAIN s = 1 .. n /\ NoRegions \in V
      /\ \A k \in 1 .. n : s[k] \in Pixels
  BY DEF NoRegions, CollectState
<1> HIDE DEF n
<1>3. /\ step \in [(1 .. n) \X V -> V]
      /\ \A k \in 1 .. n, v \in V : step[<<k, v>>] = Collect(v, s[k])
  BY <1>2, CollectIs
<1> HIDE DEF step
<1>4. PICK f : Folding(f, n, V, NoRegions, step)
  BY <1>2, <1>3, FoldExists
<1>5. ASSUME NEW T \in SUBSET (1 .. n) PROVE f[T] = Turn(f, T)
  <2>1. FoldsTo(f, n, V, NoRegions, step, T)
    BY <1>2, <1>4, FoldingIs
  <2> QED BY <1>3, <2>1 DEF FoldsTo
<1> HIDE DEF Turn
<1>6. f = [T \in SUBSET (1 .. n) |-> Turn(f, T)]
  BY <1>4, <1>5 DEF Folding
<1>7. fold = [T \in SUBSET (1 .. n) |-> Turn(fold, T)]
  BY <1>2, <1>6
<1> HIDE DEF fold
<1>8. FoldBy(fold, n, V, NoRegions, step, fold[DOMAIN s])
  <2>1. fold[{}] = NoRegions /\ fold[1 .. n] = fold[DOMAIN s]
    BY <1>2, <1>7 DEF Turn
  <2>2. ASSUME NEW T \in (SUBSET (1 .. n)) \ {{}}, fold[T \ {Max(T)}] \in V
        PROVE  fold[T] = step[<<Max(T), fold[T \ {Max(T)}]>>]
    <3>1. Max(T) \in 1 .. n
      BY <1>2, MaxOfPart
    <3> QED BY <1>3, <1>7, <2>2, <3>1 DEF Turn
  <2> QED BY <2>1, <2>2 DEF FoldBy
<1>9. PICK m : TurnedBy(m, n, V, NoRegions, step, fold[DOMAIN s])
  <2>1. PICK last : last = fold[DOMAIN s]
    OBVIOUS
  <2> QED BY <1>2, <1>3, <1>8, <2>1, FoldTurns
<1>10. \A k \in 1 .. n : k - 1 \in 0 .. n
  BY <1>2
<1>11. /\ m \in [0 .. n -> V] /\ m[0] = NoRegions
       /\ m[n] = FoldLeft(Collect, NoRegions, s)
       /\ \A k \in 1 .. n : m[k] = Collect(m[k - 1], s[k])
  BY <1>1, <1>2, <1>3, <1>9, <1>10 DEF TurnedBy
<1> QED BY <1>11 DEF n

(* The regions collected cover what changed and lie in its box.            *)
LEMMA CollectedIs ==
  ASSUME NEW dirty \in SUBSET Pixels, IsFiniteSet(dirty), dirty # {}
  PROVE  CoverIn(Collected(dirty), dirty, Box(dirty))
<1> DEFINE s == Scan(Box(dirty), dirty)
           n == Len(s)
           box == Box(dirty)
<1>1. s \in Seq(Pixels) /\ n \in Nat /\ (\A k \in 1 .. n : s[k] \in dirty)
      /\ \A p \in dirty : \E i \in 1 .. n : s[i] = p
  BY ScanIs
<1>2. box \in Rects /\ \A p \in dirty : Covers(box, p)
  BY BoxIs
<1>3. Collected(dirty) = FoldLeft(Collect, NoRegions, s).list
  BY DEF Collected
<1> HIDE DEF s, box
<1>4. PICK m : /\ m \in [0 .. n -> CollectState] /\ m[0] = NoRegions
               /\ m[n] = FoldLeft(Collect, NoRegions, s)
               /\ \A k \in 1 .. n : m[k] = Collect(m[k - 1], s[k])
  BY <1>1, CollectTurns
<1> HIDE DEF n
<1> DEFINE Seen(k) == {s[i] : i \in 1 .. k}
           T == {k \in 0 .. n : CoverIn(m[k].list, Seen(k), box)}
<1>5. 0 \in T
  <2>1. NoRegions.list = <<>> /\ Seen(0) = {}
    BY DEF NoRegions
  <2>2. CoverIn(<<>>, {}, box)
    BY DEF CoverIn
  <2>3. CoverIn(m[0].list, Seen(0), box)
    BY <1>4, <2>1, <2>2
  <2>4. 0 \in 0 .. n
    BY <1>1
  <2> QED BY <2>3, <2>4
<1>6. ASSUME NEW k \in 1 .. n, k - 1 \in T PROVE k \in T
  <2>1. k - 1 \in 0 .. n /\ k \in 0 .. n
    BY <1>1
  <2>2. m[k - 1] \in CollectState /\ m[k] = Collect(m[k - 1], s[k])
    BY <1>4, <2>1
  <2>3. CoverIn(m[k - 1].list, Seen(k - 1), box)
    BY <1>6
  <2>4. s[k] \in Pixels /\ Covers(box, s[k])
    BY <1>1, <1>2
  <2>5. CoverIn(m[k].list, Seen(k - 1) \cup {s[k]}, box)
    <3> HIDE DEF Seen
    <3> QED BY <1>2, <2>2, <2>3, <2>4, CollectIs
  <2>6. Seen(k) = Seen(k - 1) \cup {s[k]}
    BY <1>1
  <2> QED BY <2>1, <2>5, <2>6
<1>7. 0 .. n \subseteq T
  <2> HIDE DEF T
  <2> QED BY <1>1, <1>5, <1>6, ByTurns
<1>8. CoverIn(m[n].list, Seen(n), box)
  <2>1. n \in 0 .. n
    BY <1>1
  <2>2. n \in T
    BY <1>7, <2>1
  <2> QED BY <2>2
<1>9. dirty = Seen(n)
  BY <1>1
<1> QED BY <1>3, <1>4, <1>8, <1>9 DEF box

-----------------------------------------------------------------------------
(* Painting: the rectangles that are united.                               *)

(* What uniting makes of a list: no rectangle is lost, none leaves the box,*)
(* and there are not more of them.                                         *)
Kept(list, new, box) ==
  /\ list \in Seq(Rects) /\ new \in Seq(Rects)
  /\ \A i \in 1 .. Len(list) :
       \E k \in 1 .. Len(new) : Encloses(new[k], list[i])
  /\ (\A i \in 1 .. Len(list) : Encloses(box, list[i]))
       => \A k \in 1 .. Len(new) : Encloses(box, new[k])
  /\ Len(new) <= Len(list)
  /\ Len(list) >= 1 => Len(new) >= 1

(* Losing nothing is reflexive and transitive, and keeps pixels covered.   *)
LEMMA KeptIs ==
  ASSUME NEW a \in Seq(Rects), NEW b \in Seq(Rects), NEW c \in Seq(Rects),
         NEW box \in Rects
  PROVE  /\ Kept(a, a, box)
         /\ Kept(a, b, box) /\ Kept(b, c, box) => Kept(a, c, box)
         /\ \A P : Kept(a, b, box) /\ CoverIn(a, P, box) => CoverIn(b, P, box)
<1>1. /\ Len(a) \in Nat /\ Len(b) \in Nat /\ Len(c) \in Nat
      /\ \A i \in 1 .. Len(a) : a[i] \in Rects
      /\ \A i \in 1 .. Len(b) : b[i] \in Rects
      /\ \A i \in 1 .. Len(c) : c[i] \in Rects
  OBVIOUS
<1>2. Kept(a, a, box)
  <2>1. \A i \in 1 .. Len(a) : Encloses(a[i], a[i])
    BY <1>1, EnclosesIs
  <2> QED BY <1>1, <2>1 DEF Kept
<1>3. ASSUME Kept(a, b, box), Kept(b, c, box) PROVE Kept(a, c, box)
  <2>1. ASSUME NEW i \in 1 .. Len(a)
        PROVE  \E k \in 1 .. Len(c) : Encloses(c[k], a[i])
    <3>1. PICK j \in 1 .. Len(b) : Encloses(b[j], a[i])
      BY <1>3 DEF Kept
    <3>2. PICK k \in 1 .. Len(c) : Encloses(c[k], b[j])
      BY <1>3 DEF Kept
    <3>3. Encloses(c[k], a[i])
      BY <1>1, <3>1, <3>2, EnclosesIs
    <3> QED BY <3>3
  <2>2. Len(c) <= Len(a) /\ (Len(a) >= 1 => Len(c) >= 1)
    BY <1>1, <1>3 DEF Kept
  <2> QED BY <1>3, <2>1, <2>2 DEF Kept
<1>4. ASSUME NEW P, Kept(a, b, box), CoverIn(a, P, box) PROVE CoverIn(b, P, box)
  <2>1. ASSUME NEW p \in P PROVE \E k \in 1 .. Len(b) : Covers(b[k], p)
    <3>1. PICK i \in 1 .. Len(a) : Covers(a[i], p)
      BY <1>4 DEF CoverIn
    <3>2. PICK k \in 1 .. Len(b) : Encloses(b[k], a[i])
      BY <1>4 DEF Kept
    <3>3. Covers(b[k], p)
      BY <1>1, <3>1, <3>2, EnclosesIs
    <3> QED BY <3>3
  <2> QED BY <1>4, <2>1 DEF Kept, CoverIn
<1> QED BY <1>2, <1>3, <1>4

(* The region that absorbs others, and those it left alone; one turn of    *)
(* the loop over the regions after it.                                     *)
AbsorbState == [r : Rects, rest : Seq(Rects)]

AbsorbOne(acc, s) ==
  IF Better(acc.r, s) THEN [acc EXCEPT !.r = Around(@, s)]
                      ELSE [acc EXCEPT !.rest = Append(@, s)]

(* What one turn does: unite the two regions or keep both.                 *)
LEMMA AbsorbOneIs ==
  ASSUME NEW acc \in AbsorbState, NEW s \in Rects
  PROVE  /\ AbsorbOne(acc, s) \in AbsorbState
         /\ \/ /\ Better(acc.r, s)
               /\ AbsorbOne(acc, s) = [r |-> Around(acc.r, s), rest |-> acc.rest]
            \/ /\ ~Better(acc.r, s)
               /\ AbsorbOne(acc, s) = [r |-> acc.r, rest |-> Append(acc.rest, s)]
<1>1. acc.r \in Rects /\ acc.rest \in Seq(Rects) /\ Around(acc.r, s) \in Rects
      /\ Append(acc.rest, s) \in Seq(Rects)
  BY AroundIs DEF AbsorbState
<1>2. PICK a, t : a = Around(acc.r, s) /\ t = Append(acc.rest, s)
  OBVIOUS
<1>3. /\ AbsorbOne(acc, s) = IF Better(acc.r, s) THEN [acc EXCEPT !.r = a]
                             ELSE [acc EXCEPT !.rest = t]
  BY <1>2 DEF AbsorbOne
<1>4. /\ [acc EXCEPT !.r = a] = [r |-> a, rest |-> acc.rest]
      /\ [acc EXCEPT !.rest = t] = [r |-> acc.r, rest |-> t]
  BY DEF AbsorbState
<1>5. /\ [r |-> a, rest |-> acc.rest] \in AbsorbState
      /\ [r |-> acc.r, rest |-> t] \in AbsorbState
  BY <1>1, <1>2 DEF AbsorbState
<1> QED BY <1>2, <1>3, <1>4, <1>5

(* A region absorbs later ones, one after the other.                       *)
LEMMA AbsorbTurns ==
  ASSUME NEW list \in Seq(Rects), NEW k \in 1 .. Len(list)
  PROVE  \E m : /\ m \in [0 .. Len(list) - k -> AbsorbState]
                /\ m[0] = [r |-> list[k], rest |-> <<>>]
                /\ \A j \in 1 .. Len(list) - k :
                     m[j] = AbsorbOne(m[j - 1], list[k + j])
                /\ \E e : e = m[Len(list) - k]
                     /\ Absorb(list, k) = SubSeq(list, 1, k - 1) \o <<e.r>> \o e.rest
<1> DEFINE s == SubSeq(list, k + 1, Len(list))
           n == Len(list) - k
           V == AbsorbState
           base == [r |-> list[k], rest |-> <<>>]
           Turn(f, T) == IF T = {} THEN base
                         ELSE LET i == Max(T) IN AbsorbOne(f[T \ {i}], s[i])
           fold == CHOOSE f : f = [T \in SUBSET (DOMAIN s) |-> Turn(f, T)]
           step == [x \in (1 .. n) \X V |-> AbsorbOne(x[2], s[x[1]])]
           e == fold[DOMAIN s]
<1>1. Absorb(list, k) = SubSeq(list, 1, k - 1) \o <<e.r>> \o e.rest
  BY DEF Absorb, AbsorbOne, FoldLeft, MapThenFoldSet
<1>2. /\ n \in Nat /\ DOMAIN s = 1 .. n /\ base \in V
      /\ \A j \in 1 .. n : s[j] \in Rects /\ s[j] = list[k + j]
  <2>1. /\ n \in Nat /\ Len(list) \in Nat /\ k + 1 \in 1 .. Len(list) + 1
        /\ Len(list) \in (k + 1) - 1 .. Len(list) /\ list[k] \in Rects
    OBVIOUS
  <2>2. PICK a, b : a = k + 1 /\ b = Len(list)
    OBVIOUS
  <2>3. /\ SubSeq(list, a, b) \in Seq(Rects) /\ Len(SubSeq(list, a, b)) = b - a + 1
        /\ \A i \in 1 .. b - a + 1 : SubSeq(list, a, b)[i] = list[a + i - 1]
    BY <2>1, <2>2, SubSeqProperties
  <2>4. PICK t : t = s
    OBVIOUS
  <2>5. /\ t \in Seq(Rects) /\ Len(t) = n /\ \A i \in 1 .. n : t[i] = list[k + i]
    <3>1. b - a + 1 = n /\ \A i \in 1 .. n : a + i - 1 = k + i
      BY <2>1, <2>2
    <3>2. SubSeq(list, a, b) = t
      BY <2>2, <2>4
    <3> HIDE DEF s, n
    <3> QED BY <2>3, <3>1, <3>2
  <2>6. base \in V
    BY <2>1 DEF AbsorbState
  <2> HIDE DEF s, n, base
  <2> QED BY <2>1, <2>4, <2>5, <2>6
<1> HIDE DEF n, base, s
<1>3. /\ step \in [(1 .. n) \X V -> V]
      /\ \A j \in 1 .. n, v \in V : step[<<j, v>>] = AbsorbOne(v, s[j])
  BY <1>2, AbsorbOneIs
<1> HIDE DEF step
<1>4. PICK f : Folding(f, n, V, base, step)
  BY <1>2, <1>3, FoldExists
<1>5. ASSUME NEW T \in SUBSET (1 .. n) PROVE f[T] = Turn(f, T)
  <2>1. FoldsTo(f, n, V, base, step, T)
    BY <1>2, <1>4, FoldingIs
  <2> QED BY <1>3, <2>1 DEF FoldsTo
<1> HIDE DEF Turn
<1>6. f = [T \in SUBSET (1 .. n) |-> Turn(f, T)]
  BY <1>4, <1>5 DEF Folding
<1>7. fold = [T \in SUBSET (1 .. n) |-> Turn(fold, T)]
  BY <1>2, <1>6
<1> HIDE DEF fold
<1>8. FoldBy(fold, n, V, base, step, e)
  <2>1. fold[{}] = base /\ fold[1 .. n] = e
    BY <1>2, <1>7 DEF Turn
  <2>2. ASSUME NEW T \in (SUBSET (1 .. n)) \ {{}}, fold[T \ {Max(T)}] \in V
        PROVE  fold[T] = step[<<Max(T), fold[T \ {Max(T)}]>>]
    <3>1. Max(T) \in 1 .. n
      BY <1>2, MaxOfPart
    <3> QED BY <1>3, <1>7, <2>2, <3>1 DEF Turn
  <2> QED BY <2>1, <2>2 DEF FoldBy
<1> HIDE DEF e
<1>9. PICK m : TurnedBy(m, n, V, base, step, e)
  BY <1>2, <1>3, <1>8, FoldTurns
<1>10. \A j \in 1 .. n : j - 1 \in 0 .. n
  BY <1>2
<1>11. /\ m \in [0 .. n -> V] /\ m[0] = base /\ m[n] = e
       /\ \A j \in 1 .. n : m[j] = AbsorbOne(m[j - 1], list[k + j])
  <2>1. /\ m \in [0 .. n -> V] /\ m[0] = base /\ m[n] = e
        /\ \A j \in 1 .. n : m[j] = step[<<j, m[j - 1]>>]
    BY <1>9 DEF TurnedBy
  <2>2. ASSUME NEW j \in 1 .. n PROVE m[j] = AbsorbOne(m[j - 1], list[k + j])
    <3>1. m[j - 1] \in V /\ s[j] = list[k + j]
      BY <1>2, <1>10, <2>1
    <3> QED BY <1>3, <2>1, <3>1
  <2> QED BY <2>1, <2>2
<1> QED BY <1>1, <1>11 DEF n, base

(* After j of the later regions.                                           *)
AbsorbedSo(list, k, acc, j, box) ==
  /\ Encloses(acc.r, list[k])
  /\ \A i \in 1 .. j : \/ Encloses(acc.r, list[k + i])
                       \/ \E l \in 1 .. Len(acc.rest) : acc.rest[l] = list[k + i]
  /\ (\A i \in 1 .. Len(list) : Encloses(box, list[i])) =>
       /\ Encloses(box, acc.r)
       /\ \A l \in 1 .. Len(acc.rest) : Encloses(box, acc.rest[l])
  /\ Len(acc.rest) <= j
  /\ Len(acc.rest) = j =>
       /\ acc.r = list[k]
       /\ \A i \in 1 .. j : acc.rest[i] = list[k + i]
                            /\ ~Better(list[k], list[k + i])

(* One more turn keeps what the turns before it established.               *)
LEMMA AbsorbNext ==
  ASSUME NEW list \in Seq(Rects), NEW k \in 1 .. Len(list),
         NEW j \in 1 .. Len(list) - k, NEW box \in Rects,
         NEW acc \in AbsorbState, AbsorbedSo(list, k, acc, j - 1, box)
  PROVE  AbsorbedSo(list, k, AbsorbOne(acc, list[k + j]), j, box)
<1> DEFINE s == list[k + j]
           new == AbsorbOne(acc, s)
           L == Len(acc.rest)
<1>1. /\ s \in Rects /\ list[k] \in Rects /\ acc.r \in Rects
      /\ acc.rest \in Seq(Rects) /\ L \in Nat
      /\ k + j \in 1 .. Len(list)
      /\ \A i \in 1 .. j - 1 : list[k + i] \in Rects
  BY DEF AbsorbState
<1>2. PICK bound : bound <=> \A i \in 1 .. Len(list) : Encloses(box, list[i])
  OBVIOUS
<1>3. /\ bound => Encloses(box, s)
      /\ Encloses(acc.r, list[k])
      /\ \A i \in 1 .. j - 1 : \/ Encloses(acc.r, list[k + i])
                               \/ \E l \in 1 .. L : acc.rest[l] = list[k + i]
      /\ bound => /\ Encloses(box, acc.r)
                  /\ \A l \in 1 .. L : Encloses(box, acc.rest[l])
      /\ L <= j - 1
      /\ L = j - 1 => /\ acc.r = list[k]
                      /\ \A i \in 1 .. j - 1 : acc.rest[i] = list[k + i]
                                               /\ ~Better(list[k], list[k + i])
  BY <1>1, <1>2 DEF AbsorbedSo
<1>4. \A i \in 1 .. j : i \in 1 .. j - 1 \/ i = j
  OBVIOUS
<1>5. CASE Better(acc.r, s)
  <2>1. PICK a : a = Around(acc.r, s)
    OBVIOUS
  <2>2. new = [r |-> a, rest |-> acc.rest]
    BY <1>1, <1>5, <2>1, AbsorbOneIs
  <2>3. /\ a \in Rects /\ Encloses(a, acc.r) /\ Encloses(a, s)
        /\ Encloses(box, acc.r) /\ Encloses(box, s) => Encloses(box, a)
    BY <1>1, <2>1, AroundIs
  <2>4. /\ Encloses(a, list[k])
        /\ \A i \in 1 .. j - 1 : Encloses(acc.r, list[k + i]) => Encloses(a, list[k + i])
    BY <1>1, <1>3, <2>3, EnclosesIs
  <2> HIDE DEF new
  <2>5. /\ new.r = a /\ new.rest = acc.rest /\ L < j
    BY <1>1, <1>3, <2>2
  <2>6. \A i \in 1 .. j : \/ Encloses(a, list[k + i])
                          \/ \E l \in 1 .. L : acc.rest[l] = list[k + i]
    BY <1>3, <1>4, <2>3, <2>4
  <2>7. AbsorbedSo(list, k, new, j, box)
    BY <1>1, <1>2, <1>3, <2>3, <2>4, <2>5, <2>6 DEF AbsorbedSo
  <2> QED BY <2>7 DEF new
<1>6. CASE ~Better(acc.r, s)
  <2>1. PICK t : t = Append(acc.rest, s)
    OBVIOUS
  <2>2. new = [r |-> acc.r, rest |-> t]
    BY <1>1, <1>6, <2>1, AbsorbOneIs
  <2>3. /\ t \in Seq(Rects) /\ Len(t) = L + 1 /\ t[L + 1] = s
        /\ \A l \in 1 .. L : t[l] = acc.rest[l]
    BY <1>1, <2>1
  <2>4. /\ L + 1 \in 1 .. L + 1 /\ (\A l \in 1 .. L : l \in 1 .. L + 1)
        /\ \A l \in 1 .. L + 1 : l \in 1 .. L \/ l = L + 1
    <3>1. L \in Nat
      BY <1>1
    <3> HIDE DEF L
    <3> QED BY ONLY <3>1
  <2> HIDE DEF new
  <2>5. new.r = acc.r /\ new.rest = t
    BY <2>2
  <2>6. \A i \in 1 .. j : \/ Encloses(acc.r, list[k + i])
                          \/ \E l \in 1 .. L + 1 : t[l] = list[k + i]
    BY <1>3, <1>4, <2>3, <2>4
  <2>7. bound => \A l \in 1 .. L + 1 : Encloses(box, t[l])
    BY <1>3, <2>3, <2>4
  <2>8. L + 1 <= j /\ (L + 1 = j => L = j - 1)
    BY <1>1, <1>3
  <2>9. L + 1 = j => \A i \in 1 .. j : t[i] = list[k + i]
                                       /\ ~Better(list[k], list[k + i])
    BY <1>3, <1>4, <1>6, <2>3, <2>4, <2>8
  <2> HIDE DEF L, s
  <2>10. AbsorbedSo(list, k, new, j, box)
    BY <1>2, <1>3, <2>3, <2>5, <2>6, <2>7, <2>8, <2>9 DEF AbsorbedSo
  <2> QED BY <2>10 DEF new, s
<1> QED BY <1>5, <1>6

(* No two regions would be better sent as one.                             *)
Apart(list) == \A i, j \in 1 .. Len(list) : i < j => ~Better(list[i], list[j])

(* A region that absorbs none leaves the list as it is, and is better sent *)
(* apart from all later ones.                                              *)
LEMMA AbsorbIs ==
  ASSUME NEW list \in Seq(Rects), NEW k \in 1 .. Len(list), NEW box \in Rects
  PROVE  /\ Absorb(list, k) \in Seq(Rects)
         /\ Kept(list, Absorb(list, k), box)
         /\ Len(Absorb(list, k)) = Len(list) =>
              /\ Absorb(list, k) = list
              /\ \A j \in k + 1 .. Len(list) : ~Better(list[k], list[j])
<1> DEFINE n == Len(list) - k
           N == Len(list)
           new == Absorb(list, k)
<1>1. n \in Nat /\ N \in Nat /\ n = N - k /\ k \in 1 .. N
      /\ \A i \in 1 .. N : list[i] \in Rects
  OBVIOUS
<1>2. PICK m : /\ m \in [0 .. n -> AbsorbState]
               /\ m[0] = [r |-> list[k], rest |-> <<>>]
               /\ \A j \in 1 .. n : m[j] = AbsorbOne(m[j - 1], list[k + j])
               /\ \E e : /\ e = m[n]
                         /\ new = SubSeq(list, 1, k - 1) \o <<e.r>> \o e.rest
  BY AbsorbTurns
<1> DEFINE T == {j \in 0 .. n : AbsorbedSo(list, k, m[j], j, box)}
<1>3. 0 \in T
  <2>1. Encloses(list[k], list[k])
    BY <1>1, EnclosesIs
  <2>2. AbsorbedSo(list, k, [r |-> list[k], rest |-> <<>>], 0, box)
    BY <1>1, <2>1 DEF AbsorbedSo
  <2>3. 0 \in 0 .. n
    BY <1>1
  <2> HIDE DEF n
  <2> QED BY <1>2, <2>2, <2>3
<1>4. ASSUME NEW j \in 1 .. n, j - 1 \in T PROVE j \in T
  <2>1. j - 1 \in 0 .. n /\ j \in 0 .. n
    BY <1>1
  <2>2. m[j - 1] \in AbsorbState /\ AbsorbedSo(list, k, m[j - 1], j - 1, box)
    BY <1>2, <1>4, <2>1
  <2>3. AbsorbedSo(list, k, AbsorbOne(m[j - 1], list[k + j]), j, box)
    BY <2>2, AbsorbNext
  <2>4. m[j] = AbsorbOne(m[j - 1], list[k + j])
    BY <1>2
  <2> QED BY <2>1, <2>3, <2>4
<1>5. 0 .. n \subseteq T
  <2> HIDE DEF T, n
  <2> QED BY <1>1, <1>3, <1>4, ByTurns
<1>6. PICK e : /\ e \in AbsorbState /\ AbsorbedSo(list, k, e, n, box)
               /\ new = SubSeq(list, 1, k - 1) \o <<e.r>> \o e.rest
  <2>1. n \in 0 .. n
    BY <1>1
  <2>2. n \in T
    BY <1>5, <2>1
  <2>3. m[n] \in AbsorbState /\ AbsorbedSo(list, k, m[n], n, box)
    BY <1>2, <2>1, <2>2
  <2> HIDE DEF n
  <2> QED BY <1>2, <2>3
<1>7. PICK h : h = SubSeq(list, 1, k - 1)
  OBVIOUS
<1>8. /\ h \in Seq(Rects) /\ Len(h) = k - 1
      /\ \A i \in 1 .. k - 1 : h[i] = list[i]
  <2>1. /\ \A i \in 1 .. k - 1 : list[i] \in Rects
        /\ k - 1 \in Int /\ 1 \in Int
        /\ (1 <= k - 1 => (k - 1) - 1 + 1 = k - 1) /\ (~(1 <= k - 1) => k - 1 = 0)
        /\ (k - 1) - 1 + 1 = k - 1
        /\ \A i \in 1 .. k - 1 : 1 + i - 1 = i
    BY <1>1
  <2>2. /\ SubSeq(list, 1, k - 1) \in Seq(Rects)
        /\ Len(SubSeq(list, 1, k - 1))
             = IF 1 <= k - 1 THEN (k - 1) - 1 + 1 ELSE 0
        /\ \A i \in 1 .. (k - 1) - 1 + 1 :
             SubSeq(list, 1, k - 1)[i] = list[1 + i - 1]
    BY <2>1, SubSeqProperties
  <2> QED BY <1>7, <2>1, <2>2
<1>9. PICK r, t, L : r = e.r /\ t = e.rest /\ L = Len(t)
  OBVIOUS
<1>10. r \in Rects /\ t \in Seq(Rects) /\ L \in Nat /\ \A l \in 1 .. L : t[l] \in Rects
  BY <1>6, <1>9 DEF AbsorbState
<1>11. PICK u : u = h \o <<r>>
  OBVIOUS
<1>12. /\ u \in Seq(Rects) /\ Len(u) = k /\ u[k] = r
       /\ \A i \in 1 .. k - 1 : u[i] = list[i]
  BY <1>1, <1>8, <1>10, <1>11
<1>13. PICK v : v = u \o t
  OBVIOUS
<1>14. new = v
  BY <1>6, <1>7, <1>9, <1>11, <1>13
<1>15. /\ v \in Seq(Rects) /\ Len(v) = k + L /\ v[k] = r
       /\ \A i \in 1 .. k - 1 : v[i] = list[i]
       /\ \A l \in 1 .. L : v[k + l] = t[l]
  <2>1. /\ v \in Seq(Rects) /\ Len(v) = Len(u) + Len(t)
        /\ \A i \in 1 .. Len(u) : v[i] = u[i]
        /\ \A i \in 1 .. Len(t) : v[Len(u) + i] = t[i]
    <3>1. u \in Seq(Rects) /\ t \in Seq(Rects)
      BY <1>10, <1>12
    <3>2. Join(Rects, u, t, u \o t)
      BY <3>1, Joined
    <3>3. Join(Rects, u, t, v)
      BY <1>13, <3>2
    <3> QED BY <3>3 DEF Join
  <2>2. k \in 1 .. k /\ \A i \in 1 .. k - 1 : i \in 1 .. k
    BY <1>1
  <2>3. Len(u) = k /\ Len(t) = L
    BY <1>9, <1>12
  <2> QED BY <1>12, <2>1, <2>2, <2>3
<1>16. AbsorbedSo(list, k, e, n, box)
  BY <1>6
<1> HIDE DEF n, N, new
<1>17. PICK bound : bound <=> \A i \in 1 .. N : Encloses(box, list[i])
  OBVIOUS
<1>18. /\ Encloses(r, list[k])
       /\ \A i \in 1 .. n : \/ Encloses(r, list[k + i])
                            \/ \E l \in 1 .. L : t[l] = list[k + i]
       /\ bound => /\ Encloses(box, r)
                   /\ \A l \in 1 .. L : Encloses(box, t[l])
       /\ L <= n
       /\ L = n => /\ r = list[k]
                   /\ \A i \in 1 .. n : t[i] = list[k + i]
                                        /\ ~Better(list[k], list[k + i])
  BY <1>9, <1>16, <1>17 DEF AbsorbedSo, N
<1>19. Kept(list, v, box)
  <2>1. k \in 1 .. Len(v) /\ (\A i \in 1 .. k - 1 : i \in 1 .. Len(v))
        /\ (\A l \in 1 .. L : k + l \in 1 .. Len(v))
        /\ (\A j \in 1 .. Len(v) : j \in 1 .. k - 1 \/ j = k
                                   \/ (j - k \in 1 .. L /\ k + (j - k) = j))
        /\ (\A j \in 1 .. N : j \in 1 .. k - 1 \/ j = k
                              \/ (j - k \in 1 .. n /\ k + (j - k) = j))
        /\ (\A i \in 1 .. k - 1 : i \in 1 .. N)
    BY <1>1, <1>10, <1>15
  <2>2. ASSUME NEW i \in 1 .. N PROVE \E j \in 1 .. Len(v) : Encloses(v[j], list[i])
    <3>1. CASE i \in 1 .. k - 1
      <4>1. Encloses(list[i], list[i])
        BY <1>1, EnclosesIs
      <4> QED BY <1>15, <2>1, <3>1, <4>1
    <3>2. CASE i = k
      BY <1>15, <1>18, <2>1, <3>2
    <3>3. CASE i - k \in 1 .. n /\ k + (i - k) = i
      <4>1. PICK d : d = i - k
        OBVIOUS
      <4>2. d \in 1 .. n /\ k + d = i
        BY <3>3, <4>1
      <4>3. CASE Encloses(r, list[k + d])
        BY <1>15, <2>1, <4>2, <4>3
      <4>4. ASSUME NEW l \in 1 .. L, t[l] = list[k + d]
            PROVE  \E j \in 1 .. Len(v) : Encloses(v[j], list[i])
        <5>1. Encloses(list[i], list[i])
          BY <1>1, EnclosesIs
        <5> QED BY <1>15, <2>1, <4>2, <4>4, <5>1
      <4> QED BY <1>18, <4>2, <4>3, <4>4
    <3> QED BY <2>1, <3>1, <3>2, <3>3
  <2>3. ASSUME bound, NEW j \in 1 .. Len(v) PROVE Encloses(box, v[j])
    <3>1. CASE j \in 1 .. k - 1
      BY <1>15, <1>17, <2>1, <2>3, <3>1
    <3>2. CASE j = k
      BY <1>15, <1>18, <2>3, <3>2
    <3>3. CASE j - k \in 1 .. L /\ k + (j - k) = j
      BY <1>15, <1>18, <2>3, <3>3
    <3> QED BY <2>1, <3>1, <3>2, <3>3
  <2>4. Len(v) <= N /\ Len(v) >= 1
    BY <1>1, <1>10, <1>15, <1>18
  <2> QED BY <1>15, <1>17, <2>2, <2>3, <2>4 DEF Kept, N
<1>20. ASSUME Len(v) = N
       PROVE  v = list /\ \A j \in k + 1 .. N : ~Better(list[k], list[j])
  <2>1. L = n
    BY <1>1, <1>10, <1>15, <1>20
  <2>2. \A j \in 1 .. N : j \in 1 .. k - 1 \/ j = k
                          \/ (j - k \in 1 .. n /\ k + (j - k) = j)
    BY <1>1
  <2>3. \A j \in 1 .. N : v[j] = list[j]
    BY <1>15, <1>18, <2>1, <2>2
  <2>4. v = list
    BY <1>15, <1>20, <2>3, SeqEqual DEF N
  <2>5. \A j \in k + 1 .. N : j - k \in 1 .. n /\ k + (j - k) = j
    BY <1>1
  <2> QED BY <1>18, <2>1, <2>4, <2>5
<1> QED BY <1>14, <1>15, <1>19, <1>20 DEF N, new

(* unitePaintRegions called for region k.                                  *)
LEMMA UniteFromIs ==
  ASSUME NEW list \in Seq(Rects), NEW k \in 1 .. Len(list), NEW box \in Rects
  PROVE  LET new == UniteFrom(list, k)
         IN  /\ new \in Seq(Rects) /\ Kept(list, new, box)
             /\ Len(new) = Len(list) =>
                  new = list /\ (k = 1 => Apart(list))
<1> DEFINE N == Len(list)
           new == UniteFrom(list, k)
           absorbing == {i \in k .. N : Len(Absorb(list, i)) < N}
           i0 == Min(absorbing)
<1>1. N \in Nat /\ \A i \in k .. N : i \in 1 .. N
  OBVIOUS
<1>2. new = IF absorbing = {} THEN list ELSE Absorb(list, i0)
  BY DEF UniteFrom
<1>3. \A i \in k .. N : /\ Absorb(list, i) \in Seq(Rects)
                        /\ Kept(list, Absorb(list, i), box)
                        /\ Len(Absorb(list, i)) = N =>
                             \A j \in i + 1 .. N : ~Better(list[i], list[j])
  BY <1>1, AbsorbIs
<1>4. CASE absorbing # {}
  <2>1. i0 \in absorbing
    <3>1. absorbing \in SUBSET Nat
      OBVIOUS
    <3> HIDE DEF absorbing
    <3>2. \E x \in absorbing : \A y \in absorbing : x <= y
      BY <1>4, <3>1, LeastOf
    <3> QED BY <3>2 DEF Min
  <2>2. i0 \in k .. N /\ Len(Absorb(list, i0)) < N
    BY <2>1
  <2>3. new = Absorb(list, i0)
    BY <1>2, <1>4
  <2> HIDE DEF i0, absorbing, N
  <2>4. Absorb(list, i0) \in Seq(Rects) /\ Kept(list, Absorb(list, i0), box)
    BY <1>3, <2>2
  <2>5. Len(Absorb(list, i0)) # N
    BY <1>1, <2>2, <2>4
  <2> HIDE DEF new
  <2> QED BY <2>3, <2>4, <2>5 DEF new, N
<1>5. CASE absorbing = {}
  <2>1. new = list
    BY <1>2, <1>5
  <2>2. Kept(list, list, box)
    BY KeptIs
  <2>3. ASSUME k = 1 PROVE Apart(list)
    <3> SUFFICES ASSUME NEW i \in 1 .. N, NEW j \in 1 .. N, i < j
                 PROVE  ~Better(list[i], list[j])
      BY DEF Apart
    <3>1. i \in k .. N /\ j \in i + 1 .. N
      BY <1>1, <2>3
    <3>2. ~ (Len(Absorb(list, i)) < N)
      BY <1>5, <3>1
    <3>3. Len(Absorb(list, i)) <= N /\ Len(Absorb(list, i)) \in Nat
      BY <1>3, <3>1 DEF Kept
    <3>4. Len(Absorb(list, i)) = N
      BY <1>1, <3>2, <3>3
    <3> QED BY <1>3, <3>1, <3>4
  <2> HIDE DEF new
  <2> QED BY <2>1, <2>2, <2>3 DEF new
<1> QED BY <1>4, <1>5

WalkOne(l, k) == IF k > Len(l) THEN l ELSE UniteFrom(l, k)

(* One turn keeps all rectangles, and when it is the last and united none, *)
(* no two of the regions should be united.                                 *)
LEMMA WalkOneIs ==
  ASSUME NEW l \in Seq(Rects), NEW k \in Nat \ {0}, NEW box \in Rects
  PROVE  LET new == WalkOne(l, k)
         IN  /\ new \in Seq(Rects) /\ Kept(l, new, box)
             /\ Len(new) = Len(l) => new = l /\ (k = 1 => Apart(l))
<1>1. CASE k > Len(l)
  <2>1. WalkOne(l, k) = l
    BY <1>1 DEF WalkOne
  <2>2. Kept(l, l, box)
    BY KeptIs
  <2>3. k = 1 => Apart(l)
    BY <1>1 DEF Apart
  <2> QED BY <2>1, <2>2, <2>3
<1>2. CASE ~(k > Len(l))
  <2>1. WalkOne(l, k) = UniteFrom(l, k) /\ k \in 1 .. Len(l)
    BY <1>2 DEF WalkOne
  <2> QED BY <2>1, UniteFromIs
<1> QED BY <1>1, <1>2

(* A walk calls it for each region there was.                              *)
LEMMA WalkTurns ==
  ASSUME NEW list \in Seq(Rects)
  PROVE  \E m : /\ m \in [0 .. Len(list) -> Seq(Rects)] /\ m[0] = list
                /\ m[Len(list)] = Walk(list)
                /\ \A k \in 1 .. Len(list) : m[k] = WalkOne(m[k - 1], k)
<1> DEFINE n == Len(list)
           V == Seq(Rects)
           s == [k \in DOMAIN list |-> k]
           Turn(f, T) == IF T = {} THEN list
                         ELSE LET i == Max(T) IN WalkOne(f[T \ {i}], s[i])
           fold == CHOOSE f : f = [T \in SUBSET (DOMAIN s) |-> Turn(f, T)]
           step == [x \in (1 .. n) \X V |-> WalkOne(x[2], x[1])]
           e == fold[DOMAIN s]
<1>1. Walk(list) = e
  BY DEF Walk, WalkOne, FoldLeft, MapThenFoldSet
<1>2. n \in Nat /\ DOMAIN s = 1 .. n /\ list \in V /\ \A k \in 1 .. n : s[k] = k
  OBVIOUS
<1> HIDE DEF n, s
<1>3. /\ step \in [(1 .. n) \X V -> V]
      /\ \A k \in 1 .. n, v \in V : step[<<k, v>>] = WalkOne(v, k)
  <2>1. ASSUME NEW k \in 1 .. n, NEW v \in V PROVE WalkOne(v, k) \in V
    <3>1. k \in Nat \ {0}
      BY <1>2
    <3>2. PICK box : box \in Rects
      <4>1. [x1 |-> 0, y1 |-> 0, x2 |-> 0, y2 |-> 0] \in Rects
        BY DEF Rects
      <4> QED BY <4>1
    <3> QED BY <3>1, <3>2, WalkOneIs
  <2> QED BY <2>1
<1> HIDE DEF step
<1>4. PICK f : Folding(f, n, V, list, step)
  BY <1>2, <1>3, FoldExists
<1>5. ASSUME NEW T \in SUBSET (1 .. n) PROVE f[T] = Turn(f, T)
  <2>1. FoldsTo(f, n, V, list, step, T)
    BY <1>2, <1>4, FoldingIs
  <2> QED BY <1>2, <1>3, <2>1 DEF FoldsTo
<1> HIDE DEF Turn
<1>6. f = [T \in SUBSET (1 .. n) |-> Turn(f, T)]
  BY <1>4, <1>5 DEF Folding
<1>7. fold = [T \in SUBSET (1 .. n) |-> Turn(fold, T)]
  BY <1>2, <1>6
<1> HIDE DEF fold
<1>8. FoldBy(fold, n, V, list, step, e)
  <2>1. fold[{}] = list /\ fold[1 .. n] = e
    BY <1>2, <1>7 DEF Turn
  <2>2. ASSUME NEW T \in (SUBSET (1 .. n)) \ {{}}, fold[T \ {Max(T)}] \in V
        PROVE  fold[T] = step[<<Max(T), fold[T \ {Max(T)}]>>]
    <3>1. Max(T) \in 1 .. n
      BY <1>2, MaxOfPart
    <3>2. fold[T] = WalkOne(fold[T \ {Max(T)}], s[Max(T)])
      BY <1>7 DEF Turn
    <3>3. s[Max(T)] = Max(T)
      BY <1>2, <3>1
    <3> QED BY <1>3, <2>2, <3>1, <3>2, <3>3
  <2> QED BY <2>1, <2>2 DEF FoldBy
<1> HIDE DEF e
<1>9. PICK m : TurnedBy(m, n, V, list, step, e)
  BY <1>2, <1>3, <1>8, FoldTurns
<1>10. /\ m \in [0 .. n -> V] /\ m[0] = list /\ m[n] = e
       /\ \A k \in 1 .. n : m[k] = step[<<k, m[k - 1]>>]
  BY <1>9 DEF TurnedBy
<1>11. ASSUME NEW k \in 1 .. n PROVE m[k] = WalkOne(m[k - 1], k)
  <2>1. m[k - 1] \in V
    <3>1. k - 1 \in 0 .. n
      BY <1>2
    <3> QED BY <1>10, <3>1
  <2> QED BY <1>3, <1>10, <2>1
<1> QED BY <1>1, <1>10, <1>11 DEF n

(* A walk that unites nothing shows that the regions are apart.            *)
LEMMA WalkIs ==
  ASSUME NEW list \in Seq(Rects), NEW box \in Rects
  PROVE  /\ Walk(list) \in Seq(Rects) /\ Kept(list, Walk(list), box)
         /\ Len(Walk(list)) = Len(list) => Walk(list) = list /\ Apart(list)
<1> DEFINE n == Len(list)
<1>1. n \in Nat
  OBVIOUS
<1>2. PICK m : /\ m \in [0 .. n -> Seq(Rects)] /\ m[0] = list
               /\ m[n] = Walk(list)
               /\ \A k \in 1 .. n : m[k] = WalkOne(m[k - 1], k)
  BY WalkTurns
<1> DEFINE Same(l, k) == Len(l) = n => l = list /\ (k >= 1 => Apart(list))
           T == {k \in 0 .. n : Kept(list, m[k], box) /\ Same(m[k], k)}
<1>3. 0 \in T
  <2>1. Kept(list, list, box)
    BY KeptIs
  <2> QED BY <1>1, <1>2, <2>1
<1>4. ASSUME NEW k \in 1 .. n, k - 1 \in T PROVE k \in T
  <2>1. k - 1 \in 0 .. n /\ k \in 0 .. n /\ k \in Nat \ {0}
    BY <1>1
  <2>2. PICK l, new : l = m[k - 1] /\ new = m[k]
    OBVIOUS
  <2>3. /\ l \in Seq(Rects) /\ new = WalkOne(l, k)
        /\ Kept(list, l, box) /\ Same(l, k - 1)
    BY <1>2, <1>4, <2>1, <2>2
  <2>4. /\ new \in Seq(Rects) /\ Kept(l, new, box)
        /\ Len(new) = Len(l) => new = l /\ (k = 1 => Apart(l))
    BY <2>1, <2>3, WalkOneIs
  <2>5. Kept(list, new, box)
    BY <2>3, <2>4, KeptIs
  <2>6. ASSUME Len(new) = n PROVE new = list /\ Apart(list)
    <3>1. Len(new) <= Len(l) /\ Len(l) <= n /\ Len(l) \in Nat
      BY <2>3, <2>4 DEF Kept
    <3>2. Len(l) = n /\ Len(new) = Len(l)
      BY <1>1, <2>6, <3>1
    <3>3. l = list /\ (k - 1 >= 1 => Apart(list))
      BY <2>3, <3>2
    <3>4. k = 1 \/ k - 1 >= 1
      BY <2>1
    <3> QED BY <2>4, <3>2, <3>3, <3>4
  <2> HIDE DEF n
  <2> QED BY <2>1, <2>2, <2>5, <2>6
<1>5. 0 .. n \subseteq T
  <2> HIDE DEF T, n
  <2> QED BY <1>1, <1>3, <1>4, ByTurns
<1>6. n \in 0 .. n
  BY <1>1
<1>7. m[n] \in Seq(Rects) /\ Kept(list, m[n], box) /\ Same(m[n], n)
  BY <1>2, <1>5, <1>6
<1>8. n = 0 => Apart(list)
  BY DEF Apart
<1>9. n = 0 \/ n >= 1
  BY <1>1
<1> QED BY <1>2, <1>7, <1>8, <1>9

(* As many walks as there are regions.                                     *)
LEMMA UnitedTurns ==
  ASSUME NEW list \in Seq(Rects)
  PROVE  \E m : /\ m \in [0 .. Len(list) -> Seq(Rects)] /\ m[0] = list
                /\ m[Len(list)] = United(list)
                /\ \A k \in 1 .. Len(list) : m[k] = Walk(m[k - 1])
<1> DEFINE n == Len(list)
           V == Seq(Rects)
           s == [k \in DOMAIN list |-> k]
           Turn(f, T) == IF T = {} THEN list
                         ELSE LET i == Max(T) IN Walk(f[T \ {i}])
           fold == CHOOSE f : f = [T \in SUBSET (DOMAIN s) |-> Turn(f, T)]
           step == [x \in (1 .. n) \X V |-> Walk(x[2])]
           e == fold[DOMAIN s]
<1>1. United(list) = e
  BY DEF United, FoldLeft, MapThenFoldSet
<1>2. n \in Nat /\ DOMAIN s = 1 .. n /\ list \in V
  OBVIOUS
<1> HIDE DEF n, s
<1>3. /\ step \in [(1 .. n) \X V -> V]
      /\ \A k \in 1 .. n, v \in V : step[<<k, v>>] = Walk(v)
  <2>1. ASSUME NEW v \in V PROVE Walk(v) \in V
    <3>1. PICK box : box \in Rects
      <4>1. [x1 |-> 0, y1 |-> 0, x2 |-> 0, y2 |-> 0] \in Rects
        BY DEF Rects
      <4> QED BY <4>1
    <3> QED BY <3>1, WalkIs
  <2> QED BY <2>1
<1> HIDE DEF step
<1>4. PICK f : Folding(f, n, V, list, step)
  BY <1>2, <1>3, FoldExists
<1>5. ASSUME NEW T \in SUBSET (1 .. n) PROVE f[T] = Turn(f, T)
  <2>1. FoldsTo(f, n, V, list, step, T)
    BY <1>2, <1>4, FoldingIs
  <2> QED BY <1>2, <1>3, <2>1 DEF FoldsTo
<1> HIDE DEF Turn
<1>6. f = [T \in SUBSET (1 .. n) |-> Turn(f, T)]
  BY <1>4, <1>5 DEF Folding
<1>7. fold = [T \in SUBSET (1 .. n) |-> Turn(fold, T)]
  BY <1>2, <1>6
<1> HIDE DEF fold
<1>8. FoldBy(fold, n, V, list, step, e)
  <2>1. fold[{}] = list /\ fold[1 .. n] = e
    BY <1>2, <1>7 DEF Turn
  <2>2. ASSUME NEW T \in (SUBSET (1 .. n)) \ {{}}, fold[T \ {Max(T)}] \in V
        PROVE  fold[T] = step[<<Max(T), fold[T \ {Max(T)}]>>]
    <3>1. Max(T) \in 1 .. n
      BY <1>2, MaxOfPart
    <3> QED BY <1>2, <1>3, <1>7, <2>2, <3>1 DEF Turn
  <2> QED BY <2>1, <2>2 DEF FoldBy
<1> HIDE DEF e
<1>9. PICK m : TurnedBy(m, n, V, list, step, e)
  BY <1>2, <1>3, <1>8, FoldTurns
<1>10. /\ m \in [0 .. n -> V] /\ m[0] = list /\ m[n] = e
       /\ \A k \in 1 .. n : m[k] = step[<<k, m[k - 1]>>]
  BY <1>9 DEF TurnedBy
<1>11. ASSUME NEW k \in 1 .. n PROVE m[k] = Walk(m[k - 1])
  <2>1. m[k - 1] \in V
    <3>1. k - 1 \in 0 .. n
      BY <1>2
    <3> QED BY <1>10, <3>1
  <2> QED BY <1>3, <1>10, <2>1
<1> QED BY <1>1, <1>10, <1>11 DEF n

(* Each walk unites, or it has found the regions apart.                    *)
LEMMA UnitedIs ==
  ASSUME NEW list \in Seq(Rects), NEW box \in Rects
  PROVE  /\ United(list) \in Seq(Rects) /\ Kept(list, United(list), box)
         /\ Apart(United(list))
<1> DEFINE n == Len(list)
           Fixed(l) == Walk(l) = l /\ Apart(l)
<1>1. n \in Nat
  OBVIOUS
<1>2. PICK m : /\ m \in [0 .. n -> Seq(Rects)] /\ m[0] = list
               /\ m[n] = United(list)
               /\ \A k \in 1 .. n : m[k] = Walk(m[k - 1])
  BY UnitedTurns
<1> DEFINE T == {k \in 0 .. n : /\ Kept(list, m[k], box)
                                /\ Fixed(m[k]) \/ Len(m[k]) <= n - k}
<1>3. 0 \in T
  <2>1. Kept(list, list, box)
    BY KeptIs
  <2>2. Len(m[0]) <= n - 0 /\ 0 \in 0 .. n
    BY <1>1, <1>2
  <2> QED BY <1>2, <2>1, <2>2
<1>4. ASSUME NEW k \in 1 .. n, k - 1 \in T PROVE k \in T
  <2>1. k - 1 \in 0 .. n /\ k \in 0 .. n
    BY <1>1
  <2>2. PICK l, new : l = m[k - 1] /\ new = m[k]
    OBVIOUS
  <2>3. /\ l \in Seq(Rects) /\ new = Walk(l) /\ Kept(list, l, box)
        /\ Fixed(l) \/ Len(l) <= n - (k - 1)
    BY <1>2, <1>4, <2>1, <2>2
  <2>4. /\ new \in Seq(Rects) /\ Kept(l, new, box)
        /\ Len(new) = Len(l) => new = l /\ Apart(l)
    BY <2>3, WalkIs
  <2>5. Kept(list, new, box)
    BY <2>3, <2>4, KeptIs
  <2>6. Fixed(new) \/ Len(new) <= n - k
    <3>1. CASE Len(new) = Len(l)
      BY <2>3, <2>4, <3>1
    <3>2. CASE Len(new) # Len(l)
      <4>1. ~Fixed(l)
        BY <2>3, <3>2
      <4>2. Len(new) <= Len(l) /\ Len(l) <= n - (k - 1)
            /\ Len(l) \in Nat /\ Len(new) \in Nat
        BY <2>3, <2>4, <4>1 DEF Kept
      <4> QED BY <1>1, <3>2, <4>2
    <3> QED BY <3>1, <3>2
  <2> HIDE DEF n, Fixed
  <2> QED BY <2>1, <2>2, <2>5, <2>6
<1>5. 0 .. n \subseteq T
  <2> HIDE DEF T, n
  <2> QED BY <1>1, <1>3, <1>4, ByTurns
<1>6. n \in 0 .. n
  BY <1>1
<1>7. PICK l : /\ l = m[n] /\ l \in Seq(Rects) /\ Kept(list, l, box)
               /\ Fixed(l) \/ Len(l) <= n - n
  BY <1>2, <1>5, <1>6
<1>8. Apart(l)
  <2>1. CASE Len(l) <= n - n
    <3>1. Len(l) = 0
      BY <1>1, <1>7, <2>1
    <3> QED BY <3>1 DEF Apart
  <2> QED BY <1>7, <2>1
<1> QED BY <1>2, <1>7, <1>8

(* Areas are numbers.                                                      *)
LEMMA AreaIs == ASSUME NEW r \in Rects PROVE Area(r) \in Int
<1>1. Width(r) \in Int /\ Height(r) \in Int
  BY DEF Width, Height, Rects
<1> HIDE DEF Width, Height
<1> QED BY <1>1 DEF Area

(* The total area is the outcome of the turns of its loop.                 *)
LEMMA AreaTurns ==
  ASSUME NEW list \in Seq(Rects)
  PROVE  \E m : /\ m \in [0 .. Len(list) -> Int] /\ m[0] = 0
                /\ m[Len(list)] = TotalArea(list)
                /\ \A k \in 1 .. Len(list) : m[k] = m[k - 1] + Area(list[k])
<1>0. PICK V, zero : V = Int /\ zero = 0
  OBVIOUS
<1> DEFINE n == Len(list)
           Turn(f, T) == IF T = {} THEN zero
                         ELSE LET i == Max(T) IN f[T \ {i}] + Area(list[i])
           fold == CHOOSE f : f = [T \in SUBSET (DOMAIN list) |-> Turn(f, T)]
           step == [x \in (1 .. n) \X V |-> x[2] + Area(list[x[1]])]
           e == fold[DOMAIN list]
<1>1. TotalArea(list) = e
  BY <1>0 DEF TotalArea, FoldLeft, MapThenFoldSet
<1>2. /\ n \in Nat /\ DOMAIN list = 1 .. n /\ zero \in V
      /\ \A k \in 1 .. n : Area(list[k]) \in Int
  BY <1>0, AreaIs
<1> HIDE DEF n
<1>3. /\ step \in [(1 .. n) \X V -> V]
      /\ \A k \in 1 .. n, v \in V : step[<<k, v>>] = v + Area(list[k])
  BY <1>0, <1>2
<1> HIDE DEF step
<1>4. PICK f : Folding(f, n, V, zero, step)
  BY <1>2, <1>3, FoldExists
<1>5. ASSUME NEW T \in SUBSET (1 .. n) PROVE f[T] = Turn(f, T)
  <2>1. FoldsTo(f, n, V, zero, step, T)
    BY <1>2, <1>4, FoldingIs
  <2> QED BY <1>3, <2>1 DEF FoldsTo
<1> HIDE DEF Turn
<1>6. f = [T \in SUBSET (1 .. n) |-> Turn(f, T)]
  BY <1>4, <1>5 DEF Folding
<1>7. fold = [T \in SUBSET (1 .. n) |-> Turn(fold, T)]
  BY <1>2, <1>6
<1> HIDE DEF fold
<1>8. FoldBy(fold, n, V, zero, step, e)
  <2>1. fold[{}] = zero /\ fold[1 .. n] = e
    BY <1>2, <1>7 DEF Turn
  <2>2. ASSUME NEW T \in (SUBSET (1 .. n)) \ {{}}, fold[T \ {Max(T)}] \in V
        PROVE  fold[T] = step[<<Max(T), fold[T \ {Max(T)}]>>]
    <3>1. Max(T) \in 1 .. n
      BY <1>2, MaxOfPart
    <3>2. fold[T] = fold[T \ {Max(T)}] + Area(list[Max(T)])
      BY <1>7 DEF Turn
    <3> QED BY <1>3, <2>2, <3>1, <3>2
  <2> QED BY <2>1, <2>2 DEF FoldBy
<1> HIDE DEF e
<1>9. PICK m : TurnedBy(m, n, V, zero, step, e)
  BY <1>2, <1>3, <1>8, FoldTurns
<1>10. /\ m \in [0 .. n -> V] /\ m[0] = zero /\ m[n] = e
       /\ \A k \in 1 .. n : m[k] = step[<<k, m[k - 1]>>]
  BY <1>9 DEF TurnedBy
<1>11. ASSUME NEW k \in 1 .. n PROVE m[k] = m[k - 1] + Area(list[k])
  <2>1. m[k - 1] \in V
    <3>1. k - 1 \in 0 .. n
      BY <1>2
    <3> QED BY <1>10, <3>1
  <2> QED BY <1>3, <1>10, <2>1
<1> QED BY <1>0, <1>1, <1>10, <1>11 DEF n

(* The total area of one region is its own.                                *)
LEMMA TotalAreaIs ==
  ASSUME NEW list \in Seq(Rects)
  PROVE  /\ TotalArea(list) \in Int
         /\ Len(list) = 1 => TotalArea(list) = Area(list[1])
<1>1. Len(list) \in Nat /\ Len(list) \in 0 .. Len(list)
  OBVIOUS
<1>2. PICK m : /\ m \in [0 .. Len(list) -> Int] /\ m[0] = 0
               /\ m[Len(list)] = TotalArea(list)
               /\ \A k \in 1 .. Len(list) : m[k] = m[k - 1] + Area(list[k])
  BY AreaTurns
<1>3. ASSUME Len(list) = 1 PROVE TotalArea(list) = Area(list[1])
  <2>1. 1 \in 1 .. Len(list) /\ 1 - 1 = 0
    BY <1>3
  <2>2. m[1] = m[0] + Area(list[1])
    BY <1>2, <2>1
  <2>3. Area(list[1]) \in Int
    BY <2>1, AreaIs
  <2> QED BY <1>2, <1>3, <2>2, <2>3
<1> QED BY <1>1, <1>2, <1>3

(* Whatever pixels changed, remote_paint_rect sends all of them, nothing   *)
(* outside their bounding box and no more than it.                         *)
THEOREM PaintSent ==
  ASSUME NEW dirty \in SUBSET Pixels, IsFiniteSet(dirty)
  PROVE  PaintIsSent(dirty)
<1> DEFINE box == Box(dirty)
           regions == Regions(dirty)
           frames == Painted(dirty)
<1>1. CASE dirty = {}
  <2>1. frames = <<>>
    BY <1>1 DEF Painted
  <2> HIDE DEF frames
  <2>2. DOMAIN frames = {}
    BY <2>1
  <2> QED BY <1>1, <2>1, <2>2 DEF PaintIsSent, frames
<1>2. CASE dirty # {}
  <2>1. box \in Rects /\ \A p \in dirty : Covers(box, p)
    BY <1>2, BoxIs
  <2>2. \/ regions # <<>> /\ TotalArea(regions) < Area(box) /\ frames = regions
        \/ frames = <<box>>
    BY <1>2 DEF Painted
  <2> HIDE DEF box
  <2>3. regions # <<>> => CoverIn(regions, dirty, box)
    <3>1. regions # <<>> => regions = United(Collected(dirty))
      BY DEF Regions
    <3>2. CoverIn(Collected(dirty), dirty, box)
      BY <1>2, CollectedIs DEF box
    <3>3. Collected(dirty) \in Seq(Rects)
      BY <3>2 DEF CoverIn
    <3>4. /\ United(Collected(dirty)) \in Seq(Rects)
          /\ Kept(Collected(dirty), United(Collected(dirty)), box)
      BY <2>1, <3>3, UnitedIs
    <3>5. CoverIn(United(Collected(dirty)), dirty, box)
      BY <2>1, <3>2, <3>3, <3>4, KeptIs
    <3> HIDE DEF regions
    <3> QED BY <3>1, <3>5
  <2> HIDE DEF regions
  <2>4. CoverIn(<<box>>, dirty, box)
    <3>1. Encloses(box, box)
      BY <2>1, EnclosesIs
    <3>2. PICK l : l = <<box>>
      OBVIOUS
    <3>3. l \in Seq(Rects) /\ Len(l) = 1 /\ l[1] = box /\ 1 \in 1 .. Len(l)
      BY <2>1, <3>2
    <3>4. CoverIn(l, dirty, box)
      BY <2>1, <3>1, <3>3 DEF CoverIn
    <3> QED BY <3>2, <3>4
  <2>5. TotalArea(<<box>>) = Area(box)
    <3>1. <<box>> \in Seq(Rects) /\ Len(<<box>>) = 1 /\ <<box>>[1] = box
      BY <2>1
    <3> QED BY <3>1, TotalAreaIs
  <2>6. Area(box) \in Int
    BY <2>1, AreaIs
  <2> HIDE DEF frames
  <2>7. CoverIn(frames, dirty, box)
    BY <2>2, <2>3, <2>4
  <2>8. TotalArea(frames) <= Area(box)
    <3>1. CASE frames = <<box>>
      BY <2>5, <2>6, <3>1
    <3>2. CASE frames = regions /\ TotalArea(regions) < Area(box)
      <4>1. TotalArea(frames) \in Int
        BY <2>7, TotalAreaIs DEF CoverIn
      <4> QED BY <2>6, <3>2, <4>1
    <3> QED BY <2>2, <3>1, <3>2
  <2>9. /\ frames \in Seq(Rects) /\ DOMAIN frames = 1 .. Len(frames)
        /\ \A i \in 1 .. Len(frames) : frames[i] \in Rects
    <3>1. frames \in Seq(Rects)
      BY <2>7 DEF CoverIn
    <3> QED BY <3>1
  <2>10. \A i \in DOMAIN frames : Around(frames[i], box) = box
    <3> SUFFICES ASSUME NEW i \in 1 .. Len(frames)
                 PROVE  Around(frames[i], box) = box
      BY <2>9
    <3>1. frames[i] \in Rects /\ Encloses(box, frames[i])
      BY <2>7, <2>9 DEF CoverIn
    <3> QED BY <2>1, <3>1, AroundIs
  <2>11. \A p \in dirty : \E i \in DOMAIN frames : Covers(frames[i], p)
    BY <2>7, <2>9 DEF CoverIn
  <2> QED BY <2>8, <2>10, <2>11 DEF PaintIsSent, frames, box
<1> QED BY <1>1, <1>2

(* However many regions there are, unitePaintRegions ends only when no two *)
(* of them are better sent as one.                                         *)
THEOREM PaintApart ==
  ASSUME NEW dirty \in SUBSET Pixels, IsFiniteSet(dirty)
  PROVE  RegionsAreApart(dirty)
<1> DEFINE l == Regions(dirty)
<1>1. \/ l = <<>>
      \/ dirty # {} /\ l = United(Collected(dirty))
  BY DEF Regions
<1>2. ASSUME dirty # {}
      PROVE  /\ United(Collected(dirty)) \in Seq(Rects)
             /\ Apart(United(Collected(dirty)))
  <2>1. Box(dirty) \in Rects
    BY <1>2, BoxIs
  <2>2. Collected(dirty) \in Seq(Rects)
    BY <1>2, CollectedIs DEF CoverIn
  <2> QED BY <2>1, <2>2, UnitedIs
<1> HIDE DEF l
<1>3. l \in Seq(Rects) /\ Apart(l)
  <2>1. <<>> \in Seq(Rects) /\ Apart(<<>>)
    BY DEF Apart
  <2> QED BY <1>1, <1>2, <2>1
<1>4. DOMAIN l = 1 .. Len(l)
  BY <1>3
<1> QED BY <1>3, <1>4 DEF RegionsAreApart, Apart, l

(* A box that remote_paint_rect searches is wide and high enough for the   *)
(* walk over each quarter to begin inside of it, and so to end at its edge. *)
THEOREM PaintEnds ==
  ASSUME NEW dirty \in SUBSET Pixels, IsFiniteSet(dirty)
  PROVE  ScanEnds(dirty)
<1> DEFINE b == Box(dirty)
<1>1. SUFFICES ASSUME dirty # {}, Split(b), NEW q \in 0 .. 3
               PROVE  Quarter(b, q) # {}
  BY DEF ScanEnds
<1>2. b \in Rects
  BY <1>1, BoxIs
<1>3. Width(b) >= 3 /\ Height(b) >= 3 /\ Width(b) \in Int /\ Height(b) \in Int
  BY <1>1, <1>2, NearAssumption DEF Split, Width, Height, Rects
<1> HIDE DEF b
<1>4. /\ b.x1 <= CentreX(b) /\ CentreX(b) + 1 <= b.x2
      /\ b.x1 \in Int /\ b.x2 \in Int /\ CentreX(b) \in Int
  BY <1>2, <1>3 DEF CentreX, Width, Rects
<1>5. /\ b.y1 <= CentreY(b) /\ CentreY(b) + 1 <= b.y2
      /\ b.y1 \in Int /\ b.y2 \in Int /\ CentreY(b) \in Int
  BY <1>2, <1>3 DEF CentreY, Height, Rects
<1> DEFINE xs == IF q % 2 = 0 THEN b.x1 .. CentreX(b) ELSE CentreX(b) + 1 .. b.x2
           ys == IF q < 2 THEN b.y1 .. CentreY(b) ELSE CentreY(b) + 1 .. b.y2
<1>6. \E x : x \in xs
  <2>1. CentreX(b) \in b.x1 .. CentreX(b) /\ CentreX(b) + 1 \in CentreX(b) + 1 .. b.x2
    BY <1>4
  <2> QED BY <2>1
<1>7. \E y : y \in ys
  <2>1. CentreY(b) \in b.y1 .. CentreY(b) /\ CentreY(b) + 1 \in CentreY(b) + 1 .. b.y2
    BY <1>5
  <2> QED BY <2>1
<1>8. Quarter(b, q) = xs \X ys
  BY DEF Quarter
<1> HIDE DEF xs, ys
<1>9. PICK x, y : x \in xs /\ y \in ys
  BY <1>6, <1>7
<1>10. <<x, y>> \in Quarter(b, q)
  BY <1>8, <1>9
<1> QED BY <1>10 DEF b

-----------------------------------------------------------------------------
(* The stream of events: clientReadNotify.                                 *)

(* Multiples of a length, and what \div and % are for it.                  *)
LEMMA TimesIs ==
  ASSUME NEW a \in Nat, NEW b \in Nat, NEW L \in Nat
  PROVE  /\ a * L \in Nat /\ (a + b) * L = a * L + b * L
         /\ (a + 1) * L = a * L + L
         /\ a <= b => a * L <= b * L
         /\ a < b => a * L + L <= b * L
<1>1. a * L \in Nat /\ b * L \in Nat
  OBVIOUS
<1>2. (a + b) * L = a * L + b * L /\ (a + 1) * L = a * L + L
  OBVIOUS
<1>3. ASSUME a <= b PROVE a * L <= b * L
  <2>1. PICK d \in Nat : b = a + d
    <3>1. b - a \in Nat /\ b = a + (b - a)
      BY <1>3
    <3> QED BY <3>1
  <2>2. b * L = a * L + d * L /\ d * L \in Nat
    BY <2>1
  <2> QED BY <1>1, <2>2
<1>4. ASSUME a < b PROVE a * L + L <= b * L
  <2>1. PICK d \in Nat : b = (a + d) + 1
    <3>1. (b - a) - 1 \in Nat /\ b = (a + ((b - a) - 1)) + 1
      BY <1>4
    <3> QED BY <3>1
  <2>2. b * L = a * L + d * L + L /\ d * L \in Nat
    BY <2>1
  <2> QED BY <1>1, <2>2
<1> QED BY <1>1, <1>2, <1>3, <1>4

(* Division with remainder.                                                *)
LEMMA DivIs ==
  ASSUME NEW a \in Nat, NEW L \in Nat \ {0}
  PROVE  /\ a \div L \in Nat /\ a % L \in 0 .. L - 1
         /\ a = (a \div L) * L + (a % L)
OBVIOUS

(* There is but one quotient with a remainder below the divisor.           *)
LEMMA DivUnique ==
  ASSUME NEW q \in Nat, NEW L \in Nat \ {0}, NEW m \in 0 .. L - 1
  PROVE  (q * L + m) \div L = q /\ (q * L + m) % L = m
<1>1. PICK a : a = q * L + m
  OBVIOUS
<1>2. a \in Nat /\ m \in Nat /\ m < L /\ q * L \in Nat
  BY <1>1, TimesIs
<1>3. PICK d, r : d = a \div L /\ r = a % L
  OBVIOUS
<1>4. d \in Nat /\ r \in Nat /\ r < L /\ a = d * L + r /\ d * L \in Nat
  BY <1>2, <1>3, DivIs
<1>5. ASSUME d < q PROVE FALSE
  <2>1. d * L + L <= q * L
    BY <1>4, <1>5, TimesIs
  <2> QED BY <1>1, <1>2, <1>4, <2>1
<1>6. ASSUME q < d PROVE FALSE
  <2>1. q * L + L <= d * L
    BY <1>4, <1>6, TimesIs
  <2> QED BY <1>1, <1>2, <1>4, <2>1
<1>7. d = q
  BY <1>4, <1>5, <1>6
<1>8. r = m
  BY <1>1, <1>2, <1>4, <1>7
<1> QED BY <1>1, <1>3, <1>7, <1>8

(* What a byte is: the event it belongs to and its place there.            *)
Pairs == Nat \X Nat

(* The k-th byte of a connection.                                          *)
ByteAt(k) == <<(k - 1) \div EvLength + 1, ((k - 1) % EvLength) + 1>>

(* The bytes of a connection that follow the first from.                   *)
Follows(s, from) ==
  s \in Seq(Pairs) /\ \A i \in 1 .. Len(s) : s[i] = ByteAt(from + i)

(* Events processed whole, in order and each once.                         *)
Handled(h) == Len(h) \in Nat /\ h = [n \in 1 .. Len(h) |-> Bytes(n)]

(* N events sent: those processed, the beginning kept, and the rest on the *)
(* wire.                                                                   *)
Whole(N, h, r, w) ==
  /\ Handled(h)
  /\ Follows(r, Len(h) * EvLength) /\ Len(r) < EvLength
  /\ Follows(w, Len(h) * EvLength + Len(r))
  /\ Len(h) * EvLength + Len(r) + Len(w) = N * EvLength

(* The invariant: as long as no reset dropped a part of an event, what was *)
(* processed, what is kept and what is on the wire are the events sent.    *)
EventsInv ==
  ~cut => kind \in Seq(Kinds) /\ Whole(Len(kind), handled, rest, wire)

(* An event is not empty.                                                  *)
LEMMA EvLengthIs == EvLength \in Nat /\ EvLength # 0 /\ EvLength > 0
BY EventsAssumption

(* The i-th byte of the event after n others.                              *)
LEMMA ByteAtIs ==
  ASSUME NEW n \in Nat, NEW i \in 1 .. EvLength
  PROVE  ByteAt(n * EvLength + i) = <<n + 1, i>>
<1> DEFINE L == EvLength
<1>1. L \in Nat \ {0} /\ i - 1 \in 0 .. L - 1 /\ i \in Nat
  BY EvLengthIs
<1>2. (n * L + (i - 1)) \div L = n /\ (n * L + (i - 1)) % L = i - 1
  <2> HIDE DEF L
  <2> QED BY <1>1, DivUnique
<1>3. PICK a : a = n * L
  OBVIOUS
<1>4. a \in Nat /\ (a + i) - 1 = a + (i - 1)
  BY <1>1, <1>3, TimesIs
<1>5. ByteAt(a + i) = <<n + 1, (i - 1) + 1>>
  <2>1. ((a + i) - 1) \div L = n /\ ((a + i) - 1) % L = i - 1
    BY <1>2, <1>3, <1>4
  <2>2. ByteAt(a + i) = <<(((a + i) - 1) \div L) + 1, (((a + i) - 1) % L) + 1>>
    <3>1. PICK z : z = a + i
      OBVIOUS
    <3>2. ByteAt(z) = <<((z - 1) \div L) + 1, ((z - 1) % L) + 1>>
      BY ZenonT(30) DEF ByteAt
    <3>3. z - 1 = (a + i) - 1
      BY <3>1
    <3> HIDE DEF L
    <3> QED BY <3>1, <3>2, <3>3, Zenon
  <2> HIDE DEF L
  <2> QED BY <2>1, <2>2
<1> QED BY <1>1, <1>3, <1>5

(* Bytes of a connection, and those of an event, are pairs.                *)
LEMMA ByteType ==
  ASSUME NEW k \in Nat, k # 0
  PROVE  ByteAt(k) \in Pairs
<1>1. PICK a : a = k - 1
  OBVIOUS
<1>2. a \in Nat /\ EvLength \in Nat \ {0}
  BY <1>1, EvLengthIs
<1>3. PICK q, r : q = a \div EvLength /\ r = a % EvLength
  OBVIOUS
<1>4. q \in Nat /\ r \in Nat
  BY <1>2, <1>3, DivIs
<1> QED BY <1>1, <1>3, <1>4 DEF ByteAt, Pairs

(* The bytes of an event, as a sequence.                                   *)
LEMMA BytesType ==
  ASSUME NEW n \in Nat
  PROVE  Bytes(n) \in Seq(Pairs) /\ Len(Bytes(n)) = EvLength
         /\ \A i \in 1 .. EvLength : Bytes(n)[i] = <<n, i>>
BY EvLengthIs DEF Bytes, Pairs

(* One sequence of bytes after another.                                    *)
LEMMA FollowsOn ==
  ASSUME NEW from \in Nat, NEW s, NEW t, Follows(s, from),
         Follows(t, from + Len(s))
  PROVE  Follows(s \o t, from) /\ Len(s \o t) = Len(s) + Len(t)
<1>1. s \in Seq(Pairs) /\ t \in Seq(Pairs) /\ Len(s) \in Nat /\ Len(t) \in Nat
  BY DEF Follows
<1>2. s \o t \in Seq(Pairs) /\ Len(s \o t) = Len(s) + Len(t)
  BY <1>1
<1>3. ASSUME NEW i \in 1 .. Len(s) + Len(t)
      PROVE  (s \o t)[i] = ByteAt(from + i)
  <2>1. CASE i \in 1 .. Len(s)
    BY <1>1, <2>1 DEF Follows
  <2>2. CASE i \notin 1 .. Len(s)
    <3>1. PICK j : j = i - Len(s)
      OBVIOUS
    <3>2. j \in 1 .. Len(t) /\ from + i = from + Len(s) + j
      BY <1>1, <2>2, <3>1
    <3>3. (s \o t)[i] = t[j]
      BY <1>1, <2>2, <3>1
    <3> QED BY <3>2, <3>3 DEF Follows
  <2> QED BY <2>1, <2>2
<1> QED BY <1>2, <1>3 DEF Follows

(* A part of one.                                                          *)
LEMMA FollowsPart ==
  ASSUME NEW from \in Nat, NEW s, Follows(s, from),
         NEW a \in Nat, NEW b \in Nat, a <= b, b <= Len(s)
  PROVE  Follows(SubSeq(s, a + 1, b), from + a)
         /\ Len(SubSeq(s, a + 1, b)) = b - a
<1>1. s \in Seq(Pairs) /\ Len(s) \in Nat
  BY DEF Follows
<1>2. SubSeq(s, a + 1, b) \in Seq(Pairs) /\ Len(SubSeq(s, a + 1, b)) = b - a
  BY <1>1, SubSeqProperties
<1>3. ASSUME NEW i \in 1 .. b - a
      PROVE  SubSeq(s, a + 1, b)[i] = ByteAt(from + a + i)
  <2>1. SubSeq(s, a + 1, b)[i] = s[a + i]
    BY <1>1
  <2>2. PICK j : j = a + i
    OBVIOUS
  <2>3. j \in 1 .. Len(s) /\ from + a + i = from + j
    BY <1>1, <2>2
  <2> QED BY <2>1, <2>2, <2>3 DEF Follows
<1> QED BY <1>2, <1>3 DEF Follows

(* L bytes that begin at an event are the event.                           *)
LEMMA FollowsEvent ==
  ASSUME NEW n \in Nat, NEW s, Follows(s, n * EvLength), Len(s) = EvLength
  PROVE  s = Bytes(n + 1)
<1>1. s \in Seq(Pairs)
  BY DEF Follows
<1>2. ASSUME NEW i \in 1 .. EvLength
      PROVE  s[i] = Bytes(n + 1)[i]
  <2>1. s[i] = ByteAt(n * EvLength + i)
    BY DEF Follows
  <2>2. ByteAt(n * EvLength + i) = <<n + 1, i>>
    BY ByteAtIs
  <2>3. Bytes(n + 1)[i] = <<n + 1, i>>
    BY DEF Bytes
  <2> QED BY <2>1, <2>2, <2>3
<1>3. Bytes(n + 1) \in Seq(Pairs) /\ Len(Bytes(n + 1)) = EvLength
  BY BytesType
<1> QED BY <1>1, <1>2, <1>3, SeqEqual

(* What is left of a stream when whole events are taken off it.            *)
LEMMA SliceIs ==
  ASSUME NEW H \in Nat, NEW b, Follows(b, H * EvLength),
         NEW i \in 1 .. Len(b) \div EvLength
  PROVE  Slice(b, i) = Bytes(H + i)
<1> DEFINE L == EvLength
<1>1. L \in Nat \ {0} /\ b \in Seq(Pairs) /\ Len(b) \in Nat
  BY EvLengthIs DEF Follows
<1> HIDE DEF L
<1>2. PICK q, m : q = Len(b) \div L /\ m = Len(b) % L
  OBVIOUS
<1>3. q \in Nat /\ m \in Nat /\ Len(b) = q * L + m
  <2>1. PICK z : z = Len(b)
    OBVIOUS
  <2>2. z \in Nat /\ q = z \div L /\ m = z % L
    BY <1>1, <1>2, <2>1
  <2>3. q \in Nat /\ m \in 0 .. L - 1 /\ z = q * L + m
    BY <1>1, <2>2, DivIs
  <2> QED BY <1>1, <2>1, <2>3
<1>4. i \in 1 .. q
  BY <1>2 DEF L
<1>5. PICK j : j = i - 1
  OBVIOUS
<1>6. j \in Nat /\ j < q /\ i = j + 1 /\ j + 1 <= q
  BY <1>3, <1>4, <1>5
<1>7. /\ j * L \in Nat /\ H * L \in Nat /\ q * L \in Nat
      /\ (j + 1) * L = j * L + L /\ (H + j) * L = H * L + j * L
      /\ j * L + L <= q * L
  BY <1>1, <1>3, <1>6, TimesIs
<1>8. PICK s : s = SubSeq(b, j * L + 1, j * L + L)
  OBVIOUS
<1>9. Follows(s, H * L + j * L) /\ Len(s) = (j * L + L) - j * L
  <2>1. PICK from, x, y : from = H * L /\ x = j * L /\ y = j * L + L
    OBVIOUS
  <2>2. /\ from \in Nat /\ x \in Nat /\ y \in Nat /\ x <= y /\ y <= Len(b)
        /\ Follows(b, from)
    BY <1>1, <1>3, <1>7, <2>1 DEF L
  <2>3. Follows(SubSeq(b, x + 1, y), from + x)
        /\ Len(SubSeq(b, x + 1, y)) = y - x
    BY <2>2, FollowsPart
  <2>4. Follows(s, from + x) /\ Len(s) = y - x
    BY <1>8, <2>1, <2>3
  <2>5. from + x = H * L + j * L /\ y - x = (j * L + L) - j * L
    BY <2>1
  <2> QED BY <2>4, <2>5
<1>10. Follows(s, (H + j) * L) /\ Len(s) = L
  BY <1>1, <1>7, <1>9
<1>11. s = Bytes((H + j) + 1)
  <2>1. PICK n : n = H + j
    OBVIOUS
  <2>2. n \in Nat /\ Follows(s, n * EvLength) /\ Len(s) = EvLength
    BY <1>6, <1>10, <2>1 DEF L
  <2> QED BY <2>1, <2>2, FollowsEvent
<1>12. Slice(b, i) = s
  <2>1. (i - 1) * EvLength + 1 = j * L + 1 /\ i * EvLength = j * L + L
    BY <1>5, <1>6, <1>7 DEF L
  <2> QED BY <1>8, <2>1 DEF Slice
<1> QED BY <1>6, <1>11, <1>12

(* What is kept begins an event and is shorter than one.                   *)
LEMMA RestIs ==
  ASSUME NEW H \in Nat, NEW b, Follows(b, H * EvLength)
  PROVE  LET q == Len(b) \div EvLength
         IN  /\ q \in Nat
             /\ Follows(Rest(b), (H + q) * EvLength)
             /\ Len(Rest(b)) < EvLength
             /\ H * EvLength + Len(b) = (H + q) * EvLength + Len(Rest(b))
<1> DEFINE L == EvLength
<1>1. L \in Nat \ {0} /\ b \in Seq(Pairs) /\ Len(b) \in Nat
  BY EvLengthIs DEF Follows
<1> HIDE DEF L
<1>2. PICK q, m : q = Len(b) \div L /\ m = Len(b) % L
  OBVIOUS
<1>3. q \in Nat /\ m \in Nat /\ m < L /\ Len(b) = q * L + m
  <2>1. PICK z : z = Len(b)
    OBVIOUS
  <2>2. z \in Nat /\ q = z \div L /\ m = z % L
    BY <1>1, <1>2, <2>1
  <2>3. q \in Nat /\ m \in 0 .. L - 1 /\ z = q * L + m
    BY <1>1, <2>2, DivIs
  <2> QED BY <1>1, <2>1, <2>3
<1>4. q * L \in Nat /\ H * L \in Nat /\ (H + q) * L = H * L + q * L
  BY <1>1, <1>3, TimesIs
<1>5. PICK from, x, y : from = H * L /\ x = q * L /\ y = Len(b)
  OBVIOUS
<1>6. /\ from \in Nat /\ x \in Nat /\ y \in Nat /\ x <= y /\ y <= Len(b)
      /\ Follows(b, from)
  BY <1>1, <1>3, <1>4, <1>5 DEF L
<1>7. Follows(SubSeq(b, x + 1, y), from + x)
      /\ Len(SubSeq(b, x + 1, y)) = y - x
  BY <1>6, FollowsPart
<1>8. Rest(b) = SubSeq(b, x + 1, y)
  <2>1. Len(b) - m + 1 = x + 1
    BY <1>1, <1>3, <1>4, <1>5
  <2> QED BY <1>2, <1>5, <2>1 DEF Rest, L
<1>9. /\ Follows(Rest(b), (H + q) * L) /\ Len(Rest(b)) < L
      /\ H * L + Len(b) = (H + q) * L + Len(Rest(b))
  BY <1>1, <1>3, <1>4, <1>5, <1>6, <1>7, <1>8
<1> QED BY <1>2, <1>3, <1>9 DEF L

(* A read: what is handled, kept and left on the wire is still whole.      *)
LEMMA ReadKeeps ==
  ASSUME NEW N \in Nat, NEW h, NEW r, NEW w, Whole(N, h, r, w),
         NEW n \in 1 .. Len(w), NEW b, b = r \o SubSeq(w, 1, n),
         NEW slices, slices = SlicesOf(b)
  PROVE  Whole(N, h \o slices, Rest(b), SubSeq(w, n + 1, Len(w)))
<1> DEFINE L == EvLength
           H == Len(h)
<1>1. L \in Nat \ {0} /\ H \in Nat /\ H * L \in Nat /\ N * L \in Nat
  BY EvLengthIs DEF Whole, Handled
<1>2. /\ r \in Seq(Pairs) /\ w \in Seq(Pairs)
      /\ Len(r) \in Nat /\ Len(w) \in Nat
  BY DEF Whole, Follows
<1>3. /\ Follows(r, H * L) /\ Follows(w, H * L + Len(r))
      /\ H * L + Len(r) + Len(w) = N * L
  BY DEF Whole
<1>4. PICK from, len, to : from = H * L + Len(r) /\ len = Len(w) /\ to = n
  OBVIOUS
<1>5. /\ from \in Nat /\ len \in Nat /\ to \in Nat /\ to <= len /\ 0 <= to
      /\ len <= Len(w) /\ Follows(w, from) /\ to <= Len(w) /\ 0 \in Nat
  BY <1>1, <1>2, <1>3, <1>4
<1>6. Follows(SubSeq(w, 1, to), from) /\ Len(SubSeq(w, 1, to)) = to
  <2>1. PICK zero : zero = 0
    OBVIOUS
  <2>2. zero \in Nat /\ zero <= to
    BY <1>5, <2>1
  <2>3. Follows(SubSeq(w, zero + 1, to), from + zero)
        /\ Len(SubSeq(w, zero + 1, to)) = to - zero
    BY <1>5, <2>2, FollowsPart
  <2>4. zero + 1 = 1 /\ from + zero = from /\ to - zero = to
    BY <1>5, <2>1
  <2> QED BY <2>3, <2>4
<1>7. Follows(SubSeq(w, to + 1, len), from + to)
      /\ Len(SubSeq(w, to + 1, len)) = len - to
  BY <1>5, FollowsPart
<1>8. Follows(b, H * L) /\ Len(b) = Len(r) + n
  <2>1. PICK s, f : s = SubSeq(w, 1, n) /\ f = H * L
    OBVIOUS
  <2>2. Follows(s, f + Len(r)) /\ Len(s) = n /\ f \in Nat /\ Follows(r, f)
    BY <1>1, <1>3, <1>4, <1>5, <1>6, <2>1
  <2>3. Follows(r \o s, f) /\ Len(r \o s) = Len(r) + Len(s)
    BY <2>2, FollowsOn
  <2> QED BY <2>1, <2>2, <2>3
<1>9. PICK q : q = Len(b) \div L
  OBVIOUS
<1>10. /\ q \in Nat /\ Follows(Rest(b), (H + q) * L) /\ Len(Rest(b)) < L
       /\ H * L + Len(b) = (H + q) * L + Len(Rest(b))
  <2>1. PICK z : z = Len(h)
    OBVIOUS
  <2>2. z \in Nat /\ Follows(b, z * EvLength)
    BY <1>1, <1>8, <2>1
  <2>3. LET p == Len(b) \div EvLength
        IN  /\ p \in Nat
            /\ Follows(Rest(b), (z + p) * EvLength)
            /\ Len(Rest(b)) < EvLength
            /\ z * EvLength + Len(b) = (z + p) * EvLength + Len(Rest(b))
    BY <2>2, RestIs
  <2> QED BY <1>9, <2>1, <2>3
<1>11. slices = [i \in 1 .. q |-> Bytes(H + i)]
  <2>1. ASSUME NEW i \in 1 .. q PROVE Slice(b, i) = Bytes(H + i)
    <3>1. PICK z : z = Len(h)
      OBVIOUS
    <3>2. /\ z \in Nat /\ Follows(b, z * EvLength)
          /\ i \in 1 .. Len(b) \div EvLength
      BY <1>1, <1>8, <1>9, <3>1
    <3>3. Slice(b, i) = Bytes(z + i)
      BY <3>2, SliceIs
    <3> QED BY <3>1, <3>3
  <2>2. slices = [i \in 1 .. q |-> Slice(b, i)]
    BY <1>9 DEF SlicesOf
  <2> QED BY <2>1, <2>2
<1>12. Handled(h \o slices) /\ Len(h \o slices) = H + q
  <2>1. /\ h \in Seq(Seq(Pairs)) /\ slices \in Seq(Seq(Pairs))
        /\ Len(slices) = q
    <3>1. \A i \in Nat : Bytes(i) \in Seq(Pairs)
      BY BytesType
    <3>2. \A i \in 1 .. H : Bytes(i) \in Seq(Pairs)
      BY <1>1, <3>1
    <3>4. ASSUME NEW i \in 1 .. q PROVE Bytes(H + i) \in Seq(Pairs)
      <4>1. H + i \in Nat
        BY <1>1, <1>10
      <4> QED BY <3>1, <4>1
    <3>3. h = [i \in 1 .. H |-> Bytes(i)]
      BY DEF Whole, Handled
    <3>5. h \in Seq(Seq(Pairs))
      <4>1. PICK z, S : z = Len(h) /\ S = Seq(Pairs)
        OBVIOUS
      <4>2. z \in Nat /\ h = [i \in 1 .. z |-> Bytes(i)]
            /\ \A i \in 1 .. z : Bytes(i) \in S
        BY <1>1, <3>2, <3>3, <4>1
      <4>3. h = [i \in 1 .. z |-> h[i]] /\ \A i \in 1 .. z : h[i] \in S
        BY <4>2
      <4>4. h \in Seq(S)
        BY <4>2, <4>3
      <4> QED BY <4>1, <4>4
    <3>6. PICK S : S = Seq(Pairs)
      OBVIOUS
    <3>7. \A i \in 1 .. q : slices[i] \in S
      BY <1>11, <3>4, <3>6
    <3>8. slices = [i \in 1 .. q |-> slices[i]]
      BY <1>11
    <3>9. slices \in Seq(S) /\ Len(slices) = q
      BY <1>10, <3>7, <3>8
    <3> QED BY <3>5, <3>6, <3>9
  <2>2. Len(h \o slices) = H + q /\ h \o slices \in Seq(Seq(Pairs))
    BY <1>1, <2>1
  <2>3. ASSUME NEW i \in 1 .. H + q PROVE (h \o slices)[i] = Bytes(i)
    <3>1. CASE i \in 1 .. H
      <4>1. (h \o slices)[i] = h[i]
        BY <1>1, <1>10, <2>1, <3>1
      <4>2. h[i] = Bytes(i)
        BY <3>1 DEF Whole, Handled
      <4> QED BY <4>1, <4>2
    <3>2. CASE i \notin 1 .. H
      <4>1. PICK j : j = i - H
        OBVIOUS
      <4>2. j \in 1 .. q /\ i = H + j
        BY <1>1, <1>10, <3>2, <4>1
      <4>3. (h \o slices)[i] = slices[j]
        BY <1>1, <1>10, <2>1, <3>2, <4>1
      <4>4. slices[j] = Bytes(H + j)
        BY <1>11, <4>2
      <4> QED BY <4>2, <4>3, <4>4
    <3> QED BY <3>1, <3>2
  <2>4. PICK g, G : g = h \o slices /\ G = H + q
    OBVIOUS
  <2>5. G \in Nat /\ Len(g) = G /\ \A i \in 1 .. G : g[i] = Bytes(i)
    <3>1. G \in Nat
      BY <1>1, <1>10, <2>4
    <3>2. Len(g) = G
      BY <2>2, <2>4
    <3>3. \A i \in 1 .. G : g[i] = Bytes(i)
      BY <2>3, <2>4
    <3> QED BY <3>1, <3>2, <3>3
  <2>6. PICK S : S = Seq(Pairs)
    OBVIOUS
  <2>7. g \in Seq(S)
    BY <2>2, <2>4, <2>6
  <2>8. g = [i \in 1 .. G |-> g[i]]
    BY <2>5, <2>7
  <2>9. Handled(g)
    BY <2>5, <2>8 DEF Handled
  <2> QED BY <2>4, <2>5, <2>9
<1>13. Follows(SubSeq(w, n + 1, Len(w)), (H + q) * L + Len(Rest(b)))
       /\ Len(SubSeq(w, n + 1, Len(w))) = Len(w) - n
  <2>1. from + to = (H + q) * L + Len(Rest(b))
    BY <1>1, <1>2, <1>4, <1>8, <1>10
  <2> QED BY <1>4, <1>7, <2>1
<1>14. Len(Rest(b)) \in Nat /\ (H + q) * L \in Nat
  BY <1>1, <1>10 DEF Follows
<1>15. (H + q) * L + Len(Rest(b)) + (Len(w) - n) = N * L
  <2>1. PICK a, c, d : a = H * L /\ c = (H + q) * L /\ d = N * L
    OBVIOUS
  <2>2. /\ a \in Nat /\ c \in Nat /\ d \in Nat
        /\ a + Len(r) + Len(w) = d /\ a + Len(b) = c + Len(Rest(b))
    BY <1>1, <1>3, <1>10, <1>14, <2>1
  <2>3. c + Len(Rest(b)) + (Len(w) - n) = d
    <3>1. PICK u, v, x, y : u = Len(r) /\ v = Len(w) /\ x = Len(b)
                            /\ y = Len(Rest(b))
      OBVIOUS
    <3>2. u \in Nat /\ v \in Nat /\ n \in Int /\ y \in Nat /\ x = u + n
      BY <1>2, <1>8, <1>14, <3>1
    <3>3. a + u + v = d /\ a + x = c + y
      BY <2>2, <3>1
    <3>4. c + y + (v - n) = d
      BY <2>2, <3>2, <3>3
    <3> QED BY <3>1, <3>4
  <2> QED BY <2>1, <2>3
<1> QED BY <1>10, <1>12, <1>13, <1>15 DEF Whole

(* A new connection.                                                       *)
LEMMA NothingWhole == Whole(0, <<>>, <<>>, <<>>)
<1>1. Handled(<<>>)
  BY DEF Handled
<1>2. ASSUME NEW from PROVE Follows(<<>>, from)
  BY DEF Follows
<1>3. 0 * EvLength + 0 = 0 /\ 0 + 0 + 0 = 0 * EvLength /\ Len(<<>>) = 0
  BY EvLengthIs
<1>4. Len(<<>>) * EvLength + Len(<<>>) + Len(<<>>) = 0 * EvLength
  BY <1>3, EvLengthIs
<1> QED BY <1>1, <1>2, <1>3, <1>4, EvLengthIs DEF Whole

(* One more event on the wire.                                             *)
LEMMA SentKeeps ==
  ASSUME NEW N \in Nat, NEW h, NEW r, NEW w, Whole(N, h, r, w)
  PROVE  Whole(N + 1, h, r, w \o Bytes(N + 1))
<1>1. /\ Len(h) \in Nat /\ Follows(w, Len(h) * EvLength + Len(r))
      /\ Len(h) * EvLength + Len(r) + Len(w) = N * EvLength
      /\ Follows(r, Len(h) * EvLength)
  BY DEF Whole, Handled
<1>2. PICK a, d, e : /\ a = Len(h) * EvLength /\ d = N * EvLength
                     /\ e = (N + 1) * EvLength
  OBVIOUS
<1>3. /\ a \in Nat /\ d \in Nat /\ e = d + EvLength /\ EvLength \in Nat
      /\ Len(r) \in Nat /\ Len(w) \in Nat
  BY <1>1, <1>2, EvLengthIs, TimesIs DEF Follows
<1>4. PICK b : b = Bytes(N + 1)
  OBVIOUS
<1>5. b \in Seq(Pairs) /\ Len(b) = EvLength
  BY <1>4, BytesType
<1>6. Follows(b, d)
  <2>1. ASSUME NEW i \in 1 .. EvLength PROVE b[i] = ByteAt(d + i)
    <3>1. b[i] = <<N + 1, i>>
      BY <1>4 DEF Bytes
    <3>2. ByteAt(N * EvLength + i) = <<N + 1, i>>
      BY ByteAtIs
    <3> QED BY <1>2, <3>1, <3>2
  <2> QED BY <1>5, <2>1 DEF Follows
<1>7. PICK from : from = a + Len(r)
  OBVIOUS
<1>8. from \in Nat /\ Follows(w, from) /\ Follows(b, from + Len(w))
  BY <1>1, <1>2, <1>3, <1>6, <1>7
<1>9. Follows(w \o b, from) /\ Len(w \o b) = Len(w) + Len(b)
  BY <1>8, FollowsOn
<1>10. a + Len(r) + Len(w \o b) = e
  <2>1. PICK u, v, z : u = Len(r) /\ v = Len(w) /\ z = Len(w \o b)
    OBVIOUS
  <2>2. /\ u \in Nat /\ v \in Nat /\ z = v + EvLength
        /\ a + u + v = d
    BY <1>1, <1>2, <1>3, <1>5, <1>9, <2>1
  <2>3. a + u + z = e
    BY <1>3, <2>2
  <2> QED BY <2>1, <2>3
<1> QED BY <1>2, <1>4, <1>7, <1>9, <1>10 DEF Whole

(* The invariant holds at first, and every action keeps it.                *)
LEMMA EventsInitially == EventsInit => EventsInv
<1>1. ASSUME EventsInit PROVE EventsInv
  <2>1. kind = <<>> /\ handled = <<>> /\ rest = <<>> /\ wire = <<>>
    BY <1>1 DEF EventsInit
  <2>2. kind \in Seq(Kinds) /\ Len(kind) = 0
    BY <2>1
  <2> QED BY <2>1, <2>2, NothingWhole DEF EventsInv
<1> QED BY <1>1

(* A client is accepted: evBufferOffset is 0.                              *)
LEMMA AcceptWhole ==
  ASSUME EventsInv, AcceptConnection PROVE EventsInv'
<1>1. kind' = <<>> /\ handled' = <<>> /\ rest' = <<>> /\ wire' = <<>>
  BY DEF AcceptConnection, Leftover, LeftoverCleared
<1>2. kind' \in Seq(Kinds) /\ Len(kind') = 0
  BY <1>1
<1>3. Whole(Len(kind'), handled', rest', wire')
  BY <1>1, <1>2, NothingWhole
<1> QED BY <1>2, <1>3 DEF EventsInv

(* The client sends an event.                                              *)
LEMMA SendWhole ==
  ASSUME EventsInv, NEW k \in Kinds, ClientSend(k) PROVE EventsInv'
<1>1. /\ kind' = Append(kind, k) /\ wire' = wire \o Bytes(Len(kind) + 1)
      /\ rest' = rest /\ handled' = handled /\ cut' = cut
  BY DEF ClientSend
<1>2. ASSUME ~cut'
      PROVE  kind' \in Seq(Kinds) /\ Whole(Len(kind'), handled', rest', wire')
  <2>1. kind \in Seq(Kinds) /\ Whole(Len(kind), handled, rest, wire)
    BY <1>1, <1>2 DEF EventsInv
  <2>2. kind' \in Seq(Kinds) /\ Len(kind') = Len(kind) + 1
        /\ Len(kind) \in Nat
    BY <1>1, <2>1
  <2>3. PICK N, h, r, w : N = Len(kind) /\ h = handled /\ r = rest /\ w = wire
    OBVIOUS
  <2>4. N \in Nat /\ Whole(N, h, r, w)
    BY <2>1, <2>2, <2>3
  <2>5. Whole(N + 1, h, r, w \o Bytes(N + 1))
    BY <2>4, SentKeeps
  <2>6. /\ Len(kind') = N + 1 /\ handled' = h /\ rest' = r
        /\ wire' = w \o Bytes(N + 1)
    BY <1>1, <2>2, <2>3
  <2> QED BY <2>2, <2>5, <2>6
<1> QED BY <1>2 DEF EventsInv

(* The agent reads: only a reset that drops something can break it.        *)
LEMMA ReadWhole ==
  ASSUME EventsInv, ClientReadNotify PROVE EventsInv'
<1>1. PICK n \in 1 .. Len(wire) :
        LET buffer == rest \o SubSeq(wire, 1, n)
            slices == SlicesOf(buffer)
        IN  /\ wire' = SubSeq(wire, n + 1, Len(wire))
            /\ handled' = handled \o slices
            /\ ~cut' => ~cut /\ rest' = Rest(buffer)
  <2>1. PICK n \in 1 .. Len(wire) :
        LET buffer == rest \o SubSeq(wire, 1, n)
            slices == SlicesOf(buffer)
        IN  /\ wire' = SubSeq(wire, n + 1, Len(wire))
            /\ handled' = handled \o slices
            /\ \E types \in [DOMAIN slices -> {"plain", "odd", "bye", "chunk"}] :
                LET odd == \E i \in DOMAIN slices : types[i] = "odd"
                IN  /\ rest' = IF odd THEN <<>> ELSE Rest(buffer)
                    /\ cut' = (cut \/ (odd /\ Rest(buffer) # <<>>))
    BY DEF ClientReadNotify
  <2>2. PICK buffer : buffer = rest \o SubSeq(wire, 1, n)
    OBVIOUS
  <2>3. ~cut' => ~cut /\ rest' = Rest(buffer)
    <3>1. PICK types \in
                 [DOMAIN SlicesOf(buffer) -> {"plain", "odd", "bye", "chunk"}] :
            LET odd == \E i \in DOMAIN SlicesOf(buffer) : types[i] = "odd"
            IN  /\ rest' = IF odd THEN <<>> ELSE Rest(buffer)
                /\ cut' = (cut \/ (odd /\ Rest(buffer) # <<>>))
      BY <2>1, <2>2
    <3>2. CASE \E i \in DOMAIN SlicesOf(buffer) : types[i] = "odd"
      <4>1. rest' = <<>> /\ cut' = (cut \/ Rest(buffer) # <<>>)
        BY <3>1, <3>2
      <4> QED BY <4>1
    <3>3. CASE ~ \E i \in DOMAIN SlicesOf(buffer) : types[i] = "odd"
      <4>1. rest' = Rest(buffer)
        BY <3>1, <3>3
      <4>2. ~cut' => ~cut
        BY <3>1
      <4> QED BY <4>1, <4>2
    <3> QED BY <3>2, <3>3
  <2> QED BY <2>1, <2>2, <2>3
<1>2. kind' = kind
  BY DEF ClientReadNotify
<1>3. ASSUME ~cut'
      PROVE  kind' \in Seq(Kinds) /\ Whole(Len(kind'), handled', rest', wire')
  <2>1. PICK b, slices : b = rest \o SubSeq(wire, 1, n)
                         /\ slices = SlicesOf(b)
    OBVIOUS
  <2>2. ~cut /\ rest' = Rest(b)
    BY <1>1, <1>3, <2>1
  <2>3. kind \in Seq(Kinds) /\ Whole(Len(kind), handled, rest, wire)
    BY <2>2 DEF EventsInv
  <2>4. PICK N, h, r, w : N = Len(kind) /\ h = handled /\ r = rest /\ w = wire
    OBVIOUS
  <2>5. N \in Nat /\ Whole(N, h, r, w) /\ n \in 1 .. Len(w)
        /\ b = r \o SubSeq(w, 1, n) /\ slices = SlicesOf(b)
    BY <2>1, <2>3, <2>4
  <2>6. Whole(N, h \o slices, Rest(b), SubSeq(w, n + 1, Len(w)))
    BY <2>5, ReadKeeps
  <2>7. /\ Len(kind') = N /\ handled' = h \o slices /\ rest' = Rest(b)
        /\ wire' = SubSeq(w, n + 1, Len(w))
    BY <1>1, <1>2, <2>1, <2>2, <2>4
  <2> QED BY <1>2, <2>3, <2>6, <2>7
<1> QED BY <1>3 DEF EventsInv

(* All actions together.                                                   *)
LEMMA EventsStep == EventsInv /\ [EventsNext]_eventVars => EventsInv'
<1> SUFFICES ASSUME EventsInv, [EventsNext]_eventVars PROVE EventsInv'
  OBVIOUS
<1>1. CASE AcceptConnection
  BY <1>1, AcceptWhole
<1>2. ASSUME NEW k \in Kinds, ClientSend(k) PROVE EventsInv'
  BY <1>2, SendWhole
<1>3. CASE ClientReadNotify
  BY <1>3, ReadWhole
<1>4. CASE LoseClient
  BY <1>4 DEF LoseClient, EventsInv
<1>5. CASE UNCHANGED eventVars
  BY <1>5 DEF eventVars, EventsInv
<1> QED BY <1>1, <1>2, <1>3, <1>4, <1>5 DEF EventsNext

(* The invariant says more than the property.                              *)
LEMMA EventsWhole == EventsInv => EventsAreWhole
BY DEF EventsInv, Whole, Handled, EventsAreWhole

-----------------------------------------------------------------------------
(* Datagrams: send_packet_as_datagrams.                                    *)

(* A datagram has room for something.                                      *)
LEMMA PayloadIs == Payload \in Nat /\ Payload # 0 /\ Payload > 0
                   /\ Payload \in Nat \ {0}
BY DatagramsAssumption

(* A sequence has numbers, and the number that follows is one of them.     *)
LEMMA FollowingIs ==
  ASSUME NEW k \in 0 .. SequenceSize - 1
  PROVE  /\ Following(k) \in 0 .. SequenceSize - 1
         /\ k # SequenceSize - 1 => Following(k) = k + 1
<1>1. PICK z : z = SequenceSize
  OBVIOUS
<1>2. z \in Nat /\ z > 0 /\ k \in Nat /\ k < z
  BY <1>1, DatagramsAssumption
<1>3. Following(k) = (k + 1) % z
  BY <1>1 DEF Following
<1>4. CASE k = z - 1
  <2>1. k + 1 = z /\ z % z = 0
    BY <1>2, <1>4
  <2>2. Following(k) = 0 /\ 0 \in 0 .. z - 1
    BY <1>2, <1>3, <2>1
  <2>3. Following(k) \in 0 .. SequenceSize - 1 /\ k = SequenceSize - 1
    BY <1>1, <1>4, <2>2
  <2> QED BY <2>3
<1>5. CASE k # z - 1
  <2>1. k + 1 \in Nat /\ k + 1 < z
    BY <1>2, <1>5
  <2>2. (k + 1) % z = k + 1
    BY <1>2, <2>1
  <2>3. k + 1 \in 0 .. z - 1
    BY <1>2, <2>1
  <2>4. Following(k) = k + 1 /\ k + 1 \in 0 .. SequenceSize - 1
    BY <1>1, <1>3, <2>2, <2>3
  <2> QED BY <2>4
<1> QED BY <1>4, <1>5

(* A packet has the datagrams that begin inside it.                        *)
LEMMA CountIs ==
  ASSUME NEW l \in Nat, NEW i \in Nat
  PROVE  Count(l) \in Nat /\ (i < Count(l) <=> i * Payload < l)
<1>1. PICK q, m, P : q = l \div Payload /\ m = l % Payload /\ P = Payload
  OBVIOUS
<1>2. P \in Nat \ {0}
  BY <1>1, PayloadIs
<1>3. q \in Nat /\ m \in Nat /\ m < P /\ l = q * P + m
  <2>1. q = l \div P /\ m = l % P
    BY <1>1
  <2>2. q \in Nat /\ m \in 0 .. P - 1 /\ l = q * P + m
    BY <1>2, <2>1, DivIs
  <2> QED BY <1>2, <2>2
<1>4. Count(l) = q + (IF m = 0 THEN 0 ELSE 1)
  BY <1>1 DEF Count
<1>5. PICK a, b : a = i * P /\ b = q * P
  OBVIOUS
<1>6. /\ a \in Nat /\ b \in Nat
      /\ i < q => a + P <= b
      /\ q <= i => b <= a
      /\ q < i => b + P <= a
      /\ i <= q => a <= b
  BY <1>2, <1>3, <1>5, TimesIs
<1>7. l = b + m
  BY <1>3, <1>5
<1>8. CASE m = 0
  <2>1. Count(l) = q
    BY <1>3, <1>4, <1>8
  <2>2. i < q <=> a < l
    BY <1>2, <1>3, <1>6, <1>7, <1>8
  <2> QED BY <1>1, <1>3, <1>5, <2>1, <2>2
<1>9. CASE m # 0
  <2>1. Count(l) = q + 1
    BY <1>3, <1>4, <1>9
  <2>2. i < q + 1 <=> a < l
    BY <1>2, <1>3, <1>6, <1>7, <1>9
  <2> QED BY <1>1, <1>3, <1>5, <2>1, <2>2
<1> QED BY <1>8, <1>9

(* Packets in flight when n were begun, and the datagrams of them.         *)
Packets(n) ==
  [number : 1 .. n, type : Types, length : Nat \ {0}, sent : Nat]

(* The datagrams of n packets.                                             *)
Sendings(n) ==
  [header : [type : Types, seq : Nat, count : Nat, index : Nat],
   round : Nat, number : 1 .. n, piece : SUBSET Int]

(* Those a client takes for one packet.                                    *)
Same(sent, d) ==
  {e \in sent : /\ e.header.type = d.header.type
                /\ e.header.seq = d.header.seq
                /\ e.round = d.round}

(* Datagrams of one packet agree in what they say of it, and differ in     *)
(* which part they are.                                                    *)
Agree(sent) ==
  \A d \in sent : \A e \in Same(sent, d) :
    /\ e.number = d.number /\ e.header.count = d.header.count
    /\ e.header.index = d.header.index => e = d

(* A datagram's index is below the count it announces.                     *)
InRange(sent) == \A d \in sent : d.header.index < d.header.count

(* The parts of a packet that were sent.                                   *)
Parts(sent, d) == {e.header.index : e \in Same(sent, d)}

(* Packets other than the n-th are complete.                               *)
Complete(sent, n) ==
  \A d \in sent :
    d.number # n => \A i \in 0 .. d.header.count - 1 : i \in Parts(sent, d)

(* What was sent of the packet p, with the sequence numbers q of the       *)
(* rounds w.                                                               *)
Current(sent, q, w, p) ==
  /\ p.sent = p.length \/ \E k \in Nat : p.sent = k * Payload
  /\ \A d \in sent :
       /\ d.number = p.number <=> (/\ d.header.type = p.type
                                   /\ d.header.seq = q[p.type]
                                   /\ d.round = w[p.type])
       /\ d.number = p.number => /\ d.header.count = Count(p.length)
                                 /\ d.header.index * Payload < p.sent
  /\ \A i \in Nat : i * Payload < p.sent =>
       \E d \in sent : d.number = p.number /\ d.header.index = i

(* A datagram of this or an earlier round, with a number used in it.       *)
Over(d, q, w) ==
  \/ d.round < w[d.header.type]
  \/ d.round = w[d.header.type] /\ d.header.seq < q[d.header.type]

(* Sequence numbers of packets that are over were used.                    *)
Used(sent, q, w, p) == \A d \in sent : d.number # p.number => Over(d, q, w)

(* The numbers and the rounds of the sequences.                            *)
Sequences == [Types -> 0 .. SequenceSize - 1]
Rounds == [Types -> Nat]

(* The datagrams sent, for sequence numbers q of the rounds w, a packet p  *)
(* in flight or None, and n packets in all.                                *)
OutIs(sent, q, w, p, n) ==
  /\ sent \subseteq Sendings(n) /\ q \in Sequences /\ w \in Rounds
  /\ p \in Packets(n) \cup {None}
  /\ Agree(sent) /\ InRange(sent) /\ Complete(sent, p.number)
  /\ Used(sent, q, w, p)
  /\ p # None => Current(sent, q, w, p)

(* No packet is None.                                                      *)
LEMMA NoneIs ==
  ASSUME NEW n \in Nat
  PROVE  /\ None \notin Packets(n) /\ None.number = 0
         /\ \A p \in Packets(n) : p # None /\ p.number # 0
<1>1. None.number = 0
  BY DEF None
<1>2. \A p \in Packets(n) : p.number \in 1 .. n /\ p.number # 0
  BY DEF Packets
<1> QED BY <1>1, <1>2

(* Nothing was sent.                                                       *)
LEMMA OutEmpty ==
  ASSUME NEW n \in Nat, NEW q \in Sequences, NEW w \in Rounds
  PROVE  OutIs({}, q, w, None, n)
BY DEF OutIs, Agree, InRange, Complete, Used

(* A packet is begun: its sequence number is not in use.                   *)
LEMMA OutBegin ==
  ASSUME NEW n \in Nat, NEW q, NEW w, NEW sent, OutIs(sent, q, w, None, n),
         NEW t \in Types, NEW l \in Nat \ {0}, NEW p,
         p = [number |-> n + 1, type |-> t, length |-> l, sent |-> 0]
  PROVE  OutIs(sent, q, w, p, n + 1)
<1>1. sent \subseteq Sendings(n + 1) /\ \A d \in sent : d.number \in 1 .. n
  <2>1. \A d \in Sendings(n) : d \in Sendings(n + 1) /\ d.number \in 1 .. n
    BY DEF Sendings
  <2> QED BY <2>1 DEF OutIs
<1>2. p \in Packets(n + 1) /\ p # None /\ p.number = n + 1 /\ p.type = t
      /\ p.sent = 0
  BY NoneIs DEF Packets
<1>3. \A d \in sent : d.number # p.number /\ d.number # 0
  BY <1>1, <1>2
<1>4. \A d \in sent : Over(d, q, w)
  BY <1>3, NoneIs DEF OutIs, Used
<1>5. \A d \in sent : d.header.seq \in Nat /\ d.round \in Nat
  BY <1>1 DEF Sendings
<1>6. q \in Sequences /\ w \in Rounds
  BY DEF OutIs
<1>7. \A d \in sent : ~ (/\ d.header.type = t /\ d.header.seq = q[t]
                        /\ d.round = w[t])
  <2> SUFFICES ASSUME NEW d \in sent, d.header.type = t, d.header.seq = q[t],
                      d.round = w[t]
               PROVE  FALSE
    OBVIOUS
  <2>1. PICK x, y : x = d.header.seq /\ y = d.round
    OBVIOUS
  <2>2. x \in Nat /\ y \in Nat /\ (x < x \/ y < y)
    BY <1>4, <1>5, <2>1 DEF Over
  <2> QED BY <2>2
<1>8. Current(sent, q, w, p)
  <2>1. p.sent = 0 * Payload
    BY <1>2, PayloadIs
  <2>2. \A i \in Nat : ~ (i * Payload < p.sent)
    <3>1. \A i \in Nat : i * Payload \in Nat
      BY PayloadIs, TimesIs
    <3> QED BY <1>2, <3>1
  <2> QED BY <1>2, <1>3, <1>7, <2>1, <2>2 DEF Current
<1>9. Complete(sent, p.number)
  BY <1>3, NoneIs DEF OutIs, Complete
<1>10. Used(sent, q, w, p) /\ Agree(sent) /\ InRange(sent)
  BY <1>4 DEF OutIs, Used
<1> QED BY <1>1, <1>2, <1>6, <1>8, <1>9, <1>10 DEF OutIs

(* The next datagram of a packet of which k were sent.                     *)
LEMMA PieceIs ==
  ASSUME NEW p, p.length \in Nat, NEW k \in Nat, p.sent = k * Payload,
         p.sent < p.length, NEW e, e = p.sent + Cardinality(Piece(p))
  PROVE  /\ p.sent \div Payload = k /\ k < Count(p.length)
         /\ e \in Nat /\ (e = p.length \/ e = (k + 1) * Payload)
         /\ p.sent < e /\ e <= (k + 1) * Payload /\ Piece(p) \subseteq Int
<1>1. PICK P, a, l : P = Payload /\ a = p.sent /\ l = p.length
  OBVIOUS
<1>2. P \in Nat /\ P > 0 /\ P \in Nat \ {0} /\ l \in Nat /\ a < l
  BY <1>1, PayloadIs
<1>3. a = k * P /\ a \in Nat /\ (k + 1) * P = a + P
  BY <1>1, <1>2, TimesIs
<1>4. PICK f : f = IF l - a <= P THEN l ELSE a + P
  OBVIOUS
<1>5. f \in Nat /\ a < f /\ f <= a + P /\ (f = l \/ f = a + P)
  BY <1>2, <1>3, <1>4
<1>6. Piece(p) = a .. f - 1
  BY <1>1, <1>4 DEF Piece
<1>7. PICK g : g = f - 1
  OBVIOUS
<1>8. g \in Int /\ a \in Int /\ a <= g /\ f = g + 1
  BY <1>3, <1>5, <1>7
<1>9. Cardinality(a .. g) = IF a > g THEN 0 ELSE g - a + 1
  BY <1>8, FS_Interval
<1>10. Cardinality(a .. g) = f - a
  BY <1>3, <1>5, <1>8, <1>9
<1>11. e = f
  BY <1>1, <1>3, <1>5, <1>6, <1>7, <1>10
<1>12. p.sent \div Payload = k
  <2>1. PICK z : z = 0
    OBVIOUS
  <2>2. z \in 0 .. P - 1
    BY <1>2, <2>1
  <2>3. (k * P + z) \div P = k
    BY <1>2, <2>2, DivUnique
  <2>4. k * P + z = a
    BY <1>3, <2>1
  <2> QED BY <1>1, <2>3, <2>4
<1>13. k < Count(p.length)
  <2>1. k < Count(l) <=> k * Payload < l
    BY <1>2, CountIs
  <2> QED BY <1>1, <1>2, <1>3, <2>1
<1>14. Piece(p) \subseteq Int
  BY <1>6, <1>7, <1>8
<1> QED BY <1>1, <1>3, <1>5, <1>11, <1>12, <1>13, <1>14

(* A datagram of it is sent: it is the part that follows those sent.       *)
LEMMA OutSend ==
  ASSUME NEW n \in Nat, NEW q, NEW w, NEW sent, NEW p,
         OutIs(sent, q, w, p, n), p # None, p.sent < p.length,
         NEW d, d = [header |-> [type |-> p.type, seq |-> q[p.type],
                                 count |-> Count(p.length),
                                 index |-> p.sent \div Payload],
                     round |-> w[p.type], number |-> p.number,
                     piece |-> Piece(p)],
         NEW r, r = [p EXCEPT !.sent = @ + Cardinality(Piece(p))]
  PROVE  OutIs(sent \cup {d}, q, w, r, n)
<1>1. p \in Packets(n) /\ q \in Sequences /\ w \in Rounds
      /\ sent \subseteq Sendings(n)
      /\ Current(sent, q, w, p) /\ Agree(sent) /\ InRange(sent)
      /\ Complete(sent, p.number) /\ Used(sent, q, w, p)
  BY DEF OutIs
<1>2. /\ p.number \in 1 .. n /\ p.type \in Types /\ p.length \in Nat
      /\ p.length # 0 /\ p.sent \in Nat
  BY <1>1 DEF Packets
<1>3. PICK k \in Nat : p.sent = k * Payload
  <2>1. p.sent # p.length
    BY <1>2
  <2> QED BY <1>1, <2>1 DEF Current
<1>4. PICK e : e = p.sent + Cardinality(Piece(p))
  OBVIOUS
<1>5. /\ p.sent \div Payload = k /\ k < Count(p.length)
      /\ e \in Nat /\ (e = p.length \/ e = (k + 1) * Payload)
      /\ p.sent < e /\ e <= (k + 1) * Payload /\ Piece(p) \subseteq Int
  BY <1>2, <1>3, <1>4, PieceIs
<1>6. r = [number |-> p.number, type |-> p.type, length |-> p.length,
           sent |-> e]
  BY <1>1, <1>4 DEF Packets
<1>7. r \in Packets(n) /\ r # None
  <2>1. r \in Packets(n)
    <3>1. PICK v : v = r
      OBVIOUS
    <3>2. /\ e \in Nat /\ p.number \in 1 .. n /\ p.type \in Types
          /\ p.length \in Nat \ {0}
      BY <1>2, <1>5
    <3>3. v = [number |-> p.number, type |-> p.type, length |-> p.length,
               sent |-> e]
      BY <1>6, <3>1
    <3>4. v \in Packets(n)
      BY ONLY <3>2, <3>3 DEF Packets
    <3> QED BY <3>1, <3>4
  <2> QED BY <2>1, NoneIs
<1>8. /\ d.header.type = p.type /\ d.header.seq = q[p.type]
      /\ d.header.count = Count(p.length) /\ d.header.index = k
      /\ d.round = w[p.type] /\ d.number = p.number
  BY <1>5
<1>9. d \in Sendings(n)
  <2>1. q[p.type] \in Nat /\ w[p.type] \in Nat
    <3>1. \A i \in 0 .. SequenceSize - 1 : i \in Nat
      BY DatagramsAssumption
    <3> QED BY <1>1, <1>2, <3>1 DEF Sequences, Rounds
  <2>2. d.header \in [type : Types, seq : Nat, count : Nat, index : Nat]
    <3>1. Count(p.length) \in Nat
      BY <1>2, CountIs
    <3>2. /\ d.header.type \in Types /\ d.header.seq \in Nat
          /\ d.header.count \in Nat /\ d.header.index \in Nat
      BY <1>2, <1>8, <2>1, <3>1
    <3> QED BY <3>2
  <2>3. d.round \in Nat /\ d.number \in 1 .. n /\ d.piece \in SUBSET Int
    BY <1>2, <1>5, <1>8, <2>1
  <2> QED BY <2>2, <2>3 DEF Sendings
<1>10. \A x \in sent : /\ x.header.index \in Nat /\ x.header.count \in Nat
                       /\ x.header.seq \in Nat /\ x.header.type \in Types
  BY <1>1 DEF Sendings
<1>11. ASSUME NEW x \in sent, x.number = p.number
       PROVE  x.header.count = Count(p.length) /\ x.header.index # k
  <2>1. x.header.count = Count(p.length) /\ x.header.index * Payload < p.sent
    BY <1>1, <1>11 DEF Current
  <2>2. PICK a : a = k * Payload
    OBVIOUS
  <2>3. a \in Nat /\ p.sent = a
    BY <1>2, <1>3, <2>2
  <2> QED BY <2>1, <2>2, <2>3
<1>12. \A x \in sent : x.header.type = p.type /\ x.header.seq = q[p.type]
                          /\ x.round = w[p.type] <=> x.number = p.number
  BY <1>1 DEF Current
<1>13. Agree(sent \cup {d})
  <2>1. ASSUME NEW x \in sent \cup {d}, NEW y \in sent \cup {d},
               y.header.type = x.header.type, y.header.seq = x.header.seq,
               y.round = x.round
        PROVE  /\ y.number = x.number /\ y.header.count = x.header.count
               /\ y.header.index = x.header.index => y = x
    <3>1. CASE x = d /\ y = d
      BY <3>1
    <3>2. CASE x = d /\ y \in sent
      BY <1>8, <1>11, <1>12, <2>1, <3>2
    <3>3. CASE x \in sent /\ y = d
      BY <1>8, <1>11, <1>12, <2>1, <3>3
    <3>4. CASE x \in sent /\ y \in sent
      BY <1>1, <2>1, <3>4 DEF Agree, Same
    <3> QED BY <3>1, <3>2, <3>3, <3>4
  <2> QED BY <2>1 DEF Agree, Same
<1>14. InRange(sent \cup {d})
  BY <1>1, <1>5, <1>8 DEF InRange
<1>15. Complete(sent \cup {d}, r.number)
  <2>1. r.number = p.number
    BY <1>6
  <2> SUFFICES ASSUME NEW x \in sent \cup {d}, x.number # p.number,
                      NEW i \in 0 .. x.header.count - 1
               PROVE  i \in Parts(sent \cup {d}, x)
    BY <2>1 DEF Complete
  <2>2. x \in sent
    BY <1>8
  <2>3. i \in Parts(sent, x)
    BY <1>1, <2>2 DEF Complete
  <2> QED BY <2>3 DEF Parts, Same
<1>16. Used(sent \cup {d}, q, w, r)
  <2>1. r.number = p.number
    BY <1>6
  <2> QED BY <1>1, <1>8, <2>1 DEF Used
<1>17. Current(sent \cup {d}, q, w, r)
  <2>1. r.sent = e /\ r.length = p.length /\ r.type = p.type
        /\ r.number = p.number
    BY <1>6
  <2>2. r.sent = r.length \/ \E j \in Nat : r.sent = j * Payload
    BY <1>5, <2>1
  <2>3. ASSUME NEW x \in sent \cup {d}
        PROVE  /\ x.number = r.number <=> (/\ x.header.type = r.type
                                           /\ x.header.seq = q[r.type]
                                           /\ x.round = w[r.type])
               /\ x.number = r.number => /\ x.header.count = Count(r.length)
                                         /\ x.header.index * Payload < r.sent
    <3>1. CASE x = d
      <4>1. PICK a : a = k * Payload
        OBVIOUS
      <4>2. a < e
        BY <1>3, <1>5, <4>1
      <4>3. x.header.index * Payload < r.sent
        BY <1>8, <2>1, <3>1, <4>1, <4>2
      <4> QED BY <1>8, <2>1, <3>1, <4>3
    <3>2. CASE x \in sent
      <4>1. x.number = p.number => x.header.count = Count(p.length)
        BY <1>11, <3>2
      <4>2. x.number = p.number => x.header.index * Payload < p.sent
        BY <1>1, <3>2 DEF Current
      <4>3. x.header.index * Payload \in Nat
        BY <1>10, <3>2, PayloadIs, TimesIs
      <4>4. x.number = p.number => x.header.index * Payload < e
        <5>1. PICK b : b = x.header.index * Payload
          OBVIOUS
        <5>2. x.number = p.number => b < e
          BY <1>2, <1>5, <4>2, <4>3, <5>1
        <5> QED BY <5>1, <5>2
      <4> QED BY <1>12, <2>1, <3>2, <4>1, <4>4
    <3> QED BY <3>1, <3>2
  <2>4. ASSUME NEW i \in Nat, i * Payload < r.sent
        PROVE  \E x \in sent \cup {d} : x.number = r.number
                                        /\ x.header.index = i
    <3>1. CASE i * Payload < p.sent
      BY <1>1, <2>1, <3>1 DEF Current
    <3>2. CASE ~ (i * Payload < p.sent)
      <4>1. PICK P, a, b, c : P = Payload /\ a = k * P /\ b = i * P
                              /\ c = (k + 1) * P
        OBVIOUS
      <4>2. /\ P \in Nat /\ a \in Nat /\ b \in Nat
            /\ i < k => b + P <= a /\ P > 0
            /\ k + 1 <= i => c <= b
        BY <4>1, PayloadIs, TimesIs
      <4>3. b < e /\ e <= c /\ ~ (b < a) /\ e \in Nat
        BY <1>3, <1>5, <2>1, <2>4, <3>2, <4>1
      <4>4. c = a + P
        BY <4>1, PayloadIs, TimesIs
      <4>5. i = k
        BY <4>2, <4>3, <4>4, PayloadIs, <4>1
      <4> QED BY <1>8, <2>1, <4>5
    <3> QED BY <3>1, <3>2
  <2> QED BY <2>2, <2>3, <2>4 DEF Current
<1> QED BY <1>1, <1>7, <1>9, <1>13, <1>14, <1>15, <1>16, <1>17 DEF OutIs

(* The packet is over: all its parts were sent, and the sequence number    *)
(* goes on.                                                                *)
LEMMA OutEnd ==
  ASSUME NEW n \in Nat, NEW q, NEW w, NEW sent, NEW p,
         OutIs(sent, q, w, p, n), p # None, p.sent = p.length,
         NEW s, s = [q EXCEPT ![p.type] = Following(@)],
         NEW v, v = IF q[p.type] = SequenceSize - 1
                    THEN [w EXCEPT ![p.type] = @ + 1] ELSE w
  PROVE  OutIs(sent, s, v, None, n)
<1>1. p \in Packets(n) /\ q \in Sequences /\ w \in Rounds
      /\ sent \subseteq Sendings(n)
      /\ Current(sent, q, w, p) /\ Agree(sent) /\ InRange(sent)
      /\ Complete(sent, p.number) /\ Used(sent, q, w, p)
  BY DEF OutIs
<1>2. /\ p.number \in 1 .. n /\ p.type \in Types /\ p.length \in Nat
      /\ p.sent \in Nat
  BY <1>1 DEF Packets
<1>3. s \in Sequences /\ v \in Rounds
      /\ \A t \in Types : t # p.type => s[t] = q[t] /\ v[t] = w[t]
  <2>1. q[p.type] \in 0 .. SequenceSize - 1
    BY <1>1, <1>2 DEF Sequences
  <2>2. Following(q[p.type]) \in 0 .. SequenceSize - 1
    <3>1. PICK k : k = q[p.type]
      OBVIOUS
    <3> QED BY <2>1, <3>1, FollowingIs
  <2>3. s \in Sequences /\ \A t \in Types : t # p.type => s[t] = q[t]
    BY <1>1, <1>2, <2>2 DEF Sequences
  <2>4. v \in Rounds /\ \A t \in Types : t # p.type => v[t] = w[t]
    BY <1>1, <1>2 DEF Rounds
  <2> QED BY <2>3, <2>4
<1>4. /\ q[p.type] \in Nat /\ w[p.type] \in Nat
      /\ \/ v[p.type] = w[p.type] + 1
         \/ v[p.type] = w[p.type] /\ s[p.type] = q[p.type] + 1
  <2>1. q[p.type] \in 0 .. SequenceSize - 1 /\ w[p.type] \in Nat
    BY <1>1, <1>2 DEF Sequences, Rounds
  <2>2. q[p.type] \in Nat
    BY <2>1, DatagramsAssumption
  <2>3. CASE q[p.type] = SequenceSize - 1
    <3>1. v[p.type] = w[p.type] + 1
      BY <1>1, <1>2, <2>3 DEF Rounds
    <3> QED BY <2>1, <2>2, <3>1
  <2>4. CASE q[p.type] # SequenceSize - 1
    <3>1. s[p.type] = Following(q[p.type])
      BY <1>1, <1>2 DEF Sequences
    <3>2. PICK k : k = q[p.type]
      OBVIOUS
    <3>3. Following(k) = k + 1
      BY <2>1, <2>4, <3>2, FollowingIs
    <3> QED BY <2>1, <2>2, <2>4, <3>1, <3>2, <3>3
  <2> QED BY <2>3, <2>4
<1>5. \A d \in sent : /\ d.header.type \in Types /\ d.header.seq \in Nat
                      /\ d.header.count \in Nat /\ d.header.index \in Nat
                      /\ d.round \in Nat /\ d.number \in 1 .. n
  BY <1>1 DEF Sendings
<1>6. ASSUME NEW d \in sent PROVE Over(d, s, v)
  <2>1. CASE d.number = p.number
    <3>1. /\ d.header.type = p.type /\ d.header.seq = q[p.type]
          /\ d.round = w[p.type]
      BY <1>1, <2>1 DEF Current
    <3> QED BY <1>4, <3>1 DEF Over
  <2>2. CASE d.number # p.number
    <3>1. Over(d, q, w)
      BY <1>1, <2>2 DEF Used
    <3>2. CASE d.header.type # p.type
      BY <1>3, <1>5, <3>1, <3>2 DEF Over
    <3>3. CASE d.header.type = p.type
      <4>1. PICK a, b, x, y, g, h :
              /\ a = d.round /\ b = d.header.seq
              /\ x = w[p.type] /\ y = q[p.type]
              /\ g = v[p.type] /\ h = s[p.type]
        OBVIOUS
      <4>2. /\ a \in Nat /\ b \in Nat /\ x \in Nat /\ y \in Nat
            /\ a < x \/ (a = x /\ b < y)
            /\ g = x + 1 \/ (g = x /\ h = y + 1)
        BY <1>4, <1>5, <3>1, <3>3, <4>1 DEF Over
      <4>3. a < g \/ (a = g /\ b < h)
        BY <4>2
      <4> QED BY <3>3, <4>1, <4>3 DEF Over
    <3> QED BY <3>2, <3>3
  <2> QED BY <2>1, <2>2
<1>7. ASSUME NEW d \in sent, NEW i \in 0 .. d.header.count - 1
      PROVE  i \in Parts(sent, d)
  <2>1. CASE d.number # p.number
    BY <1>1, <2>1 DEF Complete
  <2>2. CASE d.number = p.number
    <3>1. /\ d.header.count = Count(p.length) /\ d.round = w[p.type]
          /\ d.header.type = p.type /\ d.header.seq = q[p.type]
      BY <1>1, <2>2 DEF Current
    <3>2. i \in Nat /\ i < Count(p.length)
      BY <1>5, <3>1
    <3>3. PICK l : l = p.length
      OBVIOUS
    <3>4. l \in Nat /\ (i < Count(l) <=> i * Payload < l)
      BY <1>2, <3>2, <3>3, CountIs
    <3>5. i * Payload < p.sent
      BY <3>2, <3>3, <3>4
    <3>6. PICK e \in sent : e.number = p.number /\ e.header.index = i
      BY <1>1, <3>2, <3>5 DEF Current
    <3>7. /\ e.header.type = p.type /\ e.header.seq = q[p.type]
          /\ e.round = w[p.type]
      BY <1>1, <3>6 DEF Current
    <3> QED BY <3>1, <3>6, <3>7 DEF Parts, Same
  <2> QED BY <2>1, <2>2
<1>8. Complete(sent, None.number) /\ Used(sent, s, v, None)
  BY <1>6, <1>7 DEF Complete, Used
<1> QED BY <1>1, <1>3, <1>8 DEF OutIs

(* A rebuild between two packets: all that was sent is of an earlier round.*)
LEMMA OutReset ==
  ASSUME NEW n \in Nat, NEW q, NEW w, NEW sent, OutIs(sent, q, w, None, n),
         NEW s, s = [t \in Types |-> 0],
         NEW v, v = [t \in Types |-> w[t] + 1]
  PROVE  OutIs(sent, s, v, None, n)
<1>1. sent \subseteq Sendings(n) /\ w \in Rounds /\ Used(sent, q, w, None)
      /\ Agree(sent) /\ InRange(sent) /\ Complete(sent, None.number)
  BY DEF OutIs
<1>2. s \in Sequences
  <2>1. 0 \in 0 .. SequenceSize - 1
    BY DatagramsAssumption
  <2> QED BY <2>1 DEF Sequences
<1>3. v \in Rounds
  BY <1>1 DEF Rounds
<1>4. Used(sent, s, v, None)
  <2> SUFFICES ASSUME NEW d \in sent, d.number # None.number
               PROVE  Over(d, s, v)
    BY DEF Used
  <2>1. Over(d, q, w)
    BY <1>1 DEF Used
  <2>2. d.header.type \in Types /\ d.round \in Nat
    BY <1>1 DEF Sendings
  <2>3. PICK a, x, g : a = d.round /\ x = w[d.header.type]
                       /\ g = v[d.header.type]
    OBVIOUS
  <2>4. a \in Nat /\ x \in Nat /\ g = x + 1 /\ (a < x \/ a = x)
    BY <1>1, <2>1, <2>2, <2>3 DEF Over, Rounds
  <2>5. a < g
    BY <2>4
  <2> QED BY <2>3, <2>5 DEF Over
<1> QED BY <1>1, <1>2, <1>3, <1>4 DEF OutIs

(* What a client collects under one type and sequence number is a packet,  *)
(* for the indices are in bijection with the datagrams.                    *)
LEMMA OutRebuilt ==
  ASSUME NEW n \in Nat, NEW q, NEW w, NEW sent, NEW p,
         OutIs(sent, q, w, p, n), NEW d \in sent
  PROVE  /\ \A e \in Same(sent, d) : e.number = d.number
         /\ Cardinality(Parts(sent, d)) = Cardinality(Same(sent, d))
         /\ Cardinality(Same(sent, d)) <= d.header.count
         /\ d.number # p.number =>
              Cardinality(Same(sent, d)) = d.header.count
<1>1. sent \subseteq Sendings(n) /\ Agree(sent) /\ InRange(sent)
      /\ Complete(sent, p.number)
  BY DEF OutIs
<1>2. PICK S, I, c : S = Same(sent, d) /\ I = Parts(sent, d)
                     /\ c = d.header.count
  OBVIOUS
<1>3. S \subseteq sent /\ d \in S /\ I = {e.header.index : e \in S}
  BY <1>2 DEF Same, Parts
<1>4. \A e \in S : e.number = d.number /\ e.header.count = c
  BY <1>1, <1>2 DEF Agree
<1>5. \A e \in S : \A f \in S : e.header.index = f.header.index => e = f
  BY <1>1, <1>2 DEF Agree, Same
<1>6. \A e \in sent : e.header.index \in Nat /\ e.header.count \in Nat
  BY <1>1 DEF Sendings
<1>7. c \in Nat /\ I \subseteq 0 .. c - 1
  <2>1. \A e \in S : e.header.index \in 0 .. c - 1
    BY <1>1, <1>3, <1>4, <1>6 DEF InRange
  <2> QED BY <1>2, <1>3, <1>6, <2>1
<1>8. IsFiniteSet(0 .. c - 1) /\ Cardinality(0 .. c - 1) = c
  <2>1. PICK a, b : a = 0 /\ b = c - 1
    OBVIOUS
  <2>2. a \in Int /\ b \in Int
    BY <1>7, <2>1
  <2>3. IsFiniteSet(a .. b)
        /\ Cardinality(a .. b) = IF a > b THEN 0 ELSE b - a + 1
    BY <2>2, FS_Interval
  <2>4. (IF a > b THEN 0 ELSE b - a + 1) = c
    BY <1>7, <2>1
  <2> QED BY <2>1, <2>3, <2>4
<1>9. IsFiniteSet(I) /\ Cardinality(I) <= c
  BY <1>7, <1>8, FS_Subset
<1>10. Cardinality(S) = Cardinality(I) /\ Cardinality(S) <= c
  <2> DEFINE g == [i \in I |-> CHOOSE e \in S : e.header.index = i]
  <2>1. \A i \in I : g[i] \in S /\ g[i].header.index = i
    BY <1>3
  <2>2. g \in [I -> S]
    BY <2>1
  <2> HIDE DEF g
  <2>3. \A i \in I : \A j \in I : g[i] = g[j] => i = j
    BY <2>1
  <2>4. \A e \in S : \E i \in I : g[i] = e
    <3> TAKE e \in S
    <3>1. PICK i : i = e.header.index
      OBVIOUS
    <3>2. i \in I
      BY <1>3, <3>1
    <3>3. g[i] \in S /\ g[i].header.index = e.header.index
      BY <2>1, <3>1, <3>2
    <3>4. g[i] = e
      BY <1>5, <3>3
    <3> QED BY <3>2, <3>4
  <2>5. g \in Bijection(I, S)
    BY <2>2, <2>3, <2>4 DEF Bijection, Injection, Surjection, IsInjective
  <2>6. ExistsBijection(I, S)
    BY <2>5 DEF ExistsBijection
  <2>7. Cardinality(S) = Cardinality(I)
    BY <1>9, <2>6, FS_Bijection
  <2> QED BY <1>9, <2>7
<1>11. ASSUME d.number # p.number PROVE Cardinality(S) = c
  <2>1. 0 .. c - 1 \subseteq I
    BY <1>1, <1>2, <1>11 DEF Complete
  <2>2. I = 0 .. c - 1
    BY <1>7, <2>1
  <2> QED BY <1>8, <1>10, <2>2
<1> QED BY <1>2, <1>4, <1>10, <1>11

(* The types of the variables, without the datagrams sent.                 *)
DgTypes ==
  /\ sequence \in Sequences /\ round \in Rounds /\ packets \in Nat
  /\ served \in Threads \cup {"none"} /\ old \subseteq Threads
  /\ packet \in [Threads -> Packets(packets) \cup {None}]

(* Only the thread of the client that is there and those of clients that   *)
(* were there can be in a packet; without an overlap there is the first    *)
(* only.                                                                   *)
Alone ==
  /\ \A s \in Threads : s # served /\ s \notin old => packet[s] = None
  /\ ~overlap /\ served # "none" => old = {}

(* The invariant: without an overlap, what was sent to the client that is  *)
(* there is in order.                                                      *)
DgInv ==
  /\ DgTypes /\ Alone
  /\ served = "none" => sentOff = {}
  /\ ~overlap /\ served # "none" =>
       OutIs(sentOff, sequence, round, packet[served], packets)

(* The invariant holds at first, and every action keeps it.                *)
LEMMA DatagramsInitially == DatagramsInit => DgInv
<1> SUFFICES ASSUME DatagramsInit PROVE DgInv
  OBVIOUS
<1>1. 0 \in 0 .. SequenceSize - 1
  BY DatagramsAssumption
<1>2. sequence \in Sequences /\ round \in Rounds
  BY <1>1 DEF DatagramsInit, Sequences, Rounds
<1> QED BY <1>2 DEF DatagramsInit, DgInv, DgTypes, Alone

(* A packet in flight stays one when another is begun.                     *)
LEMMA MorePackets ==
  ASSUME NEW n \in Nat
  PROVE  Packets(n) \subseteq Packets(n + 1)
BY DEF Packets

(* Without an overlap a thread that runs while a client is there is its.   *)
LEMMA Served ==
  ASSUME DgInv, NEW s \in Threads, Running(s) \/ packet[s] # None,
         ~overlap, served # "none"
  PROVE  served = s
BY DEF DgInv, Alone, Running

(* A thread begins a packet; without an overlap it is the client's.        *)
LEMMA BeginInv ==
  ASSUME DgInv, NEW s \in Threads, NEW t \in Types,
         NEW l \in 1 .. LengthBound, BeginPacket(s, t, l)
  PROVE  DgInv'
<1>1. PICK p : p = [number |-> packets + 1, type |-> t, length |-> l,
                    sent |-> 0]
  OBVIOUS
<1>2. /\ Running(s) /\ packet[s] = None /\ packets' = packets + 1
      /\ packet' = [packet EXCEPT ![s] = p]
      /\ sequence' = sequence /\ round' = round
      /\ served' = served /\ old' = old
      /\ sentOff' = sentOff /\ overlap' = overlap
  BY <1>1 DEF BeginPacket
<1>3. l \in Nat /\ l # 0
  OBVIOUS
<1>4. DgTypes
  BY DEF DgInv
<1>5. packets \in Nat
  BY <1>4 DEF DgTypes
<1>6. p \in Packets(packets + 1)
  BY <1>1, <1>3, <1>5 DEF Packets
<1>7. packet' \in [Threads -> Packets(packets + 1) \cup {None}]
      /\ packet'[s] = p /\ \A x \in Threads : x # s => packet'[x] = packet[x]
  BY <1>2, <1>4, <1>5, <1>6, MorePackets DEF DgTypes
<1>8. DgTypes'
  BY <1>2, <1>4, <1>5, <1>7 DEF DgTypes
<1>9. Alone'
  BY <1>2, <1>7 DEF DgInv, Alone, Running
<1>10. ASSUME ~overlap, served # "none"
       PROVE  OutIs(sentOff', sequence', round', packet'[served'], packets')
  <2>1. served = s
    BY <1>2, <1>10, Served
  <2>2. PICK n, q, w, sent :
          n = packets /\ q = sequence /\ w = round /\ sent = sentOff
    OBVIOUS
  <2>3. n \in Nat /\ OutIs(sent, q, w, None, n) /\ l \in Nat \ {0}
        /\ p = [number |-> n + 1, type |-> t, length |-> l, sent |-> 0]
    BY <1>1, <1>2, <1>3, <1>5, <1>10, <2>1, <2>2 DEF DgInv
  <2>4. OutIs(sent, q, w, p, n + 1)
    BY <2>3, OutBegin
  <2> QED BY <1>2, <1>7, <2>1, <2>2, <2>4
<1> QED BY <1>2, <1>8, <1>9, <1>10 DEF DgInv

(* A thread sends a datagram; without an overlap it is the client's.       *)
LEMMA SendInv ==
  ASSUME DgInv, NEW s \in Threads, SendDatagram(s)
  PROVE  DgInv'
<1>1. PICK p, r : p = packet[s]
                  /\ r = [p EXCEPT !.sent = @ + Cardinality(Piece(p))]
  OBVIOUS
<1>2. /\ p # None /\ p.sent < p.length
      /\ packet' = [packet EXCEPT ![s] = r]
      /\ sequence' = sequence /\ round' = round
      /\ served' = served /\ old' = old
      /\ packets' = packets /\ overlap' = overlap
  BY <1>1 DEF SendDatagram
<1>3. DgTypes /\ packets \in Nat
  BY DEF DgInv, DgTypes
<1>4. r \in Packets(packets)
  <2>1. p \in Packets(packets)
    BY <1>1, <1>2, <1>3 DEF DgTypes
  <2>2. PICK e : e = p.sent + Cardinality(Piece(p))
    OBVIOUS
  <2>3. e \in Nat
    <3>1. PICK a, b : a = p.sent /\ b = (IF p.length - p.sent <= Payload
                                         THEN p.length ELSE p.sent + Payload) - 1
      OBVIOUS
    <3>2. p.sent \in Nat /\ p.length \in Nat
      BY <2>1 DEF Packets
    <3>3. a \in Int /\ b \in Int /\ Piece(p) = a .. b
      BY <3>1, <3>2, PayloadIs DEF Piece
    <3>4. Cardinality(a .. b) = IF a > b THEN 0 ELSE b - a + 1
      BY <3>3, FS_Interval
    <3>5. Cardinality(Piece(p)) \in Nat
      BY <3>3, <3>4
    <3> QED BY <2>2, <3>2, <3>5
  <2>4. r = [number |-> p.number, type |-> p.type, length |-> p.length,
             sent |-> e]
    BY <1>1, <2>1, <2>2 DEF Packets
  <2>5. /\ p.number \in 1 .. packets /\ p.type \in Types
        /\ p.length \in Nat \ {0}
    BY <2>1 DEF Packets
  <2> QED BY ONLY <2>3, <2>4, <2>5 DEF Packets
<1>5. r # None
  BY <1>3, <1>4, NoneIs
<1>6. packet' \in [Threads -> Packets(packets) \cup {None}]
      /\ packet'[s] = r /\ \A x \in Threads : x # s => packet'[x] = packet[x]
  BY <1>2, <1>3, <1>4 DEF DgTypes
<1>7. DgTypes'
  BY <1>2, <1>3, <1>6 DEF DgTypes
<1>8. Alone'
  BY <1>1, <1>2, <1>6 DEF DgInv, Alone
<1>9. ASSUME served = "none" PROVE sentOff' = {}
  BY <1>9 DEF SendDatagram, DgInv
<1>10. ASSUME ~overlap, served # "none"
       PROVE  OutIs(sentOff', sequence', round', packet'[served'], packets')
  <2>1. served = s
    BY <1>1, <1>2, <1>10, Served
  <2>2. PICK n, q, w, sent, d :
          /\ n = packets /\ q = sequence /\ w = round /\ sent = sentOff
          /\ d = [header |-> [type |-> p.type, seq |-> q[p.type],
                              count |-> Count(p.length),
                              index |-> p.sent \div Payload],
                  round |-> w[p.type], number |-> p.number,
                  piece |-> Piece(p)]
    OBVIOUS
  <2>3. n \in Nat /\ OutIs(sent, q, w, p, n)
    BY <1>1, <1>3, <1>10, <2>1, <2>2 DEF DgInv
  <2>4. OutIs(sent \cup {d}, q, w, r, n)
    BY <1>1, <1>2, <2>2, <2>3, OutSend
  <2>5. sentOff' = sent \cup {d}
    BY <1>1, <1>10, <2>2 DEF SendDatagram, Header
  <2> QED BY <1>2, <1>6, <2>1, <2>2, <2>4, <2>5
<1> QED BY <1>2, <1>7, <1>8, <1>9, <1>10 DEF DgInv

(* A thread ends its packet and advances the sequence.                     *)
LEMMA EndInv ==
  ASSUME DgInv, NEW s \in Threads, EndPacket(s)
  PROVE  DgInv'
<1>1. PICK p : p = packet[s]
  OBVIOUS
<1>2. /\ p # None /\ p.sent = p.length
      /\ packet' = [packet EXCEPT ![s] = None]
      /\ sequence' = [sequence EXCEPT ![p.type] = Following(@)]
      /\ round' = IF sequence[p.type] = SequenceSize - 1
                  THEN [round EXCEPT ![p.type] = @ + 1] ELSE round
      /\ served' = served /\ old' = old /\ sentOff' = sentOff
      /\ packets' = packets /\ overlap' = overlap
  BY <1>1 DEF EndPacket
<1>3. /\ DgTypes /\ packets \in Nat /\ sequence \in Sequences
      /\ round \in Rounds
  BY DEF DgInv, DgTypes
<1>4. packet' \in [Threads -> Packets(packets) \cup {None}]
      /\ packet'[s] = None
      /\ \A x \in Threads : x # s => packet'[x] = packet[x]
  BY <1>2, <1>3 DEF DgTypes
<1>5. sequence' \in Sequences /\ round' \in Rounds
  <2>1. p \in Packets(packets)
    BY <1>1, <1>2, <1>3 DEF DgTypes
  <2>2. PICK t, k : t = p.type /\ k = sequence[t]
    OBVIOUS
  <2>3. t \in Types
    BY <2>1, <2>2 DEF Packets
  <2>4. k \in 0 .. SequenceSize - 1
    BY <1>3, <2>2, <2>3 DEF Sequences
  <2>5. Following(k) \in 0 .. SequenceSize - 1
    BY <2>4, FollowingIs
  <2>6. sequence' = [sequence EXCEPT ![t] = Following(k)]
    BY <1>2, <2>2
  <2>7. sequence' \in Sequences
    BY <1>3, <2>3, <2>5, <2>6 DEF Sequences
  <2>8. round' \in Rounds
    BY <1>2, <1>3, <2>2, <2>3 DEF Rounds
  <2> QED BY <2>7, <2>8
<1>6. DgTypes'
  BY <1>2, <1>3, <1>4, <1>5 DEF DgTypes
<1>7. Alone'
  BY <1>2, <1>4 DEF DgInv, Alone
<1>8. ASSUME ~overlap, served # "none"
      PROVE  OutIs(sentOff', sequence', round', packet'[served'], packets')
  <2>1. served = s
    BY <1>1, <1>2, <1>8, Served
  <2>2. PICK n, q, w, sent, z, v :
          /\ n = packets /\ q = sequence /\ w = round /\ sent = sentOff
          /\ z = [q EXCEPT ![p.type] = Following(@)]
          /\ v = IF q[p.type] = SequenceSize - 1
                 THEN [w EXCEPT ![p.type] = @ + 1] ELSE w
    OBVIOUS
  <2>3. n \in Nat /\ OutIs(sent, q, w, p, n)
    BY <1>1, <1>3, <1>8, <2>1, <2>2 DEF DgInv
  <2>4. OutIs(sent, z, v, None, n)
    BY <1>2, <2>2, <2>3, OutEnd
  <2>5. sequence' = z /\ round' = v
    BY <1>2, <2>2
  <2> QED BY <1>2, <1>4, <2>1, <2>2, <2>4, <2>5
<1> QED BY <1>2, <1>6, <1>7, <1>8 DEF DgInv

(* A rebuild of the caches between two packets of a thread; without an     *)
(* overlap it is the client's, and no other is in a packet.                *)
LEMMA RebuildInv ==
  ASSUME DgInv, NEW s \in Threads, Rebuild(s)
  PROVE  DgInv'
<1>1. /\ Running(s) /\ packet[s] = None
      /\ sequence' = [t \in Types |-> 0]
      /\ round' = [t \in Types |-> round[t] + 1]
      /\ served' = served /\ old' = old /\ packets' = packets
      /\ packet' = packet /\ sentOff' = sentOff /\ overlap' = overlap
  BY DEF Rebuild
<1>2. DgTypes /\ packets \in Nat /\ round \in Rounds
  BY DEF DgInv, DgTypes
<1>3. sequence' \in Sequences /\ round' \in Rounds
  <2>1. 0 \in 0 .. SequenceSize - 1
    BY DatagramsAssumption
  <2>2. sequence' \in Sequences
    BY <1>1, <2>1 DEF Sequences
  <2>3. round' \in Rounds
    BY <1>1, <1>2 DEF Rounds
  <2> QED BY <2>2, <2>3
<1>4. DgTypes'
  BY <1>1, <1>2, <1>3 DEF DgTypes
<1>5. Alone'
  BY <1>1 DEF DgInv, Alone
<1>6. ASSUME ~overlap, served # "none"
      PROVE  OutIs(sentOff', sequence', round', packet'[served'], packets')
  <2>1. served = s
    BY <1>1, <1>6, Served
  <2>2. PICK n, q, w, sent, z, v :
          /\ n = packets /\ q = sequence /\ w = round /\ sent = sentOff
          /\ z = [t \in Types |-> 0] /\ v = [t \in Types |-> w[t] + 1]
    OBVIOUS
  <2>3. n \in Nat /\ OutIs(sent, q, w, None, n)
    BY <1>1, <1>2, <1>6, <2>1, <2>2 DEF DgInv
  <2>4. OutIs(sent, z, v, None, n)
    BY <2>2, <2>3, OutReset
  <2>5. sequence' = z /\ round' = v
    BY <1>1, <2>2
  <2> QED BY <1>1, <2>1, <2>2, <2>4, <2>5
<1> QED BY <1>1, <1>4, <1>5, <1>6 DEF DgInv

(* The client is dropped, and both sequences are reset.                    *)
LEMMA DropInv ==
  ASSUME DgInv, DropClient
  PROVE  DgInv'
<1>1. /\ served # "none" /\ served' = "none" /\ old' = old \cup {served}
      /\ sequence' = [t \in Types |-> 0] /\ round' = [t \in Types |-> 0]
      /\ sentOff' = {}
      /\ packets' = packets /\ packet' = packet /\ overlap' = overlap
  BY DEF DropClient
<1>2. sequence' \in Sequences /\ round' \in Rounds
  <2>1. 0 \in 0 .. SequenceSize - 1
    BY DatagramsAssumption
  <2> QED BY <1>1, <2>1 DEF Sequences, Rounds
<1>3. DgTypes'
  BY <1>1, <1>2 DEF DgInv, DgTypes
<1>4. Alone'
  BY <1>1 DEF DgInv, Alone
<1> QED BY <1>1, <1>3, <1>4 DEF DgInv

(* A thread whose client is gone ends between two packets.                 *)
LEMMA EndThreadInv ==
  ASSUME DgInv, NEW s \in Threads, EndThread(s)
  PROVE  DgInv'
<1>1. /\ s \in old /\ packet[s] = None /\ old' = old \ {s}
      /\ sequence' = sequence /\ round' = round /\ served' = served
      /\ packets' = packets /\ packet' = packet
      /\ sentOff' = sentOff /\ overlap' = overlap
  BY DEF EndThread
<1>2. DgTypes'
  BY <1>1 DEF DgInv, DgTypes
<1>3. Alone'
  BY <1>1 DEF DgInv, Alone
<1> QED BY <1>1, <1>2, <1>3 DEF DgInv

(* The next client: without an overlap there is no other thread.           *)
LEMMA NextInv ==
  ASSUME DgInv, NEW s \in Threads, NextClient(s)
  PROVE  DgInv'
<1>1. /\ served = "none" /\ s \notin old /\ served' = s
      /\ ~overlap' => ~overlap /\ old = {}
      /\ sequence' = sequence /\ round' = round
      /\ old' = old /\ packets' = packets
      /\ packet' = packet /\ sentOff' = sentOff
  BY DEF NextClient
<1>2. DgTypes'
  BY <1>1 DEF DgInv, DgTypes
<1>3. s # "none" /\ \A x \in Threads : x # "none"
  BY DatagramsAssumption
<1>4. Alone'
  BY <1>1, <1>3 DEF DgInv, Alone
<1>5. packet[s] = None
  BY <1>1, <1>3 DEF DgInv, Alone
<1>6. OutIs({}, sequence, round, None, packets)
  <2>1. PICK n, q, w : n = packets /\ q = sequence /\ w = round
    OBVIOUS
  <2>2. n \in Nat /\ q \in Sequences /\ w \in Rounds
    BY <2>1 DEF DgInv, DgTypes
  <2> QED BY <2>1, <2>2, OutEmpty
<1>7. sentOff' = {}
  BY <1>1 DEF DgInv
<1>8. OutIs(sentOff', sequence', round', packet'[served'], packets')
  BY <1>1, <1>5, <1>6, <1>7
<1> QED BY <1>1, <1>2, <1>3, <1>4, <1>8 DEF DgInv

(* All actions together.                                                   *)
LEMMA DatagramsStep == DgInv /\ [DatagramsNext]_dgVars => DgInv'
<1> SUFFICES ASSUME DgInv, [DatagramsNext]_dgVars PROVE DgInv'
  OBVIOUS
<1>1. ASSUME NEW s \in Threads, NEW t \in Types, NEW l \in 1 .. LengthBound,
             BeginPacket(s, t, l)
      PROVE  DgInv'
  BY <1>1, BeginInv
<1>2. ASSUME NEW s \in Threads, SendDatagram(s) PROVE DgInv'
  BY <1>2, SendInv
<1>3. ASSUME NEW s \in Threads, EndPacket(s) PROVE DgInv'
  BY <1>3, EndInv
<1>4. ASSUME NEW s \in Threads, Rebuild(s) PROVE DgInv'
  BY <1>4, RebuildInv
<1>5. ASSUME NEW s \in Threads, EndThread(s) PROVE DgInv'
  BY <1>5, EndThreadInv
<1>6. ASSUME NEW s \in Threads, NextClient(s) PROVE DgInv'
  BY <1>6, NextInv
<1>7. CASE RebuildCaches
  BY <1>7 DEF RebuildCaches, DgInv, DgTypes, Alone
<1>8. CASE DropClient
  BY <1>8, DropInv
<1>9. CASE UNCHANGED dgVars
  BY <1>9 DEF dgVars, DgInv, DgTypes, Alone
<1> QED BY <1>1, <1>2, <1>3, <1>4, <1>5, <1>6, <1>7, <1>8, <1>9
        DEF DatagramsNext

(* The invariant says more than the property.                              *)
LEMMA DatagramsRebuilt == DgInv => PacketsAreRebuilt
<1> SUFFICES ASSUME DgInv, ~overlap, NEW d \in sentOff
             PROVE  LET same == {e \in sentOff :
                                   /\ e.header.type = d.header.type
                                   /\ e.header.seq = d.header.seq
                                   /\ e.round = d.round}
                        ended == \A s \in Threads : packet[s].number # d.number
                    IN  /\ \A e \in same : e.number = d.number
                        /\ Cardinality({e.header.index : e \in same})
                             = Cardinality(same)
                        /\ Cardinality(same) <= d.header.count
                        /\ ended => Cardinality(same) = d.header.count
  BY DEF PacketsAreRebuilt
<1>1. served \in Threads
  BY DEF DgInv, DgTypes
<1>2. PICK n, q, w, sent, p :
        /\ n = packets /\ q = sequence /\ w = round /\ sent = sentOff
        /\ p = packet[served]
  OBVIOUS
<1>3. n \in Nat /\ OutIs(sent, q, w, p, n) /\ d \in sent
  BY <1>1, <1>2, DatagramsAssumption DEF DgInv, DgTypes
<1>4. /\ \A e \in Same(sent, d) : e.number = d.number
      /\ Cardinality(Parts(sent, d)) = Cardinality(Same(sent, d))
      /\ Cardinality(Same(sent, d)) <= d.header.count
      /\ d.number # p.number => Cardinality(Same(sent, d)) = d.header.count
  BY <1>3, OutRebuilt
<1> QED BY <1>1, <1>2, <1>4 DEF Same, Parts

-----------------------------------------------------------------------------
(* All parts side by side.                                                 *)

(* Whatever the last client left in eventBuffer and however the stream is  *)
(* cut into reads, clientReadNotify processes the events of a connection   *)
(* whole, in order and each once, as long as no reset of the buffer        *)
(* dropped the beginning of one: for events of any length, reads of any    *)
(* size and any number of events and connections.                          *)
THEOREM EventsCorrect == EventsSpec => []EventsAreWhole
<1>1. EventsInit => EventsInv
  BY EventsInitially
<1>2. EventsInv /\ [EventsNext]_eventVars => EventsInv'
  BY EventsStep
<1>3. EventsInv => EventsAreWhole
  BY EventsWhole
<1> QED BY <1>1, <1>2, <1>3, PTL DEF EventsSpec

(* A client that puts the datagrams of one type and sequence number        *)
(* together has one packet and all of it, as long as the sequence has not  *)
(* begun anew in between (after 2^16 packets, or at a rebuild of the       *)
(* caches), and unless it came while the thread of the last client was     *)
(* still there: for payloads, packets and sequences of any length, any     *)
(* number of packets and rebuilds, and any threads                         *)
(* (send_packet_as_datagrams, clean_everything).                           *)
THEOREM DatagramsCorrect == DatagramsSpec => []PacketsAreRebuilt
<1>1. DatagramsInit => DgInv
  BY DatagramsInitially
<1>2. DgInv /\ [DatagramsNext]_dgVars => DgInv'
  BY DatagramsStep
<1>3. DgInv => PacketsAreRebuilt
  BY DatagramsRebuilt
<1> QED BY <1>1, <1>2, <1>3, PTL DEF DatagramsSpec

(* The inputs of the runs are inputs of the theorems.                      *)
LEMMA ChangesArePixels ==
  ASSUME NEW dirty \in Changes
  PROVE  dirty \in SUBSET Pixels /\ IsFiniteSet(dirty)
<1>1. IsFiniteSet(Canvas) /\ Canvas \subseteq Pixels
  <2>1. IsFiniteSet(0 .. 6) /\ IsFiniteSet(0 .. 5)
    <3>1. PICK a, b, c : a = 0 /\ b = 6 /\ c = 5
      OBVIOUS
    <3>2. a \in Int /\ b \in Int /\ c \in Int
      BY <3>1
    <3>3. IsFiniteSet(a .. b) /\ IsFiniteSet(a .. c)
      BY <3>2, FS_Interval
    <3> QED BY <3>1, <3>3
  <2>2. IsFiniteSet((0 .. 6) \X (0 .. 5))
    BY <2>1, FS_Product
  <2>3. \A p \in (0 .. 6) \X (0 .. 5) : p \in Pixels
    BY DEF Pixels
  <2> QED BY <2>2, <2>3 DEF Canvas
<1>2. Blot \subseteq Canvas
  BY DEF Blot, Canvas
<1>3. dirty \subseteq Canvas
  BY <1>2 DEF Changes
<1> QED BY <1>1, <1>3, FS_Subset

(* Older elements of the run are older elements.                           *)
LEMMA EldersAreElders ==
  ASSUME NEW older \in Elders
  PROVE  older \in Seq(Elder)
<1>1. PICK n \in 0 .. 4 :
        older \in [1 .. n -> [difference : 0 .. 3, sent : BOOLEAN]]
  BY DEF Elders
<1>2. [difference : 0 .. 3, sent : BOOLEAN] \subseteq Elder
  BY DEF Elder
<1>3. n \in Nat
  OBVIOUS
<1>4. older \in [1 .. n -> Elder]
  BY <1>1, <1>2
<1> QED BY <1>3, <1>4

(* Frames of the run are large enough to be compared.                      *)
LEMMA ScrollsAreFrames ==
  ASSUME NEW i \in Scrolls
  PROVE  IsFrame(Older(i)) /\ IsFrame(Newer(i))
<1>1. i.size \in Sizes
  BY DEF Scrolls
<1>2. /\ i.size[1] \in Nat /\ i.size[2] \in Nat /\ i.size[3] \in Nat
      /\ i.size[4] \in Nat
      /\ i.size[1] > 4 /\ i.size[2] > 4 /\ i.size[3] > 4 /\ i.size[4] > 4
      /\ i.size[1] * i.size[2] > 100 /\ i.size[3] * i.size[4] > 100
  BY <1>1 DEF Sizes
<1>3. /\ Older(i).w = i.size[1] /\ Older(i).h = i.size[2]
      /\ Newer(i).w = i.size[3] /\ Newer(i).h = i.size[4]
  BY DEF Older, Newer
<1> QED BY <1>2, <1>3 DEF IsFrame, LargeEnough

(* Each part runs beside the others, which keep what they have.            *)
InputIs ==
  /\ part = "paint" => input \in Changes
  /\ part = "match" => input \in Elders
  /\ part = "regions" => input \in Scrolls

(* The invariant of all parts.                                             *)
AlgorithmsInv == InputIs /\ EventsInv /\ DgInv

(* It holds at first.                                                      *)
LEMMA AlgorithmsInitially == Init => AlgorithmsInv
BY EventsInitially, DatagramsInitially DEF Init, AlgorithmsInv, InputIs

(* Every step keeps it.                                                    *)
LEMMA AlgorithmsStep == AlgorithmsInv /\ [Next]_allVars => AlgorithmsInv'
<1> SUFFICES ASSUME AlgorithmsInv, [Next]_allVars PROVE AlgorithmsInv'
  OBVIOUS
<1>1. part' = part /\ input' = input
  BY DEF Next, Compute, allVars
<1>2. [EventsNext]_eventVars
  BY DEF Next, Compute, allVars
<1>3. [DatagramsNext]_dgVars
  BY DEF Next, Compute, allVars
<1>4. InputIs'
  BY <1>1 DEF AlgorithmsInv, InputIs
<1>5. EventsInv'
  BY <1>2, EventsStep DEF AlgorithmsInv
<1>6. DgInv'
  BY <1>3, DatagramsStep DEF AlgorithmsInv
<1> QED BY <1>4, <1>5, <1>6 DEF AlgorithmsInv

(* It always holds.                                                        *)
LEMMA AlgorithmsInvariant == Spec => []AlgorithmsInv
<1>1. Init => AlgorithmsInv
  BY AlgorithmsInitially
<1>2. AlgorithmsInv /\ [Next]_allVars => AlgorithmsInv'
  BY AlgorithmsStep
<1> QED BY <1>1, <1>2, PTL DEF Spec

(* remote_paint_rect sends every pixel that changed and scans only the     *)
(* box, and unitePaintRegions leaves no two rectangles that would be       *)
(* better sent as one.                                                     *)
THEOREM PaintCorrect == Spec => []ChangesAreSent
<1>1. AlgorithmsInv => ChangesAreSent
  <2> SUFFICES ASSUME AlgorithmsInv, Has("paint")
               PROVE  /\ PaintIsSent(input) /\ RegionsAreApart(input)
                      /\ ScanEnds(input)
    BY DEF ChangesAreSent
  <2>1. PICK dirty : dirty = input
    OBVIOUS
  <2>2. dirty \in Changes
    BY <2>1 DEF AlgorithmsInv, InputIs, Has
  <2>3. dirty \in SUBSET Pixels /\ IsFiniteSet(dirty)
    BY <2>2, ChangesArePixels
  <2> QED BY <2>1, <2>3, PaintSent, PaintApart, PaintEnds
<1> QED BY <1>1, AlgorithmsInvariant, PTL

(* find_best_match finds the best of the older elements, and a frame that  *)
(* initFrameRegions describes by an older one comes out right, with        *)
(* nothing read outside the two.                                           *)
THEOREM FramesCorrect == Spec => []FramesAreRebuilt
<1>1. AlgorithmsInv => FramesAreRebuilt
  <2> SUFFICES ASSUME AlgorithmsInv PROVE FramesAreRebuilt
    OBVIOUS
  <2>1. ASSUME Has("match") PROVE MatchIsBest(input)
    <3>1. PICK older : older = input
      OBVIOUS
    <3>2. older \in Elders
      BY <2>1, <3>1 DEF AlgorithmsInv, InputIs, Has
    <3>3. older \in Seq(Elder)
      BY <3>2, EldersAreElders
    <3> QED BY <3>1, <3>3, MatchCorrect
  <2>2. ASSUME Has("regions")
        PROVE  /\ SamplesAreInside(Older(input), Newer(input))
               /\ FrameIsRebuilt(Older(input), Newer(input))
    <3>1. PICK i, src, dst : i = input /\ src = Older(i) /\ dst = Newer(i)
      OBVIOUS
    <3>2. i \in Scrolls
      BY <2>2, <3>1 DEF AlgorithmsInv, InputIs, Has
    <3>3. IsFrame(src) /\ IsFrame(dst)
      BY <3>1, <3>2, ScrollsAreFrames
    <3>4. SamplesAreInside(src, dst) /\ FrameIsRebuilt(src, dst)
      BY <3>3, SamplesInside, RebuiltFrame
    <3> QED BY <3>1, <3>4
  <2> QED BY <2>1, <2>2 DEF FramesAreRebuilt
<1> QED BY <1>1, AlgorithmsInvariant, PTL

(* What is cut into pieces is put together again: the client's events in   *)
(* clientReadNotify, and packets sent by send_packet_as_datagrams until    *)
(* their sequence begins anew.                                             *)
THEOREM StreamsCorrect == Spec => []StreamsAreWhole
<1>1. AlgorithmsInv => StreamsAreWhole
  BY EventsWhole, DatagramsRebuilt DEF AlgorithmsInv, StreamsAreWhole
<1> QED BY <1>1, AlgorithmsInvariant, PTL
=============================================================================
