--------------------------- MODULE WindowsProofs ---------------------------
(***************************************************************************)
(* For any windows, ids and sending threads: what the list of rootless     *)
(* windows says is what the client has, a settled screen is what the       *)
(* client shows, a mark is never forgotten, and client_win_change finds    *)
(* its entry again.                                                        *)
(***************************************************************************)
EXTENDS Windows, FiniteSetTheorems, SequenceTheorems, WellFoundedInduction,
        TLAPS

-----------------------------------------------------------------------------
(* Numbers and sequences.                                                  *)

(* A set of numbers has a least one.                                       *)
LEMMA LeastOf ==
  ASSUME NEW T \in SUBSET Nat, T # {}
  PROVE  \E x \in T : \A y \in T : x <= y
<1> DEFINE R == OpToRel(<, Nat)
<1>1. IsWellFoundedOn(R, Nat)
  BY NatLessThanWellFounded
<1>2. \E x \in T : \A y \in T : ~ (<<y, x>> \in R)
  <2> HIDE DEF R
  <2> QED BY <1>1, WFMin
<1>3. ASSUME NEW x \in T, NEW y \in T, ~ (<<y, x>> \in R) PROVE x <= y
  BY <1>3 DEF OpToRel
<1> QED BY <1>2, <1>3

(* Induction for a set: the library's induction theorems take an operator  *)
(* as a parameter, which no prover here can instantiate.                   *)
LEMMA Induction ==
  ASSUME NEW T, 0 \in T, \A n \in Nat : n \in T => n + 1 \in T
  PROVE  Nat \subseteq T
<1>1. SUFFICES ASSUME Nat \ T # {} PROVE FALSE
  OBVIOUS
<1>2. PICK x \in Nat \ T : \A y \in Nat \ T : x <= y
  BY <1>1, LeastOf
<1>3. x - 1 \in Nat /\ x - 1 \in T /\ x # 0
  BY <1>2
<1> QED BY <1>3, <1>2

(* The places of a part are taken in rising order.                         *)
Rising(f, N) == \A m, n \in 1 .. N : m < n => f[m] < f[n]

(* Any places of a sequence can be taken in rising order.                  *)
LEMMA RisingExists ==
  ASSUME NEW N \in Nat, NEW I \in SUBSET (1 .. N)
  PROVE  \E f \in [1 .. Cardinality(I) -> I] : Rising(f, Cardinality(I))
<1> DEFINE Ordered(J) ==
      \E f \in [1 .. Cardinality(J) -> J] : Rising(f, Cardinality(J))
    T == {n \in Nat : \A J \in SUBSET (1 .. n) : Ordered(J)}
<1>1. 0 \in T
  <2> SUFFICES ASSUME NEW J \in SUBSET (1 .. 0) PROVE Ordered(J)
    OBVIOUS
  <2>1. J = {}
    OBVIOUS
  <2>a. Cardinality(J) = 0
    BY <2>1, FS_EmptySet
  <2>2. [k \in 1 .. 0 |-> k] \in [1 .. Cardinality(J) -> J]
    BY <2>a
  <2> QED BY <2>a, <2>2 DEF Rising
<1>2. ASSUME NEW n \in Nat, n \in T PROVE n + 1 \in T
  <2> SUFFICES ASSUME NEW J \in SUBSET (1 .. n + 1) PROVE Ordered(J)
    <3> HIDE DEF Ordered
    <3> QED OBVIOUS
  <2>1. CASE n + 1 \notin J
    <3>1. J \in SUBSET (1 .. n)
      BY <2>1
    <3> QED BY <3>1, <1>2
  <2>2. CASE n + 1 \in J
    <3> DEFINE K == J \ {n + 1}
               c == Cardinality(K)
    <3>1. K \in SUBSET (1 .. n)
      OBVIOUS
    <3>2. IsFiniteSet(K) /\ c \in Nat
      <4>1. IsFiniteSet(1 .. n)
        BY FS_Interval
      <4>2. IsFiniteSet(K)
        BY <3>1, <4>1, FS_Subset
      <4> QED BY <4>2, FS_CardinalityType
    <3>3. Cardinality(J) = c + 1
      <4>1. J = K \cup {n + 1}
        BY <2>2
      <4> QED BY <4>1, <3>2, FS_AddElement
    <3>4. PICK f \in [1 .. c -> K] : Rising(f, c)
      BY <3>1, <1>2
    <3> DEFINE g == [k \in 1 .. c + 1 |-> IF k <= c THEN f[k] ELSE n + 1]
    <3> HIDE DEF c
    <3>5. g \in [1 .. c + 1 -> J]
      BY <2>2, <3>2, <3>4
    <3>6. Rising(g, c + 1)
      <4> SUFFICES ASSUME NEW i \in 1 .. c + 1, NEW j \in 1 .. c + 1, i < j
                   PROVE  g[i] < g[j]
        BY DEF Rising
      <4>1. i \in 1 .. c
        BY <3>2
      <4>a. f[i] \in K
        BY <4>1, <3>4
      <4>b. f[i] \in 1 .. n
        BY <4>a, <3>1
      <4>2. CASE j <= c
        BY <4>1, <4>2, <3>2, <3>4 DEF Rising
      <4>3. CASE j = c + 1
        BY <4>1, <4>b, <4>3, <3>2
      <4> QED BY <4>2, <4>3, <3>2
    <3> HIDE DEF g
    <3> QED BY <3>3, <3>4, <3>5, <3>6
  <2> QED BY <2>1, <2>2
<1> HIDE DEF T
<1>3. N \in T
  BY <1>1, <1>2, Induction
<1> QED BY <1>3 DEF T

(* Taken in rising order, each place comes once.                           *)
LEMMA RisingIsOnto ==
  ASSUME NEW I \in SUBSET Nat, IsFiniteSet(I),
         NEW c, c = Cardinality(I), NEW f \in [1 .. c -> I], Rising(f, c)
  PROVE  /\ c \in Nat
         /\ \A k, l \in 1 .. c : f[k] = f[l] => k = l
         /\ \A n \in I : \E k \in 1 .. c : f[k] = n
<1>a. IsFiniteSet(I)
  OBVIOUS
<1>1. c \in Nat
  BY <1>a, FS_CardinalityType
<1>2. IsFiniteSet(1 .. c) /\ Cardinality(1 .. c) = c
  BY <1>1, FS_Interval
<1>3. ASSUME NEW k \in 1 .. c, NEW l \in 1 .. c, f[k] = f[l] PROVE k = l
  <2>1. f[k] \in Nat /\ f[l] \in Nat
    <3>1. f[k] \in I /\ f[l] \in I
      OBVIOUS
    <3>2. \A n \in I : n \in Nat
      OBVIOUS
    <3> QED BY <3>1, <3>2
  <2>2. ~ (k < l) /\ ~ (l < k)
    BY <1>3, <2>1 DEF Rising
  <2> QED BY <1>1, <2>2
<1>4. f \in Injection(1 .. c, I)
  BY <1>3 DEF Injection, IsInjective
<1>5. f \in Surjection(1 .. c, I)
  <2>1. Cardinality(1 .. c) = Cardinality(I) <=> f \in Surjection(1 .. c, I)
    BY <1>a, <1>4, FS_Injection
  <2> QED BY <2>1, <1>2
<1> QED BY <1>1, <1>3, <1>5 DEF Surjection

(* A part of a sequence has the elements at the places taken, each once.   *)
LEMMA PartIs ==
  ASSUME NEW X, NEW s \in Seq(X), NEW I \in SUBSET DOMAIN s
  PROVE  /\ Part(s, I) \in Seq(X)
         /\ \E f \in [1 .. Len(Part(s, I)) -> I] :
              /\ \A k \in 1 .. Len(Part(s, I)) : Part(s, I)[k] = s[f[k]]
              /\ \A k, l \in 1 .. Len(Part(s, I)) : f[k] = f[l] => k = l
              /\ \A n \in I : \E k \in 1 .. Len(Part(s, I)) : f[k] = n
<1> DEFINE c == Cardinality(I)
           R(f) == \A m, n \in 1 .. c : m < n => f[m] < f[n]
           place == CHOOSE f \in [1 .. c -> I] : R(f)
<1>0. /\ Len(s) \in Nat /\ DOMAIN s = 1 .. Len(s)
      /\ \A n \in 1 .. Len(s) : s[n] \in X
  BY LenProperties, ElementOfSeq
<1>1. \E f \in [1 .. c -> I] : R(f)
  BY <1>0, RisingExists DEF Rising
<1>2. place \in [1 .. c -> I] /\ R(place)
  <2> HIDE DEF c
  <2> QED BY <1>1
<1>3. Part(s, I) = [k \in 1 .. c |-> s[place[k]]]
  BY DEF Part
<1>4. Rising(place, c)
  BY <1>2 DEF Rising
<1> HIDE DEF place, R
<1>5. /\ c \in Nat
      /\ \A k, l \in 1 .. c : place[k] = place[l] => k = l
      /\ \A n \in I : \E k \in 1 .. c : place[k] = n
  <2>1. I \in SUBSET Nat /\ IsFiniteSet(I)
    <3>1. IsFiniteSet(1 .. Len(s)) /\ I \in SUBSET (1 .. Len(s))
      BY <1>0, FS_Interval
    <3> QED BY <3>1, FS_Subset
  <2>2. c = Cardinality(I) /\ place \in [1 .. c -> I] /\ Rising(place, c)
    BY <1>2, <1>4
  <2> HIDE DEF c
  <2> QED BY <2>1, <2>2, RisingIsOnto
<1> HIDE DEF c
<1> DEFINE r == Part(s, I)
<1>6. \A k \in 1 .. c : s[place[k]] \in X
  BY <1>0, <1>2
<1>7. r \in Seq(X) /\ Len(r) = c /\ \A k \in 1 .. c : r[k] = s[place[k]]
  BY <1>3, <1>5, <1>6
<1> HIDE DEF r
<1>8. \E f \in [1 .. Len(r) -> I] :
        /\ \A k \in 1 .. Len(r) : r[k] = s[f[k]]
        /\ \A k, l \in 1 .. Len(r) : f[k] = f[l] => k = l
        /\ \A n \in I : \E k \in 1 .. Len(r) : f[k] = n
  <2>1. /\ place \in [1 .. Len(r) -> I]
        /\ \A k \in 1 .. Len(r) : r[k] = s[place[k]]
        /\ \A k, l \in 1 .. Len(r) : place[k] = place[l] => k = l
        /\ \A n \in I : \E k \in 1 .. Len(r) : place[k] = n
    BY <1>2, <1>5, <1>7
  <2> QED BY <2>1
<1> QED BY <1>7, <1>8 DEF r

-----------------------------------------------------------------------------
(* The operators of Windows.                                               *)

(* What remote_check_window finds below a window is in the stack.          *)
LEMMA NextBelowIsThere ==
  ASSUME stack \in Seq(Ptr), NEW p, NEW S
  PROVE  NextBelow(p, S) = Null \/ NextBelow(p, S) \in S \cap InTree
<1> DEFINE below == {n \in Places : n > Place(p) /\ stack[n] \in S}
<1>1. CASE below = {}
  BY <1>1 DEF NextBelow
<1>2. CASE below # {}
  <2>1. below \in SUBSET Nat
    BY DEF Places
  <2>2. \E x \in below : \A y \in below : x <= y
    <3> HIDE DEF below
    <3> QED BY <1>2, <2>1, LeastOf
  <2>3. Min(below) \in below
    <3> HIDE DEF below
    <3> QED BY <2>2 DEF Min
  <2>4. NextBelow(p, S) = stack[Min(below)]
    BY <1>2 DEF NextBelow
  <2>5. Min(below) \in Places /\ stack[Min(below)] \in S
    BY <2>3
  <2> HIDE DEF below
  <2> QED BY <2>4, <2>5 DEF InTree
<1> QED BY <1>1, <1>2

(* When the window right below one is among those that count, it is the    *)
(* next of them; and if there is none below, there is none that counts.    *)
LEMMA NextBelowAdjacent ==
  ASSUME stack \in Seq(Ptr), NEW p, NEW S,
         NextBelow(p, InTree) \in S \cup {Null}
  PROVE  NextBelow(p, S) = NextBelow(p, InTree)
<1> DEFINE all == {n \in Places : n > Place(p) /\ stack[n] \in InTree}
           some == {n \in Places : n > Place(p) /\ stack[n] \in S}
<1>1. some \subseteq all
  BY DEF InTree
<1>2. CASE all = {}
  BY <1>1, <1>2 DEF NextBelow
<1>3. CASE all # {}
  <2>1. all \in SUBSET Nat /\ \A n \in all : stack[n] \in Ptr
    BY DEF Places
  <2>2. \E x \in all : \A y \in all : x <= y
    <3> HIDE DEF all
    <3> QED BY <1>3, <2>1, LeastOf
  <2>3. Min(all) \in all /\ \A y \in all : Min(all) <= y
    <3> HIDE DEF all
    <3> QED BY <2>2 DEF Min
  <2>4. NextBelow(p, InTree) = stack[Min(all)]
    BY <1>3 DEF NextBelow
  <2>5. stack[Min(all)] \in S
    BY <2>1, <2>3, <2>4, NullAssumption
  <2>6. Min(all) \in some
    <3> HIDE DEF all
    <3> QED BY <2>3, <2>5 DEF all
  <2>7. Min(some) = Min(all)
    <3>1. \A y \in some : Min(all) <= y
      BY <1>1, <2>3
    <3>2. some \in SUBSET Nat
      BY <1>1, <2>1
    <3>3. Min(all) \in Nat
      BY <2>1, <2>3
    <3> DEFINE m == Min(all)
    <3>4. m \in some /\ (\A y \in some : m <= y) /\ some \in SUBSET Nat
      BY <2>6, <3>1, <3>2
    <3> HIDE DEF some, m
    <3>6. Min(some) \in some /\ \A y \in some : Min(some) <= y
      BY <3>4 DEF Min
    <3>7. Min(some) <= m /\ m <= Min(some)
      BY <3>4, <3>6
    <3>8. Min(some) \in Nat /\ m \in Nat
      BY <3>4, <3>6
    <3>9. Min(some) = m
      BY <3>7, <3>8
    <3> QED BY <3>9 DEF m
  <2>8. NextBelow(p, S) = stack[Min(some)]
    <3>1. some # {}
      BY <2>6
    <3> QED BY <3>1 DEF NextBelow
  <2> QED BY <2>4, <2>7, <2>8
<1> QED BY <1>2, <1>3

(* What the community modules' RemoveAt and InsertAt return.               *)
LEMMA RemoveAtIs ==
  ASSUME NEW X, NEW s \in Seq(X), NEW n \in 1 .. Len(s)
  PROVE  /\ RemoveAt(s, n) \in Seq(X)
         /\ Len(RemoveAt(s, n)) = Len(s) - 1
         /\ \A k \in 1 .. Len(s) - 1 :
              RemoveAt(s, n)[k] = IF k < n THEN s[k] ELSE s[k + 1]
<1> DEFINE a == SubSeq(s, 1, n - 1)
           b == SubSeq(s, n + 1, Len(s))
<1>1. Len(s) \in Nat /\ n \in Nat /\ n <= Len(s) /\ 1 <= n
  BY LenProperties
<1>2. /\ a \in Seq(X) /\ b \in Seq(X)
      /\ Len(a) = n - 1 /\ Len(b) = Len(s) - n
      /\ \A k \in 1 .. n - 1 : a[k] = s[k]
      /\ \A k \in 1 .. Len(s) - n : b[k] = s[n + k]
  OBVIOUS
<1>3. RemoveAt(s, n) = a \o b
  BY DEF RemoveAt
<1> HIDE DEF a, b
<1>4. /\ a \o b \in Seq(X) /\ Len(a \o b) = Len(a) + Len(b)
      /\ \A k \in 1 .. Len(a) + Len(b) :
           (a \o b)[k] = IF k <= Len(a) THEN a[k] ELSE b[k - Len(a)]
  BY <1>2, ConcatProperties
<1> QED BY <1>1, <1>2, <1>3, <1>4

LEMMA InsertAtIs ==
  ASSUME NEW X, NEW s \in Seq(X), NEW n \in 1 .. Len(s) + 1, NEW x \in X
  PROVE  /\ InsertAt(s, n, x) \in Seq(X)
         /\ Len(InsertAt(s, n, x)) = Len(s) + 1
         /\ \A k \in 1 .. Len(s) + 1 :
              InsertAt(s, n, x)[k] = IF k < n THEN s[k]
                                     ELSE IF k = n THEN x ELSE s[k - 1]
<1> DEFINE a == SubSeq(s, 1, n - 1)
           b == SubSeq(s, n, Len(s))
           c == a \o <<x>>
<1>1. Len(s) \in Nat /\ n \in Nat /\ n <= Len(s) + 1 /\ 1 <= n
  BY LenProperties
<1>2. /\ a \in Seq(X) /\ b \in Seq(X)
      /\ Len(a) = n - 1 /\ Len(b) = Len(s) - n + 1
      /\ \A k \in 1 .. n - 1 : a[k] = s[k]
      /\ \A k \in 1 .. Len(s) - n + 1 : b[k] = s[n + k - 1]
  OBVIOUS
<1>3. InsertAt(s, n, x) = c \o b
  BY DEF InsertAt
<1> HIDE DEF a, b
<1>4. <<x>> \in Seq(X) /\ Len(<<x>>) = 1 /\ <<x>>[1] = x
  OBVIOUS
<1>5. /\ c \in Seq(X) /\ Len(c) = Len(a) + 1
      /\ \A k \in 1 .. Len(a) + 1 :
           c[k] = IF k <= Len(a) THEN a[k] ELSE <<x>>[k - Len(a)]
  BY <1>2, <1>4, ConcatProperties
<1>6. Len(c) = n /\ \A k \in 1 .. n : c[k] = IF k < n THEN s[k] ELSE x
  BY <1>1, <1>2, <1>4, <1>5
<1> HIDE DEF c
<1>7. /\ c \o b \in Seq(X) /\ Len(c \o b) = Len(c) + Len(b)
      /\ \A k \in 1 .. Len(c) + Len(b) :
           (c \o b)[k] = IF k <= Len(c) THEN c[k] ELSE b[k - Len(c)]
  BY <1>2, <1>5, ConcatProperties
<1> QED BY <1>1, <1>2, <1>3, <1>6, <1>7

(* No element comes twice.                                                 *)
Distinct(s) == \A m, n \in DOMAIN s : s[m] = s[n] => m = n

(* Every window is once in the stack, and has an id of its own.            *)
TreeShape ==
  /\ stack \in Seq(Ptr) /\ Distinct(stack)
  /\ win \in [Ptr -> [id : Ids, shown : BOOLEAN, geom : Geom]]
  /\ \A p \in InTree : win[p].id \in Id
  /\ \A p, q \in InTree : win[p].id = win[q].id => p = q

(* What the shape of the stack gives: Place finds its window.              *)
LEMMA StackFacts ==
  ASSUME stack \in Seq(Ptr)
  PROVE  /\ Len(stack) \in Nat /\ Places = 1 .. Len(stack)
         /\ \A n \in Places : stack[n] \in Ptr
         /\ InTree \subseteq Ptr
         /\ \A p \in InTree : Place(p) \in Places /\ stack[Place(p)] = p
<1>1. ASSUME NEW p \in InTree
      PROVE  Place(p) \in Places /\ stack[Place(p)] = p
  <2>1. \E n \in Places : stack[n] = p
    BY DEF InTree
  <2> QED BY <2>1 DEF Place
<1> QED BY <1>1, LenProperties DEF Places, InTree

(* The stack without a window has all the others, each once.               *)
LEMMA WithoutWindowIs ==
  ASSUME stack \in Seq(Ptr), Distinct(stack), NEW p \in InTree
  PROVE  /\ WithoutWindow(p) \in Seq(Ptr)
         /\ Len(WithoutWindow(p)) = Len(stack) - 1
         /\ Distinct(WithoutWindow(p))
         /\ \A q : (\E n \in DOMAIN WithoutWindow(p) : WithoutWindow(p)[n] = q)
                     <=> q \in InTree \ {p}
<1> DEFINE m == Place(p)
           r == WithoutWindow(p)
           l == Len(stack)
<1>1. /\ l \in Nat /\ Places = 1 .. l /\ DOMAIN stack = 1 .. l
      /\ m \in 1 .. l /\ stack[m] = p
      /\ \A j, k \in 1 .. l : stack[j] = stack[k] => j = k
  BY StackFacts DEF Distinct, Places
<1>2. r \in Seq(Ptr) /\ Len(r) = l - 1
  BY <1>1, RemoveAtIs DEF WithoutWindow
<1>4. \A k \in 1 .. l - 1 : r[k] = IF k < m THEN stack[k] ELSE stack[k + 1]
  BY <1>1, RemoveAtIs DEF WithoutWindow
<1> HIDE DEF r, m
<1>3. Len(r) = l - 1 /\ DOMAIN r = 1 .. l - 1
  BY <1>2, LenProperties
<1> HIDE DEF l
<1>5. Distinct(r)
  <2> SUFFICES ASSUME NEW j \in 1 .. l - 1, NEW k \in 1 .. l - 1, r[j] = r[k]
               PROVE  j = k
    BY <1>3 DEF Distinct
  <2> QED BY <1>1, <1>4
<1>6. ASSUME NEW n \in 1 .. l - 1 PROVE r[n] \in InTree \ {p}
  <2>1. \A k \in 1 .. l : k # m => stack[k] \in InTree \ {p}
    BY <1>1 DEF InTree
  <2> QED BY <1>1, <1>4, <2>1
<1>7. ASSUME NEW q \in InTree \ {p} PROVE \E n \in 1 .. l - 1 : r[n] = q
  <2>1. PICK k \in 1 .. l : stack[k] = q
    BY <1>1 DEF InTree
  <2>2. CASE k < m
    BY <1>1, <1>4, <2>1, <2>2
  <2>3. CASE k > m
    <3>1. k - 1 \in 1 .. l - 1 /\ ~ (k - 1 < m) /\ (k - 1) + 1 = k
      BY <1>1, <2>3
    <3> QED BY <1>4, <2>1, <3>1
  <2> QED BY <1>1, <2>1, <2>2, <2>3
<1> QED BY <1>2, <1>3, <1>5, <1>6, <1>7 DEF r, l

(* MoveWindowInStack loses and doubles no window.                          *)
LEMMA RestackedIs ==
  ASSUME stack \in Seq(Ptr), Distinct(stack), NEW p \in InTree,
         NEW sib \in (InTree \ {p}) \cup {Null}
  PROVE  /\ Restacked(p, sib) \in Seq(Ptr)
         /\ Distinct(Restacked(p, sib))
         /\ {Restacked(p, sib)[n] : n \in DOMAIN Restacked(p, sib)} = InTree
<1> DEFINE rest == WithoutWindow(p)
           l == Len(rest)
           n == IF sib = Null THEN Len(stack)
                ELSE CHOOSE k \in DOMAIN rest : rest[k] = sib
           r == Restacked(p, sib)
<1>1. /\ rest \in Seq(Ptr) /\ Distinct(rest) /\ l = Len(stack) - 1
      /\ \A q : (\E k \in DOMAIN rest : rest[k] = q) <=> q \in InTree \ {p}
  BY WithoutWindowIs
<1>2. l \in Nat /\ DOMAIN rest = 1 .. l /\ Len(stack) = l + 1 /\ p \in Ptr
  BY <1>1, StackFacts, LenProperties
<1>3. n \in 1 .. l + 1
  <2>1. CASE sib = Null
    BY <1>2, <2>1
  <2>2. CASE sib # Null
    <3>1. \E k \in DOMAIN rest : rest[k] = sib
      BY <1>1, <2>2
    <3>2. n \in DOMAIN rest
      BY <3>1, <2>2
    <3> QED BY <3>2, <1>2
  <2> QED BY <2>1, <2>2
<1>4. r = InsertAt(rest, n, p)
  BY DEF Restacked
<1> HIDE DEF n, r, rest
<1>5. r \in Seq(Ptr) /\ Len(r) = l + 1
  BY <1>1, <1>2, <1>3, <1>4, InsertAtIs
<1>8. \A k \in 1 .. l + 1 : r[k] = IF k < n THEN rest[k]
                                   ELSE IF k = n THEN p ELSE rest[k - 1]
  <2>1. rest \in Seq(Ptr) /\ n \in 1 .. Len(rest) + 1 /\ p \in Ptr
    BY <1>1, <1>2, <1>3
  <2>2. \A k \in 1 .. Len(rest) + 1 :
          InsertAt(rest, n, p)[k] = IF k < n THEN rest[k]
                                    ELSE IF k = n THEN p ELSE rest[k - 1]
    BY <2>1, InsertAtIs
  <2> QED BY <2>2, <1>4
<1>6. /\ \A j, k \in 1 .. l : rest[j] = rest[k] => j = k
      /\ \A k \in 1 .. l : rest[k] # p /\ rest[k] \in InTree
  BY <1>1, <1>2 DEF Distinct
<1> HIDE DEF l
<1>7. DOMAIN r = 1 .. l + 1
  BY <1>2, <1>5, LenProperties
<1>9. Distinct(r)
  <2> SUFFICES ASSUME NEW j \in 1 .. l + 1, NEW k \in 1 .. l + 1, r[j] = r[k]
               PROVE  j = k
    BY <1>7 DEF Distinct
  <2>1. \A i \in 1 .. l + 1 : \/ i < n /\ i \in 1 .. l
                              \/ i = n
                              \/ i > n /\ i - 1 \in 1 .. l
    BY <1>2, <1>3
  <2> QED BY <1>2, <1>3, <1>6, <1>8, <2>1
<1>10. ASSUME NEW k \in 1 .. l + 1 PROVE r[k] \in InTree
  <2>1. \/ k < n /\ k \in 1 .. l
        \/ k = n
        \/ ~ (k < n) /\ k # n /\ k - 1 \in 1 .. l
    BY <1>2, <1>3
  <2> QED BY <1>6, <1>8, <2>1
<1>11. ASSUME NEW q \in InTree PROVE \E k \in 1 .. l + 1 : r[k] = q
  <2>1. CASE q = p
    BY <1>3, <1>8, <2>1
  <2>2. CASE q # p
    <3>1. PICK k \in 1 .. l : rest[k] = q
      BY <1>1, <1>2, <2>2
    <3>2. CASE k < n
      BY <1>2, <1>8, <3>1, <3>2
    <3>3. CASE ~ (k < n)
      <4>1. k + 1 \in 1 .. l + 1 /\ ~ (k + 1 < n) /\ k + 1 # n
            /\ (k + 1) - 1 = k
        BY <1>2, <1>3, <3>3
      <4> QED BY <1>8, <3>1, <4>1
    <3> QED BY <3>2, <3>3
  <2> QED BY <2>1, <2>2
<1> QED BY <1>5, <1>7, <1>9, <1>10, <1>11 DEF r

(* No window has two entries.                                              *)
ListShape ==
  /\ list \in Seq(Entries)
  /\ \A m, n \in DOMAIN list : list[m].ptr = list[n].ptr => m = n

(* What the shape of the list gives.                                       *)
LEMMA ListFacts ==
  ASSUME ListShape
  PROVE  /\ Len(list) \in Nat /\ DOMAIN list = 1 .. Len(list)
         /\ \A n \in DOMAIN list : list[n] \in Entries
         /\ Listed \subseteq Ptr
<1>1. list \in Seq(Entries)
  BY DEF ListShape
<1>2. /\ Len(list) \in Nat /\ DOMAIN list = 1 .. Len(list)
      /\ \A n \in 1 .. Len(list) : list[n] \in Entries
  BY <1>1, LenProperties, ElementOfSeq
<1>3. \A e \in Entries : e.ptr \in Ptr
  BY DEF Entries
<1> QED BY <1>2, <1>3 DEF Listed

LEMMA IdOfIs ==
  ASSUME TreeShape, NEW p \in Ptr \cup {Null}
  PROVE  IdOf(p) \in Ids
BY DEF TreeShape, IdOf, Ids

LEMMA EntryIs ==
  ASSUME NEW p \in Ptr, NEW i \in Id, NEW st \in States, NEW g \in Geom,
         NEW b \in Ptr \cup {Null}, NEW c \in Ids
  PROVE  [ptr |-> p, id |-> i, state |-> st, geom |-> g, sib |-> b,
          sibId |-> c] \in Entries
BY DEF Entries

(* An entry brought up to date by the check.                               *)
LEMMA FilledIs ==
  ASSUME TreeShape, NEW p \in InTree, NEW st \in States
  PROVE  Filled(p, st) \in Entries
<1>1. NextSib(p) \in Ptr \cup {Null}
  BY NextBelowIsThere, StackFacts DEF NextSib, TreeShape
<1>2. IdOf(NextSib(p)) \in Ids
  BY <1>1, IdOfIs
<1>3. p \in Ptr /\ win[p].id \in Id /\ win[p].geom \in Geom
  BY StackFacts DEF TreeShape
<1> QED BY <1>1, <1>2, <1>3, EntryIs DEF Filled

LEMMA NewEntryIs ==
  ASSUME TreeShape, NEW p \in InTree
  PROVE  NewEntry(p) \in Entries
BY FilledIs DEF NewEntry, States

LEMMA FoundIs ==
  ASSUME TreeShape, NEW e \in Entries, e.ptr \in InTree
  PROVE  Found(e) \in Entries
<1> DEFINE st == IF Differs(e) THEN "CHANGED" ELSE e.state
<1>1. st \in States
  BY DEF States, Entries
<1> HIDE DEF st
<1>2. Filled(e.ptr, st) \in Entries
  BY <1>1, FilledIs
<1> QED BY <1>2 DEF Found, st

LEMMA NotFoundIs ==
  ASSUME NEW e \in Entries
  PROVE  /\ NotFound(e) \in Entries
         /\ NotFound(e) = [ptr |-> e.ptr, id |-> e.id, state |-> "WDEL",
                           geom |-> e.geom, sib |-> e.sib, sibId |-> e.sibId]
BY DEF NotFound, Entries, States

(* What a check makes of an entry.                                         *)
Checked(e) == IF e.ptr \in Shown THEN Found(e) ELSE NotFound(e)

(* The list after a check: an entry for each window that is shown and had  *)
(* none, and then what was made of each entry.                             *)
LEMMA CheckedListIs ==
  ASSUME TreeShape, ListShape
  PROVE  \E M \in Nat : \E f \in [1 .. M -> (Shown \ Listed)] :
           /\ CheckedList \in Seq(Entries)
           /\ Len(CheckedList) = M + Len(list)
           /\ DOMAIN CheckedList = 1 .. M + Len(list)
           /\ \A k, l \in 1 .. M : f[k] = f[l] => k = l
           /\ \A p \in Shown \ Listed : \E k \in 1 .. M : f[k] = p
           /\ \A k \in 1 .. M : CheckedList[k] = NewEntry(f[k])
           /\ \A n \in 1 .. Len(list) : CheckedList[M + n] = Checked(list[n])
<1> DEFINE I == {n \in Places : stack[n] \in Shown \ Listed}
           new == Part(stack, I)
<1>1. /\ Len(stack) \in Nat /\ Places = 1 .. Len(stack)
      /\ \A n \in Places : stack[n] \in Ptr
      /\ \A m, n \in Places : stack[m] = stack[n] => m = n
      /\ Shown \subseteq InTree /\ InTree \subseteq Ptr
  BY StackFacts DEF TreeShape, Distinct, Places, Shown
<1>2. I \in SUBSET (1 .. Len(stack))
  BY <1>1
<1> DEFINE M == Len(new)
<1> HIDE DEF I
<1>3. new \in Seq(Ptr)
  BY <1>1, <1>2, PartIs DEF TreeShape, Places
<1>a. \E h \in [1 .. M -> I] :
        /\ \A k \in 1 .. M : new[k] = stack[h[k]]
        /\ \A k, l \in 1 .. M : h[k] = h[l] => k = l
        /\ \A n \in I : \E k \in 1 .. M : h[k] = n
  <2>1. stack \in Seq(Ptr) /\ I \in SUBSET DOMAIN stack
    BY <1>1, <1>2 DEF TreeShape, Places
  <2> QED BY <2>1, PartIs
<1> HIDE DEF new
<1>b. PICK g \in [1 .. M -> I] :
        /\ \A k \in 1 .. M : new[k] = stack[g[k]]
        /\ \A k, l \in 1 .. M : g[k] = g[l] => k = l
        /\ \A n \in I : \E k \in 1 .. M : g[k] = n
  BY <1>a
<1>c. M \in Nat /\ DOMAIN new = 1 .. M
  BY <1>3, LenProperties
<1> HIDE DEF M
<1>4. /\ \A n \in I : n \in Places /\ stack[n] \in Shown \ Listed
      /\ \A p \in Shown \ Listed : \E n \in I : stack[n] = p
  BY DEF I, Shown, InTree
<1> DEFINE f == [k \in 1 .. M |-> stack[g[M - k + 1]]]
           a == Reverse([n \in DOMAIN new |-> NewEntry(new[n])])
           b == [n \in DOMAIN list |-> Checked(list[n])]
<1>5. \A k \in 1 .. M : g[k] \in I
  OBVIOUS
<1>6. \A k \in 1 .. M : M - k + 1 \in 1 .. M /\ M - (M - k + 1) + 1 = k
  BY <1>c
<1>7. f \in [1 .. M -> (Shown \ Listed)]
  BY <1>4, <1>5, <1>6
<1>8. \A k, l \in 1 .. M : f[k] = f[l] => k = l
  <2> SUFFICES ASSUME NEW k \in 1 .. M, NEW l \in 1 .. M, f[k] = f[l]
               PROVE  k = l
    OBVIOUS
  <2>1. g[M - k + 1] = g[M - l + 1]
    BY <1>1, <1>4, <1>5, <1>6
  <2>2. M - k + 1 = M - l + 1
    BY <1>b, <1>6, <2>1
  <2> QED BY <1>c, <2>2
<1>9. \A p \in Shown \ Listed : \E k \in 1 .. M : f[k] = p
  <2> SUFFICES ASSUME NEW p \in Shown \ Listed
               PROVE  \E k \in 1 .. M : f[k] = p
    OBVIOUS
  <2>1. PICK n \in I : stack[n] = p
    BY <1>4
  <2>2. PICK l \in 1 .. M : g[l] = n
    BY <1>b
  <2>3. f[M - l + 1] = p
    BY <1>6, <2>1, <2>2
  <2> QED BY <1>6, <2>3
<1>10. /\ a \in Seq(Entries) /\ Len(a) = M
       /\ \A k \in 1 .. M : a[k] = NewEntry(f[k])
  <2> DEFINE c == [n \in DOMAIN new |-> NewEntry(new[n])]
  <2>1. DOMAIN new = 1 .. M /\ \A k \in 1 .. M : new[k] = stack[g[k]]
    BY <1>b, <1>c
  <2>2. c = [n \in 1 .. M |-> NewEntry(stack[g[n]])]
    BY <2>1
  <2>3. Len(c) = M
    BY <1>c, <2>2
  <2>4. a = [k \in 1 .. M |-> c[M - k + 1]]
    BY <2>3 DEF Reverse
  <2>5. \A k \in 1 .. M : c[M - k + 1] = NewEntry(f[k])
    BY <1>6, <2>2
  <2>6. \A k \in 1 .. M : f[k] \in InTree
    BY <1>1, <1>7
  <2>7. \A k \in 1 .. M : c[M - k + 1] \in Entries
    BY <2>5, <2>6, NewEntryIs
  <2> HIDE DEF c, f
  <2>8. a \in Seq(Entries) /\ Len(a) = M
    BY <1>c, <2>4, <2>7
  <2> QED BY <2>4, <2>5, <2>8
<1>11. /\ b \in Seq(Entries) /\ Len(b) = Len(list)
       /\ \A n \in 1 .. Len(list) : b[n] = Checked(list[n])
  <2>1. Len(list) \in Nat /\ DOMAIN list = 1 .. Len(list)
    BY ListFacts
  <2>2. \A n \in 1 .. Len(list) : Checked(list[n]) \in Entries
    BY <1>1, <2>1, ListFacts, FoundIs, NotFoundIs DEF Checked
  <2> QED BY <2>1, <2>2
<1>12. CheckedList = a \o b
  BY DEF CheckedList, I, new, Checked, Places
<1> HIDE DEF f, a, b
<1>d. Len(list) \in Nat
  BY ListFacts
<1>13. /\ a \o b \in Seq(Entries) /\ Len(a \o b) = M + Len(list)
       /\ \A k \in 1 .. M + Len(list) :
            (a \o b)[k] = IF k <= M THEN a[k] ELSE b[k - M]
  BY <1>10, <1>11, ConcatProperties
<1>14. DOMAIN (a \o b) = 1 .. M + Len(list)
  BY <1>13, LenProperties
<1>15. \A k \in 1 .. M : (a \o b)[k] = NewEntry(f[k])
  BY <1>c, <1>d, <1>10, <1>13
<1>16. \A n \in 1 .. Len(list) : (a \o b)[M + n] = Checked(list[n])
  <2> TAKE n \in 1 .. Len(list)
  <2>1. M + n \in 1 .. M + Len(list) /\ ~ (M + n <= M) /\ (M + n) - M = n
    BY <1>c, <1>d
  <2> QED BY <1>11, <1>13, <2>1
<1> QED BY <1>c, <1>7, <1>8, <1>9, <1>12, <1>13, <1>14, <1>15, <1>16

(* The messages of an update.                                              *)
Messages == [id : Id, deleted : BOOLEAN, info : Info]

(* One message for every entry that is marked, and none besides.           *)
LEMMA UpdatesIs ==
  ASSUME ListShape
  PROVE  /\ Updates \in Seq(Messages)
         /\ \A k \in DOMAIN Updates :
              \E n \in Pending(list) : Updates[k] = Message(list[n])
         /\ \A n \in Pending(list) :
              \E k \in DOMAIN Updates : Updates[k] = Message(list[n])
<1> DEFINE I == Pending(list)
           told == Part(list, I)
           M == Len(told)
<1>1. list \in Seq(Entries) /\ I \in SUBSET DOMAIN list
  BY DEF ListShape, Pending
<1>2. \A e \in Entries : Message(e) \in Messages
  BY DEF Message, Messages, Entries, Info, Ids
<1>3. Updates = [n \in DOMAIN told |-> Message(told[n])]
  BY DEF Updates
<1> HIDE DEF I
<1>4. told \in Seq(Entries)
  BY <1>1, PartIs
<1>5. \E h \in [1 .. M -> I] :
        /\ \A k \in 1 .. M : told[k] = list[h[k]]
        /\ \A k, l \in 1 .. M : h[k] = h[l] => k = l
        /\ \A n \in I : \E k \in 1 .. M : h[k] = n
  BY <1>1, PartIs
<1> HIDE DEF told
<1>6. PICK f \in [1 .. M -> I] :
        /\ \A k \in 1 .. M : told[k] = list[f[k]]
        /\ \A n \in I : \E k \in 1 .. M : f[k] = n
  BY <1>5
<1>7. M \in Nat /\ DOMAIN told = 1 .. M /\ \A k \in 1 .. M : told[k] \in Entries
  BY <1>4, LenProperties, ElementOfSeq
<1> HIDE DEF M
<1>8. Updates = [n \in 1 .. M |-> Message(told[n])]
  BY <1>3, <1>7
<1>9. Updates \in Seq(Messages)
  BY <1>2, <1>7, <1>8
<1>10. \A k \in 1 .. M : Updates[k] = Message(list[f[k]]) /\ f[k] \in I
  BY <1>6, <1>8
<1>11. DOMAIN Updates = 1 .. M
  BY <1>8
<1> QED BY <1>6, <1>9, <1>10, <1>11 DEF I

(* The list goes on with the entries that are not marked WDEL, no longer   *)
(* marked.                                                                 *)
LEMMA RemainingIs ==
  ASSUME ListShape
  PROVE  /\ Remaining \in Seq(Entries)
         /\ DOMAIN Remaining = 1 .. Len(Remaining)
         /\ \E f \in [1 .. Len(Remaining) -> DOMAIN list] :
              /\ \A k, l \in 1 .. Len(Remaining) : f[k] = f[l] => k = l
              /\ \A k \in 1 .. Len(Remaining) :
                   /\ list[f[k]].state # "WDEL"
                   /\ Remaining[k] = [list[f[k]] EXCEPT !.state = "UNCHANGED"]
              /\ \A n \in DOMAIN list : list[n].state # "WDEL" =>
                   \E k \in 1 .. Len(Remaining) : f[k] = n
<1> DEFINE I == {n \in DOMAIN list : Survives(list[n])}
           kept == Part(list, I)
           M == Len(kept)
<1>1. list \in Seq(Entries) /\ I \in SUBSET DOMAIN list
  BY DEF ListShape
<1>2. \A e \in Entries : [e EXCEPT !.state = "UNCHANGED"] \in Entries
  BY DEF Entries, States
<1>3. Remaining = [n \in DOMAIN kept |-> [kept[n] EXCEPT !.state = "UNCHANGED"]]
  BY DEF Remaining
<1>4. \A n \in DOMAIN list : n \in I <=> list[n].state # "WDEL"
  BY DEF Survives
<1> HIDE DEF I
<1>5. kept \in Seq(Entries)
  BY <1>1, PartIs
<1>6. \E h \in [1 .. M -> I] :
        /\ \A k \in 1 .. M : kept[k] = list[h[k]]
        /\ \A k, l \in 1 .. M : h[k] = h[l] => k = l
        /\ \A n \in I : \E k \in 1 .. M : h[k] = n
  BY <1>1, PartIs
<1> HIDE DEF kept
<1>7. PICK f \in [1 .. M -> I] :
        /\ \A k \in 1 .. M : kept[k] = list[f[k]]
        /\ \A k, l \in 1 .. M : f[k] = f[l] => k = l
        /\ \A n \in I : \E k \in 1 .. M : f[k] = n
  BY <1>6
<1>8. M \in Nat /\ DOMAIN kept = 1 .. M /\ \A k \in 1 .. M : kept[k] \in Entries
  BY <1>5, LenProperties, ElementOfSeq
<1> HIDE DEF M
<1>9. Remaining = [n \in 1 .. M |-> [kept[n] EXCEPT !.state = "UNCHANGED"]]
  BY <1>3, <1>8
<1>10. /\ Remaining \in Seq(Entries) /\ Len(Remaining) = M
       /\ DOMAIN Remaining = 1 .. M
  BY <1>2, <1>8, <1>9
<1>11. f \in [1 .. Len(Remaining) -> DOMAIN list]
  BY <1>1, <1>10
<1>12. \A k \in 1 .. M :
         /\ list[f[k]].state # "WDEL"
         /\ Remaining[k] = [list[f[k]] EXCEPT !.state = "UNCHANGED"]
  <2> TAKE k \in 1 .. M
  <2>1. f[k] \in I
    OBVIOUS
  <2>2. kept[k] = list[f[k]]
    BY <1>7
  <2>3. Remaining[k] = [kept[k] EXCEPT !.state = "UNCHANGED"]
    BY <1>9
  <2> QED BY <1>1, <1>4, <2>1, <2>2, <2>3
<1> QED BY <1>4, <1>7, <1>10, <1>11, <1>12

(* What the client has after it read some messages: of a window it was     *)
(* told about, what one of the messages says, and of any other what it had.*)
LEMMA AppliedIs ==
  ASSUME NEW w \in [Id -> Info \cup {Null}], NEW msgs \in Seq(Messages)
  PROVE  /\ Applied(w, msgs) \in [Id -> Info \cup {Null}]
         /\ \A i \in Id :
              \/ /\ \A n \in DOMAIN msgs : msgs[n].id # i
                 /\ Applied(w, msgs)[i] = w[i]
              \/ \E n \in DOMAIN msgs :
                   /\ msgs[n].id = i
                   /\ Applied(w, msgs)[i] =
                        IF msgs[n].deleted THEN Null ELSE msgs[n].info
<1>1. /\ Len(msgs) \in Nat /\ DOMAIN msgs = 1 .. Len(msgs)
      /\ \A n \in DOMAIN msgs : msgs[n] \in Messages
  BY LenProperties, ElementOfSeq
<1> DEFINE about(i) == {n \in DOMAIN msgs : msgs[n].id = i}
           latest(i) == CHOOSE n \in about(i) : \A k \in about(i) : k <= n
<1>2. ASSUME NEW i \in Id, about(i) # {}
      PROVE  latest(i) \in about(i)
  <2> DEFINE T == {Len(msgs) - n : n \in about(i)}
  <2>1. about(i) \subseteq 1 .. Len(msgs)
    BY <1>1
  <2>2. T \in SUBSET Nat /\ T # {}
    BY <1>1, <1>2, <2>1
  <2>3. PICK x \in T : \A y \in T : x <= y
    <3> HIDE DEF T
    <3> QED BY <2>2, LeastOf
  <2>4. PICK m \in about(i) : x = Len(msgs) - m
    OBVIOUS
  <2>5. ASSUME NEW k \in about(i) PROVE k <= m
    <3>1. Len(msgs) - k \in T
      OBVIOUS
    <3>2. Len(msgs) - m <= Len(msgs) - k
      BY <2>3, <2>4, <3>1
    <3>3. k \in Int /\ m \in Int
      BY <2>1
    <3> HIDE DEF about, T
    <3> QED BY <1>1, <3>2, <3>3
  <2> HIDE DEF about
  <2> QED BY <2>4, <2>5
<1>3. Applied(w, msgs) =
        [i \in Id |-> IF about(i) = {} THEN w[i]
                      ELSE IF msgs[latest(i)].deleted THEN Null
                      ELSE msgs[latest(i)].info]
  BY DEF Applied
<1> HIDE DEF latest
<1>4. ASSUME NEW i \in Id
      PROVE  \/ /\ \A n \in DOMAIN msgs : msgs[n].id # i
                /\ Applied(w, msgs)[i] = w[i]
             \/ \E n \in DOMAIN msgs :
                  /\ msgs[n].id = i
                  /\ Applied(w, msgs)[i] =
                       IF msgs[n].deleted THEN Null ELSE msgs[n].info
  <2>1. CASE about(i) = {}
    BY <1>3, <2>1
  <2>2. CASE about(i) # {}
    <3>1. latest(i) \in DOMAIN msgs /\ msgs[latest(i)].id = i
      BY <1>2, <2>2
    <3>2. Applied(w, msgs)[i] = IF msgs[latest(i)].deleted THEN Null
                                ELSE msgs[latest(i)].info
      BY <1>3, <2>2
    <3> QED BY <3>1, <3>2
  <2> QED BY <2>1, <2>2
<1>5. \A n \in DOMAIN msgs : msgs[n].info \in Info
  BY <1>1 DEF Messages
<1>6. \A i \in Id : Applied(w, msgs)[i] \in Info \cup {Null}
  BY <1>4, <1>5
<1>7. Applied(w, msgs) \in [Id -> Info \cup {Null}]
  <2> DEFINE a == Applied(w, msgs)
  <2>1. a = [i \in Id |-> a[i]]
    BY <1>3
  <2> HIDE DEF a
  <2> QED BY <1>6, <2>1 DEF a
<1> QED BY <1>4, <1>7

-----------------------------------------------------------------------------
(* The shape of the state.                                                 *)

(* What the threads, the connection and the client hold.                   *)
ThreadShape ==
  /\ updated \in BOOLEAN /\ connected \in BOOLEAN /\ rebuilt \in BOOLEAN
  /\ recycled \in BOOLEAN /\ crossed \in BOOLEAN /\ overlap \in BOOLEAN
  /\ main \in [pc : {"idle", "focus"}, ptr : Ptr \cup {Null},
               deleted : BOOLEAN]
  /\ spc \in [Senders -> {"none", "top", "serve", "sending", "rebuild",
                          "reinit", "clean", "exit"}]
  /\ hand \in [Senders -> Seq(Messages)]
  /\ \A s \in Senders : hand[s] # <<>> => spc[s] = "sending"
  /\ client \in [Id -> Info \cup {Null}]
  /\ request # Null => /\ request \in Requests
                       /\ request.kind = "change" => request.sib # request.id
  /\ changes \in 0 .. ChangeBound /\ settled \in 0 .. 2

Shape == TreeShape /\ ListShape /\ ThreadShape

(* The step of which actor a step is.                                      *)
LEMMA Steps ==
  ASSUME [Next]_vars
  PROVE  \/ \E p \in Ptr, i \in Id : CreateWindow(p, i)
         \/ \E p \in Ptr : DestroyWindow(p)
         \/ \E p \in Ptr : ShowOrHide(p)
         \/ \E p \in Ptr, g \in Geom : MoveWindow(p, g)
         \/ \E p \in Ptr : RaiseWindow(p)
         \/ CheckWindows
         \/ \E i \in Id, g \in Geom, sib \in Ids : ClientChanges(i, g, sib)
         \/ \E i \in Id : ClientIconifies(i)
         \/ Iconify
         \/ RefuseRequest
         \/ ChangeWindow
         \/ CompareFocus
         \/ Disconnect
         \/ \E s \in Senders : Accept(s)
         \/ RebuildCaches
         \/ \E s \in Senders : CheckConnected(s)
         \/ \E s \in Senders : ProcessUpdates(s)
         \/ \E s \in Senders : SendUpdates(s)
         \/ \E s \in Senders : TakeRebuild(s)
         \/ \E s \in Senders : SendReinit(s)
         \/ \E s \in Senders : CleanEverything(s)
         \/ UNCHANGED vars
BY DEF Next, XServer, MainStep, ClientStep, SenderStep, Ids

(* remote_find_window_on_screen_by_id finds a window of the screen.        *)
LEMMA WindowIs ==
  ASSUME TreeShape, NEW i
  PROVE  \/ Window(i) = Null
         \/ Window(i) \in InTree /\ win[Window(i)].id = i
<1>1. CASE WithId(i) = {}
  BY <1>1 DEF Window
<1>2. CASE WithId(i) # {}
  <2>1. Window(i) \in WithId(i)
    BY <1>2 DEF Window
  <2> QED BY <2>1 DEF WithId
<1> QED BY <1>1, <1>2

(* What a request writes into an entry.                                    *)
LEMMA TouchedIs ==
  ASSUME TreeShape, NEW e \in Entries, NEW b \in Ptr \cup {Null},
         NEW r \in BOOLEAN, request \in Requests
  PROVE  /\ Touched(e, b, r) \in Entries
         /\ Touched(e, b, r).ptr = e.ptr
         /\ Touched(e, b, r).id = e.id
         /\ Touched(e, b, r).state = e.state
         /\ Touched(e, b, r).geom = IF win[e.ptr].geom # request.geom
                                    THEN request.geom ELSE e.geom
         /\ Touched(e, b, r).sib = IF r THEN b ELSE e.sib
         /\ Touched(e, b, r).sibId = IF r THEN IdOf(b) ELSE e.sibId
<1> DEFINE g == IF win[e.ptr].geom # request.geom THEN request.geom ELSE e.geom
           m == [e EXCEPT !.geom = g]
           i == IdOf(b)
<1>1. g \in Geom /\ i \in Ids
  BY IdOfIs DEF Entries, Requests
<1>2. Touched(e, b, r) = IF r THEN [m EXCEPT !.sib = b, !.sibId = i] ELSE m
  BY DEF Touched
<1> HIDE DEF g, i
<1>3. /\ m \in Entries /\ m.ptr = e.ptr /\ m.id = e.id /\ m.state = e.state
      /\ m.geom = g /\ m.sib = e.sib /\ m.sibId = e.sibId
  BY <1>1 DEF Entries
<1> HIDE DEF m
<1>4. ASSUME NEW t, t = [m EXCEPT !.sib = b, !.sibId = i]
      PROVE  /\ t \in Entries /\ t.ptr = m.ptr /\ t.id = m.id
             /\ t.state = m.state /\ t.geom = m.geom /\ t.sib = b
             /\ t.sibId = i
  BY <1>1, <1>3, <1>4 DEF Entries
<1> QED BY <1>2, <1>3, <1>4 DEF g, i

(* client_win_change works on a window of the screen that has an entry.    *)
LEMMA ChangeWindowIs ==
  ASSUME Shape, ChangeWindow
  PROVE  \E p \in InTree \cap Listed :
         \E sib \in (InTree \ {p}) \cup {Null} :
           /\ request \in Requests /\ request.kind = "change"
           /\ win[p].id = request.id
           /\ request.sib = Null => sib = Null
           /\ list' = [n \in DOMAIN list |->
                         IF list[n].ptr = p
                         THEN Touched(list[n], sib, NextSibAny(p) # sib)
                         ELSE list[n]]
           /\ win' = [win EXCEPT ![p].geom = request.geom]
           /\ stack' = IF NextSibAny(p) # sib THEN Restacked(p, sib) ELSE stack
           /\ main' = [pc |-> "focus", ptr |-> p,
                       deleted |-> Entry(p).state = "WDEL"]
           /\ crossed' = (crossed \/ Crosses(Entry(p), sib))
<1> DEFINE p == Window(request.id)
           sib == IF request.sib = Null THEN Null ELSE Window(request.sib)
<1>1. /\ request # Null /\ request.kind = "change" /\ p \in Listed
      /\ list' = [n \in DOMAIN list |->
                    IF list[n].ptr = p
                    THEN Touched(list[n], sib, NextSibAny(p) # sib)
                    ELSE list[n]]
      /\ win' = [win EXCEPT ![p].geom = request.geom]
      /\ stack' = IF NextSibAny(p) # sib THEN Restacked(p, sib) ELSE stack
      /\ main' = [pc |-> "focus", ptr |-> p,
                  deleted |-> Entry(p).state = "WDEL"]
      /\ crossed' = (crossed \/ Crosses(Entry(p), sib))
  BY DEF ChangeWindow, HasRequest
<1>2. request \in Requests /\ request.sib # request.id
  BY <1>1 DEF Shape, ThreadShape
<1>3. p \in InTree /\ win[p].id = request.id
  <2>1. p # Null
    BY <1>1, ListFacts, NullAssumption DEF Shape
  <2> QED BY <2>1, WindowIs DEF Shape
<1>4. sib \in (InTree \ {p}) \cup {Null}
  BY <1>2, <1>3, WindowIs DEF Shape
<1>5. request.sib = Null => sib = Null
  OBVIOUS
<1> HIDE DEF p, sib
<1> QED BY <1>1, <1>2, <1>3, <1>4, <1>5

(* Windows leave the tree or stay, with their ids, or a new one comes.     *)
TreeGoesOn ==
  \/ InTree' \subseteq InTree /\ \A q \in InTree' : win'[q].id = win[q].id
  \/ \E p \in Ptr, i \in Id :
       /\ CreateWindow(p, i) /\ InTree' \subseteq InTree \cup {p}
       /\ win'[p].id = i /\ \A q \in InTree : win'[q].id = win[q].id

(* A step that restacks or moves windows keeps the tree's shape.           *)
LEMMA SameTree ==
  ASSUME TreeShape, stack' \in Seq(Ptr), Distinct(stack)', InTree' = InTree,
         win' \in [Ptr -> [id : Ids, shown : BOOLEAN, geom : Geom]],
         \A p \in InTree : win'[p].id = win[p].id
  PROVE  TreeShape' /\ TreeGoesOn
<1>1. /\ \A p \in InTree : win'[p].id \in Id
      /\ \A p, q \in InTree : win'[p].id = win'[q].id => p = q
  BY DEF TreeShape
<1>2. TreeShape'
  BY <1>1 DEF TreeShape
<1> QED BY <1>2 DEF TreeGoesOn

(* The tree keeps its shape whatever applications and the client do.       *)
LEMMA TreeShapeKept ==
  ASSUME Shape, [Next]_vars
  PROVE  TreeShape' /\ TreeGoesOn
<1> USE DEF Shape
<1>1. /\ stack \in Seq(Ptr) /\ Distinct(stack) /\ InTree \subseteq Ptr
      /\ win \in [Ptr -> [id : Ids, shown : BOOLEAN, geom : Geom]]
      /\ Places = 1 .. Len(stack) /\ Len(stack) \in Nat
      /\ DOMAIN stack = 1 .. Len(stack)
      /\ \A m, n \in 1 .. Len(stack) : stack[m] = stack[n] => m = n
  BY StackFacts DEF TreeShape, Places, Distinct
<1>2. ASSUME NEW p \in Ptr, NEW i \in Id, CreateWindow(p, i)
      PROVE  TreeShape' /\ TreeGoesOn
  <2>1. /\ stack' = <<p>> \o stack /\ p \notin InTree
        /\ \A q \in InTree : win[q].id # i
        /\ win' = [win EXCEPT ![p] = [NoWindow EXCEPT !.id = i,
                                                     !.shown = TRUE]]
    BY <1>2 DEF CreateWindow
  <2> DEFINE l == Len(stack)
             w == [NoWindow EXCEPT !.id = i, !.shown = TRUE]
  <2>2. /\ w.id = i /\ w \in [id : Ids, shown : BOOLEAN, geom : Geom]
    <3>1. (CHOOSE g \in Geom : TRUE) \in Geom
      BY GeomAssumption
    <3> QED BY <3>1 DEF NoWindow, Ids
  <2>a. win' = [win EXCEPT ![p] = w]
    BY <2>1
  <2> HIDE DEF w
  <2>3. /\ <<p>> \in Seq(Ptr) /\ Len(<<p>>) = 1 /\ <<p>>[1] = p
    OBVIOUS
  <2>4. /\ stack' \in Seq(Ptr) /\ Len(stack') = 1 + l
        /\ \A k \in 1 .. 1 + l :
             stack'[k] = IF k <= 1 THEN <<p>>[k] ELSE stack[k - 1]
    BY <1>1, <2>1, <2>3, ConcatProperties
  <2>5. DOMAIN stack' = 1 .. 1 + l
    BY <2>4, LenProperties
  <2>6. \A k \in 1 .. 1 + l :
          \/ k = 1 /\ stack'[k] = p
          \/ k - 1 \in 1 .. l /\ stack'[k] = stack[k - 1]
    BY <1>1, <2>3, <2>4
  <2>7. \A k \in 1 .. l : stack[k] \in InTree
    BY <1>1 DEF InTree
  <2>8. Distinct(stack)'
    <3> SUFFICES ASSUME NEW j \in 1 .. 1 + l, NEW k \in 1 .. 1 + l,
                        stack'[j] = stack'[k]
                 PROVE  j = k
      BY <2>5 DEF Distinct
    <3>1. CASE j = 1 /\ k = 1
      BY <3>1
    <3>2. CASE j # 1 /\ k # 1
      <4>1. j - 1 = k - 1
        BY <1>1, <2>6, <3>2
      <4> QED BY <1>1, <4>1
    <3> QED BY <2>1, <2>6, <2>7, <3>1, <3>2
  <2>9. InTree' \subseteq InTree \cup {p}
    BY <2>5, <2>6, <2>7 DEF InTree, Places
  <2>10. win' \in [Ptr -> [id : Ids, shown : BOOLEAN, geom : Geom]]
    BY <1>1, <2>a, <2>2
  <2>11. win'[p].id = i /\ \A q \in InTree : win'[q].id = win[q].id
    BY <1>1, <2>1, <2>a, <2>2
  <2>12. \A q \in InTree' : win'[q].id \in Id
    BY <2>9, <2>11 DEF TreeShape
  <2>13. \A q, r \in InTree' : win'[q].id = win'[r].id => q = r
    BY <2>1, <2>9, <2>11 DEF TreeShape
  <2>14. TreeGoesOn
    BY <1>2, <2>9, <2>11 DEF TreeGoesOn
  <2> QED BY <2>4, <2>8, <2>10, <2>12, <2>13, <2>14 DEF TreeShape
<1>3. ASSUME NEW p \in Ptr, DestroyWindow(p) PROVE TreeShape' /\ TreeGoesOn
  <2>1. /\ p \in InTree /\ stack' = WithoutWindow(p)
        /\ win' = [win EXCEPT ![p] = NoWindow]
    BY <1>3 DEF DestroyWindow
  <2>2. /\ stack' \in Seq(Ptr) /\ Distinct(stack)'
        /\ \A q : (\E n \in DOMAIN stack' : stack'[n] = q)
                    <=> q \in InTree \ {p}
    <3> DEFINE r == WithoutWindow(p)
    <3>1. /\ r \in Seq(Ptr) /\ Distinct(r)
          /\ \A q : (\E n \in DOMAIN r : r[n] = q) <=> q \in InTree \ {p}
      BY <1>1, <2>1, WithoutWindowIs
    <3>2. stack' = r
      BY <2>1
    <3> HIDE DEF r
    <3> QED BY <3>1, <3>2 DEF Distinct
  <2>3. InTree' = InTree \ {p}
    BY <2>2 DEF InTree, Places
  <2>4. NoWindow \in [id : Ids, shown : BOOLEAN, geom : Geom]
    <3>1. (CHOOSE g \in Geom : TRUE) \in Geom
      BY GeomAssumption
    <3> QED BY <3>1 DEF NoWindow, Ids
  <2>5. win' \in [Ptr -> [id : Ids, shown : BOOLEAN, geom : Geom]]
    BY <1>1, <2>1, <2>4
  <2>6. \A q \in InTree' : q \in InTree /\ win'[q].id = win[q].id
    BY <1>1, <2>1, <2>3
  <2>7. TreeGoesOn
    BY <2>6 DEF TreeGoesOn
  <2> QED BY <2>2, <2>5, <2>6, <2>7 DEF TreeShape
<1>4. ASSUME NEW p \in Ptr, ShowOrHide(p) PROVE TreeShape' /\ TreeGoesOn
  <2>1. stack' = stack /\ win' = [win EXCEPT ![p].shown = ~@]
    BY <1>4 DEF ShowOrHide
  <2>2. InTree' = InTree
    BY <2>1 DEF InTree, Places
  <2>3. \A q \in Ptr : win'[q].id = win[q].id
    BY <1>1, <2>1
  <2>4. win' \in [Ptr -> [id : Ids, shown : BOOLEAN, geom : Geom]]
    <3>1. [win[p] EXCEPT !.shown = ~@]
            \in [id : Ids, shown : BOOLEAN, geom : Geom]
      BY <1>1
    <3> QED BY <1>1, <2>1, <3>1
  <2> QED BY <1>1, <2>1, <2>2, <2>3, <2>4, SameTree DEF Distinct
<1>5. ASSUME NEW p \in Ptr, NEW g \in Geom, MoveWindow(p, g)
      PROVE  TreeShape' /\ TreeGoesOn
  <2>1. stack' = stack /\ win' = [win EXCEPT ![p].geom = g]
    BY <1>5 DEF MoveWindow
  <2>2. InTree' = InTree
    BY <2>1 DEF InTree, Places
  <2>3. /\ win' \in [Ptr -> [id : Ids, shown : BOOLEAN, geom : Geom]]
        /\ \A q \in Ptr : win'[q].id = win[q].id
    BY <1>1, <2>1
  <2> QED BY <1>1, <2>1, <2>2, <2>3, SameTree DEF Distinct
<1>6. ASSUME NEW p \in Ptr, RaiseWindow(p) PROVE TreeShape' /\ TreeGoesOn
  <2> DEFINE r == WithoutWindow(p)
             l == Len(r)
  <2>1. p \in InTree /\ stack' = <<p>> \o r /\ win' = win
    BY <1>6 DEF RaiseWindow
  <2>2. /\ r \in Seq(Ptr) /\ Distinct(r)
        /\ \A q : (\E n \in DOMAIN r : r[n] = q) <=> q \in InTree \ {p}
    BY <1>1, <2>1, WithoutWindowIs
  <2> HIDE DEF r
  <2>3. l \in Nat /\ DOMAIN r = 1 .. l
    BY <2>2, LenProperties
  <2>4. <<p>> \in Seq(Ptr) /\ Len(<<p>>) = 1 /\ <<p>>[1] = p
    OBVIOUS
  <2>5. /\ stack' \in Seq(Ptr) /\ Len(stack') = 1 + l
        /\ \A k \in 1 .. 1 + l :
             stack'[k] = IF k <= 1 THEN <<p>>[k] ELSE r[k - 1]
    BY <2>1, <2>2, <2>4, ConcatProperties
  <2>6. DOMAIN stack' = 1 .. 1 + l
    BY <2>5, LenProperties
  <2>7. \A k \in 1 .. 1 + l :
          \/ k = 1 /\ stack'[k] = p
          \/ k # 1 /\ k - 1 \in 1 .. l /\ stack'[k] = r[k - 1]
    BY <2>3, <2>4, <2>5
  <2>8. \A k \in 1 .. l : r[k] \in InTree /\ r[k] # p
    BY <2>2, <2>3
  <2>9. Distinct(stack)'
    <3> SUFFICES ASSUME NEW j \in 1 .. 1 + l, NEW k \in 1 .. 1 + l,
                        stack'[j] = stack'[k]
                 PROVE  j = k
      BY <2>6 DEF Distinct
    <3>1. CASE j = 1 /\ k = 1
      BY <3>1
    <3>2. CASE j # 1 /\ k # 1
      <4>1. j - 1 = k - 1
        BY <2>2, <2>3, <2>7, <3>2 DEF Distinct
      <4> QED BY <2>3, <4>1
    <3> QED BY <2>7, <2>8, <3>1, <3>2
  <2>10. InTree' = InTree
    <3>1. ASSUME NEW q \in InTree PROVE \E k \in 1 .. 1 + l : stack'[k] = q
      <4>1. CASE q = p
        BY <2>3, <2>7, <4>1
      <4>2. CASE q # p
        <5>1. PICK n \in 1 .. l : r[n] = q
          BY <2>2, <2>3, <4>2
        <5>2. n + 1 \in 1 .. 1 + l /\ n + 1 # 1 /\ (n + 1) - 1 = n
          BY <2>3
        <5> QED BY <2>7, <5>1, <5>2
      <4> QED BY <4>1, <4>2
    <3>2. \A k \in 1 .. 1 + l : stack'[k] \in InTree
      BY <2>1, <2>7, <2>8
    <3>3. InTree' = {stack'[k] : k \in 1 .. 1 + l}
      BY <2>6 DEF InTree, Places
    <3> QED BY <3>1, <3>2, <3>3
  <2> QED BY <1>1, <2>1, <2>5, <2>9, <2>10, SameTree
<1>7. ASSUME Iconify PROVE TreeShape' /\ TreeGoesOn
  <2> DEFINE p == Window(request.id)
  <2>1. stack' = (IF p = Null THEN stack ELSE Restacked(p, Null)) /\ win' = win
    BY <1>7 DEF Iconify
  <2>2. CASE p = Null
    <3>1. stack' = stack
      BY <2>1, <2>2
    <3>2. InTree' = InTree /\ Distinct(stack)'
      BY <1>1, <3>1 DEF InTree, Places, Distinct
    <3> QED BY <1>1, <2>1, <3>1, <3>2, SameTree
  <2>3. CASE p # Null
    <3>1. p \in InTree
      BY <2>3, WindowIs
    <3> HIDE DEF p
    <3>2. /\ stack' \in Seq(Ptr) /\ Distinct(stack)'
          /\ {stack'[n] : n \in DOMAIN stack'} = InTree
      BY <1>1, <2>1, <2>3, <3>1, RestackedIs DEF Distinct
    <3>3. InTree' = InTree
      BY <3>2 DEF InTree, Places
    <3> QED BY <1>1, <2>1, <3>2, <3>3, SameTree
  <2> QED BY <2>2, <2>3
<1>8. ASSUME ChangeWindow PROVE TreeShape' /\ TreeGoesOn
  <2>1. PICK p \in InTree \cap Listed, sib \in InTree \cup {Null} :
          /\ sib # p /\ request \in Requests
          /\ win' = [win EXCEPT ![p].geom = request.geom]
          /\ stack' = IF NextSibAny(p) # sib THEN Restacked(p, sib) ELSE stack
    <3>1. \A p \in InTree : p # Null
      BY <1>1, NullAssumption
    <3> QED BY <1>8, <3>1, ChangeWindowIs
  <2>2. /\ win' \in [Ptr -> [id : Ids, shown : BOOLEAN, geom : Geom]]
        /\ \A q \in Ptr : win'[q].id = win[q].id
    BY <1>1, <2>1 DEF Requests
  <2>3. stack' \in Seq(Ptr) /\ Distinct(stack)' /\ InTree' = InTree
    <3>1. CASE NextSibAny(p) # sib
      <4>1. /\ stack' \in Seq(Ptr) /\ Distinct(stack)'
            /\ {stack'[n] : n \in DOMAIN stack'} = InTree
        BY <1>1, <2>1, <3>1, RestackedIs DEF Distinct
      <4> QED BY <4>1 DEF InTree, Places
    <3>2. CASE NextSibAny(p) = sib
      <4>1. stack' = stack
        BY <2>1, <3>2
      <4> QED BY <1>1, <4>1 DEF InTree, Places, Distinct
    <3> QED BY <3>1, <3>2
  <2> QED BY <1>1, <2>2, <2>3, SameTree
<1>9. ASSUME UNCHANGED server PROVE TreeShape' /\ TreeGoesOn
  <2>1. stack' = stack /\ win' = win
    BY <1>9 DEF server
  <2>2. InTree' = InTree
    BY <2>1 DEF InTree, Places
  <2>3. TreeGoesOn
    BY <2>1, <2>2 DEF TreeGoesOn
  <2> QED BY <2>1, <2>2, <2>3 DEF TreeShape, Distinct
<1> HIDE DEF Shape
<1> QED
  BY <1>2, <1>3, <1>4, <1>5, <1>6, <1>7, <1>8, <1>9, Steps
  DEF CheckWindows, ClientChanges, ClientIconifies, RefuseRequest, CompareFocus,
      Disconnect, Accept, RebuildCaches, CheckConnected, ProcessUpdates,
      SendUpdates, TakeRebuild, SendReinit, CleanEverything, vars

(* No check, request or update gives a window a second entry.              *)
LEMMA ListShapeKept ==
  ASSUME Shape, [Next]_vars
  PROVE  ListShape'
<1> USE DEF Shape
<1>1. /\ list \in Seq(Entries) /\ Len(list) \in Nat
      /\ DOMAIN list = 1 .. Len(list)
      /\ \A n \in DOMAIN list : list[n] \in Entries
      /\ \A m, n \in 1 .. Len(list) : list[m].ptr = list[n].ptr => m = n
  BY ListFacts DEF ListShape
<1>2. ASSUME CheckWindows PROVE ListShape'
  <2> DEFINE l == Len(list)
  <2>1. list' = CheckedList
    BY <1>2 DEF CheckWindows
  <2>a. \E M \in Nat : \E f \in [1 .. M -> (Shown \ Listed)] :
          /\ list' \in Seq(Entries)
          /\ DOMAIN list' = 1 .. M + l
          /\ \A k, j \in 1 .. M : f[k] = f[j] => k = j
          /\ \A k \in 1 .. M : list'[k] = NewEntry(f[k])
          /\ \A n \in 1 .. l : list'[M + n] = Checked(list[n])
    BY <2>1, CheckedListIs
  <2>b. PICK M \in Nat : \E f \in [1 .. M -> (Shown \ Listed)] :
          /\ list' \in Seq(Entries)
          /\ DOMAIN list' = 1 .. M + l
          /\ \A k, j \in 1 .. M : f[k] = f[j] => k = j
          /\ \A k \in 1 .. M : list'[k] = NewEntry(f[k])
          /\ \A n \in 1 .. l : list'[M + n] = Checked(list[n])
    BY <2>a
  <2>2. PICK f \in [1 .. M -> (Shown \ Listed)] :
          /\ list' \in Seq(Entries)
          /\ DOMAIN list' = 1 .. M + l
          /\ \A k, j \in 1 .. M : f[k] = f[j] => k = j
          /\ \A k \in 1 .. M : list'[k] = NewEntry(f[k])
          /\ \A n \in 1 .. l : list'[M + n] = Checked(list[n])
    BY <2>b
  <2>3. \A k \in 1 .. M : list'[k].ptr = f[k] /\ f[k] \notin Listed
    <3> TAKE k \in 1 .. M
    <3>1. f[k] \in Shown \ Listed
      BY <2>2
    <3>2. list'[k] = NewEntry(f[k])
      BY <2>2
    <3> QED BY <3>1, <3>2 DEF NewEntry, Filled
  <2>4. \A n \in 1 .. l : list'[M + n].ptr = list[n].ptr /\ list[n].ptr \in Listed
    <3> TAKE n \in 1 .. l
    <3>1. list[n] \in Entries /\ list[n].ptr \in Listed
      BY <1>1 DEF Listed
    <3>2. Checked(list[n]).ptr = list[n].ptr
      BY <3>1, NotFoundIs DEF Checked, Found, Filled
    <3> QED BY <2>2, <3>1, <3>2
  <2>5. \A k \in 1 .. M + l :
          \/ k \in 1 .. M
          \/ k - M \in 1 .. l /\ M + (k - M) = k
    BY <1>1
  <2>6. \A j, k \in 1 .. M + l : list'[j].ptr = list'[k].ptr => j = k
    <3> SUFFICES ASSUME NEW j \in 1 .. M + l, NEW k \in 1 .. M + l,
                        list'[j].ptr = list'[k].ptr
                 PROVE  j = k
      OBVIOUS
    <3>1. CASE j \in 1 .. M /\ k \in 1 .. M
      BY <2>2, <2>3, <3>1
    <3>2. CASE j \notin 1 .. M /\ k \notin 1 .. M
      <4>1. /\ j - M \in 1 .. l /\ k - M \in 1 .. l
            /\ list'[j].ptr = list[j - M].ptr /\ list'[k].ptr = list[k - M].ptr
        BY <2>4, <2>5, <3>2
      <4>2. j - M = k - M
        BY <1>1, <4>1
      <4> QED BY <1>1, <4>2
    <3>3. CASE j \in 1 .. M /\ k \notin 1 .. M
      <4>1. k - M \in 1 .. l /\ list'[k].ptr \in Listed
        <5>1. k - M \in 1 .. l /\ M + (k - M) = k
          BY <2>5, <3>3
        <5> QED BY <2>4, <5>1
      <4> QED BY <2>3, <3>3, <4>1
    <3>4. CASE k \in 1 .. M /\ j \notin 1 .. M
      <4>1. j - M \in 1 .. l /\ list'[j].ptr \in Listed
        <5>1. j - M \in 1 .. l /\ M + (j - M) = j
          BY <2>5, <3>4
        <5> QED BY <2>4, <5>1
      <4> QED BY <2>3, <3>4, <4>1
    <3> QED BY <3>1, <3>2, <3>3, <3>4
  <2> QED BY <2>2, <2>6 DEF ListShape
<1>3. ASSUME ChangeWindow PROVE ListShape'
  <2>1. PICK p \in InTree \cap Listed, sib \in InTree \cup {Null} :
          /\ request \in Requests
          /\ list' = [n \in DOMAIN list |->
                        IF list[n].ptr = p
                        THEN Touched(list[n], sib, NextSibAny(p) # sib)
                        ELSE list[n]]
    <3>1. \A p \in InTree : p # Null
      BY StackFacts, NullAssumption DEF TreeShape
    <3> QED BY <1>3, <3>1, ChangeWindowIs
  <2>2. sib \in Ptr \cup {Null}
    BY StackFacts DEF TreeShape
  <2> DEFINE r == NextSibAny(p) # sib
             t(e) == Touched(e, sib, r)
  <2>3. r \in BOOLEAN
    OBVIOUS
  <2> HIDE DEF r
  <2>4. \A e \in Entries : t(e) \in Entries /\ t(e).ptr = e.ptr
    BY <2>1, <2>2, <2>3, TouchedIs
  <2>5. list' = [n \in 1 .. Len(list) |-> IF list[n].ptr = p THEN t(list[n])
                                          ELSE list[n]]
    BY <1>1, <2>1 DEF r
  <2> HIDE DEF t
  <2>6. list' \in Seq(Entries) /\ DOMAIN list' = 1 .. Len(list)
    BY <1>1, <2>4, <2>5
  <2>7. \A n \in 1 .. Len(list) : list'[n].ptr = list[n].ptr
    BY <1>1, <2>4, <2>5
  <2> QED BY <1>1, <2>6, <2>7 DEF ListShape
<1>4. ASSUME list' = <<>> PROVE ListShape'
  BY <1>4 DEF ListShape
<1>5. ASSUME NEW s \in Senders, ProcessUpdates(s), updated PROVE ListShape'
  <2>1. list' = Remaining
    BY <1>5 DEF ProcessUpdates
  <2> DEFINE r == Remaining
             l == Len(r)
  <2>2. r \in Seq(Entries) /\ DOMAIN r = 1 .. l
    BY RemainingIs
  <2>3. \E h \in [1 .. l -> DOMAIN list] :
          /\ \A j, k \in 1 .. l : h[j] = h[k] => j = k
          /\ \A k \in 1 .. l :
               r[k] = [list[h[k]] EXCEPT !.state = "UNCHANGED"]
    BY RemainingIs
  <2> HIDE DEF r
  <2>4. PICK h \in [1 .. l -> DOMAIN list] :
          /\ \A j, k \in 1 .. l : h[j] = h[k] => j = k
          /\ \A k \in 1 .. l :
               r[k] = [list[h[k]] EXCEPT !.state = "UNCHANGED"]
    BY <2>3
  <2>5. \A e \in Entries : [e EXCEPT !.state = "UNCHANGED"].ptr = e.ptr
    BY DEF Entries
  <2>6. \A k \in 1 .. l : h[k] \in 1 .. Len(list) /\ r[k].ptr = list[h[k]].ptr
    BY <1>1, <2>4, <2>5
  <2>7. \A j, k \in 1 .. l : r[j].ptr = r[k].ptr => j = k
    BY <1>1, <2>4, <2>6
  <2>8. list' = r
    BY <2>1 DEF r
  <2> QED BY <2>2, <2>7, <2>8 DEF ListShape
<1>6. ASSUME UNCHANGED list PROVE ListShape'
  BY <1>6 DEF ListShape
<1> HIDE DEF Shape
<1> QED
  BY <1>2, <1>3, <1>4, <1>5, <1>6, Steps
  DEF CreateWindow, DestroyWindow, ShowOrHide, MoveWindow, RaiseWindow,
      TreeChanges, ClientChanges, ClientIconifies, Iconify, RefuseRequest,
      CompareFocus, Disconnect, DeleteAllWindows, Accept, RebuildCaches,
      CheckConnected, ProcessUpdates, SendUpdates, TakeRebuild, SendReinit,
      CleanEverything, vars

LEMMA NoWindowsIs ==
  NoWindows \in [Id -> Info \cup {Null}] /\ \A i \in Id : NoWindows[i] = Null
BY DEF NoWindows

(* The threads, the client and the messages keep their shape.              *)
LEMMA ThreadShapeKept ==
  ASSUME Shape, [Next]_vars
  PROVE  ThreadShape'
<1> USE DEF ThreadShape
<1>1. ThreadShape
  BY DEF Shape
<1>2. ASSUME NEW p \in Ptr, NEW i \in Id, CreateWindow(p, i)
      PROVE  ThreadShape'
  BY <1>1, <1>2, ChangeBoundAssumption
  DEF CreateWindow, TreeChanges, Change, flags, threads
<1>3. ASSUME NEW p \in Ptr, \/ DestroyWindow(p) \/ ShowOrHide(p)
                            \/ RaiseWindow(p)
                            \/ \E g \in Geom : MoveWindow(p, g)
      PROVE  ThreadShape'
  BY <1>1, <1>3, ChangeBoundAssumption
  DEF DestroyWindow, ShowOrHide, RaiseWindow, MoveWindow, TreeChanges, Change,
      flags, threads
<1>4. ASSUME CheckWindows PROVE ThreadShape'
  <2>1. updated' \in BOOLEAN /\ settled' \in 0 .. 2
    BY <1>1, <1>4 DEF CheckWindows, UpdatedBy
  <2> QED BY <1>1, <1>4, <2>1 DEF CheckWindows, threads
<1>5. ASSUME NEW i \in Id, NEW g \in Geom, NEW sib \in Ids,
             ClientChanges(i, g, sib)
      PROVE  ThreadShape'
  <2>1. request' \in Requests /\ request'.sib # request'.id
    BY <1>5 DEF ClientChanges, Requests
  <2>2. client' \in [Id -> Info \cup {Null}]
    BY <1>1, <1>5 DEF ClientChanges, Info
  <2>3. changes' \in 0 .. ChangeBound
    BY <1>1, <1>5, ChangeBoundAssumption DEF ClientChanges, Change
  <2> QED BY <1>1, <1>5, <2>1, <2>2, <2>3 DEF ClientChanges, flags, threads
<1>6. ASSUME NEW i \in Id, ClientIconifies(i) PROVE ThreadShape'
  <2>1. client[i] \in Info
    BY <1>1, <1>6 DEF ClientIconifies
  <2>2. request' \in Requests /\ request'.kind = "iconify"
    BY <1>6, <2>1 DEF ClientIconifies, Requests, Info, Ids
  <2>3. changes' \in 0 .. ChangeBound
    BY <1>1, <1>6, ChangeBoundAssumption DEF ClientIconifies, Change
  <2> QED BY <1>1, <1>6, <2>2, <2>3 DEF ClientIconifies, flags, threads
<1>7. ASSUME Iconify PROVE ThreadShape'
  <2>1. settled' \in 0 .. 2
    BY <1>1, <1>7 DEF Iconify
  <2> QED BY <1>1, <1>7, <2>1 DEF Iconify, HasRequest, flags, threads
<1>8. ASSUME RefuseRequest PROVE ThreadShape'
  BY <1>1, <1>8 DEF RefuseRequest, HasRequest, flags, threads
<1>9. ASSUME ChangeWindow PROVE ThreadShape'
  <2>1. PICK p \in InTree \cap Listed, sib \in InTree \cup {Null} :
          /\ main' = [pc |-> "focus", ptr |-> p,
                      deleted |-> Entry(p).state = "WDEL"]
          /\ crossed' = (crossed \/ Crosses(Entry(p), sib))
    <3>1. \A p \in InTree : p # Null
      BY StackFacts, NullAssumption DEF TreeShape, Shape
    <3> QED BY <1>9, <3>1, ChangeWindowIs
  <2>2. p \in Ptr
    BY StackFacts DEF TreeShape, Shape
  <2>3. main' \in [pc : {"idle", "focus"}, ptr : Ptr \cup {Null},
                   deleted : BOOLEAN]
    BY <2>1, <2>2
  <2>4. crossed' \in BOOLEAN
    BY <1>1, <2>1
  <2>5. request' = Null /\ settled' = 0
    BY <1>9 DEF ChangeWindow, HasRequest
  <2>6. UNCHANGED <<flags, spc, hand, client, recycled, changes, overlap>>
    BY <1>9 DEF ChangeWindow
  <2> QED BY <1>1, <2>3, <2>4, <2>5, <2>6 DEF flags
<1>10. ASSUME CompareFocus PROVE ThreadShape'
  BY <1>1, <1>10 DEF CompareFocus, MainIdle, flags, history
<1>11. ASSUME Disconnect PROVE ThreadShape'
  <2>1. overlap' \in BOOLEAN /\ settled' = 0 /\ changes' = changes
    BY <1>1, <1>11 DEF Disconnect, DeleteAllWindows
  <2>2. /\ connected' = FALSE /\ request' = Null
        /\ UNCHANGED <<updated, rebuilt, threads, client, recycled, crossed>>
    BY <1>11 DEF Disconnect
  <2>3. /\ main' = main /\ spc' = spc /\ hand' = hand /\ client' = client
        /\ updated' = updated /\ rebuilt' = rebuilt /\ recycled' = recycled
        /\ crossed' = crossed
    BY <2>2 DEF threads
  <2>4. changes' \in 0 .. ChangeBound /\ settled' \in 0 .. 2
    BY <1>1, <2>1
  <2>6. connected' \in BOOLEAN
    BY <2>2
  <2>7. overlap' \in BOOLEAN
    BY <2>1
  <2>5. request' = Null
    BY <2>2
  <2> QED BY <1>1, <2>3, <2>4, <2>5, <2>6, <2>7
<1>12. ASSUME NEW s \in Senders, Accept(s) PROVE ThreadShape'
  BY <1>1, <1>12, NoWindowsIs DEF Accept, history
<1>13. ASSUME RebuildCaches PROVE ThreadShape'
  BY <1>1, <1>13 DEF RebuildCaches, threads, history
<1>14. ASSUME NEW s \in Senders, CheckConnected(s) PROVE ThreadShape'
  BY <1>1, <1>14 DEF CheckConnected, Goto, flags, history
<1>15. ASSUME NEW s \in Senders, ProcessUpdates(s) PROVE ThreadShape'
  <2>1. CASE updated
    <3>1. Updates \in Seq(Messages)
      BY UpdatesIs DEF Shape
    <3>2. /\ hand' \in [Senders -> Seq(Messages)]
          /\ \A t \in Senders : hand'[t] # <<>> => spc'[t] = "sending"
      BY <1>1, <1>15, <2>1, <3>1 DEF ProcessUpdates, Goto
    <3> QED BY <1>1, <1>15, <2>1, <3>2 DEF ProcessUpdates, Goto
  <2>2. CASE ~updated
    BY <1>1, <1>15, <2>2 DEF ProcessUpdates, Goto
  <2> QED BY <1>1, <2>1, <2>2
<1>16. ASSUME NEW s \in Senders, SendUpdates(s) PROVE ThreadShape'
  <2>1. client' \in [Id -> Info \cup {Null}]
    <3>1. client \in [Id -> Info \cup {Null}] /\ hand[s] \in Seq(Messages)
      BY <1>1
    <3> QED BY <1>16, <3>1, AppliedIs DEF SendUpdates
  <2>2. /\ hand' \in [Senders -> Seq(Messages)]
        /\ \A t \in Senders : hand'[t] # <<>> => spc'[t] = "sending"
    BY <1>1, <1>16 DEF SendUpdates, HandFreed, Goto
  <2> QED BY <1>1, <1>16, <2>1, <2>2 DEF SendUpdates, Goto, flags
<1>17. ASSUME NEW s \in Senders, TakeRebuild(s) PROVE ThreadShape'
  <2>1. PICK pc \in {"reinit", "top"} : spc' = [spc EXCEPT ![s] = pc]
    BY <1>17 DEF TakeRebuild, Goto
  <2>2. /\ spc' \in [Senders -> {"none", "top", "serve", "sending", "rebuild",
                                 "reinit", "clean", "exit"}]
        /\ \A t \in Senders : spc[t] = "sending" /\ t # s => spc'[t] = "sending"
    BY <1>1, <2>1
  <2>3. spc[s] = "rebuild" /\ rebuilt' = FALSE
        /\ UNCHANGED <<updated, connected, main, hand, client, request, history>>
    BY <1>17 DEF TakeRebuild
  <2> QED BY <1>1, <2>2, <2>3 DEF history
<1>18. ASSUME NEW s \in Senders, SendReinit(s) PROVE ThreadShape'
  BY <1>1, <1>18, NoWindowsIs DEF SendReinit, Goto, flags
<1>19. ASSUME NEW s \in Senders, CleanEverything(s) PROVE ThreadShape'
  BY <1>1, <1>19 DEF CleanEverything, DeleteAllWindows, Goto, flags
<1>20. ASSUME UNCHANGED vars PROVE ThreadShape'
  BY <1>1, <1>20 DEF vars, flags, threads, history
<1> HIDE DEF ThreadShape
<1> QED
  BY <1>2, <1>3, <1>4, <1>5, <1>6, <1>7, <1>8, <1>9, <1>10, <1>11, <1>12,
     <1>13, <1>14, <1>15, <1>16, <1>17, <1>18, <1>19, <1>20, Steps

LEMMA ShapeKept ==
  ASSUME Shape, [Next]_vars
  PROVE  Shape'
BY TreeShapeKept, ListShapeKept, ThreadShapeKept DEF Shape

LEMMA ShapeAtFirst ==
  ASSUME Init
  PROVE  Shape
<1>1. stack = <<>> /\ list = <<>> /\ win = [p \in Ptr |-> NoWindow]
  BY DEF Init
<1>2. NoWindow \in [id : Ids, shown : BOOLEAN, geom : Geom]
  <2>1. (CHOOSE g \in Geom : TRUE) \in Geom
    BY GeomAssumption
  <2> QED BY <2>1 DEF NoWindow, Ids
<1>3. InTree = {}
  BY <1>1 DEF InTree, Places
<1>4. TreeShape
  BY <1>1, <1>2, <1>3 DEF TreeShape, Distinct
<1>5. ListShape
  BY <1>1 DEF ListShape
<1>6. ThreadShape
  <2>1. MainIdle \in [pc : {"idle", "focus"}, ptr : Ptr \cup {Null},
                      deleted : BOOLEAN]
    BY DEF MainIdle
  <2>2. [s \in Senders |-> <<>>] \in [Senders -> Seq(Messages)]
    OBVIOUS
  <2>3. /\ hand \in [Senders -> Seq(Messages)]
        /\ \A s \in Senders : hand[s] = <<>>
    BY <2>2 DEF Init
  <2>4. /\ spc \in [Senders -> {"none", "top", "serve", "sending", "rebuild",
                               "reinit", "clean", "exit"}]
    BY DEF Init
  <2>5. changes \in 0 .. ChangeBound /\ settled \in 0 .. 2
    BY ChangeBoundAssumption DEF Init
  <2>6. client \in [Id -> Info \cup {Null}] /\ main = MainIdle
    BY NoWindowsIs DEF Init
  <2>7. /\ updated \in BOOLEAN /\ connected \in BOOLEAN /\ rebuilt \in BOOLEAN
        /\ recycled \in BOOLEAN /\ crossed \in BOOLEAN /\ overlap \in BOOLEAN
        /\ request = Null
    BY DEF Init
  <2> QED BY <2>1, <2>3, <2>4, <2>5, <2>6, <2>7 DEF ThreadShape
<1> QED BY <1>4, <1>5, <1>6 DEF Shape

-----------------------------------------------------------------------------
(* What happens to the entries.                                            *)

(* A mark on the disorder that ends the ordinary life stays.               *)
LEMMA DisorderStays ==
  ASSUME ThreadShape, ThreadShape', [Next]_vars
  PROVE  /\ ~overlap' => ~overlap
         /\ ~recycled' => ~recycled
         /\ ~crossed' => ~crossed
<1> DEFINE stays == /\ ~overlap' => ~overlap
                    /\ ~recycled' => ~recycled
                    /\ ~crossed' => ~crossed
<1>0. /\ overlap \in BOOLEAN /\ recycled \in BOOLEAN /\ crossed \in BOOLEAN
      /\ overlap' \in BOOLEAN /\ recycled' \in BOOLEAN /\ crossed' \in BOOLEAN
  BY DEF ThreadShape
<1>1. ASSUME NEW p \in Ptr, \/ \E i \in Id : CreateWindow(p, i)
                            \/ DestroyWindow(p) \/ ShowOrHide(p)
                            \/ \E g \in Geom : MoveWindow(p, g)
                            \/ RaiseWindow(p)
      PROVE  stays
  BY <1>0, <1>1 DEF CreateWindow, DestroyWindow, ShowOrHide, MoveWindow, RaiseWindow,
              TreeChanges
<1>2. ASSUME NEW i \in Id, \/ \E g \in Geom, sib \in Ids : ClientChanges(i, g, sib)
                           \/ ClientIconifies(i)
      PROVE  stays
  BY <1>0, <1>2 DEF ClientChanges, ClientIconifies
<1>3. CASE CheckWindows \/ Iconify \/ RefuseRequest
  BY <1>0, <1>3 DEF CheckWindows, Iconify, RefuseRequest
<1>4. CASE ChangeWindow
  BY <1>0, <1>4 DEF ChangeWindow
<1>5. CASE CompareFocus \/ Disconnect \/ RebuildCaches
  BY <1>0, <1>5 DEF CompareFocus, Disconnect, DeleteAllWindows, RebuildCaches, history
<1>6. ASSUME NEW s \in Senders, Accept(s) \/ CheckConnected(s) \/ TakeRebuild(s)
      PROVE  stays
  BY <1>0, <1>6 DEF Accept, CheckConnected, TakeRebuild, history
<1>11. ASSUME NEW s \in Senders, SendUpdates(s) PROVE stays
  BY <1>0, <1>11 DEF SendUpdates
<1>8. ASSUME NEW s \in Senders, ProcessUpdates(s) PROVE stays
  BY <1>0, <1>8 DEF ProcessUpdates
<1>9. ASSUME NEW s \in Senders, SendReinit(s) \/ CleanEverything(s) PROVE stays
  BY <1>0, <1>9 DEF SendReinit, CleanEverything, DeleteAllWindows
<1>7. CASE UNCHANGED vars
  BY <1>0, <1>7 DEF vars, history
<1> QED
  BY <1>1, <1>2, <1>3, <1>4, <1>5, <1>6, <1>7, <1>8, <1>9, <1>11, Steps

(* What an update leaves of the list.                                      *)
LEMMA RemainingEntries ==
  ASSUME ListShape
  PROVE  /\ \A k \in DOMAIN Remaining : \E n \in DOMAIN list :
              /\ list[n].state # "WDEL" /\ Remaining[k].state = "UNCHANGED"
              /\ Remaining[k].ptr = list[n].ptr /\ Remaining[k].id = list[n].id
              /\ Remaining[k].geom = list[n].geom
              /\ Remaining[k].sib = list[n].sib
              /\ Remaining[k].sibId = list[n].sibId
         /\ \A n \in DOMAIN list : list[n].state # "WDEL" =>
              \E k \in DOMAIN Remaining : /\ Remaining[k].ptr = list[n].ptr
                                            /\ Remaining[k].id = list[n].id
         /\ (\A m, n \in DOMAIN list : list[m].id = list[n].id => m = n) =>
              \A k, l \in DOMAIN Remaining :
                Remaining[k].id = Remaining[l].id => k = l
<1> DEFINE r == Remaining
<1>1. \A n \in DOMAIN list : list[n] \in Entries
  BY ListFacts
<1>2. \A e \in Entries :
        /\ [e EXCEPT !.state = "UNCHANGED"].state = "UNCHANGED"
        /\ [e EXCEPT !.state = "UNCHANGED"].ptr = e.ptr
        /\ [e EXCEPT !.state = "UNCHANGED"].id = e.id
        /\ [e EXCEPT !.state = "UNCHANGED"].geom = e.geom
        /\ [e EXCEPT !.state = "UNCHANGED"].sib = e.sib
        /\ [e EXCEPT !.state = "UNCHANGED"].sibId = e.sibId
  BY DEF Entries
<1>3. DOMAIN r = 1 .. Len(r)
  BY RemainingIs
<1>4. \E h \in [1 .. Len(r) -> DOMAIN list] :
        /\ \A k, l \in 1 .. Len(r) : h[k] = h[l] => k = l
        /\ \A k \in 1 .. Len(r) :
             /\ list[h[k]].state # "WDEL"
             /\ r[k] = [list[h[k]] EXCEPT !.state = "UNCHANGED"]
        /\ \A n \in DOMAIN list : list[n].state # "WDEL" =>
             \E k \in 1 .. Len(r) : h[k] = n
  BY RemainingIs
<1> HIDE DEF r
<1>5. PICK h \in [1 .. Len(r) -> DOMAIN list] :
        /\ \A k, l \in 1 .. Len(r) : h[k] = h[l] => k = l
        /\ \A k \in 1 .. Len(r) :
             /\ list[h[k]].state # "WDEL"
             /\ r[k] = [list[h[k]] EXCEPT !.state = "UNCHANGED"]
        /\ \A n \in DOMAIN list : list[n].state # "WDEL" =>
             \E k \in 1 .. Len(r) : h[k] = n
  BY <1>4
<1>6. ASSUME NEW k \in 1 .. Len(r)
      PROVE  /\ h[k] \in DOMAIN list
             /\ list[h[k]].state # "WDEL" /\ r[k].state = "UNCHANGED"
             /\ r[k].ptr = list[h[k]].ptr /\ r[k].id = list[h[k]].id
             /\ r[k].geom = list[h[k]].geom /\ r[k].sib = list[h[k]].sib
             /\ r[k].sibId = list[h[k]].sibId
  <2>1. h[k] \in DOMAIN list
    OBVIOUS
  <2>2. /\ list[h[k]].state # "WDEL"
        /\ r[k] = [list[h[k]] EXCEPT !.state = "UNCHANGED"]
    BY <1>5
  <2> DEFINE e == list[h[k]]
  <2>3. e \in Entries
    BY <1>1, <2>1
  <2> HIDE DEF e
  <2>4. /\ [e EXCEPT !.state = "UNCHANGED"].state = "UNCHANGED"
        /\ [e EXCEPT !.state = "UNCHANGED"].ptr = e.ptr
        /\ [e EXCEPT !.state = "UNCHANGED"].id = e.id
        /\ [e EXCEPT !.state = "UNCHANGED"].geom = e.geom
        /\ [e EXCEPT !.state = "UNCHANGED"].sib = e.sib
        /\ [e EXCEPT !.state = "UNCHANGED"].sibId = e.sibId
    BY <1>2, <2>3
  <2>5. r[k] = [e EXCEPT !.state = "UNCHANGED"] /\ e.state # "WDEL"
    BY <2>2 DEF e
  <2>6. /\ r[k].state = "UNCHANGED" /\ r[k].ptr = e.ptr /\ r[k].id = e.id
        /\ r[k].geom = e.geom /\ r[k].sib = e.sib /\ r[k].sibId = e.sibId
    BY <2>4, <2>5
  <2> QED BY <2>1, <2>5, <2>6 DEF e
<1>7. \A n \in DOMAIN list : list[n].state # "WDEL" =>
        \E k \in 1 .. Len(r) : r[k].ptr = list[n].ptr /\ r[k].id = list[n].id
  <2> TAKE n \in DOMAIN list
  <2> HAVE list[n].state # "WDEL"
  <2>1. PICK k \in 1 .. Len(r) : h[k] = n
    BY <1>5
  <2> QED BY <1>6, <2>1
<1>8. \A k \in 1 .. Len(r) : \E n \in DOMAIN list :
        /\ list[n].state # "WDEL" /\ r[k].state = "UNCHANGED"
        /\ r[k].ptr = list[n].ptr /\ r[k].id = list[n].id
        /\ r[k].geom = list[n].geom
        /\ r[k].sib = list[n].sib
        /\ r[k].sibId = list[n].sibId
  <2> TAKE k \in 1 .. Len(r)
  <2> QED BY <1>6
<1>9. ASSUME \A m, n \in DOMAIN list : list[m].id = list[n].id => m = n
      PROVE  \A k, l \in 1 .. Len(r) : r[k].id = r[l].id => k = l
  BY <1>5, <1>6, <1>9
<1> QED BY <1>3, <1>7, <1>8, <1>9 DEF r

(* A request leaves every entry its window, its id and its mark.           *)
LEMMA ChangeKeepsEntries ==
  ASSUME Shape, ChangeWindow
  PROVE  /\ DOMAIN list' = DOMAIN list
         /\ \A n \in DOMAIN list : /\ list'[n].ptr = list[n].ptr
                                   /\ list'[n].id = list[n].id
                                   /\ list'[n].state = list[n].state
<1>1. PICK p \in InTree \cap Listed, sib \in InTree \cup {Null} :
        /\ request \in Requests
        /\ list' = [n \in DOMAIN list |->
                      IF list[n].ptr = p
                      THEN Touched(list[n], sib, NextSibAny(p) # sib)
                      ELSE list[n]]
  <2>1. \A p \in InTree : p # Null
    BY StackFacts, NullAssumption DEF TreeShape, Shape
  <2> QED BY <2>1, ChangeWindowIs
<1>2. \A n \in DOMAIN list : list[n] \in Entries
  BY ListFacts DEF Shape
<1>3. sib \in Ptr \cup {Null}
  BY StackFacts DEF TreeShape, Shape
<1> DEFINE r == NextSibAny(p) # sib
<1>4. r \in BOOLEAN
  OBVIOUS
<1> HIDE DEF r
<1>5. \A e \in Entries : /\ Touched(e, sib, r).ptr = e.ptr
                         /\ Touched(e, sib, r).id = e.id
                         /\ Touched(e, sib, r).state = e.state
  BY <1>1, <1>3, <1>4, TouchedIs DEF Shape
<1>6. list' = [n \in DOMAIN list |->
                 IF list[n].ptr = p THEN Touched(list[n], sib, r) ELSE list[n]]
  BY <1>1 DEF r
<1> QED BY <1>2, <1>5, <1>6

(* The entry of a request that compares the focus, unless it was marked    *)
(* WDEL when it was looked up or a cleanup came.                           *)
FocusKept ==
  ~overlap /\ main.pc = "focus" /\ ~main.deleted =>
    \E n \in DOMAIN list : list[n].ptr = main.ptr /\ list[n].state # "WDEL"

LEMMA FocusKeptKept ==
  ASSUME Shape, FocusKept, [Next]_vars
  PROVE  FocusKept'
<1>0. ~overlap' => ~overlap
  BY ShapeKept, DisorderStays DEF Shape
<1>1. CASE UNCHANGED <<list, main>>
  BY <1>0, <1>1 DEF FocusKept
<1>2. CASE main'.pc # "focus"
  BY <1>2 DEF FocusKept
<1>3. ASSUME ChangeWindow PROVE FocusKept'
  <2>1. PICK p \in InTree \cap Listed :
          main' = [pc |-> "focus", ptr |-> p,
                   deleted |-> Entry(p).state = "WDEL"]
    BY <1>3, ChangeWindowIs
  <2> DEFINE m == CHOOSE n \in DOMAIN list : list[n].ptr = p
  <2>2. m \in DOMAIN list /\ list[m].ptr = p
    <3>1. \E n \in DOMAIN list : list[n].ptr = p
      BY DEF Listed
    <3> QED BY <3>1
  <2>3. Entry(p) = list[m]
    BY DEF Entry
  <2> HIDE DEF m
  <2>4. /\ m \in DOMAIN list' /\ list'[m].ptr = p
        /\ list'[m].state = list[m].state
    BY <1>3, <2>2, ChangeKeepsEntries
  <2> QED BY <2>1, <2>3, <2>4 DEF FocusKept
<1>4. ASSUME NEW s \in Senders, ProcessUpdates(s), updated
      PROVE  FocusKept'
  <2>1. list' = Remaining /\ main' = main
    BY <1>4 DEF ProcessUpdates
  <2>2. \A n \in DOMAIN list : list[n].state # "WDEL" =>
          \E k \in DOMAIN Remaining :
            /\ Remaining[k].ptr = list[n].ptr
            /\ Remaining[k].state = "UNCHANGED"
    BY RemainingEntries DEF Shape
  <2> DEFINE r == Remaining
  <2> HIDE DEF r
  <2>3. ~overlap' /\ main.pc = "focus" /\ ~main.deleted =>
          \E n \in DOMAIN list :
            list[n].ptr = main.ptr /\ list[n].state # "WDEL"
    BY <1>0 DEF FocusKept
  <2>4. \A n \in DOMAIN list : list[n].state # "WDEL" =>
          \E k \in DOMAIN r : r[k].ptr = list[n].ptr /\ r[k].state # "WDEL"
    BY <2>2 DEF r
  <2>5. list' = r
    BY <2>1 DEF r
  <2> QED BY <2>1, <2>3, <2>4, <2>5 DEF FocusKept
<1>5. ASSUME DeleteAllWindows, main' = main PROVE FocusKept'
  BY <1>5 DEF DeleteAllWindows, FocusKept
<1>6. ASSUME NEW p \in Ptr, \/ \E i \in Id : CreateWindow(p, i)
                            \/ DestroyWindow(p) \/ ShowOrHide(p)
                            \/ \E g \in Geom : MoveWindow(p, g)
                            \/ RaiseWindow(p)
      PROVE  FocusKept'
  BY <1>1, <1>6 DEF CreateWindow, DestroyWindow, ShowOrHide, MoveWindow,
                    RaiseWindow, TreeChanges, threads
<1>7. ASSUME NEW i \in Id, \/ \E g \in Geom, sib \in Ids : ClientChanges(i, g, sib)
                           \/ ClientIconifies(i)
      PROVE  FocusKept'
  BY <1>1, <1>7 DEF ClientChanges, ClientIconifies, threads
<1>8. CASE CheckWindows \/ CompareFocus
  BY <1>2, <1>8 DEF CheckWindows, CompareFocus, MainIdle, threads
<1>9. CASE Iconify \/ RefuseRequest \/ RebuildCaches
  BY <1>1, <1>9 DEF Iconify, RefuseRequest, RebuildCaches, threads
<1>10. CASE Disconnect
  BY <1>5, <1>10 DEF Disconnect, threads
<1>11. ASSUME NEW s \in Senders, \/ Accept(s) \/ CheckConnected(s)
                                 \/ SendUpdates(s) \/ TakeRebuild(s)
                                 \/ SendReinit(s)
       PROVE  FocusKept'
  BY <1>1, <1>11 DEF Accept, CheckConnected, SendUpdates, TakeRebuild,
                     SendReinit
<1>12. ASSUME NEW s \in Senders, ProcessUpdates(s) PROVE FocusKept'
  BY <1>1, <1>4, <1>12 DEF ProcessUpdates
<1>13. ASSUME NEW s \in Senders, CleanEverything(s) PROVE FocusKept'
  BY <1>5, <1>13 DEF CleanEverything
<1>14. CASE UNCHANGED vars
  BY <1>1, <1>14 DEF vars, threads
<1> HIDE DEF FocusKept
<1> QED
  BY <1>3, <1>6, <1>7, <1>8, <1>9, <1>10, <1>11, <1>12, <1>13, <1>14, Steps

(* While an entry is marked, windowsUpdated is set.                        *)
MarksAreFlagged == Pending(list) # {} => updated

LEMMA MarksAreFlaggedKept ==
  ASSUME Shape, MarksAreFlagged, [Next]_vars
  PROVE  MarksAreFlagged'
<1>1. CASE UNCHANGED <<list, updated>>
  BY <1>1 DEF MarksAreFlagged, Pending
<1>2. ASSUME list' = <<>> PROVE MarksAreFlagged'
  BY <1>2 DEF MarksAreFlagged, Pending
<1>3. ASSUME ChangeWindow PROVE MarksAreFlagged'
  <2>1. Pending(list)' = Pending(list)
    BY <1>3, ChangeKeepsEntries DEF Pending
  <2>2. updated' = updated
    BY <1>3 DEF ChangeWindow, flags
  <2> QED BY <2>1, <2>2 DEF MarksAreFlagged
<1>4. ASSUME CheckWindows PROVE MarksAreFlagged'
  BY <1>4 DEF CheckWindows, UpdatedBy, MarksAreFlagged, Pending
<1>5. ASSUME NEW s \in Senders, ProcessUpdates(s), updated
      PROVE  MarksAreFlagged'
  <2>1. list' = Remaining
    BY <1>5 DEF ProcessUpdates
  <2>2. \A k \in DOMAIN Remaining : Remaining[k].state = "UNCHANGED"
    BY RemainingEntries DEF Shape
  <2>3. Pending(list)' = {}
    BY <2>1, <2>2 DEF Pending
  <2> QED BY <2>3 DEF MarksAreFlagged
<1> QED
  BY <1>1, <1>2, <1>3, <1>4, <1>5, Steps
  DEF CreateWindow, DestroyWindow, ShowOrHide, MoveWindow, RaiseWindow,
      TreeChanges, ClientChanges, ClientIconifies, Iconify, RefuseRequest,
      CompareFocus, Disconnect, DeleteAllWindows, Accept, RebuildCaches,
      CheckConnected, ProcessUpdates, SendUpdates, TakeRebuild, SendReinit,
      CleanEverything, vars, flags

-----------------------------------------------------------------------------
(* Threads and connections.                                                *)

(* An X client's step changes the tree and nothing that is ours.           *)
LEMMA XServerKeeps ==
  ASSUME XServer
  PROVE  /\ UNCHANGED <<list, updated, connected, rebuilt>>
         /\ UNCHANGED <<main, spc, hand, client, request, crossed, overlap>>
         /\ settled' = 0
BY DEF XServer, CreateWindow, DestroyWindow, ShowOrHide, MoveWindow,
       RaiseWindow, TreeChanges, flags, threads

(* The steps, those of the X clients together.                             *)
LEMMA StepsOf ==
  ASSUME [Next]_vars
  PROVE  \/ XServer \/ CheckWindows
         \/ \E i \in Id, g \in Geom, sib \in Ids : ClientChanges(i, g, sib)
         \/ \E i \in Id : ClientIconifies(i)
         \/ Iconify \/ RefuseRequest \/ ChangeWindow \/ CompareFocus
         \/ Disconnect \/ RebuildCaches
         \/ \E s \in Senders : Accept(s)
         \/ \E s \in Senders : CheckConnected(s)
         \/ \E s \in Senders : ProcessUpdates(s)
         \/ \E s \in Senders : SendUpdates(s)
         \/ \E s \in Senders : TakeRebuild(s)
         \/ \E s \in Senders : SendReinit(s)
         \/ \E s \in Senders : CleanEverything(s)
         \/ UNCHANGED vars
BY DEF Next, MainStep, ClientStep, SenderStep, Ids

(* Without an overlap one thread at most has an update in hand, and none   *)
(* while the caches are rebuilt and the client has no windows.             *)
OneUpdate ==
  ~overlap =>
    /\ \A s, t \in Senders : spc[s] = "sending" /\ spc[t] = "sending" => s = t
    /\ \A s, t \in Senders : spc[s] = "clean" =>
         spc[t] # "sending" /\ client = NoWindows

LEMMA OneUpdateKept ==
  ASSUME Shape, OneUpdate, [Next]_vars
  PROVE  OneUpdate'
<1>1. ThreadShape /\ ThreadShape'
  BY ShapeKept DEF Shape
<1>a. overlap \in BOOLEAN /\ overlap' \in BOOLEAN
  BY <1>1 DEF ThreadShape
<1>2. /\ ~overlap' => ~overlap
      /\ NoWindows' = NoWindows
      /\ spc \in [Senders -> {"none", "top", "serve", "sending", "rebuild",
                              "reinit", "clean", "exit"}]
  BY <1>1, DisorderStays DEF ThreadShape, NoWindows
<1>3. CASE UNCHANGED <<spc, client>>
  BY <1>2, <1>3 DEF OneUpdate
<1>4. ASSUME NEW i \in Id, NEW g \in Geom, NEW sib \in Ids,
             ClientChanges(i, g, sib)
      PROVE  OneUpdate'
  <2>1. client # NoWindows /\ spc' = spc
    BY <1>4, NoWindowsIs DEF ClientChanges, threads
  <2> QED BY <1>2, <2>1 DEF OneUpdate
<1>5. ASSUME NEW s \in Senders, Accept(s) PROVE OneUpdate'
  <2>1. client' = NoWindows /\ spc' = [spc EXCEPT ![s] = "top"]
    BY <1>5 DEF Accept
  <2> QED BY <1>2, <2>1 DEF OneUpdate
<1>6. ASSUME NEW s \in Senders, CheckConnected(s) \/ TakeRebuild(s)
      PROVE  OneUpdate'
  <2>1. client' = client /\ \E pc \in {"serve", "exit", "reinit", "top"} :
                              spc' = [spc EXCEPT ![s] = pc]
    BY <1>6 DEF CheckConnected, TakeRebuild, Goto
  <2> QED BY <1>2, <2>1 DEF OneUpdate
<1>7. ASSUME NEW s \in Senders, ProcessUpdates(s) PROVE OneUpdate'
  <2>1. client' = client
    BY <1>7 DEF ProcessUpdates
  <2>2. CASE updated
    <3>1. /\ spc' = [spc EXCEPT ![s] = "sending"]
          /\ overlap' = (overlap \/ Sending # {} \/ Rebuilding)
      BY <1>7, <2>2 DEF ProcessUpdates, Goto
    <3>2. ~overlap' => \A t \in Senders : spc[t] # "sending" /\ spc[t] # "clean"
      BY <1>a, <3>1 DEF Sending, Rebuilding
    <3> QED BY <1>2, <2>1, <3>1, <3>2 DEF OneUpdate
  <2>3. CASE ~updated
    <3>1. spc' = [spc EXCEPT ![s] = "rebuild"]
      BY <1>7, <2>3 DEF ProcessUpdates, Goto
    <3> QED BY <1>2, <2>1, <3>1 DEF OneUpdate
  <2> QED BY <2>2, <2>3
<1>8. ASSUME NEW s \in Senders, SendUpdates(s) PROVE OneUpdate'
  <2>1. spc[s] = "sending" /\ spc' = [spc EXCEPT ![s] = "rebuild"]
    BY <1>8 DEF SendUpdates, Goto
  <2> QED BY <1>2, <2>1 DEF OneUpdate
<1>9. ASSUME NEW s \in Senders, SendReinit(s) PROVE OneUpdate'
  <2>1. /\ client' = NoWindows /\ spc' = [spc EXCEPT ![s] = "clean"]
        /\ overlap' = (overlap \/ Sending # {})
    BY <1>9 DEF SendReinit, Goto
  <2>2. ~overlap' => \A t \in Senders : spc[t] # "sending"
    BY <1>a, <2>1 DEF Sending
  <2> QED BY <1>2, <2>1, <2>2 DEF OneUpdate
<1>10. ASSUME NEW s \in Senders, CleanEverything(s) PROVE OneUpdate'
  <2>1. client' = client /\ spc' = [spc EXCEPT ![s] = "top"]
    BY <1>10 DEF CleanEverything, Goto
  <2> QED BY <1>2, <2>1 DEF OneUpdate
<1>11. ASSUME NEW i \in Id, ClientIconifies(i) PROVE OneUpdate'
  BY <1>3, <1>11 DEF ClientIconifies, threads
<1>12. CASE XServer
  BY <1>3, <1>12, XServerKeeps
<1>13. CASE CheckWindows \/ Iconify \/ RefuseRequest
  BY <1>3, <1>13 DEF CheckWindows, Iconify, RefuseRequest, threads
<1>14. CASE ChangeWindow
  BY <1>3, <1>14 DEF ChangeWindow
<1>15. CASE CompareFocus \/ RebuildCaches \/ Disconnect
  BY <1>3, <1>15 DEF CompareFocus, RebuildCaches, Disconnect, threads
<1>16. CASE UNCHANGED vars
  BY <1>3, <1>16 DEF vars, threads
<1> QED
  BY <1>4, <1>5, <1>6, <1>7, <1>8, <1>9, <1>10, <1>11, <1>12, <1>13, <1>14,
     <1>15, <1>16, StepsOf

(* Without a client there are no entries, no request and, unless a thread  *)
(* was overtaken, no update.                                               *)
Offline ==
  ~connected =>
    /\ list = <<>> /\ request = Null
    /\ ~overlap => \A s \in Senders : hand[s] = <<>>

(* An empty list makes an empty update.                                    *)
LEMMA EmptyList ==
  ASSUME ListShape, list = <<>>
  PROVE  Updates = <<>> /\ Remaining = <<>>
<1>1. Pending(list) = {} /\ DOMAIN list = {}
  BY DEF Pending
<1>2. Updates \in Seq(Messages) /\ DOMAIN Updates = {}
  BY <1>1, UpdatesIs
<1>3. Remaining \in Seq(Entries) /\ DOMAIN Remaining = {}
  BY <1>1, RemainingIs, RemainingEntries
<1>4. ASSUME NEW X, NEW s \in Seq(X), DOMAIN s = {} PROVE s = <<>>
  <2>1. Len(s) \in Nat /\ DOMAIN s = 1 .. Len(s)
    BY LenProperties
  <2>2. Len(s) = 0
    BY <1>4, <2>1
  <2> QED BY <2>2, EmptySeq
<1> QED BY <1>2, <1>3, <1>4

LEMMA OfflineKept ==
  ASSUME Shape, Offline, [Next]_vars
  PROVE  Offline'
<1>1. ThreadShape /\ ThreadShape'
  BY ShapeKept DEF Shape
<1>a. overlap \in BOOLEAN /\ overlap' \in BOOLEAN
  BY <1>1 DEF ThreadShape
<1>2. /\ ~overlap' => ~overlap
      /\ hand \in [Senders -> Seq(Messages)]
      /\ \A s \in Senders : hand[s] # <<>> => spc[s] = "sending"
  BY <1>1, DisorderStays DEF ThreadShape
<1>3. CASE UNCHANGED <<connected, list, request, hand>>
  BY <1>2, <1>3 DEF Offline
<1>4. CASE connected /\ connected' = connected
  BY <1>4 DEF Offline
<1>5. ASSUME NEW s \in Senders, Accept(s) PROVE Offline'
  BY <1>5 DEF Accept, Offline
<1>6. CASE Disconnect
  <2>1. /\ list' = <<>> /\ request' = Null /\ hand' = hand
        /\ overlap' = (overlap \/ Sending # {} \/ main.pc # "idle")
    BY <1>6 DEF Disconnect, DeleteAllWindows, threads
  <2>2. ~overlap' => \A s \in Senders : hand[s] = <<>>
    BY <1>2, <1>a, <2>1 DEF Sending
  <2> QED BY <2>1, <2>2 DEF Offline
<1>7. ASSUME NEW s \in Senders, ProcessUpdates(s), ~connected PROVE Offline'
  <2>1. list = <<>> /\ request = Null
    BY <1>7 DEF Offline
  <2>2. Updates = <<>> /\ Remaining = <<>>
    BY <2>1, EmptyList DEF Shape
  <2>3. /\ list' = <<>> /\ request' = Null
        /\ \A t \in Senders : hand[t] = <<>> => hand'[t] = <<>>
    BY <1>2, <1>7, <2>1, <2>2 DEF ProcessUpdates
  <2> QED BY <1>2, <1>7, <2>3 DEF Offline
<1>8. ASSUME NEW s \in Senders, SendUpdates(s), ~connected PROVE Offline'
  <2>1. /\ connected' = connected /\ list' = list /\ request' = request
        /\ hand' = [hand EXCEPT ![s] = <<>>]
    BY <1>8 DEF SendUpdates, HandFreed, flags
  <2> QED BY <1>2, <1>8, <2>1 DEF Offline
<1>9. ASSUME NEW s \in Senders, CleanEverything(s), ~connected PROVE Offline'
  <2>1. list' = <<>> /\ connected' = connected /\ request' = request
        /\ hand' = hand
    BY <1>9 DEF CleanEverything, DeleteAllWindows, flags
  <2> QED BY <1>2, <1>9, <2>1 DEF Offline
<1>10. ASSUME NEW s \in Senders, \/ ProcessUpdates(s) \/ SendUpdates(s)
                                 \/ CleanEverything(s)
       PROVE  connected' = connected
  BY <1>10 DEF ProcessUpdates, SendUpdates, CleanEverything, flags
<1>11. ASSUME NEW s \in Senders, CheckConnected(s) PROVE Offline'
  BY <1>3, <1>11 DEF CheckConnected, flags
<1>12. ASSUME NEW s \in Senders, TakeRebuild(s) \/ SendReinit(s) PROVE Offline'
  BY <1>3, <1>12 DEF TakeRebuild, SendReinit, flags
<1>13. ASSUME NEW i \in Id, \/ \E g \in Geom, sib \in Ids : ClientChanges(i, g, sib)
                            \/ ClientIconifies(i)
       PROVE  Offline'
  BY <1>4, <1>13 DEF ClientChanges, ClientIconifies, flags
<1>14. CASE XServer
  BY <1>3, <1>14, XServerKeeps
<1>15. CASE CheckWindows \/ RebuildCaches
  BY <1>4, <1>15 DEF CheckWindows, RebuildCaches
<1>16. CASE Iconify \/ RefuseRequest
  BY <1>4, <1>16 DEF Iconify, RefuseRequest, HasRequest, flags
<1>17. CASE ChangeWindow
  BY <1>4, <1>17 DEF ChangeWindow, HasRequest, flags
<1>18. CASE CompareFocus
  BY <1>3, <1>18 DEF CompareFocus, flags
<1>19. CASE UNCHANGED vars
  BY <1>3, <1>19 DEF vars, flags, threads
<1>20. ASSUME NEW s \in Senders, \/ ProcessUpdates(s) \/ SendUpdates(s)
                                 \/ CleanEverything(s)
       PROVE  Offline'
  BY <1>4, <1>7, <1>8, <1>9, <1>10, <1>20
<1> QED
  BY <1>5, <1>6, <1>11, <1>12, <1>13, <1>14, <1>15, <1>16, <1>17, <1>18,
     <1>19, <1>20, StepsOf

-----------------------------------------------------------------------------
(* Names.                                                                  *)

(* An entry and a window of the tree have the same address when they have  *)
(* the same id, and the entry names the sibling it points to.              *)
Named(e) ==
  /\ \A p \in InTree : e.ptr = p <=> e.id = win[p].id
  /\ e.sib = Null => e.sibId = Null
  /\ e.sib \in InTree => e.sibId = win[e.sib].id

(* No two entries have the same id.                                        *)
IdsDiffer == \A m, n \in DOMAIN list : list[m].id = list[n].id => m = n

(* Unless an address or an id was handed out again too early.              *)
EntriesNamed == ~recycled => IdsDiffer /\ \A n \in DOMAIN list : Named(list[n])

(* The entries a check leaves, without their places.                       *)
LEMMA CheckedEntries ==
  ASSUME TreeShape, ListShape
  PROVE  /\ \A k \in DOMAIN CheckedList :
              \/ \E p \in Shown \ Listed : CheckedList[k] = NewEntry(p)
              \/ \E n \in DOMAIN list : CheckedList[k] = Checked(list[n])
         /\ \A p \in Shown \ Listed :
              \E k \in DOMAIN CheckedList : CheckedList[k] = NewEntry(p)
         /\ \A n \in DOMAIN list :
              \E k \in DOMAIN CheckedList : CheckedList[k] = Checked(list[n])
<1> DEFINE L == CheckedList
           l == Len(list)
<1>1. l \in Nat /\ DOMAIN list = 1 .. l
  BY ListFacts
<1>2. \E M \in Nat : \E f \in [1 .. M -> (Shown \ Listed)] :
        /\ DOMAIN L = 1 .. M + l
        /\ \A p \in Shown \ Listed : \E k \in 1 .. M : f[k] = p
        /\ \A k \in 1 .. M : L[k] = NewEntry(f[k])
        /\ \A n \in 1 .. l : L[M + n] = Checked(list[n])
  BY CheckedListIs
<1> HIDE DEF L, l
<1>3. PICK M \in Nat : \E f \in [1 .. M -> (Shown \ Listed)] :
        /\ DOMAIN L = 1 .. M + l
        /\ \A p \in Shown \ Listed : \E k \in 1 .. M : f[k] = p
        /\ \A k \in 1 .. M : L[k] = NewEntry(f[k])
        /\ \A n \in 1 .. l : L[M + n] = Checked(list[n])
  BY <1>2
<1>4. PICK f \in [1 .. M -> (Shown \ Listed)] :
        /\ DOMAIN L = 1 .. M + l
        /\ \A p \in Shown \ Listed : \E k \in 1 .. M : f[k] = p
        /\ \A k \in 1 .. M : L[k] = NewEntry(f[k])
        /\ \A n \in 1 .. l : L[M + n] = Checked(list[n])
  BY <1>3
<1>5. ASSUME NEW k \in DOMAIN L
      PROVE  \/ \E p \in Shown \ Listed : L[k] = NewEntry(p)
             \/ \E n \in DOMAIN list : L[k] = Checked(list[n])
  <2>1. CASE k \in 1 .. M
    BY <1>4, <2>1
  <2>2. CASE k \notin 1 .. M
    <3>1. k - M \in 1 .. l /\ M + (k - M) = k
      BY <1>1, <1>4, <2>2
    <3> QED BY <1>1, <1>4, <3>1
  <2> QED BY <2>1, <2>2
<1>6. ASSUME NEW p \in Shown \ Listed
      PROVE  \E k \in DOMAIN L : L[k] = NewEntry(p)
  <2>1. PICK k \in 1 .. M : f[k] = p
    BY <1>4
  <2>2. k \in DOMAIN L
    BY <1>1, <1>4
  <2> QED BY <1>4, <2>1, <2>2
<1>7. ASSUME NEW n \in DOMAIN list
      PROVE  \E k \in DOMAIN L : L[k] = Checked(list[n])
  <2>1. M + n \in DOMAIN L /\ n \in 1 .. l
    BY <1>1, <1>4
  <2> QED BY <1>4, <2>1
<1> QED BY <1>5, <1>6, <1>7 DEF L

(* The check fills in names that agree with the tree.                      *)
LEMMA FilledNamed ==
  ASSUME TreeShape, NEW p \in InTree, NEW st
  PROVE  Named(Filled(p, st))
<1> DEFINE e == Filled(p, st)
<1>1. /\ e.ptr = p /\ e.id = win[p].id
      /\ e.sib = NextSib(p) /\ e.sibId = IdOf(NextSib(p))
  BY DEF Filled
<1> HIDE DEF e
<1>2. \A q, r \in InTree : win[q].id = win[r].id => q = r
  BY DEF TreeShape
<1>3. Null \notin InTree
  BY StackFacts, NullAssumption DEF TreeShape
<1>4. Named(e)
  BY <1>1, <1>2, <1>3 DEF Named, IdOf
<1> QED BY <1>4 DEF e

(* An entry's names stay true when the tree changes.                       *)
LEMMA NamedStays ==
  ASSUME NEW e, Named(e), TreeGoesOn,
         \A p \in Ptr, i \in Id :
           CreateWindow(p, i) => e.ptr # p /\ e.sib # p /\ e.id # i
  PROVE  Named(e)'
<1>1. CASE InTree' \subseteq InTree /\ \A q \in InTree' : win'[q].id = win[q].id
  <2>1. \A q \in InTree' : q \in InTree /\ win'[q].id = win[q].id
    BY <1>1
  <2> QED BY <2>1 DEF Named
<1>2. ASSUME NEW p \in Ptr, NEW i \in Id, CreateWindow(p, i),
             InTree' \subseteq InTree \cup {p},
             win'[p].id = i, \A q \in InTree : win'[q].id = win[q].id
      PROVE  Named(e)'
  <2>1. e.ptr # p /\ e.sib # p /\ e.id # i
    BY <1>2
  <2>2. \A q \in InTree' : \/ q = p
                           \/ q \in InTree /\ win'[q].id = win[q].id
    BY <1>2
  <2> QED BY <1>2, <2>1, <2>2 DEF Named
<1> QED BY <1>1, <1>2 DEF TreeGoesOn

(* A check gives no two entries the same id.                               *)
LEMMA CheckNames ==
  ASSUME TreeShape, ListShape, IdsDiffer,
         \A n \in DOMAIN list : Named(list[n]), CheckWindows
  PROVE  IdsDiffer' /\ \A k \in DOMAIN list' : Named(list[k])'
<1> DEFINE l == Len(list)
<1>1. list' = CheckedList /\ InTree' = InTree /\ win' = win
  BY DEF CheckWindows, server, InTree, Places
<1>2. /\ l \in Nat /\ DOMAIN list = 1 .. l
      /\ \A n \in DOMAIN list : list[n] \in Entries
      /\ Shown \subseteq InTree
  BY ListFacts DEF Shown
<1>3. \E M \in Nat : \E f \in [1 .. M -> (Shown \ Listed)] :
        /\ DOMAIN list' = 1 .. M + l
        /\ \A k, j \in 1 .. M : f[k] = f[j] => k = j
        /\ \A k \in 1 .. M : list'[k] = NewEntry(f[k])
        /\ \A n \in 1 .. l : list'[M + n] = Checked(list[n])
  BY <1>1, CheckedListIs
<1>4. PICK M \in Nat : \E f \in [1 .. M -> (Shown \ Listed)] :
        /\ DOMAIN list' = 1 .. M + l
        /\ \A k, j \in 1 .. M : f[k] = f[j] => k = j
        /\ \A k \in 1 .. M : list'[k] = NewEntry(f[k])
        /\ \A n \in 1 .. l : list'[M + n] = Checked(list[n])
  BY <1>3
<1>5. PICK f \in [1 .. M -> (Shown \ Listed)] :
        /\ DOMAIN list' = 1 .. M + l
        /\ \A k, j \in 1 .. M : f[k] = f[j] => k = j
        /\ \A k \in 1 .. M : list'[k] = NewEntry(f[k])
        /\ \A n \in 1 .. l : list'[M + n] = Checked(list[n])
  BY <1>4
<1> HIDE DEF l
<1>6. ASSUME NEW k \in 1 .. M
      PROVE  /\ list'[k].id = win[f[k]].id /\ Named(list'[k])
             /\ f[k] \in InTree /\ f[k] \notin Listed
  <2>1. f[k] \in InTree /\ f[k] \notin Listed /\ list'[k] = NewEntry(f[k])
    BY <1>2, <1>5
  <2>2. NewEntry(f[k]).id = win[f[k]].id /\ Named(NewEntry(f[k]))
    BY <2>1, FilledNamed DEF NewEntry, Filled
  <2> QED BY <2>1, <2>2
<1>7. ASSUME NEW n \in 1 .. l
      PROVE  list'[M + n].id = list[n].id /\ Named(list'[M + n])
  <2> DEFINE e == list[n]
  <2>1. e \in Entries /\ Named(e) /\ list'[M + n] = Checked(e)
    BY <1>2, <1>5
  <2> HIDE DEF e
  <2>2. CASE e.ptr \in Shown
    <3>1. Named(Found(e)) /\ Found(e).id = win[e.ptr].id
      BY <1>2, <2>2, FilledNamed DEF Found, Filled
    <3>2. e.id = win[e.ptr].id
      BY <1>2, <2>1, <2>2 DEF Named
    <3> QED BY <2>1, <2>2, <3>1, <3>2 DEF Checked, e
  <2>3. CASE e.ptr \notin Shown
    <3> DEFINE d == NotFound(e)
    <3>1. d.ptr = e.ptr /\ d.id = e.id /\ d.sib = e.sib /\ d.sibId = e.sibId
      BY <2>1, NotFoundIs
    <3>2. list'[M + n] = d
      BY <2>1, <2>3 DEF Checked
    <3> HIDE DEF d
    <3>3. Named(d)
      BY <2>1, <3>1 DEF Named
    <3> QED BY <3>1, <3>2, <3>3 DEF e
  <2> QED BY <2>2, <2>3
<1>8. \A k \in 1 .. M + l : \/ k \in 1 .. M
                            \/ k - M \in 1 .. l /\ M + (k - M) = k
  BY <1>2
<1>9. IdsDiffer'
  <2> SUFFICES ASSUME NEW j \in 1 .. M + l, NEW k \in 1 .. M + l,
                      list'[j].id = list'[k].id
               PROVE  j = k
    BY <1>5 DEF IdsDiffer
  <2>1. ASSUME NEW i \in 1 .. M, NEW n \in 1 .. l
        PROVE  list'[i].id # list'[M + n].id
    <3>1. list[n].ptr \in Listed /\ Named(list[n])
      BY <1>2 DEF Listed
    <3>2. list[n].id # win[f[i]].id
      BY <1>6, <3>1 DEF Named
    <3> QED BY <1>6, <1>7, <3>2
  <2>2. CASE j \in 1 .. M /\ k \in 1 .. M
    <3>1. f[j] \in InTree /\ f[k] \in InTree /\ win[f[j]].id = win[f[k]].id
      BY <1>6, <2>2
    <3>2. f[j] = f[k]
      BY <3>1 DEF TreeShape
    <3> QED BY <1>5, <2>2, <3>2
  <2>3. CASE j \notin 1 .. M /\ k \notin 1 .. M
    <3>1. list[j - M].id = list[k - M].id /\ j - M \in 1 .. l /\ k - M \in 1 .. l
      BY <1>7, <1>8, <2>3
    <3>2. j - M = k - M
      BY <1>2, <3>1 DEF IdsDiffer
    <3> QED BY <1>2, <3>2
  <2> QED BY <1>8, <2>1, <2>2, <2>3
<1>10. ASSUME NEW k \in DOMAIN list' PROVE Named(list[k])'
  <2>1. Named(list'[k])
    BY <1>5, <1>6, <1>7, <1>8
  <2> QED BY <1>1, <2>1 DEF Named
<1> QED BY <1>9, <1>10

(* Neither does a request.                                                 *)
LEMMA ChangeNames ==
  ASSUME Shape, IdsDiffer, \A n \in DOMAIN list : Named(list[n]), ChangeWindow
  PROVE  IdsDiffer' /\ \A k \in DOMAIN list' : Named(list[k])'
<1> USE DEF Shape
<1>1. /\ DOMAIN list' = DOMAIN list
      /\ \A n \in DOMAIN list : /\ list'[n].ptr = list[n].ptr
                                /\ list'[n].id = list[n].id
  BY ChangeKeepsEntries
<1>2. IdsDiffer'
  BY <1>1 DEF IdsDiffer
<1>3. /\ \A q \in InTree : q # Null /\ q \in Ptr
      /\ \A n \in DOMAIN list : list[n] \in Entries
  BY StackFacts, NullAssumption, ListFacts DEF TreeShape
<1>4. PICK p \in InTree \cap Listed, sib \in InTree \cup {Null} :
        /\ request \in Requests
        /\ list' = [n \in DOMAIN list |->
                      IF list[n].ptr = p
                      THEN Touched(list[n], sib, NextSibAny(p) # sib)
                      ELSE list[n]]
        /\ win' = [win EXCEPT ![p].geom = request.geom]
  BY <1>3, ChangeWindowIs
<1>5. InTree' \subseteq InTree /\ \A q \in InTree' : win'[q].id = win[q].id
  <2>1. ASSUME NEW q \in Ptr, NEW i \in Id, CreateWindow(q, i) PROVE FALSE
    <3>1. main'.pc = "focus" /\ main.pc = "idle"
      BY ChangeWindowIs, <1>4 DEF ChangeWindow, HasRequest
    <3>2. main' = main
      BY <2>1 DEF CreateWindow, TreeChanges, threads
    <3> QED BY <3>1, <3>2
  <2>2. TreeGoesOn
    BY TreeShapeKept DEF Next, MainStep
  <2> QED BY <2>1, <2>2 DEF TreeGoesOn
<1>6. ASSUME NEW n \in DOMAIN list
      PROVE  \/ list'[n].sib = list[n].sib /\ list'[n].sibId = list[n].sibId
             \/ list'[n].sib = sib /\ list'[n].sibId = IdOf(sib)
  <2>1. CASE list[n].ptr = p
    <3> DEFINE e == list[n]
               r == NextSibAny(p) # sib
    <3>1. e \in Entries /\ r \in BOOLEAN /\ sib \in Ptr \cup {Null}
      BY <1>3
    <3>2. list'[n] = Touched(e, sib, r)
      BY <1>4, <2>1
    <3> HIDE DEF e, r
    <3>3. /\ Touched(e, sib, r).sib = IF r THEN sib ELSE e.sib
          /\ Touched(e, sib, r).sibId = IF r THEN IdOf(sib) ELSE e.sibId
      BY <1>4, <3>1, TouchedIs
    <3> QED BY <3>1, <3>2, <3>3 DEF e
  <2>2. CASE list[n].ptr # p
    BY <1>4, <2>2
  <2> QED BY <2>1, <2>2
<1>7. ASSUME NEW k \in DOMAIN list' PROVE Named(list[k])'
  <2>1. k \in DOMAIN list /\ Named(list[k])
    BY <1>1
  <2>2. \A q \in InTree' : q \in InTree /\ win'[q].id = win[q].id
    BY <1>5
  <2>3. \A q \in InTree' : list'[k].ptr = q <=> list'[k].id = win'[q].id
    BY <1>1, <2>1, <2>2 DEF Named
  <2>4. /\ list'[k].sib = Null => list'[k].sibId = Null
        /\ list'[k].sib \in InTree' => list'[k].sibId = win'[list'[k].sib].id
    <3>1. CASE list'[k].sib = list[k].sib /\ list'[k].sibId = list[k].sibId
      BY <2>1, <2>2, <3>1 DEF Named
    <3>2. CASE list'[k].sib = sib /\ list'[k].sibId = IdOf(sib)
      BY <1>3, <2>2, <3>2 DEF IdOf
    <3> QED BY <1>6, <2>1, <3>1, <3>2
  <2> QED BY <2>3, <2>4 DEF Named
<1> QED BY <1>2, <1>7

LEMMA EntriesNamedKept ==
  ASSUME Shape, EntriesNamed, [Next]_vars
  PROVE  EntriesNamed'
<1>1. /\ TreeShape /\ ListShape /\ ThreadShape /\ TreeGoesOn
      /\ ~recycled' => ~recycled
  BY TreeShapeKept, ShapeKept, DisorderStays DEF Shape
<1>2. CASE recycled'
  BY <1>2 DEF EntriesNamed
<1>3. CASE ~recycled'
  <2>1. IdsDiffer /\ \A n \in DOMAIN list : Named(list[n])
    BY <1>1, <1>3 DEF EntriesNamed
  <2>2. ASSUME NEW p \in Ptr, NEW i \in Id, CreateWindow(p, i)
        PROVE  \A n \in DOMAIN list :
                 list[n].ptr # p /\ list[n].sib # p /\ list[n].id # i
    <3>1. recycled' = \/ recycled
                      \/ \E n \in DOMAIN list :
                           p \in {list[n].ptr, list[n].sib} \/ list[n].id = i
      BY <2>2 DEF CreateWindow
    <3>2. recycled' \in BOOLEAN /\ recycled \in BOOLEAN
      BY <1>1, ShapeKept DEF ThreadShape, Shape
    <3>3. ~ \E n \in DOMAIN list :
                 p \in {list[n].ptr, list[n].sib} \/ list[n].id = i
      BY <1>3, <3>1, <3>2
    <3> QED BY <3>3
  <2>3. ASSUME NEW n \in DOMAIN list, NEW e, e = list[n] PROVE Named(e)'
    <3>1. /\ Named(e)
          /\ \A p \in Ptr, i \in Id :
               CreateWindow(p, i) => e.ptr # p /\ e.sib # p /\ e.id # i
      BY <2>1, <2>2, <2>3
    <3> QED BY <1>1, <3>1, NamedStays
  <2>4. CASE list' = list
    <3>1. IdsDiffer'
      BY <2>1, <2>4 DEF IdsDiffer
    <3>2. ASSUME NEW n \in DOMAIN list' PROVE Named(list[n])'
      <4>1. PICK e : e = list[n]
        OBVIOUS
      <4>2. Named(e)' /\ e = list'[n]
        BY <2>3, <2>4, <4>1
      <4> QED BY <4>2 DEF Named
    <3> QED BY <3>1, <3>2 DEF EntriesNamed
  <2>5. CASE list' = <<>>
    BY <2>5 DEF EntriesNamed, IdsDiffer
  <2>6. CASE CheckWindows
    BY <1>1, <2>1, <2>6, CheckNames DEF EntriesNamed
  <2>7. CASE ChangeWindow
    BY <1>1, <2>1, <2>7, ChangeNames DEF EntriesNamed
  <2>8. ASSUME NEW s \in Senders, ProcessUpdates(s), updated
        PROVE  EntriesNamed'
    <3> DEFINE r == Remaining
    <3>1. list' = r /\ InTree' = InTree /\ win' = win
      BY <2>8 DEF ProcessUpdates, server, InTree, Places
    <3>2. /\ \A k \in DOMAIN r : \E n \in DOMAIN list :
               /\ r[k].ptr = list[n].ptr /\ r[k].id = list[n].id
               /\ r[k].sib = list[n].sib /\ r[k].sibId = list[n].sibId
          /\ \A k, l \in DOMAIN r : r[k].id = r[l].id => k = l
      BY <1>1, <2>1, RemainingEntries DEF IdsDiffer
    <3> HIDE DEF r
    <3>3. IdsDiffer'
      BY <3>1, <3>2 DEF IdsDiffer
    <3>4. ASSUME NEW k \in DOMAIN list' PROVE Named(list[k])'
      <4>1. PICK n \in DOMAIN list :
              /\ list'[k].ptr = list[n].ptr /\ list'[k].id = list[n].id
              /\ list'[k].sib = list[n].sib /\ list'[k].sibId = list[n].sibId
        BY <3>1, <3>2
      <4>2. Named(list[n])
        BY <2>1
      <4> QED BY <3>1, <4>1, <4>2 DEF Named
    <3> QED BY <3>3, <3>4 DEF EntriesNamed
  <2>9. CASE XServer
    BY <2>4, <2>9, XServerKeeps
  <2>10. ASSUME NEW i \in Id, \/ \E g \in Geom, sib \in Ids : ClientChanges(i, g, sib)
                              \/ ClientIconifies(i)
         PROVE  EntriesNamed'
    BY <2>4, <2>10 DEF ClientChanges, ClientIconifies
  <2>11. CASE Iconify \/ RefuseRequest \/ CompareFocus \/ RebuildCaches
    BY <2>4, <2>11 DEF Iconify, RefuseRequest, CompareFocus, RebuildCaches
  <2>12. CASE Disconnect
    BY <2>5, <2>12 DEF Disconnect, DeleteAllWindows
  <2>13. ASSUME NEW s \in Senders, \/ Accept(s) \/ CheckConnected(s)
                                   \/ SendUpdates(s) \/ TakeRebuild(s)
                                   \/ SendReinit(s)
         PROVE  EntriesNamed'
    BY <2>4, <2>13 DEF Accept, CheckConnected, SendUpdates, TakeRebuild,
                       SendReinit
  <2>14. ASSUME NEW s \in Senders, CleanEverything(s) PROVE EntriesNamed'
    BY <2>5, <2>14 DEF CleanEverything, DeleteAllWindows
  <2>15. ASSUME NEW s \in Senders, ProcessUpdates(s) PROVE EntriesNamed'
    BY <2>4, <2>8, <2>15 DEF ProcessUpdates
  <2>16. CASE UNCHANGED vars
    BY <2>4, <2>16 DEF vars
  <2> HIDE DEF EntriesNamed
  <2> QED
    BY <2>6, <2>7, <2>9, <2>10, <2>11, <2>12, <2>13, <2>14, <2>15, <2>16,
       StepsOf
<1> QED BY <1>2, <1>3

-----------------------------------------------------------------------------
(* Settled checks.                                                         *)

(* After one check that found nothing left to send the list has every      *)
(* window that is shown, with its geometry, and marks the others WDEL;     *)
(* after a second one it has no others, and their order.                   *)
SettledOnce ==
  /\ Shown \subseteq Listed
  /\ \A n \in DOMAIN list :
       /\ list[n].ptr \in Shown <=> list[n].state # "WDEL"
       /\ list[n].ptr \in Shown => list[n].geom = win[list[n].ptr].geom

SettledTwice ==
  /\ Listed = Shown
  /\ \A n \in DOMAIN list : list[n].sib = NextBelow(list[n].ptr, Shown)

Settled == (settled >= 1 => SettledOnce) /\ (settled = 2 => SettledTwice)

(* A step that leaves the server alone leaves what is shown.               *)
LEMMA SameScreen ==
  ASSUME UNCHANGED server
  PROVE  /\ stack' = stack /\ win' = win /\ InTree' = InTree /\ Shown' = Shown
         /\ \A p, S : NextBelow(p, S)' = NextBelow(p, S)
BY DEF server, InTree, Places, Shown, NextBelow, Place

(* What a check makes of an entry, field by field.                         *)
LEMMA CheckedFields ==
  ASSUME TreeShape, ListShape, NEW n \in DOMAIN list
  PROVE  LET e == list[n]
             c == Checked(list[n])
         IN  /\ c.ptr = e.ptr
             /\ e.ptr \in Shown =>
                  /\ c.id = win[e.ptr].id /\ c.geom = win[e.ptr].geom
                  /\ c.sib = NextSib(e.ptr) /\ c.sibId = IdOf(NextSib(e.ptr))
                  /\ c.state = IF Differs(e) THEN "CHANGED" ELSE e.state
             /\ e.ptr \notin Shown =>
                  /\ c.id = e.id /\ c.geom = e.geom /\ c.sib = e.sib
                  /\ c.sibId = e.sibId /\ c.state = "WDEL"
<1> DEFINE e == list[n]
<1>1. e \in Entries
  BY ListFacts
<1> HIDE DEF e
<1>2. CASE e.ptr \in Shown
  BY <1>2 DEF Checked, Found, Filled, e
<1>3. CASE e.ptr \notin Shown
  BY <1>1, <1>3, NotFoundIs DEF Checked, e
<1> QED BY <1>2, <1>3 DEF e

(* A check that found nothing left to send settles the list.               *)
LEMMA CheckSettles ==
  ASSUME Shape, Settled, CheckWindows
  PROVE  Settled'
<1> USE DEF Shape
<1>1. /\ list' = CheckedList /\ Shown' = Shown /\ win' = win
      /\ \A p, S : NextBelow(p, S)' = NextBelow(p, S)
  BY SameScreen DEF CheckWindows
<1>2. /\ \A k \in DOMAIN list' :
           \/ \E p \in Shown \ Listed : list'[k] = NewEntry(p)
           \/ \E n \in DOMAIN list : list'[k] = Checked(list[n])
      /\ \A p \in Shown \ Listed : \E k \in DOMAIN list' : list'[k] = NewEntry(p)
      /\ \A n \in DOMAIN list : \E k \in DOMAIN list' : list'[k] = Checked(list[n])
  BY <1>1, CheckedEntries
<1>3. /\ settled \in 0 .. 2
      /\ settled' = IF Pending(list) = {} /\ settled < 2 THEN settled + 1
                    ELSE settled
  BY DEF CheckWindows, ThreadShape
<1>4. \A p : /\ NewEntry(p).ptr = p /\ NewEntry(p).state = "NEW"
             /\ NewEntry(p).geom = win[p].geom
  BY DEF NewEntry, Filled
<1>5. ASSUME NEW n \in DOMAIN list
      PROVE  /\ Checked(list[n]).ptr = list[n].ptr
             /\ list[n].ptr \in Shown =>
                  /\ Checked(list[n]).geom = win[list[n].ptr].geom
                  /\ Checked(list[n]).sib = NextSib(list[n].ptr)
                  /\ Checked(list[n]).state = IF Differs(list[n]) THEN "CHANGED"
                                              ELSE list[n].state
             /\ list[n].ptr \notin Shown => Checked(list[n]).state = "WDEL"
  BY CheckedFields
<1>6. Pending(list) = {} => \A n \in DOMAIN list : list[n].state = "UNCHANGED"
  BY DEF Pending
<1>7. ASSUME settled' >= 1 PROVE SettledOnce'
  <2>1. ASSUME NEW n \in DOMAIN list, list[n].ptr \in Shown
        PROVE  list[n].state # "WDEL"
    <3>1. CASE settled >= 1
      BY <2>1, <3>1 DEF Settled, SettledOnce
    <3>2. CASE Pending(list) = {}
      BY <1>6, <2>1, <3>2
    <3> QED BY <1>3, <1>7, <3>1, <3>2
  <2>2. Shown' \subseteq Listed'
    <3> SUFFICES ASSUME NEW p \in Shown
                 PROVE  \E k \in DOMAIN list' : list'[k].ptr = p
      BY <1>1 DEF Listed
    <3>1. CASE p \in Listed
      <4>1. PICK n \in DOMAIN list : list[n].ptr = p
        BY <3>1 DEF Listed
      <4> QED BY <1>2, <1>5, <4>1
    <3>2. CASE p \notin Listed
      BY <1>2, <1>4, <3>2
    <3> QED BY <3>1, <3>2
  <2>3. ASSUME NEW k \in DOMAIN list'
        PROVE  /\ list'[k].ptr \in Shown <=> list'[k].state # "WDEL"
               /\ list'[k].ptr \in Shown => list'[k].geom = win[list'[k].ptr].geom
    <3>1. ASSUME NEW p \in Shown, list'[k] = NewEntry(p)
          PROVE  /\ list'[k].ptr \in Shown <=> list'[k].state # "WDEL"
                 /\ list'[k].geom = win[list'[k].ptr].geom
      BY <1>4, <3>1
    <3>2. ASSUME NEW n \in DOMAIN list, list'[k] = Checked(list[n])
          PROVE  /\ list'[k].ptr \in Shown <=> list'[k].state # "WDEL"
                 /\ list'[k].ptr \in Shown =>
                      list'[k].geom = win[list'[k].ptr].geom
      <4>1. CASE list[n].ptr \in Shown
        BY <1>5, <2>1, <3>2, <4>1
      <4>2. CASE list[n].ptr \notin Shown
        BY <1>5, <3>2, <4>2
      <4> QED BY <4>1, <4>2
    <3> QED BY <1>2, <3>1, <3>2
  <2> QED BY <1>1, <2>2, <2>3 DEF SettledOnce
<1>8. ASSUME settled' = 2 PROVE SettledTwice'
  <2>1. Listed = Shown
    <3>1. CASE settled = 2
      BY <3>1 DEF Settled, SettledTwice
    <3>2. CASE settled = 1 /\ Pending(list) = {}
      <4>1. SettledOnce
        BY <3>2 DEF Settled
      <4>2. \A n \in DOMAIN list : list[n].ptr \in Shown
        BY <1>6, <3>2, <4>1 DEF SettledOnce
      <4> QED BY <4>1, <4>2 DEF SettledOnce, Listed
    <3> QED BY <1>3, <1>8, <3>1, <3>2
  <2>2. \A n \in DOMAIN list : list[n].ptr \in Shown
    BY <2>1 DEF Listed
  <2>3. ASSUME NEW k \in DOMAIN list'
        PROVE  /\ list'[k].ptr \in Shown
               /\ list'[k].sib = NextBelow(list'[k].ptr, Shown)
    <3>1. PICK n \in DOMAIN list : list'[k] = Checked(list[n])
      BY <1>2, <2>1
    <3>2. list[n].ptr \in Shown
      BY <2>2
    <3>3. /\ Checked(list[n]).ptr = list[n].ptr
          /\ Checked(list[n]).sib = NextSib(list[n].ptr)
      BY <1>5, <3>2
    <3>4. NextSib(list[n].ptr) = NextBelow(list[n].ptr, Shown)
      BY <2>1 DEF NextSib
    <3> QED BY <3>1, <3>2, <3>3, <3>4
  <2>4. ASSUME NEW p \in Shown PROVE \E k \in DOMAIN list' : list'[k].ptr = p
    <3>1. PICK n \in DOMAIN list : list[n].ptr = p
      BY <2>1 DEF Listed
    <3> QED BY <1>2, <1>5, <3>1
  <2>5. Listed' = Shown'
    BY <1>1, <2>3, <2>4 DEF Listed
  <2>6. \A k \in DOMAIN list' :
          list'[k].sib = NextBelow(list[k].ptr, Shown)'
    <3> TAKE k \in DOMAIN list'
    <3>1. list'[k].sib = NextBelow(list'[k].ptr, Shown)
      BY <2>3
    <3> QED BY <1>1, <3>1, SameScreen DEF NextBelow, Place, Places, CheckWindows, server
  <2> QED BY <2>5, <2>6 DEF SettledTwice
<1> QED BY <1>7, <1>8 DEF Settled

LEMMA SettledKept ==
  ASSUME Shape, Settled, [Next]_vars
  PROVE  Settled'
<1>1. CASE settled' = 0
  BY <1>1 DEF Settled
<1>2. CASE UNCHANGED <<stack, win, list, settled>>
  <2>1. /\ UNCHANGED server /\ win' = win /\ list' = list
        /\ Shown' = Shown /\ Listed' = Listed /\ settled' = settled
    BY <1>2, SameScreen DEF server, Listed
  <2>2. SettledOnce => SettledOnce'
    BY <2>1 DEF SettledOnce
  <2>3. ASSUME SettledTwice PROVE SettledTwice'
    <3>1. ASSUME NEW n \in DOMAIN list'
          PROVE  list'[n].sib = NextBelow(list[n].ptr, Shown)'
      <4>1. list'[n].sib = NextBelow(list'[n].ptr, Shown)
        BY <2>1, <2>3 DEF SettledTwice
      <4> QED BY <2>1, <4>1 DEF NextBelow, Place, Places, server
    <3> QED BY <2>1, <2>3, <3>1 DEF SettledTwice
  <2> QED BY <2>1, <2>2, <2>3 DEF Settled
<1>3. CASE CheckWindows
  BY <1>3, CheckSettles
<1>4. ASSUME NEW s \in Senders, ProcessUpdates(s), updated
      PROVE  Settled'
  <2> DEFINE r == Remaining
  <2>1. /\ list' = r /\ settled' = settled /\ UNCHANGED server
    BY <1>4 DEF ProcessUpdates
  <2>2. /\ \A k \in DOMAIN r : \E n \in DOMAIN list :
             /\ list[n].state # "WDEL" /\ r[k].state = "UNCHANGED"
             /\ r[k].ptr = list[n].ptr /\ r[k].geom = list[n].geom
             /\ r[k].sib = list[n].sib
        /\ \A n \in DOMAIN list : list[n].state # "WDEL" =>
             \E k \in DOMAIN r : r[k].ptr = list[n].ptr
    BY RemainingEntries DEF Shape
  <2> HIDE DEF r
  <2>3. win' = win /\ Shown' = Shown
    BY <2>1, SameScreen
  <2>4. ASSUME SettledOnce PROVE SettledOnce'
    <3>1. ASSUME NEW p \in Shown PROVE \E k \in DOMAIN list' : list'[k].ptr = p
      <4>1. PICK n \in DOMAIN list : list[n].ptr = p
        BY <2>4 DEF SettledOnce, Listed
      <4>2. list[n].state # "WDEL"
        BY <2>4, <4>1 DEF SettledOnce
      <4> QED BY <2>1, <2>2, <4>1, <4>2
    <3>2. Shown' \subseteq Listed'
      BY <2>3, <3>1 DEF Listed
    <3>3. ASSUME NEW k \in DOMAIN list'
          PROVE  /\ list'[k].ptr \in Shown /\ list'[k].state # "WDEL"
                 /\ list'[k].geom = win[list'[k].ptr].geom
      <4>1. PICK n \in DOMAIN list :
              /\ list[n].state # "WDEL" /\ list'[k].state = "UNCHANGED"
              /\ list'[k].ptr = list[n].ptr /\ list'[k].geom = list[n].geom
        BY <2>1, <2>2
      <4> QED BY <2>4, <4>1 DEF SettledOnce
    <3> QED BY <2>3, <3>2, <3>3 DEF SettledOnce
  <2>5. ASSUME SettledOnce, SettledTwice PROVE SettledTwice'
    <3>1. Listed' \subseteq Shown'
      <4>1. ASSUME NEW k \in DOMAIN list' PROVE list'[k].ptr \in Shown
        <5>1. PICK n \in DOMAIN list : list'[k].ptr = list[n].ptr
          BY <2>1, <2>2
        <5> QED BY <2>5, <5>1 DEF SettledTwice, Listed
      <4> QED BY <2>3, <4>1 DEF Listed
    <3>2. Shown' \subseteq Listed'
      BY <2>4, <2>5 DEF SettledOnce
    <3>3. ASSUME NEW k \in DOMAIN list'
          PROVE  list'[k].sib = NextBelow(list[k].ptr, Shown)'
      <4>1. PICK n \in DOMAIN list :
              list'[k].ptr = list[n].ptr /\ list'[k].sib = list[n].sib
        BY <2>1, <2>2
      <4>2. list'[k].sib = NextBelow(list'[k].ptr, Shown)
        BY <2>5, <4>1 DEF SettledTwice
      <4> QED BY <2>1, <2>3, <4>2 DEF NextBelow, Place, Places, server
    <3> QED BY <3>1, <3>2, <3>3 DEF SettledTwice
  <2>6. settled \in 0 .. 2
    BY DEF Shape, ThreadShape
  <2>7. settled' >= 1 => SettledOnce'
    BY <2>1, <2>4 DEF Settled
  <2>8. settled' = 2 => SettledTwice'
    BY <2>1, <2>5, <2>6 DEF Settled
  <2> QED BY <2>7, <2>8 DEF Settled
<1>5. CASE XServer
  BY <1>1, <1>5, XServerKeeps
<1>6. ASSUME NEW i \in Id, \/ \E g \in Geom, sib \in Ids : ClientChanges(i, g, sib)
                           \/ ClientIconifies(i)
      PROVE  Settled'
  BY <1>2, <1>6 DEF ClientChanges, ClientIconifies, server
<1>7. CASE Iconify
  <2>1. CASE Window(request.id) = Null
    BY <1>2, <1>7, <2>1 DEF Iconify
  <2>2. CASE Window(request.id) # Null
    BY <1>1, <1>7, <2>2 DEF Iconify
  <2> QED BY <2>1, <2>2
<1>8. CASE RefuseRequest \/ CompareFocus \/ RebuildCaches
  BY <1>2, <1>8 DEF RefuseRequest, CompareFocus, RebuildCaches, server, history
<1>9. CASE ChangeWindow
  BY <1>1, <1>9 DEF ChangeWindow
<1>10. CASE Disconnect
  BY <1>1, <1>10 DEF Disconnect, DeleteAllWindows
<1>11. ASSUME NEW s \in Senders, \/ Accept(s) \/ CheckConnected(s)
                                 \/ TakeRebuild(s)
       PROVE  Settled'
  BY <1>2, <1>11 DEF Accept, CheckConnected, TakeRebuild, server, history
<1>15. ASSUME NEW s \in Senders, SendUpdates(s) PROVE Settled'
  BY <1>2, <1>15 DEF SendUpdates, server
<1>16. ASSUME NEW s \in Senders, SendReinit(s) PROVE Settled'
  BY <1>2, <1>16 DEF SendReinit, server
<1>12. ASSUME NEW s \in Senders, CleanEverything(s) PROVE Settled'
  BY <1>1, <1>12 DEF CleanEverything, DeleteAllWindows
<1>13. ASSUME NEW s \in Senders, ProcessUpdates(s) PROVE Settled'
  BY <1>2, <1>4, <1>13 DEF ProcessUpdates, server
<1>14. CASE UNCHANGED vars
  BY <1>2, <1>14 DEF vars, server, history
<1> HIDE DEF Settled
<1> QED
  BY <1>3, <1>5, <1>6, <1>7, <1>8, <1>9, <1>10, <1>11, <1>12, <1>13, <1>14,
     <1>15, <1>16, StepsOf

-----------------------------------------------------------------------------
(* What the client knows.                                                  *)

(* The client's request about the window i that is on its way.             *)
Changing(i) == request # Null /\ request.kind = "change" /\ request.id = i

(* Windows c has no window the list does not know; of an entry that is not *)
(* marked it has what the entry says, or what the client asked for since.  *)
KnowsOnly(c) ==
  \A i \in Id : c[i] # Null => \E n \in DOMAIN list : list[n].id = i

KnowsAll(c) ==
  \A n \in DOMAIN list : list[n].state = "UNCHANGED" =>
    /\ c[list[n].id] # Null
    /\ ~Changing(list[n].id) =>
         c[list[n].id] = [geom |-> list[n].geom, sib |-> list[n].sibId]

AsAsked ==
  \A i \in Id : Changing(i) /\ client[i] # Null =>
    client[i] = [geom |-> request.geom, sib |-> request.sib]

Knows == KnowsOnly(ClientSoon) /\ KnowsAll(ClientSoon) /\ AsAsked

ClientKnows == Orderly /\ connected => Knows

(* The update that is being sent is the only one.                          *)
LEMMA SoonIs ==
  ASSUME Shape, OneUpdate, ~overlap
  PROVE  /\ (\A s \in Senders : spc[s] # "sending") => ClientSoon = client
         /\ \A s \in Senders : spc[s] = "sending" =>
              ClientSoon = Applied(client, hand[s])
         /\ ClientSoon \in [Id -> Info \cup {Null}]
<1> DEFINE t == CHOOSE s \in Sending : TRUE
<1>1. CASE Sending = {}
  <2>1. ClientSoon = client /\ \A s \in Senders : spc[s] # "sending"
    BY <1>1 DEF ClientSoon, Sending
  <2> QED BY <2>1 DEF Shape, ThreadShape
<1>2. CASE Sending # {}
  <2>1. t \in Sending
    BY <1>2
  <2>2. ClientSoon = Applied(client, hand[t])
    BY <1>2 DEF ClientSoon
  <2> HIDE DEF t
  <2>3. /\ t \in Senders /\ spc[t] = "sending"
        /\ \A s \in Senders : spc[s] = "sending" => s = t
    BY <2>1 DEF Sending, OneUpdate
  <2>4. client \in [Id -> Info \cup {Null}] /\ hand[t] \in Seq(Messages)
    BY <2>3 DEF Shape, ThreadShape
  <2>5. ClientSoon \in [Id -> Info \cup {Null}]
    BY <2>2, <2>4, AppliedIs
  <2> QED BY <2>2, <2>3, <2>5
<1> QED BY <1>1, <1>2

(* What the client has next depends on its windows and on the updates.     *)
LEMMA SameSoon ==
  ASSUME UNCHANGED <<client, hand>>, Sending' = Sending
  PROVE  ClientSoon' = ClientSoon
BY DEF ClientSoon

(* Messages say the same to whatever windows they reach.                   *)
LEMMA AppliedSame ==
  ASSUME NEW w, NEW v, NEW msgs, NEW i \in Id
  PROVE  \/ /\ Applied(w, msgs)[i] = w[i] /\ Applied(v, msgs)[i] = v[i]
         \/ Applied(w, msgs)[i] = Applied(v, msgs)[i]
BY DEF Applied

(* Of the client's windows, of the list and of the request nothing changed.*)
LEMMA KnowsSame ==
  ASSUME Knows, UNCHANGED <<list, client, request>>, ClientSoon' = ClientSoon
  PROVE  Knows'
BY DEF Knows, KnowsOnly, KnowsAll, AsAsked, Changing

(* A check unmarks nothing, and leaves an entry unmarked only if it finds  *)
(* what the entry says.                                                    *)
LEMMA CheckKnows ==
  ASSUME Shape, CheckWindows, Knows, \A n \in DOMAIN list : Named(list[n])
  PROVE  Knows'
<1> USE DEF Shape
<1>1. /\ list' = CheckedList /\ client' = client /\ request' = request
      /\ hand' = hand /\ Sending' = Sending
  BY DEF CheckWindows, threads, Sending
<1>2. ClientSoon' = ClientSoon
  BY <1>1, SameSoon
<1>3. /\ \A k \in DOMAIN list' :
           \/ \E p \in Shown \ Listed : list'[k] = NewEntry(p)
           \/ \E n \in DOMAIN list : list'[k] = Checked(list[n])
      /\ \A n \in DOMAIN list : \E k \in DOMAIN list' : list'[k] = Checked(list[n])
  BY <1>1, CheckedEntries
<1>4. ASSUME NEW n \in DOMAIN list PROVE Checked(list[n]).id = list[n].id
  <2>1. Shown \subseteq InTree /\ Named(list[n])
    BY DEF Shown
  <2>2. list[n].ptr \in Shown => list[n].id = win[list[n].ptr].id
    BY <2>1 DEF Named
  <2> QED BY <2>2, CheckedFields
<1>5. KnowsOnly(ClientSoon)'
  <2> SUFFICES ASSUME NEW i \in Id, ClientSoon[i] # Null
               PROVE  \E k \in DOMAIN list' : list'[k].id = i
    BY <1>2 DEF KnowsOnly
  <2>1. PICK n \in DOMAIN list : list[n].id = i
    BY DEF Knows, KnowsOnly
  <2> QED BY <1>3, <1>4, <2>1
<1>6. ASSUME NEW n \in DOMAIN list, Checked(list[n]).state = "UNCHANGED"
      PROVE  /\ list[n].state = "UNCHANGED"
             /\ Checked(list[n]).geom = list[n].geom
             /\ Checked(list[n]).sibId = list[n].sibId
  <2>1. list[n].ptr \in Shown
    BY <1>6, CheckedFields
  <2>2. /\ Checked(list[n]).geom = win[list[n].ptr].geom
        /\ Checked(list[n]).sibId = IdOf(NextSib(list[n].ptr))
        /\ Checked(list[n]).state = IF Differs(list[n]) THEN "CHANGED"
                                    ELSE list[n].state
    BY <2>1, CheckedFields
  <2>3. ~Differs(list[n]) /\ list[n].state = "UNCHANGED"
    BY <1>6, <2>2
  <2>4. list[n].geom = win[list[n].ptr].geom /\ list[n].sib = NextSib(list[n].ptr)
    BY <2>3 DEF Differs
  <2>5. list[n].sib = Null \/ list[n].sib \in InTree
    BY <2>4, NextBelowIsThere DEF NextSib, TreeShape
  <2>6. IdOf(list[n].sib) = list[n].sibId
    <3>1. \A p \in InTree : p # Null
      BY StackFacts, NullAssumption DEF TreeShape
    <3>2. Named(list[n])
      OBVIOUS
    <3> QED BY <2>5, <3>1, <3>2 DEF Named, IdOf
  <2> QED BY <2>2, <2>3, <2>4, <2>6
<1>7. KnowsAll(ClientSoon)'
  <2> SUFFICES ASSUME NEW k \in DOMAIN list', list'[k].state = "UNCHANGED"
               PROVE  /\ ClientSoon[list'[k].id] # Null
                      /\ ~Changing(list[k].id)' =>
                           ClientSoon[list'[k].id] =
                             [geom |-> list'[k].geom, sib |-> list'[k].sibId]
    BY <1>2 DEF KnowsAll
  <2>1. \A p : NewEntry(p).state = "NEW"
    BY DEF NewEntry, Filled
  <2>2. PICK n \in DOMAIN list : list'[k] = Checked(list[n])
    BY <1>3, <2>1
  <2>3. /\ list[n].state = "UNCHANGED" /\ list'[k].id = list[n].id
        /\ list'[k].geom = list[n].geom /\ list'[k].sibId = list[n].sibId
    BY <1>4, <1>6, <2>2
  <2>4. Changing(list[k].id)' = Changing(list[n].id)
    BY <1>1, <2>3 DEF Changing
  <2> QED BY <2>3, <2>4 DEF Knows, KnowsAll
<1>8. AsAsked'
  BY <1>1 DEF Knows, AsAsked, Changing
<1> QED BY <1>5, <1>7, <1>8 DEF Knows

(* A request says what the client has now.                                 *)
LEMMA ClientChangesKnows ==
  ASSUME Shape, OneUpdate, ~overlap, Shape', OneUpdate', ~overlap', Knows,
         NEW i \in Id, NEW g \in Geom, NEW sib \in Ids, ClientChanges(i, g, sib)
  PROVE  Knows'
<1> DEFINE told == [geom |-> g, sib |-> sib]
<1>1. /\ request = Null /\ client[i] # Null
      /\ client' = [client EXCEPT ![i] = told]
      /\ request' = [kind |-> "change", id |-> i, geom |-> g, sib |-> sib]
      /\ list' = list /\ hand' = hand /\ Sending' = Sending
  BY DEF ClientChanges, threads, Sending
<1>2. request' # Null /\ told # Null
  <2>1. told \in Info /\ request' \in Requests
    BY <1>1 DEF Info, Requests
  <2> QED BY <2>1, NullAssumption
<1>3. client \in [Id -> Info \cup {Null}]
  BY DEF Shape, ThreadShape
<1> HIDE DEF told
<1>4. client'[i] = told /\ \A j \in Id : j # i => client'[j] = client[j]
  BY <1>1, <1>3
<1>5. \A j \in Id : \/ /\ ClientSoon[j] = client[j]
                       /\ ClientSoon'[j] = client'[j]
                    \/ ClientSoon'[j] = ClientSoon[j]
  <2>1. CASE Sending = {}
    BY <1>1, <2>1 DEF ClientSoon
  <2>2. CASE Sending # {}
    <3> DEFINE t == CHOOSE s \in Sending : TRUE
    <3>1. /\ ClientSoon = Applied(client, hand[t])
          /\ ClientSoon' = Applied(client', hand[t])
      BY <1>1, <2>2 DEF ClientSoon
    <3> HIDE DEF t
    <3> QED BY <3>1, AppliedSame
  <2> QED BY <2>1, <2>2
<1>6. \A j \in Id : ClientSoon'[j] # Null => ClientSoon[j] # Null
  BY <1>1, <1>4, <1>5
<1>7. KnowsOnly(ClientSoon)'
  BY <1>1, <1>6 DEF Knows, KnowsOnly
<1>8. KnowsAll(ClientSoon)'
  <2> SUFFICES ASSUME NEW n \in DOMAIN list, list[n].state = "UNCHANGED"
               PROVE  /\ ClientSoon'[list[n].id] # Null
                      /\ ~Changing(list[n].id)' =>
                           ClientSoon'[list[n].id] =
                             [geom |-> list[n].geom, sib |-> list[n].sibId]
    BY <1>1 DEF KnowsAll, Changing
  <2>1. /\ ClientSoon[list[n].id] # Null
        /\ ClientSoon[list[n].id] = [geom |-> list[n].geom, sib |-> list[n].sibId]
    BY <1>1 DEF Knows, KnowsAll, Changing
  <2>2. list[n].id \in Id
    BY ListFacts DEF Shape, Entries
  <2>3. ~Changing(list[n].id)' => list[n].id # i
    BY <1>1, <1>2 DEF Changing
  <2>4. ClientSoon'[list[n].id] \in {ClientSoon[list[n].id], client'[list[n].id]}
    BY <1>5, <2>2
  <2>5. CASE list[n].id = i
    BY <1>2, <1>4, <2>1, <2>3, <2>4, <2>5
  <2>6. CASE list[n].id # i
    <3>1. ClientSoon'[list[n].id] = ClientSoon[list[n].id]
      BY <1>4, <1>5, <2>2, <2>6
    <3> QED BY <2>1, <3>1
  <2> QED BY <2>5, <2>6
<1>9. AsAsked'
  <2>1. \A j \in Id : Changing(j)' => j = i
    BY <1>1 DEF Changing
  <2>2. request'.geom = g /\ request'.sib = sib
    BY <1>1
  <2> QED BY <1>4, <2>1, <2>2 DEF AsAsked, told
<1> QED BY <1>7, <1>8, <1>9 DEF Knows

(* A request that meets no change leaves in the entry what the client has. *)
LEMMA ChangeKnows ==
  ASSUME Shape, OneUpdate, ~overlap, Knows, IdsDiffer,
         \A n \in DOMAIN list : Named(list[n]), ChangeWindow, ~crossed'
  PROVE  Knows'
<1> USE DEF Shape
<1>1. /\ stack \in Seq(Ptr) /\ \A q \in InTree : q # Null /\ q \in Ptr
      /\ \A n \in DOMAIN list : list[n] \in Entries
      /\ \A m, n \in DOMAIN list : list[m].ptr = list[n].ptr => m = n
  BY StackFacts, NullAssumption, ListFacts DEF TreeShape, ListShape
<1>2. PICK p \in InTree \cap Listed, sib \in InTree \cup {Null} :
        /\ request \in Requests /\ request.kind = "change"
        /\ win[p].id = request.id
        /\ list' = [n \in DOMAIN list |->
                      IF list[n].ptr = p
                      THEN Touched(list[n], sib, NextSibAny(p) # sib)
                      ELSE list[n]]
        /\ crossed' = (crossed \/ Crosses(Entry(p), sib))
  BY <1>1, ChangeWindowIs
<1>3. /\ client' = client /\ request' = Null /\ hand' = hand
      /\ Sending' = Sending
  BY DEF ChangeWindow, HasRequest, Sending
<1>4. ClientSoon' = ClientSoon
  BY <1>3, SameSoon
<1>5. /\ DOMAIN list' = DOMAIN list
      /\ \A n \in DOMAIN list : /\ list'[n].id = list[n].id
                                /\ list'[n].state = list[n].state
  BY ChangeKeepsEntries
<1>6. request # Null
  BY <1>2, NullAssumption
<1>7. KnowsOnly(ClientSoon)'
  BY <1>4, <1>5 DEF Knows, KnowsOnly
<1>8. ~Crosses(Entry(p), sib)
  <2>1. crossed' \in BOOLEAN
    BY ShapeKept DEF ThreadShape, Next, MainStep
  <2> QED BY <1>2, <2>1
<1>9. ASSUME NEW n \in DOMAIN list, list[n].state = "UNCHANGED", list[n].ptr = p
      PROVE  ClientSoon[list[n].id] =
               [geom |-> list'[n].geom, sib |-> list'[n].sibId]
  <2> DEFINE e == list[n]
             r == NextSibAny(p) # sib
  <2>1. Entry(p) = e
    <3> DEFINE m == CHOOSE k \in DOMAIN list : list[k].ptr = p
    <3>1. m \in DOMAIN list /\ list[m].ptr = p
      BY <1>9
    <3>2. Entry(p) = list[m]
      BY DEF Entry
    <3> HIDE DEF m
    <3> QED BY <1>1, <1>9, <3>1, <3>2
  <2>2. /\ ~Differs(e) /\ ~InUpdate(e.id) /\ IdOf(sib) = request.sib
        /\ sib \in (Shown \cap Listed) \cup {Null}
    BY <1>8, <2>1 DEF Crosses
  <2>3. e \in Entries /\ r \in BOOLEAN /\ sib \in Ptr \cup {Null} /\ Named(e)
    BY <1>1
  <2>4. e.ptr = p /\ e.state = "UNCHANGED" /\ list'[n] = Touched(e, sib, r)
    BY <1>2, <1>9
  <2>5. e.id = request.id
    BY <1>2, <2>3, <2>4 DEF Named
  <2>6. e.geom = win[p].geom /\ e.sib = NextSib(p)
    BY <2>2, <2>4 DEF Differs
  <2>7. ClientSoon[e.id] # Null
    BY <2>4 DEF Knows, KnowsAll
  <2>8. NextSibAny(p) = sib => e.sib = sib
    <3> SUFFICES ASSUME NextSibAny(p) = sib PROVE e.sib = sib
      OBVIOUS
    <3>1. NextBelow(p, InTree) \in Listed \cup {Null}
      BY <2>2 DEF NextSibAny
    <3>2. NextBelow(p, Listed) = NextBelow(p, InTree)
      BY <1>1, <3>1, NextBelowAdjacent
    <3> QED BY <2>6, <3>2 DEF NextSibAny, NextSib
  <2>9. r = FALSE <=> NextSibAny(p) = sib
    OBVIOUS
  <2> HIDE DEF e, r
  <2>10. /\ Touched(e, sib, r).geom = IF win[e.ptr].geom # request.geom
                                      THEN request.geom ELSE e.geom
         /\ Touched(e, sib, r).sibId = IF r THEN IdOf(sib) ELSE e.sibId
    BY <1>2, <2>3, TouchedIs
  <2>11. list'[n].geom = request.geom
    BY <2>4, <2>6, <2>10
  <2>12. list'[n].sibId = request.sib
    <3>1. CASE r
      BY <2>2, <2>4, <2>10, <3>1
    <3>2. CASE ~r
      <4>1. e.sib = sib
        BY <2>3, <2>8, <2>9, <3>2
      <4>2. e.sibId = IdOf(sib)
        BY <1>1, <2>3, <4>1 DEF Named, IdOf
      <4> QED BY <2>2, <2>4, <2>10, <3>2, <4>2
    <3> QED BY <3>1, <3>2
  <2>13. ClientSoon[e.id] = client[e.id]
    <3>1. CASE Sending = {}
      BY <3>1 DEF ClientSoon
    <3>2. CASE Sending # {}
      <4>1. PICK s \in Senders : spc[s] = "sending"
        BY <3>2 DEF Sending
      <4>2. ClientSoon = Applied(client, hand[s])
        BY <4>1, SoonIs
      <4>3. \A k \in DOMAIN hand[s] : hand[s][k].id # e.id
        BY <2>2, <4>1 DEF InUpdate
      <4>4. /\ client \in [Id -> Info \cup {Null}] /\ hand[s] \in Seq(Messages)
            /\ e.id \in Id
        BY <2>3 DEF ThreadShape, Entries
      <4> QED BY <4>2, <4>3, <4>4, AppliedIs
    <3> QED BY <3>1, <3>2
  <2>14. Changing(e.id) /\ e.id \in Id
    BY <1>2, <1>6, <2>3, <2>5 DEF Changing, Entries
  <2>15. client[e.id] = [geom |-> request.geom, sib |-> request.sib]
    BY <2>7, <2>13, <2>14 DEF Knows, AsAsked
  <2> QED BY <2>11, <2>12, <2>13, <2>15 DEF e
<1>10. ASSUME NEW n \in DOMAIN list, list[n].state = "UNCHANGED", list[n].ptr # p
       PROVE  ClientSoon[list[n].id] =
                [geom |-> list'[n].geom, sib |-> list'[n].sibId]
  <2>1. Named(list[n])
    OBVIOUS
  <2>2. list[n].id # request.id
    BY <1>2, <1>10, <2>1 DEF Named
  <2>3. ~Changing(list[n].id) /\ list'[n] = list[n]
    BY <1>2, <1>10, <2>2 DEF Changing
  <2> QED BY <1>10, <2>3 DEF Knows, KnowsAll
<1>11. KnowsAll(ClientSoon)'
  <2> SUFFICES ASSUME NEW n \in DOMAIN list, list[n].state = "UNCHANGED"
               PROVE  /\ ClientSoon[list[n].id] # Null
                      /\ ClientSoon[list[n].id] =
                           [geom |-> list'[n].geom, sib |-> list'[n].sibId]
    BY <1>4, <1>5 DEF KnowsAll
  <2> QED BY <1>9, <1>10 DEF Knows, KnowsAll
<1>12. AsAsked'
  BY <1>3 DEF AsAsked, Changing
<1> QED BY <1>7, <1>11, <1>12 DEF Knows

(* An update says of every marked entry what the list goes on saying, and  *)
(* of no other.                                                            *)
LEMMA ProcessKnows ==
  ASSUME Shape, OneUpdate, ~overlap, Shape', OneUpdate', ~overlap', Knows,
         IdsDiffer, NEW s \in Senders, ProcessUpdates(s), updated
  PROVE  Knows'
<1> USE DEF Shape
<1> DEFINE r == Remaining
           u == Updates
<1>1. /\ list' = r /\ client' = client /\ request' = request
      /\ hand' = [hand EXCEPT ![s] = u] /\ spc' = [spc EXCEPT ![s] = "sending"]
      /\ overlap' = (overlap \/ Sending # {} \/ Rebuilding)
  BY DEF ProcessUpdates, Goto
<1>2. /\ hand \in [Senders -> Seq(Messages)]
      /\ client \in [Id -> Info \cup {Null}]
      /\ overlap' \in BOOLEAN /\ overlap \in BOOLEAN
      /\ spc \in [Senders -> {"none", "top", "serve", "sending", "rebuild",
                              "reinit", "clean", "exit"}]
  BY DEF ThreadShape
<1>3. Sending = {}
  BY <1>1, <1>2
<1>4. ClientSoon = client
  BY <1>3 DEF ClientSoon
<1>5. Sending' = {s}
  <2>1. spc'[s] = "sending" /\ \A t \in Senders : t # s => spc'[t] # "sending"
    BY <1>1, <1>2, <1>3 DEF Sending
  <2> QED BY <2>1 DEF Sending
<1>6. ClientSoon' = Applied(client, u)
  <2>1. (CHOOSE t \in Sending' : TRUE) = s
    BY <1>5
  <2>2. hand'[s] = u
    BY <1>1, <1>2
  <2> HIDE DEF u
  <2> QED BY <1>1, <1>5, <2>1, <2>2 DEF ClientSoon
<1>7. /\ u \in Seq(Messages)
      /\ \A k \in DOMAIN u : \E n \in Pending(list) : u[k] = Message(list[n])
      /\ \A n \in Pending(list) : \E k \in DOMAIN u : u[k] = Message(list[n])
  BY UpdatesIs
<1>8. /\ \A k \in DOMAIN r : \E n \in DOMAIN list :
           /\ list[n].state # "WDEL" /\ r[k].state = "UNCHANGED"
           /\ r[k].id = list[n].id /\ r[k].geom = list[n].geom
           /\ r[k].sibId = list[n].sibId
      /\ \A n \in DOMAIN list : list[n].state # "WDEL" =>
           \E k \in DOMAIN r : r[k].id = list[n].id
  BY RemainingEntries
<1>9. \A n \in DOMAIN list : list[n] \in Entries
  BY ListFacts
<1> DEFINE c == Applied(client, u)
<1>10. \A i \in Id :
         \/ (\A k \in DOMAIN u : u[k].id # i) /\ c[i] = client[i]
         \/ \E k \in DOMAIN u :
              u[k].id = i /\ c[i] = IF u[k].deleted THEN Null ELSE u[k].info
  BY <1>2, <1>7, AppliedIs
<1> HIDE DEF c, u, r
<1>11. \A n \in Pending(list) : n \in DOMAIN list /\ list[n].state # "UNCHANGED"
  BY DEF Pending
<1>12. \A e : /\ Message(e).id = e.id /\ Message(e).deleted = (e.state = "WDEL")
              /\ Message(e).info = [geom |-> e.geom, sib |-> e.sibId]
  BY DEF Message
(* Of a marked entry the client has what the entry says, of a window that  *)
(* has no marked entry what it had.                                        *)
<1>13. ASSUME NEW n \in DOMAIN list, list[n].state # "UNCHANGED"
       PROVE  c[list[n].id] = IF list[n].state = "WDEL" THEN Null
                              ELSE [geom |-> list[n].geom, sib |-> list[n].sibId]
  <2>1. n \in Pending(list) /\ list[n].id \in Id
    BY <1>9, <1>13 DEF Pending, Entries
  <2>2. PICK l \in DOMAIN u : u[l] = Message(list[n])
    BY <1>7, <2>1
  <2>3. ~ \A k \in DOMAIN u : u[k].id # list[n].id
    BY <1>12, <2>2
  <2>4. PICK k \in DOMAIN u :
          /\ u[k].id = list[n].id
          /\ c[list[n].id] = IF u[k].deleted THEN Null ELSE u[k].info
    BY <1>10, <2>1, <2>3
  <2>5. PICK m \in Pending(list) : u[k] = Message(list[m])
    BY <1>7
  <2>6. m = n
    BY <1>11, <1>12, <2>4, <2>5 DEF IdsDiffer
  <2> QED BY <1>12, <2>4, <2>5, <2>6
<1>14. ASSUME NEW i \in Id,
              \A n \in DOMAIN list : list[n].id = i => list[n].state = "UNCHANGED"
       PROVE  c[i] = client[i]
  <2>1. \A k \in DOMAIN u : u[k].id # i
    <3> SUFFICES ASSUME NEW k \in DOMAIN u, u[k].id = i PROVE FALSE
      OBVIOUS
    <3>1. PICK m \in Pending(list) : u[k] = Message(list[m])
      BY <1>7
    <3> QED BY <1>11, <1>12, <1>14, <3>1
  <2> QED BY <1>10, <2>1
<1>15. KnowsOnly(ClientSoon)'
  <2> SUFFICES ASSUME NEW i \in Id, c[i] # Null
               PROVE  \E k \in DOMAIN r : r[k].id = i
    BY <1>1, <1>6 DEF KnowsOnly, c
  <2>1. \E n \in DOMAIN list : list[n].id = i /\ list[n].state # "WDEL"
    <3>1. CASE \A n \in DOMAIN list :
                 list[n].id = i => list[n].state = "UNCHANGED"
      <4>1. client[i] # Null
        BY <1>14, <3>1
      <4> QED BY <1>4, <3>1, <4>1 DEF Knows, KnowsOnly
    <3>2. ASSUME NEW n \in DOMAIN list, list[n].id = i,
                 list[n].state # "UNCHANGED"
          PROVE  \E m \in DOMAIN list : list[m].id = i /\ list[m].state # "WDEL"
      BY <1>13, <3>2
    <3> QED BY <3>1, <3>2
  <2> QED BY <1>8, <2>1
<1>16. KnowsAll(ClientSoon)'
  <2> SUFFICES ASSUME NEW k \in DOMAIN r
               PROVE  /\ c[r[k].id] # Null
                      /\ ~Changing(r[k].id) =>
                           c[r[k].id] = [geom |-> r[k].geom, sib |-> r[k].sibId]
    BY <1>1, <1>6 DEF KnowsAll, Changing, c
  <2>1. PICK n \in DOMAIN list :
          /\ list[n].state # "WDEL" /\ r[k].id = list[n].id
          /\ r[k].geom = list[n].geom /\ r[k].sibId = list[n].sibId
    BY <1>8
  <2>2. CASE list[n].state = "UNCHANGED"
    <3>1. c[list[n].id] = client[list[n].id]
      BY <1>9, <1>14, <2>2 DEF IdsDiffer, Entries
    <3>2. /\ client[list[n].id] # Null
          /\ ~Changing(list[n].id) =>
               client[list[n].id] = [geom |-> list[n].geom, sib |-> list[n].sibId]
      BY <1>4, <2>2 DEF Knows, KnowsAll
    <3> QED BY <2>1, <3>1, <3>2
  <2>3. CASE list[n].state # "UNCHANGED"
    <3>1. c[list[n].id] = [geom |-> list[n].geom, sib |-> list[n].sibId]
      BY <1>13, <2>1, <2>3
    <3>2. [geom |-> list[n].geom, sib |-> list[n].sibId] \in Info
      BY <1>9 DEF Info, Entries
    <3> QED BY <2>1, <3>1, <3>2, NullAssumption
  <2> QED BY <2>2, <2>3
<1>17. AsAsked'
  BY <1>1 DEF Knows, AsAsked, Changing
<1> QED BY <1>15, <1>16, <1>17 DEF Knows

(* Once the update is read the client has what was expected of it.         *)
LEMMA SendKnows ==
  ASSUME Shape, OneUpdate, ~overlap, ~crossed', Knows, Shape',
         NEW s \in Senders, SendUpdates(s)
  PROVE  Knows'
<1> USE DEF Shape
<1>1. /\ client' = Applied(client, hand[s]) /\ list' = list
      /\ request' = request /\ spc[s] = "sending"
      /\ spc' = [spc EXCEPT ![s] = "rebuild"]
      /\ crossed' = (crossed \/ (request # Null /\ InUpdate(request.id)))
  BY DEF SendUpdates, Goto
<1>2. /\ hand[s] \in Seq(Messages) /\ client \in [Id -> Info \cup {Null}]
      /\ spc \in [Senders -> {"none", "top", "serve", "sending", "rebuild",
                              "reinit", "clean", "exit"}]
  BY DEF ThreadShape
<1>3. crossed \in BOOLEAN /\ crossed' \in BOOLEAN
  BY DEF ThreadShape
<1>4. client' = ClientSoon
  BY <1>1, SoonIs
<1>5. Sending' = {}
  <2>1. \A t \in Senders : spc'[t] # "sending"
    BY <1>1, <1>2 DEF OneUpdate
  <2> QED BY <2>1 DEF Sending
<1>6. ClientSoon' = ClientSoon
  BY <1>4, <1>5 DEF ClientSoon
<1>7. KnowsOnly(ClientSoon)' /\ KnowsAll(ClientSoon)'
  BY <1>1, <1>6 DEF Knows, KnowsOnly, KnowsAll, Changing
<1>8. ASSUME request # Null PROVE client'[request.id] = client[request.id]
  <2>1. ~InUpdate(request.id)
    BY <1>1, <1>3, <1>8
  <2>2. \A k \in DOMAIN hand[s] : hand[s][k].id # request.id
    BY <2>1 DEF InUpdate
  <2>3. request.id \in Id
    BY <1>8 DEF ThreadShape, Requests
  <2> QED BY <1>1, <1>2, <2>2, <2>3, AppliedIs
<1>9. AsAsked'
  BY <1>1, <1>8 DEF Knows, AsAsked, Changing
<1> QED BY <1>7, <1>9 DEF Knows

(* A client without windows, and a list without entries.                   *)
LEMMA NothingKnown ==
  ASSUME Shape', list' = <<>>, client' = NoWindows,
         \A s \in Senders : hand'[s] = <<>>
  PROVE  Knows'
<1>1. NoWindows \in [Id -> Info \cup {Null}] /\ \A i \in Id : client'[i] = Null
  BY NoWindowsIs
<1>2. \A i \in Id : ClientSoon'[i] = Null
  <2>1. CASE Sending' = {}
    BY <1>1, <2>1 DEF ClientSoon
  <2>2. CASE Sending' # {}
    <3> DEFINE t == CHOOSE s \in Sending' : TRUE
    <3>1. t \in Senders
      BY <2>2 DEF Sending
    <3>2. ClientSoon' = Applied(client', hand'[t])
      BY <2>2 DEF ClientSoon
    <3> HIDE DEF t
    <3>3. ClientSoon' = Applied(NoWindows, <<>>)
      BY <3>1, <3>2
    <3>b. <<>> \in Seq(Messages)
      BY EmptySeq
    <3>4. PICK none \in Seq(Messages) : none = <<>>
      BY <3>b
    <3>a. DOMAIN none = {}
      <4>1. Len(none) = 0 /\ DOMAIN none = 1 .. Len(none)
        BY <3>4, EmptySeq, LenProperties
      <4> QED BY <4>1
    <3>5. \A i \in Id : Applied(NoWindows, none)[i] = NoWindows[i]
      BY <1>1, <3>a, AppliedIs
    <3>6. \A i \in Id : NoWindows[i] = Null
      BY NoWindowsIs
    <3> QED BY <3>3, <3>4, <3>5, <3>6
  <2> QED BY <2>1, <2>2
<1>3. KnowsOnly(ClientSoon)' /\ KnowsAll(ClientSoon)'
  BY <1>2 DEF KnowsOnly, KnowsAll
<1>4. AsAsked'
  BY <1>1 DEF AsAsked
<1> QED BY <1>3, <1>4 DEF Knows

LEMMA ClientKnowsKept ==
  ASSUME Shape, OneUpdate, Offline, EntriesNamed, ClientKnows, [Next]_vars
  PROVE  ClientKnows'
<1>1. /\ Shape' /\ OneUpdate' /\ ThreadShape /\ ThreadShape'
      /\ ~overlap' => ~overlap
      /\ ~recycled' => ~recycled
      /\ ~crossed' => ~crossed
  BY ShapeKept, OneUpdateKept, DisorderStays DEF Shape
<1>2. CASE ~(Orderly' /\ connected')
  BY <1>2 DEF ClientKnows
<1> SUFFICES ASSUME Orderly', connected' PROVE Knows'
  BY <1>2 DEF ClientKnows
<1>3. /\ ~overlap' /\ ~overlap /\ ~recycled /\ ~crossed /\ ~crossed'
      /\ \A s \in Senders : spc'[s] # "clean"
  BY <1>1 DEF Orderly, Rebuilding
<1>4. IdsDiffer /\ \A n \in DOMAIN list : Named(list[n])
  BY <1>3 DEF EntriesNamed
<1>5. spc \in [Senders -> {"none", "top", "serve", "sending", "rebuild",
                           "reinit", "clean", "exit"}]
  BY <1>1 DEF ThreadShape
<1>6. ASSUME connected, \A s \in Senders : spc[s] # "clean" PROVE Knows
  BY <1>3, <1>6 DEF ClientKnows, Orderly, Rebuilding
<1>7. ASSUME spc' = spc, connected PROVE Knows
  BY <1>3, <1>6, <1>7
<1>8. ASSUME NEW s \in Senders, connected,
             NEW pc \in {"top", "serve", "sending", "rebuild", "reinit", "exit"},
             spc[s] # "clean", spc' = [spc EXCEPT ![s] = pc]
      PROVE  Knows
  <2>1. \A t \in Senders : spc[t] # "clean"
    BY <1>3, <1>5, <1>8
  <2> QED BY <1>6, <1>8, <2>1
<1>9. ASSUME Knows, UNCHANGED <<list, client, request, hand>>, Sending' = Sending
      PROVE  Knows'
  BY <1>9, SameSoon, KnowsSame
<1>10. ASSUME spc' = spc PROVE Sending' = Sending
  BY <1>10 DEF Sending
<1>11. CASE XServer
  BY <1>7, <1>9, <1>10, <1>11, XServerKeeps
<1>12. CASE CheckWindows
  <2>1. spc' = spc /\ connected
    BY <1>12 DEF CheckWindows, threads
  <2> QED BY <1>4, <1>7, <1>12, <2>1, CheckKnows
<1>13. ASSUME NEW i \in Id, NEW g \in Geom, NEW sib \in Ids,
              ClientChanges(i, g, sib)
       PROVE  Knows'
  <2>1. spc' = spc /\ connected
    BY <1>13 DEF ClientChanges, threads
  <2> QED BY <1>1, <1>3, <1>7, <1>13, <2>1, ClientChangesKnows
<1>14. ASSUME request = Null \/ request.kind # "change",
              request' = Null \/ request'.kind # "change",
              Knows, UNCHANGED <<list, client, hand>>, Sending' = Sending
       PROVE  Knows'
  <2>1. ClientSoon' = ClientSoon
    BY <1>14, SameSoon
  <2>2. \A i : ~Changing(i) /\ ~Changing(i)'
    BY <1>14 DEF Changing
  <2>3. KnowsOnly(ClientSoon)'
    BY <1>14, <2>1 DEF Knows, KnowsOnly
  <2>4. KnowsAll(ClientSoon)'
    BY <1>14, <2>1, <2>2 DEF Knows, KnowsAll, Changing
  <2>5. AsAsked'
    BY <2>2 DEF AsAsked, Changing
  <2> QED BY <2>3, <2>4, <2>5 DEF Knows
<1>15. ASSUME NEW i \in Id, ClientIconifies(i) PROVE Knows'
  <2>1. /\ spc' = spc /\ connected /\ request = Null
        /\ request'.kind = "iconify"
        /\ UNCHANGED <<list, client, hand>>
    BY <1>15 DEF ClientIconifies, threads
  <2> QED BY <1>7, <1>10, <1>14, <2>1
<1>16. CASE Iconify
  <2>1. /\ spc' = spc /\ connected /\ request.kind = "iconify"
        /\ request' = Null
        /\ UNCHANGED <<list, client, hand>>
    BY <1>16 DEF Iconify, HasRequest, threads
  <2> QED BY <1>7, <1>10, <1>14, <2>1
<1>17. CASE RefuseRequest
  <2>1. /\ spc' = spc /\ connected /\ request' = Null
        /\ UNCHANGED <<list, client, hand>>
        /\ crossed' = (crossed \/ \E n \in DOMAIN list : list[n].id = request.id)
    BY <1>17 DEF RefuseRequest, HasRequest, threads
  <2>2. Knows
    BY <1>7, <2>1
  <2>3. \A n \in DOMAIN list : list[n].id # request.id
    <3>1. crossed \in BOOLEAN /\ crossed' \in BOOLEAN
      BY <1>1 DEF ThreadShape
    <3> QED BY <1>3, <2>1, <3>1
  <2>4. ClientSoon' = ClientSoon
    BY <1>10, <2>1, SameSoon
  <2>5. KnowsOnly(ClientSoon)'
    BY <2>1, <2>2, <2>4 DEF Knows, KnowsOnly
  <2>6. KnowsAll(ClientSoon)'
    BY <2>1, <2>2, <2>3, <2>4 DEF Knows, KnowsAll, Changing
  <2>7. AsAsked'
    BY <2>1 DEF AsAsked, Changing
  <2> QED BY <2>5, <2>6, <2>7 DEF Knows
<1>18. CASE ChangeWindow
  <2>1. spc' = spc /\ connected
    BY <1>18 DEF ChangeWindow, HasRequest
  <2> QED BY <1>3, <1>4, <1>7, <1>18, <2>1, ChangeKnows
<1>19. CASE CompareFocus
  <2>1. spc' = spc /\ connected /\ UNCHANGED <<list, client, request, hand>>
    BY <1>19 DEF CompareFocus, flags
  <2> QED BY <1>7, <1>9, <1>10, <2>1
<1>20. CASE Disconnect
  BY <1>20 DEF Disconnect
<1>21. CASE RebuildCaches
  <2>1. spc' = spc /\ connected /\ UNCHANGED <<list, client, request, hand>>
    BY <1>21 DEF RebuildCaches, threads
  <2> QED BY <1>7, <1>9, <1>10, <2>1
<1>22. ASSUME NEW s \in Senders, Accept(s) PROVE Knows'
  <2>1. /\ ~connected /\ list' = list /\ hand' = hand /\ client' = NoWindows
    BY <1>22 DEF Accept
  <2>2. list = <<>> /\ \A t \in Senders : hand[t] = <<>>
    BY <1>3, <2>1 DEF Offline
  <2> QED BY <1>1, <2>1, <2>2, NothingKnown
<1>23. ASSUME NEW s \in Senders, CheckConnected(s) PROVE Knows'
  <2>1. /\ connected /\ spc[s] = "top" /\ spc' = [spc EXCEPT ![s] = "serve"]
        /\ UNCHANGED <<list, client, request, hand>>
    BY <1>23 DEF CheckConnected, Goto, flags
  <2>2. Sending' = Sending
    BY <1>5, <2>1 DEF Sending
  <2> QED BY <1>8, <1>9, <2>1, <2>2
<1>24. ASSUME NEW s \in Senders, ProcessUpdates(s) PROVE Knows'
  <2>1. connected /\ spc[s] = "serve"
    BY <1>24 DEF ProcessUpdates
  <2>2. CASE updated
    <3>1. spc' = [spc EXCEPT ![s] = "sending"]
      BY <1>24, <2>2 DEF ProcessUpdates, Goto
    <3>2. Knows
      BY <1>8, <2>1, <3>1
    <3> QED BY <1>1, <1>3, <1>4, <1>24, <2>2, <3>2, ProcessKnows
  <2>3. CASE ~updated
    <3>1. /\ spc' = [spc EXCEPT ![s] = "rebuild"]
          /\ UNCHANGED <<list, client, request, hand>>
      BY <1>24, <2>3 DEF ProcessUpdates, Goto
    <3>2. Sending' = Sending
      BY <1>5, <2>1, <3>1 DEF Sending
    <3> QED BY <1>8, <1>9, <2>1, <3>1, <3>2
  <2> QED BY <2>2, <2>3
<1>25. ASSUME NEW s \in Senders, SendUpdates(s) PROVE Knows'
  <2>1. connected /\ spc[s] = "sending" /\ spc' = [spc EXCEPT ![s] = "rebuild"]
    BY <1>25 DEF SendUpdates, Goto, flags
  <2>2. Knows
    BY <1>8, <2>1
  <2> QED BY <1>1, <1>3, <1>25, <2>2, SendKnows
<1>26. ASSUME NEW s \in Senders, TakeRebuild(s) PROVE Knows'
  <2>1. /\ connected /\ spc[s] = "rebuild"
        /\ \E pc \in {"reinit", "top"} : spc' = [spc EXCEPT ![s] = pc]
        /\ UNCHANGED <<list, client, request, hand>>
    BY <1>26 DEF TakeRebuild, Goto
  <2>2. Sending' = Sending
    BY <1>5, <2>1 DEF Sending
  <2> QED BY <1>8, <1>9, <2>1, <2>2
<1>27. ASSUME NEW s \in Senders, SendReinit(s) PROVE Knows'
  <2>1. spc'[s] = "clean"
    BY <1>5, <1>27 DEF SendReinit, Goto
  <2> QED BY <1>3, <2>1
<1>28. ASSUME NEW s \in Senders, CleanEverything(s) PROVE Knows'
  <2>1. /\ spc[s] = "clean" /\ client' = client /\ hand' = hand /\ list' = <<>>
    BY <1>28 DEF CleanEverything, DeleteAllWindows
  <2>2. client = NoWindows /\ \A t \in Senders : spc[t] # "sending"
    BY <1>3, <2>1 DEF OneUpdate
  <2>3. \A t \in Senders : hand'[t] = <<>>
    BY <1>1, <2>1, <2>2 DEF ThreadShape
  <2> QED BY <1>1, <2>1, <2>2, <2>3, NothingKnown
<1>29. CASE UNCHANGED vars
  <2>1. spc' = spc /\ connected /\ UNCHANGED <<list, client, request, hand>>
    BY <1>29 DEF vars, threads, flags
  <2> QED BY <1>7, <1>9, <1>10, <2>1
<1> HIDE DEF Knows
<1> QED
  BY <1>11, <1>12, <1>13, <1>15, <1>16, <1>17, <1>18, <1>19, <1>20, <1>21,
     <1>22, <1>23, <1>24, <1>25, <1>26, <1>27, <1>28, <1>29, StepsOf

-----------------------------------------------------------------------------
(* The theorems.                                                           *)

(* The inductive invariant.                                                *)
Invariant ==
  /\ Shape /\ FocusKept /\ MarksAreFlagged /\ OneUpdate /\ Offline
  /\ EntriesNamed /\ Settled /\ ClientKnows

LEMMA InvariantHolds == Spec => []Invariant
<1>1. Init => Invariant
  <2> SUFFICES ASSUME Init PROVE Invariant
    OBVIOUS
  <2>1. /\ Shape /\ list = <<>> /\ main.pc = "idle" /\ ~connected
        /\ request = Null /\ settled = 0
        /\ \A s \in Senders : hand[s] = <<>> /\ spc[s] = "none"
    BY ShapeAtFirst DEF Init, MainIdle
  <2>2. FocusKept /\ MarksAreFlagged
    BY <2>1 DEF FocusKept, MarksAreFlagged, Pending
  <2>3. OneUpdate /\ Offline
    BY <2>1 DEF OneUpdate, Offline
  <2>4. EntriesNamed /\ Settled /\ ClientKnows
    BY <2>1 DEF EntriesNamed, IdsDiffer, Settled, ClientKnows
  <2> QED BY <2>1, <2>2, <2>3, <2>4 DEF Invariant
<1>2. Invariant /\ [Next]_vars => Invariant'
  <2> SUFFICES ASSUME Invariant, [Next]_vars PROVE Invariant'
    OBVIOUS
  <2>1. /\ Shape /\ FocusKept /\ MarksAreFlagged /\ OneUpdate /\ Offline
        /\ EntriesNamed /\ Settled /\ ClientKnows
    BY DEF Invariant
  <2>2. Shape' /\ FocusKept' /\ MarksAreFlagged'
    BY <2>1, ShapeKept, FocusKeptKept, MarksAreFlaggedKept
  <2>3. OneUpdate' /\ Offline' /\ EntriesNamed'
    BY <2>1, OneUpdateKept, OfflineKept, EntriesNamedKept
  <2>4. Settled' /\ ClientKnows'
    BY <2>1, SettledKept, ClientKnowsKept
  <2> QED BY <2>2, <2>3, <2>4 DEF Invariant
<1> QED BY <1>1, <1>2, PTL DEF Spec

(* As many windows or entries as places, since none comes twice.           *)
LEMMA PlacesCounted ==
  ASSUME NEW N \in Nat, NEW f, NEW T,
         \A k \in 1 .. N : f[k] \in T,
         \A k, l \in 1 .. N : f[k] = f[l] => k = l,
         \A x \in T : \E k \in 1 .. N : f[k] = x
  PROVE  Cardinality(T) = N
<1> DEFINE g == [k \in 1 .. N |-> f[k]]
<1>1. IsFiniteSet(1 .. N) /\ Cardinality(1 .. N) = N
  BY FS_Interval
<1>2. g \in Surjection(1 .. N, T)
  BY DEF Surjection
<1>3. g \in Injection(1 .. N, T)
  BY DEF Injection, IsInjective
<1>4. Cardinality(T) = Cardinality(1 .. N) <=> g \in Injection(1 .. N, T)
  BY <1>1, <1>2, FS_Surjection
<1> QED BY <1>1, <1>3, <1>4

(* The state keeps its shape; no window has two entries, and an update is  *)
(* in hand only while it is being sent.                                    *)
THEOREM TypeCorrect == Spec => []TypeOK
<1>1. Shape => TypeOK
  <2> SUFFICES ASSUME Shape PROVE TypeOK
    OBVIOUS
  <2> USE DEF Shape
  <2>1. stack \in Seq(Ptr) /\ Cardinality(InTree) = Len(stack)
    <3>1. /\ Len(stack) \in Nat /\ Places = 1 .. Len(stack)
          /\ \A m, n \in Places : stack[m] = stack[n] => m = n
      BY StackFacts DEF TreeShape, Distinct, Places
    <3>2. /\ \A n \in Places : stack[n] \in InTree
          /\ \A p \in InTree : \E n \in Places : stack[n] = p
      BY DEF InTree
    <3>3. /\ Len(stack) \in Nat /\ \A k \in 1 .. Len(stack) : stack[k] \in InTree
          /\ \A k, l \in 1 .. Len(stack) : stack[k] = stack[l] => k = l
          /\ \A x \in InTree : \E k \in 1 .. Len(stack) : stack[k] = x
      BY <3>1, <3>2
    <3>4. Cardinality(InTree) = Len(stack)
      BY <3>3, PlacesCounted
    <3> QED BY <3>4 DEF TreeShape
  <2>2. list \in Seq(Entries) /\ Cardinality(Listed) = Len(list)
    <3> DEFINE f == [n \in DOMAIN list |-> list[n].ptr]
    <3>1. /\ Len(list) \in Nat /\ DOMAIN list = 1 .. Len(list)
          /\ \A m, n \in DOMAIN list : f[m] = f[n] => m = n
      BY ListFacts DEF ListShape
    <3>2. /\ \A n \in DOMAIN list : f[n] \in Listed
          /\ \A p \in Listed : \E n \in DOMAIN list : f[n] = p
      BY DEF Listed
    <3> HIDE DEF f
    <3>3. /\ Len(list) \in Nat /\ \A k \in 1 .. Len(list) : f[k] \in Listed
          /\ \A k, l \in 1 .. Len(list) : f[k] = f[l] => k = l
          /\ \A x \in Listed : \E k \in 1 .. Len(list) : f[k] = x
      BY <3>1, <3>2
    <3>4. Cardinality(Listed) = Len(list)
      BY <3>3, PlacesCounted
    <3> QED BY <3>4 DEF ListShape
  <2>3. win \in [Ptr -> [id : Ids, shown : BOOLEAN, geom : Geom]]
    BY DEF TreeShape
  <2>4. /\ {updated, connected, rebuilt} \subseteq BOOLEAN
        /\ {recycled, crossed, overlap} \subseteq BOOLEAN
    BY DEF ThreadShape
  <2> QED BY <2>1, <2>2, <2>3, <2>4 DEF TypeOK, ThreadShape, Messages
<1> QED BY <1>1, InvariantHolds, PTL DEF Invariant

(* The entry client_win_change uses after it released the mutex is still   *)
(* there, unless it was marked WDEL when it was looked up.                 *)
THEOREM FocusCorrect == Spec => []EntryOutlivesRequest
<1>1. Invariant => EntryOutlivesRequest
  BY DEF Invariant, FocusKept, EntryOutlivesRequest, Listed
<1> QED BY <1>1, InvariantHolds, PTL

(* In the ordinary life of a session the list knows every window of the    *)
(* client, an entry that is not marked says what the client has, and       *)
(* windowsUpdated is set while one is marked: for any number of windows,   *)
(* ids and threads.                                                        *)
THEOREM ListCorrect == Spec => []ClientFollowsList
<1>1. Invariant => ClientFollowsList
  <2> SUFFICES ASSUME Invariant PROVE ClientFollowsList
    OBVIOUS
  <2>1. Orderly /\ connected => KnowsOnly(ClientSoon) /\ KnowsAll(ClientSoon)
    BY DEF Invariant, ClientKnows, Knows
  <2>2. Pending(list) # {} => updated
    BY DEF Invariant, MarksAreFlagged
  <2>3. ASSUME Orderly, connected
        PROVE  \A n \in DOMAIN list :
                 /\ list[n].state = "UNCHANGED"
                 /\ request = Null \/ request.id # list[n].id
                 => ClientSoon[list[n].id] =
                      [geom |-> list[n].geom, sib |-> list[n].sibId]
    BY <2>1, <2>3 DEF KnowsAll, Changing
  <2>4. ASSUME Orderly, connected
        PROVE  \A i \in Id :
                 ClientSoon[i] # Null => \E n \in DOMAIN list : list[n].id = i
    BY <2>1, <2>4 DEF KnowsOnly
  <2> QED BY <2>2, <2>3, <2>4 DEF ClientFollowsList
<1> QED BY <1>1, InvariantHolds, PTL

(* Once the windows stop changing, one check that finds nothing left to    *)
(* send means that the client has the windows on the screen with their     *)
(* geometry, and a second one that it has them in their order.             *)
THEOREM ScreenCorrect == Spec => []SettledScreenIsShown
<1>1. Invariant => SettledScreenIsShown
  <2> SUFFICES ASSUME Invariant, Orderly, connected, request = Null,
                      Sending = {}, Pending(list) = {}, settled >= 1
               PROVE  /\ {i \in Id : client[i] # Null} = {win[p].id : p \in Shown}
                      /\ \A p \in Shown : client[win[p].id].geom = win[p].geom
                      /\ settled = 2 =>
                           \A p \in Shown : client[win[p].id].sib =
                                              IdOf(NextBelow(p, Shown))
    <3>1. Invariant => settled \in 0 .. 2
      BY DEF Invariant, Shape, ThreadShape
    <3> QED BY <3>1 DEF SettledScreenIsShown
  <2>1. /\ Shape /\ SettledOnce /\ (settled = 2 => SettledTwice)
        /\ KnowsOnly(client) /\ KnowsAll(client)
        /\ \A n \in DOMAIN list : Named(list[n])
    BY DEF Invariant, Settled, ClientKnows, Knows, ClientSoon, EntriesNamed,
           Orderly
  <2>2. /\ Shown \subseteq InTree
        /\ \A p \in InTree : p # Null /\ p \in Ptr /\ win[p].id \in Id
        /\ \A n \in DOMAIN list : list[n].state = "UNCHANGED"
    BY <2>1, StackFacts, NullAssumption DEF Shown, Pending, Shape, TreeShape
  <2>3. ASSUME NEW n \in DOMAIN list
        PROVE  /\ list[n].ptr \in Shown /\ list[n].id = win[list[n].ptr].id
               /\ list[n].geom = win[list[n].ptr].geom
               /\ client[list[n].id] # Null
               /\ client[list[n].id] = [geom |-> list[n].geom,
                                        sib |-> list[n].sibId]
    <3>1. list[n].ptr \in Shown /\ list[n].geom = win[list[n].ptr].geom
      BY <2>1, <2>2 DEF SettledOnce
    <3>2. list[n].id = win[list[n].ptr].id
      BY <2>1, <2>2, <3>1 DEF Named
    <3> QED BY <2>1, <2>2, <3>1, <3>2 DEF KnowsAll, Changing
  <2>4. ASSUME NEW p \in Shown PROVE \E n \in DOMAIN list : list[n].ptr = p
    BY <2>1 DEF SettledOnce, Listed
  <2>5. {i \in Id : client[i] # Null} = {win[p].id : p \in Shown}
    <3>1. ASSUME NEW i \in Id, client[i] # Null
          PROVE  \E p \in Shown : win[p].id = i
      <4>1. PICK n \in DOMAIN list : list[n].id = i
        BY <2>1, <3>1 DEF KnowsOnly
      <4> QED BY <2>3, <4>1
    <3>2. ASSUME NEW p \in Shown
          PROVE  win[p].id \in Id /\ client[win[p].id] # Null
      <4>1. PICK n \in DOMAIN list : list[n].ptr = p
        BY <2>4
      <4> QED BY <2>2, <2>3, <4>1
    <3> QED BY <3>1, <3>2
  <2>6. ASSUME NEW p \in Shown PROVE client[win[p].id].geom = win[p].geom
    <3>1. PICK n \in DOMAIN list : list[n].ptr = p
      BY <2>4
    <3>2. client[win[p].id] = [geom |-> list[n].geom, sib |-> list[n].sibId]
      BY <2>3, <3>1
    <3>3. list[n].geom = win[p].geom
      BY <2>3, <3>1
    <3> QED BY <3>2, <3>3
  <2>7. ASSUME settled = 2, NEW p \in Shown
        PROVE  client[win[p].id].sib = IdOf(NextBelow(p, Shown))
    <3>1. PICK n \in DOMAIN list : list[n].ptr = p
      BY <2>4
    <3>2. list[n].sib = NextBelow(p, Shown)
      BY <2>1, <2>7, <3>1 DEF SettledTwice
    <3>3. list[n].sib = Null \/ list[n].sib \in InTree
      BY <2>1, <3>2, NextBelowIsThere DEF Shape, TreeShape
    <3>4. list[n].sibId = IdOf(list[n].sib)
      BY <2>1, <2>2, <3>3 DEF Named, IdOf
    <3>5. client[win[p].id] = [geom |-> list[n].geom, sib |-> list[n].sibId]
      BY <2>3, <3>1
    <3> QED BY <3>2, <3>4, <3>5
  <2> QED BY <2>5, <2>6, <2>7
<1> QED BY <1>1, InvariantHolds, PTL
=============================================================================
