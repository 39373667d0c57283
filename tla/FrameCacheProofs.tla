-------------------------- MODULE FrameCacheProofs --------------------------
(***************************************************************************)
(* For any contents, elements, connections and length of the cache: busy   *)
(* counts the users of an element, so eviction alone never frees one that  *)
(* is in use, and the client can draw every frame that is sent to it.      *)
(***************************************************************************)
EXTENDS FrameCache, FiniteSetTheorems, SequenceTheorems,
        WellFoundedInduction, TLAPS

-----------------------------------------------------------------------------
(* Sequences: what the list and the queue hold.                            *)

OneEach(q) == \A i, j \in DOMAIN q : q[i] = q[j] => i = j

LEMMA ElementsOf ==
  ASSUME NEW S, NEW q \in Seq(S)
  PROVE  /\ Len(q) \in Nat /\ DOMAIN q = 1 .. Len(q)
         /\ \A i \in 1 .. Len(q) : q[i] \in S /\ q[i] \in Elements(q)
         /\ \A e \in Elements(q) : \E i \in 1 .. Len(q) : e = q[i]
         /\ Elements(q) \subseteq S /\ IsFiniteSet(Elements(q))
<1>1. Len(q) \in Nat /\ DOMAIN q = 1 .. Len(q) /\ q \in [1 .. Len(q) -> S]
  BY LenProperties
<1>2. q \in Surjection(1 .. Len(q), Elements(q))
  BY <1>1 DEF Surjection, Elements
<1>3. IsFiniteSet(1 .. Len(q))
  BY <1>1, FS_Interval
<1>4. IsFiniteSet(Elements(q))
  BY <1>2, <1>3, FS_Surjection
<1>5. QED
  BY <1>1, <1>4 DEF Elements

LEMMA ElementsAppend ==
  ASSUME NEW S, NEW q \in Seq(S), NEW e \in S
  PROVE  Elements(Append(q, e)) = Elements(q) \cup {e}
<1>1. /\ Append(q, e) \in Seq(S) /\ Len(Append(q, e)) = Len(q) + 1
      /\ \A i \in 1 .. Len(q) : Append(q, e)[i] = q[i]
      /\ Append(q, e)[Len(q) + 1] = e
  BY AppendProperties
<1>2. /\ Len(q) \in Nat /\ DOMAIN q = 1 .. Len(q)
      /\ DOMAIN Append(q, e) = 1 .. Len(q) + 1
  BY <1>1, ElementsOf
<1>3. QED
  BY <1>1, <1>2 DEF Elements

LEMMA ElementsTail ==
  ASSUME NEW S, NEW q \in Seq(S), q # <<>>
  PROVE  /\ Elements(q) = Elements(Tail(q)) \cup {Head(q)}
         /\ Tail(q) \in Seq(S) /\ Head(q) \in S /\ Len(Tail(q)) = Len(q) - 1
         /\ Head(q) = q[1] /\ Len(q) # 0
         /\ \A i \in 1 .. Len(q) - 1 : Tail(q)[i] = q[i + 1]
<1>1. /\ Head(q) \in S /\ Tail(q) \in Seq(S) /\ Len(Tail(q)) = Len(q) - 1
      /\ \A i \in 1 .. Len(q) - 1 : Tail(q)[i] = q[i + 1]
  BY HeadTailProperties
<1>2. Len(q) \in Nat \ {0}
  BY EmptySeq
<1>3. Head(q) = q[1]
  OBVIOUS
<1>4. DOMAIN q = 1 .. Len(q) /\ DOMAIN Tail(q) = 1 .. Len(q) - 1
  BY <1>1, ElementsOf
<1>5. ASSUME NEW i \in 1 .. Len(q), i # 1
      PROVE  q[i] \in Elements(Tail(q))
  <2>1. i - 1 \in 1 .. Len(q) - 1 /\ (i - 1) + 1 = i
    BY <1>2, <1>5
  <2>2. q[i] = Tail(q)[i - 1]
    BY <1>1, <2>1
  <2>3. QED
    BY <2>1, <2>2, <1>4 DEF Elements
<1>6. Elements(q) \subseteq Elements(Tail(q)) \cup {Head(q)}
  BY <1>3, <1>4, <1>5 DEF Elements
<1>7. 1 \in 1 .. Len(q) /\ \A i \in 1 .. Len(q) - 1 : i + 1 \in 1 .. Len(q)
  BY <1>2
<1>8. Elements(Tail(q)) \cup {Head(q)} \subseteq Elements(q)
  BY <1>1, <1>3, <1>4, <1>7 DEF Elements
<1>9. QED
  BY <1>1, <1>2, <1>3, <1>6, <1>8

LEMMA UpTo ==
  ASSUME NEW n \in Nat
  PROVE  IsFiniteSet(1 .. n) /\ Cardinality(1 .. n) = n
<1>1. /\ IsFiniteSet(1 .. n)
      /\ Cardinality(1 .. n) = IF 1 > n THEN 0 ELSE n - 1 + 1
  BY FS_Interval
<1>2. (IF 1 > n THEN 0 ELSE n - 1 + 1) = n
  OBVIOUS
<1>3. QED
  BY <1>1, <1>2

LEMMA Part ==
  ASSUME NEW S, NEW q \in Seq(S), NEW i \in 1 .. Len(q) + 1,
         NEW j \in i - 1 .. Len(q)
  PROVE  /\ SubSeq(q, i, j) \in Seq(S) /\ Len(SubSeq(q, i, j)) = j - i + 1
         /\ \A m \in 1 .. j - i + 1 : SubSeq(q, i, j)[m] = q[i + m - 1]
<1>1. Len(q) \in Nat /\ \A m \in 1 .. Len(q) : q[m] \in S
  BY ElementsOf
<1>2. i \in Int /\ j \in Int /\ \A m \in i .. j : q[m] \in S
  BY <1>1
<1>3. /\ SubSeq(q, i, j) \in Seq(S)
      /\ Len(SubSeq(q, i, j)) = IF i <= j THEN j - i + 1 ELSE 0
      /\ \A m \in 1 .. j - i + 1 : SubSeq(q, i, j)[m] = q[i + m - 1]
  BY <1>2, SubSeqProperties
<1>4. (IF i <= j THEN j - i + 1 ELSE 0) = j - i + 1
  BY <1>1
<1>5. QED
  BY <1>3, <1>4

(* An element that is used again goes to the tail, and the list holds the  *)
(* same elements.                                                          *)
LEMMA MovedToTail ==
  ASSUME cache \in Seq(Addr), OneEach(cache), NEW a \in Live
  PROVE  LET c == MoveToTail(a)
         IN  /\ c \in Seq(Addr) /\ OneEach(c) /\ Elements(c) = Live
             /\ Len(c) = Len(cache) /\ Len(c) # 0 /\ c[Len(c)] = a
<1> DEFINE n == Len(cache)
           p == Position(a)
           w == Without(p)
<1>1. n \in Nat /\ DOMAIN cache = 1 .. n /\ \A i \in 1 .. n : cache[i] \in Addr
  BY ElementsOf
<1>2. p \in 1 .. n /\ cache[p] = a
  BY <1>1 DEF Live, Elements, Position
<1> HIDE DEF p
<1>3. /\ SubSeq(cache, 1, p - 1) \in Seq(Addr)
      /\ Len(SubSeq(cache, 1, p - 1)) = p - 1
      /\ \A i \in 1 .. p - 1 : SubSeq(cache, 1, p - 1)[i] = cache[i]
  <2>1. 1 \in 1 .. n + 1 /\ p - 1 \in 1 - 1 .. n /\ (p - 1) - 1 + 1 = p - 1
        /\ \A i \in 1 .. p - 1 : 1 + i - 1 = i
    BY <1>1, <1>2
  <2>2. QED
    BY <2>1, Part
<1>4. /\ SubSeq(cache, p + 1, n) \in Seq(Addr)
      /\ Len(SubSeq(cache, p + 1, n)) = n - p
      /\ \A i \in 1 .. n - p : SubSeq(cache, p + 1, n)[i] = cache[p + i]
  <2>1. p + 1 \in 1 .. n + 1 /\ n \in (p + 1) - 1 .. n
        /\ n - (p + 1) + 1 = n - p /\ \A i \in 1 .. n - p : (p + 1) + i - 1 = p + i
    BY <1>1, <1>2
  <2>2. QED
    BY <2>1, Part
<1>5. /\ w \in Seq(Addr) /\ Len(w) = n - 1
      /\ \A i \in 1 .. n - 1 : w[i] = IF i < p THEN cache[i] ELSE cache[i + 1]
  <2>1. /\ w \in Seq(Addr) /\ Len(w) = (p - 1) + (n - p)
        /\ \A i \in 1 .. (p - 1) + (n - p) :
             w[i] = IF i <= p - 1 THEN SubSeq(cache, 1, p - 1)[i]
                    ELSE SubSeq(cache, p + 1, n)[i - (p - 1)]
    <3> DEFINE first == SubSeq(cache, 1, p - 1)
               rest == SubSeq(cache, p + 1, n)
    <3>1. w = first \o rest
      BY DEF Without
    <3>2. /\ first \in Seq(Addr) /\ Len(first) = p - 1
          /\ rest \in Seq(Addr) /\ Len(rest) = n - p
      BY <1>3, <1>4
    <3> HIDE DEF first, rest, w
    <3>3. /\ w \in Seq(Addr) /\ Len(w) = Len(first) + Len(rest)
          /\ \A i \in 1 .. Len(first) + Len(rest) :
               w[i] = IF i <= Len(first) THEN first[i] ELSE rest[i - Len(first)]
      BY <3>1, <3>2, ConcatProperties
    <3>4. /\ w \in Seq(Addr) /\ Len(w) = (p - 1) + (n - p)
          /\ \A i \in 1 .. (p - 1) + (n - p) :
               w[i] = IF i <= p - 1 THEN first[i] ELSE rest[i - (p - 1)]
      BY <3>2, <3>3
    <3>5. QED
      BY <3>4 DEF first, rest
  <2>2. (p - 1) + (n - p) = n - 1
    BY <1>1, <1>2
  <2>3. ASSUME NEW i \in 1 .. n - 1
        PROVE  w[i] = IF i < p THEN cache[i] ELSE cache[i + 1]
    <3>1. CASE i < p
      BY <3>1, <2>1, <2>2, <1>2, <1>3
    <3>2. CASE ~(i < p)
      <4>1. i - (p - 1) \in 1 .. n - p /\ p + (i - (p - 1)) = i + 1
        BY <3>2, <1>1, <1>2
      <4>2. i \in 1 .. (p - 1) + (n - p) /\ ~(i <= p - 1)
        BY <3>2, <2>2, <1>1, <1>2
      <4>3. w[i] = SubSeq(cache, p + 1, n)[i - (p - 1)]
        BY <4>2, <2>1
      <4>4. SubSeq(cache, p + 1, n)[i - (p - 1)] = cache[i + 1]
        BY <4>1, <1>4
      <4>5. QED
        BY <3>2, <4>3, <4>4
    <3>3. QED
      BY <3>1, <3>2
  <2>4. QED
    BY <2>1, <2>2, <2>3
<1> HIDE DEF w
<1> DEFINE c == Append(w, a)
<1>6. /\ c \in Seq(Addr) /\ Len(c) = n
      /\ \A i \in 1 .. n - 1 : c[i] = IF i < p THEN cache[i] ELSE cache[i + 1]
      /\ c[n] = a
  <2>1. a \in Addr
    BY <1>1, <1>2
  <2>2. c \in Seq(Addr) /\ Len(c) = (n - 1) + 1 /\ c[(n - 1) + 1] = a
        /\ \A i \in 1 .. n - 1 : c[i] = w[i]
    BY <2>1, <1>5, AppendProperties
  <2>3. (n - 1) + 1 = n
    BY <1>1
  <2>4. QED
    BY <2>2, <2>3, <1>5
<1>7. MoveToTail(a) = c
  BY DEF MoveToTail, w, p
<1> HIDE DEF c
<1> HIDE DEF n
<1>8. DOMAIN c = 1 .. n
  BY <1>6, ElementsOf
<1> DEFINE From(i) == IF i = n THEN p ELSE IF i < p THEN i ELSE i + 1
           To(i) == IF i = p THEN n ELSE IF i < p THEN i ELSE i - 1
<1>9. \A i \in 1 .. n : From(i) \in 1 .. n /\ c[i] = cache[From(i)]
  BY <1>1, <1>2, <1>6
<1>10. \A i \in 1 .. n : To(i) \in 1 .. n /\ From(To(i)) = i
  BY <1>1, <1>2
<1>11. \A i, j \in 1 .. n : From(i) = From(j) => i = j
  BY <1>1, <1>2
<1> HIDE DEF From, To
<1>12. OneEach(c)
  BY <1>1, <1>8, <1>9, <1>11 DEF OneEach
<1>13. Elements(c) = Live
  <2>1. ASSUME NEW i \in 1 .. n PROVE c[i] \in Live
    BY <1>1, <1>9 DEF Live, Elements
  <2>2. ASSUME NEW i \in 1 .. n PROVE cache[i] \in Elements(c)
    <3>1. To(i) \in 1 .. n /\ c[To(i)] = cache[i]
      BY <1>9, <1>10
    <3>2. QED
      BY <3>1, <1>8 DEF Elements
  <2>3. QED
    BY <2>1, <2>2, <1>1, <1>8 DEF Live, Elements
<1>14. n # 0
  BY <1>2
<1>15. QED
  BY <1>6, <1>7, <1>12, <1>13, <1>14 DEF n

(* The list without its first k elements.                                  *)
LEMMA CutOff ==
  ASSUME cache \in Seq(Addr), OneEach(cache), NEW k \in 0 .. Len(cache)
  PROVE  LET c == SubSeq(cache, k + 1, Len(cache))
         IN  /\ c \in Seq(Addr) /\ OneEach(c) /\ Len(c) = Len(cache) - k
             /\ Elements(c) = Live \ {cache[i] : i \in 1 .. k}
             /\ k < Len(cache) => c[Len(c)] = cache[Len(cache)]
<1> DEFINE n == Len(cache)
           c == SubSeq(cache, k + 1, n)
<1>1. n \in Nat /\ k \in 0 .. n /\ DOMAIN cache = 1 .. n /\ \A i \in 1 .. n : cache[i] \in Addr
  BY ElementsOf
<1>2. /\ c \in Seq(Addr) /\ Len(c) = n - k
      /\ \A i \in 1 .. n - k : c[i] = cache[k + i]
  <2>1. k + 1 \in 1 .. n + 1 /\ n \in (k + 1) - 1 .. n
        /\ n - (k + 1) + 1 = n - k /\ \A i \in 1 .. n - k : (k + 1) + i - 1 = k + i
    BY <1>1
  <2>2. QED
    BY <2>1, Part
<1>3. DOMAIN c = 1 .. n - k
  BY <1>2, ElementsOf
<1> HIDE DEF c
<1> HIDE DEF n
<1>4. OneEach(c)
  <2>1. SUFFICES ASSUME NEW i \in 1 .. n - k, NEW j \in 1 .. n - k, c[i] = c[j]
                 PROVE  i = j
    BY <1>3 DEF OneEach
  <2>2. k + i \in 1 .. n /\ k + j \in 1 .. n
    BY <1>1
  <2>3. k + i = k + j
    BY <2>1, <2>2, <1>1, <1>2 DEF OneEach
  <2>4. QED
    BY <2>3
<1>5. ASSUME NEW e \in Live, e \notin {cache[i] : i \in 1 .. k}
      PROVE  e \in Elements(c)
  <2>1. PICK i \in 1 .. n : e = cache[i]
    BY <1>1 DEF Live, Elements
  <2>2. i - k \in 1 .. n - k /\ k + (i - k) = i
    BY <2>1, <1>1, <1>5
  <2>3. QED
    BY <2>1, <2>2, <1>2, <1>3 DEF Elements
<1>6. ASSUME NEW e \in Elements(c)
      PROVE  e \in Live /\ e \notin {cache[i] : i \in 1 .. k}
  <2>1. PICK i \in 1 .. n - k : e = cache[k + i]
    BY <1>2, <1>3 DEF Elements
  <2>2. k + i \in 1 .. n /\ \A j \in 1 .. k : j # k + i /\ j \in 1 .. n
    BY <1>1
  <2>3. QED
    BY <2>1, <2>2, <1>1 DEF Live, Elements, OneEach
<1>7. k < n => n - k \in 1 .. n - k /\ k + (n - k) = n
  BY <1>1
<1>8. QED
  BY <1>2, <1>4, <1>5, <1>6, <1>7 DEF c, n

(* A set of numbers has a least one.                                       *)
LEMMA LeastNumber ==
  ASSUME NEW T \in SUBSET Nat, T # {}
  PROVE  \E x \in T : \A y \in T : ~(y < x)
<1> DEFINE Less == OpToRel(<, Nat)
<1>1. \E x \in T : \A y \in T : ~(<<y, x>> \in Less)
  <2>1. IsWellFoundedOn(Less, Nat)
    BY NatLessThanWellFounded
  <2> HIDE DEF Less
  <2>2. QED
    BY <2>1, WFMin
<1>2. QED
  BY <1>1 DEF OpToRel

(* What the loop of clear_frame_cache frees is not busy when its turn      *)
(* comes, and never includes the tail.                                     *)
LEMMA EvictedCount ==
  ASSUME cache \in Seq(Addr), NEW els
  PROVE  /\ EvictCount(els) \in 0 .. Len(cache)
         /\ Len(cache) # 0 => EvictCount(els) < Len(cache)
         /\ \A i \in 1 .. EvictCount(els) : Evictable(els, i)
<1> DEFINE n == Len(cache)
           over == IF n > CacheMax THEN n - CacheMax ELSE 0
           free == {k \in 1 .. over :
                      \A i \in 1 .. k : Evictable(els, i)}
<1>1. n \in Nat
  BY ElementsOf
<1>2. over \in 0 .. n /\ (n # 0 => over < n)
  BY <1>1, CacheMaxAssumption
<1>3. EvictCount(els) = Cardinality(free)
  BY DEF EvictCount
<1> HIDE DEF over
<1>4. /\ over \in Nat
      /\ IsFiniteSet(1 .. over) /\ Cardinality(1 .. over) = over
      /\ free \in SUBSET (1 .. over)
  BY <1>1, <1>2, UpTo
<1>5. /\ IsFiniteSet(free) /\ Cardinality(free) <= over
      /\ Cardinality(free) \in Nat
  BY <1>4, FS_Subset, FS_CardinalityType
<1>6. ASSUME NEW k \in 1 .. Cardinality(free) PROVE k \in free
  <2>1. SUFFICES ASSUME k \notin free PROVE FALSE
    OBVIOUS
  <2>2. free \in SUBSET (1 .. k - 1)
    <3>1. SUFFICES ASSUME NEW m \in free, m >= k PROVE FALSE
      BY <1>4
    <3>2. k \in 1 .. over /\ \A i \in 1 .. k : i \in 1 .. m
      BY <1>2, <1>4, <3>1
    <3>3. QED
      BY <2>1, <3>1, <3>2
  <2>3. Cardinality(free) <= k - 1
    <3>1. IsFiniteSet(1 .. k - 1) /\ Cardinality(1 .. k - 1) = k - 1
      <4>1. k - 1 \in Nat
        BY <1>5
      <4>2. QED
        BY <4>1, UpTo
    <3>2. QED
      BY <2>2, <3>1, FS_Subset
  <2> HIDE DEF free
  <2>4. k \in Int /\ k <= Cardinality(free)
    BY <1>5
  <2>5. QED
    BY <2>3, <2>4, <1>5
<1>7. \A k \in free : Evictable(els, k)
  <2>1. \A k \in free : k \in 1 .. k
    BY <1>4
  <2>2. QED
    BY <2>1
<1> HIDE DEF free
<1>8. QED
  BY <1>1, <1>2, <1>3, <1>5, <1>6, <1>7

-----------------------------------------------------------------------------
(* Counting the users of an element.                                       *)

Places(q, a) == {i \in DOMAIN q : q[i] = a}
Takers(c, a) == {s \in Senders : c[s] = a}
Based(l, e, a) == {b \in l : e[b].source = a}
Working(a) == IF main.frame = a THEN 1 ELSE 0
Matching(a) ==
  IF main.best = a /\ el[main.frame].source # a THEN 1 ELSE 0

LEMMA UsersSum ==
  ASSUME NEW a
  PROVE  /\ Users(a) = Cardinality(Places(queue, a))
                        + Cardinality(Takers(cur, a))
                        + Cardinality(Based(Live, el, a))
                        + Working(a) + Matching(a)
         /\ Users(a)' = Cardinality(Places(queue', a))
                         + Cardinality(Takers(cur', a))
                         + Cardinality(Based(Live', el', a))
                         + Working(a)' + Matching(a)'
BY DEF Users, Places, Takers, Based, Working, Matching

LEMMA TakersOf ==
  ASSUME NEW c, NEW a
  PROVE  /\ IsFiniteSet(Takers(c, a)) /\ Cardinality(Takers(c, a)) \in Nat
         /\ Cardinality(Takers(c, a)) = 0 <=> \A s \in Senders : c[s] # a
<1>1. Takers(c, a) \in SUBSET Senders
  BY DEF Takers
<1>2. IsFiniteSet(Takers(c, a))
  BY <1>1, SendersAssumption, FS_Subset
<1>3. QED
  BY <1>2, FS_EmptySet, FS_CardinalityType DEF Takers

(* A thread is done with what it has.                                      *)
LEMMA TakersLeave ==
  ASSUME NEW c \in [Senders -> Addr \cup {Null}], NEW s \in Senders,
         NEW a, a # Null
  PROVE  Cardinality(Takers([c EXCEPT ![s] = Null], a)) =
           Cardinality(Takers(c, a)) - (IF c[s] = a THEN 1 ELSE 0)
<1>1. IsFiniteSet(Takers(c, a)) /\ Cardinality(Takers(c, a)) \in Nat
  BY TakersOf
<1>2. Takers([c EXCEPT ![s] = Null], a) = Takers(c, a) \ {s}
  BY DEF Takers
<1>3. s \in Takers(c, a) <=> c[s] = a
  BY DEF Takers
<1>4. Cardinality(Takers(c, a) \ {s}) =
        IF c[s] = a THEN Cardinality(Takers(c, a)) - 1 ELSE Cardinality(Takers(c, a))
  BY <1>1, <1>3, FS_RemoveElement
<1>5. CASE c[s] = a
  BY <1>1, <1>2, <1>4, <1>5
<1>6. CASE c[s] # a
  <2>1. Cardinality(Takers([c EXCEPT ![s] = Null], a)) = Cardinality(Takers(c, a))
    BY <1>2, <1>4, <1>6
  <2>2. QED
    BY <2>1, <1>1, <1>6
<1>7. QED
  BY <1>5, <1>6

LEMMA BasedOf ==
  ASSUME NEW l, IsFiniteSet(l), NEW e, NEW a
  PROVE  /\ IsFiniteSet(Based(l, e, a)) /\ Cardinality(Based(l, e, a)) \in Nat
         /\ Cardinality(Based(l, e, a)) = 0 <=> \A b \in l : e[b].source # a
<1>1. Based(l, e, a) \in SUBSET l
  BY DEF Based
<1>2. IsFiniteSet(Based(l, e, a))
  BY <1>1, FS_Subset
<1>3. QED
  BY <1>2, FS_EmptySet, FS_CardinalityType DEF Based

LEMMA PlacesOf ==
  ASSUME NEW S, NEW q \in Seq(S), NEW a
  PROVE  /\ IsFiniteSet(Places(q, a)) /\ Cardinality(Places(q, a)) \in Nat
         /\ Cardinality(Places(q, a)) = 0 <=> a \notin Elements(q)
<1>1. Len(q) \in Nat /\ DOMAIN q = 1 .. Len(q)
  BY ElementsOf
<1>2. IsFiniteSet(1 .. Len(q)) /\ Places(q, a) \in SUBSET (1 .. Len(q))
  BY <1>1, FS_Interval DEF Places
<1>3. IsFiniteSet(Places(q, a))
  BY <1>2, FS_Subset
<1>4. Cardinality(Places(q, a)) = 0 <=> Places(q, a) = {}
  BY <1>3, FS_EmptySet
<1>5. Places(q, a) = {} <=> a \notin Elements(q)
  BY DEF Places, Elements
<1>6. QED
  BY <1>3, <1>4, <1>5, FS_CardinalityType

LEMMA PlacesAppend ==
  ASSUME NEW S, NEW q \in Seq(S), NEW e \in S, NEW a
  PROVE  Cardinality(Places(Append(q, e), a)) =
           Cardinality(Places(q, a)) + (IF e = a THEN 1 ELSE 0)
<1>1. Len(q) \in Nat /\ DOMAIN q = 1 .. Len(q)
  BY ElementsOf
<1>2. /\ Append(q, e) \in Seq(S) /\ Len(Append(q, e)) = Len(q) + 1
      /\ \A i \in 1 .. Len(q) : Append(q, e)[i] = q[i]
      /\ Append(q, e)[Len(q) + 1] = e
  BY AppendProperties
<1>3. DOMAIN Append(q, e) = 1 .. Len(q) + 1
  BY <1>2, ElementsOf
<1>4. \A i : i \in 1 .. Len(q) + 1 <=> i \in 1 .. Len(q) \/ i = Len(q) + 1
  BY <1>1
<1>5. IsFiniteSet(Places(q, a)) /\ Cardinality(Places(q, a)) \in Nat
  BY PlacesOf
<1>6. CASE e = a
  <2>1. Places(Append(q, e), a) = Places(q, a) \cup {Len(q) + 1}
    BY <1>1, <1>2, <1>3, <1>4, <1>6 DEF Places
  <2>2. Len(q) + 1 \notin Places(q, a)
    BY <1>1 DEF Places
  <2>3. QED
    BY <2>1, <2>2, <1>5, <1>6, FS_AddElement
<1>7. CASE e # a
  <2>1. Places(Append(q, e), a) = Places(q, a)
    BY <1>1, <1>2, <1>3, <1>4, <1>7 DEF Places
  <2>2. QED
    BY <2>1, <1>5, <1>7
<1>8. QED
  BY <1>6, <1>7

LEMMA PlacesTail ==
  ASSUME NEW S, NEW q \in Seq(S), q # <<>>, NEW a
  PROVE  Cardinality(Places(q, a)) =
           Cardinality(Places(Tail(q), a)) + (IF Head(q) = a THEN 1 ELSE 0)
<1> DEFINE rest == Places(q, a) \ {1}
           moved == [i \in Places(Tail(q), a) |-> i + 1]
<1>1. /\ Tail(q) \in Seq(S) /\ Len(Tail(q)) = Len(q) - 1
      /\ Head(q) = q[1] /\ Len(q) # 0
      /\ \A i \in 1 .. Len(q) - 1 : Tail(q)[i] = q[i + 1]
  BY ElementsTail
<1>2. /\ Len(q) \in Nat /\ DOMAIN q = 1 .. Len(q)
      /\ DOMAIN Tail(q) = 1 .. Len(q) - 1
  BY <1>1, ElementsOf
<1>3. \A i \in Places(Tail(q), a) : i \in Nat /\ i + 1 \in rest
  BY <1>1, <1>2 DEF Places
<1>4. \A i \in rest : i - 1 \in Places(Tail(q), a) /\ (i - 1) + 1 = i
  <2>1. SUFFICES ASSUME NEW i \in rest
                 PROVE  i - 1 \in Places(Tail(q), a) /\ (i - 1) + 1 = i
    OBVIOUS
  <2>2. i \in 1 .. Len(q) /\ i # 1 /\ q[i] = a
    BY <1>2 DEF Places
  <2>3. i - 1 \in 1 .. Len(q) - 1 /\ (i - 1) + 1 = i
    BY <2>2, <1>2
  <2>4. QED
    BY <2>2, <2>3, <1>1, <1>2 DEF Places
<1>5. moved \in Bijection(Places(Tail(q), a), rest)
  <2>1. moved \in Injection(Places(Tail(q), a), rest)
    BY <1>3 DEF Injection, IsInjective
  <2>2. moved \in Surjection(Places(Tail(q), a), rest)
    BY <1>3, <1>4 DEF Surjection
  <2>3. QED
    BY <2>1, <2>2 DEF Bijection
<1>6. Cardinality(rest) = Cardinality(Places(Tail(q), a))
  BY <1>1, <1>5, PlacesOf, FS_Bijection DEF ExistsBijection
<1>7. 1 \in Places(q, a) <=> Head(q) = a
  BY <1>1, <1>2 DEF Places
<1>8. IsFiniteSet(Places(q, a)) /\ Cardinality(Places(q, a)) \in Nat
  BY PlacesOf
<1>9. Cardinality(rest) = IF Head(q) = a THEN Cardinality(Places(q, a)) - 1
                          ELSE Cardinality(Places(q, a))
  BY <1>7, <1>8, FS_RemoveElement
<1>10. QED
  BY <1>6, <1>8, <1>9

-----------------------------------------------------------------------------
(* The shape of the state.                                                 *)

Flags ==
  /\ connected \in BOOLEAN /\ initialized \in BOOLEAN /\ rebuilt \in BOOLEAN
  /\ fault \in BOOLEAN /\ overlap \in BOOLEAN

Data ==
  /\ cache \in Seq(Addr)
  /\ el \in [Addr -> Element]
  /\ queue \in Seq(Addr \cup {Null})
  /\ client \in SUBSET Crc

(* add_frame has a frame from the first critical section to the last, and  *)
(* a match only while it compares the two.                                 *)
MainShape ==
  /\ main \in [pc : MainPc, frame : Addr \cup {Null}, best : Addr \cup {Null}]
  /\ main.pc = "idle" => main.frame = Null
  /\ main.best # Null <=> main.pc \in {"regions", "unmatch"}
  /\ main.frame = Null => main.pc \in {"idle", "enqueue"}

SenderShape ==
  /\ mutex \in Senders \cup {Free}
  /\ spc \in [Senders -> SenderPc]
  /\ cur \in [Senders -> Addr \cup {Null}]
  /\ \A s \in Senders :
       /\ spc[s] \in {"check", "serve", "pop", "done"} <=> mutex = s
       /\ cur[s] # Null => spc[s] \in {"sending", "written", "done"}

(* The list has one element for a content, and none without a client.      *)
ListShape ==
  /\ OneEach(cache)
  /\ \A a \in Live : el[a].crc \in Crc
  /\ \A a, b \in Live : el[a].crc = el[b].crc => a = b
  /\ ~connected => cache = <<>>

Shape == Flags /\ Data /\ MainShape /\ SenderShape /\ ListShape

LEMMA ShapeType == Shape => TypeOK
BY DEF Shape, Flags, Data, MainShape, SenderShape, TypeOK

LEMMA BlankType == Blank \in Element
BY DEF Blank, Element

LEMMA ElementTypes ==
  ASSUME NEW e \in Element
  PROVE  /\ e.crc \in Crc \cup {Null} /\ e.busy \in Int /\ e.sent \in BOOLEAN
         /\ e.source \in Addr \cup {Null} /\ e.source_crc \in Crc \cup {Null}
         /\ e.regions \in BOOLEAN
         /\ Hold(e) \in Element /\ Release(e) \in Element
         /\ Hold(e).busy = e.busy + 1 /\ Release(e).busy = e.busy - 1
         /\ Hold(e).crc = e.crc /\ Release(e).crc = e.crc
         /\ Hold(e).sent = e.sent /\ Release(e).sent = e.sent
         /\ Hold(e).source = e.source /\ Release(e).source = e.source
         /\ Hold(e).source_crc = e.source_crc
         /\ Release(e).source_crc = e.source_crc
         /\ Hold(e).regions = e.regions /\ Release(e).regions = e.regions
BY DEF Element, Hold, Release

LEMMA NewType ==
  ASSUME NEW c \in Crc
  PROVE  LET e == Hold(NewElement(c))
         IN  /\ e \in Element /\ e.crc = c /\ e.busy = 1 /\ ~e.sent
             /\ e.source = Null /\ e.source_crc = Null /\ ~e.regions
<1>1. /\ Blank \in Element /\ Blank.busy = 0 /\ ~Blank.sent
      /\ Blank.source = Null /\ Blank.source_crc = Null /\ ~Blank.regions
  BY BlankType DEF Blank
<1>2. LET e == NewElement(c)
      IN  /\ e \in Element /\ e.crc = c /\ e.busy = 0 /\ ~e.sent
          /\ e.source = Null /\ e.source_crc = Null /\ ~e.regions
  BY <1>1 DEF NewElement, Element
<1>3. QED
  BY <1>2, ElementTypes

(* A frame once it is written and released.                                *)
Written(e) == [Release(e) EXCEPT !.sent = TRUE, !.source = Null,
                                 !.regions = FALSE, !.source_crc = Null]

LEMMA WrittenType ==
  ASSUME NEW e \in Element
  PROVE  /\ Written(e) \in Element /\ Written(e).crc = e.crc /\ Written(e).sent
         /\ Written(e).source = Null /\ Written(e).source_crc = Null
         /\ ~Written(e).regions /\ Written(e).busy = e.busy - 1
<1>1. /\ Release(e) \in Element /\ Release(e).crc = e.crc
      /\ Release(e).busy = e.busy - 1
  BY ElementTypes
<1>2. QED
  BY <1>1 DEF Written, Element

(* The elements after a frame was written.                                 *)
LEMMA SentElements ==
  ASSUME Data, NEW a \in Addr
  PROVE  /\ AfterSend(a) \in [Addr -> Element]
         /\ \A b \in Addr :
              LET e == AfterSend(a)[b]
              IN  /\ e.crc = el[b].crc
                  /\ e.sent <=> b = a \/ el[b].sent
                  /\ e.source = IF b = a THEN Null ELSE el[b].source
                  /\ e.source_crc = IF b = a THEN Null ELSE el[b].source_crc
                  /\ e.regions <=> b # a /\ el[b].regions
                  /\ e.busy = el[b].busy - (IF b = a THEN 1 ELSE 0)
                                - (IF el[a].source = b THEN 1 ELSE 0)
<1> DEFINE src == el[a].source
           mine == Written(el[a])
           done == [el EXCEPT ![a] = mine]
<1>1. \A b \in Addr : el[b] \in Element
  BY DEF Data
<1>2. /\ mine \in Element /\ mine.crc = el[a].crc /\ mine.sent
      /\ mine.source = Null /\ mine.source_crc = Null /\ ~mine.regions
      /\ mine.busy = el[a].busy - 1
  BY <1>1, WrittenType
<1>3. src \in Addr \cup {Null}
  BY <1>1, ElementTypes
<1>4. AfterSend(a) = IF src = Null THEN done
                     ELSE [done EXCEPT ![src] = Release(@)]
  BY DEF AfterSend, Written
<1> HIDE DEF mine
<1>5. /\ done \in [Addr -> Element]
      /\ \A b \in Addr : done[b] = IF b = a THEN mine ELSE el[b]
  BY <1>2 DEF Data
<1> HIDE DEF done, src
<1>6. CASE src = Null
  <2>1. AfterSend(a) = done /\ \A b \in Addr : src # b
    BY <1>4, <1>6, NullAssumption
  <2>2. \A b \in Addr : el[b].busy \in Int /\ el[b].sent \in BOOLEAN
                        /\ el[b].regions \in BOOLEAN
    BY <1>1, ElementTypes
  <2>3. ASSUME NEW b \in Addr
        PROVE  LET e == AfterSend(a)[b]
               IN  /\ e.crc = el[b].crc
                   /\ e.sent <=> b = a \/ el[b].sent
                   /\ e.source = IF b = a THEN Null ELSE el[b].source
                   /\ e.source_crc = IF b = a THEN Null ELSE el[b].source_crc
                   /\ e.regions <=> b # a /\ el[b].regions
                   /\ e.busy = el[b].busy - (IF b = a THEN 1 ELSE 0)
                                 - (IF src = b THEN 1 ELSE 0)
    <3>1. src # b /\ AfterSend(a)[b] = IF b = a THEN mine ELSE el[b]
      BY <2>1, <1>5
    <3>2. CASE b = a
      <4>1. AfterSend(a)[b] = mine /\ el[b] = el[a] /\ el[a].busy \in Int
        BY <3>1, <3>2, <2>2
      <4>2. el[a].busy - 1 = el[a].busy - 1 - 0
        BY <4>1
      <4>3. QED
        BY <4>1, <4>2, <3>1, <3>2, <1>2
    <3>3. CASE b # a
      BY <3>1, <3>3, <2>2
    <3>4. QED
      BY <3>2, <3>3
  <2>4. QED
    BY <2>1, <2>3, <1>5 DEF src
<1>7. CASE src # Null
  <2>1. /\ src \in Addr /\ AfterSend(a) = [done EXCEPT ![src] = Release(@)]
        /\ done[src] \in Element
    BY <1>3, <1>4, <1>5, <1>7
  <2>2. /\ AfterSend(a) \in [Addr -> Element]
        /\ \A b \in Addr : AfterSend(a)[b] = IF b = src THEN Release(done[b])
                                             ELSE done[b]
    BY <2>1, <1>5, ElementTypes
  <2>3. SUFFICES ASSUME NEW b \in Addr
                 PROVE  LET e == AfterSend(a)[b]
                        IN  /\ e.crc = el[b].crc
                            /\ e.sent <=> b = a \/ el[b].sent
                            /\ e.source = IF b = a THEN Null ELSE el[b].source
                            /\ e.source_crc =
                                 IF b = a THEN Null ELSE el[b].source_crc
                            /\ e.regions <=> b # a /\ el[b].regions
                            /\ e.busy = el[b].busy - (IF b = a THEN 1 ELSE 0)
                                          - (IF src = b THEN 1 ELSE 0)
    BY <2>2 DEF src
  <2>4. /\ done[b] \in Element /\ el[b] \in Element
        /\ el[b].busy \in Int /\ el[b].sent \in BOOLEAN
        /\ el[b].regions \in BOOLEAN
    BY <1>1, <1>5, ElementTypes
  <2>5. /\ done[b].crc = el[b].crc
        /\ done[b].sent <=> b = a \/ el[b].sent
        /\ done[b].source = IF b = a THEN Null ELSE el[b].source
        /\ done[b].source_crc = IF b = a THEN Null ELSE el[b].source_crc
        /\ done[b].regions <=> b # a /\ el[b].regions
        /\ done[b].busy = el[b].busy - (IF b = a THEN 1 ELSE 0)
    <3>1. CASE b = a
      <4>1. done[b] = mine /\ el[b] = el[a]
        BY <3>1, <1>5
      <4>2. QED
        BY <4>1, <3>1, <1>2
    <3>2. CASE b # a
      <4>1. done[b] = el[b]
        BY <3>2, <1>5
      <4>2. QED
        BY <4>1, <3>2, <2>4
    <3>3. QED
      BY <3>1, <3>2
  <2>6. CASE b = src
    <3>1. /\ AfterSend(a)[b] = Release(done[b])
          /\ Release(done[b]).crc = done[b].crc
          /\ Release(done[b]).sent <=> done[b].sent
          /\ Release(done[b]).source = done[b].source
          /\ Release(done[b]).source_crc = done[b].source_crc
          /\ Release(done[b]).regions <=> done[b].regions
          /\ Release(done[b]).busy = done[b].busy - 1
      BY <2>2, <2>4, <2>6, ElementTypes
    <3>2. QED
      BY <3>1, <2>4, <2>5, <2>6
  <2>7. CASE b # src
    BY <2>2, <2>4, <2>5, <2>7
  <2>8. QED
    BY <2>6, <2>7
<1>8. QED
  BY <1>6, <1>7

LEMMA ClearedElements ==
  ASSUME Data
  PROVE  /\ AfterClearQueue \in [Addr -> Element]
         /\ \A a \in Addr :
              /\ AfterClearQueue[a].crc = el[a].crc
              /\ AfterClearQueue[a].source =
                   IF a \in Live /\ a \in Queued THEN Null ELSE el[a].source
<1>1. \A a \in Addr : el[a] \in Element
  BY DEF Data
<1>2. IsFiniteSet(Queued)
  <2>1. IsFiniteSet(Elements(queue))
    BY ElementsOf DEF Data
  <2>2. Queued \in SUBSET Elements(queue)
    BY DEF Queued
  <2>3. QED
    BY <2>1, <2>2, FS_Subset
<1>3. ASSUME NEW a \in Addr PROVE BusyAfterClear(a) \in Int
  <2> DEFINE S == {f \in Queued : /\ el[f].source = a
                                  /\ FirstIndex(f) > LastIndex(a)}
  <2>1. S \in SUBSET Queued
    OBVIOUS
  <2>2. Cardinality(S) \in Nat
    BY <2>1, <1>2, FS_Subset, FS_CardinalityType
  <2>3. el[a].busy \in Int
    BY <1>1, ElementTypes
  <2>4. BusyAfterClear(a) =
          (IF a \in Queued THEN 0 ELSE el[a].busy) - Cardinality(S)
    BY DEF BusyAfterClear
  <2> HIDE DEF S
  <2>5. QED
    BY <2>2, <2>3, <2>4
<1>4. ASSUME NEW a \in Addr
      PROVE  LET e == [el[a] EXCEPT !.busy = BusyAfterClear(a),
                                    !.source = IF a \in Queued THEN Null ELSE @]
             IN  /\ e \in Element /\ e.crc = el[a].crc
                 /\ e.source = IF a \in Queued THEN Null ELSE el[a].source
  BY <1>1, <1>3 DEF Element
<1>5. QED
  BY <1>1, <1>4 DEF AfterClearQueue

LEMMA CandidatesOf ==
  ASSUME Data, NEW f \in Live, NEW b \in Candidates(f)
  PROVE  b \in Live /\ b \in Addr /\ el[b].sent
<1>1. /\ Len(cache) \in Nat /\ DOMAIN cache = 1 .. Len(cache)
      /\ \A i \in 1 .. Len(cache) : cache[i] \in Addr
  BY ElementsOf DEF Data
<1>2. Position(f) \in 1 .. Len(cache)
  BY <1>1 DEF Live, Elements, Position
<1>3. PICK j \in 1 .. Position(f) - 1 : b = cache[j] /\ el[cache[j]].sent
  BY DEF Candidates
<1>4. j \in 1 .. Len(cache)
  BY <1>1, <1>2
<1>5. QED
  BY <1>1, <1>3, <1>4 DEF Live, Elements

LEMMA InitShape == Init => Shape
<1> SUFFICES ASSUME Init PROVE Shape
  OBVIOUS
<1>1. Flags
  BY DEF Init, Flags
<1>2. Data
  BY BlankType DEF Init, Data
<1>3. MainShape
  BY DEF Init, MainShape, MainIdle, MainPc
<1>4. SenderShape
  BY FreeAssumption DEF Init, SenderShape, SenderPc
<1>5. ListShape
  BY DEF Init, ListShape, OneEach, Live, Elements
<1>6. QED
  BY <1>1, <1>2, <1>3, <1>4, <1>5 DEF Shape

(* What the main thread does to itself and to the senders.                 *)
LEMMA MainKeepsSenders ==
  ASSUME MainStep \/ ClientGone \/ Hangup \/ ClientGeometry \/ RebuildCaches
  PROVE  UNCHANGED <<mutex, spc, cur>>
<1> USE DEF threads, Crash
<1>1. CASE MainStep
  BY <1>1 DEF MainStep, AddFrame, AddMainImage, MatchFrame, FindRegions,
              ReleaseMatch, CompressRegions, Enqueue
<1>2. CASE ClientGone \/ Hangup
  BY <1>2 DEF ClientGone, Hangup, CleanEverything, CrashInCleanup
<1>3. CASE ClientGeometry \/ RebuildCaches
  BY <1>3 DEF ClientGeometry, RebuildCaches
<1>4. QED
  BY <1>1, <1>2, <1>3

LEMMA SendersKeepMain ==
  ASSUME NEW s \in Senders, SenderStep(s) \/ Accept(s)
  PROVE  UNCHANGED main
<1> USE DEF threads, Crash
<1>1. CASE Accept(s)
  BY <1>1 DEF Accept
<1>2. CASE SenderStep(s)
  BY <1>2 DEF SenderStep, Lock, CheckConnected, TakeRebuild, SendReinit,
       ClearQueue, ClearCache, CrashInCleanup, PopFrame, SendFrame,
       SendMainImage, FinishFrame
<1>3. QED
  BY <1>1, <1>2

LEMMA SenderShapeStep ==
  ASSUME Flags, Data, SenderShape, Next
  PROVE  SenderShape'
<1> USE DEF SenderShape, SenderAt, Goto, SenderPc
<1>1. CASE UNCHANGED <<mutex, spc, cur>>
  BY <1>1
<1>2. ASSUME NEW s \in Senders, Accept(s) PROVE SenderShape'
  BY <1>2, FreeAssumption DEF Accept
<1>3. ASSUME NEW s \in Senders, Lock(s) PROVE SenderShape'
  <2>1. /\ spc[s] \in {"top", "wait", "frames", "written"}
        /\ spc' = [spc EXCEPT ![s] = LockTarget[spc[s]]]
        /\ mutex = Free /\ mutex' = s /\ cur' = cur
    BY <1>3 DEF Lock, LockTarget
  <2>2. /\ LockTarget["top"] = "check" /\ LockTarget["wait"] = "serve"
        /\ LockTarget["frames"] = "pop" /\ LockTarget["written"] = "done"
    BY DEF LockTarget
  <2>3. QED
    BY <2>1, <2>2, FreeAssumption
<1>4. ASSUME NEW s \in Senders, CheckConnected(s) PROVE SenderShape'
  BY <1>4, FreeAssumption DEF CheckConnected
<1>5. ASSUME NEW s \in Senders, TakeRebuild(s) PROVE SenderShape'
  <2>1. spc' = [spc EXCEPT ![s] = "reinit"] \/ spc' = [spc EXCEPT ![s] = "frames"]
    BY <1>5 DEF TakeRebuild
  <2>2. mutex' = Free /\ cur' = cur /\ spc[s] = "serve"
    BY <1>5 DEF TakeRebuild
  <2>3. QED
    BY <2>1, <2>2, FreeAssumption
<1>6. ASSUME NEW s \in Senders, SendReinit(s) PROVE SenderShape'
  BY <1>6, FreeAssumption DEF SendReinit
<1>7. ASSUME NEW s \in Senders, ClearQueue(s), ~UNCHANGED <<mutex, spc, cur>>
      PROVE  SenderShape'
  BY <1>7, FreeAssumption DEF ClearQueue, Crash, threads
<1>8. ASSUME NEW s \in Senders, ClearCache(s), ~UNCHANGED <<mutex, spc, cur>>
      PROVE  SenderShape'
  BY <1>8, FreeAssumption DEF ClearCache, CrashInCleanup, threads
<1>9. ASSUME NEW s \in Senders, PopFrame(s), ~UNCHANGED <<mutex, spc, cur>>
      PROVE  SenderShape'
  <2>1. spc[s] = "pop" /\ mutex' = Free
    BY <1>9 DEF PopFrame, Crash, threads
  <2>2. CASE queue = <<>>
    BY <2>1, <2>2, <1>9, FreeAssumption DEF PopFrame, Crash, threads
  <2>3. CASE queue # <<>>
    <3>1. /\ cur' = [cur EXCEPT ![s] = Head(queue)]
          /\ spc' = [spc EXCEPT ![s] = "sending"]
      BY <2>3, <1>9 DEF PopFrame, Crash, threads
    <3>2. Head(queue) \in Addr \cup {Null}
      BY <2>3, HeadTailProperties DEF Data
    <3>3. QED
      BY <2>1, <3>1, <3>2, FreeAssumption
  <2>4. QED
    BY <2>2, <2>3
<1>10. ASSUME NEW s \in Senders, SendFrame(s), ~UNCHANGED <<mutex, spc, cur>>
       PROVE  SenderShape'
  BY <1>10, FreeAssumption DEF SendFrame, Crash, threads
<1>11. ASSUME NEW s \in Senders, SendMainImage(s) PROVE SenderShape'
  BY <1>11, FreeAssumption DEF SendMainImage
<1>12. ASSUME NEW s \in Senders, FinishFrame(s), ~UNCHANGED <<mutex, spc, cur>>
       PROVE  SenderShape'
  <2>1. /\ spc[s] = "done" /\ mutex' = Free
        /\ cur' = [cur EXCEPT ![s] = Null] /\ spc' = [spc EXCEPT ![s] = "top"]
    BY <1>12 DEF FinishFrame, Crash, threads
  <2>2. QED
    BY <2>1, FreeAssumption
<1>13. QED
  BY <1>1, <1>2, <1>3, <1>4, <1>5, <1>6, <1>7, <1>8, <1>9, <1>10, <1>11, <1>12,
     MainKeepsSenders DEF Next, MainEvent, SenderStep

LEMMA MainShapeStep ==
  ASSUME Data, MainShape, Next
  PROVE  MainShape'
<1> USE DEF MainShape, MainAt, MainIdle, MainPc
<1>1. CASE UNCHANGED main
  BY <1>1
<1>2. ASSUME NEW c \in Crc, AddFrame(c) PROVE MainShape'
  <2>1. ASSUME NEW a \in HasCrc(c),
               main' = [pc |-> "enqueue", frame |-> a, best |-> Null]
        PROVE  MainShape'
    <3>1. a \in Addr
      BY ElementsOf DEF Data, HasCrc, Live
    <3>2. QED
      BY <2>1, <3>1, NullAssumption
  <2>2. ASSUME NEW a \in Unused,
               main' = [pc |-> "match", frame |-> a, best |-> Null]
        PROVE  MainShape'
    <3>1. a \in Addr
      BY DEF Unused
    <3>2. QED
      BY <2>2, <3>1, NullAssumption
  <2>3. QED
    BY <2>1, <2>2, <1>2 DEF AddFrame
<1>3. CASE AddMainImage
  BY <1>3 DEF AddMainImage
<1>4. CASE MatchFrame /\ ~UNCHANGED main
  <2>1. main.pc = "match"
    BY <1>4 DEF MatchFrame
  <2>2. ASSUME main.frame \in Live, NEW b \in Candidates(main.frame),
               main' = [main EXCEPT !.pc = "regions", !.best = b]
        PROVE  MainShape'
    <3>1. b \in Addr
      BY <2>2, CandidatesOf
    <3>2. QED
      BY <2>1, <2>2, <3>1, NullAssumption
  <2>3. QED
    BY <2>1, <2>2, <1>4, NullAssumption DEF MatchFrame, Crash, threads
<1>5. CASE FindRegions /\ ~UNCHANGED main
  BY <1>5 DEF FindRegions, Crash, threads
<1>6. CASE ReleaseMatch /\ ~UNCHANGED main
  BY <1>6 DEF ReleaseMatch, Crash, threads
<1>7. CASE CompressRegions /\ ~UNCHANGED main
  BY <1>7 DEF CompressRegions, Crash, threads
<1>8. CASE Enqueue
  BY <1>8 DEF Enqueue
<1>9. CASE ClientGone \/ Hangup \/ ClientGeometry \/ RebuildCaches
  BY <1>9 DEF ClientGone, Hangup, ClientGeometry, RebuildCaches,
              CleanEverything, CrashInCleanup, threads
<1>10. QED
  BY <1>1, <1>2, <1>3, <1>4, <1>5, <1>6, <1>7, <1>8, <1>9, SendersKeepMain
     DEF Next, MainStep, MainEvent

LEMMA FlagsStep ==
  ASSUME Flags, Next
  PROVE  Flags'
<1> USE DEF Flags, Crash, conn
<1>1. CASE MainStep
  BY <1>1 DEF MainStep, AddFrame, AddMainImage, MatchFrame, FindRegions,
              ReleaseMatch, CompressRegions, Enqueue
<1>2. CASE ClientGone \/ Hangup
  BY <1>2 DEF ClientGone, Hangup, CleanEverything, CrashInCleanup, InUse
<1>3. CASE ClientGeometry \/ RebuildCaches
  BY <1>3 DEF ClientGeometry, RebuildCaches
<1>4. ASSUME NEW s \in Senders, Accept(s) PROVE Flags'
  BY <1>4 DEF Accept
<1>5. ASSUME NEW s \in Senders,
             Lock(s) \/ CheckConnected(s) \/ TakeRebuild(s) \/ SendFrame(s)
               \/ SendMainImage(s) \/ FinishFrame(s)
      PROVE  Flags'
  BY <1>5 DEF Lock, CheckConnected, TakeRebuild, SendFrame, SendMainImage,
              FinishFrame
<1>6. ASSUME NEW s \in Senders, SendReinit(s) \/ ClearQueue(s) PROVE Flags'
  BY <1>6 DEF SendReinit, ClearQueue, Sending
<1>7. ASSUME NEW s \in Senders, ClearCache(s) PROVE Flags'
  BY <1>7 DEF ClearCache, CrashInCleanup, InUse
<1>8. ASSUME NEW s \in Senders, PopFrame(s) PROVE Flags'
  BY <1>8 DEF PopFrame, Cleaning
<1>9. QED
  BY <1>1, <1>2, <1>3, <1>4, <1>5, <1>6, <1>7, <1>8
     DEF Next, MainEvent, SenderStep

LEMMA LiveType ==
  ASSUME Data
  PROVE  /\ Live \subseteq Addr /\ IsFiniteSet(Live)
         /\ Null \notin Live
         /\ Elements(queue) \subseteq Addr \cup {Null}
         /\ Queued \subseteq Addr
         /\ \A a \in Addr : el[a] \in Element
BY ElementsOf, NullAssumption DEF Data, Live, Queued

LEMMA ListKept ==
  ASSUME Data, ListShape, cache' = cache, connected => connected',
         \A a \in Live : el'[a].crc = el[a].crc
  PROVE  ListShape' /\ Live' = Live
<1>1. Live' = Live
  BY DEF Live, Elements
<1>2. QED
  BY <1>1 DEF ListShape, OneEach

(* A frame whose content was compared to its match.                        *)
LEMMA FoundElements ==
  ASSUME Data, NEW f \in Addr, NEW b \in Addr,
         el' = [el EXCEPT ![f].source = b, ![f].source_crc = el[b].crc]
  PROVE  /\ el' \in [Addr -> Element]
         /\ \A a \in Addr :
              /\ a # f => el'[a] = el[a]
              /\ a = f => /\ el'[a].source = b
                          /\ el'[a].source_crc = el[b].crc
              /\ el'[a].crc = el[a].crc /\ el'[a].busy = el[a].busy
              /\ el'[a].sent <=> el[a].sent
              /\ el'[a].regions <=> el[a].regions
<1>1. \A a \in Addr : el[a] \in Element
  BY DEF Data
<1> DEFINE x == [el EXCEPT ![f].source = b]
<1>2. /\ x \in [Addr -> Element]
      /\ \A a \in Addr :
           /\ a # f => x[a] = el[a]
           /\ a = f => x[a].source = b
           /\ x[a].crc = el[a].crc /\ x[a].busy = el[a].busy
           /\ x[a].sent <=> el[a].sent
           /\ x[a].regions <=> el[a].regions
  <2>1. LET e == [el[f] EXCEPT !.source = b]
        IN  /\ e \in Element /\ e.source = b /\ e.crc = el[f].crc
            /\ e.busy = el[f].busy /\ (e.sent <=> el[f].sent)
            /\ (e.regions <=> el[f].regions)
    BY <1>1 DEF Element
  <2>2. QED
    BY <1>1, <2>1 DEF Data
<1>3. el' = [x EXCEPT ![f] = [x[f] EXCEPT !.source_crc = el[b].crc]]
  OBVIOUS
<1> HIDE DEF x
<1>4. el[b].crc \in Crc \cup {Null}
  BY <1>1, ElementTypes
<1>5. LET e == [x[f] EXCEPT !.source_crc = el[b].crc]
      IN  /\ e \in Element /\ e.source_crc = el[b].crc /\ e.source = x[f].source
          /\ e.crc = x[f].crc
          /\ e.busy = x[f].busy /\ (e.sent <=> x[f].sent)
          /\ (e.regions <=> x[f].regions)
  BY <1>2, <1>4 DEF Element
<1>6. /\ el' \in [Addr -> Element]
      /\ el'[f] = [x[f] EXCEPT !.source_crc = el[b].crc]
      /\ \A a \in Addr : a # f => el'[a] = x[a]
  BY <1>2, <1>3, <1>5
<1>7. ASSUME NEW a \in Addr, a # f
      PROVE  el'[a] = el[a]
  BY <1>2, <1>6, <1>7
<1>8. /\ el'[f].source = b /\ el'[f].source_crc = el[b].crc
      /\ el'[f].crc = el[f].crc /\ el'[f].busy = el[f].busy
      /\ el'[f].sent <=> el[f].sent
      /\ el'[f].regions <=> el[f].regions
  BY <1>2, <1>5, <1>6
<1>9. QED
  BY <1>6, <1>7, <1>8

LEMMA CompressedElements ==
  ASSUME Data, NEW f \in Addr, el' = [el EXCEPT ![f].regions = TRUE]
  PROVE  /\ el' \in [Addr -> Element]
         /\ el'[f].regions
         /\ \A a \in Addr :
              /\ a # f => el'[a] = el[a]
              /\ el'[a].crc = el[a].crc /\ el'[a].busy = el[a].busy
              /\ el'[a].sent <=> el[a].sent
              /\ el'[a].source = el[a].source
              /\ el'[a].source_crc = el[a].source_crc
<1>1. \A a \in Addr : el[a] \in Element
  BY DEF Data
<1>2. LET e == [el[f] EXCEPT !.regions = TRUE]
      IN  /\ e \in Element /\ e.regions /\ e.source = el[f].source
          /\ e.crc = el[f].crc /\ e.source_crc = el[f].source_crc
          /\ e.busy = el[f].busy /\ (e.sent <=> el[f].sent)
  BY <1>1 DEF Element
<1>3. QED
  BY <1>1, <1>2 DEF Data

(* An element that gets one user more or less.                             *)
SameButBusy(x, y) ==
  /\ y.crc = x.crc /\ (y.sent <=> x.sent) /\ y.source = x.source
  /\ y.source_crc = x.source_crc /\ (y.regions <=> x.regions)

LEMMA HeldElements ==
  ASSUME Data, NEW b \in Addr, NEW y, y \in {Hold(el[b]), Release(el[b])},
         el' = [el EXCEPT ![b] = y]
  PROVE  /\ el' \in [Addr -> Element]
         /\ \A a \in Addr :
              /\ a # b => el'[a] = el[a]
              /\ SameButBusy(el[a], el'[a])
         /\ el'[b] = y
<1>1. \A a \in Addr : el[a] \in Element
  BY DEF Data
<1>2. y \in Element /\ SameButBusy(el[b], y)
  BY <1>1, ElementTypes DEF SameButBusy
<1>3. QED
  BY <1>1, <1>2 DEF Data, SameButBusy

(* add_cache_element.                                                      *)
LEMMA AddedElement ==
  ASSUME Data, ListShape, NEW c \in Crc, HasCrc(c) = {}, NEW a \in Unused,
         connected, connected', cache' = Append(cache, a),
         el' = [el EXCEPT ![a] = Hold(NewElement(c))]
  PROVE  /\ el' \in [Addr -> Element] /\ cache' \in Seq(Addr)
         /\ ListShape' /\ Live' = Live \cup {a} /\ a \notin Live /\ a \in Addr
         /\ Len(cache') # 0 /\ cache'[Len(cache')] = a
         /\ \A b \in Addr : b # a => el'[b] = el[b]
         /\ el'[a].busy = 1 /\ ~el'[a].sent /\ el'[a].source = Null
         /\ el'[a].source_crc = Null
<1>1. a \in Addr /\ a \notin Live
  BY DEF Unused
<1>2. /\ el' \in [Addr -> Element] /\ el'[a] = Hold(NewElement(c))
      /\ \A b \in Addr : b # a => el'[b] = el[b]
  BY <1>1, NewType DEF Data
<1>3. /\ cache' \in Seq(Addr) /\ Len(cache') = Len(cache) + 1
      /\ \A i \in 1 .. Len(cache) : cache'[i] = cache[i]
      /\ cache'[Len(cache) + 1] = a
  BY <1>1, AppendProperties DEF Data
<1>4. Live' = Live \cup {a}
  BY <1>1, ElementsAppend DEF Data, Live
<1>5. /\ Len(cache) \in Nat /\ DOMAIN cache = 1 .. Len(cache)
      /\ DOMAIN cache' = 1 .. Len(cache) + 1
      /\ \A i \in 1 .. Len(cache) : cache[i] \in Live
  BY <1>3, ElementsOf DEF Data, Live
<1>6. OneEach(cache')
  <2>1. SUFFICES ASSUME NEW i \in 1 .. Len(cache) + 1, NEW j \in 1 .. Len(cache) + 1,
                        cache'[i] = cache'[j]
                 PROVE  i = j
    BY <1>5 DEF OneEach
  <2>2. /\ i \in 1 .. Len(cache) \/ i = Len(cache) + 1
        /\ j \in 1 .. Len(cache) \/ j = Len(cache) + 1
    BY <1>5
  <2>3. QED
    BY <2>1, <2>2, <1>1, <1>3, <1>5 DEF ListShape, OneEach
<1>7. \A b \in Live : el'[b] = el[b] /\ el[b].crc # c
  BY <1>1, <1>2, LiveType DEF HasCrc
<1>8. el'[a].crc = c /\ el'[a].busy = 1 /\ ~el'[a].sent /\ el'[a].source = Null
      /\ el'[a].source_crc = Null
  BY <1>2, NewType
<1>9. ListShape'
  BY <1>4, <1>6, <1>7, <1>8 DEF ListShape
<1>10. QED
  BY <1>1, <1>2, <1>3, <1>4, <1>5, <1>8, <1>9

(* The end of the sending loop: the elements before the eviction, and the  *)
(* elements that are evicted.                                              *)
Ended(s) == IF cur[s] = Null THEN el ELSE AfterSend(cur[s])
Gone(s) == {cache[i] : i \in 1 .. EvictCount(Ended(s))}

(* An element that stays loses the users that are evicted.                 *)
Lightened(s, a) ==
  [Ended(s)[a] EXCEPT
     !.busy = @ - UsersFreed(Ended(s), EvictCount(Ended(s)), a)]

LEMMA FinishedFrame ==
  ASSUME Data, SenderShape, ListShape, NEW s \in Senders, FinishFrame(s), ~fault'
  PROVE  /\ Ended(s) \in [Addr -> Element]
         /\ \A a \in Addr : Ended(s)[a].crc = el[a].crc
         /\ Gone(s) \subseteq Live
         /\ cache' \in Seq(Addr) /\ el' \in [Addr -> Element]
         /\ Live' = Live \ Gone(s)
         /\ \A a \in Live' : el'[a] = Lightened(s, a)
         /\ Len(cache) # 0 =>
              Len(cache') # 0 /\ cache'[Len(cache')] = cache[Len(cache)]
         /\ client' = client \ Deleted(Ended(s), Gone(s))
         /\ cur' = [cur EXCEPT ![s] = Null]
         /\ spc[s] = "done" /\ spc' = [spc EXCEPT ![s] = "top"]
         /\ {cur[s]} \cup (IF cur[s] = Null THEN {} ELSE {el[cur[s]].source})
              \subseteq Live \cup {Null}
         /\ ListShape'
         /\ UNCHANGED <<queue, conn, main, fault, overlap>>
<1> DEFINE els == Ended(s)
           k == EvictCount(els)
<1>1. /\ spc[s] = "done" /\ cur' = [cur EXCEPT ![s] = Null]
      /\ spc' = [spc EXCEPT ![s] = "top"]
      /\ UNCHANGED <<queue, conn, main, fault, overlap>>
      /\ cache' = SubSeq(cache, k + 1, Len(cache))
      /\ el' = [a \in Addr |-> IF a \in Gone(s) THEN Blank
                                ELSE Lightened(s, a)]
      /\ client' = client \ Deleted(els, Gone(s))
      /\ cur[s] = Null \/ {cur[s], el[cur[s]].source} \subseteq Live \cup {Null}
  BY DEF FinishFrame, Crash, SenderAt, Goto, Ended, Gone, Evict, Lightened
<1>2. cur[s] \in Addr \cup {Null}
  BY DEF SenderShape
<1>3. els \in [Addr -> Element] /\ \A a \in Addr : els[a].crc = el[a].crc
  <2>1. CASE cur[s] = Null
    BY <2>1 DEF Ended, Data
  <2>2. CASE cur[s] # Null
    BY <2>2, <1>2, SentElements DEF Ended
  <2>3. QED
    BY <2>1, <2>2
<1>4. /\ k \in 0 .. Len(cache) /\ Len(cache) \in Nat
      /\ Len(cache) # 0 => k < Len(cache)
  BY EvictedCount, ElementsOf DEF Data
<1>5. Gone(s) = {cache[i] : i \in 1 .. k}
  BY DEF Gone
<1> HIDE DEF els, k
<1>6. /\ cache' \in Seq(Addr) /\ OneEach(cache') /\ Len(cache') = Len(cache) - k
      /\ Elements(cache') = Live \ Gone(s)
      /\ k < Len(cache) => cache'[Len(cache')] = cache[Len(cache)]
  BY <1>1, <1>4, <1>5, CutOff DEF Data, ListShape
<1>7. Gone(s) \subseteq Live
  <2>1. \A i \in 1 .. k : cache[i] \in Live
    BY <1>4, ElementsOf DEF Data, Live
  <2>2. QED
    BY <2>1, <1>4, <1>5
<1>8. Live' = Live \ Gone(s) /\ Live \subseteq Addr
  BY <1>6, LiveType DEF Live
<1>9. /\ el' \in [Addr -> Element]
      /\ \A a \in Live' : el'[a] = Lightened(s, a) /\ el'[a].crc = els[a].crc
  <2>1. ASSUME NEW a \in Addr
        PROVE  /\ Lightened(s, a) \in Element
               /\ Lightened(s, a).crc = els[a].crc
    <3>1. UsersFreed(els, k, a) \in Nat
      <4>1. {j \in 1 .. k : els[cache[j]].source = a} \subseteq 1 .. k
        OBVIOUS
      <4>2. k \in Nat
        BY <1>4
      <4>3. IsFiniteSet(1 .. k)
        BY <4>2, UpTo
      <4>4. QED
        BY <4>1, <4>3, FS_Subset, FS_CardinalityType DEF UsersFreed
    <3>2. Lightened(s, a) =
            [els[a] EXCEPT !.busy = @ - UsersFreed(els, k, a)]
      BY DEF Lightened, els, k
    <3>3. els[a] \in Element
      BY <1>3
    <3>4. QED
      BY <3>1, <3>2, <3>3 DEF Element
  <2>2. QED
    BY <2>1, <1>1, <1>8, BlankType
<1>10. ListShape'
  <2>1. \A a \in Live' : a \in Live /\ el'[a].crc = el[a].crc
    <3>1. SUFFICES ASSUME NEW a \in Live' PROVE a \in Live /\ el'[a].crc = el[a].crc
      OBVIOUS
    <3>2. a \in Live /\ a \in Addr
      BY <1>8
    <3>3. el'[a].crc = els[a].crc
      BY <1>9
    <3>4. QED
      BY <3>2, <3>3, <1>3
  <2>2. ~connected' => cache' = <<>>
    <3>1. SUFFICES ASSUME ~connected PROVE cache' = <<>>
      BY <1>1 DEF conn
    <3>2. Len(cache) = 0
      BY <3>1, EmptySeq DEF ListShape
    <3>3. k = 0
      BY <3>2, <1>4
    <3>4. Len(cache') = 0
      BY <3>2, <3>3, <1>6
    <3>5. QED
      BY <3>4, <1>6, EmptySeq
  <2>3. QED
    BY <2>1, <2>2, <1>6 DEF ListShape
<1>11. Len(cache) # 0 =>
         Len(cache') # 0 /\ cache'[Len(cache')] = cache[Len(cache)]
  BY <1>4, <1>6
<1>12. {cur[s]} \cup (IF cur[s] = Null THEN {} ELSE {el[cur[s]].source})
         \subseteq Live \cup {Null}
  BY <1>1
<1>13. QED
  BY <1>1, <1>3, <1>6, <1>7, <1>8, <1>9, <1>10, <1>11, <1>12 DEF els

LEMMA DataStep ==
  ASSUME Shape, Next
  PROVE  Data' /\ ListShape'
<1> USE DEF Shape
<1>1. Live \subseteq Addr /\ \A a \in Addr : el[a] \in Element
  BY LiveType
<1>2. ASSUME UNCHANGED <<cache, el, queue, client>>, connected => connected'
      PROVE  Data' /\ ListShape'
  BY <1>2, ListKept DEF Data
<1>3. ASSUME Crash PROVE Data' /\ ListShape'
  BY <1>2, <1>3 DEF Crash, conn
<1>4. ASSUME NEW c \in Crc, AddFrame(c) PROVE Data' /\ ListShape'
  <2>1. connected /\ UNCHANGED <<queue, connected, client>>
    BY <1>4 DEF AddFrame, conn
  <2>2. ASSUME NEW a \in HasCrc(c), cache' = MoveToTail(a),
               el' = [el EXCEPT ![a] = Hold(@)]
        PROVE  Data' /\ ListShape'
    <3>1. a \in Live /\ a \in Addr
      BY <1>1 DEF HasCrc
    <3>2. /\ cache' \in Seq(Addr) /\ OneEach(cache') /\ Elements(cache') = Live
      BY <2>2, <3>1, MovedToTail DEF Data, ListShape
    <3>3. el' = [el EXCEPT ![a] = Hold(el[a])]
      BY <2>2
    <3>4. el' \in [Addr -> Element] /\ \A b \in Addr : SameButBusy(el[b], el'[b])
      BY <3>1, <3>3, HeldElements
    <3>5. Data'
      BY <2>1, <3>2, <3>4 DEF Data
    <3>6. Live' = Live /\ \A b \in Live : el'[b].crc = el[b].crc
      BY <3>2, <3>4, <1>1 DEF Live, SameButBusy
    <3>7. ListShape'
      BY <2>1, <3>2, <3>6 DEF ListShape
    <3>8. QED
      BY <3>5, <3>7
  <2>3. ASSUME HasCrc(c) = {}, NEW a \in Unused, cache' = Append(cache, a),
               el' = [el EXCEPT ![a] = Hold(NewElement(c))]
        PROVE  Data' /\ ListShape'
    BY <2>1, <2>3, AddedElement DEF Data
  <2>4. QED
    BY <2>2, <2>3, <1>4 DEF AddFrame
<1>5. CASE AddMainImage
  BY <1>2, <1>5 DEF AddMainImage, conn
<1>6. ASSUME NEW b \in Addr, NEW y, y \in {Hold(el[b]), Release(el[b])},
             el' = [el EXCEPT ![b] = y],
             UNCHANGED <<cache, queue, client, connected>>
      PROVE  Data' /\ ListShape'
  <2>1. el' \in [Addr -> Element] /\ \A a \in Addr : SameButBusy(el[a], el'[a])
    BY <1>6, HeldElements
  <2>2. \A a \in Live : el'[a].crc = el[a].crc
    BY <2>1, <1>1 DEF SameButBusy
  <2>3. QED
    BY <2>1, <2>2, <1>6, ListKept DEF Data
<1>7. CASE MatchFrame
  <2>1. ASSUME main.frame \in Live, NEW b \in Candidates(main.frame),
               el' = [el EXCEPT ![b] = Hold(@)],
               UNCHANGED <<cache, queue, client, connected>>
        PROVE  Data' /\ ListShape'
    <3>1. b \in Addr /\ el' = [el EXCEPT ![b] = Hold(el[b])]
      BY <2>1, CandidatesOf
    <3>2. QED
      BY <2>1, <3>1, <1>6
  <2>2. ASSUME main' = [main EXCEPT !.pc = "compress"],
               UNCHANGED <<cache, el, queue, client, connected>>
        PROVE  Data' /\ ListShape'
    BY <2>2, <1>2
  <2>3. QED
    BY <2>1, <2>2, <1>3, <1>7 DEF MatchFrame, conn
<1>8. CASE FindRegions
  <2>1. CASE {main.frame, main.best} \subseteq Live /\ el' # el
    <3>1. /\ el' = [el EXCEPT ![main.frame].source = main.best,
                              ![main.frame].source_crc = el[main.best].crc]
          /\ UNCHANGED <<cache, queue, client, connected>>
      BY <2>1, <1>8 DEF FindRegions, conn, Crash
    <3>2. main.frame \in Addr /\ main.best \in Addr
      BY <2>1, <1>1
    <3>3. /\ el' \in [Addr -> Element]
          /\ \A a \in Live : el'[a].crc = el[a].crc
      BY <3>1, <3>2, <1>1, FoundElements
    <3>4. QED
      BY <3>1, <3>3, ListKept DEF Data
  <2>2. QED
    BY <2>1, <1>2, <1>8 DEF FindRegions, conn, Crash
<1>9. CASE ReleaseMatch
  <2>1. CASE {main.frame, main.best} \subseteq Live /\ el' # el
    <3>1. /\ el' = [el EXCEPT ![main.best] = Release(el[main.best])]
          /\ UNCHANGED <<cache, queue, client, connected>>
      BY <2>1, <1>9 DEF ReleaseMatch, conn, Crash
    <3>2. QED
      BY <2>1, <3>1, <1>1, <1>6
  <2>2. QED
    BY <2>1, <1>2, <1>9 DEF ReleaseMatch, conn, Crash
<1>10. CASE CompressRegions
  <2>1. CASE main.frame \in Live
    <3>1. /\ el' = [el EXCEPT ![main.frame].regions = TRUE]
          /\ UNCHANGED <<cache, queue, client, connected>>
      BY <2>1, <1>10 DEF CompressRegions, conn, Crash
    <3>2. /\ el' \in [Addr -> Element]
          /\ \A a \in Live : el'[a].crc = el[a].crc
      BY <2>1, <3>1, <1>1, CompressedElements
    <3>3. QED
      BY <3>1, <3>2, ListKept DEF Data
  <2>2. QED
    BY <2>1, <1>3, <1>10 DEF CompressRegions
<1>11. CASE Enqueue
  <2>1. queue' = Append(queue, main.frame) /\ UNCHANGED <<cache, el, client, connected>>
    BY <1>11 DEF Enqueue, conn
  <2>2. queue' \in Seq(Addr \cup {Null})
    BY <2>1, AppendProperties DEF Data, MainShape
  <2>3. QED
    BY <2>1, <2>2, ListKept DEF Data
<1>12. ASSUME cache' = <<>>, el' = [a \in Addr |-> Blank],
              queue' = <<>> \/ queue' = queue, client' = client
       PROVE  Data' /\ ListShape'
  <2>1. Data'
    <3>1. cache' \in Seq(Addr) /\ queue' \in Seq(Addr \cup {Null})
      <4>1. <<>> \in Seq(Addr) /\ <<>> \in Seq(Addr \cup {Null})
        OBVIOUS
      <4>2. queue \in Seq(Addr \cup {Null})
        BY DEF Data
      <4>3. QED
        BY <4>1, <4>2, <1>12
    <3>2. el' \in [Addr -> Element]
      BY <1>12, BlankType
    <3>3. QED
      BY <3>1, <3>2, <1>12 DEF Data
  <2>2. ListShape'
    BY <1>12 DEF ListShape, OneEach, Live, Elements
  <2>3. QED
    BY <2>1, <2>2
<1>13. CASE ClientGone \/ Hangup
  BY <1>2, <1>12, <1>13 DEF ClientGone, Hangup, CleanEverything, CrashInCleanup, conn
<1>14. CASE ClientGeometry \/ RebuildCaches
  BY <1>2, <1>14 DEF ClientGeometry, RebuildCaches
<1>15. ASSUME NEW s \in Senders, Accept(s) \/ SendReinit(s) PROVE Data' /\ ListShape'
  <2>1. client' = {} /\ UNCHANGED <<cache, el, queue>>
    BY <1>15 DEF Accept, SendReinit
  <2>2. connected => connected'
    BY <1>15 DEF Accept, SendReinit, conn
  <2>3. QED
    BY <2>1, <2>2, ListKept DEF Data
<1>16. ASSUME NEW s \in Senders,
              Lock(s) \/ CheckConnected(s) \/ TakeRebuild(s) \/ SendMainImage(s)
       PROVE  Data' /\ ListShape'
  BY <1>2, <1>16 DEF Lock, CheckConnected, TakeRebuild, SendMainImage, conn
<1>17. ASSUME NEW s \in Senders, ClearQueue(s) PROVE Data' /\ ListShape'
  <2>1. ASSUME el' = AfterClearQueue, queue' = <<>>, UNCHANGED <<cache, client, connected>>
        PROVE  Data' /\ ListShape'
    <3>1. /\ el' \in [Addr -> Element]
          /\ \A a \in Live : el'[a].crc = el[a].crc
      BY <2>1, <1>1, ClearedElements
    <3>2. QED
      BY <2>1, <3>1, ListKept DEF Data
  <2>2. QED
    BY <2>1, <1>3, <1>17 DEF ClearQueue, conn
<1>18. ASSUME NEW s \in Senders, ClearCache(s) PROVE Data' /\ ListShape'
  BY <1>2, <1>12, <1>18 DEF ClearCache, CrashInCleanup, conn
<1>19. ASSUME NEW s \in Senders, PopFrame(s) PROVE Data' /\ ListShape'
  <2>1. ASSUME queue # <<>>, queue' = Tail(queue),
               UNCHANGED <<cache, el, client, connected>>
        PROVE  Data' /\ ListShape'
    <3>1. queue' \in Seq(Addr \cup {Null})
      BY <2>1, ElementsTail DEF Data
    <3>2. QED
      BY <2>1, <3>1, ListKept DEF Data
  <2>2. QED
    BY <2>1, <1>2, <1>3, <1>19 DEF PopFrame, conn
<1>20. ASSUME NEW s \in Senders, SendFrame(s) PROVE Data' /\ ListShape'
  <2>1. ASSUME cur[s] \in Live, client' = client \cup {el[cur[s]].crc},
               UNCHANGED <<cache, el, queue, connected>>
        PROVE  Data' /\ ListShape'
    <3>1. client' \in SUBSET Crc
      BY <2>1 DEF Data, ListShape
    <3>2. QED
      BY <2>1, <3>1, ListKept DEF Data
  <2>2. QED
    BY <2>1, <1>3, <1>20 DEF SendFrame, conn
<1>21. ASSUME NEW s \in Senders, FinishFrame(s) PROVE Data' /\ ListShape'
  <2>1. CASE Crash
    BY <2>1, <1>3
  <2>2. CASE ~Crash
    <3>1. ~fault'
      BY <2>2, <1>21 DEF FinishFrame, SenderAt
    <3>2. QED
      BY <3>1, <1>21, FinishedFrame DEF Data
  <2>3. QED
    BY <2>1, <2>2
<1>22. QED
  BY <1>4, <1>5, <1>7, <1>8, <1>9, <1>10, <1>11, <1>13, <1>14, <1>15, <1>16,
     <1>17, <1>18, <1>19, <1>20, <1>21
     DEF Next, MainStep, MainEvent, SenderStep

LEMMA ShapeStep ==
  ASSUME Shape, [Next]_vars
  PROVE  Shape'
<1>1. CASE Next
  BY <1>1, FlagsStep, DataStep, MainShapeStep, SenderShapeStep DEF Shape
<1>2. CASE UNCHANGED vars
  BY <1>2 DEF vars, Shape, Flags, Data, MainShape, SenderShape, ListShape,
              OneEach, Live, Elements
<1>3. QED
  BY <1>1, <1>2

-----------------------------------------------------------------------------
(* While no cleanup has overlapped with work on a frame.                   *)

Newest == cache[Len(cache)]

(* The frame the main thread works on is the newest of the list.  When it  *)
(* works on none, what is queued last is.                                  *)
NewestLast ==
  ~overlap =>
    /\ main.frame # Null => Len(cache) # 0 /\ main.frame = Newest
    /\ main.frame = Null =>
         \A i \in DOMAIN queue :
           queue[i] # Null =>
             /\ Len(cache) # 0
             /\ \E j \in DOMAIN queue : j >= i /\ queue[j] = Newest

(* During a cleanup by a sending thread no frame is being sent, and the    *)
(* client has nothing.                                                     *)
Calm ==
  ~overlap /\ Cleaning => (\A s \in Senders : cur[s] = Null) /\ client = {}

LEMMA NewestIsLive ==
  ASSUME Data, Len(cache) # 0 PROVE Newest \in Live
<1>1. Len(cache) \in 1 .. Len(cache) /\ DOMAIN cache = 1 .. Len(cache)
  BY ElementsOf DEF Data
<1>2. QED
  BY <1>1 DEF Newest, Live, Elements

LEMMA OverlapStays ==
  ASSUME Next, overlap PROVE overlap'
<1> USE DEF Crash
<1>1. CASE MainStep
  BY <1>1 DEF MainStep, AddFrame, AddMainImage, MatchFrame, FindRegions,
              ReleaseMatch, CompressRegions, Enqueue
<1>2. CASE MainEvent
  BY <1>2 DEF MainEvent, ClientGone, Hangup, CleanEverything, CrashInCleanup,
              ClientGeometry, RebuildCaches, Accept
<1>3. ASSUME NEW s \in Senders, SenderStep(s) PROVE overlap'
  BY <1>3 DEF SenderStep, Lock, CheckConnected, TakeRebuild, SendReinit,
       ClearQueue, ClearCache, CrashInCleanup, PopFrame, SendFrame,
       SendMainImage, FinishFrame
<1>4. QED
  BY <1>1, <1>2, <1>3 DEF Next

(* Only ClearCache ends a cleanup.                                         *)
LEMMA CleaningStays ==
  ASSUME SenderShape, Next, Cleaning,
         \A s \in Senders : ClearCache(s) => UNCHANGED spc
  PROVE  Cleaning'
<1> USE DEF SenderShape
<1>1. PICK t \in Senders : spc[t] \in {"clear queue", "clear cache"}
  BY DEF Cleaning
<1>2. ASSUME UNCHANGED spc PROVE Cleaning'
  BY <1>1, <1>2 DEF Cleaning
<1>3. CASE MainStep \/ ClientGone \/ Hangup \/ ClientGeometry \/ RebuildCaches
  BY <1>2, <1>3, MainKeepsSenders
<1>4. ASSUME NEW s \in Senders, NEW pc, spc' = [spc EXCEPT ![s] = pc],
             s # t \/ pc = "clear cache"
      PROVE  Cleaning'
  BY <1>1, <1>4 DEF Cleaning
<1>5. ASSUME NEW s \in Senders, Accept(s) PROVE Cleaning'
  BY <1>1, <1>4, <1>5 DEF Accept
<1>6. ASSUME NEW s \in Senders, Lock(s) PROVE Cleaning'
  <2>1. spc[s] \in {"top", "wait", "frames", "written"}
    BY <1>6 DEF Lock, LockTarget
  <2>2. QED
    BY <2>1, <1>1, <1>4, <1>6 DEF Lock, Goto
<1>7. ASSUME NEW s \in Senders,
             CheckConnected(s) \/ TakeRebuild(s) \/ SendReinit(s) \/ ClearQueue(s)
      PROVE  Cleaning'
  BY <1>1, <1>2, <1>4, <1>7 DEF CheckConnected, TakeRebuild, SendReinit, ClearQueue,
       SenderAt, Goto, Crash, threads
<1>8. ASSUME NEW s \in Senders,
             PopFrame(s) \/ SendFrame(s) \/ SendMainImage(s) \/ FinishFrame(s)
      PROVE  Cleaning'
  BY <1>1, <1>2, <1>4, <1>8 DEF PopFrame, SendFrame, SendMainImage, FinishFrame,
       SenderAt, Goto, Crash, threads
<1>9. ASSUME NEW s \in Senders, ClearCache(s) PROVE Cleaning'
  BY <1>2, <1>9
<1>10. QED
  BY <1>3, <1>5, <1>6, <1>7, <1>8, <1>9 DEF Next, MainEvent, SenderStep

LEMMA NewestStep ==
  ASSUME Shape, NewestLast, Next
  PROVE  NewestLast'
<1> USE DEF Shape
<1>1. SUFFICES ASSUME ~overlap' PROVE NewestLast'
  BY DEF NewestLast
<1>2. ~overlap
  BY <1>1, OverlapStays
<1>3. ASSUME UNCHANGED <<cache, queue>>, main'.frame = main.frame
      PROVE  NewestLast'
  BY <1>1, <1>2, <1>3 DEF NewestLast, Newest
<1>4. ASSUME Crash PROVE NewestLast'
  BY <1>3, <1>4 DEF Crash, threads
<1>5. ASSUME NEW c \in Crc, AddFrame(c) PROVE NewestLast'
  <2>1. ASSUME NEW a, main' = [pc |-> "enqueue", frame |-> a, best |-> Null]
                        \/ main' = [pc |-> "match", frame |-> a, best |-> Null],
               Len(cache') # 0, cache'[Len(cache')] = a, a # Null
        PROVE  NewestLast'
    <3>1. main'.frame = a
      BY <2>1
    <3>2. QED
      BY <2>1, <3>1 DEF NewestLast, Newest
  <2>2. ASSUME NEW a \in HasCrc(c), cache' = MoveToTail(a),
               main' = [pc |-> "enqueue", frame |-> a, best |-> Null]
        PROVE  NewestLast'
    <3>1. a \in Live /\ a # Null
      BY LiveType DEF HasCrc
    <3>2. Len(cache') # 0 /\ cache'[Len(cache')] = a
      BY <2>2, <3>1, MovedToTail DEF Data, ListShape
    <3>3. QED
      BY <2>1, <2>2, <3>1, <3>2
  <2>3. ASSUME NEW a \in Unused, cache' = Append(cache, a),
               main' = [pc |-> "match", frame |-> a, best |-> Null]
        PROVE  NewestLast'
    <3>1. a \in Addr /\ a # Null
      BY NullAssumption DEF Unused
    <3>2. Len(cache') # 0 /\ cache'[Len(cache')] = a
      <4>1. Len(cache') = Len(cache) + 1 /\ cache'[Len(cache) + 1] = a
            /\ Len(cache) \in Nat
        BY <2>3, <3>1, AppendProperties, ElementsOf DEF Data
      <4>2. QED
        BY <4>1
    <3>3. QED
      BY <2>1, <2>3, <3>1, <3>2
  <2>4. QED
    BY <2>2, <2>3, <1>5 DEF AddFrame
<1>6. CASE AddMainImage
  <2>1. main'.frame = main.frame /\ UNCHANGED <<cache, queue>>
    BY <1>6 DEF AddMainImage, MainAt, MainShape
  <2>2. QED
    BY <2>1, <1>3
<1>7. CASE MatchFrame \/ FindRegions \/ ReleaseMatch \/ CompressRegions
  <2>1. main'.frame = main.frame /\ UNCHANGED <<cache, queue>>
    BY <1>7 DEF MatchFrame, FindRegions, ReleaseMatch, CompressRegions,
                MainShape, Crash, threads
  <2>2. QED
    BY <2>1, <1>3
<1>8. CASE Enqueue
  <2> DEFINE n == Len(queue)
  <2>1. /\ queue' = Append(queue, main.frame) /\ cache' = cache
        /\ main'.frame = Null /\ main.frame \in Addr \cup {Null}
    BY <1>8 DEF Enqueue, MainIdle, MainShape
  <2>2. /\ n \in Nat /\ DOMAIN queue = 1 .. n
        /\ DOMAIN queue' = 1 .. n + 1
        /\ \A i \in 1 .. n : queue'[i] = queue[i]
        /\ queue'[n + 1] = main.frame
    <3>1. /\ Append(queue, main.frame) \in Seq(Addr \cup {Null})
          /\ Len(Append(queue, main.frame)) = n + 1
      BY <2>1, AppendProperties DEF Data
    <3>2. QED
      BY <2>1, <3>1, AppendProperties, ElementsOf DEF Data
  <2> HIDE DEF n
  <2>3. SUFFICES ASSUME NEW i \in 1 .. n + 1, queue'[i] # Null
                 PROVE  /\ Len(cache) # 0
                        /\ \E j \in 1 .. n + 1 : j >= i /\ queue'[j] = Newest
    BY <2>1, <2>2 DEF NewestLast, Newest
  <2>4. CASE main.frame # Null
    <3>1. n + 1 \in 1 .. n + 1 /\ n + 1 >= i
      BY <2>2
    <3>2. QED
      BY <3>1, <2>2, <2>4, <1>2 DEF NewestLast
  <2>5. CASE main.frame = Null
    <3>1. i \in 1 .. n /\ queue[i] # Null
      BY <2>2, <2>3, <2>5
    <3>2. Len(cache) # 0 /\ \E j \in 1 .. n : j >= i /\ queue[j] = Newest
      BY <3>1, <2>2, <2>5, <1>2 DEF NewestLast
    <3>3. \A j \in 1 .. n : j \in 1 .. n + 1
      BY <2>2
    <3>4. QED
      BY <3>2, <3>3, <2>2
  <2>6. QED
    BY <2>4, <2>5
<1>9. main.frame # Null => main.frame \in Live
  BY <1>2, NewestIsLive DEF NewestLast
<1>10. ASSUME NEW q, cache' = <<>>, queue' = q, overlap' = (overlap \/ InUse(q)),
              UNCHANGED main, q = <<>> \/ q = queue
       PROVE  NewestLast'
  <2>1. ~InUse(q)
    BY <1>1, <1>10
  <2>2. main.frame = Null
    BY <2>1, <1>9 DEF InUse, Held
  <2>3. CASE q = <<>>
    BY <1>10, <2>2, <2>3 DEF NewestLast
  <2>4. CASE q = queue
    <3>1. ASSUME NEW i \in DOMAIN queue, queue[i] # Null PROVE FALSE
      <4>1. Len(cache) # 0
        BY <3>1, <2>2, <1>2 DEF NewestLast
      <4>2. PICK j \in DOMAIN queue : queue[j] = Newest
        BY <3>1, <2>2, <1>2 DEF NewestLast
      <4>3. Newest \in Elements(queue) /\ Newest \in Live /\ Newest # Null
        BY <4>1, <4>2, NewestIsLive, LiveType DEF Elements
      <4>4. QED
        BY <4>3, <2>1, <2>4 DEF InUse
    <3>2. QED
      BY <1>10, <2>2, <2>4, <3>1 DEF NewestLast
  <2>5. QED
    BY <2>3, <2>4, <1>10
<1>11. CASE ClientGone \/ Hangup
  BY <1>3, <1>10, <1>11 DEF ClientGone, Hangup, CleanEverything, CrashInCleanup,
                            threads
<1>12. ASSUME NEW s \in Senders,
              Accept(s) \/ Lock(s) \/ CheckConnected(s) \/ TakeRebuild(s)
                \/ SendReinit(s) \/ SendFrame(s) \/ SendMainImage(s)
       PROVE  NewestLast'
  BY <1>3, <1>12 DEF Accept, Lock, CheckConnected,
       TakeRebuild, SendReinit, SendFrame, SendMainImage, Crash, threads
<1>13. ASSUME NEW s \in Senders, ClearQueue(s) PROVE NewestLast'
  <2>1. ASSUME queue' = <<>>, UNCHANGED <<cache, main>> PROVE NewestLast'
    BY <2>1, <1>2 DEF NewestLast, Newest
  <2>2. QED
    BY <2>1, <1>4, <1>13 DEF ClearQueue
<1>14. ASSUME NEW s \in Senders, ClearCache(s) PROVE NewestLast'
  BY <1>3, <1>10, <1>14 DEF ClearCache, CrashInCleanup, threads
<1>15. ASSUME NEW s \in Senders, PopFrame(s) PROVE NewestLast'
  <2>1. ASSUME queue # <<>>, queue' = Tail(queue), UNCHANGED <<cache, main>>
        PROVE  NewestLast'
    <3> DEFINE n == Len(queue)
    <3>1. /\ n \in Nat /\ DOMAIN queue = 1 .. n /\ n # 0
          /\ DOMAIN queue' = 1 .. n - 1
          /\ \A i \in 1 .. n - 1 : queue'[i] = queue[i + 1]
      BY <2>1, ElementsTail, ElementsOf DEF Data
    <3> HIDE DEF n
    <3>2. SUFFICES ASSUME main.frame = Null, NEW i \in 1 .. n - 1, queue'[i] # Null
                   PROVE  /\ Len(cache) # 0
                          /\ \E j \in 1 .. n - 1 : j >= i /\ queue'[j] = Newest
      BY <2>1, <3>1, <1>2 DEF NewestLast, Newest
    <3>3. i + 1 \in 1 .. n /\ queue[i + 1] # Null
      BY <3>1, <3>2
    <3>4. Len(cache) # 0 /\ \E j \in 1 .. n : j >= i + 1 /\ queue[j] = Newest
      BY <3>1, <3>2, <3>3, <1>2 DEF NewestLast
    <3>5. PICK j \in 1 .. n : j >= i + 1 /\ queue[j] = Newest
      BY <3>4
    <3>6. j - 1 \in 1 .. n - 1 /\ j - 1 >= i /\ (j - 1) + 1 = j
      BY <3>1, <3>5
    <3>7. QED
      BY <3>1, <3>4, <3>5, <3>6
  <2>2. QED
    BY <2>1, <1>3, <1>4, <1>15 DEF PopFrame
<1>16. ASSUME NEW s \in Senders, FinishFrame(s) PROVE NewestLast'
  <2>1. CASE fault'
    BY <2>1, <1>4, <1>16 DEF FinishFrame, SenderAt
  <2>2. CASE ~fault'
    <3>1. /\ Len(cache) # 0 => Len(cache') # 0 /\ Newest' = Newest
          /\ UNCHANGED <<queue, main>>
      BY <2>2, <1>16, FinishedFrame DEF Newest
    <3>2. QED
      BY <3>1, <1>2 DEF NewestLast
  <2>3. QED
    BY <2>1, <2>2
<1>17. CASE ClientGeometry \/ RebuildCaches
  BY <1>3, <1>17 DEF ClientGeometry, RebuildCaches, threads
<1>18. QED
  BY <1>5, <1>6, <1>7, <1>8, <1>11, <1>12, <1>13, <1>14, <1>15, <1>16, <1>17
     DEF Next, MainStep, MainEvent, SenderStep

LEMMA CalmStep ==
  ASSUME Shape, Calm, Next
  PROVE  Calm'
<1> USE DEF Shape, SenderShape
<1>1. SUFFICES ASSUME ~overlap', Cleaning'
               PROVE  (\A s \in Senders : cur'[s] = Null) /\ client' = {}
  BY DEF Calm
<1>2. ~overlap
  BY <1>1, OverlapStays
<1>3. ASSUME UNCHANGED <<cur, client>>, Cleaning
      PROVE  (\A s \in Senders : cur'[s] = Null) /\ client' = {}
  BY <1>2, <1>3 DEF Calm
<1>4. ASSUME UNCHANGED spc PROVE Cleaning
  BY <1>1, <1>4 DEF Cleaning
<1>5. ASSUME NEW s \in Senders, NEW pc, spc' = [spc EXCEPT ![s] = pc],
             pc \in {"clear queue", "clear cache"} => spc[s] = "clear queue"
      PROVE  Cleaning
  <2>1. PICK t \in Senders : spc'[t] \in {"clear queue", "clear cache"}
    BY <1>1 DEF Cleaning
  <2>2. CASE t = s
    BY <2>1, <2>2, <1>5 DEF Cleaning
  <2>3. CASE t # s
    BY <2>1, <2>3, <1>5 DEF Cleaning
  <2>4. QED
    BY <2>2, <2>3
<1> DEFINE Goal == (\A s \in Senders : cur'[s] = Null) /\ client' = {}
<1>6. CASE MainStep
  <2>1. UNCHANGED <<client, spc, cur>>
    BY <1>6, MainKeepsSenders DEF MainStep, AddFrame, AddMainImage, MatchFrame,
         FindRegions, ReleaseMatch, CompressRegions, Enqueue, Crash
  <2>2. QED
    BY <2>1, <1>3, <1>4
<1>7. CASE ClientGone \/ Hangup \/ ClientGeometry \/ RebuildCaches
  <2>1. UNCHANGED <<client, spc, cur>>
    BY <1>7, MainKeepsSenders DEF ClientGone, Hangup, CleanEverything,
         CrashInCleanup, ClientGeometry, RebuildCaches
  <2>2. QED
    BY <2>1, <1>3, <1>4
<1>8. ASSUME NEW s \in Senders, Accept(s) PROVE Goal
  <2>1. Cleaning
    BY <1>5, <1>8 DEF Accept
  <2>2. QED
    BY <2>1, <1>2, <1>8 DEF Accept, Calm
<1>9. ASSUME NEW s \in Senders, Lock(s) PROVE Goal
  <2>1. LockTarget[spc[s]] \in {"check", "serve", "pop", "done"}
    BY <1>9 DEF Lock, LockTarget
  <2>2. QED
    BY <2>1, <1>3, <1>5, <1>9 DEF Lock, Goto
<1>10. ASSUME NEW s \in Senders,
              CheckConnected(s) \/ TakeRebuild(s) \/ ClearQueue(s) \/ ClearCache(s)
       PROVE  Goal
  <2>1. UNCHANGED <<client, cur>>
    BY <1>10 DEF CheckConnected, TakeRebuild, ClearQueue, ClearCache,
                 CrashInCleanup, Crash, threads
  <2>2. Cleaning
    BY <1>4, <1>5, <1>10 DEF CheckConnected, TakeRebuild, ClearQueue, ClearCache,
         CrashInCleanup, Crash, threads, SenderAt, Goto
  <2>3. QED
    BY <2>1, <2>2, <1>3
<1>11. ASSUME NEW s \in Senders, SendReinit(s) PROVE Goal
  BY <1>1, <1>11 DEF SendReinit, Sending
<1>12. ASSUME NEW s \in Senders, PopFrame(s) PROVE Goal
  <2>1. Cleaning
    BY <1>4, <1>5, <1>12 DEF PopFrame, SenderAt, Goto, Crash, threads
  <2>2. UNCHANGED <<client, cur>>
    BY <2>1, <1>1, <1>12 DEF PopFrame, Crash, threads
  <2>3. QED
    BY <2>1, <2>2, <1>3
<1>13. ASSUME NEW s \in Senders, SendFrame(s) \/ SendMainImage(s) PROVE Goal
  <2>1. Cleaning
    BY <1>4, <1>5, <1>13 DEF SendFrame, SendMainImage, SenderAt, Goto, Crash, threads
  <2>2. UNCHANGED <<client, cur>>
    BY <2>1, <1>2, <1>13 DEF Calm, SendFrame, SendMainImage
  <2>3. QED
    BY <2>1, <2>2, <1>3
<1>14. ASSUME NEW s \in Senders, FinishFrame(s) PROVE Goal
  <2>1. Cleaning
    BY <1>4, <1>5, <1>14 DEF FinishFrame, SenderAt, Goto, Crash, threads
  <2>2. CASE fault'
    BY <2>1, <2>2, <1>3, <1>14 DEF FinishFrame, SenderAt, Crash, threads
  <2>3. CASE ~fault'
    <3>1. /\ client' = client \ Deleted(Ended(s), Gone(s))
          /\ cur' = [cur EXCEPT ![s] = Null]
      BY <2>3, <1>14, FinishedFrame
    <3>2. QED
      BY <2>1, <3>1, <1>2 DEF Calm
  <2>4. QED
    BY <2>2, <2>3
<1>15. QED
  BY <1>6, <1>7, <1>8, <1>9, <1>10, <1>11, <1>12, <1>13, <1>14
     DEF Next, MainEvent, SenderStep

-----------------------------------------------------------------------------
(* Between cleanups.                                                       *)

Pending(a) ==
  a \in Queued \/ main.frame = a \/ \E s \in Senders : cur[s] = a

Preparing == main.pc \in {"match", "regions", "unmatch", "compress"}

Sound == ~fault /\ Queued \cup Held \subseteq Live

Counts == \A a \in Live : el[a].busy = Users(a)

(* A frame has a source from the comparison until it is written.           *)
Sources ==
  \A a \in Live :
    /\ el[a].source = Null <=> el[a].source_crc = Null
    /\ el[a].source # Null =>
         /\ el[a].source \in Live /\ el[el[a].source].sent
         /\ el[el[a].source].crc = el[a].source_crc
         /\ ~el[a].sent /\ Pending(a)

(* Only the main thread knows a frame it is preparing.                     *)
Fresh ==
  /\ Preparing =>
       /\ main.frame \notin Queued
       /\ \A s \in Senders : cur[s] # main.frame
       /\ ~el[main.frame].sent
  /\ main.pc \in {"match", "regions"} => el[main.frame].source = Null
  /\ main.best # Null => el[main.best].sent

(* What a frame is drawn from.                                             *)
Filled ==
  \A a \in Live :
    el[a].regions \/ el[a].sent \/ (Preparing /\ main.frame = a)

(* What the client knows.                                                  *)
Known ==
  /\ \A a \in Live : el[a].sent => el[a].crc \in client
  /\ \A s \in Senders :
       cur[s] # Null /\ spc[s] \in {"written", "done"} =>
         el[cur[s]].crc \in client
  /\ connected => client \subseteq {el[a].crc : a \in Live}

Good == Sound /\ Counts /\ Sources /\ Fresh /\ Filled /\ Known

Invariant == Shape /\ NewestLast /\ Calm /\ (Orderly => Good)

LEMMA PartTypes ==
  ASSUME Data, NEW a
  PROVE  /\ Cardinality(Places(queue, a)) \in Nat
         /\ Cardinality(Takers(cur, a)) \in Nat
         /\ Cardinality(Based(Live, el, a)) \in Nat
         /\ Working(a) \in {0, 1} /\ Matching(a) \in {0, 1}
<1>1. Cardinality(Places(queue, a)) \in Nat
  BY PlacesOf DEF Data
<1>2. Cardinality(Based(Live, el, a)) \in Nat
  BY LiveType, BasedOf
<1>3. QED
  BY <1>1, <1>2, TakersOf DEF Working, Matching

(* An element without users is in nobody's hands.                          *)
LEMMA Unneeded ==
  ASSUME Shape, Sound, NEW a \in Live, Users(a) = 0
  PROVE  /\ ~Pending(a) /\ main.best # a
         /\ \A b \in Live : el[b].source # a
<1> USE DEF Shape
<1>1. /\ Cardinality(Places(queue, a)) = 0 /\ Cardinality(Takers(cur, a)) = 0
      /\ Cardinality(Based(Live, el, a)) = 0
      /\ Working(a) = 0 /\ Matching(a) = 0
  <2> DEFINE p == Cardinality(Places(queue, a))
             t == Cardinality(Takers(cur, a))
             n == Cardinality(Based(Live, el, a))
             w == Working(a)
             m == Matching(a)
  <2>1. p \in Nat /\ t \in Nat /\ n \in Nat /\ w \in {0, 1} /\ m \in {0, 1}
    BY PartTypes
  <2>2. Users(a) = p + t + n + w + m
    BY UsersSum
  <2> HIDE DEF p, t, n, w, m
  <2>3. p = 0 /\ t = 0 /\ n = 0 /\ w = 0 /\ m = 0
    BY <2>1, <2>2
  <2>4. QED
    BY <2>3 DEF p, t, n, w, m
<1>2. a \notin Elements(queue) /\ \A s \in Senders : cur[s] # a
  BY <1>1, PlacesOf, TakersOf DEF Data
<1>3. \A b \in Live : el[b].source # a
  BY <1>1, LiveType, BasedOf
<1>4. main.frame # a
  BY <1>1 DEF Working
<1>5. main.best # a
  <2>1. SUFFICES ASSUME main.best = a PROVE FALSE
    OBVIOUS
  <2>2. a # Null
    BY LiveType
  <2>3. main.frame \in Live
    BY <2>1, <2>2, NullAssumption DEF MainShape, Sound, Held
  <2>4. QED
    BY <2>1, <2>3, <1>1, <1>3 DEF Matching
<1>6. QED
  BY <1>2, <1>3, <1>4, <1>5 DEF Pending, Queued

(* A step that leaves frames and elements alone.                           *)
LEMMA GoodSame ==
  ASSUME Good, UNCHANGED <<cache, el, queue, main, cur, client, fault>>,
         connected' => connected,
         \A s \in Senders :
           cur[s] # Null /\ spc'[s] \in {"written", "done"} =>
             spc[s] \in {"written", "done"}
  PROVE  Good'
<1>1. Live' = Live /\ Queued' = Queued /\ Held' = Held
  BY DEF Live, Queued, Held, Elements
<1>2. ASSUME NEW a PROVE Users(a)' = Users(a) /\ (Pending(a)' <=> Pending(a))
  BY <1>1 DEF Users, Pending
<1>3. Sound' /\ Fresh'
  BY <1>1 DEF Good, Sound, Fresh, Preparing
<1>4. Counts' /\ Sources'
  BY <1>1, <1>2 DEF Good, Counts, Sources
<1>5. Filled'
  BY <1>1 DEF Good, Filled, Preparing
<1>6. Known'
  BY <1>1 DEF Good, Known
<1>7. QED
  BY <1>3, <1>4, <1>5, <1>6 DEF Good

(* Without elements there is nothing to go wrong.                          *)
LEMMA GoodEmpty ==
  ASSUME cache' = <<>>, Queued' = {}, Held' = {}, ~fault', MainShape',
         connected' => client' = {}
  PROVE  Good'
<1>1. Live' = {}
  BY DEF Live, Elements
<1>2. main'.frame = Null /\ main'.best = Null /\ \A s \in Senders : cur'[s] = Null
  BY DEF Held
<1>3. ~Preparing' /\ main'.pc \notin {"match", "regions"}
  BY <1>2 DEF MainShape, Preparing
<1>4. Sound' /\ Fresh'
  BY <1>2, <1>3 DEF Sound, Fresh
<1>5. Counts' /\ Sources' /\ Filled'
  BY <1>1 DEF Counts, Sources, Filled
<1>6. Known'
  BY <1>1, <1>2 DEF Known
<1>7. QED
  BY <1>4, <1>5, <1>6 DEF Good

InQueue(a) == Cardinality(Places(queue, a))
InSending(a) == Cardinality(Takers(cur, a))
AsSource(a) == Cardinality(Based(Live, el, a))

LEMMA UsersChange ==
  ASSUME Data, Data', NEW a
  PROVE  /\ InQueue(a) \in Nat /\ InSending(a) \in Nat /\ AsSource(a) \in Nat
         /\ InQueue(a)' \in Nat /\ InSending(a)' \in Nat /\ AsSource(a)' \in Nat
         /\ Working(a) \in {0, 1} /\ Matching(a) \in {0, 1}
         /\ Working(a)' \in {0, 1} /\ Matching(a)' \in {0, 1}
         /\ Users(a) = InQueue(a) + InSending(a) + AsSource(a) + Working(a)
                          + Matching(a)
         /\ Users(a)' = InQueue(a)' + InSending(a)' + AsSource(a)' + Working(a)'
                          + Matching(a)'
<1>1. InQueue(a) \in Nat /\ InQueue(a)' \in Nat
  BY PlacesOf DEF InQueue, Data
<1>2. InSending(a) \in Nat /\ InSending(a)' \in Nat
  BY TakersOf DEF InSending
<1>3. AsSource(a) \in Nat /\ AsSource(a)' \in Nat
  <2>1. IsFiniteSet(Live) /\ IsFiniteSet(Live')
    BY ElementsOf DEF Data, Live
  <2>2. QED
    BY <2>1, BasedOf DEF AsSource
<1>4. QED
  BY <1>1, <1>2, <1>3, UsersSum DEF InQueue, InSending, AsSource, Working, Matching

(* A step after which each element looks as before and is still needed.    *)
LEMMA ContentsKept ==
  ASSUME Shape, Good, Live' = Live,
         \A a \in Live : SameButBusy(el[a], el'[a]),
         \A a \in Live : Pending(a) => Pending(a)',
         \A a \in Live : Preparing /\ main.frame = a =>
                           Preparing' /\ main'.frame = a,
         client' = client, connected' => connected,
         \A s \in Senders :
           cur'[s] # Null /\ spc'[s] \in {"written", "done"} =>
             cur'[s] = cur[s] /\ spc[s] \in {"written", "done"}
  PROVE  Sources' /\ Filled' /\ Known'
<1> USE DEF SameButBusy
<1>1. Sources'
  <2>1. SUFFICES
          ASSUME NEW a \in Live
          PROVE  /\ el'[a].source = Null <=> el'[a].source_crc = Null
                 /\ el'[a].source # Null =>
                      /\ el'[a].source \in Live /\ el'[el'[a].source].sent
                      /\ el'[el'[a].source].crc = el'[a].source_crc
                      /\ ~el'[a].sent /\ Pending(a)'
    BY DEF Sources
  <2>2. QED
    BY DEF Good, Sources
<1>2. Filled'
  BY DEF Good, Filled
<1>3. Known'
  <2>1. \A s \in Senders : cur[s] # Null => cur[s] \in Live
    BY DEF Good, Sound, Held
  <2>2. {el'[a].crc : a \in Live} = {el[a].crc : a \in Live}
    OBVIOUS
  <2>3. QED
    BY <2>1, <2>2 DEF Good, Known
<1>4. QED
  BY <1>1, <1>2, <1>3

LEMMA LiveFacts ==
  ASSUME Shape, Sound
  PROVE  /\ main.frame # Null => main.frame \in Live
         /\ main.best # Null => main.best \in Live
         /\ \A s \in Senders : cur[s] # Null => cur[s] \in Live
         /\ \A i \in DOMAIN queue : queue[i] # Null => queue[i] \in Live
         /\ Live \subseteq Addr /\ Null \notin Live
BY LiveType DEF Shape, Sound, Held, Queued, Elements

-----------------------------------------------------------------------------
(* The steps of the main thread.                                           *)

LEMMA GoodFound ==
  ASSUME Shape, Good, NEW c \in Crc, NEW a \in HasCrc(c), main.pc = "idle",
         cache' = MoveToTail(a), el' = [el EXCEPT ![a] = Hold(@)],
         main' = [pc |-> "enqueue", frame |-> a, best |-> Null],
         UNCHANGED <<queue, connected, spc, cur, client, fault>>, Data'
  PROVE  Good'
<1> USE DEF Shape
<1>1. /\ a \in Live /\ a \in Addr /\ a # Null
      /\ Null \notin Live /\ Live \subseteq Addr
  BY LiveType DEF HasCrc
<1>2. Live' = Live
  BY <1>1, MovedToTail DEF Data, ListShape, Live
<1>3. el' = [el EXCEPT ![a] = Hold(el[a])]
  OBVIOUS
<1>4. /\ \A b \in Addr : SameButBusy(el[b], el'[b])
      /\ \A b \in Addr : b # a => el'[b] = el[b]
      /\ el'[a].busy = el[a].busy + 1
  BY <1>1, <1>3, HeldElements, LiveType, ElementTypes
<1>5. /\ main.frame = Null /\ main.best = Null
      /\ main'.frame = a /\ main'.best = Null /\ main'.pc = "enqueue"
  BY DEF MainShape
<1>6. Queued' = Queued /\ Held' \subseteq Held \cup {a}
  BY <1>5 DEF Queued, Held
<1>7. Sound'
  BY <1>1, <1>2, <1>6 DEF Good, Sound
<1>8. Counts'
  <2>1. SUFFICES ASSUME NEW x \in Live PROVE el'[x].busy = Users(x)'
    BY <1>2 DEF Counts
  <2>2. InQueue(x)' = InQueue(x) /\ InSending(x)' = InSending(x)
        /\ AsSource(x)' = AsSource(x)
    <3>1. \A b \in Live : el'[b].source = el[b].source
      BY <1>1, <1>4 DEF SameButBusy
    <3>2. Based(Live', el', x) = Based(Live, el, x)
      BY <3>1, <1>2 DEF Based
    <3>3. QED
      BY <3>2 DEF InQueue, InSending, AsSource
  <2>3. /\ Working(x) = 0 /\ Matching(x) = 0 /\ Matching(x)' = 0
        /\ Working(x)' = IF x = a THEN 1 ELSE 0
    BY <1>1, <1>5 DEF Working, Matching
  <2>4. Users(x)' = Users(x) + (IF x = a THEN 1 ELSE 0) /\ Users(x) \in Nat
    BY <2>2, <2>3, UsersChange
  <2>5. el[x].busy = Users(x)
    BY DEF Good, Counts
  <2>6. QED
    BY <2>4, <2>5, <1>1, <1>4
<1>9. \A x \in Live : Pending(x) => Pending(x)'
  BY <1>1, <1>5, <1>6 DEF Pending
<1>10. Sources' /\ Filled' /\ Known'
  BY <1>1, <1>2, <1>4, <1>5, <1>9, ContentsKept DEF Preparing
<1>11. Fresh'
  BY <1>5 DEF Fresh, Preparing
<1>12. QED
  BY <1>7, <1>8, <1>10, <1>11 DEF Good

LEMMA GoodAdded ==
  ASSUME Shape, Good, NEW c \in Crc, HasCrc(c) = {}, NEW a \in Unused,
         main.pc = "idle", connected,
         cache' = Append(cache, a), el' = [el EXCEPT ![a] = Hold(NewElement(c))],
         main' = [pc |-> "match", frame |-> a, best |-> Null],
         UNCHANGED <<queue, connected, spc, cur, client, fault>>, Data'
  PROVE  Good'
<1> USE DEF Shape
<1>1. /\ a \in Addr /\ a \notin Live /\ a \notin Queued /\ a \notin Held
      /\ a # Null /\ Null \notin Live /\ Live \subseteq Addr
  BY LiveType, NullAssumption DEF Unused
<1>2. connected'
  OBVIOUS
<1>3. /\ Live' = Live \cup {a} /\ el' \in [Addr -> Element]
      /\ \A b \in Addr : b # a => el'[b] = el[b]
      /\ el'[a].busy = 1 /\ ~el'[a].sent /\ el'[a].source = Null
      /\ el'[a].source_crc = Null
  BY <1>2, AddedElement
<1>4. /\ main.frame = Null /\ main.best = Null
      /\ main'.frame = a /\ main'.best = Null /\ main'.pc = "match"
  BY DEF MainShape
<1>5. Queued' = Queued /\ Held' \subseteq Held \cup {a}
  BY <1>4 DEF Queued, Held
<1>6. Sound'
  BY <1>1, <1>3, <1>5 DEF Good, Sound
<1>7. \A b \in Live : el[b].source # a
  BY <1>1 DEF Good, Sources
<1>8. \A b \in Live : el'[b] = el[b] /\ b # a
  BY <1>1, <1>3
<1>9. Counts'
  <2>1. ASSUME NEW x \in Live' PROVE Based(Live', el', x) = Based(Live, el, x)
    <3>1. x # Null
      BY <1>1, <1>3
    <3>2. QED
      BY <3>1, <1>3, <1>8 DEF Based
  <2>2. ASSUME NEW x \in Live' PROVE x # Null
    BY <1>1, <1>3
  <2>3. ASSUME NEW x \in Live'
        PROVE  Users(x)' = Users(x) + (IF x = a THEN 1 ELSE 0) /\ Users(x) \in Nat
    <3>1. /\ Working(x) = 0 /\ Matching(x) = 0 /\ Matching(x)' = 0
          /\ Working(x)' = IF x = a THEN 1 ELSE 0
      BY <1>4, <2>2 DEF Working, Matching
    <3>2. InQueue(x)' = InQueue(x) /\ InSending(x)' = InSending(x)
          /\ AsSource(x)' = AsSource(x)
      BY <2>1 DEF InQueue, InSending, AsSource
    <3>3. QED
      BY <3>1, <3>2, UsersChange
  <2>4. Users(a) = 0
    <3>1. a \notin Elements(queue) /\ \A s \in Senders : cur[s] # a
      BY <1>1 DEF Queued, Held
    <3>2. InQueue(a) = 0
      BY <3>1, PlacesOf DEF Data, InQueue
    <3>3. InSending(a) = 0
      BY <3>1, TakersOf DEF InSending
    <3>4. AsSource(a) = 0
      BY <1>7, LiveType, BasedOf DEF AsSource
    <3>5. Working(a) = 0 /\ Matching(a) = 0
      BY <1>1, <1>4 DEF Working, Matching
    <3>6. QED
      BY <3>2, <3>3, <3>4, <3>5, UsersChange
  <2>5. ASSUME NEW x \in Live' PROVE el'[x].busy = Users(x)'
    <3>1. CASE x = a
      BY <3>1, <2>3, <2>4, <1>3
    <3>2. CASE x # a
      <4>1. x \in Live /\ el'[x] = el[x] /\ el[x].busy = Users(x)
        BY <3>2, <1>3, <1>8 DEF Good, Counts
      <4>2. Users(x)' = Users(x)
        BY <3>2, <2>3
      <4>3. QED
        BY <4>1, <4>2
    <3>3. QED
      BY <3>1, <3>2
  <2>6. QED
    BY <2>5 DEF Counts
<1>10. \A x \in Live : Pending(x) => Pending(x)'
  BY <1>1, <1>4, <1>5 DEF Pending
<1>11. Sources'
  BY <1>3, <1>8, <1>10 DEF Good, Sources
<1>12. Filled'
  BY <1>3, <1>4, <1>8 DEF Good, Filled, Preparing
<1>13. Known'
  <2>1. \A s \in Senders : cur[s] # Null => cur[s] \in Live
    BY DEF Good, Sound, Held
  <2>2. {el[b].crc : b \in Live} \subseteq {el'[b].crc : b \in Live'}
    BY <1>3, <1>8
  <2>3. QED
    BY <2>1, <2>2, <1>3, <1>8 DEF Good, Known
<1>14. Fresh'
  BY <1>1, <1>3, <1>4, <1>5 DEF Fresh, Held
<1>15. QED
  BY <1>6, <1>9, <1>11, <1>12, <1>13, <1>14 DEF Good

LEMMA GoodMainImage ==
  ASSUME Shape, Data', Good, main.pc = "idle",
         main' = [pc |-> "enqueue", frame |-> Null, best |-> Null],
         UNCHANGED <<cache, el, queue, connected, spc, cur, client, fault>>
  PROVE  Good'
<1> USE DEF Shape
<1>1. /\ main'.frame = main.frame /\ main'.best = main.best
      /\ main.frame = Null /\ main.best = Null /\ main'.pc = "enqueue"
  BY DEF MainShape
<1>2. Live' = Live /\ Queued' = Queued /\ Held' = Held
  BY <1>1 DEF Live, Elements, Queued, Held
<1>3. ASSUME NEW a PROVE Users(a)' = Users(a) /\ (Pending(a)' <=> Pending(a))
  <2>1. Pending(a)' <=> Pending(a)
    BY <1>1, <1>2 DEF Pending
  <2>2. /\ InQueue(a)' = InQueue(a) /\ InSending(a)' = InSending(a)
        /\ AsSource(a)' = AsSource(a)
    BY <1>2 DEF InQueue, InSending, AsSource
  <2>3. Working(a)' = Working(a) /\ Matching(a)' = Matching(a)
    BY <1>1 DEF Working, Matching
  <2>4. QED
    BY <2>1, <2>2, <2>3, UsersChange
<1>4. Sound' /\ Counts'
  BY <1>2, <1>3 DEF Good, Sound, Counts
<1>5. Sources' /\ Filled' /\ Known'
  BY <1>1, <1>2, <1>3, ContentsKept DEF SameButBusy, Preparing
<1>6. Fresh'
  BY <1>1 DEF Fresh, Preparing
<1>7. QED
  BY <1>4, <1>5, <1>6 DEF Good

(* A step in which only the counter of a frame in preparation moves on.    *)
LEMMA GoodMoves ==
  ASSUME Shape, Data', Good, Preparing, Preparing',
         main'.frame = main.frame, main'.best = main.best,
         main'.pc \notin {"match", "regions"},
         UNCHANGED <<cache, el, queue, connected, spc, cur, client, fault>>
  PROVE  Good'
<1> USE DEF Shape
<1>1. Live' = Live /\ Queued' = Queued /\ Held' = Held
  BY DEF Live, Elements, Queued, Held
<1>2. ASSUME NEW a PROVE Users(a)' = Users(a) /\ (Pending(a)' <=> Pending(a))
  <2>1. Pending(a)' <=> Pending(a)
    BY <1>1 DEF Pending
  <2>2. /\ InQueue(a)' = InQueue(a) /\ InSending(a)' = InSending(a)
        /\ AsSource(a)' = AsSource(a)
    BY <1>1 DEF InQueue, InSending, AsSource
  <2>3. Working(a)' = Working(a) /\ Matching(a)' = Matching(a)
    BY DEF Working, Matching
  <2>4. QED
    BY <2>1, <2>2, <2>3, UsersChange
<1>3. Sound' /\ Counts'
  BY <1>1, <1>2 DEF Good, Sound, Counts
<1>4. Sources' /\ Filled' /\ Known'
  BY <1>1, <1>2, ContentsKept DEF SameButBusy
<1>5. Fresh'
  BY <1>1 DEF Good, Fresh
<1>6. QED
  BY <1>3, <1>4, <1>5 DEF Good

LEMMA GoodMatched ==
  ASSUME Shape, Data', Good, main.pc = "match", NEW b \in Candidates(main.frame),
         main.frame \in Live, el' = [el EXCEPT ![b] = Hold(@)],
         main' = [main EXCEPT !.pc = "regions", !.best = b],
         UNCHANGED <<cache, queue, connected, spc, cur, client, fault>>
  PROVE  Good'
<1> USE DEF Shape
<1>1. b \in Live /\ b \in Addr /\ el[b].sent /\ Null \notin Live /\ b # Null
      /\ Live \subseteq Addr
  BY CandidatesOf, LiveType
<1>2. /\ main'.frame = main.frame /\ main'.best = b /\ main'.pc = "regions"
      /\ main.best = Null /\ main.frame # Null
  BY <1>1 DEF MainShape
<1>3. /\ \A a \in Addr : SameButBusy(el[a], el'[a])
      /\ \A a \in Addr : a # b => el'[a] = el[a]
      /\ el'[b].busy = el[b].busy + 1
  <2> DEFINE y == Hold(el[b])
  <2>1. y.busy = el[b].busy + 1
    BY <1>1, LiveType, ElementTypes
  <2>2. y \in {Hold(el[b]), Release(el[b])} /\ el' = [el EXCEPT ![b] = y]
    OBVIOUS
  <2> HIDE DEF y
  <2>3. QED
    BY <1>1, <2>1, <2>2, HeldElements
<1>4. Live' = Live /\ Queued' = Queued /\ Held' \subseteq Held \cup {b}
  BY <1>2 DEF Live, Elements, Queued, Held
<1>5. Sound'
  BY <1>1, <1>4 DEF Good, Sound
<1>6. el[main.frame].source = Null /\ el'[main.frame].source = Null
  BY <1>1, <1>3 DEF Good, Fresh, SameButBusy
<1>7. Counts'
  <2>1. SUFFICES ASSUME NEW x \in Live PROVE el'[x].busy = Users(x)'
    BY <1>4 DEF Counts
  <2>2. InQueue(x)' = InQueue(x) /\ InSending(x)' = InSending(x)
        /\ AsSource(x)' = AsSource(x)
    <3>1. \A a \in Live : el'[a].source = el[a].source
      BY <1>1, <1>3 DEF SameButBusy
    <3>2. Based(Live', el', x) = Based(Live, el, x)
      BY <3>1, <1>4 DEF Based
    <3>3. QED
      BY <3>2 DEF InQueue, InSending, AsSource
  <2>3. /\ Working(x)' = Working(x) /\ Matching(x) = 0
        /\ Matching(x)' = IF x = b THEN 1 ELSE 0
    <3>1. x # Null
      BY <1>1
    <3>2. QED
      BY <3>1, <1>2, <1>6 DEF Working, Matching
  <2>4. Users(x)' = Users(x) + (IF x = b THEN 1 ELSE 0) /\ Users(x) \in Nat
    BY <2>2, <2>3, UsersChange
  <2>5. el[x].busy = Users(x)
    BY DEF Good, Counts
  <2>6. QED
    BY <2>4, <2>5, <1>1, <1>3
<1>8. \A x \in Live : Pending(x) => Pending(x)'
  BY <1>2, <1>4 DEF Pending
<1>9. Sources' /\ Filled' /\ Known'
  BY <1>1, <1>2, <1>3, <1>4, <1>8, ContentsKept DEF Preparing
<1>10. Fresh'
  BY <1>1, <1>2, <1>3, <1>4, <1>6 DEF Good, Fresh, Preparing, SameButBusy
<1>11. QED
  BY <1>5, <1>7, <1>9, <1>10 DEF Good

(* The match b became the source of frame f.                               *)
Sourced(f, b) ==
  [el EXCEPT ![f].source = b, ![f].source_crc = el[b].crc]

LEMMA GoodSource ==
  ASSUME Shape, Data', Good, main.pc = "regions",
         {main.frame, main.best} \subseteq Live,
         el' = Sourced(main.frame, main.best),
         main' = [main EXCEPT !.pc = "unmatch"],
         UNCHANGED <<cache, queue, connected, spc, cur, client, fault>>
  PROVE  Good'
<1> USE DEF Shape
<1> DEFINE f == main.frame
           b == main.best
<1>1. /\ f \in Live /\ b \in Live /\ f \in Addr /\ b \in Addr
      /\ Live \subseteq Addr /\ Null \notin Live /\ f # Null /\ b # Null
  BY LiveType
<1>2. main'.frame = f /\ main'.best = b /\ main'.pc = "unmatch"
  BY DEF MainShape
<1>3. /\ el[f].source = Null /\ ~el[f].sent /\ el[b].sent /\ f # b
      /\ f \notin Queued /\ \A s \in Senders : cur[s] # f
  BY <1>1 DEF Good, Fresh, Preparing
<1>4. /\ \A a \in Live : a # f => el'[a] = el[a]
      /\ el'[f].source = b /\ el'[f].source_crc = el[b].crc
      /\ \A a \in Live : /\ el'[a].crc = el[a].crc /\ el'[a].busy = el[a].busy
                         /\ el'[a].sent <=> el[a].sent
                         /\ el'[a].regions <=> el[a].regions
  <2>1. /\ f \in Addr /\ b \in Addr
        /\ el' = [el EXCEPT ![f].source = b, ![f].source_crc = el[b].crc]
    BY <1>1 DEF Sourced
  <2> HIDE DEF f, b
  <2>2. \A a \in Addr :
          /\ a # f => el'[a] = el[a]
          /\ a = f => el'[a].source = b /\ el'[a].source_crc = el[b].crc
          /\ el'[a].crc = el[a].crc /\ el'[a].busy = el[a].busy
          /\ el'[a].sent <=> el[a].sent
          /\ el'[a].regions <=> el[a].regions
    BY <2>1, FoundElements
  <2>3. QED
    BY <2>2, <1>1
<1>5. Live' = Live /\ Queued' = Queued /\ Held' = Held
  BY <1>2 DEF Live, Elements, Queued, Held
<1> HIDE DEF f, b
<1>6. Sound'
  BY <1>5 DEF Good, Sound
<1>7. ASSUME NEW x \in Live PROVE el'[x].busy = Users(x)'
  <2>1. InQueue(x)' = InQueue(x) /\ InSending(x)' = InSending(x)
    BY DEF InQueue, InSending
  <2>2. Working(x)' = Working(x)
    BY <1>2 DEF Working, f
  <2>3. x # Null
    BY <1>1
  <2>4. CASE x = b
    <3>1. AsSource(x)' = AsSource(x) + 1
      <4>1. /\ f \in Live /\ el[f].source # x /\ el'[f].source = x
            /\ \A a \in Live : a # f => el'[a].source = el[a].source
        BY <2>3, <2>4, <1>1, <1>3, <1>4
      <4>2. IsFiniteSet(Live)
        BY LiveType
      <4>3. /\ Based(Live, el', x) = Based(Live, el, x) \cup {f}
            /\ f \notin Based(Live, el, x)
        BY <4>1 DEF Based
      <4>4. IsFiniteSet(Based(Live, el, x))
        BY <4>2, BasedOf
      <4>5. Cardinality(Based(Live, el, x) \cup {f}) =
              Cardinality(Based(Live, el, x)) + 1
        BY <4>3, <4>4, FS_AddElement
      <4>6. QED
        BY <4>3, <4>5, <1>5 DEF AsSource
    <3>2. Matching(x) = 1 /\ Matching(x)' = 0
      BY <2>3, <2>4, <1>2, <1>3, <1>4 DEF Matching, f, b
    <3>3. Users(x)' = Users(x)
      BY <2>1, <2>2, <3>1, <3>2, UsersChange
    <3>4. QED
      BY <3>3, <1>4 DEF Good, Counts
  <2>5. CASE x # b
    <3>1. AsSource(x)' = AsSource(x)
      <4>1. Based(Live', el', x) = Based(Live, el, x)
        BY <2>3, <2>5, <1>3, <1>4, <1>5 DEF Based
      <4>2. QED
        BY <4>1 DEF AsSource
    <3>2. Matching(x) = 0 /\ Matching(x)' = 0
      BY <2>5, <1>2 DEF Matching, b
    <3>3. Users(x)' = Users(x)
      BY <2>1, <2>2, <3>1, <3>2, UsersChange
    <3>4. QED
      BY <3>3, <1>4 DEF Good, Counts
  <2>6. QED
    BY <2>4, <2>5
<1>8. Counts'
  BY <1>5, <1>7 DEF Counts
<1>9. \A x : Pending(x) <=> Pending(x)'
  BY <1>2, <1>5 DEF Pending, f
<1>10. Sources'
  <2>1. SUFFICES
          ASSUME NEW a \in Live
          PROVE  /\ el'[a].source = Null <=> el'[a].source_crc = Null
                 /\ el'[a].source # Null =>
                      /\ el'[a].source \in Live /\ el'[el'[a].source].sent
                      /\ el'[el'[a].source].crc = el'[a].source_crc
                      /\ ~el'[a].sent /\ Pending(a)
    BY <1>5, <1>9 DEF Sources
  <2>2. CASE a = f
    <3>1. el[b].crc # Null
      BY <1>1, NullAssumption DEF ListShape
    <3>2. el'[b] = el[b] /\ Pending(f)
      BY <1>1, <1>3, <1>4 DEF Pending, f
    <3>3. el'[f].source = b /\ el'[f].source_crc = el[b].crc /\ ~el'[f].sent
      BY <1>1, <1>3, <1>4
    <3>4. QED
      BY <2>2, <3>1, <3>2, <3>3, <1>1, <1>3
  <2>3. CASE a # f
    <3>1. el'[a] = el[a]
      BY <2>3, <1>4
    <3>2. el[a].source \in Live =>
            /\ el'[el[a].source].sent <=> el[el[a].source].sent
            /\ el'[el[a].source].crc = el[el[a].source].crc
      BY <1>4
    <3>3. QED
      BY <3>1, <3>2 DEF Good, Sources
  <2>4. QED
    BY <2>2, <2>3
<1>11. Filled'
  BY <1>2, <1>4, <1>5 DEF Good, Filled, Preparing, f
<1>12. Known'
  <2>1. \A s \in Senders : cur[s] # Null => cur[s] \in Live
    BY DEF Good, Sound, Held
  <2>2. \A a \in Live : el'[a].crc = el[a].crc
    BY <1>4
  <2>3. {el'[a].crc : a \in Live} = {el[a].crc : a \in Live}
    BY <2>2
  <2>4. \A a \in Live : el'[a].sent <=> el[a].sent
    BY <1>4
  <2>5. \A a \in Live : el'[a].sent => el'[a].crc \in client
    BY <2>2, <2>4 DEF Good, Known
  <2>6. ASSUME NEW s \in Senders, cur[s] # Null, spc[s] \in {"written", "done"}
        PROVE  el'[cur[s]].crc \in client
    BY <2>1, <2>2, <2>6 DEF Good, Known
  <2>7. connected => client \subseteq {el'[a].crc : a \in Live}
    BY <2>3 DEF Good, Known
  <2>8. QED
    BY <2>5, <2>6, <2>7, <1>5 DEF Known
<1>13. Fresh'
  BY <1>1, <1>2, <1>3, <1>4, <1>5 DEF Fresh, Preparing
<1>14. QED
  BY <1>6, <1>8, <1>10, <1>11, <1>12, <1>13 DEF Good

LEMMA GoodReleased ==
  ASSUME Shape, Data', Good, main.pc = "unmatch",
         {main.frame, main.best} \subseteq Live,
         el' = IF el[main.frame].source # main.best
               THEN [el EXCEPT ![main.best] = Release(@)] ELSE el,
         main' = [main EXCEPT !.pc = "compress", !.best = Null],
         UNCHANGED <<cache, queue, connected, spc, cur, client, fault>>
  PROVE  Good'
<1> USE DEF Shape
<1> DEFINE f == main.frame
           b == main.best
           freed == IF el[f].source # b THEN 1 ELSE 0
<1>1. /\ f \in Live /\ b \in Live /\ f \in Addr /\ b \in Addr
      /\ Live \subseteq Addr /\ Null \notin Live /\ f # Null /\ b # Null
  BY LiveType
<1>2. main'.frame = f /\ main'.best = Null /\ main'.pc = "compress"
  BY DEF MainShape
<1>3. /\ \A a \in Addr : SameButBusy(el[a], el'[a])
      /\ \A a \in Addr : a # b => el'[a] = el[a]
      /\ el'[b].busy = el[b].busy - freed
  <2>1. \A a \in Addr : el[a] \in Element /\ el[a].busy \in Int
    BY LiveType, ElementTypes
  <2>2. CASE el[f].source # b
    <3> DEFINE y == Release(el[b])
    <3>1. y.busy = el[b].busy - 1 /\ freed = 1
      BY <1>1, <2>1, <2>2, ElementTypes
    <3>2. y \in {Hold(el[b]), Release(el[b])} /\ el' = [el EXCEPT ![b] = y]
      BY <2>2
    <3> HIDE DEF y, b, freed
    <3>3. QED
      BY <1>1, <3>1, <3>2, HeldElements
  <2>3. CASE el[f].source = b
    <3>1. el' = el
      BY <2>3
    <3>2. QED
      BY <2>1, <2>3, <3>1, <1>1 DEF SameButBusy
  <2>4. QED
    BY <2>2, <2>3
<1>4. Live' = Live /\ Queued' = Queued /\ Held' \subseteq Held
  BY <1>2 DEF Live, Elements, Queued, Held
<1>5. Sound'
  BY <1>4 DEF Good, Sound
<1>6. Counts'
  <2>1. SUFFICES ASSUME NEW x \in Live PROVE el'[x].busy = Users(x)'
    BY <1>4 DEF Counts
  <2>2. InQueue(x)' = InQueue(x) /\ InSending(x)' = InSending(x)
        /\ AsSource(x)' = AsSource(x)
    <3>1. \A a \in Live : el'[a].source = el[a].source
      BY <1>1, <1>3 DEF SameButBusy
    <3>2. Based(Live', el', x) = Based(Live, el, x)
      BY <3>1, <1>4 DEF Based
    <3>3. QED
      BY <3>2 DEF InQueue, InSending, AsSource
  <2>3. /\ Working(x)' = Working(x) /\ Matching(x)' = 0
        /\ Matching(x) = IF x = b THEN freed ELSE 0
    <3>1. x # Null
      BY <1>1
    <3>2. QED
      BY <3>1, <1>2 DEF Working, Matching
  <2>4. Users(x)' = Users(x) - (IF x = b THEN freed ELSE 0) /\ Users(x) \in Nat
    <3>1. freed \in {0, 1}
      OBVIOUS
    <3> HIDE DEF freed
    <3>2. QED
      BY <3>1, <2>2, <2>3, UsersChange
  <2>5. el[x].busy = Users(x)
    BY DEF Good, Counts
  <2>6. QED
    BY <2>4, <2>5, <1>1, <1>3
<1>7. \A x \in Live : Pending(x) => Pending(x)'
  BY <1>2, <1>4 DEF Pending
<1>8. Sources' /\ Filled' /\ Known'
  BY <1>1, <1>2, <1>3, <1>4, <1>7, ContentsKept DEF Preparing
<1>9. Fresh'
  BY <1>1, <1>2, <1>3, <1>4 DEF Good, Fresh, Preparing, SameButBusy
<1>10. QED
  BY <1>5, <1>6, <1>8, <1>9 DEF Good

LEMMA GoodCompressed ==
  ASSUME Shape, Data', Good, main.pc = "compress", main.frame \in Live,
         el' = [el EXCEPT ![main.frame].regions = TRUE],
         main' = [main EXCEPT !.pc = "enqueue"],
         UNCHANGED <<cache, queue, connected, spc, cur, client, fault>>
  PROVE  Good'
<1> USE DEF Shape
<1> DEFINE f == main.frame
<1>1. f \in Live /\ f \in Addr /\ Live \subseteq Addr /\ Null \notin Live
  BY LiveType
<1>2. /\ main'.frame = f /\ main'.best = main.best /\ main'.pc = "enqueue"
      /\ main.best = Null
  BY DEF MainShape
<1>3. /\ el'[f].regions /\ \A a \in Live : a # f => el'[a] = el[a]
      /\ \A a \in Live : /\ el'[a].crc = el[a].crc /\ el'[a].busy = el[a].busy
                         /\ el'[a].sent <=> el[a].sent
                         /\ el'[a].source = el[a].source
                         /\ el'[a].source_crc = el[a].source_crc
  BY <1>1, CompressedElements
<1>4. Live' = Live /\ Queued' = Queued /\ Held' = Held
  BY <1>2 DEF Live, Elements, Queued, Held
<1>5. Sound'
  BY <1>4 DEF Good, Sound
<1>6. Counts'
  <2>1. SUFFICES ASSUME NEW x \in Live PROVE el'[x].busy = Users(x)'
    BY <1>4 DEF Counts
  <2>2. InQueue(x)' = InQueue(x) /\ InSending(x)' = InSending(x)
        /\ AsSource(x)' = AsSource(x)
    <3>1. Based(Live', el', x) = Based(Live, el, x)
      BY <1>3, <1>4 DEF Based
    <3>2. QED
      BY <3>1 DEF InQueue, InSending, AsSource
  <2>3. Working(x)' = Working(x) /\ Matching(x)' = 0 /\ Matching(x) = 0
    BY <1>1, <1>2 DEF Working, Matching
  <2>4. Users(x)' = Users(x)
    BY <2>2, <2>3, UsersChange
  <2>5. QED
    BY <2>4, <1>3 DEF Good, Counts
<1>7. \A x : Pending(x) <=> Pending(x)'
  BY <1>2, <1>4 DEF Pending
<1>8. Sources'
  BY <1>3, <1>4, <1>7 DEF Good, Sources
<1>9. Filled'
  BY <1>2, <1>3, <1>4 DEF Good, Filled, Preparing
<1>10. Known'
  <2>1. \A s \in Senders : cur[s] # Null => cur[s] \in Live
    BY DEF Good, Sound, Held
  <2>2. {el'[a].crc : a \in Live} = {el[a].crc : a \in Live}
    BY <1>3
  <2>3. QED
    BY <2>1, <2>2, <1>3, <1>4 DEF Good, Known
<1>11. Fresh'
  BY <1>2 DEF Fresh, Preparing
<1>12. QED
  BY <1>5, <1>6, <1>8, <1>9, <1>10, <1>11 DEF Good

LEMMA GoodQueued ==
  ASSUME Shape, Data', Good, main.pc = "enqueue",
         queue' = Append(queue, main.frame), main' = MainIdle,
         UNCHANGED <<cache, el, connected, spc, cur, client, fault>>
  PROVE  Good'
<1> USE DEF Shape
<1> DEFINE f == main.frame
<1>1. /\ f \in Addr \cup {Null} /\ main.best = Null
      /\ main'.frame = Null /\ main'.best = Null /\ main'.pc = "idle"
  BY DEF MainShape, MainIdle
<1>2. Elements(queue') = Elements(queue) \cup {f}
  BY <1>1, ElementsAppend DEF Data
<1>3. /\ Live' = Live /\ Queued' = Queued \cup ({f} \ {Null})
      /\ Held' \subseteq Held /\ Null \notin Live
  BY <1>1, <1>2, LiveType DEF Live, Elements, Queued, Held
<1>4. Sound'
  BY <1>3 DEF Good, Sound, Held
<1>5. Counts'
  <2>1. SUFFICES ASSUME NEW x \in Live PROVE el'[x].busy = Users(x)'
    BY <1>3 DEF Counts
  <2>2. InSending(x)' = InSending(x) /\ AsSource(x)' = AsSource(x)
    BY <1>3 DEF InSending, AsSource
  <2>3. InQueue(x)' = InQueue(x) + (IF f = x THEN 1 ELSE 0)
    BY <1>1, PlacesAppend DEF Data, InQueue
  <2>4. /\ Working(x) = (IF f = x THEN 1 ELSE 0) /\ Working(x)' = 0
        /\ Matching(x)' = 0 /\ Matching(x) = 0
    BY <1>1, <1>3 DEF Working, Matching
  <2>5. Users(x)' = Users(x)
    BY <2>2, <2>3, <2>4, UsersChange
  <2>6. QED
    BY <2>5 DEF Good, Counts
<1>6. \A x \in Live : Pending(x) => Pending(x)'
  BY <1>3 DEF Pending
<1>7. Sources' /\ Filled' /\ Known'
  BY <1>3, <1>6, ContentsKept DEF Preparing, SameButBusy
<1>8. Fresh'
  BY <1>1 DEF Fresh, Preparing
<1>9. QED
  BY <1>4, <1>5, <1>7, <1>8 DEF Good

-----------------------------------------------------------------------------
(* The steps of a sending thread.                                          *)

LEMMA GoodPopped ==
  ASSUME Shape, Data', Good, NEW s \in Senders, spc[s] = "pop", queue # <<>>,
         queue' = Tail(queue), cur' = [cur EXCEPT ![s] = Head(queue)],
         spc' = [spc EXCEPT ![s] = "sending"],
         UNCHANGED <<cache, el, connected, main, client, fault>>
  PROVE  Good'
<1> USE DEF Shape
<1> DEFINE h == Head(queue)
<1>1. /\ cur[s] = Null /\ cur \in [Senders -> Addr \cup {Null}]
      /\ spc \in [Senders -> SenderPc]
  BY DEF SenderShape
<1>2. /\ Elements(queue) = Elements(queue') \cup {h}
      /\ h \in Addr \cup {Null}
  <2>1. queue \in Seq(Addr \cup {Null})
    BY DEF Data
  <2>2. Elements(queue) = Elements(queue') \cup {h}
    BY <2>1, ElementsTail
  <2>3. QED
    BY <2>1, <2>2, ElementsOf
<1>3. /\ cur'[s] = h /\ spc'[s] = "sending"
      /\ \A t \in Senders : t # s => cur'[t] = cur[t] /\ spc'[t] = spc[t]
  BY <1>1
<1> HIDE DEF h
<1>5. /\ Live' = Live /\ Queued = Queued' \cup ({h} \ {Null})
      /\ Held' \subseteq Held \cup ({h} \ {Null}) /\ Null \notin Live
  <2>1. Held' \subseteq Held \cup ({h} \ {Null})
    BY <1>3 DEF Held
  <2>2. QED
    BY <1>2, <2>1, LiveType DEF Live, Elements, Queued
<1>6. Sound'
  BY <1>5 DEF Good, Sound
<1>7. Counts'
  <2>1. SUFFICES ASSUME NEW x \in Live PROVE el'[x].busy = Users(x)'
    BY <1>5 DEF Counts
  <2>2. InQueue(x) = InQueue(x)' + (IF h = x THEN 1 ELSE 0)
    BY PlacesTail DEF Data, InQueue, h
  <2>3. InSending(x)' = InSending(x) + (IF h = x THEN 1 ELSE 0)
    <3>1. x # Null
      BY <1>5
    <3>2. /\ IsFiniteSet(Takers(cur, x)) /\ Cardinality(Takers(cur, x)) \in Nat
          /\ s \notin Takers(cur, x)
      <4>1. s \notin Takers(cur, x)
        BY <3>1, <1>1 DEF Takers
      <4>2. QED
        BY <4>1, TakersOf
    <3>3. CASE h = x
      <4>1. Takers(cur', x) = Takers(cur, x) \cup {s}
        BY <3>3, <1>3 DEF Takers
      <4>2. Cardinality(Takers(cur, x) \cup {s}) = Cardinality(Takers(cur, x)) + 1
        BY <3>2, FS_AddElement
      <4>3. QED
        BY <4>1, <4>2, <3>3 DEF InSending
    <3>4. CASE h # x
      <4>1. Takers(cur', x) = Takers(cur, x)
        BY <3>1, <3>4, <1>1, <1>3 DEF Takers
      <4>2. QED
        BY <4>1, <3>2, <3>4 DEF InSending
    <3>5. QED
      BY <3>3, <3>4
  <2>4. /\ AsSource(x)' = AsSource(x) /\ Working(x)' = Working(x)
        /\ Matching(x)' = Matching(x)
    BY <1>5 DEF AsSource, Working, Matching
  <2>5. Users(x)' = Users(x)
    BY <2>2, <2>3, <2>4, UsersChange
  <2>6. QED
    BY <2>5 DEF Good, Counts
<1>8. \A x \in Live : Pending(x) => Pending(x)'
  BY <1>1, <1>3, <1>5 DEF Pending
<1>9. Sources' /\ Filled' /\ Known'
  <2>1. \A t \in Senders :
          cur'[t] # Null /\ spc'[t] \in {"written", "done"} =>
            cur'[t] = cur[t] /\ spc[t] \in {"written", "done"}
    BY <1>3
  <2>2. QED
    BY <2>1, <1>5, <1>8, ContentsKept DEF Preparing, SameButBusy
<1>10. Fresh'
  <2>1. Preparing => main.frame # Null
    BY DEF MainShape, Preparing
  <2>2. Preparing =>
          main.frame \notin Queued /\ \A t \in Senders : cur[t] # main.frame
    BY DEF Good, Fresh
  <2>3. Preparing =>
          main.frame \notin Queued' /\ \A t \in Senders : cur'[t] # main.frame
    BY <2>1, <2>2, <1>3, <1>5
  <2>4. QED
    BY <2>3 DEF Good, Fresh, Preparing
<1>11. QED
  BY <1>6, <1>7, <1>9, <1>10 DEF Good

LEMMA GoodWritten ==
  ASSUME Shape, Good, NEW s \in Senders, cur[s] \in Live,
         client' = client \cup {el[cur[s]].crc},
         spc' = [spc EXCEPT ![s] = "written"],
         UNCHANGED <<cache, el, queue, connected, main, cur, fault>>
  PROVE  Good'
<1> USE DEF Shape
<1>1. Live' = Live /\ Queued' = Queued /\ Held' = Held
  BY DEF Live, Queued, Held, Elements
<1>2. ASSUME NEW a PROVE Users(a)' = Users(a) /\ (Pending(a)' <=> Pending(a))
  BY <1>1 DEF Users, Pending
<1>3. Sound' /\ Fresh'
  BY <1>1 DEF Good, Sound, Fresh, Preparing
<1>4. Counts' /\ Sources'
  BY <1>1, <1>2 DEF Good, Counts, Sources
<1>5. Filled'
  BY <1>1 DEF Good, Filled, Preparing
<1>6. Known'
  <2>1. \A t \in Senders : t # s => spc'[t] = spc[t]
    BY DEF SenderShape
  <2>2. \A a \in Live : el'[a].sent => el'[a].crc \in client'
    BY DEF Good, Known
  <2>3. \A t \in Senders :
          cur'[t] # Null /\ spc'[t] \in {"written", "done"} =>
            el'[cur'[t]].crc \in client'
    BY <2>1 DEF Good, Known
  <2>4. connected => client' \subseteq {el[a].crc : a \in Live}
    BY DEF Good, Known
  <2>5. QED
    BY <2>2, <2>3, <2>4, <1>1 DEF Known
<1>7. QED
  BY <1>3, <1>4, <1>5, <1>6 DEF Good

(* What the end of the sending loop does to a live element, and that what  *)
(* is evicted has no users left.                                           *)
LEMMA EndedElements ==
  ASSUME Shape, NEW s \in Senders, NEW b \in Live
  PROVE  LET e == Ended(s)[b]
             f == cur[s]
         IN  /\ e.crc = el[b].crc
             /\ e.sent <=> b = f \/ el[b].sent
             /\ e.source = IF b = f THEN Null ELSE el[b].source
             /\ e.source_crc = IF b = f THEN Null ELSE el[b].source_crc
             /\ e.regions <=> b # f /\ el[b].regions
             /\ e.busy = el[b].busy - (IF b = f THEN 1 ELSE 0)
                           - (IF f # Null /\ el[f].source = b THEN 1 ELSE 0)
<1> USE DEF Shape
<1>1. b \in Addr /\ b # Null /\ el[b] \in Element /\ el[b].busy \in Int
  BY LiveType, ElementTypes
<1>2. CASE cur[s] = Null
  BY <1>1, <1>2 DEF Ended
<1>3. CASE cur[s] # Null
  <2>1. cur[s] \in Addr
    BY <1>3 DEF SenderShape
  <2>2. QED
    BY <2>1, <1>1, <1>3, SentElements DEF Ended
<1>4. QED
  BY <1>2, <1>3

(* The users of an element once the frame is written, before the eviction. *)
LeftOver(s, a) ==
  InQueue(a) + Cardinality(Takers([cur EXCEPT ![s] = Null], a))
    + Cardinality(Based(Live, Ended(s), a)) + Working(a) + Matching(a)

LEMMA LeftOverIsBusy ==
  ASSUME Shape, Good, NEW s \in Senders, NEW x \in Live
  PROVE  Ended(s)[x].busy = LeftOver(s, x)
<1> USE DEF Shape
<1> DEFINE f == cur[s]
           mine == IF f = x THEN 1 ELSE 0
           based == IF f # Null /\ el[f].source = x THEN 1 ELSE 0
           p == InQueue(x)
           t == InSending(x)
           n == AsSource(x)
           w == Working(x)
           m == Matching(x)
           t1 == Cardinality(Takers([cur EXCEPT ![s] = Null], x))
           n1 == Cardinality(Based(Live, Ended(s), x))
<1>1. x # Null /\ IsFiniteSet(Live)
  BY LiveType
<1>2. /\ p \in Nat /\ t \in Nat /\ n \in Nat /\ w \in {0, 1} /\ m \in {0, 1}
      /\ Users(x) = p + t + n + w + m
  BY PartTypes, UsersSum DEF InQueue, InSending, AsSource
<1>3. t1 = t - mine
  BY <1>1, TakersLeave DEF SenderShape, InSending
<1>4. n1 = n - based
  <2>1. \A b \in Live : Ended(s)[b].source = IF b = f THEN Null ELSE el[b].source
    BY EndedElements
  <2>2. CASE based = 1
    <3>1. f \in Live /\ el[f].source = x
      BY <2>2 DEF Good, Sound, Held
    <3>2. /\ Based(Live, Ended(s), x) = Based(Live, el, x) \ {f}
          /\ f \in Based(Live, el, x)
      BY <3>1, <2>1, <1>1 DEF Based
    <3>3. IsFiniteSet(Based(Live, el, x))
      BY <1>1, BasedOf
    <3>4. Cardinality(Based(Live, el, x) \ {f}) =
            Cardinality(Based(Live, el, x)) - 1
      BY <3>2, <3>3, FS_RemoveElement
    <3>5. QED
      BY <3>2, <3>4, <2>2 DEF AsSource
  <2>3. CASE based = 0
    <3>1. Based(Live, Ended(s), x) = Based(Live, el, x)
      BY <2>1, <2>3, <1>1, LiveType DEF Based
    <3>2. n1 = n
      BY <3>1 DEF AsSource
    <3> HIDE DEF n, n1, based
    <3>3. QED
      BY <3>2, <2>3, <1>2
  <2>4. QED
    BY <2>2, <2>3
<1>5. el[x].busy = Users(x)
  BY DEF Good, Counts
<1>6. Ended(s)[x].busy = el[x].busy - mine - based
  BY EndedElements
<1>7. LeftOver(s, x) = p + t1 + n1 + w + m
  BY DEF LeftOver
<1>8. mine \in {0, 1} /\ based \in {0, 1}
  OBVIOUS
<1> HIDE DEF p, t, n, w, m, t1, n1, mine, based
<1>9. QED
  BY <1>2, <1>3, <1>4, <1>5, <1>6, <1>7, <1>8

LEMMA GoneIsUnneeded ==
  ASSUME Shape, Good, NEW s \in Senders, NEW x \in Live, Ended(s)[x].busy = 0
  PROVE  /\ x \notin Queued /\ main.frame # x /\ main.best # x
         /\ \A r \in Senders : r # s => cur[r] # x
         /\ \A b \in Live : Ended(s)[b].source # x
<1> USE DEF Shape
<1> DEFINE p == InQueue(x)
           t == Cardinality(Takers([cur EXCEPT ![s] = Null], x))
           n == Cardinality(Based(Live, Ended(s), x))
           w == Working(x)
           m == Matching(x)
<1>1. x # Null /\ IsFiniteSet(Live)
  BY LiveType
<1>2. p \in Nat /\ t \in Nat /\ n \in Nat /\ w \in {0, 1} /\ m \in {0, 1}
  BY <1>1, PartTypes, TakersOf, BasedOf DEF InQueue
<1>3. p + t + n + w + m = 0
  BY LeftOverIsBusy DEF LeftOver
<1> HIDE DEF p, t, n, w, m
<1>4. p = 0 /\ t = 0 /\ n = 0 /\ w = 0 /\ m = 0
  <2>1. w \in Nat /\ m \in Nat
    BY <1>2
  <2>2. p + t \in Nat /\ p + t + n \in Nat /\ p + t + n + w \in Nat
    BY <1>2, <2>1
  <2>3. m = 0 /\ p + t + n + w = 0
    BY <1>3, <2>1, <2>2
  <2>4. w = 0 /\ p + t + n = 0
    BY <2>1, <2>2, <2>3
  <2>5. n = 0 /\ p + t = 0
    BY <1>2, <2>2, <2>4
  <2>6. QED
    BY <1>2, <2>3, <2>4, <2>5
<1> USE DEF p, t, n, w, m
<1>5. x \notin Queued
  BY <1>4, PlacesOf DEF Data, InQueue, Queued
<1>6. main.frame # x
  BY <1>4 DEF Working
<1>7. \A r \in Senders : r # s => cur[r] # x
  <2>1. \A r \in Senders : [cur EXCEPT ![s] = Null][r] # x
    BY <1>4, TakersOf
  <2>2. QED
    BY <2>1 DEF SenderShape
<1>8. \A b \in Live : Ended(s)[b].source # x
  BY <1>1, <1>4, BasedOf
<1>9. main.best # x
  <2>1. SUFFICES ASSUME main.best = x PROVE FALSE
    OBVIOUS
  <2>2. main.frame \in Live
    BY <2>1, <1>1, NullAssumption DEF MainShape, Good, Sound, Held
  <2>3. main.frame # cur[s]
    BY <2>1, <1>1 DEF MainShape, Good, Fresh, Preparing
  <2>4. el[main.frame].source = x
    BY <2>1, <1>4 DEF Matching
  <2>5. Ended(s)[main.frame].source = x
    BY <2>2, <2>3, <2>4, EndedElements
  <2>6. QED
    BY <2>2, <2>5, <1>8
<1>10. QED
  BY <1>5, <1>6, <1>7, <1>8, <1>9

(* What is not busy is not based on another element, so no eviction takes  *)
(* a user from an element, and each one evicted was not busy before.       *)
LEMMA EvictedAreFree ==
  ASSUME Shape, Good, NEW s \in Senders
  PROVE  /\ \A i \in 1 .. EvictCount(Ended(s)) :
              /\ Ended(s)[cache[i]].busy = 0
              /\ Ended(s)[cache[i]].source = Null
         /\ \A a \in Live : UsersFreed(Ended(s), EvictCount(Ended(s)), a) = 0
         /\ FreesInTurn(Ended(s), EvictCount(Ended(s)))
<1> USE DEF Shape
<1> DEFINE els == Ended(s)
           k == EvictCount(els)
           held == {i \in 1 .. k : els[cache[i]].busy # 0}
<1>1. /\ \A i \in 1 .. k : Evictable(els, i)
      /\ k \in 0 .. Len(cache) /\ Len(cache) \in Nat
  BY EvictedCount, ElementsOf DEF Data
<1>2. \A i \in 1 .. k : cache[i] \in Live
  BY <1>1, ElementsOf DEF Data, Live
<1>4. ASSUME NEW x \in Live, els[x].busy = 0 PROVE els[x].source = Null
  <2>1. SUFFICES ASSUME els[x].source # Null PROVE FALSE
    OBVIOUS
  <2>2. els[x].source = IF x = cur[s] THEN Null ELSE el[x].source
    BY EndedElements
  <2>3. x # cur[s] /\ el[x].source # Null
    BY <2>1, <2>2
  <2>4. Pending(x)
    BY <2>3 DEF Good, Sources
  <2>5. /\ x \notin Queued /\ main.frame # x
        /\ \A r \in Senders : r # s => cur[r] # x
    BY <1>4, GoneIsUnneeded
  <2>6. QED
    BY <2>3, <2>4, <2>5 DEF Pending
<1>5. ASSUME NEW n \in Nat, NEW a \in Addr,
             \A j \in 1 .. n : els[cache[j]].source = Null
      PROVE  UsersFreed(els, n, a) = 0
  <2>1. {j \in 1 .. n : els[cache[j]].source = a} = {}
    BY <1>5, NullAssumption
  <2>2. QED
    BY <2>1, FS_EmptySet DEF UsersFreed
<1> HIDE DEF els, k
<1>6. held = {}
  <2>1. SUFFICES ASSUME held # {} PROVE FALSE
    OBVIOUS
  <2>2. held \in SUBSET Nat
    BY <1>1
  <2>3. PICK i \in held : \A j \in held : ~(j < i)
    BY <2>1, <2>2, LeastNumber
  <2>4. i \in 1 .. k /\ i - 1 \in Nat /\ cache[i] \in Live
    BY <2>3, <1>1, <1>2
  <2>5. ASSUME NEW j \in 1 .. i - 1 PROVE els[cache[j]].source = Null
    <3>1. j \in 1 .. k /\ j < i
      BY <2>4, <1>1
    <3>2. els[cache[j]].busy = 0
      BY <3>1, <2>3
    <3>3. QED
      BY <3>1, <3>2, <1>2, <1>4
  <2>6. cache[i] \in Addr
    BY <2>4, LiveType
  <2>7. UsersFreed(els, i - 1, cache[i]) = 0
    BY <2>4, <2>5, <2>6, <1>5
  <2>8. els[cache[i]].busy = 0
    BY <2>4, <2>7, <1>1 DEF Evictable
  <2>9. QED
    BY <2>3, <2>8
<1>7. \A i \in 1 .. k : els[cache[i]].busy = 0
  BY <1>6
<1>8. \A i \in 1 .. k : els[cache[i]].source = Null
  BY <1>2, <1>4, <1>7
<1>9. k \in Nat
  BY <1>1
<1>10. \A a \in Live : UsersFreed(els, k, a) = 0
  BY <1>5, <1>8, <1>9, LiveType
<1>11. FreesInTurn(els, k)
  <2>1. SUFFICES ASSUME NEW i \in 1 .. k
                 PROVE  Null \in (Live \cup {Null}) \ {cache[j] : j \in 1 .. i - 1}
    BY <1>8 DEF FreesInTurn
  <2>2. \A j \in 1 .. i - 1 : cache[j] # Null
    BY <1>2, <1>9, LiveType
  <2>3. QED
    BY <2>2
<1>12. QED
  BY <1>7, <1>8, <1>10, <1>11 DEF els, k

LEMMA GoneAreFree ==
  ASSUME Shape, Good, NEW s \in Senders, FinishFrame(s), ~fault'
  PROVE  /\ \A a \in Gone(s) : Ended(s)[a].busy = 0
         /\ \A a \in Live' : el'[a] = Ended(s)[a]
<1> USE DEF Shape
<1>1. \A a \in Gone(s) : Ended(s)[a].busy = 0
  BY EvictedAreFree DEF Gone
<1>2. /\ Ended(s) \in [Addr -> Element] /\ Live' = Live \ Gone(s)
      /\ \A a \in Live' : el'[a] = Lightened(s, a)
  BY FinishedFrame
<1>3. ASSUME NEW a \in Live' PROVE el'[a] = Ended(s)[a]
  <2>1. a \in Live /\ a \in Addr /\ Ended(s)[a] \in Element
    BY <1>2, LiveType
  <2>2. UsersFreed(Ended(s), EvictCount(Ended(s)), a) = 0
    BY <2>1, EvictedAreFree
  <2>3. el'[a] = [Ended(s)[a] EXCEPT !.busy = @ - 0]
    BY <2>2, <1>2 DEF Lightened
  <2>4. Ended(s)[a].busy - 0 = Ended(s)[a].busy
    BY <2>1 DEF Element
  <2>5. QED
    BY <2>1, <2>3, <2>4 DEF Element
<1>4. QED
  BY <1>1, <1>3

LEMMA GoodFinished ==
  ASSUME Shape, Data', Good, NEW s \in Senders, FinishFrame(s), ~fault'
  PROVE  Good'
<1> USE DEF Shape
<1> DEFINE els == Ended(s)
           gone == Gone(s)
           f == cur[s]
<1>1. /\ gone \subseteq Live /\ \A a \in gone : els[a].busy = 0
      /\ Live' = Live \ gone
      /\ \A a \in Live' : el'[a] = els[a]
      /\ client' = client \ Deleted(els, gone)
      /\ cur' = [cur EXCEPT ![s] = Null]
      /\ spc[s] = "done" /\ spc' = [spc EXCEPT ![s] = "top"]
      /\ queue' = queue /\ main' = main /\ fault' = fault
      /\ connected' = connected
  BY FinishedFrame, GoneAreFree DEF conn
<1>2. /\ \A b \in Live : els[b].crc = el[b].crc
      /\ \A b \in Live : els[b].sent <=> b = f \/ el[b].sent
      /\ \A b \in Live : els[b].source = IF b = f THEN Null ELSE el[b].source
      /\ \A b \in Live :
           els[b].source_crc = IF b = f THEN Null ELSE el[b].source_crc
      /\ \A b \in Live : els[b].regions <=> b # f /\ el[b].regions
  BY EndedElements
<1>3. ASSUME NEW x \in gone
      PROVE  /\ x \notin Queued /\ main.frame # x /\ main.best # x
             /\ \A r \in Senders : r # s => cur[r] # x
             /\ \A b \in Live : els[b].source # x
  BY <1>1, GoneIsUnneeded
<1>4. /\ cur'[s] = Null /\ spc'[s] = "top"
      /\ \A r \in Senders : r # s => cur'[r] = cur[r] /\ spc'[r] = spc[r]
  BY <1>1 DEF SenderShape
<1>5. Live' \subseteq Live /\ Null \notin Live /\ Queued' = Queued
  BY <1>1, LiveType DEF Queued
<1> HIDE DEF els, gone
<1>6. Sound'
  <2>1. Held' \subseteq Held
    BY <1>1, <1>4 DEF Held
  <2>2. Held' \cap gone = {}
    BY <1>1, <1>3, <1>4, <1>5 DEF Held
  <2>3. QED
    BY <2>1, <2>2, <1>1, <1>3, <1>5 DEF Good, Sound
<1>7. Preparing => /\ main.frame # f /\ main.frame # Null
                   /\ main.frame \in Live'
  <2>1. Preparing => main.frame # f /\ main.frame # Null
    BY DEF MainShape, Good, Fresh, Preparing
  <2>2. QED
    BY <2>1, <1>1, <1>3 DEF Good, Sound, Held
<1>8. Preparing' <=> Preparing
  BY <1>1 DEF Preparing
<1>9. Counts'
  <2>1. SUFFICES ASSUME NEW x \in Live' PROVE el'[x].busy = Users(x)'
    BY DEF Counts
  <2>2. x \in Live /\ x # Null
    BY <1>5
  <2>3. Based(Live', el', x) = Based(Live, els, x)
    <3>1. ASSUME NEW b \in gone PROVE els[b].source # x
      <4>1. SUFFICES ASSUME els[b].source = x PROVE FALSE
        OBVIOUS
      <4>2. b \in Live /\ b # f /\ el[b].source = x
        BY <4>1, <2>2, <1>1, <1>2
      <4>3. Pending(b)
        BY <4>2, <2>2 DEF Good, Sources
      <4>4. QED
        BY <4>2, <4>3, <1>3 DEF Pending
    <3>2. QED
      BY <3>1, <1>1 DEF Based
  <2>4. InQueue(x)' = InQueue(x) /\ Working(x)' = Working(x)
    BY <1>1 DEF InQueue, Working
  <2>5. Matching(x)' = Matching(x)
    <3>1. main.best = x => Preparing
      BY <2>2 DEF MainShape, Preparing
    <3>2. main.best = x => el'[main.frame].source = el[main.frame].source
      BY <3>1, <1>1, <1>2, <1>5, <1>7
    <3>3. QED
      BY <3>2, <1>1 DEF Matching
  <2>6. /\ InSending(x)' = Cardinality(Takers([cur EXCEPT ![s] = Null], x))
        /\ AsSource(x)' = Cardinality(Based(Live, els, x))
    BY <2>3, <1>1 DEF InSending, AsSource
  <2>7. Users(x)' = LeftOver(s, x)
    BY <2>4, <2>5, <2>6, UsersChange DEF LeftOver, els
  <2>8. els[x].busy = LeftOver(s, x)
    BY <2>2, LeftOverIsBusy DEF els
  <2>9. QED
    BY <2>7, <2>8, <1>1
<1>10. Sources'
  <2>1. SUFFICES
          ASSUME NEW a \in Live'
          PROVE  /\ el'[a].source = Null <=> el'[a].source_crc = Null
                 /\ el'[a].source # Null =>
                      /\ el'[a].source \in Live' /\ el'[el'[a].source].sent
                      /\ el'[el'[a].source].crc = el'[a].source_crc
                      /\ ~el'[a].sent /\ Pending(a)'
    BY DEF Sources
  <2>2. a \in Live /\ el'[a] = els[a]
    BY <1>1, <1>5
  <2>3. CASE a = f
    BY <2>2, <2>3, <1>2
  <2>4. CASE a # f
    <3> DEFINE b == el[a].source
    <3>1. /\ els[a].source = b /\ els[a].source_crc = el[a].source_crc
          /\ els[a].sent <=> el[a].sent
      BY <2>2, <2>4, <1>2
    <3>2. b = Null <=> el[a].source_crc = Null
      BY <2>2 DEF Good, Sources
    <3>3. ASSUME b # Null
          PROVE  /\ b \in Live /\ el[b].sent /\ el[b].crc = el[a].source_crc
                 /\ ~el[a].sent /\ Pending(a)
      BY <3>3, <2>2 DEF Good, Sources
    <3> HIDE DEF b
    <3>4. ASSUME b # Null
          PROVE  /\ b \in Live' /\ el'[b].sent /\ el'[b].crc = el[a].source_crc
      <4>1. b \in Live' /\ el'[b] = els[b]
        BY <3>1, <3>3, <3>4, <2>2, <1>1, <1>3
      <4>2. QED
        BY <4>1, <3>3, <3>4, <1>2
    <3>5. b # Null => Pending(a)'
      BY <3>3, <2>4, <1>1, <1>4, <1>5 DEF Pending
    <3>6. QED
      BY <3>1, <3>2, <3>3, <3>4, <3>5, <2>2
  <2>5. QED
    BY <2>3, <2>4
<1>11. Fresh'
  <2>1. \A r \in Senders : cur'[r] # main.frame \/ main.frame = Null
                           \/ cur[r] = main.frame
    BY <1>4
  <2>2. ASSUME Preparing
        PROVE  /\ main.frame \notin Queued
               /\ \A r \in Senders : cur'[r] # main.frame
               /\ ~el'[main.frame].sent
               /\ el'[main.frame].source = el[main.frame].source
    <3>1. /\ main.frame \notin Queued /\ ~el[main.frame].sent
          /\ \A r \in Senders : cur[r] # main.frame
      BY <2>2 DEF Good, Fresh
    <3>2. /\ main.frame \in Live /\ main.frame # f /\ main.frame # Null
          /\ el'[main.frame] = els[main.frame]
      BY <2>2, <1>1, <1>5, <1>7
    <3>3. QED
      BY <3>1, <3>2, <2>1, <1>2
  <2>3. main.pc \in {"match", "regions"} => el'[main.frame].source = Null
    BY <2>2 DEF Good, Fresh, Preparing
  <2>4. ASSUME main.best # Null PROVE el'[main.best].sent
    <3>1. main.best \in Live' /\ el[main.best].sent
      BY <2>4, <1>1, <1>3 DEF Good, Sound, Fresh, Held
    <3>2. QED
      BY <3>1, <1>1, <1>2, <1>5
  <2>5. QED
    BY <2>2, <2>3, <2>4, <1>1, <1>5, <1>8 DEF Fresh
<1>12. Filled'
  <2>1. SUFFICES ASSUME NEW a \in Live'
                 PROVE  el'[a].regions \/ el'[a].sent
                          \/ (Preparing /\ main.frame = a)
    BY <1>1, <1>8 DEF Filled
  <2>2. a \in Live /\ el'[a] = els[a]
    BY <1>1, <1>5
  <2>3. QED
    BY <2>2, <1>2 DEF Good, Filled
<1>13. Known'
  <2>1. ASSUME NEW a \in Live', el[a].crc \in client
        PROVE  el[a].crc \in client'
    <3>1. ASSUME NEW b \in gone PROVE els[b].crc # el[a].crc
      BY <3>1, <1>1, <1>2, <1>5 DEF ListShape
    <3>2. el[a].crc \notin Deleted(els, gone)
      BY <3>1 DEF Deleted
    <3>3. QED
      BY <3>2, <2>1, <1>1
  <2>2. ASSUME NEW a \in Live'
        PROVE  a \in Live /\ el'[a] = els[a] /\ el'[a].crc = el[a].crc
    BY <1>1, <1>2, <1>5
  <2>3. ASSUME NEW a \in Live', el'[a].sent PROVE el'[a].crc \in client'
    <3>1. a = f \/ el[a].sent
      BY <2>2, <2>3, <1>2
    <3>2. a \in Live /\ a # Null
      BY <2>2, <1>5
    <3>3. el[a].crc \in client
      BY <3>1, <3>2, <1>1 DEF Good, Known
    <3>4. QED
      BY <3>3, <2>1, <2>2
  <2>4. ASSUME NEW r \in Senders, cur'[r] # Null, spc'[r] \in {"written", "done"}
        PROVE  el'[cur'[r]].crc \in client'
    <3>1. cur'[r] = cur[r] /\ spc'[r] = spc[r] /\ r # s
      BY <2>4, <1>4
    <3>2. cur[r] \in Live'
      BY <2>4, <3>1, <1>1, <1>3 DEF Good, Sound, Held
    <3>3. el[cur[r]].crc \in client
      BY <2>4, <3>1 DEF Good, Known
    <3>4. QED
      BY <3>1, <3>2, <3>3, <2>1, <2>2
  <2>5. ASSUME connected', NEW c \in client' PROVE \E a \in Live' : c = el'[a].crc
    <3>1. PICK a \in Live : c = el[a].crc
      BY <2>5, <1>1 DEF Good, Known
    <3>2. a \notin gone
      BY <3>1, <2>5, <1>1, <1>2 DEF Deleted
    <3>3. QED
      BY <3>1, <3>2, <2>2, <1>1
  <2>6. QED
    BY <2>3, <2>4, <2>5 DEF Known
<1>14. QED
  BY <1>6, <1>9, <1>10, <1>11, <1>12, <1>13 DEF Good

(* A client comes, or a cleanup ends: nothing is left in anyone's hands.   *)
LEMMA NothingHeld ==
  ASSUME Sound, cache = <<>>
  PROVE  Queued = {} /\ Held = {}
<1>1. Live = {}
  BY DEF Live, Elements
<1>2. QED
  BY <1>1 DEF Sound

LEMMA GoodAccepted ==
  ASSUME Shape, Good, ~connected, client' = {},
         UNCHANGED <<cache, el, queue, main, cur, fault>>
  PROVE  Good'
<1>1. cache = <<>>
  BY DEF Shape, ListShape
<1>2. Queued = {} /\ Held = {} /\ ~fault
  BY <1>1, NothingHeld DEF Good, Sound
<1>3. Queued' = Queued /\ Held' = Held
  BY DEF Queued, Held, Elements
<1>4. MainShape'
  BY DEF Shape, MainShape
<1>5. QED
  BY <1>1, <1>2, <1>3, <1>4, GoodEmpty

LEMMA GoodCleaned ==
  ASSUME Shape, Good, CleanEverything, ~overlap'
  PROVE  Good'
<1> USE DEF Shape
<1>1. ~InUse(<<>>)
  BY DEF CleanEverything, CrashInCleanup
<1>2. Held = {}
  BY <1>1 DEF InUse, Good, Sound, Elements
<1>3. \A a \in Live : el[a].source # Null =>
         a \in Queued /\ el[a].source \in Live
  <2>1. main.frame = Null /\ \A s \in Senders : cur[s] = Null
    BY <1>2 DEF Held
  <2>2. \A a \in Live : Pending(a) => a \in Queued
    BY <2>1, LiveType DEF Pending
  <2>3. QED
    BY <2>2 DEF Good, Sources
<1>4. Queued \subseteq Live
  BY DEF Good, Sound
<1>5. QueueSound
  BY <1>3, <1>4 DEF QueueSound
<1>6. CacheSound(AfterClearQueue)
  <2>1. \A i \in DOMAIN cache : cache[i] \in Live /\ cache[i] \in Addr
    BY LiveType DEF Live, Elements
  <2>2. \A a \in Live : AfterClearQueue[a].source = Null
    BY <1>3, LiveType, ClearedElements
  <2>3. QED
    BY <2>1, <2>2 DEF CacheSound
<1>7. /\ queue' = <<>> /\ cache' = <<>> /\ connected' = FALSE
      /\ main' = main /\ cur' = cur /\ fault' = fault
  BY <1>5, <1>6 DEF CleanEverything, threads
<1>8. Queued' = {} /\ Held' = {}
  BY <1>2, <1>7 DEF Queued, Held, Elements
<1>9. MainShape' /\ ~fault'
  BY <1>7 DEF MainShape, Good, Sound
<1>10. QED
  BY <1>7, <1>8, <1>9, GoodEmpty

(* The second half of a cleanup by a sending thread, the client having     *)
(* dropped its caches and the queue being empty.                           *)
LEMMA GoodCleared ==
  ASSUME Shape, NewestLast, Calm, NEW s \in Senders, ClearCache(s), Orderly'
  PROVE  Good'
<1> USE DEF Shape
<1>1. ~overlap' /\ ~Cleaning'
  BY DEF Orderly
<1>2. Cleaning
  BY DEF ClearCache, SenderAt, Cleaning
<1>3. CASE CacheSound(el)
  <2>1. /\ cache' = <<>> /\ overlap' = (overlap \/ InUse(queue))
        /\ UNCHANGED <<queue, main, cur, client, fault>> /\ ~fault
    BY <1>3 DEF ClearCache, SenderAt
  <2>2. ~overlap /\ ~InUse(queue)
    BY <1>1, <2>1
  <2>3. (\A t \in Senders : cur[t] = Null) /\ client = {}
    BY <1>2, <2>2 DEF Calm
  <2>4. main.frame = Null
    <3>1. SUFFICES ASSUME main.frame # Null PROVE FALSE
      OBVIOUS
    <3>2. Len(cache) # 0 /\ main.frame = Newest
      BY <3>1, <2>2 DEF NewestLast
    <3>3. main.frame \in Live
      BY <3>2, NewestIsLive
    <3>4. QED
      BY <3>1, <3>3, <2>2 DEF InUse, Held
  <2>5. main.best = Null
    BY <2>4 DEF MainShape
  <2>6. Held' = {}
    BY <2>1, <2>3, <2>4, <2>5 DEF Held
  <2>7. Queued = {}
    <3>1. SUFFICES ASSUME NEW i \in DOMAIN queue, queue[i] # Null PROVE FALSE
      BY DEF Queued, Elements
    <3>2. /\ Len(cache) # 0
          /\ \E j \in DOMAIN queue : queue[j] = Newest
      BY <3>1, <2>2, <2>4 DEF NewestLast
    <3>3. Newest \in Elements(queue) /\ Newest \in Live /\ Newest # Null
      BY <3>2, NewestIsLive, LiveType DEF Elements
    <3>4. QED
      BY <3>3, <2>2 DEF InUse
  <2>8. Queued' = {} /\ MainShape' /\ ~fault' /\ client' = {}
    BY <2>1, <2>3, <2>7 DEF Queued, Elements, MainShape
  <2>9. QED
    BY <2>1, <2>6, <2>8, GoodEmpty
<1>4. CASE ~CacheSound(el)
  <2>1. spc' = spc
    BY <1>4 DEF ClearCache, CrashInCleanup, threads
  <2>2. QED
    BY <2>1, <1>1, <1>2 DEF Cleaning
<1>5. QED
  BY <1>3, <1>4

(* Nobody uses a freed element while no cleanup is in the way.             *)
LEMMA GoodMainStep ==
  ASSUME Shape, Data', Good, MainStep
  PROVE  Good'
<1> USE DEF Shape
<1>1. /\ main.frame # Null => main.frame \in Live
      /\ main.best # Null => main.best \in Live
  BY LiveFacts DEF Good
<1>2. /\ main.pc \in {"match", "regions", "unmatch", "compress"} =>
           main.frame # Null
      /\ main.pc \in {"regions", "unmatch"} <=> main.best # Null
  BY DEF MainShape
<1>3. ASSUME NEW c \in Crc, AddFrame(c) PROVE Good'
  <2>1. /\ main.pc = "idle" /\ connected
        /\ UNCHANGED <<queue, connected, spc, cur, client, fault>>
    BY <1>3 DEF AddFrame, MainAt, conn
  <2>2. ASSUME NEW a \in HasCrc(c), cache' = MoveToTail(a),
               el' = [el EXCEPT ![a] = Hold(@)],
               main' = [pc |-> "enqueue", frame |-> a, best |-> Null]
        PROVE  Good'
    BY <2>1, <2>2, GoodFound
  <2>3. ASSUME HasCrc(c) = {}, NEW a \in Unused, cache' = Append(cache, a),
               el' = [el EXCEPT ![a] = Hold(NewElement(c))],
               main' = [pc |-> "match", frame |-> a, best |-> Null]
        PROVE  Good'
    BY <2>1, <2>3, GoodAdded
  <2>4. QED
    BY <2>2, <2>3, <1>3 DEF AddFrame
<1>4. CASE AddMainImage
  BY <1>4, GoodMainImage DEF AddMainImage, MainAt, conn
<1>5. CASE MatchFrame
  <2>1. ASSUME NEW b \in Candidates(main.frame),
               el' = [el EXCEPT ![b] = Hold(@)],
               main' = [main EXCEPT !.pc = "regions", !.best = b],
               UNCHANGED <<cache, queue, conn, spc, cur, client, fault>>
        PROVE  Good'
    BY <2>1, <1>1, <1>2, <1>5, GoodMatched DEF MatchFrame, MainAt, conn
  <2>2. ASSUME main' = [main EXCEPT !.pc = "compress"],
               UNCHANGED <<cache, el, queue, conn, spc, cur, client, fault>>
        PROVE  Good'
    <3>1. /\ main.pc = "match" /\ main'.pc = "compress"
          /\ main'.frame = main.frame /\ main'.best = main.best
      BY <2>2, <1>5 DEF MatchFrame, MainAt, MainShape
    <3>2. QED
      BY <2>2, <3>1, GoodMoves DEF Preparing, conn
  <2>3. QED
    BY <2>1, <2>2, <1>1, <1>2, <1>5 DEF MatchFrame, MainAt
<1>6. CASE FindRegions
  <2>1. /\ main.pc = "regions" /\ {main.frame, main.best} \subseteq Live
        /\ main' = [main EXCEPT !.pc = "unmatch"]
        /\ UNCHANGED <<cache, queue, connected, spc, cur, client, fault>>
        /\ el' = Sourced(main.frame, main.best) \/ el' = el
    BY <1>1, <1>2, <1>6 DEF FindRegions, MainAt, conn, Sourced
  <2>2. CASE el' = Sourced(main.frame, main.best)
    BY <2>1, <2>2, GoodSource
  <2>3. CASE el' = el
    <3>1. /\ main'.pc = "unmatch" /\ main'.frame = main.frame
          /\ main'.best = main.best
      BY <2>1 DEF MainShape
    <3>2. QED
      BY <2>1, <2>3, <3>1, GoodMoves DEF Preparing
  <2>4. QED
    BY <2>1, <2>2, <2>3
<1>7. CASE ReleaseMatch
  <2>1. /\ main.pc = "unmatch" /\ {main.frame, main.best} \subseteq Live
        /\ main' = [main EXCEPT !.pc = "compress", !.best = Null]
        /\ UNCHANGED <<cache, queue, connected, spc, cur, client, fault>>
        /\ el' = IF el[main.frame].source # main.best
                 THEN [el EXCEPT ![main.best] = Release(@)] ELSE el
    BY <1>1, <1>2, <1>7 DEF ReleaseMatch, MainAt, conn
  <2>2. QED
    BY <2>1, GoodReleased
<1>8. CASE CompressRegions
  <2>1. /\ main.pc = "compress" /\ main.frame \in Live
        /\ main' = [main EXCEPT !.pc = "enqueue"]
        /\ UNCHANGED <<cache, queue, connected, spc, cur, client, fault>>
        /\ el' = [el EXCEPT ![main.frame].regions = TRUE]
    BY <1>1, <1>2, <1>8 DEF CompressRegions, MainAt, conn
  <2>2. QED
    BY <2>1, GoodCompressed
<1>9. CASE Enqueue
  BY <1>9, GoodQueued DEF Enqueue, MainAt, conn
<1>10. QED
  BY <1>3, <1>4, <1>5, <1>6, <1>7, <1>8, <1>9 DEF MainStep

-----------------------------------------------------------------------------
(* The invariant.                                                          *)

(* With every count right, no sending thread touches a freed element.      *)
LEMMA GoodSenderStep ==
  ASSUME Shape, Data', Good, ~Cleaning, NEW s \in Senders, SenderStep(s), Orderly'
  PROVE  Good'
<1> USE DEF Shape
<1>1. /\ ~overlap' /\ ~Cleaning'
      /\ \A r \in Senders : spc[r] \notin {"clear queue", "clear cache"}
      /\ spc \in [Senders -> SenderPc]
      /\ cur[s] # Null => spc[s] \in {"sending", "written", "done"}
  BY DEF Orderly, Cleaning, SenderShape
<1>2. /\ cur[s] # Null => cur[s] \in Live
      /\ Null \notin Live
  BY LiveFacts DEF Good
<1>3. ASSUME UNCHANGED <<cache, el, queue, connected, main, cur, client, fault>>,
             NEW pc, spc' = [spc EXCEPT ![s] = pc],
             cur[s] # Null /\ pc \in {"written", "done"} => spc[s] \in {"written", "done"}
      PROVE  Good'
  <2>1. \A r \in Senders :
          cur[r] # Null /\ spc'[r] \in {"written", "done"} =>
            spc[r] \in {"written", "done"}
    BY <1>1, <1>3
  <2>2. QED
    BY <2>1, <1>3, GoodSame
<1>4. CASE Lock(s)
  <2>1. spc[s] \in {"top", "wait", "frames", "written"}
    BY <1>4 DEF Lock, LockTarget
  <2>2. cur[s] # Null => spc[s] = "written"
    BY <2>1, <1>1
  <2>3. spc' = [spc EXCEPT ![s] = LockTarget[spc[s]]]
    BY <1>4 DEF Lock, Goto
  <2>4. UNCHANGED <<cache, el, queue, connected, main, cur, client, fault>>
    BY <1>4 DEF Lock, conn
  <2>5. QED
    BY <2>2, <2>3, <2>4, <1>3
<1>5. CASE CheckConnected(s)
  BY <1>3, <1>5 DEF CheckConnected, Goto, conn
<1>6. CASE TakeRebuild(s)
  BY <1>3, <1>6 DEF TakeRebuild, Goto
<1>7. CASE SendReinit(s)
  <2>1. spc'[s] = "clear queue"
    BY <1>1, <1>7 DEF SendReinit, Goto
  <2>2. QED
    BY <2>1, <1>1 DEF Cleaning
<1>8. CASE ClearQueue(s) \/ ClearCache(s)
  BY <1>1, <1>8 DEF ClearQueue, ClearCache, SenderAt
<1>9. CASE PopFrame(s)
  <2>1. CASE queue = <<>>
    BY <2>1, <1>3, <1>9 DEF PopFrame, Goto, conn, Crash
  <2>2. CASE queue # <<>>
    <3>1. Head(queue) \in Live \cup {Null}
      <4>1. Head(queue) \in Elements(queue)
        BY <2>2, ElementsTail DEF Data
      <4>2. QED
        BY <4>1 DEF Good, Sound, Queued
    <3>2. /\ spc[s] = "pop" /\ queue' = Tail(queue)
          /\ cur' = [cur EXCEPT ![s] = Head(queue)]
          /\ spc' = [spc EXCEPT ![s] = "sending"]
          /\ UNCHANGED <<cache, el, connected, main, client, fault>>
      BY <2>2, <3>1, <1>9 DEF PopFrame, SenderAt, Goto, conn
    <3>3. QED
      BY <2>2, <3>2, GoodPopped
  <2>3. QED
    BY <2>1, <2>2
<1>10. CASE SendFrame(s)
  <2>1. /\ cur[s] \in Live /\ client' = client \cup {el[cur[s]].crc}
        /\ spc' = [spc EXCEPT ![s] = "written"]
        /\ UNCHANGED <<cache, el, queue, connected, main, cur, fault>>
    BY <1>2, <1>10 DEF SendFrame, Goto, conn
  <2>2. QED
    BY <2>1, GoodWritten
<1>11. CASE SendMainImage(s)
  BY <1>3, <1>11 DEF SendMainImage, Goto, conn
<1>12. CASE FinishFrame(s)
  <2>1. ~fault
    BY DEF Good, Sound
  <2>2. cur[s] = Null \/ {cur[s], el[cur[s]].source} \subseteq Live \cup {Null}
    BY <1>2 DEF Good, Sources
  <2>3. FreesInTurn(Ended(s), EvictCount(Ended(s)))
    BY EvictedAreFree
  <2>4. ~fault'
    BY <2>1, <2>2, <2>3, <1>12 DEF FinishFrame, Ended
  <2>5. QED
    BY <2>4, <1>12, GoodFinished
<1>13. QED
  BY <1>4, <1>5, <1>6, <1>7, <1>8, <1>9, <1>10, <1>11, <1>12 DEF SenderStep

LEMMA GoodStep ==
  ASSUME Invariant, Shape', Next, Orderly'
  PROVE  Good'
<1> USE DEF Shape
<1>1. Shape /\ NewestLast /\ Calm /\ (Orderly => Good) /\ Data'
  BY DEF Invariant
<1>2. ~overlap /\ ~overlap' /\ ~Cleaning'
  BY OverlapStays DEF Orderly
<1>3. CASE Cleaning
  <2>1. PICK s \in Senders : ClearCache(s) /\ spc' # spc
    BY <1>1, <1>2, <1>3, CleaningStays
  <2>2. QED
    BY <2>1, <1>1, GoodCleared
<1>4. CASE ~Cleaning
  <2>1. Good
    BY <1>1, <1>2, <1>4 DEF Orderly
  <2>2. CASE MainStep
    BY <2>1, <2>2, <1>1, GoodMainStep
  <2>3. CASE ClientGone \/ Hangup
    BY <2>1, <2>3, <1>1, <1>2, GoodCleaned DEF ClientGone, Hangup
  <2>4. CASE ClientGeometry \/ RebuildCaches
    <3>1. UNCHANGED <<cache, el, queue, connected, main, spc, cur, client, fault>>
      BY <2>4 DEF ClientGeometry, RebuildCaches, threads
    <3>2. QED
      BY <2>1, <3>1, GoodSame
  <2>5. ASSUME NEW s \in Senders, Accept(s) PROVE Good'
    <3>1. ~connected /\ client' = {} /\ UNCHANGED <<cache, el, queue, main, cur, fault>>
      BY <2>5 DEF Accept
    <3>2. QED
      BY <2>1, <3>1, <1>1, GoodAccepted
  <2>6. ASSUME NEW s \in Senders, SenderStep(s) PROVE Good'
    BY <2>1, <2>6, <1>1, <1>4, GoodSenderStep
  <2>7. QED
    BY <2>2, <2>3, <2>4, <2>5, <2>6 DEF Next, MainEvent
<1>5. QED
  BY <1>3, <1>4

LEMMA InitInvariant == Init => Invariant
<1> SUFFICES ASSUME Init PROVE Invariant
  OBVIOUS
<1>1. Shape
  BY InitShape
<1>2. NewestLast /\ Calm
  BY DEF Init, NewestLast, Calm, MainIdle, Cleaning
<1>3. cache = <<>> /\ queue = <<>> /\ client = {} /\ ~fault /\ connected = FALSE
      /\ main.frame = Null /\ main.best = Null /\ main.pc = "idle"
      /\ \A s \in Senders : cur[s] = Null
  BY DEF Init, MainIdle
<1>4. Live = {} /\ Queued = {} /\ Held = {}
  BY <1>3 DEF Live, Queued, Held, Elements
<1>5. Good
  BY <1>3, <1>4 DEF Good, Sound, Counts, Sources, Fresh, Filled, Known, Preparing
<1>6. QED
  BY <1>1, <1>2, <1>5 DEF Invariant

LEMMA InvariantStep == Invariant /\ [Next]_vars => Invariant'
<1> SUFFICES ASSUME Invariant, [Next]_vars PROVE Invariant'
  OBVIOUS
<1>1. Shape /\ NewestLast /\ Calm /\ (Orderly => Good)
  BY DEF Invariant
<1>2. Shape'
  BY <1>1, ShapeStep
<1>3. CASE Next
  BY <1>1, <1>2, <1>3, NewestStep, CalmStep, GoodStep DEF Invariant
<1>4. CASE UNCHANGED vars
  <2>1. NewestLast' /\ Calm'
    BY <1>1, <1>4 DEF vars, NewestLast, Newest, Calm, Cleaning
  <2>2. Orderly' => Good'
    <3>1. UNCHANGED <<cache, el, queue, connected, main, spc, cur, client, fault>>
      BY <1>4 DEF vars
    <3>2. Orderly' => Orderly
      BY <1>4 DEF vars, Orderly, Cleaning
    <3>3. QED
      BY <3>1, <3>2, <1>1, GoodSame
  <2>3. QED
    BY <2>1, <2>2, <1>2 DEF Invariant
<1>5. QED
  BY <1>3, <1>4

THEOREM InvariantHolds == Spec => []Invariant
BY InitInvariant, InvariantStep, PTL DEF Spec

-----------------------------------------------------------------------------
(* What the invariant says of the program.                                 *)

(* Every variable keeps its type, and a sending thread is in one of its    *)
(* critical sections exactly when it holds sendqueue_mutex, whatever       *)
(* cleanups run meanwhile.                                                 *)
THEOREM TypeCorrect == Spec => []TypeOK
<1>1. Invariant => TypeOK
  BY ShapeType DEF Invariant
<1>2. QED
  BY <1>1, InvariantHolds, PTL

(* busy is the number of users of an element at every moment between two   *)
(* cleanups, so no element in use is ever evicted and none is kept for     *)
(* ever, for any number of elements, contents and sending threads.         *)
THEOREM BusyCorrect == Spec => []BusyCountsUsers
<1>1. Invariant => BusyCountsUsers
  <2>1. SUFFICES ASSUME Shape, Good, NEW a \in Live
                 PROVE  /\ el[a].busy = Users(a)
                        /\ el[a].busy = 0 => el[a].source = Null
    BY DEF Invariant, BusyCountsUsers
  <2>2. el[a].busy = Users(a)
    BY <2>1 DEF Good, Counts
  <2>3. Users(a) = 0 => ~Pending(a)
    BY <2>1, Unneeded DEF Good
  <2>4. QED
    BY <2>1, <2>2, <2>3 DEF Good, Sources
<1>2. QED
  BY <1>1, InvariantHolds, PTL

(* No thread and no queue entry points to a freed element unless a cleanup *)
(* frees it: the eviction at the end of the sending loop never does.       *)
THEOREM PointersCorrect == Spec => []PointersAreLive
<1>1. Invariant => PointersAreLive
  BY DEF Invariant, PointersAreLive, Good, Sound
<1>2. QED
  BY <1>1, InvariantHolds, PTL

(* The client can draw every frame it is sent: the contents the frame is   *)
(* taken from are in its cache when the frame arrives.                     *)
THEOREM DrawingCorrect == Spec => []ClientCanDraw
<1>1. Invariant => ClientCanDraw
  <2>1. SUFFICES ASSUME Shape, Good, NEW s \in Senders, spc[s] = "sending",
                        cur[s] # Null
                 PROVE  /\ ~el[cur[s]].regions => el[cur[s]].crc \in client
                        /\ el[cur[s]].source_crc # Null =>
                             el[cur[s]].source_crc \in client
    BY DEF Invariant, ClientCanDraw
  <2>2. cur[s] \in Live
    BY <2>1, LiveFacts DEF Good
  <2>3. ~(Preparing /\ main.frame = cur[s])
    BY <2>1 DEF Good, Fresh
  <2>4. ~el[cur[s]].regions => el[cur[s]].crc \in client
    BY <2>2, <2>3, <2>1 DEF Good, Filled, Known
  <2>5. el[cur[s]].source_crc # Null => el[cur[s]].source_crc \in client
    BY <2>2, <2>1 DEF Good, Sources, Known
  <2>6. QED
    BY <2>4, <2>5
<1>2. QED
  BY <1>1, InvariantHolds, PTL

(* The cache of the server and the cache of the client agree, and no       *)
(* content is cached twice.                                                *)
THEOREM CachesCorrect == Spec => []CachesAgree
<1>1. Invariant => CachesAgree
  <2>1. SUFFICES ASSUME Invariant PROVE CachesAgree
    OBVIOUS
  <2>2. ASSUME Orderly, connected
        PROVE  /\ {el[a].crc : a \in {b \in Live : el[b].sent}} \subseteq client
               /\ client \subseteq {el[a].crc : a \in Live}
    BY <2>1, <2>2 DEF Invariant, Good, Known
  <2>3. ASSUME NEW i \in DOMAIN cache, NEW j \in DOMAIN cache,
               el[cache[i]].crc = el[cache[j]].crc
        PROVE  i = j
    <3>1. cache[i] \in Live /\ cache[j] \in Live
      BY DEF Live, Elements
    <3>2. QED
      BY <3>1, <2>1, <2>3 DEF Invariant, Shape, ListShape, OneEach
  <2>4. QED
    BY <2>2, <2>3 DEF CachesAgree
<1>2. QED
  BY <1>1, InvariantHolds, PTL
=============================================================================
