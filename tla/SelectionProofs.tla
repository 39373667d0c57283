-------------------------- MODULE SelectionProofs ---------------------------
(***************************************************************************)
(* For any selections, kinds, sizes, applications and timings: a request   *)
(* of an application that pastes gets one answer, and the selection thread *)
(* is told of every selection the server lost.  Both follow from where a   *)
(* request, or the loss, is: in the queue of X events, in the hands of the *)
(* thread or, for a request, in the list of delayed requests.              *)
(*                                                                         *)
(* Then the types of everything the selection thread, the main thread, the *)
(* X server and the client exchange.  The messages of the client form a    *)
(* stream in which every transfer is followed to its end; what the buffers *)
(* hold is told from the place of the next message in it.                  *)
(***************************************************************************)
EXTENDS Selection, FiniteSetTheorems, SequenceTheorems, TLAPS

-----------------------------------------------------------------------------
(* Sequences.  What an event or a transaction holds does not matter here,  *)
(* so that no set of them is given.                                        *)

Sequence(q) == \E S : q \in Seq(S)

LEMMA SeqOfMore ==
  ASSUME NEW S, NEW T, NEW q \in Seq(S)
  PROVE  q \in Seq(S \cup T)
<1>1. Len(q) \in Nat /\ q \in [1 .. Len(q) -> S]
  BY LenProperties
<1>2. q \in [1 .. Len(q) -> S \cup T]
  BY <1>1
<1>3. QED
  BY <1>1, <1>2, SeqDef

LEMMA SequenceParts ==
  ASSUME NEW q, Sequence(q)
  PROVE  /\ Len(q) \in Nat /\ DOMAIN q = 1 .. Len(q)
         /\ q # <<>> => Len(q) # 0
<1>1. PICK S : q \in Seq(S)
  BY DEF Sequence
<1>2. QED
  BY <1>1, LenProperties, EmptySeq

LEMMA AppendAny ==
  ASSUME NEW q, Sequence(q), NEW e
  PROVE  /\ Sequence(Append(q, e)) /\ Len(Append(q, e)) = Len(q) + 1
         /\ \A i \in 1 .. Len(q) : Append(q, e)[i] = q[i]
         /\ Append(q, e)[Len(q) + 1] = e
<1>1. PICK S : q \in Seq(S)
  BY DEF Sequence
<1>2. q \in Seq(S \cup {e}) /\ e \in S \cup {e}
  BY <1>1, SeqOfMore
<1>3. QED
  BY <1>2, AppendProperties DEF Sequence

LEMMA ConcatAny ==
  ASSUME NEW q, Sequence(q), NEW x, Sequence(x)
  PROVE  /\ Sequence(q \o x) /\ Len(q \o x) = Len(q) + Len(x)
         /\ \A i \in 1 .. Len(q) + Len(x) :
              (q \o x)[i] = IF i <= Len(q) THEN q[i] ELSE x[i - Len(q)]
<1>1. PICK S : q \in Seq(S)
  BY DEF Sequence
<1>2. PICK T : x \in Seq(T)
  BY DEF Sequence
<1>3. q \in Seq(S \cup T) /\ x \in Seq(T \cup S) /\ T \cup S = S \cup T
  BY <1>1, <1>2, SeqOfMore
<1>4. QED
  BY <1>3, ConcatProperties DEF Sequence

LEMMA TailAny ==
  ASSUME NEW q, Sequence(q), q # <<>>
  PROVE  /\ Sequence(Tail(q)) /\ Len(Tail(q)) = Len(q) - 1 /\ Head(q) = q[1]
         /\ \A i \in 1 .. Len(Tail(q)) : Tail(q)[i] = q[i + 1]
<1>1. PICK S : q \in Seq(S)
  BY DEF Sequence
<1>2. Head(q) = q[1]
  BY <1>1
<1>3. QED
  BY <1>1, <1>2, HeadTailProperties DEF Sequence

(* The sequence without its element p.                                     *)
Without(q, p) == SubSeq(q, 1, p - 1) \o SubSeq(q, p + 1, Len(q))

LEMMA WithoutOne ==
  ASSUME NEW S, NEW q \in Seq(S), NEW p \in 1 .. Len(q)
  PROVE  /\ Without(q, p) \in Seq(S) /\ Len(Without(q, p)) = Len(q) - 1
         /\ \A i \in 1 .. Len(q) - 1 :
              Without(q, p)[i] = IF i < p THEN q[i] ELSE q[i + 1]
<1> DEFINE n == Len(q)
           x == SubSeq(q, 1, p - 1)
           y == SubSeq(q, p + 1, n)
<1>1. n \in Nat /\ p \in 1 .. n /\ \A i \in 1 .. n : q[i] \in S
  BY LenProperties, ElementOfSeq
<1> HIDE DEF n
<1>2. p - 1 \in Nat /\ p + 1 \in Nat /\ n - p \in Nat /\ p \in Nat
  BY <1>1
<1>3. /\ x \in Seq(S) /\ Len(x) = p - 1
      /\ \A i \in 1 .. p - 1 : x[i] = q[i]
  <2>1. \A i \in 1 .. p - 1 : q[i] \in S
    BY <1>1, <1>2
  <2>2. /\ x \in Seq(S) /\ Len(x) = IF 1 <= p - 1 THEN p - 1 - 1 + 1 ELSE 0
        /\ \A i \in 1 .. p - 1 - 1 + 1 : x[i] = q[1 + i - 1]
    BY <1>2, <2>1, SubSeqProperties
  <2>3. QED
    BY <1>2, <2>2
<1>4. /\ y \in Seq(S) /\ Len(y) = n - p
      /\ \A i \in 1 .. n - p : y[i] = q[p + i]
  <2>1. \A i \in p + 1 .. n : q[i] \in S
    BY <1>1, <1>2
  <2>2. /\ y \in Seq(S) /\ Len(y) = IF p + 1 <= n THEN n - (p + 1) + 1 ELSE 0
        /\ \A i \in 1 .. n - (p + 1) + 1 : y[i] = q[(p + 1) + i - 1]
    BY <1>1, <1>2, <2>1, SubSeqProperties
  <2>3. n - (p + 1) + 1 = n - p
    BY <1>1, <1>2
  <2>4. QED
    BY <1>1, <1>2, <2>2, <2>3
<1>5. Without(q, p) = x \o y
  BY DEF Without, n
<1> HIDE DEF x, y
<1>6. /\ Without(q, p) \in Seq(S) /\ Len(Without(q, p)) = n - 1
      /\ \A i \in 1 .. n - 1 :
           Without(q, p)[i] = IF i <= p - 1 THEN x[i] ELSE y[i - (p - 1)]
  <2>1. (p - 1) + (n - p) = n - 1
    BY <1>1, <1>2
  <2>2. QED
    BY <1>3, <1>4, <1>5, <2>1, ConcatProperties
<1>7. ASSUME NEW i \in 1 .. n - 1
      PROVE  Without(q, p)[i] = IF i < p THEN q[i] ELSE q[i + 1]
  <2>1. CASE i < p
    BY <1>1, <1>2, <1>3, <1>6, <2>1
  <2>2. CASE ~(i < p)
    <3>1. i - (p - 1) \in 1 .. n - p /\ ~(i <= p - 1) /\ p + (i - (p - 1)) = i + 1
      BY <1>1, <1>2, <2>2
    <3>2. QED
      BY <1>4, <1>6, <2>2, <3>1
  <2>3. QED
    BY <2>1, <2>2
<1>8. QED
  BY <1>6, <1>7 DEF n

-----------------------------------------------------------------------------
(* The shape of the state.                                                 *)

Answerable(e) == e.type = "request" => e.arg \in Requests

Shape ==
  /\ DOMAIN answer = Requests
  /\ \A r \in Requests : "how" \in DOMAIN answer[r]
  /\ DOMAIN inSel = Selections /\ DOMAIN xowner = Selections
  /\ \A s \in Selections : "owner" \in DOMAIN inSel[s]
  /\ Sequence(xq) /\ Sequence(incr) /\ delayed \in Seq(Requests)
  /\ \A i \in 1 .. Len(xq) : Answerable(xq[i])
  /\ Answerable(ev)
  /\ pos \in Nat \ {0}

(* Events were added to the queue, and none of them is a request.          *)
Grown ==
  /\ Sequence(xq') /\ Len(xq') \in Nat /\ Len(xq) <= Len(xq')
  /\ \A i \in 1 .. Len(xq) : xq'[i] = xq[i]
  /\ \A i \in 1 .. Len(xq') : i \notin 1 .. Len(xq) => xq'[i].type # "request"

LEMMA GrownNot == ASSUME Shape, UNCHANGED xq PROVE Grown
BY SequenceParts DEF Shape, Grown

LEMMA GrownByOne ==
  ASSUME Shape, NEW e, e.type # "request", xq' = Append(xq, e)
  PROVE  Grown
<1>1. Len(xq) \in Nat /\ Sequence(xq)
  BY SequenceParts DEF Shape
<1>2. /\ Sequence(xq') /\ Len(xq') = Len(xq) + 1
      /\ \A i \in 1 .. Len(xq) : xq'[i] = xq[i]
      /\ xq'[Len(xq) + 1] = e
  BY <1>1, AppendAny
<1>3. \A i \in 1 .. Len(xq') : i \notin 1 .. Len(xq) => i = Len(xq) + 1
  BY <1>1, <1>2
<1>4. QED
  BY <1>1, <1>2, <1>3 DEF Grown

LEMMA GrownByMore ==
  ASSUME Shape, NEW x, Sequence(x), xq' = xq \o x,
         \A i \in 1 .. Len(x) : x[i].type # "request"
  PROVE  Grown
<1>1. Len(xq) \in Nat /\ Len(x) \in Nat /\ Sequence(xq)
  BY SequenceParts DEF Shape
<1>2. /\ Sequence(xq') /\ Len(xq') = Len(xq) + Len(x)
      /\ \A i \in 1 .. Len(xq) + Len(x) :
           xq'[i] = IF i <= Len(xq) THEN xq[i] ELSE x[i - Len(xq)]
  BY <1>1, ConcatAny
<1>3. ASSUME NEW i \in 1 .. Len(xq'), i \notin 1 .. Len(xq)
      PROVE  xq'[i].type # "request"
  <2>1. i - Len(xq) \in 1 .. Len(x) /\ ~(i <= Len(xq))
    BY <1>1, <1>2, <1>3
  <2>2. QED
    BY <1>2, <2>1
<1>4. \A i \in 1 .. Len(xq) : xq'[i] = xq[i]
  BY <1>1, <1>2
<1>5. QED
  BY <1>1, <1>2, <1>3, <1>4 DEF Grown

-----------------------------------------------------------------------------
(* Which steps leave the requests where they are.                          *)

(* The answers are as far as they were.                                    *)
SameAnswers ==
  /\ DOMAIN answer' = Requests
  /\ \A r \in Requests :
       "how" \in DOMAIN answer'[r] /\ answer'[r].how = answer[r].how

(* Of the buffers and the owners everything may change but their domains.  *)
SameSelections ==
  /\ DOMAIN inSel' = Selections /\ DOMAIN xowner' = Selections
  /\ \A s \in Selections : "owner" \in DOMAIN inSel'[s]

(* The thread may go on unless it has a request in hand.                   *)
Elsewhere ==
  /\ Grown /\ SameAnswers /\ SameSelections
  /\ UNCHANGED <<delayed, incr, ev>>
  /\ ev.type = "request" => (spc' = "wait" <=> spc = "wait")
  /\ pos' \in Nat \ {0}

LEMMA SameParts ==
  ASSUME Shape
  PROVE  /\ UNCHANGED answer => SameAnswers
         /\ UNCHANGED <<inSel, xowner>> => SameSelections
BY DEF Shape, SameAnswers, SameSelections

LEMMA ConvertsGrows ==
  ASSUME Shape, NEW s, NEW a, NEW p, NEW rd, Converts(s, a, p, rd)
  PROVE  Grown
<1>1. CASE xowner[s] = "app"
  BY <1>1, GrownNot DEF Converts
<1>2. CASE xowner[s] # "app"
  <2>1. xq' = Append(xq, Event("reply", s, None))
    BY <1>2 DEF Converts
  <2>2. Event("reply", s, None).type # "request"
    BY DEF Event
  <2>3. QED
    BY <2>1, <2>2, GrownByOne
<1>3. QED
  BY <1>1, <1>2

LEMMA ReadPropertyGrows ==
  ASSUME Shape, NEW s, NEW a, NEW rd, ReadProperty(s, a, rd)
  PROVE  Grown
<1> DEFINE gone == [prop EXCEPT ![a] = None]
<1>1. UNCHANGED xq \/ Converts(s, prop[a].kind, gone, rd)
  BY DEF ReadProperty
<1>2. QED
  BY <1>1, GrownNot, ConvertsGrows

LEMMA AppStep ==
  ASSUME Shape, NEW s, AppConverts(s) \/ AppPortion(s)
  PROVE  Grown
<1>1. CASE AppPortion(s)
  <2>1. PICK e : xq' = Append(xq, e) /\ e.type # "request"
    <3>1. xq' = Append(xq, Event("newvalue", None, apps[s].sending.kind))
      BY <1>1 DEF AppPortion
    <3>2. Event("newvalue", None, apps[s].sending.kind).type # "request"
      BY DEF Event
    <3>3. QED
      BY <3>1, <3>2
  <2>2. QED
    BY <2>1, GrownByOne
<1>2. CASE AppConverts(s)
  <2> DEFINE a == Head(apps[s].conv).target
             two == <<Event("newvalue", None, a), Event("reply", s, a)>>
  <2>1. xq' = xq \o two \/ xq' = Append(xq, Event("reply", s, None))
    BY <1>2 DEF AppConverts
  <2>2. CASE xq' = xq \o two
    <3>1. Len(two) = 2 /\ two[1].type # "request" /\ two[2].type # "request"
      BY DEF Event
    <3>2. Sequence(two)
      <4>1. two \in Seq({Event("newvalue", None, a), Event("reply", s, a)})
        OBVIOUS
      <4>2. QED
        BY <4>1 DEF Sequence
    <3> HIDE DEF two
    <3>3. \A i \in 1 .. Len(two) : two[i].type # "request"
      BY <3>1
    <3>4. QED
      BY <2>2, <3>2, <3>3, GrownByMore
  <2>3. CASE xq' = Append(xq, Event("reply", s, None))
    <3>1. Event("reply", s, None).type # "request"
      BY DEF Event
    <3>2. QED
      BY <2>3, <3>1, GrownByOne
  <2>4. QED
    BY <2>1, <2>2, <2>3
<1>3. QED
  BY <1>1, <1>2

(* Buffers are changed field by field.                                     *)
LEMMA BufferFields ==
  ASSUME NEW b, "owner" \in DOMAIN b, NEW m
  PROVE  /\ "owner" \in DOMAIN Owned(b) /\ "owner" \in DOMAIN Announced(b)
         /\ "owner" \in DOMAIN Started(b, m) /\ "owner" \in DOMAIN Disowned(b)
         /\ ~Disowned(b).owner
BY DEF Owned, Announced, Started, Disowned

(* The X events of own_selection are none of requests.                     *)
LEMMA OwnEventsAdded ==
  ASSUME NEW s
  PROVE  /\ Sequence(OwnEvents(s))
         /\ \A i \in 1 .. Len(OwnEvents(s)) : OwnEvents(s)[i].type # "request"
<1> DEFINE e == Event("owner", s, "us")
<1>1. e.type # "request"
  BY DEF Event
<1> HIDE DEF e
<1>2. <<e>> \in Seq({e}) /\ Len(<<e>>) = 1 /\ <<e>>[1] = e
  OBVIOUS
<1>3. <<>> \in Seq({e}) /\ Len(<<>>) = 0
  OBVIOUS
<1>4. OwnEvents(s) = <<e>> \/ OwnEvents(s) = <<>>
  BY DEF OwnEvents, e
<1>5. CASE OwnEvents(s) = <<e>>
  <2>1. Sequence(<<e>>)
    BY <1>2 DEF Sequence
  <2>2. \A i \in 1 .. Len(<<e>>) : i = 1
    BY <1>2
  <2>3. QED
    BY <1>1, <1>2, <1>5, <2>1, <2>2
<1>6. CASE OwnEvents(s) = <<>>
  <2>1. Sequence(<<>>)
    BY <1>3 DEF Sequence
  <2>2. QED
    BY <1>3, <1>6, <2>1
<1>7. QED
  BY <1>4, <1>5, <1>6

LEMMA OwnsNowKeepsShape ==
  ASSUME Shape, NEW s, OwnsNow(s)
  PROVE  DOMAIN xowner' = Selections
BY DEF Shape, OwnsNow

LEMMA ReadNotifyStep == ASSUME Shape, ReadNotify PROVE Elsewhere
<1> DEFINE m == Head(toServer)
           s == m.sel
           b == [Announced(inSel[s]) EXCEPT !.copy.kind = m.copy.kind]
<1>1. /\ inSel' = [inSel EXCEPT ![s] = Owned(b)]
      /\ OwnsNow(s) /\ xq' = xq \o OwnEvents(s)
      /\ UNCHANGED <<answer, delayed, incr, pos, spc, ev>>
  BY DEF ReadNotify, thread
<1>2. Grown
  BY <1>1, OwnEventsAdded, GrownByMore
<1>3. s \in Selections => "owner" \in DOMAIN Owned(b)
  <2> SUFFICES ASSUME s \in Selections PROVE "owner" \in DOMAIN Owned(b)
    OBVIOUS
  <2>1. "owner" \in DOMAIN inSel[s]
    BY DEF Shape
  <2>2. "owner" \in DOMAIN Announced(inSel[s])
    BY <2>1, BufferFields
  <2>3. "owner" \in DOMAIN b
    BY <2>2
  <2>4. QED
    BY <2>3, BufferFields
<1> HIDE DEF b, s
<1>4. SameSelections
  BY <1>1, <1>3, OwnsNowKeepsShape DEF Shape, SameSelections
<1>5. QED
  BY <1>1, <1>2, <1>4, SameParts DEF Elsewhere, Shape

LEMMA ReadChunkStep == ASSUME Shape, ReadChunk PROVE Elsewhere
<1> DEFINE m == Head(toServer)
           s == m.sel
           b == [Started(inSel[s], m) EXCEPT !.ready = @ + AtMost(m.size, EventUnits)]
           c == [(IF OwnNow(b) THEN Owned(b) ELSE b) EXCEPT !.state = "COMPLETED"]
           own == IF OwnNow(b) THEN OwnEvents(s) ELSE <<>>
           ready == Event("ready", s, None)
<1>1. /\ UNCHANGED <<answer, delayed, incr, pos, spc, ev>>
      /\ \/ /\ inSel' = [inSel EXCEPT ![s] = b]
            /\ UNCHANGED <<xq, xowner>>
         \/ /\ inSel' = [inSel EXCEPT ![s] = c]
            /\ OwnsNow(s) \/ UNCHANGED xowner
            /\ xq' = xq \o own \o <<ready>>
  BY DEF ReadChunk, thread
<1>2. s \in Selections => "owner" \in DOMAIN b /\ "owner" \in DOMAIN c
  <2> SUFFICES ASSUME s \in Selections
               PROVE  "owner" \in DOMAIN b /\ "owner" \in DOMAIN c
    OBVIOUS
  <2>1. "owner" \in DOMAIN inSel[s]
    BY DEF Shape
  <2>2. "owner" \in DOMAIN Started(inSel[s], m)
    BY <2>1, BufferFields
  <2>3. "owner" \in DOMAIN b
    BY <2>2
  <2> HIDE DEF b
  <2>4. "owner" \in DOMAIN (IF OwnNow(b) THEN Owned(b) ELSE b)
    BY <2>3, BufferFields
  <2>5. QED
    BY <2>3, <2>4
<1> HIDE DEF b, c, s
<1>3. SameSelections
  <2>1. DOMAIN xowner' = Selections
    BY <1>1, OwnsNowKeepsShape DEF Shape
  <2>2. QED
    BY <1>1, <1>2, <2>1 DEF Shape, SameSelections
<1>4. Grown
  <2>1. CASE xq' = xq \o own \o <<ready>>
    <3> DEFINE x == own \o <<ready>>
    <3>1. /\ Sequence(own)
          /\ \A i \in 1 .. Len(own) : own[i].type # "request"
      <4>1. <<>> \in Seq({ready}) /\ Len(<<>>) = 0
        OBVIOUS
      <4>2. Sequence(<<>>)
        BY <4>1 DEF Sequence
      <4>3. CASE OwnNow(b)
        BY <4>3, OwnEventsAdded
      <4>4. CASE ~OwnNow(b)
        BY <4>1, <4>2, <4>4
      <4>5. QED
        BY <4>3, <4>4
    <3>2. ready.type # "request"
      BY DEF Event
    <3> HIDE DEF own, ready
    <3>3. PICK S : xq \in Seq(S)
      BY DEF Shape, Sequence
    <3>4. PICK T : own \in Seq(T)
      BY <3>1 DEF Sequence
    <3>5. /\ xq \in Seq((S \cup T) \cup {ready})
          /\ own \in Seq((T \cup S) \cup {ready})
          /\ (T \cup S) \cup {ready} = (S \cup T) \cup {ready}
          /\ <<ready>> \in Seq((S \cup T) \cup {ready})
      BY <3>3, <3>4, SeqOfMore
    <3>6. /\ x \in Seq((S \cup T) \cup {ready}) /\ Len(x) = Len(own) + 1
          /\ \A i \in 1 .. Len(own) + 1 :
               x[i] = IF i <= Len(own) THEN own[i] ELSE <<ready>>[i - Len(own)]
      BY <3>5, ConcatProperties
    <3>7. xq' = xq \o x
      BY <2>1, <3>5, ConcatAssociative
    <3>8. ASSUME NEW i \in 1 .. Len(x) PROVE x[i].type # "request"
      <4>1. Len(own) \in Nat
        BY <3>1, SequenceParts
      <4>2. CASE i <= Len(own)
        BY <3>1, <3>6, <4>1, <4>2
      <4>3. CASE ~(i <= Len(own))
        <5>1. i - Len(own) = 1
          BY <3>6, <4>1, <4>3
        <5>2. x[i] = <<ready>>[i - Len(own)]
          BY <3>6, <4>3
        <5>3. QED
          BY <3>2, <5>1, <5>2
      <4>4. QED
        BY <4>2, <4>3
    <3>9. Sequence(x)
      BY <3>6 DEF Sequence
    <3> HIDE DEF x
    <3>10. QED
      BY <3>7, <3>8, <3>9, GrownByMore
  <2>2. QED
    BY <1>1, <2>1, GrownNot
<1>5. QED
  BY <1>1, <1>3, <1>4, SameParts DEF Elsewhere, Shape

LEMMA ClientStep ==
  ASSUME Shape,
         \/ ClientReads \/ ClientLeaves \/ ClientArrives \/ Tick
         \/ ReadRest \/ SendChunk
         \/ \E s \in Selections :
              \/ \E k \in ClientKinds : ClientCopies(s, k)
              \/ ClientDemands(s) \/ SendRequest(s)
  PROVE  Elsewhere
<1>1. UNCHANGED <<inSel, xowner, xq, answer, delayed, incr, pos, spc, ev>>
  BY DEF ClientReads, ClientLeaves, ClientArrives, Tick, ReadRest, SendChunk,
         ClientCopies, ClientDemands, SendRequest, incoming, thread, xserver
<1>2. QED
  BY <1>1, GrownNot, SameParts DEF Elsewhere, Shape

LEMMA OneEventStep ==
  ASSUME Shape,
         \/ ReadDemand
         \/ \E s \in Selections, k \in AppKinds : AppCopies(s, k)
         \/ \E r \in Requests : AppDeletes(r)
  PROVE  Elsewhere
<1>1. UNCHANGED <<inSel, delayed, incr, pos, spc, ev>>
  BY DEF ReadDemand, AppCopies, AppDeletes, incoming, thread
<1>2. CASE ReadDemand
  <2>1. xq' = Append(xq, Event("demand", Head(toServer).sel, None))
        /\ UNCHANGED <<answer, xowner>>
    BY <1>2 DEF ReadDemand, xserver
  <2>2. Event("demand", Head(toServer).sel, None).type # "request"
    BY DEF Event
  <2>3. QED
    BY <1>1, <2>1, <2>2, GrownByOne, SameParts DEF Elsewhere, Shape
<1>3. ASSUME NEW s \in Selections, NEW k \in AppKinds, AppCopies(s, k)
      PROVE  Elsewhere
  <2>1. xq' = Append(xq, Event("owner", s, "app")) /\ UNCHANGED answer
        /\ xowner' = [xowner EXCEPT ![s] = "app"]
    BY <1>3 DEF AppCopies
  <2>2. Event("owner", s, "app").type # "request"
    BY DEF Event
  <2>3. Grown
    BY <2>1, <2>2, GrownByOne
  <2>4. SameSelections
    BY <1>1, <2>1 DEF SameSelections, Shape
  <2>5. QED
    BY <1>1, <2>1, <2>3, <2>4, SameParts DEF Elsewhere, Shape
<1>4. ASSUME NEW r \in Requests, AppDeletes(r) PROVE Elsewhere
  <2>1. xq' = Append(xq, Event("deleted", answer[r].sel, r)) /\ UNCHANGED xowner
        /\ answer' = [answer EXCEPT ![r].unread = FALSE]
    BY <1>4 DEF AppDeletes, xserver
  <2>2. Event("deleted", answer[r].sel, r).type # "request"
    BY DEF Event
  <2>3. Grown
    BY <2>1, <2>2, GrownByOne
  <2>4. SameAnswers
    <3>1. answer' = [answer EXCEPT ![r] = [answer[r] EXCEPT !.unread = FALSE]]
      BY <2>1
    <3>2. "how" \in DOMAIN answer[r]
      BY DEF Shape
    <3> DEFINE a == [answer[r] EXCEPT !.unread = FALSE]
    <3>3. "how" \in DOMAIN a /\ a.how = answer[r].how
      BY <3>2
    <3> HIDE DEF a
    <3>4. DOMAIN answer' = Requests
          /\ \A q \in Requests : answer'[q] = IF q = r THEN a ELSE answer[q]
      BY <3>1 DEF Shape, a
    <3>5. QED
      BY <3>3, <3>4 DEF SameAnswers, Shape
  <2>5. QED
    BY <1>1, <2>1, <2>3, <2>4, SameParts DEF Elsewhere, Shape
<1>5. QED
  BY <1>2, <1>3, <1>4

LEMMA AppsElsewhere ==
  ASSUME Shape, NEW s, AppConverts(s) \/ AppPortion(s)
  PROVE  Elsewhere
<1>1. UNCHANGED <<inSel, xowner, answer, delayed, incr, pos, spc, ev>>
  BY DEF AppConverts, AppPortion, incoming, thread
<1>2. QED
  BY <1>1, AppStep, SameParts DEF Elsewhere, Shape

(* What the thread does with events that are no requests.                  *)
LEMMA OtherEventStep ==
  ASSUME Shape,
         \/ DataReady \/ OwnerChanged \/ DataDemanded \/ ConversionDone
         \/ PropertyChanged
  PROVE  Elsewhere
<1>1. /\ UNCHANGED <<xowner, answer, delayed, incr, pos, ev>>
      /\ ev.type # "request"
  BY DEF DataReady, OwnerChanged, DataDemanded, ConversionDone,
         PropertyChanged, Handles, incoming, xserver
<1>2. /\ Grown
      /\ UNCHANGED inSel \/ inSel' = [inSel EXCEPT ![ev.sel] = Disowned(@)]
  <2>1. CASE DataReady
    BY <2>1, GrownNot DEF DataReady, incoming
  <2>2. CASE OwnerChanged
    BY <2>2, GrownNot, ConvertsGrows DEF OwnerChanged
  <2>3. CASE DataDemanded
    BY <2>3, GrownNot, ConvertsGrows DEF DataDemanded, incoming
  <2>4. CASE ConversionDone
    BY <2>4, GrownNot, ReadPropertyGrows DEF ConversionDone, incoming
  <2>5. CASE PropertyChanged
    BY <2>5, GrownNot, ReadPropertyGrows DEF PropertyChanged, incoming
  <2>6. QED
    BY <2>1, <2>2, <2>3, <2>4, <2>5
<1>3. SameSelections
  <2>1. ASSUME NEW s \in Selections PROVE "owner" \in DOMAIN Disowned(inSel[s])
    BY BufferFields DEF Shape
  <2>2. QED
    BY <1>1, <1>2, <2>1 DEF SameSelections, Shape
<1>4. QED
  BY <1>1, <1>2, <1>3, SameParts DEF Elsewhere, Shape

LEMMA WalkStep ==
  ASSUME Shape, ScanDone \/ PruneDone
  PROVE  Elsewhere
<1>1. /\ UNCHANGED <<inSel, xowner, xq, answer, delayed, incr, ev>>
      /\ spc # "wait" /\ spc' # "wait" /\ pos' = 1
  BY DEF ScanDone, PruneDone, incoming, xserver
<1>2. QED
  BY <1>1, GrownNot, SameParts DEF Elsewhere

-----------------------------------------------------------------------------
(* A request is at one place until it is answered.                         *)

Asked(e, r) == e.type = "request" /\ e.arg = r

Arrives(r) == \E i \in 1 .. Len(xq) : Asked(xq[i], r)
Handled(r) == spc # "wait" /\ Asked(ev, r)
Waits(r) == \E i \in 1 .. Len(delayed) : delayed[i] = r

AtOnePlace ==
  /\ \A i, j \in 1 .. Len(xq) :
       \A r \in Requests : Asked(xq[i], r) /\ Asked(xq[j], r) => i = j
  /\ \A i, j \in 1 .. Len(delayed) : delayed[i] = delayed[j] => i = j
  /\ \A r \in Requests :
       /\ ~(Arrives(r) /\ Handled(r)) /\ ~(Arrives(r) /\ Waits(r))
       /\ ~(Handled(r) /\ Waits(r))
       /\ answer[r].how = "pending" <=> Arrives(r) \/ Handled(r) \/ Waits(r)

(* Transactions are of requests that got an answer.                        *)
Begun ==
  \A i \in 1 .. Len(incr) :
    incr[i].req \in Requests => answer[incr[i].req].how \in {"incr", "data"}

Invariant == Shape /\ AtOnePlace /\ Begun

LEMMA DelayedParts ==
  ASSUME Shape
  PROVE  /\ Len(delayed) \in Nat /\ Len(xq) \in Nat /\ Len(incr) \in Nat
         /\ \A i \in 1 .. Len(delayed) : delayed[i] \in Requests
BY SequenceParts, LenProperties, ElementOfSeq DEF Shape

(* No request changes its place.                                           *)
SamePlaces ==
  /\ Grown /\ SameSelections
  /\ DOMAIN answer' = Requests
  /\ \A r \in Requests :
       /\ "how" \in DOMAIN answer'[r]
       /\ answer'[r].how = "pending" <=> answer[r].how = "pending"
  /\ delayed' = delayed /\ ev' = ev
  /\ ev.type = "request" => (spc' = "wait" <=> spc = "wait")
  /\ pos' \in Nat \ {0}

LEMMA PlacesKept ==
  ASSUME Invariant, SamePlaces, Sequence(incr')
  PROVE  Shape' /\ AtOnePlace'
<1>1. Shape /\ AtOnePlace /\ Grown
  BY DEF Invariant, SamePlaces
<1>2. Len(xq) \in Nat /\ Len(xq') \in Nat /\ 1 .. Len(xq) \subseteq 1 .. Len(xq')
  BY <1>1, DelayedParts DEF Grown
<1>3. ASSUME NEW i \in 1 .. Len(xq'), xq'[i].type = "request"
      PROVE  i \in 1 .. Len(xq) /\ xq'[i] = xq[i]
  BY <1>1, <1>3 DEF Grown
<1>4. Shape'
  <2>1. \A i \in 1 .. Len(xq') : Answerable(xq'[i])
    BY <1>1, <1>3 DEF Shape, Answerable
  <2>2. Answerable(ev')
    BY <1>1 DEF Shape, SamePlaces
  <2>3. QED
    BY <1>1, <2>1, <2>2 DEF Shape, Grown, SamePlaces, SameSelections
<1>5. ASSUME NEW r \in Requests
      PROVE  /\ Arrives(r)' <=> Arrives(r)
             /\ Handled(r)' <=> Handled(r)
             /\ Waits(r)' <=> Waits(r)
             /\ answer'[r].how = "pending" <=> answer[r].how = "pending"
  <2>1. Arrives(r) => Arrives(r)'
    BY <1>1, <1>2 DEF Arrives, Grown
  <2>2. Arrives(r)' => Arrives(r)
    BY <1>3 DEF Arrives, Asked
  <2>3. Handled(r)' <=> Handled(r)
    BY DEF Handled, Asked, SamePlaces
  <2>4. Waits(r)' <=> Waits(r)
    BY DEF Waits, SamePlaces
  <2>5. QED
    BY <2>1, <2>2, <2>3, <2>4 DEF SamePlaces
<1>6. AtOnePlace'
  <2>1. \A i, j \in 1 .. Len(xq') :
          \A r \in Requests : Asked(xq'[i], r) /\ Asked(xq'[j], r) => i = j
    BY <1>1, <1>3 DEF AtOnePlace, Asked
  <2>2. \A i, j \in 1 .. Len(delayed') : delayed'[i] = delayed'[j] => i = j
    BY <1>1 DEF AtOnePlace, SamePlaces
  <2>3. QED
    BY <1>1, <1>5, <2>1, <2>2 DEF AtOnePlace
<1>7. QED
  BY <1>4, <1>6

LEMMA ElsewhereKeeps ==
  ASSUME Invariant, Elsewhere
  PROVE  Invariant'
<1>1. SamePlaces /\ Sequence(incr')
  BY DEF Invariant, Shape, SamePlaces, Elsewhere, SameAnswers
<1>2. Begun'
  BY DEF Invariant, Begun, Elsewhere, SameAnswers
<1>3. QED
  BY <1>1, <1>2, PlacesKept DEF Invariant

(* Wake takes the first event.                                             *)
LEMMA WakeKeeps ==
  ASSUME Invariant, Wake
  PROVE  Invariant'
<1>1. Shape /\ AtOnePlace /\ Begun
  BY DEF Invariant
<1>2. /\ spc = "wait" /\ xq # <<>> /\ ev' = Head(xq) /\ xq' = Tail(xq)
      /\ spc' = "scan" /\ pos' = 1
      /\ UNCHANGED <<inSel, xowner, answer, delayed, incr>>
  BY DEF Wake, incoming, xserver
<1>3. /\ Sequence(xq') /\ ev' = xq[1] /\ Len(xq) \in Nat \ {0}
      /\ Len(xq') = Len(xq) - 1
      /\ \A i \in 1 .. Len(xq') : xq'[i] = xq[i + 1] /\ i + 1 \in 1 .. Len(xq)
  <2>1. Sequence(xq)
    BY <1>1 DEF Shape
  <2>2. /\ Sequence(xq') /\ ev' = xq[1] /\ Len(xq) \in Nat \ {0}
        /\ Len(xq') = Len(xq) - 1
        /\ \A i \in 1 .. Len(xq') : xq'[i] = xq[i + 1]
    BY <1>2, <2>1, TailAny, SequenceParts
  <2>3. QED
    BY <2>2
<1>4. Shape'
  <2>1. 1 \in 1 .. Len(xq)
    BY <1>3
  <2>2. Answerable(ev') /\ \A i \in 1 .. Len(xq') : Answerable(xq'[i])
    BY <1>1, <1>3, <2>1 DEF Shape
  <2>3. QED
    BY <1>1, <1>2, <1>3, <2>2 DEF Shape
<1>5. ASSUME NEW r \in Requests
      PROVE  /\ ~Handled(r) /\ (Waits(r)' <=> Waits(r))
             /\ Arrives(r) <=> Arrives(r)' \/ Handled(r)'
             /\ ~(Arrives(r)' /\ Handled(r)')
  <2>1. ~Handled(r) /\ (Waits(r)' <=> Waits(r))
    BY <1>2 DEF Handled, Waits
  <2>2. Handled(r)' <=> Asked(xq[1], r)
    BY <1>2, <1>3 DEF Handled
  <2>3. 1 \in 1 .. Len(xq)
    BY <1>3
  <2>4. ASSUME NEW i \in 1 .. Len(xq), i # 1
        PROVE  i - 1 \in 1 .. Len(xq') /\ xq'[i - 1] = xq[i]
    <3>1. i - 1 \in 1 .. Len(xq') /\ (i - 1) + 1 = i
      BY <1>3, <2>4
    <3>2. QED
      BY <1>3, <3>1
  <2>5. Arrives(r) => Arrives(r)' \/ Handled(r)'
    BY <2>2, <2>4 DEF Arrives
  <2>6. Arrives(r)' \/ Handled(r)' => Arrives(r)
    BY <1>3, <2>2, <2>3 DEF Arrives
  <2>7. ~(Arrives(r)' /\ Handled(r)')
    <3> SUFFICES ASSUME Arrives(r)', Handled(r)' PROVE FALSE
      OBVIOUS
    <3>1. PICK i \in 1 .. Len(xq') : Asked(xq'[i], r)
      BY DEF Arrives
    <3>2. Asked(xq[i + 1], r) /\ Asked(xq[1], r) /\ i + 1 \in 1 .. Len(xq)
      BY <1>3, <2>2, <3>1
    <3>3. i + 1 = 1
      BY <1>1, <2>3, <3>2 DEF AtOnePlace
    <3>4. QED
      BY <1>3, <3>3
  <2>8. QED
    BY <2>1, <2>5, <2>6, <2>7
<1>6. AtOnePlace'
  <2>1. ASSUME NEW i \in 1 .. Len(xq'), NEW j \in 1 .. Len(xq'),
               NEW r \in Requests, Asked(xq'[i], r), Asked(xq'[j], r)
        PROVE  i = j
    <3>1. i + 1 \in 1 .. Len(xq) /\ j + 1 \in 1 .. Len(xq)
          /\ Asked(xq[i + 1], r) /\ Asked(xq[j + 1], r)
      BY <1>3, <2>1
    <3>2. i + 1 = j + 1
      BY <1>1, <3>1 DEF AtOnePlace
    <3>3. QED
      BY <1>3, <3>2
  <2>2. \A i, j \in 1 .. Len(delayed') : delayed'[i] = delayed'[j] => i = j
    BY <1>1, <1>2 DEF AtOnePlace
  <2>3. QED
    BY <1>1, <1>2, <1>5, <2>1, <2>2 DEF AtOnePlace
<1>7. Begun'
  BY <1>1, <1>2 DEF Begun
<1>8. QED
  BY <1>4, <1>6, <1>7 DEF Invariant

-----------------------------------------------------------------------------
(* Steps that ask, answer or move one request.                             *)

LEMMA AnswerOfOne ==
  ASSUME Shape, NEW r \in Requests, NEW a, "how" \in DOMAIN a,
         answer' = [answer EXCEPT ![r] = a]
  PROVE  /\ DOMAIN answer' = Requests
         /\ \A q \in Requests : "how" \in DOMAIN answer'[q]
         /\ \A q \in Requests : answer'[q].how = IF q = r THEN a.how ELSE answer[q].how
BY DEF Shape

LEMMA AnswerForms ==
  ASSUME NEW a, "how" \in DOMAIN a, NEW b
  PROVE  /\ "how" \in DOMAIN Refused(a) /\ Refused(a).how = "refused"
         /\ "how" \in DOMAIN Answered(a, b)
         /\ Answered(a, b).how \in {"refused", "data", "incr"}
<1>1. "how" \in DOMAIN Refused(a) /\ Refused(a).how = "refused"
  BY DEF Refused
<1>2. ASSUME NEW h, NEW c, NEW f, NEW u
      PROVE  LET x == [a EXCEPT !.how = h, !.copy = c, !.filled = f, !.unread = u]
             IN  "how" \in DOMAIN x /\ x.how = h
  OBVIOUS
<1>3. CASE b.copy.kind # a.target
  BY <1>1, <1>3 DEF Answered
<1>4. CASE ~(b.copy.kind # a.target)
  BY <1>1, <1>2, <1>4 DEF Answered
<1>5. QED
  BY <1>1, <1>3, <1>4

(* An answer to a pending request, perhaps with a transaction.             *)
Begins(r, a) ==
  \/ incr' = incr
  \/ a.how = "incr" /\ \E b : incr' = Append(incr, Transaction(r, b))

LEMMA WithIncrBegins ==
  ASSUME NEW r, NEW a, incr' = WithIncr(r, a)
  PROVE  Begins(r, a)
BY DEF WithIncr, Begins

LEMMA BegunAfterAnswer ==
  ASSUME Shape, Begun, NEW r \in Requests, NEW a, "how" \in DOMAIN a,
         answer[r].how = "pending", answer' = [answer EXCEPT ![r] = a],
         Begins(r, a)
  PROVE  Sequence(incr') /\ Begun'
<1>1. \A q \in Requests : answer'[q].how = IF q = r THEN a.how ELSE answer[q].how
  BY AnswerOfOne
<1>2. Sequence(incr) /\ Len(incr) \in Nat
  BY DelayedParts DEF Shape
<1>3. ASSUME NEW i \in 1 .. Len(incr), incr[i].req \in Requests
      PROVE  answer'[incr[i].req].how \in {"incr", "data"}
  BY <1>1, <1>3 DEF Begun
<1>4. CASE incr' = incr
  BY <1>2, <1>3, <1>4 DEF Begun
<1>5. CASE a.how = "incr" /\ \E b : incr' = Append(incr, Transaction(r, b))
  <2>1. PICK b : incr' = Append(incr, Transaction(r, b))
    BY <1>5
  <2>2. Transaction(r, b).req = r
    BY DEF Transaction
  <2>3. /\ Sequence(incr') /\ Len(incr') = Len(incr) + 1
        /\ \A i \in 1 .. Len(incr) : incr'[i] = incr[i]
        /\ incr'[Len(incr) + 1] = Transaction(r, b)
    BY <1>2, <2>1, AppendAny
  <2>4. ASSUME NEW i \in 1 .. Len(incr'), incr'[i].req \in Requests
        PROVE  answer'[incr'[i].req].how \in {"incr", "data"}
    <3>1. CASE i \in 1 .. Len(incr)
      BY <1>3, <2>3, <2>4, <3>1
    <3>2. CASE i \notin 1 .. Len(incr)
      <4>1. i = Len(incr) + 1
        BY <1>2, <2>3, <3>2
      <4>2. incr'[i].req = r
        BY <2>2, <2>3, <4>1
      <4>3. QED
        BY <1>1, <1>5, <4>2
    <3>3. QED
      BY <3>1, <3>2
  <2>5. QED
    BY <2>3, <2>4 DEF Begun
<1>6. QED
  BY <1>4, <1>5 DEF Begins

(* A delayed request gets its answer.                                      *)
LEMMA DiscardKeeps ==
  ASSUME Invariant, pos <= Len(delayed), NEW a, "how" \in DOMAIN a,
         a.how # "pending", answer' = [answer EXCEPT ![delayed[pos]] = a],
         Discard, Begins(delayed[pos], a),
         UNCHANGED <<inSel, xowner, xq, spc, ev, pos>>
  PROVE  Invariant'
<1> DEFINE r == delayed[pos]
           n == Len(delayed)
<1>1. Shape /\ AtOnePlace /\ Begun /\ n \in Nat /\ pos \in 1 .. n
  BY DelayedParts DEF Invariant, Shape
<1>2. r \in Requests
  BY <1>1, DelayedParts
<1>3. Waits(r) /\ answer[r].how = "pending"
  BY <1>1, <1>2 DEF Waits, AtOnePlace
<1>4. /\ delayed' \in Seq(Requests) /\ Len(delayed') = n - 1
      /\ \A i \in 1 .. n - 1 :
           delayed'[i] = IF i < pos THEN delayed[i] ELSE delayed[i + 1]
  <2>1. delayed \in Seq(Requests) /\ delayed' = Without(delayed, pos)
    BY <1>1 DEF Shape, Discard, Without
  <2>2. QED
    BY <1>1, <2>1, WithoutOne
<1>5. /\ DOMAIN answer' = Requests
      /\ \A q \in Requests : "how" \in DOMAIN answer'[q]
      /\ \A q \in Requests : answer'[q].how = IF q = r THEN a.how ELSE answer[q].how
  BY <1>1, <1>2, AnswerOfOne
<1>6. Sequence(incr') /\ Begun'
  BY <1>1, <1>2, <1>3, BegunAfterAnswer
<1> HIDE DEF r, n
<1>7. r = delayed[pos]
  BY DEF r
<1>8. Shape'
  BY <1>1, <1>4, <1>5, <1>6 DEF Shape, Answerable
(* Where an element was before.                                            *)
<1> DEFINE old(i) == IF i < pos THEN i ELSE i + 1
<1>9. /\ \A i \in 1 .. n - 1 : /\ old(i) \in 1 .. n /\ old(i) # pos
                               /\ delayed'[i] = delayed[old(i)]
      /\ \A i, j \in 1 .. n - 1 : old(i) = old(j) => i = j
      /\ \A k \in 1 .. n : k # pos => \E i \in 1 .. n - 1 : old(i) = k
  <2>1. \A i \in 1 .. n - 1 : /\ old(i) \in 1 .. n /\ old(i) # pos
                              /\ delayed'[i] = delayed[old(i)]
    BY <1>1, <1>4
  <2>2. \A i, j \in 1 .. n - 1 : old(i) = old(j) => i = j
    BY <1>1
  <2>3. ASSUME NEW k \in 1 .. n, k # pos
        PROVE  \E i \in 1 .. n - 1 : old(i) = k
    <3>1. CASE k < pos
      <4>1. k \in 1 .. n - 1 /\ old(k) = k
        BY <1>1, <3>1
      <4>2. QED
        BY <4>1
    <3>2. CASE ~(k < pos)
      <4>1. k - 1 \in 1 .. n - 1 /\ old(k - 1) = k
        BY <1>1, <2>3, <3>2
      <4>2. QED
        BY <4>1
    <3>3. QED
      BY <3>1, <3>2
  <2>4. QED
    BY <2>1, <2>2, <2>3
<1> HIDE DEF old
<1>10. ASSUME NEW q \in Requests
       PROVE  /\ Arrives(q)' <=> Arrives(q)
              /\ Handled(q)' <=> Handled(q)
              /\ Waits(q)' <=> Waits(q) /\ q # r
  <2>1. (Arrives(q)' <=> Arrives(q)) /\ (Handled(q)' <=> Handled(q))
    BY DEF Arrives, Handled
  <2>2. Waits(q)' => Waits(q) /\ q # r
    <3> SUFFICES ASSUME Waits(q)' PROVE Waits(q) /\ q # r
      OBVIOUS
    <3>1. PICK i \in 1 .. n - 1 : delayed'[i] = q
      BY <1>4 DEF Waits
    <3>2. old(i) \in 1 .. n /\ delayed[old(i)] = q /\ old(i) # pos
      BY <1>9, <3>1
    <3>3. q # r
      BY <1>1, <1>7, <3>2 DEF AtOnePlace, n
    <3>4. QED
      BY <3>2, <3>3 DEF Waits, n
  <2>3. Waits(q) /\ q # r => Waits(q)'
    <3> SUFFICES ASSUME Waits(q), q # r PROVE Waits(q)'
      OBVIOUS
    <3>1. PICK k \in 1 .. n : delayed[k] = q
      BY DEF Waits, n
    <3>2. k # pos
      BY <1>7, <3>1
    <3>3. PICK i \in 1 .. n - 1 : old(i) = k
      BY <1>9, <3>2
    <3>4. delayed'[i] = q
      BY <1>9, <3>1, <3>3
    <3>5. QED
      BY <1>4, <3>4 DEF Waits
  <2>4. QED
    BY <2>1, <2>2, <2>3
<1>11. AtOnePlace'
  <2>1. ASSUME NEW i \in 1 .. Len(delayed'), NEW j \in 1 .. Len(delayed'),
               delayed'[i] = delayed'[j]
        PROVE  i = j
    <3>1. i \in 1 .. n - 1 /\ j \in 1 .. n - 1
      BY <1>4
    <3>2. /\ old(i) \in 1 .. n /\ old(j) \in 1 .. n
          /\ delayed[old(i)] = delayed[old(j)]
      BY <1>9, <2>1, <3>1
    <3>3. old(i) = old(j)
      BY <1>1, <3>2 DEF AtOnePlace, n
    <3>4. QED
      BY <1>9, <3>1, <3>3
  <2>2. ASSUME NEW q \in Requests
        PROVE  /\ ~(Arrives(q)' /\ Handled(q)') /\ ~(Arrives(q)' /\ Waits(q)')
               /\ ~(Handled(q)' /\ Waits(q)')
               /\ answer'[q].how = "pending"
                    <=> Arrives(q)' \/ Handled(q)' \/ Waits(q)'
    <3>1. CASE q = r
      BY <1>1, <1>3, <1>5, <1>10, <3>1 DEF AtOnePlace
    <3>2. CASE q # r
      BY <1>1, <1>5, <1>10, <3>2 DEF AtOnePlace
    <3>3. QED
      BY <3>1, <3>2
  <2>3. \A i, j \in 1 .. Len(xq') :
          \A q \in Requests : Asked(xq'[i], q) /\ Asked(xq'[j], q) => i = j
    BY <1>1 DEF AtOnePlace
  <2>4. QED
    BY <2>1, <2>2, <2>3 DEF AtOnePlace
<1>12. QED
  BY <1>6, <1>8, <1>11 DEF Invariant

LEMMA WalkKeeps ==
  ASSUME Invariant, ScanDelayed \/ PruneDelayed
  PROVE  Invariant'
<1> DEFINE r == delayed[pos]
           b == inSel[answer[r].sel]
<1>1. /\ Shape /\ pos <= Len(delayed) /\ r \in Requests
      /\ "how" \in DOMAIN answer[r] /\ spc \in {"scan", "prune"}
  <2>1. Shape /\ pos <= Len(delayed) /\ spc \in {"scan", "prune"}
    BY DEF Invariant, ScanDelayed, PruneDelayed
  <2>2. pos \in 1 .. Len(delayed)
    BY <2>1, DelayedParts DEF Shape
  <2>3. QED
    BY <2>1, <2>2, DelayedParts DEF Shape
<1>2. UNCHANGED <<inSel, xowner, xq, spc, ev>>
  BY DEF ScanDelayed, PruneDelayed, xserver
<1>3. \/ UNCHANGED <<answer, delayed, incr>> /\ pos' = pos + 1
      \/ /\ answer' = [answer EXCEPT ![r] = Refused(answer[r])]
         /\ Discard /\ UNCHANGED <<incr, pos>>
      \/ /\ answer' = [answer EXCEPT ![r] = Answered(answer[r], b)]
         /\ incr' = WithIncr(r, Answered(answer[r], b))
         /\ Discard /\ UNCHANGED pos
  <2>1. CASE ScanDelayed
    BY <2>1 DEF ScanDelayed
  <2>2. CASE PruneDelayed
    BY <2>2 DEF PruneDelayed
  <2>3. QED
    BY <2>1, <2>2
<1>4. CASE UNCHANGED <<answer, delayed, incr>> /\ pos' = pos + 1
  <2>1. pos' \in Nat \ {0}
    BY <1>1, <1>4 DEF Shape
  <2>2. Elsewhere
    BY <1>1, <1>2, <1>4, <2>1, GrownNot, SameParts DEF Elsewhere
  <2>3. QED
    BY <2>2, ElsewhereKeeps
<1>5. CASE /\ answer' = [answer EXCEPT ![r] = Refused(answer[r])]
           /\ Discard /\ UNCHANGED <<incr, pos>>
  <2>1. "how" \in DOMAIN Refused(answer[r]) /\ Refused(answer[r]).how = "refused"
    BY <1>1, AnswerForms
  <2>2. Begins(r, Refused(answer[r]))
    BY <1>5 DEF Begins
  <2>3. QED
    BY <1>1, <1>2, <1>5, <2>1, <2>2, DiscardKeeps
<1>6. CASE /\ answer' = [answer EXCEPT ![r] = Answered(answer[r], b)]
           /\ incr' = WithIncr(r, Answered(answer[r], b))
           /\ Discard /\ UNCHANGED pos
  <2> DEFINE a == Answered(answer[r], b)
  <2>1. "how" \in DOMAIN a /\ a.how \in {"refused", "data", "incr"}
    BY <1>1, AnswerForms
  <2> HIDE DEF a
  <2>2. Begins(r, a)
    BY <1>6, WithIncrBegins DEF a
  <2>3. QED
    BY <1>1, <1>2, <1>6, <2>1, <2>2, DiscardKeeps DEF a
<1>7. QED
  BY <1>3, <1>4, <1>5, <1>6

(* A request is pasted.                                                    *)
LEMMA PasteKeeps ==
  ASSUME Invariant, NEW r \in Requests, NEW s, NEW target, NEW t,
         AppPastes(r, s, target, t)
  PROVE  Invariant'
<1> DEFINE a == [answer[r] EXCEPT !.how = "pending", !.sel = s,
                                  !.target = target, !.time = t]
           e == Event("request", s, r)
<1>1. Shape /\ AtOnePlace /\ Begun
  BY DEF Invariant
<1>2. /\ answer[r].how = "none" /\ answer' = [answer EXCEPT ![r] = a]
      /\ xq' = Append(xq, e)
      /\ UNCHANGED <<inSel, xowner, delayed, incr, pos, spc, ev>>
  BY DEF AppPastes, incoming, thread, xserver
<1>3. "how" \in DOMAIN a /\ a.how = "pending"
  <2>1. "how" \in DOMAIN answer[r]
    BY <1>1 DEF Shape
  <2>2. QED
    BY <2>1
<1>4. Asked(e, r) /\ Answerable(e) /\ \A q : Asked(e, q) => q = r
  BY DEF Asked, Event, Answerable
<1> HIDE DEF a, e
<1>5. /\ DOMAIN answer' = Requests
      /\ \A q \in Requests : "how" \in DOMAIN answer'[q]
      /\ \A q \in Requests : answer'[q].how = IF q = r THEN a.how ELSE answer[q].how
  BY <1>1, <1>2, <1>3, AnswerOfOne
<1>6. /\ Sequence(xq') /\ Len(xq) \in Nat /\ Len(xq') = Len(xq) + 1
      /\ \A i \in 1 .. Len(xq) : xq'[i] = xq[i]
      /\ xq'[Len(xq) + 1] = e
  <2>1. Sequence(xq) /\ Len(xq) \in Nat
    BY <1>1, DelayedParts DEF Shape
  <2>2. QED
    BY <1>2, <2>1, AppendAny
<1>7. \A i \in 1 .. Len(xq') :
        \/ i \in 1 .. Len(xq) /\ xq'[i] = xq[i]
        \/ i = Len(xq) + 1 /\ xq'[i] = e
  <2>1. \A i \in 1 .. Len(xq') : i \in 1 .. Len(xq) \/ i = Len(xq) + 1
    BY <1>6
  <2>2. QED
    BY <1>6, <2>1
<1>8. Shape'
  <2>1. \A i \in 1 .. Len(xq') : Answerable(xq'[i])
    BY <1>1, <1>4, <1>7 DEF Shape
  <2>2. Answerable(ev')
    BY <1>1, <1>2 DEF Shape
  <2>3. QED
    BY <1>1, <1>2, <1>5, <1>6, <2>1, <2>2 DEF Shape
<1>9. ~Arrives(r) /\ ~Handled(r) /\ ~Waits(r)
  BY <1>1, <1>2 DEF AtOnePlace
<1>10. ASSUME NEW q \in Requests
       PROVE  /\ Arrives(q)' <=> Arrives(q) \/ q = r
              /\ Handled(q)' <=> Handled(q)
              /\ Waits(q)' <=> Waits(q)
  <2>1. Arrives(q)' => Arrives(q) \/ q = r
    BY <1>4, <1>7 DEF Arrives
  <2>2. Arrives(q) => Arrives(q)'
    BY <1>6 DEF Arrives
  <2>3. Arrives(r)'
    <3>1. Len(xq) + 1 \in 1 .. Len(xq')
      BY <1>6
    <3>2. QED
      BY <1>4, <1>6, <3>1 DEF Arrives
  <2>4. (Handled(q)' <=> Handled(q)) /\ (Waits(q)' <=> Waits(q))
    BY <1>2 DEF Handled, Waits
  <2>5. QED
    BY <2>1, <2>2, <2>3, <2>4
<1>11. AtOnePlace'
  <2>1. ASSUME NEW i \in 1 .. Len(xq'), NEW j \in 1 .. Len(xq'),
               NEW q \in Requests, Asked(xq'[i], q), Asked(xq'[j], q)
        PROVE  i = j
    <3>1. CASE q = r
      BY <1>7, <1>9, <2>1, <3>1 DEF Arrives
    <3>2. CASE q # r
      BY <1>1, <1>4, <1>7, <2>1, <3>2 DEF AtOnePlace
    <3>3. QED
      BY <3>1, <3>2
  <2>2. \A i, j \in 1 .. Len(delayed') : delayed'[i] = delayed'[j] => i = j
    BY <1>1, <1>2 DEF AtOnePlace
  <2>3. ASSUME NEW q \in Requests
        PROVE  /\ ~(Arrives(q)' /\ Handled(q)') /\ ~(Arrives(q)' /\ Waits(q)')
               /\ ~(Handled(q)' /\ Waits(q)')
               /\ answer'[q].how = "pending"
                    <=> Arrives(q)' \/ Handled(q)' \/ Waits(q)'
    BY <1>1, <1>3, <1>5, <1>9, <1>10 DEF AtOnePlace
  <2>4. QED
    BY <2>1, <2>2, <2>3 DEF AtOnePlace
<1>12. Begun'
  <2>1. ASSUME NEW i \in 1 .. Len(incr), incr[i].req \in Requests
        PROVE  answer'[incr[i].req].how \in {"incr", "data"}
    <3>1. answer[incr[i].req].how \in {"incr", "data"}
      BY <1>1, <2>1 DEF Begun
    <3>2. incr[i].req # r
      BY <1>2, <3>1
    <3>3. QED
      BY <1>5, <2>1, <3>1, <3>2
  <2>2. QED
    BY <1>2, <2>1 DEF Begun
<1>13. QED
  BY <1>8, <1>11, <1>12 DEF Invariant

(* The request in hand is answered.                                        *)
LEMMA AnswerKeeps ==
  ASSUME Invariant, AnswerRequest
  PROVE  Invariant'
<1> DEFINE r == ev.arg
           b == inSel[ev.sel]
           a == IF ~b.owner \/ Older(r) THEN Refused(answer[r])
                ELSE IF answer[r].target = "meta"
                     THEN [answer[r] EXCEPT !.how = "meta"]
                     ELSE Answered(answer[r], b)
<1>1. Shape /\ AtOnePlace /\ Begun
  BY DEF Invariant
<1>2. /\ spc = "handle" /\ ev.type = "request" /\ spc' = "wait"
      /\ answer' = [answer EXCEPT ![r] = a] /\ incr' = WithIncr(r, a)
      /\ UNCHANGED <<inSel, xowner, xq, delayed, ev, pos>>
  BY DEF AnswerRequest, Handles, xserver
<1>3. r \in Requests
  BY <1>1, <1>2 DEF Shape, Answerable
<1>4. "how" \in DOMAIN a /\ a.how # "pending"
  <2>1. "how" \in DOMAIN answer[r]
    BY <1>1, <1>3 DEF Shape
  <2>2. LET x == [answer[r] EXCEPT !.how = "meta"]
        IN  "how" \in DOMAIN x /\ x.how = "meta"
    BY <2>1
  <2>3. CASE ~b.owner \/ Older(r)
    BY <2>1, <2>3, AnswerForms
  <2>4. CASE ~(~b.owner \/ Older(r)) /\ answer[r].target = "meta"
    BY <2>2, <2>4
  <2>5. CASE ~(~b.owner \/ Older(r)) /\ answer[r].target # "meta"
    <3>1. a = Answered(answer[r], b)
      BY <2>5
    <3>2. /\ "how" \in DOMAIN Answered(answer[r], b)
          /\ Answered(answer[r], b).how \in {"refused", "data", "incr"}
      BY <2>1, AnswerForms
    <3> HIDE DEF a, b
    <3>3. QED
      BY <3>1, <3>2
  <2>6. QED
    BY <2>3, <2>4, <2>5
<1> HIDE DEF a, b
<1>5. Handled(r) /\ answer[r].how = "pending" /\ ~Arrives(r) /\ ~Waits(r)
  <2>1. Handled(r)
    BY <1>2 DEF Handled, Asked
  <2>2. QED
    BY <1>1, <1>3, <2>1 DEF AtOnePlace
<1>6. /\ DOMAIN answer' = Requests
      /\ \A q \in Requests : "how" \in DOMAIN answer'[q]
      /\ \A q \in Requests : answer'[q].how = IF q = r THEN a.how ELSE answer[q].how
  BY <1>1, <1>2, <1>3, <1>4, AnswerOfOne
<1>7. Sequence(incr') /\ Begun'
  <2>1. Begins(r, a)
    BY <1>2, WithIncrBegins
  <2>2. QED
    BY <1>1, <1>2, <1>3, <1>4, <1>5, <2>1, BegunAfterAnswer
<1>8. Shape'
  BY <1>1, <1>2, <1>6, <1>7 DEF Shape, Answerable
<1>9. ASSUME NEW q \in Requests
      PROVE  /\ Arrives(q)' <=> Arrives(q)
             /\ ~Handled(q)' /\ (Handled(q) => q = r)
             /\ Waits(q)' <=> Waits(q)
  BY <1>2 DEF Arrives, Handled, Waits, Asked
<1>10. AtOnePlace'
  <2>1. ASSUME NEW q \in Requests
        PROVE  /\ ~(Arrives(q)' /\ Handled(q)') /\ ~(Arrives(q)' /\ Waits(q)')
               /\ ~(Handled(q)' /\ Waits(q)')
               /\ answer'[q].how = "pending"
                    <=> Arrives(q)' \/ Handled(q)' \/ Waits(q)'
    <3>1. CASE q = r
      BY <1>4, <1>5, <1>6, <1>9, <3>1
    <3>2. CASE q # r
      BY <1>1, <1>6, <1>9, <3>2 DEF AtOnePlace
    <3>3. QED
      BY <3>1, <3>2
  <2>2. /\ \A i, j \in 1 .. Len(xq') :
             \A q \in Requests : Asked(xq'[i], q) /\ Asked(xq'[j], q) => i = j
        /\ \A i, j \in 1 .. Len(delayed') : delayed'[i] = delayed'[j] => i = j
    BY <1>1, <1>2 DEF AtOnePlace
  <2>3. QED
    BY <2>1, <2>2 DEF AtOnePlace
<1>11. QED
  BY <1>7, <1>8, <1>10 DEF Invariant

(* The request in hand is delayed.                                         *)
LEMMA DelayKeeps ==
  ASSUME Invariant, DelayRequest
  PROVE  Invariant'
<1>0. PICK r : r = ev.arg
  OBVIOUS
<1> DEFINE b == [inSel[ev.sel] EXCEPT
                   !.state = IF @ = "NOTIFIED" THEN "REQUESTED" ELSE @]
<1>1. Shape /\ AtOnePlace /\ Begun
  BY DEF Invariant
<1>2. /\ spc = "handle" /\ ev.type = "request" /\ spc' = "wait"
      /\ delayed' = Append(delayed, r)
      /\ UNCHANGED <<xowner, xq, incr, answer, ev, pos>>
      /\ inSel' = [inSel EXCEPT ![ev.sel] = b]
  BY <1>0 DEF DelayRequest, Handles, xserver
<1>3. r \in Requests
  BY <1>0, <1>1, <1>2 DEF Shape, Answerable
<1>4. /\ DOMAIN inSel' = Selections
      /\ \A s \in Selections : "owner" \in DOMAIN inSel'[s]
  <2>1. ev.sel \in Selections => "owner" \in DOMAIN b
    BY <1>1 DEF Shape
  <2> HIDE DEF b
  <2>2. QED
    BY <1>1, <1>2, <2>1 DEF Shape
<1> HIDE DEF b
<1>5. /\ delayed' \in Seq(Requests) /\ Len(delayed) \in Nat
      /\ Len(delayed') = Len(delayed) + 1
      /\ \A i \in 1 .. Len(delayed) : delayed'[i] = delayed[i]
      /\ delayed'[Len(delayed) + 1] = r
  BY <1>1, <1>2, <1>3, AppendProperties, LenProperties DEF Shape
<1>6. Handled(r) /\ ~Arrives(r) /\ ~Waits(r)
  <2>1. Handled(r)
    BY <1>0, <1>2 DEF Handled, Asked
  <2>2. QED
    BY <1>1, <1>3, <2>1 DEF AtOnePlace
<1>7. Shape'
  BY <1>1, <1>2, <1>4, <1>5 DEF Shape, Answerable
<1>8. \A i \in 1 .. Len(delayed') :
        \/ i \in 1 .. Len(delayed) /\ delayed'[i] = delayed[i]
        \/ i = Len(delayed) + 1 /\ delayed'[i] = r
  <2>1. \A i \in 1 .. Len(delayed') : i \in 1 .. Len(delayed) \/ i = Len(delayed) + 1
    BY <1>5
  <2>2. QED
    BY <1>5, <2>1
<1>9. ASSUME NEW q \in Requests
      PROVE  /\ Arrives(q)' <=> Arrives(q)
             /\ ~Handled(q)' /\ (Handled(q) <=> q = r)
             /\ Waits(q)' <=> Waits(q) \/ q = r
  <2>1. (Arrives(q)' <=> Arrives(q)) /\ ~Handled(q)' /\ (Handled(q) <=> q = r)
    BY <1>0, <1>2 DEF Arrives, Handled, Asked
  <2>2. Waits(q)' => Waits(q) \/ q = r
    BY <1>8 DEF Waits
  <2>3. Waits(q) => Waits(q)'
    BY <1>5 DEF Waits
  <2>4. Waits(r)'
    <3>1. Len(delayed) + 1 \in 1 .. Len(delayed')
      BY <1>5
    <3>2. QED
      BY <1>5, <3>1 DEF Waits
  <2>5. QED
    BY <2>1, <2>2, <2>3, <2>4
<1>10. AtOnePlace'
  <2>1. ASSUME NEW i \in 1 .. Len(delayed'), NEW j \in 1 .. Len(delayed'),
               delayed'[i] = delayed'[j]
        PROVE  i = j
    <3>1. \A k \in 1 .. Len(delayed) : delayed[k] # r
      BY <1>6 DEF Waits
    <3>2. CASE delayed'[i] = r
      BY <1>8, <2>1, <3>1, <3>2
    <3>3. CASE delayed'[i] # r
      <4>1. /\ i \in 1 .. Len(delayed) /\ j \in 1 .. Len(delayed)
            /\ delayed[i] = delayed[j]
        BY <1>8, <2>1, <3>3
      <4>2. QED
        BY <1>1, <4>1 DEF AtOnePlace
    <3>4. QED
      BY <3>2, <3>3
  <2>2. \A i, j \in 1 .. Len(xq') :
          \A q \in Requests : Asked(xq'[i], q) /\ Asked(xq'[j], q) => i = j
    BY <1>1, <1>2 DEF AtOnePlace
  <2>3. ASSUME NEW q \in Requests
        PROVE  /\ ~(Arrives(q)' /\ Handled(q)') /\ ~(Arrives(q)' /\ Waits(q)')
               /\ ~(Handled(q)' /\ Waits(q)')
               /\ answer'[q].how = "pending"
                    <=> Arrives(q)' \/ Handled(q)' \/ Waits(q)'
    BY <1>1, <1>2, <1>6, <1>9 DEF AtOnePlace
  <2>4. QED
    BY <2>1, <2>2, <2>3 DEF AtOnePlace
<1>11. Begun'
  BY <1>1, <1>2 DEF Begun
<1>12. QED
  BY <1>7, <1>10, <1>11 DEF Invariant

(* A transaction goes on, or ends.                                         *)
LEMMA PortionKeeps ==
  ASSUME Invariant, NextPortion
  PROVE  Invariant'
<1>0. PICK r : r = ev.arg
  OBVIOUS
<1>1. Shape /\ AtOnePlace /\ Begun /\ Sequence(incr) /\ Len(incr) \in Nat
      /\ DOMAIN incr = 1 .. Len(incr)
  BY DelayedParts, SequenceParts DEF Invariant, Shape
<1>2. /\ ev.type = "deleted" /\ spc' = "wait"
      /\ UNCHANGED <<inSel, xowner, xq, delayed, ev, pos>>
  BY DEF NextPortion, Handles, xserver
<1>3. PICK S : incr \in Seq(S)
  BY <1>1 DEF Sequence
(* Whatever becomes of the answer to r, it is not pending.                 *)
<1>4. ASSUME NEW i \in 1 .. Len(incr), incr[i].req = r,
             NEW a, answer' = [answer EXCEPT ![r] = a],
             r \in Requests => "how" \in DOMAIN a /\ a.how \in {"incr", "data"},
             Sequence(incr'),
             \A j \in 1 .. Len(incr') :
               \E k \in 1 .. Len(incr) : incr'[j].req = incr[k].req
      PROVE  Invariant'
  <2>1. r \in Requests => answer[r].how \in {"incr", "data"}
    BY <1>1, <1>4 DEF Begun
  <2>2. /\ DOMAIN answer' = Requests
        /\ \A q \in Requests : answer'[q] = IF q = r THEN a ELSE answer[q]
    BY <1>1, <1>4 DEF Shape
  <2>3. SamePlaces
    <3>1. Grown /\ SameSelections /\ pos' \in Nat \ {0}
      BY <1>1, <1>2, GrownNot, SameParts DEF Shape
    <3>2. \A q \in Requests :
            /\ "how" \in DOMAIN answer'[q]
            /\ answer'[q].how = "pending" <=> answer[q].how = "pending"
      BY <1>1, <1>4, <2>1, <2>2 DEF Shape
    <3>3. QED
      BY <1>2, <2>2, <3>1, <3>2 DEF SamePlaces
  <2>4. Begun'
    <3>1. ASSUME NEW j \in 1 .. Len(incr'), incr'[j].req \in Requests
          PROVE  answer'[incr'[j].req].how \in {"incr", "data"}
      <4>1. PICK k \in 1 .. Len(incr) : incr'[j].req = incr[k].req
        BY <1>4
      <4>2. answer[incr[k].req].how \in {"incr", "data"}
        BY <1>1, <3>1, <4>1 DEF Begun
      <4>3. QED
        BY <1>4, <2>2, <3>1, <4>1, <4>2
    <3>2. QED
      BY <3>1 DEF Begun
  <2>5. QED
    BY <1>4, <2>3, <2>4, PlacesKept DEF Invariant
<1>5. ASSUME NEW i \in 1 .. Len(incr), incr[i].req = r,
             incr' = [incr EXCEPT ![i].sent = @ + Portion(incr[i])],
             answer' = [answer EXCEPT ![r].unread = TRUE]
      PROVE  Invariant'
  <2> DEFINE tr == [incr[i] EXCEPT !.sent = @ + Portion(incr[i])]
             a == [answer[r] EXCEPT !.unread = TRUE]
  <2>1. incr' = [incr EXCEPT ![i] = tr] /\ answer' = [answer EXCEPT ![r] = a]
    BY <1>5
  <2>2. tr.req = incr[i].req
    OBVIOUS
  <2>3. r \in Requests => "how" \in DOMAIN a /\ a.how \in {"incr", "data"}
    <3> SUFFICES ASSUME r \in Requests
                 PROVE  "how" \in DOMAIN a /\ a.how \in {"incr", "data"}
      OBVIOUS
    <3>1. answer[r].how \in {"incr", "data"}
      BY <1>1, <1>5 DEF Begun
    <3>2. "how" \in DOMAIN answer[r]
      BY <1>1 DEF Shape
    <3>3. QED
      BY <3>1, <3>2
  <2> HIDE DEF tr, a
  <2>4. incr' \in [1 .. Len(incr) -> S \cup {tr}]
    <3>1. incr \in [1 .. Len(incr) -> S]
      BY <1>3, LenProperties
    <3>2. QED
      BY <2>1, <3>1
  <2>5. incr' \in Seq(S \cup {tr})
    BY <1>1, <2>4, SeqDef
  <2>6. Len(incr') = Len(incr) /\ Sequence(incr')
    BY <1>1, <2>4, <2>5, LenProperties DEF Sequence
  <2>7. ASSUME NEW j \in 1 .. Len(incr')
        PROVE  \E k \in 1 .. Len(incr) : incr'[j].req = incr[k].req
    <3>1. j \in DOMAIN incr /\ incr'[j].req = incr[j].req
      BY <1>1, <2>1, <2>2, <2>6
    <3>2. QED
      BY <1>1, <3>1
  <2>8. QED
    BY <1>4, <1>5, <2>1, <2>3, <2>6, <2>7
<1>6. ASSUME NEW i \in 1 .. Len(incr), incr[i].req = r,
             incr' = Without(incr, i),
             answer' = [answer EXCEPT ![r].how = "data"]
      PROVE  Invariant'
  <2> DEFINE a == [answer[r] EXCEPT !.how = "data"]
  <2>1. answer' = [answer EXCEPT ![r] = a]
    BY <1>6
  <2>2. r \in Requests => "how" \in DOMAIN a /\ a.how \in {"incr", "data"}
    BY <1>1 DEF Shape
  <2> HIDE DEF a
  <2>3. /\ incr' \in Seq(S) /\ Len(incr') = Len(incr) - 1
        /\ \A j \in 1 .. Len(incr) - 1 :
             incr'[j] = IF j < i THEN incr[j] ELSE incr[j + 1]
    BY <1>3, <1>6, WithoutOne
  <2>4. ASSUME NEW j \in 1 .. Len(incr')
        PROVE  \E k \in 1 .. Len(incr) : incr'[j].req = incr[k].req
    <3>1. j \in 1 .. Len(incr) /\ j + 1 \in 1 .. Len(incr)
      BY <1>1, <2>3
    <3>2. incr'[j] = incr[j] \/ incr'[j] = incr[j + 1]
      BY <2>3
    <3>3. QED
      BY <3>1, <3>2
  <2>5. Sequence(incr')
    BY <2>3 DEF Sequence
  <2>6. QED
    BY <1>4, <1>6, <2>1, <2>2, <2>4, <2>5
<1>7. \E i \in 1 .. Len(incr) :
        /\ incr[i].req = r
        /\ \/ /\ incr' = [incr EXCEPT ![i].sent = @ + Portion(incr[i])]
              /\ answer' = [answer EXCEPT ![r].unread = TRUE]
           \/ /\ incr' = Without(incr, i)
              /\ answer' = [answer EXCEPT ![r].how = "data"]
  BY <1>0, <1>1 DEF NextPortion, Without
<1>8. QED
  BY <1>5, <1>6, <1>7

-----------------------------------------------------------------------------
(* The invariant of requests holds always.                                 *)

LEMMA InitInvariant == Init => Invariant
<1> SUFFICES ASSUME Init PROVE Invariant
  OBVIOUS
<1>1. xq = <<>> /\ incr = <<>> /\ delayed = <<>> /\ spc = "wait" /\ pos = 1
      /\ ev = Event("none", None, None)
  BY DEF Init
<1>2. /\ DOMAIN answer = Requests
      /\ \A r \in Requests : "how" \in DOMAIN answer[r] /\ answer[r].how = "none"
  BY DEF Init, Unasked
<1>3. /\ DOMAIN inSel = Selections /\ DOMAIN xowner = Selections
      /\ \A s \in Selections : "owner" \in DOMAIN inSel[s]
  BY DEF Init, Empty
<1>4. Sequence(<<>>) /\ <<>> \in Seq(Requests) /\ Len(<<>>) = 0
  <2>1. <<>> \in Seq({})
    OBVIOUS
  <2>2. QED
    BY <2>1 DEF Sequence
<1>5. ev.type # "request"
  BY <1>1 DEF Event
<1>6. Shape
  BY <1>1, <1>2, <1>3, <1>4, <1>5 DEF Shape, Answerable
<1>7. AtOnePlace
  BY <1>1, <1>2, <1>4 DEF AtOnePlace, Arrives, Handled, Waits
<1>8. Begun
  BY <1>1, <1>4 DEF Begun
<1>9. QED
  BY <1>6, <1>7, <1>8 DEF Invariant

LEMMA NextInvariant == Invariant /\ [Next]_vars => Invariant'
<1> SUFFICES ASSUME Invariant, [Next]_vars PROVE Invariant'
  OBVIOUS
<1>1. Shape
  BY DEF Invariant
<1>2. CASE MainThread
  <2>1. CASE ReadNotify
    BY <1>1, <2>1, ReadNotifyStep, ElsewhereKeeps
  <2>2. CASE ReadChunk
    BY <1>1, <2>2, ReadChunkStep, ElsewhereKeeps
  <2>3. CASE ReadRest
    BY <1>1, <2>3, ClientStep, ElsewhereKeeps
  <2>4. CASE ReadDemand
    BY <1>1, <2>4, OneEventStep, ElsewhereKeeps
  <2>5. QED
    BY <1>2, <2>1, <2>2, <2>3, <2>4 DEF MainThread
<1>3. CASE SelectionThread
  <2>1. CASE Wake
    BY <2>1, WakeKeeps
  <2>2. CASE ScanDelayed \/ PruneDelayed
    BY <2>2, WalkKeeps
  <2>3. CASE ScanDone \/ PruneDone
    BY <1>1, <2>3, WalkStep, ElsewhereKeeps
  <2>4. CASE AnswerRequest
    BY <2>4, AnswerKeeps
  <2>5. CASE DelayRequest
    BY <2>5, DelayKeeps
  <2>6. CASE NextPortion
    BY <2>6, PortionKeeps
  <2>7. CASE \/ DataReady \/ OwnerChanged \/ DataDemanded \/ ConversionDone
             \/ PropertyChanged
    BY <1>1, <2>7, OtherEventStep, ElsewhereKeeps
  <2>8. QED
    BY <1>3, <2>1, <2>2, <2>3, <2>4, <2>5, <2>6, <2>7 DEF SelectionThread
<1>4. CASE SendingThread
  BY <1>1, <1>4, ClientStep, ElsewhereKeeps DEF SendingThread
<1>5. CASE Environment
  <2>1. CASE Tick \/ ClientReads \/ ClientLeaves \/ ClientArrives
    BY <1>1, <2>1, ClientStep, ElsewhereKeeps
  <2>2. ASSUME NEW s \in Selections, NEW k \in ClientKinds, ClientCopies(s, k)
        PROVE  Invariant'
    BY <1>1, <2>2, ClientStep, ElsewhereKeeps
  <2>3. ASSUME NEW s \in Selections, NEW k \in AppKinds, AppCopies(s, k)
        PROVE  Invariant'
    BY <1>1, <2>3, OneEventStep, ElsewhereKeeps
  <2>4. ASSUME NEW s \in Selections, ClientDemands(s) PROVE Invariant'
    BY <1>1, <2>4, ClientStep, ElsewhereKeeps
  <2>5. ASSUME NEW s \in Selections, AppConverts(s) \/ AppPortion(s)
        PROVE  Invariant'
    BY <1>1, <2>5, AppsElsewhere, ElsewhereKeeps
  <2>6. ASSUME NEW s \in Selections, NEW r \in Requests,
               NEW target \in ClientKinds \cup {"meta"}, NEW t \in {0, clock},
               AppPastes(r, s, target, t)
        PROVE  Invariant'
    BY <2>6, PasteKeeps
  <2>7. ASSUME NEW r \in Requests, AppDeletes(r) PROVE Invariant'
    BY <1>1, <2>7, OneEventStep, ElsewhereKeeps
  <2>8. QED
    BY <1>5, <2>1, <2>2, <2>3, <2>4, <2>5, <2>6, <2>7 DEF Environment
<1>6. CASE UNCHANGED vars
  <2>1. UNCHANGED <<inSel, xowner, xq, answer, delayed, incr, pos, spc, ev>>
    BY <1>6 DEF vars, incoming, thread, xserver
  <2>2. Elsewhere
    BY <1>1, <2>1, GrownNot, SameParts DEF Elsewhere, Shape
  <2>3. QED
    BY <2>2, ElsewhereKeeps
<1>7. QED
  BY <1>2, <1>3, <1>4, <1>5, <1>6 DEF Next

(* Requests are where they should be, whatever the main thread, the        *)
(* selection thread, the sending thread and the environment do.            *)
THEOREM InvariantCorrect == Spec => []Invariant
BY InitInvariant, NextInvariant, PTL DEF Spec

(* One place, counted.                                                     *)
LEMMA PlacesAreOne == Invariant => OneAnswer
<1> SUFFICES ASSUME Invariant, NEW r \in Requests
             PROVE  LET D == {i \in DOMAIN delayed : delayed[i] = r}
                        E == {e \in Pending("request") : e.arg = r}
                    IN  Cardinality(D) + Cardinality(E)
                          = IF answer[r].how = "pending" THEN 1 ELSE 0
  BY DEF OneAnswer
<1> DEFINE D == {i \in DOMAIN delayed : delayed[i] = r}
           E == {e \in Pending("request") : e.arg = r}
<1>1. Shape /\ AtOnePlace
  BY DEF Invariant
<1>2. DOMAIN delayed = 1 .. Len(delayed) /\ DOMAIN xq = 1 .. Len(xq)
  BY <1>1, LenProperties, SequenceParts DEF Shape
<1>3. /\ Waits(r) => \E i : D = {i}
      /\ ~Waits(r) => D = {}
  <2>1. ASSUME Waits(r) PROVE \E i : D = {i}
    <3>1. PICK i \in 1 .. Len(delayed) : delayed[i] = r
      BY <2>1 DEF Waits
    <3>2. \A j \in D : j = i
      BY <1>1, <1>2, <3>1 DEF AtOnePlace
    <3>3. D = {i}
      BY <1>2, <3>1, <3>2
    <3>4. QED
      BY <3>3
  <2>2. QED
    BY <1>2, <2>1 DEF Waits
<1>4. \A e : e \in E <=> \/ \E i \in 1 .. Len(xq) : e = xq[i] /\ Asked(xq[i], r)
                         \/ spc # "wait" /\ e = ev /\ Asked(ev, r)
  BY <1>2 DEF Pending, Asked
<1> HIDE DEF D, E
<1>5. /\ Arrives(r) \/ Handled(r) => \E e : E = {e}
      /\ ~Arrives(r) /\ ~Handled(r) => E = {}
  <2>1. ASSUME Arrives(r) PROVE \E e : E = {e}
    <3>1. PICK i \in 1 .. Len(xq) : Asked(xq[i], r)
      BY <2>1 DEF Arrives
    <3>2. ~Handled(r)
      BY <1>1, <2>1 DEF AtOnePlace
    <3>3. \A e \in E : e = xq[i]
      BY <1>1, <1>4, <3>1, <3>2 DEF AtOnePlace, Handled
    <3>4. xq[i] \in E
      BY <1>4, <3>1
    <3>5. E = {xq[i]}
      BY <3>3, <3>4
    <3>6. QED
      BY <3>5
  <2>2. ASSUME Handled(r) PROVE \E e : E = {e}
    <3>1. ~Arrives(r)
      BY <1>1, <2>2 DEF AtOnePlace
    <3>2. \A e : e \in E <=> e = ev
      BY <1>4, <2>2, <3>1 DEF Arrives, Handled
    <3>3. E = {ev}
      BY <3>2
    <3>4. QED
      BY <3>3
  <2>3. ASSUME ~Arrives(r), ~Handled(r) PROVE E = {}
    BY <1>4, <2>3 DEF Arrives, Handled
  <2>4. QED
    BY <2>1, <2>2, <2>3
<1>6. \A x : Cardinality({x}) = 1
  BY FS_Singleton
<1>7. Cardinality(D) = IF Waits(r) THEN 1 ELSE 0
  BY <1>3, <1>6, FS_EmptySet
<1>8. Cardinality(E) = IF Arrives(r) \/ Handled(r) THEN 1 ELSE 0
  BY <1>5, <1>6, FS_EmptySet
<1>9. Cardinality(D) + Cardinality(E) = IF answer[r].how = "pending" THEN 1 ELSE 0
  BY <1>1, <1>7, <1>8 DEF AtOnePlace
<1>10. QED
  BY <1>9 DEF D, E

(* Each request of an application that pastes is at one place until it is  *)
(* answered, and at none once it is (process_selection_request,            *)
(* process_delayed_requests, remove_obsolete_incr_transactions): none is   *)
(* forgotten and none answered twice, whatever the delays, the sizes and   *)
(* the number of requests.                                                 *)
THEOREM AnswersCorrect == Spec => []OneAnswer
BY InvariantCorrect, PlacesAreOne, PTL

-----------------------------------------------------------------------------
(* A loss is told.                                                         *)

Tells(e, s) == e.type = "owner" /\ e.sel = s /\ e.arg = "app"

Told(s) ==
  \/ \E i \in 1 .. Len(xq) : Tells(xq[i], s)
  \/ spc # "wait" /\ Tells(ev, s)

Lost(s) == inSel[s].owner /\ xowner[s] # "us"

LossesTold == ServerMayOwn => \A s \in Selections : Lost(s) => Told(s)

(* The events that were in the queue, or in hand, still are.               *)
Longer ==
  /\ Len(xq) \in Nat /\ Len(xq') \in Nat /\ Len(xq) <= Len(xq')
  /\ \A i \in 1 .. Len(xq) : xq'[i] = xq[i]

NotDropped == ev' = ev /\ (spc # "wait" /\ ev.type = "owner" => spc' # "wait")

LEMMA LossesKept ==
  ASSUME LossesTold, Longer, NotDropped,
         \A s \in Selections : Lost(s)' => Lost(s) \/ Told(s)'
  PROVE  LossesTold'
<1>1. ASSUME NEW s \in Selections, Told(s) PROVE Told(s)'
  <2>1. CASE \E i \in 1 .. Len(xq) : Tells(xq[i], s)
    BY <2>1 DEF Longer, Told
  <2>2. CASE spc # "wait" /\ Tells(ev, s)
    BY <2>2 DEF NotDropped, Told, Tells
  <2>3. QED
    BY <1>1, <2>1, <2>2 DEF Told
<1>2. QED
  BY <1>1 DEF LossesTold

LEMMA GrownIsLonger == ASSUME Shape, Grown PROVE Longer
BY DelayedParts DEF Grown, Longer

LEMMA SameLosses ==
  ASSUME UNCHANGED <<inSel, xowner>>
  PROVE  \A s \in Selections : Lost(s)' => Lost(s)
BY DEF Lost

(* Only the selection with a new buffer may have another owner, and the    *)
(* flag is set together with the owner.                                    *)
LEMMA OwnedLosses ==
  ASSUME Shape, NEW s, NEW b,
         s \in Selections => "owner" \in DOMAIN b /\ b.owner = inSel[s].owner,
         \/ inSel' = [inSel EXCEPT ![s] = b] /\ UNCHANGED xowner
         \/ inSel' = [inSel EXCEPT ![s] = Owned(b)] /\ OwnsNow(s)
  PROVE  \A q \in Selections : Lost(q)' => Lost(q)
<1>1. CASE inSel' = [inSel EXCEPT ![s] = b] /\ UNCHANGED xowner
  BY <1>1 DEF Lost, Shape
<1>2. CASE inSel' = [inSel EXCEPT ![s] = Owned(b)] /\ OwnsNow(s)
  <2>1. CASE ClientMayOwn
    BY <1>2, <2>1 DEF Lost, Shape, OwnsNow
  <2>2. CASE ~ClientMayOwn
    BY <1>2, <2>2 DEF Lost, Shape, OwnsNow, Owned
  <2>3. QED
    BY <2>1, <2>2
<1>3. QED
  BY <1>1, <1>2

LEMMA BufferOwner ==
  ASSUME NEW b, "owner" \in DOMAIN b, NEW m
  PROVE  /\ Announced(b).owner = b.owner /\ Started(b, m).owner = b.owner
BY DEF Announced, Started

LEMMA NotifyLosses ==
  ASSUME Shape, ReadNotify
  PROVE  \A s \in Selections : Lost(s)' => Lost(s)
<1> DEFINE m == Head(toServer)
           s == m.sel
           b == [Announced(inSel[s]) EXCEPT !.copy.kind = m.copy.kind]
<1>1. inSel' = [inSel EXCEPT ![s] = Owned(b)] /\ OwnsNow(s)
  BY DEF ReadNotify
<1>2. s \in Selections => "owner" \in DOMAIN b /\ b.owner = inSel[s].owner
  <2> SUFFICES ASSUME s \in Selections
               PROVE  "owner" \in DOMAIN b /\ b.owner = inSel[s].owner
    OBVIOUS
  <2>1. "owner" \in DOMAIN inSel[s]
    BY DEF Shape
  <2>2. /\ "owner" \in DOMAIN Announced(inSel[s])
        /\ Announced(inSel[s]).owner = inSel[s].owner
    BY <2>1, BufferFields, BufferOwner
  <2>3. QED
    BY <2>2
<1> HIDE DEF b, s
<1>3. QED
  BY <1>1, <1>2, OwnedLosses

LEMMA ChunkLosses ==
  ASSUME Shape, ReadChunk
  PROVE  \A s \in Selections : Lost(s)' => Lost(s)
<1> DEFINE m == Head(toServer)
           s == m.sel
           b == [Started(inSel[s], m) EXCEPT !.ready = @ + AtMost(m.size, EventUnits)]
           c == [(IF OwnNow(b) THEN Owned(b) ELSE b) EXCEPT !.state = "COMPLETED"]
           d == [b EXCEPT !.state = "COMPLETED"]
<1>1. \/ inSel' = [inSel EXCEPT ![s] = b] /\ UNCHANGED xowner
      \/ /\ inSel' = [inSel EXCEPT ![s] = c]
         /\ IF OwnNow(b) THEN OwnsNow(s) ELSE UNCHANGED xowner
  BY DEF ReadChunk
<1>2. s \in Selections => "owner" \in DOMAIN b /\ b.owner = inSel[s].owner
  <2> SUFFICES ASSUME s \in Selections
               PROVE  "owner" \in DOMAIN b /\ b.owner = inSel[s].owner
    OBVIOUS
  <2>1. "owner" \in DOMAIN inSel[s]
    BY DEF Shape
  <2>2. /\ "owner" \in DOMAIN Started(inSel[s], m)
        /\ Started(inSel[s], m).owner = inSel[s].owner
    BY <2>1, BufferFields, BufferOwner
  <2>3. QED
    BY <2>2
<1> HIDE DEF b, s
<1>3. s \in Selections =>
        /\ "owner" \in DOMAIN d /\ d.owner = inSel[s].owner
        /\ "owner" \in DOMAIN c
  <2> SUFFICES ASSUME s \in Selections
               PROVE  /\ "owner" \in DOMAIN d /\ d.owner = inSel[s].owner
                      /\ "owner" \in DOMAIN c
    OBVIOUS
  <2>1. "owner" \in DOMAIN d /\ d.owner = inSel[s].owner
    BY <1>2
  <2>2. "owner" \in DOMAIN (IF OwnNow(b) THEN Owned(b) ELSE b)
    BY <1>2, BufferFields
  <2>3. QED
    BY <2>1, <2>2
<1>4. ~OwnNow(b) => c = d
  OBVIOUS
<1> HIDE DEF c, d
<1>5. CASE inSel' = [inSel EXCEPT ![s] = b] /\ UNCHANGED xowner
  BY <1>2, <1>5, OwnedLosses
<1>6. CASE inSel' = [inSel EXCEPT ![s] = c] /\ ~OwnNow(b) /\ UNCHANGED xowner
  BY <1>3, <1>4, <1>6, OwnedLosses
<1>7. CASE inSel' = [inSel EXCEPT ![s] = c] /\ OwnNow(b) /\ OwnsNow(s)
  <2>1. CASE ClientMayOwn
    BY <1>7, <2>1 DEF Lost, Shape, OwnsNow
  <2>2. CASE ~ClientMayOwn
    <3>1. c = d /\ UNCHANGED xowner
      BY <1>7, <2>2 DEF c, d, Owned, OwnsNow
    <3>2. QED
      BY <1>3, <1>7, <3>1, OwnedLosses
  <2>3. QED
    BY <2>1, <2>2
<1>8. QED
  BY <1>1, <1>5, <1>6, <1>7

LEMMA CopyLosses ==
  ASSUME Shape, NEW s \in Selections, NEW k, AppCopies(s, k)
  PROVE  \A q \in Selections : Lost(q)' => Lost(q) \/ Told(q)'
<1> DEFINE e == Event("owner", s, "app")
<1>1. xowner' = [xowner EXCEPT ![s] = "app"] /\ xq' = Append(xq, e)
      /\ UNCHANGED inSel
  BY DEF AppCopies, incoming
<1>2. Tells(e, s)
  BY DEF Tells, Event
<1> HIDE DEF e
<1>3. Sequence(xq) /\ Len(xq) \in Nat
  BY DelayedParts DEF Shape
<1>4. Len(xq') = Len(xq) + 1 /\ xq'[Len(xq) + 1] = e
  BY <1>1, <1>3, AppendAny
<1>5. Told(s)'
  <2>1. Len(xq) + 1 \in 1 .. Len(xq')
    BY <1>3, <1>4
  <2>2. QED
    BY <1>2, <1>4, <2>1 DEF Told
<1>6. \A q \in Selections : q # s /\ Lost(q)' => Lost(q)
  BY <1>1 DEF Lost, Shape
<1>7. QED
  BY <1>5, <1>6

LEMMA OwnerLosses ==
  ASSUME Invariant, LossesTold, OwnerChanged
  PROVE  LossesTold'
<1>1. Shape
  BY DEF Invariant
<1>2. Longer
  BY <1>1, OtherEventStep, GrownIsLonger DEF Elsewhere
<1>3. spc = "handle" /\ ev.type = "owner" /\ ev' = ev /\ UNCHANGED xowner
  BY DEF OwnerChanged, Handles
<1>4. \/ (ev.arg = "us" \/ ~ServerMayOwn) /\ UNCHANGED inSel
      \/ inSel' = [inSel EXCEPT ![ev.sel] = Disowned(@)]
  BY DEF OwnerChanged
<1>5. \A s \in Selections : ~Disowned(inSel[s]).owner
  BY BufferFields, <1>1 DEF Shape
<1>6. ASSUME ServerMayOwn, NEW s \in Selections, Lost(s)' PROVE Told(s)'
  <2>1. Lost(s)
    BY <1>1, <1>3, <1>4, <1>5, <1>6 DEF Lost, Shape
  <2>2. Told(s)
    BY <1>6, <2>1 DEF LossesTold
  <2>3. ~Tells(ev, s)
    BY <1>1, <1>3, <1>4, <1>5, <1>6 DEF Tells, Lost, Shape
  <2>4. \E i \in 1 .. Len(xq) : Tells(xq[i], s)
    BY <2>2, <2>3 DEF Told
  <2>5. QED
    BY <1>2, <2>4 DEF Told, Longer
<1>7. QED
  BY <1>6 DEF LossesTold

LEMMA WakeLosses ==
  ASSUME Invariant, LossesTold, Wake
  PROVE  LossesTold'
<1>1. /\ spc = "wait" /\ xq # <<>> /\ ev' = Head(xq) /\ xq' = Tail(xq)
      /\ spc' = "scan" /\ UNCHANGED <<inSel, xowner>>
  BY DEF Wake, incoming, xserver
<1>2. Sequence(xq) /\ Len(xq) \in Nat
  BY DelayedParts DEF Invariant, Shape
<1>3. /\ ev' = xq[1] /\ Len(xq') = Len(xq) - 1
      /\ \A i \in 1 .. Len(xq') : xq'[i] = xq[i + 1]
  BY <1>1, <1>2, TailAny
<1>4. ASSUME NEW s \in Selections, Told(s) PROVE Told(s)'
  <2>1. PICK i \in 1 .. Len(xq) : Tells(xq[i], s)
    BY <1>1, <1>4 DEF Told
  <2>2. CASE i = 1
    BY <1>1, <1>3, <2>1, <2>2 DEF Told
  <2>3. CASE i # 1
    <3>1. i - 1 \in 1 .. Len(xq') /\ (i - 1) + 1 = i
      BY <1>2, <1>3, <2>3
    <3>2. Tells(xq'[i - 1], s)
      BY <1>3, <2>1, <3>1
    <3>3. QED
      BY <3>1, <3>2 DEF Told
  <2>4. QED
    BY <2>2, <2>3
<1>5. QED
  BY <1>1, <1>4 DEF LossesTold, Lost

LEMMA PasteLosses ==
  ASSUME Invariant, NEW r, NEW s, NEW target, NEW t, AppPastes(r, s, target, t)
  PROVE  Longer
<1>1. xq' = Append(xq, Event("request", s, r))
  BY DEF AppPastes
<1>2. Sequence(xq) /\ Len(xq) \in Nat
  BY DelayedParts DEF Invariant, Shape
<1>3. QED
  BY <1>1, <1>2, AppendAny DEF Longer

LEMMA DelayLosses ==
  ASSUME Shape, DelayRequest
  PROVE  \A s \in Selections : Lost(s)' => Lost(s)
<1> DEFINE b == [inSel[ev.sel] EXCEPT
                   !.state = IF @ = "NOTIFIED" THEN "REQUESTED" ELSE @]
<1>1. inSel' = [inSel EXCEPT ![ev.sel] = b] /\ UNCHANGED xowner
  BY DEF DelayRequest, xserver
<1>2. ev.sel \in Selections => "owner" \in DOMAIN b /\ b.owner = inSel[ev.sel].owner
  BY DEF Shape
<1> HIDE DEF b
<1>3. QED
  BY <1>1, <1>2, OwnedLosses

LEMMA NextLosses ==
  Invariant /\ LossesTold /\ [Next]_vars => LossesTold'
<1> SUFFICES ASSUME Invariant, LossesTold, [Next]_vars PROVE LossesTold'
  OBVIOUS
<1>1. Shape
  BY DEF Invariant
(* The steps that leave buffers, owners and the thread's event alone.      *)
<1>2. ASSUME Grown, UNCHANGED <<inSel, xowner>>, NotDropped PROVE LossesTold'
  BY <1>1, <1>2, LossesKept, GrownIsLonger, SameLosses
<1>3. CASE MainThread
  <2>1. NotDropped
    BY <1>3 DEF MainThread, ReadNotify, ReadChunk, ReadRest, ReadDemand, thread,
                NotDropped
  <2>2. Longer
    BY <1>1, <1>3, ReadNotifyStep, ReadChunkStep, ClientStep, OneEventStep,
       GrownIsLonger DEF MainThread, Elsewhere
  <2>3. CASE ReadRest \/ ReadDemand
    <3>1. UNCHANGED <<inSel, xowner>>
      BY <2>3 DEF ReadRest, ReadDemand, incoming, xserver
    <3>2. QED
      BY <2>1, <2>2, <3>1, SameLosses, LossesKept
  <2>4. CASE ReadNotify \/ ReadChunk
    BY <1>1, <2>1, <2>2, <2>4, NotifyLosses, ChunkLosses, LossesKept
  <2>5. QED
    BY <1>3, <2>3, <2>4 DEF MainThread
<1>4. CASE SelectionThread
  <2>1. CASE Wake
    BY <2>1, WakeLosses
  <2>2. CASE OwnerChanged
    BY <2>2, OwnerLosses
  <2>3. CASE DelayRequest
    <3>1. NotDropped /\ Longer
      BY <2>3, <1>1, GrownNot, GrownIsLonger DEF DelayRequest, Handles, NotDropped
    <3>2. QED
      BY <1>1, <2>3, <3>1, DelayLosses, LossesKept
  <2>4. CASE ScanDelayed \/ ScanDone \/ PruneDelayed \/ PruneDone
    <3>1. UNCHANGED <<inSel, xowner, xq>> /\ NotDropped
      BY <2>4 DEF ScanDelayed, ScanDone, PruneDelayed, PruneDone, NotDropped,
                  incoming, xserver
    <3>2. QED
      BY <1>1, <1>2, <3>1, GrownNot
  <2>5. CASE AnswerRequest \/ NextPortion
    <3>1. UNCHANGED <<inSel, xowner, xq>> /\ NotDropped
      BY <2>5 DEF AnswerRequest, NextPortion, NotDropped, Handles, xserver
    <3>2. QED
      BY <1>1, <1>2, <3>1, GrownNot
  <2>6. CASE DataReady \/ DataDemanded \/ ConversionDone \/ PropertyChanged
    <3>1. UNCHANGED <<inSel, xowner>> /\ NotDropped
      BY <2>6 DEF DataReady, DataDemanded, ConversionDone, PropertyChanged,
                  NotDropped, Handles, incoming, xserver
    <3>2. Grown
      BY <1>1, <2>6, OtherEventStep DEF Elsewhere
    <3>3. QED
      BY <1>2, <3>1, <3>2
  <2>7. QED
    BY <1>4, <2>1, <2>2, <2>3, <2>4, <2>5, <2>6 DEF SelectionThread
<1>5. CASE SendingThread
  <2>1. UNCHANGED <<inSel, xowner, xq>> /\ NotDropped
    BY <1>5 DEF SendingThread, SendChunk, SendRequest, NotDropped, incoming,
                thread, xserver
  <2>2. QED
    BY <1>1, <1>2, <2>1, GrownNot
<1>6. CASE Environment
  <2>1. CASE \/ Tick \/ ClientReads \/ ClientLeaves \/ ClientArrives
             \/ \E s \in Selections :
                  (\E k \in ClientKinds : ClientCopies(s, k)) \/ ClientDemands(s)
    <3>1. UNCHANGED <<inSel, xowner, xq>> /\ NotDropped
      BY <2>1 DEF Tick, ClientReads, ClientLeaves, ClientArrives, ClientCopies,
                  ClientDemands, NotDropped, incoming, thread, xserver
    <3>2. QED
      BY <1>1, <1>2, <3>1, GrownNot
  <2>2. ASSUME NEW s \in Selections, NEW k \in AppKinds, AppCopies(s, k)
        PROVE  LossesTold'
    <3>1. NotDropped
      BY <2>2 DEF AppCopies, NotDropped, thread
    <3>2. Longer
      BY <1>1, <2>2, OneEventStep, GrownIsLonger DEF Elsewhere
    <3>3. QED
      BY <1>1, <2>2, <3>1, <3>2, CopyLosses, LossesKept
  <2>3. ASSUME NEW s \in Selections, AppConverts(s) \/ AppPortion(s)
        PROVE  LossesTold'
    <3>1. UNCHANGED <<inSel, xowner>> /\ NotDropped
      BY <2>3 DEF AppConverts, AppPortion, NotDropped, incoming, thread
    <3>2. QED
      BY <1>1, <1>2, <2>3, <3>1, AppStep
  <2>4. ASSUME NEW s \in Selections, NEW r \in Requests,
               NEW target \in ClientKinds \cup {"meta"}, NEW t \in {0, clock},
               AppPastes(r, s, target, t)
        PROVE  LossesTold'
    <3>1. UNCHANGED <<inSel, xowner>> /\ NotDropped
      BY <2>4 DEF AppPastes, NotDropped, incoming, thread, xserver
    <3>2. Longer
      BY <2>4, PasteLosses
    <3>3. QED
      BY <3>1, <3>2, SameLosses, LossesKept
  <2>5. ASSUME NEW r \in Requests, AppDeletes(r) PROVE LossesTold'
    <3>1. UNCHANGED <<inSel, xowner>> /\ NotDropped
      BY <2>5 DEF AppDeletes, NotDropped, incoming, thread, xserver
    <3>2. Grown
      BY <1>1, <2>5, OneEventStep DEF Elsewhere
    <3>3. QED
      BY <1>2, <3>1, <3>2
  <2>6. QED
    BY <1>6, <2>1, <2>2, <2>3, <2>4, <2>5 DEF Environment
<1>7. CASE UNCHANGED vars
  <2>1. UNCHANGED <<inSel, xowner, xq>> /\ NotDropped
    BY <1>7 DEF vars, NotDropped, incoming, thread, xserver
  <2>2. QED
    BY <1>1, <1>2, <2>1, GrownNot
<1>8. QED
  BY <1>3, <1>4, <1>5, <1>6, <1>7 DEF Next

(* Where the selections of the server are allowed, the selection thread    *)
(* takes a selection for its own that an application owns only until it    *)
(* has read an event (process_selection_owner_notify), whatever main       *)
(* thread, client and applications do meanwhile.                           *)
THEOREM LossCorrect == Spec => []LossIsTold
<1>1. Init => LossesTold
  <2> SUFFICES ASSUME Init, NEW s \in Selections PROVE ~inSel[s].owner
    BY DEF LossesTold, Lost
  <2>1. QED
    BY DEF Init, Empty
<1>2. Invariant /\ LossesTold => LossIsTold
  <2> SUFFICES ASSUME Invariant, LossesTold, ServerMayOwn, NEW s \in Selections,
                      Lost(s)
               PROVE  \E e \in Pending("owner") : e.sel = s /\ e.arg = "app"
    BY DEF LossIsTold, Lost
  <2>1. DOMAIN xq = 1 .. Len(xq)
    BY SequenceParts DEF Invariant, Shape
  <2>2. Told(s)
    BY DEF LossesTold
  <2>3. CASE \E i \in 1 .. Len(xq) : Tells(xq[i], s)
    BY <2>1, <2>3 DEF Tells, Pending
  <2>4. CASE spc # "wait" /\ Tells(ev, s)
    BY <2>4 DEF Tells, Pending
  <2>5. QED
    BY <2>2, <2>3, <2>4 DEF Told
<1>3. QED
  BY <1>1, <1>2, InvariantCorrect, NextLosses, PTL DEF Spec

-----------------------------------------------------------------------------
(* Division: into how many parts, and of which sizes, a copy is cut.       *)

LEMMA DivMod ==
  ASSUME NEW x \in Nat, NEW e \in Nat \ {0}
  PROVE  /\ x \div e \in Nat /\ x % e \in Nat
         /\ x = e * (x \div e) + (x % e)
         /\ x % e < e
<1>1. x % e \in 0 .. e - 1
  OBVIOUS
<1>2. x \div e \in Int
  OBVIOUS
<1>3. x = e * (x \div e) + (x % e)
  OBVIOUS
<1>4. x \div e >= 0
  OBVIOUS
<1> QED BY <1>1, <1>2, <1>3, <1>4

LEMMA Mono ==
  ASSUME NEW e \in Nat, NEW a \in Int, NEW b \in Int, a <= b
  PROVE  e * a \in Int /\ e * b \in Int /\ e * a <= e * b
OBVIOUS

LEMMA DivNext ==
  ASSUME NEW x \in Nat, NEW e \in Nat \ {0}
  PROVE  (x + 1) \div e = IF (x + 1) % e = 0 THEN x \div e + 1 ELSE x \div e
<1> DEFINE q == x \div e  r == x % e  p == (x + 1) \div e  t == (x + 1) % e
<1>1. q \in Nat /\ r \in Nat /\ x = e * q + r /\ r < e
  BY DivMod
<1>2. p \in Nat /\ t \in Nat /\ x + 1 = e * p + t /\ t < e
  BY DivMod
<1> HIDE DEF q, r, p, t
<1>3. ASSUME p >= q + 2 PROVE FALSE
  <2>1. e * (q + 2) <= e * p
    BY <1>1, <1>2, <1>3, Mono
  <2>2. e * (q + 2) = e * q + e + e
    BY <1>1
  <2> QED BY <1>1, <1>2, <2>1, <2>2
<1>4. ASSUME p <= q - 1 PROVE FALSE
  <2>1. e * p <= e * (q - 1)
    BY <1>1, <1>2, <1>4, Mono
  <2>2. e * (q - 1) = e * q - e
    BY <1>1
  <2> QED BY <1>1, <1>2, <2>1, <2>2
<1>5. p = q \/ p = q + 1
  BY <1>1, <1>2, <1>3, <1>4
<1>6. CASE p = q
  BY <1>1, <1>2, <1>6 DEF t, p, q
<1>7. CASE p = q + 1
  <2>1. e * p = e * q + e
    BY <1>1, <1>7
  <2> QED BY <1>1, <1>2, <1>7, <2>1 DEF t, p, q
<1> QED BY <1>5, <1>6, <1>7

LEMMA DivOrder ==
  ASSUME NEW x \in Nat, NEW y \in Nat, NEW e \in Nat \ {0}, x <= y
  PROVE  x \div e <= y \div e
<1> DEFINE p == x \div e  q == y \div e
<1>1. p \in Nat /\ q \in Nat /\ e * p <= x /\ y < e * q + e
  BY DivMod
<1> HIDE DEF p, q
<1>2. SUFFICES ASSUME p >= q + 1 PROVE FALSE
  BY <1>1 DEF p, q
<1>3. e * (q + 1) <= e * p
  BY <1>1, <1>2, Mono
<1>4. e * (q + 1) = e * q + e
  BY <1>1
<1> QED BY <1>1, <1>3, <1>4

LEMMA DivLess ==
  ASSUME NEW x \in Nat, NEW k \in Nat, NEW e \in Nat \ {0}
  PROVE  x \div e < k <=> x < e * k
<1> DEFINE p == x \div e
<1>1. p \in Nat /\ e * p <= x /\ x < e * p + e
  BY DivMod
<1> HIDE DEF p
<1>2. ASSUME p < k PROVE x < e * k
  <2>1. e * (p + 1) <= e * k
    BY <1>1, <1>2, Mono
  <2>2. e * (p + 1) = e * p + e
    BY <1>1
  <2> QED BY <1>1, <2>1, <2>2
<1>3. ASSUME ~(p < k) PROVE ~(x < e * k)
  <2>1. e * k <= e * p
    BY <1>1, <1>3, Mono
  <2> QED BY <1>1, <2>1
<1> QED BY <1>2, <1>3 DEF p

(* n units are cut into as few parts as can hold them.                     *)
LEMMA PartsHold ==
  ASSUME NEW n \in Nat \ {0}, NEW u \in Nat \ {0}
  PROVE  /\ Parts(n, u) \in Nat \ {0}
         /\ u * (Parts(n, u) - 1) < n /\ n <= u * Parts(n, u)
<1> DEFINE x == n + u - 1  q == x \div u
<1>1. x \in Nat
  OBVIOUS
<1>2. q \in Nat /\ u * q <= x /\ x < u * q + u
  BY <1>1, DivMod
<1>3. Parts(n, u) = q
  BY DEF Parts
<1> HIDE DEF q
<1>4. u * (q - 1) = u * q - u
  BY <1>2
<1>5. q # 0
  BY <1>2
<1> QED BY <1>2, <1>3, <1>4, <1>5

LEMMA PartsOrder ==
  ASSUME NEW m \in Nat \ {0}, NEW n \in Nat \ {0}, NEW u \in Nat \ {0}, m <= n
  PROVE  Parts(m, u) <= Parts(n, u)
<1>1. m + u - 1 \in Nat /\ n + u - 1 \in Nat /\ m + u - 1 <= n + u - 1
  OBVIOUS
<1> QED BY <1>1, DivOrder DEF Parts

(* Each part but the last is full.                                         *)
LEMMA PartSizes ==
  ASSUME NEW n \in Nat \ {0}, NEW u \in Nat \ {0}, NEW i \in 1 .. Parts(n, u)
  PROVE  /\ PartSize(n, u, i) \in 1 .. u
         /\ u * (i - 1) + PartSize(n, u, i) <= n
         /\ i = Parts(n, u) => u * (i - 1) + PartSize(n, u, i) = n
         /\ i # Parts(n, u) => PartSize(n, u, i) = u
         /\ u * (i - 1) + PartSize(n, u, i) <= u * i
<1> DEFINE q == Parts(n, u)  r == n - (i - 1) * u
<1>1. q \in Nat \ {0} /\ u * (q - 1) < n /\ n <= u * q
  BY PartsHold
<1>2. i \in 1 .. q
  OBVIOUS
<1> HIDE DEF q
<1>3. (i - 1) * u = u * (i - 1) /\ u * (i - 1) \in Int /\ u * i = u * (i - 1) + u
  BY <1>1, <1>2
<1>4. u * (i - 1) <= u * (q - 1)
  BY <1>1, <1>2, Mono
<1>5. i # q => u * i <= u * (q - 1)
  BY <1>1, <1>2, Mono
<1>6. i = q => u * i = u * q
  OBVIOUS
<1>7. r \in Nat \ {0} /\ r = n - u * (i - 1)
  BY <1>1, <1>3, <1>4
<1>8. PartSize(n, u, i) = IF u < r THEN u ELSE r
  BY DEF PartSize, AtMost
<1> HIDE DEF r
<1>9. i = q => r <= u
  BY <1>1, <1>3, <1>6, <1>7
<1>10. i # q => u < r
  BY <1>1, <1>3, <1>5, <1>7
<1> QED BY <1>1, <1>3, <1>7, <1>8, <1>9, <1>10 DEF q

-----------------------------------------------------------------------------
(* What the client sends.                                                  *)

Copies == [ver : Nat \ {0}, kind : ClientKinds]

LastPart(c) == Parts(Size[c.kind], ChunkUnits)

OfTransfer(m) == m.type \in {"chunk", "rest"}

(* A transfer goes on with m.                                              *)
Within(m) == OfTransfer(m) /\ ~ (m.type = "chunk" /\ m.part = 1)

(* m does not end its transfer.                                            *)
Unfinished(m) == OfTransfer(m) /\ m.part < LastPart(m.copy)

OfClient(m) ==
  /\ m.sel \in Selections
  /\ m.type \in {"notify", "chunk", "rest", "demand"}
  /\ m.type # "demand" => m.copy \in Copies
  /\ OfTransfer(m) => m.part \in 1 .. LastPart(m.copy)
  /\ m.type = "chunk" =>
       m.size = PartSize(Size[m.copy.kind], ChunkUnits, m.part)
  /\ OfTransfer(m) /\ ~Torn(m.copy.kind) => m.type # "rest"

Continues(x, y) ==
  /\ Unfinished(x) => Within(y)
  /\ Within(y) => /\ OfTransfer(x) /\ x.sel = y.sel /\ x.copy = y.copy
                  /\ y.part = IF y.type = "chunk" THEN x.part + 1 ELSE x.part

(* Messages of which the transfers come whole, but for the first one's     *)
(* beginning.                                                              *)
Stream(q) ==
  /\ Sequence(q)
  /\ \A i \in 1 .. Len(q) : OfClient(q[i])
  /\ \A i \in 1 .. Len(q) :
       /\ i + 1 \in 1 .. Len(q) => Continues(q[i], q[i + 1])
       /\ i = Len(q) => ~Unfinished(q[i])

LEMMA CopyParts ==
  ASSUME NEW c \in Copies
  PROVE  /\ Size[c.kind] \in Nat \ {0} /\ c.ver \in Nat \ {0}
         /\ ChunkUnits \in Nat \ {0} /\ EventUnits \in Nat \ {0}
         /\ LastPart(c) \in Nat \ {0}
<1>1. c.kind \in Kinds /\ c.ver \in Nat \ {0}
  BY KindsAssumption DEF Copies
<1>2. Size[c.kind] \in Nat \ {0}
  BY <1>1, SizeAssumption
<1>3. ChunkUnits \in Nat \ {0} /\ EventUnits \in Nat \ {0}
  BY UnitsAssumption
<1> QED BY <1>1, <1>2, <1>3, PartsHold DEF LastPart

(* A copy no chunk of which is torn fits in one event, or its chunks do.   *)
LEMMA TornParts ==
  ASSUME NEW c \in Copies
  PROVE  /\ Torn(c.kind) => EventUnits < Size[c.kind] /\ EventUnits < ChunkUnits
         /\ ~Torn(c.kind) =>
              \/ ChunkUnits <= EventUnits
              \/ Size[c.kind] <= EventUnits /\ Size[c.kind] < ChunkUnits
<1>1. /\ Size[c.kind] \in Nat /\ ChunkUnits \in Nat /\ EventUnits \in Nat
  BY CopyParts
<1>2. PICK n : n = Size[c.kind]
  OBVIOUS
<1>3. Torn(c.kind) <=> (IF n < ChunkUnits THEN n ELSE ChunkUnits) > EventUnits
  BY <1>2 DEF Torn, AtMost
<1> QED BY <1>1, <1>2, <1>3

(* A copy of less than a chunk is sent in one chunk.                       *)
LEMMA OnePart ==
  ASSUME NEW n \in Nat \ {0}, NEW u \in Nat \ {0}, n <= u
  PROVE  Parts(n, u) = 1
<1>1. Parts(n, u) \in Nat \ {0} /\ u * (Parts(n, u) - 1) < n
  BY PartsHold
<1>2. PICK q : q = Parts(n, u)
  OBVIOUS
<1>3. q >= 2 => u * 1 <= u * (q - 1)
  BY <1>1, <1>2, Mono
<1> QED BY <1>1, <1>2, <1>3

LEMMA MessageParts ==
  ASSUME NEW t, NEW s, NEW c, NEW p, NEW n
  PROVE  /\ Message(t, s, c, p, n).type = t /\ Message(t, s, c, p, n).sel = s
         /\ Message(t, s, c, p, n).copy = c /\ Message(t, s, c, p, n).part = p
         /\ Message(t, s, c, p, n).size = n
BY DEF Message

(* A transfer begins with a first chunk and is whole.                      *)
LEMMA TransferStreams ==
  ASSUME NEW s \in Selections, NEW c \in Copies
  PROVE  /\ Stream(Transfer(s, c)) /\ Len(Transfer(s, c)) \in Nat \ {0}
         /\ Transfer(s, c)[1].type = "chunk" /\ Transfer(s, c)[1].part = 1
         /\ Transfer(s, c)[1].sel = s
         /\ \A i \in 1 .. Len(Transfer(s, c)) : OfTransfer(Transfer(s, c)[i])
<1> DEFINE total == Size[c.kind]
           n == Parts(total, ChunkUnits)
           e == Parts(ChunkUnits, EventUnits)
           l == Parts(PartSize(total, ChunkUnits, n), EventUnits)
           N == (n - 1) * e + l
           part(j) == (j - 1) \div e + 1
           T == Transfer(s, c)
<1>1. /\ total \in Nat \ {0} /\ ChunkUnits \in Nat \ {0}
      /\ EventUnits \in Nat \ {0} /\ n \in Nat \ {0} /\ n = LastPart(c)
  BY CopyParts DEF LastPart
<1>2. e \in Nat \ {0} /\ l \in Nat \ {0} /\ l <= e
  <2> DEFINE last == PartSize(total, ChunkUnits, n)
  <2>1. last \in 1 .. ChunkUnits
    BY <1>1, PartSizes
  <2> HIDE DEF last
  <2>2. e \in Nat \ {0}
    BY <1>1, PartsHold
  <2>3. Parts(last, EventUnits) \in Nat \ {0}
    BY <1>1, <2>1, PartsHold
  <2>4. Parts(last, EventUnits) <= Parts(ChunkUnits, EventUnits)
    BY <1>1, <2>1, PartsOrder
  <2> QED BY <2>2, <2>3, <2>4 DEF last
<1>3. ChunkUnits <= EventUnits => e = 1
  <2> SUFFICES ASSUME ChunkUnits <= EventUnits PROVE e = 1
    OBVIOUS
  <2>1. EventUnits * (e - 1) < ChunkUnits /\ e \in Nat \ {0}
    BY <1>1, <1>2, PartsHold
  <2> HIDE DEF e
  <2>2. e >= 2 => EventUnits * 1 <= EventUnits * (e - 1)
    BY <1>1, <2>1, Mono
  <2> QED BY <1>1, <2>1, <2>2
<1>a. ~Torn(c.kind) /\ ~(ChunkUnits <= EventUnits) => n = 1 /\ l = 1
  <2> SUFFICES ASSUME ~Torn(c.kind), ~(ChunkUnits <= EventUnits)
               PROVE  n = 1 /\ l = 1
    OBVIOUS
  <2>1. total <= EventUnits /\ total <= ChunkUnits
    BY <1>1, TornParts
  <2>2. n = 1
    BY <1>1, <2>1, OnePart
  <2> DEFINE last == PartSize(total, ChunkUnits, n)
  <2>3. ChunkUnits * (n - 1) + last = total
    BY <1>1, PartSizes
  <2>4. ChunkUnits * (n - 1) = 0 /\ last \in 1 .. ChunkUnits
    BY <1>1, <2>2, PartSizes
  <2> HIDE DEF last, total
  <2>5. last = total
    BY <1>1, <2>3, <2>4
  <2>6. Parts(last, EventUnits) = 1
    BY <1>1, <2>1, <2>5, OnePart
  <2> QED BY <2>2, <2>6 DEF last
<1>4. T = [j \in 1 .. N |->
             IF (j - 1) % e = 0
             THEN Message("chunk", s, c, part(j),
                          PartSize(total, ChunkUnits, part(j)))
             ELSE Message("rest", s, c, part(j), 0)]
  BY DEF Transfer
<1> HIDE DEF n, e, l
<1>5. (n - 1) * e = e * (n - 1) /\ e * (n - 1) \in Nat /\ N \in Nat \ {0}
  <2>1. n - 1 \in Nat
    BY <1>1
  <2> HIDE DEF N
  <2>2. (n - 1) * e = e * (n - 1) /\ e * (n - 1) \in Nat
    BY <2>1, <1>2
  <2> QED BY <2>2, <1>2 DEF N
<1>6. N = e * (n - 1) + l
  BY <1>5
<1> HIDE DEF N
<1>7. ASSUME NEW j \in 1 .. N
      PROVE  /\ part(j) \in 1 .. n
             /\ part(j) < n <=> j - 1 < e * (n - 1)
  <2>1. j - 1 \in Nat /\ j - 1 < e * n
    <3>1. e * n = e * (n - 1) + e
      BY <1>1, <1>2
    <3> QED BY <3>1, <1>2, <1>5, <1>6
  <2>2. (j - 1) \div e \in Nat
    BY <2>1, <1>2, DivMod
  <2>3. (j - 1) \div e < n
    BY <2>1, <1>1, <1>2, DivLess
  <2>4. (j - 1) \div e < n - 1 <=> j - 1 < e * (n - 1)
    <3>1. n - 1 \in Nat
      BY <1>1
    <3> QED BY <3>1, <2>1, <1>2, DivLess
  <2> QED BY <1>1, <2>2, <2>3, <2>4
<1>8. ASSUME NEW j \in 1 .. N, j + 1 \in 1 .. N
      PROVE  part(j + 1) = IF j % e = 0 THEN part(j) + 1 ELSE part(j)
  <2>1. j - 1 \in Nat /\ (j - 1) + 1 = j
    OBVIOUS
  <2>2. j \div e = IF j % e = 0 THEN (j - 1) \div e + 1 ELSE (j - 1) \div e
    BY <2>1, <1>2, DivNext
  <2>3. (j + 1) - 1 = j
    OBVIOUS
  <2>4. (j - 1) \div e \in Nat
    BY <2>1, <1>2, DivMod
  <2> QED BY <2>2, <2>3, <2>4
<1>9. part(1) = 1 /\ (1 - 1) % e = 0
  <2>1. 0 \in Nat /\ 0 \div e \in Nat /\ 0 % e \in Nat
        /\ 0 = e * (0 \div e) + (0 % e)
    BY <1>2, DivMod
  <2>2. ~(0 \div e < 1) => e * 1 <= e * (0 \div e)
    BY <1>2, <2>1, Mono
  <2>3. 0 \div e = 0
    BY <1>2, <2>1, <2>2
  <2>4. e * 0 = 0
    BY <1>2
  <2>5. 1 - 1 = 0
    OBVIOUS
  <2> QED BY <2>1, <2>3, <2>4, <2>5
<1>10. ~Torn(c.kind) => \A j \in 1 .. N : (j - 1) % e = 0
  <2>1. ASSUME e = 1, NEW j \in 1 .. N PROVE (j - 1) % e = 0
    <3>1. j - 1 \in Nat
      OBVIOUS
    <3>2. (j - 1) % e \in Nat /\ (j - 1) % e < e
      BY <3>1, <1>2, DivMod
    <3> QED BY <2>1, <3>2
  <2>2. ASSUME n = 1, l = 1, NEW j \in 1 .. N PROVE (j - 1) % e = 0
    <3>1. e * (n - 1) = 0
      BY <1>2, <2>2
    <3>2. j = 1
      BY <1>6, <2>2, <3>1
    <3> QED BY <1>9, <3>2
  <2> QED BY <1>3, <1>a, <2>1, <2>2
<1> HIDE DEF T
<1>11. Len(T) = N /\ Sequence(T)
  <2> DEFINE S == {Message("chunk", s, c, p, PartSize(total, ChunkUnits, p)) :
                     p \in 1 .. n}
                  \cup {Message("rest", s, c, p, 0) : p \in 1 .. n}
  <2>1. \A j \in 1 .. N : part(j) \in 1 .. n
    BY <1>7
  <2> HIDE DEF part
  <2>2. T \in [1 .. N -> S]
    BY <1>4, <2>1
  <2> HIDE DEF S
  <2>3. T \in Seq(S)
    BY <1>5, <2>2, SeqDef
  <2>4. Len(T) = N
    BY <1>5, <2>2, <2>3, LenProperties
  <2> QED BY <2>3, <2>4 DEF Sequence
<1>12. ASSUME NEW j \in 1 .. N
       PROVE  /\ T[j].type = IF (j - 1) % e = 0 THEN "chunk" ELSE "rest"
              /\ T[j].sel = s /\ T[j].copy = c /\ T[j].part = part(j)
              /\ T[j].type = "chunk" =>
                   T[j].size = PartSize(total, ChunkUnits, part(j))
  <2> HIDE DEF part
  <2>1. T[j] = IF (j - 1) % e = 0
               THEN Message("chunk", s, c, part(j),
                            PartSize(total, ChunkUnits, part(j)))
               ELSE Message("rest", s, c, part(j), 0)
    BY <1>4
  <2>2. CASE (j - 1) % e = 0
    <3>1. T[j] = Message("chunk", s, c, part(j),
                            PartSize(total, ChunkUnits, part(j)))
      BY <2>1, <2>2
    <3> QED BY <3>1, <2>2, MessageParts
  <2>3. CASE (j - 1) % e # 0
    <3>1. T[j] = Message("rest", s, c, part(j), 0)
      BY <2>1, <2>3
    <3> QED BY <3>1, <2>3, MessageParts
  <2> QED BY <2>2, <2>3
<1>13. ASSUME NEW j \in 1 .. N PROVE OfClient(T[j])
  BY <1>1, <1>7, <1>10, <1>12 DEF OfClient, OfTransfer
<1>14. ASSUME NEW j \in 1 .. N, j + 1 \in 1 .. N
       PROVE  Continues(T[j], T[j + 1])
  <2> HIDE DEF part
  <2> DEFINE k == j + 1
  <2>b. part(k) = IF j % e = 0 THEN part(j) + 1 ELSE part(j)
    BY <1>8, <1>14
  <2>c. part(j) \in 1 .. n
    BY <1>7
  <2>a. k \in 1 .. N /\ k - 1 = j
    <3>1. j + 1 \in 1 .. N /\ (j + 1) - 1 = j
      BY <1>14
    <3> QED BY <3>1
  <2> HIDE DEF k
  <2>d. /\ T[k].type = IF (k - 1) % e = 0 THEN "chunk" ELSE "rest"
        /\ T[k].sel = s /\ T[k].copy = c /\ T[k].part = part(k)
    BY <2>a, <1>12
  <2>e. /\ T[j].type = IF (j - 1) % e = 0 THEN "chunk" ELSE "rest"
        /\ T[j].sel = s /\ T[j].copy = c /\ T[j].part = part(j)
    BY <1>12
  <2>1. T[k].type = IF j % e = 0 THEN "chunk" ELSE "rest"
    BY <2>a, <2>d
  <2>2. T[k].part = IF j % e = 0 THEN T[j].part + 1 ELSE T[j].part
    BY <2>b, <2>d, <2>e
  <2>3. T[j].part \in 1 .. n
    BY <2>c, <2>e
  <2>4. T[j].sel = T[k].sel /\ T[j].copy = T[k].copy
    BY <2>d, <2>e
  <2>5. OfTransfer(T[j]) /\ OfTransfer(T[k])
    BY <2>d, <2>e DEF OfTransfer
  <2>6. T[k].type = "chunk" => T[k].part # 1
    BY <2>1, <2>2, <2>3
  <2>7. T[k].part = IF T[k].type = "chunk" THEN T[j].part + 1 ELSE T[j].part
    BY <2>1, <2>2
  <2>8. Continues(T[j], T[k])
    BY <2>4, <2>5, <2>6, <2>7 DEF Continues, Within
  <2> QED BY <2>8 DEF k
<1>15. ~Unfinished(T[N])
  <2>1. N \in 1 .. N
    BY <1>5
  <2>2. ~(part(N) < n)
    BY <2>1, <1>2, <1>5, <1>6, <1>7
  <2>3. T[N].part = part(N) /\ T[N].copy = c
    BY <2>1, <1>12
  <2> QED BY <2>2, <2>3, <1>1 DEF Unfinished
<1>16. Stream(T)
  BY <1>5, <1>11, <1>13, <1>14, <1>15 DEF Stream
<1>17. 1 \in 1 .. N
  BY <1>5
<1>18. T[1].type = "chunk" /\ T[1].part = 1 /\ T[1].sel = s
  BY <1>9, <1>12, <1>17
<1>19. \A i \in 1 .. N : OfTransfer(T[i])
  BY <1>12 DEF OfTransfer
<1> QED BY <1>5, <1>11, <1>16, <1>18, <1>19 DEF T

LEMMA StreamTail ==
  ASSUME NEW q, Stream(q), q # <<>>
  PROVE  /\ Stream(Tail(q)) /\ Head(q) = q[1] /\ OfClient(Head(q))
         /\ Len(Tail(q)) \in Nat
         /\ \A i \in 1 .. Len(Tail(q)) : Tail(q)[i] = q[i + 1]
         /\ Tail(q) # <<>> =>
              Tail(q)[1] = q[2] /\ Continues(q[1], q[2])
         /\ Tail(q) = <<>> => ~Unfinished(q[1])
<1> DEFINE t == Tail(q)  n == Len(q)
<1>1. n \in Nat \ {0} /\ Sequence(q)
  BY SequenceParts DEF Stream
<1>2. /\ Sequence(t) /\ Len(t) = n - 1 /\ Head(q) = q[1]
      /\ \A i \in 1 .. Len(t) : t[i] = q[i + 1]
  BY TailAny DEF Stream
<1>3. /\ \A i \in 1 .. n : OfClient(q[i])
      /\ \A i \in 1 .. n : /\ i + 1 \in 1 .. n => Continues(q[i], q[i + 1])
                           /\ i = n => ~Unfinished(q[i])
  BY DEF Stream
<1>4. t # <<>> => Len(t) # 0
  BY <1>2, SequenceParts
<1> HIDE DEF t, n
<1>5. t = <<>> => Len(t) = 0
  <2>1. Len(<<>>) = 0
    OBVIOUS
  <2> QED BY <2>1
<1>6. ASSUME NEW i \in 1 .. Len(t)
      PROVE  /\ OfClient(t[i]) /\ t[i] = q[i + 1] /\ i + 1 \in 1 .. n
             /\ i = Len(t) => i + 1 = n
             /\ i + 1 \in 1 .. Len(t) => t[i + 1] = q[(i + 1) + 1] /\ (i + 1) + 1 \in 1 .. n
  <2>1. i + 1 \in 1 .. n /\ (i = Len(t) => i + 1 = n)
        /\ (i + 1 \in 1 .. Len(t) => (i + 1) + 1 \in 1 .. n)
    BY <1>1, <1>2
  <2>2. t[i] = q[i + 1] /\ OfClient(q[i + 1])
    BY <1>2, <1>3, <2>1
  <2>3. i + 1 \in 1 .. Len(t) => t[i + 1] = q[(i + 1) + 1]
    BY <1>2
  <2> QED BY <2>1, <2>2, <2>3
<1>7. ASSUME NEW i \in 1 .. Len(t)
      PROVE  /\ i + 1 \in 1 .. Len(t) => Continues(t[i], t[i + 1])
             /\ i = Len(t) => ~Unfinished(t[i])
  BY <1>3, <1>6
<1>8. Stream(t)
  BY <1>2, <1>6, <1>7 DEF Stream
<1>9. 1 \in 1 .. n /\ 1 + 1 = 2
  BY <1>1
<1>10. t # <<>> => t[1] = q[2] /\ 2 \in 1 .. n
  <2>1. Len(t) # 0 => 1 \in 1 .. Len(t) /\ 2 \in 1 .. n
    BY <1>1, <1>2
  <2>2. Len(t) # 0 => t[1] = q[1 + 1]
    BY <1>2, <2>1
  <2> QED BY <1>4, <1>9, <2>1, <2>2
<1>11. t = <<>> => n = 1
  BY <1>1, <1>2, <1>5
<1>12. Len(t) \in Nat /\ OfClient(q[1])
  BY <1>1, <1>2, <1>3, <1>9
<1>13. t # <<>> => Continues(q[1], q[2])
  BY <1>3, <1>9, <1>10
<1>14. t = <<>> => ~Unfinished(q[1])
  BY <1>3, <1>9, <1>11
<1> QED BY <1>2, <1>8, <1>10, <1>12, <1>13, <1>14 DEF t

LEMMA StreamConcat ==
  ASSUME NEW q, Stream(q), NEW x, Stream(x), x # <<>> => ~Within(x[1])
  PROVE  /\ Stream(q \o x) /\ Len(q) \in Nat /\ Len(x) \in Nat
         /\ \A i \in 1 .. Len(q) : (q \o x)[i] = q[i] /\ i \in 1 .. Len(q \o x)
         /\ \A i \in 1 .. Len(x) :
              (q \o x)[Len(q) + i] = x[i] /\ Len(q) + i \in 1 .. Len(q \o x)
         /\ q # <<>> => (q \o x)[1] = q[1]
         /\ q = <<>> => q \o x = x
         /\ \A i \in 1 .. Len(q \o x) :
              (q \o x)[i] = IF i <= Len(q) THEN q[i] ELSE x[i - Len(q)]
<1> DEFINE z == q \o x  m == Len(q)  n == Len(x)
<1>1. Sequence(q) /\ Sequence(x)
  BY DEF Stream
<1>2. m \in Nat /\ n \in Nat /\ (q # <<>> => m # 0)
  BY <1>1, SequenceParts
<1>3. /\ Sequence(z) /\ Len(z) = m + n
      /\ \A i \in 1 .. m + n : z[i] = IF i <= m THEN q[i] ELSE x[i - m]
  BY <1>1, ConcatAny
<1>4. /\ \A i \in 1 .. m : OfClient(q[i])
      /\ \A i \in 1 .. m : /\ i + 1 \in 1 .. m => Continues(q[i], q[i + 1])
                           /\ i = m => ~Unfinished(q[i])
  BY DEF Stream
<1>5. /\ \A i \in 1 .. n : OfClient(x[i])
      /\ \A i \in 1 .. n : /\ i + 1 \in 1 .. n => Continues(x[i], x[i + 1])
                           /\ i = n => ~Unfinished(x[i])
  BY DEF Stream
<1>6. n # 0 => ~Within(x[1])
  <2>1. n # 0 => x # <<>>
    OBVIOUS
  <2> QED BY <2>1
<1>7. q = <<>> => z = x
  <2>1. PICK S : x \in Seq(S)
    BY <1>1 DEF Sequence
  <2> QED BY <2>1
<1> HIDE DEF z, m, n
<1>8. ASSUME NEW i \in 1 .. m
      PROVE  /\ z[i] = q[i] /\ i \in 1 .. m + n /\ OfClient(z[i])
             /\ i + 1 \in 1 .. m + n => Continues(z[i], z[i + 1])
             /\ i = m + n => ~Unfinished(z[i])
  <2>1. z[i] = q[i] /\ i \in 1 .. m + n
    BY <1>2, <1>3
  <2>2. CASE i + 1 \in 1 .. m
    <3>1. z[i + 1] = q[i + 1]
      BY <1>2, <1>3, <2>2
    <3>2. i # m + n
      BY <1>2, <2>2
    <3> QED BY <1>4, <2>1, <2>2, <3>1, <3>2
  <2>3. CASE i = m
    <3>1. ~Unfinished(z[i])
      BY <1>4, <2>1, <2>3
    <3>2. i + 1 \in 1 .. m + n => z[i + 1] = x[1] /\ n # 0
      <4> SUFFICES ASSUME i + 1 \in 1 .. m + n PROVE z[i + 1] = x[1] /\ n # 0
        OBVIOUS
      <4>1. ~(i + 1 <= m) /\ (i + 1) - m = 1 /\ n # 0
        BY <1>2, <2>3
      <4> QED BY <1>3, <4>1
    <3>3. i + 1 \in 1 .. m + n => ~Within(z[i + 1])
      BY <1>6, <3>2
    <3> QED BY <1>4, <2>1, <3>1, <3>3 DEF Continues
  <2> QED BY <1>2, <2>2, <2>3
<1>9. ASSUME NEW i \in 1 .. n
      PROVE  /\ z[m + i] = x[i] /\ m + i \in 1 .. m + n /\ OfClient(z[m + i])
             /\ (m + i) + 1 \in 1 .. m + n => Continues(z[m + i], z[(m + i) + 1])
             /\ m + i = m + n => ~Unfinished(z[m + i])
  <2>1. m + i \in 1 .. m + n /\ ~(m + i <= m) /\ (m + i) - m = i
    BY <1>2
  <2>2. z[m + i] = x[i]
    BY <1>3, <2>1
  <2>3. m + i = m + n => i = n
    BY <1>2
  <2>4. ASSUME (m + i) + 1 \in 1 .. m + n
        PROVE  i + 1 \in 1 .. n /\ z[(m + i) + 1] = x[i + 1]
    <3>1. i + 1 \in 1 .. n /\ ~((m + i) + 1 <= m) /\ ((m + i) + 1) - m = i + 1
      BY <1>2, <2>4
    <3> QED BY <1>3, <2>4, <3>1
  <2> QED BY <1>5, <2>1, <2>2, <2>3, <2>4
<1>10. ASSUME NEW i \in 1 .. m + n
       PROVE  /\ OfClient(z[i])
              /\ i + 1 \in 1 .. m + n => Continues(z[i], z[i + 1])
              /\ i = m + n => ~Unfinished(z[i])
  <2>1. CASE i \in 1 .. m
    BY <1>8, <2>1
  <2>2. CASE ~(i \in 1 .. m)
    <3> DEFINE k == i - m
    <3>1. k \in 1 .. n /\ m + k = i
      BY <1>2, <2>2
    <3> HIDE DEF k
    <3> QED BY <1>9, <3>1
  <2> QED BY <2>1, <2>2
<1>11. Stream(z)
  BY <1>3, <1>10 DEF Stream
<1>12. m # 0 => 1 \in 1 .. m
  BY <1>2
<1> QED BY <1>2, <1>3, <1>7, <1>8, <1>9, <1>11, <1>12 DEF z, m, n

(* One message that is no part of a longer transfer.                       *)
LEMMA StreamOfOne ==
  ASSUME NEW m, OfClient(m), ~OfTransfer(m)
  PROVE  Stream(<<m>>) /\ <<m>>[1] = m /\ Len(<<m>>) = 1 /\ ~Within(m)
<1> DEFINE q == <<m>>
<1>1. q \in Seq({m}) /\ Len(q) = 1 /\ q[1] = m
  OBVIOUS
<1>2. ~Within(m) /\ ~Unfinished(m)
  BY DEF Within, Unfinished
<1> HIDE DEF q
<1>3. \A i \in 1 .. Len(q) : i = 1
  BY <1>1
<1>4. ~(1 + 1 \in 1 .. 1)
  OBVIOUS
<1>5. Stream(q)
  BY <1>1, <1>2, <1>3, <1>4 DEF Stream, Sequence
<1> QED BY <1>1, <1>2, <1>5 DEF q

LEMMA StreamEmpty == Stream(<<>>)
<1>1. <<>> \in Seq({}) /\ Len(<<>>) = 0
  OBVIOUS
<1> QED BY <1>1 DEF Stream, Sequence

-----------------------------------------------------------------------------
(* The buffers of the main thread.                                         *)

CopyType == [ver : Nat, kind : ClientKinds \cup {None}]

BufferType == [copy : CopyType, size : Nat, ready : Nat,
               state : {"NOTIFIED", "REQUESTED", "COMPLETED"},
               owner : BOOLEAN, time : Nat]

IsBuffer(b) == b \in BufferType /\ b.ready <= b.size

(* Units of the copy that came before message m.                           *)
Before(m) == ChunkUnits * (IF m.type = "chunk" THEN m.part - 1 ELSE m.part)

(* Buffer b holds what came before m of m's transfer.                      *)
Filled(b, m) ==
  /\ b.copy = m.copy /\ b.size = Size[m.copy.kind]
  /\ IF Torn(m.copy.kind) THEN b.ready < Before(m) ELSE b.ready = Before(m)

LEMMA CopyFields ==
  /\ NoCopy \in CopyType /\ Copies \subseteq CopyType
  /\ \A c \in CopyType, k \in ClientKinds : [c EXCEPT !.kind = k] \in CopyType
  /\ NoCopy.ver = 0 /\ NoCopy \notin Copies
BY DEF NoCopy, CopyType, Copies

LEMMA EmptyIsBuffer == IsBuffer(Empty)
BY CopyFields DEF IsBuffer, BufferType, Empty

LEMMA BufferOwned ==
  ASSUME NEW b, IsBuffer(b), clock \in Nat
  PROVE  /\ IsBuffer(Owned(b)) /\ IsBuffer(Disowned(b))
         /\ Owned(b).copy = b.copy /\ Owned(b).size = b.size
         /\ Owned(b).ready = b.ready /\ Owned(b).state = b.state
         /\ Disowned(b).copy = b.copy /\ Disowned(b).size = b.size
         /\ Disowned(b).ready = b.ready /\ Disowned(b).state = b.state
         /\ ~Disowned(b).owner
BY DEF IsBuffer, BufferType, Owned, Disowned

LEMMA BufferState ==
  ASSUME NEW b, IsBuffer(b), NEW x \in {"NOTIFIED", "REQUESTED", "COMPLETED"}
  PROVE  /\ IsBuffer([b EXCEPT !.state = x])
         /\ [b EXCEPT !.state = x].copy = b.copy
         /\ [b EXCEPT !.state = x].size = b.size
         /\ [b EXCEPT !.state = x].ready = b.ready
         /\ [b EXCEPT !.state = x].owner = b.owner
         /\ [b EXCEPT !.state = x].state = x
BY DEF IsBuffer, BufferType

LEMMA BufferAnnounced ==
  ASSUME NEW b, IsBuffer(b), NEW k \in ClientKinds
  PROVE  /\ IsBuffer([Announced(b) EXCEPT !.copy.kind = k])
         /\ [Announced(b) EXCEPT !.copy.kind = k].state = "NOTIFIED"
         /\ [Announced(b) EXCEPT !.copy.kind = k].copy.kind = k
<1> DEFINE a == Announced(b)  x == [a EXCEPT !.copy.kind = k]
<1>1. a \in BufferType /\ a.copy = NoCopy /\ a.size = 0 /\ a.ready = 0
      /\ a.state = "NOTIFIED"
  BY CopyFields DEF IsBuffer, BufferType, Announced
<1> HIDE DEF a
<1>2. x = [a EXCEPT !.copy = [a.copy EXCEPT !.kind = k]]
  BY <1>1 DEF BufferType
<1>3. [a.copy EXCEPT !.kind = k] \in CopyType
  BY <1>1, CopyFields
<1>4. x \in BufferType /\ x.size = 0 /\ x.ready = 0 /\ x.state = "NOTIFIED"
      /\ x.copy = [a.copy EXCEPT !.kind = k]
  BY <1>1, <1>2, <1>3 DEF BufferType
<1>5. [a.copy EXCEPT !.kind = k].kind = k
  BY <1>1 DEF NoCopy
<1> HIDE DEF x
<1>6. IsBuffer(x) /\ x.state = "NOTIFIED" /\ x.copy.kind = k
  BY <1>4, <1>5 DEF IsBuffer
<1> QED BY <1>6 DEF x, a

(* What ReadChunk makes of the buffer.                                     *)
LEMMA BufferRead ==
  ASSUME NEW b, IsBuffer(b), NEW m, OfClient(m), m.type = "chunk",
         Within(m) => Filled(b, m)
  PROVE  LET x == [Started(b, m) EXCEPT !.ready = @ + AtMost(m.size, EventUnits)]
         IN  /\ IsBuffer(x) /\ x.copy = m.copy /\ x.size = Size[m.copy.kind]
             /\ x.state = b.state /\ x.owner = b.owner
             /\ x.ready \in Nat \ {0}
             /\ Torn(m.copy.kind) =>
                  x.ready < x.size /\ x.ready < ChunkUnits * m.part
             /\ ~Torn(m.copy.kind) =>
                  /\ x.ready = x.size <=> ~Unfinished(m)
                  /\ Unfinished(m) => x.ready = ChunkUnits * m.part
             /\ m.part = 1 => x.ready = AtMost(m.size, EventUnits)
<1> DEFINE s == Started(b, m)
           t == AtMost(m.size, EventUnits)
           x == [s EXCEPT !.ready = @ + t]
           p == m.part  u == ChunkUnits  n == Size[m.copy.kind]
<1>1. m.copy \in Copies /\ p \in 1 .. LastPart(m.copy)
      /\ m.size = PartSize(n, u, p)
  BY DEF OfClient, OfTransfer
<1>2. /\ n \in Nat \ {0} /\ u \in Nat \ {0} /\ EventUnits \in Nat \ {0}
      /\ LastPart(m.copy) \in Nat \ {0} /\ LastPart(m.copy) = Parts(n, u)
  BY <1>1, CopyParts DEF LastPart
<1>a. p \in 1 .. Parts(n, u) /\ p \in Nat \ {0}
  BY <1>1, <1>2
<1> HIDE DEF n, p, u
<1>3. /\ m.size \in 1 .. u /\ u * (p - 1) + m.size <= n
      /\ p = Parts(n, u) => u * (p - 1) + m.size = n
      /\ p # Parts(n, u) => m.size = u
      /\ u * (p - 1) + m.size <= u * p
  BY <1>1, <1>2, <1>a, PartSizes
<1>4. u * (p - 1) \in Nat /\ u * p \in Nat /\ u * p = u * (p - 1) + u
  <2>1. p - 1 \in Nat
    BY <1>a
  <2> QED BY <2>1, <1>2, <1>a
<1>5. /\ t \in Nat \ {0} /\ t <= m.size
      /\ ~Torn(m.copy.kind) => t = m.size
      /\ Torn(m.copy.kind) /\ p = 1 => t < m.size
  <2>1. m.size \in 1 .. u /\ (p = 1 => m.size = PartSize(n, u, 1))
    BY <1>1, <1>3
  <2>2. t = IF m.size < EventUnits THEN m.size ELSE EventUnits
    BY DEF AtMost
  <2>3. /\ Torn(m.copy.kind) => EventUnits < n /\ EventUnits < u
        /\ ~Torn(m.copy.kind) => u <= EventUnits \/ n <= EventUnits
    BY <1>1, TornParts DEF n, u
  <2>4. m.size <= n
    BY <1>2, <1>3, <1>4
  <2>5. p = 1 => m.size = n \/ m.size = u
    <3>1. p = 1 => u * (p - 1) = 0
      BY <1>2
    <3> QED BY <1>2, <1>3, <3>1
  <2> HIDE DEF t
  <2> QED BY <1>2, <2>1, <2>2, <2>3, <2>4, <2>5
<1>6. /\ s \in BufferType /\ s.copy = m.copy /\ s.size = n
      /\ s.state = b.state /\ s.owner = b.owner
      /\ s.ready <= u * (p - 1)
      /\ ~Torn(m.copy.kind) => s.ready = u * (p - 1)
      /\ Torn(m.copy.kind) /\ p # 1 => s.ready < u * (p - 1)
      /\ (p = 1 => s.ready = 0)
  <2>1. CASE p = 1
    <3>1. s = [b EXCEPT !.copy = m.copy, !.size = n, !.ready = 0]
      BY <2>1 DEF Started, p, n
    <3>2. m.copy \in CopyType
      BY <1>1, CopyFields
    <3>3. p - 1 = 0 /\ u * (p - 1) = 0
      BY <1>2, <2>1
    <3>4. 0 \in Nat /\ n \in Nat
      BY <1>2
    <3>5. /\ s \in BufferType /\ s.copy = m.copy /\ s.size = n
          /\ s.state = b.state /\ s.owner = b.owner /\ s.ready = 0
      BY <3>1, <3>2, <3>4 DEF IsBuffer, BufferType
    <3> QED BY <3>3, <3>5
  <2>2. CASE p # 1
    <3>1. s = b /\ Filled(b, m)
      BY <2>2 DEF Started, Within, OfTransfer, p
    <3>2. Before(m) = u * (p - 1)
      BY DEF Before, u, p
    <3>3. b.ready \in Nat
      BY DEF IsBuffer, BufferType
    <3>4. /\ s.ready <= u * (p - 1)
          /\ ~Torn(m.copy.kind) => s.ready = u * (p - 1)
          /\ Torn(m.copy.kind) => s.ready < u * (p - 1)
      BY <1>4, <3>1, <3>2, <3>3 DEF Filled
    <3> QED BY <2>2, <3>1, <3>4 DEF IsBuffer, Filled, u, n
  <2> QED BY <2>1, <2>2
<1> HIDE DEF s, t
<1>7. /\ x.copy = s.copy /\ x.size = s.size /\ x.state = s.state
      /\ x.owner = s.owner /\ x.ready = s.ready + t /\ s.ready \in Nat
      /\ x \in BufferType
  BY <1>5, <1>6 DEF BufferType
<1> HIDE DEF x
<1>8. x.ready <= n /\ x.ready <= u * p
  BY <1>2, <1>3, <1>4, <1>5, <1>6, <1>7
<1>9. IsBuffer(x)
  BY <1>6, <1>7, <1>8 DEF IsBuffer
<1>10. Unfinished(m) <=> p # Parts(n, u)
  BY <1>2, <1>a DEF Unfinished, OfTransfer, p
<1>11. p # Parts(n, u) => u * p < n
  <2>1. u * (Parts(n, u) - 1) < n
    BY <1>2, PartsHold
  <2>2. p # Parts(n, u) => p <= Parts(n, u) - 1
    BY <1>a, <1>2
  <2>3. p # Parts(n, u) => u * p <= u * (Parts(n, u) - 1)
    BY <1>a, <1>2, <2>2, Mono
  <2>4. u * (Parts(n, u) - 1) \in Int
    BY <1>2
  <2> QED BY <1>2, <1>4, <2>1, <2>3, <2>4
<1>12. ~Torn(m.copy.kind) =>
         /\ x.ready = x.size <=> ~Unfinished(m)
         /\ Unfinished(m) => x.ready = u * p
  BY <1>2, <1>3, <1>4, <1>5, <1>6, <1>7, <1>10, <1>11
<1>14. x.ready \in Nat \ {0}
  BY <1>5, <1>7
<1>15. Torn(m.copy.kind) => x.ready < x.size /\ x.ready < u * p
  <2>1. Torn(m.copy.kind) => x.ready < u * (p - 1) + m.size
    <3>1. p = 1 => u * (p - 1) = 0
      BY <1>2
    <3> QED BY <1>3, <1>4, <1>5, <1>6, <1>7, <3>1
  <2> QED BY <1>2, <1>3, <1>4, <1>6, <1>7, <1>14, <2>1
<1>13. p = 1 => x.ready = t
  BY <1>5, <1>6, <1>7
<1> QED BY <1>6, <1>7, <1>9, <1>12, <1>13, <1>14, <1>15 DEF x, s, t, n, p, u

-----------------------------------------------------------------------------
(* What the client sent so far is in the buffers.                          *)

AnswerType == [how : {"none", "pending", "refused", "meta", "data", "incr"},
               sel : Selections \cup {None},
               target : ClientKinds \cup {"meta", None},
               time : Nat, copy : CopyType, filled : Nat, unread : BOOLEAN]

IsRemote(m) ==
  /\ DOMAIN m = {"copy", "heard", "phase", "from"}
  /\ m.copy \in Copies \cup {NoCopy}

Typed ==
  /\ DOMAIN inSel = Selections /\ \A s \in Selections : IsBuffer(inSel[s])
  /\ answer \in [Requests -> AnswerType]
  /\ \A r \in Requests : answer[r].how # "none" => answer[r].sel \in Selections
  /\ DOMAIN remote = Selections /\ \A s \in Selections : IsRemote(remote[s])
  /\ DOMAIN requested = Selections
  /\ clock \in Nat /\ version \in Nat /\ conns \in Nat \ {0}

(* A request is of the selection its event says.                           *)
Named(a, e) ==
  e.type = "request" =>
    e.arg \in Requests /\ e.sel \in Selections /\ a[e.arg].sel = e.sel

EventsNamed ==
  /\ \A i \in 1 .. Len(xq) : Named(answer, xq[i])
  /\ spc # "wait" => Named(answer, ev)

HeadFits ==
  toServer # <<>> /\ Within(toServer[1]) =>
    Filled(inSel[toServer[1].sel], toServer[1])

Latest ==
  \A s \in Selections :
    inSel[s].state = "COMPLETED" => inSel[s].copy.ver = remote[s].heard

Incoming == Typed /\ EventsNamed /\ Stream(toServer) /\ HeadFits /\ Latest

LEMMA AnswerChanges ==
  ASSUME NEW a \in AnswerType, NEW b, IsBuffer(b)
  PROVE  /\ Refused(a) \in AnswerType /\ Refused(a).sel = a.sel
         /\ Answered(a, b) \in AnswerType /\ Answered(a, b).sel = a.sel
         /\ [a EXCEPT !.how = "meta"] \in AnswerType
         /\ [a EXCEPT !.how = "meta"].sel = a.sel
         /\ [a EXCEPT !.how = "data"] \in AnswerType
         /\ [a EXCEPT !.how = "data"].sel = a.sel
         /\ [a EXCEPT !.unread = TRUE] \in AnswerType
         /\ [a EXCEPT !.unread = TRUE].sel = a.sel
         /\ [a EXCEPT !.unread = TRUE].how = a.how
         /\ [a EXCEPT !.unread = FALSE] \in AnswerType
         /\ [a EXCEPT !.unread = FALSE].sel = a.sel
         /\ [a EXCEPT !.unread = FALSE].how = a.how
<1>1. Refused(a) \in AnswerType /\ Refused(a).sel = a.sel
  BY DEF AnswerType, Refused
<1>2. Answered(a, b) \in AnswerType /\ Answered(a, b).sel = a.sel
  <2>1. CASE b.copy.kind # a.target
    BY <1>1, <2>1 DEF Answered
  <2>2. CASE b.copy.kind = a.target
    <3> DEFINE h == IF b.size < IncrUnits THEN "data" ELSE "incr"
               u == b.size >= IncrUnits
    <3>1. Answered(a, b) = [a EXCEPT !.how = h, !.copy = b.copy,
                                     !.filled = b.ready, !.unread = u]
      BY <2>2 DEF Answered
    <3>2. h \in {"data", "incr"} /\ u \in BOOLEAN
      OBVIOUS
    <3>3. b.copy \in CopyType /\ b.ready \in Nat
      BY DEF IsBuffer, BufferType
    <3> HIDE DEF h, u
    <3> QED BY <3>1, <3>2, <3>3 DEF AnswerType
  <2> QED BY <2>1, <2>2
<1>3. /\ [a EXCEPT !.how = "meta"] \in AnswerType
      /\ [a EXCEPT !.how = "meta"].sel = a.sel
      /\ [a EXCEPT !.how = "data"] \in AnswerType
      /\ [a EXCEPT !.how = "data"].sel = a.sel
  BY DEF AnswerType
<1>4. /\ [a EXCEPT !.unread = TRUE] \in AnswerType
      /\ [a EXCEPT !.unread = TRUE].sel = a.sel
      /\ [a EXCEPT !.unread = FALSE] \in AnswerType
      /\ [a EXCEPT !.unread = FALSE].sel = a.sel
      /\ [a EXCEPT !.unread = TRUE].how = a.how
      /\ [a EXCEPT !.unread = FALSE].how = a.how
  BY DEF AnswerType
<1> QED BY <1>1, <1>2, <1>3, <1>4

(* The answers keep their types, and no request changes its selection.     *)
AnswersKept ==
  /\ answer' \in [Requests -> AnswerType]
  /\ \A r \in Requests :
       /\ answer'[r].sel = answer[r].sel
       /\ answer'[r].how # "none" => answer[r].sel \in Selections

LEMMA AnswerKept ==
  ASSUME Typed, NEW r, NEW a,
         r \in Requests => a \in AnswerType /\ a.sel = answer[r].sel,
         r \in Requests /\ a.how # "none" => answer[r].sel \in Selections,
         answer' = [answer EXCEPT ![r] = a]
  PROVE  AnswersKept
<1>1. /\ answer \in [Requests -> AnswerType]
      /\ \A q \in Requests : answer[q].how # "none" => answer[q].sel \in Selections
  BY DEF Typed
<1>2. ASSUME NEW q \in Requests
      PROVE  answer'[q] = IF q = r THEN a ELSE answer[q]
  BY <1>1
<1>3. answer' \in [Requests -> AnswerType]
  <2>1. CASE r \in Requests
    <3>1. a \in AnswerType
      BY <2>1
    <3>2. answer' = [answer EXCEPT ![r] = a]
      OBVIOUS
    <3> QED BY <1>1, <2>1, <3>1, <3>2
  <2>2. CASE r \notin Requests
    <3>1. answer' = answer
      BY <1>1, <2>2
    <3> QED BY <1>1, <3>1
  <2> QED BY <2>1, <2>2
<1>4. ASSUME NEW q \in Requests
      PROVE  /\ answer'[q].sel = answer[q].sel
             /\ answer'[q].how # "none" => answer[q].sel \in Selections
  <2>1. CASE q = r
    <3>1. answer'[q] = a
      BY <1>2, <2>1
    <3>2. a.sel = answer[q].sel
      BY <2>1
    <3>3. a.how # "none" => answer[q].sel \in Selections
      BY <2>1
    <3> QED BY <3>1, <3>2, <3>3
  <2>2. CASE q # r
    <3>1. answer'[q] = answer[q]
      BY <1>2, <2>2
    <3> QED BY <1>1, <3>1
  <2> QED BY <2>1, <2>2
<1> QED BY <1>3, <1>4 DEF AnswersKept

LEMMA AnswerSteps ==
  ASSUME Invariant, Incoming,
         \/ AnswerRequest \/ ScanDelayed \/ PruneDelayed \/ NextPortion
         \/ \E r \in Requests : AppDeletes(r)
  PROVE  AnswersKept
<1>1. /\ answer \in [Requests -> AnswerType] /\ Typed
      /\ \A s \in Selections : IsBuffer(inSel[s])
      /\ \A r \in Requests : answer[r].how # "none" => answer[r].sel \in Selections
  BY DEF Incoming, Typed
<1>2. ASSUME NEW r \in Requests
      PROVE  answer[r] \in AnswerType
  BY <1>1
<1>3. CASE AnswerRequest
  <2> DEFINE r == ev.arg b == inSel[ev.sel]
             a == IF ~b.owner \/ Older(r) THEN Refused(answer[r])
                  ELSE IF answer[r].target = "meta"
                       THEN [answer[r] EXCEPT !.how = "meta"]
                       ELSE Answered(answer[r], b)
  <2>1. answer' = [answer EXCEPT ![r] = a] /\ ev.type = "request" /\ spc = "handle"
    BY <1>3 DEF AnswerRequest, Handles
  <2>2. r \in Requests /\ ev.sel \in Selections /\ answer[r].sel = ev.sel
    BY <2>1 DEF Incoming, EventsNamed, Named
  <2>3. IsBuffer(b) /\ answer[r] \in AnswerType
    BY <1>1, <1>2, <2>2
  <2>4. a \in AnswerType /\ a.sel = answer[r].sel
    <3> HIDE DEF b, r
    <3> QED BY <2>3, AnswerChanges
  <2> HIDE DEF a, r
  <2> QED BY <1>1, <2>1, <2>2, <2>4, AnswerKept
<1>4. ASSUME ScanDelayed \/ PruneDelayed
      PROVE  AnswersKept
  <2> DEFINE r == delayed[pos] b == inSel[answer[r].sel]
  <2>1. /\ \/ answer' = [answer EXCEPT ![r] = Refused(answer[r])]
           \/ answer' = answer
           \/ answer' = [answer EXCEPT ![r] = Answered(answer[r], b)]
        /\ pos <= Len(delayed)
    BY <1>4 DEF ScanDelayed, PruneDelayed
  <2>2. pos \in 1 .. Len(delayed)
    BY <2>1, DelayedParts DEF Invariant, Shape
  <2>3. r \in Requests /\ Waits(r)
    BY <2>2, DelayedParts DEF Invariant, Waits
  <2>4. answer[r].how = "pending"
    BY <2>3 DEF Invariant, AtOnePlace
  <2>5. answer[r].sel \in Selections /\ answer[r] \in AnswerType
    BY <1>1, <1>2, <2>3, <2>4
  <2>6. IsBuffer(b)
    BY <1>1, <2>5
  <2> HIDE DEF r, b
  <2>7. /\ Refused(answer[r]) \in AnswerType
        /\ Refused(answer[r]).sel = answer[r].sel
        /\ Answered(answer[r], b) \in AnswerType
        /\ Answered(answer[r], b).sel = answer[r].sel
    BY <2>5, <2>6, AnswerChanges
  <2>8. CASE answer' = answer
    BY <1>1, <2>8 DEF AnswersKept
  <2>9. CASE answer' = [answer EXCEPT ![r] = Refused(answer[r])]
    BY <1>1, <2>5, <2>7, <2>9, AnswerKept
  <2>10. CASE answer' = [answer EXCEPT ![r] = Answered(answer[r], b)]
    BY <1>1, <2>5, <2>7, <2>10, AnswerKept
  <2> QED BY <2>1, <2>8, <2>9, <2>10
<1>5. CASE NextPortion
  <2> DEFINE r == ev.arg
  <2>1. PICK i \in DOMAIN incr :
          /\ incr[i].req = r
          /\ \/ answer' = [answer EXCEPT ![r] = [answer[r] EXCEPT !.unread = TRUE]]
             \/ answer' = [answer EXCEPT ![r] = [answer[r] EXCEPT !.how = "data"]]
    BY <1>5 DEF NextPortion
  <2>2. i \in 1 .. Len(incr)
    BY SequenceParts DEF Invariant, Shape
  <2>3. r \in Requests => answer[r].how \in {"incr", "data"}
    BY <2>1, <2>2 DEF Invariant, Begun
  <2>4. r \in Requests => answer[r].sel \in Selections /\ answer[r] \in AnswerType
    BY <1>1, <1>2, <2>3
  <2>5. IsBuffer(Empty)
    BY EmptyIsBuffer
  <2> DEFINE x == [answer[r] EXCEPT !.unread = TRUE]
             y == [answer[r] EXCEPT !.how = "data"]
  <2>6. r \in Requests => /\ x \in AnswerType /\ x.sel = answer[r].sel
                         /\ y \in AnswerType /\ y.sel = answer[r].sel
    BY <2>4, <2>5, AnswerChanges
  <2>7. answer' = [answer EXCEPT ![r] = x] \/ answer' = [answer EXCEPT ![r] = y]
    BY <2>1
  <2> HIDE DEF x, y, r
  <2> QED BY <1>1, <2>4, <2>6, <2>7, AnswerKept
<1>6. ASSUME NEW r \in Requests, AppDeletes(r)
      PROVE  AnswersKept
  <2> DEFINE x == [answer[r] EXCEPT !.unread = FALSE]
  <2>1. answer' = [answer EXCEPT ![r] = x]
    BY <1>6 DEF AppDeletes
  <2>2. x \in AnswerType /\ x.sel = answer[r].sel /\ x.how = answer[r].how
    BY <1>2, EmptyIsBuffer, AnswerChanges
  <2> HIDE DEF x
  <2> QED BY <1>1, <2>1, <2>2, AnswerKept
<1> QED BY <1>3, <1>4, <1>5, <1>6

-----------------------------------------------------------------------------
(* Events of requests go on naming the selections of their requests.       *)

LEMMA NamesKept ==
  ASSUME Invariant, EventsNamed, Grown,
         \A r \in Requests : answer'[r].sel = answer[r].sel,
         ev' = ev, ev.type = "request" /\ spc' # "wait" => spc # "wait"
  PROVE  EventsNamed'
<1>1. ASSUME NEW e, Named(answer, e) PROVE Named(answer', e)
  BY <1>1 DEF Named
<1>2. ASSUME NEW i \in 1 .. Len(xq') PROVE Named(answer', xq'[i])
  <2>1. CASE i \in 1 .. Len(xq)
    <3>1. xq'[i] = xq[i] /\ Named(answer, xq[i])
      BY <2>1 DEF Grown, EventsNamed
    <3> QED BY <1>1, <3>1
  <2>2. CASE i \notin 1 .. Len(xq)
    <3>1. xq'[i].type # "request"
      BY <2>2 DEF Grown
    <3> QED BY <3>1 DEF Named
  <2> QED BY <2>1, <2>2
<1>3. spc' # "wait" => Named(answer', ev')
  <2>1. CASE ev.type = "request"
    BY <1>1, <2>1 DEF EventsNamed
  <2>2. CASE ev.type # "request"
    BY <2>2 DEF Named
  <2> QED BY <2>1, <2>2
<1> QED BY <1>2, <1>3 DEF EventsNamed

LEMMA WakeNames == ASSUME Invariant, EventsNamed, Wake PROVE EventsNamed'
<1>1. xq # <<>> /\ ev' = Head(xq) /\ xq' = Tail(xq) /\ UNCHANGED answer
  BY DEF Wake
<1>2. /\ ev' = xq[1] /\ Len(xq) \in Nat \ {0} /\ Len(xq') = Len(xq) - 1
      /\ \A i \in 1 .. Len(xq') : xq'[i] = xq[i + 1]
  BY <1>1, SequenceParts, TailAny DEF Invariant, Shape
<1>3. ASSUME NEW e, Named(answer, e) PROVE Named(answer', e)
  BY <1>1, <1>3 DEF Named
<1>4. 1 \in 1 .. Len(xq) /\ \A i \in 1 .. Len(xq') : i + 1 \in 1 .. Len(xq)
  BY <1>2
<1>5. Named(answer, xq[1]) /\ \A i \in 1 .. Len(xq') : Named(answer, xq[i + 1])
  BY <1>4 DEF EventsNamed
<1>6. Named(answer', ev')
  BY <1>2, <1>3, <1>5
<1>7. \A i \in 1 .. Len(xq') : Named(answer', xq'[i])
  BY <1>2, <1>3, <1>5
<1> QED BY <1>6, <1>7 DEF EventsNamed

LEMMA PasteTypes ==
  ASSUME Typed, NEW r \in Requests, NEW s \in Selections,
         NEW target \in ClientKinds \cup {"meta"}, NEW t \in {0, clock},
         AppPastes(r, s, target, t)
  PROVE  /\ answer' \in [Requests -> AnswerType] /\ answer'[r].sel = s
         /\ \A q \in Requests : /\ q # r => answer'[q] = answer[q]
                                /\ answer'[q].how # "none" =>
                                     answer'[q].sel \in Selections
         /\ answer[r].how = "none"
<1> DEFINE a == [answer[r] EXCEPT !.how = "pending", !.sel = s,
                                  !.target = target, !.time = t]
<1>1. answer \in [Requests -> AnswerType] /\ t \in Nat
      /\ \A q \in Requests : answer[q].how # "none" => answer[q].sel \in Selections
  BY DEF Typed
<1>2. answer' = [answer EXCEPT ![r] = a] /\ answer[r].how = "none"
  BY DEF AppPastes
<1>3. answer[r] \in AnswerType
  BY <1>1
<1>4. a \in AnswerType /\ a.sel = s
  BY <1>1, <1>3 DEF AnswerType
<1> HIDE DEF a
<1>5. answer' \in [Requests -> AnswerType] /\ answer'[r] = a
      /\ \A q \in Requests : q # r => answer'[q] = answer[q]
  BY <1>1, <1>2, <1>4
<1> QED BY <1>1, <1>2, <1>4, <1>5

LEMMA PasteNames ==
  ASSUME Invariant, Typed, EventsNamed, NEW r \in Requests, NEW s \in Selections,
         NEW target \in ClientKinds \cup {"meta"}, NEW t \in {0, clock},
         AppPastes(r, s, target, t)
  PROVE  EventsNamed'
<1> DEFINE e == Event("request", s, r)
<1>1. /\ answer'[r].sel = s /\ answer[r].how = "none"
      /\ \A q \in Requests : q # r => answer'[q] = answer[q]
  BY PasteTypes
<1>2. xq' = Append(xq, e) /\ UNCHANGED <<spc, ev>>
  BY DEF AppPastes, thread
<1>3. e.type = "request" /\ e.sel = s /\ e.arg = r
  BY DEF Event
<1> HIDE DEF e
<1>4. /\ Len(xq) \in Nat /\ Len(xq') = Len(xq) + 1
      /\ \A i \in 1 .. Len(xq) : xq'[i] = xq[i]
      /\ xq'[Len(xq) + 1] = e
  BY <1>2, SequenceParts, AppendAny DEF Invariant, Shape
<1>5. ~Arrives(r) /\ ~Handled(r)
  BY <1>1 DEF Invariant, AtOnePlace
<1>6. ASSUME NEW x, Named(answer, x), ~Asked(x, r) PROVE Named(answer', x)
  BY <1>1, <1>6 DEF Named, Asked
<1>7. Named(answer', e)
  BY <1>1, <1>3 DEF Named
<1>8. ASSUME NEW i \in 1 .. Len(xq') PROVE Named(answer', xq'[i])
  <2>1. CASE i \in 1 .. Len(xq)
    <3>1. Named(answer, xq[i]) /\ ~Asked(xq[i], r) /\ xq'[i] = xq[i]
      BY <1>4, <1>5, <2>1 DEF EventsNamed, Arrives
    <3> QED BY <1>6, <3>1
  <2>2. CASE i \notin 1 .. Len(xq)
    <3>1. i = Len(xq) + 1
      BY <1>4, <2>2
    <3> QED BY <1>4, <1>7, <3>1
  <2> QED BY <2>1, <2>2
<1>9. spc' # "wait" => Named(answer', ev')
  <2> SUFFICES ASSUME spc' # "wait" PROVE Named(answer', ev')
    OBVIOUS
  <2>1. Named(answer, ev) /\ ~Asked(ev, r)
    BY <1>2, <1>5 DEF EventsNamed, Handled
  <2> QED BY <1>2, <1>6, <2>1
<1> QED BY <1>8, <1>9 DEF EventsNamed

LEMMA NextNamed ==
  ASSUME Invariant, Incoming, [Next]_vars
  PROVE  EventsNamed'
<1>1. Shape /\ EventsNamed /\ Typed
  BY DEF Invariant, Incoming
<1>2. ASSUME Elsewhere, UNCHANGED answer \/ AnswersKept
      PROVE  EventsNamed'
  <2>1. \A r \in Requests : answer'[r].sel = answer[r].sel
    BY <1>2 DEF AnswersKept
  <2>2. /\ Grown /\ ev' = ev
        /\ ev.type = "request" /\ spc' # "wait" => spc # "wait"
    BY <1>2 DEF Elsewhere
  <2> QED BY <1>1, <2>1, <2>2, NamesKept
<1>3. ASSUME UNCHANGED <<xq, ev>>, UNCHANGED answer \/ AnswersKept,
             ev.type = "request" /\ spc' # "wait" => spc # "wait"
      PROVE  EventsNamed'
  <2>1. \A r \in Requests : answer'[r].sel = answer[r].sel
    BY <1>3 DEF AnswersKept
  <2>2. Grown
    BY <1>1, <1>3, GrownNot
  <2> QED BY <1>1, <1>3, <2>1, <2>2, NamesKept
<1>4. CASE MainThread
  <2>1. UNCHANGED answer
    BY <1>4 DEF MainThread, ReadNotify, ReadChunk, ReadRest, ReadDemand
  <2>2. Elsewhere
    BY <1>1, <1>4, ReadNotifyStep, ReadChunkStep, ClientStep, OneEventStep
       DEF MainThread
  <2> QED BY <1>2, <2>1, <2>2
<1>5. CASE SelectionThread
  <2>1. CASE Wake
    BY <1>1, <2>1, WakeNames
  <2>2. CASE ScanDone \/ PruneDone
    <3>1. Elsewhere /\ UNCHANGED answer
      BY <1>1, <2>2, WalkStep DEF ScanDone, PruneDone
    <3> QED BY <1>2, <3>1
  <2>3. CASE DataReady \/ OwnerChanged \/ DataDemanded \/ ConversionDone \/ PropertyChanged
    <3>1. Elsewhere /\ UNCHANGED answer
      BY <1>1, <2>3, OtherEventStep
         DEF DataReady, OwnerChanged, DataDemanded, ConversionDone, PropertyChanged
    <3> QED BY <1>2, <3>1
  <2>4. CASE ScanDelayed \/ PruneDelayed
    <3>1. AnswersKept
      BY <2>4, AnswerSteps
    <3>2. UNCHANGED <<xq, ev, spc>>
      BY <2>4 DEF ScanDelayed, PruneDelayed
    <3> QED BY <1>3, <3>1, <3>2
  <2>5. CASE AnswerRequest \/ NextPortion
    <3>1. AnswersKept
      BY <2>5, AnswerSteps
    <3>2. UNCHANGED <<xq, ev>> /\ spc' = "wait"
      BY <2>5 DEF AnswerRequest, NextPortion, Handles
    <3> QED BY <1>3, <3>1, <3>2
  <2>6. CASE DelayRequest
    <3>1. UNCHANGED <<xq, ev, answer>> /\ spc' = "wait"
      BY <2>6 DEF DelayRequest, Handles
    <3> QED BY <1>3, <3>1
  <2> QED BY <1>5, <2>1, <2>2, <2>3, <2>4, <2>5, <2>6 DEF SelectionThread
<1>6. CASE SendingThread
  <2>1. UNCHANGED <<xq, ev, spc, answer>>
    BY <1>6 DEF SendingThread, SendChunk, SendRequest, thread
  <2> QED BY <1>3, <2>1
<1>7. CASE Environment
  <2>1. CASE \/ Tick \/ ClientReads \/ ClientLeaves \/ ClientArrives
             \/ \E s \in Selections :
                  (\E k \in ClientKinds : ClientCopies(s, k)) \/ ClientDemands(s)
    <3>1. UNCHANGED <<xq, ev, spc, answer>>
      BY <2>1 DEF Tick, ClientReads, ClientLeaves, ClientArrives, ClientCopies,
                  ClientDemands, thread
    <3> QED BY <1>3, <3>1
  <2>2. ASSUME NEW s \in Selections, NEW k \in AppKinds, AppCopies(s, k)
        PROVE  EventsNamed'
    <3>1. Elsewhere /\ UNCHANGED answer
      BY <1>1, <2>2, OneEventStep DEF AppCopies
    <3> QED BY <1>2, <3>1
  <2>3. ASSUME NEW s \in Selections, AppConverts(s) \/ AppPortion(s)
        PROVE  EventsNamed'
    <3>1. Elsewhere /\ UNCHANGED answer
      BY <1>1, <2>3, AppsElsewhere DEF AppConverts, AppPortion
    <3> QED BY <1>2, <3>1
  <2>4. ASSUME NEW s \in Selections, NEW r \in Requests,
               NEW target \in ClientKinds \cup {"meta"}, NEW t \in {0, clock},
               AppPastes(r, s, target, t)
        PROVE  EventsNamed'
    BY <1>1, <2>4, PasteNames
  <2>5. ASSUME NEW r \in Requests, AppDeletes(r) PROVE EventsNamed'
    <3>1. Elsewhere
      BY <1>1, <2>5, OneEventStep
    <3>2. AnswersKept
      BY <2>5, AnswerSteps
    <3> QED BY <1>2, <3>1, <3>2
  <2> QED BY <1>7, <2>1, <2>2, <2>3, <2>4, <2>5 DEF Environment
<1>8. CASE UNCHANGED vars
  <2>1. UNCHANGED <<xq, ev, spc, answer>>
    BY <1>8 DEF vars, thread
  <2> QED BY <1>3, <2>1
<1> QED BY <1>4, <1>5, <1>6, <1>7, <1>8 DEF Next

-----------------------------------------------------------------------------
(* Types.                                                                  *)

RemoteTyped ==
  DOMAIN remote = Selections /\ \A s \in Selections : IsRemote(remote[s])

(* What the client has is what it had.                                     *)
SameCopies ==
  \A s \in Selections :
    remote'[s].copy = remote[s].copy /\ remote'[s].heard = remote[s].heard

LEMMA HearsRemote ==
  ASSUME RemoteTyped, NEW m, m.sel \in Selections, Hears(m)
  PROVE  /\ RemoteTyped' /\ remote'[m.sel].heard = m.copy.ver
         /\ \A s \in Selections : remote'[s].copy = remote[s].copy
         /\ \A s \in Selections : s # m.sel => remote'[s] = remote[s]
<1> DEFINE x == [remote[m.sel] EXCEPT !.heard = m.copy.ver]
<1>1. remote' = [remote EXCEPT ![m.sel] = x]
  BY DEF Hears
<1>2. IsRemote(x) /\ x.heard = m.copy.ver /\ x.copy = remote[m.sel].copy
  BY DEF IsRemote, RemoteTyped
<1> HIDE DEF x
<1>3. DOMAIN remote' = Selections /\ remote'[m.sel] = x
      /\ \A s \in Selections : s # m.sel => remote'[s] = remote[s]
  BY <1>1 DEF RemoteTyped
<1> QED BY <1>2, <1>3 DEF RemoteTyped

(* What the client gets: chunks go through their queue first.              *)
Queue(q) ==
  /\ Sequence(q)
  /\ \A i \in 1 .. Len(q) :
       /\ q[i].type \in {"request", "notify", "chunk"}
       /\ q[i].type = "request" => q[i].sel \in Selections

Queues == Queue(toClient) /\ Queue(chunks)

LEMMA QueueHead ==
  ASSUME NEW q, Queue(q), q # <<>>
  PROVE  /\ Queue(Tail(q)) /\ Head(q) = q[1]
         /\ Head(q).type \in {"request", "notify", "chunk"}
         /\ Head(q).type = "request" => Head(q).sel \in Selections
<1>1. /\ Sequence(Tail(q)) /\ Len(Tail(q)) = Len(q) - 1 /\ Head(q) = q[1]
      /\ \A i \in 1 .. Len(Tail(q)) : Tail(q)[i] = q[i + 1]
  BY TailAny DEF Queue
<1>2. Len(q) \in Nat \ {0}
  BY SequenceParts DEF Queue
<1>3. 1 \in 1 .. Len(q) /\ \A i \in 1 .. Len(Tail(q)) : i + 1 \in 1 .. Len(q)
  BY <1>1, <1>2
<1> QED BY <1>1, <1>3 DEF Queue

LEMMA ReadsRemote ==
  ASSUME RemoteTyped, Queues, ClientReads
  PROVE  RemoteTyped' /\ SameCopies
<1> DEFINE m == Head(toClient) s == m.sel
<1>1. \/ UNCHANGED remote
      \/ \E p, f : remote' = [remote EXCEPT ![s].phase = p, ![s].from = f]
  <2>1. m.type \in {"request", "notify", "chunk"}
    BY QueueHead DEF ClientReads, Queues
  <2>2. CASE m.type = "request"
    BY <2>2 DEF ClientReads
  <2>3. CASE m.type = "notify"
    BY <2>3 DEF ClientReads
  <2>4. CASE m.type = "chunk"
    <3> DEFINE P == IF ~m.first /\ remote[s].phase # "open" THEN "broken"
                    ELSE IF m.last THEN "done" ELSE "open"
               F == (IF m.first THEN {} ELSE remote[s].from) \cup {m.src}
    <3>1. remote' = [remote EXCEPT ![s].phase = P, ![s].from = F]
      BY <2>4 DEF ClientReads
    <3> HIDE DEF P, F
    <3> QED BY <3>1
  <2> QED BY <2>1, <2>2, <2>3, <2>4
<1> HIDE DEF s
<1>2. CASE UNCHANGED remote
  BY <1>2 DEF RemoteTyped, SameCopies
<1>3. ASSUME NEW p, NEW f,
             remote' = [remote EXCEPT ![s].phase = p, ![s].from = f]
      PROVE  RemoteTyped' /\ SameCopies
  <2>1. DOMAIN remote' = Selections
    BY <1>3 DEF RemoteTyped
  <2>2. ASSUME NEW t \in Selections
        PROVE  /\ DOMAIN remote'[t] = DOMAIN remote[t]
               /\ remote'[t].copy = remote[t].copy
               /\ remote'[t].heard = remote[t].heard
    <3>1. CASE t = s
      <4>1. DOMAIN remote[t] = {"copy", "heard", "phase", "from"}
        BY DEF RemoteTyped, IsRemote
      <4> QED BY <1>3, <3>1, <4>1 DEF RemoteTyped
    <3>2. CASE t # s
      <4>1. remote'[t] = remote[t]
        BY <1>3, <3>2 DEF RemoteTyped
      <4> QED BY <4>1
    <3> QED BY <3>1, <3>2
  <2> QED BY <2>1, <2>2 DEF RemoteTyped, IsRemote, SameCopies
<1> QED BY <1>1, <1>2, <1>3

LEMMA DemandsRemote ==
  ASSUME RemoteTyped, NEW s \in Selections, ClientDemands(s)
  PROVE  RemoteTyped' /\ SameCopies
<1> DEFINE x == [remote[s] EXCEPT !.phase = "asked"]
<1>1. remote' = [remote EXCEPT ![s] = x]
  BY DEF ClientDemands
<1>2. IsRemote(x) /\ x.heard = remote[s].heard /\ x.copy = remote[s].copy
  BY DEF IsRemote, RemoteTyped
<1> HIDE DEF x
<1>3. DOMAIN remote' = Selections /\ remote'[s] = x
      /\ \A t \in Selections : t # s => remote'[t] = remote[t]
  BY <1>1 DEF RemoteTyped
<1> QED BY <1>2, <1>3 DEF RemoteTyped, SameCopies

LEMMA CopiesRemote ==
  ASSUME RemoteTyped, version \in Nat, NEW s \in Selections, NEW k \in ClientKinds,
         ClientCopies(s, k)
  PROVE  LET c == [ver |-> version + 1, kind |-> k]
         IN  /\ RemoteTyped' /\ c \in Copies /\ remote'[s].copy = c
             /\ \A t \in Selections : remote'[t].heard = remote[t].heard
             /\ \A t \in Selections : t # s => remote'[t] = remote[t]
<1> DEFINE c == [ver |-> version + 1, kind |-> k]
           x == [remote[s] EXCEPT !.copy = c]
<1>1. remote' = [remote EXCEPT ![s] = x]
  BY DEF ClientCopies
<1>2. c \in Copies
  BY DEF Copies
<1> HIDE DEF c
<1>3. IsRemote(x) /\ x.heard = remote[s].heard /\ x.copy = c
  BY <1>2 DEF IsRemote, RemoteTyped
<1> HIDE DEF x
<1>4. DOMAIN remote' = Selections /\ remote'[s] = x
      /\ \A t \in Selections : t # s => remote'[t] = remote[t]
  BY <1>1 DEF RemoteTyped
<1>5. /\ RemoteTyped' /\ c \in Copies /\ remote'[s].copy = c
      /\ \A t \in Selections : remote'[t].heard = remote[t].heard
      /\ \A t \in Selections : t # s => remote'[t] = remote[t]
  BY <1>2, <1>3, <1>4 DEF RemoteTyped
<1> QED BY <1>5 DEF c

LEMMA LeavesRemote ==
  ASSUME RemoteTyped, ClientLeaves
  PROVE  /\ RemoteTyped'
         /\ \A s \in Selections : remote'[s].heard = remote[s].heard
<1>1. remote' = [s \in Selections |->
        [remote[s] EXCEPT !.copy = NoCopy, !.phase = "none", !.from = {}]]
  BY DEF ClientLeaves
<1>2. ASSUME NEW s \in Selections
      PROVE  IsRemote(remote'[s]) /\ remote'[s].heard = remote[s].heard
  <2>1. DOMAIN remote[s] = {"copy", "heard", "phase", "from"}
    BY DEF RemoteTyped, IsRemote
  <2>2. remote'[s] = [remote[s] EXCEPT !.copy = NoCopy, !.phase = "none", !.from = {}]
    BY <1>1
  <2> QED BY <2>1, <2>2 DEF IsRemote
<1> QED BY <1>1, <1>2 DEF RemoteTyped

BuffersTyped == DOMAIN inSel = Selections /\ \A s \in Selections : IsBuffer(inSel[s])

LEMMA OneBuffer ==
  ASSUME BuffersTyped, NEW s \in Selections, NEW b, IsBuffer(b),
         inSel' = [inSel EXCEPT ![s] = b]
  PROVE  /\ BuffersTyped' /\ inSel'[s] = b
         /\ \A t \in Selections : t # s => inSel'[t] = inSel[t]
BY DEF BuffersTyped

(* The message ReadChunk reads, and the buffer it leaves.                  *)
LEMMA ChunkBuffer ==
  ASSUME BuffersTyped, clock \in Nat, Stream(toServer), HeadFits, ReadChunk
  PROVE  LET m == toServer[1] b == inSel'[m.sel]
         IN  /\ toServer # <<>> /\ m.type = "chunk" /\ OfClient(m) /\ Hears(m)
             /\ toServer' = Tail(toServer)
             /\ BuffersTyped'
             /\ \A t \in Selections : t # m.sel => inSel'[t] = inSel[t]
             /\ b.copy = m.copy /\ b.size = Size[m.copy.kind]
             /\ b.ready \in Nat \ {0}
             /\ Torn(m.copy.kind) =>
                  b.ready < b.size /\ b.ready < ChunkUnits * m.part
             /\ ~Torn(m.copy.kind) =>
                  /\ b.ready = b.size <=> ~Unfinished(m)
                  /\ Unfinished(m) => b.ready = ChunkUnits * m.part
             /\ m.part = 1 => b.ready = AtMost(m.size, EventUnits)
             /\ b.ready = b.size => b.state = "COMPLETED"
             /\ b.ready # b.size => /\ b.state = inSel[m.sel].state
                                    /\ b.owner = inSel[m.sel].owner
<1> DEFINE m == toServer[1] s == m.sel
           x == [Started(inSel[s], m) EXCEPT !.ready = @ + AtMost(m.size, EventUnits)]
           y == IF OwnNow(x) THEN Owned(x) ELSE x
           z == [y EXCEPT !.state = "COMPLETED"]
<1>1. toServer # <<>> /\ Head(toServer) = m /\ OfClient(m)
  <2>1. toServer # <<>>
    BY DEF ReadChunk, MainReads
  <2> QED BY <2>1, StreamTail
<1>2. /\ m.type = "chunk" /\ Hears(m) /\ toServer' = Tail(toServer)
      /\ \/ x.ready # x.size /\ inSel' = [inSel EXCEPT ![s] = x]
         \/ x.ready = x.size /\ inSel' = [inSel EXCEPT ![s] = z]
  BY <1>1 DEF ReadChunk, MainReads
<1>3. s \in Selections
  BY <1>1 DEF OfClient
<1>4. IsBuffer(inSel[s]) /\ (Within(m) => Filled(inSel[s], m))
  BY <1>1, <1>3 DEF BuffersTyped, HeadFits
<1>5. /\ IsBuffer(x) /\ x.copy = m.copy /\ x.size = Size[m.copy.kind]
      /\ x.state = inSel[s].state /\ x.owner = inSel[s].owner
      /\ x.ready \in Nat \ {0}
      /\ Torn(m.copy.kind) =>
           x.ready < x.size /\ x.ready < ChunkUnits * m.part
      /\ ~Torn(m.copy.kind) =>
           /\ x.ready = x.size <=> ~Unfinished(m)
           /\ Unfinished(m) => x.ready = ChunkUnits * m.part
      /\ m.part = 1 => x.ready = AtMost(m.size, EventUnits)
  <2>1. m.type = "chunk"
    BY <1>2
  <2> HIDE DEF m, s
  <2> QED BY <1>1, <1>4, <2>1, BufferRead
<1> HIDE DEF x, m
<1>6. /\ IsBuffer(y) /\ y.copy = x.copy /\ y.size = x.size /\ y.ready = x.ready
  BY <1>5, BufferOwned
<1> HIDE DEF y
<1>7. /\ IsBuffer(z) /\ z.copy = x.copy /\ z.size = x.size /\ z.ready = x.ready
      /\ z.state = "COMPLETED"
  <2>1. "COMPLETED" \in {"NOTIFIED", "REQUESTED", "COMPLETED"}
    OBVIOUS
  <2> QED BY <1>6, <2>1, BufferState
<1> HIDE DEF z, s
<1>8. CASE x.ready # x.size
  <2>1. /\ BuffersTyped' /\ inSel'[s] = x
        /\ \A t \in Selections : t # s => inSel'[t] = inSel[t]
    BY <1>2, <1>3, <1>5, <1>8, OneBuffer
  <2> QED BY <1>1, <1>2, <1>5, <1>8, <2>1 DEF m, s
<1>9. CASE x.ready = x.size
  <2>1. /\ BuffersTyped' /\ inSel'[s] = z
        /\ \A t \in Selections : t # s => inSel'[t] = inSel[t]
    BY <1>2, <1>3, <1>7, <1>9, OneBuffer
  <2> QED BY <1>1, <1>2, <1>5, <1>7, <1>9, <2>1 DEF m, s
<1> QED BY <1>8, <1>9

(* The message ReadNotify reads, and the buffer it leaves.                 *)
LEMMA NotifyBuffer ==
  ASSUME BuffersTyped, clock \in Nat, Stream(toServer), ReadNotify
  PROVE  LET m == toServer[1]
         IN  /\ toServer # <<>> /\ m.type = "notify" /\ OfClient(m) /\ Hears(m)
             /\ toServer' = Tail(toServer)
             /\ BuffersTyped'
             /\ \A t \in Selections : t # m.sel => inSel'[t] = inSel[t]
             /\ inSel'[m.sel].state = "NOTIFIED"
             /\ inSel'[m.sel].copy.kind = m.copy.kind
<1> DEFINE m == toServer[1] s == m.sel
           x == [Announced(inSel[s]) EXCEPT !.copy.kind = m.copy.kind]
           y == Owned(x)
<1>1. toServer # <<>> /\ Head(toServer) = m /\ OfClient(m)
  <2>1. toServer # <<>>
    BY DEF ReadNotify, MainReads
  <2> QED BY <2>1, StreamTail
<1>2. /\ m.type = "notify" /\ Hears(m) /\ toServer' = Tail(toServer)
      /\ inSel' = [inSel EXCEPT ![s] = y]
  BY <1>1 DEF ReadNotify, MainReads
<1>3. s \in Selections /\ m.copy.kind \in ClientKinds
  BY <1>1, <1>2 DEF OfClient, Copies
<1>4. IsBuffer(inSel[s])
  BY <1>3 DEF BuffersTyped
<1>5. IsBuffer(x) /\ x.state = "NOTIFIED" /\ x.copy.kind = m.copy.kind
  BY <1>3, <1>4, BufferAnnounced
<1> HIDE DEF x, m
<1>6. IsBuffer(y) /\ y.state = "NOTIFIED" /\ y.copy.kind = m.copy.kind
  BY <1>5, BufferOwned
<1> HIDE DEF y, s
<1>7. /\ BuffersTyped' /\ inSel'[s] = y
      /\ \A t \in Selections : t # s => inSel'[t] = inSel[t]
  BY <1>2, <1>3, <1>6, OneBuffer
<1> QED BY <1>1, <1>2, <1>6, <1>7 DEF m, s

(* The selection thread leaves the data of the buffers alone.              *)
SameData ==
  \A s \in Selections :
    /\ inSel'[s].copy = inSel[s].copy /\ inSel'[s].size = inSel[s].size
    /\ inSel'[s].ready = inSel[s].ready
    /\ inSel'[s].state = "COMPLETED" => inSel[s].state = "COMPLETED"

LEMMA ThreadBuffers ==
  ASSUME BuffersTyped, clock \in Nat, DelayRequest \/ OwnerChanged
  PROVE  BuffersTyped' /\ SameData
<1> DEFINE s == ev.sel b == inSel[s]
           x == [b EXCEPT !.state = IF @ = "NOTIFIED" THEN "REQUESTED" ELSE @]
           y == Disowned(b)
<1>1. UNCHANGED inSel \/ inSel' = [inSel EXCEPT ![s] = x] \/ inSel' = [inSel EXCEPT ![s] = y]
  BY DEF DelayRequest, OwnerChanged
<1>2. CASE UNCHANGED inSel \/ s \notin Selections
  <2>1. DOMAIN inSel' = Selections /\ \A t \in Selections : inSel'[t] = inSel[t]
    <3>1. CASE UNCHANGED inSel
      BY <3>1 DEF BuffersTyped
    <3>2. CASE s \notin Selections /\ ~UNCHANGED inSel
      <4> HIDE DEF x, y, s
      <4> QED BY <1>1, <3>2 DEF BuffersTyped
    <3> QED BY <1>2, <3>1, <3>2
  <2> QED BY <2>1 DEF BuffersTyped, SameData
<1>3. CASE s \in Selections /\ ~UNCHANGED inSel
  <2>1. IsBuffer(b)
    BY <1>3 DEF BuffersTyped
  <2> DEFINE st == IF b.state = "NOTIFIED" THEN "REQUESTED" ELSE b.state
  <2>2. /\ st \in {"NOTIFIED", "REQUESTED", "COMPLETED"}
        /\ st = "COMPLETED" => b.state = "COMPLETED"
    BY <2>1 DEF IsBuffer, BufferType
  <2>3. x = [b EXCEPT !.state = st]
    OBVIOUS
  <2> HIDE DEF st, b, x
  <2>4. /\ IsBuffer(x) /\ x.copy = b.copy /\ x.size = b.size /\ x.ready = b.ready
        /\ x.state = st
    BY <2>1, <2>2, <2>3, BufferState
  <2>5. /\ IsBuffer(y) /\ y.copy = b.copy /\ y.size = b.size /\ y.ready = b.ready
        /\ y.state = b.state
    BY <2>1, BufferOwned
  <2> HIDE DEF y
  <2>6. PICK z \in {x, y} : inSel' = [inSel EXCEPT ![s] = z]
    BY <1>1, <1>3
  <2>7. /\ IsBuffer(z) /\ z.copy = b.copy /\ z.size = b.size /\ z.ready = b.ready
        /\ z.state = "COMPLETED" => b.state = "COMPLETED"
    BY <2>2, <2>4, <2>5, <2>6
  <2> HIDE DEF s
  <2>8. /\ BuffersTyped' /\ inSel'[s] = z
        /\ \A t \in Selections : t # s => inSel'[t] = inSel[t]
    BY <1>3, <2>6, <2>7, OneBuffer
  <2>9. b = inSel[s]
    BY DEF b
  <2> QED BY <2>7, <2>8, <2>9 DEF SameData
<1> QED BY <1>2, <1>3

LEMMA NextTyped ==
  ASSUME Invariant, Incoming, Queues, [Next]_vars
  PROVE  Typed'
<1>1. /\ BuffersTyped /\ RemoteTyped /\ DOMAIN requested = Selections
      /\ answer \in [Requests -> AnswerType]
      /\ \A r \in Requests : answer[r].how # "none" => answer[r].sel \in Selections
      /\ clock \in Nat /\ version \in Nat /\ conns \in Nat \ {0}
      /\ Stream(toServer) /\ HeadFits /\ Typed
  BY DEF Incoming, Typed, BuffersTyped, RemoteTyped
<1>2. UNCHANGED answer \/ AnswersKept =>
        /\ answer' \in [Requests -> AnswerType]
        /\ \A r \in Requests : answer'[r].how # "none" => answer'[r].sel \in Selections
  BY <1>1 DEF AnswersKept
<1>3. ASSUME BuffersTyped', UNCHANGED answer \/ AnswersKept, RemoteTyped',
             DOMAIN requested' = Selections, clock' \in Nat, version' \in Nat,
             conns' \in Nat \ {0}
      PROVE  Typed'
  BY <1>2, <1>3 DEF Typed, BuffersTyped, RemoteTyped
<1>4. /\ UNCHANGED inSel => BuffersTyped'
      /\ UNCHANGED remote => RemoteTyped'
      /\ UNCHANGED requested => DOMAIN requested' = Selections
      /\ UNCHANGED <<clock, version, conns>> =>
           clock' \in Nat /\ version' \in Nat /\ conns' \in Nat \ {0}
  BY <1>1 DEF BuffersTyped, RemoteTyped
<1>5. CASE MainThread
  <2>1. UNCHANGED <<answer, requested, clock, version, conns>>
    BY <1>5 DEF MainThread, ReadNotify, ReadChunk, ReadRest, ReadDemand, incoming
  <2>2. CASE ReadNotify
    <3>1. /\ BuffersTyped' /\ OfClient(toServer[1]) /\ Hears(toServer[1])
      BY <1>1, <2>2, NotifyBuffer
    <3>2. RemoteTyped'
      BY <1>1, <3>1, HearsRemote DEF OfClient
    <3> QED BY <1>3, <1>4, <2>1, <3>1, <3>2
  <2>3. CASE ReadChunk
    <3>1. /\ BuffersTyped' /\ OfClient(toServer[1]) /\ Hears(toServer[1])
      BY <1>1, <2>3, ChunkBuffer
    <3>2. RemoteTyped'
      BY <1>1, <3>1, HearsRemote DEF OfClient
    <3> QED BY <1>3, <1>4, <2>1, <3>1, <3>2
  <2>4. CASE ReadRest \/ ReadDemand
    <3>1. UNCHANGED <<inSel, remote>>
      BY <2>4 DEF ReadRest, ReadDemand, incoming
    <3> QED BY <1>3, <1>4, <2>1, <3>1
  <2> QED BY <1>5, <2>2, <2>3, <2>4 DEF MainThread
<1>6. CASE SelectionThread
  <2>1. UNCHANGED <<remote, clock, version, conns>>
    BY <1>6 DEF SelectionThread, Wake, ScanDelayed, ScanDone, PruneDelayed,
                PruneDone, AnswerRequest, DelayRequest, NextPortion, DataReady,
                OwnerChanged, DataDemanded, ConversionDone, PropertyChanged, net
  <2>2. CASE DelayRequest \/ OwnerChanged
    <3>1. BuffersTyped'
      BY <1>1, <2>2, ThreadBuffers
    <3>2. UNCHANGED answer /\ DOMAIN requested' = Selections
      BY <1>1, <2>2 DEF DelayRequest, OwnerChanged
    <3> QED BY <1>3, <1>4, <2>1, <3>1, <3>2
  <2>3. CASE AnswerRequest \/ ScanDelayed \/ PruneDelayed \/ NextPortion
    <3>1. AnswersKept
      BY <2>3, AnswerSteps
    <3>2. UNCHANGED <<inSel, requested>>
      BY <2>3 DEF AnswerRequest, ScanDelayed, PruneDelayed, NextPortion
    <3> QED BY <1>3, <1>4, <2>1, <3>1, <3>2
  <2>4. CASE \/ Wake \/ ScanDone \/ PruneDone \/ DataReady \/ DataDemanded
             \/ ConversionDone \/ PropertyChanged
    <3>1. UNCHANGED <<inSel, requested, answer>>
      BY <2>4 DEF Wake, ScanDone, PruneDone, DataReady, DataDemanded,
                  ConversionDone, PropertyChanged, incoming
    <3> QED BY <1>3, <1>4, <2>1, <3>1
  <2> QED BY <1>6, <2>2, <2>3, <2>4 DEF SelectionThread
<1>7. CASE SendingThread
  <2>1. UNCHANGED <<inSel, remote, answer, clock, version, conns>>
        /\ DOMAIN requested' = Selections
    BY <1>1, <1>7 DEF SendingThread, SendChunk, SendRequest, incoming
  <2> QED BY <1>3, <1>4, <2>1
<1>8. CASE Environment
  <2>1. CASE Tick \/ ClientArrives
    <3>1. UNCHANGED <<inSel, requested, answer, remote>>
          /\ clock' \in Nat /\ version' \in Nat /\ conns' \in Nat \ {0}
      BY <1>1, <2>1 DEF Tick, ClientArrives, incoming, net
    <3> QED BY <1>3, <1>4, <3>1
  <2>2. CASE ClientReads \/ ClientLeaves \/ \E s \in Selections : ClientDemands(s)
    <3>1. UNCHANGED <<inSel, requested, answer, clock, version, conns>>
      BY <2>2 DEF ClientReads, ClientLeaves, ClientDemands, incoming
    <3>2. RemoteTyped'
      BY <1>1, <2>2, ReadsRemote, LeavesRemote, DemandsRemote
    <3> QED BY <1>3, <1>4, <3>1, <3>2
  <2>3. ASSUME NEW s \in Selections, NEW k \in ClientKinds, ClientCopies(s, k)
        PROVE  Typed'
    <3>1. UNCHANGED <<inSel, requested, answer, clock, conns>> /\ version' \in Nat
          /\ clock' \in Nat /\ conns' \in Nat \ {0}
      BY <1>1, <2>3 DEF ClientCopies, incoming
    <3>2. RemoteTyped'
      BY <1>1, <2>3, CopiesRemote
    <3> QED BY <1>3, <1>4, <3>1, <3>2
  <2>4. ASSUME NEW s \in Selections, NEW k \in AppKinds, AppCopies(s, k)
        PROVE  Typed'
    <3>1. UNCHANGED <<inSel, requested, answer, remote>> /\ version' \in Nat
          /\ clock' \in Nat /\ conns' \in Nat \ {0}
      BY <1>1, <2>4 DEF AppCopies, incoming, net
    <3> QED BY <1>3, <1>4, <3>1
  <2>5. ASSUME NEW s \in Selections, AppConverts(s) \/ AppPortion(s)
        PROVE  Typed'
    <3>1. UNCHANGED <<inSel, requested, answer, remote, clock, version, conns>>
      BY <2>5 DEF AppConverts, AppPortion, incoming, net
    <3> QED BY <1>3, <1>4, <3>1
  <2>6. ASSUME NEW s \in Selections, NEW r \in Requests,
               NEW target \in ClientKinds \cup {"meta"}, NEW t \in {0, clock},
               AppPastes(r, s, target, t)
        PROVE  Typed'
    <3>1. UNCHANGED <<inSel, requested, remote, clock, version, conns>>
      BY <2>6 DEF AppPastes, incoming, net
    <3>2. /\ answer' \in [Requests -> AnswerType]
          /\ \A q \in Requests : answer'[q].how # "none" => answer'[q].sel \in Selections
      BY <1>1, <2>6, PasteTypes
    <3> QED BY <1>4, <3>1, <3>2 DEF Typed, BuffersTyped, RemoteTyped
  <2>7. ASSUME NEW r \in Requests, AppDeletes(r) PROVE Typed'
    <3>1. UNCHANGED <<inSel, requested, remote, clock, version, conns>>
      BY <2>7 DEF AppDeletes, incoming, net
    <3>2. AnswersKept
      BY <2>7, AnswerSteps
    <3> QED BY <1>3, <1>4, <3>1, <3>2
  <2> QED BY <1>8, <2>1, <2>2, <2>3, <2>4, <2>5, <2>6, <2>7 DEF Environment
<1>9. CASE UNCHANGED vars
  <2>1. UNCHANGED <<inSel, requested, answer, remote, clock, version, conns>>
    BY <1>9 DEF vars, incoming, net
  <2> QED BY <1>3, <1>4, <2>1
<1> QED BY <1>5, <1>6, <1>7, <1>8, <1>9 DEF Next

-----------------------------------------------------------------------------
(* The data in the buffers.                                                *)

LEMMA StreamAppend ==
  ASSUME NEW q, Stream(q), NEW m, OfClient(m), ~OfTransfer(m)
  PROVE  Append(q, m) = q \o <<m>>
<1>1. PICK S : q \in Seq(S)
  BY DEF Stream, Sequence
<1>2. q \in Seq(S \cup {m})
  BY <1>1, SeqOfMore
<1> QED BY <1>2, AppendIsConcat

(* What follows the message that was read.                                 *)
LEMMA HeadRead ==
  ASSUME Stream(toServer), toServer # <<>>, toServer' = Tail(toServer)
  PROVE  /\ Stream(toServer')
         /\ toServer' # <<>> =>
              /\ OfClient(toServer'[1]) /\ Continues(toServer[1], toServer'[1])
              /\ Within(toServer'[1]) =>
                   /\ OfTransfer(toServer[1])
                   /\ toServer'[1].sel = toServer[1].sel
                   /\ toServer'[1].copy = toServer[1].copy
                   /\ Before(toServer'[1]) = ChunkUnits * toServer[1].part
                   /\ ~Torn(toServer[1].copy.kind) => Unfinished(toServer[1])
<1> DEFINE x == toServer[1] y == toServer'[1]
<1>1. Stream(toServer') /\ OfClient(x)
      /\ (toServer' # <<>> => Continues(x, y))
  BY StreamTail
<1>2. Len(toServer') \in Nat /\ (toServer' # <<>> => Len(toServer') # 0)
  BY <1>1, SequenceParts DEF Stream
<1>3. toServer' # <<>> => OfClient(y)
  BY <1>1, <1>2 DEF Stream
<1> HIDE DEF x, y
<1>4. ASSUME toServer' # <<>>, Within(y)
      PROVE  /\ OfTransfer(x) /\ y.sel = x.sel /\ y.copy = x.copy
             /\ Before(y) = ChunkUnits * x.part
             /\ ~Torn(x.copy.kind) => Unfinished(x)
  <2>1. /\ OfTransfer(x) /\ x.sel = y.sel /\ x.copy = y.copy
        /\ y.part = IF y.type = "chunk" THEN x.part + 1 ELSE x.part
    BY <1>1, <1>4 DEF Continues
  <2>2. OfTransfer(y) /\ x.part \in 1 .. LastPart(x.copy)
        /\ y.part \in 1 .. LastPart(x.copy) /\ x.copy \in Copies
    BY <1>1, <1>3, <1>4, <2>1 DEF Within, OfClient, OfTransfer
  <2>3. LastPart(x.copy) \in Nat
    BY <2>2, CopyParts
  <2>4. Before(y) = ChunkUnits * x.part
    <3>1. CASE y.type = "chunk"
      <4>1. y.part - 1 = x.part
        BY <2>1, <2>2, <2>3, <3>1
      <4> QED BY <3>1, <4>1 DEF Before
    <3>2. CASE y.type # "chunk"
      BY <2>1, <3>2 DEF Before
    <3> QED BY <3>1, <3>2
  <2>5. ~Torn(x.copy.kind) => Unfinished(x)
    <3>1. ~Torn(x.copy.kind) => y.type = "chunk"
      BY <1>3, <1>4, <2>1, <2>2 DEF OfClient, OfTransfer
    <3>2. y.type = "chunk" => x.part < LastPart(x.copy)
      BY <2>1, <2>2, <2>3
    <3> QED BY <2>1, <3>1, <3>2 DEF Unfinished
  <2> QED BY <2>1, <2>4, <2>5
<1> QED BY <1>1, <1>3, <1>4 DEF x, y

(* Only messages were added.                                               *)
LEMMA HeadSent ==
  ASSUME Stream(toServer), NEW x, Stream(x), x # <<>> => ~Within(x[1]),
         toServer' = toServer \o x
  PROVE  /\ Stream(toServer')
         /\ toServer # <<>> => toServer'[1] = toServer[1]
         /\ toServer = <<>> => (toServer' # <<>> => ~Within(toServer'[1]))
<1>1. /\ Stream(toServer')
      /\ toServer # <<>> => toServer'[1] = toServer[1]
      /\ toServer = <<>> => toServer' = x
  BY StreamConcat
<1> QED BY <1>1

DataFits == Stream(toServer) /\ HeadFits /\ Latest

SameHeard == \A s \in Selections : remote'[s].heard = remote[s].heard

LEMMA FitsKept ==
  ASSUME DataFits, SameHeard,
         UNCHANGED inSel \/ SameData,
         \/ toServer' = <<>> \/ UNCHANGED toServer
         \/ \E x : Stream(x) /\ (x # <<>> => ~Within(x[1])) /\ toServer' = toServer \o x
  PROVE  DataFits'
<1>1. SameData
  BY DEF SameData
<1>2. Latest'
  BY <1>1 DEF DataFits, Latest, SameData, SameHeard
<1>3. /\ Stream(toServer')
      /\ toServer # <<>> /\ toServer' # <<>> => toServer'[1] = toServer[1]
      /\ toServer = <<>> => (toServer' # <<>> => ~Within(toServer'[1]))
  BY HeadSent, StreamEmpty DEF DataFits
<1>4. ASSUME toServer' # <<>>, Within(toServer'[1])
      PROVE  Filled(inSel'[toServer'[1].sel], toServer'[1])
  <2> DEFINE m == toServer[1]
  <2>1. toServer # <<>> /\ toServer'[1] = m
    BY <1>3, <1>4
  <2>2. Filled(inSel[m.sel], m)
    BY <1>4, <2>1 DEF DataFits, HeadFits
  <2>3. m.sel \in Selections
    <3>1. OfClient(Head(toServer)) /\ Head(toServer) = m
      BY <2>1, StreamTail DEF DataFits
    <3> QED BY <3>1 DEF OfClient
  <2> HIDE DEF m
  <2>4. Filled(inSel'[m.sel], m)
    BY <1>1, <2>2, <2>3 DEF SameData, Filled
  <2> QED BY <2>1, <2>4
<1> QED BY <1>2, <1>3, <1>4 DEF DataFits, HeadFits

LEMMA RestFits ==
  ASSUME DataFits, UNCHANGED <<inSel, remote>>, toServer # <<>>,
         toServer[1].type # "chunk", toServer' = Tail(toServer)
  PROVE  DataFits'
<1> DEFINE x == toServer[1] y == toServer'[1]
<1>1. Stream(toServer') /\ OfClient(x) /\ OfClient(Head(toServer))
  BY StreamTail DEF DataFits
<1>2. Latest'
  BY DEF DataFits, Latest
<1>3. ASSUME toServer' # <<>>, Within(y)
      PROVE  Filled(inSel'[y.sel], y)
  <2>1. /\ OfTransfer(x) /\ y.sel = x.sel /\ y.copy = x.copy
        /\ Before(y) = ChunkUnits * x.part
    BY <1>3, HeadRead DEF DataFits
  <2>2. Filled(inSel[x.sel], x)
    BY <2>1 DEF DataFits, HeadFits, Within
  <2>3. Before(x) = ChunkUnits * x.part
    BY DEF Before
  <2> HIDE DEF x, y
  <2> QED BY <2>1, <2>2, <2>3 DEF Filled
<1> QED BY <1>1, <1>2, <1>3 DEF DataFits, HeadFits

LEMMA NotifyFits ==
  ASSUME DataFits, BuffersTyped, RemoteTyped, clock \in Nat, ReadNotify
  PROVE  DataFits'
<1> DEFINE x == toServer[1] y == toServer'[1]
<1>1. /\ toServer # <<>> /\ x.type = "notify" /\ OfClient(x) /\ Hears(x)
      /\ toServer' = Tail(toServer)
      /\ \A t \in Selections : t # x.sel => inSel'[t] = inSel[t]
      /\ inSel'[x.sel].state = "NOTIFIED"
  BY NotifyBuffer DEF DataFits
<1>2. Stream(toServer') /\ (toServer' # <<>> => ~Within(y))
  BY <1>1, HeadRead DEF DataFits, OfTransfer
<1>3. \A t \in Selections : t # x.sel => remote'[t] = remote[t]
  BY <1>1, HearsRemote DEF OfClient
<1> HIDE DEF x
<1>4. Latest'
  BY <1>1, <1>3 DEF DataFits, Latest
<1> QED BY <1>2, <1>4 DEF DataFits, HeadFits

LEMMA ChunkFits ==
  ASSUME DataFits, BuffersTyped, RemoteTyped, clock \in Nat, ReadChunk
  PROVE  DataFits'
<1> DEFINE x == toServer[1] y == toServer'[1] b == inSel'[x.sel]
<1>1. /\ toServer # <<>> /\ x.type = "chunk" /\ OfClient(x) /\ Hears(x)
      /\ toServer' = Tail(toServer)
      /\ \A t \in Selections : t # x.sel => inSel'[t] = inSel[t]
      /\ b.copy = x.copy /\ b.size = Size[x.copy.kind]
      /\ Torn(x.copy.kind) => b.ready < ChunkUnits * x.part
      /\ ~Torn(x.copy.kind) => (Unfinished(x) => b.ready = ChunkUnits * x.part)
  BY ChunkBuffer DEF DataFits
<1>2. /\ Stream(toServer')
      /\ toServer' # <<>> /\ Within(y) =>
           /\ y.sel = x.sel /\ y.copy = x.copy
           /\ Before(y) = ChunkUnits * x.part
           /\ ~Torn(x.copy.kind) => Unfinished(x)
  BY <1>1, HeadRead DEF DataFits
<1>3. /\ \A t \in Selections : t # x.sel => remote'[t] = remote[t]
      /\ remote'[x.sel].heard = x.copy.ver
  BY <1>1, HearsRemote DEF OfClient
<1> HIDE DEF x, y
<1>4. Latest'
  BY <1>1, <1>3 DEF DataFits, Latest
<1>5. toServer' # <<>> /\ Within(y) => Filled(inSel'[y.sel], y)
  BY <1>1, <1>2 DEF Filled
<1> QED BY <1>2, <1>4, <1>5 DEF DataFits, HeadFits, y

LEMMA NextData ==
  ASSUME Invariant, Incoming, Queues, [Next]_vars
  PROVE  DataFits'
<1>1. /\ BuffersTyped /\ RemoteTyped /\ clock \in Nat /\ version \in Nat /\ DataFits
  BY DEF Incoming, Typed, BuffersTyped, RemoteTyped, DataFits
<1>2. ASSUME UNCHANGED <<inSel, remote, toServer>>
      PROVE  DataFits'
  BY <1>1, <1>2, FitsKept DEF SameHeard
<1>3. CASE MainThread
  <2>1. CASE ReadNotify
    BY <1>1, <2>1, NotifyFits
  <2>2. CASE ReadChunk
    BY <1>1, <2>2, ChunkFits
  <2>3. CASE ReadRest \/ ReadDemand
    <3>1. /\ UNCHANGED <<inSel, remote>> /\ toServer # <<>>
          /\ Head(toServer).type \in {"rest", "demand"} /\ toServer' = Tail(toServer)
      BY <2>3 DEF ReadRest, ReadDemand, incoming, MainReads
    <3>2. Head(toServer) = toServer[1]
      BY <1>1, <3>1, StreamTail DEF DataFits
    <3> QED BY <1>1, <3>1, <3>2, RestFits
  <2> QED BY <1>3, <2>1, <2>2, <2>3 DEF MainThread
<1>4. CASE SelectionThread
  <2>1. UNCHANGED <<remote, toServer>>
    BY <1>4 DEF SelectionThread, Wake, ScanDelayed, ScanDone, PruneDelayed,
                PruneDone, AnswerRequest, DelayRequest, NextPortion, DataReady,
                OwnerChanged, DataDemanded, ConversionDone, PropertyChanged, net
  <2>2. CASE DelayRequest \/ OwnerChanged
    <3>1. SameData
      BY <1>1, <2>2, ThreadBuffers
    <3> QED BY <1>1, <2>1, <3>1, FitsKept DEF SameHeard
  <2>3. CASE ~(DelayRequest \/ OwnerChanged)
    <3>1. UNCHANGED inSel
      BY <1>4, <2>3 DEF SelectionThread, Wake, ScanDelayed, ScanDone, PruneDelayed,
                PruneDone, AnswerRequest, NextPortion, DataReady,
                DataDemanded, ConversionDone, PropertyChanged, incoming
    <3> QED BY <1>2, <2>1, <3>1
  <2> QED BY <2>2, <2>3
<1>5. CASE SendingThread
  <2>1. UNCHANGED <<inSel, remote, toServer>>
    BY <1>5 DEF SendingThread, SendChunk, SendRequest, incoming
  <2> QED BY <1>2, <2>1
<1>6. CASE Environment
  <2>1. CASE \/ Tick \/ ClientArrives
             \/ \E s \in Selections :
                  \/ \E k \in AppKinds : AppCopies(s, k)
                  \/ AppConverts(s) \/ AppPortion(s)
                  \/ \E r \in Requests, target \in ClientKinds \cup {"meta"},
                        t \in {0, clock} : AppPastes(r, s, target, t)
             \/ \E r \in Requests : AppDeletes(r)
    <3>1. UNCHANGED <<inSel, remote, toServer>>
      BY <2>1 DEF Tick, ClientArrives, AppCopies, AppConverts, AppPortion,
                  AppPastes, AppDeletes, incoming, net
    <3> QED BY <1>2, <3>1
  <2>2. CASE ClientLeaves
    <3>1. UNCHANGED inSel /\ toServer' = <<>>
      BY <2>2 DEF ClientLeaves, incoming
    <3>2. SameHeard
      BY <1>1, <2>2, LeavesRemote DEF SameHeard
    <3> QED BY <1>1, <3>1, <3>2, FitsKept
  <2>3. CASE ClientReads
    <3> DEFINE m == Head(toClient) s == m.sel c == remote[s].copy
    <3>1. UNCHANGED inSel /\ toClient # <<>>
      BY <2>3 DEF ClientReads, incoming
    <3>2. SameHeard
      BY <1>1, <2>3, ReadsRemote DEF SameHeard, SameCopies
    <3>3. /\ m.type \in {"request", "notify", "chunk"}
          /\ m.type = "request" => s \in Selections
      BY <3>1, QueueHead DEF Queues
    <3>4. CASE UNCHANGED toServer
      BY <1>1, <3>1, <3>2, <3>4, FitsKept
    <3>5. CASE ~UNCHANGED toServer
      <4>1. m.type = "request" /\ c # NoCopy /\ toServer' = toServer \o Transfer(s, c)
        <5>1. CASE m.type = "request"
          BY <2>3, <3>5, <5>1 DEF ClientReads
        <5>2. CASE m.type = "notify"
          BY <2>3, <3>5, <5>2 DEF ClientReads
        <5>3. CASE m.type = "chunk"
          BY <2>3, <3>5, <5>3 DEF ClientReads
        <5> QED BY <3>3, <5>1, <5>2, <5>3
      <4>2. s \in Selections /\ c \in Copies
        BY <1>1, <3>3, <4>1 DEF RemoteTyped, IsRemote
      <4> HIDE DEF s, c
      <4>3. Stream(Transfer(s, c)) /\ ~Within(Transfer(s, c)[1])
        BY <4>2, TransferStreams DEF Within
      <4> QED BY <1>1, <3>1, <3>2, <4>1, <4>3, FitsKept
    <3> QED BY <3>4, <3>5
  <2>4. ASSUME NEW s \in Selections, NEW k \in ClientKinds, ClientCopies(s, k)
        PROVE  DataFits'
    <3> DEFINE c == [ver |-> version + 1, kind |-> k]
               n == Message("notify", s, c, 1, 0)
               x == IF onDemand THEN <<n>> ELSE Transfer(s, c)
    <3>1. UNCHANGED inSel /\ toServer' = toServer \o x
      BY <2>4 DEF ClientCopies, incoming
    <3>2. SameHeard /\ c \in Copies
      BY <1>1, <2>4, CopiesRemote DEF SameHeard
    <3> HIDE DEF c
    <3>3. OfClient(n) /\ ~OfTransfer(n)
      BY <3>2, MessageParts DEF OfClient, OfTransfer
    <3> HIDE DEF n
    <3>4. CASE onDemand
      BY <3>3, <3>4, <1>1, <3>1, <3>2, StreamOfOne, FitsKept
    <3>5. CASE ~onDemand
      <4>1. Stream(Transfer(s, c)) /\ ~Within(Transfer(s, c)[1])
        BY <3>2, TransferStreams DEF Within
      <4> QED BY <1>1, <3>1, <3>2, <3>5, <4>1, FitsKept
    <3> QED BY <3>4, <3>5
  <2>5. ASSUME NEW s \in Selections, ClientDemands(s)
        PROVE  DataFits'
    <3> DEFINE n == Message("demand", s, NoCopy, 0, 0)
    <3>1. UNCHANGED inSel /\ toServer' = Append(toServer, n)
      BY <2>5 DEF ClientDemands, incoming
    <3>2. SameHeard
      BY <1>1, <2>5, DemandsRemote DEF SameHeard, SameCopies
    <3>3. OfClient(n) /\ ~OfTransfer(n)
      BY MessageParts DEF OfClient, OfTransfer
    <3> HIDE DEF n
    <3>4. toServer' = toServer \o <<n>>
      BY <1>1, <3>1, <3>3, StreamAppend DEF DataFits
    <3>5. Stream(<<n>>) /\ <<n>>[1] = n /\ ~Within(n)
      BY <3>3, StreamOfOne
    <3> QED BY <1>1, <3>1, <3>2, <3>4, <3>5, FitsKept
  <2> QED BY <1>6, <2>1, <2>2, <2>3, <2>4, <2>5 DEF Environment
<1>7. CASE UNCHANGED vars
  <2>1. UNCHANGED <<inSel, remote, toServer>>
    BY <1>7 DEF vars, incoming, net
  <2> QED BY <1>2, <2>1
<1> QED BY <1>3, <1>4, <1>5, <1>6, <1>7 DEF Next

-----------------------------------------------------------------------------
(* What X applications and the selection thread exchange.                  *)

Atoms == Kinds \cup {"TARGETS"}

IsValue(v, a) ==
  v # None => /\ v.size \in Nat /\ v.type \in {"TARGETS", "data", "INCR"}
              /\ v.type = "TARGETS" <=> a = "TARGETS"

IsApp(a) ==
  /\ DOMAIN a = {"copy", "conv", "sending", "left"}
  /\ Sequence(a.conv)
  /\ \A i \in 1 .. Len(a.conv) :
       a.conv[i].target \in Atoms /\ a.conv[i].copy.kind \in AppKinds
  /\ a.sending # NoCopy => a.sending.kind \in Kinds
  /\ a.left \in Nat

IsReading(rd) ==
  /\ DOMAIN rd = {"atom", "read", "current", "mixed"}
  /\ rd.atom \in Kinds \cup {None} /\ rd.read \in Nat
  /\ rd.atom # None => rd.current \in Selections

Known(e) ==
  /\ e.type \in {"owner", "demand", "reply"} => e.sel \in Selections
  /\ e.type = "reply" => e.arg \in Atoms \cup {None}
  /\ e.type = "newvalue" => e.arg \in Atoms

PropTyped(p) == DOMAIN p = Atoms /\ \A a \in Atoms : IsValue(p[a], a)

AppsTyped ==
  /\ DOMAIN apps = Selections
  /\ \A s \in Selections : /\ IsApp(apps[s])
                           /\ xowner[s] = "app" => apps[s].copy.kind \in AppKinds

BestTyped == DOMAIN best = Selections /\ \A s \in Selections : best[s] \in Kinds \cup {None}

EventsKnown == (\A i \in 1 .. Len(xq) : Known(xq[i])) /\ (spc # "wait" => Known(ev))

Exchanged ==
  PropTyped(prop) /\ AppsTyped /\ BestTyped /\ IsReading(reading) /\ EventsKnown

LEMMA EventParts ==
  ASSUME NEW t, NEW s, NEW x
  PROVE  Event(t, s, x).type = t /\ Event(t, s, x).sel = s /\ Event(t, s, x).arg = x
BY DEF Event

LEMMA ValueParts ==
  ASSUME NEW t, NEW s, NEW c, NEW n
  PROVE  /\ Value(t, s, c, n).type = t /\ Value(t, s, c, n).src = <<s, c.ver>>
         /\ Value(t, s, c, n).kind = c.kind /\ Value(t, s, c, n).size = n
BY DEF Value

(* Known events were added to the queue.                                   *)
MoreKnown ==
  \A i \in 1 .. Len(xq') :
    \/ i \in 1 .. Len(xq) /\ xq'[i] = xq[i]
    \/ i \notin 1 .. Len(xq) /\ Known(xq'[i])

LEMMA KnownNone == ASSUME UNCHANGED xq PROVE MoreKnown
BY DEF MoreKnown

(* Events of set E were added to the queue.                                *)
Grows(E) ==
  /\ Len(xq) <= Len(xq')
  /\ \A i \in 1 .. Len(xq') :
       \/ i \in 1 .. Len(xq) /\ xq'[i] = xq[i]
       \/ i \notin 1 .. Len(xq) /\ xq'[i] \in E

LEMMA GrowsOne ==
  ASSUME Shape, NEW E, NEW e \in E, xq' = Append(xq, e)
  PROVE  Grows(E)
<1>1. Len(xq) \in Nat /\ Sequence(xq)
  BY SequenceParts DEF Shape
<1>2. /\ Len(xq') = Len(xq) + 1
      /\ \A i \in 1 .. Len(xq) : xq'[i] = xq[i]
      /\ xq'[Len(xq) + 1] = e
  BY <1>1, AppendAny
<1>3. \A i \in 1 .. Len(xq') : i \notin 1 .. Len(xq) => i = Len(xq) + 1
  BY <1>1, <1>2
<1> QED BY <1>1, <1>2, <1>3 DEF Grows

LEMMA GrowsSome ==
  ASSUME Shape, NEW E, NEW x, Sequence(x), \A i \in 1 .. Len(x) : x[i] \in E,
         xq' = xq \o x
  PROVE  Grows(E)
<1>1. Len(xq) \in Nat /\ Len(x) \in Nat /\ Sequence(xq)
  BY SequenceParts DEF Shape
<1>2. /\ Len(xq') = Len(xq) + Len(x)
      /\ \A i \in 1 .. Len(xq) + Len(x) :
           xq'[i] = IF i <= Len(xq) THEN xq[i] ELSE x[i - Len(xq)]
  BY <1>1, ConcatAny
<1>3. ASSUME NEW i \in 1 .. Len(xq'), i \notin 1 .. Len(xq)
      PROVE  xq'[i] \in E
  <2>1. i - Len(xq) \in 1 .. Len(x) /\ ~(i <= Len(xq))
    BY <1>1, <1>2, <1>3
  <2> QED BY <1>2, <2>1
<1>4. \A i \in 1 .. Len(xq) : xq'[i] = xq[i]
  BY <1>1, <1>2
<1> QED BY <1>3, <1>4 DEF Grows

LEMMA KnownOne ==
  ASSUME Shape, NEW e, Known(e), xq' = Append(xq, e)
  PROVE  MoreKnown
<1>1. Grows({e})
  BY GrowsOne
<1> QED BY <1>1 DEF Grows, MoreKnown

LEMMA KnownSome ==
  ASSUME Shape, NEW x, Sequence(x), \A i \in 1 .. Len(x) : Known(x[i]),
         xq' = xq \o x
  PROVE  MoreKnown
<1> DEFINE E == {x[i] : i \in 1 .. Len(x)}
<1>1. /\ \A i \in 1 .. Len(x) : x[i] \in E
      /\ \A e \in E : Known(e)
  OBVIOUS
<1> HIDE DEF E
<1>2. Grows(E)
  BY <1>1, GrowsSome
<1> QED BY <1>1, <1>2 DEF Grows, MoreKnown

LEMMA KnownKept ==
  ASSUME EventsKnown, MoreKnown, UNCHANGED ev, spc' # "wait" => spc # "wait"
  PROVE  EventsKnown'
BY DEF EventsKnown, MoreKnown

LEMMA WakeKnown == ASSUME Shape, EventsKnown, Wake PROVE EventsKnown'
<1>1. xq # <<>> /\ ev' = Head(xq) /\ xq' = Tail(xq)
  BY DEF Wake
<1>2. /\ ev' = xq[1] /\ Len(xq) \in Nat \ {0} /\ Len(xq') = Len(xq) - 1
      /\ \A i \in 1 .. Len(xq') : xq'[i] = xq[i + 1]
  BY <1>1, SequenceParts, TailAny DEF Shape
<1>3. 1 \in 1 .. Len(xq) /\ \A i \in 1 .. Len(xq') : i + 1 \in 1 .. Len(xq)
  BY <1>2
<1> QED BY <1>2, <1>3 DEF EventsKnown

LEMMA PropCleared ==
  ASSUME NEW p, PropTyped(p), NEW a
  PROVE  /\ PropTyped([p EXCEPT ![a] = None])
         /\ a \in Atoms => [p EXCEPT ![a] = None][a] = None
         /\ \A b \in Atoms : b # a => [p EXCEPT ![a] = None][b] = p[b]
BY DEF PropTyped, IsValue

LEMMA PropWritten ==
  ASSUME PropTyped(prop), NEW a, NEW v, IsValue(v, a), prop' = [prop EXCEPT ![a] = v]
  PROVE  /\ PropTyped(prop')
         /\ a \in Atoms => prop'[a] = v
         /\ \A b \in Atoms : b # a => prop'[b] = prop[b]
BY DEF PropTyped, IsValue

LEMMA ConvAppended ==
  ASSUME NEW a, IsApp(a), NEW r, r.target \in Atoms, r.copy.kind \in AppKinds
  PROVE  LET b == [a EXCEPT !.conv = Append(@, r)]
         IN  /\ IsApp(b) /\ b.copy = a.copy /\ b.sending = a.sending
             /\ b.left = a.left /\ b.conv = Append(a.conv, r)
<1> DEFINE q == Append(a.conv, r) b == [a EXCEPT !.conv = q]
<1>1. Sequence(a.conv) /\ Len(a.conv) \in Nat
  BY SequenceParts DEF IsApp
<1>2. /\ Sequence(q) /\ Len(q) = Len(a.conv) + 1
      /\ \A i \in 1 .. Len(a.conv) : q[i] = a.conv[i]
      /\ q[Len(a.conv) + 1] = r
  BY <1>1, AppendAny
<1> HIDE DEF q
<1>3. \A i \in 1 .. Len(q) : i \notin 1 .. Len(a.conv) => i = Len(a.conv) + 1
  BY <1>1, <1>2
<1>4. \A i \in 1 .. Len(q) : q[i].target \in Atoms /\ q[i].copy.kind \in AppKinds
  BY <1>2, <1>3 DEF IsApp
<1>5. /\ DOMAIN b = {"copy", "conv", "sending", "left"} /\ b.conv = q
      /\ b.copy = a.copy /\ b.sending = a.sending /\ b.left = a.left
  BY DEF IsApp
<1> HIDE DEF b
<1>6. IsApp(b)
  BY <1>2, <1>4, <1>5 DEF IsApp
<1> QED BY <1>5, <1>6 DEF b, q

(* request_selection_data keeps the types.                                 *)
LEMMA ConvertsTyped ==
  ASSUME Shape, AppsTyped, NEW s \in Selections, NEW a \in Atoms, NEW p, PropTyped(p),
         NEW rd, IsReading(rd), UNCHANGED xowner, Converts(s, a, p, rd)
  PROVE  /\ PropTyped(prop') /\ AppsTyped' /\ IsReading(reading') /\ MoreKnown
         /\ \A t \in Selections : /\ t # s => apps'[t] = apps[t]
                                  /\ apps'[t].sending = apps[t].sending
                                  /\ apps'[t].copy = apps[t].copy
         /\ reading'.atom = rd.atom /\ reading'.read = rd.read
         /\ reading'.current = rd.current
         /\ ~reading'.mixed => ~rd.mixed /\ ~Overlaps(s, a, rd)
<1>1. prop' = [p EXCEPT ![a] = None] /\ reading' = [rd EXCEPT !.mixed = @ \/ Overlaps(s, a, rd)]
  BY DEF Converts
<1>2. PropTyped(prop')
  BY <1>1, PropCleared
<1>3. /\ IsReading(reading')
      /\ reading'.atom = rd.atom /\ reading'.read = rd.read
      /\ reading'.current = rd.current
      /\ ~reading'.mixed => ~rd.mixed /\ ~Overlaps(s, a, rd)
  <2> DEFINE x == rd.mixed \/ Overlaps(s, a, rd)
  <2>1. reading' = [rd EXCEPT !.mixed = x]
    BY <1>1
  <2>2. ~x => ~rd.mixed /\ ~Overlaps(s, a, rd)
    OBVIOUS
  <2> HIDE DEF x
  <2> QED BY <2>1, <2>2 DEF IsReading
<1>4. /\ AppsTyped' /\ MoreKnown
      /\ \A t \in Selections : /\ t # s => apps'[t] = apps[t]
                               /\ apps'[t].sending = apps[t].sending
                               /\ apps'[t].copy = apps[t].copy
  <2>1. CASE xowner[s] = "app"
    <3> DEFINE r == [target |-> a, copy |-> apps[s].copy]
               b == [apps[s] EXCEPT !.conv = Append(@, r)]
    <3>1. apps' = [apps EXCEPT ![s] = b] /\ UNCHANGED xq
      BY <2>1 DEF Converts
    <3>2. r.target \in Atoms /\ r.copy.kind \in AppKinds /\ IsApp(apps[s])
      BY <2>1 DEF AppsTyped
    <3> HIDE DEF r
    <3>3. IsApp(b) /\ b.copy = apps[s].copy /\ b.sending = apps[s].sending
      BY <3>2, ConvAppended
    <3> HIDE DEF b
    <3>4. DOMAIN apps' = Selections /\ apps'[s] = b
          /\ \A t \in Selections : t # s => apps'[t] = apps[t]
      BY <3>1 DEF AppsTyped
    <3> QED BY <3>1, <3>3, <3>4, KnownNone DEF AppsTyped
  <2>2. CASE xowner[s] # "app"
    <3>1. xq' = Append(xq, Event("reply", s, None)) /\ UNCHANGED apps
      BY <2>2 DEF Converts
    <3>2. Known(Event("reply", s, None))
      BY EventParts DEF Known
    <3> QED BY <3>1, <3>2, KnownOne DEF AppsTyped
  <2> QED BY <2>1, <2>2
<1> QED BY <1>2, <1>3, <1>4

LEMMA ConvTaken ==
  ASSUME NEW a, IsApp(a), a.conv # <<>>
  PROVE  /\ Sequence(Tail(a.conv)) /\ Head(a.conv) = a.conv[1] /\ 1 \in 1 .. Len(a.conv)
         /\ \A i \in 1 .. Len(Tail(a.conv)) :
              /\ i + 1 \in 1 .. Len(a.conv) /\ Tail(a.conv)[i] = a.conv[i + 1]
         /\ \A i \in 1 .. Len(Tail(a.conv)) :
              /\ Tail(a.conv)[i].target \in Atoms
              /\ Tail(a.conv)[i].copy.kind \in AppKinds
         /\ Head(a.conv).target \in Atoms /\ Head(a.conv).copy.kind \in AppKinds
<1>1. /\ Sequence(Tail(a.conv)) /\ Len(Tail(a.conv)) = Len(a.conv) - 1
      /\ Head(a.conv) = a.conv[1]
      /\ \A i \in 1 .. Len(Tail(a.conv)) : Tail(a.conv)[i] = a.conv[i + 1]
  BY TailAny DEF IsApp
<1>2. Len(a.conv) \in Nat \ {0}
  BY SequenceParts DEF IsApp
<1>3. 1 \in 1 .. Len(a.conv)
      /\ \A i \in 1 .. Len(Tail(a.conv)) : i + 1 \in 1 .. Len(a.conv)
  BY <1>1, <1>2
<1> QED BY <1>1, <1>3 DEF IsApp

(* An application converts its contents.                                   *)
LEMMA AppConvertsTyped ==
  ASSUME Shape, AppsTyped, PropTyped(prop), NEW s \in Selections, AppConverts(s)
  PROVE  LET a == Head(apps[s].conv).target
         IN  /\ PropTyped(prop') /\ AppsTyped' /\ MoreKnown
             /\ apps[s].conv # <<>> /\ a \in Atoms
             /\ \A t \in Selections : t # s => apps'[t] = apps[t]
             /\ apps'[s].conv = Tail(apps[s].conv)
             /\ \A b \in Atoms : b # a => prop'[b] = prop[b]
             /\ \/ apps'[s].sending = apps[s].sending
                \/ a \in Kinds /\ apps'[s].sending.kind = a
             /\ \/ xq' = xq \o <<Event("newvalue", None, a), Event("reply", s, a)>>
                \/ xq' = Append(xq, Event("reply", s, None))
<1> DEFINE p == apps[s]
           req == Head(p.conv)
           c == req.copy
           a == req.target
           q == Tail(p.conv)
           e == Event("newvalue", None, a)
           f == Event("reply", s, a)
           g == Event("reply", s, None)
<1>1. IsApp(p) /\ p.conv # <<>> /\ DOMAIN p = {"copy", "conv", "sending", "left"}
      /\ DOMAIN apps = Selections /\ UNCHANGED xowner
  BY DEF AppConverts, AppsTyped, IsApp
<1>2. /\ Sequence(q) /\ a \in Atoms /\ c.kind \in AppKinds
      /\ \A i \in 1 .. Len(q) : q[i].target \in Atoms /\ q[i].copy.kind \in AppKinds
  BY <1>1, ConvTaken
<1>3. c.kind # "TARGETS" /\ (a = c.kind => a \in Kinds /\ Size[a] \in Nat)
  BY <1>2, KindsAssumption, SizeAssumption DEF Atoms
<1> DEFINE done == [apps EXCEPT ![s].conv = Tail(@)]
<1>4. \/ /\ a = "TARGETS" /\ prop' = [prop EXCEPT ![a] = Value("TARGETS", s, c, 0)]
         /\ xq' = xq \o <<e, f>> /\ apps' = done
      \/ /\ a = c.kind /\ prop' = [prop EXCEPT ![a] = Value("data", s, c, Size[a])]
         /\ xq' = xq \o <<e, f>> /\ apps' = done
      \/ /\ a = c.kind /\ prop' = [prop EXCEPT ![a] = Value("INCR", s, c, Size[a])]
         /\ xq' = xq \o <<e, f>>
         /\ apps' = [done EXCEPT ![s].sending = c, ![s].left = Size[a]]
      \/ /\ xq' = Append(xq, g) /\ apps' = done /\ UNCHANGED prop
  BY DEF AppConverts
<1>5. MoreKnown /\ (xq' = xq \o <<e, f>> \/ xq' = Append(xq, g))
  <2>1. Known(e) /\ Known(f) /\ Known(g)
    BY <1>2, EventParts DEF Known
  <2>2. <<e, f>> \in Seq({e, f}) /\ Len(<<e, f>>) = 2
        /\ <<e, f>>[1] = e /\ <<e, f>>[2] = f
    OBVIOUS
  <2> DEFINE z == <<e, f>>
  <2>4. xq' = xq \o z \/ xq' = Append(xq, g)
    BY <1>4
  <2>5. z \in Seq({e, f}) /\ Len(z) = 2 /\ z[1] = e /\ z[2] = f
    BY <2>2
  <2> HIDE DEF e, f, g, z
  <2>3. Sequence(z) /\ \A i \in 1 .. Len(z) : Known(z[i])
    <3>1. \A i \in 1 .. Len(z) : i = 1 \/ i = 2
      BY <2>5
    <3> QED BY <2>1, <2>5, <3>1 DEF Sequence
  <2> QED BY <2>1, <2>3, <2>4, KnownOne, KnownSome DEF z
<1>6. PropTyped(prop') /\ \A b \in Atoms : b # a => prop'[b] = prop[b]
  <2>1. a = "TARGETS" => IsValue(Value("TARGETS", s, c, 0), a)
    BY ValueParts DEF IsValue
  <2>2. a = c.kind => /\ IsValue(Value("data", s, c, Size[a]), a)
                      /\ IsValue(Value("INCR", s, c, Size[a]), a)
    <3>1. a = c.kind => Size[a] \in Nat /\ a # "TARGETS"
      BY <1>3
    <3> HIDE DEF a, c
    <3> QED BY <3>1, ValueParts DEF IsValue
  <2> DEFINE u == Value("TARGETS", s, c, 0)
             v == Value("data", s, c, Size[a])
             w == Value("INCR", s, c, Size[a])
  <2>3. \/ UNCHANGED prop
        \/ IsValue(u, a) /\ prop' = [prop EXCEPT ![a] = u]
        \/ IsValue(v, a) /\ prop' = [prop EXCEPT ![a] = v]
        \/ IsValue(w, a) /\ prop' = [prop EXCEPT ![a] = w]
    <3> HIDE DEF a, c
    <3> QED BY <1>4, <2>1, <2>2
  <2> HIDE DEF a, u, v, w
  <2>4. ASSUME NEW z, IsValue(z, a), prop' = [prop EXCEPT ![a] = z]
        PROVE  PropTyped(prop') /\ \A b \in Atoms : b # a => prop'[b] = prop[b]
    BY <2>4, PropWritten
  <2>5. CASE UNCHANGED prop
    BY <2>5
  <2> QED BY <2>3, <2>4, <2>5
<1> HIDE DEF e, f, g, a, c, q
<1>7. /\ DOMAIN done = Selections /\ \A t \in Selections : t # s => done[t] = apps[t]
      /\ done[s] = [p EXCEPT !.conv = q]
  BY <1>1 DEF q
<1>8. /\ DOMAIN done[s] = {"copy", "conv", "sending", "left"} /\ done[s].conv = q
      /\ done[s].copy = p.copy /\ done[s].sending = p.sending /\ done[s].left = p.left
  BY <1>1, <1>7
<1> HIDE DEF done
<1>9. /\ DOMAIN apps' = Selections /\ \A t \in Selections : t # s => apps'[t] = apps[t]
      /\ DOMAIN apps'[s] = {"copy", "conv", "sending", "left"}
      /\ apps'[s].conv = q /\ apps'[s].copy = p.copy
      /\ \/ apps'[s].sending = p.sending /\ apps'[s].left = p.left
         \/ /\ a = c.kind /\ apps'[s].sending = c /\ apps'[s].left = Size[a]
  <2>1. CASE apps' = done
    BY <1>7, <1>8, <2>1
  <2>2. CASE /\ a = c.kind
             /\ apps' = [done EXCEPT ![s].sending = c, ![s].left = Size[a]]
    BY <1>7, <1>8, <2>2
  <2> QED BY <1>4, <2>1, <2>2
<1>10. IsApp(apps'[s])
  BY <1>1, <1>2, <1>3, <1>9 DEF IsApp
<1>11. AppsTyped'
  BY <1>1, <1>9, <1>10 DEF AppsTyped
<1>12. apps'[s].sending = p.sending \/ (a \in Kinds /\ apps'[s].sending.kind = a)
  BY <1>3, <1>9
<1> QED BY <1>1, <1>2, <1>5, <1>6, <1>9, <1>11, <1>12 DEF a, q, e, f, g

(* An application sends a portion.                                         *)
LEMMA AppPortionTyped ==
  ASSUME Shape, AppsTyped, PropTyped(prop), NEW s \in Selections, AppPortion(s)
  PROVE  LET c == apps[s].sending
         IN  /\ PropTyped(prop') /\ AppsTyped' /\ MoreKnown
             /\ c # NoCopy /\ c.kind \in Kinds
             /\ \A t \in Selections : t # s => apps'[t] = apps[t]
             /\ apps'[s].conv = apps[s].conv
             /\ apps'[s].sending \in {c, NoCopy}
             /\ \A b \in Atoms : b # c.kind => prop'[b] = prop[b]
             /\ prop'[c.kind].src = <<s, c.ver>>
             /\ xq' = Append(xq, Event("newvalue", None, c.kind))
<1> DEFINE p == apps[s]
           c == p.sending
           n == AtMost(p.left, ChunkUnits)
           v == Value("data", s, c, n)
           e == Event("newvalue", None, c.kind)
           x == IF n = 0 THEN NoCopy ELSE c
           l == p.left - n
<1>1. /\ IsApp(p) /\ DOMAIN p = {"copy", "conv", "sending", "left"}
      /\ DOMAIN apps = Selections /\ UNCHANGED xowner /\ p.left \in Nat
  BY DEF AppPortion, AppsTyped, IsApp
<1>2. c # NoCopy /\ c.kind \in Kinds
  BY <1>1 DEF AppPortion, PortionDue, IsApp
<1>3. n \in Nat /\ l \in Nat
  BY <1>1, UnitsAssumption DEF AtMost
<1>4. /\ prop' = [prop EXCEPT ![c.kind] = v]
      /\ apps' = [apps EXCEPT ![s].left = l, ![s].sending = x]
      /\ xq' = Append(xq, e)
  BY DEF AppPortion
<1>5. /\ PropTyped(prop') /\ prop'[c.kind] = v
      /\ \A b \in Atoms : b # c.kind => prop'[b] = prop[b]
  <2>1. IsValue(v, c.kind) /\ c.kind \in Atoms
    BY <1>2, <1>3, ValueParts, KindsAssumption DEF IsValue, Atoms
  <2>2. PropTyped(prop)
    OBVIOUS
  <2> DEFINE k == c.kind
  <2> HIDE DEF v, c
  <2>3. prop' = [prop EXCEPT ![k] = v] /\ IsValue(v, k) /\ k \in Atoms
    BY <1>4, <2>1
  <2> HIDE DEF k
  <2>4. /\ PropTyped(prop') /\ prop'[k] = v
        /\ \A b \in Atoms : b # k => prop'[b] = prop[b]
    BY <2>2, <2>3, PropWritten
  <2> QED BY <2>4 DEF k
<1>6. v.src = <<s, c.ver>>
  BY ValueParts
<1>7. Known(e)
  BY <1>2, EventParts DEF Known, Atoms
<1>8. x \in {c, NoCopy}
  OBVIOUS
<1> HIDE DEF v, x, l, n
<1>9. /\ DOMAIN apps' = Selections /\ \A t \in Selections : t # s => apps'[t] = apps[t]
      /\ DOMAIN apps'[s] = {"copy", "conv", "sending", "left"}
      /\ apps'[s].conv = p.conv /\ apps'[s].copy = p.copy
      /\ apps'[s].sending = x /\ apps'[s].left = l
  BY <1>1, <1>4
<1>10. IsApp(apps'[s])
  BY <1>1, <1>3, <1>8, <1>9 DEF IsApp
<1>11. AppsTyped'
  BY <1>1, <1>9, <1>10 DEF AppsTyped
<1>12. MoreKnown
  BY <1>4, <1>7, KnownOne
<1> QED BY <1>2, <1>4, <1>5, <1>6, <1>8, <1>9, <1>11, <1>12

-----------------------------------------------------------------------------
(* The chunks for the client.                                              *)

LEMMA QueueAppend ==
  ASSUME NEW q, Queue(q), NEW m, m.type \in {"request", "notify", "chunk"},
         m.type = "request" => m.sel \in Selections
  PROVE  Queue(Append(q, m))
<1>1. Len(q) \in Nat /\ Sequence(q)
  BY SequenceParts DEF Queue
<1>2. /\ Sequence(Append(q, m)) /\ Len(Append(q, m)) = Len(q) + 1
      /\ \A i \in 1 .. Len(q) : Append(q, m)[i] = q[i]
      /\ Append(q, m)[Len(q) + 1] = m
  BY <1>1, AppendAny
<1>3. \A i \in 1 .. Len(Append(q, m)) : i \notin 1 .. Len(q) => i = Len(q) + 1
  BY <1>1, <1>2
<1> QED BY <1>2, <1>3 DEF Queue

LEMMA QueueConcat ==
  ASSUME NEW q, Queue(q), NEW x, Queue(x)
  PROVE  Queue(q \o x)
<1>1. Len(q) \in Nat /\ Len(x) \in Nat /\ Sequence(q) /\ Sequence(x)
  BY SequenceParts DEF Queue
<1>2. /\ Sequence(q \o x) /\ Len(q \o x) = Len(q) + Len(x)
      /\ \A i \in 1 .. Len(q) + Len(x) :
           (q \o x)[i] = IF i <= Len(q) THEN q[i] ELSE x[i - Len(q)]
  BY <1>1, ConcatAny
<1>3. ASSUME NEW i \in 1 .. Len(q \o x)
      PROVE  \/ i \in 1 .. Len(q) /\ (q \o x)[i] = q[i]
             \/ i - Len(q) \in 1 .. Len(x) /\ (q \o x)[i] = x[i - Len(q)]
  <2>1. CASE i <= Len(q)
    BY <1>1, <1>2, <2>1
  <2>2. CASE ~(i <= Len(q))
    <3>1. i - Len(q) \in 1 .. Len(x)
      BY <1>1, <1>2, <2>2
    <3> QED BY <1>2, <2>2, <3>1
  <2> QED BY <2>1, <2>2
<1> QED BY <1>2, <1>3 DEF Queue

LEMMA OutChunkParts ==
  ASSUME NEW t, NEW s, NEW v, NEW f, NEW l
  PROVE  /\ OutChunk(t, s, v, f, l).type = t /\ OutChunk(t, s, v, f, l).sel = s
         /\ OutChunk(t, s, v, f, l).src = v.src
         /\ OutChunk(t, s, v, f, l).first = f /\ OutChunk(t, s, v, f, l).last = l
BY DEF OutChunk

(* Number of chunks of a property.                                         *)
ChunkCount(v) == Parts(IF v.size = 0 THEN 1 ELSE v.size, ChunkUnits)

LEMMA ChunkCounts ==
  ASSUME NEW v, v.size \in Nat
  PROVE  ChunkCount(v) \in Nat \ {0} /\ (v.size = 0 => ChunkCount(v) = 1)
<1> DEFINE n == IF v.size = 0 THEN 1 ELSE v.size q == Parts(n, ChunkUnits)
<1>1. n \in Nat \ {0} /\ ChunkUnits \in Nat \ {0} /\ (v.size = 0 => n = 1)
  BY UnitsAssumption
<1> HIDE DEF n
<1>2. q \in Nat \ {0} /\ ChunkUnits * (q - 1) < n
  BY <1>1, PartsHold
<1> HIDE DEF q
<1>3. q >= 2 => ChunkUnits * 1 <= ChunkUnits * (q - 1)
  BY <1>1, <1>2, Mono
<1>4. n = 1 => q = 1
  BY <1>1, <1>2, <1>3
<1> QED BY <1>1, <1>2, <1>4 DEF ChunkCount, n, q

LEMMA ChunksParts ==
  ASSUME NEW v, v.size \in Nat, NEW s, NEW rd, NEW incremental
  PROVE  LET q == ChunksOf(v, s, rd, incremental) n == ChunkCount(v)
         IN  /\ Sequence(q) /\ Len(q) = n
             /\ \A i \in 1 .. n :
                  /\ q[i].type = "chunk" /\ q[i].sel = s /\ q[i].src = v.src
                  /\ incremental => /\ q[i].first <=> FirstChunk(i, rd)
                                    /\ q[i].last <=> Ends(v)
                  /\ ~incremental => /\ q[i].first <=> i = 1
                                     /\ q[i].last <=> i = n
<1> DEFINE q == ChunksOf(v, s, rd, incremental) n == ChunkCount(v)
           x(i) == IF incremental THEN OutChunk("chunk", s, v, FirstChunk(i, rd), Ends(v))
                   ELSE OutChunk("chunk", s, v, i = 1, i = n)
<1>1. n \in Nat \ {0}
  BY ChunkCounts
<1>2. q = [i \in 1 .. n |-> x(i)]
  BY DEF ChunksOf, ChunkCount
<1> HIDE DEF q, n
<1>3. Sequence(q) /\ Len(q) = n
  <2> DEFINE S == {x(i) : i \in 1 .. n}
  <2> HIDE DEF x
  <2>1. q \in [1 .. n -> S]
    BY <1>2
  <2> HIDE DEF S
  <2>2. q \in Seq(S)
    BY <1>1, <2>1, SeqDef
  <2> QED BY <1>1, <2>1, <2>2, LenProperties DEF Sequence
<1>4. ASSUME NEW i \in 1 .. n
      PROVE  /\ q[i].type = "chunk" /\ q[i].sel = s /\ q[i].src = v.src
             /\ incremental => /\ q[i].first <=> FirstChunk(i, rd)
                               /\ q[i].last <=> Ends(v)
             /\ ~incremental => /\ q[i].first <=> i = 1
                                /\ q[i].last <=> i = n
  <2>1. CASE incremental
    <3>1. q[i] = OutChunk("chunk", s, v, FirstChunk(i, rd), Ends(v))
      BY <1>2, <2>1
    <3> QED BY <2>1, <3>1, OutChunkParts
  <2>2. CASE ~incremental
    <3> DEFINE f == i = 1 l == i = n
    <3>1. q[i] = OutChunk("chunk", s, v, f, l)
      BY <1>2, <2>2
    <3> HIDE DEF f, l
    <3>2. /\ q[i].type = "chunk" /\ q[i].sel = s /\ q[i].src = v.src
          /\ q[i].first = f /\ q[i].last = l
      BY <3>1, OutChunkParts
    <3>3. (f <=> i = 1) /\ (l <=> i = n)
      BY DEF f, l
    <3> QED BY <2>2, <3>2, <3>3
  <2> QED BY <2>1, <2>2
<1> QED BY <1>3, <1>4 DEF q, n

LEMMA Stopped ==
  ASSUME NEW rd, IsReading(rd), NEW s \in Selections
  PROVE  /\ IsReading(StopReading(rd, s))
         /\ StopReading(rd, s).atom = None /\ StopReading(rd, s).read = 0
         /\ IsReading([StopReading(rd, s) EXCEPT !.current = s])
         /\ [StopReading(rd, s) EXCEPT !.current = s].atom = None
         /\ [StopReading(rd, s) EXCEPT !.current = s].read = 0
         /\ [StopReading(rd, s) EXCEPT !.current = s].current = s
         /\ ~StopReading(rd, s).mixed => ~rd.mixed
         /\ ~[StopReading(rd, s) EXCEPT !.current = s].mixed => ~rd.mixed
<1> DEFINE x == rd.mixed \/ (rd.atom # None /\ rd.current # s)
           y == StopReading(rd, s)
<1>1. y = [rd EXCEPT !.atom = None, !.read = 0, !.mixed = x]
  BY DEF StopReading
<1>2. ~x => ~rd.mixed
  OBVIOUS
<1> HIDE DEF x
<1>3. /\ IsReading(y) /\ y.atom = None /\ y.read = 0 /\ (~y.mixed => ~rd.mixed)
  BY <1>1, <1>2 DEF IsReading
<1> HIDE DEF y
<1>4. /\ IsReading([y EXCEPT !.current = s]) /\ [y EXCEPT !.current = s].atom = None
      /\ [y EXCEPT !.current = s].read = 0 /\ [y EXCEPT !.current = s].current = s
      /\ [y EXCEPT !.current = s].mixed = y.mixed
  BY <1>3 DEF IsReading
<1> QED BY <1>3, <1>4 DEF y

LEMMA ReadPropertyTyped ==
  ASSUME Shape, PropTyped(prop), AppsTyped, BestTyped, Queue(chunks), UNCHANGED xowner,
         NEW s \in Selections, NEW a \in Atoms, NEW rd, IsReading(rd), rd.current = s,
         ReadProperty(s, a, rd)
  PROVE  /\ PropTyped(prop') /\ AppsTyped' /\ BestTyped' /\ IsReading(reading')
         /\ MoreKnown /\ Queue(chunks')
<1> DEFINE v == prop[a]
<1>1. PropTyped([prop EXCEPT ![a] = None])
  BY PropCleared
<1>2. UNCHANGED apps => AppsTyped'
  BY DEF AppsTyped
<1>3. UNCHANGED best => BestTyped'
  BY DEF BestTyped
<1>4. UNCHANGED xq => MoreKnown
  BY KnownNone
<1>5. IsValue(v, a)
  BY DEF PropTyped
<1>6. CASE v = None
  <2>1. reading' = rd /\ UNCHANGED <<prop, apps, xq, best, chunks>>
    BY <1>6 DEF ReadProperty
  <2> QED BY <1>2, <1>3, <1>4, <2>1 DEF PropTyped
<1>7. CASE v # None /\ v.type = "INCR"
  <2>1. /\ reading' = [rd EXCEPT !.atom = a, !.read = 0]
        /\ prop' = [prop EXCEPT ![a] = None] /\ UNCHANGED <<apps, xq, best, chunks>>
    BY <1>7 DEF ReadProperty
  <2>2. a \in Kinds
    BY <1>5, <1>7 DEF IsValue, Atoms
  <2>3. IsReading(reading')
    BY <2>1, <2>2 DEF IsReading
  <2> QED BY <1>1, <1>2, <1>3, <1>4, <2>1, <2>3
<1>8. CASE v # None /\ v.type = "TARGETS"
  <2> DEFINE m == OutChunk("notify", s, v, TRUE, TRUE)
  <2>1. Queue(Append(chunks, m))
    <3>1. m.type = "notify"
      BY DEF OutChunk
    <3> HIDE DEF m
    <3> QED BY <3>1, QueueAppend
  <2> HIDE DEF m
  <2>2. CASE v.kind \in Kinds /\ s \notin Skipped /\ onDemand
    <3>1. /\ chunks' = Append(chunks, m) /\ best' = [best EXCEPT ![s] = v.kind]
          /\ reading' = rd /\ prop' = [prop EXCEPT ![a] = None]
          /\ UNCHANGED <<apps, xq>>
      BY <1>8, <2>2 DEF ReadProperty, m
    <3> HIDE DEF v
    <3>2. BestTyped'
      BY <2>2, <3>1 DEF BestTyped
    <3> QED BY <1>1, <1>2, <1>4, <2>1, <3>1, <3>2
  <2>3. CASE v.kind \in Kinds /\ s \notin Skipped /\ ~onDemand
    <3>1. /\ Converts(s, v.kind, [prop EXCEPT ![a] = None], rd)
          /\ UNCHANGED <<best, chunks>>
      BY <1>8, <2>3 DEF ReadProperty
    <3>2. v.kind \in Atoms
      BY <2>3 DEF Atoms
    <3>3. PropTyped(prop') /\ AppsTyped' /\ IsReading(reading') /\ MoreKnown
      BY <1>1, <3>1, <3>2, ConvertsTyped
    <3> QED BY <1>3, <3>1, <3>3
  <2>4. CASE v.kind \notin Kinds \/ s \in Skipped
    <3>1. /\ reading' = rd /\ prop' = [prop EXCEPT ![a] = None]
          /\ UNCHANGED <<apps, xq, best, chunks>>
      BY <1>8, <2>4 DEF ReadProperty
    <3> QED BY <1>1, <1>2, <1>3, <1>4, <3>1
  <2> QED BY <2>2, <2>3, <2>4
<1>9. CASE v # None /\ v.type = "data"
  <2> DEFINE i == rd.atom = a
             q == ChunksOf(v, s, rd, i)
             n == rd.read + v.size
             y == StopReading(rd, s)
  <2>1. /\ chunks' = chunks \o q
        /\ reading' = IF i /\ Ends(v) THEN y
                      ELSE IF i THEN [rd EXCEPT !.read = n] ELSE rd
        /\ prop' = [prop EXCEPT ![a] = None] /\ UNCHANGED <<apps, xq, best>>
    BY <1>9 DEF ReadProperty
  <2>2. v.size \in Nat
    BY <1>5, <1>9 DEF IsValue
  <2>3. Queue(q)
    <3> HIDE DEF i
    <3>1. /\ Sequence(q) /\ Len(q) = ChunkCount(v)
          /\ \A j \in 1 .. ChunkCount(v) : q[j].type = "chunk"
      BY <2>2, ChunksParts
    <3> HIDE DEF q
    <3> QED BY <3>1 DEF Queue
  <2>4. IsReading(y)
    BY Stopped
  <2>5. n \in Nat
    BY <2>2 DEF IsReading
  <2> HIDE DEF q, y, n, i
  <2>6. IsReading([rd EXCEPT !.read = n])
    BY <2>5 DEF IsReading
  <2>7. IsReading(reading')
    BY <2>1, <2>4, <2>6
  <2> QED BY <1>1, <1>2, <1>3, <1>4, <2>1, <2>3, <2>7, QueueConcat
<1> QED BY <1>5, <1>6, <1>7, <1>8, <1>9 DEF IsValue

(* The thread keeps what it knows of the exchange, and its chunks.         *)
LEMMA ThreadExchanged ==
  ASSUME Shape, Exchanged, Queue(chunks),
         OwnerChanged \/ DataDemanded \/ ConversionDone \/ PropertyChanged
  PROVE  Exchanged' /\ Queue(chunks')
<1>1. /\ PropTyped(prop) /\ AppsTyped /\ BestTyped /\ IsReading(reading)
      /\ EventsKnown /\ spc = "handle" /\ spc' = "wait" /\ Known(ev)
      /\ UNCHANGED <<ev, xowner>>
  BY DEF Exchanged, EventsKnown, OwnerChanged, DataDemanded, ConversionDone,
         PropertyChanged, Handles
<1>2. MoreKnown => EventsKnown'
  BY <1>1, KnownKept
<1>3. ASSUME PropTyped(prop'), AppsTyped', BestTyped', IsReading(reading'), MoreKnown
      PROVE  Exchanged'
  BY <1>2, <1>3 DEF Exchanged
<1>4. CASE OwnerChanged
  <2> DEFINE y == StopReading(reading, ev.sel)
  <2>1. UNCHANGED <<best, chunks>> /\ ev.sel \in Selections
    BY <1>1, <1>4 DEF OwnerChanged, Handles, Known
  <2>2. BestTyped'
    BY <1>1, <2>1 DEF BestTyped
  <2>3. CASE UNCHANGED <<reading, prop, apps, xq>>
    <3>1. AppsTyped' /\ MoreKnown
      BY <1>1, <2>3, KnownNone DEF AppsTyped
    <3> QED BY <1>1, <1>3, <2>1, <2>2, <2>3, <3>1
  <2>4. CASE Converts(ev.sel, "TARGETS", prop, y)
    <3>1. "TARGETS" \in Atoms /\ IsReading(y)
      BY <1>1, <2>1, Stopped DEF Atoms
    <3> HIDE DEF y
    <3>2. PropTyped(prop') /\ AppsTyped' /\ IsReading(reading') /\ MoreKnown
      BY <1>1, <2>1, <2>4, <3>1, ConvertsTyped
    <3> QED BY <1>3, <2>1, <2>2, <3>2
  <2> QED BY <1>4, <2>3, <2>4 DEF OwnerChanged
<1>5. CASE DataDemanded
  <2>1. UNCHANGED <<best, chunks>> /\ ev.sel \in Selections
    BY <1>1, <1>5 DEF DataDemanded, Handles, Known
  <2>2. BestTyped'
    BY <1>1, <2>1 DEF BestTyped
  <2>3. CASE UNCHANGED <<reading, prop, apps, xq>>
    <3>1. AppsTyped' /\ MoreKnown
      BY <1>1, <2>3, KnownNone DEF AppsTyped
    <3> QED BY <1>1, <1>3, <2>1, <2>2, <2>3, <3>1
  <2>4. CASE best[ev.sel] # None /\ Converts(ev.sel, best[ev.sel], prop, reading)
    <3>1. best[ev.sel] \in Atoms
      BY <1>1, <2>1, <2>4 DEF Atoms, BestTyped
    <3>2. PropTyped(prop') /\ AppsTyped' /\ IsReading(reading') /\ MoreKnown
      BY <1>1, <2>1, <2>4, <3>1, ConvertsTyped
    <3> QED BY <1>3, <2>1, <2>2, <3>2
  <2> QED BY <1>5, <2>3, <2>4 DEF DataDemanded
<1>6. CASE ConversionDone
  <2> DEFINE y == StopReading(reading, ev.sel) z == [y EXCEPT !.current = ev.sel]
  <2>1. ev.sel \in Selections /\ ev.arg \in Atoms \cup {None}
    BY <1>1, <1>6 DEF ConversionDone, Handles, Known
  <2>2. IsReading(y) /\ IsReading(z) /\ z.current = ev.sel
    BY <1>1, <2>1, Stopped
  <2>3. CASE reading' = y /\ UNCHANGED <<prop, apps, xq, best, chunks>>
    <3>1. AppsTyped' /\ MoreKnown /\ BestTyped'
      BY <1>1, <2>3, KnownNone DEF AppsTyped, BestTyped
    <3> QED BY <1>1, <1>3, <2>2, <2>3, <3>1
  <2>4. CASE ev.arg # None /\ ReadProperty(ev.sel, ev.arg, z)
    <3>1. ev.arg \in Atoms
      BY <2>1, <2>4
    <3> HIDE DEF z
    <3>2. /\ PropTyped(prop') /\ AppsTyped' /\ BestTyped' /\ IsReading(reading')
          /\ MoreKnown /\ Queue(chunks')
      BY <1>1, <2>1, <2>2, <2>4, <3>1, ReadPropertyTyped
    <3> QED BY <1>3, <3>2
  <2> QED BY <1>6, <2>3, <2>4 DEF ConversionDone
<1>7. CASE PropertyChanged
  <2>1. ev.arg \in Atoms
    BY <1>1, <1>7 DEF PropertyChanged, Handles, Known
  <2>2. CASE UNCHANGED <<reading, prop, apps, xq, best, chunks>>
    <3>1. AppsTyped' /\ MoreKnown /\ BestTyped'
      BY <1>1, <2>2, KnownNone DEF AppsTyped, BestTyped
    <3> QED BY <1>1, <1>3, <2>2, <3>1
  <2>3. CASE reading.atom = ev.arg /\ ReadProperty(reading.current, ev.arg, reading)
    <3>1. reading.atom # None
      BY <2>1, <2>3, KindsAssumption DEF Atoms
    <3>2. reading.current \in Selections
      BY <1>1, <3>1 DEF IsReading
    <3>3. /\ PropTyped(prop') /\ AppsTyped' /\ BestTyped' /\ IsReading(reading')
          /\ MoreKnown /\ Queue(chunks')
      BY <1>1, <2>1, <2>3, <3>2, ReadPropertyTyped
    <3> QED BY <1>3, <3>3
  <2> QED BY <1>7, <2>2, <2>3 DEF PropertyChanged
<1> QED BY <1>4, <1>5, <1>6, <1>7

LEMMA OwnedEvents ==
  ASSUME NEW s
  PROVE  /\ Sequence(OwnEvents(s))
         /\ \A i \in 1 .. Len(OwnEvents(s)) : OwnEvents(s)[i] = Event("owner", s, "us")
<1> DEFINE e == Event("owner", s, "us")
<1>2. <<e>> \in Seq({e}) /\ Len(<<e>>) = 1 /\ <<e>>[1] = e
  OBVIOUS
<1>3. <<>> \in Seq({e}) /\ Len(<<>>) = 0
  OBVIOUS
<1>4. OwnEvents(s) = <<e>> \/ OwnEvents(s) = <<>>
  BY DEF OwnEvents, e
<1>5. CASE OwnEvents(s) = <<e>>
  <2>1. Sequence(<<e>>)
    BY <1>2 DEF Sequence
  <2>2. \A i \in 1 .. Len(<<e>>) : i = 1
    BY <1>2
  <2> QED BY <1>2, <1>5, <2>1, <2>2 DEF e
<1>6. CASE OwnEvents(s) = <<>>
  <2>1. Sequence(<<>>)
    BY <1>3 DEF Sequence
  <2> QED BY <1>3, <1>6, <2>1
<1> QED BY <1>4, <1>5, <1>6

(* What the main thread tells the selection thread.                        *)
Notice(e) ==
  /\ Known(e) /\ e.type \notin {"reply", "newvalue"}
  /\ e.type = "owner" => e.arg # "app"

LEMMA MainGrows ==
  ASSUME Shape, Stream(toServer), MainThread
  PROVE  \E E : Grows(E) /\ \A e \in E : Notice(e)
<1> DEFINE m == Head(toServer) s == m.sel
           F == {Event("owner", s, "us"), Event("ready", s, None), Event("demand", s, None)}
<1>0. PICK E : E = F
  OBVIOUS
<1>1. s \in Selections
  <2>1. toServer # <<>>
    BY DEF MainThread, ReadNotify, ReadChunk, ReadRest, ReadDemand, MainReads
  <2>2. Sequence(toServer)
    BY DEF Stream
  <2>3. Head(toServer) = toServer[1] /\ 1 \in 1 .. Len(toServer)
    BY <2>1, <2>2, SequenceParts, TailAny
  <2> QED BY <2>3 DEF Stream, OfClient
<1> DEFINE x == OwnEvents(s) ready == Event("ready", s, None)
<1>2. /\ Sequence(x) /\ \A i \in 1 .. Len(x) : x[i] \in E
      /\ ready \in E /\ Event("demand", s, None) \in E
  BY <1>0, OwnedEvents
<1>8. \A e \in E : Notice(e)
  BY <1>0, <1>1, EventParts DEF Known, Notice
<1> SUFFICES Grows(E)
  BY <1>8
<1>9. UNCHANGED xq => Grows(E)
  BY SequenceParts DEF Grows, Shape
<1> HIDE DEF F
<1>3. CASE ReadNotify
  <2>1. xq' = xq \o x
    BY <1>3 DEF ReadNotify
  <2> HIDE DEF x
  <2> QED BY <1>2, <2>1, GrowsSome
<1>4. CASE ReadChunk
  <2>1. \/ UNCHANGED xq
        \/ xq' = xq \o x \o <<ready>>
        \/ xq' = xq \o <<>> \o <<ready>>
    BY <1>4 DEF ReadChunk
  <2> DEFINE q == x \o <<ready>>
  <2> HIDE DEF x, ready, s
  <2>2. <<ready>> \in Seq({ready}) /\ Len(<<ready>>) = 1 /\ <<ready>>[1] = ready
    OBVIOUS
  <2>3. PICK S : xq \in Seq(S)
    BY DEF Shape, Sequence
  <2>4. CASE xq' = xq \o x \o <<ready>>
    <3>1. PICK T : x \in Seq(T)
      BY <1>2 DEF Sequence
    <3>2. /\ xq \in Seq((S \cup T) \cup {ready})
          /\ x \in Seq((T \cup S) \cup {ready})
          /\ (T \cup S) \cup {ready} = (S \cup T) \cup {ready}
          /\ <<ready>> \in Seq((S \cup T) \cup {ready})
      BY <2>3, <3>1, SeqOfMore
    <3>3. xq' = xq \o q
      BY <2>4, <3>2, ConcatAssociative
    <3>4. Sequence(<<ready>>)
      BY <2>2 DEF Sequence
    <3>5. /\ Sequence(q) /\ Len(q) = Len(x) + 1
          /\ \A i \in 1 .. Len(x) + 1 :
               q[i] = IF i <= Len(x) THEN x[i] ELSE <<ready>>[i - Len(x)]
      BY <1>2, <2>2, <3>4, ConcatAny
    <3> HIDE DEF q
    <3>6. ASSUME NEW i \in 1 .. Len(q) PROVE q[i] \in E
      <4>1. Len(x) \in Nat
        BY <1>2, SequenceParts
      <4>2. CASE i <= Len(x)
        BY <1>2, <3>5, <4>1, <4>2
      <4>3. CASE ~(i <= Len(x))
        <5>1. i - Len(x) = 1
          BY <3>5, <4>1, <4>3
        <5>2. q[i] = <<ready>>[i - Len(x)]
          BY <3>5, <4>3
        <5> QED BY <1>2, <2>2, <5>1, <5>2
      <4> QED BY <4>2, <4>3
    <3> QED BY <3>3, <3>5, <3>6, GrowsSome
  <2>5. CASE xq' = xq \o <<>> \o <<ready>>
    <3>1. xq' = Append(xq, ready)
      <4>1. xq \o <<>> = xq
        BY <2>3
      <4>2. xq \o <<ready>> = Append(xq, ready)
        BY <2>3
      <4> QED BY <2>5, <4>1, <4>2
    <3> QED BY <1>2, <3>1, GrowsOne
  <2> QED BY <1>9, <2>1, <2>4, <2>5
<1>5. CASE ReadRest
  BY <1>5, <1>9 DEF ReadRest
<1>6. CASE ReadDemand
  <2>1. xq' = Append(xq, Event("demand", s, None))
    BY <1>6 DEF ReadDemand
  <2> QED BY <1>2, <2>1, GrowsOne
<1> QED BY <1>3, <1>4, <1>5, <1>6 DEF MainThread

LEMMA MainKnown ==
  ASSUME Shape, Stream(toServer), MainThread
  PROVE  MoreKnown
BY MainGrows DEF Grows, MoreKnown, Notice

LEMMA AppCopiesTyped ==
  ASSUME AppsTyped, DOMAIN xowner = Selections, NEW s \in Selections,
         NEW k \in AppKinds, AppCopies(s, k)
  PROVE  /\ AppsTyped'
         /\ \A t \in Selections : /\ apps'[t].conv = apps[t].conv
                                  /\ apps'[t].sending = apps[t].sending
<1> DEFINE c == [ver |-> version + 1, kind |-> k]
           x == [apps[s] EXCEPT !.copy = c]
<1>1. apps' = [apps EXCEPT ![s] = x] /\ xowner' = [xowner EXCEPT ![s] = "app"]
  BY DEF AppCopies
<1>2. c.kind \in AppKinds
  OBVIOUS
<1> HIDE DEF c
<1>3. /\ DOMAIN x = {"copy", "conv", "sending", "left"} /\ x.copy = c
      /\ x.conv = apps[s].conv /\ x.sending = apps[s].sending /\ x.left = apps[s].left
  BY DEF AppsTyped, IsApp
<1> HIDE DEF x
<1>4. IsApp(x)
  BY <1>3 DEF IsApp, AppsTyped
<1>5. /\ DOMAIN apps' = Selections /\ apps'[s] = x
      /\ \A t \in Selections : t # s => apps'[t] = apps[t] /\ xowner'[t] = xowner[t]
  BY <1>1 DEF AppsTyped
<1> QED BY <1>2, <1>3, <1>4, <1>5 DEF AppsTyped

(* The state of the exchange keeps its types.                              *)
LEMMA NextExchanged ==
  ASSUME Invariant, Incoming, Exchanged, Queues, [Next]_vars
  PROVE  Exchanged'
<1>1. /\ Shape /\ Stream(toServer) /\ DOMAIN xowner = Selections
      /\ PropTyped(prop) /\ AppsTyped /\ BestTyped /\ IsReading(reading)
      /\ EventsKnown /\ Queue(chunks)
  BY DEF Invariant, Incoming, Exchanged, Queues, Shape
<1>2. ASSUME PropTyped(prop'), AppsTyped', UNCHANGED <<best, reading>>, EventsKnown'
      PROVE  Exchanged'
  BY <1>1, <1>2 DEF Exchanged, BestTyped
<1>3. ASSUME UNCHANGED <<prop, apps, xowner, best, reading>>, EventsKnown'
      PROVE  Exchanged'
  <2>1. AppsTyped' /\ PropTyped(prop')
    BY <1>1, <1>3 DEF AppsTyped
  <2> QED BY <1>2, <1>3, <2>1
<1>4. UNCHANGED <<xq, ev>> /\ (spc' # "wait" => spc # "wait") => EventsKnown'
  BY <1>1, KnownNone, KnownKept
<1>5. CASE MainThread
  <2>1. UNCHANGED <<prop, apps, best, reading, spc, ev>>
    BY <1>5 DEF MainThread, ReadNotify, ReadChunk, ReadRest, ReadDemand, thread,
                outgoing, xserver
  <2>2. EventsKnown'
    BY <1>1, <1>5, <2>1, MainKnown, KnownKept
  <2>3. \A t \in Selections : xowner'[t] = "app" => xowner[t] = "app"
    <3>1. (\E s : OwnsNow(s)) \/ UNCHANGED xowner
      BY <1>5 DEF MainThread, ReadNotify, ReadChunk, ReadRest, ReadDemand, xserver
    <3> QED BY <1>1, <3>1 DEF OwnsNow
  <2>4. AppsTyped' /\ PropTyped(prop')
    BY <1>1, <2>1, <2>3 DEF AppsTyped
  <2> QED BY <1>2, <2>1, <2>2, <2>4
<1>6. CASE SelectionThread
  <2>1. CASE OwnerChanged \/ DataDemanded \/ ConversionDone \/ PropertyChanged
    BY <1>1, <2>1, ThreadExchanged
  <2>2. CASE Wake
    <3>1. UNCHANGED <<prop, apps, xowner, best, reading>>
      BY <2>2 DEF Wake, outgoing, xserver
    <3> QED BY <1>1, <1>3, <2>2, <3>1, WakeKnown
  <2>3. CASE \/ ScanDelayed \/ ScanDone \/ PruneDelayed \/ PruneDone
             \/ AnswerRequest \/ DelayRequest \/ NextPortion \/ DataReady
    <3>1. /\ UNCHANGED <<prop, apps, xowner, best, reading, xq, ev>>
          /\ spc' # "wait" => spc # "wait"
      BY <2>3 DEF ScanDelayed, ScanDone, PruneDelayed, PruneDone, AnswerRequest,
                  DelayRequest, NextPortion, DataReady, outgoing, xserver, Handles
    <3> QED BY <1>3, <1>4, <3>1
  <2> QED BY <1>6, <2>1, <2>2, <2>3 DEF SelectionThread
<1>7. CASE SendingThread
  <2>1. UNCHANGED <<prop, apps, xowner, best, reading, xq, ev, spc>>
    BY <1>7 DEF SendingThread, SendChunk, SendRequest, thread, outgoing, xserver
  <2> QED BY <1>3, <1>4, <2>1
<1>8. CASE Environment
  <2>1. CASE \/ Tick \/ ClientReads \/ ClientLeaves \/ ClientArrives
             \/ \E s \in Selections :
                  (\E k \in ClientKinds : ClientCopies(s, k)) \/ ClientDemands(s)
    <3>1. UNCHANGED <<prop, apps, xowner, best, reading, xq, ev, spc>>
      BY <2>1 DEF Tick, ClientReads, ClientLeaves, ClientArrives, ClientCopies,
                  ClientDemands, thread, outgoing, xserver
    <3> QED BY <1>3, <1>4, <3>1
  <2>2. ASSUME NEW s \in Selections, NEW k \in AppKinds, AppCopies(s, k)
        PROVE  Exchanged'
    <3>1. /\ xq' = Append(xq, Event("owner", s, "app"))
          /\ UNCHANGED <<prop, best, reading, spc, ev>>
      BY <2>2 DEF AppCopies, thread, outgoing
    <3>2. Known(Event("owner", s, "app"))
      BY EventParts DEF Known
    <3>3. EventsKnown'
      BY <1>1, <3>1, <3>2, KnownOne, KnownKept
    <3> QED BY <1>1, <1>2, <2>2, <3>1, <3>3, AppCopiesTyped
  <2>3. ASSUME NEW s \in Selections, AppConverts(s) \/ AppPortion(s)
        PROVE  Exchanged'
    <3>1. UNCHANGED <<best, reading, spc, ev>>
      BY <2>3 DEF AppConverts, AppPortion, thread, outgoing
    <3>2. PropTyped(prop') /\ AppsTyped' /\ MoreKnown
      BY <1>1, <2>3, AppConvertsTyped, AppPortionTyped
    <3> QED BY <1>1, <1>2, <3>1, <3>2, KnownKept
  <2>4. ASSUME NEW s \in Selections, NEW r \in Requests,
               NEW target \in ClientKinds \cup {"meta"}, NEW t \in {0, clock},
               AppPastes(r, s, target, t)
        PROVE  Exchanged'
    <3>1. /\ xq' = Append(xq, Event("request", s, r))
          /\ UNCHANGED <<prop, apps, xowner, best, reading, spc, ev>>
      BY <2>4 DEF AppPastes, thread, outgoing, xserver
    <3>2. Known(Event("request", s, r))
      BY EventParts DEF Known
    <3>3. EventsKnown'
      BY <1>1, <3>1, <3>2, KnownOne, KnownKept
    <3> QED BY <1>3, <3>1, <3>3
  <2>5. ASSUME NEW r \in Requests, AppDeletes(r) PROVE Exchanged'
    <3>1. /\ xq' = Append(xq, Event("deleted", answer[r].sel, r))
          /\ UNCHANGED <<prop, apps, xowner, best, reading, spc, ev>>
      BY <2>5 DEF AppDeletes, thread, outgoing, xserver
    <3>2. Known(Event("deleted", answer[r].sel, r))
      BY EventParts DEF Known
    <3>3. EventsKnown'
      BY <1>1, <3>1, <3>2, KnownOne, KnownKept
    <3> QED BY <1>3, <3>1, <3>3
  <2> QED BY <1>8, <2>1, <2>2, <2>3, <2>4, <2>5 DEF Environment
<1>9. CASE UNCHANGED vars
  <2>1. UNCHANGED <<prop, apps, xowner, best, reading, xq, ev, spc>>
    BY <1>9 DEF vars, thread, outgoing, xserver
  <2> QED BY <1>3, <1>4, <2>1
<1> QED BY <1>5, <1>6, <1>7, <1>8, <1>9 DEF Next

(* And so do the chunks and the messages to the client.                    *)
LEMMA NextQueues ==
  ASSUME Invariant, Incoming, Exchanged, Queues, [Next]_vars
  PROVE  Queues'
<1>1. Shape /\ Queue(toClient) /\ Queue(chunks)
  BY DEF Invariant, Queues
<1>2. UNCHANGED <<chunks, toClient>> => Queues'
  BY DEF Queues
<1>3. CASE MainThread
  BY <1>2, <1>3 DEF MainThread, ReadNotify, ReadChunk, ReadRest, ReadDemand, outgoing
<1>4. CASE SelectionThread
  <2>1. UNCHANGED toClient
    BY <1>4 DEF SelectionThread, Wake, ScanDelayed, ScanDone, PruneDelayed,
                PruneDone, AnswerRequest, DelayRequest, NextPortion, DataReady,
                OwnerChanged, DataDemanded, ConversionDone, PropertyChanged, net
  <2>2. CASE OwnerChanged \/ DataDemanded \/ ConversionDone \/ PropertyChanged
    <3>1. Queue(chunks')
      BY <1>1, <2>2, ThreadExchanged
    <3> QED BY <1>1, <2>1, <3>1 DEF Queues
  <2>3. CASE \/ Wake \/ ScanDelayed \/ ScanDone \/ PruneDelayed \/ PruneDone
             \/ AnswerRequest \/ DelayRequest \/ NextPortion \/ DataReady
    <3>1. UNCHANGED chunks
      BY <2>3 DEF Wake, ScanDelayed, ScanDone, PruneDelayed, PruneDone, AnswerRequest,
                  DelayRequest, NextPortion, DataReady, outgoing
    <3> QED BY <1>2, <2>1, <3>1
  <2> QED BY <1>4, <2>2, <2>3 DEF SelectionThread
<1>5. CASE SendChunk
  <2>1. /\ chunks # <<>> /\ chunks' = Tail(chunks)
        /\ toClient' = Append(toClient, Head(chunks))
    BY <1>5 DEF SendChunk
  <2>2. /\ Queue(Tail(chunks))
        /\ Head(chunks).type \in {"request", "notify", "chunk"}
        /\ Head(chunks).type = "request" => Head(chunks).sel \in Selections
    BY <1>1, <2>1, QueueHead
  <2>3. Queue(Append(toClient, Head(chunks)))
    BY <1>1, <2>2, QueueAppend
  <2> QED BY <2>1, <2>2, <2>3 DEF Queues
<1>6. ASSUME NEW s \in Selections, SendRequest(s)
      PROVE  Queues'
  <2> DEFINE m == Message("request", s, NoCopy, 0, 0)
  <2>1. toClient' = Append(toClient, m) /\ UNCHANGED chunks
    BY <1>6 DEF SendRequest, outgoing
  <2>2. m.type = "request" /\ m.sel \in Selections
    BY DEF Message
  <2> HIDE DEF m
  <2>3. Queue(Append(toClient, m))
    BY <1>1, <2>2, QueueAppend
  <2> QED BY <1>1, <2>1, <2>3 DEF Queues
<1>7. CASE Environment
  <2>1. CASE ClientReads
    <3>1. toClient # <<>> /\ toClient' = Tail(toClient) /\ UNCHANGED chunks
      BY <2>1 DEF ClientReads, outgoing
    <3> QED BY <1>1, <3>1, QueueHead DEF Queues
  <2>2. CASE ClientLeaves
    <3>1. toClient' = <<>> /\ chunks' = <<>>
      BY <2>2 DEF ClientLeaves
    <3>2. Queue(<<>>)
      <4>1. <<>> \in Seq({}) /\ Len(<<>>) = 0
        OBVIOUS
      <4>2. Sequence(<<>>)
        BY <4>1 DEF Sequence
      <4> QED BY <4>1, <4>2 DEF Queue
    <3> QED BY <3>1, <3>2 DEF Queues
  <2>3. CASE \/ Tick \/ ClientArrives
             \/ \E s \in Selections :
                  (\E k \in ClientKinds : ClientCopies(s, k)) \/ ClientDemands(s)
    <3>1. UNCHANGED <<chunks, toClient>>
      BY <2>3 DEF Tick, ClientArrives, ClientCopies, ClientDemands, outgoing, net
    <3> QED BY <1>2, <3>1
  <2>4. CASE \/ \E s \in Selections :
                  \/ \E k \in AppKinds : AppCopies(s, k)
                  \/ AppConverts(s) \/ AppPortion(s)
                  \/ \E r \in Requests, target \in ClientKinds \cup {"meta"}, t \in {0, clock} :
                       AppPastes(r, s, target, t)
             \/ \E r \in Requests : AppDeletes(r)
    <3>1. UNCHANGED <<chunks, toClient>>
      BY <2>4 DEF AppCopies, AppConverts, AppPortion, AppPastes, AppDeletes, outgoing, net
    <3> QED BY <1>2, <3>1
  <2> QED BY <1>7, <2>1, <2>2, <2>3, <2>4 DEF Environment
<1>8. CASE UNCHANGED vars
  BY <1>2, <1>8 DEF vars, outgoing, net
<1> QED BY <1>3, <1>4, <1>5, <1>6, <1>7, <1>8 DEF Next, SendingThread

-----------------------------------------------------------------------------
(* The thread's walks and its transactions.                                *)

IsTransaction(x) ==
  DOMAIN x = {"req", "size", "sent"} /\ x.size \in Nat /\ x.sent \in 0 .. x.size

Walking ==
  /\ spc \in {"wait", "scan", "prune", "handle"} /\ pos \in 1 .. Len(delayed) + 1
  /\ \A i \in 1 .. Len(incr) : IsTransaction(incr[i])

LEMMA TransactionParts ==
  ASSUME NEW r, NEW b, b.size \in Nat
  PROVE  IsTransaction(Transaction(r, b))
BY DEF IsTransaction, Transaction

LEMMA TransactionBegun ==
  ASSUME Invariant, Typed, Walking, NEW r, NEW a,
         a.how = "incr" => a.sel \in Selections, incr' = WithIncr(r, a)
  PROVE  \A i \in 1 .. Len(incr') : IsTransaction(incr'[i])
<1>1. CASE a.how # "incr"
  BY <1>1 DEF WithIncr, Walking
<1>2. CASE a.how = "incr"
  <2> DEFINE x == Transaction(r, inSel[a.sel])
  <2>1. IsTransaction(x)
    <3>1. inSel[a.sel].size \in Nat
      BY <1>2 DEF Typed, IsBuffer, BufferType
    <3> QED BY <3>1, TransactionParts
  <2>2. incr' = Append(incr, x)
    BY <1>2 DEF WithIncr
  <2> HIDE DEF x
  <2>3. Sequence(incr) /\ Len(incr) \in Nat
    BY SequenceParts DEF Invariant, Shape
  <2>4. /\ Len(incr') = Len(incr) + 1 /\ incr'[Len(incr) + 1] = x
        /\ \A i \in 1 .. Len(incr) : incr'[i] = incr[i]
    BY <2>2, <2>3, AppendAny
  <2>5. \A i \in 1 .. Len(incr') : i \notin 1 .. Len(incr) => i = Len(incr) + 1
    BY <2>3, <2>4
  <2> QED BY <2>1, <2>4, <2>5 DEF Walking
<1> QED BY <1>1, <1>2

LEMMA PortionWalks ==
  ASSUME Invariant, Walking, NextPortion
  PROVE  \A i \in 1 .. Len(incr') : IsTransaction(incr'[i])
<1>1. Sequence(incr) /\ Len(incr) \in Nat /\ DOMAIN incr = 1 .. Len(incr)
  BY SequenceParts DEF Invariant, Shape
<1>2. PICK S : incr \in Seq(S)
  BY <1>1 DEF Sequence
<1>3. \E i \in 1 .. Len(incr) :
        \/ /\ incr' = [incr EXCEPT ![i].sent = @ + Portion(incr[i])]
           /\ incr[i].sent < incr[i].size
        \/ incr' = Without(incr, i)
  BY <1>1 DEF NextPortion, Without
<1>4. PICK i \in 1 .. Len(incr) :
        \/ /\ incr' = [incr EXCEPT ![i].sent = @ + Portion(incr[i])]
           /\ incr[i].sent < incr[i].size
        \/ incr' = Without(incr, i)
  BY <1>3
<1>5. CASE /\ incr' = [incr EXCEPT ![i].sent = @ + Portion(incr[i])]
           /\ incr[i].sent < incr[i].size
  <2> DEFINE n == incr[i].sent + Portion(incr[i]) x == [incr[i] EXCEPT !.sent = n]
  <2>1. IsTransaction(incr[i])
    BY DEF Walking
  <2>2. n \in 0 .. incr[i].size
    BY <1>5, <2>1, UnitsAssumption DEF IsTransaction, Portion, AtMost
  <2>3. incr' = [incr EXCEPT ![i] = x]
    BY <1>5
  <2> HIDE DEF n
  <2>4. IsTransaction(x)
    BY <2>1, <2>2 DEF IsTransaction
  <2> HIDE DEF x
  <2>5. incr' \in [1 .. Len(incr) -> S \cup {x}]
    <3>1. incr \in [1 .. Len(incr) -> S]
      BY <1>2, LenProperties
    <3> QED BY <2>3, <3>1
  <2>6. incr' \in Seq(S \cup {x})
    BY <1>1, <2>5, SeqDef
  <2>7. Len(incr') = Len(incr)
    BY <1>1, <2>5, <2>6, LenProperties
  <2>8. \A j \in 1 .. Len(incr) : incr'[j] = IF j = i THEN x ELSE incr[j]
    BY <1>1, <2>3
  <2> QED BY <2>4, <2>7, <2>8 DEF Walking
<1>6. CASE incr' = Without(incr, i)
  <2>1. /\ Len(incr') = Len(incr) - 1
        /\ \A j \in 1 .. Len(incr) - 1 :
             incr'[j] = IF j < i THEN incr[j] ELSE incr[j + 1]
    BY <1>2, <1>6, WithoutOne
  <2>2. \A j \in 1 .. Len(incr') : j \in 1 .. Len(incr) /\ j + 1 \in 1 .. Len(incr)
    BY <1>1, <2>1
  <2> QED BY <2>1, <2>2 DEF Walking
<1> QED BY <1>4, <1>5, <1>6

LEMMA NextWalking ==
  ASSUME Invariant, Incoming, Walking, [Next]_vars
  PROVE  Walking'
<1>1. /\ Len(delayed) \in Nat /\ delayed \in Seq(Requests)
      /\ pos \in 1 .. Len(delayed) + 1
      /\ spc \in {"wait", "scan", "prune", "handle"}
      /\ \A i \in 1 .. Len(incr) : IsTransaction(incr[i])
      /\ Typed
  BY DelayedParts DEF Invariant, Walking, Incoming, Shape
<1>2. ASSUME UNCHANGED <<delayed, incr>>, spc' \in {"wait", "scan", "prune", "handle"},
             pos' = pos \/ pos' = 1
      PROVE  Walking'
  BY <1>1, <1>2 DEF Walking
<1>3. CASE MainThread \/ SendingThread \/ UNCHANGED vars
  BY <1>1, <1>2, <1>3 DEF MainThread, SendingThread, ReadNotify, ReadChunk, ReadRest,
    ReadDemand, SendChunk, SendRequest, vars, incoming, thread
<1>4. CASE Environment
  <2>1. UNCHANGED <<delayed, incr, spc, pos>>
    BY <1>4 DEF Environment, Tick, ClientReads, ClientLeaves, ClientArrives,
      ClientCopies, AppCopies, ClientDemands, AppConverts, AppPortion, AppPastes,
      AppDeletes, incoming, thread
  <2> QED BY <1>1, <1>2, <2>1
<1>5. CASE SelectionThread
  <2>1. CASE \/ Wake \/ ScanDone \/ PruneDone \/ DataReady \/ OwnerChanged
             \/ DataDemanded \/ ConversionDone \/ PropertyChanged
    <3>1. /\ UNCHANGED <<delayed, incr>> /\ (pos' = pos \/ pos' = 1)
          /\ spc' \in {"wait", "scan", "prune", "handle"}
      BY <2>1 DEF Wake, ScanDone, PruneDone, DataReady, OwnerChanged, DataDemanded,
        ConversionDone, PropertyChanged, Handles, incoming
    <3> QED BY <1>2, <3>1
  <2>2. CASE DelayRequest
    <3>1. /\ delayed' = Append(delayed, ev.arg) /\ UNCHANGED <<incr, pos>>
          /\ spc' = "wait"
      BY <2>2 DEF DelayRequest, Handles
    <3>2. Sequence(delayed)
      BY <1>1 DEF Sequence
    <3>3. Len(delayed') = Len(delayed) + 1
      BY <3>1, <3>2, AppendAny
    <3> QED BY <1>1, <3>1, <3>3 DEF Walking
  <2>3. CASE NextPortion
    <3>1. UNCHANGED <<delayed, pos>> /\ spc' = "wait"
      BY <2>3 DEF NextPortion, Handles
    <3> QED BY <1>1, <2>3, <3>1, PortionWalks DEF Walking
  <2>4. CASE AnswerRequest
    <3> DEFINE r == ev.arg b == inSel[ev.sel]
               a == IF ~b.owner \/ Older(r) THEN Refused(answer[r])
                    ELSE IF answer[r].target = "meta"
                         THEN [answer[r] EXCEPT !.how = "meta"]
                         ELSE Answered(answer[r], b)
    <3>1. /\ answer' = [answer EXCEPT ![r] = a] /\ incr' = WithIncr(r, a)
          /\ UNCHANGED <<delayed, pos>> /\ spc' = "wait"
          /\ ev.type = "request" /\ spc = "handle"
      BY <2>4 DEF AnswerRequest, Handles
    <3>2. r \in Requests
      BY <3>1 DEF Incoming, EventsNamed, Named
    <3>3. AnswersKept
      BY <2>4, AnswerSteps
    <3> HIDE DEF a, r
    <3>4. answer'[r] = a
      BY <1>1, <3>1, <3>2 DEF Typed
    <3>5. a.how = "incr" => a.sel \in Selections
      BY <3>2, <3>3, <3>4 DEF AnswersKept
    <3>6. \A i \in 1 .. Len(incr') : IsTransaction(incr'[i])
      BY <1>1, <3>1, <3>5, TransactionBegun
    <3> QED BY <1>1, <3>1, <3>6 DEF Walking
  <2>5. CASE ScanDelayed \/ PruneDelayed
    <3> DEFINE r == delayed[pos] a == Answered(answer[r], inSel[answer[r].sel])
    <3>1. /\ pos <= Len(delayed) /\ UNCHANGED spc
          /\ \/ delayed' = Without(delayed, pos) /\ UNCHANGED <<incr, pos>>
             \/ pos' = pos + 1 /\ UNCHANGED <<delayed, incr>>
             \/ /\ delayed' = Without(delayed, pos) /\ UNCHANGED pos
                /\ answer' = [answer EXCEPT ![r] = a] /\ incr' = WithIncr(r, a)
      BY <2>5 DEF ScanDelayed, PruneDelayed, Discard, Without
    <3>2. pos \in 1 .. Len(delayed)
      BY <1>1, <3>1
    <3>3. r \in Requests
      BY <3>2, DelayedParts DEF Invariant
    <3>4. Len(Without(delayed, pos)) = Len(delayed) - 1
      BY <1>1, <3>2, WithoutOne
    <3>5. AnswersKept
      BY <2>5, AnswerSteps
    <3> HIDE DEF a, r
    <3>6. CASE delayed' = Without(delayed, pos) /\ UNCHANGED <<incr, pos>>
      BY <1>1, <3>1, <3>2, <3>4, <3>6 DEF Walking
    <3>7. CASE pos' = pos + 1 /\ UNCHANGED <<delayed, incr>>
      BY <1>1, <3>1, <3>2, <3>7 DEF Walking
    <3>8. CASE /\ delayed' = Without(delayed, pos) /\ UNCHANGED pos
               /\ answer' = [answer EXCEPT ![r] = a] /\ incr' = WithIncr(r, a)
      <4>1. answer'[r] = a
        BY <1>1, <3>3, <3>8 DEF Typed
      <4>2. a.how = "incr" => a.sel \in Selections
        BY <3>3, <3>5, <4>1 DEF AnswersKept
      <4>3. \A i \in 1 .. Len(incr') : IsTransaction(incr'[i])
        BY <1>1, <3>8, <4>2, TransactionBegun
      <4> QED BY <1>1, <3>1, <3>2, <3>4, <3>8, <4>3 DEF Walking
    <3> QED BY <3>1, <3>6, <3>7, <3>8
  <2> QED BY <1>5, <2>1, <2>2, <2>3, <2>4, <2>5 DEF SelectionThread
<1> QED BY <1>3, <1>4, <1>5 DEF Next

-----------------------------------------------------------------------------
(* All of it together.                                                     *)

Exchange == Invariant /\ Incoming /\ Queues /\ Exchanged /\ Walking

LEMMA InitExchange == Init => Exchange
<1> SUFFICES ASSUME Init PROVE Exchange
  OBVIOUS
<1>1. Invariant
  BY InitInvariant
<1>2. <<>> \in Seq({}) /\ Len(<<>>) = 0 /\ Sequence(<<>>)
  <2>1. <<>> \in Seq({}) /\ Len(<<>>) = 0
    OBVIOUS
  <2> QED BY <2>1 DEF Sequence
<1>3. /\ xq = <<>> /\ incr = <<>> /\ delayed = <<>> /\ spc = "wait" /\ pos = 1
      /\ chunks = <<>> /\ toServer = <<>> /\ toClient = <<>>
      /\ clock = 1 /\ version = 0 /\ conns = 1
  BY DEF Init
<1>4. Typed
  <2>1. DOMAIN inSel = Selections /\ \A s \in Selections : IsBuffer(inSel[s])
    BY EmptyIsBuffer DEF Init
  <2>2. Unasked \in AnswerType /\ Unasked.how = "none"
    BY CopyFields DEF Unasked, AnswerType
  <2>3. answer = [r \in Requests |-> Unasked]
    BY DEF Init
  <2> HIDE DEF Unasked
  <2>4. /\ answer \in [Requests -> AnswerType]
        /\ \A r \in Requests : answer[r].how # "none" => answer[r].sel \in Selections
    BY <2>2, <2>3
  <2>5. DOMAIN remote = Selections /\ \A s \in Selections : IsRemote(remote[s])
    BY DEF Init, IsRemote
  <2>6. DOMAIN requested = Selections
    BY DEF Init
  <2> QED BY <1>3, <2>1, <2>4, <2>5, <2>6 DEF Typed
<1>5. EventsNamed
  BY <1>2, <1>3 DEF EventsNamed
<1>6. Stream(toServer) /\ HeadFits
  BY <1>3, StreamEmpty DEF HeadFits
<1>7. Latest
  BY DEF Init, Empty, Latest
<1>8. Queues
  BY <1>2, <1>3 DEF Queues, Queue
<1>9. PropTyped(prop)
  BY DEF Init, PropTyped, IsValue, Atoms
<1>10. AppsTyped
  <2>1. \A s \in Selections :
          apps[s] = [copy |-> NoCopy, conv |-> <<>>, sending |-> NoCopy, left |-> 0]
    BY DEF Init
  <2>2. DOMAIN apps = Selections /\ \A s \in Selections : xowner[s] # "app"
    BY DEF Init
  <2>3. IsApp([copy |-> NoCopy, conv |-> <<>>, sending |-> NoCopy, left |-> 0])
    BY <1>2 DEF IsApp
  <2> QED BY <2>1, <2>2, <2>3 DEF AppsTyped
<1>11. BestTyped /\ IsReading(reading)
  BY DEF Init, BestTyped, IsReading, NotReading
<1>12. EventsKnown
  BY <1>2, <1>3 DEF EventsKnown
<1>13. Walking
  BY <1>2, <1>3 DEF Walking
<1> QED BY <1>1, <1>4, <1>5, <1>6, <1>7, <1>8, <1>9, <1>10, <1>11, <1>12, <1>13
        DEF Exchange, Incoming, Exchanged

LEMMA NextExchange == Exchange /\ [Next]_vars => Exchange'
<1> SUFFICES ASSUME Exchange, [Next]_vars PROVE Exchange'
  OBVIOUS
<1>1. Invariant /\ Incoming /\ Queues /\ Exchanged /\ Walking
  BY DEF Exchange
<1>2. Invariant'
  BY <1>1, NextInvariant
<1>3. Typed' /\ EventsNamed' /\ DataFits'
  BY <1>1, NextTyped, NextNamed, NextData
<1>4. Queues' /\ Exchanged' /\ Walking'
  BY <1>1, NextQueues, NextExchanged, NextWalking
<1> QED BY <1>2, <1>3, <1>4 DEF Exchange, Incoming, DataFits

(* Everything the threads, the X server and the client exchange is of the  *)
(* type its reader expects, the client's messages are a stream of whole    *)
(* transfers, and the buffers hold what was read of it, whatever the main  *)
(* thread, the selection thread, the sending thread and the environment    *)
(* do: the inductive invariant the theorems about data rest on.            *)
THEOREM ExchangeCorrect == Spec => []Exchange
BY InitExchange, NextExchange, PTL DEF Spec

(* The state of an input buffer is one of the three of the code, it never  *)
(* holds more than its size (readInputSelectionHeader), no transaction     *)
(* sends more than it has (process_incr_transaction_property), and what is *)
(* read incrementally is a property of the clipboard window.               *)
THEOREM TypeCorrect == Spec => []TypeOK
<1>1. Exchange => TypeOK
  <2> SUFFICES ASSUME Exchange PROVE TypeOK
    OBVIOUS
  <2>1. ASSUME NEW s \in Selections
        PROVE  /\ inSel[s].state \in {"NOTIFIED", "REQUESTED", "COMPLETED"}
               /\ inSel[s].ready \in 0 .. inSel[s].size
               /\ best[s] \in Kinds \cup {None}
    BY DEF Exchange, Incoming, Typed, IsBuffer, BufferType, Exchanged, BestTyped
  <2>2. ASSUME NEW i \in DOMAIN incr PROVE incr[i].sent \in 0 .. incr[i].size
    <3>1. i \in 1 .. Len(incr)
      BY SequenceParts DEF Exchange, Invariant, Shape
    <3> QED BY <3>1 DEF Exchange, Walking, IsTransaction
  <2>3. reading.read \in Nat /\ reading.atom \in DOMAIN prop \cup {None}
    BY DEF Exchange, Exchanged, IsReading, PropTyped, Atoms
  <2>4. spc \in {"wait", "scan", "prune", "handle"} /\ pos \in 1 .. Len(delayed) + 1
    BY DEF Exchange, Walking
  <2> QED BY <2>1, <2>2, <2>3, <2>4 DEF TypeOK
<1> QED BY <1>1, ExchangeCorrect, PTL
=============================================================================
