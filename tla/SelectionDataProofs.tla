------------------------ MODULE SelectionDataProofs ------------------------
(***************************************************************************)
(* What applications get and give, for any selections, kinds, sizes and    *)
(* timings: which data an answer holds; that data waited for were asked    *)
(* for; that what the client gets is whole, and that it ends.              *)
(*                                                                         *)
(* The messages to the client, on their way and in the queue of chunks,    *)
(* take its transfers from one state to the next, and what is being read   *)
(* goes on with the last of these states.  What will end an open transfer  *)
(* is followed through the queue of X events.                              *)
(***************************************************************************)
EXTENDS SelectionProofs

-----------------------------------------------------------------------------
(* What applications get.                                                  *)

Delivered(a) == a.how \in {"data", "incr"}

LEMMA AnsweredParts ==
  ASSUME NEW a \in AnswerType, NEW b, IsBuffer(b)
  PROVE  /\ ~Delivered(Refused(a)) /\ ~Delivered([a EXCEPT !.how = "meta"])
         /\ Refused(a).target = a.target /\ [a EXCEPT !.how = "meta"].target = a.target
         /\ Answered(a, b).target = a.target
         /\ Delivered(Answered(a, b)) =>
              /\ b.copy.kind = a.target /\ Answered(a, b).copy = b.copy
              /\ Answered(a, b).filled = b.ready
         /\ [a EXCEPT !.unread = TRUE].copy = a.copy
         /\ [a EXCEPT !.unread = TRUE].target = a.target
         /\ [a EXCEPT !.unread = TRUE].filled = a.filled
         /\ [a EXCEPT !.how = "data"].copy = a.copy
         /\ [a EXCEPT !.how = "data"].target = a.target
         /\ [a EXCEPT !.how = "data"].filled = a.filled
         /\ [a EXCEPT !.unread = FALSE].copy = a.copy
         /\ [a EXCEPT !.unread = FALSE].target = a.target
         /\ [a EXCEPT !.unread = FALSE].filled = a.filled
         /\ [a EXCEPT !.unread = FALSE].how = a.how
<1>1. /\ ~Delivered(Refused(a)) /\ ~Delivered([a EXCEPT !.how = "meta"])
      /\ Refused(a).target = a.target /\ [a EXCEPT !.how = "meta"].target = a.target
  BY DEF Delivered, Refused, AnswerType
<1>2. /\ Answered(a, b).target = a.target
      /\ Delivered(Answered(a, b)) =>
           /\ b.copy.kind = a.target /\ Answered(a, b).copy = b.copy
           /\ Answered(a, b).filled = b.ready
  <2>1. CASE b.copy.kind # a.target
    BY <1>1, <2>1 DEF Answered
  <2>2. CASE b.copy.kind = a.target
    <3> DEFINE h == IF b.size < IncrUnits THEN "data" ELSE "incr"
               u == b.size >= IncrUnits
    <3>1. Answered(a, b) = [a EXCEPT !.how = h, !.copy = b.copy,
                                     !.filled = b.ready, !.unread = u]
      BY <2>2 DEF Answered
    <3> HIDE DEF h, u
    <3> QED BY <2>2, <3>1 DEF AnswerType
  <2> QED BY <2>1, <2>2
<1>3. /\ [a EXCEPT !.unread = TRUE].copy = a.copy
      /\ [a EXCEPT !.unread = TRUE].target = a.target
      /\ [a EXCEPT !.unread = TRUE].filled = a.filled
      /\ [a EXCEPT !.unread = FALSE].copy = a.copy
      /\ [a EXCEPT !.unread = FALSE].target = a.target
      /\ [a EXCEPT !.unread = FALSE].filled = a.filled
      /\ [a EXCEPT !.unread = FALSE].how = a.how
  BY DEF AnswerType
<1>4. /\ [a EXCEPT !.how = "data"].copy = a.copy
      /\ [a EXCEPT !.how = "data"].target = a.target
      /\ [a EXCEPT !.how = "data"].filled = a.filled
  BY DEF AnswerType
<1> QED BY <1>1, <1>2, <1>3, <1>4

(* What a step does to an answer.                                          *)
Gives(r) ==
  /\ Delivered(answer'[r]) /\ answer'[r].target = answer[r].target
  /\ LET b == inSel[answer[r].sel]
     IN  /\ answer[r].how = "pending" /\ answer[r].sel \in Selections
         /\ b.state = "COMPLETED" /\ b.copy.kind = answer[r].target
         /\ answer'[r].copy = b.copy /\ answer'[r].filled = b.ready

Leaves(r) ==
  /\ answer[r].how = "pending" => answer'[r].how = "pending"
  /\ Delivered(answer[r]) /\ answer'[r].copy = answer[r].copy
  /\ answer'[r].target = answer[r].target /\ answer'[r].filled = answer[r].filled

LEMMA AnswersGiven ==
  ASSUME Exchange, [Next]_vars, NEW r \in Requests
  PROVE  ~Delivered(answer'[r]) \/ Gives(r) \/ Leaves(r)
<1>1. /\ answer \in [Requests -> AnswerType] /\ Typed /\ Invariant /\ Shape
      /\ \A s \in Selections : IsBuffer(inSel[s])
      /\ \A q \in Requests : answer[q].how # "none" => answer[q].sel \in Selections
  BY DEF Exchange, Incoming, Typed, Invariant
<1>2. answer[r] \in AnswerType
  BY <1>1
<1>3. ASSUME answer'[r] = answer[r]
      PROVE  ~Delivered(answer'[r]) \/ Leaves(r)
  BY <1>3 DEF Delivered, Leaves
<1>4. CASE UNCHANGED answer
  BY <1>3, <1>4
<1>5. CASE AnswerRequest
  <2> DEFINE q == ev.arg b == inSel[ev.sel]
             a == IF ~b.owner \/ Older(q) THEN Refused(answer[q])
                  ELSE IF answer[q].target = "meta"
                       THEN [answer[q] EXCEPT !.how = "meta"]
                       ELSE Answered(answer[q], b)
  <2>1. /\ answer' = [answer EXCEPT ![q] = a] /\ ev.type = "request" /\ spc = "handle"
        /\ ~b.owner \/ Older(q) \/ answer[q].target = "meta" \/ Deliverable(b)
    BY <1>5 DEF AnswerRequest, Handles
  <2>2. /\ q \in Requests /\ ev.sel \in Selections /\ answer[q].sel = ev.sel
    BY <2>1 DEF Exchange, Incoming, EventsNamed, Named
  <2>3. answer[q].how = "pending"
    <3>1. Handled(q)
      BY <2>1 DEF Handled, Asked
    <3> QED BY <2>2, <3>1 DEF Exchange, Invariant, AtOnePlace
  <2>4. IsBuffer(b) /\ answer[q] \in AnswerType
    BY <1>1, <2>2
  <2>5. CASE q # r
    BY <1>1, <1>3, <2>1, <2>5
  <2>6. CASE q = r
    <3>1. answer'[r] = a
      BY <1>1, <2>1, <2>6
    <3>2. /\ ~Delivered(Refused(answer[q]))
          /\ ~Delivered([answer[q] EXCEPT !.how = "meta"])
          /\ Answered(answer[q], b).target = answer[q].target
          /\ Delivered(Answered(answer[q], b)) =>
              /\ b.copy.kind = answer[q].target /\ Answered(answer[q], b).copy = b.copy
              /\ Answered(answer[q], b).filled = b.ready
      <4> HIDE DEF b, q
      <4> QED BY <2>4, AnsweredParts
    <3>3. CASE ~b.owner \/ Older(q) \/ answer[q].target = "meta"
      BY <3>1, <3>2, <3>3
    <3>4. CASE ~(~b.owner \/ Older(q) \/ answer[q].target = "meta")
      <4>1. answer'[r] = Answered(answer[q], b) /\ b.state = "COMPLETED"
        BY <2>1, <3>1, <3>4 DEF Deliverable
      <4> QED BY <2>2, <2>3, <2>6, <3>2, <4>1 DEF Gives
    <3> QED BY <3>3, <3>4
  <2> QED BY <2>5, <2>6
<1>6. CASE ScanDelayed \/ PruneDelayed
  <2> DEFINE q == delayed[pos] b == inSel[answer[q].sel]
  <2>1. /\ \/ answer' = [answer EXCEPT ![q] = Refused(answer[q])]
           \/ answer' = answer
           \/ /\ answer' = [answer EXCEPT ![q] = Answered(answer[q], b)]
              /\ b.state = "COMPLETED"
        /\ pos <= Len(delayed)
    BY <1>6 DEF ScanDelayed, PruneDelayed, Deliverable
  <2>2. pos \in 1 .. Len(delayed)
    BY <1>1, <2>1, DelayedParts DEF Shape
  <2>3. q \in Requests /\ Waits(q)
    BY <1>1, <2>2, DelayedParts DEF Waits
  <2>4. answer[q].how = "pending"
    BY <1>1, <2>3 DEF Invariant, AtOnePlace
  <2>5. answer[q].sel \in Selections /\ answer[q] \in AnswerType
    BY <1>1, <2>3, <2>4
  <2>6. IsBuffer(b)
    BY <1>1, <2>5
  <2>7. /\ ~Delivered(Refused(answer[q]))
        /\ Answered(answer[q], b).target = answer[q].target
        /\ Delivered(Answered(answer[q], b)) =>
            /\ b.copy.kind = answer[q].target /\ Answered(answer[q], b).copy = b.copy
            /\ Answered(answer[q], b).filled = b.ready
    <3> HIDE DEF b, q
    <3> QED BY <2>5, <2>6, AnsweredParts
  <2>8. CASE q # r
    BY <1>1, <1>3, <2>1, <2>8
  <2>9. CASE q = r
    <3>1. CASE answer' = [answer EXCEPT ![q] = Refused(answer[q])]
      <4>1. answer'[r] = Refused(answer[q])
        BY <1>1, <2>9, <3>1
      <4> QED BY <2>7, <4>1
    <3>2. CASE /\ answer' = [answer EXCEPT ![q] = Answered(answer[q], b)]
               /\ b.state = "COMPLETED"
      <4>1. answer'[r] = Answered(answer[q], b)
        BY <1>1, <2>9, <3>2
      <4> QED BY <2>4, <2>5, <2>7, <2>9, <3>2, <4>1 DEF Gives
    <3> QED BY <1>4, <2>1, <3>1, <3>2
  <2> QED BY <2>8, <2>9
<1>7. CASE NextPortion
  <2> DEFINE q == ev.arg
  <2>1. PICK i \in DOMAIN incr :
          /\ incr[i].req = q
          /\ \/ answer' = [answer EXCEPT ![q] = [answer[q] EXCEPT !.unread = TRUE]]
             \/ answer' = [answer EXCEPT ![q] = [answer[q] EXCEPT !.how = "data"]]
    BY <1>7 DEF NextPortion
  <2>2. i \in 1 .. Len(incr)
    BY <1>1, SequenceParts DEF Shape
  <2>3. q \in Requests => answer[q].how \in {"incr", "data"}
    BY <1>1, <2>1, <2>2 DEF Invariant, Begun
  <2>4. CASE q # r
    BY <1>1, <1>3, <2>1, <2>4
  <2>5. CASE q = r
    <3>1. \/ answer'[r] = [answer[r] EXCEPT !.unread = TRUE]
          \/ answer'[r] = [answer[r] EXCEPT !.how = "data"]
      BY <1>1, <2>1, <2>5
    <3>2. /\ answer'[r].copy = answer[r].copy /\ answer'[r].target = answer[r].target
          /\ answer'[r].filled = answer[r].filled
      BY <1>2, <3>1, EmptyIsBuffer, AnsweredParts
    <3>3. Delivered(answer[r]) /\ answer[r].how # "pending"
      BY <2>3, <2>5 DEF Delivered
    <3> QED BY <3>2, <3>3 DEF Leaves
  <2> QED BY <2>4, <2>5
<1>8. CASE Environment
  <2>1. CASE \/ Tick \/ ClientReads \/ ClientLeaves \/ ClientArrives
             \/ \E s \in Selections :
                  \/ \E k \in ClientKinds : ClientCopies(s, k)
                  \/ \E k \in AppKinds : AppCopies(s, k)
                  \/ ClientDemands(s) \/ AppConverts(s) \/ AppPortion(s)
    <3>1. UNCHANGED answer
      BY <2>1 DEF Tick, ClientReads, ClientLeaves, ClientArrives, ClientCopies,
                  AppCopies, ClientDemands, AppConverts, AppPortion
    <3> QED BY <1>4, <3>1
  <2>2. ASSUME NEW s \in Selections, NEW q \in Requests,
               NEW target \in ClientKinds \cup {"meta"}, NEW t \in {0, clock},
               AppPastes(q, s, target, t)
        PROVE  ~Delivered(answer'[r]) \/ Leaves(r)
    <3> DEFINE a == [answer[q] EXCEPT !.how = "pending", !.sel = s,
                                      !.target = target, !.time = t]
    <3>1. answer' = [answer EXCEPT ![q] = a]
      BY <2>2 DEF AppPastes
    <3>2. a.how = "pending"
      BY <1>1 DEF AnswerType
    <3> HIDE DEF a
    <3>3. answer'[r] = IF q = r THEN a ELSE answer[r]
      BY <1>1, <3>1
    <3> QED BY <1>3, <3>2, <3>3 DEF Delivered
  <2>3. ASSUME NEW q \in Requests, AppDeletes(q)
        PROVE  ~Delivered(answer'[r]) \/ Leaves(r)
    <3>1. answer' = [answer EXCEPT ![q] = [answer[q] EXCEPT !.unread = FALSE]]
      BY <2>3 DEF AppDeletes
    <3>2. CASE q # r
      BY <1>1, <1>3, <3>1, <3>2
    <3>3. CASE q = r
      <4>1. answer'[r] = [answer[r] EXCEPT !.unread = FALSE]
        BY <1>1, <3>1, <3>3
      <4>2. /\ answer'[r].copy = answer[r].copy /\ answer'[r].target = answer[r].target
            /\ answer'[r].filled = answer[r].filled /\ answer'[r].how = answer[r].how
        BY <1>2, <4>1, EmptyIsBuffer, AnsweredParts
      <4> QED BY <4>2 DEF Leaves, Delivered
    <3> QED BY <3>2, <3>3
  <2> QED BY <1>8, <2>1, <2>2, <2>3 DEF Environment
<1>9. CASE \/ MainThread \/ SendingThread \/ UNCHANGED vars
           \/ Wake \/ ScanDone \/ PruneDone \/ DelayRequest \/ DataReady
           \/ OwnerChanged \/ DataDemanded \/ ConversionDone \/ PropertyChanged
  <2>1. UNCHANGED answer
    BY <1>9 DEF MainThread, SendingThread, ReadNotify, ReadChunk, ReadRest, ReadDemand,
      SendChunk, SendRequest, vars, Wake, ScanDone, PruneDone, DelayRequest, DataReady,
      OwnerChanged, DataDemanded, ConversionDone, PropertyChanged
  <2> QED BY <1>4, <2>1
<1> QED BY <1>5, <1>6, <1>7, <1>8, <1>9 DEF Next, SelectionThread

(* A request that waits is answered with data only of the last copy the    *)
(* server heard of (send_data from process_selection_request and           *)
(* process_delayed_requests), whatever the sizes, the number of requests   *)
(* and the order of their events: data of an older copy are dropped when   *)
(* the next one is announced or its first chunk is read                    *)
(* (readInputSelectionHeader).                                             *)
THEOREM LatestCorrect == Spec => AnswersAreLatest
<1> DEFINE A == \A r \in Requests :
                  answer'[r].how \in {"data", "incr"} /\ answer[r].how = "pending" =>
                    answer'[r].copy.ver = remote[answer[r].sel].heard
<1>1. ASSUME Exchange, [Next]_vars PROVE [A]_answer
  <2> SUFFICES ASSUME NEW r \in Requests, Delivered(answer'[r]),
                      answer[r].how = "pending"
               PROVE  answer'[r].copy.ver = remote[answer[r].sel].heard
    BY DEF Delivered
  <2>1. Gives(r)
    <3>1. ~Delivered(answer[r])
      BY DEF Delivered
    <3> QED BY <1>1, <3>1, AnswersGiven DEF Leaves
  <2>2. Latest
    BY <1>1 DEF Exchange, Incoming
  <2> QED BY <2>1, <2>2 DEF Gives, Latest
<1> QED BY <1>1, ExchangeCorrect, PTL DEF Spec, AnswersAreLatest

-----------------------------------------------------------------------------
(* What a client announces.  A buffer knows the kind of the last copy that *)
(* was announced, and transfers are of that copy.                          *)

(* The kind that is known of s after message m.                            *)
KindAfter(k, m, s) == IF m.type = "notify" /\ m.sel = s THEN m.copy.kind ELSE k

(* f is the kind known before and after each message of q.                 *)
Heralds(f, q, s) ==
  \A i \in 1 .. Len(q) :
    /\ f[i] = KindAfter(f[i - 1], q[i], s)
    /\ OfTransfer(q[i]) /\ q[i].sel = s => f[i - 1] = q[i].copy.kind

(* The messages of q take the kind known of s from k to x.                 *)
Heralded(q, s, k, x) == \E f : f[0] = k /\ f[Len(q)] = x /\ Heralds(f, q, s)

LEMMA HeraldedEmpty ==
  ASSUME NEW s, NEW k
  PROVE  Heralded(<<>>, s, k, k)
<1> DEFINE f == [i \in {0} |-> k] q == <<>>
<1>1. Len(q) = 0 /\ f[0] = k
  OBVIOUS
<1> HIDE DEF f, q
<1>2. Heralds(f, q, s)
  BY <1>1 DEF Heralds
<1>3. Heralded(q, s, k, k)
  BY <1>1, <1>2 DEF Heralded
<1> QED BY <1>3 DEF q

LEMMA HeraldedHead ==
  ASSUME NEW q, Sequence(q), q # <<>>, NEW s, NEW k, NEW x, Heralded(q, s, k, x)
  PROVE  /\ OfTransfer(q[1]) /\ q[1].sel = s => k = q[1].copy.kind
         /\ Heralded(Tail(q), s, KindAfter(k, q[1], s), x)
<1>1. PICK f : f[0] = k /\ f[Len(q)] = x /\ Heralds(f, q, s)
  BY DEF Heralded
<1>2. /\ Len(q) \in Nat \ {0} /\ Len(Tail(q)) = Len(q) - 1
      /\ \A i \in 1 .. Len(Tail(q)) : Tail(q)[i] = q[i + 1]
  BY SequenceParts, TailAny
<1> DEFINE n == Len(q) - 1 g == [i \in 0 .. n |-> f[i + 1]]
<1>3. 1 \in 1 .. Len(q) /\ 1 - 1 = 0
  BY <1>2
<1>4. /\ f[1] = KindAfter(k, q[1], s)
      /\ OfTransfer(q[1]) /\ q[1].sel = s => k = q[1].copy.kind
  BY <1>1, <1>3 DEF Heralds
<1>5. /\ n \in Nat /\ n + 1 = Len(q) /\ \A i \in 0 .. n : g[i] = f[i + 1]
      /\ 0 \in 0 .. n /\ n \in 0 .. n
  BY <1>2
<1> HIDE DEF g
<1>6. ASSUME NEW i \in 1 .. n
      PROVE  /\ g[i] = KindAfter(g[i - 1], Tail(q)[i], s)
             /\ OfTransfer(Tail(q)[i]) /\ Tail(q)[i].sel = s
                  => g[i - 1] = Tail(q)[i].copy.kind
  <2>1. i + 1 \in 1 .. Len(q) /\ (i + 1) - 1 = i /\ i - 1 \in 0 .. n /\ (i - 1) + 1 = i
        /\ i \in 0 .. n
    BY <1>5
  <2>2. /\ f[i + 1] = KindAfter(f[i], q[i + 1], s)
        /\ OfTransfer(q[i + 1]) /\ q[i + 1].sel = s => f[i] = q[i + 1].copy.kind
    BY <1>1, <2>1 DEF Heralds
  <2>3. g[i - 1] = f[i] /\ g[i] = f[i + 1] /\ Tail(q)[i] = q[i + 1]
    BY <1>2, <1>5, <2>1
  <2> QED BY <2>2, <2>3
<1>7. Heralds(g, Tail(q), s)
  BY <1>2, <1>6 DEF Heralds
<1>8. g[0] = f[1] /\ g[Len(Tail(q))] = x
  BY <1>1, <1>2, <1>5
<1> HIDE DEF n
<1>9. \E h : h[0] = f[1] /\ h[Len(Tail(q))] = x /\ Heralds(h, Tail(q), s)
  BY <1>7, <1>8
<1> QED BY <1>4, <1>9 DEF Heralded

LEMMA HeraldedConcat ==
  ASSUME NEW q, Sequence(q), NEW p, Sequence(p), NEW s, NEW k, NEW x, NEW y,
         Heralded(q, s, k, x), Heralded(p, s, x, y)
  PROVE  Heralded(q \o p, s, k, y)
<1>1. PICK f : f[0] = k /\ f[Len(q)] = x /\ Heralds(f, q, s)
  BY DEF Heralded
<1>2. PICK g : g[0] = x /\ g[Len(p)] = y /\ Heralds(g, p, s)
  BY DEF Heralded
<1> DEFINE l == Len(q) n == Len(p) r == q \o p
           h == [i \in 0 .. l + n |-> IF i <= l THEN f[i] ELSE g[i - l]]
<1>3. /\ l \in Nat /\ n \in Nat /\ Len(r) = l + n
      /\ \A i \in 1 .. l + n : r[i] = IF i <= l THEN q[i] ELSE p[i - l]
  BY SequenceParts, ConcatAny
<1>4. \A i \in 0 .. l + n : h[i] = IF i <= l THEN f[i] ELSE g[i - l]
  OBVIOUS
<1> HIDE DEF h, r
<1>5. ASSUME NEW i \in 1 .. l + n
      PROVE  /\ h[i] = KindAfter(h[i - 1], r[i], s)
             /\ OfTransfer(r[i]) /\ r[i].sel = s => h[i - 1] = r[i].copy.kind
  <2>1. CASE i <= l
    <3>1. i \in 0 .. l + n /\ i - 1 \in 0 .. l + n /\ i - 1 <= l /\ i \in 1 .. l
      BY <1>3, <2>1
    <3>2. h[i] = f[i] /\ h[i - 1] = f[i - 1] /\ r[i] = q[i]
      BY <1>3, <1>4, <2>1, <3>1
    <3> QED BY <1>1, <3>1, <3>2 DEF Heralds
  <2>2. CASE ~(i <= l)
    <3>1. i \in 0 .. l + n /\ i - 1 \in 0 .. l + n /\ i - l \in 1 .. n
      BY <1>3, <2>2
    <3>2. h[i] = g[i - l] /\ r[i] = p[i - l]
      BY <1>3, <1>4, <2>2, <3>1
    <3>3. h[i - 1] = g[(i - l) - 1]
      <4>1. CASE i - 1 = l
        <5>1. h[i - 1] = f[l] /\ (i - l) - 1 = 0
          BY <1>3, <1>4, <3>1, <4>1
        <5> QED BY <1>1, <1>2, <5>1
      <4>2. CASE i - 1 # l
        <5>1. ~(i - 1 <= l) /\ (i - 1) - l = (i - l) - 1
          BY <1>3, <2>2, <4>2
        <5> QED BY <1>4, <3>1, <5>1
      <4> QED BY <4>1, <4>2
    <3> QED BY <1>2, <3>1, <3>2, <3>3 DEF Heralds
  <2> QED BY <2>1, <2>2
<1>6. Heralds(h, r, s)
  BY <1>3, <1>5 DEF Heralds
<1>7. h[0] = k /\ h[Len(r)] = y
  <2>1. 0 \in 0 .. l + n /\ 0 <= l /\ l + n \in 0 .. l + n /\ (n = 0 \/ ~(l + n <= l))
        /\ (l + n) - l = n
    BY <1>3
  <2>2. n = 0 => x = y
    BY <1>2
  <2> QED BY <1>1, <1>2, <1>3, <1>4, <2>1, <2>2
<1> QED BY <1>6, <1>7 DEF Heralded, r

(* A message that is not of a transfer.                                    *)
LEMMA HeraldedOne ==
  ASSUME NEW m, ~OfTransfer(m), NEW s, NEW k
  PROVE  Sequence(<<m>>) /\ Heralded(<<m>>, s, k, KindAfter(k, m, s))
<1> DEFINE f == [i \in {0, 1} |-> IF i = 0 THEN k ELSE KindAfter(k, m, s)] q == <<m>>
<1>1. /\ Len(q) = 1 /\ q[1] = m /\ q \in Seq({m})
      /\ f[0] = k /\ f[1] = KindAfter(k, m, s)
  OBVIOUS
<1> HIDE DEF f, q
<1>2. Heralds(f, q, s)
  BY <1>1 DEF Heralds
<1>3. Heralded(q, s, k, KindAfter(k, m, s))
  BY <1>1, <1>2 DEF Heralded
<1> QED BY <1>1, <1>3 DEF q, Sequence

(* A transfer finds its kind known.                                        *)
LEMMA HeraldedTransfer ==
  ASSUME NEW t \in Selections, NEW c \in Copies, NEW s, NEW k, s = t => k = c.kind
  PROVE  Sequence(Transfer(t, c)) /\ Heralded(Transfer(t, c), s, k, k)
<1> DEFINE q == Transfer(t, c) f == [i \in 0 .. Len(q) |-> k]
<1>1. /\ Sequence(q) /\ Len(q) \in Nat
      /\ \A i \in 1 .. Len(q) : OfTransfer(q[i])
  BY TransferStreams DEF Stream
<1>2. DOMAIN q = 1 .. Len(q)
  BY <1>1, SequenceParts
<1>3. ASSUME NEW i \in DOMAIN q PROVE q[i].sel = t /\ q[i].copy = c
  BY <1>3 DEF Transfer, Message
<1> HIDE DEF q
<1>4. /\ \A i \in 1 .. Len(q) : i \in 0 .. Len(q) /\ i - 1 \in 0 .. Len(q)
      /\ 0 \in 0 .. Len(q) /\ Len(q) \in 0 .. Len(q)
  BY <1>1
<1>5. \A i \in 0 .. Len(q) : f[i] = k
  OBVIOUS
<1> HIDE DEF f
<1>6. Heralds(f, q, s)
  BY <1>1, <1>2, <1>3, <1>4, <1>5 DEF Heralds, KindAfter, OfTransfer
<1>7. Heralded(q, s, k, k)
  BY <1>4, <1>5, <1>6 DEF Heralded
<1> QED BY <1>1, <1>7 DEF q

(* The client announces its copies, and the server is told in time.        *)
Heralding ==
  /\ onDemand = TRUE
  /\ \A s \in Selections :
       \E x : /\ Heralded(toServer, s, inSel[s].copy.kind, x)
              /\ remote[s].copy # NoCopy => x = remote[s].copy.kind

LEMMA NextHeralding ==
  ASSUME OnDemands = {TRUE}, Exchange, Heralding, [Next]_vars
  PROVE  Heralding'
<1>1. /\ BuffersTyped /\ RemoteTyped /\ clock \in Nat /\ version \in Nat
      /\ Stream(toServer) /\ Sequence(toServer) /\ HeadFits /\ Queues
  BY DEF Exchange, Incoming, Typed, BuffersTyped, RemoteTyped, Stream
<1>2. onDemand' = TRUE
  <2>1. CASE ClientArrives
    BY <2>1 DEF ClientArrives
  <2>2. CASE ~ClientArrives
    <3>1. UNCHANGED onDemand
      BY <2>2 DEF Next, MainThread, SelectionThread, SendingThread, Environment,
        ReadNotify, ReadChunk, ReadRest, ReadDemand, Wake, ScanDelayed, ScanDone,
        PruneDelayed, PruneDone, AnswerRequest, DelayRequest, NextPortion, DataReady,
        OwnerChanged, DataDemanded, ConversionDone, PropertyChanged, SendChunk,
        SendRequest, Tick, ClientReads, ClientLeaves, ClientCopies, AppCopies,
        ClientDemands, AppConverts, AppPortion, AppPastes, AppDeletes, net, vars
    <3> QED BY <3>1 DEF Heralding
  <2> QED BY <2>1, <2>2
<1> SUFFICES ASSUME NEW s \in Selections
             PROVE  \E x : /\ Heralded(toServer', s, inSel'[s].copy.kind, x)
                           /\ remote'[s].copy # NoCopy => x = remote'[s].copy.kind
  BY <1>2 DEF Heralding
<1> DEFINE k == inSel[s].copy.kind
           Goal == \E x : /\ Heralded(toServer', s, inSel'[s].copy.kind, x)
                          /\ remote'[s].copy # NoCopy => x = remote'[s].copy.kind
<1>3. PICK x : Heralded(toServer, s, k, x)
               /\ (remote[s].copy # NoCopy => x = remote[s].copy.kind)
  BY DEF Heralding
<1>4. ASSUME UNCHANGED toServer, remote'[s].copy = remote[s].copy,
             inSel'[s].copy = inSel[s].copy
      PROVE  Goal
  BY <1>3, <1>4
<1>5. ASSUME NEW p, Sequence(p), NEW y, Heralded(p, s, x, y), toServer' = toServer \o p,
             UNCHANGED inSel, remote'[s].copy # NoCopy => y = remote'[s].copy.kind
      PROVE  Goal
  <2>1. Heralded(toServer \o p, s, k, y)
    BY <1>1, <1>3, <1>5, HeraldedConcat
  <2> QED BY <1>5, <2>1
<1>6. CASE MainThread
  <2> DEFINE m == toServer[1]
  <2>1. toServer # <<>> /\ toServer' = Tail(toServer) /\ Head(toServer) = m
    <3>1. toServer # <<>> /\ toServer' = Tail(toServer)
      BY <1>6 DEF MainThread, ReadNotify, ReadChunk, ReadRest, ReadDemand, MainReads
    <3> QED BY <1>1, <3>1, StreamTail
  <2>2. /\ OfTransfer(m) /\ m.sel = s => k = m.copy.kind
        /\ Heralded(toServer', s, KindAfter(k, m, s), x)
    BY <1>1, <1>3, <2>1, HeraldedHead
  <2>3. inSel'[s].copy.kind = KindAfter(k, m, s) /\ remote'[s].copy = remote[s].copy
    <3>1. CASE ReadNotify
      <4>1. /\ m.type = "notify" /\ OfClient(m) /\ Hears(m)
            /\ \A t \in Selections : t # m.sel => inSel'[t] = inSel[t]
            /\ inSel'[m.sel].copy.kind = m.copy.kind
        BY <1>1, <3>1, NotifyBuffer
      <4>2. remote'[s].copy = remote[s].copy
        BY <1>1, <4>1, HearsRemote DEF OfClient
      <4> HIDE DEF m
      <4> QED BY <4>1, <4>2 DEF KindAfter
    <3>2. CASE ReadChunk
      <4>1. /\ m.type = "chunk" /\ OfClient(m) /\ Hears(m)
            /\ \A t \in Selections : t # m.sel => inSel'[t] = inSel[t]
            /\ inSel'[m.sel].copy = m.copy
        BY <1>1, <3>2, ChunkBuffer
      <4>2. remote'[s].copy = remote[s].copy
        BY <1>1, <4>1, HearsRemote DEF OfClient
      <4> HIDE DEF m
      <4> QED BY <2>2, <4>1, <4>2 DEF KindAfter, OfTransfer
    <3>3. CASE ReadRest \/ ReadDemand
      <4>1. UNCHANGED <<inSel, remote>> /\ m.type # "notify"
        BY <2>1, <3>3 DEF ReadRest, ReadDemand, incoming, MainReads
      <4> HIDE DEF m
      <4> QED BY <4>1 DEF KindAfter
    <3> QED BY <1>6, <3>1, <3>2, <3>3 DEF MainThread
  <2> HIDE DEF m
  <2> QED BY <1>3, <2>2, <2>3
<1>7. CASE SelectionThread
  <2>1. UNCHANGED <<remote, toServer>>
    BY <1>7 DEF SelectionThread, Wake, ScanDelayed, ScanDone, PruneDelayed,
                PruneDone, AnswerRequest, DelayRequest, NextPortion, DataReady,
                OwnerChanged, DataDemanded, ConversionDone, PropertyChanged, net
  <2>2. CASE DelayRequest \/ OwnerChanged
    BY <1>1, <1>4, <2>1, <2>2, ThreadBuffers DEF SameData
  <2>3. CASE ~(DelayRequest \/ OwnerChanged)
    <3>1. UNCHANGED inSel
      BY <1>7, <2>3 DEF SelectionThread, Wake, ScanDelayed, ScanDone, PruneDelayed,
                PruneDone, AnswerRequest, NextPortion, DataReady,
                DataDemanded, ConversionDone, PropertyChanged, incoming
    <3> QED BY <1>4, <2>1, <3>1
  <2> QED BY <2>2, <2>3
<1>8. CASE ClientReads
  <2> DEFINE m == Head(toClient) u == m.sel c == remote[u].copy
  <2>1. UNCHANGED inSel /\ toClient # <<>>
    BY <1>8 DEF ClientReads, incoming
  <2>2. remote'[s].copy = remote[s].copy
    BY <1>1, <1>8, ReadsRemote DEF SameCopies
  <2>3. /\ m.type \in {"request", "notify", "chunk"}
        /\ m.type = "request" => u \in Selections
    BY <1>1, <2>1, QueueHead DEF Queues
  <2>4. CASE UNCHANGED toServer
    BY <1>4, <2>1, <2>2, <2>4
  <2>5. CASE ~UNCHANGED toServer
    <3>1. m.type = "request" /\ c # NoCopy /\ toServer' = toServer \o Transfer(u, c)
      <4>1. CASE m.type = "request"
        BY <1>8, <2>5, <4>1 DEF ClientReads
      <4>2. CASE m.type = "notify"
        BY <1>8, <2>5, <4>2 DEF ClientReads
      <4>3. CASE m.type = "chunk"
        BY <1>8, <2>5, <4>3 DEF ClientReads
      <4> QED BY <2>3, <4>1, <4>2, <4>3
    <3>2. u \in Selections /\ c \in Copies
      BY <1>1, <2>3, <3>1 DEF RemoteTyped, IsRemote
    <3>3. s = u => x = c.kind
      BY <1>3, <3>1
    <3> HIDE DEF u, c
    <3>4. Sequence(Transfer(u, c)) /\ Heralded(Transfer(u, c), s, x, x)
      BY <3>2, <3>3, HeraldedTransfer
    <3> HIDE DEF k
    <3>5. remote'[s].copy # NoCopy => x = remote'[s].copy.kind
      BY <1>3, <2>2
    <3> QED BY <1>5, <2>1, <3>1, <3>4, <3>5
  <2> QED BY <2>4, <2>5
<1>9. ASSUME NEW u \in Selections, NEW l \in ClientKinds, ClientCopies(u, l)
      PROVE  Goal
  <2> DEFINE c == [ver |-> version + 1, kind |-> l]
             n == Message("notify", u, c, 1, 0)
  <2>1. UNCHANGED inSel /\ toServer' = toServer \o <<n>>
    BY <1>9 DEF ClientCopies, incoming, Heralding
  <2>2. remote'[u].copy = c
        /\ \A t \in Selections : t # u => remote'[t] = remote[t]
    BY <1>1, <1>9, CopiesRemote
  <2>3. n.type = "notify" /\ n.sel = u /\ n.copy = c
    BY MessageParts
  <2> HIDE DEF c, n
  <2>4. Sequence(<<n>>) /\ Heralded(<<n>>, s, x, KindAfter(x, n, s))
    BY <2>3, HeraldedOne DEF OfTransfer
  <2>5. remote'[s].copy # NoCopy => KindAfter(x, n, s) = remote'[s].copy.kind
    BY <1>3, <2>2, <2>3 DEF KindAfter
  <2> QED BY <1>5, <2>1, <2>4, <2>5
<1>10. ASSUME NEW u \in Selections, ClientDemands(u)
       PROVE  Goal
  <2> DEFINE n == Message("demand", u, NoCopy, 0, 0)
  <2>1. UNCHANGED inSel /\ toServer' = Append(toServer, n)
    BY <1>10 DEF ClientDemands, incoming
  <2>2. remote'[s].copy = remote[s].copy
    BY <1>1, <1>10, DemandsRemote DEF SameCopies
  <2>3. n.type = "demand" /\ OfClient(n) /\ ~OfTransfer(n)
    BY MessageParts DEF OfClient, OfTransfer
  <2> HIDE DEF n
  <2>4. toServer' = toServer \o <<n>>
    BY <1>1, <2>1, <2>3, StreamAppend
  <2>5. Sequence(<<n>>) /\ Heralded(<<n>>, s, x, KindAfter(x, n, s))
    BY <2>3, HeraldedOne
  <2>6. KindAfter(x, n, s) = x
    BY <2>3 DEF KindAfter
  <2> QED BY <1>3, <1>5, <2>1, <2>2, <2>4, <2>5, <2>6
<1>11. CASE ClientLeaves
  <2>1. UNCHANGED inSel /\ toServer' = <<>>
        /\ remote' = [t \in Selections |->
             [remote[t] EXCEPT !.copy = NoCopy, !.phase = "none", !.from = {}]]
    BY <1>11 DEF ClientLeaves, incoming
  <2>2. remote'[s].copy = NoCopy
    <3>1. DOMAIN remote[s] = {"copy", "heard", "phase", "from"}
      BY <1>1 DEF RemoteTyped, IsRemote
    <3>2. remote'[s] = [remote[s] EXCEPT !.copy = NoCopy, !.phase = "none", !.from = {}]
      BY <2>1
    <3> QED BY <3>1, <3>2
  <2>3. Heralded(<<>>, s, k, k)
    BY HeraldedEmpty
  <2> QED BY <2>1, <2>2, <2>3
<1>12. CASE \/ SendingThread \/ Tick \/ ClientArrives
            \/ \E u \in Selections :
                 \/ \E l \in AppKinds : AppCopies(u, l)
                 \/ AppConverts(u) \/ AppPortion(u)
                 \/ \E r \in Requests, target \in ClientKinds \cup {"meta"},
                       t \in {0, clock} : AppPastes(r, u, target, t)
            \/ \E r \in Requests : AppDeletes(r)
            \/ UNCHANGED vars
  <2>1. UNCHANGED <<inSel, remote, toServer>>
    BY <1>12 DEF SendingThread, SendChunk, SendRequest, Tick, ClientArrives, AppCopies,
      AppConverts, AppPortion, AppPastes, AppDeletes, incoming, net, vars
  <2> QED BY <1>4, <2>1
<1> QED BY <1>6, <1>7, <1>8, <1>9, <1>10, <1>11, <1>12 DEF Next, Environment

-----------------------------------------------------------------------------
(* Whole copies.                                                           *)

IsWhole(b) ==
  /\ b.copy \in Copies /\ b.size = Size[b.copy.kind] /\ b.ready = b.size
  /\ ~Torn(b.copy.kind)

WholeBuffers == \A s \in Selections : inSel[s].state = "COMPLETED" => IsWhole(inSel[s])

WholeAnswers ==
  \A r \in Requests :
    Delivered(answer[r]) => /\ answer[r].copy \in Copies
                            /\ answer[r].copy.kind = answer[r].target
                            /\ answer[r].filled = Size[answer[r].target]

(* A chunk that is not torn is the only one of its copy.                   *)
LEMMA OnlyChunk ==
  ASSUME EventUnits < ChunkUnits, NEW m, OfClient(m), m.type = "chunk",
         ~Torn(m.copy.kind)
  PROVE  ~Unfinished(m)
<1>1. /\ m.copy \in Copies /\ m.part \in 1 .. LastPart(m.copy)
      /\ LastPart(m.copy) = Parts(Size[m.copy.kind], ChunkUnits)
  BY DEF OfClient, OfTransfer, LastPart
<1>2. /\ Size[m.copy.kind] \in Nat \ {0} /\ ChunkUnits \in Nat \ {0}
      /\ EventUnits \in Nat \ {0} /\ Size[m.copy.kind] < ChunkUnits
  BY <1>1, CopyParts, TornParts
<1>3. LastPart(m.copy) = 1
  BY <1>1, <1>2, OnePart
<1> QED BY <1>1, <1>3 DEF Unfinished

LEMMA NextWholeBuffers ==
  ASSUME EventUnits < ChunkUnits, Exchange, Heralding, WholeBuffers, [Next]_vars
  PROVE  WholeBuffers'
<1>1. BuffersTyped /\ clock \in Nat /\ Stream(toServer) /\ HeadFits
  BY DEF Exchange, Incoming, Typed, BuffersTyped
<1>2. CASE ReadNotify
  <2>1. /\ \A t \in Selections : t # toServer[1].sel => inSel'[t] = inSel[t]
        /\ inSel'[toServer[1].sel].state = "NOTIFIED"
    BY <1>1, <1>2, NotifyBuffer
  <2> QED BY <2>1 DEF WholeBuffers
<1>3. CASE ReadChunk
  <2> DEFINE m == toServer[1] s == m.sel b == inSel'[s]
  <2>1. /\ toServer # <<>> /\ m.type = "chunk" /\ OfClient(m)
        /\ \A t \in Selections : t # s => inSel'[t] = inSel[t]
        /\ b.copy = m.copy /\ b.size = Size[m.copy.kind]
        /\ Torn(m.copy.kind) => b.ready < b.size
        /\ ~Torn(m.copy.kind) => (b.ready = b.size <=> ~Unfinished(m))
        /\ b.ready # b.size => b.state = inSel[s].state
    BY <1>1, <1>3, ChunkBuffer
  <2>2. m.copy \in Copies /\ s \in Selections /\ OfTransfer(m)
    BY <2>1 DEF OfClient, OfTransfer
  <2>3. BuffersTyped'
    BY <1>1, <1>3, ChunkBuffer
  <2>4. b.ready \in Nat /\ b.size \in Nat
    BY <2>2, <2>3 DEF BuffersTyped, IsBuffer, BufferType
  <2>5. inSel[s].copy.kind = m.copy.kind
    <3>1. PICK x : Heralded(toServer, s, inSel[s].copy.kind, x)
      BY <2>2 DEF Heralding
    <3> QED BY <1>1, <2>1, <2>2, <3>1, HeraldedHead DEF Stream
  <2> HIDE DEF m, s, b
  <2>6. CASE Torn(m.copy.kind)
    <3>1. inSel[s].state # "COMPLETED"
      BY <2>2, <2>5, <2>6 DEF WholeBuffers, IsWhole
    <3>2. b.state # "COMPLETED"
      BY <2>1, <2>4, <2>6, <3>1
    <3> QED BY <2>1, <3>2 DEF WholeBuffers, b
  <2>7. CASE ~Torn(m.copy.kind)
    <3>1. IsWhole(b)
      BY <2>1, <2>2, <2>7, OnlyChunk DEF IsWhole
    <3> QED BY <2>1, <3>1 DEF WholeBuffers, b
  <2> QED BY <2>6, <2>7
<1>4. CASE DelayRequest \/ OwnerChanged
  BY <1>1, <1>4, ThreadBuffers DEF WholeBuffers, SameData, IsWhole
<1>5. CASE ~(ReadNotify \/ ReadChunk \/ DelayRequest \/ OwnerChanged)
  <2>1. UNCHANGED inSel
    BY <1>5 DEF Next, MainThread, SelectionThread, SendingThread, Environment,
      ReadRest, ReadDemand, Wake, ScanDelayed, ScanDone, PruneDelayed, PruneDone,
      AnswerRequest, NextPortion, DataReady, DataDemanded, ConversionDone,
      PropertyChanged, SendChunk, SendRequest, Tick, ClientReads, ClientLeaves,
      ClientArrives, ClientCopies, AppCopies, ClientDemands, AppConverts, AppPortion,
      AppPastes, AppDeletes, incoming, vars
  <2> QED BY <2>1 DEF WholeBuffers
<1> QED BY <1>2, <1>3, <1>4, <1>5

LEMMA NextWholeAnswers ==
  ASSUME Exchange, WholeBuffers, WholeAnswers, [Next]_vars
  PROVE  WholeAnswers'
<1> SUFFICES ASSUME NEW r \in Requests, Delivered(answer'[r])
             PROVE  /\ answer'[r].copy \in Copies
                    /\ answer'[r].copy.kind = answer'[r].target
                    /\ answer'[r].filled = Size[answer'[r].target]
  BY DEF WholeAnswers
<1>1. CASE Gives(r)
  BY <1>1 DEF Gives, WholeBuffers, IsWhole
<1>2. CASE Leaves(r)
  BY <1>2 DEF Leaves, WholeAnswers
<1> QED BY <1>1, <1>2, AnswersGiven

(* From a client that announces what it copies (selections on demand) no   *)
(* application gets a part of a copy or a copy of another kind, whatever   *)
(* the size of its copies (send_data, start_incr_transaction): an event    *)
(* (EVLENGTH) is smaller than a chunk, so that a copy fits in one event or *)
(* never completes its buffer, and the announcement that precedes it took  *)
(* COMPLETED from the buffer (readInputSelectionHeader).  Without the      *)
(* announcement it is false.                                               *)
THEOREM WholeCorrect ==
  ASSUME OnDemands = {TRUE}, EventUnits < ChunkUnits
  PROVE  Spec => []DataIsWhole
<1>1. Init => WholeBuffers /\ WholeAnswers /\ Heralding
  <2> SUFFICES ASSUME Init PROVE WholeBuffers /\ WholeAnswers /\ Heralding
    OBVIOUS
  <2>1. WholeBuffers /\ WholeAnswers
    BY DEF Init, Empty, Unasked, WholeBuffers, WholeAnswers, Delivered
  <2>2. onDemand = TRUE /\ toServer = <<>> /\ \A s \in Selections : remote[s].copy = NoCopy
    BY DEF Init
  <2>3. Heralding
    BY <2>2, HeraldedEmpty DEF Heralding
  <2> QED BY <2>1, <2>3
<1>2. Exchange /\ Heralding /\ WholeBuffers /\ WholeAnswers /\ [Next]_vars =>
        Heralding' /\ WholeBuffers' /\ WholeAnswers'
  BY NextHeralding, NextWholeBuffers, NextWholeAnswers
<1>3. WholeAnswers => DataIsWhole
  BY DEF WholeAnswers, DataIsWhole, Delivered, Copies
<1> QED BY <1>1, <1>2, <1>3, ExchangeCorrect, PTL DEF Spec

-----------------------------------------------------------------------------
(* Data that were requested from the first client.                         *)

Listed(q, t, s) == \E i \in 1 .. Len(q) : q[i].type = t /\ q[i].sel = s

OnlyDemands(q, s) == \A i \in 1 .. Len(q) : q[i].sel = s => q[i].type = "demand"

LEMMA ListedTail ==
  ASSUME NEW q, Sequence(q), q # <<>>, NEW t, NEW s
  PROVE  /\ Listed(q, t, s) => Listed(Tail(q), t, s) \/ (q[1].type = t /\ q[1].sel = s)
         /\ OnlyDemands(q, s) => OnlyDemands(Tail(q), s)
<1>1. /\ Len(q) \in Nat \ {0} /\ Len(Tail(q)) = Len(q) - 1
      /\ \A i \in 1 .. Len(Tail(q)) : Tail(q)[i] = q[i + 1]
  BY SequenceParts, TailAny
<1>2. ASSUME Listed(q, t, s), ~(q[1].type = t /\ q[1].sel = s)
      PROVE  Listed(Tail(q), t, s)
  <2>1. PICK i \in 1 .. Len(q) : q[i].type = t /\ q[i].sel = s
    BY <1>2 DEF Listed
  <2>2. i # 1
    BY <1>2, <2>1
  <2>3. i - 1 \in 1 .. Len(Tail(q)) /\ (i - 1) + 1 = i
    BY <1>1, <2>1, <2>2
  <2>4. Tail(q)[i - 1] = q[i]
    BY <1>1, <2>3
  <2> QED BY <2>1, <2>3, <2>4 DEF Listed
<1>3. \A i \in 1 .. Len(Tail(q)) : i + 1 \in 1 .. Len(q)
  BY <1>1
<1> QED BY <1>1, <1>2, <1>3 DEF OnlyDemands

LEMMA ListedConcat ==
  ASSUME NEW q, Sequence(q), NEW x, Sequence(x), NEW t, NEW s
  PROVE  /\ Listed(q, t, s) \/ Listed(x, t, s) => Listed(q \o x, t, s)
         /\ OnlyDemands(q, s) /\ OnlyDemands(x, s) => OnlyDemands(q \o x, s)
<1>1. /\ Len(q) \in Nat /\ Len(x) \in Nat /\ Len(q \o x) = Len(q) + Len(x)
      /\ \A i \in 1 .. Len(q) + Len(x) :
           (q \o x)[i] = IF i <= Len(q) THEN q[i] ELSE x[i - Len(q)]
  BY SequenceParts, ConcatAny
<1>2. ASSUME Listed(q, t, s) PROVE Listed(q \o x, t, s)
  <2>1. PICK i \in 1 .. Len(q) : q[i].type = t /\ q[i].sel = s
    BY <1>2 DEF Listed
  <2>2. i \in 1 .. Len(q \o x) /\ (q \o x)[i] = q[i]
    BY <1>1, <2>1
  <2> QED BY <2>1, <2>2 DEF Listed
<1>3. ASSUME Listed(x, t, s) PROVE Listed(q \o x, t, s)
  <2>1. PICK i \in 1 .. Len(x) : x[i].type = t /\ x[i].sel = s
    BY <1>3 DEF Listed
  <2>2. /\ i + Len(q) \in 1 .. Len(q) + Len(x) /\ ~(i + Len(q) <= Len(q))
        /\ (i + Len(q)) - Len(q) = i
    BY <1>1, <2>1
  <2>3. (q \o x)[i + Len(q)] = x[i]
    BY <1>1, <2>2
  <2> QED BY <1>1, <2>1, <2>2, <2>3 DEF Listed
<1>4. ASSUME OnlyDemands(q, s), OnlyDemands(x, s), NEW i \in 1 .. Len(q \o x),
             (q \o x)[i].sel = s
      PROVE  (q \o x)[i].type = "demand"
  <2>1. CASE i <= Len(q)
    <3>1. i \in 1 .. Len(q) /\ (q \o x)[i] = q[i]
      BY <1>1, <2>1
    <3> QED BY <1>4, <3>1 DEF OnlyDemands
  <2>2. CASE ~(i <= Len(q))
    <3>1. i - Len(q) \in 1 .. Len(x) /\ (q \o x)[i] = x[i - Len(q)]
      BY <1>1, <2>2
    <3> QED BY <1>4, <3>1 DEF OnlyDemands
  <2> QED BY <2>1, <2>2
<1> QED BY <1>2, <1>3, <1>4 DEF OnlyDemands

LEMMA ListedAppend ==
  ASSUME NEW q, Sequence(q), NEW m, NEW t, NEW s
  PROVE  /\ Listed(q, t, s) => Listed(Append(q, m), t, s)
         /\ Listed(Append(q, m), m.type, m.sel)
         /\ OnlyDemands(q, s) /\ (m.sel = s => m.type = "demand")
              => OnlyDemands(Append(q, m), s)
<1>1. /\ Len(q) \in Nat /\ Len(Append(q, m)) = Len(q) + 1
      /\ \A i \in 1 .. Len(q) : Append(q, m)[i] = q[i]
      /\ Append(q, m)[Len(q) + 1] = m
  BY SequenceParts, AppendAny
<1>2. /\ Len(q) + 1 \in 1 .. Len(Append(q, m))
      /\ \A i \in 1 .. Len(q) : i \in 1 .. Len(Append(q, m))
      /\ \A i \in 1 .. Len(Append(q, m)) : i \in 1 .. Len(q) \/ i = Len(q) + 1
  BY <1>1
<1>3. Listed(q, t, s) => Listed(Append(q, m), t, s)
  BY <1>1, <1>2 DEF Listed
<1>4. Listed(Append(q, m), m.type, m.sel)
  BY <1>1, <1>2 DEF Listed
<1>5. OnlyDemands(q, s) /\ (m.sel = s => m.type = "demand")
        => OnlyDemands(Append(q, m), s)
  BY <1>1, <1>2 DEF OnlyDemands
<1> QED BY <1>3, <1>4, <1>5

(* All messages of a transfer are of one selection.                        *)
LEMMA TransferSelection ==
  ASSUME NEW s \in Selections, NEW c \in Copies
  PROVE  /\ Sequence(Transfer(s, c)) /\ Listed(Transfer(s, c), "chunk", s)
         /\ \A t : t # s => OnlyDemands(Transfer(s, c), t)
<1> DEFINE q == Transfer(s, c)
<1>1. /\ Sequence(q) /\ Len(q) \in Nat \ {0} /\ q[1].type = "chunk" /\ q[1].sel = s
  BY TransferStreams DEF Stream
<1>2. DOMAIN q = 1 .. Len(q)
  BY <1>1, SequenceParts
<1>3. ASSUME NEW i \in DOMAIN q PROVE q[i].sel = s
  BY <1>3 DEF Transfer, Message
<1> HIDE DEF q
<1>4. Listed(q, "chunk", s)
  BY <1>1 DEF Listed
<1> QED BY <1>1, <1>2, <1>3, <1>4 DEF OnlyDemands, q

FirstClient == conns = 1 /\ connected

(* The beginning of a copy of s is there, and the rest of it is lost.      *)
RestLost(s) == inSel[s].ready \in 1 .. inSel[s].size - 1 /\ Torn(inSel[s].copy.kind)

(* Data of s that are wanted are asked for.                                *)
Wanted(s) ==
  \/ requested[s]
  \/ Listed(toClient, "request", s)
  \/ Listed(toServer, "chunk", s)
  \/ RestLost(s)

(* The server has nothing of a selection the client did not copy.          *)
Uncopied(s) ==
  ~inSel[s].owner /\ inSel[s].state # "REQUESTED" /\ OnlyDemands(toServer, s)

InDemand ==
  FirstClient =>
    \A s \in Selections :
      /\ remote[s].copy = NoCopy => Uncopied(s)
      /\ inSel[s].state = "REQUESTED" => Wanted(s)

LEMMA NoneDemanded ==
  ASSUME Exchange, ReadChunk, NEW u, u = toServer[1].sel,
         inSel'[u].ready # inSel'[u].size
  PROVE  Listed(toServer', "chunk", u) \/ RestLost(u)'
<1> DEFINE m == toServer[1] b == inSel'[u] y == toServer'[1]
<1>1. BuffersTyped /\ clock \in Nat /\ Stream(toServer) /\ HeadFits
  BY DEF Exchange, Incoming, Typed, BuffersTyped
<1>2. /\ toServer # <<>> /\ OfClient(m) /\ toServer' = Tail(toServer) /\ BuffersTyped'
      /\ b.copy = m.copy /\ b.ready \in Nat \ {0}
      /\ Torn(m.copy.kind) => b.ready < b.size
      /\ ~Torn(m.copy.kind) => (b.ready = b.size <=> ~Unfinished(m))
  BY <1>1, ChunkBuffer
<1>a. CASE Torn(m.copy.kind)
  <2>1. u \in Selections
    BY <1>2 DEF OfClient
  <2>2. b.size \in Nat
    BY <1>2, <2>1 DEF BuffersTyped, IsBuffer, BufferType
  <2> HIDE DEF m, b
  <2>3. b.ready \in 1 .. b.size - 1 /\ Torn(b.copy.kind)
    BY <1>2, <1>a, <2>2
  <2> QED BY <2>3 DEF RestLost, b
<1> SUFFICES ASSUME ~Torn(m.copy.kind) PROVE Listed(toServer', "chunk", u)
  BY <1>a
<1>3. Unfinished(m)
  BY <1>2
<1>4. /\ Len(toServer) \in Nat \ {0} /\ Len(toServer') = Len(toServer) - 1
      /\ \A i \in 1 .. Len(toServer') : toServer'[i] = toServer[i + 1]
  BY <1>1, <1>2, SequenceParts, TailAny DEF Stream
<1>5. 1 \in 1 .. Len(toServer) /\ 1 # Len(toServer)
  BY <1>1, <1>3, <1>4 DEF Stream
<1>6. 1 + 1 \in 1 .. Len(toServer) /\ 1 \in 1 .. Len(toServer')
  BY <1>4, <1>5
<1>7. y = toServer[1 + 1]
  BY <1>4, <1>6
<1>8. Continues(m, y) /\ OfClient(y)
  BY <1>1, <1>5, <1>6, <1>7 DEF Stream
<1> HIDE DEF m, b, y
<1>9. Within(y) /\ m.sel = y.sel /\ m.copy = y.copy
  BY <1>3, <1>8 DEF Continues
<1>10. y.type = "chunk"
  <2>1. OfTransfer(y) /\ ~Torn(y.copy.kind)
    BY <1>9 DEF Within
  <2> QED BY <1>8, <2>1 DEF OfTransfer, OfClient
<1>11. y.sel = u
  BY <1>9 DEF m
<1> QED BY <1>6, <1>10, <1>11 DEF Listed, y

LEMMA NextInDemand ==
  ASSUME Exchange, InDemand, [Next]_vars
  PROVE  InDemand'
<1> SUFFICES ASSUME FirstClient', NEW s \in Selections
             PROVE  /\ remote'[s].copy = NoCopy => Uncopied(s)'
                    /\ inSel'[s].state = "REQUESTED" => Wanted(s)'
  BY DEF InDemand
<1>1. /\ BuffersTyped /\ RemoteTyped /\ clock \in Nat /\ version \in Nat
      /\ conns \in Nat \ {0} /\ Stream(toServer) /\ HeadFits
      /\ Sequence(toServer) /\ Sequence(toClient) /\ Queue(toClient)
      /\ DOMAIN requested = Selections /\ EventsKnown /\ EventsNamed
      /\ \A t \in Selections : inSel[t].owner \in BOOLEAN
  BY DEF Exchange, Incoming, Typed, BuffersTyped, RemoteTyped, Stream, Queues, Queue,
         Exchanged, IsBuffer, BufferType
<1>2. ~ClientLeaves /\ ~ClientArrives
  BY <1>1 DEF ClientLeaves, ClientArrives, FirstClient
<1>3. UNCHANGED <<conns, connected>>
  BY <1>2 DEF Next, MainThread, SelectionThread, SendingThread, Environment,
    ReadNotify, ReadChunk, ReadRest, ReadDemand, Wake, ScanDelayed, ScanDone,
    PruneDelayed, PruneDone, AnswerRequest, DelayRequest, NextPortion, DataReady,
    OwnerChanged, DataDemanded, ConversionDone, PropertyChanged, SendChunk,
    SendRequest, Tick, ClientReads, ClientCopies, AppCopies, ClientDemands,
    AppConverts, AppPortion, AppPastes, AppDeletes, net, vars
<1>4. /\ \A t \in Selections : remote[t].copy = NoCopy => Uncopied(t)
      /\ inSel[s].state = "REQUESTED" => Wanted(s)
  BY <1>3 DEF InDemand, FirstClient
(* Nothing of s gets lost.                                                 *)
<1>5. ASSUME inSel'[s].state = inSel[s].state, inSel'[s].owner => inSel[s].owner,
             remote'[s].copy = remote[s].copy,
             requested[s] => requested'[s],
             Listed(toClient, "request", s) => Listed(toClient', "request", s),
             Listed(toServer, "chunk", s) => Listed(toServer', "chunk", s),
             remote[s].copy = NoCopy =>
               (OnlyDemands(toServer, s) => OnlyDemands(toServer', s)),
             RestLost(s) => RestLost(s)'
      PROVE  /\ remote'[s].copy = NoCopy => Uncopied(s)'
             /\ inSel'[s].state = "REQUESTED" => Wanted(s)'
  BY <1>4, <1>5 DEF Uncopied, Wanted
<1>6. CASE MainThread
  <2> DEFINE m == toServer[1] u == m.sel
  <2>1. /\ toServer # <<>> /\ toServer' = Tail(toServer) /\ Head(toServer) = m
        /\ UNCHANGED <<requested, toClient>>
    <3>1. toServer # <<>> /\ toServer' = Tail(toServer) /\ UNCHANGED <<requested, toClient>>
      BY <1>6 DEF MainThread, ReadNotify, ReadChunk, ReadRest, ReadDemand, MainReads,
                  incoming
    <3> QED BY <1>1, <3>1, StreamTail
  <2>2. /\ OnlyDemands(toServer, s) => OnlyDemands(toServer', s)
        /\ Listed(toServer, "chunk", s) =>
             Listed(toServer', "chunk", s) \/ (m.type = "chunk" /\ u = s)
    BY <1>1, <2>1, ListedTail
  <2>3. CASE ReadNotify \/ ReadChunk
    <3>1. /\ OfClient(m) /\ Hears(m) /\ m.type \in {"notify", "chunk"}
          /\ \A t \in Selections : t # u => inSel'[t] = inSel[t]
      BY <1>1, <2>3, NotifyBuffer, ChunkBuffer
    <3>2. u \in Selections /\ 1 \in 1 .. Len(toServer)
      BY <1>1, <2>1, <3>1, SequenceParts DEF OfClient
    <3>3. remote'[s].copy = remote[s].copy
      BY <1>1, <3>1, <3>2, HearsRemote
    <3>4. CASE u # s
      BY <1>5, <2>1, <2>2, <3>1, <3>3, <3>4 DEF RestLost
    <3>5. CASE u = s
      <4>1. remote[s].copy # NoCopy
        BY <1>4, <3>1, <3>2, <3>5 DEF Uncopied, OnlyDemands
      <4>2. CASE ReadNotify
        <5>1. inSel'[s].state = "NOTIFIED"
          BY <1>1, <3>5, <4>2, NotifyBuffer
        <5> QED BY <3>3, <4>1, <5>1
      <4>3. CASE ReadChunk
        <5> DEFINE b == inSel'[u]
        <5>1. b.ready = b.size => b.state = "COMPLETED"
          BY <1>1, <4>3, ChunkBuffer
        <5>2. b.ready # b.size => Listed(toServer', "chunk", s) \/ RestLost(s)'
          BY <1>1, <3>5, <4>3, NoneDemanded DEF Exchange
        <5>3. inSel'[s].state = "REQUESTED" => Wanted(s)'
          BY <3>5, <5>1, <5>2 DEF Wanted
        <5> QED BY <3>3, <4>1, <5>3
      <4> QED BY <2>3, <4>2, <4>3
    <3> QED BY <3>4, <3>5
  <2>4. CASE ReadRest \/ ReadDemand
    <3>1. UNCHANGED <<inSel, remote>> /\ m.type \in {"rest", "demand"}
      BY <2>1, <2>4 DEF ReadRest, ReadDemand, incoming, MainReads
    <3> HIDE DEF m
    <3> QED BY <1>5, <2>1, <2>2, <3>1 DEF RestLost
  <2> QED BY <1>6, <2>3, <2>4 DEF MainThread
<1>7. CASE SelectionThread
  <2>1. UNCHANGED <<remote, toServer, toClient>>
    BY <1>7 DEF SelectionThread, Wake, ScanDelayed, ScanDone, PruneDelayed,
                PruneDone, AnswerRequest, DelayRequest, NextPortion, DataReady,
                OwnerChanged, DataDemanded, ConversionDone, PropertyChanged, net
  <2>a. DelayRequest \/ OwnerChanged => (RestLost(s) => RestLost(s)')
    BY <1>1, ThreadBuffers DEF SameData, RestLost
  <2>2. CASE DelayRequest
    <3> DEFINE u == ev.sel
               st == IF inSel[u].state = "NOTIFIED" THEN "REQUESTED" ELSE inSel[u].state
               z == requested[u] \/ Asks(inSel[u])
    <3>1. /\ inSel' = [inSel EXCEPT ![u] = [inSel[u] EXCEPT !.state = st]]
          /\ requested' = [requested EXCEPT ![u] = z]
          /\ inSel[u].owner /\ ev.type = "request" /\ spc = "handle"
      BY <2>2 DEF DelayRequest, Handles
    <3>2. u \in Selections
      BY <1>1, <3>1 DEF EventsNamed, Named
    <3>3. (requested[u] => z) /\ (inSel[u].state = "NOTIFIED" => z)
          /\ (inSel[u].state # "NOTIFIED" => st = inSel[u].state)
      BY DEF Asks
    <3> HIDE DEF st, z
    <3>4. /\ inSel'[u].state = st /\ inSel'[u].owner = inSel[u].owner
          /\ \A t \in Selections : t # u => inSel'[t] = inSel[t]
      <4>1. IsBuffer(inSel[u])
        BY <1>1, <3>2 DEF BuffersTyped
      <4> QED BY <1>1, <3>1, <3>2, <4>1 DEF BuffersTyped, IsBuffer, BufferType
    <3>5. /\ requested'[u] = z
          /\ \A t \in Selections : t # u => requested'[t] = requested[t]
      BY <1>1, <3>1, <3>2
    <3>6. CASE u # s
      BY <1>5, <2>1, <3>4, <3>5, <3>6 DEF RestLost
    <3>7. CASE u = s
      <4>1. remote[s].copy # NoCopy
        BY <1>4, <3>1, <3>7 DEF Uncopied
      <4>2. CASE inSel[s].state = "NOTIFIED"
        BY <2>1, <3>3, <3>5, <3>7, <4>1, <4>2 DEF Wanted
      <4>3. CASE inSel[s].state # "NOTIFIED"
        BY <1>5, <2>1, <2>2, <2>a, <3>3, <3>4, <3>5, <3>7, <4>1, <4>3
      <4> QED BY <4>2, <4>3
    <3> QED BY <3>6, <3>7
  <2>3. CASE OwnerChanged
    <3> DEFINE u == ev.sel
    <3>1. UNCHANGED requested
          /\ (UNCHANGED inSel \/ inSel' = [inSel EXCEPT ![u] = Disowned(inSel[u])])
      BY <2>3 DEF OwnerChanged
    <3>2. IsBuffer(inSel[u]) \/ u \notin Selections
      BY <1>1 DEF BuffersTyped
    <3>3. u \in Selections => /\ Disowned(inSel[u]).state = inSel[u].state
                             /\ ~Disowned(inSel[u]).owner
      BY <1>1, <3>2, BufferOwned
    <3> HIDE DEF u
    <3>4. inSel'[s].state = inSel[s].state /\ (inSel'[s].owner => inSel[s].owner)
      <4>1. CASE UNCHANGED inSel
        BY <4>1
      <4>2. CASE inSel' = [inSel EXCEPT ![u] = Disowned(inSel[u])]
        <5>1. inSel'[s] = IF u = s THEN Disowned(inSel[u]) ELSE inSel[s]
          BY <1>1, <4>2 DEF BuffersTyped
        <5> QED BY <3>3, <5>1
      <4> QED BY <3>1, <4>1, <4>2
    <3> QED BY <1>5, <2>1, <2>3, <2>a, <3>1, <3>4
  <2>4. CASE ~(DelayRequest \/ OwnerChanged)
    <3>1. UNCHANGED <<inSel, requested>>
      BY <1>7, <2>4 DEF SelectionThread, Wake, ScanDelayed, ScanDone, PruneDelayed,
                PruneDone, AnswerRequest, NextPortion, DataReady,
                DataDemanded, ConversionDone, PropertyChanged, incoming
    <3> QED BY <1>5, <2>1, <3>1 DEF RestLost
  <2> QED BY <2>2, <2>3, <2>4
<1>8. CASE SendChunk
  <2>1. /\ UNCHANGED <<inSel, requested, remote, toServer>>
        /\ toClient' = Append(toClient, Head(chunks))
    BY <1>8 DEF SendChunk, incoming
  <2>2. Listed(toClient, "request", s) => Listed(toClient', "request", s)
    BY <1>1, <2>1, ListedAppend
  <2> QED BY <1>5, <2>1, <2>2 DEF RestLost
<1>9. ASSUME NEW u \in Selections, SendRequest(u)
      PROVE  /\ remote'[s].copy = NoCopy => Uncopied(s)'
             /\ inSel'[s].state = "REQUESTED" => Wanted(s)'
  <2> DEFINE m == Message("request", u, NoCopy, 0, 0)
  <2>1. /\ UNCHANGED <<inSel, remote, toServer>>
        /\ requested' = [requested EXCEPT ![u] = FALSE]
        /\ toClient' = Append(toClient, m)
    BY <1>9 DEF SendRequest
  <2>2. m.type = "request" /\ m.sel = u
    BY MessageParts
  <2> HIDE DEF m
  <2>3. /\ Listed(toClient, "request", s) => Listed(toClient', "request", s)
        /\ Listed(toClient', "request", u)
    BY <1>1, <2>1, <2>2, ListedAppend
  <2>4. CASE u = s
    BY <1>4, <2>1, <2>3, <2>4 DEF Uncopied, Wanted
  <2>5. CASE u # s
    <3>1. requested'[s] = requested[s]
      BY <1>1, <2>1, <2>5
    <3> QED BY <1>5, <2>1, <2>3, <3>1 DEF RestLost
  <2> QED BY <2>4, <2>5
<1>10. CASE ClientReads
  <2> DEFINE m == Head(toClient) u == m.sel c == remote[u].copy
  <2>1. /\ UNCHANGED <<inSel, requested>> /\ toClient # <<>> /\ toClient' = Tail(toClient)
    BY <1>10 DEF ClientReads, incoming
  <2>2. remote'[s].copy = remote[s].copy
    BY <1>1, <1>10, ReadsRemote DEF SameCopies, Queues, Exchange
  <2>3. /\ m.type \in {"request", "notify", "chunk"} /\ m = toClient[1]
        /\ m.type = "request" => u \in Selections
    BY <1>1, <2>1, QueueHead
  <2>4. Listed(toClient, "request", s) =>
          Listed(toClient', "request", s) \/ (m.type = "request" /\ u = s)
    BY <1>1, <2>1, <2>3, ListedTail
  <2>5. CASE m.type = "request" /\ c # NoCopy
    <3>1. toServer' = toServer \o Transfer(u, c)
      BY <1>10, <2>5 DEF ClientReads
    <3>2. u \in Selections /\ c \in Copies
      BY <1>1, <2>3, <2>5 DEF RemoteTyped, IsRemote
    <3> DEFINE x == Transfer(u, c)
    <3> HIDE DEF m, u, c
    <3>3. /\ Sequence(x) /\ Listed(x, "chunk", u)
          /\ \A t : t # u => OnlyDemands(x, t)
      BY <3>2, TransferSelection
    <3> HIDE DEF x
    <3>4. /\ Listed(toServer, "chunk", s) \/ Listed(x, "chunk", s)
                => Listed(toServer \o x, "chunk", s)
          /\ OnlyDemands(toServer, s) /\ OnlyDemands(x, s) => OnlyDemands(toServer \o x, s)
      BY <1>1, <3>3, ListedConcat
    <3>5. toServer' = toServer \o x
      BY <3>1 DEF x
    <3>6. CASE u = s
      <4>1. remote[s].copy # NoCopy
        BY <2>5, <3>6 DEF c
      <4> QED BY <2>2, <3>3, <3>4, <3>5, <3>6, <4>1 DEF Wanted
    <3>7. CASE u # s
      <4>1. Listed(toClient, "request", s) => Listed(toClient', "request", s)
        BY <2>4, <3>7
      <4>2. OnlyDemands(toServer, s) => OnlyDemands(toServer', s)
        BY <3>3, <3>4, <3>5, <3>7
      <4>3. Listed(toServer, "chunk", s) => Listed(toServer', "chunk", s)
        BY <3>4, <3>5
      <4> QED BY <1>5, <2>1, <2>2, <4>1, <4>2, <4>3 DEF RestLost
    <3> QED BY <3>6, <3>7
  <2>6. CASE ~(m.type = "request" /\ c # NoCopy)
    <3>1. UNCHANGED toServer
      <4>1. CASE m.type = "request"
        BY <1>10, <2>6, <4>1 DEF ClientReads
      <4>2. CASE m.type = "notify"
        BY <1>10, <4>2 DEF ClientReads
      <4>3. CASE m.type = "chunk"
        BY <1>10, <4>3 DEF ClientReads
      <4> QED BY <2>3, <4>1, <4>2, <4>3
    <3>2. CASE m.type = "request" /\ u = s
      <4>1. remote[s].copy = NoCopy
        BY <2>6, <3>2
      <4> QED BY <1>4, <2>1, <2>2, <3>1, <4>1 DEF Uncopied
    <3>3. CASE ~(m.type = "request" /\ u = s)
      BY <1>5, <2>1, <2>2, <2>4, <3>1, <3>3 DEF RestLost
    <3> QED BY <3>2, <3>3
  <2> QED BY <2>5, <2>6
<1>11. ASSUME NEW u \in Selections, NEW k \in ClientKinds, ClientCopies(u, k)
      PROVE  /\ remote'[s].copy = NoCopy => Uncopied(s)'
             /\ inSel'[s].state = "REQUESTED" => Wanted(s)'
  <2> DEFINE c == [ver |-> version + 1, kind |-> k]
             n == Message("notify", u, c, 1, 0)
             x == IF onDemand THEN <<n>> ELSE Transfer(u, c)
  <2>1. UNCHANGED <<inSel, requested, toClient>> /\ toServer' = toServer \o x
    BY <1>11 DEF ClientCopies, incoming
  <2>2. c \in Copies /\ remote'[u].copy = c
        /\ \A t \in Selections : t # u => remote'[t] = remote[t]
    BY <1>1, <1>11, CopiesRemote
  <2> HIDE DEF c
  <2>3. n.sel = u
    BY MessageParts
  <2>4. Sequence(x) /\ (s # u => OnlyDemands(x, s))
    <3>1. CASE onDemand
      <4> HIDE DEF n
      <4>1. <<n>> \in Seq({n}) /\ Len(<<n>>) = 1 /\ <<n>>[1] = n
        OBVIOUS
      <4>2. \A i \in 1 .. Len(<<n>>) : <<n>>[i] = n
        BY <4>1
      <4>3. Sequence(<<n>>)
        BY <4>1 DEF Sequence
      <4>4. s # u => OnlyDemands(<<n>>, s)
        BY <2>3, <4>2 DEF OnlyDemands
      <4> QED BY <3>1, <4>3, <4>4
    <3>2. CASE ~onDemand
      BY <2>2, <3>2, TransferSelection
    <3> QED BY <3>1, <3>2
  <2> HIDE DEF x
  <2>5. /\ Listed(toServer, "chunk", s) => Listed(toServer', "chunk", s)
        /\ OnlyDemands(toServer, s) /\ OnlyDemands(x, s) => OnlyDemands(toServer', s)
    BY <1>1, <2>1, <2>4, ListedConcat
  <2>6. CASE u = s
    <3>1. remote'[s].copy # NoCopy
      BY <2>2, <2>6, CopyFields
    <3> QED BY <1>4, <2>1, <2>5, <3>1 DEF Wanted, RestLost
  <2>7. CASE u # s
    BY <1>5, <2>1, <2>2, <2>4, <2>5, <2>7 DEF RestLost
  <2> QED BY <2>6, <2>7
<1>12. ASSUME NEW u \in Selections, ClientDemands(u)
      PROVE  /\ remote'[s].copy = NoCopy => Uncopied(s)'
             /\ inSel'[s].state = "REQUESTED" => Wanted(s)'
  <2> DEFINE m == Message("demand", u, NoCopy, 0, 0)
  <2>1. UNCHANGED <<inSel, requested, toClient>> /\ toServer' = Append(toServer, m)
    BY <1>12 DEF ClientDemands, incoming
  <2>2. remote'[s].copy = remote[s].copy
    BY <1>1, <1>12, DemandsRemote DEF SameCopies
  <2>3. m.type = "demand"
    BY MessageParts
  <2> HIDE DEF m
  <2>4. /\ Listed(toServer, "chunk", s) => Listed(toServer', "chunk", s)
        /\ OnlyDemands(toServer, s) => OnlyDemands(toServer', s)
    BY <1>1, <2>1, <2>3, ListedAppend
  <2> QED BY <1>5, <2>1, <2>2, <2>4 DEF RestLost
<1>13. CASE \/ Tick
            \/ \E u \in Selections :
                 \/ \E k \in AppKinds : AppCopies(u, k)
                 \/ AppConverts(u) \/ AppPortion(u)
                 \/ \E r \in Requests, target \in ClientKinds \cup {"meta"},
                       t \in {0, clock} : AppPastes(r, u, target, t)
            \/ \E r \in Requests : AppDeletes(r)
            \/ UNCHANGED vars
  <2>1. UNCHANGED <<inSel, requested, remote, toServer, toClient>>
    BY <1>13 DEF Tick, AppCopies, AppConverts, AppPortion, AppPastes, AppDeletes,
                 incoming, net, vars
  <2> QED BY <1>5, <2>1 DEF RestLost
<1> QED BY <1>2, <1>6, <1>7, <1>8, <1>9, <1>10, <1>11, <1>12, <1>13
        DEF Next, SendingThread, Environment

(* The data the thread waits for (REQUESTED) are to be requested,          *)
(* requested or coming, until the first client leaves                      *)
(* (delay_selection_request, send_frame_thread), or their beginning is in  *)
(* the buffer and the rest of it was lost, as a chunk of the copy is       *)
(* larger than an event (readInputSelectionHeader, clientReadNotify).      *)
THEOREM RequestedCorrect == Spec => []RequestedIsAsked
<1>1. Init => InDemand
  <2>1. <<>> \in Seq({}) /\ Len(<<>>) = 0
    OBVIOUS
  <2> QED BY <2>1 DEF Init, Empty, InDemand, Uncopied, OnlyDemands
<1>2. Exchange /\ InDemand /\ [Next]_vars => InDemand'
  BY NextInDemand
<1>3. Exchange /\ InDemand => RequestedIsAsked
  <2> SUFFICES ASSUME Exchange, InDemand, FirstClient, NEW s \in Selections,
                      inSel[s].state = "REQUESTED"
               PROVE  \/ requested[s]
                      \/ \E i \in DOMAIN toClient :
                           toClient[i].type = "request" /\ toClient[i].sel = s
                      \/ \E i \in DOMAIN toServer :
                           toServer[i].type = "chunk" /\ toServer[i].sel = s
                      \/ RestLost(s)
    BY DEF RequestedIsAsked, FirstClient, RestLost
  <2>1. DOMAIN toClient = 1 .. Len(toClient) /\ DOMAIN toServer = 1 .. Len(toServer)
    BY SequenceParts DEF Exchange, Queues, Queue, Incoming, Stream
  <2> QED BY <2>1 DEF InDemand, Wanted, Listed
<1> QED BY <1>1, <1>2, <1>3, ExchangeCorrect, PTL DEF Spec

-----------------------------------------------------------------------------
(* Transfers to the client.  Where a transfer of selection s is open its   *)
(* state is the set of its source, otherwise it is empty.  With w "same"   *)
(* the chunks of a transfer have one source.                               *)

(* The state after message m.                                              *)
After(o, m, s) ==
  IF m.sel # s \/ m.type = "request" THEN o
  ELSE IF m.type = "notify" \/ m.last THEN {} ELSE {m.src}

(* A chunk in the middle finds its transfer open.                          *)
Allowed(o, m, s, w) ==
  m.type = "chunk" /\ m.sel = s /\ ~m.first =>
    o # {} /\ (w = "same" => o = {m.src})

(* f is the state before and after each message of q.                      *)
Follows(f, q, s, w) ==
  \A i \in 1 .. Len(q) : /\ f[i] = After(f[i - 1], q[i], s)
                         /\ Allowed(f[i - 1], q[i], s, w)

(* The messages of q take the transfer from state o to state x.            *)
Flow(q, s, o, x, w) ==
  \E f : f[0] = o /\ f[Len(q)] = x /\ Follows(f, q, s, w)

LEMMA FlowEmpty ==
  ASSUME NEW s, NEW o, NEW w
  PROVE  Flow(<<>>, s, o, o, w)
<1> DEFINE f == [i \in {0} |-> o] q == <<>>
<1>1. Len(q) = 0 /\ f[0] = o
  OBVIOUS
<1> HIDE DEF f, q
<1>2. Follows(f, q, s, w)
  BY <1>1 DEF Follows
<1>3. Flow(q, s, o, o, w)
  BY <1>1, <1>2 DEF Flow
<1> QED BY <1>3 DEF q

LEMMA FlowHead ==
  ASSUME NEW q, Sequence(q), q # <<>>, NEW s, NEW o, NEW x, NEW w, Flow(q, s, o, x, w)
  PROVE  Allowed(o, Head(q), s, w) /\ Flow(Tail(q), s, After(o, Head(q), s), x, w)
<1>1. PICK f : f[0] = o /\ f[Len(q)] = x /\ Follows(f, q, s, w)
  BY DEF Flow
<1>2. /\ Len(q) \in Nat \ {0} /\ Len(Tail(q)) = Len(q) - 1 /\ Head(q) = q[1]
      /\ \A i \in 1 .. Len(Tail(q)) : Tail(q)[i] = q[i + 1]
  BY SequenceParts, TailAny
<1> DEFINE n == Len(q) - 1 g == [i \in 0 .. n |-> f[i + 1]]
<1>3. 1 \in 1 .. Len(q) /\ 1 - 1 = 0
  BY <1>2
<1>4. f[1] = After(o, Head(q), s) /\ Allowed(o, Head(q), s, w)
  BY <1>1, <1>2, <1>3 DEF Follows
<1>5. /\ n \in Nat /\ n + 1 = Len(q) /\ \A i \in 0 .. n : g[i] = f[i + 1]
      /\ 0 \in 0 .. n /\ n \in 0 .. n
  BY <1>2
<1> HIDE DEF g
<1>6. ASSUME NEW i \in 1 .. n
      PROVE  /\ g[i] = After(g[i - 1], Tail(q)[i], s)
             /\ Allowed(g[i - 1], Tail(q)[i], s, w)
  <2>1. i + 1 \in 1 .. Len(q) /\ (i + 1) - 1 = i /\ i - 1 \in 0 .. n /\ (i - 1) + 1 = i
        /\ i \in 0 .. n
    BY <1>5
  <2>2. f[i + 1] = After(f[i], q[i + 1], s) /\ Allowed(f[i], q[i + 1], s, w)
    BY <1>1, <2>1 DEF Follows
  <2>3. g[i - 1] = f[i] /\ g[i] = f[i + 1] /\ Tail(q)[i] = q[i + 1]
    BY <1>2, <1>5, <2>1
  <2> QED BY <2>2, <2>3
<1>7. Follows(g, Tail(q), s, w)
  BY <1>2, <1>6 DEF Follows
<1>8. g[0] = f[1] /\ g[Len(Tail(q))] = x
  BY <1>1, <1>2, <1>5
<1> HIDE DEF n
<1>9. \E h : h[0] = f[1] /\ h[Len(Tail(q))] = x /\ Follows(h, Tail(q), s, w)
  BY <1>7, <1>8
<1> QED BY <1>4, <1>9 DEF Flow

LEMMA FlowConcat ==
  ASSUME NEW q, Sequence(q), NEW p, Sequence(p), NEW s, NEW o, NEW x, NEW y, NEW w,
         Flow(q, s, o, x, w), Flow(p, s, x, y, w)
  PROVE  Flow(q \o p, s, o, y, w)
<1>1. PICK f : f[0] = o /\ f[Len(q)] = x /\ Follows(f, q, s, w)
  BY DEF Flow
<1>2. PICK g : g[0] = x /\ g[Len(p)] = y /\ Follows(g, p, s, w)
  BY DEF Flow
<1> DEFINE l == Len(q) n == Len(p) r == q \o p
           h == [i \in 0 .. l + n |-> IF i <= l THEN f[i] ELSE g[i - l]]
<1>3. /\ l \in Nat /\ n \in Nat /\ Len(r) = l + n
      /\ \A i \in 1 .. l + n : r[i] = IF i <= l THEN q[i] ELSE p[i - l]
  BY SequenceParts, ConcatAny
<1>4. \A i \in 0 .. l + n : h[i] = IF i <= l THEN f[i] ELSE g[i - l]
  OBVIOUS
<1> HIDE DEF h, r
<1>5. ASSUME NEW i \in 1 .. l + n
      PROVE  h[i] = After(h[i - 1], r[i], s) /\ Allowed(h[i - 1], r[i], s, w)
  <2>1. CASE i <= l
    <3>1. i \in 0 .. l + n /\ i - 1 \in 0 .. l + n /\ i - 1 <= l /\ i \in 1 .. l
      BY <1>3, <2>1
    <3>2. h[i] = f[i] /\ h[i - 1] = f[i - 1] /\ r[i] = q[i]
      BY <1>3, <1>4, <2>1, <3>1
    <3> QED BY <1>1, <3>1, <3>2 DEF Follows
  <2>2. CASE ~(i <= l)
    <3>1. i \in 0 .. l + n /\ i - 1 \in 0 .. l + n /\ i - l \in 1 .. n
      BY <1>3, <2>2
    <3>2. h[i] = g[i - l] /\ r[i] = p[i - l]
      BY <1>3, <1>4, <2>2, <3>1
    <3>3. h[i - 1] = g[(i - l) - 1]
      <4>1. CASE i - 1 = l
        <5>1. h[i - 1] = f[l] /\ (i - l) - 1 = 0
          BY <1>3, <1>4, <3>1, <4>1
        <5> QED BY <1>1, <1>2, <5>1
      <4>2. CASE i - 1 # l
        <5>1. ~(i - 1 <= l) /\ (i - 1) - l = (i - l) - 1
          BY <1>3, <2>2, <4>2
        <5> QED BY <1>4, <3>1, <5>1
      <4> QED BY <4>1, <4>2
    <3> QED BY <1>2, <3>1, <3>2, <3>3 DEF Follows
  <2> QED BY <2>1, <2>2
<1>6. Follows(h, r, s, w)
  BY <1>3, <1>5 DEF Follows
<1>7. h[0] = o /\ h[Len(r)] = y
  <2>1. 0 \in 0 .. l + n /\ 0 <= l /\ l + n \in 0 .. l + n /\ (n = 0 \/ ~(l + n <= l))
        /\ (l + n) - l = n
    BY <1>3
  <2>2. n = 0 => x = y
    BY <1>2
  <2> QED BY <1>1, <1>2, <1>3, <1>4, <2>1, <2>2
<1> QED BY <1>6, <1>7 DEF Flow, r

LEMMA FlowAppend ==
  ASSUME NEW q, Sequence(q), NEW m, NEW s, NEW o, NEW x, NEW w,
         Flow(q, s, o, x, w), Allowed(x, m, s, w)
  PROVE  Flow(Append(q, m), s, o, After(x, m, s), w)
<1>1. PICK f : f[0] = o /\ f[Len(q)] = x /\ Follows(f, q, s, w)
  BY DEF Flow
<1> DEFINE l == Len(q) y == After(x, m, s) r == Append(q, m)
           h == [i \in 0 .. l + 1 |-> IF i <= l THEN f[i] ELSE y]
<1>2. /\ l \in Nat /\ Len(r) = l + 1 /\ r[l + 1] = m
      /\ \A i \in 1 .. l : r[i] = q[i]
  BY SequenceParts, AppendAny
<1>3. \A i \in 0 .. l + 1 : h[i] = IF i <= l THEN f[i] ELSE y
  OBVIOUS
<1> HIDE DEF h, r, y
<1>4. ASSUME NEW i \in 1 .. l + 1
      PROVE  h[i] = After(h[i - 1], r[i], s) /\ Allowed(h[i - 1], r[i], s, w)
  <2>1. CASE i <= l
    <3>1. i \in 0 .. l + 1 /\ i - 1 \in 0 .. l + 1 /\ i - 1 <= l /\ i \in 1 .. l
      BY <1>2, <2>1
    <3>2. h[i] = f[i] /\ h[i - 1] = f[i - 1] /\ r[i] = q[i]
      BY <1>2, <1>3, <2>1, <3>1
    <3> QED BY <1>1, <3>1, <3>2 DEF Follows
  <2>2. CASE ~(i <= l)
    <3>1. i = l + 1 /\ i \in 0 .. l + 1 /\ l \in 0 .. l + 1 /\ i - 1 = l /\ l <= l
      BY <1>2, <2>2
    <3>2. h[i] = y /\ h[i - 1] = x /\ r[i] = m
      BY <1>1, <1>2, <1>3, <2>2, <3>1
    <3> QED BY <3>2 DEF y
  <2> QED BY <2>1, <2>2
<1>5. Follows(h, r, s, w)
  BY <1>2, <1>4 DEF Follows
<1>6. h[0] = o /\ h[Len(r)] = y
  <2>1. 0 \in 0 .. l + 1 /\ 0 <= l /\ l + 1 \in 0 .. l + 1 /\ ~(l + 1 <= l)
    BY <1>2
  <2> QED BY <1>1, <1>2, <1>3, <2>1
<1> QED BY <1>5, <1>6 DEF Flow, r, y

(* The chunks of a property: read as a whole they are a transfer, read     *)
(* incrementally they go on with one, or begin it.                         *)
LEMMA ChunksFlow ==
  ASSUME NEW v, v.size \in Nat, NEW t, NEW rd, NEW incremental, NEW s, NEW y, NEW w,
         incremental /\ t = s /\ rd.read # 0 => y # {} /\ (w = "same" => y = {v.src})
  PROVE  LET q == ChunksOf(v, t, rd, incremental)
         IN  Sequence(q) /\ Flow(q, s, y, IF t # s THEN y
                                          ELSE IF incremental /\ v.size # 0 THEN {v.src}
                                          ELSE {}, w)
<1> DEFINE q == ChunksOf(v, t, rd, incremental) n == ChunkCount(v)
           x == IF t # s THEN y ELSE IF incremental /\ v.size # 0 THEN {v.src} ELSE {}
<1>1. n \in Nat \ {0} /\ (v.size = 0 => n = 1)
  BY ChunkCounts
<1>2. /\ Sequence(q) /\ Len(q) = n
      /\ \A i \in 1 .. n :
           /\ q[i].type = "chunk" /\ q[i].sel = t /\ q[i].src = v.src
           /\ incremental => /\ q[i].first <=> i = 1 /\ rd.read = 0
                             /\ q[i].last <=> v.size = 0
           /\ ~incremental => /\ q[i].first <=> i = 1
                              /\ q[i].last <=> i = n
  BY ChunksParts DEF FirstChunk, Ends
<1> HIDE DEF q, n
<1>3. CASE t # s
  <2> DEFINE f == [i \in 0 .. n |-> y]
  <2>1. \A i \in 0 .. n : f[i] = y
    OBVIOUS
  <2> HIDE DEF f
  <2>2. \A i \in 1 .. n : i \in 0 .. n /\ i - 1 \in 0 .. n
    BY <1>1
  <2>3. Follows(f, q, s, w)
    BY <1>2, <1>3, <2>1, <2>2 DEF Follows, After, Allowed
  <2>4. f[0] = y /\ f[Len(q)] = y
    BY <1>1, <1>2, <2>1
  <2>5. Flow(q, s, y, y, w)
    BY <2>3, <2>4 DEF Flow
  <2> QED BY <1>2, <1>3, <2>5 DEF q
<1>4. CASE t = s
  <2> DEFINE f == [i \in 0 .. n |-> IF i = 0 THEN y
                                    ELSE IF incremental THEN IF v.size = 0 THEN {} ELSE {v.src}
                                    ELSE IF i = n THEN {} ELSE {v.src}]
  <2>1. \A i \in 0 .. n : f[i] = IF i = 0 THEN y
                                 ELSE IF incremental THEN IF v.size = 0 THEN {} ELSE {v.src}
                                 ELSE IF i = n THEN {} ELSE {v.src}
    OBVIOUS
  <2> HIDE DEF f
  <2>2. ASSUME NEW i \in 1 .. n
        PROVE  f[i] = After(f[i - 1], q[i], s) /\ Allowed(f[i - 1], q[i], s, w)
    <3>1. i \in 0 .. n /\ i - 1 \in 0 .. n /\ i # 0 /\ (i - 1 = 0 <=> i = 1) /\ i - 1 # n
      BY <1>1
    <3>2. f[i] = IF q[i].last THEN {} ELSE {v.src}
      BY <1>2, <2>1, <3>1
    <3>3. f[i] = After(f[i - 1], q[i], s)
      BY <1>2, <1>4, <3>2 DEF After
    <3>4. CASE i = 1
      <4>1. f[i - 1] = y
        BY <2>1, <3>1, <3>4
      <4> QED BY <1>2, <1>4, <3>3, <3>4, <4>1 DEF Allowed
    <3>5. CASE i # 1
      <4>1. v.size # 0
        BY <1>1, <3>5
      <4>2. f[i - 1] = {v.src}
        BY <2>1, <3>1, <3>5, <4>1
      <4> QED BY <1>2, <3>3, <4>2 DEF Allowed
    <3> QED BY <3>4, <3>5
  <2>3. Follows(f, q, s, w)
    BY <1>2, <2>2 DEF Follows
  <2>4. f[0] = y /\ f[Len(q)] = x
    <3>1. 0 \in 0 .. n /\ n \in 0 .. n /\ n # 0
      BY <1>1
    <3> QED BY <1>2, <1>4, <2>1, <3>1
  <2> HIDE DEF x
  <2>5. Flow(q, s, y, x, w)
    BY <2>3, <2>4 DEF Flow
  <2> QED BY <1>2, <1>4, <2>5 DEF q, x
<1> QED BY <1>3, <1>4

-----------------------------------------------------------------------------
(* Conversions of data, while none overlapped another.                     *)

DataReply(e) == e.type = "reply" /\ e.arg \in Kinds

DataAsked(t, i) == i \in 1 .. Len(apps[t].conv) /\ apps[t].conv[i].target \in Kinds

DataReplied(i) == i \in 1 .. Len(xq) /\ DataReply(xq[i])

ReplyInHand == spc # "wait" /\ DataReply(ev)

(* No application but that of t sends data of kind a in portions.          *)
Alone(t, a) == \A u \in Selections : u # t => apps[u].sending.kind # a

NoConversion ==
  /\ \A t \in Selections : \A i : ~DataAsked(t, i)
  /\ \A i : ~DataReplied(i)
  /\ ~ReplyInHand

OneConversion ==
  /\ \A t, u \in Selections : \A i, j : DataAsked(t, i) /\ DataAsked(u, j) => t = u /\ i = j
  /\ \A i, j : DataReplied(i) /\ DataReplied(j) => i = j
  /\ \A t \in Selections : \A i, j : ~(DataAsked(t, i) /\ DataReplied(j))
  /\ \A t \in Selections : \A i : ~(DataAsked(t, i) /\ ReplyInHand)
  /\ \A i : ~(DataReplied(i) /\ ReplyInHand)

ConvertsAlone ==
  /\ \A t \in Selections : \A i : DataAsked(t, i) => Alone(t, apps[t].conv[i].target)
  /\ \A i : DataReplied(i) => Alone(xq[i].sel, xq[i].arg)
  /\ ReplyInHand => Alone(ev.sel, ev.arg)

ReadsAlone ==
  reading.atom # None => NoConversion /\ Alone(reading.current, reading.atom)

Separate == OneConversion /\ ConvertsAlone /\ ReadsAlone

(* Nothing is converted that was not, and nothing else is read.            *)
LEMMA FewerConversions ==
  ASSUME Separate, IsReading(reading'),
         \A t \in Selections :
           /\ \A i : DataAsked(t, i)' =>
                DataAsked(t, i) /\ apps'[t].conv[i].target = apps[t].conv[i].target
           /\ apps'[t].sending.kind \in Kinds => apps'[t].sending.kind = apps[t].sending.kind,
         \A i : DataReplied(i)' => DataReplied(i) /\ xq'[i] = xq[i],
         ReplyInHand' => ReplyInHand /\ ev' = ev,
         reading'.atom # None =>
           reading'.atom = reading.atom /\ reading'.current = reading.current
  PROVE  Separate'
<1>1. OneConversion'
  <2>1. /\ \A t, u \in Selections : \A i, j :
             DataAsked(t, i)' /\ DataAsked(u, j)' => t = u /\ i = j
        /\ \A i, j : DataReplied(i)' /\ DataReplied(j)' => i = j
        /\ \A t \in Selections : \A i, j : ~(DataAsked(t, i)' /\ DataReplied(j)')
    BY DEF Separate, OneConversion
  <2>2. /\ \A t \in Selections : \A i : ~(DataAsked(t, i)' /\ ReplyInHand')
        /\ \A i : ~(DataReplied(i)' /\ ReplyInHand')
    BY DEF Separate, OneConversion
  <2> QED BY <2>1, <2>2 DEF OneConversion
<1>2. ASSUME NEW t, NEW a \in Kinds, Alone(t, a) PROVE Alone(t, a)'
  BY <1>2 DEF Alone
<1>3. ConvertsAlone'
  <2>1. ASSUME NEW t \in Selections, NEW i, DataAsked(t, i)'
        PROVE  Alone(t, apps[t].conv[i].target)'
    <3>1. apps'[t].conv[i].target \in Kinds /\ Alone(t, apps'[t].conv[i].target)
      BY <2>1 DEF Separate, ConvertsAlone, DataAsked
    <3> QED BY <3>1 DEF Alone
  <2>2. ASSUME NEW i, DataReplied(i)' PROVE Alone(xq[i].sel, xq[i].arg)'
    <3>1. xq'[i].arg \in Kinds /\ Alone(xq'[i].sel, xq'[i].arg)
      BY <2>2 DEF Separate, ConvertsAlone, DataReplied, DataReply
    <3> QED BY <3>1 DEF Alone
  <2>3. ASSUME ReplyInHand' PROVE Alone(ev.sel, ev.arg)'
    <3>1. ev'.arg \in Kinds /\ Alone(ev'.sel, ev'.arg)
      BY <2>3 DEF Separate, ConvertsAlone, ReplyInHand, DataReply
    <3> QED BY <3>1 DEF Alone
  <2> QED BY <2>1, <2>2, <2>3 DEF ConvertsAlone
<1>4. ReadsAlone'
  <2> SUFFICES ASSUME reading'.atom # None
               PROVE  NoConversion' /\ Alone(reading.current, reading.atom)'
    BY DEF ReadsAlone
  <2>1. NoConversion /\ Alone(reading'.current, reading'.atom) /\ reading'.atom \in Kinds
    BY DEF Separate, ReadsAlone, IsReading
  <2>2. NoConversion'
    BY <2>1 DEF NoConversion
  <2>3. Alone(reading.current, reading.atom)'
    BY <2>1 DEF Alone
  <2> QED BY <2>2, <2>3
<1> QED BY <1>1, <1>3, <1>4 DEF Separate

(* What request_selection_data adds.                                       *)
LEMMA ConvertsAdds ==
  ASSUME Shape, AppsTyped, NEW s \in Selections, NEW a \in Atoms, NEW p, NEW rd,
         Converts(s, a, p, rd)
  PROVE  /\ \A t \in Selections : \A i : DataAsked(t, i)' =>
              \/ DataAsked(t, i) /\ apps'[t].conv[i] = apps[t].conv[i]
              \/ t = s /\ i = Len(apps[s].conv) + 1 /\ apps'[t].conv[i].target = a
         /\ \A i : DataReplied(i)' => DataReplied(i) /\ xq'[i] = xq[i]
<1>1. /\ Sequence(xq) /\ Len(xq) \in Nat
      /\ Sequence(apps[s].conv) /\ Len(apps[s].conv) \in Nat
  BY SequenceParts DEF Shape, AppsTyped, IsApp
<1>2. CASE xowner[s] = "app"
  <2> DEFINE r == [target |-> a, copy |-> apps[s].copy] q == Append(apps[s].conv, r)
             b == [apps[s] EXCEPT !.conv = q]
  <2>1. apps' = [apps EXCEPT ![s] = b] /\ UNCHANGED xq
    BY <1>2 DEF Converts
  <2>2. apps'[s].conv = q /\ \A t \in Selections : t # s => apps'[t] = apps[t]
    BY <2>1 DEF AppsTyped, IsApp
  <2>3. r.target = a
    OBVIOUS
  <2> HIDE DEF r
  <2>4. /\ Len(q) = Len(apps[s].conv) + 1 /\ q[Len(apps[s].conv) + 1] = r
        /\ \A i \in 1 .. Len(apps[s].conv) : q[i] = apps[s].conv[i]
    BY <1>1, AppendAny
  <2> HIDE DEF q, b
  <2>5. ASSUME NEW t \in Selections, NEW i, DataAsked(t, i)', t = s
        PROVE  \/ DataAsked(t, i) /\ apps'[t].conv[i] = apps[t].conv[i]
               \/ i = Len(apps[s].conv) + 1 /\ apps'[t].conv[i].target = a
    <3>1. i \in 1 .. Len(apps[s].conv) \/ i = Len(apps[s].conv) + 1
      BY <1>1, <2>2, <2>4, <2>5 DEF DataAsked
    <3> QED BY <2>2, <2>3, <2>4, <2>5, <3>1 DEF DataAsked
  <2>6. \A t \in Selections : \A i :
          t # s /\ DataAsked(t, i)' => DataAsked(t, i) /\ apps'[t].conv[i] = apps[t].conv[i]
    BY <2>2 DEF DataAsked
  <2>7. \A i : DataReplied(i)' => DataReplied(i) /\ xq'[i] = xq[i]
    BY <2>1 DEF DataReplied
  <2> QED BY <2>5, <2>6, <2>7
<1>3. CASE xowner[s] # "app"
  <2> DEFINE e == Event("reply", s, None)
  <2>1. xq' = Append(xq, e) /\ UNCHANGED apps
    BY <1>3 DEF Converts
  <2>2. ~DataReply(e)
    BY EventParts, KindsAssumption DEF DataReply
  <2> HIDE DEF e
  <2>3. /\ Len(xq') = Len(xq) + 1 /\ xq'[Len(xq) + 1] = e
        /\ \A i \in 1 .. Len(xq) : xq'[i] = xq[i]
    BY <1>1, <2>1, AppendAny
  <2>4. \A i \in 1 .. Len(xq') : i \in 1 .. Len(xq) \/ i = Len(xq) + 1
    BY <1>1, <2>3
  <2>5. \A i : DataReplied(i)' => DataReplied(i) /\ xq'[i] = xq[i]
    BY <2>2, <2>3, <2>4 DEF DataReplied
  <2>6. \A t \in Selections : \A i :
          DataAsked(t, i)' => DataAsked(t, i) /\ apps'[t].conv[i] = apps[t].conv[i]
    BY <2>1 DEF DataAsked
  <2> QED BY <2>5, <2>6
<1> QED BY <1>2, <1>3

(* A request_selection_data that overlaps with nothing.                    *)
LEMMA NewConversion ==
  ASSUME Shape, AppsTyped, EventsKnown, NEW s \in Selections, NEW a \in Kinds,
         NEW p, PropTyped(p), PropTyped(prop), NEW rd, IsReading(rd), UNCHANGED xowner,
         Converts(s, a, p, rd), ~Overlaps(s, a, rd), spc' = "wait"
  PROVE  Separate' /\ rd.atom = None
<1>1. a \in Atoms /\ rd.atom = None
  BY DEF Overlaps, Atoms
<1>2. /\ reading'.atom = None
      /\ \A t \in Selections : apps'[t].sending = apps[t].sending
  BY <1>1, ConvertsTyped
<1>3. /\ DOMAIN xq = 1 .. Len(xq)
      /\ \A t \in Selections : DOMAIN apps[t].conv = 1 .. Len(apps[t].conv)
  BY SequenceParts DEF Shape, AppsTyped, IsApp
<1>4. \A t \in Selections, b \in Kinds : ~Converting(t, b)
  BY DEF Overlaps, PropTyped, Atoms
<1>5. /\ \A t \in Selections : \A i : ~DataAsked(t, i)
      /\ \A i : ~DataReplied(i)
  BY <1>3, <1>4 DEF Converting, DataAsked, DataReplied, DataReply, EventsKnown, Known
<1>6. Alone(s, a)'
  BY <1>2 DEF Overlaps, Alone
<1>7. ~ReplyInHand' /\ ReadsAlone'
  BY <1>2 DEF ReplyInHand, ReadsAlone
<1>8. /\ \A t \in Selections : \A i : DataAsked(t, i)' =>
           t = s /\ i = Len(apps[s].conv) + 1 /\ apps'[t].conv[i].target = a
      /\ \A i : ~DataReplied(i)'
  BY <1>1, <1>5, ConvertsAdds
<1>9. OneConversion'
  BY <1>7, <1>8 DEF OneConversion
<1>10. ASSUME NEW t \in Selections, NEW i, DataAsked(t, i)'
       PROVE  Alone(t, apps[t].conv[i].target)'
  BY <1>6, <1>8, <1>10 DEF Alone
<1>11. ConvertsAlone'
  BY <1>7, <1>8, <1>10 DEF ConvertsAlone
<1> QED BY <1>1, <1>7, <1>9, <1>11 DEF Separate

(* A request_selection_data of targets, and nothing is read any more.      *)
LEMMA NewTargets ==
  ASSUME Shape, AppsTyped, Separate, NEW s \in Selections, NEW p, PropTyped(p), NEW rd,
         IsReading(rd), rd.atom = None, UNCHANGED xowner, Converts(s, "TARGETS", p, rd),
         spc' = "wait"
  PROVE  Separate'
<1>1. "TARGETS" \in Atoms /\ "TARGETS" \notin Kinds
  BY KindsAssumption DEF Atoms
<1>2. /\ reading'.atom = None /\ IsReading(reading')
      /\ \A t \in Selections : apps'[t].sending = apps[t].sending
  BY <1>1, ConvertsTyped
<1>3. /\ \A t \in Selections : \A i : DataAsked(t, i)' =>
           DataAsked(t, i) /\ apps'[t].conv[i].target = apps[t].conv[i].target
      /\ \A i : DataReplied(i)' => DataReplied(i) /\ xq'[i] = xq[i]
  BY <1>1, ConvertsAdds DEF DataAsked
<1>4. ~ReplyInHand'
  BY DEF ReplyInHand
<1> QED BY <1>2, <1>3, <1>4, FewerConversions

LEMMA WakeSeparate == ASSUME Shape, Separate, Wake PROVE Separate'
<1>1. /\ ev' = Head(xq) /\ xq' = Tail(xq) /\ xq # <<>> /\ spc = "wait"
      /\ UNCHANGED <<apps, reading>> /\ Sequence(xq)
  BY DEF Wake, Shape, xserver, outgoing
<1>2. /\ ev' = xq[1] /\ Len(xq) \in Nat \ {0} /\ Len(xq') = Len(xq) - 1
      /\ \A i \in 1 .. Len(xq') : xq'[i] = xq[i + 1]
  BY <1>1, SequenceParts, TailAny
<1>3. \A t \in Selections : \A i :
        DataAsked(t, i)' => DataAsked(t, i) /\ apps'[t].conv[i] = apps[t].conv[i]
  BY <1>1 DEF DataAsked
<1>4. ASSUME NEW i, DataReplied(i)'
      PROVE  i \in Int /\ DataReplied(i + 1) /\ i + 1 # 1 /\ xq'[i] = xq[i + 1]
  <2>1. i \in 1 .. Len(xq')
    BY <1>4 DEF DataReplied
  <2>2. i \in Int /\ i + 1 \in 1 .. Len(xq) /\ i + 1 # 1
    BY <1>2, <2>1
  <2> QED BY <1>2, <1>4, <2>1, <2>2 DEF DataReplied
<1>5. ReplyInHand' => DataReplied(1)
  BY <1>2 DEF ReplyInHand, DataReplied
<1>6. OneConversion'
  <2>1. \A i, j : DataReplied(i)' /\ DataReplied(j)' => i = j
    <3> SUFFICES ASSUME NEW i, NEW j, DataReplied(i)', DataReplied(j)' PROVE i = j
      OBVIOUS
    <3>1. i \in Int /\ j \in Int /\ DataReplied(i + 1) /\ DataReplied(j + 1)
      BY <1>4
    <3>2. i + 1 = j + 1
      BY <3>1 DEF Separate, OneConversion
    <3> QED BY <3>1, <3>2
  <2>2. \A i : ~(DataReplied(i)' /\ ReplyInHand')
    BY <1>4, <1>5 DEF Separate, OneConversion
  <2>3. \A t \in Selections : \A i, j : ~(DataAsked(t, i)' /\ DataReplied(j)')
    BY <1>3, <1>4 DEF Separate, OneConversion
  <2>4. /\ \A t \in Selections : \A i : ~(DataAsked(t, i)' /\ ReplyInHand')
        /\ \A t, u \in Selections : \A i, j :
             DataAsked(t, i)' /\ DataAsked(u, j)' => t = u /\ i = j
    BY <1>3, <1>5 DEF Separate, OneConversion
  <2> QED BY <2>1, <2>2, <2>3, <2>4 DEF OneConversion
<1>7. ConvertsAlone'
  <2>1. \A t \in Selections : \A i : DataAsked(t, i)' => Alone(t, apps[t].conv[i].target)'
    BY <1>1, <1>3 DEF Separate, ConvertsAlone, Alone
  <2>2. ASSUME NEW i, DataReplied(i)' PROVE Alone(xq[i].sel, xq[i].arg)'
    <3>1. Alone(xq[i + 1].sel, xq[i + 1].arg) /\ xq'[i] = xq[i + 1]
      BY <1>4, <2>2 DEF Separate, ConvertsAlone
    <3> QED BY <1>1, <3>1 DEF Alone
  <2>3. ReplyInHand' => Alone(ev.sel, ev.arg)'
    BY <1>1, <1>2, <1>5 DEF Separate, ConvertsAlone, Alone
  <2> QED BY <2>1, <2>2, <2>3 DEF ConvertsAlone
<1>8. ReadsAlone'
  <2>1. NoConversion => NoConversion'
    BY <1>3, <1>4, <1>5 DEF NoConversion
  <2>2. Alone(reading.current, reading.atom) => Alone(reading.current, reading.atom)'
    BY <1>1 DEF Alone
  <2> QED BY <1>1, <2>1, <2>2 DEF Separate, ReadsAlone
<1> QED BY <1>6, <1>7, <1>8 DEF Separate

LEMMA AppConvertsSeparate ==
  ASSUME Shape, Separate, AppsTyped, PropTyped(prop), IsReading(reading),
         NEW s \in Selections, AppConverts(s)
  PROVE  Separate'
<1> DEFINE a == Head(apps[s].conv).target
           e == Event("newvalue", None, a)
           f == Event("reply", s, a)
           g == Event("reply", s, None)
           z == <<e, f>>
<1>1. /\ apps[s].conv # <<>> /\ a \in Atoms
      /\ \A t \in Selections : t # s => apps'[t] = apps[t]
      /\ apps'[s].conv = Tail(apps[s].conv)
      /\ \/ apps'[s].sending = apps[s].sending
         \/ a \in Kinds /\ apps'[s].sending.kind = a
      /\ \/ xq' = xq \o z
         \/ xq' = Append(xq, g)
  BY AppConvertsTyped
<1>2. UNCHANGED <<reading, spc, ev>>
  BY DEF AppConverts, thread, outgoing
<1>3. /\ Sequence(xq) /\ Len(xq) \in Nat /\ Sequence(apps[s].conv)
      /\ Len(apps[s].conv) \in Nat \ {0} /\ Head(apps[s].conv) = apps[s].conv[1]
      /\ Len(Tail(apps[s].conv)) = Len(apps[s].conv) - 1
      /\ \A i \in 1 .. Len(Tail(apps[s].conv)) : Tail(apps[s].conv)[i] = apps[s].conv[i + 1]
  BY <1>1, SequenceParts, TailAny DEF Shape, AppsTyped, IsApp
<1>4. ~DataReply(e) /\ ~DataReply(g) /\ (DataReply(f) => a \in Kinds)
      /\ f.sel = s /\ f.arg = a
  BY EventParts, KindsAssumption DEF DataReply
<1>5. Sequence(z) /\ Len(z) = 2 /\ z[1] = e /\ z[2] = f
  <2>1. z \in Seq({e, f}) /\ Len(z) = 2 /\ z[1] = e /\ z[2] = f
    OBVIOUS
  <2> QED BY <2>1 DEF Sequence
<1>6. a \in Kinds => DataAsked(s, 1)
  BY <1>3 DEF DataAsked
<1>7. ASSUME NEW i, DataAsked(s, i)'
      PROVE  /\ i \in Int /\ i + 1 # 1 /\ DataAsked(s, i + 1)
             /\ apps'[s].conv[i].target = apps[s].conv[i + 1].target
  <2>1. i \in 1 .. Len(Tail(apps[s].conv))
    BY <1>1, <1>7 DEF DataAsked
  <2>2. i \in Int /\ i + 1 # 1 /\ i + 1 \in 1 .. Len(apps[s].conv)
    BY <1>3, <2>1
  <2> QED BY <1>1, <1>3, <1>7, <2>1, <2>2 DEF DataAsked
<1>8. \A t \in Selections : \A i :
        t # s /\ DataAsked(t, i)' => DataAsked(t, i) /\ apps'[t].conv[i] = apps[t].conv[i]
  BY <1>1 DEF DataAsked
<1> HIDE DEF a, e, f, g, z
<1>9. ASSUME NEW i, DataReplied(i)'
      PROVE  \/ DataReplied(i) /\ xq'[i] = xq[i]
             \/ i = Len(xq) + 2 /\ a \in Kinds /\ xq'[i] = f
  <2>1. CASE xq' = xq \o z
    <3>1. /\ Len(xq') = Len(xq) + 2
          /\ \A j \in 1 .. Len(xq) + 2 : xq'[j] = IF j <= Len(xq) THEN xq[j] ELSE z[j - Len(xq)]
      <4>1. /\ Len(xq \o z) = Len(xq) + Len(z)
            /\ \A j \in 1 .. Len(xq) + Len(z) :
                 (xq \o z)[j] = IF j <= Len(xq) THEN xq[j] ELSE z[j - Len(xq)]
        BY <1>3, <1>5, ConcatAny
      <4> QED BY <1>5, <2>1, <4>1
    <3>2. i \in 1 .. Len(xq) + 2
      BY <1>9, <3>1 DEF DataReplied
    <3>3. i \in 1 .. Len(xq) \/ i = Len(xq) + 1 \/ i = Len(xq) + 2
      BY <1>3, <3>2
    <3>4. CASE i \in 1 .. Len(xq)
      <4>1. xq'[i] = xq[i]
        BY <1>3, <3>1, <3>2, <3>4
      <4> QED BY <1>9, <3>4, <4>1 DEF DataReplied
    <3>5. CASE i = Len(xq) + 1
      <4>1. ~(i <= Len(xq)) /\ i - Len(xq) = 1
        BY <1>3, <3>5
      <4>2. xq'[i] = e
        BY <1>5, <3>1, <3>2, <4>1
      <4> QED BY <1>4, <1>9, <4>2 DEF DataReplied
    <3>6. CASE i = Len(xq) + 2
      <4>1. ~(i <= Len(xq)) /\ i - Len(xq) = 2
        BY <1>3, <3>6
      <4>2. xq'[i] = f
        BY <1>5, <3>1, <3>2, <4>1
      <4> QED BY <1>4, <1>9, <3>6, <4>2 DEF DataReplied
    <3> QED BY <3>3, <3>4, <3>5, <3>6
  <2>2. CASE xq' = Append(xq, g)
    <3>1. /\ Len(xq') = Len(xq) + 1 /\ xq'[Len(xq) + 1] = g
          /\ \A j \in 1 .. Len(xq) : xq'[j] = xq[j]
      BY <1>3, <2>2, AppendAny
    <3>2. i \in 1 .. Len(xq) \/ i = Len(xq) + 1
      BY <1>3, <1>9, <3>1 DEF DataReplied
    <3> QED BY <1>4, <1>9, <3>1, <3>2 DEF DataReplied
  <2> QED BY <1>1, <2>1, <2>2
<1>10. CASE a \in Kinds
  <2>1. /\ \A t \in Selections : \A i : ~DataAsked(t, i)'
        /\ \A i : ~DataReplied(i) /\ ~ReplyInHand
        /\ reading.atom = None
    <3>1. DataAsked(s, 1)
      BY <1>6, <1>10
    <3>2. \A t \in Selections : \A i : DataAsked(t, i) => t = s /\ i = 1
      BY <3>1 DEF Separate, OneConversion
    <3>3. \A t \in Selections : \A i : ~DataAsked(t, i)'
      BY <1>7, <1>8, <3>2
    <3> QED BY <3>1, <3>3 DEF Separate, OneConversion, ReadsAlone, NoConversion
  <2>2. Alone(s, a)
    <3>1. DataAsked(s, 1) /\ apps[s].conv[1].target = a
      BY <1>3, <1>6, <1>10 DEF a
    <3> QED BY <3>1 DEF Separate, ConvertsAlone
  <2>3. \A i : DataReplied(i)' => i = Len(xq) + 2 /\ xq'[i].sel = s /\ xq'[i].arg = a
    BY <1>4, <1>9, <2>1
  <2>4. ~ReplyInHand'
    BY <1>2, <2>1 DEF ReplyInHand
  <2>5. OneConversion'
    BY <2>1, <2>3, <2>4 DEF OneConversion
  <2>6. ASSUME NEW i, DataReplied(i)' PROVE Alone(xq[i].sel, xq[i].arg)'
    BY <1>1, <2>2, <2>3, <2>6 DEF Alone
  <2>7. ConvertsAlone' /\ ReadsAlone'
    BY <1>2, <2>1, <2>4, <2>6 DEF ConvertsAlone, ReadsAlone
  <2> QED BY <2>5, <2>7 DEF Separate
<1>11. CASE a \notin Kinds
  <2>1. \A t \in Selections : apps'[t].sending = apps[t].sending
    BY <1>1, <1>11
  <2>2. \A t, b : Alone(t, b) => Alone(t, b)'
    BY <2>1 DEF Alone
  <2>3. \A i : DataReplied(i)' => DataReplied(i) /\ xq'[i] = xq[i]
    BY <1>9, <1>11
  <2>4. ReplyInHand' <=> ReplyInHand
    BY <1>2 DEF ReplyInHand
  <2>5. \A t \in Selections : \A i : DataAsked(t, i)' =>
          \E j : /\ DataAsked(t, j) /\ apps'[t].conv[i].target = apps[t].conv[j].target
                 /\ t = s => i \in Int /\ j = i + 1
                 /\ t # s => j = i
    BY <1>7, <1>8
  <2>6. OneConversion'
    <3>1. ASSUME NEW t \in Selections, NEW u \in Selections, NEW i, NEW j,
                 DataAsked(t, i)', DataAsked(u, j)'
          PROVE  t = u /\ i = j
      <4>1. PICK k : /\ DataAsked(t, k) /\ (t = s => i \in Int /\ k = i + 1)
                     /\ (t # s => k = i)
        BY <2>5, <3>1
      <4>2. PICK l : /\ DataAsked(u, l) /\ (u = s => j \in Int /\ l = j + 1)
                     /\ (u # s => l = j)
        BY <2>5, <3>1
      <4>3. t = u /\ k = l
        BY <4>1, <4>2 DEF Separate, OneConversion
      <4> QED BY <4>1, <4>2, <4>3
    <3>2. /\ \A i, j : DataReplied(i)' /\ DataReplied(j)' => i = j
          /\ \A i : ~(DataReplied(i)' /\ ReplyInHand')
      BY <2>3, <2>4 DEF Separate, OneConversion
    <3>3. /\ \A t \in Selections : \A i, j : ~(DataAsked(t, i)' /\ DataReplied(j)')
          /\ \A t \in Selections : \A i : ~(DataAsked(t, i)' /\ ReplyInHand')
      BY <2>3, <2>4, <2>5 DEF Separate, OneConversion
    <3> QED BY <3>1, <3>2, <3>3 DEF OneConversion
  <2>7. ConvertsAlone'
    <3>1. ASSUME NEW t \in Selections, NEW i, DataAsked(t, i)'
          PROVE  Alone(t, apps[t].conv[i].target)'
      <4>1. Alone(t, apps'[t].conv[i].target)
        BY <2>5, <3>1 DEF Separate, ConvertsAlone
      <4> QED BY <2>1, <4>1 DEF Alone
    <3>2. ASSUME NEW i, DataReplied(i)' PROVE Alone(xq[i].sel, xq[i].arg)'
      BY <2>1, <2>3, <3>2 DEF Separate, ConvertsAlone, Alone
    <3>3. ReplyInHand' => Alone(ev.sel, ev.arg)'
      BY <1>2, <2>1, <2>4 DEF Separate, ConvertsAlone, Alone
    <3> QED BY <3>1, <3>2, <3>3 DEF ConvertsAlone
  <2>8. ReadsAlone'
    <3>1. NoConversion => NoConversion'
      BY <2>3, <2>4, <2>5 DEF NoConversion
    <3>2. Alone(reading.current, reading.atom) => Alone(reading.current, reading.atom)'
      BY <1>2, <2>1 DEF Alone
    <3> QED BY <1>2, <3>1, <3>2 DEF Separate, ReadsAlone
  <2> QED BY <2>6, <2>7, <2>8 DEF Separate
<1> QED BY <1>10, <1>11

(* The thread's part of the exchange.                                      *)
LEMMA ThreadSeparate ==
  ASSUME Shape, Exchanged, Queue(chunks), Separate, ~reading'.mixed,
         OwnerChanged \/ DataDemanded \/ ConversionDone \/ PropertyChanged
  PROVE  Separate'
<1>1. /\ PropTyped(prop) /\ AppsTyped /\ BestTyped /\ IsReading(reading)
      /\ EventsKnown /\ spc = "handle" /\ spc' = "wait" /\ Known(ev)
      /\ UNCHANGED <<ev, xowner>> /\ IsReading(reading')
  <2>1. Exchanged'
    BY ThreadExchanged
  <2> QED BY <2>1 DEF Exchanged, EventsKnown, OwnerChanged, DataDemanded, ConversionDone,
                      PropertyChanged, Handles
<1>2. ~ReplyInHand'
  BY <1>1 DEF ReplyInHand
<1>3. ASSUME UNCHANGED <<apps, xq>>,
             reading'.atom # None =>
               reading'.atom = reading.atom /\ reading'.current = reading.current
      PROVE  Separate'
  <2>1. /\ \A t \in Selections : \A i : DataAsked(t, i)' =>
             DataAsked(t, i) /\ apps'[t].conv[i].target = apps[t].conv[i].target
        /\ \A i : DataReplied(i)' => DataReplied(i) /\ xq'[i] = xq[i]
    BY <1>3 DEF DataAsked, DataReplied
  <2> QED BY <1>1, <1>2, <1>3, <2>1, FewerConversions
<1>4. CASE OwnerChanged
  <2> DEFINE y == StopReading(reading, ev.sel)
  <2>1. ev.sel \in Selections
    BY <1>1, <1>4 DEF OwnerChanged, Handles, Known
  <2>2. CASE UNCHANGED <<reading, prop, apps, xq>>
    BY <1>3, <2>2
  <2>3. CASE Converts(ev.sel, "TARGETS", prop, y)
    <3>1. IsReading(y) /\ y.atom = None
      BY <1>1, <2>1, Stopped
    <3> HIDE DEF y
    <3> QED BY <1>1, <2>1, <2>3, <3>1, NewTargets
  <2> QED BY <1>4, <2>2, <2>3 DEF OwnerChanged
<1>5. CASE DataDemanded
  <2>1. ev.sel \in Selections
    BY <1>1, <1>5 DEF DataDemanded, Handles, Known
  <2>2. CASE UNCHANGED <<reading, prop, apps, xq>>
    BY <1>3, <2>2
  <2>3. CASE best[ev.sel] # None /\ Converts(ev.sel, best[ev.sel], prop, reading)
    <3>1. best[ev.sel] \in Kinds /\ best[ev.sel] \in Atoms
      BY <1>1, <2>1, <2>3 DEF Atoms, BestTyped
    <3>2. ~Overlaps(ev.sel, best[ev.sel], reading)
      BY <1>1, <2>1, <2>3, <3>1, ConvertsTyped
    <3> QED BY <1>1, <2>1, <2>3, <3>1, <3>2, NewConversion
  <2> QED BY <1>5, <2>2, <2>3 DEF DataDemanded
<1>6. CASE ConversionDone
  <2> DEFINE s == ev.sel a == ev.arg y == StopReading(reading, s)
             z == [y EXCEPT !.current = s] v == prop[a]
  <2>1. s \in Selections /\ a \in Atoms \cup {None} /\ ev.type = "reply"
    BY <1>1, <1>6 DEF ConversionDone, Handles, Known
  <2>2. /\ IsReading(y) /\ IsReading(z) /\ z.current = s /\ y.atom = None
        /\ z.atom = None
    BY <1>1, <2>1, Stopped
  <2>3. CASE reading' = y /\ UNCHANGED <<prop, apps, xq>>
    BY <1>3, <2>2, <2>3
  <2>4. CASE a # None /\ ReadProperty(s, a, z)
    <3>1. a \in Atoms /\ IsValue(v, a)
      BY <1>1, <2>1, <2>4 DEF PropTyped
    <3>2. CASE v # None /\ v.type = "INCR"
      <4>1. /\ reading' = [z EXCEPT !.atom = a, !.read = 0] /\ UNCHANGED <<apps, xq>>
        BY <2>4, <3>2 DEF ReadProperty
      <4>2. a \in Kinds
        BY <3>1, <3>2 DEF IsValue, Atoms
      <4>3. reading'.atom = a /\ reading'.current = s
        BY <2>2, <4>1 DEF IsReading
      <4>4. ReplyInHand
        BY <1>1, <2>1, <4>2 DEF ReplyInHand, DataReply
      <4>5. Alone(s, a)
        BY <4>4 DEF Separate, ConvertsAlone
      <4>6. /\ \A t \in Selections : \A i : ~DataAsked(t, i)
            /\ \A i : ~DataReplied(i)
        BY <4>4 DEF Separate, OneConversion
      <4>7. /\ \A t \in Selections : \A i : ~DataAsked(t, i)'
            /\ \A i : ~DataReplied(i)'
        BY <4>1, <4>6 DEF DataAsked, DataReplied
      <4>8. Alone(reading.current, reading.atom)'
        BY <4>1, <4>3, <4>5 DEF Alone
      <4>9. NoConversion' /\ OneConversion' /\ ConvertsAlone'
        BY <1>2, <4>7 DEF NoConversion, OneConversion, ConvertsAlone
      <4> QED BY <4>8, <4>9 DEF Separate, ReadsAlone
    <3>3. CASE v # None /\ v.type = "TARGETS" /\ Converts(s, v.kind, [prop EXCEPT ![a] = None], z)
               /\ v.kind \in Kinds
      <4> DEFINE p == [prop EXCEPT ![a] = None] k == v.kind
      <4>1. PropTyped(p)
        BY <1>1, PropCleared
      <4>2. k \in Atoms /\ k \in Kinds /\ Converts(s, k, p, z)
        BY <3>3 DEF Atoms
      <4> HIDE DEF p, k, z, v
      <4>3. ~Overlaps(s, k, z)
        BY <1>1, <2>1, <2>2, <4>1, <4>2, ConvertsTyped
      <4> QED BY <1>1, <2>1, <2>2, <4>1, <4>2, <4>3, NewConversion
    <3>4. CASE reading' = z /\ UNCHANGED <<apps, xq>>
      BY <1>3, <2>2, <3>4
    <3>5. CASE v # None /\ v.type = "data"
      <4>1. z.atom # a
        BY <2>2, <2>4
      <4>2. reading' = z /\ UNCHANGED <<apps, xq>>
        BY <2>4, <3>5, <4>1 DEF ReadProperty
      <4> QED BY <3>4, <4>2
    <3> QED
      <4> HIDE DEF z
      <4> QED BY <2>4, <3>2, <3>3, <3>4, <3>5 DEF ReadProperty
  <2> QED BY <1>6, <2>3, <2>4 DEF ConversionDone
<1>7. CASE PropertyChanged
  <2> DEFINE a == ev.arg v == prop[a]
  <2>1. a \in Atoms
    BY <1>1, <1>7 DEF PropertyChanged, Handles, Known
  <2>2. CASE UNCHANGED <<reading, apps, xq>>
    BY <1>3, <2>2
  <2>3. CASE reading.atom = a /\ ReadProperty(reading.current, a, reading)
    <3>1. a \in Kinds /\ a # "TARGETS" /\ reading.current \in Selections
      BY <1>1, <2>1, <2>3, KindsAssumption DEF IsReading, Atoms
    <3>2. v # None => v.type # "TARGETS"
      BY <1>1, <2>1, <3>1 DEF PropTyped, IsValue
    <3>3. UNCHANGED <<apps, xq>>
      BY <2>3, <3>2 DEF ReadProperty
    <3>4. \/ reading' = reading
          \/ reading' = [reading EXCEPT !.atom = a, !.read = 0]
          \/ reading' = StopReading(reading, reading.current)
          \/ reading' = [reading EXCEPT !.read = @ + v.size]
      BY <2>3, <3>2 DEF ReadProperty
    <3>5. reading'.atom # None =>
            reading'.atom = reading.atom /\ reading'.current = reading.current
      <4>1. StopReading(reading, reading.current).atom = None
        BY <1>1, <3>1, Stopped
      <4>2. DOMAIN reading = {"atom", "read", "current", "mixed"}
        BY <1>1 DEF IsReading
      <4> QED BY <2>3, <3>4, <4>1, <4>2
    <3> QED BY <1>3, <3>3, <3>5
  <2> QED BY <1>7, <2>2, <2>3 DEF PropertyChanged
<1> QED BY <1>4, <1>5, <1>6, <1>7

(* Once mixed, always mixed.                                               *)
LEMMA ReadPropertyMixed ==
  ASSUME Shape, PropTyped(prop), AppsTyped, UNCHANGED xowner,
         NEW s \in Selections, NEW a \in Atoms, NEW rd, IsReading(rd),
         ReadProperty(s, a, rd), ~reading'.mixed
  PROVE  ~rd.mixed
<1> DEFINE v == prop[a]
<1>1. CASE v # None /\ v.type = "TARGETS" /\ v.kind \in Kinds /\ s \notin Skipped /\ ~onDemand
  <2> DEFINE p == [prop EXCEPT ![a] = None] k == v.kind
  <2>1. PropTyped(p)
    BY PropCleared
  <2>2. k \in Atoms /\ Converts(s, k, p, rd)
    BY <1>1 DEF Atoms, ReadProperty
  <2> HIDE DEF p, k, v
  <2> QED BY <2>1, <2>2, ConvertsTyped
<1>2. CASE \/ reading' = rd
           \/ reading' = [rd EXCEPT !.atom = a, !.read = 0]
           \/ reading' = StopReading(rd, s)
           \/ reading' = [rd EXCEPT !.read = @ + v.size]
  <2>1. StopReading(rd, s).mixed = FALSE => ~rd.mixed
    BY Stopped
  <2>2. DOMAIN rd = {"atom", "read", "current", "mixed"}
    BY DEF IsReading
  <2>3. CASE reading' = StopReading(rd, s)
    BY <2>3, Stopped
  <2> QED BY <1>2, <2>2, <2>3
<1> QED BY <1>1, <1>2 DEF ReadProperty

LEMMA MixedStays ==
  ASSUME Shape, Exchanged, Queue(chunks), [Next]_vars, ~reading'.mixed
  PROVE  ~reading.mixed
<1>1. /\ PropTyped(prop) /\ AppsTyped /\ BestTyped /\ IsReading(reading)
      /\ (spc # "wait" => Known(ev))
  BY DEF Exchanged, EventsKnown
<1>2. CASE OwnerChanged
  <2> DEFINE y == StopReading(reading, ev.sel)
  <2>1. ev.sel \in Selections /\ UNCHANGED xowner
    BY <1>1, <1>2 DEF OwnerChanged, Handles, Known
  <2>2. CASE Converts(ev.sel, "TARGETS", prop, y)
    <3>1. IsReading(y) /\ (~y.mixed => ~reading.mixed) /\ "TARGETS" \in Atoms
      BY <1>1, <2>1, Stopped DEF Atoms
    <3> HIDE DEF y
    <3>2. ~y.mixed
      BY <1>1, <2>1, <2>2, <3>1, ConvertsTyped
    <3> QED BY <3>1, <3>2
  <2> QED BY <1>2, <2>2 DEF OwnerChanged
<1>3. CASE DataDemanded
  <2>1. ev.sel \in Selections /\ UNCHANGED xowner
    BY <1>1, <1>3 DEF DataDemanded, Handles, Known
  <2>2. CASE best[ev.sel] # None /\ Converts(ev.sel, best[ev.sel], prop, reading)
    <3>1. best[ev.sel] \in Atoms
      BY <1>1, <2>1, <2>2 DEF Atoms, BestTyped
    <3> QED BY <1>1, <2>1, <2>2, <3>1, ConvertsTyped
  <2> QED BY <1>3, <2>2 DEF DataDemanded
<1>4. CASE ConversionDone
  <2> DEFINE y == StopReading(reading, ev.sel) z == [y EXCEPT !.current = ev.sel]
  <2>1. ev.sel \in Selections /\ ev.arg \in Atoms \cup {None} /\ UNCHANGED xowner
    BY <1>1, <1>4 DEF ConversionDone, Handles, Known
  <2>2. IsReading(z) /\ (~y.mixed => ~reading.mixed) /\ (~z.mixed => ~reading.mixed)
    BY <1>1, <2>1, Stopped
  <2>3. reading' = y \/ (ev.arg # None /\ ReadProperty(ev.sel, ev.arg, z))
    BY <1>4 DEF ConversionDone
  <2> HIDE DEF y, z
  <2>4. CASE ev.arg # None /\ ReadProperty(ev.sel, ev.arg, z)
    <3>1. ev.arg \in Atoms
      BY <2>1, <2>4
    <3>2. ~z.mixed
      BY <1>1, <2>1, <2>2, <2>4, <3>1, ReadPropertyMixed
    <3> QED BY <2>2, <3>2
  <2> QED BY <2>2, <2>3, <2>4
<1>5. CASE PropertyChanged
  <2>1. ev.arg \in Atoms /\ UNCHANGED xowner
    BY <1>1, <1>5 DEF PropertyChanged, Handles, Known
  <2>2. CASE reading.atom = ev.arg /\ ReadProperty(reading.current, ev.arg, reading)
    <3>1. reading.current \in Selections
      BY <1>1, <2>1, <2>2, KindsAssumption DEF IsReading, Atoms
    <3> QED BY <1>1, <2>1, <2>2, <3>1, ReadPropertyMixed
  <2> QED BY <1>5, <2>2 DEF PropertyChanged
<1>6. CASE UNCHANGED reading
  BY <1>6
<1>7. OwnerChanged \/ DataDemanded \/ ConversionDone \/ PropertyChanged \/ UNCHANGED reading
  BY DEF Next, MainThread, SelectionThread, SendingThread, Environment,
    ReadNotify, ReadChunk, ReadRest, ReadDemand, Wake, ScanDelayed, ScanDone,
    PruneDelayed, PruneDone, AnswerRequest, DelayRequest, NextPortion, DataReady,
    SendChunk, SendRequest, Tick, ClientReads, ClientLeaves, ClientArrives,
    ClientCopies, AppCopies, ClientDemands, AppConverts, AppPortion, AppPastes,
    AppDeletes, outgoing, vars
<1> QED BY <1>2, <1>3, <1>4, <1>5, <1>6, <1>7

(* While nothing got mixed, data are converted one after the other.        *)
LEMMA NextSeparate ==
  ASSUME Exchange, Unmixed => Separate, [Next]_vars
  PROVE  (Unmixed => Separate)'
<1> SUFFICES ASSUME ~reading'.mixed PROVE Separate'
  BY DEF Unmixed
<1>1. /\ Shape /\ Exchanged /\ Queue(chunks) /\ Stream(toServer)
      /\ PropTyped(prop) /\ AppsTyped /\ IsReading(reading) /\ Sequence(xq)
  BY DEF Exchange, Invariant, Shape, Exchanged, Queues, Incoming
<1>2. Separate
  BY <1>1, MixedStays DEF Unmixed
<1>3. ASSUME UNCHANGED reading,
             \A t \in Selections :
               /\ apps'[t].conv = apps[t].conv
               /\ apps'[t].sending.kind \in Kinds =>
                    apps'[t].sending.kind = apps[t].sending.kind,
             \A i : DataReplied(i)' => DataReplied(i) /\ xq'[i] = xq[i],
             ReplyInHand' => ReplyInHand /\ ev' = ev
      PROVE  Separate'
  <2>1. \A t \in Selections : \A i : DataAsked(t, i)' =>
          DataAsked(t, i) /\ apps'[t].conv[i].target = apps[t].conv[i].target
    BY <1>3 DEF DataAsked
  <2> QED BY <1>1, <1>2, <1>3, <2>1, FewerConversions
<1>4. ASSUME NEW e, e.type # "reply", xq' = Append(xq, e)
      PROVE  \A i : DataReplied(i)' => DataReplied(i) /\ xq'[i] = xq[i]
  <2>1. Grows({e})
    BY <1>1, <1>4, GrowsOne
  <2> QED BY <1>4, <2>1 DEF Grows, DataReplied, DataReply
<1>5. UNCHANGED xq => \A i : DataReplied(i)' => DataReplied(i) /\ xq'[i] = xq[i]
  BY DEF DataReplied
<1>6. UNCHANGED <<spc, ev>> => (ReplyInHand' => ReplyInHand /\ ev' = ev)
  BY DEF ReplyInHand
<1>7. CASE MainThread
  <2>1. UNCHANGED <<apps, reading, spc, ev>>
    BY <1>7 DEF MainThread, ReadNotify, ReadChunk, ReadRest, ReadDemand, thread,
                outgoing, xserver
  <2>2. \A i : DataReplied(i)' => DataReplied(i) /\ xq'[i] = xq[i]
    BY <1>1, <1>7, MainGrows DEF Grows, Notice, DataReplied, DataReply
  <2> QED BY <1>3, <1>6, <2>1, <2>2
<1>8. CASE Wake
  BY <1>1, <1>2, <1>8, WakeSeparate
<1>9. CASE OwnerChanged \/ DataDemanded \/ ConversionDone \/ PropertyChanged
  BY <1>1, <1>2, <1>9, ThreadSeparate
<1>10. CASE \/ ScanDelayed \/ ScanDone \/ PruneDelayed \/ PruneDone
            \/ AnswerRequest \/ DelayRequest \/ NextPortion \/ DataReady
  <2>1. UNCHANGED <<apps, reading, xq, ev>> /\ (spc' # "wait" => spc # "wait")
    BY <1>10 DEF ScanDelayed, ScanDone, PruneDelayed, PruneDone, AnswerRequest,
                 DelayRequest, NextPortion, DataReady, outgoing, xserver, Handles
  <2>2. ReplyInHand' => ReplyInHand /\ ev' = ev
    BY <2>1 DEF ReplyInHand
  <2> QED BY <1>3, <1>5, <2>1, <2>2
<1>11. CASE \/ SendingThread \/ Tick \/ ClientReads \/ ClientLeaves \/ ClientArrives
            \/ \E s \in Selections :
                 (\E k \in ClientKinds : ClientCopies(s, k)) \/ ClientDemands(s)
            \/ UNCHANGED vars
  <2>1. UNCHANGED <<apps, reading, xq, ev, spc>>
    BY <1>11 DEF SendingThread, SendChunk, SendRequest, Tick, ClientReads, ClientLeaves,
                 ClientArrives, ClientCopies, ClientDemands, thread, outgoing, xserver, vars
  <2> QED BY <1>3, <1>5, <1>6, <2>1
<1>12. ASSUME NEW s \in Selections, NEW k \in AppKinds, AppCopies(s, k) PROVE Separate'
  <2>1. /\ xq' = Append(xq, Event("owner", s, "app"))
        /\ UNCHANGED <<reading, spc, ev>>
    BY <1>12 DEF AppCopies, thread, outgoing
  <2>2. Event("owner", s, "app").type # "reply"
    BY EventParts
  <2>3. \A t \in Selections : /\ apps'[t].conv = apps[t].conv
                              /\ apps'[t].sending = apps[t].sending
    BY <1>1, <1>12, AppCopiesTyped DEF Shape
  <2> QED BY <1>3, <1>4, <1>6, <2>1, <2>2, <2>3
<1>13. ASSUME NEW s \in Selections, AppConverts(s) PROVE Separate'
  BY <1>1, <1>2, <1>13, AppConvertsSeparate
<1>14. ASSUME NEW s \in Selections, AppPortion(s) PROVE Separate'
  <2>1. UNCHANGED <<reading, spc, ev>>
    BY <1>14 DEF AppPortion, thread, outgoing
  <2>2. /\ \A t \in Selections : t # s => apps'[t] = apps[t]
        /\ apps'[s].conv = apps[s].conv
        /\ apps'[s].sending \in {apps[s].sending, NoCopy}
        /\ xq' = Append(xq, Event("newvalue", None, apps[s].sending.kind))
    BY <1>1, <1>14, AppPortionTyped
  <2>3. Event("newvalue", None, apps[s].sending.kind).type # "reply"
    BY EventParts
  <2>4. NoCopy.kind \notin Kinds
    BY KindsAssumption DEF NoCopy
  <2>5. \A t \in Selections :
          /\ apps'[t].conv = apps[t].conv
          /\ apps'[t].sending.kind \in Kinds =>
               apps'[t].sending.kind = apps[t].sending.kind
    BY <2>2, <2>4
  <2> QED BY <1>3, <1>4, <1>6, <2>1, <2>2, <2>3, <2>5
<1>15. ASSUME NEW s \in Selections, NEW r \in Requests,
              NEW target \in ClientKinds \cup {"meta"}, NEW t \in {0, clock},
              AppPastes(r, s, target, t)
       PROVE  Separate'
  <2>1. /\ xq' = Append(xq, Event("request", s, r))
        /\ UNCHANGED <<apps, reading, spc, ev>>
    BY <1>15 DEF AppPastes, thread, outgoing, xserver
  <2>2. Event("request", s, r).type # "reply"
    BY EventParts
  <2> QED BY <1>3, <1>4, <1>6, <2>1, <2>2
<1>16. ASSUME NEW r \in Requests, AppDeletes(r) PROVE Separate'
  <2>1. /\ xq' = Append(xq, Event("deleted", answer[r].sel, r))
        /\ UNCHANGED <<apps, reading, spc, ev>>
    BY <1>16 DEF AppDeletes, thread, outgoing, xserver
  <2>2. Event("deleted", answer[r].sel, r).type # "reply"
    BY EventParts
  <2> QED BY <1>3, <1>4, <1>6, <2>1, <2>2
<1> QED BY <1>7, <1>8, <1>9, <1>10, <1>11, <1>12, <1>13, <1>14, <1>15, <1>16
        DEF Next, SelectionThread, Environment

-----------------------------------------------------------------------------
(* Transfers to the client are whole.                                      *)

(* The source of the data the application that owns s sends in portions.   *)
Source(s) == <<s, apps[s].sending.ver>>

(* A reading of s that is under way goes on with the transfer that the     *)
(* last chunk of s leaves in state y.                                      *)
Agrees(s, y, w) ==
  LET a == reading.atom
  IN  a # None /\ reading.current = s =>
        /\ reading.read # 0 => y # {}
        /\ w = "same" =>
             /\ apps[s].sending.kind = a /\ prop[a] # None => prop[a].src = Source(s)
             /\ apps[s].sending.kind = a /\ reading.read # 0 => y = {Source(s)}
             /\ prop[a] # None /\ reading.read # 0 => y = {prop[a].src}

(* What the client has of s is a transfer in state o.                      *)
Opened(s, o, w) ==
  /\ remote[s].phase # "broken" /\ (remote[s].phase = "open" <=> o # {})
  /\ w = "same" => /\ \A a, b \in remote[s].from : a = b
                   /\ o # {} => remote[s].from = o

(* What the client has, the messages on their way to it, and the queue of  *)
(* chunks follow each other.                                               *)
FedTo(s, w, y) ==
  \E o, x : /\ Opened(s, o, w)
            /\ Flow(toClient, s, o, x, w) /\ Flow(chunks, s, x, y, w)

Fed(s, w) == \E y : FedTo(s, w, y) /\ Agrees(s, y, w)

LEMMA FedKept ==
  ASSUME NEW s \in Selections, NEW w, Fed(s, w), UNCHANGED <<toClient, chunks>>,
         \A o : Opened(s, o, w) => Opened(s, o, w)',
         \A y : Agrees(s, y, w) => Agrees(s, y, w)'
  PROVE  Fed(s, w)'
<1>1. PICK o, x, y : /\ Opened(s, o, w) /\ Agrees(s, y, w)
                     /\ Flow(toClient, s, o, x, w) /\ Flow(chunks, s, x, y, w)
  BY DEF Fed, FedTo
<1>2. Opened(s, o, w)' /\ Agrees(s, y, w)'
  BY <1>1
<1>3. Flow(toClient', s, o, x, w) /\ Flow(chunks', s, x, y, w)
  BY <1>1
<1> QED BY <1>2, <1>3 DEF Fed, FedTo

LEMMA OpenedKept ==
  ASSUME NEW s \in Selections, NEW w, remote'[s].phase = remote[s].phase,
         remote'[s].from = remote[s].from, NEW o, Opened(s, o, w)
  PROVE  Opened(s, o, w)'
BY DEF Opened

LEMMA AgreesKept ==
  ASSUME NEW s \in Selections, NEW w, UNCHANGED reading,
         w = "same" /\ reading.atom # None /\ reading.current = s =>
           /\ prop'[reading.atom] = prop[reading.atom]
           /\ apps'[s].sending = apps[s].sending,
         NEW y, Agrees(s, y, w)
  PROVE  Agrees(s, y, w)'
BY DEF Agrees, Source

LEMMA FedQuiet ==
  ASSUME NEW s \in Selections, NEW w, Fed(s, w), UNCHANGED <<toClient, chunks, reading>>,
         remote'[s].phase = remote[s].phase, remote'[s].from = remote[s].from,
         w = "same" /\ reading.atom # None /\ reading.current = s =>
           /\ prop'[reading.atom] = prop[reading.atom]
           /\ apps'[s].sending = apps[s].sending
  PROVE  Fed(s, w)'
<1>1. \A o : Opened(s, o, w) => Opened(s, o, w)'
  BY OpenedKept
<1>2. \A y : Agrees(s, y, w) => Agrees(s, y, w)'
  BY AgreesKept
<1> QED BY <1>1, <1>2, FedKept

(* Where nothing of s was read yet, or is read any more.                   *)
LEMMA FedUnread ==
  ASSUME NEW s \in Selections, NEW w, Fed(s, w), UNCHANGED <<toClient, chunks, remote>>,
         reading'.atom # None =>
           \/ reading'.current # s
           \/ reading'.read = 0 /\ (w = "same" => prop'[reading'.atom] = None)
  PROVE  Fed(s, w)'
<1>1. \A o : Opened(s, o, w) => Opened(s, o, w)'
  BY OpenedKept
<1>2. \A y : Agrees(s, y, w)'
  BY DEF Agrees
<1> QED BY <1>1, <1>2, FedKept

(* Chunks are added to the queue.                                          *)
LEMMA FedMore ==
  ASSUME NEW s \in Selections, NEW w, NEW o, NEW x, NEW z, Opened(s, o, w),
         Flow(toClient, s, o, x, w), Flow(chunks', s, x, z, w),
         UNCHANGED <<toClient, remote>>, Agrees(s, z, w)'
  PROVE  Fed(s, w)'
<1>1. Flow(toClient', s, o, x, w) /\ Opened(s, o, w)'
  BY OpenedKept
<1> QED BY <1>1 DEF Fed, FedTo

LEMMA FedToKept ==
  ASSUME NEW s \in Selections, NEW w, NEW y, FedTo(s, w, y), UNCHANGED <<toClient, chunks>>,
         \A o : Opened(s, o, w) => Opened(s, o, w)'
  PROVE  FedTo(s, w, y)'
BY DEF FedTo

LEMMA FedOn ==
  ASSUME NEW s \in Selections, NEW w, Fed(s, w), UNCHANGED <<reading, prop, apps>>,
         \A y : FedTo(s, w, y) => FedTo(s, w, y)'
  PROVE  Fed(s, w)'
<1>1. PICK y : FedTo(s, w, y) /\ Agrees(s, y, w)
  BY DEF Fed
<1>2. FedTo(s, w, y)' /\ Agrees(s, y, w)'
  BY <1>1, AgreesKept
<1> QED BY <1>2 DEF Fed

LEMMA FedSends ==
  ASSUME Sequence(toClient), Sequence(chunks), NEW s \in Selections, NEW w, NEW y, FedTo(s, w, y),
         SendChunk \/ \E t \in Selections : SendRequest(t)
  PROVE  FedTo(s, w, y)'
<1>1. PICK o, x : /\ Opened(s, o, w)
                  /\ Flow(toClient, s, o, x, w) /\ Flow(chunks, s, x, y, w)
  BY DEF FedTo
<1>2. UNCHANGED remote
  BY DEF SendChunk, SendRequest
<1>3. Opened(s, o, w)'
  BY <1>1, <1>2, OpenedKept
<1>4. CASE SendChunk
  <2>1. /\ chunks # <<>> /\ chunks' = Tail(chunks)
        /\ toClient' = Append(toClient, Head(chunks))
    BY <1>4 DEF SendChunk
  <2> DEFINE m == Head(chunks) z == After(x, m, s)
  <2>2. Allowed(x, m, s, w) /\ Flow(Tail(chunks), s, z, y, w)
    BY <1>1, <2>1, FlowHead
  <2>3. Flow(Append(toClient, m), s, o, z, w)
    BY <1>1, <2>2, FlowAppend
  <2> HIDE DEF m
  <2>4. PICK u : u = z
    OBVIOUS
  <2>5. Flow(chunks', s, u, y, w) /\ Flow(toClient', s, o, u, w)
    BY <2>1, <2>2, <2>3, <2>4 DEF m
  <2> QED BY <1>3, <2>5 DEF FedTo
<1>5. ASSUME NEW t \in Selections, SendRequest(t) PROVE FedTo(s, w, y)'
  <2> DEFINE m == Message("request", t, NoCopy, 0, 0)
  <2>1. UNCHANGED chunks /\ toClient' = Append(toClient, m)
    BY <1>5 DEF SendRequest, outgoing
  <2>2. m.type = "request"
    BY DEF Message
  <2> HIDE DEF m
  <2>3. Allowed(x, m, s, w) /\ After(x, m, s) = x
    BY <2>2 DEF Allowed, After
  <2>4. Flow(Append(toClient, m), s, o, x, w)
    BY <1>1, <2>3, FlowAppend
  <2>5. Flow(chunks', s, x, y, w) /\ Flow(toClient', s, o, x, w)
    BY <1>1, <2>1, <2>4
  <2> QED BY <1>3, <2>5 DEF FedTo
<1> QED BY <1>4, <1>5

(* The client reads.                                                       *)
LEMMA FedReads ==
  ASSUME RemoteTyped, Queues, NEW s \in Selections, NEW w, NEW y, FedTo(s, w, y), ClientReads
  PROVE  FedTo(s, w, y)'
<1>1. PICK o, x : /\ Opened(s, o, w)
                  /\ Flow(toClient, s, o, x, w) /\ Flow(chunks, s, x, y, w)
  BY DEF FedTo
<1> DEFINE m == Head(toClient) z == After(o, m, s)
<1>2. toClient # <<>> /\ toClient' = Tail(toClient) /\ UNCHANGED chunks
  BY DEF ClientReads, outgoing
<1>3. m.type \in {"request", "notify", "chunk"} /\ Sequence(toClient)
  BY <1>2, QueueHead DEF Queues, Queue
<1>4. Allowed(o, m, s, w) /\ Flow(Tail(toClient), s, z, x, w)
  BY <1>1, <1>2, <1>3, FlowHead
<1> HIDE DEF z
<1>6. PICK u : u = z
  OBVIOUS
<1>7. Flow(toClient', s, u, x, w) /\ Flow(chunks', s, x, y, w)
  BY <1>1, <1>2, <1>4, <1>6
<1> SUFFICES Opened(s, u, w)'
  BY <1>7 DEF FedTo
<1>8. DOMAIN remote = Selections /\ DOMAIN remote[s] = {"copy", "heard", "phase", "from"}
  BY DEF RemoteTyped, IsRemote
<1>9. CASE m.sel # s \/ m.type = "request"
  <2>1. u = o
    BY <1>6, <1>9 DEF z, After
  <2>2. CASE m.type = "request"
    <3>1. UNCHANGED remote
      BY <2>2 DEF ClientReads
    <3> QED BY <1>1, <2>1, <3>1, OpenedKept
  <2>3. CASE m.sel # s /\ m.type = "notify"
    <3>1. remote' = [remote EXCEPT ![m.sel].phase = "notified", ![m.sel].from = {}]
      BY <2>3 DEF ClientReads
    <3>2. remote'[s] = remote[s]
      BY <1>8, <2>3, <3>1
    <3> QED BY <1>1, <2>1, <3>2, OpenedKept
  <2>4. CASE m.sel # s /\ m.type = "chunk"
    <3> DEFINE P == IF ~m.first /\ remote[m.sel].phase # "open" THEN "broken"
                    ELSE IF m.last THEN "done" ELSE "open"
               F == (IF m.first THEN {} ELSE remote[m.sel].from) \cup {m.src}
    <3>1. remote' = [remote EXCEPT ![m.sel].phase = P, ![m.sel].from = F]
      BY <2>4 DEF ClientReads
    <3> HIDE DEF P, F
    <3>2. remote'[s] = remote[s]
      BY <1>8, <2>4, <3>1
    <3> QED BY <1>1, <2>1, <3>2, OpenedKept
  <2> QED BY <1>3, <1>9, <2>2, <2>3, <2>4
<1>10. CASE m.sel = s /\ m.type = "notify"
  <2>1. remote' = [remote EXCEPT ![s].phase = "notified", ![s].from = {}]
    BY <1>10 DEF ClientReads
  <2>2. remote'[s].phase = "notified" /\ remote'[s].from = {}
    BY <1>8, <2>1
  <2>3. u = {}
    BY <1>6, <1>10 DEF z, After
  <2> QED BY <2>2, <2>3 DEF Opened
<1>11. CASE m.sel = s /\ m.type = "chunk"
  <2> DEFINE P == IF ~m.first /\ remote[s].phase # "open" THEN "broken"
                  ELSE IF m.last THEN "done" ELSE "open"
             F == (IF m.first THEN {} ELSE remote[s].from) \cup {m.src}
  <2>1. remote' = [remote EXCEPT ![s].phase = P, ![s].from = F]
    BY <1>11 DEF ClientReads
  <2>2. ~m.first => o # {} /\ remote[s].phase = "open"
    BY <1>1, <1>4, <1>11 DEF Allowed, Opened
  <2>3. P = IF m.last THEN "done" ELSE "open"
    BY <2>2
  <2>4. w = "same" => F = {m.src}
    <3>1. w = "same" /\ ~m.first => remote[s].from = {m.src}
      BY <1>1, <1>4, <1>11 DEF Allowed, Opened
    <3> QED BY <3>1
  <2> HIDE DEF P, F
  <2>5. remote'[s].phase = P /\ remote'[s].from = F
    BY <1>8, <2>1
  <2>6. u = IF m.last THEN {} ELSE {m.src}
    BY <1>6, <1>11 DEF z, After
  <2> QED BY <2>3, <2>4, <2>5, <2>6 DEF Opened
<1> QED BY <1>3, <1>9, <1>10, <1>11

(* It demands the announced data.                                          *)
LEMMA FedDemanded ==
  ASSUME RemoteTyped, NEW s \in Selections, NEW w, NEW y, FedTo(s, w, y), NEW t \in Selections,
         ClientDemands(t)
  PROVE  FedTo(s, w, y)'
<1>1. /\ UNCHANGED <<toClient, chunks>>
      /\ remote' = [remote EXCEPT ![t].phase = "asked"] /\ remote[t].phase = "notified"
  BY DEF ClientDemands, outgoing
<1>2. DOMAIN remote = Selections /\ DOMAIN remote[s] = {"copy", "heard", "phase", "from"}
  BY DEF RemoteTyped, IsRemote
<1>3. CASE t # s
  <2>1. remote'[s] = remote[s]
    BY <1>1, <1>2, <1>3
  <2> QED BY <1>1, <2>1, OpenedKept, FedToKept
<1>4. CASE t = s
  <2>1. /\ remote'[s].phase = "asked" /\ remote'[s].from = remote[s].from
        /\ remote[s].phase = "notified"
    BY <1>1, <1>2, <1>4
  <2>2. \A o : Opened(s, o, w) => Opened(s, o, w)'
    BY <2>1 DEF Opened
  <2> QED BY <1>1, <2>2, FedToKept
<1> QED BY <1>3, <1>4

(* A selection has a new owner, or the client demands data of one.         *)
LEMMA FedConverts ==
  ASSUME Shape, Exchanged, NEW s \in Selections, NEW w, Fed(s, w),
         w = "same" => ~reading'.mixed,
         OwnerChanged \/ DataDemanded
  PROVE  Fed(s, w)'
<1>1. /\ PropTyped(prop) /\ AppsTyped /\ BestTyped /\ IsReading(reading)
      /\ (spc # "wait" => Known(ev))
  BY DEF Exchanged, EventsKnown
<1>2. UNCHANGED <<toClient, chunks, remote, xowner>> /\ spc = "handle"
      /\ ev.sel \in Selections
  BY <1>1 DEF OwnerChanged, DataDemanded, Handles, Known, net
<1>3. CASE UNCHANGED <<reading, prop, apps>>
  BY <1>2, <1>3, FedQuiet
<1>4. CASE OwnerChanged
  <2> DEFINE y == StopReading(reading, ev.sel)
  <2>1. CASE Converts(ev.sel, "TARGETS", prop, y)
    <3>1. IsReading(y) /\ y.atom = None /\ "TARGETS" \in Atoms
      BY <1>1, <1>2, Stopped DEF Atoms
    <3> HIDE DEF y
    <3>2. reading'.atom = None
      BY <1>1, <1>2, <2>1, <3>1, ConvertsTyped
    <3> QED BY <1>2, <3>2, FedUnread
  <2> QED BY <1>3, <1>4, <2>1 DEF OwnerChanged
<1>5. CASE DataDemanded
  <2>1. CASE best[ev.sel] # None /\ Converts(ev.sel, best[ev.sel], prop, reading)
    <3>1. best[ev.sel] \in Kinds /\ best[ev.sel] \in Atoms
      BY <1>1, <1>2, <2>1 DEF Atoms, BestTyped
    <3>2. /\ reading'.atom = reading.atom /\ reading'.read = reading.read
          /\ reading'.current = reading.current
          /\ ~reading'.mixed => ~Overlaps(ev.sel, best[ev.sel], reading)
      BY <1>1, <1>2, <2>1, <3>1, ConvertsTyped
    <3>3. CASE w = "same"
      <4>1. reading'.atom = None
        BY <3>1, <3>2, <3>3 DEF Overlaps
      <4> QED BY <1>2, <4>1, FedUnread
    <3>4. CASE w # "same"
      <4>1. \A o : Opened(s, o, w) => Opened(s, o, w)'
        BY <1>2, OpenedKept
      <4>2. \A y : Agrees(s, y, w) => Agrees(s, y, w)'
        BY <3>2, <3>4 DEF Agrees
      <4> QED BY <1>2, <4>1, <4>2, FedKept
    <3> QED BY <3>3, <3>4
  <2> QED BY <1>3, <1>5, <2>1 DEF DataDemanded
<1> QED BY <1>4, <1>5

(* A conversion is over.                                                   *)
LEMMA FedReply ==
  ASSUME Shape, Exchanged, Queues, NEW s \in Selections, NEW w, Fed(s, w), ConversionDone
  PROVE  Fed(s, w)'
<1> DEFINE t == ev.sel a == ev.arg u == StopReading(reading, t)
           rd == [u EXCEPT !.current = t] v == prop[a]
<1>1. /\ PropTyped(prop) /\ AppsTyped /\ IsReading(reading) /\ (spc # "wait" => Known(ev))
      /\ Sequence(chunks)
  BY DEF Exchanged, EventsKnown, Queues, Queue
<1>2. /\ UNCHANGED <<toClient, remote, xowner>>
      /\ t \in Selections /\ a \in Atoms \cup {None}
  BY <1>1 DEF ConversionDone, Handles, Known, net
<1>3. IsReading(rd) /\ u.atom = None /\ rd.atom = None /\ rd.current = t
  BY <1>1, <1>2, Stopped
<1>4. \/ reading' = u /\ UNCHANGED chunks
      \/ a # None /\ ReadProperty(t, a, rd)
  BY DEF ConversionDone
<1> HIDE DEF u, rd
<1>5. CASE reading'.atom = None /\ UNCHANGED chunks
  BY <1>2, <1>5, FedUnread
<1>6. CASE a # None /\ ReadProperty(t, a, rd)
  <2>1. a \in Atoms /\ IsValue(v, a) /\ DOMAIN prop = Atoms
    BY <1>1, <1>2, <1>6 DEF PropTyped
  <2>2. PICK o, x, y : /\ Opened(s, o, w) /\ Agrees(s, y, w)
                       /\ Flow(toClient, s, o, x, w) /\ Flow(chunks, s, x, y, w)
    BY DEF Fed, FedTo
  <2>3. CASE reading' = rd /\ UNCHANGED chunks
    BY <1>3, <1>5, <2>3
  <2>4. CASE v # None /\ v.type = "INCR"
    <3>1. /\ reading' = [rd EXCEPT !.atom = a, !.read = 0] /\ UNCHANGED chunks
          /\ prop' = [prop EXCEPT ![a] = None]
      BY <1>6, <2>4 DEF ReadProperty
    <3>2. reading'.atom = a /\ reading'.read = 0 /\ prop'[a] = None
      BY <1>3, <2>1, <3>1 DEF IsReading
    <3> QED BY <1>2, <3>1, <3>2, FedUnread
  <2>5. CASE v # None /\ v.type = "TARGETS" /\ v.kind \in Kinds /\ t \notin Skipped /\ onDemand
    <3> DEFINE m == OutChunk("notify", t, v, TRUE, TRUE)
    <3>1. chunks' = Append(chunks, m) /\ reading' = rd
      BY <1>6, <2>5 DEF ReadProperty
    <3>2. m.type = "notify"
      BY DEF OutChunk
    <3> HIDE DEF m
    <3>3. PICK z : z = After(y, m, s)
      OBVIOUS
    <3>4. Allowed(y, m, s, w)
      BY <3>2 DEF Allowed
    <3>5. Flow(Append(chunks, m), s, x, After(y, m, s), w)
      BY <1>1, <2>2, <3>4, FlowAppend
    <3>6. Flow(chunks', s, x, z, w)
      BY <3>1, <3>3, <3>5
    <3>7. Agrees(s, z, w)'
      BY <1>3, <3>1 DEF Agrees
    <3> QED BY <1>2, <2>2, <3>6, <3>7, FedMore
  <2>6. CASE v # None /\ v.type = "TARGETS" /\ v.kind \in Kinds
             /\ Converts(t, v.kind, [prop EXCEPT ![a] = None], rd) /\ UNCHANGED chunks
    <3> DEFINE p == [prop EXCEPT ![a] = None] k == v.kind
    <3>1. PropTyped(p)
      BY <1>1, PropCleared
    <3>2. k \in Atoms /\ Converts(t, k, p, rd)
      BY <2>6 DEF Atoms
    <3> HIDE DEF p, k
    <3>3. reading'.atom = None
      BY <1>1, <1>2, <1>3, <3>1, <3>2, ConvertsTyped
    <3> QED BY <1>5, <2>6, <3>3
  <2>7. CASE v # None /\ v.type = "data"
    <3> DEFINE q == ChunksOf(v, t, rd, FALSE)
    <3>1. chunks' = chunks \o q /\ reading' = rd
      <4>1. rd.atom # a
        BY <1>3, <1>6
      <4>2. (rd.atom = a) = FALSE
        BY <4>1
      <4> QED BY <1>6, <2>7, <4>1, <4>2 DEF ReadProperty
    <3>2. v.size \in Nat
      BY <2>1, <2>7 DEF IsValue
    <3>3. PICK z : z = IF t # s THEN y ELSE {}
      OBVIOUS
    <3>4. Sequence(q) /\ Flow(q, s, y, z, w)
      <4>1. FALSE /\ t = s /\ rd.read # 0 => y # {} /\ (w = "same" => y = {v.src})
        OBVIOUS
      <4> HIDE DEF v, t
      <4>2. LET r == ChunksOf(v, t, rd, FALSE)
            IN  Sequence(r) /\ Flow(r, s, y, IF t # s THEN y
                                             ELSE IF FALSE /\ v.size # 0 THEN {v.src}
                                             ELSE {}, w)
        BY <3>2, <4>1, ChunksFlow
      <4> QED BY <3>3, <4>2
    <3> HIDE DEF q
    <3>5. Flow(chunks \o q, s, x, z, w)
      BY <1>1, <2>2, <3>4, FlowConcat
    <3>6. Flow(chunks', s, x, z, w)
      BY <3>1, <3>5
    <3>7. Agrees(s, z, w)'
      BY <1>3, <3>1 DEF Agrees
    <3> QED BY <1>2, <2>2, <3>6, <3>7, FedMore
  <2> QED BY <1>6, <2>1, <2>3, <2>4, <2>5, <2>6, <2>7 DEF ReadProperty, IsValue
<1> QED BY <1>3, <1>4, <1>5, <1>6

(* The next portion of what is read.                                       *)
LEMMA FedPortion ==
  ASSUME Shape, Exchanged, Queues, NEW s \in Selections, NEW w, Fed(s, w), PropertyChanged
  PROVE  Fed(s, w)'
<1> DEFINE t == reading.current a == ev.arg v == prop[a]
<1>1. /\ PropTyped(prop) /\ AppsTyped /\ IsReading(reading) /\ (spc # "wait" => Known(ev))
      /\ Sequence(chunks)
  BY DEF Exchanged, EventsKnown, Queues, Queue
<1>2. UNCHANGED <<toClient, remote, xowner>> /\ a \in Atoms
  BY <1>1 DEF PropertyChanged, Handles, Known, net
<1>3. CASE UNCHANGED <<reading, prop, apps, chunks>>
  BY <1>2, <1>3, FedQuiet
<1>4. DOMAIN reading = {"atom", "read", "current", "mixed"}
  BY <1>1 DEF IsReading
<1>5. CASE reading.atom = a /\ ReadProperty(t, a, reading)
  <2>1. /\ a \in Kinds /\ a # "TARGETS" /\ a # None /\ t \in Selections
        /\ IsValue(v, a) /\ DOMAIN prop = Atoms
    BY <1>1, <1>2, <1>5, KindsAssumption DEF IsReading, Atoms, PropTyped
  <2>2. v # None => v.type # "TARGETS"
    BY <2>1 DEF IsValue
  <2>3. PICK o, x, y : /\ Opened(s, o, w) /\ Agrees(s, y, w)
                       /\ Flow(toClient, s, o, x, w) /\ Flow(chunks, s, x, y, w)
    BY DEF Fed, FedTo
  <2>4. CASE v = None
    <3>1. UNCHANGED <<reading, prop, apps, chunks>>
      BY <1>5, <2>4 DEF ReadProperty
    <3> QED BY <1>3, <3>1
  <2>5. CASE v # None /\ v.type = "INCR"
    <3>1. /\ reading' = [reading EXCEPT !.atom = a, !.read = 0] /\ UNCHANGED chunks
          /\ prop' = [prop EXCEPT ![a] = None]
      BY <1>5, <2>5 DEF ReadProperty
    <3>2. reading'.atom = a /\ reading'.read = 0
      BY <1>4, <3>1
    <3>3. prop'[a] = None
      BY <1>2, <2>1, <3>1
    <3> QED BY <1>2, <3>1, <3>2, <3>3, FedUnread
  <2>6. CASE v # None /\ v.type = "data"
    <3> DEFINE q == ChunksOf(v, t, reading, TRUE) n == reading.read + v.size
               stop == StopReading(reading, t)
    <3>1. /\ chunks' = chunks \o q /\ UNCHANGED apps
          /\ prop' = [prop EXCEPT ![a] = None]
          /\ reading' = IF v.size = 0 THEN stop ELSE [reading EXCEPT !.read = n]
      <4>1. (reading.atom = a) = TRUE
        BY <1>5
      <4> QED BY <1>5, <2>6, <4>1 DEF ReadProperty, Ends
    <3>2. v.size \in Nat
      BY <2>1, <2>6 DEF IsValue
    <3>3. PICK z : z = IF t # s THEN y ELSE IF v.size # 0 THEN {v.src} ELSE {}
      OBVIOUS
    <3>4. Sequence(q) /\ Flow(q, s, y, z, w)
      <4>1. TRUE /\ t = s /\ reading.read # 0 => y # {} /\ (w = "same" => y = {v.src})
        BY <1>5, <2>1, <2>3, <2>6 DEF Agrees
      <4> HIDE DEF v, t
      <4>2. LET r == ChunksOf(v, t, reading, TRUE)
            IN  Sequence(r) /\ Flow(r, s, y, IF t # s THEN y
                                             ELSE IF TRUE /\ v.size # 0 THEN {v.src}
                                             ELSE {}, w)
        BY <3>2, <4>1, ChunksFlow
      <4> QED BY <3>3, <4>2
    <3> HIDE DEF q
    <3>5. Flow(chunks \o q, s, x, z, w)
      BY <1>1, <2>3, <3>4, FlowConcat
    <3>6. Flow(chunks', s, x, z, w)
      BY <3>1, <3>5
    <3>7. Agrees(s, z, w)'
      <4>1. CASE v.size = 0
        <5>1. reading' = stop
          BY <3>1, <4>1
        <5>2. stop.atom = None
          <6> HIDE DEF t
          <6> QED BY <1>1, <2>1, Stopped
        <5>3. reading'.atom = None
          BY <5>1, <5>2
        <5> QED BY <5>3 DEF Agrees
      <4>2. CASE v.size # 0
        <5>1. /\ reading'.atom = a /\ reading'.current = t /\ prop'[a] = None
          <6>1. reading' = [reading EXCEPT !.read = n]
            BY <3>1, <4>2
          <6> HIDE DEF n
          <6>2. reading'.atom = a /\ reading'.current = t
            BY <1>5, <1>4, <6>1
          <6>3. prop'[a] = None
            BY <1>2, <2>1, <3>1
          <6> QED BY <6>2, <6>3
        <5>2. CASE t # s
          BY <5>1, <5>2 DEF Agrees
        <5>3. CASE t = s
          <6>1. z = {v.src}
            BY <3>3, <4>2, <5>3
          <6>2. w = "same" /\ apps[s].sending.kind = a => v.src = Source(s)
            BY <1>5, <2>1, <2>3, <2>6, <5>3 DEF Agrees
          <6>3. Source(s)' = Source(s) /\ apps'[s].sending = apps[s].sending
            BY <3>1 DEF Source
          <6> HIDE DEF v, a, t
          <6> QED BY <5>1, <6>1, <6>2, <6>3 DEF Agrees
        <5> QED BY <5>2, <5>3
      <4> QED BY <4>1, <4>2
    <3> QED BY <1>2, <2>3, <3>6, <3>7, FedMore
  <2> QED BY <2>1, <2>2, <2>4, <2>5, <2>6 DEF IsValue
<1> QED BY <1>3, <1>5 DEF PropertyChanged

(* An application writes a property.                                       *)
LEMMA FedWrites ==
  ASSUME Shape, Exchanged, NEW s \in Selections, NEW w, Fed(s, w), w = "same" => Separate,
         NEW t \in Selections, AppConverts(t) \/ AppPortion(t)
  PROVE  Fed(s, w)'
<1>1. /\ PropTyped(prop) /\ AppsTyped /\ IsReading(reading)
  BY DEF Exchanged
<1>2. UNCHANGED <<toClient, chunks, remote, reading>>
  BY DEF AppConverts, AppPortion, net, outgoing
<1>3. CASE ~(w = "same" /\ reading.atom # None /\ reading.current = s)
  BY <1>2, <1>3, FedQuiet
<1>4. ASSUME w = "same", reading.atom # None, reading.current = s
      PROVE  Fed(s, w)'
  <2>1. /\ reading.atom \in Kinds /\ reading.atom \in Atoms
        /\ NoConversion /\ Alone(s, reading.atom)
    BY <1>1, <1>4 DEF Separate, ReadsAlone, IsReading, Atoms
  <2>2. CASE AppConverts(t)
    <3> DEFINE a == Head(apps[t].conv).target
    <3>1. /\ apps[t].conv # <<>> /\ a \in Atoms
          /\ \A u \in Selections : u # t => apps'[u] = apps[u]
          /\ \A b \in Atoms : b # a => prop'[b] = prop[b]
          /\ \/ apps'[t].sending = apps[t].sending
             \/ a \in Kinds /\ apps'[t].sending.kind = a
      BY <1>1, <2>2, AppConvertsTyped
    <3>2. Sequence(apps[t].conv)
      BY <1>1 DEF AppsTyped, IsApp
    <3>3. /\ Len(apps[t].conv) \in Nat \ {0} /\ Head(apps[t].conv) = apps[t].conv[1]
      BY <3>1, <3>2, SequenceParts, TailAny
    <3>4. 1 \in 1 .. Len(apps[t].conv) /\ ~DataAsked(t, 1)
      BY <2>1, <3>3 DEF NoConversion
    <3>5. a \notin Kinds
      BY <3>3, <3>4 DEF DataAsked
    <3>6. prop'[reading.atom] = prop[reading.atom] /\ apps'[s].sending = apps[s].sending
      BY <2>1, <3>1, <3>5
    <3> QED BY <1>2, <3>6, FedQuiet
  <2>3. CASE AppPortion(t)
    <3> DEFINE c == apps[t].sending
    <3>1. /\ c # NoCopy /\ c.kind \in Kinds
          /\ \A u \in Selections : u # t => apps'[u] = apps[u]
          /\ apps'[t].sending \in {c, NoCopy}
          /\ \A b \in Atoms : b # c.kind => prop'[b] = prop[b]
          /\ prop'[c.kind].src = <<t, c.ver>>
      BY <1>1, <2>3, AppPortionTyped
    <3>2. CASE t # s
      <4>1. c.kind # reading.atom
        BY <2>1, <3>2 DEF Alone
      <4>2. prop'[reading.atom] = prop[reading.atom] /\ apps'[s].sending = apps[s].sending
        BY <2>1, <3>1, <3>2, <4>1
      <4> QED BY <1>2, <4>2, FedQuiet
    <3>3. CASE t = s
      <4>1. NoCopy.kind \notin Kinds
        BY KindsAssumption DEF NoCopy
      <4>2. ASSUME NEW y, Agrees(s, y, w) PROVE Agrees(s, y, w)'
        <5>1. CASE c.kind # reading.atom
          <6>1. /\ prop'[reading.atom] = prop[reading.atom]
                /\ apps'[s].sending.kind # reading.atom
            BY <2>1, <3>1, <3>3, <4>1, <5>1
          <6> QED BY <1>2, <4>2, <6>1 DEF Agrees
        <5>2. CASE c.kind = reading.atom
          <6>1. prop'[reading.atom].src = Source(s)
            BY <3>1, <3>3, <5>2 DEF Source
          <6>2. apps'[s].sending.kind = reading.atom => Source(s)' = Source(s)
            BY <2>1, <3>1, <3>3, <4>1 DEF Source
          <6>3. reading.read # 0 => y # {} /\ y = {Source(s)}
            BY <1>4, <3>3, <4>2, <5>2 DEF Agrees
          <6> QED BY <1>2, <6>1, <6>2, <6>3 DEF Agrees
        <5> QED BY <5>1, <5>2
      <4>3. \A o : Opened(s, o, w) => Opened(s, o, w)'
        BY <1>2, OpenedKept
      <4> QED BY <1>2, <4>2, <4>3, FedKept
    <3> QED BY <3>2, <3>3
  <2> QED BY <2>2, <2>3
<1> QED BY <1>3, <1>4

LEMMA NextFed ==
  ASSUME Exchange, FirstClient, FirstClient', [Next]_vars, NEW s \in Selections, NEW w,
         Fed(s, w), w = "same" => Separate /\ ~reading'.mixed
  PROVE  Fed(s, w)'
<1>1. /\ Shape /\ Exchanged /\ Queues /\ RemoteTyped /\ conns \in Nat \ {0}
      /\ Stream(toServer) /\ Sequence(toClient) /\ Sequence(chunks)
  BY DEF Exchange, Invariant, Incoming, Typed, RemoteTyped, Queues, Queue
<1>2. ~ClientLeaves /\ ~ClientArrives
  BY <1>1 DEF ClientLeaves, ClientArrives, FirstClient
<1>3. CASE MainThread
  <2>1. UNCHANGED <<toClient, chunks, reading, prop, apps>>
    BY <1>3 DEF MainThread, ReadNotify, ReadChunk, ReadRest, ReadDemand, outgoing, xserver
  <2>2. remote'[s].phase = remote[s].phase /\ remote'[s].from = remote[s].from
    <3>1. CASE UNCHANGED remote
      BY <3>1
    <3>2. CASE ReadNotify \/ ReadChunk
      <4> DEFINE m == Head(toServer)
      <4>1. Hears(m)
        BY <3>2 DEF ReadNotify, ReadChunk
      <4>2. DOMAIN remote = Selections /\ DOMAIN remote[s] = {"copy", "heard", "phase", "from"}
        BY <1>1 DEF RemoteTyped, IsRemote
      <4> HIDE DEF m
      <4>3. remote' = [remote EXCEPT ![m.sel].heard = m.copy.ver]
        BY <4>1 DEF Hears
      <4> QED BY <4>2, <4>3
    <3> QED BY <1>3, <3>1, <3>2 DEF MainThread, ReadRest, ReadDemand
  <2> QED BY <2>1, <2>2, FedQuiet
<1>4. CASE \/ Wake \/ ScanDelayed \/ ScanDone \/ PruneDelayed \/ PruneDone
           \/ AnswerRequest \/ DelayRequest \/ NextPortion \/ DataReady
           \/ Tick \/ (\E r \in Requests : AppDeletes(r)) \/ UNCHANGED vars
  <2>1. UNCHANGED <<toClient, chunks, reading, prop, apps, remote>>
    BY <1>4 DEF Wake, ScanDelayed, ScanDone, PruneDelayed, PruneDone, AnswerRequest,
                DelayRequest, NextPortion, DataReady, Tick, AppDeletes, outgoing,
                xserver, net, vars
  <2> QED BY <2>1, FedQuiet
<1>5. ASSUME NEW r \in Requests, NEW t \in Selections, NEW target \in ClientKinds \cup {"meta"},
             NEW time \in {0, clock}, AppPastes(r, t, target, time)
      PROVE  Fed(s, w)'
  <2>1. UNCHANGED <<toClient, chunks, reading, prop, apps, remote>>
    BY <1>5 DEF AppPastes, outgoing, xserver, net
  <2> QED BY <2>1, FedQuiet
<1>6. CASE OwnerChanged \/ DataDemanded
  BY <1>1, <1>6, FedConverts
<1>7. CASE ConversionDone
  BY <1>1, <1>7, FedReply
<1>8. CASE PropertyChanged
  BY <1>1, <1>8, FedPortion
<1>9. CASE SendingThread
  <2>1. UNCHANGED <<reading, prop, apps>>
    BY <1>9 DEF SendingThread, SendChunk, SendRequest, outgoing, xserver
  <2> QED BY <1>1, <1>9, <2>1, FedSends, FedOn DEF SendingThread
<1>10. CASE ClientReads
  <2>1. UNCHANGED <<reading, prop, apps>>
    BY <1>10 DEF ClientReads, outgoing, xserver
  <2> QED BY <1>1, <1>10, <2>1, FedReads, FedOn
<1>11. ASSUME NEW t \in Selections, ClientDemands(t) PROVE Fed(s, w)'
  <2>1. UNCHANGED <<reading, prop, apps>>
    BY <1>11 DEF ClientDemands, outgoing, xserver
  <2> QED BY <1>1, <1>11, <2>1, FedDemanded, FedOn
<1>12. ASSUME NEW t \in Selections, AppConverts(t) \/ AppPortion(t) PROVE Fed(s, w)'
  BY <1>1, <1>12, FedWrites
<1>13. ASSUME NEW t \in Selections, NEW k \in AppKinds, AppCopies(t, k) PROVE Fed(s, w)'
  <2>1. UNCHANGED <<toClient, chunks, reading, prop, remote>>
    BY <1>13 DEF AppCopies, outgoing, net
  <2>2. apps'[s].sending = apps[s].sending
    BY <1>1, <1>13, AppCopiesTyped DEF Exchanged, Shape
  <2> QED BY <2>1, <2>2, FedQuiet
<1>14. ASSUME NEW t \in Selections, NEW k \in ClientKinds, ClientCopies(t, k)
       PROVE  Fed(s, w)'
  <2> DEFINE c == [ver |-> version + 1, kind |-> k]
  <2>1. /\ UNCHANGED <<toClient, chunks, reading, prop, apps>>
        /\ remote' = [remote EXCEPT ![t].copy = c]
    BY <1>14 DEF ClientCopies, outgoing, xserver
  <2> HIDE DEF c
  <2>2. DOMAIN remote = Selections /\ DOMAIN remote[s] = {"copy", "heard", "phase", "from"}
    BY <1>1 DEF RemoteTyped, IsRemote
  <2>3. remote'[s].phase = remote[s].phase /\ remote'[s].from = remote[s].from
    BY <2>1, <2>2
  <2> QED BY <2>1, <2>3, FedQuiet
<1>15. SelectionThread => Fed(s, w)'
  BY <1>4, <1>6, <1>7, <1>8 DEF SelectionThread
<1>16. Environment => Fed(s, w)'
  BY <1>2, <1>4, <1>5, <1>10, <1>11, <1>12, <1>13, <1>14 DEF Environment
<1> QED BY <1>3, <1>4, <1>9, <1>15, <1>16 DEF Next

(* The first client gets whole transfers, of one copy each while nothing   *)
(* got mixed; once it is gone nothing is left of them.                     *)
Transferring ==
  /\ FirstClient => \A s \in Selections : /\ Fed(s, "any")
                                          /\ Unmixed => Fed(s, "same")
  /\ conns = 1 /\ ~connected =>
       \A s \in Selections : remote[s].phase = "none" /\ remote[s].from = {}

LEMMA InitTransferring == Init => Transferring /\ Separate
<1> SUFFICES ASSUME Init PROVE Transferring /\ Separate
  OBVIOUS
<1>1. /\ toClient = <<>> /\ chunks = <<>> /\ reading.atom = None /\ connected = TRUE
      /\ xq = <<>> /\ spc = "wait"
  BY DEF Init, NotReading
<1>2. \A s \in Selections : /\ remote[s].phase = "none" /\ remote[s].from = {}
                            /\ apps[s].conv = <<>>
  BY DEF Init
<1>3. ASSUME NEW s \in Selections, NEW w PROVE Fed(s, w)
  <2>1. Opened(s, {}, w) /\ Agrees(s, {}, w)
    BY <1>1, <1>2 DEF Opened, Agrees
  <2>2. Flow(toClient, s, {}, {}, w) /\ Flow(chunks, s, {}, {}, w)
    BY <1>1, FlowEmpty
  <2> QED BY <2>1, <2>2 DEF Fed, FedTo
<1>4. Len(<<>>) = 0 /\ \A i : i \notin 1 .. 0
  OBVIOUS
<1>5. Separate
  <2>1. /\ \A t \in Selections : \A i : ~DataAsked(t, i)
        /\ \A i : ~DataReplied(i)
        /\ ~ReplyInHand
    BY <1>1, <1>2, <1>4 DEF DataAsked, DataReplied, ReplyInHand
  <2> QED BY <1>1, <2>1 DEF Separate, OneConversion, ConvertsAlone, ReadsAlone
<1> QED BY <1>1, <1>3, <1>5 DEF Transferring

LEMMA NextTransferring ==
  ASSUME Exchange, Transferring, Unmixed => Separate, [Next]_vars
  PROVE  Transferring'
<1>1. /\ Shape /\ Exchanged /\ Queue(chunks) /\ RemoteTyped /\ conns \in Nat \ {0}
  BY DEF Exchange, Invariant, Incoming, Typed, RemoteTyped, Queues
<1>2. CASE ClientLeaves
  <2>1. ~connected' /\ remote' = [s \in Selections |->
          [remote[s] EXCEPT !.copy = NoCopy, !.phase = "none", !.from = {}]]
    BY <1>2 DEF ClientLeaves
  <2>2. ASSUME NEW s \in Selections
        PROVE  remote'[s].phase = "none" /\ remote'[s].from = {}
    <3>1. DOMAIN remote[s] = {"copy", "heard", "phase", "from"}
      BY <1>1 DEF RemoteTyped, IsRemote
    <3>2. remote'[s] = [remote[s] EXCEPT !.copy = NoCopy, !.phase = "none", !.from = {}]
      BY <2>1
    <3> QED BY <3>1, <3>2
  <2> QED BY <2>1, <2>2 DEF Transferring, FirstClient
<1>3. CASE ClientArrives
  <2>1. conns' # 1
    BY <1>1, <1>3 DEF ClientArrives
  <2> QED BY <2>1 DEF Transferring, FirstClient
<1>4. CASE ~ClientLeaves /\ ~ClientArrives
  <2>1. UNCHANGED <<conns, connected>>
    BY <1>4 DEF Next, MainThread, SelectionThread, SendingThread, Environment,
      ReadNotify, ReadChunk, ReadRest, ReadDemand, Wake, ScanDelayed, ScanDone,
      PruneDelayed, PruneDone, AnswerRequest, DelayRequest, NextPortion, DataReady,
      OwnerChanged, DataDemanded, ConversionDone, PropertyChanged, SendChunk,
      SendRequest, Tick, ClientReads, ClientCopies, AppCopies, ClientDemands,
      AppConverts, AppPortion, AppPastes, AppDeletes, net, vars
  <2>2. ASSUME FirstClient', NEW s \in Selections
        PROVE  Fed(s, "any")' /\ (Unmixed' => Fed(s, "same")')
    <3>1. FirstClient
      BY <2>1, <2>2 DEF FirstClient
    <3>2. Fed(s, "any") /\ (Unmixed => Fed(s, "same"))
      BY <3>1 DEF Transferring
    <3>3. Fed(s, "any")'
      <4>1. "any" # "same"
        OBVIOUS
      <4> QED BY <2>2, <3>1, <3>2, <4>1, NextFed
    <3>4. ASSUME Unmixed' PROVE Fed(s, "same")'
      <4>1. ~reading'.mixed
        BY <3>4 DEF Unmixed
      <4>2. Unmixed
        BY <1>1, <4>1, MixedStays DEF Unmixed
      <4> QED BY <2>2, <3>1, <3>2, <4>1, <4>2, NextFed
    <3> QED BY <3>3, <3>4
  <2>3. ASSUME conns' = 1, ~connected', NEW s \in Selections
        PROVE  remote'[s].phase = "none" /\ remote'[s].from = {}
    <3>1. conns = 1 /\ ~connected
      BY <2>1, <2>3
    <3>2. remote[s].phase = "none" /\ remote[s].from = {}
      BY <3>1 DEF Transferring
    <3>3. UNCHANGED remote
      BY <1>4, <3>1 DEF Next, MainThread, SelectionThread, SendingThread, Environment,
        ReadNotify, ReadChunk, ReadRest, ReadDemand, MainReads, Wake, ScanDelayed, ScanDone,
        PruneDelayed, PruneDone, AnswerRequest, DelayRequest, NextPortion, DataReady,
        OwnerChanged, DataDemanded, ConversionDone, PropertyChanged, SendChunk,
        SendRequest, Tick, ClientReads, ClientCopies, AppCopies, ClientDemands,
        AppConverts, AppPortion, AppPastes, AppDeletes, net, vars
    <3> QED BY <3>2, <3>3
  <2> QED BY <2>2, <2>3 DEF Transferring
<1> QED BY <1>2, <1>3, <1>4

(* The first client gets every transfer from its first chunk, whatever is  *)
(* converted, refused, read incrementally or taken over meanwhile          *)
(* (read_selection_property, process_selection_notify,                     *)
(* process_property_notify, send_frame_thread); and as long as no          *)
(* conversion began while another was not over, and no reading was ended   *)
(* by something else, all chunks of a transfer are of one copy.            *)
THEOREM TransfersCorrect == Spec => []TransfersAreWhole
<1>1. Init => Transferring /\ (Unmixed => Separate)
  BY InitTransferring
<1>2. Exchange /\ Transferring /\ (Unmixed => Separate) /\ [Next]_vars
        => Transferring' /\ (Unmixed => Separate)'
  BY NextTransferring, NextSeparate
<1>3. Transferring => TransfersAreWhole
  <2> SUFFICES ASSUME Transferring, conns = 1, NEW s \in Selections
               PROVE  /\ remote[s].phase # "broken"
                      /\ Unmixed => Cardinality(remote[s].from) <= 1
    BY DEF TransfersAreWhole
  <2>1. remote[s].phase # "broken"
    BY DEF Transferring, FirstClient, Fed, FedTo, Opened
  <2>2. ASSUME Unmixed PROVE Cardinality(remote[s].from) <= 1
    <3> DEFINE F == remote[s].from
    <3>1. \A a, b \in F : a = b
      BY <2>2 DEF Transferring, FirstClient, Fed, FedTo, Opened
    <3> HIDE DEF F
    <3>2. CASE F = {}
      <4>1. Cardinality(F) = 0
        BY <3>2, FS_EmptySet, Zenon
      <4> QED BY <4>1 DEF F
    <3>3. CASE F # {}
      <4>1. PICK a : F = {a}
        BY <3>1, <3>3
      <4>2. Cardinality(F) = 1
        BY <4>1, FS_Singleton, Zenon
      <4> QED BY <4>2 DEF F
    <3> QED BY <3>2, <3>3 DEF F
  <2> QED BY <2>1, <2>2
<1> QED BY <1>1, <1>2, <1>3, ExchangeCorrect, PTL DEF Spec

-----------------------------------------------------------------------------
(* The X events the selection thread has yet to handle, the one in hand    *)
(* first.                                                                  *)
EventsFrom(p, h, q) == IF p = "wait" THEN q ELSE <<h>> \o q

Events == EventsFrom(spc, ev, xq)

DueFrom(p, h, q) == {EventsFrom(p, h, q)[i] : i \in 1 .. Len(EventsFrom(p, h, q))}

Due == DueFrom(spc, ev, xq)

(* The pairs of events of which the second is not handled before the first.*)
Ordered ==
  {x \in Due \X Due :
     \E i, j \in 1 .. Len(Events) : i <= j /\ x = <<Events[i], Events[j]>>}

(* Events of set E are added, in the order of X.                           *)
Adds(E, X) ==
  /\ Due \subseteq Due' /\ Due' \subseteq Due \cup E
  /\ Ordered' \subseteq (Ordered \cup (Due \X E)) \cup X

(* The event in hand is handled, and events are added.                     *)
Consumes(E, X) ==
  /\ ev \in Due /\ Due \subseteq Due' \cup {ev}
  /\ \A e \in Due' : <<ev, e>> \in Ordered \/ e \in E
  /\ Due' \subseteq Due \cup E
  /\ Ordered' \subseteq (Ordered \cup (Due \X E)) \cup X

LEMMA EventsParts ==
  ASSUME NEW p, NEW h, NEW q, Sequence(q)
  PROVE  LET r == EventsFrom(p, h, q)
         IN  /\ Sequence(r) /\ Len(r) \in Nat
             /\ p = "wait" => r = q
             /\ p # "wait" => /\ Len(r) = Len(q) + 1 /\ r[1] = h
                             /\ \A i \in 1 .. Len(q) : r[i + 1] = q[i]
<1> DEFINE o == <<h>> r == EventsFrom(p, h, q)
<1>1. o \in Seq({h}) /\ Len(o) = 1 /\ o[1] = h
  OBVIOUS
<1>2. Sequence(o)
  BY <1>1 DEF Sequence
<1>3. p = "wait" => r = q
  BY DEF EventsFrom
<1>4. p # "wait" => r = o \o q
  BY DEF EventsFrom
<1> HIDE DEF o, r
<1>5. /\ Sequence(o \o q) /\ Len(o \o q) = Len(o) + Len(q)
      /\ \A i \in 1 .. Len(o) + Len(q) :
           (o \o q)[i] = IF i <= Len(o) THEN o[i] ELSE q[i - Len(o)]
  BY <1>2, ConcatAny
<1>6. Len(q) \in Nat
  BY SequenceParts
<1>7. Len(o \o q) = Len(q) + 1 /\ (o \o q)[1] = h
  <2>1. 1 \in 1 .. Len(o) + Len(q) /\ 1 <= Len(o)
    BY <1>1, <1>6
  <2> QED BY <1>1, <1>5, <1>6, <2>1
<1>8. ASSUME NEW i \in 1 .. Len(q) PROVE (o \o q)[i + 1] = q[i]
  <2>1. i + 1 \in 1 .. Len(o) + Len(q) /\ ~(i + 1 <= Len(o)) /\ (i + 1) - Len(o) = i
    BY <1>1, <1>6
  <2> QED BY <1>5, <2>1
<1>9. Sequence(r)
  BY <1>3, <1>4, <1>5
<1>10. Len(r) \in Nat
  BY <1>9, SequenceParts
<1> QED BY <1>3, <1>4, <1>7, <1>8, <1>9, <1>10 DEF r

(* The first d events are handled, and events of E are added.              *)
LEMMA EventsMoved ==
  ASSUME Len(Events) \in Nat, Len(Events') \in Nat, NEW d \in 0 .. Len(Events),
         Len(Events) - d <= Len(Events'),
         \A i \in 1 .. Len(Events) - d : Events'[i] = Events[i + d],
         NEW E, NEW X,
         \A i \in 1 .. Len(Events') : i > Len(Events) - d => Events'[i] \in E,
         \A i, j \in 1 .. Len(Events') :
           Len(Events) - d < i /\ i <= j => <<Events'[i], Events'[j]>> \in X
  PROVE  /\ d = 0 => Adds(E, X)
         /\ d = 1 /\ Events[1] = ev => Consumes(E, X)
<1> DEFINE l == Len(Events) n == Len(Events')
<1> HIDE DEF l, n
<1>1. l \in Nat /\ n \in Nat /\ d \in 0 .. l /\ l - d <= n
  BY DEF l, n
<1>2. \A i \in 1 .. l - d : Events'[i] = Events[i + d] /\ i + d \in 1 .. l /\ i \in 1 .. n
  BY <1>1 DEF l
<1>3. /\ Due = {Events[i] : i \in 1 .. l} /\ Due' = {Events'[i] : i \in 1 .. n}
  BY DEF Due, DueFrom, Events, l, n
<1>4. \A i \in 1 .. n : \/ i \in 1 .. l - d /\ Events'[i] \in Due
                        \/ i > l - d /\ Events'[i] \in E
  <2> SUFFICES ASSUME NEW i \in 1 .. n
               PROVE  \/ i \in 1 .. l - d /\ Events'[i] \in Due
                      \/ i > l - d /\ Events'[i] \in E
    OBVIOUS
  <2>1. i \in 1 .. l - d \/ i > l - d
    BY <1>1
  <2>2. CASE i \in 1 .. l - d
    <3>1. Events'[i] = Events[i + d] /\ i + d \in 1 .. l
      BY <1>2, <2>2
    <3> QED BY <1>3, <2>2, <3>1
  <2>3. CASE i > l - d
    BY <2>3 DEF l, n
  <2> QED BY <2>1, <2>2, <2>3
<1>5. Due' \subseteq Due \cup E
  BY <1>3, <1>4
<1>6. \A i, j \in 1 .. l : i <= j => <<Events[i], Events[j]>> \in Ordered
  BY <1>3 DEF Ordered, l
<1>7. ASSUME NEW x \in Ordered' PROVE x \in (Ordered \cup (Due \X E)) \cup X
  <2>1. PICK i \in 1 .. n, j \in 1 .. n : i <= j /\ x = <<Events'[i], Events'[j]>>
    BY <1>7 DEF Ordered, n
  <2>2. CASE j \in 1 .. l - d
    <3>1. i \in 1 .. l - d
      BY <1>1, <2>1, <2>2
    <3>2. i + d \in 1 .. l /\ j + d \in 1 .. l /\ i + d <= j + d
      BY <1>1, <1>2, <2>1, <2>2, <3>1
    <3>3. x = <<Events[i + d], Events[j + d]>>
      BY <1>2, <2>1, <2>2, <3>1
    <3> QED BY <1>6, <3>2, <3>3
  <2>3. CASE j \notin 1 .. l - d /\ i \in 1 .. l - d
    <3>1. Events'[i] \in Due
      BY <1>2, <1>3, <2>3
    <3>2. Events'[j] \in E
      BY <1>4, <2>3
    <3> QED BY <2>1, <3>1, <3>2
  <2>4. CASE i \notin 1 .. l - d
    <3>1. l - d < i
      BY <1>1, <2>4
    <3> QED BY <2>1, <3>1 DEF l, n
  <2> QED BY <2>2, <2>3, <2>4
<1>8. ASSUME d = 0 PROVE Due \subseteq Due'
  <2>1. \A i \in 1 .. l : i \in 1 .. n /\ Events'[i] = Events[i]
    BY <1>1, <1>2, <1>8
  <2> QED BY <1>3, <2>1
<1>9. ASSUME d = 1, Events[1] = ev
      PROVE  /\ ev \in Due /\ Due \subseteq Due' \cup {ev}
             /\ \A e \in Due' : <<ev, e>> \in Ordered \/ e \in E
  <2>1. 1 \in 1 .. l /\ ev \in Due
    BY <1>1, <1>3, <1>9
  <2>2. \A i \in 1 .. l : i = 1 \/ (i - 1 \in 1 .. n /\ Events'[i - 1] = Events[i])
    <3>1. \A i \in 1 .. l : i = 1 \/ (i - 1 \in 1 .. l - d /\ (i - 1) + d = i)
      BY <1>1, <1>9
    <3> QED BY <1>2, <3>1
  <2>3. Due \subseteq Due' \cup {ev}
    BY <1>3, <1>9, <2>2
  <2>4. ASSUME NEW i \in 1 .. n PROVE <<ev, Events'[i]>> \in Ordered \/ Events'[i] \in E
    <3>1. CASE i \in 1 .. l - d
      <4>1. 1 <= i + d
        BY <1>1, <3>1
      <4> QED BY <1>2, <1>6, <1>9, <2>1, <3>1, <4>1
    <3> QED BY <1>4, <3>1
  <2> QED BY <1>3, <2>1, <2>3, <2>4
<1> QED BY <1>5, <1>7, <1>8, <1>9 DEF Adds, Consumes

(* Events are added to the queue.                                          *)
LEMMA QueueMoved ==
  ASSUME Sequence(xq), Sequence(xq'), Len(xq) <= Len(xq'),
         \A i \in 1 .. Len(xq) : xq'[i] = xq[i],
         NEW E, NEW X,
         \A i \in 1 .. Len(xq') : i > Len(xq) => xq'[i] \in E,
         \A i, j \in 1 .. Len(xq') : Len(xq) < i /\ i <= j => <<xq'[i], xq'[j]>> \in X
  PROVE  /\ UNCHANGED ev /\ (spc = "wait" <=> spc' = "wait") => Adds(E, X)
         /\ spc # "wait" /\ spc' = "wait" => Consumes(E, X)
<1>1. /\ Len(Events) \in Nat
      /\ spc = "wait" => Events = xq
      /\ spc # "wait" => /\ Len(Events) = Len(xq) + 1 /\ Events[1] = ev
                         /\ \A i \in 1 .. Len(xq) : Events[i + 1] = xq[i]
  BY EventsParts DEF Events
<1>2. /\ Len(Events') \in Nat
      /\ spc' = "wait" => Events' = xq'
      /\ spc' # "wait" => /\ Len(Events') = Len(xq') + 1 /\ Events'[1] = ev'
                          /\ \A i \in 1 .. Len(xq') : Events'[i + 1] = xq'[i]
  BY EventsParts DEF Events
<1>3. Len(xq) \in Nat /\ Len(xq') \in Nat
  BY SequenceParts
<1>4. ASSUME spc = "wait", spc' = "wait" PROVE Adds(E, X)
  <2>1. Events = xq /\ Events' = xq'
    BY <1>1, <1>2, <1>4
  <2>2. /\ 0 \in 0 .. Len(Events) /\ Len(Events) - 0 <= Len(Events')
        /\ \A i \in 1 .. Len(Events) - 0 : Events'[i] = Events[i + 0]
        /\ \A i \in 1 .. Len(Events') : i > Len(Events) - 0 => Events'[i] \in E
        /\ \A i, j \in 1 .. Len(Events') :
             Len(Events) - 0 < i /\ i <= j => <<Events'[i], Events'[j]>> \in X
    BY <1>3, <2>1
  <2> QED BY <1>1, <1>2, <2>2, EventsMoved
<1>5. ASSUME spc # "wait", spc' = "wait" PROVE Consumes(E, X)
  <2>1. Len(Events) = Len(xq) + 1 /\ Len(Events) - 1 = Len(xq) /\ Events' = xq'
    BY <1>1, <1>2, <1>3, <1>5
  <2>2. /\ 1 \in 0 .. Len(Events) /\ Len(Events) - 1 <= Len(Events')
        /\ \A i \in 1 .. Len(Events) - 1 : Events'[i] = Events[i + 1]
        /\ \A i \in 1 .. Len(Events') : i > Len(Events) - 1 => Events'[i] \in E
        /\ \A i, j \in 1 .. Len(Events') :
             Len(Events) - 1 < i /\ i <= j => <<Events'[i], Events'[j]>> \in X
    BY <1>1, <1>3, <1>5, <2>1
  <2> QED BY <1>1, <1>2, <1>5, <2>2, EventsMoved
<1>6. ASSUME spc # "wait", spc' # "wait", UNCHANGED ev PROVE Adds(E, X)
  <2>1. Len(Events) = Len(xq) + 1 /\ Len(Events') = Len(xq') + 1
    BY <1>1, <1>2, <1>6
  <2>2. ASSUME NEW i \in 1 .. Len(Events') PROVE i = 1 \/ i - 1 \in 1 .. Len(xq')
    BY <1>3, <2>1
  <2>3. \A i \in 1 .. Len(Events') : i # 1 => Events'[i] = xq'[i - 1] /\ i - 1 \in 1 .. Len(xq')
    <3>1. \A i \in 1 .. Len(Events') : (i - 1) + 1 = i
      BY <2>1, <1>3
    <3> QED BY <1>2, <1>6, <2>2, <3>1
  <2>4. \A i \in 1 .. Len(Events) : Events'[i] = Events[i] /\ i + 0 = i
    <3> SUFFICES ASSUME NEW i \in 1 .. Len(Events) PROVE Events'[i] = Events[i]
      BY <1>1
    <3>1. CASE i = 1
      BY <1>1, <1>2, <1>6, <3>1
    <3>2. CASE i # 1
      <4>1. i - 1 \in 1 .. Len(xq) /\ (i - 1) + 1 = i /\ i \in 1 .. Len(Events')
        BY <1>3, <2>1, <3>2
      <4> QED BY <1>1, <1>6, <2>3, <3>2, <4>1
    <3> QED BY <3>1, <3>2
  <2>5. \A i \in 1 .. Len(Events') : i > Len(Events) =>
          i # 1 /\ i - 1 \in 1 .. Len(xq') /\ i - 1 > Len(xq) /\ Events'[i] = xq'[i - 1]
    BY <1>3, <2>1, <2>3
  <2>6. \A i, j \in 1 .. Len(Events') : Len(Events) < i /\ i <= j =>
          /\ j > Len(Events) /\ i > Len(Events) /\ i - 1 <= j - 1 /\ Len(xq) < i - 1
    BY <1>3, <2>1
  <2>7. /\ \A i \in 1 .. Len(Events') : i > Len(Events) => Events'[i] \in E
        /\ \A i, j \in 1 .. Len(Events') :
             Len(Events) < i /\ i <= j => <<Events'[i], Events'[j]>> \in X
    BY <2>5, <2>6
  <2>8. /\ 0 \in 0 .. Len(Events) /\ Len(Events) - 0 = Len(Events)
        /\ Len(Events) <= Len(Events')
    BY <1>1, <1>3, <2>1
  <2> QED BY <1>1, <1>2, <2>4, <2>7, <2>8, EventsMoved
<1> QED BY <1>4, <1>5, <1>6

LEMMA DueParts ==
  ASSUME NEW p, NEW h, NEW q, Sequence(q)
  PROVE  /\ \A i \in 1 .. Len(q) : q[i] \in DueFrom(p, h, q)
         /\ p # "wait" => h \in DueFrom(p, h, q)
         /\ \A e \in DueFrom(p, h, q) :
              (p # "wait" /\ e = h) \/ \E i \in 1 .. Len(q) : e = q[i]
<1> DEFINE r == EventsFrom(p, h, q) D == DueFrom(p, h, q)
<1>1. /\ Len(r) \in Nat /\ D = {r[i] : i \in 1 .. Len(r)}
      /\ p = "wait" => r = q
      /\ p # "wait" => /\ Len(r) = Len(q) + 1 /\ r[1] = h
                       /\ \A i \in 1 .. Len(q) : r[i + 1] = q[i]
  BY EventsParts DEF DueFrom
<1> HIDE DEF r, D
<1>2. CASE p = "wait"
  BY <1>1, <1>2 DEF D
<1>3. CASE p # "wait"
  <2>0. Len(q) \in Nat
    BY SequenceParts
  <2>1. 1 \in 1 .. Len(r) /\ \A i \in 1 .. Len(q) : i + 1 \in 1 .. Len(r)
    BY <1>1, <1>3, <2>0
  <2>2. \A i \in 1 .. Len(r) : i = 1 \/ (i - 1 \in 1 .. Len(q) /\ (i - 1) + 1 = i)
    BY <1>1, <1>3, <2>0
  <2>3. h \in D /\ \A i \in 1 .. Len(q) : q[i] \in D
    BY <1>1, <1>3, <2>1
  <2>4. \A i \in 1 .. Len(r) : r[i] = h \/ \E j \in 1 .. Len(q) : r[i] = q[j]
    BY <1>1, <1>3, <2>2
  <2> QED BY <1>1, <1>3, <2>3, <2>4 DEF D
<1> QED BY <1>2, <1>3

(* The queue stays.                                                        *)
LEMMA NoEvent ==
  ASSUME Sequence(xq), UNCHANGED xq
  PROVE  /\ UNCHANGED ev /\ (spc = "wait" <=> spc' = "wait") => Adds({}, {})
         /\ spc # "wait" /\ spc' = "wait" => Consumes({}, {})
<1>1. Len(xq) \in Nat
  BY SequenceParts
<1>2. /\ Len(xq) <= Len(xq') /\ Sequence(xq') /\ \A i \in 1 .. Len(xq) : xq'[i] = xq[i]
      /\ \A i \in 1 .. Len(xq') : i > Len(xq) => xq'[i] \in {}
      /\ \A i, j \in 1 .. Len(xq') : Len(xq) < i /\ i <= j => <<xq'[i], xq'[j]>> \in {}
  <2>1. \A i \in 1 .. Len(xq') : ~(i > Len(xq)) /\ ~(Len(xq) < i)
    BY <1>1
  <2> QED BY <1>1, <2>1
<1> QED BY <1>2, QueueMoved

(* Event e is added.                                                       *)
LEMMA NewEvent ==
  ASSUME Sequence(xq), NEW e, xq' = Append(xq, e)
  PROVE  /\ UNCHANGED ev /\ (spc = "wait" <=> spc' = "wait") => Adds({e}, {<<e, e>>})
         /\ spc # "wait" /\ spc' = "wait" => Consumes({e}, {<<e, e>>})
         /\ e \in Due'
<1>1. /\ Len(xq) \in Nat /\ Sequence(xq') /\ Len(xq') = Len(xq) + 1
      /\ \A i \in 1 .. Len(xq) : xq'[i] = xq[i]
      /\ xq'[Len(xq) + 1] = e
  BY SequenceParts, AppendAny
<1>2. /\ Len(xq) <= Len(xq')
      /\ \A i \in 1 .. Len(xq') : i > Len(xq) => xq'[i] \in {e}
      /\ \A i, j \in 1 .. Len(xq') :
           Len(xq) < i /\ i <= j => <<xq'[i], xq'[j]>> \in {<<e, e>>}
  <2>1. \A i \in 1 .. Len(xq') : i > Len(xq) => i = Len(xq) + 1
    BY <1>1
  <2>2. \A i, j \in 1 .. Len(xq') : Len(xq) < i /\ i <= j => i = Len(xq) + 1 /\ j = Len(xq) + 1
    BY <1>1
  <2> QED BY <1>1, <2>1, <2>2
<1>3. e \in Due'
  <2>1. \A i \in 1 .. Len(xq') : xq'[i] \in Due'
    BY <1>1, DueParts DEF Due
  <2>2. Len(xq) + 1 \in 1 .. Len(xq')
    BY <1>1
  <2> QED BY <1>1, <2>1, <2>2
<1> QED BY <1>1, <1>2, <1>3, QueueMoved

(* Events e and f are added.                                               *)
LEMMA NewEvents ==
  ASSUME Sequence(xq), NEW e, NEW f, xq' = xq \o <<e, f>>,
         UNCHANGED ev, spc = "wait" <=> spc' = "wait"
  PROVE  /\ Adds({e, f}, {<<e, e>>, <<e, f>>, <<f, f>>})
         /\ e \in Due' /\ f \in Due'
<1> DEFINE z == <<e, f>>
<1>1. z \in Seq({e, f}) /\ Len(z) = 2 /\ z[1] = e /\ z[2] = f
  OBVIOUS
<1>2. Sequence(z) /\ xq' = xq \o z
  BY <1>1 DEF Sequence
<1> HIDE DEF z
<1>3. /\ Len(xq) \in Nat /\ Sequence(xq') /\ Len(xq') = Len(xq) + Len(z)
      /\ \A i \in 1 .. Len(xq) + Len(z) :
           xq'[i] = IF i <= Len(xq) THEN xq[i] ELSE z[i - Len(xq)]
  BY <1>2, SequenceParts, ConcatAny
<1>4. Len(xq') = Len(xq) + 2 /\ \A i \in 1 .. Len(xq) : xq'[i] = xq[i]
  BY <1>1, <1>3
<1>5. xq'[Len(xq) + 1] = e /\ xq'[Len(xq) + 2] = f
  <2>1. /\ Len(xq) + 1 \in 1 .. Len(xq) + Len(z) /\ ~(Len(xq) + 1 <= Len(xq))
        /\ Len(xq) + 2 \in 1 .. Len(xq) + Len(z) /\ ~(Len(xq) + 2 <= Len(xq))
        /\ (Len(xq) + 1) - Len(xq) = 1 /\ (Len(xq) + 2) - Len(xq) = 2
    BY <1>1, <1>3
  <2> QED BY <1>1, <1>3, <2>1
<1>6. /\ Len(xq) <= Len(xq')
      /\ \A i \in 1 .. Len(xq') : i > Len(xq) => xq'[i] \in {e, f}
      /\ \A i, j \in 1 .. Len(xq') :
           Len(xq) < i /\ i <= j => <<xq'[i], xq'[j]>> \in {<<e, e>>, <<e, f>>, <<f, f>>}
  <2>1. \A i \in 1 .. Len(xq') : i > Len(xq) => i = Len(xq) + 1 \/ i = Len(xq) + 2
    BY <1>3, <1>4
  <2>2. ASSUME NEW i \in 1 .. Len(xq'), NEW j \in 1 .. Len(xq'), Len(xq) < i, i <= j
        PROVE  \/ i = Len(xq) + 1 /\ j = Len(xq) + 1
               \/ i = Len(xq) + 1 /\ j = Len(xq) + 2
               \/ i = Len(xq) + 2 /\ j = Len(xq) + 2
    BY <1>3, <1>4, <2>2
  <2>3. \A i, j \in 1 .. Len(xq') :
           Len(xq) < i /\ i <= j => <<xq'[i], xq'[j]>> \in {<<e, e>>, <<e, f>>, <<f, f>>}
    BY <1>5, <2>2
  <2>4. Len(xq) <= Len(xq')
    BY <1>3, <1>4
  <2>5. \A i \in 1 .. Len(xq') : i > Len(xq) => xq'[i] \in {e, f}
    BY <1>5, <2>1
  <2> QED BY <2>3, <2>4, <2>5
<1>7. e \in Due' /\ f \in Due'
  <2>1. \A i \in 1 .. Len(xq') : xq'[i] \in Due'
    BY <1>3, DueParts DEF Due
  <2>2. Len(xq) + 1 \in 1 .. Len(xq') /\ Len(xq) + 2 \in 1 .. Len(xq')
    BY <1>3, <1>4
  <2> QED BY <1>5, <2>1, <2>2
<1> QED BY <1>3, <1>4, <1>6, <1>7, QueueMoved

(* Events of set E are added.                                              *)
LEMMA SomeEvents ==
  ASSUME Sequence(xq), Sequence(xq'), NEW E, Grows(E),
         UNCHANGED ev, spc = "wait" <=> spc' = "wait"
  PROVE  Adds(E, E \X E)
<1>1. Len(xq) \in Nat /\ Len(xq') \in Nat /\ Len(xq) <= Len(xq')
  BY SequenceParts DEF Grows
<1>2. \A i \in 1 .. Len(xq) : xq'[i] = xq[i]
  <2>1. \A i \in 1 .. Len(xq) : i \in 1 .. Len(xq')
    BY <1>1
  <2> QED BY <2>1 DEF Grows
<1>3. \A i \in 1 .. Len(xq') : i > Len(xq) => xq'[i] \in E
  <2>1. \A i \in 1 .. Len(xq') : i > Len(xq) => i \notin 1 .. Len(xq)
    BY <1>1
  <2> QED BY <2>1 DEF Grows
<1>4. \A i, j \in 1 .. Len(xq') :
        Len(xq) < i /\ i <= j => <<xq'[i], xq'[j]>> \in E \X E
  <2>1. \A i, j \in 1 .. Len(xq') : Len(xq) < i /\ i <= j => i > Len(xq) /\ j > Len(xq)
    BY <1>1
  <2> QED BY <1>3, <2>1
<1> QED BY <1>1, <1>2, <1>3, <1>4, QueueMoved

LEMMA WakeEvents == ASSUME Sequence(xq), Wake PROVE Adds({}, {})
<1>1. /\ ev' = Head(xq) /\ xq' = Tail(xq) /\ xq # <<>> /\ spc = "wait" /\ spc' = "scan"
  BY DEF Wake
<1>2. /\ ev' = xq[1] /\ Len(xq) \in Nat \ {0} /\ Len(xq') = Len(xq) - 1 /\ Sequence(xq')
      /\ \A i \in 1 .. Len(xq') : xq'[i] = xq[i + 1]
  BY <1>1, SequenceParts, TailAny
<1>3. Events = xq
  BY <1>1, EventsParts DEF Events
<1>4. /\ Len(Events') = Len(xq') + 1 /\ Events'[1] = ev'
      /\ \A i \in 1 .. Len(xq') : Events'[i + 1] = xq'[i]
  <2>1. spc' # "wait"
    BY <1>1
  <2> QED BY <1>2, <2>1, EventsParts DEF Events
<1>5. Len(Events') = Len(Events) /\ Len(Events) \in Nat
  BY <1>2, <1>3, <1>4
<1>6. ASSUME NEW i \in 1 .. Len(Events) PROVE Events'[i] = Events[i]
  <2>1. CASE i = 1
    BY <1>2, <1>3, <1>4, <2>1
  <2>2. CASE i # 1
    <3>1. i - 1 \in 1 .. Len(xq') /\ (i - 1) + 1 = i
      BY <1>2, <1>3, <2>2
    <3> QED BY <1>2, <1>3, <1>4, <3>1
  <2> QED BY <2>1, <2>2
<1>7. /\ 0 \in 0 .. Len(Events) /\ Len(Events) - 0 = Len(Events)
      /\ \A i \in 1 .. Len(Events) : i + 0 = i
      /\ \A i \in 1 .. Len(Events') : ~(i > Len(Events))
      /\ Len(Events) <= Len(Events')
  BY <1>5
<1>8. /\ Len(Events) - 0 <= Len(Events')
      /\ \A i \in 1 .. Len(Events) - 0 : Events'[i] = Events[i + 0]
      /\ \A i \in 1 .. Len(Events') : i > Len(Events) - 0 => Events'[i] \in {}
      /\ \A i, j \in 1 .. Len(Events') :
           Len(Events) - 0 < i /\ i <= j => <<Events'[i], Events'[j]>> \in {}
  <2>1. \A i \in 1 .. Len(Events') : ~(Len(Events) < i)
    BY <1>5
  <2> QED BY <1>6, <1>7, <2>1
<1> QED BY <1>5, <1>7, <1>8, EventsMoved

(* What is known of conversions of data, said of the events to handle.     *)
LEMMA SeparateDue ==
  ASSUME Sequence(xq), Separate, NEW e \in Due, DataReply(e)
  PROVE  /\ \A t \in Selections : \A i : ~DataAsked(t, i)
         /\ Alone(e.sel, e.arg)
         /\ reading.atom = None
         /\ spc # "wait" /\ DataReply(ev) => \A i : ~DataReplied(i)
<1>1. (spc # "wait" /\ e = ev) \/ \E i \in 1 .. Len(xq) : e = xq[i]
  BY DueParts DEF Due
<1>2. CASE spc # "wait" /\ e = ev
  <2>1. ReplyInHand
    BY <1>2 DEF ReplyInHand
  <2> QED BY <1>2, <2>1 DEF Separate, OneConversion, ConvertsAlone, ReadsAlone, NoConversion
<1>3. CASE \E i \in 1 .. Len(xq) : e = xq[i]
  <2>1. PICK i \in 1 .. Len(xq) : e = xq[i]
    BY <1>3
  <2>2. DataReplied(i)
    BY <2>1 DEF DataReplied
  <2>3. ~(spc # "wait" /\ DataReply(ev))
    BY <2>2 DEF Separate, OneConversion, ReplyInHand
  <2> QED BY <2>1, <2>2, <2>3 DEF Separate, OneConversion, ConvertsAlone, ReadsAlone, NoConversion
<1> QED BY <1>1, <1>2, <1>3

(* What a sequence holds.                                                  *)
Elements(q) == {q[i] : i \in 1 .. Len(q)}

Conversions(s) == Elements(apps[s].conv)

LEMMA ElementsAppend ==
  ASSUME NEW q, Sequence(q), NEW r
  PROVE  Elements(Append(q, r)) = Elements(q) \cup {r}
<1>1. /\ Len(q) \in Nat /\ Len(Append(q, r)) = Len(q) + 1
      /\ \A i \in 1 .. Len(q) : Append(q, r)[i] = q[i]
      /\ Append(q, r)[Len(q) + 1] = r
  BY SequenceParts, AppendAny
<1>2. /\ Len(q) + 1 \in 1 .. Len(Append(q, r))
      /\ \A i \in 1 .. Len(Append(q, r)) : i \in 1 .. Len(q) \/ i = Len(q) + 1
      /\ \A i \in 1 .. Len(q) : i \in 1 .. Len(Append(q, r))
  BY <1>1
<1>3. \A i \in 1 .. Len(Append(q, r)) : Append(q, r)[i] \in Elements(q) \cup {r}
  BY <1>1, <1>2 DEF Elements
<1>4. /\ r \in Elements(Append(q, r))
      /\ \A i \in 1 .. Len(q) : q[i] \in Elements(Append(q, r))
  BY <1>1, <1>2 DEF Elements
<1> QED BY <1>3, <1>4 DEF Elements

LEMMA ElementsTail ==
  ASSUME NEW q, Sequence(q), q # <<>>
  PROVE  /\ Elements(q) = Elements(Tail(q)) \cup {Head(q)}
         /\ Sequence(Tail(q))
<1>1. /\ Len(q) \in Nat \ {0} /\ Len(Tail(q)) = Len(q) - 1 /\ Head(q) = q[1]
      /\ \A i \in 1 .. Len(Tail(q)) : Tail(q)[i] = q[i + 1]
      /\ Sequence(Tail(q))
  BY SequenceParts, TailAny
<1>2. /\ 1 \in 1 .. Len(q)
      /\ \A i \in 1 .. Len(Tail(q)) : i + 1 \in 1 .. Len(q)
      /\ \A i \in 1 .. Len(q) : i = 1 \/ (i - 1 \in 1 .. Len(Tail(q)) /\ (i - 1) + 1 = i)
  BY <1>1
<1>3. \A i \in 1 .. Len(Tail(q)) : Tail(q)[i] \in Elements(q)
  BY <1>1, <1>2 DEF Elements
<1>4. \A i \in 1 .. Len(q) : q[i] = Head(q) \/ \E j \in 1 .. Len(Tail(q)) : q[i] = Tail(q)[j]
  BY <1>1, <1>2
<1>5. Head(q) \in Elements(q)
  BY <1>1, <1>2 DEF Elements
<1> QED BY <1>1, <1>3, <1>4, <1>5 DEF Elements

(* A conversion to TARGETS for contents of kind k.                         *)
Names(r, k) == r.target = "TARGETS" /\ r.copy.kind = k

(* A conversion to TARGETS is followed by one for contents of kind k.      *)
Freshest(q, k) ==
  \A i \in 1 .. Len(q) :
    q[i].target = "TARGETS" => \E j \in i .. Len(q) : Names(q[j], k)

LEMMA FreshestAppend ==
  ASSUME NEW q, Sequence(q), NEW r, NEW k,
         Names(r, k) \/ (Freshest(q, k) /\ r.target # "TARGETS")
  PROVE  Freshest(Append(q, r), k)
<1> DEFINE p == Append(q, r)
<1>1. /\ Len(q) \in Nat /\ Len(p) = Len(q) + 1
      /\ \A i \in 1 .. Len(q) : p[i] = q[i]
      /\ p[Len(q) + 1] = r
  BY SequenceParts, AppendAny
<1> HIDE DEF p
<1>2. CASE Names(r, k)
  <2>1. Names(p[Len(p)], k)
    BY <1>1, <1>2
  <2>2. \A i \in 1 .. Len(p) : Len(p) \in i .. Len(p)
    BY <1>1
  <2> QED BY <2>1, <2>2 DEF Freshest, p
<1>3. CASE Freshest(q, k) /\ r.target # "TARGETS"
  <2>1. ASSUME NEW i \in 1 .. Len(p), p[i].target = "TARGETS"
        PROVE  \E j \in i .. Len(p) : Names(p[j], k)
    <3>1. i \in 1 .. Len(q)
      BY <1>1, <1>3, <2>1
    <3>2. PICK j \in i .. Len(q) : Names(q[j], k)
      BY <1>1, <1>3, <2>1, <3>1 DEF Freshest
    <3>3. j \in 1 .. Len(q) /\ j \in i .. Len(p)
      BY <1>1, <3>1, <3>2
    <3> QED BY <1>1, <3>2, <3>3
  <2> QED BY <2>1 DEF Freshest, p
<1> QED BY <1>2, <1>3

LEMMA FreshestTail ==
  ASSUME NEW q, Sequence(q), q # <<>>, NEW k, Freshest(q, k)
  PROVE  /\ Freshest(Tail(q), k)
         /\ Head(q).target = "TARGETS" =>
              Names(Head(q), k) \/ \E r \in Elements(Tail(q)) : Names(r, k)
<1> DEFINE p == Tail(q)
<1>1. /\ Len(q) \in Nat \ {0} /\ Len(p) = Len(q) - 1 /\ Head(q) = q[1]
      /\ \A i \in 1 .. Len(p) : p[i] = q[i + 1]
  BY SequenceParts, TailAny
<1> HIDE DEF p
<1>2. ASSUME NEW i \in 1 .. Len(p), p[i].target = "TARGETS"
      PROVE  \E j \in i .. Len(p) : Names(p[j], k)
  <2>1. i + 1 \in 1 .. Len(q) /\ q[i + 1].target = "TARGETS"
    BY <1>1, <1>2
  <2>2. PICK j \in i + 1 .. Len(q) : Names(q[j], k)
    BY <2>1 DEF Freshest
  <2>3. j - 1 \in i .. Len(p) /\ j - 1 \in 1 .. Len(p) /\ (j - 1) + 1 = j
    BY <1>1, <2>2
  <2> QED BY <1>1, <2>2, <2>3
<1>3. ASSUME q[1].target = "TARGETS"
      PROVE  Names(q[1], k) \/ \E r \in Elements(p) : Names(r, k)
  <2>1. 1 \in 1 .. Len(q)
    BY <1>1
  <2>2. PICK j \in 1 .. Len(q) : Names(q[j], k)
    BY <1>3, <2>1 DEF Freshest
  <2>3. CASE j # 1
    <3>1. j - 1 \in 1 .. Len(p) /\ (j - 1) + 1 = j
      BY <1>1, <2>3
    <3>2. p[j - 1] \in Elements(p) /\ p[j - 1] = q[j]
      BY <1>1, <3>1 DEF Elements
    <3> QED BY <2>2, <3>2
  <2> QED BY <2>2, <2>3
<1> QED BY <1>1, <1>2, <1>3 DEF Freshest, p

(* Nothing is held by an empty sequence only.                              *)
LEMMA ElementsNone ==
  ASSUME NEW q, Sequence(q)
  PROVE  Elements(q) = {} <=> q = <<>>
<1>1. Len(q) \in Nat /\ (Len(q) = 0 <=> q = <<>>)
  BY SequenceParts
<1>2. Len(q) # 0 => 1 \in 1 .. Len(q)
  BY <1>1
<1>3. Len(q) = 0 => 1 .. Len(q) = {}
  BY <1>1
<1> QED BY <1>1, <1>2, <1>3 DEF Elements

-----------------------------------------------------------------------------
(* The events that matter to what the client will get.                     *)

Matters(e) ==
  \/ e.type \in {"reply", "newvalue"}
  \/ ServerMayOwn /\ e.type = "owner" /\ e.arg = "app"

(* The steps that leave the applications, their data and these events      *)
(* alone.                                                                  *)
Calm ==
  /\ UNCHANGED <<reading, prop, apps, best>>
  /\ \A e : Matters(e) => (e \in Due <=> e \in Due')
  /\ \A e, f : Matters(e) /\ Matters(f) /\ <<e, f>> \in Ordered' => <<e, f>> \in Ordered

LEMMA OrderedDue ==
  ASSUME NEW e, NEW f, <<e, f>> \in Ordered PROVE e \in Due /\ f \in Due
BY DEF Ordered

LEMMA CalmEvents ==
  ASSUME UNCHANGED <<reading, prop, apps, best>>, NEW E, NEW X,
         \A e \in E : ~Matters(e), X \subseteq E \X E,
         Adds(E, X) \/ (Consumes(E, X) /\ ~Matters(ev))
  PROVE  Calm
<1>1. Due' \subseteq Due \cup E /\ Ordered' \subseteq (Ordered \cup (Due \X E)) \cup X
  BY DEF Adds, Consumes
<1>2. \A e \in Due : Matters(e) => e \in Due'
  BY DEF Adds, Consumes
<1>3. ASSUME NEW e, NEW f, Matters(e), Matters(f), <<e, f>> \in Ordered'
      PROVE  <<e, f>> \in Ordered
  BY <1>1, <1>3
<1> QED BY <1>1, <1>2, <1>3 DEF Calm

(* The thread acts upon an event that matters.                             *)
Renews ==
  /\ OwnerChanged /\ ServerMayOwn
  /\ Converts(ev.sel, "TARGETS", prop, StopReading(reading, ev.sel))

Demands == DataDemanded /\ Converts(ev.sel, best[ev.sel], prop, reading) /\ best[ev.sel] # None

LEMMA NextCalm ==
  ASSUME Exchange, [Next]_vars
  PROVE  \/ Calm /\ \A s \in Selections : xowner'[s] \in {xowner[s], "us"}
         \/ \E s \in Selections : \/ \E k \in AppKinds : AppCopies(s, k)
                                  \/ AppConverts(s) \/ AppPortion(s)
         \/ Renews \/ Demands \/ ConversionDone \/ PropertyChanged
<1> DEFINE Held == \A s \in Selections : xowner'[s] \in {xowner[s], "us"}
           Boring == UNCHANGED <<reading, prop, apps, best>>
<1>1. /\ Sequence(xq) /\ Shape /\ Stream(toServer) /\ DOMAIN xowner = Selections
      /\ Sequence(xq')
  <2>1. Exchange'
    BY NextExchange
  <2> QED BY <2>1 DEF Exchange, Invariant, Incoming, Shape
<1>2. ASSUME Boring, UNCHANGED xq, UNCHANGED ev, spc = "wait" <=> spc' = "wait"
      PROVE  Calm
  BY <1>1, <1>2, NoEvent, CalmEvents
<1>3. ASSUME Boring, UNCHANGED xq, spc # "wait", spc' = "wait", ~Matters(ev)
      PROVE  Calm
  BY <1>1, <1>3, NoEvent, CalmEvents
<1>4. ASSUME Boring, NEW e, ~Matters(e), xq' = Append(xq, e), UNCHANGED <<ev, spc>>
      PROVE  Calm
  <2>1. Adds({e}, {<<e, e>>})
    BY <1>1, <1>4, NewEvent
  <2> QED BY <1>4, <2>1, CalmEvents
<1>5. CASE MainThread
  <2>1. PICK E : Grows(E) /\ \A e \in E : Notice(e)
    BY <1>1, <1>5, MainGrows
  <2>2. /\ UNCHANGED <<spc, ev>> /\ Boring
    BY <1>5 DEF MainThread, ReadNotify, ReadChunk, ReadRest, ReadDemand, thread, outgoing,
                xserver
  <2>3. Adds(E, E \X E)
    BY <1>1, <2>1, <2>2, SomeEvents
  <2>4. Calm
    BY <2>1, <2>2, <2>3, CalmEvents DEF Notice, Matters
  <2>5. Held
    BY <1>1, <1>5 DEF MainThread, ReadNotify, ReadChunk, ReadRest, ReadDemand, OwnsNow,
                      xserver
  <2> QED BY <2>4, <2>5
<1>6. CASE Wake
  <2>1. Adds({}, {})
    BY <1>1, <1>6, WakeEvents
  <2>2. Boring /\ Held
    BY <1>6 DEF Wake, outgoing, xserver
  <2> QED BY <2>1, <2>2, CalmEvents
<1>7. CASE ScanDelayed \/ ScanDone \/ PruneDelayed \/ PruneDone
  <2>1. /\ Boring /\ Held /\ UNCHANGED <<xq, ev>> /\ (spc = "wait" <=> spc' = "wait")
    BY <1>7 DEF ScanDelayed, ScanDone, PruneDelayed, PruneDone, outgoing, xserver
  <2> QED BY <1>2, <2>1
<1>8. CASE AnswerRequest \/ DelayRequest \/ NextPortion \/ DataReady
  <2>1. /\ Boring /\ Held /\ UNCHANGED xq /\ spc # "wait" /\ spc' = "wait"
        /\ ev.type \in {"request", "deleted", "ready"}
    BY <1>8 DEF AnswerRequest, DelayRequest, NextPortion, DataReady, outgoing, xserver,
                Handles
  <2> QED BY <1>3, <2>1 DEF Matters
<1>9. CASE OwnerChanged /\ ~Renews
  <2>1. /\ UNCHANGED <<reading, prop, apps, xq, best, xowner>>
        /\ (ev.arg = "us" \/ ~ServerMayOwn)
        /\ spc # "wait" /\ spc' = "wait" /\ ev.type = "owner"
    BY <1>9 DEF OwnerChanged, Handles, Renews
  <2>2. ~Matters(ev)
    BY <2>1 DEF Matters
  <2> QED BY <1>3, <2>1, <2>2
<1>10. CASE DataDemanded /\ ~Demands
  <2>1. /\ UNCHANGED <<reading, prop, apps, xq, best, xowner>>
        /\ spc # "wait" /\ spc' = "wait" /\ ev.type = "demand"
    BY <1>10 DEF DataDemanded, Handles, Demands
  <2> QED BY <1>3, <2>1 DEF Matters
<1>11. CASE \/ SendingThread \/ Tick \/ ClientReads \/ ClientLeaves \/ ClientArrives
            \/ \E s \in Selections :
                 (\E k \in ClientKinds : ClientCopies(s, k)) \/ ClientDemands(s)
            \/ UNCHANGED vars
  <2>1. Boring /\ Held /\ UNCHANGED <<xq, spc, ev>>
    BY <1>11 DEF SendingThread, SendChunk, SendRequest, Tick, ClientReads, ClientLeaves,
                 ClientArrives, ClientCopies, ClientDemands, thread, outgoing, xserver, vars
  <2> QED BY <1>2, <2>1
<1>12. ASSUME NEW s \in Selections, NEW r \in Requests,
              NEW target \in ClientKinds \cup {"meta"}, NEW t \in {0, clock},
              AppPastes(r, s, target, t)
       PROVE  Calm /\ Held
  <2>1. /\ xq' = Append(xq, Event("request", s, r)) /\ Boring /\ Held
        /\ UNCHANGED <<spc, ev>>
    BY <1>12 DEF AppPastes, thread, outgoing, xserver
  <2>2. ~Matters(Event("request", s, r))
    BY EventParts DEF Matters
  <2> QED BY <1>4, <2>1, <2>2
<1>13. ASSUME NEW r \in Requests, AppDeletes(r) PROVE Calm /\ Held
  <2>1. /\ xq' = Append(xq, Event("deleted", answer[r].sel, r)) /\ Boring /\ Held
        /\ UNCHANGED <<spc, ev>>
    BY <1>13 DEF AppDeletes, thread, outgoing, xserver
  <2>2. ~Matters(Event("deleted", answer[r].sel, r))
    BY EventParts DEF Matters
  <2> QED BY <1>4, <2>1, <2>2
<1> QED
  <2> HIDE DEF Held
  <2>1. CASE SelectionThread
    BY <1>6, <1>7, <1>8, <1>9, <1>10, <2>1 DEF SelectionThread, Held
  <2>2. CASE Environment
    BY <1>11, <1>12, <1>13, <2>2 DEF Environment, Held
  <2> QED BY <1>5, <1>11, <2>1, <2>2 DEF Next, Held

-----------------------------------------------------------------------------
(* What the steps that matter do.                                          *)

ReplyOf(e, s) == e.type = "reply" /\ e.sel = s

NewValue(e, a) == e.type = "newvalue" /\ e.arg = a

OwnerOf(e, s) == e.type = "owner" /\ e.sel = s /\ e.arg = "app"

LEMMA DueKnown ==
  ASSUME Sequence(xq), EventsKnown, NEW e \in Due PROVE Known(e)
BY DueParts DEF Due, EventsKnown

LEMMA InHand ==
  ASSUME Sequence(xq), spc # "wait" PROVE ev \in Due
BY DueParts DEF Due

(* Something is converted, but not refused, for selection t.               *)
Busy(t) == Conversions(t) # {} \/ \E e \in Due : ReplyOf(e, t) /\ e.arg \in Atoms

LEMMA ConvertsStep ==
  ASSUME Shape, AppsTyped, NEW s \in Selections, NEW a \in Atoms, NEW p, PropTyped(p),
         NEW rd, IsReading(rd), UNCHANGED <<xowner, ev>>, spc # "wait", spc' = "wait",
         Converts(s, a, p, rd)
  PROVE  /\ prop'[a] = None /\ \A b \in Atoms : b # a => prop'[b] = p[b]
         /\ \A t \in Selections : /\ t # s => apps'[t] = apps[t]
                                  /\ apps'[t].sending = apps[t].sending
                                  /\ apps'[t].copy = apps[t].copy
         /\ reading'.atom = rd.atom /\ reading'.current = rd.current
         /\ ~reading'.mixed => ~rd.mixed /\ ~Overlaps(s, a, rd)
         /\ xowner[s] = "app" =>
              apps'[s].conv = Append(apps[s].conv, [target |-> a, copy |-> apps[s].copy])
         /\ xowner[s] # "app" => apps'[s].conv = apps[s].conv
         /\ \E E : /\ Consumes(E, E \X E)
                   /\ \A e \in E : ReplyOf(e, s) /\ e.arg = None /\ xowner[s] # "app"
<1> DEFINE r == [target |-> a, copy |-> apps[s].copy]
           q == Append(apps[s].conv, r)
           b == [apps[s] EXCEPT !.conv = q]
           g == Event("reply", s, None)
<1>1. /\ \A t \in Selections : /\ t # s => apps'[t] = apps[t]
                               /\ apps'[t].sending = apps[t].sending
                               /\ apps'[t].copy = apps[t].copy
      /\ reading'.atom = rd.atom /\ reading'.current = rd.current
      /\ ~reading'.mixed => ~rd.mixed /\ ~Overlaps(s, a, rd)
  BY ConvertsTyped
<1>2. prop'[a] = None /\ \A c \in Atoms : c # a => prop'[c] = p[c]
  <2>1. prop' = [p EXCEPT ![a] = None]
    BY DEF Converts
  <2> QED BY <2>1, PropCleared
<1>3. Sequence(xq)
  BY DEF Shape
<1>4. CASE xowner[s] = "app"
  <2>1. apps' = [apps EXCEPT ![s] = b] /\ UNCHANGED xq
    BY <1>4 DEF Converts
  <2>2. apps'[s].conv = q
    <3>1. DOMAIN apps[s] = {"copy", "conv", "sending", "left"} /\ DOMAIN apps = Selections
      BY DEF AppsTyped, IsApp
    <3> HIDE DEF q
    <3> QED BY <2>1, <3>1
  <2>3. Consumes({}, {})
    BY <1>3, <2>1, NoEvent
  <2>4. Consumes({}, {} \X {})
    <3>1. {} \X {} = {}
      OBVIOUS
    <3> QED BY <2>3, <3>1
  <2>5. \E E : /\ Consumes(E, E \X E)
               /\ \A e \in E : ReplyOf(e, s) /\ e.arg = None /\ xowner[s] # "app"
    <3>1. \A e \in {} : ReplyOf(e, s) /\ e.arg = None /\ xowner[s] # "app"
      OBVIOUS
    <3> QED BY <2>4, <3>1
  <2> HIDE DEF q, r, b, g
  <2> QED BY <1>1, <1>2, <1>4, <2>2, <2>5 DEF q, r
<1>5. CASE xowner[s] # "app"
  <2>1. xq' = Append(xq, g) /\ UNCHANGED apps
    BY <1>5 DEF Converts
  <2>2. ReplyOf(g, s) /\ g.arg = None
    BY EventParts DEF ReplyOf
  <2> HIDE DEF g
  <2>3. Consumes({g}, {<<g, g>>})
    BY <1>3, <2>1, NewEvent
  <2>4. Consumes({g}, {g} \X {g})
    <3>1. {g} \X {g} = {<<g, g>>}
      OBVIOUS
    <3> QED BY <2>3, <3>1
  <2>5. \E E : /\ Consumes(E, E \X E)
               /\ \A e \in E : ReplyOf(e, s) /\ e.arg = None /\ xowner[s] # "app"
    <3> DEFINE G == {g}
    <3>1. \A e \in G : ReplyOf(e, s) /\ e.arg = None /\ xowner[s] # "app"
      BY <1>5, <2>2
    <3>2. Consumes(G, G \X G)
      BY <2>4
    <3> HIDE DEF G
    <3> QED BY <3>1, <3>2
  <2> HIDE DEF q, r, b
  <2> QED BY <1>1, <1>2, <1>5, <2>1, <2>5
<1> QED BY <1>4, <1>5

(* A conversion that overlaps with nothing is the only one of data, and of *)
(* any kind but for its selection.                                         *)
LEMMA ConvertsApart ==
  ASSUME Shape, AppsTyped, EventsKnown, PropTyped(prop), NEW s \in Selections,
         NEW a \in Atoms, NEW p, NEW rd, Converts(s, a, p, rd), ~Overlaps(s, a, rd),
         spc' = "wait", Sequence(xq')
  PROVE  /\ \A t \in Selections : t # s => ~Busy(t)'
         /\ a \in Kinds => rd.atom = None /\ \A e \in Due' : ~DataReply(e)
<1> DEFINE g == Event("reply", s, None)
<1>1. /\ Sequence(xq) /\ Len(xq) \in Nat /\ DOMAIN xq = 1 .. Len(xq) /\ DOMAIN prop = Atoms
      /\ \A t \in Selections : /\ Sequence(apps[t].conv)
                               /\ DOMAIN apps[t].conv = 1 .. Len(apps[t].conv)
      /\ DOMAIN apps = Selections
  BY SequenceParts DEF Shape, AppsTyped, IsApp, PropTyped
<1>2. \A t \in Selections, b \in Atoms : t # s \/ {a, b} \subseteq Kinds => ~Converting(t, b)
  BY <1>1 DEF Overlaps
<1>3. ReplyOf(g, s) /\ g.arg = None /\ None \notin Atoms /\ g.type = "reply" /\ g.sel = s
  BY EventParts, KindsAssumption DEF ReplyOf, Atoms
<1>4. \A e \in Due' : (\E i \in 1 .. Len(xq) : e = xq[i]) \/ (e = g /\ xq' = Append(xq, g))
  <2>1. \A e \in Due' : \E i \in 1 .. Len(xq') : e = xq'[i]
    BY DueParts DEF Due
  <2>2. xq' = xq \/ xq' = Append(xq, g)
    BY DEF Converts
  <2> HIDE DEF g
  <2>3. CASE xq' = Append(xq, g)
    <3>1. /\ Len(xq') = Len(xq) + 1 /\ xq'[Len(xq) + 1] = g
          /\ \A i \in 1 .. Len(xq) : xq'[i] = xq[i]
      BY <1>1, <2>3, AppendAny
    <3>2. \A i \in 1 .. Len(xq') : i \in 1 .. Len(xq) \/ i = Len(xq) + 1
      BY <1>1, <3>1
    <3> QED BY <2>1, <2>3, <3>1, <3>2
  <2> QED BY <2>1, <2>2, <2>3
<1> HIDE DEF g
<1>5. ASSUME NEW t \in Selections, t # s PROVE ~Busy(t)'
  <2>1. Conversions(t) = {}
    <3>1. \A i \in 1 .. Len(apps[t].conv) : apps[t].conv[i].target \in Atoms
      BY DEF AppsTyped, IsApp
    <3>2. \A i \in 1 .. Len(apps[t].conv) : FALSE
      BY <1>1, <1>2, <1>5, <3>1 DEF Converting
    <3> QED BY <3>2 DEF Conversions, Elements
  <2>2. apps'[t] = apps[t]
    <3> DEFINE q == Append(apps[s].conv, [target |-> a, copy |-> apps[s].copy])
    <3>1. apps' = apps \/ apps' = [apps EXCEPT ![s].conv = q]
      BY DEF Converts
    <3> HIDE DEF q
    <3> QED BY <1>1, <1>5, <3>1
  <2>3. Conversions(t)' = {}
    BY <2>1, <2>2 DEF Conversions
  <2>4. ASSUME NEW e \in Due', ReplyOf(e, t), e.arg \in Atoms PROVE FALSE
    <3>1. CASE e = g
      BY <1>3, <2>4, <3>1
    <3>2. CASE \E i \in 1 .. Len(xq) : e = xq[i]
      BY <1>1, <1>2, <1>5, <2>4, <3>2 DEF Converting, ReplyOf
    <3> QED BY <1>4, <3>1, <3>2
  <2> QED BY <2>3, <2>4 DEF Busy
<1>6. ASSUME a \in Kinds PROVE rd.atom = None /\ \A e \in Due' : ~DataReply(e)
  <2>1. rd.atom = None
    BY <1>6 DEF Overlaps
  <2>2. ASSUME NEW e \in Due', DataReply(e) PROVE FALSE
    <3>1. CASE e = g
      BY <1>3, <2>2, <3>1 DEF DataReply, Atoms
    <3>2. CASE \E i \in 1 .. Len(xq) : e = xq[i]
      <4>1. PICK i \in 1 .. Len(xq) : e = xq[i]
        BY <3>2
      <4>2. e.sel \in Selections
        BY <2>2, <4>1 DEF EventsKnown, Known, DataReply
      <4>3. ~Converting(e.sel, e.arg)
        BY <1>2, <1>6, <2>2, <4>2 DEF DataReply, Atoms
      <4> QED BY <1>1, <2>2, <4>1, <4>3 DEF Converting, DataReply
    <3> QED BY <1>4, <3>1, <3>2
  <2> QED BY <2>1, <2>2
<1> QED BY <1>5, <1>6

(* Copies have versions.                                                   *)
Versioned ==
  \A s \in Selections :
    /\ apps[s].copy.ver \in Nat /\ apps[s].sending.ver \in Nat
    /\ \A r \in Conversions(s) : r.copy.ver \in Nat

LEMMA ValueWritten ==
  ASSUME NEW t \in {"TARGETS", "data", "INCR"}, NEW s \in Selections, NEW c, c.ver \in Nat,
         c.kind \in Kinds \cup AppKinds, NEW n \in Nat
  PROVE  Value(t, s, c, n) # None
<1>1. Value(t, s, c, n) \in [type : {"TARGETS", "data", "INCR"}, src : Selections \X Nat,
                             kind : Kinds \cup AppKinds, size : Nat]
  BY DEF Value
<1> QED BY <1>1, NoneAssumption

LEMMA AppConvertsStep ==
  ASSUME Shape, AppsTyped, PropTyped(prop), Versioned, NEW s \in Selections, AppConverts(s)
  PROVE  LET r == Head(apps[s].conv)
             a == r.target
             e == Event("newvalue", None, a)
             f == Event("reply", s, a)
             g == Event("reply", s, None)
         IN  /\ apps[s].conv # <<>> /\ a \in Atoms /\ r.copy.kind \in AppKinds
             /\ UNCHANGED <<reading, best, xowner>>
             /\ \A t \in Selections : t # s => apps'[t] = apps[t]
             /\ apps'[s].conv = Tail(apps[s].conv) /\ apps'[s].copy = apps[s].copy
             /\ \A b \in Atoms : b # a => prop'[b] = prop[b]
             /\ \/ apps'[s].sending = apps[s].sending
                \/ apps'[s].sending = r.copy /\ a \in Kinds /\ r.copy.kind = a
             /\ \/ /\ a = "TARGETS" \/ (a = r.copy.kind /\ a \in Kinds)
                   /\ prop'[a] # None /\ prop'[a].kind = r.copy.kind
                   /\ prop'[a].type = "INCR" => a \in Kinds /\ apps'[s].sending.kind = a
                   /\ Adds({e, f}, {<<e, e>>, <<e, f>>, <<f, f>>}) /\ e \in Due' /\ f \in Due'
                \/ /\ a \in Kinds /\ a # r.copy.kind /\ UNCHANGED prop
                   /\ apps'[s].sending = apps[s].sending
                   /\ Adds({g}, {<<g, g>>}) /\ g \in Due'
<1> DEFINE p == apps[s]
           r == Head(p.conv)
           c == r.copy
           a == r.target
           q == Tail(p.conv)
           e == Event("newvalue", None, a)
           f == Event("reply", s, a)
           g == Event("reply", s, None)
           done == [apps EXCEPT ![s].conv = Tail(@)]
<1>1. /\ IsApp(p) /\ p.conv # <<>> /\ DOMAIN p = {"copy", "conv", "sending", "left"}
      /\ DOMAIN apps = Selections /\ UNCHANGED <<xowner, reading, best, spc, ev>>
      /\ Sequence(p.conv) /\ Sequence(xq) /\ DOMAIN prop = Atoms
  BY DEF AppConverts, AppsTyped, IsApp, outgoing, thread, Shape, PropTyped
<1>2. r \in Conversions(s)
  BY <1>1, ElementsTail DEF Conversions
<1>3. a \in Atoms /\ c.kind \in AppKinds /\ c.ver \in Nat
  BY <1>1, <1>2, ConvTaken DEF Versioned
<1>4. c.kind # "TARGETS" /\ (a = c.kind => a \in Kinds /\ Size[a] \in Nat)
      /\ (a # "TARGETS" => a \in Kinds)
  BY <1>3, KindsAssumption, SizeAssumption DEF Atoms
<1>5. \/ /\ a = "TARGETS" /\ prop' = [prop EXCEPT ![a] = Value("TARGETS", s, c, 0)]
         /\ xq' = xq \o <<e, f>> /\ apps' = done
      \/ /\ a = c.kind /\ prop' = [prop EXCEPT ![a] = Value("data", s, c, Size[a])]
         /\ xq' = xq \o <<e, f>> /\ apps' = done
      \/ /\ a = c.kind /\ prop' = [prop EXCEPT ![a] = Value("INCR", s, c, Size[a])]
         /\ xq' = xq \o <<e, f>>
         /\ apps' = [done EXCEPT ![s].sending = c, ![s].left = Size[a]]
      \/ /\ a \notin {"TARGETS", c.kind} /\ xq' = Append(xq, g) /\ apps' = done
         /\ UNCHANGED prop
  BY DEF AppConverts
<1> HIDE DEF e, f, g, a, c, q
<1>6. /\ DOMAIN done = Selections /\ \A t \in Selections : t # s => done[t] = apps[t]
      /\ done[s] = [p EXCEPT !.conv = q]
  BY <1>1 DEF q
<1>7. /\ DOMAIN done[s] = {"copy", "conv", "sending", "left"} /\ done[s].conv = q
      /\ done[s].copy = p.copy /\ done[s].sending = p.sending
  BY <1>1, <1>6
<1> HIDE DEF done
<1>8. ASSUME apps' = [done EXCEPT ![s].sending = c, ![s].left = Size[a]]
      PROVE  /\ \A t \in Selections : t # s => apps'[t] = apps[t]
             /\ apps'[s].conv = q /\ apps'[s].copy = p.copy /\ apps'[s].sending = c
  BY <1>6, <1>7, <1>8
<1>9. ASSUME xq' = xq \o <<e, f>>
      PROVE  Adds({e, f}, {<<e, e>>, <<e, f>>, <<f, f>>}) /\ e \in Due' /\ f \in Due'
  BY <1>1, <1>9, NewEvents
<1>10. ASSUME NEW v, v # None, v.kind = c.kind, prop' = [prop EXCEPT ![a] = v]
       PROVE  /\ prop'[a] # None /\ prop'[a].kind = c.kind /\ prop'[a].type = v.type
              /\ \A b \in Atoms : b # a => prop'[b] = prop[b]
  BY <1>1, <1>3, <1>10
<1>11. CASE a = "TARGETS" /\ prop' = [prop EXCEPT ![a] = Value("TARGETS", s, c, 0)]
            /\ xq' = xq \o <<e, f>> /\ apps' = done
  <2> DEFINE v == Value("TARGETS", s, c, 0)
  <2>1. v # None /\ v.kind = c.kind /\ v.type = "TARGETS"
    BY <1>3, ValueWritten, ValueParts
  <2> HIDE DEF v
  <2>2. prop' = [prop EXCEPT ![a] = v]
    BY <1>11 DEF v
  <2> QED BY <1>1, <1>3, <1>6, <1>7, <1>9, <1>10, <1>11, <2>1, <2>2 DEF a, c, e, f, g, q
<1>12. CASE a = c.kind /\ prop' = [prop EXCEPT ![a] = Value("data", s, c, Size[a])]
            /\ xq' = xq \o <<e, f>> /\ apps' = done
  <2> DEFINE v == Value("data", s, c, Size[a])
  <2>1. v # None /\ v.kind = c.kind /\ v.type = "data"
    BY <1>3, <1>4, <1>12, ValueWritten, ValueParts
  <2> HIDE DEF v
  <2>2. prop' = [prop EXCEPT ![a] = v]
    BY <1>12 DEF v
  <2> QED BY <1>1, <1>3, <1>4, <1>6, <1>7, <1>9, <1>10, <1>12, <2>1, <2>2 DEF a, c, e, f, g, q
<1>13. CASE a = c.kind /\ prop' = [prop EXCEPT ![a] = Value("INCR", s, c, Size[a])]
            /\ xq' = xq \o <<e, f>>
            /\ apps' = [done EXCEPT ![s].sending = c, ![s].left = Size[a]]
  <2> DEFINE v == Value("INCR", s, c, Size[a])
  <2>1. v # None /\ v.kind = c.kind /\ v.type = "INCR"
    BY <1>3, <1>4, <1>13, ValueWritten, ValueParts
  <2> HIDE DEF v
  <2>2. prop' = [prop EXCEPT ![a] = v]
    BY <1>13 DEF v
  <2> QED BY <1>1, <1>3, <1>4, <1>8, <1>9, <1>10, <1>13, <2>1, <2>2 DEF a, c, e, f, g, q
<1>14. CASE a \notin {"TARGETS", c.kind} /\ xq' = Append(xq, g) /\ apps' = done
            /\ UNCHANGED prop
  <2>1. Adds({g}, {<<g, g>>}) /\ g \in Due'
    BY <1>1, <1>14, NewEvent
  <2> QED BY <1>1, <1>3, <1>4, <1>6, <1>7, <1>14, <2>1 DEF a, c, e, f, g, q
<1> QED BY <1>5, <1>11, <1>12, <1>13, <1>14

LEMMA AppPortionStep ==
  ASSUME Shape, AppsTyped, PropTyped(prop), Versioned, NEW s \in Selections, AppPortion(s)
  PROVE  LET c == apps[s].sending
             e == Event("newvalue", None, c.kind)
         IN  /\ UNCHANGED <<reading, best, xowner>>
             /\ c # NoCopy /\ c.kind \in Kinds /\ prop[c.kind] = None
             /\ \A t \in Selections : t # s => apps'[t] = apps[t]
             /\ apps'[s].conv = apps[s].conv /\ apps'[s].copy = apps[s].copy
             /\ apps'[s].sending \in {c, NoCopy}
             /\ \A b \in Atoms : b # c.kind => prop'[b] = prop[b]
             /\ prop'[c.kind] # None /\ prop'[c.kind].type = "data"
             /\ prop'[c.kind].size = 0 \/ apps'[s].sending = c
             /\ Adds({e}, {<<e, e>>}) /\ e \in Due'
<1> DEFINE p == apps[s]
           c == p.sending
           n == AtMost(p.left, ChunkUnits)
           v == Value("data", s, c, n)
           e == Event("newvalue", None, c.kind)
           x == IF n = 0 THEN NoCopy ELSE c
           l == p.left - n
<1>1. /\ DOMAIN p = {"copy", "conv", "sending", "left"} /\ DOMAIN apps = Selections
      /\ UNCHANGED <<xowner, reading, best, spc, ev>> /\ p.left \in Nat /\ Sequence(xq)
  BY DEF AppPortion, AppsTyped, IsApp, outgoing, thread, Shape
<1>2. c # NoCopy /\ c.kind \in Kinds /\ prop[c.kind] = None
  BY DEF AppPortion, PortionDue, AppsTyped, IsApp
<1>3. n \in Nat /\ c.ver \in Nat
  BY <1>1, UnitsAssumption DEF AtMost, Versioned
<1>4. /\ prop' = [prop EXCEPT ![c.kind] = v]
      /\ apps' = [apps EXCEPT ![s].left = l, ![s].sending = x]
      /\ xq' = Append(xq, e)
  BY DEF AppPortion
<1>5. v # None /\ v.type = "data" /\ v.size = n
  BY <1>2, <1>3, ValueWritten, ValueParts
<1>6. x \in {c, NoCopy} /\ (n = 0 \/ x = c)
  OBVIOUS
<1>7. c.kind \in Atoms /\ DOMAIN prop = Atoms
  BY <1>2 DEF Atoms, PropTyped
<1> HIDE DEF v, x, l, n, e, c
<1>8. Adds({e}, {<<e, e>>}) /\ e \in Due'
  BY <1>1, <1>4, NewEvent
<1>9. prop'[c.kind] = v /\ \A b \in Atoms : b # c.kind => prop'[b] = prop[b]
  BY <1>4, <1>7
<1>10. /\ \A t \in Selections : t # s => apps'[t] = apps[t]
       /\ apps'[s].conv = p.conv /\ apps'[s].copy = p.copy /\ apps'[s].sending = x
  BY <1>1, <1>4
<1> QED BY <1>1, <1>2, <1>5, <1>6, <1>8, <1>9, <1>10 DEF c, e

LEMMA AppCopiesStep ==
  ASSUME Shape, AppsTyped, NEW s \in Selections, NEW k \in AppKinds, AppCopies(s, k)
  PROVE  LET o == Event("owner", s, "app")
         IN  /\ UNCHANGED <<reading, best, prop>> /\ xowner'[s] = "app"
             /\ \A t \in Selections :
                  /\ t # s => apps'[t] = apps[t] /\ xowner'[t] = xowner[t]
                  /\ apps'[t].conv = apps[t].conv /\ apps'[t].sending = apps[t].sending
             /\ apps'[s].copy.ver = version + 1 /\ apps'[s].copy.kind = k
             /\ Adds({o}, {<<o, o>>}) /\ o \in Due'
<1> DEFINE c == [ver |-> version + 1, kind |-> k]
           x == [apps[s] EXCEPT !.copy = c]
           o == Event("owner", s, "app")
<1>1. /\ apps' = [apps EXCEPT ![s] = x] /\ xowner' = [xowner EXCEPT ![s] = "app"]
      /\ xq' = Append(xq, o) /\ UNCHANGED <<spc, ev, reading, best, prop>>
  BY DEF AppCopies, thread, outgoing
<1>2. c.kind = k /\ c.ver = version + 1 /\ Sequence(xq)
  BY DEF Shape
<1> HIDE DEF c, o
<1>3. x.copy = c /\ x.conv = apps[s].conv /\ x.sending = apps[s].sending
  BY DEF AppsTyped, IsApp
<1> HIDE DEF x
<1>4. /\ apps'[s] = x /\ xowner'[s] = "app"
      /\ \A t \in Selections : t # s => apps'[t] = apps[t] /\ xowner'[t] = xowner[t]
  BY <1>1 DEF AppsTyped, Shape
<1>5. Adds({o}, {<<o, o>>}) /\ o \in Due'
  BY <1>1, <1>2, NewEvent
<1> QED BY <1>1, <1>2, <1>3, <1>4, <1>5 DEF o

-----------------------------------------------------------------------------
(* The client will have nothing of an open transfer of s, once it read     *)
(* what is on its way to it.                                               *)
Ended(s) == FedTo(s, "any", {})

LEMMA FedToMore ==
  ASSUME NEW s \in Selections, NEW w, NEW y, FedTo(s, w, y), Sequence(chunks),
         NEW q, Sequence(q), NEW z, Flow(q, s, y, z, w), chunks' = chunks \o q,
         UNCHANGED <<toClient, remote>>
  PROVE  FedTo(s, w, z)'
<1>1. PICK o, x : /\ Opened(s, o, w)
                  /\ Flow(toClient, s, o, x, w) /\ Flow(chunks, s, x, y, w)
  BY DEF FedTo
<1>2. Flow(chunks \o q, s, x, z, w)
  BY <1>1, FlowConcat
<1>3. Opened(s, o, w)' /\ Flow(toClient', s, o, x, w) /\ Flow(chunks', s, x, z, w)
  BY <1>1, <1>2, OpenedKept
<1> QED BY <1>3 DEF FedTo

(* A notice for the client leaves no transfer of its selection open.       *)
LEMMA EndedByNotice ==
  ASSUME Sequence(chunks), NEW t \in Selections, NEW m, m.type = "notify", m.sel = t,
         chunks' = Append(chunks, m), UNCHANGED <<toClient, remote>>
  PROVE  /\ \A s \in Selections : Ended(s) => Ended(s)'
         /\ Fed(t, "any") => Ended(t)'
<1>1. ASSUME NEW s \in Selections, NEW y, FedTo(s, "any", y)
      PROVE  FedTo(s, "any", IF s = t THEN {} ELSE y)'
  <2>1. PICK o, x : /\ Opened(s, o, "any")
                    /\ Flow(toClient, s, o, x, "any") /\ Flow(chunks, s, x, y, "any")
    BY <1>1 DEF FedTo
  <2>2. Allowed(y, m, s, "any") /\ After(y, m, s) = IF s = t THEN {} ELSE y
    BY DEF Allowed, After
  <2>3. PICK z : z = IF s = t THEN {} ELSE y
    OBVIOUS
  <2>4. Flow(Append(chunks, m), s, x, After(y, m, s), "any")
    BY <2>1, <2>2, FlowAppend
  <2>5. /\ Opened(s, o, "any")' /\ Flow(toClient', s, o, x, "any")
        /\ Flow(chunks', s, x, z, "any")
    BY <2>1, <2>2, <2>3, <2>4, OpenedKept
  <2>6. FedTo(s, "any", z)'
    BY <2>5 DEF FedTo
  <2> QED BY <2>3, <2>6
<1>2. ASSUME NEW s \in Selections, Ended(s) PROVE Ended(s)'
  <2>1. (IF s = t THEN {} ELSE {}) = {}
    OBVIOUS
  <2> QED BY <1>1, <1>2, <2>1 DEF Ended
<1>3. ASSUME Fed(t, "any") PROVE Ended(t)'
  <2>1. PICK y : FedTo(t, "any", y)
    BY <1>3 DEF Fed
  <2>2. FedTo(t, "any", IF t = t THEN {} ELSE y)'
    BY <1>1, <2>1
  <2>3. (IF t = t THEN {} ELSE y) = {}
    OBVIOUS
  <2> QED BY <2>2, <2>3 DEF Ended
<1> QED BY <1>2, <1>3

(* So do the chunks of a whole property, and of one without data.          *)
LEMMA EndedByChunks ==
  ASSUME Sequence(chunks), NEW t \in Selections, NEW v, v.size \in Nat, NEW rd,
         NEW more \in BOOLEAN, chunks' = chunks \o ChunksOf(v, t, rd, more),
         UNCHANGED <<toClient, remote>>,
         more => rd = reading /\ reading.atom # None /\ reading.current = t
  PROVE  /\ \A s \in Selections : Ended(s) /\ (s = t => ~more) => Ended(s)'
         /\ Fed(t, "any") /\ (~more \/ v.size = 0) => Ended(t)'
<1> DEFINE q == ChunksOf(v, t, rd, more)
<1>0. ASSUME NEW s \in Selections, NEW y, NEW w, w # "same", more /\ t = s /\ rd.read # 0 => y # {}
      PROVE  Sequence(q) /\ Flow(q, s, y, IF t # s THEN y
                                         ELSE IF more /\ v.size # 0 THEN {v.src} ELSE {}, w)
  <2>1. more /\ t = s /\ rd.read # 0 => y # {} /\ (w = "same" => y = {v.src})
    BY <1>0
  <2>2. LET r == ChunksOf(v, t, rd, more)
        IN  Sequence(r) /\ Flow(r, s, y, IF t # s THEN y
                                         ELSE IF more /\ v.size # 0 THEN {v.src}
                                         ELSE {}, w)
    BY <2>1, ChunksFlow
  <2> QED BY <2>2
<1>1. ASSUME NEW s \in Selections, NEW y, more /\ t = s /\ rd.read # 0 => y # {}
      PROVE  Sequence(q) /\ Flow(q, s, y, IF t # s THEN y
                                         ELSE IF more /\ v.size # 0 THEN {v.src} ELSE {}, "any")
  <2>1. "any" # "same"
    OBVIOUS
  <2> HIDE DEF q
  <2> QED BY <1>0, <1>1, <2>1
<1>2. chunks' = chunks \o q
  OBVIOUS
<1> HIDE DEF q
<1>3. ASSUME NEW s \in Selections, Ended(s), s = t => ~more PROVE Ended(s)'
  <2>1. PICK z : z = IF t # s THEN {} ELSE IF more /\ v.size # 0 THEN {v.src} ELSE {}
    OBVIOUS
  <2>2. z = {}
    BY <1>3, <2>1
  <2>3. Sequence(q) /\ Flow(q, s, {}, z, "any")
    BY <1>1, <1>3, <2>1
  <2>4. FedTo(s, "any", z)'
    BY <1>2, <1>3, <2>3, FedToMore DEF Ended
  <2> QED BY <2>2, <2>4 DEF Ended
<1>4. ASSUME Fed(t, "any"), ~more \/ v.size = 0 PROVE Ended(t)'
  <2>1. PICK y : FedTo(t, "any", y) /\ Agrees(t, y, "any")
    BY <1>4 DEF Fed
  <2>2. more /\ t = t /\ rd.read # 0 => y # {}
    BY <2>1 DEF Agrees
  <2>3. PICK z : z = IF t # t THEN y ELSE IF more /\ v.size # 0 THEN {v.src} ELSE {}
    OBVIOUS
  <2>4. z = {}
    BY <1>4, <2>3
  <2>5. Sequence(q) /\ Flow(q, t, y, z, "any")
    BY <1>1, <2>2, <2>3
  <2>6. FedTo(t, "any", z)'
    BY <1>2, <2>1, <2>5, FedToMore
  <2> QED BY <2>4, <2>6 DEF Ended
<1> QED BY <1>3, <1>4

(* A conversion is over: selection t, atom a, its value v.                 *)
Refusal == ev.arg = None \/ prop[ev.arg] = None

Useless ==
  /\ ev.arg = "TARGETS" /\ prop[ev.arg] # None
  /\ prop[ev.arg].kind \notin Kinds \/ ev.sel \in Skipped

Useful ==
  /\ ev.arg = "TARGETS" /\ prop[ev.arg] # None
  /\ prop[ev.arg].kind \in Kinds /\ ev.sel \notin Skipped

OfType(t) == ev.arg \in Kinds /\ prop[ev.arg] # None /\ prop[ev.arg].type = t

(* The value is taken.                                                     *)
Cleared == \A b \in Atoms : prop'[b] = IF b = ev.arg THEN None ELSE prop[b]

StillEnded == \A s \in Selections : Ended(s) => Ended(s)'

LEMMA QueueKeepsEnd ==
  ASSUME UNCHANGED <<toClient, chunks, remote>> PROVE StillEnded
<1> SUFFICES ASSUME NEW s \in Selections, Ended(s) PROVE Ended(s)'
  BY DEF StillEnded
<1>1. \A o : Opened(s, o, "any") => Opened(s, o, "any")'
  BY OpenedKept
<1> QED BY <1>1, FedToKept DEF Ended

LEMMA ReplyStep ==
  ASSUME Shape, Exchanged, Queues, ConversionDone
  PROVE  LET t == ev.sel
             v == prop[ev.arg]
             rd == [StopReading(reading, t) EXCEPT !.current = t]
         IN  /\ UNCHANGED <<xowner, ev>> /\ spc # "wait" /\ spc' = "wait"
             /\ ev.type = "reply" /\ ev.sel \in Selections /\ ev.arg \in Atoms \cup {None}
             /\ StillEnded
             /\ \/ /\ Refusal \/ Useless
                   /\ reading'.atom = None /\ UNCHANGED <<apps, best, xq>> /\ Cleared
                   /\ Consumes({}, {})
                \/ /\ OfType("INCR")
                   /\ reading'.atom = ev.arg /\ reading'.current = t
                   /\ UNCHANGED <<apps, best, xq>> /\ Cleared /\ Consumes({}, {})
                \/ /\ Useful
                   /\ reading'.atom = None /\ UNCHANGED <<apps, xq>> /\ Cleared /\ Consumes({}, {})
                   /\ best' = [best EXCEPT ![t] = v.kind]
                   /\ Fed(t, "any") => Ended(t)'
                \/ /\ Useful
                   /\ rd.atom = None /\ IsReading(rd)
                   /\ PropTyped([prop EXCEPT !["TARGETS"] = None])
                   /\ Converts(t, v.kind, [prop EXCEPT !["TARGETS"] = None], rd)
                   /\ UNCHANGED best
                \/ /\ OfType("data")
                   /\ reading'.atom = None /\ UNCHANGED <<apps, best, xq>> /\ Cleared
                   /\ Consumes({}, {})
                   /\ Fed(t, "any") => Ended(t)'
<1> DEFINE t == ev.sel
           a == ev.arg
           u == StopReading(reading, t)
           rd == [u EXCEPT !.current = t]
           v == prop[a]
           gone == [prop EXCEPT ![a] = None]
<1>1. /\ PropTyped(prop) /\ AppsTyped /\ IsReading(reading) /\ (spc # "wait" => Known(ev))
      /\ Sequence(chunks) /\ Sequence(xq)
  BY DEF Exchanged, EventsKnown, Queues, Queue, Shape
<1>2. /\ UNCHANGED <<toClient, remote, xowner, ev>> /\ spc # "wait" /\ spc' = "wait"
      /\ ev.type = "reply" /\ t \in Selections /\ a \in Atoms \cup {None}
  BY <1>1 DEF ConversionDone, Handles, Known, net
<1>3. IsReading(rd) /\ u.atom = None /\ rd.atom = None /\ rd.current = t
  BY <1>1, <1>2, Stopped
<1>4. \/ a = None /\ reading' = u /\ UNCHANGED <<prop, apps, xq, best, chunks>>
      \/ a # None /\ ReadProperty(t, a, rd)
  BY DEF ConversionDone
<1>5. None \notin Atoms /\ DOMAIN prop = Atoms /\ "TARGETS" \notin Kinds /\ "TARGETS" \in Atoms
  BY <1>1, KindsAssumption DEF Atoms, PropTyped
<1>6. UNCHANGED xq => Consumes({}, {})
  BY <1>1, <1>2, NoEvent
<1>7. UNCHANGED chunks => StillEnded
  BY <1>2, QueueKeepsEnd
<1>8. prop' = gone => Cleared
  BY <1>5 DEF Cleared
<1> HIDE DEF u, rd
<1>9. CASE a = None /\ reading' = u /\ UNCHANGED <<prop, apps, xq, best, chunks>>
  <2>1. Refusal /\ Cleared
    BY <1>5, <1>9 DEF Refusal, Cleared
  <2> QED BY <1>2, <1>3, <1>6, <1>7, <1>9, <2>1 DEF u, rd
<1>10. CASE a # None /\ ReadProperty(t, a, rd)
  <2>1. a \in Atoms /\ IsValue(v, a)
    BY <1>1, <1>2, <1>10 DEF PropTyped
  <2>2. CASE v = None
    <3>1. reading' = rd /\ UNCHANGED <<prop, apps, xq, best, chunks>>
      BY <1>10, <2>2 DEF ReadProperty
    <3>2. Refusal /\ Cleared
      BY <2>2, <3>1 DEF Refusal, Cleared
    <3> QED BY <1>2, <1>3, <1>6, <1>7, <3>1, <3>2 DEF u, rd
  <2>3. CASE v # None /\ v.type = "INCR"
    <3>1. /\ reading' = [rd EXCEPT !.atom = a, !.read = 0] /\ prop' = gone
          /\ UNCHANGED <<apps, xq, best, chunks>>
      BY <1>10, <2>3 DEF ReadProperty
    <3>2. reading'.atom = a /\ reading'.current = t
      BY <1>3, <3>1 DEF IsReading
    <3>3. OfType("INCR")
      BY <2>1, <2>3 DEF OfType, IsValue, Atoms
    <3> QED BY <1>2, <1>6, <1>7, <1>8, <3>1, <3>2, <3>3 DEF u, rd
  <2>4. CASE v # None /\ v.type = "TARGETS" /\ v.kind \in Kinds /\ t \notin Skipped /\ onDemand
    <3> DEFINE m == OutChunk("notify", t, v, TRUE, TRUE)
    <3>1. /\ chunks' = Append(chunks, m) /\ reading' = rd /\ prop' = gone
          /\ best' = [best EXCEPT ![t] = v.kind] /\ UNCHANGED <<apps, xq>>
      BY <1>10, <2>4 DEF ReadProperty
    <3>2. m.type = "notify" /\ m.sel = t
      BY DEF OutChunk
    <3>3. StillEnded /\ (Fed(t, "any") => Ended(t)')
      <4> HIDE DEF m
      <4> QED BY <1>1, <1>2, <3>1, <3>2, EndedByNotice DEF StillEnded
    <3>4. Useful
      BY <2>1, <2>4 DEF Useful, IsValue
    <3> QED BY <1>2, <1>3, <1>6, <1>8, <3>1, <3>3, <3>4 DEF u, rd
  <2>5. CASE v # None /\ v.type = "TARGETS" /\ v.kind \in Kinds /\ t \notin Skipped /\ ~onDemand
    <3>1. a = "TARGETS" /\ Useful
      BY <2>1, <2>5 DEF Useful, IsValue
    <3>2. Converts(t, v.kind, gone, rd) /\ UNCHANGED <<best, chunks>>
      BY <1>10, <2>5 DEF ReadProperty
    <3>3. PropTyped(gone)
      BY <1>1, PropCleared
    <3> QED BY <1>2, <1>3, <1>7, <3>1, <3>2, <3>3 DEF u, rd
  <2>6. CASE v # None /\ v.type = "TARGETS" /\ (v.kind \notin Kinds \/ t \in Skipped)
    <3>1. reading' = rd /\ prop' = gone /\ UNCHANGED <<apps, xq, best, chunks>>
      BY <1>10, <2>6 DEF ReadProperty
    <3>2. Useless
      BY <2>1, <2>6 DEF Useless, IsValue
    <3> QED BY <1>2, <1>3, <1>6, <1>7, <1>8, <3>1, <3>2 DEF u, rd
  <2>7. CASE v # None /\ v.type = "data"
    <3>1. /\ chunks' = chunks \o ChunksOf(v, t, rd, FALSE) /\ reading' = rd
          /\ prop' = gone /\ UNCHANGED <<apps, xq, best>>
      <4>1. rd.atom # a
        BY <1>3, <1>10
      <4>2. (rd.atom = a) = FALSE
        BY <4>1
      <4> QED BY <1>10, <2>7, <4>1, <4>2 DEF ReadProperty
    <3>2. v.size \in Nat /\ OfType("data")
      BY <2>1, <2>7 DEF IsValue, OfType, Atoms
    <3>3. StillEnded /\ (Fed(t, "any") => Ended(t)')
      <4>1. PICK no, s0, v0, r0 : no = FALSE /\ s0 = t /\ v0 = v /\ r0 = rd
        OBVIOUS
      <4>2. /\ no \in BOOLEAN /\ ~no /\ chunks' = chunks \o ChunksOf(v0, s0, r0, no)
            /\ s0 \in Selections /\ v0.size \in Nat
        BY <1>2, <3>1, <3>2, <4>1
      <4>3. /\ \A s \in Selections : Ended(s) /\ (s = s0 => ~no) => Ended(s)'
            /\ Fed(s0, "any") /\ (~no \/ v0.size = 0) => Ended(s0)'
        BY <1>1, <1>2, <4>2, EndedByChunks
      <4> HIDE DEF v
      <4> QED BY <1>2, <4>1, <4>2, <4>3 DEF StillEnded
    <3> QED BY <1>2, <1>3, <1>6, <1>8, <3>1, <3>2, <3>3 DEF u, rd
  <2> QED BY <1>10, <2>1, <2>2, <2>3, <2>4, <2>5, <2>6, <2>7 DEF ReadProperty, IsValue
<1> QED BY <1>4, <1>9, <1>10

LEMMA PropertyStep ==
  ASSUME Shape, Exchanged, Queues, PropertyChanged
  PROVE  /\ UNCHANGED <<xowner, ev, apps, best>> /\ spc # "wait" /\ spc' = "wait"
         /\ ev.type = "newvalue" /\ ev.arg \in Atoms /\ Consumes({}, {})
         /\ \/ /\ reading.atom # ev.arg \/ prop[ev.arg] = None
               /\ UNCHANGED <<reading, prop>> /\ StillEnded
            \/ /\ reading.atom = ev.arg /\ OfType("INCR") /\ Cleared /\ StillEnded
               /\ reading'.atom = ev.arg /\ reading'.current = reading.current
            \/ /\ reading.atom = ev.arg /\ OfType("data") /\ Cleared
               /\ \A s \in Selections : s # reading.current /\ Ended(s) => Ended(s)'
               /\ \/ /\ reading'.atom = None
                     /\ \A s \in Selections : s = reading.current /\ Fed(s, "any") => Ended(s)'
                  \/ /\ prop[ev.arg].size # 0
                     /\ reading'.atom = ev.arg /\ reading'.current = reading.current
<1> DEFINE t == reading.current a == ev.arg v == prop[a] gone == [prop EXCEPT ![a] = None]
<1>1. /\ PropTyped(prop) /\ AppsTyped /\ IsReading(reading) /\ (spc # "wait" => Known(ev))
      /\ Sequence(chunks) /\ Sequence(xq)
  BY DEF Exchanged, EventsKnown, Queues, Queue, Shape
<1>2. /\ UNCHANGED <<toClient, remote, xowner, ev>> /\ spc # "wait" /\ spc' = "wait"
      /\ ev.type = "newvalue" /\ a \in Atoms
  BY <1>1 DEF PropertyChanged, Handles, Known, net
<1>3. UNCHANGED xq => Consumes({}, {})
  BY <1>1, <1>2, NoEvent
<1>4. UNCHANGED chunks => StillEnded
  BY <1>2, QueueKeepsEnd
<1>5. prop' = gone => Cleared
  BY <1>1, <1>2 DEF Cleared, PropTyped
<1>6. DOMAIN reading = {"atom", "read", "current", "mixed"}
  BY <1>1 DEF IsReading
<1>7. CASE reading.atom # a
  <2>1. UNCHANGED <<reading, prop, apps, xq, best, chunks>>
    BY <1>7 DEF PropertyChanged
  <2> QED BY <1>2, <1>3, <1>4, <1>7, <2>1
<1>8. CASE reading.atom = a
  <2>1. /\ a \in Kinds /\ a # "TARGETS" /\ a # None /\ t \in Selections /\ IsValue(v, a)
        /\ ReadProperty(t, a, reading)
    BY <1>1, <1>2, <1>8, KindsAssumption DEF IsReading, Atoms, PropTyped, PropertyChanged
  <2>2. CASE v = None
    <3>1. UNCHANGED <<reading, prop, apps, xq, best, chunks>>
      BY <2>1, <2>2 DEF ReadProperty
    <3> QED BY <1>2, <1>3, <1>4, <2>2, <3>1
  <2>3. CASE v # None /\ v.type = "INCR"
    <3>1. /\ reading' = [reading EXCEPT !.atom = a, !.read = 0] /\ prop' = gone
          /\ UNCHANGED <<apps, xq, best, chunks>>
      BY <2>1, <2>3 DEF ReadProperty
    <3>2. reading'.atom = a /\ reading'.current = t
      BY <1>6, <3>1
    <3>3. OfType("INCR")
      BY <2>1, <2>3 DEF OfType
    <3> QED BY <1>2, <1>3, <1>4, <1>5, <1>8, <3>1, <3>2, <3>3
  <2>4. CASE v # None /\ v.type = "data"
    <3> DEFINE n == reading.read + v.size
    <3>1. /\ chunks' = chunks \o ChunksOf(v, t, reading, TRUE) /\ prop' = gone
          /\ reading' = IF v.size = 0 THEN StopReading(reading, t)
                        ELSE [reading EXCEPT !.read = n]
          /\ UNCHANGED <<apps, xq, best>>
      <4>1. (reading.atom = a) = TRUE
        BY <1>8
      <4> QED BY <2>1, <2>4, <4>1, <1>8 DEF ReadProperty, Ends
    <3>2. v.size \in Nat /\ OfType("data")
      BY <2>1, <2>4 DEF IsValue, OfType
    <3>3. PICK more, s0, v0, r0 : more = TRUE /\ s0 = t /\ v0 = v /\ r0 = reading
      OBVIOUS
    <3>4. /\ \A s \in Selections : Ended(s) /\ (s = s0 => ~more) => Ended(s)'
          /\ Fed(s0, "any") /\ (~more \/ v0.size = 0) => Ended(s0)'
      <4>1. /\ more \in BOOLEAN /\ chunks' = chunks \o ChunksOf(v0, s0, r0, more)
            /\ s0 \in Selections /\ v0.size \in Nat
            /\ (more => r0 = reading /\ reading.atom # None /\ reading.current = s0)
        BY <1>8, <2>1, <3>1, <3>2, <3>3
      <4> QED BY <1>1, <1>2, <4>1, EndedByChunks
    <3>5. \A s \in Selections : s # t /\ Ended(s) => Ended(s)'
      BY <3>3, <3>4
    <3>6. CASE v.size = 0
      <4>1. reading'.atom = None
        BY <1>1, <2>1, <3>1, <3>6, Stopped
      <4>2. \A s \in Selections : s = t /\ Fed(s, "any") => Ended(s)'
        BY <3>3, <3>4, <3>6
      <4> QED BY <1>2, <1>3, <1>5, <1>8, <3>1, <3>2, <3>5, <4>1, <4>2
    <3>7. CASE v.size # 0
      <4>1. reading' = [reading EXCEPT !.read = n]
        BY <3>1, <3>7
      <4> HIDE DEF n
      <4>2. reading'.atom = a /\ reading'.current = t
        BY <1>6, <1>8, <4>1
      <4> QED BY <1>2, <1>3, <1>5, <1>8, <3>1, <3>2, <3>5, <3>7, <4>2
    <3> QED BY <3>6, <3>7
  <2> QED BY <2>1, <2>2, <2>3, <2>4 DEF IsValue
<1> QED BY <1>7, <1>8

(* Nothing but a portion opens a transfer that is ended.                   *)
LEMMA NextEnded ==
  ASSUME Exchange, FirstClient, FirstClient', [Next]_vars, ~PropertyChanged
  PROVE  StillEnded
<1>1. /\ Shape /\ Exchanged /\ Queues /\ RemoteTyped /\ conns \in Nat \ {0}
      /\ Sequence(toClient) /\ Sequence(chunks)
  BY DEF Exchange, Invariant, Incoming, Typed, RemoteTyped, Queues, Queue
<1>2. ~ClientLeaves /\ ~ClientArrives
  BY <1>1 DEF ClientLeaves, ClientArrives, FirstClient
<1>3. ASSUME UNCHANGED <<toClient, chunks>>,
             \A s \in Selections : /\ remote'[s].phase = remote[s].phase
                                   /\ remote'[s].from = remote[s].from
      PROVE  StillEnded
  <2> SUFFICES ASSUME NEW s \in Selections, Ended(s) PROVE Ended(s)'
    BY DEF StillEnded
  <2>1. \A o : Opened(s, o, "any") => Opened(s, o, "any")'
    BY <1>3, OpenedKept
  <2> QED BY <1>3, <2>1, FedToKept DEF Ended
<1>4. CASE MainThread
  <2>1. UNCHANGED <<toClient, chunks>>
    BY <1>4 DEF MainThread, ReadNotify, ReadChunk, ReadRest, ReadDemand, outgoing
  <2>2. ASSUME NEW s \in Selections
        PROVE  remote'[s].phase = remote[s].phase /\ remote'[s].from = remote[s].from
    <3>1. CASE UNCHANGED remote
      BY <3>1
    <3>2. CASE ReadNotify \/ ReadChunk
      <4> DEFINE m == Head(toServer)
      <4>1. Hears(m)
        BY <3>2 DEF ReadNotify, ReadChunk
      <4>2. DOMAIN remote = Selections /\ DOMAIN remote[s] = {"copy", "heard", "phase", "from"}
        BY <1>1 DEF RemoteTyped, IsRemote
      <4> HIDE DEF m
      <4>3. remote' = [remote EXCEPT ![m.sel].heard = m.copy.ver]
        BY <4>1 DEF Hears
      <4> QED BY <4>2, <4>3
    <3> QED BY <1>4, <3>1, <3>2 DEF MainThread, ReadRest, ReadDemand
  <2> QED BY <1>3, <2>1, <2>2
<1>5. CASE \/ Wake \/ ScanDelayed \/ ScanDone \/ PruneDelayed \/ PruneDone
           \/ AnswerRequest \/ DelayRequest \/ NextPortion \/ DataReady
           \/ OwnerChanged \/ DataDemanded
           \/ Tick \/ (\E r \in Requests : AppDeletes(r)) \/ UNCHANGED vars
           \/ \E t \in Selections : AppConverts(t) \/ AppPortion(t)
  <2>1. UNCHANGED <<toClient, chunks, remote>>
    BY <1>5 DEF Wake, ScanDelayed, ScanDone, PruneDelayed, PruneDone, AnswerRequest,
                DelayRequest, NextPortion, DataReady, OwnerChanged, DataDemanded, Tick,
                AppDeletes, AppConverts, AppPortion, outgoing, net, vars
  <2> QED BY <2>1, QueueKeepsEnd
<1>6. ASSUME NEW r \in Requests, NEW t \in Selections, NEW target \in ClientKinds \cup {"meta"},
             NEW time \in {0, clock}, AppPastes(r, t, target, time)
      PROVE  StillEnded
  <2>1. UNCHANGED <<toClient, chunks, remote>>
    BY <1>6 DEF AppPastes, outgoing, net
  <2> QED BY <2>1, QueueKeepsEnd
<1>7. CASE ConversionDone
  <2>1. UNCHANGED <<xowner, ev>> /\ StillEnded
    BY <1>1, <1>7, ReplyStep
  <2> QED BY <2>1
<1>8. CASE SendingThread
  <2>1. \A s \in Selections : FedTo(s, "any", {}) => FedTo(s, "any", {})'
    BY <1>1, <1>8, FedSends DEF SendingThread
  <2> QED BY <2>1 DEF StillEnded, Ended
<1>9. CASE ClientReads
  <2>1. \A s \in Selections : FedTo(s, "any", {}) => FedTo(s, "any", {})'
    BY <1>1, <1>9, FedReads
  <2> QED BY <2>1 DEF StillEnded, Ended
<1>10. ASSUME NEW t \in Selections, ClientDemands(t) PROVE StillEnded
  <2>1. \A s \in Selections : FedTo(s, "any", {}) => FedTo(s, "any", {})'
    BY <1>1, <1>10, FedDemanded
  <2> QED BY <2>1 DEF StillEnded, Ended
<1>11. ASSUME NEW t \in Selections, NEW k \in AppKinds, AppCopies(t, k) PROVE StillEnded
  <2>1. UNCHANGED <<toClient, chunks, remote>>
    BY <1>11 DEF AppCopies, outgoing, net
  <2> QED BY <2>1, QueueKeepsEnd
<1>12. ASSUME NEW t \in Selections, NEW k \in ClientKinds, ClientCopies(t, k) PROVE StillEnded
  <2> DEFINE c == [ver |-> version + 1, kind |-> k]
  <2>1. /\ UNCHANGED <<toClient, chunks>> /\ remote' = [remote EXCEPT ![t].copy = c]
    BY <1>12 DEF ClientCopies, outgoing
  <2> HIDE DEF c
  <2>2. \A s \in Selections :
          DOMAIN remote = Selections /\ DOMAIN remote[s] = {"copy", "heard", "phase", "from"}
    BY <1>1 DEF RemoteTyped, IsRemote
  <2>3. \A s \in Selections : /\ remote'[s].phase = remote[s].phase
                              /\ remote'[s].from = remote[s].from
    BY <2>1, <2>2
  <2> QED BY <1>3, <2>1, <2>3
<1>13. SelectionThread => StillEnded
  BY <1>5, <1>7 DEF SelectionThread
<1>14. Environment => StillEnded
  BY <1>2, <1>5, <1>6, <1>9, <1>10, <1>11, <1>12 DEF Environment
<1> QED BY <1>4, <1>5, <1>8, <1>13, <1>14 DEF Next

-----------------------------------------------------------------------------
(* A conversion to a is asked for selection s.                             *)
Added(s, a) ==
  /\ \A t \in Selections :
       /\ apps'[t].sending = apps[t].sending /\ apps'[t].copy = apps[t].copy
       /\ t # s => apps'[t].conv = apps[t].conv
  /\ apps'[s].conv = IF xowner[s] = "app"
                     THEN Append(apps[s].conv, [target |-> a, copy |-> apps[s].copy])
                     ELSE apps[s].conv
  /\ prop'[a] = None /\ \A b \in Kinds : b # a => prop'[b] = prop[b]
  /\ \E E : Consumes(E, E \X E) /\ \A e \in E : ReplyOf(e, s) /\ e.arg = None

(* It is the only one of its kind.                                         *)
Apart(s, a) ==
  /\ \A t \in Selections : t # s => ~Busy(t)'
  /\ a \in Kinds => \A e \in Due' : ~DataReply(e)

LEMMA AddedStep ==
  ASSUME Exchange, Exchange', NEW s \in Selections, NEW a \in Atoms, NEW p, PropTyped(p),
         \A b \in Kinds : b # a => p[b] = prop[b],
         NEW rd, IsReading(rd), UNCHANGED <<xowner, ev>>, spc # "wait", spc' = "wait",
         Converts(s, a, p, rd)
  PROVE  /\ Added(s, a)
         /\ a \in Kinds => prop'["TARGETS"] = p["TARGETS"]
         /\ reading'.atom = rd.atom /\ reading'.current = rd.current
         /\ ~reading'.mixed => /\ ~rd.mixed /\ Apart(s, a)
                               /\ a \in Kinds => reading'.atom = None
<1>1. /\ Shape /\ AppsTyped /\ EventsKnown /\ PropTyped(prop) /\ Sequence(xq')
  BY DEF Exchange, Invariant, Exchanged, Shape
<1>2. /\ prop'[a] = None /\ \A b \in Atoms : b # a => prop'[b] = p[b]
      /\ \A t \in Selections : /\ t # s => apps'[t] = apps[t]
                               /\ apps'[t].sending = apps[t].sending
                               /\ apps'[t].copy = apps[t].copy
      /\ reading'.atom = rd.atom /\ reading'.current = rd.current
      /\ ~reading'.mixed => ~rd.mixed /\ ~Overlaps(s, a, rd)
      /\ xowner[s] = "app" =>
           apps'[s].conv = Append(apps[s].conv, [target |-> a, copy |-> apps[s].copy])
      /\ xowner[s] # "app" => apps'[s].conv = apps[s].conv
      /\ \E E : /\ Consumes(E, E \X E)
                /\ \A e \in E : ReplyOf(e, s) /\ e.arg = None /\ xowner[s] # "app"
  BY <1>1, ConvertsStep
<1>3. Added(s, a)
  <2>1. PICK E : /\ Consumes(E, E \X E)
                 /\ \A e \in E : ReplyOf(e, s) /\ e.arg = None /\ xowner[s] # "app"
    BY <1>2
  <2>2. \E F : Consumes(F, F \X F) /\ \A e \in F : ReplyOf(e, s) /\ e.arg = None
    BY <2>1
  <2>3. \A b \in Kinds : b # a => prop'[b] = prop[b]
    BY <1>2 DEF Atoms
  <2>4. \A t \in Selections :
          /\ apps'[t].sending = apps[t].sending /\ apps'[t].copy = apps[t].copy
          /\ t # s => apps'[t].conv = apps[t].conv
    BY <1>2
  <2>5. apps'[s].conv = IF xowner[s] = "app"
                        THEN Append(apps[s].conv, [target |-> a, copy |-> apps[s].copy])
                        ELSE apps[s].conv
    BY <1>2
  <2> QED BY <1>2, <2>2, <2>3, <2>4, <2>5 DEF Added
<1>4. a \in Kinds => prop'["TARGETS"] = p["TARGETS"]
  BY <1>2, KindsAssumption DEF Atoms
<1>5. ASSUME ~reading'.mixed
      PROVE  ~rd.mixed /\ Apart(s, a) /\ (a \in Kinds => reading'.atom = None)
  <2>1. /\ \A t \in Selections : t # s => ~Busy(t)'
        /\ a \in Kinds => rd.atom = None /\ \A e \in Due' : ~DataReply(e)
    BY <1>1, <1>2, <1>5, ConvertsApart
  <2> QED BY <1>2, <1>5, <2>1 DEF Apart
<1> QED BY <1>2, <1>3, <1>4, <1>5

(* The new owner of a selection is asked what its contents are.            *)
LEMMA RenewsStep ==
  ASSUME Exchange, Exchange', Renews
  PROVE  /\ UNCHANGED <<xowner, best>> /\ ServerMayOwn
         /\ ev.type = "owner" /\ ev.sel \in Selections
         /\ Added(ev.sel, "TARGETS") /\ reading'.atom = None
         /\ ~reading'.mixed => /\ Apart(ev.sel, "TARGETS")
                               /\ reading.atom = None \/ reading.current = ev.sel
<1> DEFINE s == ev.sel rd == StopReading(reading, s)
<1>1. /\ PropTyped(prop) /\ IsReading(reading) /\ (spc # "wait" => Known(ev))
  BY DEF Exchange, Exchanged, EventsKnown
<1>2. /\ UNCHANGED <<xowner, best, ev>> /\ spc # "wait" /\ spc' = "wait" /\ ServerMayOwn
      /\ ev.type = "owner" /\ s \in Selections /\ Converts(s, "TARGETS", prop, rd)
  BY <1>1 DEF Renews, OwnerChanged, Handles, Known
<1>3. IsReading(rd) /\ rd.atom = None /\ "TARGETS" \in Atoms
  BY <1>1, <1>2, Stopped DEF Atoms
<1>4. ~rd.mixed => reading.atom = None \/ reading.current = s
  BY <1>1 DEF StopReading, IsReading
<1> HIDE DEF rd
<1>5. PICK u, y : u = s /\ y = rd
  OBVIOUS
<1>6. /\ Added(u, "TARGETS") /\ reading'.atom = y.atom
      /\ ~reading'.mixed => ~y.mixed /\ Apart(u, "TARGETS")
  BY <1>1, <1>2, <1>3, <1>5, AddedStep
<1> QED BY <1>2, <1>3, <1>4, <1>5, <1>6

(* The client demands data.                                                *)
LEMMA DemandsStep ==
  ASSUME Exchange, Exchange', Demands
  PROVE  /\ UNCHANGED <<xowner, best>>
         /\ ev.type = "demand" /\ ev.sel \in Selections /\ best[ev.sel] \in Kinds
         /\ Added(ev.sel, best[ev.sel]) /\ prop'["TARGETS"] = prop["TARGETS"]
         /\ reading'.atom = reading.atom /\ reading'.current = reading.current
         /\ ~reading'.mixed => Apart(ev.sel, best[ev.sel]) /\ reading.atom = None
<1> DEFINE s == ev.sel a == best[s]
<1>1. /\ PropTyped(prop) /\ IsReading(reading) /\ (spc # "wait" => Known(ev)) /\ BestTyped
  BY DEF Exchange, Exchanged, EventsKnown
<1>2. /\ UNCHANGED <<xowner, best, ev>> /\ spc # "wait" /\ spc' = "wait"
      /\ ev.type = "demand" /\ s \in Selections /\ Converts(s, a, prop, reading) /\ a # None
  BY <1>1 DEF Demands, DataDemanded, Handles, Known
<1>3. a \in Kinds /\ a \in Atoms
  BY <1>1, <1>2 DEF BestTyped, Atoms
<1> HIDE DEF a
<1>4. PICK u, b : u = s /\ b = a
  OBVIOUS
<1>5. /\ Added(u, b) /\ prop'["TARGETS"] = prop["TARGETS"]
      /\ reading'.atom = reading.atom /\ reading'.current = reading.current
      /\ ~reading'.mixed => Apart(u, b) /\ reading'.atom = None
  BY <1>1, <1>2, <1>3, <1>4, AddedStep
<1> QED BY <1>2, <1>3, <1>4, <1>5 DEF a

(* Contents that the client wants are converted at once.                   *)
LEMMA ReplyAdds ==
  ASSUME Exchange, Exchange', UNCHANGED <<xowner, ev>>, spc # "wait", spc' = "wait",
         ev.sel \in Selections, Useful, NEW rd, IsReading(rd), rd.atom = None,
         PropTyped([prop EXCEPT !["TARGETS"] = None]),
         Converts(ev.sel, prop[ev.arg].kind, [prop EXCEPT !["TARGETS"] = None], rd)
  PROVE  /\ prop["TARGETS"].kind \in Kinds /\ Added(ev.sel, prop["TARGETS"].kind)
         /\ reading'.atom = None
         /\ ~reading'.mixed => Apart(ev.sel, prop["TARGETS"].kind)
<1> DEFINE p == [prop EXCEPT !["TARGETS"] = None] a == prop["TARGETS"].kind
<1>1. a \in Kinds /\ a \in Atoms /\ Converts(ev.sel, a, p, rd) /\ PropTyped(p)
  BY DEF Useful, Atoms
<1>2. \A b \in Kinds : p[b] = prop[b]
  <2>1. PropTyped(prop)
    BY DEF Exchange, Exchanged
  <2> QED BY <2>1, KindsAssumption DEF PropTyped, Atoms
<1> HIDE DEF p, a
<1>3. PICK u, b, q : u = ev.sel /\ b = a /\ q = p
  OBVIOUS
<1>4. /\ Added(u, b) /\ reading'.atom = rd.atom
      /\ ~reading'.mixed => Apart(u, b)
  BY <1>1, <1>2, <1>3, AddedStep
<1> QED BY <1>1, <1>3, <1>4 DEF a

LEMMA AddedConversions ==
  ASSUME AppsTyped, NEW s \in Selections, NEW a, Added(s, a), NEW t \in Selections
  PROVE  LET r == [target |-> a, copy |-> apps[s].copy]
         IN  /\ Conversions(t) \subseteq Conversions(t)'
             /\ t # s => Conversions(t)' = Conversions(t)
             /\ Conversions(t)' \subseteq Conversions(t) \cup {r}
             /\ t = s /\ xowner[s] = "app" => r \in Conversions(t)'
             /\ xowner[s] # "app" => Conversions(t)' = Conversions(t)
<1> DEFINE r == [target |-> a, copy |-> apps[s].copy]
<1>1. Sequence(apps[s].conv)
  BY DEF AppsTyped, IsApp
<1>2. CASE t = s /\ xowner[s] = "app"
  <2>1. apps'[s].conv = Append(apps[s].conv, r)
    BY <1>2 DEF Added
  <2> HIDE DEF r
  <2>2. Elements(apps'[s].conv) = Elements(apps[s].conv) \cup {r}
    BY <1>1, <2>1, ElementsAppend
  <2> QED BY <1>2, <2>2 DEF Conversions, r
<1>3. CASE ~(t = s /\ xowner[s] = "app")
  <2>1. apps'[t].conv = apps[t].conv
    BY <1>3 DEF Added
  <2> QED BY <1>3, <2>1 DEF Conversions
<1> QED BY <1>2, <1>3

(* A reading that something else than its selection ends is mixed up.      *)
LEMMA ReplyReads ==
  ASSUME Exchange, ConversionDone, ~reading'.mixed
  PROVE  reading.atom = None \/ reading.current = ev.sel
<1> DEFINE t == ev.sel y == StopReading(reading, t) z == [y EXCEPT !.current = t]
           m == reading.mixed \/ (reading.atom # None /\ reading.current # t)
<1>1. /\ Shape /\ PropTyped(prop) /\ AppsTyped /\ IsReading(reading)
      /\ (spc # "wait" => Known(ev))
  BY DEF Exchange, Invariant, Exchanged, EventsKnown
<1>2. t \in Selections /\ ev.arg \in Atoms \cup {None} /\ UNCHANGED xowner
  BY <1>1 DEF ConversionDone, Handles, Known
<1>3. IsReading(z)
  BY <1>1, <1>2, Stopped
<1>4. y = [reading EXCEPT !.atom = None, !.read = 0, !.mixed = m]
  BY DEF StopReading
<1> HIDE DEF m
<1>5. y.mixed = m /\ z.mixed = m
  BY <1>1, <1>4 DEF IsReading
<1>6. reading' = y \/ (ev.arg # None /\ ReadProperty(t, ev.arg, z))
  BY DEF ConversionDone
<1> HIDE DEF y, z
<1>7. ASSUME ev.arg # None, ReadProperty(t, ev.arg, z) PROVE ~z.mixed
  <2>1. PICK u, b : u = t /\ b = ev.arg
    OBVIOUS
  <2>2. u \in Selections /\ b \in Atoms /\ ReadProperty(u, b, z)
    BY <1>2, <1>7, <2>1
  <2> QED BY <1>1, <1>2, <1>3, <2>2, ReadPropertyMixed
<1>8. ~m
  BY <1>5, <1>6, <1>7
<1> QED BY <1>8 DEF m

(* The thread asks for a conversion to a of selection s.                   *)
Calls(s, a) ==
  /\ Added(s, a) /\ UNCHANGED xowner
  /\ ~reading'.mixed => Apart(s, a) /\ reading'.atom = None
  /\ \A u : OwnerOf(ev, u) => u = s /\ a = "TARGETS"
  /\ ~DataReply(ev) /\ ev.type # "newvalue"
  /\ a \in Kinds => ev.type # "owner"

(* The thread takes the value of a property, or does nothing.              *)
Takes ==
  /\ UNCHANGED <<apps, xowner>> /\ Consumes({}, {})
  /\ ev.type \in {"reply", "newvalue"} 
  /\ Separate => (\A b \in Kinds : prop'[b] = prop[b]) \/ \A e \in Due' : ~DataReply(e)

LEMMA ReplyShape ==
  ASSUME Exchange, Exchange', ConversionDone
  PROVE  (\E s \in Selections, a \in Atoms : Calls(s, a)) \/ Takes
<1>1. Shape /\ Exchanged /\ Queues /\ Sequence(xq) /\ Sequence(xq')
  BY DEF Exchange, Invariant, Shape
<1> DEFINE t == ev.sel rd == [StopReading(reading, t) EXCEPT !.current = t]
<1>2. /\ UNCHANGED <<xowner, ev>> /\ spc # "wait" /\ spc' = "wait"
      /\ ev.type = "reply" /\ t \in Selections /\ ev.arg \in Atoms \cup {None}
      /\ \/ UNCHANGED <<apps, xq>> /\ Cleared /\ Consumes({}, {})
         \/ /\ Useful /\ rd.atom = None /\ IsReading(rd)
            /\ PropTyped([prop EXCEPT !["TARGETS"] = None])
            /\ Converts(t, prop[ev.arg].kind, [prop EXCEPT !["TARGETS"] = None], rd)
  BY <1>1, ReplyStep
<1> HIDE DEF rd
<1>3. CASE UNCHANGED <<apps, xq>> /\ Cleared /\ Consumes({}, {})
  <2>1. ASSUME Separate, NEW b \in Kinds, prop'[b] # prop[b], NEW e \in Due', DataReply(e)
        PROVE  FALSE
    <3>1. b = ev.arg
      BY <1>3, <2>1 DEF Cleared, Atoms
    <3>2. DataReply(ev) /\ ev \in Due
      BY <1>1, <1>2, <2>1, <3>1, InHand DEF DataReply
    <3>3. \A i : ~DataReplied(i)
      BY <1>1, <1>2, <2>1, <3>2, SeparateDue
    <3>4. PICK i \in 1 .. Len(xq') : e = xq'[i]
      <4>1. \A d \in Due' : (spc' # "wait" /\ d = ev') \/ \E i \in 1 .. Len(xq') : d = xq'[i]
        BY <1>1, DueParts DEF Due
      <4> QED BY <1>2, <2>1, <4>1
    <3> QED BY <1>3, <2>1, <3>3, <3>4 DEF DataReplied
  <2>2. Takes
    BY <1>2, <1>3, <2>1 DEF Takes
  <2> QED BY <2>2
<1>4. CASE /\ Useful /\ rd.atom = None /\ IsReading(rd)
           /\ PropTyped([prop EXCEPT !["TARGETS"] = None])
           /\ Converts(t, prop[ev.arg].kind, [prop EXCEPT !["TARGETS"] = None], rd)
  <2> DEFINE a == prop["TARGETS"].kind
  <2>1. /\ a \in Kinds /\ Added(t, a) /\ reading'.atom = None
        /\ ~reading'.mixed => Apart(t, a)
    BY <1>2, <1>4, ReplyAdds
  <2>2. a \in Atoms /\ ~DataReply(ev) /\ ev.type \notin {"owner", "newvalue"}
    BY <1>2, <1>4, <2>1, KindsAssumption DEF Atoms, DataReply, Useful
  <2> HIDE DEF a
  <2>3. Calls(t, a)
    BY <1>2, <2>1, <2>2 DEF Calls, OwnerOf
  <2> QED BY <1>2, <2>2, <2>3
<1> QED BY <1>2, <1>3, <1>4

LEMMA PropertyShape ==
  ASSUME Exchange, PropertyChanged PROVE Takes
<1>1. Shape /\ Exchanged /\ Queues /\ Sequence(xq) /\ IsReading(reading)
  BY DEF Exchange, Invariant, Shape, Exchanged
<1>2. /\ UNCHANGED <<xowner, ev, apps>> /\ spc # "wait" /\ spc' = "wait"
      /\ ev.type = "newvalue" /\ ev.arg \in Atoms /\ Consumes({}, {})
      /\ UNCHANGED prop \/ (reading.atom = ev.arg /\ Cleared)
  BY <1>1, PropertyStep
<1>3. ASSUME Separate, NEW b \in Kinds, prop'[b] # prop[b], NEW e \in Due', DataReply(e)
      PROVE  FALSE
  <2>1. reading.atom = ev.arg /\ ev.arg # None
    BY <1>2, <1>3, KindsAssumption DEF Atoms
  <2>2. e \in Due
    BY <1>2, <1>3 DEF Consumes
  <2>3. reading.atom = None
    BY <1>1, <1>3, <2>2, SeparateDue
  <2> QED BY <2>1, <2>3
<1> QED BY <1>2, <1>3 DEF Takes

LEMMA NextShape ==
  ASSUME Exchange, Exchange', [Next]_vars
  PROVE  \/ Calm /\ \A s \in Selections : xowner'[s] \in {xowner[s], "us"}
         \/ \E s \in Selections : \/ \E k \in AppKinds : AppCopies(s, k)
                                  \/ AppConverts(s) \/ AppPortion(s)
         \/ \E s \in Selections, a \in Atoms : Calls(s, a)
         \/ Takes
<1>1. ASSUME Renews PROVE \E s \in Selections, a \in Atoms : Calls(s, a)
  <2>1. /\ UNCHANGED xowner /\ ev.type = "owner" /\ ev.sel \in Selections
        /\ Added(ev.sel, "TARGETS") /\ reading'.atom = None
        /\ ~reading'.mixed => Apart(ev.sel, "TARGETS")
    BY <1>1, RenewsStep
  <2>2. "TARGETS" \in Atoms /\ "TARGETS" \notin Kinds
    BY KindsAssumption DEF Atoms
  <2>3. Calls(ev.sel, "TARGETS")
    BY <2>1, <2>2 DEF Calls, OwnerOf, DataReply
  <2> QED BY <2>1, <2>2, <2>3
<1>2. ASSUME Demands PROVE \E s \in Selections, a \in Atoms : Calls(s, a)
  <2> DEFINE a == best[ev.sel]
  <2>1. /\ UNCHANGED xowner /\ ev.type = "demand" /\ ev.sel \in Selections /\ a \in Kinds
        /\ Added(ev.sel, a) /\ reading'.atom = reading.atom
        /\ ~reading'.mixed => Apart(ev.sel, a) /\ reading.atom = None
    BY <1>2, DemandsStep
  <2> HIDE DEF a
  <2>2. a \in Atoms
    BY <2>1 DEF Atoms
  <2>3. Calls(ev.sel, a)
    BY <2>1 DEF Calls, OwnerOf, DataReply
  <2> QED BY <2>1, <2>2, <2>3
<1> QED BY <1>1, <1>2, NextCalm, ReplyShape, PropertyShape

LEMMA CalmKept ==
  ASSUME Calm, NEW s \in Selections
  PROVE  /\ apps'[s] = apps[s] /\ Conversions(s)' = Conversions(s)
         /\ UNCHANGED <<reading, prop, apps, best>>
BY DEF Calm, Conversions

(* What the application that owns a selection does to its conversions.     *)
LEMMA FewerOwned ==
  ASSUME AppsTyped, NEW s \in Selections, apps[s].conv # <<>>,
         apps'[s].conv = Tail(apps[s].conv),
         \A t \in Selections : t # s => apps'[t] = apps[t]
  PROVE  /\ Conversions(s) = Conversions(s)' \cup {Head(apps[s].conv)}
         /\ \A t \in Selections : t # s => Conversions(t)' = Conversions(t)
         /\ \A t \in Selections : Conversions(t)' \subseteq Conversions(t)
<1>1. Sequence(apps[s].conv)
  BY DEF AppsTyped, IsApp
<1>2. Elements(apps[s].conv) = Elements(Tail(apps[s].conv)) \cup {Head(apps[s].conv)}
  BY <1>1, ElementsTail
<1>3. Conversions(s) = Conversions(s)' \cup {Head(apps[s].conv)}
  BY <1>2 DEF Conversions
<1>4. \A t \in Selections : t # s => Conversions(t)' = Conversions(t)
  BY DEF Conversions
<1> QED BY <1>3, <1>4

LEMMA NextVersioned ==
  ASSUME Exchange, Exchange', Versioned, [Next]_vars PROVE Versioned'
<1>1. /\ Shape /\ AppsTyped /\ PropTyped(prop) /\ version \in Nat
  BY DEF Exchange, Invariant, Exchanged, Incoming, Typed
<1> DEFINE G(t) == /\ apps'[t].copy.ver \in Nat /\ apps'[t].sending.ver \in Nat
                   /\ \A r \in Conversions(t)' : r.copy.ver \in Nat
<1> SUFFICES ASSUME NEW t \in Selections PROVE G(t)
  BY DEF Versioned
<1>2. /\ apps[t].copy.ver \in Nat /\ apps[t].sending.ver \in Nat
      /\ \A r \in Conversions(t) : r.copy.ver \in Nat
  BY DEF Versioned
<1>3. CASE Calm
  BY <1>2, <1>3, CalmKept
<1>4. ASSUME NEW s \in Selections, NEW k \in AppKinds, AppCopies(s, k) PROVE G(t)
  <2>1. /\ t # s => apps'[t] = apps[t]
        /\ apps'[t].conv = apps[t].conv /\ apps'[t].sending = apps[t].sending
        /\ apps'[s].copy.ver = version + 1
    BY <1>1, <1>4, AppCopiesStep
  <2>2. Conversions(t)' = Conversions(t)
    BY <2>1 DEF Conversions
  <2> QED BY <1>1, <1>2, <2>1, <2>2
<1>5. ASSUME NEW s \in Selections, AppConverts(s) PROVE G(t)
  <2>1. /\ apps[s].conv # <<>> /\ \A u \in Selections : u # s => apps'[u] = apps[u]
        /\ apps'[s].conv = Tail(apps[s].conv) /\ apps'[s].copy = apps[s].copy
        /\ apps'[s].sending \in {apps[s].sending, Head(apps[s].conv).copy}
    BY <1>1, <1>5, AppConvertsStep
  <2>2. /\ Conversions(s) = Conversions(s)' \cup {Head(apps[s].conv)}
        /\ \A u \in Selections : Conversions(u)' \subseteq Conversions(u)
    BY <1>1, <2>1, FewerOwned
  <2>3. Head(apps[s].conv).copy.ver \in Nat
    BY <2>2 DEF Versioned
  <2>4. t = s \/ apps'[t] = apps[t]
    BY <2>1
  <2> QED BY <1>2, <2>1, <2>2, <2>3, <2>4
<1>6. ASSUME NEW s \in Selections, AppPortion(s) PROVE G(t)
  <2>1. /\ \A u \in Selections : u # s => apps'[u] = apps[u]
        /\ apps'[s].conv = apps[s].conv /\ apps'[s].copy = apps[s].copy
        /\ apps'[s].sending \in {apps[s].sending, NoCopy}
    BY <1>1, <1>6, AppPortionStep
  <2>2. Conversions(t)' = Conversions(t) /\ NoCopy.ver \in Nat
    BY <2>1 DEF Conversions, NoCopy
  <2>3. t = s \/ apps'[t] = apps[t]
    BY <2>1
  <2> QED BY <1>2, <2>1, <2>2, <2>3
<1>7. ASSUME NEW s \in Selections, NEW a \in Atoms, Calls(s, a) PROVE G(t)
  <2> DEFINE r == [target |-> a, copy |-> apps[s].copy]
  <2>1. Added(s, a)
    BY <1>7 DEF Calls
  <2>2. Conversions(t)' \subseteq Conversions(t) \cup {r}
    BY <1>1, <2>1, AddedConversions
  <2>3. r.copy.ver \in Nat
    BY DEF Versioned
  <2> HIDE DEF r
  <2>4. apps'[t].sending = apps[t].sending /\ apps'[t].copy = apps[t].copy
    BY <2>1 DEF Added
  <2> QED BY <1>2, <2>2, <2>3, <2>4
<1>8. CASE Takes
  BY <1>2, <1>8 DEF Takes, Conversions
<1> HIDE DEF G
<1> QED BY <1>3, <1>4, <1>5, <1>6, <1>7, <1>8, NextShape

-----------------------------------------------------------------------------
(* Conversions are not asked of two selections at a time.                  *)
Sole == \A t, u \in Selections : Busy(t) /\ Busy(u) => t = u

LEMMA NextSole ==
  ASSUME Exchange, Exchange', Versioned, Sole, [Next]_vars, ~reading'.mixed
  PROVE  Sole'
<1>1. Shape /\ AppsTyped /\ PropTyped(prop) /\ EventsKnown /\ Sequence(xq)
  BY DEF Exchange, Invariant, Exchanged, Shape
<1>2. ASSUME \A t \in Selections : Busy(t)' => Busy(t) PROVE Sole'
  BY <1>2 DEF Sole
<1>3. ASSUME NEW t \in Selections, Conversions(t)' \subseteq Conversions(t),
             \A e \in Due' : ReplyOf(e, t) /\ e.arg \in Atoms => e \in Due \/ Busy(t)
      PROVE  Busy(t)' => Busy(t)
  BY <1>3 DEF Busy
<1>4. CASE Calm
  <2>1. ASSUME NEW t \in Selections PROVE Busy(t)' => Busy(t)
    <3>1. Conversions(t)' = Conversions(t)
      BY <1>4, CalmKept
    <3>2. \A e \in Due' : ReplyOf(e, t) => e \in Due
      BY <1>4 DEF Calm, Matters, ReplyOf
    <3> QED BY <1>3, <3>1, <3>2
  <2> QED BY <1>2, <2>1
<1>5. ASSUME NEW s \in Selections, NEW k \in AppKinds, AppCopies(s, k) PROVE Sole'
  <2> DEFINE o == Event("owner", s, "app")
  <2>1. ASSUME NEW t \in Selections PROVE Busy(t)' => Busy(t)
    <3>1. apps'[t].conv = apps[t].conv /\ Adds({o}, {<<o, o>>})
      BY <1>1, <1>5, AppCopiesStep
    <3>2. Conversions(t)' = Conversions(t)
      BY <3>1 DEF Conversions
    <3>3. \A e \in Due' : ReplyOf(e, t) => e \in Due
      BY <3>1, EventParts DEF Adds, ReplyOf
    <3> QED BY <1>3, <3>2, <3>3
  <2> QED BY <1>2, <2>1
<1>6. ASSUME NEW s \in Selections, AppConverts(s) PROVE Sole'
  <2> DEFINE r == Head(apps[s].conv)
             e == Event("newvalue", None, r.target)
             f == Event("reply", s, r.target)
             g == Event("reply", s, None)
  <2>1. /\ apps[s].conv # <<>> /\ \A u \in Selections : u # s => apps'[u] = apps[u]
        /\ apps'[s].conv = Tail(apps[s].conv)
        /\ Due' \subseteq Due \cup {e, f, g}
    BY <1>1, <1>6, AppConvertsStep DEF Adds
  <2>2. Busy(s) /\ \A u \in Selections : Conversions(u)' \subseteq Conversions(u)
    BY <1>1, <2>1, FewerOwned DEF Busy
  <2>3. e.type = "newvalue" /\ f.sel = s /\ g.sel = s
    BY EventParts
  <2> HIDE DEF e, f, g
  <2>4. ASSUME NEW t \in Selections PROVE Busy(t)' => Busy(t)
    <3>1. \A d \in Due' : ReplyOf(d, t) => d \in Due \/ t = s
      BY <2>1, <2>3 DEF ReplyOf
    <3> QED BY <1>3, <2>2, <3>1
  <2> QED BY <1>2, <2>4
<1>7. ASSUME NEW s \in Selections, AppPortion(s) PROVE Sole'
  <2> DEFINE e == Event("newvalue", None, apps[s].sending.kind)
  <2>1. /\ \A u \in Selections : u # s => apps'[u] = apps[u]
        /\ apps'[s].conv = apps[s].conv /\ Adds({e}, {<<e, e>>})
    BY <1>1, <1>7, AppPortionStep
  <2>2. ASSUME NEW t \in Selections PROVE Busy(t)' => Busy(t)
    <3>1. Conversions(t)' = Conversions(t)
      BY <2>1 DEF Conversions
    <3>2. \A d \in Due' : ReplyOf(d, t) => d \in Due
      BY <2>1, EventParts DEF Adds, ReplyOf
    <3> QED BY <1>3, <3>1, <3>2
  <2> QED BY <1>2, <2>2
<1>8. ASSUME NEW s \in Selections, NEW a \in Atoms, Calls(s, a) PROVE Sole'
  <2>1. \A t \in Selections : t # s => ~Busy(t)'
    BY <1>8 DEF Calls, Apart
  <2> QED BY <2>1 DEF Sole
<1>9. CASE Takes
  <2>1. ASSUME NEW t \in Selections PROVE Busy(t)' => Busy(t)
    <3>1. Conversions(t)' = Conversions(t) /\ Due' \subseteq Due
      BY <1>9 DEF Takes, Conversions, Consumes
    <3> QED BY <1>3, <3>1
  <2> QED BY <1>2, <2>1
<1> QED BY <1>4, <1>5, <1>6, <1>7, <1>8, <1>9, NextShape

-----------------------------------------------------------------------------
(* While data are to be converted no reply for data is due, and nothing is *)
(* read incrementally.                                                     *)
LEMMA AskedAlone ==
  ASSUME Shape, AppsTyped, Separate, NEW s \in Selections, apps[s].conv # <<>>,
         Head(apps[s].conv).target \in Kinds
  PROVE  reading.atom = None /\ \A e \in Due : ~DataReply(e)
<1>1. Sequence(apps[s].conv) /\ Sequence(xq)
  BY DEF AppsTyped, IsApp, Shape
<1>2. Head(apps[s].conv) = apps[s].conv[1] /\ 1 \in 1 .. Len(apps[s].conv)
  <2>1. Len(apps[s].conv) \in Nat \ {0}
    BY <1>1, SequenceParts
  <2> QED BY <1>1, <2>1, TailAny
<1>3. DataAsked(s, 1)
  BY <1>2 DEF DataAsked
<1>4. reading.atom = None
  BY <1>3 DEF Separate, ReadsAlone, NoConversion
<1> QED BY <1>1, <1>3, <1>4, SeparateDue

(* A reply for data finds the value of its property, and the owner sends   *)
(* the data that INCR announces; no later new value of it is due.          *)
Written ==
  \A e \in Due :
    DataReply(e) =>
      /\ prop[e.arg] # None
      /\ prop[e.arg].type = "INCR" => apps[e.sel].sending.kind = e.arg
      /\ \A f : <<e, f>> \in Ordered => ~NewValue(f, e.arg)

LEMMA NextWritten ==
  ASSUME Exchange, Exchange', Versioned, Separate, Written, [Next]_vars, ~reading'.mixed
  PROVE  Written'
<1>1. Shape /\ AppsTyped /\ PropTyped(prop) /\ EventsKnown /\ Sequence(xq)
  BY DEF Exchange, Invariant, Exchanged, Shape
<1> SUFFICES ASSUME NEW e \in Due', DataReply(e)
             PROVE  /\ prop'[e.arg] # None
                    /\ prop'[e.arg].type = "INCR" => apps'[e.sel].sending.kind = e.arg
                    /\ \A f : <<e, f>> \in Ordered' => ~NewValue(f, e.arg)
  BY DEF Written
<1> DEFINE G == /\ prop'[e.arg] # None
                /\ prop'[e.arg].type = "INCR" => apps'[e.sel].sending.kind = e.arg
                /\ \A f : <<e, f>> \in Ordered' => ~NewValue(f, e.arg)
<1>2. e.type = "reply" /\ e.arg \in Kinds /\ e.arg \in Atoms /\ e.arg # "TARGETS" /\ e.arg # None
  BY KindsAssumption DEF DataReply, Atoms
<1>3. ASSUME e \in Due
      PROVE  /\ prop[e.arg] # None /\ e.sel \in Selections
             /\ prop[e.arg].type = "INCR" => apps[e.sel].sending.kind = e.arg
             /\ \A f : <<e, f>> \in Ordered => ~NewValue(f, e.arg)
  BY <1>1, <1>2, <1>3, DueKnown DEF Written, Known
<1>4. ASSUME e \in Due, prop'[e.arg] = prop[e.arg],
             apps'[e.sel].sending = apps[e.sel].sending,
             \A f : <<e, f>> \in Ordered' /\ NewValue(f, e.arg) => <<e, f>> \in Ordered
      PROVE  G
  BY <1>3, <1>4
<1> HIDE DEF G
<1>5. CASE Calm
  <2>1. e \in Due
    BY <1>2, <1>5 DEF Calm, Matters
  <2>2. \A f : <<e, f>> \in Ordered' /\ NewValue(f, e.arg) => <<e, f>> \in Ordered
    BY <1>2, <1>5 DEF Calm, Matters, NewValue
  <2>3. UNCHANGED <<prop, apps>>
    BY <1>5 DEF Calm
  <2> QED BY <1>4, <2>1, <2>2, <2>3 DEF G
<1>6. ASSUME NEW s \in Selections, NEW k \in AppKinds, AppCopies(s, k) PROVE G
  <2> DEFINE o == Event("owner", s, "app")
  <2>1. /\ UNCHANGED prop /\ Adds({o}, {<<o, o>>})
        /\ \A t \in Selections : apps'[t].sending = apps[t].sending
    BY <1>1, <1>6, AppCopiesStep
  <2>2. o.type = "owner"
    BY EventParts
  <2> HIDE DEF o
  <2>3. e \in Due
    BY <1>2, <2>1, <2>2 DEF Adds
  <2>4. \A f : <<e, f>> \in Ordered' /\ NewValue(f, e.arg) => <<e, f>> \in Ordered
    BY <2>1, <2>2 DEF Adds, NewValue
  <2> QED BY <1>3, <1>4, <2>1, <2>3, <2>4
<1>7. ASSUME NEW s \in Selections, AppConverts(s) PROVE G
  <2> DEFINE r == Head(apps[s].conv)
             a == r.target
             x == Event("newvalue", None, a)
             y == Event("reply", s, a)
             z == Event("reply", s, None)
  <2>1. /\ apps[s].conv # <<>> /\ a \in Atoms
        /\ \A t \in Selections : t # s => apps'[t] = apps[t]
        /\ \A b \in Atoms : b # a => prop'[b] = prop[b]
        /\ \/ apps'[s].sending = apps[s].sending
           \/ a \in Kinds
        /\ \/ /\ a = "TARGETS" \/ a \in Kinds
              /\ prop'[a] # None
              /\ prop'[a].type = "INCR" => a \in Kinds /\ apps'[s].sending.kind = a
              /\ Adds({x, y}, {<<x, x>>, <<x, y>>, <<y, y>>})
           \/ a \in Kinds /\ Adds({z}, {<<z, z>>})
    BY <1>1, <1>7, AppConvertsStep
  <2>2. /\ x.type = "newvalue" /\ x.arg = a /\ y.type = "reply" /\ y.sel = s /\ y.arg = a
        /\ z.type = "reply" /\ z.arg = None
    BY EventParts
  <2>3. a \in Kinds => \A d \in Due : ~DataReply(d)
    BY <1>1, <2>1, AskedAlone
  <2> HIDE DEF x, y, z, a, r
  <2>4. CASE a \notin Kinds
    <3>1. a = "TARGETS" /\ Adds({x, y}, {<<x, x>>, <<x, y>>, <<y, y>>})
      BY <2>1, <2>4 DEF Atoms
    <3>2. e \in Due
      BY <1>2, <2>2, <3>1 DEF Adds
    <3>3. \A f : <<e, f>> \in Ordered' /\ NewValue(f, e.arg) => <<e, f>> \in Ordered
      BY <1>2, <2>2, <3>1 DEF Adds, NewValue
    <3>4. apps'[e.sel].sending = apps[e.sel].sending
      BY <1>3, <2>1, <2>4, <3>2
    <3> QED BY <1>2, <1>4, <2>1, <3>1, <3>2, <3>3, <3>4
  <2>5. CASE a \in Kinds
    <3>1. e \notin Due
      BY <2>3, <2>5
    <3>2. e # z /\ e # x
      BY <1>2, <2>2
    <3>3. /\ e = y /\ Adds({x, y}, {<<x, x>>, <<x, y>>, <<y, y>>}) /\ prop'[a] # None
          /\ prop'[a].type = "INCR" => apps'[s].sending.kind = a
      BY <2>1, <3>1, <3>2 DEF Adds
    <3>4. \A f : <<e, f>> \in Ordered' => f = y
      BY <1>2, <2>2, <3>1, <3>3, OrderedDue DEF Adds
    <3> QED BY <2>2, <3>3, <3>4 DEF G, NewValue
  <2> QED BY <2>4, <2>5
<1>8. ASSUME NEW s \in Selections, AppPortion(s) PROVE G
  <2> DEFINE c == apps[s].sending x == Event("newvalue", None, c.kind)
  <2>1. /\ prop[c.kind] = None /\ \A t \in Selections : t # s => apps'[t] = apps[t]
        /\ \A b \in Atoms : b # c.kind => prop'[b] = prop[b]
        /\ Adds({x}, {<<x, x>>})
    BY <1>1, <1>8, AppPortionStep
  <2>2. x.type = "newvalue" /\ x.arg = c.kind
    BY EventParts
  <2> HIDE DEF x
  <2>3. e \in Due
    BY <1>2, <2>1, <2>2 DEF Adds
  <2>4. e.arg # c.kind /\ prop'[e.arg] = prop[e.arg]
    BY <1>2, <1>3, <2>1, <2>3
  <2>5. \A f : <<e, f>> \in Ordered' => ~NewValue(f, e.arg)
    BY <1>3, <2>1, <2>2, <2>3, <2>4 DEF Adds, NewValue
  <2>6. ASSUME prop'[e.arg].type = "INCR" PROVE apps'[e.sel].sending.kind = e.arg
    BY <1>3, <2>1, <2>3, <2>4, <2>6
  <2> QED BY <1>3, <2>3, <2>4, <2>5, <2>6 DEF G
<1>9. ASSUME NEW s \in Selections, NEW a \in Atoms, Calls(s, a) PROVE G
  <2>1. /\ Added(s, a) /\ (a \in Kinds => \A d \in Due' : ~DataReply(d))
    BY <1>9 DEF Calls, Apart
  <2>2. a \notin Kinds
    BY <2>1
  <2>3. PICK E : Consumes(E, E \X E) /\ \A d \in E : ReplyOf(d, s) /\ d.arg = None
    BY <2>1 DEF Added
  <2>4. e \in Due
    BY <1>2, <2>3 DEF Consumes
  <2>5. \A f : <<e, f>> \in Ordered' /\ NewValue(f, e.arg) => <<e, f>> \in Ordered
    <3>1. \A f \in E : ~NewValue(f, e.arg)
      BY <2>3 DEF ReplyOf, NewValue
    <3>2. Ordered' \subseteq (Ordered \cup (Due \X E)) \cup (E \X E)
      BY <2>3 DEF Consumes
    <3> QED BY <3>1, <3>2
  <2>6. prop'[e.arg] = prop[e.arg] /\ apps'[e.sel].sending = apps[e.sel].sending
    BY <1>2, <1>3, <2>1, <2>2, <2>4 DEF Added
  <2> QED BY <1>4, <2>4, <2>5, <2>6
<1>10. CASE Takes
  <2>1. /\ UNCHANGED apps /\ e \in Due /\ \A f : <<e, f>> \in Ordered' => <<e, f>> \in Ordered
        /\ prop'[e.arg] = prop[e.arg]
    BY <1>2, <1>10 DEF Takes, Consumes
  <2> QED BY <1>4, <2>1 DEF G
<1> QED BY <1>5, <1>6, <1>7, <1>8, <1>9, <1>10, NextShape DEF G

-----------------------------------------------------------------------------
(* What a reply does, with the conversion it may ask for.                  *)
LEMMA ReplyForms ==
  ASSUME Exchange, Exchange', ConversionDone
  PROVE  /\ UNCHANGED <<xowner, ev>> /\ spc # "wait" /\ spc' = "wait" /\ ev \in Due
         /\ ev.type = "reply" /\ ev.sel \in Selections /\ ev.arg \in Atoms \cup {None}
         /\ StillEnded
         /\ \/ /\ Refusal \/ Useless
               /\ reading'.atom = None /\ UNCHANGED <<apps, best>> /\ Cleared
               /\ Consumes({}, {})
            \/ /\ OfType("INCR")
               /\ reading'.atom = ev.arg /\ reading'.current = ev.sel
               /\ UNCHANGED <<apps, best>> /\ Cleared /\ Consumes({}, {})
            \/ /\ Useful /\ reading'.atom = None /\ UNCHANGED apps /\ Cleared
               /\ best' = [best EXCEPT ![ev.sel] = prop["TARGETS"].kind]
               /\ Consumes({}, {})
               /\ Fed(ev.sel, "any") => Ended(ev.sel)'
            \/ /\ Useful /\ prop["TARGETS"].kind \in Kinds
               /\ Added(ev.sel, prop["TARGETS"].kind)
               /\ UNCHANGED best /\ reading'.atom = None
               /\ ~reading'.mixed => Apart(ev.sel, prop["TARGETS"].kind)
            \/ /\ OfType("data")
               /\ reading'.atom = None /\ UNCHANGED <<apps, best>> /\ Cleared
               /\ Consumes({}, {})
               /\ Fed(ev.sel, "any") => Ended(ev.sel)'
<1>1. Shape /\ Exchanged /\ Queues /\ Sequence(xq)
  BY DEF Exchange, Invariant, Shape
<1> DEFINE t == ev.sel rd == [StopReading(reading, t) EXCEPT !.current = t]
           p == [prop EXCEPT !["TARGETS"] = None]
<1>2. /\ UNCHANGED <<xowner, ev>> /\ spc # "wait" /\ spc' = "wait"
      /\ ev.type = "reply" /\ ev.sel \in Selections /\ ev.arg \in Atoms \cup {None}
      /\ StillEnded
      /\ \/ /\ Refusal \/ Useless
            /\ reading'.atom = None /\ UNCHANGED <<apps, best>> /\ Cleared
            /\ Consumes({}, {})
         \/ /\ OfType("INCR")
            /\ reading'.atom = ev.arg /\ reading'.current = ev.sel
            /\ UNCHANGED <<apps, best>> /\ Cleared /\ Consumes({}, {})
         \/ /\ Useful /\ reading'.atom = None /\ UNCHANGED apps /\ Cleared
            /\ best' = [best EXCEPT ![ev.sel] = prop[ev.arg].kind]
            /\ Consumes({}, {})
            /\ Fed(ev.sel, "any") => Ended(ev.sel)'
         \/ /\ Useful /\ rd.atom = None /\ IsReading(rd) /\ PropTyped(p)
            /\ Converts(t, prop[ev.arg].kind, p, rd) /\ UNCHANGED best
         \/ /\ OfType("data")
            /\ reading'.atom = None /\ UNCHANGED <<apps, best>> /\ Cleared
            /\ Consumes({}, {})
            /\ Fed(ev.sel, "any") => Ended(ev.sel)'
  BY <1>1, ReplyStep
<1> HIDE DEF rd
<1>3. ev \in Due
  BY <1>1, <1>2, InHand
<1>4. Useful => ev.arg = "TARGETS"
  BY DEF Useful
<1>5. CASE /\ Useful /\ rd.atom = None /\ IsReading(rd) /\ PropTyped(p)
           /\ Converts(t, prop[ev.arg].kind, p, rd) /\ UNCHANGED best
  <2>1. /\ prop["TARGETS"].kind \in Kinds /\ Added(ev.sel, prop["TARGETS"].kind)
        /\ reading'.atom = None
        /\ ~reading'.mixed => Apart(ev.sel, prop["TARGETS"].kind)
    BY <1>2, <1>5, ReplyAdds
  <2> QED BY <1>2, <1>3, <1>5, <2>1
<1> HIDE DEF p
<1> QED BY <1>2, <1>3, <1>4, <1>5

(* Of what is read incrementally the owner is about to write a portion, or *)
(* it is written and the event that tells it is due.                       *)
Portioned ==
  reading.atom # None =>
    LET a == reading.atom
        s == reading.current
    IN  \/ prop[a] = None /\ apps[s].sending.kind = a
        \/ /\ prop[a] # None /\ prop[a].type = "data"
           /\ \E e \in Due : NewValue(e, a)
           /\ prop[a].size = 0 \/ apps[s].sending.kind = a

LEMMA NextPortioned ==
  ASSUME Exchange, Exchange', Versioned, Separate, Written, Portioned, [Next]_vars,
         ~reading'.mixed
  PROVE  Portioned'
<1>1. /\ Shape /\ AppsTyped /\ PropTyped(prop) /\ EventsKnown /\ Sequence(xq) /\ Exchanged
      /\ Queues /\ IsReading(reading) /\ IsReading(reading')
  BY DEF Exchange, Invariant, Exchanged, Shape
<1> SUFFICES ASSUME reading'.atom # None PROVE Portioned'
  BY DEF Portioned
<1>2. reading'.atom \in Kinds /\ reading'.atom \in Atoms /\ reading'.atom # "TARGETS"
  BY <1>1, KindsAssumption DEF IsReading, Atoms
<1> DEFINE a == reading.atom s == reading.current
           Awaited == prop[a] = None /\ apps[s].sending.kind = a
           Arrived == /\ prop[a] # None /\ prop[a].type = "data"
                      /\ \E e \in Due : NewValue(e, a)
                      /\ prop[a].size = 0 \/ apps[s].sending.kind = a
<1>3. ASSUME UNCHANGED reading
      PROVE  /\ a # None /\ a \in Kinds /\ a \in Atoms /\ s \in Selections
             /\ Awaited \/ Arrived
             /\ NoConversion /\ Alone(s, a)
  BY <1>1, <1>2, <1>3 DEF IsReading, Portioned, Separate, ReadsAlone
<1>4. ASSUME UNCHANGED reading, prop'[a] = prop[a],
             apps'[s].sending = apps[s].sending,
             \A e \in Due : NewValue(e, a) => e \in Due'
      PROVE  Portioned'
  BY <1>3, <1>4 DEF Portioned
<1> HIDE DEF a, s
<1>5. CASE Calm
  <2>1. /\ UNCHANGED <<reading, prop, apps>>
        /\ \A e \in Due : NewValue(e, a) => e \in Due'
    BY <1>5 DEF Calm, Matters, NewValue
  <2> QED BY <1>4, <2>1
<1>6. ASSUME NEW t \in Selections, NEW k \in AppKinds, AppCopies(t, k) PROVE Portioned'
  <2> DEFINE o == Event("owner", t, "app")
  <2>1. /\ UNCHANGED <<reading, prop>> /\ Adds({o}, {<<o, o>>})
        /\ \A u \in Selections : apps'[u].sending = apps[u].sending
    BY <1>1, <1>6, AppCopiesStep
  <2> HIDE DEF o
  <2> QED BY <1>3, <1>4, <2>1 DEF Adds
<1>7. ASSUME NEW t \in Selections, AppConverts(t) PROVE Portioned'
  <2> DEFINE b == Head(apps[t].conv).target
  <2>1. /\ apps[t].conv # <<>> /\ b \in Atoms /\ UNCHANGED reading
        /\ \A u \in Selections : u # t => apps'[u] = apps[u]
        /\ \A c \in Atoms : c # b => prop'[c] = prop[c]
        /\ \/ apps'[t].sending = apps[t].sending
           \/ b \in Kinds
        /\ Due \subseteq Due'
    BY <1>1, <1>7, AppConvertsStep DEF Adds
  <2>2. b \notin Kinds
    BY <1>1, <1>3, <2>1, AskedAlone DEF a
  <2> HIDE DEF b
  <2>3. b # a
    BY <1>3, <2>1, <2>2
  <2>4. s = t \/ s # t
    OBVIOUS
  <2>5. apps'[s].sending = apps[s].sending
    BY <1>3, <2>1, <2>2, <2>4
  <2> QED BY <1>3, <1>4, <2>1, <2>3, <2>5
<1>8. ASSUME NEW t \in Selections, AppPortion(t) PROVE Portioned'
  <2> DEFINE c == apps[t].sending x == Event("newvalue", None, c.kind)
  <2>1. /\ prop[c.kind] = None /\ \A u \in Selections : u # t => apps'[u] = apps[u]
        /\ \A b \in Atoms : b # c.kind => prop'[b] = prop[b]
        /\ prop'[c.kind] # None /\ prop'[c.kind].type = "data"
        /\ prop'[c.kind].size = 0 \/ apps'[t].sending = c
        /\ Adds({x}, {<<x, x>>}) /\ x \in Due' /\ UNCHANGED reading
    BY <1>1, <1>8, AppPortionStep
  <2>2. NewValue(x, c.kind)
    BY EventParts DEF NewValue
  <2> HIDE DEF x
  <2>3. CASE c.kind = a
    <3>1. t = s
      BY <1>3, <2>1, <2>3 DEF Alone
    <3>2. reading'.atom = a /\ reading'.current = s
      BY <2>1 DEF a, s
    <3> QED BY <2>1, <2>2, <2>3, <3>1, <3>2 DEF Portioned
  <2>4. CASE c.kind # a
    <3>1. prop'[a] = prop[a] /\ Due \subseteq Due'
      BY <1>3, <2>1, <2>4 DEF Adds
    <3>2. CASE t # s
      BY <1>3, <1>4, <2>1, <3>1, <3>2
    <3>3. CASE t = s
      <4>1. apps[s].sending.kind # a
        BY <2>4, <3>3
      <4>2. Arrived /\ prop[a].size = 0
        BY <1>3, <2>1, <4>1
      <4>3. reading'.atom = a
        BY <2>1 DEF a
      <4> QED BY <3>1, <4>2, <4>3 DEF Portioned
    <3> QED BY <3>2, <3>3
  <2> QED BY <2>3, <2>4
<1>9. CASE Renews
  BY <1>9, RenewsStep
<1>10. CASE Demands
  BY <1>10, DemandsStep
<1>11. CASE ConversionDone
  <2>1. /\ ev \in Due /\ ev.type = "reply" /\ ev.sel \in Selections
        /\ OfType("INCR") /\ reading'.atom = ev.arg /\ reading'.current = ev.sel
        /\ UNCHANGED apps /\ Cleared
    BY <1>11, ReplyForms
  <2>2. DataReply(ev) /\ prop[ev.arg].type = "INCR" /\ ev.arg \in Atoms
    BY <2>1 DEF DataReply, OfType, Atoms
  <2>3. apps[ev.sel].sending.kind = ev.arg /\ prop'[ev.arg] = None
    BY <2>1, <2>2 DEF Written, Cleared
  <2> QED BY <2>1, <2>3 DEF Portioned
<1>12. CASE PropertyChanged
  <2>1. /\ UNCHANGED apps /\ ev.arg \in Atoms /\ Consumes({}, {})
        /\ \/ /\ reading.atom # ev.arg \/ prop[ev.arg] = None
              /\ UNCHANGED <<reading, prop>>
           \/ reading.atom = ev.arg /\ OfType("INCR")
           \/ /\ reading.atom = ev.arg /\ OfType("data") /\ Cleared
              /\ prop[ev.arg].size # 0
              /\ reading'.atom = ev.arg /\ reading'.current = reading.current
    BY <1>1, <1>12, PropertyStep
  <2>2. ev.arg # None
    BY <2>1, KindsAssumption DEF Atoms
  <2>3. CASE /\ reading.atom # ev.arg \/ prop[ev.arg] = None
             /\ UNCHANGED <<reading, prop>>
    <3>1. CASE reading.atom # ev.arg
      <4>1. \A e \in Due : NewValue(e, a) => e \in Due'
        BY <2>1, <3>1 DEF Consumes, NewValue, a
      <4> QED BY <1>4, <2>1, <2>3, <4>1
    <3>2. CASE reading.atom = ev.arg /\ prop[ev.arg] = None
      <4>1. Awaited
        BY <1>3, <2>3, <3>2 DEF a
      <4> QED BY <2>1, <2>3, <4>1 DEF Portioned, a, s
    <3> QED BY <2>3, <3>1, <3>2
  <2>4. CASE reading.atom = ev.arg /\ OfType("INCR")
    BY <2>2, <2>4 DEF Portioned, OfType
  <2>5. CASE /\ reading.atom = ev.arg /\ OfType("data") /\ Cleared
             /\ prop[ev.arg].size # 0
             /\ reading'.atom = ev.arg /\ reading'.current = reading.current
    <3>1. prop'[ev.arg] = None
      BY <2>1, <2>5 DEF Cleared
    <3>2. apps[reading.current].sending.kind = ev.arg
      BY <2>2, <2>5 DEF Portioned, OfType
    <3> QED BY <2>1, <2>5, <3>1, <3>2 DEF Portioned
  <2> QED BY <2>1, <2>3, <2>4, <2>5
<1> QED BY <1>5, <1>6, <1>7, <1>8, <1>9, <1>10, <1>11, <1>12, NextCalm

-----------------------------------------------------------------------------
(* The client is to get what an application copied to selection s.         *)
Offered(s) ==
  ServerMayOwn /\ s \notin Skipped /\ xowner[s] = "app" /\ apps[s].copy.kind \in Kinds

(* The thread is still to hear of the new owner.                           *)
Owed(s) == \E e \in Due : OwnerOf(e, s)

(* The owner is still to tell what its contents are.                       *)
AskedAnew(s) == \E r \in Conversions(s) : Names(r, apps[s].copy.kind)

(* The thread is still to read what the contents are.                      *)
ToldAnew(s) ==
  /\ \E e \in Due : ReplyOf(e, s) /\ e.arg = "TARGETS"
  /\ prop["TARGETS"] # None /\ prop["TARGETS"].kind = apps[s].copy.kind

Renewed(s) == Owed(s) \/ AskedAnew(s) \/ ToldAnew(s)

LEMMA OfferedKept ==
  ASSUME Exchange, Exchange', [Next]_vars, Versioned, NEW s \in Selections, Offered(s)'
  PROVE  \/ Offered(s) /\ apps'[s].copy = apps[s].copy
         \/ (\E k \in AppKinds : AppCopies(s, k)) /\ Owed(s)'
<1>1. Shape /\ AppsTyped /\ PropTyped(prop) /\ DOMAIN xowner = Selections
  BY DEF Exchange, Invariant, Exchanged, Shape
<1>2. ServerMayOwn /\ s \notin Skipped /\ xowner'[s] = "app" /\ apps'[s].copy.kind \in Kinds
  BY DEF Offered
<1>3. ASSUME xowner'[s] = xowner[s] \/ xowner'[s] = "us", apps'[s].copy = apps[s].copy
      PROVE  Offered(s) /\ apps'[s].copy = apps[s].copy
  BY <1>2, <1>3 DEF Offered
<1> DEFINE G == \/ Offered(s) /\ apps'[s].copy = apps[s].copy
                \/ (\E k \in AppKinds : AppCopies(s, k)) /\ Owed(s)'
<1> HIDE DEF G
<1>4. ASSUME Calm, \A t \in Selections : xowner'[t] \in {xowner[t], "us"} PROVE G
  <2>1. apps'[s].copy = apps[s].copy
    BY <1>4, CalmKept
  <2> QED BY <1>3, <1>4, <2>1 DEF G
<1>5. ASSUME NEW t \in Selections, NEW k \in AppKinds, AppCopies(t, k) PROVE G
  <2> DEFINE o == Event("owner", t, "app")
  <2>1. /\ \A u \in Selections : u # t => apps'[u] = apps[u] /\ xowner'[u] = xowner[u]
        /\ o \in Due'
    BY <1>1, <1>5, AppCopiesStep
  <2>2. OwnerOf(o, t)
    BY EventParts DEF OwnerOf
  <2> HIDE DEF o
  <2>3. CASE t = s
    BY <1>5, <2>1, <2>2, <2>3 DEF G, Owed
  <2>4. CASE t # s
    BY <1>3, <2>1, <2>4 DEF G
  <2> QED BY <2>3, <2>4
<1>6. ASSUME NEW t \in Selections, AppConverts(t) PROVE G
  <2>1. /\ \A u \in Selections : u # t => apps'[u] = apps[u]
        /\ apps'[t].copy = apps[t].copy /\ UNCHANGED xowner
    BY <1>1, <1>6, AppConvertsStep
  <2>2. s = t \/ s # t
    OBVIOUS
  <2> QED BY <1>3, <2>1, <2>2 DEF G
<1>7. ASSUME NEW t \in Selections, AppPortion(t) PROVE G
  <2>1. /\ \A u \in Selections : u # t => apps'[u] = apps[u]
        /\ apps'[t].copy = apps[t].copy /\ UNCHANGED xowner
    BY <1>1, <1>7, AppPortionStep
  <2>2. s = t \/ s # t
    OBVIOUS
  <2> QED BY <1>3, <2>1, <2>2 DEF G
<1>8. ASSUME NEW t \in Selections, NEW a \in Atoms, Calls(t, a) PROVE G
  BY <1>3, <1>8 DEF G, Calls, Added
<1>9. ASSUME Takes PROVE G
  BY <1>3, <1>9 DEF G, Takes
<1> QED BY <1>4, <1>5, <1>6, <1>7, <1>8, <1>9, NextShape DEF G

(* The last conversion to TARGETS is for the contents that are offered,    *)
(* once the thread has heard of their owner.                               *)
Fresh(s) == Offered(s) /\ ~Owed(s) => Freshest(apps[s].conv, apps[s].copy.kind)

LEMMA NextFresh ==
  ASSUME Exchange, Exchange', [Next]_vars, Versioned, NEW s \in Selections, Fresh(s)
  PROVE  Fresh(s)'
<1>1. Shape /\ AppsTyped /\ PropTyped(prop) /\ Sequence(apps[s].conv)
  BY DEF Exchange, Invariant, Exchanged, AppsTyped, IsApp
<1> SUFFICES ASSUME Offered(s)', ~Owed(s)'
             PROVE  Freshest(apps'[s].conv, apps'[s].copy.kind)
  BY DEF Fresh
<1>2. Offered(s) /\ apps'[s].copy = apps[s].copy
  BY OfferedKept
<1> DEFINE k == apps[s].copy.kind
<1>3. ASSUME ~Owed(s) PROVE Freshest(apps[s].conv, k)
  BY <1>2, <1>3 DEF Fresh
<1>4. ASSUME \A e \in Due : OwnerOf(e, s) => e \in Due' PROVE Freshest(apps[s].conv, k)
  BY <1>3, <1>4 DEF Owed
<1>5. ServerMayOwn /\ xowner[s] = "app"
  BY <1>2 DEF Offered
<1> DEFINE G == Freshest(apps'[s].conv, k)
<1> HIDE DEF G, k
<1>6. CASE Calm
  <2>1. \A e \in Due : OwnerOf(e, s) => e \in Due'
    BY <1>5, <1>6 DEF Calm, Matters, OwnerOf
  <2>2. apps'[s] = apps[s]
    BY <1>6, CalmKept
  <2>3. G
    BY <1>4, <2>1, <2>2 DEF G
  <2> QED BY <1>2, <2>3 DEF G, k
<1>7. ASSUME NEW t \in Selections, NEW l \in AppKinds, AppCopies(t, l) PROVE G
  <2>1. apps'[s].conv = apps[s].conv /\ Due \subseteq Due'
    BY <1>1, <1>7, AppCopiesStep DEF Adds
  <2> QED BY <1>4, <2>1 DEF G
<1>8. ASSUME NEW t \in Selections, AppConverts(t) PROVE G
  <2>1. /\ \A u \in Selections : u # t => apps'[u] = apps[u]
        /\ apps[t].conv # <<>> /\ apps'[t].conv = Tail(apps[t].conv) /\ Due \subseteq Due'
    BY <1>1, <1>8, AppConvertsStep DEF Adds
  <2>2. Freshest(apps[s].conv, k)
    BY <1>4, <2>1
  <2>3. CASE t = s
    BY <1>1, <2>1, <2>2, <2>3, FreshestTail DEF G
  <2>4. CASE t # s
    BY <2>1, <2>2, <2>4 DEF G
  <2> QED BY <2>3, <2>4
<1>9. ASSUME NEW t \in Selections, AppPortion(t) PROVE G
  <2>1. /\ \A u \in Selections : u # t => apps'[u] = apps[u]
        /\ apps'[t].conv = apps[t].conv /\ Due \subseteq Due'
    BY <1>1, <1>9, AppPortionStep DEF Adds
  <2>2. Freshest(apps[s].conv, k) /\ (s = t \/ s # t)
    BY <1>4, <2>1
  <2>3. apps'[s].conv = apps[s].conv
    BY <2>1, <2>2
  <2> QED BY <2>2, <2>3 DEF G
<1>10. ASSUME NEW t \in Selections, NEW a \in Atoms, Calls(t, a) PROVE G
  <2> DEFINE r == [target |-> a, copy |-> apps[t].copy]
  <2>1. /\ Added(t, a) /\ \A u : OwnerOf(ev, u) => u = t /\ a = "TARGETS"
    BY <1>10 DEF Calls
  <2>2. PICK E : Consumes(E, E \X E)
    BY <2>1 DEF Added
  <2>3. (t = s /\ a = "TARGETS") \/ Freshest(apps[s].conv, k)
    <3>1. OwnerOf(ev, s) \/ \A e \in Due : OwnerOf(e, s) => e \in Due'
      BY <2>2 DEF Consumes
    <3> QED BY <1>4, <2>1, <3>1
  <2>4. CASE t # s
    BY <2>1, <2>3, <2>4 DEF G, Added
  <2>5. CASE t = s
    <3>1. apps'[s].conv = Append(apps[s].conv, r)
      BY <1>5, <2>1, <2>5 DEF Added
    <3>2. r.target = a /\ r.copy.kind = k
      BY <2>5 DEF k
    <3> HIDE DEF r
    <3>3. Names(r, k) \/ (Freshest(apps[s].conv, k) /\ r.target # "TARGETS")
      BY <2>3, <3>2 DEF Names
    <3>4. PICK z : z = k
      OBVIOUS
    <3>5. Freshest(Append(apps[s].conv, r), z)
      BY <1>1, <3>3, <3>4, FreshestAppend
    <3> QED BY <3>1, <3>4, <3>5 DEF G
  <2> QED BY <2>4, <2>5
<1>11. ASSUME Takes PROVE G
  <2>1. \A e \in Due : OwnerOf(e, s) => e \in Due'
    BY <1>11 DEF Takes, Consumes, OwnerOf
  <2> QED BY <1>4, <1>11, <2>1 DEF G, Takes
<1>12. G
  BY <1>2, <1>6, <1>7, <1>8, <1>9, <1>10, <1>11, NextShape DEF G, k
<1> QED BY <1>2, <1>12 DEF G, k

(* What the contents are is told until the reply to a conversion to        *)
(* TARGETS tells it.                                                       *)
LEMMA RenewedKept ==
  ASSUME Exchange, Exchange', [Next]_vars, Versioned, Sole, ~reading'.mixed,
         NEW s \in Selections, Fresh(s), Offered(s)', Renewed(s)
  PROVE  \/ Renewed(s)'
         \/ /\ ConversionDone /\ ev.sel = s /\ Useful
            /\ prop["TARGETS"].kind = apps[s].copy.kind
            /\ Offered(s) /\ apps'[s].copy = apps[s].copy
<1> DEFINE k == apps[s].copy.kind
           Over == /\ ConversionDone /\ ev.sel = s /\ Useful
                   /\ prop["TARGETS"].kind = k
<1>1. /\ Shape /\ AppsTyped /\ PropTyped(prop) /\ Sequence(apps[s].conv) /\ Sequence(xq)
      /\ Exchanged /\ Queues
  BY DEF Exchange, Invariant, Exchanged, AppsTyped, IsApp, Shape
<1>2. CASE Owed(s)'
  BY <1>2 DEF Renewed
<1>3. CASE ~Owed(s)'
  <2>1. Offered(s) /\ apps'[s].copy = apps[s].copy
    BY <1>3, OfferedKept
  <2>2. ServerMayOwn /\ s \notin Skipped /\ xowner[s] = "app" /\ k \in Kinds /\ "TARGETS" \in Atoms
        /\ "TARGETS" \notin Kinds
    BY <2>1, KindsAssumption DEF Offered, Atoms
  <2>3. apps'[s].copy.kind = k
    BY <2>1
  <2>4. ASSUME NEW r \in Conversions(s)', Names(r, k) PROVE Renewed(s)'
    BY <2>3, <2>4 DEF Renewed, AskedAnew
  <2>5. ASSUME NEW e \in Due', ReplyOf(e, s), e.arg = "TARGETS", prop'["TARGETS"] # None,
               prop'["TARGETS"].kind = k
        PROVE  Renewed(s)'
    BY <2>3, <2>5 DEF Renewed, ToldAnew
  <2>6. ASSUME ToldAnew(s)
        PROVE  \E e \in Due : ReplyOf(e, s) /\ e.arg = "TARGETS" /\ prop["TARGETS"] # None
                              /\ prop["TARGETS"].kind = k
    BY <2>6 DEF ToldAnew
  <2>7. ASSUME AskedAnew(s) PROVE \E r \in Conversions(s) : Names(r, k)
    BY <2>7 DEF AskedAnew
  <2> HIDE DEF k, Over
  <2>8. ASSUME \A e \in Due : OwnerOf(e, s) => e \in Due' PROVE ~Owed(s)
    BY <1>3, <2>8 DEF Owed
  <2>9. ASSUME \A e \in Due : OwnerOf(e, s) => e \in Due', Conversions(s) \subseteq Conversions(s)',
               ToldAnew(s) => Renewed(s)' \/ Over
        PROVE  Renewed(s)' \/ Over
    BY <2>4, <2>7, <2>8, <2>9 DEF Renewed
  <2>10. ASSUME \A e \in Due : ReplyOf(e, s) => e \in Due', prop'["TARGETS"] = prop["TARGETS"]
         PROVE  ToldAnew(s) => Renewed(s)'
    BY <2>5, <2>6, <2>10
  <2>11. ASSUME ToldAnew(s), NEW t \in Selections, Busy(t) PROVE t = s
    <3>1. Busy(s)
      BY <2>2, <2>6, <2>11 DEF Busy
    <3> QED BY <2>11, <3>1 DEF Sole
  <2>12. ASSUME Calm PROVE Renewed(s)' \/ Over
    <3>1. /\ \A e \in Due : OwnerOf(e, s) \/ ReplyOf(e, s) => e \in Due'
          /\ UNCHANGED prop
      BY <2>2, <2>12 DEF Calm, Matters, OwnerOf, ReplyOf
    <3>2. Conversions(s)' = Conversions(s)
      BY <2>12, CalmKept
    <3> QED BY <2>9, <2>10, <3>1, <3>2
  <2>13. ASSUME NEW t \in Selections, NEW l \in AppKinds, AppCopies(t, l)
         PROVE  Renewed(s)' \/ Over
    <3>1. apps'[s].conv = apps[s].conv /\ Due \subseteq Due' /\ UNCHANGED prop
      BY <1>1, <2>13, AppCopiesStep DEF Adds
    <3>2. Conversions(s)' = Conversions(s)
      BY <3>1 DEF Conversions
    <3> QED BY <2>9, <2>10, <3>1, <3>2
  <2>14. ASSUME NEW t \in Selections, AppPortion(t) PROVE Renewed(s)' \/ Over
    <3> DEFINE b == apps[t].sending.kind
    <3>1. /\ \A u \in Selections : u # t => apps'[u] = apps[u]
          /\ apps'[t].conv = apps[t].conv /\ Due \subseteq Due' /\ b \in Kinds
          /\ \A c \in Atoms : c # b => prop'[c] = prop[c]
      BY <1>1, <2>14, AppPortionStep DEF Adds
    <3>2. s = t \/ s # t
      OBVIOUS
    <3>3. apps'[s].conv = apps[s].conv
      BY <3>1, <3>2
    <3>4. Conversions(s)' = Conversions(s)
      BY <3>3 DEF Conversions
    <3>5. prop'["TARGETS"] = prop["TARGETS"]
      BY <2>2, <3>1
    <3> QED BY <2>9, <2>10, <3>1, <3>4, <3>5
  <2>15. ASSUME NEW t \in Selections, AppConverts(t) PROVE Renewed(s)' \/ Over
    <3> DEFINE r == Head(apps[t].conv)
               a == r.target
               y == Event("reply", t, a)
    <3>1. /\ apps[t].conv # <<>> /\ apps'[t].conv = Tail(apps[t].conv)
          /\ \A u \in Selections : u # t => apps'[u] = apps[u]
          /\ \A b \in Atoms : b # a => prop'[b] = prop[b]
          /\ Due \subseteq Due'
          /\ a = "TARGETS" => prop'[a] # None /\ prop'[a].kind = r.copy.kind /\ y \in Due'
      BY <1>1, <2>2, <2>15, AppConvertsStep DEF Adds
    <3>2. /\ Conversions(t) = Conversions(t)' \cup {r}
          /\ \A u \in Selections : u # t => Conversions(u)' = Conversions(u)
      BY <1>1, <3>1, FewerOwned
    <3>3. ReplyOf(y, t) /\ y.arg = a
      BY EventParts DEF ReplyOf
    <3>4. Conversions(t) # {}
      BY <3>2
    <3> HIDE DEF r, y
    <3>5. Busy(t)
      BY <3>4 DEF Busy
    <3>6. ASSUME t = s, Names(r, k) PROVE Renewed(s)'
      <4>1. a = "TARGETS" /\ r.copy.kind = k
        BY <3>6 DEF Names
      <4> QED BY <2>5, <3>1, <3>3, <3>6, <4>1
    <3>7. ASSUME AskedAnew(s) PROVE Renewed(s)'
      <4>1. PICK q \in Conversions(s) : Names(q, k)
        BY <2>7, <3>7
      <4>2. CASE t # s
        BY <2>4, <3>2, <4>1, <4>2
      <4>3. CASE t = s
        BY <2>4, <3>2, <3>6, <4>1, <4>3
      <4> QED BY <4>2, <4>3
    <3>8. ~Owed(s)
      BY <2>8, <3>1
    <3>9. ASSUME ToldAnew(s) PROVE Renewed(s)'
      <4>1. t = s
        BY <2>11, <3>5, <3>9
      <4>2. CASE a # "TARGETS"
        <5>1. prop'["TARGETS"] = prop["TARGETS"]
          BY <2>2, <3>1, <4>2
        <5> QED BY <2>10, <3>1, <3>9, <5>1
      <4>3. CASE a = "TARGETS"
        <5>1. Freshest(apps[s].conv, k)
          BY <2>1, <3>8 DEF Fresh, k
        <5>2. PICK z : z = k
          OBVIOUS
        <5>3. Names(r, z) \/ \E q \in Elements(Tail(apps[s].conv)) : Names(q, z)
          BY <1>1, <3>1, <4>1, <4>3, <5>1, <5>2, FreshestTail DEF r
        <5>4. Names(r, k) \/ \E q \in Conversions(s)' : Names(q, k)
          BY <3>1, <4>1, <5>2, <5>3 DEF Conversions
        <5> QED BY <2>4, <3>6, <4>1, <5>4
      <4> QED BY <4>2, <4>3
    <3> QED BY <3>7, <3>8, <3>9 DEF Renewed
  <2>16. ASSUME Renews PROVE Renewed(s)' \/ Over
    <3> DEFINE t == ev.sel
    <3>1. /\ ev.type = "owner" /\ t \in Selections /\ Added(t, "TARGETS")
          /\ Apart(t, "TARGETS")
      BY <2>16, RenewsStep
    <3>2. PICK E : Consumes(E, E \X E)
      BY <3>1 DEF Added
    <3>3. CASE t = s
      <4> DEFINE r == [target |-> "TARGETS", copy |-> apps[s].copy]
      <4>1. r \in Conversions(s)'
        BY <1>1, <2>2, <3>1, <3>3, AddedConversions
      <4>2. Names(r, k)
        BY DEF Names, k
      <4> HIDE DEF r
      <4> QED BY <2>4, <4>1, <4>2
    <3>4. CASE t # s
      <4>1. \A e \in Due : OwnerOf(e, s) \/ ReplyOf(e, s) => e \in Due'
        BY <3>1, <3>2, <3>4 DEF Consumes, OwnerOf, ReplyOf
      <4>2. Conversions(s)' = Conversions(s)
        BY <3>1, <3>4 DEF Added, Conversions
      <4>3. ~Busy(s)'
        BY <3>1, <3>4 DEF Apart
      <4>4. ~ToldAnew(s)
        BY <2>2, <2>6, <4>1, <4>3 DEF Busy
      <4> QED BY <2>9, <4>1, <4>2, <4>4
    <3> QED BY <3>3, <3>4
  <2>17. ASSUME Demands PROVE Renewed(s)' \/ Over
    <3> DEFINE a == best[ev.sel]
    <3>1. /\ ev.type = "demand" /\ ev.sel \in Selections /\ Added(ev.sel, a)
          /\ prop'["TARGETS"] = prop["TARGETS"]
      BY <2>17, DemandsStep
    <3>2. PICK E : Consumes(E, E \X E)
      BY <3>1 DEF Added
    <3>3. \A e \in Due : OwnerOf(e, s) \/ ReplyOf(e, s) => e \in Due'
      BY <3>1, <3>2 DEF Consumes, OwnerOf, ReplyOf
    <3> HIDE DEF a
    <3>4. PICK u, b : u = ev.sel /\ b = a
      OBVIOUS
    <3>5. Conversions(s) \subseteq Conversions(s)'
      BY <1>1, <3>1, <3>4, AddedConversions
    <3> QED BY <2>9, <2>10, <3>1, <3>3, <3>5
  <2>18. ASSUME ConversionDone PROVE Renewed(s)' \/ Over
    <3>1. /\ ev \in Due /\ ev.type = "reply" /\ ev.sel \in Selections
          /\ ev.arg \in Atoms \cup {None}
          /\ \/ UNCHANGED apps /\ Cleared /\ Consumes({}, {})
             \/ Useful /\ Added(ev.sel, prop["TARGETS"].kind)
      BY <2>18, ReplyForms
    <3>2. \E E : Consumes(E, E \X E)
      <4>1. {} \X {} = {}
        OBVIOUS
      <4>2. ASSUME Consumes({}, {}) PROVE \E E : Consumes(E, E \X E)
        BY <4>1, <4>2
      <4> QED BY <3>1, <4>2 DEF Added
    <3>3. \A e \in Due : e = ev \/ e \in Due'
      BY <3>2 DEF Consumes
    <3>4. Conversions(s) \subseteq Conversions(s)'
      <4>1. PICK u, b : u = ev.sel /\ b = prop["TARGETS"].kind
        OBVIOUS
      <4>2. CASE UNCHANGED apps
        BY <4>2 DEF Conversions
      <4>3. CASE Added(u, b)
        BY <1>1, <3>1, <4>1, <4>3, AddedConversions
      <4> QED BY <3>1, <4>1, <4>2, <4>3
    <3>5. ASSUME ToldAnew(s) PROVE Renewed(s)' \/ Over
      <4>1. CASE ev.arg = "TARGETS"
        <5>1. Busy(ev.sel)
          BY <2>2, <3>1, <4>1 DEF Busy, ReplyOf
        <5>2. ev.sel = s
          BY <2>11, <3>1, <3>5, <5>1
        <5>3. Useful
          BY <2>2, <2>6, <3>5, <4>1, <5>2 DEF Useful
        <5> QED BY <2>6, <2>18, <3>5, <5>2, <5>3 DEF Over
      <4>2. CASE ev.arg # "TARGETS"
        <5>1. PICK e \in Due : ReplyOf(e, s) /\ e.arg = "TARGETS" /\ prop["TARGETS"] # None
                              /\ prop["TARGETS"].kind = k
          BY <2>6, <3>5
        <5>2. e \in Due'
          BY <3>3, <4>2, <5>1
        <5>3. Cleared
          BY <3>1, <4>2 DEF Useful
        <5>4. prop'["TARGETS"] = prop["TARGETS"]
          BY <2>2, <4>2, <5>3 DEF Cleared
        <5> QED BY <2>5, <5>1, <5>2, <5>4
      <4> QED BY <4>1, <4>2
    <3>6. \A e \in Due : OwnerOf(e, s) => e \in Due'
      BY <3>1, <3>3 DEF OwnerOf
    <3> QED BY <2>9, <3>4, <3>5, <3>6
  <2>19. ASSUME PropertyChanged PROVE Renewed(s)' \/ Over
    <3>1. /\ UNCHANGED apps /\ ev.type = "newvalue" /\ Consumes({}, {})
          /\ UNCHANGED prop \/ (Cleared /\ ev.arg \in Kinds)
      BY <1>1, <2>19, PropertyStep DEF OfType
    <3>2. \A e \in Due : OwnerOf(e, s) \/ ReplyOf(e, s) => e \in Due'
      BY <3>1 DEF Consumes, OwnerOf, ReplyOf
    <3>3. prop'["TARGETS"] = prop["TARGETS"] /\ Conversions(s)' = Conversions(s)
      BY <2>2, <3>1 DEF Cleared, Conversions
    <3> QED BY <2>9, <2>10, <3>2, <3>3
  <2>20. Renewed(s)' \/ Over
    BY <2>12, <2>13, <2>14, <2>15, <2>16, <2>17, <2>18, <2>19, NextCalm
  <2> QED BY <2>1, <2>20 DEF Over, k
<1> QED BY <1>2, <1>3

-----------------------------------------------------------------------------
(* Data of s are read incrementally.                                       *)
Reads(s) == reading.atom # None /\ reading.current = s

(* A reply for s that ends the reading and brings no data.                 *)
StopsOnly(e, s) == ReplyOf(e, s) /\ e.arg \notin Kinds

(* Such replies are handled when no transfer is open, and before the data  *)
(* and the portions that are due.                                          *)
Harmless(s) ==
  \A e \in Due :
    StopsOnly(e, s) =>
      /\ ~Ended(s) => ~Reads(s)
      /\ \A f : <<f, e>> \in Ordered =>
           /\ Reads(s) => ~NewValue(f, reading.atom)
           /\ ReplyOf(f, s) /\ f.arg \in Kinds => Ended(s)

LEMMA FirstStays ==
  ASSUME Exchange, [Next]_vars, FirstClient' PROVE FirstClient /\ UNCHANGED conns
<1>1. conns \in Nat \ {0}
  BY DEF Exchange, Incoming, Typed
<1>2. ~ClientLeaves /\ ~ClientArrives
  BY <1>1 DEF ClientLeaves, ClientArrives, FirstClient
<1> QED BY <1>2 DEF FirstClient, Next, MainThread, SelectionThread, SendingThread, Environment,
      ReadNotify, ReadChunk, ReadRest, ReadDemand, Wake, ScanDelayed, ScanDone,
      PruneDelayed, PruneDone, AnswerRequest, DelayRequest, NextPortion, DataReady,
      OwnerChanged, DataDemanded, ConversionDone, PropertyChanged, SendChunk,
      SendRequest, Tick, ClientReads, ClientCopies, AppCopies, ClientDemands,
      AppConverts, AppPortion, AppPastes, AppDeletes, net, vars

LEMMA NextHarmless ==
  ASSUME Exchange, Exchange', [Next]_vars, Versioned, Separate, Written, Portioned,
         ~reading'.mixed, FirstClient, FirstClient', NEW s \in Selections, Fresh(s),
         Offered(s), apps'[s].copy = apps[s].copy, Harmless(s)
  PROVE  Renewed(s)' \/ Harmless(s)'
<1> SUFFICES ASSUME ~Renewed(s)', NEW e \in Due', StopsOnly(e, s)
             PROVE  /\ ~Ended(s)' => ~Reads(s)'
                    /\ \A f : <<f, e>> \in Ordered' =>
                         /\ Reads(s)' => ~NewValue(f, reading'.atom)
                         /\ ReplyOf(f, s) /\ f.arg \in Kinds => Ended(s)'
  BY DEF Harmless
<1> DEFINE G == /\ ~Ended(s)' => ~Reads(s)'
                /\ \A f : <<f, e>> \in Ordered' =>
                     /\ Reads(s)' => ~NewValue(f, reading'.atom)
                     /\ ReplyOf(f, s) /\ f.arg \in Kinds => Ended(s)'
<1>1. /\ Shape /\ AppsTyped /\ PropTyped(prop) /\ Sequence(apps[s].conv) /\ Sequence(xq)
      /\ Exchanged /\ Queues
  BY DEF Exchange, Invariant, Exchanged, AppsTyped, IsApp, Shape
<1>2. e.type = "reply" /\ e.sel = s /\ e.arg \notin Kinds
  BY DEF StopsOnly, ReplyOf
<1>3. ~PropertyChanged => (Ended(s) => Ended(s)')
  BY NextEnded DEF StillEnded
<1>4. ASSUME e \in Due
      PROVE  /\ ~Ended(s) => ~Reads(s)
             /\ \A f : <<f, e>> \in Ordered =>
                  /\ Reads(s) => ~NewValue(f, reading.atom)
                  /\ ReplyOf(f, s) /\ f.arg \in Kinds => Ended(s)
  BY <1>4 DEF Harmless
<1> DEFINE Same == Reads(s)' => Reads(s) /\ reading'.atom = reading.atom
           Kept == \A f : <<f, e>> \in Ordered' /\ f.type \in {"newvalue", "reply"}
                            => <<f, e>> \in Ordered
<1>5. ASSUME e \in Due, Ended(s) => Ended(s)', Same, Kept PROVE G
  BY <1>4, <1>5 DEF NewValue, ReplyOf
<1>6. UNCHANGED reading \/ reading'.atom = None => Same
  BY DEF Reads
<1>7. ASSUME reading'.atom = None, \A d \in Due' : ~DataReply(d) PROVE G
  <2>1. \A f : <<f, e>> \in Ordered' => f \in Due'
    BY DEF Ordered
  <2>2. ~Reads(s)'
    BY <1>7 DEF Reads
  <2> QED BY <1>7, <2>1, <2>2 DEF DataReply, ReplyOf
<1> HIDE DEF G, Same
<1>8. ASSUME Calm PROVE G
  <2>1. e \in Due /\ Kept /\ UNCHANGED reading
    BY <1>2, <1>8 DEF Calm, Matters
  <2>2. CASE ~PropertyChanged
    BY <1>3, <1>5, <1>6, <2>1, <2>2
  <2>3. CASE PropertyChanged
    <3>1. Ended(s) => Ended(s)'
      <4>1. CASE reading.atom # ev.arg \/ prop[ev.arg] = None
        BY <1>1, <2>3, <4>1, PropertyStep DEF StillEnded, OfType
      <4>2. CASE reading.atom = ev.arg /\ prop[ev.arg] # None
        <5>1. Cleared /\ ev.arg \in Atoms
          BY <1>1, <2>3, <4>2, PropertyStep
        <5>2. prop'[ev.arg] # prop[ev.arg]
          BY <4>2, <5>1 DEF Cleared
        <5> QED BY <1>8, <5>2 DEF Calm
      <4> QED BY <4>1, <4>2
    <3> QED BY <1>5, <1>6, <2>1, <3>1
  <2> QED BY <2>2, <2>3
<1>9. ASSUME NEW t \in Selections, NEW k \in AppKinds, AppCopies(t, k), ~PropertyChanged PROVE G
  <2> DEFINE o == Event("owner", t, "app")
  <2>1. UNCHANGED reading /\ Adds({o}, {<<o, o>>})
    BY <1>1, <1>9, AppCopiesStep
  <2>2. o.type = "owner"
    BY EventParts
  <2> HIDE DEF o
  <2>3. e \in Due /\ Kept
    BY <1>2, <2>1, <2>2 DEF Adds
  <2> QED BY <1>3, <1>5, <1>6, <1>9, <2>1, <2>3
<1>10. ASSUME NEW t \in Selections, AppPortion(t), ~PropertyChanged PROVE G
  <2> DEFINE x == Event("newvalue", None, apps[t].sending.kind)
  <2>1. UNCHANGED reading /\ Adds({x}, {<<x, x>>})
    BY <1>1, <1>10, AppPortionStep
  <2>2. x.type = "newvalue"
    BY EventParts
  <2> HIDE DEF x
  <2>3. e \in Due /\ Kept
    BY <1>2, <2>1, <2>2 DEF Adds
  <2> QED BY <1>3, <1>5, <1>6, <1>10, <2>1, <2>3
<1>11. ASSUME NEW t \in Selections, AppConverts(t), ~PropertyChanged PROVE G
  <2> DEFINE r == Head(apps[t].conv)
             a == r.target
             x == Event("newvalue", None, a)
             y == Event("reply", t, a)
             z == Event("reply", t, None)
  <2>1. /\ apps[t].conv # <<>> /\ apps'[t].conv = Tail(apps[t].conv) /\ a \in Atoms
        /\ UNCHANGED reading /\ Due \subseteq Due'
        /\ \/ /\ prop'[a] # None /\ prop'[a].kind = r.copy.kind /\ y \in Due'
              /\ Adds({x, y}, {<<x, x>>, <<x, y>>, <<y, y>>})
           \/ a \in Kinds /\ Adds({z}, {<<z, z>>})
    BY <1>1, <1>11, AppConvertsStep DEF Adds
  <2>2. /\ x.type = "newvalue" /\ y.type = "reply" /\ y.sel = t /\ y.arg = a
        /\ z.type = "reply" /\ z.sel = t
    BY EventParts
  <2>3. a \in Kinds => reading.atom = None /\ \A d \in Due : ~DataReply(d)
    BY <1>1, <2>1, AskedAlone
  <2> HIDE DEF x, y, z
  <2>4. ASSUME e \in Due, e \notin {x, y, z} PROVE G
    <3>1. Kept
      BY <2>1, <2>4 DEF Adds
    <3> QED BY <1>3, <1>5, <1>6, <1>11, <2>1, <2>4, <3>1
  <2>5. e \in Due \/ e \in {x, y, z}
    BY <2>1 DEF Adds
  <2>6. CASE e = x
    BY <1>2, <2>2, <2>6
  <2>7. CASE a \in Kinds
    <3>1. reading'.atom = None
      BY <2>1, <2>3, <2>7
    <3>2. ASSUME NEW f, <<f, e>> \in Ordered', ReplyOf(f, s), f.arg \in Kinds PROVE FALSE
      <4>1. f \in Due'
        BY <3>2 DEF Ordered
      <4>2. DataReply(f)
        BY <3>2 DEF DataReply, ReplyOf
      <4>3. f \notin Due
        BY <2>3, <2>7, <4>2
      <4>4. CASE Adds({x, y}, {<<x, x>>, <<x, y>>, <<y, y>>})
        <5>1. f = y
          BY <2>2, <3>2, <4>1, <4>3, <4>4 DEF Adds, ReplyOf
        <5>2. <<f, e>> \notin Ordered /\ f \notin Due
          BY <4>3, OrderedDue
        <5>3. <<f, e>> \in {<<x, x>>, <<x, y>>, <<y, y>>}
          BY <3>2, <4>4, <5>2 DEF Adds
        <5>4. e = y
          BY <1>2, <2>2, <5>3
        <5> QED BY <1>2, <2>2, <2>7, <5>4
      <4>5. CASE Adds({z}, {<<z, z>>}) /\ f = z
        <5>1. z.arg = None
          BY EventParts DEF z
        <5> QED BY <3>2, <4>5, <5>1, KindsAssumption
      <4> QED BY <2>1, <4>1, <4>3, <4>4, <4>5 DEF Adds
    <3> QED BY <3>1, <3>2 DEF G, Reads
  <2>8. CASE a \notin Kinds
    <3>1. a = "TARGETS" /\ Adds({x, y}, {<<x, x>>, <<x, y>>, <<y, y>>})
      BY <2>1, <2>8 DEF Atoms
    <3>2. e \in Due \/ e \in {x, y}
      BY <3>1 DEF Adds
    <3>3. CASE t # s
      <4>1. e \in Due
        BY <1>2, <2>2, <3>2, <3>3
      <4>2. e # x /\ e # y
        BY <1>2, <2>2, <3>3
      <4>3. Kept
        BY <3>1, <4>2 DEF Adds
      <4> QED BY <1>3, <1>5, <1>6, <1>11, <2>1, <4>1, <4>3
    <3>4. CASE t = s
      <4>1. ~Owed(s)
        BY <2>1 DEF Renewed, Owed
      <4>2. PICK k : k = apps[s].copy.kind
        OBVIOUS
      <4>3. Freshest(apps[s].conv, k)
        BY <4>1, <4>2 DEF Fresh
      <4>4. Names(r, k) \/ \E q \in Elements(Tail(apps[s].conv)) : Names(q, k)
        BY <1>1, <2>1, <3>1, <3>4, <4>3, FreshestTail
      <4>5. ASSUME Names(r, k) PROVE ToldAnew(s)'
        BY <2>1, <2>2, <2>8, <3>1, <3>4, <4>2, <4>5 DEF ToldAnew, ReplyOf, Names
      <4>6. ASSUME NEW q \in Elements(Tail(apps[s].conv)), Names(q, k) PROVE AskedAnew(s)'
        BY <2>1, <3>4, <4>2, <4>6 DEF AskedAnew, Conversions
      <4> QED BY <4>4, <4>5, <4>6 DEF Renewed
    <3> QED BY <3>3, <3>4
  <2> QED BY <2>7, <2>8
<1>12. ASSUME Renews, ~PropertyChanged PROVE G
  <2> DEFINE t == ev.sel
  <2>1. /\ t \in Selections /\ Added(t, "TARGETS") /\ reading'.atom = None
    BY <1>12, RenewsStep
  <2>2. t # s
    <3> SUFFICES ASSUME t = s PROVE FALSE
      OBVIOUS
    <3> DEFINE r == [target |-> "TARGETS", copy |-> apps[s].copy]
    <3>1. r \in Conversions(s)'
      BY <1>1, <2>1, AddedConversions DEF Offered
    <3>2. Names(r, apps'[s].copy.kind)
      BY DEF Names
    <3> HIDE DEF r
    <3> QED BY <3>1, <3>2 DEF Renewed, AskedAnew
  <2>3. PICK E : Consumes(E, E \X E) /\ \A d \in E : ReplyOf(d, t) /\ d.arg = None
    BY <2>1 DEF Added
  <2>4. e \notin E
    BY <1>2, <2>2, <2>3 DEF ReplyOf
  <2>5. e \in Due /\ Kept
    BY <2>3, <2>4 DEF Consumes
  <2> QED BY <1>3, <1>5, <1>6, <1>12, <2>1, <2>5
<1>13. ASSUME Demands PROVE G
  <2>1. /\ reading'.atom = reading.atom /\ best[ev.sel] \in Kinds
        /\ Apart(ev.sel, best[ev.sel]) /\ reading.atom = None
    BY <1>13, DemandsStep
  <2> QED BY <1>7, <2>1 DEF Apart
<1>14. ASSUME ConversionDone, ~PropertyChanged PROVE G
  <2>1. /\ ev \in Due /\ ev.type = "reply" /\ ev.sel \in Selections
        /\ \/ reading'.atom = None /\ Consumes({}, {})
           \/ /\ OfType("INCR") /\ reading'.atom = ev.arg /\ reading'.current = ev.sel
              /\ Consumes({}, {})
           \/ /\ reading'.atom = None /\ prop["TARGETS"].kind \in Kinds
              /\ Apart(ev.sel, prop["TARGETS"].kind)
    BY <1>14, ReplyForms
  <2>2. ASSUME Consumes({}, {})
        PROVE  e \in Due /\ Kept /\ \A d \in Due' : <<ev, d>> \in Ordered
    BY <2>2 DEF Consumes
  <2>3. CASE reading'.atom = None /\ Consumes({}, {})
    BY <1>3, <1>5, <1>6, <1>14, <2>2, <2>3
  <2>4. CASE /\ OfType("INCR") /\ reading'.atom = ev.arg /\ reading'.current = ev.sel
             /\ Consumes({}, {})
    <3>1. CASE ev.sel # s
      <4>1. Same
        BY <2>4, <3>1 DEF Same, Reads
      <4> QED BY <1>3, <1>5, <1>14, <2>2, <2>4, <4>1
    <3>2. CASE ev.sel = s
      <4>1. DataReply(ev) /\ ReplyOf(ev, s) /\ ev.arg \in Kinds
        BY <2>1, <2>4, <3>2 DEF DataReply, OfType, ReplyOf
      <4>2. Ended(s)'
        BY <1>3, <1>4, <1>14, <2>2, <2>4, <4>1
      <4>3. ASSUME NEW f, <<f, e>> \in Ordered' PROVE ~NewValue(f, ev.arg)
        <5>1. f \in Due'
          BY <4>3 DEF Ordered
        <5> QED BY <2>1, <2>2, <2>4, <4>1, <5>1 DEF Written
      <4> QED BY <2>4, <4>2, <4>3 DEF G
    <3> QED BY <3>1, <3>2
  <2>5. CASE /\ reading'.atom = None /\ prop["TARGETS"].kind \in Kinds
             /\ Apart(ev.sel, prop["TARGETS"].kind)
    BY <1>7, <2>5 DEF Apart
  <2> QED BY <2>1, <2>3, <2>4, <2>5
<1>15. ASSUME PropertyChanged PROVE G
  <2>1. /\ ev.type = "newvalue" /\ ev.arg \in Atoms /\ Consumes({}, {})
        /\ \/ UNCHANGED reading /\ StillEnded
           \/ reading.atom = ev.arg /\ OfType("INCR")
           \/ /\ reading.atom = ev.arg
              /\ s # reading.current /\ Ended(s) => Ended(s)'
              /\ \/ reading'.atom = None
                 \/ reading'.atom = ev.arg /\ reading'.current = reading.current
    BY <1>1, <1>15, PropertyStep
  <2>2. e \in Due /\ Kept /\ <<ev, e>> \in Ordered /\ ev.arg # None
    BY <2>1, KindsAssumption DEF Consumes, Atoms
  <2>3. CASE UNCHANGED reading /\ StillEnded
    BY <1>5, <1>6, <2>2, <2>3 DEF StillEnded
  <2>4. CASE reading.atom = ev.arg /\ OfType("INCR")
    BY <2>2, <2>4 DEF Portioned, OfType
  <2>5. CASE /\ reading.atom = ev.arg
             /\ s # reading.current /\ Ended(s) => Ended(s)'
             /\ \/ reading'.atom = None
                \/ reading'.atom = ev.arg /\ reading'.current = reading.current
    <3>1. s # reading.current
      <4> SUFFICES ASSUME s = reading.current PROVE FALSE
        OBVIOUS
      <4>1. Reads(s) /\ NewValue(ev, reading.atom)
        BY <2>1, <2>2, <2>5 DEF Reads, NewValue
      <4> QED BY <1>4, <2>2, <4>1
    <3>2. Same
      BY <2>5, <3>1 DEF Same, Reads
    <3> QED BY <1>5, <2>2, <2>5, <3>1, <3>2
  <2> QED BY <2>1, <2>3, <2>4, <2>5
<1>16. G
  BY <1>8, <1>9, <1>10, <1>11, <1>12, <1>13, <1>14, <1>15, NextCalm
<1> QED BY <1>16 DEF G

(* The contents are not told to the client before it got a whole transfer. *)
Undisturbed(s) == Renewed(s) \/ Harmless(s)

(* The reply to a conversion to TARGETS ends the transfer, or the data are *)
(* asked for.                                                              *)
LEMMA ToldOver ==
  ASSUME Exchange, Exchange', ~reading'.mixed, FirstClient, Transferring, ConversionDone, Useful,
         NEW s \in Selections, ev.sel = s
  PROVE  /\ reading'.atom = None
         /\ \/ Ended(s)'
            \/ /\ prop["TARGETS"].kind \in Kinds /\ Added(s, prop["TARGETS"].kind)
               /\ \A d \in Due' : ~DataReply(d)
<1>1. ~Refusal /\ ~Useless /\ ~OfType("INCR") /\ ~OfType("data")
  BY KindsAssumption DEF Useful, Refusal, Useless, OfType
<1>2. /\ UNCHANGED ev /\ reading'.atom = None
      /\ \/ Fed(ev.sel, "any") => Ended(ev.sel)'
         \/ /\ prop["TARGETS"].kind \in Kinds /\ Added(ev.sel, prop["TARGETS"].kind)
            /\ Apart(ev.sel, prop["TARGETS"].kind)
  BY <1>1, ReplyForms
<1>3. Fed(s, "any")
  BY DEF Transferring
<1>4. CASE Fed(ev.sel, "any") => Ended(ev.sel)'
  <2>1. Ended(ev.sel)'
    BY <1>3, <1>4
  <2>2. Ended(s)'
    BY <1>2, <2>1 DEF Ended
  <2> QED BY <1>2, <2>2
<1>5. CASE /\ prop["TARGETS"].kind \in Kinds /\ Added(ev.sel, prop["TARGETS"].kind)
           /\ Apart(ev.sel, prop["TARGETS"].kind)
  BY <1>2, <1>5 DEF Apart
<1> QED BY <1>2, <1>4, <1>5

LEMMA NextUndisturbed ==
  ASSUME Exchange, Exchange', [Next]_vars, Versioned, Separate, Sole, Written, Portioned,
         ~reading'.mixed, FirstClient', Transferring, NEW s \in Selections, Fresh(s),
         Offered(s)', Offered(s) => Undisturbed(s)
  PROVE  Undisturbed(s)'
<1>1. FirstClient
  BY FirstStays
<1>2. CASE Owed(s)'
  BY <1>2 DEF Undisturbed, Renewed
<1>3. CASE ~Owed(s)'
  <2>1. Offered(s) /\ apps'[s].copy = apps[s].copy
    BY <1>3, OfferedKept
  <2>2. CASE Harmless(s)
    BY <1>1, <2>1, <2>2, NextHarmless DEF Undisturbed
  <2>3. CASE Renewed(s)
    <3>1. ASSUME ConversionDone, ev.sel = s, Useful PROVE Harmless(s)'
      <4>1. reading'.atom = None /\ (Ended(s)' \/ \A d \in Due' : ~DataReply(d))
        BY <1>1, <3>1, ToldOver
      <4>2. \A e, f : <<f, e>> \in Ordered' => f \in Due'
        BY DEF Ordered
      <4>3. \A f : ReplyOf(f, s) /\ f.arg \in Kinds => DataReply(f)
        BY DEF ReplyOf, DataReply
      <4> QED BY <4>1, <4>2, <4>3 DEF Harmless, Reads
    <3> QED BY <2>3, <3>1, RenewedKept DEF Undisturbed
  <2> QED BY <2>1, <2>2, <2>3 DEF Undisturbed
<1> QED BY <1>2, <1>3

(* Data of s are to be converted, or a reply with data is due.             *)
Coming(s) ==
  \/ \E r \in Conversions(s) : r.target \in Kinds /\ r.copy.kind = r.target
  \/ \E e \in Due : ReplyOf(e, s) /\ e.arg \in Kinds

(* A transfer that is open will end: with another one, or by itself.       *)
Promise(s) == Ended(s) \/ Renewed(s) \/ Coming(s) \/ Reads(s)

LEMMA ComingKept ==
  ASSUME Exchange, Exchange', [Next]_vars, Versioned, Written, FirstClient, Transferring,
         NEW s \in Selections, Coming(s)
  PROVE  Coming(s)' \/ Ended(s)' \/ Reads(s)'
<1>1. /\ Shape /\ AppsTyped /\ PropTyped(prop) /\ Sequence(apps[s].conv) /\ Sequence(xq)
      /\ Exchanged /\ Queues
  BY DEF Exchange, Invariant, Exchanged, AppsTyped, IsApp, Shape
<1> DEFINE G == Coming(s)' \/ Ended(s)' \/ Reads(s)'
           K == \E r \in Conversions(s) : r.target \in Kinds /\ r.copy.kind = r.target
           D == \E e \in Due : ReplyOf(e, s) /\ e.arg \in Kinds
<1>2. K \/ D
  BY DEF Coming
<1>3. ASSUME K, Conversions(s) \subseteq Conversions(s)' PROVE G
  BY <1>3 DEF Coming
<1>4. ASSUME D, \A e \in Due : ReplyOf(e, s) /\ e.arg \in Kinds => e \in Due' PROVE G
  BY <1>4 DEF Coming
<1> HIDE DEF G, D
<1>5. ASSUME Calm PROVE G
  <2>1. Conversions(s)' = Conversions(s) /\ \A e \in Due : ReplyOf(e, s) => e \in Due'
    BY <1>5, CalmKept DEF Calm, Matters, ReplyOf
  <2> QED BY <1>2, <1>3, <1>4, <2>1
<1>6. ASSUME NEW t \in Selections, NEW k \in AppKinds, AppCopies(t, k) PROVE G
  <2>1. apps'[s].conv = apps[s].conv /\ Due \subseteq Due'
    BY <1>1, <1>6, AppCopiesStep DEF Adds
  <2>2. Conversions(s)' = Conversions(s)
    BY <2>1 DEF Conversions
  <2> QED BY <1>2, <1>3, <1>4, <2>1, <2>2
<1>7. ASSUME NEW t \in Selections, AppPortion(t) PROVE G
  <2>1. /\ \A u \in Selections : u # t => apps'[u] = apps[u]
        /\ apps'[t].conv = apps[t].conv /\ Due \subseteq Due'
    BY <1>1, <1>7, AppPortionStep DEF Adds
  <2>2. s = t \/ s # t
    OBVIOUS
  <2>3. Conversions(s)' = Conversions(s)
    BY <2>1, <2>2 DEF Conversions
  <2> QED BY <1>2, <1>3, <1>4, <2>1, <2>3
<1>8. ASSUME NEW t \in Selections, AppConverts(t) PROVE G
  <2> DEFINE r == Head(apps[t].conv)
             y == Event("reply", t, r.target)
  <2>1. /\ apps[t].conv # <<>> /\ apps'[t].conv = Tail(apps[t].conv)
        /\ \A u \in Selections : u # t => apps'[u] = apps[u]
        /\ Due \subseteq Due'
        /\ r.target = r.copy.kind => y \in Due'
    BY <1>1, <1>8, AppConvertsStep DEF Adds
  <2>2. /\ Conversions(t) = Conversions(t)' \cup {r}
        /\ \A u \in Selections : u # t => Conversions(u)' = Conversions(u)
    BY <1>1, <2>1, FewerOwned
  <2>3. ReplyOf(y, t) /\ y.arg = r.target
    BY EventParts DEF ReplyOf
  <2> HIDE DEF r, y
  <2>4. ASSUME t = s, r.target \in Kinds, r.copy.kind = r.target PROVE G
    BY <2>1, <2>3, <2>4 DEF G, Coming
  <2>5. ASSUME K PROVE G
    <3>1. PICK q \in Conversions(s) : q.target \in Kinds /\ q.copy.kind = q.target
      BY <2>5
    <3>2. q \in Conversions(s)' \/ (t = s /\ q = r)
      BY <2>2
    <3>3. ASSUME q \in Conversions(s)' PROVE G
      BY <3>1, <3>3 DEF G, Coming
    <3> QED BY <2>4, <3>1, <3>2, <3>3
  <2> QED BY <1>2, <1>4, <2>1, <2>5
<1>9. ASSUME NEW t \in Selections, NEW a \in Atoms, Calls(t, a) PROVE G
  <2>1. Added(t, a) /\ ~DataReply(ev)
    BY <1>9 DEF Calls
  <2>2. Conversions(s) \subseteq Conversions(s)'
    BY <1>1, <2>1, AddedConversions
  <2>3. PICK E : Consumes(E, E \X E)
    BY <2>1 DEF Added
  <2>4. \A e \in Due : ReplyOf(e, s) /\ e.arg \in Kinds => e \in Due'
    BY <2>1, <2>3 DEF Consumes, DataReply, ReplyOf
  <2> QED BY <1>2, <1>3, <1>4, <2>2, <2>4
<1>10. ASSUME Takes, ~DataReply(ev) \/ ev.sel # s PROVE G
  <2>1. \A e \in Due : ReplyOf(e, s) /\ e.arg \in Kinds => e \in Due'
    BY <1>10 DEF Takes, Consumes, DataReply, ReplyOf
  <2>2. Conversions(s)' = Conversions(s)
    BY <1>10 DEF Takes, Conversions
  <2> QED BY <1>2, <1>3, <1>4, <2>1, <2>2
<1>11. ASSUME ConversionDone, DataReply(ev), ev.sel = s PROVE G
  <2>1. /\ ev \in Due /\ ev.arg \in Kinds /\ ev.arg # "TARGETS" /\ ev.arg # None
    BY <1>11, ReplyForms, KindsAssumption DEF DataReply
  <2>2. prop[ev.arg] # None
    BY <1>11, <2>1 DEF Written
  <2>3. ~Refusal /\ ~Useless /\ ~Useful
    BY <2>1, <2>2 DEF Refusal, Useless, Useful
  <2>4. /\ UNCHANGED ev
        /\ \/ reading'.atom = ev.arg /\ reading'.current = ev.sel
           \/ Fed(ev.sel, "any") => Ended(ev.sel)'
    BY <1>11, <2>3, ReplyForms
  <2>5. Fed(s, "any")
    BY DEF Transferring
  <2>6. CASE reading'.atom = ev.arg /\ reading'.current = ev.sel
    BY <1>11, <2>1, <2>6 DEF G, Reads
  <2>7. CASE Fed(ev.sel, "any") => Ended(ev.sel)'
    <3>1. Ended(ev.sel)'
      BY <1>11, <2>5, <2>7
    <3>2. Ended(s)'
      BY <1>11, <2>4, <3>1 DEF Ended
    <3> QED BY <3>2 DEF G
  <2> QED BY <2>4, <2>6, <2>7
<1>12. ASSUME Takes, DataReply(ev), ev.sel = s PROVE G \/ ~ConversionDone
  BY <1>11, <1>12
<1>13. CASE ConversionDone
  BY <1>9, <1>10, <1>11, <1>13, ReplyShape DEF G
<1>14. CASE PropertyChanged
  <2>1. Takes /\ ev.type = "newvalue"
    BY <1>14, PropertyShape DEF PropertyChanged, Handles
  <2> QED BY <1>10, <2>1 DEF DataReply, G
<1>15. CASE Renews
  <2>1. ev.type = "owner"
    BY <1>15 DEF Renews, OwnerChanged, Handles
  <2> QED BY <1>5, <1>6, <1>7, <1>8, <1>9, <1>10, <2>1, NextShape DEF G, DataReply
<1>16. CASE Demands
  <2>1. ev.type = "demand"
    BY <1>16 DEF Demands, DataDemanded, Handles
  <2> QED BY <1>5, <1>6, <1>7, <1>8, <1>9, <1>10, <2>1, NextShape DEF G, DataReply
<1> QED BY <1>5, <1>6, <1>7, <1>8, <1>13, <1>14, <1>15, <1>16, NextCalm DEF G

LEMMA ReadsKept ==
  ASSUME Exchange, Exchange', [Next]_vars, Separate, Portioned, ~reading'.mixed,
         FirstClient, FirstClient', Transferring, Versioned,
         NEW s \in Selections, Offered(s), apps'[s].copy = apps[s].copy,
         Reads(s), ~Ended(s), Harmless(s)
  PROVE  Reads(s)' \/ Ended(s)' \/ Renewed(s)'
<1>1. /\ Shape /\ AppsTyped /\ PropTyped(prop) /\ Sequence(xq) /\ Exchanged /\ Queues
  BY DEF Exchange, Invariant, Exchanged, Shape
<1>2. UNCHANGED reading => Reads(s)'
  BY DEF Reads
<1>3. CASE Calm
  BY <1>2, <1>3 DEF Calm
<1>4. ASSUME NEW t \in Selections, NEW k \in AppKinds, AppCopies(t, k) PROVE Reads(s)'
  BY <1>1, <1>2, <1>4, AppCopiesStep
<1>5. ASSUME NEW t \in Selections, AppConverts(t) PROVE Reads(s)'
  BY <1>1, <1>2, <1>5, AppConvertsStep
<1>6. ASSUME NEW t \in Selections, AppPortion(t) PROVE Reads(s)'
  BY <1>1, <1>2, <1>6, AppPortionStep
<1>7. CASE Renews
  <2>1. ev.sel = s /\ Added(s, "TARGETS")
    BY <1>7, RenewsStep DEF Reads
  <2> DEFINE r == [target |-> "TARGETS", copy |-> apps[s].copy]
  <2>2. r \in Conversions(s)'
    BY <1>1, <2>1, AddedConversions DEF Offered
  <2>3. Names(r, apps'[s].copy.kind)
    BY DEF Names
  <2> HIDE DEF r
  <2> QED BY <2>2, <2>3 DEF Renewed, AskedAnew
<1>8. CASE Demands
  BY <1>8, DemandsStep DEF Reads
<1>9. CASE ConversionDone
  <2>1. ev.sel = s
    BY <1>9, ReplyReads DEF Reads
  <2>2. ev \in Due /\ ev.type = "reply"
    BY <1>9, ReplyForms
  <2>3. ~DataReply(ev)
    BY <1>1, <2>2, SeparateDue DEF Reads
  <2>4. StopsOnly(ev, s)
    BY <2>1, <2>2, <2>3 DEF StopsOnly, ReplyOf, DataReply
  <2> QED BY <2>2, <2>4 DEF Harmless
<1>10. CASE PropertyChanged
  <2>1. /\ ev.arg \in Atoms
        /\ \/ UNCHANGED reading
           \/ /\ reading'.atom = ev.arg /\ reading'.current = reading.current
           \/ \A t \in Selections : t = reading.current /\ Fed(t, "any") => Ended(t)'
    BY <1>1, <1>10, PropertyStep
  <2>2. ev.arg # None /\ Fed(s, "any") /\ s = reading.current
    BY <2>1, KindsAssumption DEF Atoms, Transferring, Reads
  <2> QED BY <1>2, <2>1, <2>2 DEF Reads
<1> QED BY <1>3, <1>4, <1>5, <1>6, <1>7, <1>8, <1>9, <1>10, NextCalm

LEMMA EndedKept ==
  ASSUME Exchange, Exchange', [Next]_vars, FirstClient, FirstClient', Transferring,
         NEW s \in Selections, Ended(s)
  PROVE  Ended(s)' \/ Reads(s)'
<1>1. /\ Shape /\ Exchanged /\ Queues
  BY DEF Exchange, Invariant
<1>2. CASE ~PropertyChanged
  BY <1>2, NextEnded DEF StillEnded
<1>3. CASE PropertyChanged
  <2>1. /\ ev.arg \in Atoms
        /\ \/ StillEnded
           \/ /\ \A t \in Selections : t # reading.current /\ Ended(t) => Ended(t)'
              /\ \/ \A t \in Selections : t = reading.current /\ Fed(t, "any") => Ended(t)'
                 \/ reading'.atom = ev.arg /\ reading'.current = reading.current
    BY <1>1, <1>3, PropertyStep
  <2>2. ev.arg # None /\ Fed(s, "any")
    BY <2>1, KindsAssumption DEF Atoms, Transferring
  <2>3. CASE StillEnded
    BY <2>3 DEF StillEnded
  <2>4. CASE s # reading.current
    BY <2>1, <2>4 DEF StillEnded
  <2>5. CASE s = reading.current
    BY <2>1, <2>2, <2>5 DEF StillEnded, Reads
  <2> QED BY <2>4, <2>5
<1> QED BY <1>2, <1>3

LEMMA NextPromise ==
  ASSUME Exchange, Exchange', [Next]_vars, Versioned, Separate, Sole, Written, Portioned,
         ~reading'.mixed, FirstClient', Transferring, NEW s \in Selections, Fresh(s),
         Offered(s)', Offered(s) => Undisturbed(s) /\ Promise(s)
  PROVE  Promise(s)'
<1>1. FirstClient
  BY FirstStays
<1>2. CASE Owed(s)'
  BY <1>2 DEF Promise, Renewed
<1>3. CASE ~Owed(s)'
  <2>1. Offered(s) /\ apps'[s].copy = apps[s].copy
    BY <1>3, OfferedKept
  <2>2. CASE Ended(s)
    BY <1>1, <2>2, EndedKept DEF Promise
  <2>3. CASE Coming(s)
    BY <1>1, <2>3, ComingKept DEF Promise
  <2>4. CASE Renewed(s)
    <3>1. ASSUME ConversionDone, ev.sel = s, Useful, prop["TARGETS"].kind = apps[s].copy.kind
          PROVE  Promise(s)'
      <4> DEFINE a == prop["TARGETS"].kind
      <4>1. Ended(s)' \/ (a \in Kinds /\ Added(s, a))
        BY <1>1, <3>1, ToldOver
      <4>2. ASSUME a \in Kinds, Added(s, a) PROVE Coming(s)'
        <5> DEFINE r == [target |-> a, copy |-> apps[s].copy]
        <5>1. AppsTyped
          BY DEF Exchange, Exchanged
        <5>2. PICK b : b = a
          OBVIOUS
        <5>3. [target |-> b, copy |-> apps[s].copy] \in Conversions(s)'
          BY <2>1, <4>2, <5>1, <5>2, AddedConversions DEF Offered
        <5>4. r.target \in Kinds /\ r.copy.kind = r.target /\ r \in Conversions(s)'
          BY <3>1, <4>2, <5>2, <5>3
        <5> HIDE DEF r
        <5> QED BY <5>4 DEF Coming
      <4> QED BY <4>1, <4>2 DEF Promise
    <3> QED BY <2>4, <3>1, RenewedKept DEF Promise
  <2>5. CASE Reads(s) /\ ~Ended(s) /\ ~Renewed(s)
    <3>1. Harmless(s)
      BY <2>1, <2>5 DEF Undisturbed
    <3> QED BY <1>1, <2>1, <2>5, <3>1, ReadsKept DEF Promise
  <2> QED BY <2>1, <2>2, <2>3, <2>4, <2>5 DEF Promise
<1> QED BY <1>2, <1>3

-----------------------------------------------------------------------------
(* Of a selection the client is not to get nothing is converted, read or   *)
(* open.                                                                   *)
Barred(s) ==
  s \in Skipped \/ ~ServerMayOwn =>
    /\ best[s] = None /\ ~Reads(s)
    /\ \A r \in Conversions(s) : r.target \notin Kinds /\ ServerMayOwn
    /\ \A e \in Due :
         ReplyOf(e, s) => e.arg \notin Kinds /\ (e.arg \in Atoms => ServerMayOwn)
    /\ FirstClient => Ended(s)

LEMMA NextBarred ==
  ASSUME Exchange, Exchange', [Next]_vars, Versioned, Transferring, NEW s \in Selections,
         Barred(s)
  PROVE  Barred(s)'
<1> SUFFICES ASSUME s \in Skipped \/ ~ServerMayOwn PROVE Barred(s)'
  BY DEF Barred
<1>1. /\ Shape /\ AppsTyped /\ PropTyped(prop) /\ Sequence(apps[s].conv) /\ Sequence(xq)
      /\ Exchanged /\ Queues /\ DOMAIN best = Selections
  BY DEF Exchange, Invariant, Exchanged, AppsTyped, IsApp, Shape, BestTyped
<1>2. /\ best[s] = None /\ ~Reads(s)
      /\ \A r \in Conversions(s) : r.target \notin Kinds /\ ServerMayOwn
      /\ \A e \in Due :
           ReplyOf(e, s) => e.arg \notin Kinds /\ (e.arg \in Atoms => ServerMayOwn)
      /\ FirstClient => Ended(s)
  BY DEF Barred
<1>3. None \notin Kinds /\ None \notin Atoms /\ Kinds \subseteq Atoms
  BY KindsAssumption DEF Atoms
<1> DEFINE B == best'[s] = None
           R == ~Reads(s)'
           C == \A r \in Conversions(s)' : r.target \notin Kinds /\ ServerMayOwn
           D == \A e \in Due' :
                  ReplyOf(e, s) => e.arg \notin Kinds /\ (e.arg \in Atoms => ServerMayOwn)
           G == B /\ R /\ C /\ D
<1>4. UNCHANGED best => B
  BY <1>2
<1>5. UNCHANGED reading \/ reading'.atom = None => R
  BY <1>2 DEF Reads
<1>6. Conversions(s)' \subseteq Conversions(s) => C
  BY <1>2
<1>7. ASSUME \A e \in Due' :
               \/ e \in Due
               \/ ReplyOf(e, s) => e.arg \notin Kinds /\ (e.arg \in Atoms => ServerMayOwn)
      PROVE  D
  BY <1>2, <1>7
<1>8. ASSUME NEW t \in Selections, NEW a, Added(t, a), t = s => a \notin Kinds /\ ServerMayOwn
      PROVE  C /\ D
  <2> DEFINE r == [target |-> a, copy |-> apps[t].copy]
  <2>1. /\ t # s => Conversions(s)' = Conversions(s)
        /\ Conversions(s)' \subseteq Conversions(s) \cup {r}
    BY <1>1, <1>8, AddedConversions
  <2>2. r.target = a
    OBVIOUS
  <2> HIDE DEF r
  <2>3. C
    BY <1>2, <1>8, <2>1, <2>2
  <2>4. PICK E : Consumes(E, E \X E) /\ \A e \in E : ReplyOf(e, t) /\ e.arg = None
    BY <1>8 DEF Added
  <2>5. D
    BY <1>3, <1>7, <2>4 DEF Consumes
  <2> QED BY <2>3, <2>5
<1> HIDE DEF B, R, C, D
<1>9. ASSUME Calm PROVE G
  <2>1. Conversions(s)' = Conversions(s) /\ UNCHANGED <<reading, best>>
    BY <1>9, CalmKept
  <2>2. \A e \in Due' : ReplyOf(e, s) => e \in Due
    BY <1>9 DEF Calm, Matters, ReplyOf
  <2>3. D
    BY <1>2, <2>2 DEF D
  <2> QED BY <1>4, <1>5, <1>6, <2>1, <2>3
<1>10. ASSUME NEW t \in Selections, NEW k \in AppKinds, AppCopies(t, k) PROVE G
  <2> DEFINE o == Event("owner", t, "app")
  <2>1. UNCHANGED <<reading, best>> /\ apps'[s].conv = apps[s].conv /\ Adds({o}, {<<o, o>>})
    BY <1>1, <1>10, AppCopiesStep
  <2>2. ~ReplyOf(o, s)
    BY EventParts DEF ReplyOf
  <2> HIDE DEF o
  <2>3. Conversions(s)' = Conversions(s)
    BY <2>1 DEF Conversions
  <2>4. D
    BY <1>7, <2>1, <2>2 DEF Adds
  <2> QED BY <1>4, <1>5, <1>6, <2>1, <2>3, <2>4
<1>11. ASSUME NEW t \in Selections, AppPortion(t) PROVE G
  <2> DEFINE x == Event("newvalue", None, apps[t].sending.kind)
  <2>1. /\ UNCHANGED <<reading, best>> /\ apps'[t].conv = apps[t].conv
        /\ \A u \in Selections : u # t => apps'[u] = apps[u]
        /\ Adds({x}, {<<x, x>>})
    BY <1>1, <1>11, AppPortionStep
  <2>2. ~ReplyOf(x, s)
    BY EventParts DEF ReplyOf
  <2> HIDE DEF x
  <2>3. s = t \/ s # t
    OBVIOUS
  <2>4. Conversions(s)' = Conversions(s)
    BY <2>1, <2>3 DEF Conversions
  <2>5. D
    BY <1>7, <2>1, <2>2 DEF Adds
  <2> QED BY <1>4, <1>5, <1>6, <2>1, <2>4, <2>5
<1>12. ASSUME NEW t \in Selections, AppConverts(t) PROVE G
  <2> DEFINE r == Head(apps[t].conv)
             x == Event("newvalue", None, r.target)
             y == Event("reply", t, r.target)
             z == Event("reply", t, None)
  <2>1. /\ apps[t].conv # <<>> /\ apps'[t].conv = Tail(apps[t].conv)
        /\ \A u \in Selections : u # t => apps'[u] = apps[u]
        /\ UNCHANGED <<reading, best>> /\ Due' \subseteq Due \cup {x, y, z}
    BY <1>1, <1>12, AppConvertsStep DEF Adds
  <2>2. /\ Conversions(t) = Conversions(t)' \cup {r}
        /\ Conversions(s)' \subseteq Conversions(s)
    BY <1>1, <2>1, FewerOwned
  <2>3. /\ ~ReplyOf(x, s) /\ (ReplyOf(y, s) => t = s) /\ y.arg = r.target /\ z.arg = None
    BY EventParts DEF ReplyOf
  <2> HIDE DEF r, x, y, z
  <2>4. t = s => r.target \notin Kinds /\ ServerMayOwn
    BY <1>2, <2>2
  <2>5. D
    BY <1>3, <1>7, <2>1, <2>3, <2>4
  <2> QED BY <1>4, <1>5, <1>6, <2>1, <2>2, <2>5
<1>13. ASSUME Renews PROVE G
  <2>1. /\ UNCHANGED best /\ ServerMayOwn /\ ev.sel \in Selections
        /\ Added(ev.sel, "TARGETS") /\ reading'.atom = None
    BY <1>13, RenewsStep
  <2>2. "TARGETS" \notin Kinds
    BY KindsAssumption
  <2> QED BY <1>4, <1>5, <1>8, <2>1, <2>2
<1>14. ASSUME Demands PROVE G
  <2> DEFINE a == best[ev.sel]
  <2>1. /\ UNCHANGED best /\ ev.sel \in Selections /\ a \in Kinds /\ Added(ev.sel, a)
        /\ reading'.atom = reading.atom /\ reading'.current = reading.current
    BY <1>14, DemandsStep
  <2>2. ev.sel # s
    BY <1>2, <1>3, <2>1
  <2>3. R
    BY <1>2, <2>1 DEF R, Reads
  <2> HIDE DEF a
  <2> QED BY <1>4, <1>8, <2>1, <2>2, <2>3
<1>15. ASSUME PropertyChanged PROVE G
  <2>1. UNCHANGED <<apps, best>> /\ Consumes({}, {})
    BY <1>1, <1>15, PropertyStep
  <2>2. \/ UNCHANGED reading \/ reading'.atom = None
        \/ /\ reading.atom = ev.arg /\ ev.arg \in Atoms
           /\ reading'.atom = ev.arg /\ reading'.current = reading.current
    <3>1. \/ UNCHANGED reading \/ reading'.atom = None
          \/ reading'.atom = ev.arg /\ reading'.current = reading.current
      BY <1>1, <1>15, PropertyStep
    <3>2. ev.arg \in Atoms /\ (UNCHANGED reading \/ reading.atom = ev.arg)
      BY <1>1, <1>15, PropertyStep
    <3> QED BY <3>1, <3>2
  <2>3. R
    BY <1>2, <1>3, <1>5, <2>2 DEF R, Reads
  <2>4. Conversions(s)' = Conversions(s)
    BY <2>1 DEF Conversions
  <2>5. D
    BY <1>7, <2>1 DEF Consumes
  <2> QED BY <1>4, <1>6, <2>1, <2>3, <2>4, <2>5
<1>16. ASSUME ConversionDone PROVE G
  <2> DEFINE a == prop["TARGETS"].kind
  <2>1. ev \in Due /\ ev.type = "reply" /\ ev.sel \in Selections
    BY <1>16, ReplyForms
  <2>2. /\ UNCHANGED best \/ (Useful /\ best' = [best EXCEPT ![ev.sel] = a])
        /\ reading'.atom = None \/ (OfType("INCR") /\ reading'.current = ev.sel)
        /\ (UNCHANGED apps /\ Consumes({}, {})) \/ (Useful /\ Added(ev.sel, a))
    BY <1>16, ReplyForms
  <2>3. OfType("INCR") => ev.sel # s
    BY <1>2, <2>1 DEF OfType, ReplyOf
  <2>4. Useful => ev.sel # s
    <3>1. Useful => ev.sel \notin Skipped /\ ev.arg = "TARGETS" /\ "TARGETS" \in Atoms
      BY DEF Useful, Atoms
    <3> QED BY <1>2, <2>1, <3>1 DEF ReplyOf
  <2> HIDE DEF a
  <2>5. B
    BY <1>1, <1>2, <2>2, <2>4 DEF B
  <2>6. R
    BY <1>5, <2>2, <2>3 DEF R, Reads
  <2>7. ASSUME UNCHANGED apps, Consumes({}, {}) PROVE G
    <3>1. Conversions(s)' = Conversions(s)
      BY <2>7 DEF Conversions
    <3>2. D
      BY <1>7, <2>7 DEF Consumes
    <3> QED BY <1>6, <2>5, <2>6, <3>1, <3>2
  <2>8. ASSUME Useful, Added(ev.sel, a) PROVE G
    BY <1>8, <2>1, <2>4, <2>5, <2>6, <2>8
  <2> QED BY <2>2, <2>7, <2>8
<1>17. G
  BY <1>9, <1>10, <1>11, <1>12, <1>13, <1>14, <1>15, <1>16, NextCalm
<1>18. FirstClient' => Ended(s)'
  <2>1. ASSUME FirstClient' PROVE Ended(s)'
    <3>1. FirstClient
      BY <2>1, FirstStays
    <3> QED BY <1>2, <1>17, <2>1, <3>1, EndedKept DEF R
  <2> QED BY <2>1
<1> QED BY <1>17, <1>18 DEF Barred, B, R, C, D

-----------------------------------------------------------------------------
(* Transfers end.                                                          *)
Ending ==
  /\ Versioned
  /\ \A s \in Selections : Barred(s) /\ Fresh(s)
  /\ Unmixed => /\ Sole /\ Written /\ Portioned
                /\ FirstClient =>
                     \A s \in Selections : Offered(s) => Undisturbed(s) /\ Promise(s)

LEMMA InitEnding == Init => Ending
<1> SUFFICES ASSUME Init PROVE Ending
  OBVIOUS
<1>1. /\ toClient = <<>> /\ chunks = <<>> /\ reading.atom = None
      /\ xq = <<>> /\ spc = "wait" /\ best = [s \in Selections |-> None]
      /\ xowner = [s \in Selections |-> "nobody"] /\ NoCopy.ver = 0
  BY DEF Init, NotReading, NoCopy
<1>2. ASSUME NEW s \in Selections
      PROVE  /\ remote[s].phase = "none" /\ remote[s].from = {} /\ apps[s].conv = <<>>
             /\ apps[s].copy = NoCopy /\ apps[s].sending = NoCopy
  BY <1>2 DEF Init
<1>3. Len(<<>>) = 0 /\ Sequence(<<>>) /\ \A i : i \notin 1 .. 0
  <2>1. <<>> \in Seq({}) /\ Len(<<>>) = 0
    OBVIOUS
  <2> QED BY <2>1 DEF Sequence
<1>4. Due = {} /\ Ordered = {}
  <2>1. Due = {}
    BY <1>1, <1>3, DueParts DEF Due
  <2> QED BY <2>1 DEF Ordered
<1>5. ASSUME NEW s \in Selections PROVE Conversions(s) = {}
  <2>1. Elements(<<>>) = {}
    BY <1>3, ElementsNone
  <2> QED BY <1>2, <1>5, <2>1 DEF Conversions
<1>6. ASSUME NEW s \in Selections PROVE Ended(s)
  <2>1. Opened(s, {}, "any")
    BY <1>2 DEF Opened
  <2>2. Flow(toClient, s, {}, {}, "any") /\ Flow(chunks, s, {}, {}, "any")
    BY <1>1, FlowEmpty
  <2> QED BY <2>1, <2>2 DEF Ended, FedTo
<1>7. Versioned
  BY <1>1, <1>2, <1>5 DEF Versioned
<1>8. ASSUME NEW s \in Selections PROVE Barred(s) /\ Fresh(s) /\ ~Offered(s)
  BY <1>1, <1>4, <1>5, <1>6 DEF Barred, Fresh, Offered, Reads
<1>9. Sole /\ Written /\ Portioned
  BY <1>1, <1>4, <1>5 DEF Sole, Busy, Written, Portioned
<1> QED BY <1>7, <1>8, <1>9 DEF Ending

LEMMA NextEnding ==
  ASSUME Exchange, Exchange', Transferring, Unmixed => Separate, Ending, [Next]_vars
  PROVE  Ending'
<1>1. Versioned'
  BY NextVersioned DEF Ending
<1>2. ASSUME NEW s \in Selections PROVE Barred(s)' /\ Fresh(s)'
  BY <1>2, NextBarred, NextFresh DEF Ending
<1>3. ASSUME ~reading'.mixed
      PROVE  /\ Sole' /\ Written' /\ Portioned'
             /\ FirstClient' =>
                  \A s \in Selections : Offered(s)' => Undisturbed(s)' /\ Promise(s)'
  <2>1. ~reading.mixed
    BY <1>3, MixedStays DEF Exchange, Invariant, Queues
  <2>2. /\ Versioned /\ Separate /\ Sole /\ Written /\ Portioned
        /\ FirstClient =>
             \A s \in Selections : Offered(s) => Undisturbed(s) /\ Promise(s)
    BY <2>1 DEF Ending, Unmixed
  <2>3. Sole' /\ Written' /\ Portioned'
    BY <1>3, <2>2, NextSole, NextWritten, NextPortioned
  <2>4. ASSUME FirstClient', NEW s \in Selections, Offered(s)'
        PROVE  Undisturbed(s)' /\ Promise(s)'
    <3>1. Fresh(s) /\ (Offered(s) => Undisturbed(s) /\ Promise(s))
      BY <2>2, <2>4, FirstStays DEF Ending
    <3>2. Undisturbed(s)'
      BY <1>3, <2>2, <2>4, <3>1, NextUndisturbed
    <3>3. Promise(s)'
      BY <1>3, <2>2, <2>4, <3>1, NextPromise
    <3> QED BY <3>2, <3>3
  <2> QED BY <2>3, <2>4
<1> QED BY <1>1, <1>2, <1>3 DEF Ending, Unmixed

(* When nothing is under way, an ended transfer is not open.               *)
LEMMA EndedQuietly ==
  ASSUME NEW s \in Selections, Ended(s), toClient = <<>>, chunks = <<>>
  PROVE  remote[s].phase # "open"
<1>1. PICK o, x : /\ Opened(s, o, "any") /\ Flow(toClient, s, o, x, "any")
                  /\ Flow(chunks, s, x, {}, "any")
  BY DEF Ended, FedTo
<1>2. \A y, z : Flow(<<>>, s, y, z, "any") => y = z
  <2>1. Len(<<>>) = 0
    OBVIOUS
  <2> QED BY <2>1 DEF Flow
<1> QED BY <1>1, <1>2 DEF Opened

(* When nothing is under way any more, nothing that was offered is still   *)
(* to come.                                                                *)
LEMMA NothingComes ==
  ASSUME Exchange, Quiet, Portioned, NEW s \in Selections
  PROVE  ~Renewed(s) /\ ~Coming(s) /\ ~Reads(s)
<1>1. /\ xq = <<>> /\ spc = "wait" /\ apps[s].conv = <<>> /\ IsReading(reading) /\ AppsTyped
      /\ \A t \in Selections : ~PortionDue(t)
  BY DEF Quiet, Exchange, Exchanged
<1>2. Len(<<>>) = 0 /\ Sequence(<<>>) /\ \A i : i \notin 1 .. 0
  <2>1. <<>> \in Seq({}) /\ Len(<<>>) = 0
    OBVIOUS
  <2> QED BY <2>1 DEF Sequence
<1>3. Due = {}
  BY <1>1, <1>2, DueParts DEF Due
<1>4. Conversions(s) = {}
  BY <1>1, <1>2, ElementsNone DEF Conversions
<1>5. ~Renewed(s) /\ ~Coming(s)
  BY <1>3, <1>4 DEF Renewed, Owed, AskedAnew, ToldAnew, Coming
<1>6. ASSUME Reads(s) PROVE FALSE
  <2> DEFINE a == reading.atom
  <2>1. /\ a # None /\ reading.current = s /\ a \in Kinds
    BY <1>1, <1>6 DEF Reads, IsReading
  <2>2. prop[a] = None /\ apps[s].sending.kind = a
    BY <1>3, <2>1 DEF Portioned
  <2>3. apps[s].sending # NoCopy
    BY <2>1, <2>2 DEF NoCopy
  <2> QED BY <1>1, <2>2, <2>3 DEF PortionDue
<1> QED BY <1>5, <1>6

(* When nothing is under way any more the client does not wait for the     *)
(* rest of a transfer of data that were not mixed up: every incremental    *)
(* transfer is continued, ended with a last chunk or replaced              *)
(* (process_property_notify, process_selection_notify).                    *)
THEOREM EndCorrect == Spec => []TransfersEnd
<1>1. Init => Transferring /\ (Unmixed => Separate) /\ Ending
  BY InitTransferring, InitEnding
<1>2. Exchange /\ Exchange' /\ [Next]_vars /\ Transferring /\ (Unmixed => Separate) /\ Ending
        => Transferring' /\ (Unmixed => Separate)' /\ Ending'
  <2> SUFFICES ASSUME Exchange, Exchange', [Next]_vars, Transferring, Unmixed => Separate, Ending
               PROVE  Transferring' /\ (Unmixed => Separate)' /\ Ending'
    OBVIOUS
  <2>1. Transferring'
    BY NextTransferring
  <2>2. (Unmixed => Separate)'
    BY NextSeparate
  <2>3. Ending'
    BY NextEnding
  <2> QED BY <2>1, <2>2, <2>3
<1>3. Exchange /\ Transferring /\ Ending => TransfersEnd
  <2> SUFFICES ASSUME Exchange, Transferring, Ending, Quiet, conns = 1, NEW s \in Selections,
                      xowner[s] = "app", apps[s].copy.kind \in Kinds, Unmixed
               PROVE  remote[s].phase # "open"
    BY DEF TransfersEnd
  <2>1. CASE ~connected
    BY <2>1 DEF Transferring
  <2>2. CASE connected
    <3>1. FirstClient /\ Portioned /\ toClient = <<>> /\ chunks = <<>>
      BY <2>2 DEF FirstClient, Ending, Quiet
    <3>2. Barred(s) /\ (Offered(s) => Promise(s))
      BY <3>1 DEF Ending
    <3>3. ~Renewed(s) /\ ~Coming(s) /\ ~Reads(s)
      BY <3>1, NothingComes
    <3>4. Ended(s)
      BY <3>1, <3>2, <3>3 DEF Barred, Offered, Promise
    <3> QED BY <3>1, <3>4, EndedQuietly
  <2> QED BY <2>1, <2>2
<1> QED BY <1>1, <1>2, <1>3, ExchangeCorrect, PTL DEF Spec

=============================================================================
