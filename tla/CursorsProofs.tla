--------------------------- MODULE CursorsProofs ----------------------------
(***************************************************************************)
(* For any cursors, threads and queue: what is on its way to the client is *)
(* a sequence that grows at one end and is read at the other, and the list *)
(* of sent cursors, the references, the encodings and the cursor shown     *)
(* follow from what it holds.                                              *)
(***************************************************************************)
EXTENDS Cursors, SequenceTheorems, TLAPS

-----------------------------------------------------------------------------
(* The shape of the state.                                                 *)

MainShape ==
  main.pc = "mark" => HasData(main.frame) /\ main.frame.cursor \notin sent

Shape == TypeOK /\ MainShape

LEMMA FormType == ASSUME TypeOK, NEW c \in Cursor PROVE Form(c) \in Forms
BY DEF Form, Forms

LEMMA InitShape == Init => Shape
<1> SUFFICES ASSUME Init PROVE Shape
  OBVIOUS
<1>1. queue \in Seq(Frames)
  BY DEF Init
<1>2. /\ main \in [pc : {"idle", "mark", "enqueue"}, frame : Frames \cup {Null}]
      /\ main.frame = Null <=> main.pc = "idle"
      /\ MainShape
  BY DEF Init, MainIdle, MainShape
<1>3. client \in [form : [Cursor -> Forms \cup {Null}],
                  shows : Cursor \cup {Null}, unknown : BOOLEAN,
                  web : BOOLEAN]
  BY DEF Init, NewClient
<1>4. /\ hand \in [Senders -> Frames \cup {Null}]
      /\ spc \in [Senders -> {"none", "top", "serve", "reinit", "clean", "pop",
                              "sending", "exit"}]
      /\ \A s \in Senders : hand[s] # Null <=> spc[s] = "sending"
  BY DEF Init
<1>5. os \in {Web, OtherOS} /\ sent \in SUBSET Cursor
      /\ connected \in BOOLEAN /\ rebuilt \in BOOLEAN
      /\ told \in BOOLEAN /\ early \in BOOLEAN /\ overlap \in BOOLEAN
      /\ last \in Cursor \cup {Null}
  BY DEF Init
<1>6. QED
  BY <1>1, <1>2, <1>3, <1>4, <1>5 DEF Shape, TypeOK

(* A frame with or without an image for a cursor.                          *)
LEMMA FrameType ==
  ASSUME TypeOK, NEW c \in Cursor
  PROVE  /\ Reference(c) \in Frames /\ ~HasData(Reference(c))
         /\ Frame(c, Form(c)) \in Frames /\ HasData(Frame(c, Form(c)))
         /\ Reference(c).cursor = c /\ Frame(c, Form(c)).cursor = c
         /\ Frame(c, Form(c)).form = Form(c)
BY FormType DEF Frames, Forms, Frame, Reference, HasData

LEMMA FrameParts ==
  ASSUME NEW f \in Frames
  PROVE  /\ f # Null /\ f.cursor \in Cursor
         /\ HasData(f) => f.form \in Forms
BY NullAssumption DEF Frames, HasData

(* What is on the way is a sequence of frames.                             *)
LEMMA WayType ==
  ASSUME TypeOK
  PROVE  /\ OnTheWay \in Seq(Frames) /\ Len(OnTheWay) \in Nat
         /\ DOMAIN OnTheWay = 1 .. Len(OnTheWay)
         /\ \A i \in 1 .. Len(OnTheWay) : OnTheWay[i] \in Frames
<1>1. InHand \subseteq Frames
  BY DEF InHand, TypeOK
<1>2. OnTheWay \in Seq(Frames)
  <2>1. CASE InHand = {}
    BY <2>1 DEF OnTheWay, TypeOK
  <2>2. CASE InHand # {}
    <3>1. (CHOOSE f \in InHand : TRUE) \in Frames
      BY <1>1, <2>2
    <3>2. <<CHOOSE f \in InHand : TRUE>> \in Seq(Frames)
      BY <3>1
    <3>3. QED
      BY <2>2, <3>2, ConcatProperties DEF OnTheWay, TypeOK
  <2>3. QED
    BY <2>1, <2>2
<1>3. QED
  BY <1>2, ElementOfSeq, LenProperties

LEMMA WaySame ==
  ASSUME UNCHANGED <<queue, hand>>
  PROVE  OnTheWay' = OnTheWay /\ InHand' = InHand
BY DEF OnTheWay, InHand

(* w grows to x by f at its end; the first of w, which is f, is taken and  *)
(* leaves x.                                                               *)
Grows(w, x, f) ==
  /\ Len(x) = Len(w) + 1 /\ x[Len(x)] = f
  /\ \A i \in 1 .. Len(w) : x[i] = w[i]

Shrinks(w, x, f) ==
  /\ Len(w) = Len(x) + 1 /\ w[1] = f
  /\ \A i \in 1 .. Len(x) : x[i] = w[i + 1]

LEMMA WayGrows ==
  ASSUME TypeOK, TypeOK', NEW f \in Frames,
         queue' = Append(queue, f), hand' = hand
  PROVE  Grows(OnTheWay, OnTheWay', f)
<1>1. queue \in Seq(Frames) /\ InHand' = InHand /\ InHand \subseteq Frames
  BY DEF TypeOK, InHand
<1>2. CASE InHand = {}
  BY <1>1, <1>2, AppendProperties DEF OnTheWay, Grows
<1>3. CASE InHand # {}
  <2> DEFINE g == CHOOSE e \in InHand : TRUE
  <2>1. g \in Frames
    BY <1>1, <1>3
  <2> HIDE DEF g
  <2>2. <<g>> \in Seq(Frames) /\ Len(<<g>>) = 1
    BY <2>1
  <2>3. OnTheWay = <<g>> \o queue /\ OnTheWay' = <<g>> \o Append(queue, f)
    BY <1>1, <1>3 DEF OnTheWay, g
  <2>4. Append(queue, f) \in Seq(Frames) /\ Len(Append(queue, f)) = Len(queue) + 1
        /\ Append(queue, f)[Len(queue) + 1] = f /\ Len(queue) \in Nat
        /\ \A i \in 1 .. Len(queue) : Append(queue, f)[i] = queue[i]
    BY <1>1, AppendProperties, LenProperties
  <2>5. /\ Len(OnTheWay) = Len(queue) + 1
        /\ \A i \in 1 .. Len(queue) + 1 :
             OnTheWay[i] = IF i <= 1 THEN <<g>>[i] ELSE queue[i - 1]
    BY <1>1, <2>2, <2>3, <2>4, ConcatProperties
  <2>6. /\ Len(OnTheWay') = Len(queue) + 2
        /\ \A i \in 1 .. Len(queue) + 2 :
             (OnTheWay')[i] = IF i <= 1 THEN <<g>>[i] ELSE Append(queue, f)[i - 1]
    BY <2>2, <2>3, <2>4, ConcatProperties
  <2>7. Len(OnTheWay') = Len(OnTheWay) + 1 /\ Len(queue) + 2 \in 1 .. Len(queue) + 2
    BY <2>4, <2>5, <2>6
  <2>8. (OnTheWay')[Len(queue) + 2] = f
    <3>1. (OnTheWay')[Len(queue) + 2] = Append(queue, f)[(Len(queue) + 2) - 1]
      BY <2>4, <2>6, <2>7
    <3>2. (Len(queue) + 2) - 1 = Len(queue) + 1
      BY <2>4
    <3>3. QED
      BY <3>1, <3>2, <2>4
  <2>9. ASSUME NEW i \in 1 .. Len(OnTheWay) PROVE (OnTheWay')[i] = OnTheWay[i]
    <3>1. i \in 1 .. Len(queue) + 1 /\ i \in 1 .. Len(queue) + 2
      BY <2>4, <2>5
    <3>2. CASE i = 1
      BY <3>1, <3>2, <2>5, <2>6
    <3>3. CASE i # 1
      <4>1. i - 1 \in 1 .. Len(queue)
        BY <3>1, <3>3, <2>4
      <4>2. QED
        BY <4>1, <3>1, <3>3, <2>4, <2>5, <2>6
    <3>4. QED
      BY <3>2, <3>3
  <2>10. QED
    BY <2>6, <2>7, <2>8, <2>9 DEF Grows
<1>4. QED
  BY <1>2, <1>3

(* A frame that a thread takes when no other has one stays on the way.     *)
LEMMA WayTaken ==
  ASSUME TypeOK, TypeOK', NEW s \in Senders, InHand = {}, queue # <<>>,
         hand' = [hand EXCEPT ![s] = Head(queue)], queue' = Tail(queue)
  PROVE  OnTheWay' = OnTheWay /\ InHand' = {Head(queue)}
<1>1. queue \in Seq(Frames) /\ Head(queue) \in Frames /\ Tail(queue) \in Seq(Frames)
      /\ Len(Tail(queue)) = Len(queue) - 1 /\ Len(queue) \in Nat /\ Len(queue) # 0
      /\ \A i \in 1 .. Len(Tail(queue)) : Tail(queue)[i] = queue[i + 1]
      /\ Head(queue) = queue[1]
  <2>1. queue \in Seq(Frames)
    BY DEF TypeOK
  <2>2. QED
    BY <2>1, HeadTailProperties, EmptySeq, LenProperties
<1>2. InHand' = {Head(queue)}
  <2>1. \A t \in Senders : hand[t] = Null
    BY DEF InHand
  <2>2. Head(queue) # Null
    BY <1>1, FrameParts
  <2>3. QED
    BY <2>1, <2>2 DEF InHand, TypeOK
<1>3. OnTheWay = queue
  BY DEF OnTheWay
<1>4. OnTheWay' = <<Head(queue)>> \o Tail(queue)
  <2>1. (CHOOSE f \in InHand : TRUE)' = Head(queue)
    BY <1>2
  <2>2. QED
    BY <1>2, <2>1 DEF OnTheWay
<1>5. <<Head(queue)>> \in Seq(Frames) /\ Len(<<Head(queue)>>) = 1
      /\ <<Head(queue)>>[1] = Head(queue)
  BY <1>1
<1>6. /\ OnTheWay' \in Seq(Frames) /\ Len(OnTheWay') = Len(queue)
      /\ \A i \in 1 .. Len(queue) :
           (OnTheWay')[i] = IF i <= 1 THEN <<Head(queue)>>[i]
                            ELSE Tail(queue)[i - 1]
  BY <1>1, <1>4, <1>5, ConcatProperties
<1>7. \A i \in 1 .. Len(queue) : (OnTheWay')[i] = queue[i]
  BY <1>1, <1>5, <1>6
<1>8. QED
  BY <1>1, <1>2, <1>3, <1>6, <1>7, SeqEqual

(* The only frame in hand is the first on the way, and leaves it when it   *)
(* is sent.                                                                *)
LEMMA WayShrinks ==
  ASSUME TypeOK, TypeOK', NEW s \in Senders, InHand = {hand[s]},
         hand[s] # Null, hand' = [hand EXCEPT ![s] = Null], queue' = queue,
         \A t \in Senders : t # s => hand[t] = Null
  PROVE  Shrinks(OnTheWay, OnTheWay', hand[s]) /\ InHand' = {}
<1>1. queue \in Seq(Frames) /\ hand[s] \in Frames /\ Len(queue) \in Nat
  BY LenProperties DEF TypeOK
<1>2. InHand' = {}
  BY DEF InHand, TypeOK
<1>3. OnTheWay' = queue
  BY <1>2 DEF OnTheWay
<1>4. OnTheWay = <<hand[s]>> \o queue
  <2>1. (CHOOSE f \in InHand : TRUE) = hand[s]
    OBVIOUS
  <2>2. QED
    BY <2>1 DEF OnTheWay
<1>5. <<hand[s]>> \in Seq(Frames) /\ Len(<<hand[s]>>) = 1
      /\ <<hand[s]>>[1] = hand[s]
  BY <1>1
<1>6. /\ Len(OnTheWay) = Len(queue) + 1
      /\ \A i \in 1 .. Len(queue) + 1 :
           OnTheWay[i] = IF i <= 1 THEN <<hand[s]>>[i] ELSE queue[i - 1]
  BY <1>1, <1>4, <1>5, ConcatProperties
<1>7. QED
  BY <1>1, <1>2, <1>3, <1>5, <1>6 DEF Shrinks

-----------------------------------------------------------------------------
(* What the client will have when it has read some of it.                  *)

LEMMA HasSame ==
  ASSUME OnTheWay' = OnTheWay, connected' = connected,
         client'.form = client.form
  PROVE  \A c, n : HasAfter(c, n)' <=> HasAfter(c, n)
BY DEF HasAfter

LEMMA HasGrown ==
  ASSUME TypeOK, NEW f \in Frames, Grows(OnTheWay, OnTheWay', f),
         connected' = connected, client'.form = client.form
  PROVE  /\ \A c, n : n \in 0 .. Len(OnTheWay) =>
              (HasAfter(c, n)' <=> HasAfter(c, n))
         /\ \A c : HasAfter(c, Len(OnTheWay))' <=>
              HasAfter(c, Len(OnTheWay)) \/ (f.cursor = c /\ HasData(f))
<1>1. Len(OnTheWay) \in Nat
  BY WayType
<1>2. ASSUME NEW c, NEW n \in 0 .. Len(OnTheWay)
      PROVE  HasAfter(c, n)' <=> HasAfter(c, n)
  <2>1. \A i \in 1 .. n : i \in 1 .. Len(OnTheWay)
    BY <1>1
  <2>2. QED
    BY <2>1 DEF HasAfter, Grows
<1>3. ASSUME NEW c
      PROVE  HasAfter(c, Len(OnTheWay))' <=>
               HasAfter(c, Len(OnTheWay)) \/ (f.cursor = c /\ HasData(f))
  <2>1. \A i : i \in 1 .. Len(OnTheWay') <=>
                 i \in 1 .. Len(OnTheWay) \/ i = Len(OnTheWay')
    BY <1>1 DEF Grows
  <2>2. QED
    BY <2>1 DEF HasAfter, Grows
<1>4. QED
  BY <1>2, <1>3

LEMMA HasShrunk ==
  ASSUME TypeOK, TypeOK', NEW f \in Frames, Shrinks(OnTheWay, OnTheWay', f),
         connected, connected', client' = Received(f)
  PROVE  \A c \in Cursor, n \in 0 .. Len(OnTheWay') :
           HasAfter(c, n)' <=> HasAfter(c, n + 1)
<1>1. Len(OnTheWay') \in Nat /\ Len(OnTheWay) = Len(OnTheWay') + 1
  BY WayType DEF Shrinks, TypeOK
<1>2. ASSUME NEW c \in Cursor
      PROVE  client'.form[c] # Null <=>
               client.form[c] # Null \/ (f.cursor = c /\ HasData(f))
  <2>1. f.cursor \in Cursor /\ (HasData(f) => f.form # Null)
    BY FrameParts, NullAssumption
  <2>2. QED
    BY <2>1 DEF Received, TypeOK
<1>3. SUFFICES ASSUME NEW c \in Cursor, NEW n \in 0 .. Len(OnTheWay')
               PROVE  HasAfter(c, n)' <=> HasAfter(c, n + 1)
  OBVIOUS
<1>4. HasAfter(c, n)' <=>
        \/ client.form[c] # Null \/ (f.cursor = c /\ HasData(f))
        \/ \E i \in 1 .. n : OnTheWay[i + 1].cursor = c /\ HasData(OnTheWay[i + 1])
  <2>1. \A i \in 1 .. n : (OnTheWay')[i] = OnTheWay[i + 1]
    BY <1>1 DEF Shrinks
  <2>2. QED
    BY <2>1, <1>2 DEF HasAfter
<1>5. HasAfter(c, n + 1) <=>
        \/ client.form[c] # Null \/ (f.cursor = c /\ HasData(f))
        \/ \E i \in 1 .. n : OnTheWay[i + 1].cursor = c /\ HasData(OnTheWay[i + 1])
  <2>1. ASSUME NEW i \in 1 .. n + 1
        PROVE  i = 1 \/ (i - 1 \in 1 .. n /\ (i - 1) + 1 = i)
    BY <1>1
  <2>2. 1 \in 1 .. n + 1 /\ \A i \in 1 .. n : i + 1 \in 1 .. n + 1
    BY <1>1
  <2>3. OnTheWay[1] = f
    BY DEF Shrinks
  <2>4. QED
    BY <2>1, <2>2, <2>3 DEF HasAfter
<1>6. QED
  BY <1>4, <1>5

-----------------------------------------------------------------------------
(* The invariant.                                                          *)

(* While no cleanup has overlapped with work in progress, one thread at    *)
(* most has a frame in hand, it serves the client that is there, and       *)
(* between REINIT and the cleanup the client has nothing and gets nothing. *)
Order ==
  ~overlap =>
    /\ \A s, t \in Senders : hand[s] # Null /\ hand[t] # Null => s = t
    /\ InHand # {} => connected
    /\ Rebuilding =>
         /\ InHand = {}
         /\ connected => \A c \in Cursor : client.form[c] = Null
    /\ ~client.unknown

MarkedOnce ==
  Orderly /\ main.pc = "enqueue" /\ HasData(main.frame) =>
    ~HasAfter(main.frame.cursor, Len(OnTheWay))

Stream == ReferencesResolve /\ SentListIsExact /\ MarkedOnce

(* The last frame on the way is the cursor set last.                       *)
Latest ==
  ~overlap =>
    /\ Len(OnTheWay) # 0 => last = OnTheWay[Len(OnTheWay)].cursor
    /\ ~Rebuilding /\ Len(OnTheWay) = 0 /\ last # Null =>
         connected /\ client.shows = last

(* An image is in a form that the client there can draw; before it has     *)
(* told which one it is there is no image.                                 *)
Allowed(c, form) == told /\ (c \in Argb => (form = "png" <=> os = Web))

Encoded ==
  /\ main.pc # "idle" /\ HasData(main.frame) =>
       Allowed(main.frame.cursor, main.frame.form)
  /\ \A n \in 1 .. Len(OnTheWay) :
       HasData(OnTheWay[n]) =>
         Allowed(OnTheWay[n].cursor, OnTheWay[n].form)
  /\ connected =>
       \A c \in Cursor : client.form[c] # Null => Allowed(c, client.form[c])

Fit ==
  /\ ~connected => ~told
  /\ told => (client.web <=> os = Web)
  /\ ~overlap /\ ~early => Encoded

Invariant == Shape /\ Order /\ Stream /\ Latest /\ Fit

LEMMA ShapeStep ==
  ASSUME Shape, [Next]_vars
  PROVE  Shape'
<1> USE DEF Shape, TypeOK, MainShape, Goto
<1>1. ASSUME NEW c \in Cursor, SetCursor(c) PROVE Shape'
  <2>1. CASE IsCursorSent(c)
    BY <1>1, <2>1, FrameType, FrameParts DEF SetCursor, IsCursorSent
  <2>2. CASE ~IsCursorSent(c)
    BY <1>1, <2>2, FrameType, FrameParts DEF SetCursor, IsCursorSent
  <2>3. QED
    BY <2>1, <2>2
<1>2. CASE AddSentCursor
  BY <1>2, FrameParts DEF AddSentCursor
<1>3. CASE AddCursorToQueue
  <2>1. main.frame \in Frames
    BY <1>3 DEF AddCursorToQueue
  <2>2. queue' \in Seq(Frames)
    BY <1>3, <2>1, AppendProperties DEF AddCursorToQueue, Enqueued
  <2>3. last' \in Cursor
    BY <1>3, <2>1, FrameParts DEF AddCursorToQueue
  <2>4. QED
    BY <1>3, <2>2, <2>3 DEF AddCursorToQueue, MainIdle
<1>4. CASE Disconnect
  <2>1. early' \in BOOLEAN /\ overlap' \in BOOLEAN
    BY <1>4 DEF Disconnect, FreeCursors
  <2>2. sent' = {} /\ queue' = <<>> /\ last' = Null /\ connected' = FALSE
        /\ told' = FALSE
        /\ UNCHANGED <<os, rebuilt, main, spc, hand, client>>
    BY <1>4 DEF Disconnect, FreeCursors, SentAfterFree
  <2>3. queue' \in Seq(Frames)
    BY <2>2
  <2>4. TypeOK'
    BY <2>1, <2>2, <2>3
  <2>5. MainShape'
    BY <2>2
  <2>6. QED
    BY <2>4, <2>5
<1>5. CASE RebuildCaches
  BY <1>5 DEF RebuildCaches
<1>6. ASSUME NEW o \in {Web, OtherOS}, ClientVersion(o) PROVE Shape'
  BY <1>6 DEF ClientVersion
<1>7. ASSUME NEW s \in Senders, Accept(s) PROVE Shape'
  <2>1. NewClient \in [form : [Cursor -> Forms \cup {Null}],
                      shows : Cursor \cup {Null}, unknown : BOOLEAN,
                      web : BOOLEAN]
    BY DEF NewClient
  <2>2. QED
    BY <1>7, <2>1 DEF Accept
<1>8. ASSUME NEW s \in Senders, CheckConnected(s) PROVE Shape'
  BY <1>8 DEF CheckConnected
<1>9. ASSUME NEW s \in Senders, TakeRebuild(s) PROVE Shape'
  <2>1. spc' = [spc EXCEPT ![s] = "reinit"] \/ spc' = [spc EXCEPT ![s] = "pop"]
    BY <1>9 DEF TakeRebuild
  <2>2. rebuilt' \in BOOLEAN /\ spc[s] = "serve"
        /\ UNCHANGED <<sent, queue, connected, os, main, hand, client, told,
                       early, last, overlap>>
    BY <1>9 DEF TakeRebuild
  <2>3. \A t \in Senders : hand'[t] # Null <=> spc'[t] = "sending"
    BY <2>1, <2>2
  <2>4. spc' \in [Senders -> {"none", "top", "serve", "reinit", "clean", "pop",
                             "sending", "exit"}]
    BY <2>1
  <2>5. QED
    BY <2>2, <2>3, <2>4
<1>10. ASSUME NEW s \in Senders, SendReinit(s) PROVE Shape'
  <2>1. NewClient.form \in [Cursor -> Forms \cup {Null}]
    BY DEF NewClient
  <2>2. QED
    BY <1>10, <2>1 DEF SendReinit
<1>11. ASSUME NEW s \in Senders, CleanEverything(s) PROVE Shape'
  BY <1>11 DEF CleanEverything, FreeCursors, SentAfterFree
<1>12. ASSUME NEW s \in Senders, PopCursor(s) PROVE Shape'
  <2>1. CASE queue = <<>>
    <3>1. UNCHANGED <<queue, hand, overlap>> /\ spc' = [spc EXCEPT ![s] = "top"]
      BY <1>12, <2>1 DEF PopCursor
    <3>2. QED
      BY <1>12, <3>1 DEF PopCursor
  <2>2. CASE queue # <<>>
    <3>1. Head(queue) \in Frames /\ Tail(queue) \in Seq(Frames)
      BY <2>2, HeadTailProperties
    <3>2. Head(queue) # Null
      BY <3>1, FrameParts
    <3>3. /\ hand' = [hand EXCEPT ![s] = Head(queue)]
          /\ queue' = Tail(queue) /\ spc' = [spc EXCEPT ![s] = "sending"]
          /\ overlap' = (overlap \/ ~connected \/ Others(s) # {})
      BY <1>12, <2>2 DEF PopCursor, Popped
    <3>4. overlap' \in BOOLEAN
      BY <3>3
    <3>5. QED
      BY <1>12, <3>1, <3>2, <3>3, <3>4 DEF PopCursor
  <2>3. QED
    BY <2>1, <2>2
<1>13. ASSUME NEW s \in Senders, SendCursor(s) PROVE Shape'
  <2>1. hand[s] \in Frames
    BY <1>13 DEF SendCursor
  <2>2. Received(hand[s]) \in [form : [Cursor -> Forms \cup {Null}],
                              shows : Cursor \cup {Null}, unknown : BOOLEAN,
                              web : BOOLEAN]
    BY <2>1, FrameParts DEF Received
  <2>3. QED
    BY <1>13, <2>2 DEF SendCursor, HandFreed
<1>14. CASE UNCHANGED vars
  BY <1>14 DEF vars
<1>15. QED
  BY <1>1, <1>2, <1>3, <1>4, <1>5, <1>6, <1>7, <1>8, <1>9, <1>10, <1>11,
     <1>12, <1>13, <1>14
     DEF Next, MainStep, SenderStep, ClientGone, Hangup

-----------------------------------------------------------------------------
(* The other parts of the invariant, action by action.                     *)

(* A step that touches neither what is on the way nor the client.          *)
LEMMA QuietStep ==
  ASSUME Invariant,
         UNCHANGED <<sent, queue, connected, os, main, hand, client, told,
                     early, last, overlap>>,
         Rebuilding' <=> Rebuilding
  PROVE  Order' /\ Stream' /\ Latest' /\ Fit'
<1>1. OnTheWay' = OnTheWay /\ InHand' = InHand
  BY WaySame
<1>2. \A c, n : HasAfter(c, n)' <=> HasAfter(c, n)
  BY <1>1, HasSame
<1>3. Order' /\ Latest'
  BY <1>1 DEF Invariant, Order, Latest
<1>4. Fit'
  BY <1>1 DEF Invariant, Fit, Encoded, Allowed
<1>5. Stream'
  BY <1>1, <1>2 DEF Invariant, Stream, ReferencesResolve, SentListIsExact,
     MarkedOnce, Orderly
<1>6. QED
  BY <1>3, <1>4, <1>5

LEMMA SetCursorStep ==
  ASSUME Invariant, Shape', NEW c \in Cursor, SetCursor(c)
  PROVE  Order' /\ Stream' /\ Latest' /\ Fit'
<1>1. OnTheWay' = OnTheWay /\ InHand' = InHand /\ Rebuilding' = Rebuilding
  BY WaySame DEF SetCursor, Rebuilding
<1>2. \A d, n : HasAfter(d, n)' <=> HasAfter(d, n)
  BY <1>1, HasSame DEF SetCursor
<1>3. Order' /\ Latest'
  BY <1>1 DEF Invariant, Order, Latest, SetCursor
<1>4. CASE c \in sent
  <2>1. main' = [pc |-> "enqueue", frame |-> Reference(c)] /\ early' = early
    BY <1>4 DEF SetCursor, IsCursorSent
  <2>2. ~HasData(main'.frame) /\ main'.frame.cursor = c
    BY <2>1, FrameType DEF Invariant, Shape
  <2>3. Fit'
    BY <1>1, <2>1, <2>2 DEF Invariant, Fit, Encoded, Allowed, SetCursor
  <2>4. Orderly => HasAfter(c, Len(OnTheWay))
    BY <1>4 DEF Invariant, Stream, SentListIsExact, SetCursor
  <2>5. Stream'
    BY <1>1, <1>2, <2>1, <2>2, <2>4
       DEF Invariant, Stream, ReferencesResolve, SentListIsExact, MarkedOnce,
           Orderly, SetCursor
  <2>6. QED
    BY <1>3, <2>3, <2>5
<1>5. CASE c \notin sent
  <2>1. main' = [pc |-> "mark", frame |-> Frame(c, Form(c))]
        /\ early' = (early \/ ~told)
    BY <1>5 DEF SetCursor, IsCursorSent
  <2>2. main'.frame.form = Form(c) /\ main'.frame.cursor = c
    BY <2>1, FrameType DEF Invariant, Shape
  <2>3. c \in Argb => (Form(c) = "png" <=> os = Web)
    BY DEF Form
  <2>4. Fit'
    BY <1>1, <2>1, <2>2, <2>3 DEF Invariant, Fit, Encoded, Allowed, SetCursor
  <2>5. Stream'
    BY <1>1, <1>2, <2>1
       DEF Invariant, Stream, ReferencesResolve, SentListIsExact, MarkedOnce,
           Orderly, SetCursor
  <2>6. QED
    BY <1>3, <2>4, <2>5
<1>6. QED
  BY <1>4, <1>5

LEMMA AddSentStep ==
  ASSUME Invariant, Shape', AddSentCursor
  PROVE  Order' /\ Stream' /\ Latest' /\ Fit'
<1>1. OnTheWay' = OnTheWay /\ InHand' = InHand /\ Rebuilding' = Rebuilding
  BY WaySame DEF AddSentCursor, Rebuilding
<1>2. \A c, n : HasAfter(c, n)' <=> HasAfter(c, n)
  BY <1>1, HasSame DEF AddSentCursor
<1>3. Order' /\ Latest'
  BY <1>1 DEF Invariant, Order, Latest, AddSentCursor
<1>4. main'.frame = main.frame /\ main'.pc = "enqueue" /\ main.pc = "mark"
  BY DEF AddSentCursor, Invariant, Shape, TypeOK
<1>5. HasData(main.frame) /\ main.frame.cursor \notin sent
      /\ main.frame.cursor \in Cursor
  BY <1>4, FrameParts DEF Invariant, Shape, MainShape, TypeOK
<1>6. Fit'
  BY <1>1, <1>4 DEF Invariant, Fit, Encoded, Allowed, AddSentCursor
<1>7. Orderly => ~HasAfter(main.frame.cursor, Len(OnTheWay))
  BY <1>5 DEF Invariant, Stream, SentListIsExact
<1>8. Orderly' <=> Orderly
  BY <1>1 DEF Orderly, AddSentCursor
<1>9. ReferencesResolve' /\ MarkedOnce'
  BY <1>1, <1>2, <1>4, <1>5, <1>7, <1>8
     DEF Invariant, Stream, ReferencesResolve, MarkedOnce, AddSentCursor
<1>10. SentListIsExact'
  BY <1>1, <1>2, <1>4, <1>8
     DEF Invariant, Stream, SentListIsExact, AddSentCursor
<1>11. QED
  BY <1>3, <1>6, <1>9, <1>10 DEF Stream

LEMMA EnqueueStep ==
  ASSUME Invariant, Shape', AddCursorToQueue
  PROVE  Order' /\ Stream' /\ Latest' /\ Fit'
<1> DEFINE f == main.frame
<1>1. f \in Frames /\ main.pc = "enqueue" /\ main' = MainIdle
      /\ main'.pc = "idle" /\ last' = f.cursor
      /\ UNCHANGED <<sent, connected, os, hand, client, told, early, overlap>>
  BY DEF AddCursorToQueue, Invariant, Shape, TypeOK, MainIdle
<1>2. queue' = Append(queue, f)
  BY DEF AddCursorToQueue, Enqueued
<1>3. TypeOK /\ TypeOK'
  BY DEF Invariant, Shape
<1>4. InHand' = InHand /\ Rebuilding' = Rebuilding /\ (Orderly' <=> Orderly)
  BY DEF AddCursorToQueue, InHand, Rebuilding, Orderly
<1> HIDE DEF f
<1>5. Grows(OnTheWay, OnTheWay', f)
  BY <1>1, <1>2, <1>3, WayGrows
<1>6. /\ \A c, n : n \in 0 .. Len(OnTheWay) =>
           (HasAfter(c, n)' <=> HasAfter(c, n))
      /\ \A c : HasAfter(c, Len(OnTheWay))' <=>
           HasAfter(c, Len(OnTheWay)) \/ (f.cursor = c /\ HasData(f))
  BY <1>1, <1>3, <1>5, HasGrown
<1>7. /\ Len(OnTheWay) \in Nat /\ Len(OnTheWay') = Len(OnTheWay) + 1
      /\ (OnTheWay')[Len(OnTheWay) + 1] = f
      /\ \A i \in 1 .. Len(OnTheWay) : (OnTheWay')[i] = OnTheWay[i]
      /\ DOMAIN OnTheWay = 1 .. Len(OnTheWay)
      /\ (DOMAIN OnTheWay)' = 1 .. Len(OnTheWay) + 1
  BY <1>3, <1>5, WayType DEF Grows
<1>8. \A i \in 1 .. Len(OnTheWay) + 1 :
        i \in 1 .. Len(OnTheWay) \/ i = Len(OnTheWay) + 1
  BY <1>7
<1>9. Order'
  BY <1>1, <1>4 DEF Invariant, Order
<1>10. Latest'
  BY <1>1, <1>7 DEF Latest
<1>11. Fit'
  <2>1. Encoded => Encoded'
    <3>1. Encoded /\ HasData(f) => Allowed(f.cursor, f.form)
      BY <1>1 DEF Encoded, f
    <3>2. QED
      BY <3>1, <1>1, <1>7, <1>8 DEF Encoded, Allowed
  <2>2. QED
    BY <2>1, <1>1 DEF Invariant, Fit
<1>12. /\ Orderly /\ ~HasData(f) => HasAfter(f.cursor, Len(OnTheWay))
       /\ Orderly /\ HasData(f) => ~HasAfter(f.cursor, Len(OnTheWay))
  BY <1>1 DEF Invariant, Stream, ReferencesResolve, MarkedOnce, f
<1>13. ReferencesResolve'
  <2>1. ASSUME Orderly, NEW n \in 1 .. Len(OnTheWay) + 1,
               ~HasData((OnTheWay')[n])
        PROVE  HasAfter(OnTheWay[n].cursor, n - 1)'
    <3>1. CASE n = Len(OnTheWay) + 1
      <4>1. n - 1 = Len(OnTheWay) /\ n - 1 \in 0 .. Len(OnTheWay)
        BY <3>1, <1>7
      <4>2. HasAfter(f.cursor, n - 1)
        BY <2>1, <3>1, <4>1, <1>7, <1>12
      <4>3. QED
        BY <4>1, <4>2, <3>1, <1>6, <1>7
    <3>2. CASE n \in 1 .. Len(OnTheWay)
      <4>1. n - 1 \in 0 .. Len(OnTheWay) /\ (OnTheWay')[n] = OnTheWay[n]
        BY <3>2, <1>7
      <4>2. HasAfter(OnTheWay[n].cursor, n - 1)
        BY <2>1, <3>2, <4>1, <1>7 DEF Invariant, Stream, ReferencesResolve
      <4>3. QED
        BY <4>1, <4>2, <1>6
    <3>3. QED
      BY <3>1, <3>2, <1>8
  <2>2. QED
    BY <2>1, <1>1, <1>4, <1>7 DEF Invariant, Stream, ReferencesResolve
<1>14. SentListIsExact'
  <2>1. ASSUME Orderly, NEW n \in 1 .. Len(OnTheWay) + 1,
               HasData((OnTheWay')[n])
        PROVE  ~HasAfter(OnTheWay[n].cursor, n - 1)'
    <3>1. CASE n = Len(OnTheWay) + 1
      <4>1. n - 1 = Len(OnTheWay) /\ n - 1 \in 0 .. Len(OnTheWay)
        BY <3>1, <1>7
      <4>2. ~HasAfter(f.cursor, n - 1)
        BY <2>1, <3>1, <4>1, <1>7, <1>12
      <4>3. QED
        BY <4>1, <4>2, <3>1, <1>6, <1>7
    <3>2. CASE n \in 1 .. Len(OnTheWay)
      <4>1. n - 1 \in 0 .. Len(OnTheWay) /\ (OnTheWay')[n] = OnTheWay[n]
        BY <3>2, <1>7
      <4>2. ~HasAfter(OnTheWay[n].cursor, n - 1)
        BY <2>1, <3>2, <4>1, <1>7 DEF Invariant, Stream, SentListIsExact
      <4>3. QED
        BY <4>1, <4>2, <1>6
    <3>3. QED
      BY <3>1, <3>2, <1>8
  <2>2. ASSUME Orderly, NEW c \in Cursor
        PROVE  c \in sent <=> HasAfter(c, Len(OnTheWay)) \/ f.cursor = c
    BY <2>2, <1>1 DEF Invariant, Stream, SentListIsExact, f
  <2>3. ASSUME Orderly, NEW c \in Cursor
        PROVE  c \in sent <=> HasAfter(c, Len(OnTheWay))'
    BY <2>2, <2>3, <1>6, <1>12
  <2>4. QED
    BY <2>1, <2>3, <1>1, <1>4, <1>7 DEF SentListIsExact
<1>15. MarkedOnce'
  BY <1>1 DEF MarkedOnce
<1>16. QED
  BY <1>9, <1>10, <1>11, <1>13, <1>14, <1>15 DEF Stream

(* A cleanup that overlaps with nothing leaves nothing on the way.         *)
LEMMA Emptied ==
  ASSUME Invariant, Shape', FreeCursors, UNCHANGED <<main, hand>>, ~overlap'
  PROVE  /\ ~overlap /\ InHand = {} /\ InHand' = {} /\ main.pc # "enqueue"
         /\ OnTheWay' = <<>> /\ Len(OnTheWay') = 0 /\ DOMAIN OnTheWay' = {}
         /\ sent' = {} /\ last' = Null
<1>1. ~overlap /\ InHand = {} /\ main.pc # "enqueue"
      /\ sent' = {} /\ queue' = <<>> /\ last' = Null
  BY DEF FreeCursors, SentAfterFree
<1>2. InHand' = {}
  BY <1>1 DEF InHand
<1>3. OnTheWay' = <<>>
  BY <1>1, <1>2 DEF OnTheWay
<1>4. QED
  BY <1>1, <1>2, <1>3

LEMMA DisconnectStep ==
  ASSUME Invariant, Shape', Disconnect
  PROVE  Order' /\ Stream' /\ Latest' /\ Fit'
<1>1. FreeCursors /\ UNCHANGED <<os, rebuilt, main, spc, hand, client>>
      /\ ~connected' /\ ~told' /\ early' = (main.pc = "mark")
  BY DEF Disconnect
<1>2. CASE overlap'
  BY <1>1, <1>2 DEF Order, Stream, ReferencesResolve, SentListIsExact,
     MarkedOnce, Orderly, Latest, Fit
<1>3. CASE ~overlap'
  <2>1. /\ ~overlap /\ InHand = {} /\ InHand' = {} /\ main.pc # "enqueue"
        /\ OnTheWay' = <<>> /\ Len(OnTheWay') = 0 /\ DOMAIN OnTheWay' = {}
        /\ sent' = {} /\ last' = Null
    BY <1>1, <1>3, Emptied
  <2>2. \A c : ~HasAfter(c, Len(OnTheWay))'
    BY <1>1, <2>1 DEF HasAfter
  <2>3. Order' /\ Latest'
    BY <1>1, <1>3, <2>1 DEF Invariant, Order, Latest
  <2>4. Fit'
    <3>1. early' \/ main.pc = "idle"
      BY <1>1, <2>1 DEF Invariant, Shape, TypeOK
    <3>2. QED
      BY <1>1, <2>1, <3>1 DEF Fit, Encoded
  <2>5. Stream'
    BY <1>1, <1>3, <2>1, <2>2
       DEF Invariant, Order, Stream, ReferencesResolve, SentListIsExact,
           MarkedOnce, Orderly
  <2>6. QED
    BY <2>3, <2>4, <2>5
<1>4. QED
  BY <1>2, <1>3

LEMMA CleanStep ==
  ASSUME Invariant, Shape', NEW s \in Senders, CleanEverything(s)
  PROVE  Order' /\ Stream' /\ Latest' /\ Fit'
<1>1. /\ FreeCursors /\ UNCHANGED <<connected, os, rebuilt, main, hand, client, told>>
      /\ early' = (main.pc = "mark" /\ early) /\ Rebuilding
  BY DEF CleanEverything, Rebuilding
<1>2. CASE overlap'
  BY <1>1, <1>2 DEF Invariant, Order, Stream, ReferencesResolve,
     SentListIsExact, MarkedOnce, Orderly, Latest, Fit
<1>3. CASE ~overlap'
  <2>1. /\ ~overlap /\ InHand = {} /\ InHand' = {} /\ main.pc # "enqueue"
        /\ OnTheWay' = <<>> /\ Len(OnTheWay') = 0 /\ DOMAIN OnTheWay' = {}
        /\ sent' = {} /\ last' = Null
    BY <1>1, <1>3, Emptied
  <2>2. connected => \A c \in Cursor : client.form[c] = Null
    BY <1>1, <2>1 DEF Invariant, Order
  <2>3. \A c \in Cursor : ~HasAfter(c, Len(OnTheWay))'
    BY <1>1, <2>1, <2>2 DEF HasAfter
  <2>4. Order' /\ Latest'
    BY <1>1, <1>3, <2>1, <2>2 DEF Invariant, Order, Latest
  <2>5. Fit'
    <3>1. early' \/ main.pc = "idle" \/ (main.pc = "mark" /\ ~early)
      BY <1>1, <2>1 DEF Invariant, Shape, TypeOK
    <3>2. QED
      BY <1>1, <2>1, <2>2, <3>1 DEF Invariant, Fit, Encoded, Allowed
  <2>6. Stream'
    BY <1>1, <1>3, <2>1, <2>3
       DEF Invariant, Order, Stream, ReferencesResolve, SentListIsExact,
           MarkedOnce, Orderly
  <2>7. QED
    BY <2>4, <2>5, <2>6
<1>4. QED
  BY <1>2, <1>3

LEMMA AcceptStep ==
  ASSUME Invariant, Shape', NEW s \in Senders, Accept(s)
  PROVE  Order' /\ Stream' /\ Latest' /\ Fit'
<1>1. /\ main.pc = "idle" /\ ~connected /\ connected'
      /\ client' = NewClient /\ os' = OtherOS
      /\ UNCHANGED <<sent, queue, rebuilt, main, hand, told, early, last, overlap>>
  BY DEF Accept
<1>2. OnTheWay' = OnTheWay /\ InHand' = InHand
  BY <1>1, WaySame
<1>3. /\ \A c \in Cursor : client'.form[c] = Null
      /\ ~client'.unknown /\ client'.web = FALSE
  BY <1>1 DEF NewClient
<1>4. \A c \in Cursor : \A n : HasAfter(c, n)' <=> HasAfter(c, n)
  BY <1>1, <1>2, <1>3 DEF HasAfter
<1>5. Rebuilding' <=> Rebuilding
  BY DEF Accept, Rebuilding, Invariant, Shape, TypeOK
<1>6. Orderly' <=> Orderly
  BY <1>1, <1>5 DEF Orderly
<1>7. Order'
  BY <1>1, <1>2, <1>3, <1>5 DEF Invariant, Order
<1>8. Latest'
  BY <1>1, <1>2, <1>5 DEF Invariant, Latest
<1>9. Fit'
  <2>1. ~told /\ ~told'
    BY <1>1 DEF Invariant, Fit
  <2>2. QED
    BY <1>1, <1>2, <1>3, <2>1 DEF Invariant, Fit, Encoded, Allowed
<1>10. ReferencesResolve' /\ MarkedOnce'
  <2>1. \A n \in DOMAIN OnTheWay : OnTheWay[n].cursor \in Cursor
    BY WayType, FrameParts DEF Invariant, Shape
  <2>2. QED
    BY <1>1, <1>2, <1>3, <1>4, <1>6, <2>1
       DEF Invariant, Stream, ReferencesResolve, MarkedOnce
<1>11. SentListIsExact'
  <2>1. \A n \in DOMAIN OnTheWay : OnTheWay[n].cursor \in Cursor
    BY WayType, FrameParts DEF Invariant, Shape
  <2>2. QED
    BY <1>1, <1>2, <1>4, <1>6, <2>1 DEF Invariant, Stream, SentListIsExact
<1>12. QED
  BY <1>7, <1>8, <1>9, <1>10, <1>11 DEF Stream

LEMMA VersionStep ==
  ASSUME Invariant, Shape', NEW o \in {Web, OtherOS}, ClientVersion(o)
  PROVE  Order' /\ Stream' /\ Latest' /\ Fit'
<1>1. /\ main.pc = "idle" /\ connected /\ ~told /\ os' = o /\ told'
      /\ client' = [client EXCEPT !.web = (o = Web)]
      /\ UNCHANGED <<sent, queue, connected, rebuilt, main, spc, hand, early, last,
                     overlap>>
  BY DEF ClientVersion
<1>2. OnTheWay' = OnTheWay /\ InHand' = InHand /\ Rebuilding' = Rebuilding
      /\ (Orderly' <=> Orderly)
  BY <1>1, WaySame DEF Rebuilding, Orderly
<1>3. /\ client'.form = client.form /\ client'.unknown = client.unknown
      /\ client'.shows = client.shows /\ (client'.web <=> o = Web)
  BY <1>1 DEF Invariant, Shape, TypeOK
<1>4. \A c, n : HasAfter(c, n)' <=> HasAfter(c, n)
  BY <1>1, <1>2, <1>3, HasSame
<1>5. Order' /\ Latest'
  BY <1>1, <1>2, <1>3 DEF Invariant, Order, Latest
<1>6. Fit'
  BY <1>1, <1>2, <1>3 DEF Invariant, Fit, Encoded, Allowed
<1>7. Stream'
  BY <1>1, <1>2, <1>3, <1>4
     DEF Invariant, Stream, ReferencesResolve, SentListIsExact, MarkedOnce
<1>8. QED
  BY <1>5, <1>6, <1>7

LEMMA ReinitStep ==
  ASSUME Invariant, Shape', NEW s \in Senders, SendReinit(s)
  PROVE  Order' /\ Stream' /\ Latest' /\ Fit'
<1>1. /\ client' = [client EXCEPT !.form = NewClient.form, !.shows = Null]
      /\ overlap' = (overlap \/ InHand # {})
      /\ UNCHANGED <<sent, queue, connected, os, rebuilt, main, hand, told,
                     early, last>>
  BY DEF SendReinit
<1>2. Rebuilding'
  BY DEF SendReinit, Goto, Rebuilding, Invariant, Shape, TypeOK
<1>3. OnTheWay' = OnTheWay /\ InHand' = InHand
  BY <1>1, WaySame
<1>4. /\ \A c \in Cursor : client'.form[c] = Null
      /\ client'.unknown = client.unknown /\ client'.web = client.web
  BY <1>1 DEF NewClient, Invariant, Shape, TypeOK
<1>5. Order' /\ Latest'
  BY <1>1, <1>2, <1>3, <1>4 DEF Invariant, Order, Latest
<1>6. Fit'
  BY <1>1, <1>3, <1>4 DEF Invariant, Fit, Encoded, Allowed
<1>7. Stream'
  BY <1>2 DEF Stream, ReferencesResolve, SentListIsExact, MarkedOnce, Orderly
<1>8. QED
  BY <1>5, <1>6, <1>7

LEMMA PopStep ==
  ASSUME Invariant, Shape', NEW s \in Senders, PopCursor(s)
  PROVE  Order' /\ Stream' /\ Latest' /\ Fit'
<1>1. /\ spc[s] = "pop" /\ hand[s] = Null
      /\ UNCHANGED <<sent, connected, os, rebuilt, main, client, told, early,
                     last>>
  BY DEF PopCursor, Invariant, Shape, TypeOK
<1>2. Rebuilding' <=> Rebuilding
  BY <1>1 DEF PopCursor, Goto, Rebuilding, Invariant, Shape, TypeOK
<1>3. CASE queue = <<>>
  <2>1. UNCHANGED <<queue, hand, overlap>>
    BY <1>3 DEF PopCursor
  <2>2. QED
    BY <1>1, <1>2, <2>1, QuietStep
<1>4. CASE queue # <<>> /\ overlap'
  BY <1>1, <1>4 DEF Invariant, Order, Stream, ReferencesResolve,
     SentListIsExact, MarkedOnce, Orderly, Latest, Fit
<1>5. CASE queue # <<>> /\ ~overlap'
  <2>1. /\ hand' = [hand EXCEPT ![s] = Head(queue)]
        /\ queue' = Tail(queue)
        /\ ~overlap /\ connected /\ Others(s) = {}
    BY <1>5 DEF PopCursor, Popped
  <2>2. /\ \A t \in Senders : hand[t] = Null
        /\ InHand = {}
    BY <1>1, <2>1 DEF Others, InHand
  <2>3. ~Rebuilding
    BY <1>1, <2>1 DEF Others, Rebuilding
  <2>4. OnTheWay' = OnTheWay
    BY <1>5, <2>1, <2>2, WayTaken DEF Invariant, Shape
  <2>5. \A c, n : HasAfter(c, n)' <=> HasAfter(c, n)
    BY <1>1, <2>4, HasSame
  <2>6. Order'
    BY <1>1, <1>2, <2>1, <2>2, <2>3 DEF Invariant, Order, Shape, TypeOK
  <2>7. Latest'
    BY <1>1, <1>2, <1>5, <2>1, <2>4 DEF Invariant, Latest
  <2>8. Fit'
    BY <1>1, <1>5, <2>1, <2>4 DEF Invariant, Fit, Encoded, Allowed
  <2>9. Stream'
    BY <1>1, <1>2, <1>5, <2>1, <2>4, <2>5
       DEF Invariant, Stream, ReferencesResolve, SentListIsExact, MarkedOnce,
           Orderly
  <2>10. QED
    BY <2>6, <2>7, <2>8, <2>9
<1>6. QED
  BY <1>3, <1>4, <1>5

LEMMA SendStep ==
  ASSUME Invariant, Shape', NEW s \in Senders, SendCursor(s)
  PROVE  Order' /\ Stream' /\ Latest' /\ Fit'
<1> DEFINE f == hand[s]
<1>1. /\ f \in Frames /\ hand' = [hand EXCEPT ![s] = Null]
      /\ client' = Received(f)
      /\ UNCHANGED <<sent, queue, connected, os, rebuilt, main, told, early,
                     last, overlap>>
  BY DEF SendCursor, HandFreed, Invariant, Shape, TypeOK
<1>2. f # Null /\ f.cursor \in Cursor /\ (HasData(f) => f.form # Null)
  BY <1>1, FrameParts, NullAssumption
<1>3. TypeOK /\ TypeOK' /\ client'.web = client.web
  BY <1>1 DEF Invariant, Shape, TypeOK, Received
<1>4. Rebuilding' <=> Rebuilding
  BY DEF SendCursor, Goto, Rebuilding, Invariant, Shape, TypeOK
<1>5. CASE overlap
  BY <1>1, <1>3, <1>5 DEF Invariant, Order, Stream, ReferencesResolve,
     SentListIsExact, MarkedOnce, Orderly, Latest, Fit
<1>6. CASE ~overlap
  <2>1. f \in InHand /\ connected /\ ~Rebuilding
        /\ \A t \in Senders : t # s => hand[t] = Null
    BY <1>2, <1>6 DEF Invariant, Order, InHand
  <2>2. InHand = {f}
    BY <2>1 DEF InHand
  <2> HIDE DEF f
  <2>3. Shrinks(OnTheWay, OnTheWay', f) /\ InHand' = {}
    BY <1>1, <1>2, <1>3, <2>1, <2>2, WayShrinks DEF f
  <2>4. \A c \in Cursor, n \in 0 .. Len(OnTheWay') :
          HasAfter(c, n)' <=> HasAfter(c, n + 1)
    BY <1>1, <1>3, <2>1, <2>3, HasShrunk
  <2>5. /\ Len(OnTheWay') \in Nat /\ Len(OnTheWay) = Len(OnTheWay') + 1
        /\ OnTheWay[1] = f
        /\ \A i \in 1 .. Len(OnTheWay') : (OnTheWay')[i] = OnTheWay[i + 1]
        /\ DOMAIN OnTheWay = 1 .. Len(OnTheWay)
        /\ (DOMAIN OnTheWay)' = 1 .. Len(OnTheWay')
        /\ \A i \in 1 .. Len(OnTheWay') : (OnTheWay')[i] \in Frames
    BY <1>3, <2>3, WayType DEF Shrinks
  <2>6. /\ 1 \in 1 .. Len(OnTheWay)
        /\ \A i \in 1 .. Len(OnTheWay') :
             /\ i + 1 \in 1 .. Len(OnTheWay) /\ (i + 1) - 1 = (i - 1) + 1
             /\ i - 1 \in 0 .. Len(OnTheWay')
             /\ (OnTheWay')[i].cursor \in Cursor
        /\ Len(OnTheWay') \in 0 .. Len(OnTheWay')
    BY <2>5, FrameParts
  <2>7. Orderly /\ Orderly'
    BY <1>1, <1>4, <1>6, <2>1 DEF Orderly
  <2>8. HasData(f) \/ client.form[f.cursor] # Null
    <3>1. ~HasData(f) => HasAfter(f.cursor, 0)
      <4>1. ~HasData(f) => HasAfter(OnTheWay[1].cursor, 1 - 1)
        BY <2>5, <2>6, <2>7 DEF Invariant, Stream, ReferencesResolve
      <4>2. QED
        BY <4>1, <2>5
    <3>2. QED
      BY <3>1 DEF HasAfter
  <2>9. /\ client'.shows = f.cursor /\ client'.unknown = client.unknown
        /\ \A c \in Cursor :
             client'.form[c] = IF HasData(f) /\ c = f.cursor THEN f.form
                               ELSE client.form[c]
    BY <1>1, <1>2, <1>3, <2>8 DEF Received, TypeOK
  <2>10. Order'
    BY <1>1, <1>4, <1>6, <2>1, <2>3, <2>9 DEF Invariant, Order
  <2>11. Latest'
    <3>1. last = OnTheWay[Len(OnTheWay)].cursor
      BY <1>6, <2>5 DEF Invariant, Latest
    <3>2. CASE Len(OnTheWay') = 0
      BY <3>1, <3>2, <1>1, <2>1, <2>5, <2>9 DEF Latest
    <3>3. CASE Len(OnTheWay') # 0
      <4>1. (OnTheWay')[Len(OnTheWay')] = OnTheWay[Len(OnTheWay)]
        BY <3>3, <2>5
      <4>2. QED
        BY <3>1, <3>3, <4>1, <1>1 DEF Latest
    <3>4. QED
      BY <3>2, <3>3
  <2>12. Fit'
    <3>1. Encoded => Encoded'
      BY <1>1, <2>1, <2>5, <2>6, <2>9 DEF Encoded, Allowed
    <3>2. QED
      BY <3>1, <1>1, <1>3, <1>6 DEF Invariant, Fit
  <2>13. ReferencesResolve'
    <3>1. ASSUME NEW n \in 1 .. Len(OnTheWay'), ~HasData((OnTheWay')[n])
          PROVE  HasAfter(OnTheWay[n].cursor, n - 1)'
      <4>1. HasAfter(OnTheWay[n + 1].cursor, (n + 1) - 1)
        BY <3>1, <2>5, <2>6, <2>7 DEF Invariant, Stream, ReferencesResolve
      <4>2. HasAfter((OnTheWay')[n].cursor, (n - 1) + 1)
        BY <4>1, <2>5, <2>6
      <4>3. QED
        BY <4>2, <2>4, <2>6
    <3>2. ASSUME main.pc = "enqueue", ~HasData(main.frame)
          PROVE  HasAfter(main.frame.cursor, Len(OnTheWay))'
      <4>1. HasAfter(main.frame.cursor, Len(OnTheWay)) /\ main.frame.cursor \in Cursor
        BY <3>2, <2>7, <1>3, FrameParts
           DEF Invariant, Stream, ReferencesResolve, TypeOK
      <4>2. QED
        BY <4>1, <2>4, <2>5, <2>6, <1>1
    <3>3. ~client'.unknown
      BY <2>9, <1>6 DEF Invariant, Order
    <3>4. QED
      BY <3>1, <3>2, <3>3, <1>1, <2>5 DEF ReferencesResolve
  <2>14. SentListIsExact'
    <3>1. ASSUME NEW n \in 1 .. Len(OnTheWay'), HasData((OnTheWay')[n])
          PROVE  ~HasAfter(OnTheWay[n].cursor, n - 1)'
      <4>1. ~HasAfter(OnTheWay[n + 1].cursor, (n + 1) - 1)
        BY <3>1, <2>5, <2>6, <2>7 DEF Invariant, Stream, SentListIsExact
      <4>2. ~HasAfter((OnTheWay')[n].cursor, (n - 1) + 1)
        BY <4>1, <2>5, <2>6
      <4>3. QED
        BY <4>2, <2>4, <2>6
    <3>2. ASSUME NEW c \in Cursor
          PROVE  HasAfter(c, Len(OnTheWay))' <=> HasAfter(c, Len(OnTheWay))
      BY <2>4, <2>5, <2>6
    <3>3. QED
      BY <3>1, <3>2, <1>1, <2>5, <2>7 DEF Invariant, Stream, SentListIsExact
  <2>15. MarkedOnce'
    <3>1. main.pc = "enqueue" => main.frame.cursor \in Cursor
      BY <1>3, FrameParts DEF TypeOK
    <3>2. QED
      BY <3>1, <1>1, <2>4, <2>5, <2>6, <2>7 DEF Invariant, Stream, MarkedOnce
  <2>16. QED
    BY <2>10, <2>11, <2>12, <2>13, <2>14, <2>15 DEF Stream
<1>7. QED
  BY <1>5, <1>6

-----------------------------------------------------------------------------
(* The invariant holds, and the properties follow.                         *)

LEMMA InvariantInit == Init => Invariant
<1> SUFFICES ASSUME Init PROVE Invariant
  OBVIOUS
<1>1. Shape
  BY InitShape
<1>2. InHand = {} /\ ~Rebuilding
  BY DEF Init, InHand, Rebuilding
<1>3. OnTheWay = <<>> /\ Len(OnTheWay) = 0 /\ DOMAIN OnTheWay = {}
  BY <1>2 DEF Init, OnTheWay
<1>4. /\ main.pc = "idle" /\ ~connected /\ ~told /\ ~client.unknown
      /\ sent = {} /\ last = Null /\ ~overlap
      /\ \A s \in Senders : hand[s] = Null
  BY DEF Init, MainIdle, NewClient
<1>5. \A c : ~HasAfter(c, Len(OnTheWay))
  BY <1>3, <1>4 DEF HasAfter
<1>6. Order /\ Latest /\ Fit
  BY <1>2, <1>3, <1>4 DEF Order, Latest, Fit, Encoded
<1>7. Stream
  BY <1>3, <1>4, <1>5
     DEF Stream, ReferencesResolve, SentListIsExact, MarkedOnce
<1>8. QED
  BY <1>1, <1>6, <1>7 DEF Invariant

LEMMA InvariantStep ==
  ASSUME Invariant, [Next]_vars
  PROVE  Invariant'
<1>1. Shape'
  BY ShapeStep DEF Invariant
<1>2. CASE RebuildCaches
  <2>1. Rebuilding' <=> Rebuilding
    BY <1>2 DEF RebuildCaches, Rebuilding
  <2>2. QED
    BY <1>1, <1>2, <2>1, QuietStep DEF RebuildCaches, Invariant
<1>3. ASSUME NEW s \in Senders, CheckConnected(s) PROVE Invariant'
  <2>1. Rebuilding' <=> Rebuilding
    BY <1>3 DEF CheckConnected, Goto, Rebuilding, Invariant, Shape, TypeOK
  <2>2. QED
    BY <1>1, <1>3, <2>1, QuietStep DEF CheckConnected, Invariant
<1>4. ASSUME NEW s \in Senders, TakeRebuild(s) PROVE Invariant'
  <2>1. Rebuilding' <=> Rebuilding
    BY <1>4 DEF TakeRebuild, Goto, Rebuilding, Invariant, Shape, TypeOK
  <2>2. QED
    BY <1>1, <1>4, <2>1, QuietStep DEF TakeRebuild, Invariant
<1>5. CASE UNCHANGED vars
  <2>1. Rebuilding' <=> Rebuilding
    BY <1>5 DEF vars, Rebuilding
  <2>2. QED
    BY <1>1, <1>5, <2>1, QuietStep DEF vars, Invariant
<1>6. CASE \E c \in Cursor : SetCursor(c)
  BY <1>1, <1>6, SetCursorStep DEF Invariant
<1>7. CASE AddSentCursor \/ AddCursorToQueue \/ Disconnect
  BY <1>1, <1>7, AddSentStep, EnqueueStep, DisconnectStep DEF Invariant
<1>8. CASE \E o \in {Web, OtherOS} : ClientVersion(o)
  BY <1>1, <1>8, VersionStep DEF Invariant
<1>9. ASSUME NEW s \in Senders,
             Accept(s) \/ SendReinit(s) \/ CleanEverything(s)
             \/ PopCursor(s) \/ SendCursor(s)
      PROVE  Invariant'
  BY <1>1, <1>9, AcceptStep, ReinitStep, CleanStep, PopStep, SendStep
     DEF Invariant
<1>10. QED
  BY <1>2, <1>3, <1>4, <1>5, <1>6, <1>7, <1>8, <1>9
     DEF Next, MainStep, SenderStep, ClientGone, Hangup

LEMMA InvariantHolds == Spec => []Invariant
<1>1. Init => Invariant
  BY InvariantInit
<1>2. Invariant /\ [Next]_vars => Invariant'
  BY InvariantStep
<1>3. QED
  BY <1>1, <1>2, PTL DEF Spec

(* The main thread has a frame exactly within remote_sendCursor, and a     *)
(* sending thread exactly while it is about to send one.                   *)
THEOREM TypeCorrect == Spec => []TypeOK
<1>1. Invariant => TypeOK
  BY DEF Invariant, Shape
<1>2. QED
  BY <1>1, InvariantHolds, PTL

(* A cursor without data comes after its image (send_cursor,               *)
(* remote_sendCursor).                                                     *)
THEOREM ReferencesCorrect == Spec => []ReferencesResolve
<1>1. Invariant => ReferencesResolve
  BY DEF Invariant, Stream
<1>2. QED
  BY <1>1, InvariantHolds, PTL

(* The list of sent cursors is what the client has or will get, and no     *)
(* image is sent twice (addSentCursor, isCursorSent, freeCursors).         *)
THEOREM SentListCorrect == Spec => []SentListIsExact
<1>1. Invariant => SentListIsExact
  BY DEF Invariant, Stream
<1>2. QED
  BY <1>1, InvariantHolds, PTL

(* When nothing is on the way the client shows the cursor set last         *)
(* (addCursorToQueue and the cursor part of send_frame_thread).            *)
THEOREM LastCorrect == Spec => []LastCursorIsShown
<1>1. Invariant => LastCursorIsShown
  BY DEF Invariant, Latest, LastCursorIsShown, Orderly
<1>2. QED
  BY <1>1, InvariantHolds, PTL

(* Images are in a form the client can draw, if they were encoded after it *)
(* told which one it is (remote_sendCursor, set_client_version).           *)
THEOREM FormsCorrect == Spec => []ImagesFitClient
<1>1. ASSUME Invariant PROVE ImagesFitClient
  <2>1. DOMAIN OnTheWay = 1 .. Len(OnTheWay)
    BY <1>1, WayType DEF Invariant, Shape
  <2>2. QED
    BY <1>1, <2>1 DEF Invariant, Fit, Encoded, Allowed, ImagesFitClient, Orderly
<1>2. QED
  BY <1>1, InvariantHolds, PTL
=============================================================================
