---------------------------- MODULE ScreenProofs ----------------------------
(***************************************************************************)
(* For any sizes, contents and number of requests: the client shows what   *)
(* was drawn once all is sent, what was sent with losses is not forgotten, *)
(* and memory is misused in the known cases only.                          *)
(***************************************************************************)
EXTENDS Screen, FiniteSetTheorems, SequenceTheorems, TLAPS

-----------------------------------------------------------------------------
(* The shape of the state.                                                 *)

Message == [kind : {"frame", "main", "update"}, area : SUBSET AllTiles,
            content : [AllTiles -> Contents]]

Region(t) == [kind |-> "region", area |-> {t}, content |-> <<>>]

ServerShape ==
  /\ compression \in {"images", "video"} /\ shadow \in {"no", "once", "always"}
  /\ width \in Widths /\ regions \in Widths \cup {0}
  /\ drawn \in [AllTiles -> Contents]
  /\ picture \in [AllTiles -> Contents] /\ known \in [AllTiles -> Contents]
  /\ buffers \in {"none", "live", "freed"}
  /\ marked \subseteq 1 .. regions
  /\ encoder \in {"new", "used"}

Flags ==
  /\ damaged \in BOOLEAN /\ rotating \in BOOLEAN
  /\ online \in BOOLEAN /\ initialized \in BOOLEAN
  /\ rebuilt \in BOOLEAN /\ decoding \in BOOLEAN
  /\ switched \in BOOLEAN /\ shrunk \in BOOLEAN
  /\ lost \subseteq AllTiles
  /\ fault \in {"no", "unallocated", "freed twice", "beyond the end"}

Shows == [content : Contents, how : {"exact", "frame", "main", "video"}]

Flow ==
  /\ queue \in Seq(Message)
  /\ painting \in Seq(SUBSET Tiles)
  /\ thread \in {"none", "idle", "send"}
  /\ thread = "send" =>
       hand \in Message \/ \E t \in AllTiles : hand = Region(t)
  /\ thread # "send" => hand = Nothing

Shape == ServerShape /\ Flags /\ client \in [AllTiles -> Shows] /\ Flow

(* The largest screen holds every other.                                   *)
LEMMA Sizes ==
  /\ MaxWidth \in Widths /\ MaxWidth \in Nat
  /\ \A w \in Widths : w \in Nat /\ w # 0 /\ 1 .. w \subseteq AllTiles
<1>1. \E w \in Widths : \A x \in Widths : x <= w
  BY ScreenAssumption
<1>2. MaxWidth \in Widths /\ \A x \in Widths : x <= MaxWidth
  BY <1>1 DEF MaxWidth
<1>3. QED
  BY <1>2, ScreenAssumption DEF AllTiles

(* The parts of a sequence whose head is taken.                            *)
LEMMA SequenceTaken ==
  ASSUME NEW S, NEW q \in Seq(S), q # <<>>
  PROVE  /\ Head(q) \in S /\ Tail(q) \in Seq(S)
         /\ 1 \in DOMAIN q /\ q[1] = Head(q)
         /\ \A i \in DOMAIN Tail(q) :
              i \in Nat /\ i + 1 \in DOMAIN q /\ Tail(q)[i] = q[i + 1]
         /\ \A i \in DOMAIN q : i # 1 =>
              i - 1 \in DOMAIN Tail(q) /\ Tail(q)[i - 1] = q[i]
  BY HeadTailProperties

(* The parts of a sequence that something is added to.                     *)
LEMMA SequenceExtended ==
  ASSUME NEW S, NEW q \in Seq(S), NEW e \in S
  PROVE  /\ Append(q, e) \in Seq(S)
         /\ Len(q) + 1 \in DOMAIN Append(q, e)
         /\ Append(q, e)[Len(q) + 1] = e
         /\ \A i \in DOMAIN q : /\ i \in Nat /\ i < Len(q) + 1
                               /\ i \in DOMAIN Append(q, e)
                               /\ Append(q, e)[i] = q[i]
         /\ \A i \in DOMAIN Append(q, e) : i = Len(q) + 1 \/ i \in DOMAIN q
  BY AppendProperties

(* The changes are painted in areas of the screen that cover them.         *)
LEMMA DivisionsCover ==
  ASSUME Shape, NEW s \in Divisions
  PROVE  /\ s \in Seq(SUBSET Tiles)
         /\ \A t \in Changed : \E i \in DOMAIN s : t \in s[i]
<1>1. Changed \subseteq Tiles
  BY DEF Changed
<1>2. IsFiniteSet(Changed) /\ Cardinality(Changed) \in Nat
  <2>1. width \in Nat
    BY Sizes DEF Shape, ServerShape
  <2>2. IsFiniteSet(Tiles)
    BY <2>1, FS_Interval DEF Tiles
  <2>3. QED
    BY <1>1, <2>2, FS_Subset, FS_CardinalityType
<1>3. CASE Changed = {}
  BY <1>3 DEF Divisions
<1>4. CASE Changed # {} /\ s = <<Changed>>
  BY <1>1, <1>4
<1>5. CASE /\ s \in [1 .. Cardinality(Changed) -> {{t} : t \in Changed}]
           /\ \A t \in Changed : \E i \in DOMAIN s : s[i] = {t}
  <2>1. {{t} : t \in Changed} \subseteq SUBSET Tiles
    BY <1>1
  <2>2. s \in [1 .. Cardinality(Changed) -> SUBSET Tiles]
    BY <1>5, <2>1
  <2>3. s \in Seq(SUBSET Tiles)
    BY <1>2, <2>2
  <2>4. \A t \in Changed : \E i \in DOMAIN s : t \in s[i]
    BY <1>5
  <2>5. QED
    BY <2>3, <2>4
<1>6. QED
  BY <1>3, <1>4, <1>5 DEF Divisions

(* What is queued.                                                         *)
LEMMA ElementsAreMessages ==
  ASSUME queue \in Seq(Message)
  PROVE  /\ \A i \in DOMAIN queue : queue[i] \in Message
         /\ Elements \subseteq Message
<1>1. \A i \in 1 .. Len(queue) : queue[i] \in Message
  BY ElementOfSeq
<1>2. DOMAIN queue = 1 .. Len(queue)
  OBVIOUS
<1>3. QED
  BY <1>1, <1>2 DEF Elements

(* Of two rows of tiles the longer holds the other.                        *)
LEMMA Wider ==
  ASSUME NEW a \in Nat, NEW b \in Nat
  PROVE  a < b \/ 1 .. b \subseteq 1 .. a
  OBVIOUS

(* What the queue becomes when something is added or taken.                *)
LEMMA QueueExtended ==
  ASSUME queue \in Seq(Message), NEW e, e \in Message,
         queue' = Append(queue, e)
  PROVE  /\ Len(queue) + 1 \in DOMAIN queue' /\ queue'[Len(queue) + 1] = e
         /\ \A i \in DOMAIN queue :
              /\ i \in Nat /\ i < Len(queue) + 1
              /\ i \in DOMAIN queue' /\ queue'[i] = queue[i]
         /\ \A i \in DOMAIN queue' :
              \/ i = Len(queue) + 1
              \/ i \in DOMAIN queue /\ queue'[i] = queue[i]
  BY SequenceExtended

(* Likewise when its head is taken.                                        *)
LEMMA QueueTaken ==
  ASSUME queue \in Seq(Message), queue # <<>>, queue' = Tail(queue)
  PROVE  /\ Head(queue) \in Message
         /\ 1 \in DOMAIN queue /\ queue[1] = Head(queue)
         /\ \A i \in DOMAIN queue' :
              i \in Nat /\ i + 1 \in DOMAIN queue /\ queue'[i] = queue[i + 1]
         /\ \A i \in DOMAIN queue : i # 1 =>
              i - 1 \in DOMAIN queue' /\ queue'[i - 1] = queue[i]
  BY SequenceTaken

(* What remote_screen_init sets keeps its type.                            *)
LEMMA ServerStep ==
  ASSUME ServerShape, [Next]_vars
  PROVE  ServerShape'
<1> USE Sizes, ScreenAssumption
    DEF ServerShape, Tiles, MainFree, Idle, Request, work, server,
        history, status, shown, screen
<1>1. ASSUME NEW t \in AllTiles, NEW c \in Contents, Draw(t, c)
      PROVE ServerShape'
  BY <1>1 DEF Draw
<1>2. CASE PaintRect
  BY <1>2 DEF PaintRect, Fault
<1>3. CASE AddFrame
  BY <1>3 DEF AddFrame, Add, Enqueued
<1>4. CASE EncodeMainImg
  BY <1>4 DEF EncodeMainImg
<1>5. CASE Connect
  BY <1>5 DEF Connect
<1>6. CASE Disconnect
  BY <1>6 DEF Disconnect
<1>7. ASSUME NEW w \in Widths, Geometry(w) PROVE ServerShape'
  BY <1>7 DEF Geometry, Needed, Enqueued, Freed, Marks
<1>8. ASSUME NEW area \in SUBSET AllTiles, Update(area) PROVE ServerShape'
  BY <1>8 DEF Update, Add, Enqueued
<1>9. CASE RebuildCaches
  BY <1>9 DEF RebuildCaches
<1>10. CASE Exit
  BY <1>10 DEF Exit
<1>11. CASE Rebuild
  BY <1>11 DEF Rebuild
<1>12. CASE TakeElement
  BY <1>12 DEF TakeElement, Fault
<1>13. CASE Send
  BY <1>13 DEF Send, Fault
<1>14. ASSUME NEW t \in AllTiles, TakeRegion(t) PROVE ServerShape'
  BY <1>14 DEF TakeRegion, Unmark
<1>15. CASE UNCHANGED vars
  BY <1>15 DEF vars
<1>16. ASSUME NEW t \in AllTiles, Rotate(t) PROVE ServerShape'
  BY <1>16 DEF Rotate
<1>17. QED
  BY <1>1, <1>2, <1>3, <1>4, <1>5, <1>6, <1>7, <1>8, <1>9, <1>10, <1>11,
     <1>12, <1>13, <1>14, <1>15, <1>16 DEF Next, SenderNext

(* The flags and the histories keep theirs.                                *)
LEMMA FlagsStep ==
  ASSUME Shape, [Next]_vars
  PROVE  Flags'
<1> USE Sizes, ScreenAssumption
    DEF Shape, Flags, ServerShape, Tiles, MainFree, Idle, Request, work,
        server, history, status, shown, screen
<1>1. ASSUME NEW t \in AllTiles, NEW c \in Contents, Draw(t, c) PROVE Flags'
  BY <1>1 DEF Draw
<1>2. CASE PaintRect
  BY <1>2 DEF PaintRect, Fault
<1>3. CASE AddFrame
  <2>1. Head(painting) \subseteq AllTiles
    BY <1>3, SequenceTaken DEF AddFrame, Flow
  <2>2. QED
    BY <1>3, <2>1 DEF AddFrame, Add, Enqueued
<1>4. CASE EncodeMainImg
  BY <1>4 DEF EncodeMainImg
<1>5. CASE Connect
  BY <1>5 DEF Connect
<1>6. CASE Disconnect
  BY <1>6 DEF Disconnect
<1>7. ASSUME NEW w \in Widths, Geometry(w) PROVE Flags'
  BY <1>7 DEF Geometry, Needed, Enqueued, Freed, Marks
<1>8. ASSUME NEW area \in SUBSET AllTiles, Update(area) PROVE Flags'
  BY <1>8 DEF Update, Add, Enqueued
<1>9. CASE RebuildCaches
  BY <1>9 DEF RebuildCaches
<1>10. CASE Exit
  BY <1>10 DEF Exit
<1>11. CASE Rebuild
  <2>2. \A e \in Elements : e.area \subseteq AllTiles
    BY ElementsAreMessages DEF Message, Flow
  <2>3. ASSUME NEW x \in UNION {e.area : e \in Elements} PROVE x \in AllTiles
    <3>1. PICK e \in Elements : x \in e.area
      OBVIOUS
    <3>2. QED
      BY <2>2, <3>1
  <2>4. lost' = lost \cup UNION {e.area : e \in Elements}
    BY <1>11 DEF Rebuild
  <2>5. lost' \subseteq AllTiles
    BY <2>3, <2>4
  <2>6. QED
    BY <1>11, <2>5 DEF Rebuild
<1>12. CASE TakeElement
  BY <1>12 DEF TakeElement, Fault
<1>13. CASE Send
  BY <1>13 DEF Send, Fault
<1>14. ASSUME NEW t \in AllTiles, TakeRegion(t) PROVE Flags'
  BY <1>14 DEF TakeRegion, Unmark
<1>15. CASE UNCHANGED vars
  BY <1>15 DEF vars
<1>16. ASSUME NEW t \in AllTiles, Rotate(t) PROVE Flags'
  BY <1>16 DEF Rotate
<1>17. QED
  BY <1>1, <1>2, <1>3, <1>4, <1>5, <1>6, <1>7, <1>8, <1>9, <1>10, <1>11,
     <1>12, <1>13, <1>14, <1>15, <1>16 DEF Next, SenderNext

(* The client shows contents only.                                         *)
LEMMA ClientStep ==
  ASSUME Shape, [Next]_vars
  PROVE  (client \in [AllTiles -> Shows])'
<1> USE Sizes, ScreenAssumption
    DEF Shape, ServerShape, Tiles, MainFree, Idle, Request, work, server,
        history, status, shown, screen
<1>1. ASSUME NEW t \in AllTiles, NEW c \in Contents, Draw(t, c)
      PROVE (client \in [AllTiles -> Shows])'
  BY <1>1 DEF Draw
<1>2. CASE PaintRect
  BY <1>2 DEF PaintRect, Fault
<1>3. CASE AddFrame
  BY <1>3 DEF AddFrame, Add, Enqueued
<1>4. CASE EncodeMainImg
  BY <1>4 DEF EncodeMainImg, Shows
<1>5. CASE Connect
  BY <1>5 DEF Connect, Shows
<1>6. CASE Disconnect
  BY <1>6 DEF Disconnect
<1>7. ASSUME NEW w \in Widths, Geometry(w)
      PROVE (client \in [AllTiles -> Shows])'
  BY <1>7 DEF Geometry, Needed, Enqueued, Freed, Marks
<1>8. ASSUME NEW area \in SUBSET AllTiles, Update(area)
      PROVE (client \in [AllTiles -> Shows])'
  BY <1>8 DEF Update, Add, Enqueued
<1>9. CASE RebuildCaches
  BY <1>9 DEF RebuildCaches
<1>10. CASE Exit
  BY <1>10 DEF Exit
<1>11. CASE Rebuild
  BY <1>11 DEF Rebuild
<1>12. CASE TakeElement
  BY <1>12 DEF TakeElement, Fault
<1>13. CASE Send
  <2>1. CASE Fault("beyond the end")
    BY <2>1 DEF Fault
  <2>2. CASE client' = client
    BY <2>2
  <2>3. CASE client' = [t \in AllTiles |->
                         IF t \in AreaSent(hand)
                         THEN [content |-> Content(hand)[t],
                               how |-> How(hand)]
                         ELSE client[t]]
    <3>1. ASSUME NEW t \in AllTiles PROVE Content(hand)[t] \in Contents
      <4>1. CASE hand.kind = "frame"
        <5>1. hand \in Message
          BY <1>13, <4>1 DEF Send, Flow, Region
        <5>2. QED
          BY <4>1, <5>1 DEF Content, Message
      <4>2. CASE hand.kind # "frame"
        BY <4>2 DEF Content
      <4>3. QED
        BY <4>1, <4>2
    <3>2. How(hand) \in {"exact", "frame", "main"}
      BY DEF How
    <3>3. QED
      BY <2>3, <3>1, <3>2 DEF Shows
  <2>4. QED
    BY <1>13, <2>1, <2>2, <2>3 DEF Send
<1>14. ASSUME NEW t \in AllTiles, TakeRegion(t)
      PROVE (client \in [AllTiles -> Shows])'
  BY <1>14 DEF TakeRegion, Unmark
<1>15. CASE UNCHANGED vars
  BY <1>15 DEF vars
<1>16. ASSUME NEW t \in AllTiles, Rotate(t)
       PROVE (client \in [AllTiles -> Shows])'
  BY <1>16 DEF Rotate
<1>17. QED
  BY <1>1, <1>2, <1>3, <1>4, <1>5, <1>6, <1>7, <1>8, <1>9, <1>10, <1>11,
     <1>12, <1>13, <1>14, <1>15, <1>16 DEF Next, SenderNext

(* Only messages are queued and sent, and areas of the screen painted.     *)
LEMMA FlowStep ==
  ASSUME Shape, [Next]_vars
  PROVE  Flow'
<1> USE Sizes, ScreenAssumption
    DEF Shape, Flow, ServerShape, Tiles, MainFree, Idle, Request, work, server,
        history, status, shown, screen
<1>1. ASSUME NEW t \in AllTiles, NEW c \in Contents, Draw(t, c) PROVE Flow'
  BY <1>1 DEF Draw
<1>2. CASE PaintRect
  <2>1. CASE Fault("unallocated")
    BY <2>1 DEF Fault
  <2>2. CASE /\ painting' \in Divisions
             /\ UNCHANGED <<width, queue, thread, hand>>
    BY <2>2, DivisionsCover
  <2>3. QED
    BY <1>2, <2>1, <2>2 DEF PaintRect
<1>3. CASE AddFrame
  <2> DEFINE e == [kind |-> "frame", area |-> Head(painting),
                   content |-> picture]
  <2>1. Head(painting) \subseteq Tiles /\ Tail(painting) \in Seq(SUBSET Tiles)
    BY <1>3, SequenceTaken DEF AddFrame
  <2>2. e \in Message
    BY <2>1 DEF Message
  <2>3. Append(queue, e) \in Seq(Message)
    BY <2>2, SequenceExtended
  <2>4. QED
    BY <1>3, <2>1, <2>3 DEF AddFrame, Add, Enqueued
<1>4. CASE EncodeMainImg
  BY <1>4 DEF EncodeMainImg
<1>5. CASE Connect
  BY <1>5 DEF Connect
<1>6. CASE Disconnect
  BY <1>6 DEF Disconnect
<1>7. ASSUME NEW w \in Widths, Geometry(w) PROVE Flow'
  <2> DEFINE e == [kind |-> "main", area |-> 1 .. w, content |-> picture']
  <2>1. picture' \in [AllTiles -> Contents]
    BY ServerStep DEF ServerShape
  <2>2. e \in Message
    BY <2>1 DEF Message
  <2>3. Append(queue, e) \in Seq(Message)
    BY <2>2, SequenceExtended
  <2>4. UNCHANGED <<painting, thread, hand>> /\ painting = <<>>
    BY <1>7 DEF Geometry, Needed, Enqueued
  <2>5. queue' = queue \/ queue' = Append(queue, e)
    BY <1>7 DEF Geometry, Needed, Enqueued
  <2>6. QED
    BY <2>3, <2>4, <2>5
<1>8. ASSUME NEW area \in SUBSET AllTiles, Update(area) PROVE Flow'
  <2> DEFINE e == [kind |-> "update", area |-> area, content |-> picture]
  <2>1. e \in Message
    BY DEF Message
  <2>2. Append(queue, e) \in Seq(Message)
    BY <2>1, SequenceExtended
  <2>3. QED
    BY <1>8, <2>2 DEF Update, Add, Enqueued
<1>9. CASE RebuildCaches
  BY <1>9 DEF RebuildCaches
<1>10. CASE Exit
  BY <1>10 DEF Exit
<1>11. CASE Rebuild
  BY <1>11 DEF Rebuild
<1>12. CASE TakeElement
  <2>1. CASE Fault("beyond the end")
    BY <2>1 DEF Fault
  <2>2. CASE ~Fault("beyond the end")
    <3>1. Head(queue) \in Message /\ Tail(queue) \in Seq(Message)
      BY <1>12, SequenceTaken DEF TakeElement
    <3>2. QED
      BY <1>12, <2>2, <3>1 DEF TakeElement
  <2>3. QED
    BY <2>1, <2>2
<1>13. CASE Send
  BY <1>13 DEF Send, Fault
<1>14. ASSUME NEW t \in AllTiles, TakeRegion(t) PROVE Flow'
  BY <1>14 DEF TakeRegion, Region
<1>15. CASE UNCHANGED vars
  BY <1>15 DEF vars
<1>16. ASSUME NEW t \in AllTiles, Rotate(t) PROVE Flow'
  BY <1>16 DEF Rotate
<1>17. QED
  BY <1>1, <1>2, <1>3, <1>4, <1>5, <1>6, <1>7, <1>8, <1>9, <1>10, <1>11,
     <1>12, <1>13, <1>14, <1>15, <1>16 DEF Next, SenderNext

(* The state has its shape at first.                                       *)
LEMMA ShapeInit ==
  ASSUME Init
  PROVE  Shape
<1> USE Sizes, ScreenAssumption
<1>1. ServerShape
  BY DEF Init, ServerShape
<1>2. Flags
  BY DEF Init, Flags
<1>3. client \in [AllTiles -> Shows]
  BY DEF Init, Shows
<1>4. Flow
  BY DEF Init, Flow
<1>5. QED
  BY <1>1, <1>2, <1>3, <1>4 DEF Shape

(* The state has its type, and every element its area within the screens.  *)
LEMMA ShapeStep ==
  ASSUME Shape, [Next]_vars
  PROVE  Shape'
  BY ServerStep, FlagsStep, ClientStep, FlowStep DEF Shape

-----------------------------------------------------------------------------
(* The misuse of memory.                                                   *)

(* Unless the screen shrank, whatever is to be sent lies on it.            *)
Fits == ~shrunk => /\ \A i \in DOMAIN queue : queue[i].area \subseteq Tiles
                   /\ hand.area \subseteq Tiles

(* What the state of the buffers depends on.                               *)
Buffers ==
  /\ compression = "images" => buffers = "live" /\ regions = width
  /\ compression = "video" /\ buffers # "none" => switched
  /\ thread # "none" => compression = "images"

(* Buffers for images exist unless the compression changed.                *)
LEMMA BuffersStep ==
  ASSUME Shape, Buffers, [Next]_vars
  PROVE  Buffers'
<1> USE DEF Shape, ServerShape, Flags, Buffers, MainFree, Idle,
        Request, work, server, history, status, shown, screen, Tiles
<1>1. ASSUME NEW t \in AllTiles, NEW c \in Contents, Draw(t, c) PROVE Buffers'
  BY <1>1 DEF Draw
<1>2. CASE PaintRect
  <2>1. UNCHANGED <<compression, buffers, regions, width, switched, thread>>
    BY <1>2 DEF PaintRect, Fault
  <2>2. QED
    BY <2>1
<1>3. CASE AddFrame
  BY <1>3 DEF AddFrame, Add, Enqueued
<1>4. CASE EncodeMainImg
  BY <1>4 DEF EncodeMainImg
<1>5. CASE Connect
  BY <1>5 DEF Connect
<1>6. CASE Disconnect
  BY <1>6 DEF Disconnect
<1>7. ASSUME NEW w \in Widths, Geometry(w) PROVE Buffers'
  BY <1>7 DEF Geometry, Needed, Enqueued, Freed, Marks
<1>8. ASSUME NEW area \in SUBSET AllTiles, Update(area) PROVE Buffers'
  BY <1>8 DEF Update, Add, Enqueued
<1>9. CASE RebuildCaches
  BY <1>9 DEF RebuildCaches
<1>10. CASE Exit
  BY <1>10 DEF Exit
<1>11. CASE Rebuild
  BY <1>11 DEF Rebuild
<1>12. CASE TakeElement
  BY <1>12 DEF TakeElement, Fault
<1>13. CASE Send
  BY <1>13 DEF Send, Fault
<1>14. ASSUME NEW t \in AllTiles, TakeRegion(t) PROVE Buffers'
  BY <1>14 DEF TakeRegion, Unmark
<1>15. CASE UNCHANGED vars
  BY <1>15 DEF vars
<1>16. ASSUME NEW t \in AllTiles, Rotate(t) PROVE Buffers'
  BY <1>16 DEF Rotate
<1>17. QED
  BY <1>1, <1>2, <1>3, <1>4, <1>5, <1>6, <1>7, <1>8, <1>9, <1>10, <1>11,
     <1>12, <1>13, <1>14, <1>15, <1>16 DEF Next, SenderNext

(* What is queued or sent lies on a screen that did not shrink.            *)
LEMMA FitsStep ==
  ASSUME Shape, Buffers, Fits, [Next]_vars
  PROVE  Fits'
<1> USE DEF Shape, ServerShape, Flags, Fits, MainFree, Idle,
        Request, work, server, history, status, shown, screen, Tiles
<1>1. ASSUME NEW t \in AllTiles, NEW c \in Contents, Draw(t, c) PROVE Fits'
  BY <1>1 DEF Draw
<1>2. CASE PaintRect
  <2>1. UNCHANGED <<queue, hand, shrunk, width>>
    BY <1>2 DEF PaintRect, Fault
  <2>2. QED
    BY <2>1
<1>3. CASE AddFrame
  <2> DEFINE e == [kind |-> "frame", area |-> Head(painting),
                   content |-> picture]
  <2>1. e \in Message /\ e.area \subseteq Tiles
    BY <1>3, SequenceTaken, Sizes DEF AddFrame, Flow, Message
  <2>2. queue' = queue \/ queue' = Append(queue, e)
    BY <1>3 DEF AddFrame, Add, Enqueued
  <2>3. UNCHANGED <<width, shrunk, hand>>
    BY <1>3 DEF AddFrame, Add, Enqueued
  <2> HIDE DEF e
  <2>4. CASE queue' = queue
    BY <2>3, <2>4
  <2>5. CASE queue' = Append(queue, e)
    <3>1. \A i \in DOMAIN queue' :
            \/ queue'[i] = e
            \/ (i \in DOMAIN queue /\ queue'[i] = queue[i])
      BY <2>1, <2>5, QueueExtended DEF Flow
    <3>2. QED
      BY <2>1, <2>3, <3>1
  <2>6. QED
    BY <2>2, <2>4, <2>5
<1>4. CASE EncodeMainImg
  BY <1>4 DEF EncodeMainImg
<1>5. CASE Connect
  BY <1>5 DEF Connect
<1>6. CASE Disconnect
  BY <1>6 DEF Disconnect
<1>7. ASSUME NEW w \in Widths, Geometry(w) PROVE Fits'
  <2> DEFINE e == [kind |-> "main", area |-> 1 .. w, content |-> picture']
  <2>1. CASE UNCHANGED <<queue, hand, shrunk, width>>
    BY <2>1
  <2>2. CASE /\ width' = w /\ hand' = hand
             /\ shrunk' = (shrunk \/ (w < width /\ InFlight # {}))
             /\ queue' = queue \/ queue' = Append(queue, e)
    <3>1. e \in Message
      <4>1. picture' \in [AllTiles -> Contents]
        BY ServerStep
      <4>2. QED
        BY <4>1, Sizes DEF Message
    <3>1a. e.area = 1 .. w
      OBVIOUS
    <3>1b. w \in Nat /\ width \in Nat
      BY Sizes
    <3> HIDE DEF e
    <3>2. ASSUME ~shrunk' PROVE ~shrunk /\ (w < width => InFlight = {})
      BY <2>2, <3>2
    <3>3. CASE w < width /\ ~shrunk'
      <4>1. InFlight = {}
        BY <3>2, <3>3
      <4>2. /\ thread # "send"
            /\ \A i \in DOMAIN queue : FALSE
        <5>1. thread = "send" => hand \in InFlight
          BY DEF InFlight
        <5>2. \A i \in DOMAIN queue : queue[i] \in InFlight
          BY DEF InFlight, Elements
        <5>3. QED
          BY <4>1, <5>1, <5>2
      <4>3. hand = Nothing
        BY <4>2 DEF Flow
      <4>4. hand.area = {} /\ \A i \in DOMAIN queue' : queue'[i] = e
        BY <2>2, <3>1, <4>2, <4>3, QueueExtended DEF Flow, Nothing
      <4>5. QED
        BY <2>2, <3>1a, <4>4
    <3>4. CASE 1 .. width \subseteq 1 .. w /\ ~shrunk'
      <4>2. \A i \in DOMAIN queue' :
              \/ queue'[i] = e
              \/ (i \in DOMAIN queue /\ queue'[i] = queue[i])
        BY <2>2, <3>1, QueueExtended DEF Flow
      <4>3. QED
        BY <2>2, <3>1a, <3>2, <3>4, <4>2
    <3>5. CASE shrunk'
      BY <3>5
    <3>6. QED
      BY <3>1b, <3>3, <3>4, <3>5, Wider
  <2>3. QED
    BY <1>7, <2>1, <2>2 DEF Geometry, Needed, Enqueued
<1>8. ASSUME NEW area \in SUBSET AllTiles, Update(area) PROVE Fits'
  <2> DEFINE e == [kind |-> "update", area |-> area,
                   content |-> picture]
  <2>1. e \in Message /\ e.area \subseteq Tiles
    BY <1>8, Sizes DEF Update, Flow, Message
  <2>2. queue' = queue \/ queue' = Append(queue, e)
    BY <1>8 DEF Update, Add, Enqueued
  <2>3. UNCHANGED <<width, shrunk, hand>>
    BY <1>8 DEF Update, Add, Enqueued
  <2> HIDE DEF e
  <2>4. CASE queue' = queue
    BY <2>3, <2>4
  <2>5. CASE queue' = Append(queue, e)
    <3>1. \A i \in DOMAIN queue' :
            \/ queue'[i] = e
            \/ (i \in DOMAIN queue /\ queue'[i] = queue[i])
      BY <2>1, <2>5, QueueExtended DEF Flow
    <3>2. QED
      BY <2>1, <2>3, <3>1
  <2>6. QED
    BY <2>2, <2>4, <2>5
<1>9. CASE RebuildCaches
  BY <1>9 DEF RebuildCaches
<1>10. CASE Exit
  BY <1>10 DEF Exit
<1>11. CASE Rebuild
  BY <1>11 DEF Rebuild
<1>12. CASE TakeElement
  <2>1. CASE Fault("beyond the end")
    BY <2>1 DEF Fault
  <2>2. CASE /\ queue # <<>> /\ hand' = Head(queue) /\ queue' = Tail(queue)
             /\ UNCHANGED <<shrunk, width>>
    BY <2>2, QueueTaken DEF Flow
  <2>3. QED
    BY <1>12, <2>1, <2>2 DEF TakeElement
<1>13. CASE Send
  <2>1. CASE Fault("beyond the end")
    BY <2>1 DEF Fault
  <2>2. CASE hand' = Nothing /\ UNCHANGED <<queue, shrunk, width>>
    BY <2>2 DEF Nothing
  <2>3. QED
    BY <1>13, <2>1, <2>2 DEF Send
<1>14. ASSUME NEW t \in AllTiles, TakeRegion(t) PROVE Fits'
  <2>1. hand' = Region(t) /\ t \in marked /\ compression = "images"
    BY <1>14 DEF TakeRegion, Region, Buffers
  <2>2. t \in Tiles
    BY <2>1 DEF Buffers
  <2>3. QED
    BY <1>14, <2>1, <2>2 DEF TakeRegion, Region
<1>15. CASE UNCHANGED vars
  BY <1>15 DEF vars
<1>16. ASSUME NEW t \in AllTiles, Rotate(t) PROVE Fits'
  BY <1>16 DEF Rotate
<1>17. QED
  BY <1>1, <1>2, <1>3, <1>4, <1>5, <1>6, <1>7, <1>8, <1>9, <1>10, <1>11,
     <1>12, <1>13, <1>14, <1>15, <1>16 DEF Next, SenderNext

(* Memory is misused in the known cases only.                              *)
LEMMA FaultsStep ==
  ASSUME Shape, Buffers, Fits, FaultsAreKnown, [Next]_vars
  PROVE  FaultsAreKnown'
<1> USE DEF Shape, ServerShape, Flags, FaultsAreKnown, MainFree, Idle,
        Request, work, server, history, status, shown, screen, Tiles, Rotated
<1>1. ASSUME NEW t \in AllTiles, NEW c \in Contents, Draw(t, c)
      PROVE FaultsAreKnown'
  BY <1>1 DEF Draw
<1>2. CASE PaintRect
  BY <1>2 DEF PaintRect, Fault, Buffers
<1>3. CASE AddFrame
  BY <1>3 DEF AddFrame, Add, Enqueued
<1>4. CASE EncodeMainImg
  BY <1>4 DEF EncodeMainImg
<1>5. CASE Connect
  BY <1>5 DEF Connect
<1>6. CASE Disconnect
  BY <1>6 DEF Disconnect
<1>7. ASSUME NEW w \in Widths, Geometry(w) PROVE FaultsAreKnown'
  BY <1>7 DEF Geometry, Needed, Enqueued, Buffers
<1>8. ASSUME NEW area \in SUBSET AllTiles, Update(area) PROVE FaultsAreKnown'
  BY <1>8 DEF Update, Add, Enqueued
<1>9. CASE RebuildCaches
  BY <1>9 DEF RebuildCaches
<1>10. CASE Exit
  BY <1>10 DEF Exit
<1>11. CASE Rebuild
  BY <1>11 DEF Rebuild
<1>12. CASE TakeElement
  <2>1. CASE ~(MarkedBy(Head(queue)) \subseteq 1 .. regions)
    <3>1. Head(queue) = queue[1] /\ 1 \in DOMAIN queue
      BY <1>12, SequenceTaken DEF TakeElement, Flow
    <3>2. shrunk
      BY <1>12, <2>1, <3>1 DEF TakeElement, MarkedBy, Buffers, Fits
    <3>3. QED
      BY <1>12, <2>1, <3>2 DEF TakeElement, Fault
  <2>2. CASE MarkedBy(Head(queue)) \subseteq 1 .. regions
    BY <1>12, <2>2 DEF TakeElement
  <2>3. QED
    BY <2>1, <2>2
<1>13. CASE Send
  <2>1. CASE ~(AreaSent(hand) \subseteq Tiles)
    <3>1. shrunk
      BY <2>1 DEF AreaSent, Fits
    <3>2. QED
      BY <1>13, <2>1, <3>1 DEF Send, Fault
  <2>2. CASE AreaSent(hand) \subseteq Tiles
    BY <1>13, <2>2 DEF Send
  <2>3. QED
    BY <2>1, <2>2
<1>14. ASSUME NEW t \in AllTiles, TakeRegion(t) PROVE FaultsAreKnown'
  BY <1>14 DEF TakeRegion, Unmark
<1>15. CASE UNCHANGED vars
  BY <1>15 DEF vars
<1>16. ASSUME NEW t \in AllTiles, Rotate(t) PROVE FaultsAreKnown'
  BY <1>16 DEF Rotate
<1>17. QED
  BY <1>1, <1>2, <1>3, <1>4, <1>5, <1>6, <1>7, <1>8, <1>9, <1>10, <1>11,
     <1>12, <1>13, <1>14, <1>15, <1>16 DEF Next, SenderNext

-----------------------------------------------------------------------------
(* What was sent with losses.                                              *)

Waiting(t) == \E i \in DOMAIN queue : t \in queue[i].area
Held(t) == thread = "send" /\ t \in hand.area

(* A tile that shows a frame, or soon will, is marked or sent again.       *)
MarkedTile(t) ==
  /\ client[t].how = "frame" => t \in marked \/ Waiting(t) \/ Held(t)
  /\ Held(t) /\ hand.kind \in {"frame", "update"} => t \in marked \/ Waiting(t)

Marking ==
  online /\ compression = "images" => \A t \in Tiles \ lost : MarkedTile(t)

(* Nothing else changes a tile.                                            *)
LEMMA SameTile ==
  ASSUME NEW t, UNCHANGED <<client, queue, thread, hand>>, marked' = marked
  PROVE  MarkedTile(t)' <=> MarkedTile(t)
  BY DEF MarkedTile, Waiting, Held

(* Every step keeps marked what is not sent again.                         *)
LEMMA MarkingStep ==
  ASSUME Shape, Buffers, Marking, [Next]_vars
  PROVE  Marking'
<1> USE DEF Shape, ServerShape, Marking, MainFree, Idle, Request, work, server,
        history, status, shown, screen, Tiles
<1>1. ASSUME NEW t \in AllTiles, NEW c \in Contents, Draw(t, c) PROVE Marking'
  <2>1. /\ UNCHANGED <<client, queue, thread, hand, marked, width,
                       compression>>
        /\ online' => online
        /\ lost' = lost
    BY <1>1 DEF Draw
  <2>2. QED
    BY <2>1, SameTile
<1>2. CASE PaintRect
  <2>1. UNCHANGED <<client, queue, thread, hand, marked, width, compression,
                    online, lost>>
    <3>1. CASE Fault("unallocated")
      BY <3>1 DEF Fault
    <3>2. CASE ~Fault("unallocated")
      BY <1>2, <3>2 DEF PaintRect
    <3>3. QED
      BY <3>1, <3>2
  <2>2. QED
    BY <2>1, SameTile
<1>3. CASE AddFrame
  <2> DEFINE e == [kind |-> "frame", area |-> Head(painting),
                   content |-> picture]
  <2>1. UNCHANGED <<client, thread, hand, marked, width, compression, online>>
    BY <1>3 DEF AddFrame
  <2>2. CASE queue' = queue /\ lost' = lost \cup e.area
    BY <2>1, <2>2, SameTile
  <2>3. CASE queue' = Append(queue, e) /\ lost' = lost \ e.area
    <3>1. e \in Message
      BY <1>3, SequenceTaken, Sizes DEF AddFrame, Flow, Message
    <3> HIDE DEF e
    <3>2. \A t : t \in e.area \/ Waiting(t) => Waiting(t)'
      BY <2>3, <3>1, QueueExtended DEF Waiting, Flow
    <3>3. \A t : MarkedTile(t) => MarkedTile(t)'
      BY <2>1, <3>2 DEF MarkedTile, Held
    <3>4. \A t \in e.area : MarkedTile(t)'
      BY <3>2 DEF MarkedTile
    <3>5. QED
      BY <2>1, <2>3, <3>3, <3>4
  <2>4. QED
    BY <1>3, <2>2, <2>3 DEF AddFrame, Add, Enqueued
<1>4. CASE EncodeMainImg
  <2>1. ASSUME NEW t \in Tiles, MarkedTile(t) PROVE MarkedTile(t)'
    <3>1. t \in AllTiles
      BY Sizes
    <3>2. client'[t].how = "frame" => client[t].how = "frame"
      BY <1>4, <3>1 DEF EncodeMainImg
    <3>3. UNCHANGED <<marked, queue, thread, hand>>
      BY <1>4 DEF EncodeMainImg
    <3>4. QED
      BY <2>1, <3>2, <3>3 DEF MarkedTile, Waiting, Held
  <2>2. UNCHANGED <<online, compression, width, lost>>
    BY <1>4 DEF EncodeMainImg
  <2>3. QED
    BY <2>1, <2>2
<1>5. CASE Connect
  <2>1. lost' = AllTiles /\ width' = width
    BY <1>5 DEF Connect
  <2>2. QED
    BY <2>1, Sizes
<1>6. CASE Disconnect
  BY <1>6 DEF Disconnect
<1>7. ASSUME NEW w \in Widths, Geometry(w) PROVE Marking'
  <2> DEFINE e == [kind |-> "main", area |-> 1 .. w, content |-> picture']
  <2>1. CASE UNCHANGED <<client, queue, thread, hand, marked, width,
                         compression, online, lost>>
    BY <2>1, SameTile
  <2>2. CASE width' = w /\ lost' = AllTiles
    BY <2>2, Sizes
  <2>3. CASE width' = w /\ queue' = Append(queue, e)
    <3>1. e \in Message /\ e.area = 1 .. w
      <4>1. picture' \in [AllTiles -> Contents]
        BY ServerStep
      <4>2. QED
        BY <4>1, Sizes DEF Message
    <3> HIDE DEF e
    <3>2. \A t \in 1 .. w : Waiting(t)'
      BY <2>3, <3>1, QueueExtended DEF Waiting, Flow
    <3>3. QED
      BY <2>3, <3>2 DEF MarkedTile
  <2>4. QED
    BY <1>7, <2>1, <2>2, <2>3 DEF Geometry, Needed, Enqueued
<1>8. ASSUME NEW area \in SUBSET AllTiles, Update(area) PROVE Marking'
  <2> DEFINE e == [kind |-> "update", area |-> area,
                   content |-> picture]
  <2>1. UNCHANGED <<client, thread, hand, marked, width, compression, online>>
    BY <1>8 DEF Update
  <2>2. CASE queue' = queue /\ lost' = lost \cup e.area
    BY <2>1, <2>2, SameTile
  <2>3. CASE queue' = Append(queue, e) /\ lost' = lost \ e.area
    <3>1. e \in Message
      BY <1>8, Sizes DEF Update, Flow, Message
    <3> HIDE DEF e
    <3>2. \A t : t \in e.area \/ Waiting(t) => Waiting(t)'
      BY <2>3, <3>1, QueueExtended DEF Waiting, Flow
    <3>3. \A t : MarkedTile(t) => MarkedTile(t)'
      BY <2>1, <3>2 DEF MarkedTile, Held
    <3>4. \A t \in e.area : MarkedTile(t)'
      BY <3>2 DEF MarkedTile
    <3>5. QED
      BY <2>1, <2>3, <3>3, <3>4
  <2>4. QED
    BY <1>8, <2>2, <2>3 DEF Update, Add, Enqueued
<1>9. CASE RebuildCaches
  <2>1. /\ UNCHANGED <<client, queue, thread, hand, marked, width,
                       compression>>
        /\ online' => online
        /\ lost' = lost
    BY <1>9 DEF RebuildCaches
  <2>2. QED
    BY <2>1, SameTile
<1>10. CASE Exit
  BY <1>10 DEF Exit, Buffers, MarkedTile, Waiting, Held
<1>11. CASE Rebuild
  <2>1. ASSUME NEW t \in Tiles \ lost', MarkedTile(t) PROVE MarkedTile(t)'
    <3>1. ~Waiting(t)
      BY <1>11, <2>1 DEF Rebuild, Waiting, Elements
    <3>2. UNCHANGED <<client, thread, hand, marked>> /\ thread # "send"
      BY <1>11 DEF Rebuild
    <3>3. QED
      BY <2>1, <3>1, <3>2 DEF MarkedTile, Held
  <2>2. UNCHANGED <<online, compression, width>> /\ lost \subseteq lost'
    BY <1>11 DEF Rebuild
  <2>3. QED
    BY <2>1, <2>2
<1>12. CASE TakeElement
  <2>1. CASE Fault("beyond the end")
    <3>1. UNCHANGED <<client, queue, thread, hand, marked, width, compression,
                      online, lost>>
      BY <2>1 DEF Fault
    <3>2. QED
      BY <3>1, SameTile
  <2>2. CASE ~Fault("beyond the end")
    <3>1. /\ thread # "send" /\ thread' = "send"
          /\ queue # <<>> /\ hand' = Head(queue) /\ queue' = Tail(queue)
          /\ marked' = marked \cup MarkedBy(Head(queue))
          /\ UNCHANGED <<client, width, compression, online, lost>>
      BY <1>12, <2>2 DEF TakeElement
    <3>2. ASSUME NEW t \in Tiles, MarkedTile(t) PROVE MarkedTile(t)'
      <4>1. Waiting(t) => Waiting(t)' \/ Held(t)'
        BY <3>1, QueueTaken DEF Waiting, Held, Flow
      <4>2. hand'.kind # "main" /\ t \in hand'.area => t \in marked'
        BY <3>1 DEF MarkedBy
      <4>3. QED
        BY <3>1, <3>2, <4>1, <4>2 DEF MarkedTile, Held
    <3>3. QED
      BY <3>1, <3>2
  <2>3. QED
    BY <2>1, <2>2
<1>13. CASE Send
  <2>1. CASE Fault("beyond the end")
    <3>1. UNCHANGED <<client, queue, thread, hand, marked, width, compression,
                      online, lost>>
      BY <2>1 DEF Fault
    <3>2. QED
      BY <3>1, SameTile
  <2>2. CASE ~Fault("beyond the end") /\ online
    <3>1. /\ thread = "send" /\ thread' # "send"
          /\ client' = [t \in AllTiles |->
                          IF t \in AreaSent(hand)
                          THEN [content |-> Content(hand)[t],
                                how |-> How(hand)]
                          ELSE client[t]]
          /\ UNCHANGED <<marked, queue, width, compression, online, lost>>
      BY <1>13, <2>2 DEF Send
    <3>2. ASSUME NEW t \in Tiles, MarkedTile(t) PROVE MarkedTile(t)'
      <4>1. t \in AllTiles
        BY Sizes
      <4>2. Waiting(t)' = Waiting(t) /\ ~Held(t)'
        BY <3>1 DEF Waiting, Held
      <4>3. CASE t \notin AreaSent(hand)
        <5>1. client'[t] = client[t] /\ ~Held(t)
          BY <3>1, <4>1, <4>3 DEF AreaSent, Held
        <5>2. QED
          BY <3>1, <3>2, <4>2, <5>1 DEF MarkedTile
      <4>4. CASE t \in AreaSent(hand)
        <5>1. client'[t].how = How(hand)
          BY <3>1, <4>1, <4>4
        <5>2. How(hand) = "frame" => hand.kind \in {"frame", "update"}
          BY <3>1 DEF Flow, Message, Region, How
        <5>3. How(hand) = "frame" => Held(t)
          BY <3>1, <4>4, <5>2 DEF Held, AreaSent
        <5>4. QED
          BY <3>1, <3>2, <4>2, <5>1, <5>2, <5>3 DEF MarkedTile
      <4>5. QED
        BY <4>3, <4>4
    <3>3. QED
      BY <3>1, <3>2
  <2>3. CASE ~Fault("beyond the end") /\ ~online
    BY <1>13, <2>3 DEF Send
  <2>4. QED
    BY <2>1, <2>2, <2>3
<1>14. ASSUME NEW t \in AllTiles, TakeRegion(t) PROVE Marking'
  <2>1. /\ thread # "send" /\ thread' = "send" /\ hand' = Region(t)
        /\ marked' = marked \ {t}
        /\ UNCHANGED <<client, queue, width, compression, online, lost>>
    BY <1>14 DEF TakeRegion, Unmark, Region
  <2>2. ASSUME NEW u \in Tiles, MarkedTile(u) PROVE MarkedTile(u)'
    BY <2>1, <2>2 DEF MarkedTile, Waiting, Held, Region
  <2>3. QED
    BY <2>1, <2>2
<1>15. CASE UNCHANGED vars
  <2>1. UNCHANGED <<client, queue, thread, hand, marked, width, compression,
                    online, lost>>
    BY <1>15 DEF vars
  <2>2. QED
    BY <2>1, SameTile
<1>16. ASSUME NEW t \in AllTiles, Rotate(t) PROVE Marking'
  <2>1. UNCHANGED <<client, queue, thread, hand, marked, width, compression,
                    online, lost>>
    BY <1>16 DEF Rotate
  <2>2. QED
    BY <2>1, SameTile
<1>17. QED
  BY <1>1, <1>2, <1>3, <1>4, <1>5, <1>6, <1>7, <1>8, <1>9, <1>10, <1>11,
     <1>12, <1>13, <1>14, <1>15, <1>16 DEF Next, SenderNext

-----------------------------------------------------------------------------
(* The content of the tiles.                                               *)

Pending(t) == \E i \in DOMAIN painting : t \in painting[i]

Fresh(e, t) == e.kind = "frame" => e.content[t] = known[t]

(* The i-th element is the last to be sent for the tile.                   *)
Last(i, t) ==
  /\ t \in queue[i].area
  /\ \A j \in DOMAIN queue : j > i => t \notin queue[j].area

(* The last that is to be sent for a tile is what second_buffer says, and  *)
(* if nothing is, the client shows that already, or what is being rotated  *)
(* into main_img.                                                          *)
FreshTile(t) ==
  /\ \A i \in DOMAIN queue : Last(i, t) => Fresh(queue[i], t)
  /\ Held(t) /\ ~Waiting(t) => Fresh(hand, t)
  /\ ~Held(t) /\ ~Waiting(t) => client[t].content \in {known[t], picture[t]}

ByImages == compression = "images" /\ Rotated

(* main_img is what second_buffer says unless it is being written, and     *)
(* what was drawn once that is painted; meanwhile nothing is drawn.        *)
Noticed ==
  ByImages =>
    /\ \A t \in Tiles : \/ picture[t] = known[t]
                        \/ rotating /\ picture[t] = drawn[t]
    /\ ~damaged => ~rotating /\ \A t \in Tiles : picture[t] = drawn[t]
    /\ painting # <<>> => ~damaged

Freshness ==
  ByImages /\ online =>
    \A t \in Tiles \ lost : ~Pending(t) => FreshTile(t)

(* Nothing else makes a tile stale.                                        *)
LEMMA SameFreshTile ==
  ASSUME NEW t, UNCHANGED <<client, queue, thread, hand>>,
         known'[t] = known[t], picture[t] \in {known[t], picture'[t]}
  PROVE  FreshTile(t) => FreshTile(t)'
  BY DEF FreshTile, Waiting, Held, Last, Fresh

(* What differs from second_buffer is damaged.                             *)
LEMMA NoticedStep ==
  ASSUME Shape, Noticed, [Next]_vars
  PROVE  Noticed'
<1> USE DEF Shape, ServerShape, Flags, Noticed, ByImages, MainFree, Idle,
        Request, work, server, history, status, shown, screen, Tiles, Rotated
<1>1. ASSUME NEW t \in AllTiles, NEW c \in Contents, Draw(t, c) PROVE Noticed'
  BY <1>1 DEF Draw
<1>2. CASE PaintRect
  <2>1. CASE Fault("unallocated")
    BY <2>1 DEF Fault
  <2>2. CASE /\ known' = [t \in AllTiles |-> IF t \in Tiles THEN picture[t]
                                                          ELSE known[t]]
             /\ \A t \in Tiles : picture[t] = drawn[t]
             /\ damaged' = FALSE /\ rotating' = FALSE
             /\ UNCHANGED <<width, picture, drawn>>
    BY <2>2, Sizes
  <2>3. QED
    BY <1>2, <2>1, <2>2 DEF PaintRect
<1>3. CASE AddFrame
  BY <1>3 DEF AddFrame, Add, Enqueued
<1>4. CASE EncodeMainImg
  BY <1>4 DEF EncodeMainImg
<1>5. CASE Connect
  BY <1>5 DEF Connect
<1>6. CASE Disconnect
  BY <1>6 DEF Disconnect
<1>7. ASSUME NEW w \in Widths, Geometry(w) PROVE Noticed'
  BY <1>7 DEF Geometry, Needed, Enqueued, Freed, Marks
<1>8. ASSUME NEW area \in SUBSET AllTiles, Update(area) PROVE Noticed'
  BY <1>8 DEF Update, Add, Enqueued
<1>9. CASE RebuildCaches
  BY <1>9 DEF RebuildCaches
<1>10. CASE Exit
  BY <1>10 DEF Exit
<1>11. CASE Rebuild
  BY <1>11 DEF Rebuild
<1>12. CASE TakeElement
  <2>1. UNCHANGED <<compression, shadow, damaged, rotating, painting, picture,
                    drawn, known, width>>
    <3>1. CASE Fault("beyond the end")
      BY <3>1 DEF Fault
    <3>2. CASE ~Fault("beyond the end")
      BY <1>12, <3>2 DEF TakeElement
    <3>3. QED
      BY <3>1, <3>2
  <2>2. QED
    BY <2>1
<1>13. CASE Send
  BY <1>13 DEF Send, Fault
<1>14. ASSUME NEW t \in AllTiles, TakeRegion(t) PROVE Noticed'
  BY <1>14 DEF TakeRegion, Unmark
<1>15. CASE UNCHANGED vars
  BY <1>15 DEF vars
<1>16. ASSUME NEW t \in AllTiles, Rotate(t) PROVE Noticed'
  BY <1>16 DEF Rotate
<1>17. QED
  BY <1>1, <1>2, <1>3, <1>4, <1>5, <1>6, <1>7, <1>8, <1>9, <1>10, <1>11,
     <1>12, <1>13, <1>14, <1>15, <1>16 DEF Next, SenderNext

(* An element for other tiles changes nothing for this one.                *)
LEMMA FreshBeside ==
  ASSUME Shape, NEW t, NEW e, e \in Message, t \notin e.area,
         queue' = Append(queue, e), known'[t] = known[t],
         UNCHANGED <<client, thread, hand, picture>>, FreshTile(t)
  PROVE  FreshTile(t)'
<1>1. \A i \in DOMAIN queue' : t \in queue'[i].area =>
        i \in DOMAIN queue /\ queue'[i] = queue[i]
  BY QueueExtended DEF Shape, Flow
<1>2. \A i \in DOMAIN queue : i \in DOMAIN queue' /\ queue'[i] = queue[i]
  BY QueueExtended DEF Shape, Flow
<1>3. Waiting(t)' <=> Waiting(t)
  BY <1>1, <1>2 DEF Waiting
<1>4. \A i \in DOMAIN queue' : Last(i, t)' => i \in DOMAIN queue /\ Last(i, t)
  BY <1>1, <1>2 DEF Last
<1>5. QED
  BY <1>2, <1>3, <1>4 DEF FreshTile, Fresh, Held

(* An element that is added for a tile is the last for it.                 *)
LEMMA FreshCovered ==
  ASSUME Shape, NEW t, NEW e, e \in Message, t \in e.area,
         queue' = Append(queue, e),
         e.kind = "frame" => e.content[t] = known'[t]
  PROVE  FreshTile(t)'
<1>1. Len(queue) + 1 \in DOMAIN queue' /\ queue'[Len(queue) + 1] = e
  BY QueueExtended DEF Shape, Flow
<1>2. Waiting(t)'
  BY <1>1 DEF Waiting
<1>3. \A i \in DOMAIN queue' : i < Len(queue) + 1 \/ i = Len(queue) + 1
  BY QueueExtended DEF Shape, Flow
<1>4. \A i \in DOMAIN queue' : Last(i, t)' => queue'[i] = e
  BY <1>1, <1>3 DEF Last
<1>5. QED
  BY <1>2, <1>4 DEF FreshTile, Fresh

(* Every step keeps what is sent last for a tile up to date.               *)
LEMMA FreshnessStep ==
  ASSUME Shape, Buffers, Noticed, Freshness, [Next]_vars
  PROVE  Freshness'
<1> USE DEF Shape, ServerShape, Freshness, ByImages, MainFree, Idle, Request,
        work, server, history, status, shown, screen, Tiles, Rotated
<1>1. ASSUME NEW t \in AllTiles, NEW c \in Contents, Draw(t, c)
      PROVE Freshness'
  <2>1. /\ UNCHANGED <<client, queue, thread, hand, known, width, compression,
                       shadow, painting, online, lost>>
        /\ ByImages => picture' = picture
    BY <1>1 DEF Draw
  <2>2. QED
    BY <2>1, SameFreshTile DEF Pending
<1>2. CASE PaintRect
  <2>1. CASE Fault("unallocated")
    <3>1. UNCHANGED <<client, queue, thread, hand, picture, known, width,
                         compression, shadow, painting, online, lost>>
      BY <2>1 DEF Fault
    <3>2. QED
      BY <3>1, SameFreshTile DEF Pending
  <2>2. CASE ~Fault("unallocated")
    <3>1. /\ painting = <<>> /\ painting' \in Divisions
          /\ known' = [t \in AllTiles |-> IF t \in Tiles THEN picture[t]
                                                       ELSE known[t]]
          /\ UNCHANGED <<client, queue, thread, hand, picture, width,
                         compression, shadow, online, lost>>
      BY <1>2, <2>2 DEF PaintRect
    <3>2. ASSUME NEW t \in Tiles, ~Pending(t)'
          PROVE  ~Pending(t) /\ known'[t] = known[t]
      <4>1. t \notin Changed
        BY <3>1, <3>2, DivisionsCover DEF Pending
      <4>2. QED
        BY <3>1, <4>1, Sizes DEF Pending, Changed
    <3>3. QED
      BY <3>1, <3>2, SameFreshTile
  <2>3. QED
    BY <2>1, <2>2
<1>3. CASE AddFrame
  <2> DEFINE e == [kind |-> "frame", area |-> Head(painting),
                   content |-> picture]
  <2>1. /\ painting # <<>> /\ painting' = Tail(painting)
        /\ UNCHANGED <<client, thread, hand, picture, known, width,
                       compression, shadow, online>>
    BY <1>3 DEF AddFrame
  <2>2. e \in Message
    <3>1. Head(painting) \subseteq Tiles
      BY <2>1, SequenceTaken DEF Flow
    <3>2. Head(painting) \subseteq AllTiles
      BY <3>1, Sizes
    <3>3. QED
      BY <3>2 DEF Message
  <2>3. ASSUME NEW t, t \notin e.area, ~Pending(t)' PROVE ~Pending(t)
    BY <2>1, <2>3, SequenceTaken DEF Pending, Flow
  <2>4. CASE queue' = queue /\ lost' = lost \cup e.area
    BY <2>1, <2>3, <2>4, SameFreshTile
  <2>5. CASE queue' = Append(queue, e) /\ lost' = lost \ e.area
    <3> SUFFICES ASSUME ByImages, online, NEW t \in Tiles, t \notin lost',
                        ~Pending(t)'
                 PROVE  FreshTile(t)'
      BY <2>1
    <3>1. CASE t \in e.area
      <4>1. e.content[t] = known'[t]
        BY <2>1 DEF Noticed
      <4>2. QED
        BY <2>2, <2>5, <3>1, <4>1, FreshCovered
    <3>2. CASE t \notin e.area
      BY <2>1, <2>2, <2>3, <2>5, <3>2, FreshBeside
    <3>3. QED
      BY <3>1, <3>2
  <2>6. QED
    BY <1>3, <2>4, <2>5 DEF AddFrame, Add, Enqueued
<1>4. CASE EncodeMainImg
  BY <1>4 DEF EncodeMainImg
<1>5. CASE Connect
  <2>1. lost' = AllTiles /\ width' = width
    BY <1>5 DEF Connect
  <2>2. QED
    BY <2>1, Sizes
<1>6. CASE Disconnect
  BY <1>6 DEF Disconnect
<1>7. ASSUME NEW w \in Widths, Geometry(w) PROVE Freshness'
  <2> DEFINE e == [kind |-> "main", area |-> 1 .. w, content |-> picture']
  <2>1. CASE UNCHANGED <<client, queue, thread, hand, picture, known, width,
                         compression, shadow, painting, online, lost>>
    BY <2>1, SameFreshTile DEF Pending
  <2>2. CASE width' = w /\ lost' = AllTiles
    BY <2>2, Sizes
  <2>3. CASE width' = w /\ queue' = Append(queue, e)
    <3>1. e \in Message /\ e.area = 1 .. w /\ e.kind = "main"
      <4>1. picture' \in [AllTiles -> Contents]
        BY ServerStep
      <4>2. QED
        BY <4>1, Sizes DEF Message
    <3> HIDE DEF e
    <3>2. QED
      BY <2>3, <3>1, FreshCovered
  <2>4. QED
    BY <1>7, <2>1, <2>2, <2>3 DEF Geometry, Needed, Enqueued
<1>8. ASSUME NEW area \in SUBSET AllTiles, Update(area) PROVE Freshness'
  <2> DEFINE e == [kind |-> "update", area |-> area, content |-> picture]
  <2>1. UNCHANGED <<client, thread, hand, picture, known, width,
                    compression, shadow, online, painting>>
    BY <1>8 DEF Update
  <2>2. e \in Message
    BY DEF Message
  <2>3. CASE queue' = queue /\ lost' = lost \cup e.area
    BY <2>1, <2>3, SameFreshTile DEF Pending
  <2>4. CASE queue' = Append(queue, e) /\ lost' = lost \ e.area
    <3> SUFFICES ASSUME ByImages, online, NEW t \in Tiles, t \notin lost',
                        ~Pending(t)
                 PROVE  FreshTile(t)'
      BY <2>1 DEF Pending
    <3>1. CASE t \in e.area
      BY <2>2, <2>4, <3>1, FreshCovered
    <3>2. CASE t \notin e.area
      BY <2>1, <2>2, <2>4, <3>2, FreshBeside
    <3>3. QED
      BY <3>1, <3>2
  <2>5. QED
    BY <1>8, <2>3, <2>4 DEF Update, Add, Enqueued
<1>9. CASE RebuildCaches
  <2>1. /\ UNCHANGED <<client, queue, thread, hand, picture, known, width,
                       compression, shadow, painting>>
        /\ online' => online
        /\ lost' = lost
    BY <1>9 DEF RebuildCaches
  <2>2. QED
    BY <2>1, SameFreshTile DEF Pending
<1>10. CASE Exit
  BY <1>10 DEF Exit
<1>11. CASE Rebuild
  <2>1. ASSUME NEW t \in Tiles \ lost', FreshTile(t) PROVE FreshTile(t)'
    <3>1. ~Waiting(t)
      BY <1>11, <2>1 DEF Rebuild, Waiting, Elements
    <3>2. /\ UNCHANGED <<client, thread, hand, picture, known>>
          /\ thread # "send" /\ queue' = <<>>
      BY <1>11 DEF Rebuild
    <3>3. QED
      BY <2>1, <3>1, <3>2 DEF FreshTile, Held, Waiting
  <2>2. UNCHANGED <<online, compression, shadow, width, painting>>
        /\ lost \subseteq lost'
    BY <1>11 DEF Rebuild
  <2>3. QED
    BY <2>1, <2>2 DEF Pending
<1>12. CASE TakeElement
  <2>1. CASE Fault("beyond the end")
    <3>1. UNCHANGED <<client, queue, thread, hand, picture, known, width,
                         compression, shadow, painting, online, lost>>
      BY <2>1 DEF Fault
    <3>2. QED
      BY <3>1, SameFreshTile DEF Pending
  <2>2. CASE ~Fault("beyond the end")
    <3>1. /\ thread # "send" /\ thread' = "send"
          /\ queue # <<>> /\ hand' = Head(queue) /\ queue' = Tail(queue)
          /\ UNCHANGED <<client, picture, known, width, compression, shadow,
                         painting, online, lost>>
      BY <1>12, <2>2 DEF TakeElement
    <3>2. ASSUME NEW t, FreshTile(t) PROVE FreshTile(t)'
      <4>1. /\ 1 \in DOMAIN queue /\ queue[1] = hand'
            /\ \A i \in DOMAIN queue' :
                 /\ i \in Nat /\ i + 1 \in DOMAIN queue
                 /\ queue'[i] = queue[i + 1]
            /\ \A i \in DOMAIN queue : i # 1 =>
                 i - 1 \in DOMAIN queue' /\ queue'[i - 1] = queue[i]
            /\ \A i \in DOMAIN queue : i \in Nat
        BY <3>1, QueueTaken DEF Flow
      <4>2. ASSUME NEW i \in DOMAIN queue', Last(i, t)' PROVE Last(i + 1, t)
        <5>1. ASSUME NEW j \in DOMAIN queue, j > i + 1
              PROVE  t \notin queue[j].area
          BY <4>1, <4>2, <5>1 DEF Last
        <5>2. QED
          BY <4>1, <4>2, <5>1 DEF Last
      <4>3. ~Waiting(t)' =>
              \A j \in DOMAIN queue : j # 1 => t \notin queue[j].area
        BY <4>1 DEF Waiting
      <4>4. Held(t)' /\ ~Waiting(t)' => Last(1, t)
        BY <4>1, <4>3 DEF Last, Held
      <4>5. ~Held(t)' /\ ~Waiting(t)' => ~Waiting(t) /\ ~Held(t)
        BY <3>1, <4>1, <4>3 DEF Held, Waiting
      <4>6. \A i \in DOMAIN queue' : Last(i, t)' => Fresh(queue[i], t)'
        BY <3>1, <3>2, <4>1, <4>2 DEF FreshTile, Fresh
      <4>7. QED
        BY <3>1, <3>2, <4>1, <4>4, <4>5, <4>6 DEF FreshTile, Fresh
    <3>3. QED
      BY <3>1, <3>2 DEF Pending
  <2>3. QED
    BY <2>1, <2>2
<1>13. CASE Send
  <2>1. CASE Fault("beyond the end")
    <3>1. UNCHANGED <<client, queue, thread, hand, picture, known, width,
                         compression, shadow, painting, online, lost>>
      BY <2>1 DEF Fault
    <3>2. QED
      BY <3>1, SameFreshTile DEF Pending
  <2>2. CASE ~Fault("beyond the end") /\ online
    <3>1. /\ thread = "send" /\ thread' # "send"
          /\ client' = [t \in AllTiles |->
                          IF t \in AreaSent(hand)
                          THEN [content |-> Content(hand)[t],
                                how |-> How(hand)]
                          ELSE client[t]]
          /\ UNCHANGED <<queue, width, compression, shadow, online, lost,
                         painting, picture, known>>
      BY <1>13, <2>2 DEF Send
    <3>2. ASSUME NEW t \in Tiles, FreshTile(t) PROVE FreshTile(t)'
      <4>1. t \in AllTiles
        BY Sizes
      <4>2. Waiting(t)' = Waiting(t) /\ ~Held(t)'
        BY <3>1 DEF Waiting, Held
      <4>3. CASE t \notin AreaSent(hand)
        <5>1. client'[t] = client[t] /\ ~Held(t)
          BY <3>1, <4>1, <4>3 DEF AreaSent, Held
        <5>2. QED
          BY <3>1, <3>2, <4>2, <5>1 DEF FreshTile, Last, Fresh
      <4>4. CASE t \in AreaSent(hand) /\ ~Waiting(t)
        <5>1. client'[t].content = Content(hand)[t]
          BY <3>1, <4>1, <4>4
        <5>2. hand.kind = "frame" => Content(hand)[t] = known[t]
          BY <3>1, <3>2, <4>4 DEF FreshTile, Held, AreaSent, Content, Fresh
        <5>3. hand.kind # "frame" => Content(hand)[t] = picture[t]
          BY DEF Content
        <5>4. client'[t].content \in {known'[t], picture'[t]}
          BY <3>1, <5>1, <5>2, <5>3
        <5>5. QED
          BY <3>1, <3>2, <4>2, <5>4 DEF FreshTile, Last, Fresh
      <4>5. CASE Waiting(t)
        BY <3>1, <3>2, <4>2, <4>5 DEF FreshTile, Last, Fresh
      <4>6. QED
        BY <4>3, <4>4, <4>5
    <3>3. QED
      BY <3>1, <3>2 DEF Pending
  <2>3. CASE ~Fault("beyond the end") /\ ~online
    BY <1>13, <2>3 DEF Send
  <2>4. QED
    BY <2>1, <2>2, <2>3
<1>14. ASSUME NEW t \in AllTiles, TakeRegion(t) PROVE Freshness'
  <2>1. /\ thread # "send" /\ thread' = "send" /\ hand' = Region(t)
        /\ queue = <<>>
        /\ UNCHANGED <<client, queue, picture, known, width, compression,
                       shadow, painting, online, lost>>
    BY <1>14 DEF TakeRegion, Region
  <2>2. ASSUME NEW u, FreshTile(u) PROVE FreshTile(u)'
    <3>1. Fresh(hand, u)'
      BY <2>1 DEF Fresh, Region
    <3>2. QED
      BY <2>1, <2>2, <3>1 DEF FreshTile, Waiting, Held, Last, Fresh
  <2>3. QED
    BY <2>1, <2>2 DEF Pending
<1>15. CASE UNCHANGED vars
  <2>1. /\ UNCHANGED <<client, queue, thread, hand, picture, known, width,
                       compression, shadow, painting>>
        /\ online' => online
        /\ lost' = lost
    BY <1>15 DEF vars
  <2>2. QED
    BY <2>1, SameFreshTile DEF Pending
<1>16. ASSUME NEW t \in AllTiles, Rotate(t) PROVE Freshness'
  <2>1. /\ picture[t] # drawn[t] /\ picture' = [picture EXCEPT ![t] = drawn[t]]
        /\ UNCHANGED <<client, queue, thread, hand, known, width, compression,
                       shadow, painting, online, lost>>
    BY <1>16 DEF Rotate
  <2>2. ASSUME ByImages, NEW u \in Tiles
        PROVE  picture[u] \in {known[u], picture'[u]}
    <3>1. CASE u = t
      BY <2>1, <2>2, <3>1 DEF Noticed
    <3>2. CASE u # t
      BY <2>1, <3>2, Sizes
    <3>3. QED
      BY <3>1, <3>2
  <2>3. QED
    BY <2>1, <2>2, SameFreshTile DEF Pending
<1>17. QED
  BY <1>1, <1>2, <1>3, <1>4, <1>5, <1>6, <1>7, <1>8, <1>9, <1>10, <1>11,
     <1>12, <1>13, <1>14, <1>15, <1>16 DEF Next, SenderNext

-----------------------------------------------------------------------------
(* Video.                                                                  *)

(* A screen that is not rotated is drawn in main_img.                      *)
Direct == ~Rotated => picture = drawn

(* It is so after every step.                                              *)
LEMMA DirectStep ==
  ASSUME Shape, Direct, [Next]_vars
  PROVE  Direct'
<1> USE DEF Shape, ServerShape, Flags, Direct, Rotated, MainFree, Idle,
        Request, work, server, history, status, shown, screen, Tiles
<1>1. ASSUME NEW t \in AllTiles, NEW c \in Contents, Draw(t, c) PROVE Direct'
  BY <1>1 DEF Draw
<1>2. CASE PaintRect
  BY <1>2 DEF PaintRect, Fault
<1>3. CASE AddFrame
  BY <1>3 DEF AddFrame, Add, Enqueued
<1>4. CASE EncodeMainImg
  BY <1>4 DEF EncodeMainImg
<1>5. CASE Connect
  BY <1>5 DEF Connect
<1>6. CASE Disconnect
  BY <1>6 DEF Disconnect
<1>7. ASSUME NEW w \in Widths, Geometry(w) PROVE Direct'
  BY <1>7 DEF Geometry, Needed, Enqueued
<1>8. ASSUME NEW area \in SUBSET AllTiles, Update(area) PROVE Direct'
  BY <1>8 DEF Update, Add, Enqueued
<1>9. CASE RebuildCaches
  BY <1>9 DEF RebuildCaches
<1>10. CASE Exit
  BY <1>10 DEF Exit
<1>11. CASE Rebuild
  BY <1>11 DEF Rebuild
<1>12. CASE TakeElement
  BY <1>12 DEF TakeElement, Fault
<1>13. CASE Send
  BY <1>13 DEF Send, Fault
<1>14. ASSUME NEW t \in AllTiles, TakeRegion(t) PROVE Direct'
  BY <1>14 DEF TakeRegion
<1>15. CASE UNCHANGED vars
  BY <1>15 DEF vars
<1>16. ASSUME NEW t \in AllTiles, Rotate(t) PROVE Direct'
  BY <1>16 DEF Rotate
<1>17. QED
  BY <1>1, <1>2, <1>3, <1>4, <1>5, <1>6, <1>7, <1>8, <1>9, <1>10, <1>11,
     <1>12, <1>13, <1>14, <1>15, <1>16 DEF Next, SenderNext

(* A client that said its size can decode what is encoded, or will begin   *)
(* with the first picture of a new encoder.                                *)
Video ==
  /\ fault = "no" /\ compression = "video" /\ ~Rotated
  /\ online /\ initialized
  =>
    /\ decoding \/ encoder = "new"
    /\ ~damaged => decoding /\ \A t \in Tiles : client[t].content = drawn[t]

(* Every step keeps what the encoder has seen up to date.                  *)
LEMMA VideoStep ==
  ASSUME Shape, Buffers, Direct, Video, [Next]_vars
  PROVE  Video'
<1> USE DEF Shape, ServerShape, Flags, Video, MainFree, Idle, Request, work,
        server, history, status, shown, screen, Tiles, Rotated
<1>1. ASSUME NEW t \in AllTiles, NEW c \in Contents, Draw(t, c) PROVE Video'
  BY <1>1 DEF Draw
<1>2. CASE PaintRect
  BY <1>2 DEF PaintRect, Fault
<1>3. CASE AddFrame
  BY <1>3 DEF AddFrame, Add, Enqueued
<1>4. CASE EncodeMainImg
  <2>1. CASE online
    <3>1. /\ decoding' = (decoding \/ encoder = "new")
          /\ client' = IF decoding'
                       THEN [t \in AllTiles |->
                               IF t \in Tiles
                               THEN [content |-> picture[t], how |-> "video"]
                               ELSE client[t]]
                       ELSE client
          /\ UNCHANGED <<compression, shadow, online, initialized, width,
                         drawn, fault>>
      BY <1>4, <2>1 DEF EncodeMainImg
    <3> SUFFICES ASSUME Video, fault = "no", compression = "video", ~Rotated,
                        online, initialized
                 PROVE  /\ decoding'
                        /\ \A t \in Tiles : client'[t].content = drawn[t]
      BY <3>1
    <3>2. decoding'
      BY <3>1
    <3>3. ASSUME NEW t \in Tiles PROVE client'[t].content = drawn[t]
      <4>1. t \in AllTiles /\ picture = drawn
        BY Sizes DEF Direct
      <4>2. QED
        BY <3>1, <3>2, <4>1
    <3>4. QED
      BY <3>2, <3>3
  <2>2. CASE ~online
    BY <1>4, <2>2 DEF EncodeMainImg
  <2>3. QED
    BY <2>1, <2>2
<1>5. CASE Connect
  BY <1>5 DEF Connect
<1>6. CASE Disconnect
  BY <1>6 DEF Disconnect
<1>7. ASSUME NEW w \in Widths, Geometry(w) PROVE Video'
  <2>1. CASE fault' # "no"
    BY <2>1
  <2>2. CASE encoder' = "new" /\ damaged' = TRUE
    BY <2>2
  <2>3. QED
    BY <1>7, <2>1, <2>2 DEF Geometry, Needed, Enqueued
<1>8. ASSUME NEW area \in SUBSET AllTiles, Update(area) PROVE Video'
  BY <1>8 DEF Update, Add, Enqueued
<1>9. CASE RebuildCaches
  BY <1>9 DEF RebuildCaches
<1>10. CASE Exit
  BY <1>10 DEF Exit
<1>11. CASE Rebuild
  BY <1>11 DEF Rebuild
<1>12. CASE TakeElement
  <2>1. CASE Fault("beyond the end")
    BY <2>1 DEF Fault
  <2>2. CASE ~Fault("beyond the end")
    <3>1. UNCHANGED <<compression, shadow, online, initialized, decoding,
                      encoder, damaged, width, client, drawn, fault>>
      BY <1>12, <2>2 DEF TakeElement
    <3>2. QED
      BY <3>1
  <2>3. QED
    BY <2>1, <2>2
<1>13. CASE Send
  <2>1. compression = "images" /\ compression' = compression
    <3>1. CASE Fault("beyond the end")
      BY <1>13, <3>1 DEF Send, Fault, Buffers
    <3>2. CASE ~Fault("beyond the end")
      BY <1>13, <3>2 DEF Send, Buffers
    <3>3. QED
      BY <3>1, <3>2
  <2>2. QED
    BY <2>1
<1>14. ASSUME NEW t \in AllTiles, TakeRegion(t) PROVE Video'
  BY <1>14 DEF TakeRegion, Unmark
<1>15. CASE UNCHANGED vars
  BY <1>15 DEF vars
<1>16. ASSUME NEW t \in AllTiles, Rotate(t) PROVE Video'
  BY <1>16 DEF Rotate
<1>17. QED
  BY <1>1, <1>2, <1>3, <1>4, <1>5, <1>6, <1>7, <1>8, <1>9, <1>10, <1>11,
     <1>12, <1>13, <1>14, <1>15, <1>16 DEF Next, SenderNext

-----------------------------------------------------------------------------
(* What holds always.                                                      *)

Invariant ==
  /\ Shape /\ Buffers /\ Fits /\ FaultsAreKnown
  /\ Marking /\ Noticed /\ Freshness /\ Direct /\ Video

(* All of it holds in every reachable state.                               *)
LEMMA InvariantHolds == Spec => []Invariant
<1>1. Init => Invariant
  <2> SUFFICES ASSUME Init PROVE Invariant
    OBVIOUS
  <2>1. Shape
    BY ShapeInit
  <2>2. Buffers /\ Fits /\ FaultsAreKnown
    BY DEF Init, Buffers, Fits, FaultsAreKnown, Nothing
  <2>3. Marking /\ Noticed /\ Freshness /\ Direct /\ Video
    BY DEF Init, Marking, Noticed, Freshness, Direct, Video, Tiles
  <2>4. QED
    BY <2>1, <2>2, <2>3 DEF Invariant
<1>2. Invariant /\ [Next]_vars => Invariant'
  BY ShapeStep, BuffersStep, FitsStep, FaultsStep, MarkingStep, NoticedStep,
     FreshnessStep, DirectStep, VideoStep DEF Invariant
<1>3. QED
  BY <1>1, <1>2, PTL DEF Spec

(* Every variable keeps its type, and every element its content and area,  *)
(* whatever the sizes of the screen.                                       *)
THEOREM TypeCorrect == Spec => []TypeOK
<1>1. Shape => TypeOK
  <2> SUFFICES ASSUME Shape PROVE TypeOK
    OBVIOUS
  <2>1. (hand # Nothing) = (thread = "send")
    BY DEF Shape, Flow, Message, Region, Nothing
  <2>2. QED
    BY <2>1 DEF Shape, ServerShape, Flags, Flow, TypeOK, Shows
<1>2. QED
  BY <1>1, InvariantHolds, PTL DEF Invariant

(* Memory is misused in the three known cases only: nothing lies beyond    *)
(* the end of a buffer unless the screen shrank meanwhile, and buffers are *)
(* there unless the compression is video (remote_screen_init).             *)
THEOREM FaultsCorrect == Spec => []FaultsAreKnown
BY InvariantHolds, PTL DEF Invariant

(* Nothing that was sent with losses is forgotten (markDirtyRegions,       *)
(* getDirtyScreenRegion, send_dirty_region).                               *)
THEOREM LossCorrect == Spec => []LossIsMarked
<1>1. Invariant => LossIsMarked
  <2> SUFFICES ASSUME Invariant, ByFrames, NEW t \in Tiles \ lost,
                      client[t].how = "frame", t \notin marked
               PROVE  \E e \in InFlight : t \in e.area
    BY DEF LossIsMarked
  <2>1. Waiting(t) \/ Held(t)
    BY DEF Invariant, ByFrames, Served, Marking, MarkedTile
  <2>2. QED
    BY <2>1 DEF Waiting, Held, InFlight, Elements
<1>2. QED
  BY <1>1, InvariantHolds, PTL

(* Once all is painted and sent the client shows what was drawn: by the    *)
(* comparison with second_buffer (remote_paint_rect) or, with video, by    *)
(* the encoder that GEOMETRY makes (remote_screen_init).                   *)
THEOREM SettledCorrect == Spec => []SettledIsShown
<1>1. ASSUME Invariant, ByFrames, Settled,
             NEW t \in Tiles \ lost
      PROVE  client[t].content = drawn[t]
  <2>1. ~Held(t) /\ ~Waiting(t) /\ ~Pending(t)
    BY <1>1 DEF Settled, Held, Waiting, Pending, InFlight, Elements
  <2>2. client[t].content \in {known[t], picture[t]}
    BY <1>1, <2>1
       DEF Invariant, Freshness, ByFrames, ByImages, Served, FreshTile
  <2>3. picture[t] = known[t] /\ picture[t] = drawn[t]
    BY <1>1 DEF Invariant, Noticed, ByFrames, ByImages, Settled
  <2>4. QED
    BY <2>2, <2>3
<1>2. ASSUME Invariant, Served, compression = "video", ~Rotated, ~damaged,
             NEW t \in Tiles
      PROVE  client[t].content = drawn[t]
  BY <1>2 DEF Invariant, Video, Served
<1>3. Invariant => SettledIsShown
  BY <1>1, <1>2 DEF SettledIsShown
<1>4. QED
  BY <1>3, InvariantHolds, PTL
=============================================================================
