------------------------------ MODULE Cursors -------------------------------
(***************************************************************************)
(* The cursor path of x2gokdriveremote.c.  Setting a cursor queues a       *)
(* frame for the client: the whole image the first time, and a bare        *)
(* reference (size 0) when the list of sent cursors says the client has    *)
(* it.  remote_sendCursor takes sendqueue_mutex three times, to look the   *)
(* cursor up, to list it and to queue the frame, and the cleanup of a lost *)
(* connection or of a cache rebuild may come in between.  The sending      *)
(* thread takes frames off the queue under the mutex and writes them       *)
(* without it.                                                             *)
(*                                                                         *)
(* An image is abstracted to its encoding.  The cleanup of a rebuild,      *)
(* which the code runs without the mutex, is one step here; FrameCache     *)
(* shows what its running inside a critical section leads to.  The list of *)
(* deleted cursors is left out: its only producer, remote_removeCursor, is *)
(* never called, because ephyrUnrealizeCursor tests a field nothing sets.  *)
(***************************************************************************)
EXTENDS Integers, Sequences, FiniteSets

CONSTANTS
  Cursor,      \* serial numbers of the cursors applications set
  Argb,        \* those with an ARGB image, the others are two bitmaps
  Senders,     \* sending threads, one for each accepted connection
  QueueBound,  \* bound on the cursor queue, for model checking only
  Null         \* no frame

Forms == {"raw", "bitmap", "png"}
Frames == [cursor : Cursor, form : Forms \cup {"ref"}]

ASSUME ArgbAssumption == Argb \subseteq Cursor
ASSUME QueueAssumption == QueueBound \in Nat \ {0}
ASSUME NullAssumption ==
  Null \notin Cursor /\ Null \notin Forms /\ Null \notin Frames

VARIABLES
  sent,       \* serial numbers in sentCursorsHead .. sentCursorsTail
  queue,      \* firstCursor .. lastCursor
  connected,  \* remoteVars.client_connected
  os,         \* remoteVars.client_os
  rebuilt,    \* remoteVars.cache_rebuilt
  main,       \* the main thread: where it is in remote_sendCursor, its frame
  spc,        \* where each sending thread is in its loop
  hand,       \* the cursor frame a sending thread took off the queue
  client,     \* the cursors the client has, how it got them, what it shows
  told,       \* history: the client of this connection told its version
  early,      \* history: an image since the last cleanup was encoded before
              \* the client it goes to told its version
  last,       \* history: the cursor set last, Null if a cleanup came since
  overlap     \* history: a cleanup came between listing and queueing, or two
              \* sending threads had frames in hand, or one during a cleanup,
              \* or a thread took a frame after its client had left

vars == <<sent, queue, connected, os, rebuilt, main, spc, hand, client, told,
          early, last, overlap>>

OtherOS == "linux"
Web == "web"

Frame(c, form) == [cursor |-> c, form |-> form]

(* No image for cursor c: the header alone, with size 0.                   *)
Reference(c) == Frame(c, "ref")

HasData(f) == f.form # "ref"

(* The image of c: bitmaps, raw RGBA, or for the web client PNG.           *)
FormRaw(c) == IF c \in Argb THEN "raw" ELSE "bitmap"

Form(c) == IF c \notin Argb THEN "bitmap" ELSE IF os = Web THEN "png" ELSE "raw"

MainIdle == [pc |-> "idle", frame |-> Null]
NewClient == [form |-> [c \in Cursor |-> Null], shows |-> Null,
              unknown |-> FALSE, web |-> FALSE]

Init ==
  /\ sent = {} /\ queue = <<>>
  /\ connected = FALSE /\ os = OtherOS /\ rebuilt = FALSE
  /\ main = MainIdle
  /\ spc = [s \in Senders |-> "none"]
  /\ hand = [s \in Senders |-> Null]
  /\ client = NewClient
  /\ told = FALSE /\ early = FALSE /\ last = Null /\ overlap = FALSE

InHand == {hand[s] : s \in Senders} \ {Null}

-----------------------------------------------------------------------------
(* The main thread, remote_sendCursor.                                     *)

IsCursorSentAlways(c) == TRUE
IsCursorSentNever(c) == FALSE

(* The list is searched for the serial number.                             *)
IsCursorSent(c) == c \in sent

(* First critical section, and the encoding of the image after it.         *)
SetCursor(c) ==
  /\ main.pc = "idle" /\ Len(queue) < QueueBound
  /\ IF IsCursorSent(c)
     THEN /\ main' = [pc |-> "enqueue", frame |-> Reference(c)]
          /\ early' = early
     ELSE /\ main' = [pc |-> "mark", frame |-> Frame(c, Form(c))]
          /\ early' = (early \/ ~told)
  /\ UNCHANGED <<sent, queue, connected, os, rebuilt, spc, hand, client, told,
                 last, overlap>>

(* Second critical section: the cursor is listed before it is queued.      *)
AddSentCursor ==
  /\ main.pc = "mark"
  /\ sent' = sent \cup {main.frame.cursor}
  /\ main' = [main EXCEPT !.pc = "enqueue"]
  /\ UNCHANGED <<queue, connected, os, rebuilt, spc, hand, client, told, early,
                 last, overlap>>

EnqueuedFirst(q, f) == <<f>> \o q
Enqueued(q, f) == Append(q, f)

(* Third critical section: whether a client is connected is not asked.     *)
AddCursorToQueue ==
  /\ main.pc = "enqueue"
  /\ queue' = Enqueued(queue, main.frame)
  /\ last' = main.frame.cursor
  /\ main' = MainIdle
  /\ UNCHANGED <<sent, connected, os, rebuilt, spc, hand, client, told, early,
                 overlap>>

-----------------------------------------------------------------------------
(* Other events of the main thread.                                        *)

SentKept == sent
SentAfterFree == {}

(* freeCursors, from clean_everything.                                     *)
FreeCursors ==
  /\ sent' = SentAfterFree
  /\ queue' = <<>>
  /\ last' = Null
  /\ overlap' = (overlap \/ main.pc = "enqueue" \/ InHand # {})

Disconnect ==
  /\ connected
  /\ connected' = FALSE /\ told' = FALSE
  /\ FreeCursors
  /\ early' = (main.pc = "mark")
  /\ UNCHANGED <<os, rebuilt, main, spc, hand, client>>

(* The client left, or was silent for too long.                            *)
ClientGone == main.pc = "idle" /\ Disconnect

(* SIGHUP in state RUNNING: disconnect_client runs on top of               *)
(* remote_sendCursor, between two of its critical sections.                *)
Hangup == main.pc # "idle" /\ Disconnect

(* serverAcceptNotify: a client without cursors, and a thread to serve it. *)
Accept(s) ==
  /\ main.pc = "idle" /\ ~connected /\ spc[s] = "none"
  /\ connected' = TRUE
  /\ os' = OtherOS
  /\ client' = NewClient
  /\ spc' = [spc EXCEPT ![s] = "top"]
  /\ UNCHANGED <<sent, queue, rebuilt, main, hand, told, early, last, overlap>>

(* CLIENTVERSION, the first message of a client.                           *)
ClientVersion(o) ==
  /\ main.pc = "idle" /\ connected /\ ~told
  /\ os' = o
  /\ told' = TRUE
  /\ client' = [client EXCEPT !.web = (o = Web)]
  /\ UNCHANGED <<sent, queue, connected, rebuilt, main, spc, hand, early, last,
                 overlap>>

(* CACHEREBUILD.                                                           *)
RebuildCaches ==
  /\ main.pc = "idle" /\ connected /\ ~rebuilt
  /\ rebuilt' = TRUE
  /\ UNCHANGED <<sent, queue, connected, os, main, spc, hand, client, told,
                 early, last, overlap>>

-----------------------------------------------------------------------------
(* The sending thread, send_frame_thread.                                  *)

Goto(s, pc) == spc' = [spc EXCEPT ![s] = pc]

(* Top of the loop.  The thread of a client that left ends, unless the     *)
(* next client came first.  Otherwise it may wait, without the mutex.      *)
CheckConnected(s) ==
  /\ spc[s] = "top"
  /\ Goto(s, IF connected THEN "serve" ELSE "exit")
  /\ UNCHANGED <<sent, queue, connected, os, rebuilt, main, hand, client, told,
                 early, last, overlap>>

TakeRebuild(s) ==
  /\ spc[s] = "serve"
  /\ rebuilt' = FALSE
  /\ Goto(s, IF rebuilt THEN "reinit" ELSE "pop")
  /\ UNCHANGED <<sent, queue, connected, os, main, hand, client, told, early,
                 last, overlap>>

(* The client drops its caches when it reads REINIT.                       *)
SendReinit(s) ==
  /\ spc[s] = "reinit"
  /\ client' = [client EXCEPT !.form = NewClient.form, !.shows = Null]
  /\ Goto(s, "clean")
  /\ overlap' = (overlap \/ InHand # {})
  /\ UNCHANGED <<sent, queue, connected, os, rebuilt, main, hand, told, early,
                 last>>

(* clean_everything, called by the sending thread without the mutex.       *)
CleanEverything(s) ==
  /\ spc[s] = "clean"
  /\ FreeCursors
  /\ early' = (main.pc = "mark" /\ early)
  /\ Goto(s, "pop")
  /\ UNCHANGED <<connected, os, rebuilt, main, hand, client, told>>

Others(s) == {t \in Senders \ {s} : hand[t] # Null \/ spc[t] = "clean"}

PoppedAll(q) == <<>>
Popped(q) == Tail(q)

(* The thread asked for the client at the top of its loop, not here.       *)
PopCursor(s) ==
  /\ spc[s] = "pop"
  /\ \/ /\ queue = <<>>
        /\ Goto(s, "top")
        /\ UNCHANGED <<queue, hand, overlap>>
     \/ /\ queue # <<>>
        /\ hand' = [hand EXCEPT ![s] = Head(queue)]
        /\ queue' = Popped(queue)
        /\ Goto(s, "sending")
        /\ overlap' = (overlap \/ ~connected \/ Others(s) # {})
  /\ UNCHANGED <<sent, connected, os, rebuilt, main, client, told, early, last>>

(* What the client makes of CURSOR: it keeps an image under its serial     *)
(* number, and cannot show a reference to one it does not have.            *)
Received(f) ==
  IF HasData(f)
  THEN [client EXCEPT !.form[f.cursor] = f.form, !.shows = f.cursor]
  ELSE IF client.form[f.cursor] = Null
  THEN [client EXCEPT !.unknown = TRUE]
  ELSE [client EXCEPT !.shows = f.cursor]

HandKept(s) == hand
HandFreed(s) == [hand EXCEPT ![s] = Null]

SendCursor(s) ==
  /\ spc[s] = "sending"
  /\ client' = Received(hand[s])
  /\ hand' = HandFreed(s)
  /\ Goto(s, "top")
  /\ UNCHANGED <<sent, queue, connected, os, rebuilt, main, told, early, last,
                 overlap>>

-----------------------------------------------------------------------------
MainStep ==
  \/ \E c \in Cursor : SetCursor(c)
  \/ AddSentCursor \/ AddCursorToQueue
  \/ ClientGone \/ Hangup \/ RebuildCaches
  \/ \E o \in {Web, OtherOS} : ClientVersion(o)
  \/ \E s \in Senders : Accept(s)

SenderStep(s) ==
  \/ CheckConnected(s) \/ TakeRebuild(s) \/ SendReinit(s)
  \/ CleanEverything(s) \/ PopCursor(s) \/ SendCursor(s)

Next == MainStep \/ \E s \in Senders : SenderStep(s)

Spec == Init /\ [][Next]_vars

(* The loop of a sending thread runs until its client has left.            *)
FairSpec == Spec /\ \A s \in Senders : WF_vars(SenderStep(s))

-----------------------------------------------------------------------------
(* Properties.                                                             *)

(* The shape of the state.  A thread has a frame in hand exactly while it  *)
(* is about to send it, and the main thread exactly within                 *)
(* remote_sendCursor.                                                      *)
TypeOK ==
  /\ sent \in SUBSET Cursor
  /\ queue \in Seq(Frames)
  /\ connected \in BOOLEAN /\ rebuilt \in BOOLEAN
  /\ os \in {Web, OtherOS}
  /\ main \in [pc : {"idle", "mark", "enqueue"}, frame : Frames \cup {Null}]
  /\ main.frame = Null <=> main.pc = "idle"
  /\ spc \in [Senders -> {"none", "top", "serve", "reinit", "clean", "pop",
                          "sending", "exit"}]
  /\ hand \in [Senders -> Frames \cup {Null}]
  /\ \A s \in Senders : hand[s] # Null <=> spc[s] = "sending"
  /\ client \in [form : [Cursor -> Forms \cup {Null}],
                 shows : Cursor \cup {Null}, unknown : BOOLEAN,
                 web : BOOLEAN]
  /\ told \in BOOLEAN /\ early \in BOOLEAN /\ overlap \in BOOLEAN
  /\ last \in Cursor \cup {Null}

(* Between REINIT and the cleanup the two sides disagree on purpose.       *)
Rebuilding == \E s \in Senders : spc[s] = "clean"

Orderly == ~overlap /\ ~Rebuilding

(* Everything on its way to the client, in the order it will get there.    *)
(* Only used while at most one thread has a frame in hand.                 *)
OnTheWay ==
  IF InHand = {} THEN queue ELSE <<CHOOSE f \in InHand : TRUE>> \o queue

(* The client has c, or will have when it has read the first n frames.     *)
HasAfter(c, n) ==
  \/ connected /\ client.form[c] # Null
  \/ \E i \in 1 .. n : OnTheWay[i].cursor = c /\ HasData(OnTheWay[i])

(* "cursor is already sent to client" is true of every frame with size 0   *)
(* (x2gokdriveremote.h:264): the image is ahead of the reference on the    *)
(* way to the client or has arrived.  The look-up and the queueing are two *)
(* critical sections, so this needs that nothing but a cleanup shortens    *)
(* the list, and the order of the queue.                                   *)
ReferencesResolve ==
  Orderly =>
    /\ ~client.unknown
    /\ \A n \in DOMAIN OnTheWay :
         ~HasData(OnTheWay[n]) => HasAfter(OnTheWay[n].cursor, n - 1)
    /\ main.pc = "enqueue" /\ ~HasData(main.frame) =>
         HasAfter(main.frame.cursor, Len(OnTheWay))

(* The list of sent cursors is what the client has or is about to get,     *)
(* whichever connection the images were queued in: across disconnections,  *)
(* SIGHUP within remote_sendCursor, rebuilds, and cursors set while there  *)
(* is no client.  So no image is transferred twice to one client.          *)
SentListIsExact ==
  Orderly =>
    /\ \A c \in Cursor :
         c \in sent <=> \/ HasAfter(c, Len(OnTheWay))
                        \/ main.pc = "enqueue" /\ main.frame.cursor = c
    /\ \A n \in DOMAIN OnTheWay :
         HasData(OnTheWay[n]) => ~HasAfter(OnTheWay[n].cursor, n - 1)

(* Once everything is delivered the client shows the cursor that was set   *)
(* last, unless a cleanup dropped it.                                      *)
LastCursorIsShown ==
  Orderly /\ connected /\ OnTheWay = <<>> /\ last # Null =>
    client.shows = last

(* The web client can draw every image, and no other client gets a PNG,    *)
(* when no image was encoded before the client told which one it is.  An   *)
(* image encoded earlier, while no client was there or before              *)
(* CLIENTVERSION, keeps the form of the client before, and being listed as *)
(* sent it is never encoded again.                                         *)
ImagesFitClient ==
  Orderly /\ connected /\ told /\ ~early =>
    LET fits(c, form) == c \in Argb => (form = "png" <=> client.web)
    IN  /\ \A c \in Cursor : client.form[c] # Null => fits(c, client.form[c])
        /\ \A n \in DOMAIN OnTheWay :
             HasData(OnTheWay[n]) =>
               fits(OnTheWay[n].cursor, OnTheWay[n].form)

(* A queued cursor does not stay: the thread sends what is in front of it, *)
(* or the client leaves (the queue of a client that left waits for the     *)
(* next one).                                                              *)
CursorsAreDelivered ==
  \A c \in Cursor :
    (connected /\ main.pc = "idle" /\ last = c)
      ~> (client.shows = c \/ last # c \/ ~connected \/ overlap)
=============================================================================
