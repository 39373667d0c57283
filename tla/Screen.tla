------------------------------- MODULE Screen -------------------------------
(***************************************************************************)
(* How the picture of the X server reaches the client: x2gokdrive.c        *)
(* notices that something was drawn and either paints the changes          *)
(* (ephyrShadowUpdate, remote_paint_rect) or encodes the screen as video   *)
(* (ephyrScreenBlockHandler, encode_main_img4); the sending thread sends   *)
(* the painted frames, the main image after each resize, and when it has   *)
(* nothing else to do the parts of the screen that were only sent with     *)
(* losses.  A resize replaces all buffers (remote_screen_init).            *)
(*                                                                         *)
(* The screen is a row of tiles, one for each dirty region of the code;    *)
(* what is drawn in a tile is a member of Contents.  A message that is     *)
(* sent is drawn by the client at once.  The frame cache, the division of  *)
(* changes into rectangles, the two sending threads of two connections     *)
(* and the states of the agent are in other modules.                       *)
(***************************************************************************)
EXTENDS Integers, Sequences, FiniteSets

CONSTANTS
  Widths,       \* sizes of the screen, in tiles
  Contents,     \* what may be drawn in a tile
  Black,        \* what remote_screen_init leaves there
  RequestBound  \* what X clients and the client do, for model checking only

ASSUME ScreenAssumption ==
  /\ Widths \subseteq Nat \ {0} /\ \E w \in Widths : \A x \in Widths : x <= w
  /\ Black \in Contents

VARIABLES
  compression,  \* "images" for JPEG and PNG, "video" for H264
  shadow,       \* scrpriv->shadow: "no"; "once", until the first resize;
                \* or "always"
  width,        \* of main_img
  drawn,        \* the frame buffer the X server draws in
  picture,      \* main_img, the same unless there is a shadow
  known,        \* second_buffer: what the client was given or will be
  buffers,      \* second_buffer and screen_regions: "none", "live", "freed"
  regions,      \* length of screen_regions
  marked,       \* the tiles with a quality in screen_regions
  damaged,      \* something was drawn since the last painting or encoding
  encoder,      \* "new" until it has encoded its first picture
  rotating,     \* ephyrShadowUpdate is writing main_img
  painting,     \* areas the main thread has yet to give to add_frame
  online,       \* client_connected
  initialized,  \* client_initialized
  rebuilt,      \* cache_rebuilt
  queue,        \* the send queue
  thread,       \* "none", "idle" or "send", with the element it sends in hand
  hand,
  client,       \* what the client shows in each tile, and how it got it
  decoding,     \* the client has the first picture of the encoder
  lost,         \* history: tiles whose frame was dropped, not sent again since
  switched,     \* history: images once, video now
  shrunk,       \* history: the screen shrank while something was to be sent
  fault,        \* memory misused, and how: "no" as long as it is not
  requests      \* how much of that was done

work == <<queue, thread, hand>>
screen == <<drawn, picture>>
server == <<compression, shadow, width, known, buffers, regions, encoder>>
history == <<lost, switched, shrunk>>
status == <<online, initialized, rebuilt>>
shown == <<client, decoding>>
vars == <<server, screen, marked, damaged, rotating, painting, status, work,
          shown, history, fault, requests>>

MaxWidth == CHOOSE w \in Widths : \A x \in Widths : x <= w
AllTiles == 1 .. MaxWidth
Tiles == 1 .. width
Rotated == shadow # "no"

Nothing == [kind |-> "none", area |-> {}, content |-> <<>>]
Elements == {queue[i] : i \in DOMAIN queue}
InFlight == Elements \cup (IF thread = "send" THEN {hand} ELSE {})

Init ==
  /\ compression \in {"images", "video"} /\ shadow \in {"no", "once", "always"}
  /\ width \in Widths
  /\ drawn = [t \in AllTiles |-> Black] /\ picture = drawn /\ known = drawn
  /\ buffers = (IF compression = "images" THEN "live" ELSE "none")
  /\ regions = (IF compression = "images" THEN width ELSE 0)
  /\ marked = {} /\ damaged = FALSE /\ encoder = "new"
  /\ rotating = FALSE /\ painting = <<>>
  /\ online = FALSE /\ initialized = FALSE /\ rebuilt = FALSE
  /\ queue = <<>> /\ thread = "none" /\ hand = Nothing
  /\ client = [t \in AllTiles |-> [content |-> Black, how |-> "exact"]]
  /\ decoding = FALSE /\ lost = AllTiles
  /\ switched = FALSE /\ shrunk = FALSE /\ fault = "no"
  /\ requests = 0

(* What follows the misuse of memory is not modelled: the system stops.    *)
Fault(how) ==
  /\ fault' = how
  /\ UNCHANGED <<server, screen, marked, damaged, rotating, painting, status,
                 work, shown, history, requests>>

-----------------------------------------------------------------------------
(* The main thread: drawing, painting, encoding.                           *)

MainFree == fault = "no" /\ ~rotating /\ painting = <<>>

Request == requests < RequestBound /\ requests' = requests + 1

(* External: an X client draws.  The frame buffer is main_img itself, or a *)
(* buffer of its own if the screen is rotated or reflected.                *)
Draw(t, c) ==
  /\ MainFree /\ Request /\ t \in Tiles
  /\ drawn' = [drawn EXCEPT ![t] = c]
  /\ picture' = IF Rotated THEN picture ELSE drawn'
  /\ damaged' = TRUE
  /\ UNCHANGED <<server, marked, rotating, painting, status, work, shown,
                 history, fault>>

(* A rotated screen: ephyrShadowUpdate first has what was drawn rotated    *)
(* into main_img.  That takes no mutex: the sending thread may copy        *)
(* main_img meanwhile.                                                     *)
Rotate(t) ==
  /\ fault = "no" /\ painting = <<>> /\ damaged /\ Rotated
  /\ t \in Tiles /\ picture[t] # drawn[t]
  /\ picture' = [picture EXCEPT ![t] = drawn[t]]
  /\ rotating' = TRUE
  /\ UNCHANGED <<server, drawn, marked, damaged, painting, status, work, shown,
                 history, fault, requests>>

Changed == {t \in Tiles : picture[t] # known[t]}

(* The changes as one area, or tile by tile (Painting).                    *)
Divisions ==
  IF Changed = {} THEN {<<>>}
  ELSE {<<Changed>>} \cup
       {s \in [1 .. Cardinality(Changed) -> {{t} : t \in Changed}] :
          \A t \in Changed : \E i \in DOMAIN s : s[i] = {t}}

(* Then remote_paint_rect compares the whole screen, which needs           *)
(* second_buffer.                                                          *)
PaintRect ==
  /\ fault = "no" /\ painting = <<>> /\ damaged /\ Rotated
  /\ \A t \in Tiles : picture[t] = drawn[t]
  /\ \/ /\ buffers # "live"
        /\ Fault("unallocated")
     \/ /\ buffers = "live"
        /\ painting' \in Divisions
        /\ known' = [t \in AllTiles |-> IF t \in Tiles THEN picture[t]
                                        ELSE known[t]]
        /\ damaged' = FALSE /\ rotating' = FALSE
        /\ UNCHANGED <<compression, shadow, width, buffers, regions, encoder,
                       screen, marked, status, work, shown, history, fault,
                       requests>>

CanQueue == online /\ initialized /\ ~rebuilt

EnqueuedFirst(e) == <<e>> \o queue

Enqueued(e) == Append(queue, e)

(* add_frame: queued if a client is there and no rebuild is pending.       *)
(* Otherwise the frame is lost, as nothing notes its area.                 *)
Add(kind, area) ==
  /\ queue' = IF CanQueue
              THEN Enqueued([kind |-> kind, area |-> area,
                             content |-> picture])
              ELSE queue
  /\ lost' = IF CanQueue THEN lost \ area ELSE lost \cup area

AddFrame ==
  /\ fault = "no" /\ painting # <<>>
  /\ Add("frame", Head(painting))
  /\ painting' = Tail(painting)
  /\ UNCHANGED <<server, screen, marked, damaged, rotating, status, thread,
                 hand, shown, switched, shrunk, fault, requests>>

(* A screen that is not rotated: ephyrInternalDamageRedisplay encodes it   *)
(* and writes the outcome to the client, whatever the compression.  The    *)
(* client can decode it from the first picture of the encoder on.          *)
EncodeMainImg ==
  /\ MainFree /\ damaged /\ ~Rotated
  /\ damaged' = FALSE /\ encoder' = "used"
  /\ IF online
     THEN /\ decoding' = (decoding \/ encoder = "new")
          /\ client' = IF decoding'
                       THEN [t \in AllTiles |->
                               IF t \in Tiles
                               THEN [content |-> picture[t], how |-> "video"]
                               ELSE client[t]]
                       ELSE client
     ELSE UNCHANGED <<decoding, client>>
  /\ UNCHANGED <<compression, shadow, width, known, buffers, regions, screen,
                 marked, rotating, painting, status, work, history, fault,
                 requests>>

-----------------------------------------------------------------------------
(* The main thread: events of the client.                                  *)

(* A client is served; the options read before may have chosen video, and  *)
(* never choose images again.  It has decoded nothing yet.  The sending    *)
(* thread is only started for images.                                      *)
Connect ==
  /\ MainFree /\ Request /\ ~online /\ thread = "none"
  /\ compression' \in {compression, "video"}
  /\ switched' = (switched \/ compression' # compression)
  /\ online' = TRUE /\ initialized' = FALSE
  /\ decoding' = FALSE /\ lost' = AllTiles
  /\ client' = [t \in AllTiles |-> [content |-> Black, how |-> "exact"]]
  /\ thread' = IF compression' = "images" THEN "idle" ELSE "none"
  /\ UNCHANGED <<shadow, width, known, buffers, regions, encoder, screen,
                 marked, damaged, rotating, painting, rebuilt, queue, hand,
                 shrunk, fault>>

(* disconnect_client, with clean_everything.                               *)
Disconnect ==
  /\ MainFree /\ online
  /\ online' = FALSE /\ queue' = <<>>
  /\ UNCHANGED <<server, screen, marked, damaged, rotating, painting,
                 initialized, rebuilt, thread, hand, shown, history, fault,
                 requests>>

(* The early return for a size the screen has is commented out (876): a    *)
(* client that takes over the session needs what a resize does.            *)
NeededIfNew(w) == w # width

Needed(w) == TRUE

(* The buffers for images are freed if there are any, but not set to NULL. *)
FreedAlways == "freed"

Freed == IF buffers = "none" THEN "none" ELSE "freed"

(* memset clears the new regions.                                          *)
MarksKept == marked

Marks == {}

(* GEOMETRY: ephyrResizeScreen, ephyrRandRSetConfig, remote_screen_init.   *)
(* The screen gets new buffers and an encoder, the X server exposes it     *)
(* all, and the main image is queued.  The buffers for images are only     *)
(* replaced for images, but always freed.  The rotation the server was     *)
(* started with is added to itself: two quarter turns are a half turn,     *)
(* which still needs a shadow, but two half turns or reflections are none. *)
Geometry(w) ==
  /\ MainFree /\ Request /\ online
  /\ initialized' = TRUE
  /\ IF ~Needed(w)
     THEN UNCHANGED <<server, screen, marked, damaged, rotating, painting,
                      online, rebuilt, work, shown, history, fault>>
     ELSE \/ /\ buffers = "freed"
             /\ fault' = "freed twice"
             /\ UNCHANGED <<server, screen, marked, damaged, rotating,
                            painting, online, rebuilt, work, shown, history>>
          \/ /\ buffers # "freed"
             /\ width' = w
             /\ shadow' = IF shadow = "once" THEN "no" ELSE shadow
             /\ drawn' = [t \in AllTiles |-> Black] /\ picture' = drawn'
             /\ IF compression = "images"
                THEN /\ buffers' = "live" /\ regions' = w /\ marked' = Marks
                     /\ known' = picture'
                ELSE /\ buffers' = Freed
                     /\ UNCHANGED <<regions, marked, known>>
             /\ encoder' = "new" /\ decoding' = FALSE /\ damaged' = TRUE
             /\ shrunk' = (shrunk \/ (w < width /\ InFlight # {}))
             /\ queue' = IF rebuilt THEN queue
                         ELSE Enqueued([kind |-> "main", area |-> 1 .. w,
                                        content |-> picture'])
             /\ lost' = IF rebuilt THEN AllTiles ELSE {}
             /\ UNCHANGED <<compression, rotating, painting, online, rebuilt,
                            thread, hand, client, switched, fault>>

(* UPDATE: the client asks for a part of the screen.                       *)
Update(area) ==
  /\ MainFree /\ Request /\ online /\ area # {} /\ area \subseteq Tiles
  /\ Add("update", area)
  /\ UNCHANGED <<server, screen, marked, damaged, rotating, painting, status,
                 thread, hand, shown, switched, shrunk, fault>>

(* CACHEREBUILD.                                                           *)
RebuildCaches ==
  /\ MainFree /\ Request /\ online /\ ~rebuilt
  /\ rebuilt' = TRUE
  /\ UNCHANGED <<server, screen, marked, damaged, rotating, painting, online,
                 initialized, work, shown, history, fault>>

-----------------------------------------------------------------------------
(* The sending thread.                                                     *)

Idle == fault = "no" /\ thread = "idle"

Exit ==
  /\ Idle /\ ~online
  /\ thread' = "none"
  /\ UNCHANGED <<server, screen, marked, damaged, rotating, painting, status,
                 queue, hand, shown, history, fault, requests>>

(* Nothing that was queued is sent after a rebuild.                        *)
Rebuild ==
  /\ Idle /\ online /\ rebuilt
  /\ rebuilt' = FALSE /\ queue' = <<>>
  /\ lost' = lost \cup UNION {e.area : e \in Elements}
  /\ UNCHANGED <<server, screen, marked, damaged, rotating, painting, online,
                 initialized, thread, hand, shown, switched, shrunk, fault,
                 requests>>

MarkedByFirst(e) ==
  {t \in e.area : e.kind # "main" /\ \A u \in e.area : t <= u}

(* markDirtyRegions: the area of the element, which has no size for the    *)
(* main image.                                                             *)
MarkedBy(e) == IF e.kind = "main" THEN {} ELSE e.area

TakeElement ==
  /\ Idle /\ queue # <<>>
  /\ \/ /\ ~(MarkedBy(Head(queue)) \subseteq 1 .. regions)
        /\ Fault("beyond the end")
     \/ /\ MarkedBy(Head(queue)) \subseteq 1 .. regions
        /\ marked' = marked \cup MarkedBy(Head(queue))
        /\ hand' = Head(queue) /\ queue' = Tail(queue)
        /\ thread' = "send"
        /\ UNCHANGED <<server, screen, damaged, rotating, painting, status,
                       shown, history, fault, requests>>

UnmarkNothing(t) == marked

Unmark(t) == marked \ {t}

(* getDirtyScreenRegion and send_dirty_region, when the wait for something *)
(* to do has timed out.                                                    *)
TakeRegion(t) ==
  /\ Idle /\ online /\ queue = <<>> /\ ~rebuilt /\ t \in marked
  /\ marked' = Unmark(t)
  /\ hand' = [kind |-> "region", area |-> {t}, content |-> <<>>]
  /\ thread' = "send"
  /\ UNCHANGED <<server, screen, damaged, rotating, painting, status, queue,
                 shown, history, fault, requests>>

(* A frame has the content it was queued with; the others are copied from  *)
(* main_img when they are sent (sendMainImageFromSendThread).              *)
Content(e) == IF e.kind = "frame" THEN e.content ELSE picture

AreaSent(e) == IF e.kind = "main" THEN Tiles ELSE e.area

(* Regions are sent as PNG, everything else with losses.                   *)
How(e) == IF e.kind = "region" THEN "exact"
          ELSE IF e.kind = "main" THEN "main" ELSE "frame"

Send ==
  /\ fault = "no" /\ thread = "send"
  /\ \/ /\ hand.kind # "frame" /\ ~(AreaSent(hand) \subseteq Tiles)
        /\ Fault("beyond the end")
     \/ /\ hand.kind = "frame" \/ AreaSent(hand) \subseteq Tiles
        /\ client' = IF online
                     THEN [t \in AllTiles |->
                             IF t \in AreaSent(hand)
                             THEN [content |-> Content(hand)[t],
                                   how |-> How(hand)]
                             ELSE client[t]]
                     ELSE client
        /\ thread' = "idle" /\ hand' = Nothing
        /\ UNCHANGED <<server, screen, marked, damaged, rotating, painting,
                       status, queue, decoding, history, fault, requests>>

-----------------------------------------------------------------------------
SenderNext ==
  \/ Exit \/ Rebuild \/ TakeElement \/ Send
  \/ \E t \in AllTiles : TakeRegion(t)

Next ==
  \/ \E t \in AllTiles, c \in Contents : Draw(t, c)
  \/ \E t \in AllTiles : Rotate(t)
  \/ PaintRect \/ AddFrame \/ EncodeMainImg
  \/ Connect \/ Disconnect
  \/ \E w \in Widths : Geometry(w)
  \/ \E area \in SUBSET AllTiles : Update(area)
  \/ RebuildCaches
  \/ SenderNext

Spec == Init /\ [][Next]_vars

(* The sending thread goes on as long as it runs: it never waits for more  *)
(* than 100 ms.                                                            *)
FairSpec == Spec /\ WF_vars(SenderNext)

-----------------------------------------------------------------------------
(* Properties.                                                             *)

TypeOK ==
  /\ compression \in {"images", "video"} /\ shadow \in {"no", "once", "always"}
  /\ width \in Widths /\ regions \in Widths \cup {0}
  /\ drawn \in [AllTiles -> Contents]
  /\ picture \in [AllTiles -> Contents] /\ known \in [AllTiles -> Contents]
  /\ buffers \in {"none", "live", "freed"}
  /\ marked \subseteq 1 .. regions
  /\ damaged \in BOOLEAN /\ rotating \in BOOLEAN
  /\ online \in BOOLEAN /\ initialized \in BOOLEAN
  /\ rebuilt \in BOOLEAN /\ decoding \in BOOLEAN
  /\ switched \in BOOLEAN /\ shrunk \in BOOLEAN
  /\ encoder \in {"new", "used"}
  /\ thread \in {"none", "idle", "send"}
  /\ (hand # Nothing) = (thread = "send")
  /\ client \in [AllTiles -> [content : Contents,
                             how : {"exact", "frame", "main", "video"}]]
  /\ lost \subseteq AllTiles
  /\ fault \in {"no", "unallocated", "freed twice", "beyond the end"}

Served == fault = "no" /\ online /\ initialized
ByFrames == Served /\ compression = "images" /\ Rotated
Settled == ~damaged /\ painting = <<>> /\ InFlight = {}

(* A client that is given images shows what was drawn once all is painted, *)
(* queued and sent, although second_buffer counts a change as known when   *)
(* it is found, frames, main images and parts that are sent again are      *)
(* copied at different times, and a copy may be taken while the screen is  *)
(* rotated.  One thing breaks it: a frame that add_frame or a rebuild      *)
(* drops.  A client that is given video shows what was drawn once it is    *)
(* encoded, also when it takes over a session: the GEOMETRY event it       *)
(* begins with makes a new encoder and exposes the screen.                 *)
SettledIsShown ==
  /\ ByFrames /\ Settled =>
       \A t \in Tiles \ lost : client[t].content = drawn[t]
  /\ Served /\ compression = "video" /\ ~Rotated /\ ~damaged =>
       \A t \in Tiles : client[t].content = drawn[t]

(* What a frame showed with losses stays marked until it is sent again     *)
(* without, whatever resizes, rebuilds and new frames come between.        *)
LossIsMarked ==
  ByFrames =>
    \A t \in Tiles \ lost :
      client[t].how = "frame" =>
        t \in marked \/ \E e \in InFlight : t \in e.area

(* Memory is only misused after the screen shrank with something yet to be *)
(* sent, after a change from images to video, or when a rotated screen is  *)
(* used with video.                                                        *)
FaultsAreKnown ==
  /\ fault = "beyond the end" => shrunk
  /\ fault = "freed twice" => switched
  /\ fault = "unallocated" => compression = "video" /\ Rotated

Quiet == ByFrames /\ queue = <<>> /\ ~rebuilt

(* When nothing else is to be sent the whole screen gets its quality back. *)
QuietRefines == <>[]Quiet => <>[](marked = {})
=============================================================================
