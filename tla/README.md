# TLA+ specifications of x2gokdrive

x2gokdrive is an X server (a kdrive driver of X.Org) without a screen: what
applications paint is sent to one remote client at a time, which can leave and
come back while the session goes on. The program is a single process with
three kinds of threads and signal handlers that run on top of the main thread:

- the **main thread** is the X server. It executes the requests of X
  applications, reads the events of the client, runs timers, and turns painted
  regions into *frames*;
- a **sending thread** per connection (`send_frame_thread`) takes frames,
  cursors, window changes and selection data from queues and writes them to the
  client;
- one **selection thread**, an X client of the server it runs in, exchanges
  the clipboard with X applications;
- **SIGHUP** suspends and resumes the session, **SIGTERM** ends it.

Almost all state is in one global structure, `remoteVars`, protected in part by
`sendqueue_mutex`, `inMutex` (selections) and `mainimg_mutex` (the picture of the
screen). The difficulties of the program come from there: work is split over several
critical sections of several threads, cleanups of a lost connection come in
between, and caches on both sides of the connection must agree without
acknowledgements.

Line numbers without a file name are those of `x2gokdriveremote.c`.

## Inventory

| Component | State | Operations | Interacts through | Modules |
|---|---|---|---|---|
| Session | `agentState`, listening socket, client socket, connection and keepalive timers, thread ids, compression | `serverAcceptNotify` (3276), `disconnect_client` (2443), `set_client_version` (3197), `terminateServer` (3550), `remote_handle_signal` (154), `checkSocketConnection` (3253), `checkClientAlive` (2727) | state file, signals, sockets | `AgentSession`, `Session` |
| Frame cache and send queue | LRU list of `cache_elem` with busy counts, `sendqueue_element` list, `client_connected`, `client_initialized`, `cache_rebuilt` | `add_frame` (4273), `initFrameRegions` (4056), `clear_frame_cache` (2320), `clear_send_queue`, the frame part of `send_frame_thread` (2006-2271), `clean_everything` (5606) | `sendqueue_mutex`, FRAME and DELETED messages | `FrameCache` |
| Painting and dirty regions | main image, second buffer, `screen_regions` | `remote_paint_rect` (4933), `markDirtyRegions` (5423), `send_dirty_region` (5467), `remote_screen_init` (5312) | `mainimg_mutex`, `add_frame`, damage of the X server | `Screen`, `Painting` |
| Matching of moved content | pixels of two frames | `find_best_match` (799), `checkScrollUp/Down`, `checkEquality`, `find_common_regions` (1444), regions of `initFrameRegions` | called by `add_frame` | `Matching` |
| Selections | `inSelection`, delayed requests, INCR transactions, output chunks | `readInputSelectionHeader` (2572), `x2gokdriveselection.c` | `inMutex`, `sendqueue_mutex`, X events, client messages | `Selection` |
| Cursors | list of sent cursors, cursor queue | `remote_sendCursor` (325), `send_cursor` (420), `freeCursors` (255) | `sendqueue_mutex`, CURSOR messages | `Cursors` |
| Rootless windows | `windowList`, `windowsUpdated` | `remote_check_window` (4369), `remote_process_window_updates` (1616), `client_win_change` (3043) | `sendqueue_mutex`, WINUPDATE and WINCHANGE | `Windows` |
| Input events | `eventBuffer`, `evBufferOffset` | `clientReadNotify` (2903), `remote_process_client_event` | client socket | `Events` |
| UDP datagrams | packet sequence numbers | `send_packet_as_datagrams` (5497) | UDP socket | `Datagrams` |
| Encoders, X server glue, options | encoder, shadow, options | `encode_main_img4`, `ephyrScreenBlockHandler`, `ephyrShadowUpdate`, `ephyrResizeScreen` | damage, client messages | where they matter: `Screen`, `AgentSession` |
| Statistics, logging, packaging | counters | | | not modelled |

What must be right in each of them, and is hard to test because it takes a
certain interleaving or a certain geometry:

- *Session*: what is reported follows the life of a session; a session that
  waits for a client stops waiting; a connected client has a thread and an open
  socket; threads end.
- *Frame cache*: an element is never freed while something points to it; its
  busy count is exact, or it is never evicted or evicted too early; the client
  can draw each frame from what it has; the two caches agree.
- *Painting*: the client ends up with what was drawn, although pictures are copied
  at different times; loss of quality is repaired; buffers replaced by a resize
  are not used beyond their end.
- *Algorithms*: no pixel that changed is left out; a frame described by an
  older one comes out right; nothing outside the pixels is read.
- *Selections*: every paste gets one answer, with whole and current data; data
  waited for were asked for; a transfer to the client has a beginning and an
  end.
- *Cursors*: a reference never precedes the image; the list of sent cursors is
  exact; the cursor set last is shown.
- *Windows*: marks are not lost between two threads; after the windows settle
  the client shows what is on the screen.
- *Streams*: events and packets cut into pieces are put together again.

`PROJECT.json` lists each hazard at the line where it bites.

## Modules

The models share conventions. A critical section of the main thread is one
action. A sending thread is a program counter per connection (`spc`, or
`thread` in `AgentSession`), and a step without the mutex is an action of its
own, so whatever another thread may do there is explored. Two connections mean two
sending threads, because the thread of a client that left may still be running
when the next client is accepted. SIGHUP may interrupt the main thread between
any two of its actions. What follows the use of freed memory is not modelled.
Pictures, images and clipboard data are represented by a checksum, an encoding or a
version number, except where the algorithm is about pixels (`Painting`,
`Matching`).

Next to some definitions stands a variant that is not used in a specification
(`EvictableAlways`, `MarksKept`, `UnmarkNothing`, ...). Each is a
plausible mistake in the code of its neighbour: with it in place the property named
in `PROJECT.json` ("mutants") is violated.

History variables (`overlap`, `survivor`, `interrupted`, `stale`, `early`,
`crossed`, `recycled`, `lost`, `round`, `settled`, `mixed`, ...) are read only by
properties. They name the circumstances under which the code is known not to
keep a promise, and the properties say what holds otherwise.

### AgentSession and Session

`agentState`, `listening`, `timer`, `clientsock` and `connected` are the fields of
`remoteVars` with these roles. `mainpc` says where the main thread is: accepting a client
takes several actions (`AcceptClient`, `RejectClient` or `WelcomeClient`,
`StartThread`), since signals may arrive in between. A handler that needs
`sendqueue_mutex` runs when it is free, or blocks for ever on top of a critical section of the
main thread itself (`SelfLock`). `TerminateServer` is
`terminateServer` up to the join; `ReadThreadId`, `JoinThread`, `CancelThread`
and `DestroyAll` are the rest. Compression by H264, which uses no thread, is
chosen at the start and whenever the session resumes (`Options`).
`send_dirty_region` sets the global compression to PNG for one message and puts
the old value back (`RestoreCompression`, thread state "refine"), which is visible
when the session resumes meanwhile.

`aliveTimer` is `checkKeepAliveTimer`. `SetClientVersion` starts it for clients
from version 3 on; a second CLIENTVERSION overwrites the pointer, and the first
timer goes on (`leaked`) and is freed by nobody. `LeakedTimerFires` is what it does,
also when its client is gone and the session waits for the next (`stale`).

`survivor` records that a client was accepted while an earlier thread was
alive. Then the earlier thread may close the socket of the new client
(`CloseClientSocket` closes whatever `clientsock_tcp` is) and the properties
about service say nothing. Nothing in the code excludes this case; a client
that reconnects immediately may meet it.

`Session` is the abstract specification: a state, somebody who knocks, and a
client, and the eight things that may happen to them. `KeepsPromise` is the
refinement: `state` is `agentState`, somebody knocks while `mainpc` is
"accepted", and there is a client while `connected`. It says in particular
that a client leaves only from RUNNING and is reported at once, that what
terminates does nothing else, and that a forgotten timer suspends nobody twice.

### FrameCache

`cache` is the LRU list, `el` the contents of its elements, `queue` the send
queue. `main.pc` follows `add_frame` through its critical sections: find or add
the element (`AddFrame`, 4280-4311), find a match (`MatchFrame`, 4071), compare
without mutex (`FindRegions`), release the match (`ReleaseMatch`, 4192),
compress (`CompressRegions`), queue (`Enqueue`, 4322). A sending thread goes
through `Lock`, `CheckConnected`, `TakeRebuild`, `PopFrame`, `SendFrame`,
`FinishFrame`; the cleanup of a rebuild, which runs without the mutex (2092-2096),
is two actions, `ClearQueue` and `ClearCache`. `ClientGone` and `Hangup` are
`disconnect_client` between and within calls of `add_frame`. `client` is the set of
checksums the client has: FRAME adds one, DELETED removes, REINIT clears.
Which older frame resembles a new one is a free choice. `Evict` is the loop of
`clear_frame_cache`: it takes the elements from the oldest on, and an element that is
dropped no longer uses its source (`source->busy--`), so `Evictable` counts the users
that are left at its turn. `FreesInTurn` is the case in which the source was freed before: only a
cleanup that overlapped leads there.

The main finding of the model is that busy counts, pointers and the agreement
of the caches hold in every interleaving **unless a cleanup overlaps with work
in progress** (`overlap`). The code does not prevent this: `add_frame` does
not notice that it was disconnected meanwhile, and the cleanup of a rebuild
runs without the mutex its comment requires.

### Screen

The path of a picture from the X server to the client. The screen is a row of
tiles, one per dirty region of the code. `drawn` is the frame buffer the X server
draws in, `picture` is `main_img`, `known` is `second_buffer`. Whether the screen is
rotated or reflected (`shadow`) decides how one comes into the other, and which code sends it:

- With a shadow, applications draw in a frame buffer of its own
  (x2gokdrive.c:260-268). `ephyrShadowUpdate` first has it rotated into `main_img`
  (`Rotate`, a tile at a time, since no mutex is held and the sending thread may copy
  meanwhile), and then `remote_paint_rect` compares the whole of it with `second_buffer`
  and gives what changed to `add_frame` (`PaintRect`, `AddFrame`).
- Without one, `main_img` is the frame buffer, `second_buffer` is not used, and
  `ephyrInternalDamageRedisplay` writes the outcome of `encode_main_img4` to the client
  (`EncodeMainImg`).

`Geometry` is the resize by the client with everything that happens in it, `Update` and
`RebuildCaches` are other requests of the client. The rotation the server was started
with is added to itself by a resize, so a shadow stays ("always", a quarter turn)
or is gone after the first one ("once", a half turn or a reflection).
The sending thread takes a queued element and marks its tiles (`TakeElement`),
sends it (`Send`), empties the queue at a rebuild (`Rebuild`), and when there is
nothing else takes a marked tile and sends it without losses (`TakeRegion`). A
frame carries the content it was queued with; main images, requested parts and
dirty regions are copied from `picture` when they are sent.

Three histories say when promises are not kept. A tile is `lost` while its last
frame was dropped by `add_frame` or by a rebuild: nothing marks it.
`shrunk` and `switched` precede the misuse of memory (`fault`): an element queued for a larger screen
marks regions beyond the end of the new array, and
buffers that a change from images to video left freed are freed again.

### Painting

`Painted(dirty)` is the list of rectangles `remote_paint_rect` gives to
`add_frame` for a set of changed pixels: the bounding box is scanned in four
quarters from its centre (`Scan`), pixels are collected into regions
(`Collect`), regions are united where that is less to send (`United`), and the
regions are taken if they are less than the box. The code ends the scan of a
quarter when a coordinate *equals* its end (5151, 5154) and would miss an end that
lies before the start; a box of up to four pixels is not scanned (`Split`), and
`ScanEnds` states that with this no quarter is empty. It assumes that `Small`, 4 in
the code, is at least 2.

### Matching

`BestMatch` is `find_best_match` with its two early ends. `ScrollUp`,
`ScrollDown` and `Samples` are the search for a vertical shift, `Equality` is
`checkEquality`, the growth of the common rectangle from the centre to the four sides,
and `FrameRegions` the division of the rest into at most eight regions with
the union of neighbours. Pixels are an arbitrary function of their place.

### Events and Datagrams

`Events`: a byte is known by its event and its place in it; a read takes any
number of bytes that have arrived, and what is left of an event waits in
`rest`. An event taken out of step may be taken for anything. `cut` records that the reset after
corrupted data (2942) dropped the beginning of an event.
`Datagrams`: a packet is a number with a length; the threads send its pieces with the
sequence number they read again for each (5557). A sequence has `SequenceSize` numbers
(2^16) and begins anew in three ways: after the last number, when `disconnect_client`
cleans everything up in the main thread, whatever the sending thread is doing
(`DropClient`), and at a rebuild of the caches, when the sending thread itself cleans up (2089-2096) while the
same client stays (`RebuildCaches`, `Rebuild`). The history `round` counts how often it did for
this client: datagrams of different rounds may have the same type and number, and
nothing in them tells them apart, so what the client concludes is only right within
one round. REINIT, which is sent before a rebuild, is all a client has to go by. Threads
of earlier clients go on until they notice (`old`, `EndThread`); `overlap` records that a
client came while one was still there. What arrives is left to the
network; the property is about what any subset of the datagrams lets the client conclude.

### Selection

Both directions are one module because they share the selection thread and the
ownership of the selection. The X server, X applications and the client are
external. The main thread reads announcements and chunks (`ReadNotify`,
`ReadChunk`, `ReadRest`, `ReadDemand`); the selection thread first walks the delayed
requests at each event, twice (`Wake`, `ScanDelayed`, `ScanDone`,
`PruneDelayed`, `PruneDone`), and then handles it (`AnswerRequest`, `DelayRequest`, `NextPortion`, `OwnerChanged`,
`DataDemanded`, `ConversionDone`, `PropertyChanged`); the sending thread sends
chunks and requests. X requests of the selection thread take effect at once;
events reach it later in order. Sizes are counted in units of which a chunk, an
event and an INCR portion hold a few. `remote[s].heard` is the version of the
last copy the main thread read of.

A chunk takes an event for its header and first data and more events for the rest
("chunk" and "rest" in `Transfer`). `readInputSelectionHeader` stores what is in its own event; the call of
`readInputSelectionBuffer` for the rest is commented out (2932-2936), so
`ReadRest` stores nothing. A buffer for a kind whose chunks do not fit in an event (`Torn`) is
therefore never completed: the requests for it end with the timeout
(run `selection_rest`), and `RequestedIsAsked` names that as the one case in which the thread
waits for data nobody is going to send. What the main thread makes of the rest when it takes it for an
event of its own is left out.

Things the model showed that no run is dedicated to: delayed requests time out
only when another event wakes the thread; `remove_obsolete_incr_transactions`
walks the list of delayed requests, not that of transactions, so a transaction
whose requestor is gone stays; a data transfer is requested again only after
the next announcement when the connection was lost in between; conversions
that overlap get mixed. All selections share one property of the clipboard
window for each kind of data and one incremental reading (`reading`:
`incrAtom`, `incrementalSizeRead`, `currentSelection`). The data of one selection can therefore be read as
those of another, and a second conversion can take the INCR value of the first for a portion
and then stop its reading, which leaves the client with an unfinished
transfer. The history `mixed` records that a conversion began while another one of data, or one of another
selection, was not over (`Overlaps`), or that the reading of one selection was stopped by an
event of another (`StopReading`). That a transfer begins with its first chunk holds in any
case; that its chunks are of one copy (`TransfersAreWhole`) and that it
ends (`TransfersEnd`) as long as nothing got mixed.

### Cursors

`remote_sendCursor` is three actions, one per critical section: `SetCursor`
looks the serial number up and encodes the image, `AddSentCursor` lists it,
`AddCursorToQueue` queues the frame, connected or not. `sent` is the list of
sent cursors, `hand` the frame a sending thread has taken, `client` what the
client has, in which encoding, and which cursor it shows. `early` records that
an image was encoded before the client it is for told its version:
it is then encoded for the operating system of the client before, and never
encoded again (`ImagesFitClient` excludes it). The model also shows that a new
client is not told the current cursor until some application sets one.
The cleanup of a rebuild is one step here; `FrameCache` shows what its
overlapping with a critical section leads to. The list of deleted cursors is left
out, since `remote_removeCursor` is never called (`ephyrUnrealizeCursor` tests
`hw->cursor`, which nothing sets).

### Windows

`stack` is the window tree (the children of the root, topmost first) with
`win` for their attributes, `list` is `windowList`. `CheckWindows` is
`remote_check_rootless_windows_for_updates`, `ProcessUpdates` and `SendUpdates`
are the two halves of `remote_process_window_updates`, `ChangeWindow` and
`CompareFocus` the two halves of `client_win_change`, before and after it gives
up the mutex. `settled` counts the checks since the last change of the tree
that found nothing left to send: after one the set of windows and their
geometry are right at the client, after a second one the stacking order,
because siblings are looked up among the entries that exist in the middle of a
check (`NextSib`).

Assumed of the client, whose code is elsewhere: it creates a window it does
not know even when the update says CHANGED, and drops its windows on REINIT.
The properties stop where a new window reuses the address or id of one that
still has an entry (`recycled`), and where a request crosses an update
(`crossed`); the protocol has no means to recover from the second.

### MCAlgorithms

Brings together the four modules that do not interleave with the rest
(`Painting`, `Matching`, `Events`, `Datagrams`): each initial state chooses one
of them and an input. `MCAgentSession`, `MCSelection`, `MCCursors` and `MCWindows`
give values to the constants of their modules.

## Runs

| Run | Shows | Bounds |
|---|---|---|
| `session` | the session refines `Session`; timer, listener, service, threads; liveness | 3 clients, 2 signals, 1 forgotten timer |
| `session_sigterm` | **violation**: SIGTERM shuts the server down (man page) | 2 clients, 2 signals |
| `frames_two_clients` | counts, pointers, both caches; the queue drains and postponed evictions happen | 2 contents, 3 elements, `CACHEMAXELEMENTS` 1, queue of 2, 2 connections |
| `screen` | the client shows what was drawn, losses are marked and repaired, memory is misused in known cases only | sizes 1 and 2, 2 contents, 6 requests |
| `algorithms` | rectangles of a repaint, best match, described frames, streams cut into pieces | see below |
| `selection_in` | pastes of announced client data: one answer, whole and current; what is waited for is asked for | 2 pastes, 2 copies, 3 clock ticks; texts of 3 units, images of 5, chunks of 4, events of 3 |
| `selection_out` | copies of applications reach the client whole | 2 selections, 2 copies, 2 connections, 3 units in chunks of 2 |
| `selection_torn` | **violation**: a paste while the next copy arrives is torn | 1 paste, 2 copies that are not announced, sizes as in `selection_in` |
| `selection_rest` | **violation**: the next event has the rest of a chunk (2703) | 1 paste, 1 announced image |
| `cursors` | sent list, references, images, delivery | 2 cursors (one ARGB), 2 connections, queue of 2 |
| `windows` | list and client, settled screen, freed entries | 2 windows, 2 ids, 2 positions, 4 changes, 2 connections |
| `windows_reappear` | **violation**: only windows that are gone are deleted (4433) | as above |

Why these bounds show the interesting cases: with `CACHEMAXELEMENTS` 1, two
contents force an eviction for every other frame, and three elements suffice
for a frame, its source and one queued behind them. Two connections are the least
with which a thread can outlive its client. Two signals are the least with
which the session is suspended and resumed, in the middle of accepting, too.
Two tiles are the least with which one is changed and another not, and a screen can
shrink; six requests suffice to connect, get the geometry, draw, resize or
rebuild and draw again. A selection of 3 units needs two chunks (so first and
last differ) and two INCR portions (so one is partial). In `selection_in` a text
fits in one event, as the few bytes of most texts do, and an image takes two
chunks of which the first does not fit in an event, as in the code, where an event holds
some 20 bytes of data and a chunk up to 100 KB: both ways through
`readInputSelectionHeader` are there, in either order. Two windows are the
least with a stacking order.

The inputs of `algorithms` are all sets of up to three pixels on a canvas of 7
by 6 and all parts of a blot that makes regions overlap, with
`MAXDISTANCETOREGION` 1; up to four older frames of any difference; and frames
of three sizes (the smallest dimensions with a shift of at least two lines,
growing and shrinking between the two frames) that are scrolled by up to three
lines with a wrong pixel anywhere and none, one or a piece of a line or column near the centre. Events have
3 bytes, and a read takes at most 6 of them; packets have up to 3 bytes in datagrams of 2, so the
last one may be short or full. A sequence has 2 numbers, so that the three packets wrap it, and it
may begin anew once.

`SignalBound`, `LeakBound`, `RequestBound`, `QueueBound`, `CopyBound`, `TimeBound`,
`ConnBound`, `ChangeBound`, `EventBound`, `LengthBound`, `PacketBound` and `RoundBound` limit
what the environment does; none of them exists in the code.

`cursors` has the constraint `BeforeOverlap`, `windows` and `windows_reappear` the
constraint `BeforeDisorder`: states in which the history variables that all
properties exclude have become true are not explored further. No property loses anything
by it, as these variables never become false again, except that the type
invariant is checked only up to there and that the liveness property of
`cursors` counts a behaviour that reaches an overlap as one that satisfies it,
which is what the property says. `windows` uses the symmetry of windows, ids and
threads; it checks no liveness.

Deadlock is not checked: an agent that is terminated, a model whose bounds are
used up, and the selection thread without events all rightly stop.

### Fairness

- `FrameCache`: strong fairness of the steps of each sending thread. A thread
  with nothing to do gives up `sendqueue_mutex` in `pthread_cond_timedwait`
  again and again, so another thread that wants it is enabled again and again and gets it
  in the end.
- `Cursors`, `Screen`: weak fairness of the sending thread, a loop that the
  operating system schedules and that never waits longer than 100 ms; writing to the
  client returns, by success or error.
- `AgentSession`: in addition, accepting ends with the thread created or the
  server giving up, critical sections of the main thread end, the connection timer fires
  if it is set (strong fairness: the main thread is busy again and again), and a
  thread gets a mutex that is free infinitely often.

Nothing is assumed of clients, signals or applications. `WaitingEnds` carries
its own premise, that a client that connects sends its cookie or closes: the
code reads it with a blocking `read` (3322) and stops the server otherwise.
`QuietRefines` and `CalmSettles` likewise begin with their premise, that
nothing is painted any more.

## Proofs

The theorems hold for every value of the constants, that is, for any number of
connections, signals, requests, tiles or pixels.

`AgentSessionProofs`, from the assumptions that connections are positive numbers
and that the holders of the mutex are distinct:

- `TypeCorrect`: `Spec => []TypeOK`. The type invariant includes the two facts about
  the mutex the rest needs (a thread that checks for a client holds
  it, and so does a critical section of the main thread), and is inductive.
- `ReportCorrect`, `TimerCorrect`, `ListenerCorrect`: the state file says RUNNING
  exactly while a client is connected, a session that waits has its timer, and
  listens only while it waits. The inductive invariant `Report` adds what
  holds while a client is being accepted (unless a SIGHUP interrupted it or a
  forgotten timer fired, the listener is closed and, up to the cookie, the session is still
  waiting for this client), because only from there the step to RUNNING is
  right, and that a server which gives up is in a state of `Ended`.
- `SessionImplemented`: `Spec => KeepsPromise`, the refinement of `Session`.
  Every action maps to one of `Session` or to a stutter (`PromisedStep`), given
  `TypeOK` and `Report`: without RUNNING-exactly-while-connected the departure of a
  client could not be mapped to `Leave`.
- `ClientCorrect` and `SenderCorrect`: without a surviving thread, the client has
  an open socket and a thread of its own, this thread is the one
  `send_thread_id` names, and the mutexes are destroyed only after it is dead. The inductive
  invariant `Service` is `OneSender` in terms of the program counters: a live
  thread belongs to the connection in `clientsock_tcp` and no new client is
  being accepted beside it, a thread that has seen its client leave has closed
  the socket, a client being accepted has an open socket and no thread yet, and
  the thread that is joined is the one that lives.

`ScreenProofs`, from the assumption that sizes are positive numbers with a largest one
and that black is a content: `TypeCorrect`, `FaultsCorrect`, `LossCorrect` and
`SettledCorrect`, all from one inductive invariant `Invariant`. `SettledIsShown` is
about states with an empty queue and is far from inductive; what the invariant says
instead of each tile (`Freshness`) is that the last element that will be sent
for it carries what `second_buffer` says, or that the client shows that already,
unless the tile is lost, still has to be rotated into `main_img`, or is still to be painted. `Noticed` says that a
tile in which the frame buffer, `main_img` and `second_buffer` differ was drawn since the
last painting, and `main_img` and `second_buffer` differ only while the screen is being rotated, `Marking` that a tile shown
with losses is marked or waits to be sent, `Fits` that elements lie on the
screen unless it shrank, `Buffers` which buffers there are for
which compression, and `Video` the same as `Freshness` for the encoder.

`AlgorithmsProofs`, from the assumptions of the four modules it is about (that the number of
points compared, the least size, and the lengths of events, reads and payloads are positive,
that `Small` is at least 2, that the distances are numbers, that a sequence has numbers, and that "none" is no thread):
`PaintCorrect`, `FramesCorrect` and `StreamsCorrect` state the three properties of
`MCAlgorithms`. What they rest on holds for every input and not only for those of the run:

- `MatchCorrect`, for any sequence of older elements: after each turn the search has the best
  element so far (`BestSoFar`), or stopped because the number of sent elements passed, which only
  grows (`AgeIs`), exceeds what a better one could have.
- `SamplesInside` (no sample lies outside of either frame: the code only logs
  it), `RegionsTile` (the nine regions around any common rectangle are disjoint and
  cover the frame), `UniteKeepsTiles` (one turn of the loop that unites
  neighbours keeps them so) and with it `FrameTiles` (all turns).
- `RebuiltFrame`, for any two frames of a size that is compared: the extents only shrink from
  quarter to quarter (`Within`), so what was compared equal on a quarter stays equal on what
  is left (`QuarterAlike`), a whole frame that is shifted is its own extent (`WholeIsExtent`), and
  the common rectangle lies in both frames.
- `PaintSent` and `PaintApart`, for any finite set of changed pixels: the scan visits every one
  (`ScanIs`), collecting puts each into a region within the bounding box (`CollectedIs`), and
  uniting loses none (`Kept`). It begins again until a walk over the list unites nothing, and
  the length of the list cannot fall for ever (`WalkOneIs`, `UnitedIs`).
- `PaintEnds`: a box that is split has four quarters with something in each, so that the tests for
  the end of a row and of a column are met.
- `EventsCorrect`. The inductive invariant `EventsInv` says that the events processed, what is
  kept in `rest` and what is on the wire are, one after the other, the bytes the client sent
  (`Whole`), unless a reset cut one.
- `DatagramsCorrect`. The inductive invariant `DgInv` says that without an overlap only the thread of
  the client that is there is in a packet (`Alone`), and of the datagrams sent (`OutIs`) that
  those of one number and round agree on their packet and differ in their index (`Agree`),
  that packets which are over are complete, that the pairs of round and number in use are before the
  next one (`Used`), which is what a rebuild or the end of the sequence, in between two packets, cannot
  change, and that the packet in flight has exactly the parts before its `sent` bytes (`Current`).

The loops are folds in the models (`FoldLeft`, `MapThenFoldSet`), and the library defines a fold by
recursion over finite sets. Its theorems about recursion and induction take an
operator and cannot be instantiated here, so the module proves both anew with functions and
sets in place of operators: `RecursionExists` (by induction over the cardinality),
`FoldExists`, and `Induction`. A loop is then a function from the number of turns to
what they made (`TurnedBy`), and its invariant is proved over the numbers (`ByTurns`).

`CursorsProofs`, from the assumptions that ARGB cursors are cursors and that `Null` is
none of the frames: `TypeCorrect`, `ReferencesCorrect`, `SentListCorrect`, `LastCorrect`
and `FormsCorrect`, from one inductive invariant `Invariant` that holds as long as no
cleanup overlaps with a sending thread. What is on the way to the client is a sequence of
what it has received, the frame in hand and the queue: an action of the server lets
it grow at the end (`WayGrows`), taking a frame from the queue leaves it as it is
(`WayTaken`) and a drawing client or a failed write is the only one to take from its front
(`WayShrinks`). `Stream` says of this sequence that each reference is preceded by
its image, that a cursor is on the list of sent ones exactly if its image is with the client
or on the way, and that no image is on it twice; `Latest` that
its last frame shows the cursor set last; `Encoded` that images are of a form the
client of this version can draw; `Order` that a frame is in hand only for the client that
is there, without which the sequence would mix the frames of two clients.

`FrameCacheProofs`, from the assumptions that `CacheMax` is positive, that there are
finitely many `Senders`, that `Null` is no address and no checksum and that `Free` is no
sender: `TypeCorrect`, `BusyCorrect`, `PointersCorrect`, `DrawingCorrect` and
`CachesCorrect`, for any number of contents, elements, connections and queue
entries. The inductive invariant `Invariant` has four parts:

- `Shape`, which holds whatever happens: the types, where `add_frame` has a frame and a
  match in hand (`MainShape`), where a sending thread has a frame or the mutex
  (`SenderShape`), and that the list has each element and each content once and is empty
  without a client (`ListShape`). It rests on lemmas about the list:
  `MovedToTail`, `CutOff`, `EvictedCount` (the eviction leaves the tail and
  drops only elements that have no users at their turn).
- `NewestLast` and `Calm`, which bring the state back in order when a cleanup by a
  sending thread ends. `ClearCache` notices work in progress only through
  elements that are still in the list; since the frame in preparation, or the last
  one queued, is always the tail of the list, nothing can go unnoticed.
- `Good`, while no cleanup has overlapped or is under way: pointers are live (`Sound`), busy is
  the number of users (`Counts`), a frame has a source only from the comparison
  until it is written, and this source is at the client (`Sources`), the frame in
  preparation is known to nobody else (`Fresh`), a frame that was handed over has regions or was
  sent before (`Filled`), and the client has what is marked as sent (`Known`).
  None of these is inductive alone: that eviction leaves `Counts` right needs that an
  element without users has no source (`GoneIsUnneeded` and `Sources`), and that
  needs `Counts`. Since it has none, taking the users from the sources of what is dropped changes
  nothing: by the least element of the list for which it would, all that is dropped had busy 0 from the
  beginning (`EvictedAreFree`, `GoneAreFree`). There is one lemma for each step (`GoodFound` ... `GoodCleared`).

Users are counted with cardinalities of sets (`Places`, `Takers`, `Based`); the lemmas
about them say how each changes when one member comes or goes.

`SelectionProofs` begins, without assumptions, with `AnswersCorrect` and `LossCorrect`, for any
selections, kinds, sizes, delays and number of requests. The inductive invariant
`Invariant` says where a request that is not answered is (`AtOnePlace`: at one
position of the queue of X events, in the hands of the selection thread or at one
position of the list of delayed requests, and nowhere if it was answered or never
made), and that transactions are of requests that got an answer (`Begun`), without
which the end of a transaction could answer a pending request. Most steps are
`Elsewhere`: they add events that are no requests and leave the answers as far as
they were. `LossesTold` is the same argument for ownership; it needs `ServerMayOwn`,
for where selectionMode forbids the selections of the server the event of the loss
is read and ignored and the flag stays (process_selection_owner_notify returns
before it resets `owner`). What events and transactions hold does not matter here;
`Sequence` says only that the queues are sequences of something.

It continues with the types of the data, from the assumptions that sizes are
positive, that kinds are neither `None` nor TARGETS, and
that the kinds the client copies are supported. The inductive invariant `Exchange` (theorem `ExchangeCorrect`) adds to `Invariant`:
the types of buffers, answers, properties, conversions and both connections
(`Typed`, `Exchanged`, `Queues`); that the transactions and the walk over the
delayed requests stay within their bounds (`Walking`); and `Incoming`, which relates the buffers to
what the client still sends. Its messages are a `Stream`: transfers
come whole, chunk after chunk, except that the first one may be under way,
and then the buffer holds exactly what precedes the next message (`HeadFits`,
`Filled`). The arithmetic of cutting a copy into chunks and events is in the
lemmas on division (`PartsHold`, `PartSizes`, `TransferStreams`). `TypeCorrect` follows,
of which the bound on a buffer is the hard part: it needs the stream.

`SelectionDataProofs` is about what both sides get, from `Exchange` and, for the end of
transfers, the assumption that `None` is no value of a property:

- `LatestCorrect`: a buffer that is COMPLETED holds the last copy the server heard of
  (`Latest`), so an answer never has older data;
- `WholeCorrect`: `DataIsWhole` for copies of any size, **if clients announce what they copy**
  (`OnDemands = {TRUE}`) and an event holds less than a chunk, as in the code. A copy
  whose chunks fit in an event is then a single chunk, and one whose chunks do not never completes
  its buffer (`WholeBuffers`). What is left to show is that no chunk finds a buffer COMPLETED
  by an older copy: `Heralding` follows the announcements through the connection, and says
  that the buffer, at the time a chunk is read, knows the kind of its copy. Without announcements the property is false,
  and `selection_torn` shows how;
- `RequestedCorrect`: `RequestedIsAsked`, for events and chunks of any size. `InDemand` says that a
  buffer that is REQUESTED is to be asked for, asked for, on its way, or has lost the rest of what
  came (`RestLost`), and that the server owns nothing the client did not copy;
- `TransfersCorrect`: `TransfersAreWhole`, for any number of selections. The invariant
  `Separate` says that while nothing got mixed there is at most one conversion of data,
  asked for, replied or in the hands of the thread, that nobody else writes to its
  property, and that there is none while one is being read incrementally. `Flow` follows a
  transfer through a queue: from the state before its first message (no transfer open, or one
  open from a source) to the state after the last, provided that every chunk that is not a first one
  finds its transfer open. `Fed` chains what the client has, the
  connection and the queue of chunks in this way, and `Agrees` says that what is being read goes on with the
  state at the end of the chain: with any source in general, with the same one
  while nothing got mixed;
- `EndCorrect`: `TransfersEnd`, for any number of selections, copies and conversions. `Ended`
  says that the chain of `Fed` leaves no transfer open. That alone is not
  inductive: a portion opens a transfer, and what will end it can be an event of a new owner,
  a conversion that was asked for, a reply or the next portion. The invariant
  `Ending` follows all of them through the queue of X events, of which it keeps the set (`Due`) and
  the order (`Ordered`). `Promise`: while the client is to get what an application copied
  (`Offered`), a transfer that is open is followed by the answer to TARGETS for these contents
  (`Renewed`), by data that are converted or replied (`Coming`), or its
  selection is being read (`Reads`). `Undisturbed`: a reply that stops the reading without
  bringing data is not handled between a portion and the event that tells
  of it, unless the contents are told anew after it. `Fresh`: the last
  conversion to TARGETS is for the last copy the thread heard of. `Sole`, `Written` and
  `Portioned` hold while nothing got mixed: one selection at a time is converted,
  a reply with data finds them in the property, and what is read is either about to be written by its owner or
  written and its event on the way. `Barred`: nothing is converted, read or open for a selection
  the client is not to get. When nothing is under way any more none of the ways of `Promise`
  is left, so the transfer is ended. All steps that add to the queue or take from it are brought into
  two forms (`Adds`, `Consumes`), and the steps that matter to none of this into one (`Calm`), so
  that each of the parts is shown for a handful of cases.

`WindowsProofs`, from the assumptions that `Null` is no window, id, piece of information or request,
that there is a geometry, and that `ChangeBound` is a number: `TypeCorrect`, `FocusCorrect`,
`ListCorrect` and `ScreenCorrect`, for any windows, ids, geometries, positions and threads. The inductive
invariant `Invariant` consists of `Shape` (no window has two places in the tree or
two entries, and what the threads have in hand), `FocusKept` (the entry in the hands of
`client_win_change` is listed unless it was marked WDEL), `MarksAreFlagged`
and `OneUpdate` (a mark is never left without `windowsUpdated`; updates are sent one after the other,
unless a cleanup overlapped one), `Offline` (without a client there are no entries and no
request), `EntriesNamed` (entries and windows with the same id have the same address, unless one was
handed out again too early), `ClientKnows` (which entries the client
has, and as what), and `Settled`: a check that finds nothing left to send saw the
tree as it is, and the next one the order as well. The lists of `Windows` are built with `SelectSeq`
and with a minimum over sets; the lemmas about them (`LeastOf`, `Induction`)
rest on the well-foundedness of the numbers below a bound instead of on induction over
the list.

Only model-checked:

- All liveness properties and everything about ENABLED, which are out of the prover's reach. No
  invariant of a run is left to TLC alone; that transfers end is proved for every state in which
  nothing is under way, not that such a state is reached.

## Disagreements between the code and its texts

With a run that shows them:

1. SIGTERM on top of a critical section waits for a mutex its own thread holds
   (`session_sigterm`).
2. A copy that is not announced and does not fit in one event refills a buffer that is still marked
   COMPLETED, and a paste gets what was stored of it (`selection_torn`).
3. "next event will have data" (2703): it will, but nothing stores them (2932), and what is larger
   than an event never arrives at the application (`selection_rest`).
4. A window that is back on the screen before its deletion was sent is deleted
   all the same (`windows_reappear`).

Met while modelling, and part of the models without a run of their own:

5. `clean_everything` says that `sendqueue_mutex` is locked (5610); the sending
   thread calls it after it unlocked it (2094).
6. `owner` of a selection is reset by an event older than the last
   `own_selection` (x2gokdriveselection.c:916).
7. `unitePaintRegions` is documented to unite if the rectangle around two
   regions is "smaller or same" (4904-4907); it does so only if it is smaller.

## Not modelled

- *Session*: the contents of the state file; the negotiation of UDP.
- *Frame cache*: windows of rootless mode in `add_frame`; the outcome of the
  matching is a free choice.
- *Screen*: two sending threads at a time (`FrameCache` and `AgentSession` have them);
  the moment within a resize at which the array of regions is being replaced; the quality
  of JPEG that the length of the queue chooses and that orders the regions
  to be sent again; resizes by RandR that the client did not ask for, which are
  rejected; a rotation that changes otherwise than by the first resize. The video that an unrotated screen writes into the stream beside
  images (1981-2003) is one action with the drawing of the client.
- *Matching*: the code after the `return FALSE` in `find_common_regions`
  (1468), which is never reached, and the comparison of differences (`diff`) behind it.
- *Reads outside an array*: at 4156 the region before the first, `regions[-1]`, is
  read before the test for `prev > 0` that makes its value irrelevant;
  `UniteRegion` models the outcome.
- *Events*: what key and pointer events become; the rest of a chunk of selection data
  is executed as events of its own (2932-2943), which may be anything: `Events` has it as a kind
  of event, `ReadRest` of `Selection` as a message without effect.
- *Datagrams*: `resend_frame`, which returns at once over UDP.
- *Selections*: conversion of text, compression, requestors without INCR, and the
  blocking of the selection thread on its X connection while it holds
  `inMutex`: when the X server, which is the main thread, waits for `inMutex`
  and the socket is full, both wait for ever. The model has X requests take
  effect at once.
- *Cursors*: the list of deleted cursors, since `remote_removeCursor` is never called.
- *Windows*: nested and transient windows, icons, focus, WINCLOSE.
- *A read error on the client socket* (2913) is logged and ignored; only a
  keepalive timer ends such a connection. It has no effect in the model.
- *Encoders, X server glue, options, logging, packaging*: beyond the above no
  state of their own.

## Plan

What is left, most important first:

1. An abstract specification of the cache protocol (two caches and a channel:
   the client can always draw the next frame) that `FrameCache` implements while no cleanup
   overlaps, and likewise one of cursor delivery for `Cursors`.
2. The queue of selection data in the sending thread together with
   reconnections, and the wait of the selection thread on its X connection.
