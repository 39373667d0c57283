----------------------------- MODULE FrameCache -----------------------------
(***************************************************************************)
(* The frame path of x2gokdriveremote.c: the main thread turns repainted   *)
(* regions into cache elements and queues them (add_frame), the sending    *)
(* thread of the connection takes them off the queue and writes them to    *)
(* the client (send_frame_thread).  Elements live in an LRU list shared by *)
(* both threads, "busy" counts the users of an element, and the client     *)
(* keeps a cache of its own that FRAME messages refer to by checksum.      *)
(*                                                                         *)
(* A critical section of the main thread is one action.  The sending       *)
(* thread takes sendqueue_mutex in one action and works under it in the    *)
(* next.  What a thread does between two critical sections is an action of *)
(* its own, so everything the other threads may do there is explored.      *)
(* Pixels are abstracted: which older element resembles a frame, and       *)
(* whether a common region is found, are free choices.                     *)
(***************************************************************************)
EXTENDS Integers, Sequences, FiniteSets

CONSTANTS
  Crc,         \* checksums of painted contents (calculate_crc, never 0)
  Addr,        \* addresses malloc may return for a struct cache_elem
  Senders,     \* sending threads, one for each accepted connection
  CacheMax,    \* CACHEMAXELEMENTS
  QueueBound,  \* bound on the send queue, for model checking only
  Null,        \* the null pointer, and the checksum 0
  Free         \* holder of a mutex nobody holds

ASSUME CacheMaxAssumption == CacheMax \in Nat \ {0}
ASSUME NullAssumption == Null \notin Addr /\ Null \notin Crc
ASSUME FreeAssumption == Free \notin Senders
ASSUME SendersAssumption == IsFiniteSet(Senders)

VARIABLES
  cache,        \* first_cache_element .. last_cache_element
  el,           \* contents of the allocated elements
  queue,        \* send queue: the frame of each element, Null for main image
  connected,    \* remoteVars.client_connected
  initialized,  \* remoteVars.client_initialized
  rebuilt,      \* remoteVars.cache_rebuilt
  mutex,        \* holder of remoteVars.sendqueue_mutex
  main,         \* the main thread: where it is in add_frame and its locals
  spc,          \* where each sending thread is in its loop
  cur,          \* the frame a sending thread took off the queue
  client,       \* checksums held by the client once it read all that was sent
  fault,        \* a thread used an element after it was freed
  overlap       \* history: a cleanup ran while a thread worked on a frame, or
                \* freed an element that a thread or the queue points to

vars == <<cache, el, queue, connected, initialized, rebuilt, mutex, main, spc,
          cur, client, fault, overlap>>

threads == <<main, spc, cur>>
conn == <<connected, initialized, rebuilt>>

Elements(s) == {s[i] : i \in DOMAIN s}
Live == Elements(cache)
Queued == Elements(queue) \ {Null}
Held == ({main.frame, main.best} \cup {cur[s] : s \in Senders}) \ {Null}

Blank == [crc |-> Null, busy |-> 0, sent |-> FALSE, source |-> Null,
          regions |-> FALSE, source_crc |-> Null]

MainIdle == [pc |-> "idle", frame |-> Null, best |-> Null]

Init ==
  /\ cache = <<>> /\ queue = <<>>
  /\ el = [a \in Addr |-> Blank]
  /\ connected = FALSE /\ initialized = FALSE /\ rebuilt = FALSE
  /\ mutex = Free
  /\ main = MainIdle
  /\ spc = [s \in Senders |-> "none"]
  /\ cur = [s \in Senders |-> Null]
  /\ client = {}
  /\ fault = FALSE /\ overlap = FALSE

(* What follows the use of freed memory is not modelled: the system stops. *)
Crash ==
  /\ fault' = TRUE
  /\ UNCHANGED <<cache, el, queue, conn, mutex, threads, client, overlap>>

-----------------------------------------------------------------------------
(* The LRU list.                                                           *)

Position(a) == CHOOSE i \in DOMAIN cache : cache[i] = a

Without(i) == SubSeq(cache, 1, i - 1) \o SubSeq(cache, i + 1, Len(cache))

MoveToTail(a) == Append(Without(Position(a)), a)

HasCrcUnsent(c) == {a \in Live : el[a].crc = c /\ ~el[a].sent}

HasCrc(c) == {a \in Live : el[a].crc = c}

Unused == Addr \ (Live \cup Queued \cup Held)

(* add_cache_element: a fresh element at the tail, not yet busy.           *)
NewElement(c) == [Blank EXCEPT !.crc = c]

Hold(e) == [e EXCEPT !.busy = @ + 1]
ReleaseNothing(e) == e

Release(e) == [e EXCEPT !.busy = @ - 1]

CandidatesUnsent(f) ==
  {cache[i] : i \in 1 .. Position(f) - 1}

(* Elements find_best_match may return for frame f: older in the list and  *)
(* already sent to the client.                                             *)
Candidates(f) ==
  {cache[i] : i \in {j \in 1 .. Position(f) - 1 : el[cache[j]].sent}}

EvictableAlways(els, i) == TRUE
EvictableNever(els, i) == FALSE

(* How many users a loses when the first k elements of the list are freed: *)
(* each was a user of its source.                                          *)
UsersFreed(els, k, a) ==
  Cardinality({j \in 1 .. k : els[cache[j]].source = a})

(* The loop of clear_frame_cache(CacheMax) stops at the first element that *)
(* is busy when its turn comes, or when the list is short enough.          *)
Evictable(els, i) ==
  els[cache[i]].busy = UsersFreed(els, i - 1, cache[i])

EvictCount(els) ==
  LET over == IF Len(cache) > CacheMax THEN Len(cache) - CacheMax ELSE 0
  IN  Cardinality({k \in 1 .. over :
                     \A i \in 1 .. k : Evictable(els, i)})

-----------------------------------------------------------------------------
(* The main thread, add_frame.                                             *)

CanQueue == Len(queue) < QueueBound

MainAt(pc) == ~fault /\ main.pc = pc

(* First critical section for a region with checksum c: the element is     *)
(* found, and moved to the tail, or added.  Either way it becomes busy.    *)
AddFrame(c) ==
  /\ MainAt("idle") /\ mutex = Free /\ CanQueue
  /\ connected /\ initialized /\ ~rebuilt
  /\ \/ \E a \in HasCrc(c) :
          /\ cache' = MoveToTail(a)
          /\ el' = [el EXCEPT ![a] = Hold(@)]
          /\ main' = [pc |-> "enqueue", frame |-> a, best |-> Null]
     \/ /\ HasCrc(c) = {} /\ Unused # {}
        /\ LET a == CHOOSE x \in Unused : TRUE
           IN  /\ cache' = Append(cache, a)
               /\ el' = [el EXCEPT ![a] = Hold(NewElement(c))]
               /\ main' = [pc |-> "match", frame |-> a, best |-> Null]
  /\ UNCHANGED <<queue, conn, mutex, spc, cur, client, fault, overlap>>

(* crc = 0: the main image, or an UPDATE the client asked for.             *)
AddMainImage ==
  /\ MainAt("idle") /\ mutex = Free /\ CanQueue
  /\ connected /\ initialized /\ ~rebuilt
  /\ main' = [pc |-> "enqueue", frame |-> Null, best |-> Null]
  /\ UNCHANGED <<cache, el, queue, conn, mutex, spc, cur, client, fault,
                 overlap>>

(* initFrameRegions: a frame that is large enough gets the best match among *)
(* the older elements, and the match becomes busy.                          *)
MatchFrame ==
  /\ MainAt("match") /\ mutex = Free
  /\ \/ /\ main.frame \notin Live
        /\ Crash
     \/ /\ main.frame \in Live
        /\ \E b \in Candidates(main.frame) :
             /\ el' = [el EXCEPT ![b] = Hold(@)]
             /\ main' = [main EXCEPT !.pc = "regions", !.best = b]
        /\ UNCHANGED <<cache, queue, conn, mutex, spc, cur, client, fault,
                       overlap>>
     \/ /\ main.frame \in Live
        /\ main' = [main EXCEPT !.pc = "compress"]
        /\ UNCHANGED <<cache, el, queue, conn, mutex, spc, cur, client, fault,
                       overlap>>

(* Without the mutex: the two images are compared, and if they have a      *)
(* common region the frame refers to the match as its source.              *)
FindRegions ==
  /\ MainAt("regions")
  /\ \/ /\ ~({main.frame, main.best} \subseteq Live)
        /\ Crash
     \/ /\ {main.frame, main.best} \subseteq Live
        /\ \/ el' = [el EXCEPT ![main.frame].source = main.best,
                               ![main.frame].source_crc = el[main.best].crc]
           \/ el' = el
        /\ main' = [main EXCEPT !.pc = "unmatch"]
        /\ UNCHANGED <<cache, queue, conn, mutex, spc, cur, client, fault,
                       overlap>>

(* A match that was not taken as source is released.                       *)
ReleaseMatch ==
  /\ MainAt("unmatch") /\ mutex = Free
  /\ \/ /\ ~({main.frame, main.best} \subseteq Live)
        /\ Crash
     \/ /\ {main.frame, main.best} \subseteq Live
        /\ el' = IF el[main.frame].source # main.best
                 THEN [el EXCEPT ![main.best] = Release(@)] ELSE el
        /\ main' = [main EXCEPT !.pc = "compress", !.best = Null]
        /\ UNCHANGED <<cache, queue, conn, mutex, spc, cur, client, fault,
                       overlap>>

(* Without the mutex: the regions are compressed into the element.         *)
CompressRegions ==
  /\ MainAt("compress")
  /\ \/ /\ main.frame \notin Live
        /\ Crash
     \/ /\ main.frame \in Live
        /\ el' = [el EXCEPT ![main.frame].regions = TRUE]
        /\ main' = [main EXCEPT !.pc = "enqueue"]
        /\ UNCHANGED <<cache, queue, conn, mutex, spc, cur, client, fault,
                       overlap>>

(* Last critical section of add_frame: the pointer goes into the queue,    *)
(* whatever happened to the connection or to the element meanwhile.        *)
Enqueue ==
  /\ MainAt("enqueue") /\ mutex = Free
  /\ queue' = Append(queue, main.frame)
  /\ main' = MainIdle
  /\ UNCHANGED <<cache, el, conn, mutex, spc, cur, client, fault, overlap>>

-----------------------------------------------------------------------------
(* clean_everything, as far as it concerns frames.                         *)

(* clear_send_queue follows the frame, and the source, of every element.   *)
QueueSound ==
  /\ Queued \subseteq Live
  /\ \A a \in Queued : el[a].source \in Live \cup {Null}

LastIndex(a) ==
  CHOOSE i \in 0 .. Len(queue) :
    /\ i > 0 => queue[i] = a
    /\ \A j \in i + 1 .. Len(queue) : queue[j] # a

FirstIndex(a) ==
  CHOOSE i \in 1 .. Len(queue) :
    queue[i] = a /\ \A j \in 1 .. i - 1 : queue[j] # a

(* busy is set to 0 when the queue element is met, the source of a frame   *)
(* is decremented the first time the frame is met.                         *)
BusyAfterClear(a) ==
  (IF a \in Queued THEN 0 ELSE el[a].busy)
    - Cardinality({f \in Queued : /\ el[f].source = a
                                  /\ FirstIndex(f) > LastIndex(a)})

AfterClearQueue ==
  [a \in Addr |->
     IF a \notin Live THEN el[a]
     ELSE [el[a] EXCEPT !.busy = BusyAfterClear(a),
                        !.source = IF a \in Queued THEN Null ELSE @]]

(* clear_frame_cache(0) frees from the head, whether busy or not, and      *)
(* decrements the source of each element, which must not be freed yet.     *)
CacheSound(els) ==
  \A i \in DOMAIN cache :
    els[cache[i]].source \in {Null} \cup {cache[j] : j \in i .. Len(cache)}

(* A cleanup by a sending thread has begun and not ended.                  *)
Cleaning == \E s \in Senders : spc[s] \in {"clear queue", "clear cache"}

Sending == \E s \in Senders : cur[s] # Null

(* Some thread, or the queue, still points to an element.                  *)
InUse(q) == (Held \cup (Elements(q) \ {Null})) \cap Live # {}

(* The cleanup itself writes to an element it has just freed.              *)
CrashInCleanup(q) ==
  /\ fault' = TRUE
  /\ overlap' = (overlap \/ InUse(q))
  /\ UNCHANGED <<cache, el, queue, conn, mutex, threads, client>>

(* disconnect_client, under the mutex.                                     *)
CleanEverything ==
  IF QueueSound /\ CacheSound(AfterClearQueue)
  THEN /\ queue' = <<>> /\ cache' = <<>>
       /\ el' = [a \in Addr |-> Blank]
       /\ overlap' = (overlap \/ InUse(<<>>))
       /\ connected' = FALSE
       /\ UNCHANGED <<initialized, rebuilt, mutex, threads, client, fault>>
  ELSE CrashInCleanup(<<>>)

(* The client closed its socket, sent DISCONNECTCLIENT, or was silent for  *)
(* too long: noticed by the main thread between two calls of add_frame.    *)
ClientGone ==
  /\ MainAt("idle") /\ mutex = Free /\ connected
  /\ CleanEverything

(* SIGHUP in state RUNNING: the handler runs on top of whatever the main   *)
(* thread is doing, and disconnects the client.                            *)
Hangup ==
  /\ ~fault /\ main.pc # "idle" /\ mutex = Free /\ connected
  /\ CleanEverything

-----------------------------------------------------------------------------
(* Other events of the main thread.                                        *)

(* serverAcceptNotify: the new client has an empty cache, and gets a       *)
(* sending thread of its own.                                              *)
Accept(s) ==
  /\ MainAt("idle") /\ mutex = Free /\ ~connected
  /\ spc[s] = "none"
  /\ connected' = TRUE /\ initialized' = FALSE
  /\ client' = {}
  /\ spc' = [spc EXCEPT ![s] = "top"]
  /\ UNCHANGED <<cache, el, queue, rebuilt, mutex, main, cur, fault, overlap>>

(* GEOMETRY: the client told its screens.                                  *)
ClientGeometry ==
  /\ MainAt("idle") /\ connected /\ ~initialized
  /\ initialized' = TRUE
  /\ UNCHANGED <<cache, el, queue, connected, rebuilt, mutex, threads, client,
                 fault, overlap>>

(* CACHEREBUILD: rebuild_caches only raises a flag for the sending thread. *)
RebuildCaches ==
  /\ MainAt("idle") /\ mutex = Free /\ connected /\ ~rebuilt
  /\ rebuilt' = TRUE
  /\ UNCHANGED <<cache, el, queue, connected, initialized, mutex, threads,
                 client, fault, overlap>>

-----------------------------------------------------------------------------
(* The sending thread, send_frame_thread.                                  *)

SenderAt(s, pc) == ~fault /\ spc[s] = pc

Goto(s, pc) == spc' = [spc EXCEPT ![s] = pc]

LockTarget ==
  [top |-> "check", wait |-> "serve", frames |-> "pop", written |-> "done"]

LockAnyway(s) ==
  /\ ~fault /\ spc[s] \in DOMAIN LockTarget
  /\ mutex' = s
  /\ Goto(s, LockTarget[spc[s]])
  /\ UNCHANGED <<cache, el, queue, conn, main, cur, client, fault, overlap>>

Lock(s) ==
  /\ ~fault /\ spc[s] \in DOMAIN LockTarget /\ mutex = Free
  /\ mutex' = s
  /\ Goto(s, LockTarget[spc[s]])
  /\ UNCHANGED <<cache, el, queue, conn, main, cur, client, fault, overlap>>

(* Top of the loop: without a client the thread ends.  Otherwise it goes   *)
(* on, or gives up the mutex for a while: to wait for the condition, to    *)
(* refresh a screen region or to send window changes.                      *)
CheckConnected(s) ==
  /\ SenderAt(s, "check")
  /\ \/ ~connected /\ Goto(s, "exit") /\ mutex' = Free
     \/ connected /\ Goto(s, "wait") /\ mutex' = Free
     \/ connected /\ Goto(s, "serve") /\ mutex' = mutex
  /\ UNCHANGED <<cache, el, queue, conn, main, cur, client, fault, overlap>>

(* A rebuilt cache is announced without the mutex; selections and cursors  *)
(* are sent in between, so the mutex is released in any case.              *)
TakeRebuild(s) ==
  /\ SenderAt(s, "serve")
  /\ rebuilt' = FALSE
  /\ Goto(s, IF rebuilt THEN "reinit" ELSE "frames")
  /\ mutex' = Free
  /\ UNCHANGED <<cache, el, queue, connected, initialized, main, cur, client,
                 fault, overlap>>

(* The client drops its caches when it reads REINIT.                       *)
SendReinit(s) ==
  /\ SenderAt(s, "reinit")
  /\ client' = {}
  /\ Goto(s, "clear queue")
  /\ overlap' = (overlap \/ Sending)
  /\ UNCHANGED <<cache, el, queue, conn, mutex, main, cur, fault>>

(* clean_everything called by the sending thread, which does not hold the  *)
(* mutex here: the main thread may run between the two halves.             *)
ClearQueue(s) ==
  /\ SenderAt(s, "clear queue")
  /\ IF QueueSound
     THEN /\ el' = AfterClearQueue
          /\ queue' = <<>>
          /\ overlap' = (overlap \/ Sending)
          /\ Goto(s, "clear cache")
          /\ UNCHANGED <<cache, conn, mutex, main, cur, client, fault>>
     ELSE Crash

ClearCache(s) ==
  /\ SenderAt(s, "clear cache")
  /\ IF CacheSound(el)
     THEN /\ cache' = <<>>
          /\ el' = [a \in Addr |-> Blank]
          /\ overlap' = (overlap \/ InUse(queue))
          /\ Goto(s, "frames")
          /\ UNCHANGED <<queue, conn, mutex, main, cur, client, fault>>
     ELSE CrashInCleanup(queue)

(* The head of the queue is taken off.  Its frame is read for the size and *)
(* the checksum before the mutex is released.                              *)
PopFrame(s) ==
  /\ SenderAt(s, "pop")
  /\ \/ /\ queue = <<>>
        /\ Goto(s, "top")
        /\ mutex' = Free
        /\ UNCHANGED <<cache, el, queue, conn, main, cur, client, fault,
                       overlap>>
     \/ /\ queue # <<>> /\ Head(queue) \in Live \cup {Null}
        /\ queue' = Tail(queue)
        /\ cur' = [cur EXCEPT ![s] = Head(queue)]
        /\ Goto(s, "sending")
        /\ mutex' = Free
        /\ overlap' = (overlap \/ Cleaning)
        /\ UNCHANGED <<cache, el, conn, main, client, fault>>
     \/ /\ queue # <<>> /\ Head(queue) \notin Live \cup {Null}
        /\ Crash

(* send_frame, without the mutex: the client draws the regions and keeps   *)
(* the frame.                                                              *)
SendFrame(s) ==
  /\ SenderAt(s, "sending") /\ cur[s] # Null
  /\ IF cur[s] \in Live
     THEN /\ client' = client \cup {el[cur[s]].crc}
          /\ Goto(s, "written")
          /\ UNCHANGED <<cache, el, queue, conn, mutex, main, cur, fault,
                         overlap>>
     ELSE Crash

(* sendMainImageFromSendThread: a part of the main image is drawn and not  *)
(* kept.                                                                   *)
SendMainImage(s) ==
  /\ SenderAt(s, "sending") /\ cur[s] = Null
  /\ Goto(s, "written")
  /\ UNCHANGED <<cache, el, queue, conn, mutex, main, cur, client, fault,
                 overlap>>

AfterSendKeepsSource(a) ==
  [el EXCEPT ![a] = [Release(@) EXCEPT !.sent = TRUE, !.regions = FALSE]]

(* The element a with its source after the frame is written.               *)
AfterSend(a) ==
  LET src == el[a].source
      done == [el EXCEPT ![a] = [Release(@) EXCEPT !.sent = TRUE,
                                                   !.source = Null,
                                                   !.regions = FALSE,
                                                   !.source_crc = Null]]
  IN  IF src = Null THEN done ELSE [done EXCEPT ![src] = Release(@)]

(* The checksums DELETED names: nothing is listed for a client that left.  *)
Deleted(els, gone) == IF connected THEN {els[a].crc : a \in gone} ELSE {}

(* The elements after the first k of the list are freed.                   *)
Evict(els, k) ==
  [a \in Addr |-> IF a \in {cache[i] : i \in 1 .. k} THEN Blank
                  ELSE [els[a] EXCEPT !.busy = @ - UsersFreed(els, k, a)]]

(* No freed element is based on one that was freed before it.              *)
FreesInTurn(els, k) ==
  \A i \in 1 .. k :
    els[cache[i]].source
      \in (Live \cup {Null}) \ {cache[j] : j \in 1 .. i - 1}

(* Under the mutex again: the frame is no longer busy, the list is cut to  *)
(* CacheMax and the client is told what was dropped (DELETED).             *)
FinishFrame(s) ==
  LET els == IF cur[s] = Null THEN el ELSE AfterSend(cur[s])
      k == EvictCount(els)
      gone == {cache[i] : i \in 1 .. k}
  IN  /\ SenderAt(s, "done")
      /\ IF /\ \/ cur[s] = Null
               \/ {cur[s], el[cur[s]].source} \subseteq Live \cup {Null}
            /\ FreesInTurn(els, k)
         THEN /\ cache' = SubSeq(cache, k + 1, Len(cache))
              /\ el' = Evict(els, k)
              /\ client' = client \ Deleted(els, gone)
              /\ cur' = [cur EXCEPT ![s] = Null]
              /\ Goto(s, "top")
              /\ mutex' = Free
              /\ UNCHANGED <<queue, conn, main, fault, overlap>>
         ELSE Crash

-----------------------------------------------------------------------------
MainStep ==
  \/ \E c \in Crc : AddFrame(c)
  \/ AddMainImage
  \/ MatchFrame \/ FindRegions \/ ReleaseMatch \/ CompressRegions \/ Enqueue

MainEvent ==
  \/ ClientGone \/ Hangup \/ ClientGeometry \/ RebuildCaches
  \/ \E s \in Senders : Accept(s)

SenderStep(s) ==
  \/ Lock(s) \/ CheckConnected(s) \/ TakeRebuild(s)
  \/ SendReinit(s) \/ ClearQueue(s) \/ ClearCache(s)
  \/ PopFrame(s) \/ SendFrame(s) \/ SendMainImage(s) \/ FinishFrame(s)

Next == MainStep \/ MainEvent \/ \E s \in Senders : SenderStep(s)

Spec == Init /\ [][Next]_vars

-----------------------------------------------------------------------------
(* Properties.                                                             *)

MainPc == {"idle", "match", "regions", "unmatch", "compress", "enqueue"}
SenderPc == {"none", "top", "check", "wait", "serve", "reinit", "clear queue",
             "clear cache", "frames", "pop", "sending", "written", "done",
             "exit"}

Element == [crc : Crc \cup {Null}, busy : Int, sent : BOOLEAN,
            source : Addr \cup {Null}, regions : BOOLEAN,
            source_crc : Crc \cup {Null}]

(* The shape of the state.  A sending thread holds the mutex in exactly    *)
(* four places, and two of them never do at once, even when the thread of  *)
(* an earlier client is still running.                                     *)
TypeOK ==
  /\ cache \in Seq(Addr)
  /\ el \in [Addr -> Element]
  /\ queue \in Seq(Addr \cup {Null})
  /\ connected \in BOOLEAN /\ initialized \in BOOLEAN /\ rebuilt \in BOOLEAN
  /\ mutex \in Senders \cup {Free}
  /\ main \in [pc : MainPc, frame : Addr \cup {Null}, best : Addr \cup {Null}]
  /\ spc \in [Senders -> SenderPc]
  /\ cur \in [Senders -> Addr \cup {Null}]
  /\ client \in SUBSET Crc
  /\ fault \in BOOLEAN /\ overlap \in BOOLEAN
  /\ \A s \in Senders :
       spc[s] \in {"check", "serve", "pop", "done"} <=> mutex = s

(* No cleanup has freed an element under the feet of a thread, and none is *)
(* under way: the ordinary life of a session, over any number of clients.  *)
Orderly == ~overlap /\ ~Cleaning

(* The users of an element: queue entries, the threads that hold it, and   *)
(* the frames that take part of their content from it.                     *)
Users(a) ==
  Cardinality({i \in DOMAIN queue : queue[i] = a})
  + Cardinality({s \in Senders : cur[s] = a})
  + Cardinality({b \in Live : el[b].source = a})
  + (IF main.frame = a THEN 1 ELSE 0)
  + (IF main.best = a /\ el[main.frame].source # a THEN 1 ELSE 0)

(* busy is the number of users, so it never wraps below 0 and an element   *)
(* without users can always be evicted (add_frame, initFrameRegions and    *)
(* the end of the sending loop pair their increments and decrements over   *)
(* several critical sections of two threads).  An element without users    *)
(* is not based on another one, so evicting it leaves every count right.   *)
BusyCountsUsers ==
  Orderly =>
    \A a \in Live :
      /\ el[a].busy = Users(a)
      /\ el[a].busy = 0 => el[a].source = Null

(* A thread uses a freed element only if a cleanup overlapped with its use *)
(* of that element: eviction and the LRU list alone never free an element  *)
(* that the queue, a thread or another frame still points to.              *)
PointersAreLive ==
  Orderly => ~fault /\ Queued \cup Held \subseteq Live

(* A frame about to be written can be drawn by the client: its source is   *)
(* in the client's cache, and a frame sent without regions is itself       *)
(* there.  Eviction messages, frames of the same content queued twice and  *)
(* a new client with an empty cache must not come in between.              *)
ClientCanDraw ==
  Orderly =>
    \A s \in Senders :
      spc[s] = "sending" /\ cur[s] # Null =>
        LET e == el[cur[s]]
        IN  /\ ~e.regions => e.crc \in client
            /\ e.source_crc # Null => e.source_crc \in client

(* The two caches agree: what is marked as sent is held by the client, and *)
(* the client holds nothing the server has forgotten (it would keep it for *)
(* ever, since only evicted elements are named in DELETED).  No content is *)
(* cached twice, or the client would be told to drop a checksum in use.    *)
CachesAgree ==
  /\ Orderly /\ connected =>
       /\ {el[a].crc : a \in {b \in Live : el[b].sent}} \subseteq client
       /\ client \subseteq {el[a].crc : a \in Live}
  /\ \A i, j \in DOMAIN cache : el[cache[i]].crc = el[cache[j]].crc => i = j

-----------------------------------------------------------------------------
(* Every thread keeps running, and a thread that waits for the mutex gets  *)
(* it if it is free again and again: the others hold it briefly, and a     *)
(* sending thread without work gives it up while it waits.                 *)
FairSpec == Spec /\ \A s \in Senders : SF_vars(SenderStep(s))

(* Once nothing is painted any more, all that was queued leaves the queue  *)
(* and the cache is back within its limit for good: the eviction that a    *)
(* busy element postponed ("return to it later") does come.                *)
CalmSettles ==
  <>[](main.pc = "idle")
    => <>[](\/ fault \/ ~connected
            \/ queue = <<>> /\ Len(cache) <= CacheMax)

=============================================================================
