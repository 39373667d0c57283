------------------------------ MODULE Windows ------------------------------
(***************************************************************************)
(* Rootless mode of x2gokdriveremote.c: the client shows every top level   *)
(* window of the X server in a window of its own.  Each time the screen is *)
(* painted the main thread compares the window tree with its list of       *)
(* remote windows (remote_check_rootless_windows_for_updates) and marks    *)
(* entries NEW, CHANGED or WDEL; the sending thread turns the marks into a *)
(* WINUPDATE message and clears them; the client may move, restack and     *)
(* iconify windows itself (client_win_change).                             *)
(*                                                                         *)
(* The tree is the stack of the root's children, topmost first.  Position, *)
(* size, border, visibility and name are one abstract attribute, "geom";   *)
(* icon, type, minimal size and focus, which mark no entry CHANGED, are    *)
(* left out.  A window is "shown" when remote_check_window does not ignore *)
(* it: mapped, visible and with WM_HINTS.  A check, and a cleanup, is one  *)
(* step.                                                                   *)
(***************************************************************************)
EXTENDS Integers, Sequences, FiniteSets, SequencesExt

CONSTANTS
  Ptr,      \* addresses of windows, which malloc may hand out again
  Id,       \* window ids, which an X client that connects may get again
  Geom,     \* positions, sizes and names
  Senders,  \* sending threads, one for each accepted connection
  ChangeBound,  \* bound on what applications and the client's user do, for
                \* model checking only
  Null      \* the null pointer, the id 0, and what is not there

Ids == Id \cup {Null}
Info == [geom : Geom, sib : Ids]
Requests == [kind : {"change", "iconify"}, id : Id, geom : Geom, sib : Ids]

ASSUME NullAssumption == Null \notin Ptr \cup Id \cup Info \cup Requests
ASSUME GeomAssumption == Geom # {}
ASSUME ChangeBoundAssumption == ChangeBound \in Nat

VARIABLES
  stack,      \* children of the root window, topmost first
  win,        \* for each window its id, whether it is shown, and its geom
  list,       \* remoteVars.windowList
  updated,    \* remoteVars.windowsUpdated
  connected,  \* remoteVars.client_connected
  rebuilt,    \* remoteVars.cache_rebuilt
  main,       \* the main thread: where it is in client_win_change
  spc,        \* where each sending thread is in its loop
  hand,       \* the update a sending thread has made and not sent
  client,     \* the windows the client has
  request,    \* WINCHANGE on its way from the client
  changes,    \* history: what applications and the user did, for the bound
  settled,    \* history: checks since the tree last changed that found
              \* nothing left to send, up to two
  recycled,   \* history: a new window got the address or the id of one that
              \* still has an entry
  crossed,    \* history: a request met a change the client did not know
  overlap     \* history: a cleanup ran while a thread used an entry or an
              \* update, or two threads had updates in hand

server == <<stack, win>>
threads == <<main, spc, hand>>
flags == <<updated, connected, rebuilt>>
history == <<changes, settled, recycled, crossed, overlap>>
vars == <<server, list, flags, threads, client, request, history>>

NoWindow == [id |-> Null, shown |-> FALSE, geom |-> CHOOSE g \in Geom : TRUE]
MainIdle == [pc |-> "idle", ptr |-> Null, deleted |-> FALSE]
NoWindows == [i \in Id |-> Null]

Init ==
  /\ stack = <<>> /\ win = [p \in Ptr |-> NoWindow]
  /\ list = <<>> /\ updated = FALSE /\ connected = FALSE /\ rebuilt = FALSE
  /\ main = MainIdle
  /\ spc = [s \in Senders |-> "none"]
  /\ hand = [s \in Senders |-> <<>>]
  /\ client = NoWindows /\ request = Null
  /\ changes = 0 /\ settled = 0
  /\ recycled = FALSE /\ crossed = FALSE /\ overlap = FALSE

Change == changes < ChangeBound /\ changes' = changes + 1

Places == DOMAIN stack
InTree == {stack[n] : n \in Places}
Shown == {p \in InTree : win[p].shown}
Listed == {list[n].ptr : n \in DOMAIN list}
Entry(p) == list[CHOOSE n \in DOMAIN list : list[n].ptr = p]
IdOf(p) == IF p = Null THEN Null ELSE win[p].id

Place(p) == CHOOSE n \in Places : stack[n] = p

(* The first window of S below p in the stack.                             *)
NextBelow(p, S) ==
  LET below == {n \in Places : n > Place(p) /\ stack[n] \in S}
  IN  IF below = {} THEN Null ELSE stack[Min(below)]

WithoutWindow(p) == RemoveAt(stack, Place(p))

(* The elements of s at the places in I, in their order.                   *)
Part(s, I) ==
  LET place == CHOOSE f \in [1 .. Cardinality(I) -> I] :
                 \A m, n \in 1 .. Cardinality(I) : m < n => f[m] < f[n]
  IN  [k \in 1 .. Cardinality(I) |-> s[place[k]]]

-----------------------------------------------------------------------------
(* The X server: its windows change between two checks.                    *)

TreeChanges ==
  /\ main.pc = "idle" /\ Change
  /\ settled' = 0
  /\ UNCHANGED <<list, flags, threads, client, request, crossed, overlap>>

(* A new window, on top of the others.                                     *)
CreateWindow(p, i) ==
  /\ p \notin InTree /\ i \notin {win[q].id : q \in InTree}
  /\ stack' = <<p>> \o stack
  /\ win' = [win EXCEPT ![p] = [NoWindow EXCEPT !.id = i, !.shown = TRUE]]
  /\ recycled' = \/ recycled
                  \/ \E n \in DOMAIN list :
                       p \in {list[n].ptr, list[n].sib} \/ list[n].id = i
  /\ TreeChanges

DestroyWindow(p) ==
  /\ p \in InTree
  /\ stack' = WithoutWindow(p)
  /\ win' = [win EXCEPT ![p] = NoWindow]
  /\ UNCHANGED recycled /\ TreeChanges

(* Mapped, unmapped, obscured, or its hints set.                           *)
ShowOrHide(p) ==
  /\ p \in InTree
  /\ win' = [win EXCEPT ![p].shown = ~@]
  /\ UNCHANGED <<stack, recycled>> /\ TreeChanges

MoveWindow(p, g) ==
  /\ p \in InTree /\ g # win[p].geom
  /\ win' = [win EXCEPT ![p].geom = g]
  /\ UNCHANGED <<stack, recycled>> /\ TreeChanges

RaiseWindow(p) ==
  /\ p \in InTree /\ p # Head(stack)
  /\ stack' = <<p>> \o WithoutWindow(p)
  /\ UNCHANGED <<win, recycled>> /\ TreeChanges

-----------------------------------------------------------------------------
(* remote_check_rootless_windows_for_updates.                              *)

NextSibAny(p) == NextBelow(p, InTree)

(* The next window down the stack that has an entry, even one marked WDEL. *)
(* Windows further down that are new get their entry later in the check.   *)
NextSib(p) == NextBelow(p, Listed)

DiffersInStack(e) == e.sib # NextSib(e.ptr)
Differs(e) == e.geom # win[e.ptr].geom \/ e.sib # NextSib(e.ptr)

Filled(p, state) ==
  [ptr |-> p, id |-> win[p].id, state |-> state, geom |-> win[p].geom,
   sib |-> NextSib(p), sibId |-> IdOf(NextSib(p))]

NewEntry(p) == Filled(p, "NEW")

(* A window that is there is compared with its entry: a difference makes   *)
(* it CHANGED whatever it was, NEW and WDEL included.  Without one it      *)
(* keeps its state, WDEL included.                                         *)
Found(e) == Filled(e.ptr, IF Differs(e) THEN "CHANGED" ELSE e.state)

NotFound(e) == [e EXCEPT !.state = "WDEL"]

(* New entries go to the head of the list one by one.                      *)
CheckedList ==
  LET new == Part(stack, {n \in Places : stack[n] \in Shown \ Listed})
  IN  Reverse([n \in DOMAIN new |-> NewEntry(new[n])])
        \o [n \in DOMAIN list |-> IF list[n].ptr \in Shown THEN Found(list[n])
                                  ELSE NotFound(list[n])]

Pending(l) == {n \in DOMAIN l : l[n].state # "UNCHANGED"}

UpdatedByFound(l) == updated \/ \E n \in Pending(l) : l[n].state # "WDEL"
UpdatedBy(l) == updated \/ Pending(l) # {}

CheckWindows ==
  /\ main.pc = "idle" /\ connected
  /\ list' = CheckedList
  /\ updated' = UpdatedBy(CheckedList)
  /\ settled' = IF Pending(list) = {} /\ settled < 2 THEN settled + 1
                ELSE settled
  /\ UNCHANGED <<server, connected, rebuilt, threads, client, request, changes,
                 recycled, crossed, overlap>>

-----------------------------------------------------------------------------
(* Requests of the client.                                                 *)

(* The client's window manager moved or restacked one of its windows: the  *)
(* client shows it so at once, and tells the server.                       *)
ClientChanges(i, g, sib) ==
  /\ connected /\ request = Null /\ client[i] # Null /\ Change
  /\ sib # i
  /\ sib # Null => client[sib] # Null
  /\ client[i] # [geom |-> g, sib |-> sib]
  /\ client' = [client EXCEPT ![i] = [geom |-> g, sib |-> sib]]
  /\ request' = [kind |-> "change", id |-> i, geom |-> g, sib |-> sib]
  /\ UNCHANGED <<server, list, flags, threads, settled, recycled, crossed,
                 overlap>>

ClientIconifies(i) ==
  /\ connected /\ request = Null /\ client[i] # Null /\ Change
  /\ request' = [kind |-> "iconify", id |-> i, geom |-> client[i].geom,
                 sib |-> Null]
  /\ UNCHANGED <<server, list, flags, threads, client, settled, recycled,
                 crossed, overlap>>

WithId(i) == {p \in InTree : win[p].id = i}

(* remote_find_window_on_screen_by_id                                      *)
Window(i) == IF WithId(i) = {} THEN Null ELSE CHOOSE p \in WithId(i) : TRUE

(* MoveWindowInStack: p right above sib, or at the bottom.                 *)
Restacked(p, sib) ==
  LET rest == WithoutWindow(p)
  IN  InsertAt(rest, IF sib = Null THEN Len(stack)
                     ELSE CHOOSE k \in DOMAIN rest : rest[k] = sib, p)

HasRequest(kind) ==
  /\ main.pc = "idle" /\ connected
  /\ request # Null /\ request.kind = kind
  /\ request' = Null

(* The application gets WM_CHANGE_STATE, and the window goes to the bottom *)
(* of the stack.                                                           *)
Iconify ==
  /\ HasRequest("iconify")
  /\ LET p == Window(request.id)
     IN  /\ stack' = IF p = Null THEN stack ELSE Restacked(p, Null)
         /\ settled' = IF p = Null THEN settled ELSE 0
  /\ UNCHANGED <<win, list, flags, threads, client, recycled, crossed, changes,
                 overlap>>

(* A window that is not on the screen, or has no entry.                    *)
RefuseRequest ==
  /\ HasRequest("change")
  /\ Window(request.id) \notin Listed
  /\ crossed' = (crossed \/ \E n \in DOMAIN list : list[n].id = request.id)
  /\ UNCHANGED <<server, list, flags, threads, client, settled, recycled,
                 changes, overlap>>

TouchedNothing(e, sib, restack) == e

(* What the client asked for is written into the entry, so that the next   *)
(* check finds no difference and does not tell the client its own change.  *)
Touched(e, sib, restack) ==
  LET moved == [e EXCEPT !.geom = IF win[e.ptr].geom # request.geom
                                  THEN request.geom ELSE @]
  IN  IF restack THEN [moved EXCEPT !.sib = sib, !.sibId = IdOf(sib)]
      ELSE moved

InUpdate(i) ==
  \E s \in Senders : \E n \in DOMAIN hand[s] : hand[s][n].id = i

(* The entry is not what the client saw when it made its request.          *)
Crosses(e, sib) ==
  \/ e.ptr \notin Shown \/ Differs(e)
  \/ InUpdate(e.id)
  \/ IdOf(sib) # request.sib
  \/ sib \notin (Shown \cap Listed) \cup {Null}

(* client_win_change up to the moment it compares the focus.               *)
ChangeWindow ==
  LET p == Window(request.id)
      sib == IF request.sib = Null THEN Null ELSE Window(request.sib)
      restack == NextSibAny(p) # sib
  IN  /\ HasRequest("change")
      /\ p \in Listed
      /\ list' = [n \in DOMAIN list |->
                    IF list[n].ptr = p THEN Touched(list[n], sib, restack)
                    ELSE list[n]]
      /\ win' = [win EXCEPT ![p].geom = request.geom]
      /\ stack' = IF restack THEN Restacked(p, sib) ELSE stack
      /\ main' = [pc |-> "focus", ptr |-> p,
                  deleted |-> Entry(p).state = "WDEL"]
      /\ settled' = 0
      /\ crossed' = (crossed \/ Crosses(Entry(p), sib))
      /\ UNCHANGED <<flags, spc, hand, client, recycled, changes, overlap>>

(* rw->hasFocus is read, and perhaps written, after the mutex is released. *)
CompareFocus ==
  /\ main.pc = "focus"
  /\ main' = MainIdle
  /\ UNCHANGED <<server, list, flags, spc, hand, client, request, history>>

-----------------------------------------------------------------------------
(* Connections.                                                            *)

Sending == {s \in Senders : spc[s] = "sending"}
Rebuilding == \E s \in Senders : spc[s] = "clean"

(* delete_all_windows: windowsUpdated stays as it is.                      *)
DeleteAllWindows ==
  /\ list' = <<>>
  /\ settled' = 0 /\ changes' = changes
  /\ overlap' = (overlap \/ Sending # {} \/ main.pc # "idle")

(* disconnect_client: by SIGHUP it may come before the focus is compared.  *)
Disconnect ==
  /\ connected
  /\ connected' = FALSE
  /\ request' = Null
  /\ DeleteAllWindows
  /\ UNCHANGED <<server, updated, rebuilt, threads, client, recycled, crossed>>

Accept(s) ==
  /\ main.pc = "idle" /\ ~connected /\ spc[s] \in {"none", "exit"}
  /\ connected' = TRUE
  /\ client' = NoWindows
  /\ spc' = [spc EXCEPT ![s] = "top"]
  /\ UNCHANGED <<server, list, updated, rebuilt, main, hand, request, history>>

RebuildCaches ==
  /\ main.pc = "idle" /\ connected /\ ~rebuilt
  /\ rebuilt' = TRUE
  /\ UNCHANGED <<server, list, updated, connected, threads, client, request,
                 history>>

-----------------------------------------------------------------------------
(* The sending thread.                                                     *)

Goto(s, pc) == spc' = [spc EXCEPT ![s] = pc]

CheckConnected(s) ==
  /\ spc[s] = "top"
  /\ Goto(s, IF connected THEN "serve" ELSE "exit")
  /\ UNCHANGED <<server, list, flags, main, hand, client, request, history>>

(* What WINUPDATE says of an entry.                                        *)
Message(e) == [id |-> e.id, deleted |-> e.state = "WDEL",
               info |-> [geom |-> e.geom, sib |-> e.sibId]]

Updates ==
  LET told == Part(list, Pending(list))
  IN  [n \in DOMAIN told |-> Message(told[n])]

SurvivesUnchanged(e) == e.state = "UNCHANGED"
Survives(e) == e.state # "WDEL"

Remaining ==
  LET kept == Part(list, {n \in DOMAIN list : Survives(list[n])})
  IN  [n \in DOMAIN kept |-> [kept[n] EXCEPT !.state = "UNCHANGED"]]

(* remote_process_window_updates, under the mutex.                         *)
ProcessUpdates(s) ==
  /\ spc[s] = "serve"
  /\ IF updated
     THEN /\ hand' = [hand EXCEPT ![s] = Updates]
          /\ list' = Remaining
          /\ updated' = FALSE
          /\ overlap' = (overlap \/ Sending # {} \/ Rebuilding)
          /\ Goto(s, "sending")
     ELSE /\ Goto(s, "rebuild")
          /\ UNCHANGED <<hand, list, updated, overlap>>
  /\ UNCHANGED <<server, connected, rebuilt, main, client, request, changes,
                 settled, recycled, crossed>>

(* A client that reads WINUPDATE: it creates windows it does not have,     *)
(* whether they are called NEW or CHANGED.                                 *)
Applied(windows, msgs) ==
  [i \in Id |->
     LET about == {n \in DOMAIN msgs : msgs[n].id = i}
         latest == CHOOSE n \in about : \A k \in about : k <= n
     IN  IF about = {} THEN windows[i]
         ELSE IF msgs[latest].deleted THEN Null ELSE msgs[latest].info]

HandKept(s) == hand
HandFreed(s) == [hand EXCEPT ![s] = <<>>]

(* remote_send_win_updates, without the mutex.                             *)
SendUpdates(s) ==
  /\ spc[s] = "sending"
  /\ client' = Applied(client, hand[s])
  /\ hand' = HandFreed(s)
  /\ crossed' = (crossed \/ (request # Null /\ InUpdate(request.id)))
  /\ Goto(s, "rebuild")
  /\ UNCHANGED <<server, list, flags, main, request, changes, settled,
                 recycled, overlap>>

TakeRebuild(s) ==
  /\ spc[s] = "rebuild"
  /\ rebuilt' = FALSE
  /\ Goto(s, IF rebuilt THEN "reinit" ELSE "top")
  /\ UNCHANGED <<server, list, updated, connected, main, hand, client, request,
                 history>>

(* The client drops its windows with its caches.                           *)
SendReinit(s) ==
  /\ spc[s] = "reinit"
  /\ client' = NoWindows
  /\ overlap' = (overlap \/ Sending # {})
  /\ Goto(s, "clean")
  /\ UNCHANGED <<server, list, flags, main, hand, request, changes, settled,
                 recycled, crossed>>

CleanEverything(s) ==
  /\ spc[s] = "clean"
  /\ DeleteAllWindows
  /\ Goto(s, "top")
  /\ UNCHANGED <<server, flags, main, hand, client, request, recycled,
                 crossed>>

-----------------------------------------------------------------------------
XServer ==
  \E p \in Ptr :
    \/ \E i \in Id : CreateWindow(p, i)
    \/ \E g \in Geom : MoveWindow(p, g)
    \/ DestroyWindow(p) \/ ShowOrHide(p) \/ RaiseWindow(p)

MainStep ==
  \/ CheckWindows \/ Iconify \/ RefuseRequest \/ ChangeWindow \/ CompareFocus
  \/ Disconnect \/ RebuildCaches
  \/ \E s \in Senders : Accept(s)

ClientStep ==
  \E i \in Id :
    \/ \E g \in Geom, sib \in Id \cup {Null} : ClientChanges(i, g, sib)
    \/ ClientIconifies(i)

SenderStep(s) ==
  \/ CheckConnected(s) \/ ProcessUpdates(s) \/ SendUpdates(s)
  \/ TakeRebuild(s) \/ SendReinit(s) \/ CleanEverything(s)

Next == XServer \/ MainStep \/ ClientStep \/ \E s \in Senders : SenderStep(s)

Spec == Init /\ [][Next]_vars

-----------------------------------------------------------------------------
(* Properties.                                                             *)

States == {"UNCHANGED", "CHANGED", "NEW", "WDEL"}
Entries == [ptr : Ptr, id : Id, state : States, geom : Geom,
            sib : Ptr \cup {Null}, sibId : Ids]

(* The shape of the state: no window has two entries, and an update is in  *)
(* hand only while it is being sent.                                       *)
TypeOK ==
  /\ stack \in Seq(Ptr) /\ Cardinality(InTree) = Len(stack)
  /\ win \in [Ptr -> [id : Ids, shown : BOOLEAN, geom : Geom]]
  /\ list \in Seq(Entries) /\ Cardinality(Listed) = Len(list)
  /\ {updated, connected, rebuilt} \subseteq BOOLEAN
  /\ {recycled, crossed, overlap} \subseteq BOOLEAN
  /\ main \in [pc : {"idle", "focus"}, ptr : Ptr \cup {Null},
               deleted : BOOLEAN]
  /\ spc \in [Senders -> {"none", "top", "serve", "sending", "rebuild",
                          "reinit", "clean", "exit"}]
  /\ hand \in [Senders -> Seq([id : Id, deleted : BOOLEAN, info : Info])]
  /\ \A s \in Senders : hand[s] # <<>> => spc[s] = "sending"
  /\ client \in [Id -> Info \cup {Null}]
  /\ request # Null => request \in Requests
  /\ changes \in 0 .. ChangeBound /\ settled \in 0 .. 2

(* The ordinary life of a session: window pointers and ids are not reused  *)
(* before the client was told, no request crosses an update, no cleanup    *)
(* comes between two steps of a thread, and none is under way.             *)
Orderly ==
  /\ ~recycled /\ ~crossed /\ ~overlap
  /\ ~Rebuilding

(* The client's windows once it has read the update in hand.               *)
ClientSoon ==
  IF Sending = {} THEN client
  ELSE Applied(client, hand[CHOOSE s \in Sending : TRUE])

(* The list knows every window the client has, and an entry that is not    *)
(* marked says what the client was told last or asked for itself: marks    *)
(* are set in a check, overwritten in the next, cleared by another thread, *)
(* and requests change entries without a mark.  A marked entry is never    *)
(* forgotten: the sending thread looks at the list only if windowsUpdated  *)
(* says so, and it clears the flag while checks go on setting it.          *)
ClientFollowsList ==
  /\ Orderly /\ connected =>
       /\ \A i \in Id :
            ClientSoon[i] # Null => \E n \in DOMAIN list : list[n].id = i
       /\ \A n \in DOMAIN list :
            LET e == list[n]
            IN  e.state = "UNCHANGED" /\ (request = Null \/ request.id # e.id) =>
                  ClientSoon[e.id] = [geom |-> e.geom, sib |-> e.sibId]
  /\ Pending(list) # {} => updated

(* Once the windows stop changing, a paint that finds nothing left to send *)
(* brings the client's set of windows and their geometry to what is on the *)
(* screen, and a second one the stacking order.                            *)
SettledScreenIsShown ==
  /\ Orderly /\ connected /\ request = Null
  /\ Sending = {} /\ Pending(list) = {}
  =>
    /\ settled >= 1 =>
         /\ {i \in Id : client[i] # Null} = {win[p].id : p \in Shown}
         /\ \A p \in Shown : client[win[p].id].geom = win[p].geom
    /\ settled = 2 =>
         \A p \in Shown : client[win[p].id].sib = IdOf(NextBelow(p, Shown))

(* The entry client_win_change goes on using after it released the mutex   *)
(* is still there, unless it was marked WDEL when it was looked up: the    *)
(* sending thread frees only such entries.                                 *)
EntryOutlivesRequest ==
  ~overlap /\ main.pc = "focus" /\ ~main.deleted => main.ptr \in Listed

(* "if some list windows not there anymore, delete and send notification"  *)
(* (x2gokdriveremote.c:4433): after a check only windows that are not on   *)
(* the screen are to be deleted.                                           *)
DeletedAreGone ==
  [][CheckWindows =>
       \A n \in DOMAIN list' :
         list'[n].state = "WDEL" => list'[n].ptr \notin Shown]_vars
=============================================================================
