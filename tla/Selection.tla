------------------------------ MODULE Selection ------------------------------
(***************************************************************************)
(* Clipboard exchange of x2gokdriveselection.c and the selection code of   *)
(* x2gokdriveremote.c.  The main thread reads the events of the client and *)
(* fills inSelection; the selection thread is an X client of the server    *)
(* itself, it answers the X applications that paste and reads what they    *)
(* copy; the sending thread writes chunks and requests to the client.      *)
(*                                                                         *)
(* The X server, the X applications and the client are external.  A        *)
(* request of the selection thread to the X server takes effect at once;   *)
(* the events it causes reach the thread later, in order.  Data are        *)
(* counted in units, and every copy has a version by which it is told      *)
(* apart; a critical section of inMutex is one action.                     *)
(***************************************************************************)
EXTENDS Integers, Sequences, FiniteSets

CONSTANTS
  Selections,   \* PRIMARY and CLIPBOARD, or one of them
  Skipped,      \* selections the client does not have (PRIMARY on Windows)
  Kinds,        \* kinds of data both sides support: text, images
  Size,         \* size of a copy of each kind, in units
  ChunkUnits,   \* units in one chunk (max_chunk)
  EventUnits,   \* units in one event of the client (EVLENGTH)
  IncrUnits,    \* INCR_SIZE
  Delay,        \* SELECTION_DELAY
  OnDemands,    \* what clients support: selections on demand, or at once
  ClientMayOwn, \* selectionMode allows selections of the client
  ServerMayOwn, \* selectionMode and the client allow those of the server
  ClientKinds,  \* kinds copied at the client
  AppKinds,     \* kinds copied by X applications, supported or not
  AppIncr,      \* kinds the X applications deliver incrementally
  Requests,     \* requests of X applications for data of the client
  CopyBound, TimeBound, ConnBound, \* bounds, for model checking only
  None          \* no atom, no property

ASSUME OnDemandsAssumption == OnDemands \subseteq BOOLEAN
ASSUME SizeAssumption == Size \in [Kinds -> Nat \ {0}]
ASSUME KindsAssumption ==
  /\ ClientKinds \subseteq Kinds /\ (Kinds \cup AppKinds) \cap {None, "TARGETS"} = {}
  /\ None # "TARGETS"
(* No value of a property is None.                                         *)
ASSUME NoneAssumption ==
  None \notin [type : {"TARGETS", "data", "INCR"}, src : Selections \X Nat,
               kind : Kinds \cup AppKinds, size : Nat]
ASSUME UnitsAssumption == {ChunkUnits, EventUnits, IncrUnits} \subseteq Nat \ {0}

VARIABLES
  inSel,      \* selstruct.inSelection
  delayed,    \* list of delayed requests
  incr,       \* INCR transactions
  requested,  \* selstruct.requestSelection
  xq,         \* X events on their way to the selection thread
  spc,        \* where the selection thread is in its loop
  ev, pos,    \* its event, its place in the list of delayed requests
  reading,    \* incrAtom, incrementalSizeRead and currentSelection, and
              \* (history) whether two conversions got mixed
  best,       \* selstruct.best_atom
  chunks,     \* queue of output chunks
  xowner,     \* X server: who owns each selection
  prop,       \* X server: properties of the clipboard window
  apps,       \* X applications that copy: contents, conversions asked of them
  answer,     \* X applications that paste: what became of each request
  remote,     \* the client: its copy, what it announced and received
  toServer, toClient, \* the connection
  onDemand,           \* selstruct.clientSupportsOnDemandSelection
  connected, conns,   \* whether there is a client, and the how-manieth it is
  clock, version      \* time, and the number of copies made

incoming == <<inSel, delayed, incr, requested>>
thread == <<spc, ev, pos>>
outgoing == <<reading, best, chunks>>
xserver == <<xowner, prop, apps>>
net == <<toServer, toClient, connected, conns, onDemand>>
vars == <<incoming, xq, thread, outgoing, xserver, answer, remote, net, clock, version>>

AtMost(a, b) == IF a < b THEN a ELSE b

(* Number of parts of at most unit units that n units are cut into.        *)
Parts(n, unit) == (n + unit - 1) \div unit

PartSize(n, unit, i) == AtMost(unit, n - (i - 1) * unit)

Event(t, s, x) == [type |-> t, sel |-> s, arg |-> x]

NoCopy == [ver |-> 0, kind |-> None]

Empty == [copy |-> NoCopy, size |-> 0, ready |-> 0, state |-> "NOTIFIED",
          owner |-> FALSE, time |-> 0]

NotReading == [atom |-> None, read |-> 0, current |-> None, mixed |-> FALSE]

Unasked == [how |-> "none", sel |-> None, target |-> None, time |-> 0,
            copy |-> NoCopy, filled |-> 0, unread |-> FALSE]

Init ==
  /\ inSel = [s \in Selections |-> Empty]
  /\ delayed = <<>> /\ incr = <<>>
  /\ requested = [s \in Selections |-> FALSE]
  /\ xq = <<>> /\ spc = "wait" /\ pos = 1 /\ ev = Event("none", None, None)
  /\ reading = NotReading
  /\ best = [s \in Selections |-> None]
  /\ chunks = <<>>
  /\ xowner = [s \in Selections |-> "nobody"]
  /\ prop = [a \in Kinds \cup {"TARGETS"} |-> None]
  /\ apps = [s \in Selections |->
               [copy |-> NoCopy, conv |-> <<>>, sending |-> NoCopy, left |-> 0]]
  /\ answer = [r \in Requests |-> Unasked]
  /\ remote = [s \in Selections |->
                 [copy |-> NoCopy, heard |-> 0, phase |-> "none", from |-> {}]]
  /\ toServer = <<>> /\ toClient = <<>>
  /\ connected = TRUE /\ conns = 1 /\ onDemand \in OnDemands
  /\ clock = 1 /\ version = 0

-----------------------------------------------------------------------------
(* The client (external).                                                  *)

(* part: the number of the chunk in its transfer.                          *)
Message(t, s, c, part, size) ==
  [type |-> t, sel |-> s, copy |-> c, part |-> part, size |-> size]

(* A copy is sent in chunks; a chunk takes one event for the header and    *)
(* the first data, and more events for the rest of it.                     *)
Transfer(s, c) ==
  LET total == Size[c.kind]
      n == Parts(total, ChunkUnits)
      events == Parts(ChunkUnits, EventUnits)
      lastEvents == Parts(PartSize(total, ChunkUnits, n), EventUnits)
  IN  [j \in 1 .. (n - 1) * events + lastEvents |->
         LET i == (j - 1) \div events + 1
         IN  IF (j - 1) % events = 0
             THEN Message("chunk", s, c, i, PartSize(total, ChunkUnits, i))
             ELSE Message("rest", s, c, i, 0)]

ClientCopies(s, k) ==
  /\ connected /\ version < CopyBound
  /\ version' = version + 1
  /\ LET c == [ver |-> version + 1, kind |-> k]
     IN  /\ remote' = [remote EXCEPT ![s].copy = c]
         /\ toServer' = toServer \o
              (IF onDemand THEN <<Message("notify", s, c, 1, 0)>>
                           ELSE Transfer(s, c))
  /\ UNCHANGED <<incoming, xq, thread, outgoing, xserver, answer, toClient,
                 connected, conns, onDemand, clock>>

(* It reads a request for its data, or a chunk: chunks are put together    *)
(* from the first to the last.                                             *)
ClientReads ==
  /\ connected /\ toClient # <<>>
  /\ toClient' = Tail(toClient)
  /\ LET m == Head(toClient) s == m.sel IN
     CASE m.type = "request" ->
            /\ toServer' = IF remote[s].copy = NoCopy THEN toServer
                           ELSE toServer \o Transfer(s, remote[s].copy)
            /\ UNCHANGED remote
       [] m.type = "notify" ->
            /\ remote' = [remote EXCEPT ![s].phase = "notified", ![s].from = {}]
            /\ UNCHANGED toServer
       [] m.type = "chunk" ->
            /\ remote' = [remote EXCEPT
                 ![s].phase = IF ~m.first /\ @ # "open" THEN "broken"
                              ELSE IF m.last THEN "done" ELSE "open",
                 ![s].from = (IF m.first THEN {} ELSE @) \cup {m.src}]
            /\ UNCHANGED toServer
  /\ UNCHANGED <<incoming, xq, thread, outgoing, xserver, answer, connected,
                 conns, onDemand, clock, version>>

(* Someone pastes at the client: it demands the announced data, once.      *)
ClientDemands(s) ==
  /\ connected /\ remote[s].phase = "notified"
  /\ remote' = [remote EXCEPT ![s].phase = "asked"]
  /\ toServer' = Append(toServer, Message("demand", s, NoCopy, 0, 0))
  /\ UNCHANGED <<incoming, xq, thread, outgoing, xserver, answer, toClient,
                 connected, conns, onDemand, clock, version>>

-----------------------------------------------------------------------------
(* X applications and the X server (external).                             *)

Tick ==
  /\ clock < TimeBound /\ clock' = clock + 1
  /\ UNCHANGED <<incoming, xq, thread, outgoing, xserver, answer, remote, net, version>>

(* An application copies: the selection thread hears of the new owner.     *)
AppCopies(s, k) ==
  /\ version < CopyBound /\ version' = version + 1
  /\ xowner' = [xowner EXCEPT ![s] = "app"]
  /\ apps' = [apps EXCEPT ![s].copy = [ver |-> version + 1, kind |-> k]]
  /\ xq' = Append(xq, Event("owner", s, "app"))
  /\ UNCHANGED <<incoming, thread, outgoing, prop, answer, remote, net, clock>>

(* An application pastes: it asks the owner for TARGETS or TIMESTAMP       *)
(* ("meta") or for data, with the current time or with CurrentTime, 0.     *)
AppPastes(r, s, target, t) ==
  /\ answer[r].how = "none" /\ xowner[s] = "us"
  /\ answer' = [answer EXCEPT ![r] =
       [@ EXCEPT !.how = "pending", !.sel = s, !.target = target, !.time = t]]
  /\ xq' = Append(xq, Event("request", s, r))
  /\ UNCHANGED <<incoming, thread, outgoing, xserver, remote, net, clock, version>>

(* The application that reads incrementally deletes the property to ask    *)
(* for the next portion.                                                   *)
AppDeletes(r) ==
  /\ answer[r].unread
  /\ answer' = [answer EXCEPT ![r].unread = FALSE]
  /\ xq' = Append(xq, Event("deleted", answer[r].sel, r))
  /\ UNCHANGED <<incoming, thread, outgoing, xserver, remote, net, clock, version>>

Value(type, s, c, size) == [type |-> type, src |-> <<s, c.ver>>, kind |-> c.kind,
                            size |-> size]

(* The owner converts its contents into a property of the clipboard        *)
(* window, or refuses; large data it announces with INCR.                  *)
AppConverts(s) ==
  /\ apps[s].conv # <<>>
  /\ LET req == Head(apps[s].conv)
         c == req.copy
         a == req.target
         Write(v) == /\ prop' = [prop EXCEPT ![a] = v]
                     /\ xq' = xq \o <<Event("newvalue", None, a), Event("reply", s, a)>>
         done == [apps EXCEPT ![s].conv = Tail(@)]
     IN  \/ a = "TARGETS" /\ Write(Value("TARGETS", s, c, 0)) /\ apps' = done
         \/ a = c.kind /\ a \notin AppIncr
            /\ Write(Value("data", s, c, Size[a])) /\ apps' = done
         \/ a = c.kind /\ a \in AppIncr
            /\ Write(Value("INCR", s, c, Size[a]))
            /\ apps' = [done EXCEPT ![s].sending = c, ![s].left = Size[a]]
         \/ a \notin {"TARGETS", c.kind}
            /\ xq' = Append(xq, Event("reply", s, None))
            /\ apps' = done /\ UNCHANGED prop
  /\ UNCHANGED <<incoming, thread, outgoing, xowner, answer, remote, net, clock, version>>

PortionDue(s) ==
  apps[s].sending # NoCopy /\ prop[apps[s].sending.kind] = None

(* Once the property is deleted the owner writes the next portion, and     *)
(* after the last one a property without data.                             *)
AppPortion(s) ==
  LET c == apps[s].sending
      n == AtMost(apps[s].left, ChunkUnits)
  IN
  /\ PortionDue(s)
  /\ prop' = [prop EXCEPT ![c.kind] = Value("data", s, c, n)]
  /\ apps' = [apps EXCEPT ![s].left = @ - n,
                          ![s].sending = IF n = 0 THEN NoCopy ELSE @]
  /\ xq' = Append(xq, Event("newvalue", None, c.kind))
  /\ UNCHANGED <<incoming, thread, outgoing, xowner, answer, remote, net, clock, version>>

-----------------------------------------------------------------------------
(* The main thread: events of the client.                                  *)

(* A buffer requested from the client is owned since its announcement.     *)
OwnNow(b) == b.state # "REQUESTED"

(* own_selection: b is the buffer of s.                                    *)
Owned(b) == IF ClientMayOwn THEN [b EXCEPT !.owner = TRUE, !.time = clock] ELSE b

OwnEvents(s) == IF ClientMayOwn THEN <<Event("owner", s, "us")>> ELSE <<>>

OwnsNow(s) == xowner' = IF ClientMayOwn THEN [xowner EXCEPT ![s] = "us"] ELSE xowner

AnnouncedKeepsData(b) == b
(* The buffer after the announcement of data that were not sent.           *)
Announced(b) == [b EXCEPT !.copy = NoCopy, !.size = 0, !.ready = 0, !.state = "NOTIFIED"]

MainReads(type) ==
  /\ connected /\ toServer # <<>> /\ Head(toServer).type = type
  /\ toServer' = Tail(toServer)

Hears(m) == remote' = [remote EXCEPT ![m.sel].heard = m.copy.ver]

(* readInputSelectionHeader, announcement.  The kind is kept: it is what   *)
(* check_req_sanity and send_mime_types look at.                           *)
ReadNotify ==
  /\ MainReads("notify")
  /\ LET m == Head(toServer) s == m.sel IN
     /\ inSel' = [inSel EXCEPT ![s] = Owned([Announced(@) EXCEPT !.copy.kind = m.copy.kind])]
     /\ OwnsNow(s) /\ xq' = xq \o OwnEvents(s)
     /\ Hears(m)
  /\ UNCHANGED <<delayed, incr, requested, thread, outgoing, prop, apps, answer,
                 toClient, connected, conns, onDemand, clock, version>>

Started(b, m) ==
  IF m.part = 1 THEN [b EXCEPT !.copy = m.copy, !.size = Size[m.copy.kind], !.ready = 0]
  ELSE b

(* readInputSelectionHeader, data.  Only what the first event of the chunk *)
(* carries is stored.                                                      *)
ReadChunk ==
  /\ MainReads("chunk")
  /\ LET m == Head(toServer)
         s == m.sel
         b == [Started(inSel[s], m) EXCEPT !.ready = @ + AtMost(m.size, EventUnits)]
         own == OwnNow(b)
     IN  /\ Hears(m)
         /\ \/ /\ b.ready # b.size
               /\ inSel' = [inSel EXCEPT ![s] = b]
               /\ UNCHANGED <<xq, xowner>>
            \/ /\ b.ready = b.size
               /\ inSel' = [inSel EXCEPT
                    ![s] = [(IF own THEN Owned(b) ELSE b) EXCEPT !.state = "COMPLETED"]]
               /\ IF own THEN OwnsNow(s) ELSE UNCHANGED xowner
               /\ xq' = xq \o (IF own THEN OwnEvents(s) ELSE <<>>)
                           \o <<Event("ready", s, None)>>
  /\ UNCHANGED <<delayed, incr, requested, thread, outgoing, prop, apps, answer,
                 toClient, connected, conns, onDemand, clock, version>>

(* The rest of a chunk is taken for an event, and most data are none.      *)
ReadRest ==
  /\ MainReads("rest")
  /\ UNCHANGED <<incoming, xq, thread, outgoing, xserver, answer, remote,
                 toClient, connected, conns, onDemand, clock, version>>

(* client_sel_request_notify *)
ReadDemand ==
  /\ MainReads("demand")
  /\ xq' = Append(xq, Event("demand", Head(toServer).sel, None))
  /\ UNCHANGED <<incoming, thread, outgoing, xserver, answer, remote,
                 toClient, connected, conns, onDemand, clock, version>>

(* disconnect_client clears the queue of chunks; the buffers, the requests *)
(* and the selection thread know nothing of it.  What the next client      *)
(* supports is known once it sends its version.                            *)
ClientLeaves ==
  /\ connected /\ conns < ConnBound
  /\ connected' = FALSE /\ chunks' = <<>> /\ toServer' = <<>> /\ toClient' = <<>>
  /\ remote' = [s \in Selections |->
       [remote[s] EXCEPT !.copy = NoCopy, !.phase = "none", !.from = {}]]
  /\ UNCHANGED <<incoming, xq, thread, reading, best, xserver, answer, conns, onDemand, clock, version>>

ClientArrives ==
  /\ ~connected /\ connected' = TRUE /\ conns' = conns + 1 /\ onDemand' \in OnDemands
  /\ UNCHANGED <<incoming, xq, thread, outgoing, xserver, answer, remote,
                 toServer, toClient, clock, version>>

-----------------------------------------------------------------------------
(* The sending thread.                                                     *)

(* It takes a chunk when no frame and no cursor waits, at any time here.   *)
SendChunk ==
  /\ connected /\ chunks # <<>>
  /\ chunks' = Tail(chunks) /\ toClient' = Append(toClient, Head(chunks))
  /\ UNCHANGED <<incoming, xq, thread, reading, best, xserver, answer, remote,
                 toServer, connected, conns, onDemand, clock, version>>

SendRequest(s) ==
  /\ connected /\ requested[s]
  /\ requested' = [requested EXCEPT ![s] = FALSE]
  /\ toClient' = Append(toClient, Message("request", s, NoCopy, 0, 0))
  /\ UNCHANGED <<inSel, delayed, incr, xq, thread, outgoing, xserver, answer, remote,
                 toServer, connected, conns, onDemand, clock, version>>

-----------------------------------------------------------------------------
(* The selection thread: delayed requests.                                 *)

(* Every event first wakes the thread for the delayed requests.            *)
Wake ==
  /\ spc = "wait" /\ xq # <<>>
  /\ ev' = Head(xq) /\ xq' = Tail(xq) /\ spc' = "scan" /\ pos' = 1
  /\ UNCHANGED <<incoming, outgoing, xserver, answer, remote, net, clock, version>>

Expired(r) == clock > answer[r].time + Delay

Older(r) == inSel[answer[r].sel].time > answer[r].time

(* check_req_sanity *)
Convertible(r) == inSel[answer[r].sel].copy.kind = answer[r].target

Refused(a) == [a EXCEPT !.how = "refused"]

(* The answer to a request from buffer b, by send_data: in one property,   *)
(* or incrementally from a copy of the buffer.                             *)
Answered(a, b) ==
  IF b.copy.kind # a.target THEN Refused(a)
  ELSE [a EXCEPT !.how = IF b.size < IncrUnits THEN "data" ELSE "incr",
                 !.copy = b.copy, !.filled = b.ready, !.unread = b.size >= IncrUnits]

Transaction(r, b) == [req |-> r, size |-> b.size, sent |-> 0]

WithIncr(r, a) ==
  IF a.how = "incr" THEN Append(incr, Transaction(r, inSel[a.sel])) ELSE incr

DeliverAlways(b) == TRUE
Deliverable(b) == b.state = "COMPLETED"

DiscardNothing == delayed' = delayed
Discard == delayed' = SubSeq(delayed, 1, pos - 1) \o SubSeq(delayed, pos + 1, Len(delayed))

(* process_delayed_requests, one request.                                  *)
ScanDelayed ==
  /\ spc = "scan" /\ pos <= Len(delayed)
  /\ LET r == delayed[pos] b == inSel[answer[r].sel] IN
     \/ /\ Expired(r) \/ ~b.owner \/ Older(r) \/ ~Convertible(r)
        /\ answer' = [answer EXCEPT ![r] = Refused(@)]
        /\ Discard
        /\ UNCHANGED <<incr, pos>>
     \/ /\ ~Expired(r) /\ b.owner /\ ~Older(r) /\ Convertible(r) /\ ~Deliverable(b)
        /\ pos' = pos + 1
        /\ UNCHANGED <<answer, delayed, incr>>
     \/ /\ ~Expired(r) /\ b.owner /\ ~Older(r) /\ Convertible(r) /\ Deliverable(b)
        /\ LET a == Answered(answer[r], b) IN
           /\ answer' = [answer EXCEPT ![r] = a]
           /\ incr' = WithIncr(r, a)
        /\ Discard
        /\ UNCHANGED pos
  /\ UNCHANGED <<inSel, requested, xq, spc, ev, outgoing, xserver, remote, net, clock, version>>

ScanDone ==
  /\ spc = "scan" /\ pos > Len(delayed)
  /\ spc' = "prune" /\ pos' = 1
  /\ UNCHANGED <<incoming, xq, ev, outgoing, xserver, answer, remote, net, clock, version>>

(* remove_obsolete_incr_transactions walks the delayed requests, and not   *)
(* the transactions, again, one request.                                   *)
PruneDelayed ==
  /\ spc = "prune" /\ pos <= Len(delayed)
  /\ LET r == delayed[pos] IN
     \/ /\ Expired(r)
        /\ answer' = [answer EXCEPT ![r] = Refused(@)]
        /\ Discard
        /\ UNCHANGED pos
     \/ /\ ~Expired(r)
        /\ pos' = pos + 1
        /\ UNCHANGED <<answer, delayed>>
  /\ UNCHANGED <<inSel, incr, requested, xq, spc, ev, outgoing, xserver, remote, net, clock, version>>

PruneDone ==
  /\ spc = "prune" /\ pos > Len(delayed)
  /\ spc' = "handle" /\ pos' = 1
  /\ UNCHANGED <<incoming, xq, ev, outgoing, xserver, answer, remote, net, clock, version>>

-----------------------------------------------------------------------------
(* The selection thread: requests of X applications.                       *)

Handles(type) == spc = "handle" /\ ev.type = type /\ spc' = "wait"

(* process_selection_request, everything but delaying.                     *)
AnswerRequest ==
  /\ Handles("request")
  /\ LET r == ev.arg
         b == inSel[ev.sel]
         a == IF ~b.owner \/ Older(r) THEN Refused(answer[r])
              ELSE IF answer[r].target = "meta" THEN [answer[r] EXCEPT !.how = "meta"]
              ELSE Answered(answer[r], b)
     IN  /\ ~b.owner \/ Older(r) \/ answer[r].target = "meta" \/ Deliverable(b)
         /\ answer' = [answer EXCEPT ![r] = a]
         /\ incr' = WithIncr(r, a)
  /\ UNCHANGED <<inSel, delayed, requested, xq, ev, pos, outgoing, xserver, remote,
                 net, clock, version>>

AsksNever(b) == FALSE
Asks(b) == b.state = "NOTIFIED"

(* delay_selection_request: the data are requested from the client once.   *)
DelayRequest ==
  /\ Handles("request")
  /\ LET r == ev.arg s == ev.sel b == inSel[s] IN
     /\ b.owner /\ ~Older(r) /\ answer[r].target # "meta" /\ ~Deliverable(b)
     /\ delayed' = Append(delayed, r)
     /\ requested' = [requested EXCEPT ![s] = @ \/ Asks(b)]
     /\ inSel' = [inSel EXCEPT ![s].state = IF @ = "NOTIFIED" THEN "REQUESTED" ELSE @]
  /\ UNCHANGED <<incr, xq, ev, pos, outgoing, xserver, answer, remote, net, clock, version>>

PortionWhole(tr) == IncrUnits
Portion(tr) == AtMost(IncrUnits, tr.size - tr.sent)

(* process_incr_transaction_property: the next portion, or the end.        *)
NextPortion ==
  /\ Handles("deleted")
  /\ LET r == ev.arg
         mine == {i \in DOMAIN incr : incr[i].req = r}
     IN  \/ \E i \in mine :
              /\ incr[i].sent < incr[i].size
              /\ incr' = [incr EXCEPT ![i].sent = @ + Portion(incr[i])]
              /\ answer' = [answer EXCEPT ![r].unread = TRUE]
         \/ \E i \in mine :
              /\ incr[i].sent = incr[i].size
              /\ incr' = SubSeq(incr, 1, i - 1) \o SubSeq(incr, i + 1, Len(incr))
              /\ answer' = [answer EXCEPT ![r].how = "data"]
  /\ UNCHANGED <<inSel, delayed, requested, xq, ev, pos, outgoing, xserver, remote,
                 net, clock, version>>

(* client_sel_data_notify only interrupts the wait.                        *)
DataReady ==
  /\ Handles("ready")
  /\ UNCHANGED <<incoming, xq, ev, pos, outgoing, xserver, answer, remote, net, clock, version>>

-----------------------------------------------------------------------------
(* The selection thread: selections of X applications.                     *)

(* A conversion to target a is not over for selection t: it is to be done, *)
(* or the reply is on its way.                                             *)
Converting(t, a) ==
  \/ \E i \in DOMAIN apps[t].conv : apps[t].conv[i].target = a
  \/ \E i \in DOMAIN xq : xq[i].type = "reply" /\ xq[i].sel = t /\ xq[i].arg = a

(* A conversion to a for s begins while another one of data, or one of     *)
(* another selection, is not over.                                         *)
Overlaps(s, a, rd) ==
  \/ a \in Kinds /\ rd.atom # None
  \/ \E t \in Selections, b \in DOMAIN prop :
       (t # s \/ {a, b} \subseteq Kinds) /\ Converting(t, b)
  \/ \E t \in Selections \ {s} : apps[t].sending.kind = a

(* request_selection_data: the property is deleted and the owner asked.    *)
(* Nobody answers for a selection without owner; of ourselves the request  *)
(* is refused, as its time is 0.                                           *)
Converts(s, a, p, rd) ==
  /\ prop' = [p EXCEPT ![a] = None]
  /\ reading' = [rd EXCEPT !.mixed = @ \/ Overlaps(s, a, rd)]
  /\ IF xowner[s] = "app"
     THEN /\ apps' = [apps EXCEPT ![s].conv =
                        Append(@, [target |-> a, copy |-> apps[s].copy])]
          /\ UNCHANGED xq
     ELSE xq' = Append(xq, Event("reply", s, None)) /\ UNCHANGED apps

KeepsOwner(b) == b
Disowned(b) == [b EXCEPT !.owner = FALSE]

(* Something about selection s ends the reading, be it of s or not.        *)
StopReading(rd, s) ==
  [rd EXCEPT !.atom = None, !.read = 0,
             !.mixed = @ \/ (rd.atom # None /\ rd.current # s)]

(* process_selection_owner_notify *)
OwnerChanged ==
  /\ Handles("owner")
  /\ \/ /\ ev.arg = "us" \/ ~ServerMayOwn
        /\ UNCHANGED <<inSel, reading, prop, apps, xq>>
     \/ /\ ev.arg # "us" /\ ServerMayOwn
        /\ inSel' = [inSel EXCEPT ![ev.sel] = Disowned(@)]
        /\ Converts(ev.sel, "TARGETS", prop, StopReading(reading, ev.sel))
  /\ UNCHANGED <<delayed, incr, requested, ev, pos, best, chunks, xowner, answer,
                 remote, net, clock, version>>

(* process_selection_notify, demand of the client.                         *)
DataDemanded ==
  /\ Handles("demand")
  /\ IF best[ev.sel] = None THEN UNCHANGED <<prop, apps, xq, reading>>
     ELSE Converts(ev.sel, best[ev.sel], prop, reading)
  /\ UNCHANGED <<incoming, ev, pos, best, chunks, xowner, answer, remote, net, clock, version>>

OutChunk(type, s, v, first, last) ==
  [type |-> type, sel |-> s, src |-> v.src, first |-> first, last |-> last]

FirstAfterRead(i, rd) == i = 1 /\ rd.read # 0
(* Chunk i of a property begins a transfer.                                *)
FirstChunk(i, rd) == i = 1 /\ rd.read = 0

NeverEnds(v) == FALSE
(* The property without data ends an incremental transfer.                 *)
Ends(v) == v.size = 0

(* The chunks made of property value v, read as selection s.               *)
ChunksOf(v, s, rd, incremental) ==
  LET n == Parts(IF v.size = 0 THEN 1 ELSE v.size, ChunkUnits)
  IN  [i \in 1 .. n |->
         IF incremental THEN OutChunk("chunk", s, v, FirstChunk(i, rd), Ends(v))
         ELSE OutChunk("chunk", s, v, i = 1, i = n)]

(* read_selection_property of atom a as selection s; rd is what is being   *)
(* read incrementally.  Where nothing is converted, the owner and the      *)
(* queue of X events stay as they are.                                     *)
ReadProperty(s, a, rd) ==
  LET v == prop[a]
      gone == [prop EXCEPT ![a] = None]
  IN
  \/ /\ v = None
     /\ reading' = rd /\ UNCHANGED <<prop, apps, xq, best, chunks>>
  \/ /\ v # None /\ v.type = "INCR"
     /\ reading' = [rd EXCEPT !.atom = a, !.read = 0]
     /\ prop' = gone /\ UNCHANGED <<apps, xq, best, chunks>>
  \/ /\ v # None /\ v.type = "TARGETS" /\ v.kind \in Kinds /\ s \notin Skipped /\ onDemand
     /\ chunks' = Append(chunks, OutChunk("notify", s, v, TRUE, TRUE))
     /\ best' = [best EXCEPT ![s] = v.kind]
     /\ reading' = rd /\ prop' = gone /\ UNCHANGED <<apps, xq>>
  \/ /\ v # None /\ v.type = "TARGETS" /\ v.kind \in Kinds /\ s \notin Skipped /\ ~onDemand
     /\ Converts(s, v.kind, gone, rd)
     /\ UNCHANGED <<best, chunks>>
  \/ /\ v # None /\ v.type = "TARGETS" /\ (v.kind \notin Kinds \/ s \in Skipped)
     /\ reading' = rd /\ prop' = gone /\ UNCHANGED <<apps, xq, best, chunks>>
  \/ /\ v # None /\ v.type = "data"
     /\ chunks' = chunks \o ChunksOf(v, s, rd, rd.atom = a)
     /\ reading' = IF rd.atom = a /\ Ends(v) THEN StopReading(rd, s)
                   ELSE IF rd.atom = a THEN [rd EXCEPT !.read = @ + v.size] ELSE rd
     /\ prop' = gone /\ UNCHANGED <<apps, xq, best>>

(* process_selection_notify, reply to request_selection_data.              *)
ConversionDone ==
  /\ Handles("reply")
  /\ LET rd == StopReading(reading, ev.sel) IN
     \/ ev.arg = None /\ reading' = rd /\ UNCHANGED <<prop, apps, xq, best, chunks>>
     \/ ev.arg # None /\ ReadProperty(ev.sel, ev.arg, [rd EXCEPT !.current = ev.sel])
  /\ UNCHANGED <<incoming, ev, pos, xowner, answer, remote, net, clock, version>>

(* process_property_notify, new value: the next portion.                   *)
PropertyChanged ==
  /\ Handles("newvalue")
  /\ \/ reading.atom = ev.arg /\ ReadProperty(reading.current, ev.arg, reading)
     \/ reading.atom # ev.arg /\ UNCHANGED <<reading, prop, apps, xq, best, chunks>>
  /\ UNCHANGED <<incoming, ev, pos, xowner, answer, remote, net, clock, version>>

-----------------------------------------------------------------------------

MainThread == ReadNotify \/ ReadChunk \/ ReadRest \/ ReadDemand

SelectionThread ==
  \/ Wake \/ ScanDelayed \/ ScanDone \/ PruneDelayed \/ PruneDone
  \/ AnswerRequest \/ DelayRequest \/ NextPortion \/ DataReady
  \/ OwnerChanged \/ DataDemanded \/ ConversionDone \/ PropertyChanged

SendingThread == SendChunk \/ \E s \in Selections : SendRequest(s)

Environment ==
  \/ Tick \/ ClientReads \/ ClientLeaves \/ ClientArrives
  \/ \E s \in Selections :
       \/ \E k \in ClientKinds : ClientCopies(s, k)
       \/ \E k \in AppKinds : AppCopies(s, k)
       \/ ClientDemands(s) \/ AppConverts(s) \/ AppPortion(s)
       \/ \E r \in Requests, target \in ClientKinds \cup {"meta"}, t \in {0, clock} :
            AppPastes(r, s, target, t)
  \/ \E r \in Requests : AppDeletes(r)

Next == MainThread \/ SelectionThread \/ SendingThread \/ Environment

Spec == Init /\ [][Next]_vars

-----------------------------------------------------------------------------
(* Properties of the state.                                                *)

TypeOK ==
  /\ \A s \in Selections :
       /\ inSel[s].state \in {"NOTIFIED", "REQUESTED", "COMPLETED"}
       /\ inSel[s].ready \in 0 .. inSel[s].size
       /\ best[s] \in Kinds \cup {None}
  /\ \A i \in DOMAIN incr : incr[i].sent \in 0 .. incr[i].size
  /\ reading.read \in Nat /\ reading.atom \in DOMAIN prop \cup {None}
  /\ spc \in {"wait", "scan", "prune", "handle"} /\ pos \in 1 .. Len(delayed) + 1

Pending(type) ==
  {xq[i] : i \in {j \in DOMAIN xq : xq[j].type = type}}
    \cup {e \in {ev} : spc # "wait" /\ e.type = type}

(* A request that is not answered yet is either an event on its way or one *)
(* of the delayed requests, once; an answered one is neither.  So no       *)
(* request is forgotten or answered twice, however events, timeouts and    *)
(* data of the client follow each other (process_selection_request,        *)
(* process_delayed_requests, remove_obsolete_incr_transactions).           *)
OneAnswer ==
  \A r \in Requests :
    LET places == Cardinality({i \in DOMAIN delayed : delayed[i] = r})
                  + Cardinality({e \in Pending("request") : e.arg = r})
    IN  places = IF answer[r].how = "pending" THEN 1 ELSE 0

(* What an application got is a whole copy of the kind it asked for, also  *)
(* when it was sent in portions while new data of the client came in       *)
(* (send_data, start_incr_transaction).  It holds while the client         *)
(* announces what it copies: a copy that does not fit in one event never   *)
(* completes its buffer, and the announcement has taken COMPLETED from it. *)
(* A client that sends its copies at once refills a buffer that is still   *)
(* COMPLETED.                                                              *)
DataIsWhole ==
  \A r \in Requests :
    answer[r].how = "data" =>
      /\ answer[r].copy.ver # 0
      /\ answer[r].copy.kind = answer[r].target
      /\ answer[r].filled = Size[answer[r].target]

(* An application never gets data older than the last the server heard of  *)
(* (the NOTIFIED state of readInputSelectionHeader).                       *)
AnswersAreLatest ==
  [][\A r \in Requests :
       answer'[r].how \in {"data", "incr"} /\ answer[r].how = "pending" =>
         answer'[r].copy.ver = remote[answer[r].sel].heard]_answer

(* A chunk of a copy of kind k is larger than an event, so that only the   *)
(* beginning of it is stored.                                              *)
Torn(k) == AtMost(Size[k], ChunkUnits) > EventUnits

(* Data the selection thread waits for have been asked for: the request is *)
(* to be sent, or at the client, or the data are coming                    *)
(* (delay_selection_request, send_frame_thread); or they came, and were    *)
(* lost, because their chunks do not fit in one event: then the buffer     *)
(* holds their beginning and stays REQUESTED until the next announcement   *)
(* (readInputSelectionHeader, clientReadNotify).                           *)
RequestedIsAsked ==
  conns = 1 /\ connected =>
    \A s \in Selections :
      inSel[s].state = "REQUESTED" =>
        \/ requested[s]
        \/ \E i \in DOMAIN toClient : toClient[i].type = "request" /\ toClient[i].sel = s
        \/ \E i \in DOMAIN toServer : toServer[i].type = "chunk" /\ toServer[i].sel = s
        \/ inSel[s].ready \in 1 .. inSel[s].size - 1 /\ Torn(inSel[s].copy.kind)

(* When the server takes itself for the owner of a selection it lost, the  *)
(* event that tells it is on its way (process_selection_owner_notify).     *)
(* Where selectionMode keeps the selections of the server from the client  *)
(* the event is ignored, and the server goes on taking itself for the      *)
(* owner.                                                                  *)
LossIsTold ==
  ServerMayOwn =>
    \A s \in Selections :
      inSel[s].owner /\ xowner[s] # "us" =>
        \E e \in Pending("owner") : e.sel = s /\ e.arg = "app"

(* "We didn't receive complete chunk yet, next event will have data": when *)
(* nothing of the client is on its way any more no buffer is filled in     *)
(* part (the comment in readInputSelectionHeader).                         *)
NextEventHasData ==
  conns = 1 /\ connected /\ toServer = <<>> =>
    \A s \in Selections : inSel[s].ready = inSel[s].size

Unmixed == ~reading.mixed

(* The client receives every transfer from its first chunk, and all chunks *)
(* of a transfer are of one copy (read_selection_property).                *)
TransfersAreWhole ==
  conns = 1 =>
    \A s \in Selections :
      /\ remote[s].phase # "broken"
      /\ Unmixed => Cardinality(remote[s].from) <= 1

Quiet ==
  /\ xq = <<>> /\ spc = "wait" /\ chunks = <<>> /\ toClient = <<>> /\ toServer = <<>>
  /\ \A s \in Selections : apps[s].conv = <<>> /\ ~PortionDue(s)

(* When nothing is under way any more the client does not wait for the     *)
(* rest of a transfer, unless the selection was taken over by the client   *)
(* itself or with data of a kind the client cannot have, or the data were  *)
(* converted more than once: a second conversion can break an incremental transfer, as    *)
(* its INCR value is read like a portion (process_property_notify) and the *)
(* reply then stops the reading (process_selection_notify).                *)
TransfersEnd ==
  Quiet /\ conns = 1 =>
    \A s \in Selections :
      xowner[s] = "app" /\ apps[s].copy.kind \in Kinds /\ Unmixed
        => remote[s].phase # "open"

=============================================================================
