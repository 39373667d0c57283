------------------------------- MODULE Events -------------------------------
(***************************************************************************)
(* The stream of events from the client, clientReadNotify in               *)
(* x2gokdriveremote.c: a read takes what has arrived, whole events are     *)
(* processed, and the beginning of the next one waits in eventBuffer for   *)
(* the read that brings the rest.                                          *)
(*                                                                         *)
(* A byte is <<n, i>>, the i-th byte of the n-th event of the connection.  *)
(* What an event does to the rest of the program is in the other modules;  *)
(* here it counts whether it is taken for what the client sent.            *)
(***************************************************************************)
EXTENDS Integers, Sequences, SequencesExt

CONSTANTS
  EvLength,    \* EVLENGTH, bytes of an event
  ReadMax,     \* bytes a read asks for, EVLENGTH * 99
  Kinds,       \* what the client sends, see below
  EventBound,  \* events a client sends, for model checking only
  ConnBound    \* connections, for model checking only

(* "plain": any supported event.  "odd": a type the agent does not know.   *)
(* "bye": DISCONNECTCLIENT.  "chunk": a SELECTIONEVENT whose data does not *)
(* fit into it.  "rest": the data that follows such an event.              *)
ASSUME EventsAssumption ==
  /\ EvLength \in Nat \ {0} /\ ReadMax \in Nat \ {0}
  /\ Kinds \subseteq {"plain", "odd", "bye", "chunk", "rest"}

VARIABLES
  online,   \* remoteVars.client_connected
  conns,    \* connections accepted so far
  kind,     \* the events of this connection, as the client sent them
  wire,     \* bytes sent and not yet read
  rest,     \* the first evBufferOffset bytes of eventBuffer
  handled,  \* what remote_process_client_event was given on this connection
  cut       \* history: a reset of the buffer dropped the beginning of an event

eventVars == <<online, conns, kind, wire, rest, handled, cut>>

EventsInit ==
  /\ online = FALSE /\ conns = 0
  /\ kind = <<>> /\ wire = <<>> /\ rest = <<>> /\ handled = <<>>
  /\ cut = FALSE

LeftoverKept == rest
LeftoverCleared == <<>>

(* serverAcceptNotify sets evBufferOffset to 0.                            *)
Leftover == LeftoverCleared

AcceptConnection ==
  /\ ~online /\ conns < ConnBound
  /\ online' = TRUE /\ conns' = conns + 1
  /\ kind' = <<>> /\ wire' = <<>> /\ handled' = <<>> /\ cut' = FALSE
  /\ rest' = Leftover

Bytes(n) == [i \in 1 .. EvLength |-> <<n, i>>]

(* External: the client sends another event; the data of a selection       *)
(* follows the event that announces it, and nothing else does.             *)
ClientSend(k) ==
  /\ online /\ Len(kind) < EventBound
  /\ k = "rest" <=> kind # <<>> /\ kind[Len(kind)] = "chunk"
  /\ kind' = Append(kind, k)
  /\ wire' = wire \o Bytes(Len(kind) + 1)
  /\ UNCHANGED <<online, conns, rest, handled, cut>>

-----------------------------------------------------------------------------
(* One call of clientReadNotify.                                           *)

(* The types remote_process_client_event may find in a slice of the        *)
(* buffer: its own if it is the whole event, and any if it is data or      *)
(* begins in the middle of an event.                                       *)
Taken(slice) ==
  LET n == slice[1][1]
  IN  IF slice = Bytes(n) /\ kind[n] # "rest" THEN {kind[n]}
      ELSE {"plain", "odd", "bye"}

Slice(buffer, i) == SubSeq(buffer, (i - 1) * EvLength + 1, i * EvLength)

SlicesOf(buffer) == [i \in 1 .. Len(buffer) \div EvLength |-> Slice(buffer, i)]

RestFromStart(buffer) == SubSeq(buffer, 1, Len(buffer) % EvLength)

(* What is kept for the next read.                                         *)
Rest(buffer) ==
  SubSeq(buffer, Len(buffer) - (Len(buffer) % EvLength) + 1, Len(buffer))

ClientReadNotify ==
  /\ online
  /\ \E n \in 1 .. Len(wire) :
       LET buffer == rest \o SubSeq(wire, 1, n)
           slices == SlicesOf(buffer)
       IN  /\ n <= ReadMax
           /\ wire' = SubSeq(wire, n + 1, Len(wire))
           /\ handled' = handled \o slices
           /\ \E types \in [DOMAIN slices -> {"plain", "odd", "bye", "chunk"}] :
                LET odd == \E i \in DOMAIN slices : types[i] = "odd"
                IN  /\ \A i \in DOMAIN slices : types[i] \in Taken(slices[i])
                    /\ online' = (\A i \in DOMAIN slices : types[i] # "bye")
                    /\ rest' = IF odd THEN <<>> ELSE Rest(buffer)
                    /\ cut' = (cut \/ (odd /\ Rest(buffer) # <<>>))
  /\ UNCHANGED <<conns, kind>>

(* The client closes the connection, or the keepalive timer gives up.      *)
LoseClient ==
  /\ online /\ online' = FALSE
  /\ UNCHANGED <<conns, kind, wire, rest, handled, cut>>

EventsNext ==
  \/ AcceptConnection
  \/ \E k \in Kinds : ClientSend(k)
  \/ ClientReadNotify
  \/ LoseClient

EventsSpec == EventsInit /\ [][EventsNext]_eventVars

-----------------------------------------------------------------------------
(* Properties.                                                             *)

(* However the stream is cut into reads, and whatever the last client left *)
(* in the buffer, the agent processes the events of a connection whole, in *)
(* order and each once, as long as no reset of the buffer dropped the      *)
(* beginning of one.                                                       *)
EventsAreWhole ==
  ~cut => handled = [n \in 1 .. Len(handled) |-> Bytes(n)]
=============================================================================
