----------------------------- MODULE Datagrams ------------------------------
(***************************************************************************)
(* Packets over UDP, send_packet_as_datagrams in x2gokdriveremote.c: a     *)
(* packet is cut into datagrams that carry the sequence number of the      *)
(* packet, how many datagrams it has and which of them this one is.        *)
(* There is a sequence for each type of packet, 16 bits wide.  The sending *)
(* thread writes one datagram after the other, and reads the sequence      *)
(* number again for each, while the main thread may reset it when it drops *)
(* the client.  The sending thread resets both sequences itself, for the   *)
(* same client, when the caches are rebuilt.  The thread of a client that  *)
(* is gone may still be there when the next client is served, and works on *)
(* the same variables.                                                     *)
(***************************************************************************)
EXTENDS Integers, FiniteSets

CONSTANTS
  Types,         \* ServerFramePacket, ServerRepaintPacket
  Threads,       \* sending threads, each serves one client
  Payload,       \* UDPDGRAMSIZE - SRVDGRAMHEADERSIZE
  SequenceSize,  \* numbers of a sequence, 2^16
  LengthBound,   \* longest packet, for model checking only
  PacketBound,   \* packets of all types, for model checking only
  RoundBound     \* rounds of a sequence, for model checking only

ASSUME DatagramsAssumption ==
  /\ Payload \in Nat \ {0} /\ SequenceSize \in Nat \ {0}
  /\ "none" \notin Threads

VARIABLES
  sequence,  \* framePacketSeq and repaintPacketSeq
  round,     \* history: how often each began anew for this client
  rebuilt,   \* cache_rebuilt
  served,    \* the thread of the client that is there, "none" without one
  old,       \* threads of the clients that were there, until they end
  packets,   \* packets begun, the number of the last one
  packet,    \* what a thread sends: its number, type, length and sent_bytes
  sentOff,   \* datagrams sent to the client that is there
  overlap    \* history: a client came while an old thread was still there

dgVars == <<sequence, round, rebuilt, served, old, packets, packet, sentOff,
            overlap>>

None == [number |-> 0, type |-> "none", length |-> 0, sent |-> 0]

DatagramsInit ==
  /\ sequence = [t \in Types |-> 0] /\ round = [t \in Types |-> 0]
  /\ rebuilt = FALSE /\ served = "none" /\ old = {}
  /\ packets = 0 /\ packet = [s \in Threads |-> None] /\ sentOff = {}
  /\ overlap = FALSE

CountRoundedDown(length) == length \div Payload

(* dgInPack.                                                               *)
Count(length) ==
  length \div Payload + (IF length % Payload = 0 THEN 0 ELSE 1)

(* An old thread has what it took from the queue before, and one that does *)
(* not notice that its client left serves the next.                        *)
Running(s) == s = served \/ s \in old

(* A packet, for whichever client is there when it is sent.                *)
BeginPacket(s, t, length) ==
  /\ Running(s) /\ packet[s] = None /\ packets < PacketBound
  /\ packets' = packets + 1
  /\ packet' = [packet EXCEPT ![s] = [number |-> packets + 1, type |-> t,
                                     length |-> length, sent |-> 0]]
  /\ UNCHANGED <<sequence, round, rebuilt, served, old, sentOff, overlap>>

(* The bytes from sent_bytes on, as many as fit.                           *)
Piece(p) ==
  p.sent .. (IF p.length - p.sent <= Payload THEN p.length
             ELSE p.sent + Payload) - 1

Header(p) ==
  [type |-> p.type, seq |-> sequence[p.type], count |-> Count(p.length),
   index |-> p.sent \div Payload]

(* Whether it arrives is up to the network: the set holds what was sent,   *)
(* over remoteVars.sock_udp, which is that of the client that is there.     *)
SendDatagram(s) ==
  /\ packet[s] # None /\ packet[s].sent < packet[s].length
  /\ sentOff' = IF served # "none"
                THEN sentOff \cup {[header |-> Header(packet[s]),
                                    round |-> round[packet[s].type],
                                    number |-> packet[s].number,
                                    piece |-> Piece(packet[s])]}
                ELSE sentOff
  /\ packet' = [packet EXCEPT ![s].sent = @ + Cardinality(Piece(packet[s]))]
  /\ UNCHANGED <<sequence, round, rebuilt, served, old, packets, overlap>>

FollowingSame(n) == n

Following(n) == (n + 1) % SequenceSize

EndPacket(s) ==
  /\ packet[s] # None /\ packet[s].sent = packet[s].length
  /\ LET t == packet[s].type
     IN  /\ sequence' = [sequence EXCEPT ![t] = Following(@)]
         /\ round' = IF sequence[t] = SequenceSize - 1
                     THEN [round EXCEPT ![t] = @ + 1] ELSE round
  /\ packet' = [packet EXCEPT ![s] = None]
  /\ UNCHANGED <<rebuilt, served, old, packets, sentOff, overlap>>

(* CACHEREBUILD: the main thread leaves it to the sending thread.          *)
RebuildCaches ==
  /\ served # "none" /\ ~rebuilt /\ \A t \in Types : round[t] < RoundBound
  /\ rebuilt' = TRUE
  /\ UNCHANGED <<sequence, round, served, old, packets, packet, sentOff,
                 overlap>>

(* clean_everything, called by the sending thread between two packets,     *)
(* after it has sent REINIT; the client and what it has got are the same.  *)
Rebuild(s) ==
  /\ Running(s) /\ packet[s] = None /\ rebuilt
  /\ rebuilt' = FALSE
  /\ sequence' = [t \in Types |-> 0]
  /\ round' = [t \in Types |-> round[t] + 1]
  /\ UNCHANGED <<served, old, packets, packet, sentOff, overlap>>

(* disconnect_client calls clean_everything, whatever the sending thread   *)
(* is doing.                                                               *)
DropClient ==
  /\ served # "none"
  /\ served' = "none" /\ old' = old \cup {served}
  /\ sequence' = [t \in Types |-> 0] /\ round' = sequence'
  /\ sentOff' = {}
  /\ UNCHANGED <<rebuilt, packets, packet, overlap>>

EndThread(s) ==
  /\ s \in old /\ packet[s] = None
  /\ old' = old \ {s}
  /\ UNCHANGED <<sequence, round, rebuilt, served, packets, packet, sentOff,
                 overlap>>

(* The next client, served by a thread of its own.                         *)
NextClient(s) ==
  /\ served = "none" /\ s \notin old
  /\ served' = s
  /\ overlap' = (overlap \/ old # {})
  /\ UNCHANGED <<sequence, round, rebuilt, old, packets, packet, sentOff>>

DatagramsNext ==
  \/ \E s \in Threads :
       \/ \E t \in Types, length \in 1 .. LengthBound :
            BeginPacket(s, t, length)
       \/ SendDatagram(s)
       \/ EndPacket(s)
       \/ Rebuild(s)
       \/ EndThread(s)
       \/ NextClient(s)
  \/ RebuildCaches \/ DropClient

DatagramsSpec == DatagramsInit /\ [][DatagramsNext]_dgVars

-----------------------------------------------------------------------------
(* Properties.                                                             *)

(* A client that collects the datagrams of one type and sequence number    *)
(* until it has as many as they say, in any order, and puts them together  *)
(* by their index, has exactly one packet, and all of it: as long as the   *)
(* sequence has not begun anew in between, which it does after 2^16        *)
(* packets and at a rebuild of the caches, when the client is sent REINIT. *)
(* Datagrams of before and after then may have the same type and number.   *)
(* It does not hold for a client that came while a thread of the last one  *)
(* was still there.                                                        *)
PacketsAreRebuilt ==
  ~overlap =>
    \A d \in sentOff :
      LET same == {e \in sentOff : /\ e.header.type = d.header.type
                                   /\ e.header.seq = d.header.seq
                                   /\ e.round = d.round}
          ended == \A s \in Threads : packet[s].number # d.number
      IN  /\ \A e \in same : e.number = d.number
          /\ Cardinality({e.header.index : e \in same}) = Cardinality(same)
          /\ Cardinality(same) <= d.header.count
          /\ ended => Cardinality(same) = d.header.count
=============================================================================
