---------------------------- MODULE AgentSession ----------------------------
(***************************************************************************)
(* The life of a session (x2gokdriveremote.c): the state the agent reports *)
(* in its state file, the listening socket, the socket of the client, the  *)
(* connection timer, the timers that watch whether the client is alive and *)
(* the sending threads.  The main thread accepts and loses clients, SIGHUP *)
(* suspends and resumes the session, SIGTERM ends it.  The handlers are    *)
(* installed with OsSignal and run on the main thread, on top of whatever  *)
(* it is doing; a handler that has to wait for sendqueue_mutex is modelled *)
(* by a signal that arrives when it is free, unless the main thread itself *)
(* holds it.                                                               *)
(***************************************************************************)
EXTENDS Integers

CONSTANTS
  Conns,        \* connections, numbered in the order they are accepted
  MainThread,   \* the main thread as holder of the mutex
  Free,         \* holder of a mutex nobody holds
  SignalBound,  \* bound on the number of signals, for model checking only
  LeakBound     \* bound on the number of forgotten timers, likewise

ASSUME ConnsAssumption == Conns \subseteq Nat \ {0}
ASSUME HolderAssumption ==
  MainThread # Free /\ MainThread \notin Conns /\ Free \notin Conns
ASSUME BoundAssumption == SignalBound \in Nat /\ LeakBound \in Nat

VARIABLES
  agentState,     \* remoteVars.agentState
  listening,      \* serversock_tcp is open
  timer,          \* checkConnectionTimer is set
  clientsock,     \* clientsock_tcp: a connection, 0 before the first
  sock,           \* what became of the socket of each connection
  connected,      \* client_connected
  mutex,          \* holder of sendqueue_mutex
  mainpc,         \* what the main thread is doing
  thread,         \* the sending thread created for each connection
  sendThreadId,   \* send_thread_id, 0 if none
  joined,         \* argument of pthread_join
  h264,           \* compression = H264: no sending thread is used
  aliveTimer,     \* checkKeepAliveTimer is set
  leaked,         \* timers running checkClientAlive that nobody remembers
  signals,        \* signals delivered so far
  survivor,       \* history: a client was accepted while an old thread ran
                  \* or an old client was connected
  interrupted,    \* history: SIGHUP was handled while a client was accepted
  stale           \* history: a forgotten timer fired without a client

vars == <<agentState, listening, timer, clientsock, sock, connected, mutex,
          mainpc, thread, sendThreadId, joined, h264, aliveTimer, leaked,
          signals, survivor, interrupted, stale>>

keepalive == <<aliveTimer, leaked>>
history == <<survivor, interrupted, stale>>

AgentStates == {"STARTING", "RUNNING", "RESUMING", "SUSPENDED",
                "TERMINATING", "TERMINATED"}

Alive(t) == thread[t] \in {"loop", "check", "work", "refine", "ending"}

NextStateAlways(old, new) == new

(* setAgentState: a terminating agent only terminates.                     *)
NextState(old, new) ==
  IF old = "TERMINATED" \/ (old = "TERMINATING" /\ new # "TERMINATED")
  THEN old ELSE new

SetAgentState(new) == agentState' = NextState(agentState, new)

CancelKeepsListening == listening' = listening /\ SetAgentState("SUSPENDED")

(* cancelBeforeStart: nobody is waited for any more.                       *)
CancelBeforeStart == listening' = FALSE /\ SetAgentState("SUSPENDED")

OpenSocketNoTimer == listening' = TRUE /\ timer' = timer

(* open_socket: the session listens, for ACCEPT_TIMEOUT at most.           *)
OpenSocket == listening' = TRUE /\ timer' = TRUE

(* The flags serverAcceptNotify sets for a client with the right cookie.   *)
Welcome ==
  connected' = TRUE /\ timer' = FALSE /\ SetAgentState("RUNNING")

DisconnectSilently ==
  connected' = FALSE /\ aliveTimer' = FALSE /\ agentState' = agentState

(* disconnect_client, run under the mutex: of the timers it frees the one  *)
(* it knows.                                                               *)
Disconnect ==
  connected' = FALSE /\ aliveTimer' = FALSE /\ SetAgentState("SUSPENDED")

MustEndAlways == TRUE
MustEndNever == FALSE

(* What a sending thread reads at the top of its loop.                     *)
MustEnd == ~connected

CloseNothing == sock' = sock

(* close_client_sockets: the socket in clientsock_tcp, whoever calls.      *)
CloseClientSocket == sock' = [sock EXCEPT ![clientsock] = "closed"]

Init ==
  /\ agentState = "STARTING" /\ listening = TRUE /\ timer = TRUE
  /\ clientsock = 0
  /\ sock = [c \in Conns |-> "unused"]
  /\ connected = FALSE
  /\ mutex = Free /\ mainpc = "idle"
  /\ thread = [c \in Conns |-> "none"]
  /\ sendThreadId = 0 /\ joined = 0
  /\ h264 \in BOOLEAN
  /\ aliveTimer = FALSE /\ leaked = 0
  /\ signals = 0
  /\ survivor = FALSE /\ interrupted = FALSE /\ stale = FALSE

(* disconnect_client locks the mutex: on top of a critical section of the  *)
(* same thread it waits for itself.                                        *)
SelfLock == mutex = MainThread

(* terminateServer up to the end of disconnect_client, by the handler of   *)
(* SIGTERM or where the main thread gives up.                              *)
TerminateServer ==
  /\ \/ /\ connected /\ SelfLock
        /\ SetAgentState("TERMINATING")
        /\ mainpc' = "stuck"
        /\ UNCHANGED <<connected, aliveTimer>>
     \/ /\ connected /\ mutex = Free
        /\ connected' = FALSE /\ aliveTimer' = FALSE
        /\ agentState' = NextState(NextState(agentState, "TERMINATING"),
                                  "SUSPENDED")
        /\ mainpc' = "join"
     \/ /\ ~connected
        /\ SetAgentState("TERMINATING")
        /\ mainpc' = "cancel"
        /\ UNCHANGED <<connected, aliveTimer>>
  /\ UNCHANGED <<listening, timer, clientsock, sock, mutex, thread,
                 sendThreadId, joined, h264, leaked, history>>

-----------------------------------------------------------------------------
(* The main thread.                                                        *)

(* serverAcceptNotify, up to the cookie: the socket of the client is       *)
(* stored without the mutex, and the listening socket is closed.           *)
AcceptClient(c) ==
  /\ mainpc = "idle" /\ listening
  /\ sock[c] = "unused" /\ \A d \in Conns : d < c => sock[d] # "unused"
  /\ clientsock' = c
  /\ sock' = [sock EXCEPT ![c] = "open"]
  /\ listening' = FALSE
  /\ mainpc' = "accepted"
  /\ survivor' = (survivor \/ connected \/ \E t \in Conns : Alive(t))
  /\ UNCHANGED <<agentState, timer, connected, mutex, thread, sendThreadId,
                 joined, h264, keepalive, signals, interrupted, stale>>

(* Wrong cookie or a read error: the state and the timer stay as they are. *)
RejectClient ==
  /\ mainpc = "accepted"
  /\ CloseClientSocket
  /\ mainpc' = "idle"
  /\ UNCHANGED <<agentState, listening, timer, clientsock, connected, mutex,
                 thread, sendThreadId, joined, h264, keepalive,
                 signals, history>>

(* getaddrinfo fails for acceptAddr: the server gives up.                  *)
LookupFails == mainpc = "accepted" /\ TerminateServer /\ UNCHANGED signals

(* The cookie is right: under the mutex, except with H264.                 *)
WelcomeClient ==
  /\ mainpc = "accepted" /\ (h264 \/ mutex = Free)
  /\ Welcome
  /\ mainpc' = "welcomed"
  /\ UNCHANGED <<listening, clientsock, sock, mutex, thread, sendThreadId,
                 joined, h264, keepalive,
                 signals, history>>

StartThread ==
  /\ mainpc = "welcomed"
  /\ mainpc' = "idle"
  /\ IF h264
     THEN UNCHANGED <<thread, sendThreadId>>
     ELSE /\ thread' = [thread EXCEPT ![clientsock] = "loop"]
          /\ sendThreadId' = clientsock
  /\ UNCHANGED <<agentState, listening, timer, clientsock, sock, connected,
                 mutex, joined, h264, keepalive,
                 signals, history>>

(* pthread_create fails: the server gives up.                              *)
CreateFails ==
  mainpc = "welcomed" /\ ~h264 /\ TerminateServer /\ UNCHANGED signals

(* clientReadNotify, DISCONNECTCLIENT or checkClientAlive: the client is   *)
(* gone.  The socket is left to the sending thread.                        *)
DisconnectClient ==
  /\ mainpc = "idle" /\ mutex = Free /\ connected
  /\ Disconnect
  /\ UNCHANGED <<listening, timer, clientsock, sock, mutex, mainpc, thread,
                 sendThreadId, joined, h264, leaked, signals, history>>

(* set_client_version for a client of version 3 or later: CLIENTVERSION    *)
(* starts a timer, and a second one starts another and forgets the first.  *)
SetClientVersion ==
  /\ mainpc = "idle" /\ mutex = Free /\ connected
  /\ IF aliveTimer THEN leaked < LeakBound /\ leaked' = leaked + 1
                   ELSE UNCHANGED leaked
  /\ aliveTimer' = TRUE
  /\ UNCHANGED <<agentState, listening, timer, clientsock, sock, connected,
                 mutex, mainpc, thread, sendThreadId, joined, h264, signals,
                 history>>

(* checkClientAlive, run by a timer that was forgotten: it goes by when    *)
(* the last event of any client came, so it may fire after its client left *)
(* and disconnect the next one, or nobody.  It is not set again.           *)
LeakedTimerFires ==
  /\ mainpc = "idle" /\ mutex = Free /\ leaked > 0
  /\ leaked' = leaked - 1
  /\ Disconnect
  /\ stale' = (stale \/ ~connected)
  /\ UNCHANGED <<listening, timer, clientsock, sock, mutex, mainpc, thread,
                 sendThreadId, joined, h264, signals, survivor, interrupted>>

(* checkSocketConnection after ACCEPT_TIMEOUT.                             *)
CheckSocketConnection ==
  /\ mainpc = "idle" /\ mutex = Free /\ timer
  /\ timer' = FALSE
  /\ IF connected
     THEN UNCHANGED <<agentState, listening>>
     ELSE CancelBeforeStart
  /\ UNCHANGED <<clientsock, sock, connected, mutex, mainpc, thread,
                 sendThreadId, joined, h264, keepalive,
                 signals, history>>

(* Any other handler of the main thread that takes the mutex (add_frame,   *)
(* remote_process_client_event, remote_sendCursor, ...).                   *)
EnterSection ==
  /\ mainpc = "idle" /\ mutex = Free
  /\ mutex' = MainThread /\ mainpc' = "section"
  /\ UNCHANGED <<agentState, listening, timer, clientsock, sock, connected,
                 thread, sendThreadId, joined, h264, keepalive,
                 signals, history>>

LeaveSection ==
  /\ mainpc = "section"
  /\ mutex' = Free /\ mainpc' = "idle"
  /\ UNCHANGED <<agentState, listening, timer, clientsock, sock, connected,
                 thread, sendThreadId, joined, h264, keepalive,
                 signals, history>>

-----------------------------------------------------------------------------
(* The signal handler, remote_handle_signal.                               *)

(* readOptionsFromFile, when nxagentMode: whatever its "pack" option says, *)
(* the compression is H264 afterwards; without the option it stays.        *)
Options == {h264, TRUE}

Interruptible == mainpc \in {"idle", "section", "accepted", "welcomed"}

SigHup ==
  /\ Interruptible /\ signals < SignalBound
  /\ signals' = signals + 1
  /\ interrupted' = (interrupted \/ mainpc \in {"accepted", "welcomed"})
  /\ \/ /\ agentState \in {"STARTING", "RESUMING"}
        /\ timer' = FALSE /\ CancelBeforeStart
        /\ UNCHANGED <<connected, mainpc, h264, aliveTimer>>
     \/ /\ agentState = "RUNNING" /\ SelfLock
        /\ mainpc' = "stuck"
        /\ UNCHANGED <<agentState, timer, listening, connected, h264,
                       aliveTimer>>
     \/ /\ agentState = "RUNNING" /\ mutex = Free
        /\ Disconnect
        /\ UNCHANGED <<timer, listening, mainpc, h264>>
     \/ /\ agentState = "SUSPENDED" /\ ~listening
        /\ h264' \in Options
        /\ SetAgentState("RESUMING") /\ OpenSocket
        /\ UNCHANGED <<connected, mainpc, aliveTimer>>
     \/ /\ agentState = "SUSPENDED"     \* the port is in use: bind fails
        /\ h264' \in Options
        /\ SetAgentState("TERMINATING")
        /\ mainpc' = "cancel"
        /\ UNCHANGED <<connected, listening, timer, aliveTimer>>
  /\ UNCHANGED <<clientsock, sock, mutex, thread, sendThreadId, joined,
                 leaked, survivor, stale>>

SigTerm ==
  /\ Interruptible /\ signals < SignalBound
  /\ signals' = signals + 1
  /\ TerminateServer

(* The thread id is read after the mutex was released.  pthread_join(0) is *)
(* undefined: it may return an error or crash.                             *)
ReadThreadId ==
  /\ mainpc = "join"
  /\ joined' = sendThreadId
  /\ mainpc' \in IF sendThreadId = 0 THEN {"destroy", "crashed"} ELSE {"joining"}
  /\ UNCHANGED <<agentState, listening, timer, clientsock, sock, connected,
                 mutex, thread, sendThreadId, h264, keepalive,
                 signals, history>>

JoinWithoutWaiting ==
  /\ mainpc = "joining"
  /\ sendThreadId' = 0
  /\ mainpc' = "destroy"
  /\ UNCHANGED <<agentState, listening, timer, clientsock, sock, connected,
                 mutex, thread, joined, h264, keepalive,
                 signals, history>>

JoinThread ==
  /\ mainpc = "joining" /\ thread[joined] = "dead"
  /\ sendThreadId' = 0
  /\ mainpc' = "destroy"
  /\ UNCHANGED <<agentState, listening, timer, clientsock, sock, connected,
                 mutex, thread, joined, h264, keepalive,
                 signals, history>>

(* Without a client: a thread that has not ended yet is cancelled, but not *)
(* joined: it may go on until its next cancellation point.                 *)
CancelThread ==
  /\ mainpc = "cancel"
  /\ \/ UNCHANGED thread
     \/ /\ sendThreadId # 0 /\ Alive(sendThreadId)
        /\ thread' = [thread EXCEPT ![sendThreadId] = "cancelled"]
  /\ mainpc' = "destroy"
  /\ UNCHANGED <<agentState, listening, timer, clientsock, sock, connected,
                 mutex, sendThreadId, joined, h264, keepalive,
                 signals, history>>

(* The mutexes are destroyed, the images freed and the server gives up.    *)
DestroyAll ==
  /\ mainpc = "destroy"
  /\ SetAgentState("TERMINATED")
  /\ mainpc' = "halted"
  /\ UNCHANGED <<listening, timer, clientsock, sock, connected, mutex, thread,
                 sendThreadId, joined, h264, keepalive,
                 signals, history>>

-----------------------------------------------------------------------------
(* A sending thread, send_frame_thread, reduced to its connection.         *)

Running == mainpc \notin {"halted", "crashed"}

LockThreadAnyway(t) ==
  /\ Running /\ thread[t] = "loop"
  /\ mutex' = t
  /\ thread' = [thread EXCEPT ![t] = "check"]
  /\ UNCHANGED <<agentState, listening, timer, clientsock, sock, connected,
                 mainpc, sendThreadId, joined, h264, keepalive,
                 signals, history>>

LockThread(t) ==
  /\ Running /\ thread[t] = "loop" /\ mutex = Free
  /\ mutex' = t
  /\ thread' = [thread EXCEPT ![t] = "check"]
  /\ UNCHANGED <<agentState, listening, timer, clientsock, sock, connected,
                 mainpc, sendThreadId, joined, h264, keepalive,
                 signals, history>>

(* Without a client it closes clientsock_tcp, whatever connection that is  *)
(* by now, and ends.  With one it sends what there is, or repaints a dirty *)
(* region with the compression set to PNG for a while.                     *)
CheckClient(t) ==
  /\ Running /\ thread[t] = "check"
  /\ mutex' = Free
  /\ IF MustEnd
     THEN thread' = [thread EXCEPT ![t] = "ending"] /\ CloseClientSocket
     ELSE /\ \E pc \in {"work", "refine"} :
               /\ pc = "refine" => ~h264
               /\ thread' = [thread EXCEPT ![t] = pc]
          /\ UNCHANGED sock
  /\ UNCHANGED <<agentState, listening, timer, clientsock, connected, mainpc,
                 sendThreadId, joined, h264, keepalive,
                 signals, history>>

(* Writing to the client, without the mutex.                               *)
SendData(t) ==
  /\ Running /\ thread[t] = "work"
  /\ thread' = [thread EXCEPT ![t] = "loop"]
  /\ UNCHANGED <<agentState, listening, timer, clientsock, sock, connected,
                 mutex, mainpc, sendThreadId, joined, h264, keepalive,
                 signals, history>>

(* send_dirty_region puts the compression back that it found, in place of  *)
(* what the options file may have said since.                              *)
RestoreCompression(t) ==
  /\ Running /\ thread[t] = "refine"
  /\ thread' = [thread EXCEPT ![t] = "loop"]
  /\ h264' = FALSE
  /\ UNCHANGED <<agentState, listening, timer, clientsock, sock, connected,
                 mutex, mainpc, sendThreadId, joined, keepalive, signals,
                 history>>

(* send_thread_id is reset without the mutex, then the thread exits.       *)
ExitThread(t) ==
  /\ Running /\ thread[t] = "ending"
  /\ sendThreadId' = 0
  /\ thread' = [thread EXCEPT ![t] = "dead"]
  /\ UNCHANGED <<agentState, listening, timer, clientsock, sock, connected,
                 mutex, mainpc, joined, h264, keepalive,
                 signals, history>>

-----------------------------------------------------------------------------
Accepting ==
  \/ \E c \in Conns : AcceptClient(c)
  \/ RejectClient \/ LookupFails \/ WelcomeClient
  \/ StartThread \/ CreateFails

Terminating ==
  ReadThreadId \/ JoinThread \/ CancelThread \/ DestroyAll

ThreadStep(t) ==
  \/ LockThread(t) \/ CheckClient(t) \/ SendData(t)
  \/ RestoreCompression(t) \/ ExitThread(t)

Next ==
  \/ Accepting \/ DisconnectClient \/ CheckSocketConnection
  \/ SetClientVersion \/ LeakedTimerFires
  \/ EnterSection \/ LeaveSection
  \/ SigHup \/ SigTerm \/ Terminating
  \/ \E t \in Conns : ThreadStep(t)

Spec == Init /\ [][Next]_vars

(* The scheduler runs every thread, a mutex that is free again and again   *)
(* is had at last, and the timer fires.  Nothing is assumed of clients.    *)
FairSpec ==
  /\ Spec
  /\ WF_vars(StartThread \/ CreateFails)
  /\ WF_vars(LeaveSection) /\ WF_vars(Terminating)
  /\ SF_vars(CheckSocketConnection)
  /\ \A t \in Conns :
       /\ SF_vars(LockThread(t))
       /\ WF_vars(\/ CheckClient(t) \/ SendData(t)
                  \/ RestoreCompression(t) \/ ExitThread(t))

-----------------------------------------------------------------------------
(* Properties.                                                             *)

MainPc == {"idle", "section", "accepted", "welcomed", "stuck", "join",
           "joining", "cancel", "destroy", "halted", "crashed"}
ThreadPc == {"none", "loop", "check", "work", "refine", "ending", "dead",
             "cancelled"}

(* The shape of the state; a thread that checks for a client, or a         *)
(* critical section of the main thread, has the mutex to itself.           *)
TypeOK ==
  /\ agentState \in AgentStates
  /\ listening \in BOOLEAN /\ timer \in BOOLEAN /\ connected \in BOOLEAN
  /\ clientsock \in Conns \cup {0}
  /\ sock \in [Conns -> {"unused", "open", "closed"}]
  /\ mutex \in Conns \cup {MainThread, Free}
  /\ mainpc \in MainPc
  /\ thread \in [Conns -> ThreadPc]
  /\ sendThreadId \in Conns \cup {0} /\ joined \in Conns \cup {0}
  /\ h264 \in BOOLEAN
  /\ aliveTimer \in BOOLEAN /\ leaked \in Nat
  /\ signals \in Nat
  /\ survivor \in BOOLEAN /\ interrupted \in BOOLEAN /\ stale \in BOOLEAN
  /\ \A t \in Conns : thread[t] = "check" => mutex = t
  /\ mainpc = "section" => mutex = MainThread

Ended == {"TERMINATING", "TERMINATED"}

(* The state file tells the truth: the agent reports RUNNING exactly while *)
(* a client is connected, in whatever way clients come and go and signals  *)
(* interrupt the accepting of a client.                                    *)
RunningIffConnected ==
  agentState \notin Ended => (agentState = "RUNNING" <=> connected)

(* An agent that waits for a client has its timer running, also after a    *)
(* client with a wrong cookie took the listening socket away: without the  *)
(* timer it would report RESUMING for ever and no client could connect.    *)
WaitingHasTimer == agentState \in {"STARTING", "RESUMING"} => timer

(* The server listens only while it waits for a client, unless a SIGHUP    *)
(* reopened the socket in the middle of accepting one, or the timer of a   *)
(* client that left ended the wait (set_client_version, 3209).             *)
ListenerIsAwaited ==
  listening /\ ~interrupted /\ ~stale => agentState \in {"STARTING", "RESUMING"} \cup Ended

Promise == INSTANCE Session WITH
  state <- agentState, knocking <- (mainpc = "accepted"), client <- connected

(* Whatever the order of clients, signals and timers, what the agent       *)
(* reports goes through the states of a session: nobody becomes RUNNING    *)
(* who was not accepted, no client leaves unreported, a client that is     *)
(* gone is not suspended twice, and what terminates does nothing else      *)
(* (setAgentState and its callers).                                        *)
KeepsPromise == Promise!Spec

(* As long as every client came after the thread of the last one ended, a  *)
(* connected client has an open socket and, unless it gets H264, a thread  *)
(* that serves it.                                                         *)
ClientIsServed ==
  connected /\ ~survivor /\ mainpc \in {"idle", "section"} =>
    /\ sock[clientsock] = "open"
    /\ \/ thread[clientsock] \in {"loop", "check", "work", "refine"}
       \/ thread[clientsock] = "none" /\ h264

(* When the mutexes are destroyed after a client was connected, its thread *)
(* is dead: terminateServer has waited for it.                             *)
JoinedBeforeDestroy ==
  ~survivor /\ mainpc = "destroy" /\ joined # 0 => thread[joined] = "dead"

(* Under the same condition there is one sending thread at a time, it is   *)
(* the one send_thread_id names, the socket of every earlier client that   *)
(* had a thread is closed, and no thread is left without its mutexes.      *)
OneSender ==
  /\ ~survivor =>
       \A t \in Conns :
         /\ Alive(t) => t = clientsock /\ sendThreadId = t
         /\ thread[t] = "dead" => sock[t] = "closed"
  /\ JoinedBeforeDestroy

(* A thread whose client is gone ends, or a new client is accepted first   *)
(* and it goes on with that one.                                           *)
NoThreadLingers ==
  \A t \in Conns :
    Alive(t) /\ ~connected ~> ~Alive(t) \/ connected \/ ~Running

(* Waiting for a client ends: it comes, or the agent is suspended, also    *)
(* when clients with a wrong cookie come in between.  A client that never  *)
(* sends its cookie is excluded: the main thread would wait in read.       *)
WaitingEnds ==
  []<>(mainpc # "accepted") =>
    (agentState \in {"STARTING", "RESUMING"}
       ~> agentState \notin {"STARTING", "RESUMING"})

-----------------------------------------------------------------------------
(* What comments and documentation say and the code does not do.           *)

(* "Sending the SIGTERM signal to x2gokdrive shuts down the X server"      *)
(* (man/x2gokdrive.man:48); a crash in pthread_join(0) would do that too.   *)
TermShutsDown ==
  agentState = "TERMINATING"
    ~> agentState = "TERMINATED" \/ mainpc = "crashed"
=============================================================================
