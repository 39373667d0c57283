------------------------- MODULE AgentSessionProofs -------------------------
(* Theorems about AgentSession, for any number of clients and signals.     *)
EXTENDS AgentSession, TLAPS

USE ConnsAssumption, HolderAssumption, BoundAssumption

-----------------------------------------------------------------------------
(* What SetAgentState may do to the state the agent reports.               *)

(* setAgentState stays within the states it is given.                      *)
LEMMA NextStateType ==
  ASSUME NEW old \in AgentStates, NEW new \in AgentStates
  PROVE  NextState(old, new) \in {old, new}
  BY DEF NextState

(* A terminating agent only becomes terminated.                            *)
LEMMA NextStateEnded ==
  ASSUME NEW old \in Ended, NEW new \in AgentStates
  PROVE  NextState(old, new) \in Ended
  BY DEF NextState, Ended

(* terminateServer keeps the shape of the state, whoever calls it.         *)
LEMMA TerminateType ==
  ASSUME TypeOK, TerminateServer, signals' \in Nat
  PROVE  TypeOK'
<1>1. /\ agentState' \in AgentStates /\ connected' \in BOOLEAN
      /\ mainpc' \in {"stuck", "join", "cancel"} /\ aliveTimer' \in BOOLEAN
  BY DEF TypeOK, TerminateServer, SetAgentState, NextState, AgentStates
<1>2. UNCHANGED <<listening, timer, clientsock, sock, mutex, thread,
                  sendThreadId, joined, h264, leaked, survivor, interrupted,
                  stale>>
  BY DEF TerminateServer, history
<1>3. QED
  BY <1>1, <1>2 DEF TypeOK, MainPc

-----------------------------------------------------------------------------
(* The state keeps its shape, and a critical section its mutex, in every   *)
(* run of the session (setAgentState, serverAcceptNotify,                  *)
(* send_frame_thread, remote_handle_signal).                               *)
THEOREM TypeCorrect == Spec => []TypeOK
<1>1. ASSUME Init PROVE TypeOK
  BY <1>1 DEF Init, TypeOK, AgentStates, MainPc, ThreadPc
<1>2. TypeOK /\ [Next]_vars => TypeOK'
  <2> SUFFICES ASSUME TypeOK, [Next]_vars PROVE TypeOK'
    OBVIOUS
  <2> USE DEF TypeOK, AgentStates, MainPc, ThreadPc, SetAgentState, NextState,
              keepalive, history
  <2>1. ASSUME NEW c \in Conns, AcceptClient(c) PROVE TypeOK'
    <3>1. survivor' \in BOOLEAN
      BY <2>1 DEF AcceptClient, Alive
    <3>2. /\ clientsock' = c /\ sock' = [sock EXCEPT ![c] = "open"]
          /\ listening' \in BOOLEAN /\ mainpc' = "accepted"
          /\ UNCHANGED <<agentState, timer, connected, mutex, thread,
                         sendThreadId, joined, h264, aliveTimer, leaked,
                         signals, interrupted, stale>>
      BY <2>1 DEF AcceptClient
    <3>3. QED
      BY <3>1, <3>2
  <2>2. CASE RejectClient
    <3>1. sock' \in [Conns -> {"unused", "open", "closed"}]
      BY <2>2 DEF RejectClient, CloseClientSocket
    <3>2. QED
      BY <2>2, <3>1 DEF RejectClient
  <2>3. CASE LookupFails
    BY <2>3, TerminateType DEF LookupFails
  <2>4. CASE WelcomeClient
    BY <2>4 DEF WelcomeClient, Welcome
  <2>5. CASE StartThread
    BY <2>5 DEF StartThread
  <2>6. CASE CreateFails
    BY <2>6, TerminateType DEF CreateFails
  <2>7. CASE DisconnectClient
    BY <2>7 DEF DisconnectClient, Disconnect
  <2>7a. CASE SetClientVersion
    BY <2>7a DEF SetClientVersion
  <2>7b. CASE LeakedTimerFires
    <3>1. leaked' \in Nat
      BY <2>7b DEF LeakedTimerFires
    <3>2. QED
      BY <2>7b, <3>1 DEF LeakedTimerFires, Disconnect
  <2>8. CASE CheckSocketConnection
    <3>1. /\ agentState' \in AgentStates /\ timer' \in BOOLEAN
          /\ listening' \in BOOLEAN
      BY <2>8 DEF CheckSocketConnection, CancelBeforeStart
    <3>2. UNCHANGED <<clientsock, sock, connected, mutex, mainpc, thread,
                      sendThreadId, joined, h264, aliveTimer, leaked, signals,
                      survivor, interrupted, stale>>
      BY <2>8 DEF CheckSocketConnection
    <3>3. QED
      BY <3>1, <3>2
  <2>9. CASE EnterSection
    BY <2>9 DEF EnterSection
  <2>10. CASE LeaveSection
    BY <2>10 DEF LeaveSection
  <2>11. CASE SigHup
    <3>1. /\ agentState' \in AgentStates /\ mainpc' \in MainPc
          /\ listening' \in BOOLEAN /\ timer' \in BOOLEAN
          /\ connected' \in BOOLEAN /\ h264' \in BOOLEAN
          /\ aliveTimer' \in BOOLEAN
          /\ mainpc' = "section" => mainpc = "section"
      BY <2>11 DEF SigHup, SelfLock, CancelBeforeStart, Disconnect, OpenSocket,
                  Options
    <3>2. signals' \in Nat /\ interrupted' \in BOOLEAN
      BY <2>11 DEF SigHup
    <3>3. UNCHANGED <<clientsock, sock, mutex, thread, sendThreadId, joined,
                      leaked, survivor, stale>>
      BY <2>11 DEF SigHup
    <3>4. QED
      BY <3>1, <3>2, <3>3
  <2>12. CASE SigTerm
    BY <2>12, TerminateType DEF SigTerm
  <2>13. CASE ReadThreadId
    BY <2>13 DEF ReadThreadId
  <2>14. CASE JoinThread
    BY <2>14 DEF JoinThread
  <2>15. CASE CancelThread
    BY <2>15 DEF CancelThread, Alive
  <2>16. CASE DestroyAll
    BY <2>16 DEF DestroyAll
  <2>17. ASSUME NEW t \in Conns, LockThread(t) PROVE TypeOK'
    BY <2>17 DEF LockThread
  <2>18. ASSUME NEW t \in Conns, CheckClient(t) PROVE TypeOK'
    BY <2>18 DEF CheckClient, CloseClientSocket
  <2>19. ASSUME NEW t \in Conns, SendData(t) PROVE TypeOK'
    BY <2>19 DEF SendData
  <2>19a. ASSUME NEW t \in Conns, RestoreCompression(t) PROVE TypeOK'
    <3>1. /\ thread' = [thread EXCEPT ![t] = "loop"] /\ h264' \in BOOLEAN
          /\ UNCHANGED <<agentState, listening, timer, clientsock, sock,
                         connected, mutex, mainpc, sendThreadId, joined,
                         aliveTimer, leaked, signals, survivor, interrupted,
                         stale>>
      BY <2>19a DEF RestoreCompression
    <3>2. QED
      BY <3>1
  <2>20. ASSUME NEW t \in Conns, ExitThread(t) PROVE TypeOK'
    BY <2>20 DEF ExitThread
  <2>21. CASE UNCHANGED vars
    BY <2>21 DEF vars
  <2>22. QED
    BY <2>1, <2>2, <2>3, <2>4, <2>5, <2>6, <2>7, <2>7a, <2>7b, <2>8, <2>9,
       <2>10, <2>11, <2>12, <2>13, <2>14, <2>15, <2>16, <2>17, <2>18, <2>19,
       <2>19a, <2>20, <2>21
       DEF Next, Accepting, Terminating, ThreadStep
<1>3. QED
  BY <1>1, <1>2, PTL DEF Spec
-----------------------------------------------------------------------------
(* What the agent reports.                                                 *)

Waiting == {"STARTING", "RESUMING"}

GivingUp == {"join", "joining", "cancel", "destroy", "halted", "crashed"}

(* The three invariants are inductive together with what holds while a     *)
(* client is accepted, and with the state of a server that gives up.       *)
Report ==
  /\ RunningIffConnected
  /\ WaitingHasTimer
  /\ ListenerIsAwaited
  /\ mainpc \in {"accepted", "welcomed"} /\ ~interrupted => ~listening
  /\ mainpc \in GivingUp => agentState \in Ended
  /\ agentState \in Ended => mainpc \in GivingUp \cup {"stuck"}

(* terminateServer keeps what the agent reports true.                      *)
LEMMA TerminateReport ==
  ASSUME TypeOK, Report, TerminateServer
  PROVE  Report'
<1>1. agentState' \in Ended /\ mainpc' \in {"stuck", "join", "cancel"}
  BY DEF TypeOK, TerminateServer, SetAgentState, NextState, Ended
<1>2. QED
  BY <1>1 DEF Report, RunningIffConnected, WaitingHasTimer, ListenerIsAwaited,
              Waiting, GivingUp, Ended

(* Every step of the session keeps what the agent reports true.            *)
LEMMA ReportStep ==
  ASSUME TypeOK, Report, [Next]_vars
  PROVE  Report'
<1> USE DEF TypeOK, AgentStates, MainPc, Report, RunningIffConnected,
            WaitingHasTimer, ListenerIsAwaited, Waiting, GivingUp, Ended,
            SetAgentState, NextState, keepalive, history
<1>1. ASSUME NEW c \in Conns, AcceptClient(c) PROVE Report'
  BY <1>1 DEF AcceptClient
<1>2. CASE RejectClient
  BY <1>2 DEF RejectClient
<1>3. CASE LookupFails
  BY <1>3, TerminateReport DEF LookupFails
<1>4. CASE WelcomeClient
  BY <1>4 DEF WelcomeClient, Welcome
<1>5. CASE StartThread
  BY <1>5 DEF StartThread
<1>6. CASE CreateFails
  BY <1>6, TerminateReport DEF CreateFails
<1>7. CASE DisconnectClient
  BY <1>7 DEF DisconnectClient, Disconnect
<1>7a. CASE SetClientVersion
  BY <1>7a DEF SetClientVersion
<1>7b. CASE LeakedTimerFires
  <2>1. CASE connected
    BY <1>7b, <2>1 DEF LeakedTimerFires, Disconnect
  <2>2. CASE ~connected
    BY <1>7b, <2>2 DEF LeakedTimerFires, Disconnect
  <2>3. QED
    BY <2>1, <2>2
<1>8. CASE CheckSocketConnection
  BY <1>8 DEF CheckSocketConnection, CancelBeforeStart
<1>9. CASE EnterSection
  BY <1>9 DEF EnterSection
<1>10. CASE LeaveSection
  BY <1>10 DEF LeaveSection
<1>11. CASE SigHup
  <2>1. /\ ~interrupted' =>
             ~interrupted /\ mainpc \notin {"accepted", "welcomed"}
        /\ mainpc \notin GivingUp
    BY <1>11 DEF SigHup, Interruptible
  <2>2. CASE agentState \in Waiting
    BY <1>11, <2>1, <2>2 DEF SigHup, CancelBeforeStart
  <2>3. CASE agentState = "RUNNING"
    <3>1. /\ UNCHANGED <<timer, listening>>
          /\ \/ UNCHANGED <<agentState, connected>> /\ mainpc' = "stuck"
             \/ /\ connected' = FALSE /\ agentState' = "SUSPENDED"
                /\ mainpc' = mainpc
      BY <1>11, <2>3 DEF SigHup, Disconnect
    <3>2. UNCHANGED stale /\ (interrupted => interrupted')
      BY <1>11 DEF SigHup
    <3>3. QED
      BY <2>1, <2>3, <3>1, <3>2
  <2>4. CASE agentState = "SUSPENDED"
    <3>1. /\ UNCHANGED connected
          /\ \/ agentState' = "RESUMING" /\ timer' = TRUE /\ mainpc' = mainpc
             \/ agentState' = "TERMINATING" /\ mainpc' = "cancel"
      BY <1>11, <2>4 DEF SigHup, OpenSocket
    <3>2. ~interrupted' => mainpc' \notin {"accepted", "welcomed"}
      BY <2>1, <3>1
    <3>3. QED
      BY <2>4, <3>1, <3>2
  <2>5. QED
    BY <1>11, <2>2, <2>3, <2>4 DEF SigHup
<1>12. CASE SigTerm
  BY <1>12, TerminateReport DEF SigTerm
<1>13. CASE ReadThreadId
  BY <1>13 DEF ReadThreadId
<1>14. CASE JoinThread
  BY <1>14 DEF JoinThread
<1>15. CASE CancelThread
  BY <1>15 DEF CancelThread
<1>16. CASE DestroyAll
  BY <1>16 DEF DestroyAll
<1>17. ASSUME NEW t \in Conns, ThreadStep(t) PROVE Report'
  BY <1>17 DEF ThreadStep, LockThread, CheckClient, SendData,
               RestoreCompression, ExitThread
<1>18. CASE UNCHANGED vars
  BY <1>18 DEF vars
<1>19. QED
  BY <1>1, <1>2, <1>3, <1>4, <1>5, <1>6, <1>7, <1>7a, <1>7b, <1>8, <1>9,
     <1>10, <1>11, <1>12, <1>13, <1>14, <1>15, <1>16, <1>17, <1>18
     DEF Next, Accepting, Terminating

(* The invariant of the report, for what follows.                          *)
LEMMA ReportInvariant == Spec => []Report
<1>1. Init => Report
  BY DEF Init, Report, RunningIffConnected, WaitingHasTimer,
         ListenerIsAwaited, Waiting, GivingUp, Ended
<1>2. TypeOK /\ Report /\ [Next]_vars => Report'
  BY ReportStep
<1>3. QED
  BY <1>1, <1>2, TypeCorrect, PTL DEF Spec

(* The agent reports RUNNING exactly while it has a client (setAgentState  *)
(* and its callers).                                                       *)
THEOREM ReportCorrect == Spec => []RunningIffConnected
<1>1. Report => RunningIffConnected
  BY DEF Report
<1>2. QED
  BY <1>1, ReportInvariant, PTL

(* It waits for a client no longer than its timer (open_socket,            *)
(* checkSocketConnection).                                                 *)
THEOREM TimerCorrect == Spec => []WaitingHasTimer
<1>1. Report => WaitingHasTimer
  BY DEF Report
<1>2. QED
  BY <1>1, ReportInvariant, PTL

(* It listens only while it waits (close_server_socket, cancelBeforeStart).*)
THEOREM ListenerCorrect == Spec => []ListenerIsAwaited
<1>1. Report => ListenerIsAwaited
  BY DEF Report
<1>2. QED
  BY <1>1, ReportInvariant, PTL

(* terminateServer is the end of the promised session.                     *)
LEMMA TerminatePromised ==
  ASSUME TypeOK, Report, TerminateServer,
         mainpc \in {"idle", "section", "accepted", "welcomed"}
  PROVE  Promise!Terminate
<1>1. agentState \notin Ended
  BY DEF Report, GivingUp
<1>2. /\ agentState' = "TERMINATING" /\ mainpc' # "accepted"
      /\ connected' \in {connected, FALSE}
  BY <1>1 DEF TypeOK, AgentStates, TerminateServer, SetAgentState, NextState,
              Ended
<1>3. QED
  BY <1>1, <1>2 DEF Ended, Promise!Terminate, Promise!Over

(* Every step is a step of the promised session, or none of it.            *)
LEMMA PromisedStep ==
  ASSUME TypeOK, Report, [Next]_vars
  PROVE  [Promise!Next]_(Promise!sessionVars)
<1> DEFINE Promised == [Promise!Next]_(Promise!sessionVars)
<1>0. UNCHANGED <<agentState, mainpc, connected>> => Promised
  BY DEF Promise!sessionVars
<1> USE DEF TypeOK, AgentStates, Report, GivingUp, Ended, RunningIffConnected,
            SetAgentState, NextState, Promise!Next, Promise!sessionVars,
            Promise!Over, Promise!Awaiting
<1>1. ASSUME NEW c \in Conns, AcceptClient(c) PROVE Promised
  BY <1>1 DEF AcceptClient, Promise!Knock
<1>2. CASE RejectClient
  BY <1>2 DEF RejectClient, Promise!Refuse
<1>3. CASE LookupFails
  BY <1>3, TerminatePromised DEF LookupFails
<1>4. CASE WelcomeClient
  BY <1>4 DEF WelcomeClient, Welcome, Promise!Connect
<1>5. CASE StartThread
  BY <1>5 DEF StartThread
<1>6. CASE CreateFails
  BY <1>6, TerminatePromised DEF CreateFails
<1>7. CASE DisconnectClient
  BY <1>7 DEF DisconnectClient, Disconnect, Promise!Leave
<1>8. CASE SetClientVersion
  BY <1>8, <1>0 DEF SetClientVersion
<1>9. CASE LeakedTimerFires
  BY <1>9 DEF LeakedTimerFires, Disconnect, Promise!Leave, Promise!CallOff
<1>10. CASE CheckSocketConnection
  BY <1>10 DEF CheckSocketConnection, CancelBeforeStart, Promise!CallOff
<1>11. CASE EnterSection \/ LeaveSection
  BY <1>11 DEF EnterSection, LeaveSection
<1>12. CASE SigHup
  <2>1. agentState \notin Ended
    BY <1>12 DEF SigHup, Interruptible
  <2>2. CASE agentState \in {"STARTING", "RESUMING"}
    BY <1>12, <2>2 DEF SigHup, CancelBeforeStart, Promise!CallOff
  <2>3. CASE agentState = "RUNNING" /\ mainpc' = "stuck"
    <3>1. UNCHANGED <<agentState, connected>>
      BY <1>12, <2>3 DEF SigHup, Interruptible
    <3>2. QED
      BY <2>3, <3>1 DEF Promise!Refuse
  <2>4. CASE agentState = "RUNNING" /\ mainpc' # "stuck"
    BY <1>12, <2>4 DEF SigHup, Disconnect, Promise!Leave
  <2>5. CASE agentState = "SUSPENDED"
    BY <1>12, <2>5 DEF SigHup, OpenSocket, Promise!Resume, Promise!Terminate
  <2>6. QED
    BY <2>1, <2>2, <2>3, <2>4, <2>5
<1>13. CASE SigTerm
  BY <1>13, TerminatePromised DEF SigTerm, Interruptible
<1>14. CASE DestroyAll
  BY <1>14 DEF DestroyAll, Promise!End
<1>15. CASE ReadThreadId \/ JoinThread \/ CancelThread
  BY <1>15 DEF ReadThreadId, JoinThread, CancelThread
<1>16. ASSUME NEW t \in Conns, ThreadStep(t) PROVE Promised
  <2>1. UNCHANGED <<agentState, mainpc, connected>>
    BY <1>16 DEF ThreadStep, LockThread, CheckClient, SendData,
                 RestoreCompression, ExitThread
  <2>2. QED
    BY <2>1, <1>0
<1>17. CASE UNCHANGED vars
  BY <1>17, <1>0 DEF vars
<1>18. QED
  BY <1>1, <1>2, <1>3, <1>4, <1>5, <1>6, <1>7, <1>8, <1>9, <1>10, <1>11,
     <1>12, <1>13, <1>14, <1>15, <1>16, <1>17
     DEF Next, Accepting, Terminating

(* The agent implements the session it promises: setAgentState and all its *)
(* callers, whatever signals and timers interrupt.                         *)
THEOREM SessionImplemented == Spec => KeepsPromise
<1>1. Init => Promise!Init
  BY DEF Init, Promise!Init
<1>2. TypeOK /\ Report /\ [Next]_vars => [Promise!Next]_(Promise!sessionVars)
  BY PromisedStep
<1>3. QED
  BY <1>1, <1>2, TypeCorrect, ReportInvariant, PTL
     DEF Spec, KeepsPromise, Promise!Spec

-----------------------------------------------------------------------------
(* Who serves the client.                                                  *)

(* All of it holds until a client is accepted while an old thread runs.    *)
Service ==
  ~survivor =>
    /\ \A t \in Conns :
         /\ Alive(t) => /\ t = clientsock /\ sendThreadId = t
                        /\ mainpc \notin {"accepted", "welcomed"}
                        /\ mainpc = "joining" => joined = t
         /\ sock[t] = "unused" => thread[t] = "none"
         /\ thread[t] \in {"ending", "dead"} => sock[t] = "closed"
    /\ mainpc \in {"accepted", "welcomed"} =>
         /\ clientsock \in Conns
         /\ sock[clientsock] = "open" /\ thread[clientsock] = "none"
    /\ mainpc = "accepted" => ~connected
    /\ connected => clientsock \in Conns
    /\ mainpc = "joining" => joined # 0
    /\ mainpc \notin {"joining", "destroy", "halted", "crashed"} => joined = 0
    /\ ClientIsServed
    /\ JoinedBeforeDestroy

(* terminateServer disturbs no thread and no socket.                       *)
LEMMA TerminateService ==
  ASSUME TypeOK, Service, TerminateServer,
         mainpc \in {"idle", "section", "accepted", "welcomed"}
  PROVE  Service'
<1>1. /\ mainpc' \in {"stuck", "join", "cancel"}
      /\ connected' => connected
      /\ UNCHANGED <<clientsock, sock, thread, sendThreadId, joined, survivor>>
  BY DEF TypeOK, TerminateServer, history
<1>2. QED
  BY <1>1 DEF Service, ClientIsServed, JoinedBeforeDestroy, Alive

(* Every step keeps one thread and one open socket for the client.  A new  *)
(* client gets a connection of its own; the report says that SIGHUP never  *)
(* changes the compression of a connected client.                          *)
LEMMA ServiceStep ==
  ASSUME TypeOK, Report, Service, [Next]_vars
  PROVE  Service'
<1> USE DEF TypeOK, ThreadPc, MainPc, Service, ClientIsServed,
            JoinedBeforeDestroy, Alive, keepalive, history
<1>1. ASSUME NEW c \in Conns, AcceptClient(c) PROVE Service'
  BY <1>1 DEF AcceptClient
<1>2. CASE RejectClient
  BY <1>2 DEF RejectClient, CloseClientSocket
<1>3. CASE LookupFails
  BY <1>3, TerminateService DEF LookupFails
<1>4. CASE WelcomeClient
  BY <1>4 DEF WelcomeClient, Welcome
<1>5. CASE StartThread
  BY <1>5 DEF StartThread
<1>6. CASE CreateFails
  BY <1>6, TerminateService DEF CreateFails
<1>7. CASE DisconnectClient
  BY <1>7 DEF DisconnectClient, Disconnect
<1>7a. CASE SetClientVersion
  BY <1>7a DEF SetClientVersion
<1>7b. CASE LeakedTimerFires
  BY <1>7b DEF LeakedTimerFires, Disconnect
<1>8. CASE CheckSocketConnection
  BY <1>8 DEF CheckSocketConnection
<1>9. CASE EnterSection
  BY <1>9 DEF EnterSection
<1>10. CASE LeaveSection
  BY <1>10 DEF LeaveSection
<1>11. CASE SigHup
  BY <1>11 DEF SigHup, Interruptible, Disconnect, Report, RunningIffConnected,
               Ended
<1>12. CASE SigTerm
  BY <1>12, TerminateService DEF SigTerm, Interruptible
<1>13. CASE ReadThreadId
  BY <1>13 DEF ReadThreadId
<1>14. CASE JoinThread
  BY <1>14 DEF JoinThread
<1>15. CASE CancelThread
  BY <1>15 DEF CancelThread
<1>16. CASE DestroyAll
  BY <1>16 DEF DestroyAll
<1>17. ASSUME NEW t \in Conns, LockThread(t) PROVE Service'
  BY <1>17 DEF LockThread
<1>18. ASSUME NEW t \in Conns, CheckClient(t) PROVE Service'
  BY <1>18 DEF CheckClient, MustEnd, CloseClientSocket
<1>19. ASSUME NEW t \in Conns, SendData(t) PROVE Service'
  BY <1>19 DEF SendData
<1>19a. ASSUME NEW t \in Conns, RestoreCompression(t) PROVE Service'
  BY <1>19a DEF RestoreCompression
<1>20. ASSUME NEW t \in Conns, ExitThread(t) PROVE Service'
  BY <1>20 DEF ExitThread
<1>21. CASE UNCHANGED vars
  BY <1>21 DEF vars
<1>22. QED
  BY <1>1, <1>2, <1>3, <1>4, <1>5, <1>6, <1>7, <1>7a, <1>7b, <1>8, <1>9,
     <1>10, <1>11, <1>12, <1>13, <1>14, <1>15, <1>16, <1>17, <1>18, <1>19,
     <1>19a, <1>20, <1>21
     DEF Next, Accepting, Terminating, ThreadStep

(* The invariant of those who serve a client, for what follows.            *)
LEMMA ServiceInvariant == Spec => []Service
<1>1. Init => Service
  BY DEF Init, Service, ClientIsServed, JoinedBeforeDestroy, Alive
<1>2. TypeOK /\ Report /\ Service /\ [Next]_vars => Service'
  BY ServiceStep
<1>3. QED
  BY <1>1, <1>2, TypeCorrect, ReportInvariant, PTL DEF Spec

(* As long as no client is accepted while an old thread runs, a connected  *)
(* client is served (serverAcceptNotify, send_frame_thread).               *)
THEOREM ClientCorrect == Spec => []ClientIsServed
<1>1. Service => ClientIsServed
  BY DEF Service, ClientIsServed
<1>2. QED
  BY <1>1, ServiceInvariant, PTL

(* Likewise there is one sending thread, no socket is left open, and the   *)
(* thread is joined before the mutexes go (send_frame_thread,              *)
(* close_client_sockets, terminateServer).                                 *)
THEOREM SenderCorrect == Spec => []OneSender
<1>1. Service => OneSender
  <2>1. Service => JoinedBeforeDestroy
    BY DEF Service, JoinedBeforeDestroy
  <2>2. ASSUME Service, ~survivor, NEW t \in Conns
        PROVE  /\ Alive(t) => t = clientsock /\ sendThreadId = t
               /\ thread[t] = "dead" => sock[t] = "closed"
    BY <2>2 DEF Service
  <2>3. QED
    BY <2>1, <2>2 DEF OneSender
<1>2. QED
  BY <1>1, ServiceInvariant, PTL
=============================================================================
