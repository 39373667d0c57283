------------------------------ MODULE Session ------------------------------
(***************************************************************************)
(* What the agent promises to those who read its state file and to clients *)
(* (the states of setAgentState in x2gokdriveremote.c), without sockets,   *)
(* timers, threads, mutexes or signal handlers.  AgentSession implements   *)
(* this specification.                                                     *)
(***************************************************************************)
VARIABLES
  state,      \* the state that is reported
  knocking,   \* somebody was accepted and has not shown the cookie yet
  client      \* there is a client

sessionVars == <<state, knocking, client>>

Over == {"TERMINATING", "TERMINATED"}
Awaiting == {"STARTING", "RESUMING"}

Init == state = "STARTING" /\ knocking = FALSE /\ client = FALSE

Knock ==
  /\ state \notin Over /\ ~knocking
  /\ knocking' = TRUE
  /\ UNCHANGED <<state, client>>

Refuse == knocking /\ knocking' = FALSE /\ UNCHANGED <<state, client>>

(* Only who has knocked gets in, and is reported at once.  The wait may    *)
(* have been called off meanwhile, so this says nothing of the old state.  *)
Connect ==
  /\ state \notin Over /\ knocking
  /\ state' = "RUNNING" /\ client' = TRUE /\ knocking' = FALSE

(* Only a client leaves, and the session is suspended at once.             *)
Leave ==
  /\ state = "RUNNING" /\ client
  /\ state' = "SUSPENDED" /\ client' = FALSE
  /\ UNCHANGED knocking

CallOff ==
  /\ state \in Awaiting
  /\ state' = "SUSPENDED"
  /\ UNCHANGED <<knocking, client>>

Resume ==
  /\ state = "SUSPENDED"
  /\ state' = "RESUMING"
  /\ UNCHANGED <<knocking, client>>

(* From any state; the client is sent away unless the server is stuck.     *)
Terminate ==
  /\ state \notin Over
  /\ state' = "TERMINATING" /\ knocking' = FALSE
  /\ client' \in {client, FALSE}

End ==
  /\ state = "TERMINATING"
  /\ state' = "TERMINATED"
  /\ UNCHANGED <<knocking, client>>

Next ==
  Knock \/ Refuse \/ Connect \/ Leave \/ CallOff \/ Resume \/ Terminate \/ End

Spec == Init /\ [][Next]_sessionVars
=============================================================================
