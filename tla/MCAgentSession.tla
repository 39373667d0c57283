--------------------------- MODULE MCAgentSession ---------------------------
(* Small instances of AgentSession.                                        *)
EXTENDS AgentSession
ThreeConns == 1 .. 3
TwoConns == 1 .. 2
=============================================================================
