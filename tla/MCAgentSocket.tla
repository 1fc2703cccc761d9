--------------------------- MODULE MCAgentSocket ---------------------------
(* AgentSocket on two processes, one of which starts while the other ends. *)
EXTENDS AgentSocket

CONSTANTS old, new
=============================================================================
