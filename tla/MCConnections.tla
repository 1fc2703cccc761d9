---------------------------- MODULE MCConnections ----------------------------
(* The connections of the agent and the binding context of one of them, side
   by side for TLC.  They share no state, so that one of them moves in each
   behaviour; which one, the initial state decides. *)
EXTENDS SessionBind, AgentConnections

VARIABLE part

partVars == <<part, vars, connVars>>

PartInit == part \in {"binding", "connections"} /\ Init /\ ConnInit

PartNext ==
    \/ part = "binding" /\ Next /\ UNCHANGED <<part, connVars>>
    \/ part = "connections" /\ ConnNext /\ UNCHANGED <<part, vars>>

PartSpec == PartInit /\ [][PartNext]_partVars /\ ConnFairness
=============================================================================
