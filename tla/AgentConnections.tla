-------------------------- MODULE AgentConnections --------------------------
(***************************************************************************)
(* The connections of the SSH agent: the accept loop that ensure() spawns, *)
(* the limiter of its connections, and the thread that serves each one     *)
(* (agent/start.rs, serve in agent/server.rs).  Dropping an agent ends its *)
(* accept loop; the threads of its connections are detached and go on, and *)
(* the agent that recovery starts has a limiter of its own.                *)
(***************************************************************************)
EXTENDS Naturals, Sequences, FiniteSets

CONSTANTS
    Clients,    \* each has one connection at a time
    Limit,      \* MAX_AGENT_CONNECTIONS
    MaxAgents   \* bound: how many agents are started, one after the other

ASSUME ConnectionsAssumption == Limit \in Nat \ {0} /\ MaxAgents \in Nat

Agents == 1 .. MaxAgents

VARIABLES
    agent,   \* per agent: its accept loop, stop flag, listener's backlog, permits in use
    conn,    \* per client: its connection's thread, and the agent that accepted it
    silent   \* clients that hang: they send, read and close nothing

connVars == <<agent, conn, silent>>

Loops == {"none", "bound", "test", "accept", "ended"}
NoThread == [at |-> "none", of |-> 0]
Stages == {"reading", "handling", "replying", "leaving"}

ConnInit ==
    /\ agent = [g \in Agents |->
          [loop |-> "none", stop |-> FALSE, backlog |-> <<>>, active |-> 0]]
    /\ conn = [c \in Clients |-> NoThread]
    /\ silent = {}

-----------------------------------------------------------------------------
Queued(c) == \E g \in Agents : \E i \in DOMAIN agent[g].backlog : agent[g].backlog[i] = c
Away(c) == conn[c] = NoThread /\ ~Queued(c)
Listening(g) == agent[g].loop \in {"bound", "test", "accept"}

(* ensure: the listener is bound before anything else can fail; the agent it
   replaces has been dropped, that is, its loop joined. *)
BindListener(g) ==
    /\ agent[g].loop = "none"
    /\ \A h \in 1 .. g - 1 : agent[h].loop = "ended"
    /\ agent' = [agent EXCEPT ![g].loop = "bound"]
    /\ UNCHANGED <<conn, silent>>

(* The listener closes, and whoever is in its backlog is disconnected. *)
Close(g) == agent' = [agent EXCEPT ![g].loop = "ended", ![g].backlog = <<>>]

(* The rest of ensure succeeds and spawns the accept loop, or does not. *)
StartLoop(g) ==
    /\ agent[g].loop = "bound"
    /\ \/ agent' = [agent EXCEPT ![g].loop = "test"]
       \/ Close(g)
    /\ UNCHANGED <<conn, silent>>

(* Agent::drop sets the flag, then joins the loop. *)
StopLoop(g) ==
    /\ agent[g].loop \in {"test", "accept"} /\ ~agent[g].stop
    /\ agent' = [agent EXCEPT ![g].stop = TRUE]
    /\ UNCHANGED <<conn, silent>>

TestStop(g) ==
    /\ agent[g].loop = "test"
    /\ IF agent[g].stop THEN Close(g) ELSE agent' = [agent EXCEPT ![g].loop = "accept"]
    /\ UNCHANGED <<conn, silent>>

(* WouldBlock, or another error: sleep, and look at the flag again. *)
AcceptNothing(g) ==
    /\ agent[g].loop = "accept"
    /\ agent[g].backlog = <<>>
    /\ agent' = [agent EXCEPT ![g].loop = "test"]
    /\ UNCHANGED <<conn, silent>>

(* Plausible bugs for the mutation runs: off by one at the limit, and a
   time-out that is taken for an interruption, so that read_exact is called
   again. *)
HasCapacityOffByOne(g) == agent[g].active <= Limit
ReadTimeoutRetried(c) == conn[c].at = "reading" /\ UNCHANGED connVars

(* ConnectionLimiter::try_acquire *)
HasCapacity(g) == agent[g].active < Limit

(* A permit and a thread for the first of the backlog; without a permit its
   stream is dropped. *)
Accept(g) ==
    /\ agent[g].loop = "accept"
    /\ agent[g].backlog # <<>>
    /\ IF HasCapacity(g)
       THEN /\ agent' = [agent EXCEPT ![g].loop = "test", ![g].backlog = Tail(@),
                                      ![g].active = @ + 1]
            /\ conn' = [conn EXCEPT ![Head(agent[g].backlog)] = [at |-> "reading", of |-> g]]
       ELSE /\ agent' = [agent EXCEPT ![g].loop = "test", ![g].backlog = Tail(@)]
            /\ UNCHANGED conn
    /\ UNCHANGED silent

-----------------------------------------------------------------------------
MoveTo(c, from, to) ==
    /\ conn[c].at = from
    /\ conn' = [conn EXCEPT ![c].at = to]
    /\ UNCHANGED <<agent, silent>>

(* serve: a complete request is read; *)
ReadRequest(c) == c \notin silent /\ MoveTo(c, "reading", "handling")

(* or the client has closed, or sent an illegal length; *)
ReadEnds(c) == c \notin silent /\ MoveTo(c, "reading", "leaving")

(* or 120 seconds have passed. *)
ReadTimeout(c) == MoveTo(c, "reading", "leaving")

(* handle always has an answer, if only SSH_AGENT_FAILURE. *)
Handle(c) == MoveTo(c, "handling", "replying")

(* write_message succeeds and serve reads again, or it fails, at the latest
   after 120 seconds. *)
Reply(c) == MoveTo(c, "replying", "reading") \/ MoveTo(c, "replying", "leaving")

(* serve has returned and dropped the stream; the permit follows, when the
   thread's closure ends. *)
Release(c) ==
    /\ conn[c].at = "leaving"
    /\ agent' = [agent EXCEPT ![conn[c].of].active = @ - 1]
    /\ conn' = [conn EXCEPT ![c] = NoThread]
    /\ UNCHANGED silent

-----------------------------------------------------------------------------
(* A client connects: the kernel puts it in the listener's backlog.
   (is_healthy is such a client, too: it connects and closes at once.) *)
Connect(c, g) ==
    /\ Away(c) /\ c \notin silent /\ Listening(g)
    /\ agent' = [agent EXCEPT ![g].backlog = Append(@, c)]
    /\ UNCHANGED <<conn, silent>>

(* A client hangs, wherever it is; once it has been let go, another one may
   come in its place. *)
FallSilent(c) ==
    /\ c \notin silent
    /\ silent' = silent \cup {c}
    /\ UNCHANGED <<agent, conn>>

Restart(c) ==
    /\ c \in silent /\ Away(c)
    /\ silent' = silent \ {c}
    /\ UNCHANGED <<agent, conn>>

Loop(g) == StartLoop(g) \/ TestStop(g) \/ AcceptNothing(g) \/ Accept(g)
Serve(c) == ReadTimeout(c) \/ Handle(c) \/ Reply(c) \/ Release(c)

ConnNext ==
    \/ \E g \in Agents :
          \/ BindListener(g) \/ StartLoop(g) \/ StopLoop(g)
          \/ TestStop(g) \/ AcceptNothing(g) \/ Accept(g)
    \/ \E c \in Clients :
          \/ ReadRequest(c) \/ ReadEnds(c) \/ ReadTimeout(c) \/ Handle(c)
          \/ Reply(c) \/ Release(c) \/ FallSilent(c) \/ Restart(c)
          \/ \E g \in Agents : Connect(c, g)

(* The scheduler runs the loop and the threads, reads and writes time out, and
   a request is answered: what it waits for is module Session's.  Recovery,
   exit and the clients owe nothing. *)
ConnFairness ==
    /\ \A g \in Agents : WF_connVars(Loop(g))
    /\ \A c \in Clients : WF_connVars(Serve(c))

ConnSpec == ConnInit /\ [][ConnNext]_connVars /\ ConnFairness

-----------------------------------------------------------------------------
(* Each limiter counts exactly the threads that its agent has spawned and that
   have not ended, and never more than the limit: no path through accept,
   refusal, error, time-out, or the end of the agent itself, loses a permit
   (start.rs:114-122; the test at start.rs:158-170 drops permits in one
   thread). *)
PermitsAccountFor ==
    \A g \in Agents :
        /\ agent[g].active = Cardinality({c \in Clients : conn[c].at \in Stages /\ conn[c].of = g})
        /\ agent[g].active <= Limit

(* A client that hangs is let go wherever it was: queued, in the middle of a
   request or of its reply, or left over from an agent that recovery has
   replaced.  So no number of hung clients keeps the agent full (the time-outs
   of serve, server.rs:52-57, and an accept loop that never waits for a
   permit). *)
SilentAreLetGo == \A c \in Clients : c \in silent ~> Away(c)
=============================================================================
