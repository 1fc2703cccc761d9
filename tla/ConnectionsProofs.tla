-------------------------- MODULE ConnectionsProofs --------------------------
(***************************************************************************)
(* Proofs about the connections of the agent: module SessionBind, for      *)
(* every set of host keys and session identifiers and every                *)
(* MAX_SESSION_BINDINGS, and module AgentConnections, for any number of    *)
(* clients and every MAX_AGENT_CONNECTIONS.                                *)
(*                                                                         *)
(* ChainConsistent is inductive with TypeOK; the gate's guarantee and the  *)
(* two action properties follow from it.  The permits are exact because a  *)
(* connection waits in one backlog at most and has no thread meanwhile.    *)
(***************************************************************************)
EXTENDS SessionBind, AgentConnections, FiniteSetTheorems, TLAPS

\* The type invariant, which carries the limit on the number of bindings.
THEOREM TypeCorrect == Spec => []TypeOK
<1>1. Init => TypeOK
  <2> SUFFICES ASSUME Init
               PROVE  TypeOK
    OBVIOUS
  <2>1. bindings \in Seq(Binding) /\ Len(bindings) = 0
    BY DEF Init
  <2>2. Len(bindings) <= MaxBindings
    BY <2>1, MaxBindingsAssumption
  <2> QED
    BY <2>1, <2>2 DEF Init, TypeOK, Replies
<1>2. TypeOK /\ [Next]_vars => TypeOK'
  <2> SUFFICES ASSUME TypeOK, [Next]_vars
               PROVE  TypeOK'
    OBVIOUS
  <2> USE MaxBindingsAssumption DEF TypeOK, Replies
  <2>1. CASE BindMalformed
    BY <2>1 DEF BindMalformed, BindFails
  <2>2. CASE OtherRequest
    BY <2>2 DEF OtherRequest
  <2>3. CASE SignRequest
    BY <2>3 DEF SignRequest
  <2>4. ASSUME NEW s \in SessionIds, BindOverflow(s)
        PROVE  TypeOK'
    BY <2>4 DEF BindOverflow, BindFails
  <2>5. ASSUME NEW s \in SessionIds, NEW h \in HostKeys, BindConflict(h, s)
        PROVE  TypeOK'
    BY <2>5 DEF BindConflict, BindFails
  <2>6. ASSUME NEW s \in SessionIds, NEW h \in HostKeys, BindDuplicate(h, s)
        PROVE  TypeOK'
    BY <2>6 DEF BindDuplicate
  <2>7. ASSUME NEW s \in SessionIds, NEW h \in HostKeys, NEW f \in BOOLEAN,
               BindNew(h, s, f)
        PROVE  TypeOK'
    <3>1. [host |-> h, session |-> s, forwarding |-> f] \in Binding
      BY DEF Binding
    <3>2. bindings' \in Seq(Binding) /\ Len(bindings') = Len(bindings) + 1
      BY <2>7, <3>1 DEF BindNew
    <3>3. forwarded' \in BOOLEAN
      BY <2>7, Zenon DEF BindNew
    <3>4. Len(bindings') <= MaxBindings
      BY <2>7, <3>2 DEF BindNew
    <3> QED
      BY <2>7, <3>2, <3>3, <3>4 DEF BindNew
  <2>8. CASE UNCHANGED vars
    BY <2>8 DEF vars
  <2> QED
    BY <2>1, <2>2, <2>3, <2>4, <2>5, <2>6, <2>7, <2>8 DEF Next
<1> QED
  BY <1>1, <1>2, PTL DEF Spec

\* Without a hit every recorded binding forwards another session.
LEMMA NoHitMeansForwarding ==
  ASSUME NEW s \in SessionIds, Hits(s) = {}, NEW i \in DOMAIN bindings
  PROVE  bindings[i].forwarding /\ bindings[i].session # s
  BY DEF Hits

\* Recording a new binding keeps the chain consistent.
LEMMA BindNewKeepsChain ==
  ASSUME TypeOK, ChainConsistent,
         NEW h \in HostKeys, NEW s \in SessionIds, NEW f \in BOOLEAN,
         BindNew(h, s, f)
  PROVE  ChainConsistent'
<1> DEFINE n == Len(bindings)
           new == [host |-> h, session |-> s, forwarding |-> f]
<1>1. /\ n \in Nat
      /\ DOMAIN bindings = 1..n
      /\ DOMAIN bindings' = 1..(n + 1)
      /\ Len(bindings') = n + 1
      /\ \A i \in 1..n : bindings'[i] = bindings[i]
      /\ bindings'[n + 1] = new
  BY DEF BindNew, TypeOK
<1>2. \A i \in 1..n : bindings[i].forwarding /\ bindings[i].session # s
  BY <1>1, NoHitMeansForwarding DEF BindNew
<1>3. OnlyLastAuthenticates'
  BY <1>1, <1>2 DEF OnlyLastAuthenticates
<1>4. SessionsDistinct'
  BY <1>1, <1>2 DEF SessionsDistinct, ChainConsistent
<1>5. ForwardedIffForwarding'
  <2>1. f <=> bindings'[n + 1].forwarding
    BY <1>1
  <2>2. forwarded' <=> (forwarded \/ f)
    BY DEF BindNew
  <2>3. forwarded <=> \E i \in 1..n : bindings[i].forwarding
    BY <1>1 DEF ChainConsistent, ForwardedIffForwarding
  <2>4. (\E i \in 1..(n + 1) : bindings'[i].forwarding)
          <=> ((\E i \in 1..n : bindings[i].forwarding) \/ f)
    BY <1>1, <2>1
  <2> QED
    BY <1>1, <2>2, <2>3, <2>4 DEF ForwardedIffForwarding
<1>6. attempted' /\ bindings' # <<>>
  BY <1>1 DEF BindNew
<1> QED
  BY <1>3, <1>4, <1>5, <1>6 DEF ChainConsistent

\* The list of bindings stays a forwarding chain that the connection's two
\* flags summarise (extension).
THEOREM ChainIsConsistent == Spec => []ChainConsistent
<1>1. Init => ChainConsistent
  BY DEF Init, ChainConsistent, OnlyLastAuthenticates, SessionsDistinct,
         ForwardedIffForwarding
<1>2. TypeOK /\ ChainConsistent /\ [Next]_vars => ChainConsistent'
  <2> SUFFICES ASSUME TypeOK, ChainConsistent, [Next]_vars
               PROVE  ChainConsistent'
    OBVIOUS
  <2> DEFINE Kept == UNCHANGED <<bindings, forwarded>>
                     /\ (attempted' /\ bindings = <<>> => bindingFailed')
                     /\ (~attempted' => ~attempted)
  <2>1. ASSUME Kept
        PROVE  ChainConsistent'
    BY <2>1 DEF ChainConsistent, OnlyLastAuthenticates, SessionsDistinct,
                ForwardedIffForwarding
  <2>2. ASSUME BindFails
        PROVE  Kept
    BY <2>2 DEF BindFails
  <2>3. CASE BindMalformed
    BY <2>1, <2>2, <2>3 DEF BindMalformed
  <2>4. CASE OtherRequest
    BY <2>1, <2>4 DEF OtherRequest, ChainConsistent
  <2>5. CASE SignRequest
    BY <2>1, <2>5 DEF SignRequest, ChainConsistent
  <2>6. ASSUME NEW s \in SessionIds, BindOverflow(s)
        PROVE  ChainConsistent'
    BY <2>1, <2>2, <2>6 DEF BindOverflow
  <2>7. ASSUME NEW s \in SessionIds, NEW h \in HostKeys, BindConflict(h, s)
        PROVE  ChainConsistent'
    BY <2>1, <2>2, <2>7 DEF BindConflict
  <2>8. ASSUME NEW s \in SessionIds, NEW h \in HostKeys, BindDuplicate(h, s)
        PROVE  ChainConsistent'
    <3>1. PICK i \in DOMAIN bindings : bindings[i].forwarding
      BY <2>8 DEF BindDuplicate, AlreadyBound, Hits
    <3>2. bindings # <<>>
      BY <3>1 DEF TypeOK
    <3> QED
      BY <2>1, <2>8, <3>2 DEF BindDuplicate
  <2>9. ASSUME NEW s \in SessionIds, NEW h \in HostKeys, NEW f \in BOOLEAN,
               BindNew(h, s, f)
        PROVE  ChainConsistent'
    BY <2>9, BindNewKeepsChain
  <2>10. CASE UNCHANGED vars
    BY <2>1, <2>10 DEF vars, ChainConsistent
  <2> QED
    BY <2>3, <2>4, <2>5, <2>6, <2>7, <2>8, <2>9, <2>10 DEF Next
<1> QED
  BY <1>1, <1>2, TypeCorrect, PTL DEF Spec

\* A connection signs only while it never tried to bind, or with exactly one
\* binding, for authentication (the gate of sign_request).
THEOREM SignsOnlyDirect == Spec => []SignedOnlyDirect
<1>1. Init => SignedOnlyDirect
  BY DEF Init, SignedOnlyDirect
<1>2. TypeOK /\ ChainConsistent /\ SignedOnlyDirect /\ [Next]_vars
        => SignedOnlyDirect'
  <2> SUFFICES ASSUME TypeOK, ChainConsistent, SignedOnlyDirect, [Next]_vars
               PROVE  SignedOnlyDirect'
    OBVIOUS
  <2>1. CASE SignRequest
    <3> SUFFICES ASSUME reply' = "signed", attempted
                 PROVE  Len(bindings) = 1 /\ ~bindings[1].forwarding
      BY <2>1 DEF SignRequest, SignedOnlyDirect
    <3>1. ~bindingFailed /\ ~forwarded
      BY <2>1 DEF SignRequest
    <3>2. bindings # <<>>
      BY <3>1 DEF ChainConsistent
    <3>3. /\ DOMAIN bindings = 1..Len(bindings)
          /\ Len(bindings) \in Nat
          /\ Len(bindings) # 0
      BY <3>2 DEF TypeOK
    <3>4. ~bindings[1].forwarding
      BY <3>1, <3>3 DEF ChainConsistent, ForwardedIffForwarding
    <3>5. Len(bindings) = 1
      BY <3>3, <3>4 DEF ChainConsistent, OnlyLastAuthenticates
    <3> QED
      BY <3>4, <3>5
  <2>2. CASE BindMalformed
    BY <2>2 DEF BindMalformed, BindFails, SignedOnlyDirect
  <2>3. CASE OtherRequest
    BY <2>3 DEF OtherRequest, SignedOnlyDirect
  <2>4. CASE \E s \in SessionIds : BindOverflow(s)
    BY <2>4 DEF BindOverflow, BindFails, SignedOnlyDirect
  <2>5. CASE \E s \in SessionIds, h \in HostKeys : BindConflict(h, s)
    BY <2>5 DEF BindConflict, BindFails, SignedOnlyDirect
  <2>6. CASE \E s \in SessionIds, h \in HostKeys : BindDuplicate(h, s)
    BY <2>6 DEF BindDuplicate, SignedOnlyDirect
  <2>7. CASE \E s \in SessionIds, h \in HostKeys, f \in BOOLEAN : BindNew(h, s, f)
    BY <2>7 DEF BindNew, SignedOnlyDirect
  <2>8. CASE UNCHANGED vars
    BY <2>8 DEF vars, SignedOnlyDirect
  <2> QED
    BY <2>1, <2>2, <2>3, <2>4, <2>5, <2>6, <2>7, <2>8 DEF Next
<1> QED
  BY <1>1, <1>2, TypeCorrect, ChainIsConsistent, PTL DEF Spec

\* After a failed attempt to rebind an authenticated connection nothing clears
\* binding_failed: every later session-bind request meets the authentication
\* binding first.
THEOREM AuthenticatedFailureStays == Spec => AuthenticatedFailureIsFinal
<1>1. TypeOK /\ ChainConsistent /\ [Next]_vars
        => [(/\ bindings # <<>>
             /\ ~forwarded
             /\ bindingFailed) => bindingFailed']_vars
  <2> SUFFICES ASSUME TypeOK, ChainConsistent, Next,
                      bindings # <<>>, ~forwarded, bindingFailed
               PROVE  bindingFailed'
    OBVIOUS
  <2>1. \A i \in DOMAIN bindings : ~bindings[i].forwarding
    BY DEF ChainConsistent, ForwardedIffForwarding
  <2>2. \A s \in SessionIds : Hits(s) # {}
    <3>1. 1 \in DOMAIN bindings
      BY DEF TypeOK
    <3> QED
      BY <2>1, <3>1 DEF Hits
  <2>3. ASSUME NEW s \in SessionIds, NEW h \in HostKeys
        PROVE  ~BindDuplicate(h, s)
    BY <2>1 DEF BindDuplicate, AlreadyBound, Hits
  <2>4. ASSUME NEW s \in SessionIds, NEW h \in HostKeys, NEW f \in BOOLEAN
        PROVE  ~BindNew(h, s, f)
    BY <2>2 DEF BindNew
  <2> QED
    BY <2>3, <2>4 DEF Next, BindMalformed, BindFails, OtherRequest, SignRequest,
                      BindOverflow, BindConflict
<1> QED
  BY <1>1, TypeCorrect, ChainIsConsistent, PTL DEF Spec, AuthenticatedFailureIsFinal

\* `forwarded` is never cleared, and while it is set no request passes the gate.
THEOREM ForwardedIsFinal == Spec => ForwardedNeverSigns
<1>1. TypeOK /\ [Next]_vars
        => [forwarded => forwarded' /\ (reply' = "signed" => reply = "signed")]_vars
  BY DEF Next, BindMalformed, BindFails, OtherRequest, SignRequest, BindOverflow,
         BindConflict, BindDuplicate, BindNew, TypeOK
<1> QED
  BY <1>1, TypeCorrect, PTL DEF Spec, ForwardedNeverSigns

-----------------------------------------------------------------------------
(* The permits of the connections: the inductive invariant                 *)

(* The connections whose thread has a permit of agent g. *)
ServedBy(g) == {c \in Clients : conn[c].at \in Stages /\ conn[c].of = g}

AgentState == [loop : Loops, stop : BOOLEAN, backlog : Seq(Clients), active : Nat]

ConnTypeOK ==
    /\ agent \in [Agents -> AgentState]
    /\ conn \in [Clients -> [at : Stages, of : Agents] \cup {NoThread}]
    /\ silent \subseteq Clients

(* A connection waits in one place of one backlog, and has no thread as long as
   it waits: so the thread that Accept starts is a new one. *)
QueuedOnce ==
    \A g, h \in Agents : \A i \in DOMAIN agent[g].backlog, j \in DOMAIN agent[h].backlog :
       agent[g].backlog[i] = agent[h].backlog[j] => g = h /\ i = j
QueuedHasNoThread == \A c \in Clients : Queued(c) => conn[c] = NoThread

(* The permits in use are the threads, of which there are finitely many, however
   many clients there are. *)
PermitsAreThreads ==
    \A g \in Agents : /\ IsFiniteSet(ServedBy(g))
                      /\ agent[g].active = Cardinality(ServedBy(g))
                      /\ agent[g].active <= Limit

ConnInv == ConnTypeOK /\ QueuedOnce /\ QueuedHasNoThread /\ PermitsAreThreads

LEMMA NoThreadFacts ==
    /\ NoThread.at = "none" /\ NoThread.at \notin Stages
    /\ \A x \in [at : Stages, of : Agents] : x # NoThread
BY DEF NoThread, Stages

(* A step of agent g's loop: its backlog stays or is dropped. *)
LEMMA LoopStepInv ==
    ASSUME ConnInv, NEW g \in Agents, NEW r \in AgentState,
           agent' = [agent EXCEPT ![g] = r], conn' = conn, silent' = silent,
           r.active = agent[g].active, r.backlog \in {agent[g].backlog, <<>>}
    PROVE  ConnInv'
<1>1. agent'[g] = r /\ \A h \in Agents \ {g} : agent'[h] = agent[h]
  BY DEF ConnInv, ConnTypeOK
<1>2. \A h \in Agents : /\ agent'[h].active = agent[h].active
                        /\ agent'[h].backlog \in {agent[h].backlog, <<>>}
  BY <1>1
<1>3. \A h \in Agents : \A i \in DOMAIN agent'[h].backlog :
         i \in DOMAIN agent[h].backlog /\ agent'[h].backlog[i] = agent[h].backlog[i]
  BY <1>2
<1>4. ConnTypeOK'
  BY DEF ConnInv, ConnTypeOK
<1>5. QueuedOnce'
  BY <1>3 DEF ConnInv, QueuedOnce
<1>6. QueuedHasNoThread'
  BY <1>3 DEF ConnInv, QueuedHasNoThread, Queued
<1>7. PermitsAreThreads'
  BY <1>2 DEF ConnInv, PermitsAreThreads, ServedBy
<1>8. QED
  BY <1>4, <1>5, <1>6, <1>7 DEF ConnInv

LEMMA LoopInv ==
    ASSUME ConnInv, NEW g \in Agents,
           BindListener(g) \/ StartLoop(g) \/ StopLoop(g) \/ TestStop(g) \/ AcceptNothing(g)
    PROVE  ConnInv'
<1> DEFINE at(l) == [agent[g] EXCEPT !.loop = l]
           closed == [agent[g] EXCEPT !.loop = "ended", !.backlog = <<>>]
           stopped == [agent[g] EXCEPT !.stop = TRUE]
<1>1. agent[g] \in AgentState /\ agent \in [Agents -> AgentState]
  BY DEF ConnInv, ConnTypeOK
<1>2. \A l \in Loops : /\ at(l) \in AgentState /\ at(l).active = agent[g].active
                       /\ at(l).backlog = agent[g].backlog
  BY <1>1 DEF AgentState
<1>3. /\ closed \in AgentState /\ closed.active = agent[g].active /\ closed.backlog = <<>>
      /\ Close(g) => agent' = [agent EXCEPT ![g] = closed]
  <2>1. <<>> \in Seq(Clients) /\ "ended" \in Loops
    BY DEF Loops
  <2>2. closed \in AgentState /\ closed.active = agent[g].active /\ closed.backlog = <<>>
    BY <1>1, <2>1 DEF AgentState
  <2>3. Close(g) => agent' = [agent EXCEPT ![g] = closed]
    BY DEF Close
  <2>4. QED
    BY <2>2, <2>3
<1>4. stopped \in AgentState /\ stopped.active = agent[g].active /\ stopped.backlog = agent[g].backlog
  BY <1>1 DEF AgentState
<1>5. /\ conn' = conn /\ silent' = silent
      /\ \/ \E l \in Loops : agent' = [agent EXCEPT ![g] = at(l)]
         \/ Close(g)
         \/ agent' = [agent EXCEPT ![g] = stopped]
  <2>1. conn' = conn /\ silent' = silent
    BY DEF BindListener, StartLoop, StopLoop, TestStop, AcceptNothing
  <2>2. {"bound", "test", "accept"} \subseteq Loops
    BY DEF Loops
  <2>3. \A l \in Loops : agent' = [agent EXCEPT ![g].loop = l] => agent' = [agent EXCEPT ![g] = at(l)]
    OBVIOUS
  <2>4. \/ \E l \in {"bound", "test", "accept"} : agent' = [agent EXCEPT ![g].loop = l]
        \/ Close(g)
        \/ agent' = [agent EXCEPT ![g].stop = TRUE]
    BY DEF BindListener, StartLoop, StopLoop, TestStop, AcceptNothing
  <2>5. agent' = [agent EXCEPT ![g].stop = TRUE] => agent' = [agent EXCEPT ![g] = stopped]
    OBVIOUS
  <2>6. QED
    BY <2>1, <2>2, <2>3, <2>4, <2>5
<1> HIDE DEF at, closed, stopped
<1>6. CASE \E l \in Loops : agent' = [agent EXCEPT ![g] = at(l)]
  BY <1>2, <1>5, <1>6, LoopStepInv
<1>7. CASE Close(g)
  BY <1>3, <1>5, <1>7, LoopStepInv
<1>8. CASE agent' = [agent EXCEPT ![g] = stopped]
  BY <1>4, <1>5, <1>8, LoopStepInv
<1>9. QED
  BY <1>5, <1>6, <1>7, <1>8

(* A thread that goes on keeps its permit. *)
LEMMA MoveInv ==
    ASSUME ConnInv, NEW c \in Clients,
           ReadRequest(c) \/ ReadEnds(c) \/ ReadTimeout(c) \/ Handle(c) \/ Reply(c)
    PROVE  ConnInv'
<1> USE NoThreadFacts
<1>1. PICK to \in Stages : conn[c].at \in Stages /\ conn' = [conn EXCEPT ![c].at = to]
                          /\ agent' = agent /\ silent' = silent
  BY DEF ReadRequest, ReadEnds, ReadTimeout, Handle, Reply, MoveTo, Stages
<1>2. conn[c] \in [at : Stages, of : Agents] /\ conn[c] # NoThread
  BY <1>1 DEF ConnInv, ConnTypeOK
<1> DEFINE x == [conn[c] EXCEPT !.at = to]
<1>3. x \in [at : Stages, of : Agents] /\ x.at = to /\ x.of = conn[c].of
  BY <1>2
<1>4. conn' = [conn EXCEPT ![c] = x]
  BY <1>1
<1> HIDE DEF x
<1>5. conn'[c] = x /\ \A d \in Clients \ {c} : conn'[d] = conn[d]
  BY <1>4 DEF ConnInv, ConnTypeOK
<1>6. \A g \in Agents : ServedBy(g)' = ServedBy(g)
  BY <1>1, <1>3, <1>5 DEF ServedBy
<1>7. ConnTypeOK'
  BY <1>1, <1>3, <1>4 DEF ConnInv, ConnTypeOK
<1>8. QueuedOnce' /\ PermitsAreThreads'
  BY <1>1, <1>6 DEF ConnInv, QueuedOnce, PermitsAreThreads
<1>9. QueuedHasNoThread'
  BY <1>1, <1>2, <1>5 DEF ConnInv, QueuedHasNoThread, Queued
<1>10. QED
  BY <1>7, <1>8, <1>9 DEF ConnInv

(* A thread that ends gives back the permit of the agent that started it. *)
LEMMA ReleaseInv ==
    ASSUME ConnInv, NEW c \in Clients, Release(c)
    PROVE  ConnInv'
<1> USE NoThreadFacts
<1>0. conn[c] \in [at : Stages, of : Agents] /\ conn[c].at = "leaving"
  BY DEF Release, ConnInv, ConnTypeOK
<1> PICK g \in Agents : g = conn[c].of
  BY <1>0
<1> DEFINE r == [agent[g] EXCEPT !.active = @ - 1]
<1>1. conn[c] # NoThread /\ c \in ServedBy(g)
  BY <1>0 DEF ServedBy, Stages
<1>2. /\ IsFiniteSet(ServedBy(g)) /\ agent[g].active = Cardinality(ServedBy(g))
      /\ agent[g] \in AgentState /\ agent[g].active <= Limit
  BY <1>1 DEF ConnInv, ConnTypeOK, PermitsAreThreads
<1>3. /\ IsFiniteSet(ServedBy(g) \ {c})
      /\ Cardinality(ServedBy(g) \ {c}) = agent[g].active - 1
  BY <1>1, <1>2, FS_RemoveElement
<1>4. agent[g].active - 1 \in Nat
  BY <1>3, FS_CardinalityType
<1>5. /\ r \in AgentState /\ r.active = agent[g].active - 1 /\ r.backlog = agent[g].backlog
  BY <1>2, <1>4 DEF AgentState
<1>6. agent' = [agent EXCEPT ![g] = r] /\ conn' = [conn EXCEPT ![c] = NoThread] /\ silent' = silent
  BY DEF Release
<1> HIDE DEF r
<1>7. /\ agent'[g] = r /\ \A h \in Agents \ {g} : agent'[h] = agent[h]
      /\ conn'[c] = NoThread /\ \A d \in Clients \ {c} : conn'[d] = conn[d]
  BY <1>1, <1>6 DEF ConnInv, ConnTypeOK
<1>8. ConnTypeOK'
  BY <1>1, <1>5, <1>6 DEF ConnInv, ConnTypeOK
<1>9. \A h \in Agents : agent'[h].backlog = agent[h].backlog
  BY <1>5, <1>7
<1>10. QueuedOnce' /\ QueuedHasNoThread'
  BY <1>7, <1>9 DEF ConnInv, QueuedOnce, QueuedHasNoThread, Queued
<1>11. PermitsAreThreads'
  <2>1. ServedBy(g)' = ServedBy(g) \ {c}
    BY <1>7 DEF ServedBy
  <2>2. ASSUME NEW h \in Agents \ {g} PROVE ServedBy(h)' = ServedBy(h)
    <3>1. c \notin ServedBy(h) /\ c \notin ServedBy(h)'
      BY <1>7 DEF ServedBy
    <3>2. \A d \in Clients \ {c} : d \in ServedBy(h)' <=> d \in ServedBy(h)
      BY <1>7 DEF ServedBy
    <3>3. ServedBy(h) \subseteq Clients /\ ServedBy(h)' \subseteq Clients
      BY DEF ServedBy
    <3>4. QED
      BY <3>1, <3>2, <3>3
  <2>3. r.active <= Limit
    BY <1>2, <1>4, <1>5, ConnectionsAssumption DEF AgentState
  <2>4. ASSUME NEW h \in Agents
        PROVE  /\ IsFiniteSet(ServedBy(h)') /\ agent'[h].active = Cardinality(ServedBy(h)')
               /\ agent'[h].active <= Limit
    <3>1. CASE h = g
      BY <1>3, <1>5, <1>7, <2>1, <2>3, <3>1
    <3>2. CASE h # g
      BY <1>7, <2>2, <3>2 DEF ConnInv, PermitsAreThreads
    <3>3. QED
      BY <3>1, <3>2
  <2>5. QED
    BY <2>4 DEF PermitsAreThreads
<1>12. QED
  BY <1>8, <1>10, <1>11 DEF ConnInv

(* What Accept takes from the backlog waits nowhere any more, and the others
   wait as before. *)
LEMMA DequeueFacts ==
    ASSUME ConnInv, NEW g \in Agents, NEW r \in AgentState, agent[g].backlog # <<>>,
           agent' = [agent EXCEPT ![g] = r], r.backlog = Tail(agent[g].backlog),
           NEW c \in Clients, c = Head(agent[g].backlog)
    PROVE  /\ Queued(c) /\ ~Queued(c)'
           /\ QueuedOnce'
           /\ \A d \in Clients : Queued(d)' => Queued(d)
<1> DEFINE b == agent[g].backlog
<1>1. b \in Seq(Clients) /\ b # <<>> /\ agent \in [Agents -> AgentState]
  BY DEF ConnInv, ConnTypeOK, AgentState
<1>2. /\ c = b[1] /\ 1 \in DOMAIN b
      /\ \A i \in DOMAIN Tail(b) : i + 1 \in DOMAIN b /\ Tail(b)[i] = b[i + 1] /\ i \in Nat \ {0}
  BY <1>1
<1>3. agent'[g].backlog = Tail(b) /\ \A h \in Agents \ {g} : agent'[h].backlog = agent[h].backlog
  BY <1>1
<1> HIDE DEF b
<1>4. PICK place \in [Agents -> {0, 1}] : \A h \in Agents : place[h] = IF h = g THEN 1 ELSE 0
  <2>1. [h \in Agents |-> IF h = g THEN 1 ELSE 0] \in [Agents -> {0, 1}]
    OBVIOUS
  <2>2. QED
    BY <2>1
<1>5. \A h \in Agents : \A i \in DOMAIN agent'[h].backlog :
         /\ i + place[h] \in DOMAIN agent[h].backlog /\ i \in Nat \ {0}
         /\ agent'[h].backlog[i] = agent[h].backlog[i + place[h]]
  <2>1. ASSUME NEW h \in Agents, NEW i \in DOMAIN agent'[h].backlog
        PROVE  /\ i + place[h] \in DOMAIN agent[h].backlog /\ i \in Nat \ {0}
               /\ agent'[h].backlog[i] = agent[h].backlog[i + place[h]]
    <3>1. CASE h = g
      BY <1>2, <1>3, <1>4, <3>1 DEF b
    <3>2. CASE h # g
      <4>1. agent[h].backlog \in Seq(Clients) /\ place[h] = 0 /\ agent'[h].backlog = agent[h].backlog
        BY <1>1, <1>3, <1>4, <3>2 DEF AgentState
      <4>2. QED
        BY <4>1
    <3>3. QED
      BY <3>1, <3>2
  <2>2. QED
    BY <2>1
<1>6. \A h, x \in Agents : \A i \in DOMAIN agent[h].backlog, j \in DOMAIN agent[x].backlog :
         agent[h].backlog[i] = agent[x].backlog[j] => h = x /\ i = j
  BY DEF ConnInv, QueuedOnce
<1>7. QueuedOnce'
  <2>1. ASSUME NEW h \in Agents, NEW x \in Agents, NEW i \in DOMAIN agent'[h].backlog,
               NEW j \in DOMAIN agent'[x].backlog, agent'[h].backlog[i] = agent'[x].backlog[j]
        PROVE  h = x /\ i = j
    <3>1. i + place[h] = j + place[x] /\ h = x /\ i \in Nat /\ j \in Nat /\ place[h] \in Nat
      BY <1>4, <1>5, <1>6, <2>1
    <3>2. QED
      BY <3>1
  <2>2. QED
    BY <2>1 DEF QueuedOnce
<1>8. \A d \in Clients : Queued(d)' => Queued(d)
  BY <1>5 DEF Queued
<1>9. ~Queued(c)'
  <2>1. ASSUME NEW h \in Agents, NEW i \in DOMAIN agent'[h].backlog, agent'[h].backlog[i] = c
        PROVE  FALSE
    <3>1. h = g /\ i + place[h] = 1 /\ i \in Nat \ {0}
      BY <1>2, <1>5, <1>6, <2>1 DEF b
    <3>2. QED
      BY <1>4, <3>1
  <2>2. QED
    BY <2>1 DEF Queued
<1>10. Queued(c)
  BY <1>2 DEF Queued, b
<1>11. QED
  BY <1>7, <1>8, <1>9, <1>10

(* A connection gets a permit and a thread, or is dropped when all permits are in
   use. *)
LEMMA AcceptInv ==
    ASSUME ConnInv, NEW g \in Agents, Accept(g)
    PROVE  ConnInv'
<1> USE NoThreadFacts
<1>1. /\ agent[g] \in AgentState /\ agent \in [Agents -> AgentState] /\ agent[g].backlog # <<>>
      /\ conn \in [Clients -> [at : Stages, of : Agents] \cup {NoThread}]
      /\ silent' = silent /\ silent \subseteq Clients
  BY DEF ConnInv, ConnTypeOK, Accept
<1>2. Tail(agent[g].backlog) \in Seq(Clients) /\ Head(agent[g].backlog) \in Clients /\ "test" \in Loops
  BY <1>1 DEF AgentState, Loops
<1> PICK c \in Clients : c = Head(agent[g].backlog)
  BY <1>2
<1>3. CASE HasCapacity(g)
  <2> DEFINE r == [agent[g] EXCEPT !.loop = "test", !.backlog = Tail(@), !.active = @ + 1]
             x == [at |-> "reading", of |-> g]
  <2>1. /\ r \in AgentState /\ r.backlog = Tail(agent[g].backlog) /\ r.active = agent[g].active + 1
        /\ r.active <= Limit /\ agent[g].active \in Nat
    <3>1. agent[g].active \in Nat
      BY <1>1 DEF AgentState
    <3>2. agent[g].active + 1 \in Nat /\ agent[g].active + 1 <= Limit
      BY <1>3, <3>1, ConnectionsAssumption DEF HasCapacity
    <3>3. r.active = agent[g].active + 1 /\ r.backlog = Tail(agent[g].backlog)
      BY <1>1 DEF AgentState
    <3>4. r \in AgentState
      BY <1>1, <1>2, <3>2 DEF AgentState
    <3>5. QED
      BY <3>1, <3>2, <3>3, <3>4
  <2>2. x \in [at : Stages, of : Agents] /\ x.at \in Stages /\ x.of = g
    BY DEF Stages
  <2>3. agent' = [agent EXCEPT ![g] = r] /\ conn' = [conn EXCEPT ![c] = x]
    BY <1>1, <1>3 DEF Accept
  <2> HIDE DEF r, x
  <2>4. Queued(c) /\ ~Queued(c)' /\ QueuedOnce' /\ \A d \in Clients : Queued(d)' => Queued(d)
    BY <1>1, <2>1, <2>3, DequeueFacts
  <2>5. /\ agent'[g] = r /\ \A h \in Agents \ {g} : agent'[h] = agent[h]
        /\ conn'[c] = x /\ \A d \in Clients \ {c} : conn'[d] = conn[d]
    BY <1>1, <2>3
  <2>6. ConnTypeOK'
    BY <1>1, <2>1, <2>2, <2>3 DEF ConnTypeOK
  <2>7. QueuedHasNoThread'
    BY <2>4, <2>5 DEF ConnInv, QueuedHasNoThread
  <2>8. conn[c] = NoThread
    BY <2>4 DEF ConnInv, QueuedHasNoThread
  <2>9. c \notin ServedBy(g) /\ ServedBy(g)' = ServedBy(g) \cup {c}
    BY <2>2, <2>5, <2>8 DEF ServedBy
  <2>10. \A h \in Agents \ {g} : ServedBy(h)' = ServedBy(h)
    BY <2>2, <2>5, <2>8 DEF ServedBy
  <2>11. /\ IsFiniteSet(ServedBy(g)) /\ agent[g].active = Cardinality(ServedBy(g))
    BY DEF ConnInv, PermitsAreThreads
  <2>12. IsFiniteSet(ServedBy(g)') /\ Cardinality(ServedBy(g)') = r.active
    <3>1. /\ IsFiniteSet(ServedBy(g) \cup {c})
          /\ Cardinality(ServedBy(g) \cup {c}) = Cardinality(ServedBy(g)) + 1
      BY <2>9, <2>11, FS_AddElement
    <3>2. QED
      BY <2>1, <2>9, <2>11, <3>1
  <2>13. ASSUME NEW h \in Agents
         PROVE  /\ IsFiniteSet(ServedBy(h)') /\ agent'[h].active = Cardinality(ServedBy(h)')
                /\ agent'[h].active <= Limit
    <3>1. CASE h = g
      BY <2>1, <2>5, <2>12, <3>1
    <3>2. CASE h # g
      BY <2>5, <2>10, <3>2 DEF ConnInv, PermitsAreThreads
    <3>3. QED
      BY <3>1, <3>2
  <2>14. QED
    BY <2>4, <2>6, <2>7, <2>13 DEF ConnInv, PermitsAreThreads
<1>4. CASE ~HasCapacity(g)
  <2> DEFINE r == [agent[g] EXCEPT !.loop = "test", !.backlog = Tail(@)]
  <2>1. r \in AgentState /\ r.backlog = Tail(agent[g].backlog) /\ r.active = agent[g].active
    BY <1>1, <1>2 DEF AgentState
  <2>2. agent' = [agent EXCEPT ![g] = r] /\ conn' = conn
    BY <1>1, <1>4 DEF Accept
  <2> HIDE DEF r
  <2>3. QueuedOnce' /\ \A d \in Clients : Queued(d)' => Queued(d)
    BY <1>1, <2>1, <2>2, DequeueFacts
  <2>4. ConnTypeOK'
    BY <1>1, <2>1, <2>2 DEF ConnTypeOK
  <2>5. QueuedHasNoThread'
    BY <2>2, <2>3 DEF ConnInv, QueuedHasNoThread
  <2>6. \A h \in Agents : agent'[h].active = agent[h].active
    BY <1>1, <2>1, <2>2
  <2>7. PermitsAreThreads'
    BY <2>2, <2>6 DEF ConnInv, PermitsAreThreads, ServedBy
  <2>8. QED
    BY <2>3, <2>4, <2>5, <2>7 DEF ConnInv
<1>5. QED
  BY <1>3, <1>4

(* A client in no backlog joins the end of one. *)
LEMMA ConnectInv ==
    ASSUME ConnInv, NEW c \in Clients, NEW g \in Agents, Connect(c, g)
    PROVE  ConnInv'
<1> DEFINE b == agent[g].backlog
           r == [agent[g] EXCEPT !.backlog = Append(@, c)]
<1>1. /\ agent[g] \in AgentState /\ agent \in [Agents -> AgentState] /\ b \in Seq(Clients)
      /\ conn[c] = NoThread /\ ~Queued(c) /\ conn' = conn /\ silent' = silent
  BY DEF ConnInv, ConnTypeOK, Connect, Away, AgentState
<1>2. r \in AgentState /\ r.backlog = Append(b, c) /\ r.active = agent[g].active
  <2>1. Append(b, c) \in Seq(Clients)
    BY <1>1
  <2>2. QED
    BY <1>1, <2>1 DEF AgentState
<1>3. agent' = [agent EXCEPT ![g] = r]
  BY DEF Connect
<1>4. \A i \in DOMAIN Append(b, c) : \/ i \in DOMAIN b /\ Append(b, c)[i] = b[i]
                                     \/ i = Len(b) + 1 /\ Append(b, c)[i] = c
  BY <1>1
<1> HIDE DEF b, r
<1>5. agent'[g] = r /\ \A h \in Agents \ {g} : agent'[h] = agent[h]
  BY <1>1, <1>3
<1>6. \A h \in Agents : \A i \in DOMAIN agent'[h].backlog :
         \/ i \in DOMAIN agent[h].backlog /\ agent'[h].backlog[i] = agent[h].backlog[i]
         \/ h = g /\ i = Len(b) + 1 /\ agent'[h].backlog[i] = c
  BY <1>2, <1>4, <1>5 DEF b
<1>7. \A h \in Agents : \A i \in DOMAIN agent[h].backlog : agent[h].backlog[i] # c
  BY <1>1 DEF Queued
<1>8. ConnTypeOK'
  BY <1>1, <1>2, <1>3 DEF ConnInv, ConnTypeOK
<1>9. QueuedOnce'
  BY <1>6, <1>7 DEF ConnInv, QueuedOnce
<1>10. QueuedHasNoThread'
  BY <1>1, <1>6 DEF ConnInv, QueuedHasNoThread, Queued
<1>11. \A h \in Agents : agent'[h].active = agent[h].active
  BY <1>2, <1>5
<1>12. PermitsAreThreads'
  BY <1>1, <1>11 DEF ConnInv, PermitsAreThreads, ServedBy
<1>13. QED
  BY <1>8, <1>9, <1>10, <1>12 DEF ConnInv

LEMMA ConnInitInv == ConnInit => ConnInv
<1> SUFFICES ASSUME ConnInit PROVE ConnInv
  OBVIOUS
<1>1. \A g \in Agents : agent[g].backlog = <<>> /\ agent[g].active = 0
  BY DEF ConnInit
<1>2. \A c \in Clients : conn[c] = NoThread
  BY DEF ConnInit
<1>3. ConnTypeOK
  BY DEF ConnInit, ConnTypeOK, AgentState, Loops
<1>4. QueuedOnce /\ QueuedHasNoThread
  BY <1>1, <1>2 DEF QueuedOnce, QueuedHasNoThread
<1>5. \A g \in Agents : ServedBy(g) = {}
  BY <1>2, NoThreadFacts DEF ServedBy
<1>6. PermitsAreThreads
  <2>1. IsFiniteSet({}) /\ Cardinality({}) = 0 /\ 0 <= Limit
    BY FS_EmptySet, ConnectionsAssumption
  <2>2. QED
    BY <1>1, <1>5, <2>1 DEF PermitsAreThreads
<1>7. QED
  BY <1>3, <1>4, <1>6 DEF ConnInv

LEMMA ConnStepInv == ConnInv /\ [ConnNext]_connVars => ConnInv'
<1> SUFFICES ASSUME ConnInv, [ConnNext]_connVars PROVE ConnInv'
  OBVIOUS
<1>1. ASSUME NEW g \in Agents,
             BindListener(g) \/ StartLoop(g) \/ StopLoop(g) \/ TestStop(g) \/ AcceptNothing(g) \/ Accept(g)
      PROVE  ConnInv'
  BY <1>1, LoopInv, AcceptInv
<1>2. ASSUME NEW c \in Clients, ReadRequest(c) \/ ReadEnds(c) \/ ReadTimeout(c) \/ Handle(c) \/ Reply(c)
      PROVE  ConnInv'
  BY <1>2, MoveInv
<1>3. ASSUME NEW c \in Clients, Release(c) PROVE ConnInv'
  BY <1>3, ReleaseInv
<1>4. ASSUME NEW c \in Clients, NEW g \in Agents, Connect(c, g) PROVE ConnInv'
  BY <1>4, ConnectInv
<1>5. ASSUME NEW c \in Clients, FallSilent(c) \/ Restart(c) PROVE ConnInv'
  <2>1. agent' = agent /\ conn' = conn /\ silent' \subseteq Clients
    BY <1>5 DEF FallSilent, Restart, ConnInv, ConnTypeOK
  <2>2. QED
    BY <2>1 DEF ConnInv, ConnTypeOK, QueuedOnce, QueuedHasNoThread, Queued, PermitsAreThreads, ServedBy
<1>6. CASE UNCHANGED connVars
  BY <1>6 DEF connVars, ConnInv, ConnTypeOK, QueuedOnce, QueuedHasNoThread, Queued,
     PermitsAreThreads, ServedBy
<1>7. QED
  BY <1>1, <1>2, <1>3, <1>4, <1>5, <1>6 DEF ConnNext

LEMMA ConnInvariant == ConnSpec => []ConnInv
<1>1. QED
  BY ConnInitInv, ConnStepInv, PTL DEF ConnSpec

-----------------------------------------------------------------------------
(* The connections: theorems                                               *)

\* The accept loops, the connections and the silent clients have their types,
\* for any number of clients and any limit (start.rs).
THEOREM ConnTypeCorrect == ConnSpec => []ConnTypeOK
<1>1. ConnInv => ConnTypeOK
  BY DEF ConnInv
<1>2. QED
  BY <1>1, ConnInvariant, PTL

\* No permit is lost or given out twice: each limiter counts the threads of its
\* agent, and there are never more than MAX_AGENT_CONNECTIONS, however many
\* clients connect, hang and come back, and however often the agent is replaced
\* (ConnectionLimiter, serve).
THEOREM PermitsAreExact == ConnSpec => []PermitsAccountFor
<1>1. ConnInv => PermitsAccountFor
  BY DEF ConnInv, PermitsAreThreads, ServedBy, PermitsAccountFor
<1>2. QED
  BY <1>1, ConnInvariant, PTL
=============================================================================
