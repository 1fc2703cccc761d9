------------------------------- MODULE Locks -------------------------------
(***************************************************************************)
(* The mutexes of Keynoxis and the order in which every handler takes      *)
(* them.  RuntimeState (state/mod.rs:218-271) shares seven mutexes between *)
(* the main thread (synchronous Tauri commands and the tray menu), the     *)
(* asynchronous FIDO2 operations, the device watcher, the auto-lock timer, *)
(* the macOS lifecycle thread and one thread per agent connection.  A      *)
(* handler is abstracted to its script: which mutex it takes and drops, in *)
(* order.  What it does to the data meanwhile is module Session, which     *)
(* assumes that no thread waits for ever; this module examines exactly     *)
(* that assumption.                                                        *)
(***************************************************************************)
EXTENDS Naturals, Sequences

CONSTANTS
    Operations,  \* tasks running perform_fido_operation or delete_key
    Signers,     \* agent connections, MAX_AGENT_CONNECTIONS of them at most
    Handlers     \* the handlers that may run, a subset of AllHandlers

Threads == {"main", "watcher", "autolock", "lifecycle"} \cup Operations \cup Signers

Mutexes == {"app", "agent", "gate", "pins", "fido", "secure_enclave", "activity"}

Nobody == "nobody"

AllHandlers == {"getState", "prompt", "setLabel", "setKeyEnabled", "renameFido",
                "renameEnclave", "createEnclave", "lockAgent", "unlockAgent",
                "activityList", "exit", "load", "continue", "delete", "scan",
                "autolock", "deactivate", "reactivate", "identities", "refuse",
                "signEnclave", "signFido"}

ASSUME HandlersAssumption == Handlers \subseteq AllHandlers
ASSUME ThreadsAssumption == Nobody \notin Operations \cup Signers

VARIABLES
    holder,  \* the thread that owns each mutex
    todo     \* what is left of the script each thread is running

vars == <<holder, todo>>

-----------------------------------------------------------------------------
(* Scripts.  A guard lives for a block: Hold(m, body) locks m, runs body and
   drops the guard, as Rust does.  Use(m) is a critical section that takes no
   other mutex: it needs m to be free and is then over, so that one step
   stands for its lock and its unlock. *)

Take(m) == [do |-> "take", mutex |-> m]
Drop(m) == [do |-> "drop", mutex |-> m]
Pass(m) == [do |-> "pass", mutex |-> m]

Hold(m, body) == <<Take(m)>> \o body \o <<Drop(m)>>
Use(m) == <<Pass(m)>>

(* activity::record, list and clear: the innermost mutex. *)
Record == Use("activity")

(* A plausible bug for the mutation run: the block that ends the PIN guard's
   life is dropped, and the guard survives into the state update. *)
LockSessionNested == Hold("pins", Use("app")) \o Record

(* lock_fido_session: the PINs in a block of their own, then the state. *)
LockSession == Use("pins") \o Use("app") \o Record

(* perform_fido_operation.  The hardware work holds only fido; the result is
   applied under app, with pins and the activity log inside.  An operation
   that fails before the agent is ensured skips agent. *)
Perform == {Use("app") \o Use("fido") \o ensure \o Hold("app", Use("pins") \o Record) :
            ensure \in {<<>>, Use("agent")}}

(* provider::sign for a FIDO2 key: the PIN guard is still alive when
   authorize takes the state, and both are held while the user is asked to
   touch the key. *)
SignFido == Hold("fido", Hold("gate", Hold("pins", Use("app"))))

(* provider::sign for a Secure Enclave key. *)
SignEnclave == Hold("secure_enclave", Hold("gate", Use("app")))

(* set_agent_locked, which calls lock_fido_session under the gate. *)
SetLocked(body) == Hold("gate", body \o Use("app") \o Record)

(* The tray's lock item reads the state first; the command does not. *)
FromTray(script) == {script, Use("app") \o script}

(* The lock scripts of each handler, one per path through it that asks for a
   different series of locks. *)
Script(h) ==
    CASE h = "getState" -> {Use("app")}
      [] h = "prompt" -> {Hold("app", Use("pins") \o Use("pins"))}
      [] h = "setLabel" -> {Use("app") \o Record}
      [] h = "setKeyEnabled" -> {Hold("gate", Use("app") \o Record)}
      [] h = "renameFido" ->
            {Use("app") \o Use("pins") \o Hold("app", Use("pins")),
             Use("app") \o Use("pins") \o Use("app") \o
                Hold("fido", Use("pins")) \o Hold("app", Record)}
      [] h = "renameEnclave" ->
            {Use("app") \o Use("app") \o Use("secure_enclave") \o Hold("app", Record)}
      [] h = "createEnclave" -> {Use("secure_enclave") \o Use("app") \o Record}
      [] h = "lockAgent" -> FromTray(SetLocked(LockSession))
      [] h = "unlockAgent" -> FromTray(SetLocked(<<>>))
      [] h = "activityList" -> {Record}
      [] h = "exit" -> {Use("pins") \o Use("agent")}
      [] h = "load" -> Perform
      [] h = "continue" -> {Use("app") \o Use("pins") \o p : p \in Perform}
      [] h = "delete" ->
            {Use("app") \o Use("secure_enclave") \o applied \o Record :
             applied \in {<<>>, Use("app")}}
      [] h = "scan" -> {Use("app") \o Use("fido") \o Hold("app", Use("pins") \o Record)}
      [] h = "autolock" -> {LockSession}
      [] h = "deactivate" -> {Use("app") \o LockSession, Use("app") \o LockSession \o Record}
      [] h = "reactivate" -> {Use("agent") \o Use("app") \o Record}
      [] h = "identities" -> {Use("app")}
      [] h = "refuse" -> {Use("app") \o Record}
      [] h = "signEnclave" ->
            {Use("app") \o Use("app") \o SignEnclave \o Record \o failed :
             failed \in {<<>>, Use("app")}}
      [] h = "signFido" ->
            {Use("app") \o Hold("app", Use("pins")) \o SignFido \o Record \o Use("app")}

(* Which thread runs which handler. *)
Runs(t) ==
    CASE t = "main" -> {"getState", "prompt", "setLabel", "setKeyEnabled",
                        "renameFido", "renameEnclave", "createEnclave",
                        "lockAgent", "unlockAgent", "activityList", "exit"}
      [] t = "watcher" -> {"scan"}
      [] t = "autolock" -> {"autolock"}
      [] t = "lifecycle" -> {"deactivate", "reactivate"}
      [] t \in Operations -> {"load", "continue", "delete"}
      [] t \in Signers -> {"identities", "refuse", "signEnclave", "signFido"}

-----------------------------------------------------------------------------
Init ==
    /\ holder = [m \in Mutexes |-> Nobody]
    /\ todo = [t \in Threads |-> <<>>]

(* A thread with nothing to do starts a handler. *)
Start(t) ==
    /\ todo[t] = <<>>
    /\ \E h \in Runs(t) \cap Handlers : \E script \in Script(h) :
          todo' = [todo EXCEPT ![t] = script]
    /\ UNCHANGED holder

(* The next step of t is one of kinds. *)
NextIs(t, kinds) == todo[t] # <<>> /\ Head(todo[t]).do \in kinds

(* Mutex::lock returns: the mutex was free.  It is not re-entrant. *)
Lock(t) ==
    /\ NextIs(t, {"take", "pass"})
    /\ LET next == Head(todo[t]) IN
          /\ holder[next.mutex] = Nobody
          /\ holder' = IF next.do = "pass" THEN holder
                       ELSE [holder EXCEPT ![next.mutex] = t]
    /\ todo' = [todo EXCEPT ![t] = Tail(@)]

(* A guard goes out of scope. *)
Unlock(t) ==
    /\ NextIs(t, {"drop"})
    /\ holder' = [holder EXCEPT ![Head(todo[t]).mutex] = Nobody]
    /\ todo' = [todo EXCEPT ![t] = Tail(@)]

(* An early return or a `?`: every guard of the thread is dropped and the
   rest of the handler does not run. *)
ReturnEarly(t) ==
    /\ todo[t] # <<>>
    /\ holder' = [m \in Mutexes |-> IF holder[m] = t THEN Nobody ELSE holder[m]]
    /\ todo' = [todo EXCEPT ![t] = <<>>]

Next == \E t \in Threads : Start(t) \/ Lock(t) \/ Unlock(t) \/ ReturnEarly(t)

Spec == Init /\ [][Next]_vars

-----------------------------------------------------------------------------
Steps == [do : {"take", "drop", "pass"}, mutex : Mutexes]

(* At step j of s a guard is dropped that is alive at step i. *)
DropsLive(s, i, j, m) == s[j] = Drop(m) /\ \A k \in i .. j - 1 : s[k] # Take(m)

(* Both variables have the shape the code gives them, and a mutex is held
   only by a thread that will still drop it: the guards of a handler never
   outlive it. *)
TypeOK ==
    /\ holder \in [Mutexes -> Threads \cup {Nobody}]
    /\ todo \in [Threads -> Seq(Steps)]
    /\ \A m \in Mutexes : holder[m] # Nobody =>
          \E j \in 1 .. Len(todo[holder[m]]) : DropsLive(todo[holder[m]], 1, j, m)

(* The thread a thread cannot proceed without: the owner of the mutex its
   next step takes. *)
WaitsFor(t) == IF NextIs(t, {"take", "pass"}) THEN holder[Head(todo[t]).mutex] ELSE Nobody

(* No group of threads waits for its own members: every thread that waits for
   a mutex waits, in the end, for one that can move.  A thread that locks a
   mutex it already owns is a group of one. *)
NoCircularWait ==
    \A group \in (SUBSET Threads) \ {{}} : \E t \in group : WaitsFor(t) \notin group
=============================================================================
