---------------------------- MODULE AgentSocket ----------------------------
(***************************************************************************)
(* The life of ~/.ssh/keynoxis.sock: how a Keynoxis process replaces the   *)
(* file, binds its listener, recovers it when macOS resumes, and takes the *)
(* file away when it ends (agent/start.rs, lifecycle.rs:124-143).  Each    *)
(* step is one system call, since another process, or a user, can touch    *)
(* the path between any two of them.                                       *)
(***************************************************************************)
EXTENDS Naturals

CONSTANTS
    Procs,      \* Keynoxis processes
    MaxInodes,  \* bound: how many socket files are ever created
    Overlap,    \* may a process start while another one is still alive?
    Tampering   \* may someone else change the path?

ASSUME SocketAssumption ==
    MaxInodes \in Nat /\ Overlap \in BOOLEAN /\ Tampering \in BOOLEAN

Inodes == 1 .. MaxInodes
NoFile == 0

VARIABLES
    path,       \* the inode keynoxis.sock names, or NoFile
    listening,  \* the inodes a live listener accepts connections on
    created,    \* how many inodes there have been
    proc,       \* per process: where it is, what it bound, what it recorded
    orphans,    \* inodes of a crash, of a failed start, or of someone else
    touched     \* has someone else changed the path since it was last known good?

vars == <<path, listening, created, proc, orphans, touched>>

(* A process is off; or in ensure: check, unlink, bind, identify, install; or
   has an agent that is running; or drops it: stop, compare, remove; or goes
   on without one after a recovery that failed.  then is what follows the
   drop. *)
PCs == {"off", "check", "unlink", "bind", "identify", "install", "running",
        "stop", "compare", "remove", "agentless"}
Off == [pc |-> "off", bound |-> NoFile, identity |-> NoFile, then |-> "off"]
ProcState == [pc : PCs, bound : Inodes \cup {NoFile}, identity : Inodes \cup {NoFile},
              then : {"off", "check"}]

Init ==
    /\ path = NoFile
    /\ listening = {}
    /\ created = 0
    /\ proc = [p \in Procs |-> Off]
    /\ orphans = {}
    /\ touched = FALSE

-----------------------------------------------------------------------------
At(p, pc) == proc[p].pc = pc
Goto(p, pc) == proc' = [proc EXCEPT ![p].pc = pc]

(* ensure returns an error: the listener is dropped and its file stays.  At
   launch the process ends with it; in a recovery it goes on without agent. *)
Fail(p) ==
    /\ listening' = listening \ {proc[p].bound}
    /\ orphans' = orphans \cup ({proc[p].bound} \cap Inodes)
    /\ proc' = [proc EXCEPT ![p] = IF @.then = "off" THEN Off
                                   ELSE [Off EXCEPT !.pc = "agentless"]]

(* Keynoxis is launched and its setup calls ensure. *)
Launch(p) ==
    /\ At(p, "off")
    /\ Overlap \/ \A q \in Procs : At(q, "off")
    /\ Goto(p, "check")
    /\ UNCHANGED <<path, listening, created, orphans, touched>>

(* socket_path.exists() *)
CheckStale(p) ==
    /\ At(p, "check")
    /\ Goto(p, IF path # NoFile THEN "unlink" ELSE "bind")
    /\ UNCHANGED <<path, listening, created, orphans, touched>>

(* remove_file of a stale socket: an error if it is gone by now. *)
UnlinkStale(p) ==
    /\ At(p, "unlink")
    /\ \/ /\ path # NoFile
          /\ path' = NoFile
          /\ Goto(p, "bind")
          /\ UNCHANGED <<listening, created, orphans, touched>>
       \/ /\ path = NoFile
          /\ Fail(p)
          /\ UNCHANGED <<path, created, touched>>

(* UnixListener::bind: creates the file, and fails if there is one. *)
Bind(p) ==
    /\ At(p, "bind")
    /\ \/ /\ path = NoFile
          /\ created < MaxInodes
          /\ created' = created + 1
          /\ path' = created'
          /\ listening' = listening \cup {created'}
          /\ proc' = [proc EXCEPT ![p].pc = "identify", ![p].bound = created']
          /\ touched' = FALSE
          /\ UNCHANGED orphans
       \/ /\ path # NoFile
          /\ Fail(p)
          /\ UNCHANGED <<path, created, touched>>

(* A plausible bug for the mutation run: the identity is never recorded. *)
IdentifyNothing(p) ==
    /\ At(p, "identify")
    /\ Goto(p, "install")
    /\ UNCHANGED <<path, listening, created, orphans, touched>>

(* set_permissions and fs::metadata go by the path, whatever it names now,
   and fail when it names nothing. *)
Identify(p) ==
    /\ At(p, "identify")
    /\ \/ /\ path # NoFile
          /\ proc' = [proc EXCEPT ![p].pc = "install", ![p].identity = path]
          /\ UNCHANGED <<path, listening, created, orphans, touched>>
       \/ /\ path = NoFile
          /\ Fail(p)
          /\ UNCHANGED <<path, created, touched>>

(* The OpenSSH integration is written, or cannot be; then the accept thread
   starts. *)
Install(p) ==
    /\ At(p, "install")
    /\ \/ /\ Goto(p, "running")
          /\ UNCHANGED <<path, listening, created, orphans, touched>>
       \/ /\ Fail(p)
          /\ UNCHANGED <<path, created, touched>>

-----------------------------------------------------------------------------
(* A plausible bug for the mutation run: having an agent is being healthy. *)
HealthyIfAny(p) == At(p, "running")

(* Agent::is_healthy: the path names a socket that accepts a connection. *)
Healthy(p) == At(p, "running") /\ path \in listening

(* reactivate: an agent that is not healthy is dropped before a new one is
   ensured. *)
Resume(p) ==
    /\ \/ /\ Healthy(p)
          /\ touched' = FALSE
          /\ UNCHANGED proc
       \/ /\ At(p, "running") /\ ~Healthy(p)
          /\ proc' = [proc EXCEPT ![p].pc = "stop", ![p].then = "check"]
          /\ UNCHANGED touched
    /\ UNCHANGED <<path, listening, created, orphans>>

(* With no agent, the next resumption ensures one, and so does the next PIN
   that lists the keys of a security key. *)
Retry(p) ==
    /\ At(p, "agentless")
    /\ proc' = [proc EXCEPT ![p].pc = "check", ![p].then = "check"]
    /\ UNCHANGED <<path, listening, created, orphans, touched>>

(* RunEvent::Exit drops the agent, if there is one. *)
Exit(p) ==
    /\ \/ /\ At(p, "running")
          /\ proc' = [proc EXCEPT ![p].pc = "stop", ![p].then = "off"]
       \/ /\ At(p, "agentless")
          /\ proc' = [proc EXCEPT ![p] = Off]
    /\ UNCHANGED <<path, listening, created, orphans, touched>>

(* Drop: the accept thread is joined, and its listener closes. *)
Stop(p) ==
    /\ At(p, "stop")
    /\ listening' = listening \ {proc[p].bound}
    /\ Goto(p, "compare")
    /\ UNCHANGED <<path, created, orphans, touched>>

Dropped(p) ==
    proc' = [proc EXCEPT ![p] = [Off EXCEPT !.pc = proc[p].then, !.then = proc[p].then]]

(* Drop: does the path still name the inode recorded at the start? *)
Compare(p) ==
    /\ At(p, "compare")
    /\ IF path = proc[p].identity THEN Goto(p, "remove") ELSE Dropped(p)
    /\ UNCHANGED <<path, listening, created, orphans, touched>>

(* Drop: remove_file, of whatever the path names by now. *)
RemoveFile(p) ==
    /\ At(p, "remove")
    /\ path' = NoFile
    /\ Dropped(p)
    /\ UNCHANGED <<listening, created, orphans, touched>>

(* The process dies at any point, and its listener with it. *)
Crash(p) ==
    /\ ~At(p, "off")
    /\ listening' = listening \ {proc[p].bound}
    /\ orphans' = orphans \cup ({proc[p].bound} \cap Inodes)
    /\ proc' = [proc EXCEPT ![p] = Off]
    /\ UNCHANGED <<path, created, touched>>

(* Someone deletes the socket file, or puts a file of theirs in its place. *)
Tamper ==
    /\ \/ /\ path # NoFile
          /\ path' = NoFile
          /\ UNCHANGED <<created, orphans>>
       \/ /\ path = NoFile /\ created < MaxInodes
          /\ created' = created + 1
          /\ path' = created'
          /\ orphans' = orphans \cup {created'}
    /\ touched' = TRUE
    /\ UNCHANGED <<listening, proc>>

Ensure(p) == CheckStale(p) \/ UnlinkStale(p) \/ Bind(p) \/ Identify(p) \/ Install(p)
Drop(p) == Stop(p) \/ Compare(p) \/ RemoveFile(p)

Next ==
    \/ \E p \in Procs :
          Launch(p) \/ Ensure(p) \/ Resume(p) \/ Retry(p) \/ Exit(p) \/ Drop(p) \/ Crash(p)
    \/ Tampering /\ Tamper

Spec == Init /\ [][Next]_vars

-----------------------------------------------------------------------------
TypeOK ==
    /\ path \in Inodes \cup {NoFile}
    /\ listening \subseteq Inodes
    /\ created \in 0 .. MaxInodes
    /\ proc \in [Procs -> ProcState]
    /\ orphans \subseteq Inodes
    /\ touched \in BOOLEAN

(* As long as nobody else changes the path, a process that has an agent is
   reachable: the path names its own inode, and it listens there.  This is
   what recovery after sleep re-establishes (lifecycle.rs:130-143). *)
RunningIsReachable ==
    \A p \in Procs : At(p, "running") /\ ~touched =>
       path = proc[p].bound /\ path \in listening

(* A file nobody listens on is what a crash, a failed start or someone else
   left behind, never what an orderly end did: Drop removes the file it created
   (start.rs:69-85). *)
EndsTidy ==
    path \in Inodes \ listening =>
       path \in orphans \/ \E p \in Procs : proc[p].pc \in {"compare", "remove"} /\ path = proc[p].bound

(* Drop removes only the inode its own process created, as the comment at
   start.rs:75-76 says. *)
RemovesOnlyItsOwn ==
    [][\A p \in Procs : RemoveFile(p) => path \in {proc[p].bound, NoFile}]_vars
=============================================================================
