------------------------------- MODULE Session -------------------------------
(***************************************************************************)
(* The security-key session of Keynoxis: the AppState and the cached PINs, *)
(* and every thread that changes them.                                     *)
(*                                                                         *)
(*   main       the main thread: Tauri's synchronous commands and the      *)
(*              tray menu, one at a time                                   *)
(*   op         asynchronous commands: perform_fido_operation (load_keys,  *)
(*              continue_fido_operation) and delete_key                    *)
(*   watcher    the device watcher (device/watcher.rs)                     *)
(*   locker     the auto-lock thread (settings.rs) and the macOS lifecycle *)
(*              thread (lifecycle.rs)                                      *)
(*   signer     SSH connections inside sign_request                        *)
(*                                                                         *)
(* One action is one critical section of the `app` mutex, with the `pins`  *)
(* mutex nested in it where the code nests it, or one step on the hardware *)
(* or on a file.  The only guard that is held from one action to the next  *)
(* is the one authorize() returns: while a connection is "signing" it      *)
(* holds `app` and `signing_gate`, and for a security key `fido` and       *)
(* `pins` too.  The order in which one step takes its mutexes is the       *)
(* subject of module Locks.                                                *)
(*                                                                         *)
(* Not part of this state: names, labels and error texts, the activity     *)
(* log, agent_running and ssh_socket, window visibility.                   *)
(***************************************************************************)
EXTENDS Naturals, FiniteSets

CONSTANTS
    MaxPath,        \* security keys are attached at the paths 1 .. MaxPath
    Fido2,          \* the paths of devices that speak FIDO2
    FidoKeys,       \* resident SSH credentials, existing or to be created
    SEKeys,         \* Secure Enclave keys, existing or to be created
    Home,           \* the path of the device that holds each FIDO2 key
    InitialKeys,    \* the keys that exist in hardware at the start
    Flags,          \* lifecycle flags: screen locked, sleeping, inactive
    Ops,            \* asynchronous commands that may run at once
    Signers,        \* SSH connections that may sign at once
    Inputs,         \* the groups of inputs that occur, of AllInputs
    NoKey           \* no key

Paths == 1 .. MaxPath
NoPath == 0
Keys == FidoKeys \cup SEKeys

\* Commands of the user, also ("away") those handled while a lifecycle flag is
\* set; the auto-lock timer; device scans that fail.
AllInputs == {"unlock", "dismiss", "reload", "create", "delete", "rename",
              "enclave", "enable", "lock", "away", "autolock", "badScan"}

ASSUME SessionAssumption ==
    /\ MaxPath \in Nat
    /\ Fido2 \subseteq Paths
    /\ FidoKeys \cap SEKeys = {}
    /\ Home \in [FidoKeys -> Fido2]
    /\ InitialKeys \subseteq Keys
    /\ NoKey \notin Keys
    /\ Inputs \subseteq AllInputs

VARIABLES
    app,        \* the AppState behind its mutex
    pins,       \* the paths with a cached PIN
    attached,   \* environment: the devices plugged in
    hardware,   \* the keys that exist on the devices and in the Secure Enclave
    disabled,   \* key-preferences.json: the disabled keys
    flags,      \* lifecycle_flags
    main,       \* the synchronous command in progress
    op,         \* the asynchronous commands in progress
    watcher,    \* the device watcher: between its scan and its update
    locker,     \* where the auto-lock and the lifecycle thread are
    signer,     \* the signature requests in progress
    stale       \* requests whose auth_dismiss_generation is out of date

vars == <<app, pins, attached, hardware, disabled, flags, main, op,
          watcher, locker, signer, stale>>

-----------------------------------------------------------------------------
(* Types                                                                   *)

Phases == {"WaitingForDevice", "NeedsPin", "Loading", "WaitingForTouch",
           "Ready", "Error"}

\* pending_key_creation, pending_key_deletion and pending_key_rename: every
\* command that sets one clears the others, so one field stands for them.
NoTask == [kind |-> "none", key |-> NoKey]
Creation == [kind |-> "create", key |-> NoKey]
Tasks == {NoTask, Creation} \cup [kind : {"delete", "rename"}, key : FidoKeys]

AppState ==
    [phase : Phases,
     devices : SUBSET Paths,            \* devices; yubikey_connected if any
     device : Paths \cup {NoPath},
     unlocked : SUBSET Paths,           \* unlocked_device_paths
     keys : SUBSET Keys,
     enabled : SUBSET Keys,             \* the keys with enabled = true
     pending : Tasks,
     sequence : BOOLEAN,                \* unlock_sequence
     sessionUnlocked : BOOLEAN,         \* fido_session_unlocked
     agentLocked : BOOLEAN]

IdleMain == [pc |-> "idle", key |-> NoKey, on |-> FALSE]
MainState ==
    [pc : {"idle", "created", "enabling", "clearing", "flagging",
           "renameChosen", "renaming", "renamed"},
     key : Keys \cup {NoKey},
     on : BOOLEAN]

IdleOp == [pc |-> "idle", pin |-> NoPath, path |-> NoPath, task |-> NoTask,
           keys |-> {}, enabled |-> {}, result |-> "ok", key |-> NoKey]
OpState ==
    [pc : {"idle", "chosen", "submitted", "begun", "loaded", "applied",
           "deleting", "deleted"},
     pin : Paths \cup {NoPath},         \* the device the PIN was entered for
     path : Paths \cup {NoPath},        \* the device the operation runs on
     task : Tasks,
     keys : SUBSET FidoKeys,
     enabled : SUBSET FidoKeys,
     result : {"ok", "invalid", "failed"},
     key : SEKeys \cup {NoKey}]

WatcherState == [pc : {"idle", "found", "failed"}, found : SUBSET Paths]
IdleWatcher == [pc |-> "idle", found |-> {}]

Lockers == {"autolock", "lifecycle"}
LockerSteps == {"idle", "clearPending", "clearPins", "clearApp", "recover"}

IdleSigner == [pc |-> "idle", key |-> NoKey, result |-> "none"]
SignerState ==
    [pc : {"idle", "checked", "found", "signing", "done"},
     key : Keys \cup {NoKey},
     result : {"none", "ok", "needsPin", "failed"}]

Init ==
    /\ attached \in SUBSET Paths
    /\ hardware = InitialKeys
    /\ disabled \in SUBSET InitialKeys
    /\ app = [phase |-> IF InitialKeys \cap SEKeys = {} THEN "WaitingForDevice"
                                                        ELSE "Ready",
              devices |-> {}, device |-> NoPath, unlocked |-> {},
              keys |-> InitialKeys \cap SEKeys,
              enabled |-> (InitialKeys \cap SEKeys) \ disabled,
              pending |-> NoTask, sequence |-> FALSE,
              sessionUnlocked |-> FALSE, agentLocked |-> FALSE]
    /\ pins = {}
    /\ flags = {}
    /\ main = IdleMain
    /\ op = [o \in Ops |-> IdleOp]
    /\ watcher = IdleWatcher
    /\ locker = [w \in Lockers |-> "idle"]
    /\ signer = [t \in Signers |-> IdleSigner]
    /\ stale = {}

-----------------------------------------------------------------------------
(* Mutexes held across actions                                             *)

SigningNow == {t \in Signers : signer[t].pc = "signing"}
SigningFido == {t \in SigningNow : signer[t].key \in FidoKeys}

\* The guard of authorize() is dropped before the hardware signs.
AppFreeGuardDropped == TRUE

\* authorize() keeps the `app` guard until the hardware has answered.
AppFree == SigningNow = {}

\* sign_with_fido2 holds `fido` and `pins` for as long.  (PinsFree follows
\* from AppFree: a section that nests `pins` in `app` need not say it.)
FidoFree == SigningFido = {}
PinsFree == SigningFido = {}
SEFree == SigningNow \ SigningFido = {}

\* set_agent_locked and set_key_enabled hold `signing_gate` to their end.
GateFree == SigningNow = {} /\ main.pc \notin {"enabling", "clearing", "flagging"}

MainIdle == main = IdleMain

-----------------------------------------------------------------------------
(* Parts of the AppState that several handlers compute alike               *)

\* The first of a list sorted by path (detect::yubikeys sorts the devices).
First(S) ==
    IF S = {} THEN NoPath ELSE CHOOSE p \in S : \A q \in S : p <= q

KeysOn(p) == {k \in FidoKeys : Home[k] = p}

\* keys.retain(...)
DropKeys(a, S) == [a EXCEPT !.keys = @ \ S, !.enabled = @ \ S]

LockedDevices(a) == (a.devices \cap Fido2) \ a.unlocked

\* devices.iter().filter(fido2).any(unlocked) instead of all(unlocked)
SomeUnlocked(a) == a.devices \cap Fido2 \cap a.unlocked # {}

AllUnlocked(a) == LockedDevices(a) = {}

\* The device of the finished operation, connected or not.
ReselectUnchecked(p) == p

\* devices.iter().find(path)
Reselect(p) == IF p \in app.devices THEN p ELSE NoPath

\* Only the flag is cleared, the path stays in unlocked_device_paths.
CloseFlagOnly(a, p) == [a EXCEPT !.sessionUnlocked = FALSE]

\* The session of one device is over.
Close(a, p) == [a EXCEPT !.sessionUnlocked = FALSE, !.unlocked = @ \ {p}]

\* Ask for the PIN of device d, for task t.
Ask(a, d, t) ==
    [a EXCEPT !.device = d, !.phase = "NeedsPin", !.pending = t]

\* The operation does not notice that its device is gone.
TargetedAlways == TRUE

\* perform_fido_operation: "YubiKey was removed" otherwise.
Targeted == app.device # NoPath

\* authorize() without the test of agent_locked, as sign_request has made it.
MayUseWhenLocked(k) == k \in app.enabled

\* authorize(): the agent is not locked and the very key is still enabled.
MayUse(k) == ~app.agentLocked /\ k \in app.enabled

\* The watcher forgets to purge the cached PINs.
StillConnectedKeepsAll(S, found) == S

\* pins.retain(connected), keys.retain(connected)
StillConnected(S, found) == S \cap found

-----------------------------------------------------------------------------
(* The environment: security keys are plugged in and pulled out            *)

Plug(p) ==
    /\ p \notin attached
    /\ attached' = attached \cup {p}
    /\ UNCHANGED <<app, pins, hardware, disabled, flags, main, op,
                   watcher, locker, signer, stale>>

Unplug(p) ==
    /\ p \in attached
    /\ attached' = attached \ {p}
    /\ UNCHANGED <<app, pins, hardware, disabled, flags, main, op,
                   watcher, locker, signer, stale>>

-----------------------------------------------------------------------------
(* Synchronous commands on the main thread                                 *)

\* A command that is one critical section: it changes the AppState, the PINs.
Command == MainIdle /\ AppFree

MainUnchanged ==
    UNCHANGED <<attached, hardware, disabled, flags, main, op, watcher,
                locker, signer>>

\* request_unlock.  With every device unlocked it first ends all sessions,
\* even if no locked device is then left to ask a PIN for.
RequestUnlock ==
    /\ Command
    /\ app.devices # {}
    /\ LET all == AllUnlocked(app)
           a == IF all THEN [DropKeys(app, FidoKeys) EXCEPT !.unlocked = {}] ELSE app
           target == First(LockedDevices(a))
       IN  /\ pins' = IF all THEN {} ELSE pins
           /\ app' = IF target = NoPath THEN a
                     ELSE [Ask(a, target, NoTask) EXCEPT
                              !.sequence = TRUE, !.sessionUnlocked = FALSE]
    /\ MainUnchanged /\ UNCHANGED stale

\* request_device_unlock: only the session of device p ends.
RequestDeviceUnlock(p) ==
    /\ Command
    /\ p \in app.devices \cap Fido2
    /\ pins' = pins \ {p}
    /\ app' = [Ask(Close(DropKeys(app, KeysOn(p)), p), p, NoTask) EXCEPT
                  !.sequence = FALSE]
    /\ MainUnchanged /\ UNCHANGED stale

\* auth_dismiss_generation.fetch_add: every signature request that has read the
\* generation is out of date.  A "checked" one may not have read it yet, and a
\* "done" one may already have compared it.
BumpGeneration ==
    \E S \in SUBSET {t \in Signers : signer[t].pc \in {"checked", "done"}} :
        stale' = stale \cup S \cup
                    {t \in Signers : signer[t].pc \in {"found", "signing"}}

\* The dismissal forgets the task of the window before it looks at it.
DismissedPhaseKept(a) ==
    IF a.phase \notin {"Error", "NeedsPin"} THEN a.phase
    ELSE IF a.keys # {} \/ a.devices # {} THEN "Ready" ELSE "WaitingForDevice"

\* Only the window of a signature request's touch stays, as the request goes on.
DismissedPhase(a) ==
    IF a.phase \notin {"Error", "NeedsPin"} /\ app.pending = NoTask THEN a.phase
    ELSE IF a.keys # {} \/ a.devices # {} THEN "Ready" ELSE "WaitingForDevice"

\* dismiss_auth
DismissAuth ==
    LET revoke == app.pending.kind \in {"delete", "rename"}
        p == app.device
        a == IF ~revoke THEN app
             ELSE IF p = NoPath THEN [app EXCEPT !.sessionUnlocked = FALSE]
             ELSE Close(DropKeys(app, KeysOn(p)), p)
    IN  /\ Command
        /\ IF app.phase = "WaitingForTouch" THEN BumpGeneration ELSE UNCHANGED stale
        /\ pins' = IF revoke THEN pins \ {p} ELSE pins
        /\ app' = [a EXCEPT !.pending = NoTask, !.sequence = FALSE,
                           !.phase = DismissedPhase(a)]
        /\ MainUnchanged

\* The tray's "Reload Keys" asks for a PIN and leaves the rest alone.
TrayReload ==
    /\ Command
    /\ app.devices # {}
    /\ app' = [app EXCEPT !.phase = "NeedsPin"]
    /\ MainUnchanged /\ UNCHANGED <<pins, stale>>

\* request_fido_key_creation, on a chosen device or on the current one.  The
\* device is selected before the algorithm and the name are found unusable.
RequestCreation(p, requirePin) ==
    LET reuse == ~requirePin /\ p \in pins
    IN  /\ Command
        /\ p \in (app.devices \cup {app.device}) \cap Fido2
        /\ app.devices # {}
        /\ IF reuse
           THEN /\ app' = [app EXCEPT !.device = p, !.phase = "WaitingForTouch",
                                      !.pending = Creation]
                /\ UNCHANGED pins
           ELSE /\ app' = Close(DropKeys(Ask(app, p, Creation), KeysOn(p)), p)
                /\ pins' = pins \ {p}
        /\ MainUnchanged /\ UNCHANGED stale

RequestCreationRefused(p) ==
    /\ Command
    /\ p \in (app.devices \cup {app.device}) \cap Fido2
    /\ app.devices # {}
    /\ app' = [app EXCEPT !.device = p]
    /\ MainUnchanged /\ UNCHANGED <<pins, stale>>

\* request_fido_key_deletion: the key stays listed, its session ends unless
\* the PIN may be reused.
RequestDeletion(k, requirePin) ==
    LET p == Home[k]
        task == [kind |-> "delete", key |-> k]
        reuse == ~requirePin /\ p \in pins
    IN  /\ Command
        /\ k \in app.keys
        /\ app.devices # {}
        /\ IF p \notin app.devices
           THEN app' = [app EXCEPT !.device = NoPath] /\ UNCHANGED pins
           ELSE IF reuse
           THEN /\ app' = [app EXCEPT !.device = p, !.phase = "WaitingForTouch",
                                      !.pending = task]
                /\ UNCHANGED pins
           ELSE /\ app' = Close(Ask(app, p, task), p)
                /\ pins' = pins \ {p}
        /\ MainUnchanged /\ UNCHANGED stale

\* A new key has a fingerprint that no key, no preference and no deletion in
\* progress has.
Fresh(k) ==
    k \notin hardware \cup disabled \cup app.keys \cup {op[o].key : o \in Ops}

\* create_secure_enclave_key: the Secure Enclave makes the key and its registry
\* entry, under `secure_enclave` alone.
CreateSEKey(k) ==
    /\ MainIdle /\ SEFree
    /\ Fresh(k)
    /\ hardware' = hardware \cup {k}
    /\ main' = [IdleMain EXCEPT !.pc = "created", !.key = k]
    /\ UNCHANGED <<app, pins, attached, disabled, flags, op, watcher,
                   locker, signer, stale>>

\* The new key is added without a look at what is listed.
CreateSEKeyInMemory ==
    /\ main.pc = "created" /\ AppFree
    /\ app' = [app EXCEPT !.keys = @ \cup {main.key},
                          !.enabled = @ \cup {main.key}, !.phase = "Ready"]
    /\ main' = IdleMain
    /\ UNCHANGED <<pins, attached, hardware, disabled, flags, op, watcher,
                   locker, signer, stale>>

\* set_key_enabled: the preference is written first, of a key that may be gone;
\* then the key in memory, if it is still there, follows.  `signing_gate` is
\* held over both.
SetKeyEnabled(k, on) ==
    /\ MainIdle /\ GateFree
    /\ disabled' = IF on THEN disabled \ {k} ELSE disabled \cup {k}
    /\ main' = [pc |-> "enabling", key |-> k, on |-> on]
    /\ UNCHANGED <<app, pins, attached, hardware, flags, op, watcher,
                   locker, signer, stale>>

SetKeyEnabledInMemory ==
    /\ main.pc = "enabling" /\ AppFree
    /\ app' = [app EXCEPT
                  !.enabled = IF main.on THEN @ \cup ({main.key} \cap app.keys)
                                         ELSE @ \ {main.key}]
    /\ main' = IdleMain
    /\ UNCHANGED <<pins, attached, hardware, disabled, flags, op, watcher,
                   locker, signer, stale>>

\* The second half of lock_fido_session: the sessions of all devices end.
LockedApp(a) ==
    [DropKeys(a, FidoKeys) EXCEPT
        !.sessionUnlocked = FALSE,
        !.unlocked = {},
        !.sequence = FALSE,
        !.phase = IF a.devices # {} THEN "NeedsPin" ELSE @]

\* set_agent_locked(true): under the gate, lock_fido_session and the flag.
LockAgent ==
    /\ MainIdle /\ GateFree
    /\ pins' = {}
    /\ main' = [IdleMain EXCEPT !.pc = "clearing"]
    /\ UNCHANGED <<app, attached, hardware, disabled, flags, op, watcher,
                   locker, signer, stale>>

LockAgentClear ==
    /\ main.pc = "clearing" /\ AppFree
    /\ app' = LockedApp(app)
    /\ main' = [IdleMain EXCEPT !.pc = "flagging"]
    /\ UNCHANGED <<pins, attached, hardware, disabled, flags, op, watcher,
                   locker, signer, stale>>

LockAgentFlag ==
    /\ main.pc = "flagging" /\ AppFree
    /\ app' = [app EXCEPT !.agentLocked = TRUE]
    /\ main' = IdleMain
    /\ UNCHANGED <<pins, attached, hardware, disabled, flags, op, watcher,
                   locker, signer, stale>>

\* set_agent_locked(false)
UnlockAgent ==
    /\ Command /\ GateFree
    /\ app' = [app EXCEPT !.agentLocked = FALSE]
    /\ MainUnchanged /\ UNCHANGED <<pins, stale>>

\* rename_key works on a copy of the key, its `enabled` flag included.
RenameKey(k) ==
    /\ Command
    /\ k \in app.keys
    /\ main' = [pc |-> "renameChosen", key |-> k, on |-> k \in app.enabled]
    /\ UNCHANGED <<app, pins, attached, hardware, disabled, flags, op,
                   watcher, locker, signer, stale>>

\* A FIDO2 key without a session to reuse: the rename waits for the PIN.
RenameAsksPin(requirePin) ==
    LET k == main.key
        p == Home[k]
    IN  /\ main.pc = "renameChosen" /\ AppFree
        /\ k \in FidoKeys
        /\ requirePin \/ p \notin pins
        /\ IF p \notin app.devices
           THEN app' = [app EXCEPT !.device = NoPath] /\ UNCHANGED pins
           ELSE /\ app' = Close(Ask(app, p, [kind |-> "rename", key |-> k]), p)
                /\ pins' = pins \ {p}
        /\ main' = IdleMain
        /\ UNCHANGED <<attached, hardware, disabled, flags, op, watcher,
                       locker, signer, stale>>

RenameLoads ==
    /\ main.pc = "renameChosen" /\ AppFree
    /\ main.key \in FidoKeys => Home[main.key] \in pins
    /\ app' = [app EXCEPT !.phase = "Loading"]
    /\ main' = [main EXCEPT !.pc = "renaming"]
    /\ UNCHANGED <<pins, attached, hardware, disabled, flags, op, watcher,
                   locker, signer, stale>>

\* The hardware or the registry accepts the new name; a Secure Enclave key is
\* then rebuilt from its registry entry, which makes it enabled.
RenameDone ==
    LET k == main.key
    IN  /\ main.pc = "renaming"
        /\ k \in hardware
        /\ k \in FidoKeys => FidoFree /\ Home[k] \in pins /\ Home[k] \in attached
        /\ k \in SEKeys => SEFree
        /\ main' = [main EXCEPT !.pc = "renamed", !.on = @ \/ k \in SEKeys]
        /\ UNCHANGED <<app, pins, attached, hardware, disabled, flags, op,
                       watcher, locker, signer, stale>>

RenameFails ==
    /\ main.pc = "renaming" /\ AppFree
    /\ app' = [app EXCEPT !.phase = "Ready"]
    /\ main' = IdleMain
    /\ UNCHANGED <<pins, attached, hardware, disabled, flags, op, watcher,
                   locker, signer, stale>>

\* The renamed copy is added even if its key has disappeared meanwhile.
RenamedAppAdded(k, on) ==
    [app EXCEPT !.phase = "Ready", !.keys = @ \cup {k},
                !.enabled = IF on THEN @ \cup {k} ELSE @ \ {k}]

\* The renamed copy replaces the key in memory.  A key that has disappeared
\* meanwhile is an early return that leaves the phase at Loading.
RenamedApp(k, on) ==
    IF k \notin app.keys THEN app
    ELSE [app EXCEPT !.phase = "Ready",
                     !.enabled = IF on THEN @ \cup {k} ELSE @ \ {k}]

RenameStored ==
    /\ main.pc = "renamed" /\ AppFree
    /\ app' = RenamedApp(main.key, main.on)
    /\ main' = IdleMain
    /\ UNCHANGED <<pins, attached, hardware, disabled, flags, op, watcher,
                   locker, signer, stale>>

-----------------------------------------------------------------------------
(* Asynchronous commands                                                   *)

OpStep(o, pc, new) == op[o].pc = pc /\ op' = [op EXCEPT ![o] = new]

OpUnchanged ==
    UNCHANGED <<attached, disabled, flags, main, watcher, locker, signer, stale>>

\* The user answers the PIN prompt, which shows the current device; the
\* command itself, load_keys(pin), does not name that device.
SubmitPin(o) ==
    /\ app.phase = "NeedsPin" \/ (app.phase = "Error" /\ app.devices # {})
    /\ app.device # NoPath
    /\ OpStep(o, "idle", [IdleOp EXCEPT !.pc = "submitted", !.pin = app.device])
    /\ OpUnchanged /\ UNCHANGED <<app, pins, hardware>>

\* continue_fido_operation reads the device, then its PIN, in two sections.
Continue(o) ==
    /\ AppFree
    /\ app.phase = "WaitingForTouch" /\ app.pending # NoTask
    /\ Targeted
    /\ OpStep(o, "idle", [IdleOp EXCEPT !.pc = "chosen", !.pin = app.device])
    /\ OpUnchanged /\ UNCHANGED <<app, pins, hardware>>

ContinueWithPin(o) ==
    /\ PinsFree
    /\ OpStep(o, "chosen",
              IF op[o].pin \in pins THEN [op[o] EXCEPT !.pc = "submitted"] ELSE IdleOp)
    /\ OpUnchanged /\ UNCHANGED <<app, pins, hardware>>

\* The key of a pending deletion or rename has to be in memory.
TaskFound == app.pending.kind \in {"delete", "rename"} => app.pending.key \in app.keys

\* The phase is set before the pending key is looked up.
RejectedPhaseTooEarly == [app EXCEPT !.phase = "Loading"]

\* An early return of perform_fido_operation leaves the AppState alone.
RejectedPhase == app

\* perform_fido_operation: the first section captures device and task.
Begin(o) ==
    /\ AppFree
    /\ IF Targeted /\ TaskFound
       THEN /\ OpStep(o, "submitted", [op[o] EXCEPT !.pc = "begun",
                          !.pin = NoPath, !.path = app.device, !.task = app.pending])
            /\ app' = [app EXCEPT
                  !.phase = IF app.pending.kind \in {"create", "delete"}
                            THEN "WaitingForTouch" ELSE "Loading"]
       ELSE OpStep(o, "submitted", IdleOp) /\ app' = RejectedPhase
    /\ OpUnchanged /\ UNCHANGED <<pins, hardware>>

\* A resident credential for a new key (fido::create); a credential of this very
\* device deleted, after a touch (fido::sign, fido::delete), or renamed.
Created(p) == {hardware \cup {k} : k \in {n \in KeysOn(p) : Fresh(n)}}
Deleted(k, p) == {hardware \ {d} : d \in {k} \cap KeysOn(p) \cap hardware}
Renamed(k, p) == {hardware : r \in {k} \cap KeysOn(p) \cap hardware}

\* What the task does to the keys that exist, if the device can do it.
Effects(task, p) ==
    CASE task.kind = "create" -> Created(p)
      [] task.kind = "delete" -> Deleted(task.key, p)
      [] task.kind = "rename" -> Renamed(task.key, p)
      [] OTHER -> {hardware}

\* fido::resident::load: the credentials on the device.
Resident(h, p) == h \cap KeysOn(p)

\* The blocking part, under `fido`: the task, then the list of resident keys.
\* It may fail before or after the task has taken effect.
Hardware(o) ==
    LET p == op[o].path
        done == IF p \in attached THEN Effects(op[o].task, p) ELSE {}
    IN  /\ FidoFree
        /\ \/ \E h \in done :
                /\ hardware' = h
                /\ OpStep(o, "begun", [op[o] EXCEPT !.pc = "loaded",
                                             !.keys = Resident(h, p)])
           \/ /\ UNCHANGED hardware
              /\ OpStep(o, "begun", [op[o] EXCEPT !.pc = "loaded", !.result = "invalid"])
           \/ /\ hardware' \in done \cup {hardware}
              /\ OpStep(o, "begun", [op[o] EXCEPT !.pc = "loaded", !.result = "failed"])
        /\ OpUnchanged /\ UNCHANGED <<app, pins>>

\* A failure to read the preferences is returned at once.
ApplyUnreported(o) ==
    /\ op[o].result = "ok"
    /\ \/ OpStep(o, "loaded", [op[o] EXCEPT !.pc = "applied",
                                  !.enabled = op[o].keys \ disabled])
       \/ OpStep(o, "loaded", IdleOp)
    /\ OpUnchanged /\ UNCHANGED <<app, pins, hardware>>

\* key_preferences::apply reads the file, with no mutex held; that, or the
\* start of the agent after it, may fail.
Apply(o) ==
    /\ op[o].result = "ok"
    /\ \/ OpStep(o, "loaded", [op[o] EXCEPT !.pc = "applied",
                                  !.enabled = op[o].keys \ disabled])
       \/ OpStep(o, "loaded", [op[o] EXCEPT !.result = "failed", !.keys = {}])
    /\ OpUnchanged /\ UNCHANGED <<app, pins, hardware>>

\* The last section of perform_fido_operation: the PIN is cached and the keys
\* of the device are replaced, whatever has happened to either meanwhile.
Merge(o) ==
    LET p == op[o].path
        b == DropKeys(app, KeysOn(p))
        a == [b EXCEPT !.keys = @ \cup op[o].keys, !.enabled = @ \cup op[o].enabled,
                       !.unlocked = @ \cup {p}]
        next == IF op[o].task = NoTask /\ a.sequence THEN First(LockedDevices(a))
                                                     ELSE NoPath
    IN  /\ AppFree
        /\ OpStep(o, "applied", IdleOp)
        /\ pins' = pins \cup {p}
        /\ app' = [a EXCEPT
                      !.device = IF next # NoPath THEN next ELSE Reselect(p),
                      !.phase = IF next # NoPath THEN "NeedsPin" ELSE "Ready",
                      !.sequence = @ /\ next # NoPath,
                      !.pending = NoTask,
                      !.sessionUnlocked = AllUnlocked(a)]
        /\ OpUnchanged /\ UNCHANGED hardware

\* A failure other than a wrong PIN clears the pending creation and, unless the
\* failed operation was one itself, a pending deletion or rename.
MergeFailed(o) ==
    LET p == op[o].path
        invalid == op[o].result = "invalid"
        keep == \/ invalid
                \/ app.pending.kind \in {"delete", "rename"} \cap {op[o].task.kind}
    IN  /\ AppFree
        /\ op[o].result # "ok"
        /\ OpStep(o, "loaded", IdleOp)
        /\ pins' = pins \ {p}
        /\ app' = [Close(app, p) EXCEPT
                      !.phase = IF invalid THEN "NeedsPin" ELSE "Error",
                      !.pending = IF keep THEN @ ELSE NoTask]
        /\ OpUnchanged /\ UNCHANGED hardware

\* delete_key: a Secure Enclave key; a FIDO2 key is refused.
DeleteKey(o, k) ==
    /\ AppFree
    /\ k \in app.keys
    /\ OpStep(o, "idle", [IdleOp EXCEPT !.pc = "deleting", !.key = k])
    /\ OpUnchanged /\ UNCHANGED <<app, pins, hardware>>

\* Touch ID, then the registry; refused, or the entry is already gone.
DeleteHardware(o) ==
    LET k == op[o].key
    IN  /\ SEFree
        /\ \/ /\ k \in hardware
              /\ OpStep(o, "deleting", [op[o] EXCEPT !.pc = "deleted"])
              /\ hardware' = hardware \ {k}
           \/ OpStep(o, "deleting", IdleOp) /\ UNCHANGED hardware
        /\ OpUnchanged /\ UNCHANGED <<app, pins>>

DeleteDone(o) ==
    /\ AppFree
    /\ OpStep(o, "deleted", IdleOp)
    /\ app' = [DropKeys(app, {op[o].key}) EXCEPT !.phase = "Ready"]
    /\ OpUnchanged /\ UNCHANGED <<pins, hardware>>

-----------------------------------------------------------------------------
(* The device watcher                                                      *)

WatcherUnchanged ==
    UNCHANGED <<attached, hardware, disabled, flags, main, op, locker,
                signer, stale>>

\* detect::yubikeys under `fido`: a known device is found as long as it is
\* attached, an unknown one if it can be opened; or the whole scan fails.
WatcherScan ==
    /\ watcher.pc = "idle" /\ FidoFree
    /\ \E found \in SUBSET attached :
          /\ attached \cap app.devices \subseteq found
          /\ watcher' = [pc |-> "found", found |-> found]
    /\ WatcherUnchanged /\ UNCHANGED <<app, pins>>

WatcherScanFails ==
    /\ watcher.pc = "idle" /\ FidoFree
    /\ watcher' = [IdleWatcher EXCEPT !.pc = "failed"]
    /\ WatcherUnchanged /\ UNCHANGED <<app, pins>>

\* A PIN window, an operation or a touch keeps its device.
InProgress ==
    \/ app.phase \in {"NeedsPin", "Loading", "WaitingForTouch"}
    \/ app.pending # NoTask

\* The device that becomes current: `new` is the first one just connected.
ActiveDevice(a, new) ==
    LET previous == {app.device} \cap a.devices
        choices == IF InProgress /\ previous # {} THEN <<previous>>
                   ELSE <<{new} \ {NoPath}, previous, LockedDevices(a),
                          a.devices \cap Fido2>>
        some == {i \in DOMAIN choices : choices[i] # {}}
    IN  IF some = {} THEN NoPath ELSE First(choices[First(some)])

\* prompt is prompt_pin_on_startup or prompt_pin_on_device_connection.
WatcherApply(prompt) ==
    LET found == watcher.found
        a == [DropKeys(app, {k \in FidoKeys : Home[k] \notin found}) EXCEPT
                 !.devices = found,
                 !.unlocked = StillConnected(@, found)]
        new == First((found \cap Fido2) \ app.devices)
        ask == new # NoPath /\ prompt /\ flags = {} /\ ~InProgress
    IN  /\ watcher.pc = "found" /\ AppFree
        /\ watcher' = IdleWatcher
        /\ pins' = StillConnected(pins, found)
        /\ app' = [a EXCEPT
                      !.device = ActiveDevice(a, new),
                      !.sessionUnlocked = found # {} /\ AllUnlocked(a),
                      !.sequence = @ \/ ask,
                      !.phase = IF InProgress THEN @
                                ELSE IF ask THEN "NeedsPin"
                                ELSE IF found # {} \/ a.keys # {}
                                THEN "Ready" ELSE "WaitingForDevice"]
        /\ WatcherUnchanged

\* A failed scan matters only while no device is connected.
WatcherApplyFailure ==
    /\ watcher.pc = "failed" /\ AppFree
    /\ watcher' = IdleWatcher
    /\ app' = IF app.devices # {} THEN app ELSE [app EXCEPT !.phase = "Error"]
    /\ WatcherUnchanged /\ UNCHANGED pins

-----------------------------------------------------------------------------
(* The auto-lock thread and the lifecycle thread                           *)

LockerStep(w, from, to) ==
    /\ locker[w] = from
    /\ locker' = [locker EXCEPT ![w] = to]
    /\ UNCHANGED <<attached, hardware, disabled, main, op, watcher, signer>>

\* No FIDO2 activity for auto_lock_minutes, at any time as far as this model
\* knows: the first half of lock_fido_session.
AutoLock ==
    /\ PinsFree
    /\ LockerStep("autolock", "idle", "clearApp")
    /\ pins' = {}
    /\ UNCHANGED <<app, flags, stale>>

\* deactivate: of several flags only the first one locks.
Deactivate(f) ==
    /\ locker["lifecycle"] = "idle"
    /\ flags' = flags \cup {f}
    /\ IF flags = {}
       THEN LockerStep("lifecycle", "idle", "clearPending") /\ BumpGeneration
       ELSE LockerStep("lifecycle", "idle", "idle") /\ UNCHANGED stale
    /\ UNCHANGED <<app, pins>>

DeactivateClearsPending ==
    /\ AppFree
    /\ LockerStep("lifecycle", "clearPending", "clearPins")
    /\ app' = [app EXCEPT !.pending = NoTask]
    /\ UNCHANGED <<pins, flags, stale>>

DeactivateClearsPins ==
    /\ PinsFree
    /\ LockerStep("lifecycle", "clearPins", "clearApp")
    /\ pins' = {}
    /\ UNCHANGED <<app, flags, stale>>

\* The second half of lock_fido_session.
LockerClearsApp(w) ==
    /\ AppFree
    /\ LockerStep(w, "clearApp", "idle")
    /\ app' = LockedApp(app)
    /\ UNCHANGED <<pins, flags, stale>>

\* reactivate: only the last flag recovers.
Reactivate(f) ==
    /\ f \in flags
    /\ flags' = flags \ {f}
    /\ LockerStep("lifecycle", "idle", IF flags = {f} THEN "recover" ELSE "idle")
    /\ UNCHANGED <<app, pins, stale>>

\* The agent is healthy or has been started again.
Recover(prompt) ==
    /\ AppFree
    /\ LockerStep("lifecycle", "recover", "idle")
    /\ app' = IF app.devices # {} /\ ~app.sessionUnlocked
              THEN [app EXCEPT !.device = First(app.devices \cap Fido2),
                               !.phase = "NeedsPin", !.sequence = @ \/ prompt]
              ELSE [app EXCEPT !.phase = IF app.keys # {} THEN "Ready" ELSE @]
    /\ UNCHANGED <<pins, flags, stale>>

RecoverFails ==
    /\ AppFree
    /\ LockerStep("lifecycle", "recover", "idle")
    /\ app' = [app EXCEPT !.phase = "Error"]
    /\ UNCHANGED <<pins, flags, stale>>

-----------------------------------------------------------------------------
(* Signature requests                                                      *)

SignStep(t, from, new) ==
    /\ signer[t].pc = from
    /\ signer' = [signer EXCEPT ![t] = new]
    /\ UNCHANGED <<attached, hardware, disabled, flags, main, op, watcher, locker>>

SignRequest(t, k) ==
    /\ AppFree
    /\ ~app.agentLocked
    /\ SignStep(t, "idle", [IdleSigner EXCEPT !.pc = "checked", !.key = k])
    /\ UNCHANGED <<app, pins, stale>>

\* The prompt is put up before the key is looked for.
SignFindPromptFirst(t) ==
    LET k == signer[t].key
        to(new) == SignStep(t, "checked", new)
    IN  /\ signer[t].pc = "checked" /\ AppFree
        /\ app' = IF k \in SEKeys THEN app
                  ELSE [app EXCEPT !.device = Reselect(Home[k]),
                                   !.phase = IF Home[k] \in pins THEN "WaitingForTouch"
                                                                  ELSE "NeedsPin"]
        /\ \/ k \in app.enabled /\ to([signer[t] EXCEPT !.pc = "found"]) /\ UNCHANGED stale
           \/ k \notin app.enabled /\ to(IdleSigner) /\ stale' = stale \ {t}
        /\ UNCHANGED pins

\* find_key, and for a FIDO2 key the prompt: it takes over device and phase.
SignFind(t) ==
    LET k == signer[t].key
    IN  /\ AppFree
        /\ IF k \in app.enabled
           THEN /\ SignStep(t, "checked", [signer[t] EXCEPT !.pc = "found"])
                /\ app' = IF k \in SEKeys THEN app
                          ELSE [app EXCEPT
                                  !.device = Reselect(Home[k]),
                                  !.phase = IF Home[k] \in pins
                                            THEN "WaitingForTouch" ELSE "NeedsPin"]
                /\ UNCHANGED stale
           ELSE /\ SignStep(t, "checked", IdleSigner)
                /\ stale' = stale \ {t}
                /\ UNCHANGED app
        /\ UNCHANGED pins

\* provider::sign up to the hardware: fido or secure_enclave, the gate, the PIN,
\* then authorize() under `app`.
Authorize(t) ==
    LET k == signer[t].key
        hasPin == k \in FidoKeys => Home[k] \in pins
        to(pc, result) == SignStep(t, "found",
                             [signer[t] EXCEPT !.pc = pc, !.result = result])
    IN  /\ GateFree
        /\ k \in FidoKeys => FidoFree /\ PinsFree
        /\ k \in SEKeys => SEFree
        /\ \/ ~hasPin /\ to("done", "needsPin")
           \/ hasPin /\ AppFree /\ ~MayUse(k) /\ to("done", "failed")
           \/ hasPin /\ AppFree /\ MayUse(k) /\ to("signing", "none")
        /\ UNCHANGED <<app, pins, stale>>

\* The touch, or Touch ID, with all the guards held.
SignHardware(t) ==
    LET k == signer[t].key
        to(result) == SignStep(t, "signing",
                         [signer[t] EXCEPT !.pc = "done", !.result = result])
    IN  /\ \/ /\ k \in hardware
              /\ k \in FidoKeys => Home[k] \in attached
              /\ to("ok")
           \/ to("failed")
        /\ UNCHANGED <<app, pins, stale>>

\* The end of sign_request sets the phase, whoever has set it in between.
SignFinish(t) ==
    LET r == signer[t].result
        fido == signer[t].key \in FidoKeys
    IN  /\ AppFree
        /\ SignStep(t, "done", IdleSigner)
        /\ app' = [app EXCEPT
                      !.phase = IF ~fido THEN IF r = "ok" THEN @ ELSE "Error"
                                ELSE IF r = "needsPin" THEN "NeedsPin"
                                ELSE IF r = "ok" \/ t \in stale THEN "Ready"
                                ELSE "Error"]
        /\ stale' = stale \ {t}
        /\ UNCHANGED pins

-----------------------------------------------------------------------------
(* The specification                                                       *)

Present == flags = {} \/ "away" \in Inputs

Environment == \E p \in Paths : Plug(p) \/ Unplug(p)

UserCommand ==
    \/ /\ "unlock" \in Inputs
       /\ RequestUnlock \/ \E p \in Paths : RequestDeviceUnlock(p)
    \/ "dismiss" \in Inputs /\ DismissAuth
    \/ "reload" \in Inputs /\ TrayReload
    \/ /\ "create" \in Inputs
       /\ \E p \in Paths :
             \/ RequestCreationRefused(p)
             \/ \E requirePin \in BOOLEAN : RequestCreation(p, requirePin)
    \/ /\ "delete" \in Inputs
       /\ \E k \in FidoKeys, requirePin \in BOOLEAN : RequestDeletion(k, requirePin)
    \/ "rename" \in Inputs /\ \E k \in Keys : RenameKey(k)
    \/ "enclave" \in Inputs /\ \E k \in SEKeys : CreateSEKey(k)
    \/ /\ "enable" \in Inputs
       /\ \E k \in Keys, on \in BOOLEAN : SetKeyEnabled(k, on)
    \/ "lock" \in Inputs /\ (LockAgent \/ UnlockAgent)

\* The later sections of a synchronous command.
MainStep ==
    \/ CreateSEKeyInMemory
    \/ SetKeyEnabledInMemory \/ LockAgentClear \/ LockAgentFlag
    \/ RenameLoads \/ RenameDone \/ RenameFails \/ RenameStored
    \/ \E requirePin \in BOOLEAN : RenameAsksPin(requirePin)

AsyncCommand(o) ==
    \/ SubmitPin(o)
    \/ Continue(o)
    \/ "enclave" \in Inputs /\ \E k \in SEKeys : DeleteKey(o, k)

AsyncStep(o) ==
    \/ ContinueWithPin(o) \/ Begin(o) \/ Hardware(o) \/ Apply(o)
    \/ Merge(o) \/ MergeFailed(o)
    \/ DeleteHardware(o) \/ DeleteDone(o)

WatcherStep ==
    \/ "badScan" \in Inputs /\ WatcherScanFails
    \/ WatcherApplyFailure
    \/ WatcherScan
    \/ \E prompt \in BOOLEAN : WatcherApply(prompt)

LockerEvent ==
    \/ "autolock" \in Inputs /\ AutoLock
    \/ \E f \in Flags : Deactivate(f) \/ Reactivate(f)

LockerSection ==
    \/ DeactivateClearsPending \/ DeactivateClearsPins
    \/ \E w \in Lockers : LockerClearsApp(w)
    \/ \E prompt \in BOOLEAN : Recover(prompt)
    \/ RecoverFails

SignerStep(t) == SignFind(t) \/ Authorize(t) \/ SignHardware(t) \/ SignFinish(t)

Next ==
    \/ Environment
    \/ Present /\ UserCommand
    \/ MainStep
    \/ \E o \in Ops : (Present /\ AsyncCommand(o)) \/ AsyncStep(o)
    \/ WatcherStep
    \/ LockerEvent \/ LockerSection
    \/ \E t \in Signers : SignerStep(t) \/ \E k \in Keys : SignRequest(t, k)

Spec == Init /\ [][Next]_vars

(* Fairness: a thread that can go on does, the hardware answers a touch request
   (at the latest with its timeout), and the watcher, which tries for the mutexes
   every 900 ms for ever, gets them at some time. *)
Fairness ==
    /\ WF_vars(MainStep)
    /\ \A o \in Ops : WF_vars(AsyncStep(o))
    /\ WF_vars(LockerSection)
    /\ \A t \in Signers : WF_vars(SignerStep(t))
    /\ SF_vars(WatcherScan)
    /\ SF_vars(\E prompt \in BOOLEAN : WatcherApply(prompt))

LiveSpec == Spec /\ Fairness

-----------------------------------------------------------------------------
(* Properties                                                              *)

\* Every variable has its type; an enabled key is a key in memory, an
\* operation on the hardware has a device (perform_fido_operation returns
\* early when the device is gone), and a creation in progress has a Secure
\* Enclave key.
TypeOK ==
    /\ app \in AppState
    /\ app.enabled \subseteq app.keys
    /\ pins \subseteq Paths
    /\ attached \subseteq Paths
    /\ hardware \subseteq Keys
    /\ disabled \subseteq Keys
    /\ flags \subseteq Flags
    /\ main \in MainState
    /\ main.pc = "created" => main.key \in SEKeys
    /\ op \in [Ops -> OpState]
    /\ \A o \in Ops :
          /\ op[o].pc \in {"begun", "loaded", "applied"} => op[o].path \in Paths
          /\ op[o].enabled \subseteq IF op[o].pc = "applied" THEN op[o].keys ELSE {}
    /\ watcher \in WatcherState
    /\ locker \in [Lockers -> LockerSteps]
    /\ signer \in [Signers -> SignerState]
    /\ stale \subseteq Signers

\* Whenever the hardware is asked for a signature, the agent is unlocked, the
\* key is loaded and enabled, and for a FIDO2 key the PIN of its device is
\* cached, although lock, disable, unplug and auto-lock run on other threads
\* (provider::sign, authorize).
SigningAuthorized ==
    \A t \in SigningNow :
        /\ ~app.agentLocked
        /\ signer[t].key \in app.enabled
        /\ signer[t].key \in FidoKeys => Home[signer[t].key] \in pins

\* A thread is between the two halves of lock_fido_session.
Clearing == main.pc = "clearing" \/ \E w \in Lockers : locker[w] = "clearApp"

\* A device counts as unlocked only while its PIN is cached, except between
\* the two halves of a lock (unlocked_device_paths and pins are updated by six
\* handlers on five threads).
UnlockedHasPin == app.unlocked \subseteq pins \/ Clearing

\* The session is reported unlocked only if every connected FIDO2 device is
\* (fido_session_unlocked is a cache of that condition).
SessionFlagSound ==
    app.sessionUnlocked => app.devices \cap Fido2 \subseteq app.unlocked

\* The current device is one of the connected devices: a prompt never names a
\* device the watcher has dropped.
TargetConnected == app.device \in app.devices \cup {NoPath}

\* "Loading" is shown only while an operation or a rename is at work, so that it
\* always ends (set by perform_fido_operation and by rename_key).  An identity
\* that disappears while it is renamed breaks this, see RenameStored.
LoadingHasOperation ==
    app.phase = "Loading" =>
        \/ \E o \in Ops : op[o].pc \in {"begun", "loaded", "applied"}
        \/ main.pc \in {"renaming", "renamed"}

\* "Loading" is left behind by one kind of step only: the end of a rename whose
\* key has disappeared meanwhile.  No operation, failure, dismissal, lock or
\* unplugged device leaves it (perform_fido_operation, rename_key).
LoadingIsLostByRename ==
    [][LoadingHasOperation /\ ~LoadingHasOperation'
          => RenameStored /\ main.key \notin app.keys]_vars

\* A touch is asked for only while somebody waits for one or the user has still
\* to continue: an operation, a signature request, or a pending task
\* (sign_request, the request_fido_key_* commands and perform_fido_operation set
\* the phase, and each of them clears what the others have set).
TouchIsAwaited ==
    app.phase = "WaitingForTouch" =>
        \/ app.pending # NoTask
        \/ \E o \in Ops : op[o].pc \in {"begun", "loaded", "applied"}
        \/ \E t \in Signers : signer[t].pc \in {"found", "signing", "done"}

\* Loading ends without any help of the user, whatever is unplugged or locked
\* meanwhile (every way out of perform_fido_operation, early return or error,
\* takes it back).  Renames are excepted: rename_key returns early when its key
\* has disappeared and leaves Loading behind, see RenamedApp; the inputs of the
\* run that checks this property have no rename.
LoadingEnds == (app.phase = "Loading") ~> (app.phase # "Loading")

\* The key of a creation that has reached the registry and not yet the list, and
\* the keys of deletions as far.
BeingCreated == {k \in {main.key} : main.pc = "created"}
BeingDeleted == {k \in SEKeys : \E o \in Ops : op[o].pc = "deleted" /\ op[o].key = k}

\* A Secure Enclave key is listed exactly as long as its registry entry exists,
\* with two exceptions: a creation enters it in the registry before the list, a
\* deletion removes it from the registry before the list.  Renames, creations
\* and several deletions, also of one key, overlap (create_secure_enclave_key,
\* rename_key, delete_key).
EnclaveKeysListed ==
    app.keys \cap SEKeys =
        ((hardware \cap SEKeys) \ BeingCreated) \cup (BeingDeleted \cap app.keys)

\* The PIN and the keys of a device that stays unplugged are forgotten in the
\* end, even if an operation that was in progress has cached them again
\* (watcher::start purges, perform_fido_operation inserts).
UnpluggedIsForgotten ==
    \A p \in Paths :
        <>[](p \notin attached) =>
            <>[](p \notin pins /\ p \notin app.unlocked /\ KeysOn(p) \cap app.keys = {})

\* "FIDO2 PINs are wiped automatically", "Always on": no PIN is cached once the
\* lifecycle thread has handled a screen lock, sleep or user switch.
LockedScreenHasNoPins == flags # {} /\ locker["lifecycle"] = "idle" => pins = {}

\* "Disable this identity without removing it from hardware.": between commands a
\* key that the preferences disable is not available to clients.
DisabledStaysDisabled == main = IdleMain => app.enabled \cap disabled = {}

\* The promise of module SigningAuthority: what clients may use, and what the
\* hardware signs with.
Authority == INSTANCE SigningAuthority WITH
    available <- IF app.agentLocked THEN {} ELSE app.enabled,
    signing <- [t \in Signers |-> IF signer[t].pc = "signing" THEN signer[t].key
                                                           ELSE NoKey]

\* Every behaviour of the session is one of SigningAuthority: what clients may
\* use does not change while a signature is being made.
ImplementsAuthority == Authority!Spec
=============================================================================
