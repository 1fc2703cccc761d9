# Keynoxis in TLA+

A verification project for [Keynoxis](../src), a macOS menu-bar application that
serves SSH keys held in FIDO2 security keys and in the Secure Enclave through an
SSH agent socket.  The modules translate the Rust code under
`src/src-tauri/src`; PROJECT.json names, for every definition, the lines it
stands for.

What makes this program worth a model is that half a dozen threads share one
`AppState` and one table of cached PINs, wait for hardware and for people while
they hold mutexes, and copy state out before a wait that they write back after it.

## 1. Inventory

Paths are relative to `src/src-tauri/src`.

| Component | State it keeps | Operations | What is hard | What must hold |
|---|---|---|---|---|
| Session (`state/mod.rs`, `ipc/commands.rs`) | `AppState`: phase, devices, current device, unlocked paths, keys, pending tasks, `fido_session_unlocked`, `agent_locked`; the PIN table | 23 commands, 14 of which change it; tray menu | seven writers on five kinds of thread; PINs and state have different mutexes | unlocked implies cached PIN; the cached flag and the current device are truthful; "Loading" ends |
| FIDO2 operation (`perform_fido_operation`, `fido/`) | a copy of path, PIN and task | unlock, list, create, delete, rename | blocking hardware between reading the state and writing it back; failing halves | what is written back is still true |
| Device watcher (`device/`) | devices and unlocked paths | scan every 900 ms, purge, prompt | races with operations; scans that fail | an unplugged device is forgotten |
| Auto-lock and lifecycle (`settings.rs`, `lifecycle.rs`) | a word of flags; nothing else | lock_fido_session, deactivate, reactivate | clears PINs and state in two sections | after a screen lock nothing is cached |
| Signing (`agent/server.rs`, `provider/`) | the guards of `authorize`; dismiss generation | find key, prompt, authorize, sign, report | authorization must outlive the touch; one thread per connection | only an enabled key of an unlocked agent signs |
| Session binding (`agent/server.rs`) | `ConnectionContext` of one connection | bind message, sign gate | sequences of malformed and repeated messages | a forwarded or failed connection never signs |
| Mutexes (`RuntimeState`) | seven mutexes | every handler | nesting, guards that live too long | no circular wait |
| Agent socket (`agent/start.rs`) | socket file, listener, recorded inode | start, recover, drop | pathname used three times; crashes; two processes | the agent is reachable; nobody else's file is removed |
| Connections (`agent/start.rs`, `serve`) | accept loop, stop flag, permits, one thread per connection | accept, refuse, read, reply, time out, release | threads outlive their agent; clients that hang | no permit is lost; nobody keeps a place for ever |
| Wire protocol (`agent/`) | none | framing, DER | pure encodings | not modelled |
| OpenSSH integration (`agent/integration.rs`) | `~/.ssh/config`, `keynoxis.conf`, `yubiagent.conf` | install: fill, migrate, remove the former file | a crash anywhere; the user edits the same file | the user's lines stay; OpenSSH is never cut off |
| Activity log (`activity.rs`) | a list, an atomic counter, `activity.json` | record, clear, initialize | the counter is taken outside the mutex; failed writes; restarts | fresh identifiers; what was cleared is gone |
| Secure Enclave registry and key preferences (`secure_enclave.rs`, `key_preferences.rs`) | `secure-enclave-keys.json`, `key-preferences.json`, the keys in memory | create, rename, delete, enable, disable, load | whole-file rewrites by several threads; memory follows late | no reported key is lost; memory and files agree |
| Settings (`settings.rs`) | `settings.json`, `device-labels.json`, a keychain item, atomics | load, save, three groups of settings, names | three copies, of which the preferred one may be out of reach | nothing is weakened without consent; what is saved stays saved |
| Front end (`src/src/`) | Vue state | shows phases, submits PINs | commands may come in any order | only as a source of commands |
| FFI, Swift bridge, build | none | | | not modelled |

Interactions.  The front end and the tray call commands on the main thread; the
asynchronous ones (`load_keys`, `continue_fido_operation`, `delete_key`) run on a
worker.  The watcher, the auto-lock timer and the lifecycle thread run for the
whole life of the process, and the agent starts one thread per connection.  All of them
meet in `RuntimeState`: `app`, `pins`, `fido`, `secure_enclave`, `signing_gate`,
`agent`, `activity`.  PROJECT.json lists the hazards of these interactions line by
line, with the property that would notice each one.

## 2. Modules

| Modules | Proofs | Checked through |
|---|---|---|
| Session, which implements SigningAuthority | SessionProofs, SessionSigningProofs, SigningAuthorityProofs | MCSession |
| Locks | LocksProofs | MCLocks |
| SessionBind, AgentConnections | ConnectionsProofs | MCConnections |
| AgentSocket | FilesProofs | MCFiles, MCAgentSocket |
| Activity | FilesProofs | MCFiles |
| SSHConfig | FilesProofs | MCFiles |
| EnclaveStore, which implements KeyTable | EnclaveStoreProofs | MCFiles |
| Settings | SettingsProofs | MCFiles, MCSettings |

**Session** is the core.  One action is one critical section of `app` (with the
`pins` section nested in it where the code nests it), one hardware access or one
file update.  `app` is the record `AppState`; `pins` the paths with a cached PIN;
`hardware` and `attached` the world outside.  Per thread, a program counter says
between which two sections it is and which values it carries across:

| Thread | Variable | Sections |
|---|---|---|
| main: synchronous commands, tray | `main` | most commands are one action; `set_key_enabled` writes the preference and then memory, `create_secure_enclave_key` the registry under `secure_enclave` and then the list under `app`, `set_agent_locked` clears and then sets the flag, `rename_key` has its hardware access in between |
| `load_keys`, `continue_fido_operation`, `delete_key` | `op[o]` | `SubmitPin`/`Continue` -> `Begin` -> `Hardware` -> `Apply` -> `Merge` or `MergeFailed`; `DeleteKey` -> `DeleteHardware` -> `DeleteDone` |
| device watcher | `watcher` | `WatcherScan` under `fido`, then `WatcherApply` under `app` |
| auto-lock, lifecycle | `locker[w]` | pending tasks, PINs, state; recovery |
| SSH connections | `signer[t]` | checked -> found -> signing -> done; `signing` holds `app` and the gate, as `authorize` does |

`stale` holds the requests whose `auth_dismiss_generation` has moved on.

**SigningAuthority** is what a client may rely on: a set of available identities
and, per connection, a signature in progress; signing takes an available
identity, only one signature is in progress, and availability does not change
meanwhile.  `Session!ImplementsAuthority` maps available to the enabled keys of an
unlocked agent.

**SessionBind** is one connection of the agent: the list of OpenSSH session
bindings, its two failure flags and the gate of `sign_request`.  The outcome of
parsing and verifying a message is an input.

**Locks** reduces every handler to the script of mutexes it takes and drops,
with early returns anywhere.  It justifies what Session assumes: that a thread
inside a critical section comes out of it.

**AgentConnections** is the accept loop of each agent, its limiter and the
thread of each connection, from the kernel's backlog to the release of its permit.  The
stop flag is looked at only between two rounds of the loop, so that a connection may
still be accepted after `Agent::drop` has begun; the threads of a dropped
agent go on beside those of the next one, which has a limiter of its own.

**AgentSocket** is the pathname of the socket, step by system call: start,
recovery, orderly end, crash and, with the constant `Tampering`, other people's hands.

**Activity** cuts `record` in two: the identifier comes from an atomic counter, the rest
is done under the mutex.  `persist` writes all of the list or fails; `Restart` may
come anywhere and may find a file that it cannot read.

**EnclaveStore** follows a command through `want` (called, waiting for the mutex
`secure_enclave`), `write` (registry read and edited) and `merge` (registry written,
`AppState.keys` not yet).  Creating, renaming and `set_key_enabled` are the main
thread's; deletions run on workers and overlap with it and with each other.
**KeyTable** is what the registry promises: a table that changes by one addition, one
new name or one removal, with distinct names, in which no removed key comes
back.  Writing the whole file from a copy implements it only because
reading and writing are one section of the mutex.

**Settings** keeps the three copies apart: the files, the keychain item `policy`
and the atomics `effective`.  `Load` prefers the keychain and rewrites the file; a
command loads, is perhaps authorized, writes the file (which must succeed) and then the
keychain (which need not).  `access` says whether the item can be read; without it a write
fails, and with `WritesFail` it may fail also where the item can be read.
Four variables are history.  `waived` is what the user has agreed to give up and
`promised` what the user may expect to find; `missed` names what the item has missed a
change of, and `drifted` the protections given up in effect while the item could not be
written.  SettingsAssumption
says that the flags of the two groups and the timeout are different fields, as they are in
the code.

**SSHConfig** has one action per file access of `install`.  A line is one of the
user's, our include, the include of the former name, or blank, and `Migrated` is
`migrated_config` on such lines.  Two variables are history: `raced` is set by an edit
between the reading of the configuration and the end of the install, and `written` is
what the user has saved last or, once an install has overwritten an edit, what it has put back.

**MCFiles** puts the five modules that keep files side by side, and **MCConnections** the
two about connections: a behaviour belongs to the module that the
variable `part` names.  They share no state, so that such a run checks each of
them as if it were alone.

Abstractions that are the same everywhere: names, labels, error texts, activity
entries and window visibility are left out; the three `pending_*` fields are one
variable, since each command that sets one clears the others; PINs are
identified with the device they were entered for, right or wrong being a result of the
hardware; the length of the auto-lock timeout is dropped, so the timer may
fire at any moment.  Settings that only choose between two branches
(`require_pin...`, `prompt_pin_on_...`) are free in each step.

## 3. Runs

| Run | Question | Result |
|---|---|---|
| Connections | Can a sequence of bind messages open the gate or break the chain?  Is a permit ever lost, a hung client ever kept? | neither; the last is liveness |
| SessionPrompts | Are the session flag, the prompt's device "Loading" and the touch window truthful while prompts, creations, deletions and dismissals race with the watcher, whose scans may fail? | holds; two devices, one key, one operation |
| SessionSigning | Is every signature authorized until its end, is every touch asked for awaited, and does the session implement SigningAuthority? | holds; two connections, both kinds of key |
| SessionKeys | Do memory and registry agree, but for the key that is being created or deleted, while Secure Enclave keys are created, renamed, deleted and disabled?  Is the end of a rename the only step that loses "Loading"? | holds; two keys, one operation |
| SessionUnplug | Does UnlockedHasPin survive unplugging, auto-lock and lifecycle events, is an unplugged device forgotten in the end, and does the "Loading" of an operation end? | holds; the last two are liveness, under `LiveSpec`; no renames, which may lose "Loading" |
| SessionScreenLock | "FIDO2 PINs are wiped automatically" on lock and sleep | **violated** |
| SessionDisabled | "Disable this identity without removing it from hardware" | **violated** |
| Locks | Is a circular wait reachable without the FIDO2 signature? | no |
| LocksSigning | And with it? | **yes** |
| Files | What do failed writes, crashes, restarts, overlapping threads and other writers do to the socket, the log, the registry, the settings and the OpenSSH configuration? | 19 properties hold, with the exceptions named below |
| AgentSocketTakeover | "Remove only the socket inode we created" | **violated** |
| SettingsKeychain | "Preserve the ... local copy instead of silently resetting values" | **violated** |

What Files shows, part by part:

* *socket*: a running agent is reachable unless somebody else moves the file
  (RunningIsReachable); an orderly end leaves no dead file (EndsTidy).
* *activity*: identifiers are distinct within a run (IdsDistinctInRun) and, as long as the
  list is in their order, fresh after restarts, truncations and failed
  writes (FreshIds); a cleared entry stays gone (ClearedIsGone).
* *enclave*: a key reported as created stays in the registry (ReportedIsKept), the
  registry implements KeyTable, memory agrees with it once every change of a
  key is merged (MemoryMatchesRegistry), and a key shown as disabled is disabled on disk
  (DisabledIsStored).
* *settings*: no default protection is weaker, in effect or on disk, than the user
  has agreed to (WaivedOnly), and none that the window shows is off (ShownIsEnforced), with
  two exceptions: a command between the writing of the file and its end, and what has
  `drifted` (section 4).  What was acknowledged survives, unless the keychain item has missed
  a change of it (AcknowledgedSurvives).
* *config*: the user's lines stay (UserLinesKept), except for an edit between the reading and the
  writing of an install that has something to change; one migration is enough
  (MigrationIsStable); and no step of an install takes the agent from OpenSSH
  (NeverDisconnects), with two exceptions: the rewriting of `keynoxis.conf` itself, and the
  removal of the former file after the user has included it again in the course of that install.

### Bounds

* `MaxPath` is 2 where devices are compared with each other (which one a prompt
  targets, whether *all* are unlocked) and 1 elsewhere; `Inputs` names the groups of commands
  a run allows, so that each run is a slice through the same module and together
  they reach every action.  No slice weakens a guard: leaving a group out only
  leaves its commands out.
* `Ops = {o1}`: one worker at a time is enough to race with the main thread, the
  watcher, the timers and the connections.  Two operations exclude each other
  during the hardware access by `fido`; that two of them overlap outside of it is left
  to the proofs, which have any number.
* `SEKeys` has two keys in SessionKeys, so that the creation of one overlaps with the deletion of
  the other, and one elsewhere.
* `Signers` has two connections for signing, none where no property is about them.
* `MaxBindings = 3` and four sessions are enough for a list that is empty,
  partly filled, full, and asked for one more.  `Clients` has three for a `Limit` of
  two, so that one is always too many, and `MaxAgents = 2` lets an agent be replaced while
  connections of the first are still served.
* `MaxInodes` bounds how many socket files are ever created: 5 (in Files) allows a start, a
  replacement by somebody else, a crash and two recoveries.  `Overlap = FALSE` is
  the normal case of one process at a time, among people who touch the file (`Tampering`).  The
  takeover run has it the other way round: processes overlap and nobody else is there, so that its
  trace is that of two processes.
* `MaxEntries = 2`, `MaxId = 3`, `MaxRuns = 3`: the list is truncated, two
  restarts follow each other, and an identifier can come again.
* Two Secure Enclave keys, two names and two deleters: enough for a name that is taken, an edit
  between another's reading and writing, and three commands at once.  Restarts are not bounded.
* One flag of `PinSettings` and one of `TouchIdSettings`, both on by default, and three
  timeouts (never, the default, a longer one): the code treats the flags of a group
  alike.  In Files a write to the keychain may fail at any time (`WritesFail`).  SettingsKeychain
  adds a flag that is off by default and does without such failures, so that its trace needs the
  item to be out of reach.
* `MaxLines = 3` and `MaxEdits = 1`: every configuration of up to three lines, before
  and after the user's edit.
* `Handlers` in the Locks runs is all handlers but the auto-lock timer and the
  FIDO2 signature (`MostHandlers`), or signing beside prompts.  The theorem has all but the signature.

`CHECK_DEADLOCK FALSE` is used only for AgentSocketTakeover, where the bound on
inodes may stop everything (with the larger one of Files a process can always go on); in the Locks runs an early return is always possible,
so that it is NoCircularWait, not TLC's deadlock check, that finds waiting.

### Fairness

`LiveSpec` gives weak fairness to each thread's own next section (the
scheduler runs every thread, and the hardware answers a touch request, at the latest
with libfido2's timeout) and strong fairness to the watcher's scan and update,
which need mutexes that others take again and again: the watcher retries every
900 ms for ever.  Users, clients, timers and lifecycle events are not fair.
LoadingEnds needs the worker's and the main thread's fairness only.  These assumptions presuppose that no thread waits for ever for a mutex, which
is what LocksSigning refutes for FIDO2 signatures beside prompts; SessionUnplug
has no signers.

`ConnFairness` is weak fairness of each accept loop and of each serving thread:
the loop never waits for anything but its sleep, reads and writes have a
time-out of 120 seconds (`server.rs:52-57`), and a request is answered, again presupposing that
no mutex is waited for in vain.  Clients owe nothing; `FallSilent` is a client that hangs.

## 4. Findings

1. **A PIN survives the screen lock** (SessionScreenLock).  An operation that is waiting for its
   device when `deactivate` clears the PINs writes its PIN and keys back
   afterwards (`ipc/commands.rs:493`).  The front end says that macOS lock and sleep wipe
   PINs always.
2. **Renaming enables a disabled key** (SessionDisabled).  `rename_key` writes back a key built
   with `enabled: true` while `key-preferences.json` still disables it
   (`secure_enclave.rs`, `ipc/commands.rs:946`).
3. **A FIDO2 signature and a PIN prompt can wait for each other for ever**
   (LocksSigning).  `sign_with_fido2` holds `pins` and then takes `app` in `authorize`
   (`provider/mod.rs:54-58`); prompts, the watcher and `sign_request` itself take
   `pins` inside `app`.
4. **Drop may remove another process's socket** (AgentSocketTakeover).  The inode is
   compared, then the pathname is removed (`agent/start.rs:77-83`).  In between a newer process
   takes the pathname over, unlinking the file and binding its own, and it is this one that is removed.
5. **A saved setting is undone** (SettingsKeychain).  While the keychain item is out
   of reach a change goes to `settings.json` alone and is reported as saved; when the
   item can be read again, `load` takes its older settings and writes them over the file
   (`settings.rs:128`).  WaivedOnly still holds: only what the user once agreed to returns.

Observations that no document contradicts, modelled without a run of their own:

* A FIDO2 identity that disappears while it is renamed leaves the phase at "Loading"
  (`ipc/commands.rs:945`, action `RenameStored` with `RenamedApp`).  LoadingIsLostByRename
  is checked (SessionKeys) and proved (OnlyRenameLosesLoading): no other step does.
* `deactivate` clears the pending task but not the phase (`lifecycle.rs:80`); if the security key is
  unplugged meanwhile, `lock_fido_session` does not either, and the touch
  window's phase stays until the next command.  TouchIsAwaited is therefore checked
  and proved without lifecycle events; the lemma TouchStep of SessionProofs shows that the
  clearing of the pending task is the only step that breaks it.
* A signature request may retarget the current device while a PIN for another one is
  typed in (`server.rs:244`); `load_keys` takes the PIN for the current device.
* The tray's reload asks for a PIN and leaves a pending deletion in place, which the PIN
  then confirms (`lib.rs:258`).
* Two activity records that overtake each other just before a restart leave the list
  out of order, and an identifier may then be given again (`activity.rs:25`).
* An edit of `~/.ssh/config` saved between the reading and the renaming of an install is lost.
  One that includes `yubiagent.conf` again just before `remove_legacy_integration` removes it leaves
  OpenSSH without the agent (`agent/integration.rs:35, 57-71`) until the next install.
* A protection that the user gives up while the keychain cannot be written is off in effect.  A
  later load that can read the older policy shows it as on again, but `load` does not touch what is
  in effect: it stays off until the program restarts or the setting is saved again (`settings.rs:123-131`).
* The same load undoes the change on disk, and it needs no loss of access: a single failed
  write to an item that can be read will do (`settings.rs:160-162`).  That is finding 5 by a
  shorter way.
* Where `load` could not put the settings into a missing item, naming a device puts
  the defaults there, and the next load takes them (`settings.rs:228-233`).

## 5. Proofs

Checked by TLAPS to the last leaf, for every value of the constants that the module's
own ASSUME admits.  A theorem that needs more says so in its statement; there are four
such, marked *hypothesis* below.  An invariant is proved as `Init => IInv`,
`IInv /\ [Next]_vars => IInv'` and `IInv => Inv`, with a step per action.

### Session

**SessionProofs** proves TypeOK and four invariants that are inductive relative to it; the
last three rest on the lemma StepEffects, which says once for every action what it
does to keys, touches and "Loading".

* *TypeCorrect*: TypeOK carries three facts beyond types: an enabled key is a key in memory,
  an operation past `Begin` has a device, and a key that the main thread is creating is one of the
  Secure Enclave's.
* *TargetStaysConnected, SessionFlagIsSound, UnlockedDeviceHasPin*: the three conjuncts of
  `DeviceSound`.  Each section of `app` that names a device takes it from the
  devices it sees at that moment, and each that unlocks a path has its PIN in `pins` in the
  same section.  UnlockedHasPin makes an exception of the thread between the two halves of a lock; the
  proof follows every locking thread through it.
* *EnclaveListIsRegistry*: the list and the registry agree on every Secure Enclave key but those
  between the two halves of their creation or deletion.  `EnclaveInv` adds that
  deletions stay apart (DeletionsApart: a key deleted in the registry and still listed belongs to
  exactly one operation) and that creations do (CreationApart: a key whose creation is half
  done is not listed, and nobody is deleting it).  Without the first, one deletion's end could
  take a key that another still owes; without the second, the end of a deletion could
  take a new key.  The runs have one operation at a time; this theorem has any number.
* *TouchStaysAwaited* (hypothesis `Flags = {}`, no lifecycle events): the inductive `TouchInv`
  counts only the signers of FIDO2 keys, those that ask for a touch.  The hypothesis cannot
  be dropped, see the observations of section 4.
* *LoadingIsAnOperation* (hypothesis `"rename" \notin Inputs`): "Loading" is set by `Begin`
  and each end of an operation replaces it.  With renames it is false, and
  *OnlyRenameLosesLoading* proves LoadingIsLostByRename for every behaviour, without a hypothesis: the end
  of a rename whose key is gone is the only step that leaves it behind.

**SessionSigningProofs.**  *SigningIsAuthorized*: SigningAuthorized is inductive relative
to TypeOK for one reason: every step that changes the enabled keys, the agent lock
or the PINs requires the guard that a signing thread holds.  The proof names
such steps *Respectful*, shows that each action either is one or is `Authorize`, and
concludes from there.  *Refinement* adds that each step maps to a step of
SigningAuthority or leaves its variables alone.  **SigningAuthorityProofs**,
*AbstractSafety*: the abstract authority signs with available identities, one at a time.

### Mutexes and connections

**LocksProofs.**  *ScriptsAreDisciplined*: each mutex gets a
rank; every script but the FIDO2 signature's takes mutexes in ascending order and
drops what it takes.  The invariant of *TypeCorrect* and *NoDeadlock* carries both to what is *left* of a running
script.  In a circular wait, the thread that owns the mutex of highest rank would have to
wait for one of still higher rank.  NoDeadlock has the hypothesis `"signFido" \notin Handlers`;
LocksSigning shows it cannot be dropped.

**ConnectionsProofs.**  For SessionBind, TypeOK and ChainConsistent are inductive;
SignedOnlyDirect and the two action properties follow from the guard of `sign_request` together with
ChainConsistent (a forwarding entry anywhere in the list keeps the gate shut).
For AgentConnections, *PermitsAreExact*: `ConnInv` says that a connection waits in one place of
one backlog (QueuedOnce), that it has no thread while it waits (QueuedHasNoThread), and that
an agent's count is the cardinality of the finite set of threads it serves, within the
limit (PermitsAreThreads).  Without the first two, accepting a
connection could start a second thread for it, and one permit would stand for two.

### Files

**EnclaveStoreProofs.**  The heart of `EnclaveInv` is MutexOK: at most one thread is in `write`, and
the entries it is about to write are the registry with one edit.  Around it, `Follows` says where
memory may lag behind (a merge that is still to come, or a list that a failed restart
left empty), MergesFollow what a merge to come will find in the files, and CreationPrivate
that nobody can yet have asked to delete a key that has not been reported.  ReportedIsKept,
MemoryMatchesRegistry and DisabledIsStored follow.  *Refinement*: since the
entries in hand are the registry with one edit, writing the whole file is one step of
KeyTable; *NamesStayDistinct* and *NoDeletedKeyReturns* are then read off the table and
hold of the file.

**SettingsProofs.**  `SettingsInv` says that every copy that is kept, or under way to be, gives up
only what was waived (CopiesWaived, whence WaivedOnly); that the file holds what the user may find,
and the keychain item, in what it has not missed a change of, what the file holds (StoresAgree,
whence AcknowledgedSurvives, proved as *NothingIsReset*); and that, but for what has drifted, what
is in effect is no weaker than either (NoWeaker, whence ShownIsEnforced, proved as *EffectIsShown*).
NoWeaker needs the case of a command that has saved its settings and not yet applied them.  The
theorems have no hypothesis on the keychain: it may be lost, come back, or fail a write at any time,
and only what `missed` and `drifted` name is excepted.

**FilesProofs.**  *Activity*: `LogInv` keeps the atomic counter ahead of every entry of the run,
stored, cleared or about to be stored (CounterAhead), and what is about to be stored apart from what
ever was (PendingIsNew); IdsDistinctInRun, FreshIds and ClearedIsGone need both, since the
counter is taken outside the mutex.  *RestartKeepsTheList* adds that a
restart shows the list as it was last written; it is proved only, not checked by a run.
*AgentSocket*: `SocketInv` says that an inode is created once (InodesUsedOnce), that a listener's
process is open, and, `IdentityIsBound`, that a process whose file the path names has recorded
just that file.  *OrderlyEndsTidy* holds for any number of processes; *RunningStaysReachable* has the
hypothesis `~Overlap`, that one process runs at a time.  With overlap it is false: that is the takeover of
section 4.

*SSHConfig*: what the four theorems need of `migrated_config` is the lemma MigratedFacts: for
a configuration of any length it puts the include first and once, keeps the user's lines,
and is idempotent.  That is an induction over the lines.  The library's rules of induction
are about a predicate, which the provers cannot instantiate, so GrownByAppend states the rule for a
*set* of sequences, and CountedUp for a set of numbers; they follow from the well-foundedness of `<`.
For the same reason the lines are selected with `Only`, a recursive function whose
existence TakingExists proves; of the library's SelectSeq the provers know nothing.  `ConfigInv` adds that an install that is about to
write has read the configuration as it is (ExistingIsCurrent), and that it has seen to the
include before it removes the former file (IncludeFirst, whence NeverDisconnects), both unless an
edit came between.  UserLinesKept and NeverDisconnects themselves are not restricted that way: they
name the one step that is excepted.

### Only model-checked

Liveness, which is out of this prover's reach, as is ENABLED: SilentAreLetGo,
UnpluggedIsForgotten, LoadingEnds.

## 6. Not modelled

The wire encodings (framing, DER, the `Reader`): pure functions without state.  The
removal of a dead `yubiagent.sock` at the start, which touches nothing else.  Drawing of
menus and windows, and their placement.  The front end's own state, such as its copy of the activity
list (`App.vue:406-416`).  Login items and the preferred backend, which Settings has
only as a change that leaves the security settings alone.  Foreign function declarations, the
Swift bridge and the build.  Durability below the file system: a crash of the program is
modelled, a power failure that undoes a rename is not.
What libfido2, the Secure Enclave and the keychain do is external: the
model says only which keys exist and whether a call succeeds.  Menu updates
made with the `app` guard alive may wait for the main thread inside the
user-interface toolkit (see the hazards); the toolkit's code is not in the repository.

## 7. Plan

Done: all modules of section 2 with the runs of section 3, and the proofs of
section 5, which state every safety property of every passing run.  Next:

1. The hazards without a property (PROJECT.json, each with the reason): those about a prompt
   that another thread replaces may deserve an action property of Session, with its proof.
2. The expected violations: the conditions under which the violated properties do
   hold (no operation in progress at a screen lock, no rename, one process), as theorems.
3. Shorter proofs of the long type lemmas of SessionProofs.
