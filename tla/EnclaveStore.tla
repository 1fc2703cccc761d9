---------------------------- MODULE EnclaveStore ----------------------------
(***************************************************************************)
(* The Secure Enclave keys on disk and in memory: the registry             *)
(* (secure_enclave.rs), the list of disabled identities                    *)
(* (key_preferences.rs), the commands that change them                     *)
(* (ipc/commands.rs), and the start of the program that reads both         *)
(* (lib.rs:143-153).  The registry is read, edited and written as a whole  *)
(* under the mutex secure_enclave; memory follows after the mutex is       *)
(* released.  Reads and writes may fail, and the program may end between   *)
(* any two steps.                                                          *)
(***************************************************************************)
CONSTANTS
    Keys,      \* what the Secure Enclave can generate
    Names,     \* names, equal when they differ in case only
    NoName,    \* the name of a key that is not there
    Deleters   \* delete_key runs that may overlap

ASSUME EnclaveAssumption == NoName \notin Names /\ "main" \notin Deleters

VARIABLES
    registry,    \* secure-enclave-keys.json: per key, its name
    disabled,    \* key-preferences.json
    comment,     \* AppState.keys: per key, the name in memory
    enabled,     \* the keys in memory that are enabled
    job,         \* per thread: the command it runs and how far it is
    registered,  \* history: keys that have ever been in the registry
    reported,    \* history: keys reported as created and not deleted since
    blind        \* history: the registry could not be read at this start

enclaveVars == <<registry, disabled, comment, enabled, job, registered, reported, blind>>

Threads == {"main"} \cup Deleters
NameOrNone == Names \cup {NoName}
NoKeys == [k \in Keys |-> NoName]

(* A command that was called waits for the mutex (want), holds it with the
   edited entries in hand (write), or has still to bring memory up to date
   (merge).  SetPreference has no mutex and goes straight to merge. *)
Idle == [pc |-> "idle", what |-> "none", keys |-> {}, name |-> NoName, entries |-> NoKeys]
Jobs == [pc : {"idle", "want", "write", "merge"},
         what : {"none", "create", "rename", "delete", "enable", "disable"},
         keys : SUBSET Keys, name : NameOrNone, entries : [Keys -> NameOrNone]]

EnclaveInit ==
    /\ registry = NoKeys
    /\ disabled = {}
    /\ comment = NoKeys
    /\ enabled = {}
    /\ job = [w \in Threads |-> Idle]
    /\ registered = {}
    /\ reported = {}
    /\ blind = FALSE

-----------------------------------------------------------------------------
Doing(w, pc, what) == job[w].pc = pc /\ job[w].what = what
Finish(w) == job' = [job EXCEPT ![w] = Idle]
Listed(k) == comment[k] # NoName

(* A plausible bug for the mutation run: the registry is not serialized. *)
EnclaveFreeAlways == TRUE

(* Nobody is inside the mutex secure_enclave. *)
EnclaveFree == \A w \in Threads : job[w].pc # "write"

(* create_secure_enclave_key, rename_key and delete_key up to the mutex: the
   last two take a copy of a key that is listed now. *)
AskCreate(name) ==
    /\ job["main"] = Idle
    /\ job' = [job EXCEPT !["main"] = [Idle EXCEPT !.pc = "want", !.what = "create", !.name = name]]
    /\ UNCHANGED <<registry, disabled, comment, enabled, registered, reported, blind>>

AskRename(k, name) ==
    /\ job["main"] = Idle
    /\ Listed(k)
    /\ job' = [job EXCEPT !["main"] = [Idle EXCEPT !.pc = "want", !.what = "rename",
                                                    !.keys = {k}, !.name = name]]
    /\ UNCHANGED <<registry, disabled, comment, enabled, registered, reported, blind>>

AskDelete(w, k) ==
    /\ job[w] = Idle
    /\ Listed(k)
    /\ job' = [job EXCEPT ![w] = [Idle EXCEPT !.pc = "want", !.what = "delete", !.keys = {k}]]
    /\ UNCHANGED <<registry, disabled, comment, enabled, registered, reported, blind>>

(* The command fails under the mutex: Touch ID is refused, the registry cannot
   be read, the Secure Enclave makes no key, the name is taken, or the key is
   not in the registry any more. *)
Refused(w) ==
    /\ job[w].pc = "want"
    /\ EnclaveFree
    /\ Finish(w)
    /\ UNCHANGED <<registry, disabled, comment, enabled, registered, reported, blind>>

(* The entries after create, rename or delete, given those that were read:
   defined for the keys whose edit the code does not reject. *)
Rejects(entries, w, k) ==
    \/ (job[w].what = "create" /\ k \in registered)
    \/ (job[w].what # "create" /\ (k \notin job[w].keys \/ entries[k] = NoName))
    \/ (job[w].what # "delete" /\ \E other \in Keys \ {k} : entries[other] = job[w].name)

Edit(w, entries) ==
    \E k \in Keys :
       /\ ~Rejects(entries, w, k)
       /\ job' = [job EXCEPT ![w].pc = "write", ![w].keys = {k},
                             ![w].entries = [entries EXCEPT ![k] = job[w].name]]

(* A plausible bug for the mutation run: a registry that cannot be read counts
   as empty. *)
ReadRegistryOrEmpty(w) ==
    /\ job[w].pc = "want"
    /\ EnclaveFree
    /\ \E entries \in {registry, NoKeys} : Edit(w, entries)
    /\ UNCHANGED <<registry, disabled, comment, enabled, registered, reported, blind>>

(* The mutex is taken and the registry read and edited. *)
ReadRegistry(w) ==
    /\ job[w].pc = "want"
    /\ EnclaveFree
    /\ Edit(w, registry)
    /\ UNCHANGED <<registry, disabled, comment, enabled, registered, reported, blind>>

(* write_registry: a temporary file is renamed over the registry, and the
   mutex is released. *)
WriteRegistry(w) ==
    /\ job[w].pc = "write"
    /\ registry' = job[w].entries
    /\ registered' = registered \cup {k \in Keys : registry'[k] # NoName}
    /\ reported' = IF job[w].what = "delete" THEN reported \ job[w].keys ELSE reported
    /\ job' = [job EXCEPT ![w] = [@ EXCEPT !.pc = "merge", !.entries = NoKeys]]
    /\ UNCHANGED <<disabled, comment, enabled, blind>>

(* A plausible bug for the mutation run: a failed write goes unnoticed. *)
WriteFailsUnnoticed(w) ==
    /\ job[w].pc = "write"
    /\ job' = [job EXCEPT ![w] = [@ EXCEPT !.pc = "merge", !.entries = NoKeys]]
    /\ UNCHANGED <<registry, disabled, comment, enabled, registered, reported, blind>>

(* write_registry fails, with the registry as it was. *)
WriteFails(w) ==
    /\ job[w].pc = "write"
    /\ Finish(w)
    /\ UNCHANGED <<registry, disabled, comment, enabled, registered, reported, blind>>

(* create_secure_enclave_key adds its key to the list, enabled. *)
MergeCreated(w) ==
    /\ Doing(w, "merge", "create")
    /\ comment' = [k \in Keys |-> IF k \in job[w].keys THEN job[w].name ELSE comment[k]]
    /\ enabled' = enabled \cup job[w].keys
    /\ reported' = reported \cup job[w].keys
    /\ Finish(w)
    /\ UNCHANGED <<registry, disabled, registered, blind>>

(* rename_key puts the renamed key, which secure_enclave::rename built as an
   enabled one, in the place of the listed one; if that is gone, it fails. *)
MergeRenamed(w) ==
    /\ Doing(w, "merge", "rename")
    /\ LET there == {k \in job[w].keys : Listed(k)}
       IN  /\ comment' = [k \in Keys |-> IF k \in there THEN job[w].name ELSE comment[k]]
           /\ enabled' = enabled \cup there
    /\ Finish(w)
    /\ UNCHANGED <<registry, disabled, registered, reported, blind>>

(* delete_key removes the key from the list. *)
MergeDeleted(w) ==
    /\ Doing(w, "merge", "delete")
    /\ comment' = [k \in Keys |-> IF k \in job[w].keys THEN NoName ELSE comment[k]]
    /\ enabled' = enabled \ job[w].keys
    /\ Finish(w)
    /\ UNCHANGED <<registry, disabled, registered, reported, blind>>

-----------------------------------------------------------------------------
Preferred(k, on) == IF on THEN disabled \ {k} ELSE disabled \cup {k}
MergingPreference(k, on) ==
    job' = [job EXCEPT !["main"] = [Idle EXCEPT !.pc = "merge", !.keys = {k},
                                    !.what = IF on THEN "enable" ELSE "disable"]]

(* A plausible bug for the mutation run: a preference that could not be saved
   is applied all the same. *)
SetPreferenceUnchecked(k, on) ==
    /\ job["main"] = Idle
    /\ k \in registered
    /\ disabled' \in {disabled, Preferred(k, on)}
    /\ MergingPreference(k, on)
    /\ UNCHANGED <<registry, comment, enabled, registered, reported, blind>>

(* set_key_enabled saves the preference, of a key that may be gone by now; if
   that fails, nothing has happened. *)
SetPreference(k, on) ==
    /\ job["main"] = Idle
    /\ k \in registered
    /\ disabled' = Preferred(k, on)
    /\ MergingPreference(k, on)
    /\ UNCHANGED <<registry, comment, enabled, registered, reported, blind>>

(* A plausible bug for the mutation run: the key is taken to be still there. *)
MergePreferenceBlindly ==
    /\ job["main"].pc = "merge"
    /\ \/ /\ job["main"].what = "enable"
          /\ enabled' = enabled \cup job["main"].keys
       \/ /\ job["main"].what = "disable"
          /\ enabled' = enabled \ job["main"].keys
    /\ Finish("main")
    /\ UNCHANGED <<registry, disabled, comment, registered, reported, blind>>

(* set_key_enabled then changes the listed key, if there is one. *)
MergePreference ==
    /\ job["main"].pc = "merge"
    /\ \/ /\ job["main"].what = "enable"
          /\ enabled' = enabled \cup {k \in job["main"].keys : Listed(k)}
       \/ /\ job["main"].what = "disable"
          /\ enabled' = enabled \ job["main"].keys
    /\ Finish("main")
    /\ UNCHANGED <<registry, disabled, comment, registered, reported, blind>>

(* The program ends anywhere and starts again.  Without a readable registry no
   key is listed; without readable preferences every key is enabled. *)
EnclaveRestart ==
    /\ job' = [w \in Threads |-> Idle]
    /\ \/ /\ blind' = FALSE
          /\ comment' = registry
          /\ enabled' \in {{k \in Keys : registry[k] # NoName},
                           {k \in Keys : registry[k] # NoName} \ disabled}
       \/ /\ blind' = TRUE
          /\ comment' = NoKeys
          /\ enabled' = {}
    /\ UNCHANGED <<registry, disabled, registered, reported>>

EnclaveNext ==
    \/ \E name \in Names : AskCreate(name) \/ \E k \in Keys : AskRename(k, name)
    \/ \E w \in Deleters, k \in Keys : AskDelete(w, k)
    \/ \E w \in Threads :
          \/ Refused(w) \/ ReadRegistry(w) \/ WriteRegistry(w) \/ WriteFails(w)
          \/ MergeCreated(w) \/ MergeRenamed(w) \/ MergeDeleted(w)
    \/ \E k \in Keys, on \in BOOLEAN : SetPreference(k, on)
    \/ MergePreference
    \/ EnclaveRestart

EnclaveSpec == EnclaveInit /\ [][EnclaveNext]_enclaveVars

-----------------------------------------------------------------------------
(* Types; only listed keys are enabled, although a key may leave the list while
   a preference or a rename of it is under way (ipc/commands.rs:31-37, 941). *)
EnclaveTypeOK ==
    /\ registry \in [Keys -> NameOrNone]
    /\ disabled \subseteq Keys
    /\ comment \in [Keys -> NameOrNone]
    /\ enabled \subseteq {k \in Keys : Listed(k)}
    /\ job \in [Threads -> Jobs]
    /\ registered \subseteq Keys
    /\ reported \subseteq Keys
    /\ blind \in BOOLEAN

(* No interleaving of commands, failed write or restart loses a key whose
   creation was reported (ipc/commands.rs:1083): it is in the registry until a
   delete_key takes it out, although each writer replaces the whole file. *)
ReportedIsKept == \A k \in reported : registry[k] # NoName

(* Once nobody has a change of a key still to merge, memory shows the key as
   the registry has it, name included; only a start that could not read the
   registry shows fewer keys (secure_enclave.rs:46, 67, 81 and the merges in
   ipc/commands.rs). *)
MemoryMatchesRegistry ==
    \A k \in Keys :
       (\A w \in Threads : job[w].pc = "merge" => k \notin job[w].keys)
         => comment[k] = registry[k] \/ (blind /\ comment[k] = NoName)

(* A key that is shown as disabled is disabled on disk, and so stays disabled
   after a crash, unless the user is just enabling it (ipc/commands.rs:29-37). *)
DisabledIsStored ==
    \A k \in Keys : Listed(k) /\ k \notin enabled =>
       k \in disabled \/ (Doing("main", "merge", "enable") /\ job["main"].keys = {k})

Table == INSTANCE KeyTable WITH table <- registry, used <- registered

(* The registry, read and written as a whole by several threads, behaves as
   the table of keys: one key at a time, distinct names, and no deleted key
   returns. *)
ImplementsKeyTable == Table!TableSpec
=============================================================================
