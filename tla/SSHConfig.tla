----------------------------- MODULE SSHConfig -----------------------------
(***************************************************************************)
(* The OpenSSH integration (agent/integration.rs): install writes          *)
(* keynoxis.conf, makes ~/.ssh/config include it before anything else, and *)
(* removes the file of the program's former name, YubiAgent.  It runs at   *)
(* every start and recovery of the agent.  The user may edit the           *)
(* configuration at any time, every access may fail, and the program may   *)
(* end between any two steps.                                              *)
(***************************************************************************)
EXTENDS Naturals, Sequences, SequencesExt

CONSTANTS
    UserLines,  \* lines of the user's own
    MaxLines,   \* bound: the longest configuration a user writes
    MaxEdits    \* bound: how often the user edits

ASSUME ConfigAssumption ==
    /\ {"include", "legacy", "blank"} \cap UserLines = {}
    /\ MaxLines \in Nat /\ MaxEdits \in Nat

VARIABLES
    config,     \* the lines of ~/.ssh/config
    keynoxis,   \* keynoxis.conf: "none", "partial" or "ours"
    yubiagent,  \* yubiagent.conf: "none", "ours" (by its header) or "foreign"
    installer,  \* how far install is, and the configuration it has read
    edits,      \* how often the user has edited
    written,    \* history: the user's own lines, as they were last left
    raced,      \* history: an edit since install last read or wrote the lines
    migrated    \* history: install was the last to write the configuration

configVars == <<config, keynoxis, yubiagent, installer, edits, written, raced, migrated>>

Lines == UserLines \cup {"include", "legacy", "blank"}
UserConfigs == UNION {[1 .. n -> Lines] : n \in 0 .. MaxLines}

(* The lines that are in S, in their order: SelectSeq as a function that the
   proofs can unfold. *)
Only(lines, S) ==
    LET taken[i \in 0 .. Len(lines)] ==
          IF i = 0 THEN <<>>
          ELSE IF lines[i] \in S THEN Append(taken[i - 1], lines[i]) ELSE taken[i - 1]
    IN  taken[Len(lines)]

UserPart(lines) == Only(lines, UserLines)

(* install is about to fill keynoxis.conf, to read or to write the
   configuration, or to remove yubiagent.conf. *)
InstallSteps == {"idle", "fill", "read", "write", "remove"}
NotInstalling == [pc |-> "idle", existing |-> <<>>]
Step(pc) == installer' = [NotInstalling EXCEPT !.pc = pc]

ConfigInit ==
    /\ config \in UserConfigs
    /\ keynoxis = "none"
    /\ yubiagent \in {"none", "ours", "foreign"}
    /\ installer = NotInstalling
    /\ edits = 0
    /\ written = UserPart(config)
    /\ raced = FALSE
    /\ migrated = FALSE

-----------------------------------------------------------------------------
(* A plausible bug for the mutation run: only the former include is taken out. *)
IsKeptUnlessLegacy(line) == line # "legacy"

(* The lines that migrated_config keeps. *)
IsKept(line) == line \notin {"include", "legacy"}
KeptLines == {line \in Lines : IsKept(line)}

IsSolid(line) == line # "blank"
WithoutLeadingBlanks(lines) ==
    LET first == SelectInSeq(lines, IsSolid)
    IN  IF first = 0 THEN <<>> ELSE SubSeq(lines, first, Len(lines))

(* migrated_config *)
Migrated(lines) ==
    LET body == WithoutLeadingBlanks(Only(lines, KeptLines))
    IN  IF body = <<>> THEN <<"include">> ELSE <<"include", "blank">> \o body

(* install starts with fs::write, which empties keynoxis.conf before it fills
   it. *)
EmptyConf ==
    /\ installer.pc = "idle"
    /\ keynoxis' = "partial"
    /\ Step("fill")
    /\ UNCHANGED <<config, yubiagent, edits, written, raced, migrated>>

(* A plausible bug for the mutation run: nobody looks whether that worked. *)
FillConfUnchecked ==
    /\ installer.pc = "fill"
    /\ keynoxis' \in {"partial", "ours"}
    /\ Step("read")
    /\ UNCHANGED <<config, yubiagent, edits, written, raced, migrated>>

FillConf ==
    /\ installer.pc = "fill"
    /\ keynoxis' = "ours"
    /\ Step("read")
    /\ UNCHANGED <<config, yubiagent, edits, written, raced, migrated>>

ReadConfig ==
    /\ installer.pc = "read"
    /\ installer' = [pc |-> "write", existing |-> config]
    /\ UNCHANGED <<config, keynoxis, yubiagent, edits, written, raced, migrated>>

(* atomic_write renames a temporary file over the configuration, unless there is
   nothing to change.  An edit since the reading is lost; the lines install has
   put back are the user's again. *)
WriteConfig ==
    /\ installer.pc = "write"
    /\ IF Migrated(installer.existing) # installer.existing
       THEN /\ config' = Migrated(installer.existing)
            /\ written' = IF raced THEN UserPart(config') ELSE written
            /\ raced' = FALSE
            /\ migrated' = TRUE
       ELSE UNCHANGED <<config, written, raced, migrated>>
    /\ Step("remove")
    /\ UNCHANGED <<keynoxis, yubiagent, edits>>

(* A plausible bug for the mutation run: the configuration is written in place. *)
WriteConfigFailsInPlace ==
    /\ installer.pc = "write"
    /\ config' = <<>>
    /\ raced' = FALSE
    /\ Step("idle")
    /\ UNCHANGED <<keynoxis, yubiagent, edits, written, migrated>>

WriteConfigFails ==
    /\ installer.pc = "write"
    /\ raced' = FALSE
    /\ Step("idle")
    /\ UNCHANGED <<config, keynoxis, yubiagent, edits, written, migrated>>

WithoutLegacy == IF yubiagent = "ours" THEN "none" ELSE yubiagent

(* A plausible bug for the mutation run: the former file goes first. *)
RemoveLegacyFirst ==
    /\ installer.pc \in {"read", "remove"}
    /\ yubiagent' = WithoutLegacy
    /\ IF installer.pc = "remove" THEN Step("idle") ELSE UNCHANGED installer
    /\ raced' = FALSE
    /\ UNCHANGED <<config, keynoxis, edits, written, migrated>>

(* remove_legacy_integration: only a file with our header, and only after the
   configuration has stopped including it. *)
RemoveLegacy ==
    /\ installer.pc = "remove"
    /\ yubiagent' = WithoutLegacy
    /\ raced' = FALSE
    /\ Step("idle")
    /\ UNCHANGED <<config, keynoxis, edits, written, migrated>>

(* install fails at any other of its accesses, or the program ends. *)
InstallEnds ==
    /\ installer.pc \in {"fill", "read", "remove"}
    /\ raced' = FALSE
    /\ Step("idle")
    /\ UNCHANGED <<config, keynoxis, yubiagent, edits, written, migrated>>

(* The user saves another configuration. *)
UserEdits ==
    /\ edits < MaxEdits
    /\ edits' = edits + 1
    /\ config' \in UserConfigs
    /\ written' = UserPart(config')
    /\ raced' = (installer.pc \in {"write", "remove"})
    /\ migrated' = FALSE
    /\ UNCHANGED <<keynoxis, yubiagent, installer>>

ConfigNext ==
    \/ EmptyConf \/ FillConf \/ ReadConfig \/ WriteConfig \/ WriteConfigFails
    \/ RemoveLegacy \/ InstallEnds \/ UserEdits

ConfigSpec == ConfigInit /\ [][ConfigNext]_configVars

-----------------------------------------------------------------------------
(* Types; and the configuration is touched only once keynoxis.conf is complete
   (integration.rs:17-32). *)
ConfigTypeOK ==
    /\ config \in Seq(Lines)
    /\ keynoxis \in {"none", "partial", "ours"}
    /\ yubiagent \in {"none", "ours", "foreign"}
    /\ installer \in [pc : InstallSteps, existing : Seq(Lines)]
    /\ installer.pc \in {"read", "write", "remove"} => keynoxis = "ours"
    /\ edits \in 0 .. MaxEdits
    /\ written \in Seq(UserLines)
    /\ raced \in BOOLEAN
    /\ migrated \in BOOLEAN

(* However often install runs, fails or is cut off, and whenever the user edits,
   the user's own lines stay as the user left them and in their order.  One edit
   is lost, and WriteConfig says which: one that falls between the reading and
   the writing of an install that has something to change; from then on the lines
   that install has put back are the ones to keep (integration.rs:25-33). *)
UserLinesKept == UserPart(config) = written

(* A configuration that install has written needs no other migration, and
   includes keynoxis.conf exactly once, before every other line: starts and
   recoveries do not pile up lines (test migration_is_idempotent,
   integration.rs:111-115, over every configuration within the bounds). *)
MigrationIsStable ==
    migrated =>
       /\ Migrated(config) = config
       /\ {i \in DOMAIN config : config[i] \in {"include", "legacy"}} = {1}
       /\ config[1] = "include"

(* OpenSSH finds the agent through one of the two files. *)
Reaches ==
    \/ Contains(config, "include") /\ keynoxis = "ours"
    \/ Contains(config, "legacy") /\ yubiagent = "ours"

(* No step of an install takes the agent away from OpenSSH, wherever it fails
   or is cut off: the former file goes last (integration.rs:17-35).  There are
   two exceptions.  An install that begins empties keynoxis.conf before it fills
   it.  And if the user has edited since the install has read or written the
   configuration, putting back the former include, the removal of the former
   file does not look at the configuration again. *)
NeverDisconnects ==
    [][Reaches /\ ~Reaches' =>
          \/ edits' # edits
          \/ keynoxis = "ours" /\ keynoxis' = "partial"
          \/ raced /\ yubiagent' # yubiagent]_configVars
=============================================================================
