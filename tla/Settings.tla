------------------------------ MODULE Settings ------------------------------
(***************************************************************************)
(* The security settings (settings.rs): the checks that ask for a PIN or   *)
(* Touch ID, the automatic lock, and the name of a security key.  They are *)
(* kept twice: in settings.json and device-labels.json, which must be      *)
(* written for a command to succeed, and in a policy in the keychain,      *)
(* which wins over the files and whose failures are only logged.  What the *)
(* program goes by is a third copy, in the atomics of RuntimeState.  All   *)
(* commands run on the main thread, one after another; the program may end *)
(* between any two steps.                                                  *)
(***************************************************************************)
EXTENDS Naturals

CONSTANTS
    PinChecks,         \* the flags of PinSettings
    DefaultPin,        \* those of them that are on by default
    TouchChecks,       \* the flags of TouchIdSettings, all on by default
    Minutes,           \* timeouts of the automatic lock; 0 is never
    DefaultMinutes,
    Labels, NoLabel,   \* names of one security key
    WritesFail         \* may a write to the keychain fail where a read succeeds?

ASSUME SettingsAssumption ==
    /\ DefaultPin \subseteq PinChecks
    /\ PinChecks \cap TouchChecks = {} /\ "autolock" \notin PinChecks \cup TouchChecks
    /\ Minutes \subseteq Nat /\ DefaultMinutes \in Minutes \ {0}
    /\ NoLabel \notin Labels
    /\ WritesFail \in BOOLEAN

VARIABLES
    settingsFile,  \* settings.json: the settings it holds, {} without a file
    labelFile,     \* device-labels.json: the name it holds
    policy,        \* the keychain item: settings and name, {} without an item
    access,        \* can the keychain item be read now?
    effective,     \* the settings in the atomics of RuntimeState
    command,       \* the command of the main thread and how far it is
    waived,        \* history: protections the user has agreed to give up
    promised,      \* history: the settings the user may find from now on
    promisedLabel, \* history: the names the user may find from now on
    missed,        \* history: what the keychain item has missed a change of
    drifted        \* history: the protections given up in effect by such a change

settingsVars == <<settingsFile, labelFile, policy, access, effective, command,
                  waived, promised, promisedLabel, missed, drifted>>

AllSettings == [pin : SUBSET PinChecks, touch : SUBSET TouchChecks, minutes : Minutes]
Default == [pin |-> DefaultPin, touch |-> TouchChecks, minutes |-> DefaultMinutes]
LabelOrNone == Labels \cup {NoLabel}
Policies == [settings : AllSettings, label : LabelOrNone]

(* A command has loaded the settings and wants the new ones: it waits for the
   user to authorize, is to write the files, or is to write the keychain. *)
Commands == [pc : {"off", "idle", "authorize", "save", "mirror", "label"},
             group : {"none", "pin", "touch", "minutes", "other"}, new : AllSettings]
Resting(pc) == [pc |-> pc, group |-> "none", new |-> Default]
CommandAt(pc) == command.pc = pc

(* auto_lock_settings_weakened *)
LooserLock(current, next) == next = 0 \/ (current # 0 /\ next > current)

(* A plausible bug for the mutation run: a timeout is looser when it is longer,
   and never is not. *)
WeakenedWhenLonger(group, current, next) ==
    \/ current.pin \ next.pin # {}
    \/ current.touch \ next.touch # {}
    \/ group = "minutes" /\ next.minutes > current.minutes

(* pin_settings_weakened, touch_id_settings_weakened and, for the automatic
   lock alone, auto_lock_settings_weakened: never is always weaker. *)
Weakened(group, current, next) ==
    \/ current.pin \ next.pin # {}
    \/ current.touch \ next.touch # {}
    \/ group = "minutes" /\ LooserLock(current.minutes, next.minutes)

(* The protections that are on by default and weaker in s. *)
Protections == DefaultPin \cup TouchChecks \cup {"autolock"}
GivenUp(s) ==
    (DefaultPin \ s.pin) \cup (TouchChecks \ s.touch)
       \cup {lock \in {"autolock"} : LooserLock(DefaultMinutes, s.minutes)}

-----------------------------------------------------------------------------
The(option) == CHOOSE value \in option : TRUE
FromFile == IF settingsFile = {} THEN Default ELSE The(settingsFile)

(* The settings of a policy that is written for a name: the defaults where there
   is none (SecurityPolicy::default). *)
Kept == IF policy = {} THEN Default ELSE The(policy).settings

(* What load returns: the policy, if there is one that can be read. *)
Loaded == IF access /\ policy # {} THEN The(policy).settings ELSE FromFile

(* What apply_device_labels shows: the policy's name before the file's. *)
LoadedLabel ==
    IF access /\ policy # {} /\ The(policy).label # NoLabel THEN The(policy).label ELSE labelFile

(* How a write to the keychain item may end: the item is read first, and the
   write itself may fail where the reading has succeeded. *)
Written == {done \in BOOLEAN : IF done THEN access ELSE ~access \/ WritesFail}

(* load: what becomes of the policy, which is initialized if there is none. *)
InitializedPolicy ==
    {IF policy = {} /\ done THEN {[settings |-> FromFile, label |-> NoLabel]} ELSE policy :
       done \in Written}

(* load: a policy that is missing is initialized, and the file is rewritten.
   What was read from the keychain is in both from now on. *)
Load ==
    /\ policy' \in InitializedPolicy
    /\ settingsFile' = {Loaded}
    /\ promised' = {Loaded}
    /\ missed' = IF access /\ policy' # {} THEN missed \ {"settings"}
                 ELSE IF policy = {} THEN missed \cup {"settings"} ELSE missed

(* load fails: the file cannot be read, or it cannot be rewritten. *)
LoadFails ==
    /\ policy' \in {policy} \cup InitializedPolicy
    /\ missed' = IF policy' # policy THEN missed \ {"settings"} ELSE missed
    /\ UNCHANGED <<settingsFile, promised>>

SettingsInit ==
    /\ settingsFile = {}
    /\ labelFile = NoLabel
    /\ policy = {}
    /\ access \in BOOLEAN
    /\ effective = Default
    /\ command = Resting("off")
    /\ waived = {}
    /\ promised = {Default}
    /\ promisedLabel = {NoLabel}
    /\ missed = {}
    /\ drifted = {}

(* The program starts: with the settings it loads, or else with the fail-safe
   defaults. *)
Start ==
    /\ CommandAt("off")
    /\ \/ /\ Load
          /\ effective' = Loaded
          /\ drifted' = IF "settings" \in missed' THEN GivenUp(Loaded) \ GivenUp(Kept) ELSE {}
       \/ /\ LoadFails
          /\ effective' = Default
          /\ drifted' = {}
    /\ command' = Resting("idle")
    /\ UNCHANGED <<labelFile, access, waived, promisedLabel>>

(* get_settings, and every other command whose load fails. *)
GetSettings ==
    /\ CommandAt("idle")
    /\ Load \/ LoadFails
    /\ UNCHANGED <<labelFile, access, effective, command, waived, promisedLabel, drifted>>

-----------------------------------------------------------------------------
(* set_pin_settings, set_touch_id_settings, set_auto_lock: load, and ask for an
   authorization of what is weaker. *)
Change(group, new) ==
    /\ CommandAt("idle")
    /\ Load
    /\ command' = [pc |-> IF Weakened(group, Loaded, new) THEN "authorize" ELSE "save",
                   group |-> group, new |-> new]
    /\ UNCHANGED <<labelFile, access, effective, waived, promisedLabel, drifted>>

(* A plausible bug for the mutation run: the rest is taken from the atomics. *)
ChangePinInEffect(pin) == Change("pin", [effective EXCEPT !.pin = pin])

ChangePin(pin) == Change("pin", [Loaded EXCEPT !.pin = pin])
ChangeTouch(touch) == Change("touch", [Loaded EXCEPT !.touch = touch])
ChangeAutoLock(minutes) == Change("minutes", [Loaded EXCEPT !.minutes = minutes])

(* set_autostart, set_preferred_backend: the security settings are saved as
   they were loaded. *)
ChangeOther == Change("other", Loaded)

(* authorize_security_settings_change: the user agrees, or the command fails. *)
Agree ==
    /\ CommandAt("authorize")
    /\ command' = [command EXCEPT !.pc = "save"]
    /\ waived' = waived \cup GivenUp(command.new)
    /\ UNCHANGED <<settingsFile, labelFile, policy, access, effective, promised, promisedLabel,
                   missed, drifted>>

Decline ==
    /\ CommandAt("authorize")
    /\ command' = Resting("idle")
    /\ UNCHANGED <<settingsFile, labelFile, policy, access, effective, waived,
                   promised, promisedLabel, missed, drifted>>

(* save: the file first. *)
SaveFile ==
    /\ CommandAt("save")
    /\ settingsFile' = {command.new}
    /\ promised' = promised \cup {command.new}
    /\ command' = [command EXCEPT !.pc = "mirror"]
    /\ UNCHANGED <<labelFile, policy, access, effective, waived, promisedLabel, missed, drifted>>

(* What a command changes: the settings of its own group. *)
Applied(settings, group, new) ==
    CASE group = "pin" -> [settings EXCEPT !.pin = new.pin]
      [] group = "touch" -> [settings EXCEPT !.touch = new.touch]
      [] group = "minutes" -> [settings EXCEPT !.minutes = new.minutes]
      [] group = "other" -> settings

(* A plausible bug for the mutation run: applied before saved. *)
SaveFailsApplied ==
    /\ CommandAt("save")
    /\ effective' = Applied(effective, command.group, command.new)
    /\ command' = Resting("idle")
    /\ UNCHANGED <<settingsFile, labelFile, policy, access, waived, promised, promisedLabel,
                   missed, drifted>>

SaveFails ==
    /\ CommandAt("save")
    /\ command' = Resting("idle")
    /\ UNCHANGED <<settingsFile, labelFile, policy, access, effective, waived,
                   promised, promisedLabel, missed, drifted>>

(* save: then the keychain, whose failure is only logged; the settings are
   applied, to the atomics of their own group (apply_pin_settings,
   apply_touch_id_settings), and the command succeeds in any case.  What the user
   agreed to give up is given back when no copy is left that lacks it. *)
MirrorAndApply ==
    /\ CommandAt("mirror")
    /\ effective' = Applied(effective, command.group, command.new)
    /\ \E done \in Written :
          IF done
          THEN /\ policy' = {[settings |-> command.new,
                              label |-> IF policy = {} THEN NoLabel ELSE The(policy).label]}
               /\ missed' = missed \ {"settings"}
               /\ drifted' = (drifted \cap GivenUp(effective')) \ GivenUp(command.new)
               /\ waived' = waived \cap (GivenUp(command.new) \cup GivenUp(effective'))
          ELSE /\ missed' = missed \cup {"settings"}
               /\ drifted' = (drifted \cup (GivenUp(command.new) \ GivenUp(Kept)))
                                \cap GivenUp(effective')
               /\ UNCHANGED <<policy, waived>>
    /\ promised' = {command.new}
    /\ command' = Resting("idle")
    /\ UNCHANGED <<settingsFile, labelFile, access, promisedLabel>>

(* set_device_label: the file first; it fails when the file cannot be read or
   written. *)
SetLabel(label) ==
    /\ CommandAt("idle")
    /\ labelFile' = label
    /\ promisedLabel' = promisedLabel \cup {label}
    /\ command' = Resting("label")
    /\ UNCHANGED <<settingsFile, policy, access, effective, waived, promised, missed, drifted>>

(* A plausible bug for the mutation run: the policy is built anew. *)
MirrorLabelAnew ==
    /\ CommandAt("label")
    /\ \E done \in Written :
          IF done
          THEN policy' = {[settings |-> Default, label |-> labelFile]} /\ missed' = missed \ {"label"}
          ELSE UNCHANGED policy /\ missed' = missed \cup {"label"}
    /\ promisedLabel' = {labelFile}
    /\ command' = Resting("idle")
    /\ UNCHANGED <<settingsFile, labelFile, access, effective, waived, promised, drifted>>

(* set_device_label: then the keychain, with the default settings if there is
   no policy yet; a failure is only logged. *)
MirrorLabel ==
    /\ CommandAt("label")
    /\ \E done \in Written :
          IF done
          THEN /\ policy' = {[settings |-> Kept, label |-> labelFile]}
               /\ missed' = missed \ {"label"}
          ELSE UNCHANGED policy /\ missed' = missed \cup {"label"}
    /\ promisedLabel' = {labelFile}
    /\ command' = Resting("idle")
    /\ UNCHANGED <<settingsFile, labelFile, access, effective, waived, promised, drifted>>

(* The program ends anywhere; the keychain may miss a change that way, too. *)
Quit ==
    /\ ~CommandAt("off")
    /\ command' = Resting("off")
    /\ effective' = Default
    /\ missed' = IF CommandAt("mirror") THEN missed \cup {"settings"} ELSE missed
    /\ drifted' = {}
    /\ UNCHANGED <<settingsFile, labelFile, policy, access, waived, promised, promisedLabel>>

(* macOS revokes the access to the keychain item or grants it again. *)
AccessChanges ==
    /\ access' = ~access
    /\ UNCHANGED <<settingsFile, labelFile, policy, effective, command, waived,
                   promised, promisedLabel, missed, drifted>>

SettingsNext ==
    \/ Start \/ GetSettings
    \/ \E pin \in SUBSET PinChecks : ChangePin(pin)
    \/ \E touch \in SUBSET TouchChecks : ChangeTouch(touch)
    \/ \E minutes \in Minutes : ChangeAutoLock(minutes)
    \/ ChangeOther
    \/ Agree \/ Decline \/ SaveFile \/ SaveFails \/ MirrorAndApply
    \/ \E label \in LabelOrNone : SetLabel(label)
    \/ MirrorLabel \/ Quit \/ AccessChanges

SettingsSpec == SettingsInit /\ [][SettingsNext]_settingsVars

-----------------------------------------------------------------------------
IsOption(option, values) == option \subseteq values /\ \A a, b \in option : a = b

(* Types; and a command that is about to save changes nothing but its own group
   of the settings on disk, even where the settings in effect are others
   (settings.rs:328-333, 362-367, 377-382). *)
SettingsTypeOK ==
    /\ IsOption(settingsFile, AllSettings)
    /\ labelFile \in LabelOrNone
    /\ IsOption(policy, Policies)
    /\ access \in BOOLEAN
    /\ effective \in AllSettings
    /\ command \in Commands
    /\ command.pc \in {"authorize", "save"} => 
          command.new = Applied(FromFile, command.group, command.new)
    /\ waived \subseteq Protections
    /\ promised \subseteq AllSettings
    /\ promisedLabel \subseteq LabelOrNone
    /\ missed \subseteq {"settings", "label"}
    /\ drifted \subseteq Protections

(* What Keynoxis loads next is what it last showed or reported as saved,
   whatever was interrupted or failed in between; an interrupted change may have
   been made or not.  The comment at settings.rs:143-145 wants the local copy
   preserved "instead of silently resetting values". *)
NothingReset == Loaded \in promised /\ LoadedLabel \in promisedLabel

(* The same for everything the keychain item has not missed a change of, however
   its accessibility changes: save goes on when the mirror fails, and load
   prefers the mirror (settings.rs:123-164).  The exception is the code's: a
   change whose write to the keychain failed or was cut off is undone by a load
   that reads the older policy, and settings a load could not put into a missing
   item are replaced by the defaults that set_device_label puts there. *)
AcknowledgedSurvives ==
    /\ "settings" \notin missed => Loaded \in promised
    /\ "label" \notin missed => LoadedLabel \in promisedLabel

(* A protection that is on by default is weaker on disk or in effect only after
   the user has authorized just that; no sequence of changes that need no
   authorization leads there, and no change of access to the keychain
   (settings.rs:329, 363, 378). *)
WaivedOnly == GivenUp(effective) \cup GivenUp(Loaded) \subseteq waived

(* What the settings window shows as protected is protected: a default
   protection is not weaker in effect than in the settings that would be loaded,
   whatever fails and however the access changes (settings.rs:158-164, 366-368,
   381-383).  There are two exceptions.  Between the writing of the file and the
   end of the command, what is loaded is ahead of what is in effect.  And a
   protection that the user has given up while the keychain could not be written
   is shown as on by a load that reads the older policy, and stays off. *)
ShownIsEnforced ==
    ~CommandAt("mirror") => GivenUp(effective) \subseteq GivenUp(Loaded) \cup drifted
=============================================================================
