---------------------------- MODULE SessionProofs ----------------------------
(***************************************************************************)
(* Type correctness of module Session.  Most handlers rewrite several      *)
(* fields of the AppState at once, through helpers; the lemmas named ...App *)
(* show for each handler that the AppState it leaves is well typed, those  *)
(* named ...Type for each group of actions that everything is.             *)
(***************************************************************************)
EXTENDS Session, TLAPS, WellFoundedInduction

-----------------------------------------------------------------------------
(* The first of a set of paths                                             *)

LEMMA LeastElement ==
    ASSUME NEW S \in SUBSET Nat, S # {}
    PROVE  \E x \in S : \A y \in S : x <= y
<1>1. \A y, x \in Nat : y < x => <<y, x>> \in OpToRel(<, Nat)
  BY DEF OpToRel
<1>2. PICK x \in S : \A y \in S : ~ (<<y, x>> \in OpToRel(<, Nat))
  BY NatLessThanWellFounded, WFMin
<1>3. \A y \in S : ~ (y < x)
  BY <1>1, <1>2
<1>4. QED
  BY <1>3

LEMMA FirstIsAMember ==
    ASSUME NEW S \in SUBSET Nat
    PROVE  IF S = {} THEN First(S) = NoPath ELSE First(S) \in S
BY LeastElement DEF First

-----------------------------------------------------------------------------
(* The helpers on the AppState keep it well typed                          *)

AppOK(a) == a \in AppState /\ a.enabled \subseteq a.keys

LEMMA DropKeysType ==
    ASSUME NEW a, AppOK(a), NEW S
    PROVE  AppOK(DropKeys(a, S))
BY DEF AppOK, AppState, DropKeys

LEMMA CloseType ==
    ASSUME NEW a, AppOK(a), NEW p
    PROVE  AppOK(Close(a, p))
BY DEF AppOK, AppState, Close

LEMMA AskType ==
    ASSUME NEW a, AppOK(a), NEW d \in Paths \cup {NoPath}, NEW t \in Tasks
    PROVE  AppOK(Ask(a, d, t))
BY DEF AppOK, AppState, Ask, Phases

LEMMA PhaseType ==
    ASSUME NEW a, AppOK(a), NEW v \in Phases
    PROVE  AppOK([a EXCEPT !.phase = v])
BY DEF AppOK, AppState

LEMMA DeviceType ==
    ASSUME NEW a, AppOK(a), NEW d \in Paths \cup {NoPath}
    PROVE  AppOK([a EXCEPT !.device = d])
BY DEF AppOK, AppState

LEMMA TaskTypes == /\ NoTask \in Tasks /\ Creation \in Tasks
                   /\ \A k \in FidoKeys : /\ [kind |-> "delete", key |-> k] \in Tasks
                                          /\ [kind |-> "rename", key |-> k] \in Tasks
BY DEF Tasks, NoTask, Creation

LEMMA FirstType == \A S \in SUBSET Paths : First(S) \in S \cup {NoPath}
<1>1. Paths \subseteq Nat
  BY SessionAssumption DEF Paths
<1>2. QED
  BY <1>1, FirstIsAMember DEF NoPath

LEMMA FlagsType ==
    ASSUME NEW a, AppOK(a), NEW b \in BOOLEAN, NEW c \in BOOLEAN
    PROVE  AppOK([a EXCEPT !.sequence = b, !.sessionUnlocked = c])
BY DEF AppOK, AppState

LEMMA PromptType ==
    ASSUME NEW a, AppOK(a), NEW d \in Paths \cup {NoPath}, NEW v \in Phases,
           NEW t \in Tasks
    PROVE  AppOK([a EXCEPT !.device = d, !.phase = v, !.pending = t])
BY DEF AppOK, AppState

LEMMA EndPromptType ==
    ASSUME NEW a, AppOK(a), NEW t \in Tasks, NEW b \in BOOLEAN, NEW v \in Phases
    PROVE  AppOK([a EXCEPT !.pending = t, !.sequence = b, !.phase = v])
BY DEF AppOK, AppState

LEMMA LockedAppType ==
    ASSUME NEW a, AppOK(a)
    PROVE  AppOK(LockedApp(a))
<1>1. AppOK(DropKeys(a, FidoKeys))
  BY DropKeysType
<1>2. DropKeys(a, FidoKeys).phase \in Phases
  BY <1>1 DEF AppOK, AppState
<1>3. QED
  BY <1>1, <1>2 DEF LockedApp, AppOK, AppState, Phases

LEMMA AppFacts ==
    ASSUME NEW a, AppOK(a)
    PROVE  /\ a.phase \in Phases /\ a.devices \in SUBSET Paths
           /\ a.device \in Paths \cup {NoPath} /\ a.unlocked \in SUBSET Paths
           /\ a.keys \in SUBSET Keys /\ a.pending \in Tasks
           /\ a.sequence \in BOOLEAN /\ a.sessionUnlocked \in BOOLEAN
           /\ LockedDevices(a) \in SUBSET Paths
           /\ AllUnlocked(a) \in BOOLEAN
BY DEF AppOK, AppState, LockedDevices, AllUnlocked

-----------------------------------------------------------------------------
(* The AppState after each handler                                         *)

LEMMA RequestUnlockApp ==
    ASSUME AppOK(app), RequestUnlock
    PROVE  AppOK(app')
<1> DEFINE a == IF AllUnlocked(app)
                THEN [DropKeys(app, FidoKeys) EXCEPT !.unlocked = {}] ELSE app
           target == First(LockedDevices(a))
<1>1. AppOK([DropKeys(app, FidoKeys) EXCEPT !.unlocked = {}])
  BY DropKeysType DEF AppOK, AppState
<1>2. AppOK(a)
  BY <1>1
<1>3. target \in Paths \cup {NoPath}
  BY <1>2, AppFacts, FirstType
<1>4. AppOK(Ask(a, target, NoTask))
  BY <1>2, <1>3, AskType, TaskTypes
<1>5. AppOK([Ask(a, target, NoTask) EXCEPT !.sequence = TRUE, !.sessionUnlocked = FALSE])
  BY <1>4, FlagsType
<1>6. app' = IF target = NoPath THEN a
             ELSE [Ask(a, target, NoTask) EXCEPT !.sequence = TRUE, !.sessionUnlocked = FALSE]
  BY DEF RequestUnlock
<1>7. QED
  BY <1>2, <1>5, <1>6

LEMMA RequestDeviceUnlockApp ==
    ASSUME AppOK(app), NEW p \in Paths, RequestDeviceUnlock(p)
    PROVE  AppOK(app')
<1> DEFINE a == Ask(Close(DropKeys(app, KeysOn(p)), p), p, NoTask)
<1>1. AppOK(a)
  BY DropKeysType, CloseType, AskType, TaskTypes
<1>2. app' = [a EXCEPT !.sequence = FALSE]
  BY DEF RequestDeviceUnlock
<1> HIDE DEF a
<1>3. QED
  BY <1>1, <1>2 DEF AppOK, AppState

LEMMA DismissAuthApp ==
    ASSUME AppOK(app), DismissAuth
    PROVE  AppOK(app')
<1> DEFINE p == app.device
           a == IF ~(app.pending.kind \in {"delete", "rename"}) THEN app
                ELSE IF p = NoPath THEN [app EXCEPT !.sessionUnlocked = FALSE]
                ELSE Close(DropKeys(app, KeysOn(p)), p)
           v == DismissedPhase(a)
<1>1. AppOK([app EXCEPT !.sessionUnlocked = FALSE])
  BY DEF AppOK, AppState
<1>2. AppOK(a)
  BY <1>1, DropKeysType, CloseType
<1>3. v \in Phases
  BY <1>2, AppFacts DEF Phases, DismissedPhase
<1>4. app' = [a EXCEPT !.pending = NoTask, !.sequence = FALSE, !.phase = v]
  BY DEF DismissAuth
<1> HIDE DEF a, v
<1>5. QED
  BY <1>2, <1>3, <1>4, EndPromptType, TaskTypes

LEMMA RequestCreationApp ==
    ASSUME AppOK(app), NEW p \in Paths, NEW requirePin \in BOOLEAN,
           RequestCreation(p, requirePin)
    PROVE  AppOK(app')
<1>1. AppOK([app EXCEPT !.device = p, !.phase = "WaitingForTouch", !.pending = Creation])
  BY PromptType, TaskTypes DEF Phases
<1>2. AppOK(Close(DropKeys(Ask(app, p, Creation), KeysOn(p)), p))
  BY AskType, DropKeysType, CloseType, TaskTypes
<1>3. QED
  BY <1>1, <1>2 DEF RequestCreation

LEMMA RequestDeletionApp ==
    ASSUME AppOK(app), NEW k \in FidoKeys, NEW requirePin \in BOOLEAN,
           RequestDeletion(k, requirePin)
    PROVE  AppOK(app')
<1> DEFINE p == Home[k]
           task == [kind |-> "delete", key |-> k]
<1>0. p \in Paths /\ task \in Tasks
  BY SessionAssumption, TaskTypes
<1>1. AppOK([app EXCEPT !.device = NoPath])
  BY DeviceType
<1>2. AppOK([app EXCEPT !.device = p, !.phase = "WaitingForTouch", !.pending = task])
  BY <1>0, PromptType DEF Phases
<1>3. AppOK(Close(Ask(app, p, task), p))
  BY <1>0, AskType, CloseType
<1>4. QED
  BY <1>1, <1>2, <1>3 DEF RequestDeletion

LEMMA RenameAsksPinApp ==
    ASSUME AppOK(app), NEW requirePin \in BOOLEAN, RenameAsksPin(requirePin)
    PROVE  AppOK(app')
<1> DEFINE k == main.key
           p == Home[k]
           task == [kind |-> "rename", key |-> k]
<1>0. p \in Paths /\ task \in Tasks
  BY SessionAssumption, TaskTypes DEF RenameAsksPin
<1>1. AppOK([app EXCEPT !.device = NoPath])
  BY DeviceType
<1>2. AppOK(Close(Ask(app, p, task), p))
  BY <1>0, AskType, CloseType
<1>3. QED
  BY <1>1, <1>2 DEF RenameAsksPin

LEMMA RenameStoredApp ==
    ASSUME AppOK(app), RenameStored
    PROVE  AppOK(app')
<1>1. CASE main.key \notin app.keys
  BY <1>1 DEF RenameStored, RenamedApp
<1>2. CASE main.key \in app.keys /\ main.on
  BY <1>2 DEF RenameStored, RenamedApp, AppOK, AppState, Phases
<1>3. CASE main.key \in app.keys /\ ~main.on
  BY <1>3 DEF RenameStored, RenamedApp, AppOK, AppState, Phases
<1>4. QED
  BY <1>1, <1>2, <1>3

LEMMA CreateSEKeyInMemoryApp ==
    ASSUME AppOK(app), main.key \in SEKeys, CreateSEKeyInMemory
    PROVE  AppOK(app')
BY DEF CreateSEKeyInMemory, AppOK, AppState, Phases, Keys

LEMMA MergeApp ==
    ASSUME AppOK(app), NEW o \in Ops, op[o] \in OpState, op[o].path \in Paths,
           op[o].enabled \subseteq op[o].keys, Merge(o)
    PROVE  AppOK(app')
<1> DEFINE p == op[o].path
           b == DropKeys(app, KeysOn(p))
           a == [b EXCEPT !.keys = @ \cup op[o].keys, !.enabled = @ \cup op[o].enabled,
                          !.unlocked = @ \cup {p}]
           next == IF op[o].task = NoTask /\ a.sequence THEN First(LockedDevices(a))
                                                        ELSE NoPath
           d == IF next # NoPath THEN next ELSE Reselect(p)
           v == IF next # NoPath THEN "NeedsPin" ELSE "Ready"
           c == a.sequence /\ next # NoPath
<1>1. AppOK(b)
  BY DropKeysType
<1>2. op[o].keys \subseteq Keys
  BY DEF OpState, Keys
<1> HIDE DEF b
<1>3. AppOK(a)
  BY <1>1, <1>2 DEF AppOK, AppState
<1>4. next \in Paths \cup {NoPath}
  BY <1>3, AppFacts, FirstType
<1>5. app' = [a EXCEPT !.device = d, !.phase = v, !.sequence = c,
                       !.pending = NoTask, !.sessionUnlocked = AllUnlocked(a)]
  BY DEF Merge, b
<1>6. /\ d \in Paths \cup {NoPath} /\ v \in Phases
      /\ c \in BOOLEAN /\ AllUnlocked(a) \in BOOLEAN
  BY <1>3, <1>4, AppFacts DEF Reselect, Phases
<1>7. NoTask \in Tasks
  BY TaskTypes
<1> HIDE DEF a, d, v, c
<1>8. QED
  BY <1>3, <1>5, <1>6, <1>7 DEF AppOK, AppState

LEMMA MergeFailedApp ==
    ASSUME AppOK(app), NEW o \in Ops, MergeFailed(o)
    PROVE  AppOK(app')
<1> DEFINE a == Close(app, op[o].path)
           v == IF op[o].result = "invalid" THEN "NeedsPin" ELSE "Error"
           keep == \/ op[o].result = "invalid"
                   \/ app.pending.kind \in {"delete", "rename"} \cap {op[o].task.kind}
           t == IF keep THEN a.pending ELSE NoTask
<1>1. AppOK(a)
  BY CloseType
<1>2. v \in Phases /\ t \in Tasks
  BY <1>1, AppFacts, TaskTypes DEF Phases
<1>3. app' = [a EXCEPT !.phase = v, !.pending = t]
  BY DEF MergeFailed
<1> HIDE DEF a, v, t
<1>4. QED
  BY <1>1, <1>2, <1>3 DEF AppOK, AppState

LEMMA ActiveDeviceType ==
    ASSUME NEW a, AppOK(a), NEW new \in Paths \cup {NoPath}
    PROVE  ActiveDevice(a, new) \in Paths \cup {NoPath}
<1> DEFINE previous == {app.device} \cap a.devices
           choices == IF InProgress /\ previous # {} THEN <<previous>>
                      ELSE <<{new} \ {NoPath}, previous, LockedDevices(a),
                             a.devices \cap Fido2>>
           some == {i \in DOMAIN choices : choices[i] # {}}
<1>1. some \in SUBSET Nat /\ some \subseteq DOMAIN choices
  OBVIOUS
<1>2. \A i \in DOMAIN choices : choices[i] \in SUBSET Paths
  BY AppFacts
<1>3. CASE some = {}
  BY <1>3 DEF ActiveDevice
<1>4. CASE some # {}
  <2>1. First(some) \in some
    BY <1>1, <1>4, FirstIsAMember
  <2>2. choices[First(some)] \in SUBSET Paths
    BY <1>1, <1>2, <2>1
  <2>3. First(choices[First(some)]) \in Paths \cup {NoPath}
    BY <2>2, FirstType
  <2>4. QED
    BY <1>4, <2>3 DEF ActiveDevice
<1>5. QED
  BY <1>3, <1>4

LEMMA WatcherApplyApp ==
    ASSUME AppOK(app), NEW prompt \in BOOLEAN, watcher \in WatcherState,
           WatcherApply(prompt)
    PROVE  AppOK(app')
<1> DEFINE found == watcher.found
           b == DropKeys(app, {k \in FidoKeys : Home[k] \notin found})
           a == [b EXCEPT !.devices = found,
                          !.unlocked = StillConnected(@, found)]
           new == First((found \cap Fido2) \ app.devices)
           ask == new # NoPath /\ prompt /\ flags = {} /\ ~InProgress
           d == ActiveDevice(a, new)
           u == found # {} /\ AllUnlocked(a)
           c == a.sequence \/ ask
           v == IF InProgress THEN a.phase
                ELSE IF ask THEN "NeedsPin"
                ELSE IF found # {} \/ a.keys # {} THEN "Ready" ELSE "WaitingForDevice"
<1>1. AppOK(b)
  BY DropKeysType
<1>2. found \in SUBSET Paths
  BY DEF WatcherState
<1> HIDE DEF b
<1>3. AppOK(a)
  BY <1>1, <1>2 DEF AppOK, AppState, StillConnected
<1>4. new \in Paths \cup {NoPath}
  BY <1>2, FirstType
<1>5. app' = [a EXCEPT !.device = d, !.sessionUnlocked = u, !.sequence = c, !.phase = v]
  BY DEF WatcherApply, b
<1>6. /\ d \in Paths \cup {NoPath} /\ v \in Phases
      /\ u \in BOOLEAN /\ c \in BOOLEAN
  BY <1>3, <1>4, AppFacts, ActiveDeviceType DEF Phases
<1> HIDE DEF a, d, u, c, v
<1>7. QED
  BY <1>3, <1>5, <1>6 DEF AppOK, AppState

LEMMA SignFindApp ==
    ASSUME AppOK(app), NEW t \in Signers, SignFind(t)
    PROVE  AppOK(app')
<1> DEFINE k == signer[t].key
           d == Reselect(Home[k])
           v == IF Home[k] \in pins THEN "WaitingForTouch" ELSE "NeedsPin"
<1>1. d \in Paths \cup {NoPath} /\ v \in Phases
  BY AppFacts DEF Reselect, Phases
<1>2. app' = app \/ app' = [app EXCEPT !.device = d, !.phase = v]
  BY DEF SignFind
<1>3. QED
  BY <1>1, <1>2 DEF AppOK, AppState

LEMMA RecoverApp ==
    ASSUME AppOK(app), NEW prompt \in BOOLEAN, Recover(prompt)
    PROVE  AppOK(app')
<1> DEFINE d == First(app.devices \cap Fido2)
<1>1. d \in Paths \cup {NoPath}
  BY AppFacts, FirstType
<1>2. QED
  BY <1>1 DEF Recover, AppOK, AppState, Phases

LEMMA OneFieldApp ==
    ASSUME AppOK(app)
    PROVE  /\ TrayReload => AppOK(app')
           /\ \A p \in Paths : RequestCreationRefused(p) => AppOK(app')
           /\ UnlockAgent => AppOK(app')
           /\ SetKeyEnabledInMemory => AppOK(app')
           /\ LockAgentFlag => AppOK(app')
           /\ RenameLoads => AppOK(app')
           /\ RenameFails => AppOK(app')
           /\ WatcherApplyFailure => AppOK(app')
           /\ DeactivateClearsPending => AppOK(app')
           /\ RecoverFails => AppOK(app')
           /\ \A t \in Signers : SignFinish(t) => AppOK(app')
<1>1. TrayReload => AppOK(app')
  BY TaskTypes DEF TrayReload, AppOK, AppState, Phases, NoPath
<1>2. \A p \in Paths : RequestCreationRefused(p) => AppOK(app')
  BY TaskTypes DEF RequestCreationRefused, AppOK, AppState, Phases, NoPath
<1>3. UnlockAgent => AppOK(app')
  BY TaskTypes DEF UnlockAgent, AppOK, AppState, Phases, NoPath
<1>4. SetKeyEnabledInMemory => AppOK(app')
  BY TaskTypes DEF SetKeyEnabledInMemory, AppOK, AppState, Phases, NoPath
<1>5. LockAgentFlag => AppOK(app')
  BY TaskTypes DEF LockAgentFlag, AppOK, AppState, Phases, NoPath
<1>6. RenameLoads => AppOK(app')
  BY TaskTypes DEF RenameLoads, AppOK, AppState, Phases, NoPath
<1>7. RenameFails => AppOK(app')
  BY TaskTypes DEF RenameFails, AppOK, AppState, Phases, NoPath
<1>8. WatcherApplyFailure => AppOK(app')
  BY TaskTypes DEF WatcherApplyFailure, AppOK, AppState, Phases, NoPath
<1>9. DeactivateClearsPending => AppOK(app')
  BY TaskTypes DEF DeactivateClearsPending, AppOK, AppState, Phases, NoPath
<1>10. RecoverFails => AppOK(app')
  BY TaskTypes DEF RecoverFails, AppOK, AppState, Phases, NoPath
<1>11. \A t \in Signers : SignFinish(t) => AppOK(app')
  BY TaskTypes DEF SignFinish, AppOK, AppState, Phases, NoPath
<1> QED
  BY <1>1, <1>2, <1>3, <1>4, <1>5, <1>6, <1>7, <1>8, <1>9, <1>10, <1>11

-----------------------------------------------------------------------------
(* Every group of actions                                                  *)

LEMMA EnvironmentType ==
    ASSUME TypeOK, Environment
    PROVE  TypeOK'
<1>0. AppOK(app)
  BY DEF TypeOK, AppOK
<1> USE DEF TypeOK, AppOK, Paths
<1>1. ASSUME NEW p \in Paths, Plug(p)
      PROVE  TypeOK'
  BY <1>1, SessionAssumption DEF Plug
<1>2. ASSUME NEW p \in Paths, Unplug(p)
      PROVE  TypeOK'
  BY <1>2, SessionAssumption DEF Unplug
<1> QED
  BY <1>1, <1>2 DEF Environment

LEMMA UserCommandType ==
    ASSUME TypeOK, UserCommand
    PROVE  TypeOK'
<1>0. AppOK(app)
  BY DEF TypeOK, AppOK
<1> USE DEF TypeOK, AppOK, Command, MainUnchanged
<1>1. ASSUME RequestUnlock
      PROVE  TypeOK'
  <2>1. AppOK(app')
    BY <1>0, <1>1, RequestUnlockApp
  <2>2. QED
    BY <2>1, <1>1, SessionAssumption DEF RequestUnlock
<1>2. ASSUME NEW p \in Paths, RequestDeviceUnlock(p)
      PROVE  TypeOK'
  <2>1. AppOK(app')
    BY <1>0, <1>2, RequestDeviceUnlockApp
  <2>2. QED
    BY <2>1, <1>2, SessionAssumption DEF RequestDeviceUnlock
<1>3. ASSUME DismissAuth
      PROVE  TypeOK'
  <2>1. AppOK(app')
    BY <1>0, <1>3, DismissAuthApp
  <2>2. QED
    BY <2>1, <1>3, SessionAssumption DEF DismissAuth, BumpGeneration
<1>4. ASSUME TrayReload
      PROVE  TypeOK'
  <2>1. AppOK(app')
    BY <1>0, <1>4, OneFieldApp
  <2>2. QED
    BY <2>1, <1>4, SessionAssumption DEF TrayReload
<1>5. ASSUME NEW p \in Paths, NEW requirePin \in BOOLEAN, RequestCreation(p, requirePin)
      PROVE  TypeOK'
  <2>1. AppOK(app')
    BY <1>0, <1>5, RequestCreationApp
  <2>2. QED
    BY <2>1, <1>5, SessionAssumption DEF RequestCreation
<1>6. ASSUME NEW p \in Paths, RequestCreationRefused(p)
      PROVE  TypeOK'
  <2>1. AppOK(app')
    BY <1>0, <1>6, OneFieldApp
  <2>2. QED
    BY <2>1, <1>6, SessionAssumption DEF RequestCreationRefused
<1>7. ASSUME NEW k \in FidoKeys, NEW requirePin \in BOOLEAN, RequestDeletion(k, requirePin)
      PROVE  TypeOK'
  <2>1. AppOK(app')
    BY <1>0, <1>7, RequestDeletionApp
  <2>2. QED
    BY <2>1, <1>7, SessionAssumption DEF RequestDeletion
<1>8. ASSUME NEW k \in SEKeys, CreateSEKey(k)
      PROVE  TypeOK'
  BY <1>8, SessionAssumption DEF CreateSEKey, Keys, MainState, IdleMain
<1>9. ASSUME NEW k \in Keys, NEW on \in BOOLEAN, SetKeyEnabled(k, on)
      PROVE  TypeOK'
  BY <1>9, SessionAssumption DEF SetKeyEnabled, MainState
<1>10. ASSUME LockAgent
      PROVE  TypeOK'
  BY <1>10, SessionAssumption DEF LockAgent, MainState, IdleMain
<1>11. ASSUME UnlockAgent
      PROVE  TypeOK'
  <2>1. AppOK(app')
    BY <1>0, <1>11, OneFieldApp
  <2>2. QED
    BY <2>1, <1>11, SessionAssumption DEF UnlockAgent
<1>12. ASSUME NEW k \in Keys, RenameKey(k)
      PROVE  TypeOK'
  BY <1>12, SessionAssumption DEF RenameKey, MainState
<1> QED
  BY <1>1, <1>2, <1>3, <1>4, <1>5, <1>6, <1>7, <1>8, <1>9, <1>10, <1>11, <1>12 DEF UserCommand

LEMMA MainStepType ==
    ASSUME TypeOK, MainStep
    PROVE  TypeOK'
<1>0. AppOK(app)
  BY DEF TypeOK, AppOK
<1> USE DEF TypeOK, AppOK, MainState, IdleMain
<1>1. ASSUME SetKeyEnabledInMemory
      PROVE  TypeOK'
  <2>1. AppOK(app')
    BY <1>0, <1>1, OneFieldApp
  <2>2. QED
    BY <2>1, <1>1, SessionAssumption DEF SetKeyEnabledInMemory
<1>2. ASSUME LockAgentClear
      PROVE  TypeOK'
  <2>1. AppOK(app')
    BY <1>0, <1>2, LockedAppType DEF LockAgentClear
  <2>2. QED
    BY <2>1, <1>2, SessionAssumption DEF LockAgentClear, LockAgentClear
<1>3. ASSUME LockAgentFlag
      PROVE  TypeOK'
  <2>1. AppOK(app')
    BY <1>0, <1>3, OneFieldApp
  <2>2. QED
    BY <2>1, <1>3, SessionAssumption DEF LockAgentFlag
<1>4. ASSUME RenameLoads
      PROVE  TypeOK'
  <2>1. AppOK(app')
    BY <1>0, <1>4, OneFieldApp
  <2>2. QED
    BY <2>1, <1>4, SessionAssumption DEF RenameLoads
<1>5. ASSUME RenameDone
      PROVE  TypeOK'
  BY <1>5, SessionAssumption DEF RenameDone
<1>6. ASSUME RenameFails
      PROVE  TypeOK'
  <2>1. AppOK(app')
    BY <1>0, <1>6, OneFieldApp
  <2>2. QED
    BY <2>1, <1>6, SessionAssumption DEF RenameFails
<1>7. ASSUME RenameStored
      PROVE  TypeOK'
  <2>1. AppOK(app')
    BY <1>0, <1>7, RenameStoredApp
  <2>2. QED
    BY <2>1, <1>7, SessionAssumption DEF RenameStored
<1>8. ASSUME NEW requirePin \in BOOLEAN, RenameAsksPin(requirePin)
      PROVE  TypeOK'
  <2>1. AppOK(app')
    BY <1>0, <1>8, RenameAsksPinApp
  <2>2. QED
    BY <2>1, <1>8, SessionAssumption DEF RenameAsksPin
<1>9. ASSUME CreateSEKeyInMemory
      PROVE  TypeOK'
  <2>1. AppOK(app')
    BY <1>0, <1>9, CreateSEKeyInMemoryApp DEF CreateSEKeyInMemory
  <2>2. QED
    BY <2>1, <1>9, SessionAssumption DEF CreateSEKeyInMemory
<1> QED
  BY <1>1, <1>2, <1>3, <1>4, <1>5, <1>6, <1>7, <1>8, <1>9 DEF MainStep


OpOK(r) == /\ r \in OpState
           /\ r.pc \in {"begun", "loaded", "applied"} => r.path \in Paths
           /\ r.enabled \subseteq IF r.pc = "applied" THEN r.keys ELSE {}

LEMMA IdleOpType == /\ OpOK(IdleOp)
                    /\ \A p \in Paths \cup {NoPath} :
                          /\ OpOK([IdleOp EXCEPT !.pc = "submitted", !.pin = p])
                          /\ OpOK([IdleOp EXCEPT !.pc = "chosen", !.pin = p])
                    /\ \A k \in SEKeys : OpOK([IdleOp EXCEPT !.pc = "deleting", !.key = k])
BY TaskTypes DEF OpOK, OpState, IdleOp

\* An asynchronous step that leaves the rest well typed is well typed.
LEMMA OpStepType ==
    ASSUME TypeOK, NEW o \in Ops, NEW pc, NEW new, OpOK(new), OpStep(o, pc, new),
           OpUnchanged, AppOK(app'), pins' \subseteq Paths, hardware' \subseteq Keys
    PROVE  TypeOK'
<1>1. op' \in [Ops -> OpState] /\ \A q \in Ops : OpOK(op'[q])
  BY DEF TypeOK, OpStep, OpOK
<1>2. QED
  BY <1>1 DEF TypeOK, OpUnchanged, AppOK, OpOK

LEMMA BeginApp ==
    ASSUME AppOK(app), NEW o \in Ops, Begin(o)
    PROVE  AppOK(app')
<1> DEFINE v == IF app.pending.kind \in {"create", "delete"} THEN "WaitingForTouch"
                                                            ELSE "Loading"
<1>1. app' = app \/ app' = [app EXCEPT !.phase = v]
  BY DEF Begin, RejectedPhase
<1>2. QED
  BY <1>1, PhaseType DEF Phases

LEMMA AsyncType ==
    ASSUME TypeOK, NEW o \in Ops, AsyncCommand(o) \/ AsyncStep(o)
    PROVE  TypeOK'
<1>0. /\ AppOK(app) /\ pins \subseteq Paths /\ hardware \subseteq Keys
      /\ OpOK(op[o]) /\ op[o] \in OpState
  BY DEF TypeOK, AppOK, OpOK
<1>a. app.device \in Paths \cup {NoPath} /\ app.pending \in Tasks
  BY <1>0, AppFacts
<1>1. CASE SubmitPin(o)
  BY <1>0, <1>1, <1>a, IdleOpType, OpStepType DEF SubmitPin
<1>2. CASE Continue(o)
  BY <1>0, <1>2, <1>a, IdleOpType, OpStepType DEF Continue
<1>3. ASSUME NEW k \in SEKeys, DeleteKey(o, k)
      PROVE  TypeOK'
  BY <1>0, <1>3, IdleOpType, OpStepType DEF DeleteKey
<1>4. CASE ContinueWithPin(o)
  <2> DEFINE new == IF op[o].pin \in pins THEN [op[o] EXCEPT !.pc = "submitted"] ELSE IdleOp
  <2>1. op[o].pc = "chosen"
    BY <1>4 DEF ContinueWithPin, OpStep
  <2>2. OpOK(new)
    BY <1>0, <2>1, IdleOpType DEF OpOK, OpState
  <2>3. QED
    BY <1>0, <1>4, <2>2, OpStepType DEF ContinueWithPin
<1>5. CASE Begin(o)
  <2> DEFINE new == [op[o] EXCEPT !.pc = "begun", !.pin = NoPath, !.path = app.device,
                                  !.task = app.pending]
  <2>1. AppOK(app')
    BY <1>0, <1>5, BeginApp
  <2>2. CASE Targeted /\ TaskFound
    <3>1. OpStep(o, "submitted", new)
      BY <1>5, <2>2 DEF Begin
    <3>2. OpOK(new)
      BY <1>0, <1>a, <2>2, <3>1 DEF OpOK, OpState, Targeted, OpStep
    <3>3. QED
      BY <1>0, <1>5, <2>1, <3>1, <3>2, OpStepType DEF Begin
  <2>3. CASE ~(Targeted /\ TaskFound)
    BY <1>0, <1>5, <2>1, <2>3, IdleOpType, OpStepType DEF Begin
  <2>4. QED
    BY <2>2, <2>3
<1>6. CASE Hardware(o)
  <2> DEFINE p == op[o].path
             done == IF p \in attached THEN Effects(op[o].task, p) ELSE {}
  <2>0. op[o].pc = "begun"
    BY <1>6 DEF Hardware, OpStep
  <2>1. \A h \in done : h \subseteq Keys
    BY <1>0 DEF Effects, Created, Deleted, Renamed, KeysOn, Keys
  <2>2. \A K \in SUBSET FidoKeys : OpOK([op[o] EXCEPT !.pc = "loaded", !.keys = K])
    BY <1>0, <2>0 DEF OpOK, OpState
  <2>3. \A r \in {"invalid", "failed"} :
            OpOK([op[o] EXCEPT !.pc = "loaded", !.result = r])
    BY <1>0, <2>0 DEF OpOK, OpState
  <2>4. hardware' \subseteq Keys
    BY <1>0, <1>6, <2>1 DEF Hardware
  <2>5. \E new : OpOK(new) /\ OpStep(o, "begun", new)
    <3>1. ASSUME NEW h \in done,
                 OpStep(o, "begun", [op[o] EXCEPT !.pc = "loaded",
                                                  !.keys = Resident(h, p)])
          PROVE  \E new : OpOK(new) /\ OpStep(o, "begun", new)
      <4>1. Resident(h, p) \in SUBSET FidoKeys
        BY DEF Resident, KeysOn
      <4>2. QED
        BY <2>2, <3>1, <4>1
    <3>2. QED
      BY <1>6, <2>3, <3>1 DEF Hardware
  <2>6. QED
    BY <1>0, <1>6, <2>4, <2>5, OpStepType DEF Hardware
<1>7. CASE Apply(o)
  <2> DEFINE good == [op[o] EXCEPT !.pc = "applied", !.enabled = op[o].keys \ disabled]
             bad == [op[o] EXCEPT !.result = "failed", !.keys = {}]
  <2>1. op[o].pc = "loaded"
    BY <1>7 DEF Apply, OpStep
  <2>2. OpOK(good) /\ OpOK(bad)
    BY <1>0, <2>1 DEF OpOK, OpState
  <2>3. QED
    BY <1>0, <1>7, <2>2, OpStepType DEF Apply
<1>8. CASE Merge(o)
  <2>1. /\ op[o].pc = "applied" /\ op[o].path \in Paths
        /\ op[o].enabled \subseteq op[o].keys
    BY <1>0, <1>8 DEF Merge, OpStep, OpOK
  <2>2. AppOK(app')
    BY <1>0, <1>8, <2>1, MergeApp
  <2>3. pins' \subseteq Paths
    BY <1>0, <1>8, <2>1 DEF Merge
  <2>4. hardware' \subseteq Keys /\ OpUnchanged /\ OpStep(o, "applied", IdleOp)
    BY <1>0, <1>8 DEF Merge
  <2>5. QED
    BY <2>2, <2>3, <2>4, IdleOpType, OpStepType
<1>9. CASE MergeFailed(o)
  <2>1. AppOK(app')
    BY <1>0, <1>9, MergeFailedApp
  <2>2. /\ pins' \subseteq Paths /\ hardware' \subseteq Keys
        /\ OpUnchanged /\ OpStep(o, "loaded", IdleOp)
    BY <1>0, <1>9 DEF MergeFailed
  <2>3. QED
    BY <2>1, <2>2, IdleOpType, OpStepType
<1>10. CASE DeleteHardware(o)
  <2>1. OpOK([op[o] EXCEPT !.pc = "deleted"]) \/ op[o].pc # "deleting"
    BY <1>0 DEF OpOK, OpState
  <2>2. QED
    BY <1>0, <1>10, <2>1, IdleOpType, OpStepType DEF DeleteHardware, OpStep
<1>11. CASE DeleteDone(o)
  <2>1. AppOK(app')
    BY <1>0, <1>11, DropKeysType, PhaseType DEF DeleteDone, Phases
  <2>2. QED
    BY <1>0, <1>11, <2>1, IdleOpType, OpStepType DEF DeleteDone
<1>12. QED
  BY <1>1, <1>2, <1>3, <1>4, <1>5, <1>6, <1>7, <1>8, <1>9, <1>10, <1>11
     DEF AsyncCommand, AsyncStep

LEMMA WatcherType ==
    ASSUME TypeOK, WatcherStep
    PROVE  TypeOK'
<1>0. AppOK(app)
  BY DEF TypeOK, AppOK
<1> USE DEF TypeOK, AppOK, WatcherUnchanged, WatcherState, IdleWatcher
<1>1. ASSUME WatcherScan
      PROVE  TypeOK'
  BY <1>1, SessionAssumption DEF WatcherScan
<1>2. ASSUME WatcherScanFails
      PROVE  TypeOK'
  BY <1>2, SessionAssumption DEF WatcherScanFails
<1>3. ASSUME WatcherApplyFailure
      PROVE  TypeOK'
  <2>1. AppOK(app')
    BY <1>0, <1>3, OneFieldApp
  <2>2. QED
    BY <2>1, <1>3, SessionAssumption DEF WatcherApplyFailure
<1>4. ASSUME NEW prompt \in BOOLEAN, WatcherApply(prompt)
      PROVE  TypeOK'
  <2>1. AppOK(app')
    BY <1>0, <1>4, WatcherApplyApp
  <2>2. QED
    BY <2>1, <1>4, SessionAssumption DEF WatcherApply, StillConnected
<1> QED
  BY <1>1, <1>2, <1>3, <1>4 DEF WatcherStep

LEMMA LockerType ==
    ASSUME TypeOK, LockerEvent \/ LockerSection
    PROVE  TypeOK'
<1>0. AppOK(app)
  BY DEF TypeOK, AppOK
<1> USE DEF TypeOK, AppOK, LockerStep, LockerSteps, Lockers
<1>1. ASSUME AutoLock
      PROVE  TypeOK'
  BY <1>1, SessionAssumption DEF AutoLock
<1>2. ASSUME NEW f \in Flags, Deactivate(f)
      PROVE  TypeOK'
  BY <1>2, SessionAssumption DEF Deactivate, BumpGeneration
<1>3. ASSUME NEW f \in Flags, Reactivate(f)
      PROVE  TypeOK'
  BY <1>3, SessionAssumption DEF Reactivate
<1>4. ASSUME DeactivateClearsPending
      PROVE  TypeOK'
  <2>1. AppOK(app')
    BY <1>0, <1>4, OneFieldApp
  <2>2. QED
    BY <2>1, <1>4, SessionAssumption DEF DeactivateClearsPending
<1>5. ASSUME DeactivateClearsPins
      PROVE  TypeOK'
  BY <1>5, SessionAssumption DEF DeactivateClearsPins
<1>6. ASSUME NEW w \in Lockers, LockerClearsApp(w)
      PROVE  TypeOK'
  <2>1. AppOK(app')
    BY <1>0, <1>6, LockedAppType DEF LockerClearsApp
  <2>2. QED
    BY <2>1, <1>6, SessionAssumption DEF LockerClearsApp
<1>7. ASSUME NEW prompt \in BOOLEAN, Recover(prompt)
      PROVE  TypeOK'
  <2>1. AppOK(app')
    BY <1>0, <1>7, RecoverApp
  <2>2. QED
    BY <2>1, <1>7, SessionAssumption DEF Recover
<1>8. ASSUME RecoverFails
      PROVE  TypeOK'
  <2>1. AppOK(app')
    BY <1>0, <1>8, OneFieldApp
  <2>2. QED
    BY <2>1, <1>8, SessionAssumption DEF RecoverFails
<1> QED
  BY <1>1, <1>2, <1>3, <1>4, <1>5, <1>6, <1>7, <1>8 DEF LockerEvent, LockerSection

LEMMA SignerType ==
    ASSUME TypeOK, NEW t \in Signers,
           SignerStep(t) \/ \E k \in Keys : SignRequest(t, k)
    PROVE  TypeOK'
<1>0. AppOK(app) /\ signer[t] \in SignerState
  BY DEF TypeOK, AppOK
<1>a. ASSUME NEW from, NEW new \in SignerState, SignStep(t, from, new), AppOK(app'),
             UNCHANGED pins, stale' \subseteq Signers
      PROVE  TypeOK'
  BY <1>a DEF TypeOK, AppOK, SignStep
<1>b. \A c \in {"idle", "checked", "found", "signing", "done"},
         r \in {"none", "ok", "needsPin", "failed"} :
            /\ [signer[t] EXCEPT !.pc = c, !.result = r] \in SignerState
            /\ [signer[t] EXCEPT !.pc = c] \in SignerState
  BY <1>0 DEF SignerState
<1>c. IdleSigner \in SignerState /\ stale \subseteq Signers
  BY DEF IdleSigner, SignerState, TypeOK
<1>1. ASSUME NEW k \in Keys, SignRequest(t, k)
      PROVE  TypeOK'
  <2>1. [IdleSigner EXCEPT !.pc = "checked", !.key = k] \in SignerState
    BY DEF IdleSigner, SignerState
  <2>2. QED
    BY <1>0, <1>1, <1>a, <1>c, <2>1 DEF SignRequest
<1>2. CASE SignFind(t)
  <2>1. AppOK(app')
    BY <1>0, <1>2, SignFindApp
  <2>2. QED
    BY <1>0, <1>2, <1>a, <1>b, <1>c, <2>1 DEF SignFind
<1>3. CASE Authorize(t)
  <2>1. UNCHANGED <<app, pins, stale>>
    BY <1>3 DEF Authorize
  <2>2. PICK c \in {"signing", "done"}, r \in {"none", "needsPin", "failed"} :
            SignStep(t, "found", [signer[t] EXCEPT !.pc = c, !.result = r])
    BY <1>3 DEF Authorize
  <2>3. QED
    BY <1>0, <1>a, <1>b, <1>c, <2>1, <2>2
<1>4. CASE SignHardware(t)
  <2>1. UNCHANGED <<app, pins, stale>>
    BY <1>4 DEF SignHardware
  <2>2. PICK r \in {"ok", "failed"} :
            SignStep(t, "signing", [signer[t] EXCEPT !.pc = "done", !.result = r])
    BY <1>4 DEF SignHardware
  <2>3. QED
    BY <1>0, <1>a, <1>b, <1>c, <2>1, <2>2
<1>5. CASE SignFinish(t)
  <2>1. AppOK(app')
    BY <1>0, <1>5, OneFieldApp
  <2>2. QED
    BY <1>0, <1>5, <1>a, <1>c, <2>1 DEF SignFinish
<1>6. QED
  BY <1>1, <1>2, <1>3, <1>4, <1>5 DEF SignerStep

\* Every variable has its type, an enabled key is in memory, an operation on the
\* hardware has a device and a creation in progress a Secure Enclave key, in every
\* reachable state, whatever the devices, keys, commands and connections are (all
\* handlers of commands.rs, watcher.rs, settings.rs, lifecycle.rs and server.rs).
THEOREM TypeCorrect == Spec => []TypeOK
<1>1. Init => TypeOK
  <2> SUFFICES ASSUME Init PROVE TypeOK
    OBVIOUS
  <2>1. app \in AppState /\ app.enabled \subseteq app.keys
    BY SessionAssumption, TaskTypes DEF Init, AppState, Phases, Keys
  <2>2. main \in MainState /\ main.pc = "idle" /\ watcher \in WatcherState
    BY DEF Init, MainState, IdleMain, WatcherState, IdleWatcher
  <2>3. /\ op \in [Ops -> OpState]
        /\ \A o \in Ops : op[o].pc = "idle" /\ op[o].enabled = {}
    BY TaskTypes DEF Init, OpState, IdleOp
  <2>4. locker \in [Lockers -> LockerSteps] /\ signer \in [Signers -> SignerState]
    BY DEF Init, LockerSteps, SignerState, IdleSigner
  <2>5. QED
    BY <2>1, <2>2, <2>3, <2>4, SessionAssumption DEF Init, TypeOK
<1>2. TypeOK /\ [Next]_vars => TypeOK'
  <2> SUFFICES ASSUME TypeOK, [Next]_vars PROVE TypeOK'
    OBVIOUS
  <2>1. CASE Next
    BY <2>1, EnvironmentType, UserCommandType, MainStepType, AsyncType,
       WatcherType, LockerType, SignerType DEF Next
  <2>2. CASE UNCHANGED vars
    BY <2>2 DEF vars, TypeOK
  <2>3. QED
    BY <2>1, <2>2
<1>3. QED
  BY <1>1, <1>2, PTL DEF Spec

-----------------------------------------------------------------------------
(* Invariants of the session: what each handler does to the AppState       *)

\* What the PIN cache and the AppState say of the devices.
DeviceSound == TargetConnected /\ SessionFlagSound /\ UnlockedHasPin

\* A section lists and drops no Secure Enclave key.
SameEnclaveKeys == app'.keys \cap SEKeys = app.keys \cap SEKeys

\* It begins no touch of which nothing is pending, and no loading.
NoNewTouch ==
    app'.phase = "WaitingForTouch" =>
        \/ app'.pending # NoTask
        \/ app.phase = "WaitingForTouch" /\ app'.pending = app.pending

NoNewLoading == app'.phase = "Loading" => app.phase = "Loading"

Calm == SameEnclaveKeys /\ NoNewTouch /\ NoNewLoading

LEMMA TypeGivesApp == TypeOK => AppOK(app) /\ pins \subseteq Paths /\ NoPath \notin pins
BY DEF TypeOK, AppOK, Paths, NoPath

LEMMA FirstSpec == \A S \in SUBSET Paths : /\ First(S) = NoPath <=> S = {}
                                           /\ S # {} => First(S) \in S
<1>1. Paths \subseteq Nat /\ NoPath \notin Paths
  BY SessionAssumption DEF Paths, NoPath
<1>2. QED
  BY <1>1, FirstIsAMember

LEMMA DropKeysFields ==
    ASSUME NEW a, AppOK(a), NEW S
    PROVE  /\ DropKeys(a, S).keys = a.keys \ S
           /\ DropKeys(a, S).phase = a.phase /\ DropKeys(a, S).pending = a.pending
           /\ DropKeys(a, S).devices = a.devices /\ DropKeys(a, S).device = a.device
           /\ DropKeys(a, S).unlocked = a.unlocked
           /\ DropKeys(a, S).sessionUnlocked = a.sessionUnlocked
           /\ DropKeys(a, S).sequence = a.sequence
BY DEF AppOK, AppState, DropKeys

\* c is a with the keys S dropped and the session of p closed.
ClosedAs(c, a, S, p) ==
    /\ AppOK(c) /\ c.sessionUnlocked = FALSE /\ c.unlocked = a.unlocked \ {p}
    /\ c.keys = a.keys \ S /\ c.phase = a.phase /\ c.pending = a.pending
    /\ c.devices = a.devices /\ c.device = a.device

LEMMA CloseFields ==
    ASSUME NEW a, AppOK(a), NEW p
    PROVE  ClosedAs(Close(a, p), a, {}, p)
<1>1. Close(a, p).sessionUnlocked = FALSE /\ Close(a, p).unlocked = a.unlocked \ {p}
  BY DEF AppOK, AppState, Close
<1>2. /\ Close(a, p).keys = a.keys /\ Close(a, p).phase = a.phase
      /\ Close(a, p).pending = a.pending
      /\ Close(a, p).devices = a.devices /\ Close(a, p).device = a.device
  BY DEF AppOK, AppState, Close
<1>3. AppOK(Close(a, p))
  BY CloseType
<1>4. QED
  BY <1>1, <1>2, <1>3 DEF ClosedAs

LEMMA CloseDroppedFields ==
    ASSUME NEW a, AppOK(a), NEW S, NEW p
    PROVE  ClosedAs(Close(DropKeys(a, S), p), a, S, p)
<1> DEFINE d == DropKeys(a, S)
<1>1. AppOK(d)
  BY DropKeysType
<1>2. /\ d.unlocked = a.unlocked /\ d.keys = a.keys \ S /\ d.phase = a.phase
      /\ d.pending = a.pending /\ d.devices = a.devices /\ d.device = a.device
  BY DropKeysFields
<1> HIDE DEF d
<1>3. ClosedAs(Close(d, p), d, {}, p)
  BY <1>1, CloseFields
<1>4. ClosedAs(Close(d, p), a, S, p)
  BY <1>2, <1>3 DEF ClosedAs
<1>5. QED
  BY <1>4 DEF d

LEMMA AskFields ==
    ASSUME NEW a, AppOK(a), NEW d, NEW t
    PROVE  /\ Ask(a, d, t).device = d /\ Ask(a, d, t).phase = "NeedsPin" /\ Ask(a, d, t).pending = t
           /\ Ask(a, d, t).sessionUnlocked = a.sessionUnlocked
           /\ Ask(a, d, t).unlocked = a.unlocked /\ Ask(a, d, t).keys = a.keys
           /\ Ask(a, d, t).devices = a.devices
BY DEF AppOK, AppState, Ask

LEMMA LockedAppFields ==
    ASSUME NEW a, AppOK(a)
    PROVE  /\ LockedApp(a).sessionUnlocked = FALSE /\ LockedApp(a).unlocked = {}
           /\ LockedApp(a).keys = a.keys \ FidoKeys
           /\ LockedApp(a).phase \in {"NeedsPin", a.phase} /\ LockedApp(a).pending = a.pending
           /\ LockedApp(a).devices = a.devices /\ LockedApp(a).device = a.device
BY DEF AppOK, AppState, LockedApp, DropKeys

LEMMA KeysApart == SEKeys \cap FidoKeys = {} /\ \A p : KeysOn(p) \cap SEKeys = {}
BY SessionAssumption DEF KeysOn

\* Clearing is a matter of the main thread and of the lockers.
LEMMA ClearingStays ==
    ASSUME Clearing, main'.pc = main.pc, locker' = locker
    PROVE  Clearing'
BY DEF Clearing

\* The fields decide.
LEMMA SoundByFields ==
    ASSUME app'.device \in app'.devices \cup {NoPath},
           app'.sessionUnlocked => app'.devices \cap Fido2 \subseteq app'.unlocked,
           app'.unlocked \subseteq pins' \/ Clearing'
    PROVE  DeviceSound'
BY DEF DeviceSound, TargetConnected, SessionFlagSound, UnlockedHasPin, Clearing

LEMMA RequestUnlockSound ==
    ASSUME TypeOK, DeviceSound, RequestUnlock
    PROVE  DeviceSound' /\ Calm
<1> USE KeysApart
<1> DEFINE all == AllUnlocked(app)
           r == [DropKeys(app, FidoKeys) EXCEPT !.unlocked = {}]
           a == IF all THEN r ELSE app
           target == First(LockedDevices(a))
           asked == [Ask(a, target, NoTask) EXCEPT !.sequence = TRUE, !.sessionUnlocked = FALSE]
<1>0. AppOK(app)
  BY TypeGivesApp
<1>1. AppOK(DropKeys(app, FidoKeys))
  BY <1>0, DropKeysType
<1>2. /\ AppOK(r) /\ r.unlocked = {} /\ r.keys = app.keys \ FidoKeys
      /\ r.phase = app.phase /\ r.pending = app.pending
      /\ r.devices = app.devices /\ r.device = app.device
      /\ r.sessionUnlocked = app.sessionUnlocked
  <2>1. /\ r.unlocked = {} /\ r.keys = DropKeys(app, FidoKeys).keys
        /\ r.phase = DropKeys(app, FidoKeys).phase /\ r.pending = DropKeys(app, FidoKeys).pending
        /\ r.devices = DropKeys(app, FidoKeys).devices /\ r.device = DropKeys(app, FidoKeys).device
        /\ r.sessionUnlocked = DropKeys(app, FidoKeys).sessionUnlocked
    BY <1>1 DEF AppOK, AppState
  <2>2. AppOK(r)
    BY <1>1 DEF AppOK, AppState
  <2>3. QED
    BY <1>0, <2>1, <2>2, DropKeysFields
<1> HIDE DEF r
<1>3. /\ AppOK(a) /\ a.unlocked = (IF all THEN {} ELSE app.unlocked)
      /\ a.keys \cap SEKeys = app.keys \cap SEKeys
      /\ a.phase = app.phase /\ a.pending = app.pending
      /\ a.devices = app.devices /\ a.device = app.device
      /\ a.sessionUnlocked = app.sessionUnlocked
  BY <1>0, <1>2
<1>4. /\ app' = (IF target = NoPath THEN a ELSE asked)
      /\ pins' = (IF all THEN {} ELSE pins) /\ main' = main /\ locker' = locker
  BY DEF RequestUnlock, MainUnchanged, r
<1>5. all => app.devices \cap Fido2 \subseteq app.unlocked
  BY DEF AllUnlocked, LockedDevices
<1> HIDE DEF a, all
<1>6. LockedDevices(a) = (a.devices \cap Fido2) \ a.unlocked
  BY DEF LockedDevices
<1>7. /\ target = NoPath => LockedDevices(a) = {}
      /\ target # NoPath => target \in a.devices
  BY <1>3, <1>6, AppFacts, FirstSpec
<1>8. /\ asked.device = target /\ asked.devices = a.devices /\ asked.unlocked = a.unlocked
      /\ asked.sessionUnlocked = FALSE /\ asked.phase = "NeedsPin" /\ asked.keys = a.keys
  <2>1. AppOK(Ask(a, target, NoTask))
    BY <1>3, AppFacts, FirstType, AskType, TaskTypes
  <2>2. /\ asked.device = Ask(a, target, NoTask).device /\ asked.devices = Ask(a, target, NoTask).devices
        /\ asked.unlocked = Ask(a, target, NoTask).unlocked /\ asked.sessionUnlocked = FALSE
        /\ asked.phase = Ask(a, target, NoTask).phase /\ asked.keys = Ask(a, target, NoTask).keys
    BY <2>1 DEF AppOK, AppState
  <2>3. QED
    BY <1>3, <2>2, AskFields
<1> HIDE DEF target, asked
<1>9. Calm
  BY <1>3, <1>4, <1>8 DEF Calm, SameEnclaveKeys, NoNewTouch, NoNewLoading
<1>10. app'.device \in app'.devices \cup {NoPath}
  BY <1>3, <1>4, <1>7, <1>8 DEF DeviceSound, TargetConnected
<1>11. app'.sessionUnlocked => app'.devices \cap Fido2 \subseteq app'.unlocked
  BY <1>3, <1>4, <1>6, <1>7, <1>8 DEF DeviceSound, SessionFlagSound
<1>12. app'.unlocked \subseteq pins' \/ Clearing'
  BY <1>3, <1>4, <1>8, ClearingStays DEF DeviceSound, UnlockedHasPin
<1>13. QED
  BY <1>9, <1>10, <1>11, <1>12, SoundByFields

LEMMA RequestDeviceUnlockSound ==
    ASSUME TypeOK, DeviceSound, NEW p \in Paths, RequestDeviceUnlock(p)
    PROVE  DeviceSound' /\ Calm
<1> USE KeysApart
<1> DEFINE c == Close(DropKeys(app, KeysOn(p)), p)
           a == Ask(c, p, NoTask)
<1>1. AppOK(app)
  BY TypeGivesApp
<1>2. /\ AppOK(c) /\ c.sessionUnlocked = FALSE /\ c.unlocked = app.unlocked \ {p}
      /\ c.keys = app.keys \ KeysOn(p) /\ c.devices = app.devices
  <2>1. ClosedAs(c, app, KeysOn(p), p)
    BY <1>1, CloseDroppedFields
  <2>2. QED
    BY <2>1 DEF ClosedAs
<1>3. app' = [a EXCEPT !.sequence = FALSE] /\ pins' = pins \ {p} /\ p \in app.devices
      /\ main' = main /\ locker' = locker
  BY DEF RequestDeviceUnlock, MainUnchanged
<1> HIDE DEF c
<1>4. /\ AppOK(a) /\ a.device = p /\ a.phase = "NeedsPin" /\ a.sessionUnlocked = c.sessionUnlocked
      /\ a.unlocked = c.unlocked /\ a.keys = c.keys /\ a.devices = c.devices
  BY <1>2, AskFields, AskType, TaskTypes
<1> HIDE DEF a
<1>5. /\ app'.device = p /\ app'.phase = "NeedsPin" /\ app'.sessionUnlocked = a.sessionUnlocked
      /\ app'.unlocked = a.unlocked /\ app'.keys = a.keys /\ app'.devices = a.devices
  BY <1>3, <1>4 DEF AppOK, AppState
<1>6. Calm
  BY <1>2, <1>4, <1>5 DEF Calm, SameEnclaveKeys, NoNewTouch, NoNewLoading
<1>7. app'.unlocked \subseteq pins' \/ Clearing'
  BY <1>2, <1>3, <1>4, <1>5, ClearingStays DEF DeviceSound, UnlockedHasPin
<1>8. QED
  BY <1>2, <1>3, <1>4, <1>5, <1>6, <1>7, SoundByFields

LEMMA DismissAuthSound ==
    ASSUME TypeOK, DeviceSound, DismissAuth
    PROVE  DeviceSound' /\ Calm
<1> USE KeysApart
<1> DEFINE p == app.device
           revoke == app.pending.kind \in {"delete", "rename"}
           noted == [app EXCEPT !.sessionUnlocked = FALSE]
           closed == Close(DropKeys(app, KeysOn(p)), p)
           a == IF ~revoke THEN app ELSE IF p = NoPath THEN noted ELSE closed
           v == DismissedPhase(a)
<1>0. AppOK(app) /\ NoPath \notin pins
  BY TypeGivesApp
<1>1. /\ AppOK(noted) /\ noted.sessionUnlocked = FALSE /\ noted.unlocked = app.unlocked
      /\ noted.keys = app.keys /\ noted.phase = app.phase
      /\ noted.devices = app.devices /\ noted.device = app.device
  BY <1>0 DEF AppOK, AppState
<1>2. /\ AppOK(closed) /\ closed.sessionUnlocked = FALSE /\ closed.unlocked = app.unlocked \ {p}
      /\ closed.keys = app.keys \ KeysOn(p) /\ closed.phase = app.phase
      /\ closed.devices = app.devices /\ closed.device = app.device
  <2>1. ClosedAs(closed, app, KeysOn(p), p)
    BY <1>0, CloseDroppedFields
  <2> HIDE DEF closed
  <2>2. QED
    BY <2>1 DEF ClosedAs
<1>3. /\ app' = [a EXCEPT !.pending = NoTask, !.sequence = FALSE, !.phase = v]
      /\ pins' = (IF revoke THEN pins \ {p} ELSE pins) /\ main' = main /\ locker' = locker
  BY DEF DismissAuth, MainUnchanged
<1> HIDE DEF noted, closed, revoke
<1>4. /\ AppOK(a) /\ a.keys \cap SEKeys = app.keys \cap SEKeys /\ a.phase = app.phase
      /\ a.devices = app.devices /\ a.device = app.device
      /\ a.sessionUnlocked => app.sessionUnlocked /\ a.unlocked = app.unlocked
      /\ a.unlocked \subseteq app.unlocked
      /\ revoke => p = NoPath \/ a.unlocked = app.unlocked \ {p}
  BY <1>0, <1>1, <1>2
<1> HIDE DEF a
<1>5. v \in {"Ready", "WaitingForDevice"} \/ (v = app.phase /\ app.pending = NoTask)
  BY <1>4 DEF DismissedPhase
<1> HIDE DEF v
<1>6. /\ app'.keys = a.keys /\ app'.phase = v /\ app'.pending = NoTask
      /\ app'.devices = a.devices /\ app'.device = a.device
      /\ app'.sessionUnlocked = a.sessionUnlocked /\ app'.unlocked = a.unlocked
  BY <1>3, <1>4 DEF AppOK, AppState
<1>7. Calm
  BY <1>4, <1>5, <1>6 DEF Calm, SameEnclaveKeys, NoNewTouch, NoNewLoading
<1>8. app'.device \in app'.devices \cup {NoPath}
  BY <1>4, <1>6 DEF DeviceSound, TargetConnected
<1>9. app'.sessionUnlocked => app'.devices \cap Fido2 \subseteq app'.unlocked
  BY <1>4, <1>6 DEF DeviceSound, SessionFlagSound
<1>10. app'.unlocked \subseteq pins' \/ Clearing'
  BY <1>0, <1>3, <1>4, <1>6, ClearingStays DEF DeviceSound, UnlockedHasPin
<1>11. QED
  BY <1>7, <1>8, <1>9, <1>10, SoundByFields

LEMMA RequestCreationSound ==
    ASSUME TypeOK, DeviceSound, NEW p \in Paths, NEW requirePin \in BOOLEAN,
           RequestCreation(p, requirePin)
    PROVE  DeviceSound' /\ Calm
<1> USE KeysApart
<1> DEFINE started == [app EXCEPT !.device = p, !.phase = "WaitingForTouch", !.pending = Creation]
           asked == Ask(app, p, Creation)
           closed == Close(DropKeys(asked, KeysOn(p)), p)
<1>0. AppOK(app) /\ AppOK(asked) /\ p \in app.devices
  BY TypeGivesApp, AskType, TaskTypes DEF RequestCreation, DeviceSound, TargetConnected, Paths, NoPath
<1>1. /\ started.device = p /\ started.devices = app.devices /\ started.unlocked = app.unlocked
      /\ started.sessionUnlocked = app.sessionUnlocked /\ started.keys = app.keys
      /\ started.phase = "WaitingForTouch" /\ started.pending = Creation
  BY <1>0 DEF AppOK, AppState
<1>2. /\ asked.device = p /\ asked.devices = app.devices /\ asked.unlocked = app.unlocked
      /\ asked.keys = app.keys /\ asked.phase = "NeedsPin"
  BY <1>0, AskFields
<1>3. \/ app' = started /\ pins' = pins /\ main' = main /\ locker' = locker
      \/ app' = closed /\ pins' = pins \ {p} /\ main' = main /\ locker' = locker
  BY DEF RequestCreation, MainUnchanged
<1> HIDE DEF started, asked
<1>4. /\ closed.device = asked.device /\ closed.devices = asked.devices
      /\ closed.unlocked = asked.unlocked \ {p} /\ closed.sessionUnlocked = FALSE
      /\ closed.keys = asked.keys \ KeysOn(p) /\ closed.phase = asked.phase
  <2>1. ClosedAs(closed, asked, KeysOn(p), p)
    BY <1>0, CloseDroppedFields
  <2> HIDE DEF closed
  <2>2. QED
    BY <2>1 DEF ClosedAs
<1> HIDE DEF closed
<1>5. Creation # NoTask
  BY DEF Creation, NoTask
<1>6. Calm
  BY <1>1, <1>2, <1>3, <1>4, <1>5 DEF Calm, SameEnclaveKeys, NoNewTouch, NoNewLoading
<1>7. app'.unlocked \subseteq pins' \/ Clearing'
  BY <1>1, <1>2, <1>3, <1>4, ClearingStays DEF DeviceSound, UnlockedHasPin
<1>8. app'.sessionUnlocked => app'.devices \cap Fido2 \subseteq app'.unlocked
  BY <1>1, <1>3, <1>4 DEF DeviceSound, SessionFlagSound
<1>9. QED
  BY <1>0, <1>1, <1>2, <1>3, <1>4, <1>6, <1>7, <1>8, SoundByFields

\* The deletion of a key and the rename of one ask for a PIN, or fail, alike.
LEMMA AskOrFailSound ==
    ASSUME TypeOK, DeviceSound, NEW p \in Paths, NEW task \in Tasks,
           \/ p \notin app.devices /\ app' = [app EXCEPT !.device = NoPath] /\ pins' = pins
           \/ p \in app.devices /\ app' = Close(Ask(app, p, task), p) /\ pins' = pins \ {p},
           Clearing => Clearing'
    PROVE  DeviceSound' /\ Calm
<1> USE KeysApart
<1> DEFINE asked == Ask(app, p, task)
           closed == Close(asked, p)
<1>0. AppOK(app) /\ AppOK(asked)
  BY TypeGivesApp, AskType
<1>1. /\ asked.device = p /\ asked.devices = app.devices /\ asked.unlocked = app.unlocked
      /\ asked.keys = app.keys /\ asked.phase = "NeedsPin"
  BY <1>0, AskFields
<1>2. \/ p \notin app.devices /\ app' = [app EXCEPT !.device = NoPath] /\ pins' = pins
      \/ p \in app.devices /\ app' = closed /\ pins' = pins \ {p}
  OBVIOUS
<1> HIDE DEF asked
<1>3. /\ closed.device = asked.device /\ closed.devices = asked.devices
      /\ closed.unlocked = asked.unlocked \ {p} /\ closed.sessionUnlocked = FALSE
      /\ closed.keys = asked.keys /\ closed.phase = asked.phase
  <2>1. ClosedAs(closed, asked, {}, p)
    BY <1>0, CloseFields
  <2> HIDE DEF closed
  <2>2. QED
    BY <2>1 DEF ClosedAs
<1> HIDE DEF closed
<1>4. CASE app' = [app EXCEPT !.device = NoPath] /\ pins' = pins
  <2>1. /\ app'.device = NoPath /\ app'.devices = app.devices /\ app'.unlocked = app.unlocked
        /\ app'.keys = app.keys /\ app'.phase = app.phase /\ app'.pending = app.pending
        /\ app'.sessionUnlocked = app.sessionUnlocked
    BY <1>0, <1>4 DEF AppOK, AppState
  <2>2. QED
    BY <1>4, <2>1, SoundByFields DEF Calm, SameEnclaveKeys, NoNewTouch, NoNewLoading, DeviceSound, SessionFlagSound, UnlockedHasPin
<1>5. CASE p \in app.devices /\ app' = closed /\ pins' = pins \ {p}
  <2>1. app'.unlocked \subseteq pins' \/ Clearing'
    BY <1>1, <1>3, <1>5 DEF DeviceSound, UnlockedHasPin
  <2>2. QED
    BY <1>1, <1>3, <1>5, <2>1, SoundByFields DEF Calm, SameEnclaveKeys, NoNewTouch, NoNewLoading
<1>6. QED
  BY <1>2, <1>4, <1>5

LEMMA RequestDeletionSound ==
    ASSUME TypeOK, DeviceSound, NEW k \in FidoKeys, NEW requirePin \in BOOLEAN,
           RequestDeletion(k, requirePin)
    PROVE  DeviceSound' /\ Calm
<1> DEFINE p == Home[k]
           task == [kind |-> "delete", key |-> k]
           started == [app EXCEPT !.device = p, !.phase = "WaitingForTouch", !.pending = task]
<1>0. p \in Paths /\ task \in Tasks /\ task # NoTask /\ AppOK(app)
  BY SessionAssumption, TaskTypes, TypeGivesApp DEF NoTask
<1>1. Clearing => Clearing'
  BY ClearingStays DEF RequestDeletion, MainUnchanged
<1>2. /\ started.device = p /\ started.devices = app.devices /\ started.unlocked = app.unlocked
      /\ started.sessionUnlocked = app.sessionUnlocked /\ started.keys = app.keys
      /\ started.phase = "WaitingForTouch" /\ started.pending = task
  BY <1>0 DEF AppOK, AppState
<1> HIDE DEF started
<1>3. \/ p \notin app.devices /\ app' = [app EXCEPT !.device = NoPath] /\ pins' = pins
      \/ p \in app.devices /\ app' = started /\ pins' = pins
      \/ p \in app.devices /\ app' = Close(Ask(app, p, task), p) /\ pins' = pins \ {p}
  BY DEF RequestDeletion, started
<1>4. CASE p \in app.devices /\ app' = started /\ pins' = pins
  BY <1>0, <1>1, <1>2, <1>4, SoundByFields DEF Calm, SameEnclaveKeys, NoNewTouch, NoNewLoading, DeviceSound, SessionFlagSound, UnlockedHasPin
<1> HIDE DEF task, p
<1>5. QED
  BY <1>0, <1>1, <1>3, <1>4, AskOrFailSound

LEMMA RenameAsksPinSound ==
    ASSUME TypeOK, DeviceSound, NEW requirePin \in BOOLEAN, RenameAsksPin(requirePin)
    PROVE  DeviceSound' /\ Calm
<1> DEFINE k == main.key
<1>0. main.key \in FidoKeys /\ Home[main.key] \in Paths /\ [kind |-> "rename", key |-> main.key] \in Tasks
  BY SessionAssumption, TaskTypes DEF RenameAsksPin
<1>1. Clearing => Clearing'
  BY DEF RenameAsksPin, Clearing
<1>2. PICK p \in Paths, task \in Tasks :
         \/ p \notin app.devices /\ app' = [app EXCEPT !.device = NoPath] /\ pins' = pins
         \/ p \in app.devices /\ app' = Close(Ask(app, p, task), p) /\ pins' = pins \ {p}
  BY <1>0 DEF RenameAsksPin
<1>3. QED
  BY <1>1, <1>2, AskOrFailSound

\* A section that leaves the devices, what is unlocked and the flag alone.
LEMMA SoundIfKept ==
    ASSUME DeviceSound, app'.device = app.device, app'.devices = app.devices,
           app'.sessionUnlocked = app.sessionUnlocked, app'.unlocked = app.unlocked,
           pins \subseteq pins', Clearing => Clearing'
    PROVE  DeviceSound'
<1>1. app.device \in app.devices \cup {NoPath}
  BY DEF DeviceSound, TargetConnected
<1>2. app.sessionUnlocked => app.devices \cap Fido2 \subseteq app.unlocked
  BY DEF DeviceSound, SessionFlagSound
<1>3. app.unlocked \subseteq pins \/ Clearing
  BY DEF DeviceSound, UnlockedHasPin
<1>4. QED
  BY <1>1, <1>2, <1>3, SoundByFields

LEMMA OneFieldSound ==
    ASSUME TypeOK, DeviceSound
    PROVE  /\ TrayReload => DeviceSound' /\ Calm
           /\ UnlockAgent => DeviceSound' /\ Calm
           /\ SetKeyEnabledInMemory => DeviceSound' /\ Calm
           /\ LockAgentFlag => DeviceSound' /\ Calm
           /\ RenameLoads => DeviceSound' /\ SameEnclaveKeys /\ NoNewTouch
           /\ RenameFails => DeviceSound' /\ Calm
           /\ WatcherApplyFailure => DeviceSound' /\ Calm
           /\ DeactivateClearsPending => DeviceSound' /\ SameEnclaveKeys /\ NoNewLoading
           /\ RecoverFails => DeviceSound' /\ Calm
           /\ \A t \in Signers : SignFinish(t) => DeviceSound' /\ Calm
<1>0. AppOK(app)
  BY TypeGivesApp
<1>a. ASSUME NEW v, app' = [app EXCEPT !.phase = v], pins' = pins, Clearing => Clearing'
      PROVE  /\ DeviceSound' /\ SameEnclaveKeys
             /\ v \notin {"WaitingForTouch", "Loading"} \/ v = app.phase => Calm
             /\ v = "Loading" => NoNewTouch
  <2>1. /\ app'.device = app.device /\ app'.devices = app.devices /\ app'.keys = app.keys
        /\ app'.unlocked = app.unlocked /\ app'.pending = app.pending
        /\ app'.sessionUnlocked = app.sessionUnlocked /\ app'.phase = v
    BY <1>0, <1>a DEF AppOK, AppState
  <2>2. DeviceSound'
    BY <1>a, <2>1, SoundIfKept
  <2>3. QED
    BY <2>1, <2>2 DEF Calm, SameEnclaveKeys, NoNewTouch, NoNewLoading
<1>b. ASSUME app'.device = app.device, app'.devices = app.devices, app'.keys = app.keys,
             app'.unlocked = app.unlocked, app'.pending = app.pending, app'.phase = app.phase,
             app'.sessionUnlocked = app.sessionUnlocked, pins' = pins, Clearing => Clearing'
      PROVE  DeviceSound' /\ Calm
  <2>1. DeviceSound'
    BY <1>b, SoundIfKept
  <2>2. QED
    BY <1>b, <2>1 DEF Calm, SameEnclaveKeys, NoNewTouch, NoNewLoading
<1>1. ASSUME TrayReload PROVE DeviceSound' /\ Calm
  <2>1. app' = [app EXCEPT !.phase = "NeedsPin"] /\ pins' = pins /\ (Clearing => Clearing')
    BY <1>1, ClearingStays DEF TrayReload, MainUnchanged
  <2>2. QED
    BY <1>a, <2>1
<1>2. ASSUME UnlockAgent PROVE DeviceSound' /\ Calm
  <2>1. pins' = pins /\ (Clearing => Clearing')
    BY <1>2, ClearingStays DEF UnlockAgent, MainUnchanged
  <2>2. app' = [app EXCEPT !.agentLocked = FALSE]
    BY <1>2 DEF UnlockAgent
  <2>3. QED
    BY <1>0, <1>b, <2>1, <2>2 DEF AppOK, AppState
<1>3. ASSUME SetKeyEnabledInMemory PROVE DeviceSound' /\ Calm
  <2>1. pins' = pins /\ (Clearing => Clearing')
    BY <1>3 DEF SetKeyEnabledInMemory, Clearing
  <2>2. PICK S : app' = [app EXCEPT !.enabled = S]
    BY <1>3 DEF SetKeyEnabledInMemory
  <2>3. QED
    BY <1>0, <1>b, <2>1, <2>2 DEF AppOK, AppState
<1>4. ASSUME LockAgentFlag PROVE DeviceSound' /\ Calm
  <2>1. pins' = pins /\ (Clearing => Clearing')
    BY <1>4 DEF LockAgentFlag, Clearing
  <2>2. app' = [app EXCEPT !.agentLocked = TRUE]
    BY <1>4 DEF LockAgentFlag
  <2>3. QED
    BY <1>0, <1>b, <2>1, <2>2 DEF AppOK, AppState
<1>5. ASSUME RenameLoads PROVE DeviceSound' /\ SameEnclaveKeys /\ NoNewTouch
  <2>1. app' = [app EXCEPT !.phase = "Loading"] /\ pins' = pins /\ (Clearing => Clearing')
    BY <1>5 DEF RenameLoads, Clearing
  <2>2. QED
    BY <1>a, <2>1
<1>6. ASSUME RenameFails PROVE DeviceSound' /\ Calm
  <2>1. app' = [app EXCEPT !.phase = "Ready"] /\ pins' = pins /\ (Clearing => Clearing')
    BY <1>6 DEF RenameFails, Clearing
  <2>2. QED
    BY <1>a, <2>1
<1>7. ASSUME WatcherApplyFailure PROVE DeviceSound' /\ Calm
  <2>1. pins' = pins /\ (Clearing => Clearing')
    BY <1>7, ClearingStays DEF WatcherApplyFailure, WatcherUnchanged
  <2>2. app' = app \/ app' = [app EXCEPT !.phase = "Error"]
    BY <1>7 DEF WatcherApplyFailure
  <2>3. QED
    BY <1>a, <1>b, <2>1, <2>2
<1>8. ASSUME DeactivateClearsPending PROVE DeviceSound' /\ SameEnclaveKeys /\ NoNewLoading
  <2>1. pins' = pins /\ app' = [app EXCEPT !.pending = NoTask]
    BY <1>8 DEF DeactivateClearsPending
  <2>2. Clearing => Clearing'
    BY <1>8 DEF DeactivateClearsPending, LockerStep, Clearing, TypeOK
  <2>3. /\ app'.device = app.device /\ app'.devices = app.devices /\ app'.keys = app.keys
        /\ app'.unlocked = app.unlocked /\ app'.phase = app.phase
        /\ app'.sessionUnlocked = app.sessionUnlocked
    BY <1>0, <2>1 DEF AppOK, AppState
  <2>4. DeviceSound'
    BY <2>1, <2>2, <2>3, SoundIfKept
  <2>5. QED
    BY <2>3, <2>4 DEF SameEnclaveKeys, NoNewLoading
<1>9. ASSUME RecoverFails PROVE DeviceSound' /\ Calm
  <2>1. app' = [app EXCEPT !.phase = "Error"] /\ pins' = pins
    BY <1>9 DEF RecoverFails
  <2>2. Clearing => Clearing'
    BY <1>9 DEF RecoverFails, LockerStep, Clearing, TypeOK
  <2>3. QED
    BY <1>a, <2>1, <2>2
<1>10. ASSUME NEW t \in Signers, SignFinish(t) PROVE DeviceSound' /\ Calm
  <2>1. PICK v \in {app.phase, "NeedsPin", "Ready", "Error"} : app' = [app EXCEPT !.phase = v]
    BY <1>10 DEF SignFinish
  <2>2. pins' = pins /\ (Clearing => Clearing')
    BY <1>10, ClearingStays DEF SignFinish, SignStep
  <2>3. QED
    BY <1>a, <2>1, <2>2
<1>11. QED
  BY <1>1, <1>2, <1>3, <1>4, <1>5, <1>6, <1>7, <1>8, <1>9, <1>10

LEMMA RequestCreationRefusedSound ==
    ASSUME TypeOK, DeviceSound, NEW p \in Paths, RequestCreationRefused(p)
    PROVE  DeviceSound' /\ Calm
<1>1. AppOK(app) /\ p \in app.devices
  BY TypeGivesApp DEF RequestCreationRefused, DeviceSound, TargetConnected, Paths, NoPath
<1>2. /\ app' = [app EXCEPT !.device = p] /\ pins' = pins /\ (Clearing => Clearing')
  BY ClearingStays DEF RequestCreationRefused, MainUnchanged
<1>3. /\ app'.device = p /\ app'.devices = app.devices /\ app'.keys = app.keys
      /\ app'.unlocked = app.unlocked /\ app'.phase = app.phase
      /\ app'.pending = app.pending /\ app'.sessionUnlocked = app.sessionUnlocked
  BY <1>1, <1>2 DEF AppOK, AppState
<1>4. DeviceSound'
  BY <1>1, <1>2, <1>3, SoundByFields DEF DeviceSound, SessionFlagSound, UnlockedHasPin
<1>5. QED
  BY <1>3, <1>4 DEF Calm, SameEnclaveKeys, NoNewTouch, NoNewLoading

\* The second half of a lock, on the main thread or on a locker.
LEMMA LockedSound ==
    ASSUME TypeOK, DeviceSound, app' = LockedApp(app)
    PROVE  DeviceSound' /\ Calm
<1>0. AppOK(app)
  BY TypeGivesApp
<1>1. /\ app'.sessionUnlocked = FALSE /\ app'.unlocked = {} /\ app'.keys = app.keys \ FidoKeys
      /\ app'.phase \in {"NeedsPin", app.phase} /\ app'.pending = app.pending
      /\ app'.devices = app.devices /\ app'.device = app.device
  BY <1>0, LockedAppFields
<1>2. DeviceSound'
  BY <1>1, SoundByFields DEF DeviceSound, TargetConnected
<1>3. QED
  BY <1>1, <1>2, KeysApart DEF Calm, SameEnclaveKeys, NoNewTouch, NoNewLoading

\* An action that leaves the AppState and the PINs alone.
LEMMA NothingSound ==
    ASSUME DeviceSound, app' = app, pins' = pins, Clearing => Clearing'
    PROVE  DeviceSound' /\ Calm
BY SoundIfKept DEF Calm, SameEnclaveKeys, NoNewTouch, NoNewLoading

LEMMA MainSound ==
    ASSUME TypeOK, DeviceSound
    PROVE  /\ \A k \in SEKeys : CreateSEKey(k) => DeviceSound' /\ Calm
           /\ CreateSEKeyInMemory => DeviceSound' /\ NoNewTouch /\ NoNewLoading
           /\ \A k \in Keys, on \in BOOLEAN : SetKeyEnabled(k, on) => DeviceSound' /\ Calm
           /\ LockAgent => DeviceSound' /\ Calm
           /\ LockAgentClear => DeviceSound' /\ Calm
           /\ \A k \in Keys : RenameKey(k) => DeviceSound' /\ Calm
           /\ RenameDone => DeviceSound' /\ Calm
           /\ RenameStored => DeviceSound' /\ Calm
<1>0. AppOK(app)
  BY TypeGivesApp
<1>a. ASSUME NEW k \in SEKeys, CreateSEKey(k)
      PROVE  DeviceSound' /\ Calm
  <2>1. app' = app /\ pins' = pins
    BY <1>a DEF CreateSEKey
  <2>2. Clearing => Clearing'
    BY <1>a DEF CreateSEKey, Clearing, MainIdle, IdleMain
  <2>3. QED
    BY <2>1, <2>2, NothingSound
<1>1. ASSUME CreateSEKeyInMemory
      PROVE  DeviceSound' /\ NoNewTouch /\ NoNewLoading
  <2>1. pins' = pins /\ (Clearing => Clearing')
    BY <1>1 DEF CreateSEKeyInMemory, Clearing
  <2>2. /\ app'.device = app.device /\ app'.devices = app.devices /\ app'.phase = "Ready"
        /\ app'.unlocked = app.unlocked /\ app'.sessionUnlocked = app.sessionUnlocked
    BY <1>0, <1>1 DEF CreateSEKeyInMemory, AppOK, AppState
  <2>3. DeviceSound'
    BY <2>1, <2>2, SoundIfKept
  <2>4. QED
    BY <2>2, <2>3 DEF NoNewTouch, NoNewLoading
<1>2. ASSUME NEW k \in Keys, NEW on \in BOOLEAN, SetKeyEnabled(k, on)
      PROVE  DeviceSound' /\ Calm
  <2>1. app' = app /\ pins' = pins
    BY <1>2 DEF SetKeyEnabled
  <2>2. Clearing => Clearing'
    BY <1>2 DEF SetKeyEnabled, Clearing, MainIdle, IdleMain
  <2>3. QED
    BY <2>1, <2>2, NothingSound
<1>3. ASSUME LockAgent PROVE DeviceSound' /\ Calm
  <2>1. app' = app /\ Clearing'
    BY <1>3 DEF LockAgent, Clearing, IdleMain
  <2>2. DeviceSound'
    BY <2>1, SoundByFields DEF DeviceSound, TargetConnected, SessionFlagSound
  <2>3. QED
    BY <2>1, <2>2 DEF Calm, SameEnclaveKeys, NoNewTouch, NoNewLoading
<1>4. ASSUME LockAgentClear PROVE DeviceSound' /\ Calm
  <2>1. app' = LockedApp(app)
    BY <1>4 DEF LockAgentClear
  <2>2. QED
    BY <1>0, <2>1, LockedSound
<1>5. ASSUME NEW k \in Keys, RenameKey(k) PROVE DeviceSound' /\ Calm
  <2>1. app' = app /\ pins' = pins
    BY <1>5 DEF RenameKey
  <2>2. Clearing => Clearing'
    BY <1>5 DEF RenameKey, Command, Clearing, MainIdle, IdleMain
  <2>3. QED
    BY <2>1, <2>2, NothingSound
<1>6. ASSUME RenameDone PROVE DeviceSound' /\ Calm
  <2>1. app' = app /\ pins' = pins
    BY <1>6 DEF RenameDone
  <2>2. Clearing => Clearing'
    BY <1>6 DEF RenameDone, Clearing
  <2>3. QED
    BY <2>1, <2>2, NothingSound
<1>7. ASSUME RenameStored PROVE DeviceSound' /\ Calm
  <2>1. pins' = pins /\ (Clearing => Clearing')
    BY <1>7 DEF RenameStored, Clearing
  <2>2. CASE main.key \notin app.keys
    BY <1>7, <2>1, <2>2, NothingSound DEF RenameStored, RenamedApp
  <2>3. CASE main.key \in app.keys
    <3> DEFINE E == IF main.on THEN app.enabled \cup {main.key} ELSE app.enabled \ {main.key}
    <3>1. app' = [app EXCEPT !.phase = "Ready", !.enabled = E]
      BY <1>7, <2>3 DEF RenameStored, RenamedApp
    <3> HIDE DEF E
    <3>2. /\ app'.device = app.device /\ app'.devices = app.devices /\ app'.phase = "Ready"
          /\ app'.unlocked = app.unlocked /\ app'.sessionUnlocked = app.sessionUnlocked
          /\ app'.keys = app.keys
      BY <1>0, <3>1 DEF AppOK, AppState
    <3>3. DeviceSound'
      BY <2>1, <3>2, SoundIfKept
    <3>4. QED
      BY <3>2, <3>3 DEF Calm, SameEnclaveKeys, NoNewTouch, NoNewLoading
  <2>4. QED
    BY <2>2, <2>3
<1>8. QED
  BY <1>a, <1>1, <1>2, <1>3, <1>4, <1>5, <1>6, <1>7

LEMMA MergeSound ==
    ASSUME TypeOK, DeviceSound, NEW o \in Ops, Merge(o)
    PROVE  DeviceSound' /\ Calm /\ app'.phase \in {"NeedsPin", "Ready"}
<1> DEFINE p == op[o].path
           b == DropKeys(app, KeysOn(p))
           a == [b EXCEPT !.keys = @ \cup op[o].keys, !.enabled = @ \cup op[o].enabled,
                          !.unlocked = @ \cup {p}]
           next == IF op[o].task = NoTask /\ a.sequence THEN First(LockedDevices(a))
                                                        ELSE NoPath
           d == IF next # NoPath THEN next ELSE Reselect(p)
           v == IF next # NoPath THEN "NeedsPin" ELSE "Ready"
           c == a.sequence /\ next # NoPath
           u == AllUnlocked(a)
<1>0. AppOK(app) /\ p \in Paths /\ op[o].keys \subseteq FidoKeys /\ op[o].enabled \subseteq op[o].keys
  BY TypeGivesApp DEF Merge, OpStep, TypeOK, OpState
<1>1. /\ AppOK(b) /\ b.keys = app.keys \ KeysOn(p) /\ b.devices = app.devices
      /\ b.unlocked = app.unlocked
  BY <1>0, DropKeysType, DropKeysFields
<1>2. /\ app' = [a EXCEPT !.device = d, !.phase = v, !.sequence = c,
                          !.pending = NoTask, !.sessionUnlocked = u]
      /\ pins' = pins \cup {p} /\ (Clearing => Clearing')
  BY ClearingStays DEF Merge, OpUnchanged
<1> HIDE DEF b
<1>3. /\ AppOK(a) /\ a.keys = b.keys \cup op[o].keys /\ a.devices = b.devices
      /\ a.unlocked = b.unlocked \cup {p}
  <2>1. a.keys = b.keys \cup op[o].keys /\ a.devices = b.devices /\ a.unlocked = b.unlocked \cup {p}
    BY <1>0, <1>1 DEF AppOK, AppState
  <2>2. AppOK(a)
    BY <1>0, <1>1 DEF AppOK, AppState, Keys
  <2>3. QED
    BY <2>1, <2>2
<1> HIDE DEF a
<1>4. /\ LockedDevices(a) = (a.devices \cap Fido2) \ a.unlocked
      /\ u => a.devices \cap Fido2 \subseteq a.unlocked
  BY DEF LockedDevices, AllUnlocked
<1>5. next \in a.devices \cup {NoPath}
  BY <1>3, <1>4, AppFacts, FirstSpec
<1>6. d \in a.devices \cup {NoPath}
  BY <1>1, <1>3, <1>5 DEF Reselect
<1>7. v \in {"NeedsPin", "Ready"}
  OBVIOUS
<1> HIDE DEF d, v, c, u
<1>8. /\ app'.device = d /\ app'.devices = a.devices /\ app'.keys = a.keys
      /\ app'.unlocked = a.unlocked /\ app'.sessionUnlocked = u /\ app'.phase = v
  BY <1>2, <1>3 DEF AppOK, AppState
<1>9. app'.unlocked \subseteq pins' \/ Clearing'
  BY <1>1, <1>2, <1>3, <1>8 DEF DeviceSound, UnlockedHasPin
<1>10. DeviceSound'
  BY <1>4, <1>6, <1>8, <1>9, SoundByFields
<1>11. SameEnclaveKeys
  BY <1>0, <1>1, <1>3, <1>8, KeysApart DEF SameEnclaveKeys
<1>12. QED
  BY <1>7, <1>8, <1>10, <1>11 DEF Calm, NoNewTouch, NoNewLoading

LEMMA MergeFailedSound ==
    ASSUME TypeOK, DeviceSound, NEW o \in Ops, MergeFailed(o)
    PROVE  DeviceSound' /\ Calm /\ app'.phase \in {"NeedsPin", "Error"}
<1> DEFINE p == op[o].path
           closed == Close(app, p)
           v == IF op[o].result = "invalid" THEN "NeedsPin" ELSE "Error"
           keep == \/ op[o].result = "invalid"
                   \/ app.pending.kind \in {"delete", "rename"} \cap {op[o].task.kind}
           t == IF keep THEN closed.pending ELSE NoTask
<1>1. ClosedAs(closed, app, {}, p)
  BY TypeGivesApp, CloseFields
<1>2. /\ app' = [closed EXCEPT !.phase = v, !.pending = t] /\ pins' = pins \ {p}
      /\ (Clearing => Clearing')
  BY ClearingStays DEF MergeFailed, OpUnchanged
<1>3. v \in {"NeedsPin", "Error"}
  OBVIOUS
<1> HIDE DEF closed, v, t
<1>4. /\ AppOK(closed) /\ closed.sessionUnlocked = FALSE /\ closed.unlocked = app.unlocked \ {p}
      /\ closed.keys = app.keys /\ closed.devices = app.devices /\ closed.device = app.device
  BY <1>1 DEF ClosedAs
<1>5. /\ app'.device = app.device /\ app'.devices = app.devices /\ app'.keys = app.keys
      /\ app'.unlocked = app.unlocked \ {p} /\ app'.sessionUnlocked = FALSE /\ app'.phase = v
  BY <1>2, <1>4 DEF AppOK, AppState
<1>6. app'.unlocked \subseteq pins' \/ Clearing'
  BY <1>2, <1>5 DEF DeviceSound, UnlockedHasPin
<1>7. DeviceSound'
  BY <1>5, <1>6, SoundByFields DEF DeviceSound, TargetConnected
<1>8. QED
  BY <1>3, <1>5, <1>7 DEF Calm, SameEnclaveKeys, NoNewTouch, NoNewLoading

LEMMA AsyncSound ==
    ASSUME TypeOK, DeviceSound, NEW o \in Ops
    PROVE  /\ AsyncCommand(o) \/ ContinueWithPin(o) \/ Hardware(o) \/ Apply(o)
                 \/ DeleteHardware(o) => DeviceSound' /\ Calm
           /\ Begin(o) => DeviceSound' /\ SameEnclaveKeys /\ (Calm \/ op'[o].pc = "begun")
           /\ DeleteDone(o) => DeviceSound' /\ NoNewTouch /\ NoNewLoading
<1>0. AppOK(app)
  BY TypeGivesApp
<1>1. ASSUME \/ AsyncCommand(o) \/ ContinueWithPin(o) \/ Hardware(o) \/ Apply(o)
             \/ DeleteHardware(o)
      PROVE  DeviceSound' /\ Calm
  <2> USE DEF OpUnchanged
  <2> DEFINE Quiet == app' = app /\ pins' = pins /\ main' = main /\ locker' = locker
  <2>1. AsyncCommand(o) => Quiet
    <3>1. SubmitPin(o) => Quiet
      BY DEF SubmitPin
    <3>2. Continue(o) => Quiet
      BY DEF Continue
    <3>3. ASSUME NEW k \in SEKeys PROVE DeleteKey(o, k) => Quiet
      BY DEF DeleteKey
    <3>4. QED
      BY <3>1, <3>2, <3>3 DEF AsyncCommand
  <2>2. ContinueWithPin(o) => Quiet
    BY DEF ContinueWithPin
  <2>3. Hardware(o) => Quiet
    BY Zenon DEF Hardware
  <2>4. Apply(o) => Quiet
    BY DEF Apply
  <2>5. DeleteHardware(o) => Quiet
    BY DEF DeleteHardware
  <2>6. QED
    BY <1>1, <2>1, <2>2, <2>3, <2>4, <2>5, ClearingStays, NothingSound
<1>2. ASSUME Begin(o)
      PROVE  DeviceSound' /\ SameEnclaveKeys /\ (Calm \/ op'[o].pc = "begun")
  <2>1. pins' = pins /\ (Clearing => Clearing')
    BY <1>2, ClearingStays DEF Begin, OpUnchanged
  <2>2. app' = app \/ \E v \in Phases : app' = [app EXCEPT !.phase = v]
    BY <1>2 DEF Begin, RejectedPhase, Phases
  <2>3. /\ app'.device = app.device /\ app'.devices = app.devices /\ app'.keys = app.keys
        /\ app'.unlocked = app.unlocked /\ app'.sessionUnlocked = app.sessionUnlocked
    BY <1>0, <2>2 DEF AppOK, AppState
  <2>4. DeviceSound'
    BY <2>1, <2>3, SoundIfKept
  <2>5. CASE Targeted /\ TaskFound
    <3>1. op[o] \in OpState /\ op' = [op EXCEPT ![o] = [op[o] EXCEPT !.pc = "begun",
              !.pin = NoPath, !.path = app.device, !.task = app.pending]]
      BY <1>2, <2>5 DEF Begin, OpStep, TypeOK
    <3>2. op'[o].pc = "begun"
      BY <3>1 DEF TypeOK, OpState
    <3>3. QED
      BY <2>3, <2>4, <3>2 DEF SameEnclaveKeys
  <2>6. CASE ~(Targeted /\ TaskFound)
    BY <1>2, <2>1, <2>6, NothingSound DEF Begin, RejectedPhase, Calm
  <2>7. QED
    BY <2>5, <2>6
<1>3. ASSUME DeleteDone(o) PROVE DeviceSound' /\ NoNewTouch /\ NoNewLoading
  <2> DEFINE a == DropKeys(app, {op[o].key})
  <2>1. /\ AppOK(a) /\ a.device = app.device /\ a.devices = app.devices
        /\ a.unlocked = app.unlocked /\ a.sessionUnlocked = app.sessionUnlocked
    BY <1>0, DropKeysType, DropKeysFields
  <2>2. /\ app' = [a EXCEPT !.phase = "Ready"] /\ pins' = pins /\ (Clearing => Clearing')
    BY <1>3, ClearingStays DEF DeleteDone, OpUnchanged
  <2> HIDE DEF a
  <2>3. /\ app'.device = app.device /\ app'.devices = app.devices /\ app'.phase = "Ready"
        /\ app'.unlocked = app.unlocked /\ app'.sessionUnlocked = app.sessionUnlocked
    BY <2>1, <2>2 DEF AppOK, AppState
  <2>4. DeviceSound'
    BY <2>2, <2>3, SoundIfKept
  <2>5. QED
    BY <2>3, <2>4 DEF NoNewTouch, NoNewLoading
<1>4. QED
  BY <1>1, <1>2, <1>3

\* The current device is chosen among the connected ones.
LEMMA ActiveDeviceIsConnected ==
    ASSUME NEW a, AppOK(a), NEW new \in a.devices \cup {NoPath}
    PROVE  ActiveDevice(a, new) \in a.devices \cup {NoPath}
<1> DEFINE previous == {app.device} \cap a.devices
           choices == IF InProgress /\ previous # {} THEN <<previous>>
                      ELSE <<{new} \ {NoPath}, previous, LockedDevices(a),
                             a.devices \cap Fido2>>
           some == {i \in DOMAIN choices : choices[i] # {}}
<1>1. some \in SUBSET Nat /\ some \subseteq DOMAIN choices
  OBVIOUS
<1>2. \A i \in DOMAIN choices : choices[i] \in SUBSET a.devices
  BY DEF LockedDevices
<1>3. a.devices \in SUBSET Paths
  BY AppFacts
<1>4. CASE some = {}
  BY <1>4 DEF ActiveDevice
<1>5. CASE some # {}
  <2>1. First(some) \in some
    BY <1>1, <1>5, FirstIsAMember
  <2>2. choices[First(some)] \in SUBSET a.devices
    BY <1>1, <1>2, <2>1
  <2>3. First(choices[First(some)]) \in a.devices \cup {NoPath}
    BY <1>3, <2>2, FirstSpec
  <2>4. QED
    BY <1>5, <2>3 DEF ActiveDevice
<1>6. QED
  BY <1>4, <1>5

LEMMA WatcherApplySound ==
    ASSUME TypeOK, DeviceSound, NEW prompt \in BOOLEAN, WatcherApply(prompt)
    PROVE  DeviceSound' /\ Calm
<1> DEFINE found == watcher.found
           gone == {k \in FidoKeys : Home[k] \notin found}
           b == DropKeys(app, gone)
           a == [b EXCEPT !.devices = found,
                          !.unlocked = StillConnected(@, found)]
           new == First((found \cap Fido2) \ app.devices)
           ask == new # NoPath /\ prompt /\ flags = {} /\ ~InProgress
           d == ActiveDevice(a, new)
           u == found # {} /\ AllUnlocked(a)
           c == a.sequence \/ ask
           v == IF InProgress THEN a.phase
                ELSE IF ask THEN "NeedsPin"
                ELSE IF found # {} \/ a.keys # {} THEN "Ready" ELSE "WaitingForDevice"
<1>0. AppOK(app) /\ found \in SUBSET Paths
  BY TypeGivesApp DEF TypeOK, WatcherState
<1>1. /\ AppOK(b) /\ b.keys = app.keys \ gone /\ b.unlocked = app.unlocked
      /\ b.phase = app.phase /\ b.pending = app.pending
  BY <1>0, DropKeysType, DropKeysFields
<1>2. /\ app' = [a EXCEPT !.device = d, !.sessionUnlocked = u, !.sequence = c, !.phase = v]
      /\ pins' = pins \cap found /\ (Clearing => Clearing')
  BY ClearingStays DEF WatcherApply, WatcherUnchanged, StillConnected
<1> HIDE DEF b
<1>3. /\ AppOK(a) /\ a.keys = b.keys /\ a.devices = found /\ a.phase = b.phase
      /\ a.pending = b.pending /\ a.unlocked = b.unlocked \cap found
  <2>1. /\ a.keys = b.keys /\ a.devices = found /\ a.phase = b.phase
        /\ a.pending = b.pending /\ a.unlocked = b.unlocked \cap found
    BY <1>0, <1>1 DEF AppOK, AppState, StillConnected
  <2>2. AppOK(a)
    BY <1>0, <1>1 DEF AppOK, AppState, StillConnected
  <2>3. QED
    BY <2>1, <2>2
<1>4. new \in found \cup {NoPath}
  BY <1>0, FirstSpec
<1> HIDE DEF a, new
<1>5. d \in a.devices \cup {NoPath}
  BY <1>3, <1>4, ActiveDeviceIsConnected
<1>6. u => a.devices \cap Fido2 \subseteq a.unlocked
  BY DEF AllUnlocked, LockedDevices
<1>7. v = a.phase \/ v \in {"NeedsPin", "Ready", "WaitingForDevice"}
  OBVIOUS
<1> HIDE DEF d, u, c, v
<1>8. /\ app'.device = d /\ app'.devices = a.devices /\ app'.keys = a.keys
      /\ app'.unlocked = a.unlocked /\ app'.sessionUnlocked = u /\ app'.phase = v
      /\ app'.pending = a.pending
  BY <1>2, <1>3 DEF AppOK, AppState
<1>9. app'.unlocked \subseteq pins' \/ Clearing'
  BY <1>1, <1>2, <1>3, <1>8 DEF DeviceSound, UnlockedHasPin
<1>10. DeviceSound'
  BY <1>5, <1>6, <1>8, <1>9, SoundByFields
<1>11. SameEnclaveKeys
  BY <1>1, <1>3, <1>8, KeysApart DEF SameEnclaveKeys
<1>12. QED
  BY <1>1, <1>3, <1>7, <1>8, <1>10, <1>11 DEF Calm, NoNewTouch, NoNewLoading

LEMMA LockerSound ==
    ASSUME TypeOK, DeviceSound
    PROVE  /\ AutoLock => DeviceSound' /\ Calm
           /\ \A f \in Flags : Deactivate(f) \/ Reactivate(f) => DeviceSound' /\ Calm
           /\ DeactivateClearsPins => DeviceSound' /\ Calm
           /\ \A w \in Lockers : LockerClearsApp(w) => DeviceSound' /\ Calm
           /\ \A prompt \in BOOLEAN : Recover(prompt) => DeviceSound' /\ Calm
<1>0. AppOK(app) /\ locker \in [Lockers -> LockerSteps]
  BY TypeGivesApp DEF TypeOK
<1>a. ASSUME app' = app, Clearing' PROVE DeviceSound' /\ Calm
  <2>1. DeviceSound'
    BY <1>a, SoundByFields DEF DeviceSound, TargetConnected, SessionFlagSound
  <2>2. QED
    BY <1>a, <2>1 DEF Calm, SameEnclaveKeys, NoNewTouch, NoNewLoading
<1>b. ASSUME NEW w \in Lockers, NEW from \in LockerSteps \ {"clearApp"}, NEW to,
             LockerStep(w, from, to)
      PROVE  Clearing => Clearing'
  BY <1>0, <1>b DEF LockerStep, Clearing
<1>1. ASSUME AutoLock PROVE DeviceSound' /\ Calm
  <2>1. app' = app /\ Clearing'
    BY <1>0, <1>1 DEF AutoLock, LockerStep, Clearing, Lockers
  <2>2. QED
    BY <1>a, <2>1
<1>2. ASSUME NEW f \in Flags, Deactivate(f) \/ Reactivate(f)
      PROVE  DeviceSound' /\ Calm
  <2>1. app' = app /\ pins' = pins /\ \E to : LockerStep("lifecycle", "idle", to)
    BY <1>2 DEF Deactivate, Reactivate
  <2>2. Clearing => Clearing'
    BY <1>b, <2>1 DEF Lockers, LockerSteps
  <2>3. QED
    BY <2>1, <2>2, NothingSound
<1>3. ASSUME DeactivateClearsPins PROVE DeviceSound' /\ Calm
  <2>1. app' = app /\ Clearing'
    BY <1>0, <1>3 DEF DeactivateClearsPins, LockerStep, Clearing, Lockers
  <2>2. QED
    BY <1>a, <2>1
<1>4. ASSUME NEW w \in Lockers, LockerClearsApp(w) PROVE DeviceSound' /\ Calm
  BY <1>4, LockedSound DEF LockerClearsApp
<1>5. ASSUME NEW prompt \in BOOLEAN, Recover(prompt) PROVE DeviceSound' /\ Calm
  <2> DEFINE d == First(app.devices \cap Fido2)
             ready == IF app.keys # {} THEN "Ready" ELSE app.phase
             q == app.sequence \/ prompt
  <2>1. pins' = pins /\ LockerStep("lifecycle", "recover", "idle")
    BY <1>5 DEF Recover
  <2>2. Clearing => Clearing'
    BY <1>b, <2>1 DEF Lockers, LockerSteps
  <2>3. \/ app' = [app EXCEPT !.device = d, !.phase = "NeedsPin", !.sequence = q]
        \/ app' = [app EXCEPT !.phase = ready]
    BY <1>5 DEF Recover
  <2>4. d \in app.devices \cup {NoPath}
    BY <1>0, AppFacts, FirstSpec
  <2>5. ready \in {app.phase, "Ready"}
    OBVIOUS
  <2> HIDE DEF d, ready, q
  <2>6. /\ app'.device \in {d, app.device} /\ app'.devices = app.devices
        /\ app'.keys = app.keys /\ app'.pending = app.pending
        /\ app'.unlocked = app.unlocked /\ app'.sessionUnlocked = app.sessionUnlocked
        /\ app'.phase \in {"NeedsPin", ready}
    BY <1>0, <2>3 DEF AppOK, AppState
  <2>7. app'.device \in app'.devices \cup {NoPath}
    BY <2>4, <2>6 DEF DeviceSound, TargetConnected
  <2>8. DeviceSound'
    BY <2>1, <2>2, <2>6, <2>7, SoundByFields DEF DeviceSound, SessionFlagSound, UnlockedHasPin
  <2>9. QED
    BY <2>5, <2>6, <2>8 DEF Calm, SameEnclaveKeys, NoNewTouch, NoNewLoading
<1>6. QED
  BY <1>1, <1>2, <1>3, <1>4, <1>5

LEMMA SignerSound ==
    ASSUME TypeOK, DeviceSound, NEW t \in Signers
    PROVE  /\ (\E k \in Keys : SignRequest(t, k)) \/ Authorize(t) \/ SignHardware(t)
                 => DeviceSound' /\ Calm
           /\ SignFind(t) =>
                 /\ DeviceSound' /\ SameEnclaveKeys /\ NoNewLoading
                 /\ Calm \/ (signer'[t].pc = "found" /\ signer'[t].key \in FidoKeys)
<1>0. AppOK(app)
  BY TypeGivesApp
<1>1. ASSUME (\E k \in Keys : SignRequest(t, k)) \/ Authorize(t) \/ SignHardware(t)
      PROVE  DeviceSound' /\ Calm
  <2> DEFINE Quiet == app' = app /\ pins' = pins /\ main' = main /\ locker' = locker
  <2>1. ASSUME NEW k \in Keys PROVE SignRequest(t, k) => Quiet
    BY DEF SignRequest, SignStep
  <2>2. Authorize(t) => Quiet
    BY DEF Authorize, SignStep
  <2>3. SignHardware(t) => Quiet
    BY DEF SignHardware, SignStep
  <2>4. QED
    BY <1>1, <2>1, <2>2, <2>3, ClearingStays, NothingSound
<1>2. ASSUME SignFind(t)
      PROVE  /\ DeviceSound' /\ SameEnclaveKeys /\ NoNewLoading
             /\ Calm \/ (signer'[t].pc = "found" /\ signer'[t].key \in FidoKeys)
  <2> DEFINE p == Home[signer[t].key]
             d == Reselect(p)
             v == IF p \in pins THEN "WaitingForTouch" ELSE "NeedsPin"
  <2>1. pins' = pins /\ main' = main /\ locker' = locker
    BY <1>2 DEF SignFind, SignStep
  <2>2. \/ app' = app
        \/ /\ app' = [app EXCEPT !.device = d, !.phase = v]
           /\ signer[t].key \in app.enabled \ SEKeys
           /\ signer' = [signer EXCEPT ![t] = [signer[t] EXCEPT !.pc = "found"]]
    BY <1>2 DEF SignFind, SignStep
  <2>3. d \in app.devices \cup {NoPath} /\ v \in {"WaitingForTouch", "NeedsPin"}
    BY DEF Reselect
  <2> HIDE DEF d, v
  <2>4. CASE app' = app
    BY <2>1, <2>4, ClearingStays, NothingSound DEF Calm
  <2>5. CASE /\ app' = [app EXCEPT !.device = d, !.phase = v]
             /\ signer[t].key \in app.enabled \ SEKeys
             /\ signer' = [signer EXCEPT ![t] = [signer[t] EXCEPT !.pc = "found"]]
    <3>1. /\ app'.device = d /\ app'.devices = app.devices /\ app'.keys = app.keys
          /\ app'.unlocked = app.unlocked /\ app'.sessionUnlocked = app.sessionUnlocked
          /\ app'.phase = v
      BY <1>0, <2>5 DEF AppOK, AppState
    <3>2. app'.unlocked \subseteq pins' \/ Clearing'
      BY <2>1, <3>1, ClearingStays DEF DeviceSound, UnlockedHasPin
    <3>3. DeviceSound'
      BY <2>3, <3>1, <3>2, SoundByFields DEF DeviceSound, SessionFlagSound
    <3>4. signer'[t].pc = "found" /\ signer'[t].key \in FidoKeys
      <4>1. signer'[t].pc = "found" /\ signer'[t].key = signer[t].key
        BY <2>5 DEF TypeOK, SignerState
      <4>2. app.enabled \subseteq Keys
        BY <1>0 DEF AppOK, AppState
      <4>3. QED
        BY <2>5, <4>1, <4>2 DEF Keys
    <3>5. QED
      BY <2>3, <3>1, <3>3, <3>4 DEF SameEnclaveKeys, NoNewLoading
  <2>6. QED
    BY <2>2, <2>4, <2>5
<1>3. QED
  BY <1>1, <1>2

LEMMA CommandSound ==
    ASSUME TypeOK, DeviceSound, UserCommand
    PROVE  DeviceSound' /\ Calm
<1>1. CASE \/ RequestUnlock \/ (\E p \in Paths : RequestDeviceUnlock(p)) \/ DismissAuth
           \/ TrayReload \/ UnlockAgent
  BY <1>1, RequestUnlockSound, RequestDeviceUnlockSound, DismissAuthSound, OneFieldSound DEF Calm
<1>2. CASE \E p \in Paths : \/ RequestCreationRefused(p)
                            \/ \E requirePin \in BOOLEAN : RequestCreation(p, requirePin)
  BY <1>2, RequestCreationRefusedSound, RequestCreationSound DEF Calm
<1>3. CASE \E k \in FidoKeys, requirePin \in BOOLEAN : RequestDeletion(k, requirePin)
  BY <1>3, RequestDeletionSound DEF Calm
<1>4. CASE \/ \E k \in Keys : RenameKey(k)
           \/ \E k \in SEKeys : CreateSEKey(k)
           \/ \E k \in Keys, on \in BOOLEAN : SetKeyEnabled(k, on)
           \/ LockAgent
  BY <1>4, MainSound DEF Calm
<1>5. QED
  BY <1>1, <1>2, <1>3, <1>4 DEF UserCommand

LEMMA MainStepSound ==
    ASSUME TypeOK, DeviceSound, MainStep
    PROVE  /\ DeviceSound' /\ NoNewTouch
           /\ SameEnclaveKeys \/ CreateSEKeyInMemory
           /\ NoNewLoading \/ main'.pc = "renaming"
<1>1. RenameLoads => main'.pc = "renaming"
  BY DEF RenameLoads, TypeOK, MainState
<1>2. CASE \/ SetKeyEnabledInMemory \/ LockAgentFlag \/ RenameLoads \/ RenameFails
  BY <1>1, <1>2, OneFieldSound DEF Calm
<1>3. CASE CreateSEKeyInMemory \/ LockAgentClear \/ RenameDone \/ RenameStored
  BY <1>3, MainSound DEF Calm
<1>4. CASE \E requirePin \in BOOLEAN : RenameAsksPin(requirePin)
  BY <1>4, RenameAsksPinSound DEF Calm
<1>5. QED
  BY <1>2, <1>3, <1>4 DEF MainStep

\* What any step does to the things the invariants of the session are about.
LEMMA StepEffects ==
    ASSUME TypeOK, DeviceSound, Next
    PROVE  /\ DeviceSound'
           /\ \/ SameEnclaveKeys
              \/ CreateSEKeyInMemory
              \/ \E o \in Ops : DeleteDone(o)
           /\ \/ NoNewTouch
              \/ DeactivateClearsPending
              \/ \E o \in Ops : op'[o].pc = "begun"
              \/ \E t \in Signers : signer'[t].pc = "found" /\ signer'[t].key \in FidoKeys
           /\ \/ NoNewLoading
              \/ \E o \in Ops : op'[o].pc = "begun"
              \/ main'.pc = "renaming"
<1>1. CASE Environment
  <2>1. app' = app /\ pins' = pins /\ main' = main /\ locker' = locker
    BY <1>1 DEF Environment, Plug, Unplug
  <2>2. QED
    BY <2>1, ClearingStays, NothingSound DEF Calm
<1>2. CASE UserCommand
  BY <1>2, CommandSound DEF Calm
<1>3. CASE MainStep
  BY <1>3, MainStepSound
<1>4. ASSUME NEW o \in Ops, AsyncCommand(o) \/ AsyncStep(o)
      PROVE  /\ DeviceSound' /\ (SameEnclaveKeys \/ DeleteDone(o))
             /\ (NoNewTouch /\ NoNewLoading) \/ op'[o].pc = "begun"
  BY <1>4, AsyncSound, MergeSound, MergeFailedSound DEF AsyncStep, Calm
<1>5. CASE WatcherStep
  <2>1. WatcherScan \/ WatcherScanFails => DeviceSound' /\ Calm
    <3>1. WatcherScan => app' = app /\ pins' = pins /\ main' = main /\ locker' = locker
      BY DEF WatcherScan, WatcherUnchanged
    <3>2. WatcherScanFails => app' = app /\ pins' = pins /\ main' = main /\ locker' = locker
      BY DEF WatcherScanFails, WatcherUnchanged
    <3>3. QED
      BY <3>1, <3>2, ClearingStays, NothingSound
  <2>2. QED
    BY <1>5, <2>1, OneFieldSound, WatcherApplySound DEF WatcherStep, Calm
<1>6. CASE LockerEvent \/ LockerSection
  BY <1>6, LockerSound, OneFieldSound DEF LockerEvent, LockerSection, Calm
<1>7. ASSUME NEW t \in Signers, SignerStep(t) \/ \E k \in Keys : SignRequest(t, k)
      PROVE  /\ DeviceSound' /\ SameEnclaveKeys /\ NoNewLoading
             /\ NoNewTouch \/ (signer'[t].pc = "found" /\ signer'[t].key \in FidoKeys)
  BY <1>7, SignerSound, OneFieldSound DEF SignerStep, Calm
<1>8. QED
  BY <1>1, <1>2, <1>3, <1>4, <1>5, <1>6, <1>7 DEF Next

LEMMA DeviceInvariant == Spec => [](TypeOK /\ DeviceSound)
<1>1. Init => DeviceSound
  BY DEF Init, DeviceSound, TargetConnected, SessionFlagSound, UnlockedHasPin
<1>2. TypeOK /\ DeviceSound /\ [Next]_vars => DeviceSound'
  <2>1. ASSUME TypeOK, DeviceSound, UNCHANGED vars
        PROVE  DeviceSound'
    <3>1. app' = app /\ pins' = pins /\ main' = main /\ locker' = locker
      BY <2>1 DEF vars
    <3>2. QED
      BY <2>1, <3>1, ClearingStays, NothingSound
  <2>2. QED
    BY <2>1, StepEffects
<1>3. QED
  BY <1>1, <1>2, TypeCorrect, PTL DEF Spec

\* A prompt never names a device that the watcher has dropped, however scans,
\* commands, requests and the recovery after a sleep interleave (every handler
\* that sets current_device_path: commands.rs, watcher.rs, server.rs, lifecycle.rs).
THEOREM TargetStaysConnected == Spec => []TargetConnected
BY DeviceInvariant, PTL DEF DeviceSound

\* fido_session_unlocked, which is recomputed by some handlers and copied by the
\* others, never reports a session whose devices are not all unlocked.
THEOREM SessionFlagIsSound == Spec => []SessionFlagSound
BY DeviceInvariant, PTL DEF DeviceSound

\* A device that counts as unlocked has a cached PIN, except between the two
\* halves of a lock, although the two are updated by handlers on five threads.
THEOREM UnlockedDeviceHasPin == Spec => []UnlockedHasPin
BY DeviceInvariant, PTL DEF DeviceSound

-----------------------------------------------------------------------------
(* The listed Secure Enclave keys                                          *)

\* What overlapping deletions keep apart: a key deleted in hardware is still
\* listed, and only one deletion has taken it.
DeletionsApart ==
    /\ \A o \in Ops : op[o].pc \in {"deleting", "deleted"} => op[o].key \in SEKeys
    /\ \A o \in Ops : op[o].pc = "deleted" => op[o].key \in app.keys \ hardware
    /\ \A o, q \in Ops : op[o].pc = "deleted" /\ op[q].pc = "deleted" /\ op[o].key = op[q].key
                            => o = q

\* A creation between its two halves has a key that no deletion can reach: it
\* is not listed yet.
CreationApart ==
    main.pc = "created" =>
        /\ main.key \in hardware \ app.keys
        /\ \A o \in Ops : op[o].pc \in {"deleting", "deleted"} => op[o].key # main.key

Creating(k) == main.pc = "created" /\ main.key = k
Deleting(k) == \E o \in Ops : op[o].pc = "deleted" /\ op[o].key = k

\* The list and the registry, seen from one key.
Listed(k) == k \in app.keys <=> (k \in hardware /\ ~Creating(k)) \/ Deleting(k)

EnclaveInv ==
    /\ \A k \in SEKeys : Listed(k)
    /\ DeletionsApart
    /\ CreationApart

\* No Secure Enclave key appears in hardware or disappears, no deletion comes to,
\* or leaves, the point between its two halves, and one that begins is for a
\* listed key.
DeletionsKept ==
    /\ hardware' \cap SEKeys = hardware \cap SEKeys
    /\ \A o \in Ops :
          /\ op'[o].pc = "deleted" <=> op[o].pc = "deleted"
          /\ op[o].pc = "deleted" => op'[o].key = op[o].key
          /\ op'[o].pc = "deleting" =>
                /\ op'[o].key \in SEKeys
                /\ \/ op'[o].key \in app.keys
                   \/ op[o].pc = "deleting" /\ op'[o].key = op[o].key

\* No creation comes to, or leaves, the point between its two halves.
CreationKept ==
    /\ main'.pc = "created" <=> main.pc = "created"
    /\ main.pc = "created" => main'.key = main.key

LEMMA EnclaveKept ==
    ASSUME TypeOK, EnclaveInv, SameEnclaveKeys, DeletionsKept, CreationKept
    PROVE  EnclaveInv'
<1> USE DEF EnclaveInv, SameEnclaveKeys, DeletionsKept
<1>1. \A k \in SEKeys : (k \in app'.keys <=> k \in app.keys) /\ (k \in hardware' <=> k \in hardware)
  OBVIOUS
<1>2. DeletionsApart'
  BY <1>1 DEF DeletionsApart
<1>3. \A k \in SEKeys : Deleting(k)' <=> Deleting(k)
  BY DEF Deleting
<1>4. \A k \in SEKeys : Creating(k)' <=> Creating(k)
  BY DEF Creating, CreationKept
<1>5. \A k \in SEKeys : Listed(k)'
  BY <1>1, <1>3, <1>4 DEF Listed
<1>6. CreationApart'
  <2> SUFFICES ASSUME main'.pc = "created" PROVE CreationApart'
    BY DEF CreationApart
  <2>1. main.pc = "created" /\ main'.key = main.key /\ main.key \in SEKeys
    BY DEF CreationKept, TypeOK
  <2>2. main.key \in hardware' \ app'.keys
    BY <1>1, <2>1 DEF CreationApart
  <2>3. \A o \in Ops : op'[o].pc \in {"deleting", "deleted"} => op'[o].key # main.key
    BY <2>1 DEF CreationApart
  <2>4. QED
    BY <2>1, <2>2, <2>3 DEF CreationApart
<1>7. QED
  BY <1>2, <1>5, <1>6

\* What an operation does to the hardware concerns its own security key.
LEMMA EffectsAreFido ==
    ASSUME NEW task, NEW p, NEW h \in Effects(task, p)
    PROVE  h \cap SEKeys = hardware \cap SEKeys
<1>1. \A k \in KeysOn(p) : k \notin SEKeys
  BY KeysApart
<1>2. h \in Created(p) => h \cap SEKeys = hardware \cap SEKeys
  BY <1>1 DEF Created
<1>3. h \in Deleted(task.key, p) => h \cap SEKeys = hardware \cap SEKeys
  BY <1>1 DEF Deleted
<1>4. h \in Renamed(task.key, p) => h = hardware
  BY DEF Renamed
<1>5. QED
  BY <1>2, <1>3, <1>4 DEF Effects

\* A step of an operation that has nothing to do with deletions, or begins one.
LEMMA OpStepKeepsDeletions ==
    ASSUME TypeOK, DeletionsApart, NEW o \in Ops, NEW new,
           op' = [op EXCEPT ![o] = new], op[o].pc # "deleted", new.pc # "deleted",
           new.pc = "deleting" => new.key \in SEKeys \cap app.keys,
           hardware' \cap SEKeys = hardware \cap SEKeys
    PROVE  DeletionsKept
<1>1. op \in [Ops -> OpState]
  BY DEF TypeOK
<1>2. op'[o] = new /\ \A q \in Ops \ {o} : op'[q] = op[q]
  BY <1>1
<1>3. QED
  BY <1>1, <1>2 DEF DeletionsKept, DeletionsApart

\* The deletion has removed the key from the registry, and not yet from the list.
HalfDeleted(o) ==
    /\ op[o].pc = "deleting" /\ op[o].key \in hardware
    /\ op' = [op EXCEPT ![o] = [op[o] EXCEPT !.pc = "deleted"]]
    /\ hardware' = hardware \ {op[o].key} /\ app' = app /\ main' = main

LEMMA AsyncKeepsDeletions ==
    ASSUME TypeOK, DeletionsApart, NEW o \in Ops, AsyncCommand(o) \/ AsyncStep(o)
    PROVE  DeletionsKept \/ DeleteDone(o) \/ HalfDeleted(o)
<1>0. op[o] \in OpState
  BY DEF TypeOK
<1>a. IdleOp.pc = "idle"
  BY DEF IdleOp
<1>1. CASE SubmitPin(o)
  <2>1. hardware' = hardware /\ OpStep(o, "idle", [IdleOp EXCEPT !.pc = "submitted", !.pin = app.device])
    BY <1>1 DEF SubmitPin
  <2>2. [IdleOp EXCEPT !.pc = "submitted", !.pin = app.device].pc = "submitted"
    BY DEF IdleOp
  <2>3. QED
    BY <2>1, <2>2, OpStepKeepsDeletions DEF OpStep
<1>2. CASE Continue(o)
  <2>1. hardware' = hardware /\ OpStep(o, "idle", [IdleOp EXCEPT !.pc = "chosen", !.pin = app.device])
    BY <1>2 DEF Continue
  <2>2. [IdleOp EXCEPT !.pc = "chosen", !.pin = app.device].pc = "chosen"
    BY DEF IdleOp
  <2>3. QED
    BY <2>1, <2>2, OpStepKeepsDeletions DEF OpStep
<1>3. ASSUME NEW k \in SEKeys, DeleteKey(o, k)
      PROVE  DeletionsKept
  <2> DEFINE new == [IdleOp EXCEPT !.pc = "deleting", !.key = k]
  <2>1. hardware' = hardware /\ OpStep(o, "idle", new) /\ k \in app.keys
    BY <1>3 DEF DeleteKey
  <2>2. new.pc = "deleting" /\ new.key = k
    BY DEF IdleOp
  <2> HIDE DEF new
  <2>3. QED
    BY <2>1, <2>2, OpStepKeepsDeletions DEF OpStep
<1>4. CASE ContinueWithPin(o)
  <2> DEFINE new == IF op[o].pin \in pins THEN [op[o] EXCEPT !.pc = "submitted"] ELSE IdleOp
  <2>1. hardware' = hardware /\ OpStep(o, "chosen", new)
    BY <1>4 DEF ContinueWithPin
  <2>2. new.pc \in {"submitted", "idle"}
    BY <1>0 DEF IdleOp, OpState
  <2> HIDE DEF new
  <2>3. QED
    BY <2>1, <2>2, OpStepKeepsDeletions DEF OpStep
<1>5. CASE Begin(o)
  <2> DEFINE new == [op[o] EXCEPT !.pc = "begun", !.pin = NoPath, !.path = app.device,
                                  !.task = app.pending]
  <2>1. hardware' = hardware /\ (OpStep(o, "submitted", new) \/ OpStep(o, "submitted", IdleOp))
    BY <1>5 DEF Begin
  <2>2. new.pc = "begun" /\ IdleOp.pc = "idle"
    BY <1>0 DEF IdleOp, OpState
  <2> HIDE DEF new
  <2>3. QED
    BY <2>1, <2>2, OpStepKeepsDeletions DEF OpStep
<1>6. CASE Hardware(o)
  <2> DEFINE p == op[o].path
             done == IF p \in attached THEN Effects(op[o].task, p) ELSE {}
  <2>1. hardware' \in done \cup {hardware}
    BY <1>6, Zenon DEF Hardware
  <2>2. hardware' \cap SEKeys = hardware \cap SEKeys
    BY <2>1, EffectsAreFido
  <2>3. \A r, K : /\ [op[o] EXCEPT !.pc = "loaded", !.result = r].pc = "loaded"
                  /\ [op[o] EXCEPT !.pc = "loaded", !.keys = K].pc = "loaded"
    BY <1>0 DEF OpState
  <2>4. PICK new : OpStep(o, "begun", new) /\ new.pc = "loaded"
    BY <1>6, <2>3, Zenon DEF Hardware
  <2>5. QED
    BY <2>2, <2>4, OpStepKeepsDeletions DEF OpStep
<1>7. CASE Apply(o)
  <2> DEFINE good == [op[o] EXCEPT !.pc = "applied", !.enabled = op[o].keys \ disabled]
             bad == [op[o] EXCEPT !.result = "failed", !.keys = {}]
  <2>1. hardware' = hardware /\ (OpStep(o, "loaded", good) \/ OpStep(o, "loaded", bad))
    BY <1>7 DEF Apply
  <2>2. good.pc = "applied" /\ bad.pc = op[o].pc
    BY <1>0 DEF OpState
  <2> HIDE DEF good, bad
  <2>3. op[o].pc = "loaded"
    BY <2>1 DEF OpStep
  <2>4. QED
    BY <2>1, <2>2, <2>3, OpStepKeepsDeletions DEF OpStep
<1>8. CASE Merge(o)
  <2>1. hardware' = hardware /\ OpStep(o, "applied", IdleOp)
    BY <1>8 DEF Merge
  <2>2. QED
    BY <1>a, <2>1, OpStepKeepsDeletions DEF OpStep
<1>9. CASE MergeFailed(o)
  <2>1. hardware' = hardware /\ OpStep(o, "loaded", IdleOp)
    BY <1>9 DEF MergeFailed
  <2>2. QED
    BY <1>a, <2>1, OpStepKeepsDeletions DEF OpStep
<1>10. CASE DeleteHardware(o)
  <2>0. app' = app /\ main' = main
    BY <1>10 DEF DeleteHardware, OpUnchanged
  <2>1. CASE op[o].key \in hardware /\ OpStep(o, "deleting", [op[o] EXCEPT !.pc = "deleted"])
             /\ hardware' = hardware \ {op[o].key}
    BY <2>0, <2>1, Zenon DEF HalfDeleted, OpStep
  <2>2. CASE OpStep(o, "deleting", IdleOp) /\ hardware' = hardware
    BY <1>a, <2>2, OpStepKeepsDeletions DEF OpStep
  <2>3. QED
    BY <1>10, <2>1, <2>2 DEF DeleteHardware
<1>11. QED
  BY <1>1, <1>2, <1>3, <1>4, <1>5, <1>6, <1>7, <1>8, <1>9, <1>10 DEF AsyncCommand, AsyncStep

\* Who moves what: the operations, the hardware, the connections, the commands.
LEMMA Threads ==
    ASSUME [Next]_vars
    PROVE  /\ op' = op \/ \E o \in Ops : AsyncCommand(o) \/ AsyncStep(o)
           /\ \/ hardware' = hardware
              \/ \E k \in SEKeys : CreateSEKey(k)
              \/ \E o \in Ops : AsyncCommand(o) \/ AsyncStep(o)
           /\ \/ signer' = signer
              \/ \E t \in Signers : SignerStep(t) \/ \E k \in Keys : SignRequest(t, k)
           /\ main' = main \/ UserCommand \/ MainStep
           /\ locker' = locker \/ LockerEvent \/ LockerSection
<1> DEFINE Quiet == op' = op /\ hardware' = hardware /\ signer' = signer /\ locker' = locker
           Aside == Quiet /\ main' = main
           Calls == op' = op /\ hardware' = hardware /\ main' = main /\ locker' = locker
           Locking == op' = op /\ hardware' = hardware /\ main' = main /\ signer' = signer
<1>1. Environment => Aside
  BY DEF Environment, Plug, Unplug
<1>2. UserCommand => Quiet \/ \E k \in SEKeys : CreateSEKey(k) /\ op' = op /\ signer' = signer /\ locker' = locker
  <2>1. RequestUnlock => Quiet
    BY DEF RequestUnlock, MainUnchanged
  <2>2. \A p \in Paths : RequestDeviceUnlock(p) => Quiet
    BY DEF RequestDeviceUnlock, MainUnchanged
  <2>3. DismissAuth => Quiet
    BY DEF DismissAuth, MainUnchanged
  <2>4. TrayReload \/ UnlockAgent => Quiet
    BY DEF TrayReload, UnlockAgent, MainUnchanged
  <2>5. \A p \in Paths : RequestCreationRefused(p) => Quiet
    BY DEF RequestCreationRefused, MainUnchanged
  <2>6. \A p \in Paths, r \in BOOLEAN : RequestCreation(p, r) => Quiet
    BY DEF RequestCreation, MainUnchanged
  <2>7. \A k \in FidoKeys, r \in BOOLEAN : RequestDeletion(k, r) => Quiet
    BY DEF RequestDeletion, MainUnchanged
  <2>8. \A k \in Keys : RenameKey(k) => Quiet
    BY DEF RenameKey
  <2>9. \A k \in Keys, on \in BOOLEAN : SetKeyEnabled(k, on) => Quiet
    BY DEF SetKeyEnabled
  <2>10. LockAgent => Quiet
    BY DEF LockAgent
  <2>11. \A k \in SEKeys : CreateSEKey(k) => op' = op /\ signer' = signer /\ locker' = locker
    BY DEF CreateSEKey
  <2>12. QED
    BY <2>1, <2>2, <2>3, <2>4, <2>5, <2>6, <2>7, <2>8, <2>9, <2>10, <2>11 DEF UserCommand
<1>3. MainStep => Quiet
  <2>1. CreateSEKeyInMemory \/ SetKeyEnabledInMemory => Quiet
    BY DEF CreateSEKeyInMemory, SetKeyEnabledInMemory
  <2>2. LockAgentClear \/ LockAgentFlag => Quiet
    BY DEF LockAgentClear, LockAgentFlag
  <2>3. RenameLoads \/ RenameDone \/ RenameFails \/ RenameStored => Quiet
    BY DEF RenameLoads, RenameDone, RenameFails, RenameStored
  <2>4. \A requirePin \in BOOLEAN : RenameAsksPin(requirePin) => Quiet
    BY DEF RenameAsksPin
  <2>5. QED
    BY <2>1, <2>2, <2>3, <2>4 DEF MainStep
<1>4. WatcherStep => Aside
  <2>1. WatcherScan \/ WatcherScanFails \/ WatcherApplyFailure => Aside
    BY DEF WatcherScan, WatcherScanFails, WatcherApplyFailure,
           WatcherUnchanged
  <2>2. \A prompt \in BOOLEAN : WatcherApply(prompt) => Aside
    BY DEF WatcherApply, WatcherUnchanged
  <2>3. QED
    BY <2>1, <2>2 DEF WatcherStep
<1>5. LockerEvent \/ LockerSection => Locking
  <2>1. AutoLock => Locking
    BY DEF AutoLock, LockerStep
  <2>2. \A f \in Flags : Deactivate(f) \/ Reactivate(f) => Locking
    BY DEF Deactivate, Reactivate, LockerStep
  <2>3. DeactivateClearsPending \/ DeactivateClearsPins => Locking
    BY DEF DeactivateClearsPending, DeactivateClearsPins, LockerStep
  <2>4. \A w \in Lockers : LockerClearsApp(w) => Locking
    BY DEF LockerClearsApp, LockerStep
  <2>5. \A prompt \in BOOLEAN : Recover(prompt) \/ RecoverFails => Locking
    BY DEF Recover, RecoverFails, LockerStep
  <2>6. QED
    BY <2>1, <2>2, <2>3, <2>4, <2>5 DEF LockerEvent, LockerSection
<1>6. ASSUME NEW t \in Signers, SignerStep(t) \/ \E k \in Keys : SignRequest(t, k)
      PROVE  Calls
  <2> USE DEF SignStep
  <2>1. \A k \in Keys : SignRequest(t, k) => Calls
    BY DEF SignRequest
  <2>2. SignFind(t) => Calls
    BY DEF SignFind
  <2>3. Authorize(t) => Calls
    BY DEF Authorize
  <2>4. SignHardware(t) => Calls
    BY DEF SignHardware
  <2>5. SignFinish(t) => Calls
    BY DEF SignFinish
  <2>6. QED
    BY <1>6, <2>1, <2>2, <2>3, <2>4, <2>5 DEF SignerStep
<1>7. ASSUME NEW o \in Ops, AsyncCommand(o) \/ AsyncStep(o)
      PROVE  signer' = signer /\ main' = main /\ locker' = locker
  <2> USE DEF OpUnchanged
  <2> DEFINE Others == signer' = signer /\ main' = main /\ locker' = locker
  <2>1. SubmitPin(o) \/ Continue(o) => Others
    BY DEF SubmitPin, Continue
  <2>2. \A k \in SEKeys : DeleteKey(o, k) => Others
    BY DEF DeleteKey
  <2>3. ContinueWithPin(o) \/ Apply(o) => Others
    BY DEF ContinueWithPin, Apply
  <2>4. Begin(o) => Others
    BY DEF Begin
  <2>5. Hardware(o) => Others
    BY Zenon DEF Hardware
  <2>6. Merge(o) \/ MergeFailed(o) => Others
    BY DEF Merge, MergeFailed
  <2>7. DeleteHardware(o) => Others
    BY DEF DeleteHardware
  <2>8. DeleteDone(o) => Others
    BY DEF DeleteDone
  <2>9. QED
    BY <1>7, <2>1, <2>2, <2>3, <2>4, <2>5, <2>6, <2>7, <2>8 DEF AsyncCommand, AsyncStep
<1>8. UNCHANGED vars => Aside
  BY DEF vars
<1>9. QED
  BY <1>1, <1>2, <1>3, <1>4, <1>5, <1>6, <1>7, <1>8 DEF Next

\* The steps that neither create nor delete a Secure Enclave key.
LEMMA StepsKeepDeletions ==
    ASSUME TypeOK, DeletionsApart, [Next]_vars
    PROVE  \/ DeletionsKept
           \/ \E k \in SEKeys : CreateSEKey(k)
           \/ \E o \in Ops : DeleteDone(o) \/ HalfDeleted(o)
<1>1. ASSUME op' = op, hardware' = hardware PROVE DeletionsKept
  BY <1>1 DEF DeletionsKept, DeletionsApart
<1>2. QED
  BY <1>1, Threads, AsyncKeepsDeletions

\* A command begins with one of these changes of the main thread.
LEMMA CommandBegins ==
    ASSUME UserCommand
    PROVE  \/ main' = main
           \/ main'.pc \in {"enabling", "clearing"}
           \/ "rename" \in Inputs /\ \E k \in Keys : RenameKey(k)
           \/ \E k \in SEKeys : CreateSEKey(k)
<1>1. \A k \in Keys, on \in BOOLEAN : SetKeyEnabled(k, on) => main'.pc = "enabling"
  BY DEF SetKeyEnabled
<1>2. LockAgent => main'.pc = "clearing"
  BY DEF LockAgent, IdleMain
<1>3. RequestUnlock \/ TrayReload \/ UnlockAgent => main' = main
  BY DEF RequestUnlock, TrayReload, UnlockAgent, MainUnchanged
<1>4. \A p \in Paths : RequestDeviceUnlock(p) \/ RequestCreationRefused(p) => main' = main
  BY DEF RequestDeviceUnlock, RequestCreationRefused, MainUnchanged
<1>5. DismissAuth => main' = main
  BY DEF DismissAuth, MainUnchanged
<1>6. \A p \in Paths, r \in BOOLEAN : RequestCreation(p, r) => main' = main
  BY DEF RequestCreation, MainUnchanged
<1>7. \A k \in FidoKeys, r \in BOOLEAN : RequestDeletion(k, r) => main' = main
  BY DEF RequestDeletion, MainUnchanged
<1>8. QED
  BY <1>1, <1>2, <1>3, <1>4, <1>5, <1>6, <1>7 DEF UserCommand

\* A command begins only when the main thread has no other one.
LEMMA CommandsTakeTurns ==
    ASSUME UserCommand
    PROVE  MainIdle
<1> USE DEF Command
<1>1. RequestUnlock \/ TrayReload \/ UnlockAgent \/ LockAgent => MainIdle
  BY DEF RequestUnlock, TrayReload, UnlockAgent, LockAgent
<1>2. \A p \in Paths : RequestDeviceUnlock(p) \/ RequestCreationRefused(p) => MainIdle
  BY DEF RequestDeviceUnlock, RequestCreationRefused
<1>3. DismissAuth => MainIdle
  BY DEF DismissAuth
<1>4. \A p \in Paths, r \in BOOLEAN : RequestCreation(p, r) => MainIdle
  BY DEF RequestCreation
<1>5. \A k \in FidoKeys, r \in BOOLEAN : RequestDeletion(k, r) => MainIdle
  BY DEF RequestDeletion
<1>6. \A k \in Keys : RenameKey(k) => MainIdle
  BY DEF RenameKey
<1>7. \A k \in SEKeys : CreateSEKey(k) => MainIdle
  BY DEF CreateSEKey
<1>8. \A k \in Keys, on \in BOOLEAN : SetKeyEnabled(k, on) => MainIdle
  BY DEF SetKeyEnabled
<1>9. QED
  BY <1>1, <1>2, <1>3, <1>4, <1>5, <1>6, <1>7, <1>8 DEF UserCommand

\* The other steps of the main thread have no creation before or after them.
LEMMA StepsKeepCreation ==
    ASSUME TypeOK, [Next]_vars
    PROVE  \/ CreationKept
           \/ \E k \in SEKeys : CreateSEKey(k)
           \/ CreateSEKeyInMemory
<1>0. main \in MainState
  BY DEF TypeOK
<1>1. CASE main' = main
  BY <1>1 DEF CreationKept
<1>2. CASE UserCommand
  <2>1. main.pc = "idle"
    BY <1>2, CommandsTakeTurns DEF MainIdle, IdleMain
  <2>2. \A k \in Keys : RenameKey(k) => main'.pc = "renameChosen"
    BY DEF RenameKey
  <2>3. QED
    BY <1>2, <2>1, <2>2, CommandBegins DEF CreationKept
<1>3. CASE MainStep /\ ~CreateSEKeyInMemory
  <2>1. SetKeyEnabledInMemory \/ LockAgentClear \/ LockAgentFlag => CreationKept
    BY DEF SetKeyEnabledInMemory, LockAgentClear, LockAgentFlag, IdleMain, CreationKept
  <2>2. RenameLoads \/ RenameDone => CreationKept
    BY <1>0 DEF RenameLoads, RenameDone, MainState, CreationKept
  <2>3. RenameFails \/ RenameStored => CreationKept
    BY DEF RenameFails, RenameStored, IdleMain, CreationKept
  <2>4. \A requirePin \in BOOLEAN : RenameAsksPin(requirePin) => CreationKept
    BY DEF RenameAsksPin, IdleMain, CreationKept
  <2>5. QED
    BY <1>3, <2>1, <2>2, <2>3, <2>4 DEF MainStep
<1>4. QED
  BY <1>1, <1>2, <1>3, Threads

\* The key enters the registry: it is new, so no deletion is for it.
LEMMA CreateKeepsListed ==
    ASSUME TypeOK, EnclaveInv, NEW k \in SEKeys, CreateSEKey(k)
    PROVE  EnclaveInv'
<1>1. /\ k \notin app.keys /\ k \notin hardware /\ main.pc = "idle"
      /\ hardware' = hardware \cup {k} /\ op' = op /\ app' = app
      /\ main'.pc = "created" /\ main'.key = k
      /\ \A o \in Ops : op[o].key # k
  BY DEF CreateSEKey, Fresh, MainIdle, IdleMain
<1>2. DeletionsApart'
  BY <1>1 DEF EnclaveInv, DeletionsApart
<1>3. CreationApart'
  BY <1>1 DEF CreationApart
<1>4. \A j \in SEKeys : Listed(j)'
  BY <1>1 DEF EnclaveInv, Listed, Creating, Deleting
<1>5. QED
  BY <1>2, <1>3, <1>4 DEF EnclaveInv

\* The key enters the list.
LEMMA CreateInMemoryKeepsListed ==
    ASSUME TypeOK, EnclaveInv, CreateSEKeyInMemory
    PROVE  EnclaveInv'
<1>0. AppOK(app)
  BY TypeGivesApp
<1>1. /\ main.pc = "created" /\ main'.pc = "idle" /\ op' = op /\ hardware' = hardware
      /\ app'.keys = app.keys \cup {main.key}
  BY <1>0 DEF CreateSEKeyInMemory, IdleMain, AppOK, AppState
<1>2. main.key \in hardware
  BY <1>1 DEF EnclaveInv, CreationApart
<1>3. DeletionsApart'
  BY <1>1 DEF EnclaveInv, DeletionsApart, CreationApart
<1>4. CreationApart'
  BY <1>1 DEF CreationApart
<1>5. \A j \in SEKeys : Listed(j)'
  BY <1>1, <1>2 DEF EnclaveInv, Listed, Creating, Deleting
<1>6. QED
  BY <1>3, <1>4, <1>5 DEF EnclaveInv

LEMMA HalfDeletedKeepsListed ==
    ASSUME TypeOK, EnclaveInv, NEW o \in Ops, HalfDeleted(o)
    PROVE  EnclaveInv'
<1> DEFINE k == op[o].key
           new == [op[o] EXCEPT !.pc = "deleted"]
<1>1. op \in [Ops -> OpState] /\ op[o] \in OpState
  BY DEF TypeOK
<1>2. new.pc = "deleted" /\ new.key = k
  BY <1>1 DEF OpState
<1>3. op' = [op EXCEPT ![o] = new] /\ hardware' = hardware \ {k} /\ app' = app /\ k \in hardware
      /\ main' = main /\ op[o].pc = "deleting"
  BY DEF HalfDeleted
<1> HIDE DEF new
<1>4. op'[o] = new /\ \A q \in Ops \ {o} : op'[q] = op[q]
  BY <1>1, <1>3
<1>5. k \in SEKeys /\ ~Creating(k)
  BY <1>3 DEF EnclaveInv, DeletionsApart, CreationApart, Creating
<1>6. k \in app.keys
  BY <1>3, <1>5 DEF EnclaveInv, Listed
<1>7. \A q \in Ops \ {o} : op[q].pc = "deleted" => op[q].key # k
  BY <1>3 DEF EnclaveInv, DeletionsApart
<1>8. DeletionsApart'
  <2>1. \A q \in Ops : op'[q].pc \in {"deleting", "deleted"} => op'[q].key \in SEKeys
    BY <1>2, <1>4, <1>5 DEF EnclaveInv, DeletionsApart
  <2>2. \A q \in Ops : op'[q].pc = "deleted" => op'[q].key \in app'.keys \ hardware'
    BY <1>2, <1>3, <1>4, <1>6 DEF EnclaveInv, DeletionsApart
  <2>3. \A q, r \in Ops : op'[q].pc = "deleted" /\ op'[r].pc = "deleted"
                             /\ op'[q].key = op'[r].key => q = r
    BY <1>2, <1>4, <1>7 DEF EnclaveInv, DeletionsApart
  <2>4. QED
    BY <2>1, <2>2, <2>3 DEF DeletionsApart
<1>9. CreationApart'
  <2>1. \A q \in Ops : op'[q].pc \in {"deleting", "deleted"} =>
                           op[q].pc \in {"deleting", "deleted"} /\ op'[q].key = op[q].key
    BY <1>2, <1>3, <1>4
  <2>2. main.pc = "created" => main.key # k
    BY <1>5 DEF Creating
  <2>3. QED
    BY <1>3, <2>1, <2>2 DEF EnclaveInv, CreationApart
<1>10. \A j \in SEKeys : Listed(j)'
  <2>1. \A j : Deleting(j)' <=> j = k \/ Deleting(j)
    BY <1>2, <1>3, <1>4 DEF Deleting
  <2>2. \A j : Creating(j)' <=> Creating(j)
    BY <1>3 DEF Creating
  <2>3. QED
    BY <1>3, <1>6, <2>1, <2>2 DEF EnclaveInv, Listed
<1>11. QED
  BY <1>8, <1>9, <1>10 DEF EnclaveInv

LEMMA DeleteDoneKeepsListed ==
    ASSUME TypeOK, EnclaveInv, NEW o \in Ops, DeleteDone(o)
    PROVE  EnclaveInv'
<1> DEFINE k == op[o].key
           a == DropKeys(app, {k})
<1>0. AppOK(app) /\ op \in [Ops -> OpState]
  BY TypeGivesApp DEF TypeOK
<1>1. op[o].pc = "deleted" /\ op' = [op EXCEPT ![o] = IdleOp] /\ hardware' = hardware
      /\ main' = main
  BY DEF DeleteDone, OpStep, OpUnchanged
<1>2. op'[o] = IdleOp /\ IdleOp.pc = "idle" /\ \A q \in Ops \ {o} : op'[q] = op[q]
  BY <1>0, <1>1 DEF IdleOp
<1>3. app'.keys = app.keys \ {k}
  <2>1. AppOK(a) /\ a.keys = app.keys \ {k}
    BY <1>0, DropKeysType, DropKeysFields
  <2>2. app' = [a EXCEPT !.phase = "Ready"]
    BY DEF DeleteDone
  <2> HIDE DEF a
  <2>3. QED
    BY <2>1, <2>2 DEF AppOK, AppState
<1>4. k \in SEKeys /\ k \notin hardware
  BY <1>1 DEF EnclaveInv, DeletionsApart
<1>5. \A q \in Ops \ {o} : op[q].pc = "deleted" => op[q].key # k
  BY <1>1 DEF EnclaveInv, DeletionsApart
<1>6. DeletionsApart'
  <2>1. \A q \in Ops : op'[q].pc \in {"deleting", "deleted"} => op'[q].key \in SEKeys
    BY <1>2 DEF EnclaveInv, DeletionsApart
  <2>2. \A q \in Ops : op'[q].pc = "deleted" => op'[q].key \in app'.keys \ hardware'
    BY <1>1, <1>2, <1>3, <1>5 DEF EnclaveInv, DeletionsApart
  <2>3. \A q, r \in Ops : op'[q].pc = "deleted" /\ op'[r].pc = "deleted"
                             /\ op'[q].key = op'[r].key => q = r
    BY <1>2 DEF EnclaveInv, DeletionsApart
  <2>4. QED
    BY <2>1, <2>2, <2>3 DEF DeletionsApart
<1>7. CreationApart'
  BY <1>1, <1>2, <1>3 DEF EnclaveInv, CreationApart
<1>8. \A j \in SEKeys : Listed(j)'
  <2>1. \A j : Deleting(j)' <=> j # k /\ Deleting(j)
    BY <1>1, <1>2, <1>5 DEF Deleting
  <2>2. \A j : Creating(j)' <=> Creating(j)
    BY <1>1 DEF Creating
  <2>3. QED
    BY <1>1, <1>3, <1>4, <2>1, <2>2 DEF EnclaveInv, Listed
<1>9. QED
  BY <1>6, <1>7, <1>8 DEF EnclaveInv

\* The list of Secure Enclave keys is the registry, without the key of a creation
\* that has reached only the registry, and with the keys of the deletions that
\* have reached only the registry; for any number of deletions, and creations and
\* renames that overlap them (create_secure_enclave_key, delete_key, rename_key).
THEOREM EnclaveListIsRegistry == Spec => []EnclaveKeysListed
<1>1. Init => EnclaveInv
  <2> SUFFICES ASSUME Init PROVE EnclaveInv
    OBVIOUS
  <2>1. main.pc = "idle" /\ \A o \in Ops : op[o].pc = "idle"
    BY DEF Init, IdleOp, IdleMain
  <2>2. app.keys = InitialKeys \cap SEKeys /\ hardware = InitialKeys
    BY DEF Init
  <2>3. QED
    BY <2>1, <2>2 DEF EnclaveInv, Listed, Creating, Deleting, DeletionsApart, CreationApart
<1>2. TypeOK /\ DeviceSound /\ EnclaveInv /\ [Next]_vars => EnclaveInv'
  <2> SUFFICES ASSUME TypeOK, DeviceSound, EnclaveInv, [Next]_vars PROVE EnclaveInv'
    OBVIOUS
  <2>1. CASE \/ \E k \in SEKeys : CreateSEKey(k)
             \/ CreateSEKeyInMemory
             \/ \E o \in Ops : DeleteDone(o) \/ HalfDeleted(o)
    BY <2>1, CreateKeepsListed, CreateInMemoryKeepsListed, HalfDeletedKeepsListed,
       DeleteDoneKeepsListed
  <2>2. \/ SameEnclaveKeys
        \/ CreateSEKeyInMemory
        \/ \E o \in Ops : DeleteDone(o)
    BY StepEffects DEF vars, SameEnclaveKeys
  <2>3. CASE SameEnclaveKeys /\ DeletionsKept /\ CreationKept
    BY <2>3, EnclaveKept
  <2>4. DeletionsApart
    BY DEF EnclaveInv
  <2>5. QED
    BY <2>1, <2>2, <2>3, <2>4, StepsKeepDeletions, StepsKeepCreation
<1>3. EnclaveInv => EnclaveKeysListed
  <2> SUFFICES ASSUME EnclaveInv PROVE EnclaveKeysListed
    OBVIOUS
  <2>1. \A k \in SEKeys : k \in BeingCreated <=> Creating(k)
    BY DEF BeingCreated, Creating
  <2>2. \A k \in SEKeys : k \in BeingDeleted <=> Deleting(k)
    BY DEF BeingDeleted, Deleting
  <2>3. ASSUME NEW k \in SEKeys
        PROVE  k \in app.keys <=> \/ k \in hardware /\ k \notin BeingCreated
                                  \/ k \in BeingDeleted /\ k \in app.keys
    BY <2>1, <2>2 DEF EnclaveInv, Listed
  <2>4. QED
    BY <2>3 DEF EnclaveKeysListed, BeingDeleted
<1>4. QED
  BY <1>1, <1>2, <1>3, DeviceInvariant, PTL DEF Spec
-----------------------------------------------------------------------------
(* The two phases that somebody has to end                                 *)

Busy(o) == op[o].pc \in {"begun", "loaded", "applied"}

AsksTouch(t) == signer[t].pc \in {"found", "signing", "done"} /\ signer[t].key \in FidoKeys

\* TouchIsAwaited counts a Secure Enclave signature too; the one that is
\* inductive does not.
TouchInv == app.phase = "WaitingForTouch" =>
               \/ app.pending # NoTask
               \/ \E o \in Ops : Busy(o)
               \/ \E t \in Signers : AsksTouch(t)

LEMMA OnlyThisOperation ==
    ASSUME NEW o \in Ops, AsyncCommand(o) \/ AsyncStep(o)
    PROVE  \E new : op' = [op EXCEPT ![o] = new]
<1> USE DEF OpStep
<1> DEFINE Moved == \E new : op' = [op EXCEPT ![o] = new]
<1>1. SubmitPin(o) \/ Continue(o) => Moved
  BY Zenon DEF SubmitPin, Continue
<1>2. ASSUME NEW k \in SEKeys, DeleteKey(o, k) PROVE Moved
  BY <1>2, Zenon DEF DeleteKey
<1>3. ContinueWithPin(o) => Moved
  BY Zenon DEF ContinueWithPin
<1>4. Begin(o) => Moved
  BY Zenon DEF Begin
<1>5. Hardware(o) => Moved
  BY Zenon DEF Hardware
<1>6. Apply(o) => Moved
  BY Zenon DEF Apply
<1>7. Merge(o) \/ MergeFailed(o) => Moved
  BY Zenon DEF Merge, MergeFailed
<1>8. DeleteHardware(o) \/ DeleteDone(o) => Moved
  BY Zenon DEF DeleteHardware, DeleteDone
<1>9. QED
  BY <1>1, <1>2, <1>3, <1>4, <1>5, <1>6, <1>7, <1>8 DEF AsyncCommand, AsyncStep

\* An operation ends only in a section that takes the phase over.
LEMMA BusyEnds ==
    ASSUME TypeOK, DeviceSound, [Next]_vars, NEW o \in Ops, Busy(o)
    PROVE  Busy(o)' \/ app'.phase \in {"NeedsPin", "Ready", "Error"}
<1>0. op \in [Ops -> OpState]
  BY DEF TypeOK
<1>1. CASE op' = op
  BY <1>1 DEF Busy
<1>2. ASSUME NEW q \in Ops, AsyncCommand(q) \/ AsyncStep(q)
      PROVE  Busy(o)' \/ app'.phase \in {"NeedsPin", "Ready", "Error"}
  <2>1. CASE q # o
    <3>1. \E new : op' = [op EXCEPT ![q] = new]
      BY <1>2, OnlyThisOperation
    <3>2. QED
      BY <1>0, <2>1, <3>1 DEF Busy
  <2>2. CASE q = o
    <3>1. CASE Merge(o) \/ MergeFailed(o)
      BY <3>1, MergeSound, MergeFailedSound
    <3>2. CASE Hardware(o)
      <4>1. \A r, K : /\ [op[o] EXCEPT !.pc = "loaded", !.result = r].pc = "loaded"
                      /\ [op[o] EXCEPT !.pc = "loaded", !.keys = K].pc = "loaded"
        BY <1>0 DEF OpState
      <4>2. PICK new : OpStep(o, "begun", new) /\ new.pc = "loaded"
        BY <3>2, <4>1, Zenon DEF Hardware
      <4>3. QED
        BY <1>0, <4>2 DEF OpStep, Busy
    <3>3. CASE Apply(o)
      <4> DEFINE good == [op[o] EXCEPT !.pc = "applied", !.enabled = op[o].keys \ disabled]
                 bad == [op[o] EXCEPT !.result = "failed", !.keys = {}]
      <4>1. OpStep(o, "loaded", good) \/ OpStep(o, "loaded", bad)
        BY <3>3 DEF Apply
      <4>2. good.pc = "applied" /\ bad.pc = op[o].pc
        BY <1>0 DEF OpState
      <4> HIDE DEF good, bad
      <4>3. QED
        BY <1>0, <4>1, <4>2 DEF OpStep, Busy
    <3>4. ~SubmitPin(o) /\ ~Continue(o) /\ ~ContinueWithPin(o)
      BY DEF SubmitPin, Continue, ContinueWithPin, OpStep, Busy
    <3>5. ~Begin(o)
      BY DEF Begin, OpStep, Busy
    <3>6. ~DeleteHardware(o) /\ ~DeleteDone(o) /\ \A k \in SEKeys : ~DeleteKey(o, k)
      <4> USE DEF OpStep, Busy
      <4>1. ~DeleteHardware(o)
        BY DEF DeleteHardware
      <4>2. ~DeleteDone(o)
        BY DEF DeleteDone
      <4>3. ASSUME NEW k \in SEKeys PROVE ~DeleteKey(o, k)
        BY DEF DeleteKey
      <4>4. QED
        BY <4>1, <4>2, <4>3
    <3>7. QED
      BY <1>2, <2>2, <3>1, <3>2, <3>3, <3>4, <3>5, <3>6 DEF AsyncCommand, AsyncStep
  <2>3. QED
    BY <2>1, <2>2
<1>3. op' = op \/ \E q \in Ops : AsyncCommand(q) \/ AsyncStep(q)
  BY Threads
<1>4. QED
  BY <1>1, <1>2, <1>3

\* So does the touch of a signature request.
LEMMA TouchEnds ==
    ASSUME TypeOK, [Next]_vars, NEW t \in Signers, AsksTouch(t)
    PROVE  AsksTouch(t)' \/ app'.phase \in {"NeedsPin", "Ready", "Error"}
<1>0. signer \in [Signers -> SignerState] /\ AppOK(app) /\ signer[t].key \notin SEKeys
  BY TypeGivesApp, KeysApart DEF TypeOK, AsksTouch
<1>1. CASE signer' = signer
  BY <1>1 DEF AsksTouch
<1>2. ASSUME NEW r \in Signers, SignerStep(r) \/ \E k \in Keys : SignRequest(r, k)
      PROVE  AsksTouch(t)' \/ app'.phase \in {"NeedsPin", "Ready", "Error"}
  <2>1. CASE r # t
    <3>1. \E new : signer' = [signer EXCEPT ![r] = new]
      <4> USE DEF SignStep
      <4> DEFINE Moved == \E new : signer' = [signer EXCEPT ![r] = new]
      <4>1. ASSUME NEW k \in Keys, SignRequest(r, k) PROVE Moved
        BY <4>1, Zenon DEF SignRequest
      <4>2. SignFind(r) => Moved
        BY Zenon DEF SignFind
      <4>3. Authorize(r) => Moved
        BY Zenon DEF Authorize
      <4>4. SignHardware(r) \/ SignFinish(r) => Moved
        BY Zenon DEF SignHardware, SignFinish
      <4>5. QED
        BY <1>2, <4>1, <4>2, <4>3, <4>4 DEF SignerStep
    <3>2. QED
      BY <1>0, <2>1, <3>1 DEF AsksTouch
  <2>2. CASE r = t
    <3>1. (\A k \in Keys : ~SignRequest(t, k)) /\ ~SignFind(t)
      <4> USE DEF SignStep, AsksTouch
      <4>1. ASSUME NEW k \in Keys PROVE ~SignRequest(t, k)
        BY DEF SignRequest
      <4>2. ~SignFind(t)
        BY DEF SignFind
      <4>3. QED
        BY <4>1, <4>2
    <3>2. \A c, v : /\ [signer[t] EXCEPT !.pc = c, !.result = v].pc = c
                    /\ [signer[t] EXCEPT !.pc = c, !.result = v].key = signer[t].key
      BY <1>0 DEF SignerState
    <3>3. CASE Authorize(t)
      <4>1. PICK c \in {"signing", "done"}, v \in {"none", "needsPin", "failed"} :
                SignStep(t, "found", [signer[t] EXCEPT !.pc = c, !.result = v])
        BY <3>3 DEF Authorize
      <4>2. QED
        BY <1>0, <3>2, <4>1 DEF SignStep, AsksTouch
    <3>4. CASE SignHardware(t)
      <4>1. PICK v \in {"ok", "failed"} :
                SignStep(t, "signing", [signer[t] EXCEPT !.pc = "done", !.result = v])
        BY <3>4 DEF SignHardware
      <4>2. QED
        BY <1>0, <3>2, <4>1 DEF SignStep, AsksTouch
    <3>5. CASE SignFinish(t)
      <4> DEFINE v == IF signer[t].result = "needsPin" THEN "NeedsPin"
                      ELSE IF signer[t].result = "ok" \/ t \in stale THEN "Ready" ELSE "Error"
      <4>1. app' = [app EXCEPT !.phase = v] /\ v \in {"NeedsPin", "Ready", "Error"}
        BY <3>5 DEF SignFinish, AsksTouch
      <4> HIDE DEF v
      <4>2. QED
        BY <1>0, <4>1 DEF AppOK, AppState
    <3>6. QED
      BY <1>2, <2>2, <3>1, <3>3, <3>4, <3>5 DEF SignerStep
  <2>3. QED
    BY <2>1, <2>2
<1>3. QED
  BY <1>1, <1>2, Threads

\* Only a lock of the screen takes the task away and leaves the touch.
LEMMA TouchStep ==
    ASSUME TypeOK, DeviceSound, TouchInv, [Next]_vars
    PROVE  TouchInv' \/ DeactivateClearsPending
<1>1. \A o \in Ops : op'[o].pc = "begun" => Busy(o)'
  BY DEF Busy
<1>2. \A t \in Signers : signer'[t].pc = "found" /\ signer'[t].key \in FidoKeys => AsksTouch(t)'
  BY DEF AsksTouch
<1>3. NoNewTouch => TouchInv'
  BY BusyEnds, TouchEnds DEF NoNewTouch, TouchInv
<1>4. UNCHANGED vars => NoNewTouch
  BY DEF vars, NoNewTouch
<1>5. QED
  BY <1>1, <1>2, <1>3, <1>4, StepEffects DEF TouchInv

\* Without lifecycle flags the lifecycle thread has nothing to do.
LEMMA LifecycleRests ==
    ASSUME TypeOK, Flags = {}, locker["lifecycle"] = "idle", [Next]_vars
    PROVE  locker'["lifecycle"] = "idle"
<1>0. locker \in [Lockers -> LockerSteps]
  BY DEF TypeOK
<1> USE DEF LockerStep
<1>1. AutoLock => locker'["lifecycle"] = "idle"
  BY <1>0 DEF AutoLock, Lockers
<1>2. ~DeactivateClearsPending /\ ~DeactivateClearsPins /\ ~RecoverFails
      /\ \A prompt \in BOOLEAN : ~Recover(prompt)
  BY DEF DeactivateClearsPending, DeactivateClearsPins, RecoverFails, Recover
<1>3. \A w \in Lockers : LockerClearsApp(w) => locker'["lifecycle"] = "idle"
  BY <1>0 DEF LockerClearsApp, Lockers
<1>4. QED
  BY <1>1, <1>2, <1>3, Threads DEF LockerEvent, LockerSection

\* Whoever shows the request for a touch ends it, in any interleaving of
\* operations, signature requests, dismissals and unplugged devices: as long as
\* no lifecycle notification comes (the phase is set by sign_request, the
\* request_fido_key_* commands and perform_fido_operation).  With one it is false,
\* see DeactivateClearsPending.
THEOREM TouchStaysAwaited == Flags = {} => (Spec => []TouchIsAwaited)
<1> SUFFICES ASSUME Flags = {} PROVE Spec => []TouchIsAwaited
  OBVIOUS
<1> DEFINE Quiet == locker["lifecycle"] = "idle"
<1>1. Init => TouchInv /\ Quiet
  BY DEF Init, TouchInv, Lockers
<1>2. TypeOK /\ Quiet /\ [Next]_vars => Quiet'
  BY LifecycleRests
<1>3. TypeOK /\ DeviceSound /\ Quiet /\ TouchInv /\ [Next]_vars => TouchInv'
  BY TouchStep DEF DeactivateClearsPending, LockerStep
<1>4. TouchInv => TouchIsAwaited
  BY DEF TouchInv, TouchIsAwaited, Busy, AsksTouch
<1>5. QED
  BY <1>1, <1>2, <1>3, <1>4, DeviceInvariant, PTL DEF Spec

\* A rename ends "Loading", unless its key has disappeared.
LEMMA RenameEnds ==
    ASSUME TypeOK, [Next]_vars, main.pc \in {"renaming", "renamed"}
    PROVE  \/ main'.pc \in {"renaming", "renamed"}
           \/ app'.phase = "Ready"
           \/ RenameStored /\ main.key \notin app.keys
<1>0. AppOK(app) /\ main \in MainState
  BY TypeGivesApp DEF TypeOK
<1>1. ~UserCommand
  BY CommandsTakeTurns DEF MainIdle, IdleMain
<1>2. /\ ~CreateSEKeyInMemory /\ ~SetKeyEnabledInMemory
      /\ ~LockAgentClear /\ ~LockAgentFlag /\ ~RenameLoads
  BY DEF CreateSEKeyInMemory, SetKeyEnabledInMemory, LockAgentClear, LockAgentFlag, RenameLoads
<1>3. \A requirePin \in BOOLEAN : ~RenameAsksPin(requirePin)
  BY DEF RenameAsksPin
<1>4. RenameDone => main'.pc = "renamed"
  BY <1>0 DEF RenameDone, MainState
<1>5. RenameFails => app'.phase = "Ready"
  BY <1>0 DEF RenameFails, AppOK, AppState
<1>6. ASSUME RenameStored, main.key \in app.keys PROVE app'.phase = "Ready"
  <2> DEFINE E == IF main.on THEN app.enabled \cup {main.key} ELSE app.enabled \ {main.key}
  <2>1. app' = [app EXCEPT !.phase = "Ready", !.enabled = E]
    BY <1>6 DEF RenameStored, RenamedApp
  <2> HIDE DEF E
  <2>2. QED
    BY <1>0, <2>1 DEF AppOK, AppState
<1>7. QED
  BY <1>1, <1>2, <1>3, <1>4, <1>5, <1>6, Threads DEF MainStep

LEMMA LoadingStep ==
    ASSUME TypeOK, DeviceSound, LoadingHasOperation, [Next]_vars
    PROVE  LoadingHasOperation' \/ (RenameStored /\ main.key \notin app.keys)
<1>1. (\E o \in Ops : op'[o].pc = "begun") \/ main'.pc = "renaming" => LoadingHasOperation'
  BY DEF LoadingHasOperation
<1>2. ASSUME NoNewLoading, NEW o \in Ops, Busy(o)
      PROVE  LoadingHasOperation'
  BY <1>2, BusyEnds DEF LoadingHasOperation, Busy
<1>3. CASE NoNewLoading /\ main.pc \in {"renaming", "renamed"}
  BY <1>3, RenameEnds DEF LoadingHasOperation
<1>4. NoNewLoading /\ app.phase # "Loading" => LoadingHasOperation'
  BY DEF LoadingHasOperation, NoNewLoading
<1>5. UNCHANGED vars => NoNewLoading
  BY DEF vars, NoNewLoading
<1>6. QED
  BY <1>1, <1>2, <1>3, <1>4, <1>5, StepEffects DEF LoadingHasOperation, Busy

\* "Loading" is left behind by one kind of step only: the end of a rename whose
\* key has disappeared meanwhile.  No operation, failure, dismissal, lock or
\* unplugged device does, with every command allowed and any number of operations
\* (perform_fido_operation, rename_key).
THEOREM OnlyRenameLosesLoading == Spec => LoadingIsLostByRename
<1>1. TypeOK /\ DeviceSound /\ [Next]_vars =>
         [LoadingHasOperation /\ ~LoadingHasOperation'
             => RenameStored /\ main.key \notin app.keys]_vars
  BY LoadingStep
<1>2. QED
  BY <1>1, DeviceInvariant, PTL DEF Spec, LoadingIsLostByRename

\* Without renames "Loading" is shown only while an operation is at work, for
\* any number of operations that overlap.  With renames it is false, see
\* RenamedApp.
THEOREM LoadingIsAnOperation ==
    "rename" \notin Inputs => (Spec => []LoadingHasOperation)
<1> SUFFICES ASSUME "rename" \notin Inputs PROVE Spec => []LoadingHasOperation
  OBVIOUS
<1> DEFINE NoRename == main.pc \notin {"renameChosen", "renaming", "renamed"}
<1>1. Init => LoadingHasOperation /\ NoRename
  BY DEF Init, LoadingHasOperation, IdleMain
<1>2. TypeOK /\ NoRename /\ [Next]_vars => NoRename'
  <2> SUFFICES ASSUME TypeOK, NoRename, [Next]_vars PROVE NoRename'
    OBVIOUS
  <2>1. UserCommand => NoRename'
    <3>1. \A k \in SEKeys : CreateSEKey(k) => main'.pc = "created"
      BY DEF CreateSEKey, IdleMain
    <3>2. QED
      BY <3>1, CommandBegins
  <2>2. CreateSEKeyInMemory \/ SetKeyEnabledInMemory \/ LockAgentClear \/ LockAgentFlag
           => NoRename'
    BY DEF CreateSEKeyInMemory, SetKeyEnabledInMemory, LockAgentClear, LockAgentFlag, IdleMain
  <2>3. /\ ~RenameLoads /\ ~RenameDone /\ ~RenameFails /\ ~RenameStored
        /\ \A requirePin \in BOOLEAN : ~RenameAsksPin(requirePin)
    BY DEF RenameLoads, RenameDone, RenameFails, RenameStored, RenameAsksPin
  <2>4. MainStep => NoRename'
    BY <2>2, <2>3 DEF MainStep
  <2>5. main' = main => NoRename'
    OBVIOUS
  <2>6. QED
    BY <2>1, <2>4, <2>5, Threads
<1>3. TypeOK /\ DeviceSound /\ NoRename /\ LoadingHasOperation /\ [Next]_vars
         => LoadingHasOperation'
  BY LoadingStep DEF RenameStored
<1>4. QED
  BY <1>1, <1>2, <1>3, DeviceInvariant, PTL DEF Spec
=============================================================================
