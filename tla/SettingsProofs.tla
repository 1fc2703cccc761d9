--------------------------- MODULE SettingsProofs ---------------------------
(***************************************************************************)
(* The security settings: no sequence of changes, failures, crashes and    *)
(* losses of the keychain gives a protection up without the user, and      *)
(* nothing acknowledged is lost but what the keychain has missed.          *)
(***************************************************************************)
EXTENDS Settings, TLAPS

-----------------------------------------------------------------------------
(* The inductive invariant                                                 *)

(* Every copy of the settings that is kept, or is under way to be. *)
UnderWay == command.pc \in {"save", "mirror"}
Copies ==
    settingsFile \cup {p.settings : p \in policy} \cup {effective}
      \cup {new \in {command.new} : UnderWay}

CopiesWaived == \A s \in Copies : GivenUp(s) \subseteq waived

(* A command in progress has a group, and the load it began with has left a
   file; its settings are in the file once it is to write the keychain. *)
CommandFits ==
    /\ command.pc \in {"authorize", "save", "mirror"} =>
          command.group # "none" /\ settingsFile # {}
    /\ CommandAt("mirror") => settingsFile = {command.new}
    /\ CommandAt("off") => effective = Default

(* The file holds what the user may find.  So does the policy in what it has not
   missed: there its settings are those of the file, but for a change that is
   about to be mirrored, and it is missing only as long as there is no file. *)
StoresAgree ==
    /\ FromFile \in promised /\ labelFile \in promisedLabel
    /\ "settings" \notin missed =>
          /\ policy = {} => settingsFile = {}
          /\ \A p \in policy : p.settings \in promised
                               /\ (~CommandAt("mirror") => p.settings = FromFile)
    /\ "label" \notin missed => \A p \in policy : p.label \in promisedLabel \cup {NoLabel}

(* But for what has drifted, what is in effect is no weaker than the file and no
   weaker than the policy; where a command has saved its settings, what it is
   about to apply is no weaker than the file. *)
NoWeaker ==
    /\ IF CommandAt("mirror")
       THEN GivenUp(Applied(effective, command.group, command.new))
               \subseteq GivenUp(command.new) \cup drifted
       ELSE GivenUp(effective) \subseteq GivenUp(FromFile) \cup drifted
    /\ GivenUp(effective) \subseteq GivenUp(Kept) \cup drifted

SettingsInv ==
    /\ SettingsTypeOK
    /\ CommandFits
    /\ CopiesWaived
    /\ StoresAgree
    /\ NoWeaker

-----------------------------------------------------------------------------
(* Settings, options and what is given up                                  *)

Groups == {"pin", "touch", "minutes", "other"}

LEMMA DefaultFacts ==
    Default \in AllSettings /\ GivenUp(Default) = {}
BY SettingsAssumption DEF Default, AllSettings, GivenUp, LooserLock

LEMMA GivenUpIsTyped == ASSUME NEW s PROVE GivenUp(s) \subseteq Protections
BY DEF GivenUp, Protections

LEMMA OptionFacts ==
    ASSUME NEW values, NEW option, IsOption(option, values)
    PROVE  option # {} => The(option) \in option /\ The(option) \in values
                          /\ \A x \in option : x = The(option)
BY DEF IsOption, The

LEMMA SingleOption == ASSUME NEW x PROVE The({x}) = x
BY DEF The

(* What needs no authorization gives nothing up. *)
LEMMA NotWeakened ==
    ASSUME NEW s \in AllSettings, NEW t \in AllSettings, NEW group,
           ~Weakened(group, s, t), group = "minutes" \/ t.minutes = s.minutes
    PROVE  GivenUp(t) \subseteq GivenUp(s)
<1>1. s.pin \subseteq t.pin /\ s.touch \subseteq t.touch
  BY DEF Weakened, AllSettings
<1>2. s.minutes \in Nat /\ t.minutes \in Nat /\ DefaultMinutes \in Nat \ {0}
  BY SettingsAssumption DEF AllSettings
<1>3. LooserLock(DefaultMinutes, t.minutes) => LooserLock(DefaultMinutes, s.minutes)
  BY <1>2 DEF Weakened, LooserLock
<1>4. QED
  BY <1>1, <1>3 DEF GivenUp

LEMMA AppliedFields ==
    ASSUME NEW s \in AllSettings, NEW new \in AllSettings, NEW group \in Groups
    PROVE  /\ Applied(s, group, new) \in AllSettings
           /\ Applied(s, group, new).pin = IF group = "pin" THEN new.pin ELSE s.pin
           /\ Applied(s, group, new).touch = IF group = "touch" THEN new.touch ELSE s.touch
           /\ Applied(s, group, new).minutes = IF group = "minutes" THEN new.minutes ELSE s.minutes
<1>1. CASE group = "pin"
  BY <1>1 DEF Applied, AllSettings
<1>2. CASE group = "touch"
  BY <1>2 DEF Applied, AllSettings
<1>3. CASE group = "minutes"
  BY <1>3 DEF Applied, AllSettings
<1>4. CASE group = "other"
  BY <1>4 DEF Applied, AllSettings
<1>5. QED
  BY <1>1, <1>2, <1>3, <1>4 DEF Groups

(* A change of one group gives up no more than the old settings and the new. *)
LEMMA AppliedGivesUp ==
    ASSUME NEW s \in AllSettings, NEW new \in AllSettings, NEW group \in Groups
    PROVE  GivenUp(Applied(s, group, new)) \subseteq GivenUp(s) \cup GivenUp(new)
<1> DEFINE a == Applied(s, group, new)
<1>1. /\ a.pin = IF group = "pin" THEN new.pin ELSE s.pin
      /\ a.touch = IF group = "touch" THEN new.touch ELSE s.touch
      /\ a.minutes = IF group = "minutes" THEN new.minutes ELSE s.minutes
  BY AppliedFields
<1> HIDE DEF a
<1>2. GivenUp(a) \subseteq GivenUp(s) \cup GivenUp(new)
  BY <1>1 DEF GivenUp
<1>3. QED
  BY <1>2 DEF a

(* Protection by protection. *)
LEMMA GivenUpMember ==
    ASSUME NEW s, NEW x
    PROVE  /\ x \in DefaultPin => (x \in GivenUp(s) <=> x \notin s.pin)
           /\ x \in TouchChecks => (x \in GivenUp(s) <=> x \notin s.touch)
           /\ x = "autolock" => (x \in GivenUp(s) <=> LooserLock(DefaultMinutes, s.minutes))
           /\ x \in GivenUp(s) => x \in DefaultPin \/ x \in TouchChecks \/ x = "autolock"
BY SettingsAssumption DEF GivenUp

(* If new differs from f in its own group only, what the change makes of
   settings that are no weaker than f, but for the protections in d, is no
   weaker than new, but for d. *)
LEMMA AppliedIsNoWeaker ==
    ASSUME NEW s \in AllSettings, NEW f \in AllSettings, NEW new \in AllSettings,
           NEW group \in Groups, NEW d, new = Applied(f, group, new),
           GivenUp(s) \subseteq GivenUp(f) \cup d
    PROVE  GivenUp(Applied(s, group, new)) \subseteq GivenUp(new) \cup d
<1> DEFINE a == Applied(s, group, new)
           b == Applied(f, group, new)
<1>1. /\ b.pin = IF group = "pin" THEN new.pin ELSE f.pin
      /\ b.touch = IF group = "touch" THEN new.touch ELSE f.touch
      /\ b.minutes = IF group = "minutes" THEN new.minutes ELSE f.minutes
  BY AppliedFields
<1>2. /\ a.pin = IF group = "pin" THEN new.pin ELSE s.pin
      /\ a.touch = IF group = "touch" THEN new.touch ELSE s.touch
      /\ a.minutes = IF group = "minutes" THEN new.minutes ELSE s.minutes
  BY AppliedFields
<1>3. new = b
  OBVIOUS
<1> HIDE DEF a, b
<1>4. ASSUME NEW x, x \in GivenUp(a)
      PROVE  x \in GivenUp(new) \/ (x \in GivenUp(s) /\ (x \in GivenUp(f) => x \in GivenUp(new)))
  <2>1. CASE x \in DefaultPin
    BY <1>1, <1>2, <1>3, <1>4, <2>1, GivenUpMember
  <2>2. CASE x \in TouchChecks
    BY <1>1, <1>2, <1>3, <1>4, <2>2, GivenUpMember
  <2>3. CASE x = "autolock"
    BY <1>1, <1>2, <1>3, <1>4, <2>3, GivenUpMember
  <2>4. QED
    BY <1>4, <2>1, <2>2, <2>3, GivenUpMember
<1>5. GivenUp(a) \subseteq GivenUp(new) \cup d
  BY <1>4
<1>6. QED
  BY <1>5 DEF a

-----------------------------------------------------------------------------
(* What is loaded                                                          *)

LEMMA LoadedFacts ==
    ASSUME SettingsInv
    PROVE  /\ FromFile \in AllSettings /\ Loaded \in AllSettings /\ LoadedLabel \in LabelOrNone
           /\ GivenUp(FromFile) \subseteq waived /\ GivenUp(Loaded) \subseteq waived
           /\ effective \in AllSettings /\ GivenUp(effective) \subseteq waived
           /\ command.new \in AllSettings /\ command.group \in Groups \cup {"none"}
           /\ Kept \in AllSettings /\ GivenUp(Kept) \subseteq waived
           /\ policy = {} => Kept = Default
           /\ \A p \in policy : p.settings = Kept /\ p.label \in LabelOrNone
           /\ Loaded = IF access /\ policy # {} THEN Kept ELSE FromFile
<1>1. IsOption(settingsFile, AllSettings) /\ IsOption(policy, Policies)
      /\ labelFile \in LabelOrNone /\ effective \in AllSettings /\ command \in Commands
  BY DEF SettingsInv, SettingsTypeOK
<1>2. FromFile \in AllSettings /\ GivenUp(FromFile) \subseteq waived
  <2>1. CASE settingsFile = {}
    BY <2>1, DefaultFacts DEF FromFile
  <2>2. CASE settingsFile # {}
    BY <2>2, <1>1, OptionFacts DEF FromFile, SettingsInv, CopiesWaived, Copies
  <2>3. QED
    BY <2>1, <2>2
<1>3. CASE policy # {}
  <2>1. The(policy) \in policy /\ The(policy) \in Policies /\ \A p \in policy : p = The(policy)
    BY <1>1, <1>3, OptionFacts
  <2>2. The(policy).settings \in Copies
    BY <2>1 DEF Copies
  <2>3. The(policy).settings \in AllSettings /\ The(policy).label \in LabelOrNone
    BY <2>1 DEF Policies
  <2>4. Kept = The(policy).settings
    BY <1>3 DEF Kept
  <2>5. GivenUp(Kept) \subseteq waived
    BY <2>2, <2>4 DEF SettingsInv, CopiesWaived
  <2>6. Loaded = (IF access /\ policy # {} THEN Kept ELSE FromFile) /\ LoadedLabel \in LabelOrNone
    BY <1>1, <2>3, <2>4 DEF Loaded, LoadedLabel
  <2>7. GivenUp(effective) \subseteq waived /\ command.new \in AllSettings
        /\ command.group \in Groups \cup {"none"}
    BY <1>1 DEF SettingsInv, CopiesWaived, Copies, Commands, Groups
  <2>8. QED
    BY <1>1, <1>2, <1>3, <2>1, <2>3, <2>4, <2>5, <2>6, <2>7
<1>4. CASE policy = {}
  <2>1. Kept = Default /\ Loaded = FromFile /\ LoadedLabel = labelFile
    BY <1>4 DEF Kept, Loaded, LoadedLabel
  <2>2. GivenUp(effective) \subseteq waived /\ command.new \in AllSettings
        /\ command.group \in Groups \cup {"none"}
    BY <1>1 DEF SettingsInv, CopiesWaived, Copies, Commands, Groups
  <2>3. QED
    BY <1>1, <1>2, <1>4, <2>1, <2>2, DefaultFacts
<1>5. QED
  BY <1>3, <1>4

(* A load that succeeds or fails keeps the stores in agreement, gives nothing up,
   and leaves no store stronger than what is in effect. *)
LEMMA LoadKeeps ==
    ASSUME SettingsInv, Load \/ LoadFails, UNCHANGED <<labelFile, access>>, ~CommandAt("mirror")
    PROVE  /\ IsOption(settingsFile', AllSettings) /\ IsOption(policy', Policies)
           /\ \A s \in settingsFile' : GivenUp(s) \subseteq waived
           /\ \A p \in policy' : GivenUp(p.settings) \subseteq waived
           /\ Load => FromFile' = Loaded /\ settingsFile' # {}
           /\ promised' \subseteq AllSettings /\ FromFile' \in promised'
           /\ missed' \subseteq {"settings", "label"}
           /\ "settings" \notin missed' => /\ policy' = {} => settingsFile' = {}
                                          /\ \A p \in policy' : p.settings = FromFile'
           /\ "label" \notin missed' =>
                 \A p \in policy' : p.label \in promisedLabel \cup {NoLabel}
           /\ GivenUp(effective) \subseteq GivenUp(FromFile') \cup drifted
           /\ GivenUp(effective) \subseteq GivenUp(Kept') \cup drifted
           /\ Load => GivenUp(Loaded) \subseteq
                        GivenUp(Kept') \cup (IF "settings" \in missed'
                                             THEN GivenUp(Loaded) \ GivenUp(Kept) ELSE {})
<1> USE LoadedFacts
<1>1. /\ IsOption(settingsFile, AllSettings) /\ IsOption(policy, Policies)
      /\ promised \subseteq AllSettings /\ missed \subseteq {"settings", "label"}
      /\ FromFile \in promised
      /\ "settings" \notin missed => /\ policy = {} => settingsFile = {}
                                    /\ \A p \in policy : p.settings = FromFile
      /\ "label" \notin missed => \A p \in policy : p.label \in promisedLabel \cup {NoLabel}
      /\ GivenUp(effective) \subseteq GivenUp(FromFile) \cup drifted
      /\ GivenUp(effective) \subseteq GivenUp(Kept) \cup drifted
  BY DEF SettingsInv, SettingsTypeOK, StoresAgree, NoWeaker
<1> DEFINE first == [settings |-> FromFile, label |-> NoLabel]
<1>2. first \in Policies /\ first.settings = FromFile /\ first.label = NoLabel
  BY DEF Policies, LabelOrNone
<1> HIDE DEF first
<1>3. policy' = policy \/ (access /\ policy = {} /\ policy' = {first})
  BY DEF Load, LoadFails, InitializedPolicy, Written, first
<1>4. Load => /\ settingsFile' = {Loaded} /\ promised' = {Loaded} /\ FromFile' = Loaded
              /\ missed' = IF access /\ policy' # {} THEN missed \ {"settings"}
                           ELSE IF policy = {} THEN missed \cup {"settings"} ELSE missed
  BY SingleOption DEF Load, FromFile
<1>5. ~Load => /\ settingsFile' = settingsFile /\ promised' = promised /\ FromFile' = FromFile
               /\ missed' = IF policy' # policy THEN missed \ {"settings"} ELSE missed
  BY DEF LoadFails, FromFile
<1>6. CASE policy' = policy
  <2>1. Kept' = Kept
    BY <1>6 DEF Kept
  <2>2. \A s \in settingsFile \cup {Loaded} : GivenUp(s) \subseteq waived
    BY DEF SettingsInv, CopiesWaived, Copies
  <2>3. \A p \in policy' : GivenUp(p.settings) \subseteq waived
    BY <1>6
  <2>4. IsOption(settingsFile', AllSettings)
    BY <1>1, <1>4, <1>5 DEF IsOption
  <2>5. "settings" \notin missed' => /\ policy' = {} => settingsFile' = {}
                                    /\ \A p \in policy' : p.settings = FromFile'
    BY <1>1, <1>4, <1>5, <1>6
  <2>6. missed' \subseteq {"settings", "label"} /\ ("label" \notin missed' => "label" \notin missed)
    BY <1>1, <1>4, <1>5
  <2>7. promised' \subseteq AllSettings /\ FromFile' \in promised'
        /\ GivenUp(effective) \subseteq GivenUp(FromFile') \cup drifted
    BY <1>1, <1>4, <1>5
  <2>8. Load => /\ FromFile' = Loaded /\ settingsFile' # {}
                /\ GivenUp(Loaded) \subseteq
                        GivenUp(Kept') \cup (IF "settings" \in missed'
                                             THEN GivenUp(Loaded) \ GivenUp(Kept) ELSE {})
    <3>1. Load /\ "settings" \notin missed' => policy # {} /\ Kept = Loaded
      BY <1>4, <1>6, <2>5
    <3>2. QED
      BY <1>4, <2>1, <3>1
  <2>9. QED
    BY <1>1, <1>4, <1>5, <1>6, <2>1, <2>2, <2>3, <2>4, <2>5, <2>6, <2>7, <2>8
<1>7. CASE access /\ policy = {} /\ policy' = {first}
  <2>1. Kept' = FromFile /\ policy' # {} /\ Loaded = FromFile /\ FromFile' = FromFile
    BY <1>2, <1>4, <1>5, <1>7, SingleOption DEF Kept
  <2>2. IsOption(policy', Policies) /\ \A p \in policy' : p.settings = FromFile /\ p.label = NoLabel
    BY <1>2, <1>7 DEF IsOption
  <2>3. missed' = missed \ {"settings"}
    BY <1>4, <1>5, <1>7
  <2>4. IsOption(settingsFile', AllSettings) /\ \A s \in settingsFile' : GivenUp(s) \subseteq waived
    BY <1>1, <1>4, <1>5 DEF IsOption, SettingsInv, CopiesWaived, Copies
  <2>5. promised' \subseteq AllSettings /\ FromFile' \in promised'
    BY <1>1, <1>4, <1>5, <2>1
  <2>6. QED
    BY <1>1, <1>4, <2>1, <2>2, <2>3, <2>4, <2>5
<1>8. QED
  BY <1>3, <1>6, <1>7

LEMMA SameStore ==
    ASSUME UNCHANGED <<settingsFile, policy, access, labelFile>>
    PROVE  FromFile' = FromFile /\ Loaded' = Loaded /\ LoadedLabel' = LoadedLabel /\ Kept' = Kept
BY DEF FromFile, Loaded, LoadedLabel, Kept

LEMMA RestingFacts ==
    ASSUME NEW pc \in {"off", "idle", "label"}
    PROVE  /\ Resting(pc) \in Commands
           /\ Resting(pc).pc = pc /\ Resting(pc).group = "none" /\ Resting(pc).new = Default
BY DefaultFacts DEF Resting, Commands

-----------------------------------------------------------------------------
(* Loads, and the end of a command                                         *)

LEMMA LoadedStep ==
    ASSUME SettingsInv, Start \/ GetSettings
    PROVE  SettingsInv'
<1> USE LoadedFacts, DefaultFacts, RestingFacts
<1>1. /\ Load \/ LoadFails
      /\ UNCHANGED <<labelFile, access, waived, promisedLabel>>
      /\ ~CommandAt("mirror")
      /\ command'.pc = "idle" /\ command' \in Commands
  BY DEF Start, GetSettings, CommandAt, SettingsInv, SettingsTypeOK
<1>2. \/ UNCHANGED <<effective, drifted>>
      \/ Load /\ effective' = Loaded
         /\ drifted' = IF "settings" \in missed' THEN GivenUp(Loaded) \ GivenUp(Kept) ELSE {}
      \/ effective' = Default /\ drifted' = {}
  BY DEF Start, GetSettings
<1>3. /\ IsOption(settingsFile', AllSettings) /\ IsOption(policy', Policies)
      /\ \A s \in settingsFile' : GivenUp(s) \subseteq waived
      /\ \A p \in policy' : GivenUp(p.settings) \subseteq waived
      /\ promised' \subseteq AllSettings /\ FromFile' \in promised'
      /\ missed' \subseteq {"settings", "label"}
      /\ "settings" \notin missed' => /\ policy' = {} => settingsFile' = {}
                                     /\ \A p \in policy' : p.settings = FromFile'
      /\ "label" \notin missed' => \A p \in policy' : p.label \in promisedLabel \cup {NoLabel}
  BY <1>1, LoadKeeps
<1>4. effective' \in AllSettings /\ GivenUp(effective') \subseteq waived
  BY <1>2
<1>5. drifted' \subseteq Protections
  BY <1>2, GivenUpIsTyped DEF SettingsInv, SettingsTypeOK
<1>6. /\ GivenUp(effective') \subseteq GivenUp(FromFile') \cup drifted'
      /\ GivenUp(effective') \subseteq GivenUp(Kept') \cup drifted'
  <2>1. CASE UNCHANGED <<effective, drifted>>
    BY <1>1, <2>1, LoadKeeps
  <2>2. CASE Load /\ effective' = Loaded
             /\ drifted' = IF "settings" \in missed' THEN GivenUp(Loaded) \ GivenUp(Kept) ELSE {}
    BY <1>1, <2>2, LoadKeeps
  <2>3. CASE effective' = Default
    BY <2>3
  <2>4. QED
    BY <1>2, <2>1, <2>2, <2>3
<1>7. SettingsTypeOK'
  BY <1>1, <1>3, <1>4, <1>5 DEF SettingsInv, SettingsTypeOK
<1>8. CommandFits'
  BY <1>1 DEF CommandFits, CommandAt
<1>9. CopiesWaived'
  BY <1>1, <1>3, <1>4 DEF CopiesWaived, Copies, UnderWay
<1>10. StoresAgree'
  BY <1>1, <1>3 DEF SettingsInv, StoresAgree
<1>11. NoWeaker'
  BY <1>1, <1>6 DEF NoWeaker, CommandAt
<1>12. QED
  BY <1>7, <1>8, <1>9, <1>10, <1>11 DEF SettingsInv

LEMMA EndInv ==
    ASSUME SettingsInv, Decline \/ SaveFails \/ Quit
    PROVE  SettingsInv'
<1> USE LoadedFacts, DefaultFacts, RestingFacts, SameStore
<1>1. /\ UNCHANGED <<settingsFile, labelFile, policy, access, waived, promised, promisedLabel>>
      /\ command'.pc \in {"off", "idle"} /\ command' \in Commands
      /\ missed \subseteq missed' /\ missed' \subseteq {"settings", "label"}
      /\ CommandAt("mirror") => "settings" \in missed'
      /\ effective' = Default \/ (UNCHANGED <<effective, drifted>> /\ ~CommandAt("mirror"))
      /\ command'.pc = "off" => effective' = Default
      /\ drifted' \in {drifted, {}}
  <2>1. missed \subseteq {"settings", "label"}
    BY DEF SettingsInv, SettingsTypeOK
  <2>2. CASE Decline
    BY <2>1, <2>2 DEF Decline, CommandAt
  <2>3. CASE SaveFails
    BY <2>1, <2>3 DEF SaveFails, CommandAt
  <2>4. CASE Quit
    BY <2>1, <2>4 DEF Quit, CommandAt
  <2>5. QED
    BY <2>2, <2>3, <2>4
<1>2. SettingsTypeOK'
  BY <1>1 DEF SettingsInv, SettingsTypeOK
<1>3. CommandFits' /\ CopiesWaived'
  BY <1>1 DEF SettingsInv, CommandFits, CommandAt, CopiesWaived, Copies, UnderWay
<1>4. StoresAgree'
  BY <1>1 DEF SettingsInv, StoresAgree
<1>5. NoWeaker'
  BY <1>1 DEF SettingsInv, NoWeaker, CommandAt
<1>6. QED
  BY <1>2, <1>3, <1>4, <1>5 DEF SettingsInv

-----------------------------------------------------------------------------
(* A change of the settings                                                *)

LEMMA ChangeInv ==
    ASSUME SettingsInv, NEW group \in Groups, NEW new \in AllSettings, Change(group, new),
           new = Applied(Loaded, group, new), group = "minutes" \/ new.minutes = Loaded.minutes
    PROVE  SettingsInv'
<1> USE LoadedFacts
<1> DEFINE pc == IF Weakened(group, Loaded, new) THEN "authorize" ELSE "save"
<1>1. /\ command'.pc = pc /\ command'.group = group /\ command'.new = new /\ command' \in Commands
      /\ UNCHANGED <<labelFile, access, effective, waived, promisedLabel, drifted>>
      /\ Load /\ ~CommandAt("mirror")
  BY DEF Change, Commands, Groups, CommandAt
<1> HIDE DEF pc
<1>2. /\ IsOption(settingsFile', AllSettings) /\ IsOption(policy', Policies)
      /\ \A s \in settingsFile' : GivenUp(s) \subseteq waived
      /\ \A p \in policy' : GivenUp(p.settings) \subseteq waived
      /\ FromFile' = Loaded /\ settingsFile' # {}
      /\ promised' \subseteq AllSettings /\ FromFile' \in promised'
      /\ missed' \subseteq {"settings", "label"}
      /\ "settings" \notin missed' => /\ policy' = {} => settingsFile' = {}
                                     /\ \A p \in policy' : p.settings = FromFile'
      /\ "label" \notin missed' => \A p \in policy' : p.label \in promisedLabel \cup {NoLabel}
      /\ GivenUp(effective) \subseteq GivenUp(FromFile') \cup drifted
      /\ GivenUp(effective) \subseteq GivenUp(Kept') \cup drifted
  BY <1>1, LoadKeeps
<1>3. pc \in {"authorize", "save"} /\ (pc = "save" => GivenUp(new) \subseteq waived)
  BY NotWeakened DEF pc
<1>4. SettingsTypeOK'
  BY <1>1, <1>2, <1>3 DEF SettingsInv, SettingsTypeOK
<1>5. CommandFits' /\ CopiesWaived'
  BY <1>1, <1>2, <1>3 DEF SettingsInv, CommandFits, CommandAt, CopiesWaived, Copies, UnderWay, Groups
<1>6. StoresAgree'
  BY <1>1, <1>2, <1>3 DEF SettingsInv, StoresAgree
<1>7. NoWeaker'
  BY <1>1, <1>2, <1>3 DEF NoWeaker, CommandAt
<1>8. QED
  BY <1>4, <1>5, <1>6, <1>7 DEF SettingsInv

LEMMA AnyChangeInv ==
    ASSUME SettingsInv,
           \/ \E pin \in SUBSET PinChecks : ChangePin(pin)
           \/ \E touch \in SUBSET TouchChecks : ChangeTouch(touch)
           \/ \E minutes \in Minutes : ChangeAutoLock(minutes)
           \/ ChangeOther
    PROVE  SettingsInv'
<1> USE LoadedFacts DEF Groups
<1>1. ASSUME NEW pin \in SUBSET PinChecks, ChangePin(pin)
      PROVE  SettingsInv'
  <2> DEFINE new == [Loaded EXCEPT !.pin = pin]
  <2>1. new \in AllSettings /\ new = Applied(Loaded, "pin", new) /\ new.minutes = Loaded.minutes
    BY DEF AllSettings, Applied
  <2>2. QED
    BY <1>1, <2>1, ChangeInv DEF ChangePin
<1>2. ASSUME NEW touch \in SUBSET TouchChecks, ChangeTouch(touch)
      PROVE  SettingsInv'
  <2> DEFINE new == [Loaded EXCEPT !.touch = touch]
  <2>1. new \in AllSettings /\ new = Applied(Loaded, "touch", new) /\ new.minutes = Loaded.minutes
    BY DEF AllSettings, Applied
  <2>2. QED
    BY <1>2, <2>1, ChangeInv DEF ChangeTouch
<1>3. ASSUME NEW minutes \in Minutes, ChangeAutoLock(minutes)
      PROVE  SettingsInv'
  <2> DEFINE new == [Loaded EXCEPT !.minutes = minutes]
  <2>1. new \in AllSettings /\ new = Applied(Loaded, "minutes", new)
    BY DEF AllSettings, Applied
  <2>2. QED
    BY <1>3, <2>1, ChangeInv DEF ChangeAutoLock
<1>4. ASSUME ChangeOther
      PROVE  SettingsInv'
  <2>1. Loaded = Applied(Loaded, "other", Loaded)
    BY DEF Applied
  <2>2. QED
    BY <1>4, <2>1, ChangeInv DEF ChangeOther
<1>5. QED
  BY <1>1, <1>2, <1>3, <1>4

-----------------------------------------------------------------------------
(* The rest of a change, labels, and the keychain                          *)

LEMMA AgreeInv ==
    ASSUME SettingsInv, Agree
    PROVE  SettingsInv'
<1> USE LoadedFacts, SameStore
<1>1. /\ command \in Commands /\ command.pc = "authorize"
      /\ command' = [command EXCEPT !.pc = "save"]
  BY DEF Agree, CommandAt, SettingsInv, SettingsTypeOK
<1>2. command'.pc = "save" /\ command'.group = command.group /\ command'.new = command.new
      /\ command' \in Commands
  BY <1>1 DEF Commands
<1>3. /\ UNCHANGED <<settingsFile, labelFile, policy, access, effective, promised, promisedLabel,
                     missed, drifted>>
      /\ waived' = waived \cup GivenUp(command.new)
  BY DEF Agree
<1>4. SettingsTypeOK'
  <2>1. waived' \subseteq Protections
    BY <1>3, GivenUpIsTyped DEF SettingsInv, SettingsTypeOK
  <2>2. QED
    BY <1>1, <1>2, <1>3, <2>1 DEF SettingsInv, SettingsTypeOK
<1>5. CommandFits' /\ CopiesWaived'
  BY <1>1, <1>2, <1>3 DEF SettingsInv, CommandFits, CommandAt, CopiesWaived, Copies, UnderWay
<1>6. StoresAgree' /\ NoWeaker'
  BY <1>1, <1>2, <1>3 DEF SettingsInv, StoresAgree, NoWeaker, CommandAt
<1>7. QED
  BY <1>4, <1>5, <1>6 DEF SettingsInv

LEMMA SaveFileInv ==
    ASSUME SettingsInv, SaveFile
    PROVE  SettingsInv'
<1> USE LoadedFacts
<1>1. /\ command \in Commands /\ command.pc = "save" /\ command.group \in Groups
      /\ command' = [command EXCEPT !.pc = "mirror"] /\ settingsFile # {}
  BY DEF SaveFile, CommandAt, SettingsInv, SettingsTypeOK, CommandFits
<1>2. command'.pc = "mirror" /\ command'.group = command.group /\ command'.new = command.new
      /\ command' \in Commands
  BY <1>1 DEF Commands
<1>3. /\ UNCHANGED <<labelFile, policy, access, effective, waived, promisedLabel, missed, drifted>>
      /\ settingsFile' = {command.new} /\ promised' = promised \cup {command.new}
  BY DEF SaveFile
<1>4. FromFile' = command.new /\ Kept' = Kept
  BY <1>3, SingleOption DEF FromFile, Kept
<1>5. SettingsTypeOK'
  BY <1>2, <1>3 DEF SettingsInv, SettingsTypeOK, IsOption
<1>6. CommandFits'
  BY <1>1, <1>2, <1>3 DEF SettingsInv, CommandFits, CommandAt
<1>7. CopiesWaived'
  BY <1>1, <1>2, <1>3 DEF SettingsInv, CopiesWaived, Copies, UnderWay
<1>8. StoresAgree'
  BY <1>1, <1>2, <1>3, <1>4 DEF SettingsInv, StoresAgree, CommandAt
<1>9. NoWeaker'
  <2>1. /\ GivenUp(effective) \subseteq GivenUp(FromFile) \cup drifted
        /\ GivenUp(effective) \subseteq GivenUp(Kept) \cup drifted
        /\ command.new = Applied(FromFile, command.group, command.new)
    BY <1>1 DEF SettingsInv, SettingsTypeOK, NoWeaker, CommandAt
  <2>2. GivenUp(Applied(effective, command.group, command.new))
           \subseteq GivenUp(command.new) \cup drifted
    BY <1>1, <2>1, AppliedIsNoWeaker
  <2>3. QED
    BY <1>2, <1>3, <1>4, <2>1, <2>2 DEF NoWeaker, CommandAt
<1>10. QED
  BY <1>5, <1>6, <1>7, <1>8, <1>9 DEF SettingsInv

LEMMA MirrorAndApplyInv ==
    ASSUME SettingsInv, MirrorAndApply
    PROVE  SettingsInv'
<1> USE LoadedFacts, RestingFacts
<1> DEFINE new == command.new
           item == [settings |-> new, label |-> IF policy = {} THEN NoLabel ELSE The(policy).label]
<1>1. /\ command.pc = "mirror" /\ command.group \in Groups /\ settingsFile = {new}
      /\ IsOption(policy, Policies) /\ FromFile = new
  <2>1. command.pc = "mirror" /\ settingsFile = {new}
    BY DEF MirrorAndApply, CommandAt, SettingsInv, CommandFits
  <2>2. FromFile = new
    BY <2>1, SingleOption DEF FromFile
  <2>3. QED
    BY <2>1, <2>2 DEF SettingsInv, SettingsTypeOK, CommandFits
<1>2. /\ item \in Policies /\ item.settings = new
      /\ policy = {} => item.label = NoLabel
      /\ policy # {} => \E p \in policy : item.label = p.label
  <2>1. policy # {} => The(policy) \in policy /\ The(policy) \in Policies
    BY <1>1, OptionFacts
  <2>2. policy # {} => The(policy).label \in LabelOrNone
    BY <2>1 DEF Policies
  <2>3. QED
    BY <2>1, <2>2 DEF Policies, LabelOrNone
<1>3. /\ effective' = Applied(effective, command.group, new)
      /\ promised' = {new}
      /\ command'.pc = "idle" /\ command' \in Commands
      /\ UNCHANGED <<settingsFile, labelFile, access, promisedLabel>>
      /\ \/ /\ policy' = {item}
            /\ missed' = missed \ {"settings"}
            /\ drifted' = (drifted \cap GivenUp(effective')) \ GivenUp(new)
            /\ waived' = waived \cap (GivenUp(new) \cup GivenUp(effective'))
         \/ /\ UNCHANGED <<policy, waived>>
            /\ missed' = missed \cup {"settings"}
            /\ drifted' = (drifted \cup (GivenUp(new) \ GivenUp(Kept))) \cap GivenUp(effective')
  BY DEF MirrorAndApply
<1> HIDE DEF item
<1>4. effective' \in AllSettings /\ GivenUp(effective') \subseteq GivenUp(effective) \cup GivenUp(new)
  BY <1>1, <1>3, AppliedFields, AppliedGivesUp
<1>5. GivenUp(effective') \subseteq waived' /\ GivenUp(new) \subseteq waived' /\ waived' \subseteq waived
  BY <1>1, <1>3, <1>4
<1>6. GivenUp(effective') \subseteq GivenUp(new) \cup drifted
      /\ GivenUp(effective) \subseteq GivenUp(Kept) \cup drifted
  BY <1>1, <1>3 DEF SettingsInv, NoWeaker, CommandAt
<1>7. /\ drifted' \subseteq Protections
      /\ FromFile' = new
      /\ missed' \subseteq {"settings", "label"} /\ ("label" \notin missed' => "label" \notin missed)
  <2>1. drifted' \subseteq Protections
    BY <1>3, GivenUpIsTyped
  <2>2. FromFile' = new
    BY <1>1, <1>3 DEF FromFile
  <2>3. QED
    BY <1>3, <2>1, <2>2 DEF SettingsInv, SettingsTypeOK
<1>8. IsOption(policy', Policies) /\ \A p \in policy' : GivenUp(p.settings) \subseteq waived'
  <2>1. CASE policy' = {item}
    BY <1>2, <1>5, <2>1 DEF IsOption
  <2>2. CASE UNCHANGED <<policy, waived>>
    BY <1>1, <2>2
  <2>3. QED
    BY <1>3, <2>1, <2>2
<1>9. SettingsTypeOK'
  BY <1>1, <1>3, <1>4, <1>5, <1>7, <1>8 DEF SettingsInv, SettingsTypeOK
<1>10. CommandFits' /\ CopiesWaived'
  BY <1>1, <1>3, <1>5, <1>8 DEF CommandFits, CommandAt, CopiesWaived, Copies, UnderWay
<1>11. StoresAgree'
  <2>1. "settings" \notin missed' => policy' = {item}
    BY <1>3
  <2>2. "label" \notin missed' => \A p \in policy' : p.label \in promisedLabel' \cup {NoLabel}
    BY <1>2, <1>3, <1>7 DEF SettingsInv, StoresAgree
  <2>3. labelFile' \in promisedLabel'
    BY <1>3 DEF SettingsInv, StoresAgree
  <2>4. QED
    BY <1>2, <1>3, <1>7, <2>1, <2>2, <2>3 DEF StoresAgree
<1>12. NoWeaker'
  <2>1. CASE policy' = {item} /\ drifted' = (drifted \cap GivenUp(effective')) \ GivenUp(new)
    <3>1. Kept' = new
      BY <1>2, <2>1, SingleOption DEF Kept
    <3>2. GivenUp(effective') \subseteq GivenUp(new) \cup drifted'
      BY <1>6, <2>1
    <3>3. QED
      BY <1>3, <1>7, <3>1, <3>2 DEF NoWeaker, CommandAt
  <2>2. CASE /\ UNCHANGED policy
             /\ drifted' = (drifted \cup (GivenUp(new) \ GivenUp(Kept))) \cap GivenUp(effective')
    <3>1. Kept' = Kept
      BY <2>2 DEF Kept
    <3>2. GivenUp(effective') \subseteq GivenUp(new) \cup drifted'
      BY <1>6, <2>2
    <3>3. GivenUp(effective') \subseteq GivenUp(Kept) \cup drifted'
      BY <1>4, <1>6, <2>2
    <3>4. QED
      BY <1>3, <1>7, <3>1, <3>2, <3>3 DEF NoWeaker, CommandAt
  <2>3. QED
    BY <1>3, <2>1, <2>2
<1>13. QED
  BY <1>9, <1>10, <1>11, <1>12 DEF SettingsInv

LEMMA SetLabelInv ==
    ASSUME SettingsInv, NEW label \in LabelOrNone, SetLabel(label)
    PROVE  SettingsInv'
<1> USE LoadedFacts, RestingFacts
<1>1. /\ command.pc = "idle" /\ labelFile' = label /\ promisedLabel' = promisedLabel \cup {label}
      /\ command'.pc = "label" /\ command' \in Commands
      /\ UNCHANGED <<settingsFile, policy, access, effective, waived, promised, missed, drifted>>
  BY DEF SetLabel, CommandAt
<1>2. FromFile' = FromFile /\ Kept' = Kept
  BY <1>1 DEF FromFile, Kept
<1>3. SettingsTypeOK'
  BY <1>1 DEF SettingsInv, SettingsTypeOK
<1>4. CommandFits' /\ CopiesWaived'
  BY <1>1, <1>2 DEF SettingsInv, CommandFits, CommandAt, CopiesWaived, Copies, UnderWay
<1>5. StoresAgree' /\ NoWeaker'
  BY <1>1, <1>2 DEF SettingsInv, StoresAgree, NoWeaker, CommandAt
<1>6. QED
  BY <1>3, <1>4, <1>5 DEF SettingsInv

LEMMA MirrorLabelInv ==
    ASSUME SettingsInv, MirrorLabel
    PROVE  SettingsInv'
<1> USE LoadedFacts, RestingFacts
<1> DEFINE item == [settings |-> Kept, label |-> labelFile]
<1>1. /\ command.pc = "label" /\ command'.pc = "idle" /\ command' \in Commands
      /\ promisedLabel' = {labelFile}
      /\ \/ policy' = {item} /\ missed' = missed \ {"label"}
         \/ UNCHANGED policy /\ missed' = missed \cup {"label"}
      /\ UNCHANGED <<settingsFile, labelFile, access, effective, waived, promised, drifted>>
      /\ labelFile \in LabelOrNone
  BY DEF MirrorLabel, CommandAt, SettingsInv, SettingsTypeOK
<1>2. item \in Policies /\ item.settings = Kept /\ item.label = labelFile
  BY <1>1 DEF Policies
<1> HIDE DEF item
<1>3. FromFile' = FromFile /\ Kept' = Kept
  <2>1. policy' = {item} => Kept' = Kept
    BY <1>2, SingleOption DEF Kept
  <2>2. UNCHANGED policy => Kept' = Kept
    BY DEF Kept
  <2>3. QED
    BY <1>1, <2>1, <2>2 DEF FromFile
<1>4. IsOption(policy', Policies) /\ \A p \in policy' : GivenUp(p.settings) \subseteq waived
  <2>1. CASE policy' = {item}
    BY <1>2, <2>1 DEF IsOption
  <2>2. CASE UNCHANGED policy
    BY <2>2 DEF SettingsInv, SettingsTypeOK
  <2>3. QED
    BY <1>1, <2>1, <2>2
<1>5. SettingsTypeOK'
  BY <1>1, <1>4 DEF SettingsInv, SettingsTypeOK
<1>6. CommandFits' /\ CopiesWaived'
  BY <1>1, <1>4 DEF SettingsInv, CommandFits, CommandAt, CopiesWaived, Copies, UnderWay
<1>7. StoresAgree'
  <2>1. FromFile' \in promised' /\ labelFile' \in promisedLabel'
    BY <1>1, <1>3 DEF SettingsInv, StoresAgree
  <2>2. "settings" \notin missed' /\ policy' = {item} =>
           Kept = FromFile /\ FromFile \in promised
    <3>1. "settings" \notin missed' => "settings" \notin missed
      BY <1>1
    <3>2. policy = {} /\ settingsFile = {} => Kept = FromFile
      BY DEF Kept, FromFile
    <3>3. "settings" \notin missed /\ policy # {} => Kept = FromFile
      BY <1>1 DEF SettingsInv, StoresAgree, CommandAt
    <3>4. QED
      BY <3>1, <3>2, <3>3 DEF SettingsInv, StoresAgree
  <2>3. "settings" \notin missed' =>
          /\ policy' = {} => settingsFile' = {}
          /\ \A p \in policy' : p.settings \in promised' /\ p.settings = FromFile'
    <3>1. CASE policy' = {item}
      BY <1>1, <1>2, <1>3, <2>2, <3>1
    <3>2. CASE UNCHANGED policy
      BY <1>1, <1>3, <3>2 DEF SettingsInv, StoresAgree, CommandAt
    <3>3. QED
      BY <1>1, <3>1, <3>2
  <2>4. "label" \notin missed' => \A p \in policy' : p.label \in promisedLabel'
    BY <1>1, <1>2
  <2>5. QED
    BY <2>1, <2>3, <2>4 DEF StoresAgree
<1>8. NoWeaker'
  BY <1>1, <1>3 DEF SettingsInv, NoWeaker, CommandAt
<1>9. QED
  BY <1>5, <1>6, <1>7, <1>8 DEF SettingsInv

LEMMA AccessChangesInv ==
    ASSUME SettingsInv, AccessChanges
    PROVE  SettingsInv'
<1>1. /\ access' = ~access
      /\ UNCHANGED <<settingsFile, labelFile, policy, effective, command, waived, promised,
                     promisedLabel, missed, drifted>>
  BY DEF AccessChanges
<1>2. access' \in BOOLEAN /\ FromFile' = FromFile /\ Kept' = Kept
  BY <1>1 DEF FromFile, Kept
<1>3. SettingsTypeOK'
  BY <1>1, <1>2 DEF SettingsInv, SettingsTypeOK
<1>4. CommandFits' /\ CopiesWaived'
  BY <1>1 DEF SettingsInv, CommandFits, CommandAt, CopiesWaived, Copies, UnderWay
<1>5. StoresAgree' /\ NoWeaker'
  BY <1>1, <1>2 DEF SettingsInv, StoresAgree, NoWeaker, CommandAt
<1>6. QED
  BY <1>3, <1>4, <1>5 DEF SettingsInv

-----------------------------------------------------------------------------
LEMMA SettingsInitInv == SettingsInit => SettingsInv
<1> SUFFICES ASSUME SettingsInit PROVE SettingsInv
  OBVIOUS
<1> USE RestingFacts, DefaultFacts
<1>1. FromFile = Default /\ Kept = Default
  BY DEF SettingsInit, FromFile, Kept
<1>2. command.pc = "off" /\ command \in Commands /\ effective = Default
  BY DEF SettingsInit
<1>3. SettingsTypeOK
  BY <1>2 DEF SettingsInit, SettingsTypeOK, IsOption, LabelOrNone
<1>4. CommandFits /\ CopiesWaived
  BY <1>2 DEF SettingsInit, CommandFits, CommandAt, CopiesWaived, Copies, UnderWay
<1>5. StoresAgree /\ NoWeaker
  BY <1>1, <1>2 DEF SettingsInit, StoresAgree, NoWeaker, CommandAt
<1>6. QED
  BY <1>3, <1>4, <1>5 DEF SettingsInv

LEMMA SettingsStepInv == SettingsInv /\ [SettingsNext]_settingsVars => SettingsInv'
<1> SUFFICES ASSUME SettingsInv, [SettingsNext]_settingsVars PROVE SettingsInv'
  OBVIOUS
<1>1. CASE SettingsNext
  BY <1>1, LoadedStep, AnyChangeInv, AgreeInv, EndInv, SaveFileInv,
     MirrorAndApplyInv, SetLabelInv, MirrorLabelInv, AccessChangesInv DEF SettingsNext
<1>2. CASE UNCHANGED settingsVars
  <2>1. /\ UNCHANGED <<settingsFile, labelFile, policy, access, effective, command,
                       waived, promised, promisedLabel, missed, drifted>>
        /\ FromFile' = FromFile /\ Kept' = Kept
    BY <1>2, SameStore DEF settingsVars
  <2>2. SettingsTypeOK' /\ CommandFits' /\ CopiesWaived'
    BY <2>1 DEF SettingsInv, SettingsTypeOK, CommandFits, CommandAt, CopiesWaived, Copies, UnderWay
  <2>3. StoresAgree' /\ NoWeaker'
    BY <2>1 DEF SettingsInv, StoresAgree, NoWeaker, CommandAt
  <2>4. QED
    BY <2>2, <2>3 DEF SettingsInv
<1>3. QED
  BY <1>1, <1>2

LEMMA SettingsInvariant == SettingsSpec => []SettingsInv
<1>1. QED
  BY SettingsInitInv, SettingsStepInv, PTL DEF SettingsSpec

-----------------------------------------------------------------------------
(* Theorems                                                                *)

\* Every variable has its type, and a command that is about to save changes
\* only its own group of what is on disk (set_pin_settings,
\* set_touch_id_settings, set_auto_lock, set_autostart).
THEOREM TypeCorrect == SettingsSpec => []SettingsTypeOK
<1>1. SettingsInv => SettingsTypeOK
  BY DEF SettingsInv
<1>2. QED
  BY <1>1, SettingsInvariant, PTL

\* No sequence of commands, failures, crashes and changes of the access to the
\* keychain weakens a default protection that the user has not given up
\* (authorize_security_settings_change).
THEOREM OnlyWaivedIsWeaker == SettingsSpec => []WaivedOnly
<1>1. SettingsInv => WaivedOnly
  BY LoadedFacts DEF WaivedOnly
<1>2. QED
  BY <1>1, SettingsInvariant, PTL

\* No default protection is weaker in effect than the settings window shows it,
\* through every change of the access to the keychain and every failure, with
\* two exceptions: while a command that has written the file is not done yet, and
\* for what the user gave up when the keychain could not be written, which a
\* later load shows as on (write_security_policy, apply_pin_settings,
\* apply_touch_id_settings).
THEOREM EffectIsShown == SettingsSpec => []ShownIsEnforced
<1>1. SettingsInv => ShownIsEnforced
  <2>1. SettingsInv => Loaded \in {Kept, FromFile}
    BY LoadedFacts
  <2>2. QED
    BY <2>1 DEF SettingsInv, NoWeaker, ShownIsEnforced
<1>2. QED
  BY <1>1, SettingsInvariant, PTL

\* What is loaded next is what was last shown or reported as saved, although
\* save goes on when the mirror fails and load prefers the mirror, and however
\* the access to the keychain changes.  The exception is what the keychain has
\* missed: a change whose write there failed or was cut off.
THEOREM NothingIsReset == SettingsSpec => []AcknowledgedSurvives
<1>1. SettingsInv => AcknowledgedSurvives
  <2> SUFFICES ASSUME SettingsInv PROVE AcknowledgedSurvives
    OBVIOUS
  <2>1. "settings" \notin missed => Loaded \in promised
    <3>1. "settings" \notin missed /\ policy # {} => Kept \in promised
      BY LoadedFacts DEF SettingsInv, StoresAgree
    <3>2. QED
      BY <3>1, LoadedFacts DEF SettingsInv, StoresAgree
  <2>2. "label" \notin missed => LoadedLabel \in promisedLabel
    <3>1. policy # {} => The(policy) \in policy
      BY OptionFacts DEF SettingsInv, SettingsTypeOK
    <3>2. QED
      BY <3>1 DEF SettingsInv, StoresAgree, LoadedLabel
  <2>3. QED
    BY <2>1, <2>2 DEF AcknowledgedSurvives
<1>2. QED
  BY <1>1, SettingsInvariant, PTL
=============================================================================
