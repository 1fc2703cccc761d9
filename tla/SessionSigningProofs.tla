------------------------ MODULE SessionSigningProofs ------------------------
(***************************************************************************)
(* Signatures under locking: the guards that provider::sign holds make the *)
(* signing authorized, and make Session an implementation of the abstract  *)
(* SigningAuthority.                                                       *)
(***************************************************************************)
EXTENDS SessionProofs

-----------------------------------------------------------------------------
(* What every step outside sign_request does to the state that signing     *)
(* depends on.                                                             *)

\* The AppState is written only under `app`, which a signature holds, and the
\* PINs only under `pins`, which a FIDO2 signature holds.
Respectful ==
    /\ UNCHANGED signer
    /\ AppFree \/ (UNCHANGED app /\ (PinsFree \/ UNCHANGED pins))

LEMMA FreeMeansPinsFree == AppFree => PinsFree
BY DEF AppFree, PinsFree, SigningFido

LEMMA EnvironmentRespects == Environment => Respectful
BY DEF Environment, Plug, Unplug, Respectful

LEMMA UserCommandRespects == UserCommand => Respectful
BY DEF UserCommand, Respectful, Command, MainUnchanged, RequestUnlock,
       RequestDeviceUnlock, DismissAuth, TrayReload, RequestCreation,
       RequestCreationRefused, RequestDeletion, RenameKey, CreateSEKey,
       SetKeyEnabled, LockAgent, UnlockAgent, GateFree, AppFree

LEMMA MainStepRespects == MainStep => Respectful
BY DEF MainStep, Respectful, CreateSEKeyInMemory, SetKeyEnabledInMemory, LockAgentClear,
       LockAgentFlag, RenameLoads, RenameDone, RenameFails, RenameStored,
       RenameAsksPin

LEMMA AsyncRespects ==
    ASSUME NEW o \in Ops, AsyncCommand(o) \/ AsyncStep(o)
    PROVE  Respectful
BY DEF AsyncCommand, AsyncStep, Respectful, OpUnchanged, SubmitPin, Continue,
       DeleteKey, ContinueWithPin, Begin, Hardware, Apply, Merge, MergeFailed,
       DeleteHardware, DeleteDone

LEMMA WatcherRespects == WatcherStep => Respectful
BY DEF WatcherStep, Respectful, WatcherUnchanged, WatcherScan, WatcherScanFails,
       WatcherApply, WatcherApplyFailure

LEMMA LockerRespects == LockerEvent \/ LockerSection => Respectful
BY DEF LockerEvent, LockerSection, Respectful, LockerStep, AutoLock, Deactivate,
       Reactivate, DeactivateClearsPending, DeactivateClearsPins,
       LockerClearsApp, Recover, RecoverFails

-----------------------------------------------------------------------------
(* Safety of signing                                                       *)

LEMMA SignerStepAuthorized ==
    ASSUME TypeOK, SigningAuthorized, NEW t \in Signers,
           SignerStep(t) \/ \E k \in Keys : SignRequest(t, k)
    PROVE  SigningAuthorized'
<1>0. signer \in [Signers -> SignerState] /\ UNCHANGED pins
  BY DEF TypeOK, SignerStep, SignRequest, SignFind, Authorize, SignHardware, SignFinish
<1> USE DEF SigningNow
<1>1. ASSUME NEW k \in Keys, SignRequest(t, k)
      PROVE  SigningAuthorized'
  BY <1>0, <1>1 DEF SignRequest, SignStep, AppFree, IdleSigner, SigningAuthorized
<1>2. CASE SignFind(t)
  BY <1>0, <1>2 DEF SignFind, SignStep, AppFree, IdleSigner, SigningAuthorized, SignerState
<1>3. CASE Authorize(t)
  <2> DEFINE to(pc, result) ==
          SignStep(t, "found", [signer[t] EXCEPT !.pc = pc, !.result = result])
  <2>1. UNCHANGED app
    BY <1>3 DEF Authorize
  <2>2. CASE \E r \in {"needsPin", "failed"} : to("done", r)
    BY <1>0, <2>1, <2>2 DEF SignStep, SigningAuthorized, SignerState
  <2>3. CASE /\ signer[t].key \in FidoKeys => Home[signer[t].key] \in pins
             /\ MayUse(signer[t].key) /\ to("signing", "none")
    BY <1>0, <2>1, <2>3 DEF SignStep, SigningAuthorized, SignerState, MayUse
  <2>4. QED
    BY <1>3, <2>2, <2>3 DEF Authorize
<1>4. CASE SignHardware(t)
  <2>1. UNCHANGED app
    BY <1>4 DEF SignHardware
  <2>2. PICK r \in {"ok", "failed"} :
            SignStep(t, "signing", [signer[t] EXCEPT !.pc = "done", !.result = r])
    BY <1>4 DEF SignHardware
  <2>3. QED
    BY <1>0, <2>1, <2>2 DEF SignStep, SigningAuthorized, SignerState
<1>5. CASE SignFinish(t)
  BY <1>0, <1>5 DEF SignFinish, SignStep, AppFree, IdleSigner, SigningAuthorized
<1>6. QED
  BY <1>1, <1>2, <1>3, <1>4, <1>5 DEF SignerStep

LEMMA RespectfulStepAuthorized ==
    ASSUME SigningAuthorized, Respectful
    PROVE  SigningAuthorized'
<1>1. CASE AppFree
  BY <1>1 DEF AppFree, Respectful, SigningNow, SigningAuthorized
<1>2. CASE UNCHANGED app /\ PinsFree
  BY <1>2 DEF PinsFree, SigningFido, Respectful, SigningNow, SigningAuthorized
<1>3. CASE UNCHANGED app /\ UNCHANGED pins
  BY <1>3 DEF Respectful, SigningNow, SigningAuthorized
<1>4. QED
  BY <1>1, <1>2, <1>3 DEF Respectful

\* A step is one of a connection in sign_request, or respects the mutexes.
LEMMA StepKinds ==
    ASSUME Next
    PROVE  \/ Respectful
           \/ \E t \in Signers : SignerStep(t) \/ \E k \in Keys : SignRequest(t, k)
BY EnvironmentRespects, UserCommandRespects, MainStepRespects, AsyncRespects,
   WatcherRespects, LockerRespects DEF Next

\* Whenever the hardware is asked for a signature the agent is unlocked, the key
\* is loaded and enabled and its PIN is cached, for any number of connections,
\* keys and devices (provider::sign, authorize, set_agent_locked,
\* set_key_enabled, lock_fido_session, the watcher).
THEOREM SigningIsAuthorized == Spec => []SigningAuthorized
<1>1. Init => SigningAuthorized
  BY DEF Init, SigningAuthorized, SigningNow, IdleSigner
<1>2. TypeOK /\ SigningAuthorized /\ [Next]_vars => SigningAuthorized'
  <2> SUFFICES ASSUME TypeOK, SigningAuthorized, [Next]_vars
               PROVE  SigningAuthorized'
    OBVIOUS
  <2>1. CASE Next
    BY <2>1, StepKinds, RespectfulStepAuthorized, SignerStepAuthorized
  <2>2. CASE UNCHANGED vars
    BY <2>2 DEF vars, SigningAuthorized, SigningNow
  <2>3. QED
    BY <2>1, <2>2
<1>3. QED
  BY <1>1, <1>2, TypeCorrect, PTL DEF Spec

-----------------------------------------------------------------------------
(* The refinement                                                          *)

Available == IF app.agentLocked THEN {} ELSE app.enabled
Signing == [t \in Signers |-> IF signer[t].pc = "signing" THEN signer[t].key ELSE NoKey]

LEMMA FreeMeansIdle == AppFree => Signing = [t \in Signers |-> NoKey]
BY DEF AppFree, SigningNow, Signing

LEMMA RespectfulStepRefines ==
    ASSUME TypeOK', Respectful
    PROVE  [Authority!Next]_(Authority!vars)
<1>1. UNCHANGED Signing
  BY DEF Respectful, Signing
<1>2. CASE AppFree
  <2>0. Available' \in SUBSET Keys
    BY DEF TypeOK, Available, AppState
  <2>1. Authority!ChangeAvailability
    BY <1>1, <1>2, <2>0, FreeMeansIdle
       DEF Authority!ChangeAvailability, Authority!Idle, Available, Signing
  <2>2. QED
    BY <2>1 DEF Authority!Next
<1>3. CASE UNCHANGED app
  BY <1>1, <1>3 DEF Authority!vars, Signing
<1>4. QED
  BY <1>2, <1>3 DEF Respectful

LEMMA SignerStepRefines ==
    ASSUME TypeOK, TypeOK', NEW t \in Signers,
           SignerStep(t) \/ \E k \in Keys : SignRequest(t, k)
    PROVE  [Authority!Next]_(Authority!vars)
<1>0. signer \in [Signers -> SignerState] /\ signer[t] \in SignerState
  BY DEF TypeOK
<1>a. ASSUME UNCHANGED app, UNCHANGED Signing
      PROVE  UNCHANGED Authority!vars
  BY <1>a DEF Authority!vars, Signing
<1>b. ASSUME AppFree, UNCHANGED Signing
      PROVE  [Authority!Next]_(Authority!vars)
  <2>0. Available' \in SUBSET Keys
    BY DEF TypeOK, Available, AppState
  <2>1. Authority!ChangeAvailability
    BY <1>b, <2>0, FreeMeansIdle
       DEF Authority!ChangeAvailability, Authority!Idle, Available, Signing
  <2>2. QED
    BY <2>1 DEF Authority!Next
<1>1. ASSUME NEW k \in Keys, SignRequest(t, k)
      PROVE  [Authority!Next]_(Authority!vars)
  <2>1. UNCHANGED Signing
    BY <1>0, <1>1 DEF SignRequest, SignStep, IdleSigner, Signing
  <2>2. QED
    BY <1>1, <1>b, <2>1 DEF SignRequest
<1>2. CASE SignFind(t)
  <2>1. UNCHANGED Signing
    BY <1>0, <1>2 DEF SignFind, SignStep, IdleSigner, Signing, SignerState
  <2>2. QED
    BY <1>2, <1>b, <2>1 DEF SignFind
<1>3. CASE Authorize(t)
  <2> DEFINE to(pc, result) ==
          SignStep(t, "found", [signer[t] EXCEPT !.pc = pc, !.result = result])
  <2>1. UNCHANGED app
    BY <1>3 DEF Authorize
  <2>2. CASE \E r \in {"needsPin", "failed"} : to("done", r)
    <3>1. UNCHANGED Signing
      BY <1>0, <2>2 DEF SignStep, Signing, SignerState
    <3>2. QED
      BY <1>a, <2>1, <3>1
  <2>3. CASE AppFree /\ MayUse(signer[t].key) /\ to("signing", "none")
    <3>1. PICK k \in Keys : k = signer[t].key /\ k \in Available
      BY <2>3 DEF MayUse, Available, TypeOK, AppState
    <3>2. Signing' = [Signing EXCEPT ![t] = k]
      BY <1>0, <2>3, <3>1 DEF SignStep, Signing, SignerState
    <3>3. Signing = Authority!Idle
      BY <2>3, FreeMeansIdle DEF Authority!Idle
    <3>4. UNCHANGED Available
      BY <2>1 DEF Available
    <3>5. Authority!BeginSignature(t, k)
      BY <3>1, <3>2, <3>3, <3>4 DEF Authority!BeginSignature, Available, Signing
    <3>6. QED
      BY <3>5 DEF Authority!Next
  <2>4. QED
    BY <1>3, <2>2, <2>3 DEF Authorize
<1>4. CASE SignHardware(t)
  <2>1. UNCHANGED app
    BY <1>4 DEF SignHardware
  <2>2. PICK r \in {"ok", "failed"} :
            SignStep(t, "signing", [signer[t] EXCEPT !.pc = "done", !.result = r])
    BY <1>4 DEF SignHardware
  <2>3. Signing' = [Signing EXCEPT ![t] = NoKey]
    BY <1>0, <2>2 DEF SignStep, Signing, SignerState
  <2>4. CASE Signing[t] = NoKey
    <3>1. UNCHANGED Signing
      BY <2>3, <2>4 DEF Signing
    <3>2. QED
      BY <1>a, <2>1, <3>1
  <2>5. CASE Signing[t] # NoKey
    <3>1. Authority!EndSignature(t)
      BY <2>1, <2>3, <2>5 DEF Authority!EndSignature, Signing
    <3>2. QED
      BY <3>1 DEF Authority!Next
  <2>6. QED
    BY <2>4, <2>5
<1>5. CASE SignFinish(t)
  <2>1. UNCHANGED Signing
    BY <1>0, <1>5 DEF SignFinish, SignStep, IdleSigner, Signing, SignerState
  <2>2. QED
    BY <1>5, <1>b, <2>1 DEF SignFinish
<1>6. QED
  BY <1>1, <1>2, <1>3, <1>4, <1>5 DEF SignerStep

\* Session implements SigningAuthority: what clients may use changes only
\* between signatures, and a signature begins only for a key they may use (the
\* guard authorize() returns is held until the hardware has answered).
THEOREM Refinement == Spec => ImplementsAuthority
<1>1. Init /\ TypeOK => Authority!Init
  BY DEF Init, TypeOK, AppState, IdleSigner, Authority!Init, Authority!Idle
<1>2. TypeOK /\ TypeOK' /\ [Next]_vars => [Authority!Next]_(Authority!vars)
  <2> SUFFICES ASSUME TypeOK, TypeOK', [Next]_vars
               PROVE  [Authority!Next]_(Authority!vars)
    OBVIOUS
  <2>1. CASE Next
    BY <2>1, StepKinds, RespectfulStepRefines, SignerStepRefines
  <2>2. CASE UNCHANGED vars
    BY <2>2 DEF vars, Authority!vars
  <2>3. QED
    BY <2>1, <2>2
<1>3. QED
  BY <1>1, <1>2, TypeCorrect, PTL DEF Spec, ImplementsAuthority, Authority!Spec

=============================================================================
