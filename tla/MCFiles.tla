------------------------------ MODULE MCFiles ------------------------------
(* The components that keep files, side by side for TLC: the socket, the
   activity log, the Secure Enclave keys, the settings and the OpenSSH
   configuration.  They share no state, so that one of them moves in each
   behaviour; which one, the initial state decides. *)
EXTENDS AgentSocket, Activity, EnclaveStore, Settings, SSHConfig

VARIABLE part

filesVars == <<part, vars, logVars, enclaveVars, settingsVars, configVars>>

FilesInit ==
    /\ part \in {"socket", "activity", "enclave", "settings", "config"}
    /\ Init /\ LogInit /\ EnclaveInit
    /\ IF part = "settings" THEN SettingsInit ELSE SettingsInit /\ access
    /\ IF part = "config" THEN ConfigInit ELSE ConfigInit /\ config = <<>> /\ yubiagent = "none"

FilesNext ==
    \/ /\ part = "socket" /\ Next
       /\ UNCHANGED <<part, logVars, enclaveVars, settingsVars, configVars>>
    \/ /\ part = "activity" /\ LogNext
       /\ UNCHANGED <<part, vars, enclaveVars, settingsVars, configVars>>
    \/ /\ part = "enclave" /\ EnclaveNext
       /\ UNCHANGED <<part, vars, logVars, settingsVars, configVars>>
    \/ /\ part = "settings" /\ SettingsNext
       /\ UNCHANGED <<part, vars, logVars, enclaveVars, configVars>>
    \/ /\ part = "config" /\ ConfigNext
       /\ UNCHANGED <<part, vars, logVars, enclaveVars, settingsVars>>

FilesSpec == FilesInit /\ [][FilesNext]_filesVars
=============================================================================
