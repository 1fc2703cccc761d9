--------------------------- MODULE SigningAuthority ---------------------------
(***************************************************************************)
(* What the agent promises about hardware signatures, without its threads  *)
(* and locks: at any time some identities are available to SSH clients; a  *)
(* signature begins only for an available identity, one at a time, and     *)
(* availability never changes while a signature is being made.             *)
(* Module Session implements this specification.                           *)
(***************************************************************************)
EXTENDS FiniteSets

CONSTANTS
    Keys,       \* the identities
    Signers,    \* the connections that ask for signatures
    NoKey       \* the connection is not signing

VARIABLES
    available,  \* the identities SSH clients may use
    signing     \* the identity each connection is making a signature with

vars == <<available, signing>>

Idle == [t \in Signers |-> NoKey]

Init ==
    /\ available \in SUBSET Keys
    /\ signing = Idle

\* A lock, an unlock, a key enabled or disabled, loaded or dropped.
ChangeAvailability ==
    /\ signing = Idle
    /\ available' \in SUBSET Keys
    /\ UNCHANGED signing

BeginSignature(t, k) ==
    /\ signing = Idle
    /\ k \in available
    /\ signing' = [signing EXCEPT ![t] = k]
    /\ UNCHANGED available

EndSignature(t) ==
    /\ signing[t] # NoKey
    /\ signing' = [signing EXCEPT ![t] = NoKey]
    /\ UNCHANGED available

Next ==
    \/ ChangeAvailability
    \/ \E t \in Signers :
          \/ \E k \in Keys : BeginSignature(t, k)
          \/ EndSignature(t)

Spec == Init /\ [][Next]_vars

-----------------------------------------------------------------------------

TypeOK ==
    /\ available \in SUBSET Keys
    /\ signing \in [Signers -> Keys \cup {NoKey}]

\* No signature is in progress for an identity that is not available, and the
\* hardware serves one signature at a time.
SignsAvailableOnly ==
    /\ \A t \in Signers : signing[t] # NoKey => signing[t] \in available
    /\ \A t, u \in Signers : signing[t] # NoKey /\ signing[u] # NoKey => t = u

=============================================================================
