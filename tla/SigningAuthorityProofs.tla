------------------------ MODULE SigningAuthorityProofs ------------------------
(* Safety of the abstract signing authority.                               *)
EXTENDS SigningAuthority, TLAPS

\* The abstract specification does what its name promises: signatures are only
\* in progress for available identities, and one at a time (what the agent
\* builds on provider::sign and authorize for).
THEOREM AbstractSafety == Spec => [](TypeOK /\ SignsAvailableOnly)
<1> DEFINE Inv == TypeOK /\ SignsAvailableOnly
<1>1. Init => Inv
  BY DEF Init, Idle, TypeOK, SignsAvailableOnly
<1>2. Inv /\ [Next]_vars => Inv'
  <2> SUFFICES ASSUME Inv, [Next]_vars PROVE Inv'
    OBVIOUS
  <2> USE DEF TypeOK, SignsAvailableOnly, Idle
  <2>1. CASE ChangeAvailability
    BY <2>1 DEF ChangeAvailability
  <2>2. ASSUME NEW t \in Signers, NEW k \in Keys, BeginSignature(t, k)
        PROVE  Inv'
    BY <2>2 DEF BeginSignature
  <2>3. ASSUME NEW t \in Signers, EndSignature(t)
        PROVE  Inv'
    BY <2>3 DEF EndSignature
  <2>4. CASE UNCHANGED vars
    BY <2>4 DEF vars
  <2>5. QED
    BY <2>1, <2>2, <2>3, <2>4 DEF Next
<1>3. QED
  BY <1>1, <1>2, PTL DEF Spec

=============================================================================
