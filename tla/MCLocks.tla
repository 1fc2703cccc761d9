------------------------------ MODULE MCLocks ------------------------------
(* Locks on one thread of each kind. *)
EXTENDS Locks, TLC

CONSTANTS o1, s1

(* Every handler but the FIDO2 signature.  The auto-lock timer is left out
   too: what it locks is a part of what deactivate locks, on a thread like
   it, and its absence keeps the state space small. *)
MostHandlers == AllHandlers \ {"signFido", "autolock"}

(* The FIDO2 signature beside the commands that prompt for a PIN. *)
SigningBesidePrompts == {"prompt", "signFido"}
=============================================================================
