----------------------------- MODULE MCSettings -----------------------------
(* Settings on its own, with access to the keychain that comes and goes. *)
EXTENDS Settings

CONSTANT label
=============================================================================
