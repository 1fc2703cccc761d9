------------------------------ MODULE MCSession ------------------------------
(* Module Session for TLC: every resident key belongs to the first device, and
   connections are interchangeable. *)
EXTENDS Session, TLC

CONSTANTS f1, e1

MCHome == [k \in FidoKeys |-> 1]
Symmetry == Permutations(Signers)
=============================================================================
