----------------------------- MODULE SessionBind -----------------------------
(***************************************************************************)
(* The session-binding context of one SSH agent connection.                *)
(*                                                                         *)
(* An OpenSSH client that forwards its agent, or authenticates with it,    *)
(* first sends "session-bind@openssh.com" extension requests that name the *)
(* host key and the session they were signed for.  The connection thread   *)
(* keeps a ConnectionContext and refuses to sign once the connection is    *)
(* forwarded, or once a binding was attempted and did not succeed.         *)
(*                                                                         *)
(* A request body is abstracted to the verdict of its parsing and of its   *)
(* signature verification: malformed (any of the early returns before the  *)
(* list of bindings is consulted), or a verified triple of host key,       *)
(* session identifier and forwarding flag.                                 *)
(***************************************************************************)
EXTENDS Naturals, Sequences

CONSTANTS
    HostKeys,       \* host keys whose signature verifies
    SessionIds,     \* session identifiers of a legal length
    MaxBindings     \* MAX_SESSION_BINDINGS

ASSUME MaxBindingsAssumption == MaxBindings \in Nat \ {0}

VARIABLES
    bindings,       \* context.bindings
    bindingFailed,  \* context.binding_failed
    forwarded,      \* context.forwarded
    attempted,      \* history: a session-bind request has been received
    reply           \* the answer to the last request of the connection

vars == <<bindings, bindingFailed, forwarded, attempted, reply>>

Binding == [host : HostKeys, session : SessionIds, forwarding : BOOLEAN]

\* "signed": a signature request that passed the binding gate.
Replies == {"none", "success", "failure", "signed"}

Init ==
    /\ bindings = <<>>
    /\ bindingFailed = FALSE
    /\ forwarded = FALSE
    /\ attempted = FALSE
    /\ reply = "none"

-----------------------------------------------------------------------------
(* Plausible mistakes in extension() and sign_request().  No action uses   *)
(* them: put in the place of the definition they resemble, each breaks one *)
(* of the properties at the end of the module.                             *)

\* Off by one at the limit.
BindNewUnbounded(h, s, f) ==
    /\ \A i \in DOMAIN bindings : bindings[i].forwarding /\ bindings[i].session # s
    /\ Len(bindings) <= MaxBindings
    /\ bindings' = Append(bindings, [host |-> h, session |-> s, forwarding |-> f])
    /\ forwarded' = (forwarded \/ f)
    /\ attempted' = TRUE
    /\ bindingFailed' = FALSE
    /\ reply' = "success"

\* The loop looks for the session before it looks for an authentication
\* binding, so the authentication binding too can be repeated.
AlreadyBoundAnyKind(h, s) ==
    \E i \in DOMAIN bindings :
        bindings[i].session = s /\ bindings[i].host = h

\* A repetition without the forwarding flag clears `forwarded`.
BindDuplicateClearsFlag(h, s) ==
    /\ \E i \in DOMAIN bindings : bindings[i].session = s /\ bindings[i].host = h
    /\ attempted' = TRUE
    /\ bindingFailed' = FALSE
    /\ forwarded' \in BOOLEAN
    /\ reply' = "success"
    /\ UNCHANGED bindings

\* binding_failed is not set on entry, only by the checks on the list.
BindMalformedOpen ==
    /\ attempted' = TRUE
    /\ reply' = "failure"
    /\ UNCHANGED <<bindings, bindingFailed, forwarded>>

\* The gate tests one flag of the two.
SignRequestIgnoresFailure ==
    /\ reply' = IF forwarded THEN "failure" ELSE "signed"
    /\ UNCHANGED <<bindings, bindingFailed, forwarded, attempted>>

-----------------------------------------------------------------------------
(* The bindings at which the loop of extension() returns for session s: it *)
(* stops at the first one that is not for forwarding or has s's identifier.*)

Hits(s) ==
    {i \in DOMAIN bindings : ~bindings[i].forwarding \/ bindings[i].session = s}

\* The first such binding already records host h for session s.
AlreadyBound(h, s) ==
    \E i \in Hits(s) :
        /\ \A j \in Hits(s) : i <= j
        /\ bindings[i].forwarding
        /\ bindings[i].host = h

\* Every failure leaves binding_failed as it was set on entry.
BindFails ==
    /\ attempted' = TRUE
    /\ bindingFailed' = TRUE
    /\ reply' = "failure"
    /\ UNCHANGED <<bindings, forwarded>>

\* Truncated or trailing data, a bad identifier, key or signature.
BindMalformed == BindFails

\* An authentication binding exists, or the session has another host key.
BindConflict(h, s) ==
    /\ Hits(s) # {}
    /\ ~AlreadyBound(h, s)
    /\ BindFails

\* The list is full.
BindOverflow(s) ==
    /\ Hits(s) = {}
    /\ Len(bindings) >= MaxBindings
    /\ BindFails

\* The same session and host again: only binding_failed is reset, whatever
\* forwarding flag the repeated message carries.
BindDuplicate(h, s) ==
    /\ AlreadyBound(h, s)
    /\ attempted' = TRUE
    /\ bindingFailed' = FALSE
    /\ reply' = "success"
    /\ UNCHANGED <<bindings, forwarded>>

BindNew(h, s, f) ==
    /\ Hits(s) = {}
    /\ Len(bindings) < MaxBindings
    /\ bindings' = Append(bindings, [host |-> h, session |-> s, forwarding |-> f])
    /\ forwarded' = (forwarded \/ f)
    /\ attempted' = TRUE
    /\ bindingFailed' = FALSE
    /\ reply' = "success"

\* An extension that is not session-bind, or an unknown request.
OtherRequest ==
    /\ reply' = "failure"
    /\ UNCHANGED <<bindings, bindingFailed, forwarded, attempted>>

\* The binding gate of sign_request; what follows it is module Session's.
SignRequest ==
    /\ reply' = IF bindingFailed \/ forwarded THEN "failure" ELSE "signed"
    /\ UNCHANGED <<bindings, bindingFailed, forwarded, attempted>>

Next ==
    \/ BindMalformed
    \/ OtherRequest
    \/ SignRequest
    \/ \E s \in SessionIds :
          \/ BindOverflow(s)
          \/ \E h \in HostKeys :
                \/ BindConflict(h, s)
                \/ BindDuplicate(h, s)
                \/ \E f \in BOOLEAN : BindNew(h, s, f)

Spec == Init /\ [][Next]_vars

-----------------------------------------------------------------------------
(* Properties                                                              *)

\* The context holds values of its Rust types, and extension() never records
\* more than MAX_SESSION_BINDINGS of them.
TypeOK ==
    /\ bindings \in Seq(Binding)
    /\ Len(bindings) <= MaxBindings
    /\ bindingFailed \in BOOLEAN
    /\ forwarded \in BOOLEAN
    /\ attempted \in BOOLEAN
    /\ reply \in Replies

\* Only the last binding may be an authentication binding, ...
OnlyLastAuthenticates ==
    \A i \in DOMAIN bindings : ~bindings[i].forwarding => i = Len(bindings)

\* ... no session is bound twice, ...
SessionsDistinct ==
    \A i, j \in DOMAIN bindings :
        bindings[i].session = bindings[j].session => i = j

\* ... and the forwarded flag remembers exactly the forwarding bindings.
ForwardedIffForwarding ==
    forwarded <=> \E i \in DOMAIN bindings : bindings[i].forwarding

\* The list of bindings stays a forwarding chain with at most one
\* authentication binding, at its end, and the two summaries the
\* signing gate reads agree with it: the flag `forwarded` with the chain, and
\* `binding_failed` with a list that is still empty after an attempt
\* (extension: "fail closed until a complete, authenticated and consistent
\* binding has been recorded").
ChainConsistent ==
    /\ OnlyLastAuthenticates
    /\ SessionsDistinct
    /\ ForwardedIffForwarding
    /\ attempted /\ bindings = <<>> => bindingFailed
    /\ ~attempted => bindings = <<>>

\* A signature request passes the gate only on a connection that never tried
\* to bind, or that holds exactly one binding, for authentication, whatever
\* sequence of malformed, repeated and conflicting bindings came before
\* (sign_request's check of binding_failed and forwarded).
SignedOnlyDirect ==
    reply = "signed" =>
        \/ ~attempted
        \/ Len(bindings) = 1 /\ ~bindings[1].forwarding

\* Once a connection is bound for authentication only, one failed attempt to
\* bind again blocks signing for the rest of the connection: no later message,
\* not even a repetition of the good one, clears binding_failed.  (Behind a
\* forwarding binding a repetition does clear it; there `forwarded` blocks.)
AuthenticatedFailureIsFinal ==
    [][ (/\ bindings # <<>>
         /\ ~forwarded
         /\ bindingFailed) => bindingFailed' ]_vars

\* A connection that was ever bound for forwarding never signs again
\* (the test forwarded_binding_is_sticky_across_duplicate_messages, over every
\* continuation of the connection).
ForwardedNeverSigns ==
    [][ forwarded => forwarded' /\ (reply' = "signed" => reply = "signed") ]_vars

=============================================================================
