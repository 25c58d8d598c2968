---------------------------- MODULE AuthService -----------------------------
(***************************************************************************)
(* What the daemon authenticates with: the Authenticator, the              *)
(* /retrieve-token endpoint and the manager of the signing keys.  They     *)
(* share no state; a behaviour exercises one of them.                      *)
(***************************************************************************)
EXTENDS Authenticator, TokenEndpoint, KeyRotation

VARIABLE part    \* "authenticator", "endpoint" or "keys"

vars == <<authVars, endpointVars, keyVars, part>>

Init == AuthInit /\ EndpointInit /\ KeyInit /\ part \in {"authenticator", "endpoint", "keys"}

Next ==
    \/ part = "authenticator" /\ AuthNext /\ UNCHANGED <<endpointVars, keyVars, part>>
    \/ part = "endpoint" /\ EndpointNext /\ UNCHANGED <<authVars, keyVars, part>>
    \/ part = "keys" /\ KeyNext /\ UNCHANGED <<authVars, endpointVars, part>>

Spec == Init /\ [][Next]_vars

=============================================================================
