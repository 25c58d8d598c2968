--------------------------- MODULE ClientProcess ---------------------------
(***************************************************************************)
(* The client process (client/src/main.rs): the SOCKS server with the      *)
(* emergency checker, and the local DNS server.  The two services have     *)
(* sessions of their own and share no state, so a behaviour follows one.   *)
(***************************************************************************)
EXTENDS Tunnel, DnsClient

VARIABLE service  \* "socks" or "dns"

Init == service \in {"socks", "dns"} /\ TunnelInit /\ DnsInit

Next ==
    \/ service = "socks" /\ TunnelNext /\ UNCHANGED <<service, dnsVars>>
    \/ service = "dns" /\ DnsNext /\ UNCHANGED <<service, tunnelVars>>

Spec ==
    /\ Init /\ [][Next]_<<service, tunnelVars, dnsVars>>
    /\ service = "socks" => TunnelFairness

=============================================================================
