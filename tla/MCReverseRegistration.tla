----------------------- MODULE MCReverseRegistration -----------------------
(***************************************************************************)
(* ReverseRegistration for TLC: one node is configured for a group the     *)
(* handler has, the other for one it has not.                              *)
(***************************************************************************)
EXTENDS ReverseRegistration

CONSTANTS n1, n2

MCPreferred == [n \in {n1, n2} |-> IF n = n1 THEN 2 ELSE 7]

\* a library that ignores the header, and one that compares it with its key's hash
AnyAccept == {"exit-node-register", "hash of the key"}
KeyHash == {"hash of the key"}
=============================================================================
