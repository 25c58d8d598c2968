---------------------------- MODULE MCExitPool ----------------------------
(* ExitPool on small instances: two nodes in one group, which is the default
   group 0, the group 1 that is asked for, or neither; a third node can be
   added to group 1. *)
EXTENDS ExitPool, TLC

CONSTANTS n1, n2, n3

Configurations == {g :> <<n1, n2>> : g \in 0..2}
=============================================================================
