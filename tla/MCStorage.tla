----------------------------- MODULE MCStorage -----------------------------
(***************************************************************************)
(* Storage for TLC: callers are interchangeable; connections too.          *)
(***************************************************************************)
EXTENDS Storage, TLC

Symmetry == Permutations(Procs) \cup Permutations(Conns)
=============================================================================
