------------------------------ MODULE Storage ------------------------------
(***************************************************************************)
(* The two stores of a node: the in-memory connection store and the Raft   *)
(* log over its WAL.  The engine never writes to the WAL and recovery      *)
(* never fills the engine, so they share no state; a behaviour exercises   *)
(* one of them.                                                            *)
(***************************************************************************)
EXTENDS StorageEngine, RaftStorage

VARIABLE store    \* "engine" or "raft"

storageVars == <<vars, raftVars, store>>

StorageInit == Init /\ RaftInit /\ store \in {"engine", "raft"}

StorageNext ==
  \/ store = "engine" /\ Next /\ UNCHANGED <<raftVars, store>>
  \/ store = "raft" /\ RaftNext /\ UNCHANGED <<vars, store>>

StorageSpec == StorageInit /\ [][StorageNext]_storageVars
=============================================================================
