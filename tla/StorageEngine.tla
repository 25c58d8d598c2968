--------------------------- MODULE StorageEngine ---------------------------
(***************************************************************************)
(* The in-memory connection store (crates/storage: engine.rs, segment.rs,  *)
(* blink_tree.rs).  Records live in append-only segments: one active, the  *)
(* others sealed.  An index maps a connection to a pointer (segment,       *)
(* offset).  Callers run concurrently; each critical section of the code   *)
(* is one step, and a caller may be overtaken between its steps:           *)
(*                                                                         *)
(*   upsert   txid | active.write: append+index | rotate | active.write:   *)
(*            append+index or SegmentFull                                  *)
(*   get      index search | active.read | sealed.read                     *)
(*   delete   index remove                                                 *)
(*                                                                         *)
(* A record stands for its serialised form: `size' is its length in bytes, *)
(* `txid' tells the versions of one connection apart (it stands for the    *)
(* metadata, which the engine never looks at).                             *)
(***************************************************************************)
EXTENDS Integers, Sequences

CONSTANTS
  Procs,        \* concurrent callers of the engine
  Conns,        \* connection identifiers
  Sizes,        \* serialised record lengths that occur
  SizeLimit,    \* StorageConfig::segment_size_limit
  MaxTxid,      \* bound on the transaction ids handed out (model checking)
  None          \* Option::None

ASSUME SizeAssumption ==
  /\ Sizes \subseteq Nat \ {0}
  /\ SizeLimit \in Nat
  /\ MaxTxid \in Nat

VARIABLES
  active,       \* active_segment
  sealed,       \* sealed_segments
  index,        \* BLinkTree: connection -> SegmentPtr or None
  txid_counter, \* StorageEngine::txid_counter
  segment_id_counter,  \* SEGMENT_ID_COUNTER
  pc,           \* pc[p]: which critical section p enters next
  rec,          \* rec[p]: the record p is upserting
  ptr,          \* ptr[p]: the pointer p's get found in the index
  key,          \* key[p]: the connection p's get is about
  ret           \* ret[p]: the result of p's last completed call, a tagged tuple

vars == <<active, sealed, index, txid_counter, segment_id_counter,
          pc, rec, ptr, key, ret>>

Record == [conn : Conns, txid : Nat, size : Sizes]
SegmentPtr == [segment_id : Nat, offset : Nat]
Steps == {"idle", "append", "rotate", "retry", "active", "sealed"}

ASSUME NoneAssumption == None \notin Record \cup SegmentPtr \cup Conns

(***************************************************************************)
(* Segments.  `recs' has the record that starts at each offset, if any.    *)
(***************************************************************************)
Segment == [id : Nat, len : 0..SizeLimit, is_sealed : BOOLEAN,
            recs : [0..SizeLimit -> Record \cup {None}]]

\* with_size_limit: an empty segment under a fresh id
WithSizeLimit(id) ==
  [id |-> id, len |-> 0, is_sealed |-> FALSE, recs |-> [o \in 0..SizeLimit |-> None]]

\* append's two early returns: the segment is sealed, or the record does not fit
CanAppendUnbounded(seg, r) == ~seg.is_sealed

CanAppend(seg, r) == ~seg.is_sealed /\ seg.len + r.size <= SizeLimit

\* append: the record goes to the end of the data
AppendRecord(seg, r) ==
  [seg EXCEPT !.len = seg.len + r.size, !.recs = [seg.recs EXCEPT ![seg.len] = r]]

Seal(seg) == [seg EXCEPT !.is_sealed = TRUE]

\* read_at: a slice that does not start at a record does not decode
ReadAt(seg, offset) == IF offset < seg.len THEN seg.recs[offset] ELSE None

\* get's scan of the sealed segments stops at the first one with the id
Matches(segs, id) == {i \in DOMAIN segs : segs[i].id = id}

FirstMatch(segs, id) ==
  CHOOSE i \in Matches(segs, id) : \A j \in Matches(segs, id) : i <= j

ScanSealed(segs, q) ==
  IF Matches(segs, q.segment_id) = {} THEN None
  ELSE ReadAt(segs[FirstMatch(segs, q.segment_id)], q.offset)

\* where a pointer leads: the active segment is tried first, then the sealed ones
Find(act, segs, q) ==
  IF q.segment_id = act.id THEN ReadAt(act, q.offset) ELSE ScanSealed(segs, q)

Lookup(q) == Find(active, sealed, q)

-----------------------------------------------------------------------------
Init ==
  /\ active = WithSizeLimit(0)
  /\ sealed = <<>>
  /\ index = [k \in Conns |-> None]
  /\ txid_counter = 1
  /\ segment_id_counter = 1
  /\ pc = [p \in Procs |-> "idle"]
  /\ rec = [p \in Procs |-> None]
  /\ ptr = [p \in Procs |-> None]
  /\ key = [p \in Procs |-> None]
  /\ ret = [p \in Procs |-> <<"none">>]

Goto(p, step) == pc' = [pc EXCEPT ![p] = step]
Option(r) == IF r = None THEN <<"none">> ELSE <<"record", r>>

Return(p, value) == ret' = [ret EXCEPT ![p] = value] /\ Goto(p, "idle")

\* upsert, up to the first lock: the transaction id is taken outside any lock
UpsertBegin(p, k, s) ==
  /\ pc[p] = "idle"
  /\ txid_counter <= MaxTxid
  /\ rec' = [rec EXCEPT ![p] = [conn |-> k, txid |-> txid_counter, size |-> s]]
  /\ txid_counter' = txid_counter + 1
  /\ Goto(p, "append")
  /\ UNCHANGED <<active, sealed, index, segment_id_counter, ptr, key, ret>>

\* append succeeded: the index is updated under the same write lock
Store(p) ==
  /\ CanAppend(active, rec[p])
  /\ active' = AppendRecord(active, rec[p])
  /\ index' = [index EXCEPT ![rec[p].conn] =
                 [segment_id |-> active.id, offset |-> active.len]]
  /\ rec' = [rec EXCEPT ![p] = None]
  /\ Return(p, <<"txid", rec[p].txid>>)
  /\ UNCHANGED <<sealed, txid_counter, segment_id_counter, ptr, key>>

UpsertStore(p) == pc[p] = "append" /\ Store(p)

\* append returned None: the lock is dropped and rotate_segment called
UpsertFull(p) ==
  /\ pc[p] = "append"
  /\ ~CanAppend(active, rec[p])
  /\ Goto(p, "rotate")
  /\ UNCHANGED <<active, sealed, index, txid_counter, segment_id_counter, rec, ptr, key, ret>>

\* a plausible slip: the replaced segment is dropped instead of pushed
RotateSegment_Drop(p) ==
  /\ pc[p] = "rotate"
  /\ active' = WithSizeLimit(segment_id_counter)
  /\ segment_id_counter' = segment_id_counter + 1
  /\ Goto(p, "retry")
  /\ UNCHANGED <<sealed, index, txid_counter, rec, ptr, key, ret>>

\* rotate_segment, under both write locks; whether the segment is still full
\* is not checked again, and compaction is only logged
RotateSegment(p) ==
  /\ pc[p] = "rotate"
  /\ sealed' = Append(sealed, Seal(active))
  /\ active' = WithSizeLimit(segment_id_counter)
  /\ segment_id_counter' = segment_id_counter + 1
  /\ Goto(p, "retry")
  /\ UNCHANGED <<index, txid_counter, rec, ptr, key, ret>>

UpsertRetry(p) == pc[p] = "retry" /\ Store(p)

\* the new segment is already full, or the record is larger than any segment
UpsertSegmentFull(p) ==
  /\ pc[p] = "retry"
  /\ ~CanAppend(active, rec[p])
  /\ rec' = [rec EXCEPT ![p] = None]
  /\ Return(p, <<"SegmentFull">>)
  /\ UNCHANGED <<active, sealed, index, txid_counter, segment_id_counter, ptr, key>>

-----------------------------------------------------------------------------
\* get, no entry in the index: the `?' returns None
GetMiss(p, k) ==
  /\ pc[p] = "idle"
  /\ index[k] = None
  /\ Return(p, <<"none">>)
  /\ UNCHANGED <<active, sealed, index, txid_counter, segment_id_counter, rec, ptr, key>>

\* get, the pointer is copied out of the index: from here on it may be stale
GetSearch(p, k) ==
  /\ pc[p] = "idle"
  /\ index[k] # None
  /\ ptr' = [ptr EXCEPT ![p] = index[k]]
  /\ key' = [key EXCEPT ![p] = k]
  /\ Goto(p, "active")
  /\ UNCHANGED <<active, sealed, index, txid_counter, segment_id_counter, rec, ret>>

Forget(p) == ptr' = [ptr EXCEPT ![p] = None] /\ key' = [key EXCEPT ![p] = None]

GetActiveHit(p) ==
  /\ pc[p] = "active"
  /\ ptr[p].segment_id = active.id
  /\ Return(p, Option(ReadAt(active, ptr[p].offset)))
  /\ Forget(p)
  /\ UNCHANGED <<active, sealed, index, txid_counter, segment_id_counter, rec>>

\* the active segment is another one: drop the read lock, go to the sealed ones
GetActiveMiss(p) ==
  /\ pc[p] = "active"
  /\ ptr[p].segment_id # active.id
  /\ Goto(p, "sealed")
  /\ UNCHANGED <<active, sealed, index, txid_counter, segment_id_counter, rec, ptr, key, ret>>

\* a plausible slip: only the newest sealed segment is searched
GetSealed_Newest(p) ==
  /\ pc[p] = "sealed"
  /\ Return(p, IF sealed[Len(sealed)].id = ptr[p].segment_id
               THEN Option(ReadAt(sealed[Len(sealed)], ptr[p].offset)) ELSE <<"none">>)
  /\ Forget(p)
  /\ UNCHANGED <<active, sealed, index, txid_counter, segment_id_counter, rec>>

GetSealed(p) ==
  /\ pc[p] = "sealed"
  /\ Return(p, Option(ScanSealed(sealed, ptr[p])))
  /\ Forget(p)
  /\ UNCHANGED <<active, sealed, index, txid_counter, segment_id_counter, rec>>

\* a plausible slip: the record's bytes are reclaimed along with the index entry
Delete_Reclaim(p, k) ==
  /\ pc[p] = "idle"
  /\ index' = [index EXCEPT ![k] = None]
  /\ active' = IF index[k] = None \/ index[k].segment_id # active.id THEN active
               ELSE [active EXCEPT !.recs[index[k].offset] = None]
  /\ Return(p, IF index[k] = None THEN <<"none">> ELSE <<"ptr", index[k]>>)
  /\ UNCHANGED <<sealed, txid_counter, segment_id_counter, rec, ptr, key>>

\* delete removes the pointer from the index and returns it; the record stays in its segment
Delete(p, k) ==
  /\ pc[p] = "idle"
  /\ index' = [index EXCEPT ![k] = None]
  /\ Return(p, IF index[k] = None THEN <<"none">> ELSE <<"ptr", index[k]>>)
  /\ UNCHANGED <<active, sealed, txid_counter, segment_id_counter, rec, ptr, key>>

UpsertStep(p) ==
  UpsertStore(p) \/ UpsertFull(p) \/ RotateSegment(p) \/ UpsertRetry(p) \/ UpsertSegmentFull(p)

GetStep(p) == GetActiveHit(p) \/ GetActiveMiss(p) \/ GetSealed(p)

Next ==
  \E p \in Procs :
    \/ \E k \in Conns, s \in Sizes : UpsertBegin(p, k, s)
    \/ UpsertStep(p)
    \/ \E k \in Conns : GetMiss(p, k) \/ GetSearch(p, k) \/ Delete(p, k)
    \/ GetStep(p)

Spec == Init /\ [][Next]_vars

-----------------------------------------------------------------------------
(***************************************************************************)
(* Properties                                                              *)
(***************************************************************************)
\* Every variable has its type: in particular no segment outgrows
\* segment_size_limit, and the active segment is never a sealed one.
TypeOK ==
  /\ active \in Segment /\ ~active.is_sealed
  /\ sealed \in Seq(Segment)
  /\ index \in [Conns -> SegmentPtr \cup {None}]
  /\ txid_counter \in Nat
  /\ segment_id_counter \in Nat
  /\ pc \in [Procs -> Steps]
  /\ rec \in [Procs -> Record \cup {None}]
  /\ ptr \in [Procs -> SegmentPtr \cup {None}]
  /\ key \in [Procs -> Conns \cup {None}]
  /\ DOMAIN ret = Procs

\* A pointer leads to a record of connection k, through the two-stage lookup
\* of get, if the lookup finds the record and it is k's.
LeadsToRecordOf(q, k) == Lookup(q) # None /\ Lookup(q).conn = k

\* The index never dangles: whatever rotations have happened since a pointer
\* was inserted, get's lookup (active segment, then the sealed ones) finds a
\* record of that very connection behind it.
IndexResolves ==
  \A k \in Conns : index[k] # None => LeadsToRecordOf(index[k], k)

\* A get that has copied its pointer out of the index and then lost the race
\* with upserts, deletes and rotations still finds a record of its own
\* connection: a get whose search hit never returns None.
GetInFlightResolves ==
  \A p \in Procs :
    /\ pc[p] \in {"active", "sealed"} => LeadsToRecordOf(ptr[p], key[p])
    /\ pc[p] = "sealed" => ptr[p].segment_id # active.id

\* every stored record: its segment, its offset and its transaction id
Offsets(seg) == {o \in 0..SizeLimit : seg.recs[o] # None}

\* The engine implements the atomic table of ConnTable: an upsert takes effect
\* when it inserts into the index, a get when it searches the index, whatever
\* happens between that moment and its return.
Answer(v) == IF v[1] = "ptr" THEN <<"removed", Lookup(v[2])>> ELSE v

Table == INSTANCE ConnTable WITH
  Records <- Record,
  table <- [k \in Conns |-> IF index[k] = None THEN None ELSE Lookup(index[k])],
  writing <- rec,
  reading <- [p \in Procs |->
                IF pc[p] \in {"active", "sealed"} THEN <<Lookup(ptr[p])>> ELSE <<>>],
  answer <- [p \in Procs |-> Answer(ret[p])]

ImplementsTable == Table!TSpec
=============================================================================
