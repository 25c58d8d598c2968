--------------------------- MODULE StorageProofs ---------------------------
(***************************************************************************)
(* Proofs about the two stores of a node.                                  *)
(*                                                                         *)
(* StorageEngine, for every set of callers, connections and record sizes   *)
(* and every segment limit.  IndexResolves is not inductive: that a        *)
(* pointer keeps leading to its record across a rotation depends on        *)
(* segment ids never being reused, and a get in flight depends on the      *)
(* pointer it copied.  IInv adds both, and which of a caller's locals are  *)
(* set at each program point.                                              *)
(*                                                                         *)
(* RaftStorage and the WAL under it, for every bound on terms, indexes,    *)
(* records, crashes and failing writes.  What recovery returns depends on  *)
(* the cells of the file, so WInv speaks of these: every file a crash can  *)
(* leave now reads as whole records with increasing numbers, and where     *)
(* they stop either the file ends or something stands that is no record    *)
(* and that no later write, which starts behind it, turns into one.        *)
(***************************************************************************)
EXTENDS Storage, SequenceTheorems, TLAPS

\* segment ids come from SEGMENT_ID_COUNTER and are never reused
IdsDistinct ==
  /\ active.id < segment_id_counter
  /\ \A i \in DOMAIN sealed : sealed[i].id < segment_id_counter /\ sealed[i].id # active.id
  /\ \A i, j \in DOMAIN sealed : sealed[i].id = sealed[j].id => i = j

\* a caller holds a record exactly while it upserts, a pointer while it gets
LocalsSet ==
  \A p \in Procs :
    /\ pc[p] \in {"append", "rotate", "retry"} <=> rec[p] # None
    /\ pc[p] \in {"active", "sealed"} => ptr[p] # None /\ key[p] # None

\* the inductive invariant
IInv == TypeOK /\ IdsDistinct /\ LocalsSet /\ IndexResolves /\ GetInFlightResolves

-----------------------------------------------------------------------------
(***************************************************************************)
(* Segments and the two-stage lookup                                       *)
(***************************************************************************)

\* The fields of a segment, a record and a pointer have their types.
LEMMA FieldTypes ==
  /\ \A seg \in Segment : /\ seg.id \in Nat /\ seg.len \in Nat /\ seg.len <= SizeLimit
                           /\ seg.recs \in [0..SizeLimit -> Record \cup {None}]
  /\ \A r \in Record : r.size \in Nat /\ r.size > 0
  /\ \A q \in SegmentPtr : q.segment_id \in Nat /\ q.offset \in Nat
  /\ SizeLimit \in Nat
<1>1. SizeLimit \in Nat
  BY SizeAssumption, Zenon
<1>2. ASSUME NEW seg \in Segment
      PROVE  /\ seg.id \in Nat /\ seg.len \in Nat /\ seg.len <= SizeLimit
             /\ seg.recs \in [0..SizeLimit -> Record \cup {None}]
  BY <1>1 DEF Segment
<1>3. ASSUME NEW r \in Record
      PROVE  r.size \in Nat /\ r.size > 0
  <2>1. r.size \in Sizes
    BY Zenon DEF Record
  <2>2. r.size \in Nat \ {0}
    BY <2>1, SizeAssumption, Zenon
  <2>3. QED
    BY <2>2
<1>4. ASSUME NEW q \in SegmentPtr
      PROVE  q.segment_id \in Nat /\ q.offset \in Nat
  BY Zenon DEF SegmentPtr
<1>5. QED
  BY <1>1, <1>2, <1>3, <1>4, Zenon

\* An empty segment, an appended-to segment and a sealed one are segments;
\* append is only called when CanAppend allowed it.
LEMMA SegmentTypes ==
  /\ \A id \in Nat : WithSizeLimit(id) \in Segment
  /\ \A seg \in Segment : Seal(seg) \in Segment
  /\ \A seg \in Segment, r \in Record :
       CanAppend(seg, r) => AppendRecord(seg, r) \in Segment
<1>1. \A id \in Nat : WithSizeLimit(id) \in Segment
  BY SizeAssumption DEF WithSizeLimit, Segment
<1>2. \A seg \in Segment : Seal(seg) \in Segment
  BY Zenon DEF Seal, Segment
<1>3. ASSUME NEW seg \in Segment, NEW r \in Record, CanAppend(seg, r)
      PROVE  AppendRecord(seg, r) \in Segment
  <2>1. seg.len + r.size \in 0..SizeLimit
    BY <1>3, FieldTypes DEF CanAppend
  <2>2. [seg.recs EXCEPT ![seg.len] = r] \in [0..SizeLimit -> Record \cup {None}]
    BY FieldTypes, Zenon
  <2>3. QED
    BY <2>1, <2>2, Zenon DEF AppendRecord, Segment
<1>4. QED
  BY <1>1, <1>2, <1>3, Zenon

\* When the id occurs once, the scan of the sealed segments reads that segment.
LEMMA ScanOfMatch ==
  ASSUME NEW segs, NEW q, NEW i \in DOMAIN segs, DOMAIN segs \subseteq Int,
         segs[i].id = q.segment_id,
         \A j \in DOMAIN segs : segs[j].id = q.segment_id => j = i
  PROVE  ScanSealed(segs, q) = ReadAt(segs[i], q.offset)
<1>1. Matches(segs, q.segment_id) = {i}
  BY Zenon DEF Matches
<1>2. FirstMatch(segs, q.segment_id) = i
  BY <1>1 DEF FirstMatch
<1>3. QED
  BY <1>1, <1>2, Zenon DEF ScanSealed

\* When the id does not occur, the scan returns None.
LEMMA ScanOfNoMatch ==
  ASSUME NEW segs, NEW q, \A j \in DOMAIN segs : segs[j].id # q.segment_id
  PROVE  ScanSealed(segs, q) = None
BY Zenon DEF ScanSealed, Matches

\* An append leaves what every resolving pointer leads to as it was.
LEMMA FindAfterAppend ==
  ASSUME NEW act \in Segment, NEW segs, NEW r \in Record, NEW q \in SegmentPtr,
         CanAppend(act, r), Find(act, segs, q) # None
  PROVE  Find(AppendRecord(act, r), segs, q) = Find(act, segs, q)
<1> DEFINE app == AppendRecord(act, r)
<1>1. app.id = act.id /\ app.len = act.len + r.size
  BY Zenon DEF AppendRecord, Segment
<1>2. \A o \in 0..SizeLimit : o # act.len => app.recs[o] = act.recs[o]
  BY Zenon DEF AppendRecord, Segment
<1>3. CASE q.segment_id = act.id
  <2>1. q.offset < act.len
    BY <1>3, Zenon DEF Find, ReadAt
  <2>2. q.offset < app.len /\ q.offset \in 0..SizeLimit /\ q.offset # act.len
    BY <1>1, <2>1, FieldTypes
  <2>3. QED
    BY <1>1, <1>2, <1>3, <2>1, <2>2, Zenon DEF Find, ReadAt
<1>4. CASE q.segment_id # act.id
  BY <1>1, <1>4, Zenon DEF Find
<1>5. QED
  BY <1>3, <1>4, Zenon

\* A record just appended is found through the pointer append returned.
LEMMA FindAppended ==
  ASSUME NEW act \in Segment, NEW segs, NEW r \in Record, CanAppend(act, r)
  PROVE  Find(AppendRecord(act, r), segs, [segment_id |-> act.id, offset |-> act.len]) = r
<1>1. AppendRecord(act, r).id = act.id /\ AppendRecord(act, r).len = act.len + r.size
  BY Zenon DEF AppendRecord, Segment
<1>2. AppendRecord(act, r).recs[act.len] = r
  BY Zenon DEF AppendRecord, Segment
<1>3. act.len < act.len + r.size
  BY FieldTypes
<1>4. QED
  BY <1>1, <1>2, <1>3, Zenon DEF Find, ReadAt

\* A rotation moves the active segment to the sealed ones under the same id, so
\* every pointer leads where it led before.
LEMMA FindAfterRotate ==
  ASSUME NEW act \in Segment, NEW segs \in Seq(Segment), NEW n \in Nat, NEW q \in SegmentPtr,
         act.id < n,
         \A i \in DOMAIN segs : segs[i].id < n /\ segs[i].id # act.id,
         \A i, j \in DOMAIN segs : segs[i].id = segs[j].id => i = j
  PROVE  Find(WithSizeLimit(n), Append(segs, Seal(act)), q) = Find(act, segs, q)
<1> DEFINE new == WithSizeLimit(n)
           all == Append(segs, Seal(act))
           last == Len(segs) + 1
<1>1. new.id = n /\ new.len = 0
  BY Zenon DEF WithSizeLimit
<1>2. Seal(act).id = act.id /\ Seal(act).len = act.len /\ Seal(act).recs = act.recs
  BY Zenon DEF Seal, Segment
<1>2a. Seal(act) \in Segment
  BY SegmentTypes, Zenon
<1>3. /\ DOMAIN segs = 1..Len(segs) /\ Len(segs) \in Nat
      /\ DOMAIN all = 1..last
      /\ all[last] = Seal(act)
      /\ \A i \in DOMAIN segs : all[i] = segs[i]
  BY <1>2a
<1> HIDE DEF new, all
<1>4. CASE q.segment_id = n
  <2>1. Find(new, all, q) = None
    BY <1>1, <1>4 DEF Find, ReadAt, SegmentPtr
  <2>2. q.segment_id # act.id /\ \A j \in DOMAIN segs : segs[j].id # q.segment_id
    BY <1>4 DEF Segment
  <2>3. ScanSealed(segs, q) = None
    BY <2>2, ScanOfNoMatch, Zenon
  <2>4. QED
    BY <2>1, <2>2, <2>3, Zenon DEF Find, new, all
<1>5. CASE q.segment_id = act.id
  <2>1. \A j \in DOMAIN all : all[j].id = q.segment_id => j = last
    BY <1>2, <1>3, <1>5
  <2>2. ScanSealed(all, q) = ReadAt(all[last], q.offset)
    <3>1. last \in DOMAIN all /\ DOMAIN all \subseteq Int /\ all[last].id = q.segment_id
      BY <1>2, <1>3, <1>5
    <3>2. QED
      BY <2>1, <3>1, ScanOfMatch, Zenon
  <2>3. new.id # q.segment_id
    BY <1>1, <1>5 DEF Segment
  <2>4. QED
    BY <1>2, <1>3, <1>5, <2>2, <2>3, Zenon DEF Find, ReadAt, new, all
<1>6. CASE q.segment_id # n /\ q.segment_id # act.id
  <2>1. Find(new, all, q) = ScanSealed(all, q) /\ Find(act, segs, q) = ScanSealed(segs, q)
    BY <1>1, <1>6, Zenon DEF Find
  <2>2. CASE \A j \in DOMAIN segs : segs[j].id # q.segment_id
    <3>1. \A j \in DOMAIN all : all[j].id # q.segment_id
      BY <1>2, <1>3, <1>6, <2>2
    <3>2. QED
      BY <2>1, <2>2, <3>1, ScanOfNoMatch, Zenon DEF new, all
  <2>3. CASE \E i \in DOMAIN segs : segs[i].id = q.segment_id
    <3>1. PICK i \in DOMAIN segs : segs[i].id = q.segment_id
      BY <2>3, Zenon
    <3>2. ScanSealed(segs, q) = ReadAt(segs[i], q.offset)
      <4>1. \A j \in DOMAIN segs : segs[j].id = q.segment_id => j = i
        BY <3>1, Zenon
      <4>2. DOMAIN segs \subseteq Int
        BY <1>3
      <4>3. QED
        BY <3>1, <4>1, <4>2, ScanOfMatch, Zenon
    <3>3. ScanSealed(all, q) = ReadAt(all[i], q.offset)
      <4>1. \A j \in DOMAIN all : all[j].id = q.segment_id => j = i
        BY <1>2, <1>3, <1>6, <3>1
      <4>2. i \in DOMAIN all /\ DOMAIN all \subseteq Int /\ all[i].id = q.segment_id
        BY <1>3, <3>1
      <4>3. QED
        BY <4>1, <4>2, ScanOfMatch, Zenon
    <3>4. QED
      BY <1>3, <2>1, <3>1, <3>2, <3>3, Zenon DEF new, all
  <2>4. QED
    BY <2>2, <2>3, Zenon
<1>7. QED
  BY <1>4, <1>5, <1>6, Zenon

-----------------------------------------------------------------------------
(***************************************************************************)
(* The inductive invariant                                                 *)
(***************************************************************************)

\* Every step leaves active and sealed alone, appends to the active segment, or
\* rotates it away.
LEMMA SegmentSteps ==
  ASSUME TypeOK, LocalsSet, [Next]_vars
  PROVE  \/ UNCHANGED <<active, sealed>>
         \/ \E p \in Procs : /\ rec[p] \in Record /\ CanAppend(active, rec[p])
                             /\ active' = AppendRecord(active, rec[p]) /\ sealed' = sealed
         \/ /\ active' = WithSizeLimit(segment_id_counter)
            /\ sealed' = Append(sealed, Seal(active))
<1>1. CASE UNCHANGED vars
  BY <1>1, Zenon DEF vars
<1>2. CASE Next
  <2>1. PICK p \in Procs :
          \/ \E k \in Conns, s \in Sizes : UpsertBegin(p, k, s)
          \/ UpsertStep(p)
          \/ \E k \in Conns : GetMiss(p, k) \/ GetSearch(p, k) \/ Delete(p, k)
          \/ GetStep(p)
    BY <1>2, Zenon DEF Next
  <2>2. CASE \E k \in Conns, s \in Sizes : UpsertBegin(p, k, s)
    BY <2>2, Zenon DEF UpsertBegin
  <2>3. CASE UpsertStore(p) \/ UpsertRetry(p)
    <3>1. rec[p] # None
      BY <2>3, Zenon DEF LocalsSet, UpsertStore, UpsertRetry
    <3>2. rec[p] \in Record
      BY <3>1, Zenon DEF TypeOK
    <3>3. QED
      BY <2>3, <3>2, Zenon DEF UpsertStore, UpsertRetry, Store
  <2>4. CASE UpsertFull(p) \/ UpsertSegmentFull(p)
    BY <2>4, Zenon DEF UpsertFull, UpsertSegmentFull
  <2>5. CASE RotateSegment(p)
    BY <2>5, Zenon DEF RotateSegment
  <2>6. CASE \E k \in Conns : GetMiss(p, k) \/ GetSearch(p, k) \/ Delete(p, k)
    BY <2>6, Zenon DEF GetMiss, GetSearch, Delete
  <2>7. CASE GetStep(p)
    BY <2>7, Zenon DEF GetStep, GetActiveHit, GetActiveMiss, GetSealed
  <2>8. QED
    BY <2>1, <2>2, <2>3, <2>4, <2>5, <2>6, <2>7, Zenon DEF UpsertStep
<1>3. QED
  BY <1>1, <1>2, Zenon

\* A pointer that leads to a record leads to the same record after any step:
\* the reason why a get may copy a pointer and use it without a lock.
LEMMA LookupStable ==
  ASSUME TypeOK, IdsDistinct, LocalsSet, [Next]_vars,
         NEW q \in SegmentPtr, Lookup(q) # None
  PROVE  Lookup(q)' = Lookup(q)
<1>1. CASE UNCHANGED <<active, sealed>>
  BY <1>1, Zenon DEF Lookup
<1>2. ASSUME NEW p \in Procs, rec[p] \in Record, CanAppend(active, rec[p]),
             active' = AppendRecord(active, rec[p]), sealed' = sealed
      PROVE  Lookup(q)' = Lookup(q)
  <2>1. active \in Segment
    BY Zenon DEF TypeOK
  <2>2. Find(AppendRecord(active, rec[p]), sealed, q) = Find(active, sealed, q)
    BY <1>2, <2>1, FindAfterAppend, Zenon DEF Lookup
  <2>3. QED
    BY <1>2, <2>2, Zenon DEF Lookup
<1>3. CASE /\ active' = WithSizeLimit(segment_id_counter)
           /\ sealed' = Append(sealed, Seal(active))
  <2>1. active \in Segment /\ sealed \in Seq(Segment) /\ segment_id_counter \in Nat
    BY Zenon DEF TypeOK
  <2>2. Find(WithSizeLimit(segment_id_counter), Append(sealed, Seal(active)), q)
          = Find(active, sealed, q)
    BY <2>1, FindAfterRotate, Zenon DEF IdsDistinct
  <2>3. QED
    BY <1>3, <2>2, Zenon DEF Lookup
<1>4. QED
  BY <1>1, <1>2, <1>3, SegmentSteps, Zenon

\* The initial state satisfies the invariant.
LEMMA InitIInv == Init => IInv
<1> SUFFICES ASSUME Init PROVE IInv
  BY Zenon
<1>1. TypeOK
  <2>1. active \in Segment /\ ~active.is_sealed
    BY SegmentTypes, Zenon DEF Init, WithSizeLimit
  <2>2. QED
    BY <2>1 DEF Init, TypeOK, Steps
<1>2. IdsDistinct
  BY DEF Init, IdsDistinct, WithSizeLimit
<1>3. LocalsSet /\ IndexResolves /\ GetInFlightResolves
  BY Zenon DEF Init, LocalsSet, IndexResolves, GetInFlightResolves
<1>4. QED
  BY <1>1, <1>2, <1>3, Zenon DEF IInv
\* Every step keeps the types, and with them the segment limit.
LEMMA TypeStep == IInv /\ [Next]_vars => TypeOK'
<1> SUFFICES ASSUME IInv, [Next]_vars PROVE TypeOK'
  BY Zenon
<1> USE DEF IInv
<1>1. CASE UNCHANGED vars
  BY <1>1, Zenon DEF vars, TypeOK
<1>2. ASSUME NEW p \in Procs, NEW k \in Conns, NEW s \in Sizes, UpsertBegin(p, k, s)
      PROVE  TypeOK'
  <2>1. [conn |-> k, txid |-> txid_counter, size |-> s] \in Record
    BY Zenon DEF TypeOK, Record
  <2>2. rec' \in [Procs -> Record \cup {None}]
    BY <1>2, <2>1, Zenon DEF UpsertBegin, TypeOK
  <2>3. QED
    BY <1>2, <2>2 DEF UpsertBegin, TypeOK, Goto, Steps
<1>3. ASSUME NEW p \in Procs, UpsertStore(p) \/ UpsertRetry(p)
      PROVE  TypeOK'
  <2>1. rec[p] \in Record
    BY <1>3, Zenon DEF LocalsSet, UpsertStore, UpsertRetry, TypeOK
  <2>2. Store(p)
    BY <1>3, Zenon DEF UpsertStore, UpsertRetry
  <2>3. active' \in Segment /\ ~active'.is_sealed
    <3>1. active' \in Segment
      BY <2>1, <2>2, SegmentTypes, Zenon DEF Store, TypeOK
    <3>2. active'.is_sealed = active.is_sealed
      BY <2>2, Zenon DEF Store, AppendRecord, TypeOK, Segment
    <3>3. QED
      BY <3>1, <3>2, Zenon DEF TypeOK
  <2>4. index' \in [Conns -> SegmentPtr \cup {None}]
    <3>1. [segment_id |-> active.id, offset |-> active.len] \in SegmentPtr
      BY FieldTypes, Zenon DEF TypeOK, SegmentPtr
    <3>2. QED
      BY <2>2, <3>1, Zenon DEF Store, TypeOK
  <2>5. QED
    BY <2>2, <2>3, <2>4, Zenon DEF Store, Return, Goto, TypeOK, Steps
<1>4. ASSUME NEW p \in Procs, UpsertFull(p) \/ UpsertSegmentFull(p)
      PROVE  TypeOK'
  BY <1>4, Zenon DEF UpsertFull, UpsertSegmentFull, Return, Goto, TypeOK, Steps
<1>5. ASSUME NEW p \in Procs, RotateSegment(p)
      PROVE  TypeOK'
  <2>1. active' \in Segment /\ ~active'.is_sealed
    BY <1>5, SegmentTypes, Zenon DEF RotateSegment, TypeOK, WithSizeLimit
  <2>2. sealed' \in Seq(Segment)
    BY <1>5, SegmentTypes DEF RotateSegment, TypeOK
  <2>3. QED
    BY <1>5, <2>1, <2>2 DEF RotateSegment, Goto, TypeOK, Steps
<1>6. ASSUME NEW p \in Procs, NEW k \in Conns, GetMiss(p, k) \/ GetSearch(p, k) \/ Delete(p, k)
      PROVE  TypeOK'
  <2>1. CASE GetMiss(p, k)
    BY <2>1, Zenon DEF GetMiss, Return, Goto, TypeOK, Steps
  <2>2. CASE GetSearch(p, k)
    BY <2>2, Zenon DEF GetSearch, Goto, TypeOK, Steps
  <2>3. CASE Delete(p, k)
    BY <2>3, Zenon DEF Delete, Return, Goto, TypeOK, Steps
  <2>4. QED
    BY <1>6, <2>1, <2>2, <2>3, Zenon
<1>7. ASSUME NEW p \in Procs, GetStep(p)
      PROVE  TypeOK'
  <2>1. CASE GetActiveHit(p)
    BY <2>1, Zenon DEF GetActiveHit, Return, Forget, Goto, TypeOK, Steps
  <2>2. CASE GetActiveMiss(p)
    BY <2>2, Zenon DEF GetActiveMiss, Goto, TypeOK, Steps
  <2>3. CASE GetSealed(p)
    BY <2>3, Zenon DEF GetSealed, Return, Forget, Goto, TypeOK, Steps
  <2>4. QED
    BY <1>7, <2>1, <2>2, <2>3, Zenon DEF GetStep
<1>8. QED
  BY <1>1, <1>2, <1>3, <1>4, <1>5, <1>6, <1>7, Zenon DEF Next, UpsertStep

\* Only a rotation creates a segment, and it draws a fresh id.
LEMMA IdsStep == IInv /\ [Next]_vars => IdsDistinct'
<1> SUFFICES ASSUME IInv, [Next]_vars PROVE IdsDistinct'
  BY Zenon
<1> USE DEF IInv
<1>1. CASE \E p \in Procs : RotateSegment(p)
  <2>1. /\ active' = WithSizeLimit(segment_id_counter)
        /\ sealed' = Append(sealed, Seal(active))
        /\ segment_id_counter' = segment_id_counter + 1
    BY <1>1, Zenon DEF RotateSegment
  <2>2. active'.id = segment_id_counter /\ Seal(active).id = active.id
    BY <2>1, Zenon DEF WithSizeLimit, Seal, TypeOK, Segment
  <2>3. /\ Len(sealed) \in Nat /\ DOMAIN sealed = 1..Len(sealed)
        /\ DOMAIN sealed' = 1..(Len(sealed) + 1)
        /\ sealed'[Len(sealed) + 1] = Seal(active)
        /\ \A i \in DOMAIN sealed : sealed'[i] = sealed[i]
    BY <2>1, SegmentTypes DEF TypeOK
  <2>4. active.id \in Nat /\ segment_id_counter \in Nat
        /\ \A i \in DOMAIN sealed : sealed[i].id \in Nat
    BY FieldTypes DEF TypeOK
  <2>5. QED
    BY <2>1, <2>2, <2>3, <2>4 DEF IdsDistinct
<1>2. CASE /\ sealed' = sealed /\ segment_id_counter' = segment_id_counter
           /\ active'.id = active.id
  BY <1>2, Zenon DEF IdsDistinct
<1>3. ASSUME NEW p \in Procs, Store(p)
      PROVE  active'.id = active.id
  BY <1>3, Zenon DEF Store, AppendRecord, TypeOK, Segment
<1>4. QED
  BY <1>1, <1>2, <1>3, Zenon DEF Next, vars, UpsertBegin, UpsertStep, UpsertStore, UpsertFull, UpsertRetry,
     UpsertSegmentFull, Store, GetMiss, GetSearch, Delete, GetStep, GetActiveHit,
     GetActiveMiss, GetSealed
\* A caller's record, pointer and key are set and cleared with its pc.
LEMMA LocalsStep == IInv /\ [Next]_vars => LocalsSet'
<1> SUFFICES ASSUME IInv, [Next]_vars PROVE LocalsSet'
  BY Zenon
<1> USE DEF IInv
<1>1. CASE UNCHANGED vars
  BY <1>1, Zenon DEF vars, LocalsSet
<1>2. ASSUME NEW p \in Procs, NEW k \in Conns, NEW s \in Sizes, UpsertBegin(p, k, s)
      PROVE  LocalsSet'
  <2>1. [conn |-> k, txid |-> txid_counter, size |-> s] # None
    BY NoneAssumption DEF TypeOK, Record
  <2>2. QED
    BY <1>2, <2>1, Zenon DEF UpsertBegin, Goto, TypeOK, LocalsSet
<1>3. ASSUME NEW p \in Procs, UpsertStep(p)
      PROVE  LocalsSet'
  BY <1>3, ZenonT(40) DEF UpsertStep, UpsertStore, UpsertFull, RotateSegment, UpsertRetry, UpsertSegmentFull,
     Store, Return, Goto, TypeOK, LocalsSet
<1>4. ASSUME NEW p \in Procs, NEW k \in Conns, GetMiss(p, k) \/ GetSearch(p, k) \/ Delete(p, k)
      PROVE  LocalsSet'
  <2>1. k # None
    BY NoneAssumption, Zenon
  <2>2. QED
    BY <1>4, <2>1, ZenonT(40) DEF GetMiss, GetSearch, Delete, Return, Goto, TypeOK, LocalsSet
<1>5. ASSUME NEW p \in Procs, GetStep(p)
      PROVE  LocalsSet'
  BY <1>5, ZenonT(40) DEF GetStep, GetActiveHit, GetActiveMiss, GetSealed, Return, Forget, Goto,
     TypeOK, LocalsSet
<1>6. QED
  BY <1>1, <1>2, <1>3, <1>4, <1>5, Zenon DEF Next

\* LeadsToRecordOf, with the segments it looks in made explicit
Leads(act, segs, q, k) == Find(act, segs, q) # None /\ Find(act, segs, q).conn = k

\* A pointer resolving to a record of k before a step does so after it.
LEMMA LeadsStable ==
  ASSUME IInv, [Next]_vars, NEW q \in SegmentPtr, NEW k, Leads(active, sealed, q, k)
  PROVE  Leads(active', sealed', q, k)
<1>1. Lookup(q)' = Lookup(q)
  BY LookupStable, Zenon DEF IInv, Leads, Lookup
<1>2. QED
  BY <1>1, Zenon DEF Leads, Lookup

\* The only pointer a step adds to the index is the one append just returned.
LEMMA IndexStep == IInv /\ [Next]_vars => IndexResolves'
<1> SUFFICES ASSUME IInv, [Next]_vars, NEW k \in Conns, index'[k] # None
             PROVE  Leads(active', sealed', index'[k], k)
  BY Zenon DEF IndexResolves, Leads, LeadsToRecordOf, Lookup
<1>1. CASE index'[k] = index[k]
  <2>1. index[k] \in SegmentPtr /\ Leads(active, sealed, index[k], k)
    BY <1>1, Zenon DEF IInv, TypeOK, IndexResolves, Leads, LeadsToRecordOf, Lookup
  <2>2. Leads(active', sealed', index[k], k)
    BY <2>1, LeadsStable, Zenon
  <2>3. QED
    BY <1>1, <2>2, Zenon
<1>2. ASSUME NEW p \in Procs, UpsertStore(p) \/ UpsertRetry(p), index'[k] # index[k]
      PROVE  Leads(active', sealed', index'[k], k)
  <2>1. Store(p) /\ rec[p] \in Record
    BY <1>2, Zenon DEF UpsertStore, UpsertRetry, IInv, LocalsSet, TypeOK
  <2>2. k = rec[p].conn /\ index'[k] = [segment_id |-> active.id, offset |-> active.len]
    BY <1>2, <2>1, Zenon DEF Store, IInv, TypeOK
  <2>3. Find(active', sealed', index'[k]) = rec[p]
    BY <2>1, <2>2, FindAppended, Zenon DEF Store, IInv, TypeOK
  <2>4. rec[p] # None
    BY <2>1, NoneAssumption, Zenon
  <2>5. QED
    BY <2>2, <2>3, <2>4, Zenon DEF Leads
<1>3. ASSUME NEW p \in Procs, NEW c \in Conns, Delete(p, c)
      PROVE  index'[k] = index[k]
  BY <1>3, Zenon DEF Delete, IInv, TypeOK
<1>4. QED
  BY <1>1, <1>2, <1>3, Zenon DEF Next, vars, UpsertBegin, UpsertStep, UpsertFull, RotateSegment,
     UpsertSegmentFull, GetMiss, GetSearch, GetStep, GetActiveHit, GetActiveMiss, GetSealed

\* A get takes its pointer from the index, and goes on to the sealed segments
\* only when the active one is another; a rotation never brings an id back.
LEMMA InFlightStep == IInv /\ [Next]_vars => GetInFlightResolves'
<1> SUFFICES ASSUME IInv, [Next]_vars, NEW r \in Procs, pc'[r] \in {"active", "sealed"}
             PROVE  /\ Leads(active', sealed', ptr'[r], key'[r])
                    /\ pc'[r] = "sealed" => ptr'[r].segment_id # active'.id
  BY Zenon DEF GetInFlightResolves, Leads, LeadsToRecordOf, Lookup
<1>1. CASE /\ pc'[r] = pc[r] /\ ptr'[r] = ptr[r] /\ key'[r] = key[r]
  <2>1. ptr[r] \in SegmentPtr /\ Leads(active, sealed, ptr[r], key[r])
    BY <1>1, Zenon DEF IInv, TypeOK, LocalsSet, GetInFlightResolves, Leads, LeadsToRecordOf, Lookup
  <2>2. Leads(active', sealed', ptr[r], key[r])
    BY <1>1, <2>1, LeadsStable, Zenon
  <2>3. ASSUME pc[r] = "sealed" PROVE ptr[r].segment_id # active'.id
    <3>1. ptr[r].segment_id # active.id
      BY <2>3, Zenon DEF IInv, GetInFlightResolves
    <3>2. CASE active'.id = active.id
      BY <3>1, <3>2, Zenon
    <3>3. CASE active' = WithSizeLimit(segment_id_counter)
      \* a pointer under the id about to be drawn would not resolve
      <4>1. active'.id = segment_id_counter
        BY <3>3, Zenon DEF WithSizeLimit
      <4>2. ASSUME ptr[r].segment_id = segment_id_counter PROVE FALSE
        <5>1. \A j \in DOMAIN sealed : sealed[j].id # ptr[r].segment_id
          BY <4>2, FieldTypes DEF IInv, TypeOK, IdsDistinct
        <5>2. Lookup(ptr[r]) = None
          BY <3>1, <5>1, ScanOfNoMatch, Zenon DEF Lookup, Find
        <5>3. QED
          BY <2>1, <5>2, Zenon DEF Leads, Lookup
      <4>3. QED
        BY <4>1, <4>2, Zenon
    <3>4. CASE \E p \in Procs : rec[p] \in Record /\ active' = AppendRecord(active, rec[p])
      <4>1. active'.id = active.id
        BY <3>4, Zenon DEF AppendRecord, IInv, TypeOK, Segment
      <4>2. QED
        BY <3>1, <4>1, Zenon
    <3>5. QED
      BY <3>2, <3>3, <3>4, SegmentSteps, Zenon DEF IInv
  <2>4. QED
    BY <1>1, <2>2, <2>3, Zenon
<1>2. ASSUME NEW k \in Conns, GetSearch(r, k)
      PROVE  /\ Leads(active', sealed', ptr'[r], key'[r])
             /\ pc'[r] = "sealed" => ptr'[r].segment_id # active'.id
  <2>1. ptr'[r] = index[k] /\ key'[r] = k /\ pc'[r] = "active"
    BY <1>2, Zenon DEF GetSearch, Goto, IInv, TypeOK
  <2>2. index[k] \in SegmentPtr /\ Leads(active, sealed, index[k], k)
    BY <1>2, Zenon DEF GetSearch, IInv, TypeOK, IndexResolves, Leads, LeadsToRecordOf, Lookup
  <2>3. Leads(active', sealed', index[k], k)
    BY <2>2, LeadsStable, Zenon
  <2>4. QED
    BY <2>1, <2>3, Zenon
<1>3. CASE GetActiveMiss(r)
  <2>1. ptr'[r] = ptr[r] /\ key'[r] = key[r] /\ active' = active /\ ptr[r].segment_id # active.id
    BY <1>3, Zenon DEF GetActiveMiss
  <2>2. ptr[r] \in SegmentPtr /\ Leads(active, sealed, ptr[r], key[r])
    BY <1>3, Zenon DEF GetActiveMiss, IInv, TypeOK, LocalsSet, GetInFlightResolves, Leads, LeadsToRecordOf, Lookup
  <2>3. Leads(active', sealed', ptr[r], key[r])
    BY <2>2, LeadsStable, Zenon
  <2>4. QED
    BY <2>1, <2>3, Zenon
<1>4. QED
  \* every other step of r leaves it outside get, and other callers' steps
  \* leave r's locals alone
  <2>1. CASE UNCHANGED vars
    BY <1>1, <2>1, Zenon DEF vars
  <2>2. ASSUME NEW p \in Procs, NEW k \in Conns, NEW s \in Sizes, UpsertBegin(p, k, s)
        PROVE  pc'[r] = pc[r] /\ ptr'[r] = ptr[r] /\ key'[r] = key[r]
    BY <2>2, Zenon DEF UpsertBegin, Goto, IInv, TypeOK
  <2>3. ASSUME NEW p \in Procs, UpsertStep(p)
        PROVE  pc'[r] = pc[r] /\ ptr'[r] = ptr[r] /\ key'[r] = key[r]
    BY <2>3, Zenon DEF UpsertStep, UpsertStore, UpsertFull, RotateSegment, UpsertRetry, UpsertSegmentFull,
       Store, Return, Goto, IInv, TypeOK
  <2>4. ASSUME NEW p \in Procs, NEW k \in Conns, GetMiss(p, k) \/ Delete(p, k)
        PROVE  pc'[r] = pc[r] /\ ptr'[r] = ptr[r] /\ key'[r] = key[r]
    BY <2>4, Zenon DEF GetMiss, Delete, Return, Goto, IInv, TypeOK
  <2>5. ASSUME NEW p \in Procs, NEW k \in Conns, GetSearch(p, k), p # r
        PROVE  pc'[r] = pc[r] /\ ptr'[r] = ptr[r] /\ key'[r] = key[r]
    BY <2>5, Zenon DEF GetSearch, Goto, IInv, TypeOK
  <2>6. ASSUME NEW p \in Procs, GetStep(p), ~GetActiveMiss(p) \/ p # r
        PROVE  pc'[r] = pc[r] /\ ptr'[r] = ptr[r] /\ key'[r] = key[r]
    BY <2>6, Zenon DEF GetStep, GetActiveHit, GetActiveMiss, GetSealed, Return, Forget, Goto, IInv, TypeOK
  <2>7. QED
    BY <1>1, <1>2, <1>3, <2>1, <2>2, <2>3, <2>4, <2>5, <2>6, Zenon DEF Next

-----------------------------------------------------------------------------
\* The invariant holds in every reachable state.
LEMMA Inductive == Spec => []IInv
<1>1. IInv /\ [Next]_vars => IInv'
  BY TypeStep, IdsStep, LocalsStep, IndexStep, InFlightStep, Zenon DEF IInv
<1>2. QED
  BY <1>1, InitIInv, PTL DEF Spec

\* Every variable keeps its type: no segment outgrows segment_size_limit
\* (Segment::append) and the segment upserts write to is never sealed.
THEOREM TypeCorrect == Spec => []TypeOK
BY Inductive, PTL DEF IInv

\* The pointers of the index always lead to a record of their connection
\* (StorageEngine::upsert against rotate_segment).
THEOREM IndexAlwaysResolves == Spec => []IndexResolves
BY Inductive, PTL DEF IInv

\* A get whose index search hit always finds a record of its connection,
\* whatever runs between its steps (StorageEngine::get takes no lock that
\* covers both the search and the read).
THEOREM GetNeverMisses == Spec => []GetInFlightResolves
BY Inductive, PTL DEF IInv

-----------------------------------------------------------------------------
(***************************************************************************)
(* The engine implements ConnTable                                         *)
(*                                                                         *)
(* The values ConnTable's variables have, the pointers being followed.     *)
(***************************************************************************)
ATable == [k \in Conns |-> IF index[k] = None THEN None ELSE Lookup(index[k])]
AReading ==
  [p \in Procs |-> IF pc[p] \in {"active", "sealed"} THEN <<Lookup(ptr[p])>> ELSE <<>>]
AAnswer == [p \in Procs |-> Answer(ret[p])]

\* a pointer that delete returned still leads to a record
RetResolves ==
  \A p \in Procs : ret[p][1] = "ptr" => ret[p][2] \in SegmentPtr /\ Lookup(ret[p][2]) # None

\* A step that leaves an index entry, a get in flight or an answer alone leaves
\* what it stands for alone, whatever it does to the segments.
LEMMA MappedStable ==
  ASSUME IInv, RetResolves, [Next]_vars
  PROVE  /\ \A k \in Conns : index'[k] = index[k] => ATable'[k] = ATable[k]
         /\ \A p \in Procs : pc'[p] = pc[p] /\ ptr'[p] = ptr[p] => AReading'[p] = AReading[p]
         /\ \A p \in Procs : ret'[p] = ret[p] => AAnswer'[p] = AAnswer[p]
<1>0. \A q \in SegmentPtr : Lookup(q) # None => Lookup(q)' = Lookup(q)
  BY LookupStable, Zenon DEF IInv
<1>0a. \A q : Lookup(q)' = Find(active', sealed', q) /\ Lookup(q) = Find(active, sealed, q)
  BY Zenon DEF Lookup
<1>1. ASSUME NEW k \in Conns, index'[k] = index[k]
      PROVE  ATable'[k] = ATable[k]
  <2>1. index[k] = None \/ (index[k] \in SegmentPtr /\ Lookup(index[k]) # None)
    BY Zenon DEF IInv, TypeOK, IndexResolves, LeadsToRecordOf
  <2>2. index[k] # None => Find(active', sealed', index[k]) = Find(active, sealed, index[k])
    BY <1>0, <1>0a, <2>1, Zenon
  <2>3. QED
    BY <1>1, <2>2, Zenon DEF ATable, Lookup
<1>2. ASSUME NEW p \in Procs, pc'[p] = pc[p], ptr'[p] = ptr[p]
      PROVE  AReading'[p] = AReading[p]
  <2>1. pc[p] \in {"active", "sealed"} => ptr[p] \in SegmentPtr /\ Lookup(ptr[p]) # None
    BY Zenon DEF IInv, TypeOK, LocalsSet, GetInFlightResolves, LeadsToRecordOf
  <2>2. pc[p] \in {"active", "sealed"}
          => Find(active', sealed', ptr[p]) = Find(active, sealed, ptr[p])
    BY <1>0, <1>0a, <2>1, Zenon
  <2>3. QED
    BY <1>2, <2>2, Zenon DEF AReading, Lookup
<1>3. ASSUME NEW p \in Procs, ret'[p] = ret[p]
      PROVE  AAnswer'[p] = AAnswer[p]
  <2>1. ret[p][1] = "ptr"
          => Find(active', sealed', ret[p][2]) = Find(active, sealed, ret[p][2])
    BY <1>0, <1>0a, Zenon DEF RetResolves
  <2>2. QED
    BY <1>3, <2>1, Zenon DEF AAnswer, Answer, Lookup
<1>4. QED
  BY <1>1, <1>2, <1>3, Zenon

\* Where a step does not touch the index, a caller's get or its answer, the
\* mapped functions do not change; where it touches one place, they change
\* only there.
LEMMA MappedFrame ==
  ASSUME IInv, RetResolves, [Next]_vars
  PROVE  /\ index' = index => ATable' = ATable
         /\ pc' = pc /\ ptr' = ptr => AReading' = AReading
         /\ ret' = ret => AAnswer' = AAnswer
         /\ \A k \in Conns : (\A j \in Conns \ {k} : index'[j] = index[j])
              => ATable' = [ATable EXCEPT ![k] = ATable'[k]]
         /\ \A p \in Procs : (\A o \in Procs \ {p} : pc'[o] = pc[o] /\ ptr'[o] = ptr[o])
              => AReading' = [AReading EXCEPT ![p] = AReading'[p]]
         /\ \A p \in Procs : (\A o \in Procs \ {p} : ret'[o] = ret[o])
              => AAnswer' = [AAnswer EXCEPT ![p] = AAnswer'[p]]
<1>1. /\ ATable = [k \in Conns |-> ATable[k]] /\ ATable' = [k \in Conns |-> ATable'[k]]
      /\ AReading = [p \in Procs |-> AReading[p]] /\ AReading' = [p \in Procs |-> AReading'[p]]
      /\ AAnswer = [p \in Procs |-> AAnswer[p]] /\ AAnswer' = [p \in Procs |-> AAnswer'[p]]
  BY Zenon DEF ATable, AReading, AAnswer
<1>2. QED
  BY <1>1, MappedStable, SMT

\* What delete returns leads to the record it removed, and goes on doing so.
LEMMA RetStep == IInv /\ RetResolves /\ [Next]_vars => RetResolves'
<1> SUFFICES ASSUME IInv, RetResolves, [Next]_vars, NEW p \in Procs, ret'[p][1] = "ptr"
             PROVE  ret'[p][2] \in SegmentPtr /\ Find(active', sealed', ret'[p][2]) # None
  BY Zenon DEF RetResolves, Lookup
<1>1. CASE ret'[p] = ret[p]
  <2>1. ret[p][2] \in SegmentPtr /\ Lookup(ret[p][2]) # None
    BY <1>1, Zenon DEF RetResolves
  <2>2. Lookup(ret[p][2])' = Lookup(ret[p][2])
    BY <2>1, <1>1, LookupStable, Zenon DEF IInv
  <2>3. QED
    BY <1>1, <2>1, <2>2, Zenon DEF Lookup
<1>2. ASSUME NEW k \in Conns, Delete(p, k), ret'[p] # ret[p]
      PROVE  ret'[p][2] \in SegmentPtr /\ Find(active', sealed', ret'[p][2]) # None
  <2>1. index[k] # None /\ ret'[p] = <<"ptr", index[k]>> /\ active' = active /\ sealed' = sealed
    BY <1>2, Zenon DEF Delete, Return, IInv, TypeOK
  <2>2. index[k] \in SegmentPtr /\ Find(active, sealed, index[k]) # None
    BY <2>1, Zenon DEF IInv, TypeOK, IndexResolves, LeadsToRecordOf, Lookup
  <2>3. QED
    BY <2>1, <2>2
<1>3. QED
  <2>1. ASSUME NEW o \in Procs, NEW k \in Conns, Delete(o, k), o # p
        PROVE  ret'[p] = ret[p]
    BY <2>1, Zenon DEF Delete, Return, IInv, TypeOK
  <2>2. ASSUME NEW o \in Procs, UpsertStep(o)
        PROVE  ret'[p] = ret[p]
    BY <2>2 DEF UpsertStep, UpsertStore, UpsertFull, RotateSegment, UpsertRetry, UpsertSegmentFull,
       Store, Return, Goto, IInv, TypeOK
  <2>3. ASSUME NEW o \in Procs, NEW k \in Conns, GetMiss(o, k)
        PROVE  ret'[p] = ret[p]
    BY <2>3, Zenon DEF GetMiss, Return, Goto, IInv, TypeOK
  <2>4. ASSUME NEW o \in Procs, GetStep(o)
        PROVE  ret'[p] = ret[p]
    BY <2>4 DEF GetStep, GetActiveHit, GetActiveMiss, GetSealed, Return, Goto, Option, IInv, TypeOK
  <2>5. QED
    BY <1>1, <1>2, <2>1, <2>2, <2>3, <2>4, Zenon DEF Next, vars, UpsertBegin, GetSearch

\* Every step of the engine is a step of the table or leaves the table's
\* variables alone: an upsert takes effect when it inserts into the index, a
\* get when it searches the index.
LEMMA StepRefines == IInv /\ RetResolves /\ [Next]_vars => [Table!TNext]_(Table!tvars)
<1> SUFFICES ASSUME IInv, RetResolves, [Next]_vars
             PROVE  [Table!TNext]_(Table!tvars)
  BY Zenon
<1>0. \A p \in Procs : pc[p] = "idle" => Table!Quiet(p)
  BY Zenon DEF Table!Quiet, IInv, LocalsSet
<1>1. CASE UNCHANGED vars
  BY <1>1, MappedFrame, Zenon DEF vars, Table!tvars, ATable, AReading, AAnswer
<1>2. ASSUME NEW p \in Procs, NEW k \in Conns, NEW s \in Sizes, UpsertBegin(p, k, s)
      PROVE  Table!CallUpsert(p)
  <2>1. rec'[p] \in Record /\ rec' = [rec EXCEPT ![p] = rec'[p]]
    BY <1>2, Zenon DEF UpsertBegin, IInv, TypeOK, Record
  <2>2. ATable' = ATable /\ AAnswer' = AAnswer
    BY <1>2, MappedFrame, Zenon DEF UpsertBegin
  <2>3. AReading' = AReading
    <3>1. \A o \in Procs : AReading'[o] = AReading[o]
      <4>1. \A o \in Procs \ {p} : AReading'[o] = AReading[o]
        BY <1>2, MappedStable, Zenon DEF UpsertBegin, Goto, IInv, TypeOK
      <4>2. AReading'[p] = AReading[p]
        BY <1>2, Zenon DEF UpsertBegin, Goto, AReading, IInv, TypeOK
      <4>3. QED
        BY <4>1, <4>2, Zenon
    <3>2. QED
      BY <3>1, Zenon DEF AReading
  <2>4. QED
    BY <1>0, <1>2, <2>1, <2>2, <2>3, Zenon DEF Table!CallUpsert, UpsertBegin, ATable, AReading, AAnswer
<1>3. ASSUME NEW p \in Procs, UpsertStore(p) \/ UpsertRetry(p)
      PROVE  Table!DoUpsert(p)
  <2>1. Store(p) /\ rec[p] \in Record /\ rec[p] # None /\ rec[p].conn \in Conns
    BY <1>3, Zenon DEF UpsertStore, UpsertRetry, IInv, LocalsSet, TypeOK, Record
  <2>2. ATable' = [ATable EXCEPT ![rec[p].conn] = rec[p]]
    <3>1. index'[rec[p].conn] = [segment_id |-> active.id, offset |-> active.len]
      BY <2>1, Zenon DEF Store, IInv, TypeOK
    <3>2. Find(active', sealed', index'[rec[p].conn]) = rec[p]
      BY <2>1, <3>1, FindAppended, Zenon DEF Store, IInv, TypeOK
    <3>3. [segment_id |-> active.id, offset |-> active.len] \in SegmentPtr
      BY FieldTypes, Zenon DEF IInv, TypeOK, SegmentPtr
    <3>4. ATable'[rec[p].conn] = rec[p]
      BY <2>1, <3>1, <3>2, <3>3, NoneAssumption, Zenon DEF ATable, Lookup
    <3>5. \A j \in Conns \ {rec[p].conn} : index'[j] = index[j]
      BY <2>1, Zenon DEF Store, IInv, TypeOK
    <3>6. QED
      BY <2>1, <3>4, <3>5, MappedFrame
  <2>3. AAnswer' = [AAnswer EXCEPT ![p] = <<"txid", rec[p].txid>>]
    <3>1. AAnswer'[p] = <<"txid", rec[p].txid>>
      BY <2>1, Zenon DEF Store, Return, AAnswer, Answer, IInv, TypeOK
    <3>2. \A o \in Procs \ {p} : ret'[o] = ret[o]
      BY <2>1, Zenon DEF Store, Return, IInv, TypeOK
    <3>3. QED
      BY <3>1, <3>2, MappedFrame, Zenon
  <2>4. AReading' = AReading
    <3>1. \A o \in Procs \ {p} : AReading'[o] = AReading[o]
      BY <2>1, MappedStable, Zenon DEF Store, Return, Goto, IInv, TypeOK
    <3>2. AReading'[p] = AReading[p]
      BY <1>3, <2>1, Zenon DEF UpsertStore, UpsertRetry, Store, Return, Goto, AReading, IInv, TypeOK
    <3>3. QED
      BY <3>1, <3>2, Zenon DEF AReading
  <2>5. rec' = [rec EXCEPT ![p] = None]
    BY <2>1, Zenon DEF Store
  <2>6. QED
    BY <2>1, <2>2, <2>3, <2>4, <2>5, Zenon DEF Table!DoUpsert, ATable, AReading, AAnswer
<1>4. ASSUME NEW p \in Procs, UpsertFull(p) \/ RotateSegment(p) \/ GetActiveMiss(p)
      PROVE  UNCHANGED Table!tvars
  <2>1. index' = index /\ ret' = ret /\ rec' = rec /\ ptr' = ptr
    BY <1>4, Zenon DEF UpsertFull, RotateSegment, GetActiveMiss
  <2>2. \A o \in Procs \ {p} : AReading'[o] = AReading[o]
    BY <1>4, <2>1, MappedStable, Zenon DEF UpsertFull, RotateSegment, GetActiveMiss, Goto, IInv, TypeOK
  <2>3. AReading'[p] = AReading[p]
    <3>1. CASE UpsertFull(p) \/ RotateSegment(p)
      BY <3>1, Zenon DEF UpsertFull, RotateSegment, Goto, AReading, IInv, TypeOK
    <3>2. CASE GetActiveMiss(p)
      BY <3>2, Zenon DEF GetActiveMiss, Goto, AReading, Lookup, IInv, TypeOK
    <3>3. QED
      BY <1>4, <3>1, <3>2, Zenon
  <2>4. AReading' = AReading
    BY <2>2, <2>3, Zenon DEF AReading
  <2>5. QED
    BY <2>1, <2>4, MappedFrame, Zenon DEF Table!tvars, ATable, AReading, AAnswer
<1>5. ASSUME NEW p \in Procs, UpsertSegmentFull(p)
      PROVE  Table!FailUpsert(p)
  <2>1. rec[p] # None
    BY <1>5, Zenon DEF UpsertSegmentFull, IInv, LocalsSet
  <2>2. AAnswer' = [AAnswer EXCEPT ![p] = <<"SegmentFull">>]
    <3>1. AAnswer'[p] = <<"SegmentFull">>
      BY <1>5, Zenon DEF UpsertSegmentFull, Return, AAnswer, Answer, IInv, TypeOK
    <3>2. \A o \in Procs \ {p} : ret'[o] = ret[o]
      BY <1>5, Zenon DEF UpsertSegmentFull, Return, IInv, TypeOK
    <3>3. QED
      BY <3>1, <3>2, MappedFrame, Zenon
  <2>3. AReading' = AReading
    <3>1. \A o \in Procs \ {p} : AReading'[o] = AReading[o]
      BY <1>5, MappedStable, Zenon DEF UpsertSegmentFull, Return, Goto, IInv, TypeOK
    <3>2. AReading'[p] = AReading[p]
      BY <1>5, Zenon DEF UpsertSegmentFull, Return, Goto, AReading, IInv, TypeOK
    <3>3. QED
      BY <3>1, <3>2, Zenon DEF AReading
  <2>4. ATable' = ATable /\ rec' = [rec EXCEPT ![p] = None]
    BY <1>5, MappedFrame, Zenon DEF UpsertSegmentFull
  <2>5. QED
    BY <2>1, <2>2, <2>3, <2>4, Zenon DEF Table!FailUpsert, ATable, AReading, AAnswer
<1>6. ASSUME NEW p \in Procs, NEW k \in Conns, GetMiss(p, k)
      PROVE  Table!GetAbsent(p, k)
  <2>1. ATable[k] = None /\ ATable' = ATable /\ rec' = rec
    BY <1>6, MappedFrame, Zenon DEF GetMiss, ATable
  <2>2. AAnswer' = [AAnswer EXCEPT ![p] = <<"none">>]
    <3>1. AAnswer'[p] = <<"none">>
      BY <1>6, Zenon DEF GetMiss, Return, AAnswer, Answer, IInv, TypeOK
    <3>2. \A o \in Procs \ {p} : ret'[o] = ret[o]
      BY <1>6, Zenon DEF GetMiss, Return, IInv, TypeOK
    <3>3. QED
      BY <3>1, <3>2, MappedFrame, Zenon
  <2>3. pc' = pc /\ ptr' = ptr
    BY <1>6, Zenon DEF GetMiss, Return, Goto, IInv, TypeOK
  <2>4. AReading' = AReading
    BY <2>3, MappedFrame, Zenon
  <2>5. Table!Quiet(p)
    BY <1>0, <1>6, Zenon DEF GetMiss
  <2>6. QED
    BY <2>1, <2>2, <2>4, <2>5, Zenon DEF Table!GetAbsent, ATable, AReading, AAnswer
<1>7. ASSUME NEW p \in Procs, NEW k \in Conns, GetSearch(p, k)
      PROVE  Table!GetDecide(p, k)
  <2>1. index[k] # None /\ Lookup(index[k]) # None /\ ATable[k] = Lookup(index[k])
    BY <1>7, Zenon DEF GetSearch, ATable, IInv, IndexResolves, LeadsToRecordOf
  <2>2. AReading' = [AReading EXCEPT ![p] = <<ATable[k]>>]
    <3>1. AReading'[p] = <<ATable[k]>>
      BY <1>7, <2>1, Zenon DEF GetSearch, Goto, AReading, Lookup, IInv, TypeOK
    <3>2. \A o \in Procs \ {p} : pc'[o] = pc[o] /\ ptr'[o] = ptr[o]
      BY <1>7, Zenon DEF GetSearch, Goto, IInv, TypeOK
    <3>3. QED
      BY <3>1, <3>2, MappedFrame, Zenon
  <2>3. ATable' = ATable /\ AAnswer' = AAnswer /\ rec' = rec
    BY <1>7, MappedFrame, Zenon DEF GetSearch
  <2>4. Table!Quiet(p)
    BY <1>0, <1>7, Zenon DEF GetSearch
  <2>5. QED
    BY <2>1, <2>2, <2>3, <2>4, Zenon DEF Table!GetDecide, ATable, AReading, AAnswer
<1>8. ASSUME NEW p \in Procs, GetActiveHit(p) \/ GetSealed(p)
      PROVE  Table!GetReturn(p)
  <2>1. /\ pc[p] \in {"active", "sealed"} /\ Lookup(ptr[p]) # None
        /\ ret' = [ret EXCEPT ![p] = Option(Lookup(ptr[p]))]
    BY <1>8, Zenon DEF GetActiveHit, GetSealed, Return, Lookup, Find, IInv, GetInFlightResolves, LeadsToRecordOf
  <2>2. AReading[p] = <<Lookup(ptr[p])>> /\ AReading[p] # <<>> /\ AReading[p][1] = Lookup(ptr[p])
    BY <2>1, Zenon DEF AReading
  <2>3. AAnswer' = [AAnswer EXCEPT ![p] = <<"record", AReading[p][1]>>]
    <3>1. AAnswer'[p] = <<"record", AReading[p][1]>>
      BY <2>1, <2>2, Zenon DEF Option, AAnswer, Answer, IInv, TypeOK
    <3>2. \A o \in Procs \ {p} : ret'[o] = ret[o]
      BY <2>1, Zenon DEF IInv, TypeOK
    <3>3. QED
      BY <3>1, <3>2, MappedFrame, Zenon
  <2>4. AReading' = [AReading EXCEPT ![p] = <<>>]
    <3>1. AReading'[p] = <<>>
      BY <1>8, Zenon DEF GetActiveHit, GetSealed, Return, Goto, AReading, IInv, TypeOK
    <3>2. \A o \in Procs \ {p} : pc'[o] = pc[o] /\ ptr'[o] = ptr[o]
      BY <1>8, Zenon DEF GetActiveHit, GetSealed, Return, Forget, Goto, IInv, TypeOK
    <3>3. QED
      BY <3>1, <3>2, MappedFrame, Zenon
  <2>5. ATable' = ATable /\ rec' = rec
    BY <1>8, MappedFrame, Zenon DEF GetActiveHit, GetSealed
  <2>6. QED
    BY <2>2, <2>3, <2>4, <2>5, Zenon DEF Table!GetReturn, ATable, AReading, AAnswer
<1>9. ASSUME NEW p \in Procs, NEW k \in Conns, Delete(p, k)
      PROVE  Table!DoDelete(p, k)
  <2>1. ATable' = [ATable EXCEPT ![k] = None]
    <3>1. ATable'[k] = None
      BY <1>9, Zenon DEF Delete, ATable, IInv, TypeOK
    <3>2. \A j \in Conns \ {k} : index'[j] = index[j]
      BY <1>9, Zenon DEF Delete, IInv, TypeOK
    <3>3. QED
      BY <3>1, <3>2, MappedFrame, Zenon
  <2>2. AAnswer' = [AAnswer EXCEPT ![p] =
                      IF ATable[k] = None THEN <<"none">> ELSE <<"removed", ATable[k]>>]
    <3>1. index[k] # None => Lookup(index[k]) # None
      BY Zenon DEF IInv, IndexResolves, LeadsToRecordOf
    <3>2. AAnswer'[p] = IF ATable[k] = None THEN <<"none">> ELSE <<"removed", ATable[k]>>
      BY <1>9, <3>1, Zenon DEF Delete, Return, AAnswer, Answer, ATable, Lookup, IInv, TypeOK
    <3>3. \A o \in Procs \ {p} : ret'[o] = ret[o]
      BY <1>9, Zenon DEF Delete, Return, IInv, TypeOK
    <3>4. QED
      BY <3>2, <3>3, MappedFrame, Zenon
  <2>3. pc' = pc /\ ptr' = ptr /\ rec' = rec
    BY <1>9, Zenon DEF Delete, Return, Goto, IInv, TypeOK
  <2>4. AReading' = AReading
    BY <2>3, MappedFrame, Zenon
  <2>5. Table!Quiet(p)
    BY <1>0, <1>9, Zenon DEF Delete
  <2>6. QED
    BY <2>1, <2>2, <2>3, <2>4, <2>5, Zenon DEF Table!DoDelete, ATable, AReading, AAnswer
<1>10. QED
  BY <1>1, <1>2, <1>3, <1>4, <1>5, <1>6, <1>7, <1>8, <1>9, Zenon DEF Next, UpsertStep, GetStep, Table!TNext

\* The storage engine implements the atomic table: every interleaving of its
\* upserts, gets, deletes and rotations is a behaviour in which each call takes
\* effect at a single instant (StorageEngine::upsert, get, delete).
THEOREM EngineImplementsTable == Spec => ImplementsTable
<1>1. Init => RetResolves /\ Table!TInit
  BY DEF Init, RetResolves, Table!TInit, Answer
<1>2. Spec => []RetResolves
  BY <1>1, RetStep, Inductive, PTL DEF Spec
<1>3. QED
  BY <1>1, <1>2, StepRefines, Inductive, PTL DEF Spec, ImplementsTable, Table!TSpec

-----------------------------------------------------------------------------
(***************************************************************************)
(* The Raft storage over the WAL                                           *)
(***************************************************************************)

WalRecord == Entry \cup Marker
Cell == {"crc", "crc2", "len", "data"} \X WalRecord

Larger(a, b) == IF a > b THEN a ELSE b

\* c is the n elements of f behind the first m
Part(c, f, m, n) ==
  c \in Seq(Cell) /\ Len(c) = n /\ \A i \in 1..n : c[i] = f[m + i]

\* g is f with c written from position at on
WrittenTo(g, f, at, c) ==
  /\ g \in Seq(Cell) /\ Len(g) = Larger(at + Len(c), Len(f))
  /\ \A i \in 1..Len(g) : /\ i > at /\ i <= at + Len(c) => g[i] = c[i - at]
                          /\ i <= at \/ i > at + Len(c) => g[i] = f[i]

\* g is d with the n cells from position b on replaced by those of f
Overlaid(g, d, b, f, n) ==
  /\ g \in Seq(Cell) /\ Len(g) = Larger(b + n, Len(d))
  /\ \A i \in 1..Len(g) : /\ i > b /\ i <= b + n => g[i] = f[i]
                          /\ i <= b \/ i > b + n => g[i] = d[i]

\* f and g both have a record at i or neither has, and the same
Alike(f, g, i) == (Whole(f, i) <=> Whole(g, i)) /\ f[i + 1][2] = g[i + 1][2]

\* the number of the record that starts at the j-th place
NumberAt(f, j) == f[j * RecordCells + 1][2].n

\* the first k places of f hold records with numbers up to w, in order
Ordered(f, k, w) ==
  /\ \A j \in 0..(k - 1) : Whole(f, j * RecordCells) /\ NumberAt(f, j) <= w
  /\ \A i, j \in 0..(k - 1) : i < j => NumberAt(f, i) < NumberAt(f, j)

\* the file f, written up to position p, reads as these k records; unless it
\* ends with them, something follows before p that is no record, and that no
\* later write makes one
Reads(f, p, k, w) ==
  /\ k * RecordCells <= p /\ p <= Len(f)
  /\ Ordered(f, k, w)
  /\ ~Whole(f, k * RecordCells)
  /\ p = k * RecordCells => Len(f) = p

\* n cells written to f at p, which read as k records, made it g, which reads
\* as m; whole records behind whole records leave nothing else
Grown(g, p, n, k, m, w) ==
  /\ Reads(g, p + n, m, w)
  /\ p = k * RecordCells /\ n % RecordCells = 0 => p + n = m * RecordCells

\* c is what has been written of the cells of rs
Begins(c, rs) ==
  /\ Len(c) <= Len(rs) * RecordCells
  /\ \A i \in 1..Len(c) : c[i] = AllCells(rs)[i]

\* what a crash leaves if n of the cells since the last sync reach the disk
Image(d, b, f, n) == Write(d, b, SubSeq(f, b + 1, b + n))

FileOK(f, p, d, b, w) ==
  /\ f \in Seq(Cell) /\ d \in Seq(Cell) /\ p \in Nat /\ b \in Nat /\ w \in Nat
  /\ b <= p /\ p <= Len(f) /\ b <= Len(d)
  /\ f = Image(d, b, f, p - b)
  /\ \A n \in 0..(p - b) : \E k \in Nat : Reads(Image(d, b, f, n), b + n, k, w)

\* a file whose writes were never torn holds whole records only, and those of
\* the acknowledged entries a are in the part that was synced
Clean(f, p, d, b, w, a) ==
  /\ \E k \in Nat : Reads(f, p, k, w) /\ p = k * RecordCells
  /\ Len(d) = b /\ \E q \in Nat : b = q * RecordCells
  /\ \A r \in a : \E i \in 1..b : d[i][2] = r

\* the x records of g are all that fit into its p cells, and those of a are among them
AllRead(g, p, x, a) ==
  /\ ~(x * 4 + 4 <= p) /\ Len(g) = p
  /\ \A r \in a : \E j \in 1..x : g[(j - 1) * 4 + 1][2] = r

WInv ==
  /\ hard_state \in Nat
  /\ FileOK(file, pos, disk, base, writes)
  /\ ~torn => Clean(file, pos, disk, base, writes, acked)

-----------------------------------------------------------------------------
\* The numbers of a record.
LEMMA RecordNumbers == \A r \in WalRecord : r.n \in Nat
BY BoundAssumption DEF WalRecord, Entry, Marker

\* The four cells of a record.
LEMMA CellsOf ==
  \A r : /\ Len(Cells(r)) = 4
         /\ Cells(r)[1] = <<"crc", r>> /\ Cells(r)[2] = <<"crc2", r>>
         /\ Cells(r)[3] = <<"len", r>> /\ Cells(r)[4] = <<"data", r>>
         /\ \A c \in 1..4 : Cells(r)[c][2] = r
BY DEF Cells

\* Only the first of them is the start of a checksum.
LEMMA CellKinds ==
  \A r \in WalRecord : /\ Cells(r) \in Seq(Cell)
                       /\ \A c \in 1..4 : Cells(r)[c] \in Cell /\ (Cells(r)[c][1] = "crc" => c = 1)
BY DEF Cells, Cell

\* What a write leaves in the file.
LEMMA Written ==
  ASSUME NEW f \in Seq(Cell), NEW at \in Nat, at <= Len(f), NEW c \in Seq(Cell)
  PROVE  WrittenTo(Write(f, at, c), f, at, c)
<1> DEFINE n == IF at + Len(c) > Len(f) THEN at + Len(c) ELSE Len(f)
<1>1. n \in Nat /\ Len(c) \in Nat /\ Len(f) \in Nat
  OBVIOUS
<1>2. ASSUME NEW i \in 1..n
      PROVE  (IF i > at /\ i <= at + Len(c) THEN c[i - at] ELSE f[i]) \in Cell
  <2>1. CASE i > at /\ i <= at + Len(c)
    <3>1. i - at \in 1..Len(c)
      BY <1>1, <2>1
    <3>2. QED
      BY <3>1, <2>1, ElementOfSeq, Zenon
  <2>2. CASE ~(i > at /\ i <= at + Len(c))
    <3>1. i \in 1..Len(f)
      BY <1>1, <2>2
    <3>2. QED
      BY <3>1, <2>2, ElementOfSeq, Zenon
  <2>3. QED
    BY <2>1, <2>2, Zenon
<1>3. Write(f, at, c) = [i \in 1..n |-> IF i > at /\ i <= at + Len(c) THEN c[i - at] ELSE f[i]]
  BY Zenon DEF Write
<1> HIDE DEF n
<1>4. Write(f, at, c) \in [1..n -> Cell]
  BY <1>2, <1>3, Zenon
<1>5. Write(f, at, c) \in Seq(Cell) /\ Len(Write(f, at, c)) = n
  BY <1>1, <1>4
<1>6. ASSUME NEW i \in 1..n
      PROVE  /\ i > at /\ i <= at + Len(c) => Write(f, at, c)[i] = c[i - at]
             /\ i <= at \/ i > at + Len(c) => Write(f, at, c)[i] = f[i]
  <2>1. i <= at \/ i > at + Len(c) => ~(i > at /\ i <= at + Len(c))
    BY <1>1
  <2>2. QED
    BY <1>3, <2>1, Zenon
<1>7. n = Larger(at + Len(c), Len(f))
  BY Zenon DEF n, Larger
<1>8. QED
  BY <1>5, <1>6, <1>7, Zenon DEF WrittenTo

\* What a part of a sequence of cells is made of.
LEMMA PartOf ==
  ASSUME NEW f \in Seq(Cell), NEW m \in Nat, NEW n \in Nat, m + n <= Len(f)
  PROVE  Part(SubSeq(f, m + 1, m + n), f, m, n)
<1> DEFINE c == SubSeq(f, m + 1, m + n)
<1>1. m + 1 \in Int /\ m + n \in Int
  OBVIOUS
<1>2. \A i \in (m + 1)..(m + n) : f[i] \in Cell
  <2> SUFFICES ASSUME NEW i \in (m + 1)..(m + n) PROVE f[i] \in Cell
    BY Zenon
  <2>1. i \in 1..Len(f)
    OBVIOUS
  <2>2. QED
    BY <2>1, ElementOfSeq, Zenon
<1>3. c \in Seq(Cell) /\ \A i \in 1..((m + n) - (m + 1) + 1) : c[i] = f[(m + 1) + i - 1]
  BY <1>1, <1>2, SubSeqProperties
<1>4. Len(c) = n
  BY <1>1, <1>2, SubSeqProperties
<1> HIDE DEF c
<1>5. ASSUME NEW i \in 1..n PROVE c[i] = f[m + i]
  <2>1. i \in 1..((m + n) - (m + 1) + 1) /\ (m + 1) + i - 1 = m + i
    OBVIOUS
  <2>2. QED
    BY <1>3, <2>1, Zenon
<1>6. QED
  BY <1>3, <1>4, <1>5, Zenon DEF Part, c

\* What a crash leaves, cell by cell.
LEMMA ImageCells ==
  ASSUME NEW f \in Seq(Cell), NEW d \in Seq(Cell), NEW b \in Nat, b <= Len(d),
         NEW n \in Nat, b + n <= Len(f)
  PROVE  Overlaid(Image(d, b, f, n), d, b, f, n)
<1> DEFINE c == SubSeq(f, b + 1, b + n)
<1>1. c \in Seq(Cell) /\ Len(c) = n /\ \A i \in 1..n : c[i] = f[b + i]
  BY PartOf, Zenon DEF Part
<1>2. Image(d, b, f, n) = Write(d, b, c)
  BY Zenon DEF Image
<1> HIDE DEF c
<1>3. \A i \in Nat : i > b /\ i <= b + n => c[i - b] = f[i]
  <2> SUFFICES ASSUME NEW i \in Nat, i > b, i <= b + n PROVE c[i - b] = f[i]
    BY Zenon
  <2>1. i - b \in 1..n /\ b + (i - b) = i
    OBVIOUS
  <2>2. QED
    BY <1>1, <2>1, Zenon
<1>4a. WrittenTo(Write(d, b, c), d, b, c)
  BY <1>1, Written, Zenon
<1>4. /\ Image(d, b, f, n) \in Seq(Cell)
      /\ Len(Image(d, b, f, n)) = Larger(b + n, Len(d))
      /\ \A i \in 1..Len(Image(d, b, f, n)) :
           /\ i > b /\ i <= b + n => Image(d, b, f, n)[i] = c[i - b]
           /\ i <= b \/ i > b + n => Image(d, b, f, n)[i] = d[i]
  BY <1>1, <1>2, <1>4a, Zenon DEF WrittenTo
<1>5. \A i \in 1..Len(Image(d, b, f, n)) : i \in Nat
  OBVIOUS
<1>6. QED
  BY <1>3, <1>4, <1>5, Zenon DEF Overlaid

\* A record in the file, cell by cell.
LEMMA WholeCells ==
  ASSUME NEW f, NEW i
  PROVE  Whole(f, i) <=> /\ i + 4 <= Len(f)
                         /\ \A c \in 1..4 : f[i + c] = Cells(f[i + 1][2])[c]
BY Zenon DEF Whole, RecordCells

\* Files that agree up to a place have the same records before it.
LEMMA WholeAgrees ==
  ASSUME NEW f \in Seq(Cell), NEW g \in Seq(Cell), NEW i \in Nat,
         i + 4 <= Len(f), i + 4 <= Len(g),
         \A x \in 1..(i + 4) : x > i => f[x] = g[x]
  PROVE  Alike(f, g, i)
<1>1. f[i + 1] = g[i + 1] /\ f[i + 2] = g[i + 2] /\ f[i + 3] = g[i + 3] /\ f[i + 4] = g[i + 4]
  OBVIOUS
<1>2. \A c \in 1..4 : f[i + c] = g[i + c]
  BY <1>1
<1>3. Whole(f, i) <=> Whole(g, i)
  BY <1>1, <1>2, WholeCells, Zenon
<1>4. QED
  BY <1>1, <1>3, Zenon DEF Alike

\* Where the start of a checksum stands inside a place, there is no record.
LEMMA NotWhole ==
  ASSUME NEW f \in Seq(Cell), NEW i \in Nat, NEW c \in 2..4, i + c <= Len(f), f[i + c][1] = "crc"
  PROVE  ~Whole(f, i)
<1> SUFFICES ASSUME Whole(f, i) PROVE FALSE
  BY Zenon
<1>1. i + 1 \in 1..Len(f) /\ c \in 1..4 /\ c # 1
  OBVIOUS
<1>2. f[i + 1] \in Cell
  BY <1>1, ElementOfSeq, Zenon
<1>3. f[i + 1][2] \in WalRecord
  BY <1>2, Zenon DEF Cell
<1>4. f[i + c] = Cells(f[i + 1][2])[c]
  BY <1>1, WholeCells, Zenon
<1>5. QED
  BY <1>1, <1>3, <1>4, CellKinds, Zenon

\* The number at a place that is in the file.
LEMMA NumberTypes ==
  ASSUME NEW f \in Seq(Cell), NEW j \in Nat, j * 4 + 1 <= Len(f)
  PROVE  NumberAt(f, j) \in Nat
<1>1. j * 4 + 1 \in 1..Len(f)
  OBVIOUS
<1>2. f[j * 4 + 1] \in Cell
  BY <1>1, ElementOfSeq, Zenon
<1>3. f[j * 4 + 1][2] \in WalRecord
  BY <1>2, Zenon DEF Cell
<1>4. QED
  BY <1>3, RecordNumbers, Zenon DEF NumberAt, RecordCells

\* Writing behind the records of a file leaves them alone.
LEMMA OrderedAgrees ==
  ASSUME NEW f \in Seq(Cell), NEW g \in Seq(Cell), NEW k \in Nat, NEW w \in Nat, NEW v \in Nat,
         w <= v, k * 4 <= Len(f), k * 4 <= Len(g),
         \A x \in 1..(k * 4) : f[x] = g[x],
         Ordered(f, k, w)
  PROVE  /\ Ordered(g, k, v)
         /\ \A j \in 0..(k - 1) : NumberAt(g, j) = NumberAt(f, j) /\ NumberAt(g, j) <= w
<1>1. ASSUME NEW j \in 0..(k - 1)
      PROVE  /\ Whole(g, j * 4) /\ NumberAt(g, j) = NumberAt(f, j)
             /\ NumberAt(g, j) <= w /\ NumberAt(g, j) <= v
  <2>1. /\ j * 4 \in Nat /\ j * 4 + 4 <= k * 4 /\ j \in Nat /\ j * 4 + 1 <= Len(f)
        /\ j * 4 + 4 <= Len(f) /\ j * 4 + 4 <= Len(g)
    OBVIOUS
  <2>2. \A x \in 1..(j * 4 + 4) : x > j * 4 => f[x] = g[x]
    BY <2>1
  <2>3. (Whole(f, j * 4) <=> Whole(g, j * 4)) /\ f[j * 4 + 1][2] = g[j * 4 + 1][2]
    <3>1. Alike(f, g, j * 4)
      BY <2>1, <2>2, WholeAgrees, Zenon
    <3>2. QED
      BY <3>1, Zenon DEF Alike
  <2>4. Whole(f, j * 4) /\ NumberAt(f, j) <= w
    BY Zenon DEF Ordered, RecordCells
  <2>5. NumberAt(g, j) = NumberAt(f, j)
    BY <2>3, Zenon DEF NumberAt, RecordCells
  <2>6. NumberAt(f, j) \in Nat
    BY <2>1, NumberTypes, Zenon
  <2>7. NumberAt(f, j) <= v
    BY <2>4, <2>6
  <2>8. QED
    BY <2>3, <2>4, <2>5, <2>7, Zenon
<1>2. \A i, j \in 0..(k - 1) : i < j => NumberAt(f, i) < NumberAt(f, j)
  BY Zenon DEF Ordered
<1>3. QED
  BY <1>1, <1>2, Zenon DEF Ordered, RecordCells

\* The cells of a list of records, four by four.
LEMMA CellsInTurn ==
  ASSUME NEW rs \in Seq(WalRecord), NEW s \in Nat, s < Len(rs), NEW c \in 1..4
  PROVE  AllCells(rs)[s * 4 + c] = Cells(rs[s + 1])[c]
<1>1. s * 4 + c \in 1..(Len(rs) * 4)
  OBVIOUS
<1>2. (((s * 4 + c) - 1) \div 4) + 1 = s + 1 /\ (((s * 4 + c) - 1) % 4) + 1 = c
  OBVIOUS
<1>3. AllCells(rs)[s * 4 + c] = Cells(rs[(((s * 4 + c) - 1) \div 4) + 1])[(((s * 4 + c) - 1) % 4) + 1]
  <2> DEFINE x == s * 4 + c
  <2> HIDE DEF x
  <2>1. x \in 1..(Len(rs) * 4)
    BY <1>1, Zenon DEF x
  <2>2. AllCells(rs)[x] = Cells(rs[((x - 1) \div 4) + 1])[((x - 1) % 4) + 1]
    BY <2>1, Zenon DEF AllCells, RecordCells
  <2>3. QED
    BY <2>2, Zenon DEF x
<1>4. QED
  BY <1>2, <1>3, Zenon

\* Writing records, or the beginning of one, keeps the file readable: behind
\* the last record they extend it, and behind anything else they are not read.
LEMMA Extended ==
  ASSUME NEW f \in Seq(Cell), NEW p \in Nat, NEW k \in Nat, NEW w \in Nat, Reads(f, p, k, w),
         NEW rs \in Seq(WalRecord), \A j \in 1..Len(rs) : rs[j].n = w + j,
         NEW c \in Seq(Cell), Begins(c, rs)
  PROVE  \E m \in Nat : Grown(Write(f, p, c), p, Len(c), k, m, w + Len(rs))
<1> DEFINE g == Write(f, p, c)
<1>0. /\ k * 4 <= p /\ p <= Len(f) /\ Ordered(f, k, w) /\ ~Whole(f, k * 4)
      /\ p = k * 4 => Len(f) = p
  BY Zenon DEF Reads, RecordCells
<1>1. /\ g \in Seq(Cell) /\ Len(g) = Larger(p + Len(c), Len(f))
      /\ \A i \in 1..Len(g) : /\ i > p /\ i <= p + Len(c) => g[i] = c[i - p]
                              /\ i <= p \/ i > p + Len(c) => g[i] = f[i]
  <2>1. WrittenTo(g, f, p, c)
    BY <1>0, Written, Zenon
  <2>2. QED
    BY <2>1, Zenon DEF WrittenTo
<1>2. Len(f) \in Nat /\ Len(c) \in Nat /\ Len(rs) \in Nat /\ Len(g) \in Nat
  BY <1>1
<1>3. Len(c) <= Len(rs) * 4 /\ \A i \in 1..Len(c) : c[i] = AllCells(rs)[i]
  BY Zenon DEF Begins, RecordCells
<1> HIDE DEF g
<1>1a. g \in Seq(Cell) /\ Len(g) = Larger(p + Len(c), Len(f))
  BY <1>1, Zenon
<1>4a. Len(g) >= Len(f) /\ Len(g) >= p + Len(c)
  BY <1>0, <1>1a, <1>2 DEF Larger
<1>4b. ASSUME NEW i \in 1..p PROVE g[i] = f[i]
  <2>1. i \in 1..Len(g) /\ i <= p
    BY <1>0, <1>2, <1>4a
  <2>2. QED
    BY <1>1, <2>1, Zenon
<1>4. Len(g) >= Len(f) /\ Len(g) >= p + Len(c) /\ \A i \in 1..p : g[i] = f[i]
  BY <1>4a, <1>4b, Zenon
<1>5. /\ Ordered(g, k, w + Len(rs))
      /\ \A j \in 0..(k - 1) : NumberAt(g, j) <= w
  <2>1. \A x \in 1..(k * 4) : f[x] = g[x]
    BY <1>0, <1>4
  <2>2. k * 4 <= Len(f) /\ k * 4 <= Len(g) /\ w + Len(rs) \in Nat /\ w <= w + Len(rs)
    BY <1>0, <1>2, <1>4
  <2>3. QED
    BY <1>0, <1>1, <2>1, <2>2, OrderedAgrees, Zenon
<1>6. CASE p # k * 4
  <2>1. p > k * 4
    <3>1. k * 4 <= p
      BY <1>0, Zenon
    <3>2. k * 4 \in Nat
      OBVIOUS
    <3>3. QED
      BY <1>6, <3>1, <3>2
  <2>2. ~Whole(g, k * 4)
    <3>1. CASE p >= k * 4 + 4
      <4>1. k * 4 \in Nat /\ k * 4 + 4 <= Len(f) /\ k * 4 + 4 <= Len(g)
        BY <1>0, <1>2, <1>4, <3>1
      <4>2. \A x \in 1..(k * 4 + 4) : x > k * 4 => f[x] = g[x]
        BY <1>4, <3>1
      <4>3. Alike(f, g, k * 4)
        BY <1>1a, <4>1, <4>2, WholeAgrees, Zenon
      <4>4. QED
        BY <1>0, <4>3, Zenon DEF Alike
    <3>2. CASE p < k * 4 + 4 /\ Len(c) > 0
      <4>1. p + 1 - k * 4 \in 2..4 /\ k * 4 + (p + 1 - k * 4) = p + 1 /\ p + 1 <= Len(g) /\ k * 4 \in Nat
        <5>1. k * 4 \in Nat
          OBVIOUS
        <5>2. k * 4 < p /\ p < k * 4 + 4 /\ Len(c) > 0
          BY <2>1, <3>2, Zenon
        <5>3. p + 1 - k * 4 \in 2..4 /\ k * 4 + (p + 1 - k * 4) = p + 1
          BY <5>1, <5>2
        <5>4. p + 1 <= Len(g)
          BY <1>2, <1>4a, <5>2
        <5>5. QED
          BY <5>1, <5>3, <5>4, Zenon
      <4>2. g[p + 1] = c[1]
        BY <1>1, <1>2, <4>1, <3>2
      <4>3. 0 \in Nat /\ 0 < Len(rs) /\ 1 \in 1..4 /\ 0 * 4 + 1 = 1 /\ 0 + 1 = 1 /\ 1 \in 1..Len(c)
        BY <1>2, <1>3, <3>2
      <4>4. AllCells(rs)[0 * 4 + 1] = Cells(rs[0 + 1])[1]
        BY <4>3, CellsInTurn, Zenon
      <4>5. c[1] = Cells(rs[1])[1]
        BY <1>3, <4>3, <4>4, Zenon
      <4>6. Cells(rs[1])[1] = <<"crc", rs[1]>>
        BY CellsOf, Zenon
      <4>7. g[k * 4 + (p + 1 - k * 4)][1] = "crc"
        <5>1. <<"crc", rs[1]>>[1] = "crc"
          OBVIOUS
        <5>2. g[p + 1][1] = "crc"
          BY <4>2, <4>5, <4>6, <5>1, Zenon
        <5>3. QED
          BY <4>1, <5>2, Zenon
      <4>8. k * 4 + (p + 1 - k * 4) <= Len(g)
        BY <4>1, Zenon
      <4>9. QED
        BY <1>1, <4>1, <4>7, <4>8, NotWhole, Zenon
    <3>3. CASE Len(c) = 0
      <4>1. Len(g) = Len(f)
        BY <1>0, <1>1a, <1>2, <3>3 DEF Larger
      <4>2. \A i \in 1..Len(g) : g[i] = f[i]
        BY <1>1, <1>2, <3>3
      <4>3. g = f
        BY <1>1a, <4>1, <4>2, SeqEqual, Zenon
      <4>4. QED
        BY <1>0, <4>3, Zenon
    <3>4. QED
      BY <1>2, <3>1, <3>2, <3>3
  <2>3. k * 4 <= p + Len(c) /\ p + Len(c) <= Len(g) /\ p + Len(c) # k * 4
    BY <1>0, <1>2, <1>4, <2>1
  <2>4. Reads(g, p + Len(c), k, w + Len(rs))
    BY <1>5, <2>2, <2>3, Zenon DEF Reads, RecordCells
  <2>5. QED
    BY <1>6, <2>4, Zenon DEF g, Grown, RecordCells
<1>7. CASE p = k * 4
  <2> DEFINE q == Len(c) \div 4
  <2>1. /\ q \in Nat /\ q * 4 <= Len(c) /\ Len(c) < q * 4 + 4 /\ q <= Len(rs)
        /\ Len(g) = p + Len(c) /\ Len(f) = p /\ (Len(c) % 4 = 0 => Len(c) = q * 4)
    <3>1. /\ q \in Nat /\ q * 4 <= Len(c) /\ Len(c) < q * 4 + 4
          /\ Len(c) % 4 = 0 => Len(c) = q * 4
      BY <1>2
    <3> HIDE DEF q
    <3>2. Len(f) = p
      BY <1>0, <1>7, Zenon
    <3>3. Len(c) <= Len(rs) * 4
      BY <1>3, Zenon
    <3>4. Len(g) = p + Len(c) /\ q <= Len(rs)
      BY <1>1a, <1>2, <3>1, <3>2, <3>3, SMTT(30) DEF Larger
    <3>5. QED
      BY <3>1, <3>2, <3>4, Zenon
  <2> HIDE DEF q
  <2>2. ASSUME NEW j \in k..((k + q) - 1)
        PROVE  Whole(g, j * 4) /\ NumberAt(g, j) = w + (j - k + 1)
    <3>1. /\ j - k \in Nat /\ j - k < Len(rs) /\ j * 4 + 4 <= Len(g)
          /\ (j - k) * 4 + 4 <= Len(c) /\ j * 4 = p + (j - k) * 4 /\ j - k + 1 \in 1..Len(rs)
      BY <1>2, <1>7, <2>1, SMTT(30)
    <3>2. ASSUME NEW i \in 1..4 PROVE g[j * 4 + i] = Cells(rs[j - k + 1])[i]
      <4>1. /\ j * 4 + i \in 1..Len(g) /\ j * 4 + i > p /\ j * 4 + i <= p + Len(c)
            /\ (j * 4 + i) - p = (j - k) * 4 + i /\ (j - k) * 4 + i \in 1..Len(c)
        BY <1>2, <3>1, <2>1, SMTT(30)
      <4>2. g[j * 4 + i] = c[(j - k) * 4 + i]
        <5>1. g[j * 4 + i] = c[(j * 4 + i) - p]
          BY <1>1, <4>1, Zenon
        <5>2. QED
          BY <4>1, <5>1, Zenon
      <4>3. c[(j - k) * 4 + i] = AllCells(rs)[(j - k) * 4 + i]
        BY <1>3, <4>1, Zenon
      <4>4. AllCells(rs)[(j - k) * 4 + i] = Cells(rs[j - k + 1])[i]
        BY <3>1, CellsInTurn, Zenon
      <4>5. QED
        BY <4>2, <4>3, <4>4, Zenon
    <3>3. g[j * 4 + 1][2] = rs[j - k + 1]
      <4>1. 1 \in 1..4
        OBVIOUS
      <4>2. g[j * 4 + 1] = <<"crc", rs[j - k + 1]>>
        BY <3>2, <4>1, CellsOf, Zenon
      <4>3. QED
        BY <4>2
    <3>4. Whole(g, j * 4)
      BY <3>1, <3>2, <3>3, WholeCells, Zenon
    <3>5. NumberAt(g, j) = rs[j - k + 1].n
      BY <3>3, Zenon DEF NumberAt, RecordCells
    <3>6. QED
      BY <3>1, <3>4, <3>5, Zenon
  <2>3. ASSUME NEW j \in 0..((k + q) - 1)
        PROVE  /\ Whole(g, j * 4) /\ NumberAt(g, j) <= w + Len(rs)
               /\ NumberAt(g, j) \in Nat
    <3>1. CASE j < k
      <4>1. j \in 0..(k - 1) /\ j \in Nat /\ j * 4 + 1 <= Len(g)
        BY <3>1, <1>2, <1>4, <1>7, SMTT(30)
      <4>2. Whole(g, j * 4) /\ NumberAt(g, j) <= w + Len(rs)
        BY <4>1, <1>5, Zenon DEF Ordered, RecordCells
      <4>3. QED
        BY <1>1, <4>1, <4>2, NumberTypes, Zenon
    <3>2. CASE j >= k
      <4>1. j \in k..((k + q) - 1) /\ w + (j - k + 1) <= w + Len(rs) /\ w + (j - k + 1) \in Nat
        BY <3>2, <2>1, <1>2
      <4>2. QED
        BY <2>2, <4>1, Zenon
    <3>3. QED
      BY <3>1, <3>2
  <2>4. ASSUME NEW i \in 0..((k + q) - 1), NEW j \in 0..((k + q) - 1), i < j
        PROVE  NumberAt(g, i) < NumberAt(g, j)
    <3>1. CASE j < k
      <4>1. i \in 0..(k - 1) /\ j \in 0..(k - 1)
        BY <2>4, <3>1
      <4>2. QED
        BY <2>4, <4>1, <1>5, Zenon DEF Ordered
    <3>2. CASE i < k /\ j >= k
      <4>1. i \in 0..(k - 1) /\ j \in k..((k + q) - 1)
        BY <3>2
      <4>2. NumberAt(g, i) <= w /\ NumberAt(g, j) = w + (j - k + 1)
        BY <4>1, <1>5, <2>2, Zenon
      <4>3. NumberAt(g, i) \in Nat
        BY <2>3, Zenon
      <4>4. QED
        BY <3>2, <4>2, <4>3
    <3>3. CASE i >= k
      <4>1. i \in k..((k + q) - 1) /\ j \in k..((k + q) - 1)
        BY <2>4, <3>3
      <4>2. NumberAt(g, i) = w + (i - k + 1) /\ NumberAt(g, j) = w + (j - k + 1)
        BY <4>1, <2>2, Zenon
      <4>3. QED
        BY <2>4, <4>2
    <3>4. QED
      BY <3>1, <3>2, <3>3
  <2>5. Ordered(g, k + q, w + Len(rs))
    BY <2>3, <2>4, Zenon DEF Ordered, RecordCells
  <2>6. (k + q) * 4 <= p + Len(c) /\ p + Len(c) <= Len(g) /\ ~((k + q) * 4 + 4 <= Len(g)) /\ k + q \in Nat
    BY <1>2, <1>7, <2>1
  <2>7. ~Whole(g, (k + q) * 4)
    BY <2>6, WholeCells, Zenon
  <2>8. Reads(g, p + Len(c), k + q, w + Len(rs))
    BY <2>1, <2>5, <2>6, <2>7, Zenon DEF Reads, RecordCells
  <2>9. Len(c) % 4 = 0 => p + Len(c) = (k + q) * 4
    <3> SUFFICES ASSUME Len(c) % 4 = 0 PROVE p + Len(c) = (k + q) * 4
      BY Zenon
    <3>1. Len(c) = q * 4
      BY <2>1, Zenon
    <3>2. k * 4 + q * 4 = (k + q) * 4
      BY <2>1
    <3>3. QED
      BY <1>7, <3>1, <3>2, Zenon
  <2>10. QED
    BY <2>6, <2>8, <2>9, Zenon DEF g, Grown, RecordCells
<1>8. QED
  BY <1>6, <1>7, Zenon

\* read_all takes as many turns as there are records.
LEMMA TurnsAre ==
  ASSUME NEW f \in Seq(Cell), NEW p \in Nat, NEW k \in Nat, NEW w \in Nat, Reads(f, p, k, w)
  PROVE  Turns(f) = k
<1> DEFINE Ends(x) == ~Whole(f, x * 4) /\ \A j \in 0..(x - 1) : Whole(f, j * 4)
<1>1. k * 4 <= p /\ p <= Len(f) /\ Ends(k)
  BY Zenon DEF Reads, Ordered, RecordCells
<1>2. k \in 0..Len(f)
  BY <1>1
<1>3. Turns(f) = CHOOSE x \in 0..Len(f) : Ends(x)
  BY Zenon DEF Turns, RecordCells
<1>4. Turns(f) \in 0..Len(f) /\ Ends(Turns(f))
  <2> HIDE DEF Ends
  <2>1. QED
    BY <1>1, <1>2, <1>3, Zenon
<1>5. ASSUME NEW x \in Nat, NEW y \in Nat, Ends(x), Ends(y), x < y
      PROVE  FALSE
  <2>1. x \in 0..(y - 1)
    BY <1>5
  <2>2. QED
    BY <2>1, <1>5, Zenon
<1>6. Turns(f) \in Nat
  BY <1>4
<1> HIDE DEF Ends
<1>7. ~(Turns(f) < k) /\ ~(k < Turns(f))
  BY <1>1, <1>4, <1>5, <1>6, Zenon
<1>8. QED
  BY <1>6, <1>7

\* What read_all returns, and that the file can be written on from wherever it
\* leaves the position.
LEMMA ReadAllOf ==
  ASSUME NEW f \in Seq(Cell), NEW p \in Nat, NEW k \in Nat, NEW w \in Nat, Reads(f, p, k, w)
  PROVE  /\ ReadAll(f).entries = [j \in 1..k |-> f[(j - 1) * 4 + 1][2]]
         /\ \A e \in ReadAll(f).ends : e \in Nat /\ Reads(f, e, k, w)
         /\ Len(f) = k * 4 => ReadAll(f).ends = {Len(f)}
<1>0. Turns(f) = k
  BY TurnsAre, Zenon
<1>1. /\ ReadAll(f).entries = [j \in 1..k |-> f[(j - 1) * 4 + 1][2]]
      /\ ReadAll(f).ends = IF Len(f) - k * 4 < 2 THEN {Len(f)} ELSE StopsAt(f, k * 4)
  BY <1>0, Zenon DEF ReadAll, RecordCells
<1>2. k * 4 <= p /\ p <= Len(f) /\ Ordered(f, k, w) /\ ~Whole(f, k * 4) /\ Len(f) \in Nat
  BY DEF Reads, RecordCells
<1>3. StopsAt(f, k * 4) = IF k * 4 + 3 > Len(f) THEN {Len(f)}
                          ELSE IF f[k * 4 + 3][1] # "len" THEN (k * 4 + 3)..Len(f)
                          ELSE IF k * 4 + 4 > Len(f) THEN {Len(f)}
                          ELSE {k * 4 + 4}
  BY Zenon DEF StopsAt, RecordCells
<1>4. ASSUME NEW e \in ReadAll(f).ends
      PROVE  e \in Nat /\ k * 4 <= e /\ e <= Len(f) /\ (e = k * 4 => Len(f) = e)
  <2>1. e = Len(f) \/ (Len(f) - k * 4 >= 2 /\ e \in StopsAt(f, k * 4))
    BY <1>1, <1>2
  <2>2. CASE e = Len(f)
    BY <2>2, <1>2
  <2>3. CASE Len(f) - k * 4 >= 2 /\ e \in StopsAt(f, k * 4)
    <3>1. e = Len(f) \/ e \in (k * 4 + 3)..Len(f) \/ (e = k * 4 + 4 /\ ~(k * 4 + 4 > Len(f)))
      BY <2>3, <1>3, Zenon
    <3>2. QED
      BY <1>2, <3>1
  <2>4. QED
    BY <2>1, <2>2, <2>3, Zenon
<1>5. \A e \in ReadAll(f).ends : e \in Nat /\ Reads(f, e, k, w)
  BY <1>2, <1>4, Zenon DEF Reads, RecordCells
<1>6. Len(f) = k * 4 => Len(f) - k * 4 < 2
  BY <1>2
<1>7. QED
  BY <1>1, <1>5, <1>6, Zenon

\* A file that reads well is in order when everything in it is synced.
LEMMA SyncedFile ==
  ASSUME NEW f \in Seq(Cell), NEW p \in Nat, NEW k \in Nat, NEW w \in Nat, Reads(f, p, k, w)
  PROVE  FileOK(f, p, f, p, w)
<1>1. p <= Len(f) /\ Len(f) \in Nat /\ p + 0 = p /\ p - p = 0 /\ 0 \in Nat
  BY DEF Reads
<1>2. /\ Image(f, p, f, 0) \in Seq(Cell)
      /\ Len(Image(f, p, f, 0)) = Larger(p + 0, Len(f))
      /\ \A i \in 1..Len(Image(f, p, f, 0)) :
           /\ i > p /\ i <= p + 0 => Image(f, p, f, 0)[i] = f[i]
           /\ i <= p \/ i > p + 0 => Image(f, p, f, 0)[i] = f[i]
  <2>1. p + 0 <= Len(f)
    BY <1>1, Zenon
  <2>2. Overlaid(Image(f, p, f, 0), f, p, f, 0)
    BY <1>1, <2>1, ImageCells, Zenon
  <2>3. QED
    BY <2>2, Zenon DEF Overlaid
<1>3. Image(f, p, f, 0) = f
  <2>1. Len(Image(f, p, f, 0)) = Len(f)
    BY <1>1, <1>2 DEF Larger
  <2>2. \A i \in 1..Len(f) : Image(f, p, f, 0)[i] = f[i]
    BY <1>1, <1>2, <2>1
  <2>3. QED
    BY <1>2, <2>1, <2>2, SeqEqual, Zenon
<1>4. ASSUME NEW n \in 0..0 PROVE Reads(Image(f, p, f, n), p + n, k, w)
  <2>1. n = 0
    OBVIOUS
  <2>2. QED
    BY <1>1, <1>3, <2>1, Zenon
<1>5. \A n \in 0..(p - p) : \E x \in Nat : Reads(Image(f, p, f, n), p + n, x, w)
  BY <1>1, <1>4, Zenon
<1>6. f = Image(f, p, f, p - p)
  BY <1>1, <1>3, Zenon
<1>7. p <= p
  OBVIOUS
<1>8. QED
  BY <1>1, <1>5, <1>6, <1>7, Zenon DEF FileOK

\* What FileOK says of the file, and of what a crash leaves of it.
LEMMA FileFacts ==
  ASSUME NEW f, NEW p, NEW d, NEW b, NEW w, FileOK(f, p, d, b, w)
  PROVE  /\ f \in Seq(Cell) /\ d \in Seq(Cell) /\ p \in Nat /\ b \in Nat /\ w \in Nat
         /\ b <= p /\ p <= Len(f) /\ b <= Len(d) /\ Len(f) \in Nat /\ Len(d) \in Nat
         /\ Len(f) = Larger(p, Len(d))
         /\ \A i \in 1..Len(f) : i <= b \/ i > p => f[i] = d[i]
         /\ \E k \in Nat : Reads(f, p, k, w)
<1>1. /\ f \in Seq(Cell) /\ d \in Seq(Cell) /\ p \in Nat /\ b \in Nat /\ w \in Nat
      /\ b <= p /\ p <= Len(f) /\ b <= Len(d)
      /\ f = Image(d, b, f, p - b)
  BY Zenon DEF FileOK
<1>2. Len(f) \in Nat /\ Len(d) \in Nat
  BY <1>1
<1>3. p - b \in Nat /\ b + (p - b) = p /\ p - b \in 0..(p - b) /\ b + (p - b) <= Len(f)
  BY <1>1, <1>2
<1>4. /\ Len(Image(d, b, f, p - b)) = Larger(b + (p - b), Len(d))
      /\ \A i \in 1..Len(Image(d, b, f, p - b)) :
           /\ i > b /\ i <= b + (p - b) => Image(d, b, f, p - b)[i] = f[i]
           /\ i <= b \/ i > b + (p - b) => Image(d, b, f, p - b)[i] = d[i]
  <2>1. Overlaid(Image(d, b, f, p - b), d, b, f, p - b)
    BY <1>1, <1>3, ImageCells, Zenon
  <2>2. QED
    BY <2>1, Zenon DEF Overlaid
<1>5. Len(f) = Larger(p, Len(d))
  BY <1>1, <1>3, <1>4, Zenon
<1>7. \A i \in 1..Len(f) : i <= b \/ i > p => f[i] = d[i]
  BY <1>1, <1>3, <1>4, Zenon
<1>8. \E k \in Nat : Reads(Image(d, b, f, p - b), b + (p - b), k, w)
  BY <1>3, Zenon DEF FileOK
<1>9. \E k \in Nat : Reads(f, p, k, w)
  BY <1>1, <1>3, <1>8, Zenon
<1>10. QED
  BY <1>1, <1>2, <1>5, <1>7, <1>9, Zenon

\* Writing records, or the beginning of one, keeps the file in order.
LEMMA WriteKeeps ==
  ASSUME NEW f, NEW p, NEW d, NEW b, NEW w, FileOK(f, p, d, b, w),
         NEW rs \in Seq(WalRecord), \A j \in 1..Len(rs) : rs[j].n = w + j,
         NEW c \in Seq(Cell), Begins(c, rs)
  PROVE  FileOK(Write(f, p, c), p + Len(c), d, b, w + Len(rs))
<1> DEFINE g == Write(f, p, c)
           v == w + Len(rs)
           q == p + Len(c)
<1>1. /\ f \in Seq(Cell) /\ d \in Seq(Cell) /\ p \in Nat /\ b \in Nat /\ w \in Nat
      /\ b <= p /\ p <= Len(f) /\ b <= Len(d) /\ Len(f) \in Nat /\ Len(d) \in Nat
      /\ Len(f) = Larger(p, Len(d))
  BY FileFacts, ZenonT(40)
<1>2. \A i \in 1..Len(f) : i <= b \/ i > p => f[i] = d[i]
  BY FileFacts, SMTT(30)
<1>3. PICK k \in Nat : Reads(f, p, k, w)
  BY FileFacts, Zenon
<1>4. /\ g \in Seq(Cell) /\ Len(g) = Larger(q, Len(f))
      /\ \A i \in 1..Len(g) : /\ i > p /\ i <= q => g[i] = c[i - p]
                              /\ i <= p \/ i > q => g[i] = f[i]
  <2>1. WrittenTo(g, f, p, c)
    BY <1>1, Written, Zenon
  <2>2. QED
    BY <2>1, Zenon DEF WrittenTo
<1>5. Len(c) \in Nat /\ Len(g) \in Nat /\ q \in Nat /\ v \in Nat /\ w <= v /\ Len(rs) \in Nat
      /\ q = p + Len(c)
  BY <1>1, <1>4
<1> HIDE DEF g, q
<1>6. /\ g \in Seq(Cell) /\ Len(g) = Larger(q, Len(f))
  BY <1>4, Zenon
<1>7. q <= Len(g) /\ b <= q /\ Len(f) <= Len(g) /\ Len(g) = Larger(q, Len(d))
  BY <1>1, <1>5, <1>6 DEF Larger
<1>8. \A i \in 1..Len(f) : i <= p \/ i > q => g[i] = f[i]
  <2> SUFFICES ASSUME NEW i \in 1..Len(f), i <= p \/ i > q PROVE g[i] = f[i]
    BY Zenon
  <2>1. i \in 1..Len(g)
    BY <1>1, <1>5, <1>7, SMTT(30)
  <2>2. QED
    BY <1>4, <2>1, Zenon
<1>9. g = Image(d, b, g, q - b)
  <2>1. q - b \in Nat /\ b + (q - b) = q /\ b + (q - b) <= Len(g)
    BY <1>1, <1>5, <1>7
  <2>2. /\ Image(d, b, g, q - b) \in Seq(Cell)
        /\ Len(Image(d, b, g, q - b)) = Larger(q, Len(d))
        /\ \A i \in 1..Len(Image(d, b, g, q - b)) :
             /\ i > b /\ i <= q => Image(d, b, g, q - b)[i] = g[i]
             /\ i <= b \/ i > q => Image(d, b, g, q - b)[i] = d[i]
    <3>1. Overlaid(Image(d, b, g, q - b), d, b, g, q - b)
      BY <1>1, <1>6, <2>1, ImageCells, Zenon
    <3>2. QED
      BY <2>1, <3>1, Zenon DEF Overlaid
  <2>3. Len(Image(d, b, g, q - b)) = Len(g)
    BY <1>7, <2>2, Zenon
  <2>4. ASSUME NEW i \in 1..Len(g), i <= b \/ i > q PROVE g[i] = d[i]
    <3>1. i \in 1..Len(f) /\ (i <= p \/ i > q) /\ (i <= b \/ i > p)
      BY <1>1, <1>5, <1>6, <2>4, SMTT(30) DEF Larger
    <3>2. QED
      BY <1>2, <1>8, <3>1, Zenon
  <2>4a. \A i \in 1..Len(g) : (i > b /\ i <= q) \/ i <= b \/ i > q
    BY <1>1, <1>5
  <2>5. \A i \in 1..Len(g) : Image(d, b, g, q - b)[i] = g[i]
    BY <2>2, <2>3, <2>4, <2>4a, Zenon
  <2>6. QED
    BY <1>6, <2>2, <2>3, <2>5, SeqEqual, Zenon
<1>10. ASSUME NEW n \in 0..(q - b), n <= p - b
       PROVE  \E x \in Nat : Reads(Image(d, b, g, n), b + n, x, v)
  <2>1. n \in Nat /\ b + n <= p /\ b + n <= Len(f) /\ b + n <= Len(g) /\ n \in 0..(p - b)
    BY <1>1, <1>5, <1>7, <1>10, SMTT(30)
  <2>2. /\ Image(d, b, g, n) \in Seq(Cell)
        /\ Len(Image(d, b, g, n)) = Larger(b + n, Len(d))
        /\ \A i \in 1..Len(Image(d, b, g, n)) :
             /\ i > b /\ i <= b + n => Image(d, b, g, n)[i] = g[i]
             /\ i <= b \/ i > b + n => Image(d, b, g, n)[i] = d[i]
    <3>1. Overlaid(Image(d, b, g, n), d, b, g, n)
      BY <1>1, <1>6, <2>1, ImageCells, Zenon
    <3>2. QED
      BY <3>1, Zenon DEF Overlaid
  <2>3. /\ Image(d, b, f, n) \in Seq(Cell)
        /\ Len(Image(d, b, f, n)) = Larger(b + n, Len(d))
        /\ \A i \in 1..Len(Image(d, b, f, n)) :
             /\ i > b /\ i <= b + n => Image(d, b, f, n)[i] = f[i]
             /\ i <= b \/ i > b + n => Image(d, b, f, n)[i] = d[i]
    <3>1. Overlaid(Image(d, b, f, n), d, b, f, n)
      BY <1>1, <2>1, ImageCells, Zenon
    <3>2. QED
      BY <3>1, Zenon DEF Overlaid
  <2>4. ASSUME NEW i \in 1..Len(Image(d, b, f, n)), i > b, i <= b + n PROVE g[i] = f[i]
    <3>1. i \in 1..Len(f) /\ i <= p
      <4>1. Len(Image(d, b, f, n)) \in Nat
        BY <2>3
      <4>2. QED
        BY <1>1, <2>1, <2>4, <4>1, SMTT(30)
    <3>2. QED
      BY <1>8, <3>1, Zenon
  <2>5. Len(Image(d, b, g, n)) = Len(Image(d, b, f, n))
    BY <2>2, <2>3, Zenon
  <2>6. \A i \in 1..Len(Image(d, b, f, n)) : Image(d, b, g, n)[i] = Image(d, b, f, n)[i]
    <3>1. \A i \in 1..Len(Image(d, b, f, n)) : (i > b /\ i <= b + n) \/ i <= b \/ i > b + n
      BY <1>1, <2>1
    <3>2. QED
      BY <2>2, <2>3, <2>4, <2>5, <3>1, Zenon
  <2>7. Image(d, b, g, n) = Image(d, b, f, n)
    BY <2>2, <2>3, <2>5, <2>6, SeqEqual, Zenon
  <2>8. PICK x \in Nat : Reads(Image(d, b, f, n), b + n, x, w)
    BY <2>1, Zenon DEF FileOK
  <2>9. Reads(Image(d, b, f, n), b + n, x, v)
    <3>1. x * 4 <= b + n /\ b + n <= Len(Image(d, b, f, n)) /\ Ordered(Image(d, b, f, n), x, w)
      BY <2>8, Zenon DEF Reads, RecordCells
    <3>2. x * 4 <= Len(Image(d, b, f, n))
      BY <1>1, <2>1, <2>3, <3>1, SMTT(30)
    <3>3. Ordered(Image(d, b, f, n), x, v)
      BY <1>1, <1>5, <2>3, <3>1, <3>2, OrderedAgrees, ZenonT(40)
    <3>4. QED
      BY <2>8, <3>3, Zenon DEF Reads
  <2>10. QED
    BY <2>7, <2>9, Zenon
<1>11. ASSUME NEW n \in 0..(q - b), ~(n <= p - b)
       PROVE  \E x \in Nat : Reads(Image(d, b, g, n), b + n, x, v)
  <2> DEFINE m == n - (p - b)
             e == SubSeq(c, 1, m)
  <2>1. /\ n \in Nat /\ m \in 1..Len(c) /\ b + n <= q /\ b + n <= Len(g)
        /\ p + m = b + n /\ b + n > p
    BY <1>1, <1>5, <1>7, <1>11, SMTT(30)
  <2> HIDE DEF m
  <2>2. e \in Seq(Cell) /\ Len(e) = m /\ \A i \in 1..m : e[i] = c[i]
    BY <1>5, <2>1, SMTT(30)
  <2> HIDE DEF e
  <2>3. Begins(e, rs)
    <3>1. Len(c) <= Len(rs) * 4 /\ \A i \in 1..Len(c) : c[i] = AllCells(rs)[i]
      BY Zenon DEF Begins, RecordCells
    <3>2. Len(e) <= Len(rs) * 4 /\ \A i \in 1..m : i \in 1..Len(c)
      BY <1>5, <2>1, <2>2, <3>1
    <3>3. QED
      BY <2>2, <3>1, <3>2, Zenon DEF Begins, RecordCells
  <2>4a. \E x \in Nat : Grown(Write(f, p, e), p, Len(e), k, x, v)
    BY <1>1, <1>3, <2>2, <2>3, Extended, Zenon
  <2>4. PICK x \in Nat : Reads(Write(f, p, e), p + Len(e), x, v)
    BY <2>4a, Zenon DEF Grown
  <2>5. /\ Write(f, p, e) \in Seq(Cell)
        /\ Len(Write(f, p, e)) = Larger(p + m, Len(f))
        /\ \A i \in 1..Len(Write(f, p, e)) :
             /\ i > p /\ i <= p + m => Write(f, p, e)[i] = e[i - p]
             /\ i <= p \/ i > p + m => Write(f, p, e)[i] = f[i]
    <3>1. WrittenTo(Write(f, p, e), f, p, e)
      BY <1>1, <2>2, Written, Zenon
    <3>2. QED
      BY <2>2, <3>1, Zenon DEF WrittenTo
  <2>6. /\ Image(d, b, g, n) \in Seq(Cell)
        /\ Len(Image(d, b, g, n)) = Larger(b + n, Len(d))
        /\ \A i \in 1..Len(Image(d, b, g, n)) :
             /\ i > b /\ i <= b + n => Image(d, b, g, n)[i] = g[i]
             /\ i <= b \/ i > b + n => Image(d, b, g, n)[i] = d[i]
    <3>1. Overlaid(Image(d, b, g, n), d, b, g, n)
      BY <1>1, <1>6, <2>1, ImageCells, Zenon
    <3>2. QED
      BY <3>1, Zenon DEF Overlaid
  <2>7. Len(Write(f, p, e)) = Len(Image(d, b, g, n))
    <3>1. Len(Write(f, p, e)) = Larger(p + m, Len(f))
      BY <2>5, Zenon
    <3>2. Len(Image(d, b, g, n)) = Larger(b + n, Len(d))
      BY <2>6, Zenon
    <3>3. QED
      <4>1. Len(f) = Larger(p, Len(d)) /\ p + m = b + n /\ b + n > p
        BY <1>1, <2>1, Zenon
      <4>2. p \in Nat /\ b + n \in Nat /\ Len(d) \in Nat
        BY <1>1, <2>1
      <4>3. Larger(b + n, Larger(p, Len(d))) = Larger(b + n, Len(d))
        BY <4>1, <4>2 DEF Larger
      <4>4. QED
        BY <3>1, <3>2, <4>1, <4>3, Zenon
  <2>8. ASSUME NEW i \in 1..Len(Write(f, p, e))
        PROVE  Write(f, p, e)[i] = Image(d, b, g, n)[i]
    <3>0. i \in Nat /\ i >= 1 /\ i <= Len(Write(f, p, e)) /\ Len(Write(f, p, e)) \in Nat
      BY <2>5
    <3>1. CASE i > p /\ i <= b + n
      <4>1. i > b /\ i - p \in 1..m /\ i \in 1..Len(g) /\ i <= q /\ i <= p + m
        BY <1>1, <1>5, <2>1, <3>0, <3>1, SMTT(30)
      <4>2. Write(f, p, e)[i] = e[i - p]
        BY <2>5, <3>1, <4>1, Zenon
      <4>3. e[i - p] = c[i - p]
        BY <2>2, <4>1, Zenon
      <4>4. g[i] = c[i - p]
        BY <1>4, <3>1, <4>1, Zenon
      <4>5. Image(d, b, g, n)[i] = g[i]
        BY <2>6, <2>7, <3>1, <4>1, Zenon
      <4>6. QED
        BY <4>2, <4>3, <4>4, <4>5, Zenon
    <3>2. CASE i <= p /\ i > b
      <4>1. i \in 1..Len(f) /\ i <= b + n
        BY <1>1, <2>1, <3>0, <3>2, SMTT(30)
      <4>2. Write(f, p, e)[i] = f[i]
        BY <2>5, <3>2, Zenon
      <4>3. Image(d, b, g, n)[i] = g[i]
        BY <2>6, <2>7, <3>2, <4>1, Zenon
      <4>4. QED
        BY <1>8, <3>2, <4>1, <4>2, <4>3, Zenon
    <3>3. CASE i <= b \/ i > b + n
      <4>1. i \in 1..Len(f) /\ (i <= b \/ i > p) /\ (i <= p \/ i > p + m)
        <5>1. Len(Write(f, p, e)) = Larger(p + m, Len(f))
          BY <2>5, Zenon
        <5>2. QED
          BY <1>1, <2>1, <3>0, <3>3, <5>1, SMTT(30) DEF Larger
      <4>2. Write(f, p, e)[i] = f[i]
        BY <2>5, <4>1, Zenon
      <4>3. Image(d, b, g, n)[i] = d[i]
        BY <2>6, <2>7, <3>3, Zenon
      <4>4. QED
        BY <1>2, <4>1, <4>2, <4>3, Zenon
    <3>4. QED
      BY <1>1, <2>1, <3>0, <3>1, <3>2, <3>3, SMTT(30)
  <2>9. Write(f, p, e) = Image(d, b, g, n)
    BY <2>5, <2>6, <2>7, <2>8, SeqEqual, Zenon
  <2>10. p + Len(e) = b + n
    BY <2>1, <2>2, Zenon
  <2>11. QED
    BY <2>4, <2>9, <2>10, Zenon
<1>12. \A n \in 0..(q - b) : \E x \in Nat : Reads(Image(d, b, g, n), b + n, x, v)
  BY <1>10, <1>11, Zenon
<1>13. FileOK(g, q, d, b, v)
  BY <1>1, <1>5, <1>6, <1>7, <1>9, <1>12, Zenon DEF FileOK
<1>14. QED
  BY <1>13, Zenon DEF g, q

\* A sync keeps the file in order.
LEMMA SyncKeeps ==
  ASSUME NEW f, NEW p, NEW d, NEW b, NEW w, FileOK(f, p, d, b, w)
  PROVE  FileOK(f, p, f, p, w)
<1>1. f \in Seq(Cell) /\ p \in Nat /\ w \in Nat
  BY Zenon DEF FileOK
<1>2. PICK k \in Nat : Reads(f, p, k, w)
  BY FileFacts, Zenon
<1>3. QED
  BY <1>1, <1>2, SyncedFile, Zenon

\* What a crash leaves reads well.
LEMMA ImageReads ==
  ASSUME NEW f, NEW p, NEW d, NEW b, NEW w, FileOK(f, p, d, b, w), NEW n \in 0..(p - b)
  PROVE  /\ Image(d, b, f, n) \in Seq(Cell) /\ b + n \in Nat /\ w \in Nat
         /\ Overlaid(Image(d, b, f, n), d, b, f, n)
         /\ \E k \in Nat : Reads(Image(d, b, f, n), b + n, k, w)
<1>1. /\ f \in Seq(Cell) /\ d \in Seq(Cell) /\ p \in Nat /\ b \in Nat /\ w \in Nat
      /\ b <= p /\ p <= Len(f) /\ b <= Len(d) /\ Len(f) \in Nat
  BY FileFacts, Zenon
<1>2. n \in Nat /\ b + n <= Len(f) /\ b + n \in Nat
  BY <1>1
<1>3. Overlaid(Image(d, b, f, n), d, b, f, n)
  BY <1>1, <1>2, ImageCells, Zenon
<1>4. \E k \in Nat : Reads(Image(d, b, f, n), b + n, k, w)
  BY Zenon DEF FileOK
<1>5. QED
  BY <1>1, <1>2, <1>3, <1>4, Zenon DEF Overlaid

\* Reading it back puts the file in order again.
LEMMA ReopenKeeps ==
  ASSUME NEW f, NEW p, NEW d, NEW b, NEW w, FileOK(f, p, d, b, w), NEW n \in 0..(p - b),
         NEW e \in ReadAll(Image(d, b, f, n)).ends
  PROVE  FileOK(Image(d, b, f, n), e, Image(d, b, f, n), e, w)
<1> DEFINE g == Image(d, b, f, n)
<1>1. g \in Seq(Cell) /\ b + n \in Nat /\ w \in Nat
  BY ImageReads, Zenon
<1>2. PICK k \in Nat : Reads(g, b + n, k, w)
  BY ImageReads, Zenon
<1>3. e \in Nat /\ Reads(g, e, k, w)
  BY <1>1, <1>2, ReadAllOf, Zenon
<1>4. QED
  BY <1>1, <1>3, SyncedFile, Zenon

\* In a clean file, a crash leaves every record whose cells all reached the disk.
LEMMA CleanImage ==
  ASSUME NEW f, NEW p, NEW d, NEW b, NEW w, NEW a, FileOK(f, p, d, b, w), Clean(f, p, d, b, w, a),
         NEW n \in 0..(p - b), NEW x \in Nat, Reads(Image(d, b, f, n), b + n, x, w)
  PROVE  AllRead(Image(d, b, f, n), b + n, x, a)
<1> DEFINE g == Image(d, b, f, n)
<1>1. /\ f \in Seq(Cell) /\ d \in Seq(Cell) /\ p \in Nat /\ b \in Nat
      /\ b <= p /\ p <= Len(f) /\ Len(f) \in Nat /\ Len(d) \in Nat
  BY FileFacts, Zenon
<1>2. \A i \in 1..Len(f) : i <= b \/ i > p => f[i] = d[i]
  BY FileFacts, SMTT(30)
<1>3. g \in Seq(Cell) /\ Overlaid(g, d, b, f, n)
  BY ImageReads, Zenon
<1>4. PICK k \in Nat : Reads(f, p, k, w) /\ p = k * 4
  BY Zenon DEF Clean, RecordCells
<1>5. PICK q \in Nat : b = q * 4
  BY Zenon DEF Clean, RecordCells
<1>6. Len(d) = b /\ \A r \in a : \E i \in 1..b : d[i][2] = r
  BY Zenon DEF Clean
<1> HIDE DEF g
<1>7. Len(g) = Larger(b + n, Len(d)) /\ n \in Nat /\ b + n <= p
  BY <1>1, <1>3 DEF Overlaid
<1>8. Len(g) = b + n
  BY <1>1, <1>6, <1>7 DEF Larger
<1>9. ASSUME NEW i \in 1..Len(g) PROVE g[i] = f[i] /\ (i <= b => g[i] = d[i])
  <2>1. i \in 1..Len(f) /\ ((i > b /\ i <= b + n) \/ i <= b)
    BY <1>1, <1>7, <1>8
  <2>2. i > b /\ i <= b + n => g[i] = f[i]
    BY <1>3, Zenon DEF Overlaid
  <2>3. i <= b => g[i] = d[i]
    BY <1>3, Zenon DEF Overlaid
  <2>4. QED
    BY <1>2, <2>1, <2>2, <2>3, Zenon
<1>10. ~Whole(g, x * 4) /\ \A j \in 0..(x - 1) : Whole(g, j * 4)
  BY Zenon DEF Reads, Ordered, RecordCells, g
<1>11. ASSUME x * 4 + 4 <= b + n PROVE FALSE
  <2>1. x * 4 \in Nat /\ x * 4 + 4 <= Len(f) /\ x * 4 + 4 <= Len(g) /\ x \in 0..(k - 1)
    BY <1>1, <1>4, <1>7, <1>8, <1>11
  <2>2. Whole(f, x * 4)
    BY <1>4, <2>1, Zenon DEF Reads, Ordered, RecordCells
  <2>3. \A y \in 1..(x * 4 + 4) : y > x * 4 => f[y] = g[y]
    BY <1>8, <1>9, <1>7, <2>1
  <2>4. QED
    <3>1. Alike(f, g, x * 4)
      BY <1>1, <1>3, <2>1, <2>3, WholeAgrees, Zenon
    <3>2. QED
      BY <1>10, <2>2, <3>1, Zenon DEF Alike
<1>12. ASSUME NEW r \in a PROVE \E j \in 1..x : g[(j - 1) * 4 + 1][2] = r
  <2>1. PICK i \in 1..b : d[i][2] = r
    BY <1>6, Zenon
  <2> DEFINE j == ((i - 1) \div 4)
             c == i - j * 4
  <2>2. j \in Nat /\ c \in 1..4 /\ j * 4 + c = i
    BY <1>1
  <2> HIDE DEF j, c
  <2>3. i \in 1..Len(g) /\ i <= b
    BY <1>1, <1>7, <1>8
  <2>4. j \in 0..(x - 1)
    BY <1>1, <1>5, <1>7, <1>11, <2>2, <2>3, SMTT(30)
  <2>5. g[j * 4 + c] = Cells(g[j * 4 + 1][2])[c]
    BY <1>10, <2>2, <2>4, WholeCells, Zenon
  <2>6. g[i] = Cells(g[j * 4 + 1][2])[c]
    BY <2>2, <2>5, Zenon
  <2>7. Cells(g[j * 4 + 1][2])[c][2] = g[j * 4 + 1][2]
    BY <2>2, CellsOf, Zenon
  <2>8. g[j * 4 + 1][2] = r
    BY <1>9, <2>1, <2>3, <2>6, <2>7, Zenon
  <2>9. j + 1 \in 1..x /\ (j + 1) - 1 = j
    BY <2>2, <2>4
  <2>10. QED
    BY <2>8, <2>9, Zenon
<1>13. QED
  BY <1>8, <1>11, <1>12, Zenon DEF g, AllRead

\* Whole records written to a clean file, or nothing, leave it clean.
LEMMA CleanWrite ==
  ASSUME NEW f, NEW p, NEW d, NEW b, NEW w, NEW a, FileOK(f, p, d, b, w), Clean(f, p, d, b, w, a),
         NEW rs \in Seq(WalRecord), \A j \in 1..Len(rs) : rs[j].n = w + j,
         NEW c \in Seq(Cell), Begins(c, rs), Len(c) % 4 = 0
  PROVE  Clean(Write(f, p, c), p + Len(c), d, b, w + Len(rs), a)
<1>1. f \in Seq(Cell) /\ p \in Nat /\ w \in Nat
  BY Zenon DEF FileOK
<1>2. PICK k \in Nat : Reads(f, p, k, w) /\ p = k * 4
  BY Zenon DEF Clean, RecordCells
<1>3. PICK m \in Nat : Grown(Write(f, p, c), p, Len(c), k, m, w + Len(rs))
  BY <1>1, <1>2, Extended, Zenon
<1>4. Reads(Write(f, p, c), p + Len(c), m, w + Len(rs)) /\ p + Len(c) = m * 4
  BY <1>2, <1>3, Zenon DEF Grown, RecordCells
<1>5. QED
  BY <1>4, Zenon DEF Clean, RecordCells

\* Syncing a clean file leaves it clean, and all its cells are on the disk.
LEMMA CleanSync ==
  ASSUME NEW f, NEW p, NEW d, NEW b, NEW w, NEW a, FileOK(f, p, d, b, w), Clean(f, p, d, b, w, a),
         NEW new, \A r \in new : r \in a \/ \E i \in (b + 1)..p : f[i][2] = r
  PROVE  Clean(f, p, f, p, w, new)
<1>1. /\ f \in Seq(Cell) /\ d \in Seq(Cell) /\ p \in Nat /\ b \in Nat
      /\ b <= p /\ p <= Len(f) /\ Len(f) \in Nat
  BY FileFacts, Zenon
<1>2. \A i \in 1..Len(f) : i <= b \/ i > p => f[i] = d[i]
  BY FileFacts, SMTT(30)
<1>3. PICK k \in Nat : Reads(f, p, k, w) /\ p = k * 4
  BY Zenon DEF Clean, RecordCells
<1>4. Len(f) = p
  BY <1>3, Zenon DEF Reads, RecordCells
<1>5. ASSUME NEW r \in new PROVE \E i \in 1..p : f[i][2] = r
  <2>1. CASE r \in a
    <3>1. PICK i \in 1..b : d[i][2] = r
      BY <2>1, Zenon DEF Clean
    <3>2. i \in 1..Len(f) /\ i \in 1..p /\ i <= b
      BY <1>1
    <3>3. QED
      BY <1>2, <3>1, <3>2, Zenon
  <2>2. CASE \E i \in (b + 1)..p : f[i][2] = r
    <3>1. PICK i \in (b + 1)..p : f[i][2] = r
      BY <2>2, Zenon
    <3>2. i \in 1..p
      BY <1>1
    <3>3. QED
      BY <3>1, <3>2, Zenon
  <2>3. QED
    BY <2>1, <2>2, Zenon
<1>6. QED
  BY <1>3, <1>4, <1>5, Zenon DEF Clean, RecordCells

\* A clean file reopened after a crash that cut no record is clean.
LEMMA CleanReopen ==
  ASSUME NEW f, NEW p, NEW d, NEW b, NEW w, NEW a, FileOK(f, p, d, b, w), Clean(f, p, d, b, w, a),
         NEW n \in 0..(p - b), Len(Image(d, b, f, n)) % 4 = 0,
         NEW e \in ReadAll(Image(d, b, f, n)).ends
  PROVE  Clean(Image(d, b, f, n), e, Image(d, b, f, n), e, w, a)
<1> DEFINE g == Image(d, b, f, n)
<1>1. g \in Seq(Cell) /\ b + n \in Nat /\ w \in Nat
  BY ImageReads, Zenon
<1>2. PICK x \in Nat : Reads(g, b + n, x, w)
  BY ImageReads, Zenon
<1>3. /\ ~(x * 4 + 4 <= b + n) /\ Len(g) = b + n
      /\ \A r \in a : \E j \in 1..x : g[(j - 1) * 4 + 1][2] = r
  <2>1. AllRead(g, b + n, x, a)
    BY <1>2, CleanImage, Zenon
  <2>2. QED
    BY <2>1, Zenon DEF AllRead
<1> HIDE DEF g
<1>4. x * 4 <= b + n
  BY <1>2, Zenon DEF Reads, RecordCells
<1>5. (b + n) % 4 = 0
  BY <1>3, Zenon DEF g
<1>6. b + n = x * 4
  BY <1>1, <1>3, <1>4, <1>5
<1>7. Len(g) = x * 4
  BY <1>3, <1>6, Zenon
<1>8. e \in ReadAll(g).ends
  BY Zenon DEF g
<1>9. e = Len(g) /\ Reads(g, e, x, w)
  BY <1>1, <1>2, <1>7, <1>8, ReadAllOf, Zenon
<1>10. ASSUME NEW r \in a PROVE \E i \in 1..e : g[i][2] = r
  <2>1. PICK j \in 1..x : g[(j - 1) * 4 + 1][2] = r
    BY <1>3, Zenon
  <2>2. (j - 1) * 4 + 1 \in 1..(x * 4)
    OBVIOUS
  <2>3. QED
    BY <1>7, <1>9, <2>1, <2>2, Zenon
<1>11. e = x * 4
  BY <1>7, <1>9, Zenon
<1>12. Clean(g, e, g, e, w, a)
  BY <1>9, <1>10, <1>11, Zenon DEF Clean, RecordCells
<1>13. QED
  BY <1>12, Zenon DEF g

\* The cells of a record, as far as they are written.
LEMMA OneRecord ==
  ASSUME NEW r \in WalRecord, NEW n \in 0..4
  PROVE  /\ <<r>> \in Seq(WalRecord) /\ Len(<<r>>) = 1 /\ <<r>>[1] = r
         /\ SubSeq(Cells(r), 1, n) \in Seq(Cell) /\ Len(SubSeq(Cells(r), 1, n)) = n
         /\ Begins(SubSeq(Cells(r), 1, n), <<r>>)
<1>1. <<r>> \in Seq(WalRecord) /\ Len(<<r>>) = 1 /\ <<r>>[1] = r
  OBVIOUS
<1>2. Cells(r) \in Seq(Cell) /\ Len(Cells(r)) = 4
  BY CellKinds, CellsOf, Zenon
<1> DEFINE c == SubSeq(Cells(r), 1, n)
<1>3. c \in Seq(Cell) /\ Len(c) = n /\ \A i \in 1..n : c[i] = Cells(r)[i]
  <2>1. n \in Nat /\ 0 \in Nat /\ 0 + n <= Len(Cells(r)) /\ 0 + 1 = 1 /\ 0 + n = n
    BY <1>2
  <2>2. Part(SubSeq(Cells(r), 0 + 1, 0 + n), Cells(r), 0, n)
    BY <1>2, <2>1, PartOf, Zenon
  <2>3. Part(c, Cells(r), 0, n) /\ \A i \in 1..n : 0 + i = i
    BY <2>1, <2>2
  <2>4. QED
    BY <2>3, Zenon DEF Part
<1> HIDE DEF c
<1>4. ASSUME NEW i \in 1..n PROVE c[i] = AllCells(<<r>>)[i]
  <2>1. 0 \in Nat /\ 0 < Len(<<r>>) /\ i \in 1..4 /\ 0 * 4 + i = i /\ 0 + 1 = 1
    BY <1>1
  <2>2. AllCells(<<r>>)[0 * 4 + i] = Cells(<<r>>[0 + 1])[i]
    BY <1>1, <2>1, CellsInTurn, Zenon
  <2>3. AllCells(<<r>>)[i] = Cells(r)[i]
    BY <1>1, <2>1, <2>2, Zenon
  <2>4. QED
    BY <1>3, <2>3, Zenon
<1>5. n <= 1 * 4
  OBVIOUS
<1>6. Begins(c, <<r>>)
  BY <1>1, <1>3, <1>4, <1>5, Zenon DEF Begins, RecordCells
<1>7. QED
  BY <1>1, <1>3, <1>6, Zenon DEF c

\* The cells of several records.
LEMMA SeveralRecords ==
  ASSUME NEW rs \in Seq(WalRecord)
  PROVE  /\ AllCells(rs) \in Seq(Cell) /\ Len(AllCells(rs)) = Len(rs) * 4
         /\ Len(AllCells(rs)) % 4 = 0
         /\ Begins(AllCells(rs), rs)
<1> DEFINE n == Len(rs) * 4
           At(i) == Cells(rs[((i - 1) \div 4) + 1])[((i - 1) % 4) + 1]
<1>1. n \in Nat /\ n % 4 = 0 /\ n <= n
  OBVIOUS
<1>2. ASSUME NEW i \in 1..n PROVE At(i) \in Cell
  <2>1. ((i - 1) \div 4) + 1 \in 1..Len(rs) /\ ((i - 1) % 4) + 1 \in 1..4
    OBVIOUS
  <2>2. rs[((i - 1) \div 4) + 1] \in WalRecord
    BY <2>1, ElementOfSeq, Zenon
  <2>3. QED
    BY <2>1, <2>2, CellKinds, Zenon
<1>3. AllCells(rs) = [i \in 1..n |-> At(i)]
  BY Zenon DEF AllCells, RecordCells
<1> HIDE DEF n, At
<1>4. AllCells(rs) \in [1..n -> Cell]
  BY <1>2, <1>3, Zenon
<1>5. AllCells(rs) \in Seq(Cell) /\ Len(AllCells(rs)) = n
  BY <1>1, <1>4
<1>6. QED
  BY <1>1, <1>5, Zenon DEF Begins, RecordCells, n

-----------------------------------------------------------------------------
\* The entries the core hands over are records with the next numbers.
LEMMA EntriesNext ==
  ASSUME NEW k \in 1..2, NEW es \in NextEntries(k), writes \in Nat
  PROVE  es \in Seq(WalRecord) /\ Len(es) = k /\ \A j \in 1..Len(es) : es[j].n = writes + j
<1>1. es \in [1..k -> Entry] /\ \A j \in 1..k : es[j].n = writes + j
  BY DEF NextEntries
<1>2. \A j \in 1..k : es[j] \in WalRecord
  BY <1>1, Zenon DEF WalRecord
<1>3. es \in [1..k -> WalRecord]
  BY <1>1, <1>2, Zenon
<1>4. es \in Seq(WalRecord) /\ Len(es) = k
  BY <1>3
<1>5. QED
  BY <1>1, <1>4, Zenon

\* A hard-state marker is a record with the next number.
LEMMA MarkerNext ==
  ASSUME hard_state \in Nat, writes \in Nat, writes < MaxWrites,
         NEW t \in (hard_state + 1)..MaxTerm
  PROVE  t \in Nat /\ [kind |-> "hardstate", term |-> t, n |-> writes + 1] \in WalRecord
<1>1. MaxTerm \in Nat /\ MaxWrites \in Nat
  BY BoundAssumption, Zenon
<1>2. t \in 1..MaxTerm /\ writes + 1 \in 1..MaxWrites /\ t \in Nat
  BY <1>1
<1>3. [kind |-> "hardstate", term |-> t, n |-> writes + 1] \in Marker
  BY <1>2, Zenon DEF Marker
<1>4. QED
  BY <1>2, <1>3, Zenon DEF WalRecord

\* Writing n cells of the next record keeps WInv, if a part of one counts as torn.
LEMMA PartWritten ==
  ASSUME WInv, NEW r \in WalRecord, r.n = writes + 1, NEW n \in 0..4, WriteCells(r, n),
         writes' = writes + 1, hard_state' \in Nat, acked' = acked,
         ~torn' => ~torn /\ (n = 0 \/ n = 4)
  PROVE  WInv'
<1> DEFINE c == SubSeq(Cells(r), 1, n)
<1>1. /\ <<r>> \in Seq(WalRecord) /\ Len(<<r>>) = 1 /\ <<r>>[1] = r
      /\ c \in Seq(Cell) /\ Len(c) = n /\ Begins(c, <<r>>)
  BY OneRecord, Zenon
<1>2. \A j \in 1..Len(<<r>>) : <<r>>[j].n = writes + j
  <2> SUFFICES ASSUME NEW j \in 1..1 PROVE <<r>>[j].n = writes + j
    BY <1>1, Zenon
  <2>1. j = 1
    OBVIOUS
  <2>2. QED
    BY <1>1, <2>1, Zenon
<1>3. /\ file' = Write(file, pos, c) /\ pos' = pos + Len(c)
      /\ disk' = disk /\ base' = base /\ writes' = writes + Len(<<r>>)
  BY <1>1, Zenon DEF WriteCells
<1> HIDE DEF c
<1>4. FileOK(file, pos, disk, base, writes)
  BY Zenon DEF WInv
<1>5. FileOK(Write(file, pos, c), pos + Len(c), disk, base, writes + Len(<<r>>))
  BY <1>1, <1>2, <1>4, WriteKeeps, Zenon
<1>6. FileOK(file', pos', disk', base', writes')
  BY <1>3, <1>5, Zenon
<1>7. ASSUME ~torn' PROVE Clean(file', pos', disk', base', writes', acked')
  <2>1. Clean(file, pos, disk, base, writes, acked)
    BY <1>7, Zenon DEF WInv
  <2>2. Len(c) % 4 = 0
    BY <1>1, <1>7
  <2>3. Clean(Write(file, pos, c), pos + Len(c), disk, base, writes + Len(<<r>>), acked)
    BY <1>1, <1>2, <1>4, <2>1, <2>2, CleanWrite, Zenon
  <2>4. QED
    BY <1>3, <2>3, Zenon
<1>8. QED
  BY <1>6, <1>7, Zenon DEF WInv

\* Writing n cells of the next entries keeps WInv, if a part of one counts as torn.
LEMMA BatchWritten ==
  ASSUME WInv, NEW k \in 1..2, NEW es \in NextEntries(k), NEW n \in 0..(k * 4), NEW c,
         (n = k * 4 /\ c = AllCells(es)) \/ c = SubSeq(AllCells(es), 1, n),
         file' = Write(file, pos, c), pos' = pos + n, disk' = disk, base' = base,
         writes' = writes + k, hard_state' = hard_state, acked' = acked,
         ~torn' => ~torn /\ n % 4 = 0
  PROVE  WInv'
<1>0. FileOK(file, pos, disk, base, writes) /\ writes \in Nat /\ hard_state \in Nat
  BY Zenon DEF WInv, FileOK
<1>1. es \in Seq(WalRecord) /\ Len(es) = k /\ \A j \in 1..Len(es) : es[j].n = writes + j
  BY <1>0, EntriesNext, Zenon
<1>2. c \in Seq(Cell) /\ Len(c) = n /\ Begins(c, es)
  <2>1. /\ AllCells(es) \in Seq(Cell) /\ Len(AllCells(es)) = k * 4
        /\ Begins(AllCells(es), es)
    BY <1>1, SeveralRecords, Zenon
  <2>2. CASE n = k * 4 /\ c = AllCells(es)
    BY <2>1, <2>2, Zenon
  <2>3. CASE c = SubSeq(AllCells(es), 1, n)
    <3>1. n \in Nat /\ 0 \in Nat /\ 0 + n <= k * 4 /\ 0 + 1 = 1 /\ 0 + n = n
      OBVIOUS
    <3>2. Part(SubSeq(AllCells(es), 0 + 1, 0 + n), AllCells(es), 0, n)
      BY <2>1, <3>1, PartOf, Zenon
    <3>3. Part(c, AllCells(es), 0, n) /\ \A i \in 1..n : 0 + i = i
      BY <2>3, <3>1, <3>2
    <3>4. c \in Seq(Cell) /\ Len(c) = n /\ \A i \in 1..n : c[i] = AllCells(es)[i]
      BY <3>3, Zenon DEF Part
    <3>5. n <= Len(es) * RecordCells
      BY <1>1 DEF RecordCells
    <3>6. QED
      BY <3>4, <3>5, Zenon DEF Begins
  <2>4. QED
    BY <2>2, <2>3, Zenon
<1>3. pos' = pos + Len(c) /\ writes' = writes + Len(es)
  BY <1>1, <1>2, Zenon
<1>4. FileOK(Write(file, pos, c), pos + Len(c), disk, base, writes + Len(es))
  BY <1>0, <1>1, <1>2, WriteKeeps, Zenon
<1>5. FileOK(file', pos', disk', base', writes')
  BY <1>3, <1>4, Zenon
<1>6. ASSUME ~torn' PROVE Clean(file', pos', disk', base', writes', acked')
  <2>1. Clean(file, pos, disk, base, writes, acked) /\ Len(c) % 4 = 0
    BY <1>2, <1>6, Zenon DEF WInv
  <2>2. Clean(Write(file, pos, c), pos + Len(c), disk, base, writes + Len(es), acked)
    BY <1>0, <1>1, <1>2, <2>1, CleanWrite, Zenon
  <2>3. QED
    BY <1>3, <2>2, Zenon
<1>7. QED
  BY <1>0, <1>5, <1>6, Zenon DEF WInv

\* Appending entries keeps WInv (append_entry_to_log, replicate_to_log).
LEMMA AppendKeeps == ASSUME WInv, AppendEntries PROVE WInv'
<1>1. PICK k \in 1..2 : \E es \in NextEntries(k) :
                          /\ file' = Write(file, pos, AllCells(es))
                          /\ pos' = pos + k * RecordCells
                          /\ writes' = writes + k
  BY Zenon DEF AppendEntries
<1>2. PICK es \in NextEntries(k) : /\ file' = Write(file, pos, AllCells(es))
                                   /\ pos' = pos + k * RecordCells
                                   /\ writes' = writes + k
  BY <1>1, Zenon
<1>3. /\ disk' = disk /\ base' = base /\ hard_state' = hard_state /\ acked' = acked
      /\ torn' = torn
  BY Zenon DEF AppendEntries
<1>4. k * 4 \in 0..(k * 4) /\ (k * 4) % 4 = 0
  OBVIOUS
<1>5. pos' = pos + k * 4
  BY <1>2, Zenon DEF RecordCells
<1>6. QED
  BY <1>2, <1>3, <1>4, <1>5, BatchWritten, Zenon

\* So does an append that fails on the way.
LEMMA AppendFailKeeps == ASSUME WInv, AppendEntriesFail PROVE WInv'
<1>1. PICK k \in 1..2 : \E es \in NextEntries(k), n \in 0..(k * RecordCells) :
                          /\ file' = Write(file, pos, SubSeq(AllCells(es), 1, n))
                          /\ pos' = pos + n
                          /\ torn' = (torn \/ n % RecordCells # 0)
                          /\ writes' = writes + k
  BY Zenon DEF AppendEntriesFail
<1>2. PICK es \in NextEntries(k), n \in 0..(k * 4) :
                          /\ file' = Write(file, pos, SubSeq(AllCells(es), 1, n))
                          /\ pos' = pos + n
                          /\ torn' = (torn \/ n % 4 # 0)
                          /\ writes' = writes + k
  BY <1>1, Zenon DEF RecordCells
<1>3. disk' = disk /\ base' = base /\ hard_state' = hard_state /\ acked' = acked
  BY Zenon DEF AppendEntriesFail
<1>4. QED
  BY <1>2, <1>3, BatchWritten, Zenon

\* Syncing keeps WInv, and what it acknowledges is on the disk.
LEMMA SyncKeepsInv ==
  ASSUME WInv, WalSync, hard_state' = hard_state, writes' = writes, torn' = torn,
         \A r \in acked' : r \in acked \/ \E i \in (base + 1)..pos : file[i][2] = r
  PROVE  WInv'
<1>1. FileOK(file, pos, disk, base, writes) /\ hard_state' \in Nat
  BY Zenon DEF WInv
<1>2. disk' = file /\ base' = pos /\ file' = file /\ pos' = pos
  BY Zenon DEF WalSync
<1>3. FileOK(file, pos, file, pos, writes)
  BY <1>1, SyncKeeps, Zenon
<1>4. ASSUME ~torn' PROVE Clean(file, pos, file, pos, writes, acked')
  <2>1. Clean(file, pos, disk, base, writes, acked)
    BY <1>4, Zenon DEF WInv
  <2>2. QED
    BY <1>1, <2>1, CleanSync, Zenon
<1>5. QED
  BY <1>1, <1>2, <1>3, <1>4, Zenon DEF WInv

\* A crash and the replay that follows keep WInv (PersistentStorage::new).
LEMMA RestartKeeps == ASSUME WInv, Restart PROVE WInv'
<1>0. FileOK(file, pos, disk, base, writes)
  BY Zenon DEF WInv
<1>1. PICK image \in CrashImages : /\ file' = image /\ disk' = image
                                   /\ pos' \in ReadAll(image).ends /\ base' = pos'
                                   /\ torn' = (torn \/ Len(image) % RecordCells # 0)
  BY Zenon DEF Restart, WalReopen
<1>2. hard_state' = NoTerm /\ writes' = writes /\ acked' = acked
  BY Zenon DEF Restart
<1>3. PICK n \in 0..(pos - base) : image = Image(disk, base, file, n)
  BY Zenon DEF CrashImages, Image
<1>4. FileOK(image, pos', image, pos', writes)
  BY <1>0, <1>1, <1>3, ReopenKeeps, Zenon
<1>5. ASSUME ~torn' PROVE Clean(image, pos', image, pos', writes, acked)
  <2>1. ~torn /\ Len(image) % 4 = 0
    BY <1>1, <1>5, Zenon DEF RecordCells
  <2>2. Clean(file, pos, disk, base, writes, acked)
    BY <2>1, Zenon DEF WInv
  <2>3. QED
    BY <1>0, <1>1, <1>3, <2>1, <2>2, CleanReopen, Zenon
<1>6. hard_state' \in Nat
  BY <1>2, Zenon DEF NoTerm
<1>7. QED
  BY <1>1, <1>2, <1>4, <1>5, <1>6, Zenon DEF WInv

\* WInv holds of the empty file.
LEMMA RaftInitInv == RaftInit => WInv
<1> SUFFICES ASSUME RaftInit PROVE WInv
  BY Zenon
<1>1. file = <<>> /\ pos = 0 /\ disk = <<>> /\ base = 0 /\ writes = 0 /\ hard_state = 0 /\ acked = {}
  BY Zenon DEF RaftInit, WalInit, NoTerm
<1>2. <<>> \in Seq(Cell) /\ Len(<<>>) = 0
  OBVIOUS
<1>3. Reads(<<>>, 0, 0, 0)
  <2>1. ~Whole(<<>>, 0)
    BY DEF Whole, RecordCells
  <2>2. QED
    BY <2>1 DEF Reads, Ordered, RecordCells
<1>4. FileOK(<<>>, 0, <<>>, 0, 0)
  BY <1>2, <1>3, SyncedFile, Zenon
<1>5. Clean(<<>>, 0, <<>>, 0, 0, {})
  <2>1. 0 \in Nat /\ 0 = 0 * RecordCells
    BY DEF RecordCells
  <2>2. QED
    BY <1>2, <1>3, <2>1, Zenon DEF Clean
<1>6. QED
  BY <1>1, <1>4, <1>5, Zenon DEF WInv

\* Every operation of the Raft storage keeps WInv.
LEMMA RaftStepKeeps == WInv /\ [RaftNext]_raftVars => WInv'
<1> SUFFICES ASSUME WInv, [RaftNext]_raftVars PROVE WInv'
  BY Zenon
<1>0. writes \in Nat /\ hard_state \in Nat
  BY Zenon DEF WInv, FileOK
<1>1. CASE AppendEntries
  BY <1>1, AppendKeeps, Zenon
<1>2. CASE AppendEntriesFail
  BY <1>2, AppendFailKeeps, Zenon
<1>3. CASE SyncEntries
  <2>1. acked' = acked \cup {r \in {file[i][2] : i \in (base + 1)..pos} : r.kind = "entry"}
    BY <1>3, Zenon DEF SyncEntries
  <2>2. \A r \in acked' : r \in acked \/ \E i \in (base + 1)..pos : file[i][2] = r
    BY <2>1, Zenon
  <2>3. WalSync /\ hard_state' = hard_state /\ writes' = writes /\ torn' = torn
    BY <1>3, Zenon DEF SyncEntries
  <2>4. QED
    BY <2>2, <2>3, SyncKeepsInv, Zenon
<1>4. CASE SaveHardState
  <2>1. writes < MaxWrites /\ writes' = writes + 1 /\ acked' = acked /\ torn' = torn
    BY <1>4, Zenon DEF SaveHardState
  <2>2. PICK t \in (hard_state + 1)..MaxTerm :
               /\ hard_state' = t
               /\ WalAppend([kind |-> "hardstate", term |-> t, n |-> writes + 1])
    BY <1>4, Zenon DEF SaveHardState
  <2> DEFINE r == [kind |-> "hardstate", term |-> t, n |-> writes + 1]
  <2>3. t \in Nat /\ r \in WalRecord
    BY <1>0, <2>1, MarkerNext, Zenon
  <2>4. r.n = writes + 1
    BY Zenon
  <2>5. WriteCells(r, 4)
    BY <2>2, Zenon DEF WalAppend, RecordCells
  <2>6. 4 \in 0..4
    OBVIOUS
  <2> HIDE DEF r
  <2>7. QED
    BY <2>1, <2>2, <2>3, <2>4, <2>5, <2>6, PartWritten, Zenon
<1>5. CASE SaveHardStateFails
  <2>1. writes < MaxWrites /\ writes' = writes + 1 /\ acked' = acked
    BY <1>5, Zenon DEF SaveHardStateFails
  <2>2. PICK t \in (hard_state + 1)..MaxTerm, n \in 0..(RecordCells - 1) :
               /\ hard_state' = t
               /\ WriteCells([kind |-> "hardstate", term |-> t, n |-> writes + 1], n)
               /\ torn' = (torn \/ n > 0)
    BY <1>5, Zenon DEF SaveHardStateFails
  <2> DEFINE r == [kind |-> "hardstate", term |-> t, n |-> writes + 1]
  <2>3. t \in Nat /\ r \in WalRecord
    BY <1>0, <2>1, MarkerNext, Zenon
  <2>4. r.n = writes + 1
    BY Zenon
  <2>5. WriteCells(r, n)
    BY <2>2, Zenon
  <2>6. n \in 0..4 /\ (~(n > 0) => n = 0)
    BY DEF RecordCells
  <2> HIDE DEF r
  <2>7. QED
    BY <2>1, <2>2, <2>3, <2>4, <2>5, <2>6, PartWritten, Zenon
<1>6. CASE SyncHardState
  BY <1>6, SyncKeepsInv, Zenon DEF SyncHardState
<1>7. CASE DeleteLogsFrom
  <2>1. /\ file' = file /\ pos' = pos /\ disk' = disk /\ base' = base
        /\ hard_state' = hard_state /\ writes' = writes /\ torn' = torn
    BY <1>7, Zenon DEF DeleteLogsFrom, walvars
  <2>2. \A r \in acked' : r \in acked
    BY <1>7, Zenon DEF DeleteLogsFrom
  <2>3. QED
    BY <2>1, <2>2, Zenon DEF WInv, Clean
<1>8. CASE Restart
  BY <1>8, RestartKeeps, Zenon
<1>9. CASE SyncEntriesFails \/ SyncHardStateFails \/ UNCHANGED raftVars
  BY <1>9, Zenon DEF SyncEntriesFails, SyncHardStateFails, WInv, raftVars, walvars
<1>10. QED
  BY <1>1, <1>2, <1>3, <1>4, <1>5, <1>6, <1>7, <1>8, <1>9, Zenon DEF RaftNext

LEMMA RaftInductive == RaftSpec => []WInv
BY RaftInitInv, RaftStepKeeps, PTL DEF RaftSpec

\* What is read back from a crash image.
LEMMA CrashReads ==
  ASSUME WInv, NEW image \in CrashImages
  PROVE  \E n \in 0..(pos - base), k \in Nat :
           /\ image = Image(disk, base, file, n) /\ Reads(image, base + n, k, writes)
           /\ ReadAll(image).entries = [j \in 1..k |-> image[(j - 1) * 4 + 1][2]]
<1>0. FileOK(file, pos, disk, base, writes)
  BY Zenon DEF WInv
<1>1. PICK n \in 0..(pos - base) : image = Image(disk, base, file, n)
  BY Zenon DEF CrashImages, Image
<1>2. image \in Seq(Cell) /\ base + n \in Nat /\ writes \in Nat
  BY <1>0, <1>1, ImageReads, Zenon
<1>3. PICK k \in Nat : Reads(image, base + n, k, writes)
  BY <1>0, <1>1, ImageReads, Zenon
<1>4. ReadAll(image).entries = [j \in 1..k |-> image[(j - 1) * 4 + 1][2]]
  BY <1>2, <1>3, ReadAllOf, Zenon
<1>5. QED
  BY <1>1, <1>3, <1>4, Zenon

\* Whatever a crash or a failed write left in the WAL, read_all returns whole
\* records, each once and in the order of their appends (Wal::read_all).
THEOREM RecoveryAlwaysInOrder == RaftSpec => []RecoveryInOrder
<1>1. WInv => RecoveryInOrder
  <2> SUFFICES ASSUME WInv, NEW image \in CrashImages,
                      NEW i \in DOMAIN ReadAll(image).entries,
                      NEW j \in DOMAIN ReadAll(image).entries, i < j
               PROVE  ReadAll(image).entries[i].n < ReadAll(image).entries[j].n
    BY Zenon DEF RecoveryInOrder
  <2>1. PICK n \in 0..(pos - base), k \in Nat :
           /\ image = Image(disk, base, file, n) /\ Reads(image, base + n, k, writes)
           /\ ReadAll(image).entries = [x \in 1..k |-> image[(x - 1) * 4 + 1][2]]
    BY CrashReads, Zenon
  <2>2. i \in 1..k /\ j \in 1..k
    BY <2>1, Zenon
  <2>3. i - 1 \in 0..(k - 1) /\ j - 1 \in 0..(k - 1) /\ i - 1 < j - 1
    BY <2>2
  <2>4. NumberAt(image, i - 1) < NumberAt(image, j - 1)
    BY <2>1, <2>3, Zenon DEF Reads, Ordered
  <2>5. /\ ReadAll(image).entries[i].n = NumberAt(image, i - 1)
        /\ ReadAll(image).entries[j].n = NumberAt(image, j - 1)
    BY <2>1, <2>2, Zenon DEF NumberAt, RecordCells
  <2>6. QED
    BY <2>4, <2>5, Zenon
<1>2. QED
  BY <1>1, RaftInductive, PTL

\* Unless part of a record was ever left behind, an entry whose append returned Ok
\* and that was not deleted is among the records read_all finds before it stops, in
\* whatever a crash leaves (append_entry_to_log, replicate_to_log, Wal::sync).
THEOREM SyncedAlwaysSurvive == RaftSpec => []SyncedSurvive
<1>1. WInv => SyncedSurvive
  <2> SUFFICES ASSUME WInv, ~torn, NEW image \in CrashImages, NEW r \in acked
               PROVE  r \in Range(ReadAll(image).entries)
    BY Zenon DEF SyncedSurvive
  <2>1. PICK n \in 0..(pos - base), k \in Nat :
           /\ image = Image(disk, base, file, n) /\ Reads(image, base + n, k, writes)
           /\ ReadAll(image).entries = [x \in 1..k |-> image[(x - 1) * 4 + 1][2]]
    BY CrashReads, Zenon
  <2>2. FileOK(file, pos, disk, base, writes) /\ Clean(file, pos, disk, base, writes, acked)
    BY Zenon DEF WInv
  <2>3. AllRead(image, base + n, k, acked)
    BY <2>1, <2>2, CleanImage, Zenon
  <2>4. PICK j \in 1..k : image[(j - 1) * 4 + 1][2] = r
    BY <2>3, Zenon DEF AllRead
  <2>5. j \in DOMAIN ReadAll(image).entries /\ ReadAll(image).entries[j] = r
    BY <2>1, <2>4, Zenon
  <2>6. QED
    BY <2>5, Zenon DEF Range
<1>2. QED
  BY <1>1, RaftInductive, PTL

-----------------------------------------------------------------------------
(***************************************************************************)
(* The two stores together                                                 *)
(***************************************************************************)
\* The stores share no state: a behaviour of the node's storage is one of the
\* engine and one of the Raft storage.
THEOREM StoresBehave == StorageSpec => Spec /\ RaftSpec
<1>1. StorageInit => Init /\ RaftInit
  BY Zenon DEF StorageInit
<1>2. [StorageNext]_storageVars => [Next]_vars /\ [RaftNext]_raftVars
  BY Zenon DEF StorageNext, storageVars
<1>3. QED
  BY <1>1, <1>2, PTL DEF StorageSpec, Spec, RaftSpec

\* The engine's index leads to its records and its calls are atomic, and read_all
\* finds records in order and, while none was torn, all that were acknowledged.
THEOREM StorageCorrect ==
  StorageSpec => /\ []IndexResolves /\ []GetInFlightResolves /\ ImplementsTable
                 /\ []RecoveryInOrder /\ []SyncedSurvive
BY StoresBehave, IndexAlwaysResolves, GetNeverMisses, EngineImplementsTable,
   RecoveryAlwaysInOrder, SyncedAlwaysSurvive, PTL

=============================================================================
