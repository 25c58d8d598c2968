------------------------- MODULE FlushBuffersProofs -------------------------
(***************************************************************************)
(* Proofs about FlushBuffers, for every set of callers, every batch size   *)
(* and every number of records, entries and crashes.                       *)
(*                                                                         *)
(* RecordedOnce counts occurrences; its invariant ConnInv says instead     *)
(* that the places are disjoint, that no sequence repeats a record and     *)
(* that together they hold all the records.  LogArchived needs to know     *)
(* which entries are still on their way: RaftInv says that they are the    *)
(* last ones applied, in order.                                            *)
(***************************************************************************)
EXTENDS FlushBuffers, SequenceTheorems, FiniteSetTheorems, TLAPS

Injective(s) == \A i, j \in DOMAIN s : s[i] = s[j] => i = j
Increasing(s) == \A i, j \in DOMAIN s : i < j => s[i] < s[j]

\* a flusher has a batch only while it inserts
ConnTypes ==
    /\ pc \in [Flushers -> {"idle", "flush", "insert"}]
    /\ recorded \in Nat /\ buffer \in Seq(Nat) /\ rows \in Seq(Nat) /\ lost \subseteq Nat
    /\ batch \in [Flushers -> Seq(Nat)]
    /\ \A f \in Flushers : pc[f] # "insert" => batch[f] = <<>>

\* the places a record can be in are disjoint, and no sequence repeats one
Apart ==
    /\ Injective(buffer) /\ Injective(rows) /\ \A f \in Flushers : Injective(batch[f])
    /\ Range(buffer) \cap Range(rows) = {}
    /\ lost \cap (Range(buffer) \cup Range(rows)) = {}
    /\ \A f \in Flushers : Range(batch[f]) \cap (Range(buffer) \cup Range(rows) \cup lost) = {}
    /\ \A f, g \in Flushers : f # g => Range(batch[f]) \cap Range(batch[g]) = {}

\* a number is in one of the places exactly if a record was given it
Placed ==
    \A n \in Nat : n \in 1 .. recorded
        <=> \/ n \in Range(buffer) \cup Range(rows) \cup lost
            \/ \E f \in Flushers : n \in Range(batch[f])

ConnInv == ConnTypes /\ Apart /\ Placed

BufferInv ==
    /\ pc \in [Flushers -> {"idle", "flush", "insert"}] /\ buffer \in Seq(Nat) /\ recorded \in Nat
    /\ BufferBounded

\* the entries no longer on their way to the table
Settled == applied - Len(raft_buffer) - Len(raft_batch)

\* the entries on their way are the last ones applied, in order; those before
\* them are in the table or lost
RaftInv ==
    /\ applied \in Nat /\ appended \in Nat /\ applied <= appended
    /\ onDisk \in Nat /\ appended <= onDisk
    /\ raft_buffer \in Seq(Nat) /\ raft_batch \in Seq(Nat)
    /\ logRows \in Seq(Nat) /\ logLost \subseteq Nat
    /\ applier \in {"idle", "flush", "insert"}
    /\ Settled \in Nat /\ (applier = "idle" => Len(raft_buffer) < BatchSize)
    /\ IF applier = "insert" THEN raft_buffer = <<>> ELSE raft_batch = <<>>
    /\ \A i \in 1 .. Len(raft_buffer) : raft_buffer[i] = Settled + i
    /\ \A i \in 1 .. Len(raft_batch) : raft_batch[i] = Settled + i
    /\ Increasing(logRows)
    /\ Range(logRows) \cap logLost = {}
    /\ \A n \in Nat : n \in 1 .. Settled <=> n \in Range(logRows) \cup logLost

-----------------------------------------------------------------------------
(***************************************************************************)
(* Sequences and the sets of their elements                                *)
(***************************************************************************)

\* What an empty sequence, an append and a concatenation contain.
LEMMA Contents ==
  /\ Range(<<>>) = {}
  /\ \A s \in Seq(Nat), x \in Nat : Range(Append(s, x)) = Range(s) \cup {x}
  /\ \A s, t \in Seq(Nat) : Range(s \o t) = Range(s) \cup Range(t)
  /\ \A s \in Seq(Nat) : Range(s) \subseteq Nat
<1>1. Range(<<>>) = {}
  BY DEF Range
<1>2. ASSUME NEW s \in Seq(Nat), NEW x \in Nat
      PROVE  Range(Append(s, x)) = Range(s) \cup {x}
  <2>1. /\ DOMAIN Append(s, x) = 1 .. Len(s) + 1 /\ DOMAIN s = 1 .. Len(s) /\ Len(s) \in Nat
        /\ \A i \in 1 .. Len(s) : Append(s, x)[i] = s[i]
        /\ Append(s, x)[Len(s) + 1] = x
    OBVIOUS
  <2>2. QED
    BY <2>1 DEF Range
<1>3. ASSUME NEW s \in Seq(Nat), NEW t \in Seq(Nat)
      PROVE  Range(s \o t) = Range(s) \cup Range(t)
  <2>1. /\ DOMAIN (s \o t) = 1 .. Len(s) + Len(t)
        /\ DOMAIN s = 1 .. Len(s) /\ DOMAIN t = 1 .. Len(t) /\ Len(s) \in Nat /\ Len(t) \in Nat
        /\ \A i \in 1 .. Len(s) : (s \o t)[i] = s[i]
        /\ \A i \in 1 .. Len(t) : (s \o t)[Len(s) + i] = t[i]
    BY ConcatProperties, LenProperties
  <2>2. ASSUME NEW n \in Range(s \o t) PROVE n \in Range(s) \cup Range(t)
    <3>1. PICK i \in 1 .. Len(s) + Len(t) : n = (s \o t)[i]
      BY <2>1, Zenon DEF Range
    <3>2. CASE i \in 1 .. Len(s)
      BY <2>1, <3>1, <3>2, Zenon DEF Range
    <3>3. CASE i \notin 1 .. Len(s)
      <4>1. i - Len(s) \in 1 .. Len(t) /\ Len(s) + (i - Len(s)) = i
        BY <2>1, <3>3
      <4>2. n = t[i - Len(s)]
        BY <2>1, <3>1, <4>1, Zenon
      <4>3. QED
        BY <2>1, <4>1, <4>2, Zenon DEF Range
    <3>4. QED
      BY <3>2, <3>3, Zenon
  <2>3. ASSUME NEW n \in Range(s) \cup Range(t) PROVE n \in Range(s \o t)
    <3>1. CASE n \in Range(s)
      BY <2>1, <3>1 DEF Range
    <3>2. CASE n \in Range(t)
      <4>1. PICK i \in 1 .. Len(t) : n = t[i]
        BY <2>1, <3>2, Zenon DEF Range
      <4>2. Len(s) + i \in DOMAIN (s \o t) /\ (s \o t)[Len(s) + i] = n
        BY <2>1, <4>1
      <4>3. QED
        BY <4>2, Zenon DEF Range
    <3>3. QED
      BY <2>3, <3>1, <3>2, Zenon
  <2>4. QED
    BY <2>2, <2>3, Zenon
<1>4. \A s \in Seq(Nat) : Range(s) \subseteq Nat
  BY DEF Range
<1>5. QED
  BY <1>1, <1>2, <1>3, <1>4, Zenon

\* Appending a new element, or a sequence with other elements, repeats nothing.
LEMMA NoRepetition ==
  /\ Injective(<<>>)
  /\ \A s \in Seq(Nat), x \in Nat : Injective(s) /\ x \notin Range(s) => Injective(Append(s, x))
  /\ \A s, t \in Seq(Nat) :
       Injective(s) /\ Injective(t) /\ Range(s) \cap Range(t) = {} => Injective(s \o t)
<1>1. Injective(<<>>)
  BY DEF Injective
<1>2. ASSUME NEW s \in Seq(Nat), NEW x \in Nat, Injective(s), x \notin Range(s)
      PROVE  Injective(Append(s, x))
  <2>1. /\ DOMAIN Append(s, x) = 1 .. Len(s) + 1 /\ DOMAIN s = 1 .. Len(s) /\ Len(s) \in Nat
        /\ \A i \in 1 .. Len(s) : Append(s, x)[i] = s[i] /\ s[i] # x
        /\ Append(s, x)[Len(s) + 1] = x
    BY <1>2 DEF Range
  <2>2. QED
    BY <1>2, <2>1 DEF Injective
<1>3. ASSUME NEW s \in Seq(Nat), NEW t \in Seq(Nat), Injective(s), Injective(t),
             Range(s) \cap Range(t) = {}
      PROVE  Injective(s \o t)
  <2>1. /\ DOMAIN (s \o t) = 1 .. Len(s) + Len(t)
        /\ DOMAIN s = 1 .. Len(s) /\ DOMAIN t = 1 .. Len(t) /\ Len(s) \in Nat /\ Len(t) \in Nat
        /\ \A i \in 1 .. Len(s) : (s \o t)[i] = s[i]
        /\ \A i \in 1 .. Len(s) + Len(t) : i > Len(s) =>
             i - Len(s) \in 1 .. Len(t) /\ (s \o t)[i] = t[i - Len(s)]
    BY ConcatProperties, LenProperties
  <2>2. \A i \in 1 .. Len(s), j \in 1 .. Len(t) : s[i] # t[j]
    BY <1>3, <2>1, Zenon DEF Range
  <2>3. SUFFICES ASSUME NEW i \in DOMAIN (s \o t), NEW j \in DOMAIN (s \o t),
                        (s \o t)[i] = (s \o t)[j]
                 PROVE  i = j
    BY Zenon DEF Injective
  <2>4. CASE i <= Len(s) /\ j <= Len(s)
    BY <1>3, <2>1, <2>3, <2>4 DEF Injective
  <2>5. CASE i > Len(s) /\ j > Len(s)
    <3>1. i - Len(s) = j - Len(s)
      BY <1>3, <2>1, <2>3, <2>5, SMTT(30) DEF Injective
    <3>2. QED
      BY <2>1, <3>1
  <2>6. CASE i <= Len(s) /\ j > Len(s)
    BY <2>1, <2>2, <2>3, <2>6, SMTT(30)
  <2>7. CASE i > Len(s) /\ j <= Len(s)
    BY <2>1, <2>2, <2>3, <2>7, SMTT(30)
  <2>8. QED
    BY <2>1, <2>4, <2>5, <2>6, <2>7, SMTT(30)
<1>4. QED
  BY <1>1, <1>2, <1>3, Zenon

\* In a sequence without repetition an element occurs once, any other not at all.
LEMMA CountInjective ==
  ASSUME NEW s \in Seq(Nat), Injective(s), NEW n
  PROVE  Cardinality({i \in DOMAIN s : s[i] = n}) = IF n \in Range(s) THEN 1 ELSE 0
<1>1. CASE n \in Range(s)
  <2>1. PICK i \in DOMAIN s : s[i] = n
    BY <1>1, Zenon DEF Range
  <2>2. {j \in DOMAIN s : s[j] = n} = {i}
    BY <2>1, Zenon DEF Injective
  <2>3. QED
    BY <1>1, <2>2, FS_Singleton, Zenon
<1>2. CASE n \notin Range(s)
  <2>1. {j \in DOMAIN s : s[j] = n} = {}
    BY <1>2, Zenon DEF Range
  <2>2. QED
    BY <1>2, <2>1, FS_EmptySet, Zenon
<1>3. QED
  BY <1>1, <1>2, Zenon

-----------------------------------------------------------------------------
(***************************************************************************)
(* Connections: every record in exactly one place                          *)
(***************************************************************************)

\* The steps of everyone but the connection buffer's users.
RaftSteps == ArchiveRaftLog \/ DrainRaft \/ InsertRaft \/ InsertRaftFails
                \/ AppendEntry \/ DeleteLogsFrom \/ EnsureTable \/ EnsureLogsTable

\* They leave the connections alone.
LEMMA OtherSteps == RaftSteps => UNCHANGED connVars
BY Zenon DEF RaftSteps, ArchiveRaftLog, DrainRaft, InsertRaft, InsertRaftFails, AppendEntry,
   DeleteLogsFrom, EnsureTable, EnsureLogsTable

\* Recording a connection puts a number no place has yet into the buffer.
LEMMA RecordKeeps == \A c \in Callers : ConnInv /\ RecordConnection(c) => ConnInv'
<1> SUFFICES ASSUME NEW c \in Callers, ConnInv, RecordConnection(c) PROVE ConnInv'
  BY Zenon
<1> USE DEF ConnInv
<1>1. /\ recorded' = recorded + 1 /\ buffer' = Append(buffer, recorded + 1)
      /\ batch' = batch /\ rows' = rows /\ lost' = lost
  BY Zenon DEF RecordConnection
<1>2. ConnTypes'
  <2>1. c \in Flushers /\ pc[c] = "idle"
    BY Zenon DEF Flushers, RecordConnection
  <2>2. buffer' \in Seq(Nat) /\ recorded' \in Nat
    BY <1>1 DEF ConnTypes
  <2>3. pc' \in [Flushers -> {"idle", "flush", "insert"}]
        /\ \A f \in Flushers : pc'[f] = "insert" <=> pc[f] = "insert"
    BY <2>1, Zenon DEF RecordConnection, ConnTypes
  <2>4. QED
    BY <1>1, <2>2, <2>3, Zenon DEF ConnTypes
<1>3. Range(buffer') = Range(buffer) \cup {recorded + 1}
  BY <1>1, Contents DEF ConnTypes
<1>4. /\ recorded + 1 \notin Range(buffer) \cup Range(rows) \cup lost
      /\ \A f \in Flushers : recorded + 1 \notin Range(batch[f])
  BY DEF ConnTypes, Placed
<1>5. Apart'
  <2>1. Injective(buffer')
    BY <1>1, <1>4, NoRepetition DEF ConnTypes, Apart
  <2>2. /\ Range(buffer') \cap Range(rows') = {}
        /\ lost' \cap (Range(buffer') \cup Range(rows')) = {}
    BY <1>1, <1>3, <1>4, Zenon DEF Apart
  <2>3. \A f \in Flushers :
           Range(batch'[f]) \cap (Range(buffer') \cup Range(rows') \cup lost') = {}
    <3> SUFFICES ASSUME NEW f \in Flushers
                 PROVE  Range(batch[f]) \cap (Range(buffer') \cup Range(rows) \cup lost) = {}
      BY <1>1, Zenon
    <3>1. Range(batch[f]) \cap (Range(buffer) \cup Range(rows) \cup lost) = {}
      BY Zenon DEF Apart
    <3>2. QED
      BY <1>3, <1>4, <3>1, Zenon
  <2>4. /\ Injective(rows') /\ \A f \in Flushers : Injective(batch'[f])
        /\ \A f, g \in Flushers : f # g => Range(batch'[f]) \cap Range(batch'[g]) = {}
    BY <1>1, Zenon DEF Apart
  <2>5. QED
    BY <2>1, <2>2, <2>3, <2>4, Zenon DEF Apart
<1>6. Placed'
  <2>1. \A n \in Nat : n \in 1 .. recorded' <=> n \in 1 .. recorded \/ n = recorded + 1
    BY <1>1 DEF ConnTypes
  <2>2. QED
    BY <1>1, <1>3, <2>1, Zenon DEF Placed
<1>7. QED
  BY <1>2, <1>5, <1>6, Zenon

\* A flush moves the whole buffer into the batch of one flusher, which was empty.
LEMMA DrainKeeps == \A f \in Flushers : ConnInv /\ Drain(f) => ConnInv'
<1> SUFFICES ASSUME NEW f \in Flushers, ConnInv, Drain(f) PROVE ConnInv'
  BY Zenon
<1> USE DEF ConnInv
<1>1. /\ buffer' = <<>> /\ batch' = [batch EXCEPT ![f] = buffer] /\ batch[f] = <<>>
      /\ recorded' = recorded /\ rows' = rows /\ lost' = lost
  BY Zenon DEF Drain, ConnTypes
<1>2. batch'[f] = buffer /\ \A g \in Flushers : g # f => batch'[g] = batch[g]
  BY <1>1, Zenon DEF ConnTypes
<1>3. ConnTypes'
  <2>1. pc' \in [Flushers -> {"idle", "flush", "insert"}]
    BY Zenon DEF Drain, ConnTypes
  <2>2. batch' \in [Flushers -> Seq(Nat)] /\ buffer' \in Seq(Nat)
    BY <1>1, Zenon DEF ConnTypes
  <2>3. \A g \in Flushers : pc'[g] # "insert" => batch'[g] = <<>>
    BY <1>2, Zenon DEF Drain, ConnTypes
  <2>4. QED
    BY <1>1, <2>1, <2>2, <2>3, Zenon DEF ConnTypes
<1>4. Range(buffer') = {} /\ Range(batch[f]) = {} /\ Injective(buffer')
  BY <1>1, Contents, NoRepetition, Zenon
<1>5. Apart'
  BY <1>1, <1>2, <1>4, Zenon DEF Apart
<1>6. Placed'
  <2>1. \A n : (\E g \in Flushers : n \in Range(batch'[g]))
                 <=> n \in Range(buffer) \/ \E g \in Flushers : n \in Range(batch[g])
    BY <1>2, <1>4, Zenon
  <2>2. QED
    BY <1>1, <1>4, <2>1, Zenon DEF Placed
<1>7. QED
  BY <1>3, <1>5, <1>6, Zenon

\* An insert, whether it succeeds or fails, empties the batch of its flusher
\* into the table or among the lost.
LEMMA InsertKeeps == \A f \in Flushers : ConnInv /\ (Insert(f) \/ InsertFails(f)) => ConnInv'
<1> SUFFICES ASSUME NEW f \in Flushers, ConnInv, Insert(f) \/ InsertFails(f) PROVE ConnInv'
  BY Zenon
<1> USE DEF ConnInv
<1>1. /\ batch' = [batch EXCEPT ![f] = <<>>] /\ pc' = [pc EXCEPT ![f] = "idle"]
      /\ buffer' = buffer /\ recorded' = recorded
      /\ \/ rows' = rows \o batch[f] /\ lost' = lost
         \/ rows' = rows /\ lost' = lost \cup Range(batch[f])
  BY Zenon DEF Insert, InsertFails
<1>2. batch'[f] = <<>> /\ \A g \in Flushers : g # f => batch'[g] = batch[g]
  BY <1>1, Zenon DEF ConnTypes
<1>3. Range(batch'[f]) = {} /\ Injective(batch'[f]) /\ Range(batch[f]) \subseteq Nat
      /\ batch[f] \in Seq(Nat)
  BY <1>2, Contents, NoRepetition, Zenon DEF ConnTypes
<1>4. /\ Range(rows') \cup lost' = Range(rows) \cup lost \cup Range(batch[f])
      /\ Range(rows') \cap lost' = {} /\ Injective(rows') /\ rows' \in Seq(Nat) /\ lost' \subseteq Nat
  <2>1. CASE rows' = rows \o batch[f] /\ lost' = lost
    <3>1. Range(rows') = Range(rows) \cup Range(batch[f]) /\ rows' \in Seq(Nat)
      BY <2>1, <1>3, Contents DEF ConnTypes
    <3>2. Injective(rows')
      BY <2>1, <1>3, NoRepetition, Zenon DEF ConnTypes, Apart
    <3>3. QED
      BY <2>1, <3>1, <3>2, Zenon DEF ConnTypes, Apart
  <2>2. CASE rows' = rows /\ lost' = lost \cup Range(batch[f])
    BY <1>3, <2>2, Zenon DEF ConnTypes, Apart
  <2>3. QED
    BY <1>1, <2>1, <2>2, Zenon
<1>5. ConnTypes'
  <2>1. batch' \in [Flushers -> Seq(Nat)] /\ pc' \in [Flushers -> {"idle", "flush", "insert"}]
    BY <1>1 DEF ConnTypes
  <2>2. \A g \in Flushers : pc'[g] # "insert" => batch'[g] = <<>>
    BY <1>1, <1>2, Zenon DEF ConnTypes
  <2>3. QED
    BY <1>1, <1>4, <2>1, <2>2, Zenon DEF ConnTypes
<1>6. Apart'
  BY <1>1, <1>2, <1>3, <1>4, Zenon DEF Apart
<1>7. Placed'
  <2>1. \A n : (\E g \in Flushers : n \in Range(batch[g]))
                 <=> n \in Range(batch[f]) \/ \E g \in Flushers : n \in Range(batch'[g])
    BY <1>2, <1>3, Zenon
  <2>2. QED
    BY <1>1, <1>4, <2>1, Zenon DEF Placed
<1>8. QED
  BY <1>5, <1>6, <1>7, Zenon

\* A crash moves what was in memory to the lost.
LEMMA RestartKeeps == ConnInv /\ Restart => ConnInv'
<1> SUFFICES ASSUME ConnInv, Restart PROVE ConnInv'
  BY Zenon
<1> USE DEF ConnInv
<1>1. /\ lost' = lost \cup Range(buffer) \cup UNION {Range(batch[f]) : f \in Flushers}
      /\ buffer' = <<>> /\ batch' = [f \in Flushers |-> <<>>] /\ pc' = [f \in Flushers |-> "idle"]
      /\ recorded' = recorded /\ rows' = rows
  BY Zenon DEF Restart, Restarted
<1>2. /\ Range(buffer') = {} /\ Injective(buffer')
      /\ \A f \in Flushers : batch'[f] = <<>> /\ Range(batch'[f]) = {} /\ Injective(batch'[f])
  BY <1>1, Contents, NoRepetition, Zenon
<1>3. ConnTypes'
  <2>1. Range(buffer) \subseteq Nat /\ \A f \in Flushers : Range(batch[f]) \subseteq Nat
    BY Contents, Zenon DEF ConnTypes
  <2>2. lost' \subseteq Nat
    BY <1>1, <2>1, Zenon DEF ConnTypes
  <2>3. QED
    BY <1>1, <2>2 DEF ConnTypes
<1>4. Apart'
  BY <1>1, <1>2 DEF Apart
<1>5. Placed'
  BY <1>1, <1>2, Zenon DEF Placed
<1>6. QED
  BY <1>3, <1>4, <1>5, Zenon

\* ConnInv is inductive.
LEMMA ConnInductive == Spec => []ConnInv
<1>1. Init => ConnInv
  <2> SUFFICES ASSUME Init PROVE ConnInv
    BY Zenon
  <2>1. Range(buffer) = {} /\ Range(rows) = {} /\ \A f \in Flushers : Range(batch[f]) = {}
    BY Contents, Zenon DEF Init
  <2>2. Injective(buffer) /\ Injective(rows) /\ \A f \in Flushers : Injective(batch[f])
    BY NoRepetition, Zenon DEF Init
  <2>3. QED
    BY <2>1, <2>2 DEF Init, ConnInv, ConnTypes, Apart, Placed
<1>2. ConnInv /\ [Next]_vars => ConnInv'
  <2> SUFFICES ASSUME ConnInv, [Next]_vars PROVE ConnInv'
    BY Zenon
  <2>1. CASE UNCHANGED connVars
    BY <2>1, Zenon DEF connVars, ConnInv, ConnTypes, Apart, Placed
  <2>2. CASE Tick
    BY <2>2, Zenon DEF Tick, ConnInv, ConnTypes, Apart, Placed, Flushers
  <2>3. QED
    BY <2>1, <2>2, RecordKeeps, DrainKeeps, InsertKeeps, RestartKeeps, OtherSteps, Zenon
       DEF Next, vars, RaftSteps
<1>3. QED
  BY <1>1, <1>2, PTL DEF Spec

\* Every connection recorded is in exactly one place, for any number of callers
\* and however their flushes, the periodic flush and crashes interleave
\* (record_connection, flush).
THEOREM EachRecordedOnce == Spec => []RecordedOnce
<1>1. ConnInv => RecordedOnce
  <2> SUFFICES ASSUME ConnInv, NEW n \in 1 .. recorded PROVE Occurrences(n) = 1
    BY Zenon DEF RecordedOnce
  <2> DEFINE held == {f \in Flushers : n \in Range(batch[f])}
  <2>1. /\ Cardinality({i \in DOMAIN buffer : buffer[i] = n}) = IF n \in Range(buffer) THEN 1 ELSE 0
        /\ Cardinality({i \in DOMAIN rows : rows[i] = n}) = IF n \in Range(rows) THEN 1 ELSE 0
    BY CountInjective, Zenon DEF ConnInv, ConnTypes, Apart
  <2>2. n \in Nat
    BY DEF ConnInv, ConnTypes
  <2>3. CASE \E f \in Flushers : n \in Range(batch[f])
    <3>1. PICK f \in Flushers : n \in Range(batch[f])
      BY <2>3, Zenon
    <3>2. held = {f}
      BY <3>1, Zenon DEF ConnInv, Apart
    <3>3. Cardinality(held) = 1
      BY <3>2, FS_Singleton, Zenon
    <3>4. n \notin Range(buffer) /\ n \notin Range(rows) /\ n \notin lost
      BY <3>1, Zenon DEF ConnInv, Apart
    <3>5. QED
      BY <2>1, <3>3, <3>4 DEF Occurrences
  <2>4. CASE \A f \in Flushers : n \notin Range(batch[f])
    <3>1. held = {}
      BY <2>4, Zenon
    <3>2. Cardinality(held) = 0
      BY <3>1, FS_EmptySet, Zenon
    <3>3. n \in Range(buffer) \cup Range(rows) \cup lost
      BY <2>2, <2>4, Zenon DEF ConnInv, Placed
    <3>4. QED
      BY <2>1, <3>2, <3>3 DEF Occurrences, ConnInv, Apart
  <2>5. QED
    BY <2>3, <2>4, Zenon
<1>2. QED
  BY <1>1, ConnInductive, PTL

-----------------------------------------------------------------------------
(***************************************************************************)
(* The bound of the connection buffer                                      *)
(***************************************************************************)
Flushing == {c \in Callers : pc[c] = "flush"}

\* The callers about to flush are finitely many.
LEMMA FlushingFinite ==
  /\ IsFiniteSet(Flushing) /\ Cardinality(Flushing) \in Nat
  /\ IsFiniteSet(Flushing') /\ Cardinality(Flushing') \in Nat
<1>1. Flushing \subseteq Callers /\ Flushing' \subseteq Callers
  BY Zenon DEF Flushing
<1>2. QED
  BY <1>1, FlushAssumption, FS_Subset, FS_CardinalityType, Zenon

\* BufferInv is inductive.
LEMMA BufferInductive == Spec => []BufferInv
<1>1. Init => BufferInv
  <2> SUFFICES ASSUME Init PROVE BufferInv
    BY Zenon
  <2>1. Len(buffer) = 0
    BY Zenon DEF Init
  <2>2. Len(buffer) <= BatchSize - 1 + Cardinality(Flushing)
    BY <2>1, FlushingFinite, FlushAssumption
  <2>3. QED
    BY <2>2 DEF Init, BufferInv, BufferBounded, Flushing
<1>2. BufferInv /\ [Next]_vars => BufferInv'
  <2> SUFFICES ASSUME BufferInv, [Next]_vars PROVE BufferInv'
    BY Zenon
  <2>0. /\ Len(buffer) \in Nat /\ BatchSize \in Nat /\ BatchSize > 0
        /\ Len(buffer) <= BatchSize - 1 + Cardinality(Flushing)
    BY FlushAssumption DEF BufferInv, BufferBounded, Flushing
  <2>1. CASE UNCHANGED connVars
    BY <2>1, Zenon DEF connVars, BufferInv, BufferBounded
  <2>2. ASSUME NEW c \in Callers, RecordConnection(c)
        PROVE  BufferInv'
    <3>1. /\ pc' \in [Flushers -> {"idle", "flush", "insert"}]
          /\ buffer' \in Seq(Nat) /\ recorded' \in Nat /\ Len(buffer') = Len(buffer) + 1
      BY <2>2 DEF RecordConnection, BufferInv, Flushers
    <3>2. CASE Len(buffer') >= BatchSize
      <4>1. c \notin Flushing /\ Flushing' = Flushing \cup {c}
        BY <2>2, <3>2, Zenon DEF RecordConnection, Flushing, BufferInv, Flushers
      <4>2. Cardinality(Flushing') = Cardinality(Flushing) + 1
        BY <4>1, FlushingFinite, FS_AddElement, Zenon
      <4>3. QED
        BY <2>0, <3>1, <4>2, FlushingFinite DEF BufferInv, BufferBounded, Flushing
    <3>3. CASE ~(Len(buffer') >= BatchSize)
      BY <2>0, <3>1, <3>3, FlushingFinite DEF BufferInv, BufferBounded, Flushing
    <3>4. QED
      BY <3>2, <3>3, Zenon
  <2>3. ASSUME NEW f \in Flushers, Drain(f)
        PROVE  BufferInv'
    <3>1. pc' \in [Flushers -> {"idle", "flush", "insert"}] /\ buffer' = <<>> /\ recorded' \in Nat
      BY <2>3, Zenon DEF Drain, BufferInv
    <3>2. Len(buffer') = 0 /\ buffer' \in Seq(Nat)
      BY <3>1
    <3>3. QED
      BY <2>0, <3>1, <3>2, FlushingFinite DEF BufferInv, BufferBounded, Flushing
  <2>4. CASE Tick \/ \E f \in Flushers : Insert(f) \/ InsertFails(f)
    <3>1. /\ pc' \in [Flushers -> {"idle", "flush", "insert"}]
          /\ buffer' = buffer /\ recorded' = recorded
      BY <2>4, Zenon DEF Tick, Insert, InsertFails, BufferInv
    <3>2. Flushing' = Flushing
      BY <2>4, FlushAssumption, Zenon DEF Tick, Insert, InsertFails, BufferInv, Flushing, Flushers
    <3>3. QED
      BY <2>0, <3>1, <3>2, Zenon DEF BufferInv, BufferBounded, Flushing
  <2>5. CASE Restart
    <3>1. /\ pc' \in [Flushers -> {"idle", "flush", "insert"}]
          /\ buffer' = <<>> /\ recorded' = recorded
      BY <2>5, Zenon DEF Restart, Restarted
    <3>2. Len(buffer') = 0 /\ buffer' \in Seq(Nat)
      BY <3>1
    <3>3. QED
      BY <2>0, <3>1, <3>2, FlushingFinite DEF BufferInv, BufferBounded, Flushing
  <2>6. QED
    BY <2>1, <2>2, <2>3, <2>4, <2>5, OtherSteps, Zenon DEF Next, vars, RaftSteps
<1>3. QED
  BY <1>1, <1>2, PTL DEF Spec

\* The buffer exceeds a batch by at most the callers about to flush it, for any
\* number of callers and any batch size (record_connection).
THEOREM BufferAlwaysBounded == Spec => []BufferBounded
BY BufferInductive, PTL DEF BufferInv

-----------------------------------------------------------------------------
(***************************************************************************)
(* The archive of the Raft log                                             *)
(***************************************************************************)

\* The steps of the connection buffer's users leave the Raft side alone.
LEMMA ConnectionSteps ==
  \/ \E c \in Callers : RecordConnection(c)
  \/ Tick
  \/ \E f \in Flushers : Drain(f) \/ Insert(f) \/ InsertFails(f)
  \/ EnsureTable \/ EnsureLogsTable
  => UNCHANGED raftVars
BY Zenon DEF RecordConnection, Tick, Drain, Insert, InsertFails, EnsureTable, EnsureLogsTable

\* Appending larger numbers keeps a sequence increasing.
LEMMA IncreasingConcat ==
  ASSUME NEW s \in Seq(Nat), NEW t \in Seq(Nat), Increasing(s), Increasing(t), NEW m \in Nat,
         \A n \in Range(s) : n <= m, \A n \in Range(t) : n > m
  PROVE  Increasing(s \o t)
<1> DEFINE u == s \o t
<1>1. /\ DOMAIN u = 1 .. Len(s) + Len(t)
      /\ DOMAIN s = 1 .. Len(s) /\ DOMAIN t = 1 .. Len(t) /\ Len(s) \in Nat /\ Len(t) \in Nat
      /\ \A i \in 1 .. Len(s) : u[i] = s[i] /\ s[i] \in Nat /\ s[i] <= m
      /\ \A i \in 1 .. Len(s) + Len(t) : i > Len(s) =>
           i - Len(s) \in 1 .. Len(t) /\ u[i] = t[i - Len(s)]
      /\ \A i \in 1 .. Len(t) : t[i] \in Nat /\ t[i] > m
  BY ConcatProperties, LenProperties, ElementOfSeq DEF Range
<1> HIDE DEF u
<1>2. SUFFICES ASSUME NEW i \in DOMAIN u, NEW j \in DOMAIN u, i < j
               PROVE  u[i] < u[j]
  BY Zenon DEF Increasing, u
<1>3. CASE j <= Len(s)
  BY <1>1, <1>2, <1>3, SMTT(30) DEF Increasing
<1>4. CASE i > Len(s)
  <2>1. i - Len(s) < j - Len(s) /\ i - Len(s) \in 1 .. Len(t) /\ j - Len(s) \in 1 .. Len(t)
    BY <1>1, <1>2, <1>4
  <2>2. t[i - Len(s)] < t[j - Len(s)]
    BY <1>1, <2>1, Zenon DEF Increasing
  <2>3. u[i] = t[i - Len(s)] /\ u[j] = t[j - Len(s)]
    <3>1. i \in 1 .. Len(s) + Len(t) /\ j \in 1 .. Len(s) + Len(t) /\ i > Len(s) /\ j > Len(s)
      BY <1>1, <1>2, <1>4
    <3>2. QED
      BY <1>1, <3>1, Zenon
  <2>4. QED
    BY <2>2, <2>3, Zenon
<1>5. CASE i <= Len(s) /\ j > Len(s)
  <2>1. u[i] \in Nat /\ u[i] <= m /\ u[j] \in Nat /\ u[j] > m
    BY <1>1, <1>2, <1>5
  <2>2. QED
    BY <2>1
<1>6. QED
  BY <1>1, <1>2, <1>3, <1>4, <1>5

\* The elements of a run of consecutive numbers.
LEMMA Consecutive ==
  ASSUME NEW s \in Seq(Nat), NEW m \in Nat, \A i \in 1 .. Len(s) : s[i] = m + i
  PROVE  Increasing(s) /\ Range(s) = m + 1 .. m + Len(s)
<1>1. DOMAIN s = 1 .. Len(s) /\ Len(s) \in Nat
  BY LenProperties, Zenon
<1>2. Increasing(s)
  BY <1>1 DEF Increasing
<1>3. ASSUME NEW n \in m + 1 .. m + Len(s) PROVE n \in Range(s)
  <2>1. n - m \in 1 .. Len(s) /\ m + (n - m) = n
    BY <1>1
  <2>2. QED
    BY <1>1, <2>1, Zenon DEF Range
<1>4. Range(s) \subseteq m + 1 .. m + Len(s)
  BY <1>1 DEF Range
<1>5. QED
  BY <1>2, <1>3, <1>4, Zenon

\* What RaftInv says of the sequences, with their elements as intervals.
LEMMA Pending ==
  ASSUME RaftInv
  PROVE  /\ Len(raft_buffer) \in Nat /\ Len(raft_batch) \in Nat
         /\ Settled \in Nat /\ Settled + Len(raft_buffer) + Len(raft_batch) = applied
         /\ Range(raft_buffer) = Settled + 1 .. Settled + Len(raft_buffer)
         /\ Range(raft_batch) = Settled + 1 .. Settled + Len(raft_batch)
         /\ Increasing(raft_batch)
<1>1. /\ Len(raft_buffer) \in Nat /\ Len(raft_batch) \in Nat
      /\ Settled \in Nat /\ Settled + Len(raft_buffer) + Len(raft_batch) = applied
  <2>1. Len(raft_buffer) \in Nat /\ Len(raft_batch) \in Nat /\ applied \in Nat /\ Settled \in Nat
    BY DEF RaftInv
  <2>2. QED
    BY <2>1 DEF Settled
<1>2. QED
  BY <1>1, Consecutive, Zenon DEF RaftInv

\* An applied entry goes to the end of the buffer.
LEMMA ArchiveKeeps == RaftInv /\ ArchiveRaftLog => RaftInv'
<1> SUFFICES ASSUME RaftInv, ArchiveRaftLog PROVE RaftInv'
  BY Zenon
<1>1. /\ applier = "idle" /\ applied < appended /\ applied' = applied + 1
      /\ raft_buffer' = Append(raft_buffer, applied + 1) /\ raft_batch' = raft_batch
      /\ applier' = IF Len(raft_buffer') >= BatchSize THEN "flush" ELSE "idle"
      /\ appended' = appended /\ onDisk' = onDisk /\ logRows' = logRows /\ logLost' = logLost
  BY Zenon DEF ArchiveRaftLog, logVars
<1>2. raft_batch = <<>> /\ Len(raft_batch) = 0
  BY <1>1 DEF RaftInv
<1>3. raft_buffer' \in Seq(Nat) /\ Len(raft_buffer') = Len(raft_buffer) + 1
      /\ applied' \in Nat /\ applied' <= appended
  BY <1>1 DEF RaftInv
<1>4. Settled' = Settled
  BY <1>1, <1>2, <1>3, Pending DEF Settled
<1>5. \A i \in 1 .. Len(raft_buffer') : raft_buffer'[i] = Settled + i
  <2> SUFFICES ASSUME NEW i \in 1 .. Len(raft_buffer') PROVE raft_buffer'[i] = Settled + i
    BY Zenon
  <2>1. CASE i = Len(raft_buffer) + 1
    <3>1. raft_buffer'[i] = applied + 1
      BY <1>1, <2>1 DEF RaftInv
    <3>2. QED
      BY <1>2, <2>1, <3>1, Pending
  <2>2. CASE i # Len(raft_buffer) + 1
    <3>1. i \in 1 .. Len(raft_buffer)
      BY <1>3, <2>2, Pending
    <3>2. raft_buffer'[i] = raft_buffer[i]
      BY <1>1, <3>1 DEF RaftInv
    <3>3. QED
      BY <3>1, <3>2, Zenon DEF RaftInv
  <2>3. QED
    BY <2>1, <2>2, Zenon
<1>6. applier' \in {"idle", "flush"} /\ (applier' = "idle" => Len(raft_buffer') < BatchSize)
  BY <1>1, <1>3, Pending, FlushAssumption
<1>7. QED
  BY <1>1, <1>2, <1>3, <1>4, <1>5, <1>6, Zenon DEF RaftInv

\* The applier takes the whole buffer.
LEMMA DrainRaftKeeps == RaftInv /\ DrainRaft => RaftInv'
<1> SUFFICES ASSUME RaftInv, DrainRaft PROVE RaftInv'
  BY Zenon
<1>1. /\ raft_batch = <<>> /\ raft_batch' = raft_buffer /\ raft_buffer' = <<>> /\ applier' = "insert"
      /\ appended' = appended /\ onDisk' = onDisk /\ applied' = applied
      /\ logRows' = logRows /\ logLost' = logLost
  BY Zenon DEF DrainRaft, RaftInv, logVars
<1>2. Len(raft_batch) = 0 /\ Len(raft_buffer') = 0 /\ Len(raft_batch') = Len(raft_buffer)
  BY <1>1, Zenon
<1>3. Settled' = Settled
  BY <1>1, <1>2, Pending DEF Settled
<1>4. QED
  BY <1>1, <1>2, <1>3, Zenon DEF RaftInv

\* An insert settles the batch, in the table or among the lost.
LEMMA InsertRaftKeeps == RaftInv /\ (InsertRaft \/ InsertRaftFails) => RaftInv'
<1> SUFFICES ASSUME RaftInv, InsertRaft \/ InsertRaftFails PROVE RaftInv'
  BY Zenon
<1>1. /\ applier = "insert" /\ raft_buffer = <<>> /\ raft_buffer' = <<>>
      /\ raft_batch' = <<>> /\ applier' = "idle" /\ applied' = applied
      /\ appended' = appended /\ onDisk' = onDisk
      /\ \/ logRows' = logRows \o raft_batch /\ logLost' = logLost
         \/ logRows' = logRows /\ logLost' = logLost \cup Range(raft_batch)
  BY Zenon DEF InsertRaft, InsertRaftFails, RaftInv, logVars
<1>2. Len(raft_buffer') = 0 /\ Len(raft_batch') = 0 /\ Len(raft_buffer) = 0
  BY <1>1, Zenon
<1>3. Settled' = Settled + Len(raft_batch) /\ Settled' = applied
  BY <1>1, <1>2, Pending DEF Settled
<1>4. Range(raft_batch) = Settled + 1 .. applied
  BY <1>3, Pending, Zenon
<1>5. \A n \in Range(logRows) \cup logLost : n \in 1 .. Settled
  BY Contents, Zenon DEF RaftInv
<1>6. /\ Range(logRows') \cup logLost' = Range(logRows) \cup logLost \cup Range(raft_batch)
      /\ Range(logRows') \cap logLost' = {}
      /\ Increasing(logRows') /\ logRows' \in Seq(Nat) /\ logLost' \subseteq Nat
  <2>0. Range(raft_batch) \cap (Range(logRows) \cup logLost) = {} /\ Range(raft_batch) \subseteq Nat
    BY <1>4, <1>5, Pending
  <2>1. CASE logRows' = logRows \o raft_batch /\ logLost' = logLost
    <3>1. Range(logRows') = Range(logRows) \cup Range(raft_batch) /\ logRows' \in Seq(Nat)
      BY <2>1, Contents DEF RaftInv
    <3>2. Increasing(logRows')
      <4>1. (\A n \in Range(logRows) : n <= Settled) /\ (\A n \in Range(raft_batch) : n > Settled)
        BY <1>4, <1>5, Pending
      <4>2. QED
        BY <2>1, <4>1, Pending, IncreasingConcat, Zenon DEF RaftInv
    <3>3. QED
      BY <2>0, <2>1, <3>1, <3>2, Zenon DEF RaftInv
  <2>2. CASE logRows' = logRows /\ logLost' = logLost \cup Range(raft_batch)
    BY <2>0, <2>2, Zenon DEF RaftInv
  <2>3. QED
    BY <1>1, <2>1, <2>2, Zenon
<1>7. \A n \in Nat : n \in 1 .. Settled' <=> n \in Range(logRows') \cup logLost'
  <2>1. \A n \in Nat : n \in 1 .. applied <=> n \in 1 .. Settled \/ n \in Settled + 1 .. applied
    BY <1>3, Pending
  <2>2. QED
    BY <1>3, <1>4, <1>6, <2>1, Zenon DEF RaftInv
<1>8. Settled' \in Nat /\ Len(raft_buffer') < BatchSize
  BY <1>2, <1>3, FlushAssumption, Pending
<1>9. QED
  BY <1>1, <1>2, <1>6, <1>7, <1>8 DEF RaftInv

\* A log that is read back counts as applied, and what did not reach the table
\* is lost.
LEMMA ResumeKeeps == RaftInv /\ Restart /\ Resume(onDisk) => RaftInv'
<1> SUFFICES ASSUME RaftInv, Restart, Resume(onDisk) PROVE RaftInv'
  BY Zenon
<1>1. /\ logLost' = logLost \cup Range(raft_buffer) \cup Range(raft_batch) \cup applied + 1 .. onDisk
      /\ applier' = "idle" /\ raft_buffer' = <<>> /\ raft_batch' = <<>>
      /\ applied' = onDisk /\ appended' = onDisk /\ onDisk' = onDisk /\ logRows' = logRows
  BY Zenon DEF Restart, Restarted, Resume
<1>2. Len(raft_buffer') = 0 /\ Len(raft_batch') = 0
  BY <1>1, Zenon
<1>3. Settled' = onDisk /\ onDisk \in Nat /\ applied \in Nat /\ applied <= onDisk
  BY <1>1, <1>2 DEF Settled, RaftInv
<1>4. Range(raft_buffer) \cup Range(raft_batch) = Settled + 1 .. applied
  <2>1. Len(raft_buffer) = 0 \/ Len(raft_batch) = 0
    BY DEF RaftInv
  <2>2. QED
    BY <2>1, Pending
<1>5. Range(raft_buffer) \cup Range(raft_batch) \cup applied + 1 .. onDisk = Settled + 1 .. onDisk
  BY <1>3, <1>4, Pending
<1>6. logLost' = logLost \cup Settled + 1 .. onDisk
  BY <1>1, <1>5, Zenon
<1>7. logLost' \subseteq Nat /\ Range(logRows') \cap logLost' = {}
  <2>1. \A n \in Range(logRows) : n \in 1 .. Settled
    BY Contents, Zenon DEF RaftInv
  <2>2. Range(logRows) \cap Settled + 1 .. onDisk = {} /\ Settled + 1 .. onDisk \subseteq Nat
    BY <1>3, <2>1, Pending, SMTT(30)
  <2>3. QED
    BY <1>1, <1>6, <2>2, Zenon DEF RaftInv
<1>8. \A n \in Nat : n \in 1 .. Settled' <=> n \in Range(logRows') \cup logLost'
  <2>1. \A n \in Nat : n \in 1 .. onDisk <=> n \in 1 .. Settled \/ n \in Settled + 1 .. onDisk
    BY <1>3, Pending
  <2>2. QED
    BY <1>1, <1>3, <1>6, <2>1, Zenon DEF RaftInv
<1>9. QED
  BY <1>1, <1>2, <1>3, <1>7, <1>8, FlushAssumption, SMTT(30) DEF RaftInv

\* A log that starts empty has nothing in the table, nothing lost and nothing
\* on its way.
LEMMA StartEmptyKeeps == Restart /\ StartEmpty => RaftInv'
<1> SUFFICES ASSUME Restart, StartEmpty PROVE RaftInv'
  BY Zenon
<1>1. /\ applier' = "idle" /\ raft_buffer' = <<>> /\ raft_batch' = <<>>
      /\ appended' = 0 /\ applied' = 0 /\ onDisk' = 0 /\ logRows' = <<>> /\ logLost' = {}
  BY Zenon DEF Restart, Restarted, StartEmpty
<1>2. Len(raft_buffer') = 0 /\ Len(raft_batch') = 0
  BY <1>1, Zenon
<1>3. Settled' = 0
  <2>1. applied' = 0
    BY <1>1, Zenon
  <2>2. QED
    BY <1>2, <2>1 DEF Settled
<1>4. Range(logRows') = {}
  BY <1>1, Contents, Zenon
<1>5. Increasing(logRows')
  BY <1>1 DEF Increasing
<1>6. QED
  BY <1>1, <1>2, <1>3, <1>4, <1>5, FlushAssumption DEF RaftInv

LEMMA RestartRaftKeeps == RaftInv /\ Restart => RaftInv'
BY ResumeKeeps, StartEmptyKeeps, Zenon DEF Restart, Restarted

\* RaftInv is inductive.
LEMMA RaftInductive == Spec => []RaftInv
<1>1. Init => RaftInv
  <2> SUFFICES ASSUME Init PROVE RaftInv
    BY Zenon
  <2>1. Len(raft_buffer) = 0 /\ Len(raft_batch) = 0 /\ Settled = 0
    <3>1. Len(raft_buffer) = 0 /\ Len(raft_batch) = 0 /\ applied = 0
      BY Zenon DEF Init
    <3>2. QED
      BY <3>1 DEF Settled
  <2>2. Range(logRows) = {}
    BY Contents, Zenon DEF Init
  <2>3. Increasing(logRows)
    BY DEF Init, Increasing
  <2>4. QED
    BY <2>1, <2>2, <2>3, FlushAssumption DEF Init, RaftInv
<1>2. RaftInv /\ [Next]_vars => RaftInv'
  <2> SUFFICES ASSUME RaftInv, [Next]_vars PROVE RaftInv'
    BY Zenon
  <2>1. CASE UNCHANGED raftVars
    BY <2>1, Zenon DEF raftVars, logVars, RaftInv, Settled
  <2>2. CASE AppendEntry
    BY <2>2 DEF AppendEntry, RaftInv, Settled
  <2>3. CASE DeleteLogsFrom
    BY <2>3, SMTT(30) DEF DeleteLogsFrom, RaftInv, Settled
  <2>4. QED
    BY <2>1, <2>2, <2>3, ConnectionSteps, ArchiveKeeps, DrainRaftKeeps, InsertRaftKeeps,
       RestartRaftKeeps, Zenon DEF Next, vars
<1>3. QED
  BY <1>1, <1>2, PTL DEF Spec

\* The archive of a Raft log is in order and without repetition, its gaps are
\* the entries lost, and it lags by less than a batch while the applier rests,
\* for every batch size, over deletions and over any number of crashes that
\* leave the log readable; one that does not begins a new archive (archive_raft_log,
\* flush_raft_logs, get_initial_state, PersistentStorage::new).
THEOREM LogAlwaysArchived == Spec => []LogArchived
<1>1. RaftInv => LogArchived
  <2> SUFFICES ASSUME RaftInv PROVE LogArchived
    BY Zenon
  <2>1. ASSUME applier = "idle", NEW n \in 1 .. applied,
               n \notin Range(logRows) \cup logLost
        PROVE  n > applied - (BatchSize - 1)
    <3>1. n \in Nat /\ applied \in Nat /\ ~(n \in 1 .. Settled)
      BY <2>1 DEF RaftInv
    <3>2. Len(raft_batch) = 0 /\ Len(raft_buffer) < BatchSize
      BY <2>1 DEF RaftInv
    <3>3. QED
      BY <2>1, <3>1, <3>2, Pending, FlushAssumption
  <2>2. QED
    BY <2>1, Zenon DEF LogArchived, RaftInv, Increasing
<1>2. QED
  BY <1>1, RaftInductive, PTL

=============================================================================
