---------------------------- MODULE FlushBuffers ----------------------------
(***************************************************************************)
(* The ClickHouse backup (storage/src/clickhouse_backup.rs): records of    *)
(* connections and of applied Raft entries gather in two buffers and are   *)
(* inserted in batches.  A buffer is drained under its lock and inserted   *)
(* after the lock is released.  The connection buffer is flushed by the    *)
(* caller that fills it and by a periodic task; the Raft buffer only by    *)
(* the applier that fills it (raft/src/storage.rs).  The tables are        *)
(* created by a task that starts together with everything else.  The       *)
(* buffers are in memory: a crash loses them, and the node then takes the  *)
(* last entry it restores for applied (get_initial_state).  Of the WAL     *)
(* this module keeps what recovery depends on: the last entry written to   *)
(* it and whether read_all succeeds (Wal has the file itself).             *)
(***************************************************************************)
EXTENDS Integers, Sequences, Functions, FiniteSets

CONSTANTS
    Callers,     \* tasks that record connections
    Ticker,      \* the background flush task
    BatchSize,   \* config.batch_size
    MaxRecords,  \* bound on the connections recorded
    MaxIndex,    \* bound on the index of a Raft entry
    MaxRestarts  \* bound on crashes

ASSUME FlushAssumption ==
    /\ IsFiniteSet(Callers) /\ Ticker \notin Callers
    /\ BatchSize \in Nat \ {0} /\ {MaxRecords, MaxIndex, MaxRestarts} \subseteq Nat

VARIABLES
    pc,          \* each flusher: "idle", "flush" (about to drain), "insert"
    buffer,      \* connection records waiting
    batch,       \* the records each flusher has drained and is inserting
    recorded,    \* connections recorded so far
    rows,        \* the connections table
    lost,        \* records of failed inserts, and those a crash took
    applier,     \* the Raft applier: "idle", "flush" or "insert"
    raft_buffer, raft_batch,  \* the same for Raft entries
    appended,    \* the last entry of the log
    onDisk,      \* the last entry written to the WAL
    wal,         \* the WAL: "whole", "cut" (ends inside a checksum) or "bad"
    applied,     \* the last entry applied
    earlier,     \* the logs table up to when the log last started empty
    logRows,     \* the rows of the logs table since then
    logLost,     \* the entries lost since then
    ensure,      \* ensure_tables: at "connections", at "logs", or "ended"
    tables,      \* the tables that exist
    restarts

connVars == <<pc, buffer, batch, recorded, rows, lost>>
logVars == <<appended, onDisk, wal>>
raftVars == <<applier, raft_buffer, raft_batch, logVars, applied, earlier, logRows, logLost>>
dbVars == <<ensure, tables, restarts>>
vars == <<connVars, raftVars, dbVars>>

Flushers == Callers \cup {Ticker}

Init ==
    /\ pc = [f \in Flushers |-> "idle"] /\ batch = [f \in Flushers |-> <<>>]
    /\ buffer = <<>> /\ recorded = 0 /\ rows = <<>> /\ lost = {}
    /\ applier = "idle" /\ raft_buffer = <<>> /\ raft_batch = <<>>
    /\ appended = 0 /\ onDisk = 0 /\ wal = "whole" /\ applied = 0
    /\ earlier = <<>> /\ logRows = <<>> /\ logLost = {}
    /\ ensure = "connections" /\ tables = {} /\ restarts = 0

-----------------------------------------------------------------------------
(* Connections.                                                            *)

\* Mutant of RecordConnection: the buffer is flushed when it exceeds the size.
RecordConnection_Over(c) ==
    /\ pc[c] = "idle" /\ recorded < MaxRecords
    /\ recorded' = recorded + 1
    /\ buffer' = Append(buffer, recorded + 1)
    /\ pc' = [pc EXCEPT ![c] = IF Len(buffer') > BatchSize THEN "flush" ELSE "idle"]
    /\ UNCHANGED <<batch, rows, lost, raftVars, dbVars>>

\* The record is pushed under the lock; the caller that finds the batch full
\* releases the lock and then flushes.
RecordConnection(c) ==
    /\ pc[c] = "idle" /\ recorded < MaxRecords
    /\ recorded' = recorded + 1
    /\ buffer' = Append(buffer, recorded + 1)
    /\ pc' = [pc EXCEPT ![c] = IF Len(buffer') >= BatchSize THEN "flush" ELSE "idle"]
    /\ UNCHANGED <<batch, rows, lost, raftVars, dbVars>>

\* Mutant of Tick: the task leaves a batch that is not full.
Tick_Full ==
    /\ pc[Ticker] = "idle"
    /\ pc' = [pc EXCEPT ![Ticker] = IF Len(buffer) >= BatchSize THEN "flush" ELSE "idle"]
    /\ UNCHANGED <<buffer, batch, recorded, rows, lost, raftVars, dbVars>>

\* The background task's timer fires.
Tick ==
    /\ pc[Ticker] = "idle"
    /\ pc' = [pc EXCEPT ![Ticker] = "flush"]
    /\ UNCHANGED <<buffer, batch, recorded, rows, lost, raftVars, dbVars>>

\* Mutant of Drain: the buffer is copied and cleared after the insert.
Drain_Copy(f) ==
    /\ pc[f] = "flush"
    /\ pc' = [pc EXCEPT ![f] = IF buffer = <<>> THEN "idle" ELSE "insert"]
    /\ batch' = [batch EXCEPT ![f] = buffer]
    /\ UNCHANGED <<buffer, recorded, rows, lost, raftVars, dbVars>>

\* flush takes whatever is in the buffer, nothing if another flush was first.
Drain(f) ==
    /\ pc[f] = "flush"
    /\ pc' = [pc EXCEPT ![f] = IF buffer = <<>> THEN "idle" ELSE "insert"]
    /\ batch' = [batch EXCEPT ![f] = buffer]
    /\ buffer' = <<>>
    /\ UNCHANGED <<recorded, rows, lost, raftVars, dbVars>>

\* The batch arrives as a whole (the insert ends or is aborted).  The answer
\* may still be an error: the caller then learns of it and nothing retries.
Insert(f) ==
    /\ pc[f] = "insert" /\ "connections" \in tables
    /\ rows' = rows \o batch[f]
    /\ batch' = [batch EXCEPT ![f] = <<>>] /\ pc' = [pc EXCEPT ![f] = "idle"]
    /\ UNCHANGED <<buffer, recorded, lost, raftVars, dbVars>>

\* The database is away or the table is not there yet: the error goes to the
\* caller (the background task logs it) and the drained records are gone.
InsertFails(f) ==
    /\ pc[f] = "insert"
    /\ lost' = lost \cup Range(batch[f])
    /\ batch' = [batch EXCEPT ![f] = <<>>] /\ pc' = [pc EXCEPT ![f] = "idle"]
    /\ UNCHANGED <<buffer, recorded, rows, raftVars, dbVars>>

-----------------------------------------------------------------------------
(* Raft entries, applied one after the other.                              *)

\* append_entry_to_log, replicate_to_log: the entry is in the log and synced.
\* A record behind a checksum that was cut short cannot be read.
AppendEntry ==
    /\ appended < MaxIndex
    /\ appended' = appended + 1 /\ onDisk' = appended + 1
    /\ wal' = IF wal = "cut" THEN "bad" ELSE wal
    /\ UNCHANGED <<connVars, applier, raft_buffer, raft_batch, applied, earlier, logRows,
                   logLost, dbVars>>

\* delete_logs_from: entries that were not applied leave the log, not the WAL.
DeleteLogsFrom ==
    /\ appended' \in applied .. appended - 1
    /\ UNCHANGED <<connVars, applier, raft_buffer, raft_batch, onDisk, wal, applied, earlier,
                   logRows, logLost, dbVars>>

\* apply_entry_to_state_machine waits for archive_raft_log and with it for
\* the flush the entry may cause.
ArchiveRaftLog ==
    /\ applier = "idle" /\ applied < appended
    /\ applied' = applied + 1
    /\ raft_buffer' = Append(raft_buffer, applied + 1)
    /\ applier' = IF Len(raft_buffer') >= BatchSize THEN "flush" ELSE "idle"
    /\ UNCHANGED <<connVars, raft_batch, logVars, earlier, logRows, logLost, dbVars>>

\* flush_raft_logs, with a buffer that only the applier fills and drains.
DrainRaft ==
    /\ applier = "flush"
    /\ raft_batch' = raft_buffer /\ raft_buffer' = <<>>
    /\ applier' = "insert"
    /\ UNCHANGED <<connVars, logVars, applied, earlier, logRows, logLost, dbVars>>

InsertRaft ==
    /\ applier = "insert" /\ "logs" \in tables
    /\ logRows' = logRows \o raft_batch
    /\ raft_batch' = <<>> /\ applier' = "idle"
    /\ UNCHANGED <<connVars, raft_buffer, logVars, applied, earlier, logLost, dbVars>>

\* The error is discarded by "let _ =" and the entry counts as applied.
InsertRaftFails ==
    /\ applier = "insert"
    /\ logLost' = logLost \cup Range(raft_batch)
    /\ raft_batch' = <<>> /\ applier' = "idle"
    /\ UNCHANGED <<connVars, raft_buffer, logVars, applied, earlier, logRows, dbVars>>

-----------------------------------------------------------------------------
(* ensure_tables, spawned beside the rest.  An error ends it: without the  *)
(* first table the second is not attempted.                                *)

EnsureTable ==
    /\ ensure = "connections"
    /\ \/ ensure' = "logs" /\ tables' = tables \cup {"connections"}
       \/ ensure' = "ended" /\ UNCHANGED tables
    /\ UNCHANGED <<connVars, raftVars, restarts>>

EnsureLogsTable ==
    /\ ensure = "logs"
    /\ ensure' = "ended"
    /\ tables' \in {tables, tables \cup {"logs"}}
    /\ UNCHANGED <<connVars, raftVars, restarts>>

-----------------------------------------------------------------------------
(* Crash and restart: what is in memory is gone, the tables and the WAL    *)
(* remain.  The crash may be inside the append of an entry.                *)

CrashLeaves(condition) ==
    CASE condition = "whole" -> {"whole", "cut", "bad"}
      [] condition = "cut"   -> {"cut", "bad"}
      [] condition = "bad"   -> {"bad"}

\* The log is read back, and its last entry counts as the last one applied.
Resume(last) ==
    /\ wal' \in CrashLeaves(wal) \ {"bad"}
    /\ logLost' = logLost \cup Range(raft_buffer) \cup Range(raft_batch)
                          \cup applied + 1 .. last
    /\ appended' = onDisk /\ applied' = last
    /\ UNCHANGED <<onDisk, earlier, logRows>>

\* read_all fails, now and ever after: the log starts empty, and entries with
\* the old indexes are appended, applied and archived again.
StartEmpty ==
    /\ wal' = "bad"
    /\ earlier' = earlier \o logRows
    /\ logRows' = <<>> /\ logLost' = {}
    /\ appended' = 0 /\ applied' = 0 /\ onDisk' = 0

Restarted(last) ==
    /\ restarts < MaxRestarts /\ restarts' = restarts + 1
    /\ lost' = lost \cup Range(buffer) \cup UNION {Range(batch[f]) : f \in Flushers}
    /\ buffer' = <<>> /\ batch' = [f \in Flushers |-> <<>>]
    /\ pc' = [f \in Flushers |-> "idle"]
    /\ applier' = "idle" /\ raft_buffer' = <<>> /\ raft_batch' = <<>>
    /\ Resume(last) \/ StartEmpty
    /\ ensure' = "connections"
    /\ UNCHANGED <<recorded, rows, tables>>

\* Mutant of Restart: nothing counts as applied after a restart.
Restart_FromStart == Restarted(0)

Restart == Restarted(onDisk)

Next ==
    \/ \E c \in Callers : RecordConnection(c)
    \/ Tick
    \/ \E f \in Flushers : Drain(f) \/ Insert(f) \/ InsertFails(f)
    \/ ArchiveRaftLog \/ DrainRaft \/ InsertRaft \/ InsertRaftFails
    \/ AppendEntry \/ DeleteLogsFrom \/ EnsureTable \/ EnsureLogsTable \/ Restart

\* The timer keeps firing, and a flush that began ends: every insert returns.
Fairness ==
    /\ WF_vars(Tick)
    /\ \A f \in Flushers : WF_vars(Drain(f)) /\ WF_vars(Insert(f) \/ InsertFails(f))

Spec == Init /\ [][Next]_vars /\ Fairness

-----------------------------------------------------------------------------

\* Types; the Raft buffer and a batch taken from it never exceed BatchSize
\* (archive_raft_log).
TypeOK ==
    /\ pc \in [Flushers -> {"idle", "flush", "insert"}]
    /\ applier \in {"idle", "flush", "insert"}
    /\ ensure \in {"connections", "logs", "ended"} /\ tables \subseteq {"connections", "logs"}
    /\ recorded \in 0 .. MaxRecords /\ {appended, onDisk} \subseteq 0 .. MaxIndex
    /\ wal \in {"whole", "cut", "bad"} /\ applied \in 0 .. appended /\ restarts \in 0 .. MaxRestarts
    /\ Len(raft_buffer) <= BatchSize /\ Len(raft_batch) <= BatchSize

Occurrences(n) ==
    LET In(s) == Cardinality({i \in DOMAIN s : s[i] = n})
        held  == {f \in Flushers : n \in Range(batch[f])}
    IN  In(buffer) + In(rows) + Cardinality(held) + (IF n \in lost THEN 1 ELSE 0)

\* Every connection recorded is in exactly one place: the buffer, the batch
\* of one flusher, the table, or lost with a failed insert or a crash.  Two
\* flushes that overlap neither insert a record twice nor leave one out (flush).
RecordedOnce ==
    \A n \in 1 .. recorded : Occurrences(n) = 1

\* Recording outruns the flushes only by the callers that are about to flush:
\* a buffer that has grown to a batch has a flush under way for it
\* (record_connection).
BufferBounded ==
    LET flushing == {c \in Callers : pc[c] = "flush"}
    IN  Len(buffer) <= BatchSize - 1 + Cardinality(flushing)

\* As long as restarts find a log, the archive of it is in index order and
\* without repetition, over deletions and crashes too; its gaps are failed
\* inserts, what a crash took and what a restart counts as applied; and it
\* lags the applied entries by less than a batch whenever the applier is at
\* rest.  Only a log that started empty is archived from index 1 again
\* (archive_raft_log, get_initial_state, PersistentStorage::new).
LogArchived ==
    /\ \A i, j \in DOMAIN logRows : i < j => logRows[i] < logRows[j]
    /\ Range(logRows) \cap logLost = {}
    /\ applier = "idle" =>
        \A n \in 1 .. applied :
            n \in Range(logRows) \cup logLost \/ n > applied - (BatchSize - 1)

\* A connection recorded does not stay in the buffer: the periodic flush
\* takes it even if no further connection comes (start_flush_task).
RecordLeavesBuffer ==
    \A n \in 1 .. MaxRecords : n \in Range(buffer) ~> n \notin Range(buffer)

=============================================================================
