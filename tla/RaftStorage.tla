---------------------------- MODULE RaftStorage ----------------------------
(***************************************************************************)
(* The storage under the Raft log (crates/raft: storage.rs) over the WAL.  *)
(* async-raft's core calls it one operation at a time; an operation that   *)
(* writes updates memory, appends to the WAL and then syncs, and a crash   *)
(* may come between any two of these.  An operation that fails with an I/O *)
(* error stops the Raft core, except save_hard_state, which ignores it.    *)
(*                                                                         *)
(* WAL records are log entries or hard-state markers; `n' numbers them in  *)
(* the order of the appends, so that any two are different.                *)
(***************************************************************************)
EXTENDS Wal

CONSTANTS
  MaxTerm,     \* bound on the terms
  MaxIndex,    \* bound on the log indexes
  MaxWrites,   \* bound on the WAL records written
  MaxCrashes,  \* bound on the crashes
  MaxIoErrors  \* bound on the failing writes and syncs

ASSUME BoundAssumption ==
  {MaxTerm, MaxIndex, MaxWrites, MaxCrashes, MaxIoErrors} \subseteq Nat

VARIABLES
  log,         \* the in-memory log
  hard_state,  \* the in-memory HardState (current_term; the vote goes with it)
  op,          \* the operation under way
  writes, crashes, ioerrors,   \* how much of each bound is used
  acked,       \* history: entries whose append returned Ok, not deleted since
  torn         \* history: some crash or error left part of a record in the file

raftVars == <<walvars, log, hard_state, op, writes, crashes, ioerrors, acked, torn>>

NoTerm == 0
Entry == [kind : {"entry"}, index : 1..MaxIndex, term : 1..MaxTerm, n : 1..MaxWrites]
Marker == [kind : {"hardstate"}, term : 1..MaxTerm, n : 1..MaxWrites]
Ops == {"idle", "append", "hardstate", "stopped"}

RaftInit ==
  /\ WalInit
  /\ log = <<>> /\ hard_state = NoTerm /\ op = "idle"
  /\ writes = 0 /\ crashes = 0 /\ ioerrors = 0
  /\ acked = {} /\ torn = FALSE

LastIndex == IF log = <<>> THEN 0 ELSE log[Len(log)].index

\* the entries the Raft core hands over next: they follow the log, in the current term
NextEntries(k) ==
  {[j \in 1..k |-> [kind |-> "entry", index |-> LastIndex + j, term |-> hard_state,
                    n |-> writes + j]]} \cap [1..k -> Entry]

\* append_entry_to_log and, with several entries, replicate_to_log: push to the
\* log, then append each entry to the WAL; Ok only after the sync
AppendEntries ==
  /\ op = "idle"
  /\ \E k \in 1..2 : \E es \in NextEntries(k) :
       /\ log' = log \o es
       /\ file' = Write(file, pos, AllCells(es))
       /\ pos' = pos + k * RecordCells
       /\ writes' = writes + k
  /\ op' = "append"
  /\ UNCHANGED <<disk, base, hard_state, crashes, ioerrors, acked, torn>>

\* an append fails after n cells of the batch, in any of its records or between
\* two of them: the `?' returns the error, the log keeps all the entries
AppendEntriesFail ==
  /\ op = "idle" /\ ioerrors < MaxIoErrors
  /\ \E k \in 1..2 : \E es \in NextEntries(k), n \in 0..(k * RecordCells) :
       /\ log' = log \o es
       /\ file' = Write(file, pos, SubSeq(AllCells(es), 1, n))
       /\ pos' = pos + n
       /\ torn' = (torn \/ n % RecordCells # 0)
       /\ writes' = writes + k
  /\ ioerrors' = ioerrors + 1
  /\ op' = "stopped"
  /\ UNCHANGED <<disk, base, hard_state, crashes, acked>>

SyncEntries ==
  /\ op = "append"
  /\ WalSync
  /\ acked' = acked \cup {r \in {file[i][2] : i \in (base + 1)..pos} : r.kind = "entry"}
  /\ op' = "idle"
  /\ UNCHANGED <<log, hard_state, writes, crashes, ioerrors, torn>>

\* the sync fails: nothing more is known to be on disk, and the `?' returns the
\* error although the log and the file hold the entries
SyncEntriesFails ==
  /\ op = "append" /\ ioerrors < MaxIoErrors
  /\ ioerrors' = ioerrors + 1
  /\ op' = "stopped"
  /\ UNCHANGED <<walvars, log, hard_state, writes, crashes, acked, torn>>

\* save_hard_state: memory first, then the marker
SaveHardState ==
  /\ op = "idle" /\ writes < MaxWrites
  /\ \E t \in (hard_state + 1)..MaxTerm :
       /\ hard_state' = t
       /\ WalAppend([kind |-> "hardstate", term |-> t, n |-> writes + 1])
  /\ writes' = writes + 1
  /\ op' = "hardstate"
  /\ UNCHANGED <<log, crashes, ioerrors, acked, torn>>

\* `let _ =': an error of the append is dropped, the sync still runs
SaveHardStateFails ==
  /\ op = "idle" /\ writes < MaxWrites /\ ioerrors < MaxIoErrors
  /\ \E t \in (hard_state + 1)..MaxTerm, n \in 0..(RecordCells - 1) :
       /\ hard_state' = t
       /\ WriteCells([kind |-> "hardstate", term |-> t, n |-> writes + 1], n)
       /\ torn' = (torn \/ n > 0)
  /\ writes' = writes + 1 /\ ioerrors' = ioerrors + 1
  /\ op' = "hardstate"
  /\ UNCHANGED <<log, crashes, acked>>

SyncHardState ==
  /\ op = "hardstate"
  /\ WalSync
  /\ op' = "idle"
  /\ UNCHANGED <<log, hard_state, writes, crashes, ioerrors, acked, torn>>

\* `let _ =' again: the writes are left to the next sync
SyncHardStateFails ==
  /\ op = "hardstate" /\ ioerrors < MaxIoErrors
  /\ ioerrors' = ioerrors + 1
  /\ op' = "idle"
  /\ UNCHANGED <<walvars, log, hard_state, writes, crashes, acked, torn>>

\* delete_logs_from(start, Some(stop)), in memory only; a stop past every index
\* is None
DeleteLogsFrom ==
  /\ op = "idle"
  /\ \E start \in 1..LastIndex : \E stop \in (start + 1)..(MaxIndex + 1) :
       LET Kept(e) == e.index < start \/ e.index >= stop
       IN  /\ log' = SelectSeq(log, Kept)
           /\ acked' = {e \in acked : Kept(e)}
  /\ UNCHANGED <<walvars, hard_state, op, writes, crashes, ioerrors, torn>>

\* what PersistentStorage::new makes of the WAL: hard-state markers do not parse
\* as entries and are skipped, an error leaves the log empty
Replay(f) ==
  IF ReadAll(f).ok THEN SelectSeq(ReadAll(f).entries, LAMBDA r : r.kind = "entry") ELSE <<>>

\* the process dies and PersistentStorage::new runs again
Restart ==
  /\ crashes < MaxCrashes
  /\ \E image \in CrashImages :
       /\ WalReopen(image)
       /\ log' = Replay(image)
       /\ torn' = (torn \/ Len(image) % RecordCells # 0)
  /\ hard_state' = NoTerm
  /\ crashes' = crashes + 1
  /\ op' = "idle"
  /\ UNCHANGED <<writes, ioerrors, acked>>

RaftNext ==
  \/ AppendEntries \/ AppendEntriesFail \/ SyncEntries \/ SyncEntriesFails
  \/ SaveHardState \/ SaveHardStateFails \/ SyncHardState \/ SyncHardStateFails
  \/ DeleteLogsFrom \/ Restart

RaftSpec == RaftInit /\ [][RaftNext]_raftVars

-----------------------------------------------------------------------------
\* Types, and the shape of the file: the position is inside it, and unsynced
\* writes lie between base and the position.
RaftTypeOK ==
  /\ Range(log) \subseteq Entry
  /\ \A i \in DOMAIN file : file[i][1] \in {"crc", "crc2", "len", "data"}
                            /\ file[i][2] \in Entry \cup Marker
  /\ 0 <= base /\ base <= pos /\ pos <= Len(file) /\ Len(disk) <= Len(file)
  /\ hard_state \in 0..MaxTerm
  /\ op \in Ops /\ acked \subseteq Entry /\ torn \in BOOLEAN

\* Whatever a crash or an I/O error left in the file, read_all invents nothing:
\* the records it returns are whole, each once, in the order of their appends.
RecoveryInOrder ==
  \A image \in CrashImages :
    LET es == ReadAll(image).entries
    IN \A i, j \in DOMAIN es : i < j => es[i].n < es[j].n

\* As long as no crash and no error ever left part of a record behind, every
\* entry an append has acknowledged is in whatever a crash leaves.
SyncedSurvive ==
  ~torn =>
    \A image \in CrashImages : acked \subseteq Range(ReadAll(image).entries)
=============================================================================
