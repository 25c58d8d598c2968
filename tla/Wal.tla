-------------------------------- MODULE Wal --------------------------------
(***************************************************************************)
(* The write-ahead log (crates/storage: wal.rs).  append issues three      *)
(* writes: a 4-byte checksum, an 8-byte length and the data.  A record is  *)
(* four cells here: the checksum in two halves, because read_all treats a  *)
(* checksum cut short as the end of the log and any other cut as an error, *)
(* then the length and the data.  Records are taken to be equally long.    *)
(*                                                                         *)
(* `file' is what the process sees, `disk' what the last sync_all made     *)
(* durable.  A crash keeps the writes since then up to some point, which   *)
(* may be inside a record.                                                 *)
(***************************************************************************)
EXTENDS Integers, Sequences, Functions

VARIABLES
  file,   \* the cells of the file
  pos,    \* the file position: cells before it
  disk,   \* the cells at the last sync
  base    \* the position at the last sync; everything since was written from here

walvars == <<file, pos, disk, base>>

Cells(r) == << <<"crc", r>>, <<"crc2", r>>, <<"len", r>>, <<"data", r>> >>
RecordCells == 4

\* the cells of records written one after the other
AllCells(rs) ==
  [i \in 1..(Len(rs) * RecordCells) |->
     Cells(rs[((i - 1) \div RecordCells) + 1])[((i - 1) % RecordCells) + 1]]

\* cells written over f from position at on
Write(f, at, cells) ==
  [i \in 1..(IF at + Len(cells) > Len(f) THEN at + Len(cells) ELSE Len(f)) |->
     IF i > at /\ i <= at + Len(cells) THEN cells[i - at] ELSE f[i]]

WalInit == file = <<>> /\ pos = 0 /\ disk = <<>> /\ base = 0

\* append: the three writes, of which an I/O error lets only the first n cells through
WriteCells(r, n) ==
  /\ file' = Write(file, pos, SubSeq(Cells(r), 1, n))
  /\ pos' = pos + n
  /\ UNCHANGED <<disk, base>>

WalAppend(r) == WriteCells(r, RecordCells)

\* a plausible slip: the sync is left out
WalSync_Nop == UNCHANGED <<file, pos, disk, base>>

\* sync
WalSync == disk' = file /\ base' = pos /\ UNCHANGED <<file, pos>>

-----------------------------------------------------------------------------
(***************************************************************************)
(* read_all                                                                *)
(***************************************************************************)
\* the cells from i on are those of one record, so length and checksum agree
Whole(f, i) ==
  i + RecordCells <= Len(f) /\ \A c \in 1..RecordCells : f[i + c] = Cells(f[i + 1][2])[c]

\* where a failed read leaves the position: at the end of the file when the
\* length or the data is cut short, after the record when its checksum does not
\* match; bytes that are no length stand for any length, too large included
StopsAt(f, i) ==
  IF i + 3 > Len(f) THEN {Len(f)}
  ELSE IF f[i + 3][1] # "len" THEN (i + 3)..Len(f)
  ELSE IF i + RecordCells > Len(f) THEN {Len(f)}
  ELSE {i + RecordCells}

\* how many times the loop finds a whole record
Turns(f) ==
  CHOOSE k \in 0..Len(f) : /\ ~Whole(f, k * RecordCells)
                           /\ \A j \in 0..(k - 1) : Whole(f, j * RecordCells)

\* the records up to the end of the log, or up to the first bad one and an error
ReadAll(f) ==
  LET k   == Turns(f)
      eof == Len(f) - k * RecordCells < 2
  IN [ok      |-> eof,
      entries |-> [j \in 1..k |-> f[(j - 1) * RecordCells + 1][2]],
      ends    |-> IF eof THEN {Len(f)} ELSE StopsAt(f, k * RecordCells)]

\* the files a crash can leave
CrashImages == {Write(disk, base, SubSeq(file, base + 1, base + n)) : n \in 0..(pos - base)}

\* a plausible slip: the log is replayed through another handle, so that the
\* position of the one that appends stays at the start
WalReopen_AtStart(image) ==
  /\ file' = image /\ disk' = image
  /\ pos' = 0 /\ base' = 0

\* a crash, and the open and read_all of the next process
WalReopen(image) ==
  /\ file' = image /\ disk' = image
  /\ pos' \in ReadAll(image).ends
  /\ base' = pos'
=============================================================================
