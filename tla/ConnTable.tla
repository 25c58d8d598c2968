----------------------------- MODULE ConnTable -----------------------------
(***************************************************************************)
(* What the storage engine promises its callers: one table from connection *)
(* identifiers to connection records, on which every upsert, get and       *)
(* delete takes effect at a single instant between its call and its        *)
(* return.  StorageEngine, with its segments, index and rotation, is shown *)
(* to implement this specification.                                        *)
(***************************************************************************)
CONSTANTS
  Procs,     \* concurrent callers
  Conns,     \* connection identifiers
  Records,   \* connection records: the connection, and the txid of the upsert
  None       \* "no record"

VARIABLES
  table,     \* table[k] is the record of connection k, or None
  writing,   \* writing[p] is the record p is upserting, or None
  reading,   \* reading[p] is <<v>> once p's get has been decided to be v, else <<>>
  answer     \* answer[p] is what p's last completed call returned

tvars == <<table, writing, reading, answer>>

TInit ==
  /\ table = [k \in Conns |-> None]
  /\ writing = [p \in Procs |-> None]
  /\ reading = [p \in Procs |-> <<>>]
  /\ answer = [p \in Procs |-> <<"none">>]

Quiet(p) == writing[p] = None /\ reading[p] = <<>>

CallUpsert(p) ==
  /\ Quiet(p)
  /\ writing'[p] \in Records
  /\ writing' = [writing EXCEPT ![p] = writing'[p]]
  /\ UNCHANGED <<table, reading, answer>>

\* The upsert takes effect and returns its transaction id.
DoUpsert(p) ==
  /\ writing[p] # None
  /\ table' = [table EXCEPT ![writing[p].conn] = writing[p]]
  /\ answer' = [answer EXCEPT ![p] = <<"txid", writing[p].txid>>]
  /\ writing' = [writing EXCEPT ![p] = None]
  /\ UNCHANGED reading

\* The upsert reports SegmentFull; the table keeps what it had.
FailUpsert(p) ==
  /\ writing[p] # None
  /\ answer' = [answer EXCEPT ![p] = <<"SegmentFull">>]
  /\ writing' = [writing EXCEPT ![p] = None]
  /\ UNCHANGED <<table, reading>>

\* A get of an absent connection returns at once.
GetAbsent(p, k) ==
  /\ Quiet(p)
  /\ table[k] = None
  /\ answer' = [answer EXCEPT ![p] = <<"none">>]
  /\ UNCHANGED <<table, writing, reading>>

\* A get of a present connection is decided here ...
GetDecide(p, k) ==
  /\ Quiet(p)
  /\ table[k] # None
  /\ reading' = [reading EXCEPT ![p] = <<table[k]>>]
  /\ UNCHANGED <<table, writing, answer>>

\* ... and returns what was decided, whatever happened to the table since.
GetReturn(p) ==
  /\ reading[p] # <<>>
  /\ answer' = [answer EXCEPT ![p] = <<"record", reading[p][1]>>]
  /\ reading' = [reading EXCEPT ![p] = <<>>]
  /\ UNCHANGED <<table, writing>>

DoDelete(p, k) ==
  /\ Quiet(p)
  /\ table' = [table EXCEPT ![k] = None]
  /\ answer' = [answer EXCEPT ![p] = IF table[k] = None THEN <<"none">> ELSE <<"removed", table[k]>>]
  /\ UNCHANGED <<writing, reading>>

TNext ==
  \E p \in Procs :
    \/ CallUpsert(p) \/ DoUpsert(p) \/ FailUpsert(p) \/ GetReturn(p)
    \/ \E k \in Conns : GetAbsent(p, k) \/ GetDecide(p, k) \/ DoDelete(p, k)

TSpec == TInit /\ [][TNext]_tvars
=============================================================================
