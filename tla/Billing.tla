------------------------------ MODULE Billing ------------------------------
(***************************************************************************)
(* The billing aggregator (daemon/src/billing.rs): usage is added up per   *)
(* user in memory; a flush takes the whole map and then writes one row per *)
(* user to the database, while new usage goes to the map it left empty.    *)
(*                                                                         *)
(* Usage is counted in frames.  A component module: HandlerSession         *)
(* composes these operations with the sessions that record usage.          *)
(***************************************************************************)
EXTENDS Naturals

CONSTANT Users

VARIABLES
  usage,    \* the aggregation map (0: no entry)
  batch,    \* the map a flush took and has not written yet
  billed,   \* the rows in the database, summed per user
  unbilled  \* history: usage whose row could not be written

billvars == <<usage, batch, billed, unbilled>>

Nothing == [u \in Users |-> 0]

BillingInit ==
  /\ usage = Nothing /\ batch = Nothing /\ billed = Nothing /\ unbilled = Nothing

RecordUsage(u) ==
  /\ usage' = [usage EXCEPT ![u] = @ + 1]
  /\ UNCHANGED <<batch, billed, unbilled>>

\* a plausible slip: the map is copied, and cleared only when the batch is done
FlushTake_Copy ==
  /\ batch = Nothing /\ usage # Nothing
  /\ batch' = usage
  /\ UNCHANGED <<usage, billed, unbilled>>

\* flush, under the lock: take the map
FlushTake ==
  /\ batch = Nothing /\ usage # Nothing
  /\ batch' = usage
  /\ usage' = Nothing
  /\ UNCHANGED <<billed, unbilled>>

\* flush, without the lock: write the row of one user
FlushUser(u) ==
  /\ batch[u] > 0
  /\ billed' = [billed EXCEPT ![u] = @ + batch[u]]
  /\ batch' = [batch EXCEPT ![u] = 0]
  /\ UNCHANGED <<usage, unbilled>>

\* the write fails: the error is logged and the usage is dropped
FlushUserFails(u) ==
  /\ batch[u] > 0
  /\ unbilled' = [unbilled EXCEPT ![u] = @ + batch[u]]
  /\ batch' = [batch EXCEPT ![u] = 0]
  /\ UNCHANGED <<usage, billed>>
=============================================================================
