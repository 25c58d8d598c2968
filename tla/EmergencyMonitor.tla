-------------------------- MODULE EmergencyMonitor --------------------------
(***************************************************************************)
(* The daemon's emergency monitor (daemon/src/emergency.rs): a loop that   *)
(* looks for a trigger on crates.io, calls of trigger from other threads,  *)
(* and the shutdown when the delay is over.  trigger stores two atomics    *)
(* with Relaxed ordering, so the loop may see the flag and still read an   *)
(* older trigger_at; it never reads one older than it has read or written. *)
(***************************************************************************)
EXTENDS Integers, Sequences

CONSTANTS
    Operators,     \* threads that call trigger
    Delays,        \* the delays they and the loop choose
    MaxSeconds     \* bound on the clock while nobody waits

ASSUME EmergencyAssumption == Delays \subseteq Nat /\ Delays # {} /\ MaxSeconds \in Nat

VARIABLES
    seconds,
    triggered,
    trigger_at,    \* the values stored so far, in order
    seen,          \* the position of the one the loop has seen last
    monitor,       \* "new", "sleep", "query", "trigger", "failed" or "stopped"
    operator       \* "idle", "store" (between the two stores) or "done"

emergencyVars == <<seconds, triggered, trigger_at, seen, monitor, operator>>

EmergencyInit ==
    /\ seconds = 0 /\ triggered = FALSE /\ trigger_at = <<0>> /\ seen = 1
    /\ monitor = "new" /\ operator = [o \in Operators |-> "idle"]

\* trigger, the first store: after it comes the flag.
StoreTriggerAt(o) ==
    /\ operator[o] = "idle"
    /\ \E d \in Delays : trigger_at' = Append(trigger_at, seconds + d)
    /\ operator' = [operator EXCEPT ![o] = "store"]
    /\ UNCHANGED <<seconds, triggered, seen, monitor>>

StoreTriggered(o) ==
    /\ operator[o] = "store"
    /\ triggered' = TRUE
    /\ operator' = [operator EXCEPT ![o] = "done"]
    /\ UNCHANGED <<seconds, trigger_at, seen, monitor>>

\* start: without a crates.io client the loop never begins.
StartMonitor ==
    /\ monitor = "new"
    /\ monitor' \in {"sleep", "failed"}
    /\ UNCHANGED <<seconds, triggered, trigger_at, seen, operator>>

\* Mutant of WakeTriggered: only the very second of the delay's end counts.
WakeTriggered_Exact ==
    /\ monitor = "sleep" /\ triggered
    /\ \E i \in seen .. Len(trigger_at) :
        /\ seen' = i
        /\ monitor' = IF seconds = trigger_at[i] THEN "stopped" ELSE "sleep"
    /\ UNCHANGED <<seconds, triggered, trigger_at, operator>>

\* The sleep ends.  Once triggered, only the time is looked at.
WakeTriggered ==
    /\ monitor = "sleep" /\ triggered
    /\ \E i \in seen .. Len(trigger_at) :
        /\ seen' = i
        /\ monitor' = IF seconds >= trigger_at[i] THEN "stopped" ELSE "sleep"
    /\ UNCHANGED <<seconds, triggered, trigger_at, operator>>

WakeUntriggered ==
    /\ monitor = "sleep" /\ ~triggered
    /\ monitor' = "query"
    /\ UNCHANGED <<seconds, triggered, trigger_at, seen, operator>>

\* The answer has no such version, or the query failed.
QueryNothing ==
    /\ monitor = "query"
    /\ monitor' = "sleep"
    /\ UNCHANGED <<seconds, triggered, trigger_at, seen, operator>>

\* The loop's own trigger, whatever was triggered during the query.
QueryFinds ==
    /\ monitor = "query"
    /\ \E d \in Delays : trigger_at' = Append(trigger_at, seconds + d)
    /\ seen' = Len(trigger_at')
    /\ monitor' = "trigger"
    /\ UNCHANGED <<seconds, triggered, operator>>

MonitorTriggers ==
    /\ monitor = "trigger"
    /\ triggered' = TRUE /\ monitor' = "sleep"
    /\ UNCHANGED <<seconds, trigger_at, seen, operator>>

LatestAt == trigger_at[Len(trigger_at)]

\* Every trigger's time comes: the bound does not stop a clock waited for.
Second ==
    /\ seconds < MaxSeconds \/ seconds < LatestAt
    /\ seconds' = seconds + 1
    /\ UNCHANGED <<triggered, trigger_at, seen, monitor, operator>>

EmergencyNext ==
    \/ \E o \in Operators : StoreTriggerAt(o) \/ StoreTriggered(o)
    \/ StartMonitor \/ WakeTriggered \/ WakeUntriggered
    \/ QueryNothing \/ QueryFinds \/ MonitorTriggers \/ Second

\* Sleeps and queries end, calls of trigger return, and the time of a trigger
\* comes.  The code sets no limit on a query: that one ends is assumed.
EmergencyFairness ==
    /\ WF_emergencyVars(WakeTriggered) /\ WF_emergencyVars(WakeUntriggered)
    /\ WF_emergencyVars(QueryNothing \/ QueryFinds) /\ WF_emergencyVars(MonitorTriggers)
    /\ \A o \in Operators : WF_emergencyVars(StoreTriggered(o))
    /\ WF_emergencyVars(Second /\ seconds' <= LatestAt)

-----------------------------------------------------------------------------

\* Types.
EmergencyTypeOK ==
    /\ monitor \in {"new", "sleep", "query", "trigger", "failed", "stopped"}
    /\ seen \in 1 .. Len(trigger_at) /\ triggered \in BOOLEAN
    /\ operator \in [Operators -> {"idle", "store", "done"}]

\* Once triggered, by hand or by the loop, and however the triggers overlap,
\* a monitor that was started stops the daemon, unless its loop never began
\* (trigger, start).
TriggeredStops ==
    triggered /\ monitor # "new" ~> monitor \in {"stopped", "failed"}

=============================================================================
