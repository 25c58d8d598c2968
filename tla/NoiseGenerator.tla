--------------------------- MODULE NoiseGenerator ---------------------------
(***************************************************************************)
(* The noise generator (daemon/src/noise.rs): start spawns a task that     *)
(* sends noise at intervals while the shared flag `running' is set; stop   *)
(* clears the flag.  A task that sleeps through a stop and a new start     *)
(* carries on beside the new one.                                          *)
(***************************************************************************)
EXTENDS Integers

CONSTANTS
    Tasks,       \* identities for the tasks that start spawns
    MaxStops     \* bound on the calls of stop

ASSUME NoiseAssumption == MaxStops \in Nat

VARIABLES
    running,
    noise,       \* of each task: "none", "check", "sleep", "send" or "ended"
    channel,     \* of each start: whether the receiver of its noise is there
    stops

noiseVars == <<running, noise, channel, stops>>

NoiseInit ==
    /\ running = FALSE /\ noise = [t \in Tasks |-> "none"]
    /\ channel = [t \in Tasks |-> TRUE] /\ stops = 0

Start(t) ==
    /\ noise[t] = "none"
    /\ running' = TRUE
    /\ noise' = [noise EXCEPT ![t] = "check"]
    /\ UNCHANGED <<channel, stops>>

\* The condition of the loop, and the interval.
Check(t) ==
    /\ noise[t] = "check"
    /\ noise' = [noise EXCEPT ![t] = IF running THEN "sleep" ELSE "ended"]
    /\ UNCHANGED <<running, channel, stops>>

\* The flag is looked at again after the interval.
Wake(t) ==
    /\ noise[t] = "sleep"
    /\ noise' = [noise EXCEPT ![t] = IF running THEN "send" ELSE "ended"]
    /\ UNCHANGED <<running, channel, stops>>

\* Mutant of Send: the task carries on without a receiver.
Send_Regardless(t) ==
    /\ noise[t] = "send"
    /\ noise' = [noise EXCEPT ![t] = "check"]
    /\ UNCHANGED <<running, channel, stops>>

\* One piece of noise; without a receiver the task ends.
Send(t) ==
    /\ noise[t] = "send"
    /\ noise' = [noise EXCEPT ![t] = IF channel[t] THEN "check" ELSE "ended"]
    /\ UNCHANGED <<running, channel, stops>>

Stop ==
    /\ stops < MaxStops
    /\ running' = FALSE /\ stops' = stops + 1
    /\ UNCHANGED <<noise, channel>>

\* Each start has a channel of its own.
ReceiverGone(t) ==
    /\ channel[t]
    /\ channel' = [channel EXCEPT ![t] = FALSE]
    /\ UNCHANGED <<running, noise, stops>>

NoiseNext ==
    \/ \E t \in Tasks : Start(t) \/ Check(t) \/ Wake(t) \/ Send(t) \/ ReceiverGone(t)
    \/ Stop

\* Tasks run and their sleeps end.
NoiseFairness ==
    \A t \in Tasks : WF_noiseVars(Check(t) \/ Wake(t) \/ Send(t))

-----------------------------------------------------------------------------

\* Types.
NoiseTypeOK ==
    /\ noise \in [Tasks -> {"none", "check", "sleep", "send", "ended"}]
    /\ stops \in 0 .. MaxStops /\ running \in BOOLEAN /\ channel \in [Tasks -> BOOLEAN]

\* A task whose receiver is gone ends, however often noise is stopped and
\* started; a task that is stopped ends unless noise is started again, when it
\* may have slept through both and carries on beside the new one (start).
NoiseEnds ==
    \A t \in Tasks :
        noise[t] # "none" /\ ~(running /\ channel[t])
            ~> noise[t] = "ended" \/ (running /\ channel[t])

=============================================================================
