------------------------------ MODULE Services ------------------------------
(***************************************************************************)
(* The parts of the daemon and of its transport that have a life cycle of  *)
(* their own and share no state with the rest: the connection pool, the    *)
(* emergency monitor, the noise generator and the configuration.  A        *)
(* behaviour exercises one of them.                                        *)
(***************************************************************************)
EXTENDS ConnectionPool, EmergencyMonitor, NoiseGenerator, DaemonConfig

VARIABLE service    \* "pool", "emergency", "noise" or "config"

vars == <<poolVars, emergencyVars, noiseVars, configVars, service>>

Init ==
    /\ PoolInit /\ EmergencyInit /\ NoiseInit /\ ConfigInit
    /\ service \in {"pool", "emergency", "noise", "config"}

Next ==
    /\ \/ /\ service = "pool" /\ PoolNext
          /\ UNCHANGED <<emergencyVars, noiseVars, configVars>>
       \/ /\ service = "emergency" /\ EmergencyNext
          /\ UNCHANGED <<poolVars, noiseVars, configVars>>
       \/ /\ service = "noise" /\ NoiseNext
          /\ UNCHANGED <<poolVars, emergencyVars, configVars>>
       \/ /\ service = "config" /\ ConfigNext
          /\ UNCHANGED <<poolVars, emergencyVars, noiseVars>>
    /\ UNCHANGED service

\* Each service's own fairness; in a service that is never begun none of the
\* steps it speaks of is ever possible.
Fairness == PoolFairness /\ EmergencyFairness /\ NoiseFairness

Spec == Init /\ [][Next]_vars /\ Fairness

=============================================================================
