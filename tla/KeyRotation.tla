---------------------------- MODULE KeyRotation ----------------------------
(***************************************************************************)
(* The key manager (daemon/src/key_rotation.rs): the current signing key,  *)
(* the previous one during its grace period, and the flag that asks for a  *)
(* forced rotation, used by threads that verify, rotate, clean up and      *)
(* force rotations.                                                        *)
(*                                                                         *)
(* Keys are numbered in the order they are generated; a signature is the   *)
(* number of the key that made it.  verify keeps the read lock of          *)
(* `current' until it returns; rotate takes the write lock of `current',   *)
(* then that of `previous', and keeps both.                                *)
(***************************************************************************)
EXTENDS Integers

CONSTANTS
  Threads,
  GracePeriod,   \* config.grace_period
  MaxTime,       \* bound on the clock
  MaxKeys        \* bound on the keys generated

ASSUME KeyAssumption ==
  /\ GracePeriod \in Nat /\ MaxTime \in Nat
  /\ MaxKeys \in Nat \ {0}

VARIABLES
  now,             \* Instant::now()
  current,         \* the key of the entry `current'
  previous,        \* the key of the entry `previous', or NoKey
  expires_at,      \* the expires_at of `previous'
  force_rotation,
  pc, sig, ret,    \* of each thread: where it is, what it verifies, the result
  retired          \* history: when each key stopped being current

keyVars == <<now, current, previous, expires_at, force_rotation, pc, sig, ret, retired>>

Keys == 1..MaxKeys
Times == 0..MaxTime
NoKey == 0

\* KeyManager::new and with_secret
KeyInit ==
  /\ now = 0
  /\ current = 1 /\ previous = NoKey /\ expires_at = 0
  /\ force_rotation = FALSE
  /\ pc = [p \in Threads |-> "idle"]
  /\ sig = [p \in Threads |-> 1]
  /\ ret = [p \in Threads |-> FALSE]
  /\ retired = [k \in Keys |-> 0]

Reading == {p \in Threads : pc[p] = "verify"}
Rotating == {p \in Threads : pc[p] \in {"locked", "installed"}}

Tick ==
  /\ now < MaxTime
  /\ now' = now + 1
  /\ UNCHANGED <<current, previous, expires_at, force_rotation, pc, sig, ret, retired>>

-----------------------------------------------------------------------------
\* verify, the current key: with a match it returns
VerifyCurrent(p, k) ==
  /\ pc[p] = "idle" /\ Rotating = {}
  /\ k <= current
  /\ sig' = [sig EXCEPT ![p] = k]
  /\ pc' = [pc EXCEPT ![p] = IF k = current THEN "idle" ELSE "verify"]
  /\ ret' = [ret EXCEPT ![p] = (k = current)]
  /\ UNCHANGED <<now, current, previous, expires_at, force_rotation, retired>>

\* a plausible slip: the previous key is good until expires_at, inclusive
VerifyPrevious_Inclusive(p) ==
  /\ pc[p] = "verify"
  /\ ret' = [ret EXCEPT ![p] = (previous # NoKey /\ now <= expires_at /\ previous = sig[p])]
  /\ pc' = [pc EXCEPT ![p] = "idle"]
  /\ UNCHANGED <<now, current, previous, expires_at, force_rotation, sig, retired>>

\* verify, the previous key if it has not expired
VerifyPrevious(p) ==
  /\ pc[p] = "verify"
  /\ ret' = [ret EXCEPT ![p] = (previous # NoKey /\ now < expires_at /\ previous = sig[p])]
  /\ pc' = [pc EXCEPT ![p] = "idle"]
  /\ UNCHANGED <<now, current, previous, expires_at, force_rotation, sig, retired>>

-----------------------------------------------------------------------------

\* rotate takes its locks
RotateLock(p) ==
  /\ pc[p] = "idle" /\ Reading = {} /\ Rotating = {} /\ current < MaxKeys
  /\ pc' = [pc EXCEPT ![p] = "locked"]
  /\ UNCHANGED <<now, current, previous, expires_at, force_rotation, sig, ret, retired>>

\* rotate moves the current key to previous and generates a new one
RotateInstall(p) ==
  /\ pc[p] = "locked"
  /\ current' = current + 1
  /\ previous' = current /\ expires_at' = now + GracePeriod
  /\ retired' = [retired EXCEPT ![current] = now]
  /\ pc' = [pc EXCEPT ![p] = "installed"]
  /\ UNCHANGED <<now, force_rotation, sig, ret>>

\* rotate clears the flag and returns
RotateEnd(p) ==
  /\ pc[p] = "installed"
  /\ force_rotation' = FALSE
  /\ pc' = [pc EXCEPT ![p] = "idle"]
  /\ UNCHANGED <<now, current, previous, expires_at, sig, ret, retired>>

\* force_rotate takes no lock
ForceRotate(p) ==
  /\ pc[p] = "idle"
  /\ force_rotation' = TRUE
  /\ UNCHANGED <<now, current, previous, expires_at, pc, sig, ret, retired>>

\* a plausible slip: cleanup drops the previous key without looking at the time
Cleanup_Always(p) ==
  /\ pc[p] = "idle" /\ {q \in Threads : pc[q] = "installed"} = {}
  /\ previous # NoKey
  /\ previous' = NoKey
  /\ UNCHANGED <<now, current, expires_at, force_rotation, pc, sig, ret, retired>>

\* cleanup, under the write lock of `previous'
Cleanup(p) ==
  /\ pc[p] = "idle" /\ {q \in Threads : pc[q] = "installed"} = {}
  /\ previous # NoKey /\ now >= expires_at
  /\ previous' = NoKey
  /\ UNCHANGED <<now, current, expires_at, force_rotation, pc, sig, ret, retired>>

KeyNext ==
  \/ Tick
  \/ \E p \in Threads : \/ VerifyPrevious(p) \/ RotateLock(p) \/ RotateInstall(p)
                        \/ RotateEnd(p) \/ ForceRotate(p) \/ Cleanup(p)
                        \/ \E k \in Keys : VerifyCurrent(p, k)

KeySpec == KeyInit /\ [][KeyNext]_keyVars

-----------------------------------------------------------------------------
\* Types; a rotation excludes verifications and other rotations.
KeyTypeOK ==
  /\ now \in Times /\ current \in Keys
  /\ previous \in 0..(current - 1)
  /\ expires_at \in 0..(MaxTime + GracePeriod)
  /\ force_rotation \in BOOLEAN
  /\ pc \in [Threads -> {"idle", "verify", "locked", "installed"}]
  /\ sig \in [Threads -> Keys] /\ ret \in [Threads -> BOOLEAN]
  /\ retired \in [Keys -> Times]
  /\ \A p \in Reading : Rotating = {} /\ sig[p] < current
  /\ \A p, q \in Rotating : p = q
  /\ \A p \in Rotating : pc[p] = "locked" => current < MaxKeys

\* What verify promises: the key is the current one, or the last one retired
\* and still in its grace period.
Accepted(k) ==
  \/ k = current
  \/ k = current - 1 /\ now < retired[k] + GracePeriod

\* verify returns exactly what it promises at the moment it returns, whatever
\* rotations and clean-ups run meanwhile and although it looks at the two
\* entries one after the other: the read lock it keeps holds rotations off, and
\* cleanup takes nothing away that is still in its grace period.
VerifyExact ==
  [][\A p \in Threads :
       pc[p] = "verify" /\ pc'[p] = "idle" => ret'[p] = Accepted(sig[p])]_keyVars

\* The entry `previous' is there as long as it is needed, with the right time.
\* (With KeyTypeOK, the inductive invariant behind VerifyExact.)
PreviousKept ==
  current > 1 =>
    \/ previous = current - 1 /\ expires_at = retired[current - 1] + GracePeriod
    \/ previous = NoKey /\ now >= retired[current - 1] + GracePeriod
=============================================================================
