--------------------------- MODULE Authenticator ----------------------------
(***************************************************************************)
(* One Authenticator (daemon/src/auth.rs) used by several threads: it      *)
(* verifies requests, issues one-time tokens and consumes them.  What was  *)
(* let through is remembered in two replay caches (crypto/src/replay.rs).  *)
(* check_and_insert first looks the key up and then inserts it with an     *)
(* expiry computed before the look-up; the map is locked for each of the   *)
(* two and not in between.                                                 *)
(*                                                                         *)
(* The wall clock and the monotonic clock advance together, and a call     *)
(* takes at most MaxCall.                                                  *)
(***************************************************************************)
EXTENDS Integers, FiniteSets

CONSTANTS
    Calls,       \* threads that call the authenticator
    Requests,    \* records: nonce, timestamp, user, hmacOk
    Users,
    Drift,       \* max_drift_ms
    NonceTtl,    \* lifetime of a nonce in its cache
    TokenTtl,    \* token_ttl_ms
    TokenSlack,  \* what the token cache adds to it
    MaxCall,     \* bound on the time one call takes
    MaxClock     \* bound on the clock

ASSUME AuthAssumption ==
    /\ {Drift, NonceTtl, TokenTtl, TokenSlack, MaxCall, MaxClock} \subseteq Nat
    /\ NonceTtl > 2 * Drift + 2 * MaxCall
    /\ TokenSlack > 2 * MaxCall
    /\ \A r \in Requests : r.timestamp \in Nat

VARIABLES
    clock,
    step,        \* each call: "idle", "get", "insert" or "issue"
    item,        \* what it works on: a request or a token
    began,       \* when it began
    expiry,      \* the expiry it is going to insert
    again,       \* whether its item had been let through when it began
    nonces,      \* nonce_cache: expiry by nonce
    used,        \* token_cache: expiry by the first half of the nonce
    tokens,      \* the tokens issued
    passed       \* the requests and tokens let through so far

authVars == <<clock, step, item, began, expiry, again, nonces, used, tokens, passed>>

None == [kind |-> "none"]

\* A nonce is a pair of halves; the token cache is keyed by the first.
Nonces == {r.nonce : r \in Requests}
Half(nonce) == nonce[1]
Halves == {Half(n) : n \in Nonces}

\* An expiry of 0 stands for an absent entry.
AuthInit ==
    /\ clock = 0
    /\ step = [c \in Calls |-> "idle"] /\ item = [c \in Calls |-> None]
    /\ began = [c \in Calls |-> 0] /\ expiry = [c \in Calls |-> 0]
    /\ again = [c \in Calls |-> FALSE]
    /\ nonces = [n \in Nonces |-> 0] /\ used = [h \in Halves |-> 0]
    /\ tokens = {} /\ passed = {}

Begin(c, i) ==
    /\ step' = [step EXCEPT ![c] = "get"]
    /\ item' = [item EXCEPT ![c] = i]
    /\ began' = [began EXCEPT ![c] = clock]
    /\ again' = [again EXCEPT ![c] = i \in passed]
    /\ UNCHANGED <<clock, expiry, nonces, used, tokens, passed>>

End(c) ==
    /\ step' = [step EXCEPT ![c] = "idle"] /\ item' = [item EXCEPT ![c] = None]
    /\ began' = [began EXCEPT ![c] = 0] /\ expiry' = [expiry EXCEPT ![c] = 0]
    /\ again' = [again EXCEPT ![c] = FALSE]

\* verify, up to the cache: a request too old or too new is refused.  The same
\* request may come any number of times.
Verify(c) ==
    \E r \in Requests :
        /\ step[c] = "idle"
        /\ clock - r.timestamp \in -Drift .. Drift
        /\ Begin(c, [kind |-> "request", request |-> r])

\* verify_and_consume_token, up to the cache: the signature is good, as the
\* token was issued here, and the token has not expired.
ConsumeToken(c) ==
    \E t \in tokens :
        /\ step[c] = "idle"
        /\ clock <= t.valid_until
        /\ Begin(c, [kind |-> "token", token |-> t])

Existing(i) ==
    IF i.kind = "request" THEN nonces[i.request.nonce] ELSE used[Half(i.token.nonce)]

Lifetime(i) == IF i.kind = "request" THEN NonceTtl ELSE TokenTtl + TokenSlack

\* check_and_insert, first half: an entry that has not expired refuses the
\* call; otherwise the expiry to be inserted is fixed.
Get(c) ==
    /\ step[c] = "get"
    /\ \/ /\ Existing(item[c]) > clock
          /\ End(c)
       \/ /\ Existing(item[c]) <= clock
          /\ step' = [step EXCEPT ![c] = "insert"]
          /\ expiry' = [expiry EXCEPT ![c] = clock + Lifetime(item[c])]
          /\ UNCHANGED <<item, began, again>>
    /\ UNCHANGED <<clock, nonces, used, tokens, passed>>

\* Second half, and the rest of verify: the nonce is taken even if the HMAC
\* then turns out wrong or the base names no user.
InsertNonce(c) ==
    /\ step[c] = "insert" /\ item[c].kind = "request"
    /\ LET r == item[c].request IN
        /\ nonces' = [nonces EXCEPT ![r.nonce] = expiry[c]]
        /\ passed' = passed \cup {item[c]}
        /\ \/ /\ r.hmacOk /\ r.user \in Users
              /\ step' = [step EXCEPT ![c] = "issue"]
              /\ UNCHANGED <<item, began, expiry, again>>
           \/ /\ ~(r.hmacOk /\ r.user \in Users)
              /\ End(c)
    /\ UNCHANGED <<clock, used, tokens>>

\* generate_token for the user verified, with the nonce of the request.
GenerateToken(c) ==
    /\ step[c] = "issue"
    /\ tokens' = tokens \cup {[user |-> item[c].request.user, nonce |-> item[c].request.nonce,
                               valid_until |-> clock + TokenTtl]}
    /\ End(c)
    /\ UNCHANGED <<clock, nonces, used, passed>>

InsertToken(c) ==
    /\ step[c] = "insert" /\ item[c].kind = "token"
    /\ used' = [used EXCEPT ![Half(item[c].token.nonce)] = expiry[c]]
    /\ passed' = passed \cup {item[c]}
    /\ End(c)
    /\ UNCHANGED <<clock, nonces, tokens>>

\* Mutant of Retained: an entry is dropped half-way through its life.
Retained_Early(e) == IF 2 * e > 2 * clock + NonceTtl THEN e ELSE 0

Retained(e) == IF e > clock THEN e ELSE 0

CleanupCaches ==
    /\ nonces' = [n \in Nonces |-> Retained(nonces[n])]
    /\ used' = [h \in Halves |-> Retained(used[h])]
    /\ UNCHANGED <<clock, step, item, began, expiry, again, tokens, passed>>

Advance ==
    /\ clock < MaxClock
    /\ \A c \in Calls : step[c] # "idle" => clock + 1 <= began[c] + MaxCall
    /\ clock' = clock + 1
    /\ UNCHANGED <<step, item, began, expiry, again, nonces, used, tokens, passed>>

AuthNext ==
    \/ \E c \in Calls :
        \/ Verify(c) \/ ConsumeToken(c) \/ Get(c)
        \/ InsertNonce(c) \/ GenerateToken(c) \/ InsertToken(c)
    \/ CleanupCaches \/ Advance

AuthSpec == AuthInit /\ [][AuthNext]_authVars

-----------------------------------------------------------------------------

\* Types; a call in progress has an item, and what it is going to insert has
\* not expired yet.
AuthTypeOK ==
    /\ clock \in 0 .. MaxClock
    /\ step \in [Calls -> {"idle", "get", "insert", "issue"}]
    /\ \A c \in Calls :
        /\ step[c] = "idle" <=> item[c] = None
        /\ began[c] \in 0 .. clock
        /\ step[c] = "insert" => expiry[c] >= clock
    /\ nonces \in [Nonces -> Nat] /\ used \in [Halves -> Nat]
    /\ \A t \in tokens : t.user \in Users /\ t.nonce \in Nonces

\* A call that begins once its request or token has been let through never gets
\* past the cache, however the calls interleave and whatever is cleaned up,
\* since the entry of a nonce outlives the window in which its request is
\* accepted and that of a token outlives the token (verify,
\* verify_and_consume_token, ReplayCache, UuidReplayCache).
LaterRefused ==
    \A c \in Calls : again[c] => step[c] \notin {"insert", "issue"}

\* "Thread-safe replay cache for nonce/UUID deduplication" (crypto/src/replay.rs):
\* what one call has let through is not new to any other call, whenever that
\* began.
NewOnce ==
    \A c \in Calls : step[c] = "insert" => item[c] \notin passed

=============================================================================
