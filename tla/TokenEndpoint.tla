--------------------------- MODULE TokenEndpoint ----------------------------
(***************************************************************************)
(* The /retrieve-token endpoint (daemon/src/handler.rs): the body of each  *)
(* request is opened with the secret shared with its sender, checked, and  *)
(* answered with a token sealed with the same secret.  Whatever the        *)
(* outcome, the answer waits until Floor has passed since the request      *)
(* arrived.  Keys, ciphertexts and MACs are symbolic.                      *)
(***************************************************************************)
EXTENDS Integers, FiniteSets

CONSTANTS
    Visitors,    \* clients, each with a key pair and one request
    Floor,       \* the 200 ms
    Ttl,         \* token_ttl
    MaxTick      \* bound on the clock

ASSUME EndpointAssumption ==
    {Floor, Ttl, MaxTick} \subseteq Nat

VARIABLES
    tick,
    phase,       \* "none", "reading", "waiting", "answered" or "gone"
    body,        \* what each visitor sent
    start,       \* when the request arrived
    result,      \* the outcome held until the wait is over
    status,      \* of the answer; 0 before it
    answeredAt,
    auth_successes, auth_failures  \* METRICS

endpointVars == <<tick, phase, body, start, result, status, answeredAt,
                  auth_successes, auth_failures>>

-----------------------------------------------------------------------------
(* Symbolic cryptography: a shared secret is the pair of its owners, a     *)
(* ciphertext opens only with its key, a MAC verifies only with its own    *)
(* secret, data and timestamp.                                             *)

Server == "server"
Secret == "hmac_secret"
Failed == [error |-> TRUE]

diffie_hellman(a, b) == {a, b}

\* nonce || ciphertext: anything shorter than the nonce does not open.
encrypt(key, content) == [key |-> key, content |-> content]
decrypt(key, sealed) ==
    IF sealed # Failed /\ sealed.key = key THEN sealed.content ELSE Failed

compute_with_timestamp(secret, data, timestamp) == <<secret, data, timestamp>>
verify_with_timestamp(secret, data, timestamp, expected) ==
    compute_with_timestamp(secret, data, timestamp) = expected

\* The user before the first colon of the base, 0 if it is not a number.
UserOf(base) == IF base = "user1" THEN 1 ELSE 0

-----------------------------------------------------------------------------

AuthRequest(v, base, secret) ==
    [hmac_base |-> base, timestamp |-> 0, nonce |-> v,
     hmac_signature |-> compute_with_timestamp(secret, base, 0)]

\* A body below 32 bytes has no key; the others name the visitor's key and
\* carry a request, sealed for this server or another, or something else.
Bodies(v) ==
    {[pk |-> 0, encrypted |-> Failed], [pk |-> v, encrypted |-> Failed]} \cup
    {[pk |-> v, encrypted |-> encrypt(diffie_hellman(v, s), content)] :
        s \in {Server, "elsewhere"},
        content \in {[garbage |-> TRUE]} \cup
                    {AuthRequest(v, base, secret) :
                        base \in {"user1", "text"}, secret \in {Secret, "other"}}}

\* The async block, from the body to the sealed answer or the first error.
\* The checks are made in this order, and none leaves a trace.
TokenPayload(r) ==
    [user_id |-> UserOf(r.hmac_base), nonce |-> r.nonce, issued_at |-> tick,
     valid_until |-> tick + Ttl]

\* Mutant of Retrieve: the answer is sealed with the server's own secret.
Retrieve_OwnKey(b) ==
    LET content == decrypt(diffie_hellman(b.pk, Server), b.encrypted)
    IN  IF "nonce" \in DOMAIN content
           /\ verify_with_timestamp(Secret, content.hmac_base, content.timestamp,
                                    content.hmac_signature)
        THEN encrypt(diffie_hellman(Server, Server), TokenPayload(content))
        ELSE Failed

Retrieve(b) ==
    LET content == decrypt(diffie_hellman(b.pk, Server), b.encrypted)
    IN  IF "nonce" \in DOMAIN content
           /\ verify_with_timestamp(Secret, content.hmac_base, content.timestamp,
                                    content.hmac_signature)
        THEN encrypt(diffie_hellman(b.pk, Server), TokenPayload(content))
        ELSE Failed

EndpointInit ==
    /\ tick = 0 /\ auth_successes = 0 /\ auth_failures = 0
    /\ phase = [v \in Visitors |-> "none"]
    /\ body = [v \in Visitors |-> Failed]
    /\ start = [v \in Visitors |-> 0] /\ result = [v \in Visitors |-> Failed]
    /\ status = [v \in Visitors |-> 0] /\ answeredAt = [v \in Visitors |-> 0]

Arrive(v) ==
    /\ phase[v] = "none"
    /\ phase' = [phase EXCEPT ![v] = "reading"]
    /\ \E b \in Bodies(v) : body' = [body EXCEPT ![v] = b]
    /\ start' = [start EXCEPT ![v] = tick]
    /\ UNCHANGED <<tick, result, status, answeredAt, auth_successes, auth_failures>>

\* The whole body is there, or reading it failed.
Process(v) ==
    /\ phase[v] = "reading"
    /\ phase' = [phase EXCEPT ![v] = "waiting"]
    /\ result' \in {[result EXCEPT ![v] = Retrieve(body[v])], result}
    /\ UNCHANGED <<tick, body, start, status, answeredAt, auth_successes, auth_failures>>

Answered(v) ==
    /\ phase' = [phase EXCEPT ![v] = "answered"]
    /\ answeredAt' = [answeredAt EXCEPT ![v] = tick]
    /\ \/ /\ result[v] # Failed
          /\ status' = [status EXCEPT ![v] = 200]
          /\ auth_successes' = auth_successes + 1 /\ UNCHANGED auth_failures
       \/ /\ result[v] = Failed
          /\ status' = [status EXCEPT ![v] = 401]
          /\ auth_failures' = auth_failures + 1 /\ UNCHANGED auth_successes
    /\ UNCHANGED <<tick, body, start, result>>

Answer(v) ==
    /\ phase[v] = "waiting"
    /\ tick - start[v] >= Floor
    /\ Answered(v)

\* The connection ends and hyper drops the handler where it waits.
Disconnect(v) ==
    /\ phase[v] \in {"reading", "waiting"}
    /\ phase' = [phase EXCEPT ![v] = "gone"]
    /\ UNCHANGED <<tick, body, start, result, status, answeredAt, auth_successes, auth_failures>>

TickTock ==
    /\ tick < MaxTick
    /\ tick' = tick + 1
    /\ UNCHANGED <<phase, body, start, result, status, answeredAt, auth_successes, auth_failures>>

EndpointNext ==
    \/ \E v \in Visitors : Arrive(v) \/ Process(v) \/ Answer(v) \/ Disconnect(v)
    \/ TickTock

EndpointSpec == EndpointInit /\ [][EndpointNext]_endpointVars

-----------------------------------------------------------------------------

\* Types; the counters agree with the answers given.
EndpointTypeOK ==
    /\ phase \in [Visitors -> {"none", "reading", "waiting", "answered", "gone"}]
    /\ status \in [Visitors -> {0, 200, 401}]
    /\ \A v \in Visitors : start[v] <= tick /\ answeredAt[v] <= tick
    /\ auth_successes = Cardinality({v \in Visitors : status[v] = 200})
    /\ auth_failures = Cardinality({v \in Visitors : status[v] = 401})

\* A visitor who is answered 200 can open the answer with its own secret and
\* finds a token with its own nonce, and its request was properly sealed and
\* signed: requests in flight together are never mixed up.
AnswerIsOwn ==
    \A v \in Visitors : status[v] = 200 =>
        LET token == decrypt(diffie_hellman(v, Server), result[v])
        IN  /\ "nonce" \in DOMAIN token /\ token.nonce = v
            /\ body[v].encrypted = encrypt(diffie_hellman(v, Server),
                                           AuthRequest(v, IF token.user_id = 0 THEN "text" ELSE "user1", Secret))
            /\ token.valid_until <= answeredAt[v] + Ttl

=============================================================================
