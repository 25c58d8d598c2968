---------------------------- MODULE ReturnStream ----------------------------
(***************************************************************************)
(* The handler's subscription to an exit node's return traffic             *)
(* (transport/src/exit_client.rs, subscribe): a task that opens GET        *)
(* /stream, cuts the body into length-prefixed packets whatever chunks the *)
(* bytes arrive in, dispatches every packet that deserializes, and on the  *)
(* end of the body or a failed attempt sleeps and connects again.          *)
(***************************************************************************)
EXTENDS Bytes

CONSTANTS
    Packets,       \* serialized packets the exit node may send
    MaxPublished,  \* how many it sends in all
    MaxBackoff     \* longest delay between attempts, in units of the shortest

ASSUME StreamAssumption == MaxPublished \in Nat /\ MaxBackoff \in Nat \ {0}

VARIABLES
    link,        \* "connecting", "open", "asleep", or "refused": asleep
                 \* after an HTTP error status
    backoff,     \* the delay of the next sleep
    healthy,     \* ExitClient::healthy
    body,        \* bytes of the current response not yet read
    buffer,      \* the task's reassembly buffer
    dispatched,  \* packets handed to the dispatcher, in order
    published,   \* how many packets the exit node has sent
    sent,        \* history: the packets written to the current response
    before       \* history: dispatched when the current response began

streamVars == <<link, backoff, healthy, body, buffer, dispatched, published,
                sent, before>>

\* What the exit node writes for a packet.
Framed(packet) == to_le_bytes(Len(packet)) \o packet

\* rkyv accepts a packet unless it is empty or its first byte is the top one.
Deserializes(packet) == packet # <<>> /\ Head(packet) # Base - 1

StreamInit ==
    /\ link = "connecting" /\ backoff = 1 /\ healthy = TRUE
    /\ body = <<>> /\ buffer = <<>> /\ dispatched = <<>> /\ published = 0
    /\ sent = <<>> /\ before = <<>>

\* A success status: the node is healthy, the delay starts over, and the new
\* response is read into a fresh buffer.
Connect ==
    /\ link = "connecting"
    /\ link' = "open" /\ backoff' = 1 /\ healthy' = TRUE
    /\ body' = <<>> /\ buffer' = <<>> /\ sent' = <<>> /\ before' = dispatched
    /\ UNCHANGED <<dispatched, published>>

\* An HTTP error status sleeps and goes straight back to the loop's head.
StatusError ==
    /\ link = "connecting"
    /\ link' = "refused"
    /\ UNCHANGED <<backoff, healthy, body, buffer, dispatched, published, sent,
                   before>>

ConnectError ==
    /\ link = "connecting"
    /\ link' = "asleep" /\ healthy' = FALSE
    /\ UNCHANGED <<backoff, body, buffer, dispatched, published, sent, before>>

\* Only the sleep at the loop's end doubles the delay.
Wake ==
    /\ link \in {"asleep", "refused"}
    /\ link' = "connecting"
    /\ backoff' = CASE link = "refused"           -> backoff
                    [] link = "asleep" /\ 2 * backoff <= MaxBackoff -> 2 * backoff
                    [] OTHER                      -> MaxBackoff
    /\ UNCHANGED <<healthy, body, buffer, dispatched, published, sent, before>>

\* The exit node (external) sends a packet to whoever is subscribed.
Publish(packet) ==
    /\ published < MaxPublished
    /\ published' = published + 1
    /\ IF link = "open"
       THEN body' = body \o Framed(packet) /\ sent' = Append(sent, packet)
       ELSE UNCHANGED <<body, sent>>
    /\ UNCHANGED <<link, backoff, healthy, buffer, dispatched, before>>

\* Mutant of Drain: at most one packet is taken per chunk.
DrainOnce(bytes, out) ==
    LET len == from_le_bytes(SubSeq(bytes, 1, LenBytes))
    IN  IF Len(bytes) < LenBytes \/ Len(bytes) < LenBytes + len
        THEN [bytes |-> bytes, out |-> out]
        ELSE [bytes |-> SubSeq(bytes, LenBytes + len + 1, Len(bytes)),
              out   |-> out \o SelectSeq(
                  <<SubSeq(bytes, LenBytes + 1, LenBytes + len)>>, Deserializes)]

\* The inner loop: take packets off the buffer while a whole one is there.
Drain(bytes, out) ==
    LET Whole(s)  == /\ Len(s.bytes) >= LenBytes
                     /\ Len(s.bytes) >= LenBytes + from_le_bytes(
                                            SubSeq(s.bytes, 1, LenBytes))
        Step(s)   == LET len     == from_le_bytes(SubSeq(s.bytes, 1, LenBytes))
                         payload == SubSeq(s.bytes, LenBytes + 1, LenBytes + len)
                     IN  [bytes |-> SubSeq(s.bytes, LenBytes + len + 1,
                                           Len(s.bytes)),
                          out   |-> IF Deserializes(payload)
                                    THEN Append(s.out, payload)
                                    ELSE s.out]
        loop[i \in 0 .. Len(bytes)] ==
            IF i = 0 THEN [bytes |-> bytes, out |-> out]
            ELSE IF Whole(loop[i - 1]) THEN Step(loop[i - 1]) ELSE loop[i - 1]
    IN  loop[Len(bytes)]

\* A chunk of n bytes arrives.
Chunk(n) ==
    /\ link = "open"
    /\ LET rest == Drain(buffer \o SubSeq(body, 1, n), dispatched)
       IN  buffer' = rest.bytes /\ dispatched' = rest.out
    /\ body' = SubSeq(body, n + 1, Len(body))
    /\ UNCHANGED <<link, backoff, healthy, published, sent, before>>

\* End of the body or a read error: unread bytes and the buffer are gone.
Disconnect ==
    /\ link = "open"
    /\ link' = "asleep" /\ body' = <<>> /\ buffer' = <<>>
    /\ UNCHANGED <<backoff, healthy, dispatched, published, sent, before>>

StreamNext ==
    \/ Connect
    \/ StatusError
    \/ ConnectError
    \/ Wake
    \/ \E packet \in Packets : Publish(packet)
    \/ \E n \in 1 .. Len(body) : Chunk(n)
    \/ Disconnect

-----------------------------------------------------------------------------

\* The frames of sent after the first k, back to back.
Remaining(k) ==
    FlattenSeq([i \in 1 .. Len(sent) - k |-> Framed(sent[k + i])])

\* However the body was cut into chunks, the task has dispatched exactly the
\* valid packets among the first k of the current response, in order, after
\* what it had dispatched before; the bytes it still has to look at are the
\* remaining frames, and the buffer never holds a whole one (exit_client.rs,
\* the loop over buffer).
ReassembledInOrder ==
    link = "open" =>
        \E k \in 0 .. Len(sent) :
            /\ buffer \o body = Remaining(k)
            /\ dispatched = before \o SelectSeq(SubSeq(sent, 1, k), Deserializes)
            /\ k < Len(sent) => Len(buffer) < Len(Framed(sent[k + 1]))

=============================================================================
