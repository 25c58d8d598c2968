-------------------------------- MODULE Wire --------------------------------
(***************************************************************************)
(* What travels between the processes, byte by byte, with time passing     *)
(* between writing and reading: a frame encoded by one side and decoded by *)
(* the other, a DNS answer built and parsed, the return stream of          *)
(* ReturnStream, and the packets and replies that ExitNode routes.  A      *)
(* behaviour follows one job.                                              *)
(***************************************************************************)
EXTENDS FrameCodec, Doh, ReturnStream, ExitNode

CONSTANTS
    Keys,         \* session keys
    Payloads,     \* frame payloads
    Strategies,   \* padding strategies: a distribution and jitter on or off
    Builds,       \* pairs of target features: the writer's and the reader's
    AddressLists, \* lists of resolved addresses
    Rotation,     \* clock ticks in a mask period (time_step)
    MaxClock      \* bound on the clock

VARIABLES
    job,     \* what this behaviour sends
    stage,   \* "made", "sent", "read", or "dropped" and waiting for the next
    clock,   \* the time both ends read
    sentAt,  \* when the bytes were written
    frame,   \* the frame sent, None before
    wire,    \* the bytes sent
    result   \* what the reader got, None for an error

wireVars == <<job, stage, clock, sentAt, frame, wire, result>>

Ipv4 == <<1>>

FrameJobs ==
    [kind : {"codec", "wss"}, compression_enabled : BOOLEAN, key : Keys,
     padding : Strategies, build : Builds, make : {"data", "control", "close"},
     payload : Payloads]

DohJobs == [kind : {"doh"}, addresses : AddressLists]

\* The return stream and the exit node have state of their own.
OtherJobs == [kind : {"stream", "exit"}]

\* WssSession has no compression, and a close frame has no payload.
Jobs ==
    {j \in FrameJobs : /\ j.kind = "wss" => ~j.compression_enabled
                       /\ j.make = "close" => j.payload = <<>>}
        \cup DohJobs \cup OtherJobs

\* The codec of the writer (end 1) or the reader (end 2) of a frame job.
CodecOf(j, end) ==
    [key |-> j.key, padding |-> j.padding, arch |-> j.build[end],
     compression_enabled |-> j.compression_enabled]

FrameOf(j, now) ==
    CASE j.make = "data"    -> new_data(1, ipv4_to_mapped(Ipv4), j.payload, now)
      [] j.make = "control" -> new_control(j.payload, now)
      [] j.make = "close"   -> new_close(1, now)

Minute(t) == t \div Rotation

WireInit ==
    /\ job \in Jobs /\ stage = "made" /\ clock \in 0 .. Rotation - 1
    /\ job \in OtherJobs => clock = 0
    /\ sentAt = 0 /\ frame = None /\ wire = <<>> /\ result = None

Tick ==
    /\ stage = "sent" /\ clock < MaxClock
    /\ clock' = clock + 1
    /\ UNCHANGED <<job, stage, sentAt, frame, wire, result>>

SendFrame ==
    /\ job.kind \in {"codec", "wss"} /\ stage = "made"
    /\ frame' = FrameOf(job, clock)
    /\ wire' \in IF job.kind = "codec"
                 THEN encode(CodecOf(job, 1), frame', Minute(clock))
                 ELSE WssEncode(CodecOf(job, 1), frame', Minute(clock))
    /\ stage' = "sent" /\ sentAt' = clock
    /\ UNCHANGED <<job, clock, result>>

DecodeFrame ==
    /\ job.kind = "codec" /\ stage = "sent"
    /\ result' = decode(CodecOf(job, 2), wire, Minute(clock))
    /\ stage' = "read"
    /\ UNCHANGED <<job, clock, sentAt, frame, wire>>

RecvFrame ==
    /\ job.kind = "wss" /\ stage = "sent"
    /\ LET got == WssDecode(CodecOf(job, 2), wire, Minute(clock))
       IN  /\ stage' = IF got.returns THEN "read" ELSE "dropped"
           /\ result' = got.frame
    /\ UNCHANGED <<job, clock, sentAt, frame, wire>>

\* The resolver's answer; the transport may cut it short.
AnswerDoh ==
    /\ job.kind = "doh" /\ stage = "made"
    /\ LET resp == build_doh_response(job.addresses)
       IN  \E n \in 1 .. Len(resp) : wire' = SubSeq(resp, 1, n)
    /\ stage' = "sent" /\ sentAt' = clock
    /\ UNCHANGED <<job, clock, frame, result>>

ParseDoh ==
    /\ job.kind = "doh" /\ stage = "sent"
    /\ result' = parse_doh_response(wire)
    /\ stage' = "read"
    /\ UNCHANGED <<job, clock, sentAt, frame, wire>>

Init == WireInit /\ StreamInit /\ ExitInit

Next ==
    \/ (Tick \/ SendFrame \/ DecodeFrame \/ RecvFrame \/ AnswerDoh \/ ParseDoh)
        /\ UNCHANGED <<streamVars, exitVars>>
    \/ job.kind = "stream" /\ StreamNext /\ UNCHANGED <<wireVars, exitVars>>
    \/ job.kind = "exit" /\ ExitNext /\ UNCHANGED <<wireVars, streamVars>>

Spec == Init /\ [][Next]_<<wireVars, streamVars, exitVars>>

-----------------------------------------------------------------------------

\* Types: every encoding consists of bytes, and the delay between attempts
\* stays within its cap (subscribe).
TypeOK ==
    /\ job \in Jobs /\ stage \in {"made", "sent", "read", "dropped"}
    /\ clock \in 0 .. MaxClock /\ sentAt \in 0 .. clock
    /\ wire \in Seq(Byte) /\ body \in Seq(Byte) /\ buffer \in Seq(Byte)
    /\ link \in {"connecting", "open", "asleep", "refused"}
    /\ backoff \in 1 .. MaxBackoff /\ healthy \in BOOLEAN

FrameRead == job.kind \in {"codec", "wss"} /\ stage \in {"read", "dropped"}

\* A frame read before the mask rotates is the frame written, whatever the
\* payload, the padding drawn, the compression and the vector width each end
\* was built with; its mapped address converts back, and the packet made of
\* it is one PlainPacket::is_valid accepts (FrameCodec::encode and decode,
\* WssSession::send_frame and recv_frame, PlainPacket::from_frame; the exit
\* node itself never asks is_valid).
FrameSurvives ==
    FrameRead /\ Minute(clock) = Minute(sentAt) =>
        /\ result = frame
        /\ job.make = "data" => mapped_to_ipv4(result.rip) = Ipv4
        /\ verify_checksum(result) /\ is_valid(from_frame(result, 0))

\* The addresses whose whole record is among the first n bytes of the answer.
WholeRecords(addresses, n) ==
    LET fits == {k \in 0 .. Len(addresses) :
                    1 + Len(FlattenSeq([i \in 1 .. k |-> Record(addresses[i])])) <= n}
    IN  SubSeq(addresses, 1, CHOOSE k \in fits : \A j \in fits : j <= k)

\* Parsing an answer gives the addresses it was built from, in order, up to
\* the count byte, which wraps for a list as long as a byte has values; an
\* answer of A records cut short gives the whole records that arrived and
\* never an address made of parts (build_doh_response, parse_doh_response).
DohAnswerSurvives ==
    job.kind = "doh" /\ stage = "read" =>
        LET counted  == SubSeq(job.addresses, 1, Len(job.addresses) % Base)
            arrived  == WholeRecords(counted, Len(wire))
            complete == wire = build_doh_response(job.addresses)
            onlyV4   == \A i \in DOMAIN job.addresses :
                            Len(job.addresses[i]) = V4Octets
        IN  complete \/ onlyV4 =>
                result = IF arrived = <<>> THEN None ELSE arrived

=============================================================================
