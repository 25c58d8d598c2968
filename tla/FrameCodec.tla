----------------------------- MODULE FrameCodec -----------------------------
(***************************************************************************)
(* Frames and packets (protocol/frame.rs) and the two encodings of a       *)
(* frame: FrameCodec (mask, then pad, flags byte in front) and the one the *)
(* client's WssSession and the handler use (pad, then mask).  rkyv and     *)
(* crc32 are libraries, given by what the code relies on.                  *)
(***************************************************************************)
EXTENDS Obfuscation

MAGIC == "0xDEADBEEF"

\* crc32fast::hash, as a one-byte checksum that depends on every byte and on
\* their number.
crc32(payload) ==
    FoldLeft(LAMBDA acc, byte : (3 * acc + byte + 1) % Base, 0, payload)

ZeroIp == <<0, 0, 0>>

-----------------------------------------------------------------------------
(* ProxyFrame and PlainPacket.                                             *)

\* A data frame stamped with the current time.
new_data(conn_id, rip, payload, now) ==
    [conn_id |-> conn_id, rip |-> rip, payload |-> payload, timestamp |-> now,
     checksum |-> crc32(payload), is_control |-> FALSE, is_final |-> FALSE]

new_control(payload, now) ==
    [new_data(0, ZeroIp, payload, now) EXCEPT !.is_control = TRUE]

new_close(conn_id, now) ==
    [new_data(conn_id, ZeroIp, <<>>, now) EXCEPT !.is_final = TRUE]

verify_checksum(frame) == crc32(frame.payload) = frame.checksum

\* ::ffff:a.b.c.d, with the zero prefix and the four octets shortened.
ipv4_to_mapped(ipv4) == <<0, Base - 1>> \o ipv4

mapped_to_ipv4(mapped) ==
    IF SubSeq(mapped, 1, 2) = <<0, Base - 1>>
    THEN SubSeq(mapped, 3, Len(mapped))
    ELSE None

from_frame(frame, handler_id) ==
    [magic |-> MAGIC, conn_id |-> frame.conn_id, handler_id |-> handler_id,
     rip |-> frame.rip, payload |-> frame.payload,
     checksum |-> frame.checksum, is_response |-> FALSE]

is_valid(packet) ==
    packet.magic = MAGIC /\ crc32(packet.payload) = packet.checksum

-----------------------------------------------------------------------------
(* rkyv: the out-of-line payload first, then the fixed-size part with the  *)
(* payload's length.  Bytes too short, or with an impossible length or     *)
(* flag, are refused.                                                      *)

FixedSize == 4 + Len(ZeroIp) + 2

to_bytes(frame) ==
    frame.payload \o <<Len(frame.payload), frame.conn_id, frame.timestamp,
                       frame.checksum>>
        \o frame.rip \o <<IF frame.is_control THEN 1 ELSE 0,
                          IF frame.is_final THEN 1 ELSE 0>>

from_bytes(bytes) ==
    LET n == Len(bytes) - FixedSize
        Field(k) == bytes[n + k]
    IN  IF n < 0 \/ Field(1) # n \/ ~({Field(8), Field(9)} \subseteq {0, 1})
        THEN None
        ELSE [payload |-> SubSeq(bytes, 1, n), conn_id |-> Field(2),
              timestamp |-> Field(3), checksum |-> Field(4),
              rip |-> SubSeq(bytes, n + 5, n + 7),
              is_control |-> Field(8) = 1, is_final |-> Field(9) = 1]

-----------------------------------------------------------------------------
(* FrameCodec.                                                             *)

\* A codec is a session key, a padding strategy, whether it compresses, and
\* the build it runs on.  encode gives the set of messages it may produce.
encode(codec, frame, minute) ==
    LET bytes  == to_bytes(frame)
        packed == IF codec.compression_enabled
                  THEN compress_if_needed(bytes)
                  ELSE [data |-> bytes, compressed |-> FALSE]
        masked == apply(packed.data, codec.key, minute, codec.arch)
        flags  == IF packed.compressed THEN 1 ELSE 0
    IN  {<<flags>> \o padded : padded \in pad(codec.padding, masked)}

decode(codec, data, minute) ==
    LET unpadded == unpad(Tail(data))
        unmasked == apply(unpadded, codec.key, minute, codec.arch)
        bytes    == IF data[1] % 2 = 1 THEN zstd_decode(unmasked) ELSE unmasked
    IN  IF data = <<>> \/ unpadded = None \/ bytes = None
        THEN None
        ELSE from_bytes(bytes)

-----------------------------------------------------------------------------
(* The encoding between WssSession and the handler.                        *)

WssEncode(codec, frame, minute) ==
    {apply(padded, codec.key, minute, codec.arch) :
        padded \in pad(codec.padding, to_bytes(frame))}

\* What recv_frame makes of a message: without valid padding it is dropped
\* and the loop waits for the next one; otherwise recv_frame returns, with
\* the frame or, None, the error of rkyv, which ends the reading.
WssDecode(codec, data, minute) ==
    LET unpadded == unpad(apply(data, codec.key, minute, codec.arch))
    IN  IF unpadded = None
        THEN [returns |-> FALSE, frame |-> None]
        ELSE [returns |-> TRUE, frame |-> from_bytes(unpadded)]

=============================================================================
