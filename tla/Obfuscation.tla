---------------------------- MODULE Obfuscation ----------------------------
(***************************************************************************)
(* The byte transformations every frame goes through between the client    *)
(* and the handler: smart padding (padding.rs), the time-dependent XOR     *)
(* mask (xor_mask.rs) and the compression gate (compression.rs).  The mask *)
(* generator has a StateBits-bit state instead of 64; sizes, thresholds,   *)
(* lanes and shift distances are scaled with it.  Everything random in the *)
(* code is a set of outcomes here.                                         *)
(***************************************************************************)
EXTENDS Bytes, Bitwise

CONSTANTS
    StateBits,             \* width of the mask generator's state
    SIZE_DISTRIBUTION,     \* ascending sequence of target sizes
    JITTER_PERCENT,        \* divisor of the jitter range
    MIN_SIZE,              \* smallest padded target
    COMPRESSION_THRESHOLD  \* data this long or longer is compressed

ASSUME ObfuscationAssumption ==
    /\ StateBits \in Nat \ {0}
    /\ Len(SIZE_DISTRIBUTION) > 0
    /\ JITTER_PERCENT \in Nat \ {0}
    /\ {MIN_SIZE, COMPRESSION_THRESHOLD} \subseteq Nat

-----------------------------------------------------------------------------
(* Padding.                                                                *)

\* The largest bucket; data that outgrows it is sent unpadded.
Largest == SIZE_DISTRIBUTION[Len(SIZE_DISTRIBUTION)]

Larger(a, b) == IF a > b THEN a ELSE b

\* The first size of the distribution that is larger than the payload.
Bucket(payload_len) ==
    LET larger == SelectSeq(SIZE_DISTRIBUTION, LAMBDA s : s > payload_len)
    IN  IF larger = <<>> THEN Largest ELSE Head(larger)

\* SizeDistribution: Fixed and Learned search their table; Random draws a
\* size below max, at least the payload's; Normal draws any size up to a few
\* standard deviations (reach) and takes the payload's length if larger.
BaseTargets(dist, payload_len) ==
    CASE dist.kind = "Fixed"  -> {Bucket(payload_len)}
      [] dist.kind = "Random" ->
            IF payload_len >= dist.max
            THEN {dist.max}
            ELSE Larger(payload_len, dist.min) .. dist.max - 1
      [] dist.kind = "Normal" ->
            {Larger(payload_len, size) : size \in 0 .. dist.reach}

\* The sizes calculate_target_size may return: a base target, not below the
\* minimum, moved by a random jitter of at most one JITTER_PERCENT-th.
calculate_target_size(strategy, payload_len) ==
    UNION {LET target == Larger(base_target, MIN_SIZE)
               range  == IF strategy.jitter THEN target \div JITTER_PERCENT ELSE 0
           IN  {target - range + j : j \in 0 .. 2 * range} :
              base_target \in BaseTargets(strategy.dist, payload_len)}

\* saturating_sub: a target below the payload's length means no padding.
calculate_padding_len(payload_len, target) ==
    IF target > payload_len THEN target - payload_len ELSE 0

\* The results pad may have: length header, data, filler.  Filler bytes are
\* random in the code; one byte value repeated stands for them.
pad(strategy, data) ==
    LET Filler(target, byte) ==
            [i \in 1 .. calculate_padding_len(Len(data), target) |-> byte]
    IN  {to_le_bytes(Len(data)) \o data \o Filler(target, byte) :
            target \in calculate_target_size(strategy, Len(data)),
            byte \in {0, Base - 1}}

unpad(data) ==
    LET original_len == from_le_bytes(SubSeq(data, 1, LenBytes))
    IN  IF Len(data) < LenBytes \/ Len(data) < LenBytes + original_len
        THEN None
        ELSE SubSeq(data, LenBytes + 1, LenBytes + original_len)

-----------------------------------------------------------------------------
(* The XOR mask.                                                           *)

Word == 2 ^ StateBits

Shl(x, k) == (x * 2 ^ k) % Word
Shr(x, k) == x \div 2 ^ k

\* One round of the xorshift generator, with the shift distances of the
\* code's 64-bit state scaled down.
Xorshift(state) ==
    LET a == state ^^ Shl(state, 3)
        b == a ^^ Shr(a, 2)
    IN  b ^^ Shl(b, 5)

\* The mask bytes for a message of length len in the given minute: the low
\* byte of each successive state, seeded by the minute and the session key.
generate_mask(session_key, minute, len) ==
    LET state[i \in 0 .. len] ==
            IF i = 0 THEN minute ^^ session_key ELSE Xorshift(state[i - 1])
    IN  [i \in 1 .. len |-> state[i] % Base]

xor_scalar(data, mask) == [i \in 1 .. Len(data) |-> data[i] ^^ mask[i]]

\* The vector forms: whole lanes of the given width first (the loop stops at
\* the first lane that would not fit), the remaining bytes one by one.
XorLanes(data, mask, width) ==
    LET lanes == Len(data) \div width
        i     == width * lanes
        InLane(k) == [j \in 1 .. width |->
                        data[width * k + j] ^^ mask[width * k + j]]
        Rest      == [j \in 1 .. Len(data) - i |-> data[i + j] ^^ mask[i + j]]
    IN  FlattenSeq([k \in 1 .. lanes |-> InLane(k - 1)]) \o Rest

\* Mutant of xor_avx2: the bytes after the last whole lane stay as they are.
Avx2WithoutTail(data, mask) ==
    LET whole == 4 * (Len(data) \div 4)
    IN  XorLanes(SubSeq(data, 1, whole), mask, 4)
            \o SubSeq(data, whole + 1, Len(data))

xor_avx2(data, mask) == XorLanes(data, mask, 4)

xor_neon(data, mask) == XorLanes(data, mask, 2)

\* XorMask::apply with the target feature the build selects.
apply(data, session_key, minute, arch) ==
    LET mask == generate_mask(session_key, minute, Len(data))
    IN  CASE arch = "avx2"   -> xor_avx2(data, mask)
          [] arch = "neon"   -> xor_neon(data, mask)
          [] arch = "scalar" -> xor_scalar(data, mask)

-----------------------------------------------------------------------------
(* Compression.  zstd itself is a library: an invertible encoding with a   *)
(* recognisable first byte, whose output differs from its input.           *)

ZstdMagic == Base - 1

zstd_encode(data) == <<ZstdMagic>> \o Reverse(data)

zstd_decode(data) ==
    IF data = <<>> \/ Head(data) # ZstdMagic THEN None ELSE Reverse(Tail(data))

\* The data to send and whether it was compressed.
compress_if_needed(data) ==
    IF Len(data) < COMPRESSION_THRESHOLD
    THEN [data |-> data, compressed |-> FALSE]
    ELSE [data |-> zstd_encode(data), compressed |-> TRUE]

=============================================================================
