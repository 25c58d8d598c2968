------------------------------- MODULE Bytes -------------------------------
(***************************************************************************)
(* Byte strings as the encodings use them, scaled down: a byte has Base    *)
(* values instead of 256 and a u32 has LenBytes digits instead of 4.       *)
(***************************************************************************)
EXTENDS Integers, Sequences, SequencesExt

CONSTANTS
    Base,      \* the number of byte values, a power of two
    LenBytes,  \* digits of a little-endian length header
    None       \* Option::None, or the Err of a Result

ASSUME BytesAssumption == Base \in Nat \ {0, 1} /\ LenBytes \in Nat \ {0}

Byte == 0 .. Base - 1

\* u32::to_le_bytes after the cast "as u32", which drops the high digits.
to_le_bytes(n) == [i \in 1 .. LenBytes |-> (n \div (Base ^ (i - 1))) % Base]

from_le_bytes(digits) ==
    FoldRight(LAMBDA digit, acc : digit + Base * acc, digits, 0)

=============================================================================
