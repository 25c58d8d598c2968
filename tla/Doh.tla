-------------------------------- MODULE Doh --------------------------------
(***************************************************************************)
(* The simplified DNS answers of client/src/doh.rs: a count byte, then for *)
(* each address a type byte and its octets.  An A record has V4Octets      *)
(* octets, an AAAA record V6Octets; a byte has Base values.                *)
(***************************************************************************)
EXTENDS Bytes

CONSTANTS V4Octets, V6Octets

ASSUME DohAssumption == {V4Octets, V6Octets} \subseteq Nat \ {0}

TypeA    == 1
TypeAAAA == 2

Record(addr) == <<IF Len(addr) = V4Octets THEN TypeA ELSE TypeAAAA>> \o addr

\* The count is "len() as u8": it keeps the low byte only.
build_doh_response(addresses) ==
    <<Len(addresses) % Base>>
        \o FlattenSeq([i \in DOMAIN addresses |-> Record(addresses[i])])

OctetsOf(record_type) == IF record_type = TypeA THEN V4Octets ELSE V6Octets

\* Mutant of ParseStep: a record that ends with the answer does not fit.
ParseStepShort(resp, s) ==
    LET octets == OctetsOf(resp[s.offset + 1])
    IN  IF s.done \/ s.offset >= Len(resp)
        THEN s
        ELSE IF s.offset + 1 + octets < Len(resp)
        THEN [s EXCEPT !.offset = s.offset + 1 + octets,
                !.results = Append(@, SubSeq(resp, s.offset + 2,
                                             s.offset + 1 + octets))]
        ELSE [s EXCEPT !.offset = @ + 1]

\* One iteration of the parse loop: nothing at the end of the bytes or after
\* an unknown type; a record that does not fit gives up its type byte only.
ParseStep(resp, s) ==
    LET record_type == resp[s.offset + 1]
        octets      == OctetsOf(record_type)
        offset      == s.offset + 1
    IN  CASE s.done \/ s.offset >= Len(resp) -> [s EXCEPT !.done = TRUE]
          [] OTHER ->
                IF record_type \notin {TypeA, TypeAAAA}
                THEN [s EXCEPT !.done = TRUE]
                ELSE IF offset + octets <= Len(resp)
                THEN [s EXCEPT !.offset = offset + octets,
                        !.results = Append(@, SubSeq(resp, offset + 1,
                                                     offset + octets))]
                ELSE [s EXCEPT !.offset = offset]

\* The addresses, or None for DohError::NoResults.
parse_doh_response(resp) ==
    LET Start  == [offset |-> 1, results |-> <<>>, done |-> FALSE]
        parsed == FoldLeft(LAMBDA s, i : ParseStep(resp, s), Start,
                           [i \in 1 .. resp[1] |-> i])
    IN  IF resp = <<>> \/ parsed.results = <<>> THEN None ELSE parsed.results

=============================================================================
