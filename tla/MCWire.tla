------------------------------- MODULE MCWire -------------------------------
(* Small byte strings, sizes and lists for Wire.                           *)
EXTENDS Wire

MCSizes == <<12, 18>>

MCPayloads == {<<>>, <<0>>, <<3, 1>>, <<1, 0, 2>>}

Fixed == [kind |-> "Fixed"]

MCStrategies ==
    {[dist |-> Fixed, jitter |-> TRUE], [dist |-> Fixed, jitter |-> FALSE],
     [dist |-> [kind |-> "Random", min |-> 10, max |-> 12], jitter |-> FALSE],
     [dist |-> [kind |-> "Normal", reach |-> 13], jitter |-> FALSE]}

MCBuilds == {<<"scalar", "avx2">>, <<"avx2", "neon">>, <<"neon", "scalar">>}

V4 == <<1, 2>>
V6 == <<1, 0, 3, 2>>

MCAddressLists == BoundedSeq({V4, V6}, 4) \ {<<>>}

MCPackets == {<<>>, <<1>>, <<0, 2>>, <<3>>}

=============================================================================
