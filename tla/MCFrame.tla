------------------------------- MODULE MCFrame -------------------------------
(* The integers at the edges of a varint, -1 being 0xffffffff, every kind  *)
(* of message, the longest ones included, and short transfers.             *)
EXTENDS Frame

Msg(k, fs) == [kind |-> k, fields |-> fs]

MCRequests ==
    {Msg(0, <<>>), Msg(Read, <<-1, 6>>), Msg(Write, <<128, 5>>), Msg(Reset, <<>>), Msg(6, <<0>>)}
    \cup {Msg(3, <<a, 128>>) : a \in {127, 128, 2^28}}
    \cup {Msg(Jump, <<-1, r, s>>) : r, s \in {<<>>, <<-1>>, <<2^21 - 1>>}}
    \cup {Msg(7, <<s>>) : s \in {16383, 16384}}
    \cup {Msg(8, <<2^28 - 1, -1>>), Msg(9, << <<0, <<-1>>>> >>), Msg(9, << <<1, <<-1, 2^21, -2>>>> >>)}

MCResponses == {Msg(0, <<>>), Msg(1, <<3>>), Msg(2, <<<<>>>>), Msg(2, <<<<-1>>>>)}
=============================================================================
