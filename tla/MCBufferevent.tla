--------------------------- MODULE MCBufferevent ---------------------------
(* Buffered events for TLC: an application that reads, one that writes and *)
(* one that passes what it reads back.                                     *)
EXTENDS Bufferevent, TLC

CONSTANTS In, Out

MCCr == 13
MCLf == 10
MCLoads ==
    {[in |-> SubSeq(<<1, MCCr, MCLf, 2>>, 1, In), out |-> <<>>,
      uses |-> {"read", "line"}, sides |-> {"read"}],
     [in |-> <<>>, out |-> SubSeq(<<101, 102, 103, 104>>, 1, Out),
      uses |-> {"write", "printf", "pass"}, sides |-> {"write"}],
     [in |-> <<1, 2>>, out |-> <<101>>,
      uses |-> {"take", "write", "pass"}, sides |-> {"read"}]}
MCWatermarks == {<<0, 0>>, <<0, 1>>, <<2, 0>>}
=============================================================================
