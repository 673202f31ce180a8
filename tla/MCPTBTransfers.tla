--------------------------- MODULE MCPTBTransfers ---------------------------
EXTENDS PTBTransfers

CONSTANTS s, r1, c1, c2

MCAddresses == {s, r1}
MCCoinBalance == [c \in {c1, c2} |-> IF c = c1 THEN 2 ELSE 3]

(* None, two recipients in turn with equal amounts, too few recipients. *)
MCPayments ==
  {<< <<>>, <<>> >>, << <<r1, s, r1>>, <<1, 2, 1>> >>, << <<r1>>, <<2>> >>, << <<r1>>, <<1, 1>> >>}
=============================================================================
