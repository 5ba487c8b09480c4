---------------------------- MODULE MCPushHandle ----------------------------
(* Values TLC gives the constants of PushHandle that a .cfg cannot write.   *)
(* A packet is a sync byte and one more, which says what it is: 0 for data, *)
(* 1 for stuffing, and from 2 on a PCR.  71 is the sync byte, also where it *)
(* stands in the place of data.                                             *)
EXTENDS PushHandle

S == 71
PcrOfByte == [b \in {0, 1, 2, 4, 6, 8, 71} |-> IF b \in {2, 4, 6, 8} THEN b - 2 ELSE None]

(* One pusher with a clock, garbage and stuffing among its packets; two     *)
(* that share a stream, each with part of it.                               *)
PushedScenarios ==
  { [hard |-> FALSE, push |-> [p1 |-> <<S, 2, 0, S, 1, S, 6>>, p2 |-> <<>>]],
    [hard |-> FALSE, push |-> [p1 |-> <<S, 2, S, 71>>, p2 |-> <<S, 6, S>>]],
    [hard |-> FALSE, push |-> [p1 |-> <<S, 4, S>>, p2 |-> <<0, S, 4>>]],
    [hard |-> TRUE,  push |-> [p1 |-> <<S, 2, S, 2>>, p2 |-> <<S, 0>>]] }
=============================================================================
