--------------------------- MODULE MCArrivalPacer ---------------------------
(* Values TLC gives the constants of ArrivalPacer that a .cfg cannot write. *)
EXTENDS ArrivalPacer

Data        == [pcr |-> None, di |-> FALSE, null |-> FALSE]
Stamped(v)  == [pcr |-> v, di |-> FALSE, null |-> FALSE]
Declared(v) == [pcr |-> v, di |-> TRUE, null |-> FALSE]
Stuffing    == [pcr |-> None, di |-> FALSE, null |-> TRUE]

(* A clock that wraps, repeats, loops back and is spliced. *)
LoopingSource == {Data, Stamped(14), Stamped(1), Declared(3)}
(* Programme without and with a PCR. *)
PlainSource == {Data, Stamped(0)}
(* Two steps of one clock in the middle of data and stuffing, for stalls. *)
StallingSource == {Data, Stamped(0), Stamped(5), Stuffing}
=============================================================================
