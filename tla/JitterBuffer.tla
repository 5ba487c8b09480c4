---------------------------- MODULE JitterBuffer ----------------------------
(***************************************************************************)
(* JitterBuffer (jitter_buffer.rs): a bounded FIFO that sheds the oldest   *)
(* packet when it is full, and whose bound only ever rises.  A buffer is a *)
(* record of its queue and its capacity.                                   *)
(***************************************************************************)
EXTENDS Integers, Sequences

LargerOf(a, b) == IF a >= b THEN a ELSE b

NewBuffer(capacity) == [queue |-> <<>>, capacity |-> LargerOf(capacity, 1)]

GrowTo(b, capacity) ==
  [b EXCEPT !.capacity = LargerOf(b.capacity, LargerOf(capacity, 1))]

(* push sheds the oldest packet first: "true" in the code. *)
Full(b) == Len(b.queue) >= b.capacity

Push(b, packet) ==
  [b EXCEPT !.queue = Append(IF Full(b) THEN Tail(b.queue) ELSE b.queue, packet)]

Pop(b) == [b EXCEPT !.queue = Tail(b.queue)]

Room(b) == IF Full(b) THEN 0 ELSE b.capacity - Len(b.queue)
=============================================================================
