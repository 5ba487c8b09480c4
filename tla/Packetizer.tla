----------------------------- MODULE Packetizer -----------------------------
(***************************************************************************)
(* What framing a byte stream into transport packets promises, whoever     *)
(* does it: the packets cut depend on the bytes and on their order alone,  *)
(* not on how the stream was divided into reads or calls, nor on who gave  *)
(* up waiting in between.  From the front of the stream, PacketSize bytes  *)
(* that start with the sync byte are a packet; if they start with another, *)
(* one byte is dropped and the next is tried.  What is not whole yet waits.*)
(***************************************************************************)
EXTENDS Integers, Sequences

CONSTANTS
  Sync,        \* the sync byte
  PacketSize   \* bytes in a packet, at least one: its users assume it

VARIABLES
  fed,         \* every byte of the stream so far
  at,          \* how many of them have been dealt with
  cut          \* the packets cut so far, in order, and where each began

vars == <<fed, at, cut>>

Init == fed = <<>> /\ at = 0 /\ cut = <<>>

Feed ==
  /\ Len(fed) < Len(fed')
  /\ \A i \in 1..Len(fed) : fed'[i] = fed[i]
  /\ UNCHANGED <<at, cut>>

(* The bytes of a packet that begins behind the first n bytes.              *)
DataAt(n) == [i \in 1..PacketSize |-> fed[n + i]]

Whole == at + PacketSize <= Len(fed)

Cut ==
  /\ Whole
  /\ fed[at + 1] = Sync
  /\ cut' = Append(cut, [start |-> at, data |-> DataAt(at)])
  /\ at' = at + PacketSize
  /\ UNCHANGED fed

Skip ==
  /\ Whole
  /\ fed[at + 1] # Sync
  /\ at' = at + 1
  /\ UNCHANGED <<fed, cut>>

Next == Feed \/ Cut \/ Skip

Spec == Init /\ [][Next]_vars

=============================================================================
