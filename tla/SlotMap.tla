------------------------------ MODULE SlotMap ------------------------------
(***************************************************************************)
(* The fixed mapping between 27 MHz PCR values and output packet indices   *)
(* at one locked mux rate (slot.rs), and the modular distance between two  *)
(* PCR values (pcr.rs).  It keeps no state: everything here is a function  *)
(* of the stream and of three numbers.                                     *)
(***************************************************************************)
EXTENDS Integers

CONSTANTS
  PacketTicks,  \* PACKET_BITS * PCR_CLOCK_HZ: PCR ticks of a packet at 1 bit/s
  MuxRate,      \* the locked mux rate; a slot lasts PacketTicks/MuxRate ticks
  PcrWrap       \* PCR_WRAP_TICKS: where the PCR value wraps

ASSUME SlotMapAssumption ==
  /\ PacketTicks \in Nat \ {0}
  /\ MuxRate \in Nat \ {0}      \* SlotMap::new takes max(1)
  /\ PcrWrap \in Nat \ {0}

(* Ticks that n whole packets last on the transport byte clock. *)
TicksOf(n) == (n * PacketTicks) \div MuxRate

SlotOfPcr(pcr) == (pcr * MuxRate) \div PacketTicks

PcrOfSlot(slot) == TicksOf(slot) % PcrWrap

SlotsPerWrap == SlotOfPcr(PcrWrap)

ForwardDelta(previous, current) ==
  IF current >= previous THEN current - previous ELSE PcrWrap - previous + current
=============================================================================
