------------------------------- MODULE WarmUp -------------------------------
(***************************************************************************)
(* Bitrate::Auto (resolve_auto in pacer.rs, estimate.rs): packets are held *)
(* back until enough PCRs were seen, then the mux rate is locked for the   *)
(* whole run at the measured content rate plus headroom.  A warm-up is a   *)
(* record of the packets held and of the PCRs among them; a packet here is *)
(* its PCR, or None, and whether it is stuffing.                           *)
(***************************************************************************)
EXTENDS Integers, Sequences, FiniteSets

CONSTANTS
  None,
  WarmupPcrs,   \* AUTO_WARMUP_PCRS
  WarmupMax,    \* AUTO_WARMUP_MAX_PACKETS
  PacketTicks,  \* bits of a packet times PCR ticks of a second
  PcrWrap,      \* PCR_WRAP_TICKS
  Headroom,     \* of Bitrate::Auto, in percent
  Fallback      \* DEFAULT_AUTO_FALLBACK

ASSUME WarmUpAssumption ==
  /\ {WarmupPcrs, WarmupMax, PacketTicks, PcrWrap, Fallback} \subseteq Nat \ {0}
  /\ WarmupPcrs >= 2
  /\ Headroom \in Nat

NewWarmUp == [packets |-> <<>>, pcrs |-> 0]

Gather(w, packet) ==
  [packets |-> Append(w.packets, packet),
   pcrs    |-> w.pcrs + (IF packet.pcr # None THEN 1 ELSE 0)]

Enough(w) == w.pcrs >= WarmupPcrs \/ Len(w.packets) >= WarmupMax

(* Mutant of Measurable: a silence settles for whatever there is.           *)
MeasurableAlready(w) == w.pcrs >= 1

(* What a silence asks of the warm-up before it is cut short.               *)
Measurable(w) == w.pcrs >= 2

PcrIndices(s) == {i \in DOMAIN s : s[i].pcr # None}

(* forward_delta from the first PCR to the last, whatever lies in between.  *)
Span(s) ==
  LET first == CHOOSE i \in PcrIndices(s) : \A j \in PcrIndices(s) : i <= j
      last  == CHOOSE i \in PcrIndices(s) : \A j \in PcrIndices(s) : i >= j
  IN [first |-> first, last |-> last,
      ticks |-> IF s[last].pcr >= s[first].pcr
                THEN s[last].pcr - s[first].pcr
                ELSE PcrWrap - s[first].pcr + s[last].pcr]

(* estimate_content_bitrate: None for fewer than two PCRs or no time.       *)
HasEstimate(s) == Cardinality(PcrIndices(s)) >= 2 /\ Span(s).ticks # 0

(* Mutant of Estimate: the packet of the last PCR is not counted.           *)
EstimateHalfOpen(s) ==
  LET content == {i \in Span(s).first .. Span(s).last - 1 : ~s[i].null}
  IN (Cardinality(content) * PacketTicks) \div Span(s).ticks

Estimate(s) ==
  LET content == {i \in Span(s).first .. Span(s).last : ~s[i].null}
  IN (Cardinality(content) * PacketTicks) \div Span(s).ticks

LockedRate(w) ==
  LET content == IF HasEstimate(w.packets) THEN Estimate(w.packets) ELSE Fallback
      rate    == (content * (100 + Headroom)) \div 100
  IN IF rate >= 1 THEN rate ELSE 1
=============================================================================
