----------------------------- MODULE MediaClock -----------------------------
(***************************************************************************)
(* MediaClock (scheduler.rs): the media rate recovered from the source's   *)
(* PCR, and how many packets it authorises by now, trimmed to hold the     *)
(* buffer at its target.  Rates count packets over RateUnit ticks; the     *)
(* decayed sums are kept in Precision-ths, and lose of their weight the    *)
(* share of the window a sample lasts, where the code has an exponential.  *)
(***************************************************************************)
EXTENDS ArrivalProfile

CONSTANTS
  PcrWrap, DiscontinuityGap,
  CarrierRate,        \* the mux rate in packets: fallback and ceiling of the estimate
  StallClockPackets,  \* a second of carriage
  MinSample,          \* MIN_RATE_SAMPLE
  RateWindow,         \* RATE_WINDOW
  ServoGain,          \* RATE_SERVO_GAIN, in percent
  Precision

ASSUME MediaClockAssumption ==
  /\ {RateUnit, Window, DeliveryGap, BurstyLead, PcrWrap, DiscontinuityGap, CarrierRate,
      StallClockPackets, MinSample, RateWindow, Precision} \subseteq Nat \ {0}
  /\ ServoGain \in 0 .. 100

NewClock ==
  [anchor |-> None, ticked |-> None, credit |-> 0, released |-> 0,
   rate |-> CarrierRate, estimated |-> FALSE, lastPcr |-> None, since |-> 0,
   packets |-> 0, span |-> 0, pending |-> [packets |-> 0, span |-> 0], stopped |-> FALSE]

LOCAL Delta(last, pcr) == IF pcr >= last THEN pcr - last ELSE PcrWrap - last + pcr

(* MUTANT of Measures: a splice, declared or not, is an interval like any.  *)
MeasuresJumps(c, packet) == c.lastPcr # None /\ Delta(c.lastPcr, packet.pcr) > 0

(* A real interval: time went by, in one clock, and not too much of it.     *)
Measures(c, packet) ==
  /\ c.lastPcr # None /\ ~packet.di
  /\ Delta(c.lastPcr, packet.pcr) \in 1 .. DiscontinuityGap

Pend(c, packet) ==
  [c EXCEPT !.pending.packets = @ + c.since,
            !.pending.span = @ + Delta(c.lastPcr, packet.pcr)]

Decayed(sum, span) == IF span >= RateWindow THEN 0 ELSE sum - (sum * span) \div RateWindow

(* The pending sample joins the sums: a ratio of sums, not a mean of ratios. *)
Fold(c) ==
  [c EXCEPT !.packets = Decayed(@, c.pending.span) + Precision * c.pending.packets,
            !.span = Decayed(@, c.pending.span) + Precision * c.pending.span,
            !.pending = [packets |-> 0, span |-> 0]]

(* The content cannot be faster than the carrier it leaves in.              *)
Credible(c) == c.packets * RateUnit <= CarrierRate * c.span

Judged(c) ==
  IF Credible(c)
  THEN [c EXCEPT !.rate = (c.packets * RateUnit) \div c.span, !.estimated = TRUE, !.stopped = FALSE]
  ELSE [c EXCEPT !.stopped = TRUE]

(* Coalesced until it spans enough media time to be a sample; a clock that  *)
(* has not got there within a second of carriage has stopped.               *)
Sampled(c) ==
  IF c.pending.span >= MinSample THEN Judged(Fold(c))
  ELSE [c EXCEPT !.stopped = @ \/ c.pending.packets > StallClockPackets]

Seeded(c, pcr) == [c EXCEPT !.lastPcr = pcr, !.since = 0]

Observe(clock, packet) ==
  LET c == [clock EXCEPT !.since = @ + 1]
  IN IF packet.pcr = None THEN c
     ELSE Seeded(IF Measures(c, packet) THEN Sampled(Pend(c, packet)) ELSE c, packet.pcr)

EstimatedRate(c) == IF c.estimated THEN c.rate ELSE None

(* The occupancy error in percent of the target, clamped to a whole one.    *)
LOCAL Error(buffered, target) ==
  LET error == ((buffered - target) * 100) \div target
  IN IF error > 100 THEN 100 ELSE IF error < -100 THEN -100 ELSE error

Accrued(c, span, buffered, target) ==
  IF target = 0 THEN span * c.rate
  ELSE (span * c.rate * (10000 + ServoGain * Error(buffered, target))) \div 10000

Advance(c, now, buffered, target) ==
  LET last == IF c.ticked = None THEN c.anchor ELSE c.ticked
  IN IF c.anchor = None \/ now < c.anchor \/ now <= last THEN c
     ELSE [c EXCEPT !.ticked = now, !.credit = @ + Accrued(c, now - last, buffered, target)]

(* Packets that should have been released by now.                           *)
Due(c, now) ==
  IF c.anchor = None \/ now < c.anchor THEN 0 ELSE c.credit \div RateUnit + 1

(* Scheduler::resume: the media timeline restarts, the estimate is kept.    *)
Restarted(c, anchor) ==
  [NewClock EXCEPT !.anchor = anchor, !.rate = c.rate, !.estimated = c.estimated]
=============================================================================
