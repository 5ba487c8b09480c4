--------------------------- MODULE AdaptiveRelease ---------------------------
(***************************************************************************)
(* The numbers behind an adaptive pacer, from the PCR stamps and arrival   *)
(* times of a feed to what leaves and when: the estimated media rate, the  *)
(* arrival lead, the cushion and the cap sized from it, the start gate,    *)
(* and the release that holds the buffer at the cushion.  ArrivalPacer has *)
(* the loop, the packets and the PCRs of the same scheduler, and leaves    *)
(* these numbers open; here the packets are counted.                       *)
(***************************************************************************)
EXTENDS MediaClock, Sequences

CONSTANTS
  DefaultLatency, DefaultMaxLatency, DefaultCeiling, DefaultFactor, DefaultGrace,
  SlotTime,     \* ticks of a datagram on the wire
  SlotPackets,  \* packets of a datagram
  StartPoll,    \* START_POLL
  Feeds,        \* [feed |-> sequence of [at, pcr, di]], each packet's arrival and stamp
  True,         \* [feed |-> the rate of its clock, or None if it has no steady one]
  Rides,        \* feeds whose gaps the cushion is there for
  Continuous,   \* feeds that never get ahead of real time
  MaxTime       \* bound of the run

INSTANCE Config

VARIABLES
  feed, now, pos,       \* the feed, and how many of its packets were taken
  wait,                 \* when the wait before the start last returned
  media, profile,
  target, capacity,     \* the cushion and the bound in force
  depth,                \* packets in the buffer
  anchor, slot,         \* the byte clock: when it started, datagrams since
  firstAt, lastAt,      \* first and last content
  stalled,
  underruns, shed       \* statistics

vars == <<feed, now, pos, wait, media, profile, target, capacity, depth, anchor, slot,
          firstAt, lastAt, stalled, underruns, shed>>
-----------------------------------------------------------------------------
Latency == NewConfig(None).latency
Stall   == NewConfig(None).stall

LatencyToPackets(latency) == (latency * CarrierRate + RateUnit - 1) \div RateUnit

Init ==
  /\ feed \in DOMAIN Feeds
  /\ now = 0 /\ pos = 0 /\ wait = 0
  /\ media = NewClock /\ profile = NewProfile
  /\ target = Target(Latency, 0)
  /\ capacity = LatencyToPackets(Cap(Latency, Target(Latency, 0)))
  /\ depth = 0 /\ anchor = None /\ slot = 0 /\ firstAt = None /\ lastAt = None
  /\ stalled = FALSE /\ underruns = 0 /\ shed = 0

SlotDue == anchor # None /\ now >= anchor + slot * SlotTime
Arrived == pos < Len(Feeds[feed]) /\ Feeds[feed][pos + 1].at <= now

(* MUTANT of Opens: no deadline.                                            *)
OpensWhenever(p, t, d, c, first) ==
  \/ d >= LatencyToPackets(t) /\ (~Bursty(p) \/ BetweenDeliveries(p, now))
  \/ c - d <= LatencyToPackets(Latency.floor)

(* The start gate: the cushion is held and the input between deliveries, or *)
(* the buffer has no more than the floor left, or the deadline is past.     *)
Opens(p, t, d, c, first) ==
  \/ d >= LatencyToPackets(t) /\ (~Bursty(p) \/ BetweenDeliveries(p, now))
  \/ c - d <= LatencyToPackets(Latency.floor)
  \/ now - first >= Latency.ceiling

Arm(m, p, t, d, c, first) ==
  IF anchor = None /\ Opens(p, t, d, c, first)
  THEN anchor' = now /\ media' = [m EXCEPT !.anchor = now]
  ELSE anchor' = anchor /\ media' = m

(* enqueue: the arrival is measured against the rate known before it, the   *)
(* depths follow, and the packet's own PCR refines the rate after that.     *)
Enqueue ==
  /\ Arrived /\ ~SlotDue
  /\ LET packet == Feeds[feed][pos + 1]
         resumed == IF stalled THEN Restarted(media, now + target) ELSE media
         p == ObserveArrival(profile, now, EstimatedRate(resumed))
         t == Target(Latency, Lead(p))
         grown == LatencyToPackets(Cap(Latency, t))
         c == IF grown > capacity THEN grown ELSE capacity
         d == IF depth >= c THEN depth ELSE depth + 1
         first == IF firstAt = None THEN now ELSE firstAt
     IN /\ profile' = p /\ target' = t /\ capacity' = c /\ depth' = d
        /\ shed' = shed + (depth + 1 - d)
        /\ firstAt' = first
        /\ Arm(Observe(resumed, packet), p, t, d, c, first)
  /\ stalled' = FALSE /\ lastAt' = now
  /\ pos' = pos + 1 /\ wait' = now
  /\ UNCHANGED <<feed, now, slot, underruns>>

(* The wait before the start ran out: poll_start.                           *)
Poll ==
  /\ anchor = None /\ ~Arrived /\ now - wait >= StartPoll
  /\ IF firstAt = None THEN UNCHANGED <<anchor, media>>
     ELSE Arm(media, profile, target, depth, capacity, firstAt)
  /\ wait' = now
  /\ UNCHANGED <<feed, now, pos, profile, target, capacity, depth, slot, firstAt, lastAt,
                 stalled, underruns, shed>>

Gone == depth = 0 /\ now - lastAt >= Timeout(Stall, target)

(* MUTANT of ContentTarget: no servo.                                       *)
ContentTargetNone == 0

(* The cushion in content packets, which the release holds the buffer at.   *)
ContentTarget == (media.rate * target) \div RateUnit

(* One datagram: what is due leaves, and a slot that wants content which is *)
(* not there is an underrun.                                                *)
Emit ==
  /\ SlotDue /\ ~Gone
  /\ LET m == Advance(media, now, depth, ContentTarget)
         due == Due(m, now) - m.released
         wanted == IF due > SlotPackets THEN SlotPackets ELSE due
     IN IF wanted <= depth
        THEN /\ media' = [m EXCEPT !.released = @ + wanted]
             /\ depth' = depth - wanted
             /\ UNCHANGED underruns
        ELSE /\ media' = [m EXCEPT !.released = @ + depth]
             /\ depth' = 0
             /\ underruns' = underruns + SlotPackets - depth
  /\ slot' = slot + 1 /\ stalled' = FALSE
  /\ UNCHANGED <<feed, now, pos, wait, profile, target, capacity, anchor, firstAt, lastAt, shed>>

Mute ==
  /\ SlotDue /\ Gone
  /\ slot' = slot + 1 /\ stalled' = TRUE
  /\ UNCHANGED <<feed, now, pos, wait, media, profile, target, capacity, depth, anchor,
                 firstAt, lastAt, underruns, shed>>

Tick ==
  /\ ~SlotDue /\ ~Arrived /\ (anchor = None => now - wait < StartPoll)
  /\ pos < Len(Feeds[feed]) /\ now < MaxTime
  /\ now' = now + SlotTime
  /\ UNCHANGED <<feed, pos, wait, media, profile, target, capacity, depth, anchor, slot,
                 firstAt, lastAt, stalled, underruns, shed>>

Next == Enqueue \/ Poll \/ Emit \/ Mute \/ Tick

Spec == Init /\ [][Next]_vars
-----------------------------------------------------------------------------
LOCAL Distance(a, b) == IF a >= b THEN a - b ELSE b - a

(* A source with a steady clock has its rate recovered within one percent,  *)
(* whatever the clock does to its values: PCRs closer than a sample, a      *)
(* wrap, a splice, a loop, a silence (MediaClock::observe: "unbiased        *)
(* however the packets are distributed between the intervals").             *)
RateRecovered ==
  media.estimated /\ True[feed] # None => 100 * Distance(media.rate, True[feed]) <= True[feed]

(* Once it started, a pacer neither runs dry nor sheds programme over the   *)
(* gaps and bursts its cushion is sized for: segments, one of them late, a  *)
(* hiccup, a backlog, a drifting clock, a clock that stops (Latency:        *)
(* "factor covers the difference between a normal gap and the worst one";   *)
(* due: "Correcting the release rate by the occupancy error does bound it"). *)
RidesGaps == feed \in Rides => underruns = 0 /\ shed = 0

(* The gate opens by its deadline, and for a continuous feed as soon as the *)
(* floor is held (arm: "it starts as soon as it is primed").                *)
OpensInTime ==
  anchor = None /\ firstAt # None =>
    /\ now - firstAt <= Latency.ceiling + StartPoll
    /\ feed \in Continuous => depth < LatencyToPackets(Latency.floor)
=============================================================================
