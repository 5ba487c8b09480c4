------------------------------- MODULE Config -------------------------------
(***************************************************************************)
(* The configuration of a run (config.rs): what it holds, the setters that *)
(* build it one option at a time, what the depths and the timeout come to  *)
(* for a given arrival lead, and which combinations are refused.           *)
(* Durations are in ticks, the factor of an adaptive depth in tenths.      *)
(***************************************************************************)
EXTENDS Integers

CONSTANTS
  None,
  DefaultLatency, DefaultMaxLatency, DefaultCeiling, DefaultFactor, DefaultGrace

ASSUME ConfigAssumption ==
  /\ {DefaultLatency, DefaultMaxLatency, DefaultCeiling, DefaultFactor, DefaultGrace} \subseteq Nat
  /\ DefaultLatency <= DefaultCeiling
  /\ 2 * DefaultLatency <= DefaultMaxLatency

Least(a, b) == IF a <= b THEN a ELSE b
Greatest(a, b) == IF a >= b THEN a ELSE b

Scaled(duration, factor) == (duration * factor) \div 10

Fixed(target, max) == [kind |-> "fixed", target |-> target, max |-> max]
Adaptive(floor, ceiling, factor) ==
  [kind |-> "adaptive", floor |-> floor, ceiling |-> ceiling, factor |-> factor]

(* clamp asserts that its bounds are in order.                              *)
Sizes(latency) == latency.kind = "adaptive" => latency.floor <= latency.ceiling

(* Latency::target, where it returns.                                       *)
Target(latency, lead) ==
  IF latency.kind = "fixed" THEN latency.target
  ELSE Greatest(latency.floor, Least(latency.ceiling, Scaled(lead, latency.factor)))

Cap(latency, target) ==
  IF latency.kind = "fixed" THEN latency.max ELSE Greatest(2 * target, DefaultMaxLatency)

(* Stall::timeout: None where detection is off.                             *)
Timeout(stall, target) ==
  CASE stall.kind = "off"   -> None
    [] stall.kind = "after" -> stall.timeout
    [] OTHER                -> target + stall.grace

(* Config::new, and Config::auto for a bitrate of None.                     *)
NewConfig(bitrate) ==
  [bitrate   |-> bitrate,
   latency   |-> Adaptive(DefaultLatency, DefaultCeiling, DefaultFactor),
   pcr       |-> "regenerate",
   stall     |-> [kind |-> "adaptive", grace |-> DefaultGrace],
   policy    |-> "mute",
   clocking  |-> "arrival",
   seed      |-> 0,
   position  |-> "report",
   align     |-> None]

WithPcrMode(c, pcr) == [c EXCEPT !.pcr = pcr]
WithClocking(c, clocking) == [c EXCEPT !.clocking = clocking]
WithSequenceSeed(c, seed) == [c EXCEPT !.seed = seed]
WithPcrPositionPolicy(c, position) == [c EXCEPT !.position = position]
WithAlign(c, window) == [c EXCEPT !.align = window]

(* Each pins one depth and takes the other from what was chosen before it.  *)
WithLatency(c, target) == [c EXCEPT !.latency = Fixed(target, Cap(@, target))]
WithMaxLatency(c, max) == [c EXCEPT !.latency = Fixed(Target(@, 0), max)]

WithAdaptiveLatency(c, floor, ceiling, factor) ==
  [c EXCEPT !.latency = Adaptive(floor, ceiling, factor)]

WithSegmentDuration(c, segment) ==
  LET target == Scaled(segment, DefaultFactor)
  IN WithMaxLatency(WithLatency(c, target), 2 * target)

(* A timeout of 0 is None here: it turns detection off.                     *)
WithStallTimeout(c, timeout) ==
  [c EXCEPT !.stall = IF timeout = 0 THEN [kind |-> "off"]
                      ELSE [kind |-> "after", timeout |-> timeout]]

WithStallGrace(c, grace) == [c EXCEPT !.stall = [kind |-> "adaptive", grace |-> grace]]
WithStallPolicy(c, policy) == [c EXCEPT !.policy = policy]

(* Mutant of Valid: the depths of a stream-clocked leg may be measured.     *)
ValidAdaptive(c) ==
  /\ c.latency.kind = "fixed" => c.latency.target <= c.latency.max
  /\ c.align # None => c.clocking = "stream"
  /\ c.clocking = "stream" => c.bitrate # None /\ c.pcr = "regenerate"

(* Config::validate.                                                        *)
Valid(c) ==
  /\ c.latency.kind = "fixed" => c.latency.target <= c.latency.max
  /\ c.align # None => c.clocking = "stream"
  /\ c.clocking = "stream" =>
       c.bitrate # None /\ c.pcr = "regenerate" /\ c.latency.kind = "fixed"
=============================================================================
