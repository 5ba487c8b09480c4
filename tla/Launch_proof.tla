---------------------------- MODULE Launch_proof ----------------------------
(***************************************************************************)
(* What a command line that starts has started: the sizes and the stall    *)
(* timeout that its options ask for, whatever the options and the          *)
(* defaults, and counter lines no closer than their interval.              *)
(***************************************************************************)
EXTENDS Launch, FiniteSetTheorems, TLAPS

Maybe == Nat \cup {None}

Options ==
  [rtp : BOOLEAN, ssrc : Maybe, pcr : {"regenerate", "preserve"}, segment : Maybe,
   latency : Maybe, max : Maybe, ceiling : Maybe, timeout : Maybe, grace : Maybe,
   policy : Policies \cup {None}, clocking : {"arrival", "stream"}, seed : Maybe,
   align : Maybe, position : {"report", "fail"}, interval : Maybe]

Latencies ==
  [kind : {"fixed"}, target : Nat, max : Nat]
    \cup [kind : {"adaptive"}, floor : Nat, ceiling : Nat, factor : Nat]

Stall ==
  [kind : {"off"}] \cup [kind : {"after"}, timeout : Nat] \cup [kind : {"adaptive"}, grace : Nat]

Configs ==
  [bitrate : {None, 1}, latency : Latencies, pcr : {"regenerate", "preserve"}, stall : Stall,
   policy : Policies, clocking : {"arrival", "stream"}, seed : Maybe,
   position : {"report", "fail"}, align : Maybe]

Sized == {"validate", "egress", "pace", "pacing"}

(* What is paced was built from the line as it was typed, found valid and   *)
(* of a cushion that can be sized.                                          *)
LineInv ==
  /\ options \in Options
  /\ phase \in {"start", "parse", "configure", "exited"} \cup Sized
  /\ phase \in {"parse", "configure"} =>
       rate \in {"number", "auto", "word"} /\ mistyped = (rate = "word")
  /\ phase = "start" => mistyped = FALSE
  /\ phase \in Sized => /\ mistyped = FALSE
                        /\ rate \in {"number", "auto"}
                        /\ config = Built(options)
  /\ phase \in {"egress", "pace", "pacing"} => Valid(config)
  /\ phase = "pacing" => Sizes(config.latency)
-----------------------------------------------------------------------------
LEMMA Constants ==
  /\ None \notin Nat
  /\ DefaultLatency \in Nat /\ DefaultMaxLatency \in Nat /\ DefaultCeiling \in Nat
  /\ DefaultFactor \in Nat /\ DefaultGrace \in Nat
  /\ DefaultLatency <= DefaultCeiling
BY LaunchAssumption, ConfigAssumption DEF LaunchAssumption, ConfigAssumption

LEMMA ScaledType ==
  ASSUME NEW d \in Nat, NEW f \in Nat
  PROVE  Scaled(d, f) \in Nat
<1>1. d * f \in Nat
  OBVIOUS
<1>2. QED
  BY <1>1 DEF Scaled

(* An option that takes a number is read into its own field.                *)
LEMMA Numbered ==
  ASSUME NEW o \in Options, NEW flag \in Numbers, NEW n \in Maybe
  PROVE  [o EXCEPT ![flag] = n] \in Options
<1>1. CASE flag \in {"segment", "latency", "max", "ceiling"}
  BY <1>1 DEF Options, Numbers
<1>2. CASE flag \in {"timeout", "grace", "align"}
  BY <1>2 DEF Options, Numbers
<1>3. CASE flag \in {"interval", "seed", "ssrc"}
  BY <1>3 DEF Options, Numbers
<1>4. QED
  BY <1>1, <1>2, <1>3 DEF Numbers

LEMMA TargetType ==
  ASSUME NEW latency \in Latencies, NEW lead \in Nat
  PROVE  Target(latency, lead) \in Nat
<1>1. CASE latency \in [kind : {"fixed"}, target : Nat, max : Nat]
  BY <1>1 DEF Target
<1>2. CASE latency \in [kind : {"adaptive"}, floor : Nat, ceiling : Nat, factor : Nat]
  <2>1. Scaled(lead, latency.factor) \in Nat
    BY <1>2, ScaledType
  <2>2. QED
    BY <1>2, <2>1 DEF Target, Greatest, Least
<1>3. QED
  BY <1>1, <1>2 DEF Latencies

LEMMA CapType ==
  ASSUME NEW latency \in Latencies, NEW target \in Nat
  PROVE  Cap(latency, target) \in Nat
BY Constants DEF Latencies, Cap, Greatest

(* The setters, each on the one field it sets.                              *)
LEMMA SetLatency ==
  ASSUME NEW c \in Configs, NEW l \in Latencies
  PROVE  /\ [c EXCEPT !.latency = l] \in Configs
         /\ [c EXCEPT !.latency = l].latency = l
         /\ [c EXCEPT !.latency = l].stall = c.stall
         /\ [c EXCEPT !.latency = l].bitrate = c.bitrate
         /\ [c EXCEPT !.latency = l].pcr = c.pcr
         /\ [c EXCEPT !.latency = l].clocking = c.clocking
         /\ [c EXCEPT !.latency = l].align = c.align
BY DEF Configs

LEMMA SetStall ==
  ASSUME NEW c \in Configs, NEW s \in Stall
  PROVE  /\ [c EXCEPT !.stall = s] \in Configs
         /\ [c EXCEPT !.stall = s].latency = c.latency
         /\ [c EXCEPT !.stall = s].stall = s
         /\ [c EXCEPT !.stall = s].bitrate = c.bitrate
         /\ [c EXCEPT !.stall = s].pcr = c.pcr
         /\ [c EXCEPT !.stall = s].clocking = c.clocking
         /\ [c EXCEPT !.stall = s].align = c.align
BY DEF Configs
-----------------------------------------------------------------------------
(* What the modes of a configuration are: no depth and no timeout changes   *)
(* them.                                                                    *)
SameModes(c, d) ==
  d.bitrate = c.bitrate /\ d.pcr = c.pcr /\ d.clocking = c.clocking /\ d.align = c.align

LEMMA LatencySet ==
  ASSUME NEW c \in Configs, NEW n \in Nat
  PROVE  /\ WithLatency(c, n) \in Configs
         /\ SameModes(c, WithLatency(c, n)) /\ WithLatency(c, n).stall = c.stall
         /\ WithLatency(c, n).latency = Fixed(n, Cap(c.latency, n))
<1>1. c.latency \in Latencies
  BY DEF Configs
<1>2. Fixed(n, Cap(c.latency, n)) \in Latencies
  BY <1>1, CapType DEF Fixed, Latencies
<1>3. WithLatency(c, n) = [c EXCEPT !.latency = Fixed(n, Cap(c.latency, n))]
  BY DEF WithLatency
<1>4. QED
  BY <1>2, <1>3, SetLatency DEF SameModes

LEMMA CapSet ==
  ASSUME NEW c \in Configs, NEW n \in Nat
  PROVE  /\ WithMaxLatency(c, n) \in Configs
         /\ SameModes(c, WithMaxLatency(c, n)) /\ WithMaxLatency(c, n).stall = c.stall
         /\ WithMaxLatency(c, n).latency = Fixed(Target(c.latency, 0), n)
<1>1. c.latency \in Latencies
  BY DEF Configs
<1>2. Fixed(Target(c.latency, 0), n) \in Latencies
  BY <1>1, TargetType DEF Fixed, Latencies
<1>3. WithMaxLatency(c, n) = [c EXCEPT !.latency = Fixed(Target(c.latency, 0), n)]
  BY DEF WithMaxLatency
<1>4. QED
  BY <1>2, <1>3, SetLatency DEF SameModes

LEMMA SegmentSet ==
  ASSUME NEW c \in Configs, NEW n \in Nat
  PROVE  /\ WithSegmentDuration(c, n) \in Configs
         /\ SameModes(c, WithSegmentDuration(c, n)) /\ WithSegmentDuration(c, n).stall = c.stall
         /\ WithSegmentDuration(c, n).latency
              = Fixed(Scaled(n, DefaultFactor), 2 * Scaled(n, DefaultFactor))
<1> DEFINE t == Scaled(n, DefaultFactor)
           d == WithLatency(c, t)
<1>1. t \in Nat /\ 2 * t \in Nat
  BY Constants, ScaledType
<1>2. d \in Configs /\ SameModes(c, d) /\ d.stall = c.stall /\ d.latency = Fixed(t, Cap(c.latency, t))
  BY <1>1, LatencySet
<1>3. WithSegmentDuration(c, n) = WithMaxLatency(d, 2 * t)
  BY DEF WithSegmentDuration
<1>4. Target(d.latency, 0) = t
  BY <1>2 DEF Target, Fixed
<1> DEFINE e == WithMaxLatency(d, 2 * t)
<1> HIDE DEF t, d
<1>5. /\ e \in Configs /\ SameModes(d, e) /\ e.stall = d.stall
      /\ e.latency = Fixed(t, 2 * t)
  BY <1>1, <1>2, <1>4, CapSet
<1> HIDE DEF e
<1>6. SameModes(c, e) /\ e.stall = c.stall
  BY <1>2, <1>5 DEF SameModes
<1>7. WithSegmentDuration(c, n) = e
  BY <1>3 DEF e
<1>8. QED
  BY <1>5, <1>6, <1>7 DEF t

LEMMA CeilingSet ==
  ASSUME NEW c \in Configs, NEW n \in Nat
  PROVE  /\ WithCeiling(c, n) \in Configs
         /\ SameModes(c, WithCeiling(c, n)) /\ WithCeiling(c, n).stall = c.stall
         /\ WithCeiling(c, n).latency = Adaptive(DefaultLatency, n, DefaultFactor)
<1>1. Adaptive(DefaultLatency, n, DefaultFactor) \in Latencies
  BY Constants DEF Adaptive, Latencies
<1>2. WithCeiling(c, n) = [c EXCEPT !.latency = Adaptive(DefaultLatency, n, DefaultFactor)]
  BY DEF WithCeiling, WithAdaptiveLatency
<1>3. QED
  BY <1>1, <1>2, SetLatency DEF SameModes

(* The depths in the order the program sets them: the segment, the ceiling  *)
(* in its place, the cushion, the cap.                                      *)
LEMMA DepthsSet ==
  ASSUME NEW o \in Options, NEW c \in Configs
  PROVE  /\ Depths(o, c) \in Configs
         /\ SameModes(c, Depths(o, c)) /\ Depths(o, c).stall = c.stall
         /\ o.latency # None /\ o.max = None => /\ Depths(o, c).latency.kind = "fixed"
                                                /\ Depths(o, c).latency.target = o.latency
         /\ o.max # None => /\ Depths(o, c).latency.kind = "fixed"
                            /\ Depths(o, c).latency.max = o.max
                            /\ o.latency # None => Depths(o, c).latency.target = o.latency
         /\ o.segment # None /\ o.latency = None /\ o.ceiling = None =>
              /\ Depths(o, c).latency.kind = "fixed"
              /\ Depths(o, c).latency.target = Scaled(o.segment, DefaultFactor)
         /\ o.ceiling # None /\ o.latency = None /\ o.max = None =>
              Depths(o, c).latency = Adaptive(DefaultLatency, o.ceiling, DefaultFactor)
<1> DEFINE c1 == Refine(c, o.segment, WithSegmentDuration)
           c2 == Refine(c1, o.ceiling, WithCeiling)
           c3 == Refine(c2, o.latency, WithLatency)
           c4 == Refine(c3, o.max, WithMaxLatency)
<1>1. o.segment \in Maybe /\ o.ceiling \in Maybe /\ o.latency \in Maybe /\ o.max \in Maybe
  BY DEF Options
<1>2. /\ c1 \in Configs /\ SameModes(c, c1) /\ c1.stall = c.stall
      /\ o.segment # None =>
           c1.latency = Fixed(Scaled(o.segment, DefaultFactor), 2 * Scaled(o.segment, DefaultFactor))
  <2>1. CASE o.segment = None
    BY <2>1 DEF Refine, SameModes
  <2>2. CASE o.segment # None
    BY <2>2, <1>1, SegmentSet DEF Refine, Maybe
  <2>3. QED
    BY <2>1, <2>2
<1>3. /\ c2 \in Configs /\ SameModes(c1, c2) /\ c2.stall = c1.stall
      /\ o.ceiling # None => c2.latency = Adaptive(DefaultLatency, o.ceiling, DefaultFactor)
      /\ o.ceiling = None => c2 = c1
  <2> HIDE DEF c1
  <2>1. CASE o.ceiling = None
    BY <2>1, <1>2 DEF Refine, SameModes
  <2>2. CASE o.ceiling # None
    BY <2>2, <1>1, <1>2, CeilingSet DEF Refine, Maybe
  <2>3. QED
    BY <2>1, <2>2
<1>4. /\ c3 \in Configs /\ SameModes(c2, c3) /\ c3.stall = c2.stall
      /\ o.latency # None => c3.latency = Fixed(o.latency, Cap(c2.latency, o.latency))
      /\ o.latency = None => c3 = c2
  <2> HIDE DEF c2
  <2>1. CASE o.latency = None
    BY <2>1, <1>3 DEF Refine, SameModes
  <2>2. CASE o.latency # None
    BY <2>2, <1>1, <1>3, LatencySet DEF Refine, Maybe
  <2>3. QED
    BY <2>1, <2>2
<1>5. /\ c4 \in Configs /\ SameModes(c3, c4) /\ c4.stall = c3.stall
      /\ o.max # None => c4.latency = Fixed(Target(c3.latency, 0), o.max)
      /\ o.max = None => c4 = c3
  <2> HIDE DEF c3
  <2>1. CASE o.max = None
    BY <2>1, <1>4 DEF Refine, SameModes
  <2>2. CASE o.max # None
    BY <2>2, <1>1, <1>4, CapSet DEF Refine, Maybe
  <2>3. QED
    BY <2>1, <2>2
<1>6. Depths(o, c) = c4
  BY DEF Depths, BeforeCap
<1> HIDE DEF c1, c2, c3, c4
<1>7. SameModes(c, c4) /\ c4.stall = c.stall
  BY <1>2, <1>3, <1>4, <1>5 DEF SameModes
<1>8. o.latency # None => c3.latency.kind = "fixed" /\ c3.latency.target = o.latency
                          /\ Target(c3.latency, 0) = o.latency
  BY <1>4 DEF Fixed, Target
<1>9. o.segment # None /\ o.latency = None /\ o.ceiling = None =>
        /\ c3.latency.kind = "fixed" /\ c3.latency.target = Scaled(o.segment, DefaultFactor)
        /\ Target(c3.latency, 0) = Scaled(o.segment, DefaultFactor)
  BY <1>2, <1>3, <1>4 DEF Fixed, Target
<1>10. o.max # None => /\ c4.latency.kind = "fixed" /\ c4.latency.max = o.max
                       /\ c4.latency.target = Target(c3.latency, 0)
  BY <1>5 DEF Fixed
<1>11. o.ceiling # None /\ o.latency = None /\ o.max = None =>
         c4.latency = Adaptive(DefaultLatency, o.ceiling, DefaultFactor)
  BY <1>3, <1>4, <1>5
<1>12. o.segment # None /\ o.latency = None /\ o.ceiling = None =>
         c4.latency.kind = "fixed" /\ c4.latency.target = Scaled(o.segment, DefaultFactor)
  BY <1>5, <1>9, <1>10
<1>13. o.latency # None /\ o.max = None => c4.latency.kind = "fixed" /\ c4.latency.target = o.latency
  BY <1>5, <1>8
<1>14. o.latency # None /\ o.max # None => c4.latency.target = o.latency
  BY <1>8, <1>10
<1>15. QED
  BY <1>5, <1>6, <1>7, <1>10, <1>11, <1>12, <1>13, <1>14
-----------------------------------------------------------------------------
LEMMA ModesSet ==
  ASSUME NEW o \in Options
  PROVE  LET c == Refine(Base(o), o.align, WithAlign)
         IN  /\ c \in Configs
             /\ c.latency = Adaptive(DefaultLatency, DefaultCeiling, DefaultFactor)
             /\ c.bitrate = (IF rate = "auto" THEN None ELSE 1)
             /\ c.pcr = o.pcr /\ c.clocking = o.clocking
<1> DEFINE b == IF rate = "auto" THEN None ELSE 1
           n == NewConfig(b)
           d == Base(o)
           c == Refine(d, o.align, WithAlign)
<1>1. b \in {None, 1}
  OBVIOUS
<1>2. n \in Configs /\ n.latency = Adaptive(DefaultLatency, DefaultCeiling, DefaultFactor)
      /\ n.bitrate = b
  <2> HIDE DEF b
  <2>1. Adaptive(DefaultLatency, DefaultCeiling, DefaultFactor) \in Latencies
    BY Constants DEF Adaptive, Latencies
  <2>2. [kind |-> "adaptive", grace |-> DefaultGrace] \in Stall
    BY Constants DEF Stall
  <2>3. QED
    BY <1>1, <2>1, <2>2 DEF NewConfig, Configs, Policies, Maybe
<1>3. d \in Configs /\ d.latency = n.latency /\ d.bitrate = b
      /\ d.pcr = o.pcr /\ d.clocking = o.clocking
  <2>1. d = WithPcrPositionPolicy(
              WithSequenceSeed(WithClocking(WithPcrMode(n, o.pcr), o.clocking), o.seed), o.position)
    BY DEF Base
  <2> HIDE DEF n, b
  <2> DEFINE n1 == [n EXCEPT !.pcr = o.pcr]
             n2 == [n1 EXCEPT !.clocking = o.clocking]
             n3 == [n2 EXCEPT !.seed = o.seed]
             n4 == [n3 EXCEPT !.position = o.position]
  <2>2. n1 \in Configs /\ n1.latency = n.latency /\ n1.bitrate = b /\ n1.pcr = o.pcr
    BY <1>2 DEF Configs, Options
  <2>3. n2 \in Configs /\ n2.latency = n.latency /\ n2.bitrate = b /\ n2.pcr = o.pcr
        /\ n2.clocking = o.clocking
    <3> HIDE DEF n1
    <3>1. QED
      BY <2>2 DEF Configs, Options
  <2>4. n3 \in Configs /\ n3.latency = n.latency /\ n3.bitrate = b /\ n3.pcr = o.pcr
        /\ n3.clocking = o.clocking
    <3> HIDE DEF n2
    <3>1. QED
      BY <2>3 DEF Configs, Options
  <2>5. n4 \in Configs /\ n4.latency = n.latency /\ n4.bitrate = b /\ n4.pcr = o.pcr
        /\ n4.clocking = o.clocking
    <3> HIDE DEF n3
    <3>1. QED
      BY <2>4 DEF Configs, Options
  <2>6. d = n4
    BY <2>1 DEF WithPcrPositionPolicy, WithSequenceSeed, WithClocking, WithPcrMode
  <2>7. QED
    BY <2>5, <2>6
<1> HIDE DEF n, d
<1>4. c \in Configs /\ c.latency = d.latency /\ c.bitrate = b
      /\ c.pcr = o.pcr /\ c.clocking = o.clocking
  <2> HIDE DEF b
  <2>1. CASE o.align = None
    BY <2>1, <1>3 DEF Refine
  <2>2. CASE o.align # None
    <3>1. c = [d EXCEPT !.align = o.align]
      BY <2>2 DEF Refine, WithAlign
    <3> HIDE DEF c
    <3>2. QED
      BY <3>1, <1>3 DEF Configs, Options
  <2>3. QED
    BY <2>1, <2>2
<1>5. QED
  BY <1>2, <1>3, <1>4 DEF d

LEMMA StallsSet ==
  ASSUME NEW o \in Options, NEW c \in Configs
  PROVE  /\ Stalls(o, c) \in Configs
         /\ SameModes(c, Stalls(o, c)) /\ Stalls(o, c).latency = c.latency
         /\ o.grace # None => Stalls(o, c).stall = [kind |-> "adaptive", grace |-> o.grace]
         /\ o.timeout # None /\ o.grace = None =>
              Stalls(o, c).stall = IF o.timeout = 0 THEN [kind |-> "off"]
                                   ELSE [kind |-> "after", timeout |-> o.timeout]
<1> DEFINE c1 == Refine(c, o.timeout, WithStallTimeout)
           c2 == Refine(c1, o.grace, WithStallGrace)
           c3 == Refine(c2, o.policy, WithStallPolicy)
           s1 == IF o.timeout = 0 THEN [kind |-> "off"] ELSE [kind |-> "after", timeout |-> o.timeout]
           s2 == [kind |-> "adaptive", grace |-> o.grace]
<1>1. /\ c1 \in Configs /\ SameModes(c, c1) /\ c1.latency = c.latency
      /\ o.timeout # None => c1.stall = s1
  <2>1. CASE o.timeout = None
    BY <2>1 DEF Refine, SameModes
  <2>2. CASE o.timeout # None
    <3>1. s1 \in Stall
      BY <2>2 DEF Stall, Options, Maybe
    <3>2. c1 = [c EXCEPT !.stall = s1]
      BY <2>2 DEF Refine, WithStallTimeout
    <3> HIDE DEF c1, s1
    <3>3. QED
      BY <3>1, <3>2, SetStall DEF SameModes
  <2>3. QED
    BY <2>1, <2>2
<1> HIDE DEF s1
<1>2. /\ c2 \in Configs /\ SameModes(c1, c2) /\ c2.latency = c1.latency
      /\ o.grace # None => c2.stall = s2
      /\ o.grace = None => c2 = c1
  <2> HIDE DEF c1
  <2>1. CASE o.grace = None
    BY <2>1, <1>1 DEF Refine, SameModes
  <2>2. CASE o.grace # None
    <3>1. s2 \in Stall
      BY <2>2 DEF Stall, Options, Maybe
    <3>2. c2 = [c1 EXCEPT !.stall = s2]
      BY <2>2 DEF Refine, WithStallGrace
    <3> HIDE DEF c2, s2
    <3>3. QED
      BY <1>1, <2>2, <3>1, <3>2, SetStall DEF SameModes
  <2>3. QED
    BY <2>1, <2>2
<1> HIDE DEF s2
<1>3. /\ c3 \in Configs /\ SameModes(c2, c3) /\ c3.latency = c2.latency /\ c3.stall = c2.stall
  <2> HIDE DEF c2
  <2>1. CASE o.policy = None
    BY <2>1, <1>2 DEF Refine, SameModes
  <2>2. CASE o.policy # None
    <3>1. c3 = [c2 EXCEPT !.policy = o.policy] /\ o.policy \in Policies
      BY <2>2 DEF Refine, WithStallPolicy, Options
    <3> HIDE DEF c3
    <3>2. QED
      BY <1>2, <3>1 DEF SameModes, Configs
  <2>3. QED
    BY <2>1, <2>2
<1>4. Stalls(o, c) = c3
  BY DEF Stalls
<1> HIDE DEF c1, c2, c3
<1>5. SameModes(c, c3) /\ c3.latency = c.latency
  BY <1>1, <1>2, <1>3 DEF SameModes
<1>6. QED
  BY <1>1, <1>2, <1>3, <1>4, <1>5 DEF s1, s2

(* What the whole line builds.                                              *)
LEMMA BuiltSays ==
  ASSUME NEW o \in Options
  PROVE  LET c == Built(o)
         IN  /\ c \in Configs
             /\ c.bitrate = (IF rate = "auto" THEN None ELSE 1)
             /\ c.pcr = o.pcr /\ c.clocking = o.clocking
             /\ o.latency # None =>
                  c.latency.kind = "fixed" /\ c.latency.target = o.latency
             /\ o.max # None => c.latency.kind = "fixed" /\ c.latency.max = o.max
             /\ o.segment # None /\ o.latency = None /\ o.ceiling = None =>
                  /\ c.latency.kind = "fixed"
                  /\ c.latency.target = Scaled(o.segment, DefaultFactor)
             /\ o.ceiling # None /\ o.latency = None /\ o.max = None =>
                  c.latency = Adaptive(DefaultLatency, o.ceiling, DefaultFactor)
             /\ o.grace # None => c.stall = [kind |-> "adaptive", grace |-> o.grace]
             /\ o.timeout # None /\ o.grace = None =>
                  c.stall = IF o.timeout = 0 THEN [kind |-> "off"]
                            ELSE [kind |-> "after", timeout |-> o.timeout]
<1> DEFINE m == Refine(Base(o), o.align, WithAlign)
           d == Depths(o, m)
           c == Built(o)
<1>1. /\ m \in Configs /\ m.bitrate = (IF rate = "auto" THEN None ELSE 1)
      /\ m.pcr = o.pcr /\ m.clocking = o.clocking
  BY ModesSet
<1>2. c = Stalls(o, d)
  BY DEF Built
<1> HIDE DEF m, c
<1>3. d \in Configs /\ SameModes(m, d)
  BY <1>1, DepthsSet
<1>4. /\ o.latency # None => d.latency.kind = "fixed" /\ d.latency.target = o.latency
      /\ o.max # None => d.latency.kind = "fixed" /\ d.latency.max = o.max
      /\ o.segment # None /\ o.latency = None /\ o.ceiling = None =>
           /\ d.latency.kind = "fixed"
           /\ d.latency.target = Scaled(o.segment, DefaultFactor)
      /\ o.ceiling # None /\ o.latency = None /\ o.max = None =>
           d.latency = Adaptive(DefaultLatency, o.ceiling, DefaultFactor)
  BY <1>1, DepthsSet
<1> HIDE DEF d
<1>5. /\ c \in Configs /\ SameModes(d, c) /\ c.latency = d.latency
      /\ o.grace # None => c.stall = [kind |-> "adaptive", grace |-> o.grace]
      /\ o.timeout # None /\ o.grace = None =>
           c.stall = IF o.timeout = 0 THEN [kind |-> "off"]
                     ELSE [kind |-> "after", timeout |-> o.timeout]
  BY <1>2, <1>3, StallsSet
<1>6. /\ c.bitrate = (IF rate = "auto" THEN None ELSE 1)
      /\ c.pcr = o.pcr /\ c.clocking = o.clocking
  BY <1>1, <1>3, <1>5 DEF SameModes
<1>7. QED
  BY <1>4, <1>5, <1>6 DEF c
-----------------------------------------------------------------------------
LEMMA BuiltStays ==
  ASSUME UNCHANGED <<rate, options>>
  PROVE  Built(options)' = Built(options)
BY DEF Built, Base

LEMMA InitLine == Init => LineInv
BY Constants DEF Init, LineInv, NoOptions, Options, Maybe, Sized, Policies

LEMMA OptionsStep == options \in Options /\ [Next]_vars => options' \in Options
<1> SUFFICES ASSUME options \in Options, [Next]_vars PROVE options' \in Options
  OBVIOUS
<1>1. CASE ParseSwitch
  <2>1. PICK flag \in Switches : options' = Switched(flag)
    BY <1>1 DEF ParseSwitch, Option
  <2>2. \/ options' = [options EXCEPT !.rtp = TRUE]
        \/ options' = [options EXCEPT !.pcr = "preserve"]
        \/ options' = [options EXCEPT !.clocking = "stream"]
        \/ options' = [options EXCEPT !.position = "fail"]
    BY <2>1 DEF Switches, Switched
  <2>3. /\ [options EXCEPT !.rtp = TRUE] \in Options
        /\ [options EXCEPT !.pcr = "preserve"] \in Options
    BY DEF Options
  <2>4. /\ [options EXCEPT !.clocking = "stream"] \in Options
        /\ [options EXCEPT !.position = "fail"] \in Options
    BY DEF Options
  <2>5. QED
    BY <2>2, <2>3, <2>4
<1>2. CASE ParseNumber
  <2>1. PICK flag \in DOMAIN Offered : \E n \in Offered[flag] :
          options' = [options EXCEPT ![flag] = IF flag = "interval" /\ n = 0 THEN None ELSE n]
    BY <1>2 DEF ParseNumber, Option
  <2>2. PICK n \in Offered[flag] :
          options' = [options EXCEPT ![flag] = IF flag = "interval" /\ n = 0 THEN None ELSE n]
    BY <2>1
  <2>3. flag \in Numbers /\ (IF flag = "interval" /\ n = 0 THEN None ELSE n) \in Maybe
    BY LaunchAssumption DEF LaunchAssumption, Maybe
  <2>4. QED
    BY <2>2, <2>3, Numbered
<1>3. CASE ParsePolicy
  BY <1>3 DEF ParsePolicy, Option, Options
<1>4. CASE Help \/ TooShort \/ Typed \/ Mistype \/ EndOfLine
  BY <1>4 DEF Help, TooShort, Typed, Mistype, EndOfLine, line
<1>5. CASE Configure \/ Validate \/ Egress \/ Pace \/ Tick \/ Ends \/ UNCHANGED vars
  BY <1>5 DEF Configure, Validate, Egress, Pace, Tick, Ends, line, vars
<1>6. CASE \E state \in States : Report(state)
  BY <1>6 DEF Report, line
<1>7. QED
  BY <1>1, <1>2, <1>3, <1>4, <1>5, <1>6 DEF Next

LEMMA LineStep == LineInv /\ [Next]_vars => LineInv'
<1> SUFFICES ASSUME LineInv, [Next]_vars PROVE LineInv'
  OBVIOUS
<1>1. options' \in Options
  BY OptionsStep DEF LineInv
<1>2. CASE Help \/ TooShort \/ Mistype \/ Ends
  BY <1>1, <1>2 DEF Help, TooShort, Mistype, Ends, Exit, LineInv, Sized
<1>3. CASE Typed \/ ParseSwitch \/ ParseNumber \/ ParsePolicy \/ EndOfLine
  <2>1. phase' \in {"parse", "configure"} /\ rate' \in {"number", "auto", "word"}
        /\ mistyped' = (rate' = "word")
    BY <1>3 DEF Typed, ParseSwitch, ParseNumber, ParsePolicy, Option, EndOfLine, line, LineInv
  <2>2. QED
    BY <1>1, <2>1 DEF LineInv, Sized
<1>4. CASE Configure
  <2>1. CASE phase' = "validate"
    <3>1. rate \in {"number", "auto"} /\ config' = Built(options) /\ mistyped = FALSE
          /\ UNCHANGED <<rate, options, mistyped>>
      BY <1>4, <2>1 DEF Configure, Exit, LineInv, line
    <3>2. QED
      BY <1>1, <2>1, <3>1, BuiltStays DEF LineInv, Sized
  <2>2. CASE phase' # "validate"
    <3>1. phase' = "exited"
      BY <1>4, <2>2 DEF Configure, Exit
    <3>2. QED
      BY <1>1, <3>1 DEF LineInv, Sized
  <2>3. QED
    BY <2>1, <2>2
<1>5. CASE Validate \/ Egress \/ Pace
  <2>1. UNCHANGED <<rate, options, mistyped, config>> /\ phase \in Sized
    BY <1>5 DEF Validate, Egress, Pace, line, Sized
  <2>2. Built(options)' = Built(options) /\ Valid(config)' = Valid(config)
        /\ Sizes(config.latency)' = Sizes(config.latency)
    BY <2>1, BuiltStays DEF Valid, Sizes
  <2>3. \/ phase' = "exited"
        \/ phase = "validate" /\ phase' = "egress" /\ Valid(config)
        \/ phase = "egress" /\ phase' = "pace"
        \/ phase = "pace" /\ phase' = "pacing" /\ Sizes(config.latency)
    BY <1>5 DEF Validate, Egress, Pace, Exit
  <2>4. QED
    BY <1>1, <2>1, <2>2, <2>3 DEF LineInv, Sized
<1>6. CASE Tick \/ (\E state \in States : Report(state)) \/ UNCHANGED vars
  <2>1. UNCHANGED <<phase, rate, options, mistyped, config>>
    BY <1>6 DEF Tick, Report, vars, line
  <2>2. Built(options)' = Built(options) /\ Valid(config)' = Valid(config)
        /\ Sizes(config.latency)' = Sizes(config.latency)
    BY <2>1, BuiltStays DEF Valid, Sizes
  <2>3. QED
    BY <2>1, <2>2 DEF LineInv
<1>7. QED
  BY <1>2, <1>3, <1>4, <1>5, <1>6 DEF Next

LEMMA LineAlways == Spec => []LineInv
BY InitLine, LineStep, PTL DEF Spec

(* A mistyped line, be it the bitrate or any argument, never gets as far as *)
(* being validated: it is refused while it is parsed.                       *)
THEOREM MistypedNeverStarts ==
  Spec => [](mistyped => phase \in {"parse", "configure", "exited"})
<1>1. LineInv => (mistyped => phase \in {"parse", "configure", "exited"})
  BY DEF LineInv, Sized
<1>2. QED
  BY <1>1, LineAlways, PTL
-----------------------------------------------------------------------------
(* Whatever the line and the defaults, a run that starts can hold its own   *)
(* cushion for every lead, and a stream-clocked one is sized by the line    *)
(* alone: what its legs hold does not depend on what arrives.               *)
THEOREM StartsAreSound == Spec => []StartsSound
<1>1. LineInv => StartsSound
  <2> SUFFICES ASSUME LineInv, phase = "pacing"
               PROVE  /\ \A lead \in Leads : Cushion(lead) <= Cap(config.latency, Cushion(lead))
                      /\ options.clocking = "stream" =>
                           /\ rate = "number" /\ options.pcr = "regenerate"
                           /\ Cardinality({<<Cushion(lead), Timeout(config.stall, Cushion(lead))>>
                                             : lead \in Leads}) = 1
    BY DEF StartsSound
  <2>1. /\ options \in Options /\ rate \in {"number", "auto"}
        /\ config = Built(options) /\ Valid(config) /\ Sizes(config.latency)
    BY DEF LineInv, Sized
  <2>2. config \in Configs /\ config.clocking = options.clocking
        /\ config.pcr = options.pcr /\ config.bitrate = (IF rate = "auto" THEN None ELSE 1)
    BY <2>1, BuiltSays
  <2>3. config.latency \in Latencies
    BY <2>2 DEF Configs
  <2>4. ASSUME NEW lead \in Leads
        PROVE  Cushion(lead) <= Cap(config.latency, Cushion(lead))
    <3>1. lead \in Nat
      BY LaunchAssumption DEF LaunchAssumption
    <3>2. Cushion(lead) \in Nat
      BY <2>3, <3>1, TargetType DEF Cushion
    <3>3. CASE config.latency.kind = "fixed"
      BY <2>1, <3>3 DEF Cushion, Target, Cap, Valid
    <3>4. CASE config.latency.kind # "fixed"
      BY <3>2, <3>4, Constants DEF Cap, Greatest
    <3>5. QED
      BY <3>3, <3>4
  <2>5. ASSUME options.clocking = "stream"
        PROVE  /\ rate = "number" /\ options.pcr = "regenerate"
               /\ Cardinality({<<Cushion(lead), Timeout(config.stall, Cushion(lead))>>
                                 : lead \in Leads}) = 1
    <3>1. config.bitrate # None /\ config.pcr = "regenerate" /\ config.latency.kind = "fixed"
      BY <2>1, <2>2, <2>5 DEF Valid
    <3>2. rate = "number" /\ options.pcr = "regenerate"
      BY <2>1, <2>2, <3>1
    <3> DEFINE t == config.latency.target
               pair == <<t, Timeout(config.stall, t)>>
    <3>3. \A lead \in Leads : Cushion(lead) = t
      BY <3>1 DEF Cushion, Target
    <3>4. \A lead \in Leads : <<Cushion(lead), Timeout(config.stall, Cushion(lead))>> = pair
      BY <3>3
    <3> HIDE DEF pair
    <3>5. {<<Cushion(lead), Timeout(config.stall, Cushion(lead))>> : lead \in Leads} = {pair}
      BY <3>4, LaunchAssumption DEF LaunchAssumption
    <3>6. QED
      BY <3>2, <3>5, FS_Singleton
  <2>6. QED
    BY <2>4, <2>5
<1>2. QED
  BY <1>1, LineAlways, PTL

(* Every depth and timeout that the usage promises is the one in force,     *)
(* for all values and companies of the options, except for the two pairs    *)
(* whose later setter undoes the earlier.                                   *)
THEOREM SaidIsAlwaysDone == Spec => []SaidIsDone
<1>1. LineInv => SaidIsDone
  <2> SUFFICES ASSUME LineInv, phase = "pacing", NEW lead \in Leads
               PROVE  LET silence == Timeout(config.stall, Cushion(lead))
                      IN /\ options.latency # None => Cushion(lead) = options.latency
                         /\ options.max # None => Cap(config.latency, Cushion(lead)) = options.max
                         /\ options.segment # None /\ {options.latency, options.ceiling} = {None} =>
                              Cushion(lead) = Scaled(options.segment, DefaultFactor)
                         /\ options.ceiling # None /\ {options.latency, options.max} = {None} =>
                              Cushion(lead) <= options.ceiling
                         /\ options.grace # None => silence = Cushion(lead) + options.grace
                         /\ options.timeout # None /\ options.grace = None =>
                              silence = (IF options.timeout = 0 THEN None ELSE options.timeout)
    BY DEF SaidIsDone
  <2>1. /\ options \in Options /\ config = Built(options) /\ Sizes(config.latency)
    BY DEF LineInv, Sized
  <2>2. /\ options.latency # None =>
             config.latency.kind = "fixed" /\ config.latency.target = options.latency
        /\ options.max # None => config.latency.kind = "fixed" /\ config.latency.max = options.max
        /\ options.segment # None /\ options.latency = None /\ options.ceiling = None =>
             /\ config.latency.kind = "fixed"
             /\ config.latency.target = Scaled(options.segment, DefaultFactor)
        /\ options.ceiling # None /\ options.latency = None /\ options.max = None =>
             config.latency = Adaptive(DefaultLatency, options.ceiling, DefaultFactor)
    BY <2>1, BuiltSays
  <2>3. /\ options.grace # None => config.stall = [kind |-> "adaptive", grace |-> options.grace]
        /\ options.timeout # None /\ options.grace = None =>
             config.stall = IF options.timeout = 0 THEN [kind |-> "off"]
                            ELSE [kind |-> "after", timeout |-> options.timeout]
    BY <2>1, BuiltSays
  <2>4. options.latency # None => Cushion(lead) = options.latency
    BY <2>2 DEF Cushion, Target
  <2>5. options.max # None => Cap(config.latency, Cushion(lead)) = options.max
    BY <2>2 DEF Cap
  <2>6. options.segment # None /\ {options.latency, options.ceiling} = {None} =>
          Cushion(lead) = Scaled(options.segment, DefaultFactor)
    BY <2>2 DEF Cushion, Target
  <2>7. ASSUME options.ceiling # None, {options.latency, options.max} = {None}
        PROVE  Cushion(lead) <= options.ceiling
    <3>1. options.latency = None /\ options.max = None
      BY <2>7
    <3>2. config.latency = Adaptive(DefaultLatency, options.ceiling, DefaultFactor)
      BY <2>2, <2>7, <3>1
    <3>3. options.ceiling \in Nat
      BY <2>1, <2>7 DEF Options, Maybe
    <3>4. DefaultLatency <= options.ceiling
      BY <2>1, <3>2 DEF Sizes, Adaptive
    <3>5. lead \in Nat
      BY LaunchAssumption DEF LaunchAssumption
    <3> DEFINE s == Scaled(lead, DefaultFactor)
    <3>6. s \in Nat
      BY <3>5, ScaledType, Constants
    <3>7. Cushion(lead) = Greatest(DefaultLatency, Least(options.ceiling, s))
      BY <3>2 DEF Cushion, Target, Adaptive
    <3> HIDE DEF s
    <3>8. QED
      BY <3>3, <3>4, <3>6, <3>7, Constants DEF Greatest, Least
  <2>8. options.grace # None => Timeout(config.stall, Cushion(lead)) = Cushion(lead) + options.grace
    BY <2>3 DEF Timeout
  <2>9. options.timeout # None /\ options.grace = None =>
          Timeout(config.stall, Cushion(lead))
            = (IF options.timeout = 0 THEN None ELSE options.timeout)
    BY <2>3 DEF Timeout
  <2>10. QED
    BY <2>4, <2>5, <2>6, <2>7, <2>8, <2>9
<1>2. QED
  BY <1>1, LineAlways, PTL
-----------------------------------------------------------------------------
(* When the next counter line is due: an interval after the last one, or    *)
(* after the start.                                                         *)
LinesInv ==
  /\ now \in Nat /\ sampled \in Maybe
  /\ phase # "pacing" /\ phase # "exited" => sampled = None
  /\ phase = "pacing" =>
       next = IF options.interval = None THEN None
              ELSE (IF sampled = None THEN 0 ELSE sampled) + options.interval

(* A report that prints a line does so when it is due, and makes the next   *)
(* one due an interval later.                                               *)
Prints ==
  /\ phase = "pacing" /\ next # None /\ now >= next
  /\ sampled' = now /\ next' = now + options.interval

LEMMA LinesMove ==
  ASSUME [Next]_vars
  PROVE  \/ UNCHANGED sampled
         \/ Prints /\ UNCHANGED <<phase, options, now>>
BY DEF Next, vars, observer, line, Help, TooShort, Typed, ParseSwitch, ParseNumber, ParsePolicy,
       Option, Mistype, EndOfLine, Configure, Validate, Egress, Pace, Tick, Report, NextLine,
       Ends, Prints

LEMMA LinesStep == LineInv /\ LinesInv /\ [Next]_vars => LinesInv'
<1> SUFFICES ASSUME LineInv, LinesInv, [Next]_vars PROVE LinesInv'
  OBVIOUS
<1>1. options.interval \in Maybe
  BY DEF LineInv, Options
<1>2. CASE Help \/ TooShort \/ Mistype \/ Ends
  BY <1>2 DEF Help, TooShort, Mistype, Ends, Exit, LinesInv, observer
<1>3. CASE Typed \/ ParseSwitch \/ ParseNumber \/ ParsePolicy \/ EndOfLine
  BY <1>3 DEF Typed, ParseSwitch, ParseNumber, ParsePolicy, Option, EndOfLine, LinesInv, observer
<1>4. CASE Configure \/ Validate \/ Egress
  BY <1>4 DEF Configure, Validate, Egress, Exit, LinesInv, observer
<1>5. CASE Pace
  BY <1>1, <1>5 DEF Pace, Exit, LinesInv, line, Maybe
<1>6. CASE Tick \/ UNCHANGED vars
  BY <1>6 DEF Tick, LinesInv, line, vars, observer
<1>7. CASE \E state \in States : Report(state)
  <2>1. UNCHANGED <<phase, options, now>> /\ phase = "pacing"
    BY <1>7 DEF Report, line
  <2>2. CASE next # None /\ now >= next
    <3>1. sampled' = now /\ next' = now + options.interval
      BY <1>7, <2>2 DEF Report, NextLine
    <3>2. QED
      BY <2>1, <2>2, <3>1, Constants DEF LinesInv, Maybe
  <2>3. CASE ~(next # None /\ now >= next)
    BY <1>7, <2>1, <2>3 DEF Report, LinesInv
  <2>4. QED
    BY <2>2, <2>3
<1>8. QED
  BY <1>2, <1>3, <1>4, <1>5, <1>6, <1>7 DEF Next

(* Two counter lines are at least their interval apart, however late the    *)
(* reports between them are.                                                *)
THEOREM LinesAreSpaced == Spec => LinesSpaced
<1> DEFINE Apart == sampled' # sampled =>
                      sampled' - (IF sampled = None THEN 0 ELSE sampled) >= options.interval
<1>1. LineInv /\ LinesInv /\ [Next]_vars => Apart
  <2> SUFFICES ASSUME LineInv, LinesInv, [Next]_vars, sampled' # sampled
               PROVE  sampled' - (IF sampled = None THEN 0 ELSE sampled) >= options.interval
    OBVIOUS
  <2>1. Prints
    BY LinesMove
  <2>2. options.interval # None /\ options.interval \in Nat
        /\ next = (IF sampled = None THEN 0 ELSE sampled) + options.interval
    BY <2>1 DEF Prints, LinesInv, LineInv, Options, Maybe
  <2>3. (IF sampled = None THEN 0 ELSE sampled) \in Nat /\ now \in Nat
    BY DEF LinesInv, Maybe
  <2>4. QED
    BY <2>1, <2>2, <2>3 DEF Prints
<1>2. Init => LinesInv
  BY DEF Init, LinesInv, Maybe
<1> HIDE DEF Apart
<1>3. Spec => [][Apart]_vars
  BY <1>1, <1>2, LinesStep, LineAlways, PTL DEF Spec
<1>4. QED
  BY <1>3 DEF LinesSpaced, Apart
=============================================================================
