---------------------------- MODULE MCStreamLeg -----------------------------
(* Feeds for StreamLeg.  A run of the source spans Cadence PCR ticks, and    *)
(* each travels in an object of its own.                                     *)
EXTENDS StreamLeg
LOCAL INSTANCE SequencesExt

Cadence == 6

(* Run k: size packets sent at once, the first stamped pcr, delivered after  *)
(* .. by.  Packets beyond whole travel in the next run's object.             *)
RunOf(k, size, whole, at, pcr, di, lossy, after, by) ==
  [i \in 1 .. size |->
     LET obj == IF i <= whole THEN k ELSE k + 1
     IN  [id |-> 0, pid |-> "media", cc |-> 0, payload |-> TRUE,
          pcr |-> IF i = 1 THEN pcr ELSE None, di |-> i = 1 /\ di,
          at |-> at, after |-> after, by |-> by,
          obj |-> obj, lossy |-> obj \in lossy]]

(* The runs in a row, under one continuity counter. *)
FeedOf(runs) ==
  LET flat == FlattenSeq(runs)
  IN  [i \in 1 .. Len(flat) |-> [flat[i] EXCEPT !.id = i, !.cc = i % CcModulo]]

Sent(k) == Cadence * (k - 1)

(* One clock throughout, delivered within two ticks.  The first runs may be  *)
(* lost: a late join.                                                        *)
Steady == FeedOf([k \in 1 .. 8 |->
  RunOf(k, 2 + (k % 2), 3, Sent(k), 1 + Sent(k), FALSE, 1 .. 4, Sent(k), Sent(k) + 2)])

(* The PCR wraps at the fifth run; objects end in the middle of a run. *)
Wrapping == FeedOf([k \in 1 .. 8 |->
  RunOf(k, 3, 2, Sent(k), (26 + Sent(k)) % PcrWrap, FALSE, 2 .. 4, Sent(k), Sent(k) + 2)])

(* A declared step short enough to pass for the clock, then a jump back. *)
Splicing == FeedOf([k \in 1 .. 10 |->
  RunOf(k, 2 + (k % 2), 3, Sent(k),
        IF k < 4 THEN 1 + Sent(k) ELSE IF k < 7 THEN 6 + Sent(k) ELSE Sent(k) - 18,
        k = 4, {2, 5}, Sent(k), Sent(k) + 1)])

(* A relay serves what it has buffered, the start of it first. *)
Backlog == FeedOf([k \in 1 .. 9 |->
  LET after == IF k <= 3 THEN 30 ELSE IF k <= 7 THEN 40 ELSE Sent(k)
  IN  RunOf(k, 2, 2, Sent(k), 1 + Sent(k), FALSE, {}, after, IF k = 4 THEN after + 6 ELSE after)])

(* A run with more packets than slots; then a freeze upstream, which hands   *)
(* over the last of the old and the first of the new at once.                *)
Freeze == FeedOf([k \in 1 .. 10 |->
  LET after == IF k \in 4 .. 8 THEN 43 ELSE Sent(k)
  IN  RunOf(k, IF k = 1 THEN 5 ELSE 2, 5, Sent(k), (1 + Sent(k)) % PcrWrap, FALSE, 5 .. 7,
            after, after + 1)])

(* The wrap again, with all before it lost: a leg started after it.          *)
JoinedAfterWrap == FeedOf([k \in 1 .. 9 |->
  RunOf(k, 2, 2, Sent(k), (26 + Sent(k)) % PcrWrap, FALSE, 1 .. 5, Sent(k), Sent(k))])

(* A PCR every 10/3 slots: intervals of 3 and 4 slots, any two of them 6 or 7. *)
Uneven == FeedOf([k \in 1 .. 9 |->
  RunOf(k, 2, 2, 5 * k, 5 * k, FALSE, {4, 5}, 5 * k, 5 * k)])

(* A peak of many more packets than slots, in the middle of the stream. *)
Overrun == FeedOf([k \in 1 .. 7 |->
  RunOf(k, IF k = 4 THEN 18 ELSE 2, 18, Sent(k), 1 + Sent(k), FALSE, {}, Sent(k), Sent(k) + 1)])

(* The first runs reach the leg late, and later each by its own delay.       *)
Delayed == FeedOf([k \in 1 .. 8 |->
  RunOf(k, 2, 2, Sent(k), 1 + Sent(k), FALSE, {1, 3}, IF k = 1 THEN 4 ELSE Sent(k), IF k = 1 THEN 6 ELSE Sent(k) + 3)])

MCFeeds == <<Steady, Wrapping, Splicing, Backlog, Freeze, Delayed, Overrun>>
WrapFeeds == <<JoinedAfterWrap>>
UnevenFeeds == <<Uneven>>

Leg(stall, position, window) == [stall |-> stall, position |-> position, align |-> window]
Mutes == {Leg("mute", "report", None)}
Plain == Mutes \cup {Leg("continue", "report", None)}
Watching == {Leg("mute", "report", 9)}
MCLegs == <<Plain \cup Watching, Plain \cup Watching, Plain, Plain \cup Watching,
            Plain \cup Watching, Plain \cup Watching, {Leg("mute", "fail", None)}>>
OneLeg == <<Mutes>>
MCPids == {"media"}

(* What LegsAgree and PcrsFollowSource ask of a feed and of its losses is    *)
(* met: by these feeds, whatever the path loses of the first three.          *)
ASSUME CoveredAssumption ==
  /\ \A f \in {Steady, Wrapping, Delayed} : Recognisable(f) /\ WrapsOnce(f)
  /\ \A f \in {Steady, Wrapping, Delayed, Backlog, Overrun} : RunsOn(f) /\ Settles(f)
=============================================================================
