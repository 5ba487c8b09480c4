-------------------------- MODULE MCAdaptiveRelease --------------------------
(* Feeds for AdaptiveRelease: 4 packets of content in each slot of 100       *)
(* ticks, over a carrier of 6.                                               *)
EXTENDS AdaptiveRelease

Content == 4

(* A feed from when media slot k arrives and what it is stamped with; of     *)
(* each slot's packets the first carries the PCR.                            *)
FeedFor(slots, Arrives(_), Stamp(_), spliced) ==
  [i \in 1 .. Content * slots |->
     LET k == (i - 1) \div Content
     IN [at  |-> SlotTime * Arrives(k),
         pcr |-> IF (i - 1) % Content = 0 THEN Stamp(k) ELSE None,
         di  |-> k \in spliced /\ (i - 1) % Content = 0]]

FeedOf(Arrives(_), Stamp(_), spliced) == FeedFor(70, Arrives, Stamp, spliced)

(* Stamps: steady across the wrap; spliced at 20 and looped at 40; a clock   *)
(* off by 3 percent; one that stops at 30.                                   *)
Steady(k)  == (3000 + 100 * k) % PcrWrap
Spliced(k) == (IF k < 20 THEN 100 * k ELSE IF k < 40 THEN 100 * k + 450 ELSE 100 * (k - 40) + 1500) % PcrWrap
Fast(k)    == (103 * k) % PcrWrap
Slow(k)    == (97 * k) % PcrWrap
Stops(k)   == (IF k < 30 THEN 100 * k ELSE 3000 + k) % PcrWrap

(* Arrivals: as played; by the segment, one of them late; after a backlog;   *)
(* with a hiccup made up for in one burst; with an outage.                   *)
Played(k) == k
LOCAL Segment(k, size, late) ==
  LET n == k \div size IN IF n = late THEN (n + 2) * size ELSE (n + 1) * size
BySix(k) == Segment(k, 6, 0)
ByTen(k) == Segment(k, 10, 0)
LateSix(k) == Segment(k, 6, 8)
LateTen(k) == Segment(k, 10, 5)
Backlog(k) == IF k < 10 THEN 0 ELSE k - 10
DeepBacklog(k) == IF k < 40 THEN 0 ELSE k - 40
Hiccup(k) == IF k \in 30 .. 32 THEN 32 ELSE k
Outage(k) == IF k < 25 THEN k ELSE k + 20

MCFeeds ==
  [continuous |-> FeedOf(Played, Steady, {}),   spliced |-> FeedOf(Played, Spliced, {20}),
   fast |-> FeedFor(200, Played, Fast, {}),     slow |-> FeedFor(200, Played, Slow, {}),
   stops |-> FeedFor(200, Played, Stops, {}),   sixes |-> FeedOf(BySix, Spliced, {20}),
   tens |-> FeedOf(ByTen, Steady, {}),          latesix |-> FeedOf(LateSix, Steady, {}),
   lateten |-> FeedOf(LateTen, Slow, {}),       backlog |-> FeedOf(Backlog, Steady, {}),
   deep |-> FeedOf(DeepBacklog, Steady, {}),    hiccup |-> FeedOf(Hiccup, Fast, {}),
   outage |-> FeedOf(Outage, Steady, {})]

MCTrue ==
  [f \in DOMAIN MCFeeds |->
     CASE f = "stops" -> None [] f \in {"fast", "hiccup"} -> 388 [] f \in {"slow", "lateten"} -> 412 [] OTHER -> 400]

MCRides == DOMAIN MCFeeds \ {"outage"}
MCContinuous == {"continuous", "spliced", "fast", "slow", "stops", "hiccup"}
=============================================================================
