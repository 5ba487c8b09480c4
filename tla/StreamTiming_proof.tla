------------------------- MODULE StreamTiming_proof -------------------------
(***************************************************************************)
(* When a leg under stream clocking sends, and what its PCRs say: an       *)
(* aligned leg is in phase with the fastest delivery of its path, and      *)
(* within a stretch on the air PCRs are repeated in time and locked to the *)
(* bytes between them.  For every feed, delay, loss and leg.               *)
(***************************************************************************)
EXTENDS StreamLeg_proof, WellFoundedInduction

(* Rounding down to ticks costs less than one. *)
LEMMA Remainder ==
  ASSUME NEW m \in Int, NEW c \in Nat \ {0}
  PROVE  m \div c \in Int /\ m - (m \div c) * c \in 0 .. c - 1
<1>1. m \div c \in Int /\ m % c \in 0 .. c - 1 /\ m = c * (m \div c) + (m % c)
  OBVIOUS
<1>2. c * (m \div c) = (m \div c) * c
  BY <1>1
<1>3. QED
  BY <1>1, <1>2

LEMMA TicksWithin ==
  ASSUME NEW n \in Int
  PROVE  /\ TicksOf(n) \in Int /\ n * PacketTicks \in Int /\ TicksOf(n) * MuxRate \in Int
         /\ n * PacketTicks - TicksOf(n) * MuxRate \in 0 .. MuxRate - 1
<1>1. n * PacketTicks \in Int /\ MuxRate \in Nat \ {0}
  BY LegNumbers
<1>2. TicksOf(n) \in Int
  BY <1>1, Remainder DEF TicksOf
<1>3. TicksOf(n) * MuxRate \in Int
  BY <1>1, <1>2
<1>4. QED
  BY <1>1, <1>2, <1>3, Remainder DEF TicksOf

(* A sum and a difference, times a constant. *)
LEMMA Distributes ==
  ASSUME NEW a \in Int, NEW b \in Int, NEW c \in Int
  PROVE  /\ a * c \in Int /\ b * c \in Int
         /\ (a + b) * c = a * c + b * c
         /\ (a - b) * c = a * c - b * c
  OBVIOUS
-----------------------------------------------------------------------------
(* Where a run is placed behind everything before it, the edge of the        *)
(* content is the slot below the next free one.                              *)
Edged(g) == HasContent(g) => LastSlot(g) = g.nextFree - 1

(* What of a grid says where packets are. *)
Placement(g) == <<g.placed, g.bases, g.placedBase, g.takenBase, g.nextFree>>

(* Two grids whose runs are the same, and placed alike. *)
Alike(g, n) ==
  /\ Placement(n) = Placement(g) /\ n.run = g.run /\ n.open = g.open
  /\ n.epoch = g.epoch /\ n.rebased = g.rebased /\ n.openBase = g.openBase /\ n.shed = g.shed

LEMMA NoteAlike ==
  ASSUME NEW g, GridInv(g), NEW p \in Packets
  PROVE  GridInv(NoteContinuity(g, p)) /\ Alike(g, NoteContinuity(g, p))
<1> DEFINE n == NoteContinuity(g, p)
<1>1. GridInv(n)
  BY NoteKeeps
<1>2. Alike(g, n)
  <2>1. g \in Grids /\ p.pid \in Pids
    BY DEF GridInv, Packets
  <2> DEFINE last     == g.continuity[p.pid]
             fresh    == [cc |-> p.cc, repeated |-> FALSE]
             resets   == last = None \/ p.di
             advances == p.payload /\ p.cc = (last.cc + 1) % CcModulo
             repeats  == p.payload /\ p.cc = last.cc /\ ~last.repeated
             keeps    == ~p.payload /\ p.cc = last.cc
             c == IF resets \/ advances THEN fresh
                  ELSE IF repeats THEN [fresh EXCEPT !.repeated = TRUE]
                  ELSE IF p.payload THEN fresh ELSE last
             b == g.broken \/ ~(resets \/ advances \/ repeats \/ keeps)
             noted == [g.continuity EXCEPT ![p.pid] = c]
  <2>2. n = [g EXCEPT !.continuity[p.pid] = c, !.broken = b]
    BY DEF NoteContinuity
  <2> HIDE DEF n, c, b
  <2>3. n = [g EXCEPT !.continuity = noted, !.broken = b]
    BY <2>1, <2>2 DEF Grids
  <2> HIDE DEF noted
  <2>4. QED
    BY <2>1, <2>3 DEF Grids, Alike, Placement
<1>3. QED
  BY <1>1, <1>2

(* A closed run goes behind everything placed, and what is over capacity is  *)
(* dropped from the front.                                                   *)
Dropped(g, new, capacity) == Greatest(Len(g.placed) + Len(new) - capacity, 0)
PlacedOr(g, new, i) == IF i <= Len(g.placed) THEN g.placed[i] ELSE new[i - Len(g.placed)]

LEMMA CloseShape ==
  ASSUME NEW g, GridInv(g), g.open # None, g.run # <<>>, NEW next \in Int, NEW capacity \in Nat
  PROVE  LET h == CloseRun(g, next, capacity)
             new == Spread(g, next)
             drop == Dropped(g, new, capacity)
         IN  /\ drop \in 0 .. Len(g.placed) + Len(new)
             /\ Len(h.placed) = Len(g.placed) + Len(new) - drop
             /\ \A i \in 1 .. Len(h.placed) : h.placed[i] = PlacedOr(g, new, drop + i)
             /\ h.nextFree = LastOf(new).slot + 1 /\ h.shed = g.shed + drop
             /\ h.open = g.open /\ h.epoch = g.epoch /\ h.rebased = g.rebased
             /\ h.openBase = g.openBase /\ h.placedBase = g.openBase /\ h.takenBase = g.takenBase
             /\ h.bases = IF g.openBase # g.placedBase
                            THEN Append(g.bases, [slot |-> new[1].slot, offset |-> g.openBase])
                            ELSE g.bases
<1> DEFINE new   == Spread(g, next)
           all   == g.placed \o new
           drop  == Dropped(g, new, capacity)
           spans == Append(g.spans, Greatest(next - g.open.slot, 0))
           kept  == IF Len(spans) > RecentSpans THEN Tail(spans) ELSE spans
           placed == SubSeq(all, drop + 1, Len(all))
           bases  == IF g.openBase # g.placedBase
                       THEN Append(g.bases, [slot |-> new[1].slot, offset |-> g.openBase]) ELSE g.bases
           free  == LastOf(new).slot + 1
           moved == Greatest(g.displaced, free - next)
           h == CloseRun(g, next, capacity)
<1>1. g \in Grids /\ g.placed \in Seq(Places) /\ Len(g.placed) \in Nat
  BY LenProperties DEF GridInv, Grids
<1>2. new \in Seq(Places) /\ Len(new) \in Nat
  BY SpreadRises, LenProperties
<1>3. /\ all \in Seq(Places) /\ Len(all) = Len(g.placed) + Len(new)
      /\ \A i \in 1 .. Len(all) : all[i] = PlacedOr(g, new, i)
  <2> HIDE DEF new
  <2>1. /\ all \in Seq(Places) /\ Len(all) = Len(g.placed) + Len(new)
        /\ \A i \in 1 .. Len(g.placed) + Len(new) :
             all[i] = IF i <= Len(g.placed) THEN g.placed[i] ELSE new[i - Len(g.placed)]
    BY <1>1, <1>2, ConcatProperties
  <2>2. QED
    BY <2>1 DEF PlacedOr
<1>4. h = [g EXCEPT !.spans = kept, !.bases = bases, !.placedBase = g.openBase,
                    !.nextFree = free, !.placed = placed, !.shed = g.shed + drop,
                    !.displaced = moved]
  <2>1. drop = Greatest(Len(all) - capacity, 0)
    BY <1>3 DEF Dropped
  <2>2. h = [g EXCEPT !.spans = kept, !.bases = bases, !.placedBase = g.openBase,
                      !.nextFree = free,
                      !.placed = SubSeq(all, Greatest(Len(all) - capacity, 0) + 1, Len(all)),
                      !.shed = g.shed + Greatest(Len(all) - capacity, 0),
                      !.displaced = moved]
    BY DEF CloseRun
  <2> HIDE DEF h, all, drop, kept, bases, free, moved
  <2>3. QED
    BY <2>1, <2>2
<1> HIDE DEF new, all, spans, kept, placed, bases, free, moved, h
<1>5. drop \in 0 .. Len(all)
  BY <1>1, <1>2, <1>3 DEF Dropped, Greatest
<1>6. Len(placed) = Len(all) - drop /\ \A i \in 1 .. Len(placed) : placed[i] = all[drop + i]
  <2>1. \A e \in Places : e.slot \in Int
    BY DEF Places
  <2> HIDE DEF drop
  <2>2. QED
    BY <1>3, <1>5, <2>1, DropKeeps DEF placed
<1>7. \A i \in 1 .. Len(placed) : placed[i] = PlacedOr(g, new, drop + i)
  <2> HIDE DEF drop
  <2>1. \A i \in 1 .. Len(placed) : drop + i \in 1 .. Len(all)
    BY <1>1, <1>2, <1>3, <1>5, <1>6
  <2>2. QED
    BY <1>3, <1>6, <2>1
<1>8. /\ h.placed = placed /\ h.nextFree = free /\ h.shed = g.shed + drop /\ h.open = g.open /\ h.epoch = g.epoch
      /\ h.rebased = g.rebased /\ h.openBase = g.openBase /\ h.placedBase = g.openBase
      /\ h.takenBase = g.takenBase /\ h.bases = bases
  BY <1>1, <1>4 DEF Grids
<1>9. QED
  BY <1>3, <1>5, <1>6, <1>7, <1>8 DEF h, new, bases, free

(* As long as there is room for one packet, the last one stays.              *)
LEMMA CloseEdged ==
  ASSUME NEW g, GridInv(g), g.open # None, g.run # <<>>, NEW next \in Int, NEW capacity \in Nat \ {0}
  PROVE  LET h == CloseRun(g, next, capacity)
         IN  HasContent(h) /\ Edged(h) /\ h.nextFree > g.nextFree
<1> DEFINE new  == Spread(g, next)
           drop == Dropped(g, new, capacity)
           h == CloseRun(g, next, capacity)
           m == Len(g.placed)
           n == Len(new)
<1>1. /\ GridInv(h) /\ new \in Seq(Places) /\ n = Len(g.run) /\ n \in Nat \ {0} /\ m \in Nat
      /\ g.nextFree \in Int /\ From(new, g.nextFree)
  <2>1. GridInv(h)
    BY CloseKeeps
  <2>2. new \in Seq(Places) /\ n = Len(g.run) /\ From(new, g.nextFree)
    BY SpreadRises
  <2>3. Len(g.run) \in Nat \ {0} /\ m \in Nat /\ g.nextFree \in Int
    BY LenProperties, EmptySeq DEF GridInv, Grids
  <2>4. QED
    BY <2>1, <2>2, <2>3
<1>2. /\ Len(h.placed) = m + n - drop /\ h.nextFree = LastOf(new).slot + 1
      /\ \A i \in 1 .. Len(h.placed) : h.placed[i] = PlacedOr(g, new, drop + i)
  BY CloseShape
<1>3. drop \in 0 .. m + n - 1
  <2>1. drop = Greatest(m + n - capacity, 0)
    BY DEF Dropped
  <2> HIDE DEF m, n, drop
  <2>2. QED
    BY <1>1, <2>1, SMTT(30) DEF Greatest
<1> HIDE DEF new, drop, h, m
<1>4. new[n] \in Places /\ new[n].slot \in Int /\ new[n].slot >= g.nextFree
  <2>1. n \in 1 .. Len(new)
    BY <1>1
  <2>2. new[n] \in Places /\ new[n].slot >= g.nextFree
    BY <1>1, <2>1, ElementOfSeq DEF From
  <2>3. QED
    BY <2>2 DEF Places
<1> HIDE DEF n
<1>5. Len(h.placed) \in Nat \ {0} /\ drop + Len(h.placed) = m + n
  BY <1>1, <1>2, <1>3
<1>6. LastOf(h.placed) = new[n]
  <2>1. h.placed[Len(h.placed)] = PlacedOr(g, new, m + n)
    BY <1>2, <1>5
  <2>2. PlacedOr(g, new, m + n) = new[n]
    <3> DEFINE k == m + n
    <3>1. ~(k <= m) /\ k - m = n
      BY <1>1
    <3> HIDE DEF k
    <3>2. \A i : PlacedOr(g, new, i) = IF i <= m THEN g.placed[i] ELSE new[i - m]
      BY DEF PlacedOr, m
    <3>3. PlacedOr(g, new, k) = new[n]
      BY <3>1, <3>2, Zenon
    <3>4. QED
      BY <3>3 DEF k
  <2>3. QED
    BY <2>1, <2>2 DEF LastOf
<1>7. h.nextFree = new[n].slot + 1
  BY <1>2 DEF LastOf, n
<1>8. HasContent(h)
  BY <1>1, <1>5, EmptySeq DEF HasContent, GridInv, Grids
<1>9. LastOf(h.placed).slot = h.nextFree - 1
  BY <1>4, <1>6, <1>7
<1>10. Edged(h)
  <2>1. h.placed # <<>>
    BY <1>1, <1>5, EmptySeq DEF GridInv, Grids
  <2>2. QED
    BY <1>9, <2>1 DEF Edged, LastSlot
<1>11. h.nextFree > g.nextFree
  BY <1>1, <1>4, <1>7
<1>12. QED
  BY <1>8, <1>10, <1>11 DEF h

(* The epoch a PCR packet that arrives at opens its run on, the slot of the  *)
(* opening, and what a splice moved.                                         *)
Since(g, at) == IF g.open = None THEN 0 ELSE at - g.open.at
NextEpoch(g, p, at, horizon) == EpochFor(g, p, Since(g, at), horizon)
OpenSlot(g, p, at, horizon) == Greatest(SlotOfPcr(p.pcr) + NextEpoch(g, p, at, horizon), 0)
Moved(g, p, at, horizon) ==
  IF g.open # None /\ Spliced(g, p, Since(g, at), horizon) THEN NextEpoch(g, p, at, horizon) - g.epoch ELSE 0

(* A PCR packet opens its run, and what was placed changes only where it     *)
(* closes the one before.                                                    *)
Opens(g, n, p, at, horizon, capacity) ==
  LET slot == OpenSlot(g, p, at, horizon)
  IN  /\ NextEpoch(g, p, at, horizon) \in Int /\ slot \in Nat /\ Moved(g, p, at, horizon) \in Int
      /\ n.open = [pcr |-> p.pcr, slot |-> slot, at |-> at] /\ n.open # None
      /\ n.run = <<p>> /\ n.epoch = NextEpoch(g, p, at, horizon)
      /\ n.rebased = g.rebased + Moved(g, p, at, horizon) /\ n.openBase = n.rebased
      /\ \/ Placement(n) = Placement(g)
         \/ /\ g.open # None /\ g.run # <<>>
            /\ Placement(n) = Placement(CloseRun(g, slot, capacity))
            /\ n.shed = CloseRun(g, slot, capacity).shed

LEMMA PcrOpens ==
  ASSUME NEW g, GridInv(g), NEW p \in Packets, HasPcr(p), NEW at \in Int,
         NEW horizon, NEW capacity \in Nat
  PROVE  Opens(g, PushPcr(g, p, at, horizon, capacity), p, at, horizon, capacity)
<1> DEFINE epoch == NextEpoch(g, p, at, horizon)
           slot  == OpenSlot(g, p, at, horizon)
           moved == Moved(g, p, at, horizon)
           missed == \/ AfterSilence(g, p, Since(g, at), horizon)
                     \/ g.broken /\ MissedPcrs(g, Greatest(slot - g.open.slot, 0))
           skipped == [g EXCEPT !.cut = g.cut + Len(g.run), !.knownFrom = slot]
           closed  == CloseRun(g, slot, capacity)
           h == IF g.open = None THEN [g EXCEPT !.knownFrom = slot]
                ELSE IF missed THEN skipped
                ELSE IF g.run = <<>> THEN g ELSE closed
           opening == [pcr |-> p.pcr, slot |-> slot, at |-> at]
           n == PushPcr(g, p, at, horizon, capacity)
<1>1. /\ g \in Grids /\ g.run \in Seq(Packets) /\ Len(g.run) \in Nat /\ p.pcr \in Nat
      /\ g.epoch \in Int /\ g.rebased \in Int /\ g.cut \in Nat
  BY LenProperties DEF GridInv, Grids, HasPcr, Packets
<1>2. SlotOfPcr(p.pcr) \in Int /\ SlotsPerWrap \in Int
  <2>1. p.pcr \in Int /\ PcrWrap \in Int
    BY <1>1, LegNumbers
  <2>2. QED
    BY <2>1, LegNumbers DEF SlotOfPcr, SlotsPerWrap
<1>3. epoch \in Int
  <2>1. g.open # None => g.open.slot \in Int
    BY <1>1 DEF Grids, Openings
  <2>2. Greatest(Len(g.run), 1) \in Int
    BY <1>1 DEF Greatest
  <2>3. QED
    BY <1>1, <1>2, <2>1, <2>2 DEF NextEpoch, EpochFor
<1>4. n = [h EXCEPT !.broken = FALSE, !.epoch = epoch, !.rebased = h.rebased + moved,
                    !.openBase = g.rebased + moved, !.run = <<p>>, !.open = opening]
  BY DEF PushPcr, NextEpoch, OpenSlot, Moved, Since
<1>5. slot \in Nat /\ slot \in Int /\ moved \in Int
  <2>1. slot = Greatest(SlotOfPcr(p.pcr) + epoch, 0)
    BY DEF OpenSlot
  <2>2. moved = epoch - g.epoch \/ moved = 0
    BY DEF Moved
  <2> HIDE DEF epoch, slot, moved
  <2>3. QED
    BY <1>1, <1>2, <1>3, <2>1, <2>2 DEF Greatest
<1> HIDE DEF epoch, slot, moved, missed, skipped, closed, n
<1>6. /\ h \in Grids /\ h.rebased = g.rebased
      /\ \/ Placement(h) = Placement(g)
         \/ g.open # None /\ g.run # <<>> /\ Placement(h) = Placement(closed) /\ h.shed = closed.shed
  <2>1. CASE g.open = None
    <3>1. h = [g EXCEPT !.knownFrom = slot]
      BY <2>1
    <3> HIDE DEF h
    <3>2. h \in Grids /\ h.rebased = g.rebased
      BY <1>1, <1>5, <3>1 DEF Grids
    <3>3. Placement(h) = Placement(g)
      BY <1>1, <3>1 DEF Grids, Placement
    <3>4. QED
      BY <3>2, <3>3
  <2>2. CASE g.open # None /\ missed
    <3>1. h = skipped
      BY <2>2
    <3>2. g.cut + Len(g.run) \in Nat
      BY <1>1
    <3> DEFINE cut == g.cut + Len(g.run)
    <3>3. skipped = [g EXCEPT !.cut = cut, !.knownFrom = slot]
      BY DEF skipped
    <3> HIDE DEF h, cut
    <3>4. h \in Grids /\ h.rebased = g.rebased
      BY <1>1, <1>5, <3>1, <3>2, <3>3 DEF Grids, cut
    <3>5. Placement(h) = Placement(g)
      BY <1>1, <3>1, <3>3 DEF Grids, Placement
    <3>6. QED
      BY <3>4, <3>5
  <2>3. CASE g.open # None /\ ~missed /\ g.run = <<>>
    BY <1>1, <2>3
  <2>4. CASE g.open # None /\ ~missed /\ g.run # <<>>
    <3>1. h = closed
      BY <2>4
    <3>2. closed \in Grids
      BY <1>5, <2>4, CloseKeeps DEF GridInv, closed
    <3>3. closed.rebased = g.rebased
      <4>1. slot \in Int
        BY <1>5
      <4>2. CloseRun(g, slot, capacity).rebased = g.rebased
        BY <2>4, <4>1, CloseShape
      <4>3. QED
        BY <4>2 DEF closed
    <3> HIDE DEF h
    <3>4. QED
      BY <2>4, <3>1, <3>2, <3>3
  <2>5. QED
    BY <2>1, <2>2, <2>3, <2>4
<1> HIDE DEF h
<1>7. opening \in Openings /\ opening # None
  BY <1>1, <1>5, LegNumbers DEF Openings
<1>8. /\ n.open = opening /\ n.run = <<p>> /\ n.epoch = epoch
      /\ n.rebased = g.rebased + moved /\ n.openBase = n.rebased /\ Placement(n) = Placement(h)
      /\ n.shed = h.shed
  <2> HIDE DEF opening
  <2>1. QED
    BY <1>4, <1>6 DEF Grids, Placement
<1>9. QED
  BY <1>3, <1>5, <1>6, <1>7, <1>8 DEF Opens, epoch, slot, moved, closed, n

(* Whatever is pushed, the edge is the slot below the next free one, which   *)
(* never falls, and content stays content.                                   *)
LEMMA PushEdged ==
  ASSUME NEW g, GridInv(g), Edged(g), NEW p \in Packets, NEW at \in Int,
         NEW horizon, NEW capacity \in Nat \ {0}
  PROVE  LET h == PushGrid(g, p, at, horizon, capacity)
         IN  /\ Edged(h) /\ h.nextFree >= g.nextFree
             /\ HasContent(g) => HasContent(h)
<1> DEFINE n == NoteContinuity(g, p)
           h == PushGrid(g, p, at, horizon, capacity)
           slot == OpenSlot(n, p, at, horizon)
           closed == CloseRun(n, slot, capacity)
<1>1. GridInv(n) /\ Placement(n) = Placement(g) /\ n.placed = g.placed /\ n.nextFree = g.nextFree
  BY NoteAlike DEF Alike, Placement
<1>2. n \in Grids /\ g.nextFree \in Int
  BY <1>1 DEF GridInv, Grids
<1>3. \/ Placement(h) = Placement(n)
      \/ slot \in Nat /\ n.open # None /\ n.run # <<>> /\ Placement(h) = Placement(closed)
  <2>1. CASE HasPcr(p)
    <3>1. h = PushPcr(n, p, at, horizon, capacity)
      BY <2>1 DEF PushGrid
    <3> HIDE DEF n, h
    <3>a. capacity \in Nat
      OBVIOUS
    <3>2. Opens(n, h, p, at, horizon, capacity)
      BY <1>1, <2>1, <3>1, <3>a, PcrOpens
    <3>3. QED
      BY <3>2 DEF Opens
  <2>2. CASE ~HasPcr(p) /\ g.open = None
    <3>1. h = [n EXCEPT !.shed = n.shed + 1]
      BY <2>2 DEF PushGrid
    <3> HIDE DEF n, h
    <3>2. QED
      BY <1>2, <3>1 DEF Grids, Placement
  <2>3. CASE ~HasPcr(p) /\ g.open # None
    <3>1. h = [n EXCEPT !.run = Append(n.run, p)]
      BY <2>3 DEF PushGrid
    <3> HIDE DEF n, h
    <3>2. QED
      BY <1>2, <3>1 DEF Grids, Placement
  <2>4. QED
    BY <2>1, <2>2, <2>3
<1> HIDE DEF n, h, slot
<1>4. CASE Placement(h) = Placement(n)
  <2>1. h.placed = g.placed /\ h.nextFree = g.nextFree
    BY <1>1, <1>4 DEF Placement
  <2>2. QED
    BY <1>2, <2>1 DEF Edged, HasContent, LastSlot, h
<1>5. CASE slot \in Nat /\ n.open # None /\ n.run # <<>> /\ Placement(h) = Placement(closed)
  <2>1. HasContent(closed) /\ Edged(closed) /\ closed.nextFree > n.nextFree /\ GridInv(closed)
    BY <1>1, <1>5, CloseEdged, CloseKeeps
  <2> HIDE DEF closed
  <2>2. h.placed = closed.placed /\ h.nextFree = closed.nextFree /\ closed.nextFree \in Int
    BY <1>5, <2>1 DEF Placement, GridInv, Grids
  <2>3. QED
    BY <1>1, <1>2, <2>1, <2>2 DEF Edged, HasContent, LastSlot, h
<1>6. QED
  BY <1>3, <1>4, <1>5

(* A slot takes packets from the front, and the end of the source none.      *)
LEMMA TakeEdged ==
  ASSUME NEW g, GridInv(g), Edged(g), NEW slot
  PROVE  /\ Edged(TakeGrid(g, slot)) /\ TakeGrid(g, slot).nextFree = g.nextFree
         /\ Edged(FlushGrid(g)) /\ FlushGrid(g).nextFree = g.nextFree
         /\ FlushGrid(g).placed = g.placed
<1> DEFINE n == PassedAt(g, slot)
           placed == SubSeq(g.placed, n + 1, Len(g.placed))
           h == TakeGrid(g, slot)
           f == FlushGrid(g)
<1>1. g \in Grids /\ g.placed \in Seq(Places) /\ Len(g.placed) \in Nat /\ n \in 0 .. Len(g.placed)
  <2>1. n \in 0 .. Len(g.placed)
    BY TakeKeeps
  <2>2. QED
    BY <2>1, LenProperties DEF GridInv, Grids
<1>2. h.placed = placed /\ h.nextFree = g.nextFree
  BY <1>1 DEF TakeGrid, Grids
<1>3. f.placed = g.placed /\ f.nextFree = g.nextFree
  BY <1>1 DEF FlushGrid, Grids
<1> HIDE DEF n, placed, h, f
<1>4. /\ Len(placed) = Len(g.placed) - n /\ placed \in Seq(Places)
      /\ \A i \in 1 .. Len(placed) : placed[i] = g.placed[n + i]
  <2>1. \A e \in Places : e.slot \in Int
    BY DEF Places
  <2>2. QED
    BY <1>1, <2>1, DropKeeps DEF placed
<1>5. placed # <<>> => g.placed # <<>> /\ LastOf(placed) = LastOf(g.placed)
  <2>1. placed # <<>> => Len(placed) \in Nat \ {0}
    BY <1>4, EmptySeq
  <2>2. placed # <<>> => g.placed # <<>> /\ n + Len(placed) = Len(g.placed)
    BY <1>1, <1>4, <2>1, EmptySeq
  <2>3. placed # <<>> => placed[Len(placed)] = g.placed[n + Len(placed)]
    BY <1>4, <2>1
  <2>4. QED
    BY <2>2, <2>3 DEF LastOf
<1>6. Edged(h)
  BY <1>2, <1>5 DEF Edged, HasContent, LastSlot
<1>7. Edged(f)
  BY <1>3 DEF Edged, HasContent, LastSlot
<1>8. QED
  BY <1>2, <1>3, <1>6, <1>7 DEF h, f
-----------------------------------------------------------------------------
(* How late the content an aligned leg is tied to is, in the path's terms.   *)
DelayAt(a) == a.at * MuxRate - a.slot * PacketTicks

Sources == [at : Int \cup {None}, stalled : BOOLEAN, closing : BOOLEAN, since : Int,
            run : {"on", "failed", "done"}]

(* What an aligned leg has watched: the fastest delivery beats the reference *)
(* by the gain and less than a tick, and the reference lies behind the edge. *)
Caught(a, nextFree) ==
  /\ a.gain \in Nat
  /\ a.fastest # None =>
       /\ a.soonest # None /\ a.soonest.slot < nextFree
       /\ DelayAt(a.soonest) - a.fastest - a.gain * MuxRate \in 0 .. MuxRate - 1

(* Until the first datagram nothing is sooner than the reference, and the    *)
(* clock only starts once the leg has watched for long enough.               *)
WatchInv ==
  /\ source \in Sources /\ leg.align \in Nat \cup {None}
  /\ Caught(align, grid.nextFree) /\ Edged(grid)
  /\ count.begun = 0 =>
       /\ align.gain = 0
       /\ align.soonest # None /\ ~source.closing => align.fastest # None
       /\ clock.anchor # None /\ leg.align # None /\ ~source.closing =>
            align.since # None /\ now - align.since >= leg.align /\ HasContent(grid)

(* The clock is in phase with the reference. *)
PhaseInv ==
  leg.align # None /\ clock.anchor # None /\ align.fastest # None =>
    clock.anchor * MuxRate - clock.from * PacketTicks - Latency * MuxRate - DelayAt(align.soonest)
      \in -(MuxRate - 1) .. MuxRate - 1

(* How much sooner the edge is than the reference, to within a tick.         *)
LEMMA Sooner ==
  ASSUME NEW a \in Arrivals, NEW n \in Int, NEW edge \in Int
  PROVE  LET q == TicksOf(edge - a.slot) - (n - a.at)
         IN  /\ q \in Int /\ DelayAt(a) \in Int /\ n * MuxRate - edge * PacketTicks \in Int
             /\ DelayAt(a) - (n * MuxRate - edge * PacketTicks) - q * MuxRate \in 0 .. MuxRate - 1
<1> DEFINE at == a.at
           slot == a.slot
           d == edge - slot
           w == n - at
           t == TicksOf(d)
<1>1. /\ at \in Int /\ slot \in Int /\ d \in Int /\ w \in Int
      /\ MuxRate \in Nat \ {0} /\ PacketTicks \in Nat \ {0}
  BY LegNumbers DEF Arrivals
<1>2. /\ t \in Int /\ d * PacketTicks \in Int /\ t * MuxRate \in Int
      /\ d * PacketTicks - t * MuxRate \in 0 .. MuxRate - 1
  BY <1>1, TicksWithin
<1>3. /\ d * PacketTicks = edge * PacketTicks - slot * PacketTicks
      /\ edge * PacketTicks \in Int /\ slot * PacketTicks \in Int
  BY <1>1, Distributes
<1>4. /\ w * MuxRate = n * MuxRate - at * MuxRate
      /\ n * MuxRate \in Int /\ at * MuxRate \in Int
  BY <1>1, Distributes
<1>5. (t - w) * MuxRate = t * MuxRate - w * MuxRate /\ w * MuxRate \in Int
  <2> HIDE DEF t, w
  <2>1. QED
    BY <1>1, <1>2, Distributes
<1>6. DelayAt(a) = at * MuxRate - slot * PacketTicks
  BY DEF DelayAt
<1>7. t - w \in Int
  BY <1>1, <1>2
<1>8. DelayAt(a) - (n * MuxRate - edge * PacketTicks) - (t - w) * MuxRate
        = d * PacketTicks - t * MuxRate
  <2> HIDE DEF t, w, d, at, slot
  <2>1. QED
    BY <1>2, <1>3, <1>4, <1>5, <1>6
<1>9. QED
  <2>1. DelayAt(a) \in Int
    <3> HIDE DEF at, slot
    <3>1. QED
      BY <1>3, <1>4, <1>6
  <2>2. QED
    BY <1>2, <1>3, <1>4, <1>7, <1>8, <2>1

(* More whole ticks are more. *)
LEMMA MoreTicks ==
  ASSUME NEW x \in Int, NEW y \in Int, NEW q \in Int, NEW r \in Int,
         x - q * MuxRate \in 0 .. MuxRate - 1, y - r * MuxRate \in 0 .. MuxRate - 1
  PROVE  q > r => x > y
<1> SUFFICES ASSUME q > r PROVE x > y
  OBVIOUS
<1>1. MuxRate \in Nat \ {0}
  BY LegNumbers
<1>2. q * MuxRate \in Int /\ r * MuxRate \in Int /\ q * MuxRate >= r * MuxRate + MuxRate
  <2>1. (q - r) * MuxRate = q * MuxRate - r * MuxRate /\ q * MuxRate \in Int /\ r * MuxRate \in Int
    BY <1>1, Distributes
  <2>2. (q - r) * MuxRate >= MuxRate
    BY <1>1
  <2>3. QED
    BY <1>1, <2>1, <2>2
<1>3. QED
  BY <1>1, <1>2

(* An arrival keeps what is known of the fastest delivery: before the first  *)
(* datagram a sooner one becomes the reference, and after it adds to the     *)
(* gain.                                                                     *)
LEMMA WatchKeeps ==
  ASSUME LegType, WatchInv, ~source.closing, leg.align # None,
         NEW g, GridInv(g), HasContent(g), Edged(g), g.nextFree >= grid.nextFree
  PROVE  /\ Caught(Watch(g), g.nextFree)
         /\ count.begun = 0 => Watch(g).gain = 0 /\ Watch(g).fastest # None
         /\ Watch(g).since = IF align.since = None THEN now ELSE align.since
         /\ count.begun # 0 => /\ Watch(g).soonest = align.soonest
                               /\ Watch(g).fastest # None => align.fastest # None
<1> DEFINE since == IF align.since = None THEN now ELSE align.since
           a     == [align EXCEPT !.since = since]
           edge  == LastSlot(g)
           delay == DelayOf(edge)
           s     == align.soonest
           q     == TicksOf(edge - s.slot) - (now - s.at)
           f     == align.fastest
           known == align.gain
           gain  == Gain(a, edge)
           w     == Watch(g)
<1>1. /\ align \in Watches /\ now \in Int /\ edge \in Int /\ g.nextFree \in Int /\ grid.nextFree \in Int
      /\ edge = g.nextFree - 1 /\ MuxRate \in Nat \ {0} /\ PacketTicks \in Nat \ {0}
  <2>1. edge \in Int
    BY EdgeType
  <2>2. QED
    BY <2>1, LegNumbers DEF LegType, Edged, GridInv, Grids
<1>2. /\ a \in Watches /\ a.soonest = s /\ a.gain = known /\ a.fastest = f /\ a.since = since
      /\ s \in Arrivals \cup {None} /\ f \in Int \cup {None}
  BY <1>1 DEF Watches
<1>3. /\ known \in Nat
      /\ f # None => s # None /\ s.slot < grid.nextFree /\ DelayAt(s) - f - known * MuxRate \in 0 .. MuxRate - 1
  BY DEF WatchInv, Caught
<1>4. count.begun = 0 => known = 0 /\ (s # None => f # None)
  BY DEF WatchInv
<1>5. delay = now * MuxRate - edge * PacketTicks
  BY DEF DelayOf
<1>6. delay \in Int
  <2> HIDE DEF edge, delay
  <2>1. now * MuxRate \in Int /\ edge * PacketTicks \in Int
    BY <1>1, Distributes
  <2>2. QED
    BY <1>5, <2>1
<1>7. s # None => q \in Int /\ DelayAt(s) \in Int /\ DelayAt(s) - delay - q * MuxRate \in 0 .. MuxRate - 1
  <2> HIDE DEF edge, delay
  <2>1. QED
    BY <1>1, <1>2, <1>5, Sooner
<1>8. f # None => edge >= s.slot /\ gain = Greatest(q, 0)
  <2>1. f # None => edge >= s.slot
    BY <1>1, <1>2, <1>3 DEF Arrivals
  <2>2. f # None => s # None /\ ~(edge < s.slot)
    <3> HIDE DEF edge
    <3>1. QED
      BY <1>1, <1>2, <1>3, <2>1 DEF Arrivals
  <2>3. QED
    BY <1>2, <2>1, <2>2 DEF Gain
<1>9. s = None => gain = 0
  BY <1>2 DEF Gain
<1>10. None \notin Int /\ None \notin Arrivals
  BY LegNumbers, StreamLegAssumption DEF StreamLegAssumption, Arrivals
<1> HIDE DEF q, gain, edge, delay, a
<1>11. CASE count.begun > 0
  <2> DEFINE more  == Greatest(known, gain)
             later == IF f # None /\ delay < f THEN delay ELSE f
  <2>1. w = [a EXCEPT !.gain = more, !.fastest = later]
    <3>1. w = [a EXCEPT !.gain = Greatest(a.gain, gain),
                        !.fastest = IF a.fastest # None /\ delay < a.fastest THEN delay ELSE a.fastest]
      BY <1>11 DEF Watch, a, edge, delay, gain
    <3> HIDE DEF w
    <3>2. QED
      BY <1>2, <3>1
  <2> HIDE DEF w, since
  <2>2. /\ w.gain = more /\ w.fastest = later /\ w.soonest = s /\ w.since = since
    BY <1>2, <2>1 DEF Watches
  <2>3. more \in Nat
    <3>1. CASE f = None
      <4>1. gain \in Nat
        <5>1. CASE s = None
          BY <1>9, <5>1
        <5>2. CASE s # None /\ edge < s.slot
          BY <1>2, <5>2 DEF Gain, gain
        <5>3. CASE s # None /\ ~(edge < s.slot)
          <6>1. gain = Greatest(q, 0)
            BY <1>2, <5>3 DEF Gain, gain, q
          <6>2. QED
            BY <1>7, <5>3, <6>1 DEF Greatest
        <5>4. QED
          BY <5>1, <5>2, <5>3
      <4>2. QED
        BY <1>3, <4>1 DEF Greatest
    <3>2. CASE f # None
      BY <1>3, <1>7, <1>8, <3>2 DEF Greatest
    <3>3. QED
      BY <3>1, <3>2
  <2>4. ASSUME f # None PROVE later \in Int /\ DelayAt(s) - later - more * MuxRate \in 0 .. MuxRate - 1
    <3>1. /\ q \in Int /\ DelayAt(s) \in Int /\ f \in Int
          /\ DelayAt(s) - delay - q * MuxRate \in 0 .. MuxRate - 1
          /\ DelayAt(s) - f - known * MuxRate \in 0 .. MuxRate - 1
          /\ more = Greatest(known, Greatest(q, 0))
      BY <1>2, <1>3, <1>7, <1>8, <2>4
    <3> DEFINE x == DelayAt(s) - delay
               y == DelayAt(s) - f
    <3>2. x \in Int /\ y \in Int /\ (q > known => x > y) /\ (known > q => y > x)
      <4>1. x \in Int /\ y \in Int
        BY <1>6, <3>1
      <4> HIDE DEF x, y
      <4>2. x - q * MuxRate \in 0 .. MuxRate - 1 /\ y - known * MuxRate \in 0 .. MuxRate - 1
        BY <3>1 DEF x, y
      <4>3. known \in Int
        BY <1>3
      <4>4. QED
        BY <3>1, <4>1, <4>2, <4>3, MoreTicks
    <3>3. CASE q > known
      <4>1. more = q /\ later = delay
        BY <1>3, <1>6, <2>4, <3>1, <3>2, <3>3 DEF Greatest
      <4>2. QED
        BY <1>6, <3>1, <4>1
    <3>4. CASE known > q
      <4>1. more = known /\ later = f
        BY <1>3, <1>6, <3>1, <3>2, <3>4 DEF Greatest
      <4>2. QED
        BY <3>1, <4>1
    <3>5. CASE q = known
      <4>1. more = known
        BY <1>3, <3>1, <3>5 DEF Greatest
      <4>2. QED
        BY <1>6, <3>1, <3>5, <4>1
    <3>6. QED
      BY <1>3, <3>1, <3>3, <3>4, <3>5
  <2>5. f # None => s.slot < g.nextFree
    BY <1>1, <1>2, <1>3 DEF Arrivals
  <2>6. later # None => f # None
    OBVIOUS
  <2> HIDE DEF more, later
  <2>7. Caught(w, g.nextFree)
    BY <1>3, <2>2, <2>3, <2>4, <2>5, <2>6 DEF Caught
  <2>8. QED
    BY <1>1, <1>11, <2>2, <2>6, <2>7 DEF w, since
<1>12. CASE ~(count.begun > 0)
  <2> DEFINE arrival == [at |-> now, slot |-> edge]
             soonest == IF s = None \/ gain > 0 THEN arrival ELSE s
             fastest == IF f = None \/ delay < f THEN delay ELSE f
  <2>1. w = [a EXCEPT !.soonest = soonest, !.fastest = fastest]
    <3>1. w = [a EXCEPT !.soonest = IF a.soonest = None \/ gain > 0 THEN arrival ELSE a.soonest,
                        !.fastest = IF a.fastest = None \/ delay < a.fastest THEN delay ELSE a.fastest]
      BY <1>12 DEF Watch, a, edge, delay, gain
    <3> HIDE DEF w
    <3>2. QED
      BY <1>2, <3>1
  <2>a. count.begun = 0
    BY <1>12 DEF LegType, Counts
  <2> HIDE DEF w, since
  <2>2. w.gain = 0 /\ w.fastest = fastest /\ w.soonest = soonest /\ w.since = since
    BY <1>2, <1>4, <2>a, <2>1 DEF Watches
  <2>3. /\ arrival \in Arrivals /\ arrival.slot = edge /\ DelayAt(arrival) = delay
    BY <1>1, <1>5 DEF Arrivals, DelayAt
  <2>4. fastest \in Int
    BY <1>2, <1>6
  <2>5. soonest # None /\ soonest.slot < g.nextFree /\ DelayAt(soonest) - fastest \in 0 .. MuxRate - 1
    <3>1. CASE s = None
      <4>1. f = None
        BY <1>3, <3>1
      <4>2. soonest = arrival /\ fastest = delay
        BY <3>1, <4>1
      <4>3. QED
        BY <1>1, <1>6, <1>10, <2>3, <4>2
    <3>2. CASE s # None
      <4>1. /\ f \in Int /\ q \in Int /\ DelayAt(s) \in Int /\ s \in Arrivals
            /\ DelayAt(s) - delay - q * MuxRate \in 0 .. MuxRate - 1
            /\ DelayAt(s) - f \in 0 .. MuxRate - 1
            /\ gain = Greatest(q, 0) /\ s.slot < grid.nextFree
        <5>1. f # None /\ known = 0
          BY <1>4, <2>a, <3>2
        <5>2. known * MuxRate = 0
          BY <1>1, <5>1
        <5>3. DelayAt(s) - f - 0 \in 0 .. MuxRate - 1 /\ f \in Int /\ DelayAt(s) \in Int
          BY <1>2, <1>3, <1>7, <3>2, <5>1, <5>2
        <5>4. DelayAt(s) - f \in 0 .. MuxRate - 1
          BY <5>3
        <5>5. QED
          BY <1>2, <1>3, <1>7, <1>8, <3>2, <5>1, <5>4
      <4>2. CASE q > 0
        <5>1. soonest = arrival
          BY <4>1, <4>2 DEF Greatest
        <5>2. q * MuxRate >= MuxRate
          BY <1>1, <4>1, <4>2
        <5>3. fastest = delay
          <6>1. q * MuxRate \in Int
            BY <1>1, <4>1
          <6>2. delay < f
            BY <1>1, <1>6, <4>1, <5>2, <6>1
          <6>3. QED
            BY <6>2
        <5>4. QED
          BY <1>1, <1>6, <1>10, <2>3, <5>1, <5>3
      <4>3. CASE ~(q > 0)
        <5>1. soonest = s
          BY <3>2, <4>1, <4>3 DEF Greatest
        <5>2. q * MuxRate \in Int /\ q * MuxRate <= 0
          BY <1>1, <4>1, <4>3
        <5>3. DelayAt(s) - fastest \in 0 .. MuxRate - 1
          <6>1. DelayAt(s) - delay <= MuxRate - 1
            BY <1>1, <1>6, <4>1, <5>2
          <6>2. f # None
            BY <1>10, <4>1
          <6>3. CASE delay < f
            <7>1. fastest = delay
              BY <6>3
            <7>2. QED
              BY <1>1, <1>6, <4>1, <6>1, <6>3, <7>1
          <6>4. CASE ~(delay < f)
            <7>1. fastest = f
              BY <6>2, <6>4
            <7>2. QED
              BY <4>1, <7>1
          <6>5. QED
            BY <6>3, <6>4
        <5>4. s.slot < g.nextFree
          BY <1>1, <4>1 DEF Arrivals
        <5>5. QED
          BY <3>2, <5>1, <5>3, <5>4
      <4>4. QED
        BY <4>2, <4>3
    <3>3. QED
      BY <3>1, <3>2
  <2>6. DelayAt(soonest) \in Int
    BY <1>2, <1>6, <1>7, <2>3
  <2> HIDE DEF soonest, fastest
  <2>7. Caught(w, g.nextFree)
    <3>1. 0 * MuxRate = 0
      BY <1>1
    <3>2. DelayAt(soonest) - fastest - 0 * MuxRate \in 0 .. MuxRate - 1
      BY <1>1, <2>4, <2>5, <2>6, <3>1
    <3>3. QED
      BY <2>2, <2>5, <3>2 DEF Caught
  <2>8. fastest # None
    BY <1>10, <2>4
  <2>9. QED
    BY <2>a, <2>2, <2>7, <2>8 DEF w, since
<1>13. QED
  BY <1>11, <1>12

(* The clock an aligned leg starts on is in phase with its reference.        *)
LEMMA AlignPhase ==
  ASSUME LegType, NEW g, GridInv(g), HasContent(g), NEW a \in Watches, a.soonest \in Arrivals,
         count.begun = 0, now - a.since >= leg.align
  PROVE  LET c == AlignStart(g, a)
         IN  c.anchor * MuxRate - c.from * PacketTicks - Latency * MuxRate - DelayAt(a.soonest)
               \in -(MuxRate - 1) .. MuxRate - 1
<1> DEFINE s       == a.soonest
           release == s.at + Latency
           passed  == IF now >= release THEN LatencyToPackets(now - release)
                      ELSE -LatencyToPackets(release - now)
           due     == s.slot + passed
           start   == Aligned(Greatest(due, FirstSlot(g)))
           ahead   == start - s.slot
           ticks   == IF ahead >= 0 THEN TicksOf(ahead) ELSE -TicksOf(-ahead)
           c       == AlignStart(g, a)
<1>1. /\ now \in Int /\ s.at \in Int /\ s.slot \in Int /\ Latency \in Int /\ FirstSlot(g) \in Int
      /\ MuxRate \in Nat \ {0} /\ PacketTicks \in Nat \ {0}
  BY EdgeType, LegNumbers DEF LegType, Arrivals
<1>2. release \in Int
  BY <1>1
<1>3. start \in Int
  <2> HIDE DEF release
  <2>1. now - release \in Int /\ release - now \in Int
    BY <1>1, <1>2
  <2>2. LatencyToPackets(now - release) \in Int /\ LatencyToPackets(release - now) \in Int
    BY <2>1, SlotsAreNumbers
  <2>3. passed \in Int
    BY <2>2
  <2> HIDE DEF passed, s
  <2>4. Greatest(due, FirstSlot(g)) \in Int
    BY <1>1, <2>3 DEF Greatest
  <2>5. QED
    BY <2>4, SlotsAreNumbers
<1>4. c.anchor = release + ticks /\ c.from = start
  <2>1. c = [anchor |-> release + ticks, from |-> start, slot |-> start]
    BY DEF AlignStart
  <2> HIDE DEF c, release, ticks, start
  <2>2. QED
    BY <2>1
<1> HIDE DEF start, c
<1>5. /\ ahead \in Int /\ ticks \in Int /\ ticks * MuxRate \in Int /\ ahead * PacketTicks \in Int
      /\ ahead * PacketTicks - ticks * MuxRate \in -(MuxRate - 1) .. MuxRate - 1
  <2>1. ahead \in Int /\ -ahead \in Int
    BY <1>1, <1>3
  <2> HIDE DEF ahead, s
  <2>2. CASE ahead >= 0
    <3>1. ticks = TicksOf(ahead)
      BY <2>2
    <3>2. /\ TicksOf(ahead) \in Int /\ ahead * PacketTicks \in Int /\ TicksOf(ahead) * MuxRate \in Int
          /\ ahead * PacketTicks - TicksOf(ahead) * MuxRate \in 0 .. MuxRate - 1
      BY <2>1, TicksWithin
    <3> HIDE DEF ticks
    <3>3. QED
      BY <1>1, <2>1, <3>1, <3>2
  <2>3. CASE ~(ahead >= 0)
    <3> DEFINE t == TicksOf(-ahead)
    <3>1. ticks = -t
      BY <2>3
    <3>2. /\ t \in Int /\ (-ahead) * PacketTicks \in Int /\ t * MuxRate \in Int
          /\ (-ahead) * PacketTicks - t * MuxRate \in 0 .. MuxRate - 1
      BY <2>1, TicksWithin
    <3> HIDE DEF ticks, t
    <3>3. (-ahead) * PacketTicks = -(ahead * PacketTicks) /\ ahead * PacketTicks \in Int
      BY <1>1, <2>1
    <3>4. (-t) * MuxRate = -(t * MuxRate)
      BY <1>1, <3>2
    <3>5. QED
      BY <1>1, <2>1, <3>1, <3>2, <3>3, <3>4
  <2>4. QED
    BY <2>2, <2>3
<1> HIDE DEF ticks
<1>6. (release + ticks) * MuxRate = s.at * MuxRate + Latency * MuxRate + ticks * MuxRate
  <2>1. (release + ticks) * MuxRate = release * MuxRate + ticks * MuxRate
    BY <1>1, <1>2, <1>5, Distributes
  <2>2. (s.at + Latency) * MuxRate = s.at * MuxRate + Latency * MuxRate
    BY <1>1, Distributes
  <2>3. QED
    BY <2>1, <2>2
<1>7. ahead * PacketTicks = start * PacketTicks - s.slot * PacketTicks
  BY <1>1, <1>3, Distributes
<1>8. /\ s.at * MuxRate \in Int /\ Latency * MuxRate \in Int /\ start * PacketTicks \in Int
      /\ s.slot * PacketTicks \in Int
  BY <1>1, <1>3, Distributes
<1>9. DelayAt(s) = s.at * MuxRate - s.slot * PacketTicks
  BY DEF DelayAt
<1>10. c.anchor * MuxRate - c.from * PacketTicks - Latency * MuxRate - DelayAt(s)
         = -(ahead * PacketTicks - ticks * MuxRate)
  <2> HIDE DEF ahead, s, release
  <2>1. QED
    BY <1>4, <1>5, <1>6, <1>7, <1>8, <1>9
<1>11. QED
  <2> DEFINE x == ahead * PacketTicks - ticks * MuxRate
  <2>1. x \in -(MuxRate - 1) .. MuxRate - 1
    BY <1>5
  <2> HIDE DEF x
  <2>2. -x \in -(MuxRate - 1) .. MuxRate - 1
    BY <1>1, <2>1
  <2>3. QED
    BY <1>10, <2>2 DEF c, x

(* What an arrival leaves of the watch and the clock. *)
LEMMA EnqueueTimed ==
  ASSUME LegType, WatchInv, PhaseInv, ~source.closing, NEW p \in Packets, Enqueue(p),
         UNCHANGED <<now, setting, count>>
  PROVE  WatchInv' /\ PhaseInv'
<1> DEFINE horizon == IF count.begun > 0 THEN clock.slot + Capacity ELSE None
           g == PushGrid(grid, p, now, horizon, Capacity)
           w == Watch(g)
<1>1. Capacity \in Nat \ {0} /\ Capacity \in Nat
  <2>1. LatencyToPackets(MaxLatency) \in Int
    BY LegNumbers, SlotsAreNumbers
  <2>2. QED
    BY <2>1 DEF Capacity, Greatest
<1>2. /\ grid' = g /\ align' = w
      /\ clock' = IF leg.align = None THEN Restart(g) ELSE AlignStart(g, align')
      /\ source' = [source EXCEPT !.at = now, !.stalled = FALSE, !.since = now]
  BY DEF Enqueue
<1>3. leg' = leg /\ now' = now /\ count' = count
  BY DEF setting
<1>4. /\ GridInv(g) /\ Edged(g) /\ g.nextFree >= grid.nextFree
      /\ HasContent(grid) => HasContent(g)
  <2>1. GridInv(grid) /\ now \in Int /\ Edged(grid)
    BY DEF LegType, WatchInv
  <2>2. GridInv(g)
    BY <1>1, <2>1, PushKeeps
  <2>3. QED
    BY <1>1, <2>1, <2>2, PushEdged
<1>5. /\ now \in Int /\ align \in Watches /\ clock \in Clocks /\ count.begun \in {0, 1}
      /\ g.nextFree \in Int /\ grid.nextFree \in Int /\ source \in Sources
      /\ leg.align \in Nat \cup {None} /\ None \notin Int /\ None \notin Arrivals
  BY <1>4, LegNumbers, StreamLegAssumption
  DEF LegType, WatchInv, GridInv, Grids, Counts, StreamLegAssumption, Arrivals
<1> HIDE DEF g, w
<1>6. source' \in Sources
  BY <1>2, <1>5 DEF Sources
<1>7. CASE leg.align = None
  <2>1. w = align
    BY <1>7 DEF Watch, w
  <2>2. Caught(align, grid.nextFree)
    BY DEF WatchInv
  <2>3. Caught(align, g.nextFree)
    <3>1. align.soonest \in Arrivals \cup {None}
      BY <1>5 DEF Watches
    <3>2. align.fastest # None => align.soonest.slot < g.nextFree
      BY <1>4, <1>5, <2>2, <3>1 DEF Caught, Arrivals
    <3>3. QED
      BY <2>2, <3>2 DEF Caught
  <2>4. WatchInv'
    BY <1>2, <1>3, <1>4, <1>5, <1>6, <1>7, <2>1, <2>3 DEF WatchInv
  <2>5. PhaseInv'
    BY <1>3, <1>7 DEF PhaseInv
  <2>6. QED
    BY <2>4, <2>5
<1>8. CASE leg.align # None /\ ~HasContent(g)
  <2> DEFINE since == IF align.since = None THEN now ELSE align.since
  <2>1. w = [align EXCEPT !.since = since]
    BY <1>8 DEF Watch, w
  <2>2. /\ w.gain = align.gain /\ w.fastest = align.fastest /\ w.soonest = align.soonest
    BY <1>5, <2>1 DEF Watches
  <2>3. clock' = clock
    BY <1>2, <1>8 DEF AlignStart
  <2>4. Caught(w, g.nextFree)
    <3>1. align.soonest \in Arrivals \cup {None} /\ Caught(align, grid.nextFree)
      BY <1>5 DEF Watches, WatchInv
    <3>2. align.fastest # None => align.soonest.slot < g.nextFree
      BY <1>4, <1>5, <3>1 DEF Caught, Arrivals
    <3>3. QED
      BY <2>2, <3>1, <3>2 DEF Caught
  <2>5. count.begun = 0 => /\ w.gain = 0 /\ (w.soonest # None => w.fastest # None)
                           /\ clock.anchor = None
    BY <1>4, <1>8, <2>2 DEF WatchInv
  <2>6. WatchInv'
    BY <1>2, <1>3, <1>4, <1>5, <1>6, <2>3, <2>4, <2>5 DEF WatchInv
  <2>7. PhaseInv'
    BY <1>2, <1>3, <2>2, <2>3 DEF PhaseInv
  <2>8. QED
    BY <2>6, <2>7
<1>9. CASE leg.align # None /\ HasContent(g)
  <2>1. /\ Caught(w, g.nextFree)
        /\ count.begun = 0 => w.gain = 0 /\ w.fastest # None
        /\ w.since = IF align.since = None THEN now ELSE align.since
        /\ count.begun # 0 => /\ w.soonest = align.soonest
                              /\ w.fastest # None => align.fastest # None
    BY <1>4, <1>9, WatchKeeps DEF w
  <2>2. w \in Watches /\ (count.begun = 0 => w.soonest \in Arrivals)
    BY <1>4, <1>9, WatchType DEF w
  <2>3. w.since \in Int /\ w.since # None
    BY <1>5, <2>1 DEF Watches
  <2>4. clock' = AlignStart(g, w)
    BY <1>2, <1>9
  <2>5. CASE count.begun # 0
    <3>1. clock' = clock
      BY <2>4, <2>5 DEF AlignStart
    <3>2. WatchInv'
      BY <1>2, <1>3, <1>4, <1>5, <1>6, <2>1, <2>5 DEF WatchInv
    <3>3. PhaseInv'
      BY <1>2, <1>3, <2>1, <2>5, <3>1 DEF PhaseInv
    <3>4. QED
      BY <3>2, <3>3
  <2>6. CASE count.begun = 0 /\ ~(now - w.since >= leg.align)
    <3>1. clock' = clock
      BY <2>4, <2>6 DEF AlignStart
    <3>2. clock.anchor = None
      <4>1. clock.anchor # None => align.since # None /\ now - align.since >= leg.align
        BY <1>9, <2>6 DEF WatchInv
      <4>2. QED
        BY <2>1, <2>6, <4>1
    <3>3. WatchInv'
      BY <1>2, <1>3, <1>4, <1>5, <1>6, <2>1, <2>6, <3>1, <3>2 DEF WatchInv
    <3>4. PhaseInv'
      BY <3>1, <3>2 DEF PhaseInv
    <3>5. QED
      BY <3>3, <3>4
  <2>7. CASE count.begun = 0 /\ now - w.since >= leg.align
    <3>1. WatchInv'
      BY <1>2, <1>3, <1>4, <1>5, <1>6, <1>9, <2>1, <2>3, <2>7 DEF WatchInv
    <3>2. PhaseInv'
      <4>1. LET c == AlignStart(g, w)
            IN  c.anchor * MuxRate - c.from * PacketTicks - Latency * MuxRate - DelayAt(w.soonest)
                  \in -(MuxRate - 1) .. MuxRate - 1
        BY <1>4, <1>9, <2>2, <2>7, AlignPhase
      <4>2. clock'.anchor * MuxRate - clock'.from * PacketTicks - Latency * MuxRate - DelayAt(align'.soonest)
              \in -(MuxRate - 1) .. MuxRate - 1
        BY <1>2, <2>4, <4>1
      <4>3. QED
        BY <4>2 DEF PhaseInv, DelayAt
    <3>3. QED
      BY <3>1, <3>2
  <2>8. QED
    BY <2>5, <2>6, <2>7
<1>10. QED
  BY <1>7, <1>8, <1>9

LEMMA TimingStep == LegType /\ NumberInv /\ WatchInv /\ PhaseInv /\ [Next]_vars => WatchInv' /\ PhaseInv'
<1> SUFFICES ASSUME LegType, NumberInv, WatchInv, PhaseInv, [Next]_vars
             PROVE  WatchInv' /\ PhaseInv'
  OBVIOUS
<1>0. /\ now \in Int /\ align \in Watches /\ clock \in Clocks /\ count \in Counts /\ count.begun \in {0, 1}
      /\ GridInv(grid) /\ grid \in Grids /\ source \in Sources /\ leg.align \in Nat \cup {None}
      /\ Edged(grid) /\ Caught(align, grid.nextFree)
  BY DEF LegType, WatchInv, Counts, GridInv
<1>1. CASE Deliver
  <2>1. ~source.closing /\ UNCHANGED <<now, setting, count>>
    BY <1>1 DEF Deliver, Polling
  <2>2. QED
    BY <1>1, <2>1, SendingType, EnqueueTimed DEF Deliver
<1>2. CASE Lose
  BY <1>2 DEF Lose, setting, WatchInv, PhaseInv
<1>3. CASE Silent
  <2>1. UNCHANGED <<now, setting, grid, align, count>>
    BY <1>3 DEF Silent
  <2>2. source' \in Sources /\ source'.closing = source.closing
    BY <1>0, <1>3 DEF Silent, Sources
  <2>3. leg.align # None => clock' = clock
    BY <1>3 DEF Silent
  <2>4. WatchInv'
    BY <1>0, <2>1, <2>2, <2>3 DEF WatchInv, setting
  <2>5. PhaseInv'
    BY <2>1, <2>3 DEF PhaseInv, setting
  <2>6. QED
    BY <2>4, <2>5
<1>4. CASE End
  <2>1. UNCHANGED <<now, setting, count>> /\ grid' = FlushGrid(grid)
    BY <1>4 DEF End
  <2>2. source' \in Sources /\ source'.closing = TRUE
    BY <1>0, <1>4 DEF End, Sources
  <2>3. clock.anchor # None => clock' = clock /\ align' = align
    BY <1>4 DEF End
  <2>4. clock.anchor = None => align' = [align EXCEPT !.fastest = None]
    BY <1>4 DEF End
  <2>5. Edged(grid') /\ grid'.nextFree = grid.nextFree
    BY <1>0, <2>1, TakeEdged
  <2>6. align'.gain = align.gain /\ Caught(align', grid'.nextFree)
    BY <1>0, <2>3, <2>4, <2>5 DEF Caught, Watches
  <2>7. WatchInv'
    BY <1>0, <2>1, <2>2, <2>5, <2>6 DEF WatchInv, setting
  <2>8. PhaseInv'
    <3>1. CASE clock.anchor # None
      BY <2>1, <2>3, <3>1 DEF PhaseInv, setting
    <3>2. CASE clock.anchor = None
      <4>1. align'.fastest = None
        BY <1>0, <2>4, <3>2 DEF Watches
      <4>2. QED
        BY <4>1 DEF PhaseInv
    <3>3. QED
      BY <3>1, <3>2
  <2>9. QED
    BY <2>7, <2>8
<1>5. CASE MuteSlot
  <2>1. UNCHANGED <<now, setting, grid, align, count>>
    BY <1>5 DEF MuteSlot
  <2>2. source' \in Sources /\ source'.closing = source.closing
    BY <1>0, <1>5 DEF MuteSlot, Sources, Outcome
  <2>3. clock'.anchor = clock.anchor /\ clock'.from = clock.from
    BY <1>0, <1>5 DEF MuteSlot, Clocks
  <2>4. WatchInv'
    BY <1>0, <2>1, <2>2, <2>3 DEF WatchInv, setting
  <2>5. PhaseInv'
    BY <2>1, <2>3 DEF PhaseInv, setting
  <2>6. QED
    BY <2>4, <2>5
<1>6. CASE OpenDatagram
  <2>1. /\ UNCHANGED <<now, setting, grid>> /\ clock' = CaughtUp
        /\ align' = IF CatchesUp THEN [align EXCEPT !.fastest = None] ELSE align
    BY <1>6 DEF OpenDatagram
  <2>2. count'.begun = 1
    BY <1>0, <1>6 DEF OpenDatagram, Counts
  <2>3. source' \in Sources
    BY <1>0, <1>6, ReadingType DEF OpenDatagram, Sources
  <2>4. Caught(align', grid'.nextFree)
    BY <1>0, <2>1 DEF Caught, Watches
  <2>5. WatchInv'
    BY <1>0, <2>1, <2>2, <2>3, <2>4 DEF WatchInv, setting
  <2>6. PhaseInv'
    <3>1. CASE CatchesUp
      <4>1. align'.fastest = None
        BY <1>0, <2>1, <3>1 DEF Watches
      <4>2. QED
        BY <4>1 DEF PhaseInv
    <3>2. CASE ~CatchesUp
      <4>1. clock' = clock /\ align' = align
        BY <2>1, <3>2 DEF CaughtUp
      <4>2. QED
        BY <2>1, <4>1 DEF PhaseInv, setting
    <3>3. QED
      BY <3>1, <3>2
  <2>7. QED
    BY <2>5, <2>6
<1>7. CASE EmitSlot
  <2>1. UNCHANGED <<now, setting, align>> /\ grid' = TakeGrid(grid, clock.slot)
    BY <1>7 DEF EmitSlot
  <2>2. count'.begun = 1
    <3>1. count.begun = 1
      BY <1>7 DEF EmitSlot, NumberInv
    <3>2. QED
      BY <1>7, <3>1, EmitKeeps
  <2>3. source' \in Sources
    BY <1>0, <1>7 DEF EmitSlot, Sources, Outcome
  <2>4. clock'.anchor = clock.anchor /\ clock'.from = clock.from
    BY <1>0, <1>7 DEF EmitSlot, Clocks
  <2>5. Edged(grid') /\ grid'.nextFree = grid.nextFree
    BY <1>0, <2>1, TakeEdged
  <2>6. WatchInv'
    BY <1>0, <2>1, <2>2, <2>3, <2>5 DEF WatchInv, setting
  <2>7. PhaseInv'
    BY <2>1, <2>4 DEF PhaseInv, setting
  <2>8. QED
    BY <2>6, <2>7
<1>8. CASE Finish
  <2>1. UNCHANGED <<now, setting, clock, grid, align, count>>
    BY <1>8 DEF Finish
  <2>2. source' \in Sources /\ source'.closing = source.closing
    BY <1>0, <1>8 DEF Finish, Sources
  <2>3. WatchInv'
    BY <1>0, <2>1, <2>2 DEF WatchInv, setting
  <2>4. PhaseInv'
    BY <2>1 DEF PhaseInv, setting
  <2>5. QED
    BY <2>3, <2>4
<1>9. CASE Tick
  <2>1. UNCHANGED <<setting, clock, grid, align, source, count>> /\ now' = now + 1
    BY <1>9 DEF Tick
  <2>2. align.since # None /\ leg.align # None =>
          (now - align.since >= leg.align => now' - align.since >= leg.align)
    BY <1>0, <2>1 DEF Watches
  <2>3. WatchInv'
    BY <1>0, <2>1, <2>2 DEF WatchInv, setting
  <2>4. PhaseInv'
    BY <2>1 DEF PhaseInv, setting
  <2>5. QED
    BY <2>3, <2>4
<1>10. CASE UNCHANGED vars
  BY <1>10 DEF vars, setting, WatchInv, PhaseInv
<1>11. QED
  BY <1>1, <1>2, <1>3, <1>4, <1>5, <1>6, <1>7, <1>8, <1>9, <1>10 DEF Next

LEMMA InitTiming == Init => NumberInv /\ WatchInv /\ PhaseInv
<1> SUFFICES ASSUME Init PROVE NumberInv /\ WatchInv /\ PhaseInv
  OBVIOUS
<1>1. NumberInv
  BY DEF Init, NumberInv
<1>2. leg.align \in Nat \cup {None}
  <2>1. feed \in DOMAIN Legs /\ leg \in Legs[feed]
    BY StreamLegAssumption DEF Init, StreamLegAssumption
  <2>2. leg \in [stall : {"mute", "continue"}, position : {"report", "fail"}, align : Nat \cup {None}]
    BY <2>1, StreamLegAssumption DEF StreamLegAssumption
  <2>3. QED
    BY <2>2
<1>3. source \in Sources /\ Caught(align, grid.nextFree) /\ Edged(grid)
  BY DEF Init, Sources, Caught, Edged, HasContent, NewGrid
<1>4. WatchInv
  BY <1>2, <1>3 DEF Init, WatchInv
<1>5. PhaseInv
  BY DEF Init, PhaseInv
<1>6. QED
  BY <1>1, <1>4, <1>5

(* An aligned leg is in phase with the fastest delivery its path made, for   *)
(* every path and every length of watch: what it started on, what it saw     *)
(* since and what rounding to slots costs account for all of the difference. *)
THEOREM AlwaysInPhase == Spec => []InPhase
<1>1. LegType /\ WatchInv /\ PhaseInv => InPhase
  <2> SUFFICES ASSUME LegType, WatchInv, PhaseInv,
                      leg.align # None, clock.anchor # None, align.fastest # None
               PROVE  clock.anchor * MuxRate - clock.from * PacketTicks - Latency * MuxRate
                        - align.fastest - align.gain * MuxRate \in -(2 * MuxRate) .. 2 * MuxRate
    BY DEF InPhase
  <2> DEFINE phase == clock.anchor * MuxRate - clock.from * PacketTicks - Latency * MuxRate
             delay == DelayAt(align.soonest)
             f     == align.fastest
             gain  == align.gain * MuxRate
  <2>1. /\ MuxRate \in Nat \ {0} /\ PacketTicks \in Nat \ {0} /\ clock.anchor \in Int /\ clock.from \in Int
        /\ Latency \in Nat /\ f \in Int /\ align.gain \in Nat /\ align.soonest \in Arrivals
    BY LegNumbers DEF LegType, Clocks, Watches, WatchInv, Caught
  <2>2. phase \in Int /\ gain \in Int /\ delay \in Int
    <3>1. /\ clock.anchor * MuxRate \in Int /\ clock.from * PacketTicks \in Int
          /\ Latency * MuxRate \in Int /\ align.gain * MuxRate \in Int
      BY <2>1, Distributes
    <3>2. align.soonest.at * MuxRate \in Int /\ align.soonest.slot * PacketTicks \in Int
      BY <2>1, Distributes DEF Arrivals
    <3>3. QED
      BY <3>1, <3>2 DEF DelayAt
  <2>3. phase - delay \in -(MuxRate - 1) .. MuxRate - 1
    BY DEF PhaseInv
  <2>4. delay - f - gain \in 0 .. MuxRate - 1
    BY DEF WatchInv, Caught
  <2> HIDE DEF phase, delay, f, gain
  <2>5. phase - f - gain \in -(2 * MuxRate) .. 2 * MuxRate
    BY <2>1, <2>2, <2>3, <2>4
  <2>6. QED
    BY <2>5 DEF phase, f, gain
<1>2. QED
  BY <1>1, InitLeg, InitTiming, TypeStep, NumberStep, TimingStep, PTL DEF Spec
-----------------------------------------------------------------------------
(* A leg only sends where it is in phase and knows its numbers, and within a *)
(* stretch the emitter's last PCR is the wire's.                             *)
StretchInv ==
  /\ datagram # None /\ datagram.send =>
       emitter.phased /\ datagram.next = clock.slot /\ ~datagram.stalled /\ grid.open # None
  /\ wire # None /\ wire.last # None =>
       /\ wire.last.slot \in Int /\ wire.slot - wire.last.slot \in 0 .. PcrMaxPackets - 1
       /\ wire.slot + 1 = clock.slot =>
            emitter.last = wire.last.slot /\ wire.last.pcr = PcrOn(wire.last.slot, emitter.base)

LEMMA PcrsAreNumbers ==
  ASSUME NEW slot \in Int, NEW offset \in Int
  PROVE  PcrOn(slot, offset) \in Nat /\ PcrOn(slot, offset) # None
<1>1. Greatest(slot - offset, 0) \in Int
  BY DEF Greatest
<1>2. TicksOf(Greatest(slot - offset, 0)) \in Int
  BY <1>1, SlotsAreNumbers
<1> DEFINE t == TicksOf(Greatest(slot - offset, 0))
<1> HIDE DEF t
<1>3. t % PcrWrap \in Nat
  BY <1>2, LegNumbers DEF t
<1>4. PcrOn(slot, offset) = t % PcrWrap
  BY DEF PcrOn, PcrOfSlot, t
<1>5. QED
  BY <1>3, <1>4, LegNumbers

(* What a slot says of time: a PCR on the base the emitter then keeps, or    *)
(* none, the emitter's last PCR being less than the limit away.              *)
Says(e, f, slot, carried) ==
  \/ /\ carried.pcr # None /\ carried.pcr = PcrOn(slot, f.base) /\ f.last = slot
  \/ /\ carried.pcr = None /\ f.last = e.last /\ f.base = e.base
     /\ e.last # None => ~(slot - e.last >= PcrMaxPackets)

LEMMA SlotSays ==
  ASSUME NEW g, GridInv(g), NEW e \in Emitters, NEW slot \in Int, NEW determined \in BOOLEAN,
         e.phased, g.open # None
  PROVE  LET f == AfterSlot(g, e, slot, FALSE, determined)
         IN  Says(e, f, slot, Carried(g, e, slot, FALSE)) /\ f.phased
<1> DEFINE queue == QueueAt(g, e, slot)
           q == Head(queue)
           f == AfterSlot(g, e, slot, FALSE, determined)
           carried == Carried(g, e, slot, FALSE)
<1>1. queue \in Seq(Admissions) /\ e.base \in Int
  BY QueueType DEF Emitters
<1>2. queue # <<>> => q \in Admissions
  BY <1>1, HeadTailProperties
<1>3. CASE Reinserts(g, e, slot, FALSE)
  <2>1. f = [e EXCEPT !.deferred = queue, !.last = slot] /\ carried.pcr = PcrOn(slot, e.base)
    BY <1>3 DEF AfterSlot, Carried
  <2> HIDE DEF queue, f, carried
  <2>2. f.base = e.base /\ f.last = slot /\ f.phased
    BY <2>1 DEF Emitters
  <2>3. QED
    BY <1>1, <2>1, <2>2, PcrsAreNumbers DEF Says, f, carried
<1>4. CASE ~Reinserts(g, e, slot, FALSE) /\ queue # <<>> /\ HasPcr(q.packet)
  <2>1. /\ carried.pcr = PcrOn(slot, q.offset) /\ f.last = slot /\ f.base = q.offset /\ f.phased
    BY <1>4 DEF AfterSlot, Carried
  <2>2. q.offset \in Int
    BY <1>2, <1>4 DEF Admissions
  <2> HIDE DEF q, f, carried
  <2>3. QED
    BY <2>1, <2>2, PcrsAreNumbers DEF Says, f, carried
<1>5. CASE ~Reinserts(g, e, slot, FALSE) /\ ~(queue # <<>> /\ HasPcr(q.packet))
  <2>1. e.last # None => ~(slot - e.last >= PcrMaxPackets)
    BY <1>5 DEF Reinserts
  <2>2. carried.pcr = None
    BY <1>5 DEF Carried
  <2>3. f = e \/ f = [e EXCEPT !.deferred = Tail(queue)]
    BY <1>5 DEF AfterSlot
  <2> HIDE DEF queue, f, carried
  <2>4. f.last = e.last /\ f.base = e.base /\ f.phased
    BY <2>3 DEF Emitters
  <2>5. QED
    BY <2>1, <2>2, <2>4 DEF Says, f, carried
<1>6. QED
  BY <1>3, <1>4, <1>5

LEMMA StretchStep == LegType /\ NumberInv /\ StretchInv /\ [Next]_vars => StretchInv'
<1> SUFFICES ASSUME LegType, NumberInv, StretchInv, [Next]_vars PROVE StretchInv'
  OBVIOUS
<1>0. /\ clock \in Clocks /\ clock.slot \in Int /\ emitter \in Emitters /\ count \in Counts
      /\ datagram \in Datagrams \cup {None} /\ GridInv(grid) /\ grid \in Grids
      /\ PcrMaxPackets \in Nat \ {0} /\ PacketsPerDatagram \in Nat \ {0}
  BY StreamLegAssumption DEF StreamLegAssumption, LegType, Clocks, GridInv
<1>1. CASE Deliver
  <2>1. datagram = None /\ UNCHANGED <<emitter, datagram, wire>>
    BY <1>1 DEF Deliver, Polling, Idle
  <2>2. wire # None => clock' = clock
    BY <1>1, SendingType, EnqueueKeeps DEF Deliver, NumberInv
  <2>3. QED
    BY <2>1, <2>2 DEF StretchInv
<1>2. CASE Silent \/ End
  <2>1. datagram = None /\ clock'.slot = clock.slot /\ UNCHANGED <<emitter, datagram, wire>>
    BY <1>0, <1>2 DEF Silent, End, Polling, Idle, Clocks
  <2>2. QED
    BY <2>1 DEF StretchInv
<1>3. CASE MuteSlot
  <2>1. /\ datagram = None /\ UNCHANGED <<datagram, wire>>
        /\ clock'.slot = clock.slot + PacketsPerDatagram
    BY <1>0, <1>3 DEF MuteSlot, Due, Idle, Clocks
  <2>2. wire # None => wire.slot \in Int /\ wire.slot + 1 # clock'.slot
    BY <1>0, <2>1 DEF NumberInv
  <2>3. QED
    BY <2>1, <2>2 DEF StretchInv
<1>4. CASE OpenDatagram
  <2> DEFINE determined == ~Stalled /\ Determined(grid, CaughtUp.slot, CaughtUp.slot + PacketsPerDatagram)
             phased == emitter.phased /\ ~CatchesUp /\ determined
             deferred == IF CatchesUp THEN <<>> ELSE emitter.deferred
  <2>1. /\ datagram = None /\ UNCHANGED <<grid, wire>> /\ clock' = CaughtUp
        /\ emitter' = [emitter EXCEPT !.deferred = deferred, !.phased = phased]
        /\ datagram' = [left |-> PacketsPerDatagram, next |-> clock.slot, stalled |-> Stalled,
                        determined |-> determined, send |-> phased]
    BY <1>4 DEF OpenDatagram, Due, Idle
  <2>2. determined => ~Stalled /\ grid.open # None
    BY DEF Determined
  <2>3. ~CatchesUp => clock' = clock
    BY <2>1 DEF CaughtUp
  <2>4. clock'.slot \in Int /\ clock'.slot >= clock.slot /\ (CatchesUp => clock'.slot > clock.slot)
    BY <1>0, <2>1, CatchUpType DEF CaughtUp, CatchesUp, Clocks
  <2> HIDE DEF determined, deferred
  <2>5. /\ emitter'.phased = phased /\ emitter'.last = emitter.last /\ emitter'.base = emitter.base
        /\ datagram'.send = phased /\ datagram'.next = clock.slot /\ datagram'.stalled = Stalled
    BY <1>0, <2>1 DEF Emitters
  <2>6. datagram'.send =>
          emitter'.phased /\ datagram'.next = clock'.slot /\ ~datagram'.stalled /\ grid'.open # None
    BY <2>1, <2>2, <2>3, <2>5
  <2>7. wire # None => wire.slot \in Int /\ wire.slot < clock.slot
    BY <2>1 DEF NumberInv
  <2>8. wire # None /\ wire.slot + 1 = clock'.slot => ~CatchesUp
    BY <1>0, <2>4, <2>7
  <2>9. QED
    BY <2>1, <2>3, <2>5, <2>6, <2>8 DEF StretchInv
<1>5. CASE EmitSlot
  <2> DEFINE slot == clock.slot
             carried == Carried(grid, emitter, slot, datagram.stalled)
  <2>1. /\ datagram \in Datagrams /\ datagram # None /\ datagram.determined \in BOOLEAN
        /\ datagram.stalled \in BOOLEAN /\ datagram.send \in BOOLEAN /\ datagram.next \in Int
        /\ datagram.next <= slot
    BY <1>0, <1>5 DEF EmitSlot, Datagrams, NumberInv
  <2>2. /\ clock'.slot = slot + 1
        /\ emitter' = AfterSlot(grid, emitter, slot, datagram.stalled, datagram.determined)
        /\ grid' = TakeGrid(grid, slot)
    BY <1>0, <1>5 DEF EmitSlot, Clocks
  <2>3. grid'.open = grid.open
    BY <1>0, <2>2 DEF TakeGrid, Grids
  <2>4. CASE ~datagram.send
    <3>1. wire' = wire
      BY <1>5, <2>4 DEF EmitSlot
    <3>2. datagram' # None => datagram'.send = datagram.send
      BY <1>5, <2>1 DEF EmitSlot, Datagrams
    <3>3. wire # None => wire.slot \in Int /\ wire.slot + 1 # clock'.slot
      BY <1>0, <2>1, <2>2 DEF NumberInv
    <3>4. QED
      BY <2>4, <3>1, <3>2, <3>3 DEF StretchInv
  <2>5. CASE datagram.send
    <3>1. emitter.phased /\ datagram.next = slot /\ datagram.stalled = FALSE /\ grid.open # None
      BY <2>1, <2>5 DEF StretchInv
    <3>2. Says(emitter, emitter', slot, carried) /\ emitter'.phased
      <4>1. /\ Says(emitter, AfterSlot(grid, emitter, slot, FALSE, datagram.determined), slot,
                    Carried(grid, emitter, slot, FALSE))
            /\ AfterSlot(grid, emitter, slot, FALSE, datagram.determined).phased
        BY <1>0, <2>1, <3>1, SlotSays
      <4>2. QED
        BY <2>2, <3>1, <4>1
    <3>3. wire' = Sends(slot, carried)
      BY <1>5, <2>5, <3>1 DEF EmitSlot
    <3> HIDE DEF slot, carried
    <3>4. wire'.slot = slot /\ slot \in Int
      BY <1>0, <3>3 DEF Sends, slot
    <3>5. datagram' # None =>
            /\ datagram'.send => emitter'.phased /\ datagram'.next = clock'.slot
                                 /\ ~datagram'.stalled /\ grid'.open # None
      <4>1. datagram' # None => datagram'.next = datagram.next + 1 /\ datagram'.stalled = datagram.stalled
        BY <1>5, <2>1 DEF EmitSlot, Datagrams
      <4>2. QED
        BY <2>2, <2>3, <3>1, <3>2, <4>1 DEF slot
    <3>6. wire'.last # None =>
            /\ wire'.last.slot \in Int /\ wire'.slot - wire'.last.slot \in 0 .. PcrMaxPackets - 1
            /\ emitter'.last = wire'.last.slot /\ wire'.last.pcr = PcrOn(wire'.last.slot, emitter'.base)
      <4>1. CASE carried.pcr # None
        <5>1. wire'.last = [slot |-> slot, pcr |-> carried.pcr]
          BY <3>3, <4>1 DEF Sends
        <5>2. wire'.last.slot = slot /\ wire'.last.pcr = carried.pcr
          BY <5>1
        <5>3. carried.pcr = PcrOn(slot, emitter'.base) /\ emitter'.last = slot
          BY <3>2, <4>1 DEF Says
        <5>4. QED
          BY <1>0, <3>4, <5>2, <5>3
      <4>2. CASE carried.pcr = None
        <5>1. wire'.last = IF wire # None /\ wire.slot + 1 = slot THEN wire.last ELSE None
          BY <3>3, <4>2 DEF Sends
        <5>2. /\ emitter'.last = emitter.last /\ emitter'.base = emitter.base
              /\ emitter.last # None => ~(slot - emitter.last >= PcrMaxPackets)
          BY <3>2, <4>2 DEF Says
        <5>3. ASSUME wire'.last # None
              PROVE  /\ wire # None /\ wire.slot + 1 = slot /\ wire'.last = wire.last
                     /\ wire.last.slot \in Int /\ wire.slot - wire.last.slot \in 0 .. PcrMaxPackets - 1
                     /\ emitter.last = wire.last.slot /\ wire.last.pcr = PcrOn(wire.last.slot, emitter.base)
          <6>1. wire # None /\ wire.slot + 1 = slot /\ wire'.last = wire.last
            BY <5>1, <5>3
          <6>2. QED
            BY <5>3, <6>1 DEF StretchInv, slot
        <5>4. ASSUME wire'.last # None
              PROVE  slot - wire.last.slot \in 0 .. PcrMaxPackets - 1
          <6>1. emitter.last # None /\ ~(slot - wire.last.slot >= PcrMaxPackets)
            BY <5>2, <5>3, <5>4, LegNumbers
          <6>2. wire.slot \in Int
            BY <5>3, <5>4 DEF NumberInv
          <6>3. QED
            BY <1>0, <3>4, <5>3, <5>4, <6>1, <6>2
        <5>5. QED
          BY <3>4, <5>2, <5>3, <5>4
      <4>3. QED
        BY <4>1, <4>2
    <3>7. QED
      BY <3>5, <3>6 DEF StretchInv
  <2>6. QED
    BY <2>1, <2>4, <2>5
<1>6. CASE Lose \/ Finish \/ Tick \/ UNCHANGED vars
  <2>1. UNCHANGED <<clock, grid, emitter, datagram, wire>>
    BY <1>6 DEF Lose, Finish, Tick, vars
  <2>2. QED
    BY <2>1 DEF StretchInv
<1>7. QED
  BY <1>1, <1>2, <1>3, <1>4, <1>5, <1>6 DEF Next

LEMMA InitStretch == Init => StretchInv
  BY DEF Init, StretchInv

(* Within a stretch on the air a PCR is never further away than the          *)
(* repetition limit: no queue of content, catch-up, splice or muted slot in  *)
(* between keeps one from being re-inserted in time.                         *)
THEOREM PcrsRepeated == Spec => []PcrRepeated
<1>1. StretchInv /\ NumberInv => PcrRepeated
  <2> SUFFICES ASSUME StretchInv, NumberInv, wire # None, wire.last # None
               PROVE  wire.slot - wire.last.slot < PcrMaxPackets
    BY DEF PcrRepeated
  <2>1. wire.slot - wire.last.slot \in 0 .. PcrMaxPackets - 1 /\ PcrMaxPackets \in Nat \ {0}
    BY StreamLegAssumption DEF StretchInv, StreamLegAssumption
  <2>2. QED
    BY <2>1
<1>2. QED
  BY <1>1, InitLeg, InitTiming, InitStretch, TypeStep, NumberStep, StretchStep, PTL DEF Spec
-----------------------------------------------------------------------------
(* A set of numbers that is not empty has a least one; what is counted from  *)
(* the front is what comes first.                                            *)
LEMMA LeastNumber ==
  ASSUME NEW T \in SUBSET Nat, T # {}
  PROVE  \E m \in T : \A n \in T : m <= n
<1> DEFINE R == OpToRel(<, Nat)
<1>1. IsWellFoundedOn(R, Nat)
  BY NatLessThanWellFounded
<1>2. \A x, y \in Nat : <<y, x>> \in R <=> y < x
  BY DEF OpToRel
<1> HIDE DEF R
<1>3. PICK x \in T : \A y \in T : ~ (<<y, x>> \in R)
  BY <1>1, WFMin
<1>4. ASSUME NEW y \in T PROVE x <= y
  <2>1. x \in Nat /\ y \in Nat
    OBVIOUS
  <2>2. ~(y < x)
    BY <1>2, <1>3, <2>1
  <2>3. QED
    BY <2>1, <2>2
<1>5. QED
  BY <1>4

LEMMA Prefix ==
  ASSUME NEW size \in Nat, NEW T \in SUBSET (1 .. size),
         \A i \in T : \A j \in 1 .. size : j < i => j \in T
  PROVE  Cardinality(T) \in 0 .. size /\ T = 1 .. Cardinality(T)
<1> DEFINE C == {i \in 1 .. size + 1 : i \notin T}
<1>1. size + 1 \in C
  OBVIOUS
<1>2. PICK m \in C : \A n \in C : m <= n
  <2>1. C \in SUBSET Nat /\ C # {}
    BY <1>1
  <2> HIDE DEF C
  <2>2. QED
    BY <2>1, LeastNumber
<1>3. m \in 1 .. size + 1 /\ m \notin T
  BY <1>2
<1>4. T = 1 .. m - 1
  <2>1. ASSUME NEW i \in 1 .. m - 1 PROVE i \in T
    <3>1. i \in 1 .. size + 1 /\ ~(m <= i)
      BY <1>3
    <3>2. QED
      BY <1>2, <3>1
  <2>2. ASSUME NEW i \in T PROVE i \in 1 .. m - 1
    <3>1. i \in 1 .. size /\ i # m
      BY <1>3
    <3>2. m < i => m \in T
      BY <1>3, <3>1
    <3>3. QED
      BY <1>3, <3>1, <3>2
  <2>3. QED
    BY <2>1, <2>2
<1>5. Cardinality(1 .. m - 1) = m - 1
  <2>1. Cardinality(1 .. m - 1) = IF 1 > m - 1 THEN 0 ELSE m - 1 - 1 + 1
    <3>1. 1 \in Int /\ m - 1 \in Int
      BY <1>3
    <3>2. QED
      BY <3>1, FS_Interval
  <2>2. QED
    BY <1>3, <2>1
<1>6. QED
  BY <1>3, <1>4, <1>5

(* What a slot passes comes first, and the time bases that are over with it. *)
Passes(g, h, slot) ==
  LET n == PassedAt(g, slot)
      u == BasesUsed(g, slot)
  IN  /\ n \in 0 .. Len(g.placed) /\ \A i \in 1 .. Len(g.placed) : g.placed[i].slot <= slot <=> i <= n
      /\ u \in 0 .. Len(g.bases) /\ (n = 0 => u = 0)
      /\ n > 0 => \A j \in 1 .. Len(g.bases) : g.bases[j].slot <= g.placed[n].slot <=> j <= u
      /\ Len(h.placed) = Len(g.placed) - n
      /\ \A i \in 1 .. Len(h.placed) : h.placed[i] = g.placed[n + i]
      /\ Len(h.bases) = Len(g.bases) - u
      /\ \A j \in 1 .. Len(h.bases) : h.bases[j] = g.bases[u + j]
      /\ h.takenBase = IF u = 0 THEN g.takenBase ELSE g.bases[u].offset

LEMMA TakePasses ==
  ASSUME NEW g, GridInv(g), NEW slot \in Int
  PROVE  LET h == TakeGrid(g, slot)
         IN  /\ Passes(g, h, slot) /\ h.run = g.run /\ h.open = g.open /\ h.epoch = g.epoch
             /\ h.rebased = g.rebased /\ h.openBase = g.openBase /\ h.nextFree = g.nextFree
             /\ h.shed = g.shed
<1> DEFINE n == PassedAt(g, slot)
           u == BasesUsed(g, slot)
           placed == SubSeq(g.placed, n + 1, Len(g.placed))
           bases  == SubSeq(g.bases, u + 1, Len(g.bases))
           over   == {i \in 1 .. Len(g.placed) : g.placed[i].slot <= slot}
           used   == {i \in 1 .. Len(g.bases) : n > 0 /\ g.bases[i].slot <= g.placed[n].slot}
           h == TakeGrid(g, slot)
<1>1. /\ g \in Grids /\ g.placed \in Seq(Places) /\ Len(g.placed) \in Nat
      /\ g.bases \in Seq(Bases) /\ Len(g.bases) \in Nat
      /\ Rising(g.placed) /\ Rising(g.bases)
  BY LenProperties DEF GridInv, Grids, PlacedInOrder, BasesInOrder
<1>2. /\ \A i \in 1 .. Len(g.placed) : g.placed[i].slot \in Int
      /\ \A i \in 1 .. Len(g.bases) : g.bases[i].slot \in Int
  <2>1. /\ \A i \in 1 .. Len(g.placed) : g.placed[i] \in Places
        /\ \A i \in 1 .. Len(g.bases) : g.bases[i] \in Bases
    BY <1>1, ElementOfSeq
  <2>2. QED
    BY <2>1 DEF Places, Bases
<1>3. h = [g EXCEPT !.placed = placed, !.bases = bases,
                    !.takenBase = IF u = 0 THEN g.takenBase ELSE g.bases[u].offset]
  BY DEF TakeGrid
<1>4. n = Cardinality(over) /\ u = Cardinality(used)
  BY DEF PassedAt, BasesUsed
<1> HIDE DEF n, u, placed, bases, h
<1>5. n \in 0 .. Len(g.placed) /\ over = 1 .. n
  <2>1. ASSUME NEW i \in over, NEW j \in 1 .. Len(g.placed), j < i PROVE j \in over
    BY <1>1, <1>2, <2>1 DEF Rising
  <2> DEFINE size == Len(g.placed)
             T == over
  <2>2. size \in Nat /\ T \in SUBSET (1 .. size) /\ \A i \in T : \A j \in 1 .. size : j < i => j \in T
    BY <1>1, <2>1
  <2> HIDE DEF T, size
  <2>3. Cardinality(T) \in 0 .. size /\ T = 1 .. Cardinality(T)
    BY <2>2, Prefix
  <2>4. QED
    BY <1>4, <2>3 DEF T, size
<1>6. u \in 0 .. Len(g.bases) /\ used = 1 .. u
  <2>1. ASSUME NEW i \in used, NEW j \in 1 .. Len(g.bases), j < i PROVE j \in used
    <3>1. n \in 1 .. Len(g.placed) /\ g.placed[n].slot \in Int
      BY <1>1, <1>2, <1>5
    <3>2. g.bases[j].slot < g.bases[i].slot
      BY <2>1, <1>1 DEF Rising
    <3>3. QED
      BY <1>2, <3>1, <3>2, SMTT(30)
  <2> DEFINE size == Len(g.bases)
             T == used
  <2>2. size \in Nat /\ T \in SUBSET (1 .. size) /\ \A i \in T : \A j \in 1 .. size : j < i => j \in T
    BY <1>1, <2>1
  <2> HIDE DEF T, size
  <2>3. Cardinality(T) \in 0 .. size /\ T = 1 .. Cardinality(T)
    BY <2>2, Prefix
  <2>4. QED
    BY <1>4, <2>3 DEF T, size
<1>7. \A i \in 1 .. Len(g.placed) : g.placed[i].slot <= slot <=> i <= n
  <2>1. \A i \in 1 .. Len(g.placed) : g.placed[i].slot <= slot <=> i \in over
    OBVIOUS
  <2> HIDE DEF over
  <2>2. QED
    BY <1>1, <1>5, <2>1
<1>8. n > 0 => \A j \in 1 .. Len(g.bases) : g.bases[j].slot <= g.placed[n].slot <=> j <= u
  <2>1. n > 0 => \A j \in 1 .. Len(g.bases) : g.bases[j].slot <= g.placed[n].slot <=> j \in used
    OBVIOUS
  <2> HIDE DEF used
  <2>2. QED
    BY <1>1, <1>6, <2>1
<1>9. n = 0 => u = 0
  <2>1. n = 0 => used = {}
    OBVIOUS
  <2> HIDE DEF used
  <2>2. QED
    BY <1>6, <2>1
<1>10. /\ Len(placed) = Len(g.placed) - n /\ \A i \in 1 .. Len(placed) : placed[i] = g.placed[n + i]
       /\ placed \in Seq(Places)
  <2>1. \A e \in Places : e.slot \in Int
    BY DEF Places
  <2>2. QED
    BY <1>1, <1>5, <2>1, DropKeeps DEF placed
<1>11. /\ Len(bases) = Len(g.bases) - u /\ \A i \in 1 .. Len(bases) : bases[i] = g.bases[u + i]
       /\ bases \in Seq(Bases)
  <2>1. \A e \in Bases : e.slot \in Int
    BY DEF Bases
  <2>2. QED
    BY <1>1, <1>6, <2>1, DropKeeps DEF bases
<1>12. /\ h.placed = placed /\ h.bases = bases /\ h.run = g.run /\ h.open = g.open
       /\ h.takenBase = (IF u = 0 THEN g.takenBase ELSE g.bases[u].offset)
       /\ h.epoch = g.epoch /\ h.rebased = g.rebased /\ h.openBase = g.openBase
       /\ h.nextFree = g.nextFree /\ h.shed = g.shed
  <2> DEFINE taken == IF u = 0 THEN g.takenBase ELSE g.bases[u].offset
  <2>1. h = [g EXCEPT !.placed = placed, !.bases = bases, !.takenBase = taken]
    BY <1>3
  <2> HIDE DEF taken
  <2>2. /\ h.placed = placed /\ h.bases = bases /\ h.run = g.run /\ h.open = g.open
        /\ h.takenBase = taken
        /\ h.epoch = g.epoch /\ h.rebased = g.rebased /\ h.openBase = g.openBase
        /\ h.nextFree = g.nextFree /\ h.shed = g.shed
    BY <1>1, <2>1 DEF Grids
  <2>3. QED
    BY <2>2 DEF taken
<1>13. Passes(g, h, slot)
  BY <1>5, <1>6, <1>7, <1>8, <1>9, <1>10, <1>11, <1>12 DEF Passes, n, u
<1>14. QED
  BY <1>12, <1>13 DEF h
-----------------------------------------------------------------------------
(* The time bases of a grid: what splices moved is part of the epoch, the    *)
(* open run starts with its PCR and behind its base, and so does whatever is *)
(* placed.                                                                   *)
StampedGrid(g) ==
  /\ g.rebased <= g.epoch
  /\ g.open # None =>
       /\ g.open.slot >= 0 /\ g.openBase <= g.open.slot
       /\ SlotOfPcr(g.open.pcr) <= SlotsPerWrap
       /\ g.open.slot = Greatest(SlotOfPcr(g.open.pcr) + g.epoch, 0)
  /\ g.run # <<>> => HasPcr(g.run[1])
  /\ g.takenBase <= g.nextFree
  /\ \A i \in 1 .. Len(g.placed) : g.takenBase <= g.placed[i].slot

(* A change of time base is recorded at a PCR packet that is placed. *)
MarkedGrid(g) ==
  \A j \in 1 .. Len(g.bases) :
    /\ g.bases[j].offset <= g.bases[j].slot
    /\ \E i \in 1 .. Len(g.placed) : g.placed[i].slot = g.bases[j].slot /\ HasPcr(g.placed[i].packet)

LEMMA PlacesType ==
  ASSUME NEW g, GridInv(g)
  PROVE  /\ g \in Grids /\ Len(g.placed) \in Nat /\ Len(g.bases) \in Nat
         /\ \A i \in 1 .. Len(g.placed) : /\ g.placed[i] \in Places /\ g.placed[i].slot \in Int
                                          /\ g.placed[i].packet \in Packets
                                          /\ g.placed[i].slot < g.nextFree
         /\ \A j \in 1 .. Len(g.bases) : g.bases[j].slot \in Int /\ g.bases[j].offset \in Int
<1>1. /\ g \in Grids /\ g.placed \in Seq(Places) /\ g.bases \in Seq(Bases)
      /\ Len(g.placed) \in Nat /\ Len(g.bases) \in Nat /\ Below(g.placed, g.nextFree)
  BY LenProperties DEF GridInv, Grids, PlacedInOrder
<1>2. /\ \A i \in 1 .. Len(g.placed) : g.placed[i] \in Places
      /\ \A j \in 1 .. Len(g.bases) : g.bases[j] \in Bases
  BY <1>1, ElementOfSeq
<1>3. QED
  BY <1>1, <1>2 DEF Places, Bases, Below

(* A slot takes the time base with the packets. *)
LEMMA TakeStamps ==
  ASSUME NEW g, GridInv(g), StampedGrid(g), MarkedGrid(g), NEW slot \in Int
  PROVE  StampedGrid(TakeGrid(g, slot)) /\ MarkedGrid(TakeGrid(g, slot))
<1> DEFINE n == PassedAt(g, slot)
           u == BasesUsed(g, slot)
           h == TakeGrid(g, slot)
<1>1. /\ Passes(g, h, slot) /\ h.run = g.run /\ h.open = g.open /\ h.epoch = g.epoch
      /\ h.rebased = g.rebased /\ h.openBase = g.openBase /\ h.nextFree = g.nextFree
  BY TakePasses
<1>2. /\ n \in 0 .. Len(g.placed) /\ \A i \in 1 .. Len(g.placed) : g.placed[i].slot <= slot <=> i <= n
      /\ u \in 0 .. Len(g.bases) /\ (n = 0 => u = 0)
      /\ n > 0 => \A j \in 1 .. Len(g.bases) : g.bases[j].slot <= g.placed[n].slot <=> j <= u
      /\ Len(h.placed) = Len(g.placed) - n
      /\ \A i \in 1 .. Len(h.placed) : h.placed[i] = g.placed[n + i]
      /\ Len(h.bases) = Len(g.bases) - u
      /\ \A j \in 1 .. Len(h.bases) : h.bases[j] = g.bases[u + j]
      /\ h.takenBase = IF u = 0 THEN g.takenBase ELSE g.bases[u].offset
  BY <1>1 DEF Passes
<1> HIDE DEF n, u, h
<1>3. /\ Len(g.placed) \in Nat /\ Len(g.bases) \in Nat /\ g.nextFree \in Int /\ g.takenBase \in Int
      /\ \A i \in 1 .. Len(g.placed) : g.placed[i].slot \in Int /\ g.placed[i].slot < g.nextFree
      /\ \A j \in 1 .. Len(g.bases) : g.bases[j].slot \in Int /\ g.bases[j].offset \in Int
  BY PlacesType, SMTT(30) DEF Grids
<1>4. u > 0 => /\ n \in 1 .. Len(g.placed) /\ u \in 1 .. Len(g.bases)
               /\ h.takenBase = g.bases[u].offset /\ h.takenBase \in Int
               /\ h.takenBase <= g.placed[n].slot
  <2> SUFFICES ASSUME u > 0
               PROVE  /\ n \in 1 .. Len(g.placed) /\ u \in 1 .. Len(g.bases)
                      /\ h.takenBase = g.bases[u].offset /\ h.takenBase \in Int
                      /\ h.takenBase <= g.placed[n].slot
    OBVIOUS
  <2>1. n \in 1 .. Len(g.placed) /\ u \in 1 .. Len(g.bases) /\ h.takenBase = g.bases[u].offset
    BY <1>2, <1>3
  <2>2. g.bases[u].offset <= g.bases[u].slot /\ g.bases[u].slot <= g.placed[n].slot
    BY <1>2, <2>1 DEF MarkedGrid
  <2>3. QED
    BY <1>3, <2>1, <2>2, SMTT(30)
<1>5. ASSUME NEW i \in 1 .. Len(h.placed)
      PROVE  /\ n + i \in 1 .. Len(g.placed) /\ h.placed[i] = g.placed[n + i]
             /\ n > 0 => g.placed[n].slot < g.placed[n + i].slot
  <2>1. n + i \in 1 .. Len(g.placed) /\ h.placed[i] = g.placed[n + i] /\ n < n + i
    BY <1>2, <1>3
  <2>2. n > 0 => n \in 1 .. Len(g.placed)
    BY <1>2
  <2>3. QED
    BY <2>1, <2>2 DEF GridInv, PlacedInOrder, Rising
<1>6. StampedGrid(h)
  <2>1. h.takenBase <= h.nextFree
    BY <1>1, <1>2, <1>3, <1>4, SMTT(30) DEF StampedGrid
  <2>2. ASSUME NEW i \in 1 .. Len(h.placed) PROVE h.takenBase <= h.placed[i].slot
    <3>1. CASE u = 0
      <4>1. h.takenBase = g.takenBase /\ h.placed[i] = g.placed[n + i] /\ n + i \in 1 .. Len(g.placed)
        BY <1>2, <1>5, <3>1
      <4>2. QED
        BY <4>1 DEF StampedGrid
    <3>2. CASE u > 0
      <4>1. /\ n \in 1 .. Len(g.placed) /\ h.takenBase \in Int /\ h.takenBase <= g.placed[n].slot
        BY <1>4, <3>2
      <4>2. /\ n + i \in 1 .. Len(g.placed) /\ h.placed[i] = g.placed[n + i]
            /\ g.placed[n].slot < g.placed[n + i].slot
        BY <1>5, <4>1
      <4>3. g.placed[n].slot \in Int /\ g.placed[n + i].slot \in Int
        BY <1>3, <4>1, <4>2
      <4>4. QED
        BY <4>1, <4>2, <4>3
    <3>3. QED
      BY <1>2, <3>1, <3>2
  <2>3. QED
    BY <1>1, <2>1, <2>2 DEF StampedGrid
<1>7. MarkedGrid(h)
  <2> SUFFICES ASSUME NEW j \in 1 .. Len(h.bases)
               PROVE  /\ h.bases[j].offset <= h.bases[j].slot
                      /\ \E i \in 1 .. Len(h.placed) :
                           h.placed[i].slot = h.bases[j].slot /\ HasPcr(h.placed[i].packet)
    BY DEF MarkedGrid
  <2>1. u + j \in 1 .. Len(g.bases) /\ ~(u + j <= u) /\ h.bases[j] = g.bases[u + j]
    BY <1>2, <1>3
  <2>2. g.bases[u + j].offset <= g.bases[u + j].slot
    BY <2>1 DEF MarkedGrid
  <2>3. PICK i \in 1 .. Len(g.placed) : g.placed[i].slot = g.bases[u + j].slot /\ HasPcr(g.placed[i].packet)
    BY <2>1 DEF MarkedGrid
  <2>4. ~(i <= n)
    <3> SUFFICES ASSUME i <= n PROVE FALSE
      OBVIOUS
    <3>1. n \in 1 .. Len(g.placed) /\ n > 0
      BY <1>2
    <3>2. ~(g.bases[u + j].slot <= g.placed[n].slot)
      BY <1>2, <2>1, <3>1
    <3>3. i = n \/ g.placed[i].slot < g.placed[n].slot
      <4>1. i < n \/ i = n
        BY <3>1
      <4>2. QED
        BY <3>1, <4>1 DEF GridInv, PlacedInOrder, Rising
    <3>4. g.placed[n].slot \in Int /\ g.placed[i].slot \in Int
      BY <1>3, <3>1
    <3>5. QED
      BY <2>3, <3>2, <3>3, <3>4
  <2>5. i - n \in 1 .. Len(h.placed) /\ n + (i - n) = i
    BY <1>2, <1>3, <2>4
  <2>6. h.placed[i - n] = g.placed[i]
    BY <1>2, <2>5
  <2>7. QED
    BY <2>1, <2>2, <2>3, <2>5, <2>6
<1>8. QED
  BY <1>6, <1>7 DEF h

(* The slots of a closed run lie at the opening or above it, the first is    *)
(* that of its PCR.                                                          *)
LEMMA SpreadFrom ==
  ASSUME NEW g, GridInv(g), g.open # None, g.run # <<>>, NEW next \in Int
  PROVE  LET new == Spread(g, next)
         IN  /\ Len(new) = Len(g.run) /\ Len(new) \in Nat \ {0}
             /\ \A i \in 1 .. Len(new) : new[i].slot \in Int /\ new[i].slot >= Greatest(g.nextFree, g.open.slot)
             /\ new[1].packet = g.run[1]
<1> DEFINE new  == Spread(g, next)
           size == Len(g.run)
           free == Greatest(g.nextFree, g.open.slot)
           even(i) == g.open.slot + ((i - 1) * Greatest(next - g.open.slot, 0)) \div size
           place(i) == Greatest(even(i), free + i - 1)
<1>1. /\ g.open.slot \in Int /\ g.nextFree \in Int /\ g.run \in Seq(Packets) /\ size \in Nat \ {0}
  BY EmptySeq DEF GridInv, Grids, Openings
<1>2. free \in Int
  BY <1>1 DEF Greatest
<1>3. new = [i \in 1 .. size |-> [slot |-> place(i), packet |-> g.run[i]]]
  BY DEF Spread
<1>4. new \in Seq(Places) /\ Len(new) = size
  BY SpreadRises
<1>5. \A i : place(i) = even(i) \/ (place(i) = free + i - 1)
  BY DEF Greatest
<1>6. \A i : place(i) = IF even(i) >= free + i - 1 THEN even(i) ELSE free + i - 1
  BY DEF Greatest
<1> HIDE DEF new, size, free, even, place
<1>7. \A i \in 1 .. size : new[i].slot = place(i) /\ new[i].packet = g.run[i]
  BY <1>3
<1>8. new[1].packet = g.run[1]
  BY <1>1, <1>7
<1>9. ASSUME NEW i \in 1 .. size PROVE new[i].slot \in Int /\ new[i].slot >= free
  <2>1. new[i].slot = place(i)
    BY <1>7
  <2>2. new[i].slot \in Int
    <3>1. new[i] \in Places
      BY <1>4, ElementOfSeq
    <3>2. QED
      BY <3>1 DEF Places
  <2>3. i \in Int /\ i >= 1 /\ free + i - 1 \in Int /\ free + i - 1 >= free
    BY <1>1, <1>2
  <2>4. CASE place(i) = free + i - 1
    BY <2>1, <2>2, <2>3, <2>4
  <2>5. CASE place(i) # free + i - 1
    <3>1. even(i) >= free + i - 1 /\ place(i) = even(i)
      BY <1>6, <2>5
    <3>2. QED
      BY <1>2, <2>1, <2>2, <2>3, <3>1
  <2>6. QED
    BY <2>4, <2>5
<1>10. QED
  BY <1>1, <1>4, <1>8, <1>9 DEF new, size, free

(* A PCR opens its run where the open one is or later, and behind the part   *)
(* of its epoch that splices made.                                           *)
LEMMA OpensLater ==
  ASSUME NEW g, GridInv(g), StampedGrid(g), NEW p \in Packets, HasPcr(p), p.pcr < PcrWrap,
         NEW at \in Int, NEW horizon,
         NextEpoch(g, p, at, horizon) \in Int, Moved(g, p, at, horizon) \in Int
  PROVE  LET slot  == OpenSlot(g, p, at, horizon)
             epoch == NextEpoch(g, p, at, horizon)
             moved == Moved(g, p, at, horizon)
         IN  /\ slot >= 0 /\ slot = Greatest(SlotOfPcr(p.pcr) + epoch, 0)
             /\ SlotOfPcr(p.pcr) <= SlotsPerWrap
             /\ g.rebased + moved <= epoch /\ g.rebased + moved <= slot
             /\ g.open # None => slot >= g.open.slot
<1> DEFINE slot  == OpenSlot(g, p, at, horizon)
           epoch == NextEpoch(g, p, at, horizon)
           moved == Moved(g, p, at, horizon)
           own   == SlotOfPcr(p.pcr)
           spliced == g.open # None /\ Spliced(g, p, Since(g, at), horizon)
<1>1. /\ p.pcr \in Int /\ p.pcr >= 0 /\ PcrWrap \in Int
      /\ g.epoch \in Int /\ g.rebased \in Int /\ g.rebased <= g.epoch
      /\ g.open # None => g.open.slot \in Int /\ g.open.pcr \in Int /\ Len(g.run) \in Nat
  BY LegNumbers, LenProperties DEF GridInv, Grids, Openings, HasPcr, Packets, StampedGrid
<1>2. own \in Int /\ own >= 0 /\ SlotsPerWrap \in Int /\ own <= SlotsPerWrap
  <2>1. /\ p.pcr * MuxRate \in Int /\ PcrWrap * MuxRate \in Int
        /\ 0 <= p.pcr * MuxRate /\ p.pcr * MuxRate <= PcrWrap * MuxRate
    BY <1>1, LegNumbers
  <2>2. /\ 0 \div PacketTicks <= (p.pcr * MuxRate) \div PacketTicks
        /\ (p.pcr * MuxRate) \div PacketTicks <= (PcrWrap * MuxRate) \div PacketTicks
    BY <2>1, DivOrder, LegNumbers
  <2>3. 0 \div PacketTicks = 0
    <3>1. 0 * PacketTicks = 0
      BY LegNumbers
    <3>2. QED
      BY <3>1, DivTimes, LegNumbers
  <2>4. (p.pcr * MuxRate) \div PacketTicks \in Int /\ (PcrWrap * MuxRate) \div PacketTicks \in Int
    BY <2>1, DivInt, LegNumbers
  <2>5. QED
    BY <2>2, <2>3, <2>4 DEF SlotOfPcr, SlotsPerWrap
<1>3. /\ epoch = IF g.open = None THEN g.epoch
                 ELSE IF spliced THEN g.open.slot + Greatest(Len(g.run), 1) - own
                 ELSE IF own + g.epoch < g.open.slot THEN g.epoch + SlotsPerWrap
                 ELSE g.epoch
      /\ moved = IF spliced THEN epoch - g.epoch ELSE 0
  BY DEF NextEpoch, EpochFor, Moved, OnGrid
<1>4. slot = Greatest(own + epoch, 0)
  BY DEF OpenSlot
<1>5. g.open # None => /\ Greatest(Len(g.run), 1) \in Int /\ Greatest(Len(g.run), 1) >= 1
                       /\ g.open.slot = 0 \/ g.open.slot <= SlotsPerWrap + g.epoch
  <2> SUFFICES ASSUME g.open # None
               PROVE  /\ Greatest(Len(g.run), 1) \in Int /\ Greatest(Len(g.run), 1) >= 1
                      /\ g.open.slot = 0 \/ g.open.slot <= SlotsPerWrap + g.epoch
    OBVIOUS
  <2>1. Greatest(Len(g.run), 1) \in Int /\ Greatest(Len(g.run), 1) >= 1
    BY <1>1 DEF Greatest
  <2> DEFINE that == SlotOfPcr(g.open.pcr)
  <2>2. that \in Int /\ that <= SlotsPerWrap /\ g.open.slot = Greatest(that + g.epoch, 0)
    <3>1. that \in Int
      BY <1>1, LegNumbers DEF SlotOfPcr
    <3>2. QED
      BY <3>1 DEF StampedGrid
  <2> HIDE DEF that
  <2>3. QED
    BY <1>1, <1>2, <2>1, <2>2 DEF Greatest
<1>6. slot >= own + epoch /\ slot >= 0
  <2> HIDE DEF slot, epoch, own
  <2>1. epoch \in Int
    BY DEF epoch
  <2>2. QED
    BY <1>2, <1>4, <2>1 DEF Greatest
<1>7. g.rebased + moved <= epoch
  <2>1. epoch \in Int /\ moved \in Int
    OBVIOUS
  <2> HIDE DEF epoch, moved, spliced, own
  <2>2. CASE spliced
    BY <1>1, <1>3, <2>1, <2>2
  <2>3. CASE ~spliced
    <3>1. SlotsPerWrap >= 0
      BY <1>2
    <3>2. QED
      BY <1>1, <1>2, <1>3, <2>1, <2>3, <3>1
  <2>4. QED
    BY <2>2, <2>3
<1>8. epoch \in Int /\ moved \in Int /\ slot \in Int
  <2>1. epoch \in Int /\ moved \in Int
    OBVIOUS
  <2> HIDE DEF epoch, slot, own
  <2>2. QED
    BY <1>2, <1>4, <2>1 DEF Greatest
<1> DEFINE length == Greatest(Len(g.run), 1)
<1> HIDE DEF slot, epoch, moved, own, spliced, length
<1>9. g.open # None => slot >= g.open.slot
  <2> SUFFICES ASSUME g.open # None PROVE slot >= g.open.slot
    OBVIOUS
  <2>1. CASE spliced
    <3>1. epoch = g.open.slot + length - own /\ length \in Int /\ length >= 1
      BY <1>3, <1>5, <2>1 DEF length
    <3>2. QED
      BY <1>1, <1>2, <1>6, <1>8, <3>1, SMTT(30)
  <2>2. CASE ~spliced /\ own + g.epoch < g.open.slot
    <3>1. epoch = g.epoch + SlotsPerWrap
      BY <1>3, <2>2
    <3>2. g.open.slot = 0 \/ g.open.slot <= SlotsPerWrap + g.epoch
      BY <1>5
    <3>3. /\ g.open.slot \in Int /\ g.epoch \in Int /\ SlotsPerWrap \in Int /\ own \in Int
          /\ own >= 0 /\ slot >= own + epoch /\ slot >= 0 /\ slot \in Int
      BY <1>1, <1>2, <1>6, <1>8
    <3>4. QED
      BY <3>1, <3>2, <3>3
  <2>3. CASE ~spliced /\ ~(own + g.epoch < g.open.slot)
    <3>1. epoch = g.epoch
      BY <1>3, <2>3
    <3>2. QED
      BY <1>1, <1>2, <1>6, <1>8, <2>3, <3>1
  <2>4. QED
    BY <2>1, <2>2, <2>3
<1>10. g.rebased + moved <= slot
  BY <1>1, <1>2, <1>6, <1>7, <1>8
<1>11. QED
  BY <1>2, <1>4, <1>6, <1>7, <1>9, <1>10 DEF slot, epoch, moved, own

(* What a leg that holds a run receives never opens before it, is placed     *)
(* from it on, and leaves what is placed and taken in place.                 *)
Follows(g, h) ==
  /\ h.takenBase = g.takenBase
  /\ g.open # None => h.open # None /\ h.open.slot >= g.open.slot
  /\ \A i \in 1 .. Len(h.placed) :
       \/ \E j \in 1 .. Len(g.placed) : h.placed[i] = g.placed[j]
       \/ g.open # None /\ h.placed[i].slot >= g.open.slot

(* The slots of a grid, as a closed run leaves them when none is dropped.    *)
LEMMA CloseStamps ==
  ASSUME NEW g, GridInv(g), StampedGrid(g), MarkedGrid(g), g.open # None, g.run # <<>>,
         NEW next \in Int, NEW capacity \in Nat \ {0}, CloseRun(g, next, capacity).shed = g.shed
  PROVE  LET h == CloseRun(g, next, capacity)
         IN  /\ h.takenBase = g.takenBase /\ h.takenBase <= h.nextFree
             /\ \A i \in 1 .. Len(h.placed) : h.takenBase <= h.placed[i].slot
             /\ \A i \in 1 .. Len(h.placed) :
                  \/ \E j \in 1 .. Len(g.placed) : h.placed[i] = g.placed[j]
                  \/ h.placed[i].slot >= g.open.slot
             /\ MarkedGrid(h)
<1> DEFINE new  == Spread(g, next)
           drop == Dropped(g, new, capacity)
           h == CloseRun(g, next, capacity)
           free == Greatest(g.nextFree, g.open.slot)
           m == Len(g.placed)
           mark == [slot |-> new[1].slot, offset |-> g.openBase]
<1>1. /\ g \in Grids /\ m \in Nat /\ g.nextFree \in Int /\ g.open.slot \in Int /\ g.shed \in Nat
      /\ g.openBase \in Int /\ g.takenBase \in Int /\ g.takenBase <= g.nextFree
      /\ g.openBase <= g.open.slot /\ HasPcr(g.run[1]) /\ g.bases \in Seq(Bases)
      /\ \A i \in 1 .. m : g.takenBase <= g.placed[i].slot
  <2>1. g \in Grids /\ m \in Nat
    BY PlacesType
  <2>2. QED
    BY <2>1 DEF GridInv, Grids, Openings, StampedGrid
<1>2. /\ Len(new) \in Nat \ {0} /\ new[1].packet = g.run[1]
      /\ \A i \in 1 .. Len(new) : new[i].slot \in Int /\ new[i].slot >= free
  BY SpreadFrom
<1>3. /\ drop \in 0 .. m + Len(new) /\ Len(h.placed) = m + Len(new) - drop
      /\ \A i \in 1 .. Len(h.placed) : h.placed[i] = PlacedOr(g, new, drop + i)
      /\ h.shed = g.shed + drop /\ h.takenBase = g.takenBase
      /\ h.bases = IF g.openBase # g.placedBase THEN Append(g.bases, mark) ELSE g.bases
  <2>1. capacity \in Nat
    OBVIOUS
  <2>2. QED
    BY <2>1, CloseShape
<1>4. h.shed = g.shed /\ h.nextFree > g.nextFree /\ h.nextFree \in Int
  <2>1. h.nextFree > g.nextFree
    BY CloseEdged
  <2>2. h \in Grids
    BY CloseKeeps DEF GridInv
  <2>3. QED
    BY <2>1, <2>2 DEF Grids
<1>5. free \in Int /\ free >= g.nextFree /\ free >= g.open.slot
  BY <1>1 DEF Greatest
<1> HIDE DEF new, drop, h, free, m, mark
<1>6. drop = 0 /\ Len(h.placed) = m + Len(new)
  BY <1>1, <1>2, <1>3, <1>4
<1>7. \A i \in 1 .. Len(h.placed) : h.placed[i] = PlacedOr(g, new, i)
  <2> SUFFICES ASSUME NEW i \in 1 .. Len(h.placed) PROVE h.placed[i] = PlacedOr(g, new, i)
    OBVIOUS
  <2>1. drop + i = i
    BY <1>6
  <2>2. QED
    BY <1>3, <2>1
<1>8. ASSUME NEW i \in 1 .. m PROVE i \in 1 .. Len(h.placed) /\ h.placed[i] = g.placed[i]
  <2>1. i \in 1 .. Len(h.placed) /\ i <= m
    BY <1>1, <1>2, <1>6
  <2>2. h.placed[i] = PlacedOr(g, new, i)
    BY <1>7, <2>1
  <2>3. PlacedOr(g, new, i) = g.placed[i]
    BY <2>1 DEF PlacedOr, m
  <2>4. QED
    BY <2>1, <2>2, <2>3
<1>9. ASSUME NEW i \in 1 .. Len(h.placed), ~(i <= m)
      PROVE  i - m \in 1 .. Len(new) /\ h.placed[i] = new[i - m]
  <2>1. i - m \in 1 .. Len(new)
    BY <1>1, <1>2, <1>6, <1>9
  <2>2. h.placed[i] = PlacedOr(g, new, i)
    BY <1>7
  <2>3. PlacedOr(g, new, i) = new[i - m]
    BY <1>9 DEF PlacedOr, m
  <2>4. QED
    BY <2>1, <2>2, <2>3
<1>10. h.takenBase <= h.nextFree
  BY <1>1, <1>3, <1>4
<1>11. ASSUME NEW i \in 1 .. Len(h.placed)
       PROVE  /\ h.takenBase <= h.placed[i].slot
              /\ \/ \E j \in 1 .. m : h.placed[i] = g.placed[j]
                 \/ h.placed[i].slot >= g.open.slot
  <2>1. CASE i <= m
    <3>1. i \in 1 .. m
      BY <1>1, <2>1
    <3>2. h.placed[i] = g.placed[i]
      BY <1>8, <3>1
    <3>3. QED
      BY <1>1, <1>3, <3>1, <3>2
  <2>2. CASE ~(i <= m)
    <3>1. i - m \in 1 .. Len(new) /\ h.placed[i] = new[i - m]
      BY <1>9, <2>2
    <3>2. new[i - m].slot \in Int /\ new[i - m].slot >= free
      BY <1>2, <3>1
    <3>3. g.takenBase <= new[i - m].slot /\ new[i - m].slot >= g.open.slot
      BY <1>1, <1>5, <3>2, SMTT(30)
    <3>4. QED
      BY <1>3, <3>1, <3>3
  <2>3. QED
    BY <2>1, <2>2
<1>12. /\ m + 1 \in 1 .. Len(h.placed) /\ h.placed[m + 1] = new[1]
       /\ new[1].slot \in Int /\ new[1].slot >= g.openBase
  <2> DEFINE k == m + 1
  <2>1. k \in 1 .. Len(h.placed) /\ ~(k <= m) /\ k - m = 1
    BY <1>1, <1>2, <1>6
  <2> HIDE DEF k
  <2>a. h.placed[k] = new[k - m]
    BY <1>9, <2>1
  <2>2. h.placed[m + 1] = new[1]
    BY <2>1, <2>a DEF k
  <2>3. new[1].slot \in Int /\ new[1].slot >= free
    BY <1>2
  <2>4. QED
    BY <1>1, <1>5, <2>1, <2>2, <2>3 DEF k
<1>13. MarkedGrid(h)
  <2>1. ASSUME NEW j \in 1 .. Len(g.bases)
        PROVE  /\ g.bases[j].offset <= g.bases[j].slot
               /\ \E i \in 1 .. Len(h.placed) :
                    h.placed[i].slot = g.bases[j].slot /\ HasPcr(h.placed[i].packet)
    <3>1. /\ g.bases[j].offset <= g.bases[j].slot
          /\ \E i \in 1 .. m : g.placed[i].slot = g.bases[j].slot /\ HasPcr(g.placed[i].packet)
      BY DEF MarkedGrid, m
    <3>2. PICK i \in 1 .. m : g.placed[i].slot = g.bases[j].slot /\ HasPcr(g.placed[i].packet)
      BY <3>1
    <3>3. i \in 1 .. Len(h.placed) /\ h.placed[i] = g.placed[i]
      BY <1>8
    <3>4. QED
      BY <3>1, <3>2, <3>3
  <2>2. CASE g.openBase = g.placedBase
    <3>1. h.bases = g.bases
      BY <1>3, <2>2
    <3>2. QED
      BY <2>1, <3>1 DEF MarkedGrid
  <2>3. CASE g.openBase # g.placedBase
    <3>1. /\ h.bases = Append(g.bases, mark)
      BY <1>3, <2>3
    <3>2. Len(g.bases) \in Nat /\ Len(h.bases) = Len(g.bases) + 1
      BY <1>1, <3>1, LenProperties, AppendProperties
    <3> SUFFICES ASSUME NEW j \in 1 .. Len(h.bases)
                 PROVE  /\ h.bases[j].offset <= h.bases[j].slot
                        /\ \E i \in 1 .. Len(h.placed) :
                             h.placed[i].slot = h.bases[j].slot /\ HasPcr(h.placed[i].packet)
      BY DEF MarkedGrid
    <3>3. CASE j = Len(h.bases)
      <4>1. h.bases[j] = mark
        BY <1>1, <3>1, <3>2, <3>3
      <4>2. mark.slot = new[1].slot /\ mark.offset = g.openBase
        BY DEF mark
      <4>3. HasPcr(h.placed[m + 1].packet)
        BY <1>1, <1>2, <1>12
      <4>4. h.bases[j].offset <= h.bases[j].slot
        BY <1>1, <1>12, <4>1, <4>2
      <4>5. h.placed[m + 1].slot = h.bases[j].slot
        BY <1>12, <4>1, <4>2
      <4>6. QED
        BY <1>12, <4>3, <4>4, <4>5
    <3>4. CASE j # Len(h.bases)
      <4>1. j \in 1 .. Len(g.bases)
        BY <3>2, <3>4
      <4>2. h.bases[j] = g.bases[j]
        BY <1>1, <3>1, <4>1
      <4>3. QED
        BY <2>1, <4>1, <4>2
    <3>5. QED
      BY <3>3, <3>4
  <2>4. QED
    BY <2>2, <2>3
<1>14. QED
  BY <1>3, <1>10, <1>11, <1>13 DEF h, m

(* Until the source ends a run that is open has its PCR. *)
Going(g) == g.open # None => g.run # <<>>

(* What is pushed keeps the time bases of the grid, when none is dropped.    *)
LEMMA PushStamps ==
  ASSUME NEW g, GridInv(g), StampedGrid(g), MarkedGrid(g), Going(g), NEW p \in Packets,
         HasPcr(p) => p.pcr < PcrWrap, NEW at \in Int, NEW horizon, NEW capacity \in Nat \ {0},
         g.open = None \/ PushGrid(g, p, at, horizon, capacity).shed = g.shed
  PROVE  LET h == PushGrid(g, p, at, horizon, capacity)
         IN  StampedGrid(h) /\ MarkedGrid(h) /\ Going(h) /\ Follows(g, h)
<1> DEFINE n == NoteContinuity(g, p)
           h == PushGrid(g, p, at, horizon, capacity)
           slot == OpenSlot(n, p, at, horizon)
           moved == Moved(n, p, at, horizon)
           closed == CloseRun(n, slot, capacity)
<1>1. /\ GridInv(n) /\ n \in Grids /\ n.placed = g.placed /\ n.bases = g.bases
      /\ n.takenBase = g.takenBase /\ n.nextFree = g.nextFree /\ n.run = g.run /\ n.open = g.open
      /\ n.epoch = g.epoch /\ n.rebased = g.rebased /\ n.openBase = g.openBase /\ n.shed = g.shed
  BY NoteAlike DEF Alike, Placement, GridInv
<1> HIDE DEF n
<1>2. StampedGrid(n) /\ MarkedGrid(n)
  BY <1>1 DEF StampedGrid, MarkedGrid
<1>3. CASE ~HasPcr(p)
  <2>1. /\ h.placed = n.placed /\ h.bases = n.bases /\ h.takenBase = n.takenBase
        /\ h.nextFree = n.nextFree /\ h.open = n.open /\ h.epoch = n.epoch
        /\ h.rebased = n.rebased /\ h.openBase = n.openBase
        /\ \/ h.run = n.run
           \/ n.open # None /\ h.run = Append(n.run, p)
    <3>1. CASE g.open = None
      <4>1. h = [n EXCEPT !.shed = n.shed + 1]
        BY <1>3, <3>1 DEF PushGrid, n
      <4> HIDE DEF h
      <4>2. QED
        BY <1>1, <4>1 DEF Grids
    <3>2. CASE g.open # None
      <4>1. h = [n EXCEPT !.run = Append(n.run, p)]
        BY <1>3, <3>2 DEF PushGrid, n
      <4> HIDE DEF h
      <4>2. QED
        BY <1>1, <3>2, <4>1 DEF Grids
    <3>3. QED
      BY <3>1, <3>2
  <2>2. (h.run # <<>> => HasPcr(h.run[1])) /\ Going(h)
    <3>1. n.run \in Seq(Packets) /\ (n.run # <<>> => HasPcr(n.run[1]))
      BY <1>1, <1>2 DEF Grids, StampedGrid
    <3>2. ASSUME h.run = Append(n.run, p), n.open # None PROVE HasPcr(h.run[1]) /\ h.run # <<>>
      <4>1. n.run # <<>>
        BY <1>1, <3>2 DEF Going
      <4>2. Len(n.run) \in Nat \ {0}
        BY <3>1, <4>1, LenProperties, EmptySeq
      <4>3. h.run[1] = n.run[1]
        BY <3>1, <3>2, <4>2, AppendProperties
      <4>4. h.run # <<>>
        BY <3>1, <3>2, <4>2, AppendProperties
      <4>5. QED
        BY <3>1, <4>1, <4>3, <4>4
    <3>3. Going(n)
      BY <1>1 DEF Going
    <3>4. QED
      BY <2>1, <3>1, <3>2, <3>3 DEF Going
  <2> HIDE DEF h
  <2>3. StampedGrid(h)
    BY <1>2, <2>1, <2>2 DEF StampedGrid
  <2>4. MarkedGrid(h)
    BY <1>2, <2>1 DEF MarkedGrid
  <2>5. Follows(g, h)
    <3>1. h.open = g.open /\ h.takenBase = g.takenBase /\ h.placed = g.placed
      BY <1>1, <2>1
    <3>2. g.open # None => g.open.slot \in Int
      BY <1>1 DEF Grids, Openings
    <3>3. QED
      BY <3>1, <3>2 DEF Follows
  <2>6. QED
    BY <2>2, <2>3, <2>4, <2>5 DEF h
<1>4. CASE HasPcr(p)
  <2>1. h = PushPcr(n, p, at, horizon, capacity)
    BY <1>4 DEF PushGrid, n
  <2>2. Opens(n, h, p, at, horizon, capacity)
    <3> HIDE DEF h
    <3>1. capacity \in Nat
      OBVIOUS
    <3>2. QED
      BY <1>1, <1>4, <2>1, <3>1, PcrOpens
  <2>3. h.shed = n.shed \/ n.open = None
    BY <1>1
  <2> HIDE DEF h
  <2>4. /\ NextEpoch(n, p, at, horizon) \in Int /\ slot \in Nat /\ moved \in Int
        /\ h.open = [pcr |-> p.pcr, slot |-> slot, at |-> at] /\ h.open # None
        /\ h.run = <<p>> /\ h.epoch = NextEpoch(n, p, at, horizon)
        /\ h.rebased = n.rebased + moved /\ h.openBase = h.rebased
        /\ \/ Placement(h) = Placement(n)
           \/ /\ n.open # None /\ n.run # <<>>
              /\ Placement(h) = Placement(closed) /\ h.shed = closed.shed
    BY <2>2 DEF Opens
  <2>5. /\ slot >= 0 /\ slot = Greatest(SlotOfPcr(p.pcr) + h.epoch, 0)
        /\ SlotOfPcr(p.pcr) <= SlotsPerWrap
        /\ h.rebased <= h.epoch /\ h.rebased <= slot
        /\ n.open # None => slot >= n.open.slot
    <3>1. p.pcr < PcrWrap
      BY <1>4
    <3>2. NextEpoch(n, p, at, horizon) \in Int /\ Moved(n, p, at, horizon) \in Int
      BY <2>4
    <3>3. QED
      BY <1>1, <1>2, <1>4, <2>4, <3>1, <3>2, OpensLater
  <2>6. /\ h.takenBase = n.takenBase /\ h.takenBase <= h.nextFree
        /\ \A i \in 1 .. Len(h.placed) : h.takenBase <= h.placed[i].slot
        /\ \A i \in 1 .. Len(h.placed) :
             \/ \E j \in 1 .. Len(n.placed) : h.placed[i] = n.placed[j]
             \/ n.open # None /\ h.placed[i].slot >= n.open.slot
        /\ MarkedGrid(h)
    <3>1. CASE Placement(h) = Placement(n)
      <4>1. h.placed = n.placed /\ h.bases = n.bases /\ h.takenBase = n.takenBase /\ h.nextFree = n.nextFree
        BY <3>1 DEF Placement
      <4>2. QED
        BY <1>2, <4>1 DEF StampedGrid, MarkedGrid
    <3>2. CASE n.open # None /\ n.run # <<>> /\ Placement(h) = Placement(closed) /\ h.shed = closed.shed
      <4>1. CloseRun(n, slot, capacity).shed = n.shed /\ slot \in Int
        BY <2>3, <2>4, <3>2
      <4>2. /\ closed.takenBase = n.takenBase /\ closed.takenBase <= closed.nextFree
            /\ \A i \in 1 .. Len(closed.placed) : closed.takenBase <= closed.placed[i].slot
            /\ \A i \in 1 .. Len(closed.placed) :
                 \/ \E j \in 1 .. Len(n.placed) : closed.placed[i] = n.placed[j]
                 \/ closed.placed[i].slot >= n.open.slot
            /\ MarkedGrid(closed)
        <5> HIDE DEF slot
        <5>1. QED
          BY <1>1, <1>2, <3>2, <4>1, CloseStamps
      <4> HIDE DEF closed
      <4>3. /\ h.placed = closed.placed /\ h.bases = closed.bases /\ h.takenBase = closed.takenBase
            /\ h.nextFree = closed.nextFree
        BY <3>2 DEF Placement
      <4>4. QED
        BY <3>2, <4>2, <4>3 DEF MarkedGrid
    <3>3. QED
      BY <2>4, <3>1, <3>2
  <2> HIDE DEF slot, moved
  <2>7. StampedGrid(h)
    <3>1. h.open.slot = slot /\ h.open.pcr = p.pcr
      BY <2>4
    <3>2. h.run[1] = p
      BY <2>4
    <3>3. QED
      BY <1>4, <2>4, <2>5, <2>6, <3>1, <3>2 DEF StampedGrid
  <2>8. Follows(g, h)
    <3>1. h.open.slot = slot
      BY <2>4
    <3>2. QED
      BY <1>1, <2>4, <2>5, <2>6, <3>1 DEF Follows
  <2>9. Going(h)
    BY <2>4 DEF Going
  <2>10. QED
    BY <2>6, <2>7, <2>8, <2>9 DEF h
<1>5. QED
  BY <1>3, <1>4

(* A slot passes what lies at it or before.  Where nothing does lie before,  *)
(* the time base only changes with the packet that is flagged for it.        *)
LEMMA TakeLive ==
  ASSUME NEW g, GridInv(g), StampedGrid(g), MarkedGrid(g), NEW slot \in Int
  PROVE  LET h == TakeGrid(g, slot)
         IN  /\ \A i \in 1 .. Len(h.placed) : h.placed[i].slot >= slot + 1
             /\ Takes(g, slot) => h.takenBase <= slot
             /\ (\A i \in 1 .. Len(g.placed) : g.placed[i].slot >= slot) =>
                  \/ h.takenBase = g.takenBase
                  \/ Takes(g, slot) /\ StartsBase(g, slot) /\ HasPcr(TakenAt(g, slot))
<1> DEFINE n == PassedAt(g, slot)
           u == BasesUsed(g, slot)
           h == TakeGrid(g, slot)
<1>1. Passes(g, h, slot)
  BY TakePasses
<1>2. /\ n \in 0 .. Len(g.placed) /\ \A i \in 1 .. Len(g.placed) : g.placed[i].slot <= slot <=> i <= n
      /\ u \in 0 .. Len(g.bases) /\ (n = 0 => u = 0)
      /\ n > 0 => \A j \in 1 .. Len(g.bases) : g.bases[j].slot <= g.placed[n].slot <=> j <= u
      /\ Len(h.placed) = Len(g.placed) - n
      /\ \A i \in 1 .. Len(h.placed) : h.placed[i] = g.placed[n + i]
      /\ h.takenBase = IF u = 0 THEN g.takenBase ELSE g.bases[u].offset
  BY <1>1 DEF Passes
<1>3. /\ Len(g.placed) \in Nat /\ Len(g.bases) \in Nat
      /\ \A i \in 1 .. Len(g.placed) : g.placed[i].slot \in Int
      /\ \A j \in 1 .. Len(g.bases) : g.bases[j].slot \in Int /\ g.bases[j].offset \in Int
  BY PlacesType
<1>4. Takes(g, slot) <=> n > 0 /\ g.placed[n].slot = slot
  BY DEF Takes
<1>5. TakenAt(g, slot) = g.placed[n].packet
  BY DEF TakenAt
<1> HIDE DEF n, u, h
<1>6. n > 0 => n \in 1 .. Len(g.placed) /\ g.placed[n].slot \in Int /\ g.placed[n].slot <= slot
  <2>1. n > 0 => n \in 1 .. Len(g.placed) /\ n <= n
    BY <1>2
  <2>2. QED
    BY <1>2, <1>3, <2>1
<1>7. u > 0 => /\ n > 0 /\ u \in 1 .. Len(g.bases) /\ g.bases[u].slot <= g.placed[n].slot
               /\ h.takenBase = g.bases[u].offset
               /\ g.bases[u].offset <= g.bases[u].slot
  <2>1. u > 0 => n > 0 /\ u \in 1 .. Len(g.bases) /\ u <= u /\ u # 0
    BY <1>2
  <2>2. QED
    BY <1>2, <2>1 DEF MarkedGrid
<1>8. ASSUME NEW i \in 1 .. Len(h.placed) PROVE h.placed[i].slot >= slot + 1
  <2>1. n + i \in 1 .. Len(g.placed) /\ ~(n + i <= n) /\ h.placed[i] = g.placed[n + i]
    BY <1>2, <1>3
  <2>2. ~(g.placed[n + i].slot <= slot) /\ g.placed[n + i].slot \in Int
    BY <1>2, <1>3, <2>1
  <2>3. QED
    BY <2>1, <2>2
<1>9. ASSUME Takes(g, slot) PROVE h.takenBase <= slot
  <2>1. n > 0 /\ n \in 1 .. Len(g.placed) /\ g.placed[n].slot = slot
    BY <1>4, <1>6, <1>9
  <2>2. CASE u = 0
    <3>1. g.takenBase <= g.placed[n].slot
      BY <2>1 DEF StampedGrid
    <3>2. QED
      BY <1>2, <2>1, <2>2, <3>1
  <2>3. CASE u > 0
    <3>1. /\ g.bases[u].slot <= slot /\ h.takenBase = g.bases[u].offset
          /\ g.bases[u].offset <= g.bases[u].slot
          /\ g.bases[u].slot \in Int /\ g.bases[u].offset \in Int
      BY <1>3, <1>7, <2>1, <2>3
    <3>2. QED
      BY <3>1
  <2>4. QED
    BY <1>2, <2>2, <2>3
<1>10. ASSUME \A i \in 1 .. Len(g.placed) : g.placed[i].slot >= slot, u > 0
       PROVE  Takes(g, slot) /\ StartsBase(g, slot) /\ HasPcr(TakenAt(g, slot))
  <2>1. n \in 1 .. Len(g.placed) /\ u \in 1 .. Len(g.bases) /\ n > 0
    BY <1>6, <1>7, <1>10
  <2>2. g.placed[n].slot = slot
    BY <1>6, <1>10, <2>1
  <2>3. PICK i \in 1 .. Len(g.placed) : g.placed[i].slot = g.bases[u].slot /\ HasPcr(g.placed[i].packet)
    BY <2>1 DEF MarkedGrid
  <2>4. g.bases[u].slot = slot /\ g.placed[i].slot = slot
    <3>1. g.bases[u].slot <= slot /\ g.bases[u].slot \in Int
      BY <1>3, <1>7, <1>10, <2>1, <2>2
    <3>2. g.placed[i].slot >= slot
      BY <1>10
    <3>3. QED
      BY <2>3, <3>1, <3>2
  <2>5. i = n
    <3>1. i \in Int /\ n \in Int
      BY <2>1
    <3>2. ~(i < n) /\ ~(n < i)
      <4>1. ASSUME NEW x \in 1 .. Len(g.placed), NEW y \in 1 .. Len(g.placed), x < y
            PROVE  g.placed[x].slot < g.placed[y].slot
        BY <4>1 DEF GridInv, PlacedInOrder, Rising
      <4>2. QED
        BY <2>1, <2>2, <2>4, <4>1
    <3>3. QED
      BY <3>1, <3>2
  <2>6. QED
    BY <1>4, <1>5, <2>1, <2>2, <2>3, <2>4, <2>5 DEF StartsBase
<1>11. u = 0 => h.takenBase = g.takenBase
  BY <1>2
<1>12. u = 0 \/ u > 0
  BY <1>2
<1>13. QED
  BY <1>8, <1>9, <1>10, <1>11, <1>12 DEF h
-----------------------------------------------------------------------------
(* A queue of content on its way to the wire, on time base b: each packet    *)
(* is on the base of the one before it, or starts its own and is flagged,    *)
(* and the last is on the base the grid is at.                               *)
Starting(q) == q.starts /\ HasPcr(q.packet)
Before(d, b, i) == IF i = 1 THEN b ELSE d[i - 1].offset
Chain(d, b, t) ==
  /\ \A i \in 1 .. Len(d) : d[i].offset = Before(d, b, i) \/ Starting(d[i])
  /\ t = Before(d, b, Len(d) + 1)

LEMMA ChainGrows ==
  ASSUME NEW d \in Seq(Admissions), NEW a \in Admissions, NEW b, NEW t, Chain(d, b, t),
         a.offset = t \/ Starting(a)
  PROVE  Chain(d \o <<a>>, b, a.offset)
<1> DEFINE n == Len(d)
           q == d \o <<a>>
<1>1. n \in Nat /\ <<a>> \in Seq(Admissions) /\ Len(<<a>>) = 1 /\ <<a>>[1] = a
  BY LenProperties
<1>2. /\ Len(q) = n + Len(<<a>>)
      /\ \A i \in 1 .. n + Len(<<a>>) : q[i] = IF i <= n THEN d[i] ELSE <<a>>[i - n]
  BY <1>1, ConcatProperties
<1> HIDE DEF n, q
<1>3. Len(q) = n + 1
  BY <1>1, <1>2
<1>4. ASSUME NEW i \in 1 .. n PROVE q[i] = d[i]
  <2>1. i \in 1 .. n + Len(<<a>>) /\ i <= n
    BY <1>1
  <2>2. QED
    BY <1>2, <2>1
<1>5. q[n + 1] = a
  <2>1. n + 1 \in 1 .. n + Len(<<a>>) /\ ~(n + 1 <= n) /\ n + 1 - n = 1
    BY <1>1
  <2>2. QED
    BY <1>1, <1>2, <2>1
<1>6. ASSUME NEW i \in 1 .. n + 1 PROVE Before(q, b, i) = Before(d, b, i)
  <2>1. i # 1 => i - 1 \in 1 .. n
    BY <1>1
  <2>2. i # 1 => q[i - 1] = d[i - 1]
    BY <1>4, <2>1
  <2>3. QED
    BY <2>2 DEF Before
<1>7. ASSUME NEW i \in 1 .. Len(q) PROVE q[i].offset = Before(q, b, i) \/ Starting(q[i])
  <2>1. i \in 1 .. n + 1
    BY <1>3
  <2>2. Before(q, b, i) = Before(d, b, i)
    BY <1>6, <2>1
  <2>3. CASE i = n + 1
    <3>1. q[i] = a /\ t = Before(d, b, n + 1)
      BY <1>5, <2>3 DEF Chain, n
    <3>2. QED
      BY <2>2, <2>3, <3>1
  <2>4. CASE i # n + 1
    <3>1. i \in 1 .. n
      BY <1>1, <2>1, <2>4
    <3>2. d[i].offset = Before(d, b, i) \/ Starting(d[i])
      BY <3>1 DEF Chain, n
    <3>3. q[i] = d[i]
      BY <1>4, <3>1
    <3>4. QED
      BY <2>2, <3>2, <3>3
  <2>5. QED
    BY <2>3, <2>4
<1>8. a.offset = Before(q, b, Len(q) + 1)
  <2>1. Len(q) + 1 # 1 /\ Len(q) + 1 - 1 = n + 1
    BY <1>1, <1>3
  <2>2. QED
    BY <1>5, <2>1 DEF Before
<1>9. QED
  BY <1>7, <1>8 DEF Chain, q

LEMMA ChainShrinks ==
  ASSUME NEW d \in Seq(Admissions), d # <<>>, NEW b, NEW t, Chain(d, b, t)
  PROVE  /\ Head(d).offset = b \/ Starting(Head(d))
         /\ Chain(Tail(d), Head(d).offset, t)
<1> DEFINE n == Len(d)
           r == Tail(d)
<1>1. /\ n \in Nat \ {0} /\ Head(d) = d[1] /\ r \in Seq(Admissions) /\ Len(r) = n - 1
      /\ \A i \in 1 .. Len(r) : r[i] = d[i + 1]
  BY EmptySeq, HeadTailProperties
<1>2. \A i \in 1 .. n : d[i].offset = Before(d, b, i) \/ Starting(d[i])
  BY DEF Chain
<1>3. t = Before(d, b, n + 1)
  BY DEF Chain
<1> HIDE DEF n, r
<1>4. Head(d).offset = b \/ Starting(Head(d))
  <2>1. 1 \in 1 .. n
    BY <1>1
  <2>2. QED
    BY <1>1, <1>2, <2>1 DEF Before
<1>5. ASSUME NEW i \in 1 .. n PROVE Before(r, Head(d).offset, i) = Before(d, b, i + 1)
  <2>1. i + 1 # 1 /\ i + 1 - 1 = i
    OBVIOUS
  <2>2. Before(d, b, i + 1) = d[i].offset
    BY <2>1 DEF Before
  <2>3. CASE i = 1
    BY <1>1, <2>2, <2>3 DEF Before
  <2>4. CASE i # 1
    <3>1. i - 1 \in 1 .. Len(r) /\ i - 1 + 1 = i
      BY <1>1, <2>4
    <3>2. r[i - 1] = d[i]
      BY <1>1, <3>1
    <3>3. QED
      BY <2>2, <2>4, <3>2 DEF Before
  <2>5. QED
    BY <2>3, <2>4
<1>6. ASSUME NEW i \in 1 .. Len(r) PROVE r[i].offset = Before(r, Head(d).offset, i) \/ Starting(r[i])
  <2>1. i \in 1 .. n /\ i + 1 \in 1 .. n /\ r[i] = d[i + 1]
    BY <1>1
  <2>2. QED
    BY <1>2, <1>5, <2>1
<1>7. t = Before(r, Head(d).offset, Len(r) + 1)
  <2>1. Len(r) + 1 = n /\ n \in 1 .. n
    BY <1>1
  <2>2. QED
    BY <1>3, <1>5, <2>1
<1>8. QED
  BY <1>4, <1>6, <1>7 DEF Chain, r

(* The emitter's PCR lies at its base or later and in slots that are past,   *)
(* and so does the base of what it defers.                                   *)
Lagging(e, slot) ==
  /\ e.last # None => e.base <= e.last /\ e.last < slot
  /\ \A i \in 1 .. Len(e.deferred) : e.deferred[i].offset < slot

(* Nothing placed is late, and the time base is that of what is deferred.    *)
Linked(g, e, slot) ==
  /\ \A i \in 1 .. Len(g.placed) : g.placed[i].slot >= slot
  /\ Chain(e.deferred, e.base, g.takenBase)

LEMMA QueueLinks ==
  ASSUME NEW g, GridInv(g), StampedGrid(g), MarkedGrid(g), NEW e \in Emitters, NEW slot \in Int,
         Lagging(e, slot)
  PROVE  LET queue == QueueAt(g, e, slot)
         IN  /\ \A i \in 1 .. Len(queue) : queue[i].offset < slot + 1
             /\ Linked(g, e, slot) => Chain(queue, e.base, TakeGrid(g, slot).takenBase)
             /\ Len(queue) = 1 /\ Admitted(g, slot) # <<>> =>
                  Head(queue).offset = TakeGrid(g, slot).takenBase
<1> DEFINE h == TakeGrid(g, slot)
           d == e.deferred
           a == [packet |-> TakenAt(g, slot), offset |-> h.takenBase, starts |-> StartsBase(g, slot)]
           queue == QueueAt(g, e, slot)
<1>1. d \in Seq(Admissions) /\ Len(d) \in Nat /\ \A i \in 1 .. Len(d) : d[i] \in Admissions /\ d[i].offset < slot
  BY LenProperties, ElementOfSeq DEF Emitters, Lagging
<1>2. \A i \in 1 .. Len(d) : d[i].offset < slot + 1
  <2>1. \A i \in 1 .. Len(d) : d[i].offset \in Int /\ d[i].offset < slot
    BY <1>1 DEF Admissions
  <2>2. QED
    BY <2>1
<1>3. CASE ~Takes(g, slot)
  <2>1. queue = d
    <3>1. queue = d \o <<>>
      BY <1>3 DEF QueueAt, Admitted
    <3>2. QED
      BY <1>1, <3>1, ConcatEmptySeq
  <2>2. Admitted(g, slot) = <<>>
    BY <1>3 DEF Admitted
  <2>3. Linked(g, e, slot) => Chain(d, e.base, h.takenBase)
    <3>1. (\A i \in 1 .. Len(g.placed) : g.placed[i].slot >= slot) => h.takenBase = g.takenBase
      BY <1>3, TakeLive
    <3>2. QED
      BY <3>1 DEF Linked
  <2> HIDE DEF queue, h
  <2>4. QED
    BY <1>2, <2>1, <2>2, <2>3 DEF queue, h
<1>4. CASE Takes(g, slot)
  <2>1. Admitted(g, slot) = <<a>> /\ queue = d \o <<a>>
    BY <1>4 DEF QueueAt, Admitted
  <2>2. a \in Admissions /\ a.offset = h.takenBase /\ h.takenBase \in Int /\ h.takenBase <= slot
    <3>1. h.takenBase \in Int
      BY TakeKeeps
    <3>2. StartsBase(g, slot) \in BOOLEAN
      BY DEF StartsBase
    <3>3. TakenAt(g, slot) \in Packets
      <4>1. PassedAt(g, slot) \in 1 .. Len(g.placed)
        <5>1. PassedAt(g, slot) \in 0 .. Len(g.placed) /\ PassedAt(g, slot) > 0
          BY <1>4, TakeKeeps DEF Takes
        <5>2. Len(g.placed) \in Nat
          BY PlacesType
        <5>3. QED
          BY <5>1, <5>2
      <4>2. QED
        BY <4>1, PlacesType DEF TakenAt
    <3>4. h.takenBase <= slot
      BY <1>4, TakeLive
    <3> HIDE DEF h
    <3>5. QED
      BY <3>1, <3>2, <3>3, <3>4 DEF Admissions
  <2>3. (\A i \in 1 .. Len(g.placed) : g.placed[i].slot >= slot) => a.offset = g.takenBase \/ Starting(a)
    <3>1. (\A i \in 1 .. Len(g.placed) : g.placed[i].slot >= slot) =>
            h.takenBase = g.takenBase \/ (StartsBase(g, slot) /\ HasPcr(TakenAt(g, slot)))
      BY TakeLive
    <3>2. a.starts = StartsBase(g, slot) /\ a.packet = TakenAt(g, slot) /\ a.offset = h.takenBase
      OBVIOUS
    <3> HIDE DEF a, h
    <3>3. QED
      BY <3>1, <3>2 DEF Starting
  <2> HIDE DEF a, h, queue, d
  <2>4. <<a>> \in Seq(Admissions) /\ Len(<<a>>) = 1 /\ <<a>>[1] = a
    BY <2>2
  <2>5. /\ Len(queue) = Len(d) + Len(<<a>>)
        /\ \A i \in 1 .. Len(d) + Len(<<a>>) : queue[i] = IF i <= Len(d) THEN d[i] ELSE <<a>>[i - Len(d)]
        /\ queue \in Seq(Admissions)
    BY <1>1, <2>1, <2>4, ConcatProperties
  <2>6. ASSUME NEW i \in 1 .. Len(queue) PROVE queue[i].offset < slot + 1
    <3>1. i \in 1 .. Len(d) + Len(<<a>>)
      BY <2>5
    <3>2. CASE i <= Len(d)
      <4>1. i \in 1 .. Len(d) /\ queue[i] = d[i]
        BY <1>1, <2>5, <3>1, <3>2
      <4>2. QED
        BY <1>2, <4>1
    <3>3. CASE ~(i <= Len(d))
      <4>1. i - Len(d) = 1
        BY <1>1, <2>4, <3>1, <3>3
      <4>2. queue[i] = a
        BY <2>4, <2>5, <3>1, <3>3, <4>1
      <4>3. QED
        BY <2>2, <4>2
    <3>4. QED
      BY <3>2, <3>3
  <2>7. Linked(g, e, slot) => Chain(queue, e.base, h.takenBase)
    <3> SUFFICES ASSUME Linked(g, e, slot) PROVE Chain(queue, e.base, h.takenBase)
      OBVIOUS
    <3>1. Chain(d, e.base, g.takenBase) /\ (a.offset = g.takenBase \/ Starting(a))
      BY <2>3 DEF Linked, d
    <3>2. Chain(d \o <<a>>, e.base, a.offset)
      BY <1>1, <2>2, <3>1, ChainGrows
    <3>3. QED
      BY <2>1, <2>2, <3>2
  <2>8. Len(queue) = 1 => Head(queue).offset = h.takenBase
    <3> SUFFICES ASSUME Len(queue) = 1 PROVE Head(queue) = a
      BY <2>2
    <3>1. Len(d) = 0
      BY <1>1, <2>4, <2>5
    <3>2. queue[1] = a
      <4>1. 1 \in 1 .. Len(d) + Len(<<a>>) /\ ~(1 <= Len(d)) /\ 1 - Len(d) = 1
        BY <2>4, <3>1
      <4>2. QED
        BY <2>4, <2>5, <4>1
    <3>3. queue # <<>>
      BY <2>5, EmptySeq
    <3>4. Head(queue) = queue[1]
      BY <2>5, <3>3, HeadTailProperties
    <3>5. QED
      BY <3>2, <3>4
  <2>9. QED
    BY <2>6, <2>7, <2>8 DEF queue, h
<1>5. QED
  BY <1>3, <1>4

(* A slot keeps the emitter behind, and what a leg in phase defers linked;   *)
(* the time base of its PCRs changes only with one that is flagged.          *)
Locks(g, e, slot, halted, determined) ==
  LET f == AfterSlot(g, e, slot, halted, determined)
      carried == Carried(g, e, slot, halted)
  IN  /\ Lagging(f, slot + 1)
      /\ f.phased => (e.phased \/ determined) /\ Linked(TakeGrid(g, slot), f, slot + 1)
      /\ e.phased /\ carried.pcr # None => carried.di \/ f.base = e.base

LEMMA SlotLocks ==
  ASSUME NEW g, GridInv(g), StampedGrid(g), MarkedGrid(g), NEW e \in Emitters, NEW slot \in Int,
         Lagging(e, slot), e.phased => Linked(g, e, slot),
         NEW halted \in BOOLEAN, NEW determined \in BOOLEAN
  PROVE  Locks(g, e, slot, halted, determined)
<1> DEFINE h == TakeGrid(g, slot)
           queue == QueueAt(g, e, slot)
           q == Head(queue)
           rest == Tail(queue)
           f == AfterSlot(g, e, slot, halted, determined)
           carried == Carried(g, e, slot, halted)
<1>1. /\ queue \in Seq(Admissions) /\ e.base \in Int /\ e.last \in Int \cup {None}
      /\ e.deferred \in Seq(Admissions) /\ e.phased \in BOOLEAN
  BY QueueType DEF Emitters
<1>2. /\ \A i \in 1 .. Len(queue) : queue[i].offset < slot + 1
      /\ e.phased => Chain(queue, e.base, h.takenBase)
      /\ Len(queue) = 1 /\ Admitted(g, slot) # <<>> => q.offset = h.takenBase
  BY QueueLinks
<1>3. \A i \in 1 .. Len(h.placed) : h.placed[i].slot >= slot + 1
  BY TakeLive
<1>4. queue # <<>> => /\ q \in Admissions /\ q.offset \in Int /\ q.offset < slot + 1
                      /\ Len(rest) = Len(queue) - 1
                      /\ \A i \in 1 .. Len(rest) : rest[i].offset < slot + 1
                      /\ e.phased => /\ q.offset = e.base \/ Starting(q)
                                     /\ Chain(rest, q.offset, h.takenBase)
  <2> SUFFICES ASSUME queue # <<>>
               PROVE  /\ q \in Admissions /\ q.offset \in Int /\ q.offset < slot + 1
                      /\ Len(rest) = Len(queue) - 1
                      /\ \A i \in 1 .. Len(rest) : rest[i].offset < slot + 1
                      /\ e.phased => /\ q.offset = e.base \/ Starting(q)
                                     /\ Chain(rest, q.offset, h.takenBase)
    OBVIOUS
  <2> HIDE DEF queue, h
  <2>1. /\ Len(queue) \in Nat \ {0} /\ q = queue[1] /\ q \in Admissions /\ Len(rest) = Len(queue) - 1
        /\ \A i \in 1 .. Len(rest) : rest[i] = queue[i + 1]
    BY <1>1, EmptySeq, HeadTailProperties
  <2>2. q.offset \in Int
    BY <2>1 DEF Admissions
  <2>3. e.phased => /\ q.offset = e.base \/ Starting(q)
                    /\ Chain(rest, q.offset, h.takenBase)
    BY <1>1, <1>2, ChainShrinks
  <2> HIDE DEF q, rest
  <2>4. 1 \in 1 .. Len(queue) /\ \A i \in 1 .. Len(rest) : i + 1 \in 1 .. Len(queue)
    BY <2>1
  <2>5. QED
    BY <1>2, <2>1, <2>2, <2>3, <2>4
<1>5. \A x, y \in Int : x < y + 1 => x <= y
  OBVIOUS
<1>6. slot < slot + 1
  OBVIOUS
<1>7. e.last # None => e.last \in Int /\ e.base <= e.last /\ e.last < slot + 1
  <2>1. e.last # None => e.last \in Int /\ e.base <= e.last /\ e.last < slot
    BY <1>1 DEF Lagging
  <2>2. QED
    BY <2>1
<1>8. CASE Reinserts(g, e, slot, halted)
  <2>1. f = [e EXCEPT !.deferred = queue, !.last = slot]
    BY <1>8 DEF AfterSlot
  <2>2. e.last # None /\ e.phased
    BY <1>8 DEF Reinserts
  <2>3. e.base <= slot
    <3>1. e.last \in Int /\ e.base <= e.last /\ e.last < slot
      BY <1>1, <2>2 DEF Lagging
    <3>2. QED
      BY <1>1, <3>1
  <2> HIDE DEF queue, f, h
  <2>4. f.deferred = queue /\ f.last = slot /\ f.base = e.base /\ f.phased = e.phased
    BY <1>1, <2>1 DEF Emitters
  <2>5. Lagging(f, slot + 1)
    BY <1>2, <1>6, <2>3, <2>4 DEF Lagging
  <2>6. Linked(h, f, slot + 1)
    BY <1>2, <1>3, <2>2, <2>4 DEF Linked
  <2>7. QED
    BY <2>2, <2>4, <2>5, <2>6 DEF Locks, f, h
<1>9. CASE ~Reinserts(g, e, slot, halted) /\ queue = <<>>
  <2>1. f = e /\ carried.pcr = None
    BY <1>9 DEF AfterSlot, Carried
  <2>2. Chain(queue, e.base, h.takenBase) => Chain(<<>>, e.base, h.takenBase)
    BY <1>9
  <2>3. e.deferred = <<>>
    <3>1. Len(queue) = Len(e.deferred) + IF Takes(g, slot) THEN 1 ELSE 0
      BY QueueType
    <3>2. Len(queue) = 0 /\ Len(e.deferred) \in Nat
      BY <1>1, <1>9, EmptySeq, LenProperties
    <3> DEFINE n == Len(e.deferred)
    <3>3. n \in Nat /\ 0 = n + IF Takes(g, slot) THEN 1 ELSE 0
      BY <3>1, <3>2
    <3> HIDE DEF n
    <3>4. n = 0
      BY <3>3
    <3>5. QED
      BY <1>1, <3>4, EmptySeq DEF n
  <2> HIDE DEF queue, f, h, carried
  <2>4. Lagging(f, slot + 1)
    <3>1. Len(<<>>) = 0
      OBVIOUS
    <3>2. \A i \in 1 .. Len(e.deferred) : FALSE
      BY <2>3, <3>1
    <3>3. QED
      BY <1>7, <2>1, <3>2 DEF Lagging
  <2>5. f.phased => e.phased /\ Linked(h, f, slot + 1)
    BY <1>2, <1>3, <2>1, <2>2, <2>3 DEF Linked
  <2>6. QED
    BY <2>1, <2>4, <2>5 DEF Locks, f, h, carried
<1>10. CASE ~Reinserts(g, e, slot, halted) /\ queue # <<>> /\ ~HasPcr(q.packet)
  <2>1. f = [e EXCEPT !.deferred = rest] /\ carried.pcr = None
    BY <1>10 DEF AfterSlot, Carried
  <2>2. rest \in Seq(Admissions)
    BY <1>1, <1>10, HeadTailProperties
  <2>3. ~Starting(q)
    BY <1>10 DEF Starting
  <2> HIDE DEF queue, f, h, carried, q, rest
  <2>4. f.deferred = rest /\ f.last = e.last /\ f.base = e.base /\ f.phased = e.phased
    BY <2>1 DEF Emitters
  <2>5. Lagging(f, slot + 1)
    BY <1>4, <1>7, <1>10, <2>4 DEF Lagging
  <2>6. f.phased => e.phased /\ Linked(h, f, slot + 1)
    <3>1. e.phased => q.offset = e.base /\ Chain(rest, e.base, h.takenBase)
      BY <1>4, <1>10, <2>3
    <3>2. QED
      BY <1>3, <2>4, <3>1 DEF Linked
  <2>7. QED
    BY <2>1, <2>5, <2>6 DEF Locks, f, h, carried
<1>11. CASE ~Reinserts(g, e, slot, halted) /\ queue # <<>> /\ HasPcr(q.packet)
  <2> DEFINE phased == e.phased \/ (determined /\ Len(queue) = 1 /\ Admitted(g, slot) # <<>>)
             di == q.packet.di \/ (HasPcr(q.packet) /\ q.starts)
  <2>1. /\ f = [deferred |-> rest, phased |-> phased, last |-> slot, base |-> q.offset]
        /\ carried.di = di
    BY <1>11 DEF AfterSlot, Carried
  <2>2. Starting(q) => di
    BY DEF Starting
  <2>3. rest \in Seq(Admissions)
    BY <1>1, <1>11, HeadTailProperties
  <2>4. q.offset <= slot
    BY <1>4, <1>5, <1>11
  <2>5. phased => \/ e.phased
                  \/ determined /\ Len(queue) = 1 /\ q.offset = h.takenBase
    BY <1>2
  <2> HIDE DEF queue, f, h, carried, q, rest, phased, di
  <2>6. f.deferred = rest /\ f.last = slot /\ f.base = q.offset /\ f.phased = phased
    BY <2>1
  <2>7. Lagging(f, slot + 1)
    BY <1>4, <1>6, <1>11, <2>4, <2>6 DEF Lagging
  <2>8. phased => (e.phased \/ determined) /\ Linked(h, f, slot + 1)
    <3>1. CASE e.phased
      <4>1. Chain(rest, q.offset, h.takenBase)
        BY <1>4, <1>11, <3>1
      <4>2. Linked(h, f, slot + 1)
        BY <1>3, <2>6, <4>1 DEF Linked
      <4>3. QED
        BY <3>1, <4>2
    <3>2. CASE phased /\ ~e.phased
      <4>1. determined /\ Len(queue) = 1 /\ q.offset = h.takenBase
        BY <2>5, <3>2
      <4>2. Len(rest) = 0
        BY <1>4, <1>11, <4>1
      <4>3. Chain(rest, q.offset, h.takenBase)
        BY <4>1, <4>2 DEF Chain, Before
      <4>4. Linked(h, f, slot + 1)
        BY <1>3, <2>6, <4>3 DEF Linked
      <4>5. QED
        BY <4>1, <4>4
    <3>3. QED
      BY <3>1, <3>2
  <2>9. e.phased => carried.di \/ f.base = e.base
    BY <1>4, <1>11, <2>1, <2>2, <2>6
  <2>10. QED
    BY <2>6, <2>7, <2>8, <2>9 DEF Locks, f, h, carried
<1>12. QED
  BY <1>8, <1>9, <1>10, <1>11
-----------------------------------------------------------------------------
(* The ticks of two stretches are those of the whole, or one less.           *)
LEMMA TicksAdd ==
  ASSUME NEW a \in Nat, NEW b \in Nat
  PROVE  /\ TicksOf(a) \in Nat /\ TicksOf(b) \in Nat /\ TicksOf(a + b) \in Nat
         /\ TicksOf(a + b) - TicksOf(a) - TicksOf(b) \in {0, 1}
         /\ TicksOf(a + b) >= TicksOf(a)
<1>1. /\ a * PacketTicks \in Nat /\ b * PacketTicks \in Nat
      /\ (a + b) * PacketTicks = a * PacketTicks + b * PacketTicks
  BY LegNumbers
<1>2. ASSUME NEW x \in Nat, NEW y \in Nat
      PROVE  /\ x \div MuxRate \in Nat /\ (x + y) \div MuxRate \in Nat
             /\ (x + y) \div MuxRate - x \div MuxRate - y \div MuxRate \in {0, 1}
  BY LegNumbers
<1>3. /\ TicksOf(a) \in Nat /\ TicksOf(b) \in Nat /\ TicksOf(a + b) \in Nat
      /\ TicksOf(a + b) - TicksOf(a) - TicksOf(b) \in {0, 1}
  BY <1>1, <1>2 DEF TicksOf
<1>4. QED
  BY <1>3

(* On a clock that wraps at w, what is less than a turn ahead is read as far *)
(* ahead.                                                                    *)
LEMMA ReadAhead ==
  ASSUME NEW x \in Nat, NEW step \in Nat, NEW w \in Nat \ {0}, step < w
  PROVE  LET a == x % w
             b == (x + step) % w
         IN  (IF b >= a THEN b - a ELSE w - a + b) = step
<1> DEFINE a == x % w
           b == (x + step) % w
           k == x \div w
           l == (x + step) \div w
           q == k - l
<1>1. a \in 0 .. w - 1 /\ k \in Int /\ x = w * k + a
  OBVIOUS
<1>2. b \in 0 .. w - 1 /\ l \in Int /\ x + step = w * l + b
  <2> DEFINE y == x + step
  <2>1. y \in Int
    OBVIOUS
  <2> HIDE DEF y
  <2>2. y % w \in 0 .. w - 1 /\ y \div w \in Int /\ y = w * (y \div w) + (y % w)
    BY <2>1
  <2>3. QED
    BY <2>2 DEF y
<1> HIDE DEF a, b, k, l
<1>3. q \in Int /\ w * q = w * k - w * l
  BY <1>1, <1>2
<1>4. w * k \in Int /\ w * l \in Int
  BY <1>1, <1>2
<1> HIDE DEF q
<1>5. b - a - step = w * q
  BY <1>1, <1>2, <1>3, <1>4
<1>6. q = 0 \/ q = -1
  <2>1. CASE q >= 1
    <3>1. w * q >= w
      BY <1>3, <2>1
    <3>2. QED
      BY <1>1, <1>2, <1>5, <3>1
  <2>2. CASE q <= -2
    <3>1. w * q <= -(2 * w)
      BY <1>3, <2>2
    <3>2. QED
      BY <1>1, <1>2, <1>5, <3>1
  <2>3. QED
    BY <1>3, <2>1, <2>2
<1>7. w * q = 0 \/ w * q = -w
  BY <1>6
<1>8. (IF b >= a THEN b - a ELSE w - a + b) = step
  BY <1>1, <1>2, <1>5, <1>7
<1>9. QED
  BY <1>8 DEF a, b

(* Two slots no further apart than the repetition limit read as far apart on *)
(* one time base as the bytes between them.                                  *)
LEMMA SlotsApart ==
  ASSUME NEW base \in Int, NEW from \in Int, NEW to \in Int, base <= from, from <= to,
         to - from <= PcrMaxPackets
  PROVE  ForwardDelta(PcrOn(from, base), PcrOn(to, base)) - TicksOf(to - from) \in {0, 1}
<1> DEFINE u == from - base
           v == to - from
           x == TicksOf(u)
           step == TicksOf(u + v) - TicksOf(u)
<1>1. u \in Nat /\ v \in Nat /\ u + v = to - base /\ v <= PcrMaxPackets
  OBVIOUS
<1>2. /\ PcrOn(from, base) = TicksOf(u) % PcrWrap
      /\ PcrOn(to, base) = TicksOf(u + v) % PcrWrap
  <2>1. from - base >= 0 /\ to - base >= 0
    OBVIOUS
  <2>2. Greatest(from - base, 0) = u /\ Greatest(to - base, 0) = to - base
    BY <2>1 DEF Greatest
  <2>3. u + v = to - base
    BY <1>1
  <2> HIDE DEF u, v
  <2>4. QED
    BY <2>2, <2>3 DEF PcrOn, PcrOfSlot
<1> HIDE DEF u, v
<1>3. /\ TicksOf(u) \in Nat /\ TicksOf(v) \in Nat /\ TicksOf(u + v) \in Nat
      /\ TicksOf(u + v) - TicksOf(u) - TicksOf(v) \in {0, 1}
  BY <1>1, TicksAdd
<1>4. TicksOf(v) <= TicksOf(PcrMaxPackets) /\ TicksOf(PcrMaxPackets) \in Nat
  <2> DEFINE more == PcrMaxPackets - v
  <2>1. more \in Nat /\ v + more = PcrMaxPackets
    BY <1>1, StreamLegAssumption DEF StreamLegAssumption
  <2> HIDE DEF more
  <2>2. TicksOf(v + more) >= TicksOf(v) /\ TicksOf(v + more) \in Nat
    BY <1>1, <2>1, TicksAdd
  <2>3. QED
    BY <2>1, <2>2
<1>5. TicksOf(PcrMaxPackets) + 1 < PcrWrap /\ PcrWrap \in Nat \ {0}
  BY LegNumbers, StreamLegAssumption DEF StreamLegAssumption
<1>6. /\ x \in Nat /\ step \in Nat /\ step < PcrWrap /\ TicksOf(u + v) = x + step
      /\ step - TicksOf(v) \in {0, 1}
  BY <1>3, <1>4, <1>5
<1>7. PcrOn(from, base) = x % PcrWrap /\ PcrOn(to, base) = (x + step) % PcrWrap
  BY <1>2, <1>6
<1> HIDE DEF x, step
<1>8. ForwardDelta(PcrOn(from, base), PcrOn(to, base)) = step
  <2> DEFINE a == x % PcrWrap
             b == (x + step) % PcrWrap
  <2>1. (IF b >= a THEN b - a ELSE PcrWrap - a + b) = step
    BY <1>5, <1>6, ReadAhead
  <2>2. ForwardDelta(a, b) = IF b >= a THEN b - a ELSE PcrWrap - a + b
    BY DEF ForwardDelta
  <2> HIDE DEF a, b
  <2>3. ForwardDelta(a, b) = step
    BY <2>1, <2>2
  <2>4. QED
    BY <1>7, <2>3 DEF a, b
<1>9. QED
  BY <1>6, <1>8 DEF v
-----------------------------------------------------------------------------
(* No packet that is placed is dropped for want of room: the drop at         *)
(* capacity takes the oldest, which may be the one flagged for its base.     *)
NothingShed == [][grid.open # None => grid'.shed = grid.shed]_vars

(* What a leg in phase relies on.  Its slots lie before the open run, all    *)
(* that it holds is placed ahead of it, and what it defers is linked to the  *)
(* last PCR it sent.                                                         *)
LiveInv ==
  /\ StampedGrid(grid) /\ MarkedGrid(grid) /\ (~source.closing => Going(grid))
  /\ Lagging(emitter, clock.slot)
  /\ emitter.phased =>
       /\ Linked(grid, emitter, clock.slot) /\ grid.open # None
       /\ datagram = None => clock.slot <= grid.open.slot
       /\ datagram # None => datagram.determined
  /\ datagram # None /\ datagram.determined =>
       grid.open # None /\ datagram.left >= 1 /\ clock.slot + datagram.left <= grid.open.slot
  /\ count.begun = 0 => emitter.last = None /\ emitter.deferred = <<>> /\ ~emitter.phased

LEMMA InitLive == Init => LiveInv
<1> SUFFICES ASSUME Init PROVE LiveInv
  OBVIOUS
<1>1. /\ grid = NewGrid /\ emitter = NewEmitter /\ datagram = None
  BY DEF Init
<1>2. Len(<<>>) = 0
  OBVIOUS
<1>3. StampedGrid(grid) /\ MarkedGrid(grid) /\ Going(grid)
  BY <1>1, <1>2 DEF NewGrid, StampedGrid, MarkedGrid, Going
<1>4. Lagging(emitter, clock.slot) /\ emitter.last = None /\ emitter.deferred = <<>> /\ ~emitter.phased
  BY <1>1, <1>2 DEF NewEmitter, Lagging
<1>5. QED
  BY <1>1, <1>3, <1>4 DEF LiveInv

(* What is behind stays behind as the clock moves on.                        *)
LEMMA StillLagging ==
  ASSUME NEW e \in Emitters, NEW s \in Int, NEW t \in Int, s <= t, Lagging(e, s)
  PROVE  Lagging(e, t)
<1>1. e.last \in Int \cup {None} /\ e.deferred \in Seq(Admissions)
  BY DEF Emitters
<1>2. \A i \in 1 .. Len(e.deferred) : e.deferred[i] \in Admissions
  BY <1>1, ElementOfSeq
<1>3. \A i \in 1 .. Len(e.deferred) : e.deferred[i].offset \in Int
  BY <1>2 DEF Admissions
<1>4. QED
  BY <1>1, <1>3 DEF Lagging

LEMMA LiveStep ==
  ASSUME LegType, NumberInv, WatchInv, LiveInv, [Next]_vars,
         [grid.open # None => grid'.shed = grid.shed]_vars
  PROVE  LiveInv'
<1>0. /\ clock \in Clocks /\ clock.slot \in Int /\ emitter \in Emitters /\ count \in Counts
      /\ datagram \in Datagrams \cup {None} /\ GridInv(grid) /\ grid \in Grids /\ source \in Sources
      /\ PacketsPerDatagram \in Nat \ {0} /\ now \in Int /\ (grid.open # None => grid.open.slot \in Int)
  BY LegNumbers DEF LegType, Clocks, GridInv, Grids, Openings, WatchInv
<1>1. CASE Deliver
  <2> DEFINE p == Sending[path.next]
             horizon == IF count.begun > 0 THEN clock.slot + Capacity ELSE None
             h == PushGrid(grid, p, now, horizon, Capacity)
  <2>1. /\ datagram = None /\ UNCHANGED <<emitter, datagram, count>> /\ ~source.closing
        /\ path.next <= Len(Sending) /\ p \in Packets /\ grid' = h
        /\ source' = [source EXCEPT !.at = now, !.stalled = FALSE, !.since = now]
    BY <1>1, SendingType DEF Deliver, Polling, Idle, Enqueue
  <2>2. source'.closing = source.closing
    BY <1>0, <2>1 DEF Sources
  <2>3. count.begun # 0 => clock' = clock
    BY <1>1, SendingType, EnqueueKeeps DEF Deliver
  <2>4. clock'.slot \in Int
    <3>1. clock' \in Clocks
      BY <1>1, SendingType, EnqueueKeeps DEF Deliver
    <3>2. QED
      BY <3>1 DEF Clocks
  <2>5. HasPcr(p) => p.pcr < PcrWrap
    <3>1. feed \in DOMAIN Feeds /\ path.next \in 1 .. Len(Feeds[feed]) /\ p = Feeds[feed][path.next]
      <4>1. Sending = Feeds[feed] /\ feed \in DOMAIN Feeds /\ path.next \in Nat \ {0}
        BY DEF Sending, LegType, Paths
      <4>2. Len(Feeds[feed]) \in Nat
        BY <4>1, FeedsAssumption, LenProperties DEF FeedsAssumption
      <4>3. QED
        BY <2>1, <4>1, <4>2
    <3>2. QED
      BY <3>1, FeedsAssumption DEF FeedsAssumption, HasPcr
  <2>6. grid.open = None \/ h.shed = grid.shed
    <3>1. grid.open # None => grid'.shed = grid.shed
      BY DEF vars
    <3> HIDE DEF h
    <3>2. QED
      BY <2>1, <3>1
  <2>7. Capacity \in Nat \ {0}
    <3>1. LatencyToPackets(MaxLatency) \in Int
      BY LegNumbers, SlotsAreNumbers
    <3>2. QED
      BY <3>1 DEF Capacity, Greatest
  <2>8. StampedGrid(grid) /\ MarkedGrid(grid) /\ Going(grid)
    BY <2>1 DEF LiveInv
  <2>9. StampedGrid(h) /\ MarkedGrid(h) /\ Going(h) /\ Follows(grid, h)
    <3> HIDE DEF p, horizon
    <3>1. QED
      BY <1>0, <2>1, <2>5, <2>6, <2>7, <2>8, PushStamps
  <2> HIDE DEF h, p, horizon
  <2>10. GridInv(h)
    BY <1>1, <2>1, EnqueueKeeps DEF Deliver, p
  <2>11. CASE count.begun = 0
    <3>1. emitter.last = None /\ emitter.deferred = <<>> /\ ~emitter.phased
      BY <2>11 DEF LiveInv
    <3>2. Lagging(emitter, clock'.slot)
      <4>1. Len(<<>>) = 0
        OBVIOUS
      <4>2. QED
        BY <3>1, <4>1 DEF Lagging
    <3>3. QED
      BY <2>1, <2>2, <2>9, <3>1, <3>2 DEF LiveInv
  <2>12. CASE count.begun # 0
    <3>1. clock' = clock /\ Lagging(emitter, clock.slot)
      BY <2>3, <2>12 DEF LiveInv
    <3>2. ASSUME emitter.phased
          PROVE  /\ Linked(h, emitter, clock.slot) /\ h.open # None /\ clock.slot <= h.open.slot
      <4>1. /\ Linked(grid, emitter, clock.slot) /\ grid.open # None /\ clock.slot <= grid.open.slot
        BY <2>1, <3>2 DEF LiveInv
      <4>2. /\ h.takenBase = grid.takenBase /\ h.open # None /\ h.open.slot >= grid.open.slot
            /\ \A i \in 1 .. Len(h.placed) :
                 \/ \E j \in 1 .. Len(grid.placed) : h.placed[i] = grid.placed[j]
                 \/ h.placed[i].slot >= grid.open.slot
        BY <2>9, <4>1 DEF Follows
      <4>3. h.open.slot \in Int /\ \A i \in 1 .. Len(h.placed) : h.placed[i].slot \in Int
        <5>1. h \in Grids
          BY <2>10 DEF GridInv
        <5>2. h.open \in Openings
          BY <4>2, <5>1 DEF Grids
        <5>3. QED
          BY <2>10, <5>2, PlacesType DEF Openings
      <4>4. clock.slot <= h.open.slot
        BY <1>0, <4>1, <4>2, <4>3
      <4>5. ASSUME NEW i \in 1 .. Len(h.placed) PROVE h.placed[i].slot >= clock.slot
        <5>1. CASE \E j \in 1 .. Len(grid.placed) : h.placed[i] = grid.placed[j]
          BY <4>1, <5>1 DEF Linked
        <5>2. CASE h.placed[i].slot >= grid.open.slot
          <6>1. h.placed[i].slot \in Int /\ grid.open.slot \in Int
            BY <1>0, <4>1, <4>3
          <6>2. QED
            BY <1>0, <4>1, <5>2, <6>1
        <5>3. QED
          BY <4>2, <5>1, <5>2
      <4>6. Linked(h, emitter, clock.slot)
        BY <4>1, <4>2, <4>5 DEF Linked
      <4>7. QED
        BY <4>2, <4>4, <4>6
    <3>3. QED
      BY <2>1, <2>2, <2>9, <2>12, <3>1, <3>2 DEF LiveInv
  <2>13. QED
    BY <2>11, <2>12
<1>2. CASE Silent
  <2>1. clock'.slot = clock.slot /\ UNCHANGED <<grid, emitter, datagram, count>>
    BY <1>0, <1>2 DEF Silent, Clocks
  <2>2. source'.closing = source.closing
    BY <1>0, <1>2 DEF Silent, Sources
  <2>3. QED
    BY <2>1, <2>2 DEF LiveInv
<1>3. CASE End
  <2>1. /\ clock'.slot = clock.slot /\ UNCHANGED <<emitter, datagram, count>> /\ grid' = FlushGrid(grid)
    BY <1>0, <1>3 DEF End, Clocks
  <2>2. source'.closing
    BY <1>0, <1>3 DEF End, Sources
  <2>3. /\ grid'.placed = grid.placed /\ grid'.bases = grid.bases /\ grid'.open = grid.open
        /\ grid'.takenBase = grid.takenBase /\ grid'.nextFree = grid.nextFree /\ grid'.epoch = grid.epoch
        /\ grid'.rebased = grid.rebased /\ grid'.openBase = grid.openBase /\ grid'.run = <<>>
    BY <1>0, <2>1 DEF FlushGrid, Grids
  <2>8. StampedGrid(grid) /\ MarkedGrid(grid)
    BY DEF LiveInv
  <2>4. StampedGrid(grid')
    BY <2>3, <2>8 DEF StampedGrid
  <2>5. MarkedGrid(grid')
    BY <2>3, <2>8 DEF MarkedGrid
  <2>6. emitter.phased => Linked(grid', emitter, clock.slot)
    BY <2>3 DEF LiveInv, Linked
  <2>7. QED
    BY <2>1, <2>2, <2>3, <2>4, <2>5, <2>6 DEF LiveInv
<1>4. CASE MuteSlot
  <2>1. /\ datagram = None /\ UNCHANGED <<grid, datagram, count>>
        /\ clock'.slot = clock.slot + PacketsPerDatagram
        /\ emitter' = [emitter EXCEPT !.phased = FALSE]
    BY <1>0, <1>4 DEF MuteSlot, Due, Idle, Clocks
  <2>2. source'.closing = source.closing
    BY <1>0, <1>4 DEF MuteSlot, Sources
  <2>3. /\ emitter'.phased = FALSE /\ emitter'.last = emitter.last /\ emitter'.base = emitter.base
        /\ emitter'.deferred = emitter.deferred
    BY <1>0, <2>1 DEF Emitters
  <2>4. Lagging(emitter, clock'.slot)
    <3>1. clock'.slot \in Int /\ clock.slot <= clock'.slot
      BY <1>0, <2>1
    <3>2. QED
      BY <1>0, <3>1, StillLagging DEF LiveInv
  <2>5. Lagging(emitter', clock'.slot)
    BY <2>3, <2>4 DEF Lagging
  <2>6. QED
    BY <2>1, <2>2, <2>3, <2>5 DEF LiveInv
<1>5. CASE OpenDatagram
  <2> DEFINE determined == ~Stalled /\ Determined(grid, CaughtUp.slot, CaughtUp.slot + PacketsPerDatagram)
             phased == emitter.phased /\ ~CatchesUp /\ determined
             deferred == IF CatchesUp THEN <<>> ELSE emitter.deferred
  <2>1. /\ datagram = None /\ UNCHANGED grid /\ clock' = CaughtUp
        /\ emitter' = [emitter EXCEPT !.deferred = deferred, !.phased = phased]
        /\ datagram' = [left |-> PacketsPerDatagram, next |-> clock.slot, stalled |-> Stalled,
                        determined |-> determined, send |-> phased]
        /\ source' = [source EXCEPT !.stalled = Stalled]
    BY <1>5 DEF OpenDatagram, Due, Idle
  <2>2. source'.closing = source.closing
    BY <1>0, <2>1 DEF Sources
  <2>3. count'.begun = 1
    BY <1>0, <1>5 DEF OpenDatagram, Counts
  <2>4. determined => grid.open # None /\ clock'.slot + PacketsPerDatagram <= grid.open.slot
    BY <2>1 DEF Determined
  <2>5. ~CatchesUp => clock' = clock
    BY <2>1 DEF CaughtUp
  <2>6. clock'.slot \in Int /\ clock.slot <= clock'.slot
    BY <1>0, <2>1, CatchUpType DEF Clocks
  <2> HIDE DEF determined, deferred, phased
  <2>7. /\ emitter'.phased = phased /\ emitter'.last = emitter.last /\ emitter'.base = emitter.base
        /\ emitter'.deferred = deferred
        /\ datagram'.left = PacketsPerDatagram /\ datagram'.determined = determined
    BY <1>0, <2>1 DEF Emitters
  <2>8. Lagging(emitter', clock'.slot)
    <3>1. Lagging(emitter, clock'.slot)
      BY <1>0, <2>6, StillLagging DEF LiveInv
    <3>2. CASE CatchesUp
      <4>1. emitter'.deferred = <<>> /\ Len(<<>>) = 0
        BY <2>7, <3>2 DEF deferred
      <4>2. QED
        BY <2>7, <3>1, <4>1 DEF Lagging
    <3>3. CASE ~CatchesUp
      <4>1. emitter'.deferred = emitter.deferred
        BY <2>7, <3>3 DEF deferred
      <4>2. QED
        BY <2>7, <3>1, <4>1 DEF Lagging
    <3>4. QED
      BY <3>2, <3>3
  <2>9. phased => /\ Linked(grid, emitter', clock'.slot) /\ grid.open # None /\ determined
    <3> SUFFICES ASSUME phased
                 PROVE  Linked(grid, emitter', clock'.slot) /\ grid.open # None /\ determined
      OBVIOUS
    <3>1. emitter.phased /\ ~CatchesUp /\ determined
      BY DEF phased
    <3>2. clock'.slot = clock.slot /\ emitter'.deferred = emitter.deferred
      BY <2>5, <2>7, <3>1 DEF deferred
    <3>3. Linked(grid, emitter, clock.slot)
      BY <3>1 DEF LiveInv
    <3>4. QED
      BY <2>4, <2>7, <3>1, <3>2, <3>3 DEF Linked
  <2>10. determined => clock'.slot <= grid.open.slot
    BY <1>0, <2>4, <2>6
  <2>11. QED
    BY <1>0, <2>1, <2>2, <2>3, <2>4, <2>7, <2>8, <2>9, <2>10 DEF LiveInv
<1>6. CASE EmitSlot
  <2> DEFINE slot == clock.slot
             halted == datagram.stalled
             determined == datagram.determined
  <2>1. /\ datagram \in Datagrams /\ datagram # None /\ determined \in BOOLEAN /\ halted \in BOOLEAN
        /\ datagram.left \in Int
    BY <1>0, <1>6 DEF EmitSlot, Datagrams
  <2>2. /\ clock'.slot = slot + 1
        /\ emitter' = AfterSlot(grid, emitter, slot, halted, determined)
        /\ grid' = TakeGrid(grid, slot)
    BY <1>0, <1>6 DEF EmitSlot, Clocks
  <2>3. count.begun = 1 /\ count'.begun = count.begun
    BY <1>0, <1>6, <2>1 DEF EmitSlot, NumberInv, Counts
  <2>4. source'.closing = source.closing
    BY <1>0, <1>6 DEF EmitSlot, Sources
  <2>5. IF datagram.left > 1
          THEN datagram'.left = datagram.left - 1 /\ datagram'.determined = determined
          ELSE datagram' = None
    <3>1. datagram' = IF datagram.left > 1
                        THEN [datagram EXCEPT !.left = datagram.left - 1, !.next = datagram.next + 1] ELSE None
      BY <1>6 DEF EmitSlot
    <3>2. QED
      BY <2>1, <3>1 DEF Datagrams
  <2>6. /\ grid'.open = grid.open /\ grid'.run = grid.run /\ StampedGrid(grid') /\ MarkedGrid(grid')
    <3>1. StampedGrid(grid) /\ MarkedGrid(grid)
      BY DEF LiveInv
    <3>2. QED
      BY <1>0, <2>2, <3>1, TakeStamps, TakePasses
  <2>7. Locks(grid, emitter, slot, halted, determined)
    <3>1. /\ StampedGrid(grid) /\ MarkedGrid(grid) /\ Lagging(emitter, slot)
          /\ emitter.phased => Linked(grid, emitter, slot)
      BY DEF LiveInv
    <3>2. slot \in Int
      BY <1>0
    <3> HIDE DEF slot, halted, determined
    <3>3. QED
      BY <1>0, <2>1, <3>1, <3>2, SlotLocks
  <2>8. /\ Lagging(emitter', slot + 1)
        /\ emitter'.phased => (emitter.phased \/ determined) /\ Linked(grid', emitter', slot + 1)
    BY <2>2, <2>7 DEF Locks
  <2>9. emitter.phased => determined
    BY <2>1 DEF LiveInv
  <2>10. determined => grid.open # None /\ datagram.left >= 1 /\ slot + datagram.left <= grid.open.slot
    BY <2>1 DEF LiveInv
  <2>11. Going(grid) => Going(grid')
    BY <2>6 DEF Going
  <2> HIDE DEF halted
  <2>12. datagram' # None /\ datagram'.determined =>
           grid'.open # None /\ datagram'.left >= 1 /\ slot + 1 + datagram'.left <= grid'.open.slot
    <3> SUFFICES ASSUME datagram' # None, datagram'.determined
                 PROVE  grid'.open # None /\ datagram'.left >= 1
                        /\ slot + 1 + datagram'.left <= grid'.open.slot
      OBVIOUS
    <3>1. datagram.left > 1 /\ datagram'.left = datagram.left - 1 /\ determined
      BY <2>5
    <3>2. grid.open # None /\ slot + datagram.left <= grid.open.slot /\ grid.open.slot \in Int
      BY <1>0, <2>10, <3>1
    <3>3. slot \in Int
      BY <1>0
    <3> HIDE DEF slot, determined
    <3>4. QED
      BY <2>1, <2>6, <3>1, <3>2, <3>3
  <2>13. emitter'.phased => /\ grid'.open # None
                            /\ datagram' = None => slot + 1 <= grid'.open.slot
                            /\ datagram' # None => datagram'.determined
    <3> SUFFICES ASSUME emitter'.phased
                 PROVE  /\ grid'.open # None
                        /\ datagram' = None => slot + 1 <= grid'.open.slot
                        /\ datagram' # None => datagram'.determined
      OBVIOUS
    <3>1. determined
      BY <2>8, <2>9
    <3>2. /\ grid.open # None /\ datagram.left >= 1 /\ slot + datagram.left <= grid.open.slot
          /\ grid.open.slot \in Int /\ slot \in Int
      BY <1>0, <2>10, <3>1
    <3> HIDE DEF slot
    <3>3. slot + 1 <= grid.open.slot
      BY <2>1, <3>2
    <3>4. QED
      BY <2>5, <2>6, <3>1, <3>2, <3>3
  <2>14. QED
    BY <2>2, <2>3, <2>4, <2>6, <2>8, <2>11, <2>12, <2>13 DEF LiveInv
<1>7. CASE Lose \/ Finish \/ Tick \/ UNCHANGED vars
  <2>1. UNCHANGED <<clock, grid, emitter, datagram, count>> /\ source'.closing = source.closing
    BY <1>0, <1>7 DEF Lose, Finish, Tick, vars, Sources
  <2>2. QED
    BY <2>1 DEF LiveInv
<1>8. QED
  BY <1>1, <1>2, <1>3, <1>4, <1>5, <1>6, <1>7 DEF Next

(* A PCR sent within a stretch is as far from the one before as the bytes    *)
(* between them, or flagged: a splice or wrap of the source, a PCR that is   *)
(* re-inserted before its content's turn, and a queue across a change of     *)
(* base included, as long as no placed packet is dropped for want of room.   *)
THEOREM PcrsByteLocked == Spec /\ NothingShed => PcrByteLocked
<1> DEFINE Lock == /\ wire # None /\ wire'.slot > wire.slot /\ wire'.packet.pcr # None
                   /\ wire'.slot = wire.slot + 1 /\ wire.last # None
                   => \/ wire'.packet.di
                      \/ ForwardDelta(wire.last.pcr, wire'.packet.pcr)
                           - TicksOf(wire'.slot - wire.last.slot) \in {0, 1}
           Kept == grid.open # None => grid'.shed = grid.shed
<1>1. ASSUME LegType, NumberInv, StretchInv, LiveInv, [Next]_vars
      PROVE  [Lock]_wire
  <2> SUFFICES ASSUME wire' # wire, wire # None, wire'.packet.pcr # None,
                      wire'.slot = wire.slot + 1, wire.last # None
               PROVE  \/ wire'.packet.di
                      \/ ForwardDelta(wire.last.pcr, wire'.packet.pcr)
                           - TicksOf(wire'.slot - wire.last.slot) \in {0, 1}
    OBVIOUS
  <2> DEFINE slot == clock.slot
             carried == Carried(grid, emitter, slot, FALSE)
             f == AfterSlot(grid, emitter, slot, FALSE, datagram.determined)
             b == emitter.base
             l == wire.last.slot
  <2>1. EmitSlot
    BY <1>1 DEF Next, Deliver, Lose, Silent, End, MuteSlot, OpenDatagram, Finish, Tick, vars
  <2>2. /\ datagram \in Datagrams /\ datagram # None /\ datagram.determined \in BOOLEAN
        /\ slot \in Int /\ GridInv(grid) /\ emitter \in Emitters /\ b \in Int
        /\ wire.slot \in Int /\ PcrMaxPackets \in Nat \ {0}
    BY <1>1, <2>1, StreamLegAssumption
    DEF EmitSlot, LegType, Datagrams, Clocks, Emitters, NumberInv, StreamLegAssumption
  <2>3. datagram.send
    BY <2>1 DEF EmitSlot
  <2>4. emitter.phased /\ datagram.next = slot /\ datagram.stalled = FALSE /\ grid.open # None
    BY <1>1, <2>2, <2>3 DEF StretchInv, Datagrams
  <2>5. wire' = Sends(slot, carried)
    BY <2>1, <2>3, <2>4 DEF EmitSlot
  <2>6. wire'.slot = slot /\ wire'.packet = carried /\ wire.slot + 1 = slot
    <3> HIDE DEF carried
    <3>1. wire'.slot = slot /\ wire'.packet = carried
      BY <2>5 DEF Sends
    <3>2. QED
      BY <3>1
  <2>7. /\ emitter.last = l /\ wire.last.pcr = PcrOn(l, b) /\ l \in Int
        /\ wire.slot - l \in 0 .. PcrMaxPackets - 1
    BY <1>1, <2>6 DEF StretchInv
  <2>8. b <= l /\ l <= slot /\ slot - l <= PcrMaxPackets
    <3>1. emitter.last # None => emitter.base <= emitter.last
      BY <1>1 DEF LiveInv, Lagging
    <3>2. l # None
      BY <2>7, LegNumbers
    <3> HIDE DEF slot, b, l
    <3>3. QED
      BY <2>2, <2>6, <2>7, <3>1, <3>2 DEF b, l
  <2>9. carried.pcr # None
    BY <2>6
  <2>10. carried.pcr = PcrOn(slot, f.base)
    <3>1. Says(emitter, f, slot, carried)
      BY <2>2, <2>4, SlotSays
    <3> HIDE DEF f, carried
    <3>2. QED
      BY <2>9, <3>1 DEF Says
  <2>11. carried.di \/ f.base = b
    <3>1. /\ StampedGrid(grid) /\ MarkedGrid(grid) /\ Lagging(emitter, slot)
          /\ emitter.phased => Linked(grid, emitter, slot)
      BY <1>1 DEF LiveInv
    <3>2. Locks(grid, emitter, slot, FALSE, datagram.determined)
      <4>1. FALSE \in BOOLEAN
        OBVIOUS
      <4> HIDE DEF slot
      <4>2. QED
        BY <2>2, <3>1, <4>1, SlotLocks
    <3>3. QED
      BY <2>4, <2>9, <3>2 DEF Locks
  <2> HIDE DEF slot, carried, f, b, l
  <2>12. CASE carried.di
    BY <2>6, <2>12
  <2>13. CASE f.base = b
    <3>1. ForwardDelta(PcrOn(l, b), PcrOn(slot, b)) - TicksOf(slot - l) \in {0, 1}
      BY <2>2, <2>7, <2>8, SlotsApart
    <3>2. QED
      BY <2>6, <2>7, <2>10, <2>13, <3>1 DEF l
  <2>14. QED
    BY <2>11, <2>12, <2>13
<1>2. ASSUME LegType, NumberInv, WatchInv, LiveInv, [Next]_vars, [Kept]_vars
      PROVE  LiveInv'
  BY <1>2, LiveStep
<1>3. Spec /\ [][Kept]_vars => [][Lock]_wire
  BY <1>1, <1>2, InitLeg, InitTiming, InitStretch, InitLive, TypeStep, NumberStep, TimingStep,
     StretchStep, PTL DEF Spec
<1>4. QED
  BY <1>3 DEF NothingShed, PcrByteLocked
=============================================================================
