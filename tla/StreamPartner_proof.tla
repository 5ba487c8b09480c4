-------------------------- MODULE StreamPartner_proof --------------------------
(***************************************************************************)
(* That two legs never contradict each other: the ideal partner, slot by   *)
(* slot, and a leg that judges the source's PCRs as the partner does.      *)
(***************************************************************************)
EXTENDS StreamTiming_proof

(* Counting up. *)
LEMMA Upwards ==
  ASSUME NEW size \in Nat, NEW T, 0 \in T,
         \A i \in 1 .. size : i - 1 \in T => i \in T
  PROVE  \A i \in 0 .. size : i \in T
<1> DEFINE Out == {i \in 0 .. size : i \notin T}
<1>1. CASE Out = {}
  BY <1>1
<1>2. CASE Out # {}
  <2>1. Out \in SUBSET Nat
    OBVIOUS
  <2>2. PICK m \in Out : \A n \in Out : m <= n
    <3> HIDE DEF Out
    <3>1. QED
      BY <1>2, <2>1, LeastNumber
  <2>3. m \in 1 .. size /\ m \notin T
    <3>1. m \in 0 .. size /\ m \notin T
      BY <2>2
    <3>2. m # 0
      BY <3>1
    <3>3. QED
      BY <3>1, <3>2
  <2>4. m - 1 \notin Out
    <3>1. ~(m <= m - 1)
      BY <2>3
    <3> HIDE DEF Out
    <3>2. QED
      BY <2>2, <3>1
  <2>5. m - 1 \in T
    BY <2>3, <2>4
  <2>6. QED
    BY <2>3, <2>5
<1>3. QED
  BY <1>1, <1>2
-----------------------------------------------------------------------------
(* What the recursions of the ideal partner compute.  Its grid: every packet *)
(* is pushed on the grid before it.                                          *)
Pushed(f, i, before) == PushGrid(before, f[i], f[i].at, PartnerHorizon(f, f[i].at), Len(f))
Grows(g, f, size) == g = [i \in 0 .. size |-> IF i = 0 THEN NewGrid ELSE Pushed(f, i, g[i - 1])]

LEMMA GridsSolve ==
  ASSUME NEW f, NEW size \in Nat
  PROVE  \E g : Grows(g, f, size)
<1> DEFINE T == {k \in 0 .. size : \E g : Grows(g, f, k)}
<1>1. 0 \in T
  <2> DEFINE g == [i \in 0 .. 0 |-> NewGrid]
  <2>1. g = [i \in 0 .. 0 |-> IF i = 0 THEN NewGrid ELSE Pushed(f, i, g[i - 1])]
    OBVIOUS
  <2>2. Grows(g, f, 0)
    BY <2>1 DEF Grows
  <2>3. QED
    BY <2>2
<1>2. ASSUME NEW k \in 1 .. size, k - 1 \in T PROVE k \in T
  <2>1. PICK g : Grows(g, f, k - 1)
    BY <1>2
  <2> DEFINE h == [i \in 0 .. k |-> IF i = k THEN Pushed(f, k, g[k - 1]) ELSE g[i]]
             H(i) == IF i = 0 THEN NewGrid ELSE Pushed(f, i, h[i - 1])
  <2>2. ASSUME NEW i \in 0 .. k PROVE h[i] = H(i)
    <3>1. CASE i = k
      <4>1. k - 1 \in 0 .. k /\ k - 1 # k /\ k # 0
        OBVIOUS
      <4>2. h[k - 1] = g[k - 1] /\ h[k] = Pushed(f, k, g[k - 1])
        BY <4>1
      <4> HIDE DEF h
      <4>3. QED
        BY <3>1, <4>1, <4>2
    <3>2. CASE i # k
      <4>1. i \in 0 .. k - 1 /\ i \in 0 .. k
        BY <3>2
      <4>2. h[i] = g[i]
        BY <3>2
      <4>3. g[i] = IF i = 0 THEN NewGrid ELSE Pushed(f, i, g[i - 1])
        BY <2>1, <4>1, Zenon DEF Grows
      <4>4. i # 0 => h[i - 1] = g[i - 1]
        BY <4>1
      <4> HIDE DEF h
      <4>5. QED
        BY <4>2, <4>3, <4>4
    <3>3. QED
      BY <3>1, <3>2
  <2>3. h = [i \in 0 .. k |-> H(i)]
    <3>1. h = [i \in 0 .. k |-> h[i]]
      OBVIOUS
    <3> HIDE DEF h
    <3>2. QED
      BY <2>2, <3>1
  <2>4. Grows(h, f, k)
    BY <2>3, Zenon DEF Grows
  <2> HIDE DEF h
  <2>5. QED
    BY <2>4
<1>3. size \in T
  <2> HIDE DEF T
  <2>1. \A i \in 0 .. size : i \in T
    BY <1>1, <1>2, Upwards
  <2>2. QED
    BY <2>1
<1>4. QED
  BY <1>3

LEMMA GridsAre ==
  ASSUME NEW f, Len(f) \in Nat
  PROVE  /\ PartnerGrids(f)[0] = NewGrid
         /\ \A i \in 1 .. Len(f) : PartnerGrids(f)[i] = Pushed(f, i, PartnerGrids(f)[i - 1])
<1> DEFINE G == PartnerGrids(f)
           n == Len(f)
<1>1. \E g : Grows(g, f, n)
  BY GridsSolve
<1>2. Grows(G, f, n)
  <2>1. G = CHOOSE g : g = [i \in 0 .. n |-> IF i = 0 THEN NewGrid ELSE Pushed(f, i, g[i - 1])]
    BY DEF PartnerGrids, Pushed
  <2>2. G = CHOOSE g : Grows(g, f, n)
    BY <2>1 DEF Grows
  <2> HIDE DEF G
  <2>3. QED
    BY <1>1, <2>2, Zenon
<1>3. G = [i \in 0 .. n |-> IF i = 0 THEN NewGrid ELSE Pushed(f, i, G[i - 1])]
  BY <1>2, Zenon DEF Grows
<1> HIDE DEF G, n
<1>4. ASSUME NEW i \in 0 .. n
      PROVE  G[i] = IF i = 0 THEN NewGrid ELSE Pushed(f, i, G[i - 1])
  BY <1>3
<1>5. n \in Nat
  BY DEF n
<1>6. QED
  BY <1>4, <1>5 DEF G, n

(* Its slots: every one takes from the grid the one before it left.          *)
SlotAfter(before, n) ==
  [grid    |-> TakeGrid(before.grid, n),
   emitter |-> AfterSlot(before.grid, before.emitter, n, FALSE, TRUE)]
OnAir(whole) == [grid |-> whole, emitter |-> NewEmitter]
Emits(r, whole, first, size) ==
  r = [n \in first .. first + size |-> IF n = first THEN OnAir(whole) ELSE SlotAfter(r[n - 1], n)]

LEMMA SlotsSolve ==
  ASSUME NEW whole, NEW first \in Int, NEW size \in Nat
  PROVE  \E r : Emits(r, whole, first, size)
<1> DEFINE T == {k \in 0 .. size : \E r : Emits(r, whole, first, k)}
<1>1. 0 \in T
  <2> DEFINE r == [n \in first .. first + 0 |-> OnAir(whole)]
  <2>1. r = [n \in first .. first + 0 |-> IF n = first THEN OnAir(whole) ELSE SlotAfter(r[n - 1], n)]
    <3>1. \A n \in first .. first + 0 : n = first
      OBVIOUS
    <3>2. QED
      BY <3>1
  <2>2. Emits(r, whole, first, 0)
    BY <2>1 DEF Emits
  <2>3. QED
    BY <2>2
<1>2. ASSUME NEW k \in 1 .. size, k - 1 \in T PROVE k \in T
  <2>1. PICK r : Emits(r, whole, first, k - 1)
    BY <1>2
  <2> DEFINE last == first + k
             h == [n \in first .. last |-> IF n = last THEN SlotAfter(r[last - 1], last) ELSE r[n]]
             H(n) == IF n = first THEN OnAir(whole) ELSE SlotAfter(h[n - 1], n)
  <2>2. last \in Int /\ last > first /\ last - 1 = first + (k - 1)
    OBVIOUS
  <2>3. r = [n \in first .. last - 1 |-> IF n = first THEN OnAir(whole) ELSE SlotAfter(r[n - 1], n)]
    BY <2>1, <2>2, Zenon DEF Emits
  <2> HIDE DEF last
  <2>4. ASSUME NEW n \in first .. last PROVE h[n] = H(n)
    <3>1. CASE n = last
      <4>1. last - 1 \in first .. last /\ last - 1 # last /\ last # first /\ last \in first .. last
        BY <2>2
      <4>2. h[last - 1] = r[last - 1] /\ h[last] = SlotAfter(r[last - 1], last)
        BY <4>1
      <4> HIDE DEF h
      <4>3. QED
        BY <3>1, <4>1, <4>2
    <3>2. CASE n # last
      <4>1. n \in first .. last - 1
        BY <2>2, <3>2
      <4>2. h[n] = r[n]
        BY <3>2
      <4>3. r[n] = IF n = first THEN OnAir(whole) ELSE SlotAfter(r[n - 1], n)
        BY <2>3, <4>1, Zenon
      <4>4. n # first => h[n - 1] = r[n - 1]
        <5>1. n # first => n - 1 \in first .. last /\ n - 1 # last
          BY <2>2, <4>1
        <5>2. QED
          BY <5>1
      <4> HIDE DEF h
      <4>5. QED
        BY <4>2, <4>3, <4>4
    <3>3. QED
      BY <3>1, <3>2
  <2>5. h = [n \in first .. last |-> H(n)]
    <3>1. h = [n \in first .. last |-> h[n]]
      OBVIOUS
    <3> HIDE DEF h
    <3>2. QED
      BY <2>4, <3>1
  <2>6. Emits(h, whole, first, k)
    BY <2>5, Zenon DEF Emits, last
  <2> HIDE DEF h
  <2>7. QED
    BY <2>6
<1>3. size \in T
  <2> HIDE DEF T
  <2>1. \A i \in 0 .. size : i \in T
    BY <1>1, <1>2, Upwards
  <2>2. QED
    BY <2>1
<1>4. QED
  BY <1>3

LEMMA SlotsAre ==
  ASSUME NEW f, PartnerGrid(f).knownFrom \in Int, PartnerGrid(f).open.slot \in Int,
         PartnerGrid(f).knownFrom <= PartnerGrid(f).open.slot
  PROVE  LET whole == PartnerGrid(f)
             first == whole.knownFrom
         IN  /\ PartnerSlots(f)[first - 1] = OnAir(whole)
             /\ \A n \in first .. whole.open.slot - 1 :
                  PartnerSlots(f)[n] = SlotAfter(PartnerSlots(f)[n - 1], n)
<1> DEFINE R == PartnerSlots(f)
           whole == PartnerGrid(f)
           first == whole.knownFrom
           before == first - 1
           size == whole.open.slot - first
<1>1. before \in Int /\ size \in Nat /\ before + size = whole.open.slot - 1
  OBVIOUS
<1>2. R = CHOOSE r : r = [n \in before .. whole.open.slot - 1 |->
                           IF n = before THEN OnAir(whole) ELSE SlotAfter(r[n - 1], n)]
  BY DEF PartnerSlots, SlotAfter, OnAir
<1> HIDE DEF R, before, size
<1>3. R = CHOOSE r : Emits(r, whole, before, size)
  BY <1>1, <1>2 DEF Emits
<1>4. Emits(R, whole, before, size)
  <2>1. \E r : Emits(r, whole, before, size)
    BY <1>1, SlotsSolve
  <2>2. QED
    BY <1>3, <2>1, Zenon
<1>5. R = [n \in before .. whole.open.slot - 1 |->
            IF n = before THEN OnAir(whole) ELSE SlotAfter(R[n - 1], n)]
  BY <1>1, <1>4, Zenon DEF Emits
<1>6. ASSUME NEW n \in before .. whole.open.slot - 1
      PROVE  R[n] = IF n = before THEN OnAir(whole) ELSE SlotAfter(R[n - 1], n)
  BY <1>5
<1>7. R[before] = OnAir(whole)
  <2>1. before \in before .. whole.open.slot - 1
    BY <1>1
  <2>2. QED
    BY <1>6, <2>1
<1>8. ASSUME NEW n \in first .. whole.open.slot - 1 PROVE R[n] = SlotAfter(R[n - 1], n)
  <2>1. n \in before .. whole.open.slot - 1 /\ n # before
    BY <1>1 DEF before
  <2>2. QED
    BY <1>6, <2>1
<1>9. QED
  BY <1>7, <1>8 DEF R, before
-----------------------------------------------------------------------------
(* How a PCR packet is judged: whether the leg missed what came between.     *)
Missed(g, p, at, horizon) ==
  \/ AfterSilence(g, p, Since(g, at), horizon)
  \/ g.broken /\ MissedPcrs(g, Greatest(OpenSlot(g, p, at, horizon) - g.open.slot, 0))

NextSpans(g, next) ==
  LET spans == Append(g.spans, Greatest(next - g.open.slot, 0))
  IN  IF Len(spans) > RecentSpans THEN Tail(spans) ELSE spans

(* What of a grid says what the leg has missed. *)
Judgement(g) == <<g.knownFrom, g.cut, g.spans>>

(* A counter says nothing else of a grid, and the same of the same counters. *)
LEMMA NoteJudges ==
  ASSUME NEW g, GridInv(g), NEW p \in Packets
  PROVE  LET n == NoteContinuity(g, p)
         IN  /\ Judgement(n) = Judgement(g)
             /\ \A h : GridInv(h) /\ h.continuity = g.continuity /\ h.broken = g.broken =>
                  /\ NoteContinuity(h, p).continuity = n.continuity
                  /\ NoteContinuity(h, p).broken = n.broken
<1> DEFINE last(c) == c[p.pid]
           fresh    == [cc |-> p.cc, repeated |-> FALSE]
           resets(c)   == last(c) = None \/ p.di
           advances(c) == p.payload /\ p.cc = (last(c).cc + 1) % CcModulo
           repeats(c)  == p.payload /\ p.cc = last(c).cc /\ ~last(c).repeated
           keeps(c)    == ~p.payload /\ p.cc = last(c).cc
           noted(c) == [c EXCEPT ![p.pid] =
                          IF resets(c) \/ advances(c) THEN fresh
                          ELSE IF repeats(c) THEN [fresh EXCEPT !.repeated = TRUE]
                          ELSE IF p.payload THEN fresh ELSE last(c)]
           broke(c, b) == b \/ ~(resets(c) \/ advances(c) \/ repeats(c) \/ keeps(c))
<1>1. ASSUME NEW h, GridInv(h)
      PROVE  /\ NoteContinuity(h, p).continuity = noted(h.continuity)
             /\ NoteContinuity(h, p).broken = broke(h.continuity, h.broken)
             /\ Judgement(NoteContinuity(h, p)) = Judgement(h)
  <2>1. h \in Grids /\ p.pid \in Pids
    BY <1>1 DEF GridInv, Packets
  <2> DEFINE c == IF resets(h.continuity) \/ advances(h.continuity) THEN fresh
                  ELSE IF repeats(h.continuity) THEN [fresh EXCEPT !.repeated = TRUE]
                  ELSE IF p.payload THEN fresh ELSE last(h.continuity)
             b == broke(h.continuity, h.broken)
             n == NoteContinuity(h, p)
             d == [h.continuity EXCEPT ![p.pid] = c]
  <2>2. n = [h EXCEPT !.continuity[p.pid] = c, !.broken = b] /\ noted(h.continuity) = d
    BY DEF NoteContinuity
  <2> HIDE DEF n, c, b, noted
  <2>3. n = [h EXCEPT !.continuity = d, !.broken = b]
    BY <2>1, <2>2 DEF Grids
  <2> HIDE DEF d
  <2>4. n.continuity = d /\ n.broken = b /\ Judgement(n) = Judgement(h)
    BY <2>1, <2>3 DEF Grids, Judgement
  <2>5. QED
    BY <2>2, <2>4 DEF n, b
<1> HIDE DEF noted, broke
<1>2. QED
  BY <1>1

(* A run that is closed is no run missed. *)
LEMMA CloseJudges ==
  ASSUME NEW g, GridInv(g), NEW next \in Int, NEW capacity \in Nat
  PROVE  LET h == CloseRun(g, next, capacity)
         IN  /\ h.knownFrom = g.knownFrom /\ h.cut = g.cut /\ h.spans = NextSpans(g, next)
             /\ h.continuity = g.continuity /\ h.broken = g.broken
<1> DEFINE new   == Spread(g, next)
           all   == g.placed \o new
           drop  == Greatest(Len(all) - capacity, 0)
           kept  == NextSpans(g, next)
           placed == SubSeq(all, drop + 1, Len(all))
           bases  == IF g.openBase # g.placedBase
                       THEN Append(g.bases, [slot |-> new[1].slot, offset |-> g.openBase]) ELSE g.bases
           free  == LastOf(new).slot + 1
           shed  == g.shed + drop
           moved == Greatest(g.displaced, free - next)
           h == CloseRun(g, next, capacity)
<1>1. h = [g EXCEPT !.spans = kept, !.bases = bases, !.placedBase = g.openBase,
                    !.nextFree = free, !.placed = placed, !.shed = shed, !.displaced = moved]
  BY DEF CloseRun, NextSpans
<1> HIDE DEF kept, placed, bases, free, shed, moved, h
<1>2. g \in Grids
  BY DEF GridInv
<1>3. QED
  BY <1>1, <1>2 DEF Grids, h, kept

(* A PCR packet, through the counter it carries: what it opens and closes.   *)
Judges(g, h, p, at, horizon, capacity) ==
  LET n == NoteContinuity(g, p)
      slot == OpenSlot(n, p, at, horizon)
  IN  /\ Opens(n, h, p, at, horizon, capacity)
      /\ h.broken = FALSE /\ h.continuity = n.continuity
      /\ g.open = None =>
           /\ Placement(h) = Placement(g) /\ h.shed = g.shed
           /\ h.knownFrom = slot /\ h.cut = g.cut /\ h.spans = g.spans
      /\ g.open # None /\ g.run # <<>> /\ Missed(n, p, at, horizon) =>
           /\ Placement(h) = Placement(g) /\ h.shed = g.shed
           /\ h.knownFrom = slot /\ h.cut = g.cut + Len(g.run) /\ h.spans = g.spans
      /\ g.open # None /\ g.run # <<>> /\ ~Missed(n, p, at, horizon) =>
           /\ Placement(h) = Placement(CloseRun(n, slot, capacity))
           /\ h.shed = CloseRun(n, slot, capacity).shed
           /\ h.knownFrom = g.knownFrom /\ h.cut = g.cut /\ h.spans = NextSpans(g, slot)

LEMMA PcrJudges ==
  ASSUME NEW g, GridInv(g), NEW p \in Packets, HasPcr(p), NEW at \in Int,
         NEW horizon, NEW capacity \in Nat
  PROVE  Judges(g, PushGrid(g, p, at, horizon, capacity), p, at, horizon, capacity)
<1> DEFINE n == NoteContinuity(g, p)
           epoch == NextEpoch(n, p, at, horizon)
           slot  == OpenSlot(n, p, at, horizon)
           moved == Moved(n, p, at, horizon)
           missed == Missed(n, p, at, horizon)
           cut == n.cut + Len(n.run)
           skipped == [n EXCEPT !.cut = cut, !.knownFrom = slot]
           closed  == CloseRun(n, slot, capacity)
           h == IF n.open = None THEN [n EXCEPT !.knownFrom = slot]
                ELSE IF missed THEN skipped
                ELSE IF n.run = <<>> THEN n ELSE closed
           rebased == h.rebased + moved
           base == n.rebased + moved
           opening == [pcr |-> p.pcr, slot |-> slot, at |-> at]
           o == PushGrid(g, p, at, horizon, capacity)
<1>1. GridInv(n) /\ Alike(g, n) /\ Judgement(n) = Judgement(g)
  BY NoteAlike, NoteJudges
<1>2. o = PushPcr(n, p, at, horizon, capacity)
  BY DEF PushGrid
<1>3. Opens(n, o, p, at, horizon, capacity)
  <2> HIDE DEF n, o
  <2>1. QED
    BY <1>1, <1>2, PcrOpens
<1>4. o = [h EXCEPT !.broken = FALSE, !.epoch = epoch, !.rebased = rebased,
                    !.openBase = base, !.run = <<p>>, !.open = opening]
  BY <1>2 DEF PushPcr, NextEpoch, OpenSlot, Moved, Since, Missed
<1> HIDE DEF n, o, epoch, moved, rebased, base, opening, missed
<1>5. n \in Grids /\ slot \in Int /\ closed \in Grids \cup {closed}
  BY <1>1, <1>3 DEF GridInv, Opens
<1>6. CASE g.open = None
  <2>1. n.open = None /\ h = [n EXCEPT !.knownFrom = slot]
    BY <1>1, <1>6 DEF Alike
  <2> HIDE DEF h, slot
  <2>2. /\ o.broken = FALSE /\ o.continuity = n.continuity /\ Placement(o) = Placement(n)
        /\ o.shed = n.shed /\ o.knownFrom = slot /\ o.cut = n.cut /\ o.spans = n.spans
    BY <1>4, <1>5, <2>1 DEF Grids, Placement
  <2>3. QED
    BY <1>1, <1>3, <1>6, <2>2 DEF Judges, Alike, Judgement, n, o, slot
<1>7. CASE g.open # None /\ g.run # <<>> /\ missed
  <2>1. n.open # None /\ h = skipped
    BY <1>1, <1>7 DEF Alike
  <2>2. cut = g.cut + Len(g.run)
    BY <1>1 DEF Alike, Judgement
  <2> HIDE DEF h, slot, cut
  <2>3. /\ o.broken = FALSE /\ o.continuity = n.continuity /\ Placement(o) = Placement(n)
        /\ o.shed = n.shed /\ o.knownFrom = slot /\ o.cut = cut /\ o.spans = n.spans
    BY <1>4, <1>5, <2>1 DEF Grids, Placement
  <2>4. QED
    BY <1>1, <1>3, <1>7, <2>2, <2>3 DEF Judges, Alike, Judgement, n, o, slot, missed
<1>8. CASE g.open # None /\ g.run # <<>> /\ ~missed
  <2>1. n.open # None /\ n.run = g.run /\ n.open = g.open /\ n.spans = g.spans
    BY <1>1, <1>8 DEF Alike, Judgement
  <2>2. h = closed
    BY <1>8, <2>1
  <2>3. closed \in Grids
    <3> HIDE DEF slot
    <3>1. QED
      BY <1>1, <1>5, <1>8, <2>1, CloseKeeps DEF GridInv
  <2>4. /\ closed.knownFrom = n.knownFrom /\ closed.cut = n.cut
        /\ closed.spans = NextSpans(n, slot) /\ closed.continuity = n.continuity
    <3> HIDE DEF slot
    <3>1. QED
      BY <1>1, <1>5, CloseJudges
  <2>5. NextSpans(n, slot) = NextSpans(g, slot)
    BY <2>1 DEF NextSpans
  <2> HIDE DEF h, closed
  <2>6. /\ o.broken = FALSE /\ o.continuity = closed.continuity /\ Placement(o) = Placement(closed)
        /\ o.shed = closed.shed /\ o.knownFrom = closed.knownFrom /\ o.cut = closed.cut
        /\ o.spans = closed.spans
    BY <1>4, <2>2, <2>3 DEF Grids, Placement
  <2> HIDE DEF slot
  <2>7. QED
    BY <1>1, <1>3, <1>8, <2>4, <2>5, <2>6 DEF Judges, Judgement, n, o, slot, missed, closed
<1>9. CASE g.open # None /\ g.run = <<>>
  <2>1. o.broken = FALSE /\ o.continuity = n.continuity
    <3>1. n.open # None /\ n.run = <<>>
      BY <1>1, <1>9 DEF Alike
    <3>2. h = skipped \/ h = n
      BY <3>1
    <3> HIDE DEF h, slot, cut
    <3>3. QED
      BY <1>4, <1>5, <3>2 DEF Grids
  <2>2. QED
    BY <1>3, <1>9, <2>1 DEF Judges, n, o
<1>10. QED
  BY <1>6, <1>7, <1>8, <1>9 DEF n, o
-----------------------------------------------------------------------------
Members(s) == {s[i] : i \in 1 .. Len(s)}

(* A closed run is placed as a whole, where none is dropped.                 *)
Closes(g, h) ==
  LET new == Spread(g, h.open.slot)
  IN  /\ Members(h.placed) = Members(g.placed) \cup Members(new)
      /\ Len(h.placed) = Len(g.placed) + Len(new)
      /\ h.nextFree = LastOf(new).slot + 1
      /\ h.placedBase = g.openBase /\ h.takenBase = g.takenBase
      /\ g.openBase = g.placedBase => h.bases = g.bases
      /\ h.knownFrom = g.knownFrom /\ h.spans = NextSpans(g, h.open.slot)

(* A run that is cut leaves what is placed.                                  *)
Cuts(g, h) == Placement(h) = Placement(g) /\ h.knownFrom = h.open.slot /\ h.spans = g.spans

LEMMA PcrCloses ==
  ASSUME NEW g, GridInv(g), g.open # None, g.run # <<>>, NEW p \in Packets, HasPcr(p),
         NEW at \in Int, NEW horizon, NEW capacity \in Nat,
         PushGrid(g, p, at, horizon, capacity).shed = g.shed
  PROVE  LET h == PushGrid(g, p, at, horizon, capacity)
         IN  /\ h.cut = g.cut => Closes(g, h)
             /\ h.cut # g.cut => Cuts(g, h)
             /\ h.cut # g.cut <=> Missed(NoteContinuity(g, p), p, at, horizon)
<1> DEFINE n == NoteContinuity(g, p)
           h == PushGrid(g, p, at, horizon, capacity)
           slot == OpenSlot(n, p, at, horizon)
           new == Spread(n, slot)
           closed == CloseRun(n, slot, capacity)
           drop == Dropped(n, new, capacity)
<1>1. GridInv(n) /\ Alike(g, n) /\ Judges(g, h, p, at, horizon, capacity)
  BY NoteAlike, PcrJudges
<1>2. slot \in Int /\ h.open.slot = slot
  <2>1. Opens(n, h, p, at, horizon, capacity)
    BY <1>1 DEF Judges
  <2> HIDE DEF n, h
  <2>2. QED
    BY <2>1 DEF Opens
<1>3. g.cut \in Nat /\ Len(g.run) \in Nat \ {0}
  <2>1. g.cut \in Nat /\ g.run \in Seq(Packets)
    BY DEF GridInv, Grids
  <2>2. QED
    BY <2>1, EmptySeq, LenProperties
<1> HIDE DEF n, h, slot
<1>4. CASE Missed(n, p, at, horizon)
  <2>1. Placement(h) = Placement(g) /\ h.knownFrom = slot /\ h.cut = g.cut + Len(g.run) /\ h.spans = g.spans
    BY <1>1, <1>4 DEF Judges, n, slot
  <2>2. h.cut # g.cut
    BY <1>3, <2>1
  <2>3. QED
    BY <1>2, <1>4, <2>1, <2>2 DEF Cuts, h, n
<1>5. CASE ~Missed(n, p, at, horizon)
  <2>1. /\ Placement(h) = Placement(closed) /\ h.shed = closed.shed
        /\ h.knownFrom = g.knownFrom /\ h.cut = g.cut /\ h.spans = NextSpans(g, slot)
    BY <1>1, <1>5 DEF Judges, n, slot
  <2>2. n.open = g.open /\ n.run = g.run /\ n.placed = g.placed /\ n.bases = g.bases
        /\ n.placedBase = g.placedBase /\ n.takenBase = g.takenBase /\ n.nextFree = g.nextFree
        /\ n.openBase = g.openBase /\ n.shed = g.shed
    BY <1>1 DEF Alike, Placement
  <2>3. /\ drop \in 0 .. Len(n.placed) + Len(new)
        /\ Len(closed.placed) = Len(n.placed) + Len(new) - drop
        /\ \A i \in 1 .. Len(closed.placed) : closed.placed[i] = PlacedOr(n, new, drop + i)
        /\ closed.nextFree = LastOf(new).slot + 1 /\ closed.shed = n.shed + drop
        /\ closed.placedBase = n.openBase /\ closed.takenBase = n.takenBase
        /\ n.openBase = n.placedBase => closed.bases = n.bases
    <3>1. n.open # None /\ n.run # <<>> /\ GridInv(n)
      BY <1>1, <2>2
    <3>2. /\ drop \in 0 .. Len(n.placed) + Len(new)
          /\ Len(closed.placed) = Len(n.placed) + Len(new) - drop
          /\ \A i \in 1 .. Len(closed.placed) : closed.placed[i] = PlacedOr(n, new, drop + i)
          /\ closed.nextFree = LastOf(new).slot + 1 /\ closed.shed = n.shed + drop
          /\ closed.placedBase = n.openBase /\ closed.takenBase = n.takenBase
          /\ closed.bases = IF n.openBase # n.placedBase
                              THEN Append(n.bases, [slot |-> new[1].slot, offset |-> n.openBase])
                              ELSE n.bases
      BY <1>2, <3>1, CloseShape
    <3> HIDE DEF closed, drop, new
    <3>3. QED
      BY <3>2
  <2>4. drop = 0
    <3>1. closed.shed = n.shed /\ n.shed \in Nat
      BY <1>1, <2>1, <2>2 DEF h, GridInv, Grids
    <3> HIDE DEF drop, closed
    <3>2. drop \in Int
      <4>1. Len(n.placed) \in Nat /\ Len(new) \in Nat
        <5>1. n.placed \in Seq(Places) /\ new \in Seq(Places)
          BY <1>1, <1>2, <2>2, SpreadRises DEF GridInv, Grids
        <5>2. QED
          BY <5>1, LenProperties
      <4>2. QED
        BY <2>3, <4>1
    <3>3. QED
      BY <2>3, <3>1, <3>2
  <2>5. Len(n.placed) \in Nat /\ Len(new) \in Nat
    <3>1. n.placed \in Seq(Places) /\ new \in Seq(Places)
      BY <1>1, <1>2, <2>2, SpreadRises DEF GridInv, Grids
    <3>2. QED
      BY <3>1, LenProperties
  <2> HIDE DEF drop, closed, new
  <2>6. /\ Len(closed.placed) = Len(n.placed) + Len(new)
        /\ \A i \in 1 .. Len(n.placed) + Len(new) :
             closed.placed[i] = IF i <= Len(n.placed) THEN n.placed[i] ELSE new[i - Len(n.placed)]
    <3>1. Len(closed.placed) = Len(n.placed) + Len(new)
      BY <2>3, <2>4, <2>5
    <3>2. \A i \in 1 .. Len(n.placed) + Len(new) : drop + i = i
      BY <2>4, <2>5
    <3>3. QED
      BY <2>3, <3>1, <3>2 DEF PlacedOr
  <2>7. Members(closed.placed) = Members(n.placed) \cup Members(new)
    <3>1. ASSUME NEW i \in 1 .. Len(closed.placed)
          PROVE  closed.placed[i] \in Members(n.placed) \cup Members(new)
      <4>1. CASE i <= Len(n.placed)
        <5>1. i \in 1 .. Len(n.placed) /\ closed.placed[i] = n.placed[i]
          BY <2>5, <2>6, <4>1
        <5>2. QED
          BY <5>1 DEF Members
      <4>2. CASE ~(i <= Len(n.placed))
        <5>1. i - Len(n.placed) \in 1 .. Len(new) /\ closed.placed[i] = new[i - Len(n.placed)]
          BY <2>5, <2>6, <4>2
        <5>2. QED
          BY <5>1 DEF Members
      <4>3. QED
        BY <4>1, <4>2
    <3>2. ASSUME NEW i \in 1 .. Len(n.placed) PROVE n.placed[i] \in Members(closed.placed)
      <4>1. i \in 1 .. Len(closed.placed) /\ closed.placed[i] = n.placed[i]
        BY <2>5, <2>6
      <4>2. QED
        BY <4>1 DEF Members
    <3>3. ASSUME NEW i \in 1 .. Len(new) PROVE new[i] \in Members(closed.placed)
      <4> DEFINE j == Len(n.placed) + i
      <4>1. /\ j \in 1 .. Len(n.placed) + Len(new)
            /\ j - Len(n.placed) = i /\ ~(j <= Len(n.placed))
        BY <2>5
      <4> HIDE DEF j
      <4>2. closed.placed[j] = new[i] /\ j \in 1 .. Len(closed.placed)
        BY <2>6, <4>1
      <4>3. QED
        BY <4>2 DEF Members
    <3>4. QED
      BY <3>1, <3>2, <3>3 DEF Members
  <2>8. new = Spread(g, h.open.slot)
    BY <1>2, <2>2 DEF new, Spread
  <2>9. /\ h.placed = closed.placed /\ h.bases = closed.bases /\ h.placedBase = closed.placedBase
        /\ h.takenBase = closed.takenBase /\ h.nextFree = closed.nextFree
    BY <2>1 DEF Placement
  <2>10. Closes(g, h)
    BY <1>2, <2>1, <2>2, <2>3, <2>6, <2>7, <2>8, <2>9 DEF Closes
  <2>11. QED
    BY <1>5, <2>1, <2>10 DEF h, n
<1>6. QED
  BY <1>4, <1>5

(* A packet without a PCR joins the open run, and nothing else changes.      *)
LEMMA PushWaits ==
  ASSUME NEW g, GridInv(g), NEW p \in Packets, ~HasPcr(p), NEW at, NEW horizon, NEW capacity
  PROVE  LET n == NoteContinuity(g, p)
             h == PushGrid(g, p, at, horizon, capacity)
         IN  /\ Placement(h) = Placement(g) /\ Judgement(h) = Judgement(g)
             /\ h.open = g.open /\ h.epoch = g.epoch /\ h.rebased = g.rebased /\ h.openBase = g.openBase
             /\ h.continuity = n.continuity /\ h.broken = n.broken
             /\ g.open = None => h.run = g.run
             /\ g.open # None => h.run = Append(g.run, p) /\ h.shed = g.shed
<1> DEFINE n == NoteContinuity(g, p)
           h == PushGrid(g, p, at, horizon, capacity)
<1>1. GridInv(n) /\ Alike(g, n) /\ Judgement(n) = Judgement(g)
  BY NoteAlike, NoteJudges
<1>2. n \in Grids
  BY <1>1 DEF GridInv
<1>3. CASE g.open = None
  <2>1. h = [n EXCEPT !.shed = n.shed + 1]
    BY <1>3 DEF PushGrid
  <2> HIDE DEF n, h
  <2>2. QED
    BY <1>1, <1>2, <1>3, <2>1 DEF Grids, Placement, Judgement, Alike, n, h
<1>4. CASE g.open # None
  <2>1. h = [n EXCEPT !.run = Append(n.run, p)]
    BY <1>4 DEF PushGrid
  <2> HIDE DEF n, h
  <2>2. /\ Placement(h) = Placement(n) /\ Judgement(h) = Judgement(n)
        /\ h.open = n.open /\ h.epoch = n.epoch /\ h.rebased = n.rebased /\ h.openBase = n.openBase
        /\ h.continuity = n.continuity /\ h.broken = n.broken
        /\ h.run = Append(n.run, p) /\ h.shed = n.shed
    BY <1>2, <2>1 DEF Grids, Placement, Judgement
  <2>3. QED
    BY <1>1, <1>4, <2>2 DEF Alike, Placement, n, h
<1>5. QED
  BY <1>3, <1>4
-----------------------------------------------------------------------------
(* The ideal partner's grid.                                                 *)
LEMMA NewGridIs ==
  /\ GridInv(NewGrid) /\ StampedGrid(NewGrid) /\ MarkedGrid(NewGrid) /\ Going(NewGrid)
  /\ Held(NewGrid) = 0
<1>1. /\ <<>> \in Seq(Packets) /\ <<>> \in Seq(Places) /\ <<>> \in Seq(Bases) /\ <<>> \in Seq(Int)
      /\ Len(<<>>) = 0
  OBVIOUS
<1>2. [pid \in Pids |-> None] \in [Pids -> Counters \cup {None}]
  OBVIOUS
<1>3. NewGrid \in Grids /\ NewGrid.run = <<>> /\ NewGrid.placed = <<>> /\ NewGrid.bases = <<>>
  BY <1>1, <1>2 DEF NewGrid, Grids
<1>4. PlacedInOrder(NewGrid) /\ BasesInOrder(NewGrid)
  BY <1>1, <1>3 DEF PlacedInOrder, BasesInOrder, Rising, Below, Changing
<1>5. GridInv(NewGrid)
  BY <1>3, <1>4 DEF GridInv
<1>6. StampedGrid(NewGrid) /\ MarkedGrid(NewGrid) /\ Going(NewGrid)
  BY <1>1 DEF NewGrid, StampedGrid, MarkedGrid, Going
<1>7. Held(NewGrid) = 0
  BY <1>1 DEF NewGrid, Held
<1>8. QED
  BY <1>5, <1>6, <1>7

(* A grid takes packet p with room for all it holds.                         *)
HasRoom(g, p, at, capacity) ==
  /\ GridInv(g) /\ Going(g) /\ p \in Packets /\ (HasPcr(p) \/ g.open # None)
  /\ at \in Int /\ capacity \in Nat /\ Len(g.placed) + Len(g.run) <= capacity

(* With room for all a grid holds nothing is dropped.                        *)
LEMMA NoneShed ==
  ASSUME NEW g, NEW p, NEW at, NEW capacity, HasRoom(g, p, at, capacity), NEW horizon
  PROVE  PushGrid(g, p, at, horizon, capacity).shed = g.shed
<1>0. /\ GridInv(g) /\ Going(g) /\ p \in Packets /\ (HasPcr(p) \/ g.open # None)
      /\ at \in Int /\ capacity \in Nat /\ Len(g.placed) + Len(g.run) <= capacity
  BY DEF HasRoom
<1> USE <1>0
<1> DEFINE n == NoteContinuity(g, p)
           h == PushGrid(g, p, at, horizon, capacity)
           slot == OpenSlot(n, p, at, horizon)
           new == Spread(n, slot)
           closed == CloseRun(n, slot, capacity)
           drop == Dropped(n, new, capacity)
<1>1. CASE ~HasPcr(p)
  BY <1>1, PushWaits
<1>2. CASE HasPcr(p)
  <2>1. GridInv(n) /\ Alike(g, n) /\ Judges(g, h, p, at, horizon, capacity)
    BY <1>2, NoteAlike, PcrJudges
  <2>2. slot \in Int
    <3>1. Opens(n, h, p, at, horizon, capacity)
      BY <2>1 DEF Judges
    <3> HIDE DEF n, h
    <3>2. QED
      BY <3>1 DEF Opens
  <2> HIDE DEF n, h, slot
  <2>3. CASE g.open # None /\ h.shed = closed.shed
    <3>1. n.open # None /\ n.run # <<>> /\ n.placed = g.placed /\ n.run = g.run /\ n.shed = g.shed
      BY <2>1, <2>3 DEF Alike, Placement, Going
    <3>2. closed.shed = n.shed + drop /\ Len(new) = Len(n.run)
      BY <2>1, <2>2, <3>1, CloseShape, SpreadRises
    <3>3. drop = 0
      <4>1. Len(n.placed) + Len(new) - capacity <= 0 /\ Len(n.placed) + Len(new) - capacity \in Int
        <5>1. Len(n.placed) \in Nat /\ Len(n.run) \in Nat
          BY <2>1, LenProperties DEF GridInv, Grids
        <5>2. Len(n.placed) = Len(g.placed) /\ Len(n.run) = Len(g.run) /\ Len(new) = Len(n.run)
          BY <3>1, <3>2
        <5> DEFINE a == Len(n.placed)
                   b == Len(new)
        <5>3. a \in Nat /\ b \in Nat /\ a + b <= capacity
          BY <5>1, <5>2
        <5> HIDE DEF a, b
        <5>4. a + b - capacity <= 0 /\ a + b - capacity \in Int
          BY <5>3
        <5>5. QED
          BY <5>4 DEF a, b
      <4> DEFINE over == Len(n.placed) + Len(new) - capacity
      <4>2. drop = Greatest(over, 0)
        BY DEF Dropped
      <4> HIDE DEF over, drop
      <4>3. over <= 0 /\ over \in Int
        BY <4>1 DEF over
      <4>4. QED
        BY <4>2, <4>3 DEF Greatest
    <3> HIDE DEF closed, drop
    <3>4. n.shed \in Nat
      BY <2>1 DEF GridInv, Grids
    <3>5. QED
      BY <2>3, <3>1, <3>2, <3>3, <3>4 DEF h
  <2>4. CASE h.shed = g.shed
    BY <2>4 DEF h
  <2>5. g.open # None => g.run # <<>>
    BY DEF Going
  <2>6. QED
    BY <2>1, <2>3, <2>4, <2>5 DEF Judges, n, slot
<1>3. QED
  BY <1>1, <1>2

(* A feed as the source numbers and stamps it.                               *)
Stamped(f) ==
  /\ f \in Seq(Packets)
  /\ \A i \in 1 .. Len(f) : f[i].id = i /\ (HasPcr(f[i]) => f[i].pcr < PcrWrap)

LEMMA FeedsStamped == LegType => Stamped(Sending)
<1>1. LegType => Sending = Feeds[feed] /\ feed \in DOMAIN Feeds
  BY DEF LegType, Sending
<1>2. QED
  BY <1>1, FeedsAssumption DEF FeedsAssumption, Stamped, HasPcr

(* No splice has moved a grid's time base.                                   *)
Unspliced(g) == g.rebased = 0 /\ g.openBase = 0 /\ g.placedBase = 0 /\ g.takenBase = 0 /\ g.bases = <<>>

(* What a packet does to a grid that holds a run.                            *)
Extends(g, h, p) ==
  /\ Members(g.placed) \subseteq Members(h.placed)
  /\ \A x \in Members(h.placed) : x \in Members(g.placed) \/ x.slot >= g.open.slot
  /\ h.open # None /\ h.open.slot >= g.open.slot
  /\ HasPcr(p) => h.run = <<p>> /\ h.open.pcr = p.pcr
  /\ ~HasPcr(p) => Placement(h) = Placement(g) /\ h.open = g.open /\ h.run = Append(g.run, p)

LEMMA PushExtends ==
  ASSUME NEW g, GridInv(g), StampedGrid(g), MarkedGrid(g), Going(g), g.open # None,
         NEW p \in Packets, HasPcr(p) => p.pcr < PcrWrap,
         NEW at \in Int, NEW horizon, NEW capacity \in Nat \ {0},
         PushGrid(g, p, at, horizon, capacity).shed = g.shed
  PROVE  Extends(g, PushGrid(g, p, at, horizon, capacity), p)
<1> DEFINE n == NoteContinuity(g, p)
           h == PushGrid(g, p, at, horizon, capacity)
<1>1. h.open # None /\ h.open.slot >= g.open.slot /\ g.run # <<>>
  <2> HIDE DEF n
  <2>1. Follows(g, h)
    BY PushStamps
  <2>2. g.run # <<>>
    BY DEF Going
  <2> HIDE DEF h
  <2>3. QED
    BY <2>1, <2>2 DEF Follows
<1>2. CASE ~HasPcr(p)
  <2>1. Placement(h) = Placement(g) /\ h.open = g.open /\ h.run = Append(g.run, p)
    BY <1>2, PushWaits
  <2> HIDE DEF h
  <2>2. QED
    BY <1>1, <1>2, <2>1 DEF Extends, Placement, h
<1>3. CASE HasPcr(p)
  <2>1. (h.cut = g.cut => Closes(g, h)) /\ (h.cut # g.cut => Cuts(g, h))
    BY <1>1, <1>3, PcrCloses
  <2>2. h.run = <<p>> /\ h.open.pcr = p.pcr /\ h.open.slot \in Int
    <3>1. Opens(n, h, p, at, horizon, capacity)
      BY <1>3, PcrJudges DEF Judges
    <3> HIDE DEF n, h
    <3>2. QED
      BY <3>1 DEF Opens
  <2> HIDE DEF h
  <2>3. CASE Placement(h) = Placement(g)
    <3>1. h.placed = g.placed
      BY <2>3 DEF Placement
    <3>2. QED
      BY <1>1, <1>3, <2>2, <3>1 DEF Extends, h
  <2>4. CASE Closes(g, h)
    <3> DEFINE new == Spread(g, h.open.slot)
    <3>1. Members(h.placed) = Members(g.placed) \cup Members(new)
      BY <2>4 DEF Closes
    <3>2. \A i \in 1 .. Len(new) : new[i].slot \in Int /\ new[i].slot >= Greatest(g.nextFree, g.open.slot)
      BY <1>1, <2>2, SpreadFrom
    <3>3. g.open.slot \in Int /\ g.nextFree \in Int
      BY DEF GridInv, Grids, Openings
    <3>4. Greatest(g.nextFree, g.open.slot) \in Int /\ Greatest(g.nextFree, g.open.slot) >= g.open.slot
      BY <3>3 DEF Greatest
    <3> HIDE DEF new
    <3>5. \A i \in 1 .. Len(new) : new[i].slot >= g.open.slot
      BY <3>2, <3>3, <3>4
    <3>6. \A x \in Members(new) : x.slot >= g.open.slot
      BY <3>5 DEF Members
    <3>7. QED
      BY <1>1, <1>3, <2>2, <3>1, <3>6 DEF Extends, h
  <2>5. QED
    BY <2>1, <2>3, <2>4 DEF Cuts
<1>4. QED
  BY <1>2, <1>3
-----------------------------------------------------------------------------
(* The ideal partner, after packet i of a feed that runs on: it holds all it *)
(* received, in the slots of a source whose clock never moved, and its open  *)
(* run began with packet o.                                                  *)
Ideal(f, i) ==
  LET g == PartnerGrids(f)[i]
      o == g.run[1].id
  IN  /\ GridInv(g) /\ StampedGrid(g) /\ MarkedGrid(g) /\ Going(g) /\ Unspliced(g)
      /\ g.open # None /\ g.shed = 0 /\ Held(g) = i
      /\ g.knownFrom = PartnerGrids(f)[1].open.slot
      /\ o \in 1 .. i /\ HasPcr(f[o]) /\ g.run[1] = f[o]
      /\ Placement(g) = Placement(PartnerGrids(f)[o]) /\ g.open = PartnerGrids(f)[o].open

LEMMA PacketTypes ==
  ASSUME NEW f, Stamped(f), NEW i \in 1 .. Len(f)
  PROVE  /\ f[i] \in Packets /\ f[i].at \in Int /\ f[i].id = i
         /\ HasPcr(f[i]) => f[i].pcr < PcrWrap
         /\ Len(f) \in Nat \ {0}
<1>1. f[i] \in Packets /\ Len(f) \in Nat
  BY ElementOfSeq, LenProperties DEF Stamped
<1>2. f[i].at \in Int
  BY <1>1 DEF Packets
<1>3. QED
  BY <1>1, <1>2 DEF Stamped

LEMMA IdealFirst ==
  ASSUME NEW f, Stamped(f), RunsOn(f)
  PROVE  Ideal(f, 1) /\ Placement(PartnerGrids(f)[1]) = Placement(NewGrid)
<1> DEFINE p == f[1]
           horizon == PartnerHorizon(f, p.at)
           h == PartnerGrids(f)[1]
           n == NoteContinuity(NewGrid, p)
<1>1. 1 \in 1 .. Len(f) /\ HasPcr(p)
  <2>1. f \in Seq(Packets) /\ f # <<>> /\ HasPcr(p)
    BY DEF Stamped, RunsOn
  <2>2. QED
    BY <2>1, EmptySeq, LenProperties
<1>2. /\ p \in Packets /\ p.at \in Int /\ p.id = 1 /\ p.pcr < PcrWrap /\ Len(f) \in Nat \ {0}
  BY <1>1, PacketTypes
<1>3. h = PushGrid(NewGrid, p, p.at, horizon, Len(f))
  <2>1. 1 - 1 = 0
    OBVIOUS
  <2>2. h = Pushed(f, 1, PartnerGrids(f)[1 - 1]) /\ PartnerGrids(f)[0] = NewGrid
    BY <1>1, <1>2, GridsAre
  <2>3. QED
    BY <2>1, <2>2 DEF Pushed
<1>4. NewGrid.open = None /\ NewGrid.shed = 0
  BY DEF NewGrid
<1> HIDE DEF p, horizon, h
<1>5. GridInv(h) /\ Held(h) = 1
  <2>1. GridInv(h) /\ Held(h) = Held(NewGrid) + 1
    BY <1>2, <1>3, NewGridIs, PushKeeps
  <2>2. QED
    BY <2>1, NewGridIs
<1>6. StampedGrid(h) /\ MarkedGrid(h) /\ Going(h)
  BY <1>1, <1>2, <1>3, <1>4, NewGridIs, PushStamps
<1>7. Judges(NewGrid, h, p, p.at, horizon, Len(f))
  BY <1>1, <1>2, <1>3, NewGridIs, PcrJudges
<1>8. /\ Opens(n, h, p, p.at, horizon, Len(f)) /\ Placement(h) = Placement(NewGrid) /\ h.shed = 0
      /\ h.knownFrom = OpenSlot(n, p, p.at, horizon)
  BY <1>4, <1>7 DEF Judges
<1>9. n.open = None /\ n.rebased = 0
  <2>1. Alike(NewGrid, n)
    BY <1>2, NewGridIs, NoteAlike
  <2> HIDE DEF n
  <2>2. QED
    BY <2>1 DEF Alike, NewGrid
<1> HIDE DEF n
<1>10. /\ h.open # None /\ h.open.slot = OpenSlot(n, p, p.at, horizon) /\ h.run = <<p>>
       /\ h.rebased = 0 /\ h.openBase = 0
  <2>1. Moved(n, p, p.at, horizon) = 0
    BY <1>9 DEF Moved
  <2>2. QED
    BY <1>8, <1>9, <2>1 DEF Opens
<1>11. Unspliced(h)
  BY <1>8, <1>10 DEF Placement, NewGrid, Unspliced
<1>12. h.run[1] = p
  BY <1>10
<1>13. QED
  BY <1>1, <1>2, <1>5, <1>6, <1>8, <1>10, <1>11, <1>12 DEF Ideal, h, p

LEMMA IdealNext ==
  ASSUME NEW f, Stamped(f), RunsOn(f), NEW i \in 2 .. Len(f), Ideal(f, i - 1)
  PROVE  /\ Ideal(f, i) /\ Extends(PartnerGrids(f)[i - 1], PartnerGrids(f)[i], f[i])
         /\ HasPcr(f[i]) => Closes(PartnerGrids(f)[i - 1], PartnerGrids(f)[i])
<1> DEFINE p == f[i]
           horizon == PartnerHorizon(f, p.at)
           g == PartnerGrids(f)[i - 1]
           h == PartnerGrids(f)[i]
           o == g.run[1].id
           n == NoteContinuity(g, p)
<1>1. /\ i \in 1 .. Len(f) /\ i - 1 \in 1 .. Len(f) /\ i \in Int
      /\ p \in Packets /\ p.at \in Int /\ p.id = i /\ (HasPcr(p) => p.pcr < PcrWrap)
      /\ Len(f) \in Nat \ {0} /\ Len(f) \in Nat
  <2>1. Len(f) \in Nat
    BY LenProperties DEF Stamped
  <2>2. i \in 1 .. Len(f) /\ i - 1 \in 1 .. Len(f) /\ i \in Int
    BY <2>1
  <2>3. QED
    BY <2>1, <2>2, PacketTypes
<1>2. h = PushGrid(g, p, p.at, horizon, Len(f))
  <2>1. \A l \in 1 .. Len(f) : PartnerGrids(f)[l] = Pushed(f, l, PartnerGrids(f)[l - 1])
    BY <1>1, GridsAre
  <2>2. h = Pushed(f, i, g)
    BY <1>1, <2>1
  <2>3. QED
    BY <2>2 DEF Pushed
<1>3. /\ GridInv(g) /\ StampedGrid(g) /\ MarkedGrid(g) /\ Going(g) /\ Unspliced(g)
      /\ g.open # None /\ g.shed = 0 /\ Held(g) = i - 1 /\ g.run # <<>>
      /\ g.knownFrom = PartnerGrids(f)[1].open.slot
      /\ o \in 1 .. i - 1 /\ HasPcr(f[o]) /\ g.run[1] = f[o]
      /\ Placement(g) = Placement(PartnerGrids(f)[o]) /\ g.open = PartnerGrids(f)[o].open
  BY DEF Ideal, Going
<1>4. g.cut = 0 /\ h.cut = 0
  BY <1>1 DEF RunsOn
<1>5. HasPcr(p) => ~p.di /\ ~Jumped(g, p)
  BY DEF RunsOn
<1> HIDE DEF p, horizon, g, h
<1>6. h.shed = g.shed
  <2>1. Len(g.placed) \in Nat /\ Len(g.run) \in Nat
    BY <1>3, LenProperties DEF GridInv, Grids
  <2>2. Len(g.placed) + Len(g.run) <= Len(f)
    <3>1. 0 + 0 + Len(g.run) + Len(g.placed) = i - 1
      BY <1>3, <1>4 DEF Held
    <3> DEFINE a == Len(g.run)
               b == Len(g.placed)
               c == Len(f)
    <3>2. a \in Nat /\ b \in Nat /\ c \in Nat /\ 0 + 0 + a + b = i - 1 /\ i \in 2 .. c
      BY <1>1, <2>1, <3>1
    <3> HIDE DEF a, b, c
    <3>3. b + a <= c
      BY <3>2
    <3>4. QED
      BY <3>3 DEF a, b, c
  <2>3. PushGrid(g, p, p.at, horizon, Len(f)).shed = g.shed
    <3> DEFINE size == Len(f)
               due == p.at
    <3>1. size \in Nat /\ Len(g.placed) + Len(g.run) <= size
      BY <1>1, <2>2
    <3>2. GridInv(g) /\ Going(g) /\ p \in Packets /\ g.open # None /\ due \in Int
      BY <1>1, <1>3
    <3> HIDE DEF size, due
    <3>3. HasRoom(g, p, due, size)
      BY <3>1, <3>2 DEF HasRoom
    <3>4. PushGrid(g, p, due, horizon, size).shed = g.shed
      BY <3>3, NoneShed
    <3>5. QED
      BY <3>4 DEF size, due
  <2>4. QED
    BY <1>2, <2>3
<1>7. GridInv(h) /\ Held(h) = i
  <2>1. GridInv(h) /\ Held(h) = Held(g) + 1
    BY <1>1, <1>2, <1>3, PushKeeps
  <2>2. QED
    BY <1>1, <1>3, <2>1
<1>8. StampedGrid(h) /\ MarkedGrid(h) /\ Going(h)
  BY <1>1, <1>2, <1>3, <1>6, PushStamps
<1>9. Extends(g, h, p)
  BY <1>1, <1>2, <1>3, <1>6, PushExtends
<1>10. CASE HasPcr(p)
  <2>1. Closes(g, h)
    BY <1>1, <1>2, <1>3, <1>4, <1>6, <1>10, PcrCloses
  <2>2. Opens(n, h, p, p.at, horizon, Len(f))
    BY <1>1, <1>2, <1>3, <1>10, PcrJudges DEF Judges
  <2>3. n.open = g.open /\ n.rebased = 0
    <3>1. Alike(g, n)
      BY <1>1, <1>3, NoteAlike
    <3> HIDE DEF n
    <3>2. QED
      BY <1>3, <3>1 DEF Alike, Unspliced
  <2>4. Moved(n, p, p.at, horizon) = 0
    <3>1. ~Jumped(n, p) /\ ~p.di
      BY <1>5, <1>10, <2>3 DEF Jumped
    <3>2. QED
      BY <3>1 DEF Moved, Spliced
  <2> HIDE DEF n
  <2>5. /\ h.open # None /\ h.run = <<p>> /\ h.rebased = 0 /\ h.openBase = 0
    BY <2>2, <2>3, <2>4 DEF Opens
  <2>6. Unspliced(h)
    BY <1>3, <2>1, <2>5 DEF Closes, Unspliced
  <2>7. h.knownFrom = PartnerGrids(f)[1].open.slot /\ h.shed = 0
    BY <1>3, <1>6, <2>1 DEF Closes
  <2>8. h.run[1] = p
    <3>1. h.run = <<p>>
      BY <2>5
    <3>2. \A x : <<x>>[1] = x
      OBVIOUS
    <3>3. QED
      BY <3>1, <3>2
  <2>9. QED
    BY <1>1, <1>7, <1>8, <1>9, <1>10, <2>1, <2>5, <2>6, <2>7, <2>8 DEF Ideal, h, p, g
<1>11. CASE ~HasPcr(p)
  <2>1. /\ Placement(h) = Placement(g) /\ h.open = g.open /\ h.run = Append(g.run, p)
        /\ h.rebased = g.rebased /\ h.openBase = g.openBase /\ Judgement(h) = Judgement(g)
    BY <1>1, <1>2, <1>3, <1>11, PushWaits
  <2>2. Unspliced(h) /\ h.knownFrom = PartnerGrids(f)[1].open.slot /\ h.shed = 0
    BY <1>3, <1>6, <2>1 DEF Unspliced, Placement, Judgement
  <2>3. h.run[1] = g.run[1]
    <3>1. g.run \in Seq(Packets) /\ Len(g.run) \in Nat \ {0}
      BY <1>3, EmptySeq, LenProperties DEF GridInv, Grids
    <3>2. QED
      BY <1>1, <2>1, <3>1, AppendProperties
  <2>4. o \in 1 .. i
    BY <1>1, <1>3
  <2>5. QED
    BY <1>3, <1>7, <1>8, <1>9, <1>11, <2>1, <2>2, <2>3, <2>4 DEF Ideal, h, p, g
<1>12. QED
  BY <1>10, <1>11

LEMMA IdealAlways ==
  ASSUME NEW f, Stamped(f), RunsOn(f)
  PROVE  \A i \in 1 .. Len(f) : Ideal(f, i)
<1> DEFINE T == {i \in 0 .. Len(f) : i > 0 => Ideal(f, i)}
<1>1. Len(f) \in Nat
  BY LenProperties DEF Stamped
<1>2. 0 \in T
  BY <1>1
<1>3. ASSUME NEW i \in 1 .. Len(f), i - 1 \in T PROVE i \in T
  <2>1. CASE i = 1
    BY <1>1, <2>1, IdealFirst
  <2>2. CASE i # 1
    <3>1. i \in 2 .. Len(f) /\ Ideal(f, i - 1)
      BY <1>1, <1>3, <2>2
    <3>2. Ideal(f, i)
      BY <3>1, IdealNext
    <3>3. QED
      BY <3>2
  <2>3. QED
    BY <2>1, <2>2
<1>4. \A i \in 0 .. Len(f) : i \in T
  <2> HIDE DEF T
  <2>1. QED
    BY <1>1, <1>2, <1>3, Upwards
<1>5. QED
  BY <1>1, <1>4

(* What the partner places it keeps, and what it places later lies at the    *)
(* open run or after.                                                        *)
Reaches(g, h) ==
  /\ Members(g.placed) \subseteq Members(h.placed)
  /\ \A x \in Members(h.placed) : x \in Members(g.placed) \/ x.slot >= g.open.slot
  /\ h.open.slot >= g.open.slot

LEMMA IdealGrows ==
  ASSUME NEW f, Stamped(f), RunsOn(f), NEW k \in 1 .. Len(f)
  PROVE  \A i \in k .. Len(f) : Reaches(PartnerGrids(f)[k], PartnerGrids(f)[i])
<1> DEFINE G == PartnerGrids(f)
           T == {i \in 0 .. Len(f) : i >= k => Reaches(G[k], G[i])}
<1>1. Len(f) \in Nat /\ \A i \in 1 .. Len(f) : Ideal(f, i)
  BY IdealAlways, LenProperties DEF Stamped
<1>2. \A i \in 1 .. Len(f) : /\ G[i].open.slot \in Int
                             /\ \A x \in Members(G[i].placed) : x.slot \in Int
  <2> SUFFICES ASSUME NEW i \in 1 .. Len(f)
               PROVE  G[i].open.slot \in Int /\ \A x \in Members(G[i].placed) : x.slot \in Int
    OBVIOUS
  <2>1. GridInv(G[i]) /\ G[i].open # None
    BY <1>1 DEF Ideal
  <2> DEFINE g == G[i]
  <2>2. GridInv(g) /\ g.open # None
    BY <2>1
  <2> HIDE DEF g
  <2>3. \A j \in 1 .. Len(g.placed) : g.placed[j].slot \in Int
    BY <2>2, PlacesType
  <2>4. \A x \in Members(g.placed) : x.slot \in Int
    BY <2>3 DEF Members
  <2>5. g.open.slot \in Int
    BY <2>2 DEF GridInv, Grids, Openings
  <2>6. QED
    BY <2>4, <2>5 DEF g
<1>3. 0 \in T
  BY <1>1
<1>4. ASSUME NEW i \in 1 .. Len(f), i - 1 \in T PROVE i \in T
  <2>1. CASE i < k
    BY <1>1, <2>1
  <2>2. CASE i = k
    <3>1. Reaches(G[k], G[k])
      BY <1>2 DEF Reaches
    <3>2. QED
      BY <2>2, <3>1
  <2>3. CASE i > k
    <3>1. i \in 2 .. Len(f) /\ i - 1 \in 1 .. Len(f) /\ i - 1 >= k
      BY <1>1, <2>3
    <3>2. Reaches(G[k], G[i - 1]) /\ Extends(G[i - 1], G[i], f[i])
      BY <1>1, <1>4, <3>1, IdealNext
    <3>3. Reaches(G[k], G[i])
      <4> HIDE DEF G
      <4>1. /\ G[k].open.slot \in Int /\ G[i].open.slot \in Int /\ G[i - 1].open.slot \in Int
            /\ \A x \in Members(G[i].placed) : x.slot \in Int
        BY <1>2, <3>1
      <4>2. QED
        BY <3>2, <4>1 DEF Reaches, Extends
    <3>4. QED
      BY <3>3
  <2>4. QED
    BY <2>1, <2>2, <2>3
<1>5. \A i \in 0 .. Len(f) : i \in T
  <2> HIDE DEF T
  <2>1. QED
    BY <1>1, <1>3, <1>4, Upwards
<1>6. QED
  BY <1>1, <1>5
-----------------------------------------------------------------------------
(* What a slot takes, and what it leaves.                                    *)
LEMMA TakesMembers ==
  ASSUME NEW g, GridInv(g), NEW n \in Int
  PROVE  /\ Takes(g, n) => \E x \in Members(g.placed) : x.slot = n /\ x.packet = TakenAt(g, n)
         /\ \A x \in Members(g.placed) : x.slot = n => Takes(g, n) /\ x.packet = TakenAt(g, n)
         /\ Members(TakeGrid(g, n).placed) = {x \in Members(g.placed) : x.slot > n}
         /\ Unspliced(g) => Unspliced(TakeGrid(g, n))
<1> DEFINE c == PassedAt(g, n)
           h == TakeGrid(g, n)
<1>1. Passes(g, h, n) /\ h.rebased = g.rebased /\ h.openBase = g.openBase
  BY TakePasses
<1>2. /\ Len(g.placed) \in Nat /\ Rising(g.placed) /\ g \in Grids
      /\ \A i \in 1 .. Len(g.placed) : g.placed[i].slot \in Int
  BY PlacesType DEF GridInv, PlacedInOrder
<1>3. /\ c \in 0 .. Len(g.placed) /\ \A i \in 1 .. Len(g.placed) : g.placed[i].slot <= n <=> i <= c
      /\ Len(h.placed) = Len(g.placed) - c
      /\ \A i \in 1 .. Len(h.placed) : h.placed[i] = g.placed[c + i]
  BY <1>1 DEF Passes
<1>4. Unspliced(g) => Unspliced(h)
  <2> SUFFICES ASSUME Unspliced(g) PROVE Unspliced(h)
    OBVIOUS
  <2>1. g.bases = <<>> /\ Len(<<>>) = 0
    BY DEF Unspliced
  <2>2. BasesUsed(g, n) \in 0 .. Len(g.bases) /\ Len(h.bases) = Len(g.bases) - BasesUsed(g, n)
    BY <1>1 DEF Passes
  <2>3. BasesUsed(g, n) = 0 /\ Len(h.bases) = 0
    BY <2>1, <2>2
  <2>4. h.takenBase = g.takenBase
    BY <1>1, <2>3 DEF Passes
  <2>5. h.bases = <<>>
    <3>1. GridInv(h)
      BY TakeKeeps
    <3> HIDE DEF h
    <3>2. h.bases \in Seq(Bases)
      BY <3>1 DEF GridInv, Grids
    <3>3. QED
      BY <2>3, <3>2, EmptySeq
  <2>6. h.placedBase = g.placedBase
    <3> DEFINE placed == SubSeq(g.placed, c + 1, Len(g.placed))
               bases == SubSeq(g.bases, BasesUsed(g, n) + 1, Len(g.bases))
               taken == IF BasesUsed(g, n) = 0 THEN g.takenBase ELSE g.bases[BasesUsed(g, n)].offset
    <3>1. h = [g EXCEPT !.placed = placed, !.bases = bases, !.takenBase = taken]
      BY DEF TakeGrid
    <3> HIDE DEF h, placed, bases, taken
    <3>2. QED
      BY <1>2, <3>1 DEF Grids
  <2> HIDE DEF h
  <2>7. QED
    BY <1>1, <2>4, <2>5, <2>6 DEF Unspliced
<1> HIDE DEF h
<1>5. Takes(g, n) <=> c > 0 /\ g.placed[c].slot = n
  BY DEF Takes
<1>6. TakenAt(g, n) = g.placed[c].packet
  BY DEF TakenAt
<1> HIDE DEF c
<1>7. ASSUME Takes(g, n)
      PROVE  \E x \in Members(g.placed) : x.slot = n /\ x.packet = TakenAt(g, n)
  <2>1. c \in 1 .. Len(g.placed)
    BY <1>2, <1>3, <1>5, <1>7
  <2>2. g.placed[c] \in Members(g.placed)
    BY <2>1 DEF Members
  <2>3. QED
    BY <1>5, <1>6, <1>7, <2>2
<1>8. ASSUME NEW x \in Members(g.placed), x.slot = n
      PROVE  Takes(g, n) /\ x.packet = TakenAt(g, n)
  <2>1. PICK i \in 1 .. Len(g.placed) : x = g.placed[i]
    BY DEF Members
  <2>2. i <= c /\ c \in 1 .. Len(g.placed) /\ g.placed[c].slot <= n
    BY <1>2, <1>3, <1>8, <2>1
  <2>3. i = c
    <3>1. i < c => g.placed[i].slot < g.placed[c].slot
      BY <1>2, <2>2 DEF Rising
    <3>2. g.placed[i].slot = n /\ g.placed[c].slot \in Int
      BY <1>2, <1>8, <2>1, <2>2
    <3>3. QED
      BY <2>2, <3>1, <3>2
  <2>4. QED
    BY <1>5, <1>6, <1>8, <2>1, <2>2, <2>3
<1>9. ASSUME NEW x \in Members(h.placed) PROVE x \in Members(g.placed) /\ x.slot > n
  <2>1. PICK i \in 1 .. Len(h.placed) : x = h.placed[i]
    BY DEF Members
  <2>2. c + i \in 1 .. Len(g.placed) /\ ~(c + i <= c)
    BY <1>2, <1>3
  <2> DEFINE j == c + i
  <2>3. j \in 1 .. Len(g.placed) /\ ~(j <= c) /\ x = g.placed[j]
    BY <1>3, <2>1, <2>2
  <2> HIDE DEF j
  <2>4. g.placed[j].slot > n
    BY <1>2, <1>3, <2>3
  <2>5. QED
    BY <2>3, <2>4 DEF Members
<1>10. ASSUME NEW x \in Members(g.placed), x.slot > n PROVE x \in Members(h.placed)
  <2>1. PICK i \in 1 .. Len(g.placed) : x = g.placed[i]
    BY DEF Members
  <2>2. ~(i <= c)
    BY <1>2, <1>3, <1>10, <2>1
  <2>3. i - c \in 1 .. Len(h.placed) /\ c + (i - c) = i
    BY <1>2, <1>3, <2>2
  <2>4. h.placed[i - c] = x
    BY <1>3, <2>1, <2>3
  <2>5. QED
    BY <2>3, <2>4 DEF Members
<1>11. QED
  BY <1>4, <1>7, <1>8, <1>9, <1>10 DEF h

(* Two grids on the clock the source never moved, which hold the same for a  *)
(* slot, admit the same.                                                     *)
SameAt(g, w, n) == \A x \in Places : x.slot = n => (x \in Members(g.placed) <=> x \in Members(w.placed))

LEMMA MembersType ==
  ASSUME NEW g, GridInv(g)
  PROVE  \A x \in Members(g.placed) : x \in Places /\ x.slot \in Int /\ x.slot < g.nextFree
BY PlacesType DEF Members

LEMMA AdmitAlike ==
  ASSUME NEW g, GridInv(g), Unspliced(g), NEW w, GridInv(w), Unspliced(w), NEW n \in Int,
         SameAt(g, w, n)
  PROVE  /\ Admitted(g, n) = Admitted(w, n)
         /\ Takes(g, n) => Takes(w, n) /\ TakenAt(w, n) = TakenAt(g, n)
<1>1. Takes(g, n) => Takes(w, n) /\ TakenAt(w, n) = TakenAt(g, n)
  BY TakesMembers, MembersType DEF SameAt
<1>2. Takes(w, n) => Takes(g, n)
  BY TakesMembers, MembersType DEF SameAt
<1>3. TakeGrid(g, n).takenBase = 0 /\ TakeGrid(w, n).takenBase = 0
  BY TakesMembers DEF Unspliced
<1>4. ~StartsBase(g, n) /\ ~StartsBase(w, n)
  <2>1. Len(<<>>) = 0
    OBVIOUS
  <2>2. QED
    BY <2>1 DEF StartsBase, Unspliced
<1>5. CASE Takes(g, n)
  <2>1. StartsBase(g, n) = StartsBase(w, n)
    BY <1>4, Zenon DEF StartsBase
  <2>2. Admitted(g, n) = <<[packet |-> TakenAt(g, n), offset |-> TakeGrid(g, n).takenBase,
                            starts |-> StartsBase(g, n)]>>
    BY <1>5, Zenon DEF Admitted
  <2>3. Admitted(w, n) = <<[packet |-> TakenAt(w, n), offset |-> TakeGrid(w, n).takenBase,
                            starts |-> StartsBase(w, n)]>>
    BY <1>1, <1>5, Zenon DEF Admitted
  <2>4. QED
    BY <1>1, <1>3, <1>5, <2>1, <2>2, <2>3, Zenon
<1>6. CASE ~Takes(g, n)
  BY <1>2, <1>6 DEF Admitted
<1>7. QED
  BY <1>1, <1>5, <1>6

(* What an unstalled slot carries, and what it leaves of the emitter, of one  *)
(* that is not short of input either.                                        *)
CarriedPlain(g, e, n) == Carried(g, e, n, FALSE)
AfterRunning(g, e, n, determined) == AfterSlot(g, e, n, FALSE, determined)
AfterPlain(w, d, n) == AfterSlot(w, d, n, FALSE, TRUE)

(* An emitter in phase, over two grids that admit the same into slot n.      *)
GoesAlike(g, w, e, n, determined) ==
  /\ e \in Emitters /\ e.phased /\ determined \in BOOLEAN
  /\ Admitted(g, n) = Admitted(w, n) /\ g.open # None /\ w.open # None

(* What an emitter does with a slot depends on what the grid admits.         *)
LEMMA SlotAlike ==
  ASSUME NEW g, NEW w, NEW e, NEW n, NEW determined, GoesAlike(g, w, e, n, determined)
  PROVE  /\ CarriedPlain(g, e, n) = CarriedPlain(w, e, n)
         /\ AfterRunning(g, e, n, determined) = AfterPlain(w, e, n)
<1>0. /\ e \in Emitters /\ e.phased /\ determined \in BOOLEAN
      /\ Admitted(g, n) = Admitted(w, n) /\ g.open # None /\ w.open # None
  BY DEF GoesAlike
<1> USE <1>0
<1>1. QueueAt(g, e, n) = QueueAt(w, e, n)
  BY DEF QueueAt
<1>2. Reinserts(g, e, n, FALSE) = Reinserts(w, e, n, FALSE)
  BY <1>1 DEF Reinserts
<1>3. Carried(g, e, n, FALSE) = Carried(w, e, n, FALSE)
  BY <1>1, <1>2 DEF Carried
<1>4. e.phased = TRUE
  BY DEF Emitters
<1>5. AfterSlot(g, e, n, FALSE, determined) = AfterSlot(w, e, n, FALSE, TRUE)
  BY <1>1, <1>2, <1>4 DEF AfterSlot
<1>6. QED
  BY <1>3, <1>5 DEF CarriedPlain, AfterRunning, AfterPlain

(* Slot n brings a leg into phase, and an emitter d whose grid w has the same *)
(* there has nothing deferred if a PCR of the source is in it.               *)
GainsPhase(g, e, halted, determined, w, d, n) ==
  /\ e \in Emitters /\ ~e.phased /\ halted \in BOOLEAN /\ determined \in BOOLEAN
  /\ AfterSlot(g, e, n, halted, determined).phased
  /\ Admitted(g, n) = Admitted(w, n) /\ d \in Emitters
  /\ Takes(g, n) /\ HasPcr(TakenAt(g, n)) => d.deferred = <<>>

(* A leg comes into phase with a PCR of the source in its own slot, nothing  *)
(* deferred: like any emitter that has nothing deferred there.               *)
LEMMA PhaseGained ==
  ASSUME NEW g, NEW e, NEW halted, NEW determined, NEW w, NEW d, NEW n,
         GainsPhase(g, e, halted, determined, w, d, n)
  PROVE  AfterSlot(g, e, n, halted, determined) = AfterPlain(w, d, n)
<1>0. /\ e \in Emitters /\ ~e.phased /\ halted \in BOOLEAN /\ determined \in BOOLEAN
      /\ AfterSlot(g, e, n, halted, determined).phased
      /\ Admitted(g, n) = Admitted(w, n) /\ d \in Emitters
      /\ Takes(g, n) /\ HasPcr(TakenAt(g, n)) => d.deferred = <<>>
  BY DEF GainsPhase
<1> USE <1>0
<1> DEFINE queue == QueueAt(g, e, n)
           q == Head(queue)
           a == [packet |-> TakenAt(g, n), offset |-> TakeGrid(g, n).takenBase, starts |-> StartsBase(g, n)]
           f == AfterSlot(g, e, n, halted, determined)
           settled == [deferred |-> <<>>, phased |-> TRUE, last |-> n, base |-> a.offset]
<1>1. ~Reinserts(g, e, n, halted)
  BY DEF Reinserts
<1>2. e.deferred \in Seq(Admissions) /\ Len(e.deferred) \in Nat
  BY LenProperties DEF Emitters
<1>3. /\ queue # <<>> /\ HasPcr(q.packet) /\ determined /\ Len(queue) = 1 /\ Admitted(g, n) # <<>>
      /\ f = [deferred |-> Tail(queue),
              phased   |-> e.phased \/ (determined /\ Len(queue) = 1 /\ Admitted(g, n) # <<>>),
              last |-> n, base |-> q.offset]
  <2>1. CASE queue = <<>>
    <3>1. f = e
      BY <1>1, <2>1 DEF AfterSlot
    <3>2. QED
      BY <3>1
  <2>2. CASE queue # <<>> /\ ~HasPcr(q.packet)
    <3>1. f = [e EXCEPT !.deferred = Tail(queue)]
      BY <1>1, <2>2 DEF AfterSlot
    <3> HIDE DEF f, queue
    <3>2. f.phased = e.phased
      BY <3>1 DEF Emitters
    <3>3. QED
      BY <3>2 DEF f
  <2>3. CASE queue # <<>> /\ HasPcr(q.packet)
    <3>1. f = [deferred |-> Tail(queue),
               phased   |-> e.phased \/ (determined /\ Len(queue) = 1 /\ Admitted(g, n) # <<>>),
               last |-> n, base |-> q.offset]
      BY <1>1, <2>3 DEF AfterSlot
    <3>2. f.phased
      OBVIOUS
    <3> HIDE DEF f, queue, q
    <3>3. determined /\ Len(queue) = 1 /\ Admitted(g, n) # <<>>
      BY <3>1, <3>2
    <3>4. QED
      BY <2>3, <3>1, <3>3
  <2>4. QED
    BY <2>1, <2>2, <2>3
<1>4. Takes(g, n) /\ Admitted(g, n) = <<a>> /\ Admitted(w, n) = <<a>>
  BY <1>3 DEF Admitted
<1> HIDE DEF a
<1>5. e.deferred = <<>> /\ queue = <<a>>
  <2>1. Len(e.deferred \o <<a>>) = Len(e.deferred) + 1
    <3>1. e.deferred \o <<a>> = Append(e.deferred, a)
      BY <1>2
    <3>2. e.deferred \in Seq(Admissions \cup {a}) /\ a \in Admissions \cup {a}
      BY <1>2
    <3>3. QED
      BY <3>1, <3>2, AppendProperties
  <2>2. Len(e.deferred) = 0
    BY <1>2, <1>3, <1>4, <2>1 DEF QueueAt
  <2>3. e.deferred = <<>>
    BY <1>2, <2>2, EmptySeq
  <2>4. QED
    BY <1>4, <2>3 DEF QueueAt
<1>6. HasPcr(a.packet) /\ a.packet = TakenAt(g, n) /\ q = a
  <2>1. q = a
    BY <1>5
  <2>2. QED
    BY <1>3, <2>1 DEF a
<1>7. f = settled
  <2>1. Tail(queue) = <<>> /\ q.offset = a.offset
    BY <1>5, <1>6
  <2> HIDE DEF queue, q, f
  <2>2. QED
    BY <1>3, <2>1
<1>8. AfterSlot(w, d, n, FALSE, TRUE) = settled
  <2>1. d.deferred = <<>>
    BY <1>4, <1>6
  <2>2. QueueAt(w, d, n) = <<a>>
    BY <1>4, <2>1 DEF QueueAt
  <2>3. Head(QueueAt(w, d, n)) = a /\ Tail(QueueAt(w, d, n)) = <<>> /\ QueueAt(w, d, n) # <<>>
        /\ Len(QueueAt(w, d, n)) = 1
    BY <2>2
  <2>4. ~Reinserts(w, d, n, FALSE)
    BY <1>6, <2>3 DEF Reinserts
  <2>5. d.phased \/ (TRUE /\ Len(QueueAt(w, d, n)) = 1 /\ Admitted(w, n) # <<>>)
    BY <1>4, <2>3
  <2>6. AfterSlot(w, d, n, FALSE, TRUE) =
          [deferred |-> Tail(QueueAt(w, d, n)),
           phased   |-> d.phased \/ (TRUE /\ Len(QueueAt(w, d, n)) = 1 /\ Admitted(w, n) # <<>>),
           last |-> n, base |-> Head(QueueAt(w, d, n)).offset]
    BY <1>6, <2>3, <2>4 DEF AfterSlot
  <2>7. QED
    BY <2>3, <2>5, <2>6
<1>9. QED
  BY <1>7, <1>8 DEF AfterPlain

(* What the partner holds as it emits: all that is placed in later slots.    *)
Holds(g, whole, n) ==
  /\ GridInv(g) /\ Unspliced(g) /\ g.open # None
  /\ \A x \in Places : x.slot > n => (x \in Members(g.placed) <=> x \in Members(whole.placed))

LEMMA PartnerHolds ==
  ASSUME NEW f, Stamped(f), RunsOn(f)
  PROVE  LET whole == PartnerGrid(f)
             R == PartnerSlots(f)
         IN  /\ whole.knownFrom = PartnerGrids(f)[1].open.slot
             /\ whole.knownFrom \in Int /\ whole.open.slot \in Int
             /\ \A n \in whole.knownFrom - 1 .. whole.open.slot - 1 :
                  Holds(R[n].grid, whole, n) /\ R[n].emitter \in Emitters
             /\ \A n \in whole.knownFrom .. whole.open.slot - 1 : R[n] = SlotAfter(R[n - 1], n)
<1> DEFINE whole == PartnerGrid(f)
           R == PartnerSlots(f)
           first == whole.knownFrom
           last == whole.open.slot
           size == last - first
           T == {k \in 0 .. size : LET n == first - 1 + k
                                   IN  Holds(R[n].grid, whole, n) /\ R[n].emitter \in Emitters}
<1>1. Len(f) \in Nat \ {0}
  <2>1. f \in Seq(Packets)
    BY DEF Stamped
  <2>2. f # <<>>
    BY DEF RunsOn
  <2>3. QED
    BY <2>1, <2>2, EmptySeq, LenProperties
<1>2. Len(f) \in 1 .. Len(f) /\ 1 \in 1 .. Len(f)
  <2> DEFINE length == Len(f)
  <2>1. length \in Nat \ {0}
    BY <1>1
  <2> HIDE DEF length
  <2>2. length \in 1 .. length /\ 1 \in 1 .. length
    BY <2>1
  <2>3. QED
    BY <2>2 DEF length
<1>3. Ideal(f, Len(f)) /\ Ideal(f, 1) /\ Reaches(PartnerGrids(f)[1], PartnerGrids(f)[Len(f)])
  <2>1. \A i \in 1 .. Len(f) : Ideal(f, i)
    BY IdealAlways
  <2>2. \A i \in 1 .. Len(f) : Reaches(PartnerGrids(f)[1], PartnerGrids(f)[i])
    <3>1. \A k \in 1 .. Len(f) : \A i \in k .. Len(f) : Reaches(PartnerGrids(f)[k], PartnerGrids(f)[i])
      BY IdealGrows
    <3>2. QED
      BY <1>2, <3>1
  <2>3. QED
    BY <1>2, <2>1, <2>2
<1>4. GridInv(whole) /\ Unspliced(whole) /\ whole.open # None /\ first = PartnerGrids(f)[1].open.slot
  BY <1>3 DEF Ideal, PartnerGrid
<1>5. first \in Int
  <2> DEFINE g == PartnerGrids(f)[1]
  <2>1. GridInv(g) /\ g.open # None
    BY <1>3 DEF Ideal
  <2>2. first = g.open.slot
    <3> HIDE DEF first
    <3>1. QED
      BY <1>4
  <2> HIDE DEF g, first
  <2>3. g.open.slot \in Int
    BY <2>1 DEF GridInv, Grids, Openings
  <2>4. QED
    BY <2>2, <2>3
<1>6. last \in Int
  <2> HIDE DEF whole
  <2>1. QED
    BY <1>4 DEF GridInv, Grids, Openings
<1>7. first <= last
  BY <1>3, <1>4 DEF Reaches, PartnerGrid
<1>8. size \in Nat
  BY <1>5, <1>6, <1>7
<1>9. R[first - 1] = OnAir(whole) /\ \A n \in first .. last - 1 : R[n] = SlotAfter(R[n - 1], n)
  BY <1>5, <1>6, <1>7, SlotsAre
<1> HIDE DEF whole, R, first, last
<1>10. 0 \in T
  <2>1. R[first - 1].grid = whole /\ R[first - 1].emitter = NewEmitter
    BY <1>9 DEF OnAir
  <2>2. NewEmitter \in Emitters
    <3>1. <<>> \in Seq(Admissions)
      OBVIOUS
    <3>2. QED
      BY <3>1 DEF NewEmitter, Emitters
  <2>3. Holds(whole, whole, first - 1)
    BY <1>4 DEF Holds
  <2>4. first - 1 + 0 = first - 1 /\ 0 \in 0 .. size
    BY <1>5, <1>8
  <2>5. QED
    BY <2>1, <2>2, <2>3, <2>4
<1>11. ASSUME NEW k \in 1 .. size, k - 1 \in T PROVE k \in T
  <2> DEFINE n == first - 1 + k
             before == R[n - 1]
  <2>1. n \in first .. last - 1 /\ n \in Int /\ n - 1 = first - 1 + (k - 1) /\ k \in 0 .. size
    BY <1>5, <1>6, <1>8 DEF size
  <2>2. Holds(before.grid, whole, n - 1) /\ before.emitter \in Emitters
    BY <1>11, <2>1
  <2>3. R[n] = SlotAfter(before, n)
    BY <1>9, <2>1
  <2> HIDE DEF n, before
  <2>4. R[n].grid = TakeGrid(before.grid, n) /\ R[n].emitter = AfterSlot(before.grid, before.emitter, n, FALSE, TRUE)
    BY <2>3 DEF SlotAfter
  <2>5. R[n].emitter \in Emitters
    BY <2>1, <2>2, <2>4, SlotKeeps DEF Holds
  <2>6. GridInv(R[n].grid) /\ Unspliced(R[n].grid) /\ R[n].grid.open # None
    <3>1. GridInv(before.grid) /\ Unspliced(before.grid) /\ before.grid.open # None
      BY <2>2 DEF Holds
    <3>2. GridInv(TakeGrid(before.grid, n)) /\ Unspliced(TakeGrid(before.grid, n))
      BY <2>1, <3>1, TakeKeeps, TakesMembers
    <3>3. TakeGrid(before.grid, n).open = before.grid.open
      BY <2>1, <3>1, TakePasses
    <3>4. QED
      BY <2>4, <3>1, <3>2, <3>3
  <2>7. ASSUME NEW x \in Places, x.slot > n
        PROVE  x \in Members(R[n].grid.placed) <=> x \in Members(whole.placed)
    <3>1. x.slot > n - 1
      BY <2>1, <2>7 DEF Places
    <3>2. x \in Members(before.grid.placed) <=> x \in Members(whole.placed)
      BY <2>2, <3>1 DEF Holds
    <3>3. Members(R[n].grid.placed) = {y \in Members(before.grid.placed) : y.slot > n}
      BY <2>1, <2>2, <2>4, TakesMembers DEF Holds
    <3>4. QED
      BY <2>7, <3>2, <3>3
  <2>8. Holds(R[n].grid, whole, n)
    BY <2>6, <2>7 DEF Holds
  <2>9. QED
    BY <2>1, <2>5, <2>8 DEF n
<1>12. \A k \in 0 .. size : k \in T
  <2> HIDE DEF T, size
  <2>1. QED
    BY <1>8, <1>10, <1>11, Upwards
<1>13. ASSUME NEW n \in first - 1 .. last - 1
       PROVE  Holds(R[n].grid, whole, n) /\ R[n].emitter \in Emitters
  <2>1. n - (first - 1) \in 0 .. size /\ first - 1 + (n - (first - 1)) = n
    BY <1>5, <1>6 DEF size
  <2>2. QED
    BY <1>12, <2>1
<1>14. QED
  BY <1>4, <1>5, <1>6, <1>9, <1>13 DEF whole, R, first, last
-----------------------------------------------------------------------------
(* A leg abreast of the partner: its open run begins with packet k, in the   *)
(* partner's slot, and from where it knows the stream on it holds what the   *)
(* partner held then, but for the slots that are past.                       *)
Abreast(f, g, k, begun, slot) ==
  LET w == PartnerGrids(f)[k]
  IN  /\ k \in 1 .. Len(f) /\ HasPcr(f[k])
      /\ g.open.slot = w.open.slot
      /\ g.run # <<>> => g.run[1] = f[k]
      /\ Members(g.placed) \subseteq Members(w.placed)
      /\ \A x \in Members(w.placed) :
           x.slot >= g.knownFrom /\ (begun = 0 \/ x.slot >= slot) => x \in Members(g.placed)
      /\ Greatest(g.nextFree, g.open.slot) = Greatest(w.nextFree, g.open.slot)
      /\ \E m \in 1 .. k : g.knownFrom = PartnerGrids(f)[m].open.slot

(* How such a leg judges the next PCR: it opens its run in the partner's     *)
(* slot, closes the run before only if it has all of it, and otherwise goes  *)
(* on from there, in a stream whose runs leave no content behind.            *)
JudgedAlike(f, g, h, j) ==
  LET w == PartnerGrids(f)
  IN  /\ h.open.slot = w[j].open.slot /\ h.rebased = 0
      /\ j > 1 => \/ g.open # None /\ h.cut = g.cut /\ g.run = w[j - 1].run
                  \/ (g.open = None \/ h.cut # g.cut) /\ Fits(f)

LEMMA IdealSlots ==
  ASSUME NEW f, Stamped(f), RunsOn(f), NEW k \in 1 .. Len(f)
  PROVE  LET w == PartnerGrids(f)[k]
         IN  /\ GridInv(w) /\ w.open # None /\ w.open.slot \in Int /\ w.nextFree \in Int
             /\ w.open.slot >= 0 /\ Ideal(f, k)
<1> DEFINE w == PartnerGrids(f)[k]
<1>1. GridInv(w) /\ StampedGrid(w) /\ w.open # None /\ Ideal(f, k)
  BY IdealAlways DEF Ideal
<1> HIDE DEF w
<1>2. w.open.slot \in Int /\ w.nextFree \in Int /\ w.open.slot >= 0
  BY <1>1 DEF GridInv, Grids, Openings, StampedGrid
<1>3. QED
  BY <1>1, <1>2 DEF w

(* Where runs leave no content behind, none lies at an opening or later.     *)
LEMMA FitsBehind ==
  ASSUME NEW f, Stamped(f), RunsOn(f), Fits(f), NEW k \in 1 .. Len(f), HasPcr(f[k])
  PROVE  LET w == PartnerGrids(f)[k]
         IN  /\ Greatest(w.nextFree, w.open.slot) = w.open.slot
             /\ \A x \in Members(w.placed) : ~(x.slot >= w.open.slot)
<1> DEFINE w == PartnerGrids(f)[k]
<1>1. w.nextFree <= w.open.slot
  BY DEF Fits
<1>2. GridInv(w) /\ w.open.slot \in Int /\ w.nextFree \in Int
  BY IdealSlots
<1> HIDE DEF w
<1>3. \A x \in Members(w.placed) : ~(x.slot >= w.open.slot)
  BY <1>1, <1>2, MembersType
<1>4. Greatest(w.nextFree, w.open.slot) = w.open.slot
  BY <1>1, <1>2 DEF Greatest
<1>5. QED
  BY <1>3, <1>4 DEF w

(* A leg that starts anew with a PCR: all that it held or missed lies behind. *)
LEMMA StartsAbreast ==
  ASSUME NEW f, Stamped(f), RunsOn(f), NEW j \in 1 .. Len(f), HasPcr(f[j]),
         NEW h, h.open.slot = PartnerGrids(f)[j].open.slot, h.run = <<f[j]>>,
         h.knownFrom = h.open.slot, h.nextFree \in Int, h.nextFree <= h.open.slot,
         Members(h.placed) \subseteq Members(PartnerGrids(f)[j].placed),
         j > 1 => Fits(f), NEW begun, NEW slot
  PROVE  Abreast(f, h, j, begun, slot)
<1> DEFINE w == PartnerGrids(f)[j]
<1>1. /\ GridInv(w) /\ w.open.slot \in Int /\ w.nextFree \in Int /\ w.open.slot >= 0 /\ j \in Int
  BY IdealSlots
<1>2. Greatest(w.nextFree, w.open.slot) = w.open.slot /\ \A x \in Members(w.placed) : ~(x.slot >= w.open.slot)
  <2>1. CASE j > 1
    BY <2>1, FitsBehind
  <2>2. CASE j = 1
    <3>1. Placement(w) = Placement(NewGrid)
      BY <2>2, IdealFirst
    <3> HIDE DEF w
    <3>2. w.placed = <<>> /\ w.nextFree = 0 /\ Len(<<>>) = 0
      BY <3>1 DEF Placement, NewGrid
    <3>3. Members(w.placed) = {}
      BY <3>2 DEF Members
    <3>4. QED
      BY <1>1, <3>2, <3>3 DEF Greatest
  <2>3. QED
    BY <1>1, <2>1, <2>2
<1>3. h.run[1] = f[j]
  OBVIOUS
<1>4. Greatest(h.nextFree, h.open.slot) = h.open.slot
  <2>1. h.open.slot \in Int
    BY <1>1
  <2>2. QED
    BY <2>1 DEF Greatest
<1>5. j \in 1 .. j /\ h.knownFrom = PartnerGrids(f)[j].open.slot
  BY <1>1
<1>6. QED
  BY <1>2, <1>3, <1>4, <1>5 DEF Abreast

LEMMA PcrAbreast ==
  ASSUME NEW f, Stamped(f), RunsOn(f), NEW j \in 1 .. Len(f), HasPcr(f[j]),
         NEW g, GridInv(g), StampedGrid(g), MarkedGrid(g), Going(g), Unspliced(g),
         g.open = None => g.placed = <<>> /\ g.nextFree = 0,
         NEW begun, NEW slot,
         g.open # None => \E k \in 1 .. j - 1 : Abreast(f, g, k, begun, slot),
         NEW at \in Int, NEW horizon, NEW capacity \in Nat \ {0},
         g.open = None \/ PushGrid(g, f[j], at, horizon, capacity).shed = g.shed,
         JudgedAlike(f, g, PushGrid(g, f[j], at, horizon, capacity), j)
  PROVE  LET h == PushGrid(g, f[j], at, horizon, capacity)
         IN  Abreast(f, h, j, begun, slot) /\ Unspliced(h) /\ h.open # None
<1> DEFINE p == f[j]
           G == PartnerGrids(f)
           w == G[j]
           n == NoteContinuity(g, p)
           h == PushGrid(g, p, at, horizon, capacity)
<1>1. p \in Packets /\ p.id = j /\ capacity \in Nat /\ HasPcr(p)
  BY PacketTypes
<1>2. Judges(g, h, p, at, horizon, capacity)
  BY <1>1, PcrJudges
<1>3. Alike(g, n)
  BY <1>1, NoteAlike
<1>4. Opens(n, h, p, at, horizon, capacity)
  BY <1>2 DEF Judges
<1>5. /\ w.open.slot \in Int /\ w.nextFree \in Int /\ w.open.slot >= 0 /\ j \in Int
      /\ h.open.slot = w.open.slot /\ h.rebased = 0
  BY IdealSlots DEF JudgedAlike
<1>6. g.nextFree \in Int /\ (g.open # None => g.open.slot \in Int)
  BY DEF GridInv, Grids, Openings
<1> HIDE DEF p, G, w, n, h
<1>7. /\ h.run = <<p>> /\ h.open # None /\ h.openBase = 0 /\ h.open.slot = OpenSlot(n, p, at, horizon)
  BY <1>4, <1>5 DEF Opens
<1>8. CASE g.open = None
  <2>1. Placement(h) = Placement(g) /\ h.knownFrom = h.open.slot
    BY <1>2, <1>7, <1>8 DEF Judges, n
  <2>2. h.placed = <<>> /\ h.nextFree = 0 /\ Unspliced(h)
    BY <1>5, <1>7, <1>8, <2>1 DEF Placement, Unspliced
  <2>3. Members(h.placed) = {}
    BY <2>2 DEF Members
  <2>4. j > 1 => Fits(f)
    BY <1>8 DEF JudgedAlike
  <2>5. h.nextFree \in Int /\ h.nextFree <= h.open.slot
    BY <1>5, <2>2
  <2>6. Abreast(f, h, j, begun, slot)
    BY <1>1, <1>5, <1>7, <2>1, <2>3, <2>4, <2>5, StartsAbreast DEF p, w, G
  <2>7. QED
    BY <1>7, <2>2, <2>6 DEF h, p
<1>9. CASE g.open # None
  <2>1. PICK k \in 1 .. j - 1 : Abreast(f, g, k, begun, slot)
    BY <1>9
  <2>2. /\ k \in 1 .. Len(f) /\ HasPcr(f[k]) /\ g.open.slot = G[k].open.slot /\ g.run[1] = f[k]
        /\ Members(g.placed) \subseteq Members(G[k].placed)
        /\ \A x \in Members(G[k].placed) :
             x.slot >= g.knownFrom /\ (begun = 0 \/ x.slot >= slot) => x \in Members(g.placed)
        /\ Greatest(g.nextFree, g.open.slot) = Greatest(G[k].nextFree, g.open.slot)
        /\ \E m \in 1 .. k : g.knownFrom = G[m].open.slot
    BY <1>9, <2>1 DEF Abreast, Going, G
  <2>3. j > 1 /\ k < j /\ k \in Int /\ j \in k .. Len(f)
    BY <1>5, <2>1
  <2>4. Reaches(G[k], w)
    BY <2>2, <2>3, IdealGrows DEF G, w
  <2>5. g.run # <<>>
    BY <1>9 DEF Going
  <2>6. (h.cut = g.cut => Closes(g, h)) /\ (h.cut # g.cut => Cuts(g, h))
    BY <1>1, <1>9, <2>5, PcrCloses DEF h, p
  <2>7. CASE h.cut # g.cut /\ Fits(f)
    <3>1. Placement(h) = Placement(g) /\ h.knownFrom = h.open.slot
      BY <2>6, <2>7 DEF Cuts
    <3>2. h.placed = g.placed /\ h.nextFree = g.nextFree /\ Unspliced(h)
      BY <1>5, <1>7, <3>1 DEF Placement, Unspliced
    <3>3. Members(h.placed) \subseteq Members(w.placed)
      BY <2>2, <2>4, <3>2 DEF Reaches
    <3>4. h.nextFree \in Int /\ h.nextFree <= h.open.slot
      <4>1. Greatest(G[k].nextFree, G[k].open.slot) = G[k].open.slot
        BY <2>2, <2>7, FitsBehind DEF G
      <4>2. g.nextFree <= g.open.slot
        BY <1>6, <1>9, <2>2, <4>1 DEF Greatest
      <4>3. g.open.slot <= w.open.slot
        BY <2>2, <2>4 DEF Reaches
      <4>4. QED
        BY <1>5, <1>6, <1>9, <3>2, <4>2, <4>3
    <3>5. Abreast(f, h, j, begun, slot)
      BY <1>1, <1>5, <1>7, <2>7, <3>1, <3>3, <3>4, StartsAbreast DEF p, w, G
    <3>6. QED
      BY <1>7, <3>2, <3>5 DEF h, p
  <2>8. CASE h.cut = g.cut /\ g.run = G[j - 1].run
    <3> DEFINE v == G[j - 1]
    <3>1. j - 1 \in 1 .. Len(f) /\ j \in 2 .. Len(f)
      BY <1>5, <2>3
    <3>2. Ideal(f, j - 1)
      BY <3>1, IdealAlways
    <3>3. Closes(v, w)
      BY <1>1, <3>1, <3>2, IdealNext DEF G, w, p
    <3>4. v.run[1] = f[k] /\ f[k].id = k
      BY <2>2, <2>8, PacketTypes
    <3>5. Placement(v) = Placement(G[k]) /\ v.open = G[k].open
      BY <3>2, <3>4 DEF Ideal, G
    <3> HIDE DEF v
    <3>6. v.nextFree = G[k].nextFree /\ v.placed = G[k].placed /\ v.open.slot = g.open.slot /\ v.run = g.run
      BY <2>2, <2>8, <3>5 DEF Placement, v
    <3> DEFINE new == Spread(g, w.open.slot)
    <3>7. Spread(v, w.open.slot) = new
      BY <2>2, <3>6 DEF Spread
    <3>8. /\ Members(h.placed) = Members(g.placed) \cup Members(new)
          /\ h.nextFree = LastOf(new).slot + 1 /\ h.placedBase = g.openBase
          /\ h.takenBase = g.takenBase /\ (g.openBase = g.placedBase => h.bases = g.bases)
          /\ h.knownFrom = g.knownFrom
      BY <1>5, <2>6, <2>8 DEF Closes
    <3>9. /\ Members(w.placed) = Members(G[k].placed) \cup Members(new)
          /\ w.nextFree = LastOf(new).slot + 1
      BY <3>3, <3>6, <3>7 DEF Closes
    <3> HIDE DEF new
    <3>10. Unspliced(h)
      BY <1>5, <1>7, <3>8 DEF Unspliced
    <3>11. h.run[1] = p
      BY <1>7
    <3>12. PICK m \in 1 .. k : g.knownFrom = G[m].open.slot
      BY <2>2
    <3>13. m \in 1 .. j /\ h.knownFrom = G[m].open.slot
      BY <2>3, <3>8, <3>12
    <3>14. Abreast(f, h, j, begun, slot)
      BY <1>1, <1>5, <2>2, <3>8, <3>9, <3>11, <3>13 DEF Abreast, G, w, p
    <3>15. QED
      BY <1>7, <3>10, <3>14 DEF h, p
  <2>9. QED
    <3>1. \/ g.open # None /\ h.cut = g.cut /\ g.run = G[j - 1].run
          \/ (g.open = None \/ h.cut # g.cut) /\ Fits(f)
      BY <2>3 DEF JudgedAlike, h, G, p
    <3>2. QED
      BY <1>9, <2>7, <2>8, <3>1
<1>10. QED
  BY <1>8, <1>9
-----------------------------------------------------------------------------
(* What keeps a leg abreast: its clock moves on, its slots pass, and its run *)
(* grows or is discarded.                                                    *)
LEMMA AbreastLater ==
  ASSUME NEW f, Stamped(f), RunsOn(f), NEW g, NEW k, NEW begun, NEW s \in Int, NEW t \in Int,
         Abreast(f, g, k, begun, s), begun = 0 \/ s <= t, NEW later, later = 1 \/ later = begun
  PROVE  Abreast(f, g, k, later, t)
<1> DEFINE w == PartnerGrids(f)[k]
<1>1. k \in 1 .. Len(f)
  BY DEF Abreast
<1>2. GridInv(w)
  BY <1>1, IdealSlots
<1>3. \A x \in Members(w.placed) : x.slot \in Int
  <2> HIDE DEF w
  <2>1. QED
    BY <1>2, MembersType
<1>4. ASSUME NEW x \in Members(w.placed), x.slot >= g.knownFrom, later = 0 \/ x.slot >= t
      PROVE  x \in Members(g.placed)
  <2>1. begun = 0 \/ x.slot >= s
    BY <1>3, <1>4
  <2>2. QED
    BY <1>4, <2>1 DEF Abreast
<1>5. QED
  BY <1>4 DEF Abreast

LEMMA TakeKnows ==
  ASSUME NEW g, GridInv(g), NEW slot
  PROVE  LET h == TakeGrid(g, slot)
         IN  /\ h.knownFrom = g.knownFrom /\ h.spans = g.spans /\ h.cut = g.cut
             /\ h.continuity = g.continuity /\ h.broken = g.broken
<1> DEFINE placed == SubSeq(g.placed, PassedAt(g, slot) + 1, Len(g.placed))
           bases  == SubSeq(g.bases, BasesUsed(g, slot) + 1, Len(g.bases))
           taken  == IF BasesUsed(g, slot) = 0 THEN g.takenBase ELSE g.bases[BasesUsed(g, slot)].offset
           h == TakeGrid(g, slot)
<1>1. h = [g EXCEPT !.placed = placed, !.bases = bases, !.takenBase = taken]
  BY DEF TakeGrid
<1> HIDE DEF h, placed, bases, taken
<1>2. g \in Grids
  BY DEF GridInv
<1>3. /\ h.knownFrom = g.knownFrom /\ h.spans = g.spans /\ h.cut = g.cut
      /\ h.continuity = g.continuity /\ h.broken = g.broken
  BY <1>1, <1>2 DEF Grids
<1>4. QED
  BY <1>3 DEF h

LEMMA AbreastTakes ==
  ASSUME NEW f, Stamped(f), RunsOn(f), NEW g, GridInv(g), NEW k, NEW n \in Int,
         Abreast(f, g, k, 1, n)
  PROVE  Abreast(f, TakeGrid(g, n), k, 1, n + 1)
<1> DEFINE w == PartnerGrids(f)[k]
           h == TakeGrid(g, n)
<1>1. h.run = g.run /\ h.open = g.open /\ h.nextFree = g.nextFree /\ h.knownFrom = g.knownFrom
  BY TakePasses, TakeKnows
<1>2. Members(h.placed) = {x \in Members(g.placed) : x.slot > n}
  BY TakesMembers
<1>3. k \in 1 .. Len(f)
  BY DEF Abreast
<1>4. GridInv(w)
  BY <1>3, IdealSlots
<1>5. \A x \in Members(w.placed) : x.slot \in Int
  <2> HIDE DEF w
  <2>1. QED
    BY <1>4, MembersType
<1> HIDE DEF h
<1>6. ASSUME NEW x \in Members(w.placed), x.slot >= h.knownFrom, 1 = 0 \/ x.slot >= n + 1
      PROVE  x \in Members(h.placed)
  <2>1. x.slot >= n /\ x.slot > n
    BY <1>5, <1>6
  <2>2. x \in Members(g.placed)
    BY <1>1, <1>6, <2>1 DEF Abreast
  <2>3. QED
    BY <1>2, <2>1, <2>2
<1>7. Members(h.placed) \subseteq Members(w.placed)
  BY <1>2 DEF Abreast
<1>8. QED
  BY <1>1, <1>6, <1>7 DEF Abreast, h

LEMMA AbreastStays ==
  ASSUME NEW f, NEW g, NEW h, NEW k, NEW begun, NEW slot, Abreast(f, g, k, begun, slot),
         h.open = g.open, h.placed = g.placed, h.nextFree = g.nextFree, h.knownFrom = g.knownFrom,
         h.run = <<>> \/ (g.run # <<>> /\ h.run[1] = g.run[1])
  PROVE  Abreast(f, h, k, begun, slot)
BY DEF Abreast

(* In a slot such a leg knows it holds what the partner takes there.         *)
LEMMA TakesAlike ==
  ASSUME NEW f, Stamped(f), RunsOn(f), NEW g, GridInv(g), g.open # None, g.knownFrom # None,
         NEW k, NEW n \in Int, Abreast(f, g, k, 1, n), g.knownFrom <= n, n < g.open.slot
  PROVE  LET whole == PartnerGrid(f)
             w == PartnerSlots(f)[n - 1].grid
         IN  /\ n \in whole.knownFrom .. whole.open.slot - 1
             /\ GridInv(w) /\ Unspliced(w) /\ w.open # None /\ SameAt(g, w, n)
<1> DEFINE G == PartnerGrids(f)
           whole == PartnerGrid(f)
           w == PartnerSlots(f)[n - 1].grid
           last == Len(f)
<1>1. whole = G[last]
  BY DEF PartnerGrid
<1>2. k \in 1 .. last /\ g.open.slot = G[k].open.slot
  BY DEF Abreast
<1>3. PICK m \in 1 .. k : g.knownFrom = G[m].open.slot
  BY DEF Abreast
<1>4. last \in Nat
  BY LenProperties DEF Stamped
<1>5. m \in 1 .. last /\ 1 \in 1 .. last /\ last \in k .. last /\ m \in 1 .. last /\ last \in 1 .. last
  BY <1>2, <1>3, <1>4
<1>6. Reaches(G[1], G[m]) /\ Reaches(G[k], G[last])
  BY <1>2, <1>5, IdealGrows
<1>7. /\ G[1].open.slot \in Int /\ G[m].open.slot \in Int /\ G[k].open.slot \in Int
      /\ G[last].open.slot \in Int /\ GridInv(G[last])
  BY <1>2, <1>5, IdealSlots
<1>8. /\ whole.knownFrom = G[1].open.slot
      /\ \A i \in whole.knownFrom - 1 .. whole.open.slot - 1 : Holds(PartnerSlots(f)[i].grid, whole, i)
  BY PartnerHolds
<1>9. whole.knownFrom <= n /\ n < whole.open.slot
  <2>1. G[1].open.slot <= G[m].open.slot /\ G[k].open.slot <= G[last].open.slot
    BY <1>6 DEF Reaches
  <2> HIDE DEF G, whole, last
  <2>2. QED
    BY <1>1, <1>2, <1>3, <1>7, <1>8, <2>1
<1>10. n \in whole.knownFrom .. whole.open.slot - 1 /\ n - 1 \in whole.knownFrom - 1 .. whole.open.slot - 1
  <2>1. whole.knownFrom \in Int /\ whole.open.slot \in Int
    BY <1>1, <1>7, <1>8
  <2> HIDE DEF whole
  <2>2. QED
    BY <1>9, <2>1
<1>11. Holds(w, whole, n - 1)
  BY <1>8, <1>10
<1>12. SameAt(g, w, n)
  <2> SUFFICES ASSUME NEW x \in Places, x.slot = n
               PROVE  x \in Members(g.placed) <=> x \in Members(w.placed)
    BY DEF SameAt
  <2>1. x \in Members(w.placed) <=> x \in Members(whole.placed)
    BY <1>11, n > n - 1 DEF Holds
  <2>2. x \in Members(whole.placed) <=> x \in Members(G[k].placed)
    <3>1. ~(x.slot >= G[k].open.slot)
      BY <1>2, <1>7
    <3>2. QED
      BY <1>1, <1>6, <3>1 DEF Reaches
  <2>3. x \in Members(G[k].placed) <=> x \in Members(g.placed)
    BY DEF Abreast
  <2>4. QED
    BY <2>1, <2>2, <2>3
<1>13. QED
  BY <1>10, <1>11, <1>12 DEF Holds
-----------------------------------------------------------------------------
(* What holds of a leg that agrees with its partner, feed f being sent: its  *)
(* grid is abreast of the partner's; in phase, its emitter is the partner's  *)
(* at the slot before; and what is on the wire is what the partner sends.    *)
Alongside(f, g, next, begun, slot) ==
  /\ Unspliced(g)
  /\ g.open = None => g.placed = <<>> /\ g.nextFree = 0
  /\ g.open # None => \E k \in 1 .. next - 1 : Abreast(f, g, k, begun, slot)
InStep(f, e, slot) ==
  e.phased => LET whole == PartnerGrid(f)
              IN  /\ slot - 1 \in whole.knownFrom - 1 .. whole.open.slot - 1
                  /\ e = PartnerSlots(f)[slot - 1].emitter
Matches(f, w) == w # None => w.slot \in DOMAIN PartnerSends(f) /\ w.packet = PartnerSends(f)[w.slot]
Knows(g, d, slot) == d # None /\ d.determined => ~d.stalled /\ g.knownFrom # None /\ g.knownFrom <= slot

Agrees(f) ==
  /\ Alongside(f, grid, path.next, count.begun, clock.slot)
  /\ InStep(f, emitter, clock.slot)
  /\ Matches(f, wire)
  /\ Knows(grid, datagram, clock.slot)

LEMMA AlongsideLater ==
  ASSUME NEW f, Stamped(f), RunsOn(f), NEW g, NEW next \in Int, NEW then \in Int, next <= then,
         NEW begun, NEW later, later = 1 \/ later = begun, NEW s \in Int, NEW t \in Int,
         begun = 0 \/ s <= t, Alongside(f, g, next, begun, s)
  PROVE  Alongside(f, g, then, later, t)
<1>1. ASSUME g.open # None
      PROVE  \E k \in 1 .. then - 1 : Abreast(f, g, k, later, t)
  <2>1. PICK k \in 1 .. next - 1 : Abreast(f, g, k, begun, s)
    BY <1>1 DEF Alongside
  <2>2. Abreast(f, g, k, later, t)
    BY <2>1, AbreastLater
  <2>3. k \in 1 .. then - 1
    BY <2>1
  <2>4. QED
    BY <2>2, <2>3
<1>2. QED
  BY <1>1 DEF Alongside

(* A leg that the stream reaches.                                            *)
LEMMA DeliverAgrees ==
  ASSUME LegType, WatchInv, LiveInv, Deliver, grid.open # None => grid'.shed = grid.shed,
         NEW CONSTANT f, Sending = f, RunsOn(f), Agrees(f),
         HasPcr(f[path.next]) => JudgedAlike(f, grid, grid', path.next)
  PROVE  Agrees(f)'
<1> DEFINE j == path.next
           p == f[j]
           horizon == IF count.begun > 0 THEN clock.slot + Capacity ELSE None
           h == PushGrid(grid, p, now, horizon, Capacity)
           slot == clock'.slot
           begun == count.begun
<1>0. Stamped(f)
  BY FeedsStamped
<1>1. /\ datagram = None /\ UNCHANGED <<emitter, datagram, count, wire>> /\ ~source.closing
      /\ j <= Len(f) /\ p \in Packets /\ grid' = h /\ path' = [path EXCEPT !.next = j + 1, !.received = @ + 1]
  BY SendingType DEF Deliver, Polling, Idle, Enqueue
<1>2. /\ GridInv(grid) /\ now \in Int /\ clock.slot \in Int /\ path \in Paths /\ count \in Counts
      /\ j \in Int /\ j >= 1 /\ begun \in {0, 1}
  BY DEF LegType, Clocks, Paths, Counts
<1>3. j \in 1 .. Len(f) /\ (HasPcr(p) => p.pcr < PcrWrap)
  <2>1. Len(f) \in Nat
    BY <1>0, LenProperties DEF Stamped
  <2>2. j \in 1 .. Len(f)
    BY <1>1, <1>2, <2>1
  <2>3. QED
    BY <1>0, <2>2, PacketTypes
<1>4. path'.next = j + 1
  BY <1>1, <1>2 DEF Paths
<1>5. begun # 0 => slot = clock.slot
  BY SendingType, EnqueueKeeps DEF Deliver
<1>6. slot \in Int
  <2>1. clock' \in Clocks
    BY SendingType, EnqueueKeeps DEF Deliver
  <2>2. QED
    BY <2>1 DEF Clocks
<1>7. Capacity \in Nat \ {0}
  <2>1. LatencyToPackets(MaxLatency) \in Int
    BY LegNumbers, SlotsAreNumbers
  <2>2. QED
    BY <2>1 DEF Capacity, Greatest
<1>8. StampedGrid(grid) /\ MarkedGrid(grid) /\ Going(grid)
  BY <1>1 DEF LiveInv
<1>9. Alongside(f, grid, j, begun, slot)
  <2>1. begun = 0 \/ clock.slot <= slot
    BY <1>2, <1>5
  <2> HIDE DEF j, begun, slot
  <2>2. Alongside(f, grid, j, begun, clock.slot)
    BY DEF Agrees, j, begun
  <2>3. QED
    BY <1>0, <1>2, <1>6, <2>1, <2>2, AlongsideLater
<1>10. grid.open = None \/ h.shed = grid.shed
  <2> HIDE DEF h
  <2>1. QED
    BY <1>1
<1> HIDE DEF j, p, horizon, h, slot, begun
<1>11. CASE HasPcr(p)
  <2>1. JudgedAlike(f, grid, h, j)
    BY <1>1, <1>11 DEF p, j
  <2>2. Abreast(f, h, j, begun, slot) /\ Unspliced(h) /\ h.open # None
    <3>1. /\ Unspliced(grid) /\ (grid.open = None => grid.placed = <<>> /\ grid.nextFree = 0)
          /\ grid.open # None => \E k \in 1 .. j - 1 : Abreast(f, grid, k, begun, slot)
      BY <1>9 DEF Alongside
    <3>2. QED
      BY <1>0, <1>2, <1>3, <1>7, <1>8, <1>10, <1>11, <2>1, <3>1, PcrAbreast DEF p, h
  <2>3. j \in 1 .. (j + 1) - 1
    BY <1>2
  <2>4. Alongside(f, h, j + 1, begun, slot)
    BY <2>2, <2>3 DEF Alongside
  <2>5. QED
    BY <1>1, <1>4, <1>5, <2>4 DEF Agrees, Knows, slot, begun, InStep, LiveInv
<1>12. CASE ~HasPcr(p)
  <2>1. /\ Placement(h) = Placement(grid) /\ Judgement(h) = Judgement(grid)
        /\ h.open = grid.open /\ h.rebased = grid.rebased /\ h.openBase = grid.openBase
        /\ grid.open # None => h.run = Append(grid.run, p)
    BY <1>1, <1>2, <1>12, PushWaits DEF h
  <2>2. /\ Unspliced(h) /\ h.placed = grid.placed /\ h.nextFree = grid.nextFree
        /\ h.knownFrom = grid.knownFrom
    BY <1>9, <2>1 DEF Alongside, Unspliced, Placement, Judgement
  <2>3. ASSUME grid.open # None
        PROVE  grid.run # <<>> /\ h.run[1] = grid.run[1]
    <3>1. grid.run # <<>> /\ grid.run \in Seq(Packets)
      BY <1>2, <1>8, <2>3 DEF Going, GridInv, Grids
    <3>2. Len(grid.run) \in Nat \ {0}
      BY <3>1, EmptySeq, LenProperties
    <3>3. QED
      BY <1>1, <2>1, <2>3, <3>1, <3>2, AppendProperties
  <2>4. ASSUME h.open # None
        PROVE  \E k \in 1 .. (j + 1) - 1 : Abreast(f, h, k, begun, slot)
    <3>1. PICK k \in 1 .. j - 1 : Abreast(f, grid, k, begun, slot)
      BY <1>9, <2>1, <2>4 DEF Alongside
    <3>2. Abreast(f, h, k, begun, slot)
      BY <2>1, <2>2, <2>3, <2>4, <3>1, AbreastStays
    <3>3. k \in 1 .. (j + 1) - 1
      BY <1>2, <3>1
    <3>4. QED
      BY <3>2, <3>3
  <2>5. Alongside(f, h, j + 1, begun, slot)
    BY <1>9, <2>1, <2>2, <2>4 DEF Alongside
  <2>6. QED
    BY <1>1, <1>4, <1>5, <2>5 DEF Agrees, Knows, slot, begun, InStep, LiveInv
<1>13. QED
  BY <1>11, <1>12

(* A datagram is opened: a leg that moves to its live edge is out of phase. *)
LEMMA OpenAgrees ==
  ASSUME LegType, OpenDatagram, NEW CONSTANT f, Sending = f, RunsOn(f), Agrees(f)
  PROVE  Agrees(f)'
<1> DEFINE determined == ~Stalled /\ Determined(grid, CaughtUp.slot, CaughtUp.slot + PacketsPerDatagram)
           phased == emitter.phased /\ ~CatchesUp /\ determined
           deferred == IF CatchesUp THEN <<>> ELSE emitter.deferred
           s == clock.slot
           t == clock'.slot
<1>0. Stamped(f)
  BY FeedsStamped
<1>1. /\ UNCHANGED <<grid, path, wire>> /\ clock' = CaughtUp
      /\ emitter' = [emitter EXCEPT !.deferred = deferred, !.phased = phased]
      /\ datagram' = [left |-> PacketsPerDatagram, next |-> s, stalled |-> Stalled,
                      determined |-> determined, send |-> phased]
  BY DEF OpenDatagram
<1>2. count'.begun = 1 /\ emitter \in Emitters /\ path.next \in Int
  BY DEF OpenDatagram, LegType, Counts, Paths
<1>3. s \in Int /\ t \in Int /\ s <= t
  BY <1>1, CatchUpType DEF LegType, Clocks
<1>4. Alongside(f, grid, path.next, 1, t)
  <2> HIDE DEF s, t
  <2>1. Alongside(f, grid, path.next, count.begun, s)
    BY DEF Agrees, s
  <2>2. path.next <= path.next /\ (count.begun = 0 \/ s <= t)
    BY <1>2, <1>3
  <2>3. QED
    BY <1>0, <1>2, <1>3, <2>1, <2>2, AlongsideLater
<1>5. Knows(grid, datagram', t)
  BY <1>1 DEF Knows, Determined
<1>6. CASE phased
  <2>1. /\ emitter.phased = TRUE /\ deferred = emitter.deferred /\ t = s
    BY <1>1, <1>2, <1>6 DEF CaughtUp, Emitters
  <2>2. emitter' = emitter
    <3>1. phased = TRUE
      BY <1>6 DEF Emitters
    <3> HIDE DEF phased, deferred
    <3>2. emitter' = [emitter EXCEPT !.deferred = emitter.deferred, !.phased = emitter.phased]
      BY <1>1, <2>1, <3>1
    <3>3. QED
      BY <1>2, <3>2 DEF Emitters
  <2>3. QED
    BY <1>1, <1>2, <1>4, <1>5, <2>1, <2>2 DEF Agrees
<1>7. CASE ~phased
  <2>1. ~emitter'.phased
    <3> HIDE DEF phased, deferred
    <3>1. emitter'.phased = phased
      BY <1>1, <1>2 DEF Emitters
    <3>2. QED
      BY <1>7, <3>1
  <2>2. QED
    BY <1>1, <1>2, <1>4, <1>5, <2>1 DEF Agrees, InStep
<1>8. QED
  BY <1>6, <1>7

(* A slot goes out: what the leg knows of it is what the partner has there,  *)
(* and a leg comes into phase where the partner has nothing deferred.        *)
LEMMA EmitAgrees ==
  ASSUME LegType, NumberInv, StretchInv, LiveInv, EmitSlot,
         NEW CONSTANT f, Sending = f, RunsOn(f), Settles(f), Agrees(f)
  PROVE  Agrees(f)'
<1> DEFINE n == clock.slot
           halted == datagram.stalled
           determined == datagram.determined
           whole == PartnerGrid(f)
           R == PartnerSlots(f)
           w == R[n - 1].grid
           d == R[n - 1].emitter
           e == AfterSlot(grid, emitter, n, halted, determined)
           h == TakeGrid(grid, n)
<1>0. Stamped(f)
  BY FeedsStamped
<1>1. /\ datagram # None /\ datagram \in Datagrams /\ halted \in BOOLEAN /\ determined \in BOOLEAN
      /\ n \in Int /\ GridInv(grid) /\ emitter \in Emitters /\ path.next \in Int
      /\ (grid.open # None => grid.open.slot \in Int) /\ datagram.left \in Int
  <2>1. clock \in Clocks /\ path \in Paths /\ GridInv(grid) /\ emitter \in Emitters
    BY DEF LegType
  <2>2. datagram # None /\ datagram \in Datagrams
    BY DEF LegType, EmitSlot
  <2> HIDE DEF n, halted, determined
  <2>3. n \in Int
    BY <2>1 DEF Clocks, n
  <2>4. path.next \in Int
    BY <2>1 DEF Paths
  <2>5. halted \in BOOLEAN /\ determined \in BOOLEAN /\ datagram.left \in Int
    BY <2>2 DEF Datagrams, halted, determined
  <2>6. grid.open # None => grid.open.slot \in Int
    BY <2>1 DEF GridInv, Grids, Openings
  <2>7. QED
    BY <2>1, <2>2, <2>3, <2>4, <2>5, <2>6
<1>2. /\ clock'.slot = n + 1 /\ emitter' = e /\ grid' = h /\ UNCHANGED path
      /\ wire' = IF datagram.send THEN Sends(datagram.next, Carried(grid, emitter, n, halted)) ELSE wire
      /\ count'.begun = 1 /\ count.begun = 1
  BY <1>1 DEF EmitSlot, LegType, Clocks, Counts, NumberInv
<1>3. datagram' # None => datagram'.stalled = halted /\ datagram'.determined = determined
  <2>1. datagram' # None => datagram' = [datagram EXCEPT !.left = @ - 1, !.next = @ + 1]
    BY DEF EmitSlot
  <2>2. QED
    BY <1>1, <2>1 DEF Datagrams
<1>4. determined => /\ halted = FALSE /\ grid.open # None /\ n < grid.open.slot
                    /\ grid.knownFrom # None /\ grid.knownFrom <= n
  <2> SUFFICES ASSUME determined
               PROVE  /\ halted = FALSE /\ grid.open # None /\ n < grid.open.slot
                      /\ grid.knownFrom # None /\ grid.knownFrom <= n
    OBVIOUS
  <2>1. ~halted /\ grid.knownFrom # None /\ grid.knownFrom <= n
    BY <1>1 DEF Agrees, Knows
  <2>2. grid.open # None /\ datagram.left >= 1 /\ n + datagram.left <= grid.open.slot
    BY <1>1 DEF LiveInv
  <2> HIDE DEF n, halted
  <2>3. n < grid.open.slot
    BY <1>1, <2>2
  <2>4. QED
    BY <1>1, <2>1, <2>2, <2>3
<1>5. /\ h.open = grid.open /\ h.nextFree = grid.nextFree /\ h.knownFrom = grid.knownFrom
      /\ GridInv(h) /\ (Unspliced(grid) => Unspliced(h))
      /\ Members(h.placed) = {x \in Members(grid.placed) : x.slot > n}
  <2> HIDE DEF n
  <2>1. h.open = grid.open /\ h.nextFree = grid.nextFree
    BY <1>1, TakePasses
  <2>2. h.knownFrom = grid.knownFrom
    BY <1>1, TakeKnows
  <2>3. GridInv(h)
    BY <1>1, TakeKeeps
  <2>4. /\ Unspliced(grid) => Unspliced(h)
        /\ Members(h.placed) = {x \in Members(grid.placed) : x.slot > n}
    BY <1>1, TakesMembers
  <2>5. QED
    BY <2>1, <2>2, <2>3, <2>4
<1>6. Alongside(f, grid, path.next, 1, n)
  BY <1>2 DEF Agrees
<1> HIDE DEF n, halted, determined, h, e, whole, R
<1>7. Alongside(f, h, path.next, 1, n + 1)
  <2>1. ASSUME h.open = None PROVE h.placed = <<>> /\ h.nextFree = 0
    <3>1. grid.placed = <<>> /\ grid.nextFree = 0 /\ Len(<<>>) = 0
      BY <1>5, <1>6, <2>1 DEF Alongside
    <3>2. Members(grid.placed) = {}
      BY <3>1 DEF Members
    <3>3. Members(h.placed) = {}
      BY <1>5, <3>2
    <3>4. h.placed \in Seq(Places) /\ Len(h.placed) \in Nat
      BY <1>5, LenProperties DEF GridInv, Grids
    <3>5. Len(h.placed) = 0
      <4>1. Len(h.placed) # 0 => h.placed[1] \in Members(h.placed)
        <5>1. Len(h.placed) # 0 => 1 \in 1 .. Len(h.placed)
          BY <3>4
        <5>2. QED
          BY <5>1 DEF Members
      <4>2. QED
        BY <3>3, <4>1
    <3>6. QED
      BY <1>5, <3>1, <3>4, <3>5, EmptySeq
  <2>2. ASSUME h.open # None PROVE \E k \in 1 .. path.next - 1 : Abreast(f, h, k, 1, n + 1)
    <3>1. PICK k \in 1 .. path.next - 1 : Abreast(f, grid, k, 1, n)
      BY <1>5, <1>6, <2>2 DEF Alongside
    <3>2. Abreast(f, h, k, 1, n + 1)
      BY <1>0, <1>1, <3>1, AbreastTakes DEF h
    <3>3. QED
      BY <3>1, <3>2
  <2>3. QED
    BY <1>5, <1>6, <2>1, <2>2 DEF Alongside
<1>8. Knows(h, datagram', n + 1)
  <2> SUFFICES ASSUME datagram' # None, datagram'.determined
               PROVE  ~datagram'.stalled /\ h.knownFrom # None /\ h.knownFrom <= n + 1
    BY DEF Knows
  <2>1. /\ halted = FALSE /\ grid.knownFrom # None /\ grid.knownFrom <= n
    BY <1>3, <1>4
  <2>2. grid.knownFrom \in Int
    BY <1>1, <2>1 DEF GridInv, Grids
  <2>3. QED
    BY <1>1, <1>3, <1>5, <2>1, <2>2
<1>9. ASSUME determined
      PROVE  /\ n \in whole.knownFrom .. whole.open.slot - 1
             /\ n - 1 \in whole.knownFrom - 1 .. whole.open.slot - 1 /\ whole.knownFrom \in Int
             /\ R[n].emitter = AfterSlot(w, d, n, FALSE, TRUE) /\ d \in Emitters
             /\ Admitted(grid, n) = Admitted(w, n) /\ w.open # None
             /\ Takes(grid, n) => Takes(w, n) /\ TakenAt(w, n) = TakenAt(grid, n)
  <2>1. PICK k \in 1 .. path.next - 1 : Abreast(f, grid, k, 1, n)
    BY <1>4, <1>6, <1>9 DEF Alongside
  <2>2. /\ n \in whole.knownFrom .. whole.open.slot - 1
        /\ GridInv(w) /\ Unspliced(w) /\ w.open # None /\ SameAt(grid, w, n)
    BY <1>0, <1>1, <1>4, <1>9, <2>1, TakesAlike DEF whole, R
  <2>3. /\ whole.knownFrom \in Int /\ whole.open.slot \in Int
        /\ \A i \in whole.knownFrom - 1 .. whole.open.slot - 1 : R[i].emitter \in Emitters
        /\ \A i \in whole.knownFrom .. whole.open.slot - 1 : R[i] = SlotAfter(R[i - 1], i)
    BY <1>0, PartnerHolds DEF whole, R
  <2>4. n - 1 \in whole.knownFrom - 1 .. whole.open.slot - 1
    BY <2>2, <2>3
  <2>5. R[n].emitter = AfterSlot(w, d, n, FALSE, TRUE) /\ d \in Emitters
    <3>1. R[n] = SlotAfter(R[n - 1], n)
      BY <2>2, <2>3
    <3>2. d \in Emitters
      BY <2>3, <2>4
    <3> HIDE DEF w, d
    <3>3. SlotAfter(R[n - 1], n).emitter = AfterSlot(w, d, n, FALSE, TRUE)
      BY DEF SlotAfter, w, d
    <3>4. QED
      BY <3>1, <3>2, <3>3
  <2>6. Unspliced(grid)
    BY <1>6 DEF Alongside
  <2> HIDE DEF w, d
  <2>7. /\ Admitted(grid, n) = Admitted(w, n)
        /\ Takes(grid, n) => Takes(w, n) /\ TakenAt(w, n) = TakenAt(grid, n)
    BY <1>1, <2>2, <2>6, AdmitAlike
  <2>8. QED
    BY <2>2, <2>3, <2>4, <2>5, <2>7
<1>10. ASSUME emitter.phased
       PROVE  /\ determined /\ halted = FALSE /\ emitter = d
              /\ e = AfterSlot(w, d, n, FALSE, TRUE)
              /\ Carried(grid, emitter, n, FALSE) = Carried(w, d, n, FALSE)
  <2>1. determined
    BY <1>1, <1>10 DEF LiveInv, determined
  <2>2. halted = FALSE /\ grid.open # None
    BY <1>4, <2>1
  <2>3. emitter = d
    BY <1>10 DEF Agrees, InStep, R, n, whole
  <2>4. Admitted(grid, n) = Admitted(w, n) /\ w.open # None
    BY <1>9, <2>1
  <2> HIDE DEF w, d
  <2>5. /\ Carried(grid, emitter, n, FALSE) = Carried(w, emitter, n, FALSE)
        /\ AfterSlot(grid, emitter, n, FALSE, determined) = AfterSlot(w, emitter, n, FALSE, TRUE)
    <3>1. emitter \in Emitters /\ determined \in BOOLEAN /\ grid.open # None /\ w.open # None
      BY <1>1, <2>2, <2>4
    <3>2. emitter.phased
      BY <1>10
    <3>3. GoesAlike(grid, w, emitter, n, determined)
      BY <2>4, <3>1, <3>2 DEF GoesAlike
    <3>4. /\ CarriedPlain(grid, emitter, n) = CarriedPlain(w, emitter, n)
          /\ AfterRunning(grid, emitter, n, determined) = AfterPlain(w, emitter, n)
      BY <3>3, SlotAlike
    <3>5. QED
      BY <3>4 DEF CarriedPlain, AfterRunning, AfterPlain
  <2>6. QED
    BY <2>1, <2>2, <2>3, <2>5 DEF e
<1>11. InStep(f, e, n + 1)
  <2> SUFFICES ASSUME e.phased
               PROVE  n \in whole.knownFrom - 1 .. whole.open.slot - 1 /\ e = R[n].emitter
    <3>1. n + 1 - 1 = n
      BY <1>1
    <3>2. QED
      BY <3>1 DEF InStep, whole, R
  <2>1. determined
    <3>1. Locks(grid, emitter, n, halted, determined)
      <4>1. /\ StampedGrid(grid) /\ MarkedGrid(grid) /\ Lagging(emitter, n)
            /\ emitter.phased => Linked(grid, emitter, n)
        BY DEF LiveInv, n
      <4>2. QED
        BY <1>1, <4>1, SlotLocks
    <3>2. emitter.phased \/ determined
      BY <3>1 DEF Locks, e
    <3>3. QED
      BY <1>10, <3>2
  <2>2. n \in whole.knownFrom - 1 .. whole.open.slot - 1
    <3>1. n \in whole.knownFrom .. whole.open.slot - 1 /\ whole.knownFrom \in Int
      BY <1>9, <2>1
    <3>2. QED
      BY <1>1, <3>1
  <2>3. e = AfterSlot(w, d, n, FALSE, TRUE)
    <3>1. CASE emitter.phased
      BY <1>10, <3>1
    <3>2. CASE ~emitter.phased
      <4>1. /\ Admitted(grid, n) = Admitted(w, n) /\ d \in Emitters
            /\ Takes(grid, n) => Takes(w, n) /\ TakenAt(w, n) = TakenAt(grid, n)
            /\ n \in whole.knownFrom .. whole.open.slot - 1
        BY <1>9, <2>1
      <4>2. Takes(w, n) /\ HasPcr(TakenAt(w, n)) => d.deferred = <<>>
        <5>1. n \in DOMAIN PartnerSends(f)
          BY <4>1 DEF PartnerSends, whole
        <5>2. QED
          BY <5>1 DEF Settles, R
      <4> HIDE DEF w, d
      <4>3. Takes(grid, n) /\ HasPcr(TakenAt(grid, n)) => d.deferred = <<>>
        BY <4>1, <4>2
      <4>4. AfterSlot(grid, emitter, n, halted, determined).phased
        BY DEF e
      <4>5. AfterSlot(grid, emitter, n, halted, determined) = AfterSlot(w, d, n, FALSE, TRUE)
        <5>1. emitter \in Emitters /\ halted \in BOOLEAN /\ determined \in BOOLEAN
          BY <1>1
        <5>2. ~emitter.phased /\ d \in Emitters /\ Admitted(grid, n) = Admitted(w, n)
          BY <3>2, <4>1
        <5>3. QED
          <6>1. GainsPhase(grid, emitter, halted, determined, w, d, n)
            BY <4>3, <4>4, <5>1, <5>2 DEF GainsPhase
          <6>2. AfterSlot(grid, emitter, n, halted, determined) = AfterPlain(w, d, n)
            BY <6>1, PhaseGained
          <6>3. QED
            BY <6>2 DEF AfterPlain
      <4>6. QED
        BY <4>5 DEF e
    <3>3. QED
      BY <3>1, <3>2
  <2>4. QED
    BY <1>9, <2>1, <2>2, <2>3
<1>12. Matches(f, wire')
  <2>1. CASE ~datagram.send
    BY <1>2, <2>1 DEF Agrees
  <2>2. CASE datagram.send
    <3>1. emitter.phased /\ datagram.next = n
      BY <1>1, <2>2 DEF StretchInv, n
    <3>2. /\ halted = FALSE /\ Carried(grid, emitter, n, FALSE) = Carried(w, d, n, FALSE)
          /\ n \in whole.knownFrom .. whole.open.slot - 1
      BY <1>9, <1>10, <3>1
    <3>3. n \in DOMAIN PartnerSends(f) /\ PartnerSends(f)[n] = Carried(w, d, n, FALSE)
      BY <3>2 DEF PartnerSends, whole, R
    <3> HIDE DEF w, d
    <3>4. wire' = Sends(n, Carried(grid, emitter, n, FALSE))
      BY <1>2, <2>2, <3>1, <3>2
    <3>5. wire'.slot = n /\ wire'.packet = Carried(grid, emitter, n, FALSE)
      BY <3>4 DEF Sends
    <3>6. QED
      BY <3>2, <3>3, <3>5 DEF Matches
  <2>3. QED
    BY <2>1, <2>2
<1>13. QED
  BY <1>2, <1>7, <1>8, <1>11, <1>12 DEF Agrees

LEMMA AgreesStep ==
  ASSUME LegType, NumberInv, WatchInv, StretchInv, LiveInv, [Next]_vars,
         [grid.open # None => grid'.shed = grid.shed]_vars,
         NEW CONSTANT f, Sending = f, RunsOn(f), Settles(f), Agrees(f),
         Deliver /\ HasPcr(f[path.next]) => JudgedAlike(f, grid, grid', path.next)
  PROVE  Agrees(f)'
<1>0. /\ Stamped(f) /\ clock \in Clocks /\ clock.slot \in Int /\ path.next \in Int /\ path \in Paths
      /\ emitter \in Emitters /\ GridInv(grid) /\ PacketsPerDatagram \in Nat \ {0}
  BY FeedsStamped, LegNumbers DEF LegType, Clocks, Paths
<1>1. CASE Deliver
  <2>1. grid.open # None => grid'.shed = grid.shed
    BY DEF vars
  <2>2. QED
    BY <1>1, <2>1, DeliverAgrees
<1>2. CASE OpenDatagram
  BY <1>2, OpenAgrees
<1>3. CASE EmitSlot
  BY <1>3, EmitAgrees
<1>4. CASE Lose
  <2>1. /\ UNCHANGED <<clock, grid, emitter, datagram, wire, count>>
        /\ \E end \in path.next + 1 .. Len(f) + 1 : path' = [path EXCEPT !.next = end, !.lost = @ + 1]
    BY <1>4 DEF Lose
  <2>2. path'.next \in Int /\ path.next <= path'.next
    <3>1. Len(f) \in Nat
      BY <1>0, LenProperties DEF Stamped
    <3>2. PICK end \in path.next + 1 .. Len(f) + 1 : path' = [path EXCEPT !.next = end, !.lost = @ + 1]
      BY <2>1
    <3>3. path'.next = end
      BY <1>0, <3>2 DEF Paths
    <3>4. QED
      BY <1>0, <3>1, <3>3
  <2>3. Alongside(f, grid, path'.next, count.begun, clock.slot)
    <3>1. Alongside(f, grid, path.next, count.begun, clock.slot)
      BY DEF Agrees
    <3>2. clock.slot <= clock.slot
      BY <1>0
    <3>3. QED
      BY <1>0, <2>2, <3>1, <3>2, AlongsideLater
  <2>4. QED
    BY <2>1, <2>3 DEF Agrees
<1>5. CASE Silent
  <2>1. clock'.slot = clock.slot /\ UNCHANGED <<path, grid, emitter, datagram, wire, count>>
    BY <1>0, <1>5 DEF Silent, Clocks
  <2>2. QED
    BY <2>1 DEF Agrees
<1>6. CASE End
  <2>1. /\ clock'.slot = clock.slot /\ UNCHANGED <<path, emitter, datagram, wire, count>>
        /\ grid' = FlushGrid(grid) /\ datagram = None
    BY <1>0, <1>6 DEF End, Polling, Idle, Clocks
  <2>2. /\ grid'.placed = grid.placed /\ grid'.bases = grid.bases /\ grid'.open = grid.open
        /\ grid'.takenBase = grid.takenBase /\ grid'.nextFree = grid.nextFree
        /\ grid'.rebased = grid.rebased /\ grid'.openBase = grid.openBase /\ grid'.run = <<>>
        /\ grid'.placedBase = grid.placedBase /\ grid'.knownFrom = grid.knownFrom
    BY <1>0, <2>1 DEF FlushGrid, GridInv, Grids
  <2>3. Alongside(f, grid, path.next, count.begun, clock.slot)
    BY DEF Agrees
  <2>4. ASSUME grid'.open # None
        PROVE  \E k \in 1 .. path.next - 1 : Abreast(f, grid', k, count.begun, clock.slot)
    <3>1. PICK k \in 1 .. path.next - 1 : Abreast(f, grid, k, count.begun, clock.slot)
      BY <2>2, <2>3, <2>4 DEF Alongside
    <3>2. Abreast(f, grid', k, count.begun, clock.slot)
      BY <2>2, <3>1, AbreastStays
    <3>3. QED
      BY <3>2
  <2>5. Alongside(f, grid', path.next, count.begun, clock.slot)
    BY <2>2, <2>3, <2>4 DEF Alongside, Unspliced
  <2>6. QED
    BY <2>1, <2>5 DEF Agrees, Knows
<1>7. CASE MuteSlot
  <2>1. /\ UNCHANGED <<path, grid, datagram, wire, count>> /\ datagram = None
        /\ clock'.slot = clock.slot + PacketsPerDatagram
        /\ emitter' = [emitter EXCEPT !.phased = FALSE]
    BY <1>0, <1>7 DEF MuteSlot, Due, Idle, Clocks
  <2>2. ~emitter'.phased
    BY <1>0, <2>1 DEF Emitters
  <2>3. Alongside(f, grid, path.next, count.begun, clock'.slot)
    <3>1. Alongside(f, grid, path.next, count.begun, clock.slot)
      BY DEF Agrees
    <3>2. clock'.slot \in Int /\ clock.slot <= clock'.slot /\ path.next <= path.next
      BY <1>0, <2>1
    <3>3. QED
      BY <1>0, <3>1, <3>2, AlongsideLater
  <2>4. QED
    BY <2>1, <2>2, <2>3 DEF Agrees, InStep, Knows
<1>8. CASE Finish \/ Tick \/ UNCHANGED vars
  <2>1. UNCHANGED <<path, clock, grid, emitter, datagram, wire, count>>
    BY <1>8 DEF Finish, Tick, vars
  <2>2. QED
    BY <2>1 DEF Agrees
<1>9. QED
  BY <1>1, <1>2, <1>3, <1>4, <1>5, <1>6, <1>7, <1>8 DEF Next

LEMMA InitAgrees == Init => \A f : Agrees(f)
<1> SUFFICES ASSUME Init, NEW f PROVE Agrees(f)
  OBVIOUS
<1>1. /\ grid = NewGrid /\ emitter = NewEmitter /\ datagram = None /\ wire = None
  BY DEF Init
<1>2. Unspliced(NewGrid) /\ NewGrid.open = None /\ NewGrid.placed = <<>> /\ NewGrid.nextFree = 0
      /\ ~NewEmitter.phased
  BY DEF NewGrid, Unspliced, NewEmitter
<1>3. QED
  BY <1>1, <1>2 DEF Agrees, Alongside, InStep, Matches, Knows
-----------------------------------------------------------------------------
(* A leg that lost nothing, after packet i: it judges by what its partner    *)
(* judges by, whenever it received it.                                       *)
Mirrors(f, g, i) ==
  LET w == PartnerGrids(f)[i]
  IN  /\ i \in 0 .. Len(f)
      /\ g.epoch = w.epoch /\ g.spans = w.spans /\ g.run = w.run
      /\ g.continuity = w.continuity /\ g.broken = w.broken
      /\ g.open = None <=> w.open = None
      /\ g.open # None => g.open.pcr = w.open.pcr /\ g.open.slot = w.open.slot

(* Two grids on which the clock of packet p does not jump.                   *)
Reading(g, w, p) ==
  /\ g.epoch = w.epoch /\ (g.open = None <=> w.open = None)
  /\ g.open # None => g.open.pcr = w.open.pcr /\ g.open.slot = w.open.slot
  /\ w.open # None => ~p.di /\ ~Jumped(w, p)

(* On a clock that does not jump a PCR is read alike, whenever it arrives.   *)
LEMMA ReadsAlike ==
  ASSUME NEW g, NEW w, NEW p, Reading(g, w, p), NEW at, NEW horizon, NEW then, NEW until
  PROVE  /\ NextEpoch(g, p, at, horizon) = NextEpoch(w, p, then, until)
         /\ OpenSlot(g, p, at, horizon) = OpenSlot(w, p, then, until)
         /\ Moved(g, p, at, horizon) = 0
         /\ g.open # None => ~AfterSilence(g, p, Since(g, at), horizon)
         /\ w.open # None => ~AfterSilence(w, p, Since(w, then), until)
<1>0. /\ g.epoch = w.epoch /\ (g.open = None <=> w.open = None)
      /\ g.open # None => g.open.pcr = w.open.pcr /\ g.open.slot = w.open.slot
      /\ w.open # None => ~p.di /\ ~Jumped(w, p)
  BY DEF Reading
<1> USE <1>0
<1>1. CASE g.open = None
  BY <1>1 DEF NextEpoch, EpochFor, OpenSlot, Moved
<1>2. CASE g.open # None
  <2>1. ~p.di /\ ~Jumped(w, p) /\ ~Jumped(g, p)
    BY <1>2 DEF Jumped
  <2>2. ~Spliced(g, p, Since(g, at), horizon) /\ ~Spliced(w, p, Since(w, then), until)
    BY <2>1 DEF Spliced
  <2>3. OnGrid(g, p) = OnGrid(w, p)
    BY DEF OnGrid
  <2>4. NextEpoch(g, p, at, horizon) = NextEpoch(w, p, then, until)
    BY <1>2, <2>2, <2>3 DEF NextEpoch, EpochFor
  <2>5. QED
    BY <1>2, <2>1, <2>2, <2>4 DEF OpenSlot, Moved, AfterSilence
<1>3. QED
  BY <1>1, <1>2

LEMMA MirrorsOn ==
  ASSUME NEW f, Stamped(f), RunsOn(f), NEW g, GridInv(g), Going(g), g.rebased = 0,
         NEW i \in 0 .. Len(f) - 1, Mirrors(f, g, i),
         NEW at \in Int, NEW horizon, NEW capacity \in Nat
  PROVE  LET h == PushGrid(g, f[i + 1], at, horizon, capacity)
         IN  Mirrors(f, h, i + 1) /\ (HasPcr(f[i + 1]) => JudgedAlike(f, g, h, i + 1))
<1> DEFINE j == i + 1
           p == f[j]
           w == PartnerGrids(f)[i]
           v == PartnerGrids(f)[j]
           until == PartnerHorizon(f, p.at)
           size == Len(f)
           h == PushGrid(g, p, at, horizon, capacity)
           n == NoteContinuity(g, p)
           m == NoteContinuity(w, p)
<1>1. /\ size \in Nat /\ j \in 1 .. size /\ i \in Int /\ i \in 0 .. size /\ j - 1 = i
  BY LenProperties DEF Stamped
<1>2. p \in Packets /\ p.at \in Int
  BY <1>1, PacketTypes
<1>3. v = PushGrid(w, p, p.at, until, size)
  BY <1>1, GridsAre DEF Pushed
<1>4. /\ GridInv(w) /\ Going(w) /\ w.rebased = 0 /\ (i = 0 => w.open = None) /\ (i > 0 => w.open # None)
  <2>1. CASE i = 0
    <3>1. w = NewGrid
      BY <1>1, <2>1, GridsAre
    <3>2. NewGrid.open = None /\ NewGrid.rebased = 0
      BY DEF NewGrid
    <3>3. QED
      BY <2>1, <3>1, <3>2, NewGridIs
  <2>2. CASE i > 0
    <3>1. i \in 1 .. Len(f)
      BY <1>1, <2>2
    <3>2. Ideal(f, i)
      BY <3>1, IdealAlways
    <3>3. QED
      BY <2>2, <3>2 DEF Ideal, Unspliced
  <2>3. QED
    BY <1>1, <2>1, <2>2
<1>5. HasPcr(p) /\ w.open # None => ~p.di /\ ~Jumped(w, p)
  <2>1. w.open # None => j \in 2 .. Len(f)
    BY <1>1, <1>4
  <2>2. QED
    BY <1>1, <2>1 DEF RunsOn
<1>6. i = 0 => HasPcr(p)
  BY DEF RunsOn
<1>7. v.cut = 0 /\ (i > 0 => w.cut = 0)
  <2>1. v.cut = 0
    BY <1>1 DEF RunsOn
  <2>2. i > 0 => i \in 1 .. Len(f)
    BY <1>1
  <2>3. QED
    BY <2>1, <2>2 DEF RunsOn
<1>8. /\ g.epoch = w.epoch /\ g.spans = w.spans /\ g.run = w.run
      /\ g.continuity = w.continuity /\ g.broken = w.broken
      /\ g.open = None <=> w.open = None
      /\ g.open # None => g.open.pcr = w.open.pcr /\ g.open.slot = w.open.slot
  BY DEF Mirrors
<1> HIDE DEF j, p, w, v, until, size, h, n, m
<1>9. /\ GridInv(n) /\ Alike(g, n) /\ Judgement(n) = Judgement(g)
      /\ GridInv(m) /\ Alike(w, m) /\ Judgement(m) = Judgement(w)
      /\ n.continuity = m.continuity /\ n.broken = m.broken
  BY <1>2, <1>4, <1>8, NoteAlike, NoteJudges DEF n, m
<1>10. /\ n.open = g.open /\ m.open = w.open /\ n.epoch = g.epoch /\ m.epoch = w.epoch
       /\ n.run = g.run /\ m.run = w.run /\ n.rebased = 0 /\ m.rebased = 0
       /\ n.spans = g.spans /\ m.spans = w.spans
  BY <1>4, <1>9 DEF Alike, Judgement
<1>13. j \in 0 .. Len(f)
  BY <1>1 DEF size
<1>11. CASE ~HasPcr(p)
  <2>1. /\ h.open = g.open /\ h.epoch = g.epoch /\ h.spans = g.spans
        /\ h.continuity = n.continuity /\ h.broken = n.broken /\ h.run = Append(g.run, p)
    BY <1>1, <1>2, <1>4, <1>6, <1>8, <1>11, PushWaits DEF h, n, Judgement
  <2>2. /\ v.open = w.open /\ v.epoch = w.epoch /\ v.spans = w.spans
        /\ v.continuity = m.continuity /\ v.broken = m.broken /\ v.run = Append(w.run, p)
    BY <1>1, <1>2, <1>3, <1>4, <1>6, <1>11, PushWaits DEF m, Judgement
  <2>3. QED
    BY <1>1, <1>8, <1>9, <1>11, <2>1, <2>2 DEF Mirrors, h, v, p, j, size
<1>12. CASE HasPcr(p)
  <2>1. Judges(g, h, p, at, horizon, capacity)
    BY <1>2, <1>12, PcrJudges DEF h
  <2>2. Judges(w, v, p, p.at, until, size)
    BY <1>1, <1>2, <1>3, <1>4, <1>12, PcrJudges
  <2>3. /\ Opens(n, h, p, at, horizon, capacity) /\ h.broken = FALSE /\ h.continuity = n.continuity
        /\ Opens(m, v, p, p.at, until, size) /\ v.broken = FALSE /\ v.continuity = m.continuity
    BY <2>1, <2>2 DEF Judges, n, m
  <2>4. /\ NextEpoch(n, p, at, horizon) = NextEpoch(m, p, p.at, until)
        /\ OpenSlot(n, p, at, horizon) = OpenSlot(m, p, p.at, until)
        /\ Moved(n, p, at, horizon) = 0
        /\ n.open # None => ~AfterSilence(n, p, Since(n, at), horizon)
        /\ m.open # None => ~AfterSilence(m, p, Since(m, p.at), until)
    <3>1. m.open # None => ~p.di /\ ~Jumped(m, p)
      BY <1>5, <1>10, <1>12 DEF Jumped
    <3>2. /\ n.epoch = m.epoch /\ (n.open = None <=> m.open = None)
          /\ n.open # None => n.open.pcr = m.open.pcr /\ n.open.slot = m.open.slot
      BY <1>8, <1>10
    <3>3. Reading(n, m, p)
      BY <3>1, <3>2 DEF Reading
    <3>4. QED
      BY <3>3, ReadsAlike
  <2>5. /\ h.epoch = v.epoch /\ h.run = v.run /\ h.open # None /\ v.open # None
        /\ h.open.pcr = v.open.pcr /\ h.open.slot = v.open.slot /\ h.rebased = 0
        /\ h.open.slot = OpenSlot(n, p, at, horizon)
    BY <1>10, <2>3, <2>4 DEF Opens
  <2>6. CASE g.open = None
    <3>1. i = 0
      BY <1>1, <1>4, <1>8, <2>6
    <3>2. h.spans = g.spans /\ v.spans = w.spans
      BY <1>8, <2>1, <2>2, <2>6 DEF Judges
    <3>3. Mirrors(f, h, j)
      <4>1. h.spans = v.spans /\ h.continuity = v.continuity /\ h.broken = v.broken
        BY <1>8, <1>9, <2>3, <3>2
      <4>2. QED
        BY <1>13, <2>5, <4>1 DEF Mirrors, v
    <3>4. JudgedAlike(f, g, h, j)
      BY <1>1, <2>5, <3>1 DEF JudgedAlike, v
    <3>5. QED
      BY <3>3, <3>4 DEF h, p, j
  <2>7. CASE g.open # None
    <3>1. g.run # <<>> /\ w.run # <<>> /\ w.open # None /\ i > 0
      BY <1>1, <1>4, <1>8, <2>7 DEF Going
    <3>2. ~Missed(m, p, p.at, until)
      <4>1. Len(w.run) \in Nat \ {0}
        <5>1. w.run \in Seq(Packets)
          BY <1>4 DEF GridInv, Grids
        <5>2. QED
          BY <3>1, <5>1, EmptySeq, LenProperties
      <4>2. Missed(m, p, p.at, until) => v.cut = w.cut + Len(w.run)
        BY <2>2, <3>1 DEF Judges, m
      <4>3. QED
        BY <1>7, <3>1, <4>1, <4>2
    <3>3. ~Missed(n, p, at, horizon)
      <4>1. MissedPcrs(n, Greatest(OpenSlot(n, p, at, horizon) - n.open.slot, 0))
              <=> MissedPcrs(m, Greatest(OpenSlot(m, p, p.at, until) - m.open.slot, 0))
        <5>1. n.spans = m.spans /\ n.open.slot = m.open.slot
          BY <1>8, <1>10, <2>7
        <5>2. QED
          BY <2>4, <5>1 DEF MissedPcrs
      <4>2. n.broken = m.broken /\ n.open # None
        BY <1>9, <1>10, <2>7
      <4>3. QED
        BY <2>4, <3>2, <4>1, <4>2 DEF Missed
    <3>4. h.cut = g.cut /\ h.spans = NextSpans(g, OpenSlot(n, p, at, horizon))
      BY <2>1, <2>7, <3>1, <3>3 DEF Judges, n
    <3>5. v.spans = NextSpans(w, OpenSlot(m, p, p.at, until))
      BY <2>2, <3>1, <3>2 DEF Judges, m
    <3>6. h.spans = v.spans
      BY <1>8, <2>4, <2>7, <3>4, <3>5 DEF NextSpans
    <3>7. Mirrors(f, h, j)
      <4>1. h.continuity = v.continuity /\ h.broken = v.broken
        BY <1>9, <2>3
      <4>2. QED
        BY <1>13, <2>5, <3>6, <4>1 DEF Mirrors, v
    <3>8. JudgedAlike(f, g, h, j)
      BY <1>1, <1>8, <2>5, <2>7, <3>4 DEF JudgedAlike, v, w
    <3>9. QED
      BY <3>7, <3>8 DEF h, p, j
  <2>8. QED
    BY <2>6, <2>7
<1>14. QED
  BY <1>11, <1>12

Lossless(f) == path.lost = 0 /\ ~source.closing => Mirrors(f, grid, path.next - 1)

(* What no step but a packet or the end of the source does to a grid.        *)
Judging(g) == <<g.run, g.open, g.epoch, g.spans, g.continuity, g.broken>>

LEMMA JudgingStays ==
  ASSUME LegType, WatchInv, [Next]_vars
  PROVE  \/ Deliver
         \/ Lose
         \/ source'.closing
         \/ Judging(grid') = Judging(grid) /\ path' = path /\ source'.closing = source.closing
<1>0. GridInv(grid) /\ source \in Sources /\ clock.slot \in Int
  BY DEF LegType, WatchInv, Clocks
<1>1. CASE End
  BY <1>0, <1>1 DEF End, Sources
<1>2. CASE EmitSlot
  <2>1. grid' = TakeGrid(grid, clock.slot) /\ path' = path /\ source'.closing = source.closing
    BY <1>0, <1>2 DEF EmitSlot, Sources
  <2>2. Judging(grid') = Judging(grid)
    BY <1>0, <2>1, TakePasses, TakeKnows DEF Judging
  <2>3. QED
    BY <2>1, <2>2
<1>3. CASE Silent \/ MuteSlot \/ OpenDatagram \/ Finish \/ Tick \/ UNCHANGED vars
  <2>1. grid' = grid /\ path' = path /\ source'.closing = source.closing
    BY <1>0, <1>3 DEF Silent, MuteSlot, OpenDatagram, Finish, Tick, vars, Sources
  <2>2. QED
    BY <2>1
<1>4. QED
  BY <1>1, <1>2, <1>3 DEF Next

(* A packet that is delivered is pushed on the grid of a source that goes on. *)
LEMMA Pushes ==
  ASSUME LegType, WatchInv, LiveInv, Deliver, NEW f, Sending = f
  PROVE  LET horizon == IF count.begun > 0 THEN clock.slot + Capacity ELSE None
             j == path.next
         IN  /\ grid' = PushGrid(grid, f[j], now, horizon, Capacity)
             /\ j \in 1 .. Len(f) /\ now >= f[j].after /\ path'.next = j + 1 /\ path'.lost = path.lost
             /\ ~source.closing /\ GridInv(grid) /\ Going(grid) /\ StampedGrid(grid)
             /\ now \in Int /\ now' = now /\ Capacity \in Nat
<1>1. /\ ~source.closing /\ path.next <= Len(f) /\ now >= f[path.next].after /\ now' = now
      /\ grid' = PushGrid(grid, f[path.next], now, IF count.begun > 0 THEN clock.slot + Capacity ELSE None, Capacity)
      /\ path' = [path EXCEPT !.next = @ + 1, !.received = @ + 1]
  BY DEF Deliver, Polling, Enqueue
<1>2. /\ path \in Paths /\ GridInv(grid) /\ now \in Int /\ Stamped(f)
  BY FeedsStamped DEF LegType
<1>3. path.next \in 1 .. Len(f) /\ path'.next = path.next + 1 /\ path'.lost = path.lost
  <2>1. Len(f) \in Nat
    BY <1>2, LenProperties DEF Stamped
  <2>2. QED
    BY <1>1, <1>2, <2>1 DEF Paths
<1>4. Capacity \in Nat
  <2>1. LatencyToPackets(MaxLatency) \in Int
    BY LegNumbers, SlotsAreNumbers
  <2>2. QED
    BY <2>1 DEF Capacity, Greatest
<1>5. Going(grid) /\ StampedGrid(grid)
  BY <1>1 DEF LiveInv
<1>6. QED
  BY <1>1, <1>2, <1>3, <1>4, <1>5

LEMMA LosslessStep ==
  ASSUME LegType, WatchInv, LiveInv, [Next]_vars,
         NEW CONSTANT f, Sending = f, RunsOn(f), Agrees(f), Lossless(f)
  PROVE  /\ Lossless(f)'
         /\ Deliver /\ path.lost = 0 /\ HasPcr(f[path.next]) => JudgedAlike(f, grid, grid', path.next)
<1>0. Stamped(f) /\ path \in Paths
  BY FeedsStamped DEF LegType
<1>1. CASE Deliver
  <2> DEFINE horizon == IF count.begun > 0 THEN clock.slot + Capacity ELSE None
             i == path.next - 1
             h == PushGrid(grid, f[i + 1], now, horizon, Capacity)
  <2>1. /\ path.next \in 1 .. Len(f) /\ path'.next = path.next + 1 /\ path'.lost = path.lost
        /\ grid' = PushGrid(grid, f[path.next], now, horizon, Capacity)
        /\ ~source.closing /\ GridInv(grid) /\ Going(grid) /\ now \in Int /\ Capacity \in Nat
    BY <1>1, Pushes
  <2>2. i + 1 = path.next /\ i \in 0 .. Len(f) - 1 /\ path'.next - 1 = i + 1
    <3>1. Len(f) \in Nat
      BY <1>0, LenProperties DEF Stamped
    <3>2. QED
      BY <2>1, <3>1
  <2>3. grid' = h /\ grid.rebased = 0
    BY <2>1, <2>2 DEF Agrees, Alongside, Unspliced
  <2> HIDE DEF horizon, i, h
  <2>4. CASE path.lost = 0
    <3>1. Mirrors(f, grid, i)
      BY <2>1, <2>4 DEF Lossless, i
    <3>2. Mirrors(f, h, i + 1) /\ (HasPcr(f[i + 1]) => JudgedAlike(f, grid, h, i + 1))
      BY <1>0, <2>1, <2>2, <2>3, <3>1, MirrorsOn DEF h
    <3>3. QED
      BY <2>2, <2>3, <3>2 DEF Lossless
  <2>5. CASE path.lost # 0
    BY <2>1, <2>5 DEF Lossless
  <2>6. QED
    BY <2>4, <2>5
<1>2. CASE Lose
  <2>1. path'.lost = path.lost + 1 /\ path.lost \in Nat
    BY <1>0, <1>2 DEF Lose, Paths
  <2>2. path'.lost # 0
    BY <2>1
  <2>3. ~Deliver
    <3>1. Deliver => path'.lost = path.lost
      BY <1>0 DEF Deliver, Paths
    <3>2. path'.lost # path.lost
      BY <2>1
    <3>3. QED
      BY <3>1, <3>2
  <2>4. QED
    BY <2>2, <2>3 DEF Lossless
<1>3. CASE source'.closing /\ ~Deliver
  BY <1>3 DEF Lossless
<1>4. CASE ~Deliver /\ Judging(grid') = Judging(grid) /\ path' = path /\ source'.closing = source.closing
  <2>1. path.lost = 0 /\ ~source.closing => Mirrors(f, grid, path.next - 1)
    BY DEF Lossless
  <2>2. Mirrors(f, grid, path.next - 1) => Mirrors(f, grid', path.next - 1)
    BY <1>4 DEF Mirrors, Judging
  <2>3. QED
    BY <1>4, <2>1, <2>2 DEF Lossless
<1>5. QED
  BY <1>1, <1>2, <1>3, <1>4, JudgingStays
-----------------------------------------------------------------------------
(* What a PCR packet opens on the ideal partner's grid.                      *)
LEMMA PartnerOpens ==
  ASSUME NEW f, Stamped(f), RunsOn(f), NEW j \in 1 .. Len(f), HasPcr(f[j])
  PROVE  LET w == PartnerGrids(f)[j]
         IN  /\ w.run = <<f[j]>> /\ w.open # None /\ w.open.pcr = f[j].pcr
             /\ w.epoch \in Int /\ w.open.slot \in Int
             /\ w.open.slot = Greatest(SlotOfPcr(f[j].pcr) + w.epoch, 0)
<1> DEFINE p == f[j]
           w == PartnerGrids(f)[j]
           g == PartnerGrids(f)[j - 1]
           until == PartnerHorizon(f, p.at)
           n == NoteContinuity(g, p)
<1>1. j \in Int /\ Len(f) \in Nat /\ p \in Packets /\ p.at \in Int
  BY PacketTypes
<1>2. w = PushGrid(g, p, p.at, until, Len(f))
  BY <1>1, GridsAre DEF Pushed
<1>3. GridInv(g)
  <2>1. CASE j = 1
    <3>1. g = NewGrid
      BY <1>1, <2>1, GridsAre
    <3>2. QED
      BY <3>1, NewGridIs
  <2>2. CASE j # 1
    <3>1. j - 1 \in 1 .. Len(f)
      BY <1>1, <2>2
    <3>2. QED
      BY <3>1, IdealAlways DEF Ideal
  <2>3. QED
    BY <2>1, <2>2
<1>4. GridInv(w) /\ StampedGrid(w)
  BY IdealAlways DEF Ideal
<1> HIDE DEF w, g, p, until, n
<1>5. Opens(n, w, p, p.at, until, Len(f))
  <2>1. Judges(g, w, p, p.at, until, Len(f))
    BY <1>1, <1>2, <1>3, PcrJudges DEF p
  <2>2. QED
    BY <2>1 DEF Judges, n
<1>6. w.run = <<p>> /\ w.open # None /\ w.open.pcr = p.pcr /\ w.open.slot \in Int /\ w.epoch \in Int
  BY <1>5 DEF Opens
<1>7. w.open.slot = Greatest(SlotOfPcr(w.open.pcr) + w.epoch, 0)
  BY <1>4, <1>6 DEF StampedGrid
<1>8. QED
  BY <1>6, <1>7 DEF w, p

(* Two PCRs with one between them are two intervals apart, or more.          *)
LEMMA TwoIntervals ==
  ASSUME NEW f, Stamped(f), RunsOn(f), NEW c \in Nat \ {0}, EvenlySpaced(f, c),
         NEW a \in 1 .. Len(f), NEW b \in 1 .. Len(f), HasPcr(f[a]), HasPcr(f[b]),
         \E l \in a + 1 .. b - 1 : HasPcr(f[l])
  PROVE  PartnerGrids(f)[b].open.slot - PartnerGrids(f)[a].open.slot >= 2 * c
<1> DEFINE s(i) == PartnerGrids(f)[i].open.slot
           Near(n) == \E o \in a .. n :
                        /\ HasPcr(f[o]) /\ \A i \in o + 1 .. n : ~HasPcr(f[i])
                        /\ o = a \/ s(o) - s(a) >= c
           T == {n \in 0 .. Len(f) : n >= a => Near(n)}
<1>1. Len(f) \in Nat /\ a \in Int /\ b \in Int
  BY LenProperties DEF Stamped
<1>2. \A i \in 1 .. Len(f) : HasPcr(f[i]) => s(i) \in Int
  BY PartnerOpens
<1>3. \A i, j \in 1 .. Len(f) :
        i < j /\ HasPcr(f[i]) /\ HasPcr(f[j]) /\ (\A l \in i + 1 .. j - 1 : ~HasPcr(f[l])) => s(j) - s(i) = c
  BY DEF EvenlySpaced
<1> HIDE DEF s
<1>4. 0 \in T
  BY <1>1
<1>5. ASSUME NEW n \in 1 .. Len(f), n - 1 \in T PROVE n \in T
  <2>1. CASE n < a
    BY <1>1, <2>1
  <2>2. CASE n = a
    <3>1. a \in a .. n /\ \A i \in a + 1 .. n : ~HasPcr(f[i])
      BY <1>1, <2>2
    <3>2. QED
      BY <3>1, <2>2, <1>1
  <2>3. CASE n > a
    <3>1. n - 1 >= a /\ n - 1 \in Int
      BY <1>1, <2>3
    <3>2. PICK o \in a .. n - 1 :
            /\ HasPcr(f[o]) /\ \A i \in o + 1 .. n - 1 : ~HasPcr(f[i])
            /\ o = a \/ s(o) - s(a) >= c
      BY <1>5, <3>1
    <3>3. CASE ~HasPcr(f[n])
      <4>1. o \in a .. n /\ \A i \in o + 1 .. n : ~HasPcr(f[i])
        BY <1>1, <3>2, <3>3
      <4>2. Near(n)
        BY <3>2, <4>1
      <4>3. QED
        BY <4>2
    <3>4. CASE HasPcr(f[n])
      <4>1. o \in 1 .. Len(f) /\ o < n
        BY <1>1, <3>2
      <4>2. s(n) - s(o) = c
        BY <1>3, <3>2, <3>4, <4>1
      <4>3. s(n) \in Int /\ s(o) \in Int /\ s(a) \in Int
        BY <1>2, <3>2, <3>4, <4>1
      <4>4. s(n) - s(a) >= c
        BY <3>2, <4>2, <4>3
      <4>5. n \in a .. n /\ \A i \in n + 1 .. n : ~HasPcr(f[i])
        BY <1>1, <2>3
      <4>6. Near(n)
        BY <3>4, <4>4, <4>5
      <4>7. QED
        BY <4>6
    <3>5. QED
      BY <3>3, <3>4
  <2>4. QED
    BY <1>1, <2>1, <2>2, <2>3
<1>6. \A n \in 0 .. Len(f) : n \in T
  <2> HIDE DEF T
  <2>1. QED
    BY <1>1, <1>4, <1>5, Upwards
<1>7. PICK l \in a + 1 .. b - 1 : HasPcr(f[l])
  OBVIOUS
<1>8. b - 1 \in 0 .. Len(f) /\ b - 1 >= a
  BY <1>1, <1>7
<1>9. PICK o \in a .. b - 1 :
        /\ HasPcr(f[o]) /\ \A i \in o + 1 .. b - 1 : ~HasPcr(f[i])
        /\ o = a \/ s(o) - s(a) >= c
  BY <1>6, <1>8
<1>10. o # a
  BY <1>1, <1>7, <1>9
<1>11. o \in 1 .. Len(f) /\ o < b
  BY <1>1, <1>9
<1>12. s(b) - s(o) = c
  BY <1>3, <1>9, <1>11
<1>13. s(b) \in Int /\ s(o) \in Int /\ s(a) \in Int
  BY <1>2, <1>9, <1>11
<1>14. s(b) - s(a) >= 2 * c
  BY <1>9, <1>10, <1>12, <1>13
<1>15. QED
  BY <1>14 DEF s

(* What a packet leaves of the counter, and that what it missed breaks it.   *)
LEMMA NoteCounts ==
  ASSUME NEW g, GridInv(g), NEW p \in Packets
  PROVE  LET n == NoteContinuity(g, p)
         IN  /\ p.payload => n.continuity[p.pid] # None /\ n.continuity[p.pid].cc = p.cc
             /\ g.broken => n.broken
             /\ /\ g.continuity[p.pid] # None /\ ~p.di /\ p.cc # g.continuity[p.pid].cc
                /\ p.payload => p.cc # (g.continuity[p.pid].cc + 1) % CcModulo
                => n.broken
<1> DEFINE last == g.continuity[p.pid]
           fresh    == [cc |-> p.cc, repeated |-> FALSE]
           again    == [fresh EXCEPT !.repeated = TRUE]
           resets   == last = None \/ p.di
           advances == p.payload /\ p.cc = (last.cc + 1) % CcModulo
           repeats  == p.payload /\ p.cc = last.cc /\ ~last.repeated
           keeps    == ~p.payload /\ p.cc = last.cc
           c == IF resets \/ advances THEN fresh ELSE IF repeats THEN again
                ELSE IF p.payload THEN fresh ELSE last
           b == g.broken \/ ~(resets \/ advances \/ repeats \/ keeps)
           n == NoteContinuity(g, p)
<1>1. g \in Grids /\ p.pid \in Pids /\ p.cc \in 0 .. CcModulo - 1
  BY DEF GridInv, Packets
<1>2. fresh \in Counters /\ again \in Counters /\ fresh.cc = p.cc /\ again.cc = p.cc
  BY <1>1 DEF Counters
<1>3. None \notin Counters
  BY StreamGridAssumption DEF StreamGridAssumption, Counters
<1>4. n = [g EXCEPT !.continuity[p.pid] = c, !.broken = b]
  BY DEF NoteContinuity
<1>5. p.payload => c # None /\ c.cc = p.cc
  <2>1. p.payload => c = fresh \/ c = again
    OBVIOUS
  <2> HIDE DEF c, fresh, again
  <2>2. QED
    BY <1>2, <1>3, <2>1
<1>6. g.broken => b
  OBVIOUS
<1>7. /\ last # None /\ ~p.di /\ p.cc # last.cc /\ (p.payload => p.cc # (last.cc + 1) % CcModulo)
      => b
  OBVIOUS
<1> HIDE DEF c, b, n
<1>8. n.continuity[p.pid] = c /\ n.broken = b
  BY <1>1, <1>4 DEF Grids
<1>9. QED
  BY <1>5, <1>6, <1>7, <1>8 DEF n
-----------------------------------------------------------------------------
(* A leg that lost some of a feed, with packet next to come and i the last   *)
(* it received, if any: all between lay in objects the path may lose.        *)
Skips(f, i, next) ==
  /\ i \in 0 .. next - 1
  /\ \A l \in i + 1 .. next - 1 : f[l].lossy
  /\ i + 1 < next => /\ i >= 1 => f[i].obj # f[i + 1].obj
                     /\ next <= Len(f) => f[next - 1].obj # f[next].obj
Counted(f, g, i) ==
  i >= 1 /\ f[i].payload => g.continuity[f[i].pid] # None /\ g.continuity[f[i].pid].cc = f[i].cc
Steadily(g, c) == \A s \in 1 .. Len(g.spans) : g.spans[s] = c

(* Its open run began with packet k, on the partner's epoch.  It has all of  *)
(* it, or it knows that it has not: its counter broke or will, and by the    *)
(* next packet it is a PCR short.                                            *)
Opened(f, g, k) ==
  LET w == PartnerGrids(f)[k]
  IN  /\ HasPcr(f[k]) /\ g.open.pcr = f[k].pcr /\ g.open.at <= f[k].by
      /\ g.epoch = w.epoch /\ g.open.slot = w.open.slot
Whole(f, g, k, i) ==
  LET w == PartnerGrids(f)[i]
  IN  /\ \A l \in k + 1 .. i : ~HasPcr(f[l])
      /\ g.run = w.run /\ g.epoch = w.epoch
      /\ g.open.slot = w.open.slot /\ g.open.pcr = w.open.pcr
Torn(f, g, k, i, next) ==
  /\ g.spans # <<>> /\ (i + 1 < next \/ g.broken)
  /\ \A l \in k + 1 .. next - 1 : HasPcr(f[l]) => f[l].lossy
  /\ next <= Len(f) => \E l \in k + 1 .. next - 1 : HasPcr(f[l])

Trace(f, c, g, i, next) ==
  /\ Skips(f, i, next) /\ Counted(f, g, i) /\ Steadily(g, c)
  /\ g.open = None => g.epoch = 0 /\ \A l \in 1 .. next - 1 : HasPcr(f[l]) => f[l].lossy
  /\ g.open # None =>
       \E k \in 1 .. i : /\ Opened(f, g, k)
                         /\ (i = next - 1 /\ Whole(f, g, k, i)) \/ Torn(f, g, k, i, next)

(* Packet j, a PCR, arrives at a run that packet k opened.                   *)
Resuming(f, k, j, g, at) ==
  /\ Stamped(f) /\ RunsOn(f) /\ k \in 1 .. Len(f) /\ j \in 1 .. Len(f) /\ k < j
  /\ HasPcr(f[j]) /\ GridInv(g) /\ g.open # None /\ Opened(f, g, k) /\ ReadAcross(f, k, j)
  /\ at \in Int /\ at >= f[j].after

(* The first PCR after what was lost is read where the partner has it.       *)
LEMMA ReadsLate ==
  ASSUME NEW f, NEW k, NEW j, NEW g, NEW at, Resuming(f, k, j, g, at), NEW horizon
  PROVE  /\ NextEpoch(g, f[j], at, horizon) = PartnerGrids(f)[j].epoch
         /\ Moved(g, f[j], at, horizon) = 0
         /\ ~Spliced(g, f[j], Since(g, at), horizon)
<1> DEFINE p == f[j]
           w == PartnerGrids(f)
           delta == ForwardDelta(g.open.pcr, p.pcr)
           since == Since(g, at)
           began == g.open.at
           earliest == p.after
           latest == f[k].by
<1>a. /\ Stamped(f) /\ RunsOn(f) /\ k \in 1 .. Len(f) /\ j \in 1 .. Len(f) /\ k < j
      /\ HasPcr(f[j]) /\ GridInv(g) /\ g.open # None /\ Opened(f, g, k) /\ ReadAcross(f, k, j)
      /\ at \in Int /\ at >= f[j].after
  BY DEF Resuming
<1> USE <1>a
<1>0. g.open \in Openings
  BY DEF GridInv, Grids
<1>1. j \in 2 .. Len(f)
  BY LenProperties DEF Stamped
<1>2. ~p.di
  BY <1>1 DEF RunsOn
<1>3. f[j] \in Packets /\ f[k] \in Packets
  BY PacketTypes
<1>4. /\ g.open.pcr = f[k].pcr /\ g.open.at <= f[k].by
      /\ g.epoch = w[k].epoch /\ g.open.slot = w[k].open.slot
  BY DEF Opened
<1>5. /\ delta > 0 /\ (delta <= GapTicks \/ delta <= 2 * (p.after - f[k].by))
      /\ w[j].epoch = w[k].epoch + IF OnGrid(w[k], p) < w[k].open.slot THEN SlotsPerWrap ELSE 0
  BY <1>4 DEF ReadAcross
<1>6. OnGrid(w[k], p) = OnGrid(g, p)
  BY <1>4 DEF OnGrid
<1>7. /\ since = at - began /\ began \in Int /\ earliest \in Int /\ latest \in Int
      /\ since \in Int /\ latest >= began /\ at >= earliest
  <2>1. began \in Int /\ since = at - began
    BY <1>0 DEF Openings, Since
  <2>2. earliest \in Int /\ latest \in Int
    <3>1. \A x \in Packets : x.after \in Int /\ x.by \in Int
      BY DEF Packets
    <3>2. QED
      BY <1>3, <3>1
  <2>3. latest >= began /\ at >= earliest
    <3>1. began <= latest
      BY <1>4
    <3> HIDE DEF began, latest
    <3>2. latest >= began
      BY <2>1, <2>2, <3>1
    <3>3. QED
      BY <3>2
  <2> HIDE DEF since, began, earliest, latest
  <2>4. QED
    BY <2>1, <2>2, <2>3
<1>9. delta \in Int /\ GapTicks \in Int
  <2>1. g.open.pcr \in Int
    BY <1>0 DEF Openings
  <2>2. p.pcr \in Int
    BY <1>3 DEF Packets, HasPcr
  <2>3. delta \in Int
    <3> DEFINE x == g.open.pcr
               y == p.pcr
    <3>1. x \in Int /\ y \in Int
      BY <2>1, <2>2
    <3> HIDE DEF x, y
    <3>2. ForwardDelta(x, y) \in Int
      BY <3>1, LegNumbers DEF ForwardDelta
    <3>3. QED
      BY <3>2 DEF x, y
  <2>4. QED
    BY <2>3, LegNumbers
<1>10. ~Spliced(g, p, since, horizon)
  <2>1. CASE delta <= GapTicks
    <3>1. ~Jumped(g, p)
      BY <1>5, <1>9, <2>1 DEF Jumped
    <3>2. QED
      BY <1>2, <3>1 DEF Spliced
  <2>2. CASE delta <= 2 * (p.after - f[k].by)
    <3>1. delta <= 2 * since
      <4>1. delta <= 2 * (earliest - latest)
        BY <2>2
      <4> HIDE DEF delta, since, began, earliest, latest
      <4>2. QED
        BY <1>7, <1>9, <4>1
    <3>2. QED
      BY <1>2, <1>5, <3>1 DEF Spliced
  <2>3. QED
    BY <1>5, <2>1, <2>2
<1>11. NextEpoch(g, p, at, horizon) = w[j].epoch
  <2>1. NextEpoch(g, p, at, horizon) = IF OnGrid(g, p) < g.open.slot THEN g.epoch + SlotsPerWrap ELSE g.epoch
    BY <1>10 DEF NextEpoch, EpochFor
  <2>2. g.epoch \in Int
    BY DEF GridInv, Grids
  <2>3. QED
    BY <1>4, <1>5, <1>6, <2>1, <2>2
<1>12. QED
  BY <1>10, <1>11 DEF Moved

(* Packet j, a PCR, closes the run that is open on a grid of even intervals. *)
Closing(f, c, j, g) ==
  /\ Stamped(f) /\ RunsOn(f) /\ Recognisable(f) /\ c \in Nat \ {0} /\ EvenlySpaced(f, c)
  /\ j \in 2 .. Len(f) /\ HasPcr(f[j]) /\ GridInv(g) /\ g.open # None /\ Steadily(g, c)

(* A leg that has all of its run reads the PCR that closes it as one more of *)
(* the intervals it knows.                                                   *)
LEMMA WholeReads ==
  ASSUME NEW f, NEW c, NEW j, NEW g, Closing(f, c, j, g), NEW k, k \in 1 .. j - 1,
         Opened(f, g, k), Whole(f, g, k, j - 1), NEW at, NEW horizon
  PROVE  LET n == NoteContinuity(g, f[j])
         IN  /\ NextEpoch(n, f[j], at, horizon) = PartnerGrids(f)[j].epoch
             /\ Moved(n, f[j], at, horizon) = 0
             /\ ~Missed(n, f[j], at, horizon)
             /\ OpenSlot(n, f[j], at, horizon) - g.open.slot = c
<1> DEFINE p == f[j]
           w == PartnerGrids(f)[j - 1]
           v == PartnerGrids(f)[j]
           until == PartnerHorizon(f, p.at)
           n == NoteContinuity(g, p)
           m == NoteContinuity(w, p)
<1>0. /\ Stamped(f) /\ RunsOn(f) /\ Recognisable(f) /\ c \in Nat \ {0} /\ EvenlySpaced(f, c)
      /\ j \in 2 .. Len(f) /\ HasPcr(f[j]) /\ GridInv(g) /\ g.open # None /\ Steadily(g, c)
  BY DEF Closing
<1> USE <1>0
<1>1. /\ Len(f) \in Nat /\ j \in 1 .. Len(f) /\ j - 1 \in 1 .. Len(f) /\ k \in 1 .. Len(f) /\ k < j
      /\ j \in Int
  BY LenProperties DEF Stamped
<1>2. p \in Packets /\ p.at \in Int
  BY <1>1, PacketTypes
<1>3. v = PushGrid(w, p, p.at, until, Len(f)) /\ GridInv(w) /\ w.open # None
  BY <1>1, GridsAre, IdealAlways DEF Pushed, Ideal
<1>4. ~p.di /\ ~Jumped(w, p)
  BY DEF RunsOn
<1>5. g.epoch = w.epoch /\ g.open.slot = w.open.slot /\ g.open.pcr = w.open.pcr
  BY DEF Whole
<1>6. v.open.slot - g.open.slot = c
  <2>1. \A l \in k + 1 .. j - 1 : ~HasPcr(f[l])
    BY DEF Whole
  <2>2. HasPcr(f[k]) /\ g.open.slot = PartnerGrids(f)[k].open.slot
    BY DEF Opened
  <2>3. v.open.slot - PartnerGrids(f)[k].open.slot = c
    BY <1>1, <2>1, <2>2 DEF EvenlySpaced
  <2>4. QED
    BY <2>2, <2>3
<1>7. /\ v.epoch \in Int /\ v.open.slot \in Int
      /\ v.open.slot = Greatest(SlotOfPcr(p.pcr) + v.epoch, 0)
  BY <1>1, PartnerOpens
<1> HIDE DEF p, w, v, until, n, m
<1>8. GridInv(n) /\ Alike(g, n) /\ Judgement(n) = Judgement(g) /\ Alike(w, m)
  BY <1>2, <1>3, NoteAlike, NoteJudges DEF n, m
<1>9. /\ n.open = g.open /\ m.open = w.open /\ n.epoch = g.epoch /\ m.epoch = w.epoch
      /\ n.spans = g.spans
  BY <1>8 DEF Alike, Judgement
<1>10. NextEpoch(m, p, p.at, until) = v.epoch
  <2>1. Judges(w, v, p, p.at, until, Len(f))
    BY <1>1, <1>2, <1>3, PcrJudges DEF p
  <2>2. Opens(m, v, p, p.at, until, Len(f))
    BY <2>1 DEF Judges, m
  <2>3. QED
    BY <2>2 DEF Opens
<1>11. /\ NextEpoch(n, p, at, horizon) = NextEpoch(m, p, p.at, until)
       /\ Moved(n, p, at, horizon) = 0
       /\ ~AfterSilence(n, p, Since(n, at), horizon)
  <2>1. m.open # None => ~p.di /\ ~Jumped(m, p)
    BY <1>4, <1>9 DEF Jumped
  <2>2. /\ n.epoch = m.epoch /\ (n.open = None <=> m.open = None)
        /\ n.open # None => n.open.pcr = m.open.pcr /\ n.open.slot = m.open.slot
    BY <1>3, <1>5, <1>9
  <2>3. n.open # None
    BY <1>9
  <2>4. /\ NextEpoch(n, p, at, horizon) = NextEpoch(m, p, p.at, until)
        /\ Moved(n, p, at, horizon) = 0
        /\ n.open # None => ~AfterSilence(n, p, Since(n, at), horizon)
    <3>1. Reading(n, m, p)
      BY <2>1, <2>2 DEF Reading
    <3>2. QED
      BY <3>1, ReadsAlike
  <2>5. QED
    BY <2>3, <2>4
<1>12. OpenSlot(n, p, at, horizon) = v.open.slot
  BY <1>7, <1>10, <1>11 DEF OpenSlot
<1>13. Greatest(OpenSlot(n, p, at, horizon) - n.open.slot, 0) = c
  BY <1>6, <1>9, <1>12 DEF Greatest
<1>14. ~MissedPcrs(n, c)
  <2>1. \A s \in 1 .. Len(n.spans) : n.spans[s] = c
    BY <1>9 DEF Steadily
  <2>2. ~(c >= c * MissedPcrFactor)
    BY DEF MissedPcrFactor
  <2>3. QED
    BY <2>1, <2>2 DEF MissedPcrs
<1>15. ~Missed(n, p, at, horizon)
  BY <1>11, <1>13, <1>14 DEF Missed
<1>16. QED
  BY <1>6, <1>10, <1>11, <1>12, <1>15 DEF n, p, v

(* What the path lost before a packet breaks the counter, or had broken it.  *)
LEMMA LossBreaks ==
  ASSUME NEW f, Stamped(f), Recognisable(f), NEW j \in 1 .. Len(f), NEW g, GridInv(g),
         NEW i, i >= 1, Skips(f, i, j), Counted(f, g, i), i + 1 < j \/ g.broken
  PROVE  NoteContinuity(g, f[j]).broken
<1> DEFINE p == f[j]
<1>1. p \in Packets /\ Len(f) \in Nat /\ i \in 0 .. j - 1
  BY PacketTypes DEF Skips
<1>2. CASE g.broken
  <2> HIDE DEF p
  <2>1. QED
    BY <1>1, <1>2, NoteCounts DEF p
<1>3. CASE i + 1 < j
  <2>1. i \in 1 .. Len(f)
    BY <1>1
  <2>2. MayLose(f, i, j)
    BY <1>1, <1>3 DEF MayLose, Skips
  <2>3. Noticed(f, i, j)
    BY <2>1, <2>2 DEF Recognisable
  <2>4. /\ f[i].payload /\ p.pid = f[i].pid /\ ~p.di /\ p.cc # f[i].cc
        /\ p.payload => p.cc # (f[i].cc + 1) % CcModulo
    BY <2>3 DEF Noticed
  <2>5. g.continuity[p.pid] # None /\ g.continuity[p.pid].cc = f[i].cc
    BY <2>4 DEF Counted
  <2> HIDE DEF p
  <2>6. QED
    BY <1>1, <2>4, <2>5, NoteCounts DEF p
<1>4. QED
  BY <1>2, <1>3

(* A leg without all of its run reads the next PCR as one past what it lost. *)
LEMMA TornReads ==
  ASSUME NEW f, NEW c, NEW j, NEW g, Closing(f, c, j, g), NEW i, Skips(f, i, j), Counted(f, g, i),
         NEW k, k \in 1 .. i, Opened(f, g, k), Torn(f, g, k, i, j),
         NEW at, at \in Int, at >= f[j].after, NEW horizon
  PROVE  LET n == NoteContinuity(g, f[j])
         IN  /\ NextEpoch(n, f[j], at, horizon) = PartnerGrids(f)[j].epoch
             /\ Moved(n, f[j], at, horizon) = 0
             /\ Missed(n, f[j], at, horizon)
<1> DEFINE p == f[j]
           v == PartnerGrids(f)[j]
           n == NoteContinuity(g, p)
<1>0. /\ Stamped(f) /\ RunsOn(f) /\ Recognisable(f) /\ c \in Nat \ {0} /\ EvenlySpaced(f, c)
      /\ j \in 2 .. Len(f) /\ HasPcr(f[j]) /\ GridInv(g) /\ g.open # None /\ Steadily(g, c)
  BY DEF Closing
<1> USE <1>0
<1>1. /\ Len(f) \in Nat /\ j \in 1 .. Len(f) /\ i \in 1 .. Len(f) /\ k \in 1 .. Len(f) /\ k < j
      /\ j \in Int /\ i < j /\ j <= Len(f)
  <2>1. Len(f) \in Nat /\ i \in 0 .. j - 1
    BY LenProperties DEF Stamped, Skips
  <2>2. QED
    BY <2>1
<1>2. p \in Packets
  BY <1>1, PacketTypes
<1>3. /\ g.open.pcr = f[k].pcr /\ HasPcr(f[k]) /\ g.open.slot = PartnerGrids(f)[k].open.slot
      /\ g.open.at <= f[k].by /\ g.epoch = PartnerGrids(f)[k].epoch
  BY DEF Opened
<1>4. /\ g.spans # <<>> /\ (i + 1 < j \/ g.broken)
      /\ \A l \in k + 1 .. j - 1 : HasPcr(f[l]) => f[l].lossy
      /\ \E l \in k + 1 .. j - 1 : HasPcr(f[l])
  BY <1>1 DEF Torn
<1>5. ReadAcross(f, k, j)
  <2>1. k \in 1 .. j - 1
    BY <1>1
  <2>2. QED
    BY <1>1, <1>3, <1>4, <2>1 DEF Recognisable
<1>6. v.open.slot - g.open.slot >= 2 * c
  BY <1>1, <1>3, <1>4, TwoIntervals
<1>7. /\ v.epoch \in Int /\ v.open.slot \in Int
      /\ v.open.slot = Greatest(SlotOfPcr(p.pcr) + v.epoch, 0)
  BY <1>1, PartnerOpens
<1>8. n.broken
  <2>1. i >= 1
    BY <1>1
  <2>2. QED
    BY <1>1, <1>4, <2>1, LossBreaks
<1> HIDE DEF p, v, n
<1>9. GridInv(n) /\ Alike(g, n) /\ Judgement(n) = Judgement(g)
  BY <1>2, NoteAlike, NoteJudges DEF n
<1>10. n.open = g.open /\ n.epoch = g.epoch /\ n.spans = g.spans
  BY <1>9 DEF Alike, Judgement
<1>11. NextEpoch(n, p, at, horizon) = v.epoch /\ Moved(n, p, at, horizon) = 0
  <2>1. Opened(f, n, k)
    BY <1>3, <1>10 DEF Opened
  <2>2. Resuming(f, k, j, n, at)
    BY <1>1, <1>5, <1>9, <1>10, <2>1 DEF Resuming
  <2>3. QED
    BY <2>2, ReadsLate DEF p, v
<1>12. OpenSlot(n, p, at, horizon) = v.open.slot
  BY <1>7, <1>11 DEF OpenSlot
<1>13. MissedPcrs(n, Greatest(OpenSlot(n, p, at, horizon) - n.open.slot, 0))
  <2> DEFINE span == Greatest(OpenSlot(n, p, at, horizon) - n.open.slot, 0)
  <2>1. span >= 2 * c
    <3>1. g.open.slot \in Int
      BY DEF GridInv, Grids, Openings
    <3>2. QED
      BY <1>6, <1>7, <1>10, <1>12, <3>1 DEF Greatest
  <2>2. 1 \in 1 .. Len(n.spans) /\ \A s \in 1 .. Len(n.spans) : n.spans[s] = c
    <3>1. n.spans \in Seq(Int) /\ n.spans # <<>>
      BY <1>4, <1>9, <1>10 DEF GridInv, Grids
    <3>2. 1 \in 1 .. Len(n.spans)
      BY <3>1, EmptySeq, LenProperties
    <3>3. QED
      BY <1>10, <3>2 DEF Steadily
  <2> HIDE DEF span
  <2>3. n.spans[1] = c /\ \A s \in 1 .. Len(n.spans) : n.spans[s] <= n.spans[1]
    BY <2>2
  <2>4. n.spans[1] > 0 /\ span >= n.spans[1] * MissedPcrFactor
    BY <2>1, <2>3 DEF MissedPcrFactor
  <2>5. QED
    BY <2>2, <2>3, <2>4 DEF MissedPcrs, span
<1>14. Missed(n, p, at, horizon)
  BY <1>8, <1>13 DEF Missed
<1>15. QED
  BY <1>11, <1>14 DEF n, p, v

LEMMA SteadyNext ==
  ASSUME NEW g, g.spans \in Seq(Int), NEW c \in Nat, Steadily(g, c), NEW next,
         Greatest(next - g.open.slot, 0) = c,
         NEW h, h.spans = NextSpans(g, next)
  PROVE  Steadily(h, c)
<1> DEFINE s == g.spans
           t == Append(s, c)
<1>1. s \in Seq(Int) /\ \A i \in 1 .. Len(s) : s[i] = c
  BY DEF Steadily
<1>2. h.spans = t \/ h.spans = Tail(t)
  BY DEF NextSpans
<1> HIDE DEF s
<1>3. t \in Seq(Int) /\ Len(t) = Len(s) + 1 /\ \A i \in 1 .. Len(t) : t[i] = c
  <2>1. t \in Seq(Int) /\ Len(t) = Len(s) + 1 /\ Len(s) \in Nat
    BY <1>1
  <2>2. ASSUME NEW i \in 1 .. Len(t) PROVE t[i] = c
    BY <1>1, <2>1
  <2>3. QED
    BY <2>1, <2>2
<1> HIDE DEF t
<1>4. t # <<>> /\ Len(s) \in Nat
  BY <1>1, <1>3
<1>5. Len(Tail(t)) = Len(s) /\ \A i \in 1 .. Len(s) : Tail(t)[i] = t[i + 1]
  BY <1>3, <1>4
<1>6. \A i \in 1 .. Len(Tail(t)) : Tail(t)[i] = c
  BY <1>3, <1>4, <1>5
<1>7. QED
  BY <1>2, <1>3, <1>6 DEF Steadily

(* A PCR that is received: the run it opens is whole, in the partner's slot. *)
LEMMA TraceOpens ==
  ASSUME NEW f, Stamped(f), RunsOn(f), Recognisable(f), NEW c \in Nat \ {0}, EvenlySpaced(f, c),
         NEW j \in 1 .. Len(f), HasPcr(f[j]), NEW g, GridInv(g), Going(g), g.rebased = 0,
         NEW i, Trace(f, c, g, i, j),
         NEW at \in Int, at >= f[j].after, at <= f[j].by, NEW horizon, NEW capacity \in Nat
  PROVE  LET h == PushGrid(g, f[j], at, horizon, capacity)
         IN  Trace(f, c, h, j, j + 1) /\ JudgedAlike(f, g, h, j)
<1> DEFINE p == f[j]
           v == PartnerGrids(f)[j]
           n == NoteContinuity(g, p)
           h == PushGrid(g, p, at, horizon, capacity)
           slot == OpenSlot(n, p, at, horizon)
<1>1. p \in Packets /\ j \in Int /\ Len(f) \in Nat
  BY PacketTypes
<1>2. /\ v.run = <<p>> /\ v.open # None /\ v.open.pcr = p.pcr
      /\ v.epoch \in Int /\ v.open.slot \in Int
      /\ v.open.slot = Greatest(SlotOfPcr(p.pcr) + v.epoch, 0)
  BY PartnerOpens
<1>3. Judges(g, h, p, at, horizon, capacity)
  BY <1>1, PcrJudges
<1>4. p.payload => n.continuity[p.pid] # None /\ n.continuity[p.pid].cc = p.cc
  BY <1>1, NoteCounts
<1>5. Skips(f, i, j) /\ Counted(f, g, i) /\ Steadily(g, c)
  BY DEF Trace
<1>6. GridInv(n) /\ Alike(g, n) /\ g.spans \in Seq(Int)
  BY <1>1, NoteAlike DEF GridInv, Grids
<1> DEFINE Read == /\ NextEpoch(n, p, at, horizon) = v.epoch /\ Moved(n, p, at, horizon) = 0
                   /\ Steadily(h, c)
                   /\ j > 1 => \/ g.open # None /\ h.cut = g.cut /\ g.run = PartnerGrids(f)[j - 1].run
                               \/ (g.open = None \/ h.cut # g.cut) /\ Fits(f)
<1> HIDE DEF Read
<1>7. ASSUME g.open = None PROVE Read
  <2>1. g.epoch = 0 /\ \A l \in 1 .. j - 1 : HasPcr(f[l]) => f[l].lossy
    BY <1>7 DEF Trace
  <2>2. v.epoch = 0 /\ Fits(f)
    BY <2>1 DEF Recognisable
  <2> HIDE DEF p, n, h, v, slot
  <2>3. n.open = None /\ n.epoch = 0
    BY <1>6, <1>7, <2>1 DEF Alike
  <2>4. NextEpoch(n, p, at, horizon) = v.epoch /\ Moved(n, p, at, horizon) = 0
    BY <2>2, <2>3 DEF NextEpoch, EpochFor, Moved
  <2>5. h.spans = g.spans
    BY <1>3, <1>7 DEF Judges
  <2>6. QED
    BY <1>5, <1>7, <2>2, <2>4, <2>5 DEF Steadily, Read
<1>8. ASSUME g.open # None PROVE Read
  <2>1. PICK k \in 1 .. i : /\ Opened(f, g, k)
                            /\ (i = j - 1 /\ Whole(f, g, k, i)) \/ Torn(f, g, k, i, j)
    BY <1>8 DEF Trace
  <2>2. i \in 0 .. j - 1
    BY <1>5 DEF Skips
  <2>3. j \in 2 .. Len(f) /\ g.run # <<>>
    BY <1>1, <1>8, <2>1, <2>2 DEF Going
  <2>0. Closing(f, c, j, g)
    BY <1>5, <1>8, <2>3 DEF Closing
  <2>4. CASE i = j - 1 /\ Whole(f, g, k, i)
    <3>1. k \in 1 .. j - 1 /\ Whole(f, g, k, j - 1)
      BY <2>1, <2>4
    <3>2. /\ NextEpoch(n, p, at, horizon) = v.epoch /\ Moved(n, p, at, horizon) = 0
          /\ ~Missed(n, p, at, horizon) /\ slot - g.open.slot = c
      BY <2>0, <2>1, <3>1, WholeReads
    <3>3. g.run = PartnerGrids(f)[j - 1].run
      BY <3>1 DEF Whole
    <3> HIDE DEF p, n, h, v, slot
    <3>4. h.cut = g.cut /\ h.spans = NextSpans(g, slot)
      BY <1>3, <1>8, <2>3, <3>2 DEF Judges, n, slot
    <3>5. Greatest(slot - g.open.slot, 0) = c
      BY <3>2 DEF Greatest
    <3>6. Steadily(h, c)
      BY <1>5, <1>6, <3>4, <3>5, SteadyNext
    <3>7. QED
      BY <1>8, <3>2, <3>3, <3>4, <3>6 DEF Read
  <2>5. CASE Torn(f, g, k, i, j)
    <3>1. /\ NextEpoch(n, p, at, horizon) = v.epoch /\ Moved(n, p, at, horizon) = 0
          /\ Missed(n, p, at, horizon)
      <4>1. k \in 1 .. i /\ Opened(f, g, k) /\ at \in Int /\ at >= f[j].after
        BY <2>1
      <4>2. /\ NextEpoch(n, f[j], at, horizon) = PartnerGrids(f)[j].epoch
            /\ Moved(n, f[j], at, horizon) = 0
            /\ Missed(n, f[j], at, horizon)
        BY <1>5, <2>0, <2>5, <4>1, TornReads
      <4>3. QED
        BY <4>2
    <3>2. Fits(f)
      BY DEF Recognisable
    <3> HIDE DEF p, n, h, v, slot
    <3>3. h.cut = g.cut + Len(g.run) /\ h.spans = g.spans
      BY <1>3, <1>8, <2>3, <3>1 DEF Judges, n
    <3>4. h.cut # g.cut
      <4>1. g.run \in Seq(Packets) /\ g.cut \in Nat
        BY DEF GridInv, Grids
      <4>2. Len(g.run) \in Nat \ {0}
        BY <2>3, <4>1, EmptySeq, LenProperties
      <4>3. QED
        BY <3>3, <4>1, <4>2
    <3>5. Steadily(h, c)
      BY <1>5, <3>3 DEF Steadily
    <3>6. QED
      BY <3>1, <3>2, <3>4, <3>5 DEF Read
  <2>6. QED
    BY <2>1, <2>4, <2>5
<1>9. Read
  BY <1>7, <1>8
<1>10. /\ h.open # None /\ h.open.pcr = p.pcr /\ h.open.at = at /\ h.run = <<p>>
       /\ h.epoch = v.epoch /\ h.open.slot = v.open.slot /\ h.rebased = 0
       /\ h.continuity = n.continuity
  <2> HIDE DEF p, n, h, v, slot
  <2>1. Opens(n, h, p, at, horizon, capacity) /\ h.continuity = n.continuity
    BY <1>3 DEF Judges, n
  <2>2. OpenSlot(n, p, at, horizon) = v.open.slot
    BY <1>2, <1>9 DEF OpenSlot, Read
  <2>3. n.rebased = 0
    BY <1>6 DEF Alike
  <2>4. QED
    BY <1>9, <2>1, <2>2, <2>3 DEF Opens, Read
<1>11. Skips(f, j, j + 1)
  BY <1>1 DEF Skips
<1>12. Counted(f, h, j)
  BY <1>4, <1>10 DEF Counted
<1>13. Opened(f, h, j) /\ Whole(f, h, j, j)
  <2>1. \A l \in j + 1 .. j : ~HasPcr(f[l])
    BY <1>1
  <2>2. QED
    BY <1>2, <1>10, <2>1 DEF Opened, Whole
<1>14. Trace(f, c, h, j, j + 1)
  <2>1. j \in 1 .. j /\ j = (j + 1) - 1
    BY <1>1
  <2> HIDE DEF p, n, h, v, slot
  <2>2. QED
    BY <1>9, <1>10, <1>11, <1>12, <1>13, <2>1 DEF Trace, Read
<1>15. JudgedAlike(f, g, h, j)
  BY <1>9, <1>10 DEF JudgedAlike, Read
<1>16. QED
  BY <1>14, <1>15

(* A packet without a PCR goes on with the run it joins, or with the tear.   *)
LEMMA TraceWaits ==
  ASSUME NEW f, Stamped(f), RunsOn(f), Recognisable(f), NEW c,
         NEW j \in 1 .. Len(f), ~HasPcr(f[j]), NEW g, GridInv(g), NEW i, Trace(f, c, g, i, j),
         NEW at, NEW horizon, NEW capacity
  PROVE  Trace(f, c, PushGrid(g, f[j], at, horizon, capacity), j, j + 1)
<1> DEFINE p == f[j]
           w == PartnerGrids(f)[j - 1]
           v == PartnerGrids(f)[j]
           until == PartnerHorizon(f, p.at)
           n == NoteContinuity(g, p)
           h == PushGrid(g, p, at, horizon, capacity)
<1>1. p \in Packets /\ p.at \in Int /\ j \in Int /\ Len(f) \in Nat /\ j <= Len(f)
  BY PacketTypes
<1>2. Skips(f, i, j) /\ Counted(f, g, i) /\ Steadily(g, c) /\ i \in 0 .. j - 1
  BY DEF Trace, Skips
<1>3. /\ h.open = g.open /\ h.epoch = g.epoch /\ h.spans = g.spans
      /\ h.continuity = n.continuity /\ h.broken = n.broken
      /\ g.open # None => h.run = Append(g.run, p)
  <2> HIDE DEF p
  <2>1. QED
    BY <1>1, PushWaits DEF Judgement, p
<1>4. p.payload => n.continuity[p.pid] # None /\ n.continuity[p.pid].cc = p.cc
  BY <1>1, NoteCounts
<1>5. Skips(f, j, j + 1)
  BY <1>1 DEF Skips
<1>6. Counted(f, h, j)
  BY <1>3, <1>4 DEF Counted
<1>7. Steadily(h, c)
  BY <1>2, <1>3 DEF Steadily
<1>8. ASSUME h.open = None
      PROVE  h.epoch = 0 /\ \A l \in 1 .. (j + 1) - 1 : HasPcr(f[l]) => f[l].lossy
  <2>1. g.epoch = 0 /\ \A l \in 1 .. j - 1 : HasPcr(f[l]) => f[l].lossy
    BY <1>3, <1>8 DEF Trace
  <2> HIDE DEF h
  <2>2. QED
    BY <1>1, <1>3, <2>1
<1>9. ASSUME h.open # None
      PROVE  \E k \in 1 .. j : /\ Opened(f, h, k)
                               /\ (j = (j + 1) - 1 /\ Whole(f, h, k, j)) \/ Torn(f, h, k, j, j + 1)
  <2>1. g.open # None
    BY <1>3, <1>9
  <2>2. PICK k \in 1 .. i : /\ Opened(f, g, k)
                            /\ (i = j - 1 /\ Whole(f, g, k, i)) \/ Torn(f, g, k, i, j)
    BY <2>1 DEF Trace
  <2>3. k \in 1 .. j /\ k < j /\ i >= 1
    BY <1>1, <1>2, <2>2
  <2>4. Opened(f, h, k)
    BY <1>3, <2>2 DEF Opened
  <2>5. CASE i = j - 1 /\ Whole(f, g, k, i)
    <3>1. /\ \A l \in k + 1 .. j - 1 : ~HasPcr(f[l])
          /\ g.run = w.run /\ g.epoch = w.epoch
          /\ g.open.slot = w.open.slot /\ g.open.pcr = w.open.pcr
      BY <2>5 DEF Whole
    <3>2. \A l \in k + 1 .. j : ~HasPcr(f[l])
      BY <1>1, <3>1
    <3>3. /\ j - 1 \in 1 .. Len(f) /\ v = PushGrid(w, p, p.at, until, Len(f))
          /\ GridInv(w) /\ w.open # None
      <4>1. j - 1 \in 1 .. Len(f)
        BY <1>1, <2>3
      <4>2. QED
        BY <1>1, <4>1, GridsAre, IdealAlways DEF Pushed, Ideal
    <3>4. v.run = Append(w.run, p) /\ v.epoch = w.epoch /\ v.open = w.open
      <4> HIDE DEF p, w, v, until
      <4>1. QED
        BY <1>1, <3>3, PushWaits DEF p
    <3>5. Whole(f, h, k, j)
      <4> HIDE DEF h, w, p
      <4>1. QED
        BY <1>3, <2>1, <3>1, <3>2, <3>4 DEF Whole
    <3>6. QED
      BY <1>1, <2>3, <2>4, <3>5
  <2>6. CASE Torn(f, g, k, i, j)
    <3>1. /\ g.spans # <<>> /\ (i + 1 < j \/ g.broken)
          /\ \A l \in k + 1 .. j - 1 : HasPcr(f[l]) => f[l].lossy
          /\ \E l \in k + 1 .. j - 1 : HasPcr(f[l])
      BY <1>1, <2>6 DEF Torn
    <3>2. h.broken
      BY <1>2, <1>3, <2>3, <3>1, LossBreaks
    <3>3. \A l \in k + 1 .. (j + 1) - 1 : HasPcr(f[l]) => f[l].lossy
      BY <1>1, <3>1
    <3>4. \E l \in k + 1 .. (j + 1) - 1 : HasPcr(f[l])
      BY <1>1, <3>1
    <3>5. Torn(f, h, k, j, j + 1)
      BY <1>3, <3>1, <3>2, <3>3, <3>4 DEF Torn
    <3>6. QED
      BY <2>3, <2>4, <3>5
  <2>7. QED
    BY <2>2, <2>5, <2>6
<1>10. QED
  <2> HIDE DEF h
  <2>1. QED
    BY <1>5, <1>6, <1>7, <1>8, <1>9 DEF Trace, h

(* What the path loses tears the run it was in.                              *)
LEMMA TraceLoses ==
  ASSUME NEW f, Stamped(f), Recognisable(f), NEW c, NEW next \in 1 .. Len(f),
         NEW g, g.open # None => g.spans # <<>>, NEW i, Trace(f, c, g, i, next),
         f[next].lossy, next > 1 => f[next - 1].obj # f[next].obj,
         NEW end \in next + 1 .. Len(f) + 1,
         \A l \in next .. end - 1 : f[l].obj = f[next].obj,
         end <= Len(f) => f[end].obj # f[next].obj
  PROVE  Trace(f, c, g, i, end)
<1>1. Len(f) \in Nat /\ next \in Int /\ end \in Int /\ next < end /\ next <= Len(f)
  BY LenProperties DEF Stamped
<1>2. Skips(f, i, next) /\ Counted(f, g, i) /\ Steadily(g, c) /\ i \in 0 .. next - 1
  BY DEF Trace, Skips
<1>3. \A l \in next .. end - 1 : l \in 1 .. Len(f) /\ f[l].lossy /\ f[l].obj = f[next].obj
  <2> SUFFICES ASSUME NEW l \in next .. end - 1
               PROVE  l \in 1 .. Len(f) /\ f[l].lossy /\ f[l].obj = f[next].obj
    OBVIOUS
  <2>1. l \in 1 .. Len(f) /\ f[l].obj = f[next].obj
    BY <1>1
  <2>2. f[l].lossy = f[next].lossy
    BY <2>1 DEF Recognisable
  <2>3. QED
    BY <2>1, <2>2
<1>4. \A l \in i + 1 .. end - 1 : f[l].lossy
  <2>1. \A l \in i + 1 .. next - 1 : f[l].lossy
    BY <1>2 DEF Skips
  <2>2. \A l \in i + 1 .. end - 1 : l \in i + 1 .. next - 1 \/ l \in next .. end - 1
    BY <1>1, <1>2
  <2>3. QED
    BY <1>3, <2>1, <2>2
<1>5. i >= 1 => f[i].obj # f[i + 1].obj
  <2>1. CASE i + 1 < next
    BY <1>2, <2>1 DEF Skips
  <2>2. CASE i + 1 = next
    <3>1. i >= 1 => next > 1 /\ next - 1 = i
      BY <1>1, <1>2, <2>2
    <3>2. QED
      BY <2>2, <3>1
  <2>3. QED
    BY <1>1, <1>2, <2>1, <2>2
<1>6. end <= Len(f) => f[end - 1].obj # f[end].obj
  <2>1. end - 1 \in next .. end - 1
    BY <1>1
  <2>2. f[end - 1].obj = f[next].obj
    BY <1>3, <2>1
  <2>3. QED
    BY <2>2
<1>7. i \in 0 .. end - 1 /\ i + 1 < end
  BY <1>1, <1>2
<1>8. Skips(f, i, end)
  BY <1>4, <1>5, <1>6, <1>7 DEF Skips
<1>9. ASSUME g.open = None
      PROVE  g.epoch = 0 /\ \A l \in 1 .. end - 1 : HasPcr(f[l]) => f[l].lossy
  <2>1. g.epoch = 0 /\ \A l \in 1 .. next - 1 : HasPcr(f[l]) => f[l].lossy
    BY <1>9 DEF Trace
  <2>2. \A l \in 1 .. end - 1 : l \in 1 .. next - 1 \/ l \in next .. end - 1
    BY <1>1
  <2>3. QED
    BY <1>3, <2>1, <2>2
<1>10. ASSUME g.open # None
       PROVE  \E k \in 1 .. i : /\ Opened(f, g, k)
                                /\ (i = end - 1 /\ Whole(f, g, k, i)) \/ Torn(f, g, k, i, end)
  <2>1. PICK k \in 1 .. i : /\ Opened(f, g, k)
                            /\ (i = next - 1 /\ Whole(f, g, k, i)) \/ Torn(f, g, k, i, next)
    BY <1>10 DEF Trace
  <2>2. g.spans # <<>> /\ k >= 1 /\ k <= i /\ i >= 1 /\ k \in Int
    BY <1>2, <1>10, <2>1
  <2>3. \A l \in k + 1 .. next - 1 : HasPcr(f[l]) => f[l].lossy
    <3>1. CASE i = next - 1 /\ Whole(f, g, k, i)
      BY <3>1 DEF Whole
    <3>2. CASE Torn(f, g, k, i, next)
      BY <3>2 DEF Torn
    <3>3. QED
      BY <2>1, <3>1, <3>2
  <2>4. \A l \in k + 1 .. end - 1 : HasPcr(f[l]) => f[l].lossy
    <3>1. \A l \in k + 1 .. end - 1 : l \in k + 1 .. next - 1 \/ l \in next .. end - 1
      BY <1>1, <2>2
    <3>2. QED
      BY <1>3, <2>3, <3>1
  <2>5. end <= Len(f) => \E l \in k + 1 .. end - 1 : HasPcr(f[l])
    <3> SUFFICES ASSUME end <= Len(f) PROVE \E l \in k + 1 .. end - 1 : HasPcr(f[l])
      OBVIOUS
    <3>1. i \in 1 .. Len(f) /\ end \in 1 .. Len(f)
      BY <1>1, <1>2, <2>2
    <3>2. MayLose(f, i, end)
      BY <1>4, <1>5, <1>6, <1>7, <2>2 DEF MayLose
    <3>3. PICK l \in i + 1 .. end - 1 : HasPcr(f[l])
      BY <3>1, <3>2 DEF Recognisable, Noticed
    <3>4. l \in k + 1 .. end - 1
      BY <1>1, <2>2, <3>1
    <3>5. QED
      BY <3>3, <3>4
  <2>6. Torn(f, g, k, i, end)
    BY <1>7, <2>2, <2>4, <2>5 DEF Torn
  <2>7. QED
    BY <2>1, <2>6
<1>11. QED
  BY <1>2, <1>8, <1>9, <1>10 DEF Trace

Traced(f, c) ==
  ~source.closing =>
    /\ path.next <= Len(f) => now <= f[path.next].by
    /\ \E i \in 0 .. path.next - 1 : Trace(f, c, grid, i, path.next)

LEMMA TraceStays ==
  ASSUME NEW f, NEW c, NEW g, NEW h, Judging(h) = Judging(g), NEW i, NEW next, Trace(f, c, g, i, next)
  PROVE  Trace(f, c, h, i, next)
<1>1. /\ h.run = g.run /\ h.open = g.open /\ h.epoch = g.epoch /\ h.spans = g.spans
      /\ h.continuity = g.continuity /\ h.broken = g.broken
  BY DEF Judging
<1>2. Skips(f, i, next) /\ Counted(f, h, i) /\ Steadily(h, c)
  BY <1>1 DEF Trace, Counted, Steadily
<1>3. h.open = None => h.epoch = 0 /\ \A l \in 1 .. next - 1 : HasPcr(f[l]) => f[l].lossy
  BY <1>1 DEF Trace
<1>4. ASSUME h.open # None
      PROVE  \E k \in 1 .. i : /\ Opened(f, h, k)
                               /\ (i = next - 1 /\ Whole(f, h, k, i)) \/ Torn(f, h, k, i, next)
  <2>1. PICK k \in 1 .. i : /\ Opened(f, g, k)
                            /\ (i = next - 1 /\ Whole(f, g, k, i)) \/ Torn(f, g, k, i, next)
    BY <1>1, <1>4 DEF Trace
  <2>2. Opened(f, h, k)
    BY <1>1, <2>1 DEF Opened
  <2>3. Whole(f, g, k, i) => Whole(f, h, k, i)
    BY <1>1 DEF Whole
  <2>4. Torn(f, g, k, i, next) => Torn(f, h, k, i, next)
    BY <1>1 DEF Torn
  <2>5. QED
    BY <2>1, <2>2, <2>3, <2>4
<1>5. QED
  BY <1>2, <1>3, <1>4 DEF Trace

LEMMA TracedStep ==
  ASSUME LegType, WatchInv, LiveInv, [Next]_vars,
         NEW CONSTANT f, Sending = f, RunsOn(f), Recognisable(f), Agrees(f),
         NEW CONSTANT c \in Nat \ {0}, EvenlySpaced(f, c), Traced(f, c)
  PROVE  /\ Traced(f, c)'
         /\ Deliver /\ HasPcr(f[path.next]) => JudgedAlike(f, grid, grid', path.next)
<1>0. Stamped(f) /\ path \in Paths /\ now \in Int /\ Len(f) \in Nat
  BY FeedsStamped, LenProperties DEF LegType, Stamped
<1>1. CASE Deliver
  <2> DEFINE horizon == IF count.begun > 0 THEN clock.slot + Capacity ELSE None
             j == path.next
  <2>1. /\ grid' = PushGrid(grid, f[j], now, horizon, Capacity)
        /\ j \in 1 .. Len(f) /\ now >= f[j].after /\ path'.next = j + 1
        /\ ~source.closing /\ GridInv(grid) /\ Going(grid)
        /\ now' = now /\ Capacity \in Nat
    BY <1>1, Pushes
  <2>2. now <= f[j].by
    BY <1>0, <2>1 DEF Traced
  <2>3. PICK i \in 0 .. j - 1 : Trace(f, c, grid, i, j)
    BY <2>1 DEF Traced
  <2>4. grid.rebased = 0
    BY DEF Agrees, Alongside, Unspliced
  <2>5. path'.next <= Len(f) => now' <= f[path'.next].by
    <3> SUFFICES ASSUME j + 1 <= Len(f) PROVE now <= f[j + 1].by
      BY <2>1
    <3>1. j + 1 \in 1 .. Len(f) /\ j < j + 1
      BY <1>0, <2>1
    <3>2. f[j].by <= f[j + 1].by
      BY <2>1, <3>1 DEF Recognisable
    <3>3. f[j].by \in Int /\ f[j + 1].by \in Int
      <4>1. \A l \in 1 .. Len(f) : f[l].by \in Int
        <5>1. \A l \in 1 .. Len(f) : f[l] \in Packets
          BY <1>0, PacketTypes
        <5>2. QED
          BY <5>1 DEF Packets
      <4>2. QED
        BY <2>1, <3>1, <4>1
    <3>4. QED
      BY <1>0, <2>2, <3>2, <3>3
  <2> HIDE DEF horizon, j
  <2>6. /\ Trace(f, c, grid', j, j + 1)
        /\ HasPcr(f[j]) => JudgedAlike(f, grid, grid', j)
    <3>1. CASE HasPcr(f[j])
      BY <1>0, <2>1, <2>2, <2>3, <2>4, <3>1, TraceOpens
    <3>2. CASE ~HasPcr(f[j])
      BY <1>0, <2>1, <2>3, <3>2, TraceWaits
    <3>3. QED
      BY <3>1, <3>2
  <2>7. j \in 0 .. path'.next - 1
    BY <2>1
  <2>8. QED
    BY <2>1, <2>5, <2>6, <2>7 DEF Traced, j
<1>2. CASE Lose
  <2> DEFINE next == path.next
  <2>1. /\ next <= Len(f) /\ f[next].lossy /\ (grid.open # None => grid.spans # <<>>)
        /\ next > 1 => f[next - 1].obj # f[next].obj
        /\ UNCHANGED <<now, grid, source>>
        /\ \E end \in next + 1 .. Len(f) + 1 :
             /\ \A l \in next .. end - 1 : f[l].obj = f[next].obj
             /\ end <= Len(f) => f[end].obj # f[next].obj
             /\ path' = [path EXCEPT !.next = end, !.lost = @ + 1]
    BY <1>2 DEF Lose
  <2>2. PICK end \in next + 1 .. Len(f) + 1 :
             /\ \A l \in next .. end - 1 : f[l].obj = f[next].obj
             /\ end <= Len(f) => f[end].obj # f[next].obj
             /\ path' = [path EXCEPT !.next = end, !.lost = @ + 1]
    BY <2>1
  <2>3. path'.next = end /\ next \in 1 .. Len(f) /\ next # end
    <3>1. path'.next = end
      BY <1>0, <2>2 DEF Paths
    <3>2. next \in Nat \ {0}
      BY <1>0 DEF Paths
    <3> HIDE DEF next
    <3>3. next \in 1 .. Len(f) /\ next # end
      BY <1>0, <2>1, <3>2
    <3>4. QED
      BY <3>1, <3>3
  <2>4. ~Deliver
    <3>1. Deliver => path'.lost = path.lost
      BY <1>0 DEF Deliver, Paths
    <3>2. path'.lost = path.lost + 1 /\ path.lost \in Nat
      BY <1>0, <2>2 DEF Paths
    <3>3. QED
      BY <3>1, <3>2
  <2>5. ASSUME ~source.closing
        PROVE  /\ end <= Len(f) => now <= f[end].by
               /\ \E i \in 0 .. end - 1 : Trace(f, c, grid, i, end)
    <3>1. now <= f[next].by /\ \E i \in 0 .. next - 1 : Trace(f, c, grid, i, next)
      BY <2>1, <2>5 DEF Traced
    <3>2. PICK i \in 0 .. next - 1 : Trace(f, c, grid, i, next)
      BY <3>1
    <3> HIDE DEF next
    <3>3. Trace(f, c, grid, i, end)
      BY <1>0, <2>1, <2>2, <2>3, <3>2, TraceLoses
    <3>4. i \in 0 .. end - 1
      BY <1>0, <2>3
    <3>5. ASSUME end <= Len(f) PROVE now <= f[end].by
      <4>1. end \in 1 .. Len(f) /\ next < end
        BY <1>0, <2>3, <3>5
      <4>2. f[next].by <= f[end].by
        BY <2>3, <4>1 DEF Recognisable
      <4>3. f[next].by \in Int /\ f[end].by \in Int
        BY <1>0, <2>3, <4>1, PacketTypes DEF Packets
      <4>4. QED
        BY <1>0, <3>1, <4>2, <4>3
    <3>6. QED
      BY <3>3, <3>4, <3>5
  <2>6. QED
    BY <2>1, <2>3, <2>4, <2>5 DEF Traced
<1>3. CASE source'.closing /\ ~Deliver
  BY <1>3 DEF Traced
<1>4. CASE /\ ~Deliver /\ ~Lose
           /\ Judging(grid') = Judging(grid) /\ path' = path /\ source'.closing = source.closing
  <2>1. now' = now \/ (now' = now + 1 /\ (path.next <= Len(f) => now < f[path.next].by))
    BY <1>4 DEF Next, Silent, End, MuteSlot, OpenDatagram, EmitSlot, Finish, Tick, vars
  <2>2. ASSUME ~source.closing
        PROVE  /\ path.next <= Len(f) => now' <= f[path.next].by
               /\ \E i \in 0 .. path.next - 1 : Trace(f, c, grid', i, path.next)
    <3>1. /\ path.next <= Len(f) => now <= f[path.next].by
          /\ \E i \in 0 .. path.next - 1 : Trace(f, c, grid, i, path.next)
      BY <2>2 DEF Traced
    <3>2. PICK i \in 0 .. path.next - 1 : Trace(f, c, grid, i, path.next)
      BY <3>1
    <3>3. Trace(f, c, grid', i, path.next)
      BY <1>4, <3>2, TraceStays
    <3>4. ASSUME path.next <= Len(f) PROVE now' <= f[path.next].by
      <4>1. path.next \in 1 .. Len(f)
        BY <1>0, <3>4 DEF Paths
      <4>2. f[path.next].by \in Int
        BY <1>0, <4>1, PacketTypes DEF Packets
      <4>3. QED
        BY <1>0, <2>1, <3>1, <3>4, <4>2
    <3>5. QED
      BY <3>3, <3>4
  <2>3. QED
    BY <1>4, <2>2 DEF Traced
<1>5. QED
  BY <1>1, <1>2, <1>3, <1>4, JudgingStays
-----------------------------------------------------------------------------
(* The feeds, and what the path lost of them, for which the leg and its      *)
(* partner are shown to agree; and the invariant that says so.               *)
Covered(f) == RunsOn(f) /\ Settles(f) /\ (path.lost = 0 \/ Recognisable(f))

PartnerInv ==
  \A f : Sending = f =>
    /\ partner = PartnerSends(f)
    /\ Covered(f) =>
         /\ Agrees(f) /\ Lossless(f)
         /\ Recognisable(f) => \A c \in Nat \ {0} : EvenlySpaced(f, c) => Traced(f, c)

LEMMA InitPartner == Init => PartnerInv
<1> SUFFICES ASSUME Init, NEW f, Sending = f
             PROVE  /\ partner = PartnerSends(f)
                    /\ RunsOn(f) => /\ Agrees(f) /\ Lossless(f)
                                    /\ \A c \in Nat \ {0} : Recognisable(f) => Traced(f, c)
  BY DEF PartnerInv, Covered
<1>1. partner = PartnerSends(f)
  BY DEF Init, Sending
<1>2. /\ now = 0 /\ path.next = 1 /\ path.lost = 0 /\ grid = NewGrid
  BY DEF Init
<1>3. Agrees(f)
  BY InitAgrees
<1>4. Stamped(f) /\ Len(f) \in Nat
  <2>1. Stamped(f)
    BY InitLeg, FeedsStamped
  <2>2. QED
    BY <2>1, LenProperties DEF Stamped
<1>5. ASSUME RunsOn(f) PROVE Lossless(f)
  <2>1. PartnerGrids(f)[0] = NewGrid
    BY <1>4, GridsAre
  <2>2. NewGrid.open = None /\ 0 \in 0 .. Len(f) /\ 1 - 1 = 0
    BY <1>4 DEF NewGrid
  <2>3. Mirrors(f, NewGrid, 0)
    BY <2>1, <2>2 DEF Mirrors
  <2>4. QED
    BY <1>2, <2>2, <2>3 DEF Lossless
<1>6. ASSUME RunsOn(f), NEW c \in Nat \ {0} PROVE Traced(f, c)
  <2>1. 1 <= Len(f) => 0 <= f[1].by
    BY <1>4, PacketTypes DEF Packets
  <2>2. NewGrid.open = None /\ NewGrid.epoch = 0 /\ NewGrid.spans = <<>> /\ Len(<<>>) = 0
    BY DEF NewGrid
  <2>3. Skips(f, 0, 1)
    BY DEF Skips
  <2>4. Counted(f, NewGrid, 0)
    BY DEF Counted
  <2>5. Steadily(NewGrid, c)
    BY <2>2 DEF Steadily
  <2>6. Trace(f, c, NewGrid, 0, 1)
    BY <2>2, <2>3, <2>4, <2>5 DEF Trace
  <2>7. 0 \in 0 .. 1 - 1
    OBVIOUS
  <2>8. QED
    BY <1>2, <2>1, <2>6, <2>7 DEF Traced
<1>7. QED
  BY <1>1, <1>3, <1>5, <1>6

LEMMA PartnerStep ==
  ASSUME LegType, NumberInv, WatchInv, StretchInv, LiveInv, PartnerInv, [Next]_vars,
         [grid.open # None => grid'.shed = grid.shed]_vars
  PROVE  PartnerInv'
<1>1. feed' = feed /\ partner' = partner
  BY DEF Next, Deliver, Lose, Silent, End, MuteSlot, OpenDatagram, EmitSlot, Finish, Tick, vars, setting
<1> SUFFICES ASSUME NEW CONSTANT f, Sending = f
             PROVE  /\ partner' = PartnerSends(f)
                    /\ Covered(f)' =>
                         /\ Agrees(f)' /\ Lossless(f)'
                         /\ Recognisable(f) => \A c \in Nat \ {0} : EvenlySpaced(f, c) => Traced(f, c)'
  BY <1>1 DEF PartnerInv, Sending
<1>2. /\ partner = PartnerSends(f)
      /\ Covered(f) =>
           /\ Agrees(f) /\ Lossless(f)
           /\ Recognisable(f) => \A c \in Nat \ {0} : EvenlySpaced(f, c) => Traced(f, c)
  BY DEF PartnerInv
<1>3. path \in Paths
  BY DEF LegType
<1>4. path'.lost = 0 => path.lost = 0
  <2>1. CASE Deliver
    BY <1>3, <2>1 DEF Deliver, Paths
  <2>2. CASE Lose
    <3>1. path.lost \in Nat /\ path'.lost = path.lost + 1
      BY <1>3, <2>2 DEF Lose, Paths
    <3>2. path'.lost # 0
      BY <3>1
    <3>3. QED
      BY <3>2
  <2>3. CASE path' = path
    BY <2>3
  <2>4. Deliver \/ Lose \/ path' = path
    BY DEF Next, Silent, End, MuteSlot, OpenDatagram, EmitSlot, Finish, Tick, vars
  <2>5. QED
    BY <2>1, <2>2, <2>3, <2>4
<1>5. ASSUME Covered(f)'
      PROVE  /\ Agrees(f)' /\ Lossless(f)'
             /\ Recognisable(f) => \A c \in Nat \ {0} : EvenlySpaced(f, c) => Traced(f, c)'
  <2>1. Covered(f) /\ RunsOn(f) /\ Settles(f)
    BY <1>4, <1>5 DEF Covered
  <2>2. Agrees(f) /\ Lossless(f)
    BY <1>2, <2>1
  <2>3. /\ Lossless(f)'
        /\ Deliver /\ path.lost = 0 /\ HasPcr(f[path.next]) => JudgedAlike(f, grid, grid', path.next)
    BY <2>1, <2>2, LosslessStep
  <2>4. ASSUME Recognisable(f), NEW CONSTANT c \in Nat \ {0}, EvenlySpaced(f, c)
        PROVE  /\ Traced(f, c)'
               /\ Deliver /\ HasPcr(f[path.next]) => JudgedAlike(f, grid, grid', path.next)
    <3>1. Traced(f, c)
      BY <1>2, <2>1, <2>4
    <3>2. QED
      BY <2>1, <2>2, <2>4, <3>1, TracedStep
  <2>5. Recognisable(f) => \E c \in Nat \ {0} : EvenlySpaced(f, c)
    <3>1. SlotsPerWrap \in Int
      BY LegNumbers, SlotsAreNumbers DEF SlotsPerWrap
    <3>2. 1 .. SlotsPerWrap \subseteq Nat \ {0}
      BY <3>1
    <3>3. QED
      BY <3>2 DEF Recognisable
  <2>6. Deliver /\ HasPcr(f[path.next]) => JudgedAlike(f, grid, grid', path.next)
    <3>1. CASE path.lost = 0
      BY <2>3, <3>1
    <3>2. CASE Recognisable(f)
      BY <2>4, <2>5, <3>2
    <3>3. QED
      BY <2>1, <3>1, <3>2 DEF Covered
  <2>7. Agrees(f)'
    BY <2>1, <2>2, <2>6, AgreesStep
  <2>8. QED
    BY <2>3, <2>4, <2>7
<1>6. QED
  BY <1>1, <1>2, <1>5

LEMMA PartnerAlways == Spec /\ NothingShed => [](LegType /\ PartnerInv)
<1> DEFINE Kept == grid.open # None => grid'.shed = grid.shed
<1>1. ASSUME LegType, NumberInv, WatchInv, LiveInv, [Next]_vars, [Kept]_vars
      PROVE  LiveInv'
  BY <1>1, LiveStep
<1>2. ASSUME LegType, NumberInv, WatchInv, StretchInv, LiveInv, PartnerInv, [Next]_vars, [Kept]_vars
      PROVE  PartnerInv'
  BY <1>2, PartnerStep
<1>3. Spec /\ [][Kept]_vars => [](LegType /\ PartnerInv)
  BY <1>1, <1>2, InitLeg, InitTiming, InitStretch, InitLive, InitPartner, TypeStep, NumberStep,
     TimingStep, StretchStep, PTL DEF Spec
<1>4. QED
  BY <1>3 DEF NothingShed

(* A leg never contradicts its partner, and so no leg another, whatever the  *)
(* path delays, reorders in time against the output clock or loses: on a     *)
(* feed whose clock runs on, from a source that fits its slots, a leg that   *)
(* sheds nothing it placed and either lost nothing or can recognise what it  *)
(* lost sends in each slot what its partner sends in it, or nothing.         *)
THEOREM LegsAgree ==
  Spec /\ NothingShed => [](Covered(Sending) => NeverContradicts)
<1>1. PartnerInv => (Covered(Sending) => NeverContradicts)
  <2> SUFFICES ASSUME PartnerInv, NEW f, Sending = f, Covered(f), wire # None
               PROVE  wire.slot \in DOMAIN partner /\ wire.packet = partner[wire.slot]
    BY DEF NeverContradicts
  <2>1. partner = PartnerSends(f) /\ Agrees(f)
    BY DEF PartnerInv
  <2>2. QED
    BY <2>1 DEF Agrees, Matches
<1>2. QED
  BY <1>1, PartnerAlways, PTL
-----------------------------------------------------------------------------
(* Where the partner puts the PCRs of the source: each in the slot of its    *)
(* value, where no run overruns.                                             *)
Sourced(f, x) ==
  HasPcr(x.packet) =>
    LET o == x.packet.id
    IN  o \in 1 .. Len(f) /\ x.packet = f[o] /\ x.slot = PartnerGrids(f)[o].open.slot

SourcedAt(f, i) ==
  LET g == PartnerGrids(f)[i]
  IN  /\ \A l \in 2 .. Len(g.run) : ~HasPcr(g.run[l])
      /\ \A x \in Members(g.placed) : Sourced(f, x)

LEMMA SourcedFirst ==
  ASSUME NEW f, Stamped(f), RunsOn(f)
  PROVE  SourcedAt(f, 1)
<1>1. 1 \in 1 .. Len(f) /\ HasPcr(f[1])
  <2>1. f \in Seq(Packets) /\ f # <<>> /\ HasPcr(f[1])
    BY DEF Stamped, RunsOn
  <2>2. QED
    BY <2>1, EmptySeq, LenProperties
<1>2. PartnerGrids(f)[1].run = <<f[1]>>
  BY <1>1, PartnerOpens
<1>3. PartnerGrids(f)[1].placed = <<>>
  <2>1. Placement(PartnerGrids(f)[1]) = Placement(NewGrid)
    BY IdealFirst
  <2>2. PartnerGrids(f)[1].placed = NewGrid.placed
    BY <2>1 DEF Placement
  <2>3. QED
    BY <2>2 DEF NewGrid
<1>4. Len(<<f[1]>>) = 1 /\ Len(<<>>) = 0
  OBVIOUS
<1>5. QED
  BY <1>2, <1>3, <1>4 DEF SourcedAt, Members

LEMMA SourcedNext ==
  ASSUME NEW f, Stamped(f), RunsOn(f), Fits(f), NEW i \in 2 .. Len(f), SourcedAt(f, i - 1)
  PROVE  SourcedAt(f, i)
<1> DEFINE g == PartnerGrids(f)[i - 1]
           h == PartnerGrids(f)[i]
           o == g.run[1].id
<1>1. i \in 1 .. Len(f) /\ i - 1 \in 1 .. Len(f) /\ i \in Int /\ Len(f) \in Nat
  BY LenProperties DEF Stamped
<1>2. Ideal(f, i - 1) /\ Extends(g, h, f[i]) /\ (HasPcr(f[i]) => Closes(g, h))
  BY <1>1, IdealAlways, IdealNext
<1>3. /\ GridInv(g) /\ g.open # None /\ Going(g) /\ o \in 1 .. Len(f) /\ HasPcr(f[o]) /\ g.run[1] = f[o]
      /\ Placement(g) = Placement(PartnerGrids(f)[o]) /\ g.open = PartnerGrids(f)[o].open
  BY <1>1, <1>2 DEF Ideal
<1>4. g.run \in Seq(Packets) /\ g.run # <<>>
  BY <1>3 DEF GridInv, Grids, Going
<1>5. /\ \A l \in 2 .. Len(g.run) : ~HasPcr(g.run[l])
      /\ \A x \in Members(g.placed) : Sourced(f, x)
  BY DEF SourcedAt
<1>6. CASE ~HasPcr(f[i])
  <2>1. Placement(h) = Placement(g) /\ h.run = Append(g.run, f[i])
    BY <1>2, <1>6 DEF Extends
  <2>2. h.placed = g.placed
    BY <2>1 DEF Placement
  <2>3. f[i] \in Packets
    BY <1>1, PacketTypes
  <2> HIDE DEF g, h
  <2>4. ASSUME NEW l \in 2 .. Len(h.run) PROVE ~HasPcr(h.run[l])
    <3>1. Len(h.run) = Len(g.run) + 1 /\ Len(g.run) \in Nat
      BY <1>4, <2>1, <2>3, AppendProperties, LenProperties
    <3>2. CASE l \in 2 .. Len(g.run)
      <4>1. h.run[l] = g.run[l]
        BY <1>4, <2>1, <2>3, <3>1, <3>2, AppendProperties
      <4>2. QED
        BY <1>5, <3>2, <4>1
    <3>3. CASE l = Len(g.run) + 1
      <4>1. h.run[l] = f[i]
        BY <1>4, <2>1, <2>3, <3>3, AppendProperties
      <4>2. QED
        BY <1>6, <4>1
    <3>4. QED
      BY <3>1, <3>2, <3>3
  <2>5. QED
    BY <1>5, <2>2, <2>4 DEF SourcedAt, h
<1>7. CASE HasPcr(f[i])
  <2> DEFINE next == h.open.slot
             new == Spread(g, next)
  <2>1. h.run = <<f[i]>> /\ Len(<<f[i]>>) = 1
    BY <1>2, <1>7 DEF Extends
  <2>2. Members(h.placed) = Members(g.placed) \cup Members(new)
    BY <1>2, <1>7 DEF Closes
  <2>3. next \in Int
    BY <1>1, IdealSlots
  <2>4. Greatest(g.nextFree, g.open.slot) = g.open.slot
    <3> DEFINE w == PartnerGrids(f)[o]
    <3>1. Placement(g) = Placement(w) /\ g.open = w.open /\ o \in 1 .. Len(f) /\ HasPcr(f[o])
      BY <1>3
    <3> HIDE DEF g, o
    <3>2. Greatest(w.nextFree, w.open.slot) = w.open.slot
      BY <3>1, FitsBehind
    <3> HIDE DEF w
    <3>3. g.nextFree = w.nextFree
      BY <3>1 DEF Placement
    <3>4. QED
      BY <3>1, <3>2, <3>3
  <2>5. g.open.slot \in Int /\ Len(g.run) \in Nat \ {0}
    BY <1>3, <1>4, EmptySeq, LenProperties DEF GridInv, Grids, Openings
  <2>6. /\ Len(new) = Len(g.run)
        /\ \A l \in 1 .. Len(g.run) : new[l].packet = g.run[l]
        /\ new[1].slot = g.open.slot
    <3> DEFINE span == Greatest(next - g.open.slot, 0)
               place(l) == Greatest(g.open.slot + ((l - 1) * span) \div Len(g.run),
                                    Greatest(g.nextFree, g.open.slot) + l - 1)
    <3>1. new = [l \in 1 .. Len(g.run) |-> [slot |-> place(l), packet |-> g.run[l]]]
      BY DEF Spread
    <3>2. span \in Int
      BY <2>3, <2>5 DEF Greatest
    <3> HIDE DEF g, h, new, next, span
    <3>3. place(1) = g.open.slot
      <4>1. ((1 - 1) * span) \div Len(g.run) = 0
        <5>1. (1 - 1) * span = 0
          BY <3>2
        <5>2. \A c \in Nat \ {0} : 0 \div c = 0
          OBVIOUS
        <5>3. QED
          BY <2>5, <5>1, <5>2
      <4>2. g.open.slot + 0 = g.open.slot /\ g.open.slot + 1 - 1 = g.open.slot
        BY <2>5
      <4>3. place(1) = Greatest(g.open.slot, g.open.slot)
        BY <2>4, <4>1, <4>2
      <4>4. QED
        BY <4>3 DEF Greatest
    <3> HIDE DEF place
    <3>4. new[1] = [slot |-> place(1), packet |-> g.run[1]]
      BY <2>5, <3>1
    <3>5. Len(new) = Len(g.run)
      BY <2>5, <3>1
    <3>6. \A l \in 1 .. Len(g.run) : new[l].packet = g.run[l]
      BY <3>1
    <3>7. QED
      BY <3>3, <3>4, <3>5, <3>6
  <2>7. ASSUME NEW x \in Members(new), HasPcr(x.packet)
        PROVE  x.packet = f[o] /\ x.slot = PartnerGrids(f)[o].open.slot
    <3>1. PICK l \in 1 .. Len(new) : x = new[l]
      BY <2>7 DEF Members
    <3> HIDE DEF g, h, new, next
    <3>2. x.packet = g.run[l] /\ l \in 1 .. Len(g.run)
      BY <2>6, <3>1
    <3>3. l = 1
      BY <1>5, <2>5, <2>7, <3>2
    <3>4. x.packet = g.run[1] /\ x.slot = g.open.slot
      BY <2>6, <3>1, <3>2, <3>3
    <3>5. QED
      BY <1>3, <3>4
  <2>8. f[o].id = o
    BY <1>3, PacketTypes
  <2> HIDE DEF o, new
  <2>9. \A x \in Members(new) : Sourced(f, x)
    BY <1>3, <2>7, <2>8 DEF Sourced
  <2> HIDE DEF g, h
  <2>10. QED
    BY <1>5, <2>1, <2>2, <2>9 DEF SourcedAt, h
<1>8. QED
  BY <1>6, <1>7

LEMMA SourcedAlways ==
  ASSUME NEW f, Stamped(f), RunsOn(f), Fits(f)
  PROVE  \A x \in Members(PartnerGrid(f).placed) : Sourced(f, x)
<1> DEFINE T == {i \in 0 .. Len(f) : i > 0 => SourcedAt(f, i)}
<1>1. Len(f) \in Nat \ {0}
  BY EmptySeq DEF Stamped, RunsOn
<1>2. 0 \in T
  BY <1>1
<1>3. ASSUME NEW i \in 1 .. Len(f), i - 1 \in T PROVE i \in T
  <2>1. CASE i = 1
    BY <1>1, <2>1, SourcedFirst
  <2>2. CASE i # 1
    <3>1. i \in 2 .. Len(f) /\ SourcedAt(f, i - 1)
      BY <1>1, <1>3, <2>2
    <3>2. SourcedAt(f, i)
      BY <3>1, SourcedNext
    <3>3. QED
      BY <3>2
  <2>3. QED
    BY <2>1, <2>2
<1>4. \A i \in 0 .. Len(f) : i \in T
  <2> HIDE DEF T
  <2>1. QED
    BY <1>1, <1>2, <1>3, Upwards
<1>5. SourcedAt(f, Len(f))
  BY <1>1, <1>4
<1>6. QED
  BY <1>5 DEF SourcedAt, PartnerGrid

(* A partner that settles never defers a PCR: it admits one with nothing     *)
(* deferred, and no other pre-empts it.                                      *)
NonePcr(e) == \A l \in 1 .. Len(e.deferred) : ~HasPcr(e.deferred[l].packet)

LEMMA PcrGoesOut ==
  ASSUME NEW g, NEW n, NEW e \in Emitters, NonePcr(e),
         Takes(g, n) /\ HasPcr(TakenAt(g, n)) => e.deferred = <<>>
  PROVE  /\ NonePcr(AfterSlot(g, e, n, FALSE, TRUE))
         /\ LET c == Carried(g, e, n, FALSE)
            IN  c.kind = "content" /\ c.pcr # None =>
                  /\ Takes(g, n) /\ HasPcr(TakenAt(g, n)) /\ c.id = TakenAt(g, n).id
                  /\ c.pcr = PcrOn(n, TakeGrid(g, n).takenBase)
<1> DEFINE queue == QueueAt(g, e, n)
           a == [packet |-> TakenAt(g, n), offset |-> TakeGrid(g, n).takenBase,
                 starts |-> StartsBase(g, n)]
           h == AfterSlot(g, e, n, FALSE, TRUE)
           c == Carried(g, e, n, FALSE)
<1>1. e.deferred \in Seq(Admissions) /\ Len(e.deferred) \in Nat /\ e \in Emitters
  BY LenProperties DEF Emitters
<1>2. CASE Takes(g, n) /\ HasPcr(TakenAt(g, n))
  <2>1. queue = <<a>>
    <3>1. e.deferred = <<>> /\ Admitted(g, n) = <<a>>
      BY <1>2 DEF Admitted
    <3> HIDE DEF a
    <3>2. <<>> \o <<a>> = <<a>>
      OBVIOUS
    <3>3. QED
      BY <3>1, <3>2 DEF QueueAt
  <2>2. Head(queue) = a /\ Tail(queue) = <<>> /\ queue # <<>>
    BY <2>1
  <2>3. HasPcr(a.packet) /\ a.packet = TakenAt(g, n) /\ a.offset = TakeGrid(g, n).takenBase
    BY <1>2
  <2> HIDE DEF a
  <2>4. ~Reinserts(g, e, n, FALSE)
    BY <2>2, <2>3 DEF Reinserts
  <2>5. h.deferred = <<>>
    BY <2>2, <2>3, <2>4 DEF AfterSlot
  <2>6. c.id = a.packet.id /\ c.pcr = PcrOn(n, a.offset)
    BY <2>2, <2>3, <2>4 DEF Carried
  <2>7. Len(<<>>) = 0
    OBVIOUS
  <2> HIDE DEF h, c
  <2>8. QED
    BY <1>2, <2>3, <2>5, <2>6, <2>7 DEF NonePcr, h, c
<1>3. CASE ~(Takes(g, n) /\ HasPcr(TakenAt(g, n)))
  <2>1. /\ Len(queue) \in Nat /\ \A l \in 1 .. Len(queue) : ~HasPcr(queue[l].packet)
        /\ \E S : queue \in Seq(S)
    <3>1. CASE ~Takes(g, n)
      <4>1. queue = e.deferred
        BY <1>1, <3>1 DEF QueueAt, Admitted
      <4>2. QED
        BY <1>1, <4>1 DEF NonePcr
    <3>2. CASE Takes(g, n)
      <4>1. queue = e.deferred \o <<a>>
        BY <3>2 DEF QueueAt, Admitted
      <4>2. ~HasPcr(a.packet)
        BY <1>3, <3>2
      <4> DEFINE S == Admissions \cup {a}
      <4> HIDE DEF a
      <4>3. queue = Append(e.deferred, a) /\ e.deferred \in Seq(S) /\ a \in S
        BY <1>1, <4>1
      <4> HIDE DEF S, queue
      <4>4. /\ Len(queue) = Len(e.deferred) + 1 /\ queue \in Seq(S)
            /\ \A l \in 1 .. Len(e.deferred) : queue[l] = e.deferred[l]
            /\ queue[Len(e.deferred) + 1] = a
        BY <4>3, AppendProperties
      <4>5. \A l \in 1 .. Len(queue) : l \in 1 .. Len(e.deferred) \/ l = Len(e.deferred) + 1
        BY <1>1, <4>4
      <4>6. QED
        BY <1>1, <4>2, <4>4, <4>5 DEF NonePcr
    <3>3. QED
      BY <3>1, <3>2
  <2>2. PICK S : queue \in Seq(S)
    BY <2>1
  <2>3. queue # <<>> =>
          /\ ~HasPcr(Head(queue).packet)
          /\ \A l \in 1 .. Len(Tail(queue)) : ~HasPcr(Tail(queue)[l].packet)
    <3> HIDE DEF queue
    <3> SUFFICES ASSUME queue # <<>>
                 PROVE  /\ ~HasPcr(Head(queue).packet)
                        /\ \A l \in 1 .. Len(Tail(queue)) : ~HasPcr(Tail(queue)[l].packet)
      OBVIOUS
    <3>1. Len(queue) >= 1 /\ Head(queue) = queue[1]
      BY <2>1, <2>2, EmptySeq
    <3>2. Len(Tail(queue)) = Len(queue) - 1 /\ \A l \in 1 .. Len(Tail(queue)) : Tail(queue)[l] = queue[l + 1]
      BY <2>2, HeadTailProperties
    <3>3. 1 \in 1 .. Len(queue) /\ \A l \in 1 .. Len(Tail(queue)) : l + 1 \in 1 .. Len(queue)
      BY <2>1, <3>1, <3>2
    <3>4. QED
      BY <2>1, <3>1, <3>2, <3>3
  <2>4. h.deferred = queue \/ h.deferred = e.deferred \/ (queue # <<>> /\ h.deferred = Tail(queue))
    <3>1. CASE Reinserts(g, e, n, FALSE)
      <4>1. h = [e EXCEPT !.deferred = queue, !.last = n]
        BY <3>1 DEF AfterSlot
      <4> HIDE DEF h, queue
      <4>2. h.deferred = queue
        BY <1>1, <4>1 DEF Emitters
      <4>3. QED
        BY <4>2
    <3>2. CASE ~Reinserts(g, e, n, FALSE) /\ queue = <<>>
      <4>1. h = e
        BY <3>2 DEF AfterSlot
      <4>2. QED
        BY <4>1
    <3>3. CASE ~Reinserts(g, e, n, FALSE) /\ queue # <<>>
      <4>1. h = [e EXCEPT !.deferred = Tail(queue)]
        BY <2>3, <3>3 DEF AfterSlot
      <4> HIDE DEF h, queue
      <4>2. h.deferred = Tail(queue)
        BY <1>1, <4>1 DEF Emitters
      <4>3. QED
        BY <3>3, <4>2
    <3>4. QED
      BY <3>1, <3>2, <3>3
  <2>5. NonePcr(h)
    <3> HIDE DEF h, queue
    <3>1. QED
      BY <2>1, <2>3, <2>4 DEF NonePcr
  <2>6. ~(c.kind = "content" /\ c.pcr # None)
    <3>1. CASE Reinserts(g, e, n, FALSE)
      BY <3>1 DEF Carried
    <3>2. CASE ~Reinserts(g, e, n, FALSE) /\ queue = <<>>
      BY <3>2 DEF Carried
    <3>3. CASE ~Reinserts(g, e, n, FALSE) /\ queue # <<>>
      BY <2>3, <3>3 DEF Carried
    <3>4. QED
      BY <3>1, <3>2, <3>3
  <2>7. QED
    BY <2>5, <2>6
<1>4. QED
  BY <1>2, <1>3

LEMMA PartnerDefersNone ==
  ASSUME NEW f, Stamped(f), RunsOn(f), Settles(f)
  PROVE  \A n \in DOMAIN PartnerSends(f) : NonePcr(PartnerSlots(f)[n - 1].emitter)
<1> DEFINE whole == PartnerGrid(f)
           R == PartnerSlots(f)
           first == whole.knownFrom
           last == whole.open.slot
           size == last - first
           T == {k \in 0 .. size : NonePcr(R[first - 1 + k].emitter)}
<1>1. /\ first \in Int /\ last \in Int
      /\ \A n \in first - 1 .. last - 1 : R[n].emitter \in Emitters
      /\ \A n \in first .. last - 1 : R[n] = SlotAfter(R[n - 1], n)
  BY PartnerHolds
<1>2. DOMAIN PartnerSends(f) = first .. last - 1
  BY DEF PartnerSends
<1>3. ASSUME NEW n \in first .. last - 1
      PROVE  Takes(R[n - 1].grid, n) /\ HasPcr(TakenAt(R[n - 1].grid, n)) => R[n - 1].emitter.deferred = <<>>
  BY <1>2 DEF Settles
<1>4. R[first - 1] = OnAir(whole) \/ last < first
  <2>1. CASE first <= last
    BY <1>1, <2>1, SlotsAre
  <2>2. QED
    BY <1>1, <2>1
<1> HIDE DEF whole, R, first, last
<1>5. CASE last < first
  <2>1. first .. last - 1 = {}
    BY <1>1, <1>5
  <2>2. QED
    BY <1>2, <2>1 DEF R
<1>6. CASE first <= last
  <2>1. size \in Nat /\ R[first - 1] = OnAir(whole) /\ first - 1 + 0 = first - 1
    BY <1>1, <1>4, <1>6
  <2>2. 0 \in T
    <3>1. R[first - 1].emitter.deferred = <<>> /\ Len(<<>>) = 0
      BY <2>1 DEF OnAir, NewEmitter
    <3>2. NonePcr(R[first - 1].emitter)
      BY <3>1 DEF NonePcr
    <3>3. QED
      BY <2>1, <3>2
  <2>3. ASSUME NEW k \in 1 .. size, k - 1 \in T PROVE k \in T
    <3> DEFINE n == first - 1 + k
    <3>1. /\ n \in first .. last - 1 /\ n - 1 \in first - 1 .. last - 1
          /\ n - 1 = first - 1 + (k - 1) /\ k \in 0 .. size
      BY <1>1, <2>1 DEF size
    <3>2. NonePcr(R[n - 1].emitter) /\ R[n - 1].emitter \in Emitters
      BY <1>1, <2>3, <3>1
    <3> HIDE DEF n
    <3>3. R[n].emitter = AfterSlot(R[n - 1].grid, R[n - 1].emitter, n, FALSE, TRUE)
      <4>1. R[n] = SlotAfter(R[n - 1], n)
        BY <1>1, <3>1
      <4>2. QED
        BY <4>1 DEF SlotAfter
    <3>4. NonePcr(R[n].emitter)
      BY <1>3, <3>1, <3>2, <3>3, PcrGoesOut
    <3>5. QED
      BY <3>1, <3>4 DEF n
  <2>4. \A k \in 0 .. size : k \in T
    <3> HIDE DEF T, size
    <3>1. QED
      BY <2>1, <2>2, <2>3, Upwards
  <2>5. ASSUME NEW n \in first .. last - 1 PROVE NonePcr(R[n - 1].emitter)
    <3>1. n - first \in 0 .. size /\ first - 1 + (n - first) = n - 1
      BY <1>1 DEF size
    <3>2. QED
      BY <2>4, <3>1
  <2>6. QED
    BY <1>2, <2>5 DEF R
<1>7. QED
  BY <1>1, <1>5, <1>6

(* A PCR of the source leaves the partner in the slot of its value.          *)
LEMMA PartnerFollows ==
  ASSUME NEW f, Stamped(f), RunsOn(f), Settles(f), Fits(f), NEW n \in DOMAIN PartnerSends(f),
         PartnerSends(f)[n].kind = "content", PartnerSends(f)[n].pcr # None
  PROVE  LET i == PartnerSends(f)[n].id
         IN  /\ i \in 1 .. Len(f) /\ HasPcr(f[i]) /\ n = PartnerGrids(f)[i].open.slot
             /\ PartnerSends(f)[n].pcr = PcrOn(n, 0)
<1> DEFINE whole == PartnerGrid(f)
           before == PartnerSlots(f)[n - 1]
           g == before.grid
           e == before.emitter
           c == PartnerSends(f)[n]
           p == TakenAt(g, n)
<1>1. whole.knownFrom \in Int /\ whole.open.slot \in Int
  BY PartnerHolds
<1>2. n \in whole.knownFrom .. whole.open.slot - 1 /\ c = Carried(g, e, n, FALSE)
  BY DEF PartnerSends
<1>3. n \in Int /\ n - 1 \in whole.knownFrom - 1 .. whole.open.slot - 1
  BY <1>1, <1>2
<1>4. Holds(g, whole, n - 1) /\ e \in Emitters
  BY <1>3, PartnerHolds
<1>5. NonePcr(e)
  BY PartnerDefersNone
<1>6. Takes(g, n) /\ HasPcr(p) => e.deferred = <<>>
  BY DEF Settles
<1> HIDE DEF whole, before, g, e, c, p
<1>7. Takes(g, n) /\ HasPcr(p) /\ c.id = p.id /\ c.pcr = PcrOn(n, TakeGrid(g, n).takenBase)
  BY <1>2, <1>4, <1>5, <1>6, PcrGoesOut DEF p, c
<1>8. GridInv(g) /\ Unspliced(g)
  BY <1>4 DEF Holds
<1>9. TakeGrid(g, n).takenBase = 0
  BY <1>3, <1>8, TakesMembers DEF Unspliced
<1>10. PICK x \in Members(g.placed) : x.slot = n /\ x.packet = p
  BY <1>3, <1>7, <1>8, TakesMembers DEF p
<1>11. x \in Members(whole.placed)
  <2>1. x \in Places /\ x.slot > n - 1
    BY <1>3, <1>8, <1>10, MembersType
  <2>2. QED
    BY <1>4, <1>10, <2>1 DEF Holds
<1>12. Sourced(f, x)
  BY <1>11, SourcedAlways DEF whole
<1>13. QED
  BY <1>7, <1>9, <1>10, <1>12 DEF Sourced, c

LEMMA DivNat == ASSUME NEW m \in Nat, NEW c \in Nat \ {0} PROVE m \div c \in Nat
  OBVIOUS

(* The PCR of a slot read off a PCR's value: no more than two slots before it, *)
(* one where the wrap was counted in whole slots.                            *)
LEMMA SlotFollows ==
  ASSUME NEW p \in Nat, p < PcrWrap, NEW epoch \in {0, SlotsPerWrap},
         NEW n, n = Greatest(SlotOfPcr(p) + epoch, 0)
  PROVE  \/ ForwardDelta(p, PcrOn(n, 0)) <= TicksOf(2) + 1
         \/ ForwardDelta(PcrOn(n, 0), p) <= TicksOf(2) + 1
<1> DEFINE P == PacketTicks
           M == MuxRate
           W == PcrWrap
           a == SlotOfPcr(p)
           b == SlotsPerWrap
           q == TicksOf(n)
           t == TicksOf(2)
           s == IF epoch = 0 THEN p ELSE p + W
<1>1. P \in Nat \ {0} /\ M \in Nat \ {0} /\ W \in Nat \ {0}
  BY LegNumbers
<1>2. p * M \in Nat /\ W * M \in Nat
  BY <1>1
<1>3. a \in Nat /\ p * M - a * P \in 0 .. P - 1 /\ a * P \in Nat
  <2>1. a \in Int /\ p * M - a * P \in 0 .. P - 1
    BY <1>1, <1>2, Remainder DEF SlotOfPcr
  <2>2. a >= 0
    BY <1>1, <1>2, DivNat DEF SlotOfPcr
  <2> HIDE DEF a
  <2>3. QED
    BY <1>1, <2>1, <2>2
<1>4. b \in Nat /\ W * M - b * P \in 0 .. P - 1 /\ b * P \in Nat
  <2>1. b \in Int /\ W * M - b * P \in 0 .. P - 1
    BY <1>1, <1>2, Remainder DEF SlotsPerWrap, SlotOfPcr
  <2>2. b >= 0
    BY <1>1, <1>2, DivNat DEF SlotsPerWrap, SlotOfPcr
  <2> HIDE DEF b
  <2>3. QED
    BY <1>1, <2>1, <2>2
<1>5. n = a + epoch /\ n \in Nat
  <2>1. epoch \in Nat /\ n = Greatest(a + epoch, 0)
    BY <1>4
  <2> HIDE DEF a, b
  <2>2. QED
    BY <1>3, <2>1 DEF Greatest
<1>6. q \in Int /\ n * P \in Int /\ q * M \in Int /\ n * P - q * M \in 0 .. M - 1
  BY <1>5, TicksWithin
<1>7. t \in Int /\ 2 * P \in Int /\ t * M \in Int /\ 2 * P - t * M \in 0 .. M - 1
  BY TicksWithin
<1>8. q >= 0 /\ t >= 0
  <2>1. n * P \in Nat /\ 2 * P \in Nat
    BY <1>1, <1>5
  <2>2. QED
    BY <1>1, <2>1, DivNat DEF TicksOf
<1>9. s \in Nat /\ s * M - n * P \in 0 .. 2 * P - 2 /\ s * M \in Nat
  <2>1. CASE epoch = 0
    <3>1. n = a /\ s = p
      BY <1>3, <1>5, <2>1
    <3> HIDE DEF a, s
    <3>2. QED
      BY <1>1, <1>2, <1>3, <3>1
  <2>2. CASE epoch # 0
    <3>1. n = a + b /\ s = p + W
      BY <1>5, <2>2
    <3> HIDE DEF a, b, s
    <3>2. n * P = a * P + b * P /\ s * M = p * M + W * M
      BY <1>1, <1>3, <1>4, <3>1
    <3>3. QED
      BY <1>1, <1>2, <1>3, <1>4, <3>1, <3>2
  <2>3. QED
    BY <2>1, <2>2
<1>10. s = p \/ s = p + W
  OBVIOUS
<1>11. PcrOn(n, 0) = q % W
  <2>1. n - 0 = n /\ n >= 0
    BY <1>5
  <2> HIDE DEF W, q
  <2>2. Greatest(n - 0, 0) = n
    BY <2>1 DEF Greatest
  <2>3. QED
    BY <2>2 DEF PcrOn, PcrOfSlot, W, q
<1> HIDE DEF P, M, W, a, b, q, t, s
<1>12. s - q \in 0 .. t + 1
  <2>1. (s - q) * M = s * M - q * M /\ (t + 2) * M = t * M + 2 * M
    BY <1>1, <1>6, <1>7, <1>9
  <2>2. s * M - q * M >= 0 /\ s * M - q * M < t * M + 2 * M
    BY <1>1, <1>6, <1>7, <1>9
  <2> DEFINE d == s - q
             u == t + 2
  <2>3. d \in Int /\ u \in Int /\ d * M >= 0 /\ d * M < u * M
    BY <1>6, <1>7, <1>9, <2>1, <2>2
  <2> HIDE DEF d, u
  <2>4. d >= 0
    <3>1. d <= -1 => d * M <= (-1) * M
      BY <1>1, <2>3
    <3>2. QED
      BY <1>1, <2>3, <3>1
  <2>5. d < u
    <3>1. d >= u => d * M >= u * M
      BY <1>1, <2>3
    <3>2. d * M \in Int /\ u * M \in Int
      BY <1>1, <2>3
    <3>3. QED
      BY <2>3, <3>1, <3>2
  <2>6. QED
    BY <1>7, <2>3, <2>4, <2>5 DEF d, u
<1>13. q % W = q \/ (q >= W /\ q % W = q - W)
  <2>1. CASE q < W
    BY <1>1, <1>6, <1>8, <2>1
  <2>2. CASE q >= W
    <3>1. q - W \in 0 .. W - 1
      BY <1>1, <1>6, <1>9, <1>10, <1>12, <2>2 DEF W
    <3>2. q % W = q - W
      BY <1>1, <1>6, <3>1
    <3>3. QED
      BY <2>2, <3>2
  <2>3. QED
    BY <1>1, <1>6, <2>1, <2>2
<1>14. ForwardDelta(q % W, p) <= t + 1
  <2>1. ForwardDelta(q % W, p) = IF p >= q % W THEN p - (q % W) ELSE W - (q % W) + p
    BY DEF ForwardDelta, W
  <2>2. p < W
    BY DEF W
  <2>3. CASE q % W = q
    BY <1>1, <1>6, <1>7, <1>8, <1>9, <1>10, <1>12, <2>1, <2>2, <2>3
  <2>4. CASE q >= W /\ q % W = q - W
    BY <1>1, <1>6, <1>7, <1>8, <1>9, <1>10, <1>12, <2>1, <2>2, <2>4
  <2>5. QED
    BY <1>13, <2>3, <2>4
<1>15. QED
  BY <1>11, <1>14 DEF t

(* A PCR of the source leaves a leg on the source's own time base: on a feed *)
(* that LegsAgree covers and whose runs fit their intervals, before its      *)
(* clock wraps twice.                                                        *)
THEOREM PcrsFollowSource ==
  Spec /\ NothingShed =>
    [](Covered(Sending) /\ Fits(Sending) /\ WrapsOnce(Sending) => PcrFollowsSource)
<1>1. LegType /\ PartnerInv => (Covered(Sending) /\ Fits(Sending) /\ WrapsOnce(Sending) => PcrFollowsSource)
  <2> SUFFICES ASSUME LegType, PartnerInv, NEW f, Sending = f, Covered(f), Fits(f), WrapsOnce(f),
                      wire # None, wire.packet.kind = "content", wire.packet.pcr # None
               PROVE  LET stamp == f[wire.packet.id].pcr
                      IN  \/ ForwardDelta(stamp, wire.packet.pcr) <= TicksOf(2) + 1
                          \/ ForwardDelta(wire.packet.pcr, stamp) <= TicksOf(2) + 1
    BY DEF PcrFollowsSource
  <2> DEFINE n == wire.slot
             i == wire.packet.id
             w == PartnerGrids(f)[i]
  <2>1. Stamped(f) /\ RunsOn(f) /\ Settles(f)
    BY FeedsStamped DEF Covered
  <2>2. n \in DOMAIN PartnerSends(f) /\ wire.packet = PartnerSends(f)[n]
    BY DEF PartnerInv, Agrees, Matches
  <2>3. i \in 1 .. Len(f) /\ HasPcr(f[i]) /\ n = w.open.slot /\ wire.packet.pcr = PcrOn(n, 0)
    BY <2>1, <2>2, PartnerFollows
  <2>4. w.open.slot = Greatest(SlotOfPcr(f[i].pcr) + w.epoch, 0) /\ w.epoch \in {0, SlotsPerWrap}
    BY <2>1, <2>3, PartnerOpens DEF WrapsOnce
  <2>5. f[i].pcr \in Nat /\ f[i].pcr < PcrWrap
    BY <2>1, <2>3, PacketTypes DEF Packets, HasPcr
  <2> HIDE DEF n, i, w
  <2>6. n = Greatest(SlotOfPcr(f[i].pcr) + w.epoch, 0)
    BY <2>3, <2>4
  <2>7. \/ ForwardDelta(f[i].pcr, PcrOn(n, 0)) <= TicksOf(2) + 1
        \/ ForwardDelta(PcrOn(n, 0), f[i].pcr) <= TicksOf(2) + 1
    BY <2>4, <2>5, <2>6, SlotFollows
  <2>8. QED
    BY <2>3, <2>7 DEF i
<1>2. QED
  BY <1>1, PartnerAlways, PTL
=============================================================================
