--------------------------- MODULE StreamLeg_proof ---------------------------
(***************************************************************************)
(* Theorems about one leg under stream clocking, for every feed, every way *)
(* the path delays and loses it, and every value of the constants.         *)
(***************************************************************************)
EXTENDS StreamLeg, SequenceTheorems, FiniteSetTheorems, TLAPS

(* What is known of an open run. *)
Openings == [pcr : Nat, slot : Int, at : Int]

(* The constants are numbers. *)
LEMMA LegNumbers ==
  /\ PacketTicks \in Nat \ {0} /\ MuxRate \in Nat \ {0} /\ PcrWrap \in Nat \ {0}
  /\ None \notin Int /\ GapTicks \in Nat
  /\ None \notin Openings
  /\ CcModulo \in Nat \ {0, 1} /\ RecentSpans \in Nat \ {0}
  /\ PacketsPerDatagram \in Nat \ {0}
  /\ Latency \in Nat /\ MaxLatency \in Nat
  BY SlotMapAssumption, PcrRegenAssumption, StreamGridAssumption, StreamLegAssumption
  DEF SlotMapAssumption, PcrRegenAssumption, StreamGridAssumption, StreamLegAssumption, Openings
-----------------------------------------------------------------------------
(* Rounded division. *)
LEMMA DivInt == ASSUME NEW m \in Int, NEW c \in Nat \ {0} PROVE m \div c \in Int
  OBVIOUS

LEMMA DivRises ==
  ASSUME NEW m \in Int, NEW n \in Int, NEW c \in Nat \ {0}, n >= m + c
  PROVE  n \div c >= (m \div c) + 1
  OBVIOUS

LEMMA DivOrder ==
  ASSUME NEW m \in Int, NEW n \in Int, NEW c \in Nat \ {0}, n >= m
  PROVE  n \div c >= m \div c
  OBVIOUS

LEMMA DivTimes == ASSUME NEW k \in Int, NEW c \in Nat \ {0} PROVE (k * c) \div c = k
  OBVIOUS

(* A slot is a number, and so is a duration. *)
LEMMA SlotsAreNumbers ==
  /\ \A x \in Int : Aligned(x) \in Int
  /\ \A x \in Int : LatencyToPackets(x) \in Int
  /\ \A x \in Int : TicksOf(x) \in Int
  /\ \A x \in Int : SlotOfPcr(x) \in Int
  BY LegNumbers DEF Aligned, LatencyToPackets, TicksOf, SlotOfPcr
-----------------------------------------------------------------------------
(* What a grid is made of. *)
Places == [slot : Int, packet : Packets]
Bases  == [slot : Int, offset : Int]
Counters == [cc : 0 .. CcModulo - 1, repeated : BOOLEAN]
Grids ==
  [knownFrom : Int \cup {None}, spans : Seq(Int), cut : Nat, shed : Nat,
   continuity : [Pids -> Counters \cup {None}], broken : BOOLEAN,
   run : Seq(Packets), open : Openings \cup {None}, placed : Seq(Places),
   epoch : Int, rebased : Int, openBase : Int, placedBase : Int, takenBase : Int,
   bases : Seq(Bases), nextFree : Int, displaced : Int]

Rising(s) == \A i, j \in 1 .. Len(s) : i < j => s[i].slot < s[j].slot
Below(s, slot) == \A i \in 1 .. Len(s) : s[i].slot < slot
From(s, slot)  == \A i \in 1 .. Len(s) : s[i].slot >= slot
Changing(s) == \A i \in 2 .. Len(s) : s[i - 1].offset # s[i].offset

PlacedInOrder(g) == Rising(g.placed) /\ Below(g.placed, g.nextFree)

(* The last change of time base is the one the last placed packet is on. *)
BasesInOrder(g) ==
  /\ Rising(g.bases) /\ Below(g.bases, g.nextFree) /\ Changing(g.bases)
  /\ g.bases # <<>> => LastOf(g.bases).offset = g.placedBase

(* What every grid the leg can be in satisfies. *)
GridInv(g) ==
  /\ g \in Grids
  /\ g.open = None => g.run = <<>>
  /\ PlacedInOrder(g)
  /\ BasesInOrder(g)

(* The packets a grid received and has not handed out. *)
Held(g) == g.cut + g.shed + Len(g.run) + Len(g.placed)

LEMMA HeldIsCounted == ASSUME NEW g, GridInv(g) PROVE Held(g) \in Nat
<1>1. Len(g.run) \in Nat /\ Len(g.placed) \in Nat /\ g.cut \in Nat /\ g.shed \in Nat
  BY LenProperties DEF GridInv, Grids
<1>2. \A a, b, c, d \in Nat : a + b + c + d \in Nat
  OBVIOUS
<1>3. QED
  BY <1>1, <1>2 DEF Held

(* Slots in order stay so when the first few are dropped. *)
LEMMA DropKeeps ==
  ASSUME NEW S, \A e \in S : e.slot \in Int, NEW s \in Seq(S), NEW n \in 0 .. Len(s)
  PROVE  LET t == SubSeq(s, n + 1, Len(s))
         IN  /\ t \in Seq(S) /\ Len(t) = Len(s) - n
             /\ \A i \in 1 .. Len(t) : t[i] = s[n + i]
             /\ Rising(s) => Rising(t)
             /\ \A b : Below(s, b) => Below(t, b)
<1> DEFINE t == SubSeq(s, n + 1, Len(s))
<1>1. \A i \in n + 1 .. Len(s) : s[i] \in S
  BY ElementOfSeq
<1>2. /\ t \in Seq(S) /\ Len(t) = Len(s) - n
      /\ \A i \in 1 .. Len(t) : t[i] = s[n + i]
  <2>1. Len(s) \in Nat
    BY LenProperties
  <2>2. /\ t \in Seq(S) /\ Len(t) = IF n + 1 <= Len(s) THEN Len(s) - (n + 1) + 1 ELSE 0
        /\ \A i \in 1 .. Len(s) - (n + 1) + 1 : t[i] = s[n + 1 + i - 1]
    BY <1>1, <2>1, SubSeqProperties
  <2>3. QED
    BY <2>1, <2>2
<1> HIDE DEF t
<1>3. ASSUME Rising(s), NEW i \in 1 .. Len(t), NEW j \in 1 .. Len(t), i < j
      PROVE  t[i].slot < t[j].slot
  <2>1. n + i \in 1 .. Len(s) /\ n + j \in 1 .. Len(s) /\ n + i < n + j
    BY <1>2, <1>3, LenProperties
  <2>2. s[n + i].slot < s[n + j].slot
    BY <1>3, <2>1 DEF Rising
  <2>3. QED
    BY <1>2, <2>2
<1>4. ASSUME NEW b, Below(s, b) PROVE Below(t, b)
  BY <1>2, <1>4, LenProperties DEF Below
<1>5. Rising(s) => Rising(t)
  BY <1>3 DEF Rising
<1>6. QED
  BY <1>2, <1>4, <1>5 DEF t

(* Slots in order, behind slots in order, are in order. *)
LEMMA ConcatKeeps ==
  ASSUME NEW S, \A e \in S : e.slot \in Int, NEW s \in Seq(S), NEW t \in Seq(S),
         NEW b \in Int, NEW c \in Int, b <= c,
         Rising(s), Below(s, b), Rising(t), From(t, b), Below(t, c)
  PROVE  s \o t \in Seq(S) /\ Rising(s \o t) /\ Below(s \o t, c)
<1> DEFINE all == s \o t
<1>1. /\ all \in Seq(S) /\ Len(all) = Len(s) + Len(t)
      /\ \A i \in 1 .. Len(s) + Len(t) :
           all[i] = IF i <= Len(s) THEN s[i] ELSE t[i - Len(s)]
  BY ConcatProperties, LenProperties
<1>2. /\ \A i \in 1 .. Len(s) : s[i].slot \in Int
      /\ \A i \in 1 .. Len(t) : t[i].slot \in Int
      /\ Len(s) \in Nat /\ Len(t) \in Nat
  BY ElementOfSeq, LenProperties
<1> HIDE DEF all
<1>3. Below(all, c)
  <2> SUFFICES ASSUME NEW i \in 1 .. Len(s) + Len(t) PROVE all[i].slot < c
    BY <1>1 DEF Below
  <2>1. CASE i <= Len(s)
    <3>1. i \in 1 .. Len(s) /\ all[i] = s[i]
      BY <1>1, <1>2, <2>1
    <3>2. s[i].slot < b /\ s[i].slot \in Int
      BY <1>2, <3>1 DEF Below
    <3>3. QED
      BY <3>1, <3>2
  <2>2. CASE ~(i <= Len(s))
    <3>1. i - Len(s) \in 1 .. Len(t) /\ all[i] = t[i - Len(s)]
      BY <1>1, <1>2, <2>2
    <3>2. QED
      BY <3>1 DEF Below
  <2>3. QED
    BY <2>1, <2>2
<1>4. ASSUME NEW i \in 1 .. Len(all), NEW j \in 1 .. Len(all), i < j
      PROVE  all[i].slot < all[j].slot
  <2>1. CASE j <= Len(s)
    BY <1>1, <1>2, <1>4, <2>1 DEF Rising
  <2>2. CASE i > Len(s)
    <3>1. /\ i - Len(s) \in 1 .. Len(t) /\ j - Len(s) \in 1 .. Len(t)
          /\ i - Len(s) < j - Len(s)
      BY <1>1, <1>2, <1>4, <2>2
    <3>2. all[i] = t[i - Len(s)] /\ all[j] = t[j - Len(s)]
      BY <1>1, <1>2, <1>4, <2>2
    <3>3. QED
      BY <3>1, <3>2 DEF Rising
  <2>3. CASE i <= Len(s) /\ j > Len(s)
    <3>1. i \in 1 .. Len(s) /\ j - Len(s) \in 1 .. Len(t)
      BY <1>1, <1>2, <1>4, <2>3
    <3>2. all[i] = s[i] /\ all[j] = t[j - Len(s)]
      BY <1>1, <1>2, <1>4, <2>3
    <3>3. s[i].slot < b /\ t[j - Len(s)].slot >= b
      BY <3>1 DEF Below, From
    <3>4. QED
      BY <1>2, <3>1, <3>2, <3>3
  <2>4. QED
    BY <1>1, <1>2, <1>4, <2>1, <2>2, <2>3
<1>5. Rising(all)
  BY <1>4 DEF Rising
<1>6. QED
  BY <1>1, <1>3, <1>5 DEF all
-----------------------------------------------------------------------------
(* A slot passes no more than there is. *)
LEMMA CountedWithin ==
  ASSUME NEW n \in Nat, NEW T \in SUBSET (1 .. n)
  PROVE  Cardinality(T) \in 0 .. n
<1>1. IsFiniteSet(1 .. n) /\ Cardinality(1 .. n) = n
  BY FS_Interval
<1>2. IsFiniteSet(T) /\ Cardinality(T) <= n
  BY <1>1, FS_Subset
<1>3. QED
  BY <1>2, FS_CardinalityType

LEMMA TakeKeeps ==
  ASSUME NEW g, GridInv(g), NEW slot
  PROVE  /\ GridInv(TakeGrid(g, slot))
         /\ PassedAt(g, slot) \in 0 .. Len(g.placed)
         /\ Held(TakeGrid(g, slot)) = Held(g) - PassedAt(g, slot)
         /\ TakeGrid(g, slot).takenBase \in Int
<1> DEFINE n == PassedAt(g, slot)
           u == BasesUsed(g, slot)
           placed == SubSeq(g.placed, n + 1, Len(g.placed))
           bases  == SubSeq(g.bases, u + 1, Len(g.bases))
           h == TakeGrid(g, slot)
<1>1. g \in Grids /\ g.placed \in Seq(Places) /\ g.bases \in Seq(Bases) /\ g.run \in Seq(Packets)
  BY DEF GridInv, Grids
<1>2. Len(g.placed) \in Nat /\ Len(g.bases) \in Nat /\ Len(g.run) \in Nat
  BY <1>1, LenProperties
<1>3. n \in 0 .. Len(g.placed)
  BY <1>2, CountedWithin DEF PassedAt
<1>4. u \in 0 .. Len(g.bases)
  BY <1>2, CountedWithin DEF BasesUsed
<1>5. /\ placed \in Seq(Places) /\ Len(placed) = Len(g.placed) - n
      /\ Rising(g.placed) => Rising(placed)
      /\ Below(g.placed, g.nextFree) => Below(placed, g.nextFree)
  <2>1. \A e \in Places : e.slot \in Int
    BY DEF Places
  <2> HIDE DEF n
  <2>2. QED
    BY <1>1, <1>3, <2>1, DropKeeps
<1>6. /\ bases \in Seq(Bases) /\ Len(bases) = Len(g.bases) - u
      /\ \A i \in 1 .. Len(bases) : bases[i] = g.bases[u + i]
      /\ Rising(g.bases) => Rising(bases)
      /\ Below(g.bases, g.nextFree) => Below(bases, g.nextFree)
  <2>1. \A e \in Bases : e.slot \in Int
    BY DEF Bases
  <2> HIDE DEF u
  <2>2. QED
    BY <1>1, <1>4, <2>1, DropKeeps
<1>7. u # 0 => g.bases[u] \in Bases
  BY <1>1, <1>2, <1>4, ElementOfSeq
<1>8. h = [g EXCEPT !.placed = placed, !.bases = bases,
                    !.takenBase = IF u = 0 THEN g.takenBase ELSE g.bases[u].offset]
  BY DEF TakeGrid
<1> HIDE DEF n, u, placed, bases, h
<1>9. /\ h \in Grids /\ h.placed = placed /\ h.bases = bases /\ h.takenBase \in Int
      /\ h.open = g.open /\ h.run = g.run /\ h.nextFree = g.nextFree
      /\ h.placedBase = g.placedBase /\ h.cut = g.cut /\ h.shed = g.shed
  BY <1>1, <1>5, <1>6, <1>7, <1>8 DEF Grids, Bases
<1>10. PlacedInOrder(h)
  BY <1>5, <1>9 DEF GridInv, PlacedInOrder
<1>11. BasesInOrder(h)
  <2>1. Changing(g.bases) => Changing(bases)
    <3> SUFFICES ASSUME Changing(g.bases), NEW i \in 2 .. Len(bases)
                 PROVE  bases[i - 1].offset # bases[i].offset
      BY DEF Changing
    <3>1. i \in 1 .. Len(bases) /\ i - 1 \in 1 .. Len(bases) /\ u + i \in 2 .. Len(g.bases)
      BY <1>2, <1>4, <1>6
    <3>2. bases[i] = g.bases[u + i] /\ bases[i - 1] = g.bases[u + (i - 1)]
      BY <1>6, <3>1
    <3>3. u + (i - 1) = (u + i) - 1
      BY <1>4, <3>1
    <3>4. QED
      BY <3>1, <3>2, <3>3 DEF Changing
  <2>2. bases # <<>> => g.bases # <<>> /\ LastOf(bases) = LastOf(g.bases)
    <3>1. bases # <<>> => Len(bases) \in Nat \ {0}
      BY <1>6, EmptySeq
    <3>2. bases # <<>> => g.bases # <<>>
      BY <1>2, <1>4, <1>6, <3>1, EmptySeq
    <3>3. bases # <<>> => bases[Len(bases)] = g.bases[Len(g.bases)]
      BY <1>2, <1>4, <1>6, <3>1
    <3>4. QED
      BY <3>2, <3>3 DEF LastOf
  <2>3. QED
    BY <1>6, <1>9, <2>1, <2>2 DEF GridInv, BasesInOrder
<1>12. GridInv(h)
  BY <1>9, <1>10, <1>11 DEF GridInv
<1>13. Held(h) = Held(g) - n
  <2>1. g.cut \in Nat /\ g.shed \in Nat
    BY <1>1 DEF Grids
  <2>2. QED
    BY <1>2, <1>3, <1>5, <1>9, <2>1 DEF Held
<1>14. QED
  BY <1>3, <1>9, <1>12, <1>13 DEF n, h

(* The source ends: what flush discards is counted. *)
LEMMA FlushKeeps ==
  ASSUME NEW g, GridInv(g)
  PROVE  GridInv(FlushGrid(g)) /\ Held(FlushGrid(g)) = Held(g)
<1>1. g \in Grids /\ Len(g.run) \in Nat /\ Len(g.placed) \in Nat /\ g.cut \in Nat /\ g.shed \in Nat
  BY LenProperties DEF GridInv, Grids
<1>2. <<>> \in Seq(Packets) /\ Len(<<>>) = 0
  OBVIOUS
<1> DEFINE h == FlushGrid(g)
           n == g.cut + Len(g.run)
<1>3. h = [g EXCEPT !.cut = n, !.run = <<>>] /\ n \in Nat
  BY <1>1 DEF FlushGrid
<1>4. n = g.cut + Len(g.run)
  OBVIOUS
<1> HIDE DEF h, n
<1>5. /\ h \in Grids /\ h.run = <<>> /\ h.cut = g.cut + Len(g.run) /\ h.shed = g.shed
      /\ h.placed = g.placed /\ h.bases = g.bases /\ h.nextFree = g.nextFree
      /\ h.placedBase = g.placedBase
  BY <1>1, <1>2, <1>3, <1>4 DEF Grids
<1>6. GridInv(h)
  BY <1>5 DEF GridInv, PlacedInOrder, BasesInOrder
<1>7. Held(h) = Held(g)
  <2>1. Len(h.run) = 0
    BY <1>2, <1>5
  <2>2. QED
    BY <1>1, <1>5, <2>1 DEF Held
<1>8. QED
  BY <1>6, <1>7 DEF h
-----------------------------------------------------------------------------
(* Even places are a slot apart or more in a run that fits its span, and     *)
(* at most one apart in a run that does not.                                 *)
LEMMA EvenPlaces ==
  ASSUME NEW size \in Nat \ {0}, NEW span \in Nat, NEW i \in Nat, NEW j \in Nat, i < j
  PROVE  /\ span >= size => (j * span) \div size >= ((i * span) \div size) + 1
         /\ span < size => (i * span) \div size <= i
<1>1. i * span \in Int /\ j * span \in Int /\ i * size \in Int
  OBVIOUS
<1>2. ASSUME span >= size PROVE (j * span) \div size >= ((i * span) \div size) + 1
  <2>1. j * span >= i * span + span
    <3>1. (j - i) * span >= span
      OBVIOUS
    <3>2. (j - i) * span = j * span - i * span
      OBVIOUS
    <3>3. QED
      BY <1>1, <3>1, <3>2
  <2>2. j * span >= i * span + size
    BY <1>1, <1>2, <2>1
  <2>3. QED
    BY <1>1, <2>2, DivRises
<1>3. ASSUME span < size PROVE (i * span) \div size <= i
  <2>1. i * span <= i * size
    BY <1>3
  <2>2. (i * span) \div size <= (i * size) \div size
    BY <1>1, <2>1, DivOrder
  <2>3. QED
    BY <2>2, DivTimes
<1>4. QED
  BY <1>2, <1>3

(* The run goes behind everything placed, each packet behind the one before. *)
LEMMA SpreadRises ==
  ASSUME NEW g, GridInv(g), g.open # None, g.run # <<>>, NEW next \in Int
  PROVE  LET new == Spread(g, next)
         IN  /\ new \in Seq(Places) /\ Len(new) = Len(g.run)
             /\ Rising(new) /\ From(new, g.nextFree)
<1> DEFINE size == Len(g.run)
           open  == g.open.slot
           span  == Greatest(next - g.open.slot, 0)
           free  == Greatest(g.nextFree, g.open.slot)
           even(i) == open + ((i - 1) * span) \div size
           place(i) == Greatest(even(i), free + i - 1)
           new   == Spread(g, next)
<1>1. /\ open \in Int /\ g.nextFree \in Int /\ g.run \in Seq(Packets)
      /\ size \in Nat \ {0}
  BY EmptySeq DEF GridInv, Grids, Openings
<1>2. /\ span \in Nat /\ free \in Int /\ free >= open /\ free >= g.nextFree
  BY <1>1 DEF Greatest
<1>3. new = [i \in 1 .. size |-> [slot |-> place(i), packet |-> g.run[i]]]
  BY DEF Spread
<1> HIDE DEF size, open, span, free, new
<1>4. ASSUME NEW i \in 1 .. size PROVE even(i) \in Int /\ place(i) \in Int /\ place(i) >= g.nextFree
  <2>1. ((i - 1) * span) \div size \in Int
    BY <1>1, <1>2, DivInt
  <2>2. even(i) \in Int
    BY <1>1, <2>1
  <2> HIDE DEF even
  <2>3. free + i - 1 \in Int /\ free + i - 1 >= g.nextFree
    BY <1>1, <1>2
  <2>4. QED
    BY <1>1, <2>2, <2>3 DEF Greatest
<1>5. ASSUME NEW i \in 1 .. size, NEW j \in 1 .. size, i < j PROVE place(i) < place(j)
  <2>1. /\ span >= size => ((j - 1) * span) \div size >= (((i - 1) * span) \div size) + 1
        /\ span < size => ((i - 1) * span) \div size <= i - 1
    <3>1. i - 1 \in Nat /\ j - 1 \in Nat /\ i - 1 < j - 1
      BY <1>1, <1>5
    <3>2. QED
      BY <1>1, <1>2, <3>1, EvenPlaces, Zenon
  <2>2. /\ span >= size => even(j) >= even(i) + 1
        /\ span < size => even(i) <= free + i - 1
    <3>1. ((i - 1) * span) \div size \in Int /\ ((j - 1) * span) \div size \in Int
      BY <1>1, <1>2, DivInt
    <3>2. QED
      BY <1>1, <1>2, <2>1, <3>1
  <2>3. even(i) \in Int /\ even(j) \in Int
    BY <1>4
  <2> HIDE DEF even
  <2>4. QED
    BY <1>1, <1>2, <1>5, <2>2, <2>3 DEF Greatest
<1> HIDE DEF place
<1>6. \A i \in 1 .. size : g.run[i] \in Packets
  BY <1>1, ElementOfSeq DEF size
<1>7. new \in Seq(Places) /\ Len(new) = size
  <2>1. new \in [1 .. size -> Places]
    BY <1>3, <1>4, <1>6 DEF Places
  <2>2. QED
    BY <1>1, <1>3, <2>1
<1>8. \A i \in 1 .. Len(new) : new[i].slot = place(i)
  BY <1>3, <1>7
<1>9. Rising(new)
  BY <1>5, <1>7, <1>8 DEF Rising
<1>10. From(new, g.nextFree)
  BY <1>4, <1>7, <1>8 DEF From
<1>11. QED
  BY <1>7, <1>9, <1>10 DEF new, size

(* Closing a run places it behind all others, on its own time base, and      *)
(* counts what no longer fits.                                               *)
LEMMA CloseKeeps ==
  ASSUME NEW g, GridInv(g), g.open # None, g.run # <<>>, NEW next \in Int, NEW capacity \in Nat
  PROVE  LET h == CloseRun(g, next, capacity)
         IN  /\ GridInv(h) /\ Held(h) = Held(g) + Len(g.run)
             /\ h.run = g.run /\ h.open = g.open
<1> DEFINE new   == Spread(g, next)
           all   == g.placed \o new
           drop  == Greatest(Len(all) - capacity, 0)
           free  == LastOf(new).slot + 1
           spans == Append(g.spans, Greatest(next - g.open.slot, 0))
           kept  == IF Len(spans) > RecentSpans THEN Tail(spans) ELSE spans
           placed == SubSeq(all, drop + 1, Len(all))
           change == [slot |-> new[1].slot, offset |-> g.openBase]
           bases  == IF g.openBase # g.placedBase THEN Append(g.bases, change) ELSE g.bases
           moved  == Greatest(g.displaced, free - next)
           h == CloseRun(g, next, capacity)
<1>1. /\ g \in Grids /\ g.placed \in Seq(Places) /\ g.bases \in Seq(Bases)
      /\ g.run \in Seq(Packets) /\ g.spans \in Seq(Int) /\ g.open.slot \in Int
      /\ g.nextFree \in Int /\ g.openBase \in Int /\ g.placedBase \in Int
      /\ g.displaced \in Int /\ g.cut \in Nat /\ g.shed \in Nat
  BY DEF GridInv, Grids, Openings
<1>2. /\ Len(g.placed) \in Nat /\ Len(g.bases) \in Nat /\ Len(g.spans) \in Nat
      /\ Len(g.run) \in Nat \ {0}
  BY <1>1, LenProperties, EmptySeq
<1>3. /\ new \in Seq(Places) /\ Len(new) = Len(g.run)
      /\ Rising(new) /\ From(new, g.nextFree)
  BY SpreadRises
<1>4. h = [g EXCEPT !.spans = kept, !.bases = bases, !.placedBase = g.openBase,
                    !.nextFree = free, !.placed = placed, !.shed = g.shed + drop,
                    !.displaced = moved]
  BY DEF CloseRun
<1> HIDE DEF new, all, drop, free, spans, kept, placed, change, bases, moved, h
<1>5. \A i \in 1 .. Len(new) : new[i].slot \in Int
  <2>1. \A i \in 1 .. Len(new) : new[i] \in Places
    BY <1>3, ElementOfSeq
  <2>2. QED
    BY <2>1 DEF Places
<1>6. free \in Int /\ Below(new, free) /\ g.nextFree <= free
      /\ new[1].slot \in Int /\ new[1].slot >= g.nextFree /\ new[1].slot < free
  <2>1. 1 \in 1 .. Len(new) /\ Len(new) \in 1 .. Len(new)
    BY <1>2, <1>3
  <2>2. /\ \A i \in 1 .. Len(new) : i < Len(new) => new[i].slot < new[Len(new)].slot
        /\ new[1].slot >= g.nextFree
    BY <1>3, <2>1 DEF Rising, From
  <2>3. \A i \in 1 .. Len(new) : i < Len(new) \/ i = Len(new)
    BY <2>1
  <2>4. free \in Int /\ \A i \in 1 .. Len(new) : new[i].slot < free
    BY <1>5, <2>1, <2>2, <2>3 DEF LastOf, free
  <2>5. QED
    BY <1>1, <1>5, <2>1, <2>2, <2>4 DEF Below
<1>7. all \in Seq(Places) /\ Len(all) = Len(g.placed) + Len(g.run) /\ Rising(all) /\ Below(all, free)
  <2>1. Rising(g.placed) /\ Below(g.placed, g.nextFree)
    BY DEF GridInv, PlacedInOrder
  <2>2. all \in Seq(Places) /\ Rising(all) /\ Below(all, free)
    <3>1. \A e \in Places : e.slot \in Int
      BY DEF Places
    <3>2. QED
      BY <1>1, <1>3, <1>6, <2>1, <3>1, ConcatKeeps DEF all
  <2>3. Len(all) = Len(g.placed) + Len(new)
    BY <1>1, <1>3, ConcatProperties DEF all
  <2>4. QED
    BY <1>3, <2>2, <2>3
<1>8. drop \in 0 .. Len(all)
  <2>1. Len(all) \in Nat
    BY <1>7, LenProperties
  <2>2. QED
    BY <2>1 DEF Greatest, drop
<1>9. /\ placed \in Seq(Places) /\ Len(placed) = Len(all) - drop
      /\ Rising(placed) /\ Below(placed, free)
  <2>1. \A e \in Places : e.slot \in Int
    BY DEF Places
  <2>2. QED
    BY <1>7, <1>8, <2>1, DropKeeps DEF placed
<1>10. kept \in Seq(Int)
  <2>1. Greatest(next - g.open.slot, 0) \in Int
    BY <1>1 DEF Greatest
  <2>2. spans \in Seq(Int) /\ Len(spans) = Len(g.spans) + 1
    BY <1>1, <2>1, AppendProperties DEF spans
  <2>3. spans # <<>>
    BY <1>2, <2>2, EmptySeq
  <2>4. QED
    BY <2>2, <2>3, HeadTailProperties DEF kept
<1>11. moved \in Int
  BY <1>1, <1>6 DEF Greatest, moved
<1>12. /\ bases \in Seq(Bases) /\ Rising(bases) /\ Below(bases, free) /\ Changing(bases)
       /\ bases # <<>> => LastOf(bases).offset = g.openBase
  <2>1. /\ Rising(g.bases) /\ Below(g.bases, g.nextFree) /\ Changing(g.bases)
        /\ g.bases # <<>> => LastOf(g.bases).offset = g.placedBase
    BY DEF GridInv, BasesInOrder
  <2>2. \A i \in 1 .. Len(g.bases) : g.bases[i].slot \in Int
    <3>1. \A i \in 1 .. Len(g.bases) : g.bases[i] \in Bases
      BY <1>1, ElementOfSeq
    <3>2. QED
      BY <3>1 DEF Bases
  <2>a. /\ g.nextFree \in Int /\ free \in Int /\ g.nextFree <= free
        /\ new[1].slot \in Int /\ new[1].slot >= g.nextFree /\ new[1].slot < free
    BY <1>1, <1>6
  <2>b. \A i \in 1 .. Len(g.bases) : g.bases[i].slot < g.nextFree
    BY <2>1 DEF Below
  <2>c. \A i \in 1 .. Len(g.bases) : g.bases[i].slot < new[1].slot /\ g.bases[i].slot < free
    BY <2>2, <2>a, <2>b
  <2>3. CASE g.openBase = g.placedBase
    <3>1. Below(g.bases, free)
      BY <2>c DEF Below
    <3>2. QED
      BY <1>1, <2>1, <2>3, <3>1 DEF bases
  <2>4. CASE g.openBase # g.placedBase
    <3>1. change \in Bases /\ change.slot = new[1].slot /\ change.offset = g.openBase
      BY <1>1, <1>6 DEF Bases, change
    <3>2. /\ bases \in Seq(Bases) /\ Len(bases) = Len(g.bases) + 1
          /\ \A i \in 1 .. Len(g.bases) : bases[i] = g.bases[i]
          /\ bases[Len(g.bases) + 1] = change
      BY <1>1, <2>4, <3>1, AppendProperties DEF bases
    <3>3. \A i \in 1 .. Len(bases) : i \in 1 .. Len(g.bases) \/ i = Len(g.bases) + 1
      BY <1>2, <3>2
    <3>4. Below(bases, free)
      <4> SUFFICES ASSUME NEW i \in 1 .. Len(bases) PROVE bases[i].slot < free
        BY DEF Below
      <4>1. CASE i \in 1 .. Len(g.bases)
        <5>1. bases[i].slot = g.bases[i].slot
          BY <3>2, <4>1
        <5>2. QED
          BY <2>c, <4>1, <5>1
      <4>2. CASE i = Len(g.bases) + 1
        BY <2>a, <3>1, <3>2, <4>2
      <4>3. QED
        BY <3>3, <4>1, <4>2
    <3>5. Rising(bases)
      <4> SUFFICES ASSUME NEW i \in 1 .. Len(bases), NEW j \in 1 .. Len(bases), i < j
                   PROVE  bases[i].slot < bases[j].slot
        BY DEF Rising
      <4>1. i \in 1 .. Len(g.bases)
        BY <1>2, <3>2
      <4>2. CASE j \in 1 .. Len(g.bases)
        BY <2>1, <3>2, <4>1, <4>2 DEF Rising
      <4>3. CASE j = Len(g.bases) + 1
        <5>1. bases[i].slot = g.bases[i].slot
          BY <3>2, <4>1
        <5>2. bases[j].slot = new[1].slot
          BY <3>1, <3>2, <4>3
        <5>3. QED
          BY <2>c, <4>1, <5>1, <5>2
      <4>4. QED
        BY <3>3, <4>2, <4>3
    <3>6. Changing(bases)
      <4> SUFFICES ASSUME NEW i \in 2 .. Len(bases) PROVE bases[i - 1].offset # bases[i].offset
        BY DEF Changing
      <4>1. i - 1 \in 1 .. Len(g.bases)
        BY <1>2, <3>2
      <4>2. CASE i \in 2 .. Len(g.bases)
        <5>1. g.bases[i - 1].offset # g.bases[i].offset
          BY <2>1, <4>2 DEF Changing
        <5>2. i \in 1 .. Len(g.bases)
          BY <4>2
        <5>3. bases[i - 1] = g.bases[i - 1] /\ bases[i] = g.bases[i]
          BY <3>2, <4>1, <5>2
        <5>4. QED
          BY <5>1, <5>3
      <4>3. CASE i = Len(g.bases) + 1
        <5>0. i - 1 = Len(g.bases) /\ Len(g.bases) > 0
          BY <1>2, <4>1, <4>3
        <5>1. g.bases # <<>> /\ i - 1 = Len(g.bases)
          BY <1>1, <5>0, EmptySeq
        <5>2. bases[i - 1] = LastOf(g.bases)
          BY <3>2, <4>1, <5>1 DEF LastOf
        <5>3. bases[i - 1].offset = g.placedBase
          BY <2>1, <5>1, <5>2
        <5>4. bases[i].offset = g.openBase
          BY <3>1, <3>2, <4>3
        <5>5. QED
          BY <2>4, <5>3, <5>4
      <4>4. QED
        BY <1>2, <3>2, <4>2, <4>3
    <3>7. LastOf(bases).offset = g.openBase
      BY <3>1, <3>2 DEF LastOf
    <3>8. QED
      BY <3>2, <3>4, <3>5, <3>6, <3>7
  <2>5. QED
    BY <2>3, <2>4
<1>13. g.shed + drop \in Nat
  BY <1>1, <1>7, <1>8
<1>14. /\ h \in Grids /\ h.placed = placed /\ h.bases = bases /\ h.nextFree = free
       /\ h.placedBase = g.openBase /\ h.run = g.run /\ h.open = g.open
       /\ h.cut = g.cut /\ h.shed = g.shed + drop
  BY <1>1, <1>4, <1>6, <1>9, <1>10, <1>11, <1>12, <1>13 DEF Grids
<1>15. GridInv(h)
  <2>1. PlacedInOrder(h)
    BY <1>9, <1>14 DEF PlacedInOrder
  <2>2. BasesInOrder(h)
    BY <1>12, <1>14 DEF BasesInOrder
  <2>3. QED
    BY <1>14, <2>1, <2>2 DEF GridInv
<1>16. Held(h) = Held(g) + Len(g.run)
  <2> DEFINE cut  == g.cut
             shed == g.shed
             m == Len(g.placed)
             n == Len(g.run)
  <2>1. cut \in Nat /\ shed \in Nat /\ m \in Nat /\ n \in Nat
    BY <1>1, <1>2
  <2>2. Len(h.placed) = Len(all) - drop /\ Len(all) = m + n
    BY <1>7, <1>9, <1>14
  <2>3. Held(h) = cut + (shed + drop) + n + Len(h.placed)
    BY <1>14 DEF Held
  <2>4. Held(g) = cut + shed + n + m
    BY DEF Held
  <2> HIDE DEF cut, shed, m, n
  <2>5. drop \in Int
    BY <1>8, <2>1, <2>2
  <2>6. Held(h) = cut + (shed + drop) + n + ((m + n) - drop)
    BY <2>2, <2>3
  <2>7. Held(h) = Held(g) + n
    BY <2>1, <2>4, <2>5, <2>6
  <2>8. QED
    BY <2>7 DEF n
<1>17. QED
  BY <1>14, <1>15, <1>16 DEF h

(* A continuity counter is only noted. *)
LEMMA NoteKeeps ==
  ASSUME NEW g, GridInv(g), NEW p \in Packets
  PROVE  LET n == NoteContinuity(g, p)
         IN  GridInv(n) /\ Held(n) = Held(g) /\ n.open = g.open /\ n.run = g.run
<1> DEFINE last   == g.continuity[p.pid]
           fresh  == [cc |-> p.cc, repeated |-> FALSE]
           again  == [fresh EXCEPT !.repeated = TRUE]
           n == NoteContinuity(g, p)
<1>1. g \in Grids /\ p.pid \in Pids /\ p.cc \in 0 .. CcModulo - 1
  BY DEF GridInv, Packets
<1>2. /\ last \in Counters \cup {None} /\ fresh \in Counters /\ again \in Counters
  BY <1>1 DEF Grids, Counters
<1>3. PICK c \in Counters \cup {None}, b \in BOOLEAN :
        n = [g EXCEPT !.continuity[p.pid] = c, !.broken = b]
  <2> DEFINE resets   == last = None \/ p.di
             advances == p.payload /\ p.cc = (last.cc + 1) % CcModulo
             repeats  == p.payload /\ p.cc = last.cc /\ ~last.repeated
             keeps    == ~p.payload /\ p.cc = last.cc
             c == IF resets \/ advances THEN fresh
                  ELSE IF repeats THEN again
                  ELSE IF p.payload THEN fresh ELSE last
             b == g.broken \/ ~(resets \/ advances \/ repeats \/ keeps)
  <2>1. n = [g EXCEPT !.continuity[p.pid] = c, !.broken = b]
    BY DEF NoteContinuity
  <2>2. c \in Counters \cup {None}
    <3> HIDE DEF resets, advances, repeats, last, fresh, again
    <3>1. QED
      BY <1>2
  <2>3. b \in BOOLEAN
    OBVIOUS
  <2> HIDE DEF n, c, b
  <2>4. QED
    BY <2>1, <2>2, <2>3
<1> HIDE DEF n
<1>4. /\ n \in Grids /\ n.open = g.open /\ n.run = g.run /\ n.placed = g.placed
      /\ n.bases = g.bases /\ n.nextFree = g.nextFree /\ n.placedBase = g.placedBase
      /\ n.cut = g.cut /\ n.shed = g.shed
  <2> DEFINE noted == [g.continuity EXCEPT ![p.pid] = c]
  <2>1. noted \in [Pids -> Counters \cup {None}]
    BY <1>1, <1>3 DEF Grids
  <2>2. n = [g EXCEPT !.continuity = noted, !.broken = b]
    BY <1>1, <1>3 DEF Grids
  <2> HIDE DEF noted
  <2>3. n \in Grids
    BY <1>1, <1>3, <2>1, <2>2 DEF Grids
  <2>4. /\ n.open = g.open /\ n.run = g.run /\ n.placed = g.placed
        /\ n.bases = g.bases /\ n.nextFree = g.nextFree /\ n.placedBase = g.placedBase
        /\ n.cut = g.cut /\ n.shed = g.shed
    BY <1>1, <2>2 DEF Grids
  <2>5. QED
    BY <2>3, <2>4
<1>5. GridInv(n)
  BY <1>4 DEF GridInv, PlacedInOrder, BasesInOrder
<1>6. Held(n) = Held(g)
  BY <1>4 DEF Held
<1>7. QED
  BY <1>4, <1>5, <1>6 DEF n

(* A PCR places, cuts or opens: none of it loses a packet uncounted. *)
LEMMA PcrKeeps ==
  ASSUME NEW g, GridInv(g), NEW p \in Packets, HasPcr(p), NEW at \in Int,
         NEW horizon, NEW capacity \in Nat
  PROVE  LET n == PushPcr(g, p, at, horizon, capacity)
         IN  GridInv(n) /\ Held(n) = Held(g) + 1
<1> DEFINE since == IF g.open = None THEN 0 ELSE at - g.open.at
           epoch == EpochFor(g, p, since, horizon)
           slot  == Greatest(SlotOfPcr(p.pcr) + epoch, 0)
           moved == IF g.open # None /\ Spliced(g, p, since, horizon) THEN epoch - g.epoch ELSE 0
           missed == \/ AfterSilence(g, p, since, horizon)
                     \/ g.broken /\ MissedPcrs(g, Greatest(slot - g.open.slot, 0))
           skipped == [g EXCEPT !.cut = @ + Len(g.run), !.knownFrom = slot]
           h == IF g.open = None THEN [g EXCEPT !.knownFrom = slot]
                ELSE IF missed THEN skipped
                ELSE IF g.run = <<>> THEN g ELSE CloseRun(g, slot, capacity)
           opening == [pcr |-> p.pcr, slot |-> slot, at |-> at]
           n == PushPcr(g, p, at, horizon, capacity)
<1>1. g \in Grids /\ g.run \in Seq(Packets) /\ Len(g.run) \in Nat /\ p.pcr \in Nat
      /\ g.epoch \in Int /\ g.rebased \in Int /\ Len(g.placed) \in Nat
      /\ g.cut \in Nat /\ g.shed \in Nat
  BY LenProperties DEF GridInv, Grids, HasPcr, Packets
<1>2. SlotOfPcr(p.pcr) \in Int /\ SlotsPerWrap \in Int
  <2>1. p.pcr \in Int /\ PcrWrap \in Int
    BY <1>1, LegNumbers
  <2>2. QED
    BY <2>1, LegNumbers DEF SlotOfPcr, SlotsPerWrap
<1>3. epoch \in Int
  <2>1. g.open # None => g.open.slot \in Int
    BY <1>1 DEF Grids, Openings
  <2>2. Greatest(Len(g.run), 1) \in Int
    BY <1>1 DEF Greatest
  <2> HIDE DEF since
  <2>3. QED
    BY <1>1, <1>2, <2>1, <2>2 DEF EpochFor
<1>4. n = [h EXCEPT !.broken = FALSE, !.epoch = epoch, !.rebased = @ + moved,
                    !.openBase = g.rebased + moved, !.run = <<p>>, !.open = opening]
  BY DEF PushPcr
<1> HIDE DEF since, epoch, missed, n
<1>5. slot \in Int /\ moved \in Int
  BY <1>1, <1>2, <1>3 DEF Greatest
<1> HIDE DEF slot, moved
<1>6. GridInv(h) /\ Held(h) = Held(g) + Len(h.run) /\ Len(h.run) \in Nat
  <2>1. CASE g.open = None
    <3>1. h = [g EXCEPT !.knownFrom = slot]
      BY <2>1
    <3> HIDE DEF h
    <3>2. /\ h \in Grids /\ h.open = g.open /\ h.run = g.run /\ h.placed = g.placed
          /\ h.bases = g.bases /\ h.nextFree = g.nextFree /\ h.placedBase = g.placedBase
          /\ h.cut = g.cut /\ h.shed = g.shed
      BY <1>1, <1>5, <3>1 DEF Grids
    <3>3. GridInv(h)
      BY <3>2 DEF GridInv, PlacedInOrder, BasesInOrder
    <3>4. Len(h.run) = 0
      BY <2>1, <3>2, EmptySeq DEF GridInv
    <3>5. Held(h) = Held(g) /\ Held(g) \in Int
      BY <1>1, <3>2 DEF Held
    <3>6. QED
      BY <3>3, <3>4, <3>5
  <2>2. CASE g.open # None /\ missed
    <3>1. h = skipped
      BY <2>2
    <3> DEFINE cut == g.cut + Len(g.run)
    <3>2. cut \in Nat /\ skipped = [g EXCEPT !.cut = cut, !.knownFrom = slot]
      BY <1>1
    <3> HIDE DEF h, cut, skipped
    <3>3. /\ h \in Grids /\ h.open = g.open /\ h.run = g.run /\ h.placed = g.placed
          /\ h.bases = g.bases /\ h.nextFree = g.nextFree /\ h.placedBase = g.placedBase
          /\ h.cut = cut /\ h.shed = g.shed
      BY <1>1, <1>5, <3>1, <3>2 DEF Grids
    <3>4. GridInv(h)
      BY <3>3 DEF GridInv, PlacedInOrder, BasesInOrder
    <3>5. Held(h) = Held(g) + Len(g.run)
      BY <1>1, <3>3 DEF Held, cut
    <3>6. QED
      BY <1>1, <3>3, <3>4, <3>5
  <2>3. CASE g.open # None /\ ~missed /\ g.run = <<>>
    <3>1. h = g /\ Len(g.run) = 0
      BY <2>3, EmptySeq
    <3>2. Held(g) \in Int
      BY <1>1 DEF Held
    <3>3. QED
      BY <3>1, <3>2
  <2>4. CASE g.open # None /\ ~missed /\ g.run # <<>>
    <3>1. h = CloseRun(g, slot, capacity)
      BY <2>4
    <3> HIDE DEF h
    <3>2. QED
      BY <1>1, <1>5, <2>4, <3>1, CloseKeeps
  <2>5. QED
    BY <2>1, <2>2, <2>3, <2>4
<1> HIDE DEF h
<1>7. opening \in Openings /\ opening # None /\ <<p>> \in Seq(Packets) /\ Len(<<p>>) = 1
  BY <1>1, <1>5, LegNumbers DEF Openings
<1> HIDE DEF opening
<1>8. /\ h \in Grids /\ Len(h.placed) \in Nat /\ h.cut \in Nat /\ h.shed \in Nat /\ h.rebased \in Int
  BY <1>6, LenProperties DEF GridInv, Grids
<1>9. g.rebased + moved \in Int /\ h.rebased + moved \in Int
  BY <1>1, <1>5, <1>8
<1>10. /\ n \in Grids /\ n.run = <<p>> /\ n.open # None /\ n.placed = h.placed
       /\ n.bases = h.bases /\ n.nextFree = h.nextFree /\ n.placedBase = h.placedBase
       /\ n.cut = h.cut /\ n.shed = h.shed
  BY <1>3, <1>4, <1>7, <1>8, <1>9 DEF Grids
<1>11. GridInv(n)
  BY <1>6, <1>10 DEF GridInv, PlacedInOrder, BasesInOrder
<1>12. Held(n) = Held(g) + 1
  <2> DEFINE cut    == h.cut
             shed   == h.shed
             open   == Len(h.run)
             placed == Len(h.placed)
  <2>1. cut \in Nat /\ shed \in Nat /\ open \in Nat /\ placed \in Nat
    BY <1>6, <1>8
  <2>2. Held(n) = cut + shed + 1 + placed
    BY <1>7, <1>10 DEF Held
  <2>3. Held(h) = cut + shed + open + placed /\ Held(h) = Held(g) + open
    BY <1>6 DEF Held
  <2>4. Held(g) \in Int
    BY <1>1 DEF Held
  <2> HIDE DEF cut, shed, open, placed
  <2>5. QED
    BY <2>1, <2>2, <2>3, <2>4
<1>13. QED
  BY <1>11, <1>12 DEF n

(* Whatever is pushed is placed, held in the open run, cut or shed. *)
LEMMA PushKeeps ==
  ASSUME NEW g, GridInv(g), NEW p \in Packets, NEW at \in Int,
         NEW horizon, NEW capacity \in Nat
  PROVE  LET h == PushGrid(g, p, at, horizon, capacity)
         IN  GridInv(h) /\ Held(h) = Held(g) + 1
<1> DEFINE n == NoteContinuity(g, p)
           h == PushGrid(g, p, at, horizon, capacity)
<1>1. GridInv(n) /\ Held(n) = Held(g) /\ n.open = g.open /\ n.run = g.run
  BY NoteKeeps
<1>2. /\ n \in Grids /\ n.run \in Seq(Packets) /\ Len(n.run) \in Nat /\ Len(n.placed) \in Nat
      /\ n.cut \in Nat /\ n.shed \in Nat
  BY <1>1, LenProperties DEF GridInv, Grids
<1>3. CASE HasPcr(p)
  <2>1. h = PushPcr(n, p, at, horizon, capacity)
    BY <1>3 DEF PushGrid
  <2> HIDE DEF n, h
  <2>2. GridInv(h) /\ Held(h) = Held(n) + 1
    BY <1>1, <1>3, <2>1, PcrKeeps
  <2>3. QED
    BY <1>1, <2>2 DEF h
<1>4. CASE ~HasPcr(p) /\ g.open = None
  <2> DEFINE shed == n.shed + 1
  <2>1. h = [n EXCEPT !.shed = shed] /\ shed \in Nat
    BY <1>2, <1>4 DEF PushGrid
  <2>2. shed = n.shed + 1
    OBVIOUS
  <2> HIDE DEF n, h, shed
  <2>3. /\ h \in Grids /\ h.open = n.open /\ h.run = n.run /\ h.placed = n.placed
        /\ h.bases = n.bases /\ h.nextFree = n.nextFree /\ h.placedBase = n.placedBase
        /\ h.cut = n.cut /\ h.shed = shed
    BY <1>2, <2>1 DEF Grids
  <2>4. GridInv(h)
    BY <1>1, <2>3 DEF GridInv, PlacedInOrder, BasesInOrder
  <2>5. Held(h) = Held(n) + 1
    <3> DEFINE cut    == n.cut
               other  == n.shed
               open   == Len(n.run)
               placed == Len(n.placed)
    <3>1. cut \in Nat /\ other \in Nat /\ open \in Nat /\ placed \in Nat
      BY <1>2
    <3>2. Held(n) = cut + other + open + placed
      BY DEF Held
    <3>3. Held(h) = cut + (other + 1) + open + placed
      BY <2>2, <2>3 DEF Held
    <3> HIDE DEF cut, other, open, placed
    <3>4. QED
      BY <3>1, <3>2, <3>3
  <2>6. QED
    BY <1>1, <2>4, <2>5 DEF h
<1>5. CASE ~HasPcr(p) /\ g.open # None
  <2> DEFINE run == Append(n.run, p)
  <2>1. h = [n EXCEPT !.run = run]
    BY <1>5 DEF PushGrid
  <2>2. run \in Seq(Packets) /\ Len(run) = Len(n.run) + 1
    BY <1>2, AppendProperties
  <2> HIDE DEF n, h, run
  <2>3. /\ h \in Grids /\ h.open = n.open /\ h.run = run /\ h.placed = n.placed
        /\ h.bases = n.bases /\ h.nextFree = n.nextFree /\ h.placedBase = n.placedBase
        /\ h.cut = n.cut /\ h.shed = n.shed
    BY <1>2, <2>1, <2>2 DEF Grids
  <2>4. GridInv(h)
    BY <1>1, <1>5, <2>3 DEF GridInv, PlacedInOrder, BasesInOrder
  <2>5. Held(h) = Held(n) + 1
    <3> DEFINE cut    == n.cut
               other  == n.shed
               open   == Len(n.run)
               placed == Len(n.placed)
    <3>1. cut \in Nat /\ other \in Nat /\ open \in Nat /\ placed \in Nat
      BY <1>2
    <3>2. Held(n) = cut + other + open + placed
      BY DEF Held
    <3>3. Held(h) = cut + other + (open + 1) + placed
      BY <2>2, <2>3 DEF Held
    <3> HIDE DEF cut, other, open, placed
    <3>4. QED
      BY <3>1, <3>2, <3>3
  <2>6. QED
    BY <1>1, <2>4, <2>5 DEF h
<1>6. QED
  BY <1>3, <1>4, <1>5
-----------------------------------------------------------------------------
(* The variables the proofs are about. *)
Admissions == [packet : Packets, offset : Int, starts : BOOLEAN]
Clocks     == [anchor : Int \cup {None}, from : Int, slot : Int]
Emitters   == [deferred : Seq(Admissions), phased : BOOLEAN, last : Int \cup {None}, base : Int]
Arrivals   == [at : Int, slot : Int]
Watches    == [since : Int \cup {None}, soonest : Arrivals \cup {None}, gain : Int,
               fastest : Int \cup {None}]
Datagrams  == [left : Nat, next : Int, stalled : BOOLEAN, determined : BOOLEAN, send : BOOLEAN]
Counts     == [sent : Nat, withheld : Nat, late : Nat, begun : {0, 1}]
Paths      == [next : Nat \ {0}, received : Nat, lost : Nat]

LegType ==
  /\ now \in Int /\ feed \in DOMAIN Feeds /\ path \in Paths
  /\ clock \in Clocks /\ GridInv(grid) /\ emitter \in Emitters /\ align \in Watches
  /\ datagram \in Datagrams \cup {None} /\ count \in Counts

(* The edge of what a grid holds is a slot. *)
LEMMA EdgeType ==
  ASSUME NEW g, GridInv(g), HasContent(g)
  PROVE  LastSlot(g) \in Int /\ FirstSlot(g) \in Int
<1>1. g.placed \in Seq(Places) /\ Len(g.placed) \in Nat \ {0}
  BY EmptySeq DEF GridInv, Grids, HasContent
<1>2. g.placed[1] \in Places /\ g.placed[Len(g.placed)] \in Places
  BY <1>1, ElementOfSeq
<1>3. QED
  BY <1>2 DEF LastSlot, FirstSlot, LastOf, Places

LEMMA InitLeg == Init => LegType
<1> SUFFICES ASSUME Init PROVE LegType
  OBVIOUS
<1> USE DEF Init
<1>1. GridInv(grid)
  <2>1. /\ <<>> \in Seq(Packets) /\ <<>> \in Seq(Places) /\ <<>> \in Seq(Bases) /\ <<>> \in Seq(Int)
        /\ Len(<<>>) = 0
    OBVIOUS
  <2>2. [pid \in Pids |-> None] \in [Pids -> Counters \cup {None}]
    OBVIOUS
  <2>3. /\ grid \in Grids /\ grid.run = <<>> /\ grid.placed = <<>> /\ grid.bases = <<>>
    BY <2>1, <2>2 DEF NewGrid, Grids
  <2>4. PlacedInOrder(grid) /\ BasesInOrder(grid)
    BY <2>1, <2>3 DEF PlacedInOrder, BasesInOrder, Rising, Below, Changing
  <2>5. QED
    BY <2>3, <2>4 DEF GridInv
<1>2. emitter \in Emitters
  BY DEF Emitters, NewEmitter
<1>3. align \in Watches /\ clock \in Clocks /\ count \in Counts /\ path \in Paths
  BY DEF Watches, Clocks, Counts, Paths
<1>4. QED
  BY <1>1, <1>2, <1>3 DEF LegType

(* What the leg watches for stays a reference, and there is one as soon as   *)
(* there is content.                                                         *)
LEMMA WatchType ==
  ASSUME LegType, NEW g, GridInv(g)
  PROVE  /\ Watch(g) \in Watches
         /\ leg.align # None /\ HasContent(g) /\ count.begun = 0 => Watch(g).soonest \in Arrivals
<1> DEFINE since == IF align.since = None THEN now ELSE align.since
           a     == [align EXCEPT !.since = since]
           edge  == LastSlot(g)
<1>1. align \in Watches /\ now \in Int
  BY DEF LegType
<1>2. a \in Watches /\ a.soonest = align.soonest /\ a.gain = align.gain /\ a.fastest = align.fastest
  BY <1>1 DEF Watches
<1> HIDE DEF a
<1>3. CASE leg.align = None
  BY <1>1, <1>3 DEF Watch
<1>4. CASE leg.align # None /\ ~HasContent(g)
  <2>1. Watch(g) = a
    BY <1>4 DEF Watch, a
  <2>2. QED
    BY <1>2, <1>4, <2>1
<1>5. CASE leg.align # None /\ HasContent(g)
  <2>1. edge \in Int
    BY <1>5, EdgeType
  <2> HIDE DEF edge
  <2>2. Gain(a, edge) \in Int
    <3>1. CASE a.soonest = None \/ edge < a.soonest.slot
      BY <3>1 DEF Gain
    <3>2. CASE ~(a.soonest = None \/ edge < a.soonest.slot)
      <4>1. a.soonest \in Arrivals
        BY <1>2, <3>2 DEF Watches
      <4>2. TicksOf(edge - a.soonest.slot) \in Int
        BY <2>1, <4>1, SlotsAreNumbers DEF Arrivals
      <4>3. QED
        BY <1>1, <3>2, <4>1, <4>2 DEF Gain, Greatest, Arrivals
    <3>3. QED
      BY <3>1, <3>2
  <2>3. DelayOf(edge) \in Int
    BY <1>1, <2>1, LegNumbers DEF DelayOf
  <2> DEFINE gain    == Greatest(a.gain, Gain(a, edge))
             later   == IF a.fastest # None /\ DelayOf(edge) < a.fastest THEN DelayOf(edge) ELSE a.fastest
             arrival == [at |-> now, slot |-> edge]
             soonest == IF a.soonest = None \/ Gain(a, edge) > 0 THEN arrival ELSE a.soonest
             fastest == IF a.fastest = None \/ DelayOf(edge) < a.fastest THEN DelayOf(edge) ELSE a.fastest
  <2>4. gain \in Int /\ later \in Int \cup {None} /\ fastest \in Int \cup {None}
    BY <1>2, <2>2, <2>3 DEF Watches, Greatest
  <2>5. soonest \in Arrivals
    BY <1>1, <1>2, <2>1 DEF Watches, Arrivals
  <2>6. CASE count.begun > 0
    <3>1. Watch(g) = [a EXCEPT !.gain = gain, !.fastest = later]
      BY <1>5, <2>6 DEF Watch, edge, a
    <3> HIDE DEF gain, later
    <3>2. Watch(g) \in Watches
      BY <1>2, <2>4, <3>1 DEF Watches
    <3>3. QED
      BY <2>6, <3>2
  <2>7. CASE ~(count.begun > 0)
    <3>1. Watch(g) = [a EXCEPT !.soonest = soonest, !.fastest = fastest]
      BY <1>5, <2>7 DEF Watch, edge, a
    <3> HIDE DEF soonest, fastest
    <3>2. Watch(g) \in Watches /\ Watch(g).soonest = soonest
      BY <1>2, <2>4, <2>5, <3>1 DEF Watches
    <3>3. QED
      BY <2>5, <3>2
  <2>8. QED
    BY <2>6, <2>7
<1>6. QED
  BY <1>3, <1>4, <1>5

(* Until the first datagram the clock starts; after it neither start moves it. *)
LEMMA RestartType ==
  ASSUME LegType, NEW g, GridInv(g)
  PROVE  Restart(g) \in Clocks /\ (count.begun # 0 => Restart(g) = clock)
<1>1. clock \in Clocks /\ now \in Int
  BY DEF LegType
<1>2. CASE ~(count.begun = 0 /\ HasContent(g))
  BY <1>1, <1>2 DEF Restart
<1>3. CASE count.begun = 0 /\ HasContent(g)
  <2> DEFINE start == Aligned(Greatest(LastSlot(g) - LatencyToPackets(Latency), FirstSlot(g)))
             anchor == IF clock.anchor = None THEN now + Latency ELSE clock.anchor
  <2>1. LatencyToPackets(Latency) \in Int /\ LastSlot(g) \in Int /\ FirstSlot(g) \in Int
    BY <1>3, LegNumbers, SlotsAreNumbers, EdgeType
  <2>2. Greatest(LastSlot(g) - LatencyToPackets(Latency), FirstSlot(g)) \in Int
    BY <2>1 DEF Greatest
  <2>3. start \in Int
    BY <2>2, SlotsAreNumbers
  <2>4. anchor \in Int
    BY <1>1, LegNumbers DEF Clocks
  <2>5. Restart(g) = [anchor |-> anchor, from |-> start, slot |-> start]
    BY <1>3 DEF Restart
  <2> HIDE DEF start, anchor
  <2>6. QED
    BY <1>3, <2>3, <2>4, <2>5 DEF Clocks
<1>4. QED
  BY <1>2, <1>3

LEMMA AlignStartType ==
  ASSUME LegType, NEW g, GridInv(g), NEW a \in Watches,
         HasContent(g) /\ count.begun = 0 => a.soonest \in Arrivals
  PROVE  AlignStart(g, a) \in Clocks /\ (count.begun # 0 => AlignStart(g, a) = clock)
<1>1. clock \in Clocks /\ now \in Int
  BY DEF LegType
<1>2. CASE ~(count.begun = 0 /\ HasContent(g) /\ now - a.since >= leg.align)
  BY <1>1, <1>2 DEF AlignStart
<1>3. CASE count.begun = 0 /\ HasContent(g) /\ now - a.since >= leg.align
  <2> DEFINE release == a.soonest.at + Latency
             passed == IF now >= release THEN LatencyToPackets(now - release)
                       ELSE -LatencyToPackets(release - now)
             due    == a.soonest.slot + passed
             start  == Aligned(Greatest(due, FirstSlot(g)))
             ahead  == start - a.soonest.slot
             ticks  == IF ahead >= 0 THEN TicksOf(ahead) ELSE -TicksOf(-ahead)
  <2>1. a.soonest.at \in Int /\ a.soonest.slot \in Int /\ FirstSlot(g) \in Int
    BY <1>3, EdgeType DEF Arrivals
  <2>2. release \in Int
    BY <2>1, LegNumbers
  <2>3. passed \in Int
    <3> HIDE DEF release
    <3>1. now - release \in Int /\ release - now \in Int
      BY <1>1, <2>2
    <3>2. LatencyToPackets(now - release) \in Int /\ LatencyToPackets(release - now) \in Int
      BY <3>1, SlotsAreNumbers
    <3>3. QED
      BY <3>2
  <2>4. AlignStart(g, a) = [anchor |-> release + ticks, from |-> start, slot |-> start]
    BY <1>3 DEF AlignStart
  <2> HIDE DEF release, passed
  <2>5. start \in Int
    <3>1. Greatest(due, FirstSlot(g)) \in Int
      BY <2>1, <2>3 DEF Greatest
    <3>2. QED
      BY <3>1, SlotsAreNumbers
  <2> HIDE DEF start
  <2>6. ticks \in Int
    <3>1. ahead \in Int /\ -ahead \in Int
      BY <2>1, <2>5
    <3> HIDE DEF ahead
    <3>2. TicksOf(ahead) \in Int /\ TicksOf(-ahead) \in Int
      BY <3>1, SlotsAreNumbers
    <3>3. QED
      BY <3>2
  <2> HIDE DEF ticks
  <2>7. QED
    BY <1>3, <2>2, <2>4, <2>5, <2>6 DEF Clocks
<1>4. QED
  BY <1>2, <1>3

(* An arrival: one packet more is held, and the clock only starts. *)
LEMMA EnqueueKeeps ==
  ASSUME LegType, NEW p \in Packets, Enqueue(p)
  PROVE  /\ GridInv(grid') /\ Held(grid') = Held(grid) + 1
         /\ align' \in Watches /\ clock' \in Clocks
         /\ count.begun # 0 => clock' = clock
<1> DEFINE horizon == IF count.begun > 0 THEN clock.slot + Capacity ELSE None
           g == PushGrid(grid, p, now, horizon, Capacity)
<1>1. Capacity \in Nat
  <2>1. LatencyToPackets(MaxLatency) \in Int
    BY LegNumbers, SlotsAreNumbers
  <2>2. QED
    BY <2>1 DEF Capacity, Greatest
<1>2. grid' = g /\ align' = Watch(g)
      /\ clock' = IF leg.align = None THEN Restart(g) ELSE AlignStart(g, align')
  BY DEF Enqueue
<1>3. GridInv(g) /\ Held(g) = Held(grid) + 1
  BY <1>1, PushKeeps DEF LegType
<1> HIDE DEF g
<1>4. /\ Watch(g) \in Watches
      /\ leg.align # None /\ HasContent(g) /\ count.begun = 0 => Watch(g).soonest \in Arrivals
  BY <1>3, WatchType
<1>5. CASE leg.align = None
  BY <1>2, <1>3, <1>4, <1>5, RestartType
<1>6. CASE leg.align # None
  BY <1>2, <1>3, <1>4, <1>6, AlignStartType
<1>7. QED
  BY <1>5, <1>6
-----------------------------------------------------------------------------
(* One packet at most is admitted to a slot. *)
LEMMA QueueType ==
  ASSUME NEW g, GridInv(g), NEW e \in Emitters, NEW slot
  PROVE  LET queue == QueueAt(g, e, slot)
         IN  /\ queue \in Seq(Admissions)
             /\ Len(queue) = Len(e.deferred) + IF Takes(g, slot) THEN 1 ELSE 0
<1> DEFINE taken == [packet |-> TakenAt(g, slot), offset |-> TakeGrid(g, slot).takenBase,
                     starts |-> StartsBase(g, slot)]
           admitted == Admitted(g, slot)
<1>1. e.deferred \in Seq(Admissions)
  BY DEF Emitters
<1>2. CASE Takes(g, slot)
  <2>1. g.placed \in Seq(Places) /\ PassedAt(g, slot) \in 1 .. Len(g.placed)
    <3>1. g.placed \in Seq(Places) /\ Len(g.placed) \in Nat
      BY LenProperties DEF GridInv, Grids
    <3>2. PassedAt(g, slot) \in 0 .. Len(g.placed) /\ PassedAt(g, slot) > 0
      BY <1>2, TakeKeeps DEF Takes
    <3>3. QED
      BY <3>1, <3>2
  <2>2. TakenAt(g, slot) \in Packets
    <3>1. g.placed[PassedAt(g, slot)] \in Places
      BY <2>1, ElementOfSeq
    <3>2. QED
      BY <3>1 DEF TakenAt, Places
  <2>3. StartsBase(g, slot) \in BOOLEAN
    BY DEF StartsBase
  <2>4. TakeGrid(g, slot).takenBase \in Int
    BY TakeKeeps
  <2>5. taken \in Admissions
    BY <2>2, <2>3, <2>4 DEF Admissions
  <2>6. admitted = <<taken>>
    BY <1>2 DEF Admitted
  <2> HIDE DEF taken, admitted
  <2>7. admitted \in Seq(Admissions) /\ Len(admitted) = 1
    BY <2>5, <2>6
  <2>8. QueueAt(g, e, slot) = e.deferred \o admitted
    BY DEF QueueAt, admitted
  <2>9. QueueAt(g, e, slot) \in Seq(Admissions) /\ Len(QueueAt(g, e, slot)) = Len(e.deferred) + 1
    <3>1. /\ e.deferred \o admitted \in Seq(Admissions)
          /\ Len(e.deferred \o admitted) = Len(e.deferred) + Len(admitted)
      BY <1>1, <2>7, ConcatProperties
    <3>2. QED
      BY <2>7, <2>8, <3>1
  <2>10. QED
    BY <1>2, <2>9
<1>3. CASE ~Takes(g, slot)
  <2>1. QueueAt(g, e, slot) = e.deferred \o <<>>
    BY <1>3 DEF QueueAt, Admitted
  <2>2. e.deferred \o <<>> = e.deferred /\ Len(e.deferred) \in Nat
    BY <1>1, ConcatEmptySeq, LenProperties
  <2>3. QED
    BY <1>1, <1>3, <2>1, <2>2
<1>4. QED
  BY <1>2, <1>3

(* Whether a slot carries content, and whether it takes a packet, as numbers; *)
(* what is taken and not sent is deferred.                                    *)
ContentIn(g, e, slot, halted) == IF Carried(g, e, slot, halted).kind = "content" THEN 1 ELSE 0
TakenIn(g, slot) == IF Takes(g, slot) THEN 1 ELSE 0
Balanced(g, e, f, slot, halted) ==
  Len(f.deferred) + ContentIn(g, e, slot, halted) = Len(e.deferred) + TakenIn(g, slot)

(* A slot sends the head of the queue or nothing of it. *)
LEMMA SlotKeeps ==
  ASSUME NEW g, GridInv(g), NEW e \in Emitters, NEW slot \in Int,
         NEW halted \in BOOLEAN, NEW determined \in BOOLEAN
  PROVE  LET f == AfterSlot(g, e, slot, halted, determined)
         IN  f \in Emitters /\ Balanced(g, e, f, slot, halted)
<1> DEFINE queue == QueueAt(g, e, slot)
           q == Head(queue)
           f == AfterSlot(g, e, slot, halted, determined)
           carried == Carried(g, e, slot, halted)
           content == IF carried.kind = "content" THEN 1 ELSE 0
<1>1. /\ queue \in Seq(Admissions) /\ Len(queue) \in Nat
      /\ Len(queue) = Len(e.deferred) + IF Takes(g, slot) THEN 1 ELSE 0
  BY QueueType, LenProperties
<1>a. ContentIn(g, e, slot, halted) = content /\ Len(queue) = Len(e.deferred) + TakenIn(g, slot)
  BY <1>1 DEF ContentIn, TakenIn
<1> SUFFICES f \in Emitters /\ Len(f.deferred) + content = Len(queue)
  BY <1>a, Zenon DEF Balanced
<1>2. queue # <<>> => /\ q \in Admissions /\ Tail(queue) \in Seq(Admissions)
                      /\ Len(Tail(queue)) + 1 = Len(queue)
  <2> SUFFICES ASSUME queue # <<>>
               PROVE  q \in Admissions /\ Tail(queue) \in Seq(Admissions) /\ Len(Tail(queue)) + 1 = Len(queue)
    OBVIOUS
  <2>1. q \in Admissions /\ Tail(queue) \in Seq(Admissions) /\ Len(Tail(queue)) = Len(queue) - 1
    BY <1>1, HeadTailProperties
  <2> DEFINE n == Len(queue)
             m == Len(Tail(queue))
  <2>2. n \in Nat /\ m = n - 1
    BY <1>1, <2>1
  <2> HIDE DEF n, m
  <2>3. m + 1 = n
    BY <2>2
  <2>4. QED
    BY <2>1, <2>3 DEF n, m
<1>3. queue = <<>> => Len(queue) = 0
  BY <1>1, EmptySeq
<1>4. CASE Reinserts(g, e, slot, halted)
  <2>1. f = [e EXCEPT !.deferred = queue, !.last = slot] /\ carried.kind = "pcr"
    BY <1>4 DEF AfterSlot, Carried
  <2> HIDE DEF queue, f, carried
  <2>2. f \in Emitters /\ f.deferred = queue
    BY <1>1, <2>1 DEF Emitters
  <2>3. content = 0
    BY <2>1
  <2> DEFINE n == Len(queue)
  <2>4. n \in Nat /\ Len(f.deferred) = n
    BY <1>1, <2>2
  <2> HIDE DEF n, content
  <2>5. Len(f.deferred) + content = n
    BY <2>3, <2>4
  <2>6. QED
    BY <2>2, <2>5 DEF n
<1>5. CASE ~Reinserts(g, e, slot, halted) /\ queue = <<>>
  <2>1. f = e /\ carried.kind = "null"
    BY <1>5 DEF AfterSlot, Carried
  <2>2. Len(e.deferred) \in Nat
    BY LenProperties DEF Emitters
  <2>3. Len(e.deferred) = 0
    <3> DEFINE n == Len(e.deferred)
    <3>1. n \in Nat /\ 0 = n + IF Takes(g, slot) THEN 1 ELSE 0
      BY <1>1, <1>3, <1>5, <2>2
    <3> HIDE DEF n
    <3>2. n = 0
      BY <3>1
    <3>3. QED
      BY <3>2 DEF n
  <2> HIDE DEF queue, f, carried
  <2>4. QED
    BY <1>3, <1>5, <2>1, <2>3
<1>6. CASE ~Reinserts(g, e, slot, halted) /\ queue # <<>>
  <2>1. carried.kind = "content"
    BY <1>6 DEF Carried
  <2>2. f \in Emitters /\ f.deferred = Tail(queue)
    <3>1. CASE ~HasPcr(q.packet)
      <4>1. f = [e EXCEPT !.deferred = Tail(queue)]
        BY <1>6, <3>1 DEF AfterSlot
      <4> HIDE DEF f, queue
      <4>2. QED
        BY <1>2, <1>6, <4>1 DEF Emitters
    <3>2. CASE HasPcr(q.packet)
      <4> DEFINE phased == e.phased \/ (determined /\ Len(queue) = 1 /\ Admitted(g, slot) # <<>>)
      <4>1. f = [deferred |-> Tail(queue), phased |-> phased, last |-> slot, base |-> q.offset]
        BY <1>6, <3>2 DEF AfterSlot
      <4>2. phased \in BOOLEAN
        OBVIOUS
      <4>3. q.offset \in Int
        BY <1>2, <1>6 DEF Admissions
      <4> HIDE DEF f, queue, q, phased
      <4>4. QED
        BY <1>2, <1>6, <4>1, <4>2, <4>3 DEF Emitters
    <3>3. QED
      BY <3>1, <3>2
  <2> HIDE DEF queue, f, carried
  <2>3. QED
    BY <1>1, <1>2, <1>6, <2>1, <2>2
<1>7. QED
  BY <1>4, <1>5, <1>6
-----------------------------------------------------------------------------
(* The reading of a datagram is a choice of two, and what a feed sends is a  *)
(* packet.                                                                   *)
LEMMA ReadingType ==
  /\ Stalled \in BOOLEAN /\ CatchesUp \in BOOLEAN
  /\ \A g, from, to : Determined(g, from, to) \in BOOLEAN
  BY Zenon DEF Stalled, CatchesUp, Determined

LEMMA SendingType ==
  ASSUME LegType, path.next <= Len(Sending)
  PROVE  Sending[path.next] \in Packets
<1>1. Sending \in Seq(Packets) /\ path.next \in Nat \ {0}
  BY FeedsAssumption DEF LegType, Sending, FeedsAssumption, Paths
<1>2. path.next \in 1 .. Len(Sending)
  BY <1>1, LenProperties
<1>3. QED
  BY <1>1, <1>2, ElementOfSeq

(* The jump to the live edge is one ahead. *)
LEMMA CatchUpType ==
  ASSUME LegType
  PROVE  CaughtUp \in Clocks /\ CaughtUp.slot >= clock.slot
<1>1. clock \in Clocks /\ now \in Int /\ clock.slot \in Int
  BY DEF LegType, Clocks
<1>2. CASE ~CatchesUp
  BY <1>1, <1>2 DEF CaughtUp
<1>3. CASE CatchesUp
  <2> DEFINE edge == Aligned(Greatest(LastSlot(grid) - LatencyToPackets(Latency), 0))
  <2>1. LatencyToPackets(Latency) \in Int /\ LastSlot(grid) \in Int
    BY <1>3, LegNumbers, SlotsAreNumbers, EdgeType DEF LegType, CatchesUp
  <2>2. Greatest(LastSlot(grid) - LatencyToPackets(Latency), 0) \in Int
    BY <2>1 DEF Greatest
  <2>3. edge \in Int
    BY <2>2, SlotsAreNumbers
  <2>4. CaughtUp = [anchor |-> now, from |-> edge, slot |-> edge] /\ edge > clock.slot
    BY <1>3 DEF CaughtUp, CatchesUp
  <2> HIDE DEF edge
  <2>5. QED
    BY <1>1, <2>3, <2>4 DEF Clocks
<1>4. QED
  BY <1>2, <1>3

(* What a slot does to the leg. *)
LEMMA EmitKeeps ==
  ASSUME LegType, EmitSlot
  PROVE  /\ GridInv(grid') /\ emitter' \in Emitters /\ count' \in Counts
         /\ Held(grid') + Len(emitter'.deferred) + count'.sent + count'.withheld + count'.late
              = Held(grid) + Len(emitter.deferred) + count.sent + count.withheld + count.late
         /\ count'.begun = count.begun
<1> DEFINE slot    == clock.slot
           carried == Carried(grid, emitter, slot, datagram.stalled)
           content == ContentIn(grid, emitter, slot, datagram.stalled)
           sent     == IF datagram.send THEN content ELSE 0
           withheld == IF datagram.send THEN 0 ELSE content
           late     == LateAt(grid, slot)
           passed   == PassedAt(grid, slot)
           taken    == TakenIn(grid, slot)
<1>1. datagram \in Datagrams /\ slot \in Int /\ GridInv(grid) /\ emitter \in Emitters /\ count \in Counts
  BY DEF LegType, EmitSlot, Clocks
<1>2. datagram.stalled \in BOOLEAN /\ datagram.determined \in BOOLEAN
  BY <1>1 DEF Datagrams
<1>3. /\ emitter' = AfterSlot(grid, emitter, slot, datagram.stalled, datagram.determined)
      /\ grid' = TakeGrid(grid, slot)
      /\ count' = [count EXCEPT !.sent = count.sent + sent, !.withheld = count.withheld + withheld,
                                !.late = count.late + late]
  BY DEF EmitSlot, ContentIn
<1> HIDE DEF slot
<1>4. emitter' \in Emitters /\ Len(emitter'.deferred) + content = Len(emitter.deferred) + taken
  <2> DEFINE f == AfterSlot(grid, emitter, slot, datagram.stalled, datagram.determined)
  <2>1. f \in Emitters /\ Balanced(grid, emitter, f, slot, datagram.stalled)
    BY <1>1, <1>2, SlotKeeps
  <2>2. emitter' = f
    BY <1>3
  <2> HIDE DEF f
  <2>3. QED
    BY <2>1, <2>2, Zenon DEF Balanced
<1>5. GridInv(grid') /\ passed \in 0 .. Len(grid.placed) /\ Held(grid') = Held(grid) - passed
  <2>1. /\ GridInv(TakeGrid(grid, slot)) /\ passed \in 0 .. Len(grid.placed)
        /\ Held(TakeGrid(grid, slot)) = Held(grid) - passed
    BY <1>1, TakeKeeps
  <2> HIDE DEF passed
  <2>2. QED
    BY <1>3, <2>1
<1>6. late = passed - taken /\ (taken = 1 => passed > 0) /\ taken \in {0, 1}
  <2>1. late = passed - taken
    BY DEF LateAt, TakenIn
  <2>2. Takes(grid, slot) => passed > 0
    BY DEF Takes
  <2>3. (taken = 1 <=> Takes(grid, slot)) /\ taken \in {0, 1}
    BY DEF TakenIn
  <2> HIDE DEF late, passed, taken
  <2>4. QED
    BY <2>1, <2>2, <2>3
<1>7. sent + withheld = content /\ sent \in {0, 1} /\ withheld \in {0, 1} /\ content \in {0, 1}
  BY DEF ContentIn
<1>8. passed \in Nat /\ Held(grid) \in Int
  <2>1. Len(grid.placed) \in Nat
    BY <1>1, LenProperties DEF GridInv, Grids
  <2>2. Held(grid) \in Nat
    BY <1>1, HeldIsCounted
  <2> HIDE DEF passed
  <2>3. QED
    BY <1>5, <2>1, <2>2
<1> HIDE DEF content, sent, withheld, late, passed, taken
<1>9. late \in Nat
  BY <1>6, <1>8
<1>10. /\ count' \in Counts /\ count'.begun = count.begun
       /\ count'.sent = count.sent + sent /\ count'.withheld = count.withheld + withheld
       /\ count'.late = count.late + late
  <2>1. count.sent + sent \in Nat /\ count.withheld + withheld \in Nat /\ count.late + late \in Nat
    BY <1>1, <1>7, <1>9 DEF Counts
  <2>2. QED
    BY <1>1, <1>3, <2>1 DEF Counts
<1>11. Held(grid') + Len(emitter'.deferred) + count'.sent + count'.withheld + count'.late
        = Held(grid) + Len(emitter.deferred) + count.sent + count.withheld + count.late
  <2> DEFINE d == Len(emitter.deferred)
             f == Len(emitter'.deferred)
             a == count.sent
             b == count.withheld
             c == count.late
             h == Held(grid)
  <2>1. d \in Nat /\ f \in Nat /\ a \in Nat /\ b \in Nat /\ c \in Nat /\ h \in Int
    BY <1>1, <1>4, <1>8, LenProperties DEF Emitters, Counts
  <2>2. f + content = d + taken
    BY <1>4
  <2>3. /\ count'.sent = a + sent /\ count'.withheld = b + withheld /\ count'.late = c + late
        /\ Held(grid') = h - passed
    BY <1>5, <1>10
  <2> HIDE DEF d, f, a, b, c, h
  <2>4. (h - passed) + f + (a + sent) + (b + withheld) + (c + late) = h + d + a + b + c
    BY <1>6, <1>7, <1>8, <2>1, <2>2
  <2>5. QED
    BY <2>3, <2>4 DEF d, f, a, b, c, h
<1>12. QED
  BY <1>4, <1>5, <1>10, <1>11

LEMMA TypeStep == LegType /\ [Next]_vars => LegType'
<1> SUFFICES ASSUME LegType, [Next]_vars PROVE LegType'
  OBVIOUS
<1>0. /\ now \in Int /\ feed \in DOMAIN Feeds /\ path \in Paths
      /\ clock \in Clocks /\ GridInv(grid) /\ emitter \in Emitters /\ align \in Watches
      /\ datagram \in Datagrams \cup {None} /\ count \in Counts
  BY DEF LegType
<1>1. CASE Deliver
  <2>1. /\ GridInv(grid') /\ align' \in Watches /\ clock' \in Clocks
    BY <1>1, SendingType, EnqueueKeeps DEF Deliver
  <2>2. path' \in Paths
    <3>1. path' = [path EXCEPT !.next = path.next + 1, !.received = path.received + 1]
      BY <1>1 DEF Deliver
    <3>2. path.next + 1 \in Nat \ {0} /\ path.received + 1 \in Nat
      BY <1>0 DEF Paths
    <3>3. QED
      BY <1>0, <3>1, <3>2 DEF Paths
  <2>3. QED
    BY <1>0, <1>1, <2>1, <2>2 DEF Deliver, LegType, setting
<1>2. CASE Lose
  <2>1. PICK end \in path.next + 1 .. Len(Sending) + 1 : path' = [path EXCEPT !.next = end, !.lost = path.lost + 1]
    BY <1>2 DEF Lose
  <2>2. end \in Nat \ {0} /\ path.lost + 1 \in Nat
    BY <1>0, <2>1 DEF Paths
  <2>3. path' \in Paths
    BY <1>0, <2>1, <2>2 DEF Paths
  <2>4. QED
    BY <1>0, <1>2, <2>3 DEF Lose, LegType, setting
<1>3. CASE Silent
  <2>1. clock' \in Clocks
    BY <1>0, <1>3, LegNumbers DEF Silent, Clocks
  <2>2. QED
    BY <1>0, <1>3, <2>1 DEF Silent, LegType, setting
<1>4. CASE End
  <2>1. clock' \in Clocks /\ align' \in Watches
    BY <1>0, <1>4 DEF End, Clocks, Watches
  <2>2. GridInv(grid')
    BY <1>0, <1>4, FlushKeeps DEF End
  <2>3. QED
    BY <1>0, <1>4, <2>1, <2>2 DEF End, LegType, setting
<1>5. CASE MuteSlot
  <2>1. clock' \in Clocks /\ emitter' \in Emitters
    <3>1. /\ clock' = [clock EXCEPT !.slot = clock.slot + PacketsPerDatagram]
          /\ emitter' = [emitter EXCEPT !.phased = FALSE]
      BY <1>5 DEF MuteSlot
    <3>2. clock.slot + PacketsPerDatagram \in Int
      BY <1>0, LegNumbers DEF Clocks
    <3>3. QED
      BY <1>0, <3>1, <3>2 DEF Clocks, Emitters
  <2>2. QED
    BY <1>0, <1>5, <2>1 DEF MuteSlot, LegType, setting
<1>6. CASE OpenDatagram
  <2> DEFINE determined == ~Stalled /\ Determined(grid, CaughtUp.slot, CaughtUp.slot + PacketsPerDatagram)
             phased == emitter.phased /\ ~CatchesUp /\ determined
             shed == IF CatchesUp THEN Len(emitter.deferred) ELSE 0
             deferred == IF CatchesUp THEN <<>> ELSE emitter.deferred
             halted == Stalled
  <2>1. /\ clock' = CaughtUp
        /\ emitter' = [emitter EXCEPT !.deferred = deferred, !.phased = phased]
        /\ datagram' = [left |-> PacketsPerDatagram, next |-> clock.slot, stalled |-> halted,
                        determined |-> determined, send |-> phased]
        /\ count' = [count EXCEPT !.late = count.late + shed, !.begun = 1]
        /\ align' = IF CatchesUp THEN [align EXCEPT !.fastest = None] ELSE align
        /\ UNCHANGED <<now, setting, path, grid>>
    BY <1>6 DEF OpenDatagram
  <2>2. determined \in BOOLEAN /\ phased \in BOOLEAN /\ halted \in BOOLEAN
    BY ReadingType, Zenon
  <2>3. shed \in Nat /\ deferred \in Seq(Admissions)
    BY <1>0, LenProperties DEF Emitters
  <2> HIDE DEF determined, phased, halted, shed, deferred
  <2>4. clock' \in Clocks
    BY <2>1, CatchUpType
  <2>5. emitter' \in Emitters
    BY <1>0, <2>1, <2>2, <2>3 DEF Emitters
  <2>6. datagram' \in Datagrams
    BY <1>0, <2>1, <2>2, LegNumbers DEF Datagrams, Clocks
  <2>7. count' \in Counts /\ align' \in Watches
    <3>1. count.late + shed \in Nat
      BY <1>0, <2>3 DEF Counts
    <3>2. QED
      BY <1>0, <2>1, <3>1 DEF Counts, Watches
  <2>8. QED
    BY <1>0, <2>1, <2>4, <2>5, <2>6, <2>7 DEF LegType, setting
<1>7. CASE EmitSlot
  <2>1. GridInv(grid') /\ emitter' \in Emitters /\ count' \in Counts
    BY <1>7, EmitKeeps
  <2>2. clock' \in Clocks
    <3>1. clock' = [clock EXCEPT !.slot = clock.slot + 1]
      BY <1>7 DEF EmitSlot
    <3>2. QED
      BY <1>0, <3>1 DEF Clocks
  <2>3. datagram' \in Datagrams \cup {None}
    <3>1. datagram \in Datagrams
      BY <1>0, <1>7 DEF EmitSlot
    <3>2. datagram' = IF datagram.left > 1
                        THEN [datagram EXCEPT !.left = datagram.left - 1, !.next = datagram.next + 1]
                        ELSE None
      BY <1>7 DEF EmitSlot
    <3>3. datagram.next + 1 \in Int /\ (datagram.left > 1 => datagram.left - 1 \in Nat)
      BY <3>1 DEF Datagrams
    <3>4. QED
      BY <3>1, <3>2, <3>3 DEF Datagrams
  <2>4. QED
    BY <1>0, <1>7, <2>1, <2>2, <2>3 DEF EmitSlot, LegType, setting
<1>8. CASE Finish
  BY <1>0, <1>8 DEF Finish, LegType, setting
<1>9. CASE Tick
  BY <1>0, <1>9 DEF Tick, LegType, setting
<1>10. CASE UNCHANGED vars
  BY <1>0, <1>10 DEF vars, LegType, setting
<1>11. QED
  BY <1>1, <1>2, <1>3, <1>4, <1>5, <1>6, <1>7, <1>8, <1>9, <1>10 DEF Next
-----------------------------------------------------------------------------
(* The order of the grid is an invariant of every leg, so no two packets     *)
(* share a slot: for every feed, loss and delay, through wraps and splices.  *)
THEOREM PlacesRise == Spec => []PlacedRise
<1>1. LegType => PlacedRise
  <2> SUFFICES ASSUME GridInv(grid) PROVE PlacedRise
    BY DEF LegType
  <2>1. /\ grid.placed \in Seq(Places) /\ grid.bases \in Seq(Bases)
        /\ Len(grid.placed) \in Nat /\ Len(grid.bases) \in Nat
    BY LenProperties DEF GridInv, Grids
  <2>2. ASSUME NEW i \in 1 .. Len(grid.placed)
        PROVE  /\ grid.placed[i].slot < grid.nextFree
               /\ i > 1 => grid.placed[i - 1].slot < grid.placed[i].slot
    <3>1. i > 1 => i - 1 \in 1 .. Len(grid.placed) /\ i - 1 < i
      BY <2>1
    <3>2. QED
      BY <3>1 DEF GridInv, PlacedInOrder, Rising, Below
  <2>3. ASSUME NEW i \in 1 .. Len(grid.bases)
        PROVE  /\ grid.bases[i].slot < grid.nextFree
               /\ i > 1 => /\ grid.bases[i - 1].slot < grid.bases[i].slot
                           /\ grid.bases[i - 1].offset # grid.bases[i].offset
    <3>1. i > 1 => i - 1 \in 1 .. Len(grid.bases) /\ i - 1 < i /\ i \in 2 .. Len(grid.bases)
      BY <2>1
    <3>2. QED
      BY <3>1 DEF GridInv, BasesInOrder, Rising, Below, Changing
  <2>4. QED
    BY <2>2, <2>3 DEF PlacedRise
<1>2. QED
  BY <1>1, InitLeg, TypeStep, PTL DEF Spec

(* Where every packet the leg received is. *)
AccountInv ==
  path.received = count.sent + count.withheld + count.late + Held(grid) + Len(emitter.deferred)

LEMMA AccountStep == LegType /\ AccountInv /\ [Next]_vars => AccountInv'
<1> SUFFICES ASSUME LegType, AccountInv, [Next]_vars PROVE AccountInv'
  OBVIOUS
<1> DEFINE a == count.sent
           b == count.withheld
           c == count.late
           h == Held(grid)
           d == Len(emitter.deferred)
<1>0. /\ path \in Paths /\ count \in Counts /\ emitter \in Emitters /\ GridInv(grid)
      /\ path.received = a + b + c + h + d
  BY DEF LegType, AccountInv
<1>a. a \in Nat /\ b \in Nat /\ c \in Nat /\ h \in Nat /\ d \in Nat
  <2>1. a \in Nat /\ b \in Nat /\ c \in Nat /\ d \in Nat
    BY <1>0, LenProperties DEF Counts, Emitters
  <2>2. Held(grid) \in Nat
    BY <1>0, HeldIsCounted
  <2>3. QED
    BY <2>1, <2>2
<1>1. CASE Deliver
  <2>1. Held(grid') = h + 1 /\ path'.received = path.received + 1 /\ count' = count /\ emitter' = emitter
    BY <1>0, <1>1, SendingType, EnqueueKeeps DEF Deliver, Paths
  <2> HIDE DEF a, b, c, h, d
  <2>2. a + b + c + h + d + 1 = a + b + c + (h + 1) + d
    BY <1>a
  <2>3. QED
    BY <1>0, <2>1, <2>2 DEF AccountInv, a, b, c, d
<1>2. CASE End
  <2>1. Held(grid') = h /\ UNCHANGED <<path, count, emitter>>
    BY <1>0, <1>2, FlushKeeps DEF End
  <2>2. QED
    BY <1>0, <2>1 DEF AccountInv
<1>3. CASE OpenDatagram
  <2> DEFINE shed == IF CatchesUp THEN Len(emitter.deferred) ELSE 0
             deferred == IF CatchesUp THEN <<>> ELSE emitter.deferred
  <2>1. /\ emitter'.deferred = deferred /\ count'.late = c + shed
        /\ count'.sent = a /\ count'.withheld = b /\ UNCHANGED <<path, grid>>
    BY <1>0, <1>3 DEF OpenDatagram, Emitters, Counts
  <2>2. Len(deferred) + shed = d
    <3>1. Len(<<>>) = 0
      OBVIOUS
    <3> HIDE DEF a, b, c, h
    <3>2. QED
      BY <1>a, <3>1
  <2> DEFINE f == Len(deferred)
  <2>3. f \in Nat /\ shed \in Nat /\ f + shed = d
    BY <1>a, <2>2
  <2>4. Len(emitter'.deferred) = f
    BY <2>1
  <2> HIDE DEF a, b, c, h, d, f, shed, deferred
  <2>5. a + b + c + h + d = a + b + (c + shed) + h + f
    BY <1>a, <2>3
  <2>6. QED
    BY <1>0, <2>1, <2>4, <2>5 DEF AccountInv, h
<1>4. CASE EmitSlot
  <2> DEFINE a2 == count'.sent
             b2 == count'.withheld
             c2 == count'.late
             h2 == Held(grid')
             d2 == Len(emitter'.deferred)
  <2>1. h2 + d2 + a2 + b2 + c2 = h + d + a + b + c /\ path' = path
    BY <1>4, EmitKeeps DEF EmitSlot
  <2>2. a2 \in Nat /\ b2 \in Nat /\ c2 \in Nat /\ h2 \in Nat /\ d2 \in Nat
    <3>1. GridInv(grid') /\ emitter' \in Emitters /\ count' \in Counts
      BY <1>4, EmitKeeps
    <3>2. a2 \in Nat /\ b2 \in Nat /\ c2 \in Nat /\ d2 \in Nat
      BY <3>1, LenProperties DEF Counts, Emitters
    <3>3. Held(grid') \in Nat
      BY <3>1, HeldIsCounted
    <3>4. QED
      BY <3>2, <3>3
  <2>3. AccountInv' <=> path'.received = a2 + b2 + c2 + h2 + d2
    BY DEF AccountInv
  <2> HIDE DEF a, b, c, h, d, a2, b2, c2, h2, d2
  <2>4. a2 + b2 + c2 + h2 + d2 = a + b + c + h + d
    BY <1>a, <2>1, <2>2
  <2>5. QED
    BY <1>0, <2>1, <2>3, <2>4
<1>5. CASE Lose
  <2>1. path'.received = path.received /\ UNCHANGED <<count, grid, emitter>>
    BY <1>0, <1>5 DEF Lose, Paths
  <2>2. QED
    BY <1>0, <2>1 DEF AccountInv
<1>6. CASE MuteSlot
  <2>1. emitter'.deferred = emitter.deferred /\ UNCHANGED <<path, count, grid>>
    BY <1>0, <1>6 DEF MuteSlot, Emitters
  <2>2. QED
    BY <1>0, <2>1 DEF AccountInv
<1>7. CASE Silent \/ Finish \/ Tick \/ UNCHANGED vars
  <2>1. UNCHANGED <<path, count, grid, emitter>>
    BY <1>7 DEF Silent, Finish, Tick, vars
  <2>2. QED
    BY <1>0, <2>1 DEF AccountInv
<1>8. QED
  BY <1>1, <1>2, <1>3, <1>4, <1>5, <1>6, <1>7 DEF Next

(* No packet the leg received goes missing: whatever the path did and the    *)
(* catch-up shed, each is sent, withheld, dropped and counted, or held.      *)
THEOREM AllAccounted == Spec => []Accounted
<1>1. Init => AccountInv
  <2> SUFFICES ASSUME Init PROVE AccountInv
    OBVIOUS
  <2>1. Len(<<>>) = 0
    OBVIOUS
  <2>2. Held(grid) = 0 /\ Len(emitter.deferred) = 0
    BY <2>1 DEF Init, Held, NewGrid, NewEmitter
  <2>3. QED
    BY <2>2 DEF Init, AccountInv
<1>2. LegType /\ AccountInv => Accounted
  <2> SUFFICES ASSUME LegType, AccountInv PROVE Accounted
    OBVIOUS
  <2> DEFINE a == count.sent
             b == count.withheld
             c == count.late
             d == Len(emitter.deferred)
             cut == grid.cut
             shed == grid.shed
             run == Len(grid.run)
             placed == Len(grid.placed)
  <2>1. /\ a \in Nat /\ b \in Nat /\ c \in Nat /\ d \in Nat
        /\ cut \in Nat /\ shed \in Nat /\ run \in Nat /\ placed \in Nat
    BY LenProperties DEF LegType, Counts, Emitters, GridInv, Grids
  <2>2. path.received = a + b + c + (cut + shed + run + placed) + d
    BY DEF AccountInv, Held
  <2>3. Accounted <=> path.received = a + b + c + cut + shed + run + placed + d
    BY DEF Accounted
  <2> HIDE DEF a, b, c, d, cut, shed, run, placed
  <2>4. QED
    BY <2>1, <2>2, <2>3
<1>3. QED
  BY <1>1, <1>2, InitLeg, TypeStep, AccountStep, PTL DEF Spec

(* The number of the next slot sent lies above all sent before.              *)
NumberInv ==
  /\ wire # None => /\ count.begun = 1 /\ wire.slot \in Int
                    /\ wire.slot < IF datagram = None THEN clock.slot ELSE datagram.next
  /\ datagram # None => count.begun = 1 /\ datagram.next <= clock.slot

LEMMA NumberStep == LegType /\ NumberInv /\ [Next]_vars => NumberInv'
<1> SUFFICES ASSUME LegType, NumberInv, [Next]_vars PROVE NumberInv'
  OBVIOUS
<1>0. clock \in Clocks /\ clock.slot \in Int /\ count \in Counts /\ datagram \in Datagrams \cup {None}
  BY DEF LegType, Clocks
<1>1. CASE Deliver
  <2>1. datagram = None /\ UNCHANGED <<datagram, wire, count>>
    BY <1>1 DEF Deliver, Polling, Idle
  <2>2. count.begun # 0 => clock' = clock
    BY <1>1, SendingType, EnqueueKeeps DEF Deliver
  <2>3. QED
    BY <2>1, <2>2 DEF NumberInv
<1>2. CASE Silent \/ End
  <2>1. clock'.slot = clock.slot /\ UNCHANGED <<datagram, wire, count>>
    BY <1>0, <1>2 DEF Silent, End, Clocks
  <2>2. QED
    BY <2>1 DEF NumberInv
<1>3. CASE MuteSlot
  <2>1. datagram = None /\ clock'.slot = clock.slot + PacketsPerDatagram /\ UNCHANGED <<datagram, wire, count>>
    BY <1>0, <1>3 DEF MuteSlot, Due, Idle, Clocks
  <2>2. clock'.slot \in Int /\ clock'.slot > clock.slot
    BY <1>0, <2>1, LegNumbers
  <2>3. QED
    BY <1>0, <2>1, <2>2 DEF NumberInv
<1>4. CASE OpenDatagram
  <2>1. /\ datagram = None /\ datagram'.next = clock.slot /\ clock' = CaughtUp
        /\ count'.begun = 1 /\ wire' = wire
    BY <1>0, <1>4 DEF OpenDatagram, Due, Idle, Counts
  <2>2. clock'.slot \in Int /\ clock'.slot >= clock.slot
    BY <2>1, CatchUpType DEF Clocks
  <2>3. wire # None => wire.slot \in Int /\ wire.slot < clock.slot
    BY <2>1 DEF NumberInv
  <2>4. QED
    BY <1>0, <2>1, <2>2, <2>3 DEF NumberInv
<1>5. CASE EmitSlot
  <2>1. datagram \in Datagrams /\ datagram.next \in Int /\ datagram.next <= clock.slot /\ count.begun = 1
    BY <1>0, <1>5 DEF EmitSlot, NumberInv, Datagrams
  <2>2. clock'.slot = clock.slot + 1 /\ count'.begun = 1
    BY <1>0, <1>5, <2>1, EmitKeeps DEF EmitSlot, Clocks
  <2>3. wire' # None => wire'.slot \in Int /\ wire'.slot <= datagram.next
    <3>1. CASE datagram.send
      <4>1. wire'.slot = datagram.next
        BY <1>5, <3>1 DEF EmitSlot, Sends
      <4>2. QED
        BY <2>1, <4>1
    <3>2. CASE ~datagram.send
      <4>1. wire' = wire
        BY <1>5, <3>2 DEF EmitSlot
      <4>2. QED
        BY <1>5, <2>1, <4>1 DEF EmitSlot, NumberInv
    <3>3. QED
      BY <3>1, <3>2
  <2>4. CASE datagram.left > 1
    <3>1. datagram'.next = datagram.next + 1
      BY <1>5, <2>1, <2>4 DEF EmitSlot, Datagrams
    <3>2. QED
      BY <1>0, <2>1, <2>2, <2>3, <3>1 DEF NumberInv
  <2>5. CASE ~(datagram.left > 1)
    <3>1. datagram' = None
      BY <1>5, <2>5 DEF EmitSlot
    <3>2. QED
      BY <1>0, <2>1, <2>2, <2>3, <3>1 DEF NumberInv
  <2>6. QED
    BY <2>4, <2>5
<1>6. CASE Lose \/ Finish \/ Tick \/ UNCHANGED vars
  <2>1. UNCHANGED <<clock, datagram, wire, count>>
    BY <1>6 DEF Lose, Finish, Tick, vars
  <2>2. QED
    BY <2>1 DEF NumberInv
<1>7. QED
  BY <1>1, <1>2, <1>3, <1>4, <1>5, <1>6 DEF Next

(* Sequence numbers rise, whatever moves the output clock.                   *)
THEOREM NumbersAlwaysRise == Spec => NumbersRise
<1>1. Init => NumberInv
  BY DEF Init, NumberInv
<1>2. LegType /\ NumberInv /\ [Next]_vars => [wire # None => wire'.slot > wire.slot]_wire
  <2> SUFFICES ASSUME LegType, NumberInv, [Next]_vars, wire' # wire, wire # None
               PROVE  wire'.slot > wire.slot
    OBVIOUS
  <2>1. EmitSlot /\ datagram # None
    BY DEF Next, Deliver, Lose, Silent, End, MuteSlot, OpenDatagram, EmitSlot, Finish, Tick, vars
  <2>2. datagram.send /\ wire' = Sends(datagram.next, Carried(grid, emitter, clock.slot, datagram.stalled))
    BY <2>1 DEF EmitSlot
  <2>3. wire'.slot = datagram.next
    BY <2>2 DEF Sends
  <2>4. wire.slot \in Int /\ datagram.next \in Int /\ wire.slot < datagram.next
    BY <2>1 DEF NumberInv, LegType, Datagrams
  <2>5. QED
    BY <2>3, <2>4
<1>3. QED
  BY <1>1, <1>2, InitLeg, TypeStep, NumberStep, PTL DEF Spec, NumbersRise
=============================================================================
