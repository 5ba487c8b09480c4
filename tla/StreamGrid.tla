----------------------------- MODULE StreamGrid -----------------------------
(***************************************************************************)
(* StreamGrid (scheduler.rs): where stream clocking puts each packet, from  *)
(* the delivered packets alone.  A grid is a record                        *)
(*   knownFrom  - first slot of the stretch received unbroken, or None     *)
(*   spans      - spans of the most recent closed runs                     *)
(*   cut        - packets discarded with runs no PCR closed                *)
(*   shed       - packets dropped for want of room, or before any PCR      *)
(*   continuity - per PID, None or its last counter and whether repeated   *)
(*   broken     - whether a counter broke since the open run's PCR         *)
(*   run        - the packets of the open run, its PCR first               *)
(*   open       - None, or the PCR, slot and arrival of the run's opening  *)
(*   placed     - packets awaiting their slot: [slot, packet]              *)
(*   epoch      - what keeps slots monotonic across wraps and splices      *)
(*   rebased, openBase, placedBase, takenBase - the part of epoch splices  *)
(*                made: now, at the open run, last placed, last taken      *)
(*   bases      - changes of time base among the placed: [slot, offset]    *)
(*   nextFree   - lowest slot still free                                   *)
(*   displaced  - how far placement ran past the source's PCRs, at worst   *)
(* Wall time is counted in PCR ticks.                                      *)
(***************************************************************************)
EXTENDS PcrRegen, Sequences, FiniteSets

CONSTANTS
  Pids,         \* packet identifiers
  CcModulo,     \* values of a continuity counter
  RecentSpans   \* RECENT_SPANS: closed runs remembered

ASSUME StreamGridAssumption ==
  /\ CcModulo \in Nat \ {0, 1}
  /\ RecentSpans \in Nat \ {0}
  /\ None \notin [pcr : Nat, slot : Int, at : Int]     \* no run is open
  /\ None \notin [cc : 0 .. CcModulo - 1, repeated : BOOLEAN]   \* no counter is known

MissedPcrFactor == 2

Greatest(a, b) == IF a >= b THEN a ELSE b
LastOf(s) == s[Len(s)]

NewGrid ==
  [knownFrom |-> None, spans |-> <<>>, cut |-> 0, shed |-> 0,
   continuity |-> [pid \in Pids |-> None], broken |-> FALSE,
   run |-> <<>>, open |-> None, placed |-> <<>>,
   epoch |-> 0, rebased |-> 0, openBase |-> 0, placedBase |-> 0, takenBase |-> 0,
   bases |-> <<>>, nextFree |-> 0, displaced |-> 0]

(* A payload advances its PID's counter or repeats it once; a packet without *)
(* one keeps it; a declared discontinuity resets it.                         *)
NoteContinuity(g, p) ==
  LET last     == g.continuity[p.pid]
      fresh    == [cc |-> p.cc, repeated |-> FALSE]
      resets   == last = None \/ p.di
      advances == p.payload /\ p.cc = (last.cc + 1) % CcModulo
      repeats  == p.payload /\ p.cc = last.cc /\ ~last.repeated
      keeps    == ~p.payload /\ p.cc = last.cc
  IN  [g EXCEPT !.continuity[p.pid] =
                  IF resets \/ advances THEN fresh
                  ELSE IF repeats THEN [fresh EXCEPT !.repeated = TRUE]
                  ELSE IF p.payload THEN fresh ELSE last,
                !.broken = @ \/ ~(resets \/ advances \/ repeats \/ keeps)]

(* Whether the source's clock moved before PCR packet p, which arrives since *)
(* ticks after the open run's: no silence of the leg's own accounts for the  *)
(* jump, and it lands further ahead than live content can be.                *)
Jumped(g, p) == LET delta == ForwardDelta(g.open.pcr, p.pcr) IN delta = 0 \/ delta > GapTicks
OnGrid(g, p) == SlotOfPcr(p.pcr) + g.epoch

Spliced(g, p, since, horizon) ==
  LET delta     == ForwardDelta(g.open.pcr, p.pcr)
      silent    == delta > 0 /\ delta <= IF p.di THEN since + since \div 4 ELSE 2 * since
      inHorizon == /\ delta > 0 /\ OnGrid(g, p) > g.open.slot
                   /\ horizon # None /\ OnGrid(g, p) <= horizon
  IN  (Jumped(g, p) \/ p.di) /\ ~silent /\ (p.di \/ ~inHorizon)

(* The epoch PCR packet p is on: a splice goes on where the open run ends,   *)
(* a step back that is none is the PCR value wrapping.                       *)
EpochFor(g, p, since, horizon) ==
  IF g.open = None THEN g.epoch
  ELSE IF Spliced(g, p, since, horizon)
    THEN g.open.slot + Greatest(Len(g.run), 1) - SlotOfPcr(p.pcr)
  ELSE IF OnGrid(g, p) < g.open.slot THEN g.epoch + SlotsPerWrap
  ELSE g.epoch

AfterSilence(g, p, since, horizon) ==
  ~Spliced(g, p, since, horizon) /\ OnGrid(g, p) >= g.open.slot /\ Jumped(g, p)

MissedPcrs(g, span) ==
  \E i \in 1 .. Len(g.spans) :
    /\ \A j \in 1 .. Len(g.spans) : g.spans[j] <= g.spans[i]
    /\ g.spans[i] > 0 /\ span >= g.spans[i] * MissedPcrFactor

(* Mutant of Spread: a run never starts later than its PCR asks. *)
SpreadFromPcr(g, next) ==
  LET count == Len(g.run)
      span  == Greatest(next - g.open.slot, 0)
  IN  [i \in 1 .. count |->
         [slot   |-> Greatest(g.open.slot + ((i - 1) * span) \div count, g.open.slot + i - 1),
          packet |-> g.run[i]]]

(* The run spread evenly up to the slot of its closing PCR, or from the      *)
(* first free slot on where the run before it overran: the loop's next free  *)
(* slot, solved, since even places are one slot apart or more in a run that  *)
(* fits its span and at most one in a run that does not.                     *)
Spread(g, next) ==
  LET count == Len(g.run)
      span  == Greatest(next - g.open.slot, 0)
  IN  [i \in 1 .. count |->
         [slot   |-> Greatest(g.open.slot + ((i - 1) * span) \div count,
                              Greatest(g.nextFree, g.open.slot) + i - 1),
          packet |-> g.run[i]]]

(* The oldest placed packets beyond capacity are dropped. *)
CloseRun(g, next, capacity) ==
  LET new   == Spread(g, next)
      all   == g.placed \o new
      drop  == Greatest(Len(all) - capacity, 0)
      free  == LastOf(new).slot + 1
      spans == Append(g.spans, Greatest(next - g.open.slot, 0))
  IN  [g EXCEPT !.spans = IF Len(spans) > RecentSpans THEN Tail(spans) ELSE spans,
                !.bases = IF g.openBase # g.placedBase
                            THEN Append(@, [slot |-> new[1].slot, offset |-> g.openBase]) ELSE @,
                !.placedBase = g.openBase,
                !.nextFree = free,
                !.placed = SubSeq(all, drop + 1, Len(all)),
                !.shed = @ + drop,
                !.displaced = Greatest(@, free - next)]

(* A PCR packet: it closes the open run, or cuts it where the leg missed     *)
(* what came between, and opens its own.                                     *)
PushPcr(g, p, now, horizon, capacity) ==
  LET since  == IF g.open = None THEN 0 ELSE now - g.open.at
      epoch  == EpochFor(g, p, since, horizon)
      slot   == Greatest(SlotOfPcr(p.pcr) + epoch, 0)
      moved  == IF g.open # None /\ Spliced(g, p, since, horizon) THEN epoch - g.epoch ELSE 0
      missed == \/ AfterSilence(g, p, since, horizon)
                \/ g.broken /\ MissedPcrs(g, Greatest(slot - g.open.slot, 0))
      h      == IF g.open = None THEN [g EXCEPT !.knownFrom = slot]
                ELSE IF missed THEN [g EXCEPT !.cut = @ + Len(g.run), !.knownFrom = slot]
                ELSE IF g.run = <<>> THEN g ELSE CloseRun(g, slot, capacity)
  IN  [h EXCEPT !.broken = FALSE, !.epoch = epoch, !.rebased = @ + moved,
                !.openBase = g.rebased + moved, !.run = <<p>>,
                !.open = [pcr |-> p.pcr, slot |-> slot, at |-> now]]

(* Before the first PCR there is no grid to place against. *)
PushGrid(g, p, now, horizon, capacity) ==
  LET n == NoteContinuity(g, p)
  IN  IF HasPcr(p) THEN PushPcr(n, p, now, horizon, capacity)
      ELSE IF g.open = None THEN [n EXCEPT !.shed = @ + 1]
      ELSE [n EXCEPT !.run = Append(@, p)]

(* Mutant of Determined: what the leg missed is not asked. *)
DeterminedByEdge(g, from, to) == g.open # None /\ to <= g.open.slot
(* Mutant of Determined: the last slot before the open run is left out. *)
DeterminedShort(g, from, to) ==
  g.knownFrom # None /\ g.open # None /\ g.knownFrom <= from /\ to < g.open.slot

(* Whether slots from .. to-1 hold what the stream put there, as far as the  *)
(* leg can know.                                                             *)
Determined(g, from, to) ==
  g.knownFrom # None /\ g.open # None /\ g.knownFrom <= from /\ to <= g.open.slot

(* Mutant of FlushGrid: the discarded run is not counted. *)
FlushUncounted(g) == [g EXCEPT !.run = <<>>]

FlushGrid(g) == [g EXCEPT !.cut = @ + Len(g.run), !.run = <<>>]

(* How many placed packets take passes at a slot: the late ones, and then   *)
(* the slot's own.                                                           *)
PassedAt(g, slot) == Cardinality({i \in 1 .. Len(g.placed) : g.placed[i].slot <= slot})
Takes(g, slot)   == PassedAt(g, slot) > 0 /\ g.placed[PassedAt(g, slot)].slot = slot
TakenAt(g, slot) == g.placed[PassedAt(g, slot)].packet
LateAt(g, slot)  == PassedAt(g, slot) - IF Takes(g, slot) THEN 1 ELSE 0

(* The time bases that begin no later than the last packet passed are over.  *)
BasesUsed(g, slot) ==
  LET passed == PassedAt(g, slot)
  IN  Cardinality({i \in 1 .. Len(g.bases) :
                     passed > 0 /\ g.bases[i].slot <= g.placed[passed].slot})

TakeGrid(g, slot) ==
  LET used == BasesUsed(g, slot)
  IN  [g EXCEPT !.placed = SubSeq(@, PassedAt(g, slot) + 1, Len(@)),
                !.bases = SubSeq(@, used + 1, Len(@)),
                !.takenBase = IF used = 0 THEN @ ELSE g.bases[used].offset]

(* Mutant of StartsBase: asked after the slot has passed. *)
StartsBaseLate(g, slot) == \E i \in 1 .. Len(g.bases) : g.bases[i].slot < slot

(* Whether the packet at slot is the first on its time base. *)
StartsBase(g, slot) == \E i \in 1 .. Len(g.bases) : g.bases[i].slot = slot

(* Mutant of PcrOn: the time base is forgotten. *)
PcrOnGrid(slot, offset) == PcrOfSlot(slot)

(* The PCR of a slot on a time base offset slots from the grid. *)
PcrOn(slot, offset) == PcrOfSlot(Greatest(slot - offset, 0))

HasContent(g) == g.placed # <<>>
FirstSlot(g) == g.placed[1].slot
LastSlot(g)  == LastOf(g.placed).slot
=============================================================================
