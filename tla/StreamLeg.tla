----------------------------- MODULE StreamLeg ------------------------------
(***************************************************************************)
(* One leg of a redundant pair under stream clocking: the loop of pace_with *)
(* over the Scheduler with its StreamGrid, fed over a path that delays      *)
(* packets and loses stretches of the stream.                               *)
(*                                                                         *)
(* What the leg is measured against is partner: what an ideal partner,    *)
(* that received every packet in time, puts in each slot.  Two legs that    *)
(* agree with it agree with each other, whatever either missed.             *)
(*                                                                         *)
(* A feed is what the source sends: a sequence of packets, each with what    *)
(* the engine reads of it, the instant it is sent at (at), when the path    *)
(* hands it to this leg (after .. by), the object it travels in (obj, lost  *)
(* whole or not at all) and whether the path may lose it (lossy).           *)
(***************************************************************************)
EXTENDS StreamGrid

CONSTANTS
  PacketsPerDatagram,
  Latency,             \* the pinned cushion
  MaxLatency,          \* the pinned cap
  PcrMaxPackets,
  StallAfter,          \* the stall timeout, or None
  PollBudget,          \* the bounded wait on the source
  Feeds,               \* what the source may send, by number
  Legs                 \* the legs that each of the Feeds is sent to:
                       \*   stall - StallPolicy, "mute" or "continue"
                       \*   position - PcrPositionPolicy, "report" or "fail"
                       \*   align - how long to watch the input first, or None

CONSTANTS              \* bounds of the model, not of the code
  MaxLosses,           \* objects lost in a run
  MaxLate,             \* how late the task may be scheduled
  Horizon

ASSUME StreamLegAssumption ==
  /\ {PacketsPerDatagram, PcrMaxPackets} \subseteq Nat \ {0}
  /\ {Latency, MaxLatency, PollBudget, MaxLosses, MaxLate, Horizon} \subseteq Nat
  /\ Latency <= MaxLatency                                  \* Config::validate
  /\ Feeds # <<>> /\ DOMAIN Legs = DOMAIN Feeds
  /\ \A f \in DOMAIN Legs :
       Legs[f] \subseteq [stall : {"mute", "continue"}, position : {"report", "fail"},
                         align : Nat \cup {None}]
  /\ StallAfter \in Nat \cup {None}
  /\ None \notin [at : Int, slot : Int]         \* an arrival was watched
  /\ TicksOf(PcrMaxPackets) + 1 < PcrWrap       \* a PCR interval, and a wrap is 26 hours

(* What the engine reads of a packet, and what the path does with it. *)
Packets ==
  [id : Nat, pid : Pids, cc : 0 .. CcModulo - 1, payload : BOOLEAN, pcr : Nat \cup {None},
   di : BOOLEAN, at : Nat, after : Nat, by : Nat, obj : Nat, lossy : BOOLEAN]

ASSUME FeedsAssumption ==
  \A f \in DOMAIN Feeds :
    /\ Feeds[f] \in Seq(Packets)
    /\ \A i \in 1 .. Len(Feeds[f]) :
         /\ Feeds[f][i].id = i                   \* named by its place
         /\ Feeds[f][i].pcr # None => Feeds[f][i].pcr < PcrWrap

VARIABLES
  now,          \* the wall clock
  feed,         \* which of the Feeds the source sends
  leg,          \* how this leg is configured
  partner,      \* what an ideal partner sends in each slot
  path,         \* packets of it past the path, objects lost, and those received
  clock,        \* the output clock: anchor, the slot it is at, the next slot
  grid,
  emitter,      \* deferred content, phase, last PCR and its base
  align,        \* what an aligned leg has watched: since when, and what came soonest
  source,       \* when content last arrived, stalled, closing, since when it is waited for
  datagram,     \* None, or the datagram being emitted
  wire,         \* None, or the last slot sent, what it carried and the last PCR
  count         \* content sent, content withheld, late drops, and slots begun

setting == <<feed, leg, partner>>
vars == <<now, setting, path, clock, grid, emitter, align, source, datagram, wire, count>>
-----------------------------------------------------------------------------
LatencyToPackets(d) == (d * MuxRate + PacketTicks - 1) \div PacketTicks
Capacity == Greatest(LatencyToPackets(MaxLatency), 1)
Aligned(slot) == slot - (slot % PacketsPerDatagram)

NextDue == clock.anchor + TicksOf(clock.slot - clock.from)

NewEmitter == [deferred |-> <<>>, phased |-> FALSE, last |-> None, base |-> 0]

(* What one output slot does, whoever the leg is: take asks the grid, one   *)
(* packet is admitted, and a PCR pre-empts content once the repetition      *)
(* limit is reached, unless the leg is out of phase or stalled.             *)
Admitted(g, slot) ==
  IF Takes(g, slot)
    THEN <<[packet |-> TakenAt(g, slot), offset |-> TakeGrid(g, slot).takenBase,
            starts |-> StartsBase(g, slot)]>>
    ELSE <<>>
QueueAt(g, e, slot) == e.deferred \o Admitted(g, slot)

(* Mutant of Reinserts: a PCR waits for a slot nobody wants. *)
ReinsertsWhenSpare(g, e, slot, stalled) ==
  /\ ~stalled /\ e.phased /\ g.open # None
  /\ e.last # None /\ slot - e.last >= PcrMaxPackets
  /\ QueueAt(g, e, slot) = <<>>

Reinserts(g, e, slot, stalled) ==
  /\ ~stalled /\ e.phased /\ g.open # None
  /\ e.last # None /\ slot - e.last >= PcrMaxPackets
  /\ LET queue == QueueAt(g, e, slot)
     IN  ~(queue # <<>> /\ HasPcr(Head(queue).packet))

(* The packet the slot carries. *)
Carried(g, e, slot, stalled) ==
  LET queue == QueueAt(g, e, slot)
  IN  IF Reinserts(g, e, slot, stalled)
        THEN [kind |-> "pcr", id |-> None, pcr |-> PcrOn(slot, e.base), di |-> FALSE]
      ELSE IF queue = <<>>
        THEN [kind |-> "null", id |-> None, pcr |-> None, di |-> FALSE]
      ELSE LET q == Head(queue)
           IN  [kind |-> "content", id |-> q.packet.id,
                pcr |-> IF HasPcr(q.packet) THEN PcrOn(slot, q.offset) ELSE None,
                di |-> q.packet.di \/ (HasPcr(q.packet) /\ q.starts)]

(* The emitter after the slot.  A content PCR admitted into its own slot, in *)
(* a datagram the leg can know, brings the leg into phase.                   *)
AfterSlot(g, e, slot, stalled, determined) ==
  LET queue == QueueAt(g, e, slot)
      q     == Head(queue)
  IN  IF Reinserts(g, e, slot, stalled) THEN [e EXCEPT !.deferred = queue, !.last = slot]
      ELSE IF queue = <<>> THEN e
      ELSE IF ~HasPcr(q.packet) THEN [e EXCEPT !.deferred = Tail(queue)]
      ELSE [deferred |-> Tail(queue),
            phased   |-> e.phased \/ (determined /\ Len(queue) = 1 /\ Admitted(g, slot) # <<>>),
            last     |-> slot,
            base     |-> q.offset]
-----------------------------------------------------------------------------
(* The ideal partner: on the air since the first packet, missing none, and  *)
(* its clock a cushion behind the source.                                   *)
PartnerHorizon(f, at) ==
  IF at < f[1].at + Latency THEN None
  ELSE SlotOfPcr(f[1].pcr) + ((at - f[1].at - Latency) * MuxRate) \div PacketTicks + Capacity

(* Its grid after each packet it received. *)
PartnerGrids(f) ==
  LET g[i \in 0 .. Len(f)] ==
        IF i = 0 THEN NewGrid
        ELSE PushGrid(g[i - 1], f[i], f[i].at, PartnerHorizon(f, f[i].at), Len(f))
  IN  g
PartnerGrid(f) == PartnerGrids(f)[Len(f)]

(* Its grid and its emitter after each slot. *)
PartnerSlots(f) ==
  LET whole == PartnerGrid(f)
      first == whole.knownFrom
      ideal[n \in first - 1 .. whole.open.slot - 1] ==
        IF n = first - 1 THEN [grid |-> whole, emitter |-> NewEmitter]
        ELSE LET before == ideal[n - 1]
             IN  [grid    |-> TakeGrid(before.grid, n),
                  emitter |-> AfterSlot(before.grid, before.emitter, n, FALSE, TRUE)]
  IN  ideal

PartnerSends(f) ==
  LET whole == PartnerGrid(f)
      ideal == PartnerSlots(f)
  IN  [n \in whole.knownFrom .. whole.open.slot - 1 |->
         LET before == ideal[n - 1] IN Carried(before.grid, before.emitter, n, FALSE)]

Sending == Feeds[feed]
-----------------------------------------------------------------------------
HasPending == emitter.deferred # <<>> \/ HasContent(grid)
Idle == datagram = None /\ source.run = "on"

Stalled ==
  /\ source.at # None /\ clock.anchor # None /\ now >= clock.anchor
  /\ ~HasPending /\ StallAfter # None /\ now - source.at >= StallAfter

(* Mutant of Restart: the clock follows the live edge for good. *)
RestartAlways(g) ==
  IF HasContent(g)
    THEN LET start == Aligned(Greatest(LastSlot(g) - LatencyToPackets(Latency), 0))
         IN  [anchor |-> IF clock.anchor = None THEN now + Latency ELSE clock.anchor,
              from |-> start, slot |-> start]
    ELSE clock

(* Until the first datagram the clock starts at the live edge of what the    *)
(* leg holds, a release latency back, on a datagram boundary.                *)
Restart(g) ==
  IF count.begun = 0 /\ HasContent(g)
    THEN LET start == Aligned(Greatest(LastSlot(g) - LatencyToPackets(Latency), FirstSlot(g)))
         IN  [anchor |-> IF clock.anchor = None THEN now + Latency ELSE clock.anchor,
              from |-> start, slot |-> start]
    ELSE clock

(* Mutant of Gain: how long ago the reference arrived is forgotten. *)
GainOfPosition(a, edge) ==
  IF a.soonest = None \/ edge < a.soonest.slot THEN 0 ELSE TicksOf(edge - a.soonest.slot)

(* How much sooner after its stream position the content at slot edge        *)
(* arrives, now, than the content an aligned leg is tied to.                 *)
Gain(a, edge) ==
  IF a.soonest = None \/ edge < a.soonest.slot THEN 0
  ELSE Greatest(TicksOf(edge - a.soonest.slot) - (now - a.soonest.at), 0)

(* How long after the start of its stream the content at slot edge is here.  *)
DelayOf(edge) == now * MuxRate - edge * PacketTicks

(* The leg takes note of what arrives soonest until its first datagram, and  *)
(* then of what would have been sooner.                                      *)
Watch(g) ==
  LET a    == [align EXCEPT !.since = IF @ = None THEN now ELSE @]
      edge == LastSlot(g)
  IN  IF leg.align = None THEN align
      ELSE IF ~HasContent(g) THEN a
      ELSE IF count.begun > 0
        THEN [a EXCEPT !.gain = Greatest(@, Gain(a, edge)),
                       !.fastest = IF @ # None /\ DelayOf(edge) < @ THEN DelayOf(edge) ELSE @]
      ELSE [a EXCEPT !.soonest = IF @ = None \/ Gain(a, edge) > 0 THEN [at |-> now, slot |-> edge] ELSE @,
                     !.fastest = IF @ = None \/ DelayOf(edge) < @ THEN DelayOf(edge) ELSE @]

(* Once it has watched for long enough, the slot of the soonest content goes *)
(* out a release latency after it arrived, every other in proportion.        *)
AlignStart(g, a) ==
  IF count.begun = 0 /\ HasContent(g) /\ now - a.since >= leg.align
    THEN LET release == a.soonest.at + Latency
             due     == a.soonest.slot + IF now >= release THEN LatencyToPackets(now - release)
                                         ELSE -LatencyToPackets(release - now)
             start   == Aligned(Greatest(due, FirstSlot(g)))
             ahead   == start - a.soonest.slot
         IN  [anchor |-> release + IF ahead >= 0 THEN TicksOf(ahead) ELSE -TicksOf(-ahead),
              from |-> start, slot |-> start]
    ELSE clock

Enqueue(p) ==
  LET horizon == IF count.begun > 0 THEN clock.slot + Capacity ELSE None
      g       == PushGrid(grid, p, now, horizon, Capacity)
  IN  /\ grid' = g
      /\ align' = Watch(g)
      /\ clock' = IF leg.align = None THEN Restart(g) ELSE AlignStart(g, align')
      /\ source' = [source EXCEPT !.at = now, !.stalled = FALSE, !.since = now]

(* The biased select: the byte clock wins once its sleep reads ready. *)
Polling == Idle /\ ~source.closing /\ (clock.anchor # None => now < NextDue)

Deliver ==
  /\ Polling /\ path.next <= Len(Sending) /\ now >= Sending[path.next].after
  /\ Enqueue(Sending[path.next])
  /\ path' = [path EXCEPT !.next = @ + 1, !.received = @ + 1]
  /\ UNCHANGED <<now, setting, emitter, datagram, wire, count>>

(* The path loses an object whole.  Not the one a leg needs to learn the     *)
(* source's cadence from: before any interval has been seen nothing can be   *)
(* judged.                                                                   *)
Lose ==
  /\ path.next <= Len(Sending) /\ path.lost < MaxLosses
  /\ Sending[path.next].lossy /\ now >= Sending[path.next].after
  /\ grid.open # None => grid.spans # <<>>
  /\ path.next > 1 => Sending[path.next - 1].obj # Sending[path.next].obj
  /\ \E end \in path.next + 1 .. Len(Sending) + 1 :
       /\ \A i \in path.next .. end - 1 : Sending[i].obj = Sending[path.next].obj
       /\ end <= Len(Sending) => Sending[end].obj # Sending[path.next].obj
       /\ path' = [path EXCEPT !.next = end, !.lost = @ + 1]
  /\ UNCHANGED <<now, setting, clock, grid, emitter, align, source, datagram, wire, count>>

(* The bounded wait expired before anything was placed: the clock starts on  *)
(* its timer all the same, at slot 0.  An aligned leg's clock has no timer.   *)
Silent ==
  /\ Idle /\ clock.anchor = None /\ ~source.closing /\ now >= source.since + PollBudget
  /\ source' = [source EXCEPT !.since = now]
  /\ clock' = IF source.at = None \/ leg.align # None THEN clock
              ELSE [clock EXCEPT !.anchor = now + Latency]
  /\ UNCHANGED <<now, setting, path, grid, emitter, align, datagram, wire, count>>

(* The source ends: the run no PCR will close is discarded. *)
End ==
  /\ Polling /\ path.next > Len(Sending)
  /\ grid' = FlushGrid(grid)
  /\ source' = [source EXCEPT !.closing = TRUE,
                               !.run = IF clock.anchor = None /\ ~HasPending THEN "done" ELSE @]
  /\ clock' = IF clock.anchor = None /\ HasPending THEN [clock EXCEPT !.anchor = now] ELSE clock
  /\ align' = IF clock.anchor = None THEN [align EXCEPT !.fastest = None] ELSE align
  /\ UNCHANGED <<now, setting, path, emitter, datagram, wire, count>>

(* PcrPositionPolicy::Fail, looked at once a turn of the byte clock is done: *)
(* the source's PCR positions moved further from its PCR values than the     *)
(* leg may buffer.                                                           *)
Diverged == leg.position = "fail" /\ grid.displaced > Capacity
Outcome  == IF Diverged THEN "failed" ELSE "on"

Due == Idle /\ clock.anchor # None /\ now >= NextDue /\ ~(source.closing /\ ~HasPending)

(* A source that ended is drained, never muted. *)
Muting == Stalled /\ ~source.closing /\ leg.stall = "mute"

(* StallPolicy::Mute: the byte clock runs on over a silent wire. *)
MuteSlot ==
  /\ Due /\ Muting
  /\ clock' = [clock EXCEPT !.slot = @ + PacketsPerDatagram]
  /\ emitter' = [emitter EXCEPT !.phased = FALSE]
  /\ source' = [source EXCEPT !.stalled = TRUE, !.run = Outcome]
  /\ UNCHANGED <<now, setting, path, grid, align, datagram, wire, count>>

(* A leg that holds more stream than it may moves on to its live edge. *)
CatchesUp ==
  /\ HasContent(grid) /\ LastSlot(grid) - clock.slot > Capacity
  /\ Aligned(Greatest(LastSlot(grid) - LatencyToPackets(Latency), 0)) > clock.slot

CaughtUp ==
  LET edge == Aligned(Greatest(LastSlot(grid) - LatencyToPackets(Latency), 0))
  IN  IF CatchesUp THEN [anchor |-> now, from |-> edge, slot |-> edge] ELSE clock

(* The loop numbers the datagram by the slot the clock is at, then           *)
(* emit_datagram up to its first slot: the backlog is shed, and the datagram *)
(* is sent only where the leg knows what its partner sends and is in phase   *)
(* with it.                                                                  *)
OpenDatagram ==
  /\ Due /\ ~Muting
  /\ LET stalled    == Stalled
         determined == ~stalled /\ Determined(grid, CaughtUp.slot, CaughtUp.slot + PacketsPerDatagram)
         phased     == emitter.phased /\ ~CatchesUp /\ determined
     IN  /\ clock' = CaughtUp
         /\ emitter' = [emitter EXCEPT !.deferred = IF CatchesUp THEN <<>> ELSE @, !.phased = phased]
         /\ datagram' = [left |-> PacketsPerDatagram, next |-> clock.slot, stalled |-> stalled,
                         determined |-> determined, send |-> phased]
         /\ source' = [source EXCEPT !.stalled = stalled]
  /\ count' = [count EXCEPT !.late = @ + IF CatchesUp THEN Len(emitter.deferred) ELSE 0,
                            !.begun = 1]
  /\ align' = IF CatchesUp THEN [align EXCEPT !.fastest = None] ELSE align
  /\ UNCHANGED <<now, setting, path, grid, wire>>

(* The wire after a slot; its last PCR is that of the unbroken stretch.      *)
Sends(slot, carried) ==
  [slot   |-> slot,
   packet |-> carried,
   last   |-> IF carried.pcr # None THEN [slot |-> slot, pcr |-> carried.pcr]
              ELSE IF wire # None /\ wire.slot + 1 = slot THEN wire.last ELSE None]

EmitSlot ==
  /\ datagram # None
  /\ LET slot    == clock.slot
         carried == Carried(grid, emitter, slot, datagram.stalled)
         content == IF carried.kind = "content" THEN 1 ELSE 0
     IN  /\ wire' = IF datagram.send THEN Sends(datagram.next, carried) ELSE wire
         /\ emitter' = AfterSlot(grid, emitter, slot, datagram.stalled, datagram.determined)
         /\ grid' = TakeGrid(grid, slot)
         /\ count' = [count EXCEPT !.sent = @ + IF datagram.send THEN content ELSE 0,
                                   !.withheld = @ + IF datagram.send THEN 0 ELSE content,
                                   !.late = @ + LateAt(grid, slot)]
         /\ clock' = [clock EXCEPT !.slot = slot + 1]
  /\ datagram' = IF datagram.left > 1
                   THEN [datagram EXCEPT !.left = @ - 1, !.next = @ + 1] ELSE None
  /\ source' = IF datagram.left > 1 THEN source ELSE [source EXCEPT !.run = Outcome]
  /\ UNCHANGED <<now, setting, path, align>>

Finish ==
  /\ Idle /\ clock.anchor # None /\ source.closing /\ ~HasPending
  /\ source' = [source EXCEPT !.run = "done"]
  /\ UNCHANGED <<now, setting, path, clock, grid, emitter, align, datagram, wire, count>>

(* Time passes while the task waits. *)
Tick ==
  /\ Idle /\ now < Horizon
  /\ clock.anchor # None => now < NextDue + MaxLate
  /\ path.next <= Len(Sending) => now < Sending[path.next].by
  /\ now' = now + 1
  /\ UNCHANGED <<setting, path, clock, grid, emitter, align, source, datagram, wire, count>>
-----------------------------------------------------------------------------
Init ==
  /\ now = 0 /\ feed \in DOMAIN Feeds /\ leg \in Legs[feed] /\ partner = PartnerSends(Feeds[feed])
  /\ path = [next |-> 1, received |-> 0, lost |-> 0]
  /\ clock = [anchor |-> None, from |-> 0, slot |-> 0]
  /\ grid = NewGrid /\ emitter = NewEmitter
  /\ align = [since |-> None, soonest |-> None, gain |-> 0, fastest |-> None]
  /\ source = [at |-> None, stalled |-> FALSE, closing |-> FALSE, since |-> 0, run |-> "on"]
  /\ datagram = None /\ wire = None
  /\ count = [sent |-> 0, withheld |-> 0, late |-> 0, begun |-> 0]

Next == Deliver \/ Lose \/ Silent \/ End \/ MuteSlot \/ OpenDatagram \/ EmitSlot \/ Finish \/ Tick
Spec == Init /\ [][Next]_vars
-----------------------------------------------------------------------------
(* Placement: no two packets share a slot and none is out of order, whatever *)
(* overran, wrapped or was spliced, and a change of time base is recorded    *)
(* once, in order, below the first free slot.                                *)
PlacedRise ==
  /\ \A i \in 1 .. Len(grid.placed) :
       /\ grid.placed[i].slot < grid.nextFree
       /\ i > 1 => grid.placed[i - 1].slot < grid.placed[i].slot
  /\ \A i \in 1 .. Len(grid.bases) :
       /\ grid.bases[i].slot < grid.nextFree
       /\ i > 1 => /\ grid.bases[i - 1].slot < grid.bases[i].slot
                   /\ grid.bases[i - 1].offset # grid.bases[i].offset

(* Whatever the leg sends is what its partner sends under the same sequence *)
(* number: it is silent in every slot it cannot know.                       *)
NeverContradicts ==
  wire # None => wire.slot \in DOMAIN partner /\ wire.packet = partner[wire.slot]

(* Every packet received is on the wire, withheld, dropped, cut or held. *)
Accounted ==
  path.received = count.sent + count.withheld + count.late + grid.cut + grid.shed
                  + Len(grid.run) + Len(grid.placed) + Len(emitter.deferred)

(* Sequence numbers rise, whatever moves the output clock: none is sent      *)
(* twice with different packets, and none goes back.                         *)
NumbersRise == [][wire # None => wire'.slot > wire.slot]_wire

(* Within a stretch on the air a PCR is never further away than the          *)
(* repetition limit, though content wants every slot.                        *)
PcrRepeated ==
  wire # None /\ wire.last # None => wire.slot - wire.last.slot < PcrMaxPackets

(* Two PCRs of a stretch are as far apart as the bytes between them, or the  *)
(* second is flagged.                                                        *)
PcrByteLocked ==
  [][/\ wire # None /\ wire'.slot > wire.slot /\ wire'.packet.pcr # None
     /\ wire'.slot = wire.slot + 1 /\ wire.last # None
     => \/ wire'.packet.di
        \/ ForwardDelta(wire.last.pcr, wire'.packet.pcr)
             - TicksOf(wire'.slot - wire.last.slot) \in {0, 1}]_wire

(* A PCR of the source leaves on the source's own time base, through wraps   *)
(* and splices: quantised to its slot, and a slot off where its value        *)
(* wrapped or it was pre-empted, but for a tick of rounding.                 *)
PcrFollowsSource ==
  wire # None /\ wire.packet.kind = "content" /\ wire.packet.pcr # None =>
    LET stamp == Sending[wire.packet.id].pcr
    IN  \/ ForwardDelta(stamp, wire.packet.pcr) <= TicksOf(2) + 1
        \/ ForwardDelta(wire.packet.pcr, stamp) <= TicksOf(2) + 1

(* An aligned leg is in phase with its path's fastest delivery, up to the    *)
(* gain it reports and what rounding to slots costs: whatever it started on, *)
(* and until it has to move to its live edge (stats.rs:92: "The error of the *)
(* leg's phase, one-sided: zero when the watch caught the fastest delivery"). *)
InPhase ==
  leg.align # None /\ clock.anchor # None /\ align.fastest # None =>
    LET phase == clock.anchor * MuxRate - clock.from * PacketTicks - Latency * MuxRate
    IN  phase - align.fastest - align.gain * MuxRate \in -(2 * MuxRate) .. 2 * MuxRate

(* A leg whose path recovered is back on the air before its source ends, and *)
(* sends all it can know: to the end of the content, or of the last datagram *)
(* whole before the run left open.                                           *)
BackOnAir ==
  source.run = "done" => /\ wire # None
                     /\ \/ wire.slot + 1 >= grid.nextFree
                        \/ wire.slot + 1 >= Aligned(grid.open.slot)

(* What a feed that runs on is like: it starts with a PCR, its clock neither *)
(* jumps nor declares a discontinuity, and the ideal partner cuts no run.    *)
RunsOn(f) ==
  /\ f # <<>> /\ HasPcr(f[1])
  /\ \A i \in 1 .. Len(f) : PartnerGrids(f)[i].cut = 0
  /\ \A i \in 2 .. Len(f) : HasPcr(f[i]) => ~f[i].di /\ ~Jumped(PartnerGrids(f)[i - 1], f[i])

(* The ideal partner has nothing deferred where a PCR of the source is due.  *)
Settles(f) ==
  \A n \in DOMAIN PartnerSends(f) :
    LET before == PartnerSlots(f)[n - 1]
    IN  Takes(before.grid, n) /\ HasPcr(TakenAt(before.grid, n)) => before.emitter.deferred = <<>>

(* No run has more packets than slots before the PCR that closes it.         *)
Fits(f) ==
  \A i \in 1 .. Len(f) :
    HasPcr(f[i]) => PartnerGrids(f)[i].nextFree <= PartnerGrids(f)[i].open.slot

(* The PCR wraps once at most while the source sends: a wrap counts for whole *)
(* slots, and what it cuts off adds up from one to the next.                 *)
WrapsOnce(f) == \A i \in 1 .. Len(f) : PartnerGrids(f)[i].epoch \in {0, SlotsPerWrap}

(* Every interval between the source's PCRs has as many slots.               *)
EvenlySpaced(f, slots) ==
  \A a, b \in 1 .. Len(f) :
    a < b /\ HasPcr(f[a]) /\ HasPcr(f[b]) /\ (\A i \in a + 1 .. b - 1 : ~HasPcr(f[i])) =>
      PartnerGrids(f)[b].open.slot - PartnerGrids(f)[a].open.slot = slots

(* Whole objects that the path may lose lie between packets i and j: the     *)
(* counter tells that they are missing, and they hold a PCR, so that the     *)
(* interval does too.                                                        *)
MayLose(f, i, j) ==
  /\ i + 1 < j /\ f[i].obj # f[i + 1].obj /\ f[j - 1].obj # f[j].obj
  /\ \A l \in i + 1 .. j - 1 : f[l].lossy
Noticed(f, i, j) ==
  /\ f[i].payload /\ f[j].pid = f[i].pid /\ ~f[j].di
  /\ f[j].cc # f[i].cc /\ (f[j].payload => f[j].cc # (f[i].cc + 1) % CcModulo)
  /\ \E l \in i + 1 .. j - 1 : HasPcr(f[l])

(* The PCR of packet b, all since packet a's lost, is no jump: the leg was   *)
(* without long enough, and less than a wrap of the PCR.                     *)
ReadAcross(f, a, b) ==
  LET w     == PartnerGrids(f)
      delta == ForwardDelta(f[a].pcr, f[b].pcr)
  IN  /\ delta > 0 /\ (delta <= GapTicks \/ delta <= 2 * (f[b].after - f[a].by))
      /\ w[b].epoch = w[a].epoch + IF OnGrid(w[a], f[b]) < w[a].open.slot THEN SlotsPerWrap ELSE 0

(* What lets a leg recognise whatever the path may lose of a feed: its runs  *)
(* fit evenly spaced intervals shorter than a wrap, every loss is noticed,   *)
(* and the PCR after it is read on the epoch the partner has it on.          *)
Recognisable(f) ==
  /\ Fits(f) /\ \E slots \in 1 .. SlotsPerWrap : EvenlySpaced(f, slots)
  /\ \A i, j \in 1 .. Len(f) :
       /\ i < j => f[i].by <= f[j].by
       /\ f[i].obj = f[j].obj => f[i].lossy = f[j].lossy
       /\ MayLose(f, i, j) => Noticed(f, i, j)
  /\ \A b \in 1 .. Len(f) : HasPcr(f[b]) =>
       /\ (\A l \in 1 .. b - 1 : HasPcr(f[l]) => f[l].lossy) => PartnerGrids(f)[b].epoch = 0
       /\ \A a \in 1 .. b - 1 :
            /\ HasPcr(f[a]) /\ \A l \in a + 1 .. b - 1 : HasPcr(f[l]) => f[l].lossy
            /\ \E l \in a + 1 .. b - 1 : HasPcr(f[l])
            => ReadAcross(f, a, b)

(* README.md:337-339: a pacer that joins a stream already in flight lands on *)
(* the grid its partner is using.                                            *)
JoinsRunningGrid == wire # None => wire.slot \in DOMAIN partner
=============================================================================
