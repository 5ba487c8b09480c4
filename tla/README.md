# Formal verification of mpegts-pacer

TLA+ models of the pacing engine of `mpegts-pacer`, the TLC configurations that
check them on small instances, and theorems about them that TLAPS checks for
every value of the constants. Paths below are relative to the repository root;
line numbers are in `PROJECT.json`, which maps every definition to the code it
stands for.

## 1. The system

The pacer takes MPEG transport packets that arrive in bursts and puts them on
the wire at a constant bit rate. One task, `pace_with` (`src/pacer.rs`), races
the source against an output byte clock; everything it decides is in the
`Scheduler` (`src/scheduler.rs`).

| component | state it keeps | operations | talks to |
|---|---|---|---|
| pacing loop (`pacer.rs`) | closing, the wait it is in, the result | two selects: a bounded wait before the clock starts, a biased race after | source, scheduler, sink, observer |
| scheduler, arrival clocking (`scheduler.rs`) | anchor, slot, cushion, deferred queue, stall flag, counters | enqueue, arm, poll_start, start_now, resume, state, observe_state, advance_muted, emit_datagram | buffer, media clock, PCR regenerator |
| jitter buffer (`jitter_buffer.rs`) | a bounded queue whose bound only rises | push (drop oldest), pop, grow_to | |
| media clock (`scheduler.rs`) | anchor, last tick, credit, released, rate estimate | observe, due, release_rate, restart after a stall | |
| PCR regenerator (`pcr.rs`) | anchor, last source PCR, pending flag | rewrite, rewrite_absolute, flag_discontinuity, locked_for_index | |
| arrival profile and adaptive latency (`arrival.rs`, `config.rs`) | lead and bursts of the input | observe, lead, bursty, between_deliveries | sizes the cushion |
| stall detection and reports (`scheduler.rs`, `pacer.rs`, `observe.rs`) | last report | report on a transition or a heartbeat, force | observer |
| stream clocking (`scheduler.rs`, `slot.rs`) | slot grid, open run, placed packets, phase | push, close_run, take, flush, catch_up, align_start | |
| auto bitrate (`pacer.rs`, `estimate.rs`) | warm-up packets | resolve_auto | source |
| push handle `TsPacer` (`pacer.rs`) | partial bytes under a mutex, a bounded channel | push_packet(s), push_bytes, close | pacing task |
| byte source (`source.rs`) | partial packet | recv, with resynchronisation | reader |
| configuration (`config.rs`) | depths, timeout, modes | setters, validate, target, cap, timeout | scheduler, command line |
| command line (`main.rs`) | options, the next counter line | parse, configure, egress, observe | configuration, pacing |
| sinks (`output.rs`) | RTP sequence and framing | send, set_framing | socket |

What is hard here, and hard to test:

- the byte clock and the source race, and the clock wins only once its sleep
  reads ready; the stall timeout races late content and the end of the input;
- a stall is noticed by one slot, acted on by the loop and reported by the
  reporter, each from its own reading of the state;
- a PCR re-inserted inside a burst takes the slot of content already admitted;
- the source's clock wraps, loops, repeats and is spliced, while the output's
  must stay locked to the byte position;
- the start gate of an adaptive cushion waits for events that may never come;
- after a stall the media timeline restarts while the byte clock ran on;
- two stream-clocked legs receive different parts of one stream at different
  times and must never send different packets under one sequence number;
- an aligned leg ties its clock to the fastest delivery it saw, and every arrival
  until its first datagram may revise that;
- the rate, the lead, the cushion, the gate and the servo of an adaptive pacer are
  a loop of estimates, each fed by the others, over a clock that may lie;
- tasks that share a push handle frame one byte stream under a lock and send
  outside it, over a channel that may be full, and may be dropped in between;
- `recv` is dropped and called again at every slot;
- options of the command line refine one another in an order the user does not see.

`PROJECT.json` lists these as hazards, each at its line with the properties
aimed at it.

## 2. Modules

| module | what it is |
|---|---|
| `SlotMap` | PCR ticks, output slots and the distance between two PCRs: no state |
| `PcrRegen` | the regenerator of arrival clocking as functions on a record |
| `JitterBuffer` | the bounded queue as functions on a record |
| `ArrivalPacer` | the pacing loop over the scheduler under arrival clocking: the state machine and its properties |
| `MCArrivalPacer` | packets and sources for TLC |
| `StreamGrid` | the slot grid of stream clocking as functions on a record: where each packet goes, from the delivered packets alone |
| `StreamLeg` | one leg of a redundant pair over a path that delays and loses, against what an ideal partner sends |
| `MCStreamLeg` | feeds: what a source sends, and when; the legs each is sent to |
| `ArrivalProfile`, `MediaClock` | the arrival lead, and the media rate with its credit and servo, in numbers, as functions on records |
| `AdaptiveRelease` | a feed through profile, clock, cushion, gate and release, packets counted |
| `MCAdaptiveRelease` | its feeds |
| `Packetizer` | the abstract specification of framing a byte stream |
| `ReadSource` | the byte source, one await at a time |
| `WarmUp` | the measurement of an auto rate as functions on a record |
| `PushHandle`, `MCPushHandle` | the push handle, its channel, the warm-up and the task behind it |
| `Config` | the configuration: setters, sizes, validation |
| `Launch`, `MCLaunch` | the program, from its command line to its exit code |
| `ArrivalSafety_proof` | the type invariant of arrival clocking; conservation, order, clean ends, stalls and muting |
| `ArrivalPromises_proof` | reports of a stall, giving up on a source, the rate of release; the PCRs of arrival clocking: their lock, their cadence, the flag of a return, the dead carrier |
| `StreamLeg_proof` | the order of the grid, the account of a leg's packets, the order of its numbers |
| `StreamTiming_proof` | the clock of a leg: its phase, and the cadence and the lock of its PCRs |
| `StreamPartner_proof` | a leg never contradicts its partner, and its PCRs follow the source |
| `ReadSource_proof` | it implements `Packetizer`; resynchronisation |
| `PushHandle_proof` | it implements `Packetizer`; its packets accounted for and in order, its rate and what it primes |
| `Launch_proof` | what a command line that starts has started |

What composes what: `ArrivalPacer` is built on `SlotMap`, `PcrRegen` and
`JitterBuffer`, `StreamLeg` on `SlotMap`, `PcrRegen` and `StreamGrid`,
`AdaptiveRelease` on `ArrivalProfile`, `MediaClock` and `Config`, `PushHandle` on
`WarmUp` and `JitterBuffer`, `Launch` on `Config`. `ReadSource` and `PushHandle`
are two implementations of `Packetizer`, under refinement mappings.

### How ArrivalPacer corresponds to the code

*Actions are turns of the loop.* There is one task, so what interleaves is the
order in which the source, the byte clock and the timers wake it.
`ReceiveWaiting`, `EndWaiting` and `Silent` are the three outcomes of the
bounded wait of a pacer whose clock has not started; `Mute`, `GiveUp` and
`OpenDatagram` the three arms of the byte clock's branch; `ReceiveRunning` and
`EndRunning` the source's branch; `Finish` the exit. `SourceFails` is an error
from `recv`; a failing sink is a disjunct of `EmitSlot`.

*The select.* It is biased: once the sleep reads ready, the clock wins. A
timer reads ready at its deadline at the earliest and up to `TimerSlack` later
(tokio's granularity), so the source is polled while `now < NextDue +
TimerSlack` and the clock may be taken from `NextDue` on. `MaxLate` bounds how
late the task may be scheduled at all.

*A datagram is a sequence of slots.* `emit_datagram` sends several packets in
one call; the model opens the datagram (reading the state, the media clock and
the stall bookkeeping once, as the call does) and then sends one slot per step.
Until the datagram has left nothing else is enabled and time stands still, so
no step can come between that could not in the code.

*Data is abstracted.* A packet is what the engine reads of it: its PCR or none,
its discontinuity indicator, whether it is stuffing. The estimated media rate,
with the servo's trim, is any member of `ReleaseRates` at every reading of the
release clock; credit is counted in `RateUnit`-ths of a packet. The arrival
profile is any choice of a cushion in `Targets` and of whether a delivery has
ended. Both cover every behaviour of the estimators for which the constants
hold their values, so an invariant that holds in the model holds for them. What the
estimators do is `AdaptiveRelease`'s.

*Kept exactly*: the four states and the order of their tests, the stall
timeout that follows the cushion, the start gate's four conditions, what
`resume` restarts and what it leaves, the drop-oldest bound, admission of one
packet per slot, pre-emption by a PCR, re-basing and flagging, the wrap of the
PCR, the reporter's memory, and that a source which ended is drained rather
than muted.

*History variables* `input`, `wire`, `wirePcr`, `sent` and `session` record
what happened at the two ends; no guard reads one except `input`'s bound on the
number of packets.

### How StreamLeg corresponds to the code

*The partner.* Stream clocking promises that a leg never sends anything but what
its partner sends under the same number. The model does not run two legs: it
computes `partner`, what a leg that received every packet in time sends in each
slot, from the same operators (`PushGrid`, `TakeGrid`, `Carried`, `AfterSlot`),
which is how the repository's own tests judge a leg against an intact one. Two
legs that agree with it agree with each other, whatever either missed, so one
lossy leg stands for any pair.

*A feed* is what a source sends: packets with what the engine reads of them
(PID, continuity counter, payload, PCR, discontinuity indicator), when each is
sent, and the window in which the path hands it over. Packets travel in objects
that the path loses whole, as a relay does.

*Actions are turns of the loop* again. `Deliver` is `enqueue` with everything it
calls (`StreamGrid::push`, the closing of a run, the start at the live edge);
`OpenDatagram` the framing the loop reads before `emit_datagram`, then
`catch_up`, the stall reading and the phase; `EmitSlot` one pass of its loop.
`MuteSlot`, `Silent`, `End` and `Finish` are the loop's other turns. The sink
sees the number the loop read, which is `datagram.next`, while the packet comes
from the slot the clock is at: the two differ when `catch_up` moved the clock in
between, and `NeverContradicts` compares the packet against the number.

*Kept exactly*: the unwrapping of a PCR to a slot with its three readings of a
jump (wrap, splice, silence) and both allowances, the horizon, time bases and
the flag on the first PCR of one, the spread of a run with its spill, continuity
with a counter of 16, the cadence test on recent spans, the determined window,
phase, catch-up, capacity, the drain. *Solved*: the placement loop of
`close_run` is written in closed form (`Spread`), which is the loop's result
because its places never fall more than one slot behind.
*A leg* is what the run is configured with: its stall policy, its
`PcrPositionPolicy` and its `align` window. `Watch` and `AlignStart` are the two
halves of `align_start`, and `Gain` is `arrived_sooner`; `align.fastest` is history,
the soonest delivery by its definition and not by the comparisons the code makes
one at a time. `Sends` numbers a datagram by the framing offered before it, as
`RtpSink` does. *Left out*: the statistics no property reads.

### How AdaptiveRelease corresponds to the code

`ArrivalPacer` leaves the numbers open and `AdaptiveRelease` computes them, for
given feeds: a feed is when each packet arrives, what it is stamped with and
whether that is declared a discontinuity. `Enqueue` is `Scheduler::enqueue` in
its order (resume, the arrival measured against the rate known so far, `resize`,
the push, `MediaClock::observe`, `arm`); `Poll` is `poll_start`; `Emit` a datagram
of `SlotPackets` content slots with the servo's step; `Mute` `advance_muted`. Kept
exactly: the coalescing of PCR intervals under the minimal sample, jumps, the
clock that stops and the bound the carrier sets on what is pending, the decayed
sums, the credit that carries across a change of rate, the cycles of deliveries
with their lead, and the gate's ways to open. Rates are packets in `RateUnit`
ticks and the decayed sums are kept to one part in `Precision` of a packet; the
exponential decay over the rate window is a linear one, which agrees with it to
first order and is nil for a sample as long as the window.

### How the byte sources correspond to the code

`Packetizer` is the promise: packets are cut off the front of the stream, and a
byte that is not the sync byte where one should be is dropped alone.
`ReadSource` makes an action of every stretch between awaits. A `recv` is dropped
only where it awaits (`Cancel`), the reader hands over any number of bytes up to
the room left, ends anywhere, or fails. The mapping takes for what was dealt with
all bytes that are no longer buffered.

`PushHandle` splits `push_bytes` where it can be interleaved: the lock is taken
and the bytes appended, then each packet is scanned, then the buffer drained and
the lock released, then each packet sent as the channel has room. Calls are dropped
only where they await room. The lock is not held across an await, so no call is
dropped with it. The pacing task gathers the warm-up, locks the rate, primes the
buffer and paces; how fast it paces is `ArrivalPacer`'s business, so here it takes
and emits whenever it can, and its sink may fail at any packet. Its silences may
come at any time the channel is empty: the timeouts behind them are constants of
the code that any pause may outlast.

### How Launch corresponds to the code

The command line is chosen while it is parsed: each turn reads a switch, an option
with a value offered for it, a policy or a mistyped argument, in any order, so
every line of up to `MaxOptions` arguments occurs. `Configure` applies the options
in the order `main` does and not in that of the line, which is what the property
`SaidIsDone` is about; `Valid` is `validate`; `Sizes` is the assertion inside
`Duration::clamp`. `Report` is the observer of `main.rs` with its skipped periods.

## 3. Runs

| run | question | bounds that matter |
|---|---|---|
| `ArrivalStall` | Is exactly the dead source muted, and is its return paced and flagged? | 4 packets over 11 ticks with a timeout of cushion 1 + grace 2: room for two stalls, a return in between, and stuffing throughout |
| `ArrivalPcr` | Is the PCR byte-locked and repeated, with nothing lost, doubled or reordered? | PCR clock of 16 ticks at 3/2 ticks a packet, so it wraps within the run and its division truncates; a loop, a repeat and a declared splice; a PCR due every 2 packets in a burst at up to the mux rate; a buffer of 3 that overflows |
| `ArrivalAdaptive` | Does everything delivered leave, under the default cushion, whatever the gate waits for? | cushions of 1 and 2 packets, a deadline of 4 ticks; the horizon lies beyond every drain |
| `ArrivalFail` | Does a silent source end the run, and only once its last packet has left? | a pinned timeout of 3, silences from the start, in the middle and at the end |
| `StreamLeg` | Does a leg ever contradict its partner, is it back on the air as soon as it can know, and is an aligned one in phase with its path? | seven feeds, below; up to 3 objects lost; a wrap of 50 ticks, a splice beyond 14, a cushion of 8 slots, a cap of 12, a stall after 20, a watch of 9 ticks |
| `AdaptiveRelease` | Do the rate, the lead, the gate and the servo start in time and keep the output full without shedding programme? | 13 feeds of 70 or 200 slots: 4 packets of content in 6 of carrier a slot, clocks within 3 % of the wall; deterministic, so each feed is one long behaviour |
| `ReadSource` | Are the packets those of the stream however it is read, and does a slip cost only what it damaged? | every stream of up to 12 bytes that are the sync byte or not, packets of 3, every division into reads, `recv` dropped wherever it awaits |
| `PushHandle` | Is the stream framed as one, everything accepted delivered in order, and nobody left waiting? | 4 scenarios of two tasks over a channel of 2, one call given up; packets of 2 bytes that calls divide anywhere; a warm-up of 3 PCRs or 4 packets |
| `Launch` | Does a command line start only what is sound, and do what its usage says? | lines of up to 4 arguments in every order; the depths offered lie below, between and above the default ones |
| `JoinsRunningGrid`, `MissedInterval`, `LatencyUnwinds` | What the documentation says against what the code does (section 5) | |

The feeds of `StreamLeg`: `Steady` (the first runs may be lost: a late join),
`Wrapping` (the PCR wraps, objects end in the middle of a run), `Splicing` (a
declared short step, then an undeclared jump back), `Backlog` (a relay serves
what it has buffered faster than real time, which moves the clock to the live
edge with displaced content in hand), `Freeze` (a run with more packets than
slots, then a source frozen upstream, long enough to stall and mute, that hands
over old and new at once), `Delayed` (a first run that comes late and then every
run by its own delay, which is what an aligned leg must see through) and
`Overrun` (a peak of 18 packets in one interval of 4 slots, sent to a leg under
`PcrPositionPolicy::Fail`). Which packets are lost, when within its window each
arrives, how late the task runs and which of its legs receives a feed are TLC's
choice; all but `Splicing` and `Overrun` are also sent to a leg that watches. A PCR
interval is 4 slots, a datagram 3, so datagrams straddle runs, and a PCR is due
every 2 slots, so re-insertion takes slots from content. The cadence is judged on
the last 2 runs instead of 8, which the feeds outlast. `MaxLate` is 1 tick, less
than a slot.

The hypotheses of `LegsAgree` (section 4) are evaluated on these feeds by
`CoveredAssumption`: `Steady`, `Wrapping` and `Delayed` meet them whatever the path
loses, `Backlog` and `Overrun` where nothing is lost. The first three wrap
once at most, so they meet those of `PcrsFollowSource` too. `Splicing` jumps, and `Freeze`
does not settle, since its first run has more packets than slots: for those TLC alone
answers.

What the run leaves out: a leg that joins after a wrap and PCR intervals that are
no whole number of slots (section 5), losses before the leg has seen its first
PCR interval (the code says nothing can be judged then), losses its 4-bit
counters or its PCR intervals cannot show, and a third splice; each is a hazard
with a note in `PROJECT.json`. A splice is not sent to a leg that watches: it goes
on behind an open run that is shorter than it lasted, and the leg, tied to the
soonest delivery, has no margin to spare for that.

`MaxInput`, `InputUntil`, `MaxLosses`, `MaxCancels`, `MaxOptions`, `MaxWatched`,
`MaxBytes`, `MaxTime` and `Horizon` bound the runs and not the code; most runs
have `CHECK_DEADLOCK FALSE` because the model stops at its horizon and the program
stops when the run returns. `Launch` follows the pacing of the
lines with at most `MaxWatched` options: the counter lines depend on no other.

*Fairness.* The liveness properties of `ArrivalPacer` assume weak fairness of the
engine's own turns and of time. The runtime polls a ready task again and timers
fire, which is all that weak fairness of `Engine` says; the source owes nothing,
so no fairness is assumed of it. A bounded horizon could only make a liveness
property fail, never hold: an unfinished drain at the horizon would be reported.
`HandleReturns` assumes as much of the pacing task and of a task inside a call,
and nothing of what calls are made or given up; `MistypedExits2` that the program
goes on to its next step once the line is read. `BackOnAir` needs no fairness: it
is stated of the state in which the run ends.

Every property has a mutant of a mapped definition, defined just before it in
the module, that a plausible slip would produce: a dropped guard, a re-read
state, a lost restart. TLC finds the property violated with it under the same
configuration.

## 4. Theorems

All are proved for every value of the constants that satisfies the named
assumptions of the modules (`SlotMapAssumption`, `PcrRegenAssumption`,
`PacerAssumption`, `StreamGridAssumption`, `StreamLegAssumption`,
`ReadSourceAssumption`, `PushHandleAssumption`, ...), which TLC
evaluates on each run.

Of `ArrivalPacer`:

- `TypeCorrect`: `[]TypeOK`, inductive as it stands once it says that the byte
  clock and the media clock start together, before any datagram or stall. One
  lemma per operator with a type of its own (`PushType`, `RewriteType`, ...),
  then one step per action.
- `NothingLost`: `[]Conservation`. Inductive given the type invariant:
  `EnqueueMoves` and `SlotMoves` say what an arrival and a slot do to the two
  queues and `OtherMoves` that nothing else touches them.
- `NothingReordered`: `[]InOrder`. Not inductive: a packet just accepted must be
  newer than all held, so `OrderInv` adds that numbers in the line lie between
  the last sent and the last accepted. The line is the deferred queue followed
  by the buffer; it only ever loses its head, loses the buffer's head to the
  bound, or gains an end (`RisingTail`, `RisingDrop`, `RisingAppend`), and
  moving a packet from one queue to the other leaves it as it is (`LineOfMove`).
- `EndsEmpty`: `[]CleanEnd`, from `NothingLost` and the invariant `CleanInv`
  that a run that returned well holds nothing.
- `OnlyContentResumes` and `MutesExactlyTheDead`: the action properties
  `StallEndsWithContent` and `MuteExactlyWhenGone`, from the invariant
  `StallInv`: while the engine's flag says stalled, a fresh reading says so too,
  and its record of the last arrival is the source's own.
- `StallsAreAnnounced`: `[]StallAnnounced`, by `ReportInv`. A heartbeat that is not
  due leaves the old report, so the invariant has to say when an old report of a
  stall carries the current counter; and that while the report of an earlier stall
  is still the last, the content which ended it has not left, so no second stall
  can be entered behind it.
- `FailsOnlyEmpty`: `[]FailsEmpty` with a pinned cushion. `FailInv` adds that a
  pacer whose clock has not started holds nothing, which an adaptive gate does not
  promise (section 5).
- `ReleasesAtMediaRate`: `[]ReleasedAtMediaRate`. `ReleaseInv` bounds the credit by
  the time the release clock ran at the fastest rate, what was admitted by the
  credit, and puts the media timeline no earlier than the session may begin; the
  rest is that a quotient grows with its dividend (`DivGrows`, `ScaleOrder`).
- `PcrsStayLocked`, `PcrsRepeat`, `ReturnsAreFlagged`: the action properties
  `PcrByteLocked`, `PcrRepeated` and `ResumeFlagged` where PCRs are regenerated. All
  rest on `PcrInv`: the last PCR on the wire sits where the engine's own index
  says, no earlier than the regenerator's anchor, with the value the regenerator
  still gives that slot; what is held carries a PCR only if the PID is known; and a
  return that has not been flagged has its flag set. `SlotSends` says the three things
  a slot can do to the PCRs, `AnchorKept` that only a flagged packet moves the anchor,
  and `LockedApart` that two values of one anchor are their slots apart through the
  wrap, or one tick more where the division cut both.
- `StalledCarrier`: `StalledCarrierIsEmpty`, from `StallInv` and `ReportInv`: the
  state a datagram was opened with is the engine's flag for as long as it lasts.

Of the byte sources:

- `SourceFrames`: `ReadSource` implements `Packetizer`. The invariant
  `BufferHoldsTheRest` says that the buffer is the stretch of the stream between
  what was dealt with and what was read; each step of the source then drops a byte,
  emits a packet or stutters under the mapping.
- `ResyncLosesNoCleanPacket`: `[]CleanStartsFound`, for every packet size. It is
  inductive with the order of what was returned, since a search only passes over
  bytes that are not the sync byte.
- `HandleFrames`: `PushHandle` implements `Packetizer` on the bytes in the order
  the mutex gave them, for any number of tasks.

Of the push handle and the task behind it, for any tasks, calls, channel and
streams:

- `NothingLeftBehind`: `[]CloseDeliversAll`. `LockInv` says that the lock is only
  held by a call that is splitting; `CountInv` that what was accepted is what was sent,
  shed or stripped, what the buffer, the warm-up and the channel hold; and that a task
  which is done saw the channel closed and empty.
- `RateMeasured`: the action property `NeverGuesses`. The invariant `HandleInv` has
  the count of PCRs that the code keeps equal the number of PCRs in the warm-up,
  which is not obvious of a counter that a silence and a full buffer both read.
- `PushedInOrder`: `[]OrderKept`. `OrderInv` adds to the order of the line that
  whatever a call still has to send is behind all that its task has on the line, so
  that appending it keeps the order whoever else appends in between.
- `CushionFits`: the action property `WarmUpKept`, where the cap on latency is at
  most the time of one packet at one bit a second (25 minutes): the rate is
  rounded down to whole bits a second, so beyond that the cap in packets falls short of
  the packets it was measured on. `Climb` carries a fact from one element of the primed
  buffer to the next.

Of `StreamLeg`, for every feed whose packets are well formed
(`FeedsAssumption`), every set of legs and every bound:

- `PlacesRise`: `[]PlacedRise`. The invariant `GridInv` says of the grid that the
  places of what awaits its slot rise below the next free one, as do the changes of
  time base, of which each differs from the one before and the last is the one
  placed last. `SpreadRises` is the arithmetic: even places are at least one slot
  apart in a run that fits its span and at most one in a run that overruns, so
  neither branch of the placement can fall on or before its predecessor. `CloseKeeps`,
  `PushKeeps`, `TakeKeeps` and `FlushKeeps` carry `GridInv` through the operations of
  the grid, `TypeStep` through the actions of the leg (`LegType`).
- `AllAccounted`: `[]Accounted`, by `AccountInv`: what was received is what was
  sent, withheld or late, what the grid holds, cut or shed, and what is deferred.
- `NumbersAlwaysRise`: the action property `NumbersRise`, by `NumberInv`: the last
  slot on the wire lies below the next number, whichever of the live edge, the
  catch-up and the muting moves the clock in between.
- `AlwaysInPhase`: `[]InPhase`. `WatchInv` relates what the watch remembers to the
  soonest delivery by its definition and to the gain reported since, `PhaseInv` the
  anchor of the clock to what the watch remembers, each to what one rounding costs.
- `PcrsRepeated`: `[]PcrRepeated`, by `StretchInv`: wherever the next slot
  follows the last on the wire, the PCR from which re-insertion counts is the last one
  on the wire, and a leg only sends where it is in phase and its numbers are those of
  its clock.
- `PcrsByteLocked`: the action property `PcrByteLocked`, as long as nothing is
  dropped at capacity (`NothingShed`): a drop may take the very packet that
  carries the flag of a new time base (section 5). `LiveInv` says where the bases of
  the grid lie: what splices moved is part of the epoch, all placed content is behind
  the base its run was opened on, and what is deferred is linked to the last PCR sent
  or will be flagged.

- `LegsAgree`: `[](Covered(Sending) => NeverContradicts)`, the promise of stream
  clocking, where nothing is dropped at capacity. Its hypotheses on the feed, its
  argument and what it leaves to TLC follow below.
- `PcrsFollowSource`: `[](Covered(Sending) /\ Fits(Sending) /\ WrapsOnce(Sending) =>
  PcrFollowsSource)`, where nothing is dropped at capacity: a PCR of the source leaves
  within two slots and a tick of the value it came with. It rests on the invariant of
  `LegsAgree`, which carries it from the partner to the leg.

Of the command line, for all values of the options and of the defaults:

- `StartsAreSound` and `SaidIsAlwaysDone`: `[]StartsSound` and `[]SaidIsDone`. By
  `LineInv`, what is paced was built from the line as typed, found valid and can be
  sized; `BuiltSays` follows the options through the setters in the program's order.
- `LinesAreSpaced`: the action property `LinesSpaced`, by `LinesInv`: the next line
  is due an interval after the last.
- `MistypedNeverStarts`: the safety half of `MistypedExits2`.

### Why legs agree

`LegsAgree` holds of any feed, path and leg, of any constants, for which

- `RunsOn`: the source's clock goes on. It starts with a PCR, declares no
  discontinuity and makes no jump beyond the gap the code allows, and the ideal
  partner cuts no run, so the counter is right where nothing was lost. Wraps
  of the PCR are included.
- `Settles`: the partner has nothing deferred where a PCR of the source is due. This
  is the limit of section 5 about a run that filled its interval.
- `path.lost = 0`, or `Recognisable`: what the path may lose can be told. Each loss
  leaves a break in the 4-bit counter and takes a PCR with it, intervals between PCRs
  have as many slots, and the PCR after a loss is read on the partner's epoch. These
  are what `missed_pcrs`, `note_continuity` and `slot_for` judge by; where one of them
  fails the findings `MissedInterval` and `JoinsRunningGrid`, or the hazards with a
  note, show the leg to be wrong.
- `NothingShed`: a drop at capacity may take a packet of a determined slot (section 5).

The partner is a recursion over the whole feed and the leg a state machine, so the
proof relates the two at each packet and at each slot:

1. *The partner slot by slot.* `Ideal` reads the partner's grid and emitter at a slot
   off what the feed places; taking a slot before or after later packets are pushed
   comes to the same, because pushes place only behind the open run.
2. *The invariant* `Agrees`: what the leg holds between its next slot and the end of
   what it knows is what the partner holds there, time bases included, and once the leg
   is in phase its emitter is the partner's (`Abreast`): same deferred queue, same last
   PCR. Out of phase nothing goes on the wire. A leg comes into phase where a source's
   PCR is admitted into its own slot with nothing deferred, and there `Settles` says the
   partner has nothing deferred either.
3. *Judgement.* `Agrees` is kept when the leg closes a run as its partner does or cuts
   it (`JudgedAlike`). If nothing was lost, the leg's grid is the partner's
   up to what was taken (`Mirrors`, `Lossless`). If something was, `Traced` holds for the
   slots of an interval: every run is `Whole`, placed as the partner placed it, or
   `Torn`, with the counter broken within it or a span of two intervals or more. A
   torn run is always cut: its counter broke, or its span is twice the longest of those
   the leg has seen (`LossBreaks`, `TwoIntervals`, `TornReads`, `WholeReads`).
   `Traced` was checked by TLC as an invariant of the run before it was proved.

`PcrsFollowSource` adds what the partner does with a PCR of the source. `Sourced`: it
places each in the slot of its value, as all runs fit their intervals (`Fits`), by
induction over the packets. `NonePcr`: it defers none, as none is due while anything
is deferred (`Settles`), so what goes out in that slot is that PCR (`PartnerFollows`).
The stamp of a slot and the slot of a value undo each other to a slot (`SlotFollows`),
and a wrap costs up to another: the epoch counts it in whole slots, so the hypothesis
`WrapsOnce` is needed (section 5). What the leg sends is what the partner sends.

`CoveredAssumption` shows the hypotheses to be met, with losses, wraps and late
arrivals, by feeds of the run.

The assumptions on constants say no more than the code: rates, sizes and packet
times are positive, `None` is no number and no counter, a source's PCRs lie below the wrap as 33 bits do, the PCR
repetition limit is shorter than the
PCR wrap (`StreamLegAssumption`; 40 ms against 26 hours), at least two PCRs make an
estimate (`WarmUpAssumption`; `AUTO_WARMUP_PCRS` is 8), an option takes a whole
number. Induction over positions is the principle of the least number, from the
library's `WFMin`; `Primed` is a recursive function, whose equation
`PrimedSolves` proves to have a solution.

Only model-checked, and why:

- `NeverContradicts` beyond `LegsAgree`: across splices, for a source that does not
  settle and for losses that are not `Recognisable`. In general it is
  false of the code (both findings of section 5 refute it), so what holds there is a
  matter of feeds.
- `PcrFollowsSource` beyond `PcrsFollowSource`: across splices, and for runs that
  overrun their interval.
- `BackOnAir`: what a returning leg can know depends on the losses a feed has.
- `RateRecovered`, `RidesGaps`, `OpensInTime`: numbers of deterministic feeds through
  a loop of estimates; each feed is one computation, and TLC is what computes it.
- All liveness (`EndDrains`, `EveryPacketLeaves`, `HandleReturns`, the leads-to of
  `MistypedExits2`), which needs `ENABLED` and is out of the prover's reach.

## 5. Findings

Each is a run TLC refutes, with the line of documentation it quotes in
`PROJECT.json`:

- `JoinsRunningGrid`: a leg counts PCR wraps from its own start, so one started
  after the 33-bit PCR wrapped is a whole wrap of slots behind its partner's
  numbering, with no splice in the stream.
- `MissedInterval`: a lost PCR is recognised by a span of twice the longest
  recent one in whole slots; intervals of 3 and 4 slots around one lost PCR make
  7 and not 8, so the leg spreads a run across the loss and sends it.
- `LatencyUnwinds`: a ceiling below the floor of an adaptive cushion passes
  `validate` and panics in `Duration::clamp`, where a mistyped flag is said to exit
  with 2 and one line.

Limits met while modelling, which no run states as a property of the code:

- The cap bounds the jitter buffer but not the deferred queue behind it, so inside
  a burst at the mux rate the media held passes the cap by what re-inserted PCRs
  displaced.
- Before the clock starts, `StallPolicy::Fail` looks at the silence and not at the
  buffer: a source that spoke and paused behind a closed gate fails a run that
  still holds programme. `FailsEmpty` is checked with a pinned cushion, whose clock
  starts with the first packet.
- The forced report of a drained run reads the state afresh and can name a stall
  no counter includes; `StallAnnounced` is about the reports of slots.
- A source of nothing but stuffing restarts the bounded wait of a pacer that has
  not started and is stripped, so it is neither reported nor timed out.
- Behind a run that filled its interval a returning leg, with nothing deferred,
  may call itself in phase where its partner still works off displaced content and
  its repetition interval counts from another slot. No feed of the passing run
  loses a path behind such a run.
- `PcrPositionPolicy::Fail` looks at the displacement alone, but the capacity of
  the grid and the bound of `catch_up` hold the release latency as well: a peak
  reaches these with a displacement of the cap less the release latency, and the
  leg sheds content before the policy sees anything amiss.
- At capacity a leg drops the oldest placed packet. That may be the PCR that
  carries the flag of a new time base, or that of a run it will go on to send; the
  partner, whose grid was not full, sends it.
- A leg that moved to its live edge is no longer in the phase that
  `align_gain_us` goes on to report: `InPhase` ends there.
- Each wrap of the PCR moves the grid on by whole slots, the fraction cut off, so
  over a wrap (26 hours) the PCRs of a leg fall up to a slot behind those of the
  source, and over many wraps slots. Both legs do so alike.
- `--latency-ceiling-ms` replaces what `--segment-ms` sized and `--stall-grace-ms`
  what `--stall-ms` pinned, whatever their order; `SaidIsDone` says what holds.

## 6. Plan

What remains, in this order: `LegsAgree` across declared splices, whose time bases
would have to be followed as `Traced` follows runs; an abstract relay that
`ArrivalPacer` and `PushHandle` both implement; how many splices a cushion stands as
arithmetic on run lengths; a feed that holds the grid at its capacity under
`PcrPositionPolicy::Report`.

## 7. Not modelled, and why

Packet bytes and null templates (layout), the SSRC and the timestamps of RTP and
the other sinks (socket and pipe I/O that answers or fails, which the pacing
modules have as a choice), the grouping of bursts and the other counters that
only the statistics read, the examples (a replay and a sink over two sockets, on
top of the library) and the compliance harness (a measurement outside the
program).
