---------------------------- MODULE ArrivalPacer ----------------------------
(***************************************************************************)
(* A running pacer under arrival clocking, the default: the loop of        *)
(* pace_with (pacer.rs) over the Scheduler (scheduler.rs) with its jitter  *)
(* buffer, its media clock and its PCR regenerator.                        *)
(*                                                                         *)
(* One task runs it, so its actions are the loop's turns: a packet taken   *)
(* from the source, an output slot that fell due, a bounded wait that      *)
(* expired.  A datagram of several packets is emitted in one call; here it *)
(* is a sequence of slots, during which nothing else is enabled and no     *)
(* time passes.                                                            *)
(*                                                                         *)
(* Time is counted in clock ticks.  The recovered content rate is data:    *)
(* any of ReleaseRates may be in force whenever the release clock          *)
(* advances, which covers every estimate and every trim of the servo.  The *)
(* arrival profile likewise: any of Targets may be the cushion it asks     *)
(* for, and it may call the input settled or not.                          *)
(***************************************************************************)
EXTENDS PcrRegen, JitterBuffer, FiniteSets

CONSTANTS
  SlotTime,            \* clock ticks one packet takes at the mux rate
  PacketsPerDatagram,
  Adaptive,            \* Latency::Adaptive rather than Latency::Fixed
  Floor,               \* Latency::floor: the pinned depth or the adaptive floor
  Targets,             \* depths the cushion may take; {Floor} when pinned
  MaxLatency,          \* the pinned cap, or DEFAULT_MAX_LATENCY when adaptive
  StartDeadline,       \* the adaptive ceiling, after which output starts anyway
  Regenerate,          \* PcrMode::Regenerate rather than PcrMode::Preserve
  PcrMaxPackets,       \* the re-insertion threshold, in output packets
  StallKind,           \* "off", "after" (a pinned timeout) or "adaptive" (a grace)
  StallSpan,           \* that timeout or that grace
  StallPolicy,         \* "mute", "continue" or "fail"
  PollBudget,          \* START_POLL.min(wait_budget): a bounded wait on the source
  HealthInterval,      \* the reporter's heartbeat
  RateUnit,            \* release credit that authorises one packet
  ReleaseRates,        \* credit a tick may bring: the recovered rates, trimmed
  SourcePackets        \* what the source may deliver: [pcr, di, null]

CONSTANTS              \* bounds of the model, not of the code
  MaxInput,            \* packets the source delivers in a run
  InputUntil,          \* the instant after which it is silent or ends
  Horizon,             \* the last instant of the run
  TimerSlack,          \* granularity of the sleep: how late it may read ready
  MaxLate              \* how late the task may be scheduled

(* SourceState (observe.rs): what the input is doing. *)
States == {"priming", "live", "starved", "stalled"}

ASSUME PacerAssumption ==
  /\ {SlotTime, PacketsPerDatagram, PcrMaxPackets, RateUnit} \subseteq Nat \ {0}
  /\ {Floor, MaxLatency, StartDeadline, StallSpan, PollBudget, HealthInterval,
      MaxInput, InputUntil, Horizon, TimerSlack, MaxLate} \subseteq Nat
  /\ {Adaptive, Regenerate} \subseteq BOOLEAN
  /\ Floor \in Targets /\ Targets \subseteq Nat
  /\ \A t \in Targets : Floor <= t
  /\ ~Adaptive => Targets = {Floor} /\ Floor <= MaxLatency   \* Config::validate
  /\ ReleaseRates \subseteq Nat \ {0}
  /\ \E r \in ReleaseRates : \A q \in ReleaseRates : q <= r     \* the servo is clamped
  /\ StallKind \in {"off", "after", "adaptive"}
  /\ StallPolicy \in {"mute", "continue", "fail"}
  /\ None \notin {"ok", "stalled", "failed"}
  /\ None \notin [state : States, at : Nat, stalls : Nat]      \* a report was made
  /\ None \notin [left : Nat, due : Nat, state : States]       \* a datagram is open
  /\ SourcePackets \subseteq [pcr : 0 .. PcrWrap - 1 \cup {None}, di : BOOLEAN, null : BOOLEAN]

VARIABLES
  now,          \* the wall clock
  control,      \* the loop: closing, the result once it returned, the wait it is in
  anchor,       \* wall time slot 0 is due, None until the output clock starts
  slot,         \* position of the next output packet
  target,       \* the cushion in force
  media,        \* MediaClock: anchor, ticked, credit, released
  buffer,       \* the jitter buffer
  deferred,     \* content admitted but not yet transmitted
  pcr,          \* PCR state: regen, last (last_pcr_index), known (PID learned)
  content,      \* when content first and last arrived
  stalled,      \* whether the input was stalled as of the last output slot
  datagram,     \* None, or the datagram being emitted
  reporter,     \* None, or the last report: state, at, and the stalls it carried
  stats         \* dropped, stalls, muted

VARIABLES       \* history
  input,        \* packets received, content packets accepted, and when last
  wire,         \* the last packet put on the wire
  wirePcr,      \* the last PCR-bearing packet put on the wire
  sent,         \* content packets put on the wire, and the last of them
  session       \* since the start or the last stall: when content may begin,
                \*   how much was sent, whether its first PCR is still to come

history == <<input, wire, wirePcr, sent, session>>
clocks  == <<anchor, slot, media>>
vars    == <<now, control, anchor, slot, target, media, buffer, deferred, pcr, content,
             stalled, datagram, reporter, stats, input, wire, wirePcr, sent, session>>
-----------------------------------------------------------------------------
(* Conversions between durations and packets at the mux rate. *)
LatencyToPackets(d) == (d + SlotTime - 1) \div SlotTime
PacketsToDuration(n) == n * SlotTime

Cap(t) == IF Adaptive THEN LargerOf(2 * t, MaxLatency) ELSE MaxLatency

Held == Len(buffer.queue) + Len(deferred)      \* buffered_packets
HasPending == Held > 0

NextDue == anchor + PacketsToDuration(slot)

StallTimeout == IF StallKind = "after" THEN StallSpan ELSE target + StallSpan

SilentFor == IF content.last = None THEN 0 ELSE now - content.last

(* Scheduler::state: what the input is doing, read at now. *)
Started == content.last # None /\ anchor # None /\ now >= anchor
Overdue == StallKind # "off" /\ SilentFor >= StallTimeout
(* Mutant of State: silence alone makes a stall, whatever is still held. *)
StateOfSilence ==
  CASE ~Started -> "priming"
    [] Started /\ Overdue -> "stalled"
    [] OTHER -> "live"
State ==
  CASE ~Started -> "priming"
    [] Started /\ HasPending -> "live"
    [] Started /\ ~HasPending /\ Overdue -> "stalled"
    [] Started /\ ~HasPending /\ ~Overdue /\ SilentFor >= target -> "starved"
    [] OTHER -> "live"

Running == control.result = None
Idle == Running /\ datagram = None
-----------------------------------------------------------------------------
(* Reporter::report and ::force, with the counters of the moment. *)
Announce(state, stalls) == reporter' = [state |-> state, at |-> now, stalls |-> stalls]

Report(state, stalls) ==
  IF reporter = None \/ (reporter # None /\ (reporter.state # state \/ now - reporter.at >= HealthInterval))
    THEN Announce(state, stalls)
    ELSE UNCHANGED reporter

(* The start gate, Scheduler::arm: whether the clock starts at this check,  *)
(* and the instant it is anchored to.  settled is the arrival profile's.    *)
(* Mutant of Opens: no deadline. *)
OpensWhenReady(held, room, t, settled, first) ==
  ~Adaptive \/ (held >= LatencyToPackets(t) /\ settled) \/ room <= LatencyToPackets(Floor)

Opens(held, room, t, settled, first) ==
  \/ ~Adaptive
  \/ held >= LatencyToPackets(t) /\ settled
  \/ room <= LatencyToPackets(Floor)
  \/ now - first >= StartDeadline

Arm(b, held, t, settled, first) ==
  IF anchor = None /\ Opens(held, Room(b), t, settled, first)
    THEN LET at == IF Adaptive THEN now ELSE now + t
         IN  anchor' = at /\ media' = [media EXCEPT !.anchor = at]
    ELSE UNCHANGED <<anchor, media>>

(* The media timeline after a stall restarts a cushion from now. *)
(* Mutant of Refilled: the credit of the time before the gap is kept. *)
RefilledOnCredit == [media EXCEPT !.anchor = now + target]
Refilled == [anchor |-> now + target, ticked |-> None, credit |-> 0, released |-> 0]

(* Scheduler::enqueue of a packet that is content.  After a stall it first   *)
(* resumes: the byte clock ran through the gap, the media timeline restarts, *)
(* and the next PCR is to say so.                                            *)
Enqueue(p) ==
  LET id     == input.accepted + 1
      first  == IF content.first = None THEN now ELSE content.first
      regen  == IF stalled /\ Regenerate THEN FlagDiscontinuity(pcr.regen) ELSE pcr.regen
  IN  \E t \in Targets, settled \in BOOLEAN :
        LET grown == IF Adaptive THEN GrowTo(buffer, LatencyToPackets(Cap(t))) ELSE buffer
            b     == Push(grown, [id |-> id, pcr |-> p.pcr, di |-> p.di])
        IN  /\ target' = t
            /\ buffer' = b
            /\ IF stalled
                 THEN /\ media' = Refilled
                      /\ session' = [from |-> now + target, sent |-> 0, resumed |-> TRUE]
                      /\ UNCHANGED anchor
                 ELSE /\ Arm(b, Len(b.queue) + Len(deferred), t, settled, first)
                      /\ session' = IF content.first = None
                                      THEN [session EXCEPT !.from = IF Adaptive THEN now ELSE now + t]
                                      ELSE session
            /\ stats' = [stats EXCEPT !.dropped = @ + IF Full(grown) THEN 1 ELSE 0]
            /\ pcr' = [pcr EXCEPT !.regen = regen, !.known = @ \/ HasPcr(p)]
            /\ content' = [first |-> first, last |-> now]
            /\ stalled' = FALSE
            /\ input' = [received |-> input.received + 1, accepted |-> id, at |-> now]

(* Mutant of Receive: stuffing counts as a sign of life. *)
ReceiveAnything(p) ==
  /\ input.received < MaxInput /\ now <= InputUntil
  /\ IF p.null
       THEN /\ input' = [input EXCEPT !.received = @ + 1]
            /\ content' = [content EXCEPT !.last = IF @ = None THEN None ELSE now]
            /\ UNCHANGED <<target, buffer, media, session, anchor, stats, pcr, stalled>>
       ELSE Enqueue(p)
  /\ UNCHANGED <<now, slot, deferred, datagram, reporter, wire, wirePcr, sent>>

(* A packet arrives: input stuffing is stripped before anything sees it. *)
Receive(p) ==
  /\ input.received < MaxInput /\ now <= InputUntil
  /\ IF p.null
       THEN /\ input' = [input EXCEPT !.received = @ + 1]
            /\ UNCHANGED <<target, buffer, media, session, anchor, stats, pcr, content, stalled>>
       ELSE Enqueue(p)
  /\ UNCHANGED <<now, slot, deferred, datagram, reporter, wire, wirePcr, sent>>

(* The bounded wait for input of a pacer whose clock has not started. *)
Waiting == Idle /\ anchor = None

(* The select of a pacer whose clock runs: the byte clock wins once its      *)
(* sleep reads ready, so the source is polled only before that.              *)
(* Mutant of Drained: the end of the input is the end of the run. *)
Ended == control.closing
Drained == control.closing /\ ~HasPending
Polling == Idle /\ anchor # None /\ ~control.closing /\ now < NextDue + TimerSlack
(* Mutant of DueNow: the byte clock is no longer driven once the source ended. *)
DueWhileOpen == Idle /\ anchor # None /\ ~control.closing /\ now >= NextDue
DueNow  == Idle /\ anchor # None /\ ~Drained /\ now >= NextDue

ReceiveWaiting ==
  /\ Waiting
  /\ \E p \in SourcePackets : Receive(p)
  /\ control' = [control EXCEPT !.since = now]

ReceiveRunning ==
  /\ Polling
  /\ \E p \in SourcePackets : Receive(p)
  /\ UNCHANGED control

(* The source ended before the clock started: what it handed over is paced   *)
(* out from now on, and with nothing in hand the run is over.                *)
EndWaiting ==
  /\ Waiting
  /\ IF HasPending
       THEN /\ anchor' = now /\ media' = [media EXCEPT !.anchor = now]
            /\ control' = [control EXCEPT !.closing = TRUE]
       ELSE /\ control' = [control EXCEPT !.result = "ok"]
            /\ UNCHANGED <<anchor, media>>
  /\ UNCHANGED <<now, slot, target, buffer, deferred, pcr, content, stalled, datagram,
                 reporter, stats, history>>

EndRunning ==
  /\ Polling
  /\ control' = [control EXCEPT !.closing = TRUE]
  /\ UNCHANGED <<now, clocks, target, buffer, deferred, pcr, content, stalled, datagram,
                 reporter, stats, history>>

(* How long a source that is waited for has been silent: one that never      *)
(* spoke since the run began, at 0.                                          *)
(* Mutant of GivesUpWaiting: a source that never spoke is not timed. *)
GivesUpOnSilence ==
  StallKind # "off" /\ StallPolicy = "fail" /\ SilentFor # 0 /\ SilentFor >= StallTimeout
GivesUpWaiting ==
  /\ StallKind # "off" /\ StallPolicy = "fail"
  /\ (IF SilentFor = 0 THEN now ELSE SilentFor) >= StallTimeout

(* The wait expired: give the clock its chance to start, report, and under   *)
(* StallPolicy::Fail give up on a source that has been silent too long.      *)
Silent ==
  /\ Waiting /\ now >= control.since + PollBudget
  /\ \E settled \in BOOLEAN :
       IF content.first # None
         THEN Arm(buffer, Held, target, settled, content.first)
         ELSE UNCHANGED <<anchor, media>>
  /\ Report(IF content.last = None \/ anchor' = None THEN "priming" ELSE "live", stats.stalls)
  /\ control' = [control EXCEPT !.since = now, !.result = IF GivesUpWaiting THEN "stalled" ELSE None]
  /\ UNCHANGED <<now, slot, target, buffer, deferred, pcr, content, stalled, datagram, stats, history>>

(* recv returned an error, which ends the run whatever it still holds. *)
SourceFails ==
  /\ Waiting \/ Polling
  /\ control' = [control EXCEPT !.result = "failed"]
  /\ UNCHANGED <<now, clocks, target, buffer, deferred, pcr, content, stalled, datagram,
                 reporter, stats, history>>
-----------------------------------------------------------------------------
(* observe_state: a stall is counted as it is entered. *)
ObserveState ==
  /\ stalled' = (State = "stalled")
  /\ stats' = [stats EXCEPT !.stalls = @ + IF State = "stalled" /\ ~stalled THEN 1 ELSE 0,
                            !.muted  = @ + IF datagram' = None THEN PacketsPerDatagram ELSE 0]

(* A source that ended cleanly is not one that died. *)
Dead == State = "stalled" /\ ~control.closing

(* Mutant of Mute: reports before the stall is counted. *)
MuteReportsFirst ==
  /\ DueNow /\ Dead /\ StallPolicy = "mute"
  /\ UNCHANGED datagram
  /\ ObserveState
  /\ slot' = slot + PacketsPerDatagram
  /\ Report("stalled", stats.stalls)
  /\ UNCHANGED <<now, control, anchor, target, media, buffer, deferred, pcr, content, history>>

Mute ==
  /\ DueNow /\ Dead /\ StallPolicy = "mute"
  /\ UNCHANGED datagram
  /\ ObserveState
  /\ slot' = slot + PacketsPerDatagram
  /\ Report("stalled", stats'.stalls)
  /\ UNCHANGED <<now, control, anchor, target, media, buffer, deferred, pcr, content, history>>

GiveUp ==
  /\ DueNow /\ Dead /\ StallPolicy = "fail"
  /\ Announce("stalled", stats.stalls)
  /\ control' = [control EXCEPT !.result = "stalled"]
  /\ UNCHANGED <<now, clocks, target, buffer, deferred, pcr, content, stalled, datagram, stats, history>>

(* MediaClock::due: the release clock advances to now at some rate. *)
Advanced(rate) ==
  LET last == IF media.ticked = None THEN media.anchor ELSE media.ticked
  IN  IF now >= media.anchor /\ now > last
        THEN [media EXCEPT !.ticked = now, !.credit = @ + (now - last) * rate]
        ELSE media

Authorised(m) == IF now < m.anchor THEN 0 ELSE m.credit \div RateUnit + 1

(* emit_datagram up to its first slot.  state is the loop's own read of it,  *)
(* which the report after the datagram names.                                *)
OpenDatagram ==
  /\ DueNow /\ ~(Dead /\ StallPolicy # "continue")
  /\ \E rate \in ReleaseRates : media' = Advanced(rate)
  /\ datagram' = [left |-> PacketsPerDatagram, due |-> Authorised(media'), state |-> State]
  /\ ObserveState
  /\ UNCHANGED <<now, control, anchor, slot, target, buffer, deferred, pcr, content, reporter, history>>

(* What the next slot sends: at most one packet is admitted, then a PCR      *)
(* pre-empts content once the repetition limit is reached, unless the packet *)
(* whose turn it is carries one.                                             *)
Admits == media.released < datagram.due /\ buffer.queue # <<>>
(* Mutant of Queue: the packet admitted overtakes those that wait. *)
QueueAhead == IF Admits THEN <<Head(buffer.queue)>> \o deferred ELSE deferred
Queue  == IF Admits THEN Append(deferred, Head(buffer.queue)) ELSE deferred

(* Mutants of ReinsertsPcr: only in a spare slot; whether or not the source lives. *)
ReinsertsInSpareSlot ==
  /\ datagram.state # "stalled" /\ Regenerate /\ pcr.known
  /\ pcr.last # None /\ slot - pcr.last >= PcrMaxPackets
  /\ Queue = <<>> /\ pcr.regen.anchor # None
ReinsertsAlways ==
  /\ Regenerate /\ pcr.known
  /\ pcr.last # None /\ slot - pcr.last >= PcrMaxPackets
  /\ ~(Queue # <<>> /\ HasPcr(Head(Queue)))
  /\ pcr.regen.anchor # None

ReinsertsPcr ==
  /\ datagram.state # "stalled" /\ Regenerate /\ pcr.known
  /\ pcr.last # None /\ slot - pcr.last >= PcrMaxPackets
  /\ ~(Queue # <<>> /\ HasPcr(Head(Queue)))
  /\ pcr.regen.anchor # None

Put(kind, id, value, di) ==
  LET packet == [kind |-> kind, id |-> id, pcr |-> value, di |-> di, slot |-> slot]
  IN  /\ wire' = packet
      /\ wirePcr' = IF value = None THEN wirePcr ELSE packet

(* Mutants of SendPcr: the packet whose slot it takes is lost; the pending   *)
(* discontinuity flag is taken for announced.                                *)
SendPcrOver ==
  /\ ReinsertsPcr
  /\ Put("pcr", None, LockedForIndex(pcr.regen, slot), FALSE)
  /\ deferred' = IF Queue = <<>> THEN Queue ELSE Tail(Queue)
  /\ pcr' = [pcr EXCEPT !.last = slot]
  /\ UNCHANGED <<sent, session>>
SendPcrTakingFlag ==
  /\ ReinsertsPcr
  /\ Put("pcr", None, LockedForIndex(pcr.regen, slot), FALSE)
  /\ deferred' = Queue
  /\ pcr' = [pcr EXCEPT !.last = slot, !.regen.flagNext = FALSE]
  /\ UNCHANGED <<sent, session>>

SendPcr ==
  /\ ReinsertsPcr
  /\ Put("pcr", None, LockedForIndex(pcr.regen, slot), FALSE)
  /\ deferred' = Queue
  /\ pcr' = [pcr EXCEPT !.last = slot]
  /\ UNCHANGED <<sent, session>>

SendContent ==
  /\ ~ReinsertsPcr /\ Queue # <<>>
  /\ LET p == Head(Queue)
         q == IF Regenerate THEN Rewritten(pcr.regen, p, slot) ELSE p
     IN  /\ Put("content", p.id, q.pcr, q.di)
         /\ pcr' = IF HasPcr(p)
                     THEN [pcr EXCEPT !.last  = slot,
                                      !.regen = IF Regenerate THEN AfterRewrite(@, p, slot) ELSE @]
                     ELSE pcr
  /\ deferred' = Tail(Queue)
  /\ sent' = [count |-> sent.count + 1, last |-> Head(Queue).id]
  /\ session' = [session EXCEPT !.sent = @ + 1, !.resumed = @ /\ ~HasPcr(Head(Queue))]

SendNull ==
  /\ ~ReinsertsPcr /\ Queue = <<>>
  /\ Put("null", None, None, FALSE)
  /\ UNCHANGED <<deferred, pcr, sent, session>>

(* The datagram leaves with its last slot, and the loop reports. *)
EmitSlot ==
  /\ Running /\ datagram # None
  /\ SendPcr \/ SendContent \/ SendNull
  /\ buffer' = IF Admits THEN Pop(buffer) ELSE buffer
  /\ media' = IF Admits THEN [media EXCEPT !.released = @ + 1] ELSE media
  /\ slot' = slot + 1
  /\ IF datagram.left > 1
       THEN /\ datagram' = [datagram EXCEPT !.left = @ - 1]
            /\ UNCHANGED <<reporter, control>>
       ELSE /\ datagram' = None
            /\ \/ Report(datagram.state, stats.stalls) /\ UNCHANGED control
               \/ UNCHANGED reporter /\ control' = [control EXCEPT !.result = "failed"]   \* send
  /\ UNCHANGED <<now, anchor, target, content, stalled, stats, input>>

(* The source has ended and everything it delivered has left. *)
Finish ==
  /\ Idle /\ anchor # None /\ Drained
  /\ Announce(State, stats.stalls)
  /\ control' = [control EXCEPT !.result = "ok"]
  /\ UNCHANGED <<now, clocks, target, buffer, deferred, pcr, content, stalled, datagram, stats, history>>

(* Time passes while the task waits, and for at most MaxLate past the        *)
(* instant it should have woken.                                             *)
Tick ==
  /\ Idle /\ now < Horizon
  /\ now < (IF anchor = None THEN control.since + PollBudget ELSE NextDue) + MaxLate
  /\ now' = now + 1
  /\ UNCHANGED <<control, clocks, target, buffer, deferred, pcr, content, stalled, datagram,
                 reporter, stats, history>>
-----------------------------------------------------------------------------
Init ==
  /\ now = 0
  /\ control = [closing |-> FALSE, result |-> None, since |-> 0]
  /\ anchor = None /\ slot = 0 /\ target = Floor
  /\ media = [anchor |-> None, ticked |-> None, credit |-> 0, released |-> 0]
  /\ buffer = NewBuffer(LatencyToPackets(Cap(Floor))) /\ deferred = <<>>
  /\ pcr = [regen |-> NewRegen, last |-> None, known |-> FALSE]
  /\ content = [first |-> None, last |-> None]
  /\ stalled = FALSE /\ datagram = None /\ reporter = None
  /\ stats = [dropped |-> 0, stalls |-> 0, muted |-> 0]
  /\ input = [received |-> 0, accepted |-> 0, at |-> None]
  /\ wire = None /\ wirePcr = None
  /\ sent = [count |-> 0, last |-> 0]
  /\ session = [from |-> 0, sent |-> 0, resumed |-> FALSE]

Engine == Silent \/ Mute \/ GiveUp \/ OpenDatagram \/ EmitSlot \/ Finish
Source == ReceiveWaiting \/ ReceiveRunning \/ EndWaiting \/ EndRunning \/ SourceFails
Next   == Engine \/ Source \/ Tick

Spec == Init /\ [][Next]_vars

(* The runtime polls the task again whenever it is ready, and time goes on:   *)
(* each of the loop's own turns is taken once it stays possible.  The source  *)
(* owes nothing.                                                              *)
Fairness == WF_vars(Engine) /\ WF_vars(Tick)
FairSpec == Spec /\ Fairness
-----------------------------------------------------------------------------
Instants == 0 .. Horizon
Packets  == [id : 1 .. MaxInput, pcr : 0 .. PcrWrap - 1 \cup {None}, di : BOOLEAN]
OnWire   == [kind : {"content", "pcr", "null"}, id : 1 .. MaxInput \cup {None},
             pcr : 0 .. PcrWrap - 1 \cup {None}, di : BOOLEAN, slot : Nat]
OrNone(S) == S \cup {None}

LoopType ==
  /\ now \in Instants
  /\ control \in [closing : BOOLEAN, result : OrNone({"ok", "stalled", "failed"}), since : Instants]
  /\ datagram \in OrNone([left : 1 .. PacketsPerDatagram, due : Nat, state : States])
  /\ reporter \in OrNone([state : States, at : Instants, stalls : Nat])
ClockType ==
  /\ anchor \in OrNone(Nat) /\ slot \in Nat /\ target \in Targets
  /\ media \in [anchor : OrNone(Nat), ticked : OrNone(Instants), credit : Nat, released : Nat]
QueueType ==
  /\ buffer \in [queue : Seq(Packets), capacity : Nat \ {0}]
  /\ deferred \in Seq(Packets)
PcrType ==
  pcr \in [regen : [anchor : OrNone([index : Nat, pcr : 0 .. PcrWrap - 1]),
                    lastSrc : OrNone(0 .. PcrWrap - 1), flagNext : BOOLEAN],
           last : OrNone(Nat), known : BOOLEAN]
SourceType ==
  /\ content \in [first : OrNone(Instants), last : OrNone(Instants)]
  /\ stalled \in BOOLEAN
  /\ input \in [received : 0 .. MaxInput, accepted : 0 .. MaxInput, at : OrNone(Instants)]
  /\ input.accepted <= input.received
CountType ==
  /\ stats \in [dropped : Nat, stalls : Nat, muted : Nat]
  /\ sent \in [count : Nat, last : 0 .. MaxInput]
  /\ session \in [from : Nat, sent : Nat, resumed : BOOLEAN]
WireType == wire \in OrNone(OnWire) /\ wirePcr \in OrNone(OnWire)

(* Every variable has the type of the field it models, and the byte clock   *)
(* starts with the media clock, before any datagram and any stall.          *)
TypeOK ==
  /\ LoopType /\ ClockType /\ QueueType /\ PcrType /\ SourceType /\ CountType /\ WireType
  /\ anchor = None <=> media.anchor = None
  /\ datagram # None \/ stalled => anchor # None

(* Every content packet the source delivered is on the wire, counted as     *)
(* dropped, or still held: enqueue, admission, pre-emption by a PCR, muting *)
(* and the drain lose none and send none twice.                             *)
Conservation == input.accepted = sent.count + stats.dropped + Held

(* What is still held leaves in the order it arrived, after all that has    *)
(* left: a PCR that takes a packet's slot delays it, never reorders it.     *)
Line == deferred \o buffer.queue
InOrder ==
  /\ \A i \in 1 .. Len(Line) : sent.last < Line[i].id
  /\ \A i, j \in 1 .. Len(Line) : i < j => Line[i].id < Line[j].id

(* Two PCRs that follow each other on the wire, whether rewritten or        *)
(* re-inserted, are as far apart in value as they are in bytes at the mux   *)
(* rate, unless the second says the clock was re-based or the media broke.  *)
PcrByteLocked ==
  [][ /\ Regenerate /\ wirePcr # None
      /\ wirePcr' # wirePcr /\ ~wirePcr'.di
      => (wirePcr'.pcr - wirePcr.pcr - TicksOf(wirePcr'.slot - wirePcr.slot)) % PcrWrap
           \in {0, 1} ]_vars

(* While the source lives, no slot passes the repetition limit without a    *)
(* PCR on the wire, burst, starvation or the end of a stall regardless.     *)
PcrRepeated ==
  [][ /\ Regenerate /\ wirePcr # None
      /\ datagram # None /\ datagram.state # "stalled" /\ slot' # slot
      => slot' - wirePcr'.slot <= PcrMaxPackets ]_vars

(* A slot is muted exactly when the source is gone: it has not ended, it    *)
(* has handed over nothing but stuffing for the stall timeout, and all it   *)
(* delivered has left.  No programme is muted and no dead carrier is sent.  *)
Gone == /\ StallKind # "off" /\ input.at # None /\ ~control.closing /\ ~HasPending
        /\ now >= anchor /\ now - input.at >= StallTimeout
MuteExactlyWhenGone ==
  [][ /\ slot' # slot /\ datagram = None => Gone
      /\ datagram = None /\ datagram' # None /\ StallPolicy = "mute" => ~Gone ]_vars

(* Under StallPolicy::Continue the carrier of a dead source is stuffing and *)
(* nothing else: no PCR is minted for a programme that is not there.        *)
StalledCarrierIsEmpty ==
  [][ stalled /\ datagram # None /\ slot' # slot => wire'.kind = "null" ]_vars

(* Only content that arrives ends a stall: not stuffing, not time, not a    *)
(* datagram sent while it lasts.                                            *)
StallEndsWithContent ==
  [][ stalled /\ ~stalled' => input'.accepted > input.accepted ]_vars

(* While the engine acts on a stall its observer's last report names it,    *)
(* with the counter that already includes it.                               *)
StallAnnounced ==
  stalled /\ Idle => reporter # None /\ reporter.state = "stalled" /\ reporter.stalls = stats.stalls

(* After a start or a stall the refilled buffer is released at the media    *)
(* rate behind a full cushion, however far the byte clock ran on meanwhile. *)
FastestRate == CHOOSE r \in ReleaseRates : \A q \in ReleaseRates : q <= r
ReleasedAtMediaRate ==
  session.sent <= IF now < session.from THEN 0
                  ELSE 1 + ((now - session.from) * FastestRate) \div RateUnit

(* The first of the source's PCRs to go out after a stall is flagged: the   *)
(* flag set on arrival survives every PCR re-inserted before it.            *)
ResumeFlagged ==
  [][ session.resumed /\ sent' # sent /\ wirePcr' # wirePcr => wirePcr'.di ]_vars

(* A run that ends well has put out or counted everything it was given. *)
CleanEnd == control.result = "ok" => input.accepted = sent.count + stats.dropped

(* A run stopped for a dead source had nothing left to send (observe.rs:    *)
(* the buffer is empty and no content has arrived for the stall timeout).   *)
FailsEmpty == control.result = "stalled" => ~HasPending

(* Under StallPolicy::Fail a source that falls silent for good ends the run,*)
(* once what it delivered has left: the engine never waits on it for ever.  *)
SilenceEndsRun ==
  StallKind # "off" /\ StallPolicy = "fail" => <>~Running

(* A source that has ended is drained and the run returns. *)
EndDrains == control.closing ~> ~Running

(* Every packet delivered leaves, or a later one leaves in its stead, while *)
(* the run goes on, even if the source neither speaks again nor ends.       *)
EveryPacketLeaves ==
  \A n \in 1 .. MaxInput : input.accepted >= n ~> sent.last >= n \/ ~Running
=============================================================================
