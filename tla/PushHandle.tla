----------------------------- MODULE PushHandle -----------------------------
(***************************************************************************)
(* TsPacer: the push-style handle.  Tasks push bytes or packets, each at   *)
(* its own pace; bytes are framed under a mutex and the packets sent after *)
(* it is released, over a bounded channel, to the task that paces them.    *)
(* That task first measures the rate when the configuration asks for it.   *)
(*                                                                         *)
(* The pacing itself is ArrivalPacer's: here the task takes what the       *)
(* channel holds, buffers it, and puts the buffer on the wire whenever it  *)
(* will.  Any of its ends may come: the input closed and drained, a sink   *)
(* that fails, a silence it was told to fail on.                           *)
(***************************************************************************)
EXTENDS WarmUp, JitterBuffer

CONSTANTS
  Pushers,      \* tasks that share the handle
  Nobody,       \* no pusher
  Sync,         \* SYNC_BYTE
  PacketSize,   \* TS_PACKET_SIZE
  ChannelSize,  \* the bound of the channel
  MaxLatency,   \* the cap on buffered media, in ticks
  PcrOf,        \* by its last byte, the PCR of a packet, below the wrap, or None
  Stuffing,     \* the last byte of a null packet
  Scenarios,    \* bound of the run: [push, hard], what each pusher has to push
  MaxCancels    \* bound of the run: calls given up

ASSUME PushHandleAssumption ==
  /\ Nobody \notin Pushers
  /\ PacketSize \in Nat \ {0}
  /\ {ChannelSize, MaxLatency} \subseteq Nat \ {0}
  /\ MaxCancels \in Nat
  /\ None \notin Nat
  /\ PcrOf \in [DOMAIN PcrOf -> (0 .. PcrWrap - 1) \cup {None}]
  /\ \A s \in Scenarios : s.push \in [Pushers -> Seq(DOMAIN PcrOf)] /\ s.hard \in BOOLEAN

VARIABLES
  hard,         \* stalls_hard: the configuration ends a run whose source is silent
  stream,       \* what each pusher has left to push
  calls,        \* [state, packets] of each pusher's call in progress
  lock,         \* who holds the mutex of the partial buffer
  partial,      \* the partial buffer
  offset,       \* how far the holder's scan of it has come
  channel,      \* packets sent and not received
  closing,      \* every sender is gone
  task,         \* "warmup", "pacing", "draining", "done" or "failed"
  warmup,       \* what the warm-up holds, and held when it ended
  rate,         \* the mux rate, None until it is locked
  store         \* the scheduler: its jitter buffer and what it shed and stripped

VARIABLES       \* history
  fed,          \* every byte pushed, in the order the mutex gave
  cut,          \* every packet framed from them
  serial,       \* packets each pusher has taken on
  accepted,     \* packets the channel took
  sent,         \* packets on the wire, in order
  cancels       \* calls given up

handle  == <<hard, stream, calls, lock, partial, offset, fed, cut, serial, cancels>>
engine  == <<task, warmup, rate, store, sent>>
vars    == <<handle, channel, closing, engine, accepted>>
-----------------------------------------------------------------------------
Packet(p, n, data) == [by |-> p, n |-> n, data |-> data,
                       pcr |-> PcrOf[data[PacketSize]],
                       null |-> data[PacketSize] = Stuffing]

Idle == [state |-> "idle", packets |-> <<>>]
Running == task \in {"warmup", "pacing", "draining"}

(* Scheduler::enqueue: stuffing is stripped, and a full buffer sheds.       *)
Enqueue(s, packet) ==
  IF packet.null THEN [s EXCEPT !.stripped = @ + 1]
  ELSE [s EXCEPT !.buffer = Push(@, packet),
                 !.shed = @ + (IF Full(s.buffer) THEN 1 ELSE 0)]

NewStore(capacity) == [buffer |-> NewBuffer(capacity), shed |-> 0, stripped |-> 0]

Init ==
  /\ \E s \in Scenarios : stream = s.push /\ hard = s.hard
  /\ calls = [p \in Pushers |-> Idle]
  /\ lock = Nobody /\ partial = <<>> /\ offset = 0
  /\ channel = <<>> /\ closing = FALSE
  /\ task = "warmup" /\ warmup = NewWarmUp /\ rate = None /\ store = NewStore(1)
  /\ fed = <<>> /\ cut = <<>> /\ serial = [p \in Pushers |-> 0]
  /\ accepted = 0 /\ sent = <<>> /\ cancels = 0

(* push_bytes takes the mutex and extends the partial buffer ...            *)
PushBytes(p) ==
  /\ calls[p] = Idle /\ ~closing /\ lock = Nobody
  /\ \E n \in 1..Len(stream[p]) :
       LET data == SubSeq(stream[p], 1, n)
       IN /\ partial' = partial \o data
          /\ fed' = fed \o data
          /\ stream' = [stream EXCEPT ![p] = SubSeq(@, n + 1, Len(@))]
  /\ offset' = 0
  /\ lock' = p
  /\ calls' = [calls EXCEPT ![p] = [state |-> "split", packets |-> <<>>]]
  /\ UNCHANGED <<hard, cut, serial, cancels, channel, closing, engine, accepted>>

Scanning(p) == lock = p /\ offset + PacketSize <= Len(partial)

(* ... scans it packet by packet, resynchronising ...                       *)
SplitPacket(p) ==
  /\ Scanning(p) /\ partial[offset + 1] = Sync
  /\ LET data == [i \in 1..PacketSize |-> partial[offset + i]]
     IN /\ calls' = [calls EXCEPT ![p].packets = Append(@, Packet(p, serial[p] + 1, data))]
        /\ cut' = Append(cut, [start |-> Len(fed) - Len(partial) + offset, data |-> data])
  /\ serial' = [serial EXCEPT ![p] = @ + 1]
  /\ offset' = offset + PacketSize
  /\ UNCHANGED <<hard, stream, lock, partial, fed, cancels, channel, closing, engine, accepted>>

SplitSlip(p) ==
  /\ Scanning(p) /\ partial[offset + 1] # Sync
  /\ offset' = offset + 1
  /\ UNCHANGED <<hard, stream, calls, lock, partial, fed, cut, serial, cancels,
                 channel, closing, engine, accepted>>

(* MUTANT of Undrained: the scan's end forgets the bytes of no packet yet.  *)
UndrainedNothing == <<>>

Undrained == SubSeq(partial, offset + 1, Len(partial))

(* ... and drains what it is done with before it lets the mutex go.         *)
SplitDone(p) ==
  /\ lock = p /\ ~Scanning(p)
  /\ partial' = Undrained
  /\ offset' = 0
  /\ lock' = Nobody
  /\ calls' = [calls EXCEPT ![p].state = "send"]
  /\ UNCHANGED <<hard, stream, fed, cut, serial, cancels, channel, closing, engine, accepted>>

(* push_packet and push_packets: packets the caller framed itself.          *)
PushPackets(p) ==
  /\ calls[p] = Idle /\ ~closing
  /\ Len(stream[p]) >= PacketSize /\ Head(stream[p]) = Sync
  /\ calls' = [calls EXCEPT ![p] =
       [state |-> "send", packets |-> <<Packet(p, serial[p] + 1, SubSeq(stream[p], 1, PacketSize))>>]]
  /\ serial' = [serial EXCEPT ![p] = @ + 1]
  /\ stream' = [stream EXCEPT ![p] = SubSeq(@, PacketSize + 1, Len(@))]
  /\ UNCHANGED <<hard, lock, partial, offset, fed, cut, cancels, channel, closing, engine, accepted>>

(* MUTANT of NextToSend: packets are popped off the end of the call's list. *)
LastToSend(s) == <<s[Len(s)], SubSeq(s, 1, Len(s) - 1)>>

(* The packet a call sends next, and those it has left after it.            *)
NextToSend(s) == <<Head(s), Tail(s)>>

Send(p) ==
  /\ calls[p].state = "send" /\ calls[p].packets # <<>>
  /\ Running /\ Len(channel) < ChannelSize
  /\ channel' = Append(channel, NextToSend(calls[p].packets)[1])
  /\ calls' = [calls EXCEPT ![p].packets = NextToSend(@)[2]]
  /\ accepted' = accepted + 1
  /\ UNCHANGED <<hard, stream, lock, partial, offset, fed, cut, serial, cancels, closing, engine>>

PushReturnsOk(p) ==
  /\ calls[p] = [state |-> "send", packets |-> <<>>]
  /\ calls' = [calls EXCEPT ![p] = Idle]
  /\ UNCHANGED <<hard, stream, lock, partial, offset, fed, cut, serial, cancels,
                 channel, closing, engine, accepted>>

(* MUTANT of SeesClosed: only a clean end of the task drops its receiver.   *)
SeesClosedAtEnd == task = "done"

SeesClosed == ~Running

(* The receiver went with the task: Error::Closed, and the call's remaining *)
(* packets with it.                                                         *)
PushFails(p) ==
  /\ calls[p].state = "send" /\ calls[p].packets # <<>>
  /\ SeesClosed
  /\ calls' = [calls EXCEPT ![p] = Idle]
  /\ UNCHANGED <<hard, stream, lock, partial, offset, fed, cut, serial, cancels,
                 channel, closing, engine, accepted>>

(* The caller drops a call that waits for room: the packets it had taken    *)
(* out of the partial buffer are lost.                                      *)
Cancel(p) ==
  /\ calls[p].state = "send" /\ calls[p].packets # <<>>
  /\ cancels < MaxCancels
  /\ calls' = [calls EXCEPT ![p] = Idle]
  /\ cancels' = cancels + 1
  /\ UNCHANGED <<hard, stream, lock, partial, offset, fed, cut, serial,
                 channel, closing, engine, accepted>>

(* close takes the handle, so no call is in progress; dropping it does too. *)
Close ==
  /\ ~closing /\ \A p \in Pushers : calls[p] = Idle
  /\ closing' = TRUE
  /\ UNCHANGED <<handle, channel, engine, accepted>>
-----------------------------------------------------------------------------
(* The cap in packets at the locked rate.                                   *)
CapAt(r) == (r * MaxLatency + PacketTicks - 1) \div PacketTicks

(* The store after each of the packets is enqueued, one after another.      *)
Primed(s, packets) ==
  LET after[i \in 0 .. Len(packets)] ==
        IF i = 0 THEN s ELSE Enqueue(after[i - 1], packets[i])
  IN  after

(* The rate is locked, and the warm-up primes the buffer in one instant.    *)
StartPacing(w) ==
  /\ rate' = LockedRate(w)
  /\ store' = Primed(NewStore(CapAt(LockedRate(w))), w.packets)[Len(w.packets)]
  /\ warmup' = w
  /\ task' = "pacing"

Gathers ==
  /\ task = "warmup" /\ channel # <<>>
  /\ channel' = Tail(channel)
  /\ LET w == Gather(warmup, Head(channel))
     IN IF Enough(w)
        THEN StartPacing(w) /\ UNCHANGED sent
        ELSE warmup' = w /\ UNCHANGED <<task, rate, store, sent>>
  /\ UNCHANGED <<handle, closing, accepted>>

InputEnded == channel = <<>> /\ closing
InputSilent == channel = <<>> /\ ~closing

(* The input ended, or paused for the wait's budget with enough to measure. *)
CutsShort ==
  /\ task = "warmup"
  /\ InputEnded \/ (InputSilent /\ ~hard /\ Measurable(warmup))
  /\ StartPacing(warmup)
  /\ UNCHANGED <<handle, channel, closing, accepted, sent>>

(* A silence that ends the run: in the warm-up, or with nothing buffered.   *)
FailsSilent ==
  /\ hard /\ InputSilent
  /\ task = "warmup" \/ (task = "pacing" /\ store.buffer.queue = <<>>)
  /\ task' = "failed"
  /\ UNCHANGED <<handle, channel, closing, accepted, warmup, rate, store, sent>>

Takes ==
  /\ task = "pacing" /\ channel # <<>>
  /\ channel' = Tail(channel)
  /\ store' = Enqueue(store, Head(channel))
  /\ UNCHANGED <<handle, closing, accepted, task, warmup, rate, sent>>

(* MUTANT of ClosedBehind: the handle being gone ends the input at once.    *)
ClosedAtOnce == closing

ClosedBehind == InputEnded

TakesEnd ==
  /\ task = "pacing" /\ ClosedBehind
  /\ task' = "draining"
  /\ UNCHANGED <<handle, channel, closing, accepted, warmup, rate, store, sent>>

Emit ==
  /\ task \in {"pacing", "draining"} /\ store.buffer.queue # <<>>
  /\ sent' = Append(sent, Head(store.buffer.queue))
  /\ store' = [store EXCEPT !.buffer = Pop(@)]
  /\ UNCHANGED <<handle, channel, closing, accepted, task, warmup, rate>>

SinkFails ==
  /\ task \in {"pacing", "draining"} /\ store.buffer.queue # <<>>
  /\ task' = "failed"
  /\ UNCHANGED <<handle, channel, closing, accepted, warmup, rate, store, sent>>

Finish ==
  /\ task = "draining" /\ store.buffer.queue = <<>>
  /\ task' = "done"
  /\ UNCHANGED <<handle, channel, closing, accepted, warmup, rate, store, sent>>

Split(p) == SplitPacket(p) \/ SplitSlip(p) \/ SplitDone(p)
Sends(p) == Send(p) \/ PushReturnsOk(p) \/ PushFails(p)
Engine == Gathers \/ CutsShort \/ Takes \/ TakesEnd \/ Emit \/ Finish

Next ==
  \/ \E p \in Pushers : PushBytes(p) \/ PushPackets(p) \/ Split(p) \/ Sends(p) \/ Cancel(p)
  \/ Close \/ Engine \/ FailsSilent \/ SinkFails

(* A call that is polled goes on, and so does the task: the runtime polls   *)
(* what is ready, and the sink takes what it is offered.  Nobody has to     *)
(* push or to close.                                                        *)
Fairness == WF_vars(Engine) /\ \A p \in Pushers : WF_vars(Split(p) \/ Sends(p))

Spec == Init /\ [][Next]_vars /\ Fairness
-----------------------------------------------------------------------------
(* The bytes pushed are framed as one stream in the order the mutex gave,   *)
(* however they were divided among calls and whatever became of the calls   *)
(* (TsPacer::push_bytes: "a trailing partial packet is buffered until the   *)
(* next call").                                                             *)
Stream == INSTANCE Packetizer WITH at <- Len(fed) - Len(partial) + offset
Framed == Stream!Spec

(* All that was taken on and is still to come: on the wire, buffered, held  *)
(* for the measurement, in the channel.                                     *)
Line == sent \o store.buffer.queue \o (IF rate = None THEN warmup.packets ELSE <<>>) \o channel

(* What one task pushes leaves in the order it pushed it, each packet once, *)
(* however calls interleave on the channel and whichever are given up       *)
(* (push_packets: "Push several packets in order").                         *)
OrderKept ==
  \A i, j \in DOMAIN Line : i < j /\ Line[i].by = Line[j].by => Line[i].n < Line[j].n

(* close returns the statistics of a run that put every packet it accepted  *)
(* on the wire, or counted it as shed or stripped (TsPacer::close: "flush   *)
(* the buffer, and wait for the emitter to finish").                        *)
CloseDeliversAll ==
  task = "done" => channel = <<>> /\ accepted = Len(sent) + store.shed + store.stripped

(* Nobody is left waiting: a push ends, with Ok or with Error::Closed, even *)
(* when the task stopped with the channel full; and a handle that was       *)
(* closed returns.  The streams are finite, so a call that never ended      *)
(* would be in progress for ever.                                           *)
HandleReturns ==
  <>[](/\ \A p \in Pushers : calls[p] = Idle
       /\ closing => task \in {"done", "failed"})

Locks == rate = None /\ rate' # None

(* A clock read more than once whose first and last value are the same.     *)
StandsStill(s) == Cardinality(PcrIndices(s)) >= 2 /\ Span(s).ticks = 0

(* The fallback rate is for an input without a clock: a silence alone never *)
(* pins it to the run (resolve_auto: "guessing from one packet would pin    *)
(* the fallback rate to the entire session").                               *)
NeverGuesses ==
  [][Locks /\ ~HasEstimate(warmup'.packets) =>
       \/ InputEnded
       \/ Len(warmup'.packets) >= WarmupMax
       \/ StandsStill(warmup'.packets)]_vars

(* The cap is in packets at the very rate the warm-up measures: a warm-up   *)
(* from one PCR to a later one, in order, that lasts no longer than the cap *)
(* fits the buffer (pace_with: the warm-up packets "fill the buffer as the  *)
(* initial cushion").                                                       *)
InOneClock(s) ==
  /\ s # <<>> /\ {1, Len(s)} \subseteq PcrIndices(s)
  /\ s[1].pcr < s[Len(s)].pcr /\ s[Len(s)].pcr - s[1].pcr <= MaxLatency

WarmUpKept ==
  [][Locks /\ InOneClock(warmup'.packets) => store'.shed = 0]_vars
=============================================================================
