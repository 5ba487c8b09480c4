----------------------- MODULE ArrivalPromises_proof ------------------------
(***************************************************************************)
(* What arrival clocking promises, for every value of the constants.       *)
(* About its reports: a stall is announced, a run given up holds nothing,  *)
(* and content leaves no faster than the media rate.  About the PCRs it    *)
(* sends: they are locked to the byte position, they are never too far     *)
(* apart, the first after a stall says so, and none is sent for a source   *)
(* that is gone.                                                           *)
(***************************************************************************)
EXTENDS ArrivalSafety_proof

(* What the last report says of the stall the engine acts on.  A report     *)
(* that is made is made of the current counter; one that is not would have  *)
(* repeated it.  And while the report of an earlier stall is still the      *)
(* last, what ended it has not left yet.                                    *)
ReportsStall == reporter # None /\ reporter.state = "stalled"

ReportInv ==
  /\ stalled /\ Idle => ReportsStall
  /\ Running /\ stalled /\ ReportsStall => reporter.stalls = stats.stalls
  /\ Running /\ datagram # None => (stalled <=> datagram.state = "stalled")
  /\ ~stalled /\ Idle /\ ReportsStall => HasPending

(* What a report of the counter of the moment leaves behind. *)
LEMMA ReportSays ==
  ASSUME NEW st \in States, NEW n \in Nat, now \in Nat, Report(st, n)
  PROVE  /\ reporter' # None /\ reporter'.state = st
         /\ reporter' = reporter \/ reporter'.stalls = n
         /\ reporter # None /\ reporter.state # st => reporter'.stalls = n
         /\ reporter = None => reporter'.stalls = n
<1>1. [state |-> st, at |-> now, stalls |-> n] # None
  BY PacerAssumption DEF PacerAssumption
<1>2. QED
  BY <1>1 DEF Report, Announce

(* The result of a loop that goes on, and of one that returns. *)
LEMMA Results ==
  ASSUME TypeOK
  PROVE  /\ \A b : [control EXCEPT !.closing = b].result = control.result
         /\ \A n : [control EXCEPT !.since = n].result = control.result
         /\ \A r \in {"ok", "stalled", "failed"} : [control EXCEPT !.result = r].result # None
<1>1. control \in [closing : BOOLEAN, result : OrNone({"ok", "stalled", "failed"}), since : Instants]
  BY DEF TypeOK, LoopType
<1>2. QED
  BY <1>1, PacerAssumption DEF PacerAssumption

(* Content that has just arrived is held. *)
LEMMA ArrivalIsHeld ==
  ASSUME TypeOK, NEW p \in SourcePackets, Receive(p), ~p.null, UNCHANGED deferred
  PROVE  HasPending'
<1>1. buffer.queue \in Seq(Packets) /\ deferred \in Seq(Packets)
  BY DEF TypeOK, QueueType
<1>2. \E pkt \in Packets, q \in Seq(Packets) : buffer'.queue = Append(q, pkt)
  <2>1. PICK pkt \in Packets :
          \/ buffer'.queue = Append(buffer.queue, pkt)
          \/ buffer.queue # <<>> /\ buffer'.queue = Append(Tail(buffer.queue), pkt)
    BY EnqueueMoves DEF Receive
  <2>2. buffer.queue # <<>> => Tail(buffer.queue) \in Seq(Packets)
    BY <1>1, HeadTailProperties
  <2>3. QED
    BY <1>1, <2>1, <2>2
<1>3. Len(buffer'.queue) \in Nat \ {0} /\ Len(deferred') \in Nat
  BY <1>1, <1>2, LenProperties, AppendProperties
<1>4. QED
  BY <1>3 DEF HasPending, Held

(* The release clock advances to a number, and so does what it authorises.  *)
Media == [anchor : Nat, ticked : OrNone(Instants), credit : Nat, released : Nat]

LEMMA AdvancedType ==
  ASSUME TypeOK, anchor # None, NEW rate \in ReleaseRates
  PROVE  /\ media \in Media /\ now \in Instants /\ now \in Nat
         /\ Advanced(rate) \in Media /\ Authorised(Advanced(rate)) \in Nat
<1> DEFINE last == IF media.ticked = None THEN media.anchor ELSE media.ticked
           m    == Advanced(rate)
<1>1. media \in Media /\ now \in Nat /\ rate \in Nat /\ now \in Instants
  BY Numbers DEF TypeOK, LoopType, ClockType, OrNone, Instants, Media
<1>2. last \in Nat
  BY <1>1 DEF OrNone, Instants, Media
<1>3. m \in Media
  <2>1. CASE now >= media.anchor /\ now > last
    <3>1. m = [media EXCEPT !.ticked = now, !.credit = @ + (now - last) * rate]
      BY <2>1 DEF Advanced
    <3> HIDE DEF last, m
    <3>2. now - last \in Nat
      BY <1>1, <1>2, <2>1
    <3>3. media.credit \in Nat /\ (now - last) * rate \in Nat
      BY <1>1, <3>2 DEF Media
    <3>4. media.credit + (now - last) * rate \in Nat
      BY <3>3
    <3>5. QED
      BY <1>1, <3>1, <3>4 DEF OrNone, Media
  <2>2. CASE ~(now >= media.anchor /\ now > last)
    BY <1>1, <2>2 DEF Advanced
  <2>3. QED
    BY <2>1, <2>2
<1> HIDE DEF m
<1>4. Authorised(m) \in Nat
  BY <1>1, <1>3, Numbers DEF Authorised, Media
<1>5. QED
  BY <1>1, <1>3, <1>4 DEF m

LEMMA ReportStep ==
  ASSUME TypeOK, StallInv, ReportInv, [Next]_vars
  PROVE  ReportInv'
<1>0. /\ now \in Nat /\ stats.stalls \in Nat /\ stalled \in BOOLEAN
      /\ stats \in [dropped : Nat, stalls : Nat, muted : Nat]
      /\ reporter # None => reporter.state \in States /\ reporter.stalls \in Nat
      /\ datagram # None => /\ datagram \in [left : 1 .. PacketsPerDatagram, due : Nat, state : States]
                            /\ datagram.state \in States
      /\ \A st \in States, n \in Nat : [state |-> st, at |-> now, stalls |-> n] # None
      /\ \A d \in [left : Nat, due : Nat, state : States] : d # None
  <2>1. now \in Nat /\ stats \in [dropped : Nat, stalls : Nat, muted : Nat] /\ stalled \in BOOLEAN
    BY DEF TypeOK, LoopType, CountType, SourceType, Instants
  <2>2. /\ reporter # None => reporter \in [state : States, at : Instants, stalls : Nat]
        /\ datagram # None => datagram \in [left : 1 .. PacketsPerDatagram, due : Nat, state : States]
    BY DEF TypeOK, LoopType, OrNone
  <2>3. /\ \A d \in [left : Nat, due : Nat, state : States] : d # None
        /\ \A r \in [state : States, at : Nat, stalls : Nat] : r # None
    BY PacerAssumption DEF PacerAssumption
  <2>4. QED
    BY <2>1, <2>2, <2>3, Numbers DEF Instants
<1>1. CASE ReceiveWaiting \/ ReceiveRunning
  <2>1. PICK p \in SourcePackets : Receive(p)
    BY <1>1 DEF ReceiveWaiting, ReceiveRunning
  <2>2. /\ UNCHANGED <<datagram, reporter, deferred>>
        /\ control'.result = control.result /\ Idle
        /\ stats'.stalls = stats.stalls
    BY <1>1, <2>1 DEF ReceiveWaiting, ReceiveRunning, Receive, Enqueue, Waiting, Polling, TypeOK,
                      LoopType, CountType
  <2>3. CASE p.null
    <3>1. UNCHANGED <<buffer, stalled>>
      BY <2>1, <2>3 DEF Receive
    <3>2. QED
      BY <2>2, <3>1 DEF ReportInv, ReportsStall, Idle, Running, HasPending, Held
  <2>4. CASE ~p.null
    <3>1. stalled' = FALSE /\ HasPending'
      BY <2>1, <2>2, <2>4, ArrivalIsHeld DEF Receive, Enqueue
    <3>2. QED
      BY <2>2, <3>1 DEF ReportInv, Idle
  <2>5. QED
    BY <2>3, <2>4
<1>2. CASE Mute
  <2>1. /\ stalled' = TRUE /\ stats'.stalls = stats.stalls + IF stalled THEN 0 ELSE 1
        /\ UNCHANGED <<datagram, buffer, deferred, control>> /\ Idle /\ ~HasPending
    BY <1>0, <1>2 DEF Mute, ObserveState, Dead, DueNow, State, TypeOK, CountType
  <2>2. Report("stalled", stats'.stalls) /\ stats'.stalls \in Nat
    BY <1>0, <1>2, <2>1 DEF Mute
  <2>3. ReportsStall' /\ reporter'.stalls = stats'.stalls
    <3>1. CASE stalled
      <4>1. ReportsStall /\ reporter.stalls = stats'.stalls
        BY <1>0, <2>1, <3>1 DEF ReportInv, Idle
      <4>2. QED
        BY <1>0, <2>2, <4>1, ReportSays DEF States, ReportsStall
    <3>2. CASE ~stalled
      <4>1. ~ReportsStall
        BY <2>1, <3>2 DEF ReportInv
      <4>2. QED
        BY <1>0, <2>2, <4>1, ReportSays DEF States, ReportsStall
    <3>3. QED
      BY <3>1, <3>2
  <2>4. QED
    BY <2>1, <2>3 DEF ReportInv, Idle
<1>3. CASE OpenDatagram
  <2>1. /\ stalled' = (State = "stalled") /\ UNCHANGED <<reporter, control>> /\ Idle
        /\ stats'.stalls = stats.stalls + IF State = "stalled" /\ ~stalled THEN 1 ELSE 0
        /\ datagram'.state = State
    BY <1>0, <1>3 DEF OpenDatagram, ObserveState, DueNow, TypeOK, CountType
  <2>2. datagram' # None
    <3>1. PICK rate \in ReleaseRates : media' = Advanced(rate)
      BY <1>3 DEF OpenDatagram
    <3>2. datagram' = [left |-> PacketsPerDatagram, due |-> Authorised(media'), state |-> State]
      BY <1>3 DEF OpenDatagram
    <3>3. Authorised(media') \in Nat
      BY <1>3, <3>1, AdvancedType DEF OpenDatagram, DueNow
    <3> HIDE DEF Authorised
    <3>4. State \in States /\ PacketsPerDatagram \in Nat
      BY StateType, Numbers
    <3> HIDE DEF State
    <3>5. datagram' \in [left : Nat, due : Nat, state : States]
      BY <3>2, <3>3, <3>4
    <3>6. QED
      BY <1>0, <3>5
  <2>3. State = "stalled" => ~HasPending
    BY DEF State
  <2>4. Running' /\ ~Idle' /\ Running
    BY <2>1, <2>2 DEF Idle, Running
  <2>5. stalled' /\ ReportsStall' => reporter'.stalls = stats'.stalls
    BY <1>0, <2>1, <2>3, <2>4 DEF ReportInv, ReportsStall
  <2>6. stalled' <=> datagram'.state = "stalled"
    BY <2>1
  <2>7. QED
    BY <2>4, <2>5, <2>6 DEF ReportInv
<1>4. CASE EmitSlot
  <2>1. /\ UNCHANGED <<stalled, stats>> /\ Running /\ datagram # None
        /\ datagram \in [left : 1 .. PacketsPerDatagram, due : Nat, state : States]
    BY <1>4 DEF EmitSlot, TypeOK, LoopType, OrNone
  <2>2. CASE datagram.left > 1
    <3>1. UNCHANGED <<reporter, control>> /\ datagram' = [datagram EXCEPT !.left = @ - 1]
      BY <1>4, <2>2 DEF EmitSlot
    <3>2. datagram'.state = datagram.state /\ datagram' # None
      <4>1. datagram.left - 1 \in Nat /\ datagram.state \in States
        BY <1>0, <2>1, <2>2, Numbers
      <4>2. datagram' \in [left : Nat, due : Nat, state : States]
        BY <2>1, <3>1, <4>1
      <4>3. QED
        BY <1>0, <2>1, <3>1, <4>2
    <3>3. QED
      BY <2>1, <3>1, <3>2 DEF ReportInv, ReportsStall, Idle, Running
  <2>3. CASE ~(datagram.left > 1)
    <3>1. /\ datagram' = None
          /\ \/ Report(datagram.state, stats.stalls)
             \/ reporter' = reporter /\ ~Running'
      <4>1. \/ Report(datagram.state, stats.stalls)
            \/ UNCHANGED reporter /\ control' = [control EXCEPT !.result = "failed"]
        BY <1>4, <2>3 DEF EmitSlot
      <4>2. [control EXCEPT !.result = "failed"].result # None
        BY Results
      <4>3. datagram' = None
        BY <1>4, <2>3 DEF EmitSlot
      <4>4. CASE control' = [control EXCEPT !.result = "failed"] /\ reporter' = reporter
        <5>1. control'.result # None
          BY <4>2, <4>4
        <5>2. QED
          BY <4>3, <4>4, <5>1 DEF Running
      <4>5. QED
        BY <4>1, <4>3, <4>4
    <3>2. CASE reporter' = reporter /\ ~Running'
      BY <3>1, <3>2 DEF ReportInv, Idle
    <3>3. CASE Report(datagram.state, stats.stalls)
      <4>1. datagram.state \in States /\ (stalled <=> datagram.state = "stalled")
        BY <1>0, <2>1 DEF ReportInv
      <4>2. stalled => ReportsStall' /\ reporter'.stalls = stats.stalls
        BY <1>0, <2>1, <3>3, <4>1, ReportSays DEF ReportInv, ReportsStall
      <4>3. ~stalled => ~ReportsStall'
        BY <1>0, <2>1, <3>3, <4>1, ReportSays DEF ReportsStall
      <4>4. QED
        BY <2>1, <3>1, <4>2, <4>3 DEF ReportInv
    <3>4. QED
      BY <3>1, <3>2, <3>3
  <2>4. QED
    BY <2>2, <2>3
<1>5. CASE Silent
  <2>1. /\ anchor = None /\ Idle /\ UNCHANGED <<stalled, stats, datagram, buffer, deferred>>
        /\ \E st \in {"priming", "live"} : Report(st, stats.stalls)
    BY <1>5 DEF Silent, Waiting
  <2>2. ~stalled
    BY <2>1 DEF TypeOK
  <2>3. reporter' = reporter \/ ~ReportsStall'
    BY <2>1 DEF Report, Announce, ReportsStall
  <2>4. QED
    BY <2>1, <2>2, <2>3 DEF ReportInv, ReportsStall, HasPending, Held, Idle
<1>6. CASE GiveUp \/ Finish \/ SourceFails
  <2>1. ~Running' /\ datagram' = datagram /\ datagram = None
    BY <1>6, Results DEF GiveUp, Finish, SourceFails, DueNow, Waiting, Polling, Idle, Running
  <2>2. QED
    BY <2>1 DEF ReportInv, Idle
<1>7. CASE EndWaiting \/ EndRunning \/ Tick \/ UNCHANGED vars
  <2>1. UNCHANGED <<stalled, stats, datagram, reporter, buffer, deferred>>
    BY <1>7 DEF EndWaiting, EndRunning, Tick, vars, history
  <2>2. control'.result = control.result \/ (~Running' /\ datagram = None)
    BY <1>7, Results
    DEF EndWaiting, EndRunning, Tick, vars, Waiting, Polling, Idle, Running
  <2>3. QED
    BY <2>1, <2>2 DEF ReportInv, ReportsStall, HasPending, Held, Idle, Running
<1>8. QED
  BY <1>1, <1>2, <1>3, <1>4, <1>5, <1>6, <1>7 DEF Next, Engine, Source

(* Reports and the engine's stall bookkeeping agree at every step.          *)
THEOREM ReportsKept == Spec => []ReportInv
<1>1. Init => ReportInv
  BY DEF Init, ReportInv, ReportsStall
<1>2. TypeOK /\ StallInv /\ ReportInv /\ [Next]_vars => ReportInv'
  BY ReportStep
<1>3. QED
  BY <1>1, <1>2, TypeCorrect, StallKept, PTL DEF Spec

(* While the engine acts on a stall, the last report names it, with the     *)
(* counter that includes it: no delivery, datagram or heartbeat in between  *)
(* leaves the observer behind.                                              *)
THEOREM StallsAreAnnounced == Spec => []StallAnnounced
<1>1. ReportInv => StallAnnounced
  BY DEF ReportInv, ReportsStall, StallAnnounced, Idle
<1>2. QED
  BY <1>1, ReportsKept, PTL
-----------------------------------------------------------------------------
(* With a pinned cushion the clock starts with the first packet, so a pacer  *)
(* that waits holds nothing.                                                 *)
FailInv == FailsEmpty /\ (anchor = None => ~HasPending)

LEMMA FailStep ==
  ASSUME ~Adaptive, TypeOK, FailInv, [Next]_vars
  PROVE  FailInv'
<1>1. CASE ~Running
  <2>1. UNCHANGED vars
    BY <1>1, Returned
  <2>2. QED
    BY <2>1 DEF vars, FailInv, FailsEmpty, HasPending, Held
<1>2. CASE Running
  <2>0. control.result # "stalled" /\ None # "stalled"
    BY <1>2, PacerAssumption DEF Running, PacerAssumption
  <2>1. CASE ReceiveWaiting \/ ReceiveRunning
    <3>1. PICK p \in SourcePackets : Receive(p)
      BY <2>1 DEF ReceiveWaiting, ReceiveRunning
    <3>2. control'.result = control.result /\ deferred' = deferred
      BY <2>1, <3>1, Results DEF ReceiveWaiting, ReceiveRunning, Receive
    <3>3. CASE p.null
      BY <2>0, <3>1, <3>2, <3>3 DEF Receive, FailInv, FailsEmpty, HasPending, Held
    <3>4. CASE ~p.null
      <4>1. Enqueue(p)
        BY <3>1, <3>4 DEF Receive
      <4>2. stalled => anchor # None
        BY DEF TypeOK
      <4>3. anchor' # None
        <5>1. CASE stalled
          BY <4>1, <4>2, <5>1 DEF Enqueue
        <5>2. CASE ~stalled
          <6> DEFINE since == IF content.first = None THEN now ELSE content.first
          <6>1. PICK t \in Targets, settled \in BOOLEAN :
                  Arm(buffer', Len(buffer'.queue) + Len(deferred), t, settled, since)
            BY <4>1, <5>2 DEF Enqueue
          <6>2. now \in Int /\ t \in Int
            BY Numbers DEF TypeOK, LoopType, Instants
          <6>3. now + t # None
            BY <6>2, Numbers
          <6>4. QED
            BY <6>1, <6>3 DEF Arm, Opens
        <5>3. QED
          BY <5>1, <5>2
      <4>4. QED
        BY <2>0, <3>2, <4>3 DEF FailInv, FailsEmpty
    <3>5. QED
      BY <3>3, <3>4
  <2>2. CASE EmitSlot
    <3>1. anchor' = anchor /\ anchor # None
      BY <2>2 DEF EmitSlot, TypeOK
    <3>2. control' = control \/ control' = [control EXCEPT !.result = "failed"]
      BY <2>2 DEF EmitSlot
    <3>3. control'.result # "stalled"
      BY <2>0, <3>2 DEF TypeOK, LoopType
    <3>4. QED
      BY <3>1, <3>3 DEF FailInv, FailsEmpty
  <2>3. CASE Silent
    <3>1. anchor = None /\ UNCHANGED <<buffer, deferred>>
      BY <2>3 DEF Silent, Waiting
    <3>2. QED
      BY <3>1 DEF FailInv, FailsEmpty, HasPending, Held
  <2>4. CASE EndWaiting
    <3>1. UNCHANGED <<buffer, deferred>> /\ anchor = None
      BY <2>4 DEF EndWaiting, Waiting
    <3>2. QED
      BY <3>1 DEF FailInv, FailsEmpty, HasPending, Held
  <2>5. CASE GiveUp
    <3>1. ~HasPending /\ UNCHANGED <<buffer, deferred, anchor>>
      BY <2>5 DEF GiveUp, Dead, State, clocks
    <3>2. QED
      BY <3>1 DEF FailInv, FailsEmpty, HasPending, Held
  <2>6. CASE Mute \/ OpenDatagram \/ EndRunning \/ Tick \/ UNCHANGED vars
    <3>1. UNCHANGED <<buffer, deferred, anchor>>
      BY <2>6 DEF Mute, OpenDatagram, EndRunning, Tick, vars, clocks
    <3>2. control'.result = control.result
      BY <2>6, Results DEF Mute, OpenDatagram, EndRunning, Tick, vars
    <3>3. QED
      BY <2>0, <3>1, <3>2 DEF FailInv, FailsEmpty, HasPending, Held
  <2>7. CASE Finish \/ SourceFails
    <3>1. UNCHANGED <<buffer, deferred, anchor>>
      BY <2>7 DEF Finish, SourceFails, clocks
    <3>2. control' = [control EXCEPT !.result = "ok"] \/ control' = [control EXCEPT !.result = "failed"]
      BY <2>7 DEF Finish, SourceFails
    <3>3. control'.result # "stalled"
      BY <3>2 DEF TypeOK, LoopType
    <3>4. QED
      BY <3>1, <3>3 DEF FailInv, FailsEmpty, HasPending, Held
  <2>8. QED
    BY <2>1, <2>2, <2>3, <2>4, <2>5, <2>6, <2>7 DEF Next, Engine, Source
<1>3. QED
  BY <1>1, <1>2

(* A run with a pinned cushion that StallPolicy::Fail stops has sent all it  *)
(* was given.                                                                *)
THEOREM FailsOnlyEmpty == ~Adaptive => (Spec => []FailsEmpty)
<1> SUFFICES ASSUME ~Adaptive PROVE Spec => []FailsEmpty
  OBVIOUS
<1>1. Init => FailInv
  BY PacerAssumption
  DEF Init, FailInv, FailsEmpty, HasPending, Held, NewBuffer, PacerAssumption
<1>2. TypeOK /\ FailInv /\ [Next]_vars => FailInv'
  BY FailStep
<1>3. FailInv => FailsEmpty
  BY DEF FailInv
<1>4. QED
  BY <1>1, <1>2, <1>3, TypeCorrect, PTL DEF Spec
-----------------------------------------------------------------------------
(* What the release rests on: the media clock starts no earlier than the     *)
(* session, its credit grows no faster than the fastest rate since, and what *)
(* was admitted never passes what the credit authorised.                     *)
Fits(n, m, t) == n > 0 => t >= m.anchor /\ n <= m.credit \div RateUnit + 1

ReleaseInv ==
  /\ anchor # None \/ HasPending => content.first # None
  /\ anchor = None => /\ session.from <= now
                      /\ media.ticked = None /\ media.credit = 0 /\ media.released = 0
  /\ anchor # None => /\ session.from <= media.anchor
                      /\ Fits(media.released, media, now)
                      /\ datagram # None => Fits(datagram.due, media, now)
  /\ IF media.ticked = None THEN media.credit = 0
     ELSE /\ media.anchor <= media.ticked /\ media.ticked <= now
          /\ media.credit <= (media.ticked - media.anchor) * FastestRate
  /\ media.released = session.sent + Len(deferred)

LEMMA Fastest ==
  FastestRate \in Nat \ {0} /\ \A q \in ReleaseRates : q \in Nat /\ q <= FastestRate
  BY PacerAssumption DEF FastestRate, PacerAssumption

LEMMA ScaleOrder ==
  ASSUME NEW a \in Nat, NEW b \in Nat, NEW r \in Nat, NEW f \in Nat, a <= b, r <= f
  PROVE  a * r \in Nat /\ b * f \in Nat /\ a * r <= b * f
<1>1. a * r <= a * f /\ a * f <= b * f /\ a * r \in Nat /\ a * f \in Nat /\ b * f \in Nat
  OBVIOUS
<1>2. QED
  BY <1>1

LEMMA DivGrows ==
  ASSUME NEW m \in Nat, NEW n \in Nat, NEW c \in Nat \ {0}, m <= n
  PROVE  m \div c \in Nat /\ n \div c \in Nat /\ m \div c <= n \div c
  OBVIOUS

(* Credit that grew at some rate since the last reading has grown no faster  *)
(* than at the fastest since the start.                                      *)
LEMMA CreditGrows ==
  ASSUME NEW credit \in Nat, NEW from \in Nat, NEW last \in Nat, NEW to \in Nat,
         NEW rate \in Nat, NEW fastest \in Nat, rate <= fastest,
         from <= last, last < to, credit <= (last - from) * fastest
  PROVE  credit + (to - last) * rate <= (to - from) * fastest
<1>1. to - last \in Nat /\ last - from \in Nat /\ to - from = (to - last) + (last - from)
  OBVIOUS
<1>2. (to - last) * rate <= (to - last) * fastest /\ (to - last) * rate \in Nat
  BY <1>1, ScaleOrder
<1>3. (to - from) * fastest = (to - last) * fastest + (last - from) * fastest
  BY <1>1
<1>4. (to - last) * fastest \in Nat /\ (last - from) * fastest \in Nat
  BY <1>1
<1>5. QED
  BY <1>2, <1>3, <1>4

(* The release clock keeps its credit within the fastest rate, and            *)
(* authorises what the credit has room for.                                  *)
LEMMA AdvancedKeeps ==
  ASSUME TypeOK, ReleaseInv, anchor # None, NEW rate \in ReleaseRates
  PROVE  LET m == Advanced(rate)
         IN  /\ m.anchor = media.anchor /\ m.released = media.released
             /\ m.credit \in Nat /\ media.credit <= m.credit
             /\ IF m.ticked = None THEN m.credit = 0
                ELSE /\ m.anchor <= m.ticked /\ m.ticked <= now
                     /\ m.credit <= (m.ticked - m.anchor) * FastestRate
             /\ Authorised(m) > 0
                  => now >= m.anchor /\ Authorised(m) <= m.credit \div RateUnit + 1
<1> DEFINE last == IF media.ticked = None THEN media.anchor ELSE media.ticked
           m    == Advanced(rate)
<1>1. /\ media \in Media /\ now \in Nat /\ now \in Instants /\ rate \in Nat
      /\ m \in Media /\ RateUnit \in Nat \ {0}
      /\ FastestRate \in Nat /\ rate <= FastestRate
  BY AdvancedType, Fastest, Numbers
<1>2. /\ media.anchor \in Nat /\ last \in Nat /\ media.credit \in Nat
      /\ media.ticked # None => media.ticked \in Nat
  BY <1>1 DEF Media, OrNone, Instants
<1>3. /\ media.anchor <= last /\ media.credit <= (last - media.anchor) * FastestRate
  <2>1. CASE media.ticked = None
    <3>1. (last - media.anchor) * FastestRate = 0
      BY <1>1, <1>2, <2>1
    <3>2. QED
      BY <1>2, <2>1, <3>1 DEF ReleaseInv
  <2>2. CASE media.ticked # None
    BY <2>2 DEF ReleaseInv
  <2>3. QED
    BY <2>1, <2>2
<1>4. CASE now >= media.anchor /\ now > last
  <2>1. m = [media EXCEPT !.ticked = now, !.credit = @ + (now - last) * rate]
    BY <1>4 DEF Advanced
  <2> HIDE DEF m, last
  <2>2. /\ m.ticked = now /\ m.credit = media.credit + (now - last) * rate
        /\ m.anchor = media.anchor /\ m.released = media.released
    BY <1>1, <2>1 DEF Media
  <2>3. m.credit <= (now - media.anchor) * FastestRate
    BY <1>1, <1>2, <1>3, <1>4, <2>2, CreditGrows
  <2>4. m.credit \in Nat /\ media.credit <= m.credit
    <3>1. now - last \in Nat
      BY <1>1, <1>2, <1>4
    <3>2. (now - last) * rate \in Nat
      BY <1>1, <3>1
    <3>3. QED
      BY <1>2, <2>2, <3>2
  <2>5. now # None
    BY <1>1, Numbers
  <2>6. QED
    BY <1>1, <1>4, <2>2, <2>3, <2>4, <2>5 DEF Authorised, m
<1>5. CASE ~(now >= media.anchor /\ now > last)
  <2>1. m = media
    BY <1>5 DEF Advanced
  <2> HIDE DEF m, last
  <2>2. media.credit \div RateUnit \in Nat
    BY <1>1, <1>2, DivGrows
  <2>3. Authorised(media) = IF now < media.anchor THEN 0 ELSE media.credit \div RateUnit + 1
    BY DEF Authorised
  <2>4. QED
    BY <1>1, <1>2, <2>1, <2>2, <2>3 DEF ReleaseInv, m
<1>6. QED
  BY <1>4, <1>5

(* More credit or more time never takes back what fitted. *)
LEMMA FitsGrows ==
  ASSUME NEW n \in Nat, NEW m, NEW k, NEW t \in Nat, NEW u \in Nat, Fits(n, m, t),
         m.credit \in Nat, k.credit \in Nat, m.credit <= k.credit,
         m.anchor \in Nat, k.anchor = m.anchor, t <= u
  PROVE  Fits(n, k, u)
<1>1. m.credit \div RateUnit <= k.credit \div RateUnit
      /\ m.credit \div RateUnit \in Nat /\ k.credit \div RateUnit \in Nat
  BY DivGrows, Numbers
<1>2. QED
  BY <1>1 DEF Fits

(* A slot admits no more than fits, and what was admitted has left or waits.  *)
LEMMA SlotReleases ==
  ASSUME TypeOK, ReleaseInv, EmitSlot
  PROVE  /\ media' = media \/ /\ media' = [media EXCEPT !.released = @ + 1]
                              /\ media.released < datagram.due
         /\ media'.released = session'.sent + Len(deferred')
         /\ session'.from = session.from
<1>1. /\ media \in [anchor : OrNone(Nat), ticked : OrNone(Instants), credit : Nat, released : Nat]
      /\ session \in [from : Nat, sent : Nat, resumed : BOOLEAN]
      /\ buffer.queue \in Seq(Packets) /\ deferred \in Seq(Packets)
      /\ media.released = session.sent + Len(deferred)
      /\ Queue \in Seq(Packets) /\ Len(deferred) \in Nat /\ Len(Queue) \in Nat
  <2>1. Queue \in Seq(Packets) /\ deferred \in Seq(Packets) /\ buffer.queue \in Seq(Packets)
    BY SlotQueues DEF TypeOK, QueueType
  <2>2. QED
    BY <2>1, LenProperties DEF TypeOK, ClockType, CountType, ReleaseInv
<1>2. media'.released = session.sent + Len(Queue)
      /\ (media' = media \/ (media' = [media EXCEPT !.released = @ + 1] /\ media.released < datagram.due))
  <2>1. CASE Admits
    <3>1. Head(buffer.queue) \in Packets
      BY <1>1, <2>1, HeadTailProperties DEF Admits
    <3>2. Queue = Append(deferred, Head(buffer.queue)) /\ media.released < datagram.due
          /\ media' = [media EXCEPT !.released = @ + 1]
      BY <2>1 DEF Queue, EmitSlot, Admits
    <3>3. Len(Queue) = Len(deferred) + 1
      BY <1>1, <3>1, <3>2, AppendProperties
    <3>4. QED
      BY <1>1, <3>2, <3>3
  <2>2. CASE ~Admits
    BY <1>1, <2>2 DEF Queue, EmitSlot
  <2>3. QED
    BY <2>1, <2>2
<1>3. session.sent + Len(Queue) = session'.sent + Len(deferred') /\ session'.from = session.from
  <2>1. CASE SendContent
    <3>1. Queue # <<>> /\ deferred' = Tail(Queue)
          /\ session' = [session EXCEPT !.sent = @ + 1, !.resumed = @ /\ ~HasPcr(Head(Queue))]
      BY <2>1 DEF SendContent
    <3> HIDE DEF Queue
    <3>2. Len(Tail(Queue)) = Len(Queue) - 1
      BY <1>1, <3>1, HeadTailProperties
    <3>3. session'.sent = session.sent + 1 /\ session'.from = session.from
      BY <1>1, <3>1
    <3>4. QED
      BY <1>1, <3>1, <3>2, <3>3
  <2>2. CASE SendPcr
    BY <2>2 DEF SendPcr
  <2>3. CASE SendNull
    <3>1. Queue = <<>> /\ deferred' = deferred /\ session' = session
      BY <2>3 DEF SendNull
    <3>2. Queue = deferred
      <4>1. Admits => Queue # <<>>
        <5>1. Admits => Head(buffer.queue) \in Packets
          BY <1>1, HeadTailProperties DEF Admits
        <5>2. QED
          BY <1>1, <5>1, AppendProperties DEF Queue
      <4>2. QED
        BY <3>1, <4>1 DEF Queue
    <3>3. QED
      BY <3>1, <3>2
  <2>4. QED
    BY <2>1, <2>2, <2>3 DEF EmitSlot
<1>4. QED
  BY <1>2, <1>3

(* Content that arrives starts the clocks together, or the media clock anew.  *)
LEMMA ArrivalReleases ==
  ASSUME TypeOK, StallInv, ReleaseInv, datagram = None,
         NEW p \in SourcePackets, input.received < MaxInput, Enqueue(p), deferred' = deferred
  PROVE  /\ content'.first # None
         /\ anchor' = None => (session'.from <= now /\ media' = media /\ anchor = None)
         /\ anchor' # None =>
              \/ /\ anchor # None /\ media' = media /\ session'.from = session.from
              \/ /\ session'.from <= media'.anchor /\ media'.anchor \in Nat /\ media'.ticked = None
                 /\ media'.credit = 0 /\ media'.released = 0
         /\ media'.released = session'.sent + Len(deferred')
<1> DEFINE first == IF content.first = None THEN now ELSE content.first
<1>1. /\ now \in Nat /\ target \in Nat
      /\ media \in [anchor : OrNone(Nat), ticked : OrNone(Instants), credit : Nat, released : Nat]
      /\ session \in [from : Nat, sent : Nat, resumed : BOOLEAN]
      /\ first # None /\ now # None
      /\ anchor = None => session.from <= now
      /\ anchor # None => content.first # None
  <2>1. /\ media \in [anchor : OrNone(Nat), ticked : OrNone(Instants), credit : Nat, released : Nat]
        /\ session \in [from : Nat, sent : Nat, resumed : BOOLEAN]
        /\ now \in Instants /\ target \in Targets
    BY DEF TypeOK, LoopType, ClockType, CountType
  <2>2. now \in Nat /\ now # None /\ target \in Nat
    BY <2>1, Numbers DEF Instants
  <2>3. anchor = None => session.from <= now
    BY DEF ReleaseInv
  <2>4. anchor # None => content.first # None
    BY DEF ReleaseInv
  <2>5. QED
    BY <2>1, <2>2, <2>3, <2>4
<1>2. content'.first = first
  BY DEF Enqueue
<1>3. CASE stalled
  <2>1. /\ media' = Refilled /\ session' = [from |-> now + target, sent |-> 0, resumed |-> TRUE]
        /\ anchor' = anchor
    BY <1>3 DEF Enqueue
  <2>2. anchor # None
    BY <1>3 DEF TypeOK
  <2>3. Len(deferred) = 0
    <3>1. ~HasPending
      BY <1>3 DEF StallInv, State
    <3>2. Len(deferred) \in Nat /\ Len(buffer.queue) \in Nat
      BY LenProperties DEF TypeOK, QueueType
    <3>3. QED
      BY <3>1, <3>2 DEF HasPending, Held
  <2>4. QED
    BY <1>1, <1>2, <2>1, <2>2, <2>3 DEF Refilled
<1>4. CASE ~stalled
  <2>1. PICK t \in Targets, settled \in BOOLEAN :
          /\ Arm(buffer', Len(buffer'.queue) + Len(deferred), t, settled, first)
          /\ session' = IF content.first = None
                          THEN [session EXCEPT !.from = IF Adaptive THEN now ELSE now + t]
                          ELSE session
    BY <1>4 DEF Enqueue
  <2> DEFINE at == IF Adaptive THEN now ELSE now + t
             opens == anchor = None /\ Opens(buffer', Room(buffer'), t, settled, first)
  <2>2. at \in Nat /\ now <= at /\ at # None
    <3>1. t \in Nat
      BY Numbers
    <3>2. QED
      BY <1>1, <3>1, Numbers
  <2>3. session'.sent = session.sent /\ (session' = session \/ (content.first = None /\ session'.from = at))
    BY <1>1, <2>1
  <2>4. \/ anchor = None /\ anchor' = at /\ media' = [media EXCEPT !.anchor = at]
        \/ anchor' = anchor /\ media' = media
    BY <2>1 DEF Arm
  <2>5. ~Adaptive /\ anchor = None => anchor' = at
    BY <2>1 DEF Arm, Opens
  <2>6. anchor' = None => session'.from <= now
    <3>1. CASE Adaptive
      BY <1>1, <2>3, <2>4, <3>1
    <3>2. CASE ~Adaptive
      <4>1. anchor' = None => anchor = None
        BY <2>2, <2>4
      <4>2. QED
        BY <2>2, <2>5, <3>2, <4>1
    <3>3. QED
      BY <3>1, <3>2
  <2>7. media'.released = media.released /\ media.released = session.sent + Len(deferred)
    BY <1>1, <2>4 DEF ReleaseInv
  <2> HIDE DEF at
  <2>8. CASE anchor = None /\ anchor' = at /\ media' = [media EXCEPT !.anchor = at]
    <3>1. media'.anchor = at /\ media'.ticked = None /\ media'.credit = 0 /\ media'.released = 0
      BY <1>1, <2>8 DEF ReleaseInv
    <3>2. session'.from <= at
      BY <1>1, <2>2, <2>3, <2>8
    <3>3. QED
      BY <1>1, <1>2, <2>2, <2>3, <2>7, <2>8, <3>1, <3>2
  <2>9. CASE anchor' = anchor /\ media' = media
    <3>1. anchor # None => session'.from = session.from
      BY <1>1, <2>3
    <3>2. QED
      BY <1>1, <1>2, <2>3, <2>6, <2>7, <2>9, <3>1
  <2>10. QED
    BY <2>4, <2>8, <2>9
<1>5. QED
  BY <1>3, <1>4

LEMMA ReleaseStep ==
  ASSUME TypeOK, StallInv, ReleaseInv, [Next]_vars
  PROVE  ReleaseInv'
<1>0. /\ now \in Nat /\ FastestRate \in Nat
      /\ media \in [anchor : OrNone(Nat), ticked : OrNone(Instants), credit : Nat, released : Nat]
      /\ anchor # None => media.anchor \in Nat
      /\ anchor = None <=> media.anchor = None
      /\ media.ticked # None => media.ticked \in Nat
      /\ datagram # None => datagram.due \in Nat /\ anchor # None
      /\ session.from \in Nat
  BY Fastest DEF TypeOK, LoopType, ClockType, CountType, OrNone, Instants
<1>1. CASE ReceiveWaiting \/ ReceiveRunning
  <2>1. PICK p \in SourcePackets : Receive(p)
    BY <1>1 DEF ReceiveWaiting, ReceiveRunning
  <2>2. UNCHANGED <<now, deferred, datagram>> /\ datagram = None
    BY <1>1, <2>1 DEF ReceiveWaiting, ReceiveRunning, Receive, Waiting, Polling, Idle
  <2>3. CASE p.null
    <3>1. UNCHANGED <<anchor, media, session, content, buffer>>
      BY <2>1, <2>3 DEF Receive
    <3>2. QED
      BY <2>2, <3>1 DEF ReleaseInv, Fits, HasPending, Held
  <2>4. CASE ~p.null
    <3>1. Enqueue(p) /\ input.received < MaxInput
      BY <2>1, <2>4 DEF Receive
    <3> DEFINE new == /\ session'.from <= media'.anchor /\ media'.anchor \in Nat
                      /\ media'.ticked = None /\ media'.credit = 0 /\ media'.released = 0
    <3>2. /\ content'.first # None
          /\ anchor' = None => (session'.from <= now /\ media' = media /\ anchor = None)
          /\ anchor' # None => \/ anchor # None /\ media' = media /\ session'.from = session.from
                               \/ new
          /\ media'.released = session'.sent + Len(deferred')
      BY <2>2, <3>1, ArrivalReleases
    <3>3. CASE anchor' = None
      BY <2>2, <3>2, <3>3 DEF ReleaseInv
    <3>4. CASE anchor' # None /\ anchor # None /\ media' = media /\ session'.from = session.from
      BY <2>2, <3>2, <3>4 DEF ReleaseInv, Fits
    <3>5. CASE anchor' # None /\ new
      BY <2>2, <3>2, <3>5 DEF ReleaseInv, Fits
    <3>6. QED
      BY <3>2, <3>3, <3>4, <3>5
  <2>5. QED
    BY <2>3, <2>4
<1>2. CASE OpenDatagram
  <2>1. /\ UNCHANGED <<now, anchor, buffer, deferred, content, session>>
        /\ anchor # None /\ datagram' = [left |-> PacketsPerDatagram, due |-> Authorised(media'), state |-> State]
    BY <1>2 DEF OpenDatagram, DueNow, history
  <2>2. PICK rate \in ReleaseRates : media' = Advanced(rate)
    BY <1>2 DEF OpenDatagram
  <2>3. /\ media'.anchor = media.anchor /\ media'.released = media.released
        /\ media'.credit \in Nat /\ media.credit <= media'.credit
        /\ IF media'.ticked = None THEN media'.credit = 0
           ELSE /\ media'.anchor <= media'.ticked /\ media'.ticked <= now
                /\ media'.credit <= (media'.ticked - media'.anchor) * FastestRate
        /\ Authorised(media') > 0
             => now >= media'.anchor /\ Authorised(media') <= media'.credit \div RateUnit + 1
    BY <2>1, <2>2, AdvancedKeeps
  <2> HIDE DEF Authorised
  <2>4. Fits(Authorised(media'), media', now)
    BY <2>3 DEF Fits
  <2>5. Fits(media.released, media', now)
    <3>1. Fits(media.released, media, now)
      BY <2>1 DEF ReleaseInv
    <3>2. QED
      BY <1>0, <2>1, <2>3, <3>1, FitsGrows
  <2>6. datagram'.due = Authorised(media')
    BY <2>1
  <2>7. QED
    BY <2>1, <2>3, <2>4, <2>5, <2>6 DEF ReleaseInv, HasPending, Held
<1>3. CASE EmitSlot
  <2>1. /\ UNCHANGED <<now, anchor, content>> /\ datagram # None /\ anchor # None
        /\ datagram' = None \/ datagram' = [datagram EXCEPT !.left = @ - 1]
    BY <1>0, <1>3 DEF EmitSlot
  <2>2. /\ media' = media \/ /\ media' = [media EXCEPT !.released = @ + 1]
                             /\ media.released < datagram.due
        /\ media'.released = session'.sent + Len(deferred')
        /\ session'.from = session.from
    BY <1>3, SlotReleases
  <2>3. datagram \in [left : 1 .. PacketsPerDatagram, due : Nat, state : States]
    BY <2>1 DEF TypeOK, LoopType, OrNone
  <2>4. datagram' # None => datagram'.due = datagram.due
    BY <2>1, <2>3
  <2>5. /\ media'.anchor = media.anchor /\ media'.credit = media.credit /\ media'.ticked = media.ticked
        /\ media'.released <= media.released \/ media'.released <= datagram.due
    BY <1>0, <2>2, <2>3
  <2>6. Fits(media'.released, media', now) /\ Fits(datagram.due, media', now)
    <3>1. Fits(media.released, media, now) /\ Fits(datagram.due, media, now)
      BY <2>1 DEF ReleaseInv
    <3>2. media'.released \in Nat /\ datagram.due \in Nat /\ media.credit \div RateUnit \in Nat
      <4>1. media'.released = media.released \/ media'.released = media.released + 1
        BY <1>0, <2>2
      <4>2. media.credit \in Nat /\ media.released \in Nat
        BY <1>0
      <4>3. QED
        BY <2>3, <4>1, <4>2, DivGrows, Numbers
    <3>3. QED
      BY <1>0, <2>5, <3>1, <3>2 DEF Fits
  <2>7. QED
    BY <2>1, <2>2, <2>4, <2>5, <2>6 DEF ReleaseInv
<1>4. CASE Silent \/ EndWaiting
  <2>1. /\ UNCHANGED <<now, buffer, deferred, content, session, datagram>>
        /\ anchor = None /\ datagram = None
    BY <1>4 DEF Silent, EndWaiting, Waiting, Idle, history
  <2>2. \/ anchor' = anchor /\ media' = media
        \/ /\ anchor' \in Nat /\ now <= anchor' /\ media' = [media EXCEPT !.anchor = anchor']
           /\ content.first # None
    <3>1. CASE Silent
      <4>1. \/ anchor' = anchor /\ media' = media
            \/ content.first # None /\ \E settled \in BOOLEAN :
                 Arm(buffer, Held, target, settled, content.first)
        BY <3>1 DEF Silent
      <4>2. now \in Nat /\ target \in Nat
        BY Numbers DEF TypeOK, LoopType, ClockType, Instants
      <4>3. QED
        BY <4>1, <4>2 DEF Arm
    <3>2. CASE EndWaiting
      BY <1>0, <3>2 DEF EndWaiting, ReleaseInv
    <3>3. QED
      BY <1>4, <3>1, <3>2
  <2>3. CASE anchor' = anchor /\ media' = media
    BY <2>1, <2>3 DEF ReleaseInv, HasPending, Held
  <2>4. CASE /\ anchor' \in Nat /\ now <= anchor' /\ media' = [media EXCEPT !.anchor = anchor']
             /\ content.first # None
    <3>1. /\ media'.anchor = anchor' /\ media'.ticked = None /\ media'.credit = 0
          /\ media'.released = 0 /\ media.released = 0
      BY <1>0, <2>1, <2>4 DEF ReleaseInv
    <3>2. session.from <= anchor' /\ anchor' # None
      <4>1. session.from <= now
        BY <2>1 DEF ReleaseInv
      <4>2. QED
        BY <1>0, <2>4, <4>1, Numbers
    <3>3. QED
      BY <2>1, <2>4, <3>1, <3>2 DEF ReleaseInv, Fits
  <2>5. QED
    BY <2>2, <2>3, <2>4
<1>5. CASE Tick
  <2>1. /\ UNCHANGED <<anchor, media, buffer, deferred, content, session, datagram>>
        /\ now' = now + 1 /\ datagram = None
    BY <1>5 DEF Tick, clocks, history, Idle
  <2>2. QED
    BY <1>0, <2>1 DEF ReleaseInv, Fits, HasPending, Held
<1>6. CASE Mute \/ GiveUp \/ Finish \/ EndRunning \/ SourceFails \/ UNCHANGED vars
  <2>1. UNCHANGED <<now, anchor, media, buffer, deferred, content, session, datagram>>
    BY <1>6 DEF Mute, GiveUp, Finish, EndRunning, SourceFails, vars, clocks, history
  <2>2. QED
    BY <2>1 DEF ReleaseInv, HasPending, Held
<1>7. QED
  BY <1>1, <1>2, <1>3, <1>4, <1>5, <1>6 DEF Next, Engine, Source

(* Since the start or the last stall no more has been sent than the fastest  *)
(* rate releases from a full cushion on, however the rate wavered, whatever  *)
(* the credit carried, and however far the byte clock ran on.                *)
THEOREM ReleasesAtMediaRate == Spec => []ReleasedAtMediaRate
<1>1. Init => ReleaseInv
  <2> SUFFICES ASSUME Init PROVE ReleaseInv
    OBVIOUS
  <2>1. /\ anchor = None /\ ~HasPending /\ deferred = <<>> /\ now = 0 /\ session.from = 0
        /\ session.sent = 0
        /\ media.ticked = None /\ media.credit = 0 /\ media.released = 0
    BY DEF Init, HasPending, Held, NewBuffer
  <2>2. QED
    BY <2>1 DEF ReleaseInv
<1>2. TypeOK /\ StallInv /\ ReleaseInv /\ [Next]_vars => ReleaseInv'
  BY ReleaseStep
<1>3. TypeOK /\ ReleaseInv => ReleasedAtMediaRate
  <2> SUFFICES ASSUME TypeOK, ReleaseInv PROVE ReleasedAtMediaRate
    OBVIOUS
  <2>1. /\ now \in Nat /\ session.from \in Nat /\ session.sent \in Nat
        /\ media.credit \in Nat /\ media.released \in Nat /\ RateUnit \in Nat \ {0}
        /\ FastestRate \in Nat
        /\ anchor # None => media.anchor \in Nat
        /\ media.ticked # None => media.ticked \in Nat
    BY Fastest, Numbers DEF TypeOK, LoopType, ClockType, CountType, OrNone, Instants
  <2>2. session.sent <= media.released
    <3>1. Len(deferred) \in Nat
      BY LenProperties DEF TypeOK, QueueType
    <3>2. QED
      BY <2>1, <3>1 DEF ReleaseInv
  <2>3. now >= session.from => ((now - session.from) * FastestRate) \div RateUnit \in Nat
    <3>1. ASSUME now >= session.from PROVE (now - session.from) * FastestRate \in Nat
      BY <2>1, <3>1
    <3>2. QED
      BY <2>1, <3>1, DivGrows
  <2>4. CASE media.released = 0
    BY <2>1, <2>2, <2>3, <2>4 DEF ReleasedAtMediaRate
  <2>5. CASE media.released > 0
    <3>1. anchor # None
      BY <2>1, <2>5 DEF ReleaseInv
    <3>2. /\ media.anchor <= now /\ session.from <= media.anchor
          /\ media.released <= media.credit \div RateUnit + 1
      BY <2>1, <2>5, <3>1 DEF ReleaseInv, Fits
    <3>3. media.credit <= (now - session.from) * FastestRate
      <4>1. CASE media.ticked = None
        <5>1. media.credit = 0 /\ (now - session.from) * FastestRate \in Nat
          BY <2>1, <3>1, <3>2, <4>1 DEF ReleaseInv
        <5>2. QED
          BY <5>1
      <4>2. CASE media.ticked # None
        <5>1. /\ media.ticked - media.anchor \in Nat /\ now - session.from \in Nat
              /\ media.ticked - media.anchor <= now - session.from
              /\ media.credit <= (media.ticked - media.anchor) * FastestRate
          <6>1. /\ media.anchor <= media.ticked /\ media.ticked <= now
                /\ media.credit <= (media.ticked - media.anchor) * FastestRate
            BY <4>2 DEF ReleaseInv
          <6>2. media.ticked \in Nat /\ media.anchor \in Nat /\ session.from <= media.anchor
            BY <2>1, <3>1, <3>2, <4>2
          <6>3. QED
            BY <2>1, <6>1, <6>2
        <5>2. /\ (media.ticked - media.anchor) * FastestRate <= (now - session.from) * FastestRate
              /\ (media.ticked - media.anchor) * FastestRate \in Nat
              /\ (now - session.from) * FastestRate \in Nat
          BY <2>1, <5>1, ScaleOrder
        <5>3. QED
          BY <2>1, <5>1, <5>2
      <4>3. QED
        BY <4>1, <4>2
    <3>4. (now - session.from) * FastestRate \in Nat
      BY <2>1, <3>1, <3>2
    <3>5. /\ media.credit \div RateUnit <= ((now - session.from) * FastestRate) \div RateUnit
          /\ media.credit \div RateUnit \in Nat
      BY <2>1, <3>3, <3>4, DivGrows
    <3>6. now >= session.from
      BY <2>1, <3>1, <3>2
    <3>7. QED
      BY <2>1, <2>2, <2>3, <3>2, <3>5, <3>6 DEF ReleasedAtMediaRate
  <2>6. QED
    BY <2>1, <2>4, <2>5
<1>4. QED
  BY <1>1, <1>2, <1>3, TypeCorrect, StallKept, PTL DEF Spec
-----------------------------------------------------------------------------
(* Remainders on the wrapping clock. *)
LEMMA Divided ==
  ASSUME NEW x \in Int, NEW w \in Nat \ {0}
  PROVE  /\ x \div w \in Int /\ x % w \in 0 .. w - 1
         /\ x = w * (x \div w) + (x % w)
  OBVIOUS

LEMMA RemainderIs ==
  ASSUME NEW x \in Int, NEW w \in Nat \ {0}, NEW q \in Int, NEW r \in 0 .. w - 1, x = q * w + r
  PROVE  x % w = r
  OBVIOUS

LEMMA WholeTurns ==
  ASSUME NEW x \in Int, NEW w \in Nat \ {0}, NEW q \in Int
  PROVE  (x + q * w) % w = x % w
<1> DEFINE d == x \div w  r == x % w
<1>1. d \in Int /\ r \in 0 .. w - 1 /\ x = w * d + r
  BY Divided
<1> HIDE DEF d, r
<1>2. x + q * w = (d + q) * w + r
  BY <1>1
<1>3. x + q * w \in Int /\ d + q \in Int
  BY <1>1
<1>4. (x + q * w) % w = r
  BY <1>1, <1>2, <1>3, RemainderIs
<1>5. QED
  BY <1>4 DEF r

(* The ticks of two stretches are those of the whole, or one less where the *)
(* division cut both.                                                       *)
LEMMA TicksAdd ==
  ASSUME NEW a \in Nat, NEW b \in Nat
  PROVE  /\ TicksOf(a) \in Nat /\ TicksOf(b) \in Nat /\ TicksOf(a + b) \in Nat
         /\ TicksOf(a + b) - TicksOf(a) - TicksOf(b) \in {0, 1}
<1>0. PacketTicks \in Nat /\ MuxRate \in Nat \ {0}
  BY Numbers
<1>1. /\ a * PacketTicks \in Nat /\ b * PacketTicks \in Nat
      /\ (a + b) * PacketTicks = a * PacketTicks + b * PacketTicks
  BY <1>0
<1>2. ASSUME NEW x \in Nat, NEW y \in Nat
      PROVE  /\ x \div MuxRate \in Nat /\ (x + y) \div MuxRate \in Nat
             /\ (x + y) \div MuxRate - x \div MuxRate - y \div MuxRate \in {0, 1}
  BY <1>0
<1>3. QED
  BY <1>1, <1>2 DEF TicksOf

(* Two values that a regenerator gives to two slots are as far apart as the  *)
(* slots, give or take the division.                                         *)
LEMMA LockedApart ==
  ASSUME NEW p \in Int, NEW i \in Nat, NEW s \in Nat, NEW t \in Nat, i <= s, s <= t
  PROVE  LET x == (p + TicksOf(s - i)) % PcrWrap
             y == (p + TicksOf(t - i)) % PcrWrap
         IN  (y - x - TicksOf(t - s)) % PcrWrap \in {0, 1}
<1> DEFINE a == p + TicksOf(s - i)
           b == p + TicksOf(t - i)
           e == TicksOf(t - i) - TicksOf(s - i) - TicksOf(t - s)
<1>1. /\ TicksOf(s - i) \in Nat /\ TicksOf(t - s) \in Nat /\ TicksOf(t - i) \in Nat
      /\ e \in {0, 1}
  <2> DEFINE u == s - i  v == t - s
  <2>1. u \in Nat /\ v \in Nat /\ t - i = u + v
    OBVIOUS
  <2> HIDE DEF u, v
  <2>2. /\ TicksOf(u) \in Nat /\ TicksOf(v) \in Nat /\ TicksOf(u + v) \in Nat
        /\ TicksOf(u + v) - TicksOf(u) - TicksOf(v) \in {0, 1}
    BY <2>1, TicksAdd
  <2>3. QED
    BY <2>1, <2>2 DEF u, v
<1>2. PcrWrap \in Nat \ {0} /\ a \in Int /\ b \in Int /\ b - a - TicksOf(t - s) = e
  BY <1>1, Numbers
<1> HIDE DEF a, b, e
<1>3. /\ a \div PcrWrap \in Int /\ b \div PcrWrap \in Int
      /\ a % PcrWrap \in Int /\ b % PcrWrap \in Int
      /\ a = PcrWrap * (a \div PcrWrap) + (a % PcrWrap)
      /\ b = PcrWrap * (b \div PcrWrap) + (b % PcrWrap)
  BY <1>2, Divided
<1> DEFINE k == a \div PcrWrap  l == b \div PcrWrap
<1>4. (b % PcrWrap) - (a % PcrWrap) - TicksOf(t - s) = e + (k - l) * PcrWrap
  <2>1. (k - l) * PcrWrap = PcrWrap * k - PcrWrap * l
    BY <1>2, <1>3
  <2>2. PcrWrap * k \in Int /\ PcrWrap * l \in Int
    BY <1>2, <1>3
  <2>3. QED
    BY <1>1, <1>2, <1>3, <2>1, <2>2
<1>5. (e + (k - l) * PcrWrap) % PcrWrap = e % PcrWrap
  <2> DEFINE q == k - l
  <2>1. q \in Int /\ e \in Int /\ PcrWrap \in Nat \ {0}
    BY <1>1, <1>2, <1>3
  <2> HIDE DEF q
  <2>2. (e + q * PcrWrap) % PcrWrap = e % PcrWrap
    BY <2>1, WholeTurns, Zenon
  <2>3. QED
    BY <2>2 DEF q
<1>6. e % PcrWrap \in {0, 1}
  BY <1>1, <1>2
<1>7. QED
  BY <1>4, <1>5, <1>6 DEF a, b
-----------------------------------------------------------------------------
(* Packets that have a PCR only if the stream is known to. *)
Known(k) == {p \in Packets : HasPcr(p) => k}

(* What every PCR rests on: what is held has one only once the PID is known, *)
(* the last one sent is where the engine thinks it is, and its value is the  *)
(* one the regenerator gives its slot.  A return that has still to be        *)
(* flagged has its flag set.                                                 *)
PcrInv ==
  /\ buffer.queue \in Seq(Known(pcr.known)) /\ deferred \in Seq(Known(pcr.known))
  /\ wirePcr # None \/ pcr.regen.anchor # None => pcr.last # None
  /\ pcr.last # None =>
       /\ pcr.known /\ pcr.regen.anchor # None
       /\ pcr.last = wirePcr.slot /\ wirePcr.slot < slot
       /\ pcr.regen.anchor.index <= wirePcr.slot
       /\ wirePcr.pcr = LockedForIndex(pcr.regen, wirePcr.slot)
  /\ session.resumed => pcr.regen.flagNext

(* The regenerator changes with what it rewrites alone, and its anchor only   *)
(* where it says so.                                                          *)
Regens == [anchor : OrNone([index : Nat, pcr : 0 .. PcrWrap - 1]),
           lastSrc : OrNone(0 .. PcrWrap - 1), flagNext : BOOLEAN]

LEMMA AnchorKept ==
  ASSUME NEW r \in Regens, NEW p \in Packets, HasPcr(p), NEW i \in Nat
  PROVE  LET q == Rewritten(r, p, i)
             s == AfterRewrite(r, p, i)
         IN  /\ q.pcr = LockedForIndex(s, i) /\ q.pcr # None
             /\ r.flagNext => q.di
             /\ s.anchor \in [index : Nat, pcr : 0 .. PcrWrap - 1] /\ s.anchor # None
             /\ s.anchor.index = i \/ s.anchor = r.anchor
             /\ r.anchor # None /\ ~q.di => s.anchor = r.anchor
<1>1. /\ AfterRewrite(r, p, i) \in
           [anchor : [index : Nat, pcr : 0 .. PcrWrap - 1],
            lastSrc : 0 .. PcrWrap - 1, flagNext : BOOLEAN]
      /\ Rewritten(r, p, i) \in Packets
  BY RewriteType DEF Regens
<1>2. /\ Rewritten(r, p, i).pcr = LockedForIndex(AfterRewrite(r, p, i), i)
      /\ Rewritten(r, p, i).di = (p.di \/ Rebases(r, p) \/ r.flagNext)
  BY DEF Rewritten, Packets
<1>3. LockedForIndex(AfterRewrite(r, p, i), i) \in 0 .. PcrWrap - 1
  BY <1>1, LockedType
<1>4. None \notin Int /\ None \notin [index : Nat, pcr : Nat] /\ PcrWrap \in Nat
  BY Numbers, PcrRegenAssumption DEF PcrRegenAssumption
<1>5. AfterRewrite(r, p, i).anchor \in [index : Nat, pcr : Nat]
  BY <1>1, <1>4
<1>6. /\ AfterRewrite(r, p, i).anchor.index = i \/ AfterRewrite(r, p, i).anchor = r.anchor
      /\ r.anchor # None /\ ~Rebases(r, p) => AfterRewrite(r, p, i).anchor = r.anchor
  BY DEF AfterRewrite, Rebases
<1>7. /\ r.flagNext => Rewritten(r, p, i).di
      /\ ~Rewritten(r, p, i).di => ~Rebases(r, p)
  BY <1>2
<1>8. Rewritten(r, p, i).pcr # None /\ AfterRewrite(r, p, i).anchor # None
  BY <1>2, <1>3, <1>4, <1>5
<1> HIDE DEF Rewritten, AfterRewrite, Rebases
<1>9. QED
  BY <1>1, <1>2, <1>6, <1>7, <1>8

(* A slot hands on what is known of the packets. *)
LEMMA SlotKnows ==
  ASSUME TypeOK, PcrInv, EmitSlot, NEW k, k = pcr.known
  PROVE  /\ Queue \in Seq(Known(k)) /\ buffer'.queue \in Seq(Known(k)) /\ deferred' \in Seq(Known(k))
         /\ Queue # <<>> => Head(Queue) \in Known(k)
<1>1. buffer.queue \in Seq(Known(k)) /\ deferred \in Seq(Known(k))
  BY DEF PcrInv
<1>2. buffer.queue # <<>> => Head(buffer.queue) \in Known(k) /\ Tail(buffer.queue) \in Seq(Known(k))
  BY <1>1, HeadTailProperties
<1>3. Queue \in Seq(Known(k)) /\ buffer'.queue \in Seq(Known(k))
  <2>1. CASE buffer'.queue = buffer.queue /\ Queue = deferred
    BY <1>1, <2>1
  <2>2. CASE /\ buffer.queue # <<>> /\ buffer'.queue = Tail(buffer.queue)
             /\ Queue = Append(deferred, Head(buffer.queue))
    <3>1. Append(deferred, Head(buffer.queue)) \in Seq(Known(k))
      BY <1>1, <1>2, <2>2, AppendProperties
    <3>2. QED
      BY <1>2, <2>2, <3>1
  <2>3. QED
    BY <2>1, <2>2, SlotMoves
<1> HIDE DEF Queue
<1>4. Queue # <<>> => Head(Queue) \in Known(k) /\ Tail(Queue) \in Seq(Known(k))
  BY <1>3, HeadTailProperties
<1>5. QED
  BY <1>3, <1>4, SlotMoves

(* The three things a slot can do to the PCRs. *)
LEMMA SlotSends ==
  ASSUME Regenerate, TypeOK, PcrInv, EmitSlot
  PROVE  /\ slot' = slot + 1 /\ slot \in Nat
         /\ pcr'.known = pcr.known
         /\ session'.resumed => session.resumed
         /\ \/ /\ ReinsertsPcr /\ wirePcr' = wire' /\ wire'.kind = "pcr"
               /\ wire'.slot = slot /\ wire'.pcr = LockedForIndex(pcr.regen, slot)
               /\ pcr'.last = slot /\ pcr'.regen = pcr.regen /\ sent' = sent
            \/ \E p \in Packets :
                 /\ ~ReinsertsPcr /\ Queue # <<>> /\ p = Head(Queue) /\ HasPcr(p) /\ pcr.known
                 /\ wirePcr' = wire' /\ wire'.kind = "content" /\ wire'.slot = slot
                 /\ wire'.pcr = Rewritten(pcr.regen, p, slot).pcr
                 /\ wire'.di = Rewritten(pcr.regen, p, slot).di
                 /\ pcr'.last = slot /\ pcr'.regen = AfterRewrite(pcr.regen, p, slot)
                 /\ ~session'.resumed
            \/ /\ ~ReinsertsPcr /\ (Queue # <<>> => ~HasPcr(Head(Queue)))
               /\ UNCHANGED <<wirePcr, pcr>>
<1>1. /\ pcr \in [regen : Regens, last : OrNone(Nat), known : BOOLEAN]
      /\ session \in [from : Nat, sent : Nat, resumed : BOOLEAN]
      /\ slot \in Nat /\ slot' = slot + 1
  BY DEF TypeOK, PcrType, CountType, ClockType, Regens, EmitSlot
<1>2. CASE SendPcr
  <2>1. LockedForIndex(pcr.regen, slot) # None
    <3>1. /\ pcr.regen.anchor # None
          /\ pcr.regen.anchor \in OrNone([index : Nat, pcr : 0 .. PcrWrap - 1])
      BY <1>1, <1>2 DEF SendPcr, ReinsertsPcr, Regens
    <3>2. pcr.regen.anchor \in [index : Nat, pcr : 0 .. PcrWrap - 1]
      BY <3>1 DEF OrNone
    <3>3. LockedForIndex(pcr.regen, slot) \in 0 .. PcrWrap - 1
      BY <1>1, <3>2, LockedType
    <3>4. QED
      BY <3>3, Numbers
  <2>2. /\ ReinsertsPcr /\ Put("pcr", None, LockedForIndex(pcr.regen, slot), FALSE)
        /\ pcr' = [pcr EXCEPT !.last = slot] /\ UNCHANGED <<sent, session>>
    BY <1>2 DEF SendPcr
  <2> HIDE DEF ReinsertsPcr
  <2>3. /\ wirePcr' = wire' /\ wire'.kind = "pcr" /\ wire'.slot = slot
        /\ wire'.pcr = LockedForIndex(pcr.regen, slot)
    BY <2>1, <2>2 DEF Put
  <2>4. pcr'.last = slot /\ pcr'.regen = pcr.regen /\ pcr'.known = pcr.known
    BY <1>1, <2>2
  <2>5. QED
    BY <1>1, <2>2, <2>3, <2>4
<1>3. CASE SendContent
  <2>1. PICK p : p = Head(Queue)
    OBVIOUS
  <2>2. ~ReinsertsPcr /\ Queue # <<>> /\ p \in Packets /\ (HasPcr(p) => pcr.known)
    <3>1. ~ReinsertsPcr /\ Queue # <<>>
      BY <1>3 DEF SendContent
    <3> HIDE DEF Queue, ReinsertsPcr
    <3>2. p \in Known(pcr.known)
      BY <2>1, <3>1, SlotKnows
    <3>3. QED
      BY <3>1, <3>2 DEF Known
  <2> DEFINE q == Rewritten(pcr.regen, p, slot)
  <2>3. /\ Put("content", p.id, q.pcr, q.di)
        /\ pcr' = IF HasPcr(p)
                    THEN [pcr EXCEPT !.last = slot, !.regen = AfterRewrite(pcr.regen, p, slot)]
                    ELSE pcr
        /\ session' = [session EXCEPT !.sent = @ + 1, !.resumed = @ /\ ~HasPcr(p)]
    BY <1>3, <2>1 DEF SendContent
  <2> HIDE DEF q, Queue, ReinsertsPcr
  <2>4. session'.resumed = (session.resumed /\ ~HasPcr(p))
    BY <1>1, <2>3
  <2>5. CASE HasPcr(p)
    <3>1. q.pcr # None
      BY <1>1, <2>2, <2>5, AnchorKept DEF q
    <3>2. /\ wirePcr' = wire' /\ wire'.kind = "content" /\ wire'.slot = slot
          /\ wire'.pcr = q.pcr /\ wire'.di = q.di
      BY <2>3, <3>1 DEF Put
    <3>3. pcr'.last = slot /\ pcr'.regen = AfterRewrite(pcr.regen, p, slot) /\ pcr'.known = pcr.known
      BY <1>1, <2>3, <2>5
    <3>4. QED
      BY <1>1, <2>1, <2>2, <2>4, <2>5, <3>2, <3>3 DEF q
  <2>6. CASE ~HasPcr(p)
    <3>1. q.pcr = None
      BY <2>6 DEF q, Rewritten, HasPcr
    <3>2. wirePcr' = wirePcr /\ pcr' = pcr
      BY <2>3, <2>6, <3>1 DEF Put
    <3>3. QED
      BY <1>1, <2>1, <2>2, <2>4, <2>6, <3>2
  <2>7. QED
    BY <2>5, <2>6
<1>4. CASE SendNull
  <2>1. /\ ~ReinsertsPcr /\ Queue = <<>> /\ UNCHANGED <<pcr, session>> /\ wirePcr' = wirePcr
    BY <1>4 DEF SendNull, Put
  <2>2. QED
    BY <1>1, <2>1
<1>5. QED
  BY <1>2, <1>3, <1>4 DEF EmitSlot

(* An arrival makes its PCR known, and leaves the PCRs sent alone. *)
LEMMA ArrivalKnows ==
  ASSUME TypeOK, PcrInv, Regenerate, NEW p \in SourcePackets, input.received < MaxInput, Enqueue(p),
         deferred' = deferred, UNCHANGED <<slot, wirePcr>>
  PROVE  PcrInv'
<1> DEFINE pkt == [id |-> input.accepted + 1, pcr |-> p.pcr, di |-> p.di]
           grown(t) == IF Adaptive THEN GrowTo(buffer, LatencyToPackets(Cap(t))) ELSE buffer
           regen == IF stalled /\ Regenerate THEN FlagDiscontinuity(pcr.regen) ELSE pcr.regen
           k == pcr.known
           l == pcr'.known
<1>1. /\ pcr \in [regen : Regens, last : OrNone(Nat), known : BOOLEAN]
      /\ session \in [from : Nat, sent : Nat, resumed : BOOLEAN]
      /\ buffer \in [queue : Seq(Packets), capacity : Nat \ {0}]
      /\ buffer.queue \in Seq(Known(k)) /\ deferred \in Seq(Known(k))
  BY DEF TypeOK, PcrType, CountType, QueueType, Regens, PcrInv
<1>2. pcr' = [pcr EXCEPT !.regen = regen, !.known = @ \/ HasPcr(p)]
  BY DEF Enqueue
<1>3. /\ pcr'.last = pcr.last /\ pcr'.regen = regen /\ pcr'.known = (k \/ HasPcr(p))
      /\ regen.anchor = pcr.regen.anchor
      /\ regen.flagNext = (stalled \/ pcr.regen.flagNext)
  <2>1. pcr'.last = pcr.last /\ pcr'.regen = regen /\ pcr'.known = (k \/ HasPcr(p))
    BY <1>1, <1>2
  <2>2. regen.anchor = pcr.regen.anchor /\ regen.flagNext = (stalled \/ pcr.regen.flagNext)
    BY <1>1 DEF FlagDiscontinuity, Regens, TypeOK, SourceType
  <2>3. QED
    BY <2>1, <2>2
<1>4. session'.resumed => regen.flagNext
  <2>1. CASE stalled
    BY <1>3, <2>1
  <2>2. CASE ~stalled
    <3>1. session'.resumed = session.resumed
      <4>1. PICK t \in Targets :
              session' = IF content.first = None
                           THEN [session EXCEPT !.from = IF Adaptive THEN now ELSE now + t]
                           ELSE session
        BY <2>2 DEF Enqueue
      <4>2. QED
        BY <1>1, <4>1
    <3>2. QED
      BY <1>3, <3>1 DEF PcrInv
  <2>3. QED
    BY <2>1, <2>2
<1> HIDE DEF regen
<1>5. buffer'.queue \in Seq(Known(l)) /\ deferred' \in Seq(Known(l))
  <2>1. Known(k) \subseteq Known(l)
    BY <1>3 DEF Known
  <2> HIDE DEF l, k
  <2>2. buffer.queue \in Seq(Known(l)) /\ deferred \in Seq(Known(l))
    BY <1>1, <2>1
  <2>3. pkt \in Known(l)
    <3>1. pkt \in Packets
      BY Numbers DEF Packets, TypeOK, SourceType
    <3>2. HasPcr(pkt) => l
      BY <1>3 DEF HasPcr, l
    <3>3. QED
      BY <3>1, <3>2 DEF Known
  <2>4. buffer'.queue = Append(buffer.queue, pkt)
        \/ (buffer.queue # <<>> /\ buffer'.queue = Append(Tail(buffer.queue), pkt))
    <3>1. PICK t \in Targets : buffer' = Push(grown(t), pkt)
      BY DEF Enqueue
    <3>2. grown(t).queue = buffer.queue /\ grown(t) \in [queue : Seq(Packets), capacity : Nat \ {0}]
      <4>1. t \in Nat
        BY Numbers
      <4>2. GrowTo(buffer, LatencyToPackets(Cap(t))) \in [queue : Seq(Packets), capacity : Nat \ {0}]
        BY <1>1, <4>1, DepthType, GrowType
      <4>3. GrowTo(buffer, LatencyToPackets(Cap(t))).queue = buffer.queue
        BY <1>1 DEF GrowTo
      <4>4. QED
        BY <1>1, <4>2, <4>3
    <3> HIDE DEF grown, pkt
    <3>3. Full(grown(t)) => buffer.queue # <<>>
      BY <3>2 DEF Full
    <3>4. buffer'.queue = Append(IF Full(grown(t)) THEN Tail(buffer.queue) ELSE buffer.queue, pkt)
      BY <3>1, <3>2 DEF Push
    <3>5. QED
      BY <3>3, <3>4
  <2> HIDE DEF pkt
  <2>5. buffer.queue # <<>> => Tail(buffer.queue) \in Seq(Known(l))
    BY <2>2, HeadTailProperties
  <2>6. buffer'.queue \in Seq(Known(l))
    <3>1. Append(buffer.queue, pkt) \in Seq(Known(l))
      BY <2>2, <2>3, AppendProperties
    <3>2. buffer.queue # <<>> => Append(Tail(buffer.queue), pkt) \in Seq(Known(l))
      BY <2>3, <2>5, AppendProperties
    <3>3. QED
      BY <2>4, <3>1, <3>2
  <2>7. QED
    BY <2>2, <2>6
<1> HIDE DEF k, l
<1>6. pcr.last # None => k /\ pcr.regen.anchor # None
  BY DEF PcrInv, k
<1>7. /\ wirePcr' # None \/ pcr'.regen.anchor # None => pcr'.last # None
      /\ pcr'.last # None => /\ pcr'.known /\ pcr'.regen.anchor # None
                             /\ pcr'.last = wirePcr'.slot /\ wirePcr'.slot < slot'
                             /\ pcr'.regen.anchor.index <= wirePcr'.slot
                             /\ wirePcr'.pcr = LockedForIndex(pcr'.regen, wirePcr'.slot)
  BY <1>3, <1>6 DEF PcrInv, LockedForIndex
<1>8. QED
  BY <1>3, <1>4, <1>5, <1>7 DEF PcrInv, l

LEMMA PcrStep ==
  ASSUME Regenerate, TypeOK, PcrInv, [Next]_vars
  PROVE  PcrInv'
<1>1. CASE ReceiveWaiting \/ ReceiveRunning
  <2>1. PICK p \in SourcePackets : Receive(p)
    BY <1>1 DEF ReceiveWaiting, ReceiveRunning
  <2>2. CASE p.null
    BY <2>1, <2>2 DEF Receive, PcrInv, LockedForIndex
  <2>3. CASE ~p.null
    <3>1. Enqueue(p) /\ input.received < MaxInput /\ UNCHANGED <<deferred, slot, wirePcr>>
      BY <2>1, <2>3 DEF Receive
    <3>2. QED
      BY <3>1, ArrivalKnows
  <2>4. QED
    BY <2>2, <2>3
<1>2. CASE EmitSlot
  <2>1. /\ pcr \in [regen : Regens, last : OrNone(Nat), known : BOOLEAN] /\ slot \in Nat
        /\ slot # None
    BY Numbers DEF TypeOK, PcrType, ClockType, Regens
  <2>2. slot' = slot + 1 /\ pcr'.known = pcr.known /\ (session'.resumed => session.resumed)
    BY <1>2, SlotSends
  <2>3. buffer'.queue \in Seq(Known(pcr'.known)) /\ deferred' \in Seq(Known(pcr'.known))
    BY <1>2, <2>2, SlotKnows
  <2>4. CASE /\ ReinsertsPcr /\ wirePcr' = wire' /\ wire'.kind = "pcr"
             /\ wire'.slot = slot /\ wire'.pcr = LockedForIndex(pcr.regen, slot)
             /\ pcr'.last = slot /\ pcr'.regen = pcr.regen /\ sent' = sent
    <3>1. /\ pcr.last # None /\ pcr.known /\ pcr.regen.anchor # None
          /\ pcr.regen.anchor.index <= wirePcr.slot /\ wirePcr.slot < slot
          /\ pcr.last = wirePcr.slot
      BY <2>4 DEF ReinsertsPcr, PcrInv
    <3>2. /\ pcr.regen.anchor.index \in Nat /\ wirePcr.slot \in Nat
      <4>1. pcr.regen.anchor \in [index : Nat, pcr : 0 .. PcrWrap - 1]
        BY <2>1, <3>1 DEF Regens, OrNone
      <4>2. QED
        BY <2>1, <3>1, <4>1 DEF OrNone
    <3>3. pcr.regen.anchor.index <= slot /\ slot < slot + 1
      BY <2>1, <3>1, <3>2
    <3>4. session'.resumed => pcr'.regen.flagNext
      BY <2>2, <2>4 DEF PcrInv
    <3>5. LockedForIndex(pcr.regen, slot) = LockedForIndex(pcr'.regen, slot)
      BY <2>4
    <3> HIDE DEF ReinsertsPcr, LockedForIndex
    <3>6. QED
      BY <2>1, <2>2, <2>3, <2>4, <3>1, <3>3, <3>4, <3>5 DEF PcrInv
  <2>5. ASSUME NEW p \in Packets,
               /\ HasPcr(p) /\ pcr.known /\ wirePcr' = wire' /\ wire'.slot = slot
               /\ wire'.pcr = Rewritten(pcr.regen, p, slot).pcr
               /\ pcr'.last = slot /\ pcr'.regen = AfterRewrite(pcr.regen, p, slot)
               /\ ~session'.resumed
        PROVE  PcrInv'
    <3>1. /\ Rewritten(pcr.regen, p, slot).pcr = LockedForIndex(pcr'.regen, slot)
          /\ pcr'.regen.anchor # None
          /\ pcr'.regen.anchor.index = slot \/ pcr'.regen.anchor = pcr.regen.anchor
      BY <2>1, <2>5, AnchorKept
    <3>2. pcr'.regen.anchor.index <= slot
      <4>1. CASE pcr'.regen.anchor.index = slot
        BY <2>1, <4>1
      <4>2. CASE pcr'.regen.anchor = pcr.regen.anchor
        <5>1. pcr.regen.anchor \in [index : Nat, pcr : 0 .. PcrWrap - 1]
          BY <2>1, <3>1, <4>2 DEF Regens, OrNone
        <5>2. /\ pcr.last # None /\ pcr.last = wirePcr.slot /\ wirePcr.slot < slot
              /\ pcr.regen.anchor.index <= wirePcr.slot
          BY <3>1, <4>2 DEF PcrInv
        <5>3. wirePcr.slot \in Nat /\ pcr.regen.anchor.index \in Nat
          BY <2>1, <5>1, <5>2 DEF OrNone
        <5>4. pcr.regen.anchor.index <= slot
          BY <2>1, <5>2, <5>3
        <5>5. QED
          BY <4>2, <5>4
      <4>3. QED
        BY <3>1, <4>1, <4>2
    <3>3. slot < slot + 1
      BY <2>1
    <3> HIDE DEF LockedForIndex, Rewritten, AfterRewrite
    <3>4. QED
      BY <2>1, <2>2, <2>3, <2>5, <3>1, <3>2, <3>3 DEF PcrInv
  <2>6. CASE UNCHANGED <<wirePcr, pcr>>
    <3>1. pcr.last # None => wirePcr.slot < slot + 1
      BY <2>1 DEF PcrInv, OrNone
    <3>2. QED
      BY <2>2, <2>3, <2>6, <3>1 DEF PcrInv, LockedForIndex
  <2>7. QED
    BY <1>2, <2>4, <2>5, <2>6, SlotSends
<1>3. CASE Silent \/ EndWaiting \/ Mute \/ GiveUp \/ OpenDatagram \/ Finish \/ EndRunning
           \/ SourceFails \/ Tick \/ UNCHANGED vars
  <2>1. UNCHANGED <<buffer, deferred, pcr, wirePcr, session>>
    BY <1>3 DEF Silent, EndWaiting, Mute, GiveUp, OpenDatagram, Finish, EndRunning, SourceFails,
                Tick, vars, history
  <2>2. slot \in Nat /\ slot' \in Nat /\ slot <= slot'
    BY <1>3, Numbers
    DEF Silent, EndWaiting, Mute, GiveUp, OpenDatagram, Finish, EndRunning, SourceFails,
        Tick, vars, clocks, TypeOK, ClockType
  <2>3. pcr.last # None => wirePcr.slot < slot'
    <3>1. pcr.last \in OrNone(Nat)
      BY DEF TypeOK, PcrType
    <3>2. QED
      BY <2>2, <3>1 DEF PcrInv, OrNone
  <2>4. QED
    BY <2>1, <2>3 DEF PcrInv, LockedForIndex
<1>4. QED
  BY <1>1, <1>2, <1>3 DEF Next, Engine, Source
-----------------------------------------------------------------------------
(* What a PCR rests on is there from the start. *)
THEOREM PcrsKept == Regenerate => (Spec => []PcrInv)
<1> SUFFICES ASSUME Regenerate PROVE Spec => []PcrInv
  OBVIOUS
<1>1. Init => PcrInv
  BY DEF Init, PcrInv, NewRegen, NewBuffer
<1>2. TypeOK /\ PcrInv /\ [Next]_vars => PcrInv'
  BY PcrStep
<1>3. QED
  BY <1>1, <1>2, TypeCorrect, PTL DEF Spec

(* Only a slot of a datagram puts anything on the wire. *)
LEMMA OnlySlotsSend ==
  ASSUME [Next]_vars, ~EmitSlot
  PROVE  /\ UNCHANGED <<wire, wirePcr, sent>>
         /\ datagram # None => slot' = slot
<1>1. CASE ReceiveWaiting \/ ReceiveRunning
  BY <1>1 DEF ReceiveWaiting, ReceiveRunning, Receive
<1>2. CASE Mute
  BY <1>2 DEF Mute, DueNow, Idle, history
<1>3. CASE Silent \/ EndWaiting \/ GiveUp \/ OpenDatagram \/ Finish \/ EndRunning
           \/ SourceFails \/ Tick \/ UNCHANGED vars
  BY <1>3 DEF Silent, EndWaiting, GiveUp, OpenDatagram, Finish, EndRunning, SourceFails,
              Tick, vars, history, clocks
<1>4. QED
  BY <1>1, <1>2, <1>3 DEF Next, Engine, Source
-----------------------------------------------------------------------------
(* Two PCRs that follow each other on the wire are as far apart in value as *)
(* they are in bytes at the mux rate, unless the second is flagged.         *)
THEOREM PcrsStayLocked == Regenerate => (Spec => PcrByteLocked)
<1> SUFFICES ASSUME Regenerate PROVE Spec => PcrByteLocked
  OBVIOUS
<1> DEFINE gap == wirePcr'.pcr - wirePcr.pcr - TicksOf(wirePcr'.slot - wirePcr.slot)
           A   == /\ Regenerate /\ wirePcr # None
                  /\ wirePcr' # wirePcr /\ ~wirePcr'.di
                  => gap % PcrWrap \in {0, 1}
<1>1. ASSUME TypeOK, PcrInv, [Next]_vars, wirePcr # None, wirePcr' # wirePcr, ~wirePcr'.di
      PROVE  gap % PcrWrap \in {0, 1}
  <2>1. EmitSlot
    BY <1>1, OnlySlotsSend
  <2>2. /\ pcr.last # None /\ pcr.last = wirePcr.slot /\ wirePcr.slot < slot
        /\ pcr.regen.anchor # None /\ pcr.regen.anchor.index <= wirePcr.slot
        /\ wirePcr.pcr = LockedForIndex(pcr.regen, wirePcr.slot)
    BY <1>1 DEF PcrInv
  <2>3. pcr.regen \in Regens /\ slot \in Nat /\ wirePcr.slot \in Nat
    BY <1>1, <2>2 DEF TypeOK, PcrType, ClockType, Regens, OrNone
  <2>4. pcr.regen.anchor \in [index : Nat, pcr : 0 .. PcrWrap - 1]
    BY <2>2, <2>3 DEF Regens, OrNone
  <2>5. wirePcr'.slot = slot /\ wirePcr'.pcr = LockedForIndex(pcr.regen, slot)
    <3>1. CASE ReinsertsPcr
      <4> HIDE DEF ReinsertsPcr, LockedForIndex
      <4>1. QED
        BY <1>1, <2>1, <3>1, SlotSends
    <3>2. CASE ~ReinsertsPcr
      <4>1. PICK p \in Packets :
              /\ HasPcr(p) /\ wirePcr' = wire' /\ wire'.slot = slot
              /\ wire'.pcr = Rewritten(pcr.regen, p, slot).pcr
              /\ wire'.di = Rewritten(pcr.regen, p, slot).di
        <5> HIDE DEF ReinsertsPcr, LockedForIndex, Rewritten, AfterRewrite
        <5>1. QED
          BY <1>1, <2>1, <3>2, SlotSends
      <4>2. /\ Rewritten(pcr.regen, p, slot).pcr
                 = LockedForIndex(AfterRewrite(pcr.regen, p, slot), slot)
            /\ AfterRewrite(pcr.regen, p, slot).anchor = pcr.regen.anchor
        <5> HIDE DEF Rewritten, AfterRewrite, LockedForIndex
        <5>1. QED
          BY <1>1, <2>2, <2>3, <4>1, AnchorKept
      <4>3. Rewritten(pcr.regen, p, slot).pcr = LockedForIndex(pcr.regen, slot)
        <5> HIDE DEF Rewritten, AfterRewrite
        <5>1. QED
          BY <4>2 DEF LockedForIndex
      <4> HIDE DEF Rewritten, LockedForIndex
      <4>4. QED
        BY <4>1, <4>3
    <3>3. QED
      BY <3>1, <3>2
  <2> DEFINE p == pcr.regen.anchor.pcr
             i == pcr.regen.anchor.index
             s == wirePcr.slot
  <2>6. p \in Int /\ i \in Nat /\ s \in Nat /\ i <= s /\ s <= slot
    BY <2>2, <2>3, <2>4, Numbers
  <2>7. /\ wirePcr.pcr = (p + TicksOf(s - i)) % PcrWrap
        /\ wirePcr'.pcr = (p + TicksOf(slot - i)) % PcrWrap
        /\ wirePcr'.slot = slot
    BY <2>2, <2>5 DEF LockedForIndex
  <2> HIDE DEF p, i
  <2>8. QED
    BY <2>3, <2>6, <2>7, LockedApart
<1>2. TypeOK /\ PcrInv /\ [Next]_vars => [A]_vars
  BY <1>1
<1>3. Spec => [][A]_vars
  BY <1>2, TypeCorrect, PcrsKept, PTL DEF Spec
<1>4. QED
  BY <1>3 DEF PcrByteLocked

(* While the source lives, no slot passes the repetition limit without a    *)
(* PCR on the wire.                                                         *)
THEOREM PcrsRepeat == Regenerate => (Spec => PcrRepeated)
<1> SUFFICES ASSUME Regenerate PROVE Spec => PcrRepeated
  OBVIOUS
<1> DEFINE A == /\ Regenerate /\ wirePcr # None
                /\ datagram # None /\ datagram.state # "stalled" /\ slot' # slot
                => slot' - wirePcr'.slot <= PcrMaxPackets
<1>1. ASSUME TypeOK, PcrInv, [Next]_vars, wirePcr # None, datagram # None,
             datagram.state # "stalled", slot' # slot
      PROVE  slot' - wirePcr'.slot <= PcrMaxPackets
  <2>1. EmitSlot
    BY <1>1, OnlySlotsSend
  <2>2. /\ pcr.last # None /\ pcr.last = wirePcr.slot /\ wirePcr.slot < slot
        /\ pcr.regen.anchor # None /\ pcr.known
    BY <1>1 DEF PcrInv
  <2>3. slot \in Nat /\ wirePcr.slot \in Nat /\ PcrMaxPackets \in Nat \ {0}
    BY <1>1, <2>2, Numbers, PacerAssumption
    DEF TypeOK, PcrType, ClockType, OrNone, PacerAssumption
  <2>4. CASE wirePcr' = wirePcr /\ ~ReinsertsPcr /\ (Queue # <<>> => ~HasPcr(Head(Queue)))
    <3>1. ~(slot - pcr.last >= PcrMaxPackets)
      <4> HIDE DEF Queue, HasPcr
      <4>1. QED
        BY <1>1, <2>2, <2>4 DEF ReinsertsPcr
    <3>2. slot' = slot + 1
      BY <2>1 DEF EmitSlot
    <3>3. QED
      BY <2>2, <2>3, <2>4, <3>1, <3>2
  <2>5. CASE wirePcr'.slot = slot
    <3>1. slot' = slot + 1
      BY <2>1 DEF EmitSlot
    <3>2. QED
      BY <2>3, <2>5, <3>1
  <2>6. wirePcr'.slot = slot
        \/ (wirePcr' = wirePcr /\ ~ReinsertsPcr /\ (Queue # <<>> => ~HasPcr(Head(Queue))))
    <3> HIDE DEF ReinsertsPcr, LockedForIndex, Rewritten, AfterRewrite, Queue, HasPcr
    <3>1. QED
      BY <1>1, <2>1, SlotSends
  <2>7. QED
    BY <2>4, <2>5, <2>6
<1>2. TypeOK /\ PcrInv /\ [Next]_vars => [A]_vars
  BY <1>1
<1>3. Spec => [][A]_vars
  BY <1>2, TypeCorrect, PcrsKept, PTL DEF Spec
<1>4. QED
  BY <1>3 DEF PcrRepeated

(* The first of the source's PCRs to go out after a stall is flagged. *)
THEOREM ReturnsAreFlagged == Regenerate => (Spec => ResumeFlagged)
<1> SUFFICES ASSUME Regenerate PROVE Spec => ResumeFlagged
  OBVIOUS
<1> DEFINE A == session.resumed /\ sent' # sent /\ wirePcr' # wirePcr => wirePcr'.di
<1>1. ASSUME TypeOK, PcrInv, [Next]_vars, session.resumed, sent' # sent, wirePcr' # wirePcr
      PROVE  wirePcr'.di
  <2>1. EmitSlot
    BY <1>1, OnlySlotsSend
  <2>2. pcr.regen \in Regens /\ slot \in Nat /\ pcr.regen.flagNext
    BY <1>1 DEF TypeOK, PcrType, ClockType, Regens, PcrInv
  <2>3. PICK p \in Packets :
          HasPcr(p) /\ wirePcr' = wire' /\ wire'.di = Rewritten(pcr.regen, p, slot).di
    <3> HIDE DEF ReinsertsPcr, LockedForIndex, Rewritten, AfterRewrite, Queue, HasPcr
    <3>1. QED
      BY <1>1, <2>1, SlotSends
  <2>4. Rewritten(pcr.regen, p, slot).di
    <3> HIDE DEF LockedForIndex, Rewritten, AfterRewrite
    <3>1. QED
      BY <2>2, <2>3, AnchorKept
  <2>5. QED
    BY <2>3, <2>4
<1>2. TypeOK /\ PcrInv /\ [Next]_vars => [A]_vars
  BY <1>1
<1>3. Spec => [][A]_vars
  BY <1>2, TypeCorrect, PcrsKept, PTL DEF Spec
<1>4. QED
  BY <1>3 DEF ResumeFlagged

(* The carrier of a dead source is stuffing and nothing else. *)
THEOREM StalledCarrier == Spec => StalledCarrierIsEmpty
<1> DEFINE A == stalled /\ datagram # None /\ slot' # slot => wire'.kind = "null"
<1>1. ASSUME TypeOK, StallInv, ReportInv, [Next]_vars, stalled, datagram # None, slot' # slot
      PROVE  wire'.kind = "null"
  <2>1. EmitSlot
    BY <1>1, OnlySlotsSend
  <2>2. ~ReinsertsPcr
    <3>1. Running /\ datagram.state = "stalled"
      BY <1>1, <2>1 DEF EmitSlot, ReportInv
    <3>2. QED
      BY <3>1 DEF ReinsertsPcr
  <2>3. Queue = <<>>
    <3>1. ~HasPending
      BY <1>1 DEF StallInv, State
    <3>2. buffer.queue \in Seq(Packets) /\ deferred \in Seq(Packets)
      BY <1>1 DEF TypeOK, QueueType
    <3>3. Len(buffer.queue) \in Nat /\ Len(deferred) \in Nat
      BY <3>2, LenProperties
    <3>4. Len(buffer.queue) = 0 /\ Len(deferred) = 0
      BY <3>1, <3>3 DEF HasPending, Held
    <3>5. buffer.queue = <<>> /\ deferred = <<>>
      BY <3>2, <3>4, EmptySeq
    <3>6. QED
      BY <3>5 DEF Queue, Admits
  <2>4. SendNull
    BY <2>1, <2>2, <2>3 DEF EmitSlot, SendPcr, SendContent
  <2>5. QED
    BY <2>4 DEF SendNull, Put
<1>2. TypeOK /\ StallInv /\ ReportInv /\ [Next]_vars => [A]_vars
  BY <1>1
<1>3. Spec => [][A]_vars
  BY <1>2, TypeCorrect, StallKept, ReportsKept, PTL DEF Spec
<1>4. QED
  BY <1>3 DEF StalledCarrierIsEmpty
=============================================================================
