------------------------- MODULE ArrivalSafety_proof -------------------------
(***************************************************************************)
(* The types of the pacer under arrival clocking, and what it promises     *)
(* about the packets it is given and about stalls, for every value of the  *)
(* constants.                                                              *)
(***************************************************************************)
EXTENDS ArrivalPacer, SequenceTheorems, TLAPS

(* The constants and what is computed from them are numbers. *)
LEMMA Numbers ==
  /\ PacketTicks \in Nat \ {0} /\ MuxRate \in Nat \ {0} /\ PcrWrap \in Nat \ {0}
  /\ None \notin Int /\ None # "ok"
  /\ SlotTime \in Nat \ {0} /\ PacketsPerDatagram \in Nat \ {0}
  /\ PcrMaxPackets \in Nat \ {0} /\ RateUnit \in Nat \ {0}
  /\ Floor \in Nat /\ MaxLatency \in Nat /\ StartDeadline \in Nat /\ StallSpan \in Nat
  /\ PollBudget \in Nat /\ HealthInterval \in Nat /\ TimerSlack \in Nat /\ MaxLate \in Nat
  /\ MaxInput \in Nat /\ InputUntil \in Nat /\ Horizon \in Nat
  /\ Adaptive \in BOOLEAN /\ Regenerate \in BOOLEAN
  /\ Floor \in Targets /\ Targets \subseteq Nat
  /\ ReleaseRates \subseteq Nat \ {0}
  /\ SourcePackets \subseteq [pcr : 0 .. PcrWrap - 1 \cup {None}, di : BOOLEAN, null : BOOLEAN]
  BY SlotMapAssumption, PcrRegenAssumption, PacerAssumption
  DEF SlotMapAssumption, PcrRegenAssumption, PacerAssumption

(* The state read by the loop is one of the four the observer knows. *)
LEMMA StateType == State \in States
  BY DEF State, States

(* Byte-locked PCR values stay on the wrapping PCR clock. *)
LEMMA LockedType ==
  ASSUME NEW a \in [index : Nat, pcr : 0 .. PcrWrap - 1],
         NEW r, r.anchor = a, NEW i \in Nat
  PROVE  LockedForIndex(r, i) \in 0 .. PcrWrap - 1
<1>1. TicksOf(i - a.index) \in Int
  BY Numbers DEF TicksOf
<1>2. a.pcr \in Int
  OBVIOUS
<1> HIDE DEF TicksOf
<1>3. QED
  BY <1>1, <1>2, Numbers DEF LockedForIndex

(* The depth in packets that the jitter buffer is given is a depth. *)
LEMMA DepthType == ASSUME NEW t \in Nat PROVE LatencyToPackets(Cap(t)) \in Int
<1>1. Cap(t) \in Nat
  BY Numbers DEF Cap, LargerOf
<1>2. QED
  BY <1>1, Numbers DEF LatencyToPackets

(* A pacer that was just built is well typed. *)
LEMMA InitType == Init => TypeOK
<1> SUFFICES ASSUME Init PROVE TypeOK
  OBVIOUS
<1> USE Numbers DEF Init, OrNone, Instants
<1>1. LoopType
  BY DEF LoopType
<1>2. ClockType
  BY DEF ClockType
<1>3. QueueType
  <2>1. LatencyToPackets(Cap(Floor)) \in Int
    BY DepthType
  <2>2. QED
    BY <2>1 DEF QueueType, NewBuffer, LargerOf
<1>4. PcrType
  BY DEF PcrType, NewRegen
<1>5. SourceType
  <2>1. stalled \in BOOLEAN
    OBVIOUS
  <2>2. content \in [first : OrNone(Instants), last : OrNone(Instants)]
    OBVIOUS
  <2>3. input \in [received : 0 .. MaxInput, accepted : 0 .. MaxInput, at : OrNone(Instants)]
    OBVIOUS
  <2>4. input.accepted <= input.received
    OBVIOUS
  <2>5. QED
    BY <2>1, <2>2, <2>3, <2>4 DEF SourceType
<1>6. CountType /\ WireType
  BY DEF CountType, WireType
<1>7. QED
  BY <1>1, <1>2, <1>3, <1>4, <1>5, <1>6 DEF TypeOK

(* The parts of the type invariant that the variables a step leaves alone   *)
(* keep.                                                                    *)
LEMMA Frames ==
  /\ ClockType /\ UNCHANGED <<anchor, slot, target, media>> => ClockType'
  /\ QueueType /\ UNCHANGED <<buffer, deferred>> => QueueType'
  /\ PcrType /\ UNCHANGED pcr => PcrType'
  /\ SourceType /\ UNCHANGED <<content, stalled, input>> => SourceType'
  /\ CountType /\ UNCHANGED <<stats, sent, session>> => CountType'
  /\ WireType /\ UNCHANGED <<wire, wirePcr>> => WireType'
  /\ LoopType /\ UNCHANGED <<now, control, datagram, reporter>> => LoopType'
  BY DEF ClockType, QueueType, PcrType, SourceType, CountType, WireType, LoopType

(* A report has the type of one, whatever state it names. *)
LEMMA ReportType ==
  ASSUME NEW st \in States, NEW n \in Nat, now \in Instants,
         reporter \in OrNone([state : States, at : Instants, stalls : Nat]),
         Report(st, n) \/ Announce(st, n)
  PROVE  reporter' \in OrNone([state : States, at : Instants, stalls : Nat])
  BY DEF Report, Announce, OrNone

(* The start gate leaves both clocks started or neither. *)
LEMMA ArmType ==
  ASSUME NEW b, NEW held, NEW t \in Nat, NEW settled, NEW first,
         Arm(b, held, t, settled, first), now \in Instants,
         anchor \in OrNone(Nat),
         media \in [anchor : OrNone(Nat), ticked : OrNone(Instants), credit : Nat, released : Nat],
         anchor = None <=> media.anchor = None
  PROVE  /\ anchor' \in OrNone(Nat)
         /\ media' \in [anchor : OrNone(Nat), ticked : OrNone(Instants), credit : Nat, released : Nat]
         /\ anchor' = None <=> media'.anchor = None
         /\ anchor # None => anchor' # None
<1> DEFINE open == anchor = None /\ Opens(held, Room(b), t, settled, first)
           at   == IF Adaptive THEN now ELSE now + t
<1>1. now \in Nat
  BY Numbers DEF Instants
<1>2. at \in Nat
  BY <1>1, Numbers
<1>3. CASE open
  <2>1. anchor' = at /\ media' = [media EXCEPT !.anchor = at]
    BY <1>3 DEF Arm
  <2> HIDE DEF at
  <2>2. QED
    BY <1>2, <2>1, <1>3, Numbers DEF OrNone
<1>4. CASE ~open
  BY <1>4 DEF Arm
<1>5. QED
  BY <1>3, <1>4

(* What the buffer and the queue behind the re-inserted PCRs hold are       *)
(* packets, before and after a slot takes one.                              *)
LEMMA SlotQueues ==
  ASSUME QueueType
  PROVE  /\ Queue \in Seq(Packets)
         /\ Queue # <<>> => Head(Queue) \in Packets /\ Tail(Queue) \in Seq(Packets)
         /\ Admits => Pop(buffer) \in [queue : Seq(Packets), capacity : Nat \ {0}]
<1>1. Admits => Head(buffer.queue) \in Packets /\ Tail(buffer.queue) \in Seq(Packets)
  BY DEF QueueType, Admits
<1>2. Queue \in Seq(Packets)
  BY <1>1 DEF QueueType, Queue
<1>3. Queue # <<>> => Head(Queue) \in Packets /\ Tail(Queue) \in Seq(Packets)
  <2> HIDE DEF Queue
  <2>1. QED
    BY <1>2, HeadTailProperties
<1>4. Admits => Pop(buffer) \in [queue : Seq(Packets), capacity : Nat \ {0}]
  BY <1>1 DEF QueueType, Pop
<1>5. QED
  BY <1>2, <1>3, <1>4

(* A push keeps the jitter buffer a bounded queue of packets. *)
LEMMA PushType ==
  ASSUME NEW b \in [queue : Seq(Packets), capacity : Nat \ {0}], NEW p \in Packets
  PROVE  Push(b, p) \in [queue : Seq(Packets), capacity : Nat \ {0}]
<1>1. CASE Full(b)
  <2>1. b.queue # <<>>
    BY <1>1 DEF Full
  <2>2. Tail(b.queue) \in Seq(Packets)
    BY <2>1, HeadTailProperties
  <2>3. Append(Tail(b.queue), p) \in Seq(Packets)
    BY <2>2, AppendProperties
  <2>4. Push(b, p) = [b EXCEPT !.queue = Append(Tail(b.queue), p)]
    BY <1>1 DEF Push
  <2>5. QED
    BY <2>3, <2>4
<1>2. CASE ~Full(b)
  BY <1>2 DEF Push
<1>3. QED
  BY <1>1, <1>2

(* So does raising its bound. *)
LEMMA GrowType ==
  ASSUME NEW b \in [queue : Seq(Packets), capacity : Nat \ {0}], NEW n \in Int
  PROVE  GrowTo(b, n) \in [queue : Seq(Packets), capacity : Nat \ {0}]
  BY DEF GrowTo, LargerOf

(* What is put on the wire is a packet of the wire. *)
LEMMA PutType ==
  ASSUME NEW kind \in {"content", "pcr", "null"}, NEW id \in 1 .. MaxInput \cup {None},
         NEW v \in 0 .. PcrWrap - 1 \cup {None}, NEW di \in BOOLEAN,
         slot \in Nat, WireType, Put(kind, id, v, di)
  PROVE  WireType'
<1> DEFINE packet == [kind |-> kind, id |-> id, pcr |-> v, di |-> di, slot |-> slot]
<1>1. packet \in OnWire
  BY DEF OnWire
<1>2. wire' = packet /\ wirePcr' \in {wirePcr, packet}
  BY DEF Put
<1> HIDE DEF packet
<1>3. QED
  BY <1>1, <1>2 DEF WireType, OrNone

(* A regenerator stays one across a rewrite, which yields a PCR on the      *)
(* wrapping clock.                                                          *)
LEMMA RewriteType ==
  ASSUME NEW r \in [anchor : OrNone([index : Nat, pcr : 0 .. PcrWrap - 1]),
                    lastSrc : OrNone(0 .. PcrWrap - 1), flagNext : BOOLEAN],
         NEW p \in Packets, HasPcr(p), NEW i \in Nat
  PROVE  /\ AfterRewrite(r, p, i) \in
              [anchor : [index : Nat, pcr : 0 .. PcrWrap - 1],
               lastSrc : 0 .. PcrWrap - 1, flagNext : BOOLEAN]
         /\ Rewritten(r, p, i) \in Packets
<1>1. p.pcr \in 0 .. PcrWrap - 1 /\ p.pcr % PcrWrap \in 0 .. PcrWrap - 1
  BY Numbers DEF Packets, HasPcr
<1>2. AfterRewrite(r, p, i) \in
        [anchor : [index : Nat, pcr : 0 .. PcrWrap - 1],
         lastSrc : 0 .. PcrWrap - 1, flagNext : BOOLEAN]
  <2>1. CASE r.anchor = None \/ Discontinuity(r, p)
    BY <1>1, <2>1 DEF AfterRewrite
  <2>2. CASE ~(r.anchor = None \/ Discontinuity(r, p))
    BY <1>1, <2>2 DEF AfterRewrite, OrNone
  <2>3. QED
    BY <2>1, <2>2
<1>3. LockedForIndex(AfterRewrite(r, p, i), i) \in 0 .. PcrWrap - 1
  BY <1>2, LockedType
<1>4. (p.di \/ Rebases(r, p) \/ r.flagNext) \in BOOLEAN
  OBVIOUS
<1>5. QED
  BY <1>2, <1>3, <1>4 DEF Rewritten, Packets

(* A content packet taken in leaves everything it touches well typed. *)
LEMMA EnqueueType ==
  ASSUME TypeOK, NEW p \in SourcePackets, input.received < MaxInput, Enqueue(p)
  PROVE  /\ target' \in Targets /\ anchor' \in OrNone(Nat)
         /\ media' \in [anchor : OrNone(Nat), ticked : OrNone(Instants), credit : Nat, released : Nat]
         /\ anchor' = None <=> media'.anchor = None
         /\ anchor # None => anchor' # None
         /\ buffer' \in [queue : Seq(Packets), capacity : Nat \ {0}]
         /\ PcrType' /\ SourceType'
         /\ stats' \in [dropped : Nat, stalls : Nat, muted : Nat]
         /\ session' \in [from : Nat, sent : Nat, resumed : BOOLEAN]
<1> DEFINE id == input.accepted + 1
           first == IF content.first = None THEN now ELSE content.first
           pkt == [id |-> id, pcr |-> p.pcr, di |-> p.di]
           grown(t) == IF Adaptive THEN GrowTo(buffer, LatencyToPackets(Cap(t))) ELSE buffer
<1>1. PICK t \in Targets, settled \in BOOLEAN :
        LET b == Push(grown(t), pkt)
        IN  /\ target' = t
            /\ buffer' = b
            /\ IF stalled
                 THEN /\ media' = [anchor |-> now + target, ticked |-> None, credit |-> 0, released |-> 0]
                      /\ session' = [from |-> now + target, sent |-> 0, resumed |-> TRUE]
                      /\ UNCHANGED anchor
                 ELSE /\ Arm(b, Len(b.queue) + Len(deferred), t, settled, first)
                      /\ session' = IF content.first = None
                                      THEN [session EXCEPT !.from = IF Adaptive THEN now ELSE now + t]
                                      ELSE session
            /\ stats' = [stats EXCEPT !.dropped = @ + IF Full(grown(t)) THEN 1 ELSE 0]
  BY DEF Enqueue, Refilled
<1>2. /\ id \in 1 .. MaxInput /\ now \in Instants /\ now \in Nat /\ target \in Nat /\ t \in Nat
      /\ first \in Instants
  BY Numbers DEF TypeOK, LoopType, ClockType, SourceType, OrNone, Instants
<1>3. pkt \in Packets
  BY <1>2, Numbers DEF Packets
<1>4. buffer' \in [queue : Seq(Packets), capacity : Nat \ {0}]
  <2>1. grown(t) \in [queue : Seq(Packets), capacity : Nat \ {0}]
    BY <1>2, DepthType, GrowType DEF TypeOK, QueueType
  <2> HIDE DEF grown, pkt
  <2>2. QED
    BY <1>1, <1>3, <2>1, PushType
<1>5. /\ anchor' \in OrNone(Nat)
      /\ media' \in [anchor : OrNone(Nat), ticked : OrNone(Instants), credit : Nat, released : Nat]
      /\ anchor' = None <=> media'.anchor = None
      /\ anchor # None => anchor' # None
  <2>1. CASE stalled
    <3>1. media' = [anchor |-> now + target, ticked |-> None, credit |-> 0, released |-> 0]
          /\ anchor' = anchor
      BY <1>1, <2>1
    <3>2. anchor # None
      BY <2>1 DEF TypeOK
    <3>3. QED
      BY <1>2, <3>1, <3>2, Numbers DEF TypeOK, ClockType, OrNone
  <2>2. CASE ~stalled
    BY <1>1, <1>2, <2>2, ArmType DEF TypeOK, ClockType
  <2>3. QED
    BY <2>1, <2>2
<1>6. session' \in [from : Nat, sent : Nat, resumed : BOOLEAN]
  <2>1. session \in [from : Nat, sent : Nat, resumed : BOOLEAN]
    BY DEF TypeOK, CountType
  <2>2. CASE stalled
    <3>1. session' = [from |-> now + target, sent |-> 0, resumed |-> TRUE]
      BY <1>1, <2>2
    <3>2. now + target \in Nat
      BY <1>2
    <3>3. QED
      BY <3>1, <3>2
  <2>3. CASE ~stalled
    <3>1. session' = session \/ session' = [session EXCEPT !.from = IF Adaptive THEN now ELSE now + t]
      BY <1>1, <2>3
    <3>2. (IF Adaptive THEN now ELSE now + t) \in Nat
      BY <1>2
    <3>3. QED
      BY <2>1, <3>1, <3>2
  <2>4. QED
    BY <2>2, <2>3
<1>7. stats' \in [dropped : Nat, stalls : Nat, muted : Nat]
  BY <1>1 DEF TypeOK, CountType
<1>8. PcrType'
  <2> DEFINE regen == IF stalled /\ Regenerate THEN FlagDiscontinuity(pcr.regen) ELSE pcr.regen
             Regen == [anchor : OrNone([index : Nat, pcr : 0 .. PcrWrap - 1]),
                       lastSrc : OrNone(0 .. PcrWrap - 1), flagNext : BOOLEAN]
  <2>1. pcr \in [regen : Regen, last : OrNone(Nat), known : BOOLEAN]
    BY DEF TypeOK, PcrType
  <2>2. regen \in Regen
    BY <2>1 DEF FlagDiscontinuity
  <2>3. pcr' = [pcr EXCEPT !.regen = regen, !.known = @ \/ HasPcr(p)]
    BY DEF Enqueue
  <2>4. (pcr.known \/ HasPcr(p)) \in BOOLEAN
    OBVIOUS
  <2> HIDE DEF regen, Regen
  <2>5. pcr' \in [regen : Regen, last : OrNone(Nat), known : BOOLEAN]
    BY <2>1, <2>2, <2>3, <2>4
  <2>6. QED
    BY <2>5 DEF PcrType, Regen
<1>9. SourceType'
  <2>1. content' = [first |-> first, last |-> now] /\ stalled' = FALSE
        /\ input' = [received |-> input.received + 1, accepted |-> id, at |-> now]
    BY DEF Enqueue
  <2>2. content' \in [first : OrNone(Instants), last : OrNone(Instants)]
    BY <1>2, <2>1 DEF OrNone
  <2>3. input' \in [received : 0 .. MaxInput, accepted : 0 .. MaxInput, at : OrNone(Instants)]
        /\ input'.accepted <= input'.received
    BY <1>2, <2>1, Numbers DEF OrNone, TypeOK, SourceType
  <2>4. stalled' \in BOOLEAN
    BY <2>1
  <2>5. QED
    BY <2>2, <2>3, <2>4 DEF SourceType
<1>10. QED
  BY <1>1, <1>4, <1>5, <1>6, <1>7, <1>8, <1>9

(* So does any packet: stuffing touches only its counter. *)
LEMMA ReceiveType ==
  ASSUME TypeOK, NEW p \in SourcePackets, Receive(p), datagram = None
  PROVE  /\ ClockType' /\ QueueType' /\ PcrType' /\ SourceType' /\ CountType' /\ WireType'
         /\ anchor' = None <=> media'.anchor = None
         /\ stalled' => anchor' # None
<1>1. CASE p.null
  <2>1. UNCHANGED <<target, buffer, media, session, anchor, stats, pcr, content, stalled, slot,
                    deferred, wire, wirePcr, sent>>
        /\ input' = [input EXCEPT !.received = @ + 1]
    BY <1>1 DEF Receive
  <2>2. input' \in [received : 0 .. MaxInput, accepted : 0 .. MaxInput, at : OrNone(Instants)]
        /\ input'.accepted <= input'.received
    BY <2>1, Numbers DEF Receive, TypeOK, SourceType
  <2>3. SourceType'
    BY <2>1, <2>2 DEF TypeOK, SourceType
  <2>4. QED
    BY <2>1, <2>3, Frames DEF TypeOK
<1>2. CASE ~p.null
  <2>1. Enqueue(p) /\ input.received < MaxInput
        /\ UNCHANGED <<slot, deferred, wire, wirePcr, sent>>
    BY <1>2 DEF Receive
  <2>2. stalled' = FALSE
    BY <2>1 DEF Enqueue
  <2>3. QED
    BY <2>1, <2>2, EnqueueType, Frames DEF TypeOK, ClockType, QueueType, CountType, WireType
<1>3. QED
  BY <1>1, <1>2

(* The two turns at the start of a due slot: the stall bookkeeping. *)
LEMMA ObserveType ==
  ASSUME TypeOK, ObserveState
  PROVE  /\ stats' \in [dropped : Nat, stalls : Nat, muted : Nat]
         /\ stalled' \in BOOLEAN
         /\ stalled' => anchor # None
<1> DEFINE m == IF datagram' = None THEN PacketsPerDatagram ELSE 0
           n == IF State = "stalled" /\ ~stalled THEN 1 ELSE 0
<1>1. stats' = [stats EXCEPT !.stalls = @ + n, !.muted = @ + m] /\ m \in Nat /\ n \in Nat
  BY Numbers DEF ObserveState
<1> HIDE DEF m, n
<1>2. stats' \in [dropped : Nat, stalls : Nat, muted : Nat]
  <2>1. stats \in [dropped : Nat, stalls : Nat, muted : Nat]
    BY DEF TypeOK, CountType
  <2>2. stats.stalls + n \in Nat /\ stats.muted + m \in Nat
    BY <1>1, <2>1
  <2>3. stats' = [dropped |-> stats.dropped, stalls |-> stats.stalls + n, muted |-> stats.muted + m]
    BY <1>1, <2>1
  <2>4. QED
    BY <2>1, <2>2, <2>3
<1>3. State = "stalled" => anchor # None
  BY DEF State, Started
<1>4. QED
  BY <1>2, <1>3 DEF ObserveState

(* A slot, whatever it carries, keeps the state well typed. *)
LEMMA EmitSlotType ==
  ASSUME TypeOK, EmitSlot
  PROVE  TypeOK'
<1>1. /\ slot \in Nat /\ slot' = slot + 1 /\ anchor \in Nat /\ anchor' = anchor
      /\ UNCHANGED <<now, anchor, target, content, stalled, stats, input>>
      /\ datagram \in [left : 1 .. PacketsPerDatagram, due : Nat, state : States]
      /\ now \in Instants
  BY DEF EmitSlot, TypeOK, ClockType, LoopType, OrNone
<1>2. /\ Queue \in Seq(Packets)
      /\ Queue # <<>> => Head(Queue) \in Packets /\ Tail(Queue) \in Seq(Packets)
      /\ Admits => Pop(buffer) \in [queue : Seq(Packets), capacity : Nat \ {0}]
  BY SlotQueues DEF TypeOK
<1> HIDE DEF Queue, Admits
<1>3. QueueType'
  BY <1>2 DEF EmitSlot, SendPcr, SendContent, SendNull, TypeOK, QueueType
<1>4. ClockType'
  BY <1>1 DEF EmitSlot, TypeOK, ClockType
<1>5. anchor' # None /\ media'.anchor # None
  BY <1>1, Numbers DEF EmitSlot, TypeOK, ClockType
<1>6. LoopType'
  <2>1. CASE datagram.left > 1
    <3>1. datagram' = [datagram EXCEPT !.left = @ - 1] /\ UNCHANGED <<reporter, control>>
      BY <2>1 DEF EmitSlot
    <3>2. datagram' \in [left : 1 .. PacketsPerDatagram, due : Nat, state : States]
      BY <1>1, <2>1, <3>1, Numbers
    <3>3. QED
      BY <1>1, <3>1, <3>2 DEF TypeOK, LoopType, OrNone
  <2>2. CASE ~(datagram.left > 1)
    <3>1. datagram' = None
          /\ \/ Report(datagram.state, stats.stalls) /\ UNCHANGED control
             \/ UNCHANGED reporter /\ control' = [control EXCEPT !.result = "failed"]
      BY <2>2 DEF EmitSlot
    <3>2. stats.stalls \in Nat
      BY DEF TypeOK, CountType
    <3>3. CASE Report(datagram.state, stats.stalls) /\ UNCHANGED control
      BY <1>1, <3>1, <3>2, <3>3, ReportType DEF TypeOK, LoopType, OrNone
    <3>4. CASE UNCHANGED reporter /\ control' = [control EXCEPT !.result = "failed"]
      BY <1>1, <3>1, <3>4 DEF TypeOK, LoopType, OrNone
    <3>5. QED
      BY <3>1, <3>3, <3>4
  <2>3. QED
    BY <2>1, <2>2
<1>7. SourceType'
  BY <1>1, Frames DEF TypeOK
<1> DEFINE Regen == [anchor : OrNone([index : Nat, pcr : 0 .. PcrWrap - 1]),
                     lastSrc : OrNone(0 .. PcrWrap - 1), flagNext : BOOLEAN]
<1>8. pcr \in [regen : Regen, last : OrNone(Nat), known : BOOLEAN]
  BY DEF TypeOK, PcrType
<1>9. CASE SendPcr
  <2>1. /\ pcr' = [pcr EXCEPT !.last = slot] /\ UNCHANGED <<sent, session>>
        /\ Put("pcr", None, LockedForIndex(pcr.regen, slot), FALSE)
        /\ pcr.regen.anchor # None
    BY <1>9 DEF SendPcr, ReinsertsPcr
  <2>2. pcr.regen.anchor \in [index : Nat, pcr : 0 .. PcrWrap - 1]
    BY <1>8, <2>1 DEF OrNone
  <2>3. LockedForIndex(pcr.regen, slot) \in 0 .. PcrWrap - 1
    BY <1>1, <2>2, LockedType
  <2>4. WireType'
    BY <1>1, <2>1, <2>3, PutType DEF TypeOK
  <2>5. PcrType'
    <3> HIDE DEF Regen
    <3>1. pcr' \in [regen : Regen, last : OrNone(Nat), known : BOOLEAN]
      BY <1>1, <1>8, <2>1 DEF OrNone
    <3>2. QED
      BY <3>1 DEF PcrType, Regen
  <2>6. CountType'
    BY <1>1, <2>1, Frames DEF TypeOK
  <2>7. QED
    BY <1>1, <1>3, <1>4, <1>5, <1>6, <1>7, <2>4, <2>5, <2>6 DEF TypeOK
<1>10. CASE SendContent
  <2> DEFINE p == Head(Queue)
             q == IF Regenerate THEN Rewritten(pcr.regen, p, slot) ELSE p
  <2>1. p \in Packets
    BY <1>2, <1>10 DEF SendContent
  <2>2. q \in Packets
    <3>1. CASE HasPcr(p)
      BY <1>1, <1>8, <2>1, <3>1, RewriteType
    <3>2. CASE ~HasPcr(p)
      BY <2>1, <3>2 DEF Rewritten
    <3>3. QED
      BY <3>1, <3>2
  <2>3. Put("content", p.id, q.pcr, q.di)
    BY <1>10 DEF SendContent
  <2>4. WireType'
    <3> HIDE DEF p, q
    <3>1. /\ p.id \in 1 .. MaxInput \cup {None}
          /\ q.pcr \in 0 .. PcrWrap - 1 \cup {None} /\ q.di \in BOOLEAN
      BY <2>1, <2>2 DEF Packets
    <3>2. QED
      BY <1>1, <2>3, <3>1, PutType DEF TypeOK
  <2>5. PcrType'
    <3>1. pcr' = IF HasPcr(p)
                   THEN [pcr EXCEPT !.last  = slot,
                                    !.regen = IF Regenerate THEN AfterRewrite(@, p, slot) ELSE @]
                   ELSE pcr
      BY <1>10 DEF SendContent
    <3>2. HasPcr(p) => AfterRewrite(pcr.regen, p, slot) \in Regen
      BY <1>1, <1>8, <2>1, RewriteType DEF OrNone
    <3> HIDE DEF p, q, Regen
    <3>3. pcr' \in [regen : Regen, last : OrNone(Nat), known : BOOLEAN]
      BY <1>1, <1>8, <3>1, <3>2 DEF OrNone
    <3>4. QED
      BY <3>3 DEF PcrType, Regen
  <2>6. CountType'
    <3> DEFINE resumed == session.resumed /\ ~HasPcr(p)
    <3>1. /\ sent' = [count |-> sent.count + 1, last |-> p.id]
          /\ session' = [session EXCEPT !.sent = @ + 1, !.resumed = resumed]
      BY <1>10 DEF SendContent
    <3>2. p.id \in 0 .. MaxInput
      BY <2>1 DEF Packets
    <3>3. resumed \in BOOLEAN
      OBVIOUS
    <3> HIDE DEF p, q, resumed
    <3>4. sent' \in [count : Nat, last : 0 .. MaxInput]
      BY <3>1, <3>2 DEF TypeOK, CountType
    <3>5. session' \in [from : Nat, sent : Nat, resumed : BOOLEAN]
      <4>1. session \in [from : Nat, sent : Nat, resumed : BOOLEAN]
        BY DEF TypeOK, CountType
      <4>2. session' = [from |-> session.from, sent |-> session.sent + 1, resumed |-> resumed]
        BY <3>1, <4>1
      <4>3. QED
        BY <3>3, <4>1, <4>2
    <3>6. QED
      BY <1>1, <3>4, <3>5 DEF TypeOK, CountType
  <2>7. QED
    BY <1>1, <1>3, <1>4, <1>5, <1>6, <1>7, <2>4, <2>5, <2>6 DEF TypeOK
<1>11. CASE SendNull
  <2>1. UNCHANGED <<pcr, sent, session>> /\ Put("null", None, None, FALSE)
    BY <1>11 DEF SendNull
  <2>2. WireType'
    BY <1>1, <2>1, PutType DEF TypeOK
  <2>3. QED
    BY <1>1, <1>3, <1>4, <1>5, <1>6, <1>7, <2>1, <2>2, Frames DEF TypeOK
<1>12. QED
  BY <1>9, <1>10, <1>11 DEF EmitSlot

(* The type invariant is inductive: one step per action. *)
LEMMA TypeStep == TypeOK /\ [Next]_vars => TypeOK'
<1> SUFFICES ASSUME TypeOK, [Next]_vars PROVE TypeOK'
  OBVIOUS
<1> DEFINE Control == [closing : BOOLEAN, result : OrNone({"ok", "stalled", "failed"}), since : Instants]
           Reports == OrNone([state : States, at : Instants, stalls : Nat])
<1>1. /\ now \in Instants /\ control \in Control /\ reporter \in Reports
      /\ stats.stalls \in Nat /\ State \in States
  BY StateType DEF TypeOK, LoopType, CountType
<1>2. CASE Silent
  <2>1. /\ anchor = None
        /\ UNCHANGED <<now, slot, target, buffer, deferred, pcr, content, stalled, datagram, stats, history>>
        /\ control' \in Control
    <3>1. PICK r \in {"stalled", None} :
            control' = [control EXCEPT !.since = now, !.result = r]
      BY <1>2 DEF Silent
    <3>2. QED
      BY <1>1, <1>2, <3>1 DEF Silent, Waiting, OrNone
  <2>2. /\ anchor' \in OrNone(Nat)
        /\ media' \in [anchor : OrNone(Nat), ticked : OrNone(Instants), credit : Nat, released : Nat]
        /\ anchor' = None <=> media'.anchor = None
    <3>1. CASE content.first # None
      <4>1. PICK settled \in BOOLEAN : Arm(buffer, Held, target, settled, content.first)
        BY <1>2, <3>1 DEF Silent
      <4>2. target \in Nat
        BY Numbers DEF TypeOK, ClockType
      <4>3. QED
        BY <1>1, <4>1, <4>2, ArmType DEF TypeOK, ClockType
    <3>2. CASE content.first = None
      BY <1>2, <3>2 DEF Silent, TypeOK, ClockType
    <3>3. QED
      BY <3>1, <3>2
  <2>3. reporter' \in Reports
    <3>1. PICK st \in {"priming", "live"} : Report(st, stats.stalls)
      BY <1>2 DEF Silent
    <3>2. QED
      BY <1>1, <3>1, ReportType DEF States
  <2>4. LoopType' /\ ClockType'
    BY <1>1, <2>1, <2>2, <2>3 DEF TypeOK, LoopType, ClockType
  <2>5. QED
    BY <2>1, <2>2, <2>4, Frames DEF TypeOK, history
<1>3. CASE Mute
  <2>1. /\ slot' = slot + PacketsPerDatagram /\ anchor # None /\ ObserveState
        /\ Report("stalled", stats'.stalls)
        /\ UNCHANGED <<now, control, anchor, target, media, buffer, deferred, pcr, content, history, datagram>>
    BY <1>3 DEF Mute, DueNow
  <2>2. /\ stats' \in [dropped : Nat, stalls : Nat, muted : Nat] /\ stalled' \in BOOLEAN
    BY <2>1, ObserveType
  <2>3. reporter' \in Reports
    BY <1>1, <2>1, <2>2, ReportType DEF States
  <2>4. LoopType'
    BY <1>1, <2>1, <2>3 DEF TypeOK, LoopType
  <2>5. ClockType'
    BY <2>1, Numbers DEF TypeOK, ClockType
  <2>6. SourceType'
    BY <2>1, <2>2 DEF TypeOK, SourceType, history
  <2>7. CountType'
    BY <2>1, <2>2 DEF TypeOK, CountType, history
  <2>8. QED
    BY <2>1, <2>4, <2>5, <2>6, <2>7, Frames DEF TypeOK, history
<1>4. CASE GiveUp
  <2>1. /\ control' = [control EXCEPT !.result = "stalled"] /\ Announce("stalled", stats.stalls)
        /\ UNCHANGED <<now, clocks, target, buffer, deferred, pcr, content, stalled, datagram, stats, history>>
    BY <1>4 DEF GiveUp
  <2>2. control' \in Control
    BY <1>1, <2>1 DEF OrNone
  <2>3. reporter' \in Reports
    BY <1>1, <2>1, ReportType DEF States
  <2>4. LoopType'
    BY <1>1, <2>1, <2>2, <2>3 DEF TypeOK, LoopType
  <2>5. QED
    BY <2>1, <2>4, Frames DEF TypeOK, history, clocks
<1>5. CASE OpenDatagram
  <2>1. /\ UNCHANGED <<now, control, anchor, slot, target, buffer, deferred, pcr, content, reporter, history>>
        /\ anchor # None /\ ObserveState
    BY <1>5 DEF OpenDatagram, DueNow
  <2>2. /\ stats' \in [dropped : Nat, stalls : Nat, muted : Nat] /\ stalled' \in BOOLEAN
    BY <2>1, ObserveType
  <2> DEFINE Media == [anchor : Nat, ticked : OrNone(Instants), credit : Nat, released : Nat]
  <2>3. media' \in Media
    <3>1. PICK rate \in ReleaseRates : media' = Advanced(rate)
      BY <1>5 DEF OpenDatagram
    <3>2. media \in Media /\ now \in Nat /\ rate \in Nat /\ now \in Instants
      BY <1>1, <2>1, Numbers DEF TypeOK, ClockType, OrNone, Instants
    <3> DEFINE last == IF media.ticked = None THEN media.anchor ELSE media.ticked
    <3>3. last \in Nat
      BY <3>2 DEF OrNone, Instants
    <3>4. CASE now >= media.anchor /\ now > last
      <4>1. media' = [media EXCEPT !.ticked = now, !.credit = @ + (now - last) * rate]
        BY <3>1, <3>4 DEF Advanced
      <4> HIDE DEF last
      <4>2. now - last \in Nat
        BY <3>2, <3>3, <3>4
      <4>3. media.credit + (now - last) * rate \in Nat
        BY <3>2, <4>2
      <4>4. QED
        BY <3>2, <4>1, <4>3 DEF OrNone
    <3>5. CASE ~(now >= media.anchor /\ now > last)
      BY <3>1, <3>2, <3>5 DEF Advanced
    <3>6. QED
      BY <3>4, <3>5
  <2>4. Authorised(media') \in Nat
    BY <2>3, Numbers DEF Authorised
  <2>5. datagram' \in [left : 1 .. PacketsPerDatagram, due : Nat, state : States]
    <3>1. datagram' = [left |-> PacketsPerDatagram, due |-> Authorised(media'), state |-> State]
      BY <1>5 DEF OpenDatagram
    <3> HIDE DEF Authorised
    <3>2. QED
      BY <1>1, <2>4, <3>1, Numbers
  <2>6. LoopType'
    BY <1>1, <2>1, <2>5 DEF TypeOK, LoopType, OrNone
  <2>7. ClockType' /\ media'.anchor # None
    BY <2>1, <2>3, Numbers DEF TypeOK, ClockType, OrNone
  <2>8. SourceType'
    BY <2>1, <2>2 DEF TypeOK, SourceType, history
  <2>9. CountType'
    BY <2>1, <2>2 DEF TypeOK, CountType, history
  <2>10. QED
    BY <2>1, <2>6, <2>7, <2>8, <2>9, Frames DEF TypeOK, history
<1>6. CASE EmitSlot
  BY <1>6, EmitSlotType
<1>7. CASE Finish
  <2>1. /\ control' = [control EXCEPT !.result = "ok"] /\ Announce(State, stats.stalls)
        /\ UNCHANGED <<now, clocks, target, buffer, deferred, pcr, content, stalled, datagram, stats, history>>
    BY <1>7 DEF Finish
  <2>2. control' \in Control
    BY <1>1, <2>1 DEF OrNone
  <2>3. reporter' \in Reports
    BY <1>1, <2>1, ReportType
  <2>4. LoopType'
    BY <1>1, <2>1, <2>2, <2>3 DEF TypeOK, LoopType
  <2>5. QED
    BY <2>1, <2>4, Frames DEF TypeOK, history, clocks
<1>8. CASE ReceiveWaiting \/ ReceiveRunning
  <2>1. /\ datagram = None /\ UNCHANGED <<now, datagram, reporter>>
        /\ \E p \in SourcePackets : Receive(p)
    BY <1>8 DEF ReceiveWaiting, ReceiveRunning, Waiting, Polling, Idle, Receive
  <2>2. control' \in Control
    BY <1>1, <1>8 DEF ReceiveWaiting, ReceiveRunning
  <2>3. LoopType'
    BY <1>1, <2>1, <2>2 DEF TypeOK, LoopType
  <2>4. QED
    BY <2>1, <2>3, ReceiveType DEF TypeOK
<1>9. CASE EndWaiting
  <2>1. /\ UNCHANGED <<now, slot, target, buffer, deferred, pcr, content, stalled, datagram,
                       reporter, stats, history>>
        /\ \/ /\ anchor' = now /\ media' = [media EXCEPT !.anchor = now]
              /\ control' = [control EXCEPT !.closing = TRUE]
           \/ control' = [control EXCEPT !.result = "ok"] /\ UNCHANGED <<anchor, media>>
    BY <1>9 DEF EndWaiting
  <2>2. control' \in Control
    BY <1>1, <2>1 DEF OrNone
  <2>3. LoopType'
    BY <1>1, <2>1, <2>2 DEF TypeOK, LoopType
  <2>4. /\ ClockType' /\ (anchor' = None <=> media'.anchor = None)
        /\ anchor # None => anchor' # None
    BY <1>1, <2>1, Numbers DEF TypeOK, ClockType, OrNone, Instants
  <2>5. QED
    BY <2>1, <2>3, <2>4, Frames DEF TypeOK, history
<1>10. CASE EndRunning \/ SourceFails
  <2>1. /\ UNCHANGED <<now, clocks, target, buffer, deferred, pcr, content, stalled, datagram,
                       reporter, stats, history>>
        /\ \/ control' = [control EXCEPT !.closing = TRUE]
           \/ control' = [control EXCEPT !.result = "failed"]
    BY <1>10 DEF EndRunning, SourceFails
  <2>2. control' \in Control
    BY <1>1, <2>1 DEF OrNone
  <2>3. LoopType'
    BY <1>1, <2>1, <2>2 DEF TypeOK, LoopType
  <2>4. QED
    BY <2>1, <2>3, Frames DEF TypeOK, history, clocks
<1>11. CASE Tick
  <2>1. /\ now' = now + 1 /\ now < Horizon
        /\ UNCHANGED <<control, clocks, target, buffer, deferred, pcr, content, stalled, datagram,
                       reporter, stats, history>>
    BY <1>11 DEF Tick
  <2>2. now' \in Instants
    BY <1>1, <2>1, Numbers DEF Instants
  <2>3. LoopType'
    BY <1>1, <2>1, <2>2 DEF TypeOK, LoopType
  <2>4. QED
    BY <2>1, <2>3, Frames DEF TypeOK, history, clocks
<1>12. CASE UNCHANGED vars
  BY <1>12, Frames DEF TypeOK, vars
<1>13. QED
  BY <1>2, <1>3, <1>4, <1>5, <1>6, <1>7, <1>8, <1>9, <1>10, <1>11, <1>12 DEF Next, Engine, Source

(* Every reachable state is well typed. *)
THEOREM TypeCorrect == Spec => []TypeOK
  BY InitType, TypeStep, PTL DEF Spec
-----------------------------------------------------------------------------
(* The queues as a packet arrives: it goes to the tail of the jitter        *)
(* buffer, whose head is dropped and counted when it is full.               *)
LEMMA EnqueueMoves ==
  ASSUME TypeOK, NEW p \in SourcePackets, input.received < MaxInput, Enqueue(p)
  PROVE  /\ input'.accepted = input.accepted + 1
         /\ \E pkt \in Packets :
              /\ pkt.id = input.accepted + 1
              /\ \/ /\ buffer'.queue = Append(buffer.queue, pkt)
                    /\ stats'.dropped = stats.dropped
                 \/ /\ buffer.queue # <<>>
                    /\ buffer'.queue = Append(Tail(buffer.queue), pkt)
                    /\ stats'.dropped = stats.dropped + 1
<1> DEFINE pkt == [id |-> input.accepted + 1, pcr |-> p.pcr, di |-> p.di]
           grown(t) == IF Adaptive THEN GrowTo(buffer, LatencyToPackets(Cap(t))) ELSE buffer
<1>1. PICK t \in Targets :
        /\ buffer' = Push(grown(t), pkt)
        /\ stats' = [stats EXCEPT !.dropped = @ + IF Full(grown(t)) THEN 1 ELSE 0]
  BY DEF Enqueue
<1>2. pkt \in Packets
  BY Numbers DEF Packets, TypeOK, SourceType
<1>3. stats.dropped \in Nat /\ stats \in [dropped : Nat, stalls : Nat, muted : Nat]
  BY DEF TypeOK, CountType
<1>4. grown(t).queue = buffer.queue /\ grown(t) \in [queue : Seq(Packets), capacity : Nat \ {0}]
  <2>1. t \in Nat
    BY Numbers
  <2>2. buffer \in [queue : Seq(Packets), capacity : Nat \ {0}]
    BY DEF TypeOK, QueueType
  <2>3. GrowTo(buffer, LatencyToPackets(Cap(t))) \in [queue : Seq(Packets), capacity : Nat \ {0}]
    BY <2>1, <2>2, DepthType, GrowType
  <2>4. GrowTo(buffer, LatencyToPackets(Cap(t))).queue = buffer.queue
    BY <2>2 DEF GrowTo
  <2>5. QED
    BY <2>2, <2>3, <2>4
<1>5. input'.accepted = input.accepted + 1
  BY DEF Enqueue
<1> HIDE DEF grown, pkt
<1>6. CASE Full(grown(t))
  <2>1. buffer.queue # <<>>
    BY <1>4, <1>6 DEF Full
  <2>2. buffer'.queue = Append(Tail(buffer.queue), pkt)
    BY <1>1, <1>4, <1>6 DEF Push
  <2>3. stats'.dropped = stats.dropped + 1
    BY <1>1, <1>3, <1>6
  <2>4. QED
    BY <1>2, <1>5, <2>1, <2>2, <2>3 DEF pkt
<1>7. CASE ~Full(grown(t))
  <2>1. buffer'.queue = Append(buffer.queue, pkt)
    BY <1>1, <1>4, <1>7 DEF Push
  <2>2. stats'.dropped = stats.dropped
    BY <1>1, <1>3, <1>7
  <2>3. QED
    BY <1>2, <1>5, <2>1, <2>2 DEF pkt
<1>8. QED
  BY <1>6, <1>7

(* The queues over a slot: the head of the jitter buffer may move to the    *)
(* tail of the deferred queue, whose head may then leave.                   *)
LEMMA SlotMoves ==
  ASSUME TypeOK, EmitSlot
  PROVE  /\ UNCHANGED <<input, stats>>
         /\ \/ buffer'.queue = buffer.queue /\ Queue = deferred
            \/ /\ buffer.queue # <<>>
               /\ buffer'.queue = Tail(buffer.queue)
               /\ Queue = Append(deferred, Head(buffer.queue))
         /\ \/ deferred' = Queue /\ sent' = sent
            \/ /\ Queue # <<>> /\ deferred' = Tail(Queue)
               /\ sent' = [count |-> sent.count + 1, last |-> Head(Queue).id]
<1>1. UNCHANGED <<input, stats>>
  BY DEF EmitSlot
<1>2. \/ buffer'.queue = buffer.queue /\ Queue = deferred
      \/ /\ buffer.queue # <<>>
         /\ buffer'.queue = Tail(buffer.queue)
         /\ Queue = Append(deferred, Head(buffer.queue))
  <2>1. buffer \in [queue : Seq(Packets), capacity : Nat \ {0}]
    BY DEF TypeOK, QueueType
  <2>2. CASE Admits
    BY <2>1, <2>2 DEF EmitSlot, Pop, Queue, Admits
  <2>3. CASE ~Admits
    BY <2>3 DEF EmitSlot, Queue
  <2>4. QED
    BY <2>2, <2>3
<1> HIDE DEF Queue
<1>3. \/ deferred' = Queue /\ sent' = sent
      \/ /\ Queue # <<>> /\ deferred' = Tail(Queue)
         /\ sent' = [count |-> sent.count + 1, last |-> Head(Queue).id]
  <2>1. CASE SendPcr
    BY <2>1 DEF SendPcr
  <2>2. CASE SendContent
    BY <2>2 DEF SendContent
  <2>3. CASE SendNull
    <3>1. Queue = <<>> /\ deferred' = deferred /\ sent' = sent
      BY <2>3 DEF SendNull
    <3>2. Queue = deferred
      BY <1>2, <3>1, AppendProperties DEF TypeOK, QueueType
    <3>3. QED
      BY <3>1, <3>2
  <2>4. QED
    BY <2>1, <2>2, <2>3 DEF EmitSlot
<1>4. QED
  BY <1>1, <1>2, <1>3

(* Every other step leaves the queues and their counters alone. *)
LEMMA OtherMoves ==
  ASSUME TypeOK, [Next]_vars
  PROVE  \/ \E p \in SourcePackets : /\ input.received < MaxInput /\ Enqueue(p)
                                     /\ UNCHANGED <<deferred, sent>>
         \/ EmitSlot
         \/ /\ UNCHANGED <<buffer, deferred, sent>>
            /\ input'.accepted = input.accepted
            /\ stats'.dropped = stats.dropped
<1>1. CASE ReceiveWaiting \/ ReceiveRunning
  <2>1. PICK p \in SourcePackets : Receive(p)
    BY <1>1 DEF ReceiveWaiting, ReceiveRunning
  <2>2. CASE p.null
    BY <2>1, <2>2 DEF Receive, TypeOK, SourceType
  <2>3. CASE ~p.null
    BY <2>1, <2>3 DEF Receive
  <2>4. QED
    BY <2>2, <2>3
<1>2. CASE Mute \/ OpenDatagram
  <2>1. ObserveState /\ UNCHANGED <<buffer, deferred, history>>
    BY <1>2 DEF Mute, OpenDatagram
  <2>2. stats'.dropped = stats.dropped
    BY <2>1 DEF ObserveState, TypeOK, CountType
  <2>3. QED
    BY <2>1, <2>2 DEF history
<1>3. CASE Silent \/ GiveUp \/ Finish \/ EndWaiting \/ EndRunning \/ SourceFails \/ Tick
  BY <1>3 DEF Silent, GiveUp, Finish, EndWaiting, EndRunning, SourceFails, Tick, history
<1>4. CASE UNCHANGED vars
  BY <1>4 DEF vars
<1>5. QED
  BY <1>1, <1>2, <1>3, <1>4 DEF Next, Engine, Source
-----------------------------------------------------------------------------
(* Every step keeps the account of the packets balanced. *)
LEMMA ConservationStep ==
  ASSUME TypeOK, Conservation, [Next]_vars
  PROVE  Conservation'
<1>1. /\ buffer.queue \in Seq(Packets) /\ deferred \in Seq(Packets)
      /\ input.accepted \in Nat /\ stats.dropped \in Nat /\ sent.count \in Nat
      /\ Len(buffer.queue) \in Nat /\ Len(deferred) \in Nat
  <2>1. buffer.queue \in Seq(Packets) /\ deferred \in Seq(Packets)
    BY DEF TypeOK, QueueType
  <2>2. Len(buffer.queue) \in Nat /\ Len(deferred) \in Nat
    BY <2>1, LenProperties
  <2>3. QED
    BY <2>1, <2>2, Numbers DEF TypeOK, SourceType, CountType
<1>2. input.accepted = sent.count + stats.dropped + (Len(buffer.queue) + Len(deferred))
  BY DEF Conservation, Held
<1> SUFFICES input'.accepted = sent'.count + stats'.dropped + (Len(buffer'.queue) + Len(deferred'))
  BY DEF Conservation, Held
<1>3. ASSUME NEW p \in SourcePackets, input.received < MaxInput, Enqueue(p),
             UNCHANGED <<deferred, sent>>
      PROVE  input'.accepted = sent'.count + stats'.dropped + (Len(buffer'.queue) + Len(deferred'))
  <2>1. PICK pkt \in Packets :
          \/ /\ buffer'.queue = Append(buffer.queue, pkt)
             /\ stats'.dropped = stats.dropped
          \/ /\ buffer.queue # <<>>
             /\ buffer'.queue = Append(Tail(buffer.queue), pkt)
             /\ stats'.dropped = stats.dropped + 1
    BY <1>3, EnqueueMoves
  <2>2. /\ input'.accepted = input.accepted + 1
        /\ sent'.count = sent.count /\ Len(deferred') = Len(deferred)
    BY <1>3 DEF Enqueue
  <2>3. \/ Len(buffer'.queue) = Len(buffer.queue) + 1 /\ stats'.dropped = stats.dropped
        \/ Len(buffer'.queue) = Len(buffer.queue) /\ stats'.dropped = stats.dropped + 1
    <3>1. Len(Append(buffer.queue, pkt)) = Len(buffer.queue) + 1
      BY <1>1, AppendProperties
    <3>2. CASE buffer.queue # <<>>
      <4>1. Tail(buffer.queue) \in Seq(Packets) /\ Len(Tail(buffer.queue)) = Len(buffer.queue) - 1
        BY <1>1, <3>2, HeadTailProperties
      <4>2. Len(Append(Tail(buffer.queue), pkt)) = Len(Tail(buffer.queue)) + 1
        BY <4>1, AppendProperties
      <4>3. Len(Append(Tail(buffer.queue), pkt)) = Len(buffer.queue)
        BY <1>1, <4>1, <4>2
      <4>4. QED
        BY <2>1, <3>1, <4>3
    <3>3. QED
      BY <2>1, <3>1, <3>2
  <2> DEFINE b == Len(buffer.queue)  b1 == Len(buffer'.queue)
             d == Len(deferred)      d1 == Len(deferred')
  <2>4. /\ b \in Nat /\ d \in Nat /\ d1 = d /\ input.accepted = sent.count + stats.dropped + (b + d)
        /\ \/ b1 = b + 1 /\ stats'.dropped = stats.dropped
           \/ b1 = b /\ stats'.dropped = stats.dropped + 1
    BY <1>1, <1>2, <2>2, <2>3
  <2> HIDE DEF b, b1, d, d1
  <2>5. input'.accepted = sent'.count + stats'.dropped + (b1 + d1)
    BY <1>1, <2>2, <2>4
  <2>6. QED
    BY <2>5 DEF b1, d1
<1>4. CASE EmitSlot
  <2>1. Queue \in Seq(Packets) /\ Len(Queue) \in Nat
    BY SlotQueues, LenProperties DEF TypeOK
  <2>2. Len(buffer'.queue) + Len(Queue) = Len(buffer.queue) + Len(deferred)
    <3>1. CASE buffer'.queue = buffer.queue /\ Queue = deferred
      BY <3>1
    <3>2. CASE /\ buffer.queue # <<>> /\ buffer'.queue = Tail(buffer.queue)
               /\ Queue = Append(deferred, Head(buffer.queue))
      <4>1. Head(buffer.queue) \in Packets /\ Len(Tail(buffer.queue)) = Len(buffer.queue) - 1
        BY <1>1, <3>2, HeadTailProperties
      <4>2. Len(Append(deferred, Head(buffer.queue))) = Len(deferred) + 1
        BY <1>1, <4>1, AppendProperties
      <4> HIDE DEF Queue
      <4>3. Len(buffer'.queue) = Len(buffer.queue) - 1 /\ Len(Queue) = Len(deferred) + 1
        BY <3>2, <4>1, <4>2
      <4> DEFINE b == Len(buffer.queue)  b1 == Len(buffer'.queue)
                 d == Len(deferred)      m  == Len(Queue)
      <4>4. b \in Nat /\ d \in Nat /\ b1 = b - 1 /\ m = d + 1
        BY <1>1, <4>3
      <4> HIDE DEF b, b1, d, m
      <4>5. b1 + m = b + d
        BY <4>4
      <4>6. QED
        BY <4>5 DEF b, b1, d, m
    <3>3. QED
      BY <1>4, <3>1, <3>2, SlotMoves
  <2> HIDE DEF Queue
  <2>3. \/ Len(deferred') = Len(Queue) /\ sent'.count = sent.count
        \/ Len(deferred') = Len(Queue) - 1 /\ sent'.count = sent.count + 1
    <3>1. CASE deferred' = Queue /\ sent' = sent
      BY <3>1
    <3>2. CASE /\ Queue # <<>> /\ deferred' = Tail(Queue)
               /\ sent' = [count |-> sent.count + 1, last |-> Head(Queue).id]
      <4>1. Len(Tail(Queue)) = Len(Queue) - 1
        BY <2>1, <3>2, HeadTailProperties
      <4>2. sent'.count = sent.count + 1
        BY <3>2
      <4>3. QED
        BY <3>2, <4>1, <4>2
    <3>3. QED
      BY <1>4, <3>1, <3>2, SlotMoves
  <2>4. input'.accepted = input.accepted /\ stats'.dropped = stats.dropped
    BY <1>4, SlotMoves
  <2>5. Len(buffer'.queue) \in Int
    <3>1. buffer'.queue \in Seq(Packets)
      BY <1>1, <1>4, SlotMoves, HeadTailProperties
    <3>2. QED
      BY <3>1, LenProperties
  <2> DEFINE b == Len(buffer.queue)  b1 == Len(buffer'.queue)  m == Len(Queue)
             d == Len(deferred)      d1 == Len(deferred')
  <2>6. /\ b \in Nat /\ d \in Nat /\ m \in Nat /\ b1 \in Int
        /\ stats.dropped \in Nat /\ sent.count \in Nat
        /\ b1 + m = b + d /\ input.accepted = sent.count + stats.dropped + (b + d)
        /\ \/ d1 = m /\ sent'.count = sent.count
           \/ d1 = m - 1 /\ sent'.count = sent.count + 1
    BY <1>1, <1>2, <2>1, <2>2, <2>3, <2>5
  <2> HIDE DEF b, b1, d, d1, m
  <2>7. input'.accepted = sent'.count + stats'.dropped + (b1 + d1)
    BY <2>4, <2>6
  <2>8. QED
    BY <2>7 DEF b1, d1
<1>5. CASE /\ UNCHANGED <<buffer, deferred, sent>>
           /\ input'.accepted = input.accepted
           /\ stats'.dropped = stats.dropped
  BY <1>2, <1>5
<1>6. QED
  BY <1>3, <1>4, <1>5, OtherMoves

(* Nothing the source delivered is lost or sent twice: it is on the wire,   *)
(* counted as dropped, or still held.                                       *)
THEOREM NothingLost == Spec => []Conservation
<1>1. Init => Conservation
  BY DEF Init, Conservation, Held, NewBuffer
<1>2. TypeOK /\ Conservation /\ [Next]_vars => Conservation'
  BY ConservationStep
<1>3. QED
  BY <1>1, <1>2, TypeCorrect, PTL DEF Spec
-----------------------------------------------------------------------------
(* A line of packets whose ids rise strictly, within bounds. *)
Rising(line, low, high) ==
  /\ low <= high
  /\ \A i \in 1 .. Len(line) : low < line[i].id /\ line[i].id <= high
  /\ \A i, j \in 1 .. Len(line) : i < j => line[i].id < line[j].id

(* The tail of a line in rising order is in rising order. *)
LEMMA RisingTail ==
  ASSUME NEW s \in Seq(Packets), s # <<>>, NEW low \in Int, NEW high \in Int, Rising(s, low, high)
  PROVE  Rising(Tail(s), Head(s).id, high) /\ Rising(Tail(s), low, high)
<1> DEFINE t == Tail(s)  n == Len(s)
<1>1. /\ n \in Nat \ {0} /\ Len(t) = n - 1 /\ Head(s) = s[1]
      /\ \A i \in 1 .. n - 1 : t[i] = s[i + 1]
      /\ \A i \in 1 .. n : s[i].id \in Int
  <2>1. n \in Nat \ {0}
    BY EmptySeq
  <2>2. Len(t) = n - 1 /\ \A i \in 1 .. Len(t) : t[i] = s[i + 1]
    BY HeadTailProperties
  <2>3. \A i \in 1 .. n : s[i].id \in Int
    <3>1. \A i \in 1 .. n : s[i] \in Packets
      BY ElementOfSeq
    <3>2. \A e \in Packets : e.id \in Int
      BY DEF Packets
    <3>3. QED
      BY <3>1, <3>2
  <2>4. QED
    BY <2>1, <2>2, <2>3
<1>2. low <= high
  BY DEF Rising
<1>3. \A i \in 1 .. n : low < s[i].id /\ s[i].id <= high
  BY DEF Rising
<1>4. \A i, j \in 1 .. n : i < j => s[i].id < s[j].id
  BY DEF Rising
<1> HIDE DEF t, n
<1>5. \A i \in 1 .. Len(t) : t[i].id = s[i + 1].id /\ i + 1 \in 1 .. n /\ 1 < i + 1 /\ 1 \in 1 .. n
  BY <1>1
<1>6. \A i \in 1 .. Len(t) : s[1].id < t[i].id /\ low < t[i].id /\ t[i].id <= high
  BY <1>3, <1>4, <1>5
<1>7. \A i, j \in 1 .. Len(t) : i < j => t[i].id < t[j].id
  <2>1. SUFFICES ASSUME NEW i \in 1 .. Len(t), NEW j \in 1 .. Len(t), i < j
                 PROVE  t[i].id < t[j].id
    OBVIOUS
  <2>2. i + 1 \in 1 .. n /\ j + 1 \in 1 .. n /\ i + 1 < j + 1
    BY <1>1, <2>1
  <2>3. QED
    BY <1>4, <1>5, <2>1, <2>2
<1>8. s[1].id <= high
  BY <1>1, <1>3
<1>9. QED
  BY <1>1, <1>2, <1>6, <1>7, <1>8 DEF Rising, t

(* A newer packet at the end of a rising line leaves it rising. *)
LEMMA RisingAppend ==
  ASSUME NEW s \in Seq(Packets), NEW p \in Packets, NEW low \in Int, NEW high \in Int,
         p.id = high + 1, Rising(s, low, high)
  PROVE  Rising(Append(s, p), low, high + 1)
<1> DEFINE t == Append(s, p)  n == Len(s)
<1>1. /\ n \in Nat /\ Len(t) = n + 1
      /\ \A i \in 1 .. n : t[i] = s[i]
      /\ t[n + 1] = p
      /\ \A i \in 1 .. n : s[i].id \in Int
  <2>1. n \in Nat
    BY LenProperties
  <2>2. Len(t) = n + 1 /\ (\A i \in 1 .. n : t[i] = s[i]) /\ t[n + 1] = p
    BY AppendProperties
  <2>3. \A i \in 1 .. n : s[i].id \in Int
    <3>1. \A i \in 1 .. n : s[i] \in Packets
      BY ElementOfSeq
    <3>2. \A e \in Packets : e.id \in Int
      BY DEF Packets
    <3>3. QED
      BY <3>1, <3>2
  <2>4. QED
    BY <2>1, <2>2, <2>3
<1>2. low <= high
  BY DEF Rising
<1>3. \A i \in 1 .. n : low < s[i].id /\ s[i].id <= high
  BY DEF Rising
<1>4. \A i, j \in 1 .. n : i < j => s[i].id < s[j].id
  BY DEF Rising
<1> HIDE DEF t, n
<1>5. \A i \in 1 .. n + 1 : i \in 1 .. n \/ i = n + 1
  BY <1>1
<1>6. \A i \in 1 .. Len(t) : low < t[i].id /\ t[i].id <= high + 1
  BY <1>1, <1>2, <1>3, <1>5
<1>7. \A i, j \in 1 .. Len(t) : i < j => t[i].id < t[j].id
  <2>1. SUFFICES ASSUME NEW i \in 1 .. Len(t), NEW j \in 1 .. Len(t), i < j
                 PROVE  t[i].id < t[j].id
    OBVIOUS
  <2>2. i \in 1 .. n
    BY <1>1, <2>1
  <2>3. CASE j \in 1 .. n
    BY <1>1, <1>4, <2>1, <2>2, <2>3
  <2>4. CASE j = n + 1
    <3>1. t[j].id = high + 1 /\ t[i].id <= high /\ t[i].id \in Int
      BY <1>1, <1>3, <2>2, <2>4
    <3>2. QED
      BY <3>1
  <2>5. QED
    BY <1>1, <1>5, <2>3, <2>4
<1>8. low <= high + 1
  BY <1>2
<1>9. QED
  BY <1>6, <1>7, <1>8 DEF Rising, t

(* Dropping the head of the second of two queues in a line leaves it rising.*)
LEMMA RisingDrop ==
  ASSUME NEW d \in Seq(Packets), NEW q \in Seq(Packets), q # <<>>,
         NEW low \in Int, NEW high \in Int, Rising(d \o q, low, high)
  PROVE  Rising(d \o Tail(q), low, high)
<1> DEFINE s == d \o q  t == d \o Tail(q)  m == Len(d)  n == Len(q)
           old(i) == IF i <= m THEN i ELSE i + 1
<1>1. m \in Nat /\ n \in Nat \ {0} /\ Len(s) = m + n /\ Len(t) = m + (n - 1)
  <2>1. m \in Nat /\ n \in Nat \ {0}
    BY LenProperties, EmptySeq
  <2>2. Len(s) = m + n
    BY ConcatProperties
  <2>3. Tail(q) \in Seq(Packets) /\ Len(Tail(q)) = n - 1
    BY HeadTailProperties
  <2>4. Len(t) = m + Len(Tail(q))
    BY <2>3, ConcatProperties
  <2>5. QED
    BY <2>1, <2>2, <2>3, <2>4
<1>2. \A i \in 1 .. Len(t) : t[i] = s[old(i)]
  <2>1. SUFFICES ASSUME NEW i \in 1 .. Len(t) PROVE t[i] = s[old(i)]
    OBVIOUS
  <2>2. Tail(q) \in Seq(Packets) /\ Len(Tail(q)) = n - 1
        /\ \A k \in 1 .. n - 1 : Tail(q)[k] = q[k + 1]
    BY HeadTailProperties
  <2>3. t[i] = IF i <= m THEN d[i] ELSE Tail(q)[i - m]
    BY <1>1, <2>2, ConcatProperties
  <2>4. old(i) \in 1 .. m + n
    BY <1>1, <2>1
  <2>5. s[old(i)] = IF old(i) <= m THEN d[old(i)] ELSE q[old(i) - m]
    BY <1>1, <2>4, ConcatProperties
  <2>6. CASE i <= m
    BY <1>1, <2>3, <2>5, <2>6
  <2>7. CASE ~(i <= m)
    <3>1. i - m \in 1 .. n - 1 /\ old(i) - m = (i - m) + 1 /\ ~(old(i) <= m)
      BY <1>1, <2>1, <2>7
    <3> HIDE DEF t, s, old
    <3>2. t[i] = q[(i - m) + 1]
      BY <2>2, <2>3, <2>7, <3>1
    <3>3. QED
      BY <2>5, <3>1, <3>2
  <2>8. QED
    BY <2>6, <2>7
<1>3. low <= high
  BY DEF Rising
<1>4. \A i \in 1 .. Len(s) : low < s[i].id /\ s[i].id <= high
  BY DEF Rising
<1>5. \A i, j \in 1 .. Len(s) : i < j => s[i].id < s[j].id
  BY DEF Rising
<1> HIDE DEF s, t, m, n
<1>6. \A i \in 1 .. Len(t) : old(i) \in 1 .. Len(s)
  BY <1>1
<1>7. \A i, j \in 1 .. Len(t) : i < j => old(i) < old(j)
  BY <1>1
<1> HIDE DEF old
<1>8. \A i \in 1 .. Len(t) : low < t[i].id /\ t[i].id <= high
  BY <1>2, <1>4, <1>6
<1>9. \A i, j \in 1 .. Len(t) : i < j => t[i].id < t[j].id
  BY <1>2, <1>5, <1>6, <1>7
<1>10. QED
  BY <1>3, <1>8, <1>9 DEF Rising, t

(* Moving the head of one queue to the tail of the one before it changes    *)
(* nothing in the line.                                                     *)
LEMMA LineOfMove ==
  ASSUME NEW d \in Seq(Packets), NEW q \in Seq(Packets), q # <<>>
  PROVE  Append(d, Head(q)) \o Tail(q) = d \o q
<1>1. Head(q) \in Packets /\ Tail(q) \in Seq(Packets)
  BY HeadTailProperties
<1>2. Append(d, Head(q)) = d \o <<Head(q)>>
  BY <1>1, AppendIsConcat
<1>3. (d \o <<Head(q)>>) \o Tail(q) = d \o (<<Head(q)>> \o Tail(q))
  BY <1>1, ConcatAssociative
<1>4. <<Head(q)>> \o Tail(q) = q
  <2>1. Len(q) \in Nat \ {0} /\ SubSeq(q, 1, Len(q)) = q
    BY EmptySeq, SubSeqFull
  <2>2. SubSeq(q, 1, Len(q)) = <<q[1]>> \o SubSeq(q, 2, Len(q))
    BY <2>1, SubSeqRecursiveFirst
  <2>3. Tail(q) = SubSeq(q, 2, Len(q)) /\ Head(q) = q[1]
    BY <2>1, TailIsSubSeq
  <2>4. QED
    BY <2>1, <2>2, <2>3
<1>5. QED
  BY <1>2, <1>3, <1>4

(* Sending the head of the deferred queue takes the head of the line. *)
LEMMA LineOfTail ==
  ASSUME NEW d \in Seq(Packets), NEW q \in Seq(Packets), d # <<>>
  PROVE  /\ d \o q \in Seq(Packets) /\ d \o q # <<>>
         /\ Head(d \o q) = Head(d) /\ Tail(d \o q) = Tail(d) \o q
<1>1. /\ Head(d) \in Packets /\ Tail(d) \in Seq(Packets) /\ Len(Tail(d)) = Len(d) - 1
      /\ \A i \in 1 .. Len(d) - 1 : Tail(d)[i] = d[i + 1]
  BY HeadTailProperties
<1>2. Len(d) \in Nat \ {0} /\ Len(q) \in Nat
  BY EmptySeq, LenProperties
<1>3. /\ d \o q \in Seq(Packets) /\ Len(d \o q) = Len(d) + Len(q)
      /\ \A i \in 1 .. Len(d) + Len(q) : (d \o q)[i] = IF i <= Len(d) THEN d[i] ELSE q[i - Len(d)]
  BY ConcatProperties
<1> DEFINE s == d \o q  m == Len(d)  n == Len(q)
<1>4. s # <<>>
  <2>1. Len(s) # 0
    BY <1>2, <1>3
  <2>2. QED
    BY <2>1, EmptySeq
<1>5. Head(s) = Head(d)
  <2>1. (d \o q)[1] = d[1]
    BY <1>2, <1>3
  <2>2. QED
    BY <1>2, <1>4, <2>1
<1>6. /\ Tail(s) \in Seq(Packets) /\ Len(Tail(s)) = Len(s) - 1
      /\ \A i \in 1 .. Len(Tail(s)) : Tail(s)[i] = s[i + 1]
  BY <1>3, <1>4, HeadTailProperties
<1>7. /\ Tail(d) \o q \in Seq(Packets) /\ Len(Tail(d) \o q) = Len(Tail(d)) + n
      /\ \A i \in 1 .. Len(Tail(d)) + n :
           (Tail(d) \o q)[i] = IF i <= Len(Tail(d)) THEN Tail(d)[i] ELSE q[i - Len(Tail(d))]
  BY <1>1, ConcatProperties
<1>8. Tail(s) = Tail(d) \o q
  <2> DEFINE u == Tail(s)  v == Tail(d) \o q  w == Tail(d)
  <2>1. m \in Nat \ {0} /\ n \in Nat /\ Len(s) = m + n /\ Len(w) = m - 1
    BY <1>1, <1>2, <1>3
  <2>2. u \in Seq(Packets) /\ v \in Seq(Packets) /\ Len(u) = m + n - 1 /\ Len(v) = m + n - 1
    BY <1>6, <1>7, <2>1
  <2>3. \A i \in 1 .. m + n - 1 : u[i] = s[i + 1]
    BY <1>6, <2>1
  <2>4. \A i \in 1 .. m + n - 1 : v[i] = IF i <= m - 1 THEN w[i] ELSE q[i - (m - 1)]
    BY <1>7, <2>1
  <2>5. \A i \in 1 .. m + n : s[i] = IF i <= m THEN d[i] ELSE q[i - m]
    BY <1>3
  <2>6. \A i \in 1 .. m - 1 : w[i] = d[i + 1]
    BY <1>1
  <2> HIDE DEF u, v, w, s, m, n
  <2>7. \A i \in 1 .. m + n - 1 : u[i] = v[i]
    <3>1. SUFFICES ASSUME NEW i \in 1 .. m + n - 1 PROVE u[i] = v[i]
      OBVIOUS
    <3>2. i + 1 \in 1 .. m + n /\ (i + 1) - m = i - (m - 1)
      BY <2>1, <3>1
    <3>3. u[i] = IF i + 1 <= m THEN d[i + 1] ELSE q[i - (m - 1)]
      BY <2>3, <2>5, <3>1, <3>2
    <3>4. CASE i <= m - 1
      BY <2>1, <2>4, <2>6, <3>1, <3>3, <3>4
    <3>5. CASE ~(i <= m - 1)
      BY <2>1, <2>4, <3>1, <3>3, <3>5
    <3>6. QED
      BY <3>4, <3>5
  <2>8. u = v
    BY <2>2, <2>7, SeqEqual
  <2>9. QED
    BY <2>8 DEF u, v, s
<1>9. QED
  BY <1>3, <1>4, <1>5, <1>8

(* A packet pushed to the buffer is the new end of the line. *)
LEMMA LineOfArrival ==
  ASSUME NEW d \in Seq(Packets), NEW q \in Seq(Packets), NEW p \in Packets
  PROVE  d \o Append(q, p) = Append(d \o q, p)
<1>1. d \o q \in Seq(Packets)
  BY ConcatProperties
<1>2. Append(q, p) = q \o <<p>> /\ Append(d \o q, p) = (d \o q) \o <<p>>
  BY <1>1, AppendIsConcat
<1>3. <<p>> \in Seq(Packets)
  OBVIOUS
<1>4. QED
  BY <1>2, <1>3, ConcatAssociative
-----------------------------------------------------------------------------
(* InOrder is not inductive on its own: a packet must also be known to be   *)
(* younger than all that was sent, and no older than the last accepted.     *)
OrderInv == Rising(Line, sent.last, input.accepted)

(* Every step keeps the line in rising order behind the last one sent. *)
LEMMA OrderStep ==
  ASSUME TypeOK, OrderInv, [Next]_vars
  PROVE  OrderInv'
<1>1. /\ buffer.queue \in Seq(Packets) /\ deferred \in Seq(Packets)
      /\ deferred \o buffer.queue \in Seq(Packets)
      /\ sent.last \in Int /\ input.accepted \in Int
  BY ConcatProperties DEF TypeOK, QueueType, CountType, SourceType
<1>2. Rising(deferred \o buffer.queue, sent.last, input.accepted)
  BY DEF OrderInv, Line
<1> SUFFICES Rising(deferred' \o buffer'.queue, sent'.last, input'.accepted)
  BY DEF OrderInv, Line, Rising
<1>3. ASSUME NEW p \in SourcePackets, input.received < MaxInput, Enqueue(p),
             UNCHANGED <<deferred, sent>>
      PROVE  Rising(deferred' \o buffer'.queue, sent'.last, input'.accepted)
  <2>1. PICK pkt \in Packets :
          /\ pkt.id = input.accepted + 1
          /\ \/ buffer'.queue = Append(buffer.queue, pkt)
             \/ buffer.queue # <<>> /\ buffer'.queue = Append(Tail(buffer.queue), pkt)
    BY <1>3, EnqueueMoves
  <2>2. input'.accepted = input.accepted + 1 /\ deferred' = deferred /\ sent' = sent
    BY <1>3 DEF Enqueue
  <2>3. CASE buffer'.queue = Append(buffer.queue, pkt)
    <3>1. Rising(Append(deferred \o buffer.queue, pkt), sent.last, input.accepted + 1)
      BY <1>1, <1>2, <2>1, RisingAppend
    <3>2. deferred \o Append(buffer.queue, pkt) = Append(deferred \o buffer.queue, pkt)
      BY <1>1, LineOfArrival
    <3>3. deferred' \o buffer'.queue = Append(deferred \o buffer.queue, pkt)
      BY <2>2, <2>3, <3>2
    <3>4. QED
      BY <2>2, <3>1, <3>3
  <2>4. CASE buffer.queue # <<>> /\ buffer'.queue = Append(Tail(buffer.queue), pkt)
    <3>1. Tail(buffer.queue) \in Seq(Packets) /\ deferred \o Tail(buffer.queue) \in Seq(Packets)
      BY <1>1, <2>4, HeadTailProperties, ConcatProperties
    <3>2. Rising(deferred \o Tail(buffer.queue), sent.last, input.accepted)
      BY <1>1, <1>2, <2>4, RisingDrop
    <3>3. Rising(Append(deferred \o Tail(buffer.queue), pkt), sent.last, input.accepted + 1)
      BY <1>1, <2>1, <3>1, <3>2, RisingAppend
    <3>4. deferred \o Append(Tail(buffer.queue), pkt) = Append(deferred \o Tail(buffer.queue), pkt)
      BY <1>1, <3>1, LineOfArrival
    <3>5. deferred' \o buffer'.queue = Append(deferred \o Tail(buffer.queue), pkt)
      BY <2>2, <2>4, <3>4, Zenon
    <3>6. sent'.last = sent.last
      BY <2>2
    <3>7. QED
      BY <2>2, <3>3, <3>5, <3>6, Zenon
  <2>5. QED
    BY <2>1, <2>3, <2>4
<1>4. CASE EmitSlot
  <2>1. Queue \in Seq(Packets)
    BY SlotQueues DEF TypeOK
  <2>2. Queue \o buffer'.queue = deferred \o buffer.queue /\ buffer'.queue \in Seq(Packets)
    BY <1>1, <1>4, SlotMoves, LineOfMove, HeadTailProperties
  <2>3. input' = input
    BY <1>4, SlotMoves
  <2> HIDE DEF Queue
  <2>4. CASE deferred' = Queue /\ sent' = sent
    BY <1>2, <2>2, <2>3, <2>4
  <2>5. CASE /\ Queue # <<>> /\ deferred' = Tail(Queue)
             /\ sent' = [count |-> sent.count + 1, last |-> Head(Queue).id]
    <3> DEFINE line == Queue \o buffer'.queue
    <3>1. /\ line \in Seq(Packets) /\ line # <<>>
          /\ Head(line) = Head(Queue) /\ Tail(line) = Tail(Queue) \o buffer'.queue
      BY <2>1, <2>2, <2>5, LineOfTail
    <3>2. Rising(line, sent.last, input.accepted)
      BY <1>2, <2>2
    <3> HIDE DEF line
    <3>3. Rising(Tail(line), Head(line).id, input.accepted)
      BY <1>1, <3>1, <3>2, RisingTail
    <3>4. sent'.last = Head(line).id
      BY <2>5, <3>1
    <3>5. Tail(line) = deferred' \o buffer'.queue
      BY <2>5, <3>1
    <3>6. input'.accepted = input.accepted
      BY <2>3
    <3>7. QED
      BY <3>3, <3>4, <3>5, <3>6
  <2>6. QED
    BY <1>4, <2>4, <2>5, SlotMoves
<1>5. CASE /\ UNCHANGED <<buffer, deferred, sent>>
           /\ input'.accepted = input.accepted
  BY <1>2, <1>5
<1>6. QED
  BY <1>3, <1>4, <1>5, OtherMoves

(* What is held leaves in the order it arrived and after all that has left: *)
(* neither a PCR that takes a packet's slot nor an overrun reorders it.     *)
THEOREM NothingReordered == Spec => []InOrder
<1>1. Init => OrderInv
  <2> SUFFICES ASSUME Init PROVE OrderInv
    OBVIOUS
  <2>1. deferred \o buffer.queue = <<>> /\ sent.last = 0 /\ input.accepted = 0
    BY DEF Init, NewBuffer
  <2>2. QED
    BY <2>1 DEF OrderInv, Line, Rising
<1>2. TypeOK /\ OrderInv /\ [Next]_vars => OrderInv'
  BY OrderStep
<1>3. OrderInv => InOrder
  BY DEF OrderInv, Rising, InOrder
<1>4. QED
  BY <1>1, <1>2, <1>3, TypeCorrect, PTL DEF Spec
-----------------------------------------------------------------------------
(* A run that has returned takes no further step. *)
LEMMA Returned == ~Running /\ [Next]_vars => UNCHANGED vars
  BY DEF Next, Engine, Source, Silent, Mute, GiveUp, OpenDatagram, EmitSlot, Finish, DueNow,
         ReceiveWaiting, ReceiveRunning, EndWaiting, EndRunning, SourceFails, Tick, Waiting,
         Polling, Idle

CleanInv == control.result = "ok" => ~HasPending

(* Every step keeps a finished run empty. *)
LEMMA CleanStep ==
  ASSUME TypeOK, CleanInv, [Next]_vars
  PROVE  CleanInv'
<1>1. CASE control.result = "ok"
  <2>1. UNCHANGED vars
    BY <1>1, Returned, Numbers DEF Running
  <2>2. QED
    BY <2>1 DEF vars, CleanInv, HasPending, Held
<1>2. CASE control.result # "ok" /\ EndWaiting
  <2>1. control'.result = "ok" => ~HasPending
    BY <1>2 DEF EndWaiting, TypeOK, LoopType
  <2>2. UNCHANGED <<buffer, deferred>>
    BY <1>2 DEF EndWaiting
  <2>3. QED
    BY <2>1, <2>2 DEF CleanInv, HasPending, Held
<1>3. CASE Finish
  BY <1>3 DEF Finish, Drained, CleanInv, HasPending, Held
<1>4. CASE control.result # "ok" /\ ~EndWaiting /\ ~Finish
  <2>1. control'.result # "ok"
    <3>1. control \in [closing : BOOLEAN, result : OrNone({"ok", "stalled", "failed"}), since : Instants]
      BY DEF TypeOK, LoopType
    <3>2. CASE Silent \/ GiveUp \/ EndRunning \/ SourceFails \/ ReceiveWaiting
      BY <1>4, <3>1, <3>2, Numbers DEF Silent, GiveUp, EndRunning, SourceFails, ReceiveWaiting
    <3>3. CASE EmitSlot
      BY <1>4, <3>1, <3>3 DEF EmitSlot
    <3>4. CASE Mute \/ OpenDatagram \/ ReceiveRunning \/ Tick \/ UNCHANGED vars
      BY <1>4, <3>4 DEF Mute, OpenDatagram, ReceiveRunning, Tick, vars
    <3>5. QED
      BY <1>4, <3>2, <3>3, <3>4 DEF Next, Engine, Source
  <2>2. QED
    BY <2>1 DEF CleanInv
<1>5. QED
  BY <1>1, <1>2, <1>3, <1>4

(* A run that ends well has put out, or counted as dropped, every packet it *)
(* was given.                                                               *)
THEOREM EndsEmpty == Spec => []CleanEnd
<1>1. Init => CleanInv
  BY Numbers DEF Init, CleanInv
<1>2. TypeOK /\ CleanInv /\ [Next]_vars => CleanInv'
  BY CleanStep
<1>3. TypeOK /\ Conservation /\ CleanInv => CleanEnd
  <2> SUFFICES ASSUME TypeOK, Conservation, CleanInv, control.result = "ok"
               PROVE  input.accepted = sent.count + stats.dropped
    BY DEF CleanEnd
  <2>1. Held \in Nat
    BY LenProperties DEF Held, TypeOK, QueueType
  <2>2. Held = 0
    BY <2>1 DEF CleanInv, HasPending
  <2>3. QED
    BY <2>2 DEF Conservation, TypeOK, CountType
<1>4. QED
  BY <1>1, <1>2, <1>3, TypeCorrect, NothingLost, PTL DEF Spec
-----------------------------------------------------------------------------
(* A stall, once the engine has taken note of it, is still what the input   *)
(* is doing: nothing but content lifts the silence.  And the engine's own   *)
(* record of the last arrival is that of the source.                        *)
StallInv == /\ stalled => State = "stalled"
            /\ content.last = input.at

(* The state the loop reads depends on these fields alone. *)
LEMMA StateKept ==
  ASSUME UNCHANGED <<now, anchor, target, content, buffer, deferred>>
  PROVE  State' = State
  BY DEF State, Started, HasPending, Held, Overdue, SilentFor, StallTimeout

(* Every step keeps what the stall bookkeeping rests on. *)
LEMMA StallStep ==
  ASSUME TypeOK, StallInv, [Next]_vars
  PROVE  StallInv'
<1>1. CASE ReceiveWaiting \/ ReceiveRunning
  <2>1. PICK p \in SourcePackets : Receive(p)
    BY <1>1 DEF ReceiveWaiting, ReceiveRunning
  <2>2. CASE p.null
    <3>1. /\ UNCHANGED <<now, anchor, target, content, buffer, deferred, stalled>>
          /\ input'.at = input.at
      BY <2>1, <2>2 DEF Receive, TypeOK, SourceType
    <3>2. QED
      BY <3>1, StateKept DEF StallInv
  <2>3. CASE ~p.null
    <3>1. stalled' = FALSE /\ content'.last = now /\ input'.at = now
      BY <2>1, <2>3 DEF Receive, Enqueue
    <3>2. QED
      BY <3>1 DEF StallInv
  <2>4. QED
    BY <2>2, <2>3
<1>2. CASE Mute \/ OpenDatagram
  <2>1. /\ UNCHANGED <<now, anchor, target, content, buffer, deferred>>
        /\ stalled' = (State = "stalled") /\ input' = input
    BY <1>2 DEF Mute, OpenDatagram, ObserveState, history
  <2>2. QED
    BY <2>1, StateKept DEF StallInv
<1>3. CASE EmitSlot
  <2>1. UNCHANGED <<now, anchor, target, content, stalled, input>>
    BY <1>3 DEF EmitSlot
  <2>2. CASE stalled
    <3>1. State = "stalled" /\ ~HasPending
      BY <2>2 DEF StallInv, State
    <3>2. buffer.queue = <<>> /\ deferred = <<>>
      <4>1. buffer.queue \in Seq(Packets) /\ deferred \in Seq(Packets)
        BY DEF TypeOK, QueueType
      <4>2. Len(buffer.queue) \in Nat /\ Len(deferred) \in Nat
        BY <4>1, LenProperties
      <4>3. Len(buffer.queue) = 0 /\ Len(deferred) = 0
        BY <3>1, <4>2 DEF HasPending, Held
      <4>4. QED
        BY <4>1, <4>3, EmptySeq
    <3>3. buffer' = buffer /\ deferred' = deferred
      BY <1>3, <3>2 DEF EmitSlot, Admits, Queue, SendPcr, SendContent, SendNull
    <3>4. State' = State
      BY <2>1, <3>3, StateKept
    <3>5. QED
      BY <2>1, <3>1, <3>4 DEF StallInv
  <2>3. CASE ~stalled
    BY <2>1, <2>3 DEF StallInv
  <2>4. QED
    BY <2>2, <2>3
<1>4. CASE Silent \/ EndWaiting
  <2>1. anchor = None /\ UNCHANGED <<stalled, content, input>>
    BY <1>4 DEF Silent, EndWaiting, Waiting, history
  <2>2. ~stalled
    BY <2>1 DEF TypeOK
  <2>3. QED
    BY <2>1, <2>2 DEF StallInv
<1>5. CASE GiveUp \/ Finish \/ EndRunning \/ SourceFails
  <2>1. UNCHANGED <<now, anchor, target, content, buffer, deferred, stalled, input>>
    BY <1>5 DEF GiveUp, Finish, EndRunning, SourceFails, clocks, history
  <2>2. QED
    BY <2>1, StateKept DEF StallInv
<1>6. CASE Tick
  <2>1. /\ UNCHANGED <<anchor, target, content, buffer, deferred, stalled, input>>
        /\ now' = now + 1
    BY <1>6 DEF Tick, clocks, history
  <2>2. CASE stalled
    <3>1. Started /\ ~HasPending /\ Overdue /\ State = "stalled"
      BY <2>2 DEF StallInv, State
    <3>2. now \in Nat /\ anchor \in Nat /\ content.last \in Nat /\ StallTimeout \in Nat
      BY <3>1, Numbers
      DEF TypeOK, LoopType, ClockType, SourceType, OrNone, Instants, Started, StallTimeout
    <3>3. ~HasPending' /\ StallTimeout' = StallTimeout
      BY <2>1, <3>1 DEF HasPending, Held, StallTimeout
    <3>4. Started'
      BY <2>1, <3>1, <3>2 DEF Started
    <3>5. Overdue'
      <4>1. StallKind # "off" /\ now - content.last >= StallTimeout
        BY <3>1 DEF Overdue, SilentFor, Started
      <4>2. now' - content.last >= StallTimeout
        BY <2>1, <3>2, <4>1
      <4>3. SilentFor' = now' - content.last
        BY <2>1, <3>1 DEF SilentFor, Started
      <4>4. QED
        BY <3>3, <4>1, <4>2, <4>3 DEF Overdue
    <3>6. State' = "stalled"
      BY <3>3, <3>4, <3>5 DEF State
    <3>7. QED
      BY <2>1, <3>6 DEF StallInv
  <2>3. CASE ~stalled
    BY <2>1, <2>3 DEF StallInv
  <2>4. QED
    BY <2>2, <2>3
<1>7. CASE UNCHANGED vars
  BY <1>7, StateKept DEF StallInv, vars
<1>8. QED
  BY <1>1, <1>2, <1>3, <1>4, <1>5, <1>6, <1>7 DEF Next, Engine, Source

(* A stall the engine took note of lasts until content ends it. *)
THEOREM StallKept == Spec => []StallInv
<1>1. Init => StallInv
  BY DEF Init, StallInv
<1>2. QED
  BY <1>1, StallStep, TypeCorrect, PTL DEF Spec

(* Only content ends a stall. *)
THEOREM OnlyContentResumes == Spec => StallEndsWithContent
<1>1. ASSUME TypeOK, StallInv, [Next]_vars, stalled, ~stalled'
      PROVE  input'.accepted > input.accepted
  <2>1. CASE \E p \in SourcePackets : Receive(p)
    <3>1. PICK p \in SourcePackets : Receive(p)
      BY <2>1
    <3>2. Enqueue(p)
      BY <1>1, <3>1 DEF Receive
    <3>3. QED
      BY <1>1, <3>2 DEF Enqueue, TypeOK, SourceType
  <2>2. CASE Mute \/ OpenDatagram
    BY <1>1, <2>2 DEF Mute, OpenDatagram, ObserveState, StallInv
  <2>3. CASE EmitSlot \/ Silent \/ EndWaiting \/ GiveUp \/ Finish \/ EndRunning \/ SourceFails
             \/ Tick \/ UNCHANGED vars
    BY <1>1, <2>3 DEF EmitSlot, Silent, EndWaiting, GiveUp, Finish, EndRunning, SourceFails,
                      Tick, vars
  <2>4. QED
    BY <1>1, <2>1, <2>2, <2>3 DEF Next, Engine, Source, ReceiveWaiting, ReceiveRunning
<1>2. TypeOK /\ StallInv /\ [Next]_vars
        => [stalled /\ ~stalled' => input'.accepted > input.accepted]_vars
  BY <1>1
<1>3. QED
  BY <1>2, TypeCorrect, StallKept, PTL DEF Spec, StallEndsWithContent

(* A slot is muted exactly when the source is gone. *)
THEOREM MutesExactlyTheDead == Spec => MuteExactlyWhenGone
<1> DEFINE A == /\ slot' # slot /\ datagram = None => Gone
                /\ datagram = None /\ datagram' # None /\ StallPolicy = "mute" => ~Gone
<1>1. ASSUME TypeOK, StallInv, DueNow
      PROVE  Dead <=> Gone
  <2>1. anchor # None /\ content.last = input.at
    BY <1>1 DEF DueNow, StallInv
  <2>2. State = "stalled" <=> Started /\ ~HasPending /\ Overdue
    BY DEF State
  <2>3. Started <=> input.at # None /\ now >= anchor
    BY <2>1 DEF Started
  <2>4. input.at # None => SilentFor = now - input.at
    BY <2>1 DEF SilentFor
  <2>5. QED
    BY <2>2, <2>3, <2>4 DEF Dead, Gone, Overdue
<1>2. ASSUME TypeOK, StallInv, [Next]_vars PROVE A
  <2>1. CASE Mute
    BY <1>1, <1>2, <2>1 DEF Mute
  <2>2. CASE OpenDatagram
    BY <1>1, <1>2, <2>2 DEF OpenDatagram
  <2>3. CASE EmitSlot
    BY <2>3 DEF EmitSlot
  <2>4. CASE Silent \/ EndWaiting \/ GiveUp \/ Finish \/ EndRunning \/ SourceFails
             \/ ReceiveWaiting \/ ReceiveRunning \/ Tick \/ UNCHANGED vars
    BY <2>4 DEF Silent, EndWaiting, GiveUp, Finish, EndRunning, SourceFails, ReceiveWaiting,
                ReceiveRunning, Receive, Tick, vars, clocks
  <2>5. QED
    BY <1>2, <2>1, <2>2, <2>3, <2>4 DEF Next, Engine, Source
<1>3. TypeOK /\ StallInv /\ [Next]_vars => [A]_vars
  BY <1>2
<1>4. QED
  BY <1>3, TypeCorrect, StallKept, PTL DEF Spec, MuteExactlyWhenGone
=============================================================================
