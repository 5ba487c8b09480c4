-------------------------- MODULE PushHandle_proof --------------------------
(***************************************************************************)
(* The push handle frames what its tasks push as one byte stream, for any  *)
(* number of tasks and any interleaving of their calls: each step of the   *)
(* handle is a step of Packetizer or none.                                 *)
(***************************************************************************)
EXTENDS PushHandle, SequenceTheorems, FiniteSetTheorems, WellFoundedInduction, TLAPS

USE PushHandleAssumption

(* What a byte may be; no proof of the framing asks.                        *)
Bytes == DOMAIN PcrOf

(* What is left of the stream is the partial buffer from the scan on.       *)
PartialInv ==
  /\ stream \in [Pushers -> Seq(Bytes)]
  /\ fed \in Seq(Bytes) /\ partial \in Seq(Bytes)
  /\ Len(partial) <= Len(fed)
  /\ offset \in 0..Len(partial)
  /\ lock = Nobody => offset = 0
  /\ \A i \in 1..Len(partial) : partial[i] = fed[Len(fed) - Len(partial) + i]

At == Len(fed) - Len(partial) + offset

(* Every action but the four of the split leaves the framing alone.         *)
framing == <<stream, fed, partial, offset, lock, cut>>

LEMMA InitPartial == Init => PartialInv
  BY DEF Init, PartialInv, Bytes

(* A push appends to the stream and to the partial buffer alike.            *)
LEMMA PushAppends ==
  ASSUME PartialInv, NEW data \in Seq(Bytes), Len(data) > 0
  PROVE  /\ partial \o data \in Seq(Bytes) /\ Len(partial \o data) = Len(partial) + Len(data)
         /\ fed \o data \in Seq(Bytes) /\ Len(fed \o data) = Len(fed) + Len(data)
         /\ \A i \in 1..Len(fed) : (fed \o data)[i] = fed[i]
         /\ \A i \in 1..(Len(partial) + Len(data)) :
              (partial \o data)[i] = (fed \o data)[Len(fed) - Len(partial) + i]
<1>1. fed \in Seq(Bytes) /\ partial \in Seq(Bytes) /\ Len(partial) <= Len(fed)
  BY DEF PartialInv
<1>2. partial \o data \in Seq(Bytes) /\ Len(partial \o data) = Len(partial) + Len(data)
  BY <1>1, ConcatProperties
<1>3. fed \o data \in Seq(Bytes) /\ Len(fed \o data) = Len(fed) + Len(data)
  BY <1>1, ConcatProperties
<1>4. \A i \in 1..Len(fed) : (fed \o data)[i] = fed[i]
  BY <1>1
<1>5. ASSUME NEW i \in 1..(Len(partial) + Len(data))
      PROVE  (partial \o data)[i] = (fed \o data)[Len(fed) - Len(partial) + i]
  <2>1. CASE i <= Len(partial)
    BY <1>1, <2>1, SMTT(30) DEF PartialInv
  <2>2. CASE i > Len(partial)
    <3>1. (partial \o data)[i] = data[i - Len(partial)]
      BY <1>1, <2>2
    <3>2. (fed \o data)[Len(fed) - Len(partial) + i] = data[i - Len(partial)]
      <4> DEFINE j == Len(fed) - Len(partial) + i
      <4>1. /\ j \in 1..(Len(fed) + Len(data)) /\ ~(j <= Len(fed))
            /\ j - Len(fed) = i - Len(partial)
        BY <1>1, <2>2
      <4> HIDE DEF j
      <4>2. (fed \o data)[j] = data[j - Len(fed)]
        BY <1>1, <4>1, ConcatProperties
      <4> QED BY <4>1, <4>2 DEF j
    <3> QED BY <3>1, <3>2
  <2>3. i <= Len(partial) \/ i > Len(partial)
    BY <1>1
  <2> QED BY <2>1, <2>2, <2>3
<1> QED BY <1>2, <1>3, <1>4, <1>5

(* The split's end drops what was scanned from the front.                   *)
LEMMA DrainKeepsRest ==
  ASSUME PartialInv
  PROVE  /\ Undrained \in Seq(Bytes) /\ Len(Undrained) = Len(partial) - offset
         /\ \A i \in 1..Len(Undrained) : Undrained[i] = partial[offset + i]
<1>1. partial \in Seq(Bytes) /\ offset \in 0..Len(partial) /\ Len(partial) \in Nat
  BY DEF PartialInv
<1>2. offset + 1 \in 1..(Len(partial) + 1)
  BY <1>1
<1>3. Undrained \in Seq(Bytes)
  BY <1>1, <1>2, SubSeqProperties DEF Undrained
<1>4. Len(Undrained) = Len(partial) - offset
  BY <1>1 DEF Undrained
<1>5. \A i \in 1..Len(Undrained) : Undrained[i] = partial[offset + i]
  BY <1>1, <1>4, SMTT(30) DEF Undrained
<1> QED BY <1>3, <1>4, <1>5

LEMMA SplitActions ==
  ASSUME PartialInv, [Next]_vars
  PROVE  \/ UNCHANGED framing
         \/ \E p \in Pushers : PushBytes(p) \/ PushPackets(p) \/ Split(p)
  BY Zenon DEF Next, vars, handle, engine, framing, Sends, Send, PushReturnsOk, PushFails, Cancel,
         Close, Engine, Gathers, CutsShort, Takes, TakesEnd, Emit, Finish, FailsSilent, SinkFails

(* A push takes the front of the task's bytes.                              *)
LEMMA PushTakes ==
  ASSUME PartialInv, NEW p \in Pushers, PushBytes(p)
  PROVE  \E data \in Seq(Bytes) :
           /\ Len(data) > 0
           /\ partial' = partial \o data /\ fed' = fed \o data
           /\ offset' = 0 /\ lock = Nobody /\ lock' = p /\ cut' = cut
           /\ stream' \in [Pushers -> Seq(Bytes)]
<1>1. PICK n \in 1..Len(stream[p]) :
        /\ partial' = partial \o SubSeq(stream[p], 1, n)
        /\ fed' = fed \o SubSeq(stream[p], 1, n)
        /\ stream' = [stream EXCEPT ![p] = SubSeq(@, n + 1, Len(@))]
  BY DEF PushBytes
<1>2. stream[p] \in Seq(Bytes) /\ Len(stream[p]) \in Nat
  BY DEF PartialInv
<1>a. n \in Nat \ {0} /\ n <= Len(stream[p])
  BY <1>2
<1>b. \A i \in 1..Len(stream[p]) : stream[p][i] \in Bytes
  BY <1>2, ElementOfSeq
<1>3. SubSeq(stream[p], 1, n) \in Seq(Bytes) /\ Len(SubSeq(stream[p], 1, n)) = n
  <2>1. \A i \in 1..n : stream[p][i] \in Bytes
    BY <1>2, <1>a, <1>b
  <2> QED BY <1>a, <2>1, SubSeqProperties
<1>4. SubSeq(stream[p], n + 1, Len(stream[p])) \in Seq(Bytes)
  <2>1. \A i \in (n + 1)..Len(stream[p]) : stream[p][i] \in Bytes
    BY <1>2, <1>a, <1>b
  <2>2. n + 1 \in Int /\ Len(stream[p]) \in Int
    BY <1>2, <1>a
  <2> QED BY <2>1, <2>2, SubSeqProperties
<1>5. stream' \in [Pushers -> Seq(Bytes)]
  <2>1. stream \in [Pushers -> Seq(Bytes)]
    BY DEF PartialInv
  <2> QED BY <1>1, <1>4, <2>1
<1>6. offset' = 0 /\ lock = Nobody /\ lock' = p /\ cut' = cut
  BY DEF PushBytes
<1>7. Len(SubSeq(stream[p], 1, n)) > 0
  BY <1>1, <1>3
<1> QED BY <1>1, <1>3, <1>5, <1>6, <1>7

LEMMA NextPartial == PartialInv /\ [Next]_vars => PartialInv'
<1> SUFFICES ASSUME PartialInv, [Next]_vars PROVE PartialInv'
  OBVIOUS
<1>1. CASE UNCHANGED framing
  BY <1>1 DEF framing, PartialInv
<1>2. ASSUME NEW p \in Pushers, PushBytes(p) PROVE PartialInv'
  <2>1. PICK data \in Seq(Bytes) :
          /\ Len(data) > 0
          /\ partial' = partial \o data /\ fed' = fed \o data
          /\ offset' = 0 /\ lock' = p
          /\ stream' \in [Pushers -> Seq(Bytes)]
    BY <1>2, PushTakes
  <2>2. /\ partial' \in Seq(Bytes) /\ Len(partial') = Len(partial) + Len(data)
        /\ fed' \in Seq(Bytes) /\ Len(fed') = Len(fed) + Len(data)
        /\ \A i \in 1..Len(partial') : partial'[i] = fed'[Len(fed) - Len(partial) + i]
    <3>1. /\ partial \o data \in Seq(Bytes) /\ Len(partial \o data) = Len(partial) + Len(data)
          /\ fed \o data \in Seq(Bytes) /\ Len(fed \o data) = Len(fed) + Len(data)
          /\ \A i \in 1..(Len(partial) + Len(data)) :
               (partial \o data)[i] = (fed \o data)[Len(fed) - Len(partial) + i]
      BY <2>1, PushAppends
    <3>2. partial' = partial \o data /\ fed' = fed \o data
      BY <2>1
    <3> QED BY <3>1, <3>2, Zenon
  <2>3. Len(partial) \in Nat /\ Len(fed) \in Nat /\ Len(data) \in Nat /\ Len(partial) <= Len(fed)
    <3>1. partial \in Seq(Bytes) /\ fed \in Seq(Bytes) /\ Len(partial) <= Len(fed)
      BY DEF PartialInv
    <3> QED BY <3>1, LenProperties
  <2>4. Len(fed') - Len(partial') = Len(fed) - Len(partial)
    BY <2>2, <2>3
  <2>5. Len(partial') <= Len(fed')
    BY <2>2, <2>3
  <2>6. offset' \in 0..Len(partial') /\ (lock' = Nobody => offset' = 0)
    BY <2>1, <2>2, <2>3
  <2> QED BY <2>1, <2>2, <2>4, <2>5, <2>6 DEF PartialInv
<1>3. ASSUME NEW p \in Pushers, PushPackets(p) PROVE PartialInv'
  <2>1. /\ Len(stream[p]) >= PacketSize /\ stream[p] \in Seq(Bytes) /\ Len(stream[p]) \in Nat
        /\ stream' = [stream EXCEPT ![p] = SubSeq(@, PacketSize + 1, Len(@))]
        /\ UNCHANGED <<lock, partial, offset, fed>>
    BY <1>3 DEF PushPackets, PartialInv
  <2>2. SubSeq(stream[p], PacketSize + 1, Len(stream[p])) \in Seq(Bytes)
    BY <2>1, SubSeqProperties
  <2> QED BY <2>1, <2>2 DEF PartialInv
<1>4. ASSUME NEW p \in Pushers, Split(p) PROVE PartialInv'
  <2>0. /\ Len(fed) \in Nat /\ Len(partial) \in Nat /\ Len(partial) <= Len(fed)
        /\ offset \in 0..Len(partial) /\ p # Nobody
    BY DEF PartialInv, PushHandleAssumption
  <2>1. CASE SplitPacket(p)
    <3>1. /\ UNCHANGED <<stream, fed, partial, lock>> /\ lock = p
          /\ offset' = offset + PacketSize /\ offset + PacketSize <= Len(partial)
      BY <2>1 DEF SplitPacket, Scanning
    <3>2. offset' \in 0..Len(partial)
      BY <2>0, <3>1 DEF PushHandleAssumption
    <3> QED BY <2>0, <3>1, <3>2 DEF PartialInv
  <2>2. CASE SplitSlip(p)
    <3>1. /\ UNCHANGED <<stream, fed, partial, lock>> /\ lock = p
          /\ offset' = offset + 1 /\ offset + PacketSize <= Len(partial)
      BY <2>2 DEF SplitSlip, Scanning
    <3>2. offset' \in 0..Len(partial)
      BY <2>0, <3>1 DEF PushHandleAssumption
    <3> QED BY <2>0, <3>1, <3>2 DEF PartialInv
  <2>3. CASE SplitDone(p)
    <3>1. /\ partial' = Undrained /\ offset' = 0 /\ fed' = fed /\ stream' = stream
      BY <2>3 DEF SplitDone
    <3>2. Undrained \in Seq(Bytes) /\ Len(Undrained) = Len(partial) - offset
      BY DrainKeepsRest, Zenon
    <3>3. \A i \in 1..Len(Undrained) : Undrained[i] = partial[offset + i]
      BY DrainKeepsRest, Zenon
    <3>4. ASSUME NEW i \in 1..Len(Undrained)
          PROVE  Undrained[i] = fed[Len(fed) - Len(Undrained) + i]
      <4>1. offset + i \in 1..Len(partial)
        BY <2>0, <3>2
      <4>2. partial[offset + i] = fed[Len(fed) - Len(partial) + (offset + i)]
        BY <4>1 DEF PartialInv
      <4>3. Len(fed) - Len(partial) + (offset + i) = Len(fed) - Len(Undrained) + i
        BY <2>0, <3>2
      <4> QED BY <3>3, <4>2, <4>3
    <3>5. Len(Undrained) <= Len(fed) /\ 0 \in 0..Len(Undrained)
      BY <2>0, <3>2
    <3> QED BY <3>1, <3>2, <3>4, <3>5 DEF PartialInv
  <2> QED BY <1>4, <2>1, <2>2, <2>3 DEF Split
<1> QED BY <1>1, <1>2, <1>3, <1>4, SplitActions

(* split_packets, under the mutex of the partial buffer, frames the bytes   *)
(* of all push_bytes calls as one stream (pacer.rs, TsPacer).               *)
THEOREM HandleFrames == Spec => Framed
<1>1. Init => Stream!Init
  BY DEF Init, Stream!Init
<1>2. PartialInv /\ [Next]_vars => [Stream!Next]_Stream!vars
  <2> SUFFICES ASSUME PartialInv, [Next]_vars PROVE [Stream!Next]_Stream!vars
    OBVIOUS
  <2>0. /\ fed \in Seq(Bytes) /\ partial \in Seq(Bytes) /\ Len(partial) <= Len(fed)
        /\ Len(fed) \in Nat /\ Len(partial) \in Nat /\ offset \in 0..Len(partial)
    BY DEF PartialInv
  <2>1. CASE UNCHANGED framing
    BY <2>1 DEF framing, Stream!vars
  <2>2. ASSUME NEW p \in Pushers, PushBytes(p) PROVE [Stream!Next]_Stream!vars
    <3>1. PICK data \in Seq(Bytes) :
            /\ Len(data) > 0
            /\ partial' = partial \o data /\ fed' = fed \o data
            /\ offset' = 0 /\ lock = Nobody /\ cut' = cut
      BY <2>2, PushTakes
    <3>2. /\ Len(partial') = Len(partial) + Len(data) /\ Len(fed') = Len(fed) + Len(data)
          /\ \A i \in 1..Len(fed) : fed'[i] = fed[i]
      BY <3>1, PushAppends
    <3>3. offset = 0 /\ Len(data) \in Nat
      BY <3>1 DEF PartialInv
    <3>4. Len(fed') - Len(partial') + offset' = Len(fed) - Len(partial) + offset
      BY <2>0, <3>1, <3>2, <3>3
    <3>5. Len(fed) < Len(fed')
      BY <2>0, <3>1, <3>2, <3>3
    <3> QED BY <3>1, <3>2, <3>4, <3>5 DEF Stream!Next, Stream!Feed
  <2>3. ASSUME NEW p \in Pushers, PushPackets(p) PROVE [Stream!Next]_Stream!vars
    BY <2>3 DEF PushPackets, Stream!vars
  <2>4. ASSUME NEW p \in Pushers, SplitPacket(p) PROVE [Stream!Next]_Stream!vars
    <3>1. /\ offset + PacketSize <= Len(partial) /\ partial[offset + 1] = Sync
          /\ cut' = Append(cut, [start |-> Len(fed) - Len(partial) + offset,
                                 data |-> [i \in 1..PacketSize |-> partial[offset + i]]])
          /\ offset' = offset + PacketSize /\ fed' = fed /\ partial' = partial
      BY <2>4 DEF SplitPacket, Scanning
    <3>2. \A i \in 1..PacketSize : partial[offset + i] = fed[Len(fed) - Len(partial) + offset + i]
      <4>1. TAKE i \in 1..PacketSize
      <4>2. offset + i \in 1..Len(partial)
        BY <2>0, <3>1, SMTT(30)
      <4>3. partial[offset + i] = fed[Len(fed) - Len(partial) + (offset + i)]
        BY <4>2 DEF PartialInv
      <4> QED BY <2>0, <4>3
    <3>3. [i \in 1..PacketSize |-> partial[offset + i]]
            = Stream!DataAt(Len(fed) - Len(partial) + offset)
      BY <3>2 DEF Stream!DataAt
    <3>4. fed[Len(fed) - Len(partial) + offset + 1] = Sync
      BY <3>1, <3>2
    <3>5. Stream!Whole
      BY <2>0, <3>1 DEF Stream!Whole
    <3>6. Len(fed') - Len(partial') + offset' = Len(fed) - Len(partial) + offset + PacketSize
      BY <2>0, <3>1
    <3>7. Stream!Cut
      BY <3>1, <3>3, <3>4, <3>5, <3>6 DEF Stream!Cut
    <3> QED BY <3>7 DEF Stream!Next
  <2>5. ASSUME NEW p \in Pushers, SplitSlip(p) PROVE [Stream!Next]_Stream!vars
    <3>1. /\ offset + PacketSize <= Len(partial) /\ partial[offset + 1] # Sync
          /\ offset' = offset + 1 /\ fed' = fed /\ partial' = partial /\ cut' = cut
      BY <2>5 DEF SplitSlip, Scanning
    <3>2. partial[offset + 1] = fed[Len(fed) - Len(partial) + offset + 1]
      <4>1. offset + 1 \in 1..Len(partial)
        BY <2>0, <3>1
      <4>2. partial[offset + 1] = fed[Len(fed) - Len(partial) + (offset + 1)]
        BY <4>1 DEF PartialInv
      <4> QED BY <2>0, <4>2
    <3>3. Stream!Whole
      BY <2>0, <3>1 DEF Stream!Whole
    <3>4. Len(fed') - Len(partial') + offset' = Len(fed) - Len(partial) + offset + 1
      BY <2>0, <3>1
    <3>5. Stream!Skip
      BY <3>1, <3>2, <3>3, <3>4 DEF Stream!Skip
    <3> QED BY <3>5 DEF Stream!Next
  <2>6. ASSUME NEW p \in Pushers, SplitDone(p) PROVE [Stream!Next]_Stream!vars
    <3>1. partial' = Undrained /\ offset' = 0 /\ fed' = fed /\ cut' = cut
      BY <2>6 DEF SplitDone
    <3>2. Len(partial') = Len(partial) - offset
      BY <3>1, DrainKeepsRest, Zenon
    <3>3. Len(fed') - Len(partial') + offset' = Len(fed) - Len(partial) + offset
      BY <2>0, <3>1, <3>2
    <3> QED BY <3>1, <3>3 DEF Stream!vars
  <2> QED BY <2>1, <2>2, <2>3, <2>4, <2>5, <2>6, SplitActions DEF Split
<1>3. Spec => []PartialInv
  BY InitPartial, NextPartial, PTL DEF Spec
<1> QED BY <1>1, <1>2, <1>3, PTL DEF Spec, Framed, Stream!Spec
-----------------------------------------------------------------------------
(* A set of numbers that is not empty has a least one.  Every step from one  *)
(* number to the next that stays in a set reaches all of them.               *)
LEMMA LeastNumber ==
  ASSUME NEW T \in SUBSET Nat, T # {}
  PROVE  \E m \in T : \A n \in T : m <= n
<1> DEFINE R == OpToRel(<, Nat)
<1>1. IsWellFoundedOn(R, Nat)
  BY NatLessThanWellFounded
<1>2. \A x, y \in Nat : <<y, x>> \in R <=> y < x
  BY DEF OpToRel
<1> HIDE DEF R
<1>3. PICK x \in T : \A y \in T : ~ (<<y, x>> \in R)
  BY <1>1, WFMin
<1>4. ASSUME NEW y \in T PROVE x <= y
  <2>1. ~(y < x)
    BY <1>2, <1>3
  <2>2. QED
    BY <2>1
<1>5. QED
  BY <1>4

LEMMA Climb ==
  ASSUME NEW size \in Nat, NEW T, 0 \in T,
         \A i \in 1 .. size : i - 1 \in T => i \in T
  PROVE  \A i \in 0 .. size : i \in T
<1> DEFINE Out == {i \in 0 .. size : i \notin T}
<1>1. CASE Out = {}
  BY <1>1
<1>2. CASE Out # {}
  <2>1. Out \in SUBSET Nat
    OBVIOUS
  <2>2. PICK m \in Out : \A n \in Out : m <= n
    <3> HIDE DEF Out
    <3>1. QED
      BY <1>2, <2>1, LeastNumber
  <2>3. m \in 1 .. size /\ m \notin T
    <3>1. m \in 0 .. size /\ m \notin T
      BY <2>2
    <3>2. m # 0
      BY <3>1
    <3>3. QED
      BY <3>1, <3>2
  <2>4. m - 1 \notin Out
    <3>1. ~(m <= m - 1)
      BY <2>3
    <3> HIDE DEF Out
    <3>2. QED
      BY <2>2, <3>1
  <2>5. m - 1 \in T
    BY <2>3, <2>4
  <2>6. QED
    BY <2>3, <2>5
<1>3. QED
  BY <1>1, <1>2

LEMMA GreatestNumber ==
  ASSUME NEW size \in Nat, NEW T \in SUBSET (1 .. size), T # {}
  PROVE  \E m \in T : \A n \in T : m >= n
<1> DEFINE U == {u \in 0 .. size : \A n \in T : n <= u}
<1>1. size \in U
  OBVIOUS
<1>2. PICK u \in U : \A v \in U : u <= v
  <2>1. U \in SUBSET Nat /\ U # {}
    BY <1>1
  <2> HIDE DEF U
  <2>2. QED
    BY <2>1, LeastNumber
<1>3. u \in 0 .. size /\ \A n \in T : n <= u
  BY <1>2
<1>4. u # 0
  BY <1>3
<1>5. u - 1 \notin U
  <2>1. ~(u <= u - 1)
    BY <1>3
  <2> HIDE DEF U
  <2>2. QED
    BY <1>2, <2>1
<1>6. PICK m \in T : ~(m <= u - 1)
  BY <1>3, <1>4, <1>5
<1>7. m = u
  BY <1>3, <1>4, <1>6
<1>8. QED
  BY <1>3, <1>7

(* What a fold over a sequence computes: the recursion has a solution, and   *)
(* Primed is one.                                                            *)
IsPrimed(g, s, packets, size) ==
  g = [i \in 0 .. size |-> IF i = 0 THEN s ELSE Enqueue(g[i - 1], packets[i])]

LEMMA PrimedSolves ==
  ASSUME NEW s, NEW packets, NEW size \in Nat
  PROVE  \E g : IsPrimed(g, s, packets, size)
<1> DEFINE T == {k \in 0 .. size : \E g : IsPrimed(g, s, packets, k)}
<1>1. 0 \in T
  <2> DEFINE g == [i \in 0 .. 0 |-> s]
  <2>1. g = [i \in 0 .. 0 |-> IF i = 0 THEN s ELSE Enqueue(g[i - 1], packets[i])]
    OBVIOUS
  <2>2. IsPrimed(g, s, packets, 0)
    BY <2>1 DEF IsPrimed
  <2>3. QED
    BY <2>2
<1>2. ASSUME NEW k \in 1 .. size, k - 1 \in T PROVE k \in T
  <2>1. PICK g : IsPrimed(g, s, packets, k - 1)
    BY <1>2
  <2> DEFINE h == [i \in 0 .. k |-> IF i = k THEN Enqueue(g[k - 1], packets[k]) ELSE g[i]]
             H(i) == IF i = 0 THEN s ELSE Enqueue(h[i - 1], packets[i])
  <2>2. ASSUME NEW i \in 0 .. k PROVE h[i] = H(i)
    <3>1. CASE i = k
      <4>1. k - 1 \in 0 .. k /\ k - 1 # k /\ k # 0
        OBVIOUS
      <4>2. h[k - 1] = g[k - 1] /\ h[k] = Enqueue(g[k - 1], packets[k])
        BY <4>1
      <4> HIDE DEF h
      <4>3. QED
        BY <3>1, <4>1, <4>2
    <3>2. CASE i # k
      <4>1. i \in 0 .. k - 1 /\ i \in 0 .. k
        BY <3>2
      <4>2. h[i] = g[i]
        BY <3>2
      <4>3. g[i] = IF i = 0 THEN s ELSE Enqueue(g[i - 1], packets[i])
        BY <2>1, <4>1, Zenon DEF IsPrimed
      <4>4. i # 0 => h[i - 1] = g[i - 1]
        BY <4>1
      <4> HIDE DEF h
      <4>5. QED
        BY <4>2, <4>3, <4>4
    <3>3. QED
      BY <3>1, <3>2
  <2>3. h = [i \in 0 .. k |-> H(i)]
    <3>1. h = [i \in 0 .. k |-> h[i]]
      OBVIOUS
    <3> HIDE DEF h
    <3>2. QED
      BY <2>2, <3>1
  <2>4. IsPrimed(h, s, packets, k)
    BY <2>3, Zenon DEF IsPrimed
  <2> HIDE DEF h
  <2>5. QED
    BY <2>4
<1>3. size \in T
  <2> HIDE DEF T
  <2>1. \A i \in 0 .. size : i \in T
    BY <1>1, <1>2, Climb
  <2>2. QED
    BY <2>1
<1>4. QED
  BY <1>3

LEMMA PrimedIs ==
  ASSUME NEW s, NEW packets, Len(packets) \in Nat
  PROVE  /\ Primed(s, packets)[0] = s
         /\ \A i \in 1 .. Len(packets) :
              Primed(s, packets)[i] = Enqueue(Primed(s, packets)[i - 1], packets[i])
<1> DEFINE f == Primed(s, packets)
           n == Len(packets)
<1>1. \E g : IsPrimed(g, s, packets, n)
  BY PrimedSolves
<1>2. IsPrimed(f, s, packets, n)
  <2>1. f = CHOOSE g : g = [i \in 0 .. n |-> IF i = 0 THEN s ELSE Enqueue(g[i - 1], packets[i])]
    BY DEF Primed
  <2>2. f = CHOOSE g : IsPrimed(g, s, packets, n)
    BY <2>1 DEF IsPrimed
  <2> HIDE DEF f
  <2>3. QED
    BY <1>1, <2>2, Zenon
<1>3. f = [i \in 0 .. n |-> IF i = 0 THEN s ELSE Enqueue(f[i - 1], packets[i])]
  BY <1>2, Zenon DEF IsPrimed
<1> HIDE DEF f, n
<1>4. ASSUME NEW i \in 0 .. n
      PROVE  f[i] = IF i = 0 THEN s ELSE Enqueue(f[i - 1], packets[i])
  BY <1>3, Zenon
<1>5. f[0] = s
  <2>1. 0 \in 0 .. n
    BY DEF n
  <2>2. QED
    BY <1>4, <2>1
<1>6. ASSUME NEW i \in 1 .. n PROVE f[i] = Enqueue(f[i - 1], packets[i])
  <2>1. i \in 0 .. n /\ i # 0
    BY DEF n
  <2>2. QED
    BY <1>4, <2>1
<1>7. QED
  BY <1>5, <1>6 DEF f, n
-----------------------------------------------------------------------------
(* What the handle and the task hold.                                        *)
Packets == [by : Pushers, n : Nat, data : Seq(Bytes), pcr : (0 .. PcrWrap - 1) \cup {None},
            null : BOOLEAN]
Stores  == [buffer : [queue : Seq(Packets), capacity : Nat \ {0}], shed : Nat, stripped : Nat]
WarmUps == [packets : Seq(Packets), pcrs : Nat]
Calls   == [state : {"idle", "split", "send"}, packets : Seq(Packets)]

HandleInv ==
  /\ calls \in [Pushers -> Calls]
  /\ serial \in [Pushers -> Nat]
  /\ channel \in Seq(Packets) /\ sent \in Seq(Packets)
  /\ warmup \in WarmUps /\ warmup.pcrs = Cardinality(PcrIndices(warmup.packets))
  /\ rate \in Nat \cup {None}
  /\ store \in Stores

LEMMA FiniteRow == ASSUME NEW size \in Nat PROVE IsFiniteSet(1 .. size)
<1>1. 1 \in Int /\ size \in Int
  OBVIOUS
<1>2. QED
  BY <1>1, FS_Interval

LEMMA PcrsCounted ==
  ASSUME NEW s \in Seq(Packets)
  PROVE  /\ PcrIndices(s) \in SUBSET (1 .. Len(s)) /\ IsFiniteSet(PcrIndices(s))
         /\ Cardinality(PcrIndices(s)) \in Nat
<1>1. Len(s) \in Nat /\ DOMAIN s = 1 .. Len(s)
  OBVIOUS
<1>2. PcrIndices(s) \in SUBSET (1 .. Len(s))
  BY <1>1 DEF PcrIndices
<1>3. IsFiniteSet(1 .. Len(s))
  BY <1>1, FiniteRow
<1>4. IsFiniteSet(PcrIndices(s))
  BY <1>2, <1>3, FS_Subset
<1>5. QED
  BY <1>2, <1>4, FS_CardinalityType

LEMMA GatherCounts ==
  ASSUME NEW w \in WarmUps, w.pcrs = Cardinality(PcrIndices(w.packets)), NEW x \in Packets
  PROVE  /\ Gather(w, x) \in WarmUps
         /\ Gather(w, x).packets = Append(w.packets, x)
         /\ Gather(w, x).pcrs = Cardinality(PcrIndices(Gather(w, x).packets))
<1> DEFINE s == w.packets
           t == Append(s, x)
           n == Len(s)
<1>1. s \in Seq(Packets) /\ w.pcrs \in Nat /\ n \in Nat
  BY DEF WarmUps
<1>2. t \in Seq(Packets) /\ Len(t) = n + 1 /\ DOMAIN t = 1 .. n + 1 /\ DOMAIN s = 1 .. n
  BY <1>1
<1>3. t[n + 1] = x /\ \A i \in 1 .. n : t[i] = s[i]
  BY <1>1
<1>4. Gather(w, x) = [packets |-> t, pcrs |-> w.pcrs + (IF x.pcr # None THEN 1 ELSE 0)]
  BY DEF Gather
<1>5. IsFiniteSet(PcrIndices(s)) /\ PcrIndices(s) \in SUBSET (1 .. n)
  BY <1>1, PcrsCounted
<1> HIDE DEF t, n
<1>6. CASE x.pcr # None
  <2>1. PcrIndices(t) = PcrIndices(s) \cup {n + 1}
    BY <1>1, <1>2, <1>3, <1>6 DEF PcrIndices
  <2>2. n + 1 \notin PcrIndices(s)
    BY <1>1, <1>5
  <2>3. Cardinality(PcrIndices(s) \cup {n + 1}) = Cardinality(PcrIndices(s)) + 1
    BY <1>5, <2>2, FS_AddElement
  <2>4. Gather(w, x) = [packets |-> t, pcrs |-> w.pcrs + 1]
    BY <1>4, <1>6 DEF t
  <2>5. w.pcrs + 1 \in Nat /\ w.pcrs + 1 = Cardinality(PcrIndices(t))
    BY <1>1, <2>1, <2>3
  <2>6. QED
    BY <1>2, <2>4, <2>5 DEF WarmUps, t
<1>7. CASE x.pcr = None
  <2>1. PcrIndices(t) = PcrIndices(s)
    BY <1>1, <1>2, <1>3, <1>7 DEF PcrIndices
  <2>2. Gather(w, x) = [packets |-> t, pcrs |-> w.pcrs + 0]
    BY <1>4, <1>7 DEF t
  <2>3. w.pcrs + 0 \in Nat /\ w.pcrs + 0 = Cardinality(PcrIndices(t))
    BY <1>1, <2>1
  <2>4. QED
    BY <1>2, <2>2, <2>3 DEF WarmUps, t
<1>8. QED
  BY <1>6, <1>7

(* The rate that is locked is a number, whatever was measured.               *)
LEMMA SpanTicks ==
  ASSUME NEW s \in Seq(Packets), PcrIndices(s) # {}
  PROVE  /\ Span(s).first \in PcrIndices(s) /\ \A j \in PcrIndices(s) : Span(s).first <= j
         /\ Span(s).last \in PcrIndices(s) /\ \A j \in PcrIndices(s) : Span(s).last >= j
         /\ Span(s).ticks = IF s[Span(s).last].pcr >= s[Span(s).first].pcr
                            THEN s[Span(s).last].pcr - s[Span(s).first].pcr
                            ELSE PcrWrap - s[Span(s).first].pcr + s[Span(s).last].pcr
         /\ Span(s).ticks \in Nat
<1> DEFINE P == PcrIndices(s)
           first == CHOOSE i \in P : \A j \in P : i <= j
           last  == CHOOSE i \in P : \A j \in P : i >= j
           ticks == IF s[last].pcr >= s[first].pcr THEN s[last].pcr - s[first].pcr
                    ELSE PcrWrap - s[first].pcr + s[last].pcr
<1>1. P \in SUBSET (1 .. Len(s)) /\ Len(s) \in Nat
  BY PcrsCounted
<1>2. Span(s) = [first |-> first, last |-> last, ticks |-> ticks]
  BY Zenon DEF Span
<1>3. \A i \in P : s[i].pcr \in 0 .. PcrWrap - 1
  <2>1. ASSUME NEW i \in P PROVE s[i].pcr \in 0 .. PcrWrap - 1
    <3>1. i \in 1 .. Len(s) /\ s[i].pcr # None
      BY DEF PcrIndices
    <3>2. s[i] \in Packets
      BY <3>1
    <3>3. QED
      BY <3>1, <3>2 DEF Packets
  <2>2. QED
    BY <2>1
<1> HIDE DEF P
<1>4. first \in P /\ \A j \in P : first <= j
  <2>1. P \in SUBSET Nat /\ P # {}
    BY <1>1 DEF P
  <2>2. \E m \in P : \A j \in P : m <= j
    BY <2>1, LeastNumber
  <2>3. QED
    BY <2>2, Zenon
<1>5. last \in P /\ \A j \in P : last >= j
  <2>1. P # {}
    BY DEF P
  <2>2. \E m \in P : \A j \in P : m >= j
    BY <1>1, <2>1, GreatestNumber
  <2>3. QED
    BY <2>2, Zenon
<1> HIDE DEF first, last
<1>6. ticks \in Nat
  <2>1. s[first].pcr \in 0 .. PcrWrap - 1 /\ s[last].pcr \in 0 .. PcrWrap - 1
    BY <1>3, <1>4, <1>5
  <2> DEFINE a == s[first].pcr
             b == s[last].pcr
  <2>2. PcrWrap \in Nat /\ a \in Nat /\ b \in Nat /\ a <= PcrWrap - 1
    BY <2>1, WarmUpAssumption
  <2>3. ticks = IF b >= a THEN b - a ELSE PcrWrap - a + b
    OBVIOUS
  <2> HIDE DEF a, b, ticks
  <2>4. QED
    BY <2>2, <2>3
<1> HIDE DEF ticks
<1>7. Span(s).first = first /\ Span(s).last = last /\ Span(s).ticks = ticks
  BY <1>2
<1>8. QED
  BY <1>4, <1>5, <1>6, <1>7, Zenon DEF P, ticks

LEMMA ContentCounted ==
  ASSUME NEW s \in Seq(Packets), PcrIndices(s) # {}
  PROVE  LET content == {i \in Span(s).first .. Span(s).last : ~s[i].null}
         IN  content \in SUBSET (1 .. Len(s)) /\ IsFiniteSet(content) /\ Cardinality(content) \in Nat
<1> DEFINE content == {i \in Span(s).first .. Span(s).last : ~s[i].null}
<1>1. Span(s).first \in 1 .. Len(s) /\ Span(s).last \in 1 .. Len(s) /\ Len(s) \in Nat
  <2>1. PcrIndices(s) \in SUBSET (1 .. Len(s)) /\ Len(s) \in Nat
    BY PcrsCounted
  <2>2. Span(s).first \in PcrIndices(s) /\ Span(s).last \in PcrIndices(s)
    BY SpanTicks, Zenon
  <2>3. QED
    BY <2>1, <2>2
<1>2. content \in SUBSET (1 .. Len(s))
  BY <1>1
<1>3. IsFiniteSet(1 .. Len(s))
  BY <1>1, FiniteRow
<1> HIDE DEF content
<1>4. IsFiniteSet(content)
  BY <1>2, <1>3, FS_Subset
<1>5. Cardinality(content) \in Nat
  BY <1>4, FS_CardinalityType
<1>6. QED
  BY <1>2, <1>4, <1>5 DEF content

LEMMA RateLocks ==
  ASSUME NEW w \in WarmUps
  PROVE  /\ LockedRate(w) \in Nat \ {0}
         /\ HasEstimate(w.packets) => LockedRate(w) >= Estimate(w.packets) /\ Estimate(w.packets) \in Nat
<1> DEFINE s == w.packets
           content == IF HasEstimate(s) THEN Estimate(s) ELSE Fallback
           r == (content * (100 + Headroom)) \div 100
<1>1. Fallback \in Nat /\ Headroom \in Nat /\ PacketTicks \in Nat
  BY WarmUpAssumption
<1>2. s \in Seq(Packets)
  BY DEF WarmUps
<1>3. CASE HasEstimate(s)
  <2>1. PcrIndices(s) # {}
    <3>1. Cardinality(PcrIndices(s)) >= 2
      BY <1>3 DEF HasEstimate
    <3>2. PcrIndices(s) = {} => Cardinality(PcrIndices(s)) = 0
      BY FS_EmptySet
    <3>3. QED
      BY <3>1, <3>2
  <2> DEFINE c == Cardinality({i \in Span(s).first .. Span(s).last : ~s[i].null})
             d == Span(s).ticks
  <2>2. c \in Nat
    BY <1>2, <2>1, ContentCounted
  <2>3. d \in Nat \ {0}
    <3>1. d \in Nat
      BY <1>2, <2>1, SpanTicks, Zenon
    <3>2. d # 0
      BY <1>3 DEF HasEstimate
    <3>3. QED
      BY <3>1, <3>2
  <2>4. Estimate(s) = (c * PacketTicks) \div d
    BY DEF Estimate
  <2> HIDE DEF c, d
  <2>5. Estimate(s) \in Nat
    <3> DEFINE a == c * PacketTicks
    <3>1. a \in Nat
      BY <1>1, <2>2
    <3> HIDE DEF a
    <3>2. a \div d \in Nat
      BY <2>3, <3>1
    <3>3. QED
      BY <2>4, <3>2 DEF a
  <2>6. content = Estimate(s)
    BY <1>3
  <2>7. r \in Nat /\ r >= Estimate(s)
    <3> DEFINE e == Estimate(s)
               a == e * Headroom
    <3>1. a \in Nat
      BY <1>1, <2>5
    <3>2. content * (100 + Headroom) = 100 * e + a
      BY <1>1, <2>5, <2>6
    <3> HIDE DEF e, a
    <3>3. e \in Nat
      BY <2>5 DEF e
    <3>4. (100 * e + a) \div 100 \in Nat /\ (100 * e + a) \div 100 >= e
      BY <3>1, <3>3
    <3>5. QED
      BY <3>2, <3>4 DEF e
  <2>8. LockedRate(w) = IF r >= 1 THEN r ELSE 1
    BY DEF LockedRate
  <2> HIDE DEF r
  <2>9. QED
    BY <2>5, <2>7, <2>8
<1>4. CASE ~HasEstimate(s)
  <2>1. content = Fallback
    BY <1>4
  <2>2. r \in Nat
    <3> DEFINE a == Fallback * (100 + Headroom)
    <3>1. a \in Nat
      BY <1>1
    <3> HIDE DEF a
    <3>2. a \div 100 \in Nat
      BY <3>1
    <3>3. QED
      BY <2>1, <3>2 DEF a
  <2>3. LockedRate(w) = IF r >= 1 THEN r ELSE 1
    BY DEF LockedRate
  <2> HIDE DEF r
  <2>4. QED
    BY <1>4, <2>2, <2>3
<1>5. QED
  BY <1>3, <1>4
-----------------------------------------------------------------------------
(* What one packet does to the store: it goes in behind, or is stripped, and *)
(* at most the oldest one goes.                                              *)
Total(s) == Len(s.buffer.queue) + s.shed + s.stripped

Enters(s, x, t) ==
  /\ t \in Stores /\ t.buffer.capacity = s.buffer.capacity /\ Total(t) = Total(s) + 1
  /\ \/ /\ x.null /\ t.buffer = s.buffer /\ t.shed = s.shed
     \/ /\ ~x.null /\ t.shed = s.shed /\ Len(s.buffer.queue) < s.buffer.capacity
        /\ t.buffer.queue = Append(s.buffer.queue, x)
     \/ /\ ~x.null /\ s.buffer.queue # <<>> /\ s.buffer.capacity <= Len(s.buffer.queue)
        /\ t.buffer.queue = Append(Tail(s.buffer.queue), x)

LEMMA Enqueues ==
  ASSUME NEW s \in Stores, NEW x \in Packets
  PROVE  Enters(s, x, Enqueue(s, x))
<1> DEFINE q == s.buffer.queue
           c == s.buffer.capacity
           t == Enqueue(s, x)
<1>1. /\ q \in Seq(Packets) /\ c \in Nat \ {0} /\ s.shed \in Nat /\ s.stripped \in Nat /\ Len(q) \in Nat
      /\ s = [buffer |-> s.buffer, shed |-> s.shed, stripped |-> s.stripped]
      /\ s.buffer = [queue |-> q, capacity |-> c]
  BY DEF Stores
<1>2. CASE x.null
  <2>1. t = [buffer |-> s.buffer, shed |-> s.shed, stripped |-> s.stripped + 1]
    BY <1>1, <1>2 DEF Enqueue
  <2> HIDE DEF t
  <2>2. t \in Stores
    BY <1>1, <2>1 DEF Stores
  <2>3. Total(t) = Total(s) + 1
    BY <1>1, <2>1 DEF Total
  <2>4. QED
    BY <1>1, <1>2, <2>1, <2>2, <2>3 DEF Enters, t
<1>3. CASE ~x.null /\ ~Full(s.buffer)
  <2>1. t = [buffer |-> [queue |-> Append(q, x), capacity |-> c],
             shed |-> s.shed + 0, stripped |-> s.stripped]
    BY <1>1, <1>3 DEF Enqueue, Push
  <2>2. Append(q, x) \in Seq(Packets) /\ Len(Append(q, x)) = Len(q) + 1
    BY <1>1
  <2>3. Len(q) < c
    BY <1>1, <1>3 DEF Full
  <2> DEFINE r == Append(q, x)
  <2> HIDE DEF t, r
  <2>4. t \in Stores
    BY <1>1, <2>1, <2>2 DEF Stores, r
  <2>5. Total(t) = Total(s) + 1
    <3>1. Len(t.buffer.queue) = Len(q) + 1 /\ t.shed = s.shed + 0 /\ t.stripped = s.stripped
      BY <2>1, <2>2 DEF r
    <3>2. QED
      BY <1>1, <3>1 DEF Total
  <2>6. QED
    BY <1>1, <1>3, <2>1, <2>3, <2>4, <2>5 DEF Enters, t
<1>4. CASE ~x.null /\ Full(s.buffer)
  <2>1. t = [buffer |-> [queue |-> Append(Tail(q), x), capacity |-> c],
             shed |-> s.shed + 1, stripped |-> s.stripped]
    BY <1>1, <1>4 DEF Enqueue, Push
  <2>2. c <= Len(q) /\ q # <<>>
    BY <1>1, <1>4 DEF Full
  <2>3. Tail(q) \in Seq(Packets) /\ Len(Tail(q)) = Len(q) - 1
    BY <1>1, <2>2
  <2>4. Append(Tail(q), x) \in Seq(Packets) /\ Len(Append(Tail(q), x)) = Len(q)
    BY <1>1, <2>3
  <2> DEFINE r == Append(Tail(q), x)
  <2> HIDE DEF t, r
  <2>5. t \in Stores
    BY <1>1, <2>1, <2>4 DEF Stores, r
  <2>6. Total(t) = Total(s) + 1
    <3>1. Len(t.buffer.queue) = Len(q) /\ t.shed = s.shed + 1 /\ t.stripped = s.stripped
      BY <2>1, <2>4 DEF r
    <3>2. QED
      BY <1>1, <3>1 DEF Total
  <2>7. QED
    BY <1>1, <1>4, <2>1, <2>2, <2>5, <2>6, SMTT(30) DEF Enters, t
<1>5. QED
  BY <1>2, <1>3, <1>4

LEMMA FreshStore ==
  ASSUME NEW r \in Nat
  PROVE  /\ CapAt(r) \in Int
         /\ NewStore(CapAt(r)) \in Stores /\ NewStore(CapAt(r)).buffer.capacity >= CapAt(r)
         /\ NewStore(CapAt(r)).buffer.queue = <<>>
         /\ NewStore(CapAt(r)).shed = 0 /\ Total(NewStore(CapAt(r))) = 0
<1>1. PacketTicks \in Nat \ {0} /\ MaxLatency \in Nat
  BY WarmUpAssumption, PushHandleAssumption
<1>2. CapAt(r) \in Int
  <2> DEFINE a == r * MaxLatency + PacketTicks - 1
  <2>1. a \in Int
    BY <1>1
  <2> HIDE DEF a
  <2>2. a \div PacketTicks \in Int
    BY <1>1, <2>1
  <2>3. QED
    BY <2>2 DEF CapAt, a
<1> DEFINE c == CapAt(r)
           s == NewStore(c)
<1> HIDE DEF c
<1>3. s = [buffer |-> [queue |-> <<>>, capacity |-> LargerOf(c, 1)], shed |-> 0, stripped |-> 0]
  BY DEF NewStore, NewBuffer
<1>4. LargerOf(c, 1) \in Nat \ {0} /\ LargerOf(c, 1) >= c
  BY <1>2 DEF LargerOf, c
<1>5. <<>> \in Seq(Packets) /\ Len(<<>>) = 0
  OBVIOUS
<1> HIDE DEF s
<1>6. s \in Stores
  BY <1>3, <1>4, <1>5 DEF Stores
<1>7. Total(s) = 0
  BY <1>3, <1>5 DEF Total
<1>8. QED
  BY <1>2, <1>3, <1>4, <1>6, <1>7 DEF s, c

(* The warm-up goes into the store packet by packet, none of it unaccounted. *)
LEMMA PrimedStore ==
  ASSUME NEW s \in Stores, Total(s) = 0, NEW packets \in Seq(Packets)
  PROVE  \A i \in 0 .. Len(packets) :
           /\ Primed(s, packets)[i] \in Stores /\ Total(Primed(s, packets)[i]) = i
           /\ Primed(s, packets)[i].buffer.capacity = s.buffer.capacity
<1> DEFINE f == Primed(s, packets)
           n == Len(packets)
           Good(i) == f[i] \in Stores /\ Total(f[i]) = i /\ f[i].buffer.capacity = s.buffer.capacity
           T == {i \in 0 .. n : Good(i)}
<1>1. n \in Nat /\ f[0] = s /\ \A i \in 1 .. n : f[i] = Enqueue(f[i - 1], packets[i])
  BY PrimedIs
<1> HIDE DEF f
<1>2. 0 \in T
  BY <1>1
<1>3. ASSUME NEW i \in 1 .. n, i - 1 \in T PROVE i \in T
  <2>1. f[i - 1] \in Stores /\ Total(f[i - 1]) = i - 1 /\ f[i - 1].buffer.capacity = s.buffer.capacity
    BY <1>3
  <2>2. packets[i] \in Packets
    OBVIOUS
  <2>3. Enters(f[i - 1], packets[i], f[i])
    BY <1>1, <2>1, <2>2, Enqueues
  <2>4. /\ f[i] \in Stores /\ Total(f[i]) = Total(f[i - 1]) + 1
        /\ f[i].buffer.capacity = f[i - 1].buffer.capacity
    BY <2>3 DEF Enters
  <2>5. Total(f[i]) = i
    BY <1>1, <2>1, <2>4
  <2>6. QED
    BY <2>1, <2>4, <2>5
<1>4. \A i \in 0 .. n : i \in T
  <2> HIDE DEF T
  <2>1. QED
    BY <1>1, <1>2, <1>3, Climb
<1>5. QED
  BY <1>4 DEF f

LEMMA PacketTyped ==
  ASSUME NEW p \in Pushers, NEW n \in Nat, NEW data \in Seq(Bytes), Len(data) = PacketSize
  PROVE  Packet(p, n, data) \in Packets /\ Packet(p, n, data).by = p /\ Packet(p, n, data).n = n
<1>1. PacketSize \in 1 .. Len(data)
  BY PushHandleAssumption
<1>2. data[PacketSize] \in Bytes
  BY <1>1
<1>3. PcrOf[data[PacketSize]] \in (0 .. PcrWrap - 1) \cup {None}
  BY <1>2, PushHandleAssumption DEF Bytes
<1>4. (data[PacketSize] = Stuffing) \in BOOLEAN
  OBVIOUS
<1>5. QED
  BY <1>3, <1>4 DEF Packet, Packets

LEMMA InitHandle == Init => HandleInv
<1> SUFFICES ASSUME Init PROVE HandleInv
  OBVIOUS
<1>1. store \in Stores
  <2>1. store = [buffer |-> [queue |-> <<>>, capacity |-> 1], shed |-> 0, stripped |-> 0]
    BY DEF Init, NewStore, NewBuffer, LargerOf
  <2>2. QED
    BY <2>1 DEF Stores
<1>2. warmup \in WarmUps /\ warmup.pcrs = Cardinality(PcrIndices(warmup.packets))
  <2>1. warmup = [packets |-> <<>>, pcrs |-> 0]
    BY DEF Init, NewWarmUp
  <2>2. PcrIndices(<<>>) = {}
    BY DEF PcrIndices
  <2>3. Cardinality(PcrIndices(<<>>)) = 0
    BY <2>2, FS_EmptySet
  <2>4. warmup \in WarmUps /\ warmup.packets = <<>> /\ warmup.pcrs = 0
    BY <2>1 DEF WarmUps
  <2>5. QED
    BY <2>3, <2>4
<1>3. QED
  BY <1>1, <1>2 DEF Init, HandleInv, Idle, Calls
-----------------------------------------------------------------------------
(* A step of a call under way, or of one that begins: it takes one packet on *)
(* behind those it has, keeps what it has, or gives it all up.               *)
KeepsCall(p, c) == serial' = serial /\ c.packets \in {<<>>, calls[p].packets}

TakesOn(p, c, x) ==
  /\ x.by = p /\ x.n = serial[p] + 1
  /\ serial' = [serial EXCEPT ![p] = @ + 1]
  /\ c.packets \in {<<x>>, Append(calls[p].packets, x)}

HandlesCall(p) ==
  /\ UNCHANGED <<channel, closing, engine, accepted>>
  /\ closing => calls[p] # Idle
  /\ \E c \in Calls : /\ calls' = [calls EXCEPT ![p] = c]
                      /\ KeepsCall(p, c) \/ \E x \in Packets : TakesOn(p, c, x)

(* The mutex is held by a call that is splitting.                            *)
LockInv == \A p \in Pushers : lock = p => calls[p].state = "split"

CallStep(p) ==
  PushBytes(p) \/ PushPackets(p) \/ Split(p) \/ PushReturnsOk(p) \/ PushFails(p) \/ Cancel(p)

LEMMA CallFields ==
  ASSUME calls \in [Pushers -> Calls], NEW p \in Pushers, NEW a, NEW s
  PROVE  /\ [calls EXCEPT ![p].packets = s] = [calls EXCEPT ![p] = [state |-> calls[p].state, packets |-> s]]
         /\ [calls EXCEPT ![p].state = a] = [calls EXCEPT ![p] = [state |-> a, packets |-> calls[p].packets]]
<1>1. calls[p] = [state |-> calls[p].state, packets |-> calls[p].packets]
  BY DEF Calls
<1>2. [calls[p] EXCEPT !.packets = s] = [state |-> calls[p].state, packets |-> s]
  BY <1>1
<1>3. [calls[p] EXCEPT !.state = a] = [state |-> a, packets |-> calls[p].packets]
  BY <1>1
<1>4. [calls EXCEPT ![p].packets = s] = [calls EXCEPT ![p] = [calls[p] EXCEPT !.packets = s]]
  BY SMT
<1>5. [calls EXCEPT ![p].state = a] = [calls EXCEPT ![p] = [calls[p] EXCEPT !.state = a]]
  BY SMT
<1>6. QED
  BY <1>2, <1>3, <1>4, <1>5, Zenon

LEMMA CallsMove ==
  ASSUME PartialInv, HandleInv, LockInv, NEW p \in Pushers, CallStep(p)
  PROVE  HandlesCall(p) /\ LockInv'
<1>1. /\ calls \in [Pushers -> Calls] /\ calls[p] \in Calls /\ serial \in [Pushers -> Nat]
      /\ calls[p] = [state |-> calls[p].state, packets |-> calls[p].packets]
      /\ calls[p].packets \in Seq(Packets) /\ serial[p] \in Nat /\ Idle \in Calls
      /\ Idle.state = "idle" /\ Idle.packets = <<>> /\ p # Nobody
  BY PushHandleAssumption DEF HandleInv, Calls, Idle
<1> DEFINE Into(c) == calls' = [calls EXCEPT ![p] = c]
<1>2. CASE PushBytes(p)
  <2> DEFINE c == [state |-> "split", packets |-> <<>>]
  <2>1. /\ calls[p] = Idle /\ ~closing /\ lock = Nobody /\ lock' = p /\ Into(c) /\ serial' = serial
        /\ UNCHANGED <<channel, closing, engine, accepted>>
    BY <1>2 DEF PushBytes
  <2>2. c \in Calls /\ c.packets = <<>> /\ c.state = "split"
    BY DEF Calls
  <2> HIDE DEF c
  <2>3. HandlesCall(p)
    BY <2>1, <2>2 DEF HandlesCall, KeepsCall
  <2>4. LockInv'
    BY <1>1, <2>1, <2>2 DEF LockInv
  <2>5. QED
    BY <2>3, <2>4
<1>3. CASE PushPackets(p)
  <2> DEFINE data == SubSeq(stream[p], 1, PacketSize)
             x == Packet(p, serial[p] + 1, data)
             c == [state |-> "send", packets |-> <<x>>]
  <2>1. /\ calls[p] = Idle /\ ~closing /\ Into(c) /\ Len(stream[p]) >= PacketSize
        /\ serial' = [serial EXCEPT ![p] = @ + 1] /\ lock' = lock
        /\ UNCHANGED <<channel, closing, engine, accepted>>
    BY <1>3 DEF PushPackets
  <2>2. x \in Packets /\ x.by = p /\ x.n = serial[p] + 1
    <3>1. stream[p] \in Seq(Bytes) /\ PacketSize \in Nat \ {0}
      BY PushHandleAssumption DEF PartialInv
    <3>2. data \in Seq(Bytes) /\ Len(data) = PacketSize
      <4>1. \A i \in 1 .. PacketSize : stream[p][i] \in Bytes
        <5>1. Len(stream[p]) \in Nat
          BY <3>1
        <5>2. QED
          BY <2>1, <3>1, <5>1, ElementOfSeq
      <4>2. QED
        BY <3>1, <4>1, SubSeqProperties
    <3> HIDE DEF data
    <3>3. serial[p] + 1 \in Nat
      BY <1>1
    <3>4. QED
      BY <3>2, <3>3, PacketTyped
  <2> HIDE DEF x
  <2>3. c \in Calls /\ c.packets = <<x>>
    BY <2>2 DEF Calls
  <2> HIDE DEF c
  <2>4. TakesOn(p, c, x)
    BY <2>1, <2>2, <2>3 DEF TakesOn
  <2>5. HandlesCall(p)
    BY <2>1, <2>2, <2>3, <2>4 DEF HandlesCall
  <2>6. LockInv'
    <3>1. lock # p
      BY <1>1, <2>1 DEF LockInv
    <3>2. QED
      BY <1>1, <2>1, <3>1 DEF LockInv
  <2>7. QED
    BY <2>5, <2>6
<1>4. CASE SplitPacket(p)
  <2> DEFINE data == [i \in 1 .. PacketSize |-> partial[offset + i]]
             x == Packet(p, serial[p] + 1, data)
             c == [state |-> calls[p].state, packets |-> Append(calls[p].packets, x)]
  <2>1. /\ lock = p /\ lock' = lock /\ offset + PacketSize <= Len(partial)
        /\ calls' = [calls EXCEPT ![p].packets = Append(@, x)]
        /\ serial' = [serial EXCEPT ![p] = @ + 1]
        /\ UNCHANGED <<channel, closing, engine, accepted>>
    BY <1>4 DEF SplitPacket, Scanning
  <2>2. x \in Packets /\ x.by = p /\ x.n = serial[p] + 1
    <3>1. partial \in Seq(Bytes) /\ PacketSize \in Nat \ {0} /\ offset \in Nat /\ Len(partial) \in Nat
      BY PushHandleAssumption DEF PartialInv
    <3>2. ASSUME NEW i \in 1 .. PacketSize PROVE partial[offset + i] \in Bytes
      <4>1. offset + i \in 1 .. Len(partial)
        BY <2>1, <3>1
      <4>2. QED
        BY <3>1, <4>1, ElementOfSeq
    <3>3. data \in Seq(Bytes) /\ Len(data) = PacketSize
      BY <3>1, <3>2
    <3> HIDE DEF data
    <3>4. serial[p] + 1 \in Nat
      BY <1>1
    <3>5. QED
      BY <3>3, <3>4, PacketTyped
  <2> HIDE DEF x
  <2>3. c \in Calls /\ c.packets = Append(calls[p].packets, x) /\ c.state = calls[p].state
    BY <1>1, <2>2 DEF Calls
  <2>4. Into(c)
    BY <1>1, <2>1, CallFields
  <2> HIDE DEF c
  <2>5. TakesOn(p, c, x)
    BY <2>1, <2>2, <2>3 DEF TakesOn
  <2>6. calls[p] # Idle
    BY <1>1, <2>1 DEF LockInv
  <2>7. HandlesCall(p)
    BY <2>1, <2>2, <2>3, <2>4, <2>5, <2>6 DEF HandlesCall
  <2>8. LockInv'
    BY <1>1, <2>1, <2>3, <2>4 DEF LockInv
  <2>9. QED
    BY <2>7, <2>8
<1>5. CASE SplitSlip(p)
  <2>1. /\ lock = p /\ UNCHANGED <<lock, calls, serial, channel, closing, engine, accepted>>
    BY <1>5 DEF SplitSlip, Scanning
  <2>2. calls[p] # Idle
    BY <1>1, <2>1 DEF LockInv
  <2>3. Into(calls[p])
    BY <1>1, <2>1
  <2>4. KeepsCall(p, calls[p])
    BY <2>1 DEF KeepsCall
  <2>5. HandlesCall(p)
    BY <1>1, <2>1, <2>2, <2>3, <2>4 DEF HandlesCall
  <2>6. QED
    BY <2>1, <2>5 DEF LockInv
<1>6. CASE SplitDone(p)
  <2> DEFINE c == [state |-> "send", packets |-> calls[p].packets]
  <2>1. /\ lock = p /\ lock' = Nobody /\ serial' = serial
        /\ calls' = [calls EXCEPT ![p].state = "send"]
        /\ UNCHANGED <<channel, closing, engine, accepted>>
    BY <1>6 DEF SplitDone
  <2>2. Into(c)
    BY <1>1, <2>1, CallFields
  <2>3. c \in Calls /\ c.packets = calls[p].packets
    BY <1>1 DEF Calls
  <2> HIDE DEF c
  <2>4. calls[p] # Idle
    BY <1>1, <2>1 DEF LockInv
  <2>5. KeepsCall(p, c)
    BY <2>1, <2>3 DEF KeepsCall
  <2>6. HandlesCall(p)
    BY <2>1, <2>2, <2>3, <2>4, <2>5 DEF HandlesCall
  <2>7. LockInv'
    BY <2>1, PushHandleAssumption DEF LockInv
  <2>8. QED
    BY <2>6, <2>7
<1>7. CASE PushReturnsOk(p) \/ PushFails(p) \/ Cancel(p)
  <2>1. /\ calls[p].state = "send" /\ Into(Idle)
        /\ UNCHANGED <<lock, serial, channel, closing, engine, accepted>>
    BY <1>7 DEF PushReturnsOk, PushFails, Cancel
  <2>2. calls[p] # Idle
    BY <1>1, <2>1
  <2>3. KeepsCall(p, Idle)
    BY <1>1, <2>1 DEF KeepsCall
  <2>4. HandlesCall(p)
    BY <1>1, <2>1, <2>2, <2>3 DEF HandlesCall
  <2>5. LockInv'
    BY <1>1, <2>1 DEF LockInv
  <2>6. QED
    BY <2>4, <2>5
<1>8. QED
  BY <1>2, <1>3, <1>4, <1>5, <1>6, <1>7 DEF CallStep, Split

(* What the other steps do.                                                  *)
SendStep(p) ==
  /\ calls[p].state = "send" /\ calls[p].packets # <<>>
  /\ task \notin {"done", "failed"} /\ Running
  /\ channel' = Append(channel, Head(calls[p].packets))
  /\ calls' = [calls EXCEPT ![p] = [state |-> "send", packets |-> Tail(calls[p].packets)]]
  /\ accepted' = accepted + 1
  /\ UNCHANGED <<serial, closing, engine, lock>>

LEMMA SendMoves ==
  ASSUME HandleInv, NEW p \in Pushers, Send(p)
  PROVE  SendStep(p)
<1>1. /\ calls \in [Pushers -> Calls]
      /\ calls[p] = [state |-> calls[p].state, packets |-> calls[p].packets]
  BY DEF HandleInv, Calls
<1>2. calls' = [calls EXCEPT ![p] = [state |-> "send", packets |-> Tail(calls[p].packets)]]
  <2> DEFINE s == Tail(calls[p].packets)
  <2>1. calls[p].state = "send" /\ calls' = [calls EXCEPT ![p].packets = s]
    BY DEF Send, NextToSend
  <2> HIDE DEF s
  <2>2. [calls EXCEPT ![p].packets = s] = [calls EXCEPT ![p] = [state |-> calls[p].state, packets |-> s]]
    BY <1>1, CallFields
  <2>3. QED
    BY <2>1, <2>2 DEF s
<1>3. QED
  BY <1>2 DEF Send, SendStep, NextToSend, Running

(* Every step is one of a call, a send, the end of the handle, or the        *)
(* task's: the mutex and the calls are not its own to touch.                 *)
EngineStep ==
  /\ Engine \/ FailsSilent \/ SinkFails
  /\ UNCHANGED <<handle, closing, accepted>>

LEMMA StepKinds ==
  ASSUME [Next]_vars
  PROVE  \/ \E p \in Pushers : CallStep(p)
         \/ \E p \in Pushers : Send(p)
         \/ Close \/ EngineStep \/ UNCHANGED vars
  BY Zenon DEF Next, CallStep, Sends, EngineStep, Engine, Gathers, CutsShort, Takes, TakesEnd, Emit, Finish,
               FailsSilent, SinkFails
-----------------------------------------------------------------------------
LEMMA Starts ==
  ASSUME NEW w \in WarmUps, StartPacing(w)
  PROVE  /\ rate' = LockedRate(w) /\ rate' \in Nat \ {0}
         /\ store' \in Stores /\ Total(store') = Len(w.packets)
         /\ warmup' = w /\ task' = "pacing"
<1> DEFINE r == LockedRate(w)
           s == NewStore(CapAt(r))
           n == Len(w.packets)
<1>1. r \in Nat \ {0}
  BY RateLocks, Zenon
<1>2. w.packets \in Seq(Packets) /\ n \in Nat /\ n \in 0 .. n
  BY DEF WarmUps
<1> HIDE DEF r
<1>3. s \in Stores /\ Total(s) = 0
  BY <1>1, FreshStore
<1> HIDE DEF s
<1>4. Primed(s, w.packets)[n] \in Stores /\ Total(Primed(s, w.packets)[n]) = n
  BY <1>2, <1>3, PrimedStore
<1>5. /\ rate' = r /\ warmup' = w /\ task' = "pacing"
      /\ store' = Primed(s, w.packets)[n]
  BY Zenon DEF StartPacing, r, s
<1>6. QED
  BY <1>1, <1>4, <1>5 DEF r

(* Popping what is next keeps the store in type.                             *)
LEMMA PopStore ==
  ASSUME NEW s \in Stores, s.buffer.queue # <<>>
  PROVE  LET t == [s EXCEPT !.buffer = Pop(@)]
         IN  /\ t \in Stores /\ t.buffer.queue = Tail(s.buffer.queue)
             /\ t.shed = s.shed /\ t.stripped = s.stripped
             /\ Len(t.buffer.queue) = Len(s.buffer.queue) - 1 /\ Head(s.buffer.queue) \in Packets
             /\ Total(t) = Total(s) - 1
<1> DEFINE q == s.buffer.queue
           t == [s EXCEPT !.buffer = Pop(@)]
           r == Tail(q)
<1>1. /\ q \in Seq(Packets) /\ s.shed \in Nat /\ s.stripped \in Nat /\ Len(q) \in Nat
      /\ s.buffer.capacity \in Nat \ {0}
      /\ s = [buffer |-> s.buffer, shed |-> s.shed, stripped |-> s.stripped]
      /\ s.buffer = [queue |-> q, capacity |-> s.buffer.capacity]
  BY DEF Stores
<1>2. t = [buffer |-> [queue |-> r, capacity |-> s.buffer.capacity],
           shed |-> s.shed, stripped |-> s.stripped]
  <2> DEFINE b == Pop(s.buffer)
  <2>1. b = [queue |-> r, capacity |-> s.buffer.capacity]
    <3> DEFINE u == s.buffer
    <3>1. u = [queue |-> u.queue, capacity |-> u.capacity]
      BY <1>1
    <3>2. Pop(u) = [u EXCEPT !.queue = Tail(u.queue)]
      BY DEF Pop
    <3> HIDE DEF u
    <3>3. Pop(u) = [queue |-> Tail(u.queue), capacity |-> u.capacity]
      BY <3>1, <3>2
    <3>4. QED
      BY <3>3 DEF u
  <2> HIDE DEF b
  <2>2. [s EXCEPT !.buffer = b] = [buffer |-> b, shed |-> s.shed, stripped |-> s.stripped]
    BY <1>1
  <2>3. QED
    BY <2>1, <2>2 DEF b
<1>3. r \in Seq(Packets) /\ Len(r) = Len(q) - 1 /\ Head(q) \in Packets
  BY <1>1
<1> HIDE DEF t, r
<1>4. t \in Stores
  BY <1>1, <1>2, <1>3 DEF Stores
<1>5. Len(t.buffer.queue) = Len(q) - 1 /\ t.shed = s.shed /\ t.stripped = s.stripped
  BY <1>2, <1>3
<1>6. Total(t) = Total(s) - 1
  BY <1>1, <1>5 DEF Total
<1>7. QED
  <2>1. t.buffer.queue = r
    BY <1>2
  <2>2. QED
    BY <1>3, <1>4, <1>5, <1>6, <2>1, Zenon DEF t, r

(* What each step of the task does to what it holds.                         *)
Gathered == Gather(warmup, Head(channel))

GathersOn ==
  /\ task = "warmup" /\ channel # <<>> /\ channel' = Tail(channel) /\ ~Enough(Gathered)
  /\ warmup' = Gathered /\ UNCHANGED <<task, rate, store, sent>>

LocksFull ==
  /\ task = "warmup" /\ channel # <<>> /\ channel' = Tail(channel) /\ Enough(Gathered)
  /\ StartPacing(Gathered) /\ UNCHANGED sent

LocksShort ==
  /\ task = "warmup" /\ channel = <<>> /\ (InputEnded \/ Measurable(warmup))
  /\ StartPacing(warmup) /\ UNCHANGED <<channel, sent>>

TakesOne ==
  /\ task = "pacing" /\ channel # <<>> /\ channel' = Tail(channel)
  /\ Enters(store, Head(channel), store') /\ UNCHANGED <<task, warmup, rate, sent>>

EmitsOne ==
  /\ task \in {"pacing", "draining"} /\ store.buffer.queue # <<>>
  /\ sent' = Append(sent, Head(store.buffer.queue))
  /\ store' = [store EXCEPT !.buffer = Pop(@)]
  /\ UNCHANGED <<channel, task, warmup, rate>>

Ends ==
  /\ \/ task = "pacing" /\ InputEnded /\ task' = "draining"
     \/ task = "draining" /\ store.buffer.queue = <<>> /\ task' = "done"
     \/ task' = "failed" /\ task # "done"
  /\ UNCHANGED <<channel, warmup, rate, store, sent>>

LEMMA EngineMoves ==
  ASSUME HandleInv, EngineStep
  PROVE  /\ UNCHANGED <<calls, serial, lock, closing, accepted>>
         /\ GathersOn \/ LocksFull \/ LocksShort \/ TakesOne \/ EmitsOne \/ Ends
<1>1. UNCHANGED <<calls, serial, lock, closing, accepted>>
  BY DEF EngineStep, handle
<1>2. CASE Gathers
  BY <1>1, <1>2, Zenon DEF Gathers, Gathered, GathersOn, LocksFull
<1>3. CASE CutsShort
  BY <1>1, <1>3 DEF CutsShort, InputSilent, InputEnded, LocksShort
<1>4. CASE Takes
  <2>1. store \in Stores /\ channel \in Seq(Packets)
    BY DEF HandleInv
  <2>2. channel # <<>> /\ store' = Enqueue(store, Head(channel))
    BY <1>4 DEF Takes
  <2>3. Head(channel) \in Packets
    BY <2>1, <2>2
  <2>4. Enters(store, Head(channel), store')
    BY <2>1, <2>2, <2>3, Enqueues
  <2>5. QED
    BY <1>1, <1>4, <2>4 DEF Takes, TakesOne
<1>5. CASE Emit
  BY <1>1, <1>5 DEF Emit, EmitsOne
<1>6. CASE TakesEnd \/ Finish \/ FailsSilent \/ SinkFails
  BY <1>1, <1>6 DEF Ends, TakesEnd, ClosedBehind, Finish, FailsSilent, SinkFails
<1>7. QED
  BY <1>2, <1>3, <1>4, <1>5, <1>6 DEF EngineStep, Engine

LEMMA HandleStep == PartialInv /\ HandleInv /\ LockInv /\ [Next]_vars => HandleInv' /\ LockInv'
<1> SUFFICES ASSUME PartialInv, HandleInv, LockInv, [Next]_vars PROVE HandleInv' /\ LockInv'
  OBVIOUS
<1>0. /\ calls \in [Pushers -> Calls] /\ serial \in [Pushers -> Nat]
      /\ channel \in Seq(Packets) /\ sent \in Seq(Packets)
      /\ warmup \in WarmUps /\ warmup.pcrs = Cardinality(PcrIndices(warmup.packets))
      /\ rate \in Nat \cup {None} /\ store \in Stores
  BY DEF HandleInv
<1>1. ASSUME NEW p \in Pushers, CallStep(p) PROVE HandleInv' /\ LockInv'
  <2>1. HandlesCall(p) /\ LockInv'
    BY <1>1, CallsMove
  <2>2. PICK c \in Calls : /\ calls' = [calls EXCEPT ![p] = c]
                           /\ KeepsCall(p, c) \/ \E x \in Packets : TakesOn(p, c, x)
    BY <2>1 DEF HandlesCall
  <2>3. calls' \in [Pushers -> Calls]
    BY <1>0, <2>2
  <2>4. serial' \in [Pushers -> Nat]
    <3>1. serial' = serial \/ serial' = [serial EXCEPT ![p] = @ + 1]
      BY <2>2 DEF KeepsCall, TakesOn
    <3>2. serial[p] + 1 \in Nat
      BY <1>0
    <3>3. QED
      BY <1>0, <3>1, <3>2
  <2>5. UNCHANGED <<channel, sent, warmup, rate, store>>
    BY <2>1 DEF HandlesCall, engine
  <2>6. QED
    BY <1>0, <2>1, <2>3, <2>4, <2>5 DEF HandleInv
<1>2. ASSUME NEW p \in Pushers, Send(p) PROVE HandleInv' /\ LockInv'
  <2>1. SendStep(p)
    BY <1>2, SendMoves
  <2> DEFINE s == calls[p].packets
             c == [state |-> "send", packets |-> Tail(s)]
  <2>2. s \in Seq(Packets) /\ s # <<>> /\ calls[p].state = "send"
    BY <1>0, <2>1 DEF SendStep, Calls
  <2>3. Tail(s) \in Seq(Packets) /\ Head(s) \in Packets
    BY <2>2
  <2>4. c \in Calls
    BY <2>3 DEF Calls
  <2>5. calls' = [calls EXCEPT ![p] = c] /\ channel' = Append(channel, Head(s))
    BY <2>1 DEF SendStep
  <2>6. UNCHANGED <<serial, sent, warmup, rate, store, lock>>
    BY <2>1 DEF SendStep, engine
  <2>7. c.state = "send"
    OBVIOUS
  <2> HIDE DEF c
  <2>8. calls' \in [Pushers -> Calls]
    BY <1>0, <2>4, <2>5
  <2>9. channel' \in Seq(Packets)
    BY <1>0, <2>3, <2>5
  <2>10. HandleInv'
    BY <1>0, <2>6, <2>8, <2>9 DEF HandleInv
  <2>11. LockInv'
    BY <1>0, <2>2, <2>5, <2>6, <2>7 DEF LockInv
  <2>12. QED
    BY <2>10, <2>11
<1>3. CASE Close \/ UNCHANGED vars
  BY <1>3 DEF Close, vars, handle, engine, HandleInv, LockInv
<1>4. CASE EngineStep
  <2>1. UNCHANGED <<calls, serial, lock>>
    BY <1>4, EngineMoves
  <2>2. LockInv'
    BY <2>1 DEF LockInv
  <2>3. channel # <<>> => /\ Tail(channel) \in Seq(Packets) /\ Gathered \in WarmUps
                          /\ Gathered.pcrs = Cardinality(PcrIndices(Gathered.packets))
    <3>1. SUFFICES ASSUME channel # <<>>
                   PROVE  /\ Tail(channel) \in Seq(Packets) /\ Gathered \in WarmUps
                          /\ Gathered.pcrs = Cardinality(PcrIndices(Gathered.packets))
      OBVIOUS
    <3>2. Head(channel) \in Packets /\ Tail(channel) \in Seq(Packets)
      BY <1>0, <3>1
    <3>3. QED
      BY <1>0, <3>2, GatherCounts DEF Gathered
  <2>4. CASE task = "warmup" /\ channel # <<>> /\ channel' = Tail(channel)
             /\ warmup' = Gathered /\ UNCHANGED <<task, rate, store, sent>>
    BY <1>0, <2>1, <2>2, <2>3, <2>4 DEF HandleInv
  <2>5. CASE channel # <<>> /\ channel' = Tail(channel) /\ StartPacing(Gathered) /\ UNCHANGED sent
    <3>1. store' \in Stores /\ rate' \in Nat /\ warmup' = Gathered
      BY <2>3, <2>5, Starts
    <3>2. QED
      BY <1>0, <2>1, <2>2, <2>3, <2>5, <3>1 DEF HandleInv
  <2>6. CASE StartPacing(warmup) /\ UNCHANGED <<channel, sent>>
    <3>1. store' \in Stores /\ rate' \in Nat /\ warmup' = warmup
      BY <1>0, <2>6, Starts
    <3>2. QED
      BY <1>0, <2>1, <2>2, <2>6, <3>1 DEF HandleInv
  <2>7. CASE channel # <<>> /\ channel' = Tail(channel) /\ Enters(store, Head(channel), store')
             /\ UNCHANGED <<task, warmup, rate, sent>>
    BY <1>0, <2>1, <2>2, <2>3, <2>7 DEF HandleInv, Enters
  <2>8. CASE store.buffer.queue # <<>> /\ sent' = Append(sent, Head(store.buffer.queue))
             /\ store' = [store EXCEPT !.buffer = Pop(@)] /\ UNCHANGED <<channel, task, warmup, rate>>
    <3>1. store' \in Stores /\ Head(store.buffer.queue) \in Packets
      BY <1>0, <2>8, PopStore
    <3>2. sent' \in Seq(Packets)
      BY <1>0, <2>8, <3>1
    <3>3. QED
      BY <1>0, <2>1, <2>2, <2>8, <3>1, <3>2 DEF HandleInv
  <2>9. CASE UNCHANGED <<channel, warmup, rate, store, sent>>
    BY <1>0, <2>1, <2>2, <2>9 DEF HandleInv
  <2>10. QED
    BY <1>4, <2>4, <2>5, <2>6, <2>7, <2>8, <2>9, EngineMoves
       DEF GathersOn, LocksFull, LocksShort, TakesOne, EmitsOne, Ends
<1>5. QED
  BY <1>1, <1>2, <1>3, <1>4, StepKinds
-----------------------------------------------------------------------------
(* Every packet the channel took is on the wire, in the store or counted by  *)
(* it, held for the measurement or still in the channel; and the run is not  *)
(* over before the last of them.                                             *)
InHand == Len(sent) + Total(store) + Len(channel)
            + (IF rate = None THEN Len(warmup.packets) ELSE 0)

CountInv ==
  /\ accepted = InHand
  /\ task = "warmup" => rate = None /\ sent = <<>> /\ Total(store) = 0 /\ store.buffer.queue = <<>>
  /\ task \in {"pacing", "draining", "done"} => rate # None
  /\ task \in {"draining", "done"} => channel = <<>> /\ closing
  /\ closing => \A p \in Pushers : calls[p] = Idle
  /\ task = "done" => store.buffer.queue = <<>>

LEMMA InitCount == Init => CountInv
<1> SUFFICES ASSUME Init PROVE CountInv
  OBVIOUS
<1>1. store = [buffer |-> [queue |-> <<>>, capacity |-> 1], shed |-> 0, stripped |-> 0]
  BY DEF Init, NewStore, NewBuffer, LargerOf
<1>2. Total(store) = 0 /\ store.buffer.queue = <<>>
  BY <1>1 DEF Total
<1>3. warmup.packets = <<>>
  BY DEF Init, NewWarmUp
<1>4. /\ sent = <<>> /\ channel = <<>> /\ accepted = 0 /\ rate = None /\ task = "warmup" /\ closing = FALSE
      /\ \A p \in Pushers : calls[p] = Idle
  BY DEF Init
<1>5. InHand = 0
  BY <1>2, <1>3, <1>4 DEF InHand
<1>6. QED
  BY <1>2, <1>4, <1>5 DEF CountInv

LEMMA CountStep ==
  PartialInv /\ HandleInv /\ LockInv /\ CountInv /\ [Next]_vars => CountInv'
<1> SUFFICES ASSUME PartialInv, HandleInv, LockInv, CountInv, [Next]_vars PROVE CountInv'
  OBVIOUS
<1>0. /\ calls \in [Pushers -> Calls] /\ channel \in Seq(Packets) /\ sent \in Seq(Packets)
      /\ warmup \in WarmUps /\ warmup.packets \in Seq(Packets)
      /\ rate \in Nat \cup {None} /\ store \in Stores
      /\ Len(sent) \in Nat /\ Len(channel) \in Nat /\ Len(warmup.packets) \in Nat /\ Total(store) \in Nat
  <2>1. HandleInv /\ store.buffer.queue \in Seq(Packets) /\ store.shed \in Nat /\ store.stripped \in Nat
    BY DEF HandleInv, Stores
  <2>2. Len(store.buffer.queue) \in Nat
    BY <2>1
  <2>3. Total(store) \in Nat
    <3> DEFINE a == Len(store.buffer.queue)
               b == store.shed
               c == store.stripped
    <3>1. Total(store) = a + b + c
      BY DEF Total
    <3>2. a \in Nat /\ b \in Nat /\ c \in Nat
      BY <2>1, <2>2
    <3> HIDE DEF a, b, c
    <3>3. QED
      BY <3>1, <3>2
  <2>4. QED
    BY <2>1, <2>3 DEF HandleInv, WarmUps
<1> DEFINE held == IF rate = None THEN Len(warmup.packets) ELSE 0
<1>a. held \in Nat /\ accepted = Len(sent) + Total(store) + Len(channel) + held
  BY <1>0 DEF CountInv, InHand
<1>b. InHand' = Len(sent') + Total(store') + Len(channel')
                  + (IF rate' = None THEN Len(warmup'.packets) ELSE 0)
  BY DEF InHand, Total
<1>1. ASSUME NEW p \in Pushers, CallStep(p) PROVE CountInv'
  <2>1. HandlesCall(p)
    BY <1>1, CallsMove
  <2>2. UNCHANGED <<channel, closing, accepted, task, warmup, rate, store, sent>>
    BY <2>1 DEF HandlesCall, engine
  <2>3. ~closing
    BY <2>1 DEF HandlesCall, CountInv
  <2>4. InHand' = InHand
    BY <2>2 DEF InHand, Total
  <2>5. QED
    BY <2>2, <2>3, <2>4 DEF CountInv, Total
<1>2. ASSUME NEW p \in Pushers, Send(p) PROVE CountInv'
  <2>1. SendStep(p)
    BY <1>2, SendMoves
  <2>2. /\ UNCHANGED <<closing, task, warmup, rate, store, sent>> /\ accepted' = accepted + 1
        /\ calls[p].state = "send" /\ channel' = Append(channel, Head(calls[p].packets))
    BY <2>1 DEF SendStep, engine
  <2>3. ~closing
    BY <2>2 DEF CountInv, Idle
  <2>4. Len(channel') = Len(channel) + 1
    BY <1>0, <2>2
  <2>5. accepted' = InHand'
    BY <1>0, <1>a, <2>2, <2>4 DEF InHand, Total
  <2>6. QED
    BY <2>2, <2>3, <2>5 DEF CountInv, Total
<1>3. CASE Close
  <2>1. /\ UNCHANGED <<channel, accepted, calls, task, warmup, rate, store, sent>>
        /\ \A q \in Pushers : calls[q] = Idle
    BY <1>3 DEF Close, engine, handle
  <2>2. InHand' = InHand /\ Total(store)' = Total(store) /\ closing'
    BY <1>3, <2>1 DEF InHand, Total, Close
  <2>3. QED
    BY <2>1, <2>2 DEF CountInv
<1>4. CASE UNCHANGED vars
  BY <1>4 DEF vars, handle, engine, CountInv, InHand, Total
<1>5. CASE EngineStep
  <2>1. UNCHANGED <<calls, closing, accepted>>
    BY <1>5, EngineMoves
  <2>2. channel # <<>> => Len(Tail(channel)) = Len(channel) - 1 /\ Head(channel) \in Packets
    BY <1>0
  <2>3. channel # <<>> => Gathered \in WarmUps /\ Len(Gathered.packets) = Len(warmup.packets) + 1
    <3>1. ASSUME channel # <<>> PROVE Gathered \in WarmUps /\ Gathered.packets = Append(warmup.packets, Head(channel))
      BY <1>0, <2>2, <3>1, GatherCounts DEF Gathered, HandleInv
    <3>2. QED
      BY <1>0, <3>1, SMTT(30)
  <2>4. CASE GathersOn
    <3>0. /\ task = "warmup" /\ channel # <<>> /\ channel' = Tail(channel)
          /\ warmup' = Gathered /\ UNCHANGED <<task, rate, store, sent>>
      BY <2>4 DEF GathersOn
    <3>1. rate = None
      BY <3>0 DEF CountInv
    <3>2. Len(channel') = Len(channel) - 1 /\ Len(warmup'.packets) = Len(warmup.packets) + 1
      BY <2>2, <2>3, <3>0
    <3>3. accepted' = InHand'
      BY <1>0, <1>a, <2>1, <3>0, <3>1, <3>2 DEF InHand, Total
    <3>4. QED
      BY <2>1, <3>0, <3>3 DEF CountInv, Total
  <2>5. CASE LocksFull
    <3>0. /\ task = "warmup" /\ channel # <<>> /\ channel' = Tail(channel)
          /\ StartPacing(Gathered) /\ UNCHANGED sent
      BY <2>5 DEF LocksFull
    <3>1. /\ rate' \in Nat /\ Total(store)' = Len(Gathered.packets) /\ task' = "pacing"
      BY <2>3, <3>0, Starts DEF Total
    <3>2. rate = None /\ Total(store) = 0 /\ rate' # None
      BY <3>0, <3>1, PushHandleAssumption DEF CountInv
    <3>3. Len(channel') = Len(channel) - 1 /\ Total(store') = Len(warmup.packets) + 1
      BY <2>2, <2>3, <3>0, <3>1 DEF Total
    <3>4. accepted' = InHand'
      <4>1. held = Len(warmup.packets) /\ Len(channel') \in Nat /\ sent' = sent
        BY <1>0, <2>2, <2>3, <3>0, <3>2
      <4>2. InHand' = Len(sent') + Total(store') + Len(channel') + 0
        BY <1>b, <3>2
      <4> HIDE DEF held
      <4> DEFINE a == Len(sent)
                 c == Len(channel)
                 w == Len(warmup.packets)
      <4>3. a \in Nat /\ c \in Nat /\ w \in Nat
        BY <1>0
      <4>4. accepted' = a + 0 + c + w
        BY <1>a, <2>1, <3>2, <4>1
      <4>5. InHand' = a + (w + 1) + (c - 1) + 0
        BY <3>3, <4>1, <4>2
      <4> HIDE DEF a, c, w
      <4>6. QED
        BY <4>3, <4>4, <4>5
    <3>5. QED
      BY <2>1, <3>0, <3>1, <3>2, <3>4 DEF CountInv
  <2>6. CASE LocksShort
    <3>0. task = "warmup" /\ StartPacing(warmup) /\ UNCHANGED <<channel, sent>>
      BY <2>6 DEF LocksShort
    <3>1. /\ rate' \in Nat /\ Total(store)' = Len(warmup.packets) /\ task' = "pacing"
      BY <1>0, <3>0, Starts DEF Total
    <3>2. rate = None /\ Total(store) = 0 /\ rate' # None
      BY <3>0, <3>1, PushHandleAssumption DEF CountInv
    <3>3. accepted' = InHand'
      <4>1. held = Len(warmup.packets) /\ sent' = sent /\ channel' = channel /\ Total(store') = Len(warmup.packets)
        BY <1>0, <3>0, <3>1, <3>2 DEF Total
      <4>2. InHand' = Len(sent') + Total(store') + Len(channel') + 0
        BY <1>b, <3>2
      <4> HIDE DEF held
      <4> DEFINE a == Len(sent)
                 c == Len(channel)
                 w == Len(warmup.packets)
      <4>3. a \in Nat /\ c \in Nat /\ w \in Nat
        BY <1>0
      <4>4. accepted' = a + 0 + c + w
        BY <1>a, <2>1, <3>2, <4>1
      <4>5. InHand' = a + w + c + 0
        BY <4>1, <4>2
      <4> HIDE DEF a, c, w
      <4>6. QED
        BY <4>3, <4>4, <4>5
    <3>4. QED
      BY <2>1, <3>0, <3>1, <3>2, <3>3 DEF CountInv
  <2>7. CASE TakesOne
    <3>0. /\ task = "pacing" /\ channel # <<>> /\ channel' = Tail(channel)
          /\ Enters(store, Head(channel), store') /\ UNCHANGED <<task, warmup, rate, sent>>
      BY <2>7 DEF TakesOne
    <3>1. Total(store)' = Total(store) + 1
      BY <3>0 DEF Enters, Total
    <3>2. Len(channel') = Len(channel) - 1 /\ rate # None
      BY <2>2, <3>0 DEF CountInv
    <3>3. accepted' = InHand'
      BY <1>0, <1>a, <2>1, <3>0, <3>1, <3>2 DEF InHand
    <3>4. QED
      BY <2>1, <3>0, <3>2, <3>3 DEF CountInv
  <2>8. CASE EmitsOne
    <3>0. /\ task \in {"pacing", "draining"} /\ store.buffer.queue # <<>>
          /\ sent' = Append(sent, Head(store.buffer.queue))
          /\ store' = [store EXCEPT !.buffer = Pop(@)] /\ UNCHANGED <<channel, task, warmup, rate>>
      BY <2>8 DEF EmitsOne
    <3>1. Total(store') = Total(store) - 1 /\ Head(store.buffer.queue) \in Packets
      BY <1>0, <3>0, PopStore
    <3>2. Total(store)' = Total(store) - 1
      BY <3>1 DEF Total
    <3>3. Len(sent') = Len(sent) + 1
      BY <1>0, <3>0, <3>1
    <3>4. accepted' = InHand'
      BY <1>0, <1>a, <2>1, <3>0, <3>2, <3>3 DEF InHand
    <3>5. QED
      BY <2>1, <3>0, <3>4 DEF CountInv
  <2>9. CASE Ends
    <3>0. /\ \/ task = "pacing" /\ InputEnded /\ task' = "draining"
             \/ task = "draining" /\ store.buffer.queue = <<>> /\ task' = "done"
             \/ task' = "failed" /\ task # "done"
          /\ UNCHANGED <<channel, warmup, rate, store, sent>>
      BY <2>9 DEF Ends
    <3>1. InHand' = InHand
      BY <3>0 DEF InHand, Total
    <3>2. QED
      BY <2>1, <3>0, <3>1 DEF CountInv, InputEnded
  <2>10. QED
    BY <1>5, <2>4, <2>5, <2>6, <2>7, <2>8, <2>9, EngineMoves
<1>6. QED
  BY <1>1, <1>2, <1>3, <1>4, <1>5, StepKinds

LEMMA InitLock == Init => LockInv
  BY PushHandleAssumption DEF Init, LockInv

(* A close that returns well has put everything it accepted on the wire, or  *)
(* counted it: nothing is left in the channel, the buffer or the warm-up.    *)
THEOREM NothingLeftBehind == Spec => []CloseDeliversAll
<1>1. HandleInv /\ CountInv => CloseDeliversAll
  <2> SUFFICES ASSUME HandleInv, CountInv, task = "done"
               PROVE  channel = <<>> /\ accepted = Len(sent) + store.shed + store.stripped
    BY DEF CloseDeliversAll
  <2>1. channel = <<>> /\ rate # None /\ store.buffer.queue = <<>> /\ accepted = InHand
    BY DEF CountInv
  <2>2. store.shed \in Nat /\ store.stripped \in Nat /\ Len(sent) \in Nat
    BY DEF HandleInv, Stores
  <2>3. QED
    BY <2>1, <2>2 DEF InHand, Total
<1>2. QED
  BY <1>1, InitPartial, InitHandle, InitLock, InitCount, NextPartial, HandleStep, CountStep, PTL DEF Spec

(* The rate is locked where the task starts to pace, and only by the task:   *)
(* with a packet that makes the measurement whole, at the end of the input,  *)
(* or in a silence with enough to measure.                                   *)
StartsOn(v) ==
  /\ StartPacing(v) /\ v.pcrs = Cardinality(PcrIndices(v.packets))
  /\ InputEnded \/ Enough(v) \/ Measurable(v)

LEMMA LockStarts ==
  ASSUME HandleInv, [Next]_vars, Locks
  PROVE  \E v \in WarmUps : StartsOn(v)
<1>1. EngineStep
  <2>1. UNCHANGED rate => FALSE
    BY DEF Locks
  <2>2. \A p \in Pushers : CallStep(p) => UNCHANGED rate
    BY DEF CallStep, PushBytes, PushPackets, Split, SplitPacket, SplitSlip, SplitDone,
           PushReturnsOk, PushFails, Cancel, engine
  <2>3. \A p \in Pushers : Send(p) => UNCHANGED rate
    BY DEF Send, engine
  <2>4. Close \/ UNCHANGED vars => UNCHANGED rate
    BY DEF Close, vars, engine
  <2>5. QED
    BY <2>1, <2>2, <2>3, <2>4, StepKinds
<1>2. CASE LocksFull
  <2>1. channel \in Seq(Packets) /\ warmup \in WarmUps /\ warmup.pcrs = Cardinality(PcrIndices(warmup.packets))
    BY DEF HandleInv
  <2>2. Head(channel) \in Packets
    BY <1>2, <2>1 DEF LocksFull
  <2>3. Gathered \in WarmUps /\ Gathered.pcrs = Cardinality(PcrIndices(Gathered.packets))
    BY <2>1, <2>2, GatherCounts DEF Gathered
  <2>4. StartPacing(Gathered) /\ Enough(Gathered)
    BY <1>2 DEF LocksFull
  <2>5. QED
    BY <2>3, <2>4 DEF StartsOn
<1>3. CASE LocksShort
  <2>1. warmup \in WarmUps /\ warmup.pcrs = Cardinality(PcrIndices(warmup.packets))
    BY DEF HandleInv
  <2>2. StartPacing(warmup) /\ (InputEnded \/ Measurable(warmup))
    BY <1>3 DEF LocksShort
  <2>3. QED
    BY <2>1, <2>2 DEF StartsOn
<1>4. CASE UNCHANGED rate
  BY <1>4 DEF Locks
<1>5. QED
  BY <1>1, <1>2, <1>3, <1>4, EngineMoves DEF GathersOn, TakesOne, EmitsOne, Ends

(* The rate is locked on a measurement, unless the input has ended, is long  *)
(* without a clock, or its clock stands still: never on a silence alone.     *)
THEOREM RateMeasured == Spec => NeverGuesses
<1> DEFINE Ended == InputEnded \/ Len(warmup'.packets) >= WarmupMax \/ StandsStill(warmup'.packets)
<1>1. ASSUME PartialInv, HandleInv, [Next]_vars, Locks, ~HasEstimate(warmup'.packets) PROVE Ended
  <2>a. PICK v \in WarmUps : StartsOn(v)
    <3>1. HandleInv /\ [Next]_vars /\ Locks
      BY <1>1
    <3>2. QED
      BY <3>1, LockStarts
  <2>1. /\ StartPacing(v) /\ v.pcrs = Cardinality(PcrIndices(v.packets))
        /\ InputEnded \/ Enough(v) \/ Measurable(v)
    BY <2>a DEF StartsOn
  <2>2. warmup' = v
    BY <2>1 DEF StartPacing
  <2>3. CASE v.pcrs >= 2
    <3>1. Cardinality(PcrIndices(v.packets)) >= 2
      BY <2>1, <2>3
    <3>2. Span(v.packets).ticks = 0
      BY <1>1, <2>2, <3>1 DEF HasEstimate
    <3>3. QED
      BY <2>2, <3>1, <3>2 DEF StandsStill
  <2>4. CASE ~(v.pcrs >= 2)
    <3>1. v.pcrs \in Nat /\ WarmupPcrs \in Nat /\ WarmupPcrs >= 2
      BY <2>1, WarmUpAssumption DEF WarmUps
    <3>2. ~(v.pcrs >= WarmupPcrs) /\ ~Measurable(v)
      BY <2>4, <3>1 DEF Measurable
    <3>3. QED
      BY <2>1, <2>2, <3>2 DEF Enough
  <2>5. QED
    BY <2>3, <2>4
<1>2. PartialInv /\ HandleInv /\ [Next]_vars => (Locks /\ ~HasEstimate(warmup'.packets) => Ended)
  BY <1>1
<1>3. QED
  BY <1>2, InitPartial, InitHandle, InitLock, NextPartial, HandleStep, PTL DEF Spec, NeverGuesses
-----------------------------------------------------------------------------
(* The order in which one task's packets stand, within a sequence and from   *)
(* one to the next.                                                          *)
Before(a, b) == a.by = b.by => a.n < b.n
Ordered(s)   == \A i, j \in 1 .. Len(s) : i < j => Before(s[i], s[j])
Among(s)     == {s[i] : i \in 1 .. Len(s)}
Apart(A, B)  == \A a \in A, b \in B : Before(a, b)

LEMMA NoneAmong == Among(<<>>) = {} /\ Ordered(<<>>)
  BY DEF Among, Ordered

LEMMA OneAmong == ASSUME NEW x PROVE Among(<<x>>) = {x} /\ Ordered(<<x>>)
  BY DEF Among, Ordered

LEMMA AppendKeeps ==
  ASSUME NEW s \in Seq(Packets), NEW x \in Packets
  PROVE  /\ Among(Append(s, x)) = Among(s) \cup {x}
         /\ Ordered(s) /\ Apart(Among(s), {x}) => Ordered(Append(s, x))
<1> DEFINE t == Append(s, x)
           n == Len(s)
<1>1. n \in Nat /\ Len(t) = n + 1 /\ t[n + 1] = x /\ \A i \in 1 .. n : t[i] = s[i]
  OBVIOUS
<1> HIDE DEF t, n
<1>2. Among(t) = Among(s) \cup {x}
  <2>1. Among(s) = {s[i] : i \in 1 .. n}
    BY DEF Among, n
  <2>2. ASSUME NEW y \in Among(t) PROVE y \in Among(s) \cup {x}
    <3>1. PICK i \in 1 .. n + 1 : y = t[i]
      BY <1>1 DEF Among
    <3>2. i \in 1 .. n \/ i = n + 1
      BY <1>1
    <3>3. QED
      BY <1>1, <2>1, <3>1, <3>2
  <2>3. ASSUME NEW y \in Among(s) PROVE y \in Among(t)
    <3>1. PICK i \in 1 .. n : y = s[i]
      BY <2>1
    <3>2. i \in 1 .. n + 1 /\ y = t[i]
      BY <1>1, <3>1
    <3>3. QED
      BY <1>1, <3>2 DEF Among
  <2>4. x \in Among(t)
    <3>1. n + 1 \in 1 .. n + 1
      BY <1>1
    <3>2. QED
      BY <1>1, <3>1 DEF Among
  <2>5. QED
    BY <2>2, <2>3, <2>4
<1>3. ASSUME Ordered(s), Apart(Among(s), {x}) PROVE Ordered(t)
  <2>1. ASSUME NEW i \in 1 .. n + 1, NEW j \in 1 .. n + 1, i < j PROVE Before(t[i], t[j])
    <3>1. i \in 1 .. n /\ (j \in 1 .. n \/ j = n + 1)
      BY <1>1, <2>1
    <3>2. CASE j \in 1 .. n
      BY <1>1, <1>3, <2>1, <3>1, <3>2 DEF Ordered, n
    <3>3. CASE j = n + 1
      <4>1. s[i] \in Among(s)
        BY <3>1 DEF Among, n
      <4>2. QED
        BY <1>1, <1>3, <3>1, <3>3, <4>1 DEF Apart
    <3>4. QED
      BY <3>1, <3>2, <3>3
  <2>2. QED
    BY <1>1, <2>1 DEF Ordered
<1>4. QED
  BY <1>2, <1>3 DEF t

LEMMA TailKeeps ==
  ASSUME NEW s \in Seq(Packets), s # <<>>
  PROVE  /\ Among(s) = {Head(s)} \cup Among(Tail(s))
         /\ Ordered(s) => Ordered(Tail(s)) /\ Apart({Head(s)}, Among(Tail(s)))
<1> DEFINE t == Tail(s)
           n == Len(s)
<1>1. /\ n \in Nat \ {0} /\ Len(t) = n - 1 /\ Head(s) = s[1]
      /\ \A i \in 1 .. n - 1 : t[i] = s[i + 1]
  OBVIOUS
<1> HIDE DEF t, n
<1>2. Among(s) = {s[i] : i \in 1 .. n} /\ Among(t) = {t[i] : i \in 1 .. n - 1}
  BY <1>1 DEF Among, n
<1>3. ASSUME NEW i \in 1 .. n - 1 PROVE i + 1 \in 1 .. n /\ t[i] = s[i + 1]
  BY <1>1
<1>4. Among(s) = {Head(s)} \cup Among(t)
  <2>1. ASSUME NEW y \in Among(s) PROVE y \in {Head(s)} \cup Among(t)
    <3>1. PICK i \in 1 .. n : y = s[i]
      BY <1>2
    <3>2. CASE i = 1
      BY <1>1, <3>1, <3>2
    <3>3. CASE i # 1
      <4> DEFINE j == i - 1
      <4>1. j \in 1 .. n - 1 /\ j + 1 = i
        BY <1>1, <3>3
      <4> HIDE DEF j
      <4>2. t[j] = s[i]
        BY <1>3, <4>1
      <4>3. QED
        BY <1>2, <3>1, <4>1, <4>2
    <3>4. QED
      BY <3>2, <3>3
  <2>2. ASSUME NEW y \in Among(t) PROVE y \in Among(s)
    BY <1>2, <1>3
  <2>3. Head(s) \in Among(s)
    BY <1>1, <1>2
  <2>4. QED
    BY <2>1, <2>2, <2>3
<1>5. ASSUME Ordered(s) PROVE Ordered(t) /\ Apart({Head(s)}, Among(t))
  <2>1. ASSUME NEW i \in 1 .. n - 1, NEW j \in 1 .. n - 1, i < j PROVE Before(t[i], t[j])
    <3>1. i + 1 \in 1 .. n /\ j + 1 \in 1 .. n /\ i + 1 < j + 1
      BY <1>1, <2>1
    <3> DEFINE k == i + 1
               l == j + 1
    <3>2. t[i] = s[k] /\ t[j] = s[l]
      BY <1>3
    <3> HIDE DEF k, l
    <3>3. k \in 1 .. Len(s) /\ l \in 1 .. Len(s) /\ k < l
      BY <3>1 DEF k, l, n
    <3>4. QED
      BY <1>5, <3>2, <3>3 DEF Ordered
  <2>2. ASSUME NEW b \in Among(t) PROVE Before(Head(s), b)
    <3>1. PICK j \in 1 .. n - 1 : b = t[j]
      BY <1>2
    <3> DEFINE l == j + 1
    <3>2. l \in 1 .. n /\ 1 \in 1 .. n /\ 1 < l
      BY <1>1
    <3>3. t[j] = s[l]
      BY <1>3
    <3> HIDE DEF l
    <3>4. Before(s[1], s[l])
      BY <1>5, <3>2 DEF Ordered, n
    <3>5. QED
      BY <1>1, <3>1, <3>3, <3>4
  <2>3. QED
    BY <1>1, <2>1, <2>2 DEF Ordered, Apart
<1>6. QED
  BY <1>4, <1>5 DEF t

LEMMA JoinKeeps ==
  ASSUME NEW s \in Seq(Packets), NEW t \in Seq(Packets),
         Ordered(s), Ordered(t), Apart(Among(s), Among(t))
  PROVE  s \o t \in Seq(Packets) /\ Ordered(s \o t) /\ Among(s \o t) = Among(s) \cup Among(t)
<1> DEFINE u == s \o t
           m == Len(s)
           n == Len(t)
<1>1. m \in Nat /\ n \in Nat /\ u \in Seq(Packets) /\ Len(u) = m + n
  BY ConcatProperties
<1>2. \A i \in 1 .. m + n : u[i] = IF i <= m THEN s[i] ELSE t[i - m]
  BY ConcatProperties
<1> HIDE DEF u
<1>3. Among(s) = {s[i] : i \in 1 .. m} /\ Among(t) = {t[i] : i \in 1 .. n} /\ Among(u) = {u[i] : i \in 1 .. m + n}
  BY <1>1 DEF Among
<1>4. /\ \A i, j \in 1 .. m : i < j => Before(s[i], s[j])
      /\ \A i, j \in 1 .. n : i < j => Before(t[i], t[j])
  BY DEF Ordered
<1> HIDE DEF m, n
<1>5. ASSUME NEW i \in 1 .. m + n
      PROVE  \/ i \in 1 .. m /\ u[i] = s[i]
             \/ i - m \in 1 .. n /\ ~(i <= m) /\ u[i] = t[i - m]
  BY <1>1, <1>2
<1>6. Ordered(u)
  <2>1. ASSUME NEW i \in 1 .. m + n, NEW j \in 1 .. m + n, i < j PROVE Before(u[i], u[j])
    <3>1. CASE i \in 1 .. m /\ u[i] = s[i] /\ j \in 1 .. m /\ u[j] = s[j]
      BY <1>4, <2>1, <3>1
    <3>2. CASE i \in 1 .. m /\ u[i] = s[i] /\ j - m \in 1 .. n /\ u[j] = t[j - m]
      <4>1. u[i] \in Among(s) /\ u[j] \in Among(t)
        BY <1>3, <3>2
      <4>2. QED
        BY <4>1 DEF Apart
    <3>3. CASE i - m \in 1 .. n /\ u[i] = t[i - m] /\ j - m \in 1 .. n /\ u[j] = t[j - m]
      <4> DEFINE k == i - m
                 l == j - m
      <4>1. k \in 1 .. n /\ l \in 1 .. n /\ k < l /\ u[i] = t[k] /\ u[j] = t[l]
        BY <1>1, <2>1, <3>3, SMTT(30)
      <4> HIDE DEF k, l
      <4>2. QED
        BY <1>4, <4>1
    <3>4. ~(i - m \in 1 .. n /\ ~(i <= m) /\ j \in 1 .. m)
      BY <1>1, <2>1, SMTT(30)
    <3>5. QED
      BY <1>5, <3>1, <3>2, <3>3, <3>4
  <2>2. QED
    BY <1>1, <2>1 DEF Ordered
<1>7. Among(u) = Among(s) \cup Among(t)
  <2>1. ASSUME NEW y \in Among(u) PROVE y \in Among(s) \cup Among(t)
    <3>1. PICK i \in 1 .. m + n : y = u[i]
      BY <1>3
    <3>2. QED
      BY <1>3, <1>5, <3>1
  <2>2. ASSUME NEW y \in Among(s) PROVE y \in Among(u)
    <3>1. PICK i \in 1 .. m : y = s[i]
      BY <1>3
    <3>2. i \in 1 .. m + n /\ u[i] = s[i]
      BY <1>1, <1>2
    <3>3. QED
      BY <1>3, <3>1, <3>2
  <2>3. ASSUME NEW y \in Among(t) PROVE y \in Among(u)
    <3>1. PICK j \in 1 .. n : y = t[j]
      BY <1>3
    <3> DEFINE i == m + j
    <3>2. i \in 1 .. m + n /\ ~(i <= m) /\ i - m = j
      BY <1>1
    <3> HIDE DEF i
    <3>3. u[i] = t[j]
      BY <1>2, <3>2
    <3>4. QED
      BY <1>3, <3>1, <3>2, <3>3
  <2>4. QED
    BY <2>1, <2>2, <2>3
<1>8. QED
  BY <1>1, <1>6, <1>7 DEF u
LEMMA EntersInOrder ==
  ASSUME NEW s \in Stores, NEW x \in Packets, NEW t, Enters(s, x, t),
         Ordered(s.buffer.queue), Apart(Among(s.buffer.queue), {x})
  PROVE  /\ Ordered(t.buffer.queue)
         /\ Among(t.buffer.queue) \subseteq Among(s.buffer.queue) \cup {x}
<1> DEFINE q == s.buffer.queue
           r == t.buffer.queue
<1>1. q \in Seq(Packets)
  BY DEF Stores
<1>2. CASE r = q
  BY <1>2
<1>3. CASE r = Append(q, x)
  BY <1>1, <1>3, AppendKeeps
<1>4. CASE q # <<>> /\ r = Append(Tail(q), x)
  <2>1. Tail(q) \in Seq(Packets)
    BY <1>1, <1>4
  <2>2. Ordered(Tail(q)) /\ Among(Tail(q)) \subseteq Among(q)
    BY <1>1, <1>4, TailKeeps
  <2>3. Apart(Among(Tail(q)), {x})
    BY <2>2 DEF Apart
  <2> DEFINE u == Tail(q)
  <2> HIDE DEF u
  <2>4. Ordered(Append(u, x)) /\ Among(Append(u, x)) = Among(u) \cup {x}
    BY <2>1, <2>2, <2>3, AppendKeeps DEF u
  <2>5. r = Append(u, x)
    BY <1>4 DEF u
  <2>6. Ordered(r) /\ Among(r) = Among(u) \cup {x}
    BY <2>4, <2>5
  <2>7. Among(r) \subseteq Among(q) \cup {x}
    BY <2>2, <2>6 DEF u
  <2>8. QED
    BY <2>6, <2>7
<1>5. QED
  BY <1>2, <1>3, <1>4 DEF Enters

(* The warm-up goes into the store in order.                                 *)
LEMMA PrimedInOrder ==
  ASSUME NEW s \in Stores, s.buffer.queue = <<>>, Total(s) = 0, NEW packets \in Seq(Packets),
         Ordered(packets)
  PROVE  /\ Ordered(Primed(s, packets)[Len(packets)].buffer.queue)
         /\ Among(Primed(s, packets)[Len(packets)].buffer.queue) \subseteq Among(packets)
<1> DEFINE f == Primed(s, packets)
           n == Len(packets)
           First(i) == {packets[j] : j \in 1 .. i}
           Good(i) == Ordered(f[i].buffer.queue) /\ Among(f[i].buffer.queue) \subseteq First(i)
           T == {i \in 0 .. n : Good(i)}
<1>1. n \in Nat /\ f[0] = s /\ \A i \in 1 .. n : f[i] = Enqueue(f[i - 1], packets[i])
  BY PrimedIs
<1>2. \A i \in 0 .. n : f[i] \in Stores
  BY PrimedStore
<1> HIDE DEF f
<1>3. 0 \in T
  BY <1>1, NoneAmong
<1>4. ASSUME NEW i \in 1 .. n, i - 1 \in T PROVE i \in T
  <2> DEFINE x == packets[i]
             u == f[i - 1]
  <2>1. u \in Stores /\ x \in Packets /\ Ordered(u.buffer.queue) /\ Among(u.buffer.queue) \subseteq First(i - 1)
    BY <1>2, <1>4
  <2>2. Apart(First(i - 1), {x})
    <3>1. ASSUME NEW j \in 1 .. i - 1 PROVE Before(packets[j], packets[i])
      <4>1. j \in 1 .. Len(packets) /\ i \in 1 .. Len(packets) /\ j < i
        BY <1>1
      <4>2. QED
        BY <4>1 DEF Ordered
    <3>2. QED
      BY <3>1 DEF Apart
  <2>3. Apart(Among(u.buffer.queue), {x})
    BY <2>1, <2>2 DEF Apart
  <2>4. f[i] = Enqueue(u, x)
    BY <1>1
  <2>5. First(i - 1) \cup {x} = First(i)
    BY <1>1
  <2> HIDE DEF x, u, First
  <2>6. Enters(u, x, f[i])
    BY <2>1, <2>4, Enqueues
  <2>7. Ordered(f[i].buffer.queue) /\ Among(f[i].buffer.queue) \subseteq Among(u.buffer.queue) \cup {x}
    BY <2>1, <2>3, <2>6, EntersInOrder
  <2>8. Good(i)
    BY <2>1, <2>5, <2>7
  <2>9. QED
    BY <2>8
<1>5. \A i \in 0 .. n : i \in T
  <2> HIDE DEF T
  <2>1. QED
    BY <1>1, <1>3, <1>4, Climb
<1>6. Good(n)
  <2>1. n \in T
    <3>1. n \in 0 .. n
      BY <1>1
    <3> HIDE DEF T
    <3>2. QED
      BY <1>5, <3>1
  <2>2. QED
    BY <2>1
<1>7. QED
  BY <1>6 DEF f, Among

(* The line from the wire back to the channel is in order, and behind it     *)
(* what each call still has to send.                                         *)
Held  == IF rate = None THEN warmup.packets ELSE <<>>
Lined == Among(sent) \cup Among(store.buffer.queue) \cup Among(Held) \cup Among(channel)

LineInOrder ==
  /\ Ordered(sent) /\ Ordered(store.buffer.queue) /\ Ordered(Held) /\ Ordered(channel)
  /\ Apart(Among(sent), Among(store.buffer.queue) \cup Among(Held) \cup Among(channel))
  /\ Apart(Among(store.buffer.queue), Among(Held) \cup Among(channel))
  /\ Apart(Among(Held), Among(channel))

Behind(p) ==
  /\ Ordered(calls[p].packets)
  /\ \A x \in Among(calls[p].packets) : x.by = p /\ x.n <= serial[p]
  /\ Apart(Lined, Among(calls[p].packets))

OrderInv ==
  /\ LineInOrder
  /\ \A x \in Lined : x.n <= serial[x.by]
  /\ \A p \in Pushers : Behind(p)

LEMMA InitOrder == Init => OrderInv
<1> SUFFICES ASSUME Init PROVE OrderInv
  OBVIOUS
<1>1. /\ sent = <<>> /\ store.buffer.queue = <<>> /\ Held = <<>> /\ channel = <<>>
      /\ \A p \in Pushers : calls[p].packets = <<>>
  BY DEF Init, NewStore, NewBuffer, NewWarmUp, Held, Idle
<1>2. QED
  BY <1>1, NoneAmong DEF OrderInv, LineInOrder, Behind, Lined, Apart

(* What is in the line are packets.                                          *)
LEMMA LineTyped ==
  ASSUME HandleInv
  PROVE  /\ sent \in Seq(Packets) /\ store.buffer.queue \in Seq(Packets)
         /\ Held \in Seq(Packets) /\ channel \in Seq(Packets)
         /\ Lined \subseteq Packets
<1>1. /\ sent \in Seq(Packets) /\ store.buffer.queue \in Seq(Packets)
      /\ channel \in Seq(Packets) /\ warmup.packets \in Seq(Packets)
  BY DEF HandleInv, Stores, WarmUps
<1>2. <<>> \in Seq(Packets)
  OBVIOUS
<1>3. Held \in Seq(Packets)
  BY <1>1, <1>2 DEF Held
<1>4. ASSUME NEW s \in Seq(Packets) PROVE Among(s) \subseteq Packets
  BY DEF Among
<1>5. Lined \subseteq Packets
  BY <1>1, <1>3, <1>4 DEF Lined
<1>6. QED
  BY <1>1, <1>3, <1>5

(* The task's own steps hand packets on from one place to the next.  What    *)
(* stays to be shown of one is that the line is in order after it and holds  *)
(* nothing new.                                                              *)
LEMMA LineShrinks ==
  ASSUME OrderInv, UNCHANGED <<calls, serial>>, LineInOrder', Lined' \subseteq Lined
  PROVE  OrderInv'
<1>1. \A x \in Lined' : x.n <= serial'[x.by]
  BY DEF OrderInv
<1>2. ASSUME NEW p \in Pushers PROVE Behind(p)'
  <2>1. /\ Ordered(calls[p].packets)
        /\ \A x \in Among(calls[p].packets) : x.by = p /\ x.n <= serial[p]
        /\ Apart(Lined, Among(calls[p].packets))
    BY DEF OrderInv, Behind
  <2>2. Apart(Lined', Among(calls[p].packets))
    BY <2>1 DEF Apart
  <2>3. Behind(p)' = (/\ Ordered(calls'[p].packets)
                      /\ \A x \in Among(calls'[p].packets) : x.by = p /\ x.n <= serial'[p]
                      /\ Apart(Lined', Among(calls'[p].packets)))
    BY DEF Behind, Ordered, Among, Apart
  <2>4. QED
    BY <2>1, <2>2, <2>3
<1>3. QED
  BY <1>1, <1>2 DEF OrderInv
(* A call's own step: what it takes on comes after all that task ever took   *)
(* on, and the line is as it was.                                            *)
LEMMA CallKeepsOrder ==
  ASSUME HandleInv, OrderInv, NEW p \in Pushers, HandlesCall(p)
  PROVE  OrderInv'
<1>1. /\ calls \in [Pushers -> Calls] /\ serial \in [Pushers -> Nat] /\ Lined \subseteq Packets
      /\ \A q \in Pushers : calls[q].packets \in Seq(Packets)
      /\ \A q \in Pushers : serial[q] \in Nat
  BY LineTyped DEF HandleInv, Calls
<1>2. UNCHANGED <<sent, store, rate, warmup, channel>>
  BY DEF HandlesCall, engine
<1>3. LineInOrder' /\ Lined' = Lined
  BY <1>2 DEF OrderInv, LineInOrder, Lined, Held, Ordered, Among, Apart
<1>4. PICK c \in Calls : /\ calls' = [calls EXCEPT ![p] = c]
                         /\ KeepsCall(p, c) \/ \E x \in Packets : TakesOn(p, c, x)
  BY DEF HandlesCall
<1>5. calls'[p] = c /\ \A q \in Pushers : q # p => calls'[q] = calls[q]
  BY <1>1, <1>4
<1>6. \A x \in Lined : x.n <= serial[x.by] /\ x.n \in Nat /\ x.by \in Pushers
  BY <1>1 DEF OrderInv, Packets
<1>7. ASSUME NEW q \in Pushers
      PROVE  /\ Ordered(calls[q].packets) /\ Apart(Lined, Among(calls[q].packets))
             /\ \A x \in Among(calls[q].packets) : x.by = q /\ x.n <= serial[q]
  BY DEF OrderInv, Behind
<1>8. ASSUME \A x \in Lined : x.n <= serial'[x.by],
             Ordered(c.packets), Apart(Lined, Among(c.packets)),
             \A x \in Among(c.packets) : x.by = p /\ x.n <= serial'[p],
             \A q \in Pushers : q # p => serial'[q] = serial[q]
      PROVE  OrderInv'
  <2>1. ASSUME NEW q \in Pushers PROVE Behind(q)'
    <3>1. Behind(q)' = (/\ Ordered(calls'[q].packets)
                        /\ \A x \in Among(calls'[q].packets) : x.by = q /\ x.n <= serial'[q]
                        /\ Apart(Lined', Among(calls'[q].packets)))
      BY DEF Behind, Ordered, Among, Apart
    <3>2. CASE q = p
      BY <1>3, <1>5, <1>8, <3>1, <3>2
    <3>3. CASE q # p
      BY <1>3, <1>5, <1>7, <1>8, <3>1, <3>3
    <3>4. QED
      BY <3>2, <3>3
  <2>2. QED
    BY <1>3, <1>8, <2>1 DEF OrderInv
<1>9. CASE KeepsCall(p, c)
  <2>1. serial' = serial /\ (c.packets = calls[p].packets \/ c.packets = <<>>)
    BY <1>9 DEF KeepsCall
  <2>2. Ordered(c.packets) /\ Apart(Lined, Among(c.packets))
        /\ \A x \in Among(c.packets) : x.by = p /\ x.n <= serial[p]
    BY <1>7, <2>1, NoneAmong DEF Apart
  <2>3. QED
    BY <1>6, <1>8, <2>1, <2>2
<1>10. ASSUME NEW x \in Packets, TakesOn(p, c, x) PROVE OrderInv'
  <2> DEFINE s == calls[p].packets
             k == serial[p]
  <2>1. /\ x.by = p /\ x.n = k + 1 /\ serial' = [serial EXCEPT ![p] = k + 1]
        /\ c.packets = <<x>> \/ c.packets = Append(s, x)
    BY <1>10 DEF TakesOn
  <2>2. k \in Nat /\ s \in Seq(Packets)
    BY <1>1
  <2>3. serial'[p] = k + 1 /\ \A q \in Pushers : q # p => serial'[q] = serial[q]
    BY <1>1, <2>1
  <2>4. \A y \in Among(s) : y.by = p /\ y.n <= k /\ y.n \in Nat
    <3>1. Among(s) \subseteq Packets
      BY <2>2 DEF Among
    <3>2. QED
      BY <1>7, <3>1 DEF Packets
  <2>5. \A y \in Lined : y.n <= serial'[y.by]
    <3>1. ASSUME NEW y \in Lined PROVE y.n <= serial'[y.by]
      <4>1. y.by \in Pushers /\ y.n \in Nat /\ y.n <= serial[y.by]
        BY <1>6
      <4>2. CASE y.by = p
        BY <2>2, <2>3, <4>1, <4>2
      <4>3. CASE y.by # p
        BY <2>3, <4>1, <4>3
      <4>4. QED
        BY <4>2, <4>3
    <3>2. QED
      BY <3>1
  <2>6. Apart(Lined, {x})
    <3>1. ASSUME NEW y \in Lined, y.by = x.by PROVE y.n < x.n
      BY <1>6, <2>1, <2>2, <3>1
    <3>2. QED
      BY <3>1 DEF Apart, Before
  <2>7. Apart(Among(s), {x})
    <3>1. ASSUME NEW y \in Among(s) PROVE y.n < x.n
      BY <2>1, <2>2, <2>4
    <3>2. QED
      BY <3>1 DEF Apart, Before
  <2>8. Ordered(c.packets) /\ Among(c.packets) \subseteq Among(s) \cup {x}
    <3>1. Ordered(Append(s, x)) /\ Among(Append(s, x)) = Among(s) \cup {x}
      BY <1>7, <2>2, <2>7, AppendKeeps
    <3>2. QED
      BY <2>1, <3>1, OneAmong
  <2>9. Apart(Lined, Among(c.packets))
    BY <1>7, <2>6, <2>8 DEF Apart
  <2>10. \A y \in Among(c.packets) : y.by = p /\ y.n <= serial'[p]
    <3>1. \A y \in Among(s) : y.by = p /\ y.n <= k + 1
      BY <2>2, <2>4
    <3>2. x.by = p /\ x.n <= k + 1
      BY <2>1, <2>2
    <3>3. QED
      BY <2>3, <2>8, <3>1, <3>2
  <2>11. QED
    BY <1>8, <2>3, <2>5, <2>8, <2>9, <2>10
<1>11. QED
  BY <1>4, <1>9, <1>10

(* A send moves the call's next packet to the end of the line.               *)
LEMMA SendKeepsOrder ==
  ASSUME HandleInv, OrderInv, NEW p \in Pushers, SendStep(p)
  PROVE  OrderInv'
<1> DEFINE s == calls[p].packets
           h == Head(s)
           r == Tail(s)
<1>1. /\ calls \in [Pushers -> Calls] /\ s \in Seq(Packets) /\ s # <<>>
      /\ channel \in Seq(Packets) /\ Lined \subseteq Packets
  BY LineTyped DEF HandleInv, Calls, SendStep
<1>2. h \in Packets /\ r \in Seq(Packets)
  BY <1>1
<1>3. channel' = Append(channel, h) /\ UNCHANGED <<sent, store, rate, warmup, serial>>
  BY DEF SendStep, engine
<1>4. calls'[p].packets = r /\ \A q \in Pushers : q # p => calls'[q] = calls[q]
  BY <1>1 DEF SendStep
<1>5. ASSUME NEW q \in Pushers
      PROVE  /\ Ordered(calls[q].packets) /\ Apart(Lined, Among(calls[q].packets))
             /\ \A x \in Among(calls[q].packets) : x.by = q /\ x.n <= serial[q]
  BY DEF OrderInv, Behind
<1>6. Among(s) = {h} \cup Among(r) /\ Ordered(r) /\ Apart({h}, Among(r))
  BY <1>1, <1>5, TailKeeps
<1>7. Apart(Lined, {h}) /\ h.by = p /\ h.n <= serial[p]
  BY <1>5, <1>6 DEF Apart
<1>8. Among(channel') = Among(channel) \cup {h} /\ Ordered(channel')
  <2>1. Apart(Among(channel), {h}) /\ Ordered(channel)
    BY <1>7 DEF Apart, Lined, OrderInv, LineInOrder
  <2>2. QED
    BY <1>1, <1>2, <1>3, <2>1, AppendKeeps
<1> HIDE DEF s, h, r
<1>9. Lined' = Lined \cup {h}
  <2>1. Lined' = Among(sent) \cup Among(store.buffer.queue) \cup Among(Held) \cup Among(channel')
    BY <1>3 DEF Lined, Held, Among
  <2>2. QED
    BY <1>8, <2>1 DEF Lined
<1>10. LineInOrder'
  <2> DEFINE a == Among(sent)
             b == Among(store.buffer.queue)
             d == Among(Held)
             e == Among(channel)
  <2>1. Ordered(sent) /\ Ordered(store.buffer.queue) /\ Ordered(Held)
        /\ Apart(a, b \cup d \cup e) /\ Apart(b, d \cup e) /\ Apart(d, e)
    BY DEF OrderInv, LineInOrder
  <2>2. Apart(a, {h}) /\ Apart(b, {h}) /\ Apart(d, {h})
    BY <1>7 DEF Apart, Lined
  <2>3. LineInOrder' = (/\ Ordered(sent) /\ Ordered(store.buffer.queue) /\ Ordered(Held) /\ Ordered(channel')
                        /\ Apart(a, b \cup d \cup Among(channel')) /\ Apart(b, d \cup Among(channel'))
                        /\ Apart(d, Among(channel')))
    BY <1>3 DEF LineInOrder, Held, Among, Ordered, Apart
  <2> HIDE DEF a, b, d, e
  <2>4. Among(channel') = e \cup {h}
    BY <1>8 DEF e
  <2>5. Apart(a, b \cup d \cup Among(channel')) /\ Apart(b, d \cup Among(channel')) /\ Apart(d, Among(channel'))
    BY <2>1, <2>2, <2>4 DEF Apart
  <2>6. QED
    BY <1>8, <2>1, <2>3, <2>5
<1>11. \A x \in Lined' : x.n <= serial'[x.by]
  BY <1>3, <1>7, <1>9 DEF OrderInv
<1>12. ASSUME NEW q \in Pushers PROVE Behind(q)'
  <2>1. Behind(q)' = (/\ Ordered(calls'[q].packets)
                      /\ \A x \in Among(calls'[q].packets) : x.by = q /\ x.n <= serial'[q]
                      /\ Apart(Lined', Among(calls'[q].packets)))
    BY DEF Behind, Ordered, Among, Apart
  <2>2. CASE q = p
    <3>1. Among(r) \subseteq Among(s) /\ calls'[q].packets = r /\ Ordered(r)
      BY <1>4, <1>6, <2>2
    <3>2. \A x \in Among(s) : x.by = q /\ x.n <= serial[q]
      BY <1>5, <2>2 DEF s
    <3>3. Apart(Lined, Among(s))
      BY <1>5 DEF s
    <3>4. Apart(Lined \cup {h}, Among(r))
      BY <1>6, <3>1, <3>3 DEF Apart
    <3>5. QED
      BY <1>3, <1>9, <2>1, <3>1, <3>2, <3>4
  <2>3. CASE q # p
    <3>1. Apart({h}, Among(calls[q].packets))
      BY <1>5, <1>7, <2>3 DEF Apart, Before
    <3>2. Apart(Lined \cup {h}, Among(calls[q].packets))
      BY <1>5, <3>1 DEF Apart
    <3>3. QED
      BY <1>3, <1>4, <1>5, <1>9, <2>1, <2>3, <3>2
  <2>4. QED
    BY <2>2, <2>3
<1>13. QED
  BY <1>10, <1>11, <1>12 DEF OrderInv
LEMMA LineAfter ==
  ASSUME OrderInv, UNCHANGED <<calls, serial>>,
         NEW a, NEW b, NEW d, NEW e,
         sent' = a, store'.buffer.queue = b, Held' = d, channel' = e,
         Ordered(a), Ordered(b), Ordered(d), Ordered(e),
         Apart(Among(a), Among(b) \cup Among(d) \cup Among(e)),
         Apart(Among(b), Among(d) \cup Among(e)), Apart(Among(d), Among(e)),
         Among(a) \cup Among(b) \cup Among(d) \cup Among(e) \subseteq Lined
  PROVE  OrderInv'
<1>1. LineInOrder' = (/\ Ordered(a) /\ Ordered(b) /\ Ordered(d) /\ Ordered(e)
                      /\ Apart(Among(a), Among(b) \cup Among(d) \cup Among(e))
                      /\ Apart(Among(b), Among(d) \cup Among(e)) /\ Apart(Among(d), Among(e)))
  BY DEF LineInOrder, Ordered, Among, Apart
<1>2. Lined' = Among(a) \cup Among(b) \cup Among(d) \cup Among(e)
  BY DEF Lined, Among
<1>3. QED
  BY <1>1, <1>2, LineShrinks

LEMMA EngineKeepsOrder ==
  ASSUME HandleInv, CountInv, OrderInv, EngineStep
  PROVE  OrderInv'
<1> DEFINE q == store.buffer.queue
           w == warmup.packets
           h == Head(channel)
           r == Tail(channel)
<1>1. /\ sent \in Seq(Packets) /\ q \in Seq(Packets) /\ Held \in Seq(Packets) /\ channel \in Seq(Packets)
      /\ warmup \in WarmUps /\ w \in Seq(Packets) /\ store \in Stores
      /\ warmup.pcrs = Cardinality(PcrIndices(warmup.packets))
  BY LineTyped DEF HandleInv, WarmUps
<1>2. /\ Ordered(sent) /\ Ordered(q) /\ Ordered(Held) /\ Ordered(channel)
      /\ Apart(Among(sent), Among(q)) /\ Apart(Among(sent), Among(Held)) /\ Apart(Among(sent), Among(channel))
      /\ Apart(Among(q), Among(Held)) /\ Apart(Among(q), Among(channel))
      /\ Apart(Among(Held), Among(channel))
      /\ Lined = Among(sent) \cup Among(q) \cup Among(Held) \cup Among(channel)
  BY DEF OrderInv, LineInOrder, Apart, Lined
<1>3. UNCHANGED <<calls, serial>>
  BY EngineMoves
<1>4. channel # <<>> => /\ h \in Packets /\ r \in Seq(Packets) /\ Ordered(r) /\ Apart({h}, Among(r))
                        /\ Among(channel) = {h} \cup Among(r)
  <2> SUFFICES ASSUME channel # <<>>
               PROVE  /\ h \in Packets /\ r \in Seq(Packets) /\ Ordered(r) /\ Apart({h}, Among(r))
                      /\ Among(channel) = {h} \cup Among(r)
    OBVIOUS
  <2>1. h \in Packets /\ r \in Seq(Packets)
    BY <1>1
  <2>2. Ordered(r) /\ Apart({h}, Among(r)) /\ Among(channel) = {h} \cup Among(r)
    BY <1>1, <1>2, TailKeeps
  <2>3. QED
    BY <2>1, <2>2
<1>5. channel # <<>> => Gathered \in WarmUps /\ Gathered.packets = Append(w, h)
  BY <1>1, <1>4, GatherCounts DEF Gathered
<1>6. rate = None => Held = w
  BY DEF Held
(* the warm-up, with what has just come, in order and ahead of the rest      *)
<1>7. ASSUME channel # <<>>, rate = None
      PROVE  /\ Ordered(Append(w, h)) /\ Among(Append(w, h)) = Among(Held) \cup {h}
             /\ Apart(Among(Append(w, h)), Among(r))
  <2>1. Apart(Among(w), {h}) /\ Ordered(w)
    BY <1>2, <1>4, <1>6, <1>7 DEF Apart
  <2>2. Ordered(Append(w, h)) /\ Among(Append(w, h)) = Among(w) \cup {h}
    BY <1>1, <1>4, <1>7, <2>1, AppendKeeps
  <2>3. Apart(Among(w) \cup {h}, Among(r))
    BY <1>2, <1>4, <1>6, <1>7 DEF Apart
  <2>4. QED
    BY <1>6, <1>7, <2>2, <2>3
(* the warm-up in the store, the rest behind it                              *)
<1>8. ASSUME NEW v \in WarmUps, StartPacing(v), task = "warmup", UNCHANGED sent,
             Ordered(v.packets), Among(v.packets) \cup Among(channel') \subseteq Lined,
             Ordered(channel'), Apart(Among(v.packets), Among(channel'))
      PROVE  OrderInv'
  <2> DEFINE b == store'.buffer.queue
  <2>1. Ordered(b) /\ Among(b) \subseteq Among(v.packets)
    <3> DEFINE k == LockedRate(v)
               s == NewStore(CapAt(k))
    <3>1. k \in Nat
      BY <1>8, RateLocks
    <3>2. store' = Primed(s, v.packets)[Len(v.packets)]
      BY <1>8, Zenon DEF StartPacing
    <3> HIDE DEF k
    <3>3. s \in Stores /\ Total(s) = 0 /\ s.buffer.queue = <<>>
      BY <3>1, FreshStore
    <3>4. v.packets \in Seq(Packets)
      BY <1>8 DEF WarmUps
    <3> HIDE DEF s
    <3>5. QED
      BY <1>8, <3>2, <3>3, <3>4, PrimedInOrder
  <2>2. sent' = <<>> /\ Held' = <<>>
    <3>1. rate' \in Nat
      BY <1>8, Starts
    <3>2. rate' # None
      BY <3>1, PushHandleAssumption
    <3>3. sent = <<>>
      BY <1>8 DEF CountInv
    <3>4. QED
      BY <1>8, <3>2, <3>3 DEF Held
  <2> HIDE DEF b
  <2>3. Apart(Among(b), Among(channel'))
    BY <1>8, <2>1 DEF Apart
  <2> DEFINE e == channel'
  <2>4. /\ Apart(Among(<<>>), Among(b) \cup Among(<<>>) \cup Among(e))
        /\ Apart(Among(b), Among(<<>>) \cup Among(e)) /\ Apart(Among(<<>>), Among(e))
        /\ Among(<<>>) \cup Among(b) \cup Among(<<>>) \cup Among(e) \subseteq Lined
        /\ Ordered(<<>>) /\ Ordered(b) /\ Ordered(e)
    BY <1>8, <2>1, <2>3, NoneAmong DEF Apart
  <2>5. store'.buffer.queue = b /\ channel' = e
    BY DEF b
  <2> HIDE DEF e
  <2>6. QED
    BY <1>3, <2>2, <2>4, <2>5, LineAfter
<1>9. CASE GathersOn
  <2> DEFINE d == Append(w, h)
  <2>1. /\ task = "warmup" /\ channel # <<>> /\ channel' = r /\ warmup' = Gathered
        /\ UNCHANGED <<rate, store, sent>>
    BY <1>9 DEF GathersOn
  <2>2. rate = None
    BY <2>1 DEF CountInv
  <2>3. Held' = d
    BY <1>5, <2>1, <2>2 DEF Held
  <2>4. Ordered(d) /\ Among(d) = Among(Held) \cup {h} /\ Apart(Among(d), Among(r))
    BY <1>7, <2>1, <2>2
  <2> HIDE DEF d, h, r, q
  <2>5. /\ Apart(Among(sent), Among(q) \cup Among(d) \cup Among(r))
        /\ Apart(Among(q), Among(d) \cup Among(r))
        /\ Among(sent) \cup Among(q) \cup Among(d) \cup Among(r) \subseteq Lined
    BY <1>2, <1>4, <2>1, <2>4 DEF Apart
  <2>6. sent' = sent /\ store'.buffer.queue = q
    BY <2>1 DEF q
  <2>7. Ordered(r)
    BY <1>4, <2>1
  <2>8. QED
    BY <1>2, <1>3, <2>1, <2>3, <2>4, <2>5, <2>6, <2>7, LineAfter
<1>10. CASE LocksFull
  <2>1. /\ task = "warmup" /\ channel # <<>> /\ channel' = r /\ StartPacing(Gathered) /\ UNCHANGED sent
    BY <1>10 DEF LocksFull
  <2>2. rate = None
    BY <2>1 DEF CountInv
  <2>3. /\ Gathered \in WarmUps /\ Ordered(Gathered.packets)
        /\ Among(Gathered.packets) = Among(Held) \cup {h} /\ Apart(Among(Gathered.packets), Among(r))
    BY <1>5, <1>7, <2>1, <2>2
  <2>4. Among(Gathered.packets) \cup Among(r) \subseteq Lined /\ Ordered(r)
    BY <1>2, <1>4, <2>1, <2>3
  <2>5. QED
    BY <1>8, <2>1, <2>3, <2>4
<1>11. CASE LocksShort
  <2>1. /\ task = "warmup" /\ channel = <<>> /\ channel' = channel /\ StartPacing(warmup) /\ UNCHANGED sent
    BY <1>11 DEF LocksShort
  <2>2. rate = None
    BY <2>1 DEF CountInv
  <2>3. Ordered(w) /\ Among(w) \subseteq Lined /\ Among(channel') = {} /\ Ordered(channel')
    BY <1>2, <1>6, <2>1, <2>2, NoneAmong
  <2>4. Apart(Among(w), Among(channel'))
    BY <2>3 DEF Apart
  <2>5. QED
    BY <1>1, <1>8, <2>1, <2>3, <2>4
<1>12. CASE TakesOne
  <2> DEFINE b == store'.buffer.queue
  <2>1. /\ task = "pacing" /\ channel # <<>> /\ channel' = r /\ Enters(store, h, store')
        /\ UNCHANGED <<warmup, rate, sent>>
    BY <1>12 DEF TakesOne
  <2>2. Held = <<>> /\ Held' = <<>>
    BY <2>1 DEF CountInv, Held
  <2>3. Apart(Among(q), {h})
    BY <1>2, <1>4, <2>1 DEF Apart
  <2>4. Ordered(b) /\ Among(b) \subseteq Among(q) \cup {h}
    BY <1>1, <1>2, <1>4, <2>1, <2>3, EntersInOrder
  <2> HIDE DEF b, h, r, q
  <2>5. /\ Apart(Among(sent), Among(b) \cup Among(<<>>) \cup Among(r))
        /\ Apart(Among(b), Among(<<>>) \cup Among(r)) /\ Apart(Among(<<>>), Among(r))
        /\ Among(sent) \cup Among(b) \cup Among(<<>>) \cup Among(r) \subseteq Lined
    BY <1>2, <1>4, <2>1, <2>4, NoneAmong DEF Apart
  <2>6. sent' = sent /\ store'.buffer.queue = b /\ Ordered(r) /\ Ordered(<<>>)
    BY <1>4, <2>1, NoneAmong DEF b
  <2>7. QED
    BY <1>2, <1>3, <2>1, <2>2, <2>4, <2>5, <2>6, LineAfter
<1>13. CASE EmitsOne
  <2> DEFINE x == Head(q)
             b == Tail(q)
             a == Append(sent, x)
  <2>1. q # <<>> /\ sent' = a /\ UNCHANGED <<channel, warmup, rate>>
    BY <1>13 DEF EmitsOne
  <2>2. store'.buffer.queue = b /\ x \in Packets /\ Held' = Held
    BY <1>1, <1>13, <2>1, PopStore DEF EmitsOne, Held
  <2>3. Among(q) = {x} \cup Among(b) /\ Ordered(b) /\ Apart({x}, Among(b))
    BY <1>1, <1>2, <2>1, TailKeeps
  <2>4. Apart(Among(sent), {x})
    BY <1>2, <2>3 DEF Apart
  <2>5. Among(a) = Among(sent) \cup {x} /\ Ordered(a)
    BY <1>1, <1>2, <2>2, <2>4, AppendKeeps
  <2> HIDE DEF a, b, x, q
  <2>6. /\ Apart(Among(a), Among(b) \cup Among(Held) \cup Among(channel))
        /\ Apart(Among(b), Among(Held) \cup Among(channel))
        /\ Among(a) \cup Among(b) \cup Among(Held) \cup Among(channel) \subseteq Lined
    BY <1>2, <2>3, <2>5 DEF Apart
  <2>7. QED
    BY <1>2, <1>3, <2>1, <2>2, <2>3, <2>5, <2>6, LineAfter
<1>14. CASE Ends
  <2>1. UNCHANGED <<channel, store, sent>> /\ Held' = Held
    BY <1>14 DEF Ends, Held
  <2>2. LineInOrder' /\ Lined' = Lined
    BY <2>1 DEF OrderInv, LineInOrder, Lined, Ordered, Among, Apart
  <2>3. QED
    BY <1>3, <2>2, LineShrinks
<1>15. QED
  BY <1>9, <1>10, <1>11, <1>12, <1>13, <1>14, EngineMoves

LEMMA OrderStep ==
  PartialInv /\ HandleInv /\ LockInv /\ CountInv /\ OrderInv /\ [Next]_vars => OrderInv'
<1> SUFFICES ASSUME PartialInv, HandleInv, LockInv, CountInv, OrderInv, [Next]_vars PROVE OrderInv'
  OBVIOUS
<1>1. ASSUME NEW p \in Pushers, CallStep(p) PROVE OrderInv'
  BY <1>1, CallsMove, CallKeepsOrder
<1>2. ASSUME NEW p \in Pushers, Send(p) PROVE OrderInv'
  BY <1>2, SendMoves, SendKeepsOrder
<1>3. CASE Close \/ UNCHANGED vars
  <2>1. UNCHANGED <<calls, serial, channel, sent, store, rate, warmup>>
    BY <1>3 DEF Close, vars, handle, engine
  <2>2. LineInOrder' /\ Lined' = Lined
    BY <2>1 DEF OrderInv, LineInOrder, Lined, Held, Ordered, Among, Apart
  <2>3. QED
    BY <2>1, <2>2, LineShrinks
<1>4. CASE EngineStep
  BY <1>4, EngineKeepsOrder
<1>5. QED
  BY <1>1, <1>2, <1>3, <1>4, StepKinds

(* What one task pushes leaves in the order it pushed it and at most once,   *)
(* for any number of tasks, whatever calls are given up and whatever the     *)
(* buffer sheds.                                                             *)
THEOREM PushedInOrder == Spec => []OrderKept
<1>1. HandleInv /\ OrderInv => OrderKept
  <2> SUFFICES ASSUME HandleInv, OrderInv PROVE OrderKept
    OBVIOUS
  <2> DEFINE q == store.buffer.queue
             u == sent \o q
             v == u \o Held
  <2>1. sent \in Seq(Packets) /\ q \in Seq(Packets) /\ Held \in Seq(Packets) /\ channel \in Seq(Packets)
    BY LineTyped
  <2>2. /\ Ordered(sent) /\ Ordered(q) /\ Ordered(Held) /\ Ordered(channel)
        /\ Apart(Among(sent), Among(q) \cup Among(Held) \cup Among(channel))
        /\ Apart(Among(q), Among(Held) \cup Among(channel)) /\ Apart(Among(Held), Among(channel))
    BY DEF OrderInv, LineInOrder
  <2>3. Line = v \o channel
    BY DEF Line, Held
  <2> HIDE DEF q
  <2>4. Apart(Among(sent), Among(q))
    BY <2>2 DEF Apart
  <2>5. u \in Seq(Packets) /\ Ordered(u) /\ Among(u) = Among(sent) \cup Among(q)
    BY <2>1, <2>2, <2>4, JoinKeeps
  <2> HIDE DEF u
  <2>6. Apart(Among(u), Among(Held))
    BY <2>2, <2>5 DEF Apart
  <2>7. v \in Seq(Packets) /\ Ordered(v) /\ Among(v) = Among(u) \cup Among(Held)
    BY <2>1, <2>2, <2>5, <2>6, JoinKeeps
  <2> HIDE DEF v
  <2>8. Apart(Among(v), Among(channel))
    BY <2>2, <2>5, <2>7 DEF Apart
  <2>9. v \o channel \in Seq(Packets) /\ Ordered(v \o channel)
    BY <2>1, <2>2, <2>7, <2>8, JoinKeeps
  <2>10. Line \in Seq(Packets) /\ Ordered(Line)
    BY <2>3, <2>9
  <2>11. DOMAIN Line = 1 .. Len(Line)
    BY <2>10
  <2>12. QED
    BY <2>10, <2>11 DEF OrderKept, Ordered, Before
<1>2. QED
  BY <1>1, InitPartial, InitHandle, InitLock, InitCount, InitOrder,
     NextPartial, HandleStep, CountStep, OrderStep, PTL DEF Spec
-----------------------------------------------------------------------------
LEMMA Quotient ==
  ASSUME NEW x \in Nat, NEW w \in Nat \ {0}
  PROVE  /\ x \div w \in Nat /\ x < (x \div w) * w + w
         /\ \A k \in Nat : (k * w) \div w = k
<1>1. x \div w \in Int /\ x % w \in 0 .. w - 1 /\ x = w * (x \div w) + (x % w)
  <2>1. x \div w \in Int
    OBVIOUS
  <2>2. x % w \in 0 .. w - 1
    OBVIOUS
  <2>3. x = w * (x \div w) + (x % w)
    OBVIOUS
  <2>4. QED
    BY <2>1, <2>2, <2>3
<1>2. x \div w \in Nat
  OBVIOUS
<1>3. ASSUME NEW k \in Nat PROVE (k * w) \div w = k
  OBVIOUS
<1> DEFINE q == x \div w
           r == x % w
<1> HIDE DEF q, r
<1>4. w * q = q * w
  BY <1>2 DEF q
<1>5. x < q * w + w
  <2> DEFINE y == q * w
  <2>1. x = y + r /\ r \in 0 .. w - 1 /\ y \in Int
    BY <1>1, <1>2, <1>4 DEF q, r
  <2> HIDE DEF y
  <2>2. QED
    BY <2>1 DEF y
<1>6. QED
  BY <1>2, <1>3, <1>5 DEF q

LEMMA QuotientRises ==
  ASSUME NEW m \in Int, NEW n \in Int, NEW c \in Nat \ {0}, n >= m
  PROVE  m \div c \in Int /\ n \div c \in Int /\ n \div c >= m \div c
  OBVIOUS

LEMMA ProductRises ==
  ASSUME NEW a \in Nat, NEW b \in Nat, NEW c \in Nat, NEW d \in Nat, a <= b, c <= d
  PROVE  a * c <= b * d /\ a * c \in Nat /\ b * d \in Nat
<1>1. a * c <= b * c /\ a * c \in Nat /\ b * c \in Nat
  OBVIOUS
<1>2. b * c <= b * d /\ b * d \in Nat
  OBVIOUS
<1>3. QED
  BY <1>1, <1>2

LEMMA RoundingFits ==
  ASSUME NEW x \in Nat, NEW y \in Nat, NEW z \in Nat, NEW span \in Nat, NEW cap \in Nat, NEW size \in Nat,
         x < y + span, y <= z, span <= cap, cap <= size
  PROVE  z + size - 1 \in Int /\ z + size - 1 >= x
  OBVIOUS

(* The cap holds as many packets as were counted to measure the rate: what   *)
(* the two roundings take off together is less than a packet, for a span no  *)
(* longer than the cap and a cap no longer than a packet at 1 bit/s.         *)
LEMMA CapFits ==
  ASSUME NEW c \in Nat, NEW span \in Nat \ {0}, NEW cap \in Nat, NEW size \in Nat \ {0}, NEW r \in Nat,
         span <= cap, cap <= size, r >= (c * size) \div span
  PROVE  c <= (r * cap + size - 1) \div size
<1> DEFINE x == c * size
           e == x \div span
<1>1. x \in Nat /\ x \div size = c
  <2>1. x \in Nat
    OBVIOUS
  <2>2. QED
    BY <2>1, Quotient
<1> HIDE DEF x
<1>2. e \in Nat /\ x < e * span + span /\ e <= r
  BY <1>1, Quotient DEF x
<1> HIDE DEF e
<1>3. e * span <= r * cap /\ e * span \in Nat /\ r * cap \in Nat
  BY <1>2, ProductRises
<1>4. r * cap + size - 1 \in Int /\ r * cap + size - 1 >= x
  BY <1>1, <1>2, <1>3, RoundingFits
<1> DEFINE w == r * cap + size - 1
<1> HIDE DEF w
<1>5. w \div size \in Int /\ w \div size >= x \div size
  BY <1>1, <1>4, QuotientRises DEF w
<1>6. QED
  BY <1>1, <1>5 DEF w

(* Nothing is shed while what was gathered that is no stuffing fits.         *)
LEMMA PrimedSheds ==
  ASSUME NEW s \in Stores, s.buffer.queue = <<>>, Total(s) = 0, s.shed = 0, NEW packets \in Seq(Packets),
         Cardinality({j \in 1 .. Len(packets) : ~packets[j].null}) <= s.buffer.capacity
  PROVE  Primed(s, packets)[Len(packets)].shed = 0
<1> DEFINE f == Primed(s, packets)
           n == Len(packets)
           Content(i) == {j \in 1 .. i : ~packets[j].null}
           Good(i) == f[i].shed = 0 /\ Len(f[i].buffer.queue) = Cardinality(Content(i))
           T == {i \in 0 .. n : Good(i)}
<1>1. n \in Nat /\ f[0] = s /\ \A i \in 1 .. n : f[i] = Enqueue(f[i - 1], packets[i])
  BY PrimedIs
<1>2. \A i \in 0 .. n : f[i] \in Stores /\ f[i].buffer.capacity = s.buffer.capacity
  BY PrimedStore
<1> HIDE DEF f
<1>3. ASSUME NEW i \in 0 .. n
      PROVE  /\ IsFiniteSet(Content(i)) /\ Cardinality(Content(i)) \in Nat
             /\ Cardinality(Content(i)) <= s.buffer.capacity
  <2>1. IsFiniteSet(1 .. n)
    BY <1>1, FiniteRow
  <2>2. Content(i) \subseteq Content(n) /\ Content(n) \subseteq 1 .. n
    BY <1>1
  <2>3. IsFiniteSet(Content(n))
    BY <2>1, <2>2, FS_Subset
  <2> HIDE DEF Content
  <2>4. IsFiniteSet(Content(i)) /\ Cardinality(Content(i)) <= Cardinality(Content(n))
    BY <2>2, <2>3, FS_Subset
  <2>5. Cardinality(Content(i)) \in Nat /\ Cardinality(Content(n)) \in Nat
    BY <2>3, <2>4, FS_CardinalityType
  <2>6. Cardinality(Content(n)) <= s.buffer.capacity /\ s.buffer.capacity \in Nat
    BY DEF Content, Stores
  <2>7. QED
    BY <2>4, <2>5, <2>6
<1>4. 0 \in T
  <2>1. Content(0) = {} /\ Len(<<>>) = 0
    OBVIOUS
  <2>2. Cardinality(Content(0)) = 0
    BY <2>1, FS_EmptySet
  <2>3. Good(0)
    BY <1>1, <2>1, <2>2
  <2>4. QED
    BY <1>1, <2>3
<1>5. ASSUME NEW i \in 1 .. n, i - 1 \in T PROVE i \in T
  <2> DEFINE x == packets[i]
             u == f[i - 1]
             t == f[i]
             k == Cardinality(Content(i - 1))
  <2>1. i - 1 \in 0 .. n /\ u \in Stores /\ u.buffer.capacity = s.buffer.capacity /\ x \in Packets
        /\ u.shed = 0 /\ Len(u.buffer.queue) = k
    BY <1>1, <1>2, <1>5
  <2>2. Enters(u, x, t)
    BY <1>1, <2>1, Enqueues
  <2>3. u.buffer.queue \in Seq(Packets) /\ s.buffer.capacity \in Nat
    BY <2>1 DEF Stores
  <2>4. CASE x.null
    <3>1. Content(i) = Content(i - 1)
      BY <1>1, <2>4
    <3>2. t.shed = 0 /\ t.buffer = u.buffer
      BY <2>1, <2>2, <2>4 DEF Enters
    <3> HIDE DEF u, t, Content, x
    <3>3. Len(t.buffer.queue) = Cardinality(Content(i))
      BY <2>1, <3>1, <3>2
    <3>4. Good(i)
      BY <3>2, <3>3 DEF t
    <3>5. QED
      BY <3>4
  <2>5. CASE ~x.null
    <3>1. Content(i) = Content(i - 1) \cup {i} /\ i \notin Content(i - 1)
      BY <1>1, <2>5
    <3>2. Cardinality(Content(i)) = k + 1 /\ k \in Nat
      <4>1. IsFiniteSet(Content(i - 1)) /\ k \in Nat
        BY <1>3, <2>1
      <4> HIDE DEF Content
      <4>2. Cardinality(Content(i - 1) \cup {i}) = k + 1
        BY <3>1, <4>1, FS_AddElement
      <4>3. QED
        BY <3>1, <4>1, <4>2
    <3>3. k + 1 <= s.buffer.capacity
      <4>1. Cardinality(Content(i)) <= s.buffer.capacity
        <5>1. i \in 0 .. n
          BY <1>1
        <5> HIDE DEF Content
        <5>2. QED
          BY <1>3, <5>1
      <4>2. QED
        BY <3>2, <4>1
    <3> HIDE DEF x, u, t, k, Content
    <3>4. ~(u.buffer.capacity <= Len(u.buffer.queue))
      BY <2>1, <2>3, <3>2, <3>3
    <3>5. t.shed = 0 /\ t.buffer.queue = Append(u.buffer.queue, x)
      BY <2>1, <2>2, <2>5, <3>4 DEF Enters
    <3>6. Len(t.buffer.queue) = k + 1
      BY <2>1, <2>3, <3>5, SMTT(30)
    <3>7. Good(i)
      BY <3>2, <3>5, <3>6 DEF t
    <3>8. QED
      BY <3>7
  <2>6. QED
    BY <2>4, <2>5
<1>6. \A i \in 0 .. n : i \in T
  <2> HIDE DEF T
  <2>1. QED
    BY <1>1, <1>4, <1>5, Climb
<1>7. n \in T
  <2>1. n \in 0 .. n
    BY <1>1
  <2> HIDE DEF T
  <2>2. QED
    BY <1>6, <2>1
<1>8. QED
  BY <1>7 DEF f

(* What the rate was measured over, when it is a warm-up from one PCR to a   *)
(* later one.                                                                *)
LEMMA OneClockMeasured ==
  ASSUME NEW s \in Seq(Packets), InOneClock(s)
  PROVE  /\ HasEstimate(s) /\ Span(s).first = 1 /\ Span(s).last = Len(s)
         /\ Span(s).ticks \in Nat \ {0} /\ Span(s).ticks <= MaxLatency
<1> DEFINE n == Len(s)
           P == PcrIndices(s)
<1>1. /\ 1 \in P /\ n \in P /\ P \subseteq 1 .. n /\ n \in Nat /\ IsFiniteSet(P)
      /\ s[1].pcr < s[n].pcr /\ s[n].pcr - s[1].pcr <= MaxLatency
  BY PcrsCounted DEF InOneClock
<1>2. /\ s[1].pcr \in Int /\ s[n].pcr \in Int
  <2>1. s[1] \in Packets /\ s[n] \in Packets /\ s[1].pcr # None /\ s[n].pcr # None
    BY <1>1 DEF PcrIndices
  <2>2. \A x \in Packets : x.pcr # None => x.pcr \in 0 .. PcrWrap - 1
    BY DEF Packets
  <2>3. s[1].pcr \in 0 .. PcrWrap - 1 /\ s[n].pcr \in 0 .. PcrWrap - 1
    BY <2>1, <2>2
  <2>4. QED
    BY <2>3
<1>3. Span(s).first = 1 /\ Span(s).last = n
  <2> DEFINE a == Span(s).first
             b == Span(s).last
  <2>1. /\ a \in P /\ \A j \in P : a <= j
        /\ b \in P /\ \A j \in P : b >= j
    BY <1>1, SpanTicks, Zenon
  <2> HIDE DEF a, b, P
  <2>2. a \in 1 .. n /\ a <= 1 /\ b \in 1 .. n /\ b >= n
    BY <1>1, <2>1
  <2>3. a = 1 /\ b = n
    BY <1>1, <2>2
  <2>4. QED
    BY <2>3 DEF a, b
<1>4. Span(s).ticks = s[n].pcr - s[1].pcr
  <2>1. Span(s).ticks = IF s[Span(s).last].pcr >= s[Span(s).first].pcr
                        THEN s[Span(s).last].pcr - s[Span(s).first].pcr
                        ELSE PcrWrap - s[Span(s).first].pcr + s[Span(s).last].pcr
    BY <1>1, SpanTicks, Zenon
  <2>2. s[n].pcr >= s[1].pcr
    BY <1>1, <1>2
  <2>3. QED
    BY <1>3, <2>1, <2>2
<1>5. Cardinality(P) >= 2
  <2>1. 1 # n
    BY <1>1, <1>2
  <2>2. {1, n} \subseteq P /\ Cardinality({1, n}) = 2
    <3>1. Cardinality({1} \cup {n}) = 2
      <4>1. IsFiniteSet({1}) /\ Cardinality({1}) = 1
        BY FS_Singleton
      <4>2. n \notin {1}
        BY <2>1
      <4>3. Cardinality({1} \cup {n}) = Cardinality({1}) + 1
        BY <4>1, <4>2, FS_AddElement
      <4>4. Cardinality({1}) + 1 = 2
        BY <4>1
      <4>5. QED
        BY <4>3, <4>4, Zenon
    <3>2. {1} \cup {n} = {1, n}
      OBVIOUS
    <3>3. QED
      BY <1>1, <3>1, <3>2
  <2> HIDE DEF P
  <2>3. Cardinality({1, n}) <= Cardinality(P) /\ Cardinality(P) \in Nat
    BY <1>1, <2>2, FS_Subset, FS_CardinalityType
  <2>4. QED
    BY <2>2, <2>3
<1>6. Span(s).ticks \in Nat \ {0} /\ Span(s).ticks <= MaxLatency
  BY <1>1, <1>2, <1>4
<1>7. QED
  BY <1>3, <1>5, <1>6 DEF HasEstimate
(* A warm-up in one clock that lasts no longer than the cap fills the buffer *)
(* and loses nothing to it.  A cap longer than one packet takes at 1 bit/s,  *)
(* 25 minutes, could come out a packet short: the measured rate is rounded   *)
(* to whole bits per second.                                                 *)
THEOREM CushionFits ==
  ASSUME MaxLatency <= PacketTicks
  PROVE  Spec => WarmUpKept
<1>1. ASSUME NEW v \in WarmUps, StartPacing(v), InOneClock(v.packets) PROVE store'.shed = 0
  <2> DEFINE s == v.packets
             n == Len(s)
             r == LockedRate(v)
             base == NewStore(CapAt(r))
             content == {j \in 1 .. n : ~s[j].null}
             c == Cardinality(content)
  <2>1. s \in Seq(Packets) /\ n \in Nat
    BY DEF WarmUps
  <2>2. /\ HasEstimate(s) /\ Span(s).first = 1 /\ Span(s).last = n
        /\ Span(s).ticks \in Nat \ {0} /\ Span(s).ticks <= MaxLatency
    BY <1>1, <2>1, OneClockMeasured
  <2>3. c \in Nat
    <3>1. IsFiniteSet(1 .. n) /\ content \in SUBSET (1 .. n)
      BY <2>1, FiniteRow
    <3> HIDE DEF content
    <3>2. QED
      BY <3>1, FS_Subset, FS_CardinalityType
  <2>4. r \in Nat /\ r >= Estimate(s)
    BY <2>2, RateLocks
  <2>5. Estimate(s) = (c * PacketTicks) \div Span(s).ticks
    BY <2>2, Zenon DEF Estimate
  <2> HIDE DEF r, c
  <2>6. c <= CapAt(r)
    <3> DEFINE span == Span(s).ticks
    <3>1. span \in Nat \ {0} /\ span <= MaxLatency /\ r >= (c * PacketTicks) \div span
      BY <2>2, <2>4, <2>5
    <3>2. PacketTicks \in Nat \ {0} /\ MaxLatency \in Nat
      BY WarmUpAssumption
    <3> HIDE DEF span
    <3>3. c <= (r * MaxLatency + PacketTicks - 1) \div PacketTicks
      BY <2>3, <2>4, <3>1, <3>2, CapFits
    <3>4. QED
      BY <3>3 DEF CapAt
  <2>7. /\ base \in Stores /\ Total(base) = 0 /\ base.buffer.queue = <<>> /\ base.shed = 0
        /\ base.buffer.capacity >= CapAt(r) /\ CapAt(r) \in Int
    BY <2>4, FreshStore
  <2>8. store' = Primed(base, s)[n]
    BY <1>1, Zenon DEF StartPacing, r
  <2> HIDE DEF base
  <2>9. c <= base.buffer.capacity
    <3>1. base.buffer.capacity \in Nat
      BY <2>7 DEF Stores
    <3>2. QED
      BY <2>3, <2>6, <2>7, <3>1
  <2>10. Primed(base, s)[n].shed = 0
    BY <2>1, <2>7, <2>9, PrimedSheds DEF c
  <2>11. QED
    BY <2>8, <2>10
<1>2. ASSUME PartialInv, HandleInv, [Next]_vars, Locks, InOneClock(warmup'.packets)
      PROVE  store'.shed = 0
  <2>a. PICK v \in WarmUps : StartsOn(v)
    <3>1. HandleInv /\ [Next]_vars /\ Locks
      BY <1>2
    <3>2. QED
      BY <3>1, LockStarts
  <2>1. StartPacing(v)
    BY <2>a DEF StartsOn
  <2>2. warmup' = v
    BY <2>1 DEF StartPacing
  <2>3. QED
    BY <1>1, <1>2, <2>1, <2>2
<1>3. PartialInv /\ HandleInv /\ [Next]_vars => (Locks /\ InOneClock(warmup'.packets) => store'.shed = 0)
  BY <1>2
<1>4. QED
  BY <1>3, InitPartial, InitHandle, InitLock, NextPartial, HandleStep, PTL DEF Spec, WarmUpKept
=============================================================================
