-------------------------- MODULE ReadSource_proof --------------------------
(***************************************************************************)
(* ReadSource frames the byte stream as Packetizer says, for any alphabet  *)
(* of bytes, any packet size and streams of any length, however often recv *)
(* is abandoned; and it returns every packet that begins cleanly.          *)
(***************************************************************************)
EXTENDS ReadSource, SequenceTheorems, TLAPS

USE ReadSourceAssumption

(* TypeOK and BufferIsTail together are inductive.                          *)
IInv == TypeOK /\ BufferIsTail

LEMMA InitIInv == Init => IInv
  BY DEF Init, IInv, TypeOK, BufferIsTail, Consumed

(* What a read leaves: the bytes behind those already held, both in the     *)
(* buffer and in the stream.                                                *)
LEMMA ReadAppends ==
  ASSUME IInv, NEW n \in 1..(PacketSize - Len(buf)), NEW chunk \in [1..n -> Bytes]
  PROVE  /\ buf \o chunk \in Seq(Bytes)
         /\ fed \o chunk \in Seq(Bytes)
         /\ Len(buf \o chunk) = Len(buf) + n
         /\ Len(fed \o chunk) = Len(fed) + n
         /\ \A i \in 1..Len(fed) : (fed \o chunk)[i] = fed[i]
         /\ \A i \in 1..(Len(buf) + n) :
              (buf \o chunk)[i] = (fed \o chunk)[Len(fed) - Len(buf) + i]
<1>1. chunk \in Seq(Bytes) /\ Len(chunk) = n
  BY DEF IInv, TypeOK
<1>2. /\ buf \o chunk \in Seq(Bytes) /\ Len(buf \o chunk) = Len(buf) + n
      /\ fed \o chunk \in Seq(Bytes) /\ Len(fed \o chunk) = Len(fed) + n
      /\ \A i \in 1..Len(fed) : (fed \o chunk)[i] = fed[i]
  <2>1. buf \in Seq(Bytes) /\ fed \in Seq(Bytes)
    BY DEF IInv, TypeOK
  <2>2. buf \o chunk \in Seq(Bytes) /\ Len(buf \o chunk) = Len(buf) + n
    BY <1>1, <2>1, ConcatProperties
  <2>3. fed \o chunk \in Seq(Bytes) /\ Len(fed \o chunk) = Len(fed) + n
    BY <1>1, <2>1, ConcatProperties
  <2>4. \A i \in 1..Len(fed) : (fed \o chunk)[i] = fed[i]
    BY <1>1, <2>1
  <2> QED BY <2>2, <2>3, <2>4
<1>3. ASSUME NEW i \in 1..(Len(buf) + n)
      PROVE  (buf \o chunk)[i] = (fed \o chunk)[Len(fed) - Len(buf) + i]
  <2>1. CASE i <= Len(buf)
    <3>1. (buf \o chunk)[i] = buf[i]
      BY <1>1, <2>1 DEF IInv, TypeOK
    <3>2. (fed \o chunk)[Len(fed) - Len(buf) + i] = fed[Len(fed) - Len(buf) + i]
      BY <1>1, <2>1 DEF IInv, TypeOK
    <3>3. buf[i] = fed[Len(fed) - Len(buf) + i]
      BY <2>1 DEF IInv, TypeOK, BufferIsTail, Consumed
    <3> QED BY <3>1, <3>2, <3>3
  <2>2. CASE i > Len(buf)
    <3>1. (buf \o chunk)[i] = chunk[i - Len(buf)]
      BY <1>1, <2>2 DEF IInv, TypeOK
    <3>2. (fed \o chunk)[Len(fed) - Len(buf) + i] = chunk[i - Len(buf)]
      BY <1>1, <2>2 DEF IInv, TypeOK
    <3> QED BY <3>1, <3>2
  <2> QED BY <2>1, <2>2 DEF IInv, TypeOK
<1> QED BY <1>2, <1>3

(* A slip is done with one byte.                                            *)
LEMMA SlipConsumes ==
  ASSUME IInv, Len(buf) = PacketSize, buf' = Tail(buf), fed' = fed
  PROVE  Consumed' = Consumed + 1 /\ Consumed + PacketSize <= Len(fed)
<1>1. Len(buf) \in Nat /\ Len(fed) \in Nat /\ buf # <<>> /\ buf \in Seq(Bytes)
  BY DEF IInv, TypeOK
<1>2. Len(Tail(buf)) = Len(buf) - 1
  BY <1>1, HeadTailProperties
<1> DEFINE rest == Len(Tail(buf))
<1>3. Consumed' = Len(fed) - rest
  BY DEF Consumed
<1> HIDE DEF rest
<1>4. rest = Len(buf) - 1
  BY <1>2 DEF rest
<1> QED BY <1>1, <1>3, <1>4 DEF Consumed

LEMMA NextIInv == IInv /\ [Next]_vars => IInv'
<1> SUFFICES ASSUME IInv, [Next]_vars PROVE IInv'
  OBVIOUS
<1> USE DEF IInv
<1>1. CASE Call
  BY <1>1 DEF Call, TypeOK, BufferIsTail, Consumed, AtLoopHead
<1>2. CASE Read
  <2>0. PICK n \in 1..(PacketSize - Len(buf)) : \E chunk \in [1..n -> Bytes] :
          /\ buf' = buf \o chunk
          /\ fed' = fed \o chunk
          /\ call' = AtLoopHead(buf')
    BY <1>2 DEF Read
  <2>1. PICK chunk \in [1..n -> Bytes] :
          /\ buf' = buf \o chunk
          /\ fed' = fed \o chunk
          /\ call' = AtLoopHead(buf')
    BY <2>0
  <2>2. got' = got /\ input' = input /\ call = "await"
    BY <1>2 DEF Read
  <2>3. Len(buf') = Len(buf) + n /\ Len(fed') = Len(fed) + n
    BY <2>1, ReadAppends
  <2>4. TypeOK'
    BY <2>1, <2>2, <2>3, ReadAppends DEF TypeOK, AtLoopHead
  <2>5. \A i \in 1..Len(buf') : buf'[i] = fed'[Len(fed) - Len(buf) + i]
    <3>1. \A i \in 1..(Len(buf) + n) :
            (buf \o chunk)[i] = (fed \o chunk)[Len(fed) - Len(buf) + i]
      BY ReadAppends
    <3>2. buf' = buf \o chunk /\ fed' = fed \o chunk
      BY <2>1
    <3> QED BY <2>3, <3>1, <3>2, Zenon
  <2>6. Consumed' = Len(fed) - Len(buf)
    BY <2>3 DEF Consumed, TypeOK
  <2>7. call' = "check" <=> Len(buf') = PacketSize
    BY <2>1, <2>3 DEF AtLoopHead, TypeOK
  <2> QED BY <2>4, <2>5, <2>6, <2>7 DEF BufferIsTail
<1>3. CASE ReaderStops
  BY <1>3 DEF ReaderStops, TypeOK, BufferIsTail, Consumed
<1>4. CASE Slip
  <2>1. /\ Len(buf) = PacketSize /\ buf # <<>>
        /\ buf' = Tail(buf) /\ call' = AtLoopHead(buf')
        /\ fed' = fed /\ got' = got /\ input' = input
    BY <1>4 DEF Slip, SlipBytes, TypeOK, BufferIsTail
  <2>2. /\ buf' \in Seq(Bytes) /\ Len(buf') = Len(buf) - 1
        /\ \A i \in 1..Len(buf') : buf'[i] = buf[i + 1]
    BY <2>1 DEF TypeOK
  <2>3. TypeOK'
    BY <2>1, <2>2 DEF TypeOK, AtLoopHead
  <2>4. Consumed' = Consumed + 1
    BY <2>1, SlipConsumes
  <2>5. \A i \in 1..Len(buf') : buf'[i] = fed'[Consumed' + i]
    <3>1. TAKE i \in 1..Len(buf')
    <3>2. buf[i + 1] = fed[Consumed + (i + 1)]
      BY <2>2 DEF BufferIsTail, TypeOK
    <3>3. Consumed \in Int
      BY DEF Consumed, TypeOK
    <3> QED BY <2>1, <2>2, <2>4, <3>2, <3>3
  <2>6. call' = "check" <=> Len(buf') = PacketSize
    BY <2>1, <2>2 DEF AtLoopHead, TypeOK
  <2> QED BY <2>3, <2>5, <2>6 DEF BufferIsTail
<1>5. CASE Return
  <2>1. /\ Len(buf) = PacketSize /\ buf' = <<>> /\ call' = "none"
        /\ fed' = fed /\ input' = input
        /\ got' = Append(got, [start |-> Consumed, data |-> buf])
    BY <1>5 DEF Return, BufferIsTail
  <2>2. Consumed \in Nat /\ buf \in [1..PacketSize -> Bytes]
    BY <2>1 DEF Consumed, TypeOK
  <2>3. TypeOK'
    BY <2>1, <2>2 DEF TypeOK
  <2> QED BY <2>1, <2>3 DEF BufferIsTail, TypeOK
<1>6. CASE Cancel
  BY <1>6 DEF Cancel, TypeOK, BufferIsTail, Consumed
<1>7. CASE UNCHANGED vars
  BY <1>7 DEF vars, TypeOK, BufferIsTail, Consumed
<1> QED BY <1>1, <1>2, <1>3, <1>4, <1>5, <1>6, <1>7 DEF Next

(* The source's partial packet is always the unconsumed end of the stream   *)
(* (struct ReadSource: buf and filled).                                     *)
THEOREM BufferHoldsTheRest == Spec => []IInv
  BY InitIInv, NextIInv, PTL DEF Spec

(* recv is cancel-safe: every step of ReadSource is a step of Packetizer or *)
(* none, so the packets depend on the bytes alone (source.rs, Source::recv).*)
THEOREM SourceFrames == Spec => Framed
<1>1. Init => Stream!Init
  BY DEF Init, Stream!Init, Consumed
<1>2. IInv /\ [Next]_vars => [Stream!Next]_Stream!vars
  <2> SUFFICES ASSUME IInv, [Next]_vars PROVE [Stream!Next]_Stream!vars
    OBVIOUS
  <2> USE DEF IInv
  <2>1. CASE Call \/ ReaderStops \/ Cancel \/ UNCHANGED vars
    BY <2>1 DEF Call, ReaderStops, Cancel, vars, Stream!vars, Consumed
  <2>2. CASE Read
    <3>0. PICK n \in 1..(PacketSize - Len(buf)) : \E chunk \in [1..n -> Bytes] :
            /\ buf' = buf \o chunk
            /\ fed' = fed \o chunk
      BY <2>2 DEF Read
    <3>1. PICK chunk \in [1..n -> Bytes] :
            /\ buf' = buf \o chunk
            /\ fed' = fed \o chunk
      BY <3>0
    <3>2. /\ Len(buf') = Len(buf) + n /\ Len(fed') = Len(fed) + n
          /\ \A i \in 1..Len(fed) : fed'[i] = fed[i]
      BY <3>1, ReadAppends
    <3>3. Consumed' = Consumed /\ got' = got
      BY <2>2, <3>2 DEF Read, Consumed, TypeOK
    <3> QED BY <3>2, <3>3 DEF Stream!Next, Stream!Feed, TypeOK
  <2>3. CASE Slip
    <3>1. /\ Len(buf) = PacketSize /\ buf[1] # Sync
          /\ buf' = Tail(buf) /\ fed' = fed /\ got' = got
      BY <2>3 DEF Slip, SlipBytes, TypeOK, BufferIsTail
    <3>2. fed[Consumed + 1] = buf[1]
      BY <3>1 DEF BufferIsTail, TypeOK
    <3>3. Consumed' = Consumed + 1 /\ Consumed + PacketSize <= Len(fed)
      BY <3>1, SlipConsumes
    <3> QED BY <3>1, <3>2, <3>3 DEF Stream!Next, Stream!Skip, Stream!Whole
  <2>4. CASE Return
    <3>1. /\ Len(buf) = PacketSize /\ buf[1] = Sync /\ buf' = <<>>
          /\ fed' = fed
          /\ got' = Append(got, [start |-> Consumed, data |-> buf])
      BY <2>4 DEF Return, TypeOK, BufferIsTail
    <3>2. fed[Consumed + 1] = Sync
      BY <3>1 DEF BufferIsTail, TypeOK
    <3>3. Consumed' = Consumed + PacketSize /\ Consumed + PacketSize <= Len(fed)
      BY <3>1 DEF Consumed, TypeOK
    <3>4. buf = Stream!DataAt(Consumed)
      <4>1. buf = [i \in 1..PacketSize |-> buf[i]]
        BY <3>1 DEF TypeOK
      <4>2. \A i \in 1..PacketSize : buf[i] = fed[Consumed + i]
        BY <3>1 DEF BufferIsTail
      <4> QED BY <4>1, <4>2 DEF Stream!DataAt
    <3> QED BY <3>1, <3>2, <3>3, <3>4 DEF Stream!Next, Stream!Cut, Stream!Whole
  <2> QED BY <2>1, <2>2, <2>3, <2>4 DEF Next
<1> QED BY <1>1, <1>2, BufferHoldsTheRest, PTL DEF Spec, Framed, Stream!Spec

(* No clean packet is lost to resynchronisation (source.rs, recv's slip).   *)
THEOREM ResyncLosesNoCleanPacket == Spec => []CleanStartsFound
<1>1. Init => CleanStartsFound
  BY DEF Init, CleanStartsFound, Consumed
<1>2. IInv /\ IInv' /\ CleanStartsFound /\ [Next]_vars => CleanStartsFound'
  <2> SUFFICES ASSUME IInv, IInv', CleanStartsFound, [Next]_vars,
                      NEW p \in 0..(Consumed' - 1), CleanStart(p)'
               PROVE  \E k \in 1..Len(got') : got'[k].start = p
    BY DEF CleanStartsFound
  <2> USE DEF IInv
  <2>0. p \in Nat /\ Consumed \in Nat /\ Consumed' \in Nat
    BY DEF Consumed, TypeOK
  <2>1. CASE Call \/ ReaderStops \/ Cancel \/ UNCHANGED vars
    BY <2>1 DEF Call, ReaderStops, Cancel, vars, Consumed, CleanStart, CleanStartsFound
  <2>2. CASE Read
    <3>0. PICK n \in 1..(PacketSize - Len(buf)) : \E chunk \in [1..n -> Bytes] :
            /\ buf' = buf \o chunk
            /\ fed' = fed \o chunk
      BY <2>2 DEF Read
    <3>1. PICK chunk \in [1..n -> Bytes] :
            /\ buf' = buf \o chunk
            /\ fed' = fed \o chunk
      BY <3>0
    <3>2. /\ Len(buf') = Len(buf) + n /\ Len(fed') = Len(fed) + n
          /\ \A i \in 1..Len(fed) : fed'[i] = fed[i]
      BY <3>1, ReadAppends
    <3>3. Consumed' = Consumed /\ got' = got
      BY <2>2, <3>2 DEF Read, Consumed, TypeOK
    <3>4. CleanStart(p)
      BY <3>2, <3>3, <2>0 DEF CleanStart, Consumed, TypeOK
    <3> QED BY <3>3, <3>4 DEF CleanStartsFound
  <2>3. CASE Slip
    <3>1. /\ Len(buf) = PacketSize /\ buf[1] # Sync
          /\ buf' = Tail(buf) /\ fed' = fed /\ got' = got
      BY <2>3 DEF Slip, SlipBytes, TypeOK, BufferIsTail
    <3>2. fed[Consumed + 1] # Sync /\ Consumed' = Consumed + 1
      <4>1. fed[Consumed + 1] = buf[1]
        BY <3>1 DEF BufferIsTail, TypeOK
      <4> QED BY <3>1, <4>1, SlipConsumes
    <3>3. CleanStart(p) /\ p < Consumed
      BY <2>0, <3>1, <3>2 DEF CleanStart
    <3> QED BY <2>0, <3>1, <3>3 DEF CleanStartsFound
  <2>4. CASE Return
    <3>1. /\ Len(buf) = PacketSize /\ buf[1] = Sync /\ buf' = <<>>
          /\ fed' = fed
          /\ got' = Append(got, [start |-> Consumed, data |-> buf])
      BY <2>4 DEF Return, TypeOK, BufferIsTail
    <3>2. fed[Consumed + 1] = Sync /\ Consumed' = Consumed + PacketSize
      BY <3>1 DEF BufferIsTail, TypeOK, Consumed
    <3>3. /\ Len(got') = Len(got) + 1
          /\ got'[Len(got) + 1] = [start |-> Consumed, data |-> buf]
          /\ \A k \in 1..Len(got) : got'[k] = got[k]
      BY <3>1, <2>0 DEF TypeOK
    <3>4. CASE p < Consumed
      <4>1. CleanStart(p)
        BY <3>1 DEF CleanStart
      <4>2. PICK k \in 1..Len(got) : got[k].start = p
        BY <2>0, <3>4, <4>1 DEF CleanStartsFound
      <4>3. k \in 1..Len(got') /\ got'[k] = got[k]
        <5>1. Len(got) \in Nat
          BY <2>0 DEF TypeOK
        <5> QED BY <3>3, <4>2, <5>1
      <4> QED BY <4>2, <4>3
    <3>5. CASE p >= Consumed
      <4>1. p = Consumed
        <5>1. SUFFICES ASSUME p > Consumed PROVE FALSE
          BY <2>0, <3>5
        <5>2. (Consumed + 1) \in 1..p /\ (Consumed + 1) + PacketSize > p + 1
          BY <2>0, <3>2, <5>1
        <5> QED BY <3>1, <3>2, <5>2 DEF CleanStart
      <4>2. got'[Len(got) + 1].start = p
        BY <3>3, <4>1
      <4>3. Len(got) + 1 \in 1..Len(got')
        BY <3>3 DEF TypeOK
      <4> QED BY <4>2, <4>3
    <3> QED BY <2>0, <3>4, <3>5
  <2> QED BY <2>1, <2>2, <2>3, <2>4 DEF Next
<1> QED BY <1>1, <1>2, BufferHoldsTheRest, PTL DEF Spec
=============================================================================
