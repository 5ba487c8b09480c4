----------------------------- MODULE ReadSource -----------------------------
(***************************************************************************)
(* ReadSource: transport packets out of a byte stream.  recv is polled by  *)
(* a loop that races it against timers and drops the call whenever one of  *)
(* them wins, so the partial packet must live in the source and not in the *)
(* call.  A reader hands over any number of bytes at a time, may fail, and *)
(* may end in the middle of a packet.                                      *)
(***************************************************************************)
EXTENDS Integers, Sequences

CONSTANTS
  Bytes,       \* the bytes a stream may carry, Sync among them
  Sync,        \* SYNC_BYTE
  PacketSize,  \* TS_PACKET_SIZE
  MaxBytes     \* bound of the run: bytes in a stream

ASSUME ReadSourceAssumption ==
  /\ Sync \in Bytes
  /\ PacketSize \in Nat \ {0}
  /\ MaxBytes \in Nat

VARIABLES
  buf,         \* the bytes of self.buf that are filled
  call,        \* "none", or the state of the recv in progress: "await" / "check"
  input,       \* "open", "ended" or "failed", as the reader last reported
  fed,         \* history: every byte read
  got          \* history: every packet returned, and where in fed it began

vars == <<buf, call, input, fed, got>>

Init ==
  /\ buf = <<>> /\ call = "none" /\ input = "open"
  /\ fed = <<>> /\ got = <<>>

(* How much of the stream recv is done with.                                *)
Consumed == Len(fed) - Len(buf)

(* recv looks at a full buffer before it awaits the reader.                 *)
AtLoopHead(b) == IF Len(b) < PacketSize THEN "await" ELSE "check"

Call ==
  /\ call = "none" /\ input = "open"
  /\ call' = AtLoopHead(buf)
  /\ UNCHANGED <<buf, input, fed, got>>

(* The reader fills some of the room behind the bytes already held.         *)
Read ==
  /\ call = "await"
  /\ \E n \in 1..(PacketSize - Len(buf)) : \E chunk \in [1..n -> Bytes] :
       /\ Len(fed) + n <= MaxBytes
       /\ buf' = buf \o chunk
       /\ fed' = fed \o chunk
       /\ call' = AtLoopHead(buf')
  /\ UNCHANGED <<input, got>>

(* read returned 0 or an error: recv returns None or fails, and the partial *)
(* packet goes with the source.                                             *)
ReaderStops ==
  /\ call = "await"
  /\ input' \in {"ended", "failed"}
  /\ call' = "none"
  /\ UNCHANGED <<buf, fed, got>>

(* MUTANT of SlipBytes: a packet that does not start with the sync byte is  *)
(* discarded whole.                                                         *)
SlipPacket == <<>>

(* Alignment slipped: one byte is dropped and the buffer refilled.          *)
SlipBytes == Tail(buf)

Slip ==
  /\ call = "check" /\ Head(buf) # Sync
  /\ buf' = SlipBytes
  /\ call' = AtLoopHead(buf')
  /\ UNCHANGED <<input, fed, got>>

Return ==
  /\ call = "check" /\ Head(buf) = Sync
  /\ got' = Append(got, [start |-> Consumed, data |-> buf])
  /\ buf' = <<>>
  /\ call' = "none"
  /\ UNCHANGED <<input, fed>>

(* MUTANT of Cancel: progress kept in the future is lost with it.           *)
CancelLosing ==
  /\ call = "await"
  /\ call' = "none"
  /\ buf' = <<>>
  /\ UNCHANGED <<input, fed, got>>

(* The caller drops the future, which it can only do where it awaits: what  *)
(* has been read stays in the source.                                       *)
Cancel ==
  /\ call = "await"
  /\ call' = "none"
  /\ UNCHANGED <<buf, input, fed, got>>

Next == Call \/ Read \/ ReaderStops \/ Slip \/ Return \/ Cancel

Spec == Init /\ [][Next]_vars

-----------------------------------------------------------------------------
TypeOK ==
  /\ fed \in Seq(Bytes)
  /\ buf \in Seq(Bytes) /\ Len(buf) <= PacketSize /\ Len(buf) <= Len(fed)
  /\ got \in Seq([start : Nat, data : [1..PacketSize -> Bytes]])
  /\ call \in {"none", "await", "check"}
  /\ input \in {"open", "ended", "failed"}

(* The buffer is the unconsumed end of the stream, and only a recv that is  *)
(* about to look at it holds a whole packet: no call is ever given up with  *)
(* a packet in hand.                                                        *)
BufferIsTail ==
  /\ \A i \in 1..Len(buf) : buf[i] = fed[Consumed + i]
  /\ call = "check" <=> Len(buf) = PacketSize

(* Whatever the reads, the failures and the abandoned calls, the packets    *)
(* returned are those of the byte stream (source.rs: recv is cancel-safe,   *)
(* "keeps its partial packet in a field for exactly this reason").          *)
Stream == INSTANCE Packetizer WITH at <- Consumed, cut <- got
Framed == Stream!Spec

(* A byte that can only be the start of a packet: a sync byte with none     *)
(* among the PacketSize - 1 before it, which could begin one that covers it.*)
CleanStart(p) ==
  /\ fed[p + 1] = Sync
  /\ \A q \in 1..p : q + PacketSize > p + 1 => fed[q] # Sync

(* Resynchronisation costs no packet that is not itself damaged: however    *)
(* the stream slipped before it, a packet that begins cleanly is returned.  *)
CleanStartsFound ==
  \A p \in 0..(Consumed - 1) :
    CleanStart(p) => \E k \in 1..Len(got) : got[k].start = p
=============================================================================
