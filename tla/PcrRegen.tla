------------------------------ MODULE PcrRegen ------------------------------
(***************************************************************************)
(* PcrRegen (pcr.rs): the byte-locked PCR of arrival clocking.  A          *)
(* regenerator is a record                                                 *)
(*   anchor   - None, or the output index and PCR of the last re-base      *)
(*   lastSrc  - None, or the last PCR the source stamped                   *)
(*   flagNext - flag the next rewritten PCR without moving the anchor      *)
(* A packet is a record with a field pcr (None where it carries none) and  *)
(* a field di, its discontinuity indicator.                                *)
(***************************************************************************)
EXTENDS SlotMap

CONSTANTS
  None,         \* the absent value of an Option
  GapTicks      \* PCR_DISCONTINUITY_GAP, in PCR ticks

ASSUME PcrRegenAssumption ==
  /\ GapTicks \in Nat /\ None \notin Int
  /\ None \notin [index : Nat, pcr : Nat]      \* an anchor is set

HasPcr(p) == p.pcr # None

NewRegen == [anchor |-> None, lastSrc |-> None, flagNext |-> FALSE]

FlagDiscontinuity(r) == [r EXCEPT !.flagNext = TRUE]

(* A declared step, a repeated value, or a jump no PCR interval explains. *)
Discontinuity(r, p) ==
  /\ r.lastSrc # None
  /\ LET delta == ForwardDelta(r.lastSrc, p.pcr)
     IN  p.di \/ delta = 0 \/ delta > GapTicks

Rebases(r, p) == r.anchor # None /\ Discontinuity(r, p)

(* The regenerator after it rewrites p at output index i. *)
AfterRewrite(r, p, i) ==
  [anchor   |-> IF r.anchor = None \/ Discontinuity(r, p)
                  THEN [index |-> i, pcr |-> p.pcr % PcrWrap]
                  ELSE r.anchor,
   lastSrc  |-> p.pcr,
   flagNext |-> FALSE]

(* Mutant of LockedForIndex: the clock does not wrap. *)
LockedUnwrapped(r, i) == r.anchor.pcr + TicksOf(i - r.anchor.index)

LockedForIndex(r, i) ==
  (r.anchor.pcr + TicksOf(i - r.anchor.index)) % PcrWrap

(* Mutant of Rewritten: a re-base that the stream did not declare stays silent. *)
RewrittenSilently(r, p, i) ==
  IF HasPcr(p)
    THEN [p EXCEPT !.pcr = LockedForIndex(AfterRewrite(r, p, i), i), !.di = p.di \/ r.flagNext]
    ELSE p

(* The packet as it leaves at output index i: untouched without a PCR. *)
Rewritten(r, p, i) ==
  IF HasPcr(p)
    THEN [p EXCEPT !.pcr = LockedForIndex(AfterRewrite(r, p, i), i),
                   !.di  = p.di \/ Rebases(r, p) \/ r.flagNext]
    ELSE p
=============================================================================
