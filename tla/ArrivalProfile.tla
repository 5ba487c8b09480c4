--------------------------- MODULE ArrivalProfile ---------------------------
(***************************************************************************)
(* ArrivalProfile (arrival.rs): how far ahead of real time the input       *)
(* delivers.  A cycle begins with delivery level with real time; the       *)
(* largest lead of each of the last cycles is kept.  Bursts are grouped    *)
(* for the statistics only, and left out.                                  *)
(***************************************************************************)
EXTENDS Integers

CONSTANTS
  None,
  RateUnit,     \* ticks a media rate counts packets over
  Window,       \* WINDOW: completed cycles remembered
  DeliveryGap,  \* DELIVERY_GAP
  BurstyLead    \* BURSTY_LEAD

LOCAL Greatest(a, b) == IF a >= b THEN a ELSE b

NewProfile ==
  [anchor |-> None, packets |-> 0, peak |-> 0, recent |-> [i \in 0 .. Window - 1 |-> 0],
   next |-> 0, lastAt |-> None]

MediaDuration(packets, rate) == (packets * RateUnit) \div rate

CloseCycle(p) ==
  [p EXCEPT !.recent[p.next] = p.peak, !.next = (@ + 1) % Window, !.peak = 0]

(* One content packet at now, against a media rate; None says nothing yet.  *)
ObserveArrival(profile, now, rate) ==
  LET p       == [profile EXCEPT !.lastAt = now,
                                 !.anchor = IF @ = None /\ rate # None THEN now ELSE @,
                                 !.packets = @ + 1]
      media   == MediaDuration(p.packets, rate)
      elapsed == now - p.anchor
  IN IF rate = None THEN [profile EXCEPT !.lastAt = now]
     ELSE IF media <= elapsed
     THEN [CloseCycle(p) EXCEPT !.anchor = now, !.packets = 1]
     ELSE [p EXCEPT !.peak = Greatest(@, media - elapsed)]

(* MUTANT of Lead: a cycle that closed is forgotten.                        *)
LeadOfCycle(p) == p.peak

Lead(p) ==
  CHOOSE lead \in {p.peak} \cup {p.recent[i] : i \in DOMAIN p.recent} :
    /\ p.peak <= lead
    /\ \A i \in DOMAIN p.recent : p.recent[i] <= lead

Bursty(p) == Lead(p) > BurstyLead

BetweenDeliveries(p, now) == p.lastAt = None \/ now - p.lastAt >= DeliveryGap
=============================================================================
