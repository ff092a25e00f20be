--------------------------- MODULE LeaseContract ---------------------------
(***************************************************************************)
(* What the lease of one issue promises, with nothing of how it is stored: *)
(* it changes hands only once it has expired or its owner gave it up, and  *)
(* only its owner extends it.  IssueLease implements this.                 *)
(***************************************************************************)
EXTENDS Integers

CONSTANTS Run, NoRun

VARIABLES owner, expires, clock

Init == owner = NoRun /\ expires = 0 /\ clock = 0

(* A free or expired lease gets an owner, for longer than the old one ran.  *)
Acquire(r) ==
  /\ expires <= clock
  /\ owner' = r
  /\ expires' > expires
  /\ UNCHANGED clock

Extend(r) ==
  /\ owner = r
  /\ expires' >= expires
  /\ UNCHANGED <<owner, clock>>

GiveUp(r) ==
  /\ owner = r
  /\ owner' = NoRun
  /\ expires' = 0
  /\ UNCHANGED clock

TimePasses ==
  /\ clock' > clock
  /\ UNCHANGED <<owner, expires>>

Next ==
  \/ TimePasses
  \/ \E r \in Run : Acquire(r) \/ Extend(r) \/ GiveUp(r)

Spec == Init /\ [][Next]_<<owner, expires, clock>>
=============================================================================
