------------------------------- MODULE RtxTime -------------------------------
(***************************************************************************)
(* How RTX measures a delay.  Thread::wait(n) puts the caller on the delay *)
(* list for n ticks (rt_ms2tick, rt_put_dly) wherever in the current tick  *)
(* it is called, and rt_dec_dly counts the ticks: the delay is over        *)
(* between n-1 and n milliseconds later.  us_ticker_read() is finer.  A    *)
(* module that EXTENDS this one steps time by one Unit, Grain of which     *)
(* make a tick; `phase' is how far into the current tick it is.            *)
(***************************************************************************)
EXTENDS Naturals

CONSTANT Grain \* time units per tick

ASSUME GrainAssumption == Grain \in Nat \ {0}

NextPhase(phase) == IF phase + 1 = Grain THEN 0 ELSE phase + 1

(* The ticks left of a delay after one more unit.                          *)
Elapse(delay, phase) ==
  IF delay > 0 /\ NextPhase(phase) = 0 THEN delay - 1 ELSE delay

(* A counter of units that is not told apart beyond cap.                   *)
CountTo(cap, count) == IF count < cap THEN count + 1 ELSE cap
=============================================================================
