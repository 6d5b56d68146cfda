------------------------------ MODULE RtxThread ------------------------------
(***************************************************************************)
(* A thread of the unit that sends and waits, as the timed modules see it. *)
(* What it sends, what wakes it and how far it gets at a time is theirs.   *)
(***************************************************************************)
EXTENDS RtxTime

CONSTANT MaxLag \* a ready thread gets the processor within this many units

VARIABLES
  phase, \* position in the current tick
  at,    \* where the thread stands
  delay, \* ticks left of its wait
  lag,   \* units it has been ready
  gap,   \* units since it last sent
  age    \* units since the oldest request came that it has not answered
=============================================================================
