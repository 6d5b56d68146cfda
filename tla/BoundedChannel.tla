--------------------------- MODULE BoundedChannel ---------------------------
(***************************************************************************)
(* What every queue of the firmware promises to its callers, whatever sits *)
(* underneath (an RTX mailbox, a mail pool, the ISR request FIFO): the     *)
(* values that were accepted come out once each, in the order they went    *)
(* in, and never more than Bound of them are under way.  A caller whose    *)
(* value is refused simply sees no step here.                              *)
(***************************************************************************)
EXTENDS Naturals, Sequences

CONSTANTS Value, Bound

VARIABLE chan

Init == chan = <<>>

(* The accepted value is read off the new channel, so that the set of      *)
(* values need not be enumerable.                                          *)
Accept ==
  /\ Len(chan) < Bound
  /\ chan' # <<>>
  /\ LET v == chan'[Len(chan')]
     IN v \in Value /\ chan' = Append(chan, v)

Remove == chan # <<>> /\ chan' = Tail(chan)

Next == Accept \/ Remove

Spec == Init /\ [][Next]_chan
=============================================================================
