-------------------------- MODULE MCCanController --------------------------
(***************************************************************************)
(* Buttons and CDCStatus are both attached for CDC_CONTROL, in a table     *)
(* that is full then, behind a FIFO of two frames.  Remote frames come     *)
(* too, and frames of the id 0.                                            *)
(***************************************************************************)
EXTENDS CanController

MCAttached == <<"Buttons::onFrame", "onCDCControlFrame", "grantReceived">>
MCIdOf == [h \in {MCAttached[i] : i \in 1 .. 3} |->
            IF h = "grantReceived" THEN "GRANT" ELSE "CDC_CONTROL"]
MCKinds == {[id |-> "CDC_CONTROL", data |-> TRUE], [id |-> "CDC_CONTROL", data |-> FALSE],
            [id |-> "0", data |-> TRUE]}

(* What can_speed finds is exact to the bit's width in clock cycles, and   *)
(* samples between 2/3 and 5/6 of the bit; the I-Bus has such a timing.    *)
Width(t) == (t.ts1 + t.ts2 + 3) * (t.brp + 1)
ASSUME SpeedExact ==
  /\ CanSpeed(Hz) # NoTiming
  /\ \A hz \in {Hz, 10000, 20000, 33333, 47619, 50000, 83333, 95238, 100000, 125000, 250000, 500000, 615384, 1000000} :
       LET t == CanSpeed(hz)
       IN t # NoTiming => /\ Width(t) = Pclk \div hz
                          /\ 3 * (t.ts1 + 2) >= 2 * (t.ts1 + t.ts2 + 3)
                          /\ 6 * (t.ts1 + 2) <= 5 * (t.ts1 + t.ts2 + 3)
=============================================================================
