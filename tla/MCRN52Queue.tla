---------------------------- MODULE MCRN52Queue ----------------------------
(***************************************************************************)
(* Two interrupt sources, nesting, and two threads on a queue of three.    *)
(* The CAN handler makes the posts of any frame that may come, GPIO2 posts *)
(* one command.  The request FIFO is as large as their largest burst.      *)
(***************************************************************************)
EXTENDS RN52Queue, FiniteSetsExt

Posts == INSTANCE HandlerPosts

CONSTANTS can, gpio2, main, rn52

(* The frames that come, by the bytes the handlers look at.                *)
Control == {<<d0, d1, d2, 0>> : d0 \in {0, 128}, d1 \in 0 .. 255, d2 \in 0 .. 7}
Other == {<<d0, d1, d2, d3>> : d0 \in 0 .. 3, d1 \in {0, 18}, d2 \in 0 .. 5, d3 \in 0 .. 31}
FramePosts(connected, wanted) ==
  UNION ({Posts!OnRx("CDC_CONTROL", data, connected, wanted) : data \in Control}
    \cup {Posts!OnRx(id, data, connected, wanted) : data \in Other,
            id \in {"NODE_STATUS_RX_IHU", "DISPLAY_RESOURCE_GRANT", "IHU_DISPLAY_RESOURCE_REQ"}})
CanScripts == UNION {FramePosts(c, w) : c \in BOOLEAN, w \in BOOLEAN}
KeyScripts == UNION {Posts!OnKey(k, c) : c \in BOOLEAN,
                       k \in Posts!AvcrpKeys \cup Posts!CommandKeys \cup {"H", "E"}}

MCIsrs == {can, gpio2}
MCThreads == {main, rn52}
MCPrio == [i \in MCIsrs |-> IF i = can THEN 1 ELSE 2]
MCScript == [i \in MCIsrs |-> IF i = can THEN CanScripts \ {<<>>} ELSE Posts!OnGPIO2]
MCMaxPosts == [p \in MCIsrs \cup MCThreads |-> IF p = can THEN 2 ELSE 1]

Burst(scripts) == Max({Len(s) : s \in scripts})
MCFifoSize == Burst(CanScripts) + Burst(Posts!OnGPIO2)
ASSUME LongestBurstsFit == BurstsFit([i \in Isrs |-> Burst(Script[i])])

(* One activation of each source, all before PendSV gets to run, fits the  *)
(* kernel's FIFO of 16 (OS_FIFOSZ), the longest frame and the longest      *)
(* answer of the console among them.  Two such frames would not.           *)
OS_FIFOSZ == 16
ASSUME BurstFits ==
  LET others == Burst(Posts!OnGPIO2) + Burst(Posts!OnTimeout) + Burst(Posts!OnLine) + Burst(KeyScripts)
  IN /\ Burst(CanScripts) + others <= OS_FIFOSZ
     /\ 2 * Burst(CanScripts) + others > OS_FIFOSZ

(* A control frame switches the changer or is a button, never both: the    *)
(* commands of the two handlers do not mix.                                *)
ASSUME OneMeaning ==
  \A data \in Control : Posts!OnButton(data, TRUE) # <<>> => Posts!OnControl(data) = {<<>>}
=============================================================================
