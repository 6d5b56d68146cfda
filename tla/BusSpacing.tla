----------------------------- MODULE BusSpacing -----------------------------
(***************************************************************************)
(* From a MessageSender to the wire.  The sender thread spaces the frames  *)
(* of its ID by waiting between its calls of sendCanFrame; what follows is *)
(* shared with the frames of other threads: the transmit queue, the send   *)
(* thread with its retries, the controller's mailboxes, the bus.  The      *)
(* queue itself is the FIFO channel that SaabCanTx is shown to implement.  *)
(***************************************************************************)
EXTENDS RtxTime, Sequences, FiniteSets

CONSTANTS
  Interval,   \* MessageSender's interval, 10 ticks
  HwSize,     \* transmit mailboxes of the controller, 3
  Retries,    \* 20
  ShortFrame, \* units a frame is on the bus, at least and, with the bits
  LongFrame,  \*   stuffed into it, at most
  Others,     \* bound of the model: frames of other IDs under way at a time
  MaxBusy,    \* units other nodes may have the bus before one of our frames
  MaxLag      \* the send thread gets the processor within this many units

ASSUME BusSpacingAssumption ==
  /\ Interval \in Nat \ {0} /\ HwSize \in Nat \ {0} /\ Retries \in Nat
  /\ ShortFrame \in Nat \ {0} /\ LongFrame \in Nat /\ ShortFrame <= LongFrame
  /\ Others \in Nat /\ MaxBusy \in Nat /\ MaxLag \in Nat

(* Mailboxes found full are not all sent before the retry: two frames take *)
(* the bus 4.7 ms.                                                         *)
ASSUME MailboxesOutlastRetry == (HwSize - 1) * ShortFrame >= Grain + MaxLag

VARIABLES
  phase,   \* position in the current tick
  waiting, \* MessageSender has more frames of its group to send
  sdelay,  \* ticks left of its Thread::wait
  sent,    \* units since it last put a frame
  queue,   \* frames in the transmit queue, "own" and "other"
  message, \* the frame the send thread has, as a sequence of at most one
  tries,   \* its failed writes
  retry,   \* ticks left of the send thread's Thread::wait(1)
  lag,     \* units the send thread has been ready
  hw,      \* frames in the transmit mailboxes, in the order of request
  begun,   \* the first of them is on the bus
  left,    \* units it still takes
  busy,    \* units other nodes have had the bus before it
  gap      \* units since a frame of the sender began on the bus

senderVars == <<waiting, sdelay, sent>>
threadVars == <<queue, message, tries, retry, lag>>
wireVars == <<hw, begun, left, busy, gap>>
spacingVars == <<phase, senderVars, threadVars, wireVars>>

(* A wait of Interval ticks may be short by all but a unit of a tick.      *)
ShortWait == (Interval - 1) * Grain + 1

GapCap == Interval * Grain + ShortFrame

BusInit ==
  /\ phase = 0 /\ waiting = FALSE /\ sdelay = 0 /\ sent = ShortWait
  /\ queue = <<>> /\ message = <<>> /\ tries = 0 /\ retry = 0 /\ lag = 0
  /\ hw = <<>> /\ begun = FALSE /\ left = 0 /\ busy = 0 /\ gap = GapCap

(* The frames between the sender and the end of the wire, in order.        *)
Path == hw \o message \o queue

UnderWay(kind) == Cardinality({i \in DOMAIN Path : Path[i] = kind})

SendReady == (message = <<>> /\ queue # <<>>) \/ (message # <<>> /\ retry = 0)
-----------------------------------------------------------------------------
(* MessageSender::run puts a frame anywhere in a tick, and waits if the    *)
(* group has another.  Nothing hurries it: it may be late at every frame.  *)
WaitHalf == Interval \div 2
WaitInterval == Interval
Put ==
  /\ queue' = Append(queue, "own") /\ sent' = 0
  /\ \/ waiting' = TRUE /\ sdelay' = WaitInterval
     \/ waiting' = FALSE /\ sdelay' = 0
  /\ UNCHANGED <<phase, message, tries, retry, lag, wireVars>>

(* The first of a group: not sooner after the last of the one before than  *)
(* SidResource's pacing lets it (SpacingKept of TextGroup).                *)
SendFirst == ~waiting /\ sent >= ShortWait /\ Put
SendNext == waiting /\ sdelay = 0 /\ Put

SendOther ==
  /\ UnderWay("other") < Others
  /\ queue' = Append(queue, "other")
  /\ UNCHANGED <<phase, senderVars, message, tries, retry, lag, wireVars>>

(* SaabCan::sendFunc                                                       *)
EmptyMailbox == Len(hw) < HwSize

Get ==
  /\ message = <<>> /\ queue # <<>>
  /\ message' = <<Head(queue)>> /\ queue' = Tail(queue)
  /\ tries' = 0
  /\ UNCHANGED <<phase, senderVars, retry, lag, wireVars>>

Write ==
  /\ message # <<>> /\ retry = 0
  /\ IF EmptyMailbox
     THEN hw' = hw \o message /\ message' = <<>> /\ UNCHANGED <<tries, retry>>
     ELSE IF tries + 1 > Retries
     THEN message' = <<>> /\ UNCHANGED <<hw, tries, retry>>
     ELSE tries' = tries + 1 /\ retry' = 1 /\ UNCHANGED <<hw, message>>
  /\ lag' = IF queue # <<>> /\ retry' = 0 THEN lag ELSE 0
  /\ UNCHANGED <<phase, senderVars, queue, begun, left, busy, gap>>

(* The controller gets the bus for its oldest request, and frees the       *)
(* mailbox when the frame has been sent.  That a frame is sent again after *)
(* an error on the bus is left out.                                        *)
Begin ==
  /\ hw # <<>> /\ ~begun
  /\ begun' = TRUE
  /\ left' \in ShortFrame .. LongFrame
  /\ gap' = IF Head(hw) = "own" THEN 0 ELSE gap
  /\ UNCHANGED <<phase, senderVars, threadVars, hw, busy>>

Done ==
  /\ begun /\ left = 0
  /\ begun' = FALSE /\ hw' = Tail(hw) /\ busy' = 0
  /\ UNCHANGED <<phase, senderVars, threadVars, left, gap>>

(* One unit of time passes.  The send thread is not held up beyond MaxLag, *)
(* nor the oldest request beyond MaxBusy.                                  *)
Requested == hw # <<>> /\ ~begun
Pass ==
  /\ SendReady => lag < MaxLag
  /\ Requested => busy < MaxBusy
  /\ begun => left > 0
  /\ phase' = NextPhase(phase)
  /\ sdelay' = Elapse(sdelay, phase) /\ retry' = Elapse(retry, phase)
  /\ sent' = CountTo(ShortWait, sent) /\ gap' = CountTo(GapCap, gap)
  /\ lag' = IF SendReady THEN lag + 1 ELSE 0
  /\ busy' = IF Requested THEN busy + 1 ELSE busy
  /\ left' = IF begun THEN left - 1 ELSE left
  /\ UNCHANGED <<waiting, queue, message, tries, hw, begun>>

BusNext == SendFirst \/ SendNext \/ SendOther \/ Get \/ Write \/ Begin \/ Done \/ Pass
BusSpec == BusInit /\ [][BusNext]_spacingVars
-----------------------------------------------------------------------------
(* A frame of the sender is the next that the bus will carry.              *)
CanBegin == Requested /\ Head(hw) = "own"

(* "Same-ID frames >= 10 ms apart", on the bus.                            *)
SpacingOnBus == CanBegin => gap >= Interval * Grain

(* On the bus two frames of the sender may come closer than its shortest   *)
(* wait by the time the first was held up: by the frames of others ahead   *)
(* of it, by other nodes, and once by a late send thread.  The retries of  *)
(* the send thread add nothing, and a late sender only widens the gap.     *)
(* Where this leaves no room for a frame the two may follow each other.    *)
HeldUp == Others * (MaxBusy + LongFrame) + MaxBusy + MaxLag
Closest == IF HeldUp + LongFrame <= ShortWait THEN ShortWait - HeldUp ELSE ShortFrame
SpacingOnBusUpToDelay == CanBegin => gap >= Closest
=============================================================================
