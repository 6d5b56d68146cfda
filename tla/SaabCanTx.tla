------------------------------ MODULE SaabCanTx ------------------------------
(***************************************************************************)
(* The transmit path of SaabCan.cpp: sendCanFrame takes a box from a mail  *)
(* pool, fills it and posts it; the send thread copies each box into one   *)
(* of the controller's transmit mailboxes, trying again every millisecond  *)
(* while all are busy, and gives the box back.                             *)
(*                                                                         *)
(* Callers are threads and the CAN receive handler.  As in RN52Queue, a    *)
(* handler's post sits in the kernel's request FIFO until PendSV.          *)
(***************************************************************************)
EXTENDS Naturals, Sequences, FiniteSets

CONSTANTS
  Threads,   \* threads that send frames
  Isr,       \* the CAN receive handler, which sends the beep
  Pool,      \* the blocks of Mail<CANMessage, 16>, in address order
  QueueSize, \* slots of the mail queue, also 16
  HwSize,    \* transmit mailboxes of the controller, 3
  Retries,   \* 20
  Stalls,    \* promises of the bus: it frees a mailbox within so many retries; 0: none
  MaxSends   \* bound of the model: calls of sendCanFrame, for each caller

Callers == Threads \cup {Isr}
Items(s) == {s[i] : i \in DOMAIN s}
Boxes == Items(Pool)

ASSUME CallersAssumption == Isr \notin Threads /\ IsFiniteSet(Threads)
ASSUME SizesAssumption ==
  /\ Pool \in Seq(Boxes) /\ Len(Pool) = QueueSize
  /\ \A i, j \in 1 .. Len(Pool) : Pool[i] = Pool[j] => i = j
  /\ HwSize \in Nat \ {0} /\ Retries \in Nat /\ Stalls \subseteq Nat /\ MaxSends \in [Callers -> Nat]

Frame == [from : Callers, n : Nat]

VARIABLES
  free,      \* the pool's free list, the next box to hand out first
  content,   \* what was last written into each box
  at,        \* where each caller stands in sendCanFrame
  box,       \* the box each caller holds, as a sequence of at most one
  inIsr,     \* the receive handler has been entered and has not returned
  psq,       \* boxes in the kernel's request FIFO, oldest first
  mailbox,   \* boxes in the mail queue, oldest first
  run,       \* where the send thread stands
  message,   \* the box it has, as a sequence of at most one
  tries,     \* its failed writes of this frame
  hw,        \* frames in the transmit mailboxes, in the order of request
  aired,     \* the number of the last frame of each caller on the bus
  maxStall,  \* what this bus promises, one of Stalls
  stall,     \* retries since the controller last freed a mailbox
  sends,     \* calls of sendCanFrame so far, per caller
  counters,  \* SaabCan::txDropped and ::txErrors
  loaded,    \* the value of txDropped a caller is incrementing
  halted     \* os_error(): nothing runs any more

callerVars == <<at, box, loaded>>
kernelVars == <<psq, mailbox, halted>>
senderVars == <<run, message, tries>>
busVars == <<hw, aired, stall, maxStall>>
vars == <<free, content, callerVars, inIsr, kernelVars, senderVars, busVars,
          sends, counters>>

Init ==
  /\ free = Pool
  /\ content \in [Boxes -> {[from |-> Isr, n |-> 0]}]
  /\ at = [c \in Callers |-> "out"] /\ box = [c \in Callers |-> <<>>]
  /\ loaded = [c \in Callers |-> 0]
  /\ inIsr = FALSE
  /\ psq = <<>> /\ mailbox = <<>> /\ halted = FALSE
  /\ run = "idle" /\ message = <<>> /\ tries = 0
  /\ hw = <<>> /\ aired = [c \in Callers |-> 0] /\ stall = 0 /\ maxStall \in Stalls
  /\ sends = [c \in Callers |-> 0] /\ counters = [dropped |-> 0, errors |-> 0]

-----------------------------------------------------------------------------
ThreadRuns == ~halted /\ ~inIsr /\ psq = <<>>
Running(c) == IF c = Isr THEN ~halted /\ inIsr ELSE ThreadRuns

EnterIsr ==
  /\ ~halted /\ ~inIsr /\ sends[Isr] < MaxSends[Isr]
  /\ inIsr' = TRUE
  /\ UNCHANGED <<free, content, callerVars, kernelVars, senderVars, busVars, sends, counters>>

LeaveIsr ==
  /\ Running(Isr) /\ at[Isr] = "out"
  /\ inIsr' = FALSE
  /\ UNCHANGED <<free, content, callerVars, kernelVars, senderVars, busVars, sends, counters>>

(* canFrameQueue.alloc(): rt_alloc_box takes the head of the free list in  *)
(* one exclusive access, from any context.  With no box the frame is       *)
(* dropped and counted, by a load and a store that others may come between.*)
TakeBoxLinked(c) == box' = [box EXCEPT ![c] = <<Head(free)>>] /\ UNCHANGED free
TakeBox(c) == box' = [box EXCEPT ![c] = <<Head(free)>>] /\ free' = Tail(free)

Alloc(c) ==
  /\ Running(c) /\ at[c] = "out" /\ sends[c] < MaxSends[c]
  /\ sends' = [sends EXCEPT ![c] = @ + 1]
  /\ IF free = <<>>
     THEN /\ at' = [at EXCEPT ![c] = "dropping"]
          /\ loaded' = [loaded EXCEPT ![c] = counters.dropped]
          /\ UNCHANGED <<box, free>>
     ELSE /\ TakeBox(c)
          /\ at' = [at EXCEPT ![c] = "filling"]
          /\ UNCHANGED loaded
  /\ UNCHANGED <<content, inIsr, kernelVars, senderVars, busVars, counters>>

CountDrop(c) ==
  /\ Running(c) /\ at[c] = "dropping"
  /\ counters' = [counters EXCEPT !.dropped = loaded[c] + 1]
  /\ at' = [at EXCEPT ![c] = "out"]
  /\ loaded' = [loaded EXCEPT ![c] = 0]
  /\ UNCHANGED <<free, content, box, inIsr, kernelVars, senderVars, busVars, sends>>

Fill(c) ==
  /\ Running(c) /\ at[c] = "filling"
  /\ content' = [content EXCEPT ![box[c][1]] = [from |-> c, n |-> sends[c]]]
  /\ at' = [at EXCEPT ![c] = "putting"]
  /\ UNCHANGED <<free, box, loaded, inIsr, kernelVars, senderVars, busVars, sends, counters>>

(* rt_mbx_send, rt_mbx_psh: a waiting thread is handed the box.            *)
DeliverInFront(b) ==
  IF run = "waiting"
  THEN run' = "writing" /\ message' = <<b>> /\ UNCHANGED <<mailbox, halted>>
  ELSE mailbox' = <<b>> \o mailbox /\ UNCHANGED <<run, message, halted>>
DeliverWithoutWaking(b) ==
  /\ mailbox' = Append(mailbox, b) /\ UNCHANGED <<run, message, halted>>
Deliver(b) ==
  IF run = "waiting"
  THEN run' = "writing" /\ message' = <<b>> /\ UNCHANGED <<mailbox, halted>>
  ELSE IF Len(mailbox) < QueueSize
  THEN mailbox' = Append(mailbox, b) /\ UNCHANGED <<run, message, halted>>
  ELSE halted' = TRUE /\ UNCHANGED <<mailbox, run, message>>

(* put(): its result is not looked at, so a box refused by a full queue    *)
(* would be lost to the pool.                                              *)
Put(c) ==
  /\ Running(c) /\ at[c] = "putting"
  /\ IF Len(mailbox) = QueueSize
     THEN UNCHANGED <<kernelVars, run, message>>
     ELSE IF c = Isr
     THEN psq' = Append(psq, box[c][1]) /\ UNCHANGED <<mailbox, halted, run, message>>
     ELSE Deliver(box[c][1]) /\ UNCHANGED psq
  /\ at' = [at EXCEPT ![c] = "out"]
  /\ box' = [box EXCEPT ![c] = <<>>]
  /\ UNCHANGED <<free, content, loaded, inIsr, tries, busVars, sends, counters>>

SendCanFrame(c) == Alloc(c) \/ CountDrop(c) \/ Fill(c) \/ Put(c)

PopRequest ==
  /\ ~halted /\ ~inIsr
  /\ psq # <<>>
  /\ Deliver(Head(psq))
  /\ psq' = Tail(psq)
  /\ UNCHANGED <<free, content, callerVars, inIsr, tries, busVars, sends, counters>>

-----------------------------------------------------------------------------
(* SaabCan::sendFunc *)

Get ==
  /\ ThreadRuns /\ run = "idle"
  /\ IF mailbox = <<>>
     THEN run' = "waiting" /\ UNCHANGED <<message, mailbox>>
     ELSE /\ run' = "writing"
          /\ message' = <<Head(mailbox)>>
          /\ mailbox' = Tail(mailbox)
  /\ UNCHANGED <<free, content, callerVars, inIsr, psq, halted, tries, busVars, sends, counters>>

GiveUpEarly == tries + 1 >= Retries
GiveUp == tries + 1 > Retries

EmptyMailbox == Len(hw) < HwSize

(* iBus.write: can_write finds an empty mailbox or returns 0.              *)
Write ==
  /\ ThreadRuns /\ run = "writing"
  /\ IF EmptyMailbox
     THEN /\ hw' = Append(hw, content[message[1]])
          /\ run' = "freeing"
          /\ UNCHANGED <<tries, counters>>
     ELSE /\ UNCHANGED hw
          /\ IF GiveUp
             THEN /\ counters' = [counters EXCEPT !.errors = @ + 1]
                  /\ run' = "freeing" /\ UNCHANGED tries
             ELSE tries' = tries + 1 /\ run' = "sleeping" /\ UNCHANGED counters
  /\ UNCHANGED <<free, content, callerVars, inIsr, kernelVars, message, aired, stall, maxStall, sends>>

(* Thread::wait(1) is over.  Time matters here only to a waiting retry, so *)
(* this is also the step that lets it pass for the bus.                    *)
Wake ==
  /\ ThreadRuns /\ run = "sleeping"
  /\ run' = "writing"
  /\ maxStall > 0 /\ Len(hw) = HwSize => stall < maxStall
  /\ stall' = IF maxStall > 0 /\ Len(hw) = HwSize THEN stall + 1 ELSE 0
  /\ UNCHANGED <<free, content, callerVars, inIsr, kernelVars, message, tries, hw, aired, maxStall, sends, counters>>

ReturnBoxTwice == free' = message \o message \o free
ReturnBox == free' = message \o free

(* canFrameQueue.free(message); the next frame starts with no tries.       *)
Free ==
  /\ ThreadRuns /\ run = "freeing"
  /\ ReturnBox
  /\ message' = <<>>
  /\ tries' = 0
  /\ run' = "idle"
  /\ UNCHANGED <<content, callerVars, inIsr, kernelVars, busVars, sends, counters>>

(* The controller transmits its mailboxes in the order of request (TXFP)   *)
(* when it wins the bus.                                                   *)
TransmitNewest ==
  /\ hw # <<>> /\ hw' = SubSeq(hw, 1, Len(hw) - 1)
  /\ aired' = [aired EXCEPT ![hw[Len(hw)].from] = hw[Len(hw)].n]
TransmitOldest ==
  /\ hw # <<>> /\ hw' = Tail(hw)
  /\ aired' = [aired EXCEPT ![Head(hw).from] = Head(hw).n]

Transmit ==
  /\ TransmitOldest
  /\ stall' = 0
  /\ UNCHANGED <<free, content, callerVars, inIsr, kernelVars, senderVars, maxStall, sends, counters>>

-----------------------------------------------------------------------------
Isrs == EnterIsr \/ LeaveIsr
SendFunc == Get \/ Write \/ Wake \/ Free

Next ==
  \/ Isrs
  \/ \E c \in Callers : SendCanFrame(c)
  \/ PopRequest
  \/ SendFunc
  \/ Transmit

Safe == Init /\ [][Next]_vars

(* The handler returns, interrupts are far enough apart (a frame takes     *)
(* more than a millisecond) for PendSV to be taken between two, and round  *)
(* robin gives every ready thread the processor.  Each process has one     *)
(* step at a time, so its condition covers all of them.  Of the bus only   *)
(* what it promised.                                                       *)
Fairness ==
  /\ WF_vars(LeaveIsr \/ Fill(Isr) \/ Put(Isr) \/ CountDrop(Isr))
  /\ \A c \in Threads : SF_vars(Fill(c) \/ Put(c))
  /\ SF_vars(PopRequest)
  /\ SF_vars(SendFunc)
  /\ WF_vars(0 < maxStall /\ Transmit)

Spec == Safe /\ Fairness
-----------------------------------------------------------------------------
TypeOK ==
  /\ free \in Seq(Boxes) /\ psq \in Seq(Boxes) /\ mailbox \in Seq(Boxes)
  /\ content \in [Boxes -> Frame]
  /\ at \in [Callers -> {"out", "filling", "putting", "dropping"}]
  /\ box \in [Callers -> Seq(Boxes)] /\ inIsr \in BOOLEAN
  /\ run \in {"idle", "waiting", "writing", "sleeping", "freeing"}
  /\ message \in Seq(Boxes)
  /\ Len(message) = IF run \in {"writing", "sleeping", "freeing"} THEN 1 ELSE 0
  /\ tries \in 0 .. Retries /\ maxStall \in Stalls /\ stall \in 0 .. maxStall
  /\ hw \in Seq(Frame) /\ Len(hw) <= HwSize
  /\ aired \in [Callers -> Nat] /\ sends \in [Callers -> Nat]
  /\ loaded \in [Callers -> Nat] /\ counters \in [dropped : Nat, errors : Nat]
  /\ halted \in BOOLEAN

(* The boxes on the way to the controller, the oldest first, and what they *)
(* carry.                                                                  *)
InTransit == (message \o mailbox) \o psq
Carried(s) == [i \in 1 .. Len(s) |-> content[s[i]]]

Holders(b) == {c \in Callers : box[c] = <<b>>}
Times(s, b) == Cardinality({i \in 1 .. Len(s) : s[i] = b})

(* Each box is in one place: in the pool, with one caller, or on the way.  *)
(* Allocation by the handler in the middle of a thread's allocation, or a  *)
(* box given back while it is still queued, would put one box in two, and  *)
(* two frames into one block; a box in none is lost to the pool for good.  *)
BoxesConserved ==
  \A b \in Boxes : Times(free, b) + Times(InTransit, b) + Cardinality(Holders(b)) = 1

(* The mail queue has a slot for every block of the pool, so the kernel's  *)
(* fatal mailbox overflow in rt_mbx_psh cannot be reached from here, and   *)
(* put(), whose result sendCanFrame ignores, does not fail.                *)
QueueHasRoom ==
  /\ ~halted
  /\ (\E c \in Callers : at[c] = "putting") => Len(mailbox) < QueueSize

(* A caller's frames go out in the order of its calls (TXFP; "single       *)
(* consumer, so frame order is kept"), whatever was dropped in between.    *)
OrderKept ==
  LET unwritten == (IF run = "freeing" THEN <<>> ELSE message) \o mailbox \o psq
      line == hw \o Carried(unwritten)
  IN \A i \in 1 .. Len(line) :
       /\ aired[line[i].from] < line[i].n
       /\ \A j \in i + 1 .. Len(line) : line[i].from = line[j].from => line[i].n < line[j].n

(* The retries bridge every stall of the bus they were meant for: while    *)
(* the controller frees a mailbox within fewer than Retries of them, no    *)
(* accepted frame is given up.                                             *)
NoFrameGivenUp == 0 < maxStall /\ maxStall < Retries => counters.errors = 0

(* From put() to free() the path is a FIFO channel of the frames as their  *)
(* callers built them, of at most as many as there are boxes.              *)
Channel == INSTANCE BoundedChannel WITH
             Value <- Frame, Bound <- QueueSize, chan <- Carried(InTransit)
ImplementsChannel == Channel!Spec

(* Whatever the bus does, a box that left the pool comes back to it, so    *)
(* that a dead bus cannot stop the callers for good.                       *)
BoxesComeBack == \A b \in Boxes : b \notin Items(free) ~> b \in Items(free)
=============================================================================
