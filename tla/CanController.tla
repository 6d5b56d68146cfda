---------------------------- MODULE CanController ----------------------------
(***************************************************************************)
(* The controller's set-up and the way of a received frame: can_api.c      *)
(* (can_init_freq, can_frequency, can_mode, can_read, can_irq) and         *)
(* SaabCan.cpp (initialize, onRx, attach).                                 *)
(*                                                                         *)
(* The main thread constructs the CAN object, sets the bit rate a second   *)
(* time in initialize(), asks for normal mode, enables the receive         *)
(* interrupt and attaches the handlers one after the other.  The hardware  *)
(* enters and leaves initialization mode and takes frames into a FIFO by   *)
(* itself; the interrupt preempts the main thread, never the reverse.      *)
(***************************************************************************)
EXTENDS Naturals, Sequences, FiniteSets

CONSTANTS
  Attached,   \* the handlers, in the order in which they are attached
  IdOf,       \* the CAN id each handler is attached for
  NoId,       \* the id 0 of an empty entry
  NoHandler,  \* an empty Callback
  Slots,      \* CAN_MAX_CALLBACKS, 10
  Depth,      \* frames the receive FIFO holds, 3
  Pclk, Hz,   \* the peripheral clock, 36 MHz, and the bit rate of the I-Bus, 47619
  Kinds,      \* kinds of frames on the bus: [id, data]; data: standard data frame
  MaxFrames,  \* bound of the model: frames received
  MaxFaults   \* bound of the model: times the bus is stuck dominant

Handlers == {Attached[i] : i \in DOMAIN Attached}
Ids == {IdOf[h] : h \in Handlers} \cup {NoId} \cup {k.id : k \in Kinds}

ASSUME HandlersAssumption ==
  /\ Attached \in Seq(Handlers) /\ IdOf \in [Handlers -> Ids \ {NoId}] /\ NoHandler \notin Handlers
  /\ \A i, j \in DOMAIN Attached : Attached[i] = Attached[j] => i = j
  /\ Kinds \subseteq [id : Ids, data : BOOLEAN]
ASSUME CanSizesAssumption ==
  Slots \in Nat \ {0} /\ Depth \in Nat \ {0, 1} /\ Pclk \in Nat /\ Hz \in Nat \ {0} /\ MaxFrames \in Nat /\ MaxFaults \in Nat

Numbers == 1 .. MaxFrames
Frame == [n : Numbers, id : Ids, data : BOOLEAN]

VARIABLES
  bus,      \* "well" or "stuck" dominant
  faults,   \* times it got stuck
  inak,     \* MSR.INAK: the controller is in initialization mode
  inrq,     \* MCR.INRQ: it is asked to be
  btr,      \* BTR, the bit timing
  silm,     \* BTR, silent mode
  pc,       \* where the main thread stands
  call,     \* in which call: "constructor", "frequency" or "mode"
  slow,     \* the bus was stuck during the wait that is on
  log,      \* what was logged
  ier,      \* the receive interrupt is enabled
  callBacks,\* SaabCan::callBacks
  half,     \* what attach() has stored of its entry: "", "id" or "callBack"
  todo,     \* handlers not yet attached
  fifo,     \* frames in the receive FIFO, the oldest first
  fovr,     \* RF0R.FOVR0
  isr,      \* where onRx stands
  canRxFrame, \* the frame it has, as a sequence of at most one
  overruns, \* can_rx_overruns
  frames,   \* frames received so far, by kind
  missed,   \* those overwritten in the FIFO: while one was being read, or not
  handled,  \* the numbers of the frames each handler was called with
  before,   \* frames received before the interrupt was enabled
  since     \* frames received before each handler was attached

busVars == <<bus, faults>>
modeVars == <<inak, inrq, btr, silm>>
mainVars == <<pc, call, slow, log>>
tableVars == <<ier, callBacks, half, todo, before, since>>
fifoVars == <<fifo, fovr, frames, missed>>
isrVars == <<isr, canRxFrame, overruns, handled>>
vars == <<busVars, modeVars, mainVars, tableVars, fifoVars, isrVars>>

(* can_speed: the prescaler and the two time segments for a bit rate, with *)
(* the sampling point as close to 75% as the table has it.  The search     *)
(* takes the first prescaler that divides the bit exactly.                 *)
Tseg1 == <<1, 2, 3, 3, 4, 5, 6, 6, 7, 8, 9, 9, 10, 11, 12, 13, 13, 14, 15, 15, 15, 15>>
Tseg2 == <<0, 0, 0, 1, 1, 1, 1, 2, 2, 2, 2, 3, 3, 3, 3, 3, 4, 4, 4, 5, 6, 7>>
NoTiming == [brp |-> 1023, ts1 |-> 15, ts2 |-> 7]
CanSpeed(hz) ==
  LET bitwidth == Pclk \div hz
      bits(brp) == {b \in 1 .. 22 : (b + 3) * (brp + 1) = bitwidth}
      brps == {brp \in bitwidth \div 24 + 1 .. bitwidth \div 4 : bits(brp) # {}}
  IN IF brps = {} THEN NoTiming
     ELSE LET brp == CHOOSE p \in brps : \A q \in brps : p <= q
              b == CHOOSE b \in bits(brp) : TRUE
          IN [brp |-> brp % 1024, ts1 |-> Tseg1[b], ts2 |-> Tseg2[b]]

Reset == [brp |-> 0, ts1 |-> 3, ts2 |-> 2]
Placeholder == [brp |-> 1, ts1 |-> 5, ts2 |-> 7]
Timing == CanSpeed(Hz)
AtItsRate == btr = Timing

Empty == [id |-> NoId, callBack |-> NoHandler]
Init ==
  /\ bus \in {"well", "stuck"} /\ faults = 0
  /\ inak = FALSE /\ inrq = FALSE /\ btr = Reset /\ silm = FALSE
  /\ pc = "construct" /\ call = "constructor" /\ slow = FALSE /\ log = {}
  /\ ier = FALSE /\ callBacks = [i \in 1 .. Slots |-> Empty] /\ half = "" /\ todo = Attached
  /\ before = 0 /\ since = [h \in Handlers |-> 0]
  /\ fifo = <<>> /\ fovr = FALSE /\ frames = <<>>
  /\ missed = [reading |-> {}, other |-> {}]
  /\ isr = "out" /\ canRxFrame = <<>> /\ overruns = 0 /\ handled = [h \in Handlers |-> <<>>]

-----------------------------------------------------------------------------
(* The bus and the controller.                                             *)

OnTheBus == pc # "construct" /\ ~inak

(* A harness or transceiver fault holds the bus dominant for a while.      *)
(* Later than the set-up this only keeps frames away, and is left out.     *)
Waits == {"construct_leaving", "entering", "leaving"}
Stick ==
  /\ bus = "well" /\ faults < MaxFaults /\ pc \notin {"attach_irq", "attach"}
  /\ bus' = "stuck" /\ faults' = faults + 1 /\ slow' = (pc \in Waits)
  /\ UNCHANGED <<modeVars, pc, call, log, tableVars, fifoVars, isrVars>>
Recover ==
  /\ bus = "stuck" /\ bus' = "well"
  /\ UNCHANGED <<faults, modeVars, mainVars, tableVars, fifoVars, isrVars>>

(* INAK follows INRQ, into initialization mode when the frame in flight    *)
(* has ended, out of it after 11 recessive bits: on a bus that is well in  *)
(* less than 3 ms, on one that is stuck not at all.                        *)
FollowRequest ==
  /\ pc # "construct" /\ bus = "well" /\ inak # inrq
  /\ inak' = inrq
  /\ UNCHANGED <<busVars, inrq, btr, silm, mainVars, tableVars, fifoVars, isrVars>>

(* A frame enters the FIFO.  RFLM is off: in a full one the newest frame   *)
(* is overwritten, and FOVR0 is set.                                       *)
Arrive(k) ==
  LET n == Len(frames) + 1
      f == [n |-> n, id |-> k.id, data |-> k.data]
  IN /\ OnTheBus /\ bus = "well" /\ AtItsRate /\ n <= MaxFrames
     /\ frames' = Append(frames, k)
     /\ IF Len(fifo) < Depth
        THEN fifo' = Append(fifo, f) /\ UNCHANGED <<fovr, missed>>
        ELSE /\ fifo' = [fifo EXCEPT ![Depth] = f] /\ fovr' = TRUE
             /\ missed' = IF isr \in {"read", "release"}
                          THEN [missed EXCEPT !.reading = @ \cup {fifo[Depth].n}]
                          ELSE [missed EXCEPT !.other = @ \cup {fifo[Depth].n}]
     /\ UNCHANGED <<busVars, modeVars, mainVars, tableVars, isrVars>>

-----------------------------------------------------------------------------
(* The main thread: can_init_freq, then can_frequency twice and can_mode.  *)

IrqPending == ier /\ fifo # <<>>
MainRuns == isr = "out" /\ ~IrqPending
Setup == MainRuns /\ UNCHANGED <<busVars, tableVars, fifoVars, isrVars>>
WaitBegins == slow' = (bus = "stuck")
WaitEnds == slow' = FALSE

(* HAL_CAN_Init comes out of reset, where no frame is in flight, into      *)
(* initialization mode, and is left waiting for the bus.                   *)
ConstructNormal == silm' = FALSE
ConstructSilent == silm' = TRUE
Construct ==
  /\ pc = "construct" /\ pc' = "construct_leaving"
  /\ inak' = TRUE /\ inrq' = FALSE /\ btr' = Placeholder /\ ConstructSilent
  /\ WaitBegins
  /\ Setup /\ UNCHANGED <<call, log>>

(* The constructor drops the result, initialize() logs it.                 *)
Return(ok) ==
  /\ log' = IF ok \/ call = "constructor" THEN log ELSE log \cup {call}
  /\ call' = IF call = "constructor" THEN "frequency" ELSE "mode"
  /\ pc' = IF call = "mode" THEN "attach_irq" ELSE "request"

(* A rate no timing fits is refused at once.                               *)
RequestInit ==
  /\ pc = "request"
  /\ IF call # "mode" /\ Timing = NoTiming
     THEN Return(FALSE) /\ UNCHANGED <<inrq, slow>>
     ELSE /\ pc' = "entering" /\ UNCHANGED <<call, log>>
          /\ inrq' = TRUE
          /\ WaitBegins
  /\ Setup /\ UNCHANGED <<inak, btr, silm>>

(* The end of a wait for INAK, or its timeout, which only a stuck bus is   *)
(* slow enough for.  can_mode goes on as if it had been granted.           *)
Entered ==
  /\ pc = "entering" /\ (inak \/ slow)
  /\ pc' = IF inak \/ call = "mode" THEN "configure" ELSE "withdraw"
  /\ WaitEnds
  /\ Setup /\ UNCHANGED <<modeVars, call, log>>

(* can->BTR can be written in initialization mode only: can_frequency      *)
(* writes the timing, can_mode its mode bits alone.                        *)
WithdrawIfEntered == inrq' = ~inak
WithdrawRequest == inrq' = FALSE
BtrWritten == IF call = "mode" THEN btr ELSE Timing
Configure ==
  /\ pc = "configure" /\ pc' = "leaving"
  /\ IF inak
     THEN silm' = FALSE /\ btr' = BtrWritten
     ELSE UNCHANGED <<btr, silm>>
  /\ WithdrawRequest
  /\ WaitBegins
  /\ Setup /\ UNCHANGED <<inak, call, log>>

Withdraw ==
  /\ pc = "withdraw"
  /\ WithdrawRequest
  /\ Return(FALSE)
  /\ Setup /\ UNCHANGED <<inak, btr, silm, slow>>

Left ==
  /\ pc = "leaving" /\ (~inak \/ slow)
  /\ Return(~inak)
  /\ WaitEnds
  /\ Setup /\ UNCHANGED modeVars

ConstructLeft ==
  /\ pc = "construct_leaving" /\ (~inak \/ slow)
  /\ pc' = "request"
  /\ WaitEnds
  /\ Setup /\ UNCHANGED <<modeVars, call, log>>

(* iBus.attach: from here on a frame interrupts.                           *)
AttachIrq ==
  /\ MainRuns /\ pc = "attach_irq"
  /\ ier' = TRUE /\ before' = Len(frames)
  /\ pc' = "attach"
  /\ UNCHANGED <<busVars, modeVars, call, slow, log, callBacks, half, todo, since, fifoVars, isrVars>>

(* SaabCan::attach takes the first entry whose id is 0 and stores the      *)
(* Callback and the id.  Neither is volatile: the compiler may store       *)
(* either first.                                                           *)
Free == {i \in 1 .. Slots : callBacks[i].id = NoId}
First(s) == CHOOSE i \in s : \A j \in s : i <= j
Entry == IF half = "id" THEN CHOOSE i \in 1 .. Slots : callBacks[i].id # NoId /\ callBacks[i].callBack = NoHandler
         ELSE First(Free)
Attaching == pc = "attach" /\ MainRuns /\ todo # <<>>
AttachFirst(field) ==
  /\ Attaching /\ half = "" /\ Free # {}
  /\ half' = field
  /\ callBacks' = IF field = "id"
                  THEN [callBacks EXCEPT ![Entry].id = IdOf[Head(todo)]]
                  ELSE [callBacks EXCEPT ![Entry].callBack = Head(todo)]
  /\ UNCHANGED <<busVars, modeVars, mainVars, ier, todo, before, since, fifoVars, isrVars>>
AttachSecond ==
  /\ Attaching /\ half # ""
  /\ callBacks' = [callBacks EXCEPT ![Entry] = [id |-> IdOf[Head(todo)], callBack |-> Head(todo)]]
  /\ half' = "" /\ todo' = Tail(todo)
  /\ since' = [since EXCEPT ![Head(todo)] = Len(frames)]
  /\ UNCHANGED <<busVars, modeVars, mainVars, ier, before, fifoVars, isrVars>>
TableFull ==
  /\ Attaching /\ half = "" /\ Free = {}
  /\ log' = log \cup {"table full"} /\ todo' = Tail(todo)
  /\ UNCHANGED <<busVars, modeVars, pc, call, slow, ier, callBacks, half, before, since, fifoVars, isrVars>>

-----------------------------------------------------------------------------
(* The receive interrupt: can_irq calls onRx, which reads until there is   *)
(* nothing left.                                                           *)

Isr == UNCHANGED <<busVars, modeVars, mainVars, tableVars, frames, missed>>

EnterIsr ==
  /\ isr = "out" /\ IrqPending /\ isr' = "check"
  /\ Isr /\ UNCHANGED <<fifo, fovr, canRxFrame, overruns, handled>>

(* can_read counts and clears an overrun ...                               *)
CountNothing == overruns
Count == IF fovr THEN overruns + 1 ELSE overruns
CheckOverrun ==
  /\ isr = "check" /\ isr' = "read"
  /\ overruns' = Count /\ fovr' = FALSE
  /\ Isr /\ UNCHANGED <<fifo, canRxFrame, handled>>

(* ... reads the frame ...                                                 *)
ReadFrame ==
  /\ isr = "read"
  /\ IF fifo = <<>>
     THEN isr' = "out" /\ UNCHANGED canRxFrame
     ELSE isr' = "release" /\ canRxFrame' = <<Head(fifo)>>
  /\ Isr /\ UNCHANGED <<fifo, fovr, overruns, handled>>

(* ... and releases it by RF0R |= RFOM0, which reads FOVR0 and writes it   *)
(* back: one that was set since the check is cleared.                      *)
NotReleased == fifo' = fifo
Released == fifo' = Tail(fifo)
ReleaseFifo ==
  /\ isr = "release" /\ isr' = "dispatch"
  /\ Released /\ fovr' = FALSE
  /\ Isr /\ UNCHANGED <<canRxFrame, overruns, handled>>

(* onRx calls every entry for the frame's id that is not empty.            *)
Called(f) == {callBacks[i].callBack : i \in {j \in 1 .. Slots : callBacks[j].id = f.id}} \ {NoHandler}
Dispatch ==
  LET f == canRxFrame[1]
  IN /\ isr = "dispatch" /\ isr' = "check"
     /\ handled' = [h \in Handlers |-> IF f.data /\ h \in Called(f)
                                       THEN Append(handled[h], f.n) ELSE handled[h]]
     /\ canRxFrame' = <<>>
     /\ Isr /\ UNCHANGED <<fifo, fovr, overruns>>

-----------------------------------------------------------------------------
Hardware == FollowRequest \/ \E k \in Kinds : Arrive(k)
CanSetup == \/ Construct \/ ConstructLeft
            \/ RequestInit \/ Entered \/ Configure \/ Withdraw \/ Left
Attach == AttachIrq \/ (\E field \in {"id", "callBack"} : AttachFirst(field)) \/ AttachSecond \/ TableFull
OnRx == EnterIsr \/ CheckOverrun \/ ReadFrame \/ ReleaseFifo \/ Dispatch
Next == Stick \/ Recover \/ Hardware \/ CanSetup \/ Attach \/ OnRx

(* The main thread runs when nothing interrupts it, the interrupt when it  *)
(* is pending, and the controller answers on a bus that is well.           *)
Spec == Init /\ [][Next]_vars
        /\ SF_vars(FollowRequest) /\ SF_vars(CanSetup \/ Attach) /\ WF_vars(OnRx)
-----------------------------------------------------------------------------
TypeOK ==
  /\ bus \in {"well", "stuck"} /\ faults \in 0 .. MaxFaults
  /\ {inak, inrq, silm, slow, ier, fovr} \subseteq BOOLEAN
  /\ btr \in {Reset, Placeholder, Timing}
  /\ pc \in {"construct", "construct_leaving", "request", "entering", "configure", "withdraw",
             "leaving", "attach_irq", "attach"}
  /\ call \in {"constructor", "frequency", "mode"} /\ log \subseteq {"frequency", "mode", "table full"}
  /\ callBacks \in [1 .. Slots -> [id : Ids, callBack : Handlers \cup {NoHandler}]]
  /\ half \in {"", "id", "callBack"} /\ todo \in Seq(Handlers)
  /\ fifo \in Seq(Frame) /\ Len(fifo) <= Depth
  /\ isr \in {"out", "check", "read", "release", "dispatch"} /\ canRxFrame \in Seq(Frame)
  /\ overruns \in Nat /\ frames \in Seq(Kinds)
  /\ missed \in [{"reading", "other"} -> SUBSET Numbers]
  /\ handled \in [Handlers -> Seq(Numbers)] /\ before \in Nat /\ since \in [Handlers -> Nat]

(* A unit whose bit rate is not the bus's does not disturb it: it is       *)
(* silent ("Silent mode keeps the node from putting error flags on the     *)
(* live bus in that window"), unless initialize() has logged that the      *)
(* second chance failed as well, and asks for normal mode all the same.    *)
WrongRateStaysSilent == OnTheBus /\ ~AtItsRate => silm \/ "frequency" \in log

(* Whatever the bus did during the set-up, once it is well for good the    *)
(* unit is on it, at its rate and not silent, or has logged the failure:   *)
(* no request for initialization mode is left behind.                      *)
JoinsTheBus ==
  <>[](bus = "well") => <>[](OnTheBus /\ ((AtItsRate /\ ~silm) \/ "frequency" \in log))

Numbered(s) == {s[i].n : i \in DOMAIN s}
Calls(h) == {handled[h][i] : i \in DOMAIN handled[h]}

(* A handler is called with frames of its id only, standard data frames,   *)
(* in the order of the bus, each once, and with none that was left in the  *)
(* FIFO from before the unit listened; also while attach() is under way.   *)
(* The exception is a frame with the id 0 just then: it may find the       *)
(* Callback in an entry whose id is not yet stored.                        *)
HandledOnceInOrder ==
  \A h \in Handlers :
    /\ \A i, j \in DOMAIN handled[h] : i < j => handled[h][i] < handled[h][j]
    /\ \A n \in Calls(h) :
         /\ n > before /\ frames[n].data
         /\ frames[n].id = IdOf[h] \/ (frames[n].id = NoId /\ (since[h] >= n \/ since[h] = 0))

(* A frame received after its handler was attached is handled, on its way, *)
(* or was overwritten; and frames overwritten while the interrupt was not  *)
(* reading show in the count of overruns ("frames silently lost when the   *)
(* 3-deep FIFO fills faster than the ISR drains it").                      *)
LossesCounted ==
  /\ \A i \in 1 .. Slots : LET h == callBacks[i].callBack IN
       h # NoHandler /\ h \notin {todo[j] : j \in DOMAIN todo} =>
         \A n \in since[h] + 1 .. Len(frames) :
           frames[n] = [id |-> IdOf[h], data |-> TRUE] =>
             n \in Calls(h) \cup Numbered(fifo) \cup Numbered(canRxFrame)
                  \cup missed.reading \cup missed.other
  /\ missed.other # {} => overruns > 0 \/ fovr
=============================================================================
