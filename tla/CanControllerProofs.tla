------------------------- MODULE CanControllerProofs -------------------------
(***************************************************************************)
(* Proofs about CanController for every set of handlers, every table and   *)
(* FIFO size, every clock and bit rate, and every kind of traffic.         *)
(***************************************************************************)
EXTENDS CanController, BusSpacing, RtxLemmas, WellFoundedInduction, TLAPS

(* The handshakes, as far as silence rests on them: outside the two steps  *)
(* between which the main thread holds the controller in initialization    *)
(* mode, a wrong rate comes with silence or a logged failure; normal mode  *)
(* is asked for with the right rate or after the failure was logged.       *)
SilenceInv ==
  /\ pc # "construct" /\ ~AtItsRate => silm \/ "frequency" \in log
  /\ call = "mode" => pc # "construct" /\ (AtItsRate \/ "frequency" \in log)
  /\ pc = "entering" => inrq
  /\ pc = "configure" /\ call # "mode" => inak /\ inrq
  /\ pc = "leaving" /\ call # "mode" => AtItsRate
  /\ call \in {"constructor", "frequency", "mode"}

(* The constructor's request and whatever call returns keep it, if a call  *)
(* that returns success has set the rate.                                  *)
LEMMA ReturnKeeps ==
  ASSUME SilenceInv, pc # "construct", NEW ok, Return(ok),
         ok => AtItsRate \/ call = "mode", UNCHANGED <<btr, silm>>
  PROVE  SilenceInv'
  <1>1. call = "mode" => AtItsRate \/ "frequency" \in log
    BY DEF SilenceInv
  <1>2. pc' \in {"attach_irq", "request"} /\ (AtItsRate' <=> AtItsRate) /\ silm' = silm
    BY DEF Return, AtItsRate, Timing
  <1>3. "frequency" \in log => "frequency" \in log'
    BY DEF Return
  <1>4. call' \in {"frequency", "mode"} /\ (call' = "mode" => call # "constructor")
    BY DEF Return
  <1>5. call = "frequency" => AtItsRate \/ "frequency" \in log'
    BY DEF Return
  <1>6. QED
    BY <1>1, <1>2, <1>3, <1>4, <1>5 DEF SilenceInv

(* Nothing but the set-up touches the rate and the mode, and the log only  *)
(* grows.                                                                  *)
LEMMA OthersKeep ==
  ASSUME SilenceInv, UNCHANGED <<btr, silm, inrq, call>>, log \subseteq log',
         inak' = inak \/ inak' = inrq,
         pc' = pc \/ (pc = "attach_irq" /\ pc' = "attach")
  PROVE  SilenceInv'
  BY DEF SilenceInv, AtItsRate, Timing

LEMMA SetupKeeps ==
  ASSUME SilenceInv, CanSetup
  PROVE  SilenceInv'
  <1>1. CASE Construct
    <2>1. silm' /\ pc' = "construct_leaving" /\ call' = call /\ call # "mode"
      BY <1>1 DEF Construct, ConstructSilent, SilenceInv
    <2>2. QED
      BY <2>1 DEF SilenceInv
  <1>2. CASE ConstructLeft
    <2>1. /\ pc = "construct_leaving" /\ pc' = "request"
          /\ UNCHANGED <<inak, inrq, btr, silm, call, log>>
      BY <1>2 DEF ConstructLeft, modeVars
    <2>2. QED
      BY <2>1 DEF SilenceInv, AtItsRate, Timing
  <1>3. CASE RequestInit
    <2>1. CASE call # "mode" /\ Timing = NoTiming
      <3>1. Return(FALSE) /\ pc # "construct" /\ UNCHANGED <<btr, silm>>
        BY <1>3, <2>1 DEF RequestInit
      <3>2. QED
        BY <3>1, ReturnKeeps
    <2>2. CASE ~(call # "mode" /\ Timing = NoTiming)
      <3>1. /\ pc = "request" /\ pc' = "entering" /\ inrq' = TRUE
            /\ UNCHANGED <<btr, silm, call, log>>
        BY <1>3, <2>2 DEF RequestInit
      <3>2. QED
        BY <3>1 DEF SilenceInv, AtItsRate, Timing
    <2>3. QED
      BY <2>1, <2>2
  <1>4. CASE Entered
    <2>1. /\ pc = "entering" /\ pc' = (IF inak \/ call = "mode" THEN "configure" ELSE "withdraw")
          /\ UNCHANGED <<inak, inrq, btr, silm, call, log>>
      BY <1>4 DEF Entered, modeVars
    <2>2. QED
      BY <2>1 DEF SilenceInv, AtItsRate, Timing
  <1>5. CASE Configure
    <2>1. pc = "configure" /\ pc' = "leaving" /\ UNCHANGED <<call, log>>
      BY <1>5 DEF Configure
    <2>2. CASE inak
      <3>1. btr' = IF call = "mode" THEN btr ELSE Timing
        BY <1>5, <2>2 DEF Configure, BtrWritten
      <3>2. QED
        BY <2>1, <3>1 DEF SilenceInv, AtItsRate, Timing
    <2>3. CASE ~inak
      <3>1. UNCHANGED <<btr, silm>>
        BY <1>5, <2>3 DEF Configure
      <3>2. QED
        BY <2>1, <2>3, <3>1 DEF SilenceInv, AtItsRate, Timing
    <2>4. QED
      BY <2>2, <2>3
  <1>6. CASE Withdraw
    <2>1. Return(FALSE) /\ pc = "withdraw" /\ UNCHANGED <<btr, silm>>
      BY <1>6 DEF Withdraw
    <2>2. QED
      BY <2>1, ReturnKeeps
  <1>7. CASE Left
    <2>1. Return(~inak) /\ pc = "leaving" /\ UNCHANGED <<btr, silm>>
      BY <1>7 DEF Left, modeVars
    <2>2. AtItsRate \/ call = "mode"
      BY <2>1 DEF SilenceInv
    <2>3. QED
      BY <2>1, <2>2, ReturnKeeps
  <1>8. QED
    BY <1>1, <1>2, <1>3, <1>4, <1>5, <1>6, <1>7 DEF CanSetup

LEMMA SilenceStep == SilenceInv /\ [Next]_vars => SilenceInv'
  <1> SUFFICES ASSUME SilenceInv, [Next]_vars PROVE SilenceInv'
    OBVIOUS
  <1> USE DEF busVars, modeVars, mainVars, tableVars, fifoVars, isrVars
  <1>1. CASE Stick \/ Recover \/ Hardware
    BY <1>1, OthersKeep DEF Stick, Recover, Hardware, FollowRequest, Arrive
  <1>2. CASE CanSetup
    BY <1>2, SetupKeeps
  <1>3. CASE Attach
    BY <1>3, OthersKeep DEF Attach, AttachIrq, AttachFirst, AttachSecond, TableFull, Attaching
  <1>4. CASE OnRx
    BY <1>4, OthersKeep DEF OnRx, EnterIsr, CheckOverrun, ReadFrame, ReleaseFifo, Dispatch, Isr
  <1>5. CASE UNCHANGED vars
    BY <1>5, OthersKeep DEF vars
  <1>6. QED
    BY <1>1, <1>2, <1>3, <1>4, <1>5 DEF Next

(* A unit off its rate is silent on the live bus, or has logged that it is *)
(* not, for every bit rate, also one can_speed finds no timing for.        *)
THEOREM SilentUnlessLogged == Spec => []WrongRateStaysSilent
  <1>1. Init => SilenceInv
    BY DEF Init, SilenceInv
  <1>2. SilenceInv => WrongRateStaysSilent
    BY DEF SilenceInv, WrongRateStaysSilent, OnTheBus
  <1>3. QED
    BY <1>1, <1>2, SilenceStep, PTL DEF Spec
-----------------------------------------------------------------------------
(* The way of a frame.                                                     *)

RxTypeOK ==
  /\ ier \in BOOLEAN
  /\ callBacks \in [1 .. Slots -> [id : Ids, callBack : Handlers \cup {NoHandler}]]
  /\ half \in {"", "id", "callBack"} /\ todo \in Seq(Handlers)
  /\ fifo \in Seq(Frame) /\ Len(fifo) <= Depth
  /\ isr \in {"out", "check", "read", "release", "dispatch"} /\ canRxFrame \in Seq(Frame)
  /\ frames \in Seq(Kinds) /\ Len(frames) <= MaxFrames
  /\ handled \in [Handlers -> Seq(Numbers)] /\ before \in Nat /\ since \in [Handlers -> Nat]

(* A handler is in the table under its id, but for the one of which        *)
(* attach() has stored the Callback and not yet the id.                    *)
Whole(e) == e.callBack = NoHandler \/ e.id = IdOf[e.callBack]
TableInv ==
  /\ \A k \in 1 .. Slots :
       \/ Whole(callBacks[k])
       \/ /\ half = "callBack" /\ todo # <<>> /\ callBacks[k].callBack = Head(todo)
          /\ callBacks[k].id = NoId /\ k = First(Free)
  /\ \A j, k \in 1 .. Len(todo) : todo[j] = todo[k] => j = k
  /\ \A k \in 1 .. Len(todo) : since[todo[k]] = 0
  /\ pc = "attach" => ier

(* The FIFO has the frames in the order of the bus, and the frame that is  *)
(* being read is the oldest, or has been overwritten by a younger one.     *)
IsOf(f, fs) == f.n \in 1 .. Len(fs) /\ fs[f.n].id = f.id /\ fs[f.n].data = f.data
FifoInv ==
  /\ \A j, k \in 1 .. Len(fifo) : j < k => fifo[j].n < fifo[k].n
  /\ \A k \in 1 .. Len(fifo) : IsOf(fifo[k], frames)
  /\ isr \in {"out", "check", "read"} => canRxFrame = <<>>
  /\ isr \in {"release", "dispatch"} => Len(canRxFrame) = 1 /\ IsOf(canRxFrame[1], frames)
  /\ isr = "release" =>
       /\ fifo # <<>>
       /\ \A k \in 2 .. Len(fifo) : canRxFrame[1].n < fifo[k].n
  /\ isr = "dispatch" => \A k \in 1 .. Len(fifo) : canRxFrame[1].n < fifo[k].n

(* Nothing is called before the first handler is attached, and by then all *)
(* that was left from before has been read.                                *)
NoneAttached == \A k \in 1 .. Slots : callBacks[k].callBack = NoHandler
QuietInv ==
  /\ pc # "attach" => NoneAttached
  /\ before <= Len(frames)
  /\ NoneAttached => \A h \in Handlers : handled[h] = <<>>
  /\ \/ NoneAttached
     \/ /\ \A k \in 1 .. Len(fifo) : fifo[k].n > before
        /\ canRxFrame # <<>> => canRxFrame[1].n > before

(* What a handler may have been called with, and what may still come.      *)
Fits(h, n) ==
  /\ n \in 1 .. Len(frames) /\ n > before /\ frames[n].data
  /\ frames[n].id = IdOf[h] \/ (frames[n].id = NoId /\ (since[h] >= n \/ since[h] = 0))
HandledInv ==
  \A h \in Handlers : \A j \in 1 .. Len(handled[h]) :
    /\ Fits(h, handled[h][j])
    /\ \A k \in 1 .. Len(handled[h]) : j < k => handled[h][j] < handled[h][k]
    /\ \A k \in 1 .. Len(fifo) : handled[h][j] < fifo[k].n
    /\ canRxFrame # <<>> => handled[h][j] < canRxFrame[1].n

RxInv == RxTypeOK /\ TableInv /\ FifoInv /\ QuietInv /\ HandledInv
-----------------------------------------------------------------------------
LEMMA RxInit == Init => RxInv
  <1> SUFFICES ASSUME Init PROVE RxInv
    OBVIOUS
  <1>1. /\ Attached \in Seq(Handlers) /\ NoId \in Ids
        /\ \A j, k \in DOMAIN Attached : Attached[j] = Attached[k] => j = k
    BY HandlersAssumption DEF Ids
  <1>2. Empty \in [id : Ids, callBack : Handlers \cup {NoHandler}] /\ Empty.callBack = NoHandler
    BY <1>1 DEF Empty
  <1>3. callBacks = [k \in 1 .. Slots |-> Empty] /\ ier = FALSE /\ half = "" /\ pc = "construct"
    BY DEF Init
  <1>4. todo = Attached /\ since = [h \in Handlers |-> 0]
    BY DEF Init
  <1>5. fifo = <<>> /\ frames = <<>> /\ canRxFrame = <<>> /\ isr = "out" /\ before = 0
    BY DEF Init
  <1>6. handled = [h \in Handlers |-> <<>>]
    BY DEF Init
  <1>7. RxTypeOK
    <2>1. callBacks \in [1 .. Slots -> [id : Ids, callBack : Handlers \cup {NoHandler}]]
      BY <1>2, <1>3
    <2>2. /\ fifo \in Seq(Frame) /\ Len(fifo) <= Depth /\ canRxFrame \in Seq(Frame)
          /\ frames \in Seq(Kinds) /\ Len(frames) <= MaxFrames
      BY <1>5, CanSizesAssumption
    <2>3. handled \in [Handlers -> Seq(Numbers)]
      BY <1>6
    <2>4. todo \in Seq(Handlers) /\ since \in [Handlers -> Nat]
      BY <1>1, <1>4
    <2>5. before \in Nat
      BY <1>5
    <2>6. QED
      BY <1>3, <1>5, <2>1, <2>2, <2>3, <2>4, <2>5 DEF RxTypeOK
  <1>8. TableInv
    <2>1. \A k \in 1 .. Slots : Whole(callBacks[k])
      BY <1>2, <1>3 DEF Whole
    <2>2. ASSUME NEW k \in 1 .. Len(todo) PROVE since[todo[k]] = 0
      <3>1. Attached[k] \in Handlers
        BY <1>1, <1>4, <2>2
      <3>2. QED
        BY <1>4, <3>1
    <2>3. \A j, k \in 1 .. Len(todo) : todo[j] = todo[k] => j = k
      BY <1>1, <1>4
    <2>4. QED
      BY <1>3, <2>1, <2>2, <2>3 DEF TableInv
  <1>9. FifoInv
    BY <1>5 DEF FifoInv
  <1>10. \A h \in Handlers : handled[h] = <<>>
    BY <1>6
  <1>11. QuietInv
    <2>1. NoneAttached
      BY <1>2, <1>3 DEF NoneAttached
    <2>2. before <= Len(frames)
      BY <1>5
    <2>3. QED
      BY <1>10, <2>1, <2>2 DEF QuietInv
  <1>12. HandledInv
    BY <1>10 DEF HandledInv
  <1>13. QED
    BY <1>7, <1>8, <1>9, <1>11, <1>12 DEF RxInv

(* Steps that touch neither the table nor a frame.                         *)
LEMMA OthersKeepRx ==
  ASSUME RxInv,
         UNCHANGED <<ier, callBacks, half, todo, before, since, fifo, frames, isr, canRxFrame, handled>>,
         pc' = "attach" <=> pc = "attach"
  PROVE  RxInv'
  <1>1. UNCHANGED <<Free, NoneAttached>>
    BY DEF Free, NoneAttached
  <1>2. RxTypeOK'
    BY DEF RxInv, RxTypeOK
  <1>3. TableInv'
    BY <1>1 DEF RxInv, TableInv, Whole
  <1>4. FifoInv' /\ QuietInv'
    BY <1>1 DEF RxInv, FifoInv, QuietInv, IsOf
  <1>5. HandledInv'
    BY DEF RxInv, HandledInv, Fits
  <1>6. QED
    BY <1>2, <1>3, <1>4, <1>5 DEF RxInv

(* A frame comes in last, in a full FIFO in the place of the last.         *)
Within(s, f) == IF Len(s) < Depth THEN Append(s, f) ELSE [s EXCEPT ![Depth] = f]
LastIn(t, s, f) ==
  \E m \in 1 .. Depth : /\ m = Len(t) /\ t[m] = f
                       /\ \A j \in 1 .. m - 1 : j \in 1 .. Len(s) /\ t[j] = s[j]
LEMMA ComesInLast ==
  ASSUME NEW s \in Seq(Frame), NEW f \in Frame, Len(s) <= Depth
  PROVE  Within(s, f) \in Seq(Frame) /\ LastIn(Within(s, f), s, f)
  <1> SUFFICES ASSUME NEW t, t = Within(s, f)
               PROVE  t \in Seq(Frame) /\ LastIn(t, s, f)
    OBVIOUS
  <1>1. Depth \in Nat /\ Depth > 0 /\ Len(s) \in Nat
    BY CanSizesAssumption
  <1>2. CASE Len(s) < Depth
    <2>1. t = Append(s, f)
      BY <1>2 DEF Within
    <2>2. t \in Seq(Frame) /\ Len(t) = Len(s) + 1 /\ t[Len(s) + 1] = f
      BY <2>1
    <2>3. \A j \in 1 .. Len(s) : t[j] = s[j]
      BY <2>1
    <2>4. Len(s) + 1 \in 1 .. Depth /\ (Len(s) + 1) - 1 = Len(s)
      BY <1>1, <1>2
    <2>5. QED
      BY <2>2, <2>3, <2>4 DEF LastIn
  <1>3. CASE Len(s) = Depth
    <2>1. t = [s EXCEPT ![Depth] = f]
      BY <1>1, <1>3 DEF Within
    <2>2. t \in Seq(Frame) /\ Len(t) = Depth /\ t[Depth] = f
      BY <1>1, <1>3, <2>1
    <2>3. \A j \in 1 .. Depth - 1 : j \in 1 .. Len(s) /\ t[j] = s[j]
      BY <1>1, <1>3, <2>1
    <2>4. Depth \in 1 .. Depth
      BY <1>1
    <2>5. QED
      BY <2>2, <2>3, <2>4 DEF LastIn
  <1>4. QED
    BY <1>1, <1>2, <1>3

(* What Arrive does, with the number n and the place m of the new frame.   *)
Came(kind, n, f, m) ==
  /\ n = Len(frames) + 1 /\ f.n = n /\ f.id = kind.id /\ f.data = kind.data
  /\ m = Len(fifo') /\ fifo'[m] = f
  /\ \A j \in 1 .. m - 1 : j \in 1 .. Len(fifo) /\ fifo'[j] = fifo[j]
  /\ \A j \in 1 .. Len(frames) : frames'[j] = frames[j] /\ j \in 1 .. Len(frames') /\ j < n
  /\ fifo' \in Seq(Frame) /\ frames' \in Seq(Kinds) /\ Len(frames') = n /\ frames'[n] = kind
LEMMA FrameCame ==
  ASSUME RxInv, NEW kind \in Kinds, Arrive(kind)
  PROVE  \E n \in Numbers, f \in Frame, m \in 1 .. Depth : Came(kind, n, f, m)
  <1>1. RxTypeOK
    BY DEF RxInv
  <1>2. kind \in [id : Ids, data : BOOLEAN]
    BY HandlersAssumption
  <1>3. Len(frames) \in Nat /\ frames \in Seq(Kinds) /\ MaxFrames \in Nat
    <2>1. frames \in Seq(Kinds)
      BY <1>1 DEF RxTypeOK
    <2>2. QED
      BY <2>1, CanSizesAssumption
  <1>4. PICK n \in Numbers, f \in Frame :
          /\ n = Len(frames) + 1 /\ f.n = n /\ f.id = kind.id /\ f.data = kind.data
          /\ fifo' = IF Len(fifo) < Depth THEN Append(fifo, f) ELSE [fifo EXCEPT ![Depth] = f]
    <2> DEFINE n == Len(frames) + 1
               f == [n |-> n, id |-> kind.id, data |-> kind.data]
    <2>1. n \in Numbers
      BY <1>3 DEF Arrive, Numbers
    <2>2. f \in Frame
      BY <1>2, <2>1 DEF Frame
    <2>3. fifo' = IF Len(fifo) < Depth THEN Append(fifo, f) ELSE [fifo EXCEPT ![Depth] = f]
      BY DEF Arrive
    <2>4. f.n = n /\ f.id = kind.id /\ f.data = kind.data
      OBVIOUS
    <2> HIDE DEF n, f
    <2>5. QED
      BY <2>1, <2>2, <2>3, <2>4 DEF n
  <1>5. frames' = Append(frames, kind)
    BY DEF Arrive
  <1>6. fifo' \in Seq(Frame) /\ LastIn(fifo', fifo, f)
    <2>1. fifo \in Seq(Frame) /\ Len(fifo) <= Depth
      BY <1>1 DEF RxTypeOK
    <2>2. fifo' = Within(fifo, f)
      BY <1>4 DEF Within
    <2>3. QED
      BY <2>1, <2>2, ComesInLast
  <1>7. PICK m \in 1 .. Depth :
          /\ m = Len(fifo') /\ fifo'[m] = f
          /\ \A j \in 1 .. m - 1 : j \in 1 .. Len(fifo) /\ fifo'[j] = fifo[j]
    BY <1>6 DEF LastIn
  <1>8. frames' \in Seq(Kinds) /\ Len(frames') = n /\ frames'[n] = kind
    BY <1>3, <1>4, <1>5
  <1>9. \A j \in 1 .. Len(frames) : frames'[j] = frames[j] /\ j \in 1 .. Len(frames') /\ j < n
    BY <1>3, <1>4, <1>5
  <1>10. Came(kind, n, f, m)
    BY <1>4, <1>6, <1>7, <1>8, <1>9 DEF Came
  <1>11. QED
    BY <1>10

LEMMA ArriveKeepsRx ==
  ASSUME RxInv, NEW kind \in Kinds, Arrive(kind)
  PROVE  RxInv'
  <1>1. RxTypeOK /\ TableInv /\ FifoInv /\ QuietInv /\ HandledInv
    BY DEF RxInv
  <1>2. PICK n \in Numbers, f \in Frame, m \in 1 .. Depth : Came(kind, n, f, m)
    BY FrameCame
  <1>3. Len(frames) \in Nat /\ frames \in Seq(Kinds) /\ MaxFrames \in Nat
    <2>1. frames \in Seq(Kinds)
      BY <1>1 DEF RxTypeOK
    <2>2. QED
      BY <2>1, CanSizesAssumption
  <1>4. n = Len(frames) + 1 /\ f.n = n /\ f.id = kind.id /\ f.data = kind.data
    BY <1>2 DEF Came
  <1>5. UNCHANGED <<ier, callBacks, half, todo, before, since, isr, canRxFrame, handled, pc>>
    BY DEF Arrive, mainVars, tableVars, isrVars
  <1>6. fifo' \in Seq(Frame)
    BY <1>2 DEF Came
  <1>7. /\ m = Len(fifo') /\ fifo'[m] = f
        /\ \A j \in 1 .. m - 1 : j \in 1 .. Len(fifo) /\ fifo'[j] = fifo[j]
    BY <1>2 DEF Came
  <1>8. frames' \in Seq(Kinds) /\ Len(frames') = n /\ frames'[n] = kind
    BY <1>2 DEF Came
  <1>9. \A j \in 1 .. Len(frames) : frames'[j] = frames[j] /\ j \in 1 .. Len(frames') /\ j < n
    BY <1>2 DEF Came
  <1>10. \A g : IsOf(g, frames) => IsOf(g, frames') /\ g.n < n
    BY <1>9 DEF IsOf
  <1>11. IsOf(f, frames')
    BY <1>4, <1>8 DEF IsOf, Numbers
  <1>12. RxTypeOK'
    <2>1. Len(fifo') <= Depth /\ Len(frames') <= MaxFrames
      BY <1>3, <1>4, <1>7, <1>8, CanSizesAssumption DEF Numbers
    <2>2. QED
      BY <1>1, <1>5, <1>6, <1>8, <2>1 DEF RxTypeOK
  <1>13. TableInv'
    <2>1. Free' = Free
      BY <1>5 DEF Free
    <2>2. QED
      BY <1>1, <1>5, <2>1 DEF TableInv, Whole
  (* What is asked of every frame in the FIFO and every number that is     *)
  (* smaller than those of the frames before.                              *)
  <1>14. ASSUME NEW j \in 1 .. m PROVE j = m \/ (j \in 1 .. m - 1 /\ j \in 1 .. Len(fifo) /\ fifo'[j] = fifo[j])
    <2>1. j = m \/ j \in 1 .. m - 1
      OBVIOUS
    <2>2. QED
      BY <1>7, <2>1
  <1>15. ASSUME NEW b \in Nat, b < n, \A k \in 1 .. Len(fifo) : b < fifo[k].n
         PROVE  \A k \in 1 .. m : b < fifo'[k].n
    BY <1>4, <1>7, <1>14, <1>15
  <1>16. isr \in {"release", "dispatch"} =>
           /\ Len(canRxFrame) = 1 /\ IsOf(canRxFrame[1], frames') /\ canRxFrame[1].n \in Nat
           /\ canRxFrame[1].n < n
    BY <1>1, <1>10 DEF FifoInv, IsOf
  <1>17. FifoInv'
    <2>1. \A i, j \in 1 .. m : i < j => fifo'[i].n < fifo'[j].n
      <3> SUFFICES ASSUME NEW i \in 1 .. m, NEW j \in 1 .. m, i < j PROVE fifo'[i].n < fifo'[j].n
        OBVIOUS
      <3>1. i \in 1 .. Len(fifo) /\ fifo'[i] = fifo[i]
        BY <1>14
      <3>2. fifo[i].n < n
        BY <1>1, <1>10, <3>1 DEF FifoInv
      <3>3. QED
        BY <1>1, <1>4, <1>7, <1>14, <3>1, <3>2 DEF FifoInv
    <2>2. \A j \in 1 .. m : IsOf(fifo'[j], frames')
      <3> SUFFICES ASSUME NEW j \in 1 .. m PROVE IsOf(fifo'[j], frames')
        OBVIOUS
      <3>1. j \in 1 .. Len(fifo) => IsOf(fifo[j], frames')
        BY <1>1, <1>10 DEF FifoInv
      <3>2. QED
        BY <1>7, <1>11, <1>14, <3>1
    <2>3. isr = "release" => \A j \in 2 .. m : canRxFrame[1].n < fifo'[j].n
      <3> SUFFICES ASSUME isr = "release", NEW j \in 2 .. m PROVE canRxFrame[1].n < fifo'[j].n
        OBVIOUS
      <3>1. j = m \/ (j \in 2 .. Len(fifo) /\ fifo'[j] = fifo[j])
        BY <1>14
      <3>2. QED
        BY <1>1, <1>4, <1>7, <1>16, <3>1 DEF FifoInv
    <2>4. isr = "dispatch" => \A j \in 1 .. m : canRxFrame[1].n < fifo'[j].n
      BY <1>1, <1>15, <1>16 DEF FifoInv
    <2>5. fifo' # <<>>
      BY <1>6, <1>7
    <2>6. isr' = isr /\ canRxFrame' = canRxFrame
      BY <1>5
    <2>7. isr \in {"out", "check", "read"} => canRxFrame = <<>>
      BY <1>1 DEF FifoInv
    <2>8. QED
      BY <1>7, <1>16, <2>1, <2>2, <2>3, <2>4, <2>5, <2>6, <2>7 DEF FifoInv
  <1>18. QuietInv'
    <2>1. NoneAttached' = NoneAttached
      BY <1>5 DEF NoneAttached
    <2>6. before <= Len(frames) /\ before \in Nat
      BY <1>1 DEF QuietInv, RxTypeOK
    <2>7. before < n /\ before <= n
      BY <1>3, <1>4, <2>6
    <2>5. before <= Len(frames') /\ before < n /\ before \in Nat
      BY <1>8, <2>6, <2>7
    <2>2. CASE NoneAttached
      BY <1>1, <1>5, <2>1, <2>2, <2>5 DEF QuietInv
    <2>3. CASE ~NoneAttached
      <3>1. before \in Nat /\ (\A k \in 1 .. Len(fifo) : before < fifo[k].n)
        BY <1>1, <2>3 DEF QuietInv, RxTypeOK, FifoInv, IsOf
      <3>2. \A k \in 1 .. m : before < fifo'[k].n
        BY <1>15, <2>5, <3>1
      <3>3. QED
        BY <1>1, <1>5, <1>7, <2>1, <2>3, <2>5, <3>2 DEF QuietInv
    <2>4. QED
      BY <2>2, <2>3
  <1>19. HandledInv'
    <2> SUFFICES ASSUME NEW h \in Handlers, NEW j \in 1 .. Len(handled[h])
                 PROVE  /\ Fits(h, handled[h][j])'
                        /\ \A k \in 1 .. Len(handled[h]) : j < k => handled[h][j] < handled[h][k]
                        /\ \A k \in 1 .. m : handled[h][j] < fifo'[k].n
                        /\ canRxFrame # <<>> => handled[h][j] < canRxFrame[1].n
      BY <1>5, <1>7 DEF HandledInv, Fits
    <2>1. PICK b \in Nat : /\ b = handled[h][j] /\ b \in 1 .. Len(frames) /\ Fits(h, b)
                           /\ \A k \in 1 .. Len(fifo) : b < fifo[k].n
      BY <1>1 DEF HandledInv, Fits
    <2>2. b < n /\ b \in 1 .. Len(frames') /\ frames'[b] = frames[b]
      BY <1>9, <2>1
    <2>3. Fits(h, handled[h][j])'
      BY <1>5, <2>1, <2>2 DEF Fits
    <2>4. \A k \in 1 .. m : b < fifo'[k].n
      BY <1>15, <2>1, <2>2
    <2>5. QED
      BY <1>1, <2>1, <2>3, <2>4 DEF HandledInv
  <1>20. QED
    BY <1>12, <1>13, <1>17, <1>18, <1>19 DEF RxInv

-----------------------------------------------------------------------------
(* The main thread attaches.  When it runs no frame is on its way.         *)
LEMMA NothingUnderWay ==
  ASSUME RxInv, MainRuns, pc = "attach"
  PROVE  fifo = <<>> /\ canRxFrame = <<>>
  BY DEF RxInv, TableInv, FifoInv, MainRuns, IrqPending

LEMMA AttachIrqKeepsRx ==
  ASSUME RxInv, AttachIrq
  PROVE  RxInv'
  <1>1. /\ pc = "attach_irq" /\ ier' = TRUE /\ before' = Len(frames) /\ pc' = "attach"
        /\ UNCHANGED <<callBacks, half, todo, since, fifo, frames, isr, canRxFrame, handled>>
    BY DEF AttachIrq, fifoVars, isrVars
  <1>2. NoneAttached /\ \A h \in Handlers : handled[h] = <<>>
    BY <1>1 DEF RxInv, QuietInv
  <1>3. UNCHANGED <<Free, NoneAttached>>
    BY <1>1 DEF Free, NoneAttached
  <1>4. PICK n \in Nat : n = Len(frames)
    <2>1. frames \in Seq(Kinds)
      BY DEF RxInv, RxTypeOK
    <2>2. QED
      BY <2>1
  <1>5. RxTypeOK'
    BY <1>1, <1>4 DEF RxInv, RxTypeOK
  <1>6. TableInv'
    BY <1>1, <1>3 DEF RxInv, TableInv, Whole
  <1>7. FifoInv'
    BY <1>1 DEF RxInv, FifoInv, IsOf
  <1>8. before' <= Len(frames')
    BY <1>1, <1>4
  <1>9. QuietInv'
    BY <1>1, <1>2, <1>3, <1>8 DEF QuietInv
  <1>10. HandledInv'
    BY <1>1, <1>2 DEF HandledInv
  <1>11. QED
    BY <1>5, <1>6, <1>7, <1>9, <1>10 DEF RxInv

(* Storing in the table with nothing under way leaves what was handled.    *)
LEMMA StoringKeepsRest ==
  ASSUME RxInv, fifo = <<>>, canRxFrame = <<>>, pc = "attach",
         UNCHANGED <<pc, before, fifo, frames, isr, canRxFrame, handled>>,
         \A k \in 1 .. Slots : callBacks[k].callBack # NoHandler => callBacks'[k].callBack # NoHandler,
         \A h \in Handlers : since'[h] = since[h] \/ (since[h] = 0 /\ since'[h] = Len(frames))
  PROVE  FifoInv' /\ QuietInv' /\ HandledInv'
  <1>1. FifoInv'
    BY DEF RxInv, FifoInv, IsOf
  <1>2. NoneAttached' => NoneAttached
    BY DEF NoneAttached
  <1>3. QuietInv'
    BY <1>2 DEF RxInv, QuietInv
  <1>4. ASSUME NEW h \in Handlers, NEW n \in Nat, Fits(h, n) PROVE Fits(h, n)'
    <2>1. n \in 1 .. Len(frames) /\ frames \in Seq(Kinds)
      BY <1>4 DEF Fits, RxInv, RxTypeOK
    <2>2. Len(frames) >= n
      BY <2>1
    <2>3. frames[n].id = NoId /\ (since[h] >= n \/ since[h] = 0) => since'[h] >= n \/ since'[h] = 0
      BY <2>2
    <2>4. QED
      BY <1>4, <2>3 DEF Fits
  <1>5. HandledInv'
    <2> SUFFICES ASSUME NEW h \in Handlers, NEW j \in 1 .. Len(handled[h])
                 PROVE  Fits(h, handled[h][j])'
      BY DEF RxInv, HandledInv
    <2>1. PICK n \in Nat : n = handled[h][j] /\ Fits(h, n)
      BY DEF RxInv, HandledInv, Fits
    <2>2. Fits(h, n)'
      BY <1>4, <2>1
    <2>3. QED
      BY <2>1, <2>2
  <1>6. QED
    BY <1>1, <1>3, <1>5

(* What is left to attach stays without a place in the table.              *)
LEMMA OneAttached ==
  ASSUME RxInv, todo # <<>>, todo' = Tail(todo),
         \A h \in Handlers : h # Head(todo) => since'[h] = since[h]
  PROVE  /\ Head(todo) \in Handlers /\ todo' \in Seq(Handlers) /\ since[Head(todo)] = 0
         /\ \A j, k \in 1 .. Len(todo') : todo'[j] = todo'[k] => j = k
         /\ \A k \in 1 .. Len(todo') : since'[todo'[k]] = 0
  <1>1. todo \in Seq(Handlers) /\ Len(todo) \in Nat /\ Len(todo) > 0
    <2>1. todo \in Seq(Handlers)
      BY DEF RxInv, RxTypeOK
    <2>2. QED
      BY <2>1
  <1>2. PICK n \in Nat : n = Len(todo) - 1
    BY <1>1
  <1>3. Head(todo) = todo[1] /\ 1 \in 1 .. Len(todo) /\ todo[1] \in Handlers
    BY <1>1
  <1>4. PICK rest \in Seq(Handlers) : rest = Tail(todo)
    BY <1>1
  <1>5. Len(rest) = n /\ \A k \in 1 .. n : rest[k] = todo[k + 1] /\ k + 1 \in 1 .. Len(todo) /\ k + 1 # 1
    BY <1>1, <1>2, <1>4
  <1>6. \A j, k \in 1 .. n : rest[j] = rest[k] => j = k
    <2> SUFFICES ASSUME NEW j \in 1 .. n, NEW k \in 1 .. n, rest[j] = rest[k] PROVE j = k
      OBVIOUS
    <2>1. \A l, m \in 1 .. Len(todo) : todo[l] = todo[m] => l = m
      BY DEF RxInv, TableInv
    <2>2. /\ j + 1 \in 1 .. Len(todo) /\ k + 1 \in 1 .. Len(todo)
          /\ todo[j + 1] = todo[k + 1]
      BY <1>5
    <2>3. j + 1 = k + 1
      BY <2>1, <2>2, Zenon
    <2>4. QED
      BY <2>3
  <1>7. \A k \in 1 .. n : since'[rest[k]] = 0
    <2> SUFFICES ASSUME NEW k \in 1 .. n PROVE since'[rest[k]] = 0
      OBVIOUS
    <2>1. todo[k + 1] # todo[1] /\ since[todo[k + 1]] = 0 /\ todo[k + 1] \in Handlers
      BY <1>1, <1>3, <1>5 DEF RxInv, TableInv
    <2>2. QED
      BY <1>3, <1>5, <2>1
  <1>8. since[todo[1]] = 0
    BY <1>3 DEF RxInv, TableInv
  <1>9. QED
    BY <1>3, <1>4, <1>5, <1>6, <1>7, <1>8

LEMMA FirstOfFree ==
  ASSUME RxInv, Free # {}
  PROVE  First(Free) \in Free
  <1>1. Free \subseteq Nat
    BY CanSizesAssumption DEF Free
  <1>2. PICK n \in Free : \A j \in Free : n <= j
    <2>1. PICK less : less = OpToRel(<, Nat)
      OBVIOUS
    <2>2. \A x, y \in Nat : <<y, x>> \in less <=> y < x
      BY <2>1 DEF OpToRel
    <2>3. IsWellFoundedOn(less, Nat)
      BY <2>1, NatLessThanWellFounded
    <2>4. PICK n \in Free : \A j \in Free : <<j, n>> \notin less
      BY <1>1, <2>3, WFMin
    <2>5. ASSUME NEW j \in Free PROVE n <= j
      <3>1. j \in Nat /\ n \in Nat
        BY <1>1
      <3>2. ~(j < n)
        BY <2>2, <2>4, <3>1
      <3>3. QED
        BY <3>1, <3>2
    <2>6. QED
      BY <2>5
  <1>3. QED
    BY <1>2 DEF First

LEMMA AttachFirstKeepsRx ==
  ASSUME RxInv, NEW field \in {"id", "callBack"}, AttachFirst(field)
  PROVE  RxInv'
  <1>1. /\ pc = "attach" /\ MainRuns /\ todo # <<>> /\ half = "" /\ Free # {} /\ half' = field
        /\ UNCHANGED <<pc, ier, todo, before, since, fifo, frames, isr, canRxFrame, handled>>
    BY DEF AttachFirst, Attaching, mainVars, fifoVars, isrVars
  <1>2. fifo = <<>> /\ canRxFrame = <<>>
    BY <1>1, NothingUnderWay
  <1>3. PICK e \in 1 .. Slots : e = First(Free) /\ callBacks[e].id = NoId
    BY <1>1, FirstOfFree DEF Free
  <1>4. PICK h \in Handlers : h = Head(todo)
    <2>1. todo \in Seq(Handlers)
      BY DEF RxInv, RxTypeOK
    <2>2. todo # <<>>
      BY <1>1
    <2>3. Len(todo) \in Nat /\ Len(todo) > 0
      BY <2>1, <2>2
    <2>4. Head(todo) = todo[1] /\ todo[1] \in Handlers
      BY <2>1, <2>3
    <2>5. QED
      BY <2>4
  <1>5. callBacks \in [1 .. Slots -> [id : Ids, callBack : Handlers \cup {NoHandler}]]
    BY DEF RxInv, RxTypeOK
  <1>6. NoHandler \notin Handlers /\ IdOf \in [Handlers -> Ids \ {NoId}]
    BY HandlersAssumption
  <1>7. \A k \in 1 .. Slots : Whole(callBacks[k])
    BY <1>1 DEF RxInv, TableInv
  <1>8. callBacks[e].callBack = NoHandler
    BY <1>3, <1>5, <1>6, <1>7 DEF Whole
  <1>9. Entry = e
    BY <1>1, <1>3 DEF Entry
  <1>10. callBacks' = IF field = "id" THEN [callBacks EXCEPT ![e].id = IdOf[h]]
                                      ELSE [callBacks EXCEPT ![e].callBack = h]
    BY <1>4, <1>9 DEF AttachFirst
  <1>11. /\ \A k \in 1 .. Slots : k # e => callBacks'[k] = callBacks[k]
         /\ callBacks'[e].id = IF field = "id" THEN IdOf[h] ELSE NoId
         /\ callBacks'[e].callBack = IF field = "id" THEN NoHandler ELSE h
    BY <1>3, <1>5, <1>8, <1>10
  <1>12. callBacks' \in [1 .. Slots -> [id : Ids, callBack : Handlers \cup {NoHandler}]]
    BY <1>5, <1>6, <1>10
  <1>13. RxTypeOK'
    BY <1>1, <1>12 DEF RxInv, RxTypeOK
  <1>14. FifoInv' /\ QuietInv' /\ HandledInv'
    <2>1. \A k \in 1 .. Slots : callBacks[k].callBack # NoHandler => callBacks'[k].callBack # NoHandler
      BY <1>8, <1>11
    <2>2. QED
      BY <1>1, <1>2, <2>1, StoringKeepsRest
  <1>15. ASSUME field = "id" PROVE \A k \in 1 .. Slots : Whole(callBacks'[k])
    BY <1>7, <1>11, <1>15 DEF Whole
  <1>16. ASSUME field = "callBack"
         PROVE  \A k \in 1 .. Slots :
                  Whole(callBacks'[k]) \/ (callBacks'[k].callBack = h /\ callBacks'[k].id = NoId /\ k = First(Free'))
    <2>1. \A k \in 1 .. Slots : callBacks'[k].id = callBacks[k].id
      BY <1>3, <1>11, <1>16
    <2>2. Free' = Free
      BY <2>1 DEF Free
    <2>3. QED
      BY <1>3, <1>7, <1>11, <1>16, <2>2
  <1>17. TableInv'
    <2>1. First(Free') = First(Free)'
      BY DEF First
    <2>2. \A k \in 1 .. Slots :
            \/ Whole(callBacks[k])'
            \/ /\ half' = "callBack" /\ todo' # <<>> /\ callBacks'[k].callBack = Head(todo')
               /\ callBacks'[k].id = NoId /\ k = First(Free)'
      BY <1>1, <1>4, <1>15, <1>16, <2>1 DEF Whole
    <2>3. QED
      BY <1>1, <2>2 DEF RxInv, TableInv
  <1>18. QED
    BY <1>13, <1>14, <1>17 DEF RxInv

LEMMA AttachSecondKeepsRx ==
  ASSUME RxInv, AttachSecond
  PROVE  RxInv'
  <1>1. /\ pc = "attach" /\ MainRuns /\ todo # <<>> /\ half # "" /\ half' = "" /\ todo' = Tail(todo)
        /\ UNCHANGED <<pc, ier, before, fifo, frames, isr, canRxFrame, handled>>
    BY DEF AttachSecond, Attaching, mainVars, fifoVars, isrVars
  <1>2. fifo = <<>> /\ canRxFrame = <<>>
    BY <1>1, NothingUnderWay
  <1>3. PICK h \in Handlers : h = Head(todo)
    <2>1. todo \in Seq(Handlers)
      BY DEF RxInv, RxTypeOK
    <2>2. todo # <<>>
      BY <1>1
    <2>3. Len(todo) \in Nat /\ Len(todo) > 0
      BY <2>1, <2>2
    <2>4. Head(todo) = todo[1] /\ todo[1] \in Handlers
      BY <2>1, <2>3
    <2>5. QED
      BY <2>4
  <1>4. PICK n \in Nat : n = Len(frames)
    <2>1. frames \in Seq(Kinds)
      BY DEF RxInv, RxTypeOK
    <2>2. QED
      BY <2>1
  <1>5. since \in [Handlers -> Nat] /\ since' = [since EXCEPT ![h] = n]
    BY <1>3, <1>4 DEF AttachSecond, RxInv, RxTypeOK
  <1>6. /\ \A g \in Handlers : g # h => since'[g] = since[g]
        /\ since'[h] = n /\ since' \in [Handlers -> Nat]
    BY <1>5
  <1>7. /\ todo' \in Seq(Handlers) /\ since[h] = 0
        /\ \A j, k \in 1 .. Len(todo') : todo'[j] = todo'[k] => j = k
        /\ \A k \in 1 .. Len(todo') : since'[todo'[k]] = 0
    BY <1>1, <1>3, <1>6, OneAttached
  <1>8. callBacks \in [1 .. Slots -> [id : Ids, callBack : Handlers \cup {NoHandler}]]
    BY DEF RxInv, RxTypeOK
  <1>9. NoHandler \notin Handlers /\ IdOf \in [Handlers -> Ids \ {NoId}]
    BY HandlersAssumption
  <1>10. PICK e : e = Entry
    OBVIOUS
  <1>11. callBacks' = [callBacks EXCEPT ![e] = [id |-> IdOf[h], callBack |-> h]]
    BY <1>3, <1>10 DEF AttachSecond
  <1>12. \A k \in 1 .. Slots : /\ k # e => callBacks'[k] = callBacks[k]
                               /\ k = e => callBacks'[k].id = IdOf[h] /\ callBacks'[k].callBack = h
    BY <1>8, <1>11
  <1>13. RxTypeOK'
    <2>1. callBacks' \in [1 .. Slots -> [id : Ids, callBack : Handlers \cup {NoHandler}]]
      BY <1>8, <1>9, <1>11
    <2>2. QED
      BY <1>1, <1>6, <1>7, <2>1 DEF RxInv, RxTypeOK
  <1>14. FifoInv' /\ QuietInv' /\ HandledInv'
    <2>1. \A k \in 1 .. Slots : callBacks[k].callBack # NoHandler => callBacks'[k].callBack # NoHandler
      BY <1>9, <1>12
    <2>2. \A g \in Handlers : since'[g] = since[g] \/ (since[g] = 0 /\ since'[g] = Len(frames))
      BY <1>4, <1>6, <1>7
    <2>3. QED
      BY <1>1, <1>2, <2>1, <2>2, StoringKeepsRest
  <1>15. \A k \in 1 .. Slots : k # e => Whole(callBacks[k])
    <2>1. half = "callBack" => e = First(Free)
      BY <1>10 DEF Entry
    <2>2. QED
      BY <1>1, <2>1 DEF RxInv, TableInv
  <1>16. \A k \in 1 .. Slots : Whole(callBacks'[k])
    BY <1>12, <1>15 DEF Whole
  <1>17. TableInv'
    <2>1. \A k \in 1 .. Slots : Whole(callBacks[k])'
      BY <1>16 DEF Whole
    <2>2. QED
      BY <1>1, <1>7, <2>1 DEF RxInv, TableInv
  <1>18. QED
    BY <1>13, <1>14, <1>17 DEF RxInv

LEMMA TableFullKeepsRx ==
  ASSUME RxInv, TableFull
  PROVE  RxInv'
  <1>1. /\ pc = "attach" /\ MainRuns /\ todo # <<>> /\ half = "" /\ todo' = Tail(todo)
        /\ UNCHANGED <<pc, ier, callBacks, half, before, since, fifo, frames, isr, canRxFrame, handled>>
    BY DEF TableFull, Attaching, fifoVars, isrVars
  <1>2. fifo = <<>> /\ canRxFrame = <<>>
    BY <1>1, NothingUnderWay
  <1>3. /\ todo' \in Seq(Handlers)
        /\ \A j, k \in 1 .. Len(todo') : todo'[j] = todo'[k] => j = k
        /\ \A k \in 1 .. Len(todo') : since'[todo'[k]] = 0
    BY <1>1, OneAttached
  <1>4. RxTypeOK'
    BY <1>1, <1>3 DEF RxInv, RxTypeOK
  <1>5. FifoInv' /\ QuietInv' /\ HandledInv'
    BY <1>1, <1>2, StoringKeepsRest
  <1>6. TableInv'
    BY <1>1, <1>3 DEF RxInv, TableInv, Whole
  <1>7. QED
    BY <1>4, <1>5, <1>6 DEF RxInv

-----------------------------------------------------------------------------
(* The interrupt reads what is in the FIFO.                                *)
LEMMA IsrLeaves ==
  ASSUME RxInv, Isr
  PROVE  /\ UNCHANGED <<pc, ier, callBacks, half, todo, before, since, frames>>
         /\ TableInv' /\ UNCHANGED NoneAttached
  <1>1. UNCHANGED <<pc, ier, callBacks, half, todo, before, since, frames>>
    BY DEF Isr, mainVars, tableVars
  <1>2. UNCHANGED <<Free, NoneAttached>>
    BY <1>1 DEF Free, NoneAttached
  <1>3. QED
    BY <1>1, <1>2 DEF RxInv, TableInv, Whole

LEMMA EnterKeepsRx ==
  ASSUME RxInv, EnterIsr \/ CheckOverrun
  PROVE  RxInv'
  <1>1. /\ Isr /\ UNCHANGED <<fifo, canRxFrame, handled>>
        /\ isr \in {"out", "check"} /\ isr' \in {"check", "read"}
    BY DEF EnterIsr, CheckOverrun
  <1>2. /\ UNCHANGED <<pc, ier, callBacks, half, todo, before, since, frames>>
        /\ TableInv' /\ UNCHANGED NoneAttached
    BY <1>1, IsrLeaves
  <1>3. RxTypeOK'
    BY <1>1, <1>2 DEF RxInv, RxTypeOK
  <1>4. FifoInv'
    BY <1>1, <1>2 DEF RxInv, FifoInv, IsOf
  <1>5. QuietInv'
    BY <1>1, <1>2 DEF RxInv, QuietInv
  <1>6. HandledInv'
    BY <1>1, <1>2 DEF RxInv, HandledInv, Fits
  <1>7. QED
    BY <1>2, <1>3, <1>4, <1>5, <1>6 DEF RxInv

LEMMA ReadKeepsRx ==
  ASSUME RxInv, ReadFrame
  PROVE  RxInv'
  <1>1. Isr /\ UNCHANGED <<fifo, handled>> /\ isr = "read" /\ canRxFrame = <<>>
    BY DEF ReadFrame, RxInv, FifoInv
  <1>2. /\ UNCHANGED <<pc, ier, callBacks, half, todo, before, since, frames>>
        /\ TableInv' /\ UNCHANGED NoneAttached
    BY <1>1, IsrLeaves
  <1>3. CASE fifo = <<>>
    <2>1. isr' = "out" /\ UNCHANGED canRxFrame
      BY <1>3 DEF ReadFrame
    <2>2. RxTypeOK'
      BY <1>1, <1>2, <2>1 DEF RxInv, RxTypeOK
    <2>3. FifoInv'
      BY <1>1, <1>2, <2>1 DEF RxInv, FifoInv, IsOf
    <2>4. QuietInv' /\ HandledInv'
      BY <1>1, <1>2, <2>1 DEF RxInv, QuietInv, HandledInv, Fits
    <2>5. QED
      BY <1>2, <2>2, <2>3, <2>4 DEF RxInv
  <1>4. CASE fifo # <<>>
    <2>1. fifo \in Seq(Frame)
      BY DEF RxInv, RxTypeOK
    <2>2. Len(fifo) \in Nat /\ 1 \in 1 .. Len(fifo)
      BY <1>4, <2>1
    <2>3. PICK f \in Frame : f = fifo[1] /\ f = Head(fifo)
      BY <1>4, <2>1, <2>2
    <2>4. isr' = "release" /\ canRxFrame' = <<f>>
      BY <1>4, <2>3 DEF ReadFrame
    <2>5. canRxFrame' \in Seq(Frame) /\ Len(canRxFrame') = 1 /\ canRxFrame'[1] = f
      BY <2>4
    <2>6. RxTypeOK'
      BY <1>1, <1>2, <2>4, <2>5 DEF RxInv, RxTypeOK
    <2>7. FifoInv'
      <3>1. IsOf(f, frames)
        BY <2>2, <2>3 DEF RxInv, FifoInv
      <3>2. \A k \in 2 .. Len(fifo) : f.n < fifo[k].n
        <4> SUFFICES ASSUME NEW k \in 2 .. Len(fifo) PROVE f.n < fifo[k].n
          OBVIOUS
        <4>1. k \in 1 .. Len(fifo) /\ 1 < k
          BY <2>2
        <4>2. QED
          BY <2>2, <2>3, <4>1 DEF RxInv, FifoInv
      <3>3. QED
        BY <1>1, <1>2, <1>4, <2>4, <2>5, <3>1, <3>2 DEF RxInv, FifoInv, IsOf
    <2>8. QuietInv'
      <3>1. NoneAttached \/ f.n > before
        BY <2>2, <2>3 DEF RxInv, QuietInv
      <3>2. QED
        BY <1>1, <1>2, <2>5, <3>1 DEF RxInv, QuietInv
    <2>9. HandledInv'
      <3>1. \A h \in Handlers : \A j \in 1 .. Len(handled[h]) : handled[h][j] < f.n
        BY <2>2, <2>3 DEF RxInv, HandledInv
      <3>2. HandledInv /\ handled' = handled /\ fifo' = fifo /\ canRxFrame'[1] = f
        BY <1>1, <1>2, <2>5 DEF RxInv
      <3>3. \A h, n : Fits(h, n)' = Fits(h, n)
        BY <1>1, <1>2, <2>5 DEF Fits
      <3>4. QED
        BY <3>1, <3>2, <3>3 DEF HandledInv
    <2>10. QED
      BY <1>2, <2>6, <2>7, <2>8, <2>9 DEF RxInv
  <1>5. QED
    BY <1>3, <1>4

LEMMA ReleaseKeepsRx ==
  ASSUME RxInv, ReleaseFifo
  PROVE  RxInv'
  <1>1. /\ Isr /\ UNCHANGED <<canRxFrame, handled>> /\ isr = "release" /\ isr' = "dispatch"
        /\ fifo # <<>> /\ fifo' = Tail(fifo)
    BY DEF ReleaseFifo, Released, RxInv, FifoInv
  <1>2. /\ UNCHANGED <<pc, ier, callBacks, half, todo, before, since, frames>>
        /\ TableInv' /\ UNCHANGED NoneAttached
    BY <1>1, IsrLeaves
  <1>3. fifo \in Seq(Frame) /\ Len(fifo) <= Depth /\ Depth \in Nat
    BY CanSizesAssumption DEF RxInv, RxTypeOK
  <1>4. PICK n \in Nat : n = Len(fifo) - 1
    BY <1>1, <1>3
  <1>5. PICK rest \in Seq(Frame) : rest = Tail(fifo)
    BY <1>1, <1>3
  <1>6. Len(rest) = n /\ n <= Depth /\ \A k \in 1 .. n : rest[k] = fifo[k + 1] /\ k + 1 \in 2 .. Len(fifo)
    BY <1>1, <1>3, <1>4, <1>5
  <1>7. \A k \in 1 .. n : k + 1 \in 1 .. Len(fifo)
    BY <1>6
  <1>8. RxTypeOK'
    BY <1>1, <1>2, <1>5, <1>6 DEF RxInv, RxTypeOK
  <1>9. FifoInv'
    <2>1. \A j, k \in 1 .. n : j < k => rest[j].n < rest[k].n
      <3> SUFFICES ASSUME NEW j \in 1 .. n, NEW k \in 1 .. n, j < k PROVE rest[j].n < rest[k].n
        OBVIOUS
      <3>1. j + 1 < k + 1
        OBVIOUS
      <3>2. QED
        BY <1>6, <1>7, <3>1 DEF RxInv, FifoInv
    <2>2. \A k \in 1 .. n : IsOf(rest[k], frames) /\ canRxFrame[1].n < rest[k].n
      BY <1>1, <1>6, <1>7 DEF RxInv, FifoInv
    <2>3. Len(canRxFrame) = 1 /\ IsOf(canRxFrame[1], frames)
      BY <1>1 DEF RxInv, FifoInv
    <2>4. QED
      BY <1>1, <1>2, <1>5, <1>6, <2>1, <2>2, <2>3 DEF FifoInv, IsOf
  <1>10. QuietInv'
    BY <1>1, <1>2, <1>5, <1>6, <1>7 DEF RxInv, QuietInv
  <1>11. HandledInv'
    BY <1>1, <1>2, <1>5, <1>6, <1>7 DEF RxInv, HandledInv, Fits
  <1>12. QED
    BY <1>2, <1>8, <1>9, <1>10, <1>11 DEF RxInv

(* Whoever is called has the id of the frame in its entry, but for a frame *)
(* with the id 0 and the handler that is being attached.                   *)
LEMMA CalledForItsId ==
  ASSUME RxInv, NEW f \in Frame, NEW h \in Handlers, h \in Called(f)
  PROVE  ~NoneAttached /\ (f.id = IdOf[h] \/ (f.id = NoId /\ since[h] = 0))
  <1>1. PICK k \in 1 .. Slots : callBacks[k].id = f.id /\ callBacks[k].callBack = h /\ h # NoHandler
    BY DEF Called
  <1>2. ~NoneAttached
    BY <1>1 DEF NoneAttached
  <1>3. CASE Whole(callBacks[k])
    BY <1>1, <1>2, <1>3 DEF Whole
  <1>4. CASE ~Whole(callBacks[k])
    <2>1. todo # <<>> /\ h = Head(todo) /\ f.id = NoId
      BY <1>1, <1>4 DEF RxInv, TableInv
    <2>2. todo \in Seq(Handlers)
      BY DEF RxInv, RxTypeOK
    <2>3. 1 \in 1 .. Len(todo) /\ h = todo[1]
      BY <2>1, <2>2
    <2>4. since[h] = 0
      BY <2>3 DEF RxInv, TableInv
    <2>5. QED
      BY <1>2, <2>1, <2>4
  <1>5. QED
    BY <1>3, <1>4

LEMMA DispatchKeepsRx ==
  ASSUME RxInv, Dispatch
  PROVE  RxInv'
  <1>1. Isr /\ UNCHANGED fifo /\ isr = "dispatch" /\ isr' = "check" /\ canRxFrame' = <<>>
    BY DEF Dispatch
  <1>2. /\ UNCHANGED <<pc, ier, callBacks, half, todo, before, since, frames>>
        /\ TableInv' /\ UNCHANGED NoneAttached
    BY <1>1, IsrLeaves
  <1>3. Len(canRxFrame) = 1 /\ canRxFrame \in Seq(Frame)
    BY <1>1 DEF RxInv, FifoInv, RxTypeOK
  <1>4. PICK f \in Frame : f = canRxFrame[1] /\ canRxFrame # <<>>
    BY <1>3
  <1>5. PICK n \in Numbers : n = f.n
    BY DEF Frame
  <1>6. n \in 1 .. Len(frames) /\ frames[n].id = f.id /\ frames[n].data = f.data
    BY <1>1, <1>4, <1>5 DEF RxInv, FifoInv, IsOf
  <1>7. \A k \in 1 .. Len(fifo) : n < fifo[k].n
    BY <1>1, <1>4, <1>5 DEF RxInv, FifoInv
  <1>8. handled' = [h \in Handlers |-> IF f.data /\ h \in Called(f) THEN Append(handled[h], n) ELSE handled[h]]
    BY <1>4, <1>5 DEF Dispatch
  <1>9. handled \in [Handlers -> Seq(Numbers)]
    BY DEF RxInv, RxTypeOK
  <1>10. handled' \in [Handlers -> Seq(Numbers)]
    <2>1. \A h \in Handlers : handled[h] \in Seq(Numbers) /\ Append(handled[h], n) \in Seq(Numbers)
      BY <1>9
    <2>2. QED
      BY <1>8, <2>1
  <1>11. ASSUME NEW h \in Handlers, f.data, h \in Called(f)
         PROVE  Fits(h, n) /\ ~NoneAttached
    <2>1. ~NoneAttached /\ (f.id = IdOf[h] \/ (f.id = NoId /\ since[h] = 0))
      BY <1>11, CalledForItsId
    <2>2. n > before
      BY <1>4, <1>5, <2>1 DEF RxInv, QuietInv
    <2>3. QED
      BY <1>6, <1>11, <2>1, <2>2 DEF Fits
  <1>12. RxTypeOK'
    <2>1. canRxFrame' \in Seq(Frame)
      BY <1>1
    <2>2. QED
      BY <1>1, <1>2, <1>10, <2>1 DEF RxInv, RxTypeOK
  <1>13. FifoInv'
    BY <1>1, <1>2 DEF RxInv, FifoInv, IsOf
  <1>14. QuietInv'
    <2>1. ASSUME NoneAttached, NEW h \in Handlers PROVE handled'[h] = <<>>
      BY <1>8, <1>11, <2>1 DEF RxInv, QuietInv
    <2>2. QED
      BY <1>1, <1>2, <2>1 DEF RxInv, QuietInv
  <1>15. ASSUME NEW h \in Handlers, NEW j \in 1 .. Len(handled'[h])
         PROVE  \/ /\ j \in 1 .. Len(handled[h]) /\ handled'[h][j] = handled[h][j]
                \/ handled'[h][j] = n /\ Fits(h, n) /\ j = Len(handled'[h])
    <2>1. handled[h] \in Seq(Numbers)
      BY <1>9
    <2>2. CASE f.data /\ h \in Called(f)
      <3>1. handled'[h] = Append(handled[h], n) /\ Fits(h, n)
        BY <1>8, <1>11, <2>2
      <3>2. QED
        BY <2>1, <3>1
    <2>3. CASE ~(f.data /\ h \in Called(f))
      BY <1>8, <2>3
    <2>4. QED
      BY <2>2, <2>3
  <1>16. HandledInv'
    <2> SUFFICES ASSUME NEW h \in Handlers, NEW j \in 1 .. Len(handled'[h])
                 PROVE  /\ Fits(h, handled'[h][j])
                        /\ \A k \in 1 .. Len(handled'[h]) : j < k => handled'[h][j] < handled'[h][k]
                        /\ \A k \in 1 .. Len(fifo) : handled'[h][j] < fifo[k].n
      BY <1>1, <1>2 DEF HandledInv, Fits
    <2>1. CASE j \in 1 .. Len(handled[h]) /\ handled'[h][j] = handled[h][j]
      <3>1. /\ Fits(h, handled[h][j]) /\ handled[h][j] < n
            /\ \A k \in 1 .. Len(handled[h]) : j < k => handled[h][j] < handled[h][k]
            /\ \A k \in 1 .. Len(fifo) : handled[h][j] < fifo[k].n
        BY <1>4, <1>5, <2>1 DEF RxInv, HandledInv
      <3>2. ASSUME NEW k \in 1 .. Len(handled'[h]), j < k PROVE handled'[h][j] < handled'[h][k]
        BY <1>15, <2>1, <3>1, <3>2
      <3>3. QED
        BY <2>1, <3>1, <3>2
    <2>2. CASE handled'[h][j] = n /\ Fits(h, n) /\ j = Len(handled'[h])
      <3>1. \A k \in 1 .. Len(handled'[h]) : ~(j < k)
        BY <2>2
      <3>2. QED
        BY <1>7, <2>2, <3>1
    <2>3. QED
      BY <1>15, <2>1, <2>2
  <1>17. QED
    BY <1>2, <1>12, <1>13, <1>14, <1>16 DEF RxInv
-----------------------------------------------------------------------------
LEMMA RxStep == RxInv /\ [Next]_vars => RxInv'
  <1> SUFFICES ASSUME RxInv, [Next]_vars PROVE RxInv'
    OBVIOUS
  <1>1. CASE Stick \/ Recover \/ FollowRequest \/ CanSetup
    <2>1. UNCHANGED <<tableVars, fifoVars, isrVars>>
      BY <1>1 DEF Stick, Recover, FollowRequest, CanSetup, Construct, ConstructLeft, RequestInit,
                  Entered, Configure, Withdraw, Left, Setup
    <2>2. pc' = "attach" <=> pc = "attach"
      BY <1>1 DEF Stick, Recover, FollowRequest, CanSetup, Construct, ConstructLeft, RequestInit,
                  Entered, Configure, Withdraw, Left, Return, mainVars
    <2>3. QED
      BY <2>1, <2>2, OthersKeepRx DEF tableVars, fifoVars, isrVars
  <1>2. CASE \E kind \in Kinds : Arrive(kind)
    BY <1>2, ArriveKeepsRx
  <1>3. CASE Attach
    BY <1>3, AttachIrqKeepsRx, AttachFirstKeepsRx, AttachSecondKeepsRx, TableFullKeepsRx DEF Attach
  <1>4. CASE OnRx
    BY <1>4, EnterKeepsRx, ReadKeepsRx, ReleaseKeepsRx, DispatchKeepsRx DEF OnRx
  <1>5. CASE UNCHANGED vars
    BY <1>5, OthersKeepRx DEF vars, mainVars, tableVars, fifoVars, isrVars
  <1>6. QED
    BY <1>1, <1>2, <1>3, <1>4, <1>5 DEF Next, Hardware

(* Each handler is called with the frames of its id, in order, each once,  *)
(* with none from before the unit listened, however attach(), the bus and  *)
(* the interrupt interleave and however often the FIFO overruns.           *)
THEOREM FramesHandledOnceInOrder == Spec => []HandledOnceInOrder
  <1>1. RxInv => HandledOnceInOrder
    <2> SUFFICES ASSUME RxInv, NEW h \in Handlers
                 PROVE  /\ \A i, j \in DOMAIN handled[h] : i < j => handled[h][i] < handled[h][j]
                        /\ \A n \in Calls(h) : Fits(h, n)
      BY DEF HandledOnceInOrder, Fits
    <2>1. DOMAIN handled[h] = 1 .. Len(handled[h])
      <3>1. handled[h] \in Seq(Numbers)
        BY DEF RxInv, RxTypeOK
      <3>2. QED
        BY <3>1
    <2>2. QED
      BY <2>1 DEF RxInv, HandledInv, Calls
  <1>2. QED
    BY <1>1, RxInit, RxStep, PTL DEF Spec
-----------------------------------------------------------------------------
(* Losses.                                                                 *)

LossTypeOK ==
  /\ fovr \in BOOLEAN /\ overruns \in Nat
  /\ missed \in [reading : SUBSET Numbers, other : SUBSET Numbers]

(* Whoever is still to be attached is not in the table, but for the one    *)
(* of which attach() has stored the Callback.                              *)
PlaceInv ==
  \A k \in 1 .. Slots : \A j \in 1 .. Len(todo) :
    callBacks[k].callBack = todo[j] => half = "callBack" /\ j = 1 /\ k = First(Free)

(* The frame that is being read is the one that release will remove: a     *)
(* full FIFO overwrites its last place, and that is not the first.         *)
HeadInv == isr = "release" => fifo[1].n = canRxFrame[1].n

(* Of the frames since a handler was attached none is gone untraced.       *)
Traced(n) == n \in Numbered(fifo) \cup Numbered(canRxFrame) \cup missed.reading \cup missed.other
In(h) == (\E k \in 1 .. Slots : callBacks[k].callBack = h) /\ \A j \in 1 .. Len(todo) : todo[j] # h
Due(h, n) == n > since[h] /\ frames[n] = [id |-> IdOf[h], data |-> TRUE]
TraceInv ==
  \A h \in Handlers : In(h) => \A n \in 1 .. Len(frames) : Due(h, n) => n \in Calls(h) \/ Traced(n)

(* What was overwritten while can_read was not at work is counted, or will *)
(* be: the flag stands until the check.                                    *)
CountInv == missed.other # {} => overruns > 0 \/ (fovr /\ isr \in {"out", "check", "dispatch"})

LossInv == LossTypeOK /\ PlaceInv /\ HeadInv /\ TraceInv /\ CountInv

LEMMA LossAtInit == Init => LossInv
  <1> SUFFICES ASSUME Init PROVE LossInv
    OBVIOUS
  <1>1. /\ callBacks = [k \in 1 .. Slots |-> Empty] /\ fovr = FALSE /\ overruns = 0 /\ frames = <<>>
        /\ missed = [reading |-> {}, other |-> {}] /\ isr = "out" /\ todo = Attached
    BY DEF Init
  <1>2. todo \in Seq(Handlers) /\ NoHandler \notin Handlers
    BY <1>1, HandlersAssumption
  <1>3. \A k \in 1 .. Slots : \A j \in 1 .. Len(todo) : callBacks[k].callBack # todo[j]
    <2>1. \A k \in 1 .. Slots : callBacks[k].callBack = NoHandler
      BY <1>1 DEF Empty
    <2>2. \A j \in 1 .. Len(todo) : todo[j] \in Handlers
      BY <1>2
    <2>3. QED
      BY <1>2, <2>1, <2>2
  <1>4. LossTypeOK /\ CountInv
    <2>1. missed.other = {} /\ missed \in [reading : SUBSET Numbers, other : SUBSET Numbers]
      BY <1>1
    <2>2. QED
      BY <1>1, <2>1 DEF LossTypeOK, CountInv
  <1>5. PlaceInv /\ HeadInv
    BY <1>1, <1>3 DEF PlaceInv, HeadInv
  <1>6. TraceInv
    BY <1>1 DEF TraceInv
  <1>7. QED
    BY <1>4, <1>5, <1>6 DEF LossInv

LEMMA OthersKeepLoss ==
  ASSUME LossInv,
         UNCHANGED <<callBacks, half, todo, since, fifo, fovr, frames, missed, isr, canRxFrame, overruns, handled>>
  PROVE  LossInv'
  <1>1. UNCHANGED Free
    BY DEF Free
  <1>2. PlaceInv'
    BY <1>1 DEF LossInv, PlaceInv
  <1>3. HeadInv' /\ CountInv' /\ LossTypeOK'
    BY DEF LossInv, HeadInv, CountInv, LossTypeOK
  <1>4. TraceInv'
    <2>1. \A h \in Handlers : UNCHANGED <<In(h), Calls(h)>> /\ \A n \in 1 .. Len(frames) : UNCHANGED <<Due(h, n), Traced(n)>>
      BY DEF In, Due, Calls, Traced, Numbered
    <2>2. QED
      BY <2>1 DEF LossInv, TraceInv
  <1>5. QED
    BY <1>2, <1>3, <1>4 DEF LossInv

(* Attaching: whoever comes into the table has had no frame since.         *)
LEMMA AttachingKeepsLoss ==
  ASSUME LossInv, PlaceInv',
         UNCHANGED <<fifo, fovr, frames, missed, isr, canRxFrame, overruns, handled>>,
         \A h \in Handlers : In(h)' => (In(h) /\ since'[h] = since[h]) \/ since'[h] = Len(frames)
  PROVE  LossInv'
  <1>1. HeadInv' /\ CountInv' /\ LossTypeOK'
    BY DEF LossInv, HeadInv, CountInv, LossTypeOK
  <1>2. TraceInv'
    <2> SUFFICES ASSUME NEW h \in Handlers, In(h)', NEW n \in 1 .. Len(frames), Due(h, n)'
                 PROVE  (n \in Calls(h) \/ Traced(n))'
      BY DEF TraceInv
    <2>1. UNCHANGED <<Calls(h), Traced(n)>>
      BY DEF Calls, Traced, Numbered
    <2>2. since'[h] # Len(frames)
      BY DEF Due
    <2>3. In(h) /\ Due(h, n)
      BY <2>2 DEF Due
    <2>4. QED
      BY <2>1, <2>3 DEF LossInv, TraceInv
  <1>3. QED
    BY <1>1, <1>2 DEF LossInv

LEMMA RestToAttach ==
  ASSUME RxInv, todo # <<>>, todo' = Tail(todo)
  PROVE  /\ Head(todo) \in Handlers /\ Head(todo) = todo[1] /\ 1 \in 1 .. Len(todo)
         /\ \A j \in 1 .. Len(todo') : j + 1 \in 1 .. Len(todo) /\ j + 1 # 1 /\ todo'[j] = todo[j + 1]
         /\ \A h : h # Head(todo) /\ (\A j \in 1 .. Len(todo') : todo'[j] # h) => \A j \in 1 .. Len(todo) : todo[j] # h
  <1>1. todo \in Seq(Handlers)
    BY DEF RxInv, RxTypeOK
  <1>2. Len(todo) \in Nat /\ Len(todo) > 0
    BY <1>1
  <1>3. Head(todo) = todo[1] /\ 1 \in 1 .. Len(todo) /\ todo[1] \in Handlers
    BY <1>1, <1>2
  <1>4. PICK n \in Nat : n = Len(todo) - 1
    BY <1>2
  <1>5. PICK rest \in Seq(Handlers) : rest = Tail(todo)
    BY <1>1, <1>2
  <1>6. Len(rest) = n /\ \A j \in 1 .. n : rest[j] = todo[j + 1] /\ j + 1 \in 1 .. Len(todo) /\ j + 1 # 1
    BY <1>1, <1>2, <1>4, <1>5
  <1>7. ASSUME NEW h, h # todo[1], \A j \in 1 .. n : rest[j] # h, NEW j \in 1 .. Len(todo)
        PROVE  todo[j] # h
    <2>1. j = 1 \/ j - 1 \in 1 .. n
      BY <1>2, <1>4
    <2>2. ASSUME j - 1 \in 1 .. n PROVE todo[j] # h
      <3>1. rest[j - 1] = todo[(j - 1) + 1] /\ (j - 1) + 1 = j
        BY <1>6, <2>2
      <3>2. QED
        BY <1>7, <2>2, <3>1
    <2>3. QED
      BY <1>7, <2>1, <2>2
  <1>8. QED
    BY <1>3, <1>5, <1>6, <1>7

LEMMA AttachFirstKeepsLoss ==
  ASSUME RxInv, LossInv, NEW field \in {"id", "callBack"}, AttachFirst(field)
  PROVE  LossInv'
  <1>1. /\ todo # <<>> /\ half = "" /\ Free # {} /\ half' = field
        /\ UNCHANGED <<todo, since, fifo, fovr, frames, missed, isr, canRxFrame, overruns, handled>>
    BY DEF AttachFirst, Attaching, fifoVars, isrVars
  <1>2. todo \in Seq(Handlers)
    BY DEF RxInv, RxTypeOK
  <1>3. Len(todo) \in Nat /\ 1 \in 1 .. Len(todo) /\ Head(todo) = todo[1]
    <2>1. todo # <<>>
      BY <1>1
    <2>2. Len(todo) \in Nat /\ Len(todo) > 0
      BY <1>2, <2>1
    <2>3. QED
      BY <1>2, <2>2
  <1>4. \A k \in 1 .. Slots : \A j \in 1 .. Len(todo) : callBacks[k].callBack # todo[j]
    BY <1>1 DEF LossInv, PlaceInv
  <1>5. PICK e \in 1 .. Slots : e = First(Free) /\ e = Entry
    BY <1>1, FirstOfFree DEF Free, Entry
  <1>6. callBacks \in [1 .. Slots -> [id : Ids, callBack : Handlers \cup {NoHandler}]]
    BY DEF RxInv, RxTypeOK
  <1>7. CASE field = "id"
    <2>1. callBacks' = [callBacks EXCEPT ![e].id = IdOf[Head(todo)]]
      BY <1>5, <1>7 DEF AttachFirst
    <2>2. \A k \in 1 .. Slots : callBacks'[k].callBack = callBacks[k].callBack
      BY <1>6, <2>1
    <2>3. PlaceInv'
      BY <1>1, <1>4, <2>2 DEF PlaceInv
    <2>4. \A h \in Handlers : In(h)' => In(h) /\ since'[h] = since[h]
      BY <1>1, <2>2 DEF In
    <2>5. QED
      BY <1>1, <2>3, <2>4, AttachingKeepsLoss
  <1>8. CASE field = "callBack"
    <2>1. callBacks' = [callBacks EXCEPT ![e].callBack = todo[1]]
      BY <1>3, <1>5, <1>8 DEF AttachFirst
    <2>2. /\ \A k \in 1 .. Slots : k # e => callBacks'[k] = callBacks[k]
          /\ \A k \in 1 .. Slots : callBacks'[k].id = callBacks[k].id
          /\ callBacks'[e].callBack = todo[1]
      BY <1>6, <2>1
    <2>3. Free' = Free
      BY <2>2 DEF Free
    <2>4. PlaceInv'
      <3> SUFFICES ASSUME NEW k \in 1 .. Slots, NEW j \in 1 .. Len(todo), callBacks'[k].callBack = todo[j]
                   PROVE  k = First(Free) /\ j = 1
        BY <1>1, <1>8, <2>3 DEF PlaceInv, First
      <3>1. k = e
        BY <1>4, <2>2
      <3>2. todo[j] = todo[1]
        BY <2>2, <3>1
      <3>3. j = 1
        BY <1>3, <3>2 DEF RxInv, TableInv
      <3>4. QED
        BY <1>5, <3>1, <3>3
    <2>5. \A h \in Handlers : In(h)' => In(h) /\ since'[h] = since[h]
      BY <1>1, <1>3, <2>2 DEF In
    <2>6. QED
      BY <1>1, <2>4, <2>5, AttachingKeepsLoss
  <1>9. QED
    BY <1>7, <1>8

LEMMA AttachSecondKeepsLoss ==
  ASSUME RxInv, LossInv, AttachSecond
  PROVE  LossInv'
  <1>1. /\ todo # <<>> /\ todo' = Tail(todo) /\ since' = [since EXCEPT ![Head(todo)] = Len(frames)]
        /\ UNCHANGED <<fifo, fovr, frames, missed, isr, canRxFrame, overruns, handled>>
    BY DEF AttachSecond, Attaching, fifoVars, isrVars
  <1>2. /\ Head(todo) \in Handlers /\ Head(todo) = todo[1] /\ 1 \in 1 .. Len(todo)
        /\ \A j \in 1 .. Len(todo') : j + 1 \in 1 .. Len(todo) /\ j + 1 # 1 /\ todo'[j] = todo[j + 1]
        /\ \A h : h # Head(todo) /\ (\A j \in 1 .. Len(todo') : todo'[j] # h) => \A j \in 1 .. Len(todo) : todo[j] # h
    BY <1>1, RestToAttach
  <1>3. PICK e : e = Entry
    OBVIOUS
  <1>4. callBacks \in [1 .. Slots -> [id : Ids, callBack : Handlers \cup {NoHandler}]] /\ since \in [Handlers -> Nat]
    BY DEF RxInv, RxTypeOK
  <1>5. callBacks' = [callBacks EXCEPT ![e] = [id |-> IdOf[Head(todo)], callBack |-> Head(todo)]]
    BY <1>3 DEF AttachSecond
  <1>6. \A k \in 1 .. Slots : IF k = e THEN callBacks'[k].callBack = Head(todo) ELSE callBacks'[k] = callBacks[k]
    BY <1>4, <1>5
  <1>7. PlaceInv'
    <2> SUFFICES ASSUME NEW k \in 1 .. Slots, NEW j \in 1 .. Len(todo') PROVE callBacks'[k].callBack # todo'[j]
      BY DEF PlaceInv
    <2>1. todo[j + 1] # todo[1]
      BY <1>2 DEF RxInv, TableInv
    <2>2. callBacks[k].callBack # todo[j + 1]
      BY <1>2 DEF LossInv, PlaceInv
    <2>3. QED
      BY <1>2, <1>6, <2>1, <2>2
  <1>8. ASSUME NEW h \in Handlers, In(h)'
        PROVE  (In(h) /\ since'[h] = since[h]) \/ since'[h] = Len(frames)
    <2>1. CASE h = Head(todo)
      BY <1>1, <1>4, <2>1
    <2>2. CASE h # Head(todo)
      <3>1. since'[h] = since[h]
        BY <1>1, <1>2, <1>4, <2>2
      <3>2. \A j \in 1 .. Len(todo) : todo[j] # h
        BY <1>2, <1>8, <2>2 DEF In
      <3>3. \E k \in 1 .. Slots : callBacks[k].callBack = h
        BY <1>6, <1>8, <2>2 DEF In
      <3>4. QED
        BY <3>1, <3>2, <3>3 DEF In
    <2>3. QED
      BY <2>1, <2>2
  <1>9. QED
    BY <1>1, <1>7, <1>8, AttachingKeepsLoss

LEMMA TableFullKeepsLoss ==
  ASSUME RxInv, LossInv, TableFull
  PROVE  LossInv'
  <1>1. /\ todo # <<>> /\ half = "" /\ todo' = Tail(todo)
        /\ UNCHANGED <<callBacks, since, fifo, fovr, frames, missed, isr, canRxFrame, overruns, handled>>
    BY DEF TableFull, Attaching, fifoVars, isrVars
  <1>2. /\ Head(todo) = todo[1] /\ 1 \in 1 .. Len(todo)
        /\ \A j \in 1 .. Len(todo') : j + 1 \in 1 .. Len(todo) /\ todo'[j] = todo[j + 1]
        /\ \A h : h # Head(todo) /\ (\A j \in 1 .. Len(todo') : todo'[j] # h) => \A j \in 1 .. Len(todo) : todo[j] # h
    BY <1>1, RestToAttach
  <1>3. \A k \in 1 .. Slots : \A j \in 1 .. Len(todo) : callBacks[k].callBack # todo[j]
    BY <1>1 DEF LossInv, PlaceInv
  <1>4. PlaceInv'
    <2> SUFFICES ASSUME NEW k \in 1 .. Slots, NEW j \in 1 .. Len(todo') PROVE callBacks'[k].callBack # todo'[j]
      BY DEF PlaceInv
    <2>1. callBacks[k].callBack # todo[j + 1] /\ todo'[j] = todo[j + 1]
      BY <1>2, <1>3
    <2>2. QED
      BY <1>1, <2>1
  <1>5. ASSUME NEW h \in Handlers, In(h)' PROVE In(h) /\ since'[h] = since[h]
    <2>1. PICK k \in 1 .. Slots : callBacks[k].callBack = h
      BY <1>1, <1>5 DEF In
    <2>2. h # Head(todo)
      BY <1>2, <1>3, <2>1
    <2>3. \A j \in 1 .. Len(todo) : todo[j] # h
      BY <1>2, <1>5, <2>2 DEF In
    <2>4. QED
      BY <1>1, <2>1, <2>3 DEF In
  <1>6. QED
    BY <1>1, <1>4, <1>5, AttachingKeepsLoss

(* With room every frame keeps its place; without, all but the last do,    *)
(* the last is remembered, and the flag is set.                            *)
Kept(m) ==
  /\ \A j \in 1 .. Len(fifo) : j \in 1 .. m - 1 \/ fifo[j].n \in missed'.reading \cup missed'.other
  /\ missed.reading \subseteq missed'.reading /\ missed.other \subseteq missed'.other
  /\ missed' \in [reading : SUBSET Numbers, other : SUBSET Numbers] /\ fovr' \in BOOLEAN
  /\ fovr => fovr'
  /\ missed'.other # missed.other => fovr' /\ isr \notin {"read", "release"}
  /\ fifo # <<>> => m >= 2
LEMMA ArriveKeepsFrames ==
  ASSUME RxInv, LossTypeOK, NEW kind \in Kinds, Arrive(kind),
         NEW n \in Numbers, NEW f \in Frame, NEW m \in 1 .. Depth, Came(kind, n, f, m)
  PROVE  Kept(m)
  <1>1. fifo \in Seq(Frame) /\ Len(fifo) <= Depth
    BY DEF RxInv, RxTypeOK
  <1>2. Depth \in Nat /\ Depth >= 2 /\ Len(fifo) \in Nat
    BY <1>1, CanSizesAssumption
  <1>3. missed \in [reading : SUBSET Numbers, other : SUBSET Numbers] /\ fovr \in BOOLEAN
    BY DEF LossTypeOK
  <1>4. CASE Len(fifo) < Depth
    <2>1. PICK g : fifo' = Append(fifo, g)
      BY <1>4 DEF Arrive
    <2>2. fovr' = fovr /\ missed' = missed
      BY <1>4 DEF Arrive
    <2>3. Len(fifo') = Len(fifo) + 1
      BY <1>1, <2>1
    <2>4. m = Len(fifo) + 1
      BY <2>3 DEF Came
    <2>5. \A j \in 1 .. Len(fifo) : j \in 1 .. m - 1
      BY <1>2, <2>4
    <2>6. fifo # <<>> => m >= 2
      BY <1>1, <1>2, <2>4
    <2>7. QED
      BY <1>3, <2>2, <2>5, <2>6 DEF Kept
  <1>5. CASE Len(fifo) = Depth
    <2>1. PICK x \in Numbers : x = fifo[Depth].n
      <3>1. Depth \in 1 .. Len(fifo)
        BY <1>2, <1>5
      <3>2. fifo[Depth] \in Frame
        BY <1>1, <3>1
      <3>3. QED
        BY <3>2 DEF Frame
    <2>2. \E g : fifo' = [fifo EXCEPT ![Depth] = g]
      BY <1>2, <1>5 DEF Arrive
    <2>3. m = Depth
      BY <1>1, <1>2, <1>5, <2>2 DEF Came
    <2>4. fovr' = TRUE
      BY <1>2, <1>5 DEF Arrive
    <2>5. missed' = IF isr \in {"read", "release"} THEN [missed EXCEPT !.reading = @ \cup {x}]
                                                   ELSE [missed EXCEPT !.other = @ \cup {x}]
      BY <1>2, <1>5, <2>1 DEF Arrive
    <2>6. /\ missed' \in [reading : SUBSET Numbers, other : SUBSET Numbers]
          /\ missed.reading \subseteq missed'.reading /\ missed.other \subseteq missed'.other
          /\ x \in missed'.reading \cup missed'.other
          /\ isr \in {"read", "release"} => missed'.other = missed.other
      BY <1>3, <2>5
    <2>7. \A j \in 1 .. Len(fifo) : j \in 1 .. m - 1 \/ j = Depth
      BY <1>2, <1>5, <2>3
    <2>8. QED
      BY <1>2, <2>1, <2>3, <2>4, <2>6, <2>7 DEF Kept
  <1>6. QED
    BY <1>1, <1>2, <1>4, <1>5

LEMMA ArriveKeepsLoss ==
  ASSUME RxInv, LossInv, NEW kind \in Kinds, Arrive(kind)
  PROVE  LossInv'
  <1>1. PICK n \in Numbers, f \in Frame, m \in 1 .. Depth : Came(kind, n, f, m)
    BY FrameCame
  <1>2. UNCHANGED <<callBacks, half, todo, since, isr, canRxFrame, overruns, handled>>
    BY DEF Arrive, tableVars, isrVars
  <1>3. Kept(m)
    BY <1>1, ArriveKeepsFrames DEF LossInv
  <1>4. /\ m = Len(fifo') /\ fifo'[m] = f /\ f.n = n
        /\ \A j \in 1 .. m - 1 : fifo'[j] = fifo[j]
    BY <1>1 DEF Came
  <1>5. fifo \in Seq(Frame) /\ fifo' \in Seq(Frame) /\ frames \in Seq(Kinds)
    BY <1>1 DEF Came, RxInv, RxTypeOK
  <1>6. DOMAIN fifo = 1 .. Len(fifo) /\ DOMAIN fifo' = 1 .. m
    BY <1>4, <1>5
  <1>7. n \in Numbered(fifo')
    BY <1>4, <1>6 DEF Numbered
  <1>8. \A x \in Numbered(fifo) : x \in Numbered(fifo') \cup missed'.reading \cup missed'.other
    <2> SUFFICES ASSUME NEW j \in 1 .. Len(fifo)
                 PROVE  fifo[j].n \in Numbered(fifo') \cup missed'.reading \cup missed'.other
      BY <1>6 DEF Numbered
    <2>1. CASE j \in 1 .. m - 1
      <3>1. j \in 1 .. m /\ fifo'[j] = fifo[j]
        BY <1>4, <2>1
      <3>2. QED
        BY <1>6, <3>1 DEF Numbered
    <2>2. QED
      BY <1>3, <2>1 DEF Kept
  <1>9. LossTypeOK'
    BY <1>2, <1>3 DEF LossInv, LossTypeOK, Kept
  <1>10. PlaceInv'
    BY <1>2 DEF LossInv, PlaceInv, Free, First
  <1>11. HeadInv'
    <2>1. isr = "release" => fifo # <<>>
      BY DEF RxInv, FifoInv
    <2>2. isr = "release" => fifo'[1] = fifo[1]
      BY <1>3, <1>4, <2>1 DEF Kept
    <2>3. QED
      BY <1>2, <2>2 DEF LossInv, HeadInv
  <1>12. CountInv'
    <2>1. isr \in {"out", "check", "read", "release", "dispatch"}
      BY DEF RxInv, RxTypeOK
    <2>2. QED
      BY <1>2, <1>3, <2>1 DEF LossInv, CountInv, Kept
  <1>13. TraceInv'
    <2> SUFFICES ASSUME NEW h \in Handlers, In(h)', NEW x \in 1 .. Len(frames'), Due(h, x)'
                 PROVE  (x \in Calls(h))' \/ Traced(x)'
      BY DEF TraceInv
    <2>1. x = n \/ (x \in 1 .. Len(frames) /\ frames'[x] = frames[x])
      BY <1>1, <1>5 DEF Came
    <2>2. CASE x = n
      BY <1>7, <2>2 DEF Traced
    <2>3. CASE x \in 1 .. Len(frames) /\ frames'[x] = frames[x]
      <3>1. In(h) /\ Due(h, x) /\ Calls(h)' = Calls(h)
        BY <1>2, <2>3 DEF In, Due, Calls
      <3>2. x \in Calls(h) \/ Traced(x)
        BY <2>3, <3>1 DEF LossInv, TraceInv
      <3>3. Traced(x) => Traced(x)'
        BY <1>2, <1>3, <1>8 DEF Traced, Kept, Numbered
      <3>4. QED
        BY <3>1, <3>2, <3>3
    <2>4. QED
      BY <2>1, <2>2, <2>3
  <1>14. QED
    BY <1>9, <1>10, <1>11, <1>12, <1>13 DEF LossInv

(* A step of the interrupt moves frames without losing one, if whatever it *)
(* takes away has been handled by who had it coming.                       *)
LEMMA IsrKeepsTrace ==
  ASSUME RxInv, LossInv, Isr,
         \A h \in Handlers : In(h) => \A n \in 1 .. Len(frames) :
           Due(h, n) /\ (n \in Calls(h) \/ Traced(n)) => (n \in Calls(h) \/ Traced(n))'
  PROVE  PlaceInv' /\ TraceInv'
  <1>1. UNCHANGED <<callBacks, half, todo, since, frames, missed>>
    BY DEF Isr, tableVars
  <1>2. PlaceInv'
    BY <1>1 DEF LossInv, PlaceInv, Free, First
  <1>3. TraceInv'
    <2>1. \A h \in Handlers : In(h)' = In(h) /\ \A n \in 1 .. Len(frames) : Due(h, n)' = Due(h, n)
      BY <1>1 DEF In, Due
    <2>2. QED
      BY <1>1, <2>1 DEF LossInv, TraceInv
  <1>4. QED
    BY <1>2, <1>3

LEMMA EnterKeepsLoss ==
  ASSUME RxInv, LossInv, EnterIsr \/ CheckOverrun
  PROVE  LossInv'
  <1>1. Isr /\ UNCHANGED <<fifo, canRxFrame, handled, missed>>
    BY DEF EnterIsr, CheckOverrun, Isr
  <1>2. \A h \in Handlers : UNCHANGED Calls(h) /\ \A n : UNCHANGED Traced(n)
    BY <1>1 DEF Calls, Traced, Numbered
  <1>3. PlaceInv' /\ TraceInv'
    BY <1>1, <1>2, IsrKeepsTrace
  <1>4. CASE EnterIsr
    <2>1. isr = "out" /\ isr' = "check" /\ UNCHANGED <<fovr, overruns>>
      BY <1>4 DEF EnterIsr
    <2>2. QED
      BY <1>1, <1>3, <2>1 DEF LossInv, LossTypeOK, HeadInv, CountInv
  <1>5. CASE CheckOverrun
    <2>1. isr = "check" /\ isr' = "read" /\ overruns' = Count /\ fovr' = FALSE
      BY <1>5 DEF CheckOverrun
    <2>2. PICK o \in Nat : o = overruns
      BY DEF LossInv, LossTypeOK
    <2>3. overruns' = IF fovr THEN o + 1 ELSE o
      BY <2>1, <2>2 DEF Count
    <2>4. overruns' \in Nat /\ (fovr \/ overruns > 0 => overruns' > 0)
      BY <2>2, <2>3
    <2>5. QED
      BY <1>1, <1>3, <2>1, <2>4 DEF LossInv, LossTypeOK, HeadInv, CountInv
  <1>6. QED
    BY <1>4, <1>5

LEMMA ReadKeepsLoss ==
  ASSUME RxInv, LossInv, ReadFrame
  PROVE  LossInv'
  <1>1. Isr /\ UNCHANGED <<fifo, fovr, overruns, handled, missed>> /\ isr = "read" /\ canRxFrame = <<>>
    BY DEF ReadFrame, Isr, RxInv, FifoInv
  <1>2. \A h \in Handlers : UNCHANGED Calls(h)
    BY <1>1 DEF Calls
  <1>3. \A n : Traced(n) => Traced(n)'
    BY <1>1 DEF Traced, Numbered
  <1>4. PlaceInv' /\ TraceInv'
    BY <1>1, <1>2, <1>3, IsrKeepsTrace
  <1>5. HeadInv'
    <2> SUFFICES ASSUME isr' = "release" PROVE fifo'[1].n = canRxFrame'[1].n
      BY DEF HeadInv
    <2>1. fifo # <<>> /\ canRxFrame' = <<Head(fifo)>>
      BY DEF ReadFrame
    <2>2. fifo \in Seq(Frame)
      BY DEF RxInv, RxTypeOK
    <2>3. QED
      BY <1>1, <2>1, <2>2
  <1>6. LossTypeOK' /\ CountInv'
    BY <1>1 DEF LossInv, LossTypeOK, CountInv
  <1>7. QED
    BY <1>4, <1>5, <1>6 DEF LossInv

LEMMA ReleaseKeepsLoss ==
  ASSUME RxInv, LossInv, ReleaseFifo
  PROVE  LossInv'
  <1>1. /\ Isr /\ UNCHANGED <<canRxFrame, overruns, handled, missed>> /\ isr = "release" /\ isr' = "dispatch"
        /\ fifo # <<>> /\ fifo' = Tail(fifo) /\ fovr' = FALSE /\ Len(canRxFrame) = 1
    BY DEF ReleaseFifo, Released, Isr, RxInv, FifoInv
  <1>2. fifo \in Seq(Frame) /\ canRxFrame \in Seq(Frame)
    BY DEF RxInv, RxTypeOK
  <1>3. PICK l \in Nat : l = Len(fifo) - 1
    BY <1>1, <1>2
  <1>4. PICK rest \in Seq(Frame) : rest = Tail(fifo)
    BY <1>1, <1>2
  <1>5. Len(rest) = l /\ \A j \in 1 .. l : rest[j] = fifo[j + 1]
    BY <1>1, <1>2, <1>3, <1>4
  <1>6. fifo[1].n \in Numbered(canRxFrame)
    <2>1. 1 \in DOMAIN canRxFrame
      BY <1>1, <1>2
    <2>2. QED
      BY <1>1, <2>1 DEF LossInv, HeadInv, Numbered
  <1>7. ASSUME NEW j \in DOMAIN fifo PROVE fifo[j].n \in Numbered(canRxFrame) \cup Numbered(rest)
    <2>1. j \in 1 .. Len(fifo)
      BY <1>2
    <2>2. j = 1 \/ j - 1 \in 1 .. l
      BY <1>2, <1>3, <2>1
    <2>3. ASSUME j - 1 \in 1 .. l PROVE fifo[j].n \in Numbered(rest)
      <3>1. rest[j - 1] = fifo[(j - 1) + 1] /\ (j - 1) + 1 = j
        BY <1>5, <2>1, <2>3
      <3>2. j - 1 \in DOMAIN rest
        BY <1>4, <1>5, <2>3
      <3>3. QED
        BY <3>1, <3>2 DEF Numbered
    <2>4. QED
      BY <1>6, <2>2, <2>3
  <1>8. Numbered(fifo) \subseteq Numbered(canRxFrame) \cup Numbered(fifo')
    BY <1>1, <1>4, <1>7 DEF Numbered
  <1>9. \A h \in Handlers : UNCHANGED Calls(h)
    BY <1>1 DEF Calls
  <1>10. \A n : Traced(n) => Traced(n)'
    <2>1. Numbered(canRxFrame)' = Numbered(canRxFrame) /\ Numbered(fifo)' = Numbered(fifo')
      BY <1>1 DEF Numbered
    <2>2. QED
      BY <1>1, <1>8, <2>1 DEF Traced
  <1>11. PlaceInv' /\ TraceInv'
    BY <1>1, <1>9, <1>10, IsrKeepsTrace
  <1>12. LossTypeOK' /\ HeadInv' /\ CountInv'
    BY <1>1 DEF LossInv, LossTypeOK, HeadInv, CountInv
  <1>13. QED
    BY <1>11, <1>12 DEF LossInv

LEMMA DispatchKeepsLoss ==
  ASSUME RxInv, LossInv, Dispatch
  PROVE  LossInv'
  <1>1. /\ Isr /\ UNCHANGED <<fifo, fovr, overruns, missed>> /\ isr = "dispatch" /\ isr' = "check"
        /\ canRxFrame' = <<>>
    BY DEF Dispatch, Isr
  <1>2. Len(canRxFrame) = 1 /\ canRxFrame \in Seq(Frame) /\ handled \in [Handlers -> Seq(Numbers)]
    BY <1>1 DEF RxInv, FifoInv, RxTypeOK
  <1>3. PICK f \in Frame : f = canRxFrame[1]
    <2>1. Len(canRxFrame) = 1 /\ canRxFrame \in Seq(Frame)
      BY <1>2
    <2>2. QED
      BY <2>1
  <1>4. IsOf(f, frames) /\ Numbered(canRxFrame) = {f.n}
    <2>1. DOMAIN canRxFrame = {1}
      BY <1>2
    <2>2. QED
      BY <1>1, <1>3, <2>1 DEF RxInv, FifoInv, Numbered
  <1>5. handled' = [h \in Handlers |-> IF f.data /\ h \in Called(f) THEN Append(handled[h], f.n) ELSE handled[h]]
    BY <1>3 DEF Dispatch
  <1>6. ASSUME NEW h \in Handlers
        PROVE  Calls(h) \subseteq Calls(h)' /\ (f.data /\ h \in Called(f) => f.n \in Calls(h)')
    <2>1. PICK s \in Seq(Numbers) : s = handled[h]
      BY <1>2
    <2>2. CASE f.data /\ h \in Called(f)
      <3>1. PICK t : t = handled'[h] /\ t = Append(s, f.n)
        BY <1>5, <2>1, <2>2
      <3>2. f.n \in Numbers
        BY DEF Frame
      <3>3. /\ DOMAIN t = 1 .. Len(s) + 1 /\ t[Len(s) + 1] = f.n /\ Len(s) + 1 \in DOMAIN t
            /\ \A j \in DOMAIN s : j \in DOMAIN t /\ t[j] = s[j]
        BY <2>1, <3>1, <3>2
      <3>4. QED
        BY <2>1, <3>1, <3>3 DEF Calls
    <2>3. CASE ~(f.data /\ h \in Called(f))
      <3>1. handled'[h] = handled[h]
        BY <1>5, <2>3
      <3>2. QED
        BY <2>3, <3>1 DEF Calls
    <2>4. QED
      BY <2>2, <2>3
  (* Who is in the table has its id in the entry, and so it is called.     *)
  <1>7. ASSUME NEW h \in Handlers, In(h), Due(h, f.n) PROVE f.data /\ h \in Called(f)
    <2>1. f.data /\ f.id = IdOf[h]
      <3>1. frames[f.n].id = IdOf[h] /\ frames[f.n].data = TRUE
        BY <1>7 DEF Due
      <3>2. f.id = frames[f.n].id /\ f.data = frames[f.n].data
        BY <1>4 DEF IsOf
      <3>3. QED
        BY <3>1, <3>2, Zenon
    <2>2. PICK k \in 1 .. Slots : callBacks[k].callBack = h
      BY <1>7 DEF In
    <2>3. h # NoHandler
      BY HandlersAssumption
    <2>4. todo # <<>> => h # Head(todo)
      <3>1. todo \in Seq(Handlers)
        BY DEF RxInv, RxTypeOK
      <3>2. todo # <<>> => Head(todo) = todo[1] /\ 1 \in 1 .. Len(todo)
        BY <3>1
      <3>3. QED
        BY <1>7, <3>2 DEF In
    <2>5. Whole(callBacks[k])
      BY <2>2, <2>4 DEF RxInv, TableInv
    <2>6. callBacks[k].id = f.id
      BY <2>1, <2>2, <2>3, <2>5 DEF Whole
    <2>7. QED
      BY <2>1, <2>2, <2>3, <2>6 DEF Called
  <1>8. ASSUME NEW h \in Handlers, In(h), NEW n \in 1 .. Len(frames), Due(h, n), n \in Calls(h) \/ Traced(n)
        PROVE  (n \in Calls(h) \/ Traced(n))'
    <2>1. n \in Calls(h) => n \in Calls(h)'
      BY <1>6
    <2>2. n = f.n => n \in Calls(h)'
      BY <1>6, <1>7, <1>8
    <2>3. Traced(n) => n = f.n \/ Traced(n)'
      BY <1>1, <1>4 DEF Traced, Numbered
    <2>4. QED
      BY <1>8, <2>1, <2>2, <2>3
  <1>9. PlaceInv' /\ TraceInv'
    BY <1>1, <1>8, IsrKeepsTrace
  <1>10. LossTypeOK' /\ HeadInv' /\ CountInv'
    BY <1>1 DEF LossInv, LossTypeOK, HeadInv, CountInv
  <1>11. QED
    BY <1>9, <1>10 DEF LossInv

LEMMA LossStep == RxInv /\ LossInv /\ [Next]_vars => LossInv'
  <1> SUFFICES ASSUME RxInv, LossInv, [Next]_vars PROVE LossInv'
    OBVIOUS
  <1>1. CASE Stick \/ Recover \/ FollowRequest \/ CanSetup \/ AttachIrq \/ UNCHANGED vars
    <2>1. UNCHANGED <<callBacks, half, todo, since, fifoVars, isrVars>>
      BY <1>1 DEF Stick, Recover, FollowRequest, CanSetup, Construct, ConstructLeft, RequestInit, Entered,
                  Configure, Withdraw, Left, Setup, AttachIrq, vars, tableVars
    <2>2. QED
      BY <2>1, OthersKeepLoss DEF fifoVars, isrVars
  <1>2. CASE \E kind \in Kinds : Arrive(kind)
    BY <1>2, ArriveKeepsLoss
  <1>3. CASE (\E field \in {"id", "callBack"} : AttachFirst(field)) \/ AttachSecond \/ TableFull
    BY <1>3, AttachFirstKeepsLoss, AttachSecondKeepsLoss, TableFullKeepsLoss
  <1>4. CASE OnRx
    BY <1>4, EnterKeepsLoss, ReadKeepsLoss, ReleaseKeepsLoss, DispatchKeepsLoss DEF OnRx
  <1>5. QED
    BY <1>1, <1>2, <1>3, <1>4 DEF Next, Hardware, Attach

(* No frame is gone without a trace: it has been handled, is on its way,   *)
(* or was overwritten; and what was overwritten shows in can_rx_overruns,  *)
(* unless that was while can_read was at work, for a FIFO of two or more.  *)
THEOREM LossesShow == Spec => []LossesCounted
  <1>1. RxInv /\ LossInv => LossesCounted
    <2> SUFFICES ASSUME RxInv, LossInv PROVE LossesCounted
      OBVIOUS
    <2>1. ASSUME NEW i \in 1 .. Slots, NEW h, h = callBacks[i].callBack, h # NoHandler,
                 h \notin {todo[j] : j \in DOMAIN todo},
                 NEW n \in since[h] + 1 .. Len(frames), frames[n] = [id |-> IdOf[h], data |-> TRUE]
          PROVE  n \in Calls(h) \/ Traced(n)
      <3>1. h \in Handlers /\ since[h] \in Nat
        BY <2>1 DEF RxInv, RxTypeOK
      <3>2. n \in 1 .. Len(frames) /\ n > since[h]
        <4>1. frames \in Seq(Kinds)
          BY DEF RxInv, RxTypeOK
        <4>2. QED
          BY <3>1, <4>1
      <3>3. In(h)
        <4>1. todo \in Seq(Handlers)
          BY DEF RxInv, RxTypeOK
        <4>2. QED
          BY <2>1, <4>1 DEF In
      <3>4. QED
        BY <2>1, <3>1, <3>2, <3>3 DEF LossInv, TraceInv, Due
    <2>2. missed.other # {} => overruns > 0 \/ fovr
      BY DEF LossInv, CountInv
    <2>3. QED
      BY <2>1, <2>2 DEF LossesCounted, Traced
  <1>2. QED
    BY <1>1, RxInit, RxStep, LossAtInit, LossStep, PTL DEF Spec
-----------------------------------------------------------------------------
(* A frame on the bus and the other nodes before it; the most that Others  *)
(* frames and one of the sender take.                                      *)
FrameTime == MaxBusy + LongFrame
Longest == Product(Others + 1, FrameTime)

(* What the bus has done of the frame time of the oldest request, and what *)
(* is still to be sent from the mailboxes, at least.                       *)
Served == IF begun THEN FrameTime - left ELSE busy
Mailed == IF begun THEN Product(Len(hw) - 1, ShortFrame) + left
                   ELSE Product(Len(hw), ShortFrame)

(* How long the bus may still stand idle for want of the send thread, and  *)
(* for whom; the places of the sender's frames that are yet to begin.      *)
Late == IF retry = 1 \/ Mailed + lag >= MaxLag THEN 0 ELSE MaxLag - lag - Mailed
Delay(i) == IF i > Len(hw) THEN Late ELSE 0
Coming == {i \in DOMAIN Path : Path[i] = "own" /\ (begun => i # 1)}
OnWire == begun /\ Head(hw) = "own"

FrameKinds == {"own", "other"}
BusTypeOK ==
  /\ phase \in 0 .. Grain - 1 /\ waiting \in BOOLEAN
  /\ sdelay \in 0 .. Interval /\ sent \in 0 .. ShortWait
  /\ queue \in Seq(FrameKinds) /\ message \in Seq(FrameKinds) /\ hw \in Seq(FrameKinds)
  /\ Len(message) <= 1
  /\ retry \in {0, 1} /\ lag \in 0 .. MaxLag
  /\ begun \in BOOLEAN /\ left \in 0 .. LongFrame /\ busy \in 0 .. MaxBusy /\ gap \in Nat

(* While a retry waits the mailboxes do not run empty, nor before the send *)
(* thread has been given its time after it.                                *)
PathInv ==
  /\ hw = <<>> => ~begun /\ busy = 0
  /\ retry = 1 => message # <<>> /\ Mailed >= ToGo(1, phase) + MaxLag
  /\ UnderWay("other") <= Others

(* A frame of a group is not put before a wait of at least ShortWait.      *)
WaitInv == waiting => sent + (IF sdelay = 0 THEN 0 ELSE ToGo(sdelay, phase)) >= ShortWait

(* No frame begins before the one before it has ended.                     *)
GapInv == gap + (IF OnWire THEN left ELSE 0) >= ShortFrame

(* A frame of the sender i places from the wire begins in time, and has    *)
(* ended in time; so the next one finds none of its kind before it.        *)
DelayInv ==
  HeldUp + LongFrame <= ShortWait =>
    /\ \A i \in Coming : sent + Product(i, FrameTime) + Delay(i) <= Longest + MaxLag + Served
    /\ OnWire => sent + left <= HeldUp + LongFrame
    /\ gap + HeldUp >= sent
    /\ Coming # {} => gap + HeldUp >= ShortWait
    /\ \A i, j \in Coming : i = j

BusInv == BusTypeOK /\ PathInv /\ WaitInv /\ GapInv /\ DelayInv

LEMMA BusSizes ==
  /\ Interval \in Nat /\ Interval > 0 /\ Grain \in Nat /\ Grain > 0 /\ HwSize \in Nat /\ HwSize > 0
  /\ Others \in Nat /\ MaxBusy \in Nat /\ MaxLag \in Nat
  /\ ShortFrame \in Nat /\ ShortFrame > 0 /\ LongFrame \in Nat /\ ShortFrame <= LongFrame
  /\ FrameTime \in Nat /\ FrameTime = MaxBusy + LongFrame
  /\ Longest \in Nat /\ HeldUp \in Nat /\ HeldUp + FrameTime = Longest + MaxBusy + MaxLag
  /\ ShortWait \in Nat /\ ShortWait > 0
  /\ Interval * Grain \in Nat /\ Interval * Grain + 1 = ShortWait + Grain
  /\ GapCap \in Nat /\ GapCap = Interval * Grain + ShortFrame
  /\ Product(HwSize - 1, ShortFrame) >= Grain + MaxLag
  <1>1. /\ Interval \in Nat /\ Interval > 0 /\ HwSize \in Nat /\ HwSize > 0 /\ Others \in Nat
        /\ MaxBusy \in Nat /\ MaxLag \in Nat
        /\ ShortFrame \in Nat /\ ShortFrame > 0 /\ LongFrame \in Nat /\ ShortFrame <= LongFrame
        /\ Grain \in Nat /\ Grain > 0
    BY BusSpacingAssumption, GrainIsPositive
  <1>2. FrameTime \in Nat /\ FrameTime = MaxBusy + LongFrame /\ Others + 1 \in Nat
    BY <1>1 DEF FrameTime
  <1>3. PICK p \in Nat : p = Product(Others, FrameTime) /\ Longest = p + FrameTime
    <2>1. Product(Others, FrameTime) \in Nat /\ Product(Others + 1, FrameTime) = Product(Others, FrameTime) + FrameTime
      BY <1>1, <1>2, ProductFewer
    <2>2. QED
      BY <2>1 DEF Longest
  <1>4. HeldUp = p + MaxBusy + MaxLag
    BY <1>3 DEF HeldUp, Product, FrameTime
  <1>5. PICK w \in Nat : w = (Interval - 1) * Grain /\ Interval * Grain = w + Grain
    <2>1. Interval - 1 \in Nat /\ (Interval - 1) + 1 = Interval
      BY <1>1
    <2>2. (Interval - 1) * Grain \in Nat /\ ((Interval - 1) + 1) * Grain = (Interval - 1) * Grain + Grain
      BY <2>1, TicksInUnits, Zenon
    <2>3. QED
      BY <2>1, <2>2
  <1>6. ShortWait = w + 1 /\ GapCap = Interval * Grain + ShortFrame
    BY <1>5 DEF ShortWait, GapCap
  <1>7. Product(HwSize - 1, ShortFrame) >= Grain + MaxLag
    BY MailboxesOutlastRetry DEF Product
  <1>8. /\ Longest \in Nat /\ HeldUp \in Nat /\ HeldUp + FrameTime = Longest + MaxBusy + MaxLag
    BY <1>1, <1>2, <1>3, <1>4
  <1>9. /\ ShortWait \in Nat /\ ShortWait > 0 /\ Interval * Grain \in Nat
        /\ Interval * Grain + 1 = ShortWait + Grain /\ GapCap \in Nat
    BY <1>1, <1>5, <1>6
  <1>10. QED
    BY <1>1, <1>2, <1>6, <1>7, <1>8, <1>9

LEMMA PathIsSeq ==
  ASSUME BusTypeOK
  PROVE  /\ Path \in Seq(FrameKinds) /\ DOMAIN Path = 1 .. Len(Path) /\ Len(Path) \in Nat
         /\ Len(hw) \in Nat /\ \A i \in Coming : i \in 1 .. Len(Path) /\ i \in Nat /\ i > 0 /\ (begun => i > 1)
  <1>1. hw \o message \in Seq(FrameKinds)
    BY ConcatProperties DEF BusTypeOK
  <1>2. Path \in Seq(FrameKinds)
    BY <1>1, ConcatProperties DEF BusTypeOK, Path
  <1>3. DOMAIN Path = 1 .. Len(Path) /\ Len(Path) \in Nat /\ Len(hw) \in Nat
    BY <1>2, LenProperties DEF BusTypeOK
  <1>4. QED
    BY <1>2, <1>3 DEF Coming

(* The path begins with the mailboxes.                                     *)
LEMMA HeadOfPath ==
  ASSUME BusTypeOK, hw # <<>>
  PROVE  Path # <<>> /\ Path[1] = Head(hw) /\ Head(hw) \in FrameKinds
  <1>1. /\ hw \in Seq(FrameKinds) /\ message \in Seq(FrameKinds) /\ queue \in Seq(FrameKinds)
        /\ Len(hw) \in Nat /\ Len(hw) > 0 /\ Head(hw) = hw[1] /\ Head(hw) \in FrameKinds
    BY HeadTailProperties, LenProperties, EmptySeq DEF BusTypeOK
  <1> DEFINE r == message \o queue
  <1>2. Path = hw \o r /\ r \in Seq(FrameKinds)
    <2>1. r \in Seq(FrameKinds)
      BY <1>1, ConcatProperties
    <2>2. QED
      BY <1>1, <2>1, ConcatAssociative DEF Path
  <1> HIDE DEF r
  <1>3. /\ Len(Path) = Len(hw) + Len(r) /\ Len(r) \in Nat
        /\ \A i \in 1 .. Len(hw) + Len(r) : Path[i] = IF i <= Len(hw) THEN hw[i] ELSE r[i - Len(hw)]
    BY <1>1, <1>2, ConcatProperties, LenProperties
  <1>4. 1 \in 1 .. Len(hw) + Len(r) /\ 1 <= Len(hw) /\ Len(Path) # 0
    BY <1>1, <1>3
  <1>5. Path[1] = hw[1]
    BY <1>3, <1>4
  <1>6. Path # <<>>
    BY <1>4, EmptySeq
  <1>7. QED
    BY <1>1, <1>5, <1>6

(* The state functions of the invariant are numbers.                       *)
LEMMA BusNumbers ==
  ASSUME BusTypeOK, PathInv
  PROVE  /\ sent \in Nat /\ sent <= ShortWait /\ lag \in Nat /\ lag <= MaxLag /\ phase \in Nat /\ phase < Grain
         /\ left \in Nat /\ left <= LongFrame /\ busy \in Nat /\ busy <= MaxBusy /\ gap \in Nat
         /\ Served \in Nat /\ Mailed \in Nat /\ Late \in Nat /\ Late <= MaxLag
         /\ \A i : Delay(i) \in Nat /\ Delay(i) <= MaxLag
         /\ begun => hw # <<>> /\ Len(hw) > 0 /\ Len(hw) - 1 \in Nat
  <1>1. /\ sent \in Nat /\ sent <= ShortWait /\ lag \in Nat /\ lag <= MaxLag /\ phase \in Nat /\ phase < Grain
        /\ left \in Nat /\ left <= LongFrame /\ busy \in Nat /\ busy <= MaxBusy /\ gap \in Nat
    BY BusSizes DEF BusTypeOK
  <1>2. Len(hw) \in Nat /\ (begun => hw # <<>> /\ Len(hw) > 0)
    <2>1. Len(hw) \in Nat /\ (hw # <<>> => Len(hw) # 0)
      BY LenProperties, EmptySeq DEF BusTypeOK
    <2>2. QED
      BY <2>1 DEF PathInv
  <1>3. begun => Len(hw) - 1 \in Nat
    BY <1>2
  <1>4. Served \in Nat
    BY <1>1, BusSizes DEF Served
  <1>5. Mailed \in Nat
    <2>1. CASE begun
      <3>1. Product(Len(hw) - 1, ShortFrame) \in Nat
        BY <1>3, <2>1, BusSizes, ProductFewer
      <3>2. QED
        BY <1>1, <2>1, <3>1 DEF Mailed
    <2>2. CASE ~begun
      BY <1>2, <2>2, BusSizes, ProductFewer DEF Mailed
    <2>3. QED
      BY <2>1, <2>2
  <1>6. Late \in Nat /\ Late <= MaxLag
    <2>1. PICK m \in Nat : m = Mailed
      BY <1>5
    <2>2. CASE retry = 1 \/ m + lag >= MaxLag
      BY <2>1, <2>2, BusSizes DEF Late
    <2>3. CASE ~(retry = 1 \/ m + lag >= MaxLag)
      <3>1. Late = MaxLag - lag - m
        BY <2>1, <2>3 DEF Late
      <3>2. QED
        BY <1>1, <2>3, <3>1, BusSizes
    <2>4. QED
      BY <2>2, <2>3
  <1>7. \A i : Delay(i) \in Nat /\ Delay(i) <= MaxLag
    BY <1>6, BusSizes DEF Delay
  <1>8. QED
    BY <1>1, <1>2, <1>3, <1>4, <1>5, <1>6, <1>7

BusBounds ==
  /\ sent \in Nat /\ left \in Nat /\ gap \in Nat /\ Served \in Nat /\ Mailed \in Nat
  /\ \A i : Delay(i) \in Nat /\ Delay(i) <= MaxLag

LEMMA AreBounded == BusTypeOK /\ PathInv => BusBounds
  BY BusNumbers DEF BusBounds

LEMMA BusNumbersNext ==
  ASSUME BusTypeOK', PathInv'
  PROVE  /\ sent' \in Nat /\ left' \in Nat /\ gap' \in Nat /\ Served' \in Nat /\ Mailed' \in Nat
         /\ \A i : Delay(i)' \in Nat /\ Delay(i)' <= MaxLag
  <1>1. BusBounds'
    BY AreBounded, PTL
  <1>2. QED
    BY <1>1 DEF BusBounds

LEMMA BusInitially == BusInit => BusInv
  <1> SUFFICES ASSUME BusInit PROVE BusInv
    OBVIOUS
  <1>1. /\ phase = 0 /\ waiting = FALSE /\ sdelay = 0 /\ sent = ShortWait
        /\ queue = <<>> /\ message = <<>> /\ retry = 0 /\ lag = 0
        /\ hw = <<>> /\ begun = FALSE /\ left = 0 /\ busy = 0 /\ gap = GapCap
    BY DEF BusInit
  <1>2. BusTypeOK
    <2>1. <<>> \in Seq(FrameKinds) /\ Len(<<>>) = 0
      BY EmptySeq
    <2>2. /\ 0 \in 0 .. Grain - 1 /\ 0 \in 0 .. Interval /\ 0 \in 0 .. MaxLag /\ 0 \in 0 .. LongFrame
          /\ 0 \in 0 .. MaxBusy /\ ShortWait \in 0 .. ShortWait /\ GapCap \in Nat
      BY BusSizes
    <2>3. /\ queue \in Seq(FrameKinds) /\ message \in Seq(FrameKinds) /\ hw \in Seq(FrameKinds)
          /\ Len(message) <= 1
      BY <1>1, <2>1
    <2>4. /\ phase \in 0 .. Grain - 1 /\ waiting \in BOOLEAN /\ sdelay \in 0 .. Interval
          /\ sent \in 0 .. ShortWait /\ retry \in {0, 1} /\ lag \in 0 .. MaxLag
          /\ begun \in BOOLEAN /\ left \in 0 .. LongFrame /\ busy \in 0 .. MaxBusy /\ gap \in Nat
      BY <1>1, <2>2, Zenon
    <2>5. QED
      BY <2>3, <2>4 DEF BusTypeOK
  <1>3. Path = <<>> /\ DOMAIN Path = {} /\ Coming = {}
    <2>1. Path = <<>>
      BY <1>1 DEF Path
    <2>2. QED
      BY <2>1 DEF Coming
  <1>4. UnderWay("other") = 0
    <2>1. {i \in DOMAIN Path : Path[i] = "other"} = {}
      BY <1>3
    <2>2. QED
      BY <2>1, FS_EmptySet DEF UnderWay
  <1>5. PathInv
    BY <1>1, <1>4, BusSizes DEF PathInv
  <1>6. WaitInv /\ GapInv
    BY <1>1, BusSizes DEF WaitInv, GapInv, OnWire
  <1>7. DelayInv
    BY <1>1, <1>3, BusSizes DEF DelayInv, OnWire
  <1>8. QED
    BY <1>2, <1>5, <1>6, <1>7 DEF BusInv

LEMMA WireKeeps ==
  ASSUME BusInv, UNCHANGED <<left, gap>>, OnWire' => OnWire, OnWire => left = 0 \/ OnWire'
  PROVE  GapInv'
  <1>1. gap \in Nat /\ left \in Nat
    BY BusNumbers DEF BusInv
  <1>2. gap + (IF OnWire THEN left ELSE 0) >= ShortFrame
    BY DEF BusInv, GapInv
  <1>3. QED
    BY <1>1, <1>2 DEF GapInv

(* Steps that bring no frame of the sender farther from the wire and let   *)
(* no time pass keep the times.                                            *)
LEMMA NearerKeeps ==
  ASSUME BusInv, UNCHANGED <<sent, begun, left, busy, gap>>, OnWire' => OnWire,
         \A i \in Coming' : \E j \in Coming : i \in Nat /\ i <= j /\ Delay(i)' <= Delay(j) /\ Delay(i)' \in Nat,
         (\A i, j \in Coming : i = j) => (\A i, j \in Coming' : i = j)
  PROVE  DelayInv'
  <1>1. Served' = Served
    BY DEF Served, FrameTime
  <1>2. ASSUME NEW i \in Coming', HeldUp + LongFrame <= ShortWait
        PROVE  sent + Product(i, FrameTime) + Delay(i)' <= Longest + MaxLag + Served
    <2>1. PICK j \in Coming : i \in Nat /\ i <= j /\ Delay(i)' <= Delay(j) /\ Delay(i)' \in Nat
      BY <1>2
    <2>2. j \in Nat
      BY PathIsSeq DEF BusInv
    <2>3. sent + Product(j, FrameTime) + Delay(j) <= Longest + MaxLag + Served
      BY <1>2 DEF BusInv, DelayInv
    <2>4. Product(i, FrameTime) <= Product(j, FrameTime) /\ Product(i, FrameTime) \in Nat /\ Product(j, FrameTime) \in Nat
      BY <2>1, <2>2, BusSizes, ProductOrdered
    <2>5. PICK d \in Nat, e \in Nat, p \in Nat, q \in Nat :
             d = Delay(i)' /\ e = Delay(j) /\ d <= e /\ p = Product(i, FrameTime) /\ q = Product(j, FrameTime) /\ p <= q
      <3>1. Delay(j) \in Nat
        BY BusNumbers DEF BusInv
      <3>2. QED
        BY <2>1, <2>4, <3>1
    <2>6. Served \in Nat /\ sent \in Nat
      BY BusNumbers DEF BusInv
    <2>7. sent + p + d <= Longest + MaxLag + Served
      BY <2>3, <2>5, <2>6, BusSizes
    <2>8. QED
      BY <2>5, <2>7
  <1>3. Coming' # {} => Coming # {}
    OBVIOUS
  <1>4. SUFFICES ASSUME HeldUp + LongFrame <= ShortWait
        PROVE  /\ \A i \in Coming' : sent + Product(i, FrameTime) + Delay(i)' <= Longest + MaxLag + Served
               /\ OnWire' => sent + left <= HeldUp + LongFrame
               /\ gap + HeldUp >= sent
               /\ Coming' # {} => gap + HeldUp >= ShortWait
               /\ \A i, j \in Coming' : i = j
    BY <1>1 DEF DelayInv, HeldUp, ShortWait, Longest, FrameTime
  <1>5. QED
    BY <1>2, <1>3, <1>4 DEF BusInv, DelayInv

(* The same for a step that leaves the path as it is.                      *)
LEMMA SamePathKeeps ==
  ASSUME BusInv, Path' = Path, UNCHANGED <<phase, senderVars, begun, left, busy, gap>>,
         OnWire' <=> OnWire,
         \A i \in Coming : Delay(i)' <= Delay(i) /\ Delay(i)' \in Nat
  PROVE  UnderWay("other")' <= Others /\ WaitInv' /\ GapInv' /\ DelayInv'
  <1>1. UnderWay("other")' = UnderWay("other") /\ Coming' = Coming
    BY DEF UnderWay, Coming
  <1>2. UnderWay("other") <= Others
    BY DEF BusInv, PathInv
  <1>3. DelayInv'
    <2>1. \A i \in Coming : i \in Nat /\ i <= i
      BY PathIsSeq DEF BusInv
    <2>2. QED
      BY <1>1, <2>1, NearerKeeps DEF senderVars
  <1>4. WaitInv'
    BY DEF BusInv, WaitInv, senderVars
  <1>5. QED
    BY <1>1, <1>2, <1>3, <1>4, WireKeeps

LEMMA FewFrames == Product(1, FrameTime) = FrameTime /\ Product(2, FrameTime) = FrameTime + FrameTime
  <1>1. FrameTime \in Nat
    BY BusSizes
  <1>2. /\ Product(0, FrameTime) = 0 /\ Product(0 + 1, FrameTime) = Product(0, FrameTime) + FrameTime
        /\ Product(1 + 1, FrameTime) = Product(1, FrameTime) + FrameTime
    BY <1>1, ProductFewer
  <1>3. QED
    BY <1>1, <1>2

(* A frame of the sender that waits longest begins before a wait is over,  *)
(* and has been sent if one of another wait is put behind it.              *)
LEMMA NoneComing ==
  ASSUME BusInv, HeldUp + LongFrame <= ShortWait, sent >= ShortWait
  PROVE  Coming = {} /\ (OnWire => left = 0)
  <1>1. /\ sent \in Nat /\ left \in Nat /\ busy \in Nat /\ busy <= MaxBusy /\ Served \in Nat
    BY BusNumbers DEF BusInv
  <1>2. ASSUME NEW i \in Coming PROVE FALSE
    <2>1. sent + Product(i, FrameTime) + Delay(i) <= Longest + MaxLag + Served
      BY <1>2 DEF BusInv, DelayInv
    <2>2. i \in Nat /\ i > 0 /\ (begun => i > 1)
      BY PathIsSeq DEF BusInv
    <2>3. Product(1, FrameTime) = FrameTime /\ Product(2, FrameTime) = FrameTime + FrameTime
      BY FewFrames
    <2>4. FrameTime \in Nat
      BY BusSizes
    <2>5. PICK d \in Nat, p \in Nat : d = Delay(i) /\ p = Product(i, FrameTime)
      BY <2>2, BusSizes, ProductFewer, BusNumbers DEF BusInv
    <2>6. CASE begun
      <3>1. Product(2, FrameTime) <= Product(i, FrameTime)
        BY <2>2, <2>6, BusSizes, ProductOrdered
      <3>2. p >= FrameTime + FrameTime
        BY <2>3, <2>5, <3>1
      <3>3. Served <= FrameTime
        BY <1>1, <2>6, BusSizes DEF Served
      <3>4. sent + p + d <= Longest + MaxLag + Served
        BY <2>1, <2>5
      <3>5. QED
        BY <1>1, <1>2, <2>5, <3>2, <3>3, <3>4, BusSizes
    <2>7. CASE ~begun
      <3>1. Product(1, FrameTime) <= Product(i, FrameTime)
        BY <2>2, BusSizes, ProductOrdered
      <3>2. p >= FrameTime
        BY <2>3, <2>5, <3>1
      <3>3. Served <= MaxBusy
        BY <1>1, <2>7 DEF Served
      <3>4. sent + p + d <= Longest + MaxLag + Served
        BY <2>1, <2>5
      <3>5. QED
        BY <1>1, <2>5, <3>2, <3>3, <3>4, BusSizes
    <2>8. QED
      BY <2>6, <2>7
  <1>3. OnWire => left = 0
    <2>1. OnWire => sent + left <= HeldUp + LongFrame
      BY DEF BusInv, DelayInv
    <2>2. QED
      BY <1>1, <2>1, BusSizes
  <1>4. QED
    BY <1>2, <1>3

(* With none of the sender's frames coming, the path holds those of others *)
(* and at most the one on the wire.                                        *)
LEMMA OthersAhead ==
  ASSUME BusInv, Coming = {}
  PROVE  /\ ~OnWire => Len(Path) <= Others
         /\ Len(Path) <= Others + 1
  <1>1. Path \in Seq(FrameKinds) /\ DOMAIN Path = 1 .. Len(Path) /\ Len(Path) \in Nat
    BY PathIsSeq DEF BusInv
  <1>2. Copies(Path, "other") <= Others /\ Copies(Path, "other") \in Nat
    BY <1>1, CopiesBounded DEF BusInv, PathInv, UnderWay, Copies
  <1>3. \A i \in DOMAIN Path : Path[i] = "other" \/ (begun /\ i = 1)
    <2>1. \A i \in DOMAIN Path : Path[i] \in FrameKinds
      BY <1>1, ElementOfSeq
    <2>2. QED
      BY <2>1 DEF Coming, FrameKinds
  <1>4. CASE \A i \in DOMAIN Path : Path[i] = "other"
    <2>1. Copies(Path, "other") = Len(Path)
      BY <1>1, <1>4, AllCopies
    <2>2. QED
      BY <1>1, <1>2, <2>1, BusSizes
  <1>5. CASE ~(\A i \in DOMAIN Path : Path[i] = "other")
    <2>1. begun /\ 1 \in DOMAIN Path /\ Path[1] # "other" /\ Path # <<>>
      <3>1. PICK i \in DOMAIN Path : Path[i] # "other"
        BY <1>5
      <3>2. begun /\ i = 1
        BY <1>3, <3>1
      <3>3. DOMAIN Path # {}
        BY <3>1
      <3>4. Path # <<>>
        BY <3>3
      <3>5. QED
        BY <3>1, <3>2, <3>4
    <2>2. OnWire
      <3>1. Path[1] = Head(hw)
        BY <2>1, HeadOfPath DEF BusInv, PathInv
      <3>2. Path[1] = "own"
        BY <1>1, <2>1, ElementOfSeq DEF FrameKinds
      <3>3. QED
        BY <2>1, <3>1, <3>2 DEF OnWire
    <2>3. /\ Tail(Path) \in Seq(FrameKinds) /\ Len(Tail(Path)) = Len(Path) - 1
          /\ DOMAIN Tail(Path) = 1 .. Len(Path) - 1
          /\ \A i \in 1 .. Len(Path) - 1 : Tail(Path)[i] = Path[i + 1]
          /\ Without(Tail(Path), Path, 1) /\ 1 \in 1 .. Len(Path)
      <3>1. /\ Tail(Path) \in Seq(FrameKinds) /\ Len(Tail(Path)) = Len(Path) - 1
            /\ \A i \in 1 .. Len(Tail(Path)) : Tail(Path)[i] = Path[i + 1]
        BY <1>1, <2>1, HeadTailProperties
      <3>2. DOMAIN Tail(Path) = 1 .. Len(Tail(Path))
        BY <3>1, LenProperties
      <3>3. QED
        BY <1>1, <2>1, <3>1, <3>2, TailWithout
    <2>4. \A i \in DOMAIN Tail(Path) : Tail(Path)[i] = "other"
      <3>1. \A i \in 1 .. Len(Path) - 1 : i + 1 \in DOMAIN Path /\ i + 1 # 1
        BY <1>1
      <3>2. QED
        BY <1>3, <2>3, <3>1
    <2>5. Copies(Tail(Path), "other") = Len(Path) - 1
      BY <2>3, <2>4, AllCopies
    <2>6. Copies(Tail(Path), "other") <= Copies(Path, "other")
      BY <1>1, <2>3, CopiesWithout
    <2>7. QED
      BY <1>1, <1>2, <2>2, <2>5, <2>6, BusSizes
  <1>6. QED
    BY <1>4, <1>5

(* A frame put comes to stand last.                                        *)
LEMMA PutLast ==
  ASSUME BusTypeOK, NEW x \in FrameKinds, queue' = Append(queue, x), UNCHANGED <<message, hw, begun>>
  PROVE  /\ queue' \in Seq(FrameKinds)
         /\ Path' = Append(Path, x) /\ Path \in Seq(FrameKinds)
         /\ Coming' = IF x = "own" /\ ~(begun /\ Path = <<>>) THEN Coming \cup {Len(Path) + 1} ELSE Coming
  <1>1. Append(queue, x) \in Seq(FrameKinds)
    BY AppendProperties DEF BusTypeOK
  <1>2. Path' = Append(Path, x)
    <2>1. hw \o message \in Seq(FrameKinds) /\ queue \in Seq(FrameKinds)
      BY ConcatProperties DEF BusTypeOK
    <2>2. QED
      BY <2>1, AppendToConcat DEF Path
  <1>3. Path \in Seq(FrameKinds) /\ DOMAIN Path = 1 .. Len(Path) /\ Len(Path) \in Nat
    BY PathIsSeq
  <1>4. /\ DOMAIN Path' = 1 .. Len(Path) + 1
        /\ \A i \in 1 .. Len(Path) : Path'[i] = Path[i]
        /\ Path'[Len(Path) + 1] = x
    <2>1. /\ Append(Path, x) \in Seq(FrameKinds) /\ Len(Append(Path, x)) = Len(Path) + 1
          /\ \A i \in 1 .. Len(Path) : Append(Path, x)[i] = Path[i]
          /\ Append(Path, x)[Len(Path) + 1] = x
      BY <1>3, AppendProperties
    <2>2. DOMAIN Append(Path, x) = 1 .. Len(Append(Path, x))
      BY <2>1, LenProperties
    <2>3. QED
      BY <1>2, <2>1, <2>2
  <1>5. Len(Path) + 1 = 1 <=> Path = <<>>
    BY <1>3, EmptySeq
  <1>6. Coming' = {i \in 1 .. Len(Path) + 1 : Path'[i] = "own" /\ (begun => i # 1)}
    BY <1>4 DEF Coming
  <1>7. CASE x = "own" /\ ~(begun /\ Path = <<>>)
    <2>1. Coming' = Coming \cup {Len(Path) + 1}
      BY <1>3, <1>4, <1>5, <1>6, <1>7 DEF Coming
    <2>2. QED
      BY <1>1, <1>2, <1>3, <1>7, <2>1
  <1>8. CASE ~(x = "own" /\ ~(begun /\ Path = <<>>))
    <2>1. Coming' = Coming
      BY <1>3, <1>4, <1>5, <1>6, <1>8 DEF Coming
    <2>2. QED
      BY <1>1, <1>2, <1>3, <1>8, <2>1
  <1>9. QED
    BY <1>7, <1>8

LEMMA PutKeeps ==
  ASSUME BusInv, Put, sent >= ShortWait
  PROVE  BusInv'
  <1>1. /\ queue' = Append(queue, "own") /\ sent' = 0
        /\ (waiting' = TRUE /\ sdelay' = Interval) \/ (waiting' = FALSE /\ sdelay' = 0)
        /\ UNCHANGED <<phase, message, retry, lag, hw, begun, left, busy, gap>>
    BY DEF Put, WaitInterval, wireVars
  <1>2. /\ queue' \in Seq(FrameKinds) /\ Path' = Append(Path, "own") /\ Path \in Seq(FrameKinds)
        /\ Coming' = IF begun /\ Path = <<>> THEN Coming ELSE Coming \cup {Len(Path) + 1}
    <2>1. "own" \in FrameKinds
      BY DEF FrameKinds
    <2>2. QED
      BY <1>1, <2>1, PutLast DEF BusInv
  <1>3. BusTypeOK'
    <2>1. 0 \in 0 .. ShortWait /\ 0 \in 0 .. Interval /\ Interval \in 0 .. Interval
      BY BusSizes
    <2>2. sent' \in 0 .. ShortWait /\ sdelay' \in 0 .. Interval /\ waiting' \in BOOLEAN
      BY <1>1, <2>1, Zenon
    <2>3. QED
      BY <1>1, <1>2, <2>2 DEF BusInv, BusTypeOK
  <1>4. UnderWay("other")' = UnderWay("other")
    <2>1. Copies(Append(Path, "own"), "other") = Copies(Path, "other")
      BY <1>2, CopiesAppend DEF FrameKinds
    <2>2. QED
      BY <1>2, <2>1 DEF UnderWay, Copies
  <1>5. Served' = Served /\ Mailed' = Mailed /\ OnWire' = OnWire
    BY <1>1 DEF Served, Mailed, OnWire, FrameTime
  <1>6. PathInv'
    BY <1>1, <1>4, <1>5 DEF BusInv, PathInv
  <1>7. WaitInv'
    <2>1. ToGo(Interval, phase) >= ShortWait /\ ToGo(Interval, phase) \in Nat
      <3>1. PICK p \in Nat, f \in Nat : p = Interval * Grain /\ f = phase /\ f < Grain
        BY BusSizes, BusNumbers DEF BusInv
      <3>2. ToGo(Interval, phase) = p - f
        BY <3>1 DEF ToGo
      <3>3. p + 1 = ShortWait + Grain
        BY <3>1, BusSizes
      <3>4. QED
        BY <3>1, <3>2, <3>3, BusSizes
    <2>2. QED
      BY <1>1, <2>1, BusSizes DEF WaitInv, ShortWait
  <1>8. GapInv'
    BY <1>1, <1>5 DEF BusInv, GapInv
  <1>9. ASSUME HeldUp + LongFrame <= ShortWait
        PROVE  /\ \A i \in Coming' : i = Len(Path) + 1
               /\ \A i \in Coming' : Product(i, FrameTime) + Delay(i)' <= Longest + MaxLag + Served
               /\ OnWire => left <= HeldUp + LongFrame
               /\ gap + HeldUp >= ShortWait
    <2>1. Coming = {} /\ (OnWire => left = 0)
      BY <1>9, NoneComing
    <2>2. \A i \in Coming' : i = Len(Path) + 1
      BY <1>2, <2>1
    <2>3. gap + HeldUp >= ShortWait
      <3>1. gap + HeldUp >= sent
        BY <1>9 DEF BusInv, DelayInv
      <3>2. gap \in Nat /\ sent \in Nat
        BY BusNumbers DEF BusInv
      <3>3. QED
        BY <3>1, <3>2, BusSizes
    <2>4. Len(Path) \in Nat /\ (~OnWire => Len(Path) <= Others) /\ Len(Path) <= Others + 1
      BY <1>2, <2>1, OthersAhead, LenProperties
    <2>5. ASSUME NEW i \in Coming' PROVE Delay(i)' \in Nat /\ Delay(i)' <= MaxLag
      BY <1>3, <1>6, BusNumbersNext
    <2>6. ASSUME NEW i \in Coming' PROVE Product(i, FrameTime) + Delay(i)' <= Longest + MaxLag + Served
      <3>1. i = Len(Path) + 1 /\ i \in Nat
        BY <2>2, <2>4, <2>6
      <3>2. PICK d \in Nat : d = Delay(i)' /\ d <= MaxLag
        BY <2>5, <2>6
      <3>3. Served \in Nat
        BY BusNumbers DEF BusInv
      <3>4. CASE ~OnWire
        <4>1. i <= Others + 1 /\ Others + 1 \in Nat
          BY <2>4, <3>1, <3>4, BusSizes
        <4>2. Product(i, FrameTime) <= Longest /\ Product(i, FrameTime) \in Nat
          BY <3>1, <4>1, BusSizes, ProductOrdered DEF Longest
        <4>3. QED
          BY <3>2, <3>3, <4>2, BusSizes
      <3>5. CASE OnWire
        <4>1. Served = FrameTime
          BY <2>1, <3>5, BusSizes DEF OnWire, Served
        <4>2. Product((Others + 1) + 1, FrameTime) = Longest + FrameTime
          <5>1. Others + 1 \in Nat /\ FrameTime \in Nat
            BY BusSizes
          <5>2. QED
            BY <5>1, ProductFewer DEF Longest
        <4>3. i <= (Others + 1) + 1 /\ (Others + 1) + 1 \in Nat
          BY <2>4, <3>1, BusSizes
        <4>4. /\ Product(i, FrameTime) <= Product((Others + 1) + 1, FrameTime)
              /\ Product(i, FrameTime) \in Nat
          BY <3>1, <4>3, BusSizes, ProductOrdered
        <4>5. QED
          BY <3>2, <4>1, <4>2, <4>4, BusSizes
      <3>6. QED
        BY <3>4, <3>5
    <2>7. OnWire => left <= HeldUp + LongFrame
      BY <2>1, BusSizes
    <2>8. QED
      BY <2>2, <2>3, <2>6, <2>7
  <1>10. DelayInv'
    <2>1. SUFFICES ASSUME HeldUp + LongFrame <= ShortWait
          PROVE  /\ \A i \in Coming' : 0 + Product(i, FrameTime) + Delay(i)' <= Longest + MaxLag + Served
                 /\ OnWire => 0 + left <= HeldUp + LongFrame
                 /\ gap + HeldUp >= 0
                 /\ Coming' # {} => gap + HeldUp >= ShortWait
                 /\ \A i, j \in Coming' : i = j
      BY <1>1, <1>5 DEF DelayInv, HeldUp, ShortWait, Longest, FrameTime
    <2>2. \A i \in Coming' : Product(i, FrameTime) \in Nat /\ Delay(i)' \in Nat
      <3>1. \A i \in Coming' : i \in Nat
        <4>1. Len(Path) + 1 \in Nat
          BY <1>2, LenProperties
        <4>2. QED
          BY <1>9, <2>1, <4>1
      <3>2. QED
        BY <1>3, <1>6, <3>1, BusSizes, ProductFewer, BusNumbersNext
    <2>3. gap \in Nat /\ left \in Nat
      BY BusNumbers DEF BusInv
    <2>4. \A i \in Coming' : 0 + Product(i, FrameTime) = Product(i, FrameTime)
      BY <2>2
    <2>5. 0 + left = left /\ gap + HeldUp >= 0
      BY <2>3, BusSizes
    <2>6. QED
      BY <1>9, <2>1, <2>4, <2>5
  <1>11. QED
    BY <1>3, <1>6, <1>7, <1>8, <1>10 DEF BusInv

LEMMA SenderKeeps == BusInv /\ (SendFirst \/ SendNext) => BusInv'
  <1> SUFFICES ASSUME BusInv, SendFirst \/ SendNext PROVE BusInv'
    OBVIOUS
  <1>1. sent >= ShortWait /\ Put
    <2>1. CASE SendFirst
      BY <2>1 DEF SendFirst
    <2>2. CASE SendNext
      <3>1. sent + 0 >= ShortWait /\ sent \in Nat /\ Put
        BY <2>2, BusNumbers DEF SendNext, BusInv, WaitInv
      <3>2. QED
        BY <3>1, BusSizes
    <2>3. QED
      BY <2>1, <2>2
  <1>2. QED
    BY <1>1, PutKeeps

LEMMA SendOtherKeeps == BusInv /\ SendOther => BusInv'
  <1> SUFFICES ASSUME BusInv, SendOther PROVE BusInv'
    OBVIOUS
  <1>1. /\ UnderWay("other") < Others /\ queue' = Append(queue, "other")
        /\ UNCHANGED <<phase, waiting, sdelay, sent, message, retry, lag, hw, begun, left, busy, gap>>
    BY DEF SendOther, senderVars, wireVars
  <1>2. /\ queue' \in Seq(FrameKinds) /\ Path' = Append(Path, "other") /\ Path \in Seq(FrameKinds)
        /\ Coming' = Coming
    <2>1. "other" \in FrameKinds
      BY DEF FrameKinds
    <2>2. "other" # "own"
      OBVIOUS
    <2>3. QED
      BY <1>1, <2>1, <2>2, PutLast DEF BusInv
  <1>3. BusTypeOK'
    BY <1>1, <1>2 DEF BusInv, BusTypeOK
  <1>4. UnderWay("other")' <= Others
    <2>1. Copies(Append(Path, "other"), "other") = Copies(Path, "other") + 1 /\ Copies(Path, "other") \in Nat
      <3>1. Copies(Path, "other") \in Nat
        BY <1>2, CopiesBounded
      <3>2. "other" \in FrameKinds
        BY DEF FrameKinds
      <3>3. QED
        BY <1>2, <3>1, <3>2, CopiesAppend
    <2>2. UnderWay("other")' = UnderWay("other") + 1 /\ UnderWay("other") \in Nat
      BY <1>2, <2>1 DEF UnderWay, Copies
    <2>3. QED
      BY <1>1, <2>2, BusSizes
  <1>5. Mailed' = Mailed /\ OnWire' = OnWire /\ \A i : Delay(i)' = Delay(i)
    BY <1>1 DEF Mailed, OnWire, Delay, Late
  <1>6. PathInv'
    BY <1>1, <1>4, <1>5 DEF BusInv, PathInv
  <1>7. WaitInv' /\ GapInv'
    BY <1>1, <1>5 DEF BusInv, WaitInv, GapInv
  <1>8. DelayInv'
    <2>1. \A i \in Coming : i \in Nat /\ i <= i /\ Delay(i) \in Nat /\ Delay(i) <= Delay(i)
      BY PathIsSeq, BusNumbers DEF BusInv
    <2>2. QED
      BY <1>1, <1>2, <1>5, <2>1, NearerKeeps
  <1>9. QED
    BY <1>3, <1>6, <1>7, <1>8 DEF BusInv

LEMMA BusGetKeeps == BusInv /\ Get => BusInv'
  <1> SUFFICES ASSUME BusInv, Get PROVE BusInv'
    OBVIOUS
  <1>1. /\ message = <<>> /\ queue # <<>> /\ message' = <<Head(queue)>> /\ queue' = Tail(queue)
        /\ UNCHANGED <<phase, waiting, sdelay, sent, retry, lag, hw, begun, left, busy, gap>>
    BY DEF Get, senderVars, wireVars
  <1>2. /\ queue \in Seq(FrameKinds) /\ hw \in Seq(FrameKinds)
        /\ <<Head(queue)>> \o Tail(queue) = queue
        /\ <<Head(queue)>> \in Seq(FrameKinds) /\ Tail(queue) \in Seq(FrameKinds)
    BY <1>1, HeadThenTail DEF BusInv, BusTypeOK
  <1>3. Len(<<Head(queue)>>) = 1 /\ <<Head(queue)>> # <<>>
    BY <1>2
  <1>4. BusTypeOK'
    BY <1>1, <1>2, <1>3 DEF BusInv, BusTypeOK
  <1>5. Path' = Path
    <2>1. (hw \o <<Head(queue)>>) \o Tail(queue) = hw \o (<<Head(queue)>> \o Tail(queue))
      BY <1>2, ConcatAssociative
    <2>2. hw \o <<>> = hw
      BY <1>2, ConcatEmptySeq
    <2>3. QED
      BY <1>1, <1>2, <2>1, <2>2 DEF Path
  <1>6. OnWire' = OnWire /\ \A i : Delay(i)' = Delay(i)
    BY <1>1 DEF Mailed, OnWire, Delay, Late
  <1>7. UnderWay("other")' <= Others /\ WaitInv' /\ GapInv' /\ DelayInv'
    <2>1. \A i : Delay(i) \in Nat /\ Delay(i) <= Delay(i)
      BY BusNumbers DEF BusInv
    <2>2. QED
      BY <1>1, <1>5, <1>6, <2>1, SamePathKeeps DEF senderVars
  <1>8. PathInv'
    <2>1. retry # 1
      BY <1>1 DEF BusInv, PathInv
    <2>2. QED
      BY <1>1, <1>7, <2>1 DEF BusInv, PathInv
  <1>9. QED
    BY <1>4, <1>7, <1>8 DEF BusInv

(* The send thread is less late the more the mailboxes hold, and the       *)
(* longer it has been ready.                                               *)
LEMMA LateShrinks ==
  ASSUME Mailed \in Nat, Mailed' \in Nat, lag \in Nat, lag' \in Nat,
         retry' = retry, Mailed' + lag' >= Mailed + lag
  PROVE  Late' <= Late
  <1> DEFINE Rest(c, m, j) == IF m + j >= c THEN 0 ELSE c - j - m
  <1>1. ASSUME NEW c \in Nat, NEW m \in Nat, NEW n \in Nat, NEW j \in Nat, NEW k \in Nat, n + k >= m + j
        PROVE  Rest(c, n, k) <= Rest(c, m, j)
    <2>1. CASE n + k >= c /\ m + j >= c
      BY <2>1
    <2>2. CASE n + k >= c /\ ~(m + j >= c)
      BY <2>2
    <2>3. CASE ~(n + k >= c)
      BY <1>1, <2>3
    <2>4. QED
      BY <2>1, <2>2, <2>3
  <1>2. MaxLag \in Nat
    BY BusSizes
  <1>3. Rest(MaxLag, Mailed', lag') <= Rest(MaxLag, Mailed, lag)
    <2> HIDE DEF Rest
    <2>1. QED
      BY <1>1, <1>2, Zenon
  <1>4. CASE retry = 1
    <2>1. Late = 0 /\ Late' = 0
      BY <1>4 DEF Late
    <2>2. QED
      BY <2>1
  <1>5. CASE retry # 1
    <2>1. Late = Rest(MaxLag, Mailed, lag) /\ Late' = Rest(MaxLag, Mailed', lag')
      BY <1>5, Zenon DEF Late
    <2>2. QED
      BY <1>3, <2>1, Zenon
  <1>6. QED
    BY <1>4, <1>5

LEMMA WriteDoneKeeps ==
  ASSUME BusInv, Write, EmptyMailbox
  PROVE  BusInv'
  <1>1. /\ message # <<>> /\ retry = 0 /\ hw' = hw \o message /\ message' = <<>>
        /\ lag' = IF queue # <<>> THEN lag ELSE 0
        /\ UNCHANGED <<phase, waiting, sdelay, sent, retry, queue, begun, left, busy, gap>>
    BY DEF Write, senderVars
  <1>2. /\ queue \in Seq(FrameKinds) /\ hw \in Seq(FrameKinds) /\ message \in Seq(FrameKinds)
        /\ <<>> \in Seq(FrameKinds) /\ Len(<<>>) = 0
    BY EmptySeq DEF BusInv, BusTypeOK
  <1>3. /\ hw \o message \in Seq(FrameKinds) /\ Len(hw \o message) = Len(hw) + 1
        /\ Len(hw) \in Nat /\ hw \o message # <<>>
        /\ hw # <<>> => Head(hw \o message) = Head(hw)
    <2>1. /\ hw \o message \in Seq(FrameKinds) /\ Len(hw \o message) = Len(hw) + Len(message)
          /\ Len(hw) \in Nat
          /\ \A i \in 1 .. Len(hw) + Len(message) : (hw \o message)[i] = IF i <= Len(hw) THEN hw[i] ELSE message[i - Len(hw)]
      BY <1>2, ConcatProperties, LenProperties
    <2>2. Len(message) \in Nat /\ Len(message) # 0 /\ Len(message) <= 1
      BY <1>1, <1>2, LenProperties, EmptySeq DEF BusInv, BusTypeOK
    <2>3. Len(message) = 1
      <3>1. \A n \in Nat : n # 0 /\ n <= 1 => n = 1
        OBVIOUS
      <3>2. QED
        BY <2>2, <3>1, Zenon
    <2>4. hw \o message # <<>>
      BY <1>2, <2>1, <2>3
    <2>5. ASSUME hw # <<>> PROVE Head(hw \o message) = Head(hw)
      <3>1. Len(hw) > 0 /\ Head(hw) = hw[1]
        BY <1>2, <2>1, <2>5, EmptySeq, HeadTailProperties
      <3>2. Head(hw \o message) = (hw \o message)[1]
        BY <2>1, <2>4, HeadTailProperties
      <3>3. (hw \o message)[1] = hw[1]
        BY <2>1, <2>3, <3>1
      <3>4. QED
        BY <3>1, <3>2, <3>3
    <2>6. QED
      BY <2>1, <2>3, <2>4, <2>5
  <1>4. BusTypeOK'
    <2>1. lag' \in 0 .. MaxLag
      BY <1>1, BusSizes DEF BusInv, BusTypeOK
    <2>2. QED
      BY <1>1, <1>2, <1>3, <2>1 DEF BusInv, BusTypeOK
  <1>5. Path' = Path
    <2>1. (hw \o message) \o <<>> = hw \o message
      BY <1>3, ConcatEmptySeq
    <2>2. QED
      BY <1>1, <2>1 DEF Path
  <1>6. OnWire' <=> OnWire
    BY <1>1, <1>3 DEF OnWire, BusInv, PathInv
  <1>7. Mailed' \in Nat /\ Mailed' >= Mailed
    <2>1. Len(hw') = Len(hw) + 1 /\ Len(hw) \in Nat
      BY <1>1, <1>3
    <2>2. CASE begun
      <3>1. Len(hw) - 1 \in Nat /\ left \in Nat
        BY <2>2, BusNumbers DEF BusInv
      <3>2. Product(Len(hw) - 1, ShortFrame) <= Product(Len(hw), ShortFrame) /\ Product(Len(hw) - 1, ShortFrame) \in Nat /\ Product(Len(hw), ShortFrame) \in Nat
        <4>1. ShortFrame \in Nat
          BY BusSizes
        <4>2. Len(hw) - 1 <= Len(hw)
          BY <2>1
        <4>3. QED
          BY <2>1, <3>1, <4>1, <4>2, ProductOrdered
      <3>3. Mailed = Product(Len(hw) - 1, ShortFrame) + left /\ Mailed' = Product(Len(hw), ShortFrame) + left
        <4>1. Len(hw') - 1 = Len(hw)
          BY <2>1
        <4>2. QED
          BY <1>1, <2>2, <4>1 DEF Mailed
      <3>4. QED
        BY <3>1, <3>2, <3>3
    <2>3. CASE ~begun
      <3>1. Product(Len(hw), ShortFrame) <= Product(Len(hw) + 1, ShortFrame) /\ Product(Len(hw), ShortFrame) \in Nat /\ Product(Len(hw) + 1, ShortFrame) \in Nat
        BY <2>1, BusSizes, ProductOrdered
      <3>2. Mailed = Product(Len(hw), ShortFrame) /\ Mailed' = Product(Len(hw) + 1, ShortFrame)
        BY <1>1, <2>1, <2>3 DEF Mailed
      <3>3. QED
        BY <3>1, <3>2
    <2>4. QED
      BY <2>2, <2>3
  <1>8. ASSUME NEW i \in Coming PROVE Delay(i)' <= Delay(i) /\ Delay(i)' \in Nat
    <2>1. Delay(i) \in Nat /\ Mailed \in Nat /\ lag \in Nat /\ lag <= MaxLag /\ i \in 1 .. Len(Path)
      BY PathIsSeq, BusNumbers DEF BusInv
    <2>2. CASE i > Len(hw')
      <3>1. queue # <<>>
        <4>1. SUFFICES ASSUME queue = <<>> PROVE FALSE
          OBVIOUS
        <4>2. Path = hw'
          BY <1>1, <1>3, <4>1, ConcatEmptySeq DEF Path
        <4>3. Len(hw') \in Nat
          BY <1>1, <1>3
        <4>4. QED
          BY <2>1, <2>2, <4>2, <4>3
      <3>2. lag' = lag
        BY <1>1, <3>1
      <3>3. Late' <= Late
        <4>1. Mailed' + lag' >= Mailed + lag
          <5>1. \A m, n, k \in Nat : n >= m => n + k >= m + k
            OBVIOUS
          <5>2. QED
            BY <1>7, <2>1, <3>2, <5>1, Zenon
        <4>2. QED
          BY <1>1, <1>7, <2>1, <3>2, <4>1, LateShrinks
      <3>4. i > Len(hw)
        BY <1>1, <1>3, <2>1, <2>2
      <3>5. Delay(i)' = Late' /\ Delay(i) = Late
        BY <2>2, <3>4 DEF Delay
      <3>6. Late' \in Nat
        <4>1. lag \in Nat /\ MaxLag \in Nat
          BY <2>1, BusSizes
        <4>2. PICK n \in Nat : n = Mailed'
          BY <1>7
        <4>3. Late' = IF retry = 1 \/ n + lag >= MaxLag THEN 0 ELSE MaxLag - lag - n
          BY <1>1, <3>2, <4>2 DEF Late
        <4>4. QED
          BY <1>1, <4>1, <4>3
      <3>7. QED
        BY <3>3, <3>5, <3>6
    <2>3. CASE ~(i > Len(hw'))
      <3>1. Delay(i)' = 0
        BY <2>3 DEF Delay
      <3>2. QED
        BY <2>1, <3>1
    <2>4. QED
      BY <2>2, <2>3
  <1>9. UnderWay("other")' <= Others /\ WaitInv' /\ GapInv' /\ DelayInv'
    BY <1>1, <1>5, <1>6, <1>8, SamePathKeeps DEF senderVars
  <1>10. PathInv'
    BY <1>1, <1>3, <1>9 DEF PathInv
  <1>11. QED
    BY <1>4, <1>9, <1>10 DEF BusInv

LEMMA WriteWaitsKeeps ==
  ASSUME BusInv, Write, ~EmptyMailbox, ~(tries + 1 > Retries)
  PROVE  BusInv'
  <1>1. /\ message # <<>> /\ retry' = 1 /\ ~(Len(hw) < HwSize) /\ lag' = 0
        /\ UNCHANGED <<phase, waiting, sdelay, sent, queue, message, hw, begun, left, busy, gap>>
    BY DEF Write, EmptyMailbox, senderVars
  <1>2. BusTypeOK'
    <2>1. 0 \in 0 .. MaxLag
      BY BusSizes
    <2>2. QED
      BY <1>1, <2>1 DEF BusInv, BusTypeOK
  <1>3. Path' = Path
    BY <1>1 DEF Path
  <1>4. Mailed' = Mailed /\ OnWire' = OnWire /\ \A i : Delay(i)' = 0
    BY <1>1 DEF Mailed, OnWire, Delay, Late
  <1>5. UnderWay("other")' <= Others /\ WaitInv' /\ GapInv' /\ DelayInv'
    <2>1. \A i : 0 \in Nat /\ 0 <= Delay(i)
      <3>1. \A i : Delay(i) \in Nat
        BY BusNumbers DEF BusInv
      <3>2. QED
        BY <3>1
    <2>2. QED
      BY <1>1, <1>3, <1>4, <2>1, SamePathKeeps DEF senderVars
  <1>6. Mailed >= ToGo(1, phase) + MaxLag
    <2>1. /\ Len(hw) \in Nat /\ HwSize \in Nat /\ HwSize > 0 /\ ShortFrame \in Nat
          /\ left \in Nat /\ phase \in Nat /\ phase < Grain /\ Grain \in Nat
      BY BusSizes, PathIsSeq, BusNumbers DEF BusInv
    <2>2. /\ Len(hw) - 1 \in Nat /\ HwSize - 1 \in Nat /\ HwSize - 1 <= Len(hw) - 1 /\ HwSize - 1 <= Len(hw)
      BY <1>1, <2>1
    <2>3. Product(HwSize - 1, ShortFrame) \in Nat /\ Product(HwSize - 1, ShortFrame) <= Mailed
      <3>1. CASE begun
        <4>1. /\ Product(HwSize - 1, ShortFrame) <= Product(Len(hw) - 1, ShortFrame)
              /\ Product(HwSize - 1, ShortFrame) \in Nat /\ Product(Len(hw) - 1, ShortFrame) \in Nat
          BY <2>1, <2>2, ProductOrdered
        <4>2. QED
          BY <2>1, <3>1, <4>1 DEF Mailed
      <3>2. CASE ~begun
        <4>1. /\ Product(HwSize - 1, ShortFrame) <= Product(Len(hw), ShortFrame)
              /\ Product(HwSize - 1, ShortFrame) \in Nat
          BY <2>1, <2>2, ProductOrdered
        <4>2. QED
          BY <3>2, <4>1 DEF Mailed
      <3>3. QED
        BY <3>1, <3>2
    <2>4. ToGo(1, phase) = Grain - phase
      BY <2>1 DEF ToGo
    <2>5. Mailed \in Nat /\ MaxLag \in Nat /\ Product(HwSize - 1, ShortFrame) >= Grain + MaxLag
      BY BusSizes, BusNumbers DEF BusInv
    <2>6. QED
      BY <2>1, <2>3, <2>4, <2>5
  <1>7. PathInv'
    <2>1. ToGo(1, phase)' = ToGo(1, phase)
      BY <1>1 DEF ToGo
    <2>2. QED
      BY <1>1, <1>4, <1>5, <1>6, <2>1 DEF BusInv, PathInv
  <1>8. QED
    BY <1>2, <1>5, <1>7 DEF BusInv

(* The send thread gives a frame up: those behind it are only sooner on    *)
(* the bus.                                                                *)
LEMMA GivesUpKeeps ==
  ASSUME BusInv, Write, ~EmptyMailbox, tries + 1 > Retries
  PROVE  BusInv'
  <1>1. /\ message # <<>> /\ message' = <<>> /\ retry = 0
        /\ lag' = IF queue # <<>> THEN lag ELSE 0
        /\ UNCHANGED <<phase, waiting, sdelay, sent, queue, retry, hw, begun, left, busy, gap>>
    BY DEF Write, senderVars
  <1>2. /\ queue \in Seq(FrameKinds) /\ hw \in Seq(FrameKinds) /\ message \in Seq(FrameKinds)
        /\ <<>> \in Seq(FrameKinds) /\ Len(<<>>) = 0 /\ Len(message) = 1
    <2>1. message \in Seq(FrameKinds) /\ Len(message) <= 1
      BY DEF BusInv, BusTypeOK
    <2>2. Len(message) \in Nat /\ Len(message) # 0
      BY <1>1, <2>1, LenProperties, EmptySeq
    <2>3. Len(message) = 1
      <3>1. \A n \in Nat : n # 0 /\ n <= 1 => n = 1
        OBVIOUS
      <3>2. QED
        BY <2>1, <2>2, <3>1, Zenon
    <2>4. QED
      BY <2>3, EmptySeq DEF BusInv, BusTypeOK
  <1>3. BusTypeOK'
    <2>1. lag' \in 0 .. MaxLag
      BY <1>1, BusSizes DEF BusInv, BusTypeOK
    <2>2. QED
      BY <1>1, <1>2, <2>1 DEF BusInv, BusTypeOK
  <1> DEFINE t == hw \o queue
             k == Len(hw) + 1
  <1>4. Path' = t
    <2>1. hw \o <<>> = hw
      BY <1>2, ConcatEmptySeq
    <2>2. QED
      BY <1>1, <2>1 DEF Path
  <1>5. /\ Path \in Seq(FrameKinds) /\ t \in Seq(FrameKinds) /\ k \in 1 .. Len(Path) /\ Without(t, Path, k)
    BY <1>2, MiddleWithout DEF Path
  <1>6. (queue = <<>> => t = hw) /\ Len(hw) \in Nat /\ k = Len(hw) + 1
    BY <1>2, ConcatEmptySeq, LenProperties
  <1> HIDE DEF t, k
  <1>7. UnderWay("other")' <= Others
    <2>1. Copies(t, "other") <= Copies(Path, "other")
      BY <1>5, CopiesWithout
    <2>2. Copies(t, "other") \in Nat /\ Copies(Path, "other") \in Nat
      BY <1>5, CopiesBounded
    <2>3. Copies(Path, "other") <= Others
      BY DEF BusInv, PathInv, UnderWay, Copies
    <2>4. Copies(t, "other") <= Others
      BY <2>1, <2>2, <2>3, BusSizes
    <2>5. QED
      BY <1>4, <2>4 DEF UnderWay, Copies
  <1>8. Mailed' = Mailed /\ OnWire' = OnWire
    BY <1>1 DEF Mailed, OnWire
  <1>9. PathInv'
    BY <1>1, <1>7 DEF BusInv, PathInv
  <1>10. WaitInv' /\ GapInv'
    BY <1>1, <1>8 DEF BusInv, WaitInv, GapInv
  <1> DEFINE At(i) == IF i < k THEN i ELSE i + 1
  <1>11. /\ \A i \in DOMAIN t : /\ At(i) \in DOMAIN Path /\ t[i] = Path[At(i)]
                              /\ i \in Nat /\ At(i) \in Nat /\ i <= At(i)
         /\ \A i, j \in DOMAIN t : At(i) = At(j) => i = j
    BY <1>5, WithoutPlaces
  <1>12. \A i \in DOMAIN t : (i > Len(hw) => At(i) > Len(hw)) /\ (At(i) = 1 => i = 1)
    <2>1. \A i \in DOMAIN t : i \in 1 .. Len(t)
      BY <1>5, LenProperties
    <2>2. QED
      BY <1>6, <1>11, <2>1, LenProperties
  <1> HIDE DEF At
  <1>13. \A i \in Coming' : i \in DOMAIN t /\ At(i) \in Coming
    <2>1. Coming' = {i \in DOMAIN t : t[i] = "own" /\ (begun => i # 1)}
      BY <1>1, <1>4 DEF Coming
    <2>2. QED
      BY <1>11, <1>12, <2>1 DEF Coming
  <1>14. ASSUME NEW i \in Coming' PROVE i \in Nat /\ i <= At(i) /\ Delay(i)' <= Delay(At(i)) /\ Delay(i)' \in Nat
    <2>1. i \in DOMAIN t /\ i \in Nat /\ i <= At(i)
      BY <1>11, <1>13, <1>14
    <2>2. Delay(At(i)) \in Nat /\ Late \in Nat
      BY BusNumbers DEF BusInv
    <2>3. CASE i > Len(hw)
      <3>1. queue # <<>>
        <4>1. SUFFICES ASSUME queue = <<>> PROVE FALSE
          OBVIOUS
        <4>2. DOMAIN t = 1 .. Len(hw)
          BY <1>2, <1>6, <4>1, LenProperties
        <4>3. QED
          BY <1>6, <2>1, <2>3, <4>2
      <3>2. Late' = Late
        BY <1>1, <1>8, <3>1 DEF Late
      <3>3. Delay(i)' = Late' /\ Delay(At(i)) = Late
        BY <1>1, <1>12, <2>1, <2>3 DEF Delay
      <3>4. QED
        BY <2>1, <2>2, <3>2, <3>3
    <2>4. CASE ~(i > Len(hw))
      <3>1. Delay(i)' = 0
        BY <1>1, <2>4 DEF Delay
      <3>2. QED
        BY <2>1, <2>2, <3>1
    <2>5. QED
      BY <2>3, <2>4
  <1>15. DelayInv'
    <2>1. \A i \in Coming' : \E j \in Coming : i \in Nat /\ i <= j /\ Delay(i)' <= Delay(j) /\ Delay(i)' \in Nat
      BY <1>13, <1>14
    <2>2. (\A i, j \in Coming : i = j) => (\A i, j \in Coming' : i = j)
      BY <1>11, <1>13
    <2>3. QED
      BY <1>1, <1>8, <2>1, <2>2, NearerKeeps
  <1>16. QED
    BY <1>3, <1>9, <1>10, <1>15 DEF BusInv

LEMMA BusWriteKeeps == BusInv /\ Write => BusInv'
  BY WriteDoneKeeps, WriteWaitsKeeps, GivesUpKeeps, Zenon
-----------------------------------------------------------------------------
(* A frame begins: from now on it is its own time that it takes.           *)
LEMMA BeginKeeps == BusInv /\ Begin => BusInv'
  <1> SUFFICES ASSUME BusInv, Begin PROVE BusInv'
    OBVIOUS
  <1>1. /\ hw # <<>> /\ ~begun /\ begun' = TRUE /\ left' \in ShortFrame .. LongFrame
        /\ gap' = IF Head(hw) = "own" THEN 0 ELSE gap
        /\ UNCHANGED <<phase, waiting, sdelay, sent, queue, message, retry, lag, hw, busy>>
    BY DEF Begin, senderVars, threadVars
  <1>2. left' \in Nat /\ ShortFrame <= left' /\ left' <= LongFrame
    BY <1>1, BusSizes
  <1>3. BusTypeOK'
    <2>1. left' \in 0 .. LongFrame /\ gap' \in Nat
      BY <1>1, <1>2, BusSizes DEF BusInv, BusTypeOK
    <2>2. QED
      BY <1>1, <2>1 DEF BusInv, BusTypeOK
  <1>4. Path' = Path /\ UnderWay("other")' = UnderWay("other")
    BY <1>1 DEF Path, UnderWay
  <1>5. Coming' = {i \in Coming : i # 1} /\ (Head(hw) = "own" => 1 \in Coming)
    <2>1. Path # <<>> /\ Path[1] = Head(hw) /\ 1 \in DOMAIN Path
      <3>1. Path # <<>> /\ Path[1] = Head(hw)
        BY <1>1, HeadOfPath DEF BusInv
      <3>2. Len(Path) # 0 /\ Len(Path) \in Nat /\ DOMAIN Path = 1 .. Len(Path)
        BY <3>1, PathIsSeq, EmptySeq DEF BusInv
      <3>3. QED
        BY <3>1, <3>2
    <2>2. QED
      BY <1>1, <1>4, <2>1 DEF Coming
  <1>6. Mailed' \in Nat /\ Mailed \in Nat /\ Mailed' >= Mailed
    <2>1. Len(hw) \in Nat /\ Len(hw) # 0
      BY <1>1, LenProperties, EmptySeq DEF BusInv, BusTypeOK
    <2>2. PICK n \in Nat : Len(hw) = n + 1
      <3>1. Len(hw) - 1 \in Nat /\ Len(hw) = (Len(hw) - 1) + 1
        BY <2>1
      <3>2. QED
        BY <3>1
    <2>3. Product(n, ShortFrame) \in Nat /\ Product(n + 1, ShortFrame) = Product(n, ShortFrame) + ShortFrame
      BY BusSizes, ProductFewer
    <2>4. Mailed = Product(n + 1, ShortFrame)
      BY <1>1, <2>2 DEF Mailed
    <2>5. Mailed' = Product(n, ShortFrame) + left'
      <3>1. (n + 1) - 1 = n
        OBVIOUS
      <3>2. QED
        BY <1>1, <2>2, <3>1 DEF Mailed
    <2>6. QED
      BY <1>2, <2>3, <2>4, <2>5, BusSizes
  <1>7. Served = busy /\ Served' = FrameTime - left'
    BY <1>1 DEF Served, FrameTime
  <1>8. busy \in Nat /\ busy <= MaxBusy /\ sent \in Nat /\ gap \in Nat
    BY BusNumbers DEF BusInv
  <1>9. Served' \in Nat /\ Served' >= Served
    <2>1. \A b, m, g, l \in Nat : b <= m /\ l <= g => (m + g) - l \in Nat /\ (m + g) - l >= b
      OBVIOUS
    <2>2. MaxBusy \in Nat /\ LongFrame \in Nat /\ FrameTime = MaxBusy + LongFrame
      BY BusSizes
    <2>3. (MaxBusy + LongFrame) - left' \in Nat /\ (MaxBusy + LongFrame) - left' >= busy
      BY <1>2, <1>8, <2>1, <2>2, Zenon
    <2>4. QED
      BY <1>7, <2>2, <2>3
  <1>10. PathInv'
    <2>1. ASSUME retry' = 1 PROVE message' # <<>> /\ Mailed' >= ToGo(1, phase)' + MaxLag
      <3>1. message # <<>> /\ Mailed >= ToGo(1, phase) + MaxLag
        BY <1>1, <2>1 DEF BusInv, PathInv
      <3>2. ToGo(1, phase)' = ToGo(1, phase) /\ ToGo(1, phase) \in Nat /\ MaxLag \in Nat
        <4>1. ToGo(1, phase)' = ToGo(1, phase)
          BY <1>1, Zenon DEF ToGo
        <4>2. ToGo(1, phase) \in Nat
          BY LeftShrinks DEF BusInv, BusTypeOK
        <4>3. QED
          BY <4>1, <4>2, BusSizes
      <3>3. Mailed' >= ToGo(1, phase) + MaxLag
        BY <1>6, <3>1, <3>2
      <3>4. QED
        BY <1>1, <3>1, <3>2, <3>3
    <2>2. QED
      BY <1>1, <1>4, <2>1 DEF BusInv, PathInv
  <1>11. WaitInv'
    BY <1>1 DEF BusInv, WaitInv
  <1>12. GapInv'
    <2>1. gap + 0 >= ShortFrame
      BY <1>1 DEF BusInv, GapInv, OnWire
    <2>2. CASE Head(hw) = "own"
      <3>1. gap' = 0 /\ OnWire'
        BY <1>1, <2>2 DEF OnWire
      <3>2. 0 + left' >= ShortFrame
        <4>1. \A n, m \in Nat : m <= n => 0 + n >= m
          OBVIOUS
        <4>2. ShortFrame \in Nat
          BY BusSizes
        <4>3. QED
          BY <1>2, <4>1, <4>2, Zenon
      <3>3. QED
        BY <3>1, <3>2 DEF GapInv
    <2>3. CASE Head(hw) # "own"
      <3>1. gap' = gap /\ ~OnWire'
        BY <1>1, <2>3 DEF OnWire
      <3>2. QED
        BY <2>1, <3>1 DEF GapInv
    <2>4. QED
      BY <2>2, <2>3
  <1>13. Late' <= Late /\ Late \in Nat /\ \A i : Delay(i)' <= Delay(i) /\ Delay(i) \in Nat /\ Delay(i)' \in Nat
    <2>1. Mailed' + lag' >= Mailed + lag
      <3>1. \A m, n, k \in Nat : n >= m => n + k >= m + k
        OBVIOUS
      <3>2. lag \in Nat /\ lag' = lag
        BY <1>1, BusNumbers DEF BusInv
      <3>3. QED
        BY <1>6, <3>1, <3>2, Zenon
    <2>2. Late' <= Late
      <3>1. lag \in Nat /\ lag' = lag /\ retry' = retry
        BY <1>1, BusNumbers DEF BusInv
      <3>2. QED
        BY <1>6, <2>1, <3>1, LateShrinks
    <2>3. Late \in Nat /\ \A i : Delay(i) \in Nat
      BY BusNumbers DEF BusInv
    <2>4. \A i : Delay(i)' \in Nat
      BY <1>3, <1>10, BusNumbersNext
    <2>5. ASSUME NEW i PROVE Delay(i)' <= Delay(i)
      <3>1. CASE i > Len(hw)
        BY <1>1, <2>2, <3>1 DEF Delay
      <3>2. CASE ~(i > Len(hw))
        BY <1>1, <3>2 DEF Delay
      <3>3. QED
        BY <3>1, <3>2
    <2>6. QED
      BY <2>2, <2>3, <2>4, <2>5
  <1>14. ASSUME HeldUp + LongFrame <= ShortWait, NEW i \in Coming
         PROVE  /\ sent + Product(i, FrameTime) + Delay(i)' <= Longest + MaxLag + Served'
                /\ i = 1 => sent + left' <= HeldUp + LongFrame /\ sent <= HeldUp
    <2>1. sent + Product(i, FrameTime) + Delay(i) <= Longest + MaxLag + Served
      BY <1>14 DEF BusInv, DelayInv
    <2>2. i \in Nat
      BY <1>14, PathIsSeq DEF BusInv
    <2>3. PICK d \in Nat, e \in Nat, p \in Nat, q \in Nat, r \in Nat :
             /\ d = Delay(i) /\ e = Delay(i)' /\ e <= d /\ p = Product(i, FrameTime)
             /\ q = Served /\ r = Served' /\ q <= r /\ q <= MaxBusy
      <3>1. Product(i, FrameTime) \in Nat
        BY <2>2, BusSizes, ProductFewer
      <3>2. QED
        BY <1>7, <1>8, <1>9, <1>13, <3>1
    <2>4. sent + p + e <= Longest + MaxLag + r
      BY <1>8, <2>1, <2>3, BusSizes
    <2>5. ASSUME i = 1 PROVE sent + left' <= HeldUp + LongFrame /\ sent <= HeldUp
      <3>1. p = FrameTime
        BY <2>3, <2>5, FewFrames
      <3>2. sent <= HeldUp
        BY <1>8, <2>1, <2>3, <3>1, BusSizes
      <3>3. QED
        <4>1. \A a, b, c, f \in Nat : a <= c /\ b <= f => a + b <= c + f
          OBVIOUS
        <4>2. HeldUp \in Nat /\ LongFrame \in Nat
          BY BusSizes
        <4>3. QED
          BY <1>2, <1>8, <3>2, <4>1, <4>2, Zenon
    <2>6. QED
      BY <2>3, <2>4, <2>5
  <1>15. DelayInv'
    <2>1. SUFFICES ASSUME HeldUp + LongFrame <= ShortWait
          PROVE  /\ \A i \in Coming' : sent + Product(i, FrameTime) + Delay(i)' <= Longest + MaxLag + Served'
                 /\ OnWire' => sent + left' <= HeldUp + LongFrame
                 /\ gap' + HeldUp >= sent
                 /\ Coming' # {} => gap' + HeldUp >= ShortWait
                 /\ \A i, j \in Coming' : i = j
      BY <1>1 DEF DelayInv, HeldUp, ShortWait, Longest, FrameTime
    <2>2. gap + HeldUp >= sent /\ (Coming # {} => gap + HeldUp >= ShortWait) /\ \A i, j \in Coming : i = j
      BY <2>1 DEF BusInv, DelayInv
    <2>3. CASE Head(hw) = "own"
      <3>1. 1 \in Coming /\ Coming' = {} /\ gap' = 0
        BY <1>1, <1>5, <2>2, <2>3
      <3>2. sent + left' <= HeldUp + LongFrame /\ sent <= HeldUp
        BY <1>14, <2>1, <3>1
      <3>3. 0 + HeldUp >= sent
        BY <1>8, <3>2, BusSizes
      <3>4. QED
        BY <3>1, <3>2, <3>3
    <2>4. CASE Head(hw) # "own"
      <3>1. gap' = gap /\ ~OnWire' /\ \A i \in Coming' : i \in Coming
        BY <1>1, <1>5, <2>4 DEF OnWire
      <3>2. \A i \in Coming' : sent + Product(i, FrameTime) + Delay(i)' <= Longest + MaxLag + Served'
        BY <1>14, <2>1, <3>1
      <3>3. QED
        BY <2>2, <3>1, <3>2
    <2>5. QED
      BY <2>3, <2>4
  <1>16. QED
    BY <1>3, <1>10, <1>11, <1>12, <1>15 DEF BusInv

(* A frame has gone out: those behind it are one place nearer.             *)
LEMMA PathMoves ==
  ASSUME BusTypeOK, hw # <<>>, hw' = Tail(hw), UNCHANGED <<message, queue>>
  PROVE  /\ Tail(hw) \in Seq(FrameKinds) /\ Len(Tail(hw)) = Len(hw) - 1
         /\ Path # <<>> /\ Path' = Tail(Path) /\ Path[1] = Head(hw)
  <1>1. /\ hw \in Seq(FrameKinds) /\ message \in Seq(FrameKinds) /\ queue \in Seq(FrameKinds)
        /\ <<Head(hw)>> \o Tail(hw) = hw /\ <<Head(hw)>> \in Seq(FrameKinds) /\ Tail(hw) \in Seq(FrameKinds)
        /\ Head(hw) \in FrameKinds
    BY HeadThenTail, HeadTailProperties DEF BusTypeOK
  <1>2. Len(Tail(hw)) = Len(hw) - 1
    BY <1>1, HeadTailProperties
  <1> DEFINE h == <<Head(hw)>>
             b == Tail(hw)
             r == (b \o message) \o queue
  <1>3. h \in Seq(FrameKinds) /\ Len(h) = 1 /\ h[1] = Head(hw)
    BY <1>1
  <1>4. b \o message \in Seq(FrameKinds) /\ r \in Seq(FrameKinds)
    <2>1. b \o message \in Seq(FrameKinds)
      BY <1>1, ConcatProperties
    <2>2. QED
      BY <1>1, <2>1, ConcatProperties
  <1>5. Path = h \o r
    <2>1. b \in Seq(FrameKinds) /\ h \o b = hw
      BY <1>1
    <2> HIDE DEF h, b, r
    <2>2. (h \o b) \o message = h \o (b \o message)
      <3>1. h \in Seq(FrameKinds) /\ b \in Seq(FrameKinds) /\ message \in Seq(FrameKinds)
        BY <1>1, <1>3, <2>1
      <3>2. QED
        BY <3>1, ConcatAssociative, SMTT(60)
    <2>3. (h \o (b \o message)) \o queue = h \o ((b \o message) \o queue)
      <3>1. h \in Seq(FrameKinds) /\ queue \in Seq(FrameKinds)
        BY <1>1, <1>3
      <3>2. ASSUME NEW c \in Seq(FrameKinds) PROVE (h \o c) \o queue = h \o (c \o queue)
        BY <3>1, ConcatAssociative, SMTT(60)
      <3>3. QED
        BY <1>4, <3>2, Zenon
    <2>4. QED
      BY <2>1, <2>2, <2>3 DEF Path, r
  <1>6. Path' = r
    BY DEF Path
  <1> HIDE DEF h, r
  <1>7. h \o r # <<>> /\ Tail(h \o r) = r
    BY <1>3, <1>4, TailOfConcat
  <1>8. (h \o r)[1] = h[1]
    <2>1. /\ Len(h \o r) = Len(h) + Len(r) /\ Len(r) \in Nat
          /\ \A i \in 1 .. Len(h) + Len(r) : (h \o r)[i] = IF i <= Len(h) THEN h[i] ELSE r[i - Len(h)]
      BY <1>3, <1>4, ConcatProperties, LenProperties
    <2>2. 1 \in 1 .. Len(h) + Len(r) /\ 1 <= Len(h)
      BY <1>3, <2>1
    <2>3. QED
      BY <2>1, <2>2
  <1>9. QED
    BY <1>1, <1>2, <1>3, <1>5, <1>6, <1>7, <1>8

LEMMA DoneKeeps == BusInv /\ Done => BusInv'
  <1> SUFFICES ASSUME BusInv, Done PROVE BusInv'
    OBVIOUS
  <1>1. /\ begun /\ left = 0 /\ begun' = FALSE /\ hw' = Tail(hw) /\ busy' = 0
        /\ UNCHANGED <<phase, waiting, sdelay, sent, queue, message, retry, lag, left, gap>>
    BY DEF Done, senderVars, threadVars
  <1>2. /\ Tail(hw) \in Seq(FrameKinds) /\ Len(Tail(hw)) = Len(hw) - 1
        /\ Path # <<>> /\ Path' = Tail(Path) /\ Path[1] = Head(hw) /\ hw # <<>>
    <2>1. hw # <<>>
      BY <1>1 DEF BusInv, PathInv
    <2>2. QED
      BY <1>1, <2>1, PathMoves DEF BusInv
  <1>3. BusTypeOK'
    <2>1. 0 \in 0 .. MaxBusy
      BY BusSizes
    <2>2. QED
      BY <1>1, <1>2, <2>1 DEF BusInv, BusTypeOK
  <1>4. /\ Path \in Seq(FrameKinds) /\ DOMAIN Path = 1 .. Len(Path) /\ Len(Path) \in Nat
        /\ Tail(Path) \in Seq(FrameKinds) /\ Without(Tail(Path), Path, 1) /\ 1 \in 1 .. Len(Path)
    BY <1>2, PathIsSeq, TailWithout DEF BusInv
  <1>5. UnderWay("other")' <= Others
    <2>1. Copies(Tail(Path), "other") <= Copies(Path, "other")
      BY <1>4, CopiesWithout
    <2>2. Copies(Tail(Path), "other") \in Nat /\ Copies(Path, "other") \in Nat
      BY <1>4, CopiesBounded
    <2>3. Copies(Path, "other") <= Others
      BY DEF BusInv, PathInv, UnderWay, Copies
    <2>4. Copies(Tail(Path), "other") <= Others
      BY <2>1, <2>2, <2>3, BusSizes
    <2>5. QED
      BY <1>2, <2>4 DEF UnderWay, Copies
  <1>6. Mailed' = Mailed /\ Mailed \in Nat
    <2>1. Product(Len(hw) - 1, ShortFrame) \in Nat
      <3>1. Len(hw) - 1 \in Nat /\ ShortFrame \in Nat
        BY <1>1, BusNumbers, BusSizes DEF BusInv
      <3>2. QED
        BY <3>1, ProductFewer
    <2>2. Mailed = Product(Len(hw) - 1, ShortFrame)
      BY <1>1, <2>1 DEF Mailed
    <2>3. Mailed' = Product(Len(hw) - 1, ShortFrame)
      BY <1>1, <1>2 DEF Mailed
    <2>4. QED
      BY <2>1, <2>2, <2>3
  <1>7. PathInv'
    <2>1. ToGo(1, phase)' = ToGo(1, phase)
      BY <1>1 DEF ToGo
    <2>2. QED
      BY <1>1, <1>5, <1>6, <2>1 DEF BusInv, PathInv
  <1>8. WaitInv'
    BY <1>1 DEF BusInv, WaitInv
  <1>9. GapInv'
    <2>1. gap + 0 >= ShortFrame
      BY <1>1 DEF BusInv, GapInv
    <2>2. QED
      BY <1>1, <2>1 DEF GapInv, OnWire
  <1>10. \A i \in Coming' : i \in Nat /\ i + 1 \in Coming /\ Delay(i)' = Delay(i + 1)
    <2>1. DOMAIN Tail(Path) = 1 .. Len(Tail(Path)) /\ Len(Tail(Path)) = Len(Path) - 1
      BY <1>4, LenProperties DEF Without
    <2>2. \A i \in 1 .. Len(Tail(Path)) : Tail(Path)[i] = Path[i + 1]
      BY <1>2, <1>4, HeadTailProperties
    <2>3. Late' = Late
      BY <1>1, <1>6 DEF Late
    <2>4. ASSUME NEW i \in Coming' PROVE i \in Nat /\ i + 1 \in Coming /\ Delay(i)' = Delay(i + 1)
      <3>1. i \in DOMAIN Tail(Path) /\ Tail(Path)[i] = "own"
        BY <1>2, <2>4 DEF Coming
      <3>2. i \in Nat /\ i + 1 \in DOMAIN Path /\ Path[i + 1] = "own" /\ i + 1 # 1
        BY <1>4, <2>1, <2>2, <3>1
      <3>3. i + 1 \in Coming
        BY <3>2 DEF Coming
      <3>4. i > Len(hw') <=> i + 1 > Len(hw)
        <4>1. Len(hw) \in Nat /\ Len(hw') = Len(hw) - 1
          BY <1>1, <1>2, PathIsSeq DEF BusInv
        <4>2. \A n, m \in Nat : n > m - 1 <=> n + 1 > m
          OBVIOUS
        <4>3. i > Len(hw) - 1 <=> i + 1 > Len(hw)
          BY <3>2, <4>1, <4>2, Zenon
        <4>4. QED
          BY <4>1, <4>3
      <3>5. Delay(i)' = Delay(i + 1)
        <4>1. CASE i > Len(hw')
          BY <2>3, <3>4, <4>1, Zenon DEF Delay
        <4>2. CASE ~(i > Len(hw'))
          BY <3>4, <4>2, Zenon DEF Delay
        <4>3. QED
          BY <4>1, <4>2
      <3>6. QED
        BY <3>2, <3>3, <3>5
    <2>5. QED
      BY <2>4
  <1>11. Served = FrameTime /\ Served' = 0
    BY <1>1, BusSizes DEF Served
  <1>12. ASSUME HeldUp + LongFrame <= ShortWait, NEW i \in Coming'
         PROVE  sent + Product(i, FrameTime) + Delay(i)' <= Longest + MaxLag + 0
    <2>1. sent + Product(i + 1, FrameTime) + Delay(i + 1) <= Longest + MaxLag + FrameTime
      BY <1>10, <1>11, <1>12 DEF BusInv, DelayInv
    <2>2. Product(i + 1, FrameTime) = Product(i, FrameTime) + FrameTime /\ Product(i, FrameTime) \in Nat
      <3>1. i \in Nat /\ FrameTime \in Nat
        BY <1>10, <1>12, BusSizes
      <3>2. QED
        BY <3>1, ProductFewer
    <2>3. sent \in Nat /\ Delay(i + 1) \in Nat
      BY BusNumbers DEF BusInv
    <2>4. sent + Product(i, FrameTime) + Delay(i + 1) <= Longest + MaxLag + 0
      BY <2>1, <2>2, <2>3, BusSizes
    <2>5. QED
      BY <1>10, <1>12, <2>4
  <1>13. DelayInv'
    <2>1. SUFFICES ASSUME HeldUp + LongFrame <= ShortWait
          PROVE  /\ \A i \in Coming' : sent + Product(i, FrameTime) + Delay(i)' <= Longest + MaxLag + 0
                 /\ ~OnWire'
                 /\ gap + HeldUp >= sent
                 /\ Coming' # {} => gap + HeldUp >= ShortWait
                 /\ \A i, j \in Coming' : i = j
      BY <1>1, <1>11 DEF DelayInv, HeldUp, ShortWait, Longest, FrameTime
    <2>2. gap + HeldUp >= sent /\ (Coming # {} => gap + HeldUp >= ShortWait) /\ \A i, j \in Coming : i = j
      BY <2>1 DEF BusInv, DelayInv
    <2>3. \A i, j \in Coming' : i = j
      <3>1. \A i, j \in Coming' : i + 1 = j + 1 /\ i \in Nat /\ j \in Nat
        BY <1>10, <2>2
      <3>2. QED
        BY <3>1
    <2>4. Coming' # {} => Coming # {}
      BY <1>10
    <2>5. ~OnWire'
      BY <1>1 DEF OnWire
    <2>6. QED
      BY <1>12, <2>1, <2>2, <2>3, <2>4, <2>5
  <1>14. QED
    BY <1>3, <1>7, <1>8, <1>9, <1>13 DEF BusInv

LEMMA CountsOn ==
  ASSUME NEW c \in Nat, NEW n \in Nat
  PROVE  /\ CountTo(c, n) \in Nat /\ (CountTo(c, n) = n + 1 \/ CountTo(c, n) = c)
         /\ n <= c => CountTo(c, n) <= c /\ CountTo(c, n) <= n + 1
  <1>1. CASE n < c
    BY <1>1 DEF CountTo
  <1>2. CASE ~(n < c)
    BY <1>2 DEF CountTo
  <1>3. QED
    BY <1>1, <1>2

(* The clocks of the sender and of the send thread in one unit of time.    *)
LEMMA ClocksPass ==
  ASSUME BusInv, Pass
  PROVE  /\ phase' \in 0 .. Grain - 1 /\ sdelay' \in 0 .. Interval /\ retry' \in {0, 1}
         /\ ToGo(1, phase) \in Nat /\ ToGo(1, phase) > 0
         /\ retry = 0 => retry' = 0
         /\ retry = 1 /\ retry' = 1 => ToGo(1, phase') = ToGo(1, phase) - 1
         /\ sent' \in Nat /\ sent' <= ShortWait /\ sent' <= sent + 1
         /\ gap' \in Nat /\ (gap' = gap + 1 \/ gap' = GapCap)
         /\ lag' \in 0 .. MaxLag
  <1>1. /\ retry' = Elapse(retry, phase) /\ phase' = NextPhase(phase) /\ sdelay' = Elapse(sdelay, phase)
        /\ sent' = CountTo(ShortWait, sent) /\ gap' = CountTo(GapCap, gap)
        /\ phase \in 0 .. Grain - 1 /\ retry \in {0, 1} /\ sdelay \in 0 .. Interval
    BY DEF BusInv, BusTypeOK, Pass
  <1>2. sent \in Nat /\ sent <= ShortWait /\ gap \in Nat /\ lag \in Nat /\ lag <= MaxLag
    BY BusNumbers DEF BusInv
  <1>3. Elapse(0, phase) = 0 /\ NextPhase(phase) \in 0 .. Grain - 1
    BY <1>1, NoWaitStaysOver
  <1>4. /\ ToGo(1, phase) \in Nat /\ ToGo(1, phase) > 0
        /\ Elapse(1, phase) \in {0, 1}
        /\ Elapse(1, phase) = 1 => ToGo(1, NextPhase(phase)) = ToGo(1, phase) - 1
    <2>1. /\ ToGo(1, phase) \in Nat /\ ToGo(1, phase) > 0
          /\ ToGo(Elapse(1, phase), NextPhase(phase)) = ToGo(1, phase) - 1
      BY <1>1, LeftShrinks
    <2>2. Elapse(1, phase) \in {0, 1}
      BY DEF Elapse
    <2>3. QED
      BY <2>1, <2>2
  <1>5. sdelay' \in 0 .. Interval
    <2>1. sdelay \in Nat /\ sdelay <= Interval /\ Interval \in Nat
      BY <1>1, BusSizes
    <2>2. CASE sdelay = 0
      BY <1>1, <1>3, <2>1, <2>2
    <2>3. CASE sdelay # 0
      BY <1>1, <2>1, <2>3 DEF Elapse
    <2>4. QED
      BY <2>2, <2>3
  <1>6. lag' \in 0 .. MaxLag
    <2>1. CASE SendReady
      <3>1. lag < MaxLag /\ lag' = lag + 1
        BY <2>1 DEF Pass
      <3>2. \A n, m \in Nat : n < m => n + 1 \in 0 .. m
        OBVIOUS
      <3>3. MaxLag \in Nat
        BY BusSizes
      <3>4. QED
        BY <1>2, <3>1, <3>2, <3>3, Zenon
    <2>2. CASE ~SendReady
      <3>1. lag' = 0
        BY <2>2 DEF Pass
      <3>2. QED
        BY <3>1, BusSizes
    <2>3. QED
      BY <2>1, <2>2
  <1>7. sent' \in Nat /\ sent' <= ShortWait /\ sent' <= sent + 1
    BY <1>1, <1>2, BusSizes, CountsOn
  <1>8. gap' \in Nat /\ (gap' = gap + 1 \/ gap' = GapCap)
    BY <1>1, <1>2, BusSizes, CountsOn
  <1>9. retry' \in {0, 1} /\ (retry = 0 => retry' = 0) /\ (retry = 1 /\ retry' = 1 => ToGo(1, phase') = ToGo(1, phase) - 1)
    <2>1. CASE retry = 0
      BY <1>1, <1>3, <2>1
    <2>2. CASE retry = 1
      BY <1>1, <1>4, <2>2
    <2>3. QED
      BY <1>1, <2>1, <2>2
  <1>10. QED
    BY <1>1, <1>3, <1>4, <1>5, <1>6, <1>7, <1>8, <1>9

(* The bus in one unit of time: it serves the oldest request if there is   *)
(* one.                                                                    *)
LEMMA BusPasses ==
  ASSUME BusInv, Pass
  PROVE  /\ left' \in 0 .. LongFrame /\ busy' \in 0 .. MaxBusy
         /\ hw' = hw /\ begun' = begun /\ queue' = queue /\ message' = message
         /\ Mailed' \in Nat /\ Mailed' + 1 >= Mailed
         /\ hw = <<>> => Mailed = 0 /\ Mailed' = 0 /\ Served' = Served /\ busy' = 0
         /\ hw # <<>> => Served' = Served + 1
         /\ begun => left' + 1 = left
  <1>1. /\ left \in Nat /\ left <= LongFrame /\ busy \in Nat /\ busy <= MaxBusy
        /\ MaxBusy \in Nat /\ LongFrame \in Nat /\ FrameTime \in Nat /\ FrameTime = MaxBusy + LongFrame
    BY BusNumbers, BusSizes DEF BusInv
  <1>2. /\ hw' = hw /\ begun' = begun /\ queue' = queue /\ message' = message
        /\ begun => left > 0 /\ left' = left - 1 /\ busy' = busy
        /\ ~begun => left' = left
        /\ hw # <<>> /\ ~begun => busy < MaxBusy /\ busy' = busy + 1
        /\ hw = <<>> => busy' = busy
    BY DEF Pass, Requested
  <1>3. CASE begun
    <2>1. PICK l \in Nat : left = l + 1 /\ left' = l /\ l <= LongFrame
      <3>1. left - 1 \in Nat /\ left = (left - 1) + 1 /\ left - 1 <= LongFrame
        BY <1>1, <1>2, <1>3
      <3>2. QED
        BY <1>2, <1>3, <3>1
    <2>2. hw # <<>> /\ Len(hw) - 1 \in Nat
      BY <1>3, BusNumbers DEF BusInv
    <2>3. PICK p \in Nat : p = Product(Len(hw) - 1, ShortFrame)
      BY <2>2, BusSizes, ProductFewer
    <2>4. Mailed = p + (l + 1) /\ Mailed' = p + l
      BY <1>2, <1>3, <2>1, <2>3 DEF Mailed
    <2>5. Served' = Served + 1
      <3>1. Served = FrameTime - (l + 1) /\ Served' = FrameTime - l
        BY <1>2, <1>3, <2>1 DEF Served, FrameTime
      <3>2. \A f, n \in Nat : f - n = (f - (n + 1)) + 1
        OBVIOUS
      <3>3. QED
        BY <1>1, <3>1, <3>2, Zenon
    <2>6. left' \in 0 .. LongFrame /\ busy' \in 0 .. MaxBusy
      BY <1>1, <1>2, <1>3, <2>1
    <2>7. Mailed' \in Nat /\ Mailed' + 1 >= Mailed /\ left' + 1 = left
      BY <2>1, <2>4
    <2>8. QED
      BY <1>2, <2>2, <2>5, <2>6, <2>7
  <1>4. CASE ~begun
    <2>1. Mailed' = Mailed /\ Mailed \in Nat
      BY <1>2, <1>4, BusNumbers DEF Mailed, BusInv
    <2>2. left' \in 0 .. LongFrame
      BY <1>1, <1>2, <1>4
    <2>3. Mailed' \in Nat /\ Mailed' + 1 >= Mailed
      BY <2>1
    <2>4. Served = busy /\ Served' = busy'
      BY <1>2, <1>4 DEF Served
    <2>5. CASE hw = <<>>
      <3>1. busy = 0 /\ busy' = 0
        BY <1>2, <2>5 DEF BusInv, PathInv
      <3>2. Mailed = 0
        <4>1. Len(<<>>) = 0 /\ Product(0, ShortFrame) = 0
          BY BusSizes, ProductFewer, EmptySeq
        <4>2. QED
          BY <1>4, <2>5, <4>1 DEF Mailed
      <3>3. 0 \in 0 .. MaxBusy
        BY <1>1
      <3>4. QED
        BY <1>2, <1>4, <2>1, <2>2, <2>3, <2>4, <2>5, <3>1, <3>2, <3>3
    <2>6. CASE hw # <<>>
      <3>1. busy' = busy + 1 /\ busy < MaxBusy
        BY <1>2, <1>4, <2>6
      <3>2. busy + 1 \in 0 .. MaxBusy
        BY <1>1, <3>1
      <3>3. QED
        BY <1>2, <1>4, <2>2, <2>3, <2>4, <2>6, <3>1, <3>2
    <2>7. QED
      BY <2>5, <2>6
  <1>5. QED
    BY <1>3, <1>4

(* A frame the send thread has still to write gets nearer while the bus    *)
(* stands idle, as the thread is ready and has only so much time; while    *)
(* the bus is in use the thread loses nothing.                             *)
LEMMA LatePasses ==
  ASSUME BusInv, Pass, SendReady \/ retry = 1
  PROVE  Late' <= Late /\ (hw = <<>> => Late' + 1 <= Late)
  <1>1. /\ Mailed \in Nat /\ Mailed' \in Nat /\ Mailed' + 1 >= Mailed
        /\ lag \in Nat /\ lag <= MaxLag /\ MaxLag \in Nat
        /\ hw = <<>> => Mailed = 0 /\ Mailed' = 0
    BY BusPasses, BusNumbers, BusSizes DEF BusInv
  <1>2. CASE retry = 1
    <2>1. /\ Mailed >= ToGo(1, phase) + MaxLag /\ ToGo(1, phase) \in Nat /\ ToGo(1, phase) > 0
          /\ message # <<>>
      BY <1>2, ClocksPass DEF BusInv, PathInv
    <2>2. hw # <<>>
      BY <1>1, <2>1
    <2>3. Late = 0
      BY <1>2 DEF Late
    <2>4. Late' = 0
      <3>1. CASE retry' = 1
        BY <3>1 DEF Late
      <3>2. CASE retry' = 0
        <4>1. \A m, n, c, g \in Nat : m >= g + c /\ g > 0 /\ n + 1 >= m => n + 0 >= c
          OBVIOUS
        <4>2. Mailed' + 0 >= MaxLag
          BY <1>1, <2>1, <4>1, Zenon
        <4>3. lag' = 0
          BY <1>2, <2>1 DEF Pass, SendReady
        <4>4. QED
          BY <4>2, <4>3 DEF Late
      <3>3. QED
        BY <3>1, <3>2, ClocksPass
    <2>5. QED
      BY <2>2, <2>3, <2>4
  <1>3. CASE retry # 1
    <2>1. SendReady /\ lag < MaxLag /\ lag' = lag + 1
      BY <1>3 DEF Pass
    <2>2. retry' = 0 /\ retry = 0
      BY <1>3, ClocksPass DEF BusInv, BusTypeOK
    <2>3. Late' <= Late
      <3>1. \A m, n, j \in Nat : n + 1 >= m => n + (j + 1) >= m + j /\ j + 1 \in Nat
        OBVIOUS
      <3>2. Mailed' + lag' >= Mailed + lag /\ lag' \in Nat
        BY <1>1, <2>1, <3>1, Zenon
      <3>3. QED
        BY <1>1, <2>2, <3>2, LateShrinks
    <2>4. ASSUME hw = <<>> PROVE Late' + 1 <= Late
      <3>1. Mailed = 0 /\ Mailed' = 0
        BY <1>1, <2>4
      <3>2. Late = MaxLag - lag
        BY <1>1, <2>1, <2>2, <3>1 DEF Late
      <3>3. Late' = IF 0 + (lag + 1) >= MaxLag THEN 0 ELSE MaxLag - (lag + 1) - 0
        BY <2>1, <2>2, <3>1 DEF Late
      <3>4. QED
        BY <1>1, <2>1, <3>2, <3>3
    <2>5. QED
      BY <2>3, <2>4
  <1>4. QED
    BY <1>2, <1>3

LEMMA PassKeeps == BusInv /\ Pass => BusInv'
  <1> SUFFICES ASSUME BusInv, Pass PROVE BusInv'
    OBVIOUS
  <1>1. /\ hw' = hw /\ begun' = begun /\ queue' = queue /\ message' = message
        /\ waiting' = waiting /\ sdelay' = Elapse(sdelay, phase) /\ phase' = NextPhase(phase)
    BY BusPasses DEF Pass
  <1>2. BusTypeOK'
    <2>1. sent' \in 0 .. ShortWait
      BY ClocksPass, BusSizes
    <2>2. QED
      BY <1>1, <2>1, ClocksPass, BusPasses DEF BusInv, BusTypeOK
  <1>3. Path' = Path /\ Coming' = Coming /\ OnWire' = OnWire /\ UnderWay("other")' = UnderWay("other")
    BY <1>1 DEF Path, Coming, OnWire, UnderWay
  <1>4. PathInv'
    <2>1. ASSUME retry' = 1 PROVE message' # <<>> /\ Mailed' >= ToGo(1, phase)' + MaxLag
      <3>1. retry = 1
        BY <2>1, ClocksPass DEF BusInv, BusTypeOK
      <3>2. /\ message # <<>> /\ Mailed >= ToGo(1, phase) + MaxLag
            /\ ToGo(1, phase) \in Nat /\ ToGo(1, phase) > 0
            /\ ToGo(1, phase)' = ToGo(1, phase) - 1
        BY <2>1, <3>1, ClocksPass DEF BusInv, PathInv, ToGo
      <3>3. Mailed \in Nat /\ Mailed' \in Nat /\ Mailed' + 1 >= Mailed /\ MaxLag \in Nat
        BY BusPasses, BusNumbers, BusSizes DEF BusInv
      <3>4. \A m, n, g, c \in Nat : m >= g + c /\ n + 1 >= m => n >= (g - 1) + c
        OBVIOUS
      <3>5. Mailed' >= (ToGo(1, phase) - 1) + MaxLag
        BY <3>2, <3>3, <3>4, Zenon
      <3>6. QED
        BY <1>1, <3>2, <3>5
    <2>2. QED
      BY <1>1, <1>3, <2>1, BusPasses DEF BusInv, PathInv
  <1>5. /\ sent \in Nat /\ sent <= ShortWait /\ sent' \in Nat /\ sent' <= ShortWait /\ sent' <= sent + 1
        /\ gap \in Nat /\ gap' \in Nat /\ (gap' = gap + 1 \/ gap' = GapCap)
        /\ left \in Nat /\ left' \in Nat
        /\ begun => left' + 1 = left
    BY ClocksPass, BusPasses, BusNumbers, BusSizes DEF BusInv
  <1>6. WaitInv'
    <2>1. SUFFICES ASSUME waiting
          PROVE  sent' + (IF sdelay' = 0 THEN 0 ELSE ToGo(sdelay', phase')) >= ShortWait
      BY <1>1 DEF WaitInv, ShortWait, ToGo
    <2>2. sent + (IF sdelay = 0 THEN 0 ELSE ToGo(sdelay, phase)) >= ShortWait
      BY <2>1 DEF BusInv, WaitInv
    <2>3. sent' = sent + 1 \/ sent' = ShortWait
      BY <1>5, BusSizes, CountsOn DEF Pass
    <2>4. sdelay \in Nat /\ phase \in 0 .. Grain - 1 /\ ShortWait \in Nat
      BY BusSizes DEF BusInv, BusTypeOK
    <2>5. CASE sdelay = 0
      <3>1. sdelay' = 0 /\ sent + 0 >= ShortWait
        BY <1>1, <2>2, <2>5 DEF Elapse
      <3>2. \A n, m, w \in Nat : n + 0 >= w /\ (m = n + 1 \/ m = w) => m + 0 >= w
        OBVIOUS
      <3>3. sent' + 0 >= ShortWait
        BY <1>5, <2>3, <2>4, <3>1, <3>2, Zenon
      <3>4. QED
        BY <3>1, <3>3
    <2>6. CASE sdelay # 0
      <3>1. /\ ToGo(sdelay, phase) \in Nat /\ ToGo(sdelay, phase) > 0
            /\ ToGo(sdelay', phase') = ToGo(sdelay, phase) - 1
            /\ sdelay' = 0 => ToGo(sdelay, phase) = 1
        <4>1. sdelay > 0
          BY <2>4, <2>6
        <4>2. QED
          BY <1>1, <2>4, <4>1, LeftShrinks
      <3>2. \A n, m, g, w \in Nat : n + g >= w /\ g > 0 /\ (m = n + 1 \/ m = w) => m + (g - 1) >= w
        OBVIOUS
      <3>3. sent' + (ToGo(sdelay, phase) - 1) >= ShortWait
        BY <1>5, <2>2, <2>3, <2>4, <2>6, <3>1, <3>2, Zenon
      <3>4. CASE sdelay' = 0
        <4>1. ToGo(sdelay, phase) - 1 = 0
          BY <3>1, <3>4
        <4>2. QED
          BY <3>3, <3>4, <4>1
      <3>5. CASE sdelay' # 0
        BY <3>1, <3>3, <3>5
      <3>6. QED
        BY <3>4, <3>5
    <2>7. QED
      BY <2>5, <2>6
  <1>7. GapInv'
    <2>1. gap + (IF OnWire THEN left ELSE 0) >= ShortFrame
      BY DEF BusInv, GapInv
    <2>2. SUFFICES gap' + (IF OnWire THEN left' ELSE 0) >= ShortFrame
      BY <1>3 DEF GapInv
    <2>3. GapCap \in Nat /\ GapCap >= ShortFrame /\ ShortFrame \in Nat
      BY BusSizes
    <2>4. CASE OnWire
      <3>1. left' + 1 = left
        BY <1>5, <2>4 DEF OnWire
      <3>2. \A n, m, l, k, c, f \in Nat : n + l >= f /\ k + 1 = l /\ c >= f /\ (m = n + 1 \/ m = c) => m + k >= f
        OBVIOUS
      <3>3. gap' + left' >= ShortFrame
        BY <1>5, <2>1, <2>3, <2>4, <3>1, <3>2, Zenon
      <3>4. QED
        BY <2>4, <3>3
    <2>5. CASE ~OnWire
      <3>1. \A n, m, c, f \in Nat : n + 0 >= f /\ c >= f /\ (m = n + 1 \/ m = c) => m + 0 >= f
        OBVIOUS
      <3>2. gap' + 0 >= ShortFrame
        BY <1>5, <2>1, <2>3, <2>5, <3>1, Zenon
      <3>3. QED
        BY <2>5, <3>2
    <2>6. QED
      BY <2>4, <2>5
  <1>8. ASSUME NEW i \in Coming
        PROVE  /\ Delay(i) \in Nat /\ Delay(i)' \in Nat /\ Served \in Nat /\ Served' \in Nat
               /\ Delay(i)' + 1 + Served <= Delay(i) + Served'
    <2>1. /\ Delay(i) \in Nat /\ Delay(i)' \in Nat /\ Served \in Nat /\ Served' \in Nat
          /\ Late \in Nat
      BY <1>2, <1>4, BusNumbers, BusNumbersNext DEF BusInv
    <2>2. i \in 1 .. Len(Path) /\ i \in Nat /\ i > 0 /\ Len(hw) \in Nat
      BY PathIsSeq DEF BusInv
    <2>3. Delay(i)' = IF i > Len(hw) THEN Late' ELSE 0
      BY <1>1 DEF Delay
    <2>4. CASE i > Len(hw)
      <3>1. SendReady \/ retry = 1
        <4>1. SUFFICES ASSUME message = <<>>, queue = <<>> PROVE FALSE
          BY DEF SendReady, BusInv, BusTypeOK
        <4>2. Path = hw
          BY <4>1, ConcatEmptySeq DEF Path, BusInv, BusTypeOK
        <4>3. QED
          BY <2>2, <2>4, <4>2
      <3>2. Late' <= Late /\ (hw = <<>> => Late' + 1 <= Late) /\ Late' \in Nat
        BY <2>1, <2>3, <2>4, <3>1, LatePasses
      <3>3. Delay(i)' = Late' /\ Delay(i) = Late
        BY <2>3, <2>4 DEF Delay
      <3>4. CASE hw = <<>>
        <4>1. Served' = Served /\ Late' + 1 <= Late
          BY <3>2, <3>4, BusPasses
        <4>2. \A n, m, r \in Nat : m + 1 <= n => m + 1 + r <= n + r
          OBVIOUS
        <4>3. Late' + 1 + Served <= Late + Served
          BY <2>1, <3>2, <4>1, <4>2, Zenon
        <4>4. QED
          BY <2>1, <3>3, <4>1, <4>3
      <3>5. CASE hw # <<>>
        <4>1. Served' = Served + 1 /\ Late' <= Late
          BY <3>2, <3>5, BusPasses
        <4>2. \A n, m, r \in Nat : m <= n => m + 1 + r <= n + (r + 1)
          OBVIOUS
        <4>3. Late' + 1 + Served <= Late + (Served + 1)
          BY <2>1, <3>2, <4>1, <4>2, Zenon
        <4>4. QED
          BY <2>1, <3>3, <4>1, <4>3
      <3>6. QED
        BY <3>4, <3>5
    <2>5. CASE ~(i > Len(hw))
      <3>1. hw # <<>>
        <4>1. Len(<<>>) = 0
          BY EmptySeq
        <4>2. QED
          BY <2>2, <2>5, <4>1
      <3>2. Delay(i)' = 0 /\ Delay(i) = 0 /\ Served' = Served + 1
        BY <2>3, <2>5, <3>1, BusPasses DEF Delay
      <3>3. \A r \in Nat : 0 + 1 + r <= 0 + (r + 1)
        OBVIOUS
      <3>4. 0 + 1 + Served <= 0 + (Served + 1)
        BY <2>1, <3>3, Zenon
      <3>5. QED
        BY <2>1, <3>2, <3>4
    <2>6. QED
      BY <2>4, <2>5
  <1>9. DelayInv'
    <2>1. SUFFICES ASSUME HeldUp + LongFrame <= ShortWait
          PROVE  /\ \A i \in Coming : sent' + Product(i, FrameTime) + Delay(i)' <= Longest + MaxLag + Served'
                 /\ OnWire => sent' + left' <= HeldUp + LongFrame
                 /\ gap' + HeldUp >= sent'
                 /\ Coming # {} => gap' + HeldUp >= ShortWait
                 /\ \A i, j \in Coming : i = j
      BY <1>3 DEF DelayInv, HeldUp, ShortWait, Longest, FrameTime
    <2>2. ASSUME NEW i \in Coming
          PROVE  sent' + Product(i, FrameTime) + Delay(i)' <= Longest + MaxLag + Served'
      <3>1. sent + Product(i, FrameTime) + Delay(i) <= Longest + MaxLag + Served
        BY <2>1, <2>2 DEF BusInv, DelayInv
      <3>2. /\ Delay(i) \in Nat /\ Delay(i)' \in Nat /\ Served \in Nat /\ Served' \in Nat
            /\ Delay(i)' + 1 + Served <= Delay(i) + Served'
        BY <1>8, <2>2
      <3>3. Product(i, FrameTime) \in Nat /\ Longest \in Nat /\ MaxLag \in Nat
        BY <2>2, PathIsSeq, BusSizes, ProductFewer DEF BusInv
      <3>4. \A n, m \in Nat : m <= n + 1 =>
               \A d, e, r, s \in Nat : e + 1 + r <= d + s =>
                 \A q, c \in Nat : n + q + d <= c + r => m + q + e <= c + s
        OBVIOUS
      <3>5. \A d, e, r, s \in Nat : e + 1 + r <= d + s =>
               \A q, c \in Nat : sent + q + d <= c + r => sent' + q + e <= c + s
        BY <1>5, <3>4, Zenon
      <3>6. \A q, c \in Nat : sent + q + Delay(i) <= c + Served => sent' + q + Delay(i)' <= c + Served'
        BY <3>2, <3>5, Zenon
      <3>7. Longest + MaxLag \in Nat
        BY <3>3
      <3>8. QED
        BY <3>1, <3>3, <3>6, <3>7, Zenon
    <2>3. OnWire => sent' + left' <= HeldUp + LongFrame
      <3>1. SUFFICES ASSUME OnWire PROVE sent' + left' <= HeldUp + LongFrame
        OBVIOUS
      <3>2. sent + left <= HeldUp + LongFrame /\ left' + 1 = left
        BY <1>5, <2>1, <3>1 DEF BusInv, DelayInv, OnWire
      <3>3. \A n, m, l, k, h, f \in Nat : n + l <= h + f /\ k + 1 = l /\ m <= n + 1 => m + k <= h + f
        OBVIOUS
      <3>4. HeldUp \in Nat /\ LongFrame \in Nat
        BY BusSizes
      <3>5. QED
        BY <1>5, <3>2, <3>3, <3>4, Zenon
    <2>4. GapCap \in Nat /\ HeldUp \in Nat /\ ShortWait \in Nat /\ ShortWait <= GapCap
      BY BusSizes
    <2>5. gap' + HeldUp >= sent'
      <3>1. gap + HeldUp >= sent
        BY <2>1 DEF BusInv, DelayInv
      <3>2. \A n, m, g, k, h, c, w \in Nat :
               /\ g + h >= n /\ m <= n + 1 /\ m <= w /\ w <= c /\ (k = g + 1 \/ k = c)
               => k + h >= m
        OBVIOUS
      <3>3. QED
        BY <1>5, <2>4, <3>1, <3>2, Zenon
    <2>6. Coming # {} => gap' + HeldUp >= ShortWait
      <3>1. SUFFICES ASSUME Coming # {} PROVE gap' + HeldUp >= ShortWait
        OBVIOUS
      <3>2. gap + HeldUp >= ShortWait
        BY <2>1, <3>1 DEF BusInv, DelayInv
      <3>3. \A g, k, h, c, w \in Nat : g + h >= w /\ w <= c /\ (k = g + 1 \/ k = c) => k + h >= w
        OBVIOUS
      <3>4. QED
        BY <1>5, <2>4, <3>2, <3>3, Zenon
    <2>7. \A i, j \in Coming : i = j
      BY <2>1 DEF BusInv, DelayInv
    <2>8. QED
      BY <2>2, <2>3, <2>5, <2>6, <2>7
  <1>10. QED
    BY <1>2, <1>4, <1>6, <1>7, <1>9 DEF BusInv

LEMMA BusStep == BusInv /\ [BusNext]_spacingVars => BusInv'
  <1> SUFFICES ASSUME BusInv, [BusNext]_spacingVars PROVE BusInv'
    OBVIOUS
  <1>1. CASE BusNext
    BY <1>1, SenderKeeps, SendOtherKeeps, BusGetKeeps, BusWriteKeeps, BeginKeeps, DoneKeeps, PassKeeps DEF BusNext
  <1>2. CASE UNCHANGED spacingVars
    <2>1. UNCHANGED <<phase, waiting, sdelay, sent, queue, message, retry, lag, hw, begun, left, busy, gap>>
      BY <1>2 DEF spacingVars, senderVars, threadVars, wireVars
    <2>2. Path' = Path /\ OnWire' = OnWire /\ Mailed' = Mailed /\ \A i : Delay(i)' = Delay(i)
      BY <2>1 DEF Path, OnWire, Mailed, Delay, Late
    <2>3. UnderWay("other")' <= Others /\ WaitInv' /\ GapInv' /\ DelayInv'
      <3>1. \A i : Delay(i) \in Nat /\ Delay(i) <= Delay(i)
        BY BusNumbers DEF BusInv
      <3>2. QED
        BY <2>1, <2>2, <3>1, SamePathKeeps DEF senderVars
    <2>4. BusTypeOK' /\ PathInv'
      BY <2>1, <2>2, <2>3 DEF BusInv, BusTypeOK, PathInv, ToGo
    <2>5. QED
      BY <2>3, <2>4 DEF BusInv
  <1>3. QED
    BY <1>1, <1>2

LEMMA SpacingKeptOnBus == BusInv => SpacingOnBusUpToDelay
  <1> SUFFICES ASSUME BusInv, hw # <<>>, ~begun, Head(hw) = "own" PROVE gap >= Closest
    BY DEF SpacingOnBusUpToDelay, CanBegin, Requested
  <1>1. gap \in Nat
    BY BusNumbers DEF BusInv
  <1>2. CASE HeldUp + LongFrame <= ShortWait
    <2>1. 1 \in Coming
      <3>1. Path # <<>> /\ Path[1] = "own"
        BY HeadOfPath DEF BusInv
      <3>2. Len(Path) # 0 /\ Len(Path) \in Nat /\ DOMAIN Path = 1 .. Len(Path)
        BY <3>1, PathIsSeq, EmptySeq DEF BusInv
      <3>3. QED
        BY <3>1, <3>2 DEF Coming
    <2>2. gap + HeldUp >= ShortWait
      BY <1>2, <2>1 DEF BusInv, DelayInv
    <2>3. Closest = ShortWait - HeldUp
      BY <1>2 DEF Closest
    <2>4. QED
      BY <1>1, <2>2, <2>3, BusSizes
  <1>3. CASE ~(HeldUp + LongFrame <= ShortWait)
    <2>1. gap + 0 >= ShortFrame
      BY DEF BusInv, GapInv, OnWire
    <2>2. Closest = ShortFrame
      BY <1>3 DEF Closest
    <2>3. QED
      BY <1>1, <2>1, <2>2, BusSizes
  <1>4. QED
    BY <1>2, <1>3

(* On the bus the frames of a sender keep the distance of its shortest     *)
(* wait but for the time the earlier of them was held up: by the frames of *)
(* others, by other nodes, and once by a late send thread, whatever that   *)
(* retried or gave up and however late the sender itself was.  For every   *)
(* interval, unit of time, length of frames, number of mailboxes, of       *)
(* retries and of other frames under way.                                  *)
THEOREM SpacedOnBus == BusSpec => []SpacingOnBusUpToDelay
  <1>1. BusInit => BusInv
    BY BusInitially
  <1>2. BusInv /\ [BusNext]_spacingVars => BusInv'
    BY BusStep
  <1>3. BusInv => SpacingOnBusUpToDelay
    BY SpacingKeptOnBus
  <1>4. QED
    BY <1>1, <1>2, <1>3, PTL DEF BusSpec
=============================================================================
