--------------------------- MODULE CdcStatusProofs ---------------------------
(***************************************************************************)
(* The two threads of CDCStatus.cpp: the status thread first, then the     *)
(* node-status thread.  Each theorem is about one of the two.              *)
(*                                                                         *)
(* The status thread's deadlines, for every base time, hold, fineness of   *)
(* time and lateness of threads.  Everything follows from one inductive    *)
(* invariant: TypeOK, and how far gap and age are ahead of the wait that   *)
(* the thread is in.  A wait that began p units into a tick and has d of n *)
(* ticks left is (n - d) * Grain + phase - p units old, whence the two     *)
(* bounds Short (p = Grain - 1) and Long (p = 0).                          *)
(***************************************************************************)
EXTENDS CdcStatus, NodeStatus, RtxLemmas

TypeOK ==
  /\ phase \in 0 .. Grain - 1
  /\ cdcActive \in BOOLEAN /\ signal \in BOOLEAN /\ resend \in BOOLEAN
  /\ at \in {"call", "send", "hold", "signal_wait"}
  /\ status \in [event : BOOLEAN, active : BOOLEAN]
  /\ delay \in Nat /\ lag \in Nat /\ gap \in Nat /\ age \in Nat
  /\ news \in {"due", "built", "none"}

(* A thread that waits is not late, and none is late beyond MaxLag.        *)
LagInv ==
  /\ lag <= MaxLag
  /\ delay > 0 => lag = 0 /\ at \in {"hold", "signal_wait"}
  /\ at = "hold" => delay <= Hold
  /\ at = "signal_wait" => delay <= Base - Hold

(* At least this long ago the last status frame was sent.                  *)
Floor == (Hold - 1) * Grain
ShortInv ==
  IF at = "hold" /\ delay > 0
  THEN gap + Grain > (Hold - delay) * Grain + phase
  ELSE gap > Floor

(* At most this long ago.                                                  *)
LongInv ==
  /\ at = "hold" /\ delay > 0 => gap <= (Hold - delay) * Grain + phase
  /\ at = "hold" /\ delay = 0 => gap <= Hold * Grain + lag
  /\ at = "signal_wait" /\ delay > 0 => gap <= (Base - delay) * Grain + MaxLag + phase
  /\ at # "hold" /\ delay = 0 => gap <= Base * Grain + MaxLag + lag

(* A command not reported yet is in the frame being sent, or in the one    *)
(* about to be built, or its signal is set and will be found after the     *)
(* hold; and so long ago at most it came.                                  *)
NewsInv ==
  /\ news = "built" => at = "send" /\ age <= Hold * Grain + MaxLag + lag
  /\ news = "due" /\ at = "call" =>
       \/ resend /\ age <= Hold * Grain + MaxLag + lag
       \/ signal /\ age <= lag
  /\ news = "due" /\ at = "send" => signal /\ age <= lag
  /\ news = "due" /\ at = "hold" =>
       /\ signal
       /\ delay > 0 => age <= (Hold - delay) * Grain + MaxLag + phase
       /\ delay = 0 => age <= Hold * Grain + MaxLag + lag
  /\ news = "due" /\ at = "signal_wait" => signal /\ delay = 0 /\ age <= lag

StaleInv ==
  at \in {"send", "hold", "signal_wait"} /\ status.active # cdcActive => news = "due"

IInv == TypeOK /\ LagInv /\ ShortInv /\ LongInv /\ NewsInv /\ StaleInv
-----------------------------------------------------------------------------
(* What a unit of time does to a wait, and the products it takes.          *)
LEMMA Sizes ==
  /\ Grain \in Nat /\ Grain > 0 /\ Hold \in Nat /\ Hold > 0 /\ Base \in Nat /\ Base > Hold
  /\ MaxLag \in Nat
  /\ Hold * Grain \in Nat /\ Base * Grain \in Nat /\ Floor \in Nat
  /\ Hold * Grain = Floor + Grain
  /\ Base * Grain >= Hold * Grain + Grain
  /\ Period = Base * Grain + 2 * MaxLag /\ ReportTime = Hold * Grain + 2 * MaxLag
<1>1. /\ Grain \in Nat /\ Grain > 0 /\ Hold \in Nat /\ Hold > 0 /\ Base \in Nat /\ Base > Hold
      /\ MaxLag \in Nat
  BY GrainAssumption, CdcStatusAssumption
<1>2. Hold * Grain \in Nat /\ Base * Grain \in Nat
  BY <1>1, TicksInUnits
<1>3. Hold * Grain = Floor + Grain /\ Floor \in Nat
  <2>1. PICK k \in Nat : k = Hold - 1
    BY <1>1
  <2>2. Hold = k + 1
    BY <1>1, <2>1
  <2>3. QED
    BY <2>1, <2>2, TicksInUnits DEF Floor
<1>4. Base * Grain >= Hold * Grain + Grain
  <2>1. (Hold + 1) * Grain = Hold * Grain + Grain
    BY <1>1, TicksInUnits
  <2>2. (Hold + 1) * Grain <= Base * Grain
    BY <1>1, TicksOrdered
  <2>3. QED
    BY <2>1, <2>2
<1>5. QED
  BY <1>1, <1>2, <1>3, <1>4 DEF Period, ReportTime

LEMMA WaitAges ==
  ASSUME TypeOK, Pass, delay > 0, NEW n \in Nat, n >= delay
  PROVE  /\ (n - delay) * Grain + phase \in Nat /\ (n - delay') * Grain + phase' \in Nat
         /\ (n - delay') * Grain + phase' = (n - delay) * Grain + phase + 1
         /\ (n - delay') * Grain \in Nat
         /\ delay' = 0 => (n - delay') * Grain + phase' = n * Grain
         /\ delay' \in Nat /\ delay' <= delay /\ phase' \in 0 .. Grain - 1
<1>1. delay \in Nat /\ phase \in 0 .. Grain - 1
  BY DEF TypeOK
<1>2. delay' = Elapse(delay, phase) /\ phase' = NextPhase(phase)
  BY DEF Pass
<1>3. delay' \in Nat /\ delay' <= delay /\ phase' \in 0 .. Grain - 1
  BY <1>1, <1>2, ElapsedGrows
<1>4. (n - delay') * Grain \in Nat
  <2>1. PICK d \in 0 .. n : d = delay'
    BY <1>1, <1>2, <1>3
  <2>2. n - d \in Nat
    OBVIOUS
  <2>3. QED
    BY <2>1, <2>2, TicksInUnits
<1>5. /\ Elapsed(n, delay, phase) \in Nat /\ Elapsed(n, delay', phase') = Elapsed(n, delay, phase) + 1
      /\ delay' = 0 => Elapsed(n, delay, phase) + 1 = n * Grain
  BY <1>1, <1>2, ElapsedGrows
<1>6. QED
  BY <1>3, <1>4, <1>5 DEF Elapsed

(* A wait that begins now: with its time still ahead, or with the part     *)
(* n - d of it behind.                                                     *)
LEMMA WaitBegins ==
  /\ (Hold - Hold) * Grain = 0
  /\ (Base - (Base - Hold)) * Grain = Hold * Grain
<1>1. Hold - Hold = 0 /\ Base - (Base - Hold) = Hold
  BY Sizes
<1>2. 0 * Grain = 0
  BY Sizes
<1>3. QED
  BY <1>1, <1>2
(* During a wait the clock that began with it is behind the wait's end.    *)
LEMMA DuringWait ==
  ASSUME IInv, delay > 0
  PROVE  /\ at = "hold" => /\ (Hold - delay) * Grain + phase \in Nat
                            /\ (Hold - delay) * Grain + phase <= Hold * Grain
         /\ at = "signal_wait" => /\ (Base - delay) * Grain + phase \in Nat
                                   /\ (Base - delay) * Grain + phase <= Base * Grain
<1>1. phase \in 0 .. Grain - 1 /\ delay \in Nat
  BY DEF IInv, TypeOK
<1>2. ASSUME NEW n \in Nat, delay <= n
      PROVE  (n - delay) * Grain + phase \in Nat /\ (n - delay) * Grain + phase <= n * Grain
  <2>1. n * Grain \in Nat /\ Elapsed(n, delay, phase) \in Nat /\ Elapsed(n, delay, phase) < n * Grain
    BY <1>1, <1>2, ElapsedGrows, TicksInUnits
  <2>2. QED
    BY <2>1 DEF Elapsed
<1>3. at = "hold" => delay <= Hold
  BY DEF IInv, LagInv
<1>4. at = "signal_wait" => delay <= Base
  BY <1>1, Sizes DEF IInv, LagInv
<1>5. QED
  BY <1>2, <1>3, <1>4, Sizes
-----------------------------------------------------------------------------
LEMMA InitIInv == Init => IInv
<1> SUFFICES ASSUME Init PROVE IInv
  OBVIOUS
<1>1. TypeOK
  <2>1. phase \in 0 .. Grain - 1 /\ gap \in Nat
    BY Sizes DEF Init
  <2>2. status \in [event : BOOLEAN, active : BOOLEAN]
    BY DEF Init
  <2>3. QED
    BY <2>1, <2>2 DEF Init, TypeOK
<1>2. LagInv /\ NewsInv /\ StaleInv
  BY Sizes DEF Init, LagInv, NewsInv, StaleInv
<1>3. ShortInv /\ LongInv
  BY Sizes DEF Init, ShortInv, LongInv
<1>4. QED
  BY <1>1, <1>2, <1>3 DEF IInv

LEMMA CommandKeeps ==
  ASSUME IInv, NEW active \in BOOLEAN, Command(active)
  PROVE  IInv'
<1>1. CASE BlockedOnSignal
  BY Sizes, <1>1 DEF Command, SetSignal, BlockedOnSignal, IInv, TypeOK, LagInv, ShortInv, LongInv, NewsInv, StaleInv
<1>2. CASE ~BlockedOnSignal
  <2>1. /\ signal' = TRUE /\ news' = "due" /\ cdcActive' = active
        /\ age' = IF news = "due" THEN age ELSE 0
        /\ UNCHANGED <<phase, at, resend, delay, status, lag, gap>>
    BY <1>2 DEF Command, SetSignal
  <2>2. TypeOK' /\ LagInv' /\ StaleInv'
    BY <2>1 DEF IInv, TypeOK, LagInv, StaleInv
  <2>3. ShortInv' /\ LongInv'
    BY <2>1 DEF IInv, ShortInv, LongInv
  <2>4. NewsInv'
    <3>1. CASE news = "due"
      BY <2>1, <3>1, <1>2 DEF IInv, NewsInv, BlockedOnSignal
    <3>2. CASE news # "due" /\ at = "hold" /\ delay > 0
      <4>1. (Hold - delay) * Grain \in Nat /\ phase \in Nat
        <5>1. Hold - delay \in Nat
          BY Sizes, <3>2 DEF IInv, TypeOK, LagInv
        <5>2. QED
          BY Sizes, <5>1 DEF IInv, TypeOK
      <4>2. QED
        BY Sizes, <2>1, <3>2, <4>1 DEF IInv, NewsInv, TypeOK
    <3>3. CASE news # "due" /\ ~(at = "hold" /\ delay > 0)
      BY Sizes, <2>1, <3>3, <1>2 DEF IInv, NewsInv, TypeOK, BlockedOnSignal
    <3>4. QED
      BY <3>1, <3>2, <3>3
  <2>5. QED
    BY <2>2, <2>3, <2>4 DEF IInv
<1>3. QED
  BY <1>1, <1>2

LEMMA CallKeeps == IInv /\ Call => IInv'
  BY Sizes DEF Call, Status, Ready, IInv, TypeOK, LagInv, ShortInv, LongInv, NewsInv, StaleInv

LEMMA SendStatusKeeps == IInv /\ SendStatus => IInv'
  BY Sizes, WaitBegins DEF SendStatus, HoldTime, Ready, IInv, TypeOK, LagInv, ShortInv, LongInv, NewsInv, StaleInv

LEMMA WaitForSignalKeeps ==
  ASSUME IInv, WaitForSignal
  PROVE  IInv'
<1>1. CASE signal
  <2>1. /\ at = "hold" /\ delay = 0 /\ at' = "call" /\ signal' = FALSE /\ resend' = TRUE
        /\ UNCHANGED <<phase, cdcActive, status, gap, news, age, delay, lag>>
    BY <1>1 DEF WaitForSignal, Ready, IInv, TypeOK
  <2>2. TypeOK' /\ StaleInv'
    BY <2>1 DEF IInv, TypeOK, StaleInv
  <2>6. LagInv'
    BY <2>1 DEF IInv, LagInv
  <2>7. ShortInv'
    BY <2>1 DEF IInv, ShortInv
  <2>3. NewsInv'
    BY <2>1 DEF IInv, NewsInv
  <2>4. LongInv'
    BY Sizes, <2>1 DEF IInv, LongInv, TypeOK
  <2>5. QED
    BY <2>2, <2>3, <2>4, <2>6, <2>7 DEF IInv
<1>2. CASE ~signal
  <2>1. /\ at = "hold" /\ delay = 0 /\ at' = "signal_wait" /\ delay' = Base - Hold /\ lag' = 0
        /\ resend' = FALSE /\ signal' = FALSE /\ news \notin {"due", "built"}
        /\ UNCHANGED <<phase, cdcActive, status, gap, news, age>>
    <3>1. /\ at = "hold" /\ delay = 0 /\ at' = "signal_wait" /\ delay' = Base - Hold /\ lag' = 0
          /\ resend' = signal /\ signal' = FALSE
          /\ UNCHANGED <<phase, cdcActive, status, gap, news, age>>
      BY <1>2 DEF WaitForSignal, RestOfBase, Ready
    <3>2. signal = FALSE
      BY <1>2 DEF IInv, TypeOK
    <3>3. news \notin {"due", "built"}
      BY <1>2, <3>1 DEF IInv, NewsInv
    <3>4. QED
      BY <3>1, <3>2, <3>3
  <2>2. delay' \in Nat /\ delay' > 0
    BY Sizes, <2>1
  <2>3. TypeOK' /\ NewsInv'
    BY <2>1, <2>2 DEF IInv, TypeOK, NewsInv
  <2>7. LagInv' /\ StaleInv'
    BY Sizes, <2>1, <2>2 DEF IInv, TypeOK, LagInv, StaleInv
  <2>4. ShortInv'
    BY <2>1 DEF IInv, ShortInv
  <2>5. LongInv'
    <3>1. gap <= Hold * Grain + lag /\ lag <= MaxLag
      BY <2>1 DEF IInv, LongInv, LagInv
    <3>2. (Base - delay') * Grain = Hold * Grain
      BY <2>1, WaitBegins
    <3>3. gap <= (Base - delay') * Grain + MaxLag + phase
      BY Sizes, <3>1, <3>2 DEF IInv, TypeOK
    <3>4. QED
      BY <2>1, <2>2, <3>3 DEF LongInv
  <2>6. QED
    BY <2>3, <2>4, <2>5, <2>7 DEF IInv
<1>3. QED
  BY <1>1, <1>2 DEF IInv, TypeOK

LEMMA TimeoutKeeps == IInv /\ Timeout => IInv'
  BY Sizes DEF Timeout, Ready, IInv, TypeOK, LagInv, ShortInv, LongInv, NewsInv, StaleInv
(* A unit of time brings the thread's wait and the clocks on together, or, *)
(* with the wait over, its lateness and the clocks.                        *)
LEMMA PassKeeps ==
  ASSUME IInv, Pass
  PROVE  IInv'
<1>1. /\ UNCHANGED <<cdcActive, signal, at, resend, status, news>>
      /\ gap' = CountTo(Period + 1, gap) /\ delay' = Elapse(delay, phase)
      /\ age' = IF news = "none" THEN 0 ELSE CountTo(ReportTime + 1, age)
      /\ phase' = NextPhase(phase)
      /\ lag' = IF delay = 0 THEN lag + 1 ELSE 0
      /\ delay = 0 => lag < MaxLag
  BY DEF Pass, Ready
<1>2. TypeOK /\ LagInv /\ ShortInv /\ LongInv /\ NewsInv /\ StaleInv
  BY DEF IInv
<1>3. phase' \in 0 .. Grain - 1
  BY <1>1, <1>2, Sizes DEF TypeOK, NextPhase
<1>4. gap <= Period /\ gap' = gap + 1
  <2>1. CASE at = "hold" /\ delay > 0
    <3>1. (Hold - delay) * Grain + phase <= Hold * Grain
      BY <1>2, <2>1, DuringWait DEF IInv
    <3>2. QED
      BY <1>1, <1>2, <2>1, <3>1, Sizes DEF LongInv, CountTo, TypeOK
  <2>2. CASE at = "signal_wait" /\ delay > 0
    <3>1. (Base - delay) * Grain + phase <= Base * Grain
      BY <1>2, <2>2, DuringWait DEF IInv
    <3>2. QED
      BY <1>1, <1>2, <2>2, <3>1, Sizes DEF LongInv, CountTo, TypeOK
  <2>3. CASE delay = 0
    BY <1>1, <1>2, <2>3, Sizes DEF LongInv, LagInv, CountTo, TypeOK
  <2>4. QED
    BY <1>2, <2>1, <2>2, <2>3 DEF LagInv, TypeOK
<1>5. news # "none" => age <= ReportTime /\ age' = age + 1
  <2>1. CASE at = "hold" /\ delay > 0
    <3>1. (Hold - delay) * Grain + phase <= Hold * Grain
      BY <1>2, <2>1, DuringWait DEF IInv
    <3>2. QED
      BY <1>1, <1>2, <2>1, <3>1, Sizes DEF NewsInv, CountTo, TypeOK
  <2>2. CASE ~(at = "hold" /\ delay > 0)
    BY <1>1, <1>2, <2>2, Sizes DEF NewsInv, LagInv, CountTo, TypeOK
  <2>3. QED
    BY <2>1, <2>2
<1>6. CASE delay = 0
  <2>1. delay' = 0 /\ lag' = lag + 1
    BY <1>1, <1>6 DEF Elapse
  <2>2. TypeOK' /\ LagInv' /\ StaleInv'
    BY <1>1, <1>2, <1>3, <1>4, <1>5, <1>6, <2>1, Sizes DEF TypeOK, LagInv, StaleInv
  <2>3. ShortInv' /\ LongInv'
    BY <1>1, <1>2, <1>4, <1>6, <2>1, Sizes DEF ShortInv, LongInv, TypeOK
  <2>4. NewsInv'
    BY <1>1, <1>2, <1>5, <1>6, <2>1, Sizes DEF NewsInv, TypeOK
  <2>5. QED
    BY <2>2, <2>3, <2>4 DEF IInv
<1>7. CASE delay > 0
  <2>1. lag = 0 /\ lag' = 0 /\ at \in {"hold", "signal_wait"}
    BY <1>1, <1>2, <1>7 DEF LagInv
  <2>2. CASE at = "hold"
    <3>1. delay <= Hold
      BY <1>2, <2>2 DEF LagInv
    <3> DEFINE old == (Hold - delay) * Grain + phase
               new == (Hold - delay') * Grain + phase'
    <3>2. /\ old \in Nat /\ new = old + 1 /\ (delay' = 0 => new = Hold * Grain)
          /\ delay' \in Nat /\ delay' <= delay
      BY <1>2, <1>7, <3>1, WaitAges, Sizes
    <3>3. TypeOK' /\ LagInv' /\ StaleInv'
      BY <1>1, <1>2, <1>3, <1>4, <1>5, <2>1, <2>2, <3>1, <3>2, Sizes DEF TypeOK, LagInv, StaleInv
    <3>4. gap + Grain > old /\ gap <= old
      BY <1>2, <1>7, <2>2 DEF ShortInv, LongInv
    <3>5. gap' + Grain > new /\ gap' <= new
      BY <1>2, <1>4, <3>2, <3>4, Sizes DEF TypeOK
    <3>6. ShortInv' /\ LongInv'
      BY <1>1, <1>2, <1>4, <2>1, <2>2, <3>2, <3>5, Sizes DEF ShortInv, LongInv, TypeOK
    <3>7. NewsInv'
      <4>1. news = "due" => signal /\ age <= old + MaxLag
        BY <1>2, <1>7, <2>2, <3>2, Sizes DEF NewsInv, TypeOK
      <4>2. news = "due" => signal' /\ age' <= new + MaxLag
        BY <1>1, <1>2, <1>5, <3>2, <4>1, Sizes DEF TypeOK
      <4>3. news # "built"
        BY <1>2, <2>2 DEF NewsInv
      <4>4. age' <= new + MaxLag => age' <= (Hold - delay') * Grain + MaxLag + phase'
        BY <1>2, <1>3, <1>5, <3>1, <3>2, Sizes, WaitAges, <1>7
      <4>5. QED
        BY <1>1, <2>1, <2>2, <3>2, <4>2, <4>3, <4>4, Sizes DEF NewsInv
    <3>8. QED
      BY <3>3, <3>6, <3>7 DEF IInv
  <2>3. CASE at = "signal_wait"
    <3>1. delay <= Base
      BY <1>2, <2>3, Sizes DEF LagInv, TypeOK
    <3> DEFINE old == (Base - delay) * Grain + phase
               new == (Base - delay') * Grain + phase'
    <3>2. /\ old \in Nat /\ new = old + 1 /\ (delay' = 0 => new = Base * Grain)
          /\ delay' \in Nat /\ delay' <= delay
      BY <1>2, <1>7, <3>1, WaitAges, Sizes
    <3>3. TypeOK' /\ LagInv' /\ StaleInv'
      BY <1>1, <1>2, <1>3, <1>4, <1>5, <2>1, <2>3, <3>1, <3>2, Sizes DEF TypeOK, LagInv, StaleInv
    <3>4. gap <= old + MaxLag
      BY <1>2, <1>7, <2>3, <3>2, Sizes DEF LongInv, TypeOK
    <3>5. gap' <= new + MaxLag
      BY <1>2, <1>4, <3>2, <3>4, Sizes DEF TypeOK
    <3>6. ShortInv'
      BY <1>1, <1>2, <1>4, <2>3, Sizes DEF ShortInv, TypeOK
    <3>9. LongInv'
      <4>1. delay' = 0 => gap' <= Base * Grain + MaxLag + lag'
        BY <2>1, <3>2, <3>5, Sizes
      <4>2. gap' <= (Base - delay') * Grain + MaxLag + phase'
        <5>2. (Base - delay') * Grain \in Nat /\ phase' \in Nat
          BY <1>2, <1>3, <1>7, <3>1, WaitAges, Sizes
        <5>3. QED
          BY <1>2, <1>4, <3>5, <5>2, Sizes DEF TypeOK
      <4>3. QED
        BY <1>1, <2>3, <4>1, <4>2 DEF LongInv
    <3>7. NewsInv'
      BY <1>1, <1>2, <1>7, <2>1, <2>3 DEF NewsInv
    <3>8. QED
      BY <3>3, <3>6, <3>7, <3>9 DEF IInv
  <2>4. QED
    BY <2>1, <2>2, <2>3
<1>8. QED
  BY <1>2, <1>6, <1>7 DEF TypeOK

LEMMA IInvStep == IInv /\ [Next]_vars => IInv'
<1> SUFFICES ASSUME IInv, [Next]_vars PROVE IInv'
  OBVIOUS
<1>1. CASE UNCHANGED vars
  BY <1>1 DEF vars, IInv, TypeOK, LagInv, ShortInv, LongInv, NewsInv, StaleInv
<1>2. CASE \E active \in BOOLEAN : Command(active)
  BY <1>2, CommandKeeps
<1>3. CASE StatusThread
  BY <1>3, CallKeeps, SendStatusKeeps, WaitForSignalKeeps, TimeoutKeeps DEF StatusThread
<1>4. CASE Pass
  BY <1>4, PassKeeps
<1>5. QED
  BY <1>1, <1>2, <1>3, <1>4 DEF Next

LEMMA Invariance == Spec => []IInv
  BY InitIInv, IInvStep, PTL DEF Spec
-----------------------------------------------------------------------------
(* Types hold in every reachable state.                                    *)
THEOREM TypeCorrect == Spec => []TypeOK
<1>1. IInv => TypeOK
  BY DEF IInv
<1>2. QED
  BY <1>1, Invariance, PTL

(* The status goes out at the base time, and at most twice a thread's      *)
(* lateness after it, whatever commands come (CDCStatus::run).             *)
THEOREM BaseTimeKept == Spec => []SentAtBaseTime
<1>1. IInv => SentAtBaseTime
  <2> SUFFICES ASSUME IInv PROVE gap <= Period
    BY DEF SentAtBaseTime
  <2>1. CASE delay > 0 /\ at = "hold"
    BY <2>1, DuringWait, Sizes DEF IInv, LongInv, TypeOK
  <2>2. CASE delay > 0 /\ at = "signal_wait"
    BY <2>2, DuringWait, Sizes DEF IInv, LongInv, TypeOK
  <2>3. CASE delay = 0
    BY <2>3, Sizes DEF IInv, LongInv, LagInv, TypeOK
  <2>4. QED
    BY <2>1, <2>2, <2>3 DEF IInv, LagInv, TypeOK
<1>2. QED
  BY <1>1, Invariance, PTL

(* Two status frames are never less than the hold apart, but for the part  *)
(* of a tick by which a wait may be short (Thread::wait(50) in run).       *)
THEOREM BusNotFlooded == Spec => []NeverFlooded
<1>1. IInv => NeverFlooded
  BY DEF IInv, ShortInv, NeverFlooded, Floor
<1>2. QED
  BY <1>1, Invariance, PTL

(* A command's report is out within the hold and twice a thread's          *)
(* lateness, at whatever point of the loop the command comes.              *)
THEOREM CommandsReported == Spec => []CommandReported
<1>1. IInv => CommandReported
  <2> SUFFICES ASSUME IInv, news # "none" PROVE age <= ReportTime
    BY DEF CommandReported
  <2>1. CASE at = "hold" /\ delay > 0
    BY <2>1, DuringWait, Sizes DEF IInv, NewsInv, TypeOK
  <2>2. CASE ~(at = "hold" /\ delay > 0)
    BY <2>2, Sizes DEF IInv, NewsInv, LagInv, TypeOK
  <2>3. QED
    BY <2>1, <2>2
<1>2. QED
  BY <1>1, Invariance, PTL

(* A status that went stale between its reading and its sending is always  *)
(* followed by the report of the command that made it so.                  *)
THEOREM NoStatusStaysStale == Spec => []StaleStatusIsCorrected
<1>1. IInv => StaleStatusIsCorrected
  BY DEF IInv, StaleInv, StaleStatusIsCorrected
<1>2. QED
  BY <1>1, Invariance, PTL
-----------------------------------------------------------------------------
(***************************************************************************)
(* The node-status thread, for every interval, guard, number of frames and *)
(* lateness.                                                               *)
(*                                                                         *)
(* The inductive invariant NodeInv says where a wait can be (NodePlaces),  *)
(* how old the last frame is within one (NodeGaps), who waits for an       *)
(* answer (NodeOwed) and until when at most (NodeAges).  The last is a     *)
(* variant: TimeLeft counts what is left of the sequence in hand, a whole  *)
(* sequence for each kind that may go out before the watched one, and its  *)
(* seam; every step of the thread keeps it from growing, every unit of     *)
(* time takes one off, and a new poll finds it within AnswerTime.          *)
(***************************************************************************)
(* Waits in units; the longest a sequence holds the thread is Whole.       *)
Ticks(n) == n * Grain
Pace == Ticks(Interval) + MaxLag
GuardTime == Ticks(Guard)
Whole == GuardTime + MaxLag + (Frames - 1) * Pace

NodeSizes ==
  /\ Interval \in Nat /\ Guard \in Nat /\ Frames \in Nat /\ Frames > 0 /\ MaxLag \in Nat
  /\ Wrap \in Nat /\ Wrap > 0 /\ Guard <= Interval
  /\ Ticks(Interval) \in Nat /\ GuardTime \in Nat /\ GuardTime <= Ticks(Interval)
  /\ Pace \in Nat /\ Whole \in Nat /\ SequenceTime = Whole /\ Whole >= GuardTime + MaxLag

LEMMA NodeSizesHold == NodeSizes
  <1>1. /\ Interval \in Nat /\ Guard \in Nat /\ Frames \in Nat /\ Frames > 0 /\ MaxLag \in Nat
        /\ Wrap \in Nat /\ Guard * Grain < Wrap /\ Guard <= Interval
    BY NodeStatusAssumption
  <1>2. Ticks(Interval) \in Nat /\ GuardTime \in Nat /\ GuardTime <= Ticks(Interval)
    BY <1>1, TicksInUnits, TicksOrdered DEF GuardTime, Ticks
  <1>3. Pace \in Nat /\ (Frames - 1) \in Nat
    BY <1>1, <1>2 DEF Pace
  <1>4. (Frames - 1) * Pace \in Nat
    BY <1>3, ProductFewer DEF Product
  <1>5. SequenceTime = Whole
    <2>1. ASSUME NEW f \in Nat, NEW i \in Nat, NEW g \in Nat, NEW l \in Nat, NEW q \in Nat
          PROVE  (q + f * i) * g + (f + 1) * l = q * g + l + f * (i * g + l)
      BY SMT
    <2>2. (Guard + (Frames - 1) * Interval) * Grain + ((Frames - 1) + 1) * MaxLag
            = Guard * Grain + MaxLag + (Frames - 1) * (Interval * Grain + MaxLag)
      BY <1>1, <1>3, <2>1, GrainIsPositive
    <2>3. (Frames - 1) + 1 = Frames
      BY <1>1
    <2>4. QED
      BY <2>2, <2>3 DEF SequenceTime, Whole, GuardTime, Pace, Ticks
  <1>6. Whole \in Nat /\ Whole >= GuardTime + MaxLag
    BY <1>1, <1>2, <1>4 DEF Whole
  <1>7. Wrap > 0
    BY <1>1, <1>2 DEF GuardTime, Ticks
  <1>8. QED
    BY <1>1, <1>2, <1>3, <1>5, <1>6, <1>7 DEF NodeSizes

NodeTypeOK ==
  /\ phase \in 0 .. Grain - 1 /\ since \in Nat
  /\ events \subseteq Kinds /\ batch \subseteq Kinds
  /\ at \in {"signal_wait", "next", "send", "stamp"}
  /\ sequence \in Kinds /\ watched \in Kinds
  /\ frame \in Nat /\ delay \in Nat
  /\ lag \in Nat /\ lag <= MaxLag
  /\ gap \in Nat /\ gap <= GapCap /\ age \in Nat

NodeFlags ==
  /\ sentAnything \in BOOLEAN /\ owed \in BOOLEAN
  /\ ~owed => age = 0

(* Waits and lateness, place by place.                                     *)
NodePlaces ==
  /\ delay > 0 => at = "send"
  /\ ~NodeReady => lag = 0
  /\ at = "signal_wait" => batch = {} /\ events = {}
  /\ at \in {"signal_wait", "next"} => frame = 0
  /\ at = "send" => frame < Frames
  /\ at = "stamp" => frame = Frames
  /\ at = "send" => delay <= (IF frame = 0 THEN Guard ELSE Interval)

(* The time since a wait of n ticks began, by the frame before it.         *)
LongEnough(n) == IF delay = 0 THEN gap + Grain > Ticks(n) ELSE gap + ToGo(delay, phase) + Grain > Ticks(n)

(* In a wait, the last frame is as old as the wait so far, and when none   *)
(* is under way, as old as the clock of the seam says.                     *)
NodeGaps ==
  /\ at \in {"signal_wait", "next"} =>
       IF sentAnything THEN since <= gap \/ gap = GapCap ELSE gap = GapCap
  /\ at = "send" /\ frame = 0 => LongEnough(Guard)
  /\ at = "send" /\ frame > 0 => LongEnough(Interval)
  /\ at = "send" /\ frame > 0 =>
       IF delay = 0 THEN gap <= Ticks(Interval) + lag ELSE gap <= Elapsed(Interval, delay, phase)

(* The order in which a batch is answered, and the sequences that can go   *)
(* out before the watched one: those of the batch in hand, and if it is    *)
(* not among them, those that come first in the next.                      *)
Rank(k) == IF k = "powerdown" THEN 0 ELSE IF k = "active" THEN 1 ELSE 2
In(k) == IF k \in batch THEN 1 ELSE 0
Ahead ==
  IF watched \in batch
  THEN (IF watched = "powerdown" THEN 0 ELSE In("powerdown")) + (IF watched = "poweron" THEN In("active") ELSE 0)
  ELSE In("powerdown") + In("active") + In("poweron") + Rank(watched)

(* Who waits for an answer is in the batch in hand or in the flags, or the *)
(* answer is about to begin; what is left of a batch ranks higher.         *)
Answering == at = "send" /\ frame = 0 /\ sequence = watched
NodeOwed ==
  /\ owed => watched \in batch \/ watched \in events \/ Answering
  /\ at = "send" => \A k \in batch : Rank(k) > Rank(sequence)

(* Units until the thread next sends or moves on, at most; until it answers. *)
WaitLeft == IF delay > 0 THEN ToGo(delay, phase) + MaxLag ELSE MaxLag - lag
TimeLeft ==
  IF Answering THEN WaitLeft
  ELSE WaitLeft + (IF at = "send" THEN Product(Frames - 1 - frame, Pace) ELSE 0)
       + Product(Ahead, Whole) + GuardTime + MaxLag
NodeAges == owed => age + TimeLeft <= AnswerTime

NodeInv == NodeTypeOK /\ NodeFlags /\ NodePlaces /\ NodeGaps /\ NodeOwed /\ NodeAges
-----------------------------------------------------------------------------
LEMMA NodeBegins == ASSUME NodeSizes, NodeInit PROVE NodeInv
  <1>1. GapCap \in Nat /\ GapCap = Ticks(Interval) + MaxLag + 1
    BY DEF NodeSizes, GapCap, Ticks
  <1>2. NodeTypeOK
    BY <1>1, GrainIsPositive DEF NodeSizes, NodeInit, NodeTypeOK, Kinds
  <1>3. NodeFlags /\ NodeOwed /\ NodeAges
    BY DEF NodeInit, NodeFlags, NodeOwed, NodeAges
  <1>4. NodePlaces
    BY DEF NodeInit, NodePlaces
  <1>5. NodeGaps
    BY DEF NodeInit, NodeGaps
  <1>6. QED
    BY <1>2, <1>3, <1>4, <1>5 DEF NodeInv

(* Types, flags and places, action by action. *)
LEMMA PollPlaces ==
  ASSUME NodeTypeOK, NodeFlags, NodePlaces, NEW k \in Kinds, Poll(k)
  PROVE  (NodeTypeOK /\ NodeFlags /\ NodePlaces)'
  <1>1. CASE at = "signal_wait"
    <2>1. UNCHANGED <<phase, since, sentAnything, sequence, frame, delay, lag, gap, watched, age, events>>
          /\ batch' = {k} /\ at' = "next" /\ owed' = (owed \/ k = watched)
      BY <1>1 DEF Poll, SetNodeSignal
    <2>2. NodeTypeOK'
      BY <2>1 DEF NodeTypeOK, GapCap
    <2>3. NodeFlags'
      BY <2>1 DEF NodeFlags
    <2>4. NodePlaces'
      BY <1>1, <2>1 DEF NodePlaces, NodeReady
    <2>5. QED
      BY <2>2, <2>3, <2>4
  <1>2. CASE at # "signal_wait"
    <2>1. UNCHANGED <<phase, since, sentAnything, sequence, frame, delay, lag, gap, watched, age, batch, at>>
          /\ events' = events \cup {k} /\ owed' = (owed \/ k = watched)
      BY <1>2 DEF Poll, SetNodeSignal
    <2>2. NodeTypeOK'
      BY <2>1 DEF NodeTypeOK, GapCap
    <2>3. NodeFlags'
      BY <2>1 DEF NodeFlags
    <2>4. NodePlaces'
      BY <1>2, <2>1 DEF NodePlaces, NodeReady
    <2>5. QED
      BY <2>2, <2>3, <2>4
  <1>3. QED
    BY <1>1, <1>2

LEMMA FetchPlaces ==
  ASSUME NodeSizes, NodeTypeOK, NodeFlags, NodePlaces, Fetch
  PROVE  (NodeTypeOK /\ NodeFlags /\ NodePlaces)'
  <1>1. UNCHANGED <<phase, since, sentAnything, sequence, frame, delay, gap, watched, owed, age>>
        /\ events' = {} /\ at = "next" /\ delay = 0
        /\ IF events = {} THEN at' = "signal_wait" /\ batch' = {} /\ lag' = 0
                         ELSE at' = "next" /\ batch' = events /\ lag' = lag
    BY DEF Fetch, NodeReady
  <1>2. NodeTypeOK'
    BY <1>1 DEF NodeTypeOK, GapCap, NodeSizes
  <1>3. NodeFlags'
    BY <1>1 DEF NodeFlags
  <1>4. NodePlaces'
    BY <1>1 DEF NodePlaces, NodeReady
  <1>5. QED
    BY <1>2, <1>3, <1>4

(* The seam is a delay within the guard. *)
LEMMA SeamWithinGuard ==
  ASSUME NodeSizes, NodeTypeOK
  PROVE  Seam \in Nat /\ Seam <= Guard
         /\ (Seam > 0 => sentAnything /\ Seam = Guard - (since \div Grain))
         /\ (Seam = 0 /\ sentAnything => Guard <= since \div Grain)
  <1>1. since \div Grain \in Nat
    BY WholeTicks DEF NodeTypeOK
  <1>2. CASE sentAnything /\ since \div Grain < Guard
    BY <1>1, <1>2 DEF Seam, NodeSizes
  <1>3. CASE ~(sentAnything /\ since \div Grain < Guard)
    <2>1. Seam = 0
      BY <1>3 DEF Seam
    <2>2. QED
      BY <1>1, <1>3, <2>1 DEF NodeSizes
  <1>4. QED
    BY <1>2, <1>3

LEMMA FirstOfBatch ==
  ASSUME NEW sig \in SUBSET Kinds, sig # {}
  PROVE  First(sig) \in sig /\ \A k \in sig \ {First(sig)} : Rank(k) > Rank(First(sig))
  <1>1. Rank("powerdown") = 0 /\ Rank("active") = 1 /\ Rank("poweron") = 2
    BY DEF Rank
  <1>2. \A k \in sig : k = "powerdown" \/ k = "active" \/ k = "poweron"
    BY DEF Kinds
  <1>3. CASE "powerdown" \in sig
    <2>1. First(sig) = "powerdown"
      BY <1>3 DEF First
    <2>2. \A k \in sig \ {"powerdown"} : k = "active" \/ k = "poweron"
      BY <1>2
    <2>3. QED
      BY <1>1, <1>3, <2>1, <2>2
  <1>4. CASE "powerdown" \notin sig /\ "active" \in sig
    <2>1. First(sig) = "active"
      BY <1>4 DEF First
    <2>2. \A k \in sig \ {"active"} : k = "poweron"
      BY <1>2, <1>4
    <2>3. QED
      BY <1>1, <1>4, <2>1, <2>2
  <1>5. CASE "powerdown" \notin sig /\ "active" \notin sig
    <2>1. First(sig) = "poweron" /\ \A k \in sig : k = "poweron"
      BY <1>2, <1>5 DEF First
    <2>2. QED
      BY <2>1
  <1>6. QED
    BY <1>3, <1>4, <1>5

LEMMA StartPlaces ==
  ASSUME NodeSizes, NodeTypeOK, NodeFlags, NodePlaces, StartSequence
  PROVE  (NodeTypeOK /\ NodeFlags /\ NodePlaces)'
  <1>1. UNCHANGED <<phase, since, sentAnything, events, gap, watched, owed, age>>
        /\ frame' = 0 /\ at' = "send" /\ at = "next" /\ delay' = Seam /\ delay = 0
        /\ sequence' = First(batch) /\ batch' = batch \ {First(batch)} /\ batch # {}
        /\ lag' = IF delay' > 0 THEN 0 ELSE lag
    BY DEF StartSequence, Rest, NodeReady
  <1>2. Seam \in Nat /\ Seam <= Guard /\ First(batch) \in Kinds
    BY <1>1, SeamWithinGuard, FirstOfBatch DEF NodeTypeOK
  <1>3. NodeTypeOK'
    BY <1>1, <1>2 DEF NodeTypeOK, GapCap, NodeSizes
  <1>4. NodeFlags'
    BY <1>1 DEF NodeFlags
  <1>5. NodePlaces'
    BY <1>1, <1>2 DEF NodePlaces, NodeReady, NodeSizes
  <1>6. QED
    BY <1>3, <1>4, <1>5

LEMMA SendPlaces ==
  ASSUME NodeSizes, NodeTypeOK, NodeFlags, NodePlaces, SendFrame
  PROVE  (NodeTypeOK /\ NodeFlags /\ NodePlaces)'
  <1>1. UNCHANGED <<phase, since, sentAnything, events, batch, sequence, watched>>
        /\ at = "send" /\ delay = 0 /\ frame' = frame + 1 /\ gap' = 0
        /\ delay' = (IF frame < Frames - 1 THEN Interval ELSE 0)
        /\ at' = (IF frame' = Frames THEN "stamp" ELSE "send")
        /\ lag' = (IF delay' > 0 THEN 0 ELSE lag)
    BY DEF SendFrame, NodeReady, PauseAfter
  <1>2. frame \in Nat /\ frame < Frames
    BY <1>1 DEF NodePlaces, NodeTypeOK
  <1>3. age' \in Nat
    BY DEF SendFrame, NodeTypeOK
  <1>4. NodeTypeOK'
    <2>1. GapCap \in Nat /\ GapCap >= 0 /\ GapCap' = GapCap
      BY DEF GapCap, NodeSizes, Ticks
    <2>2. delay' \in Nat /\ lag' \in Nat /\ lag' <= MaxLag /\ frame' \in Nat
      BY <1>1, <1>2 DEF NodeTypeOK, NodeSizes
    <2>3. QED
      BY <1>1, <1>3, <2>1, <2>2 DEF NodeTypeOK
  <1>5. NodeFlags'
    BY DEF SendFrame, NodeFlags
  <1>6. NodePlaces'
    BY <1>1, <1>2 DEF NodePlaces, NodeReady, NodeSizes
  <1>7. QED
    BY <1>4, <1>5, <1>6

LEMMA StampPlaces ==
  ASSUME NodeSizes, NodeTypeOK, NodeFlags, NodePlaces, Stamp
  PROVE  (NodeTypeOK /\ NodeFlags /\ NodePlaces)'
  <1>1. UNCHANGED <<phase, events, batch, sequence, delay, lag, gap, watched, owed, age>>
        /\ at = "stamp" /\ at' = "next" /\ frame' = 0 /\ since' = 0 /\ sentAnything' = TRUE
    BY DEF Stamp
  <1>2. NodeTypeOK'
    BY <1>1 DEF NodeTypeOK, GapCap, NodeSizes
  <1>3. NodeFlags'
    BY <1>1 DEF NodeFlags
  <1>4. NodePlaces'
    BY <1>1 DEF NodePlaces, NodeReady
  <1>5. QED
    BY <1>2, <1>3, <1>4

(* One unit of time: what it does to the wait and to the counters. *)
LEMMA PassCounts ==
  ASSUME NodeSizes, NodeTypeOK, NodePlaces, NodePass
  PROVE  /\ phase' \in 0 .. Grain - 1
         /\ delay = 0 => delay' = 0
         /\ delay > 0 => /\ delay' \in Nat /\ delay' <= delay
                         /\ ToGo(delay, phase) \in Nat
                         /\ ToGo(delay', phase') = ToGo(delay, phase) - 1
                         /\ delay' = 0 => ToGo(delay, phase) = 1
         /\ GapCap = Ticks(Interval) + MaxLag + 1 /\ gap' \in Nat
         /\ (gap' = gap + 1 /\ gap' <= GapCap) \/ (gap = GapCap /\ gap' = GapCap)
         /\ since' \in Nat /\ (sentAnything => since' <= since + 1)
         /\ lag' = (IF NodeReady THEN lag + 1 ELSE 0) /\ lag' \in Nat /\ lag' <= MaxLag
  <1>1. phase' = NextPhase(phase) /\ delay' = Elapse(delay, phase) /\ phase \in 0 .. Grain - 1
    BY DEF NodePass, NodeTypeOK
  <1>2. phase' \in 0 .. Grain - 1 /\ (delay = 0 => delay' = 0)
    BY <1>1, NoWaitStaysOver
  <1>3. ASSUME delay > 0
        PROVE  /\ delay' \in Nat /\ delay' <= delay
               /\ ToGo(delay, phase) \in Nat
               /\ ToGo(delay', phase') = ToGo(delay, phase) - 1
               /\ delay' = 0 => ToGo(delay, phase) = 1
    <2>1. delay \in Nat
      BY DEF NodeTypeOK
    <2>2. /\ ToGo(delay, phase) \in Nat
          /\ ToGo(Elapse(delay, phase), NextPhase(phase)) = ToGo(delay, phase) - 1
          /\ Elapse(delay, phase) = 0 => ToGo(delay, phase) = 1
      BY <1>1, <1>3, <2>1, LeftShrinks
    <2>3. delay' \in Nat /\ delay' <= delay
      BY <1>1, <1>3, <2>1 DEF Elapse
    <2>4. QED
      BY <1>1, <2>2, <2>3
  <1>4. GapCap = Ticks(Interval) + MaxLag + 1 /\ GapCap \in Nat
    BY DEF GapCap, NodeSizes, Ticks
  <1>5. gap' \in Nat /\ ((gap' = gap + 1 /\ gap' <= GapCap) \/ (gap = GapCap /\ gap' = GapCap))
    BY <1>4 DEF NodePass, CountTo, NodeTypeOK
  <1>6. since' \in Nat /\ (sentAnything => since' <= since + 1)
    <2>1. since + 1 \in Nat /\ Wrap \in Nat /\ Wrap > 0
      BY DEF NodeTypeOK, NodeSizes
    <2>2. (since + 1) % Wrap \in 0 .. Wrap - 1 /\ (since + 1) % Wrap <= since + 1
      BY <2>1, ClockWraps
    <2>3. since' = IF sentAnything THEN (since + 1) % Wrap ELSE 0
      BY DEF NodePass
    <2>4. (since + 1) % Wrap \in Nat
      BY <2>1, <2>2
    <2>5. QED
      BY <2>2, <2>3, <2>4
  <1>7. lag' = (IF NodeReady THEN lag + 1 ELSE 0) /\ lag' \in Nat /\ lag' <= MaxLag
    BY DEF NodePass, NodeTypeOK, NodeSizes
  <1>8. QED
    BY <1>2, <1>3, <1>4, <1>5, <1>6, <1>7

LEMMA AnswerInUnits == ASSUME NodeSizes, NodeTypeOK PROVE AnswerTime \in Nat
  <1>1. Before[watched] \in {3, 4}
    BY DEF Before, NodeTypeOK, Kinds
  <1>2. 3 * SequenceTime \in Nat /\ 4 * SequenceTime \in Nat
    BY DEF NodeSizes
  <1>3. Before[watched] * SequenceTime \in Nat
    BY <1>1, <1>2
  <1>4. Ticks(Guard) \in Nat
    BY DEF NodeSizes, GuardTime
  <1>5. QED
    BY <1>3, <1>4 DEF AnswerTime, NodeSizes, Ticks

LEMMA PassPlaces ==
  ASSUME NodeSizes, NodeTypeOK, NodeFlags, NodePlaces, NodePass
  PROVE  (NodeTypeOK /\ NodeFlags /\ NodePlaces)'
  <1>1. UNCHANGED <<sentAnything, events, at, batch, sequence, frame, watched, owed>>
    BY DEF NodePass
  <1>2. AnswerTime \in Nat
    BY AnswerInUnits
  <1>3. age' \in Nat /\ (~owed => age' = 0)
    BY <1>2 DEF NodePass, CountTo, NodeTypeOK
  <1>4. delay' \in Nat /\ (delay' > 0 => delay > 0 /\ delay' <= delay) /\ (delay = 0 => delay' = 0)
        /\ (delay > 0 => delay' <= delay)
    BY PassCounts DEF NodeTypeOK
  <1>5. NodeTypeOK'
    BY <1>1, <1>3, <1>4, PassCounts DEF NodeTypeOK, GapCap
  <1>6. NodeFlags'
    BY <1>1, <1>3 DEF NodeFlags
  <1>7. ~NodeReady' => lag' = 0
    BY <1>1, <1>4, PassCounts DEF NodeReady, NodeTypeOK
  <1>8. NodePlaces'
    BY <1>1, <1>4, <1>7 DEF NodePlaces, NodeSizes, NodeTypeOK
  <1>9. QED
    BY <1>5, <1>6, <1>8
-----------------------------------------------------------------------------
(* The gap between two frames. *)
LEMMA WaitArithmetic ==
  ASSUME NEW g \in Nat, NEW h \in Nat, NEW t \in Nat, NEW u \in Nat, t <= u, NEW m \in Nat,
         (h = g + 1) \/ (g = u + m + 1 /\ h = g)
  PROVE  /\ g + Grain > t => h + Grain > t
         /\ \A l \in Nat : g + l + Grain > t => h + (l - 1) + Grain > t
  BY GrainIsPositive

LEMMA WaitGoesOn ==
  ASSUME NodeSizes, NodeTypeOK, NodePlaces, NodePass, NEW n \in Nat,
         Ticks(n) \in Nat, Ticks(n) <= Ticks(Interval), LongEnough(n)
  PROVE  LongEnough(n)'
  <1>1. PICK g \in Nat, h \in Nat : g = gap /\ h = gap'
    BY PassCounts DEF NodeTypeOK
  <1>2. h = g + 1 \/ (g = Ticks(Interval) + MaxLag + 1 /\ h = g)
    BY <1>1, PassCounts
  <1>3. /\ g + Grain > Ticks(n) => h + Grain > Ticks(n)
        /\ \A l \in Nat : g + l + Grain > Ticks(n) => h + (l - 1) + Grain > Ticks(n)
    BY <1>2, WaitArithmetic DEF NodeSizes
  <1>4. CASE delay = 0
    <2>1. delay' = 0
      BY <1>4, PassCounts
    <2>2. g + Grain > Ticks(n)
      BY <1>1, <1>4 DEF LongEnough
    <2>3. gap' + Grain > Ticks(n)
      BY <1>1, <1>3, <2>2, Zenon
    <2>4. QED
      BY <2>1, <2>3, Zenon DEF LongEnough
  <1>5. CASE delay # 0
    <2>1. PICK l \in Nat : l = ToGo(delay, phase)
      BY <1>5, PassCounts DEF NodeTypeOK
    <2>2. ToGo(delay', phase') = l - 1 /\ (delay' = 0 => l = 1)
      BY <1>5, <2>1, PassCounts DEF NodeTypeOK
    <2>3. g + l + Grain > Ticks(n)
      BY <1>1, <1>5, <2>1, Zenon DEF LongEnough
    <2>4. h + (l - 1) + Grain > Ticks(n)
      BY <1>3, <2>3
    <2>5. CASE delay' = 0
      <3>1. l = 1 /\ h + (1 - 1) + Grain > Ticks(n)
        BY <2>2, <2>4, <2>5
      <3>2. h + (1 - 1) = h
        OBVIOUS
      <3>3. h + Grain > Ticks(n)
        BY <3>1, <3>2
      <3>4. gap' + Grain > Ticks(n)
        BY <1>1, <3>3, Zenon
      <3>5. QED
        BY <2>5, <3>4, Zenon DEF LongEnough
    <2>6. CASE delay' # 0
      <3>1. gap' + ToGo(delay', phase') + Grain > Ticks(n)
        BY <1>1, <2>2, <2>4, Zenon
      <3>2. QED
        BY <2>6, <3>1, Zenon DEF LongEnough
    <2>7. QED
      BY <2>5, <2>6
  <1>6. QED
    BY <1>4, <1>5

LEMMA PassGaps == ASSUME NodeSizes, NodeTypeOK, NodePlaces, NodeGaps, NodePass PROVE NodeGaps'
  <1>1. UNCHANGED <<sentAnything, at, frame>>
    BY DEF NodePass
  <1>2. CASE at \in {"signal_wait", "next"}
    <2>1. IF sentAnything THEN since <= gap \/ gap = GapCap ELSE gap = GapCap
      BY <1>2 DEF NodeGaps
    <2>2. IF sentAnything THEN since' <= gap' \/ gap' = GapCap ELSE gap' = GapCap
      BY <2>1, PassCounts DEF NodeTypeOK, NodeSizes
    <2>3. GapCap' = GapCap
      BY DEF GapCap
    <2>4. QED
      BY <1>1, <1>2, <2>2, <2>3 DEF NodeGaps
  <1>3. CASE at = "send" /\ frame = 0
    <2>1. Ticks(Guard) \in Nat /\ Ticks(Guard) <= Ticks(Interval) /\ Guard \in Nat
      BY DEF NodeSizes, GuardTime
    <2>2. LongEnough(Guard)'
      BY <1>3, <2>1, WaitGoesOn DEF NodeGaps
    <2>3. QED
      BY <1>1, <1>3, <2>2 DEF NodeGaps, NodeTypeOK
  <1>4. CASE at = "send" /\ frame > 0
    <2>1. Ticks(Interval) \in Nat /\ Interval \in Nat
      BY DEF NodeSizes
    <2>2. LongEnough(Interval)'
      BY <1>4, <2>1, WaitGoesOn DEF NodeGaps
    <2>3. gap' <= gap + 1 /\ gap' \in Nat /\ gap \in Nat
      BY PassCounts DEF NodeTypeOK
    <2>4. IF delay' = 0 THEN gap' <= Ticks(Interval) + lag' ELSE gap' <= Elapsed(Interval, delay', phase')
      <3>1. CASE delay = 0
        <4>1. gap <= Ticks(Interval) + lag /\ lag' = lag + 1 /\ delay' = 0
          BY <1>4, <3>1, PassCounts DEF NodeGaps, NodeReady
        <4>2. QED
          BY <2>1, <2>3, <4>1 DEF NodeTypeOK
      <3>2. CASE delay # 0
        <4>1. delay \in Nat /\ delay > 0 /\ delay <= Interval /\ phase \in 0 .. Grain - 1
          BY <1>4, <3>2 DEF NodeTypeOK, NodePlaces
        <4>2. gap <= Elapsed(Interval, delay, phase)
          BY <1>4, <3>2 DEF NodeGaps
        <4>3. /\ Elapsed(Interval, delay, phase) \in Nat
              /\ Elapsed(Interval, delay', phase') = Elapsed(Interval, delay, phase) + 1
              /\ delay' = 0 => Elapsed(Interval, delay, phase) + 1 = Ticks(Interval)
          BY <2>1, <4>1, ElapsedGrows DEF NodePass, Ticks
        <4>4. lag' \in Nat
          BY PassCounts
        <4>5. QED
          BY <2>1, <2>3, <4>2, <4>3, <4>4
      <3>3. QED
        BY <3>1, <3>2
    <2>5. QED
      BY <1>1, <1>4, <2>2, <2>4 DEF NodeGaps, NodeTypeOK
  <1>5. CASE at = "stamp"
    BY <1>1, <1>5 DEF NodeGaps
  <1>6. QED
    BY <1>2, <1>3, <1>4, <1>5 DEF NodeTypeOK

LEMMA StartGaps ==
  ASSUME NodeSizes, NodeTypeOK, NodePlaces, NodeGaps, StartSequence PROVE NodeGaps'
  <1>1. frame' = 0 /\ at' = "send" /\ at = "next" /\ delay' = Seam /\ UNCHANGED <<gap, phase>>
    BY DEF StartSequence
  <1>2. IF sentAnything THEN since <= gap \/ gap = GapCap ELSE gap = GapCap
    BY <1>1 DEF NodeGaps
  <1>3. /\ Grain \in Nat /\ Grain > 0 /\ phase \in 0 .. Grain - 1 /\ gap \in Nat /\ since \in Nat
        /\ GuardTime \in Nat /\ GuardTime <= Ticks(Interval) /\ MaxLag \in Nat /\ Ticks(Interval) \in Nat
        /\ GapCap = Ticks(Interval) + MaxLag + 1
    BY GrainIsPositive DEF NodeTypeOK, NodeSizes, GapCap, Ticks
  <1>4. delay' \in Nat /\ delay' <= Guard
    BY <1>1, SeamWithinGuard
  <1>5. delay' > 0 => ToGo(delay', phase) \in Nat /\ ToGo(delay', phase) > 0
    BY <1>3, <1>4, LeftShrinks
  <1>6. IF delay' = 0 THEN gap + Grain > GuardTime ELSE gap + ToGo(delay', phase) + Grain > GuardTime
    <2>1. CASE gap = GapCap
      BY <1>3, <1>4, <1>5, <2>1
    <2>2. CASE sentAnything /\ since <= gap
      <3>1. PICK s \in Nat : s = since \div Grain /\ Ticks(s) <= since /\ Ticks(s) \in Nat
        BY <1>3, WholeTicks, TicksInUnits DEF Ticks
      <3>2. CASE delay' = 0
        <4>1. Guard <= s /\ Guard \in Nat
          BY <1>1, <2>2, <3>1, <3>2, SeamWithinGuard DEF NodeSizes
        <4>2. GuardTime <= Ticks(s)
          BY <3>1, <4>1, TicksOrdered DEF GuardTime, Ticks
        <4>3. QED
          BY <1>3, <2>2, <3>1, <3>2, <4>2
      <3>3. CASE delay' > 0
        <4>1. delay' = Guard - s /\ Guard \in Nat
          BY <1>1, <3>1, <3>3, SeamWithinGuard DEF NodeSizes
        <4>2. Guard = delay' + s
          BY <1>4, <3>1, <4>1
        <4>3. GuardTime = Ticks(delay') + Ticks(s)
          BY <1>4, <3>1, <4>2, TicksAdded DEF GuardTime, Ticks
        <4>4. Ticks(delay') \in Nat /\ ToGo(delay', phase) = Ticks(delay') - phase
          BY <1>4, TicksInUnits DEF ToGo, Ticks
        <4>5. QED
          BY <1>3, <2>2, <3>1, <3>3, <4>3, <4>4
      <3>4. QED
        BY <1>4, <3>2, <3>3
    <2>3. QED
      BY <1>2, <2>1, <2>2
  <1>7. LongEnough(Guard)'
    BY <1>1, <1>6 DEF LongEnough, GuardTime
  <1>8. QED
    BY <1>1, <1>7 DEF NodeGaps

LEMMA SendGaps ==
  ASSUME NodeSizes, NodeTypeOK, NodePlaces, NodeGaps, SendFrame PROVE NodeGaps'
  <1>1. UNCHANGED phase /\ at = "send" /\ delay = 0 /\ frame' = frame + 1 /\ gap' = 0
        /\ delay' = (IF frame < Frames - 1 THEN Interval ELSE 0)
        /\ at' = (IF frame' = Frames THEN "stamp" ELSE "send")
        /\ lag' = (IF delay' > 0 THEN 0 ELSE lag)
    BY DEF SendFrame, NodeReady, PauseAfter
  <1>2. frame \in Nat /\ frame < Frames
    BY <1>1 DEF NodePlaces, NodeTypeOK
  <1>3. CASE at' = "stamp"
    BY <1>3 DEF NodeGaps
  <1>4. CASE at' = "send"
    <2>1. delay' = Interval /\ frame' > 0 /\ Interval \in Nat /\ Ticks(Interval) \in Nat
      BY <1>1, <1>2, <1>4 DEF NodeSizes
    <2>2. Grain \in Nat /\ Grain > 0 /\ phase \in 0 .. Grain - 1 /\ lag' \in Nat
      BY <1>1, GrainIsPositive DEF NodeTypeOK
    <2>3. ToGo(Interval, phase) = Ticks(Interval) - phase /\ Elapsed(Interval, Interval, phase) = phase
      BY <2>1, <2>2, ElapsedAtStart DEF ToGo, Ticks
    <2>4. Interval = 0 => Ticks(Interval) = 0
      BY <2>2 DEF Ticks
    <2>5. IF delay' = 0 THEN gap' + Grain > Ticks(Interval) ELSE gap' + ToGo(delay', phase') + Grain > Ticks(Interval)
      BY <1>1, <2>1, <2>2, <2>3, <2>4
    <2>6. LongEnough(Interval)'
      BY <2>5 DEF LongEnough
    <2>7. IF delay' = 0 THEN gap' <= Ticks(Interval) + lag' ELSE gap' <= Elapsed(Interval, delay', phase')
      <3>1. gap' <= Ticks(Interval) + lag'
        <4>1. \A i, l \in Nat : 0 <= i + l
          OBVIOUS
        <4>2. 0 <= Ticks(Interval) + lag'
          BY <2>1, <2>2, <4>1
        <4>3. QED
          BY <1>1, <4>2, Zenon
      <3>2. Elapsed(Interval, delay', phase') = phase /\ 0 <= phase
        BY <1>1, <2>1, <2>2, <2>3
      <3>3. QED
        BY <1>1, <3>1, <3>2
    <2>8. QED
      BY <1>4, <2>1, <2>6, <2>7 DEF NodeGaps
  <1>5. QED
    BY <1>1, <1>3, <1>4

LEMMA OtherGaps ==
  ASSUME NodeTypeOK, NodePlaces, NodeGaps, Stamp \/ Fetch \/ \E k \in Kinds : Poll(k) PROVE NodeGaps'
  <1>1. CASE Stamp
    <2>1. at' = "next" /\ since' = 0 /\ sentAnything' = TRUE /\ gap' = gap
      BY <1>1 DEF Stamp
    <2>2. since' <= gap'
      BY <2>1 DEF NodeTypeOK
    <2>3. QED
      BY <2>1, <2>2 DEF NodeGaps
  <1>2. CASE Fetch
    BY <1>2 DEF Fetch, NodeGaps, GapCap
  <1>3. CASE \E k \in Kinds : Poll(k)
    <2>1. UNCHANGED <<phase, since, sentAnything, frame, delay, lag, gap>>
          /\ (at' = at \/ (at = "signal_wait" /\ at' = "next"))
      BY <1>3 DEF Poll, SetNodeSignal
    <2>2. QED
      BY <2>1 DEF NodeGaps, GapCap, LongEnough
  <1>4. QED
    BY <1>1, <1>2, <1>3
-----------------------------------------------------------------------------
(* Who waits for an answer, and behind how many. *)
LEMMA OwedKept ==
  ASSUME NodeTypeOK, NodePlaces, NodeOwed, NodeNext PROVE NodeOwed'
  <1>1. CASE \E k \in Kinds : Poll(k)
    <2>1. PICK k \in Kinds : Poll(k)
      BY <1>1
    <2>2. CASE at = "signal_wait"
      BY <2>1, <2>2 DEF Poll, SetNodeSignal, NodeOwed, NodePlaces, Answering
    <2>3. CASE at # "signal_wait"
      BY <2>1, <2>3 DEF Poll, SetNodeSignal, NodeOwed, Answering
    <2>4. QED
      BY <2>2, <2>3
  <1>2. CASE Fetch
    <2>1. UNCHANGED <<watched, owed>> /\ events' = {} /\ at = "next" /\ batch = {} /\ at' # "send"
          /\ (events # {} => batch' = events)
      BY <1>2 DEF Fetch
    <2>2. QED
      BY <2>1 DEF NodeOwed, Answering
  <1>3. CASE StartSequence
    <2>1. UNCHANGED <<watched, owed, events>> /\ at' = "send" /\ at = "next" /\ frame' = 0 /\ batch # {}
          /\ sequence' = First(batch) /\ batch' = batch \ {First(batch)}
      BY <1>3 DEF StartSequence, Rest
    <2>2. \A k \in batch \ {First(batch)} : Rank(k) > Rank(First(batch))
      BY <2>1, FirstOfBatch DEF NodeTypeOK
    <2>3. QED
      BY <2>1, <2>2 DEF NodeOwed, Answering
  <1>4. CASE SendFrame
    <2>1. UNCHANGED <<watched, events, batch, sequence>> /\ at = "send"
      BY <1>4 DEF SendFrame
    <2>2. owed' => owed /\ ~Answering
      BY <1>4, <2>1 DEF SendFrame, Answering
    <2>3. QED
      BY <2>1, <2>2 DEF NodeOwed
  <1>5. CASE Stamp
    BY <1>5 DEF Stamp, NodeOwed, Answering
  <1>6. CASE NodePass
    BY <1>6 DEF NodePass, NodeOwed, Answering
  <1>7. QED
    BY <1>1, <1>2, <1>3, <1>4, <1>5, <1>6 DEF NodeNext, SenderThread

LEMMA RankAndIn ==
  /\ Rank("powerdown") = 0 /\ Rank("active") = 1 /\ Rank("poweron") = 2
  /\ \A k : In(k) \in {0, 1} /\ (k \in batch => In(k) = 1) /\ (k \notin batch => In(k) = 0)
  BY DEF Rank, In

LEMMA AheadBounds ==
  ASSUME NodeTypeOK, NodeOwed
  PROVE  /\ Ahead \in Nat /\ Ahead <= 4
         /\ watched \in batch => Ahead <= Rank(watched)
         /\ Ahead <= Before[watched]
         /\ at = "send" => Ahead + 1 <= Before[watched]
  <1>1. CASE watched = "powerdown"
    <2>1. Before[watched] = 3 /\ Rank(watched) = 0
      BY <1>1 DEF Before, Rank
    <2>2. watched \in batch => Ahead = 0
      BY <1>1 DEF Ahead
    <2>3. watched \notin batch => Ahead = In("active") + In("poweron")
      BY <1>1, <2>1, RankAndIn DEF Ahead
    <2>4. QED
      BY <2>1, <2>2, <2>3, RankAndIn
  <1>2. CASE watched = "active"
    <2>1. Before[watched] = 3 /\ Rank(watched) = 1
      BY <1>2 DEF Before, Rank
    <2>2. watched \in batch => Ahead = In("powerdown")
      BY <1>2, RankAndIn DEF Ahead
    <2>3. watched \notin batch => Ahead = In("powerdown") + In("poweron") + 1
      BY <1>2, <2>1, RankAndIn DEF Ahead
    <2>4. at = "send" => In("powerdown") = 0
      <3>1. Rank(sequence) >= 0
        BY DEF NodeTypeOK, Kinds, Rank
      <3>2. at = "send" /\ "powerdown" \in batch => 0 > Rank(sequence)
        BY RankAndIn DEF NodeOwed
      <3>3. QED
        BY <3>1, <3>2, RankAndIn DEF Rank
    <2>5. QED
      BY <2>1, <2>2, <2>3, <2>4, RankAndIn
  <1>3. CASE watched = "poweron"
    <2>1. Before[watched] = 4 /\ Rank(watched) = 2
      BY <1>3 DEF Before, Rank
    <2>2. watched \in batch => Ahead = In("powerdown") + In("active")
      BY <1>3, RankAndIn DEF Ahead
    <2>3. watched \notin batch => Ahead = In("powerdown") + In("active") + 2
      BY <1>3, <2>1, RankAndIn DEF Ahead
    <2>4. at = "send" => In("powerdown") = 0
      <3>1. Rank(sequence) >= 0
        BY DEF NodeTypeOK, Kinds, Rank
      <3>2. at = "send" /\ "powerdown" \in batch => 0 > Rank(sequence)
        BY RankAndIn DEF NodeOwed
      <3>3. QED
        BY <3>1, <3>2, RankAndIn DEF Rank
    <2>5. QED
      BY <2>1, <2>2, <2>3, <2>4, RankAndIn
  <1>4. QED
    BY <1>1, <1>2, <1>3 DEF NodeTypeOK, Kinds
-----------------------------------------------------------------------------
(* How long the thread is held, and how long until the answer. *)
Rem == IF at = "send" THEN Product(Frames - 1 - frame, Pace) ELSE 0

LEMMA WaitBounds ==
  ASSUME NodeSizes, NodeTypeOK, NodePlaces
  PROVE  /\ WaitLeft \in Nat
         /\ delay = 0 => WaitLeft <= MaxLag
         /\ \A n \in Nat : Ticks(n) \in Nat /\ delay <= n => WaitLeft <= Ticks(n) + MaxLag
  <1>1. PICK l \in Nat, m \in Nat : l = lag /\ m = MaxLag /\ l <= m
    BY DEF NodeTypeOK, NodeSizes
  <1>2. CASE delay = 0
    <2>1. WaitLeft = m - l /\ m - l \in Nat /\ m - l <= m /\ (\A t \in Nat : m - l <= t + m)
      BY <1>1, <1>2 DEF WaitLeft
    <2>2. QED
      BY <1>1, <2>1
  <1>3. CASE delay # 0
    <2>1. delay \in Nat /\ delay > 0 /\ phase \in 0 .. Grain - 1
      BY <1>3 DEF NodeTypeOK
    <2>2. Ticks(delay) \in Nat /\ ToGo(delay, phase) \in Nat /\ ToGo(delay, phase) = Ticks(delay) - phase
      BY <2>1, TicksInUnits, LeftShrinks DEF ToGo, Ticks
    <2>3. PICK w \in Nat : w = ToGo(delay, phase)
      BY <2>2
    <2>4. w <= Ticks(delay)
      BY <2>1, <2>2, <2>3, GrainIsPositive
    <2>5. WaitLeft = w + m
      BY <1>1, <2>1, <2>3 DEF WaitLeft
    <2>6. ASSUME NEW n \in Nat, Ticks(n) \in Nat, delay <= n PROVE WaitLeft <= Ticks(n) + MaxLag
      <3>1. Ticks(delay) <= Ticks(n)
        BY <2>1, <2>6, TicksOrdered DEF Ticks
      <3>2. QED
        BY <1>1, <2>2, <2>4, <2>5, <2>6, <3>1
    <2>7. QED
      BY <1>3, <2>5, <2>6
  <1>4. QED
    BY <1>2, <1>3

LEMMA TimeIsBounded ==
  ASSUME NodeSizes, NodeTypeOK, NodePlaces, NodeOwed
  PROVE  /\ TimeLeft \in Nat /\ TimeLeft <= AnswerTime
         /\ Rem \in Nat /\ Product(Ahead, Whole) \in Nat /\ WaitLeft \in Nat
  <1>1. PICK a \in Nat, b \in Nat : a = Ahead /\ b = Before[watched] /\ a <= b /\ (at = "send" => a + 1 <= b)
    <2>1. Before[watched] \in Nat
      BY DEF Before, NodeTypeOK, Kinds
    <2>2. QED
      BY <2>1, AheadBounds
  <1>2. /\ Product(a, Whole) \in Nat /\ Product(b, Whole) \in Nat /\ Product(a, Whole) <= Product(b, Whole)
        /\ at = "send" => Product(a, Whole) + Whole <= Product(b, Whole)
    <2>1. Product(a, Whole) \in Nat /\ Product(b, Whole) \in Nat /\ Product(a, Whole) <= Product(b, Whole)
      BY <1>1, ProductOrdered DEF NodeSizes
    <2>2. ASSUME at = "send" PROVE Product(a, Whole) + Whole <= Product(b, Whole)
      <3>1. Product(a + 1, Whole) = Product(a, Whole) + Whole
        BY ProductFewer DEF NodeSizes
      <3>2. a + 1 \in Nat /\ a + 1 <= b
        BY <1>1, <2>2
      <3>3. Product(a + 1, Whole) <= Product(b, Whole)
        BY <1>1, <3>2, ProductOrdered DEF NodeSizes
      <3>4. QED
        BY <3>1, <3>3
    <2>3. QED
      BY <2>1, <2>2
  <1>3. PICK w \in Nat, m \in Nat, g \in Nat, s \in Nat :
          w = WaitLeft /\ m = MaxLag /\ g = GuardTime /\ s = Whole
    BY WaitBounds DEF NodeSizes
  <1>4. AnswerTime = Product(b, s) + g + 2 * m
    BY <1>1, <1>3 DEF AnswerTime, Product, GuardTime, Ticks, NodeSizes
  <1>5. Rem \in Nat /\ (at # "send" => w <= m /\ Rem = 0) /\ (at = "send" => w + Rem <= s)
    <2>1. CASE at # "send"
      <3>1. Rem = 0 /\ delay = 0
        BY <2>1 DEF Rem, NodePlaces, NodeTypeOK
      <3>2. QED
        BY <1>3, <2>1, <3>1, WaitBounds
    <2>2. CASE at = "send"
      <3>1. PICK f \in Nat, n \in Nat : f = frame /\ n = Frames - 1 /\ f <= n
        BY <2>2 DEF NodeSizes, NodePlaces, NodeTypeOK
      <3>2. PICK p \in Nat, i \in Nat : p = Pace /\ i = Ticks(Interval) /\ p = i + m
        BY <1>3 DEF NodeSizes, Pace
      <3>3. n - f \in Nat /\ Rem = Product(n - f, p)
        BY <2>2, <3>1, <3>2 DEF Rem
      <3>4. Product(n - f, p) \in Nat /\ Product(n, p) \in Nat
        BY <3>3, ProductFewer
      <3>5. s = g + m + Product(n, p)
        BY <1>3, <3>1, <3>2 DEF Whole, Product
      <3>6. CASE f = 0
        <4>1. w <= g + m
          BY <1>3, <2>2, <3>1, <3>6, WaitBounds DEF NodePlaces, NodeSizes, GuardTime
        <4>2. n - f = n
          BY <3>6
        <4>3. QED
          BY <2>2, <3>3, <3>4, <3>5, <4>1, <4>2
      <3>7. CASE f # 0
        <4>1. w <= p
          BY <1>3, <2>2, <3>1, <3>2, <3>7, WaitBounds DEF NodePlaces, NodeSizes
        <4>2. Product((n - f) + 1, p) = Product(n - f, p) + p
          BY <3>3, ProductFewer
        <4>3. (n - f) + 1 \in Nat /\ (n - f) + 1 <= n
          BY <3>1, <3>7
        <4>4. Product((n - f) + 1, p) <= Product(n, p)
          BY <4>3, ProductOrdered
        <4>5. QED
          BY <2>2, <3>3, <3>4, <3>5, <4>1, <4>2, <4>4
      <3>8. QED
        BY <3>6, <3>7
    <2>3. QED
      BY <2>1, <2>2
  <1>6. TimeLeft = IF Answering THEN w ELSE w + Rem + Product(a, s) + g + m
    BY <1>1, <1>3 DEF TimeLeft, Rem
  <1>7. Product(a, s) \in Nat /\ Product(b, s) \in Nat /\ Product(a, s) <= Product(b, s)
        /\ (at = "send" => Product(a, s) + s <= Product(b, s))
    BY <1>2, <1>3
  <1>8. Answering => at = "send"
    BY DEF Answering
  <1>9. PICK r \in Nat, ta \in Nat, tb \in Nat : r = Rem /\ ta = Product(a, s) /\ tb = Product(b, s)
    BY <1>5, <1>7
  <1>10. TimeLeft \in Nat /\ TimeLeft <= AnswerTime
    <2>1. CASE at = "send"
      <3>1. w + r <= s /\ ta + s <= tb /\ AnswerTime = tb + g + 2 * m
        BY <1>4, <1>5, <1>7, <1>9, <2>1
      <3>2. TimeLeft = w \/ TimeLeft = w + r + ta + g + m
        BY <1>6, <1>9
      <3>3. QED
        BY <3>1, <3>2
    <2>2. CASE at # "send"
      <3>1. w <= m /\ r = 0 /\ ta <= tb /\ AnswerTime = tb + g + 2 * m
        BY <1>4, <1>5, <1>7, <1>9, <2>2
      <3>2. TimeLeft = w + r + ta + g + m
        BY <1>6, <1>8, <1>9, <2>2
      <3>3. QED
        BY <3>1, <3>2
    <2>3. QED
      BY <2>1, <2>2
  <1>11. QED
    BY <1>1, <1>3, <1>5, <1>7, <1>10
-----------------------------------------------------------------------------
(* Nothing puts the answer off: each step leaves no more time than before,  *)
(* and a unit of time takes a unit off it.                                  *)
LEMMA PollAges ==
  ASSUME NodeSizes, NodeTypeOK, NodeFlags, NodePlaces, NodeOwed, NodeAges, NEW k \in Kinds, Poll(k)
  PROVE  NodeAges'
  <1>1. UNCHANGED <<phase, sequence, frame, delay, lag, watched, age>> /\ owed' = (owed \/ k = watched)
    BY DEF Poll
  <1>2. AnswerTime' = AnswerTime
    BY <1>1 DEF AnswerTime
  <1>3. CASE at = "signal_wait"
    <2>1. at' = "next" /\ batch' = {k}
      BY <1>3 DEF Poll, SetNodeSignal
    <2>2. ~owed /\ age = 0 /\ delay = 0 /\ lag = 0
      BY <1>3 DEF NodeOwed, NodePlaces, NodeFlags, NodeTypeOK, Answering, NodeReady
    <2>3. CASE owed'
      <3>1. batch' = {watched} /\ watched \in Kinds
        BY <1>1, <2>1, <2>2, <2>3
      <3>2. Ahead' = 0
        BY <1>1, <3>1 DEF Ahead, In, Kinds
      <3>3. PICK w \in Nat, m \in Nat, g \in Nat : w = Whole /\ m = MaxLag /\ g = GuardTime
        BY DEF NodeSizes
      <3>4. WaitLeft' = m
        BY <1>1, <2>2, <3>3 DEF WaitLeft
      <3>5. Product(0, w) = 0
        BY ProductFewer
      <3>6. ~Answering' /\ at' # "send"
        BY <2>1 DEF Answering
      <3>7. TimeLeft' = m + 0 + Product(0, w) + g + m
        BY <3>2, <3>3, <3>4, <3>6 DEF TimeLeft
      <3>8. PICK b \in Nat : b = Before[watched]
        BY DEF NodeTypeOK, Kinds, Before
      <3>9. Product(b, w) \in Nat /\ AnswerTime = Product(b, w) + g + 2 * m
        BY <3>3, <3>8, ProductFewer DEF AnswerTime, Product, NodeSizes, GuardTime, Ticks
      <3>10. 0 + (m + 0 + Product(0, w) + g + m) <= AnswerTime
        BY <3>5, <3>9
      <3>11. QED
        BY <1>1, <1>2, <2>2, <3>7, <3>10 DEF NodeAges
    <2>4. QED
      BY <2>3 DEF NodeAges
  <1>4. CASE at # "signal_wait"
    <2>1. UNCHANGED <<at, batch>>
      BY <1>4 DEF Poll, SetNodeSignal
    <2>2. TimeLeft' = TimeLeft
      BY <1>1, <2>1 DEF TimeLeft, Answering, Ahead, In, WaitLeft
    <2>3. TimeLeft \in Nat /\ TimeLeft <= AnswerTime
      BY TimeIsBounded
    <2>4. age + TimeLeft <= AnswerTime
      <3>1. CASE owed
        BY <3>1 DEF NodeAges
      <3>2. CASE ~owed
        <4>1. age = 0
          BY <3>2 DEF NodeFlags
        <4>2. QED
          BY <2>3, <4>1
      <3>3. QED
        BY <3>1, <3>2 DEF NodeFlags
    <2>5. QED
      BY <1>1, <1>2, <2>2, <2>4 DEF NodeAges
  <1>5. QED
    BY <1>3, <1>4

LEMMA StartIsOneFewer ==
  ASSUME NodeTypeOK, batch # {}, watched' = watched,
         batch' = batch \ {First(batch)}, First(batch) # watched
  PROVE  Ahead = Ahead' + 1
  <1>1. First(batch) \in batch /\ batch \subseteq Kinds /\ watched \in Kinds
    BY FirstOfBatch DEF NodeTypeOK
  <1>2. PICK f \in Kinds : f = First(batch)
    BY <1>1
  <1>3. watched \in batch => Rank(watched) > Rank(f)
    BY <1>1, <1>2, FirstOfBatch DEF NodeTypeOK
  <1>4. \A k : (k = f => In(k) = 1 /\ In(k)' = 0) /\ (k # f => In(k)' = In(k)) /\ In(k) \in {0, 1}
    BY <1>1, <1>2 DEF In
  <1>5. (watched \in batch) = (watched \in batch')
    BY <1>1, <1>2
  <1>6. f \in {"powerdown", "active", "poweron"} /\ watched \in {"powerdown", "active", "poweron"}
    BY <1>1, <1>2 DEF Kinds
  <1>7. CASE watched \in batch
    <2>1. Rank("powerdown") = 0 /\ Rank("active") = 1 /\ Rank("poweron") = 2
      BY RankAndIn
    <2>2. f = "powerdown" \/ (f = "active" /\ watched = "poweron")
      BY <1>2, <1>3, <1>6, <1>7, <2>1
    <2>3. PICK p \in {0, 1}, a \in {0, 1} : p = In("powerdown") /\ a = In("active")
      BY <1>4
    <2>4. CASE f = "powerdown"
      <3>1. p = 1 /\ In("powerdown")' = 0 /\ In("active")' = a /\ watched # "powerdown"
        BY <1>2, <1>4, <2>3, <2>4
      <3>2. Ahead = 1 + (IF watched = "poweron" THEN a ELSE 0)
        BY <1>7, <2>3, <3>1 DEF Ahead
      <3>3. Ahead' = 0 + (IF watched = "poweron" THEN a ELSE 0)
        BY <1>5, <1>7, <3>1 DEF Ahead
      <3>4. QED
        BY <3>2, <3>3
    <2>5. CASE f = "active" /\ watched = "poweron"
      <3>1. a = 1 /\ In("active")' = 0 /\ In("powerdown")' = p
        BY <1>4, <2>3, <2>5
      <3>2. Ahead = p + 1
        BY <1>7, <2>3, <2>5, <3>1 DEF Ahead
      <3>3. Ahead' = p + 0
        BY <1>5, <1>7, <2>5, <3>1 DEF Ahead
      <3>4. QED
        BY <3>2, <3>3
    <2>6. QED
      BY <2>2, <2>4, <2>5
  <1>8. CASE watched \notin batch
    <2>1. PICK p \in {0, 1}, a \in {0, 1}, o \in {0, 1}, r \in Nat :
            p = In("powerdown") /\ a = In("active") /\ o = In("poweron") /\ r = Rank(watched)
      BY <1>4, RankAndIn, <1>6
    <2>2. Ahead = p + a + o + r
      BY <1>8, <2>1 DEF Ahead
    <2>3. PICK p2 \in {0, 1}, a2 \in {0, 1}, o2 \in {0, 1} :
            /\ p2 = In("powerdown")' /\ a2 = In("active")' /\ o2 = In("poweron")'
            /\ p2 = (IF f = "powerdown" THEN 0 ELSE p)
            /\ a2 = (IF f = "active" THEN 0 ELSE a)
            /\ o2 = (IF f = "poweron" THEN 0 ELSE o)
      BY <1>4, <2>1
    <2>4. Ahead' = p2 + a2 + o2 + r
      BY <1>5, <1>8, <2>1, <2>3 DEF Ahead, Rank
    <2>5. (f = "powerdown" => p = 1) /\ (f = "active" => a = 1) /\ (f = "poweron" => o = 1)
      BY <1>4, <2>1
    <2>6. p + a + o + r = (p2 + a2 + o2 + r) + 1
      <3>1. CASE f = "powerdown"
        <4>1. p = 1 /\ p2 = 0 /\ a2 = a /\ o2 = o
          BY <2>3, <2>5, <3>1
        <4>2. QED
          BY <4>1
      <3>2. CASE f = "active"
        <4>1. a = 1 /\ a2 = 0 /\ p2 = p /\ o2 = o
          BY <2>3, <2>5, <3>2
        <4>2. QED
          BY <4>1
      <3>3. CASE f = "poweron"
        <4>1. o = 1 /\ o2 = 0 /\ p2 = p /\ a2 = a
          BY <2>3, <2>5, <3>3
        <4>2. QED
          BY <4>1
      <3>4. QED
        BY <1>6, <3>1, <3>2, <3>3
    <2>7. QED
      BY <2>2, <2>4, <2>6
  <1>9. QED
    BY <1>7, <1>8

LEMMA StartAges ==
  ASSUME NodeSizes, NodeTypeOK, NodeFlags, NodePlaces, NodeOwed, NodeAges, StartSequence
  PROVE  NodeAges'
  <1>1. /\ UNCHANGED <<phase, watched, owed, age>> /\ at = "next" /\ at' = "send" /\ frame' = 0
        /\ delay = 0 /\ delay' = Seam /\ sequence' = First(batch) /\ batch # {}
        /\ batch' = batch \ {First(batch)} /\ lag' = (IF delay' > 0 THEN 0 ELSE lag)
    BY DEF StartSequence, NodeReady, Rest
  <1>2. PICK m \in Nat, g \in Nat, w \in Nat, p \in Nat, n \in Nat, l \in Nat, a \in Nat, t \in Nat :
          /\ m = MaxLag /\ g = GuardTime /\ w = Whole /\ p = Pace /\ n = Frames - 1 /\ l = lag
          /\ a = age /\ t = AnswerTime
    <2>1. MaxLag \in Nat /\ GuardTime \in Nat /\ Whole \in Nat /\ Pace \in Nat
      BY DEF NodeSizes
    <2>2. Frames - 1 \in Nat
      BY DEF NodeSizes
    <2>3. lag \in Nat /\ age \in Nat
      BY DEF NodeTypeOK
    <2>4. QED
      BY <2>1, <2>2, <2>3, AnswerInUnits
  <1>3. PICK v \in Int : v = WaitLeft' /\ v <= g + m
    <2>1. CASE delay' = 0
      <3>1. WaitLeft' = m - l /\ m - l \in Int /\ m - l <= g + m
        BY <1>1, <1>2, <2>1 DEF WaitLeft
      <3>2. QED
        BY <3>1
    <2>2. CASE delay' # 0
      <3>1. PICK d \in Nat : d = delay' /\ d = Seam /\ d <= Guard /\ d > 0
        BY <1>1, <2>2, SeamWithinGuard
      <3>2. Ticks(d) \in Nat /\ Ticks(d) <= g /\ ToGo(d, phase) = Ticks(d) - phase
            /\ ToGo(d, phase) \in Nat
        BY <1>2, <3>1, TicksInUnits, TicksOrdered, LeftShrinks
        DEF NodeSizes, NodeTypeOK, GuardTime, Ticks, ToGo
      <3>3. PICK q \in Nat : q = ToGo(d, phase) /\ q <= g
        <4>1. phase >= 0 /\ phase \in Nat
          BY GrainIsPositive DEF NodeTypeOK
        <4>2. QED
          BY <3>2, <4>1
      <3>4. WaitLeft' = q + m
        BY <1>1, <1>2, <3>1, <3>3 DEF WaitLeft
      <3>5. q + m \in Int /\ q + m <= g + m
        BY <3>3
      <3>6. QED
        BY <3>4, <3>5
    <2>3. QED
      BY <2>1, <2>2
  <1>4. w = g + m + Product(n, p) /\ Product(n, p) \in Nat
    BY <1>2, ProductFewer DEF Whole, Product
  <1>5. PICK c \in Nat, e \in Nat : c = Ahead /\ e = Product(c, w)
    BY <1>2, AheadBounds, ProductFewer
  <1>6. TimeLeft = (m - l) + 0 + e + g + m /\ m - l >= 0
    BY <1>1, <1>2, <1>5 DEF TimeLeft, Answering, WaitLeft, NodeTypeOK
  <1>7. CASE owed
    <2>1. a + ((m - l) + 0 + e + g + m) <= t
      BY <1>2, <1>6, <1>7 DEF NodeAges
    <2>2. CASE First(batch) = watched
      <3>1. TimeLeft' = v
        BY <1>1, <1>3, <2>2 DEF TimeLeft, Answering
      <3>2. a + v <= t
        <4>1. m - l >= 0 /\ v <= g + m
          BY <1>3, <1>6
        <4>2. QED
          BY <2>1, <4>1
      <3>3. QED
        BY <1>1, <1>2, <3>1, <3>2 DEF NodeAges, AnswerTime
    <2>3. CASE First(batch) # watched
      <3>1. Ahead = Ahead' + 1
        BY <1>1, <2>3, StartIsOneFewer
      <3>2. PICK k \in Nat : k = Ahead' /\ c = k + 1
        <4>2. Ahead' \in Int
          BY DEF Ahead, In, Rank
        <4>3. Ahead' >= 0
          BY DEF Ahead, In, Rank
        <4>4. PICK j \in Int : j = Ahead' /\ j >= 0
          BY <4>2, <4>3
        <4>5. c = j + 1 /\ j \in Nat
          BY <1>5, <3>1, <4>4
        <4>6. QED
          BY <4>4, <4>5
      <3>3. e = Product(k, w) + w /\ Product(k, w) \in Nat
        BY <1>2, <1>5, <3>2, ProductFewer
      <3>4. TimeLeft' = v + Product(n, p) + Product(k, w) + g + m
        <4>1. ~Answering' /\ n - 0 = n
          BY <1>1, <2>3 DEF Answering
        <4>2. QED
          BY <1>1, <1>2, <1>3, <3>2, <4>1 DEF TimeLeft
      <3>5. a + (v + Product(n, p) + Product(k, w) + g + m) <= t
        BY <1>3, <1>4, <1>6, <2>1, <3>3
      <3>6. QED
        BY <1>1, <1>2, <3>4, <3>5 DEF NodeAges, AnswerTime
    <2>4. QED
      BY <2>2, <2>3
  <1>8. QED
    BY <1>1, <1>7 DEF NodeAges

LEMMA SendAges ==
  ASSUME NodeSizes, NodeTypeOK, NodeFlags, NodePlaces, NodeOwed, NodeAges, SendFrame
  PROVE  NodeAges'
  <1>1. /\ UNCHANGED <<phase, watched, sequence, batch>> /\ at = "send" /\ delay = 0
        /\ frame' = frame + 1 /\ delay' = (IF frame < Frames - 1 THEN Interval ELSE 0)
        /\ at' = (IF frame' = Frames THEN "stamp" ELSE "send")
        /\ lag' = (IF delay' > 0 THEN 0 ELSE lag)
        /\ IF frame = 0 /\ sequence = watched THEN owed' = FALSE ELSE UNCHANGED <<owed, age>>
    BY DEF SendFrame, NodeReady, PauseAfter
  <1>2. CASE Answering
    BY <1>1, <1>2 DEF Answering, NodeAges
  <1>3. CASE ~Answering
    <2>1. UNCHANGED <<owed, age>> /\ ~Answering'
      BY <1>1, <1>3 DEF Answering, NodeTypeOK
    <2>2. Ahead' = Ahead /\ AnswerTime' = AnswerTime
      BY <1>1 DEF Ahead, In, AnswerTime
    <2>3. PICK m \in Nat, i \in Nat, p \in Nat, l \in Nat, e \in Nat, g \in Nat :
            /\ m = MaxLag /\ i = Ticks(Interval) /\ p = i + m /\ p = Pace /\ l = lag
            /\ l <= m /\ e = Product(Ahead, Whole) /\ g = GuardTime
      BY TimeIsBounded DEF NodeSizes, NodeTypeOK, Pace
    <2>4. PICK f \in Nat, n \in Nat : f = frame /\ n = Frames - 1 /\ f <= n
      BY <1>1 DEF NodeSizes, NodePlaces, NodeTypeOK
    <2>5. TimeLeft = (m - l) + Product(n - f, p) + e + g + m
      BY <1>1, <1>3, <2>3, <2>4 DEF TimeLeft, WaitLeft
    <2>6. PICK u \in Int : TimeLeft' = u /\ u <= (m - l) + Product(n - f, p) + e + g + m
      <3>1. CASE f < n
        <4>1. delay' = Interval /\ at' = "send" /\ frame' = f + 1 /\ n - f = (n - (f + 1)) + 1
              /\ n - (f + 1) \in Nat
          BY <1>1, <2>4, <3>1
        <4>2. PICK r \in Nat : r = Product(n - (f + 1), p) /\ Product(n - f, p) = r + p
          <5>1. PICK j \in Nat : j = n - (f + 1) /\ n - f = j + 1
            BY <4>1
          <5>2. Product(j, p) \in Nat /\ Product(j + 1, p) = Product(j, p) + p
            BY ProductFewer
          <5>3. QED
            BY <5>1, <5>2
        <4>3. PICK v \in Int : v = WaitLeft' /\ v <= p
          <5>1. CASE Interval = 0
            <6>1. WaitLeft' = m - l
              BY <1>1, <2>3, <4>1, <5>1 DEF WaitLeft
            <6>2. m - l \in Int /\ m - l <= p
              BY <2>3
            <6>3. QED
              BY <6>1, <6>2
          <5>2. CASE Interval # 0
            <6>1. Interval \in Nat /\ Interval > 0 /\ phase \in Nat
              BY <5>2, GrainIsPositive DEF NodeSizes, NodeTypeOK
            <6>2. WaitLeft' = (i - phase) + m
              BY <1>1, <2>3, <4>1, <6>1 DEF WaitLeft, ToGo, Ticks
            <6>3. (i - phase) + m \in Int /\ (i - phase) + m <= p
              BY <2>3, <6>1
            <6>4. QED
              BY <6>2, <6>3
          <5>3. QED
            BY <5>1, <5>2
        <4>4. TimeLeft' = v + r + e + g + m
          BY <2>1, <2>2, <2>3, <2>4, <4>1, <4>2, <4>3 DEF TimeLeft
        <4>5. v + r + e + g + m <= (m - l) + Product(n - f, p) + e + g + m
          BY <2>3, <4>2, <4>3
        <4>6. v + r + e + g + m \in Int
          BY <4>3
        <4>7. QED
          BY <4>4, <4>5, <4>6
      <3>2. CASE f = n
        <4>1. delay' = 0 /\ at' = "stamp" /\ n - f = 0
          BY <1>1, <2>4, <3>2 DEF NodeSizes
        <4>2. Product(n - f, p) = 0
          BY <4>1, ProductFewer
        <4>3. WaitLeft' = m - l
          BY <1>1, <2>3, <4>1 DEF WaitLeft
        <4>4. TimeLeft' = (m - l) + 0 + e + g + m
          BY <2>1, <2>2, <2>3, <4>1, <4>3 DEF TimeLeft
        <4>5. (m - l) + 0 + e + g + m \in Int
          OBVIOUS
        <4>6. QED
          BY <4>2, <4>4, <4>5
      <3>3. QED
        BY <2>4, <3>1, <3>2
    <2>7. PICK s \in Int : s = TimeLeft /\ u <= s
      BY <2>5, <2>6, TimeIsBounded
    <2>8. PICK a \in Nat, t \in Nat : a = age /\ t = AnswerTime
      BY AnswerInUnits DEF NodeTypeOK
    <2>9. owed => a + s <= t
      BY <2>7, <2>8 DEF NodeAges
    <2>10. owed => a + u <= t
      BY <2>7, <2>9
    <2>11. QED
      BY <2>1, <2>2, <2>6, <2>8, <2>10, Zenon DEF NodeAges
  <1>4. QED
    BY <1>2, <1>3

LEMMA StampAges == ASSUME NodeAges, Stamp PROVE NodeAges'
  <1>1. /\ UNCHANGED <<phase, batch, sequence, delay, lag, watched, owed, age>>
        /\ at = "stamp" /\ at' = "next"
    BY DEF Stamp
  <1>2. TimeLeft' = TimeLeft
    BY <1>1 DEF TimeLeft, Answering, WaitLeft, Ahead, In
  <1>3. QED
    BY <1>1, <1>2 DEF NodeAges, AnswerTime

LEMMA FetchAges ==
  ASSUME NodeSizes, NodeTypeOK, NodePlaces, NodeOwed, NodeAges, Fetch PROVE NodeAges'
  <1>1. /\ UNCHANGED <<phase, sequence, delay, watched, owed, age>>
        /\ at = "next" /\ batch = {} /\ delay = 0 /\ events' = {}
    BY DEF Fetch, NodeReady
  <1>2. CASE events = {}
    BY <1>1, <1>2 DEF NodeOwed, NodeAges, Answering
  <1>3. CASE events # {}
    <2>1. batch' = events /\ at' = at /\ lag' = lag
      BY <1>3 DEF Fetch
    <2>2. CASE owed
      <3>1. watched \in events
        BY <1>1, <2>2 DEF NodeOwed, Answering
      <3>2. PICK c \in Nat, d \in Nat : c = Ahead /\ d = Ahead' /\ d <= c
        <4>1. watched \notin batch /\ watched \in batch'
          BY <1>1, <2>1, <3>1
        <4>2. \A k : In(k) = 0 /\ In(k)' \in {0, 1}
          BY <1>1 DEF In
        <4>3. Ahead = Rank(watched) /\ Rank(watched) \in Nat
          <5>1. Ahead = 0 + 0 + 0 + Rank(watched)
            BY <4>1, <4>2 DEF Ahead
          <5>2. Rank(watched) \in Nat
            BY DEF Rank
          <5>3. QED
            BY <5>1, <5>2
        <4>4. PICK p \in {0, 1}, a \in {0, 1} : p = In("powerdown")' /\ a = In("active")'
          BY <4>2
        <4>5. Ahead' = (IF watched = "powerdown" THEN 0 ELSE p) + (IF watched = "poweron" THEN a ELSE 0)
          BY <1>1, <4>1, <4>4 DEF Ahead
        <4>6. CASE watched = "powerdown"
          <5>1. Ahead' = 0 + 0 /\ Ahead = 0
            BY <4>3, <4>5, <4>6 DEF Rank
          <5>2. QED
            BY <5>1
        <4>7. CASE watched = "active"
          <5>1. Ahead' = p + 0 /\ Ahead = 1
            BY <4>3, <4>5, <4>7 DEF Rank
          <5>2. QED
            BY <4>4, <5>1
        <4>8. CASE watched = "poweron"
          <5>1. Ahead' = p + a /\ Ahead = 2
            BY <4>3, <4>5, <4>8 DEF Rank
          <5>2. p + a \in Nat /\ p + a <= 2
            OBVIOUS
          <5>3. QED
            BY <5>1, <5>2
        <4>9. watched = "powerdown" \/ watched = "active" \/ watched = "poweron"
          BY DEF NodeTypeOK, Kinds
        <4>10. QED
          BY <4>6, <4>7, <4>8, <4>9, Zenon
      <3>3. PICK x \in Nat, y \in Nat : x = Product(c, Whole) /\ y = Product(d, Whole) /\ y <= x
        BY <3>2, ProductOrdered DEF NodeSizes
      <3>4. PICK v \in Nat, m \in Nat, g \in Nat, a \in Nat, t \in Nat :
              v = WaitLeft /\ m = MaxLag /\ g = GuardTime /\ a = age /\ t = AnswerTime
        <4>1. WaitLeft \in Nat
          BY WaitBounds
        <4>2. QED
          BY <4>1, AnswerInUnits DEF NodeSizes, NodeTypeOK
      <3>5. WaitLeft' = v
        BY <1>1, <2>1, <3>4 DEF WaitLeft
      <3>6. TimeLeft = v + 0 + x + g + m /\ TimeLeft' = v + 0 + y + g + m
        BY <1>1, <2>1, <3>2, <3>3, <3>4, <3>5 DEF TimeLeft, Answering
      <3>7. a + (v + 0 + x + g + m) <= t
        BY <2>2, <3>4, <3>6 DEF NodeAges
      <3>8. a + (v + 0 + y + g + m) <= t
        BY <3>3, <3>7
      <3>9. QED
        BY <1>1, <3>4, <3>6, <3>8, Zenon DEF NodeAges, AnswerTime
    <2>3. QED
      BY <1>1, <2>2 DEF NodeAges
  <1>4. QED
    BY <1>2, <1>3

LEMMA PassAges ==
  ASSUME NodeSizes, NodeTypeOK, NodeFlags, NodePlaces, NodeOwed, NodeAges, NodePass PROVE NodeAges'
  <1>1. /\ UNCHANGED <<at, batch, sequence, frame, watched, owed>>
        /\ age' = (IF owed THEN CountTo(AnswerTime + 1, age) ELSE 0) /\ (NodeReady => lag < MaxLag)
    BY DEF NodePass
  <1>2. CASE ~owed
    BY <1>1, <1>2 DEF NodeAges
  <1>3. CASE owed
    <2>1. at # "signal_wait"
      BY <1>3 DEF NodeOwed, NodePlaces, Answering
    <2>2. PICK w \in Nat, r \in Nat, e \in Nat, g \in Nat, m \in Nat, a \in Nat, t \in Nat :
            /\ w = WaitLeft /\ r = Rem /\ e = Product(Ahead, Whole) /\ g = GuardTime /\ m = MaxLag
            /\ a = age /\ t = AnswerTime
      <3>1. WaitLeft \in Nat /\ Rem \in Nat /\ Product(Ahead, Whole) \in Nat
        BY TimeIsBounded
      <3>2. QED
        BY <3>1, AnswerInUnits DEF NodeSizes, NodeTypeOK
    <2>3. w - 1 \in Nat /\ WaitLeft' = w - 1
      <3>1. CASE delay = 0
        <4>1. PICK l \in Nat : l = lag /\ l < m
          BY <1>1, <2>1, <2>2, <3>1 DEF NodeReady, NodeTypeOK
        <4>2. delay' = 0 /\ lag' = l + 1
          BY <2>1, <3>1, <4>1, PassCounts DEF NodeReady
        <4>3. w = m - l
          BY <2>2, <3>1, <4>1 DEF WaitLeft
        <4>4. WaitLeft' = m - (l + 1)
          BY <2>2, <4>2 DEF WaitLeft
        <4>5. QED
          BY <4>1, <4>3, <4>4
      <3>2. CASE delay # 0
        <4>1. delay \in Nat /\ delay > 0
          BY <3>2 DEF NodeTypeOK
        <4>2. PICK q \in Nat : q = ToGo(delay, phase) /\ q > 0
          BY <4>1, LeftShrinks DEF NodeTypeOK
        <4>3. w = q + m
          BY <2>2, <4>1, <4>2 DEF WaitLeft
        <4>4. ToGo(delay', phase') = q - 1 /\ delay' \in Nat /\ (delay' = 0 => q = 1) /\ lag' = 0
          BY <4>1, <4>2, PassCounts DEF NodeReady
        <4>5. CASE delay' = 0
          <5>1. WaitLeft' = m - 0 /\ q = 1
            BY <2>2, <4>4, <4>5 DEF WaitLeft
          <5>2. QED
            BY <4>3, <5>1
        <4>6. CASE delay' # 0
          <5>1. WaitLeft' = (q - 1) + m
            BY <2>2, <4>4, <4>6 DEF WaitLeft
          <5>2. QED
            BY <4>2, <4>3, <5>1
        <4>7. QED
          BY <4>5, <4>6
      <3>3. QED
        BY <3>1, <3>2
    <2>4. Answering' = Answering /\ Rem' = Rem /\ Ahead' = Ahead /\ AnswerTime' = AnswerTime
      BY <1>1 DEF Answering, Rem, Ahead, In, AnswerTime
    <2>5. TimeLeft = (IF Answering THEN w ELSE w + r + e + g + m)
          /\ TimeLeft' = (IF Answering THEN w - 1 ELSE (w - 1) + r + e + g + m)
      BY <2>2, <2>3, <2>4 DEF TimeLeft, Rem
    <2>6. age' = (IF a < t + 1 THEN a + 1 ELSE t + 1)
      BY <1>1, <1>3, <2>2 DEF CountTo
    <2>7. a + TimeLeft <= t
      BY <1>3, <2>2 DEF NodeAges
    <2>8. CASE Answering
      <3>1. a + w <= t
        BY <2>5, <2>7, <2>8
      <3>2. a < t + 1 /\ (a + 1) + (w - 1) <= t
        BY <2>2, <3>1
      <3>3. TimeLeft' = w - 1 /\ age' = a + 1
        BY <2>5, <2>6, <2>8, <3>2
      <3>4. QED
        BY <2>2, <2>4, <3>2, <3>3 DEF NodeAges
    <2>9. CASE ~Answering
      <3>1. a + (w + r + e + g + m) <= t
        BY <2>5, <2>7, <2>9
      <3>2. a < t + 1 /\ (a + 1) + ((w - 1) + r + e + g + m) <= t
        BY <2>2, <3>1
      <3>3. TimeLeft' = (w - 1) + r + e + g + m /\ age' = a + 1
        BY <2>5, <2>6, <2>9, <3>2
      <3>4. QED
        BY <2>2, <2>4, <3>2, <3>3 DEF NodeAges
    <2>10. QED
      BY <2>8, <2>9
  <1>4. QED
    BY <1>2, <1>3
-----------------------------------------------------------------------------
LEMMA NodeStep == ASSUME NodeSizes, NodeInv, NodeNext PROVE NodeInv'
  <1>1. NodeTypeOK /\ NodeFlags /\ NodePlaces /\ NodeGaps /\ NodeOwed /\ NodeAges
    BY DEF NodeInv
  <1>2. CASE \E k \in Kinds : Poll(k)
    BY <1>1, <1>2, PollPlaces, OtherGaps, OwedKept, PollAges DEF NodeInv
  <1>3. CASE Fetch
    BY <1>1, <1>3, FetchPlaces, OtherGaps, OwedKept, FetchAges DEF NodeInv
  <1>4. CASE StartSequence
    BY <1>1, <1>4, StartPlaces, StartGaps, OwedKept, StartAges DEF NodeInv
  <1>5. CASE SendFrame
    BY <1>1, <1>5, SendPlaces, SendGaps, OwedKept, SendAges DEF NodeInv
  <1>6. CASE Stamp
    BY <1>1, <1>6, StampPlaces, OtherGaps, OwedKept, StampAges DEF NodeInv
  <1>7. CASE NodePass
    BY <1>1, <1>7, PassPlaces, PassGaps, OwedKept, PassAges DEF NodeInv
  <1>8. QED
    BY <1>2, <1>3, <1>4, <1>5, <1>6, <1>7 DEF NodeNext, SenderThread

LEMMA NodeStutter == ASSUME NodeInv, UNCHANGED nodeVars PROVE NodeInv'
  <1>1. UNCHANGED <<phase, events, at, batch, sequence, frame, delay, since, sentAnything,
                    lag, gap, watched, owed, age>>
    BY DEF nodeVars, threadVars
  <1>2. NodeTypeOK' /\ NodeFlags' /\ NodePlaces'
    BY <1>1 DEF NodeInv, NodeTypeOK, NodeFlags, NodePlaces, GapCap, NodeReady
  <1>3. NodeGaps' /\ NodeOwed'
    BY <1>1 DEF NodeInv, NodeGaps, LongEnough, GapCap, NodeOwed, Answering
  <1>4. NodeAges'
    BY <1>1 DEF NodeInv, NodeAges, TimeLeft, Answering, WaitLeft, Ahead, In, AnswerTime
  <1>5. QED
    BY <1>2, <1>3, <1>4 DEF NodeInv

(* The invariant holds in every reachable state.                           *)
THEOREM NodeInvariance == NodeSpec => []NodeInv
  <1>1. NodeInit => NodeInv
    BY NodeSizesHold, NodeBegins
  <1>2. NodeInv /\ [NodeNext]_nodeVars => NodeInv'
    BY NodeSizesHold, NodeStep, NodeStutter
  <1>3. QED
    BY <1>1, <1>2, PTL DEF NodeSpec

(* Types hold in every reachable state: the clock of the seam, the waits   *)
(* and the lateness keep their ranges whatever is polled.                  *)
THEOREM NodeTypeCorrect == NodeSpec => []NodeTypeOK
  <1>1. NodeInv => NodeTypeOK
    BY DEF NodeInv
  <1>2. QED
    BY <1>1, NodeInvariance, PTL

(* Within a sequence the next frame follows by Interval and a thread's     *)
(* lateness, whatever is polled meanwhile (sendSequence).                  *)
THEOREM AnswersPaced == NodeSpec => []ReplyPace
  <1>1. NodeInv => ReplyPace
    <2>1. SUFFICES ASSUME NodeInv, ReadyToSend, frame > 0 PROVE gap <= Interval * Grain + MaxLag
      BY DEF ReplyPace
    <2>2. gap <= Ticks(Interval) + lag
      BY <2>1 DEF NodeInv, NodeGaps, ReadyToSend, NodeReady
    <2>3. Ticks(Interval) \in Nat /\ MaxLag \in Nat
      BY NodeSizesHold DEF NodeSizes
    <2>4. Ticks(Interval) + lag <= Ticks(Interval) + MaxLag
      BY <2>1, <2>3 DEF NodeInv, NodeTypeOK
    <2>5. gap \in Nat /\ lag \in Nat
      BY <2>1 DEF NodeInv, NodeTypeOK
    <2>6. gap <= Ticks(Interval) + MaxLag
      BY <2>2, <2>3, <2>4, <2>5
    <2>7. QED
      BY <2>6 DEF Ticks
  <1>2. QED
    BY <1>1, NodeInvariance, PTL

(* Two 0x6A2 frames are never less than the guard apart but for a tick,    *)
(* within a sequence and across the seam of two, although the seam is      *)
(* measured by a clock that wraps and in whole milliseconds (sendSequence).*)
THEOREM FramesApart == NodeSpec => []SpacingKept
  <1>1. NodeInv => SpacingKept
    <2>1. SUFFICES ASSUME NodeInv, ReadyToSend PROVE gap > (Guard - 1) * Grain
      BY DEF SpacingKept
    <2>2. GuardTime \in Nat /\ GuardTime <= Ticks(Interval) /\ Ticks(Interval) \in Nat /\ Guard \in Nat
      BY NodeSizesHold DEF NodeSizes
    <2>3. at = "send" /\ delay = 0 /\ gap \in Nat /\ frame \in Nat
      BY <2>1 DEF ReadyToSend, NodeReady, NodeInv, NodeTypeOK
    <2>4. gap + Grain > Ticks(Guard) \/ gap + Grain > Ticks(Interval)
      BY <2>1, <2>3 DEF NodeInv, NodeGaps, LongEnough
    <2>5. gap + Grain > GuardTime
      BY <2>2, <2>3, <2>4, GrainIsPositive DEF GuardTime
    <2>6. PICK g \in Nat : g = Guard /\ g * Grain = GuardTime
      BY <2>2 DEF GuardTime, Ticks
    <2>7. (g - 1) * Grain = g * Grain - Grain
      BY GrainIsPositive
    <2>8. gap > g * Grain - Grain
      BY <2>2, <2>3, <2>5, <2>6, GrainIsPositive
    <2>9. QED
      BY <2>6, <2>7, <2>8
  <1>2. QED
    BY <1>1, NodeInvariance, PTL

(* Every poll is answered within AnswerTime, also one that comes in the    *)
(* middle of a sequence or joins flags still pending (onIhuStatusFrame).   *)
THEOREM PollsAnswered == NodeSpec => []EachPollAnswered
  <1>1. NodeInv => EachPollAnswered
    <2>1. SUFFICES ASSUME NodeInv, owed PROVE age <= AnswerTime
      BY DEF EachPollAnswered
    <2>2. TimeLeft \in Nat /\ AnswerTime \in Nat /\ age \in Nat
      BY <2>1, NodeSizesHold, TimeIsBounded, AnswerInUnits DEF NodeInv, NodeTypeOK
    <2>3. age + TimeLeft <= AnswerTime
      BY <2>1 DEF NodeInv, NodeAges
    <2>4. QED
      BY <2>2, <2>3
  <1>2. QED
    BY <1>1, NodeInvariance, PTL
=============================================================================
