-------------------------- MODULE SidResourceProofs --------------------------
(***************************************************************************)
(* The four promises of the SID thread for every spacing, schedule, pace,  *)
(* fineness of time and lateness of threads.  That requests are spaced     *)
(* follows from lastRequest's clock never being ahead of the time since    *)
(* the request was sent, though it wraps; that they are repeated, from the *)
(* clock being behind by no more than its stamp was late, and from what is *)
(* left of any wait; that a driver's action is served, from its signal     *)
(* leading out of the base loop; that texts end, from how old deactivate() *)
(* can be while a grant that came before it is still pending, or in hand.  *)
(* Below them the three promises of SidText, for every interleaving of the *)
(* handler and the two threads: what is on the display is the text last    *)
(* asked for, the first after an activation is an event, and the scroller  *)
(* shows one whole song.                                                   *)
(***************************************************************************)
EXTENDS SidResource, SidText, RtxLemmas, Integers

Points == {"check", "signal_wait", "capture", "request", "stamp", "handle", "write", "handled"}

TypeOK ==
  /\ phase \in 0 .. Grain - 1
  /\ sidWriteAccessWanted \in BOOLEAN /\ sidDriverBreakthroughNeeded \in BOOLEAN
  /\ pending \in SUBSET Signals /\ signals \in SUBSET Signals
  /\ at \in Points /\ loop \in {"spacing", "base"} /\ breakthrough \in BOOLEAN
  /\ delay \in Nat /\ lag \in Nat
  /\ sinceRequest \in 0 .. Wrap - 1 /\ sinceText \in Nat
  /\ gap \in Nat /\ asked \in {"asked", "captured", "none"} /\ age \in Nat /\ off \in Nat

(* A thread that waits is not late, none is late beyond MaxLag, and one    *)
(* blocked in signal_wait has taken every signal.                          *)
WaitInv ==
  /\ lag <= MaxLag
  /\ delay > 0 => lag = 0 /\ at \in {"signal_wait", "write"}
  /\ at = "write" => delay <= Pace
  /\ at = "signal_wait" /\ delay > 0 => pending = {}

(* Between the request and its stamp lastRequest is still the one before.  *)
RequestInv ==
  /\ at # "stamp" => gap >= sinceRequest \/ gap >= Spacing * Grain
  /\ at \in {"capture", "request"} => gap >= Spacing * Grain

(* How long ago deactivate() may have been, while a grant that came before *)
(* it is pending, fetched, or has its text written.  Slack is what a text  *)
(* may have taken while the grant in hand was still pending; if another is *)
(* pending now there was none.                                             *)
PaceTime == Pace * Grain
Slack == IF "grant" \in pending THEN 0 ELSE PaceTime + MaxLag
InHand == at = "write" \/ (at = "handle" /\ "grant" \in signals)
OffInv ==
  ~sidWriteAccessWanted =>
    /\ "grant" \in pending /\ ~InHand => off <= PaceTime + MaxLag + lag
    /\ at = "handle" /\ "grant" \in signals => off <= Slack + lag
    /\ at = "write" /\ delay > 0 => off <= Slack + MaxLag + Elapsed(Pace, delay, phase)
    /\ at = "write" /\ delay = 0 => off <= Slack + MaxLag + PaceTime + lag

IInv == TypeOK /\ WaitInv /\ RequestInv /\ OffInv
-----------------------------------------------------------------------------
LEMMA Sizes ==
  /\ Spacing \in Nat /\ Base \in Nat /\ Pace \in Nat /\ MaxLag \in Nat
  /\ Wrap \in Nat /\ Wrap > 0
  /\ Spacing * Grain \in Nat /\ PaceTime \in Nat
  /\ RequestTime \in Nat /\ RequestTime >= Spacing * Grain /\ Spacing * Grain < Wrap
  /\ OffTime = 2 * PaceTime + 3 * MaxLag
<1>1. /\ Spacing \in Nat /\ Base \in Nat /\ Pace \in Nat /\ MaxLag \in Nat
      /\ Spacing + 3 \in Nat /\ Base + Pace + 1 \in Nat
      /\ Spacing + 3 <= Base + Pace + 1
  BY SidResourceAssumption
<1>2. Spacing * Grain \in Nat /\ PaceTime \in Nat /\ (Base + Pace + 1) * Grain \in Nat
  BY <1>1, TicksInUnits DEF PaceTime
<1>3. Spacing * Grain + 3 * Grain <= (Base + Pace + 1) * Grain
  <2>1. (Spacing + 3) * Grain <= (Base + Pace + 1) * Grain
    BY <1>1, TicksOrdered
  <2>2. (Spacing + 3) * Grain = Spacing * Grain + 3 * Grain
    BY <1>1, TicksAdded
  <2>3. QED
    BY <2>1, <2>2
<1>4. Spacing * Grain < Wrap /\ Wrap \in Nat
  BY <1>1, <1>2, <1>3, GrainIsPositive, SidResourceAssumption
<1>5. OffTime = 2 * PaceTime + 3 * MaxLag
  <2>1. ASSUME NEW k \in Nat, NEW m \in Nat PROVE 2 * k * m = 2 * (k * m)
    BY SMT
  <2>2. QED
    BY <1>1, <2>1, GrainIsPositive DEF OffTime, PaceTime
<1>6. QED
  BY <1>1, <1>2, <1>3, <1>4, <1>5, GrainIsPositive DEF RequestTime

LEMMA BreakthroughTimeIsNat == BreakthroughTime \in Nat
<1>1. Spacing + Pace + 1 \in Nat /\ 2 <= Spacing + Pace + 1 /\ MaxLag \in Nat
  BY SidResourceAssumption
<1>2. 2 * Grain <= (Spacing + Pace + 1) * Grain /\ (Spacing + Pace + 1) * Grain \in Nat
  BY <1>1, TicksOrdered, TicksInUnits
<1>3. QED
  BY <1>1, <1>2, GrainIsPositive DEF BreakthroughTime

LEMMA SlackBounds == Slack \in Nat /\ Slack <= PaceTime + MaxLag
BY Sizes DEF Slack

LEMMA PaceLeftBounds ==
  ASSUME TypeOK
  PROVE  PaceLeft \in 0 .. Pace
<1>1. sinceText \div Grain \in Nat
  BY WholeTicks DEF TypeOK
<1>2. QED
  BY <1>1, Sizes DEF PaceLeft

LEMMA SpacingLeftBounds ==
  ASSUME TypeOK
  PROVE  /\ SpacingLeft \in Nat
         /\ SpacingLeft = 0 => sinceRequest >= Spacing * Grain
<1>1. sinceRequest \in Nat
  BY Sizes DEF TypeOK
<1> DEFINE q == sinceRequest \div Grain
<1>2. q \in Nat /\ q * Grain <= sinceRequest
  BY <1>1, WholeTicks
<1>3. SpacingLeft \in Nat
  BY <1>2, Sizes DEF SpacingLeft
<1>4. SpacingLeft = 0 => q >= Spacing
  BY <1>2, Sizes DEF SpacingLeft
<1>5. q >= Spacing => q * Grain >= Spacing * Grain
  BY <1>2, TicksOrdered, Sizes
<1>6. q * Grain \in Nat
  BY <1>2, TicksInUnits
<1> HIDE DEF q
<1>7. QED
  BY <1>1, <1>2, <1>3, <1>4, <1>5, <1>6, Sizes
-----------------------------------------------------------------------------
LEMMA InitIInv == Init => IInv
<1> SUFFICES ASSUME Init PROVE IInv
  OBVIOUS
<1>1. TypeOK
  <2>1. phase \in 0 .. Grain - 1
    BY GrainIsPositive DEF Init
  <2>2. sinceRequest \in 0 .. Wrap - 1 /\ gap \in Nat
    BY Sizes DEF Init
  <2>3. QED
    BY <2>1, <2>2 DEF Init, TypeOK, Points
<1>2. WaitInv /\ RequestInv
  BY Sizes DEF Init, WaitInv, RequestInv
<1>3. OffInv
  BY Sizes, SlackBounds DEF Init, OffInv, InHand
<1>4. QED
  BY <1>1, <1>2, <1>3 DEF IInv

(* A signal that does not say that a grant came.                           *)
LEMMA SetSignalKeeps ==
  ASSUME IInv, NEW s \in Signals, SetSignal(s), Outside,
         sidWriteAccessWanted' \in BOOLEAN, sidDriverBreakthroughNeeded' \in BOOLEAN,
         asked' \in {"asked", "captured", "none"}, age' \in Nat, off' \in Nat
  PROVE  /\ TypeOK' /\ WaitInv' /\ RequestInv'
         /\ at' \in {at, "handle"}
         /\ \/ /\ at' = "handle" /\ signals' = {s} /\ pending' = {} /\ pending = {}
               /\ at = "signal_wait"
            \/ pending' = pending \cup {s} /\ UNCHANGED <<signals, at, delay>>
<1>1. CASE at = "signal_wait" /\ delay > 0
  BY <1>1, Sizes DEF SetSignal, Outside, clockVars, IInv, TypeOK, WaitInv, RequestInv, Points
<1>2. CASE ~(at = "signal_wait" /\ delay > 0)
  BY <1>2, Sizes DEF SetSignal, Outside, clockVars, IInv, TypeOK, WaitInv, RequestInv, Points
<1>3. QED
  BY <1>1, <1>2

LEMMA ActivateKeeps == IInv /\ Activate => IInv'
<1> SUFFICES ASSUME IInv, Activate PROVE IInv'
  OBVIOUS
<1>1. TypeOK' /\ WaitInv' /\ RequestInv'
  BY SetSignalKeeps DEF Activate, Signals, IInv, TypeOK
<1>2. OffInv'
  BY DEF Activate, OffInv
<1>3. QED
  BY <1>1, <1>2 DEF IInv

LEMMA DeactivateKeeps == IInv /\ Deactivate => IInv'
<1> SUFFICES ASSUME IInv, Deactivate PROVE IInv'
  OBVIOUS
<1>1. TypeOK' /\ WaitInv' /\ RequestInv'
  BY SetSignalKeeps DEF Deactivate, Signals, IInv, TypeOK
<1>2. OffInv'
  <2>1. off' = 0 /\ lag' \in Nat /\ delay' \in Nat /\ Slack' \in Nat
    BY <1>1, Sizes DEF Deactivate, TypeOK, Slack
  <2>2. at' = "write" => Elapsed(Pace, delay', phase') \in Nat
    BY <1>1, ElapsedAtStart, Sizes DEF TypeOK, WaitInv
  <2>3. PICK k \in Nat : k = lag'
    BY <2>1
  <2>4. PICK s \in Nat : s = Slack'
    BY <2>1
  <2>5. at' = "write" => 0 <= s + MaxLag + Elapsed(Pace, delay', phase')
    BY <2>2, Sizes
  <2>6. 0 <= PaceTime + MaxLag + k /\ 0 <= s + k /\ 0 <= s + MaxLag + PaceTime + k
    BY Sizes
  <2>7. QED
    BY <2>1, <2>3, <2>4, <2>5, <2>6 DEF OffInv, PaceTime
<1>3. QED
  BY <1>1, <1>2 DEF IInv

LEMMA GrantReceivedKeeps == IInv /\ GrantReceived => IInv'
<1> SUFFICES ASSUME IInv, GrantReceived PROVE IInv'
  OBVIOUS
<1>1. TypeOK' /\ WaitInv' /\ RequestInv'
  BY SetSignalKeeps DEF GrantReceived, flagVars, Signals, IInv, TypeOK
<1>2. OffInv'
  BY DEF GrantReceived, GrantIsWanted, flagVars, OffInv
<1>3. QED
  BY <1>1, <1>2 DEF IInv

LEMMA RequestDriverBreakthroughKeeps == IInv /\ RequestDriverBreakthrough => IInv'
<1> SUFFICES ASSUME IInv, RequestDriverBreakthrough PROVE IInv'
  OBVIOUS
<1>1. /\ TypeOK' /\ WaitInv' /\ RequestInv'
      /\ \/ /\ at' = "handle" /\ signals' = {"breakthrough"} /\ pending' = {} /\ pending = {}
            /\ at = "signal_wait"
         \/ pending' = pending \cup {"breakthrough"} /\ UNCHANGED <<signals, at, delay>>
  BY SetSignalKeeps DEF RequestDriverBreakthrough, Signals, IInv, TypeOK
<1>2. "grant" \in pending' <=> "grant" \in pending
  BY <1>1
<1>3. UNCHANGED <<sidWriteAccessWanted, off, phase, lag>>
  BY DEF RequestDriverBreakthrough, Outside
<1>4. OffInv'
  <2>1. CASE UNCHANGED <<signals, at, delay>>
    BY <1>2, <1>3, <2>1 DEF IInv, OffInv, InHand, Slack
  <2>2. CASE at' = "handle" /\ signals' = {"breakthrough"} /\ pending' = {}
    BY <2>2 DEF OffInv, InHand
  <2>3. QED
    BY <1>1, <2>1, <2>2
<1>5. QED
  BY <1>1, <1>4 DEF IInv

(* What fetching the signals, or blocking for them, makes of a grant.      *)
LEMMA SignalWaitKeeps ==
  ASSUME IInv, Step, at \in {"check", "stamp", "handled"}, NEW n \in Nat, SignalWait(n),
         UNCHANGED off
  PROVE  /\ at' \in {"signal_wait", "handle"} /\ delay' \in Nat /\ lag' \in Nat
         /\ pending' = {} /\ signals' \in SUBSET Signals
         /\ WaitInv' /\ OffInv'
<1>1. delay = 0 /\ UNCHANGED <<phase, sidWriteAccessWanted>> /\ TypeOK /\ WaitInv /\ OffInv
  BY DEF Step, Ready, IInv
<1>2. CASE pending = {}
  <2>1. at' = "signal_wait" /\ delay' = n /\ lag' = 0 /\ signals' = signals /\ pending' = {}
    BY <1>2 DEF SignalWait
  <2>2. QED
    BY <1>1, <2>1, Sizes DEF TypeOK, WaitInv, OffInv, InHand
<1>3. CASE pending # {}
  <2>1. /\ at' = "handle" /\ signals' = pending /\ pending' = {}
        /\ UNCHANGED <<delay, lag>>
    BY <1>3 DEF SignalWait
  <2>2. WaitInv'
    BY <1>1, <2>1 DEF WaitInv
  <2>3. OffInv'
    <3>1. Slack' = PaceTime + MaxLag
      BY <2>1 DEF Slack, PaceTime
    <3>2. ~sidWriteAccessWanted /\ "grant" \in pending => off <= PaceTime + MaxLag + lag
      BY <1>1 DEF OffInv, InHand
    <3>3. QED
      BY <1>1, <2>1, <3>1, <3>2 DEF OffInv, InHand, PaceTime
  <2>4. QED
    BY <1>1, <2>1, <2>2, <2>3 DEF TypeOK
<1>4. QED
  BY <1>2, <1>3

LEMMA CheckSpacingKeeps == IInv /\ CheckSpacing => IInv'
<1> SUFFICES ASSUME IInv, CheckSpacing PROVE IInv'
  OBVIOUS
<1>1. /\ at = "check" /\ Step
      /\ UNCHANGED <<sidDriverBreakthroughNeeded, loop, breakthrough, clockVars, ghostVars>>
  BY DEF CheckSpacing
<1>2. CASE SpacingLeft = 0
  <2>1. sinceRequest >= Spacing * Grain /\ at' = "capture"
    BY <1>2, SpacingLeftBounds DEF IInv, CheckSpacing
  <2>2. UNCHANGED <<pending, signals, delay, lag>>
    BY <1>2 DEF CheckSpacing
  <2>3. TypeOK' /\ WaitInv' /\ OffInv'
    BY <1>1, <2>1, <2>2, Sizes
    DEF Step, clockVars, ghostVars, IInv, TypeOK, WaitInv, OffInv, InHand, Points
  <2>4. RequestInv'
    <3>1. gap >= Spacing * Grain
      BY <1>1, <2>1, Sizes DEF IInv, TypeOK, RequestInv
    <3>2. QED
      BY <1>1, <2>1, <3>1 DEF ghostVars, RequestInv
  <2>5. QED
    BY <2>3, <2>4 DEF IInv
<1>3. CASE SpacingLeft # 0
  <2>1. SignalWait(SpacingLeft)
    BY <1>3 DEF CheckSpacing
  <2>2. /\ at' \in {"signal_wait", "handle"} /\ delay' \in Nat /\ lag' \in Nat
        /\ pending' = {} /\ signals' \in SUBSET Signals /\ WaitInv' /\ OffInv'
    BY <1>1, <2>1, SignalWaitKeeps, SpacingLeftBounds DEF IInv, ghostVars
  <2>3. TypeOK' /\ RequestInv'
    BY <1>1, <2>2 DEF Step, clockVars, ghostVars, IInv, TypeOK, RequestInv, Points
  <2>4. QED
    BY <2>2, <2>3 DEF IInv
<1>4. QED
  BY <1>2, <1>3

LEMMA TimeoutKeeps == IInv /\ Timeout => IInv'
BY DEF Timeout, Step, Ready, clockVars, ghostVars, IInv, TypeOK, WaitInv, RequestInv, OffInv, InHand,
       Points, Slack

LEMMA CaptureKeeps == IInv /\ Capture => IInv'
<1> SUFFICES ASSUME IInv, Capture PROVE IInv'
  OBVIOUS
<1>1. asked' \in {"asked", "captured", "none"}
  BY DEF Capture, IInv, TypeOK
<1>2. QED
  BY <1>1 DEF Capture, Step, Ready, clockVars, IInv, TypeOK, WaitInv, RequestInv, OffInv, InHand,
              Points, Slack

LEMMA SendDisplayRequestKeeps == IInv /\ SendDisplayRequest => IInv'
<1> SUFFICES ASSUME IInv, SendDisplayRequest PROVE IInv'
  OBVIOUS
<1>1. asked' \in {"asked", "captured", "none"} /\ age' \in Nat
  BY DEF SendDisplayRequest, IInv, TypeOK
<1>2. QED
  BY <1>1 DEF SendDisplayRequest, FlagKept, Step, Ready, clockVars, IInv, TypeOK, WaitInv,
              RequestInv, OffInv, InHand, Points, Slack

LEMMA StampKeeps == IInv /\ Stamp => IInv'
<1> SUFFICES ASSUME IInv, Stamp PROVE IInv'
  OBVIOUS
<1>1. /\ at = "stamp" /\ Step /\ SignalWait(Base) /\ sinceRequest' = 0 /\ loop' = "base"
      /\ UNCHANGED <<sidDriverBreakthroughNeeded, breakthrough, sinceText, ghostVars>>
  BY DEF Stamp
<1>2. /\ at' \in {"signal_wait", "handle"} /\ delay' \in Nat /\ lag' \in Nat
      /\ pending' = {} /\ signals' \in SUBSET Signals /\ WaitInv' /\ OffInv'
  BY <1>1, SignalWaitKeeps, Sizes DEF ghostVars
<1>3. TypeOK' /\ RequestInv'
  BY <1>1, <1>2, Sizes DEF Step, ghostVars, IInv, TypeOK, RequestInv, Points
<1>4. QED
  BY <1>2, <1>3 DEF IInv

LEMMA HandleKeeps == IInv /\ Handle => IInv'
<1> SUFFICES ASSUME IInv, Handle PROVE IInv'
  OBVIOUS
<1>1. /\ at = "handle" /\ delay = 0 /\ lag \in Nat /\ lag <= MaxLag
      /\ UNCHANGED <<phase, sidWriteAccessWanted, sidDriverBreakthroughNeeded, pending, loop,
                     signals, breakthrough, sinceRequest, sinceText, gap, asked, age, off>>
      /\ TypeOK /\ WaitInv /\ RequestInv /\ OffInv
  BY DEF Handle, Step, Ready, clockVars, ghostVars, IInv, TypeOK, WaitInv
<1>2. CASE "grant" \in signals
  <2>1. PICK d \in 0 .. Pace : d = PaceLeft
    BY <1>1, PaceLeftBounds
  <2>2. at' = "write" /\ delay' = d /\ lag' = IF d > 0 THEN 0 ELSE lag
    BY <1>2, <2>1 DEF Handle
  <2>3. TypeOK' /\ WaitInv' /\ RequestInv'
    BY <1>1, <2>2, Sizes DEF TypeOK, WaitInv, RequestInv, Points
  <2>4. OffInv'
    <3>1. Slack' = Slack /\ Slack \in Nat /\ off \in Nat
      BY <1>1, SlackBounds DEF Slack, TypeOK
    <3>2. PICK e \in Nat : e = Elapsed(Pace, d, phase)
      BY <1>1, ElapsedAtStart, Sizes DEF TypeOK
    <3>3. ~sidWriteAccessWanted => off <= Slack + lag
      BY <1>1, <1>2 DEF OffInv
    <3>4. ~sidWriteAccessWanted => /\ off <= Slack + MaxLag + e
                                    /\ off <= Slack + MaxLag + PaceTime + lag
      BY <1>1, <3>1, <3>3, Sizes
    <3>5. Elapsed(Pace, delay', phase') = e
      BY <1>1, <2>2, <3>2
    <3>6. QED
      BY <1>1, <2>2, <3>1, <3>4, <3>5 DEF OffInv, InHand, PaceTime
  <2>5. QED
    BY <2>3, <2>4 DEF IInv
<1>3. CASE "grant" \notin signals
  <2>1. at' = "handled" /\ UNCHANGED <<delay, lag>>
    BY <1>3 DEF Handle
  <2>2. TypeOK' /\ WaitInv' /\ RequestInv'
    BY <1>1, <2>1 DEF TypeOK, WaitInv, RequestInv, Points
  <2>3. OffInv'
    BY <1>1, <1>3, <2>1 DEF OffInv, InHand
  <2>4. QED
    BY <2>2, <2>3 DEF IInv
<1>4. QED
  BY <1>2, <1>3

LEMMA WriteTextKeeps == IInv /\ WriteText => IInv'
<1> SUFFICES ASSUME IInv, WriteText PROVE IInv'
  OBVIOUS
<1>1. /\ at = "write" /\ delay = 0 /\ at' = "handled" /\ sinceText' = 0
      /\ UNCHANGED <<phase, sidWriteAccessWanted, sidDriverBreakthroughNeeded, pending, loop,
                     signals, breakthrough, delay, lag, sinceRequest, gap, asked, age, off>>
      /\ TypeOK /\ WaitInv /\ RequestInv /\ OffInv
  BY DEF WriteText, Step, Ready, ghostVars, IInv
<1>2. TypeOK' /\ WaitInv' /\ RequestInv'
  BY <1>1 DEF TypeOK, WaitInv, RequestInv, Points
<1>3. ~sidWriteAccessWanted /\ "grant" \in pending => off <= PaceTime + MaxLag + lag
  <2>1. Slack = 0 \/ "grant" \notin pending
    BY DEF Slack
  <2>2. QED
    BY <1>1, <2>1, Sizes DEF OffInv, TypeOK
<1>4. OffInv'
  BY <1>1, <1>3 DEF OffInv, InHand, PaceTime
<1>5. QED
  BY <1>2, <1>4 DEF IInv

LEMMA HandledKeeps == IInv /\ Handled => IInv'
<1> SUFFICES ASSUME IInv, Handled PROVE IInv'
  OBVIOUS
<1>1. /\ at = "handled" /\ Step
      /\ UNCHANGED <<sidDriverBreakthroughNeeded, breakthrough, clockVars, ghostVars>>
  BY DEF Handled
<1>2. CASE GoesOn
  <2>1. Remaining \in Nat
    <3>1. PICK q \in Nat : q = sinceRequest \div Grain
      BY WholeTicks, Sizes DEF IInv, TypeOK
    <3>2. q < Base
      BY <1>2, <3>1 DEF GoesOn
    <3>3. QED
      BY <3>1, <3>2, Sizes DEF Remaining
  <2>2. SignalWait(Remaining) /\ loop' = loop
    BY <1>2 DEF Handled
  <2>3. /\ at' \in {"signal_wait", "handle"} /\ delay' \in Nat /\ lag' \in Nat
        /\ pending' = {} /\ signals' \in SUBSET Signals /\ WaitInv' /\ OffInv'
    BY <1>1, <2>1, <2>2, SignalWaitKeeps DEF ghostVars
  <2>4. TypeOK' /\ RequestInv'
    BY <1>1, <2>2, <2>3 DEF Step, clockVars, ghostVars, IInv, TypeOK, RequestInv, Points
  <2>5. QED
    BY <2>3, <2>4 DEF IInv
<1>3. CASE ~GoesOn
  <2>1. at' = "check" /\ loop' = "spacing" /\ UNCHANGED <<pending, signals, delay, lag>>
    BY <1>3 DEF Handled
  <2>2. QED
    BY <1>1, <2>1 DEF Step, clockVars, ghostVars, IInv, TypeOK, WaitInv, RequestInv, OffInv,
                      InHand, Points
<1>4. QED
  BY <1>2, <1>3

(* A unit of time: the clock of the requests comes on no faster than the   *)
(* time since the request, and off no faster than the wait or the lateness *)
(* that bounds it.                                                         *)
LEMMA PassKeeps == IInv /\ Pass => IInv'
<1> SUFFICES ASSUME IInv, Pass PROVE IInv'
  OBVIOUS
<1>1. /\ UNCHANGED <<sidWriteAccessWanted, sidDriverBreakthroughNeeded, pending, at, loop, signals,
                     breakthrough, asked>>
      /\ phase' = NextPhase(phase) /\ delay' = Elapse(delay, phase)
      /\ lag' = IF delay = 0 THEN lag + 1 ELSE 0
      /\ sinceRequest' = (sinceRequest + 1) % Wrap
      /\ gap' = CountTo(RequestTime + 1, gap)
      /\ delay = 0 => lag < MaxLag
  BY DEF Pass, Ready, flagVars
<1>2. off' = IF sidWriteAccessWanted THEN 0 ELSE CountTo(OffTime + 1, off)
  BY DEF Pass
<1>3. TypeOK /\ WaitInv /\ RequestInv /\ OffInv
  BY DEF IInv
<1>4. OffTime \in Nat /\ BreakthroughTime \in Nat
  BY BreakthroughTimeIsNat, Sizes
<1>5. /\ phase' \in 0 .. Grain - 1 /\ delay' \in Nat /\ delay' <= delay
      /\ delay = 0 => delay' = 0
  BY <1>1, <1>3, ElapsedGrows, NoWaitStaysOver DEF TypeOK
<1>6. lag' \in Nat /\ lag' <= MaxLag /\ (delay' > 0 => lag' = 0)
  BY <1>1, <1>3, <1>5, Sizes DEF TypeOK, WaitInv
<1>7. sinceRequest' \in 0 .. Wrap - 1 /\ sinceRequest' <= sinceRequest + 1
  <2>1. PICK t \in Nat : t = sinceRequest + 1
    BY <1>3, Sizes DEF TypeOK
  <2>2. t % Wrap \in 0 .. Wrap - 1 /\ t % Wrap <= t
    BY ClockWraps, Sizes
  <2>3. QED
    BY <1>1, <2>1, <2>2
<1>8. gap' \in Nat /\ (gap' = gap + 1 \/ gap' >= Spacing * Grain)
  BY <1>1, <1>3, Sizes DEF CountTo, TypeOK
<1>9. off' \in Nat /\ (~sidWriteAccessWanted => off' <= off + 1)
  BY <1>2, <1>3, <1>4, Sizes DEF CountTo, TypeOK
<1>10. TypeOK'
  <2>1. sinceText' \in Nat
    BY <1>3 DEF Pass, TypeOK
  <2>2. age' \in Nat
    BY <1>3, <1>4 DEF Pass, CountTo, TypeOK
  <2>3. QED
    BY <1>1, <1>3, <1>5, <1>6, <1>7, <1>8, <1>9, <2>1, <2>2 DEF TypeOK
<1>11. WaitInv'
  BY <1>1, <1>3, <1>5, <1>6, Sizes DEF TypeOK, WaitInv
<1>12. RequestInv'
  <2>1. PICK s \in Nat, g \in Nat : s = sinceRequest' /\ g = gap'
    BY <1>7, <1>8, Sizes
  <2>2. gap \in Nat /\ sinceRequest \in Nat
    BY <1>3, Sizes DEF TypeOK
  <2>3. gap >= Spacing * Grain => g >= Spacing * Grain
    BY <1>8, <2>1, <2>2, Sizes
  <2>4. gap >= sinceRequest => g >= s \/ g >= Spacing * Grain
    BY <1>7, <1>8, <2>1, <2>2, Sizes
  <2>5. QED
    BY <1>1, <1>3, <2>1, <2>3, <2>4 DEF RequestInv
<1>13. OffInv'
  <2> SUFFICES ASSUME ~sidWriteAccessWanted PROVE OffInv'
    BY <1>1 DEF OffInv
  <2>1. PICK o \in Nat : o = off' /\ o <= off + 1
    BY <1>9
  <2>2. Slack' = Slack /\ Slack \in Nat /\ off \in Nat
    BY <1>1, <1>3, SlackBounds DEF Slack, TypeOK
  <2>3. CASE delay = 0
    <3>1. lag' = lag + 1 /\ delay' = 0 /\ lag \in Nat
      BY <1>1, <1>3, <1>5, <2>3 DEF TypeOK
    <3>2. "grant" \in pending /\ ~InHand => o <= PaceTime + MaxLag + (lag + 1)
      BY <1>3, <2>1, <2>2, <3>1, Sizes DEF OffInv
    <3>3. at = "handle" /\ "grant" \in signals => o <= Slack + (lag + 1)
      BY <1>3, <2>1, <2>2, <3>1, Sizes DEF OffInv
    <3>4. at = "write" => o <= Slack + MaxLag + PaceTime + (lag + 1)
      BY <1>3, <2>1, <2>2, <2>3, <3>1, Sizes DEF OffInv
    <3>5. QED
      BY <1>1, <2>1, <2>2, <3>1, <3>2, <3>3, <3>4 DEF OffInv, InHand, PaceTime
  <2>4. CASE delay > 0 /\ at = "signal_wait"
    BY <1>1, <1>3, <2>4 DEF WaitInv, OffInv, InHand
  <2>5. CASE delay > 0 /\ at = "write"
    <3>1. delay \in Nat /\ delay <= Pace /\ phase \in 0 .. Grain - 1
      BY <1>3, <2>5 DEF TypeOK, WaitInv
    <3> DEFINE old == Elapsed(Pace, delay, phase)
               new == Elapsed(Pace, delay', phase')
    <3>2. old \in Nat /\ new = old + 1 /\ (delay' = 0 => old + 1 = PaceTime)
      BY <1>1, <2>5, <3>1, ElapsedGrows, Sizes DEF PaceTime
    <3>3. off <= Slack + MaxLag + old
      BY <1>3, <2>5 DEF OffInv
    <3>4. lag' = 0
      BY <1>1, <2>5
    <3>5. /\ off' <= Slack' + MaxLag + new
          /\ delay' = 0 => off' <= Slack' + MaxLag + PaceTime + lag'
      <4> HIDE DEF old, new
      <4>1. ASSUME NEW b \in Nat, off <= b + MaxLag + old
            PROVE  /\ o <= b + MaxLag + (old + 1)
                   /\ o <= b + MaxLag + (old + 1) + 0
        BY <2>1, <2>2, <3>2, <4>1, Sizes
      <4>2. o <= Slack + MaxLag + (old + 1) /\ o <= Slack + MaxLag + (old + 1) + 0
        BY <2>2, <3>3, <4>1
      <4>3. QED
        BY <2>1, <2>2, <3>2, <3>4, <4>2, Zenon
    <3>6. QED
      BY <1>1, <2>5, <3>5 DEF OffInv, InHand, PaceTime
  <2>6. QED
    BY <1>3, <2>3, <2>4, <2>5 DEF TypeOK, WaitInv
<1>14. QED
  BY <1>10, <1>11, <1>12, <1>13 DEF IInv

LEMMA IInvStep == IInv /\ [Next]_vars => IInv'
<1> SUFFICES ASSUME IInv, [Next]_vars PROVE IInv'
  OBVIOUS
<1>1. CASE UNCHANGED vars
  BY <1>1 DEF vars, flagVars, clockVars, ghostVars, IInv, TypeOK, WaitInv, RequestInv, OffInv,
              InHand, Slack
<1>2. CASE Handlers
  BY <1>2, ActivateKeeps, DeactivateKeeps, GrantReceivedKeeps, RequestDriverBreakthroughKeeps
  DEF Handlers
<1>3. CASE SidThread
  BY <1>3, CheckSpacingKeeps, TimeoutKeeps, CaptureKeeps, SendDisplayRequestKeeps, StampKeeps,
     HandleKeeps, WriteTextKeeps, HandledKeeps
  DEF SidThread
<1>4. CASE Pass
  BY <1>4, PassKeeps
<1>5. QED
  BY <1>1, <1>2, <1>3, <1>4 DEF Next

LEMMA Invariance == Spec => []IInv
BY InitIInv, IInvStep, PTL DEF Spec
-----------------------------------------------------------------------------
(***************************************************************************)
(* The schedule.  The thread is on time for n ticks after a request if it  *)
(* waits no longer than to the end of tick n, or is held up after that by  *)
(* one text and by the lateness of a thread before and after it.           *)
(***************************************************************************)
End(n) == (n + 1) * Grain
LateTime(n) == End(n) + PaceTime + MaxLag - 2
OnTime(n) ==
  /\ at = "signal_wait" /\ delay > 0 => sinceRequest + ToGo(delay, phase) <= End(n) - 1
  /\ at = "signal_wait" /\ delay = 0 => sinceRequest <= End(n) - 1 + lag
  /\ at = "handle" => sinceRequest <= End(n) - 2 + lag
  /\ at = "write" /\ delay > 0 => sinceRequest + ToGo(delay, phase) <= LateTime(n)
  /\ at = "write" /\ delay = 0 => sinceRequest <= LateTime(n) + lag
  /\ at \in {"handled", "check", "capture", "request"} => sinceRequest <= LateTime(n) + lag

(* The clock of the requests is behind by no more than its stamp was late. *)
RepeatInv ==
  /\ at = "stamp" => gap <= lag
  /\ at # "stamp" => gap <= sinceRequest + MaxLag /\ OnTime(Base)

LEMMA ScheduleSizes ==
  ASSUME NEW n \in Nat
  PROVE  /\ End(n) \in Nat /\ End(n) > 0 /\ PaceTime \in Nat /\ PaceTime > 0
         /\ LateTime(n) \in Nat /\ LateTime(n) >= End(n) - 1
         /\ LateTime(n) + 2 * MaxLag = (n + Pace + 1) * Grain + 3 * MaxLag - 2
<1>1. n + 1 \in Nat /\ 1 <= n + 1 /\ Pace \in Nat /\ 1 <= Pace /\ MaxLag \in Nat
  BY SidResourceAssumption
<1>2. 1 * Grain <= (n + 1) * Grain /\ 1 * Grain <= Pace * Grain
  BY <1>1, TicksOrdered
<1>3. (n + 1) * Grain \in Nat /\ Pace * Grain \in Nat
  BY <1>1, TicksInUnits
<1>4. PICK e \in Nat, t \in Nat : e = End(n) /\ t = PaceTime /\ e > 0 /\ t > 0
  <2>1. 1 * Grain = Grain /\ Grain > 0
    BY GrainIsPositive
  <2>2. End(n) \in Nat /\ PaceTime \in Nat /\ Grain <= End(n) /\ Grain <= PaceTime
    BY <1>2, <1>3, <2>1, Zenon DEF End, PaceTime
  <2>3. QED
    BY <2>1, <2>2, GrainIsPositive
<1>5. (n + Pace + 1) * Grain = e + t
  <2>1. (n + 1) + Pace = n + Pace + 1
    BY <1>1
  <2>2. ((n + 1) + Pace) * Grain = (n + 1) * Grain + Pace * Grain
    BY <1>1, TicksAdded
  <2>3. QED
    BY <1>4, <2>1, <2>2 DEF End, PaceTime
<1>6. LateTime(n) = e + t + MaxLag - 2
  BY <1>4 DEF LateTime
<1>7. QED
  BY <1>1, <1>4, <1>5, <1>6

LEMMA LongestRequestTime ==
  /\ Base \in Nat /\ RequestTime = LateTime(Base) + 2 * MaxLag /\ RequestTime + 2 <= Wrap
<1>1. Base \in Nat
  BY SidResourceAssumption
<1>2. RequestTime = LateTime(Base) + 2 * MaxLag
  BY <1>1, ScheduleSizes DEF RequestTime
<1>3. PICK t \in Nat : t = (Base + Pace + 1) * Grain
  BY SidResourceAssumption, TicksInUnits
<1>4. RequestTime = t + 3 * MaxLag - 2 /\ t + 3 * MaxLag <= Wrap
  BY <1>3, SidResourceAssumption DEF RequestTime
<1>5. QED
  BY <1>1, <1>2, <1>3, <1>4, SidResourceAssumption

(* The ticks the loops still wait end with tick n at the latest.           *)
LEMMA RestOfTicks ==
  ASSUME NEW n \in Nat, NEW s \in Nat, s \div Grain < n
  PROVE  /\ n - s \div Grain \in Nat /\ n - s \div Grain > 0
         /\ s + (n - s \div Grain) * Grain <= End(n) - 1
<1>1. PICK q \in Nat : q = s \div Grain /\ s < q * Grain + Grain
  BY WholeTicks
<1>2. PICK m \in Nat : n = q + m /\ m > 0
  <2>1. n - q \in Nat /\ n = q + (n - q) /\ n - q > 0
    BY <1>1
  <2>2. QED
    BY <2>1
<1>3. PICK a \in Nat, b \in Nat : /\ a = q * Grain /\ b = m * Grain
                                 /\ n * Grain = a + b /\ End(n) = a + b + Grain
  <2>1. (q + m) * Grain = q * Grain + m * Grain /\ q * Grain \in Nat /\ m * Grain \in Nat
    BY <1>2, TicksAdded, TicksInUnits
  <2>2. End(n) = n * Grain + Grain
    BY TicksInUnits DEF End
  <2>3. QED
    BY <1>2, <2>1, <2>2
<1>4. n - s \div Grain = m
  BY <1>1, <1>2
<1>5. QED
  BY <1>1, <1>2, <1>3, <1>4, GrainIsPositive

LEMMA OnTimeAfterWait ==
  ASSUME IInv, Ready, UNCHANGED phase, NEW n \in Nat, NEW m \in Nat, m > 0, SignalWait(m),
         sinceRequest' \in Nat, sinceRequest' + m * Grain <= End(n) - 1
  PROVE  OnTime(n)'
<1>1. PICK s \in Nat : s = sinceRequest'
  OBVIOUS
<1>2. phase \in 0 .. Grain - 1 /\ lag \in Nat
  BY DEF IInv, TypeOK
<1>3. PICK e \in Nat, b \in Nat : e = End(n) /\ b = m * Grain /\ b > 0 /\ s + b <= e - 1
  <2>1. 1 <= m /\ 1 * Grain = Grain
    BY GrainIsPositive
  <2>2. m * Grain \in Nat /\ Grain <= m * Grain
    BY <2>1, TicksInUnits, TicksOrdered
  <2>3. m * Grain > 0
    BY <2>2, GrainIsPositive
  <2>4. QED
    BY <1>1, <2>2, <2>3, ScheduleSizes
<1>4. CASE pending = {}
  <2>1. at' = "signal_wait" /\ delay' = m /\ lag' = 0
    BY <1>4 DEF SignalWait
  <2>2. PICK l \in Nat : l = ToGo(m, phase) /\ l <= b
    BY <1>2, <1>3, LeftShrinks
  <2>3. s + l <= e - 1
    BY <1>3, <2>2
  <2>4. QED
    BY <1>1, <1>3, <2>1, <2>2, <2>3 DEF OnTime
<1>5. CASE pending # {}
  <2>1. at' = "handle" /\ lag' = lag
    BY <1>5 DEF SignalWait
  <2>2. s <= e - 2 + lag
    BY <1>2, <1>3
  <2>3. QED
    BY <1>1, <1>3, <2>1, <2>2 DEF OnTime
<1>6. QED
  BY <1>4, <1>5

LEMMA OnTimeKept ==
  ASSUME IInv, IInv', NEW n \in Nat, OnTime(n),
         \/ \E s \in Signals : SetSignal(s) /\ Outside
         \/ CheckSpacing /\ SpacingLeft = 0
         \/ Timeout \/ Capture \/ SendDisplayRequest \/ Handle \/ WriteText
         \/ Handled /\ ~GoesOn
         \/ Pass /\ sinceRequest' = sinceRequest + 1
  PROVE  OnTime(n)'
<1>1. /\ sinceRequest \in Nat /\ lag \in Nat /\ lag <= MaxLag /\ delay \in Nat
      /\ phase \in 0 .. Grain - 1
      /\ at = "write" => delay <= Pace
      /\ delay > 0 => lag = 0 /\ at \in {"signal_wait", "write"}
  BY Sizes DEF IInv, TypeOK, WaitInv
<1>2. PICK e \in Nat, w \in Nat, f \in Nat :
        e = End(n) /\ e > 0 /\ w = PaceTime /\ w > 0 /\ f = LateTime(n) /\ f = e + w + MaxLag - 2
  BY ScheduleSizes DEF LateTime
<1>3. delay > 0 => ToGo(delay, phase) \in Nat /\ ToGo(delay, phase) > 0
  BY <1>1, LeftShrinks
<1>4. ASSUME NEW s \in Signals, SetSignal(s), Outside PROVE OnTime(n)'
  <2>1. UNCHANGED <<phase, lag, sinceRequest>>
    BY <1>4 DEF Outside, clockVars
  <2>2. CASE at = "signal_wait" /\ delay > 0
    <3>1. at' = "handle" /\ delay' = 0
      BY <1>4, <2>2 DEF SetSignal
    <3>2. sinceRequest + ToGo(delay, phase) <= e - 1
      BY <1>2, <2>2 DEF OnTime
    <3>3. sinceRequest <= e - 2 + lag
      BY <1>1, <1>2, <1>3, <2>2, <3>2
    <3>4. QED
      BY <1>2, <2>1, <3>1, <3>3 DEF OnTime
  <2>3. CASE ~(at = "signal_wait" /\ delay > 0)
    BY <1>4, <2>1, <2>3 DEF SetSignal, OnTime
  <2>4. QED
    BY <2>2, <2>3
<1>5. CASE CheckSpacing /\ SpacingLeft = 0
  BY <1>5 DEF CheckSpacing, clockVars, OnTime
<1>6. CASE Timeout
  <2>1. at = "signal_wait" /\ delay = 0 /\ at' = "check" /\ UNCHANGED <<sinceRequest, lag>>
    BY <1>6 DEF Timeout, Step, Ready, clockVars
  <2>2. sinceRequest <= f + lag
    BY <1>1, <1>2, <2>1, Sizes DEF OnTime
  <2>3. QED
    BY <1>2, <2>1, <2>2 DEF OnTime
<1>7. CASE Capture \/ SendDisplayRequest
  BY <1>7 DEF Capture, SendDisplayRequest, clockVars, OnTime
<1>8. CASE Handle
  <2>1. /\ at = "handle" /\ delay = 0 /\ UNCHANGED <<phase, sinceRequest>>
        /\ IF "grant" \in signals
           THEN at' = "write" /\ delay' = PaceLeft /\ lag' = IF delay' > 0 THEN 0 ELSE lag
           ELSE at' = "handled" /\ UNCHANGED <<delay, lag>>
    BY <1>8 DEF Handle, Step, Ready, clockVars
  <2>2. sinceRequest <= e - 2 + lag
    BY <1>2, <2>1 DEF OnTime
  <2>3. sinceRequest <= f + lag /\ sinceRequest <= (e - 2) + MaxLag
    BY <1>1, <1>2, <2>2, Sizes
  <2>4. CASE at' = "write" /\ delay' > 0
    <3>1. PICK d \in Nat : d = delay' /\ d > 0 /\ d <= Pace
      BY <2>1, <2>4, PaceLeftBounds, Sizes DEF IInv
    <3>2. PICK l \in Nat : l = ToGo(d, phase) /\ l <= w
      <4>1. ToGo(d, phase) \in Nat /\ ToGo(d, phase) <= d * Grain
        BY <1>1, <3>1, LeftShrinks
      <4>2. d * Grain <= PaceTime /\ d * Grain \in Nat
        BY <3>1, TicksOrdered, TicksInUnits, Sizes DEF PaceTime
      <4>3. QED
        BY <1>2, <4>1, <4>2
    <3>3. sinceRequest + l <= f
      BY <1>1, <1>2, <2>3, <3>2, Sizes
    <3>4. QED
      BY <1>2, <2>1, <2>4, <3>1, <3>2, <3>3 DEF OnTime
  <2>5. CASE ~(at' = "write" /\ delay' > 0)
    <3>1. lag' = lag /\ at' \in {"write", "handled"} /\ sinceRequest' = sinceRequest
      BY <2>1, <2>5
    <3>2. sinceRequest' <= f + lag'
      BY <2>3, <3>1
    <3>3. QED
      BY <1>2, <2>5, <3>1, <3>2 DEF OnTime
  <2>6. QED
    BY <2>4, <2>5
<1>9. CASE WriteText
  BY <1>9 DEF WriteText, Step, Ready, OnTime
<1>10. CASE Handled /\ ~GoesOn
  BY <1>10 DEF Handled, clockVars, OnTime
<1>11. CASE Pass /\ sinceRequest' = sinceRequest + 1
  <2>1. /\ at' = at /\ phase' = NextPhase(phase) /\ delay' = Elapse(delay, phase)
        /\ lag' = IF delay = 0 THEN lag + 1 ELSE 0
        /\ sinceRequest' = sinceRequest + 1
    BY <1>11 DEF Pass, Ready
  <2>2. CASE delay = 0
    <3>1. lag' = lag + 1 /\ delay' = 0
      BY <1>1, <2>1, <2>2, NoWaitStaysOver
    <3>2. \A b \in Int : sinceRequest <= b + lag => sinceRequest' <= b + lag'
      BY <1>1, <2>1, <3>1
    <3>3. PICK b \in Int, c \in Int : b = e - 1 /\ c = e - 2
      BY <1>2
    <3>4. /\ at = "signal_wait" => sinceRequest <= b + lag
          /\ at = "handle" => sinceRequest <= c + lag
          /\ at = "write" => sinceRequest <= f + lag
          /\ at \in {"handled", "check", "capture", "request"} => sinceRequest <= f + lag
      BY <1>2, <2>2, <3>3 DEF OnTime
    <3>5. /\ at = "signal_wait" => sinceRequest' <= b + lag'
          /\ at = "handle" => sinceRequest' <= c + lag'
          /\ at = "write" => sinceRequest' <= f + lag'
          /\ at \in {"handled", "check", "capture", "request"} => sinceRequest' <= f + lag'
      BY <3>2, <3>4
    <3>6. QED
      BY <1>2, <2>1, <3>1, <3>3, <3>5 DEF OnTime
  <2>3. CASE delay > 0
    <3>1. /\ ToGo(delay', phase') = ToGo(delay, phase) - 1
          /\ delay' = 0 => ToGo(delay, phase) = 1
      BY <1>1, <2>1, <2>3, LeftShrinks
    <3>2. PICK l \in Nat : l = ToGo(delay, phase) /\ l > 0
      BY <1>3, <2>3
    <3>3. at \in {"signal_wait", "write"} /\ lag' = 0
      BY <1>1, <2>1, <2>3
    <3>4. \A b \in Int : sinceRequest + l <= b =>
            /\ sinceRequest' + ToGo(delay', phase') <= b
            /\ delay' = 0 => sinceRequest' <= b + lag'
      BY <1>1, <2>1, <3>1, <3>2, <3>3
    <3>5. PICK b \in Int : b = e - 1
      BY <1>2
    <3>6. /\ at = "signal_wait" => sinceRequest + l <= b
          /\ at = "write" => sinceRequest + l <= f
      BY <1>2, <2>3, <3>2, <3>5 DEF OnTime
    <3>7. QED
      BY <1>2, <2>1, <3>3, <3>4, <3>5, <3>6 DEF OnTime
  <2>4. QED
    BY <1>1, <2>2, <2>3
<1>12. QED
  BY <1>4, <1>5, <1>6, <1>7, <1>8, <1>9, <1>10, <1>11

LEMMA OnTimeBound ==
  ASSUME IInv, NEW n \in Nat, OnTime(n), at # "stamp"
  PROVE  sinceRequest <= LateTime(n) + MaxLag
<1>1. sinceRequest \in Nat /\ lag \in Nat /\ lag <= MaxLag /\ delay \in Nat /\ at \in Points
  BY Sizes DEF IInv, TypeOK, WaitInv
<1>2. delay > 0 => ToGo(delay, phase) \in Nat
  BY <1>1, LeftShrinks DEF IInv, TypeOK
<1>3. PICK e \in Nat, w \in Nat, f \in Nat :
        e = End(n) /\ w = PaceTime /\ w > 0 /\ f = LateTime(n) /\ f = e + w + MaxLag - 2
  BY ScheduleSizes DEF LateTime
<1>4. CASE delay > 0
  BY <1>1, <1>2, <1>3, <1>4, Sizes DEF OnTime, IInv, WaitInv
<1>5. CASE delay = 0
  BY <1>1, <1>3, <1>5, Sizes DEF OnTime, Points
<1>6. QED
  BY <1>1, <1>4, <1>5

(* While the schedule is kept the clock of the requests does not wrap.     *)
LEMMA ClockRunsOn ==
  ASSUME IInv, RepeatInv, Pass, at # "stamp"
  PROVE  sinceRequest' = sinceRequest + 1
<1>1. sinceRequest <= LateTime(Base) + MaxLag /\ sinceRequest \in Nat
  BY OnTimeBound, LongestRequestTime, Sizes DEF RepeatInv, IInv, TypeOK
<1>2. sinceRequest + 1 \in 0 .. Wrap - 1
  <2>1. LateTime(Base) \in Nat /\ MaxLag \in Nat /\ Wrap \in Nat /\ RequestTime \in Nat
    BY LongestRequestTime, ScheduleSizes, Sizes
  <2>2. QED
    BY <1>1, <2>1, LongestRequestTime
<1>3. PICK t \in Nat : t = sinceRequest + 1 /\ t \in 0 .. Wrap - 1
  BY <1>1, <1>2
<1>4. t % Wrap = t
  <2>1. ASSUME NEW w \in Nat, NEW u \in 0 .. w - 1 PROVE u % w = u
    BY SMT
  <2>2. QED
    BY <1>3, <2>1, Sizes
<1>5. QED
  BY <1>3, <1>4 DEF Pass

LEMMA InitRepeat == Init => RepeatInv
<1> SUFFICES ASSUME Init PROVE RepeatInv
  OBVIOUS
<1>1. Spacing * Grain <= End(Base) - 1
  <2>1. Spacing \in Nat /\ Base + 1 \in Nat /\ Spacing + 1 <= Base + 1 /\ Spacing + 1 \in Nat
    BY SidResourceAssumption
  <2>2. (Spacing + 1) * Grain <= (Base + 1) * Grain
    BY <2>1, TicksOrdered
  <2>3. Spacing * Grain \in Nat /\ (Spacing + 1) * Grain = Spacing * Grain + Grain
    BY <2>1, TicksInUnits
  <2>4. End(Base) \in Nat /\ Spacing * Grain + Grain <= End(Base)
    BY <2>2, <2>3, LongestRequestTime, ScheduleSizes, Zenon DEF End
  <2>5. QED
    BY <2>3, <2>4, GrainIsPositive
<1>2. PICK k \in Nat : k = Spacing * Grain
  BY Sizes
<1>3. k <= LateTime(Base) + 0 /\ k <= k + MaxLag
  BY <1>1, <1>2, LongestRequestTime, ScheduleSizes, Sizes
<1>4. QED
  BY <1>2, <1>3 DEF Init, RepeatInv, OnTime

LEMMA SpacingIsOnTime ==
  ASSUME IInv, IInv', CheckSpacing, SpacingLeft # 0, NEW n \in Nat, Spacing <= n
  PROVE  OnTime(n)'
<1>1. /\ sinceRequest \in Nat /\ sinceRequest' = sinceRequest /\ Ready /\ UNCHANGED phase
      /\ SignalWait(SpacingLeft)
      /\ sinceRequest \div Grain < Spacing /\ SpacingLeft = Spacing - sinceRequest \div Grain
  BY Sizes DEF CheckSpacing, Step, SpacingLeft, clockVars, IInv, TypeOK
<1>2. /\ SpacingLeft \in Nat /\ SpacingLeft > 0
      /\ sinceRequest + SpacingLeft * Grain <= End(Spacing) - 1
  BY <1>1, RestOfTicks, Sizes
<1>3. End(Spacing) <= End(n) /\ End(Spacing) \in Nat /\ End(n) \in Nat
  <2>1. Spacing + 1 \in Nat /\ n + 1 \in Nat /\ Spacing + 1 <= n + 1
    BY Sizes
  <2>2. QED
    BY <2>1, TicksOrdered, TicksInUnits DEF End
<1>4. PICK t \in Nat : t = SpacingLeft * Grain
  BY <1>2, TicksInUnits
<1>5. sinceRequest' + t <= End(n) - 1
  BY <1>1, <1>2, <1>3, <1>4
<1>6. QED
  BY <1>1, <1>2, <1>4, <1>5, OnTimeAfterWait

LEMMA RepeatStep == IInv /\ IInv' /\ RepeatInv /\ [Next]_vars => RepeatInv'
<1> SUFFICES ASSUME IInv, IInv', RepeatInv, [Next]_vars PROVE RepeatInv'
  OBVIOUS
<1>1. /\ Base \in Nat /\ gap \in Nat /\ lag \in Nat /\ lag <= MaxLag
      /\ sinceRequest \in Nat /\ sinceRequest' \in Nat /\ MaxLag \in Nat
  BY LongestRequestTime, Sizes DEF IInv, TypeOK, WaitInv
<1>2. CASE UNCHANGED vars
  BY <1>2 DEF vars, clockVars, ghostVars, RepeatInv, OnTime
<1>3. CASE Handlers
  <2>1. PICK s \in Signals : SetSignal(s) /\ Outside
    BY <1>3 DEF Handlers, Activate, Deactivate, GrantReceived, RequestDriverBreakthrough, Signals
  <2>2. /\ UNCHANGED <<gap, sinceRequest, lag>>
        /\ at # "stamp" => at' # "stamp"
        /\ at = "stamp" => at' = "stamp"
    BY <2>1 DEF SetSignal, Outside, clockVars
  <2>3. at # "stamp" => OnTime(Base)'
    BY <1>1, <2>1, OnTimeKept DEF RepeatInv
  <2>4. QED
    BY <2>2, <2>3 DEF RepeatInv
<1>4. CASE CheckSpacing
  <2>1. /\ at = "check" /\ at' # "stamp" /\ Ready
        /\ UNCHANGED <<phase, gap, sinceRequest>>
    BY <1>4 DEF CheckSpacing, SignalWait, Step, clockVars, ghostVars
  <2>2. OnTime(Base)'
    <3>1. CASE SpacingLeft = 0
      BY <1>1, <1>4, <2>1, <3>1, OnTimeKept DEF RepeatInv
    <3>2. CASE SpacingLeft # 0
      <4>1. Spacing <= Base
        BY SidResourceAssumption
      <4>2. QED
        BY <1>1, <1>4, <3>2, <4>1, SpacingIsOnTime
    <3>3. QED
      BY <3>1, <3>2
  <2>3. QED
    BY <2>1, <2>2 DEF RepeatInv
<1>5. CASE Timeout \/ Capture \/ Handle \/ WriteText
  <2>1. at # "stamp" /\ at' # "stamp" /\ UNCHANGED <<gap, sinceRequest>>
    BY <1>5 DEF Timeout, Capture, Handle, WriteText, clockVars, ghostVars
  <2>2. OnTime(Base)'
    BY <1>1, <1>5, <2>1, OnTimeKept DEF RepeatInv
  <2>3. QED
    BY <2>1, <2>2 DEF RepeatInv
<1>6. CASE SendDisplayRequest
  BY <1>1, <1>6 DEF SendDisplayRequest, RepeatInv
<1>7. CASE Stamp
  <2>1. /\ at = "stamp" /\ at' # "stamp" /\ Ready /\ SignalWait(Base)
        /\ sinceRequest' = 0 /\ UNCHANGED <<phase, gap>>
    BY <1>7 DEF Stamp, SignalWait, Step, ghostVars
  <2>2. OnTime(Base)'
    <3>1. Base > 0
      BY SidResourceAssumption
    <3>2. 0 + Base * Grain <= End(Base) - 1
      <4>1. End(Base) = Base * Grain + Grain /\ Base * Grain \in Nat
        BY <1>1, TicksInUnits DEF End
      <4>2. QED
        BY <4>1, GrainIsPositive
    <3>3. QED
      BY <1>1, <2>1, <3>1, <3>2, OnTimeAfterWait
  <2>3. gap' <= sinceRequest' + MaxLag
    BY <1>1, <2>1 DEF RepeatInv
  <2>4. QED
    BY <2>1, <2>2, <2>3 DEF RepeatInv
<1>8. CASE Handled
  <2>1. /\ at = "handled" /\ at' # "stamp" /\ Ready
        /\ UNCHANGED <<phase, gap, sinceRequest>>
    BY <1>8 DEF Handled, SignalWait, Step, clockVars, ghostVars
  <2>2. OnTime(Base)'
    <3>1. CASE ~GoesOn
      BY <1>1, <1>8, <2>1, <3>1, OnTimeKept DEF RepeatInv
    <3>2. CASE GoesOn
      <4>1. SignalWait(Remaining) /\ sinceRequest \div Grain < Base
        BY <1>8, <3>2 DEF Handled, GoesOn
      <4>2. Remaining \in Nat /\ Remaining > 0 /\ sinceRequest + Remaining * Grain <= End(Base) - 1
        BY <1>1, <4>1, RestOfTicks DEF Remaining
      <4>3. QED
        BY <1>1, <2>1, <4>1, <4>2, OnTimeAfterWait
    <3>3. QED
      BY <3>1, <3>2
  <2>3. QED
    BY <2>1, <2>2 DEF RepeatInv
<1>9. CASE Pass
  <2>1. at' = at /\ lag' = (IF delay = 0 THEN lag + 1 ELSE 0) /\ gap' \in Nat /\ gap' <= gap + 1
    BY <1>1, <1>9, Sizes DEF Pass, Ready, CountTo
  <2>2. CASE at = "stamp"
    <3>1. delay = 0
      BY <2>2 DEF IInv, TypeOK, WaitInv
    <3>2. gap' <= lag'
      BY <1>1, <2>1, <2>2, <3>1 DEF RepeatInv
    <3>3. QED
      BY <2>1, <2>2, <3>2 DEF RepeatInv
  <2>3. CASE at # "stamp"
    <3>1. sinceRequest' = sinceRequest + 1
      BY <1>9, <2>3, ClockRunsOn
    <3>2. OnTime(Base)'
      BY <1>1, <1>9, <2>3, <3>1, OnTimeKept DEF RepeatInv
    <3>3. gap <= sinceRequest + MaxLag
      BY <2>3 DEF RepeatInv
    <3>4. gap' <= sinceRequest' + MaxLag
      BY <1>1, <2>1, <3>1, <3>3
    <3>5. QED
      BY <2>1, <2>3, <3>2, <3>4 DEF RepeatInv
  <2>4. QED
    BY <2>2, <2>3
<1>10. QED
  BY <1>2, <1>3, <1>4, <1>5, <1>6, <1>7, <1>8, <1>9 DEF Next, SidThread

LEMMA RepeatInvariance == Spec => [](IInv /\ RepeatInv)
<1>1. Init => IInv /\ RepeatInv
  BY InitIInv, InitRepeat
<1>2. IInv /\ RepeatInv /\ [Next]_vars => (IInv /\ RepeatInv)'
  BY IInvStep, RepeatStep
<1>3. QED
  BY <1>1, <1>2, PTL DEF Spec
-----------------------------------------------------------------------------
(***************************************************************************)
(* A driver's action.  Until a request has it, its signal is pending or in *)
(* hand whenever the thread is in the base loop, so that it leaves it; and *)
(* then either the thread is on time for the spacing after the request     *)
(* before, or the action is no older than two texts.                       *)
(***************************************************************************)
NewSignal == "breakthrough" \in pending
SeenSignal == at \in {"handle", "write", "handled"} /\ "breakthrough" \in signals
AskedInv ==
  /\ asked = "captured" => at = "request"
  /\ asked = "asked" => sidDriverBreakthroughNeeded
  /\ asked = "asked" /\ at \in {"request", "stamp"} => NewSignal /\ age <= lag
  /\ asked = "asked" /\ loop = "base" => NewSignal \/ SeenSignal
  /\ at \in {"check", "capture", "request"} => loop = "spacing"

(* What the action may have waited for before its signal was fetched: a    *)
(* text that was being written.                                            *)
Before == IF SeenSignal THEN PaceTime + MaxLag ELSE 0
Due ==
  /\ at = "signal_wait" => delay = 0 /\ age <= lag
  /\ at = "handle" => age <= Before + lag
  /\ at = "write" /\ delay > 0 => age + ToGo(delay, phase) <= Before + MaxLag + PaceTime
  /\ at = "write" /\ delay = 0 => age <= Before + MaxLag + PaceTime + lag
  /\ at = "handled" => age <= Before + MaxLag + PaceTime + lag
  /\ at \in {"check", "capture", "request"} => age <= 2 * (PaceTime + MaxLag) + lag
AgeInv ==
  asked # "none" =>
    /\ at = "stamp" => age <= lag
    /\ at # "stamp" => age <= sinceRequest + MaxLag
    /\ Due \/ (loop = "spacing" /\ OnTime(Spacing))
ServedInv == AskedInv /\ AgeInv

LEMMA BeforeBounds == Before \in Nat /\ Before <= PaceTime + MaxLag
BY Sizes DEF Before

LEMMA InitServed == Init => ServedInv
BY DEF Init, ServedInv, AskedInv, AgeInv

(* An action that is asked for now is due, wherever the thread stands.     *)
LEMMA NewActionIsDue ==
  IInv /\ (at = "signal_wait" => delay = 0) /\ age = 0 => Due
<1> SUFFICES ASSUME IInv, at = "signal_wait" => delay = 0, age = 0 PROVE Due
  OBVIOUS
<1>1. /\ lag \in Nat /\ delay \in Nat
      /\ phase \in 0 .. Grain - 1 /\ MaxLag \in Nat /\ PaceTime \in Nat
  BY Sizes DEF IInv, TypeOK, WaitInv
<1>2. at = "write" /\ delay > 0 => ToGo(delay, phase) \in Nat /\ ToGo(delay, phase) <= PaceTime
  <2> SUFFICES ASSUME at = "write", delay > 0
               PROVE  ToGo(delay, phase) \in Nat /\ ToGo(delay, phase) <= PaceTime
    OBVIOUS
  <2>1. delay \in Nat /\ delay <= Pace /\ Pace \in Nat
    BY Sizes DEF IInv, TypeOK, WaitInv
  <2>2. ToGo(delay, phase) \in Nat /\ ToGo(delay, phase) <= delay * Grain
    BY <1>1, <2>1, LeftShrinks
  <2>3. delay * Grain <= PaceTime /\ delay * Grain \in Nat
    BY <2>1, TicksOrdered, TicksInUnits DEF PaceTime
  <2>4. QED
    BY <1>1, <2>2, <2>3
<1>3. PICK b \in Nat : b = Before
  BY BeforeBounds
<1>4. at = "write" /\ delay > 0 => 0 + ToGo(delay, phase) <= b + MaxLag + PaceTime
  BY <1>1, <1>2, <1>3
<1>5. /\ 0 <= lag /\ 0 <= b + lag /\ 0 <= b + MaxLag + PaceTime + lag
      /\ 0 <= 2 * (PaceTime + MaxLag) + lag
  <2>1. PICK w \in Nat, l \in Nat, m \in Nat : w = PaceTime /\ l = lag /\ m = MaxLag
    BY <1>1
  <2>2. 0 <= l /\ 0 <= b + l /\ 0 <= b + m + w + l /\ 0 <= 2 * (w + m) + l
    OBVIOUS
  <2>3. QED
    BY <2>1, <2>2
<1>6. QED
  BY <1>3, <1>4, <1>5 DEF Due

LEMMA HandlersServe == IInv /\ IInv' /\ ServedInv /\ Handlers => ServedInv'
<1> SUFFICES ASSUME IInv, IInv', ServedInv, Handlers PROVE ServedInv'
  OBVIOUS
<1>1. PICK s \in Signals : SetSignal(s) /\ Outside
  BY DEF Handlers, Activate, Deactivate, GrantReceived, RequestDriverBreakthrough, Signals
<1>2. /\ UNCHANGED <<phase, loop, lag, sinceRequest>>
      /\ at = "signal_wait" /\ delay > 0 => at' = "handle" /\ signals' = {s} /\ pending = {}
      /\ ~(at = "signal_wait" /\ delay > 0) =>
           pending' = pending \cup {s} /\ UNCHANGED <<signals, at, delay>>
  BY <1>1 DEF SetSignal, Outside, clockVars, IInv, WaitInv
<1>3. lag \in Nat /\ MaxLag \in Nat /\ sinceRequest \in Nat /\ Spacing \in Nat
  BY Sizes DEF IInv, TypeOK
<1>4. CASE RequestDriverBreakthrough
  <2>1. /\ sidDriverBreakthroughNeeded' = TRUE /\ SetSignal("breakthrough") /\ Outside
        /\ asked' = "asked" /\ age' = IF asked = "asked" THEN age ELSE 0
    BY <1>4 DEF RequestDriverBreakthrough
  <2>2. NewSignal' \/ SeenSignal'
    BY <2>1 DEF SetSignal, NewSignal, SeenSignal
  <2>3. at \in {"request", "stamp"} => at' = at /\ NewSignal'
    BY <2>1 DEF SetSignal, NewSignal
  <2>4. at' \in {"request", "stamp"} => at' = at
    BY <2>1 DEF SetSignal
  <2>5. AskedInv'
    <3>1. at' \in {"request", "stamp"} => age' <= lag'
      BY <1>2, <1>3, <2>1, <2>4 DEF ServedInv, AskedInv
    <3>2. at' \in {"check", "capture", "request"} => loop' = "spacing"
      BY <1>2, <2>1 DEF SetSignal, ServedInv, AskedInv
    <3>3. QED
      BY <2>1, <2>2, <2>3, <2>4, <3>1, <3>2 DEF AskedInv
  <2>6. /\ at' = "stamp" => age' <= lag'
        /\ at' # "stamp" => age' <= sinceRequest' + MaxLag
    <3>1. at' = "stamp" <=> at = "stamp"
      BY <2>1 DEF SetSignal
    <3>2. QED
      BY <1>2, <1>3, <2>1, <3>1 DEF ServedInv, AgeInv
  <2>7. Due' \/ (loop' = "spacing" /\ OnTime(Spacing)')
    <3>1. CASE asked = "asked" /\ ~Due
      <4>1. loop = "spacing" /\ OnTime(Spacing)
        BY <3>1 DEF ServedInv, AgeInv
      <4>2. OnTime(Spacing)'
        BY <1>1, <1>3, <4>1, OnTimeKept
      <4>3. QED
        BY <1>2, <4>1, <4>2
    <3>2. CASE asked = "asked" /\ Due
      <4>1. ~(at = "signal_wait" /\ delay > 0)
        BY <3>2 DEF Due
      <4>2. UNCHANGED <<signals, at, delay, phase, lag, age>>
        BY <1>2, <2>1, <3>2, <4>1
      <4>3. Due'
        BY <3>2, <4>2 DEF Due, Before, SeenSignal
      <4>4. QED
        BY <4>3
    <3>3. CASE asked # "asked"
      <4>1. age' = 0 /\ (at' = "signal_wait" => delay' = 0)
        BY <1>2, <2>1, <3>3 DEF IInv, TypeOK
      <4>2. (IInv /\ (at = "signal_wait" => delay = 0) /\ age = 0 => Due)'
        BY NewActionIsDue, PTL
      <4>3. QED
        BY <4>1, <4>2
    <3>4. QED
      BY <3>1, <3>2, <3>3
  <2>8. QED
    BY <2>1, <2>5, <2>6, <2>7 DEF ServedInv, AgeInv
<1>5. CASE Activate \/ Deactivate \/ GrantReceived
  <2>1. UNCHANGED <<asked, age, sidDriverBreakthroughNeeded>>
    BY <1>5 DEF Activate, Deactivate, GrantReceived, flagVars
  <2>2. CASE at = "signal_wait" /\ delay > 0
    <3>1. ~Due /\ ~NewSignal /\ ~SeenSignal /\ asked # "captured"
      BY <1>2, <2>2 DEF Due, NewSignal, SeenSignal, ServedInv, AskedInv
    <3>2. asked # "none" => asked = "asked" /\ loop = "spacing" /\ OnTime(Spacing)
      BY <3>1 DEF ServedInv, AskedInv, AgeInv, IInv, TypeOK
    <3>3. asked # "none" => OnTime(Spacing)'
      BY <1>1, <1>3, <3>2, OnTimeKept
    <3>4. at' = "handle"
      BY <1>2, <2>2
    <3>5. QED
      BY <1>2, <2>1, <2>2, <3>1, <3>2, <3>3, <3>4 DEF ServedInv, AskedInv, AgeInv
  <2>3. CASE ~(at = "signal_wait" /\ delay > 0)
    <3>1. UNCHANGED <<signals, at, delay, phase, lag, loop, sinceRequest>> /\ (NewSignal => NewSignal')
      BY <1>2, <2>3 DEF NewSignal
    <3>2. QED
      BY <2>1, <3>1 DEF ServedInv, AskedInv, AgeInv, Due, Before, SeenSignal, OnTime
  <2>4. QED
    BY <2>2, <2>3
<1>6. QED
  BY <1>4, <1>5 DEF Handlers

LEMMA ThreadServes == IInv /\ IInv' /\ ServedInv /\ SidThread => ServedInv'
<1> SUFFICES ASSUME IInv, IInv', ServedInv, SidThread PROVE ServedInv'
  OBVIOUS
<1>1. /\ lag \in Nat /\ lag <= MaxLag /\ age \in Nat /\ sinceRequest \in Nat /\ Spacing \in Nat
      /\ phase \in 0 .. Grain - 1 /\ asked \in {"asked", "captured", "none"}
  BY Sizes DEF IInv, TypeOK, WaitInv
<1>2. PICK w \in Nat, m \in Nat, b \in Nat :
        w = PaceTime /\ m = MaxLag /\ b = Before /\ b <= w + m
  BY Sizes, BeforeBounds
<1>3. delay = 0 /\ UNCHANGED phase
  BY DEF SidThread, CheckSpacing, Timeout, Capture, SendDisplayRequest, Stamp, Handle, WriteText,
         Handled, Step, Ready
<1>4. CASE CheckSpacing
  <2>1. /\ at = "check" /\ loop = "spacing"
        /\ UNCHANGED <<sidDriverBreakthroughNeeded, loop, sinceRequest, asked, age>>
    BY <1>4 DEF CheckSpacing, clockVars, ghostVars, ServedInv, AskedInv
  <2>2. asked # "captured"
    BY <2>1 DEF ServedInv, AskedInv
  <2>3. CASE SpacingLeft = 0
    <3>1. at' = "capture" /\ UNCHANGED <<pending, signals, delay, lag>>
      BY <1>4, <2>3 DEF CheckSpacing
    <3>2. OnTime(Spacing) => OnTime(Spacing)'
      BY <1>1, <1>4, <2>3, OnTimeKept
    <3>3. Due => Due'
      BY <2>1, <3>1 DEF Due
    <3>4. QED
      BY <2>1, <2>2, <3>1, <3>2, <3>3 DEF ServedInv, AskedInv, AgeInv, SeenSignal
  <2>4. CASE SpacingLeft # 0
    <3>1. at' \in {"signal_wait", "handle"}
      BY <1>4, <2>4 DEF CheckSpacing, SignalWait
    <3>2. OnTime(Spacing)'
      BY <1>1, <1>4, <2>4, SpacingIsOnTime
    <3>3. QED
      BY <2>1, <2>2, <3>1, <3>2 DEF ServedInv, AskedInv, AgeInv
  <2>5. QED
    BY <2>3, <2>4
<1>5. CASE Timeout
  <2>1. /\ at = "signal_wait" /\ at' = "check" /\ loop' = "spacing"
        /\ UNCHANGED <<sidDriverBreakthroughNeeded, pending, sinceRequest, asked, age, lag>>
    BY <1>5 DEF Timeout, clockVars, ghostVars
  <2>2. OnTime(Spacing) => OnTime(Spacing)'
    BY <1>1, <1>5, OnTimeKept
  <2>3. Due => Due'
    <3>1. age <= lag => age <= 2 * (w + m) + lag
      BY <1>1
    <3>2. QED
      BY <1>2, <2>1, <3>1 DEF Due
  <2>4. QED
    BY <2>1, <2>2, <2>3 DEF ServedInv, AskedInv, AgeInv
<1>6. CASE Capture
  <2>1. /\ at = "capture" /\ at' = "request" /\ loop = "spacing"
        /\ breakthrough' = sidDriverBreakthroughNeeded
        /\ asked' = IF breakthrough' /\ asked = "asked" THEN "captured" ELSE asked
        /\ UNCHANGED <<pending, loop, sinceRequest, age, lag>>
    BY <1>6 DEF Capture, clockVars, ServedInv, AskedInv
  <2>2. asked' # "asked" /\ (asked' # "none" => asked # "none")
    BY <1>1, <2>1 DEF ServedInv, AskedInv
  <2>3. OnTime(Spacing) => OnTime(Spacing)'
    BY <1>1, <1>6, OnTimeKept
  <2>4. Due => Due'
    BY <2>1 DEF Due
  <2>5. QED
    BY <2>1, <2>2, <2>3, <2>4 DEF ServedInv, AskedInv, AgeInv
<1>7. CASE SendDisplayRequest
  <2>1. /\ at = "request" /\ at' = "stamp"
        /\ asked' = IF asked = "captured" THEN "none" ELSE asked
        /\ asked # "captured" => age' = age
        /\ UNCHANGED <<sidDriverBreakthroughNeeded, pending, loop, lag>>
    BY <1>7 DEF SendDisplayRequest, FlagKept
  <2>2. asked' # "none" => asked = "asked" /\ asked' = "asked" /\ age' = age
    BY <1>1, <2>1
  <2>3. asked' # "none" => NewSignal' /\ age' <= lag' /\ sidDriverBreakthroughNeeded'
    BY <2>1, <2>2 DEF ServedInv, AskedInv, NewSignal
  <2>4. Due'
    BY <2>1 DEF Due
  <2>5. asked' # "captured" /\ at' \notin {"check", "capture", "request"}
    BY <2>1
  <2>6. QED
    BY <2>1, <2>2, <2>3, <2>4, <2>5 DEF ServedInv, AskedInv, AgeInv
<1>8. CASE Stamp
  <2>1. /\ at = "stamp" /\ SignalWait(Base) /\ sinceRequest' = 0
        /\ UNCHANGED <<sidDriverBreakthroughNeeded, asked, age>>
    BY <1>8 DEF Stamp, ghostVars
  <2>2. at' \in {"signal_wait", "handle"} /\ asked # "captured"
    BY <2>1 DEF SignalWait, ServedInv, AskedInv
  <2>3. CASE asked = "none"
    BY <2>1, <2>2, <2>3 DEF ServedInv, AskedInv, AgeInv
  <2>4. CASE asked = "asked"
    <3>1. NewSignal /\ age <= lag /\ sidDriverBreakthroughNeeded
      BY <2>1, <2>4 DEF ServedInv, AskedInv
    <3>2. at' = "handle" /\ signals' = pending /\ UNCHANGED <<delay, lag>>
      BY <2>1, <3>1 DEF SignalWait, NewSignal
    <3>3. SeenSignal' /\ Before' = w + m
      BY <1>2, <3>1, <3>2 DEF SeenSignal, NewSignal, Before, PaceTime
    <3>4. age <= w + m + lag /\ age <= 0 + m
      BY <1>1, <1>2, <3>1
    <3>5. Due'
      BY <2>1, <3>2, <3>3, <3>4 DEF Due
    <3>6. QED
      BY <1>2, <2>1, <2>4, <3>1, <3>2, <3>3, <3>4, <3>5 DEF ServedInv, AskedInv, AgeInv
  <2>5. QED
    BY <1>1, <2>2, <2>3, <2>4
<1>9. CASE Handle
  <2>1. /\ at = "handle"
        /\ UNCHANGED <<sidDriverBreakthroughNeeded, pending, loop, signals, sinceRequest, asked, age>>
        /\ IF "grant" \in signals
           THEN at' = "write" /\ delay' = PaceLeft /\ lag' = IF delay' > 0 THEN 0 ELSE lag
           ELSE at' = "handled" /\ UNCHANGED <<delay, lag>>
    BY <1>9 DEF Handle, clockVars, ghostVars
  <2>2. at' \in {"write", "handled"} /\ (SeenSignal' <=> SeenSignal) /\ Before' = b
    BY <1>2, <2>1 DEF SeenSignal, Before, PaceTime
  <2>3. OnTime(Spacing) => OnTime(Spacing)'
    BY <1>1, <1>9, OnTimeKept
  <2>4. ASSUME Due PROVE Due'
    <3>1. age <= b + lag
      BY <1>2, <2>1, <2>4 DEF Due
    <3>2. CASE at' = "write" /\ delay' > 0
      <4>1. PICK d \in Nat : d = delay' /\ d > 0 /\ d <= Pace
        BY <2>1, <3>2, PaceLeftBounds, Sizes DEF IInv
      <4>2. PICK l \in Nat : l = ToGo(d, phase) /\ l <= w
        <5>1. ToGo(d, phase) \in Nat /\ ToGo(d, phase) <= d * Grain
          BY <1>1, <4>1, LeftShrinks
        <5>2. d * Grain <= PaceTime /\ d * Grain \in Nat
          BY <4>1, TicksOrdered, TicksInUnits, Sizes DEF PaceTime
        <5>3. QED
          BY <1>2, <5>1, <5>2
      <4>3. age + l <= b + m + w
        BY <1>1, <1>2, <3>1, <4>2
      <4>4. QED
        BY <1>2, <1>3, <2>1, <2>2, <3>2, <4>1, <4>2, <4>3 DEF Due, PaceTime
    <3>3. CASE ~(at' = "write" /\ delay' > 0)
      <4>1. lag' = lag /\ age' = age
        BY <2>1, <3>3
      <4>2. age <= b + m + w + lag
        BY <1>1, <3>1
      <4>3. QED
        BY <1>2, <2>2, <3>3, <4>1, <4>2 DEF Due, PaceTime
    <3>4. QED
      BY <3>2, <3>3
  <2>5. QED
    BY <2>1, <2>2, <2>3, <2>4 DEF ServedInv, AskedInv, AgeInv, NewSignal
<1>10. CASE WriteText
  <2>1. /\ at = "write" /\ at' = "handled"
        /\ UNCHANGED <<sidDriverBreakthroughNeeded, pending, loop, signals, delay, lag,
                       sinceRequest, asked, age>>
    BY <1>10 DEF WriteText, ghostVars
  <2>2. (SeenSignal' <=> SeenSignal) /\ Before' = b
    BY <1>2, <2>1 DEF SeenSignal, Before, PaceTime
  <2>3. OnTime(Spacing) => OnTime(Spacing)'
    BY <1>1, <1>10, OnTimeKept
  <2>4. Due => Due'
    BY <1>2, <1>3, <2>1, <2>2 DEF Due, PaceTime
  <2>5. QED
    BY <2>1, <2>2, <2>3, <2>4 DEF ServedInv, AskedInv, AgeInv, NewSignal
<1>11. CASE Handled
  <2>1. /\ at = "handled"
        /\ UNCHANGED <<sidDriverBreakthroughNeeded, sinceRequest, asked, age>>
    BY <1>11 DEF Handled, clockVars, ghostVars
  <2>2. Due => age <= b + m + w + lag
    BY <1>2, <2>1 DEF Due
  <2>3. asked # "captured"
    BY <2>1 DEF ServedInv, AskedInv
  <2>4. CASE GoesOn
    <3>1. loop = "base" /\ "breakthrough" \notin signals /\ SignalWait(Remaining) /\ loop' = loop
      BY <1>11, <2>4 DEF Handled, GoesOn
    <3>2. at' \in {"signal_wait", "handle"}
      BY <3>1 DEF SignalWait
    <3>3. CASE asked = "none"
      BY <2>1, <3>2, <3>3 DEF ServedInv, AskedInv, AgeInv
    <3>4. CASE asked = "asked"
      <4>1. NewSignal /\ Due /\ ~SeenSignal /\ sidDriverBreakthroughNeeded
            /\ age <= sinceRequest + MaxLag
        BY <2>1, <3>1, <3>4 DEF ServedInv, AskedInv, AgeInv, SeenSignal
      <4>2. at' = "handle" /\ signals' = pending /\ UNCHANGED <<delay, lag>>
        BY <3>1, <4>1 DEF SignalWait, NewSignal
      <4>3. SeenSignal' /\ Before' = w + m
        BY <1>2, <4>1, <4>2 DEF SeenSignal, NewSignal, Before, PaceTime
      <4>4. b = 0
        BY <1>2, <4>1 DEF Before
      <4>5. age <= w + m + lag
        BY <1>1, <2>2, <4>1, <4>4
      <4>6. Due'
        BY <2>1, <4>2, <4>3, <4>5 DEF Due
      <4>7. QED
        BY <2>1, <3>4, <4>1, <4>2, <4>3, <4>6 DEF ServedInv, AskedInv, AgeInv
    <3>5. QED
      BY <1>1, <2>3, <3>3, <3>4
  <2>5. CASE ~GoesOn
    <3>1. at' = "check" /\ loop' = "spacing" /\ UNCHANGED <<pending, signals, delay, lag>>
      BY <1>11, <2>5 DEF Handled
    <3>2. OnTime(Spacing) => OnTime(Spacing)'
      BY <1>1, <1>11, <2>5, OnTimeKept
    <3>3. Due => Due'
      <4>1. age <= b + m + w + lag => age <= 2 * (w + m) + lag
        BY <1>1, <1>2
      <4>2. QED
        BY <1>2, <2>1, <2>2, <3>1, <4>1 DEF Due
    <3>4. QED
      BY <2>1, <2>3, <3>1, <3>2, <3>3 DEF ServedInv, AskedInv, AgeInv
  <2>6. QED
    BY <2>4, <2>5
<1>12. QED
  BY <1>4, <1>5, <1>6, <1>7, <1>8, <1>9, <1>10, <1>11 DEF SidThread

LEMMA PassServes == IInv /\ IInv' /\ RepeatInv /\ ServedInv /\ Pass => ServedInv'
<1> SUFFICES ASSUME IInv, IInv', RepeatInv, ServedInv, Pass PROVE ServedInv'
  OBVIOUS
<1>1. /\ lag \in Nat /\ age \in Nat /\ sinceRequest \in Nat /\ Spacing \in Nat /\ delay \in Nat
      /\ phase \in 0 .. Grain - 1
      /\ delay > 0 => at \in {"signal_wait", "write"}
  BY Sizes DEF IInv, TypeOK, WaitInv
<1>2. /\ UNCHANGED <<sidDriverBreakthroughNeeded, pending, at, loop, signals, asked>>
      /\ phase' = NextPhase(phase) /\ delay' = Elapse(delay, phase)
      /\ lag' = IF delay = 0 THEN lag + 1 ELSE 0
      /\ age' = IF asked = "none" THEN 0 ELSE CountTo(BreakthroughTime + 1, age)
  BY DEF Pass, Ready, flagVars
<1>3. age' \in Nat /\ age' <= age + 1
  BY <1>1, <1>2, BreakthroughTimeIsNat DEF CountTo
<1>4. (SeenSignal' <=> SeenSignal) /\ (NewSignal' <=> NewSignal)
  BY <1>2 DEF SeenSignal, NewSignal
<1>5. PICK w \in Nat, m \in Nat, b \in Nat : w = PaceTime /\ m = MaxLag /\ b = Before /\ b = Before'
  BY <1>4, Sizes, BeforeBounds DEF Before, PaceTime
<1>6. delay = 0 => /\ delay' = 0 /\ lag' = lag + 1
                   /\ \A c \in Nat : age <= c + lag => age' <= c + lag'
  BY <1>1, <1>2, <1>3, NoWaitStaysOver
<1>7. AskedInv'
  <2>1. at \in {"request", "stamp"} /\ age <= lag => age' <= lag'
    <3>1. at \in {"request", "stamp"} => delay = 0
      BY <1>1
    <3>2. QED
      BY <1>1, <1>2, <1>3, <3>1
  <2>2. QED
    BY <1>2, <1>4, <2>1 DEF ServedInv, AskedInv
<1>8. CASE asked = "none"
  BY <1>2, <1>7, <1>8 DEF ServedInv, AgeInv
<1>9. CASE asked # "none" /\ at = "stamp"
  <2>1. delay = 0
    BY <1>1, <1>9
  <2>2. age' <= lag'
    BY <1>1, <1>2, <1>3, <1>9, <2>1 DEF ServedInv, AgeInv
  <2>3. Due'
    BY <1>2, <1>9 DEF Due
  <2>4. QED
    BY <1>2, <1>7, <1>9, <2>2, <2>3 DEF ServedInv, AgeInv
<1>10. CASE asked # "none" /\ at # "stamp"
  <2>1. sinceRequest' = sinceRequest + 1
    BY <1>10, ClockRunsOn
  <2>2. age <= sinceRequest + m
    BY <1>5, <1>10 DEF ServedInv, AgeInv
  <2>3. age' <= sinceRequest' + m
    BY <1>1, <1>3, <2>1, <2>2
  <2>4. OnTime(Spacing) => OnTime(Spacing)'
    BY <1>1, <2>1, OnTimeKept
  <2>5. ASSUME Due PROVE Due'
    <3>1. CASE delay = 0
      <4>1. PICK c \in Nat, d \in Nat : c = b + m + w /\ d = 2 * (w + m)
        OBVIOUS
      <4>2. /\ at = "signal_wait" => age <= 0 + lag
            /\ at = "handle" => age <= b + lag
            /\ at \in {"write", "handled"} => age <= c + lag
            /\ at \in {"check", "capture", "request"} => age <= d + lag
        <5>1. /\ at = "signal_wait" => age <= lag
              /\ at = "handle" => age <= b + lag
              /\ at \in {"write", "handled"} => age <= b + m + w + lag
              /\ at \in {"check", "capture", "request"} => age <= 2 * (w + m) + lag
          BY <1>5, <2>5, <3>1 DEF Due
        <5>2. 0 + lag = lag /\ b + m + w + lag = c + lag /\ 2 * (w + m) + lag = d + lag
          BY <1>1, <4>1
        <5>3. QED
          BY <5>1, <5>2
      <4>3. /\ at = "signal_wait" => age' <= 0 + lag'
            /\ at = "handle" => age' <= b + lag'
            /\ at \in {"write", "handled"} => age' <= c + lag'
            /\ at \in {"check", "capture", "request"} => age' <= d + lag'
        BY <1>6, <3>1, <4>2
      <4>4. at = "signal_wait" => age' <= lag'
        BY <1>1, <1>2, <3>1, <4>3
      <4>5. QED
        BY <1>2, <1>5, <1>6, <3>1, <4>1, <4>3, <4>4 DEF Due, PaceTime
    <3>2. CASE delay > 0
      <4>1. at = "write"
        BY <1>1, <2>5, <3>2 DEF Due
      <4>2. PICK l \in Nat : /\ l = ToGo(delay, phase) /\ l > 0
                             /\ ToGo(delay', phase') = l - 1
                             /\ delay' = 0 => l = 1
        BY <1>1, <1>2, <3>2, LeftShrinks
      <4>3. age + l <= b + m + w
        BY <1>5, <2>5, <3>2, <4>1, <4>2 DEF Due
      <4>4. lag' = 0
        BY <1>2, <3>2
      <4>5. /\ age' + ToGo(delay', phase') <= b + m + w
            /\ delay' = 0 => age' <= b + m + w + lag'
        BY <1>1, <1>3, <4>2, <4>3, <4>4
      <4>6. QED
        BY <1>2, <1>5, <4>1, <4>5 DEF Due, PaceTime
    <3>3. QED
      BY <1>1, <3>1, <3>2
  <2>6. QED
    BY <1>2, <1>5, <1>7, <1>10, <2>3, <2>4, <2>5 DEF ServedInv, AgeInv
<1>11. QED
  BY <1>8, <1>9, <1>10

LEMMA ServedInvariance == Spec => [](IInv /\ RepeatInv /\ ServedInv)
<1>1. Init => IInv /\ RepeatInv /\ ServedInv
  BY InitIInv, InitRepeat, InitServed
<1>2. IInv /\ RepeatInv /\ ServedInv /\ [Next]_vars => (IInv /\ RepeatInv /\ ServedInv)'
  <2> SUFFICES ASSUME IInv, RepeatInv, ServedInv, [Next]_vars
               PROVE  (IInv /\ RepeatInv /\ ServedInv)'
    OBVIOUS
  <2>1. IInv' /\ RepeatInv'
    BY IInvStep, RepeatStep
  <2>2. CASE UNCHANGED vars
    BY <2>1, <2>2 DEF vars, flagVars, clockVars, ghostVars, ServedInv, AskedInv, AgeInv, Due,
                      Before, NewSignal, SeenSignal, OnTime
  <2>3. CASE Next
    BY <2>1, <2>3, HandlersServe, ThreadServes, PassServes DEF Next
  <2>4. QED
    BY <2>2, <2>3
<1>3. QED
  BY <1>1, <1>2, PTL DEF Spec
-----------------------------------------------------------------------------
(* Types hold in every reachable state.                                    *)
THEOREM TypeCorrect == Spec => []TypeOK
<1>1. IInv => TypeOK
  BY DEF IInv
<1>2. QED
  BY <1>1, Invariance, PTL

(* The display is never asked for twice within the spacing (the spacing    *)
(* loop of SidResource::run), although the clock it looks at wraps, the    *)
(* wait may be short, and any signal cuts it.                              *)
THEOREM SpacingHolds == Spec => []RequestsSpaced
<1>1. IInv => RequestsSpaced
  BY DEF IInv, RequestInv, RequestsSpaced
<1>2. QED
  BY <1>1, Invariance, PTL

(* After deactivate() a text is begun for a grant that came before it at   *)
(* the latest when the text in hand, the one behind it, and three times a  *)
(* thread's lateness are over.                                             *)
THEOREM TextsEnd == Spec => []TextsEndSoon
<1>1. IInv => TextsEndSoon
  <2> SUFFICES ASSUME IInv, at = "write", delay = 0, ~sidWriteAccessWanted PROVE off <= OffTime
    BY DEF TextsEndSoon, Ready
  <2>1. off <= Slack + MaxLag + PaceTime + lag /\ lag <= MaxLag /\ lag \in Nat /\ off \in Nat
    BY DEF IInv, TypeOK, WaitInv, OffInv
  <2>2. QED
    BY <2>1, SlackBounds, Sizes
<1>2. QED
  BY <1>1, Invariance, PTL

(* The display is asked for again within the base time, one text, and the  *)
(* lateness of three steps, however many signals restart the wait.         *)
THEOREM RequestsRepeat == Spec => []RequestRepeated
<1>1. IInv /\ RepeatInv => RequestRepeated
  <2> SUFFICES ASSUME IInv, RepeatInv PROVE gap <= RequestTime
    BY DEF RequestRepeated
  <2>1. gap \in Nat /\ lag \in Nat /\ lag <= MaxLag /\ MaxLag \in Nat /\ sinceRequest \in Nat
    BY Sizes DEF IInv, TypeOK, WaitInv
  <2>2. LateTime(Base) \in Nat /\ RequestTime = LateTime(Base) + 2 * MaxLag
    BY LongestRequestTime, ScheduleSizes
  <2>3. CASE at = "stamp"
    BY <2>1, <2>2, <2>3 DEF RepeatInv
  <2>4. CASE at # "stamp"
    <3>1. sinceRequest <= LateTime(Base) + MaxLag
      BY <2>4, OnTimeBound, LongestRequestTime DEF RepeatInv
    <3>2. QED
      BY <2>1, <2>2, <2>4, <3>1 DEF RepeatInv
  <2>5. QED
    BY <2>3, <2>4
<1>2. QED
  BY <1>1, RepeatInvariance, PTL

(* A driver's action is in a request within the spacing, one text and the  *)
(* lateness of three steps, whatever the thread was doing when it came.    *)
THEOREM ActionsServed == Spec => []BreakthroughServed
<1>1. IInv /\ ServedInv => BreakthroughServed
  <2> SUFFICES ASSUME IInv, ServedInv, asked # "none" PROVE age <= BreakthroughTime
    BY DEF BreakthroughServed
  <2>1. /\ age \in Nat /\ lag \in Nat /\ lag <= MaxLag /\ sinceRequest \in Nat /\ delay \in Nat
        /\ at \in Points /\ Spacing \in Nat /\ Pace \in Nat /\ MaxLag \in Nat
    BY Sizes DEF IInv, TypeOK, WaitInv
  <2>2. /\ LateTime(Spacing) \in Nat
        /\ BreakthroughTime = LateTime(Spacing) + 2 * MaxLag
    BY <2>1, ScheduleSizes DEF BreakthroughTime
  <2>3. 2 * PaceTime + 3 * MaxLag <= BreakthroughTime
    <3>1. Pace + 1 \in Nat /\ Spacing + 1 \in Nat /\ Pace + 1 <= Spacing /\ Pace + 2 \in Nat
          /\ Pace + 2 <= Spacing + 1
      BY SidResourceAssumption
    <3>2. (Pace + 2) * Grain <= End(Spacing) /\ (Pace + 2) * Grain = PaceTime + 2 * Grain
      BY <2>1, <3>1, TicksOrdered, TicksAdded DEF End, PaceTime
    <3>3. PICK w \in Nat, e \in Nat : w = PaceTime /\ e = End(Spacing) /\ w + 2 * Grain <= e
      BY <2>1, <3>2, ScheduleSizes
    <3>4. BreakthroughTime = (e + w + MaxLag - 2) + 2 * MaxLag
      BY <2>2, <3>3 DEF LateTime
    <3>5. QED
      BY <2>1, <3>3, <3>4, GrainIsPositive
  <2>4. CASE at = "stamp"
    BY <2>1, <2>2, <2>4 DEF ServedInv, AgeInv
  <2>5. CASE at # "stamp" /\ OnTime(Spacing)
    <3>1. sinceRequest <= LateTime(Spacing) + MaxLag /\ age <= sinceRequest + MaxLag
      BY <2>1, <2>5, OnTimeBound DEF ServedInv, AgeInv
    <3>2. QED
      BY <2>1, <2>2, <3>1
  <2>6. CASE at # "stamp" /\ Due
    <3>1. PICK w \in Nat, m \in Nat, b \in Nat :
            w = PaceTime /\ m = MaxLag /\ b = Before /\ b <= w + m
      BY <2>1, Sizes, BeforeBounds
    <3>2. at = "write" /\ delay > 0 => ToGo(delay, phase) \in Nat
      BY <2>1, LeftShrinks DEF IInv, TypeOK
    <3>3. age <= 2 * w + 3 * m
      <4>1. \/ age <= lag
            \/ age <= b + lag
            \/ age + ToGo(delay, phase) <= b + m + w /\ ToGo(delay, phase) \in Nat
            \/ age <= b + m + w + lag
            \/ age <= 2 * (w + m) + lag
        BY <2>1, <2>6, <3>1, <3>2 DEF Due, Points
      <4>2. QED
        BY <2>1, <3>1, <4>1
    <3>4. QED
      BY <2>1, <2>2, <2>3, <3>1, <3>3
  <2>7. QED
    BY <2>4, <2>5, <2>6 DEF ServedInv, AgeInv
<1>2. QED
  BY <1>1, ServedInvariance, PTL

-----------------------------------------------------------------------------
(* SidText.                                                                *)

(* Interrupts are masked by a thread in its critical section, and by no    *)
(* one else.                                                               *)
Critical == {"load", "store", "event"}
Reads == {"get", "add", "addagain", "advance"}
MaskInv ==
  /\ masked \in {"nobody", "sid", "rn52"}
  /\ sid \in {"idle", "clear", "cleartext", "mask", "format"} \cup Critical \cup Reads
  /\ rn52 \in {"idle", "copy", "copied", "artist", "title"}
  /\ masked = "sid" <=> sid \in Critical
  /\ masked = "rn52" <=> rn52 \in {"copy", "copied"}

(* The temporary text is whole but while the RN52 thread copies it, and    *)
(* what the SID thread holds in its critical section is what is there.     *)
TempInv ==
  /\ tempText \in [1 .. 2 -> Temps] /\ localTemp \in [1 .. 2 -> Temps] /\ last \in Temps
  /\ left \in Nat /\ tempGrants = left /\ useTemp \in BOOLEAN
  /\ masked # "rn52" => tempText[1] = last /\ tempText[2] = last
  /\ rn52 = "copied" => tempText[1] = "CONNECTED"
  /\ sid = "store" => useTemp /\ grants = tempGrants /\ tempGrants > 0
  /\ sid = "event" /\ useTemp => localTemp[1] = tempText[1]
  /\ sid \in Reads => ~useTemp
  /\ sid = "format" /\ useTemp => localTemp[1] = localTemp[2]

(* The mark is set while the display was activated and no text begun; the  *)
(* text that takes it is the first.                                        *)
EventInv ==
  /\ sid \in Critical => ~fresh /\ (writeTextOnDisplayUpdateNeeded <=> first)
  /\ sid \notin Critical => (writeTextOnDisplayUpdateNeeded <=> fresh)
  /\ sid \in Reads \cup {"format"} => (event <=> first)

SnapshotInv == MaskInv /\ TempInv /\ EventInv

LEMMA TempTexts ==
  ASSUME NEW a \in Temps, NEW b \in Temps
  PROVE  <<a, b>> \in [1 .. 2 -> Temps] /\ <<a, b>>[1] = a /\ <<a, b>>[2] = b
  OBVIOUS

LEMMA SnapshotInitially == TextInit => SnapshotInv
  <1> SUFFICES ASSUME TextInit PROVE SnapshotInv
    OBVIOUS
  <1>1. "version" \in Temps
    BY DEF Temps
  <1>2. TempInv
    BY <1>1, TempTexts DEF TextInit, TempInv
  <1>3. MaskInv /\ EventInv
    BY DEF TextInit, MaskInv, EventInv, Critical, Reads
  <1>4. QED
    BY <1>2, <1>3 DEF SnapshotInv

LEMMA GrantsPositive == \A t \in Temps : Grants[t] \in Nat /\ Grants[t] > 0
  BY SidTextAssumption

LEMMA HandlersKeepSnapshot == SnapshotInv /\ TextHandlers => SnapshotInv'
  <1> SUFFICES ASSUME SnapshotInv, TextHandlers PROVE SnapshotInv'
    OBVIOUS
  <1>1. /\ masked = "nobody" /\ sid \notin Critical
        /\ UNCHANGED <<masked, sid, rn52, grants, localTemp, useTemp, event, first>>
    BY DEF TextHandlers, ActivateText, DeactivateText, Pairing, GrantText, Handler, handVars,
           SnapshotInv, MaskInv
  <1>2. MaskInv'
    BY <1>1 DEF SnapshotInv, MaskInv
  <1>3. \/ UNCHANGED <<tempText, tempGrants, left, last>>
        \/ ShowTemporary("version") \/ ShowTemporary("PAIRING")
    BY DEF TextHandlers, ActivateText, DeactivateText, Pairing, GrantText, tempVars, tempGhosts
  <1>4. TempInv'
    <2>1. sid # "store" /\ sid # "event" /\ rn52 # "copied"
      BY <1>1 DEF SnapshotInv, MaskInv, Critical
    <2>2. ASSUME NEW t \in Temps, ShowTemporary(t) PROVE TempInv'
      <3>1. tempText' = <<t, t>> /\ tempGrants' = Grants[t] /\ left' = Grants[t] /\ last' = t
        BY <2>2 DEF ShowTemporary
      <3>2. Grants[t] \in Nat
        BY GrantsPositive
      <3>3. QED
        BY <1>1, <2>1, <3>1, <3>2, TempTexts DEF SnapshotInv, TempInv
    <2>3. CASE UNCHANGED <<tempText, tempGrants, left, last>>
      BY <1>1, <2>3 DEF SnapshotInv, TempInv
    <2>4. "version" \in Temps /\ "PAIRING" \in Temps
      BY DEF Temps
    <2>5. QED
      BY <1>3, <2>2, <2>3, <2>4
  <1>5. EventInv'
    <2>1. \/ writeTextOnDisplayUpdateNeeded' = TRUE /\ fresh' = TRUE
          \/ UNCHANGED <<writeTextOnDisplayUpdateNeeded, fresh>>
      BY DEF TextHandlers, ActivateText, DeactivateText, Pairing, GrantText, tempVars
    <2>2. QED
      BY <1>1, <2>1 DEF SnapshotInv, EventInv
  <1>6. QED
    BY <1>2, <1>4, <1>5 DEF SnapshotInv

LEMMA RN52KeepsSnapshot ==
  ASSUME SnapshotInv, ShowConnected \/ Shows \/ WaitToSet \/ Sets
  PROVE  SnapshotInv'
  <1>1. /\ UNCHANGED <<sid, writeTextOnDisplayUpdateNeeded, grants, localTemp, useTemp, event, fresh, first>>
        /\ masked \in {"nobody", "rn52"} /\ sid \notin Critical
    BY DEF ShowConnected, Shows, CopyFirstHalf, CopySecondHalf, WaitToSet, Sets, SetArtist, SetTitle,
           RN52Thread, Runs, handVars, eventGhosts, SnapshotInv, MaskInv
  <1>2. EventInv'
    BY <1>1 DEF SnapshotInv, EventInv
  <1>3. sid # "store" /\ sid # "event"
    BY <1>1 DEF Critical
  <1>4. "CONNECTED" \in Temps /\ Grants["CONNECTED"] \in Nat
    BY GrantsPositive DEF Temps
  <1>5. CASE ShowConnected
    <2>1. /\ rn52 = "idle" /\ rn52' = "copy" /\ masked' = "rn52"
          /\ UNCHANGED <<tempText, tempGrants, left, last>>
      BY <1>5 DEF ShowConnected, Mask, tempGhosts
    <2>2. MaskInv' /\ TempInv'
      BY <1>1, <1>3, <2>1 DEF SnapshotInv, MaskInv, TempInv
    <2>3. QED
      BY <1>2, <2>2 DEF SnapshotInv
  <1>6. CASE CopyFirstHalf
    <2>1. /\ rn52 = "copy" /\ rn52' = "copied" /\ masked' = masked
          /\ tempText' = [tempText EXCEPT ![1] = "CONNECTED"]
          /\ UNCHANGED <<tempGrants, left, last>>
      BY <1>6 DEF CopyFirstHalf, tempGhosts
    <2>2. masked = "rn52"
      BY <2>1 DEF SnapshotInv, MaskInv
    <2>3. MaskInv'
      BY <1>1, <2>1 DEF SnapshotInv, MaskInv
    <2>4. TempInv'
      BY <1>1, <1>3, <1>4, <2>1, <2>2 DEF SnapshotInv, TempInv
    <2>5. QED
      BY <1>2, <2>3, <2>4 DEF SnapshotInv
  <1>7. CASE CopySecondHalf
    <2>1. /\ rn52 = "copied" /\ rn52' = "idle" /\ masked' = "nobody"
          /\ tempText' = [tempText EXCEPT ![2] = "CONNECTED"]
          /\ tempGrants' = Grants["CONNECTED"] /\ left' = Grants["CONNECTED"] /\ last' = "CONNECTED"
      BY <1>7 DEF CopySecondHalf
    <2>2. MaskInv'
      BY <1>1, <2>1 DEF SnapshotInv, MaskInv
    <2>3. tempText'[1] = "CONNECTED" /\ tempText'[2] = "CONNECTED" /\ tempText' \in [1 .. 2 -> Temps]
      BY <1>4, <2>1 DEF SnapshotInv, TempInv
    <2>4. TempInv'
      BY <1>1, <1>3, <1>4, <2>1, <2>3 DEF SnapshotInv, TempInv
    <2>5. QED
      BY <1>2, <2>2, <2>4 DEF SnapshotInv
  <1>8. CASE WaitToSet \/ Sets
    <2>1. /\ rn52 \in {"idle", "artist", "title"} /\ rn52' \in {"idle", "artist", "title"}
          /\ UNCHANGED <<masked, tempText, tempGrants, left, last>>
      BY <1>8 DEF WaitToSet, Sets, SetArtist, SetTitle, SetInfo, tempGhosts
    <2>2. MaskInv'
      BY <1>1, <2>1 DEF SnapshotInv, MaskInv
    <2>3. TempInv'
      BY <1>1, <1>3, <2>1 DEF SnapshotInv, TempInv
    <2>4. QED
      BY <1>2, <2>2, <2>3 DEF SnapshotInv
  <1>9. QED
    BY <1>5, <1>6, <1>7, <1>8 DEF Shows

(* Outside the critical section the SID thread moves on without it.        *)
LEMMA OutsideKeepsSnapshot ==
  ASSUME SnapshotInv,
         sid \notin Critical, sid' \notin Critical,
         sid \in Reads \cup {"format"} \/ sid' \notin Reads \cup {"format"},
         sid' \in {"idle", "clear", "cleartext", "mask", "format"} \cup Reads,
         UNCHANGED <<masked, rn52, tempText, tempGrants, writeTextOnDisplayUpdateNeeded,
                     left, last, fresh>>,
         \/ UNCHANGED <<localTemp, useTemp, event, first>> /\ sid # "format"
         \/ /\ sid' = "idle" /\ localTemp' = <<"version", "version">>
            /\ useTemp' = FALSE /\ event' = FALSE /\ first' = FALSE
  PROVE  SnapshotInv'
  <1>1. MaskInv'
    BY DEF SnapshotInv, MaskInv
  <1>2. sid' # "store" /\ sid' # "event"
    BY DEF Critical
  <1>3. TempInv' /\ EventInv'
    <2>1. CASE UNCHANGED <<localTemp, useTemp, event, first>> /\ sid # "format"
      <3>1. sid' = "format" => ~useTemp
        BY <2>1 DEF SnapshotInv, TempInv
      <3>2. TempInv'
        BY <1>2, <2>1, <3>1 DEF SnapshotInv, TempInv
      <3>3. EventInv'
        BY <2>1 DEF SnapshotInv, EventInv
      <3>4. QED
        BY <3>2, <3>3
    <2>2. CASE /\ sid' = "idle" /\ localTemp' = <<"version", "version">> /\ useTemp' = FALSE
               /\ event' = FALSE /\ first' = FALSE
      <3>1. "version" \in Temps
        BY DEF Temps
      <3>2. TempInv'
        BY <1>2, <2>2, <3>1, TempTexts DEF SnapshotInv, TempInv, Reads
      <3>3. EventInv'
        BY <2>2 DEF SnapshotInv, EventInv, Reads
      <3>4. QED
        BY <3>2, <3>3
    <2>3. QED
      BY <2>1, <2>2
  <1>4. QED
    BY <1>1, <1>3 DEF SnapshotInv

(* The five steps of writeGrantedText around the critical section.         *)
LEMMA CriticalKeepsSnapshot ==
  ASSUME SnapshotInv, DisableIrq \/ LoadGrants \/ StoreGrants \/ EnableIrq
  PROVE  SnapshotInv'
  <1>1. UNCHANGED <<rn52, last, tempText>> /\ masked \in {"nobody", "sid"}
    BY DEF DisableIrq, LoadGrants, StoreGrants, EnableIrq, Snapshot, TextThread, Runs, tempVars,
           SnapshotInv, MaskInv
  <1>2. masked # "rn52" /\ rn52 \notin {"copy", "copied"}
    BY <1>1 DEF SnapshotInv, MaskInv
  <1>3. CASE DisableIrq
    <2>1. /\ sid = "mask" /\ sid' = "load" /\ masked' = "sid" /\ first' = fresh /\ fresh' = FALSE
          /\ UNCHANGED <<tempGrants, writeTextOnDisplayUpdateNeeded, localTemp, useTemp, event, left>>
      BY <1>3 DEF DisableIrq, Mask, tempVars, handVars
    <2>2. MaskInv'
      BY <1>1, <1>2, <2>1 DEF SnapshotInv, MaskInv, Critical
    <2>3. TempInv'
      BY <1>1, <1>2, <2>1 DEF SnapshotInv, TempInv, Reads
    <2>4. EventInv'
      BY <2>1 DEF SnapshotInv, EventInv, Critical, Reads
    <2>5. QED
      BY <2>2, <2>3, <2>4 DEF SnapshotInv
  <1>4. CASE LoadGrants
    <2>1. /\ sid = "load" /\ sid' = IF tempGrants > 0 THEN "store" ELSE "event"
          /\ useTemp' = (tempGrants > 0) /\ grants' = tempGrants
          /\ UNCHANGED <<masked, tempGrants, writeTextOnDisplayUpdateNeeded, localTemp, event,
                         left, fresh, first>>
      BY <1>4 DEF LoadGrants, tempVars, eventGhosts
    <2>2. MaskInv'
      BY <1>1, <1>2, <2>1 DEF SnapshotInv, MaskInv, Critical
    <2>3. \/ tempGrants > 0 /\ useTemp' = TRUE /\ sid' = "store"
          \/ useTemp' = FALSE /\ sid' = "event"
      <3>1. CASE tempGrants > 0
        BY <2>1, <3>1, Zenon
      <3>2. CASE ~(tempGrants > 0)
        <4>1. (tempGrants > 0) = FALSE
          BY <3>2 DEF SnapshotInv, TempInv
        <4>2. QED
          BY <2>1, <3>2, <4>1, Zenon
      <3>3. QED
        BY <3>1, <3>2
    <2>4. TempInv'
      <3>1. CASE tempGrants > 0 /\ useTemp' = TRUE /\ sid' = "store"
        BY <1>1, <1>2, <2>1, <3>1 DEF SnapshotInv, TempInv, Reads
      <3>2. CASE useTemp' = FALSE /\ sid' = "event"
        BY <1>1, <1>2, <2>1, <3>2 DEF SnapshotInv, TempInv, Reads
      <3>3. QED
        BY <2>3, <3>1, <3>2
    <2>5. EventInv'
      BY <2>1 DEF SnapshotInv, EventInv, Critical, Reads
    <2>6. QED
      BY <2>2, <2>4, <2>5 DEF SnapshotInv
  <1>5. CASE StoreGrants
    <2>1. /\ sid = "store" /\ sid' = "event"
          /\ tempGrants' = grants - 1 /\ left' = (IF left > 0 THEN left - 1 ELSE 0)
          /\ localTemp' = [localTemp EXCEPT ![1] = tempText[1]]
          /\ UNCHANGED <<masked, writeTextOnDisplayUpdateNeeded, useTemp, event, fresh, first>>
      BY <1>5 DEF StoreGrants, eventGhosts
    <2>2. MaskInv'
      BY <1>1, <1>2, <2>1 DEF SnapshotInv, MaskInv, Critical
    <2>3. left' \in Nat /\ tempGrants' = left'
      BY <2>1 DEF SnapshotInv, TempInv
    <2>4. localTemp' \in [1 .. 2 -> Temps] /\ localTemp'[1] = tempText[1]
      BY <2>1 DEF SnapshotInv, TempInv
    <2>5. TempInv'
      BY <1>1, <1>2, <2>1, <2>3, <2>4 DEF SnapshotInv, TempInv, Reads
    <2>6. EventInv'
      BY <2>1 DEF SnapshotInv, EventInv, Critical, Reads
    <2>7. QED
      BY <2>2, <2>5, <2>6 DEF SnapshotInv
  <1>6. CASE EnableIrq
    <2>1. /\ sid = "event" /\ sid' = IF useTemp THEN "format" ELSE "get"
          /\ localTemp' = IF useTemp THEN [localTemp EXCEPT ![2] = tempText[2]] ELSE localTemp
          /\ event' = writeTextOnDisplayUpdateNeeded /\ writeTextOnDisplayUpdateNeeded' = FALSE
          /\ masked' = "nobody"
          /\ UNCHANGED <<tempGrants, useTemp, left, fresh, first>>
      BY <1>6 DEF EnableIrq, ClearEvent, eventGhosts
    <2>2. MaskInv'
      BY <1>1, <1>2, <2>1 DEF SnapshotInv, MaskInv, Critical, Reads
    <2>3. localTemp' \in [1 .. 2 -> Temps] /\ (useTemp => localTemp'[1] = localTemp'[2])
      BY <1>2, <2>1 DEF SnapshotInv, TempInv
    <2>4. TempInv'
      BY <1>1, <1>2, <2>1, <2>3 DEF SnapshotInv, TempInv, Reads
    <2>5. EventInv'
      BY <2>1 DEF SnapshotInv, EventInv, Critical, Reads
    <2>6. QED
      BY <2>2, <2>4, <2>5 DEF SnapshotInv
  <1>7. QED
    BY <1>3, <1>4, <1>5, <1>6

LEMMA WritesKeepSnapshot == SnapshotInv /\ Writes => SnapshotInv'
  <1> SUFFICES ASSUME SnapshotInv, Writes PROVE SnapshotInv'
    OBVIOUS
  <1>1. CASE DisableIrq \/ LoadGrants \/ StoreGrants \/ EnableIrq
    BY <1>1, CriticalKeepsSnapshot
  <1>2. CASE Fetch \/ WaitToClear \/ Clear
    <2>1. /\ sid \in {"idle", "clear", "cleartext"} /\ sid' \in {"idle", "clear", "cleartext", "mask"}
          /\ UNCHANGED <<masked, rn52, tempText, tempGrants, writeTextOnDisplayUpdateNeeded,
                         left, last, fresh, localTemp, useTemp, event, first>>
      BY <1>2 DEF Fetch, WaitToClear, Clear, Clearing, TextThread, tempVars, handVars, eventGhosts
    <2>2. QED
      BY <2>1, OutsideKeepsSnapshot DEF Critical, Reads
  <1>3. CASE WaitToGet \/ AddText \/ Advance
    <2>1. /\ sid \in Reads /\ sid' \in Reads \cup {"format"}
          /\ UNCHANGED <<masked, rn52, tempText, tempGrants, writeTextOnDisplayUpdateNeeded,
                         left, last, fresh, localTemp, useTemp, event, first>>
      BY <1>3 DEF WaitToGet, AddText, Advance, Reading, TextThread, tempVars, handVars, eventGhosts, Reads
    <2>2. sid \notin Critical /\ sid' \notin Critical /\ sid # "format"
      BY <2>1 DEF Critical, Reads
    <2>3. QED
      BY <2>1, <2>2, OutsideKeepsSnapshot
  <1>4. CASE FormatTextMessage
    <2>1. /\ sid = "format" /\ sid' = "idle"
          /\ UNCHANGED <<masked, rn52, tempText, tempGrants, writeTextOnDisplayUpdateNeeded,
                         left, last, fresh>>
          /\ localTemp' = <<"version", "version">> /\ useTemp' = FALSE /\ event' = FALSE /\ first' = FALSE
      BY <1>4 DEF FormatTextMessage, TextThread, tempVars
    <2>2. QED
      BY <2>1, OutsideKeepsSnapshot DEF Critical, Reads
  <1>5. QED
    BY <1>1, <1>2, <1>3, <1>4 DEF Writes

LEMMA SnapshotStep == SnapshotInv /\ [TextNext]_textVars => SnapshotInv'
  <1> SUFFICES ASSUME SnapshotInv, [TextNext]_textVars PROVE SnapshotInv'
    OBVIOUS
  <1>1. CASE UNCHANGED textVars
    BY <1>1 DEF textVars, tempVars, handVars, tempGhosts, eventGhosts,
                SnapshotInv, MaskInv, TempInv, EventInv
  <1>2. QED
    BY <1>1, HandlersKeepSnapshot, RN52KeepsSnapshot, WritesKeepSnapshot DEF TextNext

(* The temporary text last asked for is there, for as many grants as it    *)
(* was asked for less those it was shown for, and never a mix of two: for  *)
(* every interleaving of the CAN handler with the two threads, whatever    *)
(* the numbers of grants.                                                  *)
THEOREM TemporaryTextExact == TextSpec => []TemporaryExact
  <1>1. TextInit => SnapshotInv
    BY SnapshotInitially
  <1>2. SnapshotInv /\ [TextNext]_textVars => SnapshotInv'
    BY SnapshotStep
  <1>3. SnapshotInv => TemporaryExact
    <2>1. ASSUME NEW a \in Temps, NEW s \in [1 .. 2 -> Temps], s[1] = a, s[2] = a
          PROVE  s = <<a, a>>
      <3>1. <<a, a>> \in [1 .. 2 -> Temps]
        BY TempTexts
      <3>2. \A k \in 1 .. 2 : s[k] = <<a, a>>[k]
        BY <2>1
      <3>3. QED
        BY <3>1, <3>2
    <2>2. SUFFICES ASSUME SnapshotInv PROVE TemporaryExact
      OBVIOUS
    <2>3. masked = "nobody" => tempText = <<last, last>>
      BY <2>1, <2>2 DEF SnapshotInv, TempInv
    <2>4. QED
      BY <2>2, <2>3 DEF TemporaryExact, SnapshotInv, TempInv
  <1>4. QED
    BY <1>1, <1>2, <1>3, PTL DEF TextSpec

(* Exactly the first text after an activation is an event write, wherever  *)
(* in the SID thread's work the activation falls.                          *)
THEOREM FirstTextIsEvent == TextSpec => []EventOnce
  <1>1. TextInit => SnapshotInv
    BY SnapshotInitially
  <1>2. SnapshotInv /\ [TextNext]_textVars => SnapshotInv'
    BY SnapshotStep
  <1>3. SnapshotInv => EventOnce
    BY DEF SnapshotInv, EventInv, EventOnce
  <1>4. QED
    BY <1>1, <1>2, <1>3, PTL DEF TextSpec

-----------------------------------------------------------------------------
(* The thread that has the scroller's semaphore, if one has.               *)
Holds == {"cleartext", "add", "addagain", "advance"}
Filling == {"artist", "title"}
LockInv ==
  /\ info_lock = IF sid \in Holds \/ rn52 \in Filling THEN 0 ELSE 1
  /\ ~(sid \in Holds /\ rn52 \in Filling)
  /\ rn52 \in Filling => song \in Songs

(* Between two calls of set_info the scroller has a whole text, and is as  *)
(* far in it as it was read.                                               *)
FilledInv ==
  /\ playing \in Seq(Nat) /\ turn \in Nat
  /\ turn > 0 => turn < Len(playing) /\ Len(playing) > Window
  /\ rn52 = "title" => text = Convert(song.artist, BufSize)
  /\ rn52 # "title" => text = playing /\ text_len = Len(playing) /\ position = turn

(* What the SID thread has read of it.                                     *)
ReadInv ==
  /\ sid = "addagain" =>
       /\ turn > 0 /\ Len(playing) - turn <= Window
       /\ buffer = [chars |-> SubSeq(playing, turn + 1, Len(playing)), to_cut |-> 0]
  /\ sid = "advance" => Len(playing) > Window /\ buffer.chars = Seen(playing, turn)
  /\ sid = "format" /\ ~useTemp => buffer.chars = expected

ScrollInv == MaskInv /\ LockInv /\ FilledInv /\ ReadInv

-----------------------------------------------------------------------------
LEMMA ModBelow == ASSUME NEW n \in Nat \ {0}, NEW a \in Nat, a < n PROVE a % n = a
  OBVIOUS

LEMMA ModOnceRound ==
  ASSUME NEW n \in Nat \ {0}, NEW a \in Nat, n <= a, a < 2 * n PROVE a % n = a - n
  OBVIOUS

(* A window that does not reach the end of the text, and one that goes     *)
(* around it.                                                              *)
LEMMA SeenWithin ==
  ASSUME NEW s \in Seq(Nat), NEW k \in Nat, Len(s) > Window, k + Window <= Len(s)
  PROVE  Seen(s, k) = SubSeq(s, k + 1, k + Window)
  <1>1. Window \in Nat \ {0} /\ Len(s) \in Nat \ {0}
    BY SidTextAssumption
  <1>2. \A i \in 1 .. Window : (k + i - 1) % Len(s) = k + i - 1
    <2> TAKE i \in 1 .. Window
    <2>1. k + i - 1 \in Nat /\ k + i - 1 < Len(s)
      BY <1>1
    <2>2. QED
      BY <1>1, <2>1, ModBelow
  <1>3. Seen(s, k) = [i \in 1 .. Window |-> s[k + i]]
    <2>1. Seen(s, k) = [i \in 1 .. Window |-> s[((k + i - 1) % Len(s)) + 1]]
      BY <1>1 DEF Seen
    <2>2. ASSUME NEW i \in 1 .. Window PROVE ((k + i - 1) % Len(s)) + 1 = k + i
      <3>1. (k + i - 1) % Len(s) = k + i - 1
        BY <1>2
      <3>2. ASSUME NEW n, n = k + i - 1 PROVE n + 1 = k + i
        BY <1>1, <3>2
      <3>3. QED
        BY <3>1, <3>2, Zenon
    <2>3. QED
      BY <2>1, <2>2
  <1>4. SubSeq(s, k + 1, k + Window) = [i \in 1 .. Window |-> s[k + i]]
    BY <1>1
  <1>5. QED
    BY <1>3, <1>4

LEMMA SeenAround ==
  ASSUME NEW s \in Seq(Nat), NEW k \in Nat, Len(s) > Window, k < Len(s), Len(s) - k <= Window
  PROVE  Seen(s, k) = SubSeq(s, k + 1, Len(s)) \o SubSeq(s, 1, Window - (Len(s) - k))
  <1>1. Window \in Nat \ {0} /\ Len(s) \in Nat \ {0}
    BY SidTextAssumption
  <1> DEFINE tail == SubSeq(s, k + 1, Len(s))
             head == SubSeq(s, 1, Window - (Len(s) - k))
  <1>2. /\ tail \in Seq(Nat) /\ Len(tail) = Len(s) - k
        /\ \A i \in 1 .. Len(s) - k : tail[i] = s[k + i]
    BY <1>1
  <1>3. /\ head \in Seq(Nat) /\ Len(head) = Window - (Len(s) - k)
        /\ \A i \in 1 .. Window - (Len(s) - k) : head[i] = s[i]
    BY <1>1
  <1> HIDE DEF tail, head
  <1>4. /\ tail \o head \in Seq(Nat) /\ Len(tail \o head) = Len(tail) + Len(head)
        /\ \A i \in 1 .. Len(tail) + Len(head) :
             (tail \o head)[i] = IF i <= Len(tail) THEN tail[i] ELSE head[i - Len(tail)]
    BY <1>2, <1>3, ConcatProperties
  <1>5. Len(tail \o head) = Window /\ Len(tail) + Len(head) = Window
    BY <1>1, <1>2, <1>3, <1>4
  <1>6. \A i \in 1 .. Window : (tail \o head)[i] = s[((k + i - 1) % Len(s)) + 1]
    <2> TAKE i \in 1 .. Window
    <2>1. CASE i <= Len(s) - k
      <3>1. (k + i - 1) % Len(s) = k + i - 1
        <4>1. k + i - 1 \in Nat /\ k + i - 1 < Len(s)
          BY <1>1, <2>1
        <4>2. QED
          BY <1>1, <4>1, ModBelow
      <3>2. (tail \o head)[i] = tail[i] /\ tail[i] = s[k + i]
        BY <1>1, <1>2, <1>4, <1>5, <2>1
      <3>3. ((k + i - 1) % Len(s)) + 1 = k + i
        BY <1>1, <3>1
      <3>4. QED
        BY <3>2, <3>3
    <2>2. CASE i > Len(s) - k
      <3>1. (k + i - 1) % Len(s) = k + i - 1 - Len(s)
        <4>1. k + i - 1 \in Nat /\ Len(s) <= k + i - 1 /\ k + i - 1 < 2 * Len(s)
          BY <1>1, <2>2
        <4>2. QED
          BY <1>1, <4>1, ModOnceRound
      <3> DEFINE j == i - (Len(s) - k)
      <3>2. j \in 1 .. Window - (Len(s) - k)
        BY <1>1, <2>2
      <3>3. (tail \o head)[i] = head[j]
        <4>1. ~(i <= Len(tail)) /\ i \in 1 .. Len(tail) + Len(head) /\ j = i - Len(tail)
          BY <1>1, <1>2, <1>5, <2>2
        <4>2. QED
          BY <1>4, <4>1
      <3>4. head[j] = s[j]
        BY <1>3, <3>2
      <3>5. ((k + i - 1) % Len(s)) + 1 = j
        BY <1>1, <3>1, <3>2
      <3> HIDE DEF j
      <3>6. QED
        BY <3>3, <3>4, <3>5, Zenon
    <2>3. i <= Len(s) - k \/ i > Len(s) - k
      BY <1>1
    <2>4. QED
      BY <2>1, <2>2, <2>3
  <1>7. tail \o head = [i \in 1 .. Window |-> (tail \o head)[i]]
    <2>1. ASSUME NEW t \in Seq(Nat) PROVE t = [i \in 1 .. Len(t) |-> t[i]]
      OBVIOUS
    <2>2. tail \o head = [i \in 1 .. Len(tail \o head) |-> (tail \o head)[i]]
      BY <1>4, <2>1
    <2>3. QED
      BY <1>5, <2>2
  <1>8. Seen(s, k) = tail \o head
    <2>1. Seen(s, k) = [i \in 1 .. Window |-> s[((k + i - 1) % Len(s)) + 1]]
      BY <1>1 DEF Seen
    <2>2. QED
      BY <1>6, <1>7, <2>1
  <1>9. QED
    BY <1>8 DEF tail, head

(* What StringBuffer takes of a text: all that is left of it, or as much   *)
(* as there is room for.                                                   *)
Rest(s, k) == SubSeq(s, k + 1, Len(s))
Taken(c, rest) == IF Len(rest) > Window - Len(c) THEN SubSeq(rest, 1, Window - Len(c)) ELSE rest

LEMMA AddParts ==
  ASSUME NEW c, NEW s, NEW k, ~(k >= Len(s))
  PROVE  /\ Add([chars |-> c, to_cut |-> k], s).all <=> (Taken(c, Rest(s, k)) = Rest(s, k))
         /\ Add([chars |-> c, to_cut |-> k], s).buffer =
              [chars |-> c \o Taken(c, Rest(s, k)), to_cut |-> 0]
  <1> DEFINE b == [chars |-> c, to_cut |-> k]
  <1>1. b.chars = c /\ b.to_cut = k
    OBVIOUS
  <1>2. Add(b, s) = LET rest == SubSeq(s, b.to_cut + 1, Len(s))
                        room == Window - Len(b.chars)
                        added == IF Len(rest) > room THEN SubSeq(rest, 1, room) ELSE rest
                    IN [buffer |-> [chars |-> b.chars \o added, to_cut |-> 0], all |-> added = rest]
    BY <1>1, Zenon DEF Add
  <1>3. Add(b, s) = [buffer |-> [chars |-> c \o Taken(c, Rest(s, k)), to_cut |-> 0],
                     all |-> Taken(c, Rest(s, k)) = Rest(s, k)]
    BY <1>1, <1>2, Zenon DEF Rest, Taken
  <1>4. ASSUME NEW x, NEW y, Add(b, s) = [buffer |-> y, all |-> x]
        PROVE  Add(b, s).all = x /\ Add(b, s).buffer = y
    BY <1>4
  <1>5. Add(b, s).buffer = [chars |-> c \o Taken(c, Rest(s, k)), to_cut |-> 0]
    BY <1>3, <1>4, Zenon
  <1>6. Add(b, s).all = (Taken(c, Rest(s, k)) = Rest(s, k))
    BY <1>3, <1>4, Zenon
  <1>7. QED
    BY <1>5, <1>6, Zenon

LEMMA RestOf ==
  ASSUME NEW s \in Seq(Nat), NEW k \in Nat, k < Len(s)
  PROVE  /\ Rest(s, k) \in Seq(Nat) /\ Len(Rest(s, k)) = Len(s) - k
         /\ \A i \in 1 .. Len(s) - k : Rest(s, k)[i] = s[k + i]
         /\ Rest(s, 0) = s
  <1>1. Len(s) \in Nat /\ 0 + 1 = 1
    OBVIOUS
  <1>2. /\ SubSeq(s, k + 1, Len(s)) \in Seq(Nat) /\ Len(SubSeq(s, k + 1, Len(s))) = Len(s) - k
        /\ \A i \in 1 .. Len(s) - k : SubSeq(s, k + 1, Len(s))[i] = s[k + i]
    BY <1>1
  <1>3. SubSeq(s, 1, Len(s)) = s
    BY <1>1
  <1>4. QED
    BY <1>1, <1>2, <1>3, Zenon DEF Rest

LEMMA AddWindow ==
  ASSUME NEW s \in Seq(Nat), NEW k \in Nat, Len(s) > Window, k < Len(s),
         NEW added, added = Add([chars |-> <<>>, to_cut |-> k], s)
  PROVE  \/ /\ added.all /\ k > 0 /\ Len(s) - k <= Window
            /\ added.buffer = [chars |-> SubSeq(s, k + 1, Len(s)), to_cut |-> 0]
         \/ ~added.all /\ added.buffer.chars = Seen(s, k)
  <1> DEFINE rest == Rest(s, k)
             taken == Taken(<<>>, rest)
  <1>1. Window \in Nat \ {0} /\ Len(s) \in Nat
    BY SidTextAssumption
  <1>2. rest \in Seq(Nat) /\ Len(rest) = Len(s) - k /\ \A i \in 1 .. Len(s) - k : rest[i] = s[k + i]
    BY RestOf
  <1>3. /\ added.all <=> (taken = rest)
        /\ added.buffer = [chars |-> <<>> \o taken, to_cut |-> 0]
    <2>1. ~(k >= Len(s))
      BY <1>1
    <2>2. QED
      BY <2>1, AddParts, Zenon
  <1>4. taken = IF Len(rest) > Window THEN SubSeq(rest, 1, Window) ELSE rest
    <2>1. Window - Len(<<>>) = Window
      BY <1>1
    <2>2. QED
      BY <2>1 DEF Taken
  <1> HIDE DEF rest, taken
  <1>5. CASE Len(rest) > Window
    <2>1. taken \in Seq(Nat) /\ Len(taken) = Window /\ \A i \in 1 .. Window : taken[i] = rest[i]
      <3>1. taken = SubSeq(rest, 1, Window)
        BY <1>4, <1>5
      <3>2. ASSUME NEW t \in Seq(Nat), Len(t) > Window
            PROVE  /\ SubSeq(t, 1, Window) \in Seq(Nat) /\ Len(SubSeq(t, 1, Window)) = Window
                   /\ \A i \in 1 .. Window : SubSeq(t, 1, Window)[i] = t[i]
        BY <1>1, <3>2
      <3>3. QED
        BY <1>2, <1>5, <3>1, <3>2
    <2>2. taken = SubSeq(s, k + 1, k + Window)
      <3>1. SubSeq(s, k + 1, k + Window) = [i \in 1 .. Window |-> s[k + i]]
        BY <1>1, <1>2, <1>5
      <3>2. taken = [i \in 1 .. Window |-> taken[i]]
        BY <1>1, <2>1
      <3>3. \A i \in 1 .. Window : taken[i] = s[k + i]
        <4> TAKE i \in 1 .. Window
        <4>1. i \in 1 .. Len(s) - k
          BY <1>1, <1>2, <1>5
        <4>2. QED
          BY <1>2, <2>1, <4>1
      <3>4. QED
        BY <3>1, <3>2, <3>3
    <2>3. taken # rest
      BY <1>1, <1>5, <2>1
    <2>4. k + Window <= Len(s)
      BY <1>1, <1>2, <1>5
    <2>5. taken = Seen(s, k)
      BY <2>2, <2>4, SeenWithin
    <2>6. <<>> \o taken = taken
      BY <2>1
    <2>7. added.buffer.chars = taken
      BY <1>3, <2>6
    <2>8. QED
      BY <1>3, <2>3, <2>5, <2>7
  <1>6. CASE ~(Len(rest) > Window)
    <2>1. taken = rest
      BY <1>4, <1>6
    <2>2. <<>> \o taken = rest
      BY <1>2, <2>1
    <2>3. k > 0 /\ Len(s) - k <= Window
      BY <1>1, <1>2, <1>6
    <2>4. QED
      BY <1>3, <2>1, <2>2, <2>3 DEF rest, Rest
  <1>7. QED
    BY <1>5, <1>6

LEMMA AddWhole ==
  ASSUME NEW s \in Seq(Nat), Len(s) <= Window,
         NEW added, added = Add([chars |-> <<>>, to_cut |-> 0], s)
  PROVE  added.all /\ added.buffer.chars = s /\ s = Seen(s, 0)
  <1>1. Window \in Nat \ {0} /\ Len(s) \in Nat
    BY SidTextAssumption
  <1>2. s = Seen(s, 0)
    BY DEF Seen
  <1>3. CASE s = <<>>
    <2> DEFINE b == [chars |-> <<>>, to_cut |-> 0]
    <2>1. b.to_cut >= Len(s) /\ b.chars = <<>>
      BY <1>3
    <2>2. added = [buffer |-> [b EXCEPT !.to_cut = @ - Len(s)], all |-> TRUE]
      BY <2>1 DEF Add
    <2>3. QED
      BY <1>2, <1>3, <2>2
  <1>4. CASE s # <<>>
    <2>1. SubSeq(s, 0 + 1, Len(s)) = s /\ <<>> \o s = s /\ 0 < Len(s)
      BY <1>1, <1>4
    <2>2. Rest(s, 0) = s /\ Taken(<<>>, s) = s
      <3>1. Rest(s, 0) = s
        BY <2>1, RestOf
      <3>2. ~(Len(s) > Window - Len(<<>>))
        BY <1>1
      <3>3. QED
        BY <3>1, <3>2 DEF Taken
    <2>3. ~(0 >= Len(s))
      BY <1>1, <2>1
    <2>4. /\ added.all <=> (Taken(<<>>, Rest(s, 0)) = Rest(s, 0))
          /\ added.buffer = [chars |-> <<>> \o Taken(<<>>, Rest(s, 0)), to_cut |-> 0]
      BY <2>3, AddParts, Zenon
    <2>5. QED
      BY <1>2, <2>1, <2>2, <2>4
  <1>5. QED
    BY <1>3, <1>4

LEMMA AddAround ==
  ASSUME NEW s \in Seq(Nat), NEW k \in Nat, Len(s) > Window, k < Len(s), Len(s) - k <= Window
  PROVE  Add([chars |-> SubSeq(s, k + 1, Len(s)), to_cut |-> 0], s).buffer.chars = Seen(s, k)
  <1>1. Window \in Nat \ {0} /\ Len(s) \in Nat
    BY SidTextAssumption
  <1> DEFINE tail == SubSeq(s, k + 1, Len(s))
  <1>2. Len(tail) = Len(s) - k
    BY <1>1
  <1>3. Seen(s, k) = tail \o SubSeq(s, 1, Window - (Len(s) - k))
    BY SeenAround
  <1> HIDE DEF tail
  <1>4. Rest(s, 0) = s
    BY RestOf
  <1>5. Taken(tail, s) = SubSeq(s, 1, Window - (Len(s) - k))
    BY <1>1, <1>2 DEF Taken
  <1>6. ~(0 >= Len(s))
    BY <1>1
  <1>7. Add([chars |-> tail, to_cut |-> 0], s).buffer =
          [chars |-> tail \o Taken(tail, Rest(s, 0)), to_cut |-> 0]
    BY <1>6, AddParts, Zenon
  <1>8. Add([chars |-> tail, to_cut |-> 0], s).buffer.chars = tail \o Taken(tail, s)
    <2>1. ASSUME NEW x, NEW y, x = [chars |-> y, to_cut |-> 0] PROVE x.chars = y
      BY <2>1
    <2>2. Add([chars |-> tail, to_cut |-> 0], s).buffer.chars = tail \o Taken(tail, Rest(s, 0))
      BY <1>7, <2>1, Zenon
    <2>3. QED
      BY <1>4, <2>2, Zenon
  <1>9. QED
    BY <1>3, <1>5, <1>8 DEF tail

-----------------------------------------------------------------------------
(* A song's text is the text the RN52 thread puts together of it.          *)
LEMMA JoinedText ==
  ASSUME TextsConverted, NEW s \in Songs
  PROVE  LET joined == Join(Convert(s.artist, BufSize), Convert(s.title, BufSize))
         IN /\ joined \in Seq(Nat)
            /\ Ring(s) = IF Len(joined) > Window THEN joined \o Separator ELSE joined
  <1>1. /\ Letters[s.artist] \in Seq(Nat) /\ Convert(s.artist, BufSize) = Cut(Letters[s.artist])
        /\ Letters[s.title] \in Seq(Nat) /\ Convert(s.title, BufSize) = Cut(Letters[s.title])
    BY DEF TextsConverted
  <1>2. ASSUME NEW t \in Seq(Nat) PROVE Cut(t) \in Seq(Nat)
    <2>1. CASE Len(t) < BufSize
      <3>1. SubSeq(t, 1, Len(t)) \in Seq(Nat)
        OBVIOUS
      <3>2. QED
        BY <2>1, <3>1 DEF Cut
    <2>2. CASE ~(Len(t) < BufSize)
      <3>1. BufSize - 1 \in 0 .. Len(t)
        BY <2>2, SidTextAssumption
      <3>2. SubSeq(t, 1, BufSize - 1) \in Seq(Nat)
        BY <3>1
      <3>3. QED
        BY <2>2, <3>2 DEF Cut
    <2>3. QED
      BY <2>1, <2>2
  <1>3. ASSUME NEW a \in Seq(Nat), NEW b \in Seq(Nat) PROVE Join(a, b) \in Seq(Nat)
    <2>1. Separator \in Seq(Nat) /\ <<>> \in Seq(Nat)
      BY SidTextAssumption
    <2>2. QED
      BY <2>1 DEF Join
  <1>4. QED
    BY <1>1, <1>2, <1>3 DEF Ring

LEMMA ScrollInitially == TextInit => ScrollInv
  <1> SUFFICES ASSUME TextInit PROVE ScrollInv
    OBVIOUS
  <1>1. MaskInv /\ LockInv
    BY DEF TextInit, MaskInv, LockInv, Critical, Reads, Holds, Filling
  <1>2. FilledInv /\ ReadInv
    BY DEF TextInit, FilledInv, ReadInv
  <1>3. QED
    BY <1>1, <1>2 DEF ScrollInv

(* Whoever does not touch the scroller leaves it as it is.                 *)
LEMMA HandlersKeepScroll == ScrollInv /\ TextHandlers => ScrollInv'
  <1> SUFFICES ASSUME ScrollInv, TextHandlers PROVE ScrollInv'
    OBVIOUS
  <1>1. UNCHANGED <<masked, scrollerVars, info_lock, sid, handVars, buffer, rn52, song, scrollGhosts>>
    BY DEF TextHandlers, ActivateText, DeactivateText, Pairing, GrantText, Handler
  <1>2. QED
    BY <1>1 DEF ScrollInv, MaskInv, LockInv, FilledInv, ReadInv, scrollerVars, handVars, scrollGhosts

(* set_info has the semaphore from its first step to its last, and leaves  *)
(* a whole text.                                                           *)
LEMMA RN52KeepsScroll ==
  ASSUME TextsConverted, ScrollInv, MaskInv', ShowConnected \/ Shows \/ WaitToSet \/ Sets
  PROVE  ScrollInv'
  <1>1. UNCHANGED <<sid, useTemp, buffer, expected>>
    BY DEF ShowConnected, Shows, CopyFirstHalf, CopySecondHalf, WaitToSet, Sets, SetArtist, SetTitle,
           RN52Thread, handVars
  <1>2. CASE ShowConnected \/ Shows
    <2>1. /\ UNCHANGED <<text, position, text_len, info_lock, song, playing, turn>>
          /\ rn52 \notin Filling /\ rn52' \notin Filling
      BY <1>2 DEF ShowConnected, Shows, CopyFirstHalf, CopySecondHalf, scrollerVars, Filling
    <2>2. rn52 # "title" /\ rn52' # "title"
      BY <2>1 DEF Filling
    <2>3. LockInv' /\ FilledInv' /\ ReadInv'
      BY <1>1, <2>1, <2>2 DEF ScrollInv, LockInv, FilledInv, ReadInv
    <2>4. QED
      BY <2>3 DEF ScrollInv
  <1>3. CASE WaitToSet
    <2>1. /\ rn52 = "idle" /\ rn52' = "artist" /\ info_lock > 0 /\ info_lock' = info_lock - 1
          /\ song' \in Songs /\ UNCHANGED <<text, position, text_len, playing, turn>>
      BY <1>3 DEF WaitToSet, Wait, scrollerVars
    <2>2. LockInv'
      BY <1>1, <2>1 DEF ScrollInv, LockInv, Filling
    <2>3. FilledInv' /\ ReadInv'
      BY <1>1, <2>1 DEF ScrollInv, FilledInv, ReadInv
    <2>4. QED
      BY <2>2, <2>3 DEF ScrollInv
  <1>4. CASE SetArtist
    <2>1. /\ rn52 = "artist" /\ rn52' = "title" /\ text' = Convert(song.artist, BufSize)
          /\ UNCHANGED <<position, text_len, info_lock, song, playing, turn>>
      BY <1>4 DEF SetArtist
    <2>2. LockInv'
      BY <1>1, <2>1 DEF ScrollInv, LockInv, Filling
    <2>3. FilledInv' /\ ReadInv'
      BY <1>1, <2>1 DEF ScrollInv, FilledInv, ReadInv
    <2>4. QED
      BY <2>2, <2>3 DEF ScrollInv
  <1>5. CASE SetTitle
    <2> DEFINE joined == Join(text, Convert(song.title, BufSize))
    <2>1. /\ rn52 = "title" /\ rn52' = "idle"
          /\ text' = (IF Len(joined) > Window THEN joined \o Separator ELSE joined)
          /\ text_len' = (IF Len(joined) > Window THEN Len(joined) + SeparatorLength ELSE Len(joined))
          /\ position' = 0 /\ playing' = Ring(song) /\ turn' = 0 /\ info_lock' = info_lock + 1
      BY <1>5 DEF SetTitle, Release
    <2>2. song \in Songs /\ text = Convert(song.artist, BufSize) /\ sid \notin Holds /\ info_lock = 0
      BY <2>1 DEF ScrollInv, LockInv, FilledInv, Filling
    <2>3. joined \in Seq(Nat) /\ Ring(song) = IF Len(joined) > Window THEN joined \o Separator ELSE joined
      BY <2>2, JoinedText
    <2>4. Separator \in Seq(Nat)
      BY SidTextAssumption
    <2> HIDE DEF joined
    <2>5. playing' \in Seq(Nat) /\ text' = playing' /\ text_len' = Len(playing')
      BY <2>1, <2>3, <2>4 DEF SeparatorLength
    <2>6. LockInv'
      BY <1>1, <2>1, <2>2 DEF LockInv, Filling
    <2>7. FilledInv'
      BY <2>1, <2>5 DEF FilledInv
    <2>8. sid # "addagain" /\ sid # "advance"
      BY <2>2 DEF Holds
    <2>9. ReadInv'
      BY <1>1, <2>8 DEF ScrollInv, ReadInv
    <2>10. QED
      BY <2>6, <2>7, <2>9 DEF ScrollInv
  <1>6. QED
    BY <1>2, <1>3, <1>4, <1>5 DEF Sets

(* A step of the SID thread outside Scroller::get and its clearing.        *)
LEMMA SidKeepsScroll ==
  ASSUME ScrollInv, MaskInv', SnapshotInv,
         \/ Fetch \/ WaitToClear \/ Clear \/ DisableIrq \/ LoadGrants \/ StoreGrants \/ EnableIrq
         \/ WaitToGet \/ FormatTextMessage
  PROVE  ScrollInv'
  <1>1. rn52' = rn52 /\ song' = song
    BY DEF Fetch, WaitToClear, Clear, DisableIrq, LoadGrants, StoreGrants, EnableIrq, WaitToGet,
           FormatTextMessage, Clearing, Snapshot, Reading, TextThread
  <1>2. CASE Clear
    <2>1. /\ sid = "cleartext" /\ sid' \in {"mask", "idle"}
          /\ text' = <<>> /\ position' = 0 /\ text_len' = 0 /\ playing' = <<>> /\ turn' = 0
          /\ info_lock' = info_lock + 1
      BY <1>2 DEF Clear, Release
    <2>2. rn52 \notin Filling /\ info_lock = 0
      BY <2>1 DEF ScrollInv, LockInv, Holds
    <2>3. LockInv'
      BY <1>1, <2>1, <2>2 DEF LockInv, Holds
    <2>4. FilledInv'
      BY <1>1, <2>1, <2>2 DEF FilledInv, Filling
    <2>5. ReadInv'
      BY <2>1 DEF ReadInv
    <2>6. QED
      BY <2>3, <2>4, <2>5 DEF ScrollInv
  <1>3. CASE WaitToClear \/ WaitToGet
    <2>1. /\ sid' \in {"cleartext", "add"} /\ sid \notin Holds
          /\ info_lock > 0 /\ info_lock' = info_lock - 1
          /\ UNCHANGED <<text, position, text_len, playing, turn>>
      BY <1>3 DEF WaitToClear, WaitToGet, Clearing, Reading, Wait, scrollerVars, Holds
    <2>2. LockInv'
      BY <1>1, <2>1 DEF ScrollInv, LockInv, Holds
    <2>3. FilledInv'
      BY <1>1, <2>1 DEF ScrollInv, FilledInv
    <2>4. ReadInv'
      BY <2>1 DEF ReadInv
    <2>5. QED
      BY <2>2, <2>3, <2>4 DEF ScrollInv
  <1>4. CASE \/ Fetch \/ DisableIrq \/ LoadGrants \/ StoreGrants \/ EnableIrq
             \/ FormatTextMessage
    <2>1. /\ sid \notin Holds /\ sid' \notin Holds
          /\ UNCHANGED <<text, position, text_len, info_lock, playing, turn>>
      BY <1>4 DEF Fetch, DisableIrq, LoadGrants, StoreGrants, EnableIrq, FormatTextMessage, Snapshot,
                  scrollerVars, scrollGhosts, Holds
    <2>2. LockInv'
      BY <1>1, <2>1 DEF ScrollInv, LockInv
    <2>3. FilledInv'
      BY <1>1, <2>1 DEF ScrollInv, FilledInv
    <2>4. sid' = "format" => useTemp'
      BY <1>4 DEF Fetch, DisableIrq, LoadGrants, StoreGrants, EnableIrq, FormatTextMessage
    <2>5. sid' # "addagain" /\ sid' # "advance"
      BY <2>1 DEF Holds
    <2>6. ReadInv'
      BY <2>4, <2>5 DEF ReadInv
    <2>7. QED
      BY <2>2, <2>3, <2>6 DEF ScrollInv
  <1>5. QED
    BY <1>2, <1>3, <1>4

LEMMA AddTextKeepsScroll ==
  ASSUME ScrollInv, MaskInv', AddText
  PROVE  ScrollInv'
  <1> DEFINE added == Add([chars |-> <<>>, to_cut |-> position], text)
  <1>1. /\ sid = "add" /\ buffer' = added.buffer
        /\ UNCHANGED <<rn52, song, useTemp, text, position, text_len, playing, turn>>
        /\ \/ /\ position = 0 /\ added.all /\ sid' = "format"
              /\ expected' = Seen(playing, turn) /\ info_lock' = info_lock + 1
           \/ /\ ~(position = 0 /\ added.all)
              /\ sid' = IF added.all THEN "addagain" ELSE "advance"
              /\ info_lock' = info_lock
    BY DEF AddText, ReleaseEarly, Release, Reading, TextThread, handVars
  <1>2. /\ rn52 \notin Filling /\ info_lock = 0
        /\ text = playing /\ text_len = Len(playing) /\ position = turn
    BY <1>1 DEF ScrollInv, LockInv, FilledInv, Holds, Filling
  <1>3. Window \in Nat \ {0} /\ playing \in Seq(Nat) /\ turn \in Nat /\ Len(playing) \in Nat
    BY SidTextAssumption DEF ScrollInv, FilledInv
  <1>4. FilledInv'
    BY <1>1, <1>2 DEF ScrollInv, FilledInv
  <1>5. LockInv'
    BY <1>1, <1>2 DEF LockInv, Holds
  <1>6. added = Add([chars |-> <<>>, to_cut |-> turn], playing)
    BY <1>2
  <1> HIDE DEF added
  <1>7. ReadInv'
    <2>1. CASE Len(playing) <= Window
      <3>1. turn = 0
        BY <1>3, <2>1 DEF ScrollInv, FilledInv
      <3>2. added.all /\ added.buffer.chars = playing /\ playing = Seen(playing, 0)
        BY <1>3, <1>6, <2>1, <3>1, AddWhole
      <3>3. sid' = "format" /\ expected' = Seen(playing, 0)
        BY <1>1, <1>2, <3>1, <3>2
      <3>4. QED
        BY <1>1, <3>2, <3>3 DEF ReadInv
    <2>2. CASE Len(playing) > Window
      <3>1. turn < Len(playing)
        BY <1>3, <2>2 DEF ScrollInv, FilledInv
      <3>2. \/ /\ added.all /\ turn > 0 /\ Len(playing) - turn <= Window
               /\ added.buffer = [chars |-> SubSeq(playing, turn + 1, Len(playing)), to_cut |-> 0]
            \/ ~added.all /\ added.buffer.chars = Seen(playing, turn)
        BY <1>3, <1>6, <2>2, <3>1, AddWindow, Zenon
      <3>3. CASE /\ added.all /\ turn > 0 /\ Len(playing) - turn <= Window
                 /\ added.buffer = [chars |-> SubSeq(playing, turn + 1, Len(playing)), to_cut |-> 0]
        <4>1. sid' = "addagain"
          BY <1>1, <1>2, <3>3
        <4>2. QED
          BY <1>1, <3>3, <4>1 DEF ReadInv
      <3>4. CASE ~added.all /\ added.buffer.chars = Seen(playing, turn)
        <4>1. sid' = "advance"
          BY <1>1, <3>4
        <4>2. Seen(playing, turn)' = Seen(playing, turn)
          BY <1>1 DEF Seen
        <4>3. QED
          BY <1>1, <2>2, <3>4, <4>1, <4>2 DEF ReadInv
      <3>5. QED
        BY <3>2, <3>3, <3>4
    <2>3. QED
      BY <1>3, <2>1, <2>2
  <1>8. QED
    BY <1>4, <1>5, <1>7 DEF ScrollInv

LEMMA AdvanceKeepsScroll ==
  ASSUME ScrollInv, MaskInv', Advance
  PROVE  ScrollInv'
  <1>1. /\ sid \in {"addagain", "advance"} /\ sid' = "format"
        /\ buffer' = IF sid = "addagain" THEN Add(buffer, text).buffer ELSE buffer
        /\ position' = IF position + 1 >= text_len THEN position + 1 - text_len ELSE position + 1
        /\ expected' = Seen(playing, turn)
        /\ turn' = IF playing = <<>> THEN 0 ELSE (turn + 1) % Len(playing)
        /\ info_lock' = info_lock + 1
        /\ UNCHANGED <<rn52, song, useTemp, text, text_len, playing>>
    BY DEF Advance, Release, Reading, TextThread, handVars
  <1>2. /\ rn52 \notin Filling /\ info_lock = 0
        /\ text = playing /\ text_len = Len(playing) /\ position = turn
    BY <1>1 DEF ScrollInv, LockInv, FilledInv, Holds, Filling
  <1>3. /\ Window \in Nat \ {0} /\ playing \in Seq(Nat) /\ turn \in Nat /\ Len(playing) \in Nat
        /\ turn > 0 => turn < Len(playing) /\ Len(playing) > Window
    BY SidTextAssumption DEF ScrollInv, FilledInv
  <1>4. Len(playing) > Window /\ turn < Len(playing)
    BY <1>1, <1>3 DEF ScrollInv, ReadInv
  <1>5. position' = turn' /\ turn' \in Nat /\ turn' < Len(playing)
    <2>1. playing # <<>> /\ Len(playing) \in Nat \ {0} /\ turn + 1 \in Nat
      BY <1>3, <1>4
    <2>2. turn' = (turn + 1) % Len(playing)
      BY <1>1, <2>1
    <2>3. CASE turn + 1 < Len(playing)
      <3>1. (turn + 1) % Len(playing) = turn + 1
        BY <2>1, <2>3, ModBelow
      <3>2. position' = turn + 1
        BY <1>1, <1>2, <1>3, <2>3
      <3>3. QED
        BY <1>3, <2>2, <2>3, <3>1, <3>2
    <2>4. CASE turn + 1 = Len(playing)
      <3>1. Len(playing) % Len(playing) = 0
        <4>1. ASSUME NEW n \in Nat \ {0} PROVE n % n = 0
          OBVIOUS
        <4>2. QED
          BY <2>1, <4>1
      <3>2. position' = 0
        BY <1>1, <1>2, <1>3, <2>4
      <3>3. QED
        BY <1>3, <1>4, <2>2, <2>4, <3>1, <3>2
    <2>5. turn + 1 < Len(playing) \/ turn + 1 = Len(playing)
      BY <1>3, <1>4
    <2>6. QED
      BY <2>3, <2>4, <2>5
  <1>6. LockInv'
    BY <1>1, <1>2 DEF LockInv, Holds
  <1>7. FilledInv'
    BY <1>1, <1>2, <1>3, <1>4, <1>5 DEF FilledInv, Filling
  <1>8. buffer'.chars = Seen(playing, turn)
    <2>1. CASE sid = "advance"
      BY <1>1, <2>1 DEF ScrollInv, ReadInv
    <2>2. CASE sid = "addagain"
      <3>1. /\ Len(playing) - turn <= Window
            /\ buffer = [chars |-> SubSeq(playing, turn + 1, Len(playing)), to_cut |-> 0]
        BY <2>2 DEF ScrollInv, ReadInv
      <3>2. Add(buffer, playing).buffer.chars = Seen(playing, turn)
        BY <1>3, <1>4, <3>1, AddAround
      <3>3. QED
        BY <1>1, <1>2, <2>2, <3>2
    <2>3. QED
      BY <1>1, <2>1, <2>2
  <1>9. ReadInv'
    BY <1>1, <1>8 DEF ReadInv
  <1>10. QED
    BY <1>6, <1>7, <1>9 DEF ScrollInv

LEMMA ScrollStep ==
  ASSUME TextsConverted, ScrollInv, SnapshotInv, SnapshotInv', [TextNext]_textVars
  PROVE  ScrollInv'
  <1>1. MaskInv'
    BY DEF SnapshotInv
  <1>2. CASE UNCHANGED textVars
    BY <1>2 DEF textVars, scrollerVars, handVars, scrollGhosts, ScrollInv, MaskInv, LockInv, FilledInv,
                ReadInv
  <1>3. CASE Writes
    BY <1>1, <1>3, SidKeepsScroll, AddTextKeepsScroll, AdvanceKeepsScroll DEF Writes
  <1>4. QED
    BY <1>1, <1>2, <1>3, HandlersKeepScroll, RN52KeepsScroll DEF TextNext

(* What the scroller shows is always cut from one whole song, one further  *)
(* to the right each time and around its end, however its filling, its     *)
(* clearing and its reading fall together: for every display width, every  *)
(* separator and every set of songs utf_convert turns into what they say.  *)
THEOREM OneSongShown == ASSUME TextsConverted PROVE TextSpec => []ScrollerShows
  <1>1. TextInit => SnapshotInv /\ ScrollInv
    BY SnapshotInitially, ScrollInitially
  <1>2. SnapshotInv /\ ScrollInv /\ [TextNext]_textVars => SnapshotInv' /\ ScrollInv'
    BY SnapshotStep, ScrollStep
  <1>3. ScrollInv => ScrollerShows
    BY DEF ScrollInv, ReadInv, ScrollerShows
  <1>4. QED
    BY <1>1, <1>2, <1>3, PTL DEF TextSpec
=============================================================================
