----------------------------- MODULE SidResource -----------------------------
(***************************************************************************)
(* The SID thread of SidResource.cpp: it asks for the display, at once for *)
(* a driver's action and every Base otherwise but never twice within       *)
(* Spacing, and uses the grants that come.  The CAN handler and the other  *)
(* threads only set flags and signals.  The writing of a text is one step  *)
(* here; TextGroup has it in detail.                                       *)
(***************************************************************************)
EXTENDS RtxThread, FiniteSets

CONSTANTS
  Spacing, \* 100 ticks between two requests
  Base,    \* NODE_UPDATE_BASETIME, 1000 ticks
  Pace,    \* 35 ticks between two texts
  Wrap     \* period of us_ticker_read() in units

ASSUME SidResourceAssumption ==
  /\ Spacing \in Nat /\ Base \in Nat /\ Pace \in Nat \ {0} /\ MaxLag \in Nat
  /\ Pace < Spacing /\ Spacing < Base
  /\ Wrap \in Nat /\ Wrap % Grain = 0 /\ (Base + Pace + 1) * Grain + 3 * MaxLag <= Wrap

Signals == {"breakthrough", "grant", "clear"}  \* 0x10, 0x20, 0x40

VARIABLES
  sidWriteAccessWanted,
  sidDriverBreakthroughNeeded,
  pending,      \* signals set and not fetched
  loop,         \* which of its loops it is in, "spacing" or "base"
  signals,      \* the signals it fetched
  breakthrough, \* the flag it captured
  sinceRequest, \* us_ticker_read() - lastRequest, in its width
  sinceText,    \* us_ticker_read() - lastTextSend, up to Pace
  asked,        \* a driver's action, `age' ago: "asked" for, "captured", or "none"
  off           \* units since deactivate(), 0 while active

flagVars == <<sidWriteAccessWanted, sidDriverBreakthroughNeeded>>
clockVars == <<sinceRequest, sinceText>>
ghostVars == <<gap, asked, age, off>>
vars == <<phase, flagVars, pending, at, loop, signals, breakthrough, delay, lag, clockVars,
          ghostVars>>

(* The longest between two requests, from a driver's action to its         *)
(* request, and from deactivate() to the last text.  A wait that was cut   *)
(* short and is begun again in the middle of a tick ends up to most of a   *)
(* tick late.                                                              *)
RequestTime == (Base + Pace + 1) * Grain + 3 * MaxLag - 2
BreakthroughTime == (Spacing + Pace + 1) * Grain + 3 * MaxLag - 2
OffTime == 2 * Pace * Grain + 3 * MaxLag

Init ==
  /\ phase = 0
  /\ sidWriteAccessWanted = FALSE /\ sidDriverBreakthroughNeeded = FALSE
  /\ pending = {} /\ signals = {} /\ breakthrough = FALSE
  /\ at = "check" /\ loop = "spacing" /\ delay = 0 /\ lag = 0
  /\ sinceRequest = Spacing * Grain /\ sinceText = 0
  /\ gap = Spacing * Grain /\ asked = "none" /\ age = 0 /\ off = 0

-----------------------------------------------------------------------------
(* Setting a signal: a thread whose wait is not over yet is handed it.     *)
SetSignal(s) ==
  IF at = "signal_wait" /\ delay > 0
  THEN signals' = {s} /\ at' = "handle" /\ delay' = 0 /\ UNCHANGED pending
  ELSE pending' = pending \cup {s} /\ UNCHANGED <<signals, at, delay>>

Outside == UNCHANGED <<phase, loop, breakthrough, lag, clockVars, gap>>

(* activate() and deactivate(), in the CAN handler                         *)
Activate ==
  /\ sidWriteAccessWanted' = TRUE /\ off' = 0
  /\ SetSignal("clear")
  /\ Outside /\ UNCHANGED <<sidDriverBreakthroughNeeded, asked, age>>

Deactivate ==
  /\ sidWriteAccessWanted' = FALSE /\ off' = 0
  /\ SetSignal("clear")
  /\ Outside /\ UNCHANGED <<sidDriverBreakthroughNeeded, asked, age>>

AnyGrant == TRUE
GrantIsWanted == sidWriteAccessWanted
GrantReceived ==
  /\ GrantIsWanted
  /\ SetSignal("grant")
  /\ Outside /\ UNCHANGED <<flagVars, asked, age, off>>

(* By a button, or by a request of the IHU while the display is wanted.    *)
RequestDriverBreakthrough ==
  /\ sidDriverBreakthroughNeeded' = TRUE
  /\ SetSignal("breakthrough")
  /\ asked' = "asked" /\ age' = IF asked = "asked" THEN age ELSE 0
  /\ Outside /\ UNCHANGED <<sidWriteAccessWanted, off>>

-----------------------------------------------------------------------------
(* SidResource::run *)

Ready == delay = 0
Step == Ready /\ UNCHANGED <<phase, sidWriteAccessWanted>>

(* signal_wait(0, ticks) fetches what is pending or blocks.                *)
SignalWait(ticks) ==
  /\ IF pending = {}
     THEN at' = "signal_wait" /\ delay' = ticks /\ lag' = 0 /\ UNCHANGED signals
     ELSE at' = "handle" /\ signals' = pending /\ UNCHANGED <<delay, lag>>
  /\ pending' = {}

NoSpacing == 0
SpacingLeft ==
  LET since_ms == sinceRequest \div Grain
  IN IF since_ms < Spacing THEN Spacing - since_ms ELSE 0

(* The head of the spacing loop.                                           *)
CheckSpacing ==
  /\ Step /\ at = "check"
  /\ IF SpacingLeft = 0
     THEN at' = "capture" /\ UNCHANGED <<pending, signals, delay, lag>>
     ELSE SignalWait(SpacingLeft)
  /\ UNCHANGED <<sidDriverBreakthroughNeeded, loop, breakthrough, clockVars, ghostVars>>

(* The wait timed out: either loop goes on to the head of the spacing loop.*)
Timeout ==
  /\ Step /\ at = "signal_wait"
  /\ at' = "check" /\ loop' = "spacing"
  /\ UNCHANGED <<sidDriverBreakthroughNeeded, pending, signals, breakthrough, delay, lag,
                 clockVars, ghostVars>>

(* The critical section.                                                   *)
Capture ==
  /\ Step /\ at = "capture" /\ at' = "request"
  /\ breakthrough' = sidDriverBreakthroughNeeded
  /\ sidDriverBreakthroughNeeded' = FALSE
  /\ asked' = IF breakthrough' /\ asked = "asked" THEN "captured" ELSE asked
  /\ UNCHANGED <<pending, loop, signals, delay, lag, clockVars, gap, age, off>>

FlagCleared == sidDriverBreakthroughNeeded' = FALSE
FlagKept == UNCHANGED sidDriverBreakthroughNeeded
SendDisplayRequest ==
  /\ Step /\ at = "request" /\ at' = "stamp"
  /\ FlagKept
  /\ gap' = 0
  /\ asked' = IF asked = "captured" THEN "none" ELSE asked
  /\ age' = IF asked = "captured" THEN 0 ELSE age
  /\ UNCHANGED <<pending, loop, signals, breakthrough, delay, lag, clockVars, off>>

(* lastRequest, and the first wait of the base loop.                       *)
Stamp ==
  /\ Step /\ at = "stamp"
  /\ sinceRequest' = 0 /\ loop' = "base"
  /\ SignalWait(Base)
  /\ UNCHANGED <<sidDriverBreakthroughNeeded, breakthrough, sinceText, ghostVars>>

(* handleSignals: scroller.clear(), and a text if there is a grant.        *)
PaceLeft ==
  LET since_ms == sinceText \div Grain
  IN IF since_ms < Pace THEN Pace - since_ms ELSE 0

Handle ==
  /\ Step /\ at = "handle"
  /\ IF "grant" \in signals
     THEN /\ at' = "write" /\ delay' = PaceLeft
          /\ lag' = IF delay' > 0 THEN 0 ELSE lag
     ELSE at' = "handled" /\ UNCHANGED <<delay, lag>>
  /\ UNCHANGED <<sidDriverBreakthroughNeeded, pending, loop, signals, breakthrough, clockVars,
                 ghostVars>>

WriteText ==
  /\ Step /\ at = "write" /\ at' = "handled"
  /\ sinceText' = 0
  /\ UNCHANGED <<sidDriverBreakthroughNeeded, pending, loop, signals, breakthrough, delay, lag,
                 sinceRequest, ghostVars>>

BaseAgain == Base
Remaining == Base - sinceRequest \div Grain
GoesOn == loop = "base" /\ "breakthrough" \notin signals /\ sinceRequest \div Grain < Base
Handled ==
  /\ Step /\ at = "handled"
  /\ IF GoesOn
     THEN SignalWait(Remaining) /\ UNCHANGED loop
     ELSE at' = "check" /\ loop' = "spacing" /\ UNCHANGED <<pending, signals, delay, lag>>
  /\ UNCHANGED <<sidDriverBreakthroughNeeded, breakthrough, clockVars, ghostVars>>

(* One unit of time passes.  A ready thread is not held up beyond MaxLag.  *)
(* The time since the last text is counted no further than Pace, and is    *)
(* small again when the ticker has wrapped, which it may at any time.      *)
Pass ==
  /\ Ready => lag < MaxLag
  /\ phase' = NextPhase(phase)
  /\ delay' = Elapse(delay, phase)
  /\ lag' = IF Ready THEN lag + 1 ELSE 0
  /\ sinceRequest' = (sinceRequest + 1) % Wrap
  /\ sinceText' \in IF sinceText < Pace * Grain THEN {sinceText + 1} ELSE {sinceText, 0}
  /\ gap' = CountTo(RequestTime + 1, gap)
  /\ age' = IF asked = "none" THEN 0 ELSE CountTo(BreakthroughTime + 1, age)
  /\ off' = IF sidWriteAccessWanted THEN 0 ELSE CountTo(OffTime + 1, off)
  /\ UNCHANGED <<flagVars, pending, at, loop, signals, breakthrough, asked>>

Handlers == Activate \/ Deactivate \/ GrantReceived \/ RequestDriverBreakthrough
SidThread == \/ CheckSpacing \/ Timeout \/ Capture \/ SendDisplayRequest \/ Stamp
             \/ Handle \/ WriteText \/ Handled
Next == Handlers \/ SidThread \/ Pass
Spec == Init /\ [][Next]_vars
-----------------------------------------------------------------------------
(* "Keep >=100 ms between our 0x357 requests", to the unit: the loop looks *)
(* at the clock again after a wait that came back early or was cut short.  *)
RequestsSpaced == at = "request" => gap >= Spacing * Grain

(* The display is asked for on the 1 s schedule, up to one text that is    *)
(* being written when it is due, however many signals restart the wait.    *)
RequestRepeated == gap <= RequestTime

(* A driver's action is in a request soon after, also when it comes while  *)
(* the flag is being captured, a text is written or a request is going     *)
(* out: never "silently downgraded".                                       *)
BreakthroughServed == asked # "none" => age <= BreakthroughTime

(* Once the changer is off, only grants that came before lead to a text,   *)
(* and that soon: the last in hand and one that was pending behind it.     *)
TextsEndSoon == at = "write" /\ Ready /\ ~sidWriteAccessWanted => off <= OffTime
=============================================================================
