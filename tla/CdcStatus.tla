------------------------------ MODULE CdcStatus ------------------------------
(***************************************************************************)
(* The status thread of CDCStatus.cpp and the command handler it works     *)
(* for.  A CDC_CONTROL frame switches the changer on or off in the CAN     *)
(* handler and signals the thread, which sends GENERAL_STATUS_CDC every    *)
(* Base, and after a command as soon as Hold has passed since the last.    *)
(***************************************************************************)
EXTENDS RtxThread

CONSTANTS
  Base,   \* CDC_STATUS_TX_BASETIME, 950 ticks
  Hold    \* 50 ticks

ASSUME CdcStatusAssumption ==
  Hold \in Nat \ {0} /\ Base \in Nat /\ Hold < Base /\ MaxLag \in Nat

VARIABLES
  cdcActive, \* CDCStatus::cdcActive
  signal,    \* signal 0x2 is set and not fetched
  resend,    \* cdcStatusResendNeeded, always equal to ...DueToCdcCommand
  status,    \* the status frame being built, the last one once it is sent
  news       \* "due": a command no report was built for, since `age',
             \* "built", "none"

vars == <<phase, cdcActive, signal, at, resend, status, delay, lag, gap, news, age>>

Period == Base * Grain + 2 * MaxLag
ReportTime == Hold * Grain + 2 * MaxLag

Init ==
  /\ phase = 0 /\ cdcActive = FALSE /\ signal = FALSE
  /\ at = "call" /\ resend = FALSE /\ delay = 0 /\ lag = 0
  /\ status = [event |-> FALSE, active |-> FALSE]
  /\ gap = Hold * Grain /\ news = "none" /\ age = 0

-----------------------------------------------------------------------------
(* A thread blocked in signal_wait(0x2, ...) is handed the signal; one     *)
(* whose timeout has already expired finds it at its next call.            *)
BlockedOnSignal == at = "signal_wait" /\ delay > 0

SetSignalIfWaiting ==
  IF BlockedOnSignal THEN at' = "call" /\ resend' = TRUE /\ delay' = 0 /\ UNCHANGED signal
                     ELSE UNCHANGED <<at, resend, delay, signal>>
SetSignal ==
  IF BlockedOnSignal THEN at' = "call" /\ resend' = TRUE /\ delay' = 0 /\ UNCHANGED signal
                     ELSE signal' = TRUE /\ UNCHANGED <<at, resend, delay>>

(* onCDCControlFrame, 0x80 0x24 and 0x80 0x14.                             *)
Command(active) ==
  /\ cdcActive' = active
  /\ SetSignal
  /\ news' = "due"
  /\ age' = IF news = "due" THEN age ELSE 0
  /\ UNCHANGED <<phase, status, lag, gap>>

Ready == delay = 0

(* The arguments of sendCdcStatus are read ...                             *)
StatusNotReread == [event |-> resend, active |-> status.active]
Status == [event |-> resend, active |-> cdcActive]
Call ==
  /\ Ready /\ at = "call"
  /\ status' = Status
  /\ at' = "send"
  /\ news' = IF news = "due" /\ resend THEN "built" ELSE news
  /\ UNCHANGED <<phase, cdcActive, signal, resend, delay, lag, gap, age>>

(* ... and the frame is sent, followed by Thread::wait(50).                *)
NoHold == 1
HoldTime == Hold
SendStatus ==
  /\ Ready /\ at = "send"
  /\ gap' = 0
  /\ at' = "hold" /\ delay' = HoldTime /\ lag' = 0
  /\ news' = IF news = "built" THEN "none" ELSE news
  /\ age' = IF news = "built" THEN 0 ELSE age
  /\ UNCHANGED <<phase, cdcActive, signal, resend, status>>

(* signal_wait(0x2, Base - Hold)                                           *)
FullBase == Base
RestOfBase == Base - Hold
WaitForSignal ==
  /\ Ready /\ at = "hold"
  /\ IF signal
     THEN at' = "call" /\ UNCHANGED <<delay, lag>>
     ELSE at' = "signal_wait" /\ delay' = RestOfBase /\ lag' = 0
  /\ resend' = signal
  /\ signal' = FALSE
  /\ UNCHANGED <<phase, cdcActive, status, gap, news, age>>

Timeout ==
  /\ Ready /\ at = "signal_wait"
  /\ at' = "call"
  /\ UNCHANGED <<phase, cdcActive, signal, resend, status, delay, lag, gap, news, age>>

(* One unit of time passes.  A ready thread is not held up beyond MaxLag.  *)
Pass ==
  /\ Ready => lag < MaxLag
  /\ phase' = NextPhase(phase)
  /\ delay' = Elapse(delay, phase)
  /\ lag' = IF Ready THEN lag + 1 ELSE 0
  /\ gap' = CountTo(Period + 1, gap)
  /\ age' = IF news = "none" THEN 0 ELSE CountTo(ReportTime + 1, age)
  /\ UNCHANGED <<cdcActive, signal, at, resend, status, news>>

StatusThread == Call \/ SendStatus \/ WaitForSignal \/ Timeout
Next == (\E active \in BOOLEAN : Command(active)) \/ StatusThread \/ Pass
Spec == Init /\ [][Next]_vars
-----------------------------------------------------------------------------
(* The status is repeated at the base time, never later, whatever commands *)
(* come in between and at whatever point of the loop they come.            *)
SentAtBaseTime == gap <= Period

(* Commands in quick succession do not flood the bus: two status frames    *)
(* are never less than Hold apart, but for the part of a tick that a wait  *)
(* may be short.                                                           *)
NeverFlooded == at \in {"call", "send"} => gap > (Hold - 1) * Grain

(* Each command is followed, about Hold later at most, by an event frame   *)
(* with the state it set or a later one ("also resent immediately (~50 ms) *)
(* on command-induced state change"), also when it comes while the thread  *)
(* sends, waits, or has just timed out.                                    *)
CommandReported == news # "none" => age <= ReportTime

(* The last status the IHU was sent differs from the state of the changer  *)
(* only while a report of a later command is due: a status that went stale *)
(* between its reading and its sending does not stand.                     *)
StaleStatusIsCorrected ==
  at \in {"hold", "signal_wait"} /\ status.active # cdcActive => news = "due"
=============================================================================
