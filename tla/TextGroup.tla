------------------------------ MODULE TextGroup ------------------------------
(***************************************************************************)
(* Writing a text on the SID: SidResource::writeGrantedText fills the one  *)
(* buffer sidMessageGroup and signals textSender, a MessageSender, whose   *)
(* own thread sends the three 0x337 frames straight out of that buffer,    *)
(* Interval apart.  Nothing locks the buffer: the writer stays off it by   *)
(* pacing itself, Pace after it last signalled the sender.                 *)
(***************************************************************************)
EXTENDS RtxTime, Sequences

CONSTANTS
  Interval, \* 10 ticks between the frames of a group
  Pace,     \* 35 ticks
  Frames,   \* 3
  Wrap,     \* period of us_ticker_read() in units
  Texts,    \* bound of the model: texts told apart, cyclically
  MaxLag    \* a ready thread gets the processor within this many units

ASSUME TextGroupAssumption ==
  /\ Interval \in Nat \ {0} /\ Pace \in Nat /\ Frames \in Nat \ {0} /\ MaxLag \in Nat
  /\ Texts \in Nat \ {0, 1}
  /\ Wrap \in Nat /\ Pace * Grain < Wrap

(* What the pace leaves the threads: a frame may be this much late.        *)
ASSUME PaceCoversGroup == Frames * (Interval * Grain + MaxLag) <= Pace * Grain

VARIABLES
  phase,   \* position in the current tick
  granted, \* signal 0x20 of the SID thread is set and not fetched
  writer,  \* where the SID thread stands
  written, \* frames of the buffer it has rewritten
  text,    \* the text it writes
  wdelay,  \* ticks left of its Thread::wait
  wlag,    \* units it has been ready
  since,   \* us_ticker_read() - lastTextSend, in its width
  group,   \* sidMessageGroup: the text each frame is of
  signal,  \* the signal of textSender is set and not fetched
  sender,  \* where the textSender thread stands
  i,       \* frames of the group it has sent
  sdelay,  \* ticks left of its Thread::wait
  slag,    \* units it has been ready
  out,     \* the texts of the frames sent, of the group on its way or the last
  gap      \* units since a 0x337 frame was last sent

writerVars == <<writer, written, text, wdelay, since, group>>
senderVars == <<signal, sender, i, sdelay, out>>
vars == <<phase, granted, writerVars, wlag, senderVars, slag, gap>>

GapCap == Pace * Grain

Init ==
  /\ phase = 0 /\ granted = FALSE
  /\ writer = "signal_wait" /\ written = 0 /\ text = 0 /\ wdelay = 0 /\ wlag = 0
  /\ since = 0 /\ group = [f \in 1 .. Frames |-> 0]
  /\ signal = FALSE /\ sender = "signal_wait" /\ i = 0 /\ sdelay = 0 /\ slag = 0
  /\ out = <<>> /\ gap = GapCap

-----------------------------------------------------------------------------
(* grantReceived, in the CAN handler                                       *)
Grant ==
  /\ IF writer = "signal_wait"
     THEN writer' = "paced" /\ UNCHANGED granted
     ELSE granted' = TRUE /\ UNCHANGED writer
  /\ UNCHANGED <<phase, written, text, wdelay, since, group, wlag, senderVars, slag, gap>>

WriterReady == writer # "signal_wait" /\ wdelay = 0
SenderReady == sender # "signal_wait" /\ sdelay = 0

(* writeGrantedText: the pacing ...                                        *)
NotPaced == 0
PaceAfterFrames == IF since \div Grain < Interval THEN Interval - since \div Grain ELSE 0
PaceLeft ==
  LET since_ms == since \div Grain
  IN IF since_ms < Pace THEN Pace - since_ms ELSE 0

WaitForPace ==
  /\ WriterReady /\ writer = "paced"
  /\ wdelay' = PaceLeft
  /\ wlag' = IF wdelay' > 0 THEN 0 ELSE wlag
  /\ writer' = "snapshot"
  /\ UNCHANGED <<phase, granted, written, text, since, group, senderVars, slag, gap>>

(* ... the text, chosen in a critical section ...                          *)
Snapshot ==
  /\ WriterReady /\ writer = "snapshot"
  /\ text' = (text + 1) % Texts
  /\ written' = 0
  /\ writer' = "format"
  /\ UNCHANGED <<phase, granted, wdelay, wlag, since, group, senderVars, slag, gap>>

(* ... formatTextMessage, one frame of the buffer after the other ...      *)
Format ==
  /\ WriterReady /\ writer = "format"
  /\ group' = [group EXCEPT ![written + 1] = text]
  /\ written' = written + 1
  /\ writer' = IF written' = Frames THEN "send" ELSE "format"
  /\ UNCHANGED <<phase, granted, text, wdelay, wlag, since, senderVars, slag, gap>>

(* ... textSender.send() ...                                               *)
Send ==
  /\ WriterReady /\ writer = "send"
  /\ IF sender = "signal_wait"
     THEN sender' = "send" /\ i' = 0 /\ out' = <<>> /\ UNCHANGED signal
     ELSE signal' = TRUE /\ UNCHANGED <<sender, i, out>>
  /\ writer' = "stamp"
  /\ UNCHANGED <<phase, granted, written, text, wdelay, wlag, since, group, sdelay, slag, gap>>

(* ... and lastTextSend; the next signal is fetched if there is one.       *)
Fetch == IF granted THEN "paced" ELSE "signal_wait"
Stamp ==
  /\ WriterReady /\ writer = "stamp"
  /\ since' = 0
  /\ writer' = Fetch
  /\ granted' = FALSE
  /\ wlag' = IF granted THEN wlag ELSE 0
  /\ UNCHANGED <<phase, written, text, wdelay, group, senderVars, slag, gap>>

(* MessageSender::run                                                      *)
PauseBeforeNext == IF i + 1 < Frames THEN Interval ELSE 0
SendFrame ==
  /\ SenderReady /\ i < Frames
  /\ out' = Append(out, group[i + 1])
  /\ i' = i + 1
  /\ sdelay' = PauseBeforeNext
  /\ slag' = IF sdelay' > 0 THEN 0 ELSE slag
  /\ gap' = 0
  /\ UNCHANGED <<phase, granted, writerVars, wlag, signal, sender>>

GroupSent ==
  /\ SenderReady /\ i = Frames
  /\ IF signal THEN i' = 0 /\ out' = <<>> /\ UNCHANGED <<sender, slag>>
               ELSE sender' = "signal_wait" /\ slag' = 0 /\ UNCHANGED <<i, out>>
  /\ signal' = FALSE
  /\ UNCHANGED <<phase, granted, writerVars, wlag, sdelay, gap>>

(* One unit of time passes.  A ready thread is not held up beyond MaxLag.  *)
Pass ==
  /\ (WriterReady => wlag < MaxLag) /\ (SenderReady => slag < MaxLag)
  /\ phase' = NextPhase(phase)
  /\ wdelay' = Elapse(wdelay, phase) /\ sdelay' = Elapse(sdelay, phase)
  /\ wlag' = IF WriterReady THEN wlag + 1 ELSE 0
  /\ slag' = IF SenderReady THEN slag + 1 ELSE 0
  /\ since' = (since + 1) % Wrap
  /\ gap' = CountTo(GapCap, gap)
  /\ UNCHANGED <<granted, writer, written, text, group, signal, sender, i, out>>

SidThread == WaitForPace \/ Snapshot \/ Format \/ Send \/ Stamp
TextSender == SendFrame \/ GroupSent
Next == Grant \/ SidThread \/ TextSender \/ Pass
Spec == Init /\ [][Next]_vars
-----------------------------------------------------------------------------
(* A group on the bus is one text, and whole: the writer is never in the   *)
(* buffer while the sender is still sending from it.                       *)
GroupNotTorn == \A f, g \in 1 .. Len(out) : out[f] = out[g]

(* Frames of 0x337 leave for the transmit queue Interval apart, within a   *)
(* group and across the seam of two, but for the part of a tick that a     *)
(* wait may be short.                                                      *)
SpacingKept == SenderReady /\ i < Frames => gap > (Interval - 1) * Grain
=============================================================================
