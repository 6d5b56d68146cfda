----------------------------- MODULE NodeStatus -----------------------------
(***************************************************************************)
(* The node-status handshake of CDCStatus.cpp.  The IHU polls with 0x6A1;  *)
(* the CAN handler turns each poll into a signal of one sender thread,     *)
(* which answers with a sequence of four 0x6A2 frames, Interval apart, and *)
(* keeps the last frame of a sequence and the first of the next at least   *)
(* Guard apart.  The names of the specification itself are this thread's,  *)
(* not the status thread's, so that one module can extend both.            *)
(***************************************************************************)
EXTENDS RtxThread, FiniteSets

CONSTANTS
  Interval, \* NODE_STATUS_TX_INTERVAL, 140 ticks
  Guard,    \* 10 ticks
  Frames,   \* NODE_STATUS_TX_MSG_SIZE, 4
  Wrap      \* period of us_ticker_read(), 2^32 microseconds, in units

Kinds == {"powerdown", "active", "poweron"}  \* signals 0x8, 0x1, 0x4

ASSUME NodeStatusAssumption ==
  /\ Interval \in Nat /\ Guard \in Nat /\ Frames \in Nat \ {0} /\ MaxLag \in Nat
  /\ Wrap \in Nat /\ Wrap % Grain = 0 /\ Guard * Grain < Wrap
  /\ Guard <= Interval

VARIABLES
  since,    \* us_ticker_read() - lastFrameSent, in its width
  sentAnything,
  events,   \* signals set and not yet fetched
  batch,    \* signals fetched and not yet answered: sig
  sequence, \* the sequence being sent
  frame,    \* frames[] of it sent so far: i
  watched,  \* the kind of poll whose answer is timed, any of them
  owed      \* such a poll came `age' ago and no answer has begun since

threadVars == <<at, batch, sequence, frame, delay, since, sentAnything>>
nodeVars == <<phase, events, threadVars, lag, gap, watched, owed, age>>

(* The longest a sequence holds the thread.                                *)
SequenceTime == (Guard + (Frames - 1) * Interval) * Grain + Frames * MaxLag
GapCap == Interval * Grain + MaxLag + 1

(* The sequences that may go out between a poll and its answer: what is    *)
(* left of the batch in hand, which holds no later answer of its kind, and *)
(* the kinds that come first in the next batch.  Then comes its own seam,  *)
(* with the thread held up before it and after it.                         *)
Before == [powerdown |-> 3, active |-> 3, poweron |-> 4]
AnswerTime == Before[watched] * SequenceTime + Guard * Grain + 2 * MaxLag

NodeInit ==
  /\ phase = 0 /\ since = 0 /\ sentAnything = FALSE
  /\ events = {} /\ at = "signal_wait" /\ batch = {}
  /\ sequence = "poweron" /\ frame = 0 /\ delay = 0
  /\ lag = 0 /\ gap = GapCap /\ watched \in Kinds /\ owed = FALSE /\ age = 0

-----------------------------------------------------------------------------
(* CDCStatus::onIhuStatusFrame, and the kernel's delivery of the signal: a *)
(* thread blocked in signal_wait(0) is handed the flag and they are        *)
(* cleared, any other keeps it pending.                                    *)
SetNodeSignalLost(k) ==
  IF at = "signal_wait"
  THEN batch' = {k} /\ at' = "next" /\ UNCHANGED events
  ELSE UNCHANGED <<batch, at, events>>
SetNodeSignal(k) ==
  IF at = "signal_wait"
  THEN batch' = {k} /\ at' = "next" /\ UNCHANGED events
  ELSE events' = events \cup {k} /\ UNCHANGED <<batch, at>>

Poll(k) ==
  /\ SetNodeSignal(k)
  /\ owed' = (owed \/ k = watched)
  /\ UNCHANGED <<phase, since, sentAnything, sequence, frame, delay, lag, gap, watched, age>>

NodeReady == at # "signal_wait" /\ delay = 0

(* signal_wait(0) returns every pending flag and clears them, or blocks.   *)
Fetch ==
  /\ NodeReady /\ at = "next" /\ batch = {}
  /\ IF events = {} THEN at' = "signal_wait" /\ UNCHANGED batch
                    ELSE batch' = events /\ UNCHANGED at
  /\ events' = {}
  /\ lag' = IF events = {} THEN 0 ELSE lag
  /\ UNCHANGED <<phase, since, sentAnything, sequence, frame, delay, gap, watched, owed, age>>

First(sig) ==
  IF "powerdown" \in sig THEN "powerdown"
  ELSE IF "active" \in sig THEN "active" ELSE "poweron"

RestDropped(sig) == {}
Rest(sig) == sig \ {First(sig)}

(* The seam guard of sendSequence: whole milliseconds since the last       *)
(* sequence, and the rest of Guard to wait.                                *)
NoSeam == 0
Seam ==
  LET since_ms == since \div Grain
  IN IF sentAnything /\ since_ms < Guard THEN Guard - since_ms ELSE 0

StartSequence ==
  /\ NodeReady /\ at = "next" /\ batch # {}
  /\ sequence' = First(batch)
  /\ batch' = Rest(batch)
  /\ frame' = 0
  /\ delay' = Seam
  /\ at' = "send"
  /\ lag' = IF delay' > 0 THEN 0 ELSE lag
  /\ UNCHANGED <<phase, since, sentAnything, events, gap, watched, owed, age>>

PauseFromStart == IF frame < Frames - 1 THEN (frame + 1) * Interval ELSE 0
PauseAfter == IF frame < Frames - 1 THEN Interval ELSE 0

SendFrame ==
  /\ NodeReady /\ at = "send"
  /\ frame' = frame + 1
  /\ delay' = PauseAfter
  /\ at' = IF frame' = Frames THEN "stamp" ELSE "send"
  /\ gap' = 0
  /\ lag' = IF delay' > 0 THEN 0 ELSE lag
  /\ IF frame = 0 /\ sequence = watched
     THEN owed' = FALSE /\ age' = 0
     ELSE UNCHANGED <<owed, age>>
  /\ UNCHANGED <<phase, since, sentAnything, events, batch, sequence, watched>>

(* lastFrameSent = us_ticker_read()                                        *)
Stamp ==
  /\ NodeReady /\ at = "stamp"
  /\ since' = 0 /\ sentAnything' = TRUE
  /\ at' = "next" /\ frame' = 0
  /\ UNCHANGED <<phase, events, batch, sequence, delay, lag, gap, watched, owed, age>>

(* One unit of time passes.  A ready thread is not held up beyond MaxLag.  *)
NodePass ==
  /\ NodeReady => lag < MaxLag
  /\ phase' = NextPhase(phase)
  /\ delay' = Elapse(delay, phase)
  /\ since' = IF sentAnything THEN (since + 1) % Wrap ELSE 0
  /\ lag' = IF NodeReady THEN lag + 1 ELSE 0
  /\ gap' = CountTo(GapCap, gap)
  /\ age' = IF owed THEN CountTo(AnswerTime + 1, age) ELSE 0
  /\ UNCHANGED <<sentAnything, events, at, batch, sequence, frame, watched, owed>>

SenderThread == Fetch \/ StartSequence \/ SendFrame \/ Stamp
NodeNext == (\E k \in Kinds : Poll(k)) \/ SenderThread \/ NodePass
NodeSpec == NodeInit /\ [][NodeNext]_nodeVars
-----------------------------------------------------------------------------
ReadyToSend == NodeReady /\ at = "send"

(* Two 0x6A2 frames are never less than the guard apart but for the part   *)
(* of a tick Thread::wait may come back early, within a sequence and       *)
(* across the seam of two, whenever the polls come.                        *)
SpacingKept == ReadyToSend => gap > (Guard - 1) * Grain

(* Within a sequence a frame follows the one before by no more than        *)
(* Interval: "no more than 140ms", whatever is polled meanwhile.           *)
ReplyPace == ReadyToSend /\ frame > 0 => gap <= Interval * Grain + MaxLag

(* "The 9-5 IHU requires each poll to be answered": a whole sequence of    *)
(* its kind begins after each poll, also after one that falls in the       *)
(* middle of a sequence or joins flags still pending, within AnswerTime.   *)
EachPollAnswered == owed => age <= AnswerTime
=============================================================================
