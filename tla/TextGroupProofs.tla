--------------------------- MODULE TextGroupProofs ---------------------------
(***************************************************************************)
(* That the pace keeps the writer off the frame buffer, for every interval *)
(* and pace, any number of frames, and threads as late as PaceCoversGroup  *)
(* allows.  Nothing in the code ties the writer's clock to the sender: the *)
(* argument is how old lastTextSend can be at most while the sender is     *)
(* still in the group (Behind), against how old it is at least when the    *)
(* writer's wait is over.                                                  *)
(***************************************************************************)
EXTENDS TextGroup, RtxLemmas

TypeOK ==
  /\ phase \in 0 .. Grain - 1
  /\ granted \in BOOLEAN
  /\ writer \in {"signal_wait", "paced", "snapshot", "format", "send", "stamp"}
  /\ written \in 0 .. Frames /\ text \in 0 .. Texts - 1
  /\ wdelay \in 0 .. Pace /\ wlag \in 0 .. MaxLag
  /\ since \in 0 .. Wrap - 1
  /\ group \in [1 .. Frames -> 0 .. Texts - 1]
  /\ sender \in {"signal_wait", "send"} /\ i \in 0 .. Frames
  /\ sdelay \in 0 .. Interval /\ slag \in 0 .. MaxLag
  /\ out \in Seq(0 .. Texts - 1) /\ gap \in Nat

(* Each thread is late only when it is ready, and waits only where it says *)
(* so; the sender is never signalled while it is sending.                  *)
ThreadInv ==
  /\ wdelay > 0 => writer = "snapshot" /\ wlag = 0
  /\ sdelay > 0 => sender = "send" /\ i \in 1 .. Frames - 1 /\ slag = 0
  /\ sender = "signal_wait" => slag = 0
  /\ ~signal

(* The spacing that the next frame needs is there, and no group on its way.*)
SpacingTime == (Interval - 1) * Grain
Clear == sender = "signal_wait" /\ gap > SpacingTime

(* The longest from one frame to the next, and from the signal to the end. *)
FrameTime == Interval * Grain + MaxLag
GroupTime == (Frames - 1) * FrameTime + MaxLag

(* How old lastTextSend can be.                                            *)
Behind ==
  IF sender = "signal_wait" THEN gap + GroupTime
  ELSE IF sdelay > 0 THEN (i - 1) * FrameTime + MaxLag + Elapsed(Interval, sdelay, phase)
  ELSE IF i = Frames THEN (Frames - 1) * FrameTime + slag
  ELSE i * FrameTime + slag

PaceInv ==
  /\ writer \in {"signal_wait", "paced", "snapshot"} => Clear \/ since <= Behind
  /\ writer = "snapshot" /\ wdelay > 0 => Clear \/ since + Grain > Elapsed(Pace, wdelay, phase)
  /\ writer = "snapshot" /\ wdelay = 0 => Clear
  /\ writer \in {"format", "send"} => Clear

(* The frames that are in the buffer and on the bus.                       *)
BufferInv ==
  /\ writer = "format" => written < Frames
  /\ writer = "format" => \A f \in 1 .. written : group[f] = text
  /\ writer = "send" \/ sender = "send" => \A f \in 1 .. Frames : group[f] = text
  /\ sender = "send" => Len(out) = i /\ \A f \in 1 .. i : out[f] = text

FrameInv ==
  /\ sender = "send" /\ sdelay = 0 /\ i < Frames => gap > SpacingTime
  /\ sdelay > 0 => gap + Grain > Elapsed(Interval, sdelay, phase)

IInv == TypeOK /\ ThreadInv /\ PaceInv /\ BufferInv /\ FrameInv /\ GroupNotTorn
-----------------------------------------------------------------------------
LEMMA FrameTimes ==
  /\ FrameTime \in Nat /\ FrameTime = Interval * Grain + MaxLag
  /\ \A k \in Nat : k * FrameTime \in Nat /\ (k + 1) * FrameTime = k * FrameTime + FrameTime
  /\ \A k, m \in Nat : k <= m => k * FrameTime <= m * FrameTime
<1>1. ASSUME NEW g \in Nat, NEW k \in Nat PROVE k * g \in Nat /\ (k + 1) * g = k * g + g
  BY SMT
<1>2. ASSUME NEW g \in Nat, NEW k \in Nat, NEW m \in Nat, k <= m PROVE k * g <= m * g
  <2>1. PICK j \in Nat : m = k + j
    <3>1. m - k \in Nat /\ m = k + (m - k)
      BY <1>2
    <3>2. QED
      BY <3>1
  <2>2. (k + j) * g = k * g + j * g /\ k * g \in Nat /\ j * g \in Nat
    BY SMT
  <2>3. QED
    BY <2>1, <2>2
<1>3. FrameTime \in Nat
  <2>1. Interval * Grain \in Nat
    BY TicksInUnits, TextGroupAssumption
  <2>2. QED
    BY <2>1, TextGroupAssumption DEF FrameTime
<1>4. QED
  BY <1>1, <1>2, <1>3 DEF FrameTime

LEMMA Sizes ==
  /\ Grain \in Nat /\ Grain > 0 /\ Interval \in Nat /\ Interval > 0 /\ Pace \in Nat
  /\ Frames \in Nat /\ Frames > 0 /\ MaxLag \in Nat /\ Texts \in Nat /\ Texts > 1
  /\ Wrap \in Nat /\ Pace * Grain \in Nat /\ Pace * Grain < Wrap
  /\ SpacingTime \in Nat /\ Interval * Grain = SpacingTime + Grain
  /\ (Frames - 1) * FrameTime \in Nat
  /\ GroupTime \in Nat /\ GroupTime = (Frames - 1) * FrameTime + MaxLag
  /\ GroupTime + SpacingTime + Grain <= Pace * Grain
<1>1. /\ Grain \in Nat /\ Grain > 0 /\ Interval \in Nat /\ Interval > 0 /\ Pace \in Nat
      /\ Frames \in Nat /\ Frames > 0 /\ MaxLag \in Nat /\ Texts \in Nat /\ Texts > 1
      /\ Wrap \in Nat /\ Pace * Grain < Wrap
  BY GrainIsPositive, TextGroupAssumption
<1>2. Pace * Grain \in Nat
  BY <1>1, TicksInUnits
<1>3. SpacingTime \in Nat /\ Interval * Grain = SpacingTime + Grain
  <2>1. PICK k \in Nat : k = Interval - 1 /\ Interval = k + 1
    BY <1>1
  <2>2. QED
    BY <2>1, TicksInUnits DEF SpacingTime
<1>4. (Frames - 1) * FrameTime \in Nat /\ Frames * FrameTime = (Frames - 1) * FrameTime + FrameTime
  <2>1. PICK k \in Nat : k = Frames - 1 /\ Frames = k + 1
    BY <1>1
  <2>2. QED
    BY <2>1, FrameTimes
<1>5. Frames * FrameTime <= Pace * Grain
  BY PaceCoversGroup DEF FrameTime
<1>6. QED
  BY <1>1, <1>2, <1>3, <1>4, <1>5, FrameTimes DEF GroupTime

(* While the sender is in a group, or too soon after it, lastTextSend is   *)
(* not yet as old as the end of the writer's wait would make it.           *)
LEMMA BehindBound ==
  TypeOK /\ ThreadInv =>
    /\ Behind \in Nat
    /\ sender = "send" => Behind <= GroupTime
    /\ ~Clear => Behind + Grain <= Pace * Grain
<1> SUFFICES ASSUME TypeOK, ThreadInv
             PROVE  /\ Behind \in Nat
                    /\ sender = "send" => Behind <= GroupTime
                    /\ ~Clear => Behind + Grain <= Pace * Grain
  OBVIOUS
<1>1. CASE sender = "signal_wait"
  <2>1. Behind = gap + GroupTime /\ gap \in Nat
    BY <1>1 DEF Behind, TypeOK
  <2>2. QED
    BY <1>1, <2>1, Sizes DEF Clear
<1>2. CASE sender = "send"
  <2>1. Behind \in Nat /\ Behind <= GroupTime
    <3>1. CASE sdelay > 0
      <4>1. PICK k \in Nat : i = k + 1 /\ k = i - 1 /\ k + 1 <= Frames - 1
        BY <3>1, Sizes DEF TypeOK, ThreadInv
      <4>2. PICK e \in Nat : e = Elapsed(Interval, sdelay, phase) /\ e < Interval * Grain
        <5>1. sdelay \in Nat /\ sdelay <= Interval /\ phase \in 0 .. Grain - 1
          BY Sizes DEF TypeOK
        <5>2. QED
          BY <3>1, <5>1, ElapsedGrows, Sizes
      <4>3. Behind = k * FrameTime + MaxLag + e
        BY <1>2, <3>1, <4>1, <4>2 DEF Behind
      <4>4. Frames - 1 \in Nat /\ k + 1 \in Nat
        BY <4>1, Sizes
      <4>5. (k + 1) * FrameTime <= (Frames - 1) * FrameTime
        BY <4>1, <4>4, FrameTimes
      <4>6. k * FrameTime \in Nat /\ (k + 1) * FrameTime = k * FrameTime + FrameTime
        BY FrameTimes
      <4>7. QED
        BY <4>2, <4>3, <4>5, <4>6, FrameTimes, Sizes
    <3>2. CASE sdelay = 0 /\ i = Frames
      <4>1. Behind = (Frames - 1) * FrameTime + slag /\ slag \in Nat /\ slag <= MaxLag
        BY <1>2, <3>2, Sizes DEF Behind, TypeOK
      <4>2. QED
        BY <4>1, Sizes
    <3>3. CASE sdelay = 0 /\ i # Frames
      <4>1. Behind = i * FrameTime + slag /\ i \in Nat /\ slag \in 0 .. MaxLag
        BY <1>2, <3>3, Sizes DEF Behind, TypeOK
      <4>2. i <= Frames - 1 /\ Frames - 1 \in Nat
        BY <3>3, Sizes DEF TypeOK
      <4>3. i * FrameTime \in Nat /\ i * FrameTime <= (Frames - 1) * FrameTime
        BY <4>1, <4>2, FrameTimes
      <4>4. QED
        BY <4>1, <4>3, Sizes
    <3>4. QED
      BY <3>1, <3>2, <3>3, Sizes DEF TypeOK
  <2>2. QED
    BY <1>2, <2>1, Sizes
<1>3. QED
  BY <1>1, <1>2 DEF TypeOK
-----------------------------------------------------------------------------
LEMMA InitIInv == Init => IInv
<1> SUFFICES ASSUME Init PROVE IInv
  OBVIOUS
<1>1. TypeOK
  <2>1. phase \in 0 .. Grain - 1 /\ since \in 0 .. Wrap - 1 /\ gap \in Nat
    BY Sizes DEF Init, GapCap
  <2>2. group \in [1 .. Frames -> 0 .. Texts - 1] /\ out \in Seq(0 .. Texts - 1)
    BY Sizes DEF Init
  <2>3. /\ written \in 0 .. Frames /\ text \in 0 .. Texts - 1 /\ wdelay \in 0 .. Pace
        /\ wlag \in 0 .. MaxLag
    BY Sizes DEF Init
  <2>4. i \in 0 .. Frames /\ sdelay \in 0 .. Interval /\ slag \in 0 .. MaxLag
    BY Sizes DEF Init
  <2>5. QED
    BY <2>1, <2>2, <2>3, <2>4 DEF Init, TypeOK
<1>2. ThreadInv /\ FrameInv
  BY DEF Init, ThreadInv, FrameInv
<1>3. PaceInv
  <2>1. Behind \in Nat
    BY <1>1, <1>2, BehindBound
  <2>2. QED
    BY <2>1 DEF Init, PaceInv
<1>4. BufferInv /\ GroupNotTorn
  BY DEF Init, BufferInv, GroupNotTorn
<1>5. QED
  BY <1>1, <1>2, <1>3, <1>4 DEF IInv

LEMMA GrantKeeps == IInv /\ Grant => IInv'
<1> SUFFICES ASSUME IInv, Grant PROVE IInv'
  OBVIOUS
<1>1. /\ UNCHANGED <<phase, written, text, wdelay, since, group, wlag, senderVars, slag, gap>>
      /\ \/ writer = "signal_wait" /\ writer' = "paced" /\ granted' = granted
         \/ writer' = writer /\ granted' = TRUE
  BY DEF Grant
<1>2. UNCHANGED <<Behind, Clear>>
  BY <1>1 DEF Behind, Clear, senderVars
<1>3. TypeOK' /\ ThreadInv' /\ FrameInv'
  BY <1>1 DEF senderVars, IInv, TypeOK, ThreadInv, FrameInv
<1>4. PaceInv'
  BY <1>1, <1>2 DEF IInv, PaceInv, ThreadInv
<1>5. BufferInv' /\ GroupNotTorn'
  BY <1>1 DEF senderVars, IInv, BufferInv, GroupNotTorn
<1>6. QED
  BY <1>3, <1>4, <1>5 DEF IInv

(* The wait is as long as lastTextSend is young.                           *)
LEMMA PaceLeftBounds ==
  ASSUME IInv
  PROVE  /\ PaceLeft \in 0 .. Pace
         /\ PaceLeft = 0 => since >= Pace * Grain
         /\ since + Grain > Elapsed(Pace, PaceLeft, phase) \/ PaceLeft = 0
<1>1. since \in Nat /\ phase \in 0 .. Grain - 1
  BY Sizes DEF IInv, TypeOK
<1> DEFINE q == since \div Grain
<1>2. q \in Nat /\ q * Grain <= since /\ q * Grain \in Nat
  BY <1>1, WholeTicks, TicksInUnits
<1>3. PaceLeft = IF q < Pace THEN Pace - q ELSE 0
  BY DEF PaceLeft
<1> HIDE DEF q
<1>4. q >= Pace => q * Grain >= Pace * Grain
  BY <1>2, TicksOrdered, Sizes
<1>5. q < Pace => Elapsed(Pace, Pace - q, phase) = q * Grain + phase
  <2>1. Pace - (Pace - q) = q
    BY <1>2, Sizes
  <2>2. QED
    BY <2>1 DEF Elapsed
<1>6. q < Pace => since + Grain > q * Grain + phase
  BY <1>1, <1>2, Sizes
<1>7. PaceLeft \in 0 .. Pace
  BY <1>2, <1>3, Sizes
<1>8. PaceLeft = 0 => since >= Pace * Grain
  <2>1. PaceLeft = 0 => q >= Pace
    BY <1>2, <1>3, Sizes
  <2>2. QED
    BY <1>1, <1>2, <1>4, <2>1, Sizes
<1>9. q < Pace => since + Grain > Elapsed(Pace, PaceLeft, phase)
  BY <1>3, <1>5, <1>6
<1>10. q < Pace \/ PaceLeft = 0
  BY <1>3
<1>11. QED
  BY <1>7, <1>8, <1>9, <1>10

LEMMA WaitForPaceKeeps == IInv /\ WaitForPace => IInv'
<1> SUFFICES ASSUME IInv, WaitForPace PROVE IInv'
  OBVIOUS
<1>1. PICK d \in 0 .. Pace : /\ d = PaceLeft
                             /\ d = 0 => since >= Pace * Grain
                             /\ since + Grain > Elapsed(Pace, d, phase) \/ d = 0
  BY PaceLeftBounds
<1>2. /\ writer = "paced" /\ wdelay = 0 /\ writer' = "snapshot" /\ wdelay' = d
      /\ wlag' = IF d > 0 THEN 0 ELSE wlag
      /\ UNCHANGED <<phase, granted, written, text, since, group, senderVars, slag, gap>>
  BY <1>1 DEF WaitForPace, WriterReady
<1>3. UNCHANGED <<Behind, Clear>>
  BY <1>2 DEF Behind, Clear, senderVars
<1>4. TypeOK' /\ ThreadInv' /\ FrameInv'
  <2>1. wdelay' \in 0 .. Pace /\ wlag' \in 0 .. MaxLag
    BY <1>2, Sizes DEF IInv, TypeOK
  <2>2. TypeOK'
    BY <1>2, <2>1 DEF senderVars, IInv, TypeOK
  <2>3. ThreadInv'
    BY <1>2, Sizes DEF senderVars, IInv, ThreadInv
  <2>4. FrameInv'
    BY <1>2 DEF senderVars, IInv, FrameInv
  <2>5. QED
    BY <2>2, <2>3, <2>4
<1>5. PaceInv'
  <2>1. Clear \/ since <= Behind
    BY <1>2 DEF IInv, PaceInv
  <2>2. d = 0 => Clear
    <3>1. ~Clear => Behind \in Nat /\ Behind + Grain <= Pace * Grain
      BY BehindBound DEF IInv
    <3>2. since \in Nat
      BY Sizes DEF IInv, TypeOK
    <3>3. QED
      BY <1>1, <2>1, <3>1, <3>2, Sizes
  <2>3. d > 0 => Clear \/ since + Grain > Elapsed(Pace, d, phase)
    BY <1>1
  <2>4. QED
    BY <1>2, <1>3, <2>1, <2>2, <2>3 DEF PaceInv
<1>6. BufferInv' /\ GroupNotTorn'
  BY <1>2 DEF senderVars, IInv, BufferInv, GroupNotTorn
<1>7. QED
  BY <1>4, <1>5, <1>6 DEF IInv

LEMMA SnapshotKeeps == IInv /\ Snapshot => IInv'
<1> SUFFICES ASSUME IInv, Snapshot PROVE IInv'
  OBVIOUS
<1>1. /\ writer = "snapshot" /\ wdelay = 0 /\ writer' = "format" /\ written' = 0
      /\ text' = (text + 1) % Texts
      /\ UNCHANGED <<phase, granted, wdelay, wlag, since, group, senderVars, slag, gap>>
  BY DEF Snapshot, WriterReady
<1>2. Clear /\ Clear' /\ sender = "signal_wait"
  BY <1>1 DEF senderVars, IInv, PaceInv, Clear
<1>3. text' \in 0 .. Texts - 1
  <2>1. text + 1 \in Nat
    BY Sizes DEF IInv, TypeOK
  <2>2. QED
    BY <1>1, <2>1, ClockWraps, Sizes
<1>4. TypeOK' /\ ThreadInv' /\ FrameInv'
  <2>1. written' \in 0 .. Frames
    BY <1>1, Sizes
  <2>2. TypeOK'
    BY <1>1, <1>3, <2>1 DEF senderVars, IInv, TypeOK
  <2>3. ThreadInv' /\ FrameInv'
    BY <1>1 DEF senderVars, IInv, ThreadInv, FrameInv
  <2>4. QED
    BY <2>2, <2>3
<1>5. PaceInv' /\ BufferInv' /\ GroupNotTorn'
  BY <1>1, <1>2, Sizes DEF senderVars, IInv, PaceInv, BufferInv, GroupNotTorn
<1>6. QED
  BY <1>4, <1>5 DEF IInv

LEMMA FormatKeeps == IInv /\ Format => IInv'
<1> SUFFICES ASSUME IInv, Format PROVE IInv'
  OBVIOUS
<1>1. /\ writer = "format" /\ wdelay = 0
      /\ group' = [group EXCEPT ![written + 1] = text] /\ written' = written + 1
      /\ writer' = IF written' = Frames THEN "send" ELSE "format"
      /\ UNCHANGED <<phase, granted, text, wdelay, wlag, since, senderVars, slag, gap>>
  BY DEF Format, WriterReady
<1>2. Clear /\ Clear' /\ sender = "signal_wait" /\ written < Frames /\ written \in Nat
  BY <1>1 DEF senderVars, IInv, TypeOK, PaceInv, BufferInv, Clear
<1>3. TypeOK' /\ ThreadInv' /\ FrameInv'
  <2>1. written' \in 0 .. Frames /\ written + 1 \in 1 .. Frames
    BY <1>1, <1>2, Sizes
  <2>2. group' \in [1 .. Frames -> 0 .. Texts - 1]
    BY <1>1 DEF IInv, TypeOK
  <2>3. TypeOK'
    BY <1>1, <2>1, <2>2 DEF senderVars, IInv, TypeOK
  <2>4. ThreadInv' /\ FrameInv'
    BY <1>1 DEF senderVars, IInv, ThreadInv, FrameInv
  <2>5. QED
    BY <2>3, <2>4
<1>4. PaceInv' /\ GroupNotTorn'
  BY <1>1, <1>2 DEF senderVars, IInv, PaceInv, GroupNotTorn
<1>5. \A f \in 1 .. written' : group'[f] = text'
  <2> SUFFICES ASSUME NEW f \in 1 .. written + 1 PROVE group'[f] = text
    BY <1>1
  <2>1. f \in 1 .. Frames
    BY <1>2, Sizes
  <2>2. f \in 1 .. written => group[f] = text
    BY <1>1 DEF IInv, BufferInv
  <2>3. f \in 1 .. written \/ f = written + 1
    BY <1>2
  <2>4. QED
    BY <1>1, <2>1, <2>2, <2>3 DEF IInv, TypeOK
<1>6. BufferInv'
  BY <1>1, <1>2, <1>5, Sizes DEF senderVars, BufferInv
<1>7. QED
  BY <1>3, <1>4, <1>6 DEF IInv

LEMMA SendKeeps == IInv /\ Send => IInv'
<1> SUFFICES ASSUME IInv, Send PROVE IInv'
  OBVIOUS
<1>1. Clear /\ sender = "signal_wait" /\ sdelay = 0 /\ writer = "send" /\ wdelay = 0
  BY DEF Send, WriterReady, IInv, TypeOK, ThreadInv, PaceInv, Clear
<1>2. /\ sender' = "send" /\ i' = 0 /\ out' = <<>> /\ signal' = signal /\ writer' = "stamp"
      /\ UNCHANGED <<phase, granted, written, text, wdelay, wlag, since, group, sdelay, slag, gap>>
  BY <1>1 DEF Send
<1>3. TypeOK'
  <2>1. i' \in 0 .. Frames /\ out' \in Seq(0 .. Texts - 1)
    BY <1>2, Sizes
  <2>2. QED
    BY <1>2, <2>1 DEF IInv, TypeOK
<1>4. ThreadInv' /\ PaceInv' /\ FrameInv'
  BY <1>1, <1>2 DEF IInv, ThreadInv, PaceInv, FrameInv, Clear
<1>5. BufferInv' /\ GroupNotTorn'
  BY <1>1, <1>2 DEF IInv, BufferInv, GroupNotTorn
<1>6. QED
  BY <1>3, <1>4, <1>5 DEF IInv

LEMMA StampKeeps == IInv /\ Stamp => IInv'
<1> SUFFICES ASSUME IInv, Stamp PROVE IInv'
  OBVIOUS
<1>1. /\ writer = "stamp" /\ wdelay = 0 /\ since' = 0 /\ writer' \in {"paced", "signal_wait"}
      /\ granted' = FALSE /\ (wlag' = wlag \/ wlag' = 0)
      /\ UNCHANGED <<phase, written, text, wdelay, group, senderVars, slag, gap>>
  BY DEF Stamp, Fetch, WriterReady
<1>2. TypeOK' /\ ThreadInv' /\ FrameInv'
  <2>1. since' \in 0 .. Wrap - 1 /\ wlag' \in 0 .. MaxLag
    <3>1. 0 \in 0 .. Wrap - 1 /\ 0 \in 0 .. MaxLag
      BY Sizes
    <3>2. QED
      BY <1>1, <3>1 DEF IInv, TypeOK
  <2>2. TypeOK'
    BY <1>1, <2>1 DEF senderVars, IInv, TypeOK
  <2>3. ThreadInv' /\ FrameInv'
    BY <1>1 DEF senderVars, IInv, ThreadInv, FrameInv
  <2>4. QED
    BY <2>2, <2>3
<1>3. PaceInv'
  <2>1. Behind' = Behind /\ Behind \in Nat
    BY <1>1, BehindBound DEF senderVars, IInv, Behind
  <2>2. QED
    BY <1>1, <2>1 DEF PaceInv
<1>4. BufferInv' /\ GroupNotTorn'
  BY <1>1 DEF senderVars, IInv, BufferInv, GroupNotTorn
<1>5. QED
  BY <1>2, <1>3, <1>4 DEF IInv

LEMMA SendFrameKeeps == IInv /\ SendFrame => IInv'
<1> SUFFICES ASSUME IInv, SendFrame PROVE IInv'
  OBVIOUS
<1>1. /\ sender = "send" /\ sdelay = 0 /\ i < Frames /\ i \in Nat /\ ~Clear
      /\ slag \in 0 .. MaxLag /\ phase \in 0 .. Grain - 1 /\ phase \in Nat
  BY Sizes DEF SendFrame, SenderReady, Clear, IInv, TypeOK
<1>2. /\ out' = Append(out, group[i + 1]) /\ i' = i + 1 /\ gap' = 0
      /\ UNCHANGED <<phase, granted, writerVars, wlag, signal, sender>>
  BY DEF SendFrame
<1>3. PICK d \in {0, Interval} :
        /\ d = IF i + 1 < Frames THEN Interval ELSE 0
        /\ sdelay' = d /\ slag' = IF d > 0 THEN 0 ELSE slag
  BY Sizes DEF SendFrame, PauseBeforeNext
<1>4. i + 1 \in 1 .. Frames /\ group[i + 1] = text /\ text \in 0 .. Texts - 1
  BY <1>1, Sizes DEF IInv, TypeOK, BufferInv
<1>5. TypeOK'
  <2>1. i' \in 0 .. Frames /\ sdelay' \in 0 .. Interval /\ gap' \in Nat
    BY <1>1, <1>2, <1>3, Sizes
  <2>2. slag' \in 0 .. MaxLag
    BY <1>1, <1>3, Sizes
  <2>3. out' \in Seq(0 .. Texts - 1)
    BY <1>2, <1>4 DEF IInv, TypeOK
  <2>4. QED
    BY <1>2, <2>1, <2>2, <2>3 DEF writerVars, IInv, TypeOK
<1>6. ThreadInv'
  <2>1. d > 0 => i + 1 \in 1 .. Frames - 1
    BY <1>1, <1>3, Sizes
  <2>2. QED
    BY <1>1, <1>2, <1>3, <2>1 DEF writerVars, IInv, ThreadInv
<1>7. FrameInv'
  <2>1. Elapsed(Interval, Interval, phase) = phase
    BY <1>1, ElapsedAtStart, Sizes
  <2>2. d > 0 => 0 + Grain > Elapsed(Interval, d, phase)
    BY <1>1, <1>3, <2>1, Sizes
  <2>3. d = 0 => i + 1 = Frames
    BY <1>1, <1>3, Sizes
  <2>4. QED
    BY <1>2, <1>3, <2>2, <2>3 DEF FrameInv
<1>8. PaceInv'
  <2>1. Behind = i * FrameTime + slag /\ i * FrameTime \in Nat
    BY <1>1, FrameTimes DEF Behind
  <2>2. Behind' >= Behind
    <3>1. (i + 1) - 1 = i
      BY <1>1
    <3>2. CASE d = 0
      <4>1. i + 1 = Frames /\ Frames - 1 = i
        BY <1>1, <1>3, <3>2, Sizes
      <4>2. Behind' = i * FrameTime + slag
        BY <1>1, <1>2, <1>3, <3>2, <4>1 DEF Behind
      <4>3. QED
        BY <1>1, <2>1, <4>2
    <3>3. CASE d = Interval
      <4>1. Elapsed(Interval, Interval, phase) = phase
        BY <1>1, ElapsedAtStart, Sizes
      <4>2. Behind' = i * FrameTime + MaxLag + phase
        BY <1>1, <1>2, <1>3, <3>1, <3>3, <4>1, Sizes DEF Behind
      <4>3. QED
        BY <1>1, <2>1, <4>2, Sizes
    <3>4. QED
      BY <3>2, <3>3
  <2>3. PICK b, c \in Nat : b = Behind /\ c = Behind' /\ b <= c
    <3>1. Behind \in Nat
      BY BehindBound DEF IInv
    <3>2. (Behind \in Nat)'
      BY <1>5, <1>6, BehindBound, PTL
    <3>3. QED
      BY <2>2, <3>1, <3>2
  <2>4. since <= b => since <= c
    BY <2>3, Sizes DEF IInv, TypeOK
  <2>5. UNCHANGED <<writer, wdelay, since, phase>>
    BY <1>2 DEF writerVars
  <2>6. QED
    BY <1>1, <2>3, <2>4, <2>5 DEF IInv, PaceInv
<1>9. BufferInv' /\ GroupNotTorn'
  <2>1. Len(out') = i + 1
    BY <1>1, <1>2 DEF IInv, TypeOK, BufferInv
  <2>2. \A f \in 1 .. i + 1 : out'[f] = text
    <3> SUFFICES ASSUME NEW f \in 1 .. i + 1 PROVE out'[f] = text
      OBVIOUS
    <3>1. Len(out) = i /\ (f \in 1 .. i => out[f] = text)
      BY <1>1 DEF IInv, BufferInv
    <3>2. f \in 1 .. i \/ f = i + 1
      BY <1>1
    <3>3. QED
      BY <1>1, <1>2, <1>4, <3>1, <3>2 DEF IInv, TypeOK
  <2>3. QED
    BY <1>1, <1>2, <2>1, <2>2 DEF writerVars, IInv, BufferInv, GroupNotTorn
<1>10. QED
  BY <1>5, <1>6, <1>7, <1>8, <1>9 DEF IInv

LEMMA GroupSentKeeps == IInv /\ GroupSent => IInv'
<1> SUFFICES ASSUME IInv, GroupSent PROVE IInv'
  OBVIOUS
<1>1. sender = "send" /\ sdelay = 0 /\ i = Frames /\ signal = FALSE /\ ~Clear /\ gap \in Nat
  BY DEF GroupSent, SenderReady, Clear, IInv, TypeOK, ThreadInv
<1>2. /\ sender' = "signal_wait" /\ slag' = 0 /\ signal' = FALSE /\ UNCHANGED <<i, out>>
      /\ UNCHANGED <<phase, granted, writerVars, wlag, sdelay, gap>>
  BY <1>1 DEF GroupSent
<1>3. TypeOK'
  <2>1. slag' \in 0 .. MaxLag
    BY <1>2, Sizes
  <2>2. QED
    BY <1>2, <2>1 DEF writerVars, IInv, TypeOK
<1>4. ThreadInv' /\ FrameInv'
  BY <1>1, <1>2 DEF writerVars, IInv, ThreadInv, FrameInv
<1>5. PaceInv'
  <2>1. PICK b \in Nat : b = Behind /\ b <= GroupTime
    BY <1>1, BehindBound DEF IInv
  <2>2. Behind' = gap + GroupTime
    BY <1>2 DEF Behind, GroupTime, FrameTime
  <2>3. since <= b => since <= gap + GroupTime
    BY <1>1, <2>1, Sizes DEF IInv, TypeOK
  <2>4. UNCHANGED <<writer, wdelay, since, phase>>
    BY <1>2 DEF writerVars
  <2>5. QED
    BY <1>1, <2>1, <2>2, <2>3, <2>4 DEF IInv, PaceInv
<1>6. BufferInv' /\ GroupNotTorn'
  BY <1>1, <1>2 DEF writerVars, IInv, BufferInv, GroupNotTorn
<1>7. QED
  BY <1>3, <1>4, <1>5, <1>6 DEF IInv

(* A unit of time takes the sender through its group as fast at least as   *)
(* it ages lastTextSend.                                                   *)
LEMMA PassKeeps == IInv /\ Pass => IInv'
<1> SUFFICES ASSUME IInv, Pass PROVE IInv'
  OBVIOUS
<1>1. /\ UNCHANGED <<granted, writer, written, text, group, signal, sender, i, out>>
      /\ phase' = NextPhase(phase)
      /\ wdelay' = Elapse(wdelay, phase) /\ sdelay' = Elapse(sdelay, phase)
      /\ since' = (since + 1) % Wrap
      /\ gap' = CountTo(GapCap, gap)
  BY DEF Pass
<1>2. TypeOK /\ ThreadInv /\ PaceInv /\ BufferInv /\ FrameInv /\ GroupNotTorn
  BY DEF IInv
<1>3. /\ phase \in 0 .. Grain - 1 /\ wdelay \in Nat /\ wdelay <= Pace
      /\ sdelay \in Nat /\ sdelay <= Interval /\ since \in Nat /\ gap \in Nat
      /\ i \in Nat /\ i <= Frames /\ slag \in Nat /\ slag <= MaxLag
  BY <1>2, Sizes DEF TypeOK
<1>4. phase' \in 0 .. Grain - 1
  BY <1>1, <1>3, NoWaitStaysOver
<1>5. /\ wdelay' \in Nat /\ wdelay' <= wdelay /\ (wdelay = 0 => wdelay' = 0)
      /\ sdelay' \in Nat /\ sdelay' <= sdelay /\ (sdelay = 0 => sdelay' = 0)
  <2>1. ASSUME NEW d \in Nat
        PROVE  /\ Elapse(d, phase) \in Nat /\ Elapse(d, phase) <= d
               /\ d = 0 => Elapse(d, phase) = 0
    BY <1>3, ElapsedGrows, NoWaitStaysOver
  <2>2. QED
    BY <1>1, <1>3, <2>1
<1>6. wlag' \in 0 .. MaxLag /\ (wdelay' > 0 => wlag' = 0)
  BY <1>1, <1>2, <1>3, <1>5, Sizes DEF Pass, WriterReady, TypeOK, ThreadInv
<1>7. /\ slag' \in 0 .. MaxLag /\ (sdelay' > 0 => slag' = 0)
      /\ sender = "signal_wait" => slag' = 0
      /\ sender = "send" => slag' = IF sdelay = 0 THEN slag + 1 ELSE 0
  <2>1. CASE sender = "send" /\ sdelay = 0
    <3>1. slag < MaxLag /\ slag' = slag + 1 /\ sdelay' = 0
      BY <1>5, <2>1 DEF Pass, SenderReady
    <3>2. QED
      BY <1>3, <2>1, <3>1, Sizes
  <2>2. CASE sender = "signal_wait" \/ sdelay > 0
    <3>1. slag' = 0 /\ (sender = "send" => sdelay # 0)
      BY <2>2 DEF Pass, SenderReady
    <3>2. QED
      BY <2>2, <3>1, Sizes
  <2>3. QED
    BY <1>2, <1>3, <2>1, <2>2 DEF TypeOK
<1>8. gap' \in Nat /\ gap' = (IF gap < Pace * Grain THEN gap + 1 ELSE Pace * Grain)
  BY <1>1, <1>3, Sizes DEF CountTo, GapCap
<1>9. SpacingTime < Pace * Grain
  BY Sizes
<1>17. ASSUME NEW n \in Nat, NEW d \in Nat, d > 0, d <= n
       PROVE  /\ Elapsed(n, d, phase) \in Nat /\ Elapsed(n, d, phase) < n * Grain
              /\ Elapsed(n, Elapse(d, phase), phase') = Elapsed(n, d, phase) + 1
              /\ Elapse(d, phase) = 0 => Elapsed(n, d, phase) + 1 = n * Grain
  BY <1>1, <1>3, <1>17, ElapsedGrows
<1>18. Interval \in Nat /\ Pace \in Nat
  BY Sizes
<1>10. TypeOK'
  <2>1. since' \in 0 .. Wrap - 1
    <3>1. since + 1 \in Nat /\ Wrap > 0
      BY <1>3, Sizes
    <3>2. QED
      BY <1>1, <3>1, ClockWraps, Sizes
  <2>2. wdelay' \in 0 .. Pace /\ sdelay' \in 0 .. Interval
    BY <1>3, <1>5, Sizes
  <2>3. QED
    BY <1>1, <1>2, <1>4, <1>6, <1>7, <1>8, <2>1, <2>2 DEF TypeOK
<1>11. ThreadInv'
  <2>1. wdelay' > 0 => wdelay > 0
    BY <1>3, <1>5
  <2>2. sdelay' > 0 => sdelay > 0
    BY <1>3, <1>5
  <2>3. QED
    BY <1>1, <1>2, <1>6, <1>7, <2>1, <2>2 DEF ThreadInv
<1>12. BufferInv' /\ GroupNotTorn'
  BY <1>1, <1>2 DEF BufferInv, GroupNotTorn
<1>13. Clear => Clear'
  <2>1. PICK g \in Nat : g = gap'
    BY <1>8
  <2>2. gap > SpacingTime => g > SpacingTime
    BY <1>3, <1>8, <1>9, <2>1, Sizes
  <2>3. QED
    BY <1>1, <2>1, <2>2 DEF Clear
<1>14. FrameInv'
  <2>1. CASE sdelay = 0
    <3>1. PICK g \in Nat : g = gap'
      BY <1>8
    <3>2. gap > SpacingTime => g > SpacingTime
      BY <1>3, <1>8, <1>9, <3>1, Sizes
    <3>3. QED
      BY <1>1, <1>2, <1>5, <2>1, <3>1, <3>2 DEF FrameInv
  <2>2. CASE sdelay > 0
    <3> DEFINE old == Elapsed(Interval, sdelay, phase)
               new == Elapsed(Interval, sdelay', phase')
    <3>1. /\ old \in Nat /\ new = old + 1 /\ old < Interval * Grain
          /\ sdelay' = 0 => old + 1 = Interval * Grain
      BY <1>1, <1>3, <1>17, <1>18, <2>2
    <3>2. gap + Grain > old
      BY <1>2, <2>2 DEF FrameInv
    <3> HIDE DEF old, new
    <3>3. PICK g \in Nat : g = gap' /\ (g = gap + 1 \/ g = Pace * Grain)
      BY <1>8
    <3>4. g + Grain > old + 1
      <4>1. CASE g = gap + 1
        BY <1>3, <3>1, <3>2, <4>1, GrainIsPositive
      <4>2. CASE g = Pace * Grain
        <5>1. g > SpacingTime /\ old + 1 <= SpacingTime + Grain
          BY <1>9, <3>1, <4>2, Sizes
        <5>2. QED
          BY <3>1, <5>1, Sizes
      <4>3. QED
        BY <3>3, <4>1, <4>2
    <3>5. sdelay' = 0 => g > SpacingTime
      <4>1. old + 1 = Interval * Grain => g > SpacingTime
        BY <3>1, <3>4, Sizes
      <4>2. QED
        BY <3>1, <4>1
    <3>6. sdelay' > 0 => gap' + Grain > new
      BY <3>1, <3>3, <3>4
    <3>7. QED
      BY <3>3, <3>5, <3>6 DEF FrameInv, new
  <2>3. QED
    BY <1>3, <2>1, <2>2
<1>15. PaceInv'
  <2>1. CASE Clear
    BY <1>1, <1>2, <1>5, <1>13, <2>1 DEF PaceInv
  <2>2. CASE ~Clear
    <3>1. PICK b \in Nat : b = Behind /\ b + Grain <= Pace * Grain
      BY <1>2, <2>2, BehindBound
    <3>2. CASE Clear'
      <4>1. ~(writer \in {"format", "send"}) /\ ~(writer = "snapshot" /\ wdelay = 0)
        BY <1>2, <2>2 DEF PaceInv
      <4>2. QED
        BY <3>2 DEF PaceInv
    <3>3. CASE ~Clear'
      <4>1. PICK c \in Nat : c = Behind' /\ c + Grain <= Pace * Grain
        <5>1. (Behind \in Nat)' /\ (Behind + Grain <= Pace * Grain)'
          BY <1>10, <1>11, <3>3, BehindBound, PTL
        <5>2. QED
          BY <5>1
      <4>2. c >= b + 1
        <5>1. CASE sender = "signal_wait"
          <6>1. gap <= SpacingTime
            BY <1>3, <2>2, <5>1, Sizes DEF Clear
          <6>2. gap' = gap + 1
            BY <1>3, <1>8, <1>9, <6>1, Sizes
          <6>3. Behind = gap + GroupTime /\ Behind' = gap + 1 + GroupTime
            BY <1>1, <5>1, <6>2 DEF Behind, GroupTime, FrameTime
          <6>4. QED
            BY <1>3, <3>1, <4>1, <6>3, Sizes
        <5>2. CASE sender = "send" /\ sdelay = 0
          <6>1. slag' = slag + 1 /\ sdelay' = 0
            BY <1>5, <1>7, <5>2
          <6>2. CASE i = Frames
            <7>1. /\ Behind = (Frames - 1) * FrameTime + slag
                  /\ Behind' = (Frames - 1) * FrameTime + (slag + 1)
              BY <1>1, <5>2, <6>1, <6>2 DEF Behind, FrameTime
            <7>2. QED
              BY <1>3, <3>1, <4>1, <7>1, Sizes
          <6>3. CASE i # Frames
            <7>1. Behind = i * FrameTime + slag /\ Behind' = i * FrameTime + (slag + 1)
              BY <1>1, <5>2, <6>1, <6>3 DEF Behind, FrameTime
            <7>2. i * FrameTime \in Nat
              BY <1>3, FrameTimes
            <7>3. QED
              BY <1>3, <3>1, <4>1, <7>1, <7>2, Sizes
          <6>4. QED
            BY <6>2, <6>3
        <5>3. CASE sender = "send" /\ sdelay > 0
          <6>1. i \in 1 .. Frames - 1
            BY <1>2, <5>3 DEF ThreadInv
          <6>2. PICK k \in Nat : k = i - 1 /\ i = k + 1
            BY <1>3, <6>1
          <6>3. k * FrameTime \in Nat /\ i * FrameTime = k * FrameTime + FrameTime
            BY <6>2, FrameTimes
          <6> DEFINE old == Elapsed(Interval, sdelay, phase)
                     new == Elapsed(Interval, sdelay', phase')
          <6>4. /\ old \in Nat /\ new = old + 1
                /\ sdelay' = 0 => old + 1 = Interval * Grain
            BY <1>1, <1>3, <1>17, <1>18, <5>3
          <6>5. Behind = k * FrameTime + MaxLag + old
            BY <5>3, <6>2 DEF Behind
          <6>6. CASE sdelay' > 0
            <7>1. Behind' = k * FrameTime + MaxLag + new
              BY <1>1, <5>3, <6>2, <6>6 DEF Behind, FrameTime
            <7> HIDE DEF old, new
            <7>2. QED
              BY <3>1, <4>1, <6>3, <6>4, <6>5, <7>1, Sizes
          <6>7. CASE sdelay' = 0
            <7>1. slag' = 0 /\ i # Frames
              BY <1>3, <1>7, <5>3, <6>1, Sizes
            <7>2. Behind' = i * FrameTime + 0
              BY <1>1, <5>3, <6>7, <7>1 DEF Behind, FrameTime
            <7> HIDE DEF old, new
            <7>3. QED
              BY <3>1, <4>1, <6>3, <6>4, <6>5, <6>7, <7>2, FrameTimes, Sizes
          <6>8. QED
            BY <1>5, <6>6, <6>7
        <5>4. QED
          BY <1>2, <1>3, <5>1, <5>2, <5>3 DEF TypeOK
      <4>3. since <= b => since' = since + 1 /\ since + 1 <= c
        <5>1. ASSUME NEW t \in Nat, t < Wrap PROVE t % Wrap = t
          BY <5>1, Sizes
        <5>2. since <= b => since + 1 \in Nat /\ since + 1 < Wrap /\ since + 1 <= c
          BY <1>3, <3>1, <4>1, <4>2, Sizes
        <5>3. QED
          BY <1>1, <5>1, <5>2
      <4>4. writer \in {"signal_wait", "paced", "snapshot"} => since <= b
        BY <1>2, <2>2, <3>1 DEF PaceInv
      <4>5. writer = "snapshot" => wdelay > 0
        BY <1>2, <1>3, <2>2 DEF PaceInv
      <4>6. ASSUME writer = "snapshot"
            PROVE  wdelay' > 0 /\ since' + Grain > Elapsed(Pace, wdelay', phase')
        <5> DEFINE old == Elapsed(Pace, wdelay, phase)
                   new == Elapsed(Pace, wdelay', phase')
        <5>1. since + Grain > old
          BY <1>2, <2>2, <4>5, <4>6 DEF PaceInv
        <5>2. /\ old \in Nat /\ new = old + 1
              /\ wdelay' = 0 => old + 1 = Pace * Grain
          BY <1>1, <1>3, <1>17, <1>18, <4>5, <4>6
        <5> HIDE DEF old, new
        <5>3. since + 1 <= c /\ since' = since + 1
          BY <4>3, <4>4, <4>6
        <5>4. old + 1 # Pace * Grain
          <6>1. since + 1 + Grain <= Pace * Grain
            <7>1. since + 1 <= c /\ c + Grain <= Pace * Grain
              BY <4>1, <5>3
            <7>2. Pace * Grain \in Nat /\ Grain \in Nat
              BY Sizes
            <7>3. QED
              BY <1>3, <7>1, <7>2
          <6>2. QED
            BY <1>3, <5>1, <5>2, <6>1, Sizes
        <5>5. wdelay' > 0
          BY <1>5, <5>2, <5>4
        <5>6. since' + Grain > new
          BY <1>3, <5>1, <5>2, <5>3, Sizes
        <5>7. QED
          BY <5>5, <5>6 DEF new
      <4>7. ~(writer \in {"format", "send"})
        BY <1>2, <2>2 DEF PaceInv
      <4>8. QED
        BY <1>1, <4>1, <4>3, <4>4, <4>6, <4>7 DEF PaceInv
    <3>4. QED
      BY <3>2, <3>3
  <2>3. QED
    BY <2>1, <2>2
<1>16. QED
  BY <1>10, <1>11, <1>12, <1>14, <1>15 DEF IInv

LEMMA IInvStep == IInv /\ [Next]_vars => IInv'
<1> SUFFICES ASSUME IInv, [Next]_vars PROVE IInv'
  OBVIOUS
<1>1. CASE UNCHANGED vars
  <2>1. UNCHANGED <<Behind, Clear>>
    BY <1>1 DEF vars, writerVars, senderVars, Behind, Clear
  <2>2. TypeOK' /\ ThreadInv' /\ FrameInv'
    BY <1>1 DEF vars, writerVars, senderVars, IInv, TypeOK, ThreadInv, FrameInv
  <2>3. PaceInv' /\ BufferInv' /\ GroupNotTorn'
    BY <1>1, <2>1 DEF vars, writerVars, senderVars, IInv, PaceInv, BufferInv, GroupNotTorn
  <2>4. QED
    BY <2>2, <2>3 DEF IInv
<1>2. CASE Grant
  BY <1>2, GrantKeeps
<1>3. CASE SidThread
  BY <1>3, WaitForPaceKeeps, SnapshotKeeps, FormatKeeps, SendKeeps, StampKeeps DEF SidThread
<1>4. CASE TextSender
  BY <1>4, SendFrameKeeps, GroupSentKeeps DEF TextSender
<1>5. CASE Pass
  BY <1>5, PassKeeps
<1>6. QED
  BY <1>1, <1>2, <1>3, <1>4, <1>5 DEF Next

LEMMA Invariance == Spec => []IInv
BY InitIInv, IInvStep, PTL DEF Spec
-----------------------------------------------------------------------------
(* Types hold in every reachable state.                                    *)
THEOREM TypeCorrect == Spec => []TypeOK
<1>1. IInv => TypeOK
  BY DEF IInv
<1>2. QED
  BY <1>1, Invariance, PTL

(* No group that goes out of the unlocked buffer sidMessageGroup mixes two *)
(* texts (SidResource::writeGrantedText against MessageSender::run).       *)
THEOREM BufferIsSafe == Spec => []GroupNotTorn
<1>1. IInv => GroupNotTorn
  BY DEF IInv
<1>2. QED
  BY <1>1, Invariance, PTL

(* Frames of 0x337 are Interval apart, but for the part of a tick that a   *)
(* wait may be short, also from the last of a group to the first of the    *)
(* next.                                                                   *)
THEOREM FramesAreSpaced == Spec => []SpacingKept
<1>1. IInv => SpacingKept
  BY DEF IInv, TypeOK, FrameInv, SpacingKept, SenderReady, SpacingTime
<1>2. QED
  BY <1>1, Invariance, PTL

(* And so textSender is never signalled while it is sending.               *)
THEOREM SenderIsIdleWhenSignalled == Spec => []~signal
<1>1. IInv => ~signal
  BY DEF IInv, ThreadInv
<1>2. QED
  BY <1>1, Invariance, PTL
=============================================================================
