-------------------------- MODULE RN52DriverProofs --------------------------
(***************************************************************************)
(* Theorems of the RN52 driver, whatever the sizes and however often the   *)
(* module is rebooted: no command strays into the data channel, the        *)
(* driver's idea of the connection becomes the module's, and commands are  *)
(* sent once, in the order they were accepted in.  The inductive invariant *)
(* says what is on the line at each place of the thread (LineInv), what    *)
(* the module is ready for (ModeInv), and what the commands and answers on *)
(* their way still tell of the connection (FollowInv).                     *)
(***************************************************************************)
EXTENDS RN52Driver, RtxLemmas

Places == {"stopped", "idle", "clear", "low", "cmd_wait", "session", "gather", "answer",
           "parsed", "track", "get", "leave", "end_wait"}
DriverTypeOK ==
  /\ main \in {"start", "reboot", "booting", "attach", "query", "ready"}
  /\ rtosQueue \in Seq(Commands)
  /\ evt = <<>> \/ \E c \in Commands : evt = <<c>>
  /\ at \in Places /\ cmd \in Commands /\ lines \in Nat
  /\ mail \in Seq(Answers) /\ rx \in Seq(Answers) /\ wire \in Seq(Commands \cup {"low", "high"})
  /\ mode \in {"data", "command", "down"}

(* The flags; pulses are seen from the time the queries are of use.        *)
FlagsOK ==
  /\ a2dpConnected \in BOOLEAN /\ connected \in BOOLEAN /\ pulse \in BOOLEAN
  /\ attached \in BOOLEAN /\ rebooted \in BOOLEAN /\ doubtful \in BOOLEAN
  /\ main \in {"query", "ready"} => attached

(* Where the thread has a command in hand, and where it has none.          *)
HandInv ==
  /\ main = "start" => at = "stopped"
  /\ at \in {"clear", "low", "cmd_wait", "session"} => evt # <<>>
  /\ at \in {"gather", "answer", "parsed", "track", "get"} => evt = <<>>

(* What is on the line, out and in.                                        *)
Only(out, in, received) == wire = out /\ rx = in /\ mail = received
Quiet == Only(<<>>, <<>>, <<>>)
One(lines_) == \E l \in lines_ : Only(<<>>, <<l>>, <<>>) \/ Only(<<>>, <<>>, <<l>>)

(* One command or one line is under way at most, but for a response that   *)
(* is gathered, and it is the one the thread waits for.                    *)
LineInv ==
  /\ at \notin {"cmd_wait", "gather", "answer", "end_wait"} => Quiet
  /\ at = "cmd_wait" =>
       \/ (Only(<<"low">>, <<>>, <<>>) \/ Quiet) /\ mode # "command"
       \/ One({"CMD"}) /\ mode = "command"
  /\ at = "gather" =>
       /\ cmd = "gather"
       /\ \/ Only(<<"gather">>, <<>>, <<>>) /\ lines = 0
          \/ wire = <<>> /\ lines + Len(rx) + Len(mail) <= TextLines
  /\ at = "answer" =>
       /\ cmd # "gather"
       /\ Only(<<cmd>>, <<>>, <<>>) \/ One(Answers) \/ Quiet
  /\ at = "end_wait" =>
       \/ Only(<<"high">>, <<>>, <<>>)
       \/ (One({"END"}) \/ Quiet) /\ mode # "command"

(* The module is in command mode while the thread takes it to be, or it    *)
(* went down since.                                                        *)
ModeInv ==
  /\ at \in {"stopped", "idle", "clear", "low"} => mode # "command"
  /\ at \in {"session", "gather", "answer", "parsed", "track", "get"} => mode = "command" \/ rebooted
  /\ at = "cmd_wait" => ~rebooted
  /\ rebooted => mode # "command"
  /\ ~strayed

(* A sequence of commands tells of the connection when a Q comes after     *)
(* every reboot in it.                                                     *)
Has(s, c) == \E i \in 1 .. Len(s) : s[i] = c
Fresh(s) == \E i \in 1 .. Len(s) : s[i] = "Q" /\ \A j \in 1 .. Len(s) : s[j] = "reboot" => j < i

Asking == at = "answer" /\ cmd = "Q"
Truth == IF connected THEN "on" ELSE "off"
Sure == main = "ready" /\ ~doubtful /\ ~pulse /\ ~Fresh(Unsent)
Underway == Has(Unsent, "reboot") \/ wire = <<"reboot">>

(* With no news to come, the driver knows the connection, learns it from   *)
(* the Q under way, or has a reboot under way that will make it so.        *)
FollowInv ==
  Sure =>
    /\ ~Has(Unsent, "Q")
    /\ IF Asking
       THEN /\ ~Has(Unsent, "reboot")
            /\ \/ Only(<<"Q">>, <<>>, <<>>)
               \/ One({Truth, "garbled"}) /\ ~rebooted
       ELSE /\ rebooted => ~connected
            /\ IF Underway THEN ~a2dpConnected ELSE a2dpConnected = connected

DriverInv == DriverTypeOK /\ FlagsOK /\ HandInv /\ LineInv /\ ModeInv /\ FollowInv
-----------------------------------------------------------------------------
(* Ends, for the sequences the driver has.                                 *)
LEMMA QueueEnds ==
  /\ \A s \in Seq(Commands), x \in Commands : Append(s, x) \in Seq(Commands)
  /\ \A s \in Seq(Commands) : s # <<>> => Head(s) \in Commands /\ Tail(s) \in Seq(Commands)
  BY Ends

LEMMA AnswerEnds ==
  /\ \A s \in Seq(Answers), x \in Answers : Append(s, x) \in Seq(Answers)
  /\ \A s \in Seq(Answers) : s # <<>> => Head(s) \in Answers /\ Tail(s) \in Seq(Answers)
  BY Ends

WireItems == Commands \cup {"low", "high"}
LEMMA WireEnds ==
  /\ \A s \in Seq(WireItems), x \in WireItems : Append(s, x) \in Seq(WireItems)
  /\ \A s \in Seq(WireItems) : s # <<>> => Head(s) \in WireItems /\ Tail(s) \in Seq(WireItems)
  BY Ends

(* Every step keeps the types.                                             *)
LEMMA PostType ==
  ASSUME DriverTypeOK, NEW c \in Commands, Post(c)
  PROVE  rtosQueue' \in Seq(Commands)
  <1>1. CASE Len(rtosQueue) < Limit
    <2>1. rtosQueue' = Append(rtosQueue, c) /\ doubtful' = (doubtful /\ c # "Q")
      BY <1>1 DEF Post
    <2>2. QED
      BY <2>1, QueueEnds DEF DriverTypeOK
  <1>2. CASE ~(Len(rtosQueue) < Limit)
    <2>1. UNCHANGED rtosQueue /\ doubtful' = (doubtful \/ c = "Q")
      BY <1>2 DEF Post
    <2>2. QED
      BY <2>1 DEF DriverTypeOK
  <1>3. QED
    BY <1>1, <1>2

LEMMA RebootType ==
  ASSUME DriverTypeOK, RebootModule
  PROVE  rtosQueue' \in Seq(Commands) /\ UNCHANGED <<driverVars, mail, rx, wire, mode>>
  <1>1. "reboot" \in Commands
    BY DEF Commands
  <1>2. rtosQueue' = Append(rtosQueue, "reboot") \/ UNCHANGED rtosQueue
    BY DEF RebootModule
  <1>3. QED
    BY <1>1, <1>2, QueueEnds DEF DriverTypeOK, RebootModule, moduleVars

LEMMA DriverTypeInit == Init => DriverTypeOK
  BY DEF Init, DriverTypeOK, Commands, Places

LEMMA InitializeType == ASSUME DriverTypeOK, Initialize PROVE DriverTypeOK'
  <1>1. CASE Start
    BY <1>1, PostType DEF DriverTypeOK, Start, moduleVars, Commands, Places
  <1>2. CASE ConfigureReboot
    BY <1>2, RebootType DEF DriverTypeOK, ConfigureReboot, driverVars
  <1>3. CASE QueryVersion
    BY <1>3, PostType DEF DriverTypeOK, QueryVersion, moduleVars, driverVars, Commands, Places
  <1>4. CASE Attach
    BY <1>4 DEF DriverTypeOK, Attach, ghostVars, driverVars
  <1>5. CASE InitialQuery
    BY <1>5, PostType DEF DriverTypeOK, InitialQuery, QueryState, moduleVars, driverVars, Commands
  <1>6. QED
    BY <1>1, <1>2, <1>3, <1>4, <1>5 DEF Initialize

LEMMA HandlersType == ASSUME DriverTypeOK, Handlers PROVE DriverTypeOK'
  <1> USE DEF DriverTypeOK
  <1>1. CASE Press
    BY <1>1, PostType DEF Press, Handler, moduleVars, driverVars, Commands
  <1>2. CASE ConsoleReboot
    BY <1>2, RebootType DEF ConsoleReboot, driverVars
  <1>3. CASE OnGPIO2
    BY <1>3, PostType DEF OnGPIO2, Handler, moduleVars, driverVars, Commands
  <1>4. CASE GetTrackDataLater
    BY <1>4, PostType DEF GetTrackDataLater, Handler, moduleVars, driverVars, Commands
  <1>5. QED
    BY <1>1, <1>2, <1>3, <1>4 DEF Handlers

LEMMA LineType ==
  ASSUME DriverTypeOK, NEW line \in Answers, Line(line)
  PROVE  mail' \in Seq(Answers)
  BY AnswerEnds DEF DriverTypeOK, Line

LEMMA RunType == ASSUME DriverTypeOK, HandInv, Run PROVE DriverTypeOK'
  <1> USE DEF DriverTypeOK, Thread
  <1>1. CASE Get
    <2>1. at' \in Places
      BY <1>1 DEF Get, Places
    <2>2. CASE evt = <<>>
      <3>1. rtosQueue # <<>> /\ evt' = <<Head(rtosQueue)>> /\ rtosQueue' = Tail(rtosQueue)
        BY <1>1, <2>2 DEF Get
      <3>2. Head(rtosQueue) \in Commands /\ rtosQueue' \in Seq(Commands)
        BY <3>1, QueueEnds
      <3>3. QED
        BY <1>1, <2>1, <3>1, <3>2 DEF Get
    <2>3. CASE evt # <<>>
      BY <1>1, <2>1, <2>3 DEF Get
    <2>4. QED
      BY <2>2, <2>3
  <1>2. CASE ClearRXMail
    BY <1>2 DEF ClearRXMail, Places
  <1>3. CASE PinLow
    BY <1>3, Ends DEF PinLow, Places
  <1>4. CASE WaitForCmd
    BY <1>4, LineType DEF WaitForCmd, Keep, NoCmd, Places, Answers
  <1>5. CASE SendCommand
    <2>1. PICK c \in Commands : evt = <<c>>
      BY <1>5 DEF SendCommand, HandInv
    <2>2. cmd' = c /\ evt' = <<>> /\ wire' = Append(wire, c) /\ lines' = 0 /\ at' \in Places
      BY <1>5, <2>1, Singleton DEF SendCommand, Places
    <2>3. wire' \in Seq(WireItems)
      BY <2>2, WireEnds DEF WireItems
    <2>4. QED
      BY <1>5, <2>2, <2>3 DEF SendCommand, WireItems
  <1>6. CASE Gather
    BY <1>6, LineType DEF Gather, Places
  <1>7. CASE Answer
    BY <1>7, LineType DEF Answer, Places
  <1>8. CASE QueryAnswer
    BY <1>8, LineType, PostType DEF QueryAnswer, AskAgain, Places, Answers, Commands
  <1>9. CASE OnA2DPProfileChange
    BY <1>9, PostType DEF OnA2DPProfileChange, SendAVCRP, Places, Commands
  <1>10. CASE TrackChanged
    BY <1>10, PostType DEF TrackChanged, Places, Commands
  <1>11. CASE GetNext
    <2>1. at' \in Places
      BY <1>11 DEF GetNext, Places
    <2>2. CASE rtosQueue # <<>>
      <3>1. evt' = <<Head(rtosQueue)>> /\ rtosQueue' = Tail(rtosQueue)
        BY <1>11, <2>2 DEF GetNext
      <3>2. Head(rtosQueue) \in Commands /\ rtosQueue' \in Seq(Commands)
        BY <2>2, <3>1, QueueEnds
      <3>3. QED
        BY <1>11, <2>1, <3>1, <3>2 DEF GetNext
    <2>3. CASE rtosQueue = <<>>
      BY <1>11, <2>1, <2>3 DEF GetNext
    <2>4. QED
      BY <2>2, <2>3
  <1>12. CASE PinHigh
    BY <1>12, Ends DEF PinHigh, Places
  <1>13. CASE WaitForEnd
    BY <1>13, LineType DEF WaitForEnd, Places
  <1>14. QED
    BY <1>1, <1>2, <1>3, <1>4, <1>5, <1>6, <1>7, <1>8, <1>9, <1>10, <1>11, <1>12, <1>13 DEF Run

LEMMA RespondType ==
  ASSUME DriverTypeOK, NEW c, NEW answer \in Respond(c)
  PROVE  answer \in Seq(Answers) /\ (c # "gather" => Len(answer) = 1) /\ (c = "gather" => Len(answer) <= TextLines)
  <1>1. CASE c = "Q"
    <2>1. answer = <<IF connected THEN "on" ELSE "off">> \/ answer = <<"garbled">>
      BY <1>1 DEF Respond
    <2>2. \E a \in Answers : answer = <<a>>
      BY <2>1 DEF Answers
    <2>3. QED
      BY <1>1, <2>2
  <1>2. CASE c = "gather"
    <2>1. PICK n \in 0 .. TextLines : answer = [i \in 1 .. n |-> "text"]
      BY <1>2 DEF Respond
    <2>2. QED
      BY <1>2, <2>1, RN52DriverAssumption DEF Answers
  <1>3. CASE c \notin {"Q", "gather"}
    <2>1. answer = <<"AOK">> /\ "AOK" \in Answers
      BY <1>3 DEF Respond, Answers
    <2>2. QED
      BY <1>3, <2>1
  <1>4. QED
    BY <1>1, <1>2, <1>3

LEMMA ModuleType == ASSUME DriverTypeOK, OnSerialRX \/ Obey \/ Boot \/ Phone PROVE DriverTypeOK'
  <1> USE DEF DriverTypeOK
  <1>1. CASE OnSerialRX
    <2>1. rx' \in Seq(Answers) /\ mail' \in Seq(Answers)
      BY <1>1, AnswerEnds DEF OnSerialRX
    <2>2. QED
      BY <1>1, <2>1 DEF OnSerialRX, driverVars, ghostVars
  <1>2. CASE Obey
    <2>1. wire' \in Seq(WireItems) /\ Head(wire) \in WireItems
      BY <1>2, WireEnds DEF Obey, WireItems
    <2>2. rx' \in Seq(Answers) /\ mode' \in {"data", "command", "down"}
      <3>1. CASE mode = "down" \/ (Head(wire) \in Commands /\ mode = "data")
        BY <1>2, <3>1 DEF Obey, ghostVars, Commands
      <3>2. CASE mode # "down" /\ Head(wire) \in {"low", "high"}
        BY <1>2, <3>2, AnswerEnds DEF Obey, ghostVars, Commands, Answers
      <3>3. CASE mode = "command" /\ Head(wire) \in Commands
        <4>1. PICK answer \in Respond(Head(wire)) : rx' = rx \o answer
          BY <1>2, <3>3 DEF Obey, Commands
        <4>2. rx' \in Seq(Answers)
          BY <4>1, RespondType, ConcatProperties
        <4>3. QED
          BY <1>2, <3>3, <4>2 DEF Obey, Commands
      <3>4. QED
        BY <2>1, <3>1, <3>2, <3>3 DEF WireItems
    <2>3. QED
      BY <1>2, <2>1, <2>2 DEF Obey, Module, driverVars, WireItems
  <1>3. CASE Boot
    BY <1>3 DEF Boot, Module, driverVars, ghostVars
  <1>4. CASE Phone
    BY <1>4 DEF Phone, Module, driverVars, ghostVars
  <1>5. QED
    BY <1>1, <1>2, <1>3, <1>4
-----------------------------------------------------------------------------
TalkInv == HandInv /\ LineInv /\ ModeInv
talkVars == <<at, evt, cmd, lines, wire, rx, mail, mode, rebooted, strayed>>

(* What is said on the line, step by step.                                 *)
LEMMA TalkInit == Init => TalkInv
  BY DEF Init, TalkInv, HandInv, LineInv, ModeInv, Quiet, Only

LEMMA OthersKeepTalk ==
  ASSUME TalkInv, ConfigureReboot \/ QueryVersion \/ Attach \/ InitialQuery \/ Handlers \/ Phone
  PROVE  TalkInv'
  <1>1. UNCHANGED talkVars /\ (main' = "start" => main = "start")
    BY DEF ConfigureReboot, QueryVersion, Attach, InitialQuery, Handlers, Phone, Press, ConsoleReboot,
           OnGPIO2, GetTrackDataLater, RebootModule, Handler, Module, talkVars, driverVars, moduleVars, ghostVars
  <1>2. QED
    BY <1>1 DEF talkVars, TalkInv, HandInv, LineInv, ModeInv, Quiet, Only, One

(* A line that is taken, and waiting in vain.                              *)
LEMMA LineTaken ==
  ASSUME NEW L, One(L), NEW line, Line(line), UNCHANGED <<wire, rx>>
  PROVE  line \in L /\ Quiet'
  <1>1. PICK l \in L : Only(<<>>, <<>>, <<l>>)
    BY DEF One, Line, Only
  <1>2. QED
    BY <1>1, Singleton DEF Line, Only, Quiet

LEMMA NoLine ==
  ASSUME NEW line, Line(line)
  PROVE  ~Quiet /\ \A x : ~Only(<<x>>, <<>>, <<>>)
  BY DEF Line, Quiet, Only

LEMMA InVain ==
  ASSUME TimedOut
  PROVE  Quiet /\ \A x : ~Only(<<x>>, <<>>, <<>>)
  BY Singleton DEF TimedOut, Quiet, Only

LEMMA NotBoth ==
  ASSUME NEW L, One(L)
  PROVE  ~Quiet /\ \A x : ~Only(<<x>>, <<>>, <<>>)
  BY Singleton DEF One, Quiet, Only

LEMMA StartKeepsTalk == ASSUME TalkInv, Start PROVE TalkInv'
  <1>1. UNCHANGED <<evt, cmd, lines, wire, rx, mail, mode, rebooted, strayed>>
    BY DEF Start, moduleVars
  <1>2. CASE at = "stopped"
    BY <1>1, <1>2 DEF Start, TalkInv, HandInv, LineInv, ModeInv, Quiet, Only
  <1>3. QED
    BY <1>2 DEF Start, TalkInv, HandInv

LEMMA RunKeepsTalk == ASSUME DriverTypeOK, TalkInv, Run PROVE TalkInv'
  <1> USE DEF Thread, TalkInv
  <1>0. at # "stopped" /\ main' # "start"
    BY DEF Run, Get, ClearRXMail, PinLow, WaitForCmd, SendCommand, Gather, Answer, QueryAnswer,
           OnA2DPProfileChange, TrackChanged, GetNext, PinHigh, WaitForEnd, HandInv
  <1>1. CASE Get
    <2>1. at = "idle" /\ at' = "clear" /\ UNCHANGED <<wire, rx, mail, mode, rebooted, strayed>>
      BY <1>1 DEF Get
    <2>2. evt' # <<>>
      BY <1>1, Singleton DEF Get
    <2>3. QED
      BY <1>0, <2>1, <2>2 DEF HandInv, LineInv, ModeInv, Quiet, Only
  <1>2. CASE ClearRXMail
    BY <1>2 DEF ClearRXMail, HandInv, LineInv, ModeInv, Quiet, Only
  <1>3. CASE PinLow
    <2>1. wire' = <<"low">> /\ rx' = <<>> /\ mail' = <<>>
      BY <1>3, Singleton DEF PinLow, LineInv, Quiet, Only
    <2>2. QED
      BY <1>3, <2>1 DEF PinLow, HandInv, LineInv, ModeInv, Quiet, Only
  <1>4. CASE WaitForCmd
    <2> USE DEF WaitForCmd
    <2>1. CASE \E line \in Answers : Line(line) /\ mode = "command" /\ One({"CMD"})
      <3>1. PICK line \in Answers : Line(line) /\ One({"CMD"})
        BY <2>1
      <3>2. line = "CMD" /\ Quiet'
        BY <1>4, <3>1, LineTaken
      <3>3. at' = "session" /\ UNCHANGED evt /\ mode' = "command"
        BY <1>4, <2>1, <3>1, <3>2, InVain, NotBoth DEF Line
      <3>4. QED
        BY <1>4, <3>2, <3>3 DEF HandInv, LineInv, ModeInv
    <2>2. CASE TimedOut
      <3>1. Quiet /\ mode # "command"
        BY <1>4, <2>2, InVain, NotBoth DEF LineInv
      <3>2. at' = "leave" /\ mail' = mail
        BY <1>4, <2>2 DEF NoCmd, Line, TimedOut
      <3>3. QED
        BY <1>4, <3>1, <3>2 DEF HandInv, LineInv, ModeInv, Quiet, Only
    <2>3. QED
      BY <1>4, <2>1, <2>2, NoLine DEF LineInv, Answers
  <1>5. CASE SendCommand
    <2>1. PICK c : evt = <<c>>
      BY <1>5 DEF SendCommand, HandInv, DriverTypeOK
    <2>2. cmd' = c /\ evt' = <<>> /\ lines' = 0 /\ wire' = <<c>> /\ rx' = <<>> /\ mail' = <<>>
      BY <1>5, <2>1, Singleton DEF SendCommand, LineInv, Quiet, Only
    <2>3. at' = (IF c = "gather" THEN "gather" ELSE "answer") /\ at = "session"
      BY <1>5, <2>2 DEF SendCommand
    <2>4. UNCHANGED <<mode, rebooted, strayed>>
      BY <1>5 DEF SendCommand
    <2>5. QED
      BY <1>0, <2>2, <2>3, <2>4 DEF HandInv, LineInv, ModeInv, Only
  <1>6. CASE Gather
    <2>1. UNCHANGED <<evt, cmd, wire, rx, mode, rebooted, strayed>> /\ at = "gather" /\ cmd = "gather"
      BY <1>6 DEF Gather, LineInv
    <2>2. CASE \E line \in Answers : Line(line) /\ lines' = lines + 1 /\ UNCHANGED at
      <3>1. wire = <<>> /\ lines + Len(rx) + Len(mail) <= TextLines /\ mail # <<>> /\ mail' = Tail(mail)
        BY <2>1, <2>2, NoLine DEF LineInv, Line
      <3>2. Len(mail') = Len(mail) - 1 /\ Len(mail) \in Nat /\ Len(rx) \in Nat /\ lines \in Nat
        BY <3>1, Ends DEF DriverTypeOK
      <3>3. lines' + Len(rx') + Len(mail') <= TextLines
        BY <2>1, <2>2, <3>1, <3>2, RN52DriverAssumption
      <3>4. QED
        BY <1>0, <2>1, <2>2, <3>1, <3>3 DEF HandInv, LineInv, ModeInv
    <2>3. CASE (lines = Lines \/ TimedOut) /\ at' = "get" /\ UNCHANGED <<lines, mail>>
      <3>1. Quiet
        <4>1. CASE TimedOut
          BY <4>1, InVain
        <4>2. CASE lines = Lines
          <5>1. CASE Only(<<"gather">>, <<>>, <<>>) /\ lines = 0
            BY <4>2, <5>1, RN52DriverAssumption
          <5>2. CASE wire = <<>> /\ lines + Len(rx) + Len(mail) <= TextLines
            <6>1. Len(rx) \in Nat /\ Len(mail) \in Nat
              BY LenProperties DEF DriverTypeOK
            <6>2. Len(rx) = 0 /\ Len(mail) = 0
              BY <4>2, <5>2, <6>1, RN52DriverAssumption
            <6>3. QED
              BY <5>2, <6>2, EmptySeq DEF Quiet, Only, DriverTypeOK
          <5>3. QED
            BY <2>1, <5>1, <5>2 DEF LineInv
        <4>3. QED
          BY <2>3, <4>1, <4>2
      <3>2. QED
        BY <1>0, <2>1, <2>3, <3>1 DEF HandInv, LineInv, ModeInv, Quiet, Only
    <2>4. QED
      BY <1>6, <2>2, <2>3 DEF Gather
  <1>7. CASE Answer \/ WaitForEnd
    <2>1. UNCHANGED <<evt, wire, rx, mode, rebooted, strayed>> /\ at \in {"answer", "end_wait"}
      BY <1>7 DEF Answer, WaitForEnd
    <2>2. Quiet'
      <3>1. CASE TimedOut /\ UNCHANGED mail
        BY <2>1, <3>1, InVain DEF Quiet, Only
      <3>2. CASE \E line \in Answers : Line(line)
        BY <2>1, <3>2, LineTaken, NoLine DEF LineInv
      <3>3. QED
        BY <1>7, <3>1, <3>2 DEF Answer, WaitForEnd
    <2>3. CASE Answer
      BY <2>1, <2>2, <2>3 DEF Answer, HandInv, LineInv, ModeInv
    <2>4. CASE WaitForEnd
      <3>1. mode # "command"
        BY <2>4, NoLine, InVain DEF WaitForEnd, LineInv
      <3>2. QED
        BY <2>1, <2>2, <2>4, <3>1 DEF WaitForEnd, HandInv, LineInv, ModeInv
    <2>5. QED
      BY <1>7, <2>3, <2>4
  <1>8. CASE QueryAnswer
    <2>1. UNCHANGED <<evt, wire, rx, mode, rebooted, strayed>> /\ at = "answer" /\ at' \in {"parsed", "get"}
      BY <1>8 DEF QueryAnswer
    <2>2. Quiet'
      <3>1. CASE TimedOut /\ UNCHANGED mail
        BY <2>1, <3>1, InVain DEF Quiet, Only
      <3>2. CASE \E line \in Answers : Line(line)
        BY <2>1, <3>2, LineTaken, NoLine DEF LineInv
      <3>3. QED
        BY <1>8, <3>1, <3>2 DEF QueryAnswer, Answers
    <2>3. QED
      BY <1>0, <2>1, <2>2 DEF HandInv, LineInv, ModeInv
  <1>9. CASE OnA2DPProfileChange \/ TrackChanged
    <2>1. UNCHANGED <<evt, wire, rx, mail, mode, rebooted, strayed>>
          /\ at \in {"parsed", "track"} /\ at' \in {"track", "get"}
      BY <1>9 DEF OnA2DPProfileChange, TrackChanged
    <2>2. QED
      BY <1>0, <2>1 DEF HandInv, LineInv, ModeInv, Quiet, Only
  <1>10. CASE GetNext
    <2>1. at = "get" /\ at' \in {"session", "leave"} /\ UNCHANGED <<wire, rx, mail, mode, rebooted, strayed>>
      BY <1>10 DEF GetNext
    <2>2. at' = "session" => evt' # <<>>
      BY <1>10, Singleton DEF GetNext
    <2>3. QED
      BY <1>0, <2>1, <2>2 DEF HandInv, LineInv, ModeInv, Quiet, Only
  <1>11. CASE PinHigh
    <2>1. wire' = <<"high">> /\ rx' = <<>> /\ mail' = <<>>
      BY <1>11, Singleton DEF PinHigh, LineInv, Quiet, Only
    <2>2. QED
      BY <1>11, <2>1 DEF PinHigh, HandInv, LineInv, ModeInv, Only
  <1>12. QED
    BY <1>1, <1>2, <1>3, <1>4, <1>5, <1>6, <1>7, <1>8, <1>9, <1>10, <1>11 DEF Run

(* A line is received: there is a box for it when none has come before.    *)
LEMMA Received ==
  ASSUME NEW L, One(L), OnSerialRX
  PROVE  One(L)'
  <1>1. PICK l \in L : Only(<<>>, <<l>>, <<>>)
    BY DEF One, OnSerialRX, Only
  <1>2. Len(<<>>) = 0 /\ RxBoxes - 1 > 0
    BY RN52DriverAssumption
  <1>3. BoxFree
    BY <1>1, <1>2 DEF Only, BoxFree
  <1>4. rx' = <<>> /\ mail' = <<l>> /\ wire' = <<>>
    BY <1>1, <1>3, Singleton DEF OnSerialRX, Only
  <1>5. QED
    BY <1>4 DEF One, Only

LEMMA NothingSent ==
  ASSUME NEW L, Quiet \/ One(L)
  PROVE  wire = <<>>
  BY DEF Quiet, One, Only

LEMMA SerialKeepsTalk == ASSUME DriverTypeOK, TalkInv, OnSerialRX PROVE TalkInv'
  <1>1. UNCHANGED <<main, at, evt, cmd, lines, wire, mode, rebooted, strayed>>
    BY DEF OnSerialRX, driverVars, ghostVars
  <1>2. HandInv' /\ ModeInv'
    BY <1>1 DEF TalkInv, HandInv, ModeInv
  <1>3. rx # <<>>
    BY DEF OnSerialRX
  <1>4. CASE at = "gather"
    <2>1. cmd = "gather" /\ wire = <<>> /\ lines + Len(rx) + Len(mail) <= TextLines
      BY <1>3, <1>4 DEF TalkInv, LineInv, Only
    <2>2. Len(rx') = Len(rx) - 1 /\ Len(rx) \in Nat /\ rx' = Tail(rx) /\ Head(rx) \in Answers
      BY <1>3, Ends DEF DriverTypeOK, OnSerialRX
    <2>3. Len(mail) \in Nat /\ Len(mail') \in Nat /\ Len(mail') <= Len(mail) + 1
      BY <2>2, AppendProperties, LenProperties DEF OnSerialRX, DriverTypeOK
    <2>4. lines + Len(rx') + Len(mail') <= TextLines
      BY <2>1, <2>2, <2>3, RN52DriverAssumption DEF DriverTypeOK
    <2>5. QED
      BY <1>1, <1>2, <1>4, <2>1, <2>4 DEF TalkInv, LineInv
  <1>5. CASE at = "cmd_wait"
    <2>1. One({"CMD"}) /\ mode = "command"
      BY <1>3, <1>5 DEF TalkInv, LineInv, Quiet, Only
    <2>2. QED
      BY <1>1, <1>2, <1>5, <2>1, Received DEF TalkInv, LineInv
  <1>6. CASE at = "answer"
    <2>1. One(Answers) /\ cmd # "gather"
      BY <1>3, <1>6 DEF TalkInv, LineInv, Quiet, Only
    <2>2. QED
      BY <1>1, <1>2, <1>6, <2>1, Received DEF TalkInv, LineInv
  <1>7. CASE at = "end_wait"
    <2>1. One({"END"}) /\ mode # "command"
      BY <1>3, <1>7 DEF TalkInv, LineInv, Quiet, Only
    <2>2. QED
      BY <1>1, <1>2, <1>7, <2>1, Received DEF TalkInv, LineInv
  <1>8. CASE at \notin {"cmd_wait", "gather", "answer", "end_wait"}
    BY <1>3, <1>8 DEF TalkInv, LineInv, Quiet, Only
  <1>9. QED
    BY <1>4, <1>5, <1>6, <1>7, <1>8

(* The module takes what is on the wire: while it is down or in data mode  *)
(* it drops a command, in command mode it answers, and it obeys the pin.   *)
LEMMA Obeyed ==
  ASSUME NEW x, Only(<<x>>, <<>>, <<>>), Obey
  PROVE  /\ Head(wire) = x /\ wire' = <<>> /\ mail' = <<>> /\ rx = <<>>
         /\ UNCHANGED <<main, at, evt, cmd, lines>>
  BY Singleton DEF Only, Obey, Module, driverVars

LEMMA Dropped ==
  ASSUME NEW x, Only(<<x>>, <<>>, <<>>), Obey,
         mode = "down" \/ (x \in Commands /\ mode = "data")
  PROVE  Quiet' /\ UNCHANGED <<mode, connected, rebooted>>
  BY Obeyed DEF Obey, Quiet, Only, Commands

LEMMA PinObeyed ==
  ASSUME NEW x \in {"low", "high"}, Only(<<x>>, <<>>, <<>>), Obey, mode # "down"
  PROVE  /\ x = "low" => /\ rx' = (IF mode = "data" THEN Append(rx, "CMD") ELSE rx)
                         /\ mode' = "command"
         /\ x = "high" => /\ rx' = (IF mode = "command" THEN Append(rx, "END") ELSE rx)
                          /\ mode' = "data"
         /\ UNCHANGED <<connected, rebooted, strayed, doubtful>>
  <1>1. Head(wire) = x
    BY Obeyed
  <1>2. Head(wire) \notin Commands
    BY <1>1 DEF Commands
  <1>3. CASE x = "low"
    BY <1>1, <1>2, <1>3 DEF Obey, ghostVars
  <1>4. CASE x = "high"
    BY <1>1, <1>2, <1>4 DEF Obey, ghostVars
  <1>5. QED
    BY <1>3, <1>4

LEMMA Answered ==
  ASSUME DriverTypeOK, NEW x \in Commands, Only(<<x>>, <<>>, <<>>), Obey, mode = "command"
  PROVE  /\ wire' = <<>> /\ mail' = <<>> /\ rx' \in Respond(x) /\ UNCHANGED <<strayed, doubtful>>
         /\ IF x = "reboot" THEN mode' = "down" /\ connected' = FALSE /\ rebooted' = TRUE
                            ELSE UNCHANGED <<mode, connected, rebooted>>
  <1>1. Head(wire) = x /\ wire' = <<>> /\ mail' = <<>> /\ rx = <<>>
    BY Obeyed
  <1>2. PICK answer \in Respond(x) : rx' = rx \o answer
    BY <1>1 DEF Obey, Commands
  <1>3. rx' = answer
    BY <1>1, <1>2, RespondType, ConcatEmptySeq
  <1>4. QED
    BY <1>1, <1>2, <1>3 DEF Obey, Commands

LEMMA ObeyKeepsTalk == ASSUME DriverTypeOK, TalkInv, Obey PROVE TalkInv'
  <1> USE DEF TalkInv
  <1>1. wire # <<>> /\ UNCHANGED <<main, at, evt, cmd, lines, mail>>
    BY DEF Obey, Module, driverVars
  <1>2. HandInv'
    BY <1>1 DEF HandInv
  <1>3. CASE at = "cmd_wait"
    <2>1. Only(<<"low">>, <<>>, <<>>) /\ mode # "command" /\ ~rebooted
      BY <1>1, <1>3, NothingSent DEF LineInv, ModeInv, Quiet
    <2>2. CASE mode = "down"
      <3>1. Quiet' /\ UNCHANGED <<mode, rebooted>>
        BY <2>1, <2>2, Dropped
      <3>2. strayed' = strayed
        BY <2>2 DEF Obey
      <3>3. QED
        BY <1>1, <1>2, <1>3, <2>1, <3>1, <3>2 DEF LineInv, ModeInv
    <2>3. CASE mode = "data"
      <3>1. rx' = <<"CMD">> /\ wire' = <<>> /\ mail' = <<>>
        BY <2>1, <2>3, Obeyed, PinObeyed, Singleton DEF Only
      <3>2. mode' = "command" /\ UNCHANGED <<rebooted, strayed>>
        BY <2>1, <2>3, PinObeyed
      <3>3. One({"CMD"})'
        BY <3>1 DEF One, Only
      <3>4. QED
        BY <1>1, <1>2, <1>3, <2>1, <3>2, <3>3 DEF LineInv, ModeInv
    <2>4. QED
      BY <2>1, <2>2, <2>3 DEF DriverTypeOK
  <1>4. CASE at \in {"gather", "answer"}
    <2>1. cmd \in Commands /\ Only(<<cmd>>, <<>>, <<>>) /\ (at = "gather" <=> cmd = "gather")
          /\ (at = "gather" => lines = 0)
      BY <1>1, <1>4, NothingSent DEF LineInv, Quiet, DriverTypeOK
    <2>2. CASE mode # "command"
      <3>1. mode = "down" \/ mode = "data"
        BY <2>2 DEF DriverTypeOK
      <3>2. Quiet' /\ UNCHANGED <<mode, rebooted>>
        BY <2>1, <3>1, Dropped
      <3>3. rebooted
        BY <1>4, <2>2 DEF ModeInv
      <3>4. ~strayed'
        <4>1. CASE mode = "down"
          BY <4>1 DEF Obey, ModeInv
        <4>2. CASE mode = "data"
          <5>1. Head(wire) \in Commands
            BY <2>1, Obeyed
          <5>2. strayed' = (strayed \/ ~rebooted)
            BY <4>2, <5>1 DEF Obey, Commands
          <5>3. QED
            BY <3>3, <5>2 DEF ModeInv
        <4>3. QED
          BY <3>1, <4>1, <4>2
      <3>5. ModeInv'
        BY <1>1, <1>4, <2>2, <3>2, <3>3, <3>4 DEF ModeInv
      <3>6. (lines' = 0 /\ Len(rx') = 0 /\ Len(mail') = 0) \/ at' = "answer"
        BY <1>1, <1>4, <2>1, <3>2 DEF Quiet, Only
      <3>7. LineInv'
        BY <1>1, <1>4, <2>1, <3>2, <3>6, RN52DriverAssumption DEF LineInv, Quiet, Only
      <3>8. QED
        BY <1>2, <3>5, <3>7
    <2>3. CASE mode = "command"
      <3>1. wire' = <<>> /\ mail' = <<>> /\ rx' \in Respond(cmd) /\ strayed' = strayed
        BY <2>1, <2>3, Answered
      <3>2. IF cmd = "reboot" THEN mode' = "down" /\ rebooted' = TRUE
                              ELSE UNCHANGED <<mode, rebooted>>
        BY <2>1, <2>3, Answered
      <3>3. ModeInv'
        BY <1>1, <1>4, <2>3, <3>1, <3>2 DEF ModeInv
      <3>4. CASE at = "gather"
        <4>1. Len(rx') <= TextLines /\ Len(rx') \in Nat
          BY <2>1, <3>1, <3>4, RespondType, LenProperties
        <4>2. lines' = 0 /\ Len(mail') = 0
          BY <1>1, <2>1, <3>1, <3>4
        <4>3. lines' + Len(rx') + Len(mail') <= TextLines
          BY <4>1, <4>2, RN52DriverAssumption
        <4>4. QED
          BY <1>1, <1>2, <2>1, <3>1, <3>3, <3>4, <4>3 DEF LineInv
      <3>5. CASE at = "answer"
        <4>1. rx' \in Seq(Answers) /\ Len(rx') = 1
          BY <2>1, <3>1, <3>5, RespondType
        <4>2. PICK l \in Answers : rx' = <<l>>
          BY <4>1
        <4>3. One(Answers)'
          BY <3>1, <4>2 DEF One, Only
        <4>4. QED
          BY <1>1, <1>2, <2>1, <3>3, <3>5, <4>3 DEF LineInv
      <3>6. QED
        BY <1>4, <3>4, <3>5
    <2>4. QED
      BY <2>2, <2>3
  <1>5. CASE at = "end_wait"
    <2>1. Only(<<"high">>, <<>>, <<>>)
      BY <1>1, <1>5, NothingSent DEF LineInv, Quiet
    <2>2. CASE mode = "down"
      <3>1. Quiet' /\ UNCHANGED <<mode, rebooted>>
        BY <2>1, <2>2, Dropped
      <3>2. strayed' = strayed
        BY <2>2 DEF Obey
      <3>3. QED
        BY <1>1, <1>2, <1>5, <2>2, <3>1, <3>2 DEF LineInv, ModeInv
    <2>3. CASE mode # "down"
      <3>1. rx' = (IF mode = "command" THEN <<"END">> ELSE <<>>) /\ wire' = <<>> /\ mail' = <<>>
        BY <2>1, <2>3, Obeyed, PinObeyed, Singleton DEF Only, DriverTypeOK
      <3>2. mode' = "data" /\ UNCHANGED <<rebooted, strayed>>
        BY <2>1, <2>3, PinObeyed
      <3>3. One({"END"})' \/ Quiet'
        BY <3>1 DEF One, Quiet, Only
      <3>4. QED
        BY <1>1, <1>2, <1>5, <2>1, <3>2, <3>3 DEF LineInv, ModeInv
    <2>4. QED
      BY <2>2, <2>3
  <1>6. CASE at \notin {"cmd_wait", "gather", "answer", "end_wait"}
    BY <1>1, <1>6 DEF LineInv, Quiet, Only
  <1>7. QED
    BY <1>3, <1>4, <1>5, <1>6

LEMMA BootKeepsTalk == ASSUME TalkInv, Boot PROVE TalkInv'
  <1>1. UNCHANGED <<main, at, evt, cmd, lines, wire, rx, mail, rebooted, strayed>>
        /\ mode = "down" /\ mode' = "data"
    BY DEF Boot, Module, driverVars, ghostVars
  <1>2. QED
    BY <1>1 DEF TalkInv, HandInv, LineInv, ModeInv, Quiet, Only, One
-----------------------------------------------------------------------------
(* What the commands not sent yet still tell, as commands come and go.     *)
LEMMA HasAppended ==
  ASSUME NEW s \in Seq(Commands), NEW c \in Commands
  PROVE  /\ \A d : Has(Append(s, c), d) <=> Has(s, d) \/ c = d
         /\ c = "Q" => Fresh(Append(s, c))
         /\ c \notin {"Q", "reboot"} => (Fresh(Append(s, c)) <=> Fresh(s))
  <1> DEFINE t == Append(s, c)
  <1>1. /\ Len(s) \in Nat /\ Len(t) = Len(s) + 1
        /\ \A i \in 1 .. Len(s) : t[i] = s[i]
        /\ t[Len(s) + 1] = c
    BY AppendProperties, LenProperties
  <1> HIDE DEF t
  <1>2. \A i \in 1 .. Len(t) : i \in 1 .. Len(s) \/ i = Len(s) + 1
    BY <1>1
  <1>3. \A i \in 1 .. Len(s) : i \in 1 .. Len(t)
    BY <1>1
  <1>4. Len(s) + 1 \in 1 .. Len(t)
    BY <1>1
  <1>5. \A d : Has(t, d) <=> Has(s, d) \/ c = d
    BY <1>1, <1>2, <1>3, <1>4 DEF Has
  <1>6. c = "Q" => Fresh(t)
    BY <1>1, <1>2, <1>4 DEF Fresh
  <1>7. c \notin {"Q", "reboot"} => (Fresh(t) <=> Fresh(s))
    BY <1>1, <1>2, <1>3, <1>4 DEF Fresh
  <1>8. QED
    BY <1>5, <1>6, <1>7 DEF t

LEMMA HasTaken ==
  ASSUME NEW s \in Seq(Commands), s # <<>>
  PROVE  /\ \A d : Has(s, d) <=> Head(s) = d \/ Has(Tail(s), d)
         /\ Head(s) # "Q" => (Fresh(Tail(s)) <=> Fresh(s))
         /\ Head(s) = "Q" /\ Fresh(s) =>
              Fresh(Tail(s)) \/ (~Has(Tail(s), "reboot") /\ ~Has(Tail(s), "Q"))
  <1> DEFINE t == Tail(s)
  <1>1. /\ Len(s) \in Nat /\ Len(t) = Len(s) - 1 /\ Len(s) > 0 /\ Head(s) = s[1]
        /\ \A i \in 1 .. Len(t) : t[i] = s[i + 1]
    BY HeadTailProperties, Ends
  <1> HIDE DEF t
  <1>2. \A i \in 1 .. Len(s) : i = 1 \/ (i - 1 \in 1 .. Len(t) /\ s[i] = t[i - 1])
    BY <1>1
  <1>3. \A i \in 1 .. Len(t) : i + 1 \in 1 .. Len(s) /\ i + 1 # 1
    BY <1>1
  <1>4. 1 \in 1 .. Len(s)
    BY <1>1
  <1>5. \A d : Has(s, d) <=> Head(s) = d \/ Has(t, d)
    BY <1>1, <1>2, <1>3, <1>4 DEF Has
  <1>6. Fresh(t) => Fresh(s)
    <2>1. SUFFICES ASSUME Fresh(t) PROVE Fresh(s)
      OBVIOUS
    <2>2. PICK i \in 1 .. Len(t) : t[i] = "Q" /\ \A j \in 1 .. Len(t) : t[j] = "reboot" => j < i
      BY <2>1 DEF Fresh
    <2>3. i + 1 \in 1 .. Len(s) /\ s[i + 1] = "Q"
      BY <1>1, <1>3, <2>2
    <2>4. \A j \in 1 .. Len(s) : s[j] = "reboot" => j < i + 1
      BY <1>1, <1>2, <2>2
    <2>5. QED
      BY <2>3, <2>4 DEF Fresh
  <1>7. ASSUME Fresh(s), ~Fresh(t) PROVE Head(s) = "Q" /\ ~Has(t, "reboot")
    <2>1. PICK i \in 1 .. Len(s) : s[i] = "Q" /\ \A j \in 1 .. Len(s) : s[j] = "reboot" => j < i
      BY <1>7 DEF Fresh
    <2>2. CASE i = 1
      <3>1. \A j \in 1 .. Len(t) : t[j] # "reboot"
        BY <1>1, <1>3, <2>1, <2>2
      <3>2. QED
        BY <1>1, <2>1, <2>2, <3>1 DEF Has
    <2>3. CASE i # 1
      <3>1. i - 1 \in 1 .. Len(t) /\ t[i - 1] = "Q"
        BY <1>2, <2>1, <2>3
      <3>2. \A j \in 1 .. Len(t) : t[j] = "reboot" => j < i - 1
        BY <1>1, <1>3, <2>1
      <3>3. QED
        BY <1>7, <3>1, <3>2 DEF Fresh
    <2>4. QED
      BY <2>2, <2>3
  <1>8. ~Has(t, "reboot") /\ Has(t, "Q") => Fresh(t)
    BY DEF Has, Fresh
  <1>9. QED
    BY <1>5, <1>6, <1>7, <1>8 DEF t

(* The commands accepted and not sent yet.                                 *)
LEMMA UnsentType ==
  ASSUME DriverTypeOK
  PROVE  evt \in Seq(Commands) /\ rtosQueue \in Seq(Commands) /\ Unsent \in Seq(Commands)
  <1>1. \A c \in Commands : <<c>> \in Seq(Commands)
    OBVIOUS
  <1>2. evt \in Seq(Commands)
    BY <1>1, EmptySeq DEF DriverTypeOK
  <1>3. QED
    BY <1>2, ConcatProperties DEF DriverTypeOK, Unsent

SameTold(s, t) ==
  /\ Has(t, "Q") <=> Has(s, "Q")
  /\ Has(t, "reboot") <=> Has(s, "reboot")
  /\ Fresh(t) <=> Fresh(s)

LEMMA Accepted ==
  ASSUME DriverTypeOK, NEW c \in Commands, rtosQueue' = Append(rtosQueue, c), evt' = evt
  PROVE  Unsent' = Append(Unsent, c)
  <1>1. evt \o Append(rtosQueue, c) = Append(evt \o rtosQueue, c)
    BY UnsentType, AppendToConcat
  <1>2. QED
    BY <1>1 DEF Unsent

(* A Q that is posted is fresh news, or its loss is known; any other       *)
(* command but a reboot tells nothing.                                     *)
LEMMA PostTells ==
  ASSUME DriverTypeOK, FlagsOK, NEW c \in Commands, Post(c), evt' = evt
  PROVE  /\ Unsent' = Unsent \/ Unsent' = Append(Unsent, c)
         /\ c = "Q" => doubtful' \/ Fresh(Unsent')
         /\ c \notin {"Q", "reboot"} => SameTold(Unsent, Unsent') /\ doubtful' = doubtful
  <1>1. CASE Len(rtosQueue) < Limit
    <2>1. rtosQueue' = Append(rtosQueue, c) /\ doubtful' = (doubtful /\ c # "Q")
      BY <1>1 DEF Post
    <2>2. Unsent' = Append(Unsent, c)
      BY <2>1, Accepted
    <2>3. c # "Q" => doubtful' = doubtful
      BY <2>1 DEF FlagsOK
    <2>4. /\ \A d : Has(Append(Unsent, c), d) <=> Has(Unsent, d) \/ c = d
          /\ c = "Q" => Fresh(Append(Unsent, c))
          /\ c \notin {"Q", "reboot"} => (Fresh(Append(Unsent, c)) <=> Fresh(Unsent))
      BY UnsentType, HasAppended
    <2>5. QED
      BY <2>2, <2>3, <2>4 DEF SameTold
  <1>2. CASE ~(Len(rtosQueue) < Limit)
    <2>1. rtosQueue' = rtosQueue /\ doubtful' = (doubtful \/ c = "Q")
      BY <1>2 DEF Post
    <2>2. Unsent' = Unsent
      BY <2>1 DEF Unsent
    <2>3. c # "Q" => doubtful' = doubtful
      BY <2>1 DEF FlagsOK
    <2>4. QED
      BY <2>1, <2>2, <2>3 DEF SameTold
  <1>3. QED
    BY <1>1, <1>2

LEMMA QueuedUnsent ==
  ASSUME DriverTypeOK, NEW c \in Commands
  PROVE  Queued(c) <=> Has(Unsent, c)
  <1>1. \A i : i \in DOMAIN rtosQueue <=> i \in 1 .. Len(rtosQueue)
    BY LenProperties DEF DriverTypeOK
  <1>2. (\E i \in DOMAIN rtosQueue : rtosQueue[i] = c) <=> Has(rtosQueue, c)
    BY <1>1 DEF Has
  <1>3. CASE evt = <<>>
    <2>1. Unsent = rtosQueue
      BY <1>3, ConcatEmptySeq DEF DriverTypeOK, Unsent
    <2>2. evt # <<c>>
      BY <1>3, Singleton
    <2>3. QED
      BY <1>2, <2>1, <2>2 DEF Queued
  <1>4. CASE evt # <<>>
    <2>1. PICK d \in Commands : evt = <<d>>
      BY <1>4 DEF DriverTypeOK
    <2>2. <<d>> \in Seq(Commands) /\ Len(<<d>>) = 1 /\ Head(<<d>>) = d /\ Tail(<<d>>) = <<>>
      BY Singleton, UnsentType, <2>1
    <2>3. Unsent # <<>> /\ Tail(Unsent) = rtosQueue
      BY <2>1, <2>2, TailOfConcat DEF DriverTypeOK, Unsent
    <2>4. Head(Unsent) = d
      BY <2>1, <2>2, HeadOfConcat, Singleton DEF DriverTypeOK, Unsent
    <2>5. Has(Unsent, c) <=> d = c \/ Has(rtosQueue, c)
      BY <2>3, <2>4, UnsentType, HasTaken
    <2>6. evt = <<c>> <=> d = c
      BY <2>1, Singleton
    <2>7. QED
      BY <1>2, <2>5, <2>6 DEF Queued
  <1>5. QED
    BY <1>3, <1>4

(* Steps that tell nothing of the connection.                              *)
LEMMA SilentStep ==
  ASSUME FollowInv, ~Asking, ~Asking', SameTold(Unsent, Unsent'),
         UNCHANGED <<main, doubtful, pulse, connected, a2dpConnected>>, rebooted' => rebooted,
         wire = <<"reboot">> <=> wire' = <<"reboot">>
  PROVE  FollowInv'
  BY DEF FollowInv, Sure, Underway, SameTold

LEMMA FollowInit == Init => FollowInv
  BY DEF Init, FollowInv, Sure

LEMMA StillAsked ==
  ASSUME FollowInv, SameTold(Unsent, Unsent'),
         UNCHANGED <<main, doubtful, pulse, connected, a2dpConnected, rebooted, at, cmd, wire, rx, mail>>
  PROVE  FollowInv'
  BY DEF FollowInv, Sure, Underway, SameTold, Asking, Only, One, Truth


(* The driver keeps following the module, action by action.                *)
LEMMA InitializeFollows ==
  ASSUME DriverTypeOK, FlagsOK, Initialize PROVE FollowInv'
  <1>1. CASE main' # "ready"
    BY <1>1 DEF FollowInv, Sure
  <1>2. CASE main' = "ready"
    <2>1. Post("Q") /\ evt' = evt /\ "Q" \in Commands
      BY <1>2 DEF Initialize, Start, ConfigureReboot, QueryVersion, Attach, InitialQuery, QueryState,
                  driverVars, Commands
    <2>2. doubtful' \/ Fresh(Unsent')
      BY <2>1, PostTells
    <2>3. QED
      BY <2>2 DEF FollowInv, Sure
  <1>3. QED
    BY <1>1, <1>2

LEMMA HandlersFollow ==
  ASSUME DriverTypeOK, FlagsOK, FollowInv, Handlers PROVE FollowInv'
  <1>1. CASE Press \/ GetTrackDataLater
    <2>1. PICK c \in Commands \ {"Q", "reboot"} : Post(c)
      BY <1>1 DEF Press, GetTrackDataLater, Commands
    <2>2. UNCHANGED <<main, pulse, connected, a2dpConnected, rebooted, at, evt, cmd, wire, rx, mail>>
      BY <1>1 DEF Press, GetTrackDataLater, Handler, driverVars, moduleVars
    <2>3. SameTold(Unsent, Unsent') /\ doubtful' = doubtful
      BY <2>1, <2>2, PostTells
    <2>4. QED
      BY <2>2, <2>3, StillAsked
  <1>2. CASE OnGPIO2
    <2>1. Post("Q") /\ evt' = evt /\ "Q" \in Commands
      BY <1>2 DEF OnGPIO2, Handler, driverVars, Commands
    <2>2. doubtful' \/ Fresh(Unsent')
      BY <2>1, PostTells
    <2>3. QED
      BY <2>2 DEF FollowInv, Sure
  <1>3. CASE ConsoleReboot
    <2>1. UNCHANGED <<main, pulse, connected, rebooted, at, evt, cmd, wire, rx, mail>> /\ a2dpConnected' = FALSE
      BY <1>3 DEF ConsoleReboot, RebootModule, driverVars, moduleVars
    <2>2. CASE Len(rtosQueue) < Limit
      <3>1. rtosQueue' = Append(rtosQueue, "reboot") /\ doubtful' = (doubtful \/ ~NoQuery)
        BY <1>3, <2>2 DEF ConsoleReboot, RebootModule
      <3>2. "reboot" \in Commands /\ "Q" \in Commands
        BY DEF Commands
      <3>3. Unsent' = Append(Unsent, "reboot")
        BY <2>1, <3>1, <3>2, Accepted
      <3>4. /\ Has(Unsent', "Q") <=> Has(Unsent, "Q")
            /\ Has(Unsent', "reboot")
        BY <3>2, <3>3, UnsentType, HasAppended
      <3>5. SUFFICES ASSUME Sure' PROVE FollowInv'
        BY DEF FollowInv
      <3>6. main = "ready" /\ ~doubtful /\ NoQuery
        BY <2>1, <3>1, <3>5 DEF Sure
      <3>7. ~Has(Unsent, "Q") /\ ~pulse /\ ~Asking
        BY <3>2, <3>6, QueuedUnsent DEF NoQuery, Asking
      <3>8. ~Fresh(Unsent)
        BY <3>7 DEF Fresh, Has
      <3>9. rebooted => ~connected
        BY <3>6, <3>7, <3>8 DEF FollowInv, Sure
      <3>10. QED
        BY <2>1, <3>4, <3>7, <3>9 DEF FollowInv, Asking, Underway
    <2>3. CASE ~(Len(rtosQueue) < Limit)
      <3>1. doubtful'
        BY <1>3, <2>3 DEF ConsoleReboot, RebootModule
      <3>2. QED
        BY <3>1 DEF FollowInv, Sure
    <2>4. QED
      BY <2>2, <2>3
  <1>4. QED
    BY <1>1, <1>2, <1>3 DEF Handlers

(* A command is taken from the queue: what is not sent yet is the same.    *)
LEMMA Fetched ==
  ASSUME DriverTypeOK, evt = <<>>, rtosQueue # <<>>,
         evt' = <<Head(rtosQueue)>>, rtosQueue' = Tail(rtosQueue)
  PROVE  Unsent' = Unsent
  <1>1. evt' = Append(evt, Head(rtosQueue))
    BY Singleton
  <1>2. Append(evt, Head(rtosQueue)) \o Tail(rtosQueue) = evt \o rtosQueue
    BY UnsentType, MoveHead
  <1>3. QED
    BY <1>1, <1>2 DEF Unsent

(* The command in hand is sent.                                            *)
LEMMA Sent ==
  ASSUME DriverTypeOK, HandInv, SendCommand
  PROVE  /\ Unsent # <<>> /\ Unsent' = Tail(Unsent)
         /\ cmd' = Head(Unsent) /\ cmd' \in Commands /\ wire' = Append(wire, cmd')
  <1>1. PICK c \in Commands : evt = <<c>>
    BY DEF SendCommand, HandInv, DriverTypeOK
  <1>2. cmd' = c /\ evt' = <<>> /\ wire' = Append(wire, cmd') /\ rtosQueue' = rtosQueue
    BY <1>1, Singleton DEF SendCommand
  <1>3. Unsent' = rtosQueue
    BY <1>2, UnsentType, ConcatEmptySeq DEF Unsent
  <1>4. Unsent # <<>> /\ Tail(Unsent) = rtosQueue
    BY <1>1, UnsentType, Singleton, TailOfConcat DEF Unsent
  <1>5. Head(Unsent) = c
    BY <1>1, UnsentType, Singleton, HeadOfConcat DEF Unsent
  <1>6. QED
    BY <1>2, <1>3, <1>4, <1>5

LEMMA UnsentAlone == ASSUME Unsent' = Unsent PROVE SameTold(Unsent, Unsent')
  BY DEF SameTold

LEMMA SendFollows ==
  ASSUME DriverTypeOK, TalkInv, FollowInv, SendCommand PROVE FollowInv'
  <1> USE DEF TalkInv
  <1>1. /\ Unsent # <<>> /\ Unsent' = Tail(Unsent)
        /\ cmd' = Head(Unsent) /\ cmd' \in Commands
    BY Sent
  <1>2. UNCHANGED <<main, pulse, doubtful, connected, rebooted, a2dpConnected>> /\ at = "session"
        /\ at' = IF cmd' = "gather" THEN "gather" ELSE "answer"
    BY DEF SendCommand, Thread
  <1>3. wire' = <<cmd'>> /\ rx' = <<>> /\ mail' = <<>> /\ wire = <<>>
    BY <1>1, Sent, Singleton DEF SendCommand, LineInv, Quiet, Only
  <1>4. /\ \A d : Has(Unsent, d) <=> cmd' = d \/ Has(Unsent', d)
        /\ cmd' # "Q" => (Fresh(Unsent') <=> Fresh(Unsent))
        /\ cmd' = "Q" /\ Fresh(Unsent) =>
             Fresh(Unsent') \/ (~Has(Unsent', "reboot") /\ ~Has(Unsent', "Q"))
    BY <1>1, UnsentType, HasTaken
  <1>5. SUFFICES ASSUME Sure' PROVE FollowInv'
    BY DEF FollowInv
  <1>6. main = "ready" /\ ~doubtful /\ ~pulse /\ ~Fresh(Unsent')
    BY <1>2, <1>5 DEF Sure
  <1>7. CASE cmd' = "Q"
    <2>1. Fresh(Unsent)
      BY <1>4, <1>6, <1>7 DEF FollowInv, Sure
    <2>2. ~Has(Unsent', "reboot") /\ ~Has(Unsent', "Q")
      BY <1>4, <1>6, <1>7, <2>1
    <2>3. Asking'
      BY <1>2, <1>7 DEF Asking
    <2>4. Only(<<"Q">>, <<>>, <<>>)'
      BY <1>3, <1>7 DEF Only
    <2>5. QED
      BY <2>2, <2>3, <2>4 DEF FollowInv
  <1>8. CASE cmd' # "Q"
    <2>1. ~Asking /\ ~Asking' /\ Sure
      BY <1>2, <1>4, <1>6, <1>8 DEF Asking, Sure
    <2>2. ~Has(Unsent', "Q") /\ (rebooted => ~connected)
          /\ IF Has(Unsent, "reboot") \/ wire = <<"reboot">> THEN ~a2dpConnected ELSE a2dpConnected = connected
      BY <1>4, <2>1 DEF FollowInv, Underway
    <2>3. wire' = <<"reboot">> <=> cmd' = "reboot"
      BY <1>3, Singleton DEF Only
    <2>4. wire # <<"reboot">>
      BY <1>3, Singleton
    <2>5. (Has(Unsent', "reboot") \/ wire' = <<"reboot">>) <=> (Has(Unsent, "reboot") \/ wire = <<"reboot">>)
      BY <1>4, <2>3, <2>4
    <2>6. QED
      BY <1>2, <2>1, <2>2, <2>5 DEF FollowInv, Underway
  <1>9. QED
    BY <1>7, <1>8

LEMMA QueryAnswerFollows ==
  ASSUME DriverTypeOK, FlagsOK, TalkInv, FollowInv, QueryAnswer PROVE FollowInv'
  <1>1. UNCHANGED <<main, pulse, connected, rebooted, evt, wire, rx>> /\ Asking /\ at' \in {"parsed", "get"}
    BY DEF QueryAnswer, Thread, Asking
  <1>2. ~Asking'
    BY <1>1 DEF Asking
  <1>3. CASE AskAgain
    <2>1. "Q" \in Commands /\ Post("Q")
      BY <1>3 DEF AskAgain, Commands
    <2>2. doubtful' \/ Fresh(Unsent')
      BY <1>1, <2>1, PostTells
    <2>3. QED
      BY <2>2 DEF FollowInv, Sure
  <1>4. CASE UNCHANGED <<rtosQueue, doubtful>>
    <2>1. Unsent' = Unsent /\ doubtful' = doubtful
      BY <1>1, <1>4 DEF Unsent
    <2>2. SUFFICES ASSUME Sure' PROVE FollowInv'
      BY DEF FollowInv
    <2>3. Sure
      BY <1>1, <2>1, <2>2 DEF Sure
    <2>4. /\ ~Has(Unsent, "Q") /\ ~Has(Unsent, "reboot")
          /\ Only(<<"Q">>, <<>>, <<>>) \/ (One({Truth, "garbled"}) /\ ~rebooted)
      BY <1>1, <2>3 DEF FollowInv
    <2>5. ~TimedOut
      BY <2>4, InVain, NotBoth
    <2>6. CASE \E line \in Answers : Line(line)
      <3>1. PICK line : Line(line)
        BY <2>6
      <3>2. One({Truth, "garbled"}) /\ ~rebooted
        BY <2>4, <3>1, NoLine
      <3>3. line \in {Truth, "garbled"} /\ Quiet'
        BY <1>1, <3>1, <3>2, LineTaken
      <3>4. CASE line = "garbled"
        BY <1>3, <3>1, <3>4 DEF QueryAnswer, Line
      <3>5. CASE line # "garbled"
        <4>1. line \in {"on", "off"} /\ line = Truth
          BY <3>3, <3>5 DEF Truth
        <4>2. a2dpConnected' = (line = "on")
          BY <1>3, <3>1, <4>1 DEF QueryAnswer, Line
        <4>3. a2dpConnected' = connected
          BY <4>1, <4>2 DEF Truth, FlagsOK
        <4>4. wire' # <<"reboot">>
          BY <3>3, Singleton DEF Quiet, Only
        <4>5. QED
          BY <1>1, <1>2, <2>1, <2>4, <3>2, <4>3, <4>4 DEF FollowInv, Underway
      <3>6. QED
        BY <3>4, <3>5
    <2>7. QED
      BY <2>5, <2>6 DEF QueryAnswer, Answers
  <1>5. QED
    BY <1>3, <1>4 DEF QueryAnswer

LEMMA FetchFollows ==
  ASSUME DriverTypeOK, TalkInv, FollowInv, Get \/ GetNext PROVE FollowInv'
  <1>1. UNCHANGED <<main, pulse, doubtful, connected, rebooted, a2dpConnected, wire>>
        /\ ~Asking /\ ~Asking'
    BY DEF Get, GetNext, Thread, Asking
  <1>2. CASE evt = <<>> /\ rtosQueue # <<>>
    BY <1>1, <1>2, Fetched, UnsentAlone, SilentStep DEF Get, GetNext
  <1>3. CASE ~(evt = <<>> /\ rtosQueue # <<>>)
    <2>1. UNCHANGED <<evt, rtosQueue>>
      BY <1>3 DEF Get, GetNext, TalkInv, HandInv
    <2>2. Unsent' = Unsent
      BY <2>1 DEF Unsent
    <2>3. QED
      BY <1>1, <2>2, UnsentAlone, SilentStep
  <1>4. QED
    BY <1>2, <1>3

LEMMA RunFollows ==
  ASSUME DriverTypeOK, FlagsOK, TalkInv, FollowInv, Run PROVE FollowInv'
  <1> USE DEF Thread, TalkInv
  <1>1. CASE Get \/ GetNext
    BY <1>1, FetchFollows
  <1>2. CASE ClearRXMail \/ WaitForCmd \/ Gather \/ Answer \/ WaitForEnd
    <2>1. UNCHANGED <<main, pulse, doubtful, connected, rebooted, a2dpConnected, wire, evt, rtosQueue>>
      BY <1>2 DEF ClearRXMail, WaitForCmd, Gather, Answer, WaitForEnd, Keep
    <2>2. ~Asking /\ ~Asking'
      BY <1>2 DEF ClearRXMail, WaitForCmd, Gather, Answer, WaitForEnd, NoCmd, Asking
    <2>3. Unsent' = Unsent
      BY <2>1 DEF Unsent
    <2>4. QED
      BY <2>1, <2>2, <2>3, UnsentAlone, SilentStep
  <1>3. CASE PinLow \/ PinHigh
    <2>1. UNCHANGED <<main, pulse, doubtful, connected, a2dpConnected, evt, rtosQueue>> /\ (rebooted' => rebooted)
      BY <1>3 DEF PinLow, PinHigh
    <2>2. wire = <<>> /\ wire' \in {<<"low">>, <<"high">>}
      BY <1>3, Singleton DEF PinLow, PinHigh, LineInv, Quiet, Only
    <2>3. wire # <<"reboot">> /\ wire' # <<"reboot">>
      BY <2>2, Singleton
    <2>4. ~Asking /\ ~Asking'
      BY <1>3 DEF PinLow, PinHigh, Asking
    <2>5. Unsent' = Unsent
      BY <2>1 DEF Unsent
    <2>6. QED
      BY <2>1, <2>3, <2>4, <2>5, UnsentAlone, SilentStep
  <1>4. CASE SendCommand
    BY <1>4, SendFollows
  <1>5. CASE QueryAnswer
    BY <1>5, QueryAnswerFollows
  <1>6. CASE OnA2DPProfileChange \/ TrackChanged
    <2>1. UNCHANGED <<main, pulse, connected, rebooted, a2dpConnected, wire, evt>>
          /\ ~Asking /\ ~Asking'
      BY <1>6 DEF OnA2DPProfileChange, TrackChanged, Asking
    <2>2. SameTold(Unsent, Unsent') /\ doubtful' = doubtful
      <3>1. CASE UNCHANGED <<rtosQueue, doubtful>>
        <4>1. Unsent' = Unsent
          BY <2>1, <3>1 DEF Unsent
        <4>2. QED
          BY <3>1, <4>1, UnsentAlone
      <3>2. CASE Post("other") \/ Post("gather")
        BY <2>1, <3>2, PostTells DEF Commands
      <3>3. QED
        BY <1>6, <3>1, <3>2 DEF OnA2DPProfileChange, SendAVCRP, TrackChanged
    <2>3. QED
      BY <2>1, <2>2, SilentStep
  <1>7. QED
    BY <1>1, <1>2, <1>3, <1>4, <1>5, <1>6 DEF Run

LEMMA SerialFollows ==
  ASSUME DriverTypeOK, TalkInv, FollowInv, OnSerialRX PROVE FollowInv'
  <1>1. UNCHANGED <<main, at, cmd, evt, rtosQueue, pulse, doubtful, connected, rebooted, a2dpConnected, wire>>
    BY DEF OnSerialRX, driverVars, ghostVars
  <1>2. Unsent' = Unsent
    BY <1>1 DEF Unsent
  <1>3. CASE ~Asking
    BY <1>1, <1>2, <1>3, UnsentAlone, SilentStep DEF Asking
  <1>4. CASE Asking
    <2>1. SUFFICES ASSUME Sure' PROVE FollowInv'
      BY DEF FollowInv
    <2>2. Sure
      BY <1>1, <1>2, <2>1 DEF Sure
    <2>3. /\ ~Has(Unsent, "Q") /\ ~Has(Unsent, "reboot")
          /\ Only(<<"Q">>, <<>>, <<>>) \/ (One({Truth, "garbled"}) /\ ~rebooted)
      BY <1>4, <2>2 DEF FollowInv
    <2>4. One({Truth, "garbled"}) /\ ~rebooted
      BY <2>3 DEF OnSerialRX, Only
    <2>5. \E l \in {Truth, "garbled"} : One({l})
      BY <2>4 DEF One
    <2>6. PICK l \in {Truth, "garbled"} : One({l})
      BY <2>5
    <2>7. One({l})'
      BY <2>6, Received
    <2>8. Truth' = Truth
      BY <1>1 DEF Truth
    <2>9. One({Truth, "garbled"})'
      BY <2>6, <2>7, <2>8 DEF One, Only
    <2>10. QED
      BY <1>1, <1>2, <1>4, <2>3, <2>4, <2>9 DEF FollowInv, Asking
  <1>5. QED
    BY <1>3, <1>4

LEMMA ObeyFollows ==
  ASSUME DriverTypeOK, FlagsOK, TalkInv, FollowInv, Obey PROVE FollowInv'
  <1> USE DEF TalkInv
  <1>1. wire # <<>> /\ UNCHANGED <<main, at, cmd, evt, rtosQueue, a2dpConnected, pulse>>
    BY DEF Obey, Module, driverVars
  <1>2. Unsent' = Unsent
    BY <1>1 DEF Unsent
  <1>3. PICK x : Only(<<x>>, <<>>, <<>>) /\ x = (CASE at = "cmd_wait" -> "low" [] at = "end_wait" -> "high"
                                                [] at \in {"gather", "answer"} -> cmd)
        /\ at \in {"cmd_wait", "end_wait", "gather", "answer"}
    BY <1>1, NothingSent DEF LineInv, Quiet
  <1>4. Head(wire) = x /\ wire' = <<>> /\ wire = <<x>>
    BY <1>3, Obeyed DEF Only
  <1>5. wire' # <<"reboot">> /\ (wire = <<"reboot">> <=> x = "reboot")
    BY <1>4, Singleton
  <1>6. x \in WireItems /\ (at = "answer" => x = cmd) /\ (x = "reboot" => at = "answer" /\ cmd = "reboot")
    BY <1>3 DEF DriverTypeOK, WireItems, Commands, LineInv
  <1>7. mode \in {"data", "command", "down"} /\ doubtful \in BOOLEAN
    BY DEF DriverTypeOK, FlagsOK
  <1>8. CASE x \notin {"Q", "reboot"}
    <2>1. ~Asking /\ ~Asking'
      BY <1>1, <1>6, <1>8 DEF Asking
    <2>2. UNCHANGED <<connected, rebooted, doubtful>>
      <3>1. CASE mode = "down" \/ (x \in Commands /\ mode = "data")
        <4>1. UNCHANGED <<connected, rebooted>>
          BY <1>3, <3>1, Dropped
        <4>2. doubtful' = doubtful
          BY <1>4, <1>7, <1>8, <3>1 DEF Obey, Commands
        <4>3. QED
          BY <4>1, <4>2
      <3>2. CASE mode = "command" /\ x \in Commands
        BY <1>3, <1>8, <3>2, Answered
      <3>3. CASE mode # "down" /\ x \in {"low", "high"}
        BY <1>3, <3>3, PinObeyed
      <3>4. QED
        BY <1>6, <1>7, <3>1, <3>2, <3>3 DEF WireItems
    <2>3. QED
      BY <1>1, <1>2, <1>5, <1>8, <2>1, <2>2, UnsentAlone, SilentStep
  <1>9. CASE x = "Q"
    <2>1. at = "answer" /\ cmd = "Q" /\ Asking /\ Asking' /\ x \in Commands
      BY <1>1, <1>3, <1>9 DEF Asking, Commands, LineInv
    <2>2. CASE mode # "command"
      <3>1. doubtful'
        BY <1>4, <1>7, <1>9, <2>1, <2>2 DEF Obey, Commands
      <3>2. QED
        BY <3>1 DEF FollowInv, Sure
    <2>3. CASE mode = "command"
      <3>1. /\ mail' = <<>> /\ rx' \in Respond("Q")
            /\ UNCHANGED <<doubtful, connected, rebooted>>
        BY <1>3, <1>9, <2>1, <2>3, Answered
      <3>2. ~rebooted
        BY <2>3 DEF ModeInv
      <3>3. rx' = <<Truth>> \/ rx' = <<"garbled">>
        BY <3>1 DEF Respond, Truth
      <3>4. Truth' = Truth
        BY <3>1 DEF Truth
      <3>5. One({Truth, "garbled"})'
        BY <1>4, <3>1, <3>3, <3>4 DEF One, Only
      <3>6. Sure' => Sure
        BY <1>1, <1>2, <3>1 DEF Sure
      <3>7. QED
        BY <1>2, <2>1, <3>1, <3>2, <3>5, <3>6 DEF FollowInv
    <2>4. QED
      BY <2>2, <2>3
  <1>10. CASE x = "reboot"
    <2>1. at = "answer" /\ ~Asking /\ ~Asking' /\ x \in Commands /\ Underway
      BY <1>1, <1>5, <1>6, <1>10 DEF Asking, Commands, Underway
    <2>2. SUFFICES ASSUME Sure' PROVE FollowInv'
      BY DEF FollowInv
    <2>3. CASE mode # "command"
      <3>1. UNCHANGED <<connected, rebooted>> /\ rebooted
        BY <1>3, <1>7, <2>1, <2>3, Dropped DEF ModeInv
      <3>2. doubtful' = doubtful
        BY <1>4, <1>7, <1>10, <2>1, <2>3 DEF Obey, Commands
      <3>3. Sure
        BY <1>1, <1>2, <2>2, <3>2 DEF Sure
      <3>4. ~Has(Unsent, "Q") /\ ~connected /\ ~a2dpConnected
        BY <2>1, <3>1, <3>3 DEF FollowInv
      <3>5. a2dpConnected = connected
        BY <3>4 DEF FlagsOK
      <3>6. QED
        BY <1>1, <1>2, <1>5, <2>1, <3>1, <3>4, <3>5 DEF FollowInv, Underway
    <2>4. CASE mode = "command"
      <3>1. connected' = FALSE /\ doubtful' = doubtful
        BY <1>3, <1>10, <2>1, <2>4, Answered
      <3>2. Sure
        BY <1>1, <1>2, <2>2, <3>1 DEF Sure
      <3>3. ~Has(Unsent, "Q") /\ ~a2dpConnected
        BY <2>1, <3>2 DEF FollowInv
      <3>4. a2dpConnected' = connected'
        BY <1>1, <3>1, <3>3 DEF FlagsOK
      <3>5. QED
        BY <1>1, <1>2, <1>5, <2>1, <3>1, <3>3, <3>4 DEF FollowInv, Underway
    <2>5. QED
      BY <2>3, <2>4
  <1>11. QED
    BY <1>8, <1>9, <1>10

LEMMA BootFollows == ASSUME FollowInv, Boot PROVE FollowInv'
  <1>1. UNCHANGED <<main, doubtful, pulse, connected, a2dpConnected, rebooted, at, cmd, wire, rx, mail, evt, rtosQueue>>
    BY DEF Boot, Module, driverVars, ghostVars
  <1>2. Unsent' = Unsent
    BY <1>1 DEF Unsent
  <1>3. QED
    BY <1>1, <1>2, UnsentAlone, StillAsked

(* A change of the connection leaves a pulse once the handler is attached. *)
LEMMA PhoneFollows == ASSUME FlagsOK, Phone PROVE FollowInv'
  <1>1. pulse' = (pulse \/ attached) /\ main' = main
    BY DEF Phone, Module
  <1>2. main' = "ready" => pulse'
    BY <1>1 DEF FlagsOK
  <1>3. QED
    BY <1>2 DEF FollowInv, Sure
-----------------------------------------------------------------------------
(* The flags stay flags.                                                   *)
LEMMA PostFlag ==
  ASSUME DriverTypeOK, FlagsOK, NEW c, Post(c)
  PROVE  doubtful' \in BOOLEAN
  BY DEF Post, FlagsOK

LEMMA RebootFlag ==
  ASSUME FlagsOK, RebootModule
  PROVE  doubtful' \in BOOLEAN /\ a2dpConnected' \in BOOLEAN
         /\ UNCHANGED <<connected, pulse, attached, rebooted>>
  BY DEF RebootModule, moduleVars, FlagsOK

LEMMA ObeyFlags ==
  ASSUME DriverTypeOK, FlagsOK, TalkInv, Obey
  PROVE  connected' \in BOOLEAN /\ rebooted' \in BOOLEAN /\ doubtful' \in BOOLEAN
  <1>1. mode \in {"data", "command", "down"} /\ Head(wire) \in WireItems
    BY WireEnds DEF DriverTypeOK, Obey, WireItems
  <1>2. CASE mode = "down"
    BY <1>2 DEF Obey, FlagsOK
  <1>3. CASE mode = "data" /\ Head(wire) \in Commands
    BY <1>3 DEF Obey, FlagsOK, Commands
  <1>4. CASE mode # "down" /\ Head(wire) \in {"low", "high"}
    BY <1>4 DEF Obey, FlagsOK, Commands, ghostVars
  <1>5. CASE mode = "command" /\ Head(wire) \in Commands
    <2>1. /\ UNCHANGED doubtful
          /\ IF Head(wire) = "reboot" THEN mode' = "down" /\ connected' = FALSE /\ rebooted' = TRUE
                                      ELSE UNCHANGED <<mode, connected, rebooted>>
      BY <1>5 DEF Obey, Commands
    <2>2. QED
      BY <2>1 DEF FlagsOK
  <1>6. QED
    BY <1>1, <1>2, <1>3, <1>4, <1>5 DEF WireItems

LEMMA FlagsStep ==
  ASSUME DriverTypeOK, FlagsOK, TalkInv, Next PROVE FlagsOK'
  <1> USE DEF FlagsOK
  <1>1. CASE Initialize
    <2>1. CASE ConfigureReboot
      BY <2>1, RebootFlag DEF ConfigureReboot
    <2>2. CASE Start \/ QueryVersion \/ InitialQuery
      <3>1. doubtful' \in BOOLEAN
        BY <2>2, PostFlag DEF Start, QueryVersion, InitialQuery, QueryState
      <3>2. UNCHANGED <<a2dpConnected, connected, pulse, attached, rebooted>>
            /\ (main' \in {"query", "ready"} => main = "query")
        BY <2>2 DEF Start, QueryVersion, InitialQuery, moduleVars
      <3>3. QED
        BY <3>1, <3>2
    <2>3. CASE Attach
      BY <2>3 DEF Attach, ghostVars
    <2>4. QED
      BY <1>1, <2>1, <2>2, <2>3 DEF Initialize
  <1>2. CASE Handlers
    <2>1. CASE ConsoleReboot
      BY <2>1, RebootFlag DEF ConsoleReboot
    <2>2. CASE Press \/ OnGPIO2 \/ GetTrackDataLater
      <3>1. doubtful' \in BOOLEAN
        BY <2>2, PostFlag DEF Press, OnGPIO2, GetTrackDataLater
      <3>2. UNCHANGED <<main, a2dpConnected, connected, attached, rebooted>> /\ pulse' \in BOOLEAN
        BY <2>2 DEF Press, OnGPIO2, GetTrackDataLater, Handler, moduleVars
      <3>3. QED
        BY <3>1, <3>2
    <2>3. QED
      BY <1>2, <2>1, <2>2 DEF Handlers
  <1>3. CASE Run
    <2>1. UNCHANGED <<main, attached, connected, pulse>>
      BY <1>3 DEF Run, Get, ClearRXMail, PinLow, WaitForCmd, SendCommand, Gather, Answer, QueryAnswer,
           OnA2DPProfileChange, TrackChanged, GetNext, PinHigh, WaitForEnd, Thread
    <2>2. rebooted' \in BOOLEAN
      BY <1>3 DEF Run, Get, ClearRXMail, PinLow, WaitForCmd, SendCommand, Gather, Answer, QueryAnswer,
           OnA2DPProfileChange, TrackChanged, GetNext, PinHigh, WaitForEnd
    <2>3. a2dpConnected' \in BOOLEAN /\ doubtful' \in BOOLEAN
      <3>1. CASE QueryAnswer \/ OnA2DPProfileChange \/ TrackChanged
        <4>1. doubtful' = doubtful \/ \E c \in Commands : Post(c)
          BY <3>1 DEF QueryAnswer, OnA2DPProfileChange, TrackChanged, AskAgain, SendAVCRP, Commands
        <4>2. a2dpConnected' \in BOOLEAN
          BY <3>1 DEF QueryAnswer, OnA2DPProfileChange, TrackChanged
        <4>3. QED
          BY <4>1, <4>2, PostFlag
      <3>2. CASE ~(QueryAnswer \/ OnA2DPProfileChange \/ TrackChanged)
        BY <1>3, <3>2 DEF Run, Get, ClearRXMail, PinLow, WaitForCmd, SendCommand, Gather, Answer,
             GetNext, PinHigh, WaitForEnd
      <3>3. QED
        BY <3>1, <3>2
    <2>4. QED
      BY <2>1, <2>2, <2>3
  <1>4. CASE OnSerialRX
    BY <1>4 DEF OnSerialRX, ghostVars
  <1>5. CASE Obey
    <2>1. UNCHANGED <<main, attached, pulse, a2dpConnected>>
      BY <1>5 DEF Obey, Module
    <2>2. QED
      BY <1>5, <2>1, ObeyFlags
  <1>6. CASE Boot
    BY <1>6 DEF Boot, Module, ghostVars
  <1>7. CASE Phone
    BY <1>7 DEF Phone, Module, ghostVars
  <1>8. QED
    BY <1>1, <1>2, <1>3, <1>4, <1>5, <1>6, <1>7 DEF Next

LEMMA FlagsInit == Init => FlagsOK
  BY DEF Init, FlagsOK
-----------------------------------------------------------------------------
(* The invariant is inductive.                                             *)
LEMMA Unmoved == ASSUME DriverInv, UNCHANGED vars PROVE DriverInv'
  <1>1. UNCHANGED <<main, rtosQueue, a2dpConnected, at, evt, cmd, lines, attached, mail, rx, wire,
                    mode, connected, pulse, rebooted, strayed, doubtful>>
    BY DEF vars, driverVars, ghostVars
  <1>2. Unsent' = Unsent
    BY <1>1 DEF Unsent
  <1>3. FollowInv'
    BY <1>1, <1>2, UnsentAlone, StillAsked DEF DriverInv
  <1>4. (DriverTypeOK /\ HandInv /\ LineInv /\ ModeInv)'
    BY <1>1 DEF DriverInv, DriverTypeOK, HandInv, LineInv, ModeInv, Quiet, Only, One
  <1>5. FlagsOK'
    BY <1>1 DEF DriverInv, FlagsOK
  <1>6. QED
    BY <1>3, <1>4, <1>5 DEF DriverInv

LEMMA DriverInvStep == ASSUME DriverInv, Next PROVE DriverInv'
  <1>1. DriverTypeOK /\ FlagsOK /\ TalkInv /\ FollowInv /\ HandInv
    BY DEF DriverInv, TalkInv
  <1>2. DriverTypeOK'
    BY <1>1, InitializeType, HandlersType, RunType, ModuleType DEF Next
  <1>3. FlagsOK'
    BY <1>1, FlagsStep
  <1>4. TalkInv'
    BY <1>1, OthersKeepTalk, StartKeepsTalk, RunKeepsTalk, SerialKeepsTalk, ObeyKeepsTalk, BootKeepsTalk
       DEF Next, Initialize
  <1>5. FollowInv'
    BY <1>1, InitializeFollows, HandlersFollow, RunFollows, SerialFollows, ObeyFollows, BootFollows,
       PhoneFollows DEF Next
  <1>6. QED
    BY <1>2, <1>3, <1>4, <1>5 DEF DriverInv, TalkInv

LEMMA DriverInvInit == Init => DriverInv
  BY DriverTypeInit, FlagsInit, TalkInit, FollowInit DEF DriverInv, TalkInv

(* The invariant holds, types included.                                    *)
THEOREM DriverInvariance == Spec => []DriverInv
  <1>1. DriverInv /\ [Next]_vars => DriverInv'
    BY DriverInvStep, Unmoved
  <1>2. QED
    BY <1>1, DriverInvInit, PTL DEF Spec, Safe

(* A command reaches the module in command mode, or the module went down   *)
(* after it had said CMD: waitForRXLine and processCommand.                *)
THEOREM NothingStrays == Spec => []NeverStrays
  <1>1. DriverInv => NeverStrays
    BY DEF DriverInv, ModeInv, NeverStrays
  <1>2. QED
    BY <1>1, DriverInvariance, PTL

(* Once no query is under way a2dpConnected is the module's connection:    *)
(* the GPIO2 handler, parseQResponse and RN52::reboot together.            *)
THEOREM StateFollows == Spec => []StateFollowsModule
  <1>1. DriverInv => StateFollowsModule
    <2>1. SUFFICES ASSUME DriverInv, Settled PROVE a2dpConnected = connected
      BY DEF StateFollowsModule
    <2>2. "Q" \in Commands /\ "reboot" \in Commands /\ DriverTypeOK /\ FollowInv
      BY <2>1 DEF Commands, DriverInv
    <2>3. main = "ready" /\ ~pulse /\ ~doubtful /\ ~Asking /\ ~RebootOnItsWay /\ ~Has(Unsent, "Q")
      BY <2>1, <2>2, QueuedUnsent DEF Settled, NoQuery, Asking
    <2>4. ~Fresh(Unsent)
      BY <2>3 DEF Fresh, Has
    <2>5. ~Has(Unsent, "reboot") /\ wire # <<"reboot">>
      <3>1. ~Queued("reboot") /\ \A i \in DOMAIN wire : wire[i] # "reboot"
        BY <2>3 DEF RebootOnItsWay
      <3>2. <<"reboot">>[1] = "reboot" /\ 1 \in DOMAIN <<"reboot">>
        OBVIOUS
      <3>3. QED
        BY <2>2, <3>1, <3>2, QueuedUnsent
    <2>6. QED
      BY <2>2, <2>3, <2>4, <2>5 DEF FollowInv, Sure, Underway
  <1>2. QED
    BY <1>1, DriverInvariance, PTL

(* A command leaves the driver when it is sent, in the order of queueing,  *)
(* and not otherwise: RN52::run keeps one it could not send.               *)
THEOREM SendsInOrder == Spec => SentInOrder
  <1> DEFINE A == \/ Unsent' = Unsent
                  \/ \E c \in Commands : Unsent' = Append(Unsent, c)
                  \/ /\ Unsent # <<>> /\ Unsent' = Tail(Unsent)
                     /\ wire' = Append(wire, Head(Unsent))
  <1>1. DriverInv /\ [Next]_vars => [A]_vars
    <2>1. SUFFICES ASSUME DriverInv, Next PROVE A
      OBVIOUS
    <2>2. DriverTypeOK /\ FlagsOK /\ HandInv
      BY <2>1 DEF DriverInv
    <2>3. CASE \E c \in Commands : Post(c) /\ evt' = evt
      BY <2>2, <2>3, PostTells
    <2>4. CASE UNCHANGED <<evt, rtosQueue>>
      BY <2>4 DEF Unsent
    <2>5. CASE RebootModule
      <3>1. evt' = evt /\ "reboot" \in Commands
        BY <2>5 DEF RebootModule, driverVars, Commands
      <3>2. rtosQueue' = Append(rtosQueue, "reboot") \/ UNCHANGED rtosQueue
        BY <2>5 DEF RebootModule
      <3>3. QED
        BY <2>2, <2>4, <3>1, <3>2, Accepted
    <2>6. CASE Get \/ GetNext
      <3>1. CASE evt = <<>> /\ rtosQueue # <<>>
        BY <2>2, <2>6, <3>1, Fetched DEF Get, GetNext
      <3>2. CASE ~(evt = <<>> /\ rtosQueue # <<>>)
        BY <2>2, <2>4, <2>6, <3>2 DEF Get, GetNext, HandInv
      <3>3. QED
        BY <3>1, <3>2
    <2>7. CASE SendCommand
      BY <2>2, <2>7, Sent
    <2>8. CASE Initialize
      BY <2>3, <2>4, <2>5, <2>8 DEF Initialize, Start, ConfigureReboot, QueryVersion, Attach, InitialQuery,
         QueryState, driverVars, Commands
    <2>9. CASE Handlers
      BY <2>3, <2>5, <2>9 DEF Handlers, Press, ConsoleReboot, OnGPIO2, GetTrackDataLater, Handler,
         driverVars, Commands
    <2>10. CASE ClearRXMail \/ PinLow \/ WaitForCmd \/ Gather \/ Answer \/ PinHigh \/ WaitForEnd
      BY <2>4, <2>10 DEF ClearRXMail, PinLow, WaitForCmd, Gather, Answer, PinHigh, WaitForEnd, Keep
    <2>11. CASE QueryAnswer \/ OnA2DPProfileChange \/ TrackChanged
      BY <2>3, <2>4, <2>11 DEF QueryAnswer, AskAgain, OnA2DPProfileChange, SendAVCRP, TrackChanged, Commands
    <2>12. CASE OnSerialRX \/ Obey \/ Boot \/ Phone
      BY <2>4, <2>12 DEF OnSerialRX, Obey, Boot, Phone, Module, driverVars
    <2>13. QED
      BY <2>1, <2>6, <2>7, <2>8, <2>9, <2>10, <2>11, <2>12 DEF Next, Run
  <1>2. QED
    BY <1>1, DriverInvariance, PTL DEF Spec, Safe, SentInOrder
=============================================================================
