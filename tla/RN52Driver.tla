----------------------------- MODULE RN52Driver -----------------------------
(***************************************************************************)
(* The RN52 thread (common/RN52.cpp) between its command queue, the serial *)
(* line (common/SerialRX.cpp) and the Bluetooth module.  The thread takes  *)
(* a command, pulls the command pin low, waits for "CMD", sends commands   *)
(* until none comes for 500 ms, and lets the pin go.  The module tells of  *)
(* a change by a pulse on GPIO2, whose handler queues a Q; the answer to Q *)
(* says whether a phone is connected.                                      *)
(*                                                                         *)
(* The queue is the FIFO channel RN52Queue is shown to implement.  The     *)
(* module is modelled from what the driver relies on.                      *)
(***************************************************************************)
EXTENDS Naturals, Sequences

CONSTANTS
  Limit,      \* commands the queue accepts, 18
  RxBoxes,    \* Mail<RXEntry, 4>
  Lines,      \* 40, lines gathered at most of one response
  TextLines,  \* bound of the module: lines of a response to AD, D or V; a
              \* longer one than Lines would be taken for the next answer
  MaxChanges, \* bounds of the model: changes of the connection,
  MaxPresses, \* commands by buttons and console,
  MaxReboots, \* reboots by the console,
  MaxGarbled  \* and garbled answers to Q

ASSUME RN52DriverAssumption ==
  /\ Limit \in Nat \ {0} /\ RxBoxes \in Nat \ {0, 1}
  /\ Lines \in Nat \ {0} /\ TextLines \in 0 .. Lines
  /\ MaxChanges \in Nat /\ MaxPresses \in Nat
  /\ MaxReboots \in Nat /\ MaxGarbled \in Nat

(* "gather": AD, D and V, whose responses are read until a timeout.        *)
Commands == {"Q", "gather", "reboot", "other"}
Answers == {"CMD", "END", "AOK", "text", "garbled", "on", "off"}

VARIABLES
  main,     \* where the main thread stands in RN52::initialize
  rtosQueue,
  a2dpConnected,
  at,       \* where the RN52 thread stands
  evt,      \* the command fetched and not sent yet, at most one
  cmd,      \* the command being processed
  lines,    \* lines of its response
  changed,  \* parseQResponse: the connection is not as it was
  attached, \* bt_event_pin.fall is set
  timer,    \* the timeout of onA2DPProfileChange is running
  mail,     \* received lines in rx_mail_box
  rx,       \* lines on their way from the module
  wire,     \* commands and edges of the pin on their way to it
  mode,     \* the module: "data", "command", or "down" while it boots
  connected,\* a phone is connected
  pulse,    \* a falling edge of GPIO2 is pending
  rebooted, \* the module went down since the driver last pulled the pin
  strayed,  \* a command reached the module in data mode otherwise
  doubtful, \* a Q was refused by the queue, overtaken by a reboot or lost on a
            \* module that went down, or a reboot was refused, and since then
            \* no Q was accepted
  used      \* how much of each bound is used

driverVars == <<at, evt, cmd, lines, changed>>
moduleVars == <<mode, connected, strayed>>
ghostVars == <<rebooted, strayed, doubtful>>
vars == <<main, rtosQueue, a2dpConnected, driverVars, attached, timer, mail, rx, wire,
          mode, connected, pulse, ghostVars, used>>

Init ==
  /\ main = "start" /\ rtosQueue = <<>> /\ a2dpConnected = FALSE
  /\ at = "stopped" /\ evt = <<>> /\ cmd = "other" /\ lines = 0 /\ changed = FALSE
  /\ attached = FALSE /\ timer = FALSE
  /\ mail = <<>> /\ rx = <<>> /\ wire = <<>>
  /\ mode = "data" /\ connected \in BOOLEAN /\ pulse = FALSE
  /\ rebooted = FALSE /\ strayed = FALSE /\ doubtful = FALSE
  /\ used = [changes |-> 0, presses |-> 0, reboots |-> 0, garbled |-> 0]

Count(bound, max) == used[bound] < max /\ used' = [used EXCEPT ![bound] = @ + 1]

(* queueCommand, as RN52Queue!ImplementsChannel has it.                    *)
Post(c) ==
  IF Len(rtosQueue) < Limit
  THEN rtosQueue' = Append(rtosQueue, c) /\ doubtful' = (doubtful /\ c # "Q")
  ELSE doubtful' = (doubtful \/ c = "Q") /\ UNCHANGED rtosQueue

-----------------------------------------------------------------------------
(* RN52::initialize, in the main thread                                    *)

Start ==
  /\ main = "start" /\ main' = "reboot"
  /\ at' = "idle"
  /\ Post("other")
  /\ UNCHANGED <<a2dpConnected, evt, cmd, lines, changed, attached, timer, mail, rx, wire,
                 moduleVars, pulse, rebooted, used>>

(* No Q is on its way, to the module or back.                              *)
Queued(c) == evt = <<c>> \/ \E i \in DOMAIN rtosQueue : rtosQueue[i] = c
NoQuery == ~pulse /\ ~Queued("Q") /\ ~(at = "answer" /\ cmd = "Q")

(* RN52::reboot *)
RebootModule ==
  /\ a2dpConnected' = FALSE
  /\ IF Len(rtosQueue) < Limit
     THEN rtosQueue' = Append(rtosQueue, "reboot") /\ doubtful' = (doubtful \/ ~NoQuery)
     ELSE doubtful' = TRUE /\ UNCHANGED rtosQueue
  /\ UNCHANGED <<driverVars, attached, timer, mail, rx, wire, moduleVars, pulse, rebooted>>

ConfigureReboot == main = "reboot" /\ main' = "booting" /\ RebootModule /\ UNCHANGED used

(* Thread::wait(5000) is over.  It is taken to be long enough for the      *)
(* configuration to be sent and the module to boot.                        *)
BootedInTime == at = "idle" /\ ~Queued("reboot") /\ mode = "data"
QueryVersion ==
  /\ main = "booting" /\ BootedInTime /\ main' = "attach"
  /\ Post("gather")
  /\ UNCHANGED <<a2dpConnected, driverVars, attached, timer, mail, rx, wire, moduleVars,
                 pulse, rebooted, used>>

Attach ==
  /\ main = "attach" /\ main' = "query"
  /\ attached' = TRUE
  /\ UNCHANGED <<rtosQueue, a2dpConnected, driverVars, timer, mail, rx, wire, mode, connected,
                 pulse, ghostVars, used>>

TrustState == UNCHANGED <<rtosQueue, doubtful>>
QueryState == Post("Q")
InitialQuery ==
  /\ main = "query" /\ main' = "ready"
  /\ QueryState
  /\ UNCHANGED <<a2dpConnected, driverVars, attached, timer, mail, rx, wire, moduleVars,
                 pulse, rebooted, used>>

-----------------------------------------------------------------------------
(* Buttons, console, GPIO2 and the timer, in handlers                      *)

Handler == UNCHANGED <<main, driverVars, attached, mail, rx, wire, moduleVars, rebooted>>

(* A command of a button or of the console: details are gathered too.      *)
Press ==
  /\ Count("presses", MaxPresses)
  /\ \E c \in {"other", "gather"} : Post(c)
  /\ Handler /\ UNCHANGED <<a2dpConnected, timer, pulse>>

(* sendAVCRP *)
SendAVCRP == IF a2dpConnected THEN Post("other") ELSE UNCHANGED <<rtosQueue, doubtful>>

ConsoleReboot ==
  /\ main = "ready" /\ Count("reboots", MaxReboots)
  /\ RebootModule
  /\ UNCHANGED main

OnGPIO2 ==
  /\ pulse /\ pulse' = FALSE
  /\ Post("Q")
  /\ Handler /\ UNCHANGED <<a2dpConnected, timer, used>>

GetTrackDataLater ==
  /\ timer /\ timer' = FALSE
  /\ Post("gather")
  /\ Handler /\ UNCHANGED <<a2dpConnected, pulse, used>>

-----------------------------------------------------------------------------
(* RN52::run.  A step of the thread leaves all this alone:                 *)
Thread == UNCHANGED <<main, attached, connected, mode, pulse, strayed, used>>

(* get(), or the command that could not be sent is still there.            *)
Get ==
  /\ at = "idle"
  /\ IF evt = <<>>
     THEN rtosQueue # <<>> /\ evt' = <<Head(rtosQueue)>> /\ rtosQueue' = Tail(rtosQueue)
     ELSE UNCHANGED <<evt, rtosQueue>>
  /\ at' = "clear"
  /\ Thread /\ UNCHANGED <<a2dpConnected, cmd, lines, changed, timer, mail, rx, wire, rebooted, doubtful>>

ClearRXMail ==
  /\ at = "clear" /\ at' = "low"
  /\ mail' = <<>>
  /\ Thread /\ UNCHANGED <<rtosQueue, a2dpConnected, evt, cmd, lines, changed, timer, rx, wire,
                           rebooted, doubtful>>

PinLow ==
  /\ at = "low" /\ at' = "cmd_wait"
  /\ wire' = Append(wire, "low")
  /\ rebooted' = FALSE
  /\ Thread /\ UNCHANGED <<rtosQueue, a2dpConnected, evt, cmd, lines, changed, timer, mail, rx, doubtful>>

(* waitForRXLine: a line, or a timeout.  The timeouts, 100 and 500 ms, are *)
(* taken to be longer than the module needs for an answer it will give.    *)
TimedOut == mail = <<>> /\ wire = <<>> /\ rx = <<>>
Line(line) == mail # <<>> /\ line = Head(mail) /\ mail' = Tail(mail)

TimeoutIsCmd == "session"
WaitOn == "cmd_wait"
NoCmd == "leave"
Forget == <<>>
Keep == evt
WaitForCmd ==
  /\ at = "cmd_wait"
  /\ \/ Line("CMD") /\ at' = "session" /\ UNCHANGED evt
     \/ \E line \in Answers \ {"CMD"} : Line(line) /\ at' = "leave" /\ evt' = Keep
     \/ TimedOut /\ at' = NoCmd /\ evt' = Keep /\ UNCHANGED mail
  /\ Thread /\ UNCHANGED <<rtosQueue, a2dpConnected, cmd, lines, changed, timer, rx, wire, rebooted, doubtful>>

(* processCommand: serial.puts *)
SendCommand ==
  /\ at = "session"
  /\ cmd' = evt[1] /\ evt' = <<>>
  /\ wire' = Append(wire, cmd')
  /\ lines' = 0
  /\ at' = IF cmd' = "gather" THEN "gather" ELSE "answer"
  /\ Thread /\ UNCHANGED <<rtosQueue, a2dpConnected, changed, timer, mail, rx, rebooted, doubtful>>

(* Track data, details and version: lines until none comes for 100 ms.     *)
Gather ==
  /\ at = "gather"
  /\ \/ /\ lines < Lines
        /\ \E line \in Answers : Line(line)
        /\ lines' = lines + 1 /\ UNCHANGED at
     \/ /\ lines = Lines \/ TimedOut
        /\ at' = "get" /\ UNCHANGED <<lines, mail>>
  /\ Thread /\ UNCHANGED <<rtosQueue, a2dpConnected, evt, cmd, changed, timer, rx, wire, rebooted, doubtful>>

(* The one line that answers any other command.                            *)
Answer ==
  /\ at = "answer" /\ cmd # "Q"
  /\ (\E line \in Answers : Line(line)) \/ (TimedOut /\ UNCHANGED mail)
  /\ at' = "get"
  /\ Thread /\ UNCHANGED <<rtosQueue, a2dpConnected, evt, cmd, lines, changed, timer, rx, wire,
                           rebooted, doubtful>>

AskNoMore == UNCHANGED <<rtosQueue, doubtful>>
AskAgain == Post("Q")
(* The answer to Q: parseQResponse, or Q again when it is not one.         *)
QueryAnswer ==
  /\ at = "answer" /\ cmd = "Q"
  /\ \/ \E line \in {"on", "off"} :
          /\ Line(line)
          /\ a2dpConnected' = (line = "on")
          /\ changed' = (a2dpConnected # a2dpConnected')
          /\ at' = "parsed" /\ UNCHANGED <<rtosQueue, doubtful>>
     \/ /\ \E line \in Answers \ {"on", "off"} : Line(line)
        /\ AskAgain
        /\ at' = "get" /\ UNCHANGED <<a2dpConnected, changed>>
     \/ /\ TimedOut /\ at' = "get" /\ UNCHANGED <<mail, rtosQueue, doubtful, a2dpConnected, changed>>
  /\ Thread /\ UNCHANGED <<evt, cmd, lines, timer, rx, wire, rebooted>>

(* onA2DPProfileChange reads a2dpConnected anew ...                        *)
OnA2DPProfileChange ==
  /\ at = "parsed" /\ at' = "track"
  /\ IF changed /\ a2dpConnected THEN SendAVCRP /\ timer' = TRUE
                                 ELSE UNCHANGED <<rtosQueue, doubtful, timer>>
  /\ Thread /\ UNCHANGED <<a2dpConnected, evt, cmd, lines, changed, mail, rx, wire, rebooted>>

(* ... and the answer may say that the track changed.                      *)
TrackChanged ==
  /\ at = "track" /\ at' = "get"
  /\ Post("gather") \/ UNCHANGED <<rtosQueue, doubtful>>
  /\ Thread /\ UNCHANGED <<a2dpConnected, evt, cmd, lines, changed, timer, mail, rx, wire, rebooted>>

(* get(500) *)
GetNext ==
  /\ at = "get"
  /\ IF rtosQueue # <<>>
     THEN evt' = <<Head(rtosQueue)>> /\ rtosQueue' = Tail(rtosQueue) /\ at' = "session"
     ELSE at' = "leave" /\ UNCHANGED <<evt, rtosQueue>>
  /\ Thread /\ UNCHANGED <<a2dpConnected, cmd, lines, changed, timer, mail, rx, wire, rebooted, doubtful>>

PinHigh ==
  /\ at = "leave" /\ at' = "end_wait"
  /\ wire' = Append(wire, "high")
  /\ Thread /\ UNCHANGED <<rtosQueue, a2dpConnected, evt, cmd, lines, changed, timer, mail, rx,
                           rebooted, doubtful>>

WaitForEnd ==
  /\ at = "end_wait" /\ at' = "idle"
  /\ (\E line \in Answers : Line(line)) \/ (TimedOut /\ UNCHANGED mail)
  /\ Thread /\ UNCHANGED <<rtosQueue, a2dpConnected, evt, cmd, lines, changed, timer, rx, wire,
                           rebooted, doubtful>>

-----------------------------------------------------------------------------
(* SerialRX::onSerialRX: without a free box the line is dropped and its    *)
(* box reused.  One box is always the one being filled.                    *)
BoxFree == Len(mail) < RxBoxes - 1
OnSerialRX ==
  /\ rx # <<>> /\ rx' = Tail(rx)
  /\ mail' = IF BoxFree THEN Append(mail, Head(rx)) ELSE mail
  /\ UNCHANGED <<main, rtosQueue, a2dpConnected, driverVars, attached, timer, wire, mode,
                 connected, pulse, ghostVars, used>>

(* The module.                                                             *)
Module == UNCHANGED <<main, rtosQueue, a2dpConnected, driverVars, attached, timer, mail>>

Respond(c) ==
  CASE c = "Q" -> {<<IF connected THEN "on" ELSE "off">>}
                  \cup (IF used.garbled < MaxGarbled THEN {<<"garbled">>} ELSE {})
    [] c = "gather" -> {[i \in 1 .. n |-> "text"] : n \in 0 .. TextLines}
    [] OTHER -> {<<"AOK">>}

Obey ==
  /\ wire # <<>> /\ wire' = Tail(wire)
  /\ LET c == Head(wire)
         Lost == doubtful' = (doubtful \/ c = "Q")
     IN CASE mode = "down" -> Lost /\ UNCHANGED <<rx, mode, connected, rebooted, strayed, used>>
          [] mode # "down" /\ c = "low" ->
               /\ rx' = IF mode = "data" THEN Append(rx, "CMD") ELSE rx
               /\ mode' = "command"
               /\ UNCHANGED <<connected, ghostVars, used>>
          [] mode # "down" /\ c = "high" ->
               /\ rx' = IF mode = "command" THEN Append(rx, "END") ELSE rx
               /\ mode' = "data"
               /\ UNCHANGED <<connected, ghostVars, used>>
          [] mode = "data" /\ c \in Commands ->
               /\ strayed' = (strayed \/ ~rebooted) /\ Lost
               /\ UNCHANGED <<rx, mode, connected, rebooted, used>>
          [] OTHER ->
               /\ \E answer \in Respond(c) :
                    /\ rx' = rx \o answer
                    /\ IF answer = <<"garbled">> THEN Count("garbled", MaxGarbled) ELSE UNCHANGED used
               /\ IF c = "reboot" THEN mode' = "down" /\ connected' = FALSE /\ rebooted' = TRUE
                                  ELSE UNCHANGED <<mode, connected, rebooted>>
               /\ UNCHANGED <<strayed, doubtful>>
  /\ Module /\ UNCHANGED pulse

Boot ==
  /\ mode = "down" /\ mode' = "data"
  /\ Module /\ UNCHANGED <<rx, wire, connected, pulse, ghostVars, used>>

(* A phone connects or disconnects; the pulse is seen once the handler is  *)
(* attached.                                                               *)
Phone ==
  /\ mode # "down" /\ Count("changes", MaxChanges)
  /\ connected' = ~connected
  /\ pulse' = (pulse \/ attached)
  /\ Module /\ UNCHANGED <<rx, wire, mode, ghostVars>>

-----------------------------------------------------------------------------
Initialize == Start \/ ConfigureReboot \/ QueryVersion \/ Attach \/ InitialQuery
Handlers == Press \/ ConsoleReboot \/ OnGPIO2 \/ GetTrackDataLater
Run == \/ Get \/ ClearRXMail \/ PinLow \/ WaitForCmd \/ SendCommand \/ Gather \/ Answer
       \/ QueryAnswer \/ OnA2DPProfileChange \/ TrackChanged \/ GetNext \/ PinHigh \/ WaitForEnd

Next == Initialize \/ Handlers \/ Run \/ OnSerialRX \/ Obey \/ Boot \/ Phone
Safe == Init /\ [][Next]_vars

(* The threads and handlers of the unit run; the module obeys and boots.   *)
Spec == Safe /\ WF_vars(Initialize) /\ WF_vars(OnGPIO2) /\ WF_vars(GetTrackDataLater)
             /\ WF_vars(Run) /\ WF_vars(OnSerialRX) /\ WF_vars(Obey) /\ WF_vars(Boot)
-----------------------------------------------------------------------------
RebootOnItsWay == Queued("reboot") \/ \E i \in DOMAIN wire : wire[i] = "reboot"
Settled == main = "ready" /\ NoQuery /\ ~RebootOnItsWay /\ ~doubtful

(* Once no query is under way, the driver's idea of the connection, which  *)
(* the AVCRP buttons depend on, is the module's: also when the connection  *)
(* changed while the module booted, while a Q was being answered, or when  *)
(* an answer was garbled.  It is in doubt after a Q that was lost.         *)
StateFollowsModule == Settled => a2dpConnected = connected

(* A command goes to the module in command mode, never down the data       *)
(* channel, unless the module went down after it had said CMD.             *)
NeverStrays == ~strayed

(* Commands are sent in the order they were accepted in, each once, and a  *)
(* command is kept through failed attempts until the module has said CMD   *)
(* ("a command we haven't sent yet").                                      *)
Unsent == evt \o rtosQueue
SentInOrder ==
  [][\/ Unsent' = Unsent
     \/ \E c \in Commands : Unsent' = Append(Unsent, c)
     \/ /\ Unsent # <<>> /\ Unsent' = Tail(Unsent)
        /\ wire' = Append(wire, Head(Unsent))]_vars

(* "don't leave a2dpConnected stale-true until the next GPIO2 pulse": with *)
(* no query under way, it is not true of a module that lost the phone.     *)
RebootLeavesNothingStale == main = "ready" /\ NoQuery => (a2dpConnected => connected)

(* Every accepted command is sent, through boots and garbled answers.      *)
EveryCommandSent == Unsent # <<>> ~> Unsent = <<>>

(* A connection that lasts is noticed, unless the Q for it was lost.       *)
ConnectionNoticed ==
  \A c \in BOOLEAN :
    connected = c /\ main = "ready" ~> a2dpConnected = c \/ connected # c \/ doubtful
=============================================================================
