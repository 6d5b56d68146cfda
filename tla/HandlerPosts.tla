---------------------------- MODULE HandlerPosts ----------------------------
(***************************************************************************)
(* What the interrupt handlers post, by what comes in: the sequence of     *)
(* their entries in the kernel's request FIFO, "command" for one to the    *)
(* RN52 thread and "other" for a signal or a mail.  A frame of the         *)
(* changer's control ID goes to two handlers, Buttons and CDCStatus, in    *)
(* the order in which they were attached.                                  *)
(***************************************************************************)
EXTENDS Naturals, Sequences, FiniteSets, TLC

Signal == <<"other">>
Command == <<"command">>

(* SaabCan::sendCanFrame and SerialLog::log from a handler: a mail, or     *)
(* nothing when their pool is empty.                                       *)
Mail == {<<>>, <<"other">>}

(* What is posted when first one and then another piece of code runs, each *)
(* with the alternatives it has.                                           *)
Then(first, second) == {f \o s : f \in first, s \in second}

(* RN52::sendAVCRP *)
Avcrp(connected) == IF connected THEN Command ELSE <<>>

-----------------------------------------------------------------------------
Codes1 == (\h59 :> "NXT") @@ (\h45 :> "SEEK_PLUS_LONG") @@ (\h46 :> "SEEK_MINUS_LONG")
          @@ (\h84 :> "SEEK_MIDDLE_LONG") @@ (\h88 :> "SEEK_MIDDLE_EXTRA_LONG")
          @@ (\h76 :> "RANDOM") @@ (\hB1 :> "PAUSE_ON") @@ (\hB0 :> "PAUSE_OFF")
          @@ (\h35 :> "TRACK_PLUS") @@ (\h36 :> "TRACK_MINUS")
Preset == \h68
Presets == <<"IHU1", "IHU2", "IHU3", "IHU4", "IHU5", "IHU6">>

Decode(data1, data2) ==
  IF data1 \in DOMAIN Codes1 THEN Codes1[data1]
  ELSE IF data1 = Preset /\ data2 \in DOMAIN Presets THEN Presets[data2]
  ELSE "NONE"

(* The buttons that need a phone, and those that do not.                   *)
Playing == {"NXT", "TRACK_PLUS", "TRACK_MINUS", "IHU4", "IHU5"}
Linking == {"IHU1", "SEEK_MIDDLE_EXTRA_LONG", "IHU3", "IHU6"}

(* Buttons::onFrame: the signal of requestDriverBreakthrough, then the call *)
OnButton(data, connected) ==
  LET button == Decode(data[2], data[3])
  IN IF data[1] # \h80 \/ button = "NONE" THEN <<>>
     ELSE Signal \o (IF button \in Playing THEN Avcrp(connected)
                     ELSE IF button \in Linking THEN Command ELSE <<>>)

(* CDCStatus::onCDCControlFrame.  On: activate(), the beep, the status     *)
(* thread, connectable() and reconnect(); off: deactivate(), the status    *)
(* thread, disconnect().                                                   *)
OnControl(data) ==
  IF data[1] # \h80 THEN {<<>>}
  ELSE IF data[2] = \h24 THEN Then(Then({Signal}, Mail), {Signal \o Command \o Command})
  ELSE IF data[2] = \h14 THEN {Signal \o Signal \o Command}
  ELSE {<<>>}

(* CDCStatus::onIhuStatusFrame *)
OnPoll(data) == IF data[4] % 16 \in {3, 2, 8} THEN Signal ELSE <<>>

(* SidResource::grantReceived and ihuRequestReceived *)
SidFunction == \h12
OnGrant(data, wanted) == IF wanted /\ data[1] = 2 /\ data[2] = SidFunction THEN Signal ELSE <<>>
OnRequest(data, wanted) == IF wanted /\ data[3] \in {3, 5} THEN Signal ELSE <<>>

(* SaabCan::onRx with one frame *)
OnRx(id, data, connected, wanted) ==
  CASE id = "CDC_CONTROL" -> Then({OnButton(data, connected)}, OnControl(data))
    [] id = "NODE_STATUS_RX_IHU" -> {OnPoll(data)}
    [] id = "DISPLAY_RESOURCE_GRANT" -> {OnGrant(data, wanted)}
    [] id = "IHU_DISPLAY_RESOURCE_REQ" -> {OnRequest(data, wanted)}
    [] OTHER -> {<<>>}

-----------------------------------------------------------------------------
(* RN52::onGPIO2; RN52::getTrackData, called by the Timeout; SerialRX      *)
OnGPIO2 == {Command}
OnTimeout == {Command}
OnLine == Mail

(* Bluetooth::handleDebugChar: a command and a line of the log, the help   *)
(* (one line), or the six lines of the bus's health.                       *)
AvcrpKeys == {"P", "N", "R", "A"}
CommandKeys == {"V", "I", "C", "D", "B", "d", "u"}
OnKey(key, connected) ==
  CASE key \in AvcrpKeys -> Then({Avcrp(connected)}, Mail)
    [] key \in CommandKeys -> Then({Command}, Mail)
    [] key = "H" -> Mail
    [] key = "E" -> Then(Then(Then(Mail, Mail), Then(Mail, Mail)), Then(Mail, Mail))
    [] OTHER -> {<<>>}
=============================================================================
