--------------------------- MODULE MessageHandler ---------------------------
(***************************************************************************)
(* network_message_handler and apply_default_settings (protocol.c), as     *)
(* task_winc runs them: first on the message restored from the flash       *)
(* memory, then on each message that a socket callback hands over.  The    *)
(* task handles one message at a time.                                     *)
(*                                                                         *)
(* winc names the next point where the task touches something that lives   *)
(* longer than the call: a queue, the Wi-Fi module, the flash memory or    *)
(* the settings in RAM.                                                    *)
(***************************************************************************)
EXTENDS RobotQueues

CONSTANTS
  Unset,         \* a byte of the stack that was not written yet
  RawSetting,    \* what strtol leaves in an int8_t: -1 stands for "not given"
  Messages       \* the messages that may arrive, or be found in the flash

\* A token of a control message: the tag it holds, and the value after ":".
\* The command specifier "CMD*CT" is a token too: it is of tag "other".
Token == [tag : {"X", "Y", "Pwr", "Agl", "other"}, val : Coord]

ControlMessage == [cmd : {"control"}, tokens : Seq(Token)]

SettingsMessage ==
  [cmd : {"settings"}, name : Name \cup {NoName},
   power : RawSetting, assisted : RawSetting, video : Video]

\* Neither CMD_CONTROL nor CMD_SETTINGS is in the packet.
OtherMessage == [cmd |-> "other"]

ASSUME HandlerAssumption ==
  /\ Unset \notin Coord
  /\ RawSetting \subseteq -128 .. 127
  /\ Messages \subseteq ControlMessage \cup SettingsMessage \cup {OtherMessage}

VARIABLES
  winc,         \* where task_winc is
  booting,      \* the message in hand comes from the flash memory
  msg,          \* the message in hand
  tokens,       \* what strtok has not returned yet
  coords,       \* coords
  powerAng,     \* power_ang
  validCoords,  \* uValidCoords
  validPowerAng,\* uValidPowerAng
  result,       \* error, the value to return
  deviceName,   \* device_name
  current,      \* iPower_save_mode, iAssisted_drive_mode, uiVideo_quality
  stored        \* the message in the flash memory

localVars == <<msg, tokens, coords, powerAng, validCoords, validPowerAng>>
deviceVars == <<deviceName, current, stored>>
handlerVars == <<winc, booting, result, localVars, deviceVars>>

Result == {"PARSER_SUCCESS", "PARSER_ERROR", "CONTROL_INPUT_ERROR",
           "SETTINGS_ERROR"}

WincPc == {"boot", "idle", "token", "reset", "send", "device", "persist",
           "nameReset", "nameSend", "settingsReset", "settingsSend", "return",
           "defaultsReset", "defaultsSend", "hung"}

\* All four settings have been parsed.
Complete(m) ==
  m.name # NoName /\ m.assisted >= 0 /\ m.power >= 0 /\ m.video >= 0

\* What a local of two bytes holds before anything is assigned to it.
Blank == <<Unset, Unset>>

InitHandler ==
  /\ winc = "boot"
  /\ booting = TRUE
  /\ msg = OtherMessage
  /\ tokens = <<>>
  /\ coords = Blank /\ powerAng = Blank
  /\ validCoords = 0 /\ validPowerAng = 0
  /\ result = "PARSER_ERROR"
  /\ deviceName = NoName
  /\ current = NoSettings
  /\ stored \in {OtherMessage}
                 \cup {m \in Messages : m.cmd = "settings" /\ Complete(m)}

-----------------------------------------------------------------------------
(* Entering the handler. *)

\* The code reached by the first tests of the handler, up to its first effect.
FirstStep(m) ==
  CASE m.cmd = "control" -> "token"
    [] m.cmd = "settings" -> IF Complete(m) THEN "device" ELSE "return"
    [] OTHER -> "return"

Enter(m) ==
  /\ msg' = m
  /\ tokens' = IF m.cmd = "control" THEN m.tokens ELSE <<>>
  /\ coords' = Blank
  /\ powerAng' = Blank
  /\ validCoords' = 0
  /\ validPowerAng' = 0
  /\ result' = IF m.cmd = "settings" /\ ~Complete(m) THEN "SETTINGS_ERROR"
                                                    ELSE "PARSER_ERROR"
  /\ winc' = FirstStep(m)
  /\ UNCHANGED <<booting, deviceVars, queueVars>>

\* The flash memory is read before Wi-Fi is started.
Boot == winc = "boot" /\ Enter(stored)

Receive(m) == winc = "idle" /\ m \in Messages /\ Enter(m)

-----------------------------------------------------------------------------
(* A control message: each token is recorded, then the queue is refreshed. *)

ParseToken ==
  /\ winc = "token"
  /\ tokens # <<>>
  /\ LET t == Head(tokens) IN
       /\ coords' = CASE t.tag = "X" -> [coords EXCEPT ![1] = t.val]
                      [] t.tag = "Y" -> [coords EXCEPT ![2] = t.val]
                      [] OTHER -> coords
       /\ powerAng' = CASE t.tag = "Pwr" -> [powerAng EXCEPT ![1] = t.val]
                        [] t.tag = "Agl" -> [powerAng EXCEPT ![2] = t.val]
                        [] OTHER -> powerAng
       /\ validCoords' = validCoords + (IF t.tag \in {"X", "Y"} THEN 1 ELSE 0)
       /\ validPowerAng' = validPowerAng
                             + (IF t.tag \in {"Pwr", "Agl"} THEN 1 ELSE 0)
  /\ tokens' = Tail(tokens)
  /\ winc' = "reset"
  /\ UNCHANGED <<booting, msg, result, deviceVars, queueVars>>

\* Mutant: the queue is written without being cleared first.
NoReset ==
  /\ winc = "reset"
  /\ IF validCoords = 2 \/ validPowerAng = 2
       THEN winc' = "send" /\ UNCHANGED result
       ELSE winc' = "token" /\ result' = "CONTROL_INPUT_ERROR"
  /\ UNCHANGED <<booting, localVars, deviceVars, queueVars>>

ResetControlQueue ==
  /\ winc = "reset"
  /\ controlQueue' = QueueReset
  /\ IF validCoords = 2 \/ validPowerAng = 2
       THEN winc' = "send" /\ UNCHANGED result
       ELSE winc' = "token" /\ result' = "CONTROL_INPUT_ERROR"
  /\ UNCHANGED <<booting, localVars, deviceVars, settingsQueue, nameQueue>>

\* What may be read from a pair of bytes: a byte nobody wrote may be anything.
Read(pair) ==
  {item \in ControlItem : \A i \in 1 .. 2 : pair[i] # Unset => item[i] = pair[i]}

\* Mutant: the pair that was not counted is sent.
SendOtherPair ==
  /\ winc = "send"
  /\ \E item \in Read(IF validCoords = 2 THEN powerAng ELSE coords) :
       controlQueue' = SendToBack(controlQueue, item)
  /\ result' = IF CanSend(controlQueue) THEN "PARSER_SUCCESS" ELSE result
  /\ winc' = "token"
  /\ UNCHANGED <<booting, localVars, deviceVars, settingsQueue, nameQueue>>

SendControl ==
  /\ winc = "send"
  /\ \E item \in Read(IF validCoords = 2 THEN coords ELSE powerAng) :
       controlQueue' = SendToBack(controlQueue, item)
  /\ result' = IF CanSend(controlQueue) THEN "PARSER_SUCCESS" ELSE result
  /\ winc' = "token"
  /\ UNCHANGED <<booting, localVars, deviceVars, settingsQueue, nameQueue>>

NoMoreTokens ==
  /\ winc = "token"
  /\ tokens = <<>>
  /\ winc' = "return"
  /\ UNCHANGED <<booting, result, localVars, deviceVars, queueVars>>

-----------------------------------------------------------------------------
(* A complete settings message. *)

Enabled(raw) == IF raw > 0 THEN 1 ELSE -1

\* Mutant: the numbers of the message are used as they are.
RawSettings(m) == [power |-> m.power, assisted |-> m.assisted,
                   video |-> m.video]

SettingsOf(m) == [power |-> Enabled(m.power), assisted |-> Enabled(m.assisted),
                  video |-> m.video]

\* wifi_set_device_name tells the Wi-Fi module only about a new name.
SetDeviceName ==
  /\ winc = "device"
  /\ deviceName' = msg.name
  /\ result' = "PARSER_SUCCESS"
  /\ winc' = "persist"
  /\ UNCHANGED <<booting, localVars, current, stored, queueVars>>

\* The Wi-Fi module refuses the name: the task spins for ever.
DeviceNameRefused ==
  /\ winc = "device"
  /\ msg.name # deviceName
  /\ winc' = "hung"
  /\ UNCHANGED <<booting, result, localVars, deviceVars, queueVars>>

\* Mutant: one global is assigned from the value meant for the other.
MixUpSettings ==
  /\ winc = "persist"
  /\ stored' \in {msg, stored, OtherMessage}
  /\ current' = [SettingsOf(msg) EXCEPT !.assisted = Enabled(msg.power)]
  /\ winc' = "nameReset"
  /\ UNCHANGED <<booting, result, localVars, deviceName, queueVars>>

\* The outcome of nand_flash_storage_write is not looked at: the flash may
\* hold the message, what it held before, or nothing the handler can read.
PersistSettings ==
  /\ winc = "persist"
  /\ stored' \in {msg, stored, OtherMessage}
  /\ current' = SettingsOf(msg)
  /\ winc' = "nameReset"
  /\ UNCHANGED <<booting, result, localVars, deviceName, queueVars>>

\* Mutant: the old name is left in the queue.
KeepName ==
  /\ winc = "nameReset"
  /\ winc' = "nameSend"
  /\ UNCHANGED <<booting, result, localVars, deviceVars, queueVars>>

ResetNameQueue ==
  /\ winc = "nameReset"
  /\ nameQueue' = QueueReset
  /\ winc' = "nameSend"
  /\ UNCHANGED <<booting, result, localVars, deviceVars, controlQueue,
                 settingsQueue>>

SendName ==
  /\ winc = "nameSend"
  /\ nameQueue' = SendToBack(nameQueue, msg.name)
  /\ result' = IF CanSend(nameQueue) THEN "PARSER_SUCCESS" ELSE "PARSER_ERROR"
  /\ winc' = "settingsReset"
  /\ UNCHANGED <<booting, localVars, deviceVars, controlQueue, settingsQueue>>

\* In the handler, and in apply_default_settings.
ResetSettingsQueue ==
  /\ winc \in {"settingsReset", "defaultsReset"}
  /\ settingsQueue' = QueueReset
  /\ winc' = IF winc = "settingsReset" THEN "settingsSend" ELSE "defaultsSend"
  /\ UNCHANGED <<booting, result, localVars, deviceVars, controlQueue,
                 nameQueue>>

SendSettings ==
  /\ winc = "settingsSend"
  /\ settingsQueue' = SendToBack(settingsQueue, SettingsOf(msg))
  /\ result' = IF CanSend(settingsQueue) THEN "PARSER_SUCCESS"
                                         ELSE "PARSER_ERROR"
  /\ winc' = "return"
  /\ UNCHANGED <<booting, localVars, deviceVars, controlQueue, nameQueue>>

-----------------------------------------------------------------------------
(* Leaving the handler; the defaults of a robot that restored nothing. *)

\* The locals of a call mean nothing once its result has been used.
ForgetLocals ==
  /\ msg' = OtherMessage /\ tokens' = <<>>
  /\ coords' = Blank /\ powerAng' = Blank
  /\ validCoords' = 0 /\ validPowerAng' = 0
  /\ result' = "PARSER_ERROR"

\* The caller has turned the result into an ACK, a NACK, or nothing.
Return ==
  /\ winc = "return"
  /\ booting => result = "PARSER_SUCCESS"
  /\ winc' = "idle"
  /\ booting' = FALSE
  /\ ForgetLocals
  /\ UNCHANGED <<deviceVars, queueVars>>

\* Nothing restored: task_winc assigns the defaults and queues them.
UseDefaults ==
  /\ winc = "return"
  /\ booting
  /\ result # "PARSER_SUCCESS"
  /\ current' = DefaultSettings
  /\ winc' = "defaultsReset"
  /\ UNCHANGED <<booting, result, localVars, deviceName, stored, queueVars>>

\* apply_default_settings fails on a full queue, and the task then spins.
SendDefaults ==
  /\ winc = "defaultsSend"
  /\ settingsQueue' = SendToBack(settingsQueue, DefaultSettings)
  /\ winc' = IF CanSend(settingsQueue) THEN "idle" ELSE "hung"
  /\ booting' = FALSE
  /\ ForgetLocals
  /\ UNCHANGED <<deviceVars, controlQueue, nameQueue>>

-----------------------------------------------------------------------------
HandlerStep ==
  \/ Boot
  \/ ParseToken \/ ResetControlQueue \/ SendControl \/ NoMoreTokens
  \/ SetDeviceName \/ DeviceNameRefused \/ PersistSettings
  \/ ResetNameQueue \/ SendName \/ ResetSettingsQueue \/ SendSettings
  \/ Return \/ UseDefaults \/ SendDefaults

HandlerTypeOK ==
  /\ winc \in WincPc
  /\ booting \in BOOLEAN
  /\ msg \in ControlMessage \cup SettingsMessage \cup {OtherMessage}
  /\ tokens \in Seq(Token)
  /\ coords \in (Coord \cup {Unset}) \X (Coord \cup {Unset})
  /\ powerAng \in (Coord \cup {Unset}) \X (Coord \cup {Unset})
  /\ validCoords \in Nat
  /\ validPowerAng \in Nat
  /\ result \in Result
  /\ deviceName \in Name \cup {NoName}
  /\ current \in Settings \cup {NoSettings}
  /\ stored \in SettingsMessage \cup {OtherMessage}
=============================================================================
