---------------------------- MODULE ControlLoop ----------------------------
(***************************************************************************)
(* task_control_loop (freertos_tasks.h:166-262): the task that turns the   *)
(* last control input into a propeller speed and two rotor positions.  It  *)
(* never blocks.  Its outer loop reads the settings and the input when     *)
(* they are due; its inner loop drives the actuators again and again until *)
(* one of the two time-outs is over.                                       *)
(*                                                                         *)
(* loopPc names the next point where the task reads or writes something    *)
(* shared with the rest of the system: a queue, the tick count or the      *)
(* actuators.                                                              *)
(***************************************************************************)
EXTENDS RobotQueues

CONSTANTS
  InputValidTicks,     \* TASK_CONTROL_INPUT_VALID_TIME_MS
  SettingsValidTicks   \* TASK_CONTROL_CHECK_SETTINGS_TIME_MS

ASSUME LoopAssumption ==
  /\ InputValidTicks \in Nat \ {0}
  /\ SettingsValidTicks \in Nat \ {0}

\* TASK_CONTROL_NO_INPUT_TIME_MS
NoInputTicks == 0

VARIABLES
  loopPc,
  controlBuf,        \* control_buf
  settingsBuf,       \* settings_buf
  checkForSettings,  \* check_for_settings > 0
  readControlInput,  \* read_control_input > 0
  settingsTime,      \* xSettingsTime and xSettingsTImeToWait
  inputTime,         \* xInputTIme and xInputTimeToWait
  driven             \* the control input the actuators were last set from

loopVars == <<loopPc, controlBuf, settingsBuf, checkForSettings,
              readControlInput, settingsTime, inputTime, driven>>

LoopPc == {"settings", "stampSettings", "input", "stampInput", "stampNoInput",
           "actuate", "checkSettings", "checkInput"}

InitLoop ==
  /\ loopPc = "settings"
  /\ controlBuf = Stop
  /\ settingsBuf = NoSettings
  /\ checkForSettings = TRUE
  /\ readControlInput = TRUE
  /\ settingsTime = SetTimeOut(SettingsValidTicks)
  /\ inputTime = SetTimeOut(InputValidTicks)
  /\ driven = Stop

-----------------------------------------------------------------------------
(* The head of the outer loop: settings first, then the control input. *)

ReadSettings ==
  /\ loopPc = "settings"
  /\ checkForSettings
  /\ CanReceive(settingsQueue)
  /\ settingsBuf' = Peek(settingsQueue)
  /\ loopPc' = "stampSettings"
  /\ UNCHANGED <<controlBuf, checkForSettings, readControlInput, settingsTime,
                 inputTime, driven, queueVars>>

StampSettings ==
  /\ loopPc = "stampSettings"
  /\ settingsTime' = SetTimeOut(SettingsValidTicks)
  /\ checkForSettings' = FALSE
  /\ loopPc' = "input"
  /\ UNCHANGED <<controlBuf, settingsBuf, readControlInput, inputTime, driven,
                 queueVars>>

\* Not due, or the queue is empty: then the flag and the time-out stay.
SkipSettings ==
  /\ loopPc = "settings"
  /\ ~(checkForSettings /\ CanReceive(settingsQueue))
  /\ loopPc' = "input"
  /\ UNCHANGED <<controlBuf, settingsBuf, checkForSettings, readControlInput,
                 settingsTime, inputTime, driven, queueVars>>

\* Mutant: the input is peeked at, as the settings are, and stays queued.
PeekInput ==
  /\ loopPc = "input"
  /\ readControlInput
  /\ CanReceive(controlQueue)
  /\ controlBuf' = Peek(controlQueue)
  /\ loopPc' = "stampInput"
  /\ UNCHANGED <<settingsBuf, checkForSettings, readControlInput,
                 settingsTime, inputTime, driven, queueVars>>

ReceiveInput ==
  /\ loopPc = "input"
  /\ readControlInput
  /\ CanReceive(controlQueue)
  /\ controlBuf' = Peek(controlQueue)
  /\ controlQueue' = Received(controlQueue)
  /\ loopPc' = "stampInput"
  /\ UNCHANGED <<settingsBuf, checkForSettings, readControlInput,
                 settingsTime, inputTime, driven, settingsQueue, nameQueue>>

\* Mutant: without new input the loop keeps the old one.
KeepOldInput ==
  /\ loopPc = "input"
  /\ readControlInput
  /\ ~CanReceive(controlQueue)
  /\ loopPc' = "stampNoInput"
  /\ UNCHANGED <<controlBuf, settingsBuf, checkForSettings, readControlInput,
                 settingsTime, inputTime, driven, queueVars>>

\* Could not read control input: set it to zero.
ZeroInput ==
  /\ loopPc = "input"
  /\ readControlInput
  /\ ~CanReceive(controlQueue)
  /\ controlBuf' = Stop
  /\ loopPc' = "stampNoInput"
  /\ UNCHANGED <<settingsBuf, checkForSettings, readControlInput,
                 settingsTime, inputTime, driven, queueVars>>

StampInput ==
  /\ loopPc \in {"stampInput", "stampNoInput"}
  /\ inputTime' = SetTimeOut(IF loopPc = "stampInput" THEN InputValidTicks
                                                      ELSE NoInputTicks)
  /\ readControlInput' = FALSE
  /\ loopPc' = "actuate"
  /\ UNCHANGED <<controlBuf, settingsBuf, checkForSettings, settingsTime,
                 driven, queueVars>>

KeepInput ==
  /\ loopPc = "input"
  /\ ~readControlInput
  /\ loopPc' = "actuate"
  /\ UNCHANGED <<controlBuf, settingsBuf, checkForSettings, readControlInput,
                 settingsTime, inputTime, driven, queueVars>>

-----------------------------------------------------------------------------
(* One pass of the inner loop. *)

Actuate ==
  /\ loopPc = "actuate"
  /\ driven' = controlBuf
  /\ loopPc' = "checkSettings"
  /\ UNCHANGED <<controlBuf, settingsBuf, checkForSettings, readControlInput,
                 settingsTime, inputTime, queueVars>>

\* Mutant: the loop breaks, but does not ask for the settings.
ForgetSettings ==
  /\ loopPc = "checkSettings"
  /\ TimedOut(settingsTime)
  /\ loopPc' = "settings"
  /\ UNCHANGED <<controlBuf, settingsBuf, checkForSettings, readControlInput,
                 settingsTime, inputTime, driven, queueVars>>

\* Settings have become invalid: break, before the input is looked at.
SettingsExpire ==
  /\ loopPc = "checkSettings"
  /\ TimedOut(settingsTime)
  /\ checkForSettings' = TRUE
  /\ loopPc' = "settings"
  /\ UNCHANGED <<controlBuf, settingsBuf, readControlInput, settingsTime,
                 inputTime, driven, queueVars>>

\* Mutant: settings that are still valid end the pass, as if they were the
\* only thing to check.
SkipInputCheck ==
  /\ loopPc = "checkSettings"
  /\ ~TimedOut(settingsTime)
  /\ settingsTime' = Adjusted(settingsTime)
  /\ loopPc' = "actuate"
  /\ UNCHANGED <<controlBuf, settingsBuf, checkForSettings, readControlInput,
                 inputTime, driven, queueVars>>

SettingsStillValid ==
  /\ loopPc = "checkSettings"
  /\ ~TimedOut(settingsTime)
  /\ settingsTime' = Adjusted(settingsTime)
  /\ loopPc' = "checkInput"
  /\ UNCHANGED <<controlBuf, settingsBuf, checkForSettings, readControlInput,
                 inputTime, driven, queueVars>>

\* Mutant: the loop breaks, but does not ask for a new input.
ForgetInput ==
  /\ loopPc = "checkInput"
  /\ TimedOut(inputTime)
  /\ loopPc' = "settings"
  /\ UNCHANGED <<controlBuf, settingsBuf, checkForSettings, readControlInput,
                 settingsTime, inputTime, driven, queueVars>>

InputExpire ==
  /\ loopPc = "checkInput"
  /\ TimedOut(inputTime)
  /\ readControlInput' = TRUE
  /\ loopPc' = "settings"
  /\ UNCHANGED <<controlBuf, settingsBuf, checkForSettings, settingsTime,
                 inputTime, driven, queueVars>>

InputStillValid ==
  /\ loopPc = "checkInput"
  /\ ~TimedOut(inputTime)
  /\ inputTime' = Adjusted(inputTime)
  /\ loopPc' = "actuate"
  /\ UNCHANGED <<controlBuf, settingsBuf, checkForSettings, readControlInput,
                 settingsTime, driven, queueVars>>

-----------------------------------------------------------------------------
LoopStep ==
  \/ ReadSettings \/ StampSettings \/ SkipSettings
  \/ ReceiveInput \/ ZeroInput \/ StampInput \/ KeepInput
  \/ Actuate
  \/ SettingsExpire \/ SettingsStillValid
  \/ InputExpire \/ InputStillValid

LoopTypeOK ==
  /\ loopPc \in LoopPc
  /\ controlBuf \in ControlItem
  /\ settingsBuf \in Settings \cup {NoSettings}
  /\ checkForSettings \in BOOLEAN
  /\ readControlInput \in BOOLEAN
  /\ settingsTime \in TimeOut(SettingsValidTicks)
  /\ inputTime \in TimeOut(InputValidTicks)
  /\ driven \in ControlItem
=============================================================================
