---------------------------- MODULE RobotControl ----------------------------
(***************************************************************************)
(* The control path of the robot: task_winc handling messages and          *)
(* task_control_loop driving the actuators, over the queues they share,    *)
(* under the tick interrupt.                                               *)
(*                                                                         *)
(* All tasks have priority tskIDLE_PRIORITY and share the processor in     *)
(* slices of one tick, so any step of one may come between two steps of    *)
(* the other.  The same round robin bounds how long a task waits for its   *)
(* slice: LoopTicks and GapTicks below.  FlashPasses says how far the loop *)
(* gets, at least, while task_winc writes to the flash.                    *)
(***************************************************************************)
EXTENDS ControlLoop, MessageHandler

CONSTANTS
  LoopTicks,     \* most ticks from one pass of the control loop to the next
  GapTicks,      \* most ticks from emptying the settings queue to filling it
  FlashPasses    \* fewest passes of the control loop while settings are stored

ASSUME ScheduleAssumption ==
  /\ LoopTicks \in Nat \ {0}
  /\ GapTicks \in Nat
  /\ FlashPasses \in Nat \ (0 .. 2)
  /\ SettingsValidTicks > 2 * LoopTicks

VARIABLES
  lag,          \* ticks since the actuators were last driven
  settingsAge,  \* ticks since the settings queue was last emptied
  passes        \* passes of the control loop since the write to the flash began

scheduleVars == <<lag, settingsAge, passes>>
vars == <<queueVars, loopVars, handlerVars, scheduleVars>>

(***************************************************************************)
(* The ticks after which the loop runs with the settings in the queue: the *)
(* time it may have missed them, the time it trusts its copy, and what it  *)
(* may lose before it looks again.  settingsAge stops counting there.      *)
(***************************************************************************)
SettingsWait == (IF GapTicks > LoopTicks THEN GapTicks ELSE LoopTicks)
                  + SettingsValidTicks + 2 * LoopTicks

Init ==
  /\ InitQueues /\ InitLoop /\ InitHandler
  /\ lag = 0
  /\ settingsAge = SettingsWait
  /\ passes = 0

-----------------------------------------------------------------------------
Loop ==
  /\ LoopStep
  /\ lag' = IF loopPc = "actuate" THEN 0 ELSE lag
  /\ passes' = IF loopPc = "actuate" /\ winc = "persist" /\ passes < FlashPasses
                 THEN passes + 1 ELSE passes
  /\ UNCHANGED <<handlerVars, settingsAge>>

\* Erasing a block keeps task_winc busy for 3 ms of its own slices, which are
\* of 1 ms each: the loop has whole slices in between.
FlashBusy == winc = "persist" /\ passes < FlashPasses

Handler ==
  /\ ~FlashBusy
  /\ HandlerStep
  /\ settingsAge' = IF winc \in {"settingsReset", "defaultsReset"} THEN 0
                                                              ELSE settingsAge
  /\ passes' = 0
  /\ UNCHANGED <<loopVars, lag>>

\* Messages may come at any rate.
Arrive ==
  /\ \E m \in Messages : Receive(m)
  /\ UNCHANGED <<loopVars, scheduleVars>>

\* The settings queue is empty, and the task will fill it at its next step.
GapOpen == winc \in {"settingsSend", "defaultsSend"}

\* The tick interrupt.
Tick ==
  /\ lag < LoopTicks
  /\ GapOpen => settingsAge < GapTicks
  /\ lag' = lag + 1
  /\ settingsAge' = IF settingsAge < SettingsWait THEN settingsAge + 1
                                                  ELSE settingsAge
  /\ settingsTime' = Elapse(settingsTime)
  /\ inputTime' = Elapse(inputTime)
  /\ UNCHANGED <<queueVars, handlerVars, loopPc, controlBuf, settingsBuf,
                 checkForSettings, readControlInput, driven, passes>>

Next == Loop \/ Handler \/ Arrive \/ Tick

\* The scheduler runs every task that is ready, and time passes.
Fairness == WF_vars(Loop) /\ WF_vars(Handler) /\ WF_vars(Tick)

Spec == Init /\ [][Next]_vars /\ Fairness

-----------------------------------------------------------------------------
(* Properties. *)

TypeOK ==
  /\ QueuesTypeOK /\ LoopTypeOK /\ HandlerTypeOK
  /\ lag \in 0 .. LoopTicks
  /\ settingsAge \in 0 .. SettingsWait
  /\ passes \in 0 .. FlashPasses

(***************************************************************************)
(* The error branches "queue is full" of the handler and of                *)
(* apply_default_settings cannot be reached: the queues have one producer, *)
(* and between its reset and its send the loop can only remove an item.    *)
(***************************************************************************)
SendNeverFull ==
  /\ winc = "send" => CanSend(controlQueue)
  /\ winc = "nameSend" => CanSend(nameQueue)
  /\ GapOpen => CanSend(settingsQueue)

(***************************************************************************)
(* Whenever the handler is not at work, the two copies of the settings     *)
(* agree (the globals that task_winc reports to the app and the queue that *)
(* task_control_loop peeks), and so do the two copies of the name.         *)
(***************************************************************************)
CopiesAgree ==
  winc = "idle" =>
    /\ settingsQueue = <<current>>
    /\ nameQueue = IF deviceName = NoName THEN <<>> ELSE <<deviceName>>

(***************************************************************************)
(* What an ACK promises: the settings of the message are in force, in      *)
(* every copy the tasks read.  (That they survive a restart is not         *)
(* promised: the outcome of the write to the flash is ignored.)            *)
(***************************************************************************)
AckMeansApplied ==
  winc = "return" /\ result = "PARSER_SUCCESS" /\ msg.cmd = "settings" =>
    /\ Complete(msg)
    /\ current = SettingsOf(msg)
    /\ settingsQueue = <<SettingsOf(msg)>>
    /\ deviceName = msg.name
    /\ nameQueue = <<msg.name>>

\* A message commands the robot by its first two tokens that are coordinates, or
\* else that are a power and an angle.  Two of the same tag count as well
\* (protocol.c:78): the second is used, and the other value is whatever byte the
\* stack held.
Gives(m, item) ==
  \E tags \in {<<"X", "Y">>, <<"Pwr", "Agl">>} :
    \E j, k \in DOMAIN m.tokens :
      /\ j < k
      /\ \A l \in 1 .. k : m.tokens[l].tag \in {tags[1], tags[2]} <=> l \in {j, k}
      /\ \A i \in 1 .. 2 :
           IF m.tokens[k].tag = tags[i] THEN item[i] = m.tokens[k].val
           ELSE m.tokens[j].tag = tags[i] => item[i] = m.tokens[j].val

Commands == {item \in ControlItem :
               \E m \in Messages : m.cmd = "control" /\ Gives(m, item)}

(***************************************************************************)
(* The robot stands still or is driven as one message gave it: the values  *)
(* of two messages, or of the two halves of one, are not mixed, in         *)
(* whatever order the loop and the handler take their steps.               *)
(***************************************************************************)
OneMessageDrives == driven # Stop => driven \in Commands

(***************************************************************************)
(* The loop runs with the settings in the queue, except for SettingsWait   *)
(* ticks after the queue was last emptied: a change is picked up in that   *)
(* time, however many others it came among and wherever the loop was when  *)
(* the queue was empty.                                                    *)
(***************************************************************************)
SettingsReachLoop ==
  settingsQueue # <<>> /\ settingsAge = SettingsWait =>
    settingsBuf = Peek(settingsQueue)

(***************************************************************************)
(* When no more commands are queued, the robot comes to rest and stays so, *)
(* wherever task_winc is, spinning on a refused device name included.      *)
(***************************************************************************)
SilenceStops == <>[](winc # "send") => <>[](driven = Stop)

(***************************************************************************)
(* A queued command that no later message erases reaches the actuators.    *)
(***************************************************************************)
CommandTakesEffect ==
  \A item \in Commands :
    (controlQueue = <<item>> /\ [](winc # "reset")) ~> (driven = item)
=============================================================================
