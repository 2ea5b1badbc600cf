---------------------------- MODULE RobotQueues ----------------------------
(***************************************************************************)
(* The queues that the tasks of the robot share (freertos_tasks.h:36-48,   *)
(* created in main.c:64-66), and what travels in them.                     *)
(***************************************************************************)
EXTENDS FreeRTOS, Integers

CONSTANTS
  Coord,     \* the int8_t values of a coordinate, a power or an angle
  Name,      \* device names
  NoName,    \* the NULL of a name that was never set, or not in a message
  Video      \* the int8_t values of a video quality setting

ASSUME QueuesAssumption ==
  /\ Coord \subseteq -128 .. 127
  /\ 0 \in Coord
  /\ Video \subseteq -128 .. 127
  /\ 1 \in Video
  /\ NoName \notin Name

\* An item of the control queue: {X, Y}, or {power, angle}, in that order.
ControlItem == Coord \X Coord

\* The item that leaves the propeller off and the servos centred.
Stop == <<0, 0>>

\* An item of the settings queue: SETTING_ENABLED is 1, SETTING_DISABLED -1.
Settings == [power : {-1, 1}, assisted : {-1, 1}, video : Video]

\* The contents of a settings buffer that no settings were copied into.
NoSettings == [power |-> 0, assisted |-> 0, video |-> 0]

DefaultSettings == [power |-> -1, assisted |-> -1, video |-> 1]

VARIABLES
  controlQueue,   \* xControl_Msg_Queue_handle
  settingsQueue,  \* xSettings_Msg_Queue_handle
  nameQueue       \* xName_Queue_handle

queueVars == <<controlQueue, settingsQueue, nameQueue>>

InitQueues ==
  /\ controlQueue = <<>>
  /\ settingsQueue = <<>>
  /\ nameQueue = <<>>

QueueOf(S) == {<<>>} \cup {<<item>> : item \in S}

QueuesTypeOK ==
  /\ controlQueue \in QueueOf(ControlItem)
  /\ settingsQueue \in QueueOf(Settings)
  /\ nameQueue \in QueueOf(Name)
=============================================================================
