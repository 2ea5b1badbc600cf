------------------------- MODULE RobotControlProofs -------------------------
(***************************************************************************)
(* Invariants of RobotControl, and of RobotAges, which adds the ages of    *)
(* the control inputs to it, for all values of the constants.              *)
(*                                                                         *)
(* First the copies of the settings and the commands; then the two bounds  *)
(* on time: how old a control input can be that the actuators follow, and  *)
(* how long the loop can run with settings that were changed.              *)
(***************************************************************************)
EXTENDS RobotAges, TLAPS

USE QueuesAssumption, LoopAssumption, HandlerAssumption, ScheduleAssumption

-----------------------------------------------------------------------------
(***************************************************************************)
(* The inductive invariant: types; where the handler is with the message   *)
(* in hand, and which copies of its contents exist by then; what holds     *)
(* while the flash memory is restored and after.                           *)
(***************************************************************************)
Messaged == ControlMessage \cup SettingsMessage \cup {OtherMessage}

\* The handler is at work on complete settings, and has told Wi-Fi the name ...
Named == {"persist", "nameReset", "nameSend", "settingsReset", "settingsSend"}

\* ... and has assigned the globals.
Assigned == Named \ {"persist"}

Commanding == {"token", "reset", "send"}

InHand ==
  /\ winc \in Named \cup {"device"} => msg \in SettingsMessage /\ Complete(msg)
  /\ winc \in Commanding => msg.cmd = "control"
  /\ winc = "return" =>
       /\ msg.cmd = "settings" /\ result = "PARSER_SUCCESS" =>
            msg \in SettingsMessage /\ Complete(msg)
       /\ msg.cmd \notin {"control", "settings"} => result = "PARSER_ERROR"

Applied ==
  /\ deviceName = msg.name
  /\ current = SettingsOf(msg)
  /\ nameQueue = <<msg.name>>

Copies ==
  /\ winc \in Named => deviceName = msg.name
  /\ winc \in Assigned => current = SettingsOf(msg)
  /\ winc = "nameSend" => nameQueue = <<>>
  /\ winc \in {"settingsReset", "settingsSend"} => nameQueue = <<msg.name>>
  /\ GapOpen => settingsQueue = <<>>
  /\ winc = "send" => controlQueue = <<>>

NamesAgree == nameQueue = IF deviceName = NoName THEN <<>> ELSE <<deviceName>>

SettingsAgree == settingsQueue = <<current>>

Acked == winc = "return" /\ msg.cmd = "settings" /\ result = "PARSER_SUCCESS"

Agreement ==
  /\ Acked => Applied /\ settingsQueue = <<SettingsOf(msg)>>
  /\ winc \in Commanding \cup {"idle", "device"} => NamesAgree
  /\ winc = "return" /\ ~Acked => NamesAgree
  /\ winc \in {"boot", "defaultsReset", "defaultsSend"} => NamesAgree
  /\ winc \in Commanding \cup {"idle"} => SettingsAgree
  /\ winc = "return" /\ ~Acked /\ ~booting => SettingsAgree
  /\ winc \in {"defaultsReset", "defaultsSend"} => current = DefaultSettings

Booting ==
  /\ booting => /\ winc \notin Commanding \cup {"idle"}
                /\ winc = "return" => msg.cmd # "control"
                /\ controlQueue = <<>> /\ controlBuf = Stop /\ driven = Stop
  /\ ~booting => winc \notin {"boot", "defaultsReset", "defaultsSend"}
  /\ ~booting => GapOpen \/ settingsQueue # <<>>

Inv == TypeOK /\ InHand /\ Copies /\ Agreement /\ Booting

-----------------------------------------------------------------------------
(* Operators. *)

(* Stamping, adjusting and ageing a time-out keep it within its bounds, and  *)
(* only a tick changes what remains of it (tasks.c).                         *)
LEMMA TimeOuts ==
  ASSUME NEW max \in Nat, NEW t \in TimeOut(max)
  PROVE  /\ Elapse(t) \in TimeOut(max)
         /\ ~TimedOut(t) => Adjusted(t) \in TimeOut(max)
         /\ \A wait \in 0 .. max : SetTimeOut(wait) \in TimeOut(max)
  BY DEF TimeOut, Elapse, TimedOut, Adjusted, SetTimeOut

(* A queue of one item: what sending and receiving leave in it (queue.c).    *)
LEMMA QueueItems ==
  ASSUME NEW S, NEW q \in QueueOf(S)
  PROVE  /\ QueueReset \in QueueOf(S)
         /\ \A item \in S : SendToBack(q, item) \in QueueOf(S)
         /\ CanReceive(q) => Peek(q) \in S /\ Received(q) = <<>>
         /\ CanSend(q) <=> q = <<>>
         /\ CanSend(q) => \A item \in S : SendToBack(q, item) = <<item>>
<1>1. CASE q = <<>>
  <2>1. Len(q) = 0
    BY <1>1
  <2>2. \A item : Append(q, item) = <<item>>
    BY <1>1
  <2> QED
    BY <1>1, <2>1, <2>2 DEF QueueOf, QueueReset, SendToBack, CanSend,
      QueueLength, CanReceive
<1>2. ASSUME NEW i \in S, q = <<i>>
      PROVE  /\ ~CanSend(q) /\ q # <<>>
             /\ Head(q) = i /\ Tail(q) = <<>>
  BY <1>2 DEF CanSend, QueueLength
<1> QED
  BY <1>1, <1>2 DEF QueueOf, QueueReset, SendToBack, CanReceive, Peek, Received

(* Sending to an empty queue succeeds.                                       *)
LEMMA SendToEmpty ==
  /\ CanSend(<<>>)
  /\ \A item : SendToBack(<<>>, item) = <<item>>
BY DEF CanSend, SendToBack, QueueLength

(* The settings a complete message asks for are legal ones (protocol.c:196). *)
LEMMA SettingsOfType ==
  ASSUME NEW m \in SettingsMessage
  PROVE  SettingsOf(m) \in Settings
  BY DEF SettingsMessage, SettingsOf, Settings, Enabled

-----------------------------------------------------------------------------
(* Type correctness. *)

LEMMA WaitType == SettingsWait \in Nat /\ GapTicks <= SettingsWait
  BY DEF SettingsWait

LEMMA InitType == Init => TypeOK
<1> SUFFICES ASSUME Init PROVE TypeOK
  OBVIOUS
<1> USE DEF Init
<1>1. QueuesTypeOK
  BY DEF InitQueues, QueuesTypeOK, QueueOf
<1>2. LoopTypeOK
  BY DEF InitLoop, LoopTypeOK, LoopPc, ControlItem, Stop, SetTimeOut, TimeOut
<1>3. HandlerTypeOK
  BY DEF InitHandler, HandlerTypeOK, WincPc, Result, Blank, OtherMessage,
    ControlMessage
<1>4. /\ lag \in 0 .. LoopTicks /\ settingsAge \in 0 .. SettingsWait
      /\ passes \in 0 .. FlashPasses
  BY WaitType
<1> QED
  BY <1>1, <1>2, <1>3, <1>4 DEF TypeOK

LEMMA LoopType == TypeOK /\ Loop => TypeOK'
<1> SUFFICES ASSUME TypeOK, Loop PROVE TypeOK'
  OBVIOUS
<1> USE DEF TypeOK
<1>1. HandlerTypeOK' /\ settingsAge' = settingsAge
  BY DEF Loop, handlerVars, localVars, deviceVars, HandlerTypeOK
<1>2. lag' \in 0 .. LoopTicks /\ passes' \in 0 .. FlashPasses
  BY DEF Loop
<1>3. QueuesTypeOK' /\ LoopTypeOK'
  <2> USE DEF QueuesTypeOK, LoopTypeOK, LoopPc, queueVars
  <2>1. CASE ReadSettings
    BY <2>1, QueueItems DEF ReadSettings
  <2>2. CASE StampSettings
    <3>1. SetTimeOut(SettingsValidTicks) \in TimeOut(SettingsValidTicks)
      BY TimeOuts
    <3> QED
      BY <2>2, <3>1 DEF StampSettings
  <2>3. CASE SkipSettings
    BY <2>3 DEF SkipSettings
  <2>4. CASE ReceiveInput
    BY <2>4, QueueItems DEF ReceiveInput, QueueOf
  <2>5. CASE ZeroInput
    BY <2>5 DEF ZeroInput, ControlItem, Stop
  <2>6. CASE StampInput
    <3>1. /\ SetTimeOut(InputValidTicks) \in TimeOut(InputValidTicks)
          /\ SetTimeOut(NoInputTicks) \in TimeOut(InputValidTicks)
      BY TimeOuts DEF NoInputTicks
    <3> QED
      BY <2>6, <3>1 DEF StampInput
  <2>7. CASE KeepInput
    BY <2>7 DEF KeepInput
  <2>8. CASE Actuate
    BY <2>8 DEF Actuate
  <2>9. CASE SettingsExpire
    BY <2>9 DEF SettingsExpire
  <2>10. CASE SettingsStillValid
    BY <2>10, TimeOuts DEF SettingsStillValid
  <2>11. CASE InputExpire
    BY <2>11 DEF InputExpire
  <2>12. CASE InputStillValid
    BY <2>12, TimeOuts DEF InputStillValid
  <2> QED
    BY <2>1, <2>2, <2>3, <2>4, <2>5, <2>6, <2>7, <2>8, <2>9, <2>10, <2>11,
      <2>12 DEF Loop, LoopStep
<1> QED
  BY <1>1, <1>2, <1>3

-----------------------------------------------------------------------------
(* Entering the handler with a message, from the network or the flash. *)
LEMMA EnterType ==
  ASSUME HandlerTypeOK, NEW m \in ControlMessage \cup SettingsMessage
                                  \cup {OtherMessage}, Enter(m)
  PROVE  HandlerTypeOK'
<1> USE DEF Enter, HandlerTypeOK
<1>1. tokens' \in Seq(Token)
  <2>1. CASE m \in ControlMessage
    BY <2>1 DEF ControlMessage
  <2>2. CASE m \notin ControlMessage
    BY <2>2 DEF SettingsMessage, OtherMessage
  <2> QED
    BY <2>1, <2>2
<1>2. winc' \in WincPc
  <2>1. m.cmd \in {"control", "settings", "other"}
    BY DEF ControlMessage, SettingsMessage, OtherMessage
  <2> QED
    BY <2>1 DEF FirstStep, WincPc
<1>3. coords' = Blank /\ powerAng' = Blank
  OBVIOUS
<1> QED
  BY <1>1, <1>2, <1>3 DEF Blank, Result, deviceVars

LEMMA HandlerType == TypeOK /\ InHand /\ Handler => TypeOK'
<1> SUFFICES ASSUME TypeOK, InHand, Handler PROVE TypeOK'
  OBVIOUS
<1> USE DEF TypeOK
<1>1. LoopTypeOK' /\ lag' = lag
  BY DEF Handler, loopVars, LoopTypeOK
<1>2. settingsAge' \in 0 .. SettingsWait /\ passes' \in 0 .. FlashPasses
  BY WaitType DEF Handler
<1>3. QueuesTypeOK' /\ HandlerTypeOK'
  <2>1. CASE Boot
    BY <2>1, EnterType DEF Boot, Enter, HandlerTypeOK, QueuesTypeOK, queueVars
  <2> USE DEF QueuesTypeOK, HandlerTypeOK, WincPc, Result, queueVars, localVars,
      deviceVars
  <2>2. CASE ParseToken
    <3>1. Head(tokens) \in Token /\ Tail(tokens) \in Seq(Token)
      BY <2>2 DEF ParseToken
    <3> DEFINE t == Head(tokens)
               Pair == (Coord \cup {Unset}) \X (Coord \cup {Unset})
    <3> HIDE DEF t, Pair
    <3>2. \A pair \in Pair, v \in Coord : /\ [pair EXCEPT ![1] = v] \in Pair
                                         /\ [pair EXCEPT ![2] = v] \in Pair
      BY DEF Pair
    <3>3. /\ coords' \in Pair /\ powerAng' \in Pair
          /\ validCoords' \in Nat /\ validPowerAng' \in Nat
      <4>1. t.val \in Coord /\ coords \in Pair /\ powerAng \in Pair
        BY <3>1 DEF t, Token, Pair
      <4>2. /\ coords' \in {coords, [coords EXCEPT ![1] = t.val],
                           [coords EXCEPT ![2] = t.val]}
            /\ powerAng' \in {powerAng, [powerAng EXCEPT ![1] = t.val],
                             [powerAng EXCEPT ![2] = t.val]}
        BY <2>2 DEF ParseToken, t
      <4>3. /\ validCoords' \in {validCoords, validCoords + 1}
            /\ validPowerAng' \in {validPowerAng, validPowerAng + 1}
        BY <2>2 DEF ParseToken
      <4>4. validCoords' \in Nat /\ validPowerAng' \in Nat
        BY <4>3
      <4>5. /\ [coords EXCEPT ![1] = t.val] \in Pair
            /\ [coords EXCEPT ![2] = t.val] \in Pair
            /\ [powerAng EXCEPT ![1] = t.val] \in Pair
            /\ [powerAng EXCEPT ![2] = t.val] \in Pair
        BY <3>2, <4>1
      <4>6. coords' \in Pair
        <5> HIDE DEF TypeOK, QueuesTypeOK, HandlerTypeOK
        <5> QED
          BY <4>1, <4>2, <4>5
      <4>7. powerAng' \in Pair
        <5> HIDE DEF TypeOK, QueuesTypeOK, HandlerTypeOK
        <5> QED
          BY <4>1, <4>2, <4>5
      <4> QED
        BY <4>4, <4>6, <4>7
    <3>4. coords' \in (Coord \cup {Unset}) \X (Coord \cup {Unset})
          /\ powerAng' \in (Coord \cup {Unset}) \X (Coord \cup {Unset})
      BY <3>3 DEF Pair
    <3> QED
      BY <2>2, <3>1, <3>2, <3>3, <3>4 DEF ParseToken
  <2>3. CASE ResetControlQueue
    BY <2>3, QueueItems DEF ResetControlQueue
  <2>4. CASE SendControl
    BY <2>4, QueueItems DEF SendControl, Read
  <2>5. CASE NoMoreTokens
    BY <2>5 DEF NoMoreTokens
  <2>6. CASE SetDeviceName
    <3>1. msg.name \in Name
      BY <2>6 DEF SetDeviceName, InHand, SettingsMessage, Complete
    <3> QED
      BY <2>6, <3>1 DEF SetDeviceName
  <2>7. CASE DeviceNameRefused
    BY <2>7 DEF DeviceNameRefused
  <2>8. CASE PersistSettings
    BY <2>8, SettingsOfType DEF PersistSettings, InHand, Named
  <2>9. CASE ResetNameQueue
    BY <2>9, QueueItems DEF ResetNameQueue
  <2>10. CASE SendName
    <3>1. msg.name \in Name
      BY <2>10 DEF SendName, InHand, Named, SettingsMessage, Complete
    <3> QED
      BY <2>10, <3>1, QueueItems DEF SendName
  <2>11. CASE ResetSettingsQueue
    BY <2>11, QueueItems DEF ResetSettingsQueue
  <2>12. CASE SendSettings
    BY <2>12, QueueItems, SettingsOfType DEF SendSettings, InHand, Named
  <2>13. CASE Return
    <3>1. <<>> \in Seq(Token) /\ Blank \in (Coord \cup {Unset}) \X (Coord \cup {Unset})
      BY DEF Blank
    <3> QED
      BY <2>13, <3>1 DEF Return, ForgetLocals
  <2>14. CASE UseDefaults
    BY <2>14 DEF UseDefaults, DefaultSettings, Settings
  <2>15. CASE SendDefaults
    <3>1. <<>> \in Seq(Token) /\ Blank \in (Coord \cup {Unset}) \X (Coord \cup {Unset})
      BY DEF Blank
    <3>2. DefaultSettings \in Settings
      BY DEF DefaultSettings, Settings
    <3>3. settingsQueue' \in QueueOf(Settings)
      BY <2>15, <3>2, QueueItems DEF SendDefaults
    <3> QED
      BY <2>15, <3>1, <3>3 DEF SendDefaults, ForgetLocals
  <2> QED
    BY <2>1, <2>2, <2>3, <2>4, <2>5, <2>6, <2>7, <2>8, <2>9, <2>10, <2>11,
      <2>12, <2>13, <2>14, <2>15 DEF Handler, HandlerStep
<1> QED
  BY <1>1, <1>2, <1>3

LEMMA ArriveType == TypeOK /\ Arrive => TypeOK'
<1> SUFFICES ASSUME TypeOK, Arrive PROVE TypeOK'
  OBVIOUS
<1>1. PICK m \in Messages : Enter(m)
  BY DEF Arrive, Receive
<1>2. HandlerTypeOK'
  BY <1>1, EnterType DEF TypeOK
<1> QED
  BY <1>1, <1>2 DEF Arrive, Enter, TypeOK, QueuesTypeOK, LoopTypeOK, queueVars,
    loopVars, scheduleVars

LEMMA TickType == TypeOK /\ Tick => TypeOK'
<1> SUFFICES ASSUME TypeOK, Tick PROVE TypeOK'
  OBVIOUS
<1>1. /\ settingsTime' \in TimeOut(SettingsValidTicks)
      /\ inputTime' \in TimeOut(InputValidTicks)
  BY TimeOuts DEF Tick, TypeOK, LoopTypeOK
<1>2. settingsAge' \in 0 .. SettingsWait
  BY WaitType DEF Tick, TypeOK
<1> QED
  BY <1>1, <1>2 DEF Tick, TypeOK, QueuesTypeOK, LoopTypeOK, HandlerTypeOK, queueVars,
    handlerVars, localVars, deviceVars

LEMMA StutterType == TypeOK /\ UNCHANGED vars => TypeOK'
  BY DEF vars, TypeOK, QueuesTypeOK, LoopTypeOK, HandlerTypeOK, queueVars,
    loopVars, handlerVars, localVars, deviceVars, scheduleVars

-----------------------------------------------------------------------------
(* What the steps of the loop and the tick leave of the rest. *)

LEMMA LoopFrame ==
  ASSUME TypeOK, Loop
  PROVE  /\ UNCHANGED <<settingsQueue, nameQueue, handlerVars>>
         /\ controlQueue' \in {controlQueue, <<>>}
         /\ controlQueue = <<>> /\ controlBuf = Stop => controlBuf' = Stop
         /\ controlBuf = Stop /\ driven = Stop => driven' = Stop
  BY QueueItems DEF TypeOK, QueuesTypeOK, Loop, LoopStep, queueVars,
    ReadSettings, StampSettings, SkipSettings, ReceiveInput, ZeroInput,
    StampInput, KeepInput, Actuate, SettingsExpire, SettingsStillValid,
    InputExpire, InputStillValid, CanReceive

LEMMA LoopInv == Inv /\ Loop => Inv'
<1> SUFFICES ASSUME Inv, Loop PROVE Inv'
  OBVIOUS
<1>1. TypeOK'
  BY LoopType DEF Inv
<1>2. InHand' /\ Copies' /\ Agreement' /\ Booting'
  BY LoopFrame DEF Inv, InHand, Copies, Agreement, Booting, Acked, Applied,
    NamesAgree, SettingsAgree, GapOpen, handlerVars, localVars, deviceVars
<1> QED
  BY <1>1, <1>2 DEF Inv

LEMMA TickInv == Inv /\ (Tick \/ UNCHANGED vars) => Inv'
<1> SUFFICES ASSUME Inv, Tick \/ UNCHANGED vars PROVE Inv'
  OBVIOUS
<1>1. TypeOK'
  BY TickType, StutterType DEF Inv
<1>2. UNCHANGED <<queueVars, handlerVars, controlBuf, driven>>
  BY DEF Tick, vars, loopVars
<1>3. InHand' /\ Copies' /\ Agreement' /\ Booting'
  BY <1>2 DEF Inv, InHand, Copies, Agreement, Booting, Acked, Applied,
    NamesAgree, SettingsAgree, GapOpen, handlerVars, localVars, deviceVars,
    queueVars
<1> QED
  BY <1>1, <1>3 DEF Inv

-----------------------------------------------------------------------------
(* The steps of the handler. *)

LEMMA InitInv == Init => Inv
<1> SUFFICES ASSUME Init PROVE Inv
  OBVIOUS
<1>1. TypeOK
  BY InitType
<1>2. InHand /\ Copies /\ Agreement /\ Booting
  BY DEF Init, InitQueues, InitLoop, InitHandler, InHand, Copies, Agreement,
    Booting, Acked, NamesAgree, GapOpen, Named, Assigned, Commanding
<1> QED
  BY <1>1, <1>2 DEF Inv

\* A message enters the handler: at start-up, or when the task is idle.
LEMMA EnterInv ==
  ASSUME Inv, TypeOK', NEW m \in Messaged, Enter(m),
         UNCHANGED <<controlBuf, driven>>,
         \/ winc = "boot" /\ booting /\ m.cmd # "control"
         \/ winc = "idle"
  PROVE  Inv'
<1>1. /\ m.cmd = "control" <=> m \in ControlMessage
      /\ m.cmd = "settings" <=> m \in SettingsMessage
      /\ m.cmd \in {"control", "settings", "other"}
  BY DEF Messaged, ControlMessage, SettingsMessage, OtherMessage
<1>2. /\ msg' = m
      /\ winc' = IF m.cmd = "control" THEN "token"
                 ELSE IF m.cmd = "settings" /\ Complete(m) THEN "device"
                 ELSE "return"
      /\ result' = IF m.cmd = "settings" /\ ~Complete(m) THEN "SETTINGS_ERROR"
                                                         ELSE "PARSER_ERROR"
      /\ UNCHANGED <<booting, deviceName, current, controlQueue, settingsQueue,
                     nameQueue>>
  BY <1>1 DEF Enter, FirstStep, deviceVars, queueVars
<1>3. InHand'
  BY <1>1, <1>2 DEF InHand, Named, Commanding
<1>4. Copies'
  BY <1>2 DEF Copies, Named, Assigned, GapOpen
<1>5. Agreement'
  BY <1>1, <1>2 DEF Inv, Agreement, Booting, Acked, NamesAgree, SettingsAgree,
    Commanding
<1>6. Booting'
  BY <1>1, <1>2 DEF Inv, Booting, Commanding, GapOpen
<1> QED
  BY <1>3, <1>4, <1>5, <1>6 DEF Inv

LEMMA ArriveInv == Inv /\ Arrive => Inv'
<1> SUFFICES ASSUME Inv, Arrive PROVE Inv'
  OBVIOUS
<1>1. PICK m \in Messages : winc = "idle" /\ Enter(m)
  BY DEF Arrive, Receive
<1>2. TypeOK'
  BY ArriveType DEF Inv
<1> QED
  BY <1>1, <1>2, EnterInv DEF Arrive, loopVars, Messaged

LEMMA HandlerInv == Inv /\ Handler => Inv'
<1> SUFFICES ASSUME Inv, Handler PROVE Inv'
  OBVIOUS
<1>1. TypeOK'
  BY HandlerType DEF Inv
<1>2. UNCHANGED <<controlBuf, driven>>
  BY DEF Handler, loopVars
<1>3. CASE Boot
  BY <1>1, <1>2, <1>3, EnterInv DEF Boot, Inv, TypeOK, HandlerTypeOK, Messaged,
    SettingsMessage, OtherMessage, Booting
<1>4. CASE ParseToken \/ ResetControlQueue \/ SendControl \/ NoMoreTokens
  <2> USE DEF Inv, ParseToken, ResetControlQueue, SendControl, NoMoreTokens,
      localVars, deviceVars, queueVars
  <2>1. /\ winc' \in Commanding \cup {"return"}
        /\ winc \in Commanding
        /\ msg' = msg /\ booting' = booting
        /\ winc' = "send" => controlQueue' = <<>>
        /\ UNCHANGED <<settingsQueue, nameQueue, deviceName, current>>
    BY <1>4 DEF Commanding, QueueReset
  <2>2. InHand'
    BY <2>1 DEF InHand, Named, Commanding
  <2>3. Copies'
    BY <2>1 DEF Copies, Named, Assigned, GapOpen, Commanding
  <2>4. Agreement'
    BY <2>1 DEF InHand, Agreement, Acked, NamesAgree, SettingsAgree, Commanding
  <2>5. Booting'
    BY <2>1 DEF Booting, Commanding, GapOpen
  <2> QED
    BY <1>1, <2>2, <2>3, <2>4, <2>5
<1>5. CASE SetDeviceName \/ DeviceNameRefused \/ PersistSettings
  <2> USE DEF Inv, SetDeviceName, DeviceNameRefused, PersistSettings, localVars,
      deviceVars, queueVars
  <2>1. InHand'
    BY <1>5 DEF InHand, Named, Commanding
  <2>2. Copies'
    BY <1>5 DEF Copies, Named, Assigned, GapOpen
  <2>3. Agreement'
    BY <1>5 DEF Agreement, Acked, Commanding
  <2>4. Booting'
    BY <1>5, <1>2 DEF Booting, Commanding, GapOpen
  <2> QED
    BY <1>1, <2>1, <2>2, <2>3, <2>4
<1>6. CASE ResetNameQueue \/ SendName \/ ResetSettingsQueue \/ SendSettings
  <2> USE DEF Inv, ResetNameQueue, SendName, ResetSettingsQueue, SendSettings,
      localVars, deviceVars, queueVars
  <2>1. InHand'
    BY <1>6 DEF InHand, Named, Commanding, SettingsMessage
  <2>2. /\ SendName => nameQueue' = <<msg.name>>
        /\ SendSettings => /\ settingsQueue' = <<SettingsOf(msg)>>
                           /\ result' = "PARSER_SUCCESS"
    BY SendToEmpty DEF Copies, GapOpen
  <2>3. Copies'
    BY <1>6, <2>2 DEF Copies, Named, Assigned, GapOpen, QueueReset
  <2>4. Agreement'
    BY <1>6, <2>2 DEF Agreement, Acked, Commanding, Copies, Named, Assigned,
      Applied, NamesAgree, InHand, SettingsMessage
  <2>5. Booting'
    <3>1. /\ winc' \notin Commanding \cup {"idle", "boot"}
          /\ UNCHANGED <<msg, booting>>
      BY <1>6 DEF Commanding
    <3>3. winc' \in {"defaultsReset", "defaultsSend"} => booting
      BY <1>6 DEF Booting
    <3>4. winc' = "return" => msg.cmd # "control" /\ settingsQueue' # <<>>
      <4>1. winc' = "return" => SendSettings /\ msg \in SettingsMessage
        BY <1>6 DEF InHand, Named
      <4>2. SendSettings => settingsQueue' # <<>>
        <5>1. \A x : <<x>> # <<>>
          OBVIOUS
        <5> QED
          BY <2>2, <5>1, Zenon
      <4> QED
        BY <4>1, <4>2 DEF SettingsMessage
    <3>5. booting => controlQueue' = <<>>
      BY <1>6 DEF Booting
    <3>2. ~booting => GapOpen' \/ settingsQueue' # <<>>
      BY <1>6, <2>2 DEF Booting, GapOpen
    <3> QED
      BY <1>2, <3>1, <3>2, <3>3, <3>4, <3>5 DEF Booting
  <2> QED
    BY <1>1, <2>1, <2>3, <2>4, <2>5
<1>7. CASE Return \/ UseDefaults
  <2> USE DEF Inv, Return, UseDefaults, ForgetLocals, localVars, deviceVars,
      queueVars
  <2>1. InHand'
    BY <1>7 DEF InHand, Named, Commanding
  <2>2. Copies'
    BY <1>7 DEF Copies, Named, Assigned, GapOpen
  <2>3. Agreement'
    BY <1>7 DEF Agreement, Acked, Commanding, Applied, NamesAgree, InHand,
      SettingsAgree, Booting, SettingsMessage, Complete
  <2>4. Booting'
    BY <1>7, <1>2 DEF Booting, Commanding, GapOpen, Agreement, Acked, Applied,
      SettingsAgree, InHand
  <2> QED
    BY <1>1, <2>1, <2>2, <2>3, <2>4
<1>8. CASE SendDefaults
  <2> USE DEF Inv, SendDefaults, ForgetLocals, localVars, deviceVars, queueVars
  <2>1. settingsQueue' = <<DefaultSettings>> /\ winc' = "idle"
    BY <1>8 DEF Copies, GapOpen, SendToBack, CanSend, QueueLength
  <2>2. InHand'
    BY <1>8, <2>1 DEF InHand, Named, Commanding
  <2>3. Copies'
    BY <2>1 DEF Copies, Named, Assigned, GapOpen
  <2>4. Agreement'
    BY <1>8, <2>1 DEF Agreement, Acked, NamesAgree, SettingsAgree, Commanding
  <2>5. Booting'
    BY <1>8, <1>2, <2>1 DEF Booting, Commanding, GapOpen
  <2> QED
    BY <1>1, <2>2, <2>3, <2>4, <2>5
<1> QED
  BY <1>3, <1>4, <1>5, <1>6, <1>7, <1>8 DEF Handler, HandlerStep

-----------------------------------------------------------------------------
(* The theorems. *)

LEMMA InvHolds == Spec => []Inv
<1>1. Inv /\ [Next]_vars => Inv'
  BY LoopInv, HandlerInv, ArriveInv, TickInv DEF Next
<1> QED
  BY <1>1, InitInv, PTL DEF Spec

(* Every variable of the control path keeps its type.                        *)
THEOREM TypeCorrect == Spec => []TypeOK
<1>1. Inv => TypeOK
  BY DEF Inv
<1> QED
  BY <1>1, InvHolds, PTL

(* The branches of protocol.c for a full queue are dead code.                *)
THEOREM QueuesNeverFull == Spec => []SendNeverFull
<1>1. Inv => SendNeverFull
  BY SendToEmpty DEF Inv, Copies, SendNeverFull, GapOpen
<1> QED
  BY <1>1, InvHolds, PTL

(* Between two messages, the globals and the queues agree (protocol.c:196).  *)
THEOREM IdleCopiesAgree == Spec => []CopiesAgree
<1>1. Inv => CopiesAgree
  BY DEF Inv, Agreement, NamesAgree, SettingsAgree, CopiesAgree
<1> QED
  BY <1>1, InvHolds, PTL

(* An ACK means that the settings are in force in every copy of them.        *)
THEOREM AckedSettingsApply == Spec => []AckMeansApplied
<1>1. Inv => AckMeansApplied
  BY DEF Inv, InHand, Agreement, Acked, Applied, AckMeansApplied
<1> QED
  BY <1>1, InvHolds, PTL

-----------------------------------------------------------------------------
(***************************************************************************)
(* The two values of a command come from one message, whatever tags its    *)
(* tokens have.                                                            *)
(* The inductive invariant: the counters and the bytes of each pair are    *)
(* what the tokens that were parsed leave in them; and what is queued,     *)
(* held and driven was given by a message.                                 *)
(***************************************************************************)

Given(item) == item = Stop \/ item \in Commands

\* The number of tokens of the message in hand that were parsed.
Parsed == Len(msg.tokens) - Len(tokens)

XY == <<"X", "Y">>
PwrAgl == <<"Pwr", "Agl">>

\* What a token leaves in the two bytes for a pair of tags.
Put(pair, tags, t) == <<IF t.tag = tags[1] THEN t.val ELSE pair[1],
                        IF t.tag = tags[2] THEN t.val ELSE pair[2]>>

\* Of the first n tokens, those of the tags are at these places.
OnlyAt(toks, n, tags, places) ==
  \A l \in 1 .. n : toks[l].tag \in {tags[1], tags[2]} <=> l \in places

\* The bytes and the counter of a pair after n tokens, up to the count of two.
Scanned(toks, n, tags, pair, count) ==
  \/ count = 0 /\ OnlyAt(toks, n, tags, {}) /\ pair = Blank
  \/ /\ count = 1
     /\ \E j \in 1 .. n : /\ OnlyAt(toks, n, tags, {j})
                          /\ pair = Put(Blank, tags, toks[j])
  \/ /\ count = 2
     /\ \E j, k \in 1 .. n :
          /\ j < k
          /\ OnlyAt(toks, n, tags, {j, k})
          /\ pair = Put(Put(Blank, tags, toks[j]), tags, toks[k])
  \/ count > 2

TokensInv ==
  /\ msg \in Messages
  /\ Len(tokens) <= Len(msg.tokens)
  /\ \A n \in 1 .. Len(tokens) : tokens[n] = msg.tokens[Parsed + n]

ScanInv ==
  /\ Scanned(msg.tokens, Parsed, XY, coords, validCoords)
  /\ Scanned(msg.tokens, Parsed, PwrAgl, powerAng, validPowerAng)

Parsing == winc \in Commanding => TokensInv /\ ScanInv

Sending == winc = "send" => validCoords = 2 \/ validPowerAng = 2

GivenInv ==
  /\ controlQueue # <<>> => Given(Head(controlQueue))
  /\ Given(controlBuf)
  /\ Given(driven)

CommandInv == Parsing /\ Sending /\ GivenInv

-----------------------------------------------------------------------------
(* A message that is in the handler as a command has tokens.                 *)
LEMMA TokensOf ==
  ASSUME NEW m \in Messages, m.cmd = "control"
  PROVE  m.tokens \in Seq(Token)
<1>1. m \in ControlMessage \cup SettingsMessage \cup {OtherMessage}
  OBVIOUS
<1>2. m \notin SettingsMessage /\ m # OtherMessage
  BY DEF SettingsMessage, OtherMessage
<1> QED
  BY <1>1, <1>2 DEF ControlMessage

(* One more token: the scan goes on, by what the token puts in the pair.     *)
LEMMA ScanStep ==
  ASSUME NEW toks, NEW n \in Nat, NEW tags, NEW pair, NEW count \in Nat,
         Scanned(toks, n, tags, pair, count), NEW t, t = toks[n + 1]
  PROVE  /\ t.tag \in {tags[1], tags[2]} =>
              Scanned(toks, n + 1, tags, Put(pair, tags, t), count + 1)
         /\ t.tag \notin {tags[1], tags[2]} =>
              Scanned(toks, n + 1, tags, pair, count)
<1>1. \A l : l \in 1 .. n + 1 <=> l \in 1 .. n \/ l = n + 1
  OBVIOUS
<1>2. ~(n + 1 \in 1 .. n)
  OBVIOUS
<1>3. ASSUME NEW places \in SUBSET (1 .. n), OnlyAt(toks, n, tags, places)
      PROVE  /\ t.tag \in {tags[1], tags[2]} =>
                  OnlyAt(toks, n + 1, tags, places \cup {n + 1})
             /\ t.tag \notin {tags[1], tags[2]} =>
                  OnlyAt(toks, n + 1, tags, places)
  BY <1>1, <1>2, <1>3, Zenon DEF OnlyAt
<1>4. CASE count = 0
  <2>1. OnlyAt(toks, n, tags, {}) /\ pair = Blank
    BY <1>4 DEF Scanned
  <2>2. /\ t.tag \in {tags[1], tags[2]} => OnlyAt(toks, n + 1, tags, {n + 1})
        /\ t.tag \notin {tags[1], tags[2]} => OnlyAt(toks, n + 1, tags, {})
    <3>1. {} \in SUBSET (1 .. n) /\ {} \cup {n + 1} = {n + 1}
      OBVIOUS
    <3> QED
      BY <1>3, <2>1, <3>1
  <2>3. n + 1 \in 1 .. n + 1 /\ count + 1 = 1
    BY <1>4
  <2> QED
    BY <1>4, <2>1, <2>2, <2>3 DEF Scanned
<1>5. CASE count = 1
  <2>1. PICK j \in 1 .. n : /\ OnlyAt(toks, n, tags, {j})
                            /\ pair = Put(Blank, tags, toks[j])
    <3>1. count # 0 /\ count # 2 /\ ~(count > 2)
      BY <1>5
    <3> QED
      BY <1>5, <3>1, Zenon DEF Scanned
  <2>2. /\ t.tag \in {tags[1], tags[2]} => OnlyAt(toks, n + 1, tags, {j, n + 1})
        /\ t.tag \notin {tags[1], tags[2]} => OnlyAt(toks, n + 1, tags, {j})
    <3>1. {j} \in SUBSET (1 .. n) /\ {j} \cup {n + 1} = {j, n + 1}
      OBVIOUS
    <3> QED
      BY <1>3, <2>1, <3>1
  <2>3. /\ n + 1 \in 1 .. n + 1 /\ j \in 1 .. n + 1 /\ j < n + 1
        /\ count + 1 = 2
    BY <1>5
  <2> QED
    BY <1>5, <2>1, <2>2, <2>3 DEF Scanned
<1>6. CASE count = 2
  <2>1. PICK j, k \in 1 .. n :
          /\ j < k
          /\ OnlyAt(toks, n, tags, {j, k})
          /\ pair = Put(Put(Blank, tags, toks[j]), tags, toks[k])
    <3>1. count # 0 /\ count # 1 /\ ~(count > 2)
      BY <1>6
    <3> QED
      BY <1>6, <3>1, Zenon DEF Scanned
  <2>2. t.tag \notin {tags[1], tags[2]} => OnlyAt(toks, n + 1, tags, {j, k})
    <3>1. {j, k} \in SUBSET (1 .. n)
      OBVIOUS
    <3> QED
      BY <1>3, <2>1, <3>1
  <2>3. j \in 1 .. n + 1 /\ k \in 1 .. n + 1 /\ count + 1 > 2
    BY <1>6
  <2> QED
    BY <1>6, <2>1, <2>2, <2>3 DEF Scanned
<1>7. CASE count > 2
  <2>1. count + 1 > 2
    BY <1>7
  <2> QED
    BY <1>7, <2>1 DEF Scanned
<1> QED
  BY <1>4, <1>5, <1>6, <1>7

LEMMA InitCommand == Init => CommandInv
BY DEF Init, InitQueues, InitLoop, InitHandler, CommandInv, Parsing, Sending,
  GivenInv, Given, Commanding

LEMMA LoopCommand == TypeOK /\ CommandInv /\ Loop => CommandInv'
<1> SUFFICES ASSUME TypeOK, CommandInv, Loop PROVE CommandInv'
  OBVIOUS
<1>1. /\ UNCHANGED handlerVars
      /\ controlQueue' \in {controlQueue, <<>>}
  BY LoopFrame
<1>2. CanReceive(controlQueue) => controlQueue # <<>>
  BY DEF CanReceive
<1>3. /\ \/ controlBuf' \in {controlBuf, Stop}
         \/ controlQueue # <<>> /\ controlBuf' = Head(controlQueue)
      /\ driven' \in {driven, controlBuf}
  BY <1>2 DEF TypeOK, QueuesTypeOK, QueueOf, Loop, LoopStep, queueVars,
    ReadSettings, StampSettings, SkipSettings, ReceiveInput, ZeroInput,
    StampInput, KeepInput, Actuate, SettingsExpire, SettingsStillValid,
    InputExpire, InputStillValid, Peek
<1>4. GivenInv'
  BY <1>1, <1>3 DEF CommandInv, GivenInv, Given
<1>5. Parsing' /\ Sending'
  BY <1>1 DEF handlerVars, localVars, CommandInv, Parsing, Sending, TokensInv,
    ScanInv, Parsed
<1> QED
  BY <1>4, <1>5 DEF CommandInv

LEMMA TickCommand == CommandInv /\ (Tick \/ UNCHANGED vars) => CommandInv'
<1> SUFFICES ASSUME CommandInv, Tick \/ UNCHANGED vars PROVE CommandInv'
  OBVIOUS
<1>1. UNCHANGED <<queueVars, handlerVars, controlBuf, driven>>
  BY DEF Tick, vars, loopVars
<1>2. Parsing' /\ Sending'
  BY <1>1 DEF handlerVars, localVars, CommandInv, Parsing, Sending, TokensInv,
    ScanInv, Parsed
<1>3. GivenInv'
  BY <1>1 DEF queueVars, CommandInv, GivenInv, Given
<1> QED
  BY <1>2, <1>3 DEF CommandInv

-----------------------------------------------------------------------------
(* Entering the handler: nothing was parsed and nothing written.             *)
LEMMA EnterCommand ==
  ASSUME TypeOK, CommandInv, NEW m, Enter(m), m.cmd = "control" => m \in Messages,
         UNCHANGED <<controlBuf, driven>>
  PROVE  CommandInv'
<1>1. GivenInv'
  BY DEF Enter, queueVars, CommandInv, GivenInv, Given
<1>2. Sending'
  BY DEF Enter, FirstStep, Sending
<1>3. Parsing'
  <2> SUFFICES ASSUME m.cmd = "control" PROVE (TokensInv /\ ScanInv)'
    BY DEF Enter, FirstStep, Parsing, Commanding
  <2>1. m \in Messages /\ m.tokens \in Seq(Token) /\ msg' = m /\ tokens' = m.tokens
    BY TokensOf DEF Enter
  <2>2. TokensInv' /\ Parsed' = 0
    BY <2>1 DEF TokensInv, Parsed
  <2>3. coords' = Blank /\ powerAng' = Blank
        /\ validCoords' = 0 /\ validPowerAng' = 0
    BY DEF Enter
  <2>4. \A tags : OnlyAt(m.tokens, 0, tags, {})
    BY DEF OnlyAt
  <2>5. ScanInv'
    BY <2>1, <2>2, <2>3, <2>4 DEF ScanInv, Scanned
  <2> QED
    BY <2>2, <2>5
<1> QED
  BY <1>1, <1>2, <1>3 DEF CommandInv

LEMMA ArriveCommand == TypeOK /\ CommandInv /\ Arrive => CommandInv'
BY EnterCommand DEF Arrive, Receive, loopVars

-----------------------------------------------------------------------------
(* Parsing a token: it is put in the pair of its tag, and counted there.     *)
LEMMA ParseCommand ==
  ASSUME TypeOK, InHand, CommandInv, ParseToken
  PROVE  (TokensInv /\ ScanInv)'
<1>0. PICK t : t = Head(tokens)
  OBVIOUS
<1>1. /\ winc \in Commanding /\ msg.cmd = "control" /\ msg' = msg
      /\ tokens # <<>> /\ tokens' = Tail(tokens)
  BY DEF ParseToken, Commanding, InHand
<1>2. TokensInv /\ ScanInv
  BY <1>1 DEF CommandInv, Parsing
<1>3. tokens \in Seq(Token) /\ msg.tokens \in Seq(Token)
  BY <1>1, <1>2, TokensOf DEF TypeOK, HandlerTypeOK, TokensInv
<1>4. /\ Len(tokens) \in Nat /\ Len(tokens) > 0 /\ Len(tokens') = Len(tokens) - 1
      /\ \A n \in 1 .. Len(tokens') : tokens'[n] = tokens[n + 1]
      /\ t = tokens[1] /\ t \in Token
  BY <1>0, <1>1, <1>3
<1>5. /\ Len(msg.tokens) \in Nat /\ Parsed \in Nat /\ Parsed' = Parsed + 1
      /\ Parsed + 1 <= Len(msg.tokens)
  BY <1>1, <1>2, <1>3, <1>4 DEF TokensInv, Parsed
<1>6. msg.tokens[Parsed + 1] = t
  BY <1>2, <1>4, <1>5 DEF TokensInv
<1>7. TokensInv'
  BY <1>1, <1>2, <1>4, <1>5 DEF TokensInv
<1>8. /\ coords = <<coords[1], coords[2]>> /\ powerAng = <<powerAng[1], powerAng[2]>>
  BY DEF TypeOK, HandlerTypeOK
<1>9. /\ coords' = IF t.tag = "X" THEN <<t.val, coords[2]>>
                   ELSE IF t.tag = "Y" THEN <<coords[1], t.val>> ELSE coords
      /\ powerAng' = IF t.tag = "Pwr" THEN <<t.val, powerAng[2]>>
                     ELSE IF t.tag = "Agl" THEN <<powerAng[1], t.val>> ELSE powerAng
  <2>1. /\ coords' = CASE t.tag = "X" -> [coords EXCEPT ![1] = t.val]
                        [] t.tag = "Y" -> [coords EXCEPT ![2] = t.val]
                        [] OTHER -> coords
        /\ powerAng' = CASE t.tag = "Pwr" -> [powerAng EXCEPT ![1] = t.val]
                          [] t.tag = "Agl" -> [powerAng EXCEPT ![2] = t.val]
                          [] OTHER -> powerAng
    BY <1>0 DEF ParseToken
  <2>2. \A a, b, v : /\ [<<a, b>> EXCEPT ![1] = v] = <<v, b>>
                     /\ [<<a, b>> EXCEPT ![2] = v] = <<a, v>>
    OBVIOUS
  <2>3. /\ [coords EXCEPT ![1] = t.val] = <<t.val, coords[2]>>
        /\ [coords EXCEPT ![2] = t.val] = <<coords[1], t.val>>
        /\ [powerAng EXCEPT ![1] = t.val] = <<t.val, powerAng[2]>>
        /\ [powerAng EXCEPT ![2] = t.val] = <<powerAng[1], t.val>>
    BY <1>8, <2>2
  <2> QED
    BY <2>1, <2>3
<1>10. /\ coords' = IF t.tag \in {XY[1], XY[2]} THEN Put(coords, XY, t) ELSE coords
       /\ powerAng' = IF t.tag \in {PwrAgl[1], PwrAgl[2]} THEN Put(powerAng, PwrAgl, t)
                                                          ELSE powerAng
  BY <1>9 DEF Put, XY, PwrAgl
<1>11. /\ validCoords' = IF t.tag \in {XY[1], XY[2]} THEN validCoords + 1
                                                     ELSE validCoords
       /\ validPowerAng' = IF t.tag \in {PwrAgl[1], PwrAgl[2]} THEN validPowerAng + 1
                                                               ELSE validPowerAng
       /\ validCoords \in Nat /\ validPowerAng \in Nat
  BY <1>0 DEF ParseToken, TypeOK, HandlerTypeOK, XY, PwrAgl
<1>12. Scanned(msg.tokens, Parsed + 1, XY, coords', validCoords')
  BY <1>2, <1>5, <1>6, <1>10, <1>11, ScanStep DEF ScanInv
<1>13. Scanned(msg.tokens, Parsed + 1, PwrAgl, powerAng', validPowerAng')
  BY <1>2, <1>5, <1>6, <1>10, <1>11, ScanStep DEF ScanInv
<1> QED
  BY <1>1, <1>5, <1>7, <1>12, <1>13 DEF ScanInv

-----------------------------------------------------------------------------
(* Sending a pair that was counted to two: its two tokens are the first two  *)
(* of their tags in the message, and they wrote what they tell.              *)
LEMMA ScannedGives ==
  ASSUME NEW m, m.tokens \in Seq(Token), NEW n \in 0 .. Len(m.tokens),
         NEW tags \in {XY, PwrAgl}, NEW pair, Scanned(m.tokens, n, tags, pair, 2),
         NEW item \in Read(pair)
  PROVE  Gives(m, item)
<1>1. PICK j, k \in 1 .. n :
        /\ j < k
        /\ OnlyAt(m.tokens, n, tags, {j, k})
        /\ pair = Put(Put(Blank, tags, m.tokens[j]), tags, m.tokens[k])
  <2>1. 2 # 0 /\ 2 # 1 /\ ~(2 > 2)
    OBVIOUS
  <2> QED
    BY <2>1, Zenon DEF Scanned
<1>2. /\ j \in DOMAIN m.tokens /\ k \in DOMAIN m.tokens
      /\ \A l \in 1 .. k : l \in 1 .. n
  OBVIOUS
<1>3. \A l \in 1 .. k : m.tokens[l].tag \in {tags[1], tags[2]} <=> l \in {j, k}
  BY <1>1, <1>2, Zenon DEF OnlyAt
<1>4. /\ m.tokens[j].val # Unset /\ m.tokens[k].val # Unset
  <2>1. m.tokens[j] \in Token /\ m.tokens[k] \in Token
    BY <1>2
  <2> QED
    BY <2>1 DEF Token
<1>5. \A i \in 1 .. 2 : pair[i] # Unset => item[i] = pair[i]
  BY DEF Read
<1>6. \A i \in 1 .. 2 :
        IF m.tokens[k].tag = tags[i] THEN pair[i] = m.tokens[k].val
        ELSE m.tokens[j].tag = tags[i] => pair[i] = m.tokens[j].val
  BY <1>1 DEF Put
<1>7. \A i \in 1 .. 2 :
        IF m.tokens[k].tag = tags[i] THEN item[i] = m.tokens[k].val
        ELSE m.tokens[j].tag = tags[i] => item[i] = m.tokens[j].val
  BY <1>4, <1>5, <1>6
<1> QED
  BY <1>1, <1>2, <1>3, <1>7 DEF Gives, XY, PwrAgl

LEMMA SendGiven ==
  ASSUME TypeOK, InHand, CommandInv, winc = "send",
         NEW item \in Read(IF validCoords = 2 THEN coords ELSE powerAng)
  PROVE  Given(item)
<1>1. msg.cmd = "control" /\ TokensInv /\ ScanInv
  BY DEF CommandInv, Parsing, Commanding, InHand
<1>2. msg \in Messages /\ msg.tokens \in Seq(Token)
  BY <1>1, TokensOf DEF TokensInv
<1>3. Parsed \in 0 .. Len(msg.tokens)
  <2>1. tokens \in Seq(Token)
    BY DEF TypeOK, HandlerTypeOK
  <2>2. Len(msg.tokens) \in Nat /\ Len(tokens) \in Nat
    BY <1>2, <2>1
  <2> QED
    BY <1>1, <2>2 DEF Parsed, TokensInv
<1>4. Gives(msg, item)
  <2>1. CASE validCoords = 2
    BY <1>1, <1>2, <1>3, <2>1, ScannedGives DEF ScanInv
  <2>2. CASE validCoords # 2
    <3>1. validPowerAng = 2
      BY <2>2 DEF CommandInv, Sending
    <3> QED
      BY <1>1, <1>2, <1>3, <2>2, <3>1, ScannedGives DEF ScanInv
  <2> QED
    BY <2>1, <2>2
<1> QED
  BY <1>1, <1>2, <1>4 DEF Given, Commands, Read

LEMMA HandlerCommand == Inv /\ CommandInv /\ Handler => CommandInv'
<1> SUFFICES ASSUME Inv, CommandInv, Handler PROVE CommandInv'
  OBVIOUS
<1>1. TypeOK /\ InHand /\ UNCHANGED <<controlBuf, driven>>
  BY DEF Inv, Handler, loopVars
<1>2. ASSUME controlQueue' \in {controlQueue, <<>>} PROVE GivenInv'
  BY <1>1, <1>2 DEF CommandInv, GivenInv, Given
<1>3. ASSUME UNCHANGED localVars, winc \in Commanding, winc' \in Commanding PROVE Parsing'
  BY <1>3 DEF localVars, CommandInv, Parsing, TokensInv, ScanInv, Parsed
<1>4. CASE Boot
  <2>1. stored.cmd # "control"
    BY <1>1 DEF TypeOK, HandlerTypeOK, SettingsMessage, OtherMessage
  <2> QED
    BY <1>1, <1>4, <2>1, EnterCommand DEF Boot
<1>5. CASE ParseToken
  <2>1. Parsing'
    BY <1>1, <1>5, ParseCommand DEF Parsing
  <2>2. Sending' /\ GivenInv'
    BY <1>2, <1>5 DEF ParseToken, queueVars, Sending
  <2> QED
    BY <2>1, <2>2 DEF CommandInv
<1>6. CASE ResetControlQueue
  <2>1. Parsing' /\ GivenInv'
    BY <1>2, <1>3, <1>6 DEF ResetControlQueue, QueueReset, Commanding
  <2>2. Sending'
    BY <1>6 DEF ResetControlQueue, localVars, Sending
  <2> QED
    BY <2>1, <2>2 DEF CommandInv
<1>7. CASE SendControl
  <2>1. Parsing' /\ Sending'
    BY <1>3, <1>7 DEF SendControl, Commanding, Sending
  <2>2. PICK item \in Read(IF validCoords = 2 THEN coords ELSE powerAng) :
          controlQueue' = SendToBack(controlQueue, item)
    BY <1>7 DEF SendControl
  <2>3. Given(item)
    BY <1>1, <1>7, <2>2, SendGiven DEF SendControl
  <2>4. controlQueue' = <<item>>
    BY <1>7, <2>2, SendToEmpty DEF SendControl, Inv, Copies
  <2>5. GivenInv'
    BY <1>1, <2>3, <2>4 DEF CommandInv, GivenInv, Given
  <2> QED
    BY <2>1, <2>5 DEF CommandInv
<1>8. CASE \/ NoMoreTokens
           \/ SetDeviceName \/ DeviceNameRefused \/ PersistSettings
           \/ ResetNameQueue \/ SendName \/ ResetSettingsQueue \/ SendSettings
           \/ Return \/ UseDefaults \/ SendDefaults
  <2>1. winc' \notin Commanding /\ controlQueue' = controlQueue
    BY <1>8 DEF Commanding, NoMoreTokens, SetDeviceName, DeviceNameRefused,
      PersistSettings, ResetNameQueue, SendName, ResetSettingsQueue, SendSettings,
      Return, UseDefaults, SendDefaults, queueVars
  <2>2. Parsing' /\ Sending'
    BY <2>1 DEF Parsing, Sending, Commanding
  <2> QED
    BY <1>2, <2>1, <2>2 DEF CommandInv
<1> QED
  BY <1>4, <1>5, <1>6, <1>7, <1>8 DEF Handler, HandlerStep

-----------------------------------------------------------------------------
(* The theorem. *)

(* A command drives the robot as one message gave it, whatever the messages  *)
(* hold and however they erase each other in the queue: two counted tokens   *)
(* are the two that wrote the pair that is sent (protocol.c:76-90).          *)
THEOREM CommandsAreWhole == Spec => []OneMessageDrives
<1>1. Inv /\ CommandInv /\ [Next]_vars => CommandInv'
  BY LoopCommand, HandlerCommand, ArriveCommand, TickCommand DEF Next, Inv
<1>2. Spec => []CommandInv
  BY <1>1, InitCommand, InvHolds, PTL DEF Spec
<1>3. CommandInv => OneMessageDrives
  BY DEF CommandInv, GivenInv, Given, OneMessageDrives
<1> QED
  BY <1>2, <1>3, PTL
-----------------------------------------------------------------------------
(***************************************************************************)
(* The age bound.                                                          *)
(*                                                                         *)
(* The proof bounds Due, the ticks that may pass before the loop reads the *)
(* control queue again: a tick lowers it, no other step raises it, and it  *)
(* is at most ReadInterval.  An input in the queue is then at most         *)
(* ReadInterval - Due ticks old, and one that the loop holds at most       *)
(* AgeBound - Due.                                                         *)
(***************************************************************************)

\* Ticks before the two time-outs of the loop are over.
InputLeft == Remaining(inputTime)
SettingsLeft == Remaining(settingsTime)

\* Ticks before the actuators must be driven again.
Turn == LoopTicks - lag

BreakPossible(ticks) == SettingsLeft <= ticks

\* How often the loop drives the actuators, at most, before it reads the control
\* queue, once the input has expired and while the settings queue is not empty:
\* a break for the settings costs it another pass.
Laps ==
  CASE loopPc = "checkInput" -> 0
    [] loopPc = "checkSettings" -> IF BreakPossible(Turn) THEN 1 ELSE 0
    [] loopPc \in {"settings", "stampSettings"} -> 1
    [] OTHER -> IF BreakPossible(Turn + LoopTicks) THEN 2 ELSE 1

\* The ticks that takes.
Slack == CASE Laps = 0 -> Turn
           [] Laps = 1 -> Turn + LoopTicks
           [] OTHER -> Turn + 2 * LoopTicks

\* What the loop loses while the settings queue is empty, at most.
GapCost == GapTicks + 3 * LoopTicks

\* The settings queue may be emptied before the control queue is read: the
\* handler has new settings in the flash, or may have them there by then.
CanGap ==
  \/ winc \in {"nameReset", "nameSend", "settingsReset"}
  \/ winc = "persist" /\ passes + Laps >= FlashPasses

Overdue == IF GapOpen THEN GapCost - settingsAge
           ELSE IF CanGap THEN Slack + GapCost
           ELSE Slack

OverdueBound == GapCost + 3 * LoopTicks

Due == CASE loopPc = "stampInput" -> Turn + InputValidTicks + OverdueBound
         [] loopPc = "stampNoInput" -> Turn + OverdueBound
         [] loopPc \notin {"stampInput", "stampNoInput"} /\ readControlInput ->
              Turn
         [] OTHER -> IF InputLeft > 0
                       THEN InputLeft + OverdueBound
                       ELSE Overdue

\* Where the loop is tells what its flags and time-outs can be.
LoopShape ==
  /\ readControlInput =>
       loopPc \in {"settings", "stampSettings", "input", "stampInput",
                   "stampNoInput"}
  /\ loopPc \in {"stampInput", "stampNoInput"} => readControlInput
  /\ loopPc = "settings" => checkForSettings \/ readControlInput
  /\ loopPc = "stampSettings" => checkForSettings
  /\ settingsTime.since <= settingsTime.wait
  /\ inputTime.since <= inputTime.wait
  /\ GapOpen => settingsAge <= GapTicks

\* The loop has a new input that the actuators do not follow yet.
Switching == loopPc \in {"stampInput", "stampNoInput", "actuate"}

Aging ==
  /\ controlQueue # <<>> => queueAge + Due <= ReadInterval
  /\ controlBuf # Stop => heldAge + Due <= AgeBound
  /\ driven # Stop =>
       IF Switching THEN drivenAge + Turn <= AgeBound
                    ELSE driven = controlBuf /\ drivenAge = heldAge

\* What holds of the ages when there is nothing to age, too.
Bounded ==
  /\ controlQueue = <<>> => queueAge = 0
  /\ heldAge <= AgeBound
  /\ drivenAge <= AgeBound

AgedInv == Inv /\ AgesTypeOK /\ LoopShape /\ Aging /\ Bounded

USE AgeAssumption

-----------------------------------------------------------------------------
(* Bounds of the two functions of the state. *)

(* A time-out's remaining ticks are a number of ticks, which only a tick      *)
(* lowers, by one (tasks.c:2013).                                             *)
LEMMA RemainingTicks ==
  ASSUME NEW max \in Nat, NEW t \in TimeOut(max), t.since <= t.wait
  PROVE  /\ Remaining(t) \in 0 .. max
         /\ TimedOut(t) <=> Remaining(t) = 0
         /\ Elapse(t).since <= Elapse(t).wait
         /\ Remaining(Elapse(t)) = IF Remaining(t) = 0 THEN 0
                                                       ELSE Remaining(t) - 1
         /\ ~TimedOut(t) => /\ Remaining(Adjusted(t)) = Remaining(t)
                            /\ Adjusted(t).since <= Adjusted(t).wait
BY DEF TimeOut, Remaining, TimedOut, Elapse, Adjusted

LEMMA StampedTicks ==
  ASSUME NEW wait \in Nat
  PROVE  /\ Remaining(SetTimeOut(wait)) = wait
         /\ SetTimeOut(wait).since <= SetTimeOut(wait).wait
BY DEF Remaining, SetTimeOut

(* The values the bound is built from, and the bound itself.                  *)
TicksOK ==
  /\ lag \in Nat /\ Turn \in 0 .. LoopTicks
  /\ settingsAge \in Nat /\ settingsAge <= SettingsWait
  /\ SettingsLeft \in 0 .. SettingsValidTicks
  /\ InputLeft \in 0 .. InputValidTicks
  /\ passes \in 0 .. FlashPasses /\ Laps \in {0, 1, 2}
  /\ Slack \in Turn .. 3 * LoopTicks
  /\ Overdue \in Turn .. OverdueBound
  /\ Due \in Turn .. ReadInterval

LEMMA Ticks == TypeOK /\ LoopShape => TicksOK
<1> SUFFICES ASSUME TypeOK, LoopShape PROVE TicksOK
  OBVIOUS
<1>1. /\ lag \in Nat /\ Turn \in 0 .. LoopTicks
      /\ settingsAge \in Nat /\ settingsAge <= SettingsWait
      /\ passes \in 0 .. FlashPasses /\ Laps \in {0, 1, 2}
  BY WaitType DEF TypeOK, Turn, Laps
<1>2. /\ SettingsLeft \in 0 .. SettingsValidTicks
      /\ InputLeft \in 0 .. InputValidTicks
  BY RemainingTicks DEF InputLeft, SettingsLeft, TypeOK, LoopTypeOK, LoopShape
<1>3. Slack \in Turn .. 3 * LoopTicks
  <2>1. Slack \in {Turn, Turn + LoopTicks, Turn + 2 * LoopTicks}
    BY DEF Slack
  <2> QED
    BY <1>1, <2>1
<1>4. Overdue \in Turn .. OverdueBound
  <2>1. CASE GapOpen
    BY <1>1, <2>1 DEF Overdue, GapCost, OverdueBound, LoopShape
  <2>2. CASE ~GapOpen
    BY <1>1, <1>3, <2>2 DEF Overdue, GapCost, OverdueBound
  <2> QED
    BY <2>1, <2>2
<1>5. Due \in Turn .. ReadInterval
  <2>1. /\ OverdueBound \in Nat /\ OverdueBound >= LoopTicks
        /\ ReadInterval = InputValidTicks + LoopTicks + OverdueBound
    BY DEF OverdueBound, GapCost, ReadInterval
  <2>2. \/ Due = Turn + InputValidTicks + OverdueBound
        \/ Due = Turn + OverdueBound
        \/ Due = Turn
        \/ InputLeft > 0 /\ Due = InputLeft + OverdueBound
        \/ Due = Overdue
    BY DEF Due
  <2> QED
    BY <1>1, <1>2, <1>4, <2>1, <2>2
<1> QED
  BY <1>1, <1>2, <1>3, <1>4, <1>5 DEF TicksOK

LEMMA TicksAfter == TypeOK' /\ LoopShape' => TicksOK'
  BY Ticks, PTL

-----------------------------------------------------------------------------
(* What the handler does to the settings queue: it empties it, or it leaves   *)
(* or fills it and is then no nearer to emptying it: the loop gets further    *)
(* during a write to the flash than it needs to read the control queue.       *)
LEMMA HandlerProgress ==
  ASSUME TypeOK, Handler
  PROVE  \/ /\ winc \in {"settingsReset", "defaultsReset"}
            /\ ~GapOpen /\ GapOpen' /\ settingsAge' = 0
         \/ /\ ~GapOpen' /\ settingsAge' = settingsAge
            /\ GapOpen => ~CanGap'
            /\ CanGap' => CanGap
<1>0. /\ Laps \in {0, 1, 2} /\ Laps' = Laps /\ passes' = 0
      /\ passes \in Nat /\ FlashPasses \in Nat /\ FlashPasses > 2
      /\ winc = "persist" => passes >= FlashPasses
  BY DEF Handler, loopVars, Laps, BreakPossible, Turn, SettingsLeft, TypeOK,
    FlashBusy
<1>1. ~(winc' = "persist" /\ CanGap')
  BY <1>0 DEF CanGap
<1>2. CASE ResetSettingsQueue
  BY <1>2 DEF Handler, ResetSettingsQueue, GapOpen
<1>3. CASE Boot
  BY <1>3 DEF Handler, Boot, Enter, FirstStep, GapOpen, CanGap
<1>4. CASE ParseToken \/ ResetControlQueue \/ SendControl \/ NoMoreTokens
  BY <1>4 DEF Handler, ParseToken, ResetControlQueue, SendControl, NoMoreTokens,
    GapOpen, CanGap
<1>5. CASE SetDeviceName \/ DeviceNameRefused
  BY <1>1, <1>5 DEF Handler, SetDeviceName, DeviceNameRefused, GapOpen, CanGap
<1>6. CASE PersistSettings
  <2>1. CanGap
    BY <1>0, <1>6 DEF PersistSettings, CanGap
  <2> QED
    BY <1>6, <2>1 DEF Handler, PersistSettings, GapOpen
<1>7. CASE ResetNameQueue \/ SendName
  BY <1>7 DEF Handler, ResetNameQueue, SendName, GapOpen, CanGap
<1>8. CASE SendSettings \/ Return \/ UseDefaults \/ SendDefaults
  BY <1>8 DEF Handler, SendSettings, Return, UseDefaults, SendDefaults, GapOpen,
    CanGap
<1> QED
  BY <1>2, <1>3, <1>4, <1>5, <1>6, <1>7, <1>8 DEF Handler, HandlerStep

-----------------------------------------------------------------------------
(* The shape of the loop is invariant. *)

LEMMA LoopKeepsShape ==
  ASSUME TypeOK, LoopShape, Loop
  PROVE  LoopShape'
<1>1. /\ SetTimeOut(SettingsValidTicks).since <= SetTimeOut(SettingsValidTicks).wait
      /\ SetTimeOut(InputValidTicks).since <= SetTimeOut(InputValidTicks).wait
      /\ SetTimeOut(NoInputTicks).since <= SetTimeOut(NoInputTicks).wait
  BY StampedTicks DEF NoInputTicks
<1>2. /\ settingsTime'.since <= settingsTime'.wait
      /\ inputTime'.since <= inputTime'.wait
  BY <1>1, RemainingTicks DEF TypeOK, LoopTypeOK, LoopShape, Loop, LoopStep,
    ReadSettings, StampSettings, SkipSettings, ReceiveInput, ZeroInput,
    StampInput, KeepInput, Actuate, SettingsExpire, SettingsStillValid,
    InputExpire, InputStillValid
<1>3. (GapOpen => settingsAge <= GapTicks)'
  BY DEF LoopShape, Loop, GapOpen, handlerVars
<1>4. /\ (readControlInput =>
            loopPc \in {"settings", "stampSettings", "input", "stampInput",
                       "stampNoInput"})'
      /\ (loopPc \in {"stampInput", "stampNoInput"} => readControlInput)'
      /\ (loopPc = "settings" => checkForSettings \/ readControlInput)'
      /\ (loopPc = "stampSettings" => checkForSettings)'
  BY DEF LoopShape, Loop, LoopStep, ReadSettings, StampSettings, SkipSettings,
    ReceiveInput, ZeroInput, StampInput, KeepInput, Actuate, SettingsExpire,
    SettingsStillValid, InputExpire, InputStillValid
<1> QED
  BY <1>2, <1>3, <1>4 DEF LoopShape

LEMMA OthersKeepShape ==
  ASSUME TypeOK, LoopShape, Handler \/ Arrive \/ Tick \/ UNCHANGED vars
  PROVE  LoopShape'
<1>1. CASE Handler
  <2>1. (GapOpen => settingsAge <= GapTicks)'
    BY <1>1, HandlerProgress
  <2> QED
    BY <1>1, <2>1 DEF Handler, loopVars, LoopShape
<1>2. CASE Arrive
  <2>1. ~GapOpen'
    BY <1>2 DEF Arrive, Receive, Enter, FirstStep, GapOpen
  <2> QED
    BY <1>2, <2>1 DEF Arrive, loopVars, LoopShape
<1>3. CASE Tick
  <2>1. /\ settingsTime'.since <= settingsTime'.wait
        /\ inputTime'.since <= inputTime'.wait
    BY <1>3, RemainingTicks DEF Tick, TypeOK, LoopTypeOK, LoopShape
  <2>2. GapOpen' => settingsAge' <= GapTicks
    BY <1>3 DEF Tick, GapOpen, handlerVars, TypeOK
  <2> QED
    BY <1>3, <2>1, <2>2 DEF Tick, LoopShape
<1>4. CASE UNCHANGED vars
  BY <1>4 DEF vars, loopVars, handlerVars, scheduleVars, LoopShape, GapOpen
<1> QED
  BY <1>1, <1>2, <1>3, <1>4

-----------------------------------------------------------------------------
(* How the steps change Due. *)

LEMMA TickLowersDue ==
  ASSUME TypeOK, LoopShape, LoopShape', TypeOK', Tick
  PROVE  Due' <= Due - 1 /\ Turn' = Turn - 1
<1>0. TicksOK /\ TicksOK'
  BY Ticks, TicksAfter
<1> PICK turn \in Nat, slack \in Nat, overdue \in Nat, age \in Nat, rem \in Nat :
      /\ Turn' = turn /\ Slack' = slack /\ Overdue' = overdue
      /\ settingsAge' = age /\ InputLeft' = rem
  BY <1>0 DEF TicksOK
<1> OverdueBound \in Nat /\ OverdueBound' = OverdueBound
  BY DEF OverdueBound, GapCost
<1>1. /\ Turn' = Turn - 1
      /\ SettingsLeft' = IF SettingsLeft = 0 THEN 0
                                     ELSE SettingsLeft - 1
      /\ InputLeft' = IF InputLeft = 0 THEN 0
                                  ELSE InputLeft - 1
      /\ UNCHANGED <<loopPc, winc, readControlInput, passes>>
      /\ settingsAge' <= settingsAge + 1
      /\ GapOpen => settingsAge' = settingsAge + 1
  <2>1. GapOpen => settingsAge < GapTicks
    BY DEF Tick
  <2>2. settingsAge' = IF settingsAge < SettingsWait THEN settingsAge + 1
                                                         ELSE settingsAge
    BY DEF Tick
  <2>3. /\ settingsAge' <= settingsAge + 1
        /\ GapOpen => settingsAge' = settingsAge + 1
    BY <1>0, <2>1, <2>2, WaitType DEF TicksOK
  <2>4. Turn' = Turn - 1
    BY <1>0 DEF Tick, Turn, TicksOK
  <2> QED
    BY <2>3, <2>4, RemainingTicks DEF InputLeft, SettingsLeft, Tick,
      TypeOK, LoopTypeOK, LoopShape, handlerVars
<1>2. GapOpen' <=> GapOpen
  BY <1>1 DEF GapOpen
<1>3. Laps' = Laps
  BY <1>0, <1>1 DEF Laps, BreakPossible, TicksOK
<1>4. Slack' <= Slack - 1 /\ (CanGap' <=> CanGap)
  BY <1>0, <1>1, <1>3 DEF Slack, CanGap, TicksOK
<1>5. Overdue' <= Overdue - 1
  BY <1>0, <1>1, <1>2, <1>4 DEF Overdue, GapCost, TicksOK
<1> QED
  BY <1>0, <1>1, <1>5 DEF Due, TicksOK

(* A step of the loop other than a read of the control queue does not raise   *)
(* Due, once the settings queue can only be empty while it is refilled.       *)
LEMMA LoopKeepsDue ==
  ASSUME TypeOK, LoopShape, TypeOK', LoopShape', Loop, ~Reading,
         GapOpen \/ settingsQueue # <<>>
  PROVE  Due' <= Due
<1>0. TicksOK /\ TicksOK'
  BY Ticks, TicksAfter
<1> PICK turn \in Nat, slack \in Nat, overdue \in Nat, age \in Nat, rem \in Nat :
      /\ Turn' = turn /\ Slack' = slack /\ Overdue' = overdue
      /\ settingsAge' = age /\ InputLeft' = rem
  BY <1>0 DEF TicksOK
<1> OverdueBound \in Nat /\ OverdueBound' = OverdueBound
  BY DEF OverdueBound, GapCost
<1>t. /\ Turn \in Nat /\ InputLeft \in Nat /\ SettingsLeft \in Nat
      /\ Overdue \in Nat /\ Turn <= Overdue /\ Overdue <= OverdueBound
      /\ Overdue' <= OverdueBound
  BY <1>0 DEF TicksOK
<1>1. GapOpen' <=> GapOpen
  BY DEF Loop, GapOpen, handlerVars
<1>2. settingsAge' = settingsAge /\ winc' = winc
  BY DEF Loop, handlerVars
<1>3. \/ loopPc # "actuate" /\ Turn' = Turn
      \/ loopPc = "actuate" /\ Turn' = LoopTicks
  BY <1>0 DEF Loop, Turn, TicksOK
<1>4. ASSUME IF loopPc = "actuate" THEN Laps' <= Laps - 1 ELSE Laps' <= Laps
      PROVE  Overdue' <= Overdue
  <2> PICK laps \in {0, 1, 2}, count \in Nat : Laps' = laps /\ passes' = count
    BY <1>0 DEF TicksOK
  <2>0. /\ IF loopPc = "actuate" THEN laps <= Laps - 1 ELSE laps <= Laps
        /\ Laps \in {0, 1, 2} /\ passes \in Nat /\ FlashPasses \in Nat
    BY <1>0, <1>4 DEF TicksOK
  <2>1. Slack' <= Slack
    <3>1. /\ slack = IF laps = 0 THEN turn ELSE IF laps = 1 THEN turn + LoopTicks
                     ELSE turn + 2 * LoopTicks
          /\ Slack = IF Laps = 0 THEN Turn ELSE IF Laps = 1 THEN Turn + LoopTicks
                     ELSE Turn + 2 * LoopTicks
      BY <2>0 DEF Slack
    <3>2. IF loopPc = "actuate" THEN turn = LoopTicks ELSE turn = Turn
      BY <1>3
    <3> QED
      BY <1>t, <2>0, <3>1, <3>2
  <2>2. count <= passes + (IF loopPc = "actuate" THEN 1 ELSE 0)
    BY <2>0 DEF Loop
  <2>3. CanGap' => CanGap
    <3>1. CanGap' => \/ winc \in {"nameReset", "nameSend", "settingsReset"}
                     \/ winc = "persist" /\ count + laps >= FlashPasses
      BY <1>2 DEF CanGap
    <3>2. count + laps >= FlashPasses => passes + Laps >= FlashPasses
      BY <2>0, <2>2
    <3> QED
      BY <3>1, <3>2 DEF CanGap
  <2> QED
    BY <1>0, <1>1, <1>2, <2>1, <2>3 DEF Overdue, GapCost, TicksOK
<1>s. ASSUME UNCHANGED <<readControlInput, InputLeft>>,
             loopPc \notin {"stampInput", "stampNoInput"},
             loopPc' \notin {"stampInput", "stampNoInput"},
             readControlInput => Turn' = Turn,
             ~readControlInput => Overdue' <= Overdue
      PROVE  Due' <= Due
  <2>1. CASE readControlInput
    <3>1. Due' = Turn /\ Due = Turn
      BY <1>s, <2>1 DEF Due
    <3> QED
      BY <1>t, <3>1
  <2>2. CASE ~readControlInput
    <3>1. CASE InputLeft > 0
      <4>1. Due' = InputLeft + OverdueBound /\ Due = InputLeft + OverdueBound
        BY <1>s, <2>2, <3>1 DEF Due
      <4> QED
        BY <1>t, <4>1
    <3>2. CASE ~(InputLeft > 0)
      <4>1. Due' = overdue /\ Due = Overdue
        BY <1>s, <2>2, <3>2 DEF Due
      <4> QED
        BY <1>s, <2>2, <4>1
    <3> QED
      BY <3>1, <3>2
  <2> QED
    BY <2>1, <2>2
<1>5. CASE ReadSettings \/ KeepInput
  <2>1. UNCHANGED <<readControlInput, InputLeft, SettingsLeft, Turn>>
    BY <1>3, <1>5 DEF ReadSettings, KeepInput, InputLeft, SettingsLeft
  <2>2. \/ loopPc = "settings" /\ loopPc' = "stampSettings"
        \/ loopPc = "input" /\ loopPc' = "actuate" /\ ~readControlInput
    BY <1>5 DEF ReadSettings, KeepInput
  <2>3. Laps' = Laps
    BY <2>1, <2>2 DEF Laps, BreakPossible
  <2>4. ~readControlInput => Overdue' <= Overdue
    <3>1. CASE loopPc = "settings" \/ loopPc = "input"
      BY <1>0, <1>4, <2>3, <3>1 DEF TicksOK
    <3> QED
      BY <2>2, <3>1
  <2> QED
    BY <1>s, <2>1, <2>2, <2>4
<1>6. CASE StampSettings
  <2>1. /\ UNCHANGED <<readControlInput, InputLeft, Turn>>
        /\ loopPc = "stampSettings" /\ loopPc' = "input"
        /\ SettingsLeft' = SettingsValidTicks
    BY <1>3, <1>6, StampedTicks DEF StampSettings, InputLeft, SettingsLeft
  <2>2. Laps = 1 /\ Laps' = 1
    <3>1. ~BreakPossible(Turn + LoopTicks)'
      BY <1>0, <2>1 DEF BreakPossible, TicksOK
    <3> QED
      BY <2>1, <3>1 DEF Laps
  <2> QED
    BY <1>s, <1>4, <2>1, <2>2
<1>7. CASE SkipSettings
  <2>1. /\ UNCHANGED <<readControlInput, InputLeft, Turn>>
        /\ loopPc = "settings" /\ loopPc' = "input"
        /\ ~readControlInput => GapOpen
    BY <1>3, <1>7 DEF SkipSettings, LoopShape, CanReceive, InputLeft
  <2>2. GapOpen => Overdue' = Overdue
    BY <1>1, <1>2 DEF Overdue
  <2> QED
    BY <1>s, <1>t, <2>1, <2>2
<1>8. CASE StampInput
  <2>1. /\ loopPc' = "actuate" /\ ~readControlInput' /\ Turn' = Turn
        /\ \/ /\ loopPc = "stampInput"
              /\ InputLeft' = InputValidTicks
           \/ /\ loopPc = "stampNoInput"
              /\ InputLeft' = 0
    BY <1>3, <1>8, StampedTicks DEF StampInput, NoInputTicks, InputLeft
  <2>2. CASE loopPc = "stampInput"
    <3>1. /\ Due = Turn + InputValidTicks + OverdueBound
          /\ Due' = InputValidTicks + OverdueBound
      BY <2>1, <2>2 DEF Due
    <3> QED
      BY <1>t, <3>1
  <2>3. CASE loopPc = "stampNoInput"
    <3>1. Due = Turn + OverdueBound /\ Due' = overdue
      BY <2>1, <2>3 DEF Due
    <3> QED
      BY <1>t, <3>1
  <2> QED
    BY <2>1, <2>2, <2>3
<1>9. CASE Actuate
  <2>1. /\ UNCHANGED <<readControlInput, InputLeft, SettingsLeft>>
        /\ loopPc = "actuate" /\ loopPc' = "checkSettings" /\ ~readControlInput
    BY <1>9 DEF Actuate, LoopShape, InputLeft, SettingsLeft
  <2>2. Laps' <= Laps - 1
    <3>1. Turn' = LoopTicks
      BY <1>3, <2>1
    <3>2. CASE SettingsLeft <= LoopTicks
      <4>1. BreakPossible(Turn + LoopTicks)
        BY <1>t, <3>2 DEF BreakPossible
      <4> QED
        BY <2>1, <4>1 DEF Laps
    <3>3. CASE ~(SettingsLeft <= LoopTicks)
      <4>1. ~BreakPossible(Turn)'
        BY <2>1, <3>1, <3>3 DEF BreakPossible
      <4> QED
        BY <2>1, <4>1 DEF Laps
    <3> QED
      BY <3>2, <3>3
  <2> QED
    BY <1>s, <1>4, <2>1, <2>2
<1>10. CASE SettingsExpire \/ SettingsStillValid
  <2>1. /\ loopPc = "checkSettings" /\ loopPc' \in {"settings", "checkInput"}
        /\ UNCHANGED <<readControlInput, InputLeft, Turn>> /\ ~readControlInput
        /\ loopPc' = "settings" => SettingsLeft = 0
    BY <1>3, <1>10, RemainingTicks DEF SettingsExpire, SettingsStillValid,
      TypeOK, LoopTypeOK, LoopShape, InputLeft, SettingsLeft
  <2>2. Laps' <= Laps
    <3>1. CASE loopPc' = "settings"
      <4>1. BreakPossible(Turn)
        BY <1>t, <2>1, <3>1 DEF BreakPossible
      <4> QED
        BY <2>1, <3>1, <4>1 DEF Laps
    <3>2. CASE loopPc' = "checkInput"
      BY <2>1, <3>2 DEF Laps
    <3> QED
      BY <2>1, <3>1, <3>2
  <2> QED
    BY <1>s, <1>4, <2>1, <2>2
<1>11. CASE InputExpire
  <2>1. /\ loopPc = "checkInput" /\ loopPc' = "settings" /\ readControlInput'
        /\ ~readControlInput /\ Turn' = Turn
    BY <1>3, <1>11 DEF InputExpire, LoopShape
  <2>2. Due' = Turn /\ Due \in {InputLeft + OverdueBound, Overdue}
    BY <2>1 DEF Due
  <2> QED
    BY <1>t, <2>2
<1>12. CASE InputStillValid
  <2>1. /\ loopPc = "checkInput" /\ loopPc' = "actuate"
        /\ UNCHANGED readControlInput /\ ~readControlInput
        /\ InputLeft' = InputLeft
        /\ InputLeft # 0
    BY <1>12, RemainingTicks DEF InputStillValid, TypeOK, LoopTypeOK,
      LoopShape, InputLeft
  <2>2. InputLeft > 0
    BY <1>t, <2>1
  <2>3. /\ Due = InputLeft + OverdueBound
        /\ Due' = InputLeft + OverdueBound
    BY <2>1, <2>2 DEF Due
  <2> QED
    BY <1>t, <2>3
<1> QED
  BY <1>5, <1>6, <1>7, <1>8, <1>9, <1>10, <1>11, <1>12 DEF Loop, LoopStep,
    ReceiveInput, ZeroInput, Reading

(* Nor does a step of task_winc, once the robot is up.                        *)
LEMMA WincKeepsDue ==
  ASSUME TypeOK, LoopShape, TypeOK', LoopShape', Handler \/ Arrive, winc # "boot",
         winc # "defaultsReset"
  PROVE  Due' <= Due
<1>0. TicksOK /\ TicksOK'
  BY Ticks, TicksAfter
<1> PICK turn \in Nat, slack \in Nat, overdue \in Nat, age \in Nat, rem \in Nat :
      /\ Turn' = turn /\ Slack' = slack /\ Overdue' = overdue
      /\ settingsAge' = age /\ InputLeft' = rem
  BY <1>0 DEF TicksOK
<1> OverdueBound \in Nat /\ OverdueBound' = OverdueBound
  BY DEF OverdueBound, GapCost
<1>1. UNCHANGED <<loopPc, readControlInput, InputLeft, Turn, Laps, Slack>>
  BY DEF Handler, Arrive, loopVars, scheduleVars, Turn, Laps, Slack,
    BreakPossible, InputLeft, SettingsLeft
<1>2. Overdue' <= Overdue
  <2>1. CASE /\ winc = "settingsReset" /\ ~GapOpen /\ GapOpen'
             /\ settingsAge' = 0
    BY <1>0, <2>1 DEF Overdue, CanGap, GapCost, TicksOK
  <2>2. CASE /\ ~GapOpen' /\ settingsAge' = settingsAge /\ GapOpen
             /\ ~CanGap'
    <3>1. settingsAge <= GapTicks
      BY <2>2 DEF LoopShape
    <3> QED
      BY <1>0, <1>1, <2>2, <3>1 DEF Overdue, TicksOK, GapCost
  <2>3. CASE /\ ~GapOpen' /\ settingsAge' = settingsAge /\ ~GapOpen
             /\ CanGap' => CanGap
    BY <1>0, <1>1, <2>3 DEF Overdue, TicksOK, GapCost
  <2>4. CASE Arrive
    <3>1. ~GapOpen /\ ~GapOpen' /\ ~CanGap' /\ settingsAge' = settingsAge
      BY <2>4 DEF Arrive, Receive, Enter, FirstStep, GapOpen, CanGap, scheduleVars
    <3> QED
      BY <1>0, <1>1, <3>1 DEF Overdue, TicksOK, GapCost
  <2>5. CASE Handler
    BY <2>1, <2>2, <2>3, <2>5, HandlerProgress
  <2> QED
    BY <2>4, <2>5
<1> QED
  BY <1>0, <1>1, <1>2 DEF Due, TicksOK

-----------------------------------------------------------------------------
(* The ages respect the bound. *)

LEMMA Bounds ==
  /\ ReadInterval \in Nat /\ ReadInterval' = ReadInterval
  /\ AgeBound \in Nat /\ AgeBound = 2 * ReadInterval /\ AgeBound' = AgeBound
BY DEF ReadInterval, AgeBound

LEMMA AgesType ==
  ASSUME AgesTypeOK, [AgedNext]_agedVars
  PROVE  AgesTypeOK'
<1>1. \A age \in 0 .. MaxAge : Older(age) \in 0 .. MaxAge
  BY DEF Older
<1>2. 0 \in 0 .. MaxAge
  OBVIOUS
<1> QED
  BY <1>1, <1>2 DEF AgesTypeOK, AgedNext, AgedLoop, AgedHandler, AgedArrive,
    AgedTick, agedVars, ageVars

(* The steps between the invariant parts that are proved above.               *)
LEMMA ShapeInv ==
  ASSUME Inv, LoopShape, [AgedNext]_agedVars
  PROVE  Inv' /\ LoopShape'
<1>1. [Next]_vars
  BY DEF AgedNext, AgedLoop, AgedHandler, AgedArrive, AgedTick, Next, agedVars
<1> QED
  BY <1>1, LoopInv, HandlerInv, ArriveInv, TickInv, LoopKeepsShape,
    OthersKeepShape DEF Inv, Next

(* While the flash memory is restored there is no input to age.               *)
LEMMA BootingAges ==
  ASSUME Inv, Inv', booting, [AgedNext]_agedVars
  PROVE  Aging'
<1>1. booting' \/ UNCHANGED <<controlQueue, controlBuf, driven>>
  <2>1. CASE Handler
    BY <2>1 DEF Handler, HandlerStep, loopVars, Boot, Enter, queueVars,
      ParseToken, ResetControlQueue, SendControl, NoMoreTokens, SetDeviceName,
      DeviceNameRefused, PersistSettings, ResetNameQueue, SendName,
      ResetSettingsQueue, SendSettings, Return, UseDefaults, SendDefaults
  <2>2. CASE Loop \/ Tick \/ Arrive
    BY <2>2 DEF Loop, Tick, Arrive, Receive, Enter, handlerVars
  <2>3. CASE UNCHANGED vars
    BY <2>3 DEF vars, queueVars, loopVars
  <2> QED
    BY <2>1, <2>2, <2>3 DEF AgedNext, AgedLoop, AgedHandler, AgedArrive,
      AgedTick, agedVars
<1>2. controlQueue' = <<>> /\ controlBuf' = Stop /\ driven' = Stop
  BY <1>1 DEF Inv, Booting
<1> QED
  BY <1>2 DEF Aging

LEMMA LoopAges ==
  ASSUME AgedInv, Inv', LoopShape', AgedLoop, ~booting
  PROVE  Aging'
<1>0. TicksOK /\ TicksOK'
  BY Ticks, TicksAfter DEF AgedInv, Inv
<1> PICK turn \in Nat, due \in Nat : Turn' = turn /\ Due' = due
  BY <1>0 DEF TicksOK
<1>1. /\ Turn \in Nat /\ Due \in Nat /\ Turn <= Due
      /\ due <= ReadInterval
      /\ queueAge \in Nat /\ heldAge \in Nat /\ drivenAge \in Nat
  BY <1>0, Bounds DEF TicksOK, AgedInv, AgesTypeOK
<1>2. CASE Reading
  <2>1. /\ ReceiveInput \/ ZeroInput
        /\ turn = Turn
        /\ queueAge' = 0 /\ drivenAge' = drivenAge
        /\ CanReceive(controlQueue) => heldAge' = queueAge
    BY <1>2 DEF AgedLoop, Loop, LoopStep, Reading, Turn, ReadSettings,
      StampSettings, SkipSettings, StampInput, KeepInput, Actuate,
      SettingsExpire, SettingsStillValid, InputExpire, InputStillValid
  <2>2. controlQueue' = <<>>
    BY <2>1, QueueItems DEF AgedInv, Inv, TypeOK, QueuesTypeOK, ReceiveInput,
      ZeroInput, CanReceive, queueVars
  <2>3. controlBuf' # Stop => heldAge' = queueAge /\ queueAge + due <= AgeBound
    <3>1. controlBuf' # Stop => heldAge' = queueAge /\ controlQueue # <<>>
      BY <2>1 DEF ReceiveInput, ZeroInput, CanReceive
    <3> QED
      BY <1>1, <3>1, Bounds DEF AgedInv, Aging
  <2>4. /\ Switching' /\ driven' = driven
        /\ driven # Stop => drivenAge + Turn <= AgeBound
    <3>1. /\ Switching' /\ driven' = driven /\ ~Switching
      BY <1>2, <2>1 DEF Switching, Reading, ReceiveInput, ZeroInput
    <3>2. driven # Stop => drivenAge = heldAge /\ heldAge + Due <= AgeBound
      BY <3>1 DEF AgedInv, Aging
    <3> QED
      BY <1>1, <3>1, <3>2, Bounds
  <2> QED
    BY <2>1, <2>2, <2>3, <2>4, Bounds DEF Aging
<1>3. CASE ~Reading
  <2>1. due <= Due
    BY <1>3, LoopKeepsDue DEF AgedInv, Inv, Booting, AgedLoop
  <2>2. /\ UNCHANGED <<controlQueue, controlBuf, queueAge, heldAge>>
        /\ IF loopPc = "actuate"
             THEN driven' = controlBuf /\ drivenAge' = heldAge /\ ~Switching'
             ELSE /\ UNCHANGED <<driven, drivenAge>> /\ turn = Turn
                  /\ Switching => Switching'
    BY <1>3 DEF AgedLoop, Loop, LoopStep, Reading, Turn, Switching, queueVars,
      ReadSettings, StampSettings, SkipSettings, ReceiveInput, ZeroInput,
      StampInput, KeepInput, Actuate, SettingsExpire, SettingsStillValid,
      InputExpire, InputStillValid
  <2>3. /\ controlQueue' # <<>> => queueAge + due <= ReadInterval
        /\ controlBuf' # Stop => heldAge + due <= AgeBound
    BY <1>1, <2>1, <2>2, Bounds DEF AgedInv, Aging
  <2>4. CASE loopPc = "actuate"
    BY <2>2, <2>3, <2>4, Bounds DEF Aging
  <2>5. CASE loopPc # "actuate"
    <3>1. driven # Stop /\ Switching' => drivenAge + Turn <= AgeBound
      BY <1>1, Bounds DEF AgedInv, Aging
    <3> QED
      BY <2>2, <2>3, <2>5, <3>1, Bounds DEF AgedInv, Aging
  <2> QED
    BY <2>4, <2>5
<1> QED
  BY <1>2, <1>3

LEMMA WincAges ==
  ASSUME AgedInv, Inv', LoopShape', AgedHandler \/ AgedArrive, ~booting
  PROVE  Aging'
<1>0. TicksOK /\ TicksOK'
  BY Ticks, TicksAfter DEF AgedInv, Inv
<1> PICK due \in Nat : Due' = due
  BY <1>0 DEF TicksOK
<1>1. /\ Turn \in Nat /\ Due \in Nat /\ due <= ReadInterval
      /\ queueAge \in Nat /\ heldAge \in Nat /\ drivenAge \in Nat
  BY <1>0, Bounds DEF TicksOK, AgedInv, AgesTypeOK
<1>2. due <= Due
  BY WincKeepsDue DEF AgedInv, Inv, Booting, AgedHandler, AgedArrive
<1>3. /\ UNCHANGED <<controlBuf, driven, heldAge, drivenAge, Turn>>
      /\ Switching' = Switching
  BY DEF AgedHandler, AgedArrive, Handler, Arrive, loopVars, scheduleVars,
    ageVars, Turn, Switching
<1>4. queueAge' = 0 \/ UNCHANGED <<controlQueue, queueAge>>
  BY DEF AgedHandler, AgedArrive, ageVars, Arrive, Receive, Handler,
    HandlerStep, queueVars, Boot, Enter, ParseToken, ResetControlQueue,
    SendControl, NoMoreTokens, SetDeviceName, DeviceNameRefused,
    PersistSettings, ResetNameQueue, SendName, ResetSettingsQueue,
    SendSettings, Return, UseDefaults, SendDefaults
<1>5. controlQueue' # <<>> => \E q \in Nat : queueAge' = q /\ q + due <= ReadInterval
  BY <1>1, <1>2, <1>4, Bounds DEF AgedInv, Aging
<1>6. controlBuf # Stop => heldAge + due <= AgeBound
  BY <1>1, <1>2, Bounds DEF AgedInv, Aging
<1>7. (controlQueue # <<>> => queueAge + Due <= ReadInterval)'
  BY <1>5, Bounds
<1> QED
  BY <1>3, <1>6, <1>7, Bounds DEF AgedInv, Aging

LEMMA TickAges ==
  ASSUME AgedInv, Inv', LoopShape', AgedTick
  PROVE  Aging'
<1>0. TicksOK /\ TicksOK'
  BY Ticks, TicksAfter DEF AgedInv, Inv
<1>1. AgesTypeOK'
  BY AgesType DEF AgedInv, AgedNext
<1> PICK turn \in Nat, due \in Nat, q \in Nat, h \in Nat, d \in Nat :
      /\ Turn' = turn /\ Due' = due
      /\ queueAge' = q /\ heldAge' = h /\ drivenAge' = d
  BY <1>0, <1>1 DEF TicksOK, AgesTypeOK
<1>2. /\ Turn \in Nat /\ Due \in Nat
      /\ queueAge \in Nat /\ heldAge \in Nat /\ drivenAge \in Nat
  BY <1>0 DEF TicksOK, AgedInv, AgesTypeOK
<1>3. due <= Due - 1 /\ turn = Turn - 1
  BY TickLowersDue DEF AgedInv, Inv, AgedTick
<1>4. /\ UNCHANGED <<controlQueue, controlBuf, driven>>
      /\ Switching' = Switching
  BY DEF AgedTick, Tick, queueVars, Switching
<1>5. /\ q = IF controlQueue = <<>> THEN 0 ELSE Older(queueAge)
      /\ h = IF controlBuf = Stop THEN 0 ELSE Older(heldAge)
      /\ d = IF driven = Stop THEN 0 ELSE Older(drivenAge)
  BY DEF AgedTick
<1>6. /\ q <= queueAge + 1 /\ h <= heldAge + 1 /\ d <= drivenAge + 1
  BY <1>2, <1>5 DEF Older
<1>7. /\ controlQueue # <<>> => q + due <= ReadInterval
      /\ controlBuf # Stop => h + due <= AgeBound
  BY <1>2, <1>3, <1>6, Bounds DEF AgedInv, Aging
<1>8. driven # Stop => IF Switching THEN d + turn <= AgeBound
                                    ELSE driven = controlBuf /\ d = h
  BY <1>2, <1>3, <1>5, <1>6, Bounds DEF AgedInv, Aging
<1> QED
  BY <1>4, <1>7, <1>8, Bounds DEF Aging

LEMMA StaysBounded ==
  ASSUME AgedInv, TypeOK', LoopShape', Aging', AgesTypeOK', [AgedNext]_agedVars
  PROVE  Bounded'
<1>0. TicksOK /\ TicksOK'
  BY Ticks, TicksAfter DEF AgedInv, Inv
<1> PICK turn \in Nat, due \in Nat, h \in Nat, d \in Nat :
      Turn' = turn /\ Due' = due /\ heldAge' = h /\ drivenAge' = d
  BY <1>0 DEF TicksOK, AgesTypeOK
<1>1. CASE UNCHANGED agedVars
  BY <1>1, Bounds DEF agedVars, ageVars, vars, queueVars, AgedInv, Bounded
<1>2. CASE AgedTick
  <2>1. /\ controlQueue' = <<>> => queueAge' = 0
        /\ h = IF controlBuf' = Stop THEN 0 ELSE Older(heldAge)
        /\ d = IF driven' = Stop THEN 0 ELSE Older(drivenAge)
    BY <1>2 DEF AgedTick, Tick, queueVars
  <2>2. controlBuf' # Stop => h <= AgeBound
    BY Bounds DEF Aging
  <2>3. driven' # Stop => d <= AgeBound
    <3>1. driven' # Stop => IF Switching' THEN d + turn <= AgeBound
                                         ELSE driven' = controlBuf' /\ d = h
      BY Bounds DEF Aging
    <3> QED
      BY <2>2, <3>1, Bounds
  <2> QED
    BY <2>1, <2>2, <2>3, Bounds DEF Bounded
<1>3. CASE AgedLoop
  <2>1. queueAge <= AgeBound
    BY <1>0, Bounds DEF TicksOK, AgedInv, Aging, Bounded, AgesTypeOK
  <2>2. /\ heldAge' \in {heldAge, queueAge} /\ drivenAge' \in {drivenAge, heldAge}
        /\ controlQueue' = <<>> => queueAge' = 0
    BY <1>3 DEF AgedLoop, Loop, LoopStep, Reading, AgedInv, Bounded, queueVars,
      ReadSettings, StampSettings, SkipSettings, ReceiveInput, ZeroInput,
      StampInput, KeepInput, Actuate, SettingsExpire, SettingsStillValid,
      InputExpire, InputStillValid
  <2> QED
    BY <2>1, <2>2, Bounds DEF AgedInv, Bounded
<1>4. CASE AgedHandler \/ AgedArrive
  <2>1. /\ UNCHANGED <<heldAge, drivenAge>>
        /\ queueAge' = 0 \/ UNCHANGED <<controlQueue, queueAge>>
    BY <1>4 DEF AgedHandler, AgedArrive, ageVars, Arrive, Receive, Handler,
      HandlerStep, queueVars, Boot, Enter, ParseToken, ResetControlQueue,
      SendControl, NoMoreTokens, SetDeviceName, DeviceNameRefused,
      PersistSettings, ResetNameQueue, SendName, ResetSettingsQueue,
      SendSettings, Return, UseDefaults, SendDefaults
  <2> QED
    BY <2>1, Bounds DEF AgedInv, Bounded
<1> QED
  BY <1>1, <1>2, <1>3, <1>4 DEF AgedNext

LEMMA AgedInvInit == AgedInit => AgedInv
<1> SUFFICES ASSUME AgedInit PROVE AgedInv
  OBVIOUS
<1>1. Inv
  BY InitInv DEF AgedInit
<1>2. LoopShape
  BY StampedTicks DEF AgedInit, Init, InitLoop, InitHandler, LoopShape, GapOpen
<1>3. AgesTypeOK /\ Bounded
  BY Bounds DEF AgedInit, AgesTypeOK, Bounded
<1>4. Aging
  BY DEF AgedInit, Init, InitLoop, InitQueues, Aging
<1> QED
  BY <1>1, <1>2, <1>3, <1>4 DEF AgedInv

LEMMA AgedInvStep == AgedInv /\ [AgedNext]_agedVars => AgedInv'
<1> SUFFICES ASSUME AgedInv, [AgedNext]_agedVars PROVE AgedInv'
  OBVIOUS
<1>1. Inv' /\ LoopShape'
  BY ShapeInv DEF AgedInv
<1>2. AgesTypeOK'
  BY AgesType DEF AgedInv
<1>3. Aging'
  <2>1. CASE booting
    BY <1>1, <2>1, BootingAges DEF AgedInv
  <2>2. CASE ~booting /\ AgedNext
    BY <1>1, <2>2, LoopAges, WincAges, TickAges DEF AgedNext
  <2>3. CASE UNCHANGED agedVars
    BY <2>3, Bounds DEF agedVars, ageVars, vars, queueVars, loopVars,
      scheduleVars, AgedInv, Aging, Due, Overdue, Slack, Laps, BreakPossible,
      CanGap, InputLeft, SettingsLeft, Turn, GapOpen, handlerVars, Switching
  <2> QED
    BY <2>1, <2>2, <2>3
<1> QED
  BY <1>1, <1>2, <1>3, StaysBounded DEF AgedInv, Inv

LEMMA AgedInvHolds == AgedSpec => []AgedInv
  BY AgedInvInit, AgedInvStep, PTL DEF AgedSpec

-----------------------------------------------------------------------------
(* The results. *)

(* The variables keep their types, and no age reaches the end of its scale:   *)
(* counting to MaxAge loses nothing (RobotAges).                              *)
THEOREM AgedTypeCorrect == AgedSpec => []AgedTypeOK
<1>1. AgedInv => AgedTypeOK
  BY DEF AgedInv, Inv, AgedTypeOK
<1> QED
  BY <1>1, AgedInvHolds, PTL

(* The actuators never follow a control input that was queued more than two   *)
(* reading intervals ago (freertos_tasks.h:206-259).                          *)
THEOREM StaleInputsStop == AgedSpec => []StaleInputStops
<1>1. AgedInv => StaleInputStops
  BY DEF AgedInv, Bounded, StaleInputStops
<1> QED
  BY <1>1, AgedInvHolds, PTL

(* Every step of the robot is a step of a dead man's switch, or none of its   *)
(* steps: the safety part of ImplementsDeadMan.                               *)
THEOREM RefinesDeadMan ==
  AgedSpec => DeadMan!Init /\ [][DeadMan!Next]_<<driven, drivenAge>>
<1>1. AgedInit => DeadMan!Init
  BY DEF AgedInit, Init, InitLoop, DeadMan!Init
<1>2. AgedInv /\ AgedInv' /\ [AgedNext]_agedVars
        => [DeadMan!Next]_<<driven, drivenAge>>
  <2> SUFFICES ASSUME AgedInv, AgedInv', [AgedNext]_agedVars,
                      ~UNCHANGED <<driven, drivenAge>>
               PROVE  DeadMan!Next
    OBVIOUS
  <2>1. CASE AgedTick
    <3>1. driven' = driven
      BY <2>1 DEF AgedTick, Tick
    <3>2. CASE driven = Stop
      BY <2>1, <3>1, <3>2, Bounds DEF AgedTick, DeadMan!Next, DeadMan!Rest
    <3>3. CASE driven # Stop
      <4>1. drivenAge \in Nat /\ drivenAge <= AgeBound
        BY DEF AgedInv, AgesTypeOK, Bounded
      <4>2. drivenAge' = drivenAge + 1
        BY <2>1, <3>3, <4>1, Bounds DEF AgedTick, Older
      <4>3. drivenAge + 1 <= AgeBound
        BY <4>2, Bounds DEF AgedInv, Bounded
      <4> QED
        BY <3>1, <3>3, <4>1, <4>2, <4>3, Bounds DEF DeadMan!Next, DeadMan!Hold
    <3> QED
      BY <3>2, <3>3
  <2>2. CASE AgedLoop
    <3>1. /\ driven' = controlBuf /\ drivenAge' = heldAge
      BY <2>2 DEF AgedLoop, Loop, LoopStep, ReadSettings, StampSettings,
        SkipSettings, ReceiveInput, ZeroInput, StampInput, KeepInput, Actuate,
        SettingsExpire, SettingsStillValid, InputExpire, InputStillValid
    <3>2. heldAge \in 0 .. AgeBound /\ controlBuf \in ControlItem
      BY Bounds DEF AgedInv, AgesTypeOK, Bounded, Inv, TypeOK, LoopTypeOK
    <3> QED
      BY <3>1, <3>2 DEF DeadMan!Next, DeadMan!Engage, DeadMan!Release,
        DeadMan!Rest
  <2>3. ~AgedHandler /\ ~AgedArrive /\ ~UNCHANGED agedVars
    BY DEF AgedHandler, AgedArrive, Handler, Arrive, agedVars, ageVars, vars,
      loopVars
  <2> QED
    BY <2>1, <2>2, <2>3 DEF AgedNext
<1> QED
  BY <1>1, <1>2, AgedInvHolds, PTL DEF AgedSpec

-----------------------------------------------------------------------------
(***************************************************************************)
(* How long the loop may run with settings that were changed.              *)
(*                                                                         *)
(* Again the proof bounds what is left: SettingsDue, the ticks that may    *)
(* pass before the loop reads the settings queue, if it is not empty.      *)
(***************************************************************************)

\* What the loop may lose between the end of the time-out and the read.
AfterExpiry == 2 * LoopTicks - 1

SettingsDue ==
  CASE loopPc = "stampSettings" -> Turn + SettingsValidTicks + AfterExpiry
    [] loopPc = "settings" /\ checkForSettings -> Turn
    [] loopPc = "checkSettings" /\ SettingsLeft = 0 -> Turn
    [] OTHER -> IF SettingsLeft > 0 THEN SettingsLeft + AfterExpiry
                                    ELSE Turn + LoopTicks

\* The settings are read within the bound, counted from their change.
InTime(ticks) ==
  \E wait \in {GapTicks, LoopTicks} :
    settingsAge + ticks <= wait + SettingsValidTicks + AfterExpiry

ReadSoon ==
  settingsQueue # <<>> => settingsBuf = Peek(settingsQueue) \/ InTime(SettingsDue)

\* While the queue is empty the loop does not get to the stamp: if it is
\* there, it had read the queue before.
StampBeforeGap == GapOpen /\ loopPc = "stampSettings" => settingsAge <= lag

SettingsInv == Inv /\ LoopShape /\ StampBeforeGap /\ ReadSoon

(* Where the loop is, the bound is a number of ticks, and the larger part of  *)
(* it is the time for which the settings are trusted.                         *)
SettingsTicksOK ==
  /\ lag \in Nat /\ settingsAge \in 0 .. SettingsWait
  /\ Turn \in 0 .. LoopTicks /\ Turn = LoopTicks - lag
  /\ SettingsLeft \in 0 .. SettingsValidTicks
  /\ AfterExpiry \in Nat /\ AfterExpiry = 2 * LoopTicks - 1
  /\ SettingsDue \in Nat
  /\ loopPc # "stampSettings" =>
       SettingsDue <= SettingsValidTicks + AfterExpiry

LEMMA SettingsTicks == TypeOK /\ LoopShape => SettingsTicksOK
<1> SUFFICES ASSUME TypeOK, LoopShape PROVE SettingsTicksOK
  OBVIOUS
<1>1. /\ lag \in Nat /\ settingsAge \in 0 .. SettingsWait
      /\ Turn \in 0 .. LoopTicks /\ Turn = LoopTicks - lag
  BY DEF TypeOK, Turn
<1>2. SettingsLeft \in 0 .. SettingsValidTicks
  BY RemainingTicks DEF SettingsLeft, TypeOK, LoopTypeOK, LoopShape
<1>3. AfterExpiry \in Nat /\ AfterExpiry = 2 * LoopTicks - 1
  BY DEF AfterExpiry
<1>4. \/ /\ SettingsDue = Turn + SettingsValidTicks + AfterExpiry
         /\ loopPc = "stampSettings"
      \/ SettingsDue = Turn
      \/ SettingsLeft > 0 /\ SettingsDue = SettingsLeft + AfterExpiry
      \/ SettingsDue = Turn + LoopTicks
  BY DEF SettingsDue
<1> QED
  BY <1>1, <1>2, <1>3, <1>4 DEF SettingsTicksOK

LEMMA SettingsTicksAfter == TypeOK' /\ LoopShape' => SettingsTicksOK'
  BY SettingsTicks, PTL

(* A step of the loop reads the settings or does not raise the bound          *)
(* (freertos_tasks.h:196-259).                                                *)
LEMMA LoopKeepsSettingsDue ==
  ASSUME TypeOK, LoopShape, TypeOK', LoopShape', Loop, settingsQueue # <<>>,
         ~ReadSettings
  PROVE  /\ UNCHANGED <<settingsBuf, settingsAge>>
         /\ SettingsDue' <= SettingsDue
<1> PICK due \in Nat : SettingsDue' = due
  BY SettingsTicksAfter DEF SettingsTicksOK
<1>1. UNCHANGED <<settingsBuf, settingsAge>>
  BY DEF Loop, LoopStep, StampSettings, SkipSettings, ReceiveInput, ZeroInput,
    StampInput, KeepInput, Actuate, SettingsExpire, SettingsStillValid,
    InputExpire, InputStillValid
<1>2. /\ Turn \in 0 .. LoopTicks
      /\ SettingsLeft \in 0 .. SettingsValidTicks
      /\ AfterExpiry \in Nat /\ AfterExpiry = 2 * LoopTicks - 1
      /\ AfterExpiry' = AfterExpiry
      /\ TimedOut(settingsTime) <=> SettingsLeft = 0
  BY SettingsTicks, RemainingTicks DEF SettingsTicksOK, AfterExpiry, TypeOK, LoopTypeOK,
    LoopShape, SettingsLeft
<1>3. loopPc # "actuate" => Turn' = Turn
  BY DEF Loop, Turn
<1>4. CASE StampSettings
  <2>1. /\ SettingsLeft' = SettingsValidTicks
        /\ loopPc = "stampSettings" /\ loopPc' = "input"
    BY <1>4, StampedTicks DEF StampSettings, SettingsLeft
  <2>2. SettingsDue = Turn + SettingsValidTicks + AfterExpiry
    BY <2>1 DEF SettingsDue
  <2>3. due = SettingsValidTicks + AfterExpiry
    BY <1>2, <2>1 DEF SettingsDue
  <2> QED
    BY <1>1, <1>2, <2>2, <2>3
<1>5. CASE Actuate
  <2>1. /\ Turn' = LoopTicks /\ SettingsLeft' = SettingsLeft
        /\ loopPc = "actuate" /\ loopPc' = "checkSettings"
    BY <1>5 DEF Actuate, Loop, Turn, SettingsLeft
  <2>2. SettingsDue = IF SettingsLeft > 0 THEN SettingsLeft + AfterExpiry
                                          ELSE Turn + LoopTicks
    BY <2>1 DEF SettingsDue
  <2>3. due = IF SettingsLeft = 0 THEN LoopTicks ELSE SettingsLeft + AfterExpiry
    BY <1>2, <2>1 DEF SettingsDue
  <2> QED
    BY <1>1, <1>2, <2>2, <2>3
<1>6. CASE SettingsExpire
  <2>1. /\ loopPc = "checkSettings" /\ loopPc' = "settings" /\ checkForSettings'
        /\ SettingsLeft = 0 /\ Turn' = Turn
    BY <1>2, <1>3, <1>6 DEF SettingsExpire
  <2> QED
    BY <1>1, <1>2, <2>1 DEF SettingsDue
<1>7. CASE SettingsStillValid
  <2>1. /\ SettingsLeft' = SettingsLeft /\ SettingsLeft > 0
        /\ loopPc = "checkSettings" /\ loopPc' = "checkInput"
    BY <1>2, <1>7, RemainingTicks DEF SettingsStillValid, SettingsLeft, TypeOK,
      LoopTypeOK, LoopShape
  <2> QED
    BY <1>1, <1>2, <2>1 DEF SettingsDue
<1>8. CASE \/ SkipSettings \/ ReceiveInput \/ ZeroInput \/ StampInput
           \/ KeepInput \/ InputExpire \/ InputStillValid
  <2>1. /\ SettingsLeft' = SettingsLeft /\ Turn' = Turn
        /\ UNCHANGED checkForSettings
        /\ loopPc = "settings" => ~checkForSettings
        /\ loopPc \notin {"stampSettings", "checkSettings"}
        /\ loopPc' \notin {"stampSettings", "checkSettings"}
    BY <1>3, <1>8 DEF SkipSettings, ReceiveInput, ZeroInput, StampInput,
      KeepInput, InputExpire, InputStillValid, SettingsLeft, CanReceive
  <2>2. SettingsDue = IF SettingsLeft > 0 THEN SettingsLeft + AfterExpiry
                                          ELSE Turn + LoopTicks
    BY <2>1 DEF SettingsDue
  <2>3. due \in {Turn, IF SettingsLeft > 0 THEN SettingsLeft + AfterExpiry
                                           ELSE Turn + LoopTicks}
    BY <1>2, <2>1 DEF SettingsDue
  <2> QED
    BY <1>1, <1>2, <2>2, <2>3
<1> QED
  BY <1>4, <1>5, <1>6, <1>7, <1>8 DEF Loop, LoopStep

LEMMA TickLowersSettingsDue ==
  ASSUME TypeOK, LoopShape, TypeOK', LoopShape', Tick
  PROVE  SettingsDue' <= SettingsDue - 1
<1> PICK due \in Nat : SettingsDue' = due
  BY SettingsTicksAfter DEF SettingsTicksOK
<1>1. /\ Turn' = Turn - 1 /\ Turn \in 1 .. LoopTicks
      /\ SettingsLeft' = IF SettingsLeft = 0 THEN 0 ELSE SettingsLeft - 1
      /\ SettingsLeft \in 0 .. SettingsValidTicks
      /\ UNCHANGED <<loopPc, checkForSettings, AfterExpiry>>
      /\ AfterExpiry \in Nat /\ AfterExpiry = 2 * LoopTicks - 1
  BY SettingsTicks, RemainingTicks DEF SettingsTicksOK, Tick, Turn, SettingsLeft, TypeOK,
    LoopTypeOK, LoopShape, AfterExpiry
<1>2. CASE loopPc = "stampSettings" \/ (loopPc = "settings" /\ checkForSettings)
  BY <1>1, <1>2 DEF SettingsDue
<1>3. CASE /\ loopPc # "stampSettings"
           /\ ~(loopPc = "settings" /\ checkForSettings)
  <2>1. SettingsDue =
          IF SettingsLeft > 0 THEN SettingsLeft + AfterExpiry
          ELSE IF loopPc = "checkSettings" THEN Turn ELSE Turn + LoopTicks
    BY <1>1, <1>3 DEF SettingsDue
  <2>2. due =
          IF SettingsLeft' > 0 THEN SettingsLeft' + AfterExpiry
          ELSE IF loopPc = "checkSettings" THEN Turn' ELSE Turn' + LoopTicks
    BY <1>1, <1>3 DEF SettingsDue
  <2> QED
    BY <1>1, <2>1, <2>2
<1> QED
  BY <1>2, <1>3

-----------------------------------------------------------------------------
(* The bound is kept by every step. *)

LEMMA LoopReadsSoon ==
  ASSUME SettingsInv, Inv', LoopShape', Loop
  PROVE  StampBeforeGap' /\ ReadSoon'
<1>1. UNCHANGED <<settingsQueue, settingsAge, GapOpen>>
  BY LoopFrame DEF SettingsInv, Inv, Loop, GapOpen, handlerVars
<1>2. ASSUME GapOpen, loopPc' = "stampSettings"
      PROVE  FALSE
  BY <1>2 DEF SettingsInv, Inv, Copies, Loop, LoopStep, ReadSettings,
    StampSettings, SkipSettings, ReceiveInput, ZeroInput, StampInput, KeepInput,
    Actuate, SettingsExpire, SettingsStillValid, InputExpire, InputStillValid,
    CanReceive
<1>3. ASSUME settingsQueue # <<>>
      PROVE  settingsBuf' = Peek(settingsQueue) \/ InTime(SettingsDue)'
  <2>1. CASE ReadSettings
    BY <2>1 DEF ReadSettings
  <2>2. CASE ~ReadSettings
    <3>1. settingsBuf' = settingsBuf /\ SettingsDue' <= SettingsDue
      BY <1>3, <2>2, LoopKeepsSettingsDue DEF SettingsInv, Inv
    <3>2. CASE settingsBuf = Peek(settingsQueue)
      BY <3>1, <3>2
    <3>3. CASE InTime(SettingsDue)
      <4>1. PICK due \in Nat : SettingsDue' = due
        BY SettingsTicksAfter DEF SettingsTicksOK, Inv
      <4>2. SettingsDue \in Nat /\ settingsAge \in Nat /\ AfterExpiry \in Nat
        BY SettingsTicks DEF SettingsInv, Inv, SettingsTicksOK
      <4> QED
        BY <1>1, <3>1, <3>3, <4>1, <4>2 DEF InTime, AfterExpiry
    <3> QED
      BY <1>3, <3>2, <3>3 DEF SettingsInv, ReadSoon
  <2> QED
    BY <2>1, <2>2
<1> QED
  BY <1>1, <1>2, <1>3 DEF StampBeforeGap, ReadSoon, Peek

LEMMA TickReadsSoon ==
  ASSUME SettingsInv, Inv', LoopShape', Tick
  PROVE  StampBeforeGap' /\ ReadSoon'
<1>1. /\ UNCHANGED <<settingsQueue, settingsBuf, loopPc, GapOpen>>
      /\ lag' = lag + 1 /\ lag \in Nat /\ settingsAge \in Nat
      /\ settingsAge' \in {settingsAge, settingsAge + 1}
  BY SettingsTicks DEF SettingsTicksOK, Tick, GapOpen, handlerVars, queueVars, SettingsInv, Inv
<1>2. StampBeforeGap'
  BY <1>1 DEF SettingsInv, StampBeforeGap
<1>3. PICK due \in Nat : SettingsDue' = due
  BY SettingsTicksAfter DEF SettingsTicksOK, Inv
<1>4. due <= SettingsDue - 1 /\ SettingsDue \in Nat /\ AfterExpiry \in Nat
  BY <1>3, SettingsTicks, TickLowersSettingsDue
      DEF SettingsTicksOK, SettingsInv, Inv
<1>5. ASSUME NEW wait \in {GapTicks, LoopTicks},
             settingsAge + SettingsDue <= wait + SettingsValidTicks + AfterExpiry
      PROVE  settingsAge' + due <= wait + SettingsValidTicks + AfterExpiry
  <2>1. PICK age \in Nat : settingsAge' = age /\ age <= settingsAge + 1
    BY <1>1
  <2>2. /\ wait + SettingsValidTicks + AfterExpiry \in Nat
        /\ age + due <= settingsAge + SettingsDue
    BY <1>1, <1>4, <2>1
  <2> QED
    BY <1>1, <1>4, <1>5, <2>1, <2>2
<1>6. InTime(SettingsDue) => InTime(SettingsDue)'
  BY <1>3, <1>5 DEF InTime, AfterExpiry
<1> QED
  BY <1>1, <1>2, <1>6 DEF SettingsInv, ReadSoon

(* The handler changes the queue in two steps: the reset, from which          *)
(* settingsAge counts, and at most GapTicks later the send.                   *)
LEMMA WincReadsSoon ==
  ASSUME SettingsInv, Inv', LoopShape', Handler \/ Arrive
  PROVE  StampBeforeGap' /\ ReadSoon'
<1>1. /\ UNCHANGED <<loopPc, lag, settingsBuf, Turn, SettingsLeft, SettingsDue>>
  BY DEF Handler, Arrive, loopVars, scheduleVars, Turn, SettingsLeft,
    SettingsDue, AfterExpiry
<1>2. /\ lag \in Nat /\ settingsAge \in Nat /\ Turn = LoopTicks - lag
      /\ SettingsDue \in Nat /\ AfterExpiry \in Nat
      /\ loopPc # "stampSettings" =>
           SettingsDue <= SettingsValidTicks + AfterExpiry
  BY SettingsTicks DEF SettingsInv, Inv, SettingsTicksOK
<1>3. CASE ResetSettingsQueue /\ Handler
  <2>1. settingsQueue' = <<>> /\ settingsAge' = 0
    BY <1>3 DEF ResetSettingsQueue, Handler, QueueReset
  <2> QED
    BY <1>1, <1>2, <2>1 DEF StampBeforeGap, ReadSoon
<1>4. CASE (SendSettings \/ SendDefaults) /\ Handler
  <2>1. GapOpen /\ ~GapOpen' /\ settingsAge' = settingsAge
    BY <1>4 DEF SendSettings, SendDefaults, Handler, GapOpen
  <2>2. InTime(SettingsDue)
    <3>1. CASE loopPc = "stampSettings"
      <4>1. SettingsDue = Turn + SettingsValidTicks + AfterExpiry
        BY <3>1 DEF SettingsDue
      <4>2. settingsAge <= lag
        BY <2>1, <3>1 DEF SettingsInv, StampBeforeGap
      <4> QED
        BY <1>2, <4>1, <4>2 DEF InTime
    <3>2. CASE loopPc # "stampSettings"
      <4>1. settingsAge <= GapTicks
        BY <2>1 DEF SettingsInv, LoopShape
      <4> QED
        BY <1>2, <3>2, <4>1 DEF InTime
    <3> QED
      BY <3>1, <3>2
  <2>3. InTime(SettingsDue)'
    BY <1>1, <2>1, <2>2 DEF InTime, AfterExpiry
  <2> QED
    BY <2>1, <2>3 DEF StampBeforeGap, ReadSoon
<1>5. CASE \/ Arrive
           \/ Handler /\ ~ResetSettingsQueue /\ ~SendSettings /\ ~SendDefaults
  <2>1. UNCHANGED settingsQueue
    BY <1>5 DEF Arrive, Receive, Handler, HandlerStep, queueVars, Boot, Enter,
      ParseToken, ResetControlQueue, SendControl, NoMoreTokens, SetDeviceName,
      DeviceNameRefused, PersistSettings, ResetNameQueue, SendName, Return,
      UseDefaults
  <2>2. CASE Arrive
    <3>1. ~GapOpen' /\ settingsAge' = settingsAge
      BY <2>2 DEF Arrive, Receive, Enter, FirstStep, GapOpen, scheduleVars
    <3>2. InTime(SettingsDue) => InTime(SettingsDue)'
      BY <1>1, <3>1 DEF InTime, AfterExpiry
    <3> QED
      BY <1>1, <2>1, <3>1, <3>2 DEF SettingsInv, StampBeforeGap, ReadSoon
  <2>3. CASE Handler /\ ~ResetSettingsQueue
    <3>1. winc \notin {"settingsReset", "defaultsReset"}
      BY <2>3 DEF Handler, HandlerStep, ResetSettingsQueue, Boot, ParseToken,
        ResetControlQueue, SendControl, NoMoreTokens, SetDeviceName,
        DeviceNameRefused, PersistSettings, ResetNameQueue, SendName,
        SendSettings, Return, UseDefaults, SendDefaults
    <3>2. ~GapOpen' /\ settingsAge' = settingsAge
      BY <2>3, <3>1, HandlerProgress DEF SettingsInv, Inv
    <3>3. InTime(SettingsDue) => InTime(SettingsDue)'
      BY <1>1, <3>2 DEF InTime, AfterExpiry
    <3> QED
      BY <1>1, <2>1, <3>2, <3>3 DEF SettingsInv, StampBeforeGap, ReadSoon
  <2> QED
    BY <1>5, <2>2, <2>3
<1> QED
  BY <1>3, <1>4, <1>5

LEMMA SettingsInvHolds == Spec => []SettingsInv
<1>1. Init => SettingsInv
  <2> SUFFICES ASSUME Init PROVE SettingsInv
    OBVIOUS
  <2>1. Inv
    BY InitInv
  <2>2. LoopShape
    BY StampedTicks DEF Init, InitLoop, InitHandler, LoopShape, GapOpen
  <2>3. StampBeforeGap /\ ReadSoon
    BY DEF Init, InitQueues, InitLoop, StampBeforeGap, ReadSoon
  <2> QED
    BY <2>1, <2>2, <2>3 DEF SettingsInv
<1>2. SettingsInv /\ [Next]_vars => SettingsInv'
  <2> SUFFICES ASSUME SettingsInv, [Next]_vars PROVE SettingsInv'
    OBVIOUS
  <2>1. Inv' /\ LoopShape'
    BY LoopInv, HandlerInv, ArriveInv, TickInv, LoopKeepsShape, OthersKeepShape
      DEF SettingsInv, Inv, Next
  <2>2. CASE UNCHANGED vars
    BY <2>1, <2>2 DEF vars, queueVars, loopVars, handlerVars, scheduleVars,
      SettingsInv, StampBeforeGap, ReadSoon, InTime, SettingsDue, SettingsLeft,
      Turn, GapOpen, AfterExpiry
  <2> QED
    BY <2>1, <2>2, LoopReadsSoon, TickReadsSoon, WincReadsSoon
      DEF SettingsInv, Next
<1> QED
  BY <1>1, <1>2, PTL DEF Spec

(* Once SettingsWait ticks have passed since the queue was last emptied, the  *)
(* loop runs with the settings in it (freertos_tasks.h:196-204, 229-236),     *)
(* however close to each other the changes before that were.                  *)
THEOREM SettingsAreRead == Spec => []SettingsReachLoop
<1>1. SettingsInv => SettingsReachLoop
  <2> SUFFICES ASSUME SettingsInv, settingsQueue # <<>>,
                      settingsAge = SettingsWait,
                      settingsBuf # Peek(settingsQueue)
               PROVE  FALSE
    BY DEF SettingsReachLoop
  <2>1. InTime(SettingsDue)
    BY DEF SettingsInv, ReadSoon
  <2>2. SettingsDue \in Nat /\ AfterExpiry = 2 * LoopTicks - 1
    BY SettingsTicks DEF SettingsInv, Inv, SettingsTicksOK
  <2> QED
    BY <2>1, <2>2 DEF InTime, SettingsWait
<1> QED
  BY <1>1, SettingsInvHolds, PTL
=============================================================================
