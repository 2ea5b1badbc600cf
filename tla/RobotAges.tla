----------------------------- MODULE RobotAges -----------------------------
(***************************************************************************)
(* RobotControl with history variables: how old the control inputs are, in *)
(* ticks since SendControl queued them.  No action of the robot reads      *)
(* them.                                                                   *)
(***************************************************************************)
EXTENDS RobotControl

CONSTANT MaxAge   \* where the ages stop counting

(***************************************************************************)
(* A control input can wait for one reading interval in the queue and be   *)
(* held for another.  An interval is the time an input is valid, plus what *)
(* the loop may lose: a slice between reading and stamping the input, the  *)
(* passes after the time-out is over, and those in which an empty settings *)
(* queue keeps the loop from looking at the input.                         *)
(***************************************************************************)
ReadInterval == InputValidTicks + GapTicks + 7 * LoopTicks
AgeBound == 2 * ReadInterval

ASSUME AgeAssumption == MaxAge \in Nat /\ MaxAge > AgeBound

VARIABLES
  queueAge,    \* age of the input in the queue
  heldAge,     \* age of the input in control_buf
  drivenAge    \* age of the input the actuators follow

ageVars == <<queueAge, heldAge, drivenAge>>
agedVars == <<vars, ageVars>>

Older(age) == IF age < MaxAge THEN age + 1 ELSE age

AgedInit == Init /\ queueAge = 0 /\ heldAge = 0 /\ drivenAge = 0

Reading == loopPc = "input" /\ readControlInput

AgedLoop ==
  /\ Loop
  /\ queueAge' = IF Reading THEN 0 ELSE queueAge
  /\ heldAge' = IF Reading /\ CanReceive(controlQueue) THEN queueAge
                                                       ELSE heldAge
  /\ drivenAge' = IF loopPc = "actuate" THEN heldAge ELSE drivenAge

AgedHandler ==
  /\ Handler
  /\ queueAge' = IF winc \in {"reset", "send"} THEN 0 ELSE queueAge
  /\ UNCHANGED <<heldAge, drivenAge>>

AgedArrive == Arrive /\ UNCHANGED ageVars

AgedTick ==
  /\ Tick
  /\ queueAge' = IF controlQueue = <<>> THEN 0 ELSE Older(queueAge)
  /\ heldAge' = IF controlBuf = Stop THEN 0 ELSE Older(heldAge)
  /\ drivenAge' = IF driven = Stop THEN 0 ELSE Older(drivenAge)

AgedNext == AgedLoop \/ AgedHandler \/ AgedArrive \/ AgedTick

AgedSpec == AgedInit /\ [][AgedNext]_agedVars /\ WF_agedVars(AgedLoop)
            /\ WF_agedVars(AgedHandler) /\ WF_agedVars(AgedTick)

-----------------------------------------------------------------------------
(* Properties. *)

AgesTypeOK ==
  queueAge \in 0 .. MaxAge /\ heldAge \in 0 .. MaxAge /\ drivenAge \in 0 .. MaxAge

AgedTypeOK == TypeOK /\ AgesTypeOK

(***************************************************************************)
(* The propeller never runs on a command that is older than AgeBound,      *)
(* whatever the order of the steps of the two tasks.  A command stays for  *)
(* up to two reading intervals, not for the one interval of                *)
(* TASK_CONTROL_INPUT_VALID_TIME_MS: it ages in the queue, too.            *)
(***************************************************************************)
StaleInputStops == driven # Stop => drivenAge <= AgeBound

\* The control path implements a dead man's switch.
DeadMan == INSTANCE DeadManSwitch
             WITH Item <- ControlItem, Idle <- Stop, Limit <- AgeBound,
                  output <- driven, age <- drivenAge

ImplementsDeadMan == DeadMan!Spec
=============================================================================
